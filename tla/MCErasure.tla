------------------------------ MODULE MCErasure ------------------------------
(* Small instances of AgreementErasure: at most two jobs of one source      *)
(* version, which therefore share the artifact key k1.                      *)
EXTENDS ErasureInvariant, TLC
CONSTANTS j1, j2, k1
KeyOfOne == [j \in Jobs |-> k1]
Symmetry == Permutations(Workers) \cup Permutations(Sweepers)
SymmetryOfJobs == Symmetry \cup Permutations(Jobs)
=============================================================================
