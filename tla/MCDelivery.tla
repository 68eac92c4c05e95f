----------------------------- MODULE MCDelivery -----------------------------
(* Small instances of WorkflowDelivery: a one-stage policy that one member   *)
(* satisfies, so a review has a start event and a terminal one.              *)
EXTENDS WorkflowDelivery, TLC
CONSTANTS u1, legal, w1, w2
RoleOfAll == [u \in Users |-> legal]
OneStage ==
    {[stages |-> <<[mode |-> "any", quorum |-> 0, roles |-> {legal}, users |-> {},
                    deadline |-> FALSE]>>,
      submitterMayApprove |-> TRUE, sameApproverAllowed |-> FALSE]}
WorkflowEvents == {<<"start">>, <<"decision", 1>>, <<"backfill">>}
Symmetry == Permutations(Workers) \cup Permutations(MessageIds)
=============================================================================
