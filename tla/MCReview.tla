------------------------------ MODULE MCReview ------------------------------
(* Small instances of what people wait for: reviews, with three members and *)
(* policies of one or two stages that exercise every approval mode and      *)
(* exception; and, each in a scene of its own because they share no state,  *)
(* question threads and the usage ledger.                                   *)
EXTENDS ReviewWorkflow, Questions, UsageLedger, TLC
CONSTANTS Scenes, u1, u2, u3, legal, business
VARIABLE scene

RoleOfThree == (u1 :> legal) @@ (u2 :> legal) @@ (u3 :> business)
AStage(mode, quorum, roles, users, deadline) ==
    [mode |-> mode, quorum |-> quorum, roles |-> roles, users |-> users,
     deadline |-> deadline]
Policy(stages, submitter, same) ==
    [stages |-> stages, submitterMayApprove |-> submitter, sameApproverAllowed |-> same]
Strict == Policy(<<AStage("quorum", 2, {legal}, {u3}, FALSE),
                   AStage("any", 0, {legal, business}, {}, FALSE)>>, FALSE, FALSE)
Lenient == Policy(<<AStage("any", 0, {legal}, {}, FALSE),
                    AStage("all", 0, {business}, {u1}, FALSE)>>, TRUE, TRUE)
Timed == Policy(<<AStage("any", 0, {legal}, {}, TRUE),
                  AStage("any", 0, {business}, {}, FALSE)>>, TRUE, FALSE)
Everyday == {Strict, Lenient, Timed}
SmallStage == {Policy(<<AStage("any", 0, {legal}, {}, FALSE)>>, TRUE, FALSE)}

\* A turn, a search and two submissions that send one idempotency key
RouteOfFour == [t1 |-> "turn", s1 |-> "search", j1 |-> "submit", j2 |-> "submit"]
KeyOfFour == [t1 |-> "t1", s1 |-> "s1", j1 |-> "key", j2 |-> "key"]
Estimates == [turn |-> 3, search |-> 1, submit |-> 4]

\* Agreements "a" and "b" are copies of one document, whose chunks overlap in
\* the anchor x; "b" has a later version, of which the guardrails refuse a chunk.
VersionsOfAgreement == [a |-> {"d1"}, b |-> {"d1", "d2"}]
DocumentOfChunk == [k1 |-> "d1", k2 |-> "d1", k3 |-> "d2", k4 |-> "d2"]
AnchorsOfChunk == [k1 |-> {"x"}, k2 |-> {"x", "y"}, k3 |-> {"z"}, k4 |-> {"h"}]
PreviewOfChunk == [k1 |-> {"term"}, k2 |-> {"term"}, k3 |-> {"term", "law"}, k4 |-> {"law"}]
ScopeOfThread == [t |-> {"a"}, u |-> {}]

Init ==
    /\ scene \in Scenes
    /\ ReviewInit /\ QuestionInit /\ UsageInit

Next ==
    /\ UNCHANGED scene
    /\ \/ scene = "review" /\ ReviewNext /\ UNCHANGED <<questionVars, usageVars>>
       \/ scene = "questions" /\ QuestionNext /\ UNCHANGED <<reviewVars, usageVars>>
       \/ scene = "usage" /\ UsageNext /\ UNCHANGED <<reviewVars, questionVars>>

Spec == Init /\ [][Next]_<<scene, reviewVars, questionVars, usageVars>>

\* The idempotency keys of the reviews are the callers of the questions.
Symmetry == Permutations(ClientKeys) \cup Permutations(Escalators)
=============================================================================
