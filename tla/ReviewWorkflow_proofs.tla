------------------------ MODULE ReviewWorkflow_proofs ------------------------
(***************************************************************************)
(* An approved review was approved by distinct eligible people, stage by   *)
(* stage, for any members, roles, policies and number of stages; and a     *)
(* decided or deleted review does not change.  The invariant says the same *)
(* of the approvals given so far, and of the stages before the active one. *)
(* A second invariant, proved on top of it, holds the review's tables      *)
(* together: stages, decisions, outbox, assignments and their notices.     *)
(***************************************************************************)
EXTENDS ReviewWorkflow, FiniteSetTheorems, TLAPS

Decision == [stage : Nat, actor : Users, action : {"approve", "reject", "request_changes"}]
WorkflowRow == [state : {"none", "waiting_for_approval"} \cup Terminal, active : Nat,
                revision : Nat, policy : Policies]

WorkflowTypeOK ==
    /\ decisions \in Seq(Decision)
    /\ workflow # NotStarted => workflow \in WorkflowRow /\ workflow.state # "none"
    /\ workflow = NotStarted => decisions = <<>>
    /\ workflow # NotStarted => DOMAIN stage = DOMAIN workflow.policy.stages
    /\ Waiting => workflow.active \in DOMAIN stage

\* The approvals of the stages that a decision may still add to
Independent ==
    \A s \in DOMAIN stage :
        LET by == Approvers(decisions, s)
        IN  /\ by \subseteq EligibleOf(StageRule(s))
            /\ Submitter \in by => workflow.policy.submitterMayApprove
            /\ \A t \in DOMAIN stage \ {s} :
                by \cap Approvers(decisions, t) # {} => workflow.policy.sameApproverAllowed

\* Stage s has what its rule asks for.
Passed(s) ==
    LET by == Approvers(decisions, s) rule == StageRule(s)
    IN  by # {} /\ (rule.mode = "quorum" => Cardinality(by) >= rule.quorum)

PassedInOrder ==
    /\ Waiting => \A s \in DOMAIN stage : s < workflow.active => Passed(s)
    /\ workflow.state = "approved" => \A s \in DOMAIN stage : Passed(s)

EarnedInv == WorkflowTypeOK /\ (workflow # NotStarted => Independent) /\ PassedInOrder

LEMMA EarnedInit == ReviewInit => EarnedInv
<1> SUFFICES ASSUME ReviewInit PROVE EarnedInv
  OBVIOUS
<1>1. workflow = NotStarted /\ decisions = <<>> /\ workflow.state = "none"
  BY DEF ReviewInit, WorkflowInit, NotStarted
<1>2. <<>> \in Seq(Decision)
  OBVIOUS
<1>3. WorkflowTypeOK
  BY <1>1, <1>2 DEF WorkflowTypeOK, Waiting
<1>4. PassedInOrder
  BY <1>1 DEF PassedInOrder, Waiting
<1> QED
  BY <1>1, <1>3, <1>4 DEF EarnedInv

\* A decision adds its actor to the approvers of its stage, if it approves.
LEMMA ApproversAfter ==
  ASSUME decisions \in Seq(Decision), NEW d \in Decision, NEW s
  PROVE  Approvers(Append(decisions, d), s) =
            IF s = d.stage /\ d.action = "approve"
            THEN Approvers(decisions, s) \cup {d.actor} ELSE Approvers(decisions, s)
<1> DEFINE ds == Append(decisions, d)
<1>1. Len(decisions) \in Nat /\ DOMAIN decisions = 1..Len(decisions)
  OBVIOUS
<1>2. DOMAIN ds = DOMAIN decisions \cup {Len(decisions) + 1}
  BY <1>1
<1>3. \A i \in DOMAIN decisions : ds[i] = decisions[i]
  BY <1>1
<1>4. ds[Len(decisions) + 1] = d
  BY <1>1
<1> HIDE DEF ds
<1>5. Approvers(ds, s) = IF s = d.stage /\ d.action = "approve"
                         THEN Approvers(decisions, s) \cup {d.actor}
                         ELSE Approvers(decisions, s)
  BY <1>2, <1>3, <1>4 DEF Approvers
<1> QED
  BY <1>5 DEF ds

\* Nothing but a decision touches what the invariant is about.
LEMMA OthersKeep ==
  ASSUME EarnedInv, UNCHANGED <<workflow, stage, decisions>> PROVE EarnedInv'
<1>1. /\ \A s : Approvers(decisions, s)' = Approvers(decisions, s)
      /\ \A s : StageRule(s)' = StageRule(s)
      /\ Waiting' <=> Waiting
  BY DEF Approvers, StageRule, Waiting
<1>2. \A rule : EligibleOf(rule)' = EligibleOf(rule)
  BY DEF EligibleOf
<1>3. WorkflowTypeOK'
  BY <1>1 DEF EarnedInv, WorkflowTypeOK
<1>4. Independent => Independent'
  BY <1>1, <1>2 DEF Independent
<1>5. PassedInOrder'
  BY <1>1 DEF EarnedInv, PassedInOrder, Passed
<1> QED
  BY <1>3, <1>4, <1>5 DEF EarnedInv

LEMMA StartKeeps ==
  ASSUME EarnedInv, NEW p \in Policies, StartWorkflow(p)
  PROVE  EarnedInv'
<1>1. /\ workflow' = [state |-> "waiting_for_approval", active |-> 1, revision |-> 0, policy |-> p]
      /\ stage' = [s \in DOMAIN p.stages |-> IF s = 1 THEN "active" ELSE "pending"]
      /\ decisions' = decisions /\ workflow.state = "none"
  BY DEF StartWorkflow
<1>2. decisions = <<>>
  BY <1>1 DEF EarnedInv, WorkflowTypeOK, NotStarted, WorkflowRow
<1>3. DOMAIN stage' = DOMAIN p.stages /\ 1 \in DOMAIN stage' /\ DOMAIN stage' \subseteq Nat \ {0}
  BY <1>1, PolicyAssumption
<1>4. \A s : Approvers(decisions', s) = {}
  BY <1>1, <1>2 DEF Approvers
<1>5. WorkflowTypeOK'
  BY <1>1, <1>2, <1>3 DEF WorkflowTypeOK, WorkflowRow, Waiting, NotStarted
<1>6. Independent'
  BY <1>4 DEF Independent
<1>7. PassedInOrder'
  BY <1>1, <1>3 DEF PassedInOrder, Waiting
<1> QED
  BY <1>5, <1>6, <1>7 DEF EarnedInv

\* A decision of the active stage: the checks of decide() keep the approvals
\* independent.
LEMMA DecisionIsIndependent ==
  ASSUME EarnedInv, Waiting, NEW u \in Users, NEW action \in DOMAIN Outcome,
         MayDecide(u, action), NEW a, a = workflow.active,
         decisions' = Append(decisions, [stage |-> a, actor |-> u, action |-> action]),
         workflow'.policy = workflow.policy, DOMAIN stage' = DOMAIN stage
  PROVE  Independent'
<1>1. /\ a \in DOMAIN stage /\ DOMAIN stage = DOMAIN workflow.policy.stages
      /\ workflow.policy \in Policies /\ decisions \in Seq(Decision) /\ a \in Nat
  BY DEF EarnedInv, WorkflowTypeOK, Waiting, NotStarted, WorkflowRow
<1>2. action \in {"approve", "reject", "request_changes"}
  BY DEF Outcome
<1>3. ASSUME NEW s
      PROVE  Approvers(decisions', s) = IF s = a /\ action = "approve"
                                        THEN Approvers(decisions, s) \cup {u}
                                        ELSE Approvers(decisions, s)
  <2> DEFINE d == [stage |-> a, actor |-> u, action |-> action]
  <2>1. d \in Decision /\ d.stage = a /\ d.actor = u /\ d.action = action
    BY <1>1, <1>2 DEF Decision
  <2>2. decisions' = Append(decisions, d)
    OBVIOUS
  <2> HIDE DEF d
  <2>3. Approvers(Append(decisions, d), s) =
            IF s = d.stage /\ d.action = "approve"
            THEN Approvers(decisions, s) \cup {d.actor} ELSE Approvers(decisions, s)
    BY <1>1, <2>1, ApproversAfter
  <2> QED
    BY <2>1, <2>2, <2>3
<1>4. Independent
  BY DEF EarnedInv, Waiting, NotStarted
<1>5. \A s : StageRule(s)' = StageRule(s)
  BY DEF StageRule
<1>6. u \in EligibleOf(StageRule(a))
  BY DEF MayDecide
<1>7. action = "approve" =>
        /\ u = Submitter => workflow.policy.submitterMayApprove
        /\ workflow.policy.sameApproverAllowed
             \/ \A s \in DOMAIN stage \ {a} : u \notin Approvers(decisions, s)
  BY DEF MayDecide
<1> SUFFICES ASSUME NEW s \in DOMAIN stage
             PROVE  /\ Approvers(decisions', s) \subseteq EligibleOf(StageRule(s))
                    /\ Submitter \in Approvers(decisions', s) =>
                         workflow.policy.submitterMayApprove
                    /\ \A t \in DOMAIN stage \ {s} :
                         Approvers(decisions', s) \cap Approvers(decisions', t) # {} =>
                             workflow.policy.sameApproverAllowed
  BY <1>5 DEF Independent, EligibleOf
<1>8. /\ Approvers(decisions, s) \subseteq EligibleOf(StageRule(s))
      /\ Submitter \in Approvers(decisions, s) => workflow.policy.submitterMayApprove
      /\ \A t \in DOMAIN stage \ {s} :
           Approvers(decisions, s) \cap Approvers(decisions, t) # {} =>
               workflow.policy.sameApproverAllowed
  BY <1>4 DEF Independent
<1>9. Approvers(decisions', s) \subseteq EligibleOf(StageRule(s))
  BY <1>3, <1>6, <1>8
<1>10. Submitter \in Approvers(decisions', s) => workflow.policy.submitterMayApprove
  BY <1>3, <1>7, <1>8
<1>11. ASSUME NEW t \in DOMAIN stage \ {s},
              Approvers(decisions', s) \cap Approvers(decisions', t) # {}
       PROVE  workflow.policy.sameApproverAllowed
  <2>1. PICK v : v \in Approvers(decisions', s) /\ v \in Approvers(decisions', t)
    BY <1>11
  <2>2. CASE v \in Approvers(decisions, s) /\ v \in Approvers(decisions, t)
    BY <1>8, <2>2
  <2>3. CASE v \notin Approvers(decisions, s)
    <3>1. s = a /\ action = "approve" /\ v = u /\ v \in Approvers(decisions, t)
      BY <1>3, <2>1, <2>3
    <3> QED
      BY <1>7, <3>1
  <2>4. CASE v \notin Approvers(decisions, t)
    <3>1. t = a /\ action = "approve" /\ v = u
      BY <1>3, <2>1, <2>4
    <3>2. s # a
      BY <1>11, <3>1
    <3>3. v \in Approvers(decisions, s)
      BY <1>3, <2>1, <3>2
    <3> QED
      BY <1>7, <3>1, <3>2, <3>3
  <2> QED
    BY <2>2, <2>3, <2>4
<1> QED
  BY <1>9, <1>10, <1>11

\* What the three outcomes of a decision do to the rows the invariant is about.
Recorded(wf, ds) == workflow' = [wf EXCEPT !.revision = workflow.revision + 1] /\ decisions' = ds

LEMMA DecideKeeps ==
  ASSUME EarnedInv, NEW u \in Users, NEW action \in DOMAIN Outcome, Decide(u, action),
         NEW a, a = workflow.active
  PROVE  EarnedInv'
<1> DEFINE ds == Append(decisions, [stage |-> a, actor |-> u, action |-> action])
           n == Len(workflow.policy.stages)
<1>1. /\ Waiting /\ MayDecide(u, action)
      /\ Terminate(u, action, ds) \/ Support(u, action, ds) \/ Advance(u, action, ds)
  BY DEF Decide
<1>2. /\ workflow \in WorkflowRow /\ workflow # NotStarted /\ decisions \in Seq(Decision)
      /\ DOMAIN stage = DOMAIN workflow.policy.stages /\ a \in DOMAIN stage
      /\ workflow.state = "waiting_for_approval"
  BY <1>1 DEF EarnedInv, WorkflowTypeOK, Waiting, NotStarted
<1>3. workflow.policy \in Policies /\ a \in Nat /\ workflow.revision + 1 \in Nat
  BY <1>2 DEF WorkflowRow
<1>4. n \in Nat /\ DOMAIN stage = 1..n
  BY <1>2, <1>3, PolicyAssumption
<1>5. action \in {"approve", "reject", "request_changes"}
  BY DEF Outcome
<1>6. /\ ds \in Seq(Decision)
      /\ \A s : Approvers(ds, s) = IF s = a /\ action = "approve"
                                   THEN Approvers(decisions, s) \cup {u}
                                   ELSE Approvers(decisions, s)
  <2> DEFINE d == [stage |-> a, actor |-> u, action |-> action]
  <2>1. d \in Decision /\ d.stage = a /\ d.actor = u /\ d.action = action
    BY <1>3, <1>5 DEF Decision
  <2> HIDE DEF d
  <2>2. Append(decisions, d) \in Seq(Decision)
    BY <1>2, <2>1
  <2>3. ASSUME NEW s
        PROVE  Approvers(Append(decisions, d), s) =
                 IF s = d.stage /\ d.action = "approve"
                 THEN Approvers(decisions, s) \cup {d.actor} ELSE Approvers(decisions, s)
    BY <1>2, <2>1, ApproversAfter
  <2> QED
    BY <2>1, <2>2, <2>3 DEF d
<1> HIDE DEF ds
<1>7. \A s \in DOMAIN stage : s < a => Passed(s)
  BY <1>1 DEF EarnedInv, PassedInOrder
<1>8. ASSUME decisions' = ds, workflow' \in WorkflowRow, workflow'.state # "none",
             workflow'.policy = workflow.policy, DOMAIN stage' = DOMAIN stage,
             Waiting' => workflow'.active \in DOMAIN stage, PassedInOrder'
      PROVE  EarnedInv'
  <2>1. Independent'
    BY <1>1, <1>8, DecisionIsIndependent DEF ds
  <2>2. workflow' # NotStarted
    BY <1>8 DEF NotStarted
  <2>3. WorkflowTypeOK'
    BY <1>2, <1>6, <1>8, <2>2 DEF WorkflowTypeOK
  <2> QED
    BY <1>8, <2>1, <2>3 DEF EarnedInv
\* the stages before the active one have what they had
<1>9. ASSUME decisions' = ds, workflow'.policy = workflow.policy,
             NEW s \in DOMAIN stage, s < a
      PROVE  Passed(s)'
  <2>1. s # a
    BY <1>3, <1>4, <1>9
  <2>4. Approvers(ds, s) = Approvers(decisions, s)
    BY <1>6, <2>1
  <2>2. StageRule(s)' = StageRule(s)
    BY <1>9 DEF StageRule
  <2> QED
    BY <1>7, <1>9, <2>2, <2>4 DEF Passed
<1>10. CASE Terminate(u, action, ds)
  <2>1. /\ Recorded([workflow EXCEPT !.state = Outcome[action], !.active = 0], ds)
        /\ DOMAIN stage' = DOMAIN stage /\ action \in {"reject", "request_changes"}
    BY <1>10 DEF Terminate, Record, Recorded
  <2>2. Outcome[action] \in {"rejected", "revision_requested"}
    BY <2>1 DEF Outcome
  <2>3. /\ workflow' \in WorkflowRow /\ workflow'.policy = workflow.policy
        /\ workflow'.state = Outcome[action]
    BY <1>2, <1>3, <2>1, <2>2 DEF Recorded, WorkflowRow, Terminal
  <2> QED
    BY <1>8, <2>1, <2>2, <2>3 DEF Recorded, PassedInOrder, Waiting
<1>11. CASE Support(u, action, ds)
  <2>1. Recorded(workflow, ds) /\ stage' = stage
    BY <1>11 DEF Support, Record, Recorded
  <2>2. /\ workflow' \in WorkflowRow /\ workflow'.policy = workflow.policy
        /\ workflow'.state = "waiting_for_approval" /\ workflow'.active = a
    BY <1>2, <1>3, <2>1 DEF Recorded, WorkflowRow
  <2>3. PassedInOrder'
    BY <1>9, <2>1, <2>2 DEF PassedInOrder, Recorded
  <2> QED
    BY <1>2, <1>8, <2>1, <2>2, <2>3 DEF Recorded
<1>12. CASE Advance(u, action, ds)
  <2>1. action = "approve" /\ Satisfied(ds, a) /\ DOMAIN stage' = DOMAIN stage
    BY <1>12 DEF Advance
  <2>2. ASSUME decisions' = ds, workflow'.policy = workflow.policy PROVE Passed(a)'
    <3>1. u \in Approvers(decisions', a)
      BY <1>6, <2>1, <2>2
    <3>2. StageRule(a).mode = "quorum" =>
            Cardinality(Approvers(decisions', a)) >= StageRule(a).quorum
      BY <2>1, <2>2 DEF Satisfied
    <3> QED
      BY <2>2, <3>1, <3>2 DEF Passed, StageRule
  <2>3. CASE a + 1 \in DOMAIN stage
    <3>1. Recorded([workflow EXCEPT !.active = a + 1], ds)
      BY <1>12, <2>3 DEF Advance, Record, Recorded
    <3>2. /\ workflow' \in WorkflowRow /\ workflow'.policy = workflow.policy
          /\ workflow'.state = "waiting_for_approval" /\ workflow'.active = a + 1
      <4>1. a + 1 \in Nat
        BY <1>3
      <4> QED
        BY <1>2, <1>3, <3>1, <4>1 DEF Recorded, WorkflowRow
    <3>3. ASSUME NEW s \in DOMAIN stage, s < a + 1 PROVE Passed(s)'
      <4>1. s < a \/ s = a
        BY <1>3, <1>4, <3>3
      <4> QED
        BY <1>9, <2>2, <3>1, <3>2, <4>1 DEF Recorded
    <3>4. PassedInOrder'
      BY <2>1, <3>2, <3>3 DEF PassedInOrder
    <3> QED
      BY <1>8, <2>1, <2>3, <3>1, <3>2, <3>4 DEF Recorded
  <2>4. CASE a + 1 \notin DOMAIN stage
    <3>1. Recorded([workflow EXCEPT !.state = "approved", !.active = 0], ds)
      BY <1>12, <2>4 DEF Advance, Record, Recorded
    <3>2. /\ workflow' \in WorkflowRow /\ workflow'.policy = workflow.policy
          /\ workflow'.state = "approved"
      BY <1>2, <1>3, <3>1 DEF Recorded, WorkflowRow, Terminal
    <3>3. ASSUME NEW s \in DOMAIN stage PROVE Passed(s)'
      <4>1. s < a \/ s = a
        BY <1>2, <1>3, <1>4, <2>4, <3>3
      <4> QED
        BY <1>9, <2>2, <3>1, <3>2, <3>3, <4>1 DEF Recorded
    <3>4. PassedInOrder'
      BY <2>1, <3>2, <3>3 DEF PassedInOrder, Waiting
    <3> QED
      BY <1>8, <2>1, <3>1, <3>2, <3>4 DEF Recorded, Waiting
  <2> QED
    BY <2>3, <2>4
<1> QED
  BY <1>1, <1>10, <1>11, <1>12

LEMMA EarnedStep == EarnedInv /\ [ReviewNext]_reviewVars => EarnedInv'
<1> SUFFICES ASSUME EarnedInv, [ReviewNext]_reviewVars PROVE EarnedInv'
  OBVIOUS
<1>1. CASE \E p \in Policies : StartWorkflow(p)
  BY <1>1, StartKeeps
<1>2. CASE \E u \in Users, action \in DOMAIN Outcome : Decide(u, action)
  BY <1>2, DecideKeeps
<1>3. CASE UNCHANGED <<workflow, stage, decisions>>
  BY <1>3, OthersKeep
<1>4. \/ \E p \in Policies : StartWorkflow(p)
      \/ \E u \in Users, action \in DOMAIN Outcome : Decide(u, action)
      \/ UNCHANGED <<workflow, stage, decisions>>
  BY DEF ReviewNext, WorkflowStep, workflowVars, reviewVars, ReadWorkflow, DeadlinePasses,
         EscalateRead, EscalateCommit
<1> QED
  BY <1>1, <1>2, <1>3, <1>4

LEMMA EarnedIsEarned == EarnedInv => ApprovedIsEarned
<1> SUFFICES ASSUME EarnedInv, workflow.state = "approved", NEW s \in DOMAIN stage
             PROVE  LET by == Approvers(decisions, s) rule == StageRule(s)
                    IN  /\ by # {} /\ by \subseteq EligibleOf(rule)
                        /\ rule.mode = "quorum" => Cardinality(by) >= rule.quorum
                        /\ Submitter \in by => workflow.policy.submitterMayApprove
                        /\ \A t \in DOMAIN stage \ {s} :
                            by \cap Approvers(decisions, t) # {} =>
                                workflow.policy.sameApproverAllowed
  BY DEF ApprovedIsEarned
<1>1. workflow # NotStarted
  BY DEF NotStarted
<1>2. Passed(s)
  BY DEF EarnedInv, PassedInOrder
<1> QED
  BY <1>1, <1>2 DEF EarnedInv, Independent, Passed

\* A review is approved only by distinct eligible people, as many as each stage
\* asks for, whatever is decided, transferred, escalated or read in between
\* (decide() and _stage_is_satisfied).
THEOREM ApprovalIsEarned == ReviewSpec => []ApprovedIsEarned
<1> QED
  BY EarnedInit, EarnedStep, EarnedIsEarned, PTL DEF ReviewSpec

\* A decided workflow keeps its outcome, stages and decisions, and a review of
\* a deleted agreement changes in nothing.
THEOREM OutcomesAreFinal == ReviewSpec => OutcomeIsFinal
<1>1. ASSUME ReviewNext, workflow.state \in Terminal
      PROVE  UNCHANGED <<workflow, stage, decisions>>
  BY <1>1 DEF ReviewNext, WorkflowStep, workflowVars, ReadWorkflow, DeadlinePasses, Terminal,
              EscalateRead, EscalateCommit, StartWorkflow, Decide, Waiting
<1>2. ASSUME ReviewNext, tombstoned
      PROVE  UNCHANGED <<review, assignment, comments, workflow, decisions>>
  BY <1>2 DEF ReviewNext, WorkflowStep, workflowVars, caseVars, ReadWorkflow, DeadlinePasses,
              EscalateRead, EscalateCommit, StartWorkflow, Decide, Locked, StartReview,
              Collaborate, Assign, Transfer, Comment, AcceptDeletion
<1>3. [ReviewNext]_reviewVars =>
        [/\ workflow.state \in Terminal => UNCHANGED <<workflow, stage, decisions>>
         /\ tombstoned => UNCHANGED <<review, assignment, comments, workflow, decisions>>]_reviewVars
  BY <1>1, <1>2
<1> QED
  BY <1>3, PTL DEF ReviewSpec, OutcomeIsFinal

-----------------------------------------------------------------------------
(***************************************************************************)
(* The rest of the review's tables.  The invariant adds to the properties  *)
(* what makes them inductive: nothing exists of a workflow that has not    *)
(* started, the keys of a stage's assignments appear when the stage does,  *)
(* a decision is not ahead of the active stage, what somebody has read is  *)
(* not ahead of the revision, and a predecessor is a row of the table.     *)
(***************************************************************************)
StageKey == {"stage"} \X Nat \X Users
AssignmentRow == [assignee : Users, status : {"active", "completed"} \cup HandedOn,
                  from : ClientKeys \cup StageKey \cup {None}]

RowsTypeOK ==
    /\ assignment \in [DOMAIN assignment -> AssignmentRow]
    /\ DOMAIN assignment \subseteq ClientKeys \cup StageKey
    /\ review \in [state : {"none", "open"} \cup Terminal, revision : Int]
    /\ seen \in [Users -> {None} \cup [revision : Nat, active : Nat]]

\* Nothing precedes the start of the workflow.
Beginning ==
    workflow = NotStarted =>
        /\ stage = <<>>
        /\ \A v \in events : v.kind # "terminal"
        /\ \A u \in Users : seen[u] = None
        /\ DOMAIN assignment \subseteq ClientKeys

SeenIsPast ==
    \A u \in Users : seen[u] # None =>
        /\ seen[u].revision <= workflow.revision
        /\ seen[u].revision = workflow.revision => seen[u].active = workflow.active

DecisionsArePast == Waiting => \A i \in DOMAIN decisions : decisions[i].stage <= workflow.active

StageWorkIsKnown ==
    \A s \in Nat, u \in Users : AssigneeKey(s, u) \in DOMAIN assignment =>
        s \in DOMAIN stage /\ stage[s] # "pending"

PredecessorsExist ==
    \A k \in DOMAIN assignment : assignment[k].from \in DOMAIN assignment \cup {None}

Linear ==
    \A k \in DOMAIN assignment :
        IF assignment[k].status \in HandedOn THEN \E l \in DOMAIN assignment : Successors(k) = {l}
                                             ELSE Successors(k) = {}

TerminalEvents == {v \in events : v.kind = "terminal"}
History ==
    /\ workflow.revision = Len(decisions)
    /\ \A i \in DOMAIN decisions : \E v \in events : v.key = <<"decision", i>>
    /\ IF workflow.state \in Terminal THEN \E v \in events : TerminalEvents = {v} ELSE TerminalEvents = {}
    /\ \A v \in TerminalEvents :
        /\ v.snapshot.state = workflow.state
        /\ v.snapshot.revision = workflow.revision
        /\ v.snapshot.decisions = decisions
        /\ v.snapshot.open = {} \/ workflow.state = "approved"

TablesInv ==
    /\ RowsTypeOK /\ Beginning /\ SeenIsPast /\ DecisionsArePast /\ StageWorkIsKnown
    /\ PredecessorsExist /\ StagesAreInOrder /\ History /\ Linear /\ AssigneesAreNotified

LEMMA StageKeysDiffer ==
  /\ \A s \in Nat, u \in Users : AssigneeKey(s, u) \in StageKey \ (ClientKeys \cup {None})
  /\ \A s, t \in Nat, u, v \in Users : AssigneeKey(s, u) = AssigneeKey(t, v) => s = t /\ u = v
  /\ \A k \in StageKey : k \notin ClientKeys /\ \E s \in Nat, u \in Users : k = AssigneeKey(s, u)
  /\ None \notin ClientKeys \cup StageKey
BY KeyAssumption DEF AssigneeKey, StageKey

\* What a decision does, in terms of the row the workflow ends up with
Ended(a) ==
    /\ workflow'.state \in {"rejected", "revision_requested"}
    /\ stage' = [stage EXCEPT ![a] = "completed"]
    /\ assignment' = Completed(assignment, DOMAIN assignment)
    /\ notified' = notified
Supported(a) ==
    /\ workflow'.state = "waiting_for_approval" /\ workflow'.active = a
    /\ UNCHANGED <<stage, assignment, notified>>
MovedOn(a) ==
    /\ a + 1 \in DOMAIN stage
    /\ workflow'.state = "waiting_for_approval" /\ workflow'.active = a + 1
    /\ stage' = [stage EXCEPT ![a] = "completed", ![a + 1] = "active"]
    /\ assignment' = Activated(Completed(assignment, StageKeys(a)), StageRule(a + 1), a + 1)
    /\ notified' = notified \cup ActivationNotices(StageRule(a + 1), a + 1)
Approved(a) ==
    /\ a + 1 \notin DOMAIN stage
    /\ workflow'.state = "approved"
    /\ stage' = [stage EXCEPT ![a] = "completed"]
    /\ assignment' = Completed(assignment, StageKeys(a))
    /\ notified' = notified

LEMMA DecisionEffect ==
  ASSUME EarnedInv, NEW u \in Users, NEW action \in DOMAIN Outcome, Decide(u, action),
         NEW a, a = workflow.active
  PROVE  /\ workflow \in WorkflowRow /\ Waiting /\ SawCurrent(u) /\ Locked
         /\ a \in DOMAIN stage /\ a \in Nat
         /\ workflow.policy \in Policies /\ DOMAIN stage = 1..Len(workflow.policy.stages)
         /\ Len(workflow.policy.stages) \in Nat
         /\ decisions \in Seq(Decision)
         /\ decisions' = Append(decisions, [stage |-> a, actor |-> u, action |-> action])
         /\ workflow'.revision = workflow.revision + 1
         /\ workflow'.policy = workflow.policy
         /\ Ended(a) \/ Supported(a) \/ MovedOn(a) \/ Approved(a)
         /\ events' = events \cup
               {Event(<<"decision", Len(decisions')>>,
                      IF workflow'.state \in Terminal THEN "terminal" ELSE "resume",
                      IF workflow'.state \in Terminal
                      THEN Snapshot(workflow', assignment', decisions') ELSE None)}
         /\ review' = [review EXCEPT !.state = IF workflow'.state \in Terminal
                                               THEN workflow'.state ELSE @]
         /\ UNCHANGED <<tombstoned, comments, seen>>
<1> DEFINE ds == Append(decisions, [stage |-> a, actor |-> u, action |-> action])
<1>1. /\ Waiting /\ SawCurrent(u) /\ Locked /\ UNCHANGED <<tombstoned, comments, seen>>
      /\ Terminate(u, action, ds) \/ Support(u, action, ds) \/ Advance(u, action, ds)
  BY DEF Decide
<1>2. /\ workflow \in WorkflowRow /\ decisions \in Seq(Decision) /\ a \in DOMAIN stage
      /\ DOMAIN stage = DOMAIN workflow.policy.stages
      /\ workflow.state = "waiting_for_approval"
  BY <1>1 DEF EarnedInv, WorkflowTypeOK, Waiting, NotStarted
<1>3. /\ workflow.policy \in Policies /\ DOMAIN stage = 1..Len(workflow.policy.stages)
      /\ Len(workflow.policy.stages) \in Nat /\ a \in Nat
  BY <1>2, PolicyAssumption DEF WorkflowRow
<1> HIDE DEF ds
\* every outcome goes through Record
<1>4. ASSUME NEW wf \in WorkflowRow, NEW asg, Record(wf, asg, ds), wf.policy = workflow.policy
      PROVE  /\ decisions' = ds /\ assignment' = asg
             /\ workflow'.state = wf.state /\ workflow'.active = wf.active
             /\ workflow'.policy = workflow.policy
             /\ workflow'.revision = workflow.revision + 1
             /\ events' = events \cup
                   {Event(<<"decision", Len(decisions')>>,
                          IF workflow'.state \in Terminal THEN "terminal" ELSE "resume",
                          IF workflow'.state \in Terminal
                          THEN Snapshot(workflow', assignment', decisions') ELSE None)}
             /\ review' = [review EXCEPT !.state = IF workflow'.state \in Terminal
                                                   THEN workflow'.state ELSE @]
  <2>1. workflow' = [wf EXCEPT !.revision = workflow.revision + 1] /\ decisions' = ds
        /\ assignment' = asg
    BY <1>4 DEF Record
  <2>2. /\ workflow'.state = wf.state /\ workflow'.active = wf.active
        /\ workflow'.policy = wf.policy /\ workflow'.revision = workflow.revision + 1
    BY <1>4, <2>1 DEF WorkflowRow
  <2>3. events' = events \cup
           {Event(<<"decision", Len(ds)>>,
                  IF workflow'.state \in Terminal THEN "terminal" ELSE "resume",
                  IF workflow'.state \in Terminal THEN Snapshot(workflow', asg, ds) ELSE None)}
    BY <1>4, <2>1 DEF Record
  <2>4. review' = [review EXCEPT !.state = IF workflow'.state \in Terminal
                                           THEN workflow'.state ELSE @]
    BY <1>4, <2>1 DEF Record
  <2> QED
    BY <1>4, <2>1, <2>2, <2>3, <2>4
<1>5. CASE Terminate(u, action, ds)
  <2> DEFINE wf == [workflow EXCEPT !.state = Outcome[action], !.active = 0]
  <2>1. /\ action \in {"reject", "request_changes"}
        /\ Record(wf, Completed(assignment, DOMAIN assignment), ds)
        /\ stage' = [stage EXCEPT ![a] = "completed"] /\ notified' = notified
    BY <1>5 DEF Terminate
  <2>2. Outcome[action] \in {"rejected", "revision_requested"}
    BY <2>1 DEF Outcome
  <2>3. /\ wf \in WorkflowRow /\ wf.policy = workflow.policy
        /\ wf.state \in {"rejected", "revision_requested"}
    BY <1>2, <2>2 DEF WorkflowRow, Terminal
  <2> HIDE DEF wf
  <2> QED
    BY <1>1, <1>2, <1>3, <1>4, <2>1, <2>3 DEF Ended, ds
<1>6. CASE Support(u, action, ds)
  <2>1. Record(workflow, assignment, ds) /\ stage' = stage /\ notified' = notified
    BY <1>6 DEF Support
  <2> QED
    BY <1>1, <1>2, <1>3, <1>4, <2>1 DEF Supported, ds
<1>7. CASE Advance(u, action, ds)
  <2>1. CASE a + 1 \in DOMAIN stage
    <3> DEFINE wf == [workflow EXCEPT !.active = a + 1]
               asg == Activated(Completed(assignment, StageKeys(a)), StageRule(a + 1), a + 1)
    <3>1. /\ Record(wf, asg, ds)
          /\ stage' = [stage EXCEPT ![a] = "completed", ![a + 1] = "active"]
          /\ notified' = notified \cup ActivationNotices(StageRule(a + 1), a + 1)
      BY <1>7, <2>1 DEF Advance
    <3>2. wf \in WorkflowRow /\ wf.policy = workflow.policy
          /\ wf.state = "waiting_for_approval" /\ wf.active = a + 1
      BY <1>2, <1>3 DEF WorkflowRow
    <3>3. asg = Activated(Completed(assignment, StageKeys(a)), StageRule(a + 1), a + 1)
      OBVIOUS
    <3> HIDE DEF wf, asg
    <3> QED
      BY <1>1, <1>2, <1>3, <1>4, <2>1, <3>1, <3>2, <3>3 DEF MovedOn, ds
  <2>2. CASE a + 1 \notin DOMAIN stage
    <3> DEFINE wf == [workflow EXCEPT !.state = "approved", !.active = 0]
    <3>1. /\ Record(wf, Completed(assignment, StageKeys(a)), ds)
          /\ stage' = [stage EXCEPT ![a] = "completed"] /\ notified' = notified
      BY <1>7, <2>2 DEF Advance
    <3>2. wf \in WorkflowRow /\ wf.policy = workflow.policy /\ wf.state = "approved"
      BY <1>2, <1>3 DEF WorkflowRow, Terminal
    <3> HIDE DEF wf
    <3> QED
      BY <1>1, <1>2, <1>3, <1>4, <2>2, <3>1, <3>2 DEF Approved, ds
  <2> QED
    BY <2>1, <2>2
<1> QED
  BY <1>1, <1>5, <1>6, <1>7

\* What a step of the review can be
LEMMA ReviewSteps ==
  ASSUME [ReviewNext]_reviewVars
  PROVE  \/ \E p \in Policies : StartWorkflow(p)
         \/ \E u \in Users : ReadWorkflow(u)
         \/ \E u \in Users, action \in DOMAIN Outcome : Decide(u, action)
         \/ StartReview /\ UNCHANGED workflowVars
         \/ \E u \in Users, key \in ClientKeys : Assign(u, key) /\ UNCHANGED workflowVars
         \/ \E u \in Users, key \in ClientKeys, kind \in HandedOn :
              \E old \in DOMAIN assignment, expected \in Int :
                Transfer(old, u, key, kind, expected) /\ UNCHANGED workflowVars
         \/ \E e \in Escalators : EscalateCommit(e)
         \/ /\ UNCHANGED <<review, assignment, workflow, stage, decisions, events, seen>>
            /\ notified \subseteq notified'
<1>1. CASE UNCHANGED reviewVars
  BY <1>1 DEF reviewVars, caseVars, workflowVars
<1>2. CASE AcceptDeletion /\ UNCHANGED workflowVars
  BY <1>2 DEF AcceptDeletion, workflowVars
<1>3. CASE Collaborate /\ UNCHANGED workflowVars
  <2>1. CASE \E u \in Users, key \in CommentKeys : Comment(u, key)
    BY <1>3, <2>1 DEF Comment, workflowVars
  <2> QED
    BY <1>3, <2>1 DEF Collaborate
<1>4. ASSUME NEW s \in DOMAIN stage, DeadlinePasses(s)
      PROVE  /\ UNCHANGED <<review, assignment, workflow, stage, decisions, events, seen>>
             /\ notified' = notified
  BY <1>4 DEF DeadlinePasses, caseVars
<1>5. ASSUME NEW e \in Escalators, EscalateRead(e)
      PROVE  /\ UNCHANGED <<review, assignment, workflow, stage, decisions, events, seen>>
             /\ notified' = notified
  BY <1>5 DEF EscalateRead, caseVars
<1> QED
  BY <1>1, <1>2, <1>3, <1>4, <1>5 DEF ReviewNext, WorkflowStep

-----------------------------------------------------------------------------
(* Whatever becomes of the assignments is one of two things: a transfer, or *)
(* rows are closed and new active ones added whose assignees are told.      *)
Grown ==
    /\ DOMAIN assignment \subseteq DOMAIN assignment'
    /\ \A k \in DOMAIN assignment :
        /\ assignment'[k].from = assignment[k].from
        /\ assignment'[k].assignee = assignment[k].assignee
        /\ \/ assignment'[k].status = assignment[k].status
           \/ assignment[k].status = "active" /\ assignment'[k].status = "completed"
    /\ \A k \in DOMAIN assignment' \ DOMAIN assignment :
        /\ assignment'[k].status = "active" /\ assignment'[k].from = None
        /\ \E n \in notified' : n.key = k /\ n.recipient = assignment'[k].assignee
    /\ notified \subseteq notified'

\* _complete_assignments keeps every row and closes the active ones it is for.
LEMMA CompletedRows ==
  ASSUME RowsTypeOK, NEW keys
  PROVE  LET asg == Completed(assignment, keys)
         IN  /\ asg \in [DOMAIN assignment -> AssignmentRow]
             /\ \A k \in DOMAIN assignment :
                 /\ asg[k].from = assignment[k].from
                 /\ asg[k].assignee = assignment[k].assignee
                 /\ asg[k].status = IF k \in keys /\ assignment[k].status = "active"
                                    THEN "completed" ELSE assignment[k].status
<1> DEFINE asg == Completed(assignment, keys)
<1>1. asg = [k \in DOMAIN assignment |->
                IF k \in keys /\ assignment[k].status = "active"
                THEN [assignment[k] EXCEPT !.status = "completed"] ELSE assignment[k]]
  BY DEF Completed
<1> HIDE DEF asg
<1>2. ASSUME NEW k \in DOMAIN assignment
      PROVE  /\ asg[k] \in AssignmentRow
             /\ asg[k].from = assignment[k].from
             /\ asg[k].assignee = assignment[k].assignee
             /\ asg[k].status = IF k \in keys /\ assignment[k].status = "active"
                                THEN "completed" ELSE assignment[k].status
  BY <1>1 DEF RowsTypeOK, AssignmentRow
<1> QED
  BY <1>1, <1>2 DEF asg

ActivationKeys(rule, s) == {AssigneeKey(s, u) : u \in EligibleOf(rule)}

\* Table new is asg with the rows of stage s added, which are announced.
AddsRows(asg, new, rule, s) ==
    /\ new \in [DOMAIN assignment \cup ActivationKeys(rule, s) -> AssignmentRow]
    /\ \A k \in DOMAIN assignment : new[k] = asg[k]
    /\ \A k \in ActivationKeys(rule, s) :
        /\ new[k].status = "active" /\ new[k].from = None
        /\ \E n \in ActivationNotices(rule, s) : n.key = k /\ n.recipient = new[k].assignee

\* _activate_assignments adds rows for a stage that has none and tells their
\* assignees.
LEMMA ActivatedRows ==
  ASSUME NEW asg \in [DOMAIN assignment -> AssignmentRow], NEW rule, NEW s \in Nat,
         EligibleOf(rule) \subseteq Users,
         \A u \in Users : AssigneeKey(s, u) \notin DOMAIN assignment
  PROVE  AddsRows(asg, Activated(asg, rule, s), rule, s)
<1> DEFINE D == DOMAIN assignment
           new == Activated(asg, rule, s)
           keys == ActivationKeys(rule, s)
<1>1. new = [k \in D \cup keys |->
                IF k \notin keys THEN asg[k]
                ELSE IF k \in D THEN [asg[k] EXCEPT !.status = "active"]
                ELSE NewAssignment(k[3], None)]
  BY DEF Activated, ActivationKeys
<1>2. \A k \in keys : \E u \in EligibleOf(rule) :
        k = AssigneeKey(s, u) /\ k[3] = u /\ u \in Users /\ k \notin D
  BY DEF AssigneeKey, ActivationKeys
<1>3. \A u \in EligibleOf(rule) : AssigneeKey(s, u) \in keys
  BY DEF ActivationKeys
<1> HIDE DEF new, keys
<1>4. ASSUME NEW k \in D PROVE new[k] = asg[k] /\ asg[k] \in AssignmentRow
  BY <1>1, <1>2
<1>5. ASSUME NEW k \in keys
      PROVE  /\ new[k] \in AssignmentRow /\ new[k].status = "active" /\ new[k].from = None
             /\ \E n \in ActivationNotices(rule, s) : n.key = k /\ n.recipient = new[k].assignee
  <2>1. PICK u \in EligibleOf(rule) : k = AssigneeKey(s, u) /\ k[3] = u /\ u \in Users /\ k \notin D
    BY <1>2
  <2>2. new[k] = NewAssignment(u, None)
    BY <1>1, <2>1
  <2>3. Notice("created", AssigneeKey(s, u), u) \in ActivationNotices(rule, s)
    BY <2>1 DEF ActivationNotices
  <2> QED
    BY <2>1, <2>2, <2>3 DEF NewAssignment, AssignmentRow, Notice
<1>6. new \in [D \cup keys -> AssignmentRow]
  <2>1. \A k \in D \cup keys : new[k] \in AssignmentRow
    BY <1>4, <1>5
  <2> QED
    BY <1>1, <2>1
<1> QED
  BY <1>4, <1>5, <1>6 DEF new, keys, AddsRows

\* The rule of a stage of a published policy names members only.
LEMMA EligibleAreUsers ==
  ASSUME NEW p \in Policies, NEW s \in DOMAIN p.stages
  PROVE  EligibleOf(p.stages[s]) \subseteq Users
<1>1. p.stages[s] \in Stage
  BY PolicyAssumption
<1> QED
  BY <1>1 DEF EligibleOf, Stage

\* What a step does to the assignments
AssignmentsAfter ==
    \/ UNCHANGED <<assignment, notified>>
    \/ assignment' \in [DOMAIN assignment' -> AssignmentRow] /\ Grown

LEMMA DecisionAssignments ==
  ASSUME EarnedInv, TablesInv, NEW u \in Users, NEW action \in DOMAIN Outcome, Decide(u, action)
  PROVE  /\ assignment' \in [DOMAIN assignment' -> AssignmentRow] /\ Grown
         /\ \A k \in DOMAIN assignment' \ DOMAIN assignment :
              \E v \in Users : k = AssigneeKey(workflow'.active, v)
                               /\ MovedOn(workflow.active)
<1> DEFINE a == workflow.active
<1>0. a = workflow.active
  OBVIOUS
<1>1. /\ a \in DOMAIN stage /\ a \in Nat /\ workflow.policy \in Policies
      /\ DOMAIN stage = 1..Len(workflow.policy.stages) /\ Waiting
      /\ Len(workflow.policy.stages) \in Nat
      /\ (Ended(a) \/ Supported(a) \/ MovedOn(a) \/ Approved(a))
  BY DecisionEffect
<1> HIDE DEF a
<1>2. RowsTypeOK
  BY DEF TablesInv
<1>3. ASSUME NEW keys, assignment' = Completed(assignment, keys), notified' = notified
      PROVE  /\ assignment' \in [DOMAIN assignment' -> AssignmentRow] /\ Grown
             /\ DOMAIN assignment' = DOMAIN assignment
  BY <1>2, <1>3, CompletedRows DEF Grown
<1>4. CASE Supported(a)
  BY <1>2, <1>4 DEF Supported, Grown, RowsTypeOK
<1>5. CASE MovedOn(a)
  <2> DEFINE closed == Completed(assignment, StageKeys(a))
             rule == StageRule(a + 1)
             D == DOMAIN assignment
  <2>1. /\ closed \in [D -> AssignmentRow]
        /\ \A k \in D :
             /\ closed[k].from = assignment[k].from
             /\ closed[k].assignee = assignment[k].assignee
             /\ \/ closed[k].status = assignment[k].status
                \/ assignment[k].status = "active" /\ closed[k].status = "completed"
    BY <1>2, CompletedRows
  <2>2. /\ assignment' = Activated(closed, rule, a + 1)
        /\ notified' = notified \cup ActivationNotices(rule, a + 1)
        /\ workflow'.active = a + 1
    BY <1>5 DEF MovedOn
  <2>3. a + 1 \in Nat /\ a + 1 \in DOMAIN stage /\ stage[a + 1] = "pending"
    <3>1. \A s \in DOMAIN stage :
            stage[s] = IF s < a THEN "completed" ELSE IF s = a THEN "active" ELSE "pending"
      BY <1>0, <1>1 DEF TablesInv, StagesAreInOrder
    <3>2. a + 1 \in DOMAIN stage
      BY <1>5 DEF MovedOn
    <3>3. a + 1 \in Nat /\ ~(a + 1 < a) /\ a + 1 # a
      BY <1>1
    <3> QED
      BY <3>1, <3>2, <3>3
  <2>4. \A v \in Users : AssigneeKey(a + 1, v) \notin D
    BY <2>3 DEF TablesInv, StageWorkIsKnown
  <2>5. EligibleOf(rule) \subseteq Users
    <3>1. a + 1 \in DOMAIN workflow.policy.stages
      BY <1>1, <2>3, PolicyAssumption
    <3> QED
      BY <1>1, <3>1, EligibleAreUsers DEF StageRule
  <2> HIDE DEF closed, rule, D
  <2> DEFINE keys == ActivationKeys(rule, a + 1)
  <2>6. /\ assignment' \in [D \cup keys -> AssignmentRow]
        /\ \A k \in D : assignment'[k] = closed[k]
        /\ \A k \in keys : /\ assignment'[k].status = "active" /\ assignment'[k].from = None
                           /\ \E n \in ActivationNotices(rule, a + 1) :
                               n.key = k /\ n.recipient = assignment'[k].assignee
    <3>1. D = DOMAIN assignment
      BY DEF D
    <3>2. AddsRows(closed, Activated(closed, rule, a + 1), rule, a + 1)
      BY <2>1, <2>3, <2>4, <2>5, <3>1, ActivatedRows
    <3> QED
      BY <2>2, <3>1, <3>2 DEF AddsRows
  <2>7. \A k \in keys : \E v \in Users : k = AssigneeKey(a + 1, v)
    BY <2>5 DEF ActivationKeys
  <2> HIDE DEF keys
  <2>8. Grown
    BY <2>1, <2>2, <2>6 DEF Grown, D
  <2> QED
    BY <1>0, <1>5, <2>2, <2>6, <2>7, <2>8 DEF D
<1>6. CASE Ended(a)
  BY <1>3, <1>6 DEF Ended
<1>7. CASE Approved(a)
  BY <1>3, <1>7 DEF Approved
<1> QED
  BY <1>1, <1>4, <1>5, <1>6, <1>7

LEMMA StartAssignments ==
  ASSUME EarnedInv, TablesInv, NEW p \in Policies, StartWorkflow(p)
  PROVE  /\ assignment' \in [DOMAIN assignment' -> AssignmentRow] /\ Grown
         /\ \A k \in DOMAIN assignment' \ DOMAIN assignment :
              \E v \in Users : k = AssigneeKey(1, v)
<1> DEFINE rule == p.stages[1]
           D == DOMAIN assignment
           keys == ActivationKeys(rule, 1)
<1>1. /\ workflow = NotStarted
      /\ assignment' = Activated(assignment, rule, 1)
      /\ notified' = notified \cup ActivationNotices(rule, 1)
  BY DEF StartWorkflow, EarnedInv, WorkflowTypeOK
<1>2. assignment \in [D -> AssignmentRow] /\ D \subseteq ClientKeys
  BY <1>1 DEF TablesInv, RowsTypeOK, Beginning
<1>3. \A v \in Users : AssigneeKey(1, v) \notin D
  BY <1>2, StageKeysDiffer
<1>4. EligibleOf(rule) \subseteq Users
  <2>1. 1 \in DOMAIN p.stages
    BY PolicyAssumption
  <2> QED
    BY <2>1, EligibleAreUsers
<1>5. \A k \in keys : \E v \in Users : k = AssigneeKey(1, v)
  BY <1>4 DEF ActivationKeys
<1>6. D = DOMAIN assignment
  OBVIOUS
<1> HIDE DEF rule, D
<1>7. /\ assignment' \in [D \cup keys -> AssignmentRow]
      /\ \A k \in D : assignment'[k] = assignment[k]
      /\ \A k \in keys : /\ assignment'[k].status = "active" /\ assignment'[k].from = None
                         /\ \E n \in ActivationNotices(rule, 1) :
                             n.key = k /\ n.recipient = assignment'[k].assignee
  <2>1. AddsRows(assignment, Activated(assignment, rule, 1), rule, 1)
    BY <1>2, <1>3, <1>4, <1>6, ActivatedRows
  <2> QED
    BY <1>1, <1>6, <2>1 DEF AddsRows
<1> HIDE DEF keys
<1>8. Grown
  BY <1>1, <1>6, <1>7 DEF Grown
<1> QED
  BY <1>5, <1>6, <1>7, <1>8

LEMMA AssignAssignments ==
  ASSUME RowsTypeOK, NEW u \in Users, NEW key \in ClientKeys, Assign(u, key)
  PROVE  /\ assignment' \in [DOMAIN assignment' -> AssignmentRow] /\ Grown
         /\ DOMAIN assignment' = DOMAIN assignment \cup {key}
<1>1. /\ key \notin DOMAIN assignment
      /\ assignment' = [k \in DOMAIN assignment \cup {key} |->
                          IF k = key THEN NewAssignment(u, None) ELSE assignment[k]]
      /\ notified' = notified \cup {Notice("created", key, u)}
  BY DEF Assign, With
<1>2. NewAssignment(u, None) \in AssignmentRow
  BY DEF NewAssignment, AssignmentRow
<1>3. Notice("created", key, u) \in notified'
  BY <1>1
<1>4. Grown
  BY <1>1, <1>3 DEF Grown, NewAssignment, Notice
<1> QED
  BY <1>1, <1>2, <1>4 DEF RowsTypeOK

LEMMA GrownKeeps ==
  ASSUME TablesInv, RowsTypeOK', Grown
  PROVE  PredecessorsExist' /\ Linear' /\ AssigneesAreNotified'
<1>1. /\ None \notin DOMAIN assignment /\ None \notin DOMAIN assignment'
      /\ PredecessorsExist /\ Linear /\ AssigneesAreNotified
  BY StageKeysDiffer DEF TablesInv, RowsTypeOK
<1>2. PredecessorsExist'
  BY <1>1 DEF Grown, PredecessorsExist
<1>3. ASSUME NEW k \in DOMAIN assignment PROVE Successors(k)' = Successors(k)
  BY <1>1 DEF Grown, Successors
<1>4. ASSUME NEW k \in DOMAIN assignment' \ DOMAIN assignment PROVE Successors(k)' = {}
  BY <1>1 DEF Grown, Successors, PredecessorsExist
<1>5. Linear'
  <2>1. ASSUME NEW k \in DOMAIN assignment
        PROVE  IF assignment'[k].status \in HandedOn
               THEN \E l \in DOMAIN assignment' : Successors(k)' = {l} ELSE Successors(k)' = {}
    <3>1. assignment'[k].status \in HandedOn <=> assignment[k].status \in HandedOn
      BY DEF Grown, HandedOn
    <3>2. DOMAIN assignment \subseteq DOMAIN assignment'
      BY DEF Grown
    <3> QED
      BY <1>1, <1>3, <3>1, <3>2 DEF Linear
  <2>2. ASSUME NEW k \in DOMAIN assignment' \ DOMAIN assignment
        PROVE  assignment'[k].status \notin HandedOn /\ Successors(k)' = {}
    BY <1>4 DEF Grown, HandedOn
  <2> QED
    BY <2>1, <2>2 DEF Linear
<1>6. AssigneesAreNotified'
  BY <1>1 DEF Grown, AssigneesAreNotified
<1> QED
  BY <1>2, <1>5, <1>6

\* A transfer closes an active row, which has no successor, and adds the one.
LEMMA TransferKeeps ==
  ASSUME TablesInv, NEW u \in Users, NEW key \in ClientKeys, NEW kind \in HandedOn,
         NEW old \in DOMAIN assignment, NEW expected, Transfer(old, u, key, kind, expected)
  PROVE  /\ assignment' \in [DOMAIN assignment' -> AssignmentRow]
         /\ DOMAIN assignment' = DOMAIN assignment \cup {key}
         /\ \A k \in DOMAIN assignment \ {old} : assignment'[k] = assignment[k]
         /\ assignment'[old].status \in HandedOn
         /\ PredecessorsExist' /\ Linear' /\ AssigneesAreNotified'
<1>1. /\ RowsTypeOK /\ PredecessorsExist /\ Linear /\ AssigneesAreNotified
      /\ None \notin DOMAIN assignment /\ None # key
      /\ assignment \in [DOMAIN assignment -> AssignmentRow]
      /\ DOMAIN assignment \subseteq ClientKeys \cup StageKey
  BY StageKeysDiffer DEF TablesInv, RowsTypeOK
<1>2. /\ key \notin DOMAIN assignment /\ assignment[old].status = "active"
      /\ assignment' = [k \in DOMAIN assignment \cup {key} |->
                          IF k = key THEN NewAssignment(u, old)
                          ELSE [assignment EXCEPT ![old].status = kind][k]]
      /\ notified' = notified \cup {Notice(kind, key, u)}
  BY DEF Transfer, With, TransferRecipient
<1>3. /\ DOMAIN assignment' = DOMAIN assignment \cup {key}
      /\ assignment'[key] = NewAssignment(u, old)
      /\ \A k \in DOMAIN assignment \ {old} : assignment'[k] = assignment[k]
      /\ assignment'[old] = [assignment[old] EXCEPT !.status = kind]
  BY <1>2
<1>4. /\ assignment'[old].status = kind /\ assignment'[old].from = assignment[old].from
      /\ assignment'[old].assignee = assignment[old].assignee
      /\ assignment'[old] \in AssignmentRow
      /\ assignment'[key] \in AssignmentRow /\ assignment'[key].from = old
      /\ assignment'[key].status = "active" /\ assignment'[key].assignee = u
  <2>1. assignment[old] \in AssignmentRow
    BY <1>1
  <2>2. kind \in {"active", "completed"} \cup HandedOn
    OBVIOUS
  <2>3. NewAssignment(u, old) \in AssignmentRow
    BY <1>1 DEF NewAssignment, AssignmentRow
  <2> QED
    BY <1>3, <2>1, <2>2, <2>3 DEF NewAssignment, AssignmentRow
<1>5. assignment' \in [DOMAIN assignment' -> AssignmentRow]
  BY <1>1, <1>2, <1>3, <1>4
<1>6. PredecessorsExist'
  BY <1>1, <1>3, <1>4 DEF PredecessorsExist
<1>7. Linear'
  <2>1. Successors(old) = {}
    BY <1>1, <1>2 DEF Linear, HandedOn
  <2>2. Successors(old)' = {key}
    BY <1>2, <1>3, <1>4, <2>1 DEF Successors
  <2>3. Successors(key)' = {}
    BY <1>1, <1>2, <1>3, <1>4 DEF Successors, PredecessorsExist
  <2>4. \A k \in DOMAIN assignment \ {old} : Successors(k)' = Successors(k)
    BY <1>2, <1>3, <1>4 DEF Successors
  <2>5. assignment'[key].status \notin HandedOn
    BY <1>4 DEF HandedOn
  <2>6. ASSUME NEW k \in DOMAIN assignment \ {old}
        PROVE  IF assignment'[k].status \in HandedOn
               THEN \E l \in DOMAIN assignment' : Successors(k)' = {l} ELSE Successors(k)' = {}
    BY <1>1, <1>3, <2>4 DEF Linear
  <2>7. ASSUME NEW k \in DOMAIN assignment'
        PROVE  IF assignment'[k].status \in HandedOn
               THEN \E l \in DOMAIN assignment' : Successors(k)' = {l} ELSE Successors(k)' = {}
    <3>1. CASE k = old
      BY <1>2, <1>3, <1>4, <2>2, <3>1
    <3>2. CASE k = key
      BY <2>3, <2>5, <3>2
    <3>3. CASE k \in DOMAIN assignment \ {old}
      BY <2>6, <3>3
    <3> QED
      BY <1>3, <3>1, <3>2, <3>3
  <2> QED
    BY <2>7 DEF Linear
<1>8. AssigneesAreNotified'
  <2>1. Notice(kind, key, u) \in notified' /\ notified \subseteq notified'
    BY <1>2
  <2>2. ASSUME NEW k \in DOMAIN assignment
        PROVE  \E n \in notified' : n.key = k /\ n.recipient = assignment'[k].assignee
    <3>1. PICK n \in notified : n.key = k /\ n.recipient = assignment[k].assignee
      BY <1>1 DEF AssigneesAreNotified
    <3>2. assignment'[k].assignee = assignment[k].assignee
      BY <1>3, <1>4
    <3> QED
      BY <2>1, <3>1, <3>2
  <2>3. \E n \in notified' : n.key = key /\ n.recipient = assignment'[key].assignee
    BY <1>4, <2>1 DEF Notice
  <2> QED
    BY <1>3, <2>2, <2>3 DEF AssigneesAreNotified
<1> QED
  BY <1>3, <1>4, <1>5, <1>6, <1>7, <1>8

LEMMA StagesAreNumbered ==
  ASSUME EarnedInv, TablesInv PROVE DOMAIN stage \subseteq Nat \ {0}
<1>1. CASE workflow = NotStarted
  BY <1>1 DEF TablesInv, Beginning
<1>2. CASE workflow # NotStarted
  BY <1>2, PolicyAssumption DEF EarnedInv, WorkflowTypeOK, WorkflowRow
<1> QED
  BY <1>1, <1>2

\* Steps that leave the workflow, its stages, decisions and events alone and
\* bring no assignment of a stage: the rest of the invariant stays.
LEMMA WorkflowRests ==
  ASSUME EarnedInv, TablesInv, UNCHANGED <<workflow, stage, decisions>>,
         {v \in events' : v.kind = "terminal"} = {v \in events : v.kind = "terminal"},
         events \subseteq events',
         RowsTypeOK', SeenIsPast',
         workflow = NotStarted => seen' = seen,
         \A k \in DOMAIN assignment' \ DOMAIN assignment : k \in ClientKeys,
         \A k \in DOMAIN assignment' \cap StageKey :
            assignment'[k].status = "active" => assignment[k].status = "active",
         PredecessorsExist' /\ Linear' /\ AssigneesAreNotified',
         review'.state = IF workflow.state \in Terminal THEN workflow.state
                         ELSE IF review'.state = "none" THEN "none" ELSE "open"
  PROVE  TablesInv'
<1>1. Beginning'
  BY DEF TablesInv, Beginning
<1>2. DecisionsArePast'
  BY DEF TablesInv, DecisionsArePast, Waiting
<1>3. StageWorkIsKnown'
  BY StageKeysDiffer DEF TablesInv, StageWorkIsKnown, AssigneeKey
<1>4. StagesAreInOrder'
  <2>1. ASSUME NEW s \in DOMAIN stage, NEW u \in Users,
               AssigneeKey(s, u) \in DOMAIN assignment',
               assignment'[AssigneeKey(s, u)].status = "active"
        PROVE  stage[s] = "active"
    <3>1. s \in Nat
      BY StagesAreNumbered
    <3>2. AssigneeKey(s, u) \in StageKey /\ AssigneeKey(s, u) \in DOMAIN assignment
      BY <2>1, <3>1, StageKeysDiffer
    <3> QED
      BY <2>1, <3>2 DEF TablesInv, StagesAreInOrder
  <2> QED
    BY <2>1 DEF TablesInv, StagesAreInOrder, Waiting, AssigneeKey
<1>5. History'
  BY DEF TablesInv, History, TerminalEvents
<1> QED
  BY <1>1, <1>2, <1>3, <1>4, <1>5 DEF TablesInv

LEMMA DecideKeepsTables ==
  ASSUME EarnedInv, EarnedInv', TablesInv, NEW u \in Users, NEW action \in DOMAIN Outcome,
         Decide(u, action), NEW a, a = workflow.active
  PROVE  TablesInv'
<1> DEFINE d == [stage |-> a, actor |-> u, action |-> action]
           n == Len(decisions)
           terminal == workflow'.state \in Terminal
           event == Event(<<"decision", Len(decisions')>>,
                          IF terminal THEN "terminal" ELSE "resume",
                          IF terminal THEN Snapshot(workflow', assignment', decisions') ELSE None)
<1>1. /\ workflow \in WorkflowRow /\ Waiting /\ Locked
      /\ a \in DOMAIN stage /\ a \in Nat /\ decisions \in Seq(Decision)
      /\ decisions' = Append(decisions, d)
      /\ workflow'.revision = workflow.revision + 1
      /\ (Ended(a) \/ Supported(a) \/ MovedOn(a) \/ Approved(a))
      /\ events' = events \cup {event}
      /\ review' = [review EXCEPT !.state = IF terminal THEN workflow'.state ELSE @]
      /\ seen' = seen
  BY DecisionEffect
<1>2. /\ n \in Nat /\ DOMAIN decisions = 1..n /\ DOMAIN decisions' = 1..(n + 1)
      /\ Len(decisions') = n + 1
      /\ \A i \in 1..n : decisions'[i] = decisions[i]
      /\ decisions'[n + 1] = d
  BY <1>1
<1>3. /\ event.key = <<"decision", n + 1>>
      /\ event.kind = IF terminal THEN "terminal" ELSE "resume"
      /\ event.snapshot = IF terminal THEN Snapshot(workflow', assignment', decisions') ELSE None
  BY <1>2 DEF Event
<1>4. /\ DOMAIN stage \subseteq Nat \ {0} /\ d.stage = a
      /\ RowsTypeOK /\ StageWorkIsKnown /\ StagesAreInOrder /\ History /\ DecisionsArePast
  BY StagesAreNumbered DEF TablesInv
<1>5. /\ workflow # NotStarted /\ workflow' # NotStarted /\ Waiting
      /\ workflow' \in WorkflowRow /\ workflow.revision \in Nat
  <2>1. workflow'.state # "none"
    BY <1>1 DEF Ended, Supported, MovedOn, Approved
  <2>2. workflow' # NotStarted /\ workflow # NotStarted
    BY <1>1, <2>1 DEF NotStarted, Waiting
  <2>3. workflow' \in WorkflowRow
    BY <2>2 DEF EarnedInv, WorkflowTypeOK
  <2> QED
    BY <1>1, <2>2, <2>3 DEF WorkflowRow
<1>6. /\ terminal <=> Ended(a) \/ Approved(a)
      /\ (Supported(a) \/ MovedOn(a)) => Waiting' /\ ~terminal
      /\ (Ended(a) \/ Approved(a)) => ~Waiting'
  BY <1>1 DEF Ended, Supported, MovedOn, Approved, Terminal, Waiting
<1>7. /\ assignment' \in [DOMAIN assignment' -> AssignmentRow] /\ Grown
      /\ \A k \in DOMAIN assignment' \ DOMAIN assignment :
            \E v \in Users : k = AssigneeKey(workflow'.active, v) /\ MovedOn(a)
  BY DecisionAssignments
<1> HIDE DEF d, n, terminal, event
<1>8. /\ DOMAIN stage' = DOMAIN stage
      /\ stage'[a] = "completed" \/ Supported(a)
      /\ \A s \in DOMAIN stage : s # a /\ (s # a + 1 \/ ~MovedOn(a)) => stage'[s] = stage[s]
      /\ MovedOn(a) => stage'[a + 1] = "active" /\ workflow'.active = a + 1
      /\ Supported(a) => stage' = stage /\ workflow'.active = a
  BY <1>1 DEF Ended, Supported, MovedOn, Approved
<1>9. RowsTypeOK'
  <2>1. DOMAIN assignment' \subseteq ClientKeys \cup StageKey
    <3>1. MovedOn(a) => a + 1 \in Nat /\ workflow'.active = a + 1
      BY <1>1, <1>8
    <3> QED
      BY <1>4, <1>7, <3>1, StageKeysDiffer DEF RowsTypeOK
  <2>2. review' \in [state : {"none", "open"} \cup Terminal, revision : Int]
    BY <1>1, <1>4 DEF RowsTypeOK, terminal
  <2> QED
    BY <1>1, <1>4, <1>7, <2>1, <2>2 DEF RowsTypeOK
<1>10. Beginning'
  BY <1>5 DEF Beginning
<1>11. SeenIsPast'
  <2>1. ASSUME NEW v \in Users, seen[v] # None
        PROVE  seen[v].revision < workflow'.revision /\ seen[v].revision # workflow'.revision
    <3>1. seen[v].revision <= workflow.revision /\ seen[v].revision \in Nat
      BY <1>4, <2>1 DEF TablesInv, SeenIsPast, RowsTypeOK
    <3> QED
      BY <1>1, <1>5, <3>1
  <2>2. workflow'.revision \in Nat /\ \A v \in Users : seen[v] # None => seen[v].revision \in Nat
    BY <1>1, <1>4, <1>5 DEF RowsTypeOK
  <2> QED
    BY <1>1, <2>1, <2>2 DEF SeenIsPast
<1>12. \A i \in 1..n : decisions[i].stage <= a /\ decisions[i].stage \in Nat
  <2>1. \A i \in 1..n : decisions[i] \in Decision
    BY <1>1, <1>2
  <2> QED
    BY <1>1, <1>2, <1>4, <2>1 DEF DecisionsArePast, Decision
<1>13. DecisionsArePast'
  <2> SUFFICES ASSUME Waiting', NEW i \in DOMAIN decisions'
               PROVE  decisions'[i].stage <= workflow'.active
    BY DEF DecisionsArePast
  <2>1. workflow'.active = a \/ workflow'.active = a + 1
    BY <1>1, <1>6, <1>8
  <2>2. decisions'[i].stage <= a /\ decisions'[i].stage \in Nat
    <3>1. i \in 1..n \/ i = n + 1
      BY <1>2
    <3> QED
      BY <1>1, <1>2, <1>4, <1>12, <3>1
  <2> QED
    BY <1>1, <2>1, <2>2
<1>14. \A s \in DOMAIN stage :
         stage[s] = IF s < a THEN "completed" ELSE IF s = a THEN "active" ELSE "pending"
  BY <1>1, <1>4 DEF StagesAreInOrder
<1>15. \A s \in DOMAIN stage : stage[s] # "pending" => stage'[s] # "pending"
  BY <1>8
<1>16. StageWorkIsKnown'
  <2> SUFFICES ASSUME NEW s \in Nat, NEW v \in Users, AssigneeKey(s, v) \in DOMAIN assignment'
               PROVE  s \in DOMAIN stage /\ stage'[s] # "pending"
    BY <1>8 DEF StageWorkIsKnown, AssigneeKey
  <2>1. CASE AssigneeKey(s, v) \in DOMAIN assignment
    BY <1>4, <1>15, <2>1 DEF StageWorkIsKnown
  <2>2. CASE AssigneeKey(s, v) \notin DOMAIN assignment
    <3>1. PICK w \in Users : AssigneeKey(s, v) = AssigneeKey(workflow'.active, w) /\ MovedOn(a)
      BY <1>7, <2>2
    <3>2. a + 1 \in Nat /\ workflow'.active = a + 1 /\ a + 1 \in DOMAIN stage
      BY <1>1, <1>8, <3>1 DEF MovedOn
    <3>3. s = a + 1
      BY <3>1, <3>2, StageKeysDiffer, ZenonT(40)
    <3> QED
      BY <1>8, <3>1, <3>2, <3>3
  <2> QED
    BY <2>1, <2>2
<1>17. PredecessorsExist' /\ Linear' /\ AssigneesAreNotified'
  BY <1>7, <1>9, GrownKeeps
<1>18. StagesAreInOrder'
  <2>1. ASSUME Waiting', NEW s \in DOMAIN stage'
        PROVE  stage'[s] = IF s < workflow'.active THEN "completed"
                           ELSE IF s = workflow'.active THEN "active" ELSE "pending"
    <3>1. CASE Supported(a)
      BY <1>8, <1>14, <3>1
    <3>2. CASE MovedOn(a)
      <4>1. s \in Nat /\ s \in DOMAIN stage
        BY <1>4, <1>8
      <4>2. s < a \/ s = a \/ s = a + 1 \/ s > a + 1
        BY <1>1, <4>1
      <4>3. stage'[a] = "completed" \/ a = a + 1
        BY <1>1, <3>2 DEF MovedOn
      <4>4. workflow'.active = a + 1 /\ stage'[a + 1] = "active" /\ a # a + 1
        BY <1>1, <1>8, <3>2
      <4> QED
        BY <1>1, <1>8, <1>14, <4>1, <4>2, <4>3, <4>4
    <3> QED
      BY <1>1, <1>6, <2>1, <3>1, <3>2
  <2>2. ASSUME terminal, NEW s \in DOMAIN stage' PROVE stage'[s] # "active"
    BY <1>1, <1>4, <1>6, <1>8, <1>14, <2>2
  <2>3. ASSUME NEW i \in 1..Len(decisions')-1
        PROVE  decisions'[i].stage <= decisions'[i + 1].stage
    <3>1. i \in 1..n
      BY <1>2, <2>3
    <3>2. CASE i = n
      BY <1>2, <1>4, <1>12, <3>1, <3>2
    <3>3. CASE i # n
      <4>1. i \in 1..n-1 /\ i + 1 \in 1..n
        BY <1>2, <3>1, <3>3
      <4>2. decisions[i].stage <= decisions[i + 1].stage
        BY <1>4, <4>1 DEF StagesAreInOrder, n
      <4> QED
        BY <1>2, <3>1, <4>1, <4>2
    <3> QED
      BY <3>2, <3>3
  <2>4. review'.state = IF terminal THEN workflow'.state
                        ELSE IF review'.state = "none" THEN "none" ELSE "open"
    <3>1. review.state = "open"
      BY <1>1, <1>4 DEF StagesAreInOrder, Waiting, Terminal, Locked
    <3> QED
      BY <1>1, <1>4, <3>1 DEF RowsTypeOK
  <2>5. ASSUME NEW s \in DOMAIN stage', NEW v \in Users,
               AssigneeKey(s, v) \in DOMAIN assignment',
               assignment'[AssigneeKey(s, v)].status = "active"
        PROVE  stage'[s] = "active"
    <3> DEFINE k == AssigneeKey(s, v)
    <3>1. s \in Nat /\ s \in DOMAIN stage /\ k \in StageKey
      BY <1>4, <1>8, StageKeysDiffer
    <3>2. CASE k \in DOMAIN assignment
      <4>1. assignment[k].status = "active"
        BY <1>7, <2>5, <3>2 DEF Grown
      <4>2. stage[s] = "active"
        BY <1>4, <3>1, <3>2, <4>1 DEF StagesAreInOrder
      <4>3. s = a
        BY <1>14, <3>1, <4>2
      <4>4. CASE Supported(a)
        BY <1>8, <4>2, <4>4
      <4>5. CASE Ended(a) \/ Approved(a) \/ MovedOn(a)
        <5>1. k \in StageKeys(a) /\ k \in DOMAIN assignment
          BY <3>2, <4>3 DEF StageKeys
        <5>2. Completed(assignment, StageKeys(a))[k].status = "completed"
              /\ Completed(assignment, DOMAIN assignment)[k].status = "completed"
          BY <1>4, <4>1, <5>1, CompletedRows
        <5>3. CASE MovedOn(a)
          <6>1. k \notin {AssigneeKey(a + 1, w) : w \in EligibleOf(StageRule(a + 1))}
            BY <1>1, <4>3, <3>1 DEF AssigneeKey
          <6>2. assignment'[k] = Completed(assignment, StageKeys(a))[k]
            BY <3>2, <5>3, <6>1 DEF MovedOn, Activated, Completed
          <6> QED
            BY <2>5, <5>2, <6>2
        <5>4. CASE Ended(a) \/ Approved(a)
          BY <2>5, <5>2, <5>4 DEF Ended, Approved
        <5> QED
          BY <4>5, <5>3, <5>4
      <4> QED
        BY <1>1, <4>4, <4>5
    <3>3. CASE k \notin DOMAIN assignment
      <4>1. PICK w \in Users : k = AssigneeKey(workflow'.active, w) /\ MovedOn(a)
        BY <1>7, <2>5, <3>3
      <4>2. a + 1 \in Nat /\ workflow'.active = a + 1
        BY <1>1, <1>8, <4>1
      <4>3. s = a + 1
        BY <3>1, <4>1, <4>2, StageKeysDiffer, ZenonT(40)
      <4> QED
        BY <1>8, <4>1, <4>3
    <3> QED
      BY <3>2, <3>3
  <2> QED
    BY <2>1, <2>2, <2>3, <2>4, <2>5 DEF StagesAreInOrder, AssigneeKey, terminal
<1>19. History'
  <2>1. workflow'.revision = Len(decisions')
    BY <1>1, <1>2, <1>4 DEF History, n
  <2>2. ASSUME NEW i \in DOMAIN decisions' PROVE \E v \in events' : v.key = <<"decision", i>>
    <3>1. i \in 1..n \/ i = n + 1
      BY <1>2
    <3> QED
      BY <1>1, <1>2, <1>3, <1>4, <3>1 DEF History
  <2>3. TerminalEvents = {}
    BY <1>1, <1>4 DEF History, Waiting, Terminal
  <2>4. TerminalEvents' = IF terminal THEN {event} ELSE {}
    <3>1. \A v \in events : v.kind # "terminal"
      BY <2>3 DEF TerminalEvents
    <3> QED
      BY <1>1, <1>3, <3>1 DEF TerminalEvents
  <2>5. terminal => event \in events'
    BY <1>1
  <2>6. ASSUME terminal
        PROVE  /\ event.snapshot.state = workflow'.state
               /\ event.snapshot.revision = workflow'.revision
               /\ event.snapshot.decisions = decisions'
               /\ event.snapshot.open = {} \/ workflow'.state = "approved"
    <3>1. /\ event.snapshot.state = workflow'.state
          /\ event.snapshot.revision = workflow'.revision
          /\ event.snapshot.decisions = decisions'
          /\ event.snapshot.open = {k \in DOMAIN assignment' : assignment'[k].status = "active"}
      BY <1>3, <2>6 DEF Snapshot
    <3>2. CASE Ended(a)
      <4>1. \A k \in DOMAIN assignment' : assignment'[k].status # "active"
        BY <1>4, <3>2, CompletedRows DEF Ended
      <4> QED
        BY <3>1, <4>1
    <3>3. CASE Approved(a)
      BY <3>1, <3>3 DEF Approved
    <3> QED
      BY <1>6, <2>6, <3>2, <3>3
  <2> QED
    BY <2>1, <2>2, <2>4, <2>5, <2>6 DEF History, terminal
<1> QED
  BY <1>9, <1>10, <1>11, <1>13, <1>16, <1>17, <1>18, <1>19 DEF TablesInv

LEMMA StartKeepsTables ==
  ASSUME EarnedInv, EarnedInv', TablesInv, NEW p \in Policies, StartWorkflow(p)
  PROVE  TablesInv'
<1> DEFINE event == Event(<<"start">>, "resume", None)
<1>1. /\ workflow = NotStarted /\ Locked /\ decisions = <<>> /\ decisions' = decisions
      /\ workflow' = [state |-> "waiting_for_approval", active |-> 1,
                      revision |-> 0, policy |-> p]
      /\ stage' = [s \in DOMAIN p.stages |-> IF s = 1 THEN "active" ELSE "pending"]
      /\ events' = events \cup {event} /\ event.kind = "resume"
      /\ UNCHANGED <<review, seen>>
  BY DEF StartWorkflow, EarnedInv, WorkflowTypeOK, Event
<1>2. /\ RowsTypeOK /\ StagesAreInOrder /\ stage = <<>> /\ DOMAIN assignment \subseteq ClientKeys
      /\ \A v \in events : v.kind # "terminal"
      /\ \A u \in Users : seen[u] = None
  BY <1>1 DEF TablesInv, Beginning
<1>3. /\ DOMAIN stage' = 1..Len(p.stages) /\ Len(p.stages) \in Nat /\ 1 \in DOMAIN stage'
      /\ \A s \in DOMAIN stage' : stage'[s] = IF s = 1 THEN "active" ELSE "pending"
  <2>1. p.stages \in Seq(Stage) /\ p.stages # <<>>
    BY PolicyAssumption
  <2> QED
    BY <1>1, <2>1
<1>4. /\ assignment' \in [DOMAIN assignment' -> AssignmentRow] /\ Grown
      /\ \A k \in DOMAIN assignment' \ DOMAIN assignment : \E v \in Users : k = AssigneeKey(1, v)
  BY StartAssignments
<1> HIDE DEF event
<1>5. RowsTypeOK'
  <2>1. DOMAIN assignment' \subseteq ClientKeys \cup StageKey
    BY <1>2, <1>4, StageKeysDiffer
  <2> QED
    BY <1>1, <1>2, <1>4, <2>1 DEF RowsTypeOK
<1>6. Beginning'
  BY <1>1 DEF Beginning, NotStarted
<1>7. SeenIsPast' /\ DecisionsArePast'
  BY <1>1, <1>2 DEF SeenIsPast, DecisionsArePast
<1>8. ASSUME NEW s \in Nat, NEW v \in Users, AssigneeKey(s, v) \in DOMAIN assignment' PROVE s = 1
  <2>1. AssigneeKey(s, v) \notin DOMAIN assignment
    BY <1>2, StageKeysDiffer
  <2>2. PICK w \in Users : AssigneeKey(s, v) = AssigneeKey(1, w)
    BY <1>4, <1>8, <2>1
  <2> QED
    BY <2>2, StageKeysDiffer
<1>9. StageWorkIsKnown'
  BY <1>3, <1>8 DEF StageWorkIsKnown, AssigneeKey
<1>10. PredecessorsExist' /\ Linear' /\ AssigneesAreNotified'
  BY <1>4, <1>5, GrownKeeps
<1>11. StagesAreInOrder'
  <2>1. ASSUME NEW s \in DOMAIN stage'
        PROVE  stage'[s] = IF s < workflow'.active THEN "completed"
                           ELSE IF s = workflow'.active THEN "active" ELSE "pending"
    BY <1>1, <1>3
  <2>2. review'.state = IF review'.state = "none" THEN "none" ELSE "open"
    BY <1>1, <1>2 DEF StagesAreInOrder, NotStarted, Terminal
  <2>3. ASSUME NEW s \in DOMAIN stage', NEW v \in Users,
               AssigneeKey(s, v) \in DOMAIN assignment'
        PROVE  stage'[s] = "active"
    BY <1>3, <1>8, <2>3
  <2>4. workflow'.state \notin Terminal /\ Len(decisions') = 0
    BY <1>1 DEF Terminal
  <2> QED
    BY <2>1, <2>2, <2>3, <2>4 DEF StagesAreInOrder, AssigneeKey
<1>12. History'
  BY <1>1, <1>2 DEF History, TerminalEvents, Terminal
<1> QED
  BY <1>5, <1>6, <1>7, <1>9, <1>10, <1>11, <1>12 DEF TablesInv

LEMMA TablesInit == ReviewInit => TablesInv
<1> SUFFICES ASSUME ReviewInit PROVE TablesInv
  OBVIOUS
<1>1. /\ workflow = NotStarted /\ stage = <<>> /\ decisions = <<>> /\ events = {}
      /\ seen = [u \in Users |-> None] /\ assignment = <<>>
      /\ review = [state |-> "none", revision |-> 0] /\ workflow.state = "none"
      /\ workflow.revision = 0 /\ DOMAIN assignment = {} /\ DOMAIN stage = {}
  BY DEF ReviewInit, CaseInit, WorkflowInit, NotStarted
<1>2. RowsTypeOK
  BY <1>1 DEF RowsTypeOK
<1>3. Beginning /\ SeenIsPast /\ DecisionsArePast /\ StageWorkIsKnown
  BY <1>1 DEF Beginning, SeenIsPast, DecisionsArePast, StageWorkIsKnown
<1>4. PredecessorsExist /\ Linear /\ AssigneesAreNotified
  BY <1>1 DEF PredecessorsExist, Linear, AssigneesAreNotified
<1>5. StagesAreInOrder /\ History
  BY <1>1 DEF StagesAreInOrder, History, TerminalEvents, Terminal, Waiting
<1> QED
  BY <1>2, <1>3, <1>4, <1>5 DEF TablesInv

\* The steps that leave the workflow alone
LEMMA OthersKeepTables ==
  ASSUME EarnedInv, TablesInv,
         \/ \E u \in Users : ReadWorkflow(u)
         \/ StartReview /\ UNCHANGED workflowVars
         \/ \E u \in Users, key \in ClientKeys : Assign(u, key) /\ UNCHANGED workflowVars
         \/ \E u \in Users, key \in ClientKeys, kind \in HandedOn :
              \E old \in DOMAIN assignment, expected \in Int :
                Transfer(old, u, key, kind, expected) /\ UNCHANGED workflowVars
         \/ \E e \in Escalators : EscalateCommit(e)
         \/ /\ UNCHANGED <<review, assignment, workflow, stage, decisions, events, seen>>
            /\ notified \subseteq notified'
  PROVE  TablesInv'
<1> DEFINE terminals(evs) == {v \in evs : v.kind = "terminal"}
<1>1. /\ RowsTypeOK /\ StagesAreInOrder /\ SeenIsPast /\ PredecessorsExist /\ Linear
      /\ AssigneesAreNotified
  BY DEF TablesInv
<1>2. review.state = IF workflow.state \in Terminal THEN workflow.state
                     ELSE IF review.state = "none" THEN "none" ELSE "open"
  BY <1>1 DEF StagesAreInOrder
<1>3. CASE \E u \in Users : ReadWorkflow(u)
  <2>1. PICK u \in Users : ReadWorkflow(u)
    BY <1>3
  <2>2. /\ workflow.state # "none" /\ UNCHANGED <<caseVars, workflow, stage, decisions, events>>
        /\ seen' = [seen EXCEPT ![u] = [revision |-> workflow.revision,
                                        active |-> workflow.active]]
    BY <2>1 DEF ReadWorkflow
  <2>3. workflow # NotStarted /\ workflow.revision \in Nat /\ workflow.active \in Nat
    BY <2>2 DEF NotStarted, EarnedInv, WorkflowTypeOK, WorkflowRow
  <2>4. RowsTypeOK'
    BY <1>1, <2>2, <2>3 DEF RowsTypeOK, caseVars
  <2>5. SeenIsPast'
    BY <1>1, <2>2, <2>3 DEF SeenIsPast, RowsTypeOK
  <2>6. PredecessorsExist' /\ Linear' /\ AssigneesAreNotified'
    BY <1>1, <2>2 DEF PredecessorsExist, Linear, AssigneesAreNotified, Successors, caseVars
  <2> QED
    BY <1>2, <2>2, <2>3, <2>4, <2>5, <2>6, WorkflowRests DEF caseVars
<1>4. CASE \/ StartReview /\ UNCHANGED workflowVars
           \/ /\ UNCHANGED <<review, assignment, workflow, stage, decisions, events, seen>>
              /\ notified \subseteq notified'
  <2>1. /\ UNCHANGED <<assignment, workflow, stage, decisions, events, seen>>
        /\ notified \subseteq notified'
        /\ \/ review' = review
           \/ review' = [state |-> "open", revision |-> 0] /\ review.state = "none"
    BY <1>4 DEF StartReview, workflowVars
  <2>2. RowsTypeOK' /\ SeenIsPast'
    BY <1>1, <2>1 DEF RowsTypeOK, SeenIsPast
  <2>3. PredecessorsExist' /\ Linear' /\ AssigneesAreNotified'
    BY <1>1, <2>1 DEF PredecessorsExist, Linear, AssigneesAreNotified, Successors
  <2>4. review'.state = IF workflow.state \in Terminal THEN workflow.state
                        ELSE IF review'.state = "none" THEN "none" ELSE "open"
    BY <1>2, <2>1 DEF Terminal
  <2> QED
    BY <2>1, <2>2, <2>3, <2>4, WorkflowRests
<1>5. CASE \E u \in Users, key \in ClientKeys : Assign(u, key) /\ UNCHANGED workflowVars
  <2>1. PICK u \in Users, key \in ClientKeys : Assign(u, key) /\ UNCHANGED workflowVars
    BY <1>5
  <2>2. UNCHANGED <<review, workflow, stage, decisions, events, seen>>
    BY <2>1 DEF Assign, workflowVars
  <2>3. /\ assignment' \in [DOMAIN assignment' -> AssignmentRow] /\ Grown
        /\ DOMAIN assignment' = DOMAIN assignment \cup {key}
    BY <1>1, <2>1, AssignAssignments
  <2>4. RowsTypeOK' /\ SeenIsPast'
    BY <1>1, <2>2, <2>3 DEF RowsTypeOK, SeenIsPast
  <2>5. PredecessorsExist' /\ Linear' /\ AssigneesAreNotified'
    BY <2>3, <2>4, GrownKeeps
  <2>6. \A k \in DOMAIN assignment' \cap StageKey :
          assignment'[k].status = "active" => assignment[k].status = "active"
    BY <2>3, StageKeysDiffer DEF Grown
  <2> QED
    BY <1>2, <2>2, <2>3, <2>4, <2>5, <2>6, WorkflowRests
<1>6. CASE \E u \in Users, key \in ClientKeys, kind \in HandedOn :
             \E old \in DOMAIN assignment, expected \in Int :
               Transfer(old, u, key, kind, expected) /\ UNCHANGED workflowVars
  <2>1. PICK u \in Users, key \in ClientKeys, kind \in HandedOn,
             old \in DOMAIN assignment, expected \in Int :
               Transfer(old, u, key, kind, expected) /\ UNCHANGED workflowVars
    BY <1>6
  <2>2. /\ UNCHANGED <<workflow, stage, decisions, events, seen>>
        /\ review' = [review EXCEPT !.revision = expected + 1]
        /\ assignment[old].status = "active"
    BY <2>1 DEF Transfer, workflowVars
  <2>3. /\ assignment' \in [DOMAIN assignment' -> AssignmentRow]
        /\ DOMAIN assignment' = DOMAIN assignment \cup {key}
        /\ \A k \in DOMAIN assignment \ {old} : assignment'[k] = assignment[k]
        /\ assignment'[old].status \in HandedOn
        /\ PredecessorsExist' /\ Linear' /\ AssigneesAreNotified'
    BY <2>1, TransferKeeps
  <2>4. /\ review' \in [state : {"none", "open"} \cup Terminal, revision : Int]
        /\ review'.state = review.state
    BY <1>1, <2>1, <2>2 DEF RowsTypeOK
  <2>5. RowsTypeOK' /\ SeenIsPast'
    BY <1>1, <2>2, <2>3, <2>4 DEF RowsTypeOK, SeenIsPast
  <2>6. \A k \in DOMAIN assignment' \cap StageKey :
          assignment'[k].status = "active" => assignment[k].status = "active"
    BY <2>2, <2>3, StageKeysDiffer
  <2> QED
    BY <1>2, <2>2, <2>3, <2>4, <2>5, <2>6, WorkflowRests
<1>7. CASE \E e \in Escalators : EscalateCommit(e)
  <2>1. PICK e \in Escalators : EscalateCommit(e)
    BY <1>7
  <2>2. /\ UNCHANGED <<review, assignment, notified, workflow, stage, decisions, seen>>
        /\ \/ events' = events
           \/ events' = events \cup {Event(EscalationKey(sweep[e]), "escalate", None)}
    BY <2>1 DEF EscalateCommit, caseVars
  <2>3. events \subseteq events' /\ terminals(events') = terminals(events)
    BY <2>2 DEF Event
  <2>4. RowsTypeOK' /\ SeenIsPast'
    BY <1>1, <2>2 DEF RowsTypeOK, SeenIsPast
  <2>5. PredecessorsExist' /\ Linear' /\ AssigneesAreNotified'
    BY <1>1, <2>2 DEF PredecessorsExist, Linear, AssigneesAreNotified, Successors
  <2> QED
    BY <1>2, <2>2, <2>3, <2>4, <2>5, WorkflowRests
<1> QED
  BY <1>3, <1>4, <1>5, <1>6, <1>7

LEMMA TablesStep ==
  EarnedInv /\ EarnedInv' /\ TablesInv /\ [ReviewNext]_reviewVars => TablesInv'
<1> SUFFICES ASSUME EarnedInv, EarnedInv', TablesInv, [ReviewNext]_reviewVars PROVE TablesInv'
  OBVIOUS
<1> QED
  BY ReviewSteps, DecideKeepsTables, StartKeepsTables, OthersKeepTables

LEMMA TablesAlways == ReviewSpec => [](EarnedInv /\ TablesInv)
<1> QED
  BY EarnedInit, EarnedStep, TablesInit, TablesStep, PTL DEF ReviewSpec

\* The stages, the review's state, the order of the decisions and the inboxes
\* of the stages agree after any interleaving (_advance, _complete_terminal,
\* _activate_assignments, _complete_assignments).
THEOREM StagesStayInOrder == ReviewSpec => []StagesAreInOrder
<1>1. TablesInv => StagesAreInOrder
  BY DEF TablesInv
<1> QED
  BY <1>1, TablesAlways, PTL

\* Every decision has its outbox row, and a terminal workflow has exactly one
\* terminal row, whose snapshot is what the tables say (_emit).
THEOREM HistoryIsTold == ReviewSpec => []EventsTellTheHistory
<1>1. TablesInv => EventsTellTheHistory
  <2> SUFFICES ASSUME TablesInv PROVE EventsTellTheHistory
    OBVIOUS
  <2>1. History
    BY DEF TablesInv
  <2>2. Cardinality(TerminalEvents) = IF workflow.state \in Terminal THEN 1 ELSE 0
    BY <2>1, FS_EmptySet, FS_Singleton DEF History
  <2> QED
    BY <2>1, <2>2 DEF History, EventsTellTheHistory, TerminalEvents
<1> QED
  BY <1>1, TablesAlways, PTL

\* An assignment is handed on at most once and never after it is closed
\* (transfer() under the lock of the review row).
THEOREM TransfersStayLinear == ReviewSpec => []TransfersAreLinear
<1>1. TablesInv => TransfersAreLinear
  <2> SUFFICES ASSUME TablesInv, NEW k \in DOMAIN assignment
               PROVE  Cardinality(Successors(k)) =
                        IF assignment[k].status \in HandedOn THEN 1 ELSE 0
    BY DEF TransfersAreLinear
  <2>1. IF assignment[k].status \in HandedOn
        THEN \E l \in DOMAIN assignment : Successors(k) = {l} ELSE Successors(k) = {}
    BY DEF TablesInv, Linear
  <2> QED
    BY <2>1, FS_EmptySet, FS_Singleton
<1> QED
  BY <1>1, TablesAlways, PTL

\* Nobody has work in the inbox without having been told (_notify,
\* _activate_assignments).
THEOREM InboxesAreNotified == ReviewSpec => []AssigneesAreNotified
<1>1. TablesInv => AssigneesAreNotified
  BY DEF TablesInv
<1> QED
  BY <1>1, TablesAlways, PTL

\* The revision a request names pins the stage its sender looked at: a decision
\* is recorded on that stage (decide()).
THEOREM DecisionsAreOnTheStageSeen == ReviewSpec => DecisionIsOnTheStageSeen
<1> DEFINE A == \A i \in DOMAIN decisions' \ DOMAIN decisions :
                  LET d == decisions'[i] IN seen[d.actor].active = d.stage
<1>1. ASSUME EarnedInv, TablesInv, [ReviewNext]_reviewVars PROVE A
  <2>1. CASE \E u \in Users, action \in DOMAIN Outcome : Decide(u, action)
    <3>1. PICK u \in Users, action \in DOMAIN Outcome : Decide(u, action)
      BY <2>1
    <3> DEFINE d == [stage |-> workflow.active, actor |-> u, action |-> action]
    <3>2. SawCurrent(u) /\ decisions \in Seq(Decision) /\ decisions' = Append(decisions, d)
      BY <1>1, <3>1, DecisionEffect
    <3>3. seen[u].active = workflow.active
      BY <1>1, <3>2 DEF SawCurrent, TablesInv, SeenIsPast
    <3>4. d.actor = u /\ d.stage = workflow.active
      OBVIOUS
    <3> HIDE DEF d
    <3>5. \A i \in DOMAIN decisions' \ DOMAIN decisions : decisions'[i] = d
      BY <3>2
    <3> QED
      BY <3>3, <3>4, <3>5
  <2>2. CASE decisions' = decisions
    BY <2>2
  <2>3. (\E u \in Users, action \in DOMAIN Outcome : Decide(u, action)) \/ decisions' = decisions
    BY <1>1, ReviewSteps DEF StartWorkflow, ReadWorkflow, workflowVars, EscalateCommit
  <2> QED
    BY <2>1, <2>2, <2>3
<1>2. EarnedInv /\ TablesInv /\ [ReviewNext]_reviewVars => [A]_reviewVars
  BY <1>1
<1> QED
  BY <1>2, TablesAlways, PTL DEF ReviewSpec, DecisionIsOnTheStageSeen
=============================================================================
