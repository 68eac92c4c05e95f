--------------------------- MODULE ReviewWorkflow ---------------------------
(***************************************************************************)
(* The approval workflow of a review, as ReviewWorkflowCoordinator         *)
(* (reviews/workflow.py) runs it: stages in order, decisions of eligible   *)
(* people on the active stage, assignments for the stage, escalation of    *)
(* overdue stages, and an outbox row for every change.  A decision locks   *)
(* the workflow row, so it is one step; what the client knew when it sent  *)
(* the request is the step that read the workflow.  escalate_overdue locks *)
(* nothing: its read and its commit are two steps.                         *)
(***************************************************************************)
EXTENDS ReviewCase, Sequences

CONSTANTS
    Roles,
    RoleOf,      \* the role of each member (memberships; external)
    Policies,    \* the published policy versions a review may be started with
    Escalators,  \* callers of escalate_overdue
    MaxActs      \* BOUND on decisions, assignments by hand and comments together

ASSUME RoleAssumption == RoleOf \in [Users -> Roles]

\* A policy version: its stages and the two exceptions it may allow
Stage == [mode : {"any", "all", "quorum"}, quorum : Nat,
          roles : SUBSET Roles, users : SUBSET Users, deadline : BOOLEAN]

\* _validate_draft: what a published version satisfies
ASSUME PolicyAssumption ==
    \A p \in Policies :
        /\ p.stages \in Seq(Stage) /\ p.stages # <<>>
        /\ p.submitterMayApprove \in BOOLEAN /\ p.sameApproverAllowed \in BOOLEAN
        /\ \A s \in DOMAIN p.stages :
            /\ p.stages[s].roles \cup p.stages[s].users # {}
            /\ p.stages[s].mode = "quorum" => p.stages[s].quorum > 0

\* The coordinator's assignment keys start with the workflow's own id; a
\* client's key is none of them, and no key is the missing one.
ASSUME KeyAssumption ==
    (ClientKeys \cup {None}) \cap ({"stage"} \X Nat \X Users) = {} /\ None \notin ClientKeys

VARIABLES
    workflow,   \* the review_workflows row
    stage,      \* the state of each review_workflow_stages row
    escalated,  \* the stages whose escalated_at is set
    overdue,    \* the stages whose deadline has passed
    decisions,  \* the review_workflow_decisions rows in order
    events,     \* the review_workflow_outbox rows
    seen,       \* the workflow as a user last read it
    sweep       \* the stage an escalation sweep found overdue

workflowVars == <<workflow, stage, escalated, overdue, decisions, events, seen, sweep>>
reviewVars == <<caseVars, workflowVars>>

NotStarted == [state |-> "none", active |-> 0, revision |-> 0, policy |-> None]

WorkflowInit ==
    /\ workflow = NotStarted
    /\ stage = <<>>
    /\ escalated = {} /\ overdue = {}
    /\ decisions = <<>>
    /\ events = {}
    /\ seen = [u \in Users |-> None]
    /\ sweep = [e \in Escalators |-> 0]

Waiting == workflow.state = "waiting_for_approval"

StageRule(s) == workflow.policy.stages[s]
EligibleOf(rule) == rule.users \cup {u \in Users : RoleOf[u] \in rule.roles}
AssigneeKey(s, u) == <<"stage", s, u>>

\* Who approved stage s in the decisions ds
Approvers(ds, s) ==
    {ds[i].actor : i \in {j \in DOMAIN ds : ds[j].stage = s /\ ds[j].action = "approve"}}

\* _stage_is_satisfied.  "all" wants as many approvers as the stage names
\* roles and users.
Satisfied(ds, s) ==
    LET n == Cardinality(Approvers(ds, s)) rule == StageRule(s)
    IN  CASE rule.mode = "any"    -> n > 0
          [] rule.mode = "quorum" -> n >= rule.quorum
          [] rule.mode = "all"    -> n >= Cardinality(rule.roles) + Cardinality(rule.users)

\* _activate_assignments: a row for every eligible person who has none
Activated(asg, rule, s) ==
    LET keys == {AssigneeKey(s, u) : u \in EligibleOf(rule)}
    IN  [k \in DOMAIN asg \cup keys |->
            IF k \notin keys THEN asg[k]
            ELSE IF k \in DOMAIN asg THEN [asg[k] EXCEPT !.status = "active"]
            ELSE NewAssignment(k[3], None)]

ActivationNotices(rule, s) ==
    {Notice("created", AssigneeKey(s, u), u) :
        u \in {v \in EligibleOf(rule) : AssigneeKey(s, v) \notin DOMAIN assignment}}

\* Mutant: the prefix of the stage that starts
NextStageKeys(s) == {AssigneeKey(s + 1, u) : u \in Users}

\* _complete_assignments: the active rows whose key is one of stage s
StageKeys(s) == {AssigneeKey(s, u) : u \in Users}
Completed(asg, keys) ==
    [k \in DOMAIN asg |-> IF k \in keys /\ asg[k].status = "active"
                          THEN [asg[k] EXCEPT !.status = "completed"] ELSE asg[k]]

\* _terminal_package_snapshot: what the final package will be made of
Snapshot(wf, asg, ds) ==
    [state |-> wf.state, revision |-> wf.revision, decisions |-> ds,
     comments |-> DOMAIN comments,
     open |-> {k \in DOMAIN asg : asg[k].status = "active"}]

\* _emit: only a terminal event carries a snapshot
Event(key, kind, snapshot) == [key |-> key, kind |-> kind, snapshot |-> snapshot]

-----------------------------------------------------------------------------
\* start(): a workflow that exists is returned, or the request is refused
StartWorkflow(p) ==
    /\ Locked
    /\ workflow.state = "none"
    /\ workflow' = [state |-> "waiting_for_approval", active |-> 1,
                    revision |-> 0, policy |-> p]
    /\ stage' = [s \in DOMAIN p.stages |-> IF s = 1 THEN "active" ELSE "pending"]
    /\ assignment' = Activated(assignment, p.stages[1], 1)
    /\ notified' = notified \cup ActivationNotices(p.stages[1], 1)
    /\ events' = events \cup {Event(<<"start">>, "resume", None)}
    /\ UNCHANGED <<tombstoned, review, comments, escalated, overdue, decisions, seen, sweep>>

\* GET /reviews/{id}/workflow
ReadWorkflow(u) ==
    /\ Locked
    /\ workflow.state # "none"
    /\ seen' = [seen EXCEPT ![u] = [revision |-> workflow.revision,
                                    active |-> workflow.active]]
    /\ UNCHANGED <<caseVars, workflow, stage, escalated, overdue, decisions, events, sweep>>

\* Mutant: an approver of an earlier stage is not refused
MayDecideAgain(u, action) ==
    /\ action # "approve" \/ workflow.policy.submitterMayApprove \/ u # Submitter
    /\ u \in EligibleOf(StageRule(workflow.active))

\* The refusals of decide() that protect the independence of approvals
MayDecide(u, action) ==
    /\ \/ action # "approve"
       \/ workflow.policy.submitterMayApprove
       \/ u # Submitter
    /\ u \in EligibleOf(StageRule(workflow.active))
    /\ \/ action # "approve"
       \/ workflow.policy.sameApproverAllowed
       \/ \A s \in DOMAIN stage \ {workflow.active} : u \notin Approvers(decisions, s)

Outcome == [reject |-> "rejected", request_changes |-> "revision_requested",
            approve |-> "approved"]

\* Mutant: the event is written before the revision is counted
RecordEarly(wf, asg, ds) ==
    LET decided == [wf EXCEPT !.revision = workflow.revision + 1]
        terminal == decided.state \in Terminal
    IN  /\ workflow' = decided
        /\ assignment' = asg
        /\ decisions' = ds
        /\ events' = events \cup
              {Event(<<"decision", Len(ds)>>,
                     IF terminal THEN "terminal" ELSE "resume",
                     IF terminal THEN Snapshot(wf, asg, ds) ELSE None)}
        /\ review' = [review EXCEPT !.state = IF terminal THEN decided.state ELSE @]

\* _emit and the revision, common to the outcomes of a decision
Record(wf, asg, ds) ==
    LET decided == [wf EXCEPT !.revision = workflow.revision + 1]
        terminal == decided.state \in Terminal
    IN  /\ workflow' = decided
        /\ assignment' = asg
        /\ decisions' = ds
        /\ events' = events \cup
              {Event(<<"decision", Len(ds)>>,
                     IF terminal THEN "terminal" ELSE "resume",
                     IF terminal THEN Snapshot(decided, asg, ds) ELSE None)}
        /\ review' = [review EXCEPT !.state = IF terminal THEN decided.state ELSE @]

\* _complete_terminal: reject or request_changes ends the workflow and
\* closes every active assignment
Terminate(u, action, ds) ==
    /\ action \in {"reject", "request_changes"}
    /\ Record([workflow EXCEPT !.state = Outcome[action], !.active = 0],
              Completed(assignment, DOMAIN assignment), ds)
    /\ stage' = [stage EXCEPT ![workflow.active] = "completed"]
    /\ UNCHANGED notified

\* an approval that does not satisfy the stage
Support(u, action, ds) ==
    /\ action = "approve"
    /\ ~Satisfied(ds, workflow.active)
    /\ Record(workflow, assignment, ds)
    /\ UNCHANGED <<stage, notified>>

\* _advance: the stage is completed and the next one, if any, activated
Advance(u, action, ds) ==
    LET s == workflow.active
        closed == Completed(assignment, StageKeys(s))
    IN  /\ action = "approve"
        /\ Satisfied(ds, s)
        /\ IF s + 1 \in DOMAIN stage
           THEN /\ Record([workflow EXCEPT !.active = s + 1],
                          Activated(closed, StageRule(s + 1), s + 1), ds)
                /\ stage' = [stage EXCEPT ![s] = "completed", ![s + 1] = "active"]
                /\ notified' = notified \cup ActivationNotices(StageRule(s + 1), s + 1)
           ELSE /\ Record([workflow EXCEPT !.state = "approved", !.active = 0], closed, ds)
                /\ stage' = [stage EXCEPT ![s] = "completed"]
                /\ UNCHANGED notified

\* Mutant: any earlier reading will do
SawSome(u) == seen[u] # None

\* The request names the revision the workflow has
SawCurrent(u) == seen[u] # None /\ seen[u].revision = workflow.revision

\* decide(): the request carries the revision its sender saw
Decide(u, action) ==
    LET ds == Append(decisions, [stage |-> workflow.active, actor |-> u, action |-> action])
    IN  /\ Locked
        /\ SawCurrent(u)
        /\ Waiting
        /\ MayDecide(u, action)
        /\ Terminate(u, action, ds) \/ Support(u, action, ds) \/ Advance(u, action, ds)
        /\ UNCHANGED <<tombstoned, comments, escalated, overdue, seen, sweep>>

-----------------------------------------------------------------------------
\* The deadline of an active stage passes
DeadlinePasses(s) ==
    /\ stage[s] = "active"
    /\ StageRule(s).deadline
    /\ s \notin overdue
    /\ overdue' = overdue \cup {s}
    /\ UNCHANGED <<caseVars, workflow, stage, escalated, decisions, events, seen, sweep>>

\* escalate_overdue reads the waiting workflows and their stages ...
EscalateRead(e) ==
    /\ Locked
    /\ Waiting
    /\ sweep[e] = 0
    /\ workflow.active \in overdue \ escalated
    /\ sweep' = [sweep EXCEPT ![e] = workflow.active]
    /\ UNCHANGED <<caseVars, workflow, stage, escalated, overdue, decisions, events, seen>>

EscalationKey(s) == <<"escalation", s>>

\* ... and commits escalated_at and the event, whose key is unique: of two
\* sweeps that read the same stage the later one is rolled back.
EscalateCommit(e) ==
    /\ sweep[e] # 0
    /\ LET s == sweep[e]
       IN  IF \E v \in events : v.key = EscalationKey(s)
           THEN UNCHANGED <<escalated, events>>
           ELSE /\ escalated' = escalated \cup {s}
                /\ events' = events \cup {Event(EscalationKey(s), "escalate", None)}
    /\ sweep' = [sweep EXCEPT ![e] = 0]
    /\ UNCHANGED <<caseVars, workflow, stage, overdue, decisions, seen>>

-----------------------------------------------------------------------------
\* What MaxActs counts
Acts ==
    Len(decisions) + Cardinality(DOMAIN assignment \cap ClientKeys)
        + Cardinality(DOMAIN comments)

WorkflowStep ==
    \/ StartReview /\ UNCHANGED workflowVars
    \/ \E p \in Policies : StartWorkflow(p)
    \/ \E u \in Users : ReadWorkflow(u)
    \/ \E u \in Users, action \in DOMAIN Outcome : Acts < MaxActs /\ Decide(u, action)
    \/ Acts < MaxActs /\ Collaborate /\ UNCHANGED workflowVars
    \/ \E s \in DOMAIN stage : DeadlinePasses(s)
    \/ \E e \in Escalators : EscalateRead(e) \/ EscalateCommit(e)

ReviewInit == CaseInit /\ WorkflowInit
ReviewNext ==
    \/ WorkflowStep
    \/ AcceptDeletion /\ UNCHANGED workflowVars

ReviewSpec == ReviewInit /\ [][ReviewNext]_reviewVars

-----------------------------------------------------------------------------
\* An approved review was approved stage by stage by distinct eligible people
\* (test plan step 10: "distinct eligible people decide, and self/ineligible
\* approval is denied"): every stage has the approvals its rule asks for, all
\* of them from people the rule names, none from the submitter and none from
\* somebody who approved another stage, unless the policy allows it.
ApprovedIsEarned ==
    workflow.state = "approved" =>
        \A s \in DOMAIN stage :
            LET by == Approvers(decisions, s) rule == StageRule(s)
            IN  /\ by # {} /\ by \subseteq EligibleOf(rule)
                /\ rule.mode = "quorum" => Cardinality(by) >= rule.quorum
                /\ Submitter \in by => workflow.policy.submitterMayApprove
                /\ \A t \in DOMAIN stage \ {s} :
                    by \cap Approvers(decisions, t) # {} => workflow.policy.sameApproverAllowed

\* The workflow's tables agree with one another after any interleaving of
\* decisions, escalations, transfers and comments: the stages before the
\* active one are completed and those after it pending, the review shows the
\* workflow's outcome, every decision was on a stage not later than the
\* next one's, and the work of a stage that is over is not left in an inbox.
StagesAreInOrder ==
    /\ Waiting => \A s \in DOMAIN stage :
        stage[s] = IF s < workflow.active THEN "completed"
                   ELSE IF s = workflow.active THEN "active" ELSE "pending"
    /\ workflow.state \in Terminal => \A s \in DOMAIN stage : stage[s] # "active"
    /\ \A i \in 1..Len(decisions)-1 : decisions[i].stage <= decisions[i+1].stage
    /\ review.state = IF workflow.state \in Terminal THEN workflow.state
                      ELSE IF review.state = "none" THEN "none" ELSE "open"
    /\ \A s \in DOMAIN stage, u \in Users :
        LET k == AssigneeKey(s, u)
        IN  k \in DOMAIN assignment /\ assignment[k].status = "active" => stage[s] = "active"

\* Each change of the workflow has its own outbox row, and exactly one of
\* them is terminal when the workflow is: its frozen snapshot tells the
\* outcome, the revision and all the decisions (_emit after revision += 1).
EventsTellTheHistory ==
    LET terminal == {v \in events : v.kind = "terminal"}
    IN  /\ workflow.revision = Len(decisions)
        /\ \A i \in DOMAIN decisions : \E v \in events : v.key = <<"decision", i>>
        /\ Cardinality(terminal) = IF workflow.state \in Terminal THEN 1 ELSE 0
        /\ \A v \in terminal :
            /\ v.snapshot.state = workflow.state
            /\ v.snapshot.revision = workflow.revision
            /\ v.snapshot.decisions = decisions
            /\ v.snapshot.open = {} \/ workflow.state = "approved"

\* A decision is taken on the stage its sender was looking at: somebody who
\* read stage 1 never approves stage 2 because a colleague decided meanwhile
\* (the revision check of decide(), under the lock of the workflow row).
DecisionIsOnTheStageSeen ==
    [][\A i \in DOMAIN decisions' \ DOMAIN decisions :
        LET d == decisions'[i] IN seen[d.actor].active = d.stage]_reviewVars

\* Once decided, a workflow never changes its outcome, its stages or its
\* decisions again, and once the agreement is tombstoned nothing of the
\* review does (_review and _workflow_for_decision_update).
OutcomeIsFinal ==
    [][/\ workflow.state \in Terminal => UNCHANGED <<workflow, stage, decisions>>
       /\ tombstoned => UNCHANGED <<review, assignment, comments, workflow, decisions>>]_reviewVars

-----------------------------------------------------------------------------
\* _complete_terminal says: "Terminal decisions close any remaining active
\* assignee work."  (The decision that approves the last stage goes through
\* _advance, which closes the work keyed to that stage only.)
TerminalDecisionClosesWork ==
    [][workflow.state \notin Terminal /\ workflow'.state \in Terminal =>
        \A k \in DOMAIN assignment' : assignment'[k].status # "active"]_reviewVars
=============================================================================
