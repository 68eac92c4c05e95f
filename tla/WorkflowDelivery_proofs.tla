----------------------- MODULE WorkflowDelivery_proofs -----------------------
(***************************************************************************)
(* What the delivery of a review's outcome guarantees, for any number of   *)
(* workers, relays, dispatchers, messages and faults and for every policy: *)
(* the package tells the decision, a retry does not conflict with what a   *)
(* crash left in S3, a deletion knows every package object, an event that  *)
(* is not processed is not forgotten, and the delivery takes no step that  *)
(* ReviewOutcome forbids.                                                  *)
(***************************************************************************)
EXTENDS WorkflowDelivery, SequenceTheorems, TLAPS

-----------------------------------------------------------------------------
(* The events of the review *)

IsRow(wf) == wf = [state |-> wf.state, active |-> wf.active, revision |-> wf.revision,
                   policy |-> wf.policy]

\* Each event has a key of its own, one event at most is terminal and it tells
\* the state of the decided workflow; the keys of later decisions are free.
EventsInv ==
    /\ IsRow(workflow) /\ \E S : decisions \in Seq(S)
    /\ DOMAIN sweep = Escalators
    /\ workflow.state = "none" => events = {} /\ \A e \in Escalators : sweep[e] = 0
    /\ \A u, v \in events : u.key = v.key => u = v
    /\ \A u, v \in TerminalEvents : u = v
    /\ \A v \in TerminalEvents : workflow.state \in Terminal /\ v.snapshot.state = workflow.state
    /\ \A v \in events : \A i \in Nat : v.key = <<"decision", i>> => i <= Len(decisions)
    /\ \A v \in events : v.key = BackfillKey => v.kind = "terminal"

\* What a step does to the events.
EventsGrow ==
    /\ events \subseteq events'
    /\ \A v \in events' : v \notin events => v.key # BackfillKey
    /\ workflow.state \in Terminal => TerminalEvents' = TerminalEvents /\ UNCHANGED workflow
    /\ tombstoned => UNCHANGED workflow

\* A changed row is a row.
LEMMA ChangedRow ==
  ASSUME NEW wf, IsRow(wf), NEW x, NEW y
  PROVE  /\ IsRow([wf EXCEPT !.state = x, !.active = y])
         /\ IsRow([wf EXCEPT !.active = y])
         /\ IsRow([wf EXCEPT !.revision = x])
         /\ [wf EXCEPT !.revision = x].state = wf.state
         /\ [wf EXCEPT !.active = y].state = wf.state
         /\ [wf EXCEPT !.state = x, !.active = y].state = x
<1> DEFINE a == wf.state  b == wf.active  c == wf.revision  d == wf.policy
<1>1. wf = [state |-> a, active |-> b, revision |-> c, policy |-> d]
  BY DEF IsRow
<1> HIDE DEF a, b, c, d
<1>2. [wf EXCEPT !.state = x, !.active = y] =
          [state |-> x, active |-> y, revision |-> c, policy |-> d]
  <2> DEFINE new == [state |-> x, active |-> y, revision |-> c, policy |-> d]
             old == [wf EXCEPT !.state = x, !.active = y]
  <2>1. old = [f \in {"state", "active", "revision", "policy"} |->
                  IF f = "active" THEN y ELSE IF f = "state" THEN x ELSE wf[f]]
    BY <1>1
  <2>2. new = [f \in {"state", "active", "revision", "policy"} |->
                  IF f = "active" THEN y ELSE IF f = "state" THEN x ELSE wf[f]]
    BY <1>1
  <2> QED
    BY <2>1, <2>2
<1>4. [wf EXCEPT !.active = y] = [state |-> a, active |-> y, revision |-> c, policy |-> d]
  BY <1>1
<1>5. [wf EXCEPT !.revision = x] = [state |-> a, active |-> b, revision |-> x, policy |-> d]
  BY <1>1
<1>3. \A p, q, r, t : IsRow([state |-> p, active |-> q, revision |-> r, policy |-> t])
  BY DEF IsRow
<1> QED
  BY <1>1, <1>2, <1>3, <1>4, <1>5

\* The keys of the workflow's own events are not the migration's.
LEMMA OwnKeys ==
  /\ \A n : <<"decision", n>> # BackfillKey
  /\ \A n : <<"escalation", n>> # BackfillKey
  /\ <<"start">> # BackfillKey
  /\ \A m, n : <<"escalation", m>> # <<"decision", n>>
  /\ \A n : <<"start">> # <<"decision", n>>
<1>1. \A n : /\ <<"decision", n>>[1] = "decision"
              /\ <<"escalation", n>>[1] = "escalation"
  OBVIOUS
<1>2. BackfillKey[1] = "backfill" /\ <<"start">>[1] = "start"
  BY DEF BackfillKey
<1> HIDE DEF BackfillKey
<1>3. "decision" # "backfill" /\ "escalation" # "backfill" /\ "start" # "backfill"
  OBVIOUS
<1>4. "decision" # "escalation" /\ "start" # "decision"
  OBVIOUS
<1>5. ASSUME NEW m, NEW n PROVE <<"escalation", m>> # <<"decision", n>> /\ <<"start">> # <<"decision", n>>
  BY <1>1, <1>2, <1>4
<1> QED
  BY <1>1, <1>2, <1>3, <1>5

LEMMA EventsRest ==
  ASSUME EventsInv, UNCHANGED <<workflow, decisions, events>>, DOMAIN sweep' = Escalators,
         \A e \in Escalators : workflow.state = "none" => sweep'[e] = 0
  PROVE  EventsInv' /\ EventsGrow
BY DEF EventsInv, EventsGrow, TerminalEvents, IsRow

\* One more decision: the number of its event is new.
LEMMA OneMoreDecision ==
  ASSUME NEW ds, \E S : ds \in Seq(S), NEW d
  PROVE  /\ Len(Append(ds, d)) = Len(ds) + 1 /\ Len(ds) \in Nat
         /\ \E S : Append(ds, d) \in Seq(S)
<1>1. PICK S : ds \in Seq(S)
  OBVIOUS
<1> DEFINE T == S \cup {d}
<1>2. ds \in Seq(T) /\ d \in T
  BY <1>1
<1> HIDE DEF T
<1> QED
  BY <1>2

LEMMA DecisionEvents ==
  ASSUME EventsInv, NEW u \in Users, NEW action \in DOMAIN Outcome, Decide(u, action)
  PROVE  EventsInv' /\ EventsGrow
<1> DEFINE d == [stage |-> workflow.active, actor |-> u, action |-> action]
           ds == Append(decisions, d)
<1>1. /\ workflow.state = "waiting_for_approval" /\ UNCHANGED sweep
      /\ Terminate(u, action, ds) \/ Support(u, action, ds) \/ Advance(u, action, ds)
  BY DEF Decide, Waiting
<1>2. \E wf, asg : IsRow(wf) /\ wf.state # "none" /\ Record(wf, asg, ds)
  <2>1. CASE Terminate(u, action, ds)
    <3> DEFINE wf == [workflow EXCEPT !.state = Outcome[action], !.active = 0]
    <3>1. IsRow(wf) /\ wf.state # "none"
      <4>1. IsRow(workflow) /\ Outcome[action] # "none"
        BY DEF EventsInv, Outcome
      <4>2. wf.state = Outcome[action]
        BY <4>1, ChangedRow DEF IsRow
      <4> QED
        BY <4>1, <4>2, ChangedRow
    <3>2. Record(wf, Completed(assignment, DOMAIN assignment), ds)
      BY <2>1 DEF Terminate
    <3> QED
      BY <3>1, <3>2
  <2>2. CASE Support(u, action, ds)
    BY <1>1, <2>2 DEF Support, EventsInv
  <2>3. CASE Advance(u, action, ds)
    <3> DEFINE s == workflow.active
               on == [workflow EXCEPT !.active = s + 1]
               off == [workflow EXCEPT !.state = "approved", !.active = 0]
    <3>1. IsRow(on) /\ on.state # "none" /\ IsRow(off) /\ off.state # "none"
      <4>1. IsRow(workflow) /\ workflow.state # "none"
        BY <1>1 DEF EventsInv
      <4>2. IsRow(on) /\ on.state = workflow.state
        BY <4>1, ChangedRow
      <4>3. IsRow(off) /\ off.state = "approved"
        BY <4>1, ChangedRow
      <4> QED
        BY <4>1, <4>2, <4>3
    <3>2. (\E asg : Record(on, asg, ds)) \/ (\E asg : Record(off, asg, ds))
      BY <2>3 DEF Advance
    <3> QED
      BY <3>1, <3>2
  <2> QED
    BY <1>1, <2>1, <2>2, <2>3
<1>3. PICK wf, asg : IsRow(wf) /\ wf.state # "none" /\ Record(wf, asg, ds)
  BY <1>2
<1> DEFINE decided == [wf EXCEPT !.revision = workflow.revision + 1]
           terminal == decided.state \in Terminal
           new == Event(<<"decision", Len(ds)>>, IF terminal THEN "terminal" ELSE "resume",
                        IF terminal THEN Snapshot(decided, asg, ds) ELSE None)
<1>4. /\ workflow' = decided /\ decisions' = ds /\ events' = events \cup {new}
      /\ IsRow(decided)
  BY <1>3, ChangedRow DEF Record
<1>5. Len(ds) = Len(decisions) + 1 /\ Len(decisions) \in Nat /\ \E S : ds \in Seq(S)
  BY OneMoreDecision DEF EventsInv
<1>6. TerminalEvents = {}
  BY <1>1 DEF EventsInv, Terminal
<1>7. /\ new.key = <<"decision", Len(ds)>>
      /\ new.kind = "terminal" => terminal /\ new.snapshot.state = decided.state
  BY DEF Event, Snapshot
<1>10. decided.state # "none"
  BY <1>3, ChangedRow
<1> HIDE DEF ds, decided, new
<1>8. \A v \in events : v.key # new.key
  BY <1>5, <1>7 DEF EventsInv
<1>9. \A v \in TerminalEvents' : v = new /\ new.kind = "terminal"
  BY <1>4, <1>6 DEF TerminalEvents
<1>11. new.key # BackfillKey
  BY <1>7, OwnKeys
<1>12. /\ DOMAIN sweep' = Escalators
       /\ workflow'.state # "none"
  BY <1>1, <1>4, <1>10 DEF EventsInv
<1>13. \A v, x \in events' : v.key = x.key => v = x
  BY <1>4, <1>8 DEF EventsInv
<1>14. \A v \in TerminalEvents' : workflow'.state \in Terminal /\ v.snapshot.state = workflow'.state
  BY <1>4, <1>7, <1>9
<1>15. \A v \in events' : \A i \in Nat : v.key = <<"decision", i>> => i <= Len(decisions')
  <2>1. \A i \in Nat : new.key = <<"decision", i>> => i = Len(ds)
    BY <1>7
  <2> QED
    BY <2>1, <1>4, <1>5 DEF EventsInv
<1>16. \A v \in events' : v.key = BackfillKey => v.kind = "terminal"
  BY <1>4, <1>11 DEF EventsInv
<1>17. EventsInv'
  BY <1>4, <1>5, <1>9, <1>12, <1>13, <1>14, <1>15, <1>16 DEF EventsInv
<1>18. EventsGrow
  BY <1>1, <1>4, <1>11 DEF EventsGrow, Terminal, Decide, Locked
<1> QED
  BY <1>17, <1>18

LEMMA StartEvent ==
  ASSUME EventsInv, NEW p \in Policies, StartWorkflow(p)
  PROVE  EventsInv' /\ EventsGrow
<1> DEFINE new == Event(<<"start">>, "resume", None)
<1>1. /\ events' = {new} /\ UNCHANGED <<decisions, sweep>> /\ ~tombstoned
      /\ workflow.state = "none" /\ events = {}
      /\ workflow' = [state |-> "waiting_for_approval", active |-> 1, revision |-> 0, policy |-> p]
  BY DEF StartWorkflow, EventsInv, Locked
<1>2. new.key = <<"start">> /\ new.kind = "resume"
  BY DEF Event
<1>3. IsRow(workflow') /\ workflow'.state = "waiting_for_approval"
  BY <1>1 DEF IsRow
<1> HIDE DEF new
<1>4. TerminalEvents' = {}
  BY <1>1, <1>2 DEF TerminalEvents
<1>5. \A v \in events' : v.key # BackfillKey /\ \A i \in Nat : v.key # <<"decision", i>>
  BY <1>1, <1>2, OwnKeys
<1> QED
  BY <1>1, <1>3, <1>4, <1>5 DEF EventsInv, EventsGrow, Terminal

LEMMA EscalationEvents ==
  ASSUME EventsInv, NEW e \in Escalators, EscalateCommit(e)
  PROVE  EventsInv' /\ EventsGrow
<1> DEFINE s == sweep[e]
           new == Event(EscalationKey(s), "escalate", None)
<1>1. /\ UNCHANGED <<workflow, decisions>> /\ sweep' = [sweep EXCEPT ![e] = 0]
      /\ workflow.state # "none"
  BY DEF EscalateCommit, EventsInv
<1>2. DOMAIN sweep' = Escalators
  BY <1>1 DEF EventsInv
<1>3. CASE UNCHANGED events
  BY <1>1, <1>2, <1>3, EventsRest
<1>4. CASE (\A v \in events : v.key # EscalationKey(s)) /\ events' = events \cup {new}
  <2>1. new.key = EscalationKey(s) /\ new.kind = "escalate"
    BY DEF Event
  <2>2. new.key # BackfillKey /\ \A i \in Nat : new.key # <<"decision", i>>
    BY <2>1, OwnKeys DEF EscalationKey
  <2> HIDE DEF new
  <2>3. TerminalEvents' = TerminalEvents
    BY <1>4, <2>1 DEF TerminalEvents
  <2>4. \A u, v \in events' : u.key = v.key => u = v
    BY <1>4, <2>1 DEF EventsInv
  <2> QED
    BY <1>1, <1>2, <1>4, <2>2, <2>3, <2>4 DEF EventsInv, EventsGrow, IsRow
<1> QED
  BY <1>3, <1>4 DEF EscalateCommit

LEMMA ReviewEvents ==
  ASSUME EventsInv, WorkflowStep
  PROVE  EventsInv' /\ EventsGrow /\ UNCHANGED tombstoned
<1>1. CASE StartReview /\ UNCHANGED workflowVars
  BY <1>1, EventsRest DEF StartReview, workflowVars, EventsInv
<1>2. CASE \E p \in Policies : StartWorkflow(p)
  BY <1>2, StartEvent DEF StartWorkflow
<1>3. CASE \E u \in Users : ReadWorkflow(u)
  BY <1>3, EventsRest DEF ReadWorkflow, caseVars, EventsInv
<1>4. CASE \E u \in Users, action \in DOMAIN Outcome : Acts < MaxActs /\ Decide(u, action)
  BY <1>4, DecisionEvents DEF Decide
<1>5. CASE Collaborate /\ UNCHANGED workflowVars
  BY <1>5, EventsRest DEF Collaborate, Assign, Transfer, Comment, workflowVars, EventsInv
<1>6. CASE \E s \in DOMAIN stage : DeadlinePasses(s)
  BY <1>6, EventsRest DEF DeadlinePasses, caseVars, EventsInv
<1>7. ASSUME NEW e \in Escalators, EscalateRead(e)
      PROVE  EventsInv' /\ EventsGrow /\ UNCHANGED tombstoned
  BY <1>7, EventsRest DEF EscalateRead, caseVars, EventsInv, Waiting
<1>8. ASSUME NEW e \in Escalators, EscalateCommit(e)
      PROVE  EventsInv' /\ EventsGrow /\ UNCHANGED tombstoned
  BY <1>8, EscalationEvents DEF EscalateCommit, caseVars
<1> QED
  BY <1>1, <1>2, <1>3, <1>4, <1>5, <1>6, <1>7, <1>8 DEF WorkflowStep

\* DeliveryInit makes the events of a review that has none, or of a migrated one.
LEMMA FirstEvents == DeliveryInit => EventsInv
<1> SUFFICES ASSUME DeliveryInit PROVE EventsInv
  OBVIOUS
<1>1. CASE ReviewInit
  <2>1. /\ workflow = NotStarted /\ decisions = <<>> /\ events = {}
        /\ sweep = [e \in Escalators |-> 0]
    BY <1>1 DEF ReviewInit, WorkflowInit
  <2>2. IsRow(workflow) /\ workflow.state = "none"
    BY <2>1 DEF NotStarted, IsRow
  <2> QED
    BY <2>1, <2>2 DEF EventsInv, TerminalEvents
<1>2. CASE MigratedReview
  <2> DEFINE new == Event(BackfillKey, "terminal", MigratedSnapshot)
  <2>1. PICK rule : workflow = [state |-> "approved", active |-> 0, revision |-> 0,
                                policy |-> rule]
    BY <1>2 DEF MigratedReview
  <2>2. IsRow(workflow) /\ workflow.state = "approved"
    BY <2>1 DEF IsRow
  <2>3. decisions = <<>> /\ sweep = [e \in Escalators |-> 0] /\ events = {new}
    BY <1>2 DEF MigratedReview
  <2>4. new.key = BackfillKey /\ new.kind = "terminal" /\ new.snapshot.state = "approved"
    BY DEF Event, MigratedSnapshot
  <2> HIDE DEF new
  <2>5. \A v \in events : v = new /\ \A i : v.key # <<"decision", i>>
    BY <2>3, <2>4, OwnKeys
  <2>6. decisions \in Seq({})
    BY <2>3
  <2>7. \A v \in TerminalEvents : v = new
    BY <2>5 DEF TerminalEvents
  <2> QED
    BY <2>2, <2>3, <2>4, <2>5, <2>6, <2>7 DEF EventsInv, Terminal
<1> QED
  BY <1>1, <1>2 DEF DeliveryInit

-----------------------------------------------------------------------------
(* The package *)

WorkerShape ==
    /\ worker = [w \in Workers |-> worker[w]]
    /\ \A w \in Workers :
        worker[w] = [id |-> worker[w].id, key |-> worker[w].key, pc |-> worker[w].pc,
                     prepared |-> worker[w].prepared]

\* A worker that has prepared a package has the snapshot of its event, and
\* only the package of a terminal event has objects.
Prepared(w) ==
    worker[w].pc \in Parts \cup {"prepared", "checkpointed", "commit"} =>
        \E v \in events :
            /\ v.key = worker[w].key
            /\ worker[w].prepared = v.snapshot
            /\ worker[w].pc \in Parts => v.kind = "terminal"

WorkerInv == WorkerShape /\ \A w \in Workers : Prepared(w)

\* Where a worker holds the agreement row, unless it lost its connection.
Locking == Parts \cup {"commit"}

\* Who holds the agreement row is about to publish an event that nobody has
\* processed, of an agreement that is not being deleted.
LockInv ==
    /\ holder # None =>
        /\ holder \in Workers /\ worker[holder].pc \in Locking
        /\ ~tombstoned /\ worker[holder].key \notin processed
    /\ \A w \in Workers : ~LateWrites /\ worker[w].pc \in Locking => holder = w

LegacyKeys == IF BackfillKey \in EventKeys THEN {<<"final-package", part>> : part \in Parts} ELSE {}
IntendedKeys == UNION {PackageKeys(v.key) : v \in TerminalEvents}

\* The objects in S3 are those of a terminal event's package, with the content
\* of its snapshot; the holder has written what it has passed.
ObjectsInv ==
    /\ objects = [k \in DOMAIN objects |-> objects[k]]
    /\ DOMAIN objects \subseteq IntendedKeys \cup LegacyKeys
    /\ RetriesDoNotConflict
    /\ \A v \in TerminalEvents :
        holder # None /\ v.key = worker[holder].key =>
            /\ worker[holder].pc # "manifest" => <<Base(v.key), "manifest">> \in DOMAIN objects
            /\ worker[holder].pc = "commit" => <<Base(v.key), "pdf">> \in DOMAIN objects

\* The package row is that of a processed terminal event and its objects are
\* there, or it is the one the migration describes.
RowInv ==
    package # None =>
        \/ BackfillKey \in EventKeys /\ package = PackageRow("final-package", LegacyContent)
        \/ \E v \in TerminalEvents :
            /\ v.key \in processed
            /\ package = PackageRow(Base(v.key), v.snapshot)
            /\ PackageKeys(v.key) \subseteq DOMAIN objects

\* The inventory of a deletion knows the objects, if nobody writes late.
InventoryInv ==
    /\ purged => tombstoned
    /\ ~LateWrites /\ tombstoned => DOMAIN objects \subseteq inventory
    /\ ~LateWrites /\ purged => objects = <<>>

PackageInv == EventsInv /\ WorkerInv /\ LockInv /\ ObjectsInv /\ RowInv /\ InventoryInv

LEMMA ItsEvent ==
  ASSUME EventsInv, NEW v \in events
  PROVE  EventOf(v.key) = v
BY DEF EventsInv, EventOf

\* A step of the review only adds events; the terminal one finds no object.
LEMMA PackageReview ==
  ASSUME PackageInv, ReviewStep
  PROVE  PackageInv'
<1>1. EventsInv /\ EventsInv' /\ EventsGrow /\ UNCHANGED tombstoned
  BY ReviewEvents DEF PackageInv, ReviewStep
<1>2. UNCHANGED <<worker, holder, processed, objects, package, inventory, purged>>
  BY DEF ReviewStep, deliveryVars, packageVars, deletionVars
<1>3. events \subseteq events' /\ TerminalEvents \subseteq TerminalEvents'
  BY <1>1 DEF EventsGrow, TerminalEvents
<1>4. WorkerInv'
  BY <1>2, <1>3 DEF PackageInv, WorkerInv, WorkerShape, Prepared
<1>5. LockInv'
  BY <1>1, <1>2 DEF PackageInv, LockInv
<1>6. ObjectsInv'
  <2>1. CASE workflow.state \in Terminal
    <3>1. TerminalEvents' = TerminalEvents /\ LegacyKeys \subseteq LegacyKeys'
      BY <1>1, <1>3, <2>1 DEF EventsGrow, LegacyKeys, EventKeys
    <3> QED
      BY <1>2, <3>1 DEF PackageInv, ObjectsInv, IntendedKeys, RetriesDoNotConflict
  <2>2. CASE workflow.state \notin Terminal
    <3>1. TerminalEvents = {} /\ \A v \in events : v.kind # "terminal" /\ v.key # BackfillKey
      BY <1>1, <2>2 DEF EventsInv, TerminalEvents
    <3>2. DOMAIN objects = {}
      BY <3>1 DEF PackageInv, ObjectsInv, IntendedKeys, LegacyKeys, EventKeys
    <3>3. ASSUME NEW v \in TerminalEvents', holder # None, v.key = worker[holder].key
          PROVE  worker[holder].pc = "manifest"
      <4>1. holder \in Workers /\ worker[holder].pc \in Parts \cup {"commit"}
        BY <3>3 DEF PackageInv, LockInv, Locking
      <4>2. PICK u \in events : u.key = worker[holder].key
        BY <4>1 DEF PackageInv, WorkerInv, Prepared
      <4>3. u = v
        BY <1>1, <1>3, <3>3, <4>2 DEF EventsInv, TerminalEvents
      <4> QED
        BY <3>1, <4>3 DEF TerminalEvents
    <3> QED
      BY <1>2, <3>2, <3>3 DEF PackageInv, ObjectsInv, RetriesDoNotConflict
  <2> QED
    BY <2>1, <2>2
<1>7. RowInv'
  BY <1>2, <1>3 DEF PackageInv, RowInv, EventKeys
<1>8. InventoryInv'
  BY <1>1, <1>2 DEF PackageInv, InventoryInv
<1> QED
  BY <1>1, <1>4, <1>5, <1>6, <1>7, <1>8 DEF PackageInv

\* What a step that leaves the events alone needs not look at.
LEMMA EventsStay ==
  ASSUME EventsInv, UNCHANGED reviewVars
  PROVE  /\ EventsInv'
         /\ UNCHANGED <<events, tombstoned, TerminalEvents, EventKeys, IntendedKeys, LegacyKeys>>
BY EventsRest DEF reviewVars, caseVars, workflowVars, TerminalEvents, EventKeys, IntendedKeys,
    LegacyKeys, EventsInv

LEMMA PackageRest ==
  ASSUME PackageInv, UNCHANGED <<reviewVars, packageVars, deletionVars>>
  PROVE  PackageInv'
<1>1. EventsInv' /\ UNCHANGED <<events, tombstoned, TerminalEvents, EventKeys, IntendedKeys, LegacyKeys>>
  BY EventsStay DEF PackageInv
<1> QED
  BY <1>1 DEF PackageInv, WorkerInv, WorkerShape, Prepared, LockInv, ObjectsInv, RowInv,
      InventoryInv, RetriesDoNotConflict, packageVars, deletionVars

\* A step of worker w that writes no object and no row, and after which w
\* does not hold the agreement row.
LEMMA QuietWork ==
  ASSUME PackageInv, UNCHANGED <<reviewVars, processed, objects, package, deletionVars>>,
         NEW w \in Workers, WorkerShape', Prepared(w)',
         \A x \in Workers \ {w} :
            /\ worker'[x].pc = worker[x].pc /\ worker'[x].key = worker[x].key
            /\ worker'[x].prepared = worker[x].prepared,
         worker'[w].pc \in Locking => LateWrites,
         IF holder = w THEN holder' = None ELSE holder' = holder
  PROVE  PackageInv'
<1>1. /\ EventsInv'
      /\ UNCHANGED <<events, tombstoned, TerminalEvents, EventKeys, IntendedKeys, LegacyKeys>>
  BY EventsStay DEF PackageInv
<1>2. WorkerInv'
  BY <1>1 DEF PackageInv, WorkerInv, Prepared
<1>3. LockInv'
  BY <1>1, DeliveryAssumption DEF PackageInv, LockInv
<1>4. ObjectsInv'
  <2>1. ASSUME holder' # None
        PROVE  /\ holder' = holder /\ worker'[holder].pc = worker[holder].pc
               /\ worker'[holder].key = worker[holder].key
    BY <2>1 DEF PackageInv, LockInv
  <2> QED
    BY <1>1, <2>1 DEF PackageInv, ObjectsInv, RetriesDoNotConflict
<1>5. RowInv'
  BY <1>1 DEF PackageInv, RowInv
<1>6. InventoryInv'
  BY <1>1 DEF PackageInv, InventoryInv, deletionVars
<1> QED
  BY <1>1, <1>2, <1>3, <1>4, <1>5, <1>6 DEF PackageInv

\* The two ways a step changes the worker that takes it.
LEMMA WorkerMoves ==
  ASSUME WorkerShape, NEW w \in Workers, NEW p, Goto(w, p)
  PROVE  /\ WorkerShape'
         /\ worker'[w].pc = p /\ worker'[w].key = worker[w].key
         /\ worker'[w].prepared = worker[w].prepared
         /\ \A x \in Workers \ {w} : worker'[x] = worker[x]
<1>1. worker' = [worker EXCEPT ![w].pc = p]
  BY DEF Goto
<1>2. worker' = [x \in Workers |-> worker'[x]] /\ \A x \in Workers \ {w} : worker'[x] = worker[x]
  BY <1>1 DEF WorkerShape
<1>3. worker'[w] = [worker[w] EXCEPT !.pc = p]
  BY <1>1 DEF WorkerShape
<1> DEFINE i == worker[w].id  k == worker[w].key  c == worker[w].prepared  o == worker[w].pc
<1>4. worker[w] = [id |-> i, key |-> k, pc |-> o, prepared |-> c]
  BY DEF WorkerShape
<1> HIDE DEF i, k, c, o
<1>5. worker'[w] = [id |-> i, key |-> k, pc |-> p, prepared |-> c]
  BY <1>3, <1>4
<1>6. /\ worker'[w].pc = p /\ worker'[w].key = worker[w].key
      /\ worker'[w].prepared = worker[w].prepared
  BY <1>4, <1>5
<1>7. worker'[w] = [id |-> worker'[w].id, key |-> worker'[w].key, pc |-> worker'[w].pc,
                    prepared |-> worker'[w].prepared]
  BY <1>5
<1> QED
  BY <1>2, <1>6, <1>7 DEF WorkerShape

LEMMA WorkerRests ==
  ASSUME WorkerShape, NEW w \in Workers, worker' = [worker EXCEPT ![w] = Idle]
  PROVE  /\ WorkerShape' /\ worker'[w].pc = "idle"
         /\ \A x \in Workers \ {w} : worker'[x] = worker[x]
<1>1. worker' = [x \in Workers |-> worker'[x]] /\ \A x \in Workers \ {w} : worker'[x] = worker[x]
  BY DEF WorkerShape
<1>2. worker'[w] = Idle
  BY DEF WorkerShape
<1>3. worker'[w].pc = "idle" /\ worker'[w] =
          [id |-> worker'[w].id, key |-> worker'[w].key, pc |-> worker'[w].pc,
           prepared |-> worker'[w].prepared]
  BY <1>2 DEF Idle
<1> QED
  BY <1>1, <1>3 DEF WorkerShape

LEMMA PackageReceive ==
  ASSUME PackageInv, NEW w \in Workers, NEW m \in queue, Receive(w, m)
  PROVE  PackageInv'
<1> DEFINE new == [id |-> m.id, key |-> m.subject, pc |-> "received", prepared |-> None]
<1>1. /\ worker[w].pc = "idle" /\ UNCHANGED <<reviewVars, processed, objects, package, deletionVars, holder>>
      /\ worker' = [x \in Workers |->
            IF x = w THEN new ELSE IF HasReceipt(x, m.id) THEN [worker[x] EXCEPT !.id = None]
            ELSE worker[x]]
  BY DEF Receive, At
<1>2. /\ worker'[w].pc = "received" /\ worker'[w] =
            [id |-> worker'[w].id, key |-> worker'[w].key, pc |-> worker'[w].pc,
             prepared |-> worker'[w].prepared]
  BY <1>1
<1>3. ASSUME NEW x \in Workers \ {w}
      PROVE  /\ worker'[x] = [id |-> worker'[x].id, key |-> worker[x].key, pc |-> worker[x].pc,
                              prepared |-> worker[x].prepared]
             /\ worker'[x].pc = worker[x].pc /\ worker'[x].key = worker[x].key
             /\ worker'[x].prepared = worker[x].prepared
  <2> DEFINE i == worker[x].id  k == worker[x].key  c == worker[x].prepared  o == worker[x].pc
  <2>1. worker[x] = [id |-> i, key |-> k, pc |-> o, prepared |-> c]
    BY DEF PackageInv, WorkerInv, WorkerShape
  <2>2. worker'[x] = worker[x] \/ worker'[x] = [worker[x] EXCEPT !.id = None]
    BY <1>1
  <2> HIDE DEF i, k, c, o
  <2>3. [worker[x] EXCEPT !.id = None] = [id |-> None, key |-> k, pc |-> o, prepared |-> c]
    BY <2>1
  <2>4. PICK j : worker'[x] = [id |-> j, key |-> k, pc |-> o, prepared |-> c]
    BY <2>1, <2>2, <2>3
  <2> QED
    BY <2>1, <2>4
<1>4. WorkerShape'
  BY <1>1, <1>2, <1>3 DEF WorkerShape
<1>5. holder # w
  BY <1>1, DeliveryAssumption DEF PackageInv, LockInv, Locking, Parts
<1>6. Prepared(w)' /\ worker'[w].pc \notin Locking
  BY <1>2 DEF Prepared, Locking, Parts
<1> QED
  BY <1>1, <1>3, <1>4, <1>5, <1>6, QuietWork

LEMMA PackagePrepare ==
  ASSUME PackageInv, NEW w \in Workers, Prepare(w)
  PROVE  PackageInv'
<1>1. /\ worker[w].pc = "received"
      /\ UNCHANGED <<reviewVars, processed, objects, package, deletionVars, holder>>
      /\ WorkerShape
  BY DEF Prepare, At, PackageInv, WorkerInv
<1>2. holder # w
  BY <1>1, DeliveryAssumption DEF PackageInv, LockInv, Locking, Parts
<1>3. CASE Goto(w, "skipped")
  <2>1. Prepared(w)' /\ worker'[w].pc \notin Locking
    BY <1>1, <1>3, WorkerMoves DEF Prepared, Locking, Parts
  <2> QED
    BY <1>1, <1>2, <1>3, <2>1, WorkerMoves, QuietWork
<1>4. CASE /\ Pending(worker[w].key)
           /\ worker' = [worker EXCEPT ![w].pc = "prepared", ![w].prepared = Payload(MyEvent(w))]
  <2>1. PICK v \in events : v.key = worker[w].key
    BY <1>4 DEF Pending, EventKeys
  <2>2. MyEvent(w) = v
    BY <2>1, ItsEvent DEF MyEvent, PackageInv
  <2> DEFINE i == worker[w].id  k == worker[w].key  c == worker[w].prepared  o == worker[w].pc
             content == v.snapshot
  <2>3. worker[w] = [id |-> i, key |-> k, pc |-> o, prepared |-> c]
    BY <1>1 DEF WorkerShape
  <2> HIDE DEF i, k, c, o
  <2>4. worker'[w] = [id |-> i, key |-> k, pc |-> "prepared", prepared |-> content]
    <3> HIDE DEF content
    <3>1. worker' = [worker EXCEPT ![w].pc = "prepared", ![w].prepared = content]
      BY <1>4, <2>2 DEF Payload, content
    <3>2. worker'[w] = [worker[w] EXCEPT !.pc = "prepared", !.prepared = content]
      BY <3>1, <1>1 DEF WorkerShape
    <3>3. worker'[w] = [f \in {"id", "key", "pc", "prepared"} |->
              IF f = "pc" THEN "prepared" ELSE IF f = "prepared" THEN content ELSE worker[w][f]]
      BY <2>3, <3>2
    <3>4. [id |-> i, key |-> k, pc |-> "prepared", prepared |-> content] =
              [f \in {"id", "key", "pc", "prepared"} |->
                  IF f = "pc" THEN "prepared" ELSE IF f = "prepared" THEN content
                  ELSE worker[w][f]]
      BY <2>3
    <3> QED
      BY <3>3, <3>4
  <2>5. /\ worker' = [x \in Workers |-> worker'[x]]
        /\ \A x \in Workers \ {w} : worker'[x] = worker[x]
    BY <1>1, <1>4 DEF WorkerShape
  <2>6. /\ worker'[w].pc = "prepared" /\ worker'[w].key = worker[w].key
        /\ worker'[w].prepared = content
        /\ worker'[w] = [id |-> worker'[w].id, key |-> worker'[w].key, pc |-> worker'[w].pc,
                         prepared |-> worker'[w].prepared]
    BY <2>3, <2>4
  <2>7. WorkerShape'
    BY <1>1, <2>5, <2>6 DEF WorkerShape
  <2>8. events' = events
    BY <1>1 DEF reviewVars, workflowVars
  <2>9. Prepared(w)' /\ worker'[w].pc \notin Locking
    BY <2>1, <2>6, <2>8 DEF Prepared, Locking, Parts
  <2> QED
    BY <1>1, <1>2, <2>5, <2>7, <2>9, QuietWork
<1> QED
  BY <1>3, <1>4 DEF Prepare, Goto

LEMMA PackageCheckpoint ==
  ASSUME PackageInv, NEW w \in Workers, PersistCheckpoint(w)
  PROVE  PackageInv'
<1>1. /\ worker[w].pc = "prepared" /\ Goto(w, "checkpointed") /\ WorkerShape /\ Prepared(w)
      /\ UNCHANGED <<reviewVars, processed, objects, package, deletionVars, holder>>
  BY DEF PersistCheckpoint, At, PackageInv, WorkerInv
<1>2. holder # w
  BY <1>1, DeliveryAssumption DEF PackageInv, LockInv, Locking, Parts
<1>3. events' = events
  BY <1>1 DEF reviewVars, workflowVars
<1>4. Prepared(w)' /\ worker'[w].pc \notin Locking
  BY <1>1, <1>3, WorkerMoves DEF Prepared, Locking, Parts
<1> QED
  BY <1>1, <1>2, <1>4, WorkerMoves, QuietWork

\* A worker that locks the agreement row knows that the event is pending.
LEMMA PackageLock ==
  ASSUME PackageInv, NEW w \in Workers, LockAgreement(w)
  PROVE  PackageInv'
<1>1. /\ worker[w].pc = "checkpointed" /\ holder = None /\ WorkerShape /\ Prepared(w)
      /\ UNCHANGED <<reviewVars, processed, objects, package, deletionVars>>
      /\ w # None
  BY DeliveryAssumption DEF LockAgreement, At, PackageInv, WorkerInv
<1>2. CASE holder' = None /\ Goto(w, "skipped")
  <2>1. Prepared(w)' /\ worker'[w].pc \notin Locking
    BY <1>2, <1>1, WorkerMoves DEF Prepared, Locking, Parts
  <2> QED
    BY <1>1, <1>2, <2>1, WorkerMoves, QuietWork
<1>3. CASE /\ Pending(worker[w].key)
           /\ holder' = w /\ Goto(w, IF MyEvent(w).kind = "terminal" THEN "manifest" ELSE "commit")
  <2>1. /\ EventsInv'
        /\ UNCHANGED <<events, tombstoned, TerminalEvents, EventKeys, IntendedKeys, LegacyKeys>>
    BY <1>1, EventsStay DEF PackageInv
  <2>2. PICK v \in events : v.key = worker[w].key /\ worker[w].prepared = v.snapshot
    BY <1>1 DEF Prepared
  <2>3. MyEvent(w) = v
    BY <2>2, ItsEvent DEF MyEvent, PackageInv
  <2> DEFINE next == IF MyEvent(w).kind = "terminal" THEN "manifest" ELSE "commit"
  <2>4. /\ WorkerShape' /\ worker'[w].pc = next /\ worker'[w].key = worker[w].key
        /\ worker'[w].prepared = worker[w].prepared
        /\ \A x \in Workers \ {w} : worker'[x] = worker[x]
    BY <1>1, <1>3, WorkerMoves
  <2>5. next \in {"manifest", "commit"} /\ (next = "manifest" <=> v.kind = "terminal")
    BY <2>3
  <2> HIDE DEF next
  <2>6. WorkerInv'
    BY <2>1, <2>2, <2>4, <2>5 DEF PackageInv, WorkerInv, Prepared, Parts
  <2>7. LockInv'
    BY <1>1, <1>3, <2>1, <2>4, <2>5, DeliveryAssumption
       DEF PackageInv, LockInv, Locking, Pending, Parts
  <2>8. ASSUME NEW u \in TerminalEvents, u.key = worker'[w].key
        PROVE  worker'[w].pc = "manifest"
    BY <2>2, <2>4, <2>5, <2>8 DEF PackageInv, EventsInv, TerminalEvents
  <2>9. ObjectsInv'
    BY <1>1, <1>3, <2>1, <2>8 DEF PackageInv, ObjectsInv, RetriesDoNotConflict
  <2>10. RowInv' /\ InventoryInv'
    BY <1>1, <2>1 DEF PackageInv, RowInv, InventoryInv, deletionVars
  <2> QED
    BY <2>1, <2>6, <2>7, <2>9, <2>10 DEF PackageInv
<1> QED
  BY <1>2, <1>3 DEF LockAgreement

\* An object is written with the content every other writer of it has.
LEMMA PackagePut ==
  ASSUME PackageInv, NEW w \in Workers,
         NEW part, NEW next, <<part, next>> \in {<<"manifest", "pdf">>, <<"pdf", "commit">>},
         Put(w, part, next)
  PROVE  PackageInv'
<1> DEFINE key == MyKey(w, part)
           content == worker[w].prepared
<1>1. /\ worker[w].pc = part /\ Goto(w, next) /\ WorkerShape /\ Prepared(w)
      /\ UNCHANGED <<reviewVars, processed, holder, package, deletionVars>>
      /\ part \in Parts /\ next \in Locking
  BY DEF Put, At, PackageInv, WorkerInv, Parts, Locking
<1>2. PICK v \in TerminalEvents : v.key = worker[w].key /\ content = v.snapshot
  BY <1>1 DEF Prepared, TerminalEvents
<1>3. key = <<Base(v.key), part>> /\ key \in PackageKeys(v.key)
  BY <1>1, <1>2 DEF MyKey, PackageKeys
<1>4. /\ objects' = [k \in DOMAIN objects' |-> objects'[k]]
      /\ DOMAIN objects' = DOMAIN objects \cup {key}
      /\ \A k \in DOMAIN objects : objects'[k] = objects[k] \/ objects'[k] = content
      /\ objects'[key] = content
  <2>1. CASE key \in DOMAIN objects
    BY <2>1 DEF Put, PackageInv, ObjectsInv
  <2>2. CASE key \notin DOMAIN objects
    <3>1. objects' = With(objects, key, content)
      BY <2>2 DEF Put
    <3> HIDE DEF key, content
    <3> QED
      BY <3>1 DEF With
  <2> QED
    BY <2>1, <2>2
<1>5. /\ EventsInv'
      /\ UNCHANGED <<events, tombstoned, TerminalEvents, EventKeys, IntendedKeys, LegacyKeys>>
  BY <1>1, EventsStay DEF PackageInv
<1>6. /\ WorkerShape' /\ worker'[w].pc = next /\ worker'[w].key = worker[w].key
      /\ worker'[w].prepared = worker[w].prepared
      /\ \A x \in Workers \ {w} : worker'[x] = worker[x]
  BY <1>1, WorkerMoves
<1> HIDE DEF key, content
<1>7. WorkerInv'
  <2>1. Prepared(w)'
    BY <1>2, <1>5, <1>6 DEF Prepared, TerminalEvents, content
  <2> QED
    BY <2>1, <1>5, <1>6 DEF PackageInv, WorkerInv, Prepared
<1>8. LockInv'
  BY <1>1, <1>5, <1>6 DEF PackageInv, LockInv, Locking
<1>9. ObjectsInv'
  <2>1. \A u \in TerminalEvents : u = v
    BY DEF PackageInv, EventsInv
  <2>2. DOMAIN objects' \subseteq IntendedKeys' \cup LegacyKeys'
    BY <1>3, <1>4, <1>5 DEF PackageInv, ObjectsInv, IntendedKeys
  <2>3. RetriesDoNotConflict'
    BY <1>2, <1>4, <1>5, <2>1 DEF PackageInv, ObjectsInv, RetriesDoNotConflict, content
  <2>4. ASSUME holder' # None, v.key = worker'[holder'].key
        PROVE  /\ worker'[holder'].pc # "manifest" => <<Base(v.key), "manifest">> \in DOMAIN objects'
               /\ worker'[holder'].pc = "commit" => <<Base(v.key), "pdf">> \in DOMAIN objects'
    <3>1. CASE holder = w
      <4>1. worker[holder].pc # "manifest" => <<Base(v.key), "manifest">> \in DOMAIN objects
        BY <1>1, <1>2, <2>4, <3>1 DEF PackageInv, ObjectsInv
      <4> QED
        BY <1>1, <1>3, <1>4, <1>6, <3>1, <4>1
    <3>2. CASE holder # w
      <4>1. holder \in Workers /\ worker'[holder] = worker[holder]
        BY <1>1, <1>6, <2>4, <3>2 DEF PackageInv, LockInv
      <4> QED
        BY <1>1, <1>4, <2>4, <4>1 DEF PackageInv, ObjectsInv
    <3> QED
      BY <3>1, <3>2
  <2> QED
    BY <1>4, <1>5, <2>1, <2>2, <2>3, <2>4 DEF ObjectsInv
<1>10. RowInv'
  BY <1>1, <1>4, <1>5 DEF PackageInv, RowInv
<1>11. InventoryInv'
  <2>1. ~LateWrites => ~tombstoned
    BY <1>1, DeliveryAssumption DEF PackageInv, LockInv, Locking
  <2> QED
    BY <2>1, <1>1, <1>5 DEF PackageInv, InventoryInv, deletionVars
<1> QED
  BY <1>5, <1>7, <1>8, <1>9, <1>10, <1>11 DEF PackageInv

\* The row is that of the event the holder handles, and its objects are there.
LEMMA PackageCommit ==
  ASSUME PackageInv, NEW w \in Workers, Commit(w)
  PROVE  PackageInv'
<1> DEFINE key == worker[w].key
<1>1. /\ worker[w].pc = "commit" /\ holder = w /\ holder' = None /\ Goto(w, "done")
      /\ processed' = processed \cup {key}
      /\ UNCHANGED <<reviewVars, objects, deletionVars>>
      /\ WorkerShape /\ Prepared(w) /\ w # None
  BY DeliveryAssumption DEF Commit, At, PackageInv, WorkerInv
<1>2. PICK v \in events : v.key = key /\ worker[w].prepared = v.snapshot
  BY <1>1 DEF Prepared
<1>3. MyEvent(w) = v
  BY <1>2, ItsEvent DEF MyEvent, PackageInv
<1>4. /\ EventsInv'
      /\ UNCHANGED <<events, tombstoned, TerminalEvents, EventKeys, IntendedKeys, LegacyKeys>>
  BY <1>1, EventsStay DEF PackageInv
<1>5. /\ WorkerShape' /\ worker'[w].pc = "done"
      /\ \A x \in Workers \ {w} : worker'[x] = worker[x]
  BY <1>1, WorkerMoves
<1>6. WorkerInv'
  BY <1>4, <1>5 DEF PackageInv, WorkerInv, Prepared, Parts
<1>7. LockInv'
  BY <1>1, <1>5 DEF PackageInv, LockInv, Locking, Parts
<1>8. ObjectsInv' /\ InventoryInv'
  BY <1>1, <1>4 DEF PackageInv, ObjectsInv, InventoryInv, RetriesDoNotConflict, deletionVars
<1>9. RowInv'
  <2>1. CASE v.kind = "terminal"
    <3>1. package' = PackageRow(Base(v.key), v.snapshot)
      BY <1>2, <1>3, <2>1 DEF Commit
    <3>2. v \in TerminalEvents /\ v.key \in processed'
      BY <1>1, <1>2, <2>1 DEF TerminalEvents
    <3>3. PackageKeys(v.key) \subseteq DOMAIN objects
      BY <1>1, <1>2, <3>2 DEF PackageInv, ObjectsInv, PackageKeys, Parts
    <3> QED
      BY <1>1, <1>4, <3>1, <3>2, <3>3 DEF RowInv
  <2>2. CASE v.kind # "terminal"
    BY <1>1, <1>3, <1>4, <2>2 DEF Commit, PackageInv, RowInv
  <2> QED
    BY <2>1, <2>2
<1> QED
  BY <1>4, <1>6, <1>7, <1>8, <1>9 DEF PackageInv

\* A worker that stops, whatever the reason, gives the agreement row back.
LEMMA PackageStop ==
  ASSUME PackageInv, NEW w \in Workers, Ack(w) \/ Abandon(w) \/ CommitRefused(w)
  PROVE  PackageInv'
<1>1. /\ UNCHANGED <<reviewVars, processed, objects, package, deletionVars>> /\ WorkerShape
      /\ worker' = [worker EXCEPT ![w] = Idle]
  BY DEF Ack, Abandon, CommitRefused, PackageInv, WorkerInv
<1>2. IF holder = w THEN holder' = None ELSE holder' = holder
  BY DeliveryAssumption
     DEF Ack, Abandon, CommitRefused, Released, At, PackageInv, LockInv, Locking, Parts
<1>3. /\ WorkerShape' /\ worker'[w].pc = "idle"
      /\ \A x \in Workers \ {w} : worker'[x] = worker[x]
  BY <1>1, WorkerRests
<1>4. Prepared(w)' /\ worker'[w].pc \notin Locking
  BY <1>3 DEF Prepared, Locking, Parts
<1> QED
  BY <1>1, <1>2, <1>3, <1>4, QuietWork

LEMMA PackageLost ==
  ASSUME PackageInv, NEW w \in Workers, LoseConnection(w)
  PROVE  PackageInv'
<1>1. /\ UNCHANGED <<reviewVars, processed, objects, package, deletionVars, worker>>
      /\ WorkerShape /\ Prepared(w) /\ LateWrites /\ holder = w /\ holder' = None
  BY DEF LoseConnection, PackageInv, WorkerInv
<1>2. events' = events
  BY <1>1 DEF reviewVars, workflowVars
<1>3. WorkerShape' /\ Prepared(w)'
  BY <1>1, <1>2 DEF WorkerShape, Prepared
<1> QED
  BY <1>1, <1>3, QuietWork

\* The deletion takes the inventory while nobody holds the agreement row.
LEMMA PackageTombstone ==
  ASSUME PackageInv, RequestDeletion
  PROVE  PackageInv'
<1>1. /\ holder = None /\ ~tombstoned /\ tombstoned' = TRUE /\ inventory' = KnownObjects
      /\ UNCHANGED <<workflowVars, packageVars, purged>>
  BY DEF RequestDeletion, AcceptDeletion
<1>2. /\ EventsInv' /\ UNCHANGED <<TerminalEvents, EventKeys, IntendedKeys, LegacyKeys, events>>
  BY <1>1, EventsRest DEF workflowVars, TerminalEvents, EventKeys, IntendedKeys, LegacyKeys,
     EventsInv, PackageInv
<1>3. DOMAIN objects \subseteq inventory'
  <2>1. KnownObjects = RowObjects \cup IntendedKeys \cup LegacyKeys
    BY DEF KnownObjects, IntendedKeys, LegacyKeys
  <2> QED
    BY <1>1, <2>1 DEF PackageInv, ObjectsInv
<1>4. WorkerInv' /\ LockInv' /\ ObjectsInv' /\ RowInv'
  BY <1>1, <1>2 DEF PackageInv, WorkerInv, WorkerShape, Prepared, LockInv, ObjectsInv, RowInv,
     RetriesDoNotConflict, packageVars
<1>5. InventoryInv'
  BY <1>1, <1>3 DEF PackageInv, InventoryInv, packageVars
<1> QED
  BY <1>2, <1>4, <1>5 DEF PackageInv

LEMMA PackagePurge ==
  ASSUME PackageInv, Purge
  PROVE  PackageInv'
<1>1. /\ tombstoned /\ holder = None /\ package' = None /\ purged' = TRUE
      /\ UNCHANGED <<reviewVars, processed, worker, holder, inventory>>
      /\ objects' = [k \in DOMAIN objects \ inventory |-> objects[k]]
  BY DEF Purge
<1>2. /\ EventsInv'
      /\ UNCHANGED <<events, tombstoned, TerminalEvents, EventKeys, IntendedKeys, LegacyKeys>>
  BY <1>1, EventsStay DEF PackageInv
<1>3. WorkerInv' /\ LockInv' /\ RowInv'
  BY <1>1, <1>2 DEF PackageInv, WorkerInv, WorkerShape, Prepared, LockInv, RowInv
<1>4. ObjectsInv'
  BY <1>1, <1>2 DEF PackageInv, ObjectsInv, RetriesDoNotConflict
<1>5. InventoryInv'
  <2>1. ~LateWrites => DOMAIN objects \ inventory = {}
    BY <1>1 DEF PackageInv, InventoryInv
  <2>2. ~LateWrites => objects' = <<>> /\ DOMAIN objects' = {}
    BY <1>1, <2>1
  <2> QED
    BY <1>1, <1>2, <2>2 DEF PackageInv, InventoryInv
<1> QED
  BY <1>2, <1>3, <1>4, <1>5 DEF PackageInv

LEMMA FirstPackage == DeliveryInit => PackageInv
<1> SUFFICES ASSUME DeliveryInit PROVE PackageInv
  OBVIOUS
<1>1. EventsInv
  BY FirstEvents
<1>2. /\ worker = [w \in Workers |-> Idle] /\ holder = None /\ processed = {}
      /\ purged = FALSE /\ tombstoned = FALSE
  BY DEF DeliveryInit, ReviewInit, CaseInit, MigratedReview
<1>3. WorkerInv /\ LockInv /\ InventoryInv
  BY <1>2 DEF WorkerInv, WorkerShape, Prepared, Idle, LockInv, Locking, Parts, InventoryInv
<1>4. ASSUME objects = <<>>, package = None PROVE ObjectsInv /\ RowInv
  <2>1. <<>> = [k \in {} |-> <<>>[k]] /\ DOMAIN <<>> = {}
    OBVIOUS
  <2>2. objects = [k \in DOMAIN objects |-> objects[k]] /\ DOMAIN objects = {}
    BY <1>4, <2>1
  <2> QED
    BY <1>2, <1>4, <2>2 DEF ObjectsInv, RowInv, RetriesDoNotConflict
<1>5. ASSUME MigratedReview PROVE ObjectsInv /\ RowInv
  <2> DEFINE new == Event(BackfillKey, "terminal", MigratedSnapshot)
  <2>1. /\ objects = [k \in {<<"final-package", part>> : part \in Parts} |-> LegacyContent]
        /\ package = PackageRow("final-package", LegacyContent)
        /\ events = {new}
    BY <1>5 DEF MigratedReview
  <2>2. new.key = BackfillKey
    BY DEF Event
  <2> HIDE DEF new
  <2>3. BackfillKey \in EventKeys /\ \A v \in TerminalEvents : v.key = BackfillKey
    BY <2>1, <2>2 DEF EventKeys, TerminalEvents
  <2>4. DOMAIN objects = LegacyKeys
    BY <2>1, <2>3 DEF LegacyKeys
  <2>5. \A part, p : <<Base(BackfillKey), part>> # <<"final-package", p>>
    BY DEF Base
  <2>6. RetriesDoNotConflict
    BY <2>1, <2>3, <2>5 DEF RetriesDoNotConflict, PackageKeys
  <2>7. RowInv
    BY <2>1, <2>3 DEF RowInv
  <2>8. objects = [k \in DOMAIN objects |-> objects[k]]
    BY <2>1
  <2>9. DOMAIN objects \subseteq IntendedKeys \cup LegacyKeys
    BY <2>4
  <2>10. ObjectsInv
    BY <1>2, <2>6, <2>8, <2>9 DEF ObjectsInv
  <2> QED
    BY <2>7, <2>10
<1>6. MigratedReview \/ (objects = <<>> /\ package = None)
  BY DEF DeliveryInit
<1>7. ObjectsInv /\ RowInv
  BY <1>4, <1>5, <1>6
<1> QED
  BY <1>1, <1>3, <1>7 DEF PackageInv

LEMMA PackageNext ==
  ASSUME PackageInv, [DeliveryNext]_vars
  PROVE  PackageInv'
<1>1. CASE ReviewStep
  BY <1>1, PackageReview
<1>2. CASE \/ UNCHANGED vars \/ LeaseExpires \/ Redeliver \/ RedeliverEarly
           \/ \E d \in Dispatchers : Dispatching(d)
           \/ \E r \in Relays : Relaying(r)
  <2>1. UNCHANGED <<reviewVars, packageVars, deletionVars>>
    BY <1>2 DEF vars, deliveryVars, LeaseExpires, Redeliver, RedeliverEarly,
       Dispatching, DispatchRead, DispatchPublish, DispatchMark, DispatchFails,
       Relaying, RelayLease, RelayPublish, RelayMark, RelayFails
  <2> QED
    BY <2>1, PackageRest
<1>3. ASSUME NEW w \in Workers, NEW m \in queue, Receive(w, m)
      PROVE  PackageInv'
  BY <1>3, PackageReceive
<1>4. ASSUME NEW w \in Workers, HandleEvent(w) PROVE PackageInv'
  <2>1. CASE Put(w, "manifest", "pdf")
    BY <2>1, PackagePut
  <2>2. CASE Put(w, "pdf", "commit")
    BY <2>2, PackagePut
  <2>3. CASE Prepare(w) \/ PersistCheckpoint(w)
    BY <2>3, PackagePrepare, PackageCheckpoint
  <2>4. CASE LockAgreement(w) \/ Commit(w)
    BY <2>4, PackageLock, PackageCommit
  <2>5. CASE Ack(w) \/ CommitRefused(w)
    BY <2>5, PackageStop
  <2> QED
    BY <1>4, <2>1, <2>2, <2>3, <2>4, <2>5 DEF HandleEvent, WriteObjects
<1>5. ASSUME NEW w \in Workers, Abandon(w) \/ LoseConnection(w) PROVE PackageInv'
  BY <1>5, PackageStop, PackageLost
<1>6. CASE RequestDeletion \/ Purge
  BY <1>6, PackageTombstone, PackagePurge
<1> QED
  BY <1>1, <1>2, <1>3, <1>4, <1>5, <1>6 DEF DeliveryNext

LEMMA PackageAlways == DeliverySpec => []PackageInv
<1>1. DeliveryInit => PackageInv
  BY FirstPackage
<1>2. PackageInv /\ [DeliveryNext]_vars => PackageInv'
  BY PackageNext
<1> QED
  BY <1>1, <1>2, PTL DEF DeliverySpec

\* Writers of the same package object never disagree: what a crashed or a
\* concurrent delivery left in S3 is what the next one compares as equal
\* (_ensure_object), whatever was commented or transferred meanwhile.
THEOREM RetriesAgree == DeliverySpec => []RetriesDoNotConflict
<1>1. PackageInv => RetriesDoNotConflict
  BY DEF PackageInv, ObjectsInv
<1> QED
  BY <1>1, PackageAlways, PTL

\* A package row that commit() inserted tells the terminal decision, and its
\* manifest and its report are in S3, even if connections are lost.
THEOREM PackagesTellDecisions == DeliverySpec => []PackageTellsTheDecision
<1>1. PackageInv => PackageTellsTheDecision
  <2> SUFFICES ASSUME PackageInv, package # None, package.content # LegacyContent
               PROVE  PackageTellsTheDecision
    BY DEF PackageTellsTheDecision
  <2>1. \A base, content : /\ PackageRow(base, content).base = base
                           /\ PackageRow(base, content).content = content
    BY DEF PackageRow
  <2>2. PICK v \in TerminalEvents :
            /\ v.key \in processed /\ package = PackageRow(Base(v.key), v.snapshot)
            /\ PackageKeys(v.key) \subseteq DOMAIN objects
    BY <2>1 DEF PackageInv, RowInv
  <2>3. package.base = Base(v.key) /\ package.content = v.snapshot
    BY <2>1, <2>2
  <2>4. v.snapshot.state = workflow.state
    BY DEF PackageInv, EventsInv
  <2>5. \A part \in Parts : /\ <<Base(v.key), part>> \in PackageKeys(v.key)
                            /\ objects[<<Base(v.key), part>>] = v.snapshot
    BY <2>2 DEF PackageInv, ObjectsInv, RetriesDoNotConflict, PackageKeys
  <2> QED
    BY <2>2, <2>3, <2>4, <2>5 DEF PackageTellsTheDecision
<1> QED
  BY <1>1, PackageAlways, PTL

\* A deletion knows every package object, if a worker that has lost the
\* agreement row writes nothing; LateWrites says whether one may.
THEOREM DeletionsKnowPackages == ~LateWrites => (DeliverySpec => []DeletionKnowsPackages)
<1> SUFFICES ASSUME ~LateWrites PROVE DeliverySpec => []DeletionKnowsPackages
  OBVIOUS
<1>1. PackageInv => DeletionKnowsPackages
  BY DEF PackageInv, InventoryInv, DeletionKnowsPackages
<1> QED
  BY <1>1, PackageAlways, PTL

-----------------------------------------------------------------------------
(* The promise *)

\* A review that is not migrated never gets the migration's event.
PromiseInv == PackageInv /\ BackfillKey \notin EventKeys

\* What a step of the delivery does to the outcome, the package row and the
\* tombstone: decide, publish, delete or erase, or none of it.
PromiseStep ==
    \/ /\ UNCHANGED <<package, tombstoned>>
       /\ workflow.state \in Terminal \/ tombstoned => UNCHANGED workflow
    \/ /\ UNCHANGED <<workflow, tombstoned>> /\ ~tombstoned /\ package = None
       /\ workflow.state \in Terminal /\ package'.content.state = workflow.state
    \/ UNCHANGED <<workflow, package>> /\ ~tombstoned /\ tombstoned' = TRUE
    \/ UNCHANGED <<workflow, tombstoned>> /\ tombstoned /\ package' = None

\* The holder of the agreement row finds no package but the migration's.
LEMMA CommitPublishes ==
  ASSUME PromiseInv, NEW w \in Workers, Commit(w)
  PROVE  PromiseStep
<1>1. /\ worker[w].pc = "commit" /\ holder = w /\ Prepared(w) /\ w # None
      /\ ~tombstoned /\ worker[w].key \notin processed
      /\ UNCHANGED reviewVars
  BY DeliveryAssumption DEF Commit, At, PromiseInv, PackageInv, WorkerInv, LockInv
<1>2. PICK v \in events : v.key = worker[w].key /\ worker[w].prepared = v.snapshot
  BY <1>1 DEF Prepared
<1>3. MyEvent(w) = v
  BY <1>2, ItsEvent DEF MyEvent, PromiseInv, PackageInv
<1>4. UNCHANGED <<workflow, tombstoned>>
  BY <1>1 DEF reviewVars, workflowVars, caseVars
<1>5. CASE v.kind # "terminal"
  BY <1>3, <1>4, <1>5 DEF Commit, PromiseStep
<1>6. CASE v.kind = "terminal"
  <2>1. v \in TerminalEvents /\ \A u \in TerminalEvents : u = v
    BY <1>6 DEF TerminalEvents, PromiseInv, PackageInv, EventsInv
  <2>2. package = None
    BY <1>1, <1>2, <2>1 DEF PromiseInv, PackageInv, RowInv
  <2>3. package' = PackageRow(Base(worker[w].key), v.snapshot)
    BY <1>2, <1>3, <1>6 DEF Commit
  <2>4. package'.content = v.snapshot
    BY <2>3 DEF PackageRow
  <2>5. workflow.state \in Terminal /\ v.snapshot.state = workflow.state
    BY <2>1 DEF PromiseInv, PackageInv, EventsInv
  <2> QED
    BY <1>1, <1>4, <2>2, <2>4, <2>5 DEF PromiseStep
<1> QED
  BY <1>5, <1>6

LEMMA PromiseNext ==
  ASSUME PromiseInv, [DeliveryNext]_vars
  PROVE  PromiseInv' /\ PromiseStep
<1>1. PackageInv'
  BY PackageNext DEF PromiseInv
<1>2. ASSUME UNCHANGED events PROVE PromiseInv'
  BY <1>1, <1>2 DEF PromiseInv, EventKeys
<1>3. UNCHANGED reviewVars => UNCHANGED <<workflow, tombstoned, events>>
  BY DEF reviewVars, workflowVars, caseVars
<1>4. CASE ReviewStep
  <2>1. EventsGrow /\ UNCHANGED <<tombstoned, package>>
    BY <1>4, ReviewEvents DEF PromiseInv, PackageInv, ReviewStep, deliveryVars, packageVars
  <2> QED
    BY <1>1, <2>1 DEF EventsGrow, PromiseInv, EventKeys, PromiseStep
<1>5. CASE UNCHANGED <<reviewVars, package>>
  BY <1>2, <1>3, <1>5 DEF PromiseStep
<1>6. ASSUME NEW w \in Workers, Commit(w) PROVE PromiseInv' /\ PromiseStep
  BY <1>2, <1>3, <1>6, CommitPublishes DEF Commit
<1>7. CASE RequestDeletion
  BY <1>2, <1>7 DEF RequestDeletion, AcceptDeletion, workflowVars, packageVars, PromiseStep
<1>8. CASE Purge
  BY <1>2, <1>3, <1>8 DEF Purge, PromiseStep
<1>9. CASE \/ UNCHANGED vars \/ LeaseExpires \/ Redeliver \/ RedeliverEarly
           \/ \E d \in Dispatchers : Dispatching(d)
           \/ \E r \in Relays : Relaying(r)
  <2>1. UNCHANGED <<reviewVars, package>>
    BY <1>9 DEF vars, deliveryVars, packageVars, LeaseExpires, Redeliver, RedeliverEarly,
       Dispatching, DispatchRead, DispatchPublish, DispatchMark, DispatchFails,
       Relaying, RelayLease, RelayPublish, RelayMark, RelayFails
  <2> QED
    BY <1>5, <2>1
<1>10. CASE \E w \in Workers : \/ \E m \in queue : Receive(w, m)
                               \/ HandleEvent(w) \/ Abandon(w) \/ LoseConnection(w)
  <2>1. (\E w \in Workers : Commit(w)) \/ UNCHANGED <<reviewVars, package>>
    BY <1>10 DEF HandleEvent, Receive, Abandon, LoseConnection, Prepare, PersistCheckpoint,
       LockAgreement, WriteObjects, Put, CommitRefused, Ack
  <2> QED
    BY <1>5, <1>6, <2>1
<1> QED
  BY <1>4, <1>7, <1>8, <1>9, <1>10 DEF DeliveryNext

\* The delivery of a review's outcome implements what ReviewOutcome promises,
\* but for its liveness: one outcome at most, published at most once and as
\* it was decided, nothing published of a deleted agreement.  A database
\* that was migrated starts with a package, so it is not the promise's start.
THEOREM DeliveryKeepsPromise ==
  Migrated \subseteq {FALSE} => (DeliverySpec => Promise!OutcomeSafety)
<1> SUFFICES ASSUME Migrated \subseteq {FALSE} PROVE DeliverySpec => Promise!OutcomeSafety
  OBVIOUS
<1>1. DeliveryInit => PromiseInv /\ Promise!Undecided
  <2> SUFFICES ASSUME DeliveryInit PROVE PromiseInv /\ Promise!Undecided
    OBVIOUS
  <2>1. /\ workflow = NotStarted /\ events = {} /\ tombstoned = FALSE /\ package = None
    BY DEF DeliveryInit, ReviewInit, CaseInit, WorkflowInit
  <2>2. PromiseInv
    BY <2>1, FirstPackage DEF PromiseInv, EventKeys
  <2>3. workflow.state \notin Terminal
    BY <2>1 DEF NotStarted, Terminal
  <2> QED
    BY <2>1, <2>2, <2>3 DEF Promise!Undecided
<1>2. PromiseInv /\ [DeliveryNext]_vars => PromiseInv' /\ [Promise!OutcomeNext]_Promise!outcomeVars
  <2> SUFFICES ASSUME PromiseInv, [DeliveryNext]_vars
               PROVE  PromiseInv' /\ [Promise!OutcomeNext]_Promise!outcomeVars
    OBVIOUS
  <2>1. PromiseInv' /\ PromiseStep
    BY PromiseNext
  <2> QED
    BY <2>1 DEF PromiseStep, Promise!OutcomeNext, Promise!outcomeVars, Promise!Resolve,
       Promise!Publish, Promise!Tombstone, Promise!Erase
<1> QED
  BY <1>1, <1>2, PTL DEF DeliverySpec, Promise!OutcomeSafety

-----------------------------------------------------------------------------
(* Wake-ups *)

\* Nobody needs to hear of an event that is settled; of another, a message
\* in the queue will tell.
Settled(key) == key \in processed \/ tombstoned
Safe(key) == Settled(key) \/ Queued(key)

\* What a dispatcher or a relay has sent, and what is marked as delivered, is
\* safe: a row is marked after its message is sent, never before.
OutboxInv ==
    /\ dispatch = [d \in Dispatchers |-> dispatch[d]]
    /\ \A d \in Dispatchers :
        /\ dispatch[d] = [rows |-> dispatch[d].rows, sent |-> dispatch[d].sent]
        /\ dispatch[d].rows \subseteq EventKeys
        /\ dispatch[d].sent # None => Safe(dispatch[d].sent)
    /\ relay = [r \in Relays |-> relay[r]]
    /\ \A r \in Relays : relay[r] # None =>
        /\ relay[r] = [key |-> relay[r].key, sent |-> relay[r].sent]
        /\ relay[r].key \in EventKeys
        /\ relay[r].sent = TRUE => Safe(relay[r].key)
    /\ \A key \in delivered : Safe(key)

QueueInv ==
    /\ \A m \in queue : m.id \in MessageIds /\ m.subject \in EventKeys
    /\ \A m, n \in queue : m.id = n.id => m = n

\* A receipt is for a message of the queue about the worker's event, no two
\* workers have one for the same message, and who acknowledges knows that the
\* event is settled.
ReceiptInv ==
    /\ \A w \in Workers :
        /\ worker[w].pc # "idle" => worker[w].key \in EventKeys
        /\ worker[w].id # None =>
            \E m \in queue : m.id = worker[w].id /\ m.subject = worker[w].key
        /\ worker[w].pc \in {"done", "skipped"} => Settled(worker[w].key)
    /\ \A w, x \in Workers : worker[w].id = worker[x].id /\ worker[w].id # None => w = x

WakeInv == OutboxInv /\ QueueInv /\ ReceiptInv

\* What no step takes back.
Onward ==
    /\ EventKeys \subseteq EventKeys'
    /\ processed \subseteq processed'
    /\ tombstoned => tombstoned'

LEMMA StepsGoOnward ==
  ASSUME PackageInv, [DeliveryNext]_vars
  PROVE  Onward
<1>1. ASSUME UNCHANGED reviewVars PROVE EventKeys' = EventKeys /\ tombstoned' = tombstoned
  BY <1>1 DEF reviewVars, workflowVars, caseVars, EventKeys
<1>2. CASE ReviewStep
  <2>1. EventsGrow /\ UNCHANGED <<tombstoned, processed>>
    BY <1>2, ReviewEvents DEF PackageInv, ReviewStep, deliveryVars, packageVars
  <2> QED
    BY <2>1 DEF EventsGrow, EventKeys, Onward
<1>3. CASE RequestDeletion
  BY <1>3 DEF RequestDeletion, AcceptDeletion, workflowVars, packageVars, EventKeys, Onward
<1>4. CASE Purge
  BY <1>1, <1>4 DEF Purge, Onward
<1>5. CASE \/ UNCHANGED vars \/ LeaseExpires \/ Redeliver \/ RedeliverEarly
           \/ \E d \in Dispatchers : Dispatching(d)
           \/ \E r \in Relays : Relaying(r)
  <2>1. UNCHANGED <<reviewVars, processed>>
    BY <1>5 DEF vars, deliveryVars, packageVars, LeaseExpires, Redeliver, RedeliverEarly,
       Dispatching, DispatchRead, DispatchPublish, DispatchMark, DispatchFails,
       Relaying, RelayLease, RelayPublish, RelayMark, RelayFails
  <2> QED
    BY <1>1, <2>1 DEF Onward
<1>6. CASE \E w \in Workers : \/ \E m \in queue : Receive(w, m)
                              \/ HandleEvent(w) \/ Abandon(w) \/ LoseConnection(w)
  <2>1. UNCHANGED reviewVars /\ processed \subseteq processed'
    BY <1>6 DEF HandleEvent, Receive, Abandon, LoseConnection, Prepare, PersistCheckpoint,
       LockAgreement, WriteObjects, Put, Commit, CommitRefused, Ack
  <2> QED
    BY <1>1, <2>1 DEF Onward
<1> QED
  BY <1>2, <1>3, <1>4, <1>5, <1>6 DEF DeliveryNext

\* A message more
LEMMA SendsOne ==
  ASSUME NEW s, Send(s)
  PROVE  \E new : /\ queue' = queue \cup {new} /\ new.subject = s /\ new.id \in MessageIds
                  /\ \A m \in queue : m.id # new.id
<1>1. PICK i \in FreeIds : NewMessage(s) = [id |-> i, subject |-> s, receives |-> 0]
  BY DEF Send, NewMessage
<1>2. queue' = queue \cup {NewMessage(s)}
  BY DEF Send
<1>3. NewMessage(s).id = i /\ NewMessage(s).subject = s
  BY <1>1
<1> QED
  BY <1>1, <1>2, <1>3 DEF FreeIds

\* Queues that only grow keep what is safe so.
LEMMA SafeStays ==
  ASSUME Onward, queue \subseteq queue', NEW key, Safe(key)
  PROVE  Safe(key)'
BY DEF Onward, Safe, Settled, Queued

LEMMA OutboxStays ==
  ASSUME OutboxInv, Onward, UNCHANGED <<delivered, relay, dispatch>>,
         \A key : Safe(key) => Safe(key)'
  PROVE  OutboxInv'
BY DEF OutboxInv, Onward

\* A step of an outbox: only the queue and one of its rows change.
LEMMA WakeOutbox ==
  ASSUME WakeInv, Onward, UNCHANGED worker, QueueInv', queue \subseteq queue', OutboxInv'
  PROVE  WakeInv'
<1>1. ReceiptInv'
  BY DEF WakeInv, ReceiptInv, Settled, Onward
<1> QED
  BY <1>1 DEF WakeInv

LEMMA WakeRest ==
  ASSUME WakeInv, Onward, UNCHANGED <<delivered, relay, dispatch, queue, worker>>
  PROVE  WakeInv'
<1>1. QueueInv'
  BY DEF WakeInv, QueueInv, Onward
<1>2. OutboxInv'
  BY SafeStays, OutboxStays DEF WakeInv
<1> QED
  BY <1>1, <1>2, WakeOutbox

LEMMA QueueSends ==
  ASSUME QueueInv, Onward, NEW s \in EventKeys, Send(s)
  PROVE  QueueInv' /\ queue \subseteq queue' /\ Safe(s)'
<1>1. PICK new : /\ queue' = queue \cup {new} /\ new.subject = s /\ new.id \in MessageIds
                 /\ \A m \in queue : m.id # new.id
  BY SendsOne
<1> QED
  BY <1>1 DEF QueueInv, Onward, Safe, Queued

LEMMA WakeDispatch ==
  ASSUME WakeInv, Onward, NEW d \in Dispatchers, Dispatching(d)
  PROVE  WakeInv'
<1>0. PICK rows, sent : rows = dispatch[d].rows /\ sent = dispatch[d].sent
  OBVIOUS
<1>1. /\ dispatch = [e \in Dispatchers |-> dispatch[e]]
      /\ dispatch[d] = [rows |-> rows, sent |-> sent]
      /\ rows \subseteq EventKeys /\ (sent # None => Safe(sent))
      /\ UNCHANGED <<worker, relay>>
  BY <1>0 DEF WakeInv, OutboxInv, Dispatching, DispatchRead, DispatchPublish, DispatchMark,
     DispatchFails, packageVars
\* each of the steps changes this dispatcher's row only
<1>2. ASSUME NEW more, NEW key,
             dispatch' = [dispatch EXCEPT ![d] = [rows |-> more, sent |-> key]],
             more \subseteq EventKeys, key # None => Safe(key)',
             \A k \in delivered' : k \in delivered \/ (sent # None /\ k = sent),
             QueueInv', queue \subseteq queue'
      PROVE  WakeInv'
  <2>1. \A k : Safe(k) => Safe(k)'
    BY <1>2, SafeStays
  <2>2. /\ dispatch' = [e \in Dispatchers |-> dispatch'[e]]
        /\ \A e \in Dispatchers \ {d} : dispatch'[e] = dispatch[e]
        /\ dispatch'[d] = [rows |-> more, sent |-> key]
    BY <1>1, <1>2
  <2>3. dispatch'[d].rows = more /\ dispatch'[d].sent = key
    BY <2>2
  <2>4. \A e \in Dispatchers : dispatch'[e] = [rows |-> dispatch'[e].rows,
                                                sent |-> dispatch'[e].sent]
    BY <2>2, <2>3 DEF WakeInv, OutboxInv
  <2>5. \A e \in Dispatchers :
          dispatch'[e].rows \subseteq EventKeys /\ dispatch'[e].sent \in {None, key, dispatch[e].sent}
    BY <1>2, <2>2, <2>3 DEF WakeInv, OutboxInv
  <2>6. \A e \in Dispatchers : (dispatch[e].sent # None => Safe(dispatch[e].sent))'
    <3>1. ASSUME NEW e \in Dispatchers, NEW k, k = dispatch'[e].sent, k # None PROVE Safe(k)'
      BY <3>1, <1>2, <2>1, <2>5, <2>2, <2>3 DEF WakeInv, OutboxInv
    <3> QED
      BY <3>1
  <2>7. OutboxInv'
    BY <1>1, <1>2, <2>1, <2>2, <2>4, <2>5, <2>6 DEF WakeInv, OutboxInv, Onward
  <2> QED
    BY <1>1, <1>2, <2>7, WakeOutbox
<1>3. UNCHANGED queue => QueueInv' /\ queue \subseteq queue'
  BY DEF WakeInv, QueueInv, Onward
<1>4. CASE DispatchRead(d)
  <2>1. dispatch' = [dispatch EXCEPT ![d].rows = Undelivered]
    BY <1>4 DEF DispatchRead
  <2>2. [dispatch[d] EXCEPT !.rows = Undelivered] = [rows |-> Undelivered, sent |-> sent]
    BY <1>1
  <2>3. dispatch' = [dispatch EXCEPT ![d] = [rows |-> Undelivered, sent |-> sent]]
    BY <1>1, <2>1, <2>2
  <2>4. UNCHANGED <<delivered, queue>>
    BY <1>4 DEF DispatchRead, queueVars
  <2>5. sent # None => Safe(sent)'
    BY <1>1, <2>4, SafeStays
  <2> QED
    BY <1>2, <1>3, <2>3, <2>4, <2>5 DEF Undelivered
<1>5. CASE DispatchPublish(d)
  <2>1. PICK key \in rows : Send(key) /\ dispatch' = [dispatch EXCEPT ![d].sent = key]
    BY <1>0, <1>5 DEF DispatchPublish
  <2>2. [dispatch[d] EXCEPT !.sent = key] = [rows |-> rows, sent |-> key]
    BY <1>1
  <2>3. dispatch' = [dispatch EXCEPT ![d] = [rows |-> rows, sent |-> key]]
    BY <1>1, <2>1, <2>2
  <2>4. UNCHANGED delivered
    BY <1>5 DEF DispatchPublish
  <2>5. QueueInv' /\ queue \subseteq queue' /\ Safe(key)'
    BY <1>1, <2>1, QueueSends DEF WakeInv
  <2> QED
    BY <1>1, <1>2, <2>3, <2>4, <2>5
<1>6. CASE DispatchMark(d)
  <2>1. /\ dispatch' = [dispatch EXCEPT ![d] = [rows |-> rows \ {sent}, sent |-> None]]
        /\ delivered' = delivered \cup {sent} /\ sent # None /\ UNCHANGED queue
    BY <1>0, <1>1, <1>6 DEF DispatchMark, queueVars
  <2> QED
    BY <1>1, <1>2, <1>3, <2>1
<1>7. CASE DispatchFails(d)
  <2>1. /\ dispatch' = [dispatch EXCEPT ![d] = [rows |-> {}, sent |-> None]]
        /\ UNCHANGED <<delivered, queue>>
    BY <1>7 DEF DispatchFails, queueVars
  <2> QED
    BY <1>1, <1>2, <1>3, <2>1
<1> QED
  BY <1>4, <1>5, <1>6, <1>7 DEF Dispatching

LEMMA WakeRelay ==
  ASSUME WakeInv, Onward, NEW r \in Relays, Relaying(r)
  PROVE  WakeInv'
<1>0. PICK row : row = relay[r]
  OBVIOUS
<1>1. /\ relay = [x \in Relays |-> relay[x]]
      /\ row # None => /\ row = [key |-> row.key, sent |-> row.sent] /\ row.key \in EventKeys
                       /\ row.sent = TRUE => Safe(row.key)
      /\ UNCHANGED <<worker, dispatch>>
  BY <1>0 DEF WakeInv, OutboxInv, Relaying, RelayLease, RelayPublish, RelayMark, RelayFails,
     packageVars
<1>2. ASSUME NEW new, relay' = [relay EXCEPT ![r] = new],
             new # None => /\ new = [key |-> new.key, sent |-> new.sent] /\ new.key \in EventKeys
                           /\ new.sent = TRUE => Safe(new.key)',
             \A k \in delivered' : k \in delivered \/ Safe(k),
             QueueInv', queue \subseteq queue'
      PROVE  WakeInv'
  <2>1. \A k : Safe(k) => Safe(k)'
    BY <1>2, SafeStays
  <2>2. /\ relay' = [x \in Relays |-> relay'[x]]
        /\ \A x \in Relays \ {r} : relay'[x] = relay[x]
        /\ relay'[r] = new
    BY <1>1, <1>2
  <2>3. OutboxInv'
    BY <1>1, <1>2, <2>1, <2>2 DEF WakeInv, OutboxInv, Onward
  <2> QED
    BY <1>1, <1>2, <2>3, WakeOutbox
<1>3. UNCHANGED queue => QueueInv' /\ queue \subseteq queue'
  BY DEF WakeInv, QueueInv, Onward
<1>4. CASE RelayLease(r)
  <2>1. PICK key \in EventKeys : relay' = [relay EXCEPT ![r] = [key |-> key, sent |-> FALSE]]
    BY <1>4 DEF RelayLease, Undelivered
  <2>2. [key |-> key, sent |-> FALSE].key = key /\ [key |-> key, sent |-> FALSE].sent = FALSE
    OBVIOUS
  <2>3. UNCHANGED <<delivered, queue>>
    BY <1>4 DEF RelayLease, queueVars
  <2> QED
    BY <1>2, <1>3, <2>1, <2>2, <2>3
<1>5. CASE RelayPublish(r)
  <2>0. PICK key : key = row.key
    OBVIOUS
  <2>1. row # None /\ Send(key) /\ relay' = [relay EXCEPT ![r].sent = TRUE]
    BY <1>0, <1>5, <2>0 DEF RelayPublish
  <2>2. [row EXCEPT !.sent = TRUE] = [key |-> key, sent |-> TRUE]
    <3>1. PICK before : row = [key |-> key, sent |-> before]
      BY <1>1, <2>0, <2>1
    <3>2. \A x : [row EXCEPT !.sent = x] = [key |-> key, sent |-> x]
      BY <3>1
    <3> QED
      BY <3>2
  <2>3. relay' = [relay EXCEPT ![r] = [key |-> key, sent |-> TRUE]]
    BY <1>0, <1>1, <2>1, <2>2
  <2>4. UNCHANGED delivered
    BY <1>5 DEF RelayPublish
  <2>5. QueueInv' /\ queue \subseteq queue' /\ Safe(key)'
    BY <1>1, <2>0, <2>1, QueueSends DEF WakeInv
  <2>6. [key |-> key, sent |-> TRUE].key = key
    OBVIOUS
  <2> QED
    BY <1>1, <1>2, <2>0, <2>1, <2>3, <2>4, <2>5, <2>6
<1>6. CASE RelayMark(r)
  <2>1. /\ row # None /\ row.sent /\ relay' = [relay EXCEPT ![r] = None]
        /\ delivered' = delivered \cup {row.key} \/ UNCHANGED delivered
        /\ UNCHANGED queue
    BY <1>0, <1>6 DEF RelayMark, queueVars
  <2> QED
    BY <1>1, <1>2, <1>3, <2>1
<1>7. CASE RelayFails(r)
  <2>1. relay' = [relay EXCEPT ![r] = None] /\ UNCHANGED <<delivered, queue>>
    BY <1>7 DEF RelayFails, queueVars
  <2> QED
    BY <1>2, <1>3, <2>1
<1> QED
  BY <1>4, <1>5, <1>6, <1>7 DEF Relaying

LEMMA WakeReceive ==
  ASSUME PackageInv, WakeInv, Onward, MaxReceives = 0,
         NEW w \in Workers, NEW m \in queue, Receive(w, m)
  PROVE  WakeInv'
<1> DEFINE new == [id |-> m.id, key |-> m.subject, pc |-> "received", prepared |-> None]
<1>1. /\ worker[w].pc = "idle" /\ UNCHANGED <<delivered, relay, dispatch, processed>>
      /\ worker' = [x \in Workers |->
            IF x = w THEN new ELSE IF HasReceipt(x, m.id) THEN [worker[x] EXCEPT !.id = None]
            ELSE worker[x]]
      /\ UNCHANGED queue
  BY DEF Receive, At, outboxVars, Deliver, Received
<1>2. QueueInv' /\ OutboxInv'
  <2>1. QueueInv'
    BY <1>1 DEF WakeInv, QueueInv, Onward
  <2>2. \A k : Safe(k) => Safe(k)'
    BY <1>1, SafeStays
  <2> QED
    BY <1>1, <2>1, <2>2, OutboxStays DEF WakeInv
<1>3. worker'[w].pc = "received" /\ worker'[w].key = m.subject /\ worker'[w].id = m.id
  BY <1>1
<1>4. ASSUME NEW x \in Workers \ {w}
      PROVE  /\ worker'[x].pc = worker[x].pc /\ worker'[x].key = worker[x].key
             /\ worker'[x].id # m.id
             /\ worker'[x].id = worker[x].id \/ worker'[x].id = None
  <2>1. PICK i, k, o, c : worker[x] = [id |-> i, key |-> k, pc |-> o, prepared |-> c]
    BY DEF PackageInv, WorkerInv, WorkerShape
  <2>2. m.id # None
    BY DeliveryAssumption DEF WakeInv, QueueInv
  <2>3. CASE i = m.id
    <3>1. worker'[x] = [worker[x] EXCEPT !.id = None]
      BY <1>1, <2>1, <2>3 DEF HasReceipt
    <3>2. [worker[x] EXCEPT !.id = None] = [id |-> None, key |-> k, pc |-> o, prepared |-> c]
      BY <2>1
    <3> QED
      BY <2>1, <2>2, <3>1, <3>2
  <2>4. CASE i # m.id
    <3>1. worker'[x] = worker[x]
      BY <1>1, <2>1, <2>4 DEF HasReceipt
    <3> QED
      BY <2>1, <2>4, <3>1
  <2> QED
    BY <2>3, <2>4
<1>5. \A x \in Workers :
        /\ worker'[x].pc # "idle" => worker'[x].key \in EventKeys'
        /\ worker'[x].id # None =>
            \E n \in queue' : n.id = worker'[x].id /\ n.subject = worker'[x].key
        /\ worker'[x].pc \in {"done", "skipped"} => worker'[x].key \in processed' \/ tombstoned'
  <2>1. ASSUME NEW x \in Workers \ {w}
        PROVE  /\ worker'[x].pc # "idle" => worker'[x].key \in EventKeys'
               /\ worker'[x].id # None =>
                   \E n \in queue' : n.id = worker'[x].id /\ n.subject = worker'[x].key
               /\ worker'[x].pc \in {"done", "skipped"} =>
                    worker'[x].key \in processed' \/ tombstoned'
    BY <1>1, <1>4 DEF WakeInv, ReceiptInv, Settled, Onward
  <2> QED
    BY <2>1, <1>1, <1>3 DEF WakeInv, QueueInv, Onward
<1>6. \A x, y \in Workers : worker'[x].id = worker'[y].id /\ worker'[x].id # None => x = y
  BY <1>3, <1>4 DEF WakeInv, ReceiptInv
<1>7. ReceiptInv'
  BY <1>5, <1>6 DEF ReceiptInv, Settled
<1> QED
  BY <1>2, <1>7 DEF WakeInv

\* A step of a worker that leaves the outbox and the queue alone.
LEMMA WakeWork ==
  ASSUME WakeInv, Onward, UNCHANGED <<delivered, relay, dispatch, queue>>, NEW w \in Workers,
         \A x \in Workers \ {w} : worker'[x] = worker[x],
         /\ worker'[w].id = worker[w].id /\ worker'[w].key = worker[w].key
            /\ worker[w].pc # "idle"
         \/ worker'[w] = Idle,
         worker'[w].pc \in {"done", "skipped"} =>
            worker'[w].key \in processed' \/ tombstoned'
  PROVE  WakeInv'
<1>1. QueueInv' /\ OutboxInv'
  <2>1. QueueInv'
    BY DEF WakeInv, QueueInv, Onward
  <2>2. \A k : Safe(k) => Safe(k)'
    BY SafeStays
  <2> QED
    BY <2>1, <2>2, OutboxStays DEF WakeInv
<1>2. /\ worker'[w].pc # "idle" => worker'[w].key \in EventKeys'
      /\ worker'[w].id # None => /\ worker'[w].id = worker[w].id
                                 /\ worker'[w].key = worker[w].key
  BY DEF Idle, WakeInv, ReceiptInv, Onward
<1>3. \A x \in Workers :
        /\ worker'[x].pc # "idle" => worker'[x].key \in EventKeys'
        /\ worker'[x].id # None =>
            \E n \in queue' : n.id = worker'[x].id /\ n.subject = worker'[x].key
        /\ worker'[x].pc \in {"done", "skipped"} => worker'[x].key \in processed' \/ tombstoned'
  BY <1>2 DEF WakeInv, ReceiptInv, Settled, Onward
<1>4. \A x, y \in Workers : worker'[x].id = worker'[y].id /\ worker'[x].id # None => x = y
  BY <1>2 DEF WakeInv, ReceiptInv
<1>5. ReceiptInv'
  BY <1>3, <1>4 DEF ReceiptInv, Settled
<1> QED
  BY <1>1, <1>5 DEF WakeInv

\* Who skips an event knows that it is settled; who commits one settles it.
LEMMA WakeHandle ==
  ASSUME PackageInv, WakeInv, Onward, NEW w \in Workers,
         \/ Prepare(w) \/ PersistCheckpoint(w) \/ LockAgreement(w) \/ WriteObjects(w)
         \/ Commit(w) \/ CommitRefused(w) \/ Abandon(w)
  PROVE  WakeInv'
<1>1. UNCHANGED <<delivered, relay, dispatch, queue>> /\ WorkerShape
  BY DEF Prepare, PersistCheckpoint, LockAgreement, WriteObjects, Put, Commit, CommitRefused,
     Abandon, outboxVars, queueVars, PackageInv, WorkerInv
<1>2. worker[w].pc # "idle" => worker[w].key \in EventKeys
  BY DEF WakeInv, ReceiptInv
<1>3. ASSUME NEW p, Goto(w, p), worker[w].pc # "idle",
             p \in {"done", "skipped"} => worker[w].key \in processed' \/ tombstoned'
      PROVE  WakeInv'
  <2>1. /\ worker'[w].pc = p /\ worker'[w].key = worker[w].key
        /\ \A x \in Workers \ {w} : worker'[x] = worker[x]
    BY <1>1, <1>3, WorkerMoves
  <2>2. worker'[w].id = worker[w].id
    <3>1. worker'[w] = [worker[w] EXCEPT !.pc = p]
      BY <1>1, <1>3 DEF Goto, WorkerShape
    <3>2. PICK i, k, o, c : worker[w] = [id |-> i, key |-> k, pc |-> o, prepared |-> c]
      BY <1>1 DEF WorkerShape
    <3>3. [worker[w] EXCEPT !.pc = p] = [id |-> i, key |-> k, pc |-> p, prepared |-> c]
      BY <3>2
    <3> QED
      BY <3>1, <3>2, <3>3
  <2> QED
    BY <1>1, <1>3, <2>1, <2>2, WakeWork
<1>4. ASSUME worker' = [worker EXCEPT ![w] = Idle] PROVE WakeInv'
  <2>1. worker'[w] = Idle /\ \A x \in Workers \ {w} : worker'[x] = worker[x]
    BY <1>1, <1>4 DEF WorkerShape
  <2>2. worker'[w].pc = "idle"
    BY <2>1 DEF Idle
  <2> QED
    BY <1>1, <2>1, <2>2, WakeWork
<1>5. CASE Prepare(w)
  <2>1. worker[w].pc = "received" /\ UNCHANGED reviewVars /\ UNCHANGED processed
    BY <1>5 DEF Prepare, At
  <2>2. CASE Goto(w, "skipped") /\ ~Pending(worker[w].key)
    BY <1>2, <1>3, <2>1, <2>2 DEF Pending, reviewVars, caseVars
  <2>3. CASE worker' = [worker EXCEPT ![w].pc = "prepared", ![w].prepared = Payload(MyEvent(w))]
    <3>1. PICK content : content = Payload(MyEvent(w))
      OBVIOUS
    <3>2. worker'[w] = [worker[w] EXCEPT !.pc = "prepared", !.prepared = content]
      BY <1>1, <2>3, <3>1 DEF WorkerShape
    <3>3. PICK i, k, o, c : worker[w] = [id |-> i, key |-> k, pc |-> o, prepared |-> c]
      BY <1>1 DEF WorkerShape
    <3>4. /\ worker'[w].pc = "prepared"
          /\ worker'[w].key = worker[w].key /\ worker'[w].id = worker[w].id
      <4>1. worker'[w] = [f \in {"id", "key", "pc", "prepared"} |->
                IF f = "pc" THEN "prepared" ELSE IF f = "prepared" THEN content
                ELSE worker[w][f]]
        BY <3>2, <3>3
      <4> QED
        BY <4>1
    <3>5. \A x \in Workers \ {w} : worker'[x] = worker[x]
      BY <1>1, <2>3 DEF WorkerShape
    <3> QED
      BY <1>1, <2>1, <3>4, <3>5, WakeWork
  <2> QED
    BY <1>5, <2>2, <2>3 DEF Prepare, Goto
<1>6. CASE PersistCheckpoint(w)
  BY <1>3, <1>6 DEF PersistCheckpoint, At
<1>7. CASE LockAgreement(w)
  <2>1. worker[w].pc = "checkpointed" /\ UNCHANGED reviewVars /\ UNCHANGED processed
    BY <1>7 DEF LockAgreement, At
  <2>2. CASE Goto(w, "skipped") /\ ~Pending(worker[w].key)
    BY <1>2, <1>3, <2>1, <2>2 DEF Pending, reviewVars, caseVars
  <2>3. CASE Goto(w, IF MyEvent(w).kind = "terminal" THEN "manifest" ELSE "commit")
    BY <1>3, <2>1, <2>3
  <2> QED
    BY <1>7, <2>2, <2>3 DEF LockAgreement
<1>8. CASE WriteObjects(w)
  BY <1>3, <1>8 DEF WriteObjects, Put, At
<1>9. CASE Commit(w)
  <2>1. worker[w].pc = "commit" /\ Goto(w, "done") /\ worker[w].key \in processed'
    BY <1>9 DEF Commit, At
  <2> QED
    BY <1>3, <2>1
<1>10. CASE CommitRefused(w) \/ Abandon(w)
  BY <1>4, <1>10 DEF CommitRefused, Abandon
<1> QED
  BY <1>5, <1>6, <1>7, <1>8, <1>9, <1>10

\* The message a worker deletes is about an event that is settled.
LEMMA WakeAck ==
  ASSUME PackageInv, WakeInv, Onward, NEW w \in Workers, Ack(w)
  PROVE  WakeInv'
<1>1. /\ worker[w].pc \in {"done", "skipped"} /\ worker' = [worker EXCEPT ![w] = Idle]
      /\ WorkerShape /\ UNCHANGED <<delivered, relay, dispatch, processed>>
      /\ UNCHANGED reviewVars
  BY DEF Ack, At, PackageInv, WorkerInv, outboxVars
<1>2. /\ worker'[w] = Idle /\ \A x \in Workers \ {w} : worker'[x] = worker[x]
  BY <1>1 DEF WorkerShape
<1>3. worker'[w].pc = "idle" /\ worker'[w].id = None
  BY <1>2 DEF Idle
<1>4. CASE worker[w].id = None
  <2>1. UNCHANGED queue
    BY <1>4 DEF Ack, queueVars
  <2> QED
    BY <1>1, <1>2, <1>3, <2>1, WakeWork
<1>5. CASE worker[w].id # None
  <2>1. queue' = {m \in queue : m.id # worker[w].id}
    BY <1>5 DEF Ack, Delete
  <2>2. /\ Settled(worker[w].key)
        /\ \A m \in queue : m.id = worker[w].id => m.subject = worker[w].key
    BY <1>1, <1>5 DEF WakeInv, QueueInv, ReceiptInv
  <2>4. ASSUME NEW k, Safe(k) PROVE Safe(k)'
    <3>1. CASE Settled(k)
      BY <3>1 DEF Settled, Safe, Onward
    <3>2. CASE k = worker[w].key
      BY <2>2, <3>1, <3>2
    <3>3. CASE Queued(k) /\ k # worker[w].key
      BY <2>1, <2>2, <3>3 DEF Queued, Safe
    <3> QED
      BY <2>4, <3>1, <3>2, <3>3 DEF Safe
  <2>5. QueueInv'
    BY <2>1 DEF WakeInv, QueueInv, Onward
  <2>6. OutboxInv'
    BY <1>1, <2>4, OutboxStays DEF WakeInv
  <2>7. ReceiptInv'
    <3>1. \A x \in Workers \ {w} : worker[x].id # None => worker[x].id # worker[w].id
      BY <1>5 DEF WakeInv, ReceiptInv
    <3>2. ASSUME NEW x \in Workers \ {w}
          PROVE  /\ worker[x].pc # "idle" => worker[x].key \in EventKeys'
                 /\ worker[x].id # None =>
                     \E m \in queue' : m.id = worker[x].id /\ m.subject = worker[x].key
                 /\ worker[x].pc \in {"done", "skipped"} =>
                     worker[x].key \in processed' \/ tombstoned'
      BY <2>1, <3>1 DEF WakeInv, ReceiptInv, Settled, Onward
    <3>3. \A x, y \in Workers : worker'[x].id = worker'[y].id /\ worker'[x].id # None => x = y
      BY <1>2, <1>3 DEF WakeInv, ReceiptInv
    <3>4. \A x \in Workers :
            /\ worker'[x].pc # "idle" => worker'[x].key \in EventKeys'
            /\ worker'[x].id # None =>
                \E m \in queue' : m.id = worker'[x].id /\ m.subject = worker'[x].key
            /\ worker'[x].pc \in {"done", "skipped"} =>
                worker'[x].key \in processed' \/ tombstoned'
      BY <1>2, <1>3, <3>2
    <3> QED
      BY <3>3, <3>4 DEF ReceiptInv, Settled
  <2> QED
    BY <2>5, <2>6, <2>7 DEF WakeInv
<1> QED
  BY <1>4, <1>5

LEMMA WakeNext ==
  ASSUME MaxReceives = 0, PackageInv, WakeInv, [DeliveryNext]_vars
  PROVE  WakeInv'
<1>1. Onward
  BY StepsGoOnward
<1>2. CASE \/ UNCHANGED vars \/ ReviewStep \/ LeaseExpires \/ Redeliver \/ RedeliverEarly
           \/ RequestDeletion \/ Purge \/ \E w \in Workers : LoseConnection(w)
  <2>1. UNCHANGED <<delivered, relay, dispatch, worker, queue>>
    BY <1>2 DEF vars, deliveryVars, outboxVars, packageVars, queueVars, ReviewStep, LeaseExpires,
       Redeliver, RedeliverEarly, Reappear, RequestDeletion, Purge, LoseConnection
  <2> QED
    BY <1>1, <2>1, WakeRest
<1>3. CASE \/ \E d \in Dispatchers : Dispatching(d)
           \/ \E r \in Relays : Relaying(r)
  BY <1>1, <1>3, WakeDispatch, WakeRelay
<1>4. ASSUME NEW w \in Workers, NEW m \in queue, Receive(w, m) PROVE WakeInv'
  BY <1>1, <1>4, WakeReceive
<1>5. ASSUME NEW w \in Workers, HandleEvent(w) \/ Abandon(w) PROVE WakeInv'
  BY <1>1, <1>5, WakeHandle, WakeAck DEF HandleEvent
<1> QED
  BY <1>2, <1>3, <1>4, <1>5 DEF DeliveryNext

\* An event that is not processed is never forgotten, whatever relays,
\* dispatchers and workers do and wherever they crash: its outbox row is not
\* marked yet, or a message about it is in the queue.  A queue that gives a
\* message up after a number of receptions forgets, hence the hypothesis.
THEOREM EventsWakeUp == MaxReceives = 0 => (DeliverySpec => []EventWakeUp)
<1> SUFFICES ASSUME MaxReceives = 0 PROVE DeliverySpec => []EventWakeUp
  OBVIOUS
<1>1. DeliveryInit => WakeInv
  <2> SUFFICES ASSUME DeliveryInit PROVE WakeInv
    OBVIOUS
  <2>1. /\ queue = {} /\ delivered = {} /\ relay = [r \in Relays |-> None]
        /\ dispatch = [d \in Dispatchers |-> [rows |-> {}, sent |-> None]]
        /\ worker = [w \in Workers |-> Idle]
    BY DEF DeliveryInit, QueueInit
  <2>2. OutboxInv
    BY <2>1 DEF OutboxInv
  <2>3. QueueInv
    BY <2>1 DEF QueueInv
  <2>4. ReceiptInv
    BY <2>1 DEF ReceiptInv, Idle
  <2> QED
    BY <2>2, <2>3, <2>4 DEF WakeInv
<1>2. PackageInv /\ WakeInv /\ [DeliveryNext]_vars => WakeInv'
  BY WakeNext
<1>3. WakeInv => EventWakeUp
  BY DEF WakeInv, OutboxInv, Safe, Settled, EventWakeUp, Undelivered
<1> QED
  BY <1>1, <1>2, <1>3, PackageAlways, PTL DEF DeliverySpec
=============================================================================
