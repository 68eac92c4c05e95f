-------------------------- MODULE WorkflowDelivery --------------------------
(***************************************************************************)
(* From the outbox of a review workflow to its final package.  The API     *)
(* publishes what it just committed (ReviewWorkflowQueueDispatcher), a     *)
(* relay in the worker process polls and leases what was left              *)
(* (workflow_outbox_relay.py), and workers handle the messages:            *)
(* review_workflow.py persists a checkpoint and, for a terminal event,     *)
(* final_package.py writes two immutable objects and a row, in a           *)
(* transaction that holds the agreement row.  Deletion of the agreement    *)
(* takes an inventory of the package objects under the same lock.          *)
(***************************************************************************)
EXTENDS ReviewWorkflow, JobQueue

CONSTANTS
    Workers,      \* threads in run_workflow_loop
    Relays,       \* WorkflowOutboxRelay instances
    Dispatchers,  \* API calls in dispatch_pending
    Migrated,     \* may the database have been migrated by 0035 with a package in it
    LateWrites,   \* a worker may lose its connection between the lock and the writes
    MaxFaults     \* BOUND on crashes, exceptions and lost connections

ASSUME DeliveryAssumption ==
    /\ Migrated \subseteq BOOLEAN /\ LateWrites \in BOOLEAN /\ MaxFaults \in Nat
    /\ None \notin Workers \cup MessageIds

VARIABLES
    delivered,   \* keys of the outbox rows whose delivered_at is set
    processed,   \* keys of those whose processed_at is set
    lease,       \* lease_owner of each leased outbox row
    relay,       \* what each relay does
    dispatch,    \* and each dispatcher
    worker,      \* the message each worker handles
    holder,      \* who holds the agreement row
    checkpoints, \* events with a LangGraph checkpoint
    objects,     \* S3: the content of each package object
    package,     \* the review_final_packages row
    inventory,   \* package objects in the deletion's inventory
    purged,      \* the deletion has erased its inventory and the rows
    faults

outboxVars == <<delivered, lease, relay, dispatch>>
packageVars == <<processed, worker, holder, checkpoints, objects, package>>
deletionVars == <<inventory, purged>>
deliveryVars == <<outboxVars, packageVars, deletionVars, queueVars, faults>>
vars == <<reviewVars, deliveryVars>>

\* The package of a migrated review is rebuilt under a key of its own
\* (recovery-0035); its snapshot remembers the keys of the old one.
BackfillKey == <<"backfill">>
Base(key) == IF key = BackfillKey THEN "recovery-0035" ELSE "final-package"
Parts == {"manifest", "pdf"}
PackageKeys(key) == {<<Base(key), part>> : part \in Parts}
LegacyContent == [state |-> "approved", revision |-> 0]
PackageRow(base, content) == [base |-> base, content |-> content]

EventKeys == {v.key : v \in events}
EventOf(key) == CHOOSE v \in events : v.key = key
TerminalEvents == {v \in events : v.kind = "terminal"}

\* The snapshot _backfill_terminal_package_event makes of such a review
MigratedSnapshot ==
    [state |-> "approved", revision |-> 0, decisions |-> <<>>, comments |-> {}, open |-> {}]

\* What 0035 leaves of a review that was approved before it: a terminal
\* event whose snapshot describes the package row it will repair
MigratedReview ==
    LET rule == CHOOSE p \in Policies : TRUE
        wf == [state |-> "approved", active |-> 0, revision |-> 0, policy |-> rule]
    IN  /\ workflow = wf
        /\ stage = [s \in DOMAIN rule.stages |-> "completed"]
        /\ review = [state |-> "approved", revision |-> 0]
        /\ tombstoned = FALSE /\ assignment = <<>> /\ comments = <<>> /\ notified = {}
        /\ escalated = {} /\ overdue = {} /\ decisions = <<>>
        /\ seen = [u \in Users |-> None] /\ sweep = [e \in Escalators |-> 0]
        /\ events = {Event(BackfillKey, "terminal", MigratedSnapshot)}
        /\ objects = [k \in {<<"final-package", part>> : part \in Parts} |-> LegacyContent]
        /\ package = PackageRow("final-package", LegacyContent)

\* A worker that waits for a message
Idle == [id |-> None, key |-> None, pc |-> "idle", prepared |-> None]

DeliveryInit ==
    /\ \E migrated \in Migrated :
        IF migrated THEN MigratedReview
        ELSE ReviewInit /\ objects = <<>> /\ package = None
    /\ QueueInit
    /\ delivered = {} /\ processed = {} /\ lease = <<>>
    /\ relay = [r \in Relays |-> None]
    /\ dispatch = [d \in Dispatchers |-> [rows |-> {}, sent |-> None]]
    /\ worker = [w \in Workers |-> Idle]
    /\ holder = None
    /\ checkpoints = {}
    /\ inventory = {} /\ purged = FALSE
    /\ faults = 0

Fault == faults < MaxFaults /\ faults' = faults + 1

-----------------------------------------------------------------------------
\* A step of the API on the review; one that writes needs the agreement row.
ReviewStep ==
    /\ WorkflowStep
    /\ holder = None \/ UNCHANGED <<review, assignment, comments, workflow, decisions>>
    /\ UNCHANGED deliveryVars

Undelivered == EventKeys \ delivered

\* dispatch_pending reads the undelivered rows of agreements not being deleted
DispatchRead(d) ==
    /\ ~tombstoned
    /\ dispatch[d].rows = {} /\ Undelivered # {}
    /\ dispatch' = [dispatch EXCEPT ![d].rows = Undelivered]
    /\ UNCHANGED <<reviewVars, delivered, lease, relay, packageVars, deletionVars,
                   queueVars, faults>>

DispatchPublish(d) ==
    /\ dispatch[d].sent = None
    /\ \E key \in dispatch[d].rows :
        /\ Send(key)
        /\ dispatch' = [dispatch EXCEPT ![d].sent = key]
    /\ UNCHANGED <<reviewVars, delivered, lease, relay, packageVars, deletionVars, faults>>

\* delivered_at is set by the row's identity, whatever its lease
DispatchMark(d) ==
    /\ dispatch[d].sent # None
    /\ delivered' = delivered \cup {dispatch[d].sent}
    /\ dispatch' = [dispatch EXCEPT ![d] = [rows |-> @.rows \ {@.sent}, sent |-> None]]
    /\ UNCHANGED <<reviewVars, lease, relay, packageVars, deletionVars, queueVars, faults>>

\* the publisher raises, or the API process ends: the other rows are left
DispatchFails(d) ==
    /\ dispatch[d].rows # {}
    /\ Fault
    /\ dispatch' = [dispatch EXCEPT ![d] = [rows |-> {}, sent |-> None]]
    /\ UNCHANGED <<reviewVars, delivered, lease, relay, packageVars, deletionVars, queueVars>>

Dispatching(d) == DispatchRead(d) \/ DispatchPublish(d) \/ DispatchMark(d) \/ DispatchFails(d)

\* relay_once leases a row, tombstoned or not, that nobody has leased
RelayLease(r) ==
    /\ relay[r] = None
    /\ ~purged
    /\ \E key \in Undelivered \ DOMAIN lease :
        /\ lease' = With(lease, key, r)
        /\ relay' = [relay EXCEPT ![r] = [key |-> key, sent |-> FALSE]]
    /\ UNCHANGED <<reviewVars, delivered, dispatch, packageVars, deletionVars, queueVars, faults>>

RelayPublish(r) ==
    /\ relay[r] # None
    /\ ~relay[r].sent
    /\ Send(relay[r].key)
    /\ relay' = [relay EXCEPT ![r].sent = TRUE]
    /\ UNCHANGED <<reviewVars, delivered, lease, dispatch, packageVars, deletionVars, faults>>

Unleased(key) == [k \in DOMAIN lease \ {key} |-> lease[k]]
OwnsLease(r, key) == key \in DOMAIN lease /\ lease[key] = r

\* Mutant: the row is marked before it is published
MarkAnyway(r) ==
    /\ relay[r] # None
    /\ delivered' = delivered \cup {relay[r].key}
    /\ lease' = Unleased(relay[r].key)
    /\ relay' = [relay EXCEPT ![r] = None]
    /\ UNCHANGED <<reviewVars, dispatch, packageVars, deletionVars, queueVars, faults>>

\* the row is marked if the lease is still this relay's
RelayMark(r) ==
    /\ relay[r] # None
    /\ relay[r].sent
    /\ IF OwnsLease(r, relay[r].key) /\ relay[r].key \notin delivered
       THEN /\ delivered' = delivered \cup {relay[r].key}
            /\ lease' = Unleased(relay[r].key)
       ELSE UNCHANGED <<delivered, lease>>
    /\ relay' = [relay EXCEPT ![r] = None]
    /\ UNCHANGED <<reviewVars, dispatch, packageVars, deletionVars, queueVars, faults>>

\* the publication fails and the lease is returned (the back-off only
\* delays), or the process ends and the lease expires
RelayFails(r) ==
    /\ relay[r] # None
    /\ Fault
    /\ lease' = IF OwnsLease(r, relay[r].key) THEN Unleased(relay[r].key) ELSE lease
    /\ relay' = [relay EXCEPT ![r] = None]
    /\ UNCHANGED <<reviewVars, delivered, dispatch, packageVars, deletionVars, queueVars>>

\* a publication may outlast the lease
LeaseExpires ==
    /\ Fault
    /\ \E key \in DOMAIN lease : lease' = Unleased(key)
    /\ UNCHANGED <<reviewVars, delivered, relay, dispatch, packageVars, deletionVars, queueVars>>

Relaying(r) == RelayLease(r) \/ RelayPublish(r) \/ RelayMark(r) \/ RelayFails(r)

-----------------------------------------------------------------------------
At(w, pc) == worker[w].pc = pc
Goto(w, pc) == worker' = [worker EXCEPT ![w].pc = pc]
MyEvent(w) == EventOf(worker[w].key)
MyKey(w, part) == <<Base(worker[w].key), part>>

\* Only the newest receipt of a message can delete it.
HasReceipt(w, id) == worker[w].id = id

Receive(w, m) ==
    /\ At(w, "idle")
    /\ Deliver(m)
    /\ worker' = [x \in Workers |->
          IF x = w THEN [id |-> m.id, key |-> m.subject, pc |-> "received", prepared |-> None]
          ELSE IF HasReceipt(x, m.id) THEN [worker[x] EXCEPT !.id = None]
          ELSE worker[x]]
    /\ UNCHANGED <<reviewVars, outboxVars, processed, holder, checkpoints, objects, package,
                   deletionVars, faults>>

\* Mutant: nobody asks whether the agreement is being deleted
PendingUnfenced(key) == key \in EventKeys /\ key \notin processed

\* The candidate is there, its agreement active and itself not processed
Pending(key) == key \in EventKeys /\ ~tombstoned /\ key \notin processed

\* Mutant: the package tells the comments of the moment it is prepared
LivePayload(v) == IF v.kind = "terminal" THEN [v.snapshot EXCEPT !.comments = DOMAIN comments]
                  ELSE None

\* prepare(): a terminal event's package is made of its frozen snapshot
Payload(v) == v.snapshot

Prepare(w) ==
    /\ At(w, "received")
    /\ worker' = IF Pending(worker[w].key)
                 THEN [worker EXCEPT ![w].pc = "prepared", ![w].prepared = Payload(MyEvent(w))]
                 ELSE [worker EXCEPT ![w].pc = "skipped"]
    /\ UNCHANGED <<reviewVars, outboxVars, processed, holder, checkpoints, objects, package,
                   deletionVars, queueVars, faults>>

\* one checkpoint thread per event; a second writer adds the same state
PersistCheckpoint(w) ==
    /\ At(w, "prepared")
    /\ checkpoints' = checkpoints \cup {worker[w].key}
    /\ Goto(w, "checkpointed")
    /\ UNCHANGED <<reviewVars, outboxVars, processed, holder, objects, package,
                   deletionVars, queueVars, faults>>

\* lock_active_agreement and the second look at the event, under the lock
LockAgreement(w) ==
    /\ At(w, "checkpointed")
    /\ holder = None
    /\ IF Pending(worker[w].key)
       THEN holder' = w /\ Goto(w, IF MyEvent(w).kind = "terminal" THEN "manifest" ELSE "commit")
       ELSE holder' = None /\ Goto(w, "skipped")
    /\ UNCHANGED <<reviewVars, outboxVars, processed, checkpoints, objects, package,
                   deletionVars, queueVars, faults>>

\* _ensure_object: an object that is there must have this content
Put(w, part, next) ==
    /\ At(w, part)
    /\ LET key == MyKey(w, part)
       IN  IF key \in DOMAIN objects
           THEN objects[key] = worker[w].prepared /\ UNCHANGED objects
           ELSE objects' = With(objects, key, worker[w].prepared)
    /\ Goto(w, next)
    /\ UNCHANGED <<reviewVars, outboxVars, processed, holder, checkpoints, package,
                   deletionVars, queueVars, faults>>

\* Mutant: the report is left to a later delivery
WriteManifestOnly(w) == Put(w, "manifest", "commit")

WriteObjects(w) == Put(w, "manifest", "pdf") \/ Put(w, "pdf", "commit")

\* The row commit() inserts, or repairs if it is the one the migration
\* described; the triggers of 0035 allow no other change.
RowIsMine(w) == package = None \/ package = PackageRow("final-package", LegacyContent)

Commit(w) ==
    /\ At(w, "commit")
    /\ holder = w
    /\ IF MyEvent(w).kind = "terminal"
       THEN RowIsMine(w) /\ package' = PackageRow(Base(worker[w].key), worker[w].prepared)
       ELSE UNCHANGED package
    /\ processed' = processed \cup {worker[w].key}
    /\ holder' = None
    /\ Goto(w, "done")
    /\ UNCHANGED <<reviewVars, outboxVars, checkpoints, objects, deletionVars, queueVars, faults>>

\* run_workflow_loop acknowledges what was processed or skipped
Ack(w) ==
    /\ At(w, "done") \/ At(w, "skipped")
    /\ IF worker[w].id = None THEN UNCHANGED queueVars ELSE Delete(worker[w].id)
    /\ worker' = [worker EXCEPT ![w] = Idle]
    /\ UNCHANGED <<reviewVars, outboxVars, processed, holder, checkpoints, objects, package,
                   deletionVars, faults>>

Released(w) == IF holder = w THEN None ELSE holder

\* an exception or a crash: the transaction is rolled back, the message stays
Abandon(w) ==
    /\ ~At(w, "idle")
    /\ Fault
    /\ holder' = Released(w)
    /\ worker' = [worker EXCEPT ![w] = Idle]
    /\ UNCHANGED <<reviewVars, outboxVars, processed, checkpoints, objects, package,
                   deletionVars, queueVars>>

\* the connection, and with it the row lock, is lost while the worker is
\* busy with S3; it notices at the next statement
LoseConnection(w) ==
    /\ LateWrites
    /\ holder = w
    /\ Fault
    /\ holder' = None
    /\ UNCHANGED <<reviewVars, outboxVars, processed, worker, checkpoints, objects, package,
                   deletionVars, queueVars>>

CommitRefused(w) ==
    /\ At(w, "commit")
    /\ holder # w
    /\ worker' = [worker EXCEPT ![w] = Idle]
    /\ UNCHANGED <<reviewVars, outboxVars, processed, holder, checkpoints, objects, package,
                   deletionVars, queueVars, faults>>

InHand(m) == \E w \in Workers : HasReceipt(w, m.id)

\* a message whose handling raised or died reappears; so does one that is
\* handled for longer than its visibility timeout
Redeliver ==
    /\ \E m \in queue : ~InHand(m) /\ Reappear(m)
    /\ UNCHANGED <<reviewVars, outboxVars, packageVars, deletionVars, faults>>

RedeliverEarly ==
    /\ \E m \in queue : InHand(m) /\ Reappear(m)
    /\ Fault
    /\ UNCHANGED <<reviewVars, outboxVars, packageVars, deletionVars>>

HandleEvent(w) ==
    \/ Prepare(w) \/ PersistCheckpoint(w) \/ LockAgreement(w)
    \/ WriteObjects(w) \/ Commit(w) \/ CommitRefused(w) \/ Ack(w)

-----------------------------------------------------------------------------
\* Mutant: only the packages that have a row
RowObjects ==
    IF package = None THEN {} ELSE {<<package.base, part>> : part \in Parts}

\* deletion_objects: the objects of the package row, those a terminal event
\* intends, and the legacy ones its snapshot remembers
KnownObjects ==
    RowObjects \cup (UNION {PackageKeys(v.key) : v \in TerminalEvents})
        \cup (IF BackfillKey \in EventKeys
              THEN {<<"final-package", part>> : part \in Parts} ELSE {})

RequestDeletion ==
    /\ holder = None
    /\ AcceptDeletion
    /\ inventory' = KnownObjects
    /\ UNCHANGED <<workflowVars, outboxVars, packageVars, purged, queueVars, faults>>

\* the deletion processor erases the inventory and purges the rows
\* (DeletionProcessor models its steps)
Purge ==
    /\ tombstoned
    /\ ~purged
    /\ holder = None
    /\ objects' = [k \in DOMAIN objects \ inventory |-> objects[k]]
    /\ package' = None
    /\ purged' = TRUE
    /\ UNCHANGED <<reviewVars, outboxVars, processed, worker, holder, checkpoints, inventory,
                   queueVars, faults>>

DeliveryNext ==
    \/ ReviewStep
    \/ \E d \in Dispatchers : Dispatching(d)
    \/ \E r \in Relays : Relaying(r)
    \/ LeaseExpires
    \/ \E w \in Workers, m \in queue : Receive(w, m)
    \/ \E w \in Workers : HandleEvent(w) \/ Abandon(w) \/ LoseConnection(w)
    \/ Redeliver \/ RedeliverEarly
    \/ RequestDeletion
    \/ Purge

\* The relay polls, workers receive and handle, a hidden message reappears
DeliveryFairness ==
    /\ \A r \in Relays :
        WF_vars(RelayLease(r)) /\ WF_vars(RelayPublish(r)) /\ WF_vars(RelayMark(r))
    /\ \A w \in Workers : WF_vars(HandleEvent(w)) /\ WF_vars(\E m \in queue : Receive(w, m))
    /\ WF_vars(Redeliver)

DeliverySpec == DeliveryInit /\ [][DeliveryNext]_vars
FairDeliverySpec == DeliverySpec /\ DeliveryFairness

-----------------------------------------------------------------------------
\* A published package is complete and tells the decision: the row's content
\* is the snapshot frozen with the terminal decision, both objects are in S3
\* with that content, and the event that made it is processed, whatever was
\* commented or transferred since ("terminal artifacts are immutable").
PackageTellsTheDecision ==
    package # None /\ package.content # LegacyContent =>
        /\ \E v \in TerminalEvents :
            v.key \in processed /\ v.snapshot = package.content
        /\ package.content.state = workflow.state
        /\ \A part \in Parts :
            /\ <<package.base, part>> \in DOMAIN objects
            /\ objects[<<package.base, part>>] = package.content

\* FinalPackageConflictError stays out of reach: what a crashed delivery left
\* in S3 is what the next one wants to write, so a redelivery never fails
\* for good (_ensure_object compares checksums).
RetriesDoNotConflict ==
    \A v \in TerminalEvents, key \in DOMAIN objects :
        key \in PackageKeys(v.key) => objects[key] = v.snapshot

\* An event that is not processed is never forgotten: its row is still to be
\* published, or a message about it is in the queue, unless the agreement is
\* being deleted.
EventWakeUp ==
    \A key \in EventKeys :
        \/ key \in processed \/ tombstoned
        \/ key \in Undelivered \/ Queued(key)

\* No package object is unknown to a deletion of the agreement: one that is
\* in S3 after the tombstone is in the inventory, and none outlives the purge.
DeletionKnowsPackages ==
    /\ tombstoned => DOMAIN objects \subseteq inventory
    /\ purged => objects = <<>>

\* The delivery implements the promise of a review.
Promise == INSTANCE ReviewOutcome WITH
    Outcomes <- Terminal,
    outcome <- IF workflow.state \in Terminal THEN workflow.state ELSE None,
    published <- IF package = None THEN None ELSE package.content.state,
    deleted <- tombstoned

KeepsPromise == Promise!OutcomeSpec
=============================================================================
