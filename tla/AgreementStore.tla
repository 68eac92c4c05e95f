--------------------------- MODULE AgreementStore ---------------------------
(***************************************************************************)
(* The durable state that the processing worker, the API and the deletion  *)
(* processor share for ONE agreement: its PostgreSQL rows and its derived  *)
(* objects in S3.  Agreements do not interact through this state (object   *)
(* keys of analyses and comparisons contain the agreement or run id), so   *)
(* one agreement stands for all; uploaded sources, which agreements do     *)
(* share, are not part of this module.                                     *)
(*                                                                         *)
(* A row absent from its table is the state "absent" / "none".  Claim      *)
(* tokens (uuid4) are not stored: a job row holds a token exactly while it *)
(* is "processing", each claim increments attempt_count and nothing ever   *)
(* decreases it, so the attempt number identifies the token.  A deletion   *)
(* claim is identified in the same way by (retry_cycle, attempt_count).    *)
(***************************************************************************)
EXTENDS Naturals

CONSTANTS
    Jobs,       \* ids of the processing jobs an actor may submit
    Keys,       \* S3 keys of the artifacts derived from the agreement
    KeyOf,      \* the artifact key of each job; jobs of one source share it
    Workers,    \* worker processes
    Sweepers,   \* deletion outbox sweepers, one thread per worker process
    None        \* NULL

ASSUME StoreAssumption ==
    /\ KeyOf \in [Jobs -> Keys]
    /\ None \notin Workers
    /\ None \notin Sweepers

VARIABLES
    tombstoned,     \* agreements.deletion_requested_at IS NOT NULL
    rowLock,        \* worker whose open transaction holds the agreement row
                    \* lock across a call to S3, or None
    job,            \* processing_jobs
    intent,         \* processing_artifact_intents, one row per job
    artifacts,      \* jobs that have a processing_artifacts row
    objects,        \* keys of the S3 objects that exist
    deletion,       \* agreement_deletion_requests
    inventory,      \* agreement_deletion_objects, by key
    deletionOutbox  \* agreement_deletion_outbox

storeVars == <<tombstoned, rowLock, job, intent, artifacts, objects,
               deletion, inventory, deletionOutbox>>

JobStates == {"absent", "queued", "processing", "completed", "failed"}

\* live: the claim lease has not expired.  retryable: the failure category
\* is one that ProcessingJobService.retry accepts.
JobRow == [state: JobStates, attempt: Nat, live: BOOLEAN, retryable: BOOLEAN]

DeletionStates ==
    {"none", "accepted", "processing", "retrying", "completed", "failed"}

\* live: the lease has not expired.  due: next_attempt_at <= now.
DeletionRow ==
    [state: DeletionStates, cycle: Nat, attempt: Nat, live: BOOLEAN, due: BOOLEAN]

\* "expired": still carries its lease token, but may be leased again.
OutboxStates == {"none", "waiting", "leased", "expired", "delivered"}
OutboxRow == [state: OutboxStates, owner: Sweepers \cup {None}]

StoreTypeOK ==
    /\ tombstoned \in BOOLEAN
    /\ rowLock \in Workers \cup {None}
    /\ job \in [Jobs -> JobRow]
    /\ intent \in [Jobs -> {"none", "expected", "settled"}]
    /\ artifacts \in SUBSET Jobs
    /\ objects \in SUBSET Keys
    /\ deletion \in DeletionRow
    /\ inventory \in [Keys -> {"none", "pending", "deleted"}]
    /\ deletionOutbox \in OutboxRow

StoreInit ==
    /\ tombstoned = FALSE
    /\ rowLock = None
    /\ job = [j \in Jobs |-> [state |-> "absent", attempt |-> 0,
                              live |-> FALSE, retryable |-> FALSE]]
    /\ intent = [j \in Jobs |-> "none"]
    /\ artifacts = {}
    /\ objects = {}
    /\ deletion = [state |-> "none", cycle |-> 0, attempt |-> 0,
                   live |-> FALSE, due |-> FALSE]
    /\ inventory = [k \in Keys |-> "none"]
    /\ deletionOutbox = [state |-> "none", owner |-> None]

-----------------------------------------------------------------------------
\* Every repository transaction on the agreement takes its row lock first
\* (SELECT ... FOR UPDATE), so a transaction that makes no call to S3 is one
\* step, enabled while no worker holds the lock across such a call.
AgreementRowFree == rowLock = None

\* The values an outbox row has after every UPDATE that makes it due again.
WaitingOutbox == [state |-> "waiting", owner |-> None]

\* The deletion row after a late artifact: a terminal request starts a new
\* retry cycle, and whatever claim was held is void.
ReopenedDeletion ==
    LET terminal == deletion.state \in {"completed", "failed"}
    IN  [state   |-> "retrying",
         cycle   |-> IF terminal THEN deletion.cycle + 1 ELSE deletion.cycle,
         attempt |-> IF terminal THEN 0 ELSE deletion.attempt,
         live    |-> FALSE,
         due     |-> TRUE]

\* Mutant of InventoryLateArtifact: a key listed before keeps its state.
InventoryNewArtifact(k) ==
    /\ inventory' = [inventory EXCEPT ![k] = IF @ = "none" THEN "pending" ELSE @]
    /\ deletion' = ReopenedDeletion
    /\ deletionOutbox' = WaitingOutbox

\* _inventory_late_artifact: the key is (again) pending deletion and the
\* request and its outbox row are reset, or re-inserted after a purge.
InventoryLateArtifact(k) ==
    /\ inventory' = [inventory EXCEPT ![k] = "pending"]
    /\ deletion' = ReopenedDeletion
    /\ deletionOutbox' = WaitingOutbox

\* _reconcile_artifact_intent: inventory the intent's key, drop the intent.
ReconcileIntent(j) ==
    /\ InventoryLateArtifact(KeyOf[j])
    /\ intent' = [intent EXCEPT ![j] = "none"]

\* The branch "if intent is not None: _reconcile_artifact_intent(...)".
ReconcileIntentIfAny(j) ==
    \/ intent[j] # "none" /\ ReconcileIntent(j)
    \/ intent[j] = "none" /\ UNCHANGED <<intent, inventory, deletion, deletionOutbox>>

KeepDeletion == UNCHANGED <<deletion, inventory, deletionOutbox>>

\* The branch "if agreement.deletion_requested_at is not None" of the
\* handlers that only then have something to inventory.
InventoryIfDeleted(k) ==
    \/ tombstoned /\ InventoryLateArtifact(k)
    \/ ~ tombstoned /\ KeepDeletion
=============================================================================
