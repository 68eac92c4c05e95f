--------------------------- MODULE ProcessingApi ---------------------------
(***************************************************************************)
(* The API operations that start work on an agreement:                     *)
(* ProcessingJobService.submit, retry and requeue with the transactional   *)
(* outbox they share, and AgreementService.accept_deletion.                *)
(*                                                                         *)
(* Each of the first three inserts an outbox row in its own transaction    *)
(* and then, after the commit, runs dispatch_pending over every pending    *)
(* row of the workspace.  There is no other dispatcher: a row whose        *)
(* publication failed waits for the next such call.                        *)
(***************************************************************************)
EXTENDS WorkerProcess

CONSTANT MaxCalls   \* BOUND: retry, requeue and redrive calls

ASSUME ApiAssumption == MaxCalls \in Nat

VARIABLES
    jobOutbox,    \* undelivered processing_outbox rows, by job
    dispatching,  \* an API process is in dispatch_pending
    calls         \* retry, requeue and redrive calls made

apiVars == <<jobOutbox, dispatching, calls>>

ApiTypeOK ==
    /\ jobOutbox \in [Jobs -> Nat]
    /\ dispatching \in BOOLEAN
    /\ calls \in Nat

ApiInit ==
    /\ jobOutbox = [j \in Jobs |-> 0]
    /\ dispatching = FALSE
    /\ calls = 0

Call == calls < MaxCalls /\ calls' = calls + 1

\* enqueue_outbox, in the caller's transaction, and dispatch_pending after it
EnqueueOutbox(j) ==
    /\ jobOutbox' = [jobOutbox EXCEPT ![j] = @ + 1]
    /\ dispatching' = TRUE

-----------------------------------------------------------------------------
\* submit(): the job of an idempotency key the agreement has not seen.  The
\* idempotent replay of a submission changes nothing.
Submit(j) ==
    /\ AgreementRowFree
    /\ ~ tombstoned
    /\ job[j].state = "absent"
    /\ job' = [job EXCEPT ![j] = [state |-> "queued", attempt |-> 0,
                                  live |-> FALSE, retryable |-> FALSE]]
    /\ EnqueueOutbox(j)
    /\ UNCHANGED <<tombstoned, rowLock, intent, artifacts, objects, queueVars,
                   workerVars, faults, calls>>
    /\ KeepDeletion

\* retry(): a failed job whose failure was transient; attempts are kept.
Retry(j) ==
    /\ Call
    /\ AgreementRowFree
    /\ ~ tombstoned
    /\ job[j].state = "failed" /\ job[j].retryable
    /\ job' = [job EXCEPT ![j].state = "queued", ![j].retryable = FALSE]
    /\ EnqueueOutbox(j)
    /\ UNCHANGED <<tombstoned, rowLock, intent, artifacts, objects, queueVars,
                   workerVars, faults>>
    /\ KeepDeletion

\* requeue(): one more message for a queued job; the agreement is not locked.
RequeueJob(j) ==
    /\ Call
    /\ ~ tombstoned
    /\ job[j].state = "queued"
    /\ EnqueueOutbox(j)
    /\ UNCHANGED <<storeVars, queueVars, workerVars, faults>>

-----------------------------------------------------------------------------
\* Mutant of DispatchOne: a row is published without being pending.
DispatchUnchecked(j) ==
    /\ dispatching
    /\ Send(j)
    /\ jobOutbox' = [jobOutbox EXCEPT ![j] = @ - 1]
    /\ UNCHANGED <<storeVars, workerVars, faults, dispatching, calls>>

\* dispatch_pending: publish a pending row, commit it as delivered.
DispatchOne(j) ==
    /\ dispatching
    /\ jobOutbox[j] > 0
    /\ Send(j)
    /\ jobOutbox' = [jobOutbox EXCEPT ![j] = @ - 1]
    /\ UNCHANGED <<storeVars, workerVars, faults, dispatching, calls>>

\* publish raises, or the process dies before (or after) it: the loop ends
\* and the row stays pending.
DispatchFails(j) ==
    /\ dispatching
    /\ jobOutbox[j] > 0
    /\ Fault
    /\ Send(j) \/ UNCHANGED queueVars
    /\ dispatching' = FALSE
    /\ UNCHANGED <<storeVars, workerVars, jobOutbox, calls>>

DispatchDone ==
    /\ dispatching
    /\ \A j \in Jobs : jobOutbox[j] = 0
    /\ dispatching' = FALSE
    /\ UNCHANGED <<storeVars, queueVars, workerVars, faults, jobOutbox, calls>>

-----------------------------------------------------------------------------
\* Mutant of KnownKeys: intents are not consulted.
KnownArtifactKeys == {KeyOf[j] : j \in artifacts}

\* deletion_objects(): the keys of artifact rows and of artifact intents.
KnownKeys == {KeyOf[j] : j \in artifacts \cup {i \in Jobs : intent[i] # "none"}}

\* accept_deletion(): inventory, request, outbox row and tombstone commit
\* together under the agreement row lock.
AcceptDeletion ==
    /\ AgreementRowFree
    /\ ~ tombstoned
    /\ tombstoned' = TRUE
    /\ inventory' = [k \in Keys |-> IF k \in KnownKeys THEN "pending" ELSE "none"]
    /\ deletion' = [state |-> "accepted", cycle |-> 1, attempt |-> 0,
                    live |-> FALSE, due |-> TRUE]
    /\ deletionOutbox' = WaitingOutbox
    /\ UNCHANGED <<rowLock, job, intent, artifacts, objects, queueVars,
                   workerVars, faults, apiVars>>

\* redrive_deletion(): deleting the agreement again after a failed request.
RedriveDeletion ==
    /\ Call
    /\ deletion.state = "failed"
    /\ deletion' = [state |-> "accepted", cycle |-> deletion.cycle + 1,
                    attempt |-> 0, live |-> FALSE, due |-> TRUE]
    /\ deletionOutbox' = IF deletionOutbox.state = "none"
                         THEN deletionOutbox ELSE WaitingOutbox
    /\ UNCHANGED <<tombstoned, rowLock, job, intent, artifacts, objects,
                   inventory, queueVars, workerVars, faults, jobOutbox, dispatching>>

ApiStep ==
    \/ \E j \in Jobs : Submit(j) \/ Retry(j) \/ RequeueJob(j) \/ DispatchOne(j)
    \/ DispatchDone \/ AcceptDeletion \/ RedriveDeletion
=============================================================================
