------------------------- MODULE DeletionProcessor -------------------------
(***************************************************************************)
(* Durable deletion of an agreement, as the worker does it:                *)
(* AgreementDeletionProcessor.handle with the transactions of              *)
(* SQLAlchemyAgreementDeletionRepository, and the outbox sweeper.          *)
(*                                                                         *)
(*   claim -> list -> erase -> mark -> erase ... -> purge -> ack           *)
(*                      \-> ack                        \-> purge_failed   *)
(*                                                            -> ack       *)
(***************************************************************************)
EXTENDS WorkerProcess

CONSTANT MaxDeletionAttempts    \* DeletionRetryPolicy.max_attempts

ASSUME DeletionAssumption == MaxDeletionAttempts \in Nat \ {0}

VARIABLE sweeping   \* the step each sweeper is at after it leased the outbox

SweeperTypeOK == sweeping \in [Sweepers -> {"idle", "publish", "mark"}]
SweeperInit == sweeping = [s \in Sweepers |-> "idle"]

\* _claim_is_current and _locked_claim
ClaimIsCurrent(w) ==
    /\ deletion.state = "processing"
    /\ erasing[w] = [cycle |-> deletion.cycle, attempt |-> deletion.attempt]

PendingKeys == {k \in Keys : inventory[k] = "pending"}

-----------------------------------------------------------------------------
\* claim(): otherwise the message is acknowledged without work.
CanClaimDeletion ==
    /\ deletion.due
    /\ \/ deletion.state \in {"accepted", "retrying"}
       \/ deletion.state = "processing" /\ ~ deletion.live

DeletionClaimSucceeds(w) ==
    /\ CanClaimDeletion
    /\ deletion' = [deletion EXCEPT !.state = "processing", !.live = TRUE,
                                    !.attempt = @ + 1]
    /\ erasing' = [erasing EXCEPT ![w] =
                     [cycle |-> deletion.cycle, attempt |-> deletion.attempt + 1]]
    /\ Goto(w, "list")

DeletionClaimRefused(w) ==
    /\ ~ CanClaimDeletion
    /\ Goto(w, "ack")
    /\ UNCHANGED <<deletion, erasing>>

ClaimDeletion(w, m) ==
    /\ m.subject = Erasure
    /\ TakeMessage(w, m, m.id)
    /\ DeletionClaimSucceeds(w) \/ DeletionClaimRefused(w)
    /\ UNCHANGED <<tombstoned, rowLock, job, intent, artifacts, objects,
                   inventory, deletionOutbox, claimed, todo, target, faults,
                   sweeping>>

\* The loop over the listed objects: the next one, or the purge.
AfterItem(items) == IF items = {} THEN "purge" ELSE "erase"

\* pending_objects()
ListPending(w) ==
    /\ pc[w] = "list"
    /\ LET pending == IF ClaimIsCurrent(w) THEN PendingKeys ELSE {}
       IN  /\ todo' = [todo EXCEPT ![w] = pending]
           /\ Goto(w, AfterItem(pending))
    /\ UNCHANGED <<storeVars, queueVars, receipt, claimed, erasing, target, faults, sweeping>>

\* The S3 delete of one listed object, outside any transaction.
EraseObject(w) ==
    /\ pc[w] = "erase"
    /\ \E k \in todo[w] :
         /\ objects' = objects \ {k}
         /\ todo' = [todo EXCEPT ![w] = @ \ {k}]
         /\ target' = [target EXCEPT ![w] = k]
    /\ Goto(w, "mark")
    /\ UNCHANGED <<tombstoned, rowLock, job, intent, artifacts, deletion,
                   inventory, deletionOutbox, queueVars, receipt, claimed,
                   erasing, faults, sweeping>>

\* mark_deleted(): raises when the claim was lost in the meantime; otherwise
\* _finish_object, which also extends the lease.
FinishObject(w) ==
    /\ ClaimIsCurrent(w)
    /\ inventory' = [inventory EXCEPT ![target[w]] =
                       IF @ = "pending" THEN "deleted" ELSE @]
    /\ deletion' = [deletion EXCEPT !.live = TRUE]
    /\ target' = [target EXCEPT ![w] = None]
    /\ Goto(w, AfterItem(todo[w]))
    /\ UNCHANGED <<receipt, claimed, erasing, todo>>

MarkRaises(w) ==
    /\ ~ ClaimIsCurrent(w)
    /\ Forget(w)
    /\ UNCHANGED <<inventory, deletion>>

MarkDeleted(w) ==
    /\ pc[w] = "mark"
    /\ FinishObject(w) \/ MarkRaises(w)
    /\ UNCHANGED <<tombstoned, rowLock, job, intent, artifacts, objects,
                   deletionOutbox, queueVars, faults, sweeping>>

-----------------------------------------------------------------------------
\* retry(), fail(), retry_database_cleanup(), fail_database_cleanup(): the
\* claim is released, the outbox row made due again with the next attempt.
AfterFailedAttempt ==
    IF deletion.attempt < MaxDeletionAttempts
    THEN [deletion EXCEPT !.state = "retrying", !.live = FALSE, !.due = FALSE]
    ELSE [deletion EXCEPT !.state = "failed", !.live = FALSE]

\* Mutant of ReleaseForRetry: the outbox row is left as it is.
ReleaseWithoutOutbox(w) ==
    /\ deletion' = IF ClaimIsCurrent(w) THEN AfterFailedAttempt ELSE deletion
    /\ UNCHANGED deletionOutbox

ReleaseForRetry(w) ==
    \/ /\ ClaimIsCurrent(w)
       /\ deletion' = AfterFailedAttempt
       /\ deletionOutbox' = WaitingOutbox
    \/ /\ ~ ClaimIsCurrent(w)
       /\ UNCHANGED <<deletion, deletionOutbox>>

\* The S3 delete raises (ObjectCleanupError).
EraseFails(w) ==
    /\ pc[w] = "erase"
    /\ Fault
    /\ ReleaseForRetry(w)
    /\ Goto(w, "ack")
    /\ UNCHANGED <<tombstoned, rowLock, job, intent, artifacts, objects,
                   inventory, queueVars, receipt, claimed, erasing, todo,
                   target, sweeping>>

\* Mutant of UnresolvedIntent: only intents of failed jobs hold the purge up.
UnresolvedSettledIntent(j) == intent[j] = "settled" /\ inventory[KeyOf[j]] # "deleted"

\* The two conditions complete_and_purge raises on.
UnresolvedIntent(j) ==
    \/ intent[j] = "expected"
    \/ intent[j] = "settled" /\ inventory[KeyOf[j]] # "deleted"

PurgeIsBlocked == PendingKeys # {} \/ \E j \in Jobs : UnresolvedIntent(j)

\* _purge_owned_rows and the terminal state of the request.  It deletes the
\* rows of processing_outbox too: PurgeOutbox, in AgreementErasure.
PurgeRows(w) ==
    /\ ClaimIsCurrent(w)
    /\ ~ PurgeIsBlocked
    /\ job' = [j \in Jobs |-> [job[j] EXCEPT !.state = "absent", !.live = FALSE]]
    /\ intent' = [j \in Jobs |-> "none"]
    /\ artifacts' = {}
    /\ inventory' = [k \in Keys |-> "none"]
    /\ deletionOutbox' = [state |-> "none", owner |-> None]
    /\ deletion' = [deletion EXCEPT !.state = "completed", !.live = FALSE]
    /\ Goto(w, "ack")

PurgeRefused(w) ==
    /\ \/ ~ ClaimIsCurrent(w) /\ Goto(w, "ack")
       \/ ClaimIsCurrent(w) /\ PurgeIsBlocked /\ Goto(w, "purge_failed")
    /\ UNCHANGED <<job, intent, artifacts>> /\ KeepDeletion

CompleteAndPurge(w) ==
    /\ pc[w] = "purge"
    /\ AgreementRowFree
    /\ PurgeRows(w) \/ PurgeRefused(w)
    /\ UNCHANGED <<tombstoned, rowLock, objects, queueVars, receipt, claimed,
                   erasing, todo, target, faults, sweeping>>

\* The database fails before the purge commits.
PurgeRaises(w) ==
    /\ pc[w] = "purge"
    /\ Fault
    /\ Goto(w, "purge_failed")
    /\ UNCHANGED <<storeVars, queueVars, receipt, claimed, erasing, todo, target,
                   sweeping>>

PurgeFailed(w) ==
    /\ pc[w] = "purge_failed"
    /\ ReleaseForRetry(w)
    /\ Goto(w, "ack")
    /\ UNCHANGED <<tombstoned, rowLock, job, intent, artifacts, objects,
                   inventory, queueVars, receipt, claimed, erasing, todo,
                   target, faults, sweeping>>

-----------------------------------------------------------------------------
\* The lease runs out: its owner died, or is slow (a fault).
ExpireDeletionClaim ==
    /\ deletion.state = "processing" /\ deletion.live
    /\ IF \E w \in Workers : ClaimIsCurrent(w) THEN Fault ELSE UNCHANGED faults
    /\ deletion' = [deletion EXCEPT !.live = FALSE]
    /\ UNCHANGED <<tombstoned, rowLock, job, intent, artifacts, objects,
                   inventory, deletionOutbox, queueVars, workerVars, sweeping>>

\* The back-off of a retry passes.
DeletionComesDue ==
    /\ deletion.state # "none" /\ ~ deletion.due
    /\ deletion' = [deletion EXCEPT !.due = TRUE]
    /\ UNCHANGED <<tombstoned, rowLock, job, intent, artifacts, objects,
                   inventory, deletionOutbox, queueVars, workerVars, faults, sweeping>>

-----------------------------------------------------------------------------
\* sweep_once(): recover_stale_deletions, then claim, publish and mark each
\* due outbox row.
RecoverStaleDeletion(s) ==
    /\ sweeping[s] = "idle"
    /\ deletion.state = "processing" /\ ~ deletion.live
    /\ deletion' = [deletion EXCEPT !.state = "retrying", !.due = TRUE]
    /\ deletionOutbox' = WaitingOutbox
    /\ UNCHANGED <<tombstoned, rowLock, job, intent, artifacts, objects,
                   inventory, queueVars, workerVars, faults, sweeping>>

Sweep(s, from, to) ==
    /\ sweeping[s] = from
    /\ sweeping' = [sweeping EXCEPT ![s] = to]

ClaimDueOutbox(s) ==
    /\ Sweep(s, "idle", "publish")
    /\ deletionOutbox.state \in {"waiting", "expired"}
    /\ deletion.state \in {"accepted", "retrying"} /\ deletion.due
    /\ deletionOutbox' = [state |-> "leased", owner |-> s]
    /\ UNCHANGED <<tombstoned, rowLock, job, intent, artifacts, objects,
                   inventory, deletion, queueVars, workerVars, faults>>

PublishDeletion(s) ==
    /\ Sweep(s, "publish", "mark")
    /\ Send(Erasure)
    /\ UNCHANGED <<storeVars, workerVars, faults>>

\* enqueue_deletion raises: release_outbox, if the lease is still this one.
PublishFails(s) ==
    /\ Sweep(s, "publish", "idle")
    /\ Fault
    /\ deletionOutbox' =
         IF deletionOutbox.owner = s THEN WaitingOutbox ELSE deletionOutbox
    /\ UNCHANGED <<tombstoned, rowLock, job, intent, artifacts, objects,
                   inventory, deletion, queueVars, workerVars>>

\* Mutant of MarkOutboxDelivered: the lease token is not compared.
MarkOutboxUnchecked(s) ==
    /\ Sweep(s, "mark", "idle")
    /\ deletionOutbox' = [state |-> "delivered", owner |-> None]
    /\ UNCHANGED <<tombstoned, rowLock, job, intent, artifacts, objects,
                   inventory, deletion, queueVars, workerVars, faults>>

MarkOutboxDelivered(s) ==
    /\ Sweep(s, "mark", "idle")
    /\ deletionOutbox' =
         IF deletionOutbox.owner = s
         THEN [state |-> "delivered", owner |-> None]
         ELSE deletionOutbox
    /\ UNCHANGED <<tombstoned, rowLock, job, intent, artifacts, objects,
                   inventory, deletion, queueVars, workerVars, faults>>

SweeperCrash(s) ==
    /\ sweeping[s] # "idle"
    /\ Fault
    /\ sweeping' = [sweeping EXCEPT ![s] = "idle"]
    /\ UNCHANGED <<storeVars, queueVars, workerVars>>

ExpireOutboxLease ==
    /\ deletionOutbox.state = "leased"
    /\ IF sweeping[deletionOutbox.owner] # "idle" THEN Fault ELSE UNCHANGED faults
    /\ deletionOutbox' = [deletionOutbox EXCEPT !.state = "expired"]
    /\ UNCHANGED <<tombstoned, rowLock, job, intent, artifacts, objects,
                   inventory, deletion, queueVars, workerVars, sweeping>>

-----------------------------------------------------------------------------
\* The steps of one worker's handler (and CompleteAndPurge), and of a sweeper.
DeletionStep(w) ==
    \/ ListPending(w) \/ EraseObject(w) \/ MarkDeleted(w) \/ PurgeFailed(w)

SweeperStep(s) ==
    \/ RecoverStaleDeletion(s) \/ ClaimDueOutbox(s) \/ PublishDeletion(s)
    \/ MarkOutboxDelivered(s)
=============================================================================
