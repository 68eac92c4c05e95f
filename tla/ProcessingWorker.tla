-------------------------- MODULE ProcessingWorker --------------------------
(***************************************************************************)
(* JobProcessor.handle and the transactions of                             *)
(* SQLAlchemyProcessingJobRepository it runs, for the profiles that reserve *)
(* a durable artifact intent (document analysis, version comparison).      *)
(*                                                                         *)
(*   claim -> expect -> prepare -> commit -> put -> finish -> ack          *)
(*                           \-> requeue -> enqueue -> ack                 *)
(*                            \-> fail -> ack                              *)
(*                                                                         *)
(* commit_prepared is three steps, because its transaction stays open, with *)
(* the agreement row locked, while it writes the object to S3: "commit" has *)
(* the checks made under the lock, "put" the write, "finish" the rest of    *)
(* the transaction and its COMMIT.                                         *)
(***************************************************************************)
EXTENDS WorkerProcess

CONSTANTS
    MaxAttempts,    \* RetryPolicy.max_attempts
    LatePuts        \* whether a write to S3 may outlast the claim lease it
                    \* was started under (14 minutes, see README, "Time")

ASSUME ProcessingAssumption ==
    /\ MaxAttempts \in Nat \ {0}
    /\ LatePuts \in BOOLEAN

vJob(w) == claimed[w].job

\* _owns_claim
OwnsClaim(w) ==
    /\ job[vJob(w)].state = "processing"
    /\ job[vJob(w)].attempt = claimed[w].attempt

\* _has_live_claim
HasLiveClaim(j) == job[j].state = "processing" /\ job[j].live

Released(row, s, retryable) ==
    [row EXCEPT !.state = s, !.live = FALSE, !.retryable = retryable]

-----------------------------------------------------------------------------
\* Mutant of ClaimRaises: return instead, which acknowledges the message.
ClaimGivesUp(w, m, j) ==
    /\ HasLiveClaim(j)
    /\ tombstoned \/ j \notin artifacts
    /\ TakeMessage(w, m, m.id) /\ Goto(w, "ack")
    /\ UNCHANGED <<job, intent, claimed>> /\ KeepDeletion

\* claim() and what handle() makes of it: raise while the lease is held,
\* return (and acknowledge) when there is nothing to do, else start work.
ClaimRaises(w, m, j) ==
    /\ HasLiveClaim(j)
    /\ tombstoned \/ j \notin artifacts
    /\ TakeMessage(w, m, None)
    /\ UNCHANGED <<job, intent, pc, claimed>> /\ KeepDeletion

ClaimFindsDeletion(w, m, j) ==
    /\ tombstoned
    /\ ~ HasLiveClaim(j)
    /\ ReconcileIntentIfAny(j)
    /\ TakeMessage(w, m, m.id) /\ Goto(w, "ack")
    /\ UNCHANGED <<job, claimed>>

ClaimFindsArtifact(w, m, j) ==
    /\ ~ tombstoned
    /\ j \in artifacts
    /\ job' = [job EXCEPT ![j] = Released(@, "completed", FALSE)]
    /\ TakeMessage(w, m, m.id) /\ Goto(w, "ack")
    /\ UNCHANGED <<intent, claimed>> /\ KeepDeletion

ClaimSucceeds(w, m, j) ==
    /\ ~ tombstoned
    /\ j \notin artifacts
    /\ \/ job[j].state = "queued"
       \/ job[j].state = "processing" /\ ~ HasLiveClaim(j)
    /\ job' = [job EXCEPT ![j] =
                 [state |-> "processing", attempt |-> @.attempt + 1,
                  live |-> TRUE, retryable |-> FALSE]]
    /\ claimed' = [claimed EXCEPT ![w] = [job |-> j, attempt |-> job[j].attempt + 1]]
    /\ TakeMessage(w, m, m.id) /\ Goto(w, "expect")
    /\ UNCHANGED intent /\ KeepDeletion

ClaimFindsNothing(w, m, j) ==
    /\ ~ tombstoned
    /\ j \notin artifacts
    /\ job[j].state \notin {"queued", "processing"}
    /\ TakeMessage(w, m, m.id) /\ Goto(w, "ack")
    /\ UNCHANGED <<job, intent, claimed>> /\ KeepDeletion

Claim(w, m) ==
    /\ m.subject \in Jobs
    /\ AgreementRowFree
    /\ \/ ClaimRaises(w, m, m.subject)
       \/ ClaimFindsDeletion(w, m, m.subject)
       \/ ClaimFindsArtifact(w, m, m.subject)
       \/ ClaimSucceeds(w, m, m.subject)
       \/ ClaimFindsNothing(w, m, m.subject)
    /\ UNCHANGED <<tombstoned, rowLock, artifacts, objects, erasing, todo,
                   target, faults>>

\* A transient error retries while attempts remain (_handle_transient_failure).
OnTransientError(w) ==
    Goto(w, IF claimed[w].attempt < MaxAttempts THEN "requeue" ELSE "exhausted")

-----------------------------------------------------------------------------
\* expect(): reserve the artifact key in a durable intent before any work.
ExpectRefused(w) ==
    /\ ~ OwnsClaim(w)
    /\ Goto(w, "ack")
    /\ UNCHANGED intent /\ KeepDeletion

\* The intent row is inserted and reconciled in one transaction: it is gone.
ExpectFindsDeletion(w) ==
    /\ OwnsClaim(w)
    /\ tombstoned
    /\ ReconcileIntent(vJob(w))
    /\ Goto(w, "ack")

ExpectReserves(w) ==
    /\ OwnsClaim(w)
    /\ ~ tombstoned
    /\ intent' = [intent EXCEPT ![vJob(w)] = "expected"]
    /\ Goto(w, "prepare")
    /\ KeepDeletion

Expect(w) ==
    /\ pc[w] = "expect"
    /\ AgreementRowFree
    /\ ExpectRefused(w) \/ ExpectFindsDeletion(w) \/ ExpectReserves(w)
    /\ UNCHANGED <<tombstoned, rowLock, job, artifacts, objects, queueVars,
                   receipt, claimed, erasing, todo, target, faults>>

\* The database fails before expect() commits.
ExpectFails(w) ==
    /\ pc[w] = "expect"
    /\ Fault
    /\ OnTransientError(w)
    /\ UNCHANGED <<storeVars, queueVars, receipt, claimed, erasing, todo, target>>

-----------------------------------------------------------------------------
\* prepare() reads the source and computes the artifact; it writes nothing.
Prepare(w) ==
    /\ pc[w] = "prepare"
    /\ \/ Goto(w, "commit")
       \/ OnTransientError(w)
       \/ Goto(w, "fail")
    /\ UNCHANGED <<storeVars, queueVars, receipt, claimed, erasing, todo, target, faults>>

-----------------------------------------------------------------------------
\* The checks of commit_prepared, under the agreement row lock.
CommitAfterPurge(w) ==
    /\ job[vJob(w)].state = "absent"
    /\ InventoryIfDeleted(KeyOf[vJob(w)])
    /\ Goto(w, "ack")
    /\ UNCHANGED <<rowLock, intent, receipt, claimed, erasing, todo, target>>

CommitStale(w) ==
    /\ job[vJob(w)].state # "absent"
    /\ ~ OwnsClaim(w)
    /\ InventoryIfDeleted(KeyOf[vJob(w)])
    /\ \/ /\ tombstoned
          /\ Goto(w, "ack")
          /\ UNCHANGED <<receipt, claimed, erasing, todo, target>>
       \/ ~ tombstoned /\ Forget(w)
    /\ UNCHANGED <<rowLock, intent>>

CommitWithoutIntent(w) ==
    /\ OwnsClaim(w)
    /\ intent[vJob(w)] # "expected"
    /\ OnTransientError(w)
    /\ UNCHANGED <<rowLock, intent, receipt, claimed, erasing, todo, target>>
    /\ KeepDeletion

CommitFindsDeletion(w) ==
    /\ OwnsClaim(w)
    /\ intent[vJob(w)] = "expected"
    /\ tombstoned
    /\ ReconcileIntent(vJob(w))
    /\ Goto(w, "ack")
    /\ UNCHANGED <<rowLock, receipt, claimed, erasing, todo, target>>

CommitGoesOn(w) ==
    /\ OwnsClaim(w)
    /\ intent[vJob(w)] = "expected"
    /\ ~ tombstoned
    /\ rowLock' = w
    /\ Goto(w, "put")
    /\ UNCHANGED <<intent, receipt, claimed, erasing, todo, target>> /\ KeepDeletion

CommitPrepared(w) ==
    /\ pc[w] = "commit"
    /\ AgreementRowFree
    /\ \/ CommitAfterPurge(w)
       \/ CommitStale(w)
       \/ CommitWithoutIntent(w)
       \/ CommitFindsDeletion(w)
       \/ CommitGoesOn(w)
    /\ UNCHANGED <<tombstoned, job, artifacts, objects, queueVars, faults>>

\* write_or_read_canonical: create the object, or find it already there.
PutArtifact(w) ==
    /\ pc[w] = "put"
    /\ objects' = objects \cup {KeyOf[vJob(w)]}
    /\ Goto(w, "finish")
    /\ UNCHANGED <<tombstoned, rowLock, job, intent, artifacts, queueVars,
                   receipt, claimed, erasing, todo, target, faults>>
    /\ KeepDeletion

\* Mutant of PutFails: the error is swallowed and the commit goes on.
PutFailsUnnoticed(w) ==
    /\ pc[w] = "put"
    /\ Fault
    /\ objects' \in {objects, objects \cup {KeyOf[vJob(w)]}}
    /\ Goto(w, "finish")
    /\ UNCHANGED <<tombstoned, rowLock, job, intent, artifacts, queueVars,
                   receipt, claimed, erasing, todo, target>>
    /\ KeepDeletion

\* The call to S3 raises, with or without having created the object; the
\* transaction is rolled back.
PutFails(w) ==
    /\ pc[w] = "put"
    /\ Fault
    /\ objects' \in {objects, objects \cup {KeyOf[vJob(w)]}}
    /\ rowLock' = IF rowLock = w THEN None ELSE rowLock
    /\ OnTransientError(w)
    /\ UNCHANGED <<tombstoned, job, intent, artifacts, queueVars,
                   receipt, claimed, erasing, todo, target>>
    /\ KeepDeletion

\* finalize, the artifact row, the terminal job state, the end of the intent.
FinishCommit(w) ==
    /\ pc[w] = "finish"
    /\ rowLock = w
    /\ artifacts' = artifacts \cup {vJob(w)}
    /\ job' = [job EXCEPT ![vJob(w)] = Released(@, "completed", FALSE)]
    /\ intent' = [intent EXCEPT ![vJob(w)] = "none"]
    /\ rowLock' = None
    /\ Goto(w, "ack")
    /\ UNCHANGED <<tombstoned, objects, queueVars, receipt, claimed, erasing,
                   todo, target, faults>>
    /\ KeepDeletion

\* The database connection dies while S3 is being called: the server rolls
\* back and frees the row, the worker does not know yet.  commit_prepared
\* compares claim tokens and not lease expiry, so the lease may be over.
ConnectionLost(w) ==
    /\ rowLock = w
    /\ LatePuts \/ HasLiveClaim(vJob(w))
    /\ Fault
    /\ rowLock' = None
    /\ UNCHANGED <<tombstoned, job, intent, artifacts, objects, queueVars, workerVars>>
    /\ KeepDeletion

\* ... and finds out at its next statement.
FinishFails(w) ==
    /\ pc[w] = "finish"
    /\ rowLock # w
    /\ OnTransientError(w)
    /\ UNCHANGED <<storeVars, queueVars, receipt, claimed, erasing, todo, target, faults>>

-----------------------------------------------------------------------------
\* _inventory_failed_artifact_after_purge, reached when the job row is gone.
\* The row is first read without a lock; if it was purged after that read,
\* requeue() and fail() return without inventorying anything.
SettleAfterPurge(w) ==
    /\ job[vJob(w)].state = "absent"
    /\ \/ tombstoned /\ InventoryLateArtifact(KeyOf[vJob(w)])
       \/ KeepDeletion
    /\ Goto(w, "ack")
    /\ UNCHANGED <<job, intent>>

\* requeue()
RequeueFindsDeletion(w) ==
    /\ job[vJob(w)].state # "absent"
    /\ tombstoned
    /\ InventoryLateArtifact(KeyOf[vJob(w)])
    /\ intent' = IF OwnsClaim(w) THEN [intent EXCEPT ![vJob(w)] = "none"] ELSE intent
    /\ Goto(w, "ack")
    /\ UNCHANGED job

RequeueRefused(w) ==
    /\ job[vJob(w)].state # "absent"
    /\ ~ tombstoned
    /\ ~ OwnsClaim(w)
    /\ Goto(w, "ack")
    /\ UNCHANGED <<job, intent>> /\ KeepDeletion

\* Mutant of RequeueReleases: the job is released, no message is sent.
RequeueForgets(w) ==
    /\ ~ tombstoned
    /\ OwnsClaim(w)
    /\ job' = [job EXCEPT ![vJob(w)] = Released(@, "queued", FALSE)]
    /\ Goto(w, "ack")
    /\ UNCHANGED intent /\ KeepDeletion

RequeueReleases(w) ==
    /\ ~ tombstoned
    /\ OwnsClaim(w)
    /\ job' = [job EXCEPT ![vJob(w)] = Released(@, "queued", FALSE)]
    /\ Goto(w, "enqueue")
    /\ UNCHANGED intent /\ KeepDeletion

Requeue(w) ==
    /\ pc[w] = "requeue"
    /\ AgreementRowFree
    /\ \/ SettleAfterPurge(w)
       \/ RequeueFindsDeletion(w)
       \/ RequeueRefused(w)
       \/ RequeueReleases(w)
    /\ UNCHANGED <<tombstoned, rowLock, artifacts, objects, queueVars,
                   receipt, claimed, erasing, todo, target, faults>>

\* queue.enqueue, after the transaction that released the job committed.
Enqueue(w) ==
    /\ pc[w] = "enqueue"
    /\ Send(vJob(w))
    /\ Goto(w, "ack")
    /\ UNCHANGED <<storeVars, receipt, claimed, erasing, todo, target, faults>>

-----------------------------------------------------------------------------
\* fail(), with category "transient_exhausted" or a permanent one
FailRefused(w) ==
    /\ job[vJob(w)].state # "absent"
    /\ ~ OwnsClaim(w)
    /\ InventoryIfDeleted(KeyOf[vJob(w)])
    /\ UNCHANGED <<job, intent>>

\* Mutant of FailSettles: the claim token is not compared.
FailSettlesUnchecked(w) ==
    /\ job[vJob(w)].state # "absent"
    /\ \/ tombstoned /\ ReconcileIntentIfAny(vJob(w))
       \/ /\ ~ tombstoned
          /\ intent' = [intent EXCEPT ![vJob(w)] = IF @ = "none" THEN @ ELSE "settled"]
          /\ KeepDeletion
    /\ job' = [job EXCEPT ![vJob(w)] = Released(@, "failed", pc[w] = "exhausted")]

FailSettles(w) ==
    /\ OwnsClaim(w)
    /\ \/ tombstoned /\ ReconcileIntentIfAny(vJob(w))
       \/ /\ ~ tombstoned
          /\ intent' = [intent EXCEPT ![vJob(w)] = IF @ = "none" THEN @ ELSE "settled"]
          /\ KeepDeletion
    /\ job' = [job EXCEPT ![vJob(w)] = Released(@, "failed", pc[w] = "exhausted")]

Fail(w) ==
    /\ pc[w] \in {"fail", "exhausted"}
    /\ AgreementRowFree
    /\ \/ SettleAfterPurge(w)
       \/ (FailRefused(w) \/ FailSettles(w)) /\ Goto(w, "ack")
    /\ UNCHANGED <<tombstoned, rowLock, artifacts, objects, queueVars,
                   receipt, claimed, erasing, todo, target, faults>>

-----------------------------------------------------------------------------
Owner(w, j) ==
    /\ claimed[w] # None
    /\ claimed[w] = [job |-> j, attempt |-> job[j].attempt]

\* The claim lease of j runs out: its owner died, or is slow (a fault).
ExpireClaim(j) ==
    /\ HasLiveClaim(j)
    /\ LatePuts \/ \A w \in Workers : Owner(w, j) => pc[w] # "put"
    /\ IF \E w \in Workers : Owner(w, j) THEN Fault ELSE UNCHANGED faults
    /\ job' = [job EXCEPT ![j].live = FALSE]
    /\ UNCHANGED <<tombstoned, rowLock, intent, artifacts, objects, queueVars,
                   workerVars>>
    /\ KeepDeletion

\* The steps of one worker's handler.
ProcessingStep(w) ==
    \/ Expect(w) \/ Prepare(w) \/ CommitPrepared(w)
    \/ PutArtifact(w) \/ FinishCommit(w) \/ FinishFails(w)
    \/ Requeue(w) \/ Enqueue(w) \/ Fail(w)

ProcessingFault(w) == ExpectFails(w) \/ PutFails(w) \/ ConnectionLost(w)
=============================================================================
