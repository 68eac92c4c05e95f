----------------------- MODULE AgreementErasure_proofs -----------------------
(***************************************************************************)
(* Type correctness of the composed system, and its inductive invariant:   *)
(* NoOrphanObject and CompletedIsErased hold for any number of jobs, keys, *)
(* workers, sweepers, attempts and faults, if no write to S3 outlasts its  *)
(* claim lease.                                                            *)
(*                                                                         *)
(* Nearly every step is a SafeMove: a step that keeps what other handlers  *)
(* rely on.  SafeMoveKeepsCore shows once that such a step preserves the   *)
(* invariant; the eight steps that are not have a lemma each.              *)
(***************************************************************************)
EXTENDS ErasureInvariant, TLAPS

(* ------------------------------- Types --------------------------------- *)

\* The variables start in their types.
LEMMA TypeInit == Init => TypeOK
<1> SUFFICES ASSUME Init PROVE TypeOK
  OBVIOUS
<1>1. StoreTypeOK
  BY StoreAssumption
  DEF Init, StoreInit, StoreTypeOK, JobStates, JobRow, DeletionStates,
      DeletionRow, OutboxStates, OutboxRow
<1>2. QueueTypeOK
  BY DEF Init, QueueInit, QueueTypeOK
<1>3. WorkerTypeOK
  BY DEF Init, WorkerInit, WorkerTypeOK, ProcessingSteps
<1>4. SweeperTypeOK /\ ApiTypeOK
  BY DEF Init, SweeperInit, ApiInit, SweeperTypeOK, ApiTypeOK
<1> QED
  BY <1>1, <1>2, <1>3, <1>4 DEF TypeOK

\* The types of what the late-artifact helpers and the claim helpers write.
LEMMA LateArtifactType ==
  ASSUME TypeOK, NEW k \in Keys, InventoryLateArtifact(k)
  PROVE  /\ inventory' \in [Keys -> {"none", "pending", "deleted"}]
         /\ deletion' \in DeletionRow
         /\ deletionOutbox' \in OutboxRow
BY DEF TypeOK, StoreTypeOK, InventoryLateArtifact, ReopenedDeletion, WaitingOutbox,
       DeletionRow, DeletionStates, OutboxRow, OutboxStates

\* Listing a late artifact and dropping an intent keep the rows well formed.
LEMMA ReconcileType ==
  ASSUME TypeOK, NEW j \in Jobs, ReconcileIntent(j)
  PROVE  /\ inventory' \in [Keys -> {"none", "pending", "deleted"}]
         /\ deletion' \in DeletionRow
         /\ deletionOutbox' \in OutboxRow
         /\ intent' \in [Jobs -> {"none", "expected", "settled"}]
<1>1. KeyOf[j] \in Keys
  BY StoreAssumption
<1>2. InventoryLateArtifact(KeyOf[j])
  BY DEF ReconcileIntent
<1> QED
  BY <1>1, <1>2, LateArtifactType DEF TypeOK, StoreTypeOK, ReconcileIntent

\* A released job row is a job row.
LEMMA ReleasedType ==
  ASSUME NEW row \in JobRow, NEW s \in JobStates, NEW b \in BOOLEAN
  PROVE  Released(row, s, b) \in JobRow
BY DEF Released, JobRow

\* Updating one job row keeps the table well formed.
LEMMA JobUpdateType ==
  ASSUME TypeOK, NEW j \in Jobs, NEW s \in JobStates, NEW b \in BOOLEAN,
         job' = [job EXCEPT ![j] = Released(@, s, b)]
  PROVE  job' \in [Jobs -> JobRow]
BY ReleasedType DEF TypeOK, StoreTypeOK

\* So does the release of a deletion claim.
LEMMA ReleaseForRetryType ==
  ASSUME TypeOK, NEW w \in Workers, ReleaseForRetry(w)
  PROVE  deletion' \in DeletionRow /\ deletionOutbox' \in OutboxRow
<1>1. deletion \in DeletionRow /\ deletionOutbox \in OutboxRow
  BY DEF TypeOK, StoreTypeOK
<1>2. AfterFailedAttempt \in DeletionRow
  BY <1>1 DEF AfterFailedAttempt, DeletionRow, DeletionStates
<1>3. WaitingOutbox \in OutboxRow
  BY DEF WaitingOutbox, OutboxRow, OutboxStates
<1> QED
  BY <1>1, <1>2, <1>3 DEF ReleaseForRetry

\* The handler of a claimed job knows which job it is.
LEMMA ClaimedJob ==
  ASSUME TypeOK, NEW w \in Workers, pc[w] \in ProcessingSteps
  PROVE  vJob(w) \in Jobs /\ KeyOf[vJob(w)] \in Keys
<1>1. claimed[w] \in JobClaim
  BY DEF TypeOK, WorkerTypeOK
<1> QED
  BY <1>1, StoreAssumption DEF vJob, JobClaim

\* What Goto, Forget and TakeMessage make of the worker variables.
LEMMA GotoType ==
  ASSUME TypeOK, NEW w \in Workers,
         NEW step \in {"idle", "ack"} \cup ProcessingSteps \cup DeletionSteps,
         Goto(w, step), step \in ProcessingSteps => pc[w] \in ProcessingSteps,
         step # "mark",
         UNCHANGED <<receipt, claimed, erasing, todo, target, faults>>
  PROVE  WorkerTypeOK'
BY DEF TypeOK, WorkerTypeOK, Goto

\* A handler that forgets its work leaves its memory well formed.
LEMMA ForgetType ==
  ASSUME TypeOK, NEW w \in Workers, Forget(w), faults' \in Nat
  PROVE  WorkerTypeOK'
BY DEF TypeOK, WorkerTypeOK, Forget, ProcessingSteps

\* Receiving a message keeps queue and receipts well formed.
LEMMA TakeMessageType ==
  ASSUME TypeOK, NEW w \in Workers, NEW m \in queue,
         NEW r \in MessageIds \cup {None}, TakeMessage(w, m, r)
  PROVE  QueueTypeOK' /\ receipt' \in [Workers -> MessageIds \cup {None}]
BY QueueAssumption
   DEF TypeOK, QueueTypeOK, WorkerTypeOK, TakeMessage, Deliver, Received, Message

\* Both branches of InventoryIfDeleted keep the rows well formed.
LEMMA InventoryIfDeletedType ==
  ASSUME TypeOK, NEW k \in Keys, InventoryIfDeleted(k)
  PROVE  /\ inventory' \in [Keys -> {"none", "pending", "deleted"}]
         /\ deletion' \in DeletionRow
         /\ deletionOutbox' \in OutboxRow
<1>1. CASE InventoryLateArtifact(k)
  BY <1>1, LateArtifactType
<1>2. CASE KeepDeletion
  BY <1>2 DEF KeepDeletion, TypeOK, StoreTypeOK
<1> QED
  BY <1>1, <1>2 DEF InventoryIfDeleted

\* Both branches of ReconcileIntentIfAny do.
LEMMA ReconcileIfAnyType ==
  ASSUME TypeOK, NEW j \in Jobs, ReconcileIntentIfAny(j)
  PROVE  /\ inventory' \in [Keys -> {"none", "pending", "deleted"}]
         /\ deletion' \in DeletionRow
         /\ deletionOutbox' \in OutboxRow
         /\ intent' \in [Jobs -> {"none", "expected", "settled"}]
<1>1. CASE ReconcileIntent(j)
  BY <1>1, ReconcileType
<1>2. CASE UNCHANGED <<intent, inventory, deletion, deletionOutbox>>
  BY <1>2 DEF TypeOK, StoreTypeOK
<1> QED
  BY <1>1, <1>2 DEF ReconcileIntentIfAny

\* A step that leaves the queue, the sweepers and the API alone.
LEMMA FrameType ==
  ASSUME TypeOK, UNCHANGED <<queueVars, sweeping, apiVars>>,
         StoreTypeOK', WorkerTypeOK'
  PROVE  TypeOK'
BY DEF TypeOK, QueueTypeOK, SweeperTypeOK, ApiTypeOK, queueVars, apiVars

\* expect() keeps the types.
LEMMA ExpectType ==
  ASSUME TypeOK, NEW w \in Workers, Expect(w), UNCHANGED <<sweeping, apiVars>>
  PROVE  TypeOK'
<1>1. pc[w] \in ProcessingSteps
  BY DEF Expect, ProcessingSteps
<1>2. vJob(w) \in Jobs
  BY <1>1, ClaimedJob
<1>3. UNCHANGED <<tombstoned, rowLock, job, artifacts, objects, queueVars,
                  receipt, claimed, erasing, todo, target, faults>>
  BY DEF Expect
<1>4. CASE ExpectRefused(w)
  <2>1. WorkerTypeOK'
    BY <1>3, <1>4, GotoType DEF ExpectRefused, ProcessingSteps
  <2>2. StoreTypeOK'
    BY <1>3, <1>4 DEF ExpectRefused, KeepDeletion, TypeOK, StoreTypeOK
  <2> QED
    BY <1>3, <2>1, <2>2, FrameType
<1>5. CASE ExpectFindsDeletion(w)
  <2>1. WorkerTypeOK'
    BY <1>3, <1>5, GotoType DEF ExpectFindsDeletion, ProcessingSteps
  <2>2. StoreTypeOK'
    BY <1>2, <1>3, <1>5, ReconcileType DEF ExpectFindsDeletion, TypeOK, StoreTypeOK
  <2> QED
    BY <1>3, <2>1, <2>2, FrameType
<1>6. CASE ExpectReserves(w)
  <2>1. WorkerTypeOK'
    BY <1>1, <1>3, <1>6, GotoType DEF ExpectReserves, ProcessingSteps
  <2>2. StoreTypeOK'
    BY <1>3, <1>6 DEF ExpectReserves, KeepDeletion, TypeOK, StoreTypeOK
  <2> QED
    BY <1>3, <2>1, <2>2, FrameType
<1> QED
  BY <1>4, <1>5, <1>6 DEF Expect

\* The checks of commit_prepared() keep the types.
LEMMA CommitPreparedType ==
  ASSUME TypeOK, NEW w \in Workers, CommitPrepared(w), UNCHANGED <<sweeping, apiVars>>
  PROVE  TypeOK'
<1>1. pc[w] \in ProcessingSteps
  BY DEF CommitPrepared, ProcessingSteps
<1>2. vJob(w) \in Jobs /\ KeyOf[vJob(w)] \in Keys
  BY <1>1, ClaimedJob
<1>3. UNCHANGED <<tombstoned, job, artifacts, objects, queueVars, faults>>
  BY DEF CommitPrepared
<1>4. WorkerTypeOK'
  <2>1. CASE Forget(w)
    BY <1>3, <2>1, ForgetType DEF TypeOK, WorkerTypeOK
  <2>2. CASE /\ \E step \in {"ack", "requeue", "exhausted", "put"} : Goto(w, step)
             /\ UNCHANGED <<receipt, claimed, erasing, todo, target>>
    BY <1>1, <1>3, <2>2, GotoType DEF ProcessingSteps
  <2> QED
    BY <2>1, <2>2 DEF CommitPrepared, CommitAfterPurge, CommitStale,
       CommitWithoutIntent, CommitFindsDeletion, CommitGoesOn, OnTransientError
<1>5. StoreTypeOK'
  <2>1. CASE /\ InventoryIfDeleted(KeyOf[vJob(w)])
             /\ UNCHANGED <<rowLock, intent>>
    BY <1>2, <1>3, <2>1, InventoryIfDeletedType DEF TypeOK, StoreTypeOK
  <2>2. CASE ReconcileIntent(vJob(w)) /\ UNCHANGED rowLock
    BY <1>2, <1>3, <2>2, ReconcileType DEF TypeOK, StoreTypeOK
  <2>3. CASE /\ rowLock' \in {rowLock, w}
             /\ UNCHANGED <<intent, deletion, inventory, deletionOutbox>>
    BY <1>3, <2>3 DEF TypeOK, StoreTypeOK
  <2> QED
    BY <2>1, <2>2, <2>3 DEF CommitPrepared, CommitAfterPurge, CommitStale,
       CommitWithoutIntent, CommitFindsDeletion, CommitGoesOn, KeepDeletion
<1> QED
  BY <1>3, <1>4, <1>5, FrameType

\* The end of commit_prepared() keeps the types.
LEMMA FinishCommitType ==
  ASSUME TypeOK, NEW w \in Workers, FinishCommit(w), UNCHANGED <<sweeping, apiVars>>
  PROVE  TypeOK'
<1>1. pc[w] \in ProcessingSteps
  BY DEF FinishCommit, ProcessingSteps
<1>2. vJob(w) \in Jobs
  BY <1>1, ClaimedJob
<1>3. job' \in [Jobs -> JobRow]
  BY <1>2, JobUpdateType DEF FinishCommit, JobStates
<1>4. StoreTypeOK'
  BY <1>2, <1>3 DEF FinishCommit, KeepDeletion, TypeOK, StoreTypeOK
<1>5. WorkerTypeOK'
  BY GotoType DEF FinishCommit, ProcessingSteps
<1> QED
  BY <1>4, <1>5, FrameType DEF FinishCommit

\* requeue() keeps the types.
LEMMA RequeueType ==
  ASSUME TypeOK, NEW w \in Workers, Requeue(w), UNCHANGED <<sweeping, apiVars>>
  PROVE  TypeOK'
<1>1. pc[w] \in ProcessingSteps
  BY DEF Requeue, ProcessingSteps
<1>2. vJob(w) \in Jobs /\ KeyOf[vJob(w)] \in Keys
  BY <1>1, ClaimedJob
<1>3. UNCHANGED <<tombstoned, rowLock, artifacts, objects, queueVars,
                  receipt, claimed, erasing, todo, target, faults>>
  BY DEF Requeue
<1>4. WorkerTypeOK'
  <2>1. \E step \in {"ack", "enqueue"} : Goto(w, step)
    BY DEF Requeue, SettleAfterPurge, RequeueFindsDeletion, RequeueRefused,
       RequeueReleases
  <2> QED
    BY <1>1, <1>3, <2>1, GotoType DEF ProcessingSteps
<1>5. StoreTypeOK'
  <2>1. CASE /\ InventoryLateArtifact(KeyOf[vJob(w)])
             /\ intent' \in {intent, [intent EXCEPT ![vJob(w)] = "none"]}
             /\ UNCHANGED job
    BY <1>2, <1>3, <2>1, LateArtifactType DEF TypeOK, StoreTypeOK
  <2>2. CASE KeepDeletion /\ UNCHANGED <<job, intent>>
    BY <1>3, <2>2 DEF KeepDeletion, TypeOK, StoreTypeOK
  <2>3. CASE RequeueReleases(w)
    <3>1. job' \in [Jobs -> JobRow]
      BY <1>2, <2>3, JobUpdateType DEF RequeueReleases, JobStates
    <3> QED
      BY <1>3, <2>3, <3>1 DEF RequeueReleases, KeepDeletion, TypeOK, StoreTypeOK
  <2> QED
    BY <2>1, <2>2, <2>3 DEF Requeue, SettleAfterPurge, RequeueFindsDeletion,
       RequeueRefused
<1> QED
  BY <1>3, <1>4, <1>5, FrameType

\* fail() keeps the types.
LEMMA FailType ==
  ASSUME TypeOK, NEW w \in Workers, Fail(w), UNCHANGED <<sweeping, apiVars>>
  PROVE  TypeOK'
<1>1. pc[w] \in ProcessingSteps
  BY DEF Fail, ProcessingSteps
<1>2. vJob(w) \in Jobs /\ KeyOf[vJob(w)] \in Keys
  BY <1>1, ClaimedJob
<1>3. UNCHANGED <<tombstoned, rowLock, artifacts, objects, queueVars,
                  receipt, claimed, erasing, todo, target, faults>>
  BY DEF Fail
<1>4. WorkerTypeOK'
  <2>1. Goto(w, "ack")
    BY DEF Fail, SettleAfterPurge
  <2> QED
    BY <1>3, <2>1, GotoType DEF ProcessingSteps
<1>5. StoreTypeOK'
  <2>1. CASE SettleAfterPurge(w)
    <3>1. CASE InventoryLateArtifact(KeyOf[vJob(w)])
      BY <1>2, <1>3, <2>1, <3>1, LateArtifactType
         DEF SettleAfterPurge, TypeOK, StoreTypeOK
    <3>2. CASE KeepDeletion
      BY <1>3, <2>1, <3>2 DEF SettleAfterPurge, KeepDeletion, TypeOK, StoreTypeOK
    <3> QED
      BY <2>1, <3>1, <3>2 DEF SettleAfterPurge
  <2>2. CASE FailRefused(w)
    BY <1>2, <1>3, <2>2, InventoryIfDeletedType DEF FailRefused, TypeOK, StoreTypeOK
  <2>3. CASE FailSettles(w)
    <3>1. job' \in [Jobs -> JobRow]
      BY <1>2, <2>3, JobUpdateType DEF FailSettles, JobStates
    <3>2. CASE ReconcileIntentIfAny(vJob(w))
      BY <1>2, <1>3, <3>1, <3>2, ReconcileIfAnyType DEF TypeOK, StoreTypeOK
    <3>3. CASE /\ intent' = [intent EXCEPT ![vJob(w)] =
                               IF @ = "none" THEN @ ELSE "settled"]
               /\ KeepDeletion
      BY <1>3, <3>1, <3>3 DEF KeepDeletion, TypeOK, StoreTypeOK
    <3> QED
      BY <2>3, <3>2, <3>3 DEF FailSettles
  <2> QED
    BY <2>1, <2>2, <2>3 DEF Fail
<1> QED
  BY <1>3, <1>4, <1>5, FrameType

\* A handler that starts: the message is taken, the claim it makes is typed.
LEMMA StartType ==
  ASSUME TypeOK, NEW w \in Workers, NEW m \in queue,
         NEW r \in MessageIds \cup {None}, TakeMessage(w, m, r),
         NEW step \in {"idle", "ack"} \cup ProcessingSteps \cup DeletionSteps,
         Goto(w, step), step \in ProcessingSteps => claimed'[w] # None,
         step # "mark", UNCHANGED <<todo, target, faults>>,
         claimed' \in [Workers -> JobClaim \cup {None}],
         \A x \in Workers : x # w => claimed'[x] = claimed[x],
         erasing' \in [Workers -> DeletionClaim \cup {None}]
  PROVE  QueueTypeOK' /\ WorkerTypeOK'
<1>1. QueueTypeOK' /\ receipt' \in [Workers -> MessageIds \cup {None}]
  BY TakeMessageType
<1>2. WorkerTypeOK'
  BY <1>1 DEF TypeOK, WorkerTypeOK, Goto
<1> QED
  BY <1>1, <1>2

\* Receiving a job message and claim() keep the types.
LEMMA ClaimType ==
  ASSUME TypeOK, NEW w \in Workers, NEW m \in queue, Claim(w, m),
         UNCHANGED <<sweeping, apiVars>>
  PROVE  TypeOK'
<1> DEFINE j == m.subject
<1>1. j \in Jobs
  BY DEF Claim
<1>2. m.id \in MessageIds
  BY DEF TypeOK, QueueTypeOK, Message
<1>3. UNCHANGED <<tombstoned, rowLock, artifacts, objects, erasing, todo,
                  target, faults>>
  BY DEF Claim
<1>4. erasing' \in [Workers -> DeletionClaim \cup {None}]
  BY <1>3 DEF TypeOK, WorkerTypeOK
<1>5. SweeperTypeOK' /\ ApiTypeOK'
  BY DEF TypeOK, SweeperTypeOK, ApiTypeOK, apiVars
<1>6. CASE ClaimRaises(w, m, j)
  <2>1. QueueTypeOK' /\ receipt' \in [Workers -> MessageIds \cup {None}]
    BY <1>6, TakeMessageType DEF ClaimRaises
  <2>2. WorkerTypeOK'
    BY <1>3, <1>6, <2>1 DEF ClaimRaises, TypeOK, WorkerTypeOK
  <2>3. StoreTypeOK'
    BY <1>3, <1>6 DEF ClaimRaises, KeepDeletion, TypeOK, StoreTypeOK
  <2> QED
    BY <1>5, <2>1, <2>2, <2>3 DEF TypeOK
<1>7. CASE ClaimFindsDeletion(w, m, j) \/ ClaimFindsArtifact(w, m, j)
             \/ ClaimFindsNothing(w, m, j)
  <2>1. UNCHANGED claimed /\ TakeMessage(w, m, m.id) /\ Goto(w, "ack")
    BY <1>7 DEF ClaimFindsDeletion, ClaimFindsArtifact, ClaimFindsNothing
  <2>2. QueueTypeOK' /\ WorkerTypeOK'
    <3>1. claimed' \in [Workers -> JobClaim \cup {None}]
      BY <2>1 DEF TypeOK, WorkerTypeOK
    <3> QED
      BY <1>2, <1>3, <1>4, <2>1, <3>1, StartType DEF ProcessingSteps
  <2>3. StoreTypeOK'
    <3>1. CASE ClaimFindsDeletion(w, m, j)
      BY <1>1, <1>3, <3>1, ReconcileIfAnyType
         DEF ClaimFindsDeletion, TypeOK, StoreTypeOK
    <3>2. CASE ClaimFindsArtifact(w, m, j)
      <4>1. job' \in [Jobs -> JobRow]
        BY <1>1, <3>2, JobUpdateType DEF ClaimFindsArtifact, JobStates
      <4> QED
        BY <1>3, <3>2, <4>1 DEF ClaimFindsArtifact, KeepDeletion, TypeOK, StoreTypeOK
    <3>3. CASE ClaimFindsNothing(w, m, j)
      BY <1>3, <3>3 DEF ClaimFindsNothing, KeepDeletion, TypeOK, StoreTypeOK
    <3> QED
      BY <1>7, <3>1, <3>2, <3>3
  <2> QED
    BY <1>5, <2>2, <2>3 DEF TypeOK
<1>8. CASE ClaimSucceeds(w, m, j)
  <2> DEFINE claim == [job |-> j, attempt |-> job[j].attempt + 1]
  <2>1. job[j] \in JobRow
    BY <1>1 DEF TypeOK, StoreTypeOK
  <2>2. claim \in JobClaim /\ claim # None
    BY <1>1, <2>1, NoneAssumption DEF JobClaim, JobRow
  <2>3. claimed' = [claimed EXCEPT ![w] = claim] /\ UNCHANGED intent /\ KeepDeletion
    BY <1>8 DEF ClaimSucceeds
  <2>4. /\ claimed' \in [Workers -> JobClaim \cup {None}]
        /\ claimed'[w] # None
        /\ \A x \in Workers : x # w => claimed'[x] = claimed[x]
    <3> HIDE DEF claim
    <3> QED
      BY <2>2, <2>3 DEF TypeOK, WorkerTypeOK
  <2>5. TakeMessage(w, m, m.id) /\ Goto(w, "expect")
    BY <1>8 DEF ClaimSucceeds
  <2>6. QueueTypeOK' /\ WorkerTypeOK'
    BY <1>2, <1>3, <1>4, <2>4, <2>5, StartType DEF ProcessingSteps
  <2>7. job' \in [Jobs -> JobRow]
    BY <1>1, <1>8, <2>1 DEF ClaimSucceeds, TypeOK, StoreTypeOK, JobRow, JobStates
  <2>8. StoreTypeOK'
    BY <1>3, <2>3, <2>7 DEF KeepDeletion, TypeOK, StoreTypeOK
  <2> QED
    BY <1>5, <2>6, <2>8 DEF TypeOK
<1> QED
  BY <1>6, <1>7, <1>8 DEF Claim

\* Receiving a deletion message and claim() keep the types.
LEMMA ClaimDeletionType ==
  ASSUME TypeOK, NEW w \in Workers, NEW m \in queue, ClaimDeletion(w, m),
         UNCHANGED apiVars
  PROVE  TypeOK'
<1>1. m.id \in MessageIds
  BY DEF TypeOK, QueueTypeOK, Message
<1>2. UNCHANGED <<tombstoned, rowLock, job, intent, artifacts, objects,
                  inventory, deletionOutbox, claimed, todo, target, faults,
                  sweeping>>
  BY DEF ClaimDeletion
<1>3. TakeMessage(w, m, m.id)
  BY DEF ClaimDeletion
<1>4. SweeperTypeOK' /\ ApiTypeOK'
  BY <1>2 DEF TypeOK, SweeperTypeOK, ApiTypeOK, apiVars
<1>5. claimed' \in [Workers -> JobClaim \cup {None}]
  BY <1>2 DEF TypeOK, WorkerTypeOK
<1>6. deletion \in DeletionRow
  BY DEF TypeOK, StoreTypeOK
<1>7. CASE DeletionClaimSucceeds(w)
  <2> DEFINE claim == [cycle |-> deletion.cycle, attempt |-> deletion.attempt + 1]
  <2>1. claim \in DeletionClaim
    BY <1>6 DEF DeletionClaim, DeletionRow
  <2>2. erasing' = [erasing EXCEPT ![w] = claim] /\ Goto(w, "list")
    BY <1>7 DEF DeletionClaimSucceeds
  <2>3. erasing' \in [Workers -> DeletionClaim \cup {None}]
    <3> HIDE DEF claim
    <3> QED
      BY <2>1, <2>2 DEF TypeOK, WorkerTypeOK
  <2>4. QueueTypeOK' /\ WorkerTypeOK'
    BY <1>1, <1>2, <1>3, <1>5, <2>2, <2>3, StartType
       DEF ProcessingSteps, DeletionSteps
  <2>5. deletion' \in DeletionRow
    <3>1. deletion' = [deletion EXCEPT !.state = "processing", !.live = TRUE,
                                       !.attempt = deletion.attempt + 1]
      BY <1>6, <1>7 DEF DeletionClaimSucceeds, DeletionRow
    <3>2. deletion.attempt + 1 \in Nat
      BY <1>6 DEF DeletionRow
    <3> QED
      BY <1>6, <3>1, <3>2 DEF DeletionRow, DeletionStates
  <2>6. StoreTypeOK'
    BY <1>2, <2>5 DEF TypeOK, StoreTypeOK
  <2> QED
    BY <1>4, <2>4, <2>6 DEF TypeOK
<1>8. CASE DeletionClaimRefused(w)
  <2>1. erasing' \in [Workers -> DeletionClaim \cup {None}] /\ Goto(w, "ack")
    BY <1>8 DEF DeletionClaimRefused, TypeOK, WorkerTypeOK
  <2>2. QueueTypeOK' /\ WorkerTypeOK'
    BY <1>1, <1>2, <1>3, <1>5, <2>1, StartType DEF ProcessingSteps
  <2>3. StoreTypeOK'
    BY <1>2, <1>8 DEF DeletionClaimRefused, TypeOK, StoreTypeOK
  <2> QED
    BY <1>4, <2>2, <2>3 DEF TypeOK
<1> QED
  BY <1>7, <1>8 DEF ClaimDeletion

\* mark_deleted() keeps the types.
LEMMA MarkDeletedType ==
  ASSUME TypeOK, NEW w \in Workers, MarkDeleted(w), UNCHANGED apiVars
  PROVE  TypeOK'
<1>1. UNCHANGED <<tombstoned, rowLock, job, intent, artifacts, objects,
                  deletionOutbox, queueVars, faults, sweeping>>
  BY DEF MarkDeleted
<1>2. CASE FinishObject(w)
  <2>1. deletion' \in DeletionRow
    BY <1>2 DEF FinishObject, TypeOK, StoreTypeOK, DeletionRow
  <2>2. inventory' \in [Keys -> {"none", "pending", "deleted"}]
    BY <1>2 DEF FinishObject, TypeOK, StoreTypeOK
  <2>3. StoreTypeOK'
    BY <1>1, <2>1, <2>2 DEF TypeOK, StoreTypeOK
  <2>4. WorkerTypeOK'
    BY <1>1, <1>2 DEF FinishObject, AfterItem, Goto, TypeOK, WorkerTypeOK,
       ProcessingSteps, DeletionSteps
  <2> QED
    BY <1>1, <2>3, <2>4, FrameType
<1>3. CASE MarkRaises(w)
  <2>1. StoreTypeOK'
    BY <1>1, <1>3 DEF MarkRaises, TypeOK, StoreTypeOK
  <2>2. WorkerTypeOK'
    BY <1>1, <1>3, ForgetType DEF MarkRaises, TypeOK, WorkerTypeOK
  <2> QED
    BY <1>1, <2>1, <2>2, FrameType
<1> QED
  BY <1>2, <1>3 DEF MarkDeleted

\* complete_and_purge() keeps the types.
LEMMA CompleteAndPurgeType ==
  ASSUME TypeOK, NEW w \in Workers, CompleteAndPurge(w), PurgeOutbox(w)
  PROVE  TypeOK'
<1>0. ApiTypeOK'
  BY DEF PurgeOutbox, TypeOK, ApiTypeOK
<1>1. UNCHANGED <<tombstoned, rowLock, objects, queueVars, receipt, claimed,
                  erasing, todo, target, faults, sweeping>>
  BY DEF CompleteAndPurge
<1>2. WorkerTypeOK'
  <2>1. \E step \in {"ack", "purge_failed"} : Goto(w, step)
    BY DEF CompleteAndPurge, PurgeRows, PurgeRefused
  <2> QED
    BY <1>1, <2>1, GotoType DEF ProcessingSteps, DeletionSteps
<1>3. CASE PurgeRows(w)
  <2>1. job' \in [Jobs -> JobRow]
    BY <1>3 DEF PurgeRows, TypeOK, StoreTypeOK, JobRow, JobStates
  <2>2. deletion' \in DeletionRow
    BY <1>3 DEF PurgeRows, TypeOK, StoreTypeOK, DeletionRow, DeletionStates
  <2>3. deletionOutbox' \in OutboxRow
    BY <1>3 DEF PurgeRows, OutboxRow, OutboxStates
  <2>4. StoreTypeOK'
    BY <1>1, <1>3, <2>1, <2>2, <2>3 DEF PurgeRows, TypeOK, StoreTypeOK
  <2> QED
    BY <1>0, <1>1, <1>2, <2>4 DEF TypeOK, QueueTypeOK, SweeperTypeOK, queueVars
<1>4. CASE PurgeRefused(w)
  <2>1. StoreTypeOK'
    BY <1>1, <1>4 DEF PurgeRefused, KeepDeletion, TypeOK, StoreTypeOK
  <2> QED
    BY <1>0, <1>1, <1>2, <2>1 DEF TypeOK, QueueTypeOK, SweeperTypeOK, queueVars
<1> QED
  BY <1>3, <1>4 DEF CompleteAndPurge

\* Both ways a deletion attempt fails.
LEMMA FailedAttemptType ==
  ASSUME TypeOK, NEW w \in Workers, PurgeFailed(w) \/ EraseFails(w), UNCHANGED apiVars
  PROVE  TypeOK'
<1>1. /\ ReleaseForRetry(w) /\ Goto(w, "ack") /\ faults' \in Nat
      /\ UNCHANGED <<tombstoned, rowLock, job, intent, artifacts, objects,
                     inventory, queueVars, receipt, claimed, erasing, todo,
                     target, sweeping>>
  BY DEF PurgeFailed, EraseFails, Fault, TypeOK, WorkerTypeOK
<1>2. StoreTypeOK'
  BY <1>1, ReleaseForRetryType DEF TypeOK, StoreTypeOK
<1>3. WorkerTypeOK'
  BY <1>1 DEF Goto, TypeOK, WorkerTypeOK, ProcessingSteps
<1> QED
  BY <1>1, <1>2, <1>3, FrameType

\* The end of a job lease keeps the types.
LEMMA ExpireClaimType ==
  ASSUME TypeOK, NEW j \in Jobs, ExpireClaim(j), UNCHANGED <<sweeping, apiVars>>
  PROVE  TypeOK'
<1>1. job' \in [Jobs -> JobRow]
  BY DEF ExpireClaim, TypeOK, StoreTypeOK, JobRow
<1>2. StoreTypeOK'
  BY <1>1 DEF ExpireClaim, KeepDeletion, TypeOK, StoreTypeOK
<1>3. faults' \in Nat
  BY DEF ExpireClaim, Fault, TypeOK, WorkerTypeOK
<1>4. WorkerTypeOK'
  BY <1>3 DEF ExpireClaim, workerVars, TypeOK, WorkerTypeOK
<1> QED
  BY <1>2, <1>4, FrameType DEF ExpireClaim

\* The end of a deletion lease keeps the types.
LEMMA ExpireDeletionClaimType ==
  ASSUME TypeOK, ExpireDeletionClaim, UNCHANGED apiVars
  PROVE  TypeOK'
<1>1. deletion' \in DeletionRow
  BY DEF ExpireDeletionClaim, TypeOK, StoreTypeOK, DeletionRow
<1>2. StoreTypeOK'
  BY <1>1 DEF ExpireDeletionClaim, TypeOK, StoreTypeOK
<1>3. faults' \in Nat
  BY DEF ExpireDeletionClaim, Fault, TypeOK, WorkerTypeOK
<1>4. WorkerTypeOK'
  BY <1>3 DEF ExpireDeletionClaim, workerVars, TypeOK, WorkerTypeOK
<1> QED
  BY <1>2, <1>4, FrameType DEF ExpireDeletionClaim

\* A failed dispatch keeps the types.
LEMMA DispatchFailsType ==
  ASSUME TypeOK, NEW j \in Jobs, DispatchFails(j), UNCHANGED sweeping
  PROVE  TypeOK'
<1>1. QueueTypeOK'
  <2>1. CASE Send(j)
    BY <2>1, WorkerAssumption
       DEF Send, NewMessage, FreeIds, Message, TypeOK, QueueTypeOK
  <2>2. CASE UNCHANGED queueVars
    BY <2>2 DEF queueVars, TypeOK, QueueTypeOK
  <2> QED
    BY <2>1, <2>2 DEF DispatchFails
<1>2. StoreTypeOK'
  BY DEF DispatchFails, storeVars, TypeOK, StoreTypeOK
<1>3. faults' \in Nat
  BY DEF DispatchFails, Fault, TypeOK, WorkerTypeOK
<1>4. WorkerTypeOK'
  BY <1>3 DEF DispatchFails, workerVars, TypeOK, WorkerTypeOK
<1>5. SweeperTypeOK' /\ ApiTypeOK'
  BY DEF DispatchFails, TypeOK, SweeperTypeOK, ApiTypeOK
<1> QED
  BY <1>1, <1>2, <1>4, <1>5 DEF TypeOK

\* A step of the system keeps every variable in its type.
LEMMA TypeNext == TypeOK /\ [Next]_allVars => TypeOK'
<1> USE StoreAssumption, QueueAssumption, WorkerAssumption, NoneAssumption
    DEF TypeOK, StoreTypeOK, QueueTypeOK, WorkerTypeOK, SweeperTypeOK, ApiTypeOK,
        JobStates, JobRow, DeletionStates, DeletionRow, OutboxStates, OutboxRow,
        Message, JobClaim, DeletionClaim, ProcessingSteps, DeletionSteps,
        storeVars, queueVars, apiVars
<1> SUFFICES ASSUME TypeOK, Next \/ UNCHANGED allVars PROVE TypeOK'
  OBVIOUS
<1>1. ASSUME NEW w \in Workers, Acknowledge(w), UNCHANGED <<sweeping, apiVars>>
      PROVE TypeOK'
  BY <1>1 DEF Acknowledge, Delete, Forget
<1>2. ASSUME NEW w \in Workers, Prepare(w), UNCHANGED <<sweeping, apiVars>>
      PROVE TypeOK'
  BY <1>2 DEF Prepare, OnTransientError, Goto
<1>3. ASSUME NEW w \in Workers, PutArtifact(w), UNCHANGED <<sweeping, apiVars>>
      PROVE TypeOK'
  BY <1>3 DEF PutArtifact, KeepDeletion, vJob, Goto
<1>4. ASSUME NEW w \in Workers, PutFails(w), UNCHANGED <<sweeping, apiVars>>
      PROVE TypeOK'
  BY <1>4 DEF PutFails, Fault, OnTransientError, KeepDeletion, vJob, Goto
<1>5. ASSUME NEW w \in Workers, ConnectionLost(w), UNCHANGED <<sweeping, apiVars>>
      PROVE TypeOK'
  BY <1>5 DEF ConnectionLost, Fault, KeepDeletion, workerVars
<1>6. ASSUME NEW w \in Workers, FinishFails(w), UNCHANGED <<sweeping, apiVars>>
      PROVE TypeOK'
  BY <1>6 DEF FinishFails, OnTransientError, Goto
<1>7. ASSUME NEW w \in Workers, Enqueue(w), UNCHANGED <<sweeping, apiVars>>
      PROVE TypeOK'
  BY <1>7 DEF Enqueue, Send, NewMessage, FreeIds, vJob, Goto
<1>8. ASSUME NEW w \in Workers, ListPending(w), UNCHANGED apiVars
      PROVE TypeOK'
  BY <1>8 DEF ListPending, PendingKeys, AfterItem, Goto
<1>9. ASSUME NEW w \in Workers, EraseObject(w), UNCHANGED apiVars
      PROVE TypeOK'
  BY <1>9 DEF EraseObject, Goto
<1>10. ASSUME NEW w \in Workers, Crash(w), UNCHANGED <<sweeping, apiVars>>
      PROVE TypeOK'
  BY <1>10 DEF Crash, Fault, Forget
<1>11. ASSUME NEW m \in queue, VisibilityTimeout(m), UNCHANGED <<sweeping, apiVars>>
      PROVE TypeOK'
  BY <1>11 DEF VisibilityTimeout, Reappear, workerVars
<1>12. ASSUME DeletionComesDue, UNCHANGED apiVars
      PROVE TypeOK'
  BY <1>12 DEF DeletionComesDue, workerVars
<1>13. ASSUME ExpireOutboxLease, UNCHANGED apiVars
      PROVE TypeOK'
  <2>1. faults' \in Nat
    BY <1>13 DEF ExpireOutboxLease, Fault
  <2>2. /\ deletionOutbox' = [deletionOutbox EXCEPT !.state = "expired"]
        /\ UNCHANGED <<tombstoned, rowLock, job, intent, artifacts, objects, inventory, deletion>>
        /\ UNCHANGED <<queueVars, pc, receipt, claimed, erasing, todo, target, sweeping>>
    BY <1>13 DEF ExpireOutboxLease, workerVars
  <2> QED
    BY <1>13, <2>1, <2>2
<1>14. ASSUME NEW s \in Sweepers, RecoverStaleDeletion(s), UNCHANGED apiVars
      PROVE TypeOK'
  BY <1>14 DEF RecoverStaleDeletion, workerVars, WaitingOutbox
<1>15. ASSUME NEW s \in Sweepers, ClaimDueOutbox(s), UNCHANGED apiVars
      PROVE TypeOK'
  BY <1>15 DEF ClaimDueOutbox, workerVars, Sweep
<1>16. ASSUME NEW s \in Sweepers, PublishDeletion(s), UNCHANGED apiVars
      PROVE TypeOK'
  BY <1>16 DEF PublishDeletion, workerVars, Sweep, Send, NewMessage, FreeIds
<1>17. ASSUME NEW s \in Sweepers, MarkOutboxDelivered(s), UNCHANGED apiVars
      PROVE TypeOK'
  BY <1>17 DEF MarkOutboxDelivered, workerVars, Sweep
<1>18. ASSUME NEW s \in Sweepers, PublishFails(s), UNCHANGED apiVars
      PROVE TypeOK'
  BY <1>18 DEF PublishFails, workerVars, Sweep, Fault, WaitingOutbox
<1>19. ASSUME NEW s \in Sweepers, SweeperCrash(s), UNCHANGED apiVars
      PROVE TypeOK'
  BY <1>19 DEF SweeperCrash, workerVars, Fault
<1>20. ASSUME NEW j \in Jobs, Submit(j), UNCHANGED sweeping
      PROVE TypeOK'
  BY <1>20 DEF Submit, workerVars, EnqueueOutbox, KeepDeletion
<1>21. ASSUME NEW j \in Jobs, Retry(j), UNCHANGED sweeping
      PROVE TypeOK'
  BY <1>21 DEF Retry, workerVars, Call, EnqueueOutbox, KeepDeletion
<1>22. ASSUME NEW j \in Jobs, RequeueJob(j), UNCHANGED sweeping
      PROVE TypeOK'
  BY <1>22 DEF RequeueJob, workerVars, Call, EnqueueOutbox
<1>23. ASSUME NEW j \in Jobs, DispatchOne(j), UNCHANGED sweeping
      PROVE TypeOK'
  BY <1>23 DEF DispatchOne, workerVars, Send, NewMessage, FreeIds
<1>24. ASSUME DispatchDone, UNCHANGED sweeping
      PROVE TypeOK'
  BY <1>24, ZenonT(40) DEF DispatchDone, workerVars
<1>25. ASSUME AcceptDeletion, UNCHANGED sweeping
      PROVE TypeOK'
  BY <1>25 DEF AcceptDeletion, WaitingOutbox, workerVars
<1>26. ASSUME RedriveDeletion, UNCHANGED sweeping
      PROVE TypeOK'
  BY <1>26 DEF RedriveDeletion, Call, WaitingOutbox, workerVars
<1>27. ASSUME UNCHANGED allVars PROVE TypeOK'
  BY <1>27 DEF allVars, vars, workerVars
<1>28. ASSUME NEW w \in Workers, ExpectFails(w), UNCHANGED <<sweeping, apiVars>>
      PROVE TypeOK'
  BY <1>28 DEF ExpectFails, Fault, OnTransientError, Goto
<1>29. ASSUME NEW w \in Workers, PurgeRaises(w), UNCHANGED apiVars
      PROVE TypeOK'
  BY <1>29 DEF PurgeRaises, Fault, Goto
<1> HIDE StoreAssumption, QueueAssumption, WorkerAssumption, NoneAssumption
    DEF TypeOK, JobRow, DeletionRow, OutboxRow, Message, JobClaim, DeletionClaim,
        StoreTypeOK, QueueTypeOK, WorkerTypeOK, SweeperTypeOK, ApiTypeOK
<1> QED
  BY <1>1, <1>2, <1>3, <1>4, <1>5, <1>6, <1>7, <1>8, <1>9, <1>10, <1>11,
     <1>12, <1>13, <1>14, <1>15, <1>16, <1>17, <1>18, <1>19, <1>20, <1>21,
     <1>22, <1>23, <1>24, <1>25, <1>26, <1>27, <1>28, <1>29,
     ExpectType,
     CommitPreparedType, FinishCommitType, RequeueType, FailType, ClaimType,
     ClaimDeletionType, MarkDeletedType, CompleteAndPurgeType,
     FailedAttemptType, ExpireClaimType, ExpireDeletionClaimType,
     DispatchFailsType
  DEF Next, WorkerStep, WorkerFault, Handle, Timeout, ProcessingStep,
      ProcessingFault, DeletionStep, SweeperStep, ApiStep

\* Every variable keeps the type its declaration names: rows, claims and
\* messages stay well formed whatever handlers, timeouts and faults do.
THEOREM TypeCorrect == Spec => []TypeOK
BY TypeInit, TypeNext, PTL DEF Spec

(* ----------------------------- The erasure ----------------------------- *)

\* No handler is about to write the object of j.
NoPutOf(j) == \A x \in Workers : pc[x] = "put" => vJob(x) # j

Keeps(x) ==
    /\ pc'[x] = pc[x] /\ claimed'[x] = claimed[x] /\ erasing'[x] = erasing[x]
    /\ todo'[x] = todo[x] /\ target'[x] = target[x]

Moves(x) ==
    /\ pc'[x] \notin {"put", "mark"}
    /\ claimed'[x] \in {claimed[x], None}
    /\ erasing'[x] \in {erasing[x], None}
    /\ todo'[x] # {} => tombstoned
    /\ rowLock' = x => pc'[x] = "finish" /\ claimed'[x] = claimed[x]

LockMoves ==
    \/ rowLock' = rowLock
    \/ rowLock' = None /\ (pc'[rowLock] = "put" => job[vJob(rowLock)].live)

JobMoves(j) ==
    /\ job'[j].attempt = job[j].attempt
    /\ \/ /\ job'[j].state = job[j].state
          /\ job'[j].live = job[j].live \/ NoPutOf(j)
       \/ /\ rowLock = None /\ NoPutOf(j)
          /\ job'[j].state # "absent"
          /\ job[j].state = "absent" => ~ tombstoned
          /\ j \in artifacts => job'[j].state = "completed"

IntentMoves(j) ==
    \/ intent'[j] = intent[j]
    \/ ~ tombstoned /\ intent'[j] = "expected"
    \/ ~ tombstoned /\ intent'[j] = "settled" /\ NoPutOf(j)
    \/ /\ tombstoned /\ intent'[j] = "none" /\ NoPutOf(j)
       /\ inventory'[KeyOf[j]] = "pending"
       /\ deletion'.state # "processing"

ObjectsMove ==
    \A k \in objects' :
        \/ k \in objects
        \/ \E j \in Jobs :
             KeyOf[j] = k /\ intent[j] = "expected" /\ intent'[j] = "expected"

DeletionMoves ==
    /\ deletion'.state = "none" <=> deletion.state = "none"
    /\ \/ deletion.cycle < deletion'.cycle
       \/ /\ deletion.cycle = deletion'.cycle
          /\ deletion.attempt <= deletion'.attempt
    /\ deletion'.state = "processing" =>
         /\ deletion.state = "processing"
         /\ deletion'.cycle = deletion.cycle
         /\ deletion'.attempt = deletion.attempt
    /\ deletion'.state = "completed" => deletion.state = "completed"
    /\ \A k \in Keys : inventory[k] = "pending" => inventory'[k] = "pending"

SafeMove ==
    /\ tombstoned' = tombstoned /\ artifacts' = artifacts
    /\ \A x \in Workers : Keeps(x) \/ Moves(x)
    /\ LockMoves
    /\ \A j \in Jobs : JobMoves(j) /\ IntentMoves(j)
    /\ ObjectsMove
    /\ DeletionMoves

-----------------------------------------------------------------------------
\* The invariant holds initially: nobody works and nothing is deleted.
LEMMA CoreInit == Init => Core
BY StoreAssumption
DEF Init, StoreInit, WorkerInit, Core, DeletionStarts, JobClaimsAreOrdered,
    DeletionClaimsAreOrdered, ArtifactRowsAreFinal, LockProtects, PutIsAnnounced,
    MarkIsTrue, OnlyDeletedIsErased, NoOrphanObject, CompletedIsErased,
    ClaimIsCurrent

\* A safe move preserves every part of the invariant.
LEMMA SafeMoveKeepsCore ==
  ASSUME TypeOK, TypeOK', Core, SafeMove
  PROVE  Core'
<1>0. /\ tombstoned' = tombstoned /\ artifacts' = artifacts
      /\ \A x \in Workers : Keeps(x) \/ Moves(x)
      /\ LockMoves
      /\ \A j \in Jobs : JobMoves(j) /\ IntentMoves(j)
      /\ ObjectsMove
      /\ DeletionMoves
  BY DEF SafeMove
<1>T. /\ deletion \in DeletionRow /\ deletion' \in DeletionRow
      /\ job \in [Jobs -> JobRow] /\ job' \in [Jobs -> JobRow]
      /\ artifacts \in SUBSET Jobs /\ objects \in SUBSET Keys
      /\ rowLock \in Workers \cup {None}
      /\ \A x \in Workers :
           /\ claimed[x] \in JobClaim \cup {None}
           /\ erasing[x] \in DeletionClaim \cup {None}
           /\ erasing'[x] \in DeletionClaim \cup {None}
           /\ pc[x] \in ProcessingSteps => claimed[x] # None
  BY DEF TypeOK, StoreTypeOK, WorkerTypeOK
<1>1. DeletionStarts'
  BY <1>0, <1>T DEF Core, DeletionStarts, DeletionMoves, Keeps, Moves
<1>2. JobClaimsAreOrdered'
  <2>1. \A x \in Workers : claimed'[x] # None => claimed'[x] = claimed[x]
    BY <1>0 DEF Keeps, Moves
  <2>2. \A x \in Workers : claimed[x] # None => vJob(x) \in Jobs
    BY <1>T DEF JobClaim, vJob
  <2>3. \A x \in Workers : claimed'[x] # None =>
          1 <= claimed'[x].attempt /\ claimed'[x].attempt <= job'[claimed'[x].job].attempt
    BY <1>0, <2>1, <2>2 DEF Core, JobClaimsAreOrdered, vJob, JobMoves
  <2>4. \A x, y \in Workers :
          claimed'[x] # None /\ claimed'[x] = claimed'[y] => x = y
    BY <2>1 DEF Core, JobClaimsAreOrdered
  <2>5. ~ tombstoned =>
          \A j \in Jobs : job'[j].state = "absent" => job'[j].attempt = 0
    BY <1>0 DEF Core, JobClaimsAreOrdered, JobMoves
  <2> QED
    BY <1>0, <2>3, <2>4, <2>5 DEF JobClaimsAreOrdered, vJob
<1>3. DeletionClaimsAreOrdered'
  <2> SUFFICES ASSUME NEW x \in Workers, erasing'[x] # None
               PROVE  \/ erasing'[x].cycle < deletion'.cycle
                      \/ /\ erasing'[x].cycle = deletion'.cycle
                         /\ erasing'[x].attempt <= deletion'.attempt
    BY DEF DeletionClaimsAreOrdered
  <2>1. erasing'[x] = erasing[x] /\ erasing[x] \in DeletionClaim
    BY <1>0, <1>T DEF Keeps, Moves
  <2>2. \/ erasing[x].cycle < deletion.cycle
        \/ /\ erasing[x].cycle = deletion.cycle
           /\ erasing[x].attempt <= deletion.attempt
    BY <2>1 DEF Core, DeletionClaimsAreOrdered
  <2> QED
    BY <1>0, <1>T, <2>1, <2>2 DEF DeletionMoves, DeletionClaim, DeletionRow
<1>4. ArtifactRowsAreFinal'
  BY <1>0, <1>T DEF Core, ArtifactRowsAreFinal, JobMoves
<1>5. LockProtects'
  <2> SUFFICES ASSUME rowLock' # None
               PROVE  /\ pc'[rowLock'] \in {"put", "finish"}
                      /\ OwnsClaim(rowLock)'
                      /\ ~ tombstoned
    BY <1>0 DEF LockProtects
  <2>1. rowLock' = rowLock /\ rowLock \in Workers
    BY <1>0, <1>T DEF LockMoves
  <2>2. pc[rowLock] \in {"put", "finish"} /\ OwnsClaim(rowLock) /\ ~ tombstoned
    BY <2>1 DEF Core, LockProtects
  <2>3. claimed'[rowLock] = claimed[rowLock] /\ pc'[rowLock] \in {"put", "finish"}
    BY <1>0, <2>1, <2>2 DEF Keeps, Moves
  <2>4. vJob(rowLock) \in Jobs
    BY <1>T, <2>1, <2>2 DEF ProcessingSteps, JobClaim, vJob
  <2> QED
    BY <1>0, <2>1, <2>2, <2>3, <2>4 DEF OwnsClaim, vJob, JobMoves
<1>6. PutIsAnnounced'
  <2> SUFFICES ASSUME NEW x \in Workers, pc'[x] = "put"
               PROVE  /\ OwnsClaim(x)'
                      /\ intent'[vJob(x)'] = "expected"
                      /\ rowLock' = x \/ job'[vJob(x)'].live
    BY DEF PutIsAnnounced
  <2>1. Keeps(x) /\ pc[x] = "put"
    BY <1>0 DEF Keeps, Moves
  <2>2. /\ OwnsClaim(x)
        /\ intent[vJob(x)] = "expected"
        /\ rowLock = x \/ job[vJob(x)].live
    BY <2>1 DEF Core, PutIsAnnounced
  <2>3. vJob(x) \in Jobs /\ vJob(x)' = vJob(x) /\ ~ NoPutOf(vJob(x))
    BY <1>T, <2>1 DEF ProcessingSteps, JobClaim, vJob, Keeps, NoPutOf
  <2>4. OwnsClaim(x)' /\ job'[vJob(x)].live = job[vJob(x)].live
    BY <1>0, <2>1, <2>2, <2>3 DEF OwnsClaim, JobMoves, Keeps
  <2>5. intent'[vJob(x)] = "expected"
    BY <1>0, <2>2, <2>3 DEF IntentMoves
  <2>6. rowLock' = x \/ job[vJob(x)].live
    BY <1>0, <2>1, <2>2 DEF LockMoves, Keeps
  <2> QED
    BY <2>3, <2>4, <2>5, <2>6
<1>7. MarkIsTrue'
  <2> SUFFICES ASSUME NEW x \in Workers, pc'[x] = "mark", ClaimIsCurrent(x)'
               PROVE  \/ target'[x] \notin objects'
                      \/ \E j \in Jobs : KeyOf[j] = target'[x] /\ intent'[j] = "expected"
    BY DEF MarkIsTrue
  <2>1. Keeps(x) /\ pc[x] = "mark"
    BY <1>0 DEF Keeps, Moves
  <2>2. ClaimIsCurrent(x) /\ deletion'.state = "processing"
    BY <1>0, <2>1 DEF ClaimIsCurrent, DeletionMoves, Keeps
  <2>3. tombstoned
    BY <2>2 DEF Core, DeletionStarts, ClaimIsCurrent
  <2>4. \A j \in Jobs : intent[j] = "expected" => intent'[j] = "expected"
    BY <1>0, <2>2, <2>3 DEF IntentMoves
  <2>5. \/ target[x] \notin objects
        \/ \E j \in Jobs : KeyOf[j] = target[x] /\ intent[j] = "expected"
    BY <2>1, <2>2 DEF Core, MarkIsTrue
  <2> QED
    BY <1>0, <2>1, <2>4, <2>5 DEF ObjectsMove, Keeps
<1>8. OnlyDeletedIsErased'
  BY <1>0 DEF Core, OnlyDeletedIsErased, Keeps, Moves
<1>9. NoOrphanObject'
  <2> SUFFICES ASSUME NEW k \in objects'
               PROVE  ObjectIsKnown(k)'
    BY DEF NoOrphanObject
  <2>1. CASE k \in objects
    <3>1. ObjectIsKnown(k) /\ k \in Keys
      BY <1>T, <2>1 DEF Core, NoOrphanObject
    <3>2. CASE tombstoned
      BY <1>0, <3>1, <3>2 DEF ObjectIsKnown, IntentMoves, DeletionMoves
    <3>3. CASE ~ tombstoned
      BY <1>0, <3>1, <3>3 DEF ObjectIsKnown, IntentMoves
    <3> QED
      BY <3>2, <3>3
  <2>2. CASE k \notin objects
    BY <1>0, <2>2 DEF ObjectsMove, ObjectIsKnown
  <2> QED
    BY <2>1, <2>2
<1>10. CompletedIsErased'
  <2> SUFFICES ASSUME deletion'.state = "completed"
               PROVE  /\ objects' = {} /\ artifacts' = {}
                      /\ \A j \in Jobs : job'[j].state = "absent" /\ intent'[j] = "none"
    BY DEF CompletedIsErased
  <2>1. /\ objects = {} /\ artifacts = {} /\ tombstoned
        /\ \A j \in Jobs : job[j].state = "absent" /\ intent[j] = "none"
    BY <1>0 DEF Core, CompletedIsErased, DeletionMoves, DeletionStarts
  <2> QED
    BY <1>0, <2>1 DEF JobMoves, IntentMoves, ObjectsMove
<1> QED
  BY <1>1, <1>2, <1>3, <1>4, <1>5, <1>6, <1>7, <1>8, <1>9, <1>10 DEF Core

-----------------------------------------------------------------------------
(* Who can be about to write an object *)

\* The owner of a claim is the only handler working under it.
LEMMA OwnerAlone ==
  ASSUME TypeOK, Core, NEW w \in Workers, pc[w] \in ProcessingSteps,
         OwnsClaim(w), pc[w] # "put"
  PROVE  NoPutOf(vJob(w))
<1> SUFFICES ASSUME NEW x \in Workers, pc[x] = "put", vJob(x) = vJob(w)
             PROVE  FALSE
  BY DEF NoPutOf
<1>1. OwnsClaim(x)
  BY DEF Core, PutIsAnnounced
<1>2. /\ claimed[x] \in JobClaim /\ claimed[w] \in JobClaim
      /\ claimed[x] # None /\ claimed[w] # None
  BY NoneAssumption DEF TypeOK, WorkerTypeOK, ProcessingSteps
<1>3. claimed[x] = claimed[w]
  <2>1. claimed[x].job = claimed[w].job /\ claimed[x].attempt = claimed[w].attempt
    BY <1>1 DEF OwnsClaim, vJob
  <2> QED
    BY <1>2, <2>1 DEF JobClaim
<1>4. x = w
  BY <1>2, <1>3 DEF Core, JobClaimsAreOrdered
<1> QED
  BY <1>4

\* A job without a live claim has no writer while the row is free.
LEMMA UnclaimedAlone ==
  ASSUME Core, NEW j \in Jobs, AgreementRowFree, ~ HasLiveClaim(j), None \notin Workers
  PROVE  NoPutOf(j)
BY DEF Core, PutIsAnnounced, NoPutOf, HasLiveClaim, OwnsClaim, AgreementRowFree

-----------------------------------------------------------------------------
(* The parts of a SafeMove, by the helper that makes them *)

\* A handler that only goes to another step, and not to a write or a mark.
LEMMA GotoMoves ==
  ASSUME TypeOK, Core, NEW w \in Workers, NEW step, Goto(w, step),
         step \notin {"put", "mark"}, rowLock' = w => step = "finish",
         UNCHANGED <<claimed, erasing, todo, target>>
  PROVE  \A x \in Workers : Keeps(x) \/ Moves(x)
BY DEF TypeOK, WorkerTypeOK, Core, OnlyDeletedIsErased, Goto, Keeps, Moves

\* A handler that gives up without holding the row lock.
LEMMA ForgetMoves ==
  ASSUME TypeOK, NEW w \in Workers, Forget(w), rowLock' # w
  PROVE  \A x \in Workers : Keeps(x) \/ Moves(x)
BY DEF TypeOK, WorkerTypeOK, Forget, Keeps, Moves

\* A step in which no handler moves.
LEMMA StandStill ==
  ASSUME UNCHANGED <<pc, claimed, erasing, todo, target>>
  PROVE  \A x \in Workers : Keeps(x) \/ Moves(x)
BY DEF Keeps

\* A step that leaves the deletion and its inventory alone.
LEMMA DeletionStays ==
  ASSUME TypeOK, UNCHANGED <<deletion, inventory>>
  PROVE  DeletionMoves
BY DEF TypeOK, StoreTypeOK, DeletionRow, DeletionMoves

\* A late artifact is listed, and the current deletion claim is void.
LEMMA LateArtifactMoves ==
  ASSUME TypeOK, Core, NEW k \in Keys, tombstoned, InventoryLateArtifact(k)
  PROVE  /\ DeletionMoves
         /\ inventory'[k] = "pending"
         /\ deletion'.state # "processing"
<1>1. deletion \in DeletionRow /\ inventory \in [Keys -> {"none", "pending", "deleted"}]
  BY DEF TypeOK, StoreTypeOK
<1>2. deletion.state # "none"
  BY DEF Core, DeletionStarts
<1>3. inventory' = [inventory EXCEPT ![k] = "pending"] /\ deletion' = ReopenedDeletion
  BY DEF InventoryLateArtifact
<1>4. /\ deletion'.state = "retrying"
      /\ \/ deletion'.cycle = deletion.cycle + 1
         \/ deletion'.cycle = deletion.cycle /\ deletion'.attempt = deletion.attempt
  BY <1>3 DEF ReopenedDeletion
<1> QED
  BY <1>1, <1>2, <1>3, <1>4 DEF DeletionMoves, DeletionRow

\* The same, where it only happens once the agreement is deleted.
LEMMA InventoryIfDeletedMoves ==
  ASSUME TypeOK, Core, NEW k \in Keys, InventoryIfDeleted(k)
  PROVE  DeletionMoves
BY LateArtifactMoves, DeletionStays DEF InventoryIfDeleted, KeepDeletion

\* Reconciling the intent of a job nobody is writing for.
LEMMA ReconcileMoves ==
  ASSUME TypeOK, Core, NEW j \in Jobs, tombstoned, NoPutOf(j), ReconcileIntent(j)
  PROVE  DeletionMoves /\ \A i \in Jobs : IntentMoves(i)
<1>1. KeyOf[j] \in Keys /\ InventoryLateArtifact(KeyOf[j])
  BY StoreAssumption DEF ReconcileIntent
<1>2. /\ DeletionMoves
      /\ inventory'[KeyOf[j]] = "pending"
      /\ deletion'.state # "processing"
  BY <1>1, LateArtifactMoves
<1> QED
  BY <1>2 DEF ReconcileIntent, IntentMoves, TypeOK, StoreTypeOK

\* The owner of a claim releases its job.
LEMMA ReleaseMoves ==
  ASSUME TypeOK, NEW j \in Jobs, NEW s \in {"queued", "failed", "completed"}, NEW b,
         job' = [job EXCEPT ![j] = Released(@, s, b)],
         AgreementRowFree, NoPutOf(j), job[j].state # "absent",
         j \in artifacts => s = "completed"
  PROVE  \A i \in Jobs : JobMoves(i)
<1>1. job \in [Jobs -> JobRow]
  BY DEF TypeOK, StoreTypeOK
<1>2. /\ job'[j].attempt = job[j].attempt /\ job'[j].state = s
      /\ \A i \in Jobs : i # j => job'[i] = job[i]
  BY <1>1 DEF Released, JobRow
<1> QED
  BY <1>2 DEF JobMoves, AgreementRowFree

\* A step that writes and deletes no object.
LEMMA ObjectsStay ==
  ASSUME objects' = objects PROVE ObjectsMove
BY DEF ObjectsMove

\* A step that changes no job row.
LEMMA JobsStay ==
  ASSUME UNCHANGED job PROVE \A j \in Jobs : JobMoves(j)
BY DEF JobMoves

\* A step that changes no intent.
LEMMA IntentsStay ==
  ASSUME UNCHANGED intent PROVE \A j \in Jobs : IntentMoves(j)
BY DEF IntentMoves

\* A step that leaves the row lock where it is.
LEMMA LockStays ==
  ASSUME UNCHANGED rowLock PROVE LockMoves
BY DEF LockMoves

-----------------------------------------------------------------------------
(* The steps of a processing handler that are safe moves *)

\* expect(): an intent is reserved, or reconciled by the claim's only owner.
LEMMA ExpectMoves ==
  ASSUME TypeOK, Core, NEW w \in Workers, Expect(w)
  PROVE  SafeMove
<1>1. /\ pc[w] = "expect" /\ AgreementRowFree
      /\ UNCHANGED <<tombstoned, rowLock, job, artifacts, objects, claimed,
                     erasing, todo, target>>
  BY DEF Expect
<1>2. rowLock' # w
  BY <1>1, StoreAssumption DEF AgreementRowFree
<1>3. vJob(w) \in Jobs
  BY <1>1, ClaimedJob DEF ProcessingSteps
<1>4. OwnsClaim(w) => NoPutOf(vJob(w))
  BY <1>1, OwnerAlone DEF ProcessingSteps
<1>5. /\ \A x \in Workers : Keeps(x) \/ Moves(x)
      /\ \A j \in Jobs : IntentMoves(j)
      /\ DeletionMoves
  <2>1. CASE ExpectRefused(w)
    BY <1>1, <1>2, <2>1, GotoMoves, IntentsStay, DeletionStays
       DEF ExpectRefused, KeepDeletion
  <2>2. CASE ExpectFindsDeletion(w)
    BY <1>1, <1>2, <1>3, <1>4, <2>2, GotoMoves, ReconcileMoves
       DEF ExpectFindsDeletion
  <2>3. CASE ExpectReserves(w)
    <3>1. \A j \in Jobs : IntentMoves(j)
      BY <2>3 DEF ExpectReserves, IntentMoves, TypeOK, StoreTypeOK
    <3> QED
      BY <1>1, <1>2, <2>3, <3>1, GotoMoves, DeletionStays
         DEF ExpectReserves, KeepDeletion
  <2> QED
    BY <2>1, <2>2, <2>3 DEF Expect
<1> QED
  BY <1>1, <1>5, JobsStay, LockStays, ObjectsStay DEF SafeMove

\* prepare(), and expect() when the database fails, change no row.
LEMMA PrepareMoves ==
  ASSUME TypeOK, Core, NEW w \in Workers, Prepare(w) \/ ExpectFails(w)
  PROVE  SafeMove
<1>1. /\ pc[w] \in {"prepare", "expect"}
      /\ \E step \in {"commit", "requeue", "exhausted", "fail"} : Goto(w, step)
      /\ UNCHANGED <<storeVars, claimed, erasing, todo, target>>
  BY DEF Prepare, ExpectFails, OnTransientError
<1>2. rowLock' # w
  BY <1>1, StoreAssumption DEF Core, LockProtects, storeVars
<1>3. \A x \in Workers : Keeps(x) \/ Moves(x)
  BY <1>1, <1>2, GotoMoves
<1> QED
  BY <1>1, <1>3, JobsStay, IntentsStay, LockStays, ObjectsStay, DeletionStays
     DEF SafeMove, storeVars

\* Every branch of commit_prepared that does not reach S3.
LEMMA CommitEndsMoves ==
  ASSUME TypeOK, Core, NEW w \in Workers, CommitPrepared(w), ~ CommitGoesOn(w)
  PROVE  SafeMove
<1>1. /\ pc[w] = "commit" /\ AgreementRowFree
      /\ UNCHANGED <<tombstoned, job, artifacts, objects>>
  BY DEF CommitPrepared
<1>2. rowLock # w
  BY <1>1, StoreAssumption DEF AgreementRowFree
<1>3. vJob(w) \in Jobs /\ KeyOf[vJob(w)] \in Keys
  BY <1>1, ClaimedJob DEF ProcessingSteps
<1>4. OwnsClaim(w) => NoPutOf(vJob(w))
  BY <1>1, OwnerAlone DEF ProcessingSteps
<1>5. /\ UNCHANGED rowLock
      /\ \A x \in Workers : Keeps(x) \/ Moves(x)
      /\ \A j \in Jobs : IntentMoves(j)
      /\ DeletionMoves
  <2>1. CASE CommitAfterPurge(w)
    BY <1>2, <1>3, <2>1, GotoMoves, IntentsStay, InventoryIfDeletedMoves
       DEF CommitAfterPurge
  <2>2. CASE CommitStale(w)
    <3>1. \A x \in Workers : Keeps(x) \/ Moves(x)
      BY <1>2, <2>2, GotoMoves, ForgetMoves DEF CommitStale
    <3> QED
      BY <1>3, <2>2, <3>1, IntentsStay, InventoryIfDeletedMoves DEF CommitStale
  <2>3. CASE CommitWithoutIntent(w)
    <3>1. \E step \in {"requeue", "exhausted"} : Goto(w, step)
      BY <2>3 DEF CommitWithoutIntent, OnTransientError
    <3>2. \A x \in Workers : Keeps(x) \/ Moves(x)
      BY <1>2, <2>3, <3>1, GotoMoves DEF CommitWithoutIntent
    <3> QED
      BY <2>3, <3>2, IntentsStay, DeletionStays DEF CommitWithoutIntent, KeepDeletion
  <2>4. CASE CommitFindsDeletion(w)
    BY <1>2, <1>3, <1>4, <2>4, GotoMoves, ReconcileMoves DEF CommitFindsDeletion
  <2> QED
    BY <2>1, <2>2, <2>3, <2>4 DEF CommitPrepared
<1> QED
  BY <1>1, <1>5, JobsStay, LockStays, ObjectsStay DEF SafeMove

\* The write to S3, and its failure: the intent of the object stands.
LEMMA PutMoves ==
  ASSUME TypeOK, Core, NEW w \in Workers, PutArtifact(w) \/ PutFails(w)
  PROVE  SafeMove
<1>1. /\ pc[w] = "put"
      /\ objects' \in {objects, objects \cup {KeyOf[vJob(w)]}}
      /\ UNCHANGED <<tombstoned, job, intent, artifacts, claimed, erasing, todo, target>>
      /\ UNCHANGED <<deletion, inventory>>
  BY DEF PutArtifact, PutFails, KeepDeletion
<1>2. /\ OwnsClaim(w) /\ vJob(w) \in Jobs
      /\ intent[vJob(w)] = "expected"
  BY <1>1, ClaimedJob DEF Core, PutIsAnnounced, ProcessingSteps
<1>3. ObjectsMove
  BY <1>1, <1>2 DEF ObjectsMove
<1>4. LockMoves /\ \A x \in Workers : Keeps(x) \/ Moves(x)
  <2>1. CASE PutArtifact(w)
    BY <1>1, <2>1, GotoMoves, LockStays DEF PutArtifact
  <2>2. CASE PutFails(w)
    <3>1. \E step \in {"requeue", "exhausted"} : Goto(w, step)
      BY <2>2 DEF PutFails, OnTransientError
    <3>2. rowLock' = IF rowLock = w THEN None ELSE rowLock
      BY <2>2 DEF PutFails
    <3>3. \A x \in Workers : Keeps(x) \/ Moves(x)
      BY <1>1, <3>1, <3>2, StoreAssumption, GotoMoves
    <3>4. pc'[w] # "put"
      BY <3>1 DEF Goto, TypeOK, WorkerTypeOK
    <3> QED
      BY <3>2, <3>3, <3>4 DEF LockMoves
  <2> QED
    BY <2>1, <2>2
<1> QED
  BY <1>1, <1>3, <1>4, JobsStay, IntentsStay, DeletionStays DEF SafeMove

\* A commit that finds its connection lost changes no row.
LEMMA FinishFailsMoves ==
  ASSUME TypeOK, Core, NEW w \in Workers, FinishFails(w)
  PROVE  SafeMove
<1>1. /\ rowLock' # w
      /\ \E step \in {"requeue", "exhausted"} : Goto(w, step)
      /\ UNCHANGED <<storeVars, claimed, erasing, todo, target>>
  BY DEF FinishFails, OnTransientError, storeVars
<1>2. \A x \in Workers : Keeps(x) \/ Moves(x)
  BY <1>1, GotoMoves
<1> QED
  BY <1>1, <1>2, JobsStay, IntentsStay, LockStays, ObjectsStay, DeletionStays
     DEF SafeMove, storeVars

\* A lost connection frees the row while the writer's lease is unexpired.
LEMMA ConnectionLostMoves ==
  ASSUME TypeOK, Core, ~ LatePuts, NEW w \in Workers, ConnectionLost(w)
  PROVE  SafeMove
<1>1. LockMoves
  BY DEF ConnectionLost, HasLiveClaim, LockMoves
<1>2. UNCHANGED <<tombstoned, job, intent, artifacts, objects, deletion,
                  inventory, pc, claimed, erasing, todo, target>>
  BY DEF ConnectionLost, KeepDeletion, workerVars
<1> QED
  BY <1>1, <1>2, StandStill, JobsStay, IntentsStay, ObjectsStay, DeletionStays
     DEF SafeMove

\* requeue(): the only owner of the claim releases it.
LEMMA RequeueMoves ==
  ASSUME TypeOK, Core, NEW w \in Workers, Requeue(w)
  PROVE  SafeMove
<1>1. /\ pc[w] = "requeue" /\ AgreementRowFree
      /\ UNCHANGED <<tombstoned, rowLock, artifacts, objects, claimed, erasing,
                     todo, target>>
  BY DEF Requeue
<1>2. \E step \in {"ack", "enqueue"} : Goto(w, step)
  BY DEF Requeue, SettleAfterPurge, RequeueFindsDeletion, RequeueRefused,
     RequeueReleases
<1>3. \A x \in Workers : Keeps(x) \/ Moves(x)
  BY <1>1, <1>2, StoreAssumption, GotoMoves DEF AgreementRowFree
<1>4. vJob(w) \in Jobs /\ KeyOf[vJob(w)] \in Keys
  BY <1>1, ClaimedJob DEF ProcessingSteps
<1>5. OwnsClaim(w) => NoPutOf(vJob(w))
  BY <1>1, OwnerAlone DEF ProcessingSteps
<1>6. /\ \A j \in Jobs : JobMoves(j) /\ IntentMoves(j)
      /\ DeletionMoves
  <2>1. CASE SettleAfterPurge(w)
    BY <1>4, <2>1, JobsStay, IntentsStay, LateArtifactMoves, DeletionStays
       DEF SettleAfterPurge, KeepDeletion
  <2>2. CASE RequeueFindsDeletion(w)
    <3>1. /\ DeletionMoves
          /\ inventory'[KeyOf[vJob(w)]] = "pending"
          /\ deletion'.state # "processing"
      BY <1>4, <2>2, LateArtifactMoves DEF RequeueFindsDeletion
    <3>2. \A j \in Jobs : IntentMoves(j)
      BY <1>5, <2>2, <3>1 DEF RequeueFindsDeletion, IntentMoves, TypeOK, StoreTypeOK
    <3> QED
      BY <2>2, <3>1, <3>2, JobsStay DEF RequeueFindsDeletion
  <2>3. CASE RequeueRefused(w)
    BY <2>3, JobsStay, IntentsStay, DeletionStays DEF RequeueRefused, KeepDeletion
  <2>4. CASE RequeueReleases(w)
    <3>1. job[vJob(w)].state = "processing"
      BY <2>4 DEF RequeueReleases, OwnsClaim
    <3>2. vJob(w) \notin artifacts
      BY <3>1 DEF Core, ArtifactRowsAreFinal
    <3>3. \A j \in Jobs : JobMoves(j)
      BY <1>1, <1>4, <1>5, <2>4, <3>1, <3>2, ReleaseMoves DEF RequeueReleases
    <3> QED
      BY <2>4, <3>3, IntentsStay, DeletionStays DEF RequeueReleases, KeepDeletion
  <2> QED
    BY <2>1, <2>2, <2>3, <2>4 DEF Requeue
<1> QED
  BY <1>1, <1>3, <1>6, LockStays, ObjectsStay DEF SafeMove

\* Sending the retry message.
LEMMA EnqueueMoves ==
  ASSUME TypeOK, Core, NEW w \in Workers, Enqueue(w)
  PROVE  SafeMove
<1>1. /\ pc[w] = "enqueue" /\ Goto(w, "ack")
      /\ UNCHANGED <<storeVars, claimed, erasing, todo, target>>
  BY DEF Enqueue
<1>2. rowLock' # w
  BY <1>1, StoreAssumption DEF Core, LockProtects, storeVars
<1>3. \A x \in Workers : Keeps(x) \/ Moves(x)
  BY <1>1, <1>2, GotoMoves
<1> QED
  BY <1>1, <1>3, JobsStay, IntentsStay, LockStays, ObjectsStay, DeletionStays
     DEF SafeMove, storeVars

\* fail(): the only owner of the claim settles its intent.
LEMMA FailMoves ==
  ASSUME TypeOK, Core, NEW w \in Workers, Fail(w)
  PROVE  SafeMove
<1>1. /\ pc[w] \in {"fail", "exhausted"} /\ AgreementRowFree
      /\ UNCHANGED <<tombstoned, rowLock, artifacts, objects, claimed, erasing,
                     todo, target>>
  BY DEF Fail
<1>2. \A x \in Workers : Keeps(x) \/ Moves(x)
  <2>1. Goto(w, "ack")
    BY DEF Fail, SettleAfterPurge
  <2> QED
    BY <1>1, <2>1, StoreAssumption, GotoMoves DEF AgreementRowFree
<1>3. vJob(w) \in Jobs /\ KeyOf[vJob(w)] \in Keys
  BY <1>1, ClaimedJob DEF ProcessingSteps
<1>4. OwnsClaim(w) => NoPutOf(vJob(w))
  BY <1>1, OwnerAlone DEF ProcessingSteps
<1>5. /\ \A j \in Jobs : JobMoves(j) /\ IntentMoves(j)
      /\ DeletionMoves
  <2>1. CASE SettleAfterPurge(w)
    BY <1>3, <2>1, JobsStay, IntentsStay, LateArtifactMoves, DeletionStays
       DEF SettleAfterPurge, KeepDeletion
  <2>2. CASE FailRefused(w)
    BY <1>3, <2>2, JobsStay, IntentsStay, InventoryIfDeletedMoves DEF FailRefused
  <2>3. CASE FailSettles(w)
    <3>1. OwnsClaim(w) /\ job[vJob(w)].state = "processing"
      BY <2>3 DEF FailSettles, OwnsClaim
    <3>2. vJob(w) \notin artifacts
      BY <3>1 DEF Core, ArtifactRowsAreFinal
    <3>3. \A j \in Jobs : JobMoves(j)
      BY <1>1, <1>3, <1>4, <2>3, <3>1, <3>2, ReleaseMoves DEF FailSettles
    <3>4. CASE tombstoned
      <4>1. CASE ReconcileIntent(vJob(w))
        BY <1>3, <1>4, <3>1, <3>3, <3>4, <4>1, ReconcileMoves
      <4>2. CASE UNCHANGED <<intent, inventory, deletion, deletionOutbox>>
        BY <3>3, <4>2, IntentsStay, DeletionStays
      <4> QED
        BY <2>3, <3>4, <4>1, <4>2 DEF FailSettles, ReconcileIntentIfAny
    <3>5. CASE ~ tombstoned
      <4>1. \A j \in Jobs : IntentMoves(j)
        BY <1>4, <2>3, <3>1, <3>5 DEF FailSettles, IntentMoves, TypeOK, StoreTypeOK
      <4> QED
        BY <2>3, <3>3, <3>5, <4>1, DeletionStays DEF FailSettles, KeepDeletion
    <3> QED
      BY <3>4, <3>5
  <2> QED
    BY <2>1, <2>2, <2>3 DEF Fail
<1> QED
  BY <1>1, <1>2, <1>5, LockStays, ObjectsStay DEF SafeMove

-----------------------------------------------------------------------------
(* The other safe moves *)

\* Deleting the message.
LEMMA AcknowledgeMoves ==
  ASSUME TypeOK, Core, NEW w \in Workers, Acknowledge(w)
  PROVE  SafeMove
<1>1. pc[w] = "ack" /\ Forget(w) /\ UNCHANGED storeVars
  BY DEF Acknowledge
<1>2. rowLock' # w
  BY <1>1, StoreAssumption DEF Core, LockProtects, storeVars
<1>3. \A x \in Workers : Keeps(x) \/ Moves(x)
  BY <1>1, <1>2, ForgetMoves
<1> QED
  BY <1>1, <1>3, JobsStay, IntentsStay, LockStays, ObjectsStay, DeletionStays
     DEF SafeMove, storeVars

\* A crash frees the row lock, but ends the handler that held it.
LEMMA CrashMoves ==
  ASSUME TypeOK, Core, NEW w \in Workers, Crash(w)
  PROVE  SafeMove
<1>1. /\ Forget(w) /\ rowLock' = IF rowLock = w THEN None ELSE rowLock
      /\ UNCHANGED <<tombstoned, job, intent, artifacts, objects, deletion, inventory>>
  BY DEF Crash
<1>2. \A x \in Workers : Keeps(x) \/ Moves(x)
  BY <1>1, StoreAssumption, ForgetMoves
<1>3. pc'[w] # "put"
  BY <1>1 DEF Forget, TypeOK, WorkerTypeOK
<1>4. LockMoves
  BY <1>1, <1>3 DEF LockMoves
<1> QED
  BY <1>1, <1>2, <1>4, JobsStay, IntentsStay, ObjectsStay, DeletionStays
     DEF SafeMove

\* claim() when it does not hand out the job.
LEMMA ClaimEndsMoves ==
  ASSUME TypeOK, Core, NEW w \in Workers, NEW m \in queue, Claim(w, m),
         ~ ClaimSucceeds(w, m, m.subject)
  PROVE  SafeMove
<1> DEFINE j == m.subject
<1>1. /\ j \in Jobs /\ AgreementRowFree
      /\ UNCHANGED <<tombstoned, rowLock, artifacts, objects, erasing, todo, target>>
  BY DEF Claim
<1>2. None \notin Workers /\ rowLock' # w
  BY <1>1, StoreAssumption DEF AgreementRowFree
<1>3. CASE ClaimRaises(w, m, j)
  BY <1>1, <1>3, StandStill, JobsStay, IntentsStay, LockStays, ObjectsStay,
     DeletionStays DEF ClaimRaises, KeepDeletion, SafeMove
<1>4. CASE ClaimFindsDeletion(w, m, j)
  <2>1. \A x \in Workers : Keeps(x) \/ Moves(x)
    BY <1>1, <1>2, <1>4, GotoMoves DEF ClaimFindsDeletion
  <2>2. DeletionMoves /\ \A i \in Jobs : IntentMoves(i)
    <3>1. CASE ReconcileIntent(j)
      <4>1. tombstoned /\ NoPutOf(j)
        BY <1>1, <1>2, <1>4, UnclaimedAlone DEF ClaimFindsDeletion
      <4> QED
        BY <1>1, <3>1, <4>1, ReconcileMoves
    <3>2. CASE UNCHANGED <<intent, inventory, deletion, deletionOutbox>>
      BY <3>2, IntentsStay, DeletionStays
    <3> QED
      BY <1>4, <3>1, <3>2 DEF ClaimFindsDeletion, ReconcileIntentIfAny
  <2> QED
    BY <1>1, <1>4, <2>1, <2>2, JobsStay, LockStays, ObjectsStay
       DEF ClaimFindsDeletion, SafeMove
<1>5. CASE ClaimFindsArtifact(w, m, j)
  <2>1. \A x \in Workers : Keeps(x) \/ Moves(x)
    BY <1>1, <1>2, <1>5, GotoMoves DEF ClaimFindsArtifact
  <2>2. job[j].state = "completed"
    BY <1>5 DEF ClaimFindsArtifact, Core, ArtifactRowsAreFinal
  <2>3. NoPutOf(j)
    BY <1>1, <1>2, <2>2, UnclaimedAlone DEF HasLiveClaim
  <2>4. \A i \in Jobs : JobMoves(i)
    BY <1>1, <1>5, <2>2, <2>3, ReleaseMoves DEF ClaimFindsArtifact
  <2> QED
    BY <1>1, <1>5, <2>1, <2>4, IntentsStay, LockStays, ObjectsStay, DeletionStays
       DEF ClaimFindsArtifact, KeepDeletion, SafeMove
<1>6. CASE ClaimFindsNothing(w, m, j)
  <2>1. \A x \in Workers : Keeps(x) \/ Moves(x)
    BY <1>1, <1>2, <1>6, GotoMoves DEF ClaimFindsNothing
  <2> QED
    BY <1>1, <1>6, <2>1, JobsStay, IntentsStay, LockStays, ObjectsStay, DeletionStays
       DEF ClaimFindsNothing, KeepDeletion, SafeMove
<1> QED
  BY <1>3, <1>4, <1>5, <1>6 DEF Claim

\* pending_objects() lists keys of a deleted agreement.
LEMMA ListPendingMoves ==
  ASSUME TypeOK, Core, NEW w \in Workers, ListPending(w)
  PROVE  SafeMove
<1> DEFINE pending == IF ClaimIsCurrent(w) THEN PendingKeys ELSE {}
<1>1. /\ pc[w] = "list" /\ todo' = [todo EXCEPT ![w] = pending]
      /\ Goto(w, AfterItem(pending))
      /\ UNCHANGED <<storeVars, claimed, erasing, target>>
  BY DEF ListPending
<1>2. rowLock' # w
  BY <1>1, StoreAssumption DEF Core, LockProtects, storeVars
<1>3. pending # {} => tombstoned
  BY DEF ClaimIsCurrent, Core, DeletionStarts
<1>4. AfterItem(pending) \in {"purge", "erase"}
  BY DEF AfterItem
<1>5. \A x \in Workers : Keeps(x) \/ Moves(x)
  <2> HIDE DEF pending
  <2> QED
    BY <1>1, <1>2, <1>3, <1>4 DEF Goto, Keeps, Moves, TypeOK, WorkerTypeOK
<1> QED
  BY <1>1, <1>5, JobsStay, IntentsStay, LockStays, ObjectsStay, DeletionStays
     DEF SafeMove, storeVars

\* A purge the database refuses changes no row.
LEMMA PurgeRaisesMoves ==
  ASSUME TypeOK, Core, NEW w \in Workers, PurgeRaises(w)
  PROVE  SafeMove
<1>1. /\ pc[w] = "purge" /\ Goto(w, "purge_failed")
      /\ UNCHANGED <<storeVars, claimed, erasing, todo, target>>
  BY DEF PurgeRaises
<1>2. rowLock' # w
  BY <1>1, StoreAssumption DEF Core, LockProtects, storeVars
<1>3. \A x \in Workers : Keeps(x) \/ Moves(x)
  BY <1>1, <1>2, GotoMoves
<1> QED
  BY <1>1, <1>3, JobsStay, IntentsStay, LockStays, ObjectsStay, DeletionStays
     DEF SafeMove, storeVars

\* mark_deleted() without the claim changes no row.
LEMMA MarkRaisesMoves ==
  ASSUME TypeOK, Core, NEW w \in Workers, MarkDeleted(w), ~ FinishObject(w)
  PROVE  SafeMove
<1>1. /\ pc[w] = "mark" /\ Forget(w)
      /\ UNCHANGED <<tombstoned, rowLock, job, intent, artifacts, objects,
                     inventory, deletion>>
  BY DEF MarkDeleted, MarkRaises
<1>2. rowLock' # w
  BY <1>1, StoreAssumption DEF Core, LockProtects
<1>3. \A x \in Workers : Keeps(x) \/ Moves(x)
  BY <1>1, <1>2, ForgetMoves
<1> QED
  BY <1>1, <1>3, JobsStay, IntentsStay, LockStays, ObjectsStay, DeletionStays
     DEF SafeMove

\* A purge without the claim, or blocked, changes no row.
LEMMA PurgeRefusedMoves ==
  ASSUME TypeOK, Core, NEW w \in Workers, CompleteAndPurge(w), ~ PurgeRows(w)
  PROVE  SafeMove
<1>1. /\ AgreementRowFree /\ PurgeRefused(w)
      /\ UNCHANGED <<tombstoned, rowLock, objects, claimed, erasing, todo, target>>
  BY DEF CompleteAndPurge
<1>2. \E step \in {"ack", "purge_failed"} : Goto(w, step)
  BY <1>1 DEF PurgeRefused
<1>3. \A x \in Workers : Keeps(x) \/ Moves(x)
  BY <1>1, <1>2, StoreAssumption, GotoMoves DEF AgreementRowFree
<1> QED
  BY <1>1, <1>3, JobsStay, IntentsStay, LockStays, ObjectsStay, DeletionStays
     DEF PurgeRefused, KeepDeletion, SafeMove

\* A failed attempt, by S3 or by the checks of the purge.
LEMMA FailedAttemptMoves ==
  ASSUME TypeOK, Core, NEW w \in Workers, PurgeFailed(w) \/ EraseFails(w)
  PROVE  SafeMove
<1>1. /\ pc[w] \in {"purge_failed", "erase"} /\ Goto(w, "ack") /\ ReleaseForRetry(w)
      /\ UNCHANGED <<tombstoned, rowLock, job, intent, artifacts, objects,
                     inventory, claimed, erasing, todo, target>>
  BY DEF PurgeFailed, EraseFails
<1>2. rowLock' # w
  BY <1>1, StoreAssumption DEF Core, LockProtects
<1>3. \A x \in Workers : Keeps(x) \/ Moves(x)
  BY <1>1, <1>2, GotoMoves
<1>4. DeletionMoves
  <2>1. CASE ClaimIsCurrent(w) /\ deletion' = AfterFailedAttempt
    <3>1. /\ deletion'.state \in {"retrying", "failed"}
          /\ deletion'.cycle = deletion.cycle /\ deletion'.attempt = deletion.attempt
      BY <2>1 DEF AfterFailedAttempt, TypeOK, StoreTypeOK, DeletionRow
    <3> QED
      BY <1>1, <2>1, <3>1
         DEF ClaimIsCurrent, DeletionMoves, TypeOK, StoreTypeOK, DeletionRow
  <2>2. CASE UNCHANGED deletion
    BY <1>1, <2>2, DeletionStays
  <2> QED
    BY <1>1, <2>1, <2>2 DEF ReleaseForRetry
<1> QED
  BY <1>1, <1>3, <1>4, JobsStay, IntentsStay, LockStays, ObjectsStay DEF SafeMove

\* The lease of a handler that is writing its object does not expire.
LEMMA ExpireClaimMoves ==
  ASSUME TypeOK, Core, ~ LatePuts, NEW j \in Jobs, ExpireClaim(j)
  PROVE  SafeMove
<1>1. UNCHANGED <<tombstoned, rowLock, intent, artifacts, objects, deletion,
                  inventory, pc, claimed, erasing, todo, target>>
  BY DEF ExpireClaim, KeepDeletion, workerVars
<1>2. NoPutOf(j)
  <2> SUFFICES ASSUME NEW x \in Workers, pc[x] = "put", vJob(x) = j
               PROVE  FALSE
    BY DEF NoPutOf
  <2>1. claimed[x] # None /\ claimed[x] \in JobClaim
    BY DEF TypeOK, WorkerTypeOK, ProcessingSteps
  <2>2. claimed[x].job = j /\ claimed[x].attempt = job[j].attempt
    BY DEF Core, PutIsAnnounced, OwnsClaim, vJob
  <2>3. Owner(x, j)
    BY <2>1, <2>2 DEF Owner, JobClaim
  <2> QED
    BY <2>3 DEF ExpireClaim
<1>3. \A i \in Jobs : JobMoves(i)
  BY <1>2 DEF ExpireClaim, JobMoves, TypeOK, StoreTypeOK, JobRow
<1> QED
  BY <1>1, <1>3, StandStill, IntentsStay, LockStays, ObjectsStay, DeletionStays
     DEF SafeMove

\* Leases, back-offs, the sweeper's recovery and a redrive.
LEMMA DeletionRowMoves ==
  ASSUME TypeOK, Core,
         \/ ExpireDeletionClaim \/ DeletionComesDue \/ RedriveDeletion
         \/ \E s \in Sweepers : RecoverStaleDeletion(s)
  PROVE  SafeMove
<1>1. UNCHANGED <<tombstoned, rowLock, job, intent, artifacts, objects,
                  inventory, pc, claimed, erasing, todo, target>>
  BY DEF ExpireDeletionClaim, DeletionComesDue, RedriveDeletion,
     RecoverStaleDeletion, workerVars
<1>2. deletion \in DeletionRow
  BY DEF TypeOK, StoreTypeOK
<1>3. DeletionMoves
  <2>1. CASE ExpireDeletionClaim
    BY <1>1, <1>2, <2>1 DEF ExpireDeletionClaim, DeletionMoves, DeletionRow
  <2>2. CASE DeletionComesDue
    BY <1>1, <1>2, <2>2 DEF DeletionComesDue, DeletionMoves, DeletionRow
  <2>3. CASE RedriveDeletion
    BY <1>1, <1>2, <2>3 DEF RedriveDeletion, DeletionMoves, DeletionRow
  <2>4. CASE \E s \in Sweepers : RecoverStaleDeletion(s)
    BY <1>1, <1>2, <2>4 DEF RecoverStaleDeletion, DeletionMoves, DeletionRow
  <2> QED
    BY <2>1, <2>2, <2>3, <2>4
<1> QED
  BY <1>1, <1>3, StandStill, JobsStay, IntentsStay, LockStays, ObjectsStay
     DEF SafeMove

\* submit() and retry(): a job nobody works on becomes queued.
LEMMA SubmitMoves ==
  ASSUME TypeOK, Core, NEW j \in Jobs, Submit(j) \/ Retry(j)
  PROVE  SafeMove
<1>1. /\ AgreementRowFree /\ ~ tombstoned /\ job[j].state \in {"absent", "failed"}
      /\ UNCHANGED <<tombstoned, rowLock, intent, artifacts, objects, deletion,
                     inventory, pc, claimed, erasing, todo, target>>
  BY DEF Submit, Retry, KeepDeletion, workerVars
<1>2. NoPutOf(j)
  BY <1>1, StoreAssumption, UnclaimedAlone DEF HasLiveClaim
<1>3. /\ job'[j].state = "queued" /\ job'[j].attempt = job[j].attempt
      /\ \A i \in Jobs : i # j => job'[i] = job[i]
  <2>1. job[j].state = "absent" => job[j].attempt = 0
    BY <1>1 DEF Core, JobClaimsAreOrdered
  <2> QED
    BY <2>1 DEF Submit, Retry, TypeOK, StoreTypeOK, JobRow
<1>4. j \notin artifacts
  BY <1>1 DEF Core, ArtifactRowsAreFinal
<1>5. \A i \in Jobs : JobMoves(i)
  BY <1>1, <1>2, <1>3, <1>4 DEF JobMoves, AgreementRowFree
<1> QED
  BY <1>1, <1>5, StandStill, IntentsStay, LockStays, ObjectsStay, DeletionStays
     DEF SafeMove

\* Steps of the queue, the outboxes and the dispatcher.
LEMMA FrameMoves ==
  ASSUME TypeOK,
         UNCHANGED <<tombstoned, rowLock, job, intent, artifacts, objects,
                     deletion, inventory, pc, claimed, erasing, todo, target>>
  PROVE  SafeMove
BY StandStill, JobsStay, IntentsStay, LockStays, ObjectsStay, DeletionStays
   DEF SafeMove

-----------------------------------------------------------------------------
(* The steps that are not safe moves *)

\* claim() hands out the job under a new attempt number.
LEMMA ClaimSucceedsKeepsCore ==
  ASSUME TypeOK, TypeOK', Core, NEW w \in Workers, NEW m \in queue, Claim(w, m),
         ClaimSucceeds(w, m, m.subject)
  PROVE  Core'
<1> DEFINE j == m.subject
           c == [job |-> j, attempt |-> job[j].attempt + 1]
<1>1. /\ j \in Jobs /\ AgreementRowFree /\ ~ tombstoned /\ j \notin artifacts
      /\ UNCHANGED <<tombstoned, rowLock, artifacts, objects, intent, deletion,
                     inventory, erasing, todo, target>>
  BY DEF Claim, ClaimSucceeds, KeepDeletion
<1>2. /\ job \in [Jobs -> JobRow] /\ pc[w] = "idle"
      /\ job'[j].state = "processing" /\ job'[j].attempt = job[j].attempt + 1
      /\ \A i \in Jobs : i # j => job'[i] = job[i]
  BY <1>1 DEF ClaimSucceeds, TakeMessage, TypeOK, StoreTypeOK
<1>3. /\ claimed'[w] = c /\ pc'[w] = "expect"
      /\ \A x \in Workers : x # w => claimed'[x] = claimed[x] /\ pc'[x] = pc[x]
  BY <1>1 DEF ClaimSucceeds, Goto, TypeOK, WorkerTypeOK
<1>4. \A x \in Workers : /\ claimed[x] \in JobClaim \cup {None}
                         /\ claimed[x] # None => vJob(x) \in Jobs
  BY DEF TypeOK, WorkerTypeOK, JobClaim, vJob
<1>5. NoPutOf(j)
  <2>1. ~ HasLiveClaim(j)
    BY DEF ClaimSucceeds, HasLiveClaim
  <2> QED
    BY <1>1, <2>1, StoreAssumption, UnclaimedAlone
<1>6. JobClaimsAreOrdered'
  <2>1. \A x \in Workers : x # w /\ claimed'[x] # None =>
          /\ 1 <= claimed'[x].attempt
          /\ claimed'[x].attempt <= job[vJob(x)].attempt
          /\ job[vJob(x)].attempt <= job'[vJob(x)].attempt
    BY <1>2, <1>3, <1>4 DEF Core, JobClaimsAreOrdered, JobRow
  <2>2. \A x \in Workers : claimed'[x] # None =>
          1 <= claimed'[x].attempt /\ claimed'[x].attempt <= job'[claimed'[x].job].attempt
    BY <1>1, <1>2, <1>3, <1>4, <2>1 DEF vJob, JobRow, JobClaim
  <2>3. \A x \in Workers : x # w => claimed'[x] # c
    <3> SUFFICES ASSUME NEW x \in Workers, x # w, claimed[x] = c
                 PROVE  FALSE
      BY <1>3
    <3>1. c # None
      BY <1>1, <1>2, NoneAssumption DEF JobClaim, JobRow
    <3>2. job[j].attempt + 1 <= job[j].attempt
      BY <3>1 DEF Core, JobClaimsAreOrdered, vJob
    <3> QED
      BY <1>1, <1>2, <3>2 DEF JobRow
  <2>4. \A x, y \in Workers :
          claimed'[x] # None /\ claimed'[x] = claimed'[y] => x = y
    BY <1>3, <2>3 DEF Core, JobClaimsAreOrdered
  <2>5. \A i \in Jobs : job'[i].state = "absent" => job'[i].attempt = 0
    BY <1>1, <1>2 DEF Core, JobClaimsAreOrdered
  <2> QED
    BY <2>2, <2>4, <2>5 DEF JobClaimsAreOrdered, vJob
<1>7. PutIsAnnounced'
  <2> SUFFICES ASSUME NEW x \in Workers, pc'[x] = "put"
               PROVE  /\ OwnsClaim(x)'
                      /\ intent[vJob(x)'] = "expected"
                      /\ rowLock = x \/ job'[vJob(x)'].live
    BY <1>1 DEF PutIsAnnounced
  <2>1. /\ pc[x] = "put" /\ vJob(x)' = vJob(x)
        /\ job'[vJob(x)] = job[vJob(x)] /\ claimed'[x] = claimed[x]
    BY <1>2, <1>3, <1>4, <1>5, ClaimedJob DEF NoPutOf, vJob, ProcessingSteps
  <2> QED
    BY <2>1 DEF Core, PutIsAnnounced, OwnsClaim
<1>8. DeletionStarts' /\ DeletionClaimsAreOrdered' /\ OnlyDeletedIsErased'
  BY <1>1 DEF Core, DeletionStarts, DeletionClaimsAreOrdered, OnlyDeletedIsErased
<1>9. ArtifactRowsAreFinal'
  BY <1>1, <1>2 DEF Core, ArtifactRowsAreFinal, TypeOK, StoreTypeOK
<1>10. LockProtects'
  BY <1>1 DEF LockProtects, AgreementRowFree
<1>11. MarkIsTrue' /\ CompletedIsErased'
  BY <1>1 DEF Core, DeletionStarts, MarkIsTrue, CompletedIsErased, ClaimIsCurrent
<1>12. NoOrphanObject'
  BY <1>1 DEF Core, NoOrphanObject, ObjectIsKnown
<1> QED
  BY <1>6, <1>7, <1>8, <1>9, <1>10, <1>11, <1>12 DEF Core

\* commit_prepared takes the row lock and goes on to S3.
LEMMA CommitGoesOnKeepsCore ==
  ASSUME TypeOK, Core, NEW w \in Workers, CommitPrepared(w), CommitGoesOn(w)
  PROVE  Core'
<1>1. /\ AgreementRowFree /\ OwnsClaim(w) /\ ~ tombstoned
      /\ intent[vJob(w)] = "expected" /\ rowLock' = w
      /\ UNCHANGED <<tombstoned, job, intent, artifacts, objects, deletion,
                     inventory, claimed, erasing, todo, target>>
  BY DEF CommitPrepared, CommitGoesOn, KeepDeletion
<1>2. pc'[w] = "put" /\ \A x \in Workers : x # w => pc'[x] = pc[x]
  BY DEF CommitGoesOn, Goto, TypeOK, WorkerTypeOK
<1>3. OwnsClaim(w)' /\ \A x \in Workers : vJob(x)' = vJob(x) /\ (OwnsClaim(x)' <=> OwnsClaim(x))
  BY <1>1 DEF OwnsClaim, vJob
<1>4. LockProtects'
  BY <1>1, <1>2, <1>3 DEF LockProtects
<1>5. PutIsAnnounced'
  BY <1>1, <1>2, <1>3, StoreAssumption DEF Core, PutIsAnnounced, AgreementRowFree
<1>6. MarkIsTrue' /\ CompletedIsErased'
  BY <1>1 DEF Core, DeletionStarts, MarkIsTrue, CompletedIsErased, ClaimIsCurrent
<1> QED
  BY <1>1, <1>4, <1>5, <1>6
     DEF Core, DeletionStarts, JobClaimsAreOrdered, DeletionClaimsAreOrdered,
         ArtifactRowsAreFinal, OnlyDeletedIsErased, NoOrphanObject,
         ObjectIsKnown, vJob

\* ... and commits: the artifact row takes over from the intent.
LEMMA FinishCommitKeepsCore ==
  ASSUME TypeOK, TypeOK', Core, NEW w \in Workers, FinishCommit(w)
  PROVE  Core'
<1> DEFINE v == vJob(w)
<1>1. /\ pc[w] = "finish" /\ rowLock = w /\ rowLock' = None
      /\ artifacts' = artifacts \cup {v}
      /\ UNCHANGED <<tombstoned, objects, deletion, inventory, claimed, erasing,
                     todo, target>>
  BY DEF FinishCommit, KeepDeletion
<1>2. OwnsClaim(w) /\ ~ tombstoned
  BY <1>1, StoreAssumption DEF Core, LockProtects
<1>3. v \in Jobs /\ NoPutOf(v)
  BY <1>1, <1>2, ClaimedJob, OwnerAlone DEF ProcessingSteps
<1>4. /\ job'[v].state = "completed" /\ job'[v].attempt = job[v].attempt
      /\ intent'[v] = "none"
      /\ \A i \in Jobs : i # v => job'[i] = job[i] /\ intent'[i] = intent[i]
  BY <1>3 DEF FinishCommit, Released, TypeOK, StoreTypeOK, JobRow
<1>5. pc'[w] = "ack" /\ \A x \in Workers : x # w => pc'[x] = pc[x]
  BY DEF FinishCommit, Goto, TypeOK, WorkerTypeOK
<1>6. JobClaimsAreOrdered'
  <2>1. \A i \in Jobs : job'[i].attempt = job[i].attempt
    BY <1>4
  <2>2. \A x \in Workers : claimed[x] # None => vJob(x) \in Jobs /\ vJob(x)' = vJob(x)
    BY <1>1 DEF TypeOK, WorkerTypeOK, JobClaim, vJob
  <2>3. \A i \in Jobs : job'[i].state = "absent" => job[i].state = "absent"
    BY <1>4
  <2> QED
    BY <1>1, <2>1, <2>2, <2>3 DEF Core, JobClaimsAreOrdered
<1>7. PutIsAnnounced'
  <2> SUFFICES ASSUME NEW x \in Workers, pc'[x] = "put"
               PROVE  /\ OwnsClaim(x)'
                      /\ intent'[vJob(x)'] = "expected"
                      /\ job'[vJob(x)'].live
    BY DEF PutIsAnnounced
  <2>1. x # w /\ pc[x] = "put" /\ vJob(x) # v /\ vJob(x) \in Jobs
    BY <1>3, <1>5, ClaimedJob DEF NoPutOf, ProcessingSteps
  <2>2. /\ OwnsClaim(x) /\ intent[vJob(x)] = "expected" /\ job[vJob(x)].live
    BY <1>1, <2>1 DEF Core, PutIsAnnounced
  <2>3. vJob(x)' = vJob(x)
    BY <1>1 DEF vJob
  <2> QED
    BY <1>1, <1>4, <2>1, <2>2, <2>3 DEF OwnsClaim
<1>8. ArtifactRowsAreFinal'
  BY <1>1, <1>3, <1>4 DEF Core, ArtifactRowsAreFinal, TypeOK, StoreTypeOK
<1>9. LockProtects'
  BY <1>1 DEF LockProtects
<1>10. MarkIsTrue' /\ CompletedIsErased'
  BY <1>1, <1>2 DEF Core, DeletionStarts, MarkIsTrue, CompletedIsErased, ClaimIsCurrent
<1>11. NoOrphanObject'
  BY <1>1, <1>2, <1>3, <1>4 DEF Core, NoOrphanObject, ObjectIsKnown
<1>12. DeletionStarts' /\ DeletionClaimsAreOrdered' /\ OnlyDeletedIsErased'
  BY <1>1 DEF Core, DeletionStarts, DeletionClaimsAreOrdered, OnlyDeletedIsErased
<1> QED
  BY <1>6, <1>7, <1>8, <1>9, <1>10, <1>11, <1>12 DEF Core

\* A deletion claim that is refused is a safe move.
LEMMA ClaimRefusedMoves ==
  ASSUME TypeOK, Core, NEW w \in Workers, NEW m \in queue, ClaimDeletion(w, m),
         ~ DeletionClaimSucceeds(w)
  PROVE  SafeMove
<1>1. /\ pc[w] = "idle" /\ Goto(w, "ack")
      /\ UNCHANGED <<tombstoned, rowLock, job, intent, artifacts, objects,
                     inventory, deletion, claimed, erasing, todo, target>>
  BY DEF ClaimDeletion, DeletionClaimRefused, TakeMessage
<1>2. rowLock' # w
  BY <1>1, StoreAssumption DEF Core, LockProtects
<1>3. \A x \in Workers : Keeps(x) \/ Moves(x)
  BY <1>1, <1>2, GotoMoves
<1> QED
  BY <1>1, <1>3, JobsStay, IntentsStay, LockStays, ObjectsStay, DeletionStays
     DEF SafeMove

\* A new deletion claim voids the older ones.
LEMMA DeletionClaimKeepsCore ==
  ASSUME TypeOK, Core, NEW w \in Workers, NEW m \in queue, ClaimDeletion(w, m),
         DeletionClaimSucceeds(w)
  PROVE  Core'
<1>1. /\ pc[w] = "idle"
      /\ deletion.state \notin {"none", "completed"}
      /\ UNCHANGED <<tombstoned, rowLock, job, intent, artifacts, objects,
                     inventory, claimed, todo, target>>
  BY DEF ClaimDeletion, TakeMessage, DeletionClaimSucceeds, CanClaimDeletion
<1>2. /\ deletion \in DeletionRow
      /\ deletion'.state = "processing" /\ deletion'.cycle = deletion.cycle
      /\ deletion'.attempt = deletion.attempt + 1
  BY DEF DeletionClaimSucceeds, TypeOK, StoreTypeOK, DeletionRow
<1>3. /\ erasing'[w] = [cycle |-> deletion.cycle, attempt |-> deletion.attempt + 1]
      /\ pc'[w] = "list"
      /\ \A x \in Workers : x # w => erasing'[x] = erasing[x] /\ pc'[x] = pc[x]
  BY DEF DeletionClaimSucceeds, Goto, TypeOK, WorkerTypeOK
<1>4. tombstoned /\ rowLock # w
  BY <1>1, StoreAssumption DEF Core, DeletionStarts, LockProtects
<1>5. DeletionClaimsAreOrdered'
  <2> SUFFICES ASSUME NEW x \in Workers, erasing'[x] # None
               PROVE  \/ erasing'[x].cycle < deletion'.cycle
                      \/ /\ erasing'[x].cycle = deletion'.cycle
                         /\ erasing'[x].attempt <= deletion'.attempt
    BY DEF DeletionClaimsAreOrdered
  <2>1. CASE x = w
    BY <1>2, <1>3, <2>1 DEF DeletionRow
  <2>2. CASE x # w
    <3>1. erasing'[x] = erasing[x] /\ erasing[x] \in DeletionClaim
      BY <1>3, <2>2 DEF TypeOK, WorkerTypeOK
    <3> QED
      BY <1>2, <3>1
         DEF Core, DeletionClaimsAreOrdered, DeletionClaim, DeletionRow
  <2> QED
    BY <2>1, <2>2
<1>6. MarkIsTrue'
  <2> SUFFICES ASSUME NEW x \in Workers, pc'[x] = "mark", ClaimIsCurrent(x)'
               PROVE  FALSE
    BY DEF MarkIsTrue
  <2>1. x # w /\ erasing[x] = [cycle |-> deletion.cycle, attempt |-> deletion.attempt + 1]
    BY <1>2, <1>3 DEF ClaimIsCurrent
  <2>2. erasing[x] # None
    <3>1. erasing[x] \in DeletionClaim
      BY <1>2, <2>1 DEF DeletionClaim, DeletionRow
    <3> QED
      BY <3>1, NoneAssumption
  <2> QED
    BY <1>2, <2>1, <2>2 DEF Core, DeletionClaimsAreOrdered, DeletionRow
<1>7. DeletionStarts' /\ OnlyDeletedIsErased' /\ CompletedIsErased'
  BY <1>1, <1>2, <1>4 DEF DeletionStarts, OnlyDeletedIsErased, CompletedIsErased
<1>8. LockProtects' /\ PutIsAnnounced'
  BY <1>1, <1>3, <1>4 DEF Core, LockProtects, PutIsAnnounced, OwnsClaim, vJob
<1>9. JobClaimsAreOrdered' /\ ArtifactRowsAreFinal' /\ NoOrphanObject'
  BY <1>1 DEF Core, JobClaimsAreOrdered, ArtifactRowsAreFinal, NoOrphanObject,
     ObjectIsKnown, vJob
<1> QED
  BY <1>5, <1>6, <1>7, <1>8, <1>9 DEF Core

\* The S3 delete of a listed object.
LEMMA EraseObjectKeepsCore ==
  ASSUME TypeOK, Core, NEW w \in Workers, EraseObject(w)
  PROVE  Core'
<1>1. /\ pc[w] = "erase" /\ Goto(w, "mark")
      /\ UNCHANGED <<tombstoned, rowLock, job, intent, artifacts, deletion,
                     inventory, claimed, erasing>>
  BY DEF EraseObject
<1>2. PICK k \in todo[w] : /\ objects' = objects \ {k}
                           /\ todo' = [todo EXCEPT ![w] = @ \ {k}]
                           /\ target' = [target EXCEPT ![w] = k]
  BY DEF EraseObject
<1>3. /\ pc'[w] = "mark" /\ target'[w] = k
      /\ \A x \in Workers : x # w =>
           pc'[x] = pc[x] /\ target'[x] = target[x]
  BY <1>1, <1>2 DEF Goto, TypeOK, WorkerTypeOK
<1>4. tombstoned
  BY <1>2 DEF Core, OnlyDeletedIsErased
<1>5. MarkIsTrue'
  BY <1>1, <1>2, <1>3 DEF Core, MarkIsTrue, ClaimIsCurrent
<1>6. DeletionStarts' /\ OnlyDeletedIsErased' /\ CompletedIsErased' /\ NoOrphanObject'
  BY <1>1, <1>2, <1>4
     DEF Core, DeletionStarts, OnlyDeletedIsErased, CompletedIsErased,
         NoOrphanObject, ObjectIsKnown
<1>7. LockProtects' /\ PutIsAnnounced'
  BY <1>1, <1>3, <1>4 DEF Core, LockProtects, PutIsAnnounced, OwnsClaim, vJob
<1>8. JobClaimsAreOrdered' /\ DeletionClaimsAreOrdered' /\ ArtifactRowsAreFinal'
  BY <1>1 DEF Core, JobClaimsAreOrdered, DeletionClaimsAreOrdered,
     ArtifactRowsAreFinal, vJob
<1> QED
  BY <1>5, <1>6, <1>7, <1>8 DEF Core

\* mark_deleted of an object that is gone, or that an intent still names.
LEMMA FinishObjectKeepsCore ==
  ASSUME TypeOK, Core, NEW w \in Workers, MarkDeleted(w), FinishObject(w)
  PROVE  Core'
<1>1. /\ pc[w] = "mark" /\ ClaimIsCurrent(w)
      /\ UNCHANGED <<tombstoned, rowLock, job, intent, artifacts, objects,
                     claimed, erasing, todo>>
  BY DEF MarkDeleted, FinishObject
<1>2. /\ deletion'.state = deletion.state /\ deletion'.cycle = deletion.cycle
      /\ deletion'.attempt = deletion.attempt
  BY DEF FinishObject, TypeOK, StoreTypeOK, DeletionRow
<1>3. \A k \in Keys : k # target[w] => inventory'[k] = inventory[k]
  BY DEF FinishObject, TypeOK, StoreTypeOK
<1>4. /\ pc'[w] \in {"purge", "erase"}
      /\ \A x \in Workers : x # w =>
           pc'[x] = pc[x] /\ target'[x] = target[x]
  BY DEF FinishObject, Goto, AfterItem, TypeOK, WorkerTypeOK
<1>5. tombstoned /\ deletion.state = "processing"
  BY <1>1 DEF Core, DeletionStarts, ClaimIsCurrent
<1>6. NoOrphanObject'
  <2> SUFFICES ASSUME NEW k \in objects
               PROVE  \/ inventory'[k] = "pending"
                      \/ \E j \in Jobs : KeyOf[j] = k /\ intent[j] = "expected"
    BY <1>1, <1>5 DEF NoOrphanObject, ObjectIsKnown
  <2>1. CASE k = target[w]
    BY <1>1, <2>1 DEF Core, MarkIsTrue
  <2>2. CASE k # target[w]
    BY <1>3, <1>5, <2>2 DEF Core, NoOrphanObject, ObjectIsKnown, TypeOK, StoreTypeOK
  <2> QED
    BY <2>1, <2>2
<1>7. MarkIsTrue'
  BY <1>1, <1>2, <1>4 DEF Core, MarkIsTrue, ClaimIsCurrent
<1>8. LockProtects' /\ PutIsAnnounced'
  BY <1>1, <1>4, <1>5 DEF Core, LockProtects, PutIsAnnounced, OwnsClaim, vJob
<1>9. /\ DeletionStarts' /\ OnlyDeletedIsErased' /\ CompletedIsErased'
      /\ DeletionClaimsAreOrdered'
  BY <1>1, <1>2, <1>5
     DEF Core, DeletionStarts, OnlyDeletedIsErased, CompletedIsErased,
         DeletionClaimsAreOrdered
<1>10. JobClaimsAreOrdered' /\ ArtifactRowsAreFinal'
  BY <1>1 DEF Core, JobClaimsAreOrdered, ArtifactRowsAreFinal, vJob
<1> QED
  BY <1>6, <1>7, <1>8, <1>9, <1>10 DEF Core

\* The purge: nothing is pending and no intent is expected, so no object is
\* left and no handler is about to write one.
LEMMA PurgeKeepsCore ==
  ASSUME TypeOK, Core, NEW w \in Workers, CompleteAndPurge(w), PurgeRows(w)
  PROVE  Core'
<1>1. /\ AgreementRowFree /\ ClaimIsCurrent(w) /\ ~ PurgeIsBlocked
      /\ artifacts' = {}
      /\ UNCHANGED <<tombstoned, rowLock, objects, claimed, erasing, todo, target>>
  BY DEF CompleteAndPurge, PurgeRows
<1>2. /\ deletion'.state = "completed" /\ deletion'.cycle = deletion.cycle
      /\ deletion'.attempt = deletion.attempt
      /\ \A j \in Jobs : /\ job'[j].state = "absent" /\ intent'[j] = "none"
                         /\ job'[j].attempt = job[j].attempt
  <2>1. /\ deletion'.state = "completed" /\ deletion'.cycle = deletion.cycle
        /\ deletion'.attempt = deletion.attempt
    BY DEF PurgeRows, TypeOK, StoreTypeOK, DeletionRow
  <2>2. \A j \in Jobs : job'[j] = [job[j] EXCEPT !.state = "absent", !.live = FALSE]
    BY DEF PurgeRows
  <2>3. \A j \in Jobs : job[j] \in JobRow /\ intent'[j] = "none"
    BY DEF PurgeRows, TypeOK, StoreTypeOK
  <2> QED
    BY <2>1, <2>2, <2>3 DEF JobRow
<1>3. tombstoned
  BY <1>1 DEF Core, DeletionStarts, ClaimIsCurrent
<1>4. objects = {}
  BY <1>1, <1>3 DEF Core, NoOrphanObject, ObjectIsKnown, PurgeIsBlocked,
     PendingKeys, UnresolvedIntent, TypeOK, StoreTypeOK
<1>5. \A x \in Workers : pc'[x] # "put"
  <2>1. \A x \in Workers : pc[x] # "put"
    BY <1>1, ClaimedJob DEF Core, PutIsAnnounced, PurgeIsBlocked,
       UnresolvedIntent, ProcessingSteps
  <2> QED
    BY <2>1 DEF PurgeRows, Goto, TypeOK, WorkerTypeOK
<1>6. JobClaimsAreOrdered'
  <2>1. \A x \in Workers : claimed[x] # None => vJob(x) \in Jobs /\ vJob(x)' = vJob(x)
    BY <1>1 DEF TypeOK, WorkerTypeOK, JobClaim, vJob
  <2> QED
    BY <1>1, <1>2, <1>3, <2>1 DEF Core, JobClaimsAreOrdered
<1>7. DeletionStarts' /\ DeletionClaimsAreOrdered' /\ OnlyDeletedIsErased'
  BY <1>1, <1>2, <1>3
     DEF Core, DeletionStarts, DeletionClaimsAreOrdered, OnlyDeletedIsErased
<1>8. ArtifactRowsAreFinal' /\ LockProtects' /\ PutIsAnnounced'
  BY <1>1, <1>5 DEF ArtifactRowsAreFinal, LockProtects, PutIsAnnounced, AgreementRowFree
<1>9. MarkIsTrue' /\ NoOrphanObject' /\ CompletedIsErased'
  BY <1>1, <1>2, <1>4
     DEF MarkIsTrue, ClaimIsCurrent, NoOrphanObject, CompletedIsErased
<1> QED
  BY <1>6, <1>7, <1>8, <1>9 DEF Core

\* Every object of an active agreement is listed when it is deleted.
LEMMA AcceptDeletionKeepsCore ==
  ASSUME TypeOK, Core, AcceptDeletion
  PROVE  Core'
<1>1. /\ AgreementRowFree /\ ~ tombstoned /\ tombstoned'
      /\ deletion'.state = "accepted"
      /\ inventory' = [k \in Keys |-> IF k \in KnownKeys THEN "pending" ELSE "none"]
      /\ UNCHANGED <<rowLock, job, intent, artifacts, objects, pc, claimed,
                     erasing, todo, target>>
  BY DEF AcceptDeletion, workerVars
<1>2. \A w \in Workers : erasing[w] = None
  BY <1>1 DEF Core, DeletionStarts
<1>3. NoOrphanObject'
  <2> SUFFICES ASSUME NEW k \in objects
               PROVE  inventory'[k] = "pending"
    BY <1>1 DEF NoOrphanObject, ObjectIsKnown
  <2>1. k \in KnownKeys
    BY <1>1 DEF Core, NoOrphanObject, ObjectIsKnown, KnownKeys, TypeOK, StoreTypeOK
  <2> QED
    BY <1>1, <2>1 DEF TypeOK, StoreTypeOK
<1>4. DeletionStarts' /\ DeletionClaimsAreOrdered' /\ OnlyDeletedIsErased'
  BY <1>1, <1>2 DEF DeletionStarts, DeletionClaimsAreOrdered, OnlyDeletedIsErased
<1>5. MarkIsTrue' /\ CompletedIsErased' /\ LockProtects'
  BY <1>1 DEF MarkIsTrue, ClaimIsCurrent, CompletedIsErased, LockProtects,
     AgreementRowFree
<1>6. JobClaimsAreOrdered' /\ ArtifactRowsAreFinal' /\ PutIsAnnounced'
  BY <1>1 DEF Core, JobClaimsAreOrdered, ArtifactRowsAreFinal, PutIsAnnounced,
     OwnsClaim, vJob
<1> QED
  BY <1>3, <1>4, <1>5, <1>6 DEF Core

-----------------------------------------------------------------------------
(* The invariant *)

\* Every step of the system preserves the invariant.
LEMMA CoreNext ==
  ASSUME TypeOK, TypeOK', Core, ~ LatePuts, [Next]_allVars
  PROVE  Core'
<1>1. ASSUME NEW w \in Workers, WorkerStep(w)
      PROVE  Core'
  <2>1. CASE Acknowledge(w)
    BY <2>1, AcknowledgeMoves, SafeMoveKeepsCore
  <2>2. CASE Expect(w)
    BY <2>2, ExpectMoves, SafeMoveKeepsCore
  <2>3. CASE Prepare(w)
    BY <2>3, PrepareMoves, SafeMoveKeepsCore
  <2>4. CASE CommitPrepared(w)
    BY <2>4, CommitGoesOnKeepsCore, CommitEndsMoves, SafeMoveKeepsCore
  <2>5. CASE PutArtifact(w)
    BY <2>5, PutMoves, SafeMoveKeepsCore
  <2>6. CASE FinishCommit(w)
    BY <2>6, FinishCommitKeepsCore
  <2>7. CASE FinishFails(w)
    BY <2>7, FinishFailsMoves, SafeMoveKeepsCore
  <2>8. CASE Requeue(w)
    BY <2>8, RequeueMoves, SafeMoveKeepsCore
  <2>9. CASE Enqueue(w)
    BY <2>9, EnqueueMoves, SafeMoveKeepsCore
  <2>10. CASE Fail(w)
    BY <2>10, FailMoves, SafeMoveKeepsCore
  <2>11. CASE ListPending(w)
    BY <2>11, ListPendingMoves, SafeMoveKeepsCore
  <2>12. CASE EraseObject(w)
    BY <2>12, EraseObjectKeepsCore
  <2>13. CASE MarkDeleted(w)
    BY <2>13, FinishObjectKeepsCore, MarkRaisesMoves, SafeMoveKeepsCore
  <2>14. CASE CompleteAndPurge(w)
    BY <2>14, PurgeKeepsCore, PurgeRefusedMoves, SafeMoveKeepsCore
  <2>15. CASE PurgeFailed(w)
    BY <2>15, FailedAttemptMoves, SafeMoveKeepsCore
  <2> QED
    BY <1>1, <2>1, <2>2, <2>3, <2>4, <2>5, <2>6, <2>7, <2>8, <2>9, <2>10,
       <2>11, <2>12, <2>13, <2>14, <2>15
       DEF WorkerStep, ProcessingStep, DeletionStep
<1>2. ASSUME NEW w \in Workers, WorkerFault(w)
      PROVE  Core'
  <2>1. CASE Crash(w)
    BY <2>1, CrashMoves, SafeMoveKeepsCore
  <2>2. CASE PutFails(w)
    BY <2>2, PutMoves, SafeMoveKeepsCore
  <2>3. CASE ConnectionLost(w)
    BY <2>3, ConnectionLostMoves, SafeMoveKeepsCore
  <2>4. CASE EraseFails(w)
    BY <2>4, FailedAttemptMoves, SafeMoveKeepsCore
  <2>5. CASE ExpectFails(w)
    BY <2>5, PrepareMoves, SafeMoveKeepsCore
  <2>6. CASE PurgeRaises(w)
    BY <2>6, PurgeRaisesMoves, SafeMoveKeepsCore
  <2> QED
    BY <1>2, <2>1, <2>2, <2>3, <2>4, <2>5, <2>6 DEF WorkerFault, ProcessingFault
<1>3. ASSUME NEW w \in Workers, NEW m \in queue, Handle(w, m)
      PROVE  Core'
  <2>1. CASE Claim(w, m)
    BY <2>1, ClaimSucceedsKeepsCore, ClaimEndsMoves, SafeMoveKeepsCore
  <2>2. CASE ClaimDeletion(w, m)
    BY <2>2, DeletionClaimKeepsCore, ClaimRefusedMoves, SafeMoveKeepsCore
  <2> QED
    BY <1>3, <2>1, <2>2 DEF Handle
<1>4. CASE Timeout
  <2>1. ASSUME NEW m \in queue, VisibilityTimeout(m)
        PROVE  Core'
    BY <2>1, FrameMoves, SafeMoveKeepsCore DEF VisibilityTimeout, storeVars, workerVars
  <2>2. ASSUME NEW j \in Jobs, ExpireClaim(j)
        PROVE  Core'
    BY <2>2, ExpireClaimMoves, SafeMoveKeepsCore
  <2>3. CASE ExpireDeletionClaim \/ DeletionComesDue
    BY <2>3, DeletionRowMoves, SafeMoveKeepsCore
  <2>4. CASE ExpireOutboxLease
    BY <2>4, FrameMoves, SafeMoveKeepsCore DEF ExpireOutboxLease, workerVars
  <2> QED
    BY <1>4, <2>1, <2>2, <2>3, <2>4 DEF Timeout
<1>5. ASSUME NEW s \in Sweepers,
             SweeperStep(s) \/ PublishFails(s) \/ SweeperCrash(s)
      PROVE  Core'
  <2>1. CASE RecoverStaleDeletion(s)
    BY <2>1, DeletionRowMoves, SafeMoveKeepsCore
  <2>2. CASE ClaimDueOutbox(s) \/ PublishDeletion(s) \/ MarkOutboxDelivered(s)
    BY <2>2, FrameMoves, SafeMoveKeepsCore
       DEF ClaimDueOutbox, PublishDeletion, MarkOutboxDelivered, storeVars, workerVars
  <2>3. CASE PublishFails(s) \/ SweeperCrash(s)
    BY <2>3, FrameMoves, SafeMoveKeepsCore
       DEF PublishFails, SweeperCrash, storeVars, workerVars
  <2> QED
    BY <1>5, <2>1, <2>2, <2>3 DEF SweeperStep
<1>6. CASE ApiStep \/ \E j \in Jobs : DispatchFails(j)
  <2>1. ASSUME NEW j \in Jobs, Submit(j) \/ Retry(j)
        PROVE  Core'
    BY <2>1, SubmitMoves, SafeMoveKeepsCore
  <2>2. ASSUME NEW j \in Jobs, RequeueJob(j) \/ DispatchOne(j) \/ DispatchFails(j)
        PROVE  Core'
    BY <2>2, FrameMoves, SafeMoveKeepsCore
       DEF RequeueJob, DispatchOne, DispatchFails, storeVars, workerVars
  <2>3. CASE DispatchDone
    BY <2>3, FrameMoves, SafeMoveKeepsCore DEF DispatchDone, storeVars, workerVars
  <2>4. CASE AcceptDeletion
    BY <2>4, AcceptDeletionKeepsCore
  <2>5. CASE RedriveDeletion
    BY <2>5, DeletionRowMoves, SafeMoveKeepsCore
  <2> QED
    BY <1>6, <2>1, <2>2, <2>3, <2>4, <2>5 DEF ApiStep
<1>7. CASE UNCHANGED allVars
  BY <1>7, FrameMoves, SafeMoveKeepsCore DEF allVars, vars, storeVars, workerVars
<1> QED
  BY <1>1, <1>2, <1>3, <1>4, <1>5, <1>6, <1>7 DEF Next

-----------------------------------------------------------------------------
(* The record of completed jobs *)

\* A step that adds no completed job but one with an artifact row, and keeps
\* what the commit of the row lock's holder relies on.
KeepsRecord ==
    /\ artifacts' = artifacts
    /\ tombstoned => tombstoned'
    /\ tombstoned \/ objects \subseteq objects'
    /\ \A j \in Jobs : job'[j].state = "completed" =>
         job[j].state = "completed" \/ j \in artifacts
    /\ \A w \in Workers : pc'[w] = "finish" /\ rowLock' = w =>
         \/ pc[w] = "finish" /\ rowLock = w /\ claimed'[w] = claimed[w]
         \/ KeyOf[claimed'[w].job] \in objects'

\* Such a step keeps completed jobs and their artifacts together.
LEMMA RecordIsKept ==
  ASSUME TypeOK, Core', CompletionIsRecorded, KeepsRecord
  PROVE  CompletionIsRecorded'
<1>1. \A j \in Jobs : job'[j].state = "completed" => j \in artifacts'
  BY DEF CompletionIsRecorded, KeepsRecord
<1>2. ASSUME ~ tombstoned'
      PROVE  \A j \in artifacts' : KeyOf[j] \in objects'
  BY <1>2 DEF CompletionIsRecorded, KeepsRecord
<1>3. ASSUME NEW w \in Workers, pc'[w] = "finish", rowLock' = w
      PROVE  KeyOf[claimed'[w].job] \in objects'
  <2>1. ~ tombstoned'
    BY <1>3, StoreAssumption DEF Core, LockProtects
  <2> QED
    BY <1>3, <2>1 DEF CompletionIsRecorded, KeepsRecord, vJob
<1> QED
  BY <1>1, <1>2, <1>3 DEF CompletionIsRecorded, vJob

\* One handler moves, and not to the end of its commit.
LEMMA MoveKeepsRecord ==
  ASSUME NEW w \in Workers,
         UNCHANGED <<tombstoned, artifacts>>,
         tombstoned \/ objects \subseteq objects',
         \A x \in Workers : x # w => pc'[x] = pc[x] /\ claimed'[x] = claimed[x],
         pc'[w] # "finish",
         rowLock' \in {rowLock, None, w}, None \notin Workers,
         \A j \in Jobs : job'[j].state = "completed" =>
             job[j].state = "completed" \/ j \in artifacts
  PROVE  KeepsRecord
BY DEF KeepsRecord

\* A handler goes to a step that is not the end of its commit, or gives up.
LEMMA GotoKeepsRecord ==
  ASSUME TypeOK, NEW w \in Workers,
         UNCHANGED <<tombstoned, artifacts, objects, job>>,
         rowLock' \in {rowLock, None, w},
         \/ Forget(w)
         \/ /\ UNCHANGED claimed
            /\ \E step \in {"ack", "prepare", "commit", "put", "requeue", "enqueue",
                            "fail", "exhausted", "list", "erase", "mark", "purge",
                            "purge_failed"} : Goto(w, step)
  PROVE  KeepsRecord
<1>1. /\ \A x \in Workers : x # w => pc'[x] = pc[x] /\ claimed'[x] = claimed[x]
      /\ pc'[w] # "finish"
  BY DEF Forget, Goto, TypeOK, WorkerTypeOK
<1> QED
  BY <1>1, MoveKeepsRecord, StoreAssumption

\* No handler moves, and no row or object of a job changes.
LEMMA FrameKeepsRecord ==
  ASSUME UNCHANGED <<tombstoned, artifacts, objects, pc, claimed>>,
         rowLock' \in {rowLock, None}, None \notin Workers,
         \A j \in Jobs : job'[j].state = "completed" => job[j].state = "completed"
  PROVE  KeepsRecord
BY DEF KeepsRecord

\* The steps of a handler of a job message, but the commit's last.
LEMMA ProcessingKeepsRecord ==
  ASSUME TypeOK, Core, NEW w \in Workers,
         \/ ProcessingStep(w) /\ ~ FinishCommit(w)
         \/ ProcessingFault(w)
         \/ Acknowledge(w)
         \/ Crash(w)
  PROVE  KeepsRecord
<1>1. CASE Acknowledge(w) \/ Crash(w)
  <2>1. rowLock' \in {rowLock, None}
    BY <1>1 DEF Acknowledge, Crash, storeVars
  <2> QED
    BY <1>1, <2>1, GotoKeepsRecord DEF Acknowledge, Crash, storeVars
<1>2. CASE Expect(w)
  <2>1. \E step \in {"ack", "prepare"} : Goto(w, step)
    BY <1>2 DEF Expect, ExpectRefused, ExpectFindsDeletion, ExpectReserves
  <2> QED
    BY <1>2, <2>1, GotoKeepsRecord DEF Expect
<1>3. CASE Prepare(w) \/ ExpectFails(w) \/ FinishFails(w)
  <2>1. \E step \in {"commit", "requeue", "exhausted", "fail"} : Goto(w, step)
    BY <1>3 DEF Prepare, ExpectFails, FinishFails, OnTransientError
  <2> QED
    BY <1>3, <2>1, GotoKeepsRecord DEF Prepare, ExpectFails, FinishFails, storeVars
<1>4. CASE CommitPrepared(w)
  <2>1. /\ UNCHANGED <<tombstoned, artifacts, objects, job>>
        /\ rowLock' \in {rowLock, w}
    BY <1>4 DEF CommitPrepared, CommitAfterPurge, CommitStale, CommitWithoutIntent,
       CommitFindsDeletion, CommitGoesOn
  <2>2. \/ Forget(w)
        \/ /\ UNCHANGED claimed
           /\ \E step \in {"ack", "put", "requeue", "exhausted"} : Goto(w, step)
    BY <1>4 DEF CommitPrepared, CommitAfterPurge, CommitStale, CommitWithoutIntent,
       CommitFindsDeletion, CommitGoesOn, OnTransientError
  <2> QED
    BY <2>1, <2>2, GotoKeepsRecord
<1>5. CASE PutArtifact(w)
  <2>1. /\ UNCHANGED <<tombstoned, artifacts, job, claimed, rowLock>>
        /\ objects' = objects \cup {KeyOf[claimed[w].job]}
        /\ \A x \in Workers : x # w => pc'[x] = pc[x]
    BY <1>5 DEF PutArtifact, Goto, vJob, TypeOK, WorkerTypeOK
  <2> QED
    BY <2>1 DEF KeepsRecord
<1>6. CASE PutFails(w)
  <2>1. /\ UNCHANGED <<tombstoned, artifacts, job, claimed>>
        /\ rowLock' \in {rowLock, None}
        /\ objects \subseteq objects'
        /\ pc'[w] # "finish"
        /\ \A x \in Workers : x # w => pc'[x] = pc[x]
    BY <1>6 DEF PutFails, OnTransientError, Goto, TypeOK, WorkerTypeOK
  <2> QED
    BY <2>1, MoveKeepsRecord, StoreAssumption
<1>7. CASE ConnectionLost(w)
  BY <1>7, FrameKeepsRecord, StoreAssumption DEF ConnectionLost, workerVars
<1>8. CASE Requeue(w) \/ Fail(w)
  <2>1. /\ UNCHANGED <<tombstoned, artifacts, objects, rowLock, claimed>>
        /\ pc[w] \in ProcessingSteps
    BY <1>8 DEF Requeue, Fail, ProcessingSteps
  <2>2. \/ Goto(w, "ack")
        \/ Goto(w, "enqueue")
    BY <1>8 DEF Requeue, Fail, SettleAfterPurge, RequeueFindsDeletion,
       RequeueRefused, RequeueReleases
  <2>3. \/ UNCHANGED job
        \/ \E s \in {"queued", "failed"}, b \in BOOLEAN :
             job' = [job EXCEPT ![vJob(w)] = Released(@, s, b)]
    <3>1. CASE Requeue(w)
      BY <3>1 DEF Requeue, SettleAfterPurge, RequeueFindsDeletion,
         RequeueRefused, RequeueReleases
    <3>2. CASE Fail(w)
      BY <3>2 DEF Fail, SettleAfterPurge, FailRefused, FailSettles
    <3> QED
      BY <1>8, <3>1, <3>2
  <2>4. vJob(w) \in Jobs /\ job \in [Jobs -> JobRow]
    BY <2>1, ClaimedJob DEF TypeOK, StoreTypeOK
  <2>5. \A j \in Jobs : job'[j].state = "completed" => job[j].state = "completed"
    BY <2>3, <2>4 DEF Released, JobRow
  <2>6. /\ pc'[w] # "finish"
        /\ \A x \in Workers : x # w => pc'[x] = pc[x]
    BY <2>2 DEF Goto, TypeOK, WorkerTypeOK
  <2> QED
    BY <2>1, <2>5, <2>6, MoveKeepsRecord, StoreAssumption
<1>9. CASE Enqueue(w)
  BY <1>9, GotoKeepsRecord DEF Enqueue, storeVars
<1> QED
  BY <1>1, <1>2, <1>3, <1>4, <1>5, <1>6, <1>7, <1>8, <1>9
     DEF ProcessingStep, ProcessingFault

\* The steps of a deletion handler, but the purge.
LEMMA ErasingKeepsRecord ==
  ASSUME TypeOK, Core, NEW w \in Workers,
         \/ DeletionStep(w)
         \/ CompleteAndPurge(w) /\ ~ PurgeRows(w)
         \/ EraseFails(w)
         \/ PurgeRaises(w)
  PROVE  KeepsRecord
<1>1. CASE EraseObject(w)
  <2>1. PICK k \in todo[w] : objects' = objects \ {k}
    BY <1>1 DEF EraseObject
  <2>2. tombstoned
    BY <2>1 DEF Core, OnlyDeletedIsErased
  <2>3. /\ UNCHANGED <<tombstoned, artifacts, job, claimed, rowLock>>
        /\ pc'[w] # "finish"
        /\ \A x \in Workers : x # w => pc'[x] = pc[x]
    BY <1>1 DEF EraseObject, Goto, TypeOK, WorkerTypeOK
  <2> QED
    BY <2>2, <2>3, MoveKeepsRecord, StoreAssumption
<1>2. CASE ~ EraseObject(w)
  <2>1. UNCHANGED <<tombstoned, artifacts, objects, job, rowLock>>
    BY <1>2 DEF DeletionStep, ListPending, MarkDeleted, PurgeFailed, CompleteAndPurge,
       PurgeRefused, EraseFails, PurgeRaises, storeVars
  <2>2. \/ Forget(w)
        \/ /\ UNCHANGED claimed
           /\ \E step \in {"ack", "erase", "purge", "purge_failed"} : Goto(w, step)
    BY <1>2 DEF DeletionStep, ListPending, MarkDeleted, FinishObject, MarkRaises,
       PurgeFailed, CompleteAndPurge, PurgeRefused, EraseFails, PurgeRaises, AfterItem
  <2> QED
    BY <2>1, <2>2, GotoKeepsRecord
<1> QED
  BY <1>1, <1>2

\* A received message: no claim completes a job without its artifact row.
LEMMA HandleKeepsRecord ==
  ASSUME TypeOK, Core, NEW w \in Workers, NEW m \in queue, Handle(w, m)
  PROVE  KeepsRecord
<1>1. CASE Claim(w, m)
  <2>1. /\ UNCHANGED <<tombstoned, artifacts, objects, rowLock>>
        /\ m.subject \in Jobs /\ job \in [Jobs -> JobRow]
    BY <1>1 DEF Claim, TypeOK, StoreTypeOK
  <2>2. /\ pc'[w] # "finish"
        /\ \A x \in Workers : x # w => pc'[x] = pc[x] /\ claimed'[x] = claimed[x]
    BY <1>1 DEF Claim, ClaimRaises, ClaimFindsDeletion, ClaimFindsArtifact,
       ClaimSucceeds, ClaimFindsNothing, TakeMessage, Goto, TypeOK, WorkerTypeOK
  <2>3. \A j \in Jobs : job'[j].state = "completed" =>
          job[j].state = "completed" \/ j \in artifacts
    BY <1>1, <2>1 DEF Claim, ClaimRaises, ClaimFindsDeletion, ClaimFindsArtifact,
       ClaimSucceeds, ClaimFindsNothing, Released, JobRow
  <2> QED
    BY <2>1, <2>2, <2>3, MoveKeepsRecord, StoreAssumption
<1>2. CASE ClaimDeletion(w, m)
  <2>1. \E step \in {"ack", "list"} : Goto(w, step)
    BY <1>2 DEF ClaimDeletion, DeletionClaimSucceeds, DeletionClaimRefused
  <2> QED
    BY <1>2, <2>1, GotoKeepsRecord DEF ClaimDeletion
<1> QED
  BY <1>1, <1>2 DEF Handle

\* Time, sweepers and the API complete no job.
LEMMA OthersKeepRecord ==
  ASSUME TypeOK, Core,
         \/ Timeout
         \/ \E s \in Sweepers : SweeperStep(s) \/ PublishFails(s) \/ SweeperCrash(s)
         \/ ApiStep
         \/ \E j \in Jobs : DispatchFails(j)
         \/ UNCHANGED allVars
  PROVE  KeepsRecord
<1>1. CASE Timeout
  <2>1. UNCHANGED <<tombstoned, artifacts, objects, pc, claimed, rowLock>>
    BY <1>1 DEF Timeout, VisibilityTimeout, ExpireClaim, ExpireDeletionClaim,
       DeletionComesDue, ExpireOutboxLease, storeVars, workerVars
  <2>2. \A j \in Jobs : job'[j].state = job[j].state
    <3>1. job \in [Jobs -> JobRow]
      BY DEF TypeOK, StoreTypeOK
    <3> QED
      BY <1>1, <3>1 DEF Timeout, VisibilityTimeout, ExpireClaim, ExpireDeletionClaim,
         DeletionComesDue, ExpireOutboxLease, storeVars, workerVars, JobRow
  <2> QED
    BY <2>1, <2>2, FrameKeepsRecord, StoreAssumption
<1>2. CASE \E s \in Sweepers : SweeperStep(s) \/ PublishFails(s) \/ SweeperCrash(s)
  BY <1>2, FrameKeepsRecord, StoreAssumption DEF SweeperStep, RecoverStaleDeletion,
     ClaimDueOutbox, PublishDeletion, MarkOutboxDelivered, PublishFails, SweeperCrash,
     storeVars, workerVars
<1>3. CASE ApiStep
  <2> job \in [Jobs -> JobRow]
    BY DEF TypeOK, StoreTypeOK
  <2>1. ASSUME NEW j \in Jobs, Submit(j) \/ Retry(j)
        PROVE  KeepsRecord
    <3>1. \A i \in Jobs : job'[i].state = "completed" => job[i].state = "completed"
      BY <2>1 DEF Submit, Retry, JobRow
    <3> QED
      BY <2>1, <3>1 DEF Submit, Retry, KeepsRecord, workerVars
  <2>2. ASSUME NEW j \in Jobs, RequeueJob(j) \/ DispatchOne(j)
        PROVE  KeepsRecord
    BY <2>2 DEF RequeueJob, DispatchOne, KeepsRecord, storeVars, workerVars
  <2>3. CASE DispatchDone \/ AcceptDeletion \/ RedriveDeletion
    BY <2>3 DEF DispatchDone, AcceptDeletion, RedriveDeletion, KeepsRecord,
       storeVars, workerVars
  <2> QED
    BY <1>3, <2>1, <2>2, <2>3 DEF ApiStep
<1>4. CASE (\E j \in Jobs : DispatchFails(j)) \/ UNCHANGED allVars
  BY <1>4, FrameKeepsRecord, StoreAssumption
     DEF DispatchFails, allVars, vars, storeVars, workerVars
<1> QED
  BY <1>1, <1>2, <1>3, <1>4

\* The COMMIT that completes a job adds its artifact row; its object was
\* found or written under the same row lock.
LEMMA FinishKeepsRecord ==
  ASSUME TypeOK, Core, CompletionIsRecorded, NEW w \in Workers, FinishCommit(w)
  PROVE  CompletionIsRecorded'
<1>1. /\ rowLock = w /\ rowLock' = None /\ pc[w] = "finish"
      /\ artifacts' = artifacts \cup {vJob(w)}
      /\ job' = [job EXCEPT ![vJob(w)] = Released(@, "completed", FALSE)]
      /\ UNCHANGED <<tombstoned, objects>>
  BY DEF FinishCommit
<1>2. vJob(w) \in Jobs /\ job \in [Jobs -> JobRow]
  BY <1>1, ClaimedJob DEF ProcessingSteps, TypeOK, StoreTypeOK
<1>3. KeyOf[vJob(w)] \in objects
  BY <1>1 DEF CompletionIsRecorded
<1> QED
  BY <1>1, <1>2, <1>3, StoreAssumption DEF CompletionIsRecorded

\* The purge leaves no job.
LEMMA PurgeKeepsRecord ==
  ASSUME TypeOK, Core, NEW w \in Workers, CompleteAndPurge(w), PurgeRows(w)
  PROVE  CompletionIsRecorded'
<1>1. /\ artifacts' = {} /\ rowLock' = rowLock /\ rowLock = None
      /\ job' = [j \in Jobs |-> [job[j] EXCEPT !.state = "absent", !.live = FALSE]]
  BY DEF CompleteAndPurge, PurgeRows, AgreementRowFree
<1>2. \A j \in Jobs : job'[j].state = "absent"
  <2>1. job \in [Jobs -> JobRow]
    BY DEF TypeOK, StoreTypeOK
  <2> QED
    BY <1>1, <2>1 DEF JobRow
<1> QED
  BY <1>1, <1>2, StoreAssumption DEF CompletionIsRecorded

\* Every step keeps completed jobs and their artifacts together.
LEMMA RecordNext ==
  ASSUME TypeOK, Core, Core', CompletionIsRecorded, [Next]_allVars
  PROVE  CompletionIsRecorded'
<1>1. ASSUME NEW w \in Workers,
             WorkerStep(w) \/ WorkerFault(w) \/ \E m \in queue : Handle(w, m)
      PROVE  CompletionIsRecorded'
  <2>1. CASE FinishCommit(w)
    BY <2>1, FinishKeepsRecord
  <2>2. CASE CompleteAndPurge(w) /\ PurgeRows(w)
    BY <2>2, PurgeKeepsRecord
  <2>3. CASE /\ ~ FinishCommit(w)
             /\ ~ (CompleteAndPurge(w) /\ PurgeRows(w))
    <3>1. CASE \E m \in queue : Handle(w, m)
      BY <3>1, HandleKeepsRecord, RecordIsKept
    <3>2. CASE \/ ProcessingStep(w) \/ ProcessingFault(w)
               \/ Acknowledge(w) \/ Crash(w)
      BY <2>3, <3>2, ProcessingKeepsRecord, RecordIsKept
    <3>3. CASE DeletionStep(w) \/ CompleteAndPurge(w) \/ EraseFails(w) \/ PurgeRaises(w)
      BY <2>3, <3>3, ErasingKeepsRecord, RecordIsKept
    <3> QED
      BY <1>1, <3>1, <3>2, <3>3 DEF WorkerStep, WorkerFault
  <2> QED
    BY <2>1, <2>2, <2>3
<1>2. CASE \/ Timeout
           \/ \E s \in Sweepers : SweeperStep(s) \/ PublishFails(s) \/ SweeperCrash(s)
           \/ ApiStep
           \/ \E j \in Jobs : DispatchFails(j)
           \/ UNCHANGED allVars
  BY <1>2, OthersKeepRecord, RecordIsKept
<1> QED
  BY <1>1, <1>2 DEF Next

-----------------------------------------------------------------------------
(* The terminal states of jobs *)

\* What TerminalJobStaysTerminal says of one job.
SettledForGood(j) ==
    /\ job[j].state = "completed" => job'[j].state \in {"completed", "absent"}
    /\ job[j].state = "failed" /\ ~ Retry(j) => job'[j].state \in {"failed", "absent"}

\* A claim takes a job that is queued or whose claim ran out; the job of an
\* artifact row is completed already.
LEMMA ClaimSettles ==
  ASSUME TypeOK, Core, NEW w \in Workers, NEW m \in queue, Claim(w, m),
         NEW j \in Jobs
  PROVE  SettledForGood(j)
<1> m.subject \in Jobs /\ job \in [Jobs -> JobRow]
  BY DEF Claim, TypeOK, StoreTypeOK
<1>1. CASE UNCHANGED job
  BY <1>1 DEF SettledForGood
<1>2. CASE ClaimFindsArtifact(w, m, m.subject)
  BY <1>2 DEF ClaimFindsArtifact, Core, ArtifactRowsAreFinal, Released, JobRow,
     SettledForGood
<1>3. CASE ClaimSucceeds(w, m, m.subject)
  BY <1>3 DEF ClaimSucceeds, JobRow, SettledForGood
<1> QED
  BY <1>1, <1>2, <1>3 DEF Claim, ClaimRaises, ClaimFindsDeletion, ClaimFindsNothing

\* Only the owner of the current claim releases a job.
LEMMA OwnerSettles ==
  ASSUME TypeOK, NEW w \in Workers, pc[w] \in ProcessingSteps, NEW s, NEW b,
         \/ UNCHANGED job
         \/ OwnsClaim(w) /\ job' = [job EXCEPT ![vJob(w)] = Released(@, s, b)],
         NEW j \in Jobs
  PROVE  SettledForGood(j)
<1> vJob(w) \in Jobs /\ job \in [Jobs -> JobRow]
  BY ClaimedJob DEF TypeOK, StoreTypeOK
<1> QED
  BY DEF OwnsClaim, Released, JobRow, SettledForGood

\* The steps of a handler.
LEMMA WorkerSettles ==
  ASSUME TypeOK, Core, NEW w \in Workers, WorkerStep(w) \/ WorkerFault(w),
         NEW j \in Jobs
  PROVE  SettledForGood(j)
<1>1. CASE FinishCommit(w)
  <2>1. OwnsClaim(w)
    BY <1>1, StoreAssumption DEF FinishCommit, Core, LockProtects
  <2> QED
    BY <1>1, <2>1, OwnerSettles DEF FinishCommit, ProcessingSteps
<1>2. CASE Requeue(w)
  BY <1>2, OwnerSettles DEF Requeue, SettleAfterPurge, RequeueFindsDeletion,
     RequeueRefused, RequeueReleases, ProcessingSteps
<1>3. CASE Fail(w)
  <2>1. \/ UNCHANGED job
        \/ /\ OwnsClaim(w)
           /\ job' = [job EXCEPT ![vJob(w)] = Released(@, "failed", pc[w] = "exhausted")]
    BY <1>3 DEF Fail, SettleAfterPurge, FailRefused, FailSettles
  <2> QED
    BY <1>3, <2>1, OwnerSettles DEF Fail, ProcessingSteps
<1>4. CASE CompleteAndPurge(w)
  <2>1. \/ UNCHANGED job
        \/ job' = [i \in Jobs |-> [job[i] EXCEPT !.state = "absent", !.live = FALSE]]
    BY <1>4 DEF CompleteAndPurge, PurgeRows, PurgeRefused
  <2>2. job[j] \in JobRow
    BY DEF TypeOK, StoreTypeOK
  <2>3. UNCHANGED job \/ job'[j].state = "absent"
    BY <2>1, <2>2 DEF JobRow
  <2> QED
    BY <2>3 DEF SettledForGood
<1>5. CASE UNCHANGED job
  BY <1>5 DEF SettledForGood
<1> QED
  <2>1. CASE \/ Acknowledge(w) \/ Crash(w) \/ Expect(w) \/ ExpectFails(w)
             \/ Prepare(w) \/ CommitPrepared(w) \/ PutArtifact(w) \/ PutFails(w)
             \/ ConnectionLost(w) \/ FinishFails(w) \/ Enqueue(w)
    BY <1>5, <2>1 DEF Acknowledge, Crash, Expect, ExpectFails, Prepare, CommitPrepared,
       PutArtifact, PutFails, ConnectionLost, FinishFails, Enqueue, storeVars
  <2>2. CASE \/ ListPending(w) \/ EraseObject(w) \/ MarkDeleted(w) \/ PurgeFailed(w)
             \/ EraseFails(w) \/ PurgeRaises(w)
    BY <1>5, <2>2 DEF ListPending, EraseObject, MarkDeleted, PurgeFailed, EraseFails,
       PurgeRaises, storeVars
  <2> QED
    BY <1>1, <1>2, <1>3, <1>4, <2>1, <2>2
       DEF WorkerStep, WorkerFault, ProcessingStep, ProcessingFault, DeletionStep

\* Every other step.
LEMMA OthersSettle ==
  ASSUME TypeOK, NEW j \in Jobs,
         \/ Timeout
         \/ \E s \in Sweepers : SweeperStep(s) \/ PublishFails(s) \/ SweeperCrash(s)
         \/ ApiStep
         \/ \E i \in Jobs : DispatchFails(i)
         \/ UNCHANGED allVars
  PROVE  SettledForGood(j)
<1> job \in [Jobs -> JobRow]
  BY DEF TypeOK, StoreTypeOK
<1>1. CASE UNCHANGED job
  BY <1>1 DEF SettledForGood
<1>2. ASSUME NEW i \in Jobs, Submit(i) \/ Retry(i) \/ ExpireClaim(i)
      PROVE  SettledForGood(j)
  BY <1>2 DEF Submit, Retry, ExpireClaim, JobRow, SettledForGood
<1>3. CASE Timeout
  BY <1>1, <1>2, <1>3 DEF Timeout, VisibilityTimeout, ExpireDeletionClaim,
     DeletionComesDue, ExpireOutboxLease, storeVars
<1>4. CASE \E s \in Sweepers : SweeperStep(s) \/ PublishFails(s) \/ SweeperCrash(s)
  BY <1>1, <1>4 DEF SweeperStep, RecoverStaleDeletion, ClaimDueOutbox, PublishDeletion,
     MarkOutboxDelivered, PublishFails, SweeperCrash, storeVars
<1>5. CASE ApiStep
  BY <1>1, <1>2, <1>5 DEF ApiStep, RequeueJob, DispatchOne, DispatchDone,
     AcceptDeletion, RedriveDeletion, storeVars
<1>6. CASE (\E i \in Jobs : DispatchFails(i)) \/ UNCHANGED allVars
  BY <1>1, <1>6 DEF DispatchFails, allVars, vars, storeVars
<1> QED
  BY <1>3, <1>4, <1>5, <1>6

\* No step takes a terminal job back.
LEMMA StepsSettle ==
  ASSUME TypeOK, Core, [Next]_allVars, NEW j \in Jobs
  PROVE  SettledForGood(j)
<1>1. ASSUME NEW w \in Workers, NEW m \in queue, Handle(w, m)
      PROVE  SettledForGood(j)
  <2>1. CASE ClaimDeletion(w, m)
    BY <2>1 DEF ClaimDeletion, SettledForGood
  <2> QED
    BY <1>1, <2>1, ClaimSettles DEF Handle
<1>2. ASSUME NEW w \in Workers, WorkerStep(w) \/ WorkerFault(w)
      PROVE  SettledForGood(j)
  BY <1>2, WorkerSettles
<1> QED
  BY <1>1, <1>2, OthersSettle DEF Next

-----------------------------------------------------------------------------
\* The invariant: what row lock, claim tokens, leases and intents guarantee
\* the handlers in flight, in every reachable state, when no call to S3
\* outlasts its claim lease.
THEOREM ErasureInvariantHolds == ~ LatePuts => (Spec => []ErasureInv)
<1> SUFFICES ASSUME ~ LatePuts PROVE Spec => []ErasureInv
  OBVIOUS
<1>1. Init => ErasureInv
  <2>1. Init => CompletionIsRecorded
    BY DEF Init, StoreInit, WorkerInit, CompletionIsRecorded
  <2> QED
    BY <2>1, TypeInit, CoreInit DEF ErasureInv
<1>2. ErasureInv /\ [Next]_allVars => ErasureInv'
  BY TypeNext, CoreNext, RecordNext DEF ErasureInv
<1> QED
  BY <1>1, <1>2, PTL DEF Spec

\* Every artifact in S3 is known to the database: no crash, lost connection,
\* stale claim or concurrent deletion leaves an object that nothing names.
THEOREM ObjectsAreKnown == ~ LatePuts => (Spec => []NoOrphanObject)
<1>1. ErasureInv => NoOrphanObject
  BY DEF ErasureInv, Core
<1> QED
  BY <1>1, ErasureInvariantHolds, PTL

\* A completed deletion left nothing behind: no object in S3, no job,
\* artifact row or intent in the database.
THEOREM CompletedDeletionErases == ~ LatePuts => (Spec => []CompletedIsErased)
<1>1. ErasureInv => CompletedIsErased
  BY DEF ErasureInv, Core
<1> QED
  BY <1>1, ErasureInvariantHolds, PTL

\* A job shown as completed has its artifact row and, unless its agreement
\* is being deleted, its object in S3: whatever happened between the write
\* to S3 and the commit, and whoever else wrote the same key.
THEOREM CompletedJobsHaveArtifacts == ~ LatePuts => (Spec => []CompletedJobHasArtifact)
<1>1. ErasureInv => CompletedJobHasArtifact
  BY DEF ErasureInv, CompletionIsRecorded, CompletedJobHasArtifact
<1> QED
  BY <1>1, ErasureInvariantHolds, PTL

\* A completed job stays completed, and a failed one failed but for an
\* authorized retry: a handler that lost its claim settles nothing.
THEOREM TerminalJobsStayTerminal == ~ LatePuts => (Spec => TerminalJobStaysTerminal)
<1>1. ErasureInv /\ [Next]_allVars =>
        [\A j \in Jobs :
           /\ job[j].state = "completed" => job'[j].state \in {"completed", "absent"}
           /\ job[j].state = "failed" /\ ~ Retry(j) => job'[j].state \in {"failed", "absent"}
        ]_allVars
  BY StepsSettle DEF ErasureInv, SettledForGood
<1> QED
  BY <1>1, ErasureInvariantHolds, PTL DEF Spec, TerminalJobStaysTerminal
=============================================================================
