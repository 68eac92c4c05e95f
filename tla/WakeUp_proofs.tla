---------------------------- MODULE WakeUp_proofs ----------------------------
(***************************************************************************)
(* Unfinished work is never forgotten: the proofs of JobWakeUp and         *)
(* DeletionWakeUp, for every number of jobs, workers, sweepers, messages   *)
(* and faults.  They hold while SQS keeps its messages (MaxReceives = 0);  *)
(* the run DeadLetter shows what a redrive policy does to them.  The lease *)
(* of a claim and the writes to S3 play no part in them.                   *)
(***************************************************************************)
EXTENDS AgreementErasure_proofs

-----------------------------------------------------------------------------
(* The invariants *)

\* A message has an id of its own, at most one handler may delete it, and a
\* handler's receipt is for a message that is there.
ReceiptsAreExclusive ==
    /\ deadLetters = {}
    /\ \A m, n \in queue : m.id = n.id => m = n
    /\ \A w \in Workers : receipt[w] # None => \E m \in queue : m.id = receipt[w]
    /\ \A w, x \in Workers : receipt[w] # None /\ receipt[w] = receipt[x] => w = x

Open == {"queued", "processing"}

\* Claims are told apart, an artifact row settles job and intent, and an
\* intent to write an artifact is of a job that is still open.
RowsAgree ==
    /\ deletion.state # "none" => tombstoned
    /\ JobClaimsAreOrdered
    /\ \A j \in artifacts : job[j].state = "completed" /\ intent[j] = "none"
    /\ \A j \in Jobs : intent[j] = "expected" => job[j].state \in Open

Unfinished(j) ==
    \/ ~ tombstoned /\ job[j].state \in Open
    \/ tombstoned /\ intent[j] = "expected"

\* The handler works on j under a claim that holds, or has just put j back
\* in the queue's hands: it settles j before it deletes its message.
Works(w, j) ==
    /\ pc[w] \in ProcessingSteps
    /\ vJob(w) = j
    /\ OwnsClaim(w) \/ pc[w] = "enqueue"

Kept(m, j) == m.subject = j /\ \A w \in Workers : receipt[w] = m.id => Works(w, j)

Awake(j) == jobOutbox[j] > 0 \/ \E m \in queue : Kept(m, j)

UnfinishedIsAwake == \A j \in Jobs : Unfinished(j) => Awake(j)

JobsInv == TypeOK /\ ReceiptsAreExclusive /\ RowsAgree /\ UnfinishedIsAwake

Untried == deletion.state \in {"accepted", "retrying"}

\* A message that will find the deletion due: nobody has received it.
Announced ==
    /\ deletion.due
    /\ \E m \in queue : m.subject = Erasure /\ \A w \in Workers : receipt[w] # m.id

\* An untried deletion has an outbox row; when that row is delivered, or its
\* leaseholder has published and not yet said so, the message is there.
OutboxIsTrue ==
    /\ deletion.state \notin {"none", "completed"} => deletionOutbox.state # "none"
    /\ deletionOutbox.owner # None => deletionOutbox.state \in {"leased", "expired"}
    /\ Untried /\ deletionOutbox.state = "delivered" => Announced
    /\ \A s \in Sweepers : Untried /\ deletionOutbox.owner = s =>
         /\ sweeping[s] = "publish" => deletion.due
         /\ sweeping[s] = "mark" => Announced

DeletionInv == TypeOK /\ ReceiptsAreExclusive /\ OutboxIsTrue

-----------------------------------------------------------------------------
(* The queue *)

\* A sent message is a new one: no handler has a receipt for it.
LEMMA SendAdds ==
  ASSUME TypeOK, ReceiptsAreExclusive, NEW s \in Subjects, Send(s)
  PROVE  \E m : /\ m.subject = s /\ m.id \in MessageIds
                /\ queue' = queue \cup {m} /\ deadLetters' = {}
                /\ \A n \in queue : n.id # m.id
                /\ \A w \in Workers : receipt[w] # m.id
<1> DEFINE m == NewMessage(s)
<1>1. m.id \in FreeIds /\ m.subject = s
  BY DEF Send, NewMessage
<1>2. m.id \in MessageIds /\ \A n \in queue : n.id # m.id
  BY <1>1 DEF FreeIds
<1>3. \A w \in Workers : receipt[w] # m.id
  BY <1>2, WorkerAssumption DEF ReceiptsAreExclusive
<1>4. queue' = queue \cup {m} /\ deadLetters' = {}
  BY DEF Send, ReceiptsAreExclusive
<1> HIDE DEF m
<1> QED
  BY <1>1, <1>2, <1>3, <1>4

\* A reception takes the receipt of its message from whoever had it.
LEMMA TakeMoves ==
  ASSUME TypeOK, MaxReceives = 0, NEW w \in Workers, NEW m \in queue,
         NEW r \in {m.id, None}, TakeMessage(w, m, r)
  PROVE  /\ UNCHANGED <<queue, deadLetters>>
         /\ pc[w] = "idle" /\ receipt'[w] = r
         /\ \A x \in Workers : x # w =>
              /\ receipt'[x] # m.id
              /\ receipt'[x] \in {receipt[x], None}
<1>1. m.id # None
  BY WorkerAssumption DEF TypeOK, QueueTypeOK, Message
<1>2. UNCHANGED <<queue, deadLetters>> /\ pc[w] = "idle"
  BY DEF TakeMessage, Deliver, Received
<1>3. receipt' = [x \in Workers |->
                    IF x = w THEN r ELSE IF receipt[x] = m.id THEN None ELSE receipt[x]]
  BY DEF TakeMessage
<1> QED
  BY <1>1, <1>2, <1>3

\* What a step can do to messages and receipts.
Rests ==
    /\ UNCHANGED <<queue, deadLetters>>
    /\ \A w \in Workers : receipt'[w] \in {receipt[w], None}

Sends == \E s \in Subjects : Send(s) /\ UNCHANGED receipt

Takes == \E w \in Workers, m \in queue : \E r \in {m.id, None} : TakeMessage(w, m, r)

LEMMA RestsKeeps ==
  ASSUME ReceiptsAreExclusive, Rests
  PROVE  ReceiptsAreExclusive'
BY DEF ReceiptsAreExclusive, Rests

LEMMA SendsKeeps ==
  ASSUME TypeOK, ReceiptsAreExclusive, Sends
  PROVE  ReceiptsAreExclusive'
<1>1. PICK m : /\ queue' = queue \cup {m} /\ deadLetters' = {} /\ UNCHANGED receipt
               /\ \A n \in queue : n.id # m.id
  BY SendAdds DEF Sends
<1> QED
  BY <1>1 DEF ReceiptsAreExclusive

LEMMA TakesKeeps ==
  ASSUME TypeOK, MaxReceives = 0, ReceiptsAreExclusive, Takes
  PROVE  ReceiptsAreExclusive'
<1>1. PICK w \in Workers, m \in queue : \E r \in {m.id, None} : TakeMessage(w, m, r)
  BY DEF Takes
<1>2. PICK r \in {m.id, None} : TakeMessage(w, m, r)
  BY <1>1
<1>3. /\ UNCHANGED <<queue, deadLetters>> /\ receipt'[w] = r
      /\ \A x \in Workers : x # w => receipt'[x] # m.id /\ receipt'[x] \in {receipt[x], None}
  BY <1>2, TakeMoves
<1> QED
  BY <1>3 DEF ReceiptsAreExclusive

\* An acknowledged message goes, and the receipt with it.
LEMMA AcknowledgeMovesQueue ==
  ASSUME TypeOK, ReceiptsAreExclusive, NEW w \in Workers, Acknowledge(w)
  PROVE  /\ \A m \in queue : m \in queue' \/ m.id = receipt[w]
         /\ queue' \subseteq queue /\ deadLetters' = {}
         /\ receipt'[w] = None /\ \A x \in Workers : x # w => receipt'[x] = receipt[x]
         /\ ReceiptsAreExclusive'
<1>1. receipt' = [receipt EXCEPT ![w] = None]
  BY DEF Acknowledge, Forget
<1>2. /\ receipt'[w] = None /\ \A x \in Workers : x # w => receipt'[x] = receipt[x]
  BY <1>1 DEF TypeOK, WorkerTypeOK
<1>3. /\ deadLetters' = {}
      /\ \/ queue' = queue
         \/ receipt[w] # None /\ queue' = {m \in queue : m.id # receipt[w]}
  BY DEF Acknowledge, Delete, queueVars, ReceiptsAreExclusive
<1>4. ReceiptsAreExclusive'
  BY <1>2, <1>3 DEF ReceiptsAreExclusive
<1> QED
  BY <1>2, <1>3, <1>4

\* The steps of a handler between its reception and its acknowledgement.
LEMMA HandlerRests ==
  ASSUME TypeOK, NEW w \in Workers,
         \/ ProcessingStep(w) /\ ~ Enqueue(w)
         \/ DeletionStep(w) \/ CompleteAndPurge(w) \/ WorkerFault(w)
  PROVE  Rests
<1> USE DEF TypeOK, WorkerTypeOK, Rests, queueVars, workerVars
<1>1. ASSUME ProcessingStep(w), ~ Enqueue(w) PROVE Rests
  BY <1>1 DEF ProcessingStep, Expect, Prepare, CommitPrepared, CommitAfterPurge, CommitStale,
     CommitWithoutIntent, CommitFindsDeletion, CommitGoesOn, PutArtifact, FinishCommit,
     FinishFails, Requeue, Fail, Forget
<1>2. ASSUME DeletionStep(w) \/ CompleteAndPurge(w) PROVE Rests
  BY <1>2 DEF DeletionStep, ListPending, EraseObject, MarkDeleted, FinishObject, MarkRaises,
     PurgeFailed, CompleteAndPurge, Forget
<1>3. ASSUME WorkerFault(w) PROVE Rests
  BY <1>3 DEF WorkerFault, Crash, ProcessingFault, ExpectFails, PutFails, ConnectionLost,
     EraseFails, PurgeRaises, Forget
<1> QED
  BY <1>1, <1>2, <1>3

\* There is no other step than these four, as the queue sees them.
LEMMA QueueMoves ==
  ASSUME TypeOK, MaxReceives = 0, [Next]_allVars
  PROVE  \/ Rests \/ Sends
         \/ \E w \in Workers : Acknowledge(w)
         \/ \E w \in Workers, m \in queue : Handle(w, m)
<1>1. ASSUME NEW w \in Workers, WorkerStep(w) \/ WorkerFault(w)
      PROVE  Rests \/ Sends \/ Acknowledge(w)
  <2>1. CASE Enqueue(w)
    <3>1. vJob(w) \in Subjects
      BY <2>1, ClaimedJob, WorkerAssumption DEF Enqueue, ProcessingSteps
    <3> QED
      BY <2>1, <3>1 DEF Enqueue, Sends
  <2>2. CASE ~ Acknowledge(w) /\ ~ Enqueue(w)
    BY <1>1, <2>2, HandlerRests DEF WorkerStep
  <2> QED
    BY <2>1, <2>2
<1>2. ASSUME Timeout PROVE Rests
  <2>1. ASSUME NEW m \in queue, VisibilityTimeout(m) PROVE Rests
    BY <2>1 DEF VisibilityTimeout, Reappear, workerVars, Rests
  <2>2. ASSUME NEW j \in Jobs, ExpireClaim(j) PROVE Rests
    BY <2>2 DEF ExpireClaim, queueVars, workerVars, Rests
  <2>3. ASSUME ExpireDeletionClaim \/ DeletionComesDue \/ ExpireOutboxLease PROVE Rests
    BY <2>3 DEF ExpireDeletionClaim, DeletionComesDue, ExpireOutboxLease, queueVars,
       workerVars, Rests
  <2> QED
    BY <1>2, <2>1, <2>2, <2>3 DEF Timeout
<1>3. ASSUME NEW s \in Sweepers, SweeperStep(s) \/ PublishFails(s) \/ SweeperCrash(s)
      PROVE  Rests \/ Sends
  BY <1>3, WorkerAssumption DEF SweeperStep, RecoverStaleDeletion, ClaimDueOutbox, PublishDeletion,
     MarkOutboxDelivered, PublishFails, SweeperCrash, queueVars, workerVars, Rests, Sends
<1>4. ASSUME ApiStep \/ \E j \in Jobs : DispatchFails(j)
      PROVE  Rests \/ Sends
  BY <1>4, WorkerAssumption DEF ApiStep, Submit, Retry, RequeueJob, DispatchOne, DispatchDone,
     DispatchFails, AcceptDeletion, RedriveDeletion, queueVars, workerVars, Rests, Sends
<1>5. CASE UNCHANGED allVars
  BY <1>5 DEF allVars, vars, queueVars, workerVars, Rests
<1> QED
  BY <1>1, <1>2, <1>3, <1>4, <1>5 DEF Next

\* Messages and receipts stay exclusive, whatever step is taken.
LEMMA ReceiptsNext ==
  ASSUME TypeOK, MaxReceives = 0, ReceiptsAreExclusive, [Next]_allVars
  PROVE  ReceiptsAreExclusive'
<1>1. ASSUME NEW w \in Workers, NEW m \in queue, Handle(w, m)
      PROVE  Takes
  BY <1>1 DEF Handle, Claim, ClaimRaises, ClaimFindsDeletion, ClaimFindsArtifact,
     ClaimSucceeds, ClaimFindsNothing, ClaimDeletion, Takes
<1> QED
  BY <1>1, QueueMoves, RestsKeeps, SendsKeeps, TakesKeeps, AcknowledgeMovesQueue

-----------------------------------------------------------------------------
(* Jobs *)

\* What a message is kept for stays, when no receipt for it goes to another
\* handler and whoever works on the job goes on.
LEMMA AwakeStays ==
  ASSUME TypeOK, TypeOK', NEW j \in Jobs, Awake(j), queue \subseteq queue',
         jobOutbox[j] > 0 => jobOutbox'[j] > 0,
         \A w \in Workers, m \in queue : m.subject = j /\ receipt'[w] = m.id =>
            receipt[w] = m.id /\ (Works(w, j) => Works(w, j)')
  PROVE  Awake(j)'
BY DEF Awake, Kept

\* A step that leaves the job rows and the handlers of jobs alone; one of
\* them may crash.
HandlersRest ==
    /\ UNCHANGED tombstoned
    /\ \A j \in Jobs : /\ job'[j].state = job[j].state /\ job'[j].attempt = job[j].attempt
                       /\ intent'[j] = intent[j]
                       /\ jobOutbox[j] > 0 => jobOutbox'[j] > 0
    /\ UNCHANGED artifacts
    /\ deletion'.state # "none" => tombstoned \/ deletion.state # "none"
    /\ queue \subseteq queue'
    /\ \A w \in Workers :
         /\ claimed'[w] \in {claimed[w], None}
         /\ \/ receipt'[w] = None
            \/ /\ receipt'[w] = receipt[w]
               /\ pc[w] \in ProcessingSteps => pc'[w] = pc[w] /\ claimed'[w] = claimed[w]

LEMMA RestKeepsRows ==
  ASSUME RowsAgree, UNCHANGED <<tombstoned, artifacts>>,
         deletion'.state # "none" => tombstoned \/ deletion.state # "none",
         \A j \in Jobs : /\ job'[j].state = job[j].state /\ job'[j].attempt = job[j].attempt
                         /\ intent'[j] = intent[j],
         \A w \in Workers : claimed'[w] \in {claimed[w], None},
         TypeOK, TypeOK'
  PROVE  RowsAgree'
<1>1. \A w \in Workers : claimed[w] # None => vJob(w) \in Jobs
  BY DEF TypeOK, WorkerTypeOK, JobClaim, vJob
<1>2. JobClaimsAreOrdered'
  BY <1>1 DEF RowsAgree, JobClaimsAreOrdered, vJob
<1>3. \A j \in artifacts : j \in Jobs
  BY DEF TypeOK, StoreTypeOK
<1> QED
  BY <1>2, <1>3 DEF RowsAgree

LEMMA RestKeepsJobs ==
  ASSUME TypeOK, TypeOK', ReceiptsAreExclusive, RowsAgree, UnfinishedIsAwake, HandlersRest
  PROVE  RowsAgree' /\ UnfinishedIsAwake'
<1>1. RowsAgree'
  BY RestKeepsRows DEF HandlersRest
<1>2. ASSUME NEW j \in Jobs, Unfinished(j)' PROVE Awake(j)'
  <2>1. Unfinished(j) /\ Awake(j)
    BY <1>2 DEF HandlersRest, Unfinished, UnfinishedIsAwake
  <2>2. ASSUME NEW w \in Workers, NEW m \in queue, m.subject = j, receipt'[w] = m.id
        PROVE  receipt[w] = m.id /\ (Works(w, j) => Works(w, j)')
    <3>1. m.id # None
      BY WorkerAssumption DEF TypeOK, QueueTypeOK, Message
    <3>2. receipt[w] = m.id /\ (pc[w] \in ProcessingSteps => pc'[w] = pc[w] /\ claimed'[w] = claimed[w])
      BY <2>2, <3>1 DEF HandlersRest
    <3> QED
      BY <3>2 DEF HandlersRest, Works, OwnsClaim, vJob
  <2> QED
    BY <2>1, <2>2, AwakeStays DEF HandlersRest
<1> QED
  BY <1>1, <1>2 DEF UnfinishedIsAwake

\* A step of the handler w of a job: it settles the job, or had lost the
\* claim and touches nothing, or goes on under the claim.
Settles(w) ==
    LET j == vJob(w)
    IN  /\ intent'[j] # "expected"
        /\ tombstoned \/ job'[j].state \notin Open
        /\ \/ OwnsClaim(w) /\ artifacts' = artifacts
           \/ /\ artifacts' = artifacts \cup {j}
              /\ job'[j].state = "completed" /\ intent'[j] = "none"

Yields(w) == ~ OwnsClaim(w) /\ UNCHANGED <<job, intent, artifacts>>

GoesOn(w) ==
    LET j == vJob(w)
    IN  /\ OwnsClaim(w) /\ artifacts' = artifacts /\ claimed'[w] = claimed[w]
        /\ pc'[w] \in ProcessingSteps
        /\ \/ job'[j].state = "processing"
           \/ job'[j].state = "queued" /\ pc'[w] = "enqueue"
        /\ intent'[j] # intent[j] => ~ tombstoned

HandlerMoves(w) ==
    LET j == vJob(w)
    IN  /\ pc[w] \in ProcessingSteps \ {"enqueue"}
        /\ UNCHANGED <<tombstoned, queue, jobOutbox>>
        /\ deletion'.state # "none" => tombstoned \/ deletion.state # "none"
        /\ \A x \in Workers : x # w =>
             pc'[x] = pc[x] /\ claimed'[x] = claimed[x] /\ receipt'[x] = receipt[x]
        /\ claimed'[w] \in {claimed[w], None} /\ receipt'[w] \in {receipt[w], None}
        /\ \A i \in Jobs : i # j => job'[i] = job[i] /\ intent'[i] = intent[i]
        /\ job'[j].attempt = job[j].attempt
        /\ job'[j].state = "absent" => job[j].state = "absent"
        /\ Settles(w) \/ Yields(w) \/ GoesOn(w)

\* Of two handlers of a job one has the claim.
LEMMA OneOwner ==
  ASSUME TypeOK, JobClaimsAreOrdered, NEW w \in Workers, NEW x \in Workers,
         pc[w] \in ProcessingSteps, pc[x] \in ProcessingSteps,
         vJob(w) = vJob(x), OwnsClaim(w), OwnsClaim(x)
  PROVE  w = x
<1>1. claimed[w] \in JobClaim /\ claimed[x] \in JobClaim
  BY DEF TypeOK, WorkerTypeOK
<1>2. claimed[w] = claimed[x]
  BY <1>1 DEF JobClaim, vJob, OwnsClaim
<1> QED
  BY <1>1, <1>2, NoneAssumption DEF JobClaimsAreOrdered

LEMMA HandlerKeepsRows ==
  ASSUME TypeOK, TypeOK', RowsAgree, NEW w \in Workers, HandlerMoves(w)
  PROVE  RowsAgree'
<1> DEFINE j == vJob(w)
<1>1. j \in Jobs
  BY ClaimedJob DEF HandlerMoves
<1>2. JobClaimsAreOrdered'
  <2>1. \A x \in Workers : claimed[x] # None => vJob(x) \in Jobs
    BY DEF TypeOK, WorkerTypeOK, JobClaim, vJob
  <2>2. \A i \in Jobs : job'[i].attempt = job[i].attempt
                        /\ (job'[i].state = "absent" => job[i].state = "absent")
    BY DEF HandlerMoves
  <2>3. \A x \in Workers : claimed'[x] \in {claimed[x], None}
    BY DEF HandlerMoves
  <2> QED
    BY <2>1, <2>2, <2>3 DEF RowsAgree, JobClaimsAreOrdered, vJob, HandlerMoves
<1>3. \A i \in artifacts' : job'[i].state = "completed" /\ intent'[i] = "none"
  <2>1. \A i \in artifacts : i \in Jobs /\ job[i].state = "completed" /\ intent[i] = "none"
    BY DEF RowsAgree, TypeOK, StoreTypeOK
  <2>2. OwnsClaim(w) => j \notin artifacts
    BY <2>1 DEF OwnsClaim
  <2> QED
    BY <2>1, <2>2 DEF HandlerMoves, Settles, Yields, GoesOn
<1>4. \A i \in Jobs : intent'[i] = "expected" => job'[i].state \in Open
  BY DEF RowsAgree, HandlerMoves, Settles, Yields, GoesOn, Open
<1>5. deletion'.state # "none" => tombstoned'
  BY DEF RowsAgree, HandlerMoves
<1> QED
  BY <1>2, <1>3, <1>4, <1>5 DEF RowsAgree

LEMMA HandlerKeepsJobs ==
  ASSUME TypeOK, TypeOK', ReceiptsAreExclusive, RowsAgree, UnfinishedIsAwake,
         NEW w \in Workers, HandlerMoves(w)
  PROVE  RowsAgree' /\ UnfinishedIsAwake'
<1> DEFINE j == vJob(w)
<1>0. j \in Jobs
  BY ClaimedJob DEF HandlerMoves
<1>1. ASSUME NEW i \in Jobs, Unfinished(i)' PROVE Awake(i)'
  <2>1. Unfinished(i)
    <3>1. CASE i # j
      BY <1>1, <3>1 DEF HandlerMoves, Unfinished
    <3>2. CASE i = j /\ Settles(w)
      BY <1>1, <3>2 DEF HandlerMoves, Unfinished, Settles
    <3>3. CASE i = j /\ Yields(w)
      BY <1>1, <3>3 DEF HandlerMoves, Unfinished, Yields
    <3>4. CASE i = j /\ GoesOn(w)
      BY <1>1, <3>4 DEF HandlerMoves, Unfinished, GoesOn, OwnsClaim, Open
    <3> QED
      BY <3>1, <3>2, <3>3, <3>4 DEF HandlerMoves
  <2>2. i = j => Yields(w) \/ GoesOn(w)
    BY <1>1 DEF HandlerMoves, Unfinished, Settles
  <2>3. ASSUME NEW x \in Workers, NEW m \in queue, m.subject = i, receipt'[x] = m.id
        PROVE  receipt[x] = m.id /\ (Works(x, i) => Works(x, i)')
    <3>1. m.id # None
      BY WorkerAssumption DEF TypeOK, QueueTypeOK, Message
    <3>2. receipt[x] = m.id
      BY <2>3, <3>1 DEF HandlerMoves
    <3>3. ASSUME x # w, Works(x, i) PROVE Works(x, i)'
      <4>1. pc'[x] = pc[x] /\ claimed'[x] = claimed[x] /\ vJob(x) = i
        BY <3>3 DEF HandlerMoves, Works
      <4>2. pc[x] = "enqueue" \/ job'[i] = job[i]
        <5>1. CASE i # j
          BY <5>1 DEF HandlerMoves
        <5>2. CASE i = j /\ Yields(w)
          BY <5>2 DEF Yields
        <5>3. CASE i = j /\ GoesOn(w)
          BY <5>3, <3>3, <4>1, OneOwner DEF GoesOn, Works, HandlerMoves, RowsAgree
        <5> QED
          BY <2>2, <5>1, <5>2, <5>3
      <4> QED
        BY <3>3, <4>1, <4>2 DEF Works, OwnsClaim, vJob
    <3>4. ASSUME x = w, Works(x, i) PROVE Works(x, i)'
      <4>1. i = j /\ OwnsClaim(w)
        BY <3>4 DEF Works, HandlerMoves
      <4>2. GoesOn(w)
        BY <2>2, <4>1 DEF Yields
      <4> QED
        BY <3>4, <4>1, <4>2 DEF Works, OwnsClaim, vJob, GoesOn, HandlerMoves
    <3> QED
      BY <3>2, <3>3, <3>4
  <2>4. Awake(i)
    BY <2>1 DEF UnfinishedIsAwake
  <2> QED
    BY <2>3, <2>4, AwakeStays DEF HandlerMoves
<1> QED
  BY <1>1, HandlerKeepsRows DEF UnfinishedIsAwake

\* Every step of a handler but the sending of the message of a retry is such
\* a step.
LEMMA ProcessingMoves ==
  ASSUME TypeOK, RowsAgree, NEW w \in Workers, UNCHANGED jobOutbox,
         \/ ProcessingStep(w) /\ ~ Enqueue(w)
         \/ ExpectFails(w) \/ PutFails(w)
  PROVE  HandlerMoves(w)
<1> DEFINE j == vJob(w)
<1> USE DEF TypeOK, StoreTypeOK, WorkerTypeOK, queueVars, storeVars, KeepDeletion, Goto,
        ProcessingSteps, OnTransientError
<1>0. pc[w] \in ProcessingSteps => j \in Jobs /\ KeyOf[j] \in Keys
  BY ClaimedJob
<1>1. \A k \in Keys : InventoryLateArtifact(k) => deletion'.state = "retrying"
  BY DEF InventoryLateArtifact, ReopenedDeletion
<1>2. ASSUME Expect(w) PROVE HandlerMoves(w)
  <2>1. CASE ExpectRefused(w)
    BY <1>2, <2>1 DEF Expect, ExpectRefused, HandlerMoves, Yields
  <2>2. CASE ExpectFindsDeletion(w)
    BY <1>0, <1>2, <2>2 DEF Expect, ExpectFindsDeletion, ReconcileIntent, HandlerMoves, Settles
  <2>3. CASE ExpectReserves(w)
    BY <1>0, <1>2, <2>3 DEF Expect, ExpectReserves, HandlerMoves, GoesOn, OwnsClaim
  <2> QED
    BY <1>2, <2>1, <2>2, <2>3 DEF Expect
<1>3. ASSUME ExpectFails(w) \/ Prepare(w) \/ PutArtifact(w) \/ PutFails(w) \/ FinishFails(w)
      PROVE  HandlerMoves(w)
  <2>1. /\ pc[w] \in ProcessingSteps \ {"enqueue"} /\ pc'[w] \in ProcessingSteps
        /\ \A x \in Workers : x # w => pc'[x] = pc[x]
        /\ UNCHANGED <<tombstoned, queue, jobOutbox, deletion, claimed, receipt, job, intent,
                       artifacts>>
    BY <1>3 DEF ExpectFails, Prepare, PutArtifact, PutFails, FinishFails
  <2> QED
    BY <2>1 DEF HandlerMoves, Yields, GoesOn, OwnsClaim
<1>4. ASSUME CommitPrepared(w) PROVE HandlerMoves(w)
  <2>1. CASE CommitAfterPurge(w) \/ CommitStale(w)
    <3>1. ~ OwnsClaim(w)
      BY <2>1 DEF CommitAfterPurge, CommitStale, OwnsClaim
    <3>2. deletion'.state # "none" => tombstoned \/ deletion.state # "none"
      BY <2>1 DEF CommitAfterPurge, CommitStale, InventoryIfDeleted
    <3>3. /\ \A x \in Workers : x # w =>
               pc'[x] = pc[x] /\ claimed'[x] = claimed[x] /\ receipt'[x] = receipt[x]
          /\ claimed'[w] \in {claimed[w], None} /\ receipt'[w] \in {receipt[w], None}
          /\ UNCHANGED <<intent>>
      BY <2>1 DEF CommitAfterPurge, CommitStale, Forget
    <3> QED
      BY <1>4, <3>1, <3>2, <3>3 DEF CommitPrepared, HandlerMoves, Yields
  <2>2. CASE CommitWithoutIntent(w) \/ CommitGoesOn(w)
    BY <1>4, <2>2 DEF CommitPrepared, CommitWithoutIntent, CommitGoesOn, HandlerMoves, GoesOn,
       OwnsClaim
  <2>3. CASE CommitFindsDeletion(w)
    BY <1>0, <1>4, <2>3 DEF CommitPrepared, CommitFindsDeletion, ReconcileIntent, HandlerMoves,
       Settles
  <2> QED
    BY <1>4, <2>1, <2>2, <2>3 DEF CommitPrepared
<1>5. ASSUME FinishCommit(w) PROVE HandlerMoves(w)
  <2>1. /\ job'[j].state = "completed" /\ job'[j].attempt = job[j].attempt
        /\ \A i \in Jobs : i # j => job'[i] = job[i]
    BY <1>0, <1>5 DEF FinishCommit, Released, JobRow
  <2> QED
    BY <1>0, <1>5, <2>1 DEF FinishCommit, HandlerMoves, Settles, Open
<1>6. ASSUME Requeue(w) PROVE HandlerMoves(w)
  <2>1. CASE SettleAfterPurge(w)
    BY <1>6, <2>1 DEF Requeue, SettleAfterPurge, HandlerMoves, Yields, OwnsClaim
  <2>2. CASE RequeueFindsDeletion(w)
    <3>1. intent' = IF OwnsClaim(w) THEN [intent EXCEPT ![j] = "none"] ELSE intent
      BY <2>2 DEF RequeueFindsDeletion
    <3>2. CASE OwnsClaim(w)
      BY <1>0, <1>6, <2>2, <3>1, <3>2 DEF Requeue, RequeueFindsDeletion, HandlerMoves, Settles
    <3>3. CASE ~ OwnsClaim(w)
      BY <1>6, <2>2, <3>1, <3>3 DEF Requeue, RequeueFindsDeletion, HandlerMoves, Yields
    <3> QED
      BY <3>2, <3>3
  <2>3. CASE RequeueRefused(w)
    BY <1>6, <2>3 DEF Requeue, RequeueRefused, HandlerMoves, Yields
  <2>4. CASE RequeueReleases(w)
    <3>1. /\ job'[j].state = "queued" /\ job'[j].attempt = job[j].attempt
          /\ \A i \in Jobs : i # j => job'[i] = job[i]
      BY <1>0, <1>6, <2>4 DEF Requeue, RequeueReleases, Released, JobRow
    <3> QED
      BY <1>6, <2>4, <3>1 DEF Requeue, RequeueReleases, HandlerMoves, GoesOn
  <2> QED
    BY <1>6, <2>1, <2>2, <2>3, <2>4 DEF Requeue
<1>7. ASSUME Fail(w) PROVE HandlerMoves(w)
  <2>1. CASE SettleAfterPurge(w)
    BY <1>7, <2>1 DEF Fail, SettleAfterPurge, HandlerMoves, Yields, OwnsClaim
  <2>2. CASE FailRefused(w) /\ Goto(w, "ack")
    BY <1>7, <2>2 DEF Fail, FailRefused, InventoryIfDeleted, HandlerMoves, Yields
  <2>3. CASE FailSettles(w) /\ Goto(w, "ack")
    <3>1. /\ job'[j].state = "failed" /\ job'[j].attempt = job[j].attempt
          /\ \A i \in Jobs : i # j => job'[i] = job[i]
      BY <1>0, <1>7, <2>3 DEF Fail, FailSettles, Released, JobRow
    <3>2. /\ intent'[j] # "expected" /\ \A i \in Jobs : i # j => intent'[i] = intent[i]
          /\ deletion'.state # "none" => tombstoned \/ deletion.state # "none"
      BY <1>0, <1>7, <2>3 DEF Fail, FailSettles, ReconcileIntentIfAny, ReconcileIntent
    <3> QED
      BY <1>7, <2>3, <3>1, <3>2 DEF Fail, FailSettles, HandlerMoves, Settles, Open
  <2> QED
    BY <1>7, <2>1, <2>2, <2>3 DEF Fail
<1> QED
  BY <1>2, <1>3, <1>4, <1>5, <1>6, <1>7 DEF ProcessingStep

\* The handler of a retry sends the message of the next attempt before it
\* deletes its own.
LEMMA EnqueueKeepsJobs ==
  ASSUME TypeOK, TypeOK', ReceiptsAreExclusive, RowsAgree, UnfinishedIsAwake,
         NEW w \in Workers, Enqueue(w), UNCHANGED jobOutbox
  PROVE  RowsAgree' /\ UnfinishedIsAwake'
<1>1. PICK j \in Jobs : j = vJob(w) /\ j \in Subjects
  BY ClaimedJob, WorkerAssumption DEF Enqueue, ProcessingSteps
<1>2. /\ UNCHANGED <<tombstoned, job, intent, artifacts, deletion, claimed, receipt>>
      /\ \A x \in Workers : x # w => pc'[x] = pc[x]
  BY DEF Enqueue, storeVars, Goto, TypeOK, WorkerTypeOK
<1>3. PICK m : /\ m.subject = j /\ queue' = queue \cup {m}
               /\ \A x \in Workers : receipt[x] # m.id
  BY <1>1, SendAdds DEF Enqueue
<1>4. RowsAgree'
  BY <1>2, RestKeepsRows
<1>5. Awake(j)'
  BY <1>2, <1>3 DEF Awake, Kept
<1>6. ASSUME NEW i \in Jobs, i # j, Unfinished(i)' PROVE Awake(i)'
  <2>1. Awake(i)
    BY <1>2, <1>6 DEF Unfinished, UnfinishedIsAwake
  <2>2. \A x \in Workers : Works(x, i) => Works(x, i)'
    BY <1>1, <1>2, <1>6 DEF Works, OwnsClaim, vJob
  <2> QED
    BY <1>2, <1>3, <2>1, <2>2, AwakeStays
<1> QED
  BY <1>4, <1>5, <1>6 DEF UnfinishedIsAwake

\* No handler deletes the message of a job it has not settled.
LEMMA AcknowledgeKeepsJobs ==
  ASSUME TypeOK, TypeOK', ReceiptsAreExclusive, RowsAgree, UnfinishedIsAwake,
         NEW w \in Workers, Acknowledge(w), UNCHANGED jobOutbox
  PROVE  RowsAgree' /\ UnfinishedIsAwake'
<1>1. /\ UNCHANGED <<tombstoned, job, intent, artifacts, deletion>>
      /\ pc[w] = "ack" /\ claimed'[w] = None /\ receipt'[w] = None
      /\ \A x \in Workers : x # w =>
           pc'[x] = pc[x] /\ claimed'[x] = claimed[x] /\ receipt'[x] = receipt[x]
  BY DEF Acknowledge, storeVars, Forget, TypeOK, WorkerTypeOK
<1>2. RowsAgree'
  BY <1>1, RestKeepsRows
<1>3. ASSUME NEW j \in Jobs, Unfinished(j)' PROVE Awake(j)'
  <2>1. Awake(j)
    BY <1>1, <1>3 DEF Unfinished, UnfinishedIsAwake
  <2>2. \A x \in Workers : x # w /\ Works(x, j) => Works(x, j)'
    BY <1>1 DEF Works, OwnsClaim, vJob
  <2>3. CASE jobOutbox[j] > 0
    BY <2>3 DEF Awake
  <2>4. ASSUME NEW m \in queue, Kept(m, j) PROVE Awake(j)'
    <3>1. receipt[w] # m.id
      BY <1>1, <2>4 DEF Kept, Works, ProcessingSteps
    <3>2. m \in queue'
      BY <3>1, AcknowledgeMovesQueue
    <3>3. m.id # None
      BY WorkerAssumption DEF TypeOK, QueueTypeOK, Message
    <3>4. Kept(m, j)'
      BY <1>1, <2>2, <2>4, <3>3 DEF Kept
    <3> QED
      BY <3>2, <3>4 DEF Awake
  <2> QED
    BY <2>1, <2>3, <2>4 DEF Awake
<1> QED
  BY <1>2, <1>3 DEF UnfinishedIsAwake

\* A reception by a handler that is idle: what is kept for another subject
\* stays kept.
LEMMA TakeKeepsAwake ==
  ASSUME TypeOK, TypeOK', MaxReceives = 0, ReceiptsAreExclusive,
         NEW w \in Workers, NEW m \in queue, NEW r \in {m.id, None}, TakeMessage(w, m, r),
         NEW j \in Jobs, Awake(j), jobOutbox'[j] = jobOutbox[j], m.subject # j \/ r = None,
         job'[j] = job[j],
         \A x \in Workers : x # w => pc'[x] = pc[x] /\ claimed'[x] = claimed[x]
  PROVE  Awake(j)'
<1>1. /\ queue' = queue /\ receipt'[w] = r
      /\ \A x \in Workers : x # w => receipt'[x] # m.id /\ receipt'[x] \in {receipt[x], None}
  BY TakeMoves
<1>2. \A x \in Workers : x # w /\ Works(x, j) => Works(x, j)'
  BY DEF Works, OwnsClaim, vJob
<1>3. ASSUME NEW x \in Workers, NEW n \in queue, n.subject = j, receipt'[x] = n.id
      PROVE  receipt[x] = n.id /\ x # w
  <2>1. n.id # None
    BY WorkerAssumption DEF TypeOK, QueueTypeOK, Message
  <2>2. x # w
    BY <1>1, <1>3, <2>1 DEF ReceiptsAreExclusive
  <2> QED
    BY <1>1, <1>3, <2>1, <2>2
<1> QED
  BY <1>1, <1>2, <1>3, AwakeStays

\* The message of a job finds the job settled, or its handler takes the claim
\* of it, or it stays in the queue.
LEMMA ClaimKeepsJobs ==
  ASSUME TypeOK, TypeOK', MaxReceives = 0, ReceiptsAreExclusive, RowsAgree, UnfinishedIsAwake,
         NEW w \in Workers, NEW m \in queue, Claim(w, m), UNCHANGED jobOutbox
  PROVE  RowsAgree' /\ UnfinishedIsAwake'
<1> PICK j \in Jobs : j = m.subject
  BY DEF Claim
<1> USE DEF KeepDeletion, Goto
<1>1. /\ UNCHANGED <<tombstoned, artifacts, jobOutbox>>
      /\ \/ ClaimRaises(w, m, j) \/ ClaimFindsDeletion(w, m, j) \/ ClaimFindsArtifact(w, m, j)
         \/ ClaimSucceeds(w, m, j) \/ ClaimFindsNothing(w, m, j)
  BY DEF Claim
<1>2. PICK r \in {m.id, None} : TakeMessage(w, m, r) /\ (~ ClaimRaises(w, m, j) => r = m.id)
                                /\ (ClaimRaises(w, m, j) => r = None)
  <2>1. CASE ClaimRaises(w, m, j)
    BY <2>1 DEF ClaimRaises
  <2>2. CASE ~ ClaimRaises(w, m, j)
    BY <1>1, <2>2 DEF ClaimFindsDeletion, ClaimFindsArtifact, ClaimSucceeds, ClaimFindsNothing
  <2> QED
    BY <2>1, <2>2
<1>3. \A x \in Workers : x # w => pc'[x] = pc[x] /\ claimed'[x] = claimed[x]
  BY <1>1 DEF ClaimRaises, ClaimFindsDeletion, ClaimFindsArtifact, ClaimSucceeds,
     ClaimFindsNothing, TypeOK, WorkerTypeOK
<1>4. \A i \in Jobs : i # j => job'[i] = job[i] /\ intent'[i] = intent[i]
  BY <1>1 DEF ClaimRaises, ClaimFindsDeletion, ClaimFindsArtifact, ClaimSucceeds,
     ClaimFindsNothing, ReconcileIntentIfAny, ReconcileIntent, TypeOK, StoreTypeOK
<1>5. ASSUME NEW i \in Jobs, i # j, Unfinished(i)' PROVE Awake(i)'
  <2>1. Awake(i)
    BY <1>1, <1>4, <1>5 DEF Unfinished, UnfinishedIsAwake
  <2> QED
    BY <1>1, <1>2, <1>3, <1>4, <1>5, <2>1, TakeKeepsAwake
<1>6. CASE ClaimRaises(w, m, j)
  <2>1. UNCHANGED <<job, intent, claimed, deletion>>
    BY <1>6 DEF ClaimRaises
  <2>2. RowsAgree'
    BY <1>1, <2>1, RestKeepsRows
  <2>3. ASSUME Unfinished(j)' PROVE Awake(j)'
    <3>1. Awake(j)
      BY <1>1, <2>1, <2>3 DEF Unfinished, UnfinishedIsAwake
    <3> QED
      BY <1>1, <1>2, <1>3, <1>6, <2>1, <3>1, TakeKeepsAwake
  <2> QED
    BY <1>5, <2>2, <2>3 DEF UnfinishedIsAwake
<1>7. CASE ClaimFindsDeletion(w, m, j) \/ ClaimFindsNothing(w, m, j)
  <2>1. ~ Unfinished(j)'
    BY <1>1, <1>7 DEF ClaimFindsDeletion, ClaimFindsNothing, ReconcileIntentIfAny, ReconcileIntent,
       Unfinished, Open, TypeOK, StoreTypeOK
  <2>2. /\ UNCHANGED <<job, claimed>>
        /\ deletion'.state # "none" => tombstoned \/ deletion.state # "none"
        /\ intent'[j] = "none" \/ intent'[j] = intent[j]
    BY <1>7 DEF ClaimFindsDeletion, ClaimFindsNothing, ReconcileIntentIfAny, ReconcileIntent,
       TypeOK, StoreTypeOK
  <2>3. RowsAgree'
    <3>1. JobClaimsAreOrdered'
      BY <1>1, <2>2 DEF RowsAgree, JobClaimsAreOrdered, vJob
    <3>2. \A i \in artifacts : i \in Jobs
      BY DEF TypeOK, StoreTypeOK
    <3> QED
      BY <1>1, <1>4, <2>2, <3>1, <3>2 DEF RowsAgree
  <2> QED
    BY <1>5, <2>1, <2>3 DEF UnfinishedIsAwake
<1>8. CASE ClaimFindsArtifact(w, m, j)
  <2>1. /\ job'[j].state = "completed" /\ job'[j].attempt = job[j].attempt
        /\ UNCHANGED <<intent, claimed, deletion>> /\ ~ tombstoned /\ j \in artifacts
    BY <1>8 DEF ClaimFindsArtifact, Released, TypeOK, StoreTypeOK, JobRow
  <2>2. RowsAgree'
    <3>1. \A x \in Workers : claimed[x] # None => vJob(x) \in Jobs
      BY DEF TypeOK, WorkerTypeOK, JobClaim, vJob
    <3>2. \A i \in artifacts : i \in Jobs
      BY DEF TypeOK, StoreTypeOK
    <3>3. \A i \in Jobs : job'[i].attempt = job[i].attempt
                          /\ (job'[i].state = "absent" => job[i].state = "absent")
      BY <1>4, <2>1
    <3>4. JobClaimsAreOrdered'
      BY <1>1, <2>1, <3>1, <3>3 DEF RowsAgree, JobClaimsAreOrdered, vJob
    <3>5. \A i \in Jobs : intent'[i] = "expected" => job'[i].state \in Open
      BY <1>4, <2>1 DEF RowsAgree
    <3> QED
      BY <1>1, <1>4, <2>1, <3>2, <3>4, <3>5 DEF RowsAgree
  <2>3. ~ Unfinished(j)'
    BY <1>1, <2>1 DEF Unfinished, Open
  <2> QED
    BY <1>5, <2>2, <2>3 DEF UnfinishedIsAwake
<1>9. CASE ClaimSucceeds(w, m, j)
  <2>1. /\ job'[j].state = "processing" /\ job'[j].attempt = job[j].attempt + 1
        /\ claimed'[w] = [job |-> j, attempt |-> job[j].attempt + 1]
        /\ UNCHANGED <<intent, deletion>> /\ ~ tombstoned /\ j \notin artifacts
        /\ pc'[w] = "expect"
    BY <1>9 DEF ClaimSucceeds, TypeOK, StoreTypeOK, WorkerTypeOK
  <2>2. RowsAgree'
    <3>1. \A x \in Workers : claimed[x] # None =>
             /\ vJob(x) \in Jobs /\ claimed[x] \in JobClaim
             /\ claimed[x].attempt <= job[vJob(x)].attempt /\ 1 <= claimed[x].attempt
      BY DEF TypeOK, WorkerTypeOK, JobClaim, vJob, RowsAgree, JobClaimsAreOrdered
    <3>2. \A i \in artifacts : i \in Jobs
      BY DEF TypeOK, StoreTypeOK
    <3>3. \A i \in Jobs : job[i].attempt \in Nat
      BY DEF TypeOK, StoreTypeOK, JobRow
    <3>4. \A x \in Workers : x # w /\ claimed[x] # None => claimed'[x] # claimed'[w]
      BY <1>3, <2>1, <3>1, <3>3 DEF vJob
    <3>5. \A x, y \in Workers : claimed'[x] # None /\ claimed'[x] = claimed'[y] => x = y
      BY <1>3, <3>4 DEF RowsAgree, JobClaimsAreOrdered
    <3>6. \A x \in Workers : claimed'[x] # None =>
             1 <= claimed'[x].attempt /\ claimed'[x].attempt <= job'[claimed'[x].job].attempt
      <4>1. \A x \in Workers : x # w /\ claimed'[x] # None =>
               1 <= claimed'[x].attempt /\ claimed'[x].attempt <= job'[claimed'[x].job].attempt
        BY <1>3, <1>4, <2>1, <3>1, <3>3 DEF vJob, JobClaim
      <4>2. 1 <= claimed'[w].attempt /\ claimed'[w].attempt <= job'[claimed'[w].job].attempt
        BY <2>1, <3>3
      <4> QED
        BY <4>1, <4>2
    <3>7. JobClaimsAreOrdered'
      BY <1>1, <1>4, <2>1, <3>5, <3>6 DEF RowsAgree, JobClaimsAreOrdered, vJob
    <3>8. \A i \in Jobs : intent'[i] = "expected" => job'[i].state \in Open
      BY <1>4, <2>1 DEF RowsAgree, Open
    <3>9. \A i \in artifacts' : job'[i].state = "completed" /\ intent'[i] = "none"
      BY <1>1, <1>4, <2>1, <3>2 DEF RowsAgree
    <3> QED
      BY <1>1, <2>1, <3>7, <3>8, <3>9 DEF RowsAgree
  <2>3. Awake(j)'
    <3>1. /\ queue' = queue
          /\ \A x \in Workers : x # w => receipt'[x] # m.id
      BY <1>2, TakeMoves
    <3>2. Works(w, j)'
      BY <2>1 DEF Works, OwnsClaim, vJob, ProcessingSteps
    <3>3. Kept(m, j)'
      BY <3>1, <3>2 DEF Kept
    <3> QED
      BY <3>1, <3>3 DEF Awake
  <2> QED
    BY <1>5, <2>2, <2>3 DEF UnfinishedIsAwake
<1> QED
  BY <1>1, <1>6, <1>7, <1>8, <1>9

\* The deletion's message is no job's.
LEMMA ClaimDeletionKeepsJobs ==
  ASSUME TypeOK, TypeOK', MaxReceives = 0, ReceiptsAreExclusive, RowsAgree, UnfinishedIsAwake,
         NEW w \in Workers, NEW m \in queue, ClaimDeletion(w, m), UNCHANGED apiVars
  PROVE  RowsAgree' /\ UnfinishedIsAwake'
<1>1. /\ UNCHANGED <<tombstoned, job, intent, artifacts, claimed, jobOutbox>>
      /\ deletion'.state # "none" => deletion.state # "none"
      /\ \A x \in Workers : x # w => pc'[x] = pc[x]
  BY DEF ClaimDeletion, DeletionClaimSucceeds, DeletionClaimRefused, CanClaimDeletion, apiVars,
     Goto, TypeOK, WorkerTypeOK
<1>2. RowsAgree'
  BY <1>1, RestKeepsRows
<1>3. ASSUME NEW j \in Jobs, Unfinished(j)' PROVE Awake(j)'
  <2>1. Awake(j)
    BY <1>1, <1>3 DEF Unfinished, UnfinishedIsAwake
  <2>2. m.subject # j /\ TakeMessage(w, m, m.id)
    BY WorkerAssumption DEF ClaimDeletion
  <2> QED
    BY <1>1, <2>1, <2>2, TakeKeepsAwake
<1> QED
  BY <1>2, <1>3 DEF UnfinishedIsAwake

\* Deletion handlers, faults, time and the sweepers leave jobs alone.
LEMMA OthersRest ==
  ASSUME TypeOK, TypeOK', MaxReceives = 0, ReceiptsAreExclusive,
         \/ \E w \in Workers : (DeletionStep(w) \/ EraseFails(w) \/ PurgeRaises(w)) /\ UNCHANGED apiVars
         \/ \E w \in Workers : CompleteAndPurge(w) /\ PurgeOutbox(w) /\ PurgeRefused(w)
         \/ \E w \in Workers : (Crash(w) \/ ConnectionLost(w)) /\ UNCHANGED <<sweeping, apiVars>>
         \/ Timeout
         \/ \E s \in Sweepers :
              (SweeperStep(s) \/ PublishFails(s) \/ SweeperCrash(s)) /\ UNCHANGED apiVars
         \/ UNCHANGED allVars
  PROVE  HandlersRest
<1> USE DEF HandlersRest, TypeOK, WorkerTypeOK, StoreTypeOK, storeVars, queueVars, workerVars, apiVars,
        KeepDeletion, ProcessingSteps, Goto, JobRow
<1>1. ASSUME NEW w \in Workers, DeletionStep(w) \/ EraseFails(w) \/ PurgeRaises(w),
             UNCHANGED apiVars
      PROVE  HandlersRest
  <2>1. /\ UNCHANGED <<tombstoned, job, intent, artifacts, queue, jobOutbox>>
        /\ pc[w] \notin ProcessingSteps
        /\ \A x \in Workers : x # w =>
             pc'[x] = pc[x] /\ claimed'[x] = claimed[x] /\ receipt'[x] = receipt[x]
        /\ claimed'[w] \in {claimed[w], None} /\ receipt'[w] \in {receipt[w], None}
    BY <1>1 DEF DeletionStep, ListPending, EraseObject, MarkDeleted, FinishObject, MarkRaises,
       PurgeFailed, EraseFails, PurgeRaises, Forget
  <2>2. deletion'.state # "none" => deletion.state # "none"
    BY <1>1 DEF DeletionStep, ListPending, EraseObject, MarkDeleted, FinishObject, MarkRaises,
       PurgeFailed, EraseFails, PurgeRaises, ReleaseForRetry, ClaimIsCurrent
  <2> QED
    BY <2>1, <2>2
<1>2. ASSUME NEW w \in Workers, CompleteAndPurge(w), PurgeOutbox(w), PurgeRefused(w)
      PROVE  HandlersRest
  <2>1. jobOutbox' = jobOutbox
    <3>1. CASE ~ ClaimIsCurrent(w) \/ PurgeIsBlocked
      BY <1>2, <3>1 DEF PurgeOutbox
    <3>2. CASE ClaimIsCurrent(w) /\ ~ PurgeIsBlocked
      BY <1>2, <3>2 DEF PurgeRefused
    <3> QED
      BY <3>1, <3>2
  <2>2. /\ UNCHANGED <<tombstoned, job, intent, artifacts, queue, deletion, receipt, claimed>>
        /\ pc[w] \notin ProcessingSteps /\ \A x \in Workers : x # w => pc'[x] = pc[x]
    BY <1>2 DEF CompleteAndPurge, PurgeRefused
  <2> QED
    BY <2>1, <2>2
<1>3. ASSUME NEW w \in Workers, Crash(w) \/ ConnectionLost(w), UNCHANGED apiVars
      PROVE  HandlersRest
  BY <1>3 DEF Crash, ConnectionLost, Forget
<1>4. ASSUME Timeout PROVE HandlersRest
  <2>1. ASSUME NEW m \in queue, VisibilityTimeout(m), UNCHANGED apiVars PROVE HandlersRest
    BY <2>1 DEF VisibilityTimeout, Reappear
  <2>2. ASSUME NEW j \in Jobs, ExpireClaim(j), UNCHANGED apiVars PROVE HandlersRest
    <3>1. \A i \in Jobs : job'[i].state = job[i].state /\ job'[i].attempt = job[i].attempt
      BY <2>2 DEF ExpireClaim
    <3> QED
      BY <2>2, <3>1 DEF ExpireClaim
  <2>3. ASSUME ExpireDeletionClaim \/ DeletionComesDue \/ ExpireOutboxLease, UNCHANGED apiVars
        PROVE  HandlersRest
    <3>1. deletion'.state = deletion.state
      BY <2>3 DEF ExpireDeletionClaim, DeletionComesDue, ExpireOutboxLease, DeletionRow
    <3> QED
      BY <2>3, <3>1 DEF ExpireDeletionClaim, DeletionComesDue, ExpireOutboxLease
  <2> QED
    BY <1>4, <2>1, <2>2, <2>3 DEF Timeout
<1>5. ASSUME NEW s \in Sweepers, SweeperStep(s) \/ PublishFails(s) \/ SweeperCrash(s),
             UNCHANGED apiVars
      PROVE  HandlersRest
  <2>1. /\ UNCHANGED <<tombstoned, job, intent, artifacts, pc, claimed, receipt>>
        /\ deletion'.state # "none" => deletion.state # "none"
        /\ queue \subseteq queue'
    BY <1>5 DEF SweeperStep, RecoverStaleDeletion, ClaimDueOutbox, PublishDeletion,
       MarkOutboxDelivered, PublishFails, SweeperCrash, Send
  <2> QED
    BY <1>5, <2>1
<1>6. CASE UNCHANGED allVars
  BY <1>6 DEF allVars, vars
<1> QED
  BY <1>1, <1>2, <1>3, <1>4, <1>5, <1>6

\* A purge of the agreement's rows leaves nothing to do.
LEMMA PurgeKeepsJobs ==
  ASSUME TypeOK, TypeOK', RowsAgree, NEW w \in Workers, CompleteAndPurge(w), PurgeRows(w)
  PROVE  RowsAgree' /\ UnfinishedIsAwake'
<1>1. /\ UNCHANGED <<tombstoned, claimed>> /\ tombstoned /\ artifacts' = {}
      /\ \A j \in Jobs : /\ job'[j].state = "absent" /\ job'[j].attempt = job[j].attempt
                         /\ intent'[j] = "none"
  <2>1. tombstoned
    BY DEF PurgeRows, ClaimIsCurrent, RowsAgree
  <2>2. ASSUME NEW j \in Jobs
        PROVE  job'[j].state = "absent" /\ job'[j].attempt = job[j].attempt
    <3>1. job'[j] = [job[j] EXCEPT !.state = "absent", !.live = FALSE]
      BY DEF PurgeRows
    <3>2. job[j] \in JobRow
      BY DEF TypeOK, StoreTypeOK
    <3> QED
      BY <3>1, <3>2 DEF JobRow
  <2>3. /\ UNCHANGED <<tombstoned, claimed>> /\ artifacts' = {}
        /\ \A j \in Jobs : intent'[j] = "none"
    BY DEF CompleteAndPurge, PurgeRows
  <2> QED
    BY <2>1, <2>2, <2>3
<1>2. \A x \in Workers : claimed[x] # None => vJob(x) \in Jobs
  BY DEF TypeOK, WorkerTypeOK, JobClaim, vJob
<1>3. RowsAgree'
  BY <1>1, <1>2 DEF RowsAgree, JobClaimsAreOrdered, vJob
<1> QED
  BY <1>1, <1>3 DEF UnfinishedIsAwake, Unfinished

\* The API: a job it submits, retries or requeues has an outbox row, and a
\* row that goes out leaves a message.
LEMMA ApiKeepsJobs ==
  ASSUME TypeOK, TypeOK', ReceiptsAreExclusive, RowsAgree, UnfinishedIsAwake,
         ApiStep \/ \E j \in Jobs : DispatchFails(j)
  PROVE  RowsAgree' /\ UnfinishedIsAwake'
<1> USE DEF storeVars, queueVars, workerVars, apiVars, KeepDeletion
<1>1. ASSUME NEW j \in Jobs, Submit(j) \/ Retry(j)
      PROVE  RowsAgree' /\ UnfinishedIsAwake'
  <2>1. /\ UNCHANGED <<tombstoned, intent, artifacts, queue, receipt, pc, claimed, deletion>>
        /\ ~ tombstoned /\ job[j].state \in {"absent", "failed"}
        /\ job'[j].state = "queued"
        /\ \A i \in Jobs : i # j => job'[i] = job[i] /\ jobOutbox'[i] = jobOutbox[i]
        /\ jobOutbox'[j] > 0
    BY <1>1 DEF Submit, Retry, EnqueueOutbox, TypeOK, StoreTypeOK, ApiTypeOK, JobRow
  <2>2. \A x \in Workers : claimed[x] # None => vJob(x) \in Jobs /\ claimed[x].attempt \in Nat
    BY DEF TypeOK, WorkerTypeOK, JobClaim, vJob
  <2>3. job'[j].attempt = job[j].attempt
    BY <1>1 DEF Submit, Retry, RowsAgree, JobClaimsAreOrdered, TypeOK, StoreTypeOK, JobRow
  <2>4. JobClaimsAreOrdered'
    BY <2>1, <2>2, <2>3 DEF RowsAgree, JobClaimsAreOrdered, vJob
  <2>5. \A i \in artifacts : i \in Jobs
    BY DEF TypeOK, StoreTypeOK
  <2>6. RowsAgree'
    <3>1. \A i \in Jobs : intent'[i] = "expected" => job'[i].state \in Open
      BY <2>1 DEF RowsAgree, Open
    <3>2. \A i \in artifacts' : job'[i].state = "completed" /\ intent'[i] = "none"
      BY <2>1, <2>5 DEF RowsAgree
    <3> QED
      BY <2>1, <2>4, <3>1, <3>2 DEF RowsAgree
  <2>7. ASSUME NEW i \in Jobs, Unfinished(i)' PROVE Awake(i)'
    <3>1. CASE i = j
      BY <2>1, <3>1 DEF Awake
    <3>2. CASE i # j
      <4>1. Awake(i)
        BY <2>1, <2>7, <3>2 DEF Unfinished, UnfinishedIsAwake
      <4>2. \A x \in Workers : Works(x, i) => Works(x, i)'
        BY <2>1, <3>2 DEF Works, OwnsClaim, vJob
      <4> QED
        BY <2>1, <3>2, <4>1, <4>2, AwakeStays
    <3> QED
      BY <3>1, <3>2
  <2> QED
    BY <2>6, <2>7 DEF UnfinishedIsAwake
<1>2. ASSUME NEW j \in Jobs, DispatchOne(j)
      PROVE  RowsAgree' /\ UnfinishedIsAwake'
  <2>1. /\ UNCHANGED <<tombstoned, job, intent, artifacts, receipt, pc, claimed, deletion>>
        /\ \A i \in Jobs : i # j => jobOutbox'[i] = jobOutbox[i]
    BY <1>2 DEF DispatchOne, TypeOK, ApiTypeOK
  <2>2. PICK m : /\ m.subject = j /\ queue' = queue \cup {m}
                 /\ \A x \in Workers : receipt[x] # m.id
    BY <1>2, SendAdds, WorkerAssumption DEF DispatchOne
  <2>3. RowsAgree'
    BY <2>1, RestKeepsRows
  <2>4. ASSUME NEW i \in Jobs, Unfinished(i)' PROVE Awake(i)'
    <3>1. CASE i = j
      BY <2>1, <2>2, <3>1 DEF Awake, Kept
    <3>2. CASE i # j
      <4>1. Awake(i)
        BY <2>1, <2>4 DEF Unfinished, UnfinishedIsAwake
      <4>2. \A x \in Workers : Works(x, i) => Works(x, i)'
        BY <2>1 DEF Works, OwnsClaim, vJob
      <4> QED
        BY <2>1, <2>2, <3>2, <4>1, <4>2, AwakeStays
    <3> QED
      BY <3>1, <3>2
  <2> QED
    BY <2>3, <2>4 DEF UnfinishedIsAwake
<1>3. ASSUME \/ DispatchDone \/ RedriveDeletion
             \/ \E j \in Jobs : RequeueJob(j) \/ DispatchFails(j)
      PROVE  RowsAgree' /\ UnfinishedIsAwake'
  <2>1. /\ UNCHANGED <<tombstoned, job, intent, artifacts, receipt, pc, claimed>>
        /\ deletion'.state # "none" => deletion.state # "none"
        /\ queue \subseteq queue'
    BY <1>3 DEF DispatchDone, RedriveDeletion, RequeueJob, DispatchFails, Send
  <2>2. \A i \in Jobs : jobOutbox[i] > 0 => jobOutbox'[i] > 0
    BY <1>3 DEF DispatchDone, RedriveDeletion, RequeueJob, DispatchFails, EnqueueOutbox,
       TypeOK, ApiTypeOK
  <2>3. HandlersRest
    BY <2>1, <2>2 DEF HandlersRest
  <2> QED
    BY <2>3, RestKeepsJobs
<1>4. ASSUME AcceptDeletion PROVE RowsAgree' /\ UnfinishedIsAwake'
  <2>1. /\ UNCHANGED <<job, intent, artifacts, receipt, pc, claimed, queue, jobOutbox>>
        /\ ~ tombstoned /\ tombstoned'
    BY <1>4 DEF AcceptDeletion
  <2>2. RowsAgree'
    BY <2>1 DEF RowsAgree, JobClaimsAreOrdered, vJob
  <2>3. ASSUME NEW i \in Jobs, Unfinished(i)' PROVE Awake(i)'
    <3>1. Awake(i)
      BY <2>1, <2>3 DEF Unfinished, UnfinishedIsAwake, RowsAgree
    <3>2. \A x \in Workers : Works(x, i) => Works(x, i)'
      BY <2>1 DEF Works, OwnsClaim, vJob
    <3> QED
      BY <2>1, <3>1, <3>2, AwakeStays
  <2> QED
    BY <2>2, <2>3 DEF UnfinishedIsAwake
<1> QED
  BY <1>1, <1>2, <1>3, <1>4 DEF ApiStep

LEMMA JobsInitial == Init => JobsInv
<1> SUFFICES ASSUME Init PROVE JobsInv
  OBVIOUS
<1>1. ReceiptsAreExclusive
  BY DEF Init, QueueInit, WorkerInit, ReceiptsAreExclusive
<1>2. RowsAgree
  BY DEF Init, StoreInit, WorkerInit, RowsAgree, JobClaimsAreOrdered
<1>3. UnfinishedIsAwake
  BY DEF Init, StoreInit, UnfinishedIsAwake, Unfinished, Open
<1> QED
  BY <1>1, <1>2, <1>3, TypeInit DEF JobsInv

LEMMA JobsNext ==
  ASSUME MaxReceives = 0, JobsInv, [Next]_allVars
  PROVE  JobsInv'
<1>1. TypeOK' /\ ReceiptsAreExclusive'
  BY TypeNext, ReceiptsNext DEF JobsInv
<1> USE <1>1 DEF JobsInv
<1>2. ASSUME NEW w \in Workers, WorkerStep(w) PROVE RowsAgree' /\ UnfinishedIsAwake'
  <2>1. CASE Acknowledge(w) /\ UNCHANGED apiVars
    BY <2>1, AcknowledgeKeepsJobs DEF apiVars
  <2>2. CASE Enqueue(w) /\ UNCHANGED apiVars
    BY <2>2, EnqueueKeepsJobs DEF apiVars
  <2>3. CASE ProcessingStep(w) /\ ~ Enqueue(w) /\ UNCHANGED apiVars
    BY <2>3, ProcessingMoves, HandlerKeepsJobs DEF apiVars
  <2>4. CASE DeletionStep(w) /\ UNCHANGED apiVars
    BY <2>4, OthersRest, RestKeepsJobs
  <2>5. CASE CompleteAndPurge(w) /\ PurgeOutbox(w)
    BY <2>5, OthersRest, RestKeepsJobs, PurgeKeepsJobs DEF CompleteAndPurge
  <2> QED
    BY <1>2, <2>1, <2>2, <2>3, <2>4, <2>5 DEF WorkerStep
<1>3. ASSUME NEW w \in Workers, WorkerFault(w) PROVE RowsAgree' /\ UnfinishedIsAwake'
  <2>1. CASE (ExpectFails(w) \/ PutFails(w)) /\ UNCHANGED apiVars
    BY <2>1, ProcessingMoves, HandlerKeepsJobs DEF apiVars
  <2>2. CASE (Crash(w) \/ ConnectionLost(w)) /\ UNCHANGED <<sweeping, apiVars>>
    BY <2>2, OthersRest, RestKeepsJobs
  <2>3. CASE (EraseFails(w) \/ PurgeRaises(w)) /\ UNCHANGED apiVars
    BY <2>3, OthersRest, RestKeepsJobs
  <2> QED
    BY <1>3, <2>1, <2>2, <2>3 DEF WorkerFault, ProcessingFault
<1>4. ASSUME NEW w \in Workers, NEW m \in queue, Handle(w, m)
      PROVE  RowsAgree' /\ UnfinishedIsAwake'
  BY <1>4, ClaimKeepsJobs, ClaimDeletionKeepsJobs DEF Handle, apiVars
<1>5. CASE \/ Timeout
           \/ \E s \in Sweepers :
                (SweeperStep(s) \/ PublishFails(s) \/ SweeperCrash(s)) /\ UNCHANGED apiVars
           \/ UNCHANGED allVars
  BY <1>5, OthersRest, RestKeepsJobs
<1>6. CASE ApiStep \/ \E j \in Jobs : DispatchFails(j)
  BY <1>6, ApiKeepsJobs
<1> QED
  BY <1>2, <1>3, <1>4, <1>5, <1>6 DEF Next

\* JobWakeUp: a job of an active agreement that is queued or processing, or
\* whose intent blocks the purge of a deleted one, has a message no worker is
\* about to delete, or an outbox row (JobProcessor.handle enqueues the retry
\* before it returns; submit, retry and requeue write the outbox).
THEOREM JobsWakeUp == MaxReceives = 0 => (Spec => []JobWakeUp)
<1> SUFFICES ASSUME MaxReceives = 0 PROVE Spec => []JobWakeUp
  OBVIOUS
<1>1. JobsInv /\ [Next]_allVars => JobsInv'
  BY JobsNext
<1>2. JobsInv => JobWakeUp
  <2> SUFFICES ASSUME JobsInv, NEW j \in Jobs, Awake(j)
               PROVE  JobWillBeHandled(j)
    BY DEF JobsInv, UnfinishedIsAwake, Unfinished, Open, JobWakeUp
  <2>1. \A m \in queue : Kept(m, j) => WillBeHandled(j)
    BY DEF Kept, Works, WillBeHandled, ProcessingSteps
  <2> QED
    BY <2>1 DEF Awake, JobWillBeHandled
<1> QED
  BY <1>1, <1>2, JobsInitial, PTL DEF Spec

-----------------------------------------------------------------------------
(* The deletion *)

\* A deletion message nobody has received stays so in every step but its
\* reception.
LEMMA UnreadStays ==
  ASSUME TypeOK, MaxReceives = 0, ReceiptsAreExclusive, [Next]_allVars,
         ~ \E w \in Workers, m \in queue : ClaimDeletion(w, m),
         NEW n \in queue, n.subject = Erasure, \A w \in Workers : receipt[w] # n.id
  PROVE  n \in queue' /\ \A w \in Workers : receipt'[w] # n.id
<1>1. n.id # None
  BY WorkerAssumption DEF TypeOK, QueueTypeOK, Message
<1>2. CASE Rests
  BY <1>1, <1>2 DEF Rests
<1>3. CASE Sends
  BY <1>3, SendAdds DEF Sends
<1>4. ASSUME NEW w \in Workers, Acknowledge(w) PROVE n \in queue' /\ \A x \in Workers : receipt'[x] # n.id
  BY <1>1, <1>4, AcknowledgeMovesQueue
<1>5. ASSUME NEW w \in Workers, NEW m \in queue, Claim(w, m)
      PROVE  n \in queue' /\ \A x \in Workers : receipt'[x] # n.id
  <2>1. m.subject # Erasure
    BY <1>5, WorkerAssumption DEF Claim
  <2>2. PICK r \in {m.id, None} : TakeMessage(w, m, r)
    BY <1>5 DEF Claim, ClaimRaises, ClaimFindsDeletion, ClaimFindsArtifact, ClaimSucceeds,
       ClaimFindsNothing
  <2>3. /\ queue' = queue /\ receipt'[w] = r
        /\ \A x \in Workers : x # w => receipt'[x] \in {receipt[x], None}
    BY <2>2, TakeMoves
  <2>4. m.id # n.id
    BY <2>1 DEF ReceiptsAreExclusive
  <2> QED
    BY <1>1, <2>3, <2>4
<1> QED
  BY <1>2, <1>3, <1>4, <1>5, QueueMoves DEF Handle

LEMMA AnnouncedStays ==
  ASSUME TypeOK, MaxReceives = 0, ReceiptsAreExclusive, [Next]_allVars, Announced,
         ~ \E w \in Workers, m \in queue : ClaimDeletion(w, m),
         deletion'.due
  PROVE  Announced'
BY UnreadStays DEF Announced

\* Every reset of the outbox row makes it due again, for any sweeper.
LEMMA ResetKeepsOutbox ==
  ASSUME deletionOutbox' = WaitingOutbox
  PROVE  OutboxIsTrue'
BY StoreAssumption DEF WaitingOutbox, OutboxIsTrue

LEMMA OutboxRests ==
  ASSUME OutboxIsTrue, UNCHANGED <<deletionOutbox, sweeping>>,
         deletion'.state \notin {"none", "completed"} => deletion.state \notin {"none", "completed"},
         Untried' => /\ Untried
                     /\ deletion.due => deletion'.due
                     /\ Announced => Announced'
  PROVE  OutboxIsTrue'
BY DEF OutboxIsTrue

\* The deletion's message finds it due, or the deletion is not announced.
LEMMA ClaimDeletionKeepsOutbox ==
  ASSUME TypeOK, OutboxIsTrue, NEW w \in Workers, NEW m \in queue, ClaimDeletion(w, m)
  PROVE  OutboxIsTrue'
<1>1. UNCHANGED <<deletionOutbox, sweeping>>
  BY DEF ClaimDeletion
<1>2. CASE DeletionClaimSucceeds(w)
  <2>1. deletion'.state = "processing" /\ deletion.state \notin {"none", "completed"}
    BY <1>2 DEF DeletionClaimSucceeds, CanClaimDeletion, TypeOK, StoreTypeOK, DeletionRow
  <2> QED
    BY <1>1, <2>1, OutboxRests DEF Untried
<1>3. CASE DeletionClaimRefused(w)
  <2>1. deletion' = deletion /\ ~ CanClaimDeletion
    BY <1>3 DEF DeletionClaimRefused
  <2>2. Untried' => Untried /\ ~ Announced
    BY <2>1 DEF CanClaimDeletion, Untried, Announced
  <2> QED
    BY <1>1, <2>1, <2>2, OutboxRests
<1> QED
  BY <1>2, <1>3 DEF ClaimDeletion

\* The sweepers.  The one that leases the row found the deletion due, the one
\* that published its message marks the row only if the lease is still its own.
LEMMA SweeperKeepsOutbox ==
  ASSUME TypeOK, TypeOK', MaxReceives = 0, ReceiptsAreExclusive, OutboxIsTrue, [Next]_allVars,
         ~ \E w \in Workers, m \in queue : ClaimDeletion(w, m),
         NEW s \in Sweepers, SweeperStep(s) \/ PublishFails(s) \/ SweeperCrash(s)
  PROVE  OutboxIsTrue'
<1> USE DEF TypeOK, SweeperTypeOK, storeVars
<1>1. CASE RecoverStaleDeletion(s)
  BY <1>1, ResetKeepsOutbox DEF RecoverStaleDeletion
<1>2. CASE ClaimDueOutbox(s)
  BY <1>2, StoreAssumption DEF ClaimDueOutbox, Sweep, OutboxIsTrue, Untried
<1>3. CASE PublishDeletion(s)
  <2>1. /\ UNCHANGED <<deletion, deletionOutbox, receipt>> /\ sweeping[s] = "publish"
        /\ \A r \in Sweepers : r # s => sweeping'[r] = sweeping[r]
        /\ sweeping'[s] = "mark"
    BY <1>3 DEF PublishDeletion, Sweep, workerVars
  <2>2. Announced => Announced'
    BY <2>1, AnnouncedStays DEF Announced
  <2>3. deletion.due => Announced'
    <3>1. PICK m : /\ m.subject = Erasure /\ queue' = queue \cup {m}
                   /\ \A w \in Workers : receipt[w] # m.id
      BY <1>3, SendAdds, WorkerAssumption DEF PublishDeletion
    <3> QED
      BY <2>1, <3>1 DEF Announced
  <2> QED
    BY <2>1, <2>2, <2>3 DEF OutboxIsTrue, Untried
<1>4. CASE MarkOutboxDelivered(s)
  <2>1. /\ UNCHANGED deletion /\ sweeping[s] = "mark"
        /\ \A r \in Sweepers : sweeping'[r] \in {sweeping[r], "idle"}
        /\ deletionOutbox' = IF deletionOutbox.owner = s
                             THEN [state |-> "delivered", owner |-> None] ELSE deletionOutbox
    BY <1>4 DEF MarkOutboxDelivered, Sweep
  <2>2. Announced => Announced'
    BY <2>1, AnnouncedStays DEF Announced
  <2> QED
    BY <2>1, <2>2, StoreAssumption DEF OutboxIsTrue, Untried
<1>5. CASE PublishFails(s)
  <2>1. /\ UNCHANGED deletion
        /\ \A r \in Sweepers : sweeping'[r] \in {sweeping[r], "idle"}
        /\ deletionOutbox' = IF deletionOutbox.owner = s THEN WaitingOutbox ELSE deletionOutbox
    BY <1>5 DEF PublishFails, Sweep
  <2>2. Announced => Announced'
    BY <2>1, AnnouncedStays DEF Announced
  <2>3. CASE deletionOutbox' = deletionOutbox
    BY <2>1, <2>2, <2>3 DEF OutboxIsTrue, Untried
  <2> QED
    BY <2>1, <2>3, ResetKeepsOutbox
<1>6. CASE SweeperCrash(s)
  <2>1. /\ UNCHANGED <<deletion, deletionOutbox>>
        /\ \A r \in Sweepers : sweeping'[r] \in {sweeping[r], "idle"}
    BY <1>6 DEF SweeperCrash
  <2>2. Announced => Announced'
    BY <2>1, AnnouncedStays DEF Announced
  <2> QED
    BY <2>1, <2>2 DEF OutboxIsTrue, Untried
<1> QED
  BY <1>1, <1>2, <1>3, <1>4, <1>5, <1>6 DEF SweeperStep

\* The other steps that write the deletion row: they reset the outbox row with
\* it, or do not make the deletion one that is to be tried.
RowMoves ==
    \/ deletionOutbox' = WaitingOutbox
    \/ deletion'.state = "completed" /\ deletionOutbox' = [state |-> "none", owner |-> None]
    \/ /\ UNCHANGED <<deletionOutbox, sweeping>>
       /\ deletion'.state = deletion.state
       /\ deletion.due => deletion'.due

LEMMA MovesKeepOutbox ==
  ASSUME TypeOK, MaxReceives = 0, ReceiptsAreExclusive, OutboxIsTrue, [Next]_allVars,
         ~ \E w \in Workers, m \in queue : ClaimDeletion(w, m),
         RowMoves
  PROVE  OutboxIsTrue'
<1>1. CASE deletionOutbox' = WaitingOutbox
  BY <1>1, ResetKeepsOutbox
<1>2. CASE deletion'.state = "completed" /\ deletionOutbox' = [state |-> "none", owner |-> None]
  BY <1>2, StoreAssumption DEF OutboxIsTrue, Untried
<1>3. CASE /\ UNCHANGED <<deletionOutbox, sweeping>>
           /\ deletion'.state = deletion.state
           /\ deletion.due => deletion'.due
  <2>1. Announced => Announced'
    BY <1>3, AnnouncedStays DEF Announced
  <2> QED
    BY <1>3, <2>1, OutboxRests DEF Untried
<1> QED
  BY <1>1, <1>2, <1>3 DEF RowMoves

LEMMA WorkersMoveDeletion ==
  ASSUME TypeOK, NEW w \in Workers, WorkerStep(w) \/ WorkerFault(w)
  PROVE  RowMoves
<1> USE DEF RowMoves, storeVars, KeepDeletion
<1>0. UNCHANGED sweeping
  <2>1. ASSUME DeletionStep(w) \/ CompleteAndPurge(w) PROVE UNCHANGED sweeping
    BY <2>1 DEF DeletionStep, ListPending, EraseObject, MarkDeleted, PurgeFailed, CompleteAndPurge
  <2>2. ASSUME EraseFails(w) \/ PurgeRaises(w) PROVE UNCHANGED sweeping
    BY <2>2 DEF EraseFails, PurgeRaises
  <2> QED
    BY <2>1, <2>2 DEF WorkerStep, WorkerFault
<1>1. ASSUME Acknowledge(w) \/ ProcessingStep(w) PROVE RowMoves
  BY <1>0, <1>1 DEF Acknowledge, ProcessingStep, Expect, ExpectRefused, ExpectFindsDeletion,
     ExpectReserves, Prepare, CommitPrepared, CommitAfterPurge, CommitStale, CommitWithoutIntent,
     CommitFindsDeletion, CommitGoesOn, PutArtifact, FinishCommit, FinishFails, Requeue,
     SettleAfterPurge, RequeueFindsDeletion, RequeueRefused, RequeueReleases, Enqueue, Fail,
     FailRefused, FailSettles, InventoryIfDeleted, InventoryLateArtifact, ReconcileIntent,
     ReconcileIntentIfAny
<1>2. ASSUME DeletionStep(w) PROVE RowMoves
  <2>1. CASE ListPending(w) \/ EraseObject(w)
    BY <1>0, <2>1 DEF ListPending, EraseObject
  <2>2. CASE MarkDeleted(w)
    BY <1>0, <2>2 DEF MarkDeleted, FinishObject, MarkRaises, TypeOK, StoreTypeOK, DeletionRow
  <2>3. CASE PurgeFailed(w)
    BY <1>0, <2>3 DEF PurgeFailed, ReleaseForRetry
  <2> QED
    BY <1>2, <2>1, <2>2, <2>3 DEF DeletionStep
<1>3. ASSUME CompleteAndPurge(w) PROVE RowMoves
  BY <1>0, <1>3 DEF CompleteAndPurge, PurgeRows, PurgeRefused, TypeOK, StoreTypeOK, DeletionRow
<1>4. ASSUME WorkerFault(w) PROVE RowMoves
  BY <1>0, <1>4 DEF WorkerFault, Crash, ProcessingFault, ExpectFails, PutFails, ConnectionLost,
     EraseFails, PurgeRaises, ReleaseForRetry
<1> QED
  BY <1>1, <1>2, <1>3, <1>4 DEF WorkerStep

LEMMA OthersMoveDeletion ==
  ASSUME TypeOK,
         \/ \E w \in Workers, m \in queue : Claim(w, m) /\ UNCHANGED <<sweeping, apiVars>>
         \/ Timeout /\ ~ ExpireOutboxLease
         \/ (ApiStep \/ \E j \in Jobs : DispatchFails(j)) /\ UNCHANGED sweeping /\ ~ RedriveDeletion
         \/ UNCHANGED allVars
  PROVE  RowMoves
<1> USE DEF RowMoves, storeVars, KeepDeletion
<1>1. ASSUME NEW w \in Workers, NEW m \in queue, Claim(w, m), UNCHANGED sweeping
      PROVE  RowMoves
  BY <1>1 DEF Claim, ClaimRaises, ClaimFindsDeletion, ClaimFindsArtifact, ClaimSucceeds,
     ClaimFindsNothing, ReconcileIntentIfAny, ReconcileIntent, InventoryLateArtifact
<1>2. ASSUME Timeout, ~ ExpireOutboxLease PROVE RowMoves
  BY <1>2 DEF Timeout, VisibilityTimeout, ExpireClaim, ExpireDeletionClaim, DeletionComesDue,
     TypeOK, StoreTypeOK, DeletionRow
<1>3. ASSUME ApiStep \/ \E j \in Jobs : DispatchFails(j), UNCHANGED sweeping, ~ RedriveDeletion
      PROVE  RowMoves
  BY <1>3 DEF ApiStep, Submit, Retry, RequeueJob, DispatchOne, DispatchDone, DispatchFails,
     AcceptDeletion
<1>4. CASE UNCHANGED allVars
  BY <1>4 DEF allVars, vars
<1> QED
  BY <1>1, <1>2, <1>3, <1>4

LEMMA DeletionNext ==
  ASSUME MaxReceives = 0, DeletionInv, [Next]_allVars
  PROVE  DeletionInv'
<1>1. TypeOK' /\ ReceiptsAreExclusive'
  BY TypeNext, ReceiptsNext DEF DeletionInv
<1> USE <1>1 DEF DeletionInv
<1>2. ASSUME NEW w \in Workers, NEW m \in queue, ClaimDeletion(w, m) PROVE OutboxIsTrue'
  BY <1>2, ClaimDeletionKeepsOutbox
<1>3. CASE ~ \E w \in Workers, m \in queue : ClaimDeletion(w, m)
  <2>1. CASE RowMoves
    BY <1>3, <2>1, MovesKeepOutbox
  <2>2. CASE ExpireOutboxLease
    <3>1. /\ UNCHANGED <<deletion, sweeping>> /\ deletionOutbox.state = "leased"
          /\ deletionOutbox' = [deletionOutbox EXCEPT !.state = "expired"]
      BY <2>2 DEF ExpireOutboxLease
    <3>2. deletionOutbox'.state = "expired" /\ deletionOutbox'.owner = deletionOutbox.owner
      BY <3>1 DEF TypeOK, StoreTypeOK, OutboxRow
    <3>3. Announced => Announced'
      BY <1>3, <3>1, AnnouncedStays DEF Announced
    <3> QED
      BY <3>1, <3>2, <3>3 DEF OutboxIsTrue, Untried
  <2>3. CASE RedriveDeletion
    BY <2>3, ResetKeepsOutbox DEF RedriveDeletion, OutboxIsTrue
  <2>4. ASSUME NEW s \in Sweepers, SweeperStep(s) \/ PublishFails(s) \/ SweeperCrash(s)
        PROVE  OutboxIsTrue'
    BY <1>3, <2>4, SweeperKeepsOutbox
  <2> QED
    BY <1>3, <2>1, <2>2, <2>3, <2>4, WorkersMoveDeletion, OthersMoveDeletion DEF Next, Handle
<1> QED
  BY <1>2, <1>3

\* DeletionWakeUp: a deletion that is to be tried or retried has an outbox row
\* a sweeper can lease, or a message: the row is marked delivered only by the
\* sweeper that still leases it (mark_outbox_delivered's check of the lease
\* token), so no reset made meanwhile is lost.
THEOREM DeletionsWakeUp == MaxReceives = 0 => (Spec => []DeletionWakeUp)
<1> SUFFICES ASSUME MaxReceives = 0 PROVE Spec => []DeletionWakeUp
  OBVIOUS
<1>1. Init => DeletionInv
  BY TypeInit DEF Init, StoreInit, QueueInit, WorkerInit, SweeperInit, DeletionInv,
     ReceiptsAreExclusive, OutboxIsTrue, Untried
<1>2. DeletionInv /\ [Next]_allVars => DeletionInv'
  BY DeletionNext
<1>3. DeletionInv => DeletionWakeUp
  BY DEF DeletionInv, TypeOK, StoreTypeOK, OutboxRow, OutboxStates, OutboxIsTrue, Untried,
     Announced, DeletionWakeUp, WillBeHandled
<1> QED
  BY <1>1, <1>2, <1>3, PTL DEF Spec

=============================================================================
