-------------------------- MODULE AgreementErasure --------------------------
(***************************************************************************)
(* The processing pipeline and the durable deletion of one agreement,      *)
(* composed: API calls, worker processes (each handles job messages and    *)
(* deletion messages), deletion outbox sweepers, SQS, S3 and PostgreSQL.   *)
(***************************************************************************)
EXTENDS ProcessingWorker, DeletionProcessor, ProcessingApi, FiniteSets

allVars == <<vars, sweeping, apiVars>>

TypeOK ==
    /\ StoreTypeOK
    /\ QueueTypeOK
    /\ WorkerTypeOK
    /\ SweeperTypeOK
    /\ ApiTypeOK

Init ==
    /\ StoreInit
    /\ QueueInit
    /\ WorkerInit
    /\ SweeperInit
    /\ ApiInit

\* A worker receives a message and its handler claims the work it is about.
Handle(w, m) ==
    \/ Claim(w, m) /\ UNCHANGED <<sweeping, apiVars>>
    \/ ClaimDeletion(w, m) /\ UNCHANGED apiVars

\* The rows of processing_outbox go with the purge.
PurgeOutbox(w) ==
    /\ jobOutbox' = IF ClaimIsCurrent(w) /\ ~ PurgeIsBlocked
                    THEN [j \in Jobs |-> 0] ELSE jobOutbox
    /\ UNCHANGED <<dispatching, calls>>

WorkerStep(w) ==
    \/ (Acknowledge(w) \/ ProcessingStep(w)) /\ UNCHANGED <<sweeping, apiVars>>
    \/ DeletionStep(w) /\ UNCHANGED apiVars
    \/ CompleteAndPurge(w) /\ PurgeOutbox(w)

WorkerFault(w) ==
    \/ (Crash(w) \/ ProcessingFault(w)) /\ UNCHANGED <<sweeping, apiVars>>
    \/ (EraseFails(w) \/ PurgeRaises(w)) /\ UNCHANGED apiVars

\* Time passes: visibility timeouts, leases, back-offs.
Timeout ==
    \/ /\ \/ \E m \in queue : VisibilityTimeout(m)
          \/ \E j \in Jobs : ExpireClaim(j)
       /\ UNCHANGED <<sweeping, apiVars>>
    \/ (ExpireDeletionClaim \/ DeletionComesDue \/ ExpireOutboxLease)
       /\ UNCHANGED apiVars

Next ==
    \/ \E w \in Workers : WorkerStep(w) \/ WorkerFault(w) \/ \E m \in queue : Handle(w, m)
    \/ Timeout
    \/ \E s \in Sweepers :
         (SweeperStep(s) \/ PublishFails(s) \/ SweeperCrash(s)) /\ UNCHANGED apiVars
    \/ (ApiStep \/ \E j \in Jobs : DispatchFails(j)) /\ UNCHANGED sweeping

Spec == Init /\ [][Next]_allVars

-----------------------------------------------------------------------------
(* Safety *)

\* Every artifact in S3 is known to the database: through an artifact row or
\* an intent while the agreement is active, and, once it is deleted, through
\* the deletion inventory or an intent that still blocks the purge.  The
\* object is written before the row that names it, by a worker that may die,
\* lose its connection or lose its claim in between.
ObjectIsKnown(k) ==
    IF tombstoned
    THEN \/ inventory[k] = "pending"
         \/ \E j \in Jobs : KeyOf[j] = k /\ intent[j] = "expected"
    ELSE \E j \in Jobs : KeyOf[j] = k /\ (j \in artifacts \/ intent[j] # "none")

NoOrphanObject == \A k \in objects : ObjectIsKnown(k)

\* A deletion reported as completed left nothing behind: no object, job,
\* artifact row or intent, whatever workers were in flight when it was
\* accepted.
CompletedIsErased ==
    deletion.state = "completed" =>
        /\ objects = {}
        /\ artifacts = {}
        /\ \A j \in Jobs : job[j].state = "absent" /\ intent[j] = "none"

\* A job is shown as completed only with its artifact row, and, unless the
\* agreement is being deleted, with its object in S3.
CompletedJobHasArtifact ==
    \A j \in Jobs : job[j].state = "completed" =>
        /\ j \in artifacts
        /\ ~ tombstoned => KeyOf[j] \in objects

-----------------------------------------------------------------------------
\* A message for s is in the queue that no worker is about to acknowledge.
WillBeHandled(s) ==
    \E m \in queue : m.subject = s /\ \A w \in Workers : receipt[w] = m.id => pc[w] # "ack"

JobWillBeHandled(j) ==
    \/ WillBeHandled(j)
    \/ jobOutbox[j] > 0
    \/ \E w \in Workers : pc[w] = "enqueue" /\ vJob(w) = j

\* Unfinished work always has a message, or an outbox row that can become
\* one: a queued or processing job of an active agreement; and a job whose
\* intent keeps a deletion from completing, since only handling that job's
\* message reconciles the intent.
JobWakeUp ==
    \A j \in Jobs :
        \/ ~ tombstoned /\ job[j].state \in {"queued", "processing"}
        \/ tombstoned /\ intent[j] = "expected"
        => JobWillBeHandled(j)

\* A deletion that is to be (re)tried has an outbox row a sweeper can lease,
\* or a message: no reset of the outbox row is overwritten by a sweeper that
\* published the message of an earlier attempt.
DeletionWakeUp ==
    deletion.state \in {"accepted", "retrying"} =>
        \/ deletionOutbox.state \in {"waiting", "leased", "expired"}
        \/ deletionOutbox.state = "delivered" /\ WillBeHandled(Erasure)

\* The terminal state of a job is final while its agreement exists, except
\* for the authorized retry of a failure: no handler that lost its claim
\* takes it back.
TerminalJobStaysTerminal ==
    [][\A j \in Jobs :
         /\ job[j].state = "completed" => job'[j].state \in {"completed", "absent"}
         /\ job[j].state = "failed" /\ ~ Retry(j) => job'[j].state \in {"failed", "absent"}
      ]_allVars

-----------------------------------------------------------------------------
(* Liveness *)

\* Processes run, SQS delivers what is visible, leases and back-offs run out.
\* Nothing makes a fault, an API call, or the dispatch of a row whose
\* publication failed, happen.
Fairness ==
    /\ \A w \in Workers : WF_allVars(WorkerStep(w))
    /\ \A s \in Subjects :
         SF_allVars(\E w \in Workers, m \in queue : m.subject = s /\ Handle(w, m))
    /\ \A i \in MessageIds :
         WF_allVars(/\ \E m \in queue : m.id = i /\ VisibilityTimeout(m)
                    /\ UNCHANGED <<sweeping, apiVars>>)
    /\ \A j \in Jobs :
         /\ WF_allVars(ExpireClaim(j) /\ UNCHANGED <<faults, sweeping, apiVars>>)
         /\ WF_allVars(DispatchOne(j) /\ UNCHANGED sweeping)
    /\ WF_allVars(ExpireDeletionClaim /\ UNCHANGED <<faults, apiVars>>)
    /\ WF_allVars(ExpireOutboxLease /\ UNCHANGED <<faults, apiVars>>)
    /\ WF_allVars(DeletionComesDue /\ UNCHANGED apiVars)
    /\ \A s \in Sweepers : WF_allVars(SweeperStep(s) /\ UNCHANGED apiVars)

FairSpec == Spec /\ Fairness

\* Deletion ends, whatever was in flight: completed for good, or failed with
\* an object still listed that S3 would not delete, or a last purge that only
\* the database refused.  It is never left failed because of an artifact
\* intent: reconciling the intent reopens it.
DeletionSettles ==
    tombstoned ~> [](\/ deletion.state = "completed"
                     \/ /\ deletion.state = "failed"
                        /\ PendingKeys # {} \/ ~ \E j \in Jobs : UnresolvedIntent(j))

\* A submitted job ends, unless its agreement is deleted or the publication
\* of its message failed (its outbox row then waits for the next API call).
JobSettles ==
    \A j \in Jobs :
        job[j].state \in {"queued", "processing"} ~>
            \/ job[j].state \in {"completed", "failed"}
            \/ tombstoned
            \/ jobOutbox[j] > 0 /\ ~ dispatching

-----------------------------------------------------------------------------
\* What the stuck-processing runbook relies on: a job left queued or
\* processing that nobody works on and no message will wake can be requeued
\* (requeue() wants a queued job, retry() a failed one).
IsStuck(j) ==
    /\ ~ tombstoned
    /\ job[j].state \in {"queued", "processing"}
    /\ ~ HasLiveClaim(j)
    /\ ~ \E w \in Workers : Owner(w, j)
    /\ ~ JobWillBeHandled(j)

StuckJobCanBeRequeued == \A j \in Jobs : IsStuck(j) => job[j].state = "queued"
=============================================================================
