---------------------------- MODULE WorkerProcess ----------------------------
(***************************************************************************)
(* The loop every worker process runs (run_processing_loop): receive one   *)
(* message, hand it to the processor of its kind, acknowledge it if the    *)
(* handler returned.  The handler is synchronous, so a process handles one *)
(* message at a time; the handlers themselves are in ProcessingWorker and  *)
(* DeletionProcessor, which extend this module.                            *)
(*                                                                         *)
(* A handler that raises leaves the process idle and the message hidden    *)
(* until its visibility timeout.  A crash does the same at any step, and   *)
(* releases the row lock of the open transaction.                          *)
(***************************************************************************)
EXTENDS AgreementStore, JobQueue

CONSTANTS
    Erasure,    \* the subject of deletion messages
    MaxFaults   \* BOUND: crashes, lost connections, slow leases, failed calls

ASSUME WorkerAssumption ==
    /\ Erasure \notin Jobs
    /\ None \notin Keys \cup MessageIds
    /\ Subjects = Jobs \cup {Erasure}
    /\ MaxFaults \in Nat

VARIABLES
    pc,       \* the next step of the handler a worker is in, or "idle"
    receipt,  \* id of the message it may delete, or None
    claimed,  \* the job claim a handler works under (ProcessingJob)
    erasing,  \* the deletion claim a handler works under (AgreementDeletion)
    todo,     \* the pending objects a deletion handler has listed
    target,   \* the one it has just deleted from S3, or None
    faults    \* how many faults have happened

workerVars == <<pc, receipt, claimed, erasing, todo, target>>
vars == <<storeVars, queueVars, workerVars, faults>>

ProcessingSteps ==
    {"expect", "prepare", "commit", "put", "finish",
     "requeue", "enqueue", "fail", "exhausted"}
DeletionSteps ==
    {"list", "erase", "mark", "purge", "purge_failed"}

JobClaim == [job: Jobs, attempt: Nat]
DeletionClaim == [cycle: Nat, attempt: Nat]

ASSUME NoneAssumption == None \notin JobClaim \cup DeletionClaim

WorkerTypeOK ==
    /\ pc \in [Workers -> {"idle", "ack"} \cup ProcessingSteps \cup DeletionSteps]
    /\ receipt \in [Workers -> MessageIds \cup {None}]
    /\ claimed \in [Workers -> JobClaim \cup {None}]
    /\ erasing \in [Workers -> DeletionClaim \cup {None}]
    /\ todo \in [Workers -> SUBSET Keys]
    /\ target \in [Workers -> Keys \cup {None}]
    /\ faults \in Nat
    /\ \A w \in Workers :
         /\ pc[w] \in ProcessingSteps => claimed[w] # None
         /\ pc[w] = "mark" => target[w] # None

WorkerInit ==
    /\ pc = [w \in Workers |-> "idle"]
    /\ receipt = [w \in Workers |-> None]
    /\ claimed = [w \in Workers |-> None]
    /\ erasing = [w \in Workers |-> None]
    /\ todo = [w \in Workers |-> {}]
    /\ target = [w \in Workers |-> None]
    /\ faults = 0

-----------------------------------------------------------------------------
Fault == faults < MaxFaults /\ faults' = faults + 1

Goto(w, step) == pc' = [pc EXCEPT ![w] = step]

\* The handler raised, or the process died: it forgets what it was doing.
Forget(w) ==
    /\ pc' = [pc EXCEPT ![w] = "idle"]
    /\ receipt' = [receipt EXCEPT ![w] = None]
    /\ claimed' = [claimed EXCEPT ![w] = None]
    /\ erasing' = [erasing EXCEPT ![w] = None]
    /\ todo' = [todo EXCEPT ![w] = {}]
    /\ target' = [target EXCEPT ![w] = None]

\* receive() hands m to w, which keeps the receipt r of it.  Only the newest
\* receipt of a message can delete it.  Receiving a message and the claim
\* transaction its handler starts with are one step (see README, "Time").
TakeMessage(w, m, r) ==
    /\ pc[w] = "idle"
    /\ Deliver(m)
    /\ receipt' = [x \in Workers |->
                     IF x = w THEN r
                     ELSE IF receipt[x] = m.id THEN None ELSE receipt[x]]

\* ack(): delete_message, after the handler returned.
Acknowledge(w) ==
    /\ pc[w] = "ack"
    /\ IF receipt[w] = None THEN UNCHANGED queueVars ELSE Delete(receipt[w])
    /\ Forget(w)
    /\ UNCHANGED <<storeVars, faults>>

\* The process is killed at any point of a handler; its open transaction is
\* rolled back and the row lock with it.
Crash(w) ==
    /\ pc[w] # "idle"
    /\ Fault
    /\ Forget(w)
    /\ rowLock' = IF rowLock = w THEN None ELSE rowLock
    /\ UNCHANGED <<tombstoned, job, intent, artifacts, objects, deletion,
                   inventory, deletionOutbox, queueVars>>

\* A message whose handling takes longer than its visibility timeout, or
\* whose handler raised or died, becomes visible again.
VisibilityTimeout(m) ==
    /\ Reappear(m)
    /\ UNCHANGED <<storeVars, workerVars, faults>>
=============================================================================
