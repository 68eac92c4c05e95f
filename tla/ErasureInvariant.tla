-------------------------- MODULE ErasureInvariant --------------------------
(***************************************************************************)
(* The inductive invariant behind NoOrphanObject and CompletedIsErased:    *)
(* what the row lock, the claim tokens and the leases guarantee about the  *)
(* handlers in flight.  It holds when no write to S3 outlasts its claim    *)
(* lease (~ LatePuts).  The messages in SQS play no part in it: erasure is *)
(* safe whatever the queue delivers, and whenever.                         *)
(***************************************************************************)
EXTENDS AgreementErasure

\* The tombstone and the deletion request are created together, and no
\* worker has a deletion claim before.
DeletionStarts ==
    /\ tombstoned <=> deletion.state # "none"
    /\ \A w \in Workers : erasing[w] # None => tombstoned

\* The attempt numbers of job claims tell them apart, and the job row has
\* the newest.
JobClaimsAreOrdered ==
    /\ \A w \in Workers :
         claimed[w] # None =>
             1 <= claimed[w].attempt /\ claimed[w].attempt <= job[vJob(w)].attempt
    /\ \A w, x \in Workers :
         claimed[w] # None /\ claimed[w] = claimed[x] => w = x
    /\ ~ tombstoned =>
         \A j \in Jobs : job[j].state = "absent" => job[j].attempt = 0

\* So do (retry_cycle, attempt_count) for deletion claims.
DeletionClaimsAreOrdered ==
    \A w \in Workers : erasing[w] # None =>
        \/ erasing[w].cycle < deletion.cycle
        \/ /\ erasing[w].cycle = deletion.cycle
           /\ erasing[w].attempt <= deletion.attempt

\* An artifact row completes its job for good.
ArtifactRowsAreFinal == \A j \in artifacts : job[j].state = "completed"

\* A transaction that holds the row lock across its call to S3 owns the
\* claim of its job, and no deletion has been accepted since.
LockProtects ==
    rowLock # None =>
        /\ pc[rowLock] \in {"put", "finish"}
        /\ OwnsClaim(rowLock)
        /\ ~ tombstoned

\* Until the object is written, the intent that names it stands: because of
\* the row lock, or, when the connection is lost, of the unexpired lease.
PutIsAnnounced ==
    \A w \in Workers : pc[w] = "put" =>
        /\ OwnsClaim(w)
        /\ intent[vJob(w)] = "expected"
        /\ rowLock = w \/ job[vJob(w)].live

\* An object about to be marked deleted is not there, unless an intent or a
\* newer claim will have it deleted again.
MarkIsTrue ==
    \A w \in Workers : pc[w] = "mark" /\ ClaimIsCurrent(w) =>
        \/ target[w] \notin objects
        \/ \E j \in Jobs : KeyOf[j] = target[w] /\ intent[j] = "expected"

\* Nothing of an active agreement is listed for erasure.
OnlyDeletedIsErased == \A w \in Workers : todo[w] # {} => tombstoned

Core ==
    /\ DeletionStarts
    /\ JobClaimsAreOrdered
    /\ DeletionClaimsAreOrdered
    /\ ArtifactRowsAreFinal
    /\ LockProtects
    /\ PutIsAnnounced
    /\ MarkIsTrue
    /\ OnlyDeletedIsErased
    /\ NoOrphanObject
    /\ CompletedIsErased

\* A job is completed in the transaction that adds its artifact row, which
\* found or wrote the object under the row lock it still holds.
CompletionIsRecorded ==
    /\ \A j \in Jobs : job[j].state = "completed" => j \in artifacts
    /\ ~ tombstoned => \A j \in artifacts : KeyOf[j] \in objects
    /\ \A w \in Workers :
         pc[w] = "finish" /\ rowLock = w => KeyOf[vJob(w)] \in objects

\* No crash, lost connection, late or duplicate delivery, and no deletion
\* accepted while handlers are in flight, breaks any part of it.
ErasureInv ==
    /\ TypeOK
    /\ Core
    /\ CompletionIsRecorded
=============================================================================
