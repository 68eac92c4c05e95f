------------------------------ MODULE JobQueue ------------------------------
(***************************************************************************)
(* The SQS queue between the API, the sweepers and the workers, as         *)
(* processing.py and queue.py use it (external: SQS itself is not in the   *)
(* repository).  It is a standard queue: no order, delivery at least once. *)
(* A received message is hidden until its visibility timeout; if it is not *)
(* deleted by then it becomes visible again, or goes to the dead-letter    *)
(* queue once it was received MaxReceives times (the redrive policy's      *)
(* maxReceiveCount; 0 stands for no redrive policy, and receptions are     *)
(* then not counted).  A delete with the receipt of an earlier reception   *)
(* has no effect.                                                          *)
(***************************************************************************)
EXTENDS Naturals

CONSTANTS
    Subjects,    \* what a message is about: a job id, or the deletion
    MessageIds,  \* BOUND: as many undeleted messages as there are ids
    MaxReceives

ASSUME QueueAssumption == MaxReceives \in Nat

VARIABLES
    queue,       \* the messages SQS holds
    hidden,      \* ids of those in their visibility timeout
    deadLetters  \* messages in the dead-letter queue

queueVars == <<queue, hidden, deadLetters>>

Message == [id: MessageIds, subject: Subjects, receives: Nat]

QueueTypeOK ==
    /\ queue \in SUBSET Message
    /\ hidden \in SUBSET MessageIds
    /\ deadLetters \in SUBSET Message

QueueInit == queue = {} /\ hidden = {} /\ deadLetters = {}

FreeIds == {i \in MessageIds : \A m \in queue \cup deadLetters : m.id # i}

\* send_message.  Which free id a message gets does not matter: ids are
\* only compared.
NewMessage(s) == [id |-> CHOOSE i \in FreeIds : TRUE, subject |-> s, receives |-> 0]

Send(s) ==
    /\ FreeIds # {}
    /\ queue' = queue \cup {NewMessage(s)}
    /\ UNCHANGED <<hidden, deadLetters>>

Received(m) ==
    IF MaxReceives = 0 THEN m ELSE [m EXCEPT !.receives = @ + 1]

\* receive_message returns m
Deliver(m) ==
    /\ m \in queue
    /\ m.id \notin hidden
    /\ queue' = (queue \ {m}) \cup {Received(m)}
    /\ hidden' = hidden \cup {m.id}
    /\ UNCHANGED deadLetters

\* delete_message with a receipt for the message with this id
Delete(i) ==
    /\ queue' = {m \in queue : m.id # i}
    /\ hidden' = hidden \ {i}
    /\ UNCHANGED deadLetters

\* The visibility timeout of m passes.
Reappear(m) ==
    /\ m \in queue
    /\ m.id \in hidden
    /\ hidden' = hidden \ {m.id}
    /\ IF MaxReceives > 0 /\ m.receives >= MaxReceives
       THEN queue' = queue \ {m} /\ deadLetters' = deadLetters \cup {m}
       ELSE UNCHANGED <<queue, deadLetters>>

Queued(s) == \E m \in queue : m.subject = s
=============================================================================
