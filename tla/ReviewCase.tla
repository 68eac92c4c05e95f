----------------------------- MODULE ReviewCase -----------------------------
(***************************************************************************)
(* One review of an agreement and the collaboration on it: assignments,    *)
(* their delegation and reassignment, comments and notifications, as       *)
(* reviews/collaboration.py keeps them.  Every operation locks the review  *)
(* row and the agreement row, so an operation is one step; a request with  *)
(* a key that is already used is answered from the row and changes         *)
(* nothing.  The agreement's tombstone stops every operation.              *)
(***************************************************************************)
EXTENDS Naturals, FiniteSets

CONSTANTS
    Users,        \* the members of the workspace
    Submitter,    \* who starts the review
    ClientKeys,   \* idempotency keys of assign and transfer requests (BOUND)
    CommentKeys,  \* and of comments (BOUND)
    None

ASSUME SubmitterAssumption == Submitter \in Users

VARIABLES
    tombstoned,  \* the agreement's deletion_requested_at is set
    review,      \* the review_cases row
    assignment,  \* the review_assignments rows, by idempotency key
    comments,    \* the review_comments rows, by idempotency key: the author
    notified     \* the review_notification_events rows

caseVars == <<tombstoned, review, assignment, comments, notified>>

Terminal == {"approved", "rejected", "revision_requested"}
HandedOn == {"delegated", "reassigned"}

CaseInit ==
    /\ tombstoned = FALSE
    /\ review = [state |-> "none", revision |-> 0]
    /\ assignment = <<>>
    /\ comments = <<>>
    /\ notified = {}

\* A table with one more row
With(rows, key, row) ==
    [k \in DOMAIN rows \cup {key} |-> IF k = key THEN row ELSE rows[k]]

NewAssignment(u, from) == [assignee |-> u, status |-> "active", from |-> from]

Notice(kind, key, u) == [kind |-> kind, key |-> key, recipient |-> u]

\* Mutant: the join with the agreement is missing
LockedReview == review.state # "none"

\* _review / _agreement with FOR UPDATE: the review exists and the
\* agreement is not being deleted
Locked == review.state # "none" /\ ~tombstoned

StartReview ==
    /\ ~tombstoned
    /\ review.state = "none"
    /\ review' = [state |-> "open", revision |-> 0]
    /\ UNCHANGED <<tombstoned, assignment, comments, notified>>

\* Neither assign nor transfer looks at the state of the review.
Assign(u, key) ==
    /\ Locked
    /\ key \notin DOMAIN assignment
    /\ assignment' = With(assignment, key, NewAssignment(u, None))
    /\ notified' = notified \cup {Notice("created", key, u)}
    /\ UNCHANGED <<tombstoned, review, comments>>

\* Mutants: a transfer that does not ask whether the work is still active,
\* and one that tells the previous assignee
TransferOfAny(old, u, key, kind, expected) ==
    /\ Locked
    /\ key \notin DOMAIN assignment
    /\ review.revision = expected
    /\ review' = [review EXCEPT !.revision = expected + 1]
    /\ assignment' = With([assignment EXCEPT ![old].status = kind],
                          key, NewAssignment(u, old))
    /\ notified' = notified \cup {Notice(kind, key, u)}
    /\ UNCHANGED <<tombstoned, comments>>

NoticeToPredecessor(old, u) == assignment[old].assignee

\* Who is told of a transfer
TransferRecipient(old, u) == u

\* The client names the revision it expects; under the row lock it is either
\* the current one or the request is refused.
Transfer(old, u, key, kind, expected) ==
    /\ Locked
    /\ key \notin DOMAIN assignment
    /\ review.revision = expected
    /\ assignment[old].status = "active"
    /\ review' = [review EXCEPT !.revision = expected + 1]
    /\ assignment' = With([assignment EXCEPT ![old].status = kind],
                          key, NewAssignment(u, old))
    /\ notified' = notified \cup {Notice(kind, key, TransferRecipient(old, u))}
    /\ UNCHANGED <<tombstoned, comments>>

Comment(u, key) ==
    /\ Locked
    /\ key \notin DOMAIN comments
    /\ comments' = With(comments, key, u)
    /\ notified' = IF u = Submitter THEN notified
                   ELSE notified \cup {Notice("comment", key, Submitter)}
    /\ UNCHANGED <<tombstoned, review, assignment>>

\* accept_deletion sets the tombstone under the lock of the agreement row
AcceptDeletion ==
    /\ ~tombstoned
    /\ tombstoned' = TRUE
    /\ UNCHANGED <<review, assignment, comments, notified>>

Collaborate ==
    \/ \E u \in Users, key \in ClientKeys : Assign(u, key)
    \/ \E u \in Users, key \in ClientKeys, kind \in HandedOn :
           \E old \in DOMAIN assignment, expected \in 0..Cardinality(ClientKeys) :
               Transfer(old, u, key, kind, expected)
    \/ \E u \in Users, key \in CommentKeys : Comment(u, key)

-----------------------------------------------------------------------------
Successors(k) == {l \in DOMAIN assignment : assignment[l].from = k}

\* An assignment that was handed on has exactly one successor and one that
\* was not has none: two transfers of the same assignment, or a transfer of
\* work a decision just closed, never both succeed (transfer()).
TransfersAreLinear ==
    \A k \in DOMAIN assignment :
        Cardinality(Successors(k)) = IF assignment[k].status \in HandedOn THEN 1 ELSE 0

\* Whoever has work in the inbox was told about it (_notify on assign and
\* transfer, and the notification _activate_assignments adds).
AssigneesAreNotified ==
    \A k \in DOMAIN assignment :
        \E n \in notified : n.key = k /\ n.recipient = assignment[k].assignee
=============================================================================
