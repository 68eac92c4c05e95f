----------------------------- MODULE Agreements -----------------------------
(***************************************************************************)
(* Agreements, their version lineage and the source objects behind it:     *)
(* AgreementService, AgreementVersionService and the repository            *)
(* (agreements/service.py, versions.py, repository.py), the source upload  *)
(* of documents/service.py, and what the deletion worker does with source  *)
(* objects (agreement_deletion.py delete_source_if_unreferenced).  A       *)
(* request reads a snapshot of the agreement without a lock; replace()     *)
(* locks the row later and writes every column of the snapshot.            *)
(***************************************************************************)
EXTENDS Naturals, Sequences, FiniteSets

CONSTANTS
    AgreementIds,
    Objects,      \* storage keys, which are the checksums of their bytes
    Transactions, \* requests and deletion transactions (BOUND on how many overlap)
    MaxVersions,  \* BOUND on the versions of an agreement
    Rewrites,     \* requests that write the row back with its snapshot: "archive",
                  \* "restore" and "process" (BOUND on which of them there are)
    MaxFaults,    \* BOUND on transactions of the deletion worker that roll back
                  \* after the object is gone
    Nobody

ASSUME AgreementsAssumption ==
    /\ MaxVersions \in Nat \ {0} /\ MaxFaults \in Nat
    /\ Nobody \notin Objects
    /\ Rewrites \subseteq {"archive", "restore", "process"}

VARIABLES
    life,       \* "none", "active", "deleting" (deletion_requested_at) or "erased"
    columns,    \* the columns replace() writes: current version, files, archived
    versions,   \* the agreement_versions rows: the object of version 1, 2, ...
    registry,   \* document_object_registry: a state, and the deletions accepted
                \* before the last upload
    stored,     \* the objects there are in S3
    pending,    \* the source objects each deletion has still to settle
    work,       \* what each request has read or holds
    faults      \* HISTORY: deletion transactions rolled back after the delete

agreementVars == <<life, columns, versions, registry, stored, pending, work, faults>>

NewColumns == [current |-> 0, file |-> Nobody, archived |-> FALSE]

AgreementsInit ==
    /\ life = [a \in AgreementIds |-> "none"]
    /\ columns = [a \in AgreementIds |-> NewColumns]
    /\ versions = [a \in AgreementIds |-> <<>>]
    /\ registry = [o \in Objects |-> [state |-> "none", after |-> {}]]
    /\ stored = {}
    /\ pending = [a \in AgreementIds |-> {}]
    /\ work = [c \in Transactions |-> [kind |-> "idle"]]
    /\ faults = 0

Is(c, kind) == work[c].kind = kind
Idle(c) == work' = [work EXCEPT ![c] = [kind |-> "idle"]]
\* the advisory lock of an object key, held to the end of a transaction
KeyFree(o) == \A c \in Transactions : work[c].kind \in {"upload", "delete"} => work[c].object # o

-----------------------------------------------------------------------------
\* upload_source (and POST documents): lock the key, put the object if it is
\* not there ...
PutSource(c, o) ==
    /\ Is(c, "idle") /\ KeyFree(o)
    /\ stored' = stored \cup {o}
    /\ work' = [work EXCEPT ![c] = [kind |-> "upload", object |-> o]]
    /\ UNCHANGED <<life, columns, versions, registry, pending, faults>>

\* ... and record it
RecordUpload(c) ==
    /\ Is(c, "upload")
    /\ registry' = [registry EXCEPT ![work[c].object] =
            [state |-> "available", after |-> {a \in AgreementIds : life[a] = "deleting"}]]
    /\ Idle(c)
    /\ UNCHANGED <<life, columns, versions, stored, pending, faults>>

\* Mutant: create_version does not ask the registry
RegistryNotAsked(o) == KeyFree(o)

\* create_version: the object's row, read under its key, is not "deleted"
ObjectAcceptable(o) == KeyFree(o) /\ registry[o].state # "deleted"

\* POST agreements with a file uploaded before; a key that the registry does not
\* know is acceptable too (an upload that rolled back after its put)
CreateAgreement(a, o) ==
    /\ life[a] = "none"
    /\ o \in stored \/ registry[o].state # "none"
    /\ ObjectAcceptable(o)
    /\ life' = [life EXCEPT ![a] = "active"]
    /\ versions' = [versions EXCEPT ![a] = <<o>>]
    /\ columns' = [columns EXCEPT ![a] = [current |-> 1, file |-> o, archived |-> FALSE]]
    /\ UNCHANGED <<registry, stored, pending, work, faults>>

\* A request reads the agreement (get(), without a lock) and what it needs:
\* create() the newest version and the checksums, archive() and restore() the
\* flag; a submission or retry of processing writes the row back with another state.
ReadAgreement(c, a, kind, o) ==
    /\ Is(c, "idle")
    /\ life[a] = "active"
    /\ kind = "version" => /\ Len(versions[a]) < MaxVersions
                           /\ registry[o].state # "none"  \* its own upload came first
                           /\ \A n \in DOMAIN versions[a] : versions[a][n] # o
    /\ kind # "version" => o = Nobody
    /\ kind = "archive" => ~columns[a].archived
    /\ kind = "restore" => columns[a].archived
    /\ work' = [work EXCEPT ![c] = [kind |-> kind, agreement |-> a, object |-> o,
                    read |-> columns[a], number |-> Len(versions[a]) + 1]]
    /\ UNCHANGED <<life, columns, versions, registry, stored, pending, faults>>

\* Mutant: without the unique keys
InsertableAnyway(a, n, o) == TRUE

\* the unique keys of agreement_versions
Insertable(a, n, o) == Len(versions[a]) + 1 = n /\ \A m \in DOMAIN versions[a] : versions[a][m] # o

\* The request locks the row and writes what it has read, changed.  It fails
\* when the agreement is being deleted, the object is not acceptable or the
\* version collides with another.
Replace(c) ==
    LET r == work[c]
        a == r.agreement
    IN  /\ work[c].kind \in {"version"} \cup Rewrites
        /\ r.kind = "version" => KeyFree(r.object)
        /\ IF life[a] = "active"
              /\ (r.kind = "version" => ObjectAcceptable(r.object)
                                        /\ Insertable(a, r.number, r.object))
           THEN /\ columns' = [columns EXCEPT ![a] =
                        IF r.kind = "version"
                        THEN [r.read EXCEPT !.current = r.number, !.file = r.object]
                        ELSE [r.read EXCEPT !.archived =
                                 r.kind = "archive" \/ (@ /\ r.kind # "restore")]]
                /\ versions' = IF r.kind = "version"
                               THEN [versions EXCEPT ![a] = Append(@, r.object)] ELSE versions
           ELSE UNCHANGED <<columns, versions>>
        /\ Idle(c)
        /\ UNCHANGED <<life, registry, stored, pending, faults>>

-----------------------------------------------------------------------------
Keys(a) == {versions[a][n] : n \in DOMAIN versions[a]}

\* accept_deletion: lock the row, freeze the source keys of all versions
AcceptDeletion(a) ==
    /\ life[a] = "active"
    /\ life' = [life EXCEPT ![a] = "deleting"]
    /\ pending' = [pending EXCEPT ![a] = Keys(a) \cup ({columns[a].file} \ {Nobody})]
    /\ registry' = [o \in Objects |-> [registry[o] EXCEPT !.after = @ \ {a}]]
    /\ UNCHANGED <<columns, versions, stored, work, faults>>

\* another agreement has the object, or it was uploaded after the deletion was accepted
Referenced(a, o) ==
    \/ \E b \in AgreementIds \ {a} : life[b] = "active" /\ (o \in Keys(b) \/ columns[b].file = o)
    \/ registry[o].state = "available" /\ a \in registry[o].after

\* delete_source_if_unreferenced: preserve the object ...
PreserveSource(a, o) ==
    /\ o \in pending[a] /\ KeyFree(o)
    /\ Referenced(a, o)
    /\ pending' = [pending EXCEPT ![a] = @ \ {o}]
    /\ UNCHANGED <<life, columns, versions, registry, stored, work, faults>>

\* ... or delete it in S3, inside the transaction ...
DeleteSource(c, a, o) ==
    /\ Is(c, "idle")
    /\ o \in pending[a] /\ KeyFree(o)
    /\ ~Referenced(a, o)
    /\ stored' = stored \ {o}
    /\ work' = [work EXCEPT ![c] = [kind |-> "delete", agreement |-> a, object |-> o]]
    /\ UNCHANGED <<life, columns, versions, registry, pending, faults>>

\* ... which records that and ends
CommitDelete(c) ==
    /\ Is(c, "delete")
    /\ registry' = [registry EXCEPT ![work[c].object] = [state |-> "deleted", after |-> {}]]
    /\ pending' = [pending EXCEPT ![work[c].agreement] = @ \ {work[c].object}]
    /\ Idle(c)
    /\ UNCHANGED <<life, columns, versions, stored, faults>>

\* A request or the worker dies before it commits.  For the worker the object
\* is gone and nothing says so: the pending item is tried again.
RollBackWork(c) ==
    /\ ~Is(c, "idle")
    /\ IF Is(c, "delete") THEN faults < MaxFaults /\ faults' = faults + 1 ELSE UNCHANGED faults
    /\ Idle(c)
    /\ UNCHANGED <<life, columns, versions, registry, stored, pending>>

\* the purge, when all objects are settled
Erase(a) ==
    /\ life[a] = "deleting" /\ pending[a] = {}
    /\ \A c \in Transactions : Is(c, "delete") => work[c].agreement # a
    /\ life' = [life EXCEPT ![a] = "erased"]
    /\ versions' = [versions EXCEPT ![a] = <<>>]
    /\ columns' = [columns EXCEPT ![a] = NewColumns]
    /\ registry' = [o \in Objects |-> [registry[o] EXCEPT !.after = @ \ {a}]]
    /\ UNCHANGED <<stored, pending, work, faults>>

AgreementsNext ==
    \/ \E c \in Transactions :
        \/ \E o \in Objects : PutSource(c, o) \/ \E a \in AgreementIds : DeleteSource(c, a, o)
        \/ \E a \in AgreementIds, kind \in {"version"} \cup Rewrites,
              o \in Objects \cup {Nobody} :
            (kind = "version" => o # Nobody) /\ ReadAgreement(c, a, kind, o)
        \/ RecordUpload(c) \/ Replace(c) \/ CommitDelete(c) \/ RollBackWork(c)
    \/ \E a \in AgreementIds :
        \/ AcceptDeletion(a) \/ Erase(a)
        \/ \E o \in Objects : CreateAgreement(a, o) \/ PreserveSource(a, o)

AgreementsSpec == AgreementsInit /\ [][AgreementsNext]_agreementVars

-----------------------------------------------------------------------------
Dangling(a) == life[a] = "active" /\ ~(Keys(a) \subseteq stored)

\* No version of an active agreement loses its bytes to the deletion of another
\* that shared them, unless a deletion transaction rolled back after the object
\* was gone (create_version and delete_source_if_unreferenced meet at the key's
\* lock and the registry row).
SharedSourcesSurvive == faults = 0 => \A a \in AgreementIds : ~Dangling(a)

\* The lineage does not fork: no two versions have one content, whatever uploads
\* overlap, and no version that was there is replaced.
LineageIsLinear ==
    [][\A a \in AgreementIds : life'[a] = "active" =>
        /\ Len(versions[a]) <= Len(versions'[a])
        /\ SubSeq(versions'[a], 1, Len(versions[a])) = versions[a]
        /\ Cardinality(Keys(a)') = Len(versions'[a])]_agreementVars
=============================================================================
