------------------------------ MODULE Questions ------------------------------
(***************************************************************************)
(* Question threads: GroundedQuestionService (qa/service.py) with the      *)
(* retrieval it does for every turn (search/service.py, repository.py),    *)
(* the guardrails and the claim validation of the worker package           *)
(* (guardrails.py, evidence_validation.py) and the index those read        *)
(* (document_indexing.py).  A request is one statement after another: it   *)
(* reads, calls a model for a while and writes; agreements are archived,   *)
(* restored, reindexed, deleted and purged between any two of them.        *)
(* Texts are sentences: all that validation compares.                      *)
(***************************************************************************)
EXTENDS Naturals, FiniteSets

CONSTANTS
    Corpus,
    Checksums,   \* of source documents; equal uploads are one
    VersionsOf,  \* the documents uploaded to an agreement
    Chunks,
    DocumentOf,
    Anchors,
    AnchorsOf,   \* the anchors of a chunk; two chunks of a document may overlap
    Sentences,
    PreviewOf,   \* the sentences of content_preview: what of a chunk is evidence
    Hostile,     \* chunks whose preview the guardrails refuse
    Threads,
    ScopeOf,     \* the agreements a thread is limited to; {} for all of them
    Callers,     \* requests to create, ask or read (BOUND on how many overlap)
    ChannelLimit, \* of the results of one channel of a search
    MaxAsking,   \* BOUND on the requests that ask at once
    Moving,      \* BOUND on the agreements that are archived, restored or deleted
    MaxTurns,    \* BOUND on the different turns there are
    Nothing

ASSUME QuestionAssumption ==
    /\ VersionsOf \in [Corpus -> SUBSET Checksums]
    /\ DocumentOf \in [Chunks -> Checksums]
    /\ AnchorsOf \in [Chunks -> SUBSET Anchors]
    /\ PreviewOf \in [Chunks -> SUBSET Sentences]
    /\ Nothing \notin Sentences
    /\ ScopeOf \in [Threads -> SUBSET Corpus]

\* _anchor_id is a hash of the checksum of the document and of the place in it
ASSUME AnchorAssumption ==
    \A k, l \in Chunks : AnchorsOf[k] \cap AnchorsOf[l] # {} => DocumentOf[k] = DocumentOf[l]

VARIABLES
    agreement,  \* "visible", "archived", "deleting" (deletion requested) or "purged"
    indexed,    \* the document of an agreement's active build, or Nothing
    turns,      \* the question_threads rows, each with its question_turns
    asking      \* what each request has read

questionVars == <<agreement, indexed, turns, asking>>

QuestionInit ==
    /\ agreement = [a \in Corpus |-> "visible"]
    /\ indexed \in [Corpus -> Checksums] /\ \A a \in Corpus : indexed[a] \in VersionsOf[a]
    /\ turns = [t \in {} |-> {}]
    /\ asking = [c \in Callers |-> Nothing]

\* visible_agreement_ids, and the conditions of every retrieval statement
Visible == {a \in Corpus : agreement[a] = "visible"}
Readable(t) == t \in DOMAIN turns /\ ScopeOf[t] \subseteq Visible
Busy(t) == \E c \in Callers : asking[c] # Nothing /\ asking[c].thread = t

\* A request after its first statements.  seen is a history variable: the
\* agreements that have been visible at some moment since it began.
Request(step, t, found, history) ==
    [step |-> step, thread |-> t, found |-> found, history |-> history, seen |-> Visible]

\* Mutant: visible_agreement_ids without for_update
ScopeReadUnlocked(c, a) == FALSE

\* create_thread holds the agreement rows it has checked
ScopeLocked(c, a) ==
    asking[c] # Nothing /\ asking[c].step = "create" /\ a \in ScopeOf[asking[c].thread]

CreateThreadRead(c, t) ==
    /\ asking[c] = Nothing
    /\ t \notin DOMAIN turns /\ ~Busy(t)
    /\ ScopeOf[t] \subseteq Visible
    /\ \A d \in Callers, a \in ScopeOf[t] : ~ScopeLocked(d, a)
    /\ asking' = [asking EXCEPT ![c] = Request("create", t, {}, {})]
    /\ UNCHANGED <<agreement, indexed, turns>>

CreateThreadCommit(c) ==
    /\ asking[c] # Nothing /\ asking[c].step = "create"
    /\ turns' = [t \in DOMAIN turns \cup {asking[c].thread} |->
                    IF t = asking[c].thread THEN {} ELSE turns[t]]
    /\ asking' = [asking EXCEPT ![c] = Nothing]
    /\ UNCHANGED <<agreement, indexed>>

-----------------------------------------------------------------------------
\* What one statement of the search may return: chunks of the active builds of
\* visible agreements within the thread's scope
Retrievable(t) ==
    {r \in [agreement : Corpus, chunk : Chunks] :
        /\ r.agreement \in Visible
        /\ ScopeOf[t] = {} \/ r.agreement \in ScopeOf[t]
        /\ DocumentOf[r.chunk] = indexed[r.agreement]}

SourceOf(r) == [agreement |-> r.agreement, version |-> DocumentOf[r.chunk]]

\* _citation_sources_from_search: an anchor that came from two agreements is
\* left out
Sources(found) ==
    {x \in UNION {AnchorsOf[r.chunk] : r \in found} :
        \A q, r \in found :
            x \in AnchorsOf[q.chunk] \cap AnchorsOf[r.chunk] => SourceOf(q) = SourceOf(r)}
SourceIn(found, x) == SourceOf(CHOOSE r \in found : x \in AnchorsOf[r.chunk])

\* _evidence_from_search: under each anchor that is left, the whole preview of
\* the chunk
Evidence(found) ==
    {e \in [anchor : Sources(found), from : found] : e.anchor \in AnchorsOf[e.from.chunk]}

\* validate_untrusted_evidence
GuardrailsAllow(found) == \A e \in Evidence(found) : e.from.chunk \notin Hostile

\* _valid_evidence: an anchor names one snippet
UsableEvidence(found) ==
    /\ Evidence(found) # {}
    /\ \A d, e \in Evidence(found) : d.anchor = e.anchor => d = e
    /\ GuardrailsAllow(found)

\* A request that searches or asks the model
Asking(c) ==
    asking[c] # Nothing /\ (asking[c].found # {} \/ asking[c].step \in {"embedding", "found"})

\* _load_thread and, in the statement after that, the lexical channel of the search
AskSearch(c, t) ==
    /\ asking[c] = Nothing
    /\ Cardinality({d \in Callers : Asking(d)}) < MaxAsking
    /\ Readable(t)
    /\ \E found \in SUBSET Retrievable(t) :
        /\ Cardinality(found) <= ChannelLimit
        /\ asking' = [asking EXCEPT ![c] = Request("embedding", t, found, {})]
    /\ UNCHANGED <<agreement, indexed, turns>>

\* The semantic channel, after the question has been embedded, if it has been
SearchSemantic(c) ==
    /\ asking[c] # Nothing /\ asking[c].step = "embedding"
    /\ \E more \in SUBSET Retrievable(asking[c].thread) :
        /\ Cardinality(more) <= ChannelLimit
        /\ asking' = [asking EXCEPT ![c].step = "found", ![c].found = @ \cup more]
    /\ UNCHANGED <<agreement, indexed, turns>>

-----------------------------------------------------------------------------
\* Mutant: one accessible citation is enough
SomeCitationVisible(turn) ==
    turn.cites # {} /\ \E x \in turn.cites : turn.sources[x].agreement \in Visible
\* _redact_turn: a claim is kept when all its citations can be followed
ClaimKept(turn) ==
    turn.cites # {} /\ \A x \in turn.cites : turn.sources[x].agreement \in Visible

\* A turn with its citation_sources, as far as its claim can cite them
Turn(found, text, cites) ==
    [text |-> text, cites |-> cites, sources |-> [x \in cites |-> SourceIn(found, x)]]
Refusal == Turn({}, Nothing, {})

\* Mutant: the quotation is looked for in all of the evidence
SupportedSomewhere(found, text, cites) ==
    /\ cites # {} /\ cites \subseteq Sources(found)
    /\ \E e \in Evidence(found) : text \in PreviewOf[e.from.chunk]
\* _valid_claim: every citation is to supplied evidence that says the sentence
Supported(found, text, cites) ==
    /\ cites # {}
    /\ \A x \in cites : \E e \in Evidence(found) :
          e.anchor = x /\ text \in PreviewOf[e.from.chunk]

\* read_thread: the thread and, in the statement after that, _load_turns
ReadThread(c, t) ==
    /\ asking[c] = Nothing
    /\ Readable(t)
    /\ asking' = [asking EXCEPT ![c] = Request("history", t, {}, turns[t])]
    /\ UNCHANGED <<agreement, indexed, turns>>

\* _load_turns for the context of the model; a thread that is gone has none
ReadTurns(c) ==
    /\ asking[c] # Nothing /\ asking[c].step = "found"
    /\ UsableEvidence(asking[c].found)
    /\ LET t == asking[c].thread
       IN  asking' = [asking EXCEPT ![c].step = "history",
                                    ![c].history = IF t \in DOMAIN turns THEN turns[t] ELSE {}]
    /\ UNCHANGED <<agreement, indexed, turns>>

\* _redact_inaccessible_turns asks what is visible after the turns are read.
\* What is left goes out: to the reader, or with the evidence to the model
\* (_validated_context; BOUND: MaxTurns is below the 10 turns it takes).
ReadVisible(c) ==
    /\ asking[c] # Nothing /\ asking[c].step = "history"
    /\ asking' = [asking EXCEPT
            ![c].step = IF asking[c].found = {} THEN "shown" ELSE "asked",
            ![c].history = {turn \in @ : turn.text # Nothing /\ ClaimKept(turn)}]
    /\ UNCHANGED <<agreement, indexed, turns>>

\* The turn's key to its thread refuses it when the thread is gone.
AddTurn(c, turn) ==
    /\ LET t == asking[c].thread
       IN  turns' = IF t \in DOMAIN turns THEN [turns EXCEPT ![t] = @ \cup {turn}] ELSE turns
    /\ Cardinality(UNION {turns'[t] : t \in DOMAIN turns'}) <= MaxTurns
    /\ asking' = [asking EXCEPT ![c] = Nothing]
    /\ UNCHANGED <<agreement, indexed>>

\* The model has answered, a while after it was asked, with one sentence that
\* cites evidence.
CommitAnswer(c) ==
    /\ asking[c] # Nothing /\ asking[c].step = "asked"
    /\ \E text \in Sentences, cites \in SUBSET Sources(asking[c].found) :
        /\ Supported(asking[c].found, text, cites)
        /\ AddTurn(c, Turn(asking[c].found, text, cites))

\* No usable evidence or question, a model that fails, or no supported claim
Refuse(c) ==
    /\ asking[c] # Nothing /\ asking[c].step \in {"found", "asked"}
    /\ AddTurn(c, Refusal)

\* The response to a reader, a crash, or an error of the search or the database
EndRequest(c) ==
    /\ asking[c] # Nothing
    /\ asking' = [asking EXCEPT ![c] = Nothing]
    /\ UNCHANGED <<agreement, indexed, turns>>

-----------------------------------------------------------------------------
RowLocked(a) == \E c \in Callers : ScopeLocked(c, a)

\* agreements/service.py archives and restores, locking the agreement; so does
\* the deletion request of agreements/routes.py
MoveAgreement(a, from, to) ==
    /\ a \in Moving
    /\ agreement[a] = from /\ ~RowLocked(a)
    /\ agreement' = [agreement EXCEPT ![a] = to]
    /\ UNCHANGED <<indexed, turns>>
ArchiveAgreement(a) == MoveAgreement(a, "visible", "archived") /\ UNCHANGED asking
RestoreAgreement(a) ==
    /\ MoveAgreement(a, "archived", "visible")
    /\ asking' = [c \in Callers |-> IF asking[c] = Nothing THEN Nothing
                                     ELSE [asking[c] EXCEPT !.seen = @ \cup {a}]]
RequestDeletion(a) ==
    (\E from \in {"visible", "archived"} : MoveAgreement(a, from, "deleting")) /\ UNCHANGED asking

\* completed() of SQLAlchemyDocumentIndexSink, for a job of any version: the
\* chunks of the build that was active are deleted
IndexDocument(a, d) ==
    /\ agreement[a] \in {"visible", "archived"} /\ ~RowLocked(a)
    /\ d \in VersionsOf[a] /\ indexed[a] # d
    /\ indexed' = [indexed EXCEPT ![a] = d]
    /\ UNCHANGED <<agreement, turns, asking>>

\* _purge_owned_rows: the threads that name the agreement, with their turns,
\* and the index
Purge(a) ==
    /\ agreement[a] = "deleting"
    /\ agreement' = [agreement EXCEPT ![a] = "purged"]
    /\ indexed' = [indexed EXCEPT ![a] = Nothing]
    /\ turns' = [t \in {u \in DOMAIN turns : a \notin ScopeOf[u]} |-> turns[t]]
    /\ UNCHANGED asking

QuestionNext ==
    \/ \E a \in Corpus :
        \/ ArchiveAgreement(a) \/ RestoreAgreement(a) \/ RequestDeletion(a) \/ Purge(a)
        \/ \E d \in Checksums : IndexDocument(a, d)
    \/ \E c \in Callers :
        \/ \E t \in Threads : CreateThreadRead(c, t) \/ AskSearch(c, t) \/ ReadThread(c, t)
        \/ CreateThreadCommit(c) \/ SearchSemantic(c) \/ ReadTurns(c) \/ ReadVisible(c)
        \/ CommitAnswer(c) \/ Refuse(c) \/ EndRequest(c)

QuestionSpec == QuestionInit /\ [][QuestionNext]_questionVars

-----------------------------------------------------------------------------
\* What a request gives away: the claims of earlier turns, to a reader or to
\* the model
Given(c) ==
    IF asking[c] # Nothing /\ asking[c].step \in {"shown", "asked"} THEN asking[c].history ELSE {}
Quotes(turn, a) == turn.text # Nothing /\ \E x \in turn.cites : turn.sources[x].agreement = a

\* A claim that is shown, or offered to the model, was said where each of its
\* citations points: by a chunk that holds the anchor, in a version of an
\* agreement of the thread's scope, and that the guardrails let through;
\* whatever copies and overlapping chunks of it were found, and whatever was
\* indexed, archived or deleted since.
GivenIsGrounded ==
    \A c \in Callers : \A turn \in Given(c) : \A x \in turn.cites :
        LET t == asking[c].thread
            source == turn.sources[x]
        IN  /\ source.version \in VersionsOf[source.agreement]
            /\ ScopeOf[t] = {} \/ source.agreement \in ScopeOf[t]
            /\ \E k \in Chunks \ Hostile :
                 /\ DocumentOf[k] = source.version
                 /\ x \in AnchorsOf[k] /\ turn.text \in PreviewOf[k]

\* History grants nothing, and neither does a long request: what a request has
\* found, and what it gives away of earlier turns, is of agreements that were
\* visible at some moment of that request.  One that was archived or deleted
\* before it began, and stayed so, reaches neither the model nor the reader.
OnlyTheSeenIsGiven ==
    \A c \in Callers : asking[c] # Nothing =>
        /\ \A r \in asking[c].found : r.agreement \in asking[c].seen
        /\ \A turn \in Given(c), a \in Corpus : Quotes(turn, a) => a \in asking[c].seen

\* When an agreement has been purged, no thread that names it is left, and none
\* appears later: a thread being created, or a turn being answered, meanwhile.
NamedThreadsAreGone ==
    \A a \in Corpus : agreement[a] = "purged" =>
        \A t \in DOMAIN turns : a \notin ScopeOf[t]

\* agreement_deletion.py says of the purge, after naming the rows it keeps:
\* "Every other derived row is physically removed".  A turn that quotes a
\* purged agreement is such a row.
QuotesArePurged ==
    \A a \in Corpus : agreement[a] = "purged" =>
        \A t \in DOMAIN turns : \A turn \in turns[t] : ~Quotes(turn, a)
=============================================================================
