--------------------------- MODULE Services_proofs ---------------------------
(***************************************************************************)
(* Proofs about the services that share no state with one another:         *)
(* questions, the model gateway, the usage ledger, agreements with their   *)
(* uploads, the retrieval index, and the chunks that are indexed.  Each    *)
(* has an inductive invariant of its own.                                  *)
(***************************************************************************)
EXTENDS Questions, ModelGateway, UsageLedger, Agreements, RetrievalIndex, Chunking,
        Folds_proofs, FiniteSetTheorems, SequenceTheorems, TLAPS

(* ----------------------------- Questions ------------------------------- *)
(* Purged agreements are named by no thread, for any agreements, threads   *)
(* and number of requests that overlap.  The argument is the lock: while a *)
(* thread is being created the agreements it names stay visible.           *)

IsRequest(row) ==
    /\ row = [step |-> row.step, thread |-> row.thread, found |-> row.found,
              history |-> row.history, seen |-> row.seen]
    /\ row.thread \in Threads

QuestionTypeOK ==
    /\ agreement \in [Corpus -> {"visible", "archived", "deleting", "purged"}]
    /\ DOMAIN indexed = Corpus
    /\ DOMAIN turns \subseteq Threads
    /\ DOMAIN asking = Callers
    /\ \A c \in Callers : asking[c] # Nothing => IsRequest(asking[c])

Creating(c) == asking[c] # Nothing /\ asking[c].step = "create"
ScopeHeld == \A c \in Callers : Creating(c) => ScopeOf[asking[c].thread] \subseteq Visible

QuestionInv == QuestionTypeOK /\ ScopeHeld /\ NamedThreadsAreGone

LEMMA QuestionInitial == QuestionInit => QuestionInv
<1> SUFFICES ASSUME QuestionInit PROVE QuestionInv
  OBVIOUS
<1>1. DOMAIN turns = {} /\ DOMAIN indexed = Corpus
  BY DEF QuestionInit
<1> QED
  BY <1>1 DEF QuestionInit, QuestionInv, QuestionTypeOK, ScopeHeld, Creating, NamedThreadsAreGone

\* What the statements of a request make of its row
LEMMA FoundField ==
  ASSUME NEW row, IsRequest(row), NEW step, NEW found
  PROVE  [row EXCEPT !.step = step, !.found = found] =
           [step |-> step, thread |-> row.thread, found |-> found, history |-> row.history,
            seen |-> row.seen]
<1> DEFINE stepped == [row EXCEPT !.step = step]
<1>1. stepped = [step |-> step, thread |-> row.thread, found |-> row.found,
                 history |-> row.history, seen |-> row.seen]
  BY DEF IsRequest
<1>2. [row EXCEPT !.step = step, !.found = found] = [stepped EXCEPT !.found = found]
  OBVIOUS
<1> HIDE DEF stepped
<1> QED
  BY <1>1, <1>2

LEMMA HistoryField ==
  ASSUME NEW row, IsRequest(row), NEW step, NEW history
  PROVE  [row EXCEPT !.step = step, !.history = history] =
           [step |-> step, thread |-> row.thread, found |-> row.found, history |-> history,
            seen |-> row.seen]
<1> DEFINE stepped == [row EXCEPT !.step = step]
<1>1. stepped = [step |-> step, thread |-> row.thread, found |-> row.found,
                 history |-> row.history, seen |-> row.seen]
  BY DEF IsRequest
<1>2. [row EXCEPT !.step = step, !.history = history] = [stepped EXCEPT !.history = history]
  OBVIOUS
<1> HIDE DEF stepped
<1> QED
  BY <1>1, <1>2

LEMMA SemanticRow ==
  ASSUME QuestionInv, NEW c \in Callers, SearchSemantic(c)
  PROVE  \E more \in SUBSET Retrievable(asking[c].thread) :
           asking' = [asking EXCEPT ![c] =
             [step |-> "found", thread |-> asking[c].thread, found |-> asking[c].found \cup more,
              history |-> asking[c].history, seen |-> asking[c].seen]]
<1>1. IsRequest(asking[c]) /\ c \in DOMAIN asking
  BY DEF SearchSemantic, QuestionInv, QuestionTypeOK
<1>2. PICK more \in SUBSET Retrievable(asking[c].thread) :
        asking' = [asking EXCEPT ![c].step = "found", ![c].found = @ \cup more]
  BY DEF SearchSemantic
<1>3. asking' = [asking EXCEPT ![c] =
        [asking[c] EXCEPT !.step = "found", !.found = asking[c].found \cup more]]
  BY <1>1, <1>2
<1> QED
  BY <1>1, <1>3, FoundField

LEMMA TurnsRow ==
  ASSUME QuestionInv, NEW c \in Callers, ReadTurns(c)
  PROVE  asking' = [asking EXCEPT ![c] =
           [step |-> "history", thread |-> asking[c].thread, found |-> asking[c].found,
            history |-> IF asking[c].thread \in DOMAIN turns THEN turns[asking[c].thread] ELSE {},
            seen |-> asking[c].seen]]
<1>1. IsRequest(asking[c]) /\ c \in DOMAIN asking
  BY DEF ReadTurns, QuestionInv, QuestionTypeOK
<1> DEFINE read == IF asking[c].thread \in DOMAIN turns THEN turns[asking[c].thread] ELSE {}
<1>2. asking' = [asking EXCEPT ![c].step = "history", ![c].history = read]
  BY DEF ReadTurns
<1> HIDE DEF read
<1>3. asking' = [asking EXCEPT ![c] = [asking[c] EXCEPT !.step = "history", !.history = read]]
  BY <1>1, <1>2
<1>4. asking' = [asking EXCEPT ![c] =
        [step |-> "history", thread |-> asking[c].thread, found |-> asking[c].found,
         history |-> read, seen |-> asking[c].seen]]
  BY <1>1, <1>3, HistoryField
<1> QED
  BY <1>4 DEF read

LEMMA VisibleRow ==
  ASSUME QuestionInv, NEW c \in Callers, ReadVisible(c)
  PROVE  asking' = [asking EXCEPT ![c] =
           [step |-> IF asking[c].found = {} THEN "shown" ELSE "asked",
            thread |-> asking[c].thread, found |-> asking[c].found,
            history |-> {turn \in asking[c].history : turn.text # Nothing /\ ClaimKept(turn)},
            seen |-> asking[c].seen]]
<1>1. IsRequest(asking[c]) /\ c \in DOMAIN asking
  BY DEF ReadVisible, QuestionInv, QuestionTypeOK
<1> DEFINE step == IF asking[c].found = {} THEN "shown" ELSE "asked"
           kept == {turn \in asking[c].history : turn.text # Nothing /\ ClaimKept(turn)}
<1>2. asking' = [asking EXCEPT ![c].step = step, ![c].history = kept]
  BY DEF ReadVisible
<1> HIDE DEF step, kept
<1>3. asking' = [asking EXCEPT ![c] = [asking[c] EXCEPT !.step = step, !.history = kept]]
  BY <1>1, <1>2
<1>4. asking' = [asking EXCEPT ![c] =
        [step |-> step, thread |-> asking[c].thread, found |-> asking[c].found,
         history |-> kept, seen |-> asking[c].seen]]
  BY <1>1, <1>3, HistoryField
<1> QED
  BY <1>4 DEF step, kept

LEMMA RestoreRow ==
  ASSUME QuestionInv, NEW a \in Corpus, RestoreAgreement(a), NEW c \in Callers,
         asking'[c] # Nothing
  PROVE  /\ asking[c] # Nothing
         /\ asking'[c] = [step |-> asking[c].step, thread |-> asking[c].thread,
                          found |-> asking[c].found, history |-> asking[c].history,
                          seen |-> asking[c].seen \cup {a}]
<1>1. asking[c] # Nothing /\ asking'[c] = [asking[c] EXCEPT !.seen = @ \cup {a}]
  BY DEF RestoreAgreement
<1>2. IsRequest(asking[c])
  BY <1>1 DEF QuestionInv, QuestionTypeOK
<1> QED
  BY <1>1, <1>2 DEF IsRequest

\* A request that only reads or ends, and creates no thread, keeps the invariant.
LEMMA RequestKeeps ==
  ASSUME QuestionInv, NEW c \in Callers, NEW row, asking' = [asking EXCEPT ![c] = row],
         row # Nothing => IsRequest(row) /\ row.step # "create",
         DOMAIN turns' = DOMAIN turns, UNCHANGED <<agreement, indexed>>
  PROVE  QuestionInv'
<1>1. QuestionTypeOK'
  BY DEF QuestionInv, QuestionTypeOK
<1>2. ScopeHeld'
  BY DEF QuestionInv, QuestionTypeOK, ScopeHeld, Creating, Visible
<1>3. NamedThreadsAreGone'
  BY DEF QuestionInv, NamedThreadsAreGone
<1> QED
  BY <1>1, <1>2, <1>3 DEF QuestionInv

LEMMA CreateReadKeeps ==
  ASSUME QuestionInv, NEW c \in Callers, NEW t \in Threads, CreateThreadRead(c, t)
  PROVE  QuestionInv'
<1>1. /\ asking' = [asking EXCEPT ![c] = [step |-> "create", thread |-> t, found |-> {},
                                          history |-> {}, seen |-> Visible]]
      /\ UNCHANGED <<agreement, indexed, turns>> /\ ScopeOf[t] \subseteq Visible
  BY DEF CreateThreadRead, Request
<1>2. QuestionTypeOK'
  BY <1>1 DEF QuestionInv, QuestionTypeOK, IsRequest
<1>3. ScopeHeld'
  BY <1>1 DEF QuestionInv, QuestionTypeOK, ScopeHeld, Creating, Visible
<1>4. NamedThreadsAreGone'
  BY <1>1 DEF QuestionInv, NamedThreadsAreGone
<1> QED
  BY <1>2, <1>3, <1>4 DEF QuestionInv

\* The agreements of the new thread were held since they were read.
LEMMA CreateCommitKeeps ==
  ASSUME QuestionInv, NEW c \in Callers, CreateThreadCommit(c)
  PROVE  QuestionInv'
<1> DEFINE t == asking[c].thread
<1>1. /\ t \in Threads
      /\ DOMAIN turns' = DOMAIN turns \cup {t}
      /\ asking' = [asking EXCEPT ![c] = Nothing]
      /\ UNCHANGED <<agreement, indexed>>
  BY DEF CreateThreadCommit, QuestionInv, QuestionTypeOK, IsRequest
<1>2. ScopeOf[t] \subseteq Visible
  BY DEF CreateThreadCommit, QuestionInv, ScopeHeld, Creating
<1>3. QuestionTypeOK'
  BY <1>1 DEF QuestionInv, QuestionTypeOK
<1>4. ScopeHeld'
  BY <1>1 DEF QuestionInv, QuestionTypeOK, ScopeHeld, Creating, Visible
<1>5. NamedThreadsAreGone'
  BY <1>1, <1>2 DEF QuestionInv, NamedThreadsAreGone, Visible
<1> QED
  BY <1>3, <1>4, <1>5 DEF QuestionInv

\* An agreement that a thread being created names is locked and does not move.
LEMMA MoveKeeps ==
  ASSUME QuestionInv, NEW a \in Corpus, NEW from \in {"visible", "archived"},
         NEW to \in {"visible", "archived", "deleting"}, MoveAgreement(a, from, to),
         UNCHANGED asking \/ RestoreAgreement(a)
  PROVE  QuestionInv'
<1>1. /\ agreement' = [agreement EXCEPT ![a] = to] /\ UNCHANGED <<indexed, turns>>
      /\ agreement[a] = from
  BY DEF MoveAgreement
<1>2. DOMAIN asking' = Callers
  BY DEF QuestionInv, QuestionTypeOK, RestoreAgreement
<1>3. ASSUME NEW c \in Callers, asking'[c] # Nothing
      PROVE  /\ asking[c] # Nothing /\ IsRequest(asking'[c])
             /\ asking'[c].step = asking[c].step /\ asking'[c].thread = asking[c].thread
  <2>1. CASE UNCHANGED asking
    BY <1>3, <2>1 DEF QuestionInv, QuestionTypeOK
  <2>2. CASE RestoreAgreement(a)
    <3>1. /\ asking[c] # Nothing
          /\ asking'[c] = [step |-> asking[c].step, thread |-> asking[c].thread,
                           found |-> asking[c].found, history |-> asking[c].history,
                           seen |-> asking[c].seen \cup {a}]
      BY <1>3, <2>2, RestoreRow
    <3>2. asking[c].thread \in Threads
      BY <3>1 DEF QuestionInv, QuestionTypeOK, IsRequest
    <3> QED
      BY <3>1, <3>2 DEF IsRequest
  <2> QED
    BY <2>1, <2>2
<1>4. QuestionTypeOK'
  BY <1>1, <1>2, <1>3 DEF QuestionInv, QuestionTypeOK
<1>5. ScopeHeld'
  <2> SUFFICES ASSUME NEW c \in Callers, Creating(c)', NEW b \in ScopeOf[asking'[c].thread]
               PROVE  b \in Visible'
    BY DEF ScopeHeld
  <2>1. Creating(c) /\ b \in ScopeOf[asking[c].thread]
    BY <1>3 DEF Creating
  <2>2. b \in Visible
    BY <2>1 DEF QuestionInv, ScopeHeld
  <2>3. b # a
    BY <2>1 DEF MoveAgreement, RowLocked, ScopeLocked, Creating
  <2> QED
    BY <1>1, <2>2, <2>3 DEF Visible
<1>6. NamedThreadsAreGone'
  BY <1>1 DEF QuestionInv, QuestionTypeOK, NamedThreadsAreGone
<1> QED
  BY <1>4, <1>5, <1>6 DEF QuestionInv

LEMMA PurgeKeeps ==
  ASSUME QuestionInv, NEW a \in Corpus, Purge(a)
  PROVE  QuestionInv'
<1>1. /\ agreement' = [agreement EXCEPT ![a] = "purged"] /\ UNCHANGED asking
      /\ DOMAIN turns' = {u \in DOMAIN turns : a \notin ScopeOf[u]}
      /\ DOMAIN indexed' = DOMAIN indexed
      /\ agreement[a] = "deleting"
  BY DEF Purge
<1>2. QuestionTypeOK'
  BY <1>1 DEF QuestionInv, QuestionTypeOK
<1>3. ScopeHeld'
  BY <1>1 DEF QuestionInv, QuestionTypeOK, ScopeHeld, Creating, Visible
<1>4. NamedThreadsAreGone'
  BY <1>1 DEF QuestionInv, QuestionTypeOK, NamedThreadsAreGone
<1> QED
  BY <1>2, <1>3, <1>4 DEF QuestionInv

LEMMA IndexKeeps ==
  ASSUME QuestionInv, NEW a \in Corpus, NEW d, IndexDocument(a, d)
  PROVE  QuestionInv'
<1>1. UNCHANGED <<agreement, turns, asking>> /\ DOMAIN indexed' = DOMAIN indexed
  BY DEF IndexDocument
<1> QED
  BY <1>1 DEF QuestionInv, QuestionTypeOK, ScopeHeld, Creating, Visible, NamedThreadsAreGone

\* The searches, readings, answers and refusals of a request, and its end
LEMMA TurnKeeps ==
  ASSUME QuestionInv, NEW c \in Callers,
         \/ \E t \in Threads : AskSearch(c, t) \/ ReadThread(c, t)
         \/ SearchSemantic(c) \/ ReadTurns(c) \/ ReadVisible(c)
         \/ CommitAnswer(c) \/ Refuse(c) \/ EndRequest(c)
  PROVE  QuestionInv'
<1>0. asking[c] # Nothing => IsRequest(asking[c])
  BY DEF QuestionInv, QuestionTypeOK
<1>1. ASSUME NEW t \in Threads, AskSearch(c, t) \/ ReadThread(c, t) PROVE QuestionInv'
  <2>1. PICK step, found, history :
          /\ step \in {"embedding", "history"}
          /\ asking' = [asking EXCEPT ![c] = [step |-> step, thread |-> t, found |-> found,
                                              history |-> history, seen |-> Visible]]
    BY <1>1 DEF AskSearch, ReadThread, Request
  <2>2. UNCHANGED <<agreement, indexed, turns>>
    BY <1>1 DEF AskSearch, ReadThread
  <2> QED
    BY <2>1, <2>2, RequestKeeps DEF IsRequest
<1>2. CASE SearchSemantic(c)
  <2>1. UNCHANGED <<agreement, indexed, turns>> /\ asking[c].thread \in Threads
    BY <1>0, <1>2 DEF SearchSemantic, IsRequest
  <2> QED
    BY <1>2, <2>1, SemanticRow, RequestKeeps DEF IsRequest
<1>3. CASE ReadTurns(c)
  <2>1. UNCHANGED <<agreement, indexed, turns>> /\ asking[c].thread \in Threads
    BY <1>0, <1>3 DEF ReadTurns, IsRequest
  <2> QED
    BY <1>3, <2>1, TurnsRow, RequestKeeps DEF IsRequest
<1>4. CASE ReadVisible(c)
  <2>1. UNCHANGED <<agreement, indexed, turns>> /\ asking[c].thread \in Threads
    BY <1>0, <1>4 DEF ReadVisible, IsRequest
  <2>2. PICK step, history :
          /\ step \in {"shown", "asked"}
          /\ asking' = [asking EXCEPT ![c] =
            [step |-> step, thread |-> asking[c].thread, found |-> asking[c].found,
             history |-> history, seen |-> asking[c].seen]]
    BY <1>4, VisibleRow
  <2> QED
    BY <2>1, <2>2, RequestKeeps DEF IsRequest
<1>5. CASE CommitAnswer(c) \/ Refuse(c) \/ EndRequest(c)
  <2>1. /\ DOMAIN turns' = DOMAIN turns /\ UNCHANGED <<agreement, indexed>>
        /\ asking' = [asking EXCEPT ![c] = Nothing]
    BY <1>5 DEF CommitAnswer, Refuse, EndRequest, AddTurn
  <2> QED
    BY <2>1, RequestKeeps
<1> QED
  BY <1>1, <1>2, <1>3, <1>4, <1>5

LEMMA QuestionStep == QuestionInv /\ [QuestionNext]_questionVars => QuestionInv'
<1> SUFFICES ASSUME QuestionInv, [QuestionNext]_questionVars PROVE QuestionInv'
  OBVIOUS
<1>1. ASSUME NEW a \in Corpus, ArchiveAgreement(a) \/ RestoreAgreement(a) \/ RequestDeletion(a)
      PROVE  QuestionInv'
  <2>1. CASE ArchiveAgreement(a)
    BY <2>1, MoveKeeps DEF ArchiveAgreement
  <2>2. CASE RestoreAgreement(a)
    <3>1. MoveAgreement(a, "archived", "visible")
      BY <2>2 DEF RestoreAgreement
    <3> QED
      BY <2>2, <3>1, MoveKeeps
  <2>3. CASE RequestDeletion(a)
    BY <2>3, MoveKeeps DEF RequestDeletion
  <2> QED
    BY <1>1, <2>1, <2>2, <2>3
<1>2. CASE UNCHANGED questionVars
  BY <1>2 DEF questionVars, QuestionInv, QuestionTypeOK, ScopeHeld, Creating, Visible,
              NamedThreadsAreGone
<1> QED
  BY <1>1, <1>2, PurgeKeeps, IndexKeeps, CreateReadKeeps, CreateCommitKeeps, TurnKeeps
     DEF QuestionNext

\* A deleted agreement is named by no thread any more (_purge_owned_rows), and
\* no request that was creating one meanwhile brings it back
\* (visible_agreement_ids with for_update).
THEOREM NamedThreadsStayGone == QuestionSpec => []NamedThreadsAreGone
<1>1. QuestionInv => NamedThreadsAreGone
  BY DEF QuestionInv
<1> QED
  BY <1>1, QuestionInitial, QuestionStep, PTL DEF QuestionSpec

-----------------------------------------------------------------------------
(* What was answered was said where it is cited, in a version that an       *)
(* agreement of the scope has, whatever was indexed since; and what a       *)
(* request holds is of agreements that it has seen visible.  The argument   *)
(* follows the rows of a request: what a search may return, what of it the  *)
(* guardrails let through, what turns are stored, and what of them is kept. *)

InScope(t, a) == ScopeOf[t] = {} \/ a \in ScopeOf[t]

\* The citations of a turn of t point at a chunk that says its sentence.
Grounded(t, turn) ==
    turn.text # Nothing =>
        \A x \in turn.cites :
            /\ turn.sources[x].version \in VersionsOf[turn.sources[x].agreement]
            /\ InScope(t, turn.sources[x].agreement)
            /\ \E k \in Chunks \ Hostile :
                 /\ DocumentOf[k] = turn.sources[x].version
                 /\ x \in AnchorsOf[k] /\ turn.text \in PreviewOf[k]

\* What a request has found, and what it has read of its thread
ResultHeld(t, r) ==
    /\ r.agreement \in Corpus /\ InScope(t, r.agreement)
    /\ r.chunk \in Chunks /\ DocumentOf[r.chunk] \in VersionsOf[r.agreement]

FoundHeld(row) ==
    /\ \A r \in row.found : ResultHeld(row.thread, r) /\ r.agreement \in row.seen
    /\ row.step \in {"history", "asked"} => GuardrailsAllow(row.found)

HistoryHeld(row) ==
    \A turn \in row.history :
        /\ Grounded(row.thread, turn)
        /\ row.step \in {"shown", "asked"} =>
             /\ turn.text # Nothing
             /\ \A x \in turn.cites : turn.sources[x].agreement \in row.seen

RowHeld(row) == row # Nothing => FoundHeld(row) /\ HistoryHeld(row)

IndexHeld == \A a \in Corpus : agreement[a] # "purged" => indexed[a] \in VersionsOf[a]
TurnsHeld == \A t \in DOMAIN turns : \A turn \in turns[t] : Grounded(t, turn)
SeenHeld == \A c \in Callers : asking[c] # Nothing => Visible \subseteq asking[c].seen
RowsHeld == \A c \in Callers : RowHeld(asking[c])

AnswerInv == QuestionInv /\ IndexHeld /\ TurnsHeld /\ SeenHeld /\ RowsHeld

\* A supported claim about what was found is grounded.
LEMMA SupportedIsGrounded ==
  ASSUME NEW t, NEW found, \A r \in found : ResultHeld(t, r), GuardrailsAllow(found),
         NEW text, NEW cites, Supported(found, text, cites)
  PROVE  Grounded(t, Turn(found, text, cites))
<1> DEFINE turn == Turn(found, text, cites)
<1>1. turn.text = text /\ turn.cites = cites /\ \A x \in cites : turn.sources[x] = SourceIn(found, x)
  BY DEF Turn
<1> HIDE DEF turn
<1>2. SUFFICES ASSUME NEW x \in cites
               PROVE  /\ turn.sources[x].version \in VersionsOf[turn.sources[x].agreement]
                      /\ InScope(t, turn.sources[x].agreement)
                      /\ \E k \in Chunks \ Hostile :
                           /\ DocumentOf[k] = turn.sources[x].version
                           /\ x \in AnchorsOf[k] /\ turn.text \in PreviewOf[k]
  BY <1>1 DEF Grounded, turn
<1>3. PICK e \in Evidence(found) : e.anchor = x /\ text \in PreviewOf[e.from.chunk]
  BY DEF Supported
<1>4. e.from \in found /\ x \in Sources(found) /\ x \in AnchorsOf[e.from.chunk]
  BY <1>3 DEF Evidence
<1>5. PICK q \in found : x \in AnchorsOf[q.chunk] /\ SourceIn(found, x) = SourceOf(q)
  BY <1>4 DEF SourceIn
<1>6. SourceOf(q) = SourceOf(e.from)
  BY <1>4, <1>5 DEF Sources
<1>7. turn.sources[x] = [agreement |-> e.from.agreement, version |-> DocumentOf[e.from.chunk]]
  BY <1>1, <1>5, <1>6 DEF SourceOf
<1>8. ResultHeld(t, e.from) /\ e.from.chunk \notin Hostile
  BY <1>4 DEF GuardrailsAllow
<1> QED
  BY <1>1, <1>3, <1>4, <1>7, <1>8 DEF ResultHeld

\* The turn without a claim is grounded.
LEMMA RefusalIsGrounded == \A t : Grounded(t, Refusal)
BY DEF Grounded, Refusal, Turn

\* What a statement of a search returns is held, and seen at that moment.
LEMMA RetrievableIsHeld ==
  ASSUME AnswerInv, NEW t, NEW r \in Retrievable(t)
  PROVE  ResultHeld(t, r) /\ r.agreement \in Visible
<1>1. /\ r \in [agreement : Corpus, chunk : Chunks]
      /\ r.agreement \in Visible /\ InScope(t, r.agreement)
      /\ DocumentOf[r.chunk] = indexed[r.agreement]
  BY DEF Retrievable, InScope
<1>2. indexed[r.agreement] \in VersionsOf[r.agreement]
  BY <1>1 DEF AnswerInv, IndexHeld, Visible
<1> QED
  BY <1>1, <1>2 DEF ResultHeld

\* One request goes on with a row that is held.
LEMMA RowKeepsAnswers ==
  ASSUME AnswerInv, QuestionInv', NEW c \in Callers, NEW row,
         asking' = [asking EXCEPT ![c] = row], RowHeld(row),
         row # Nothing => Visible \subseteq row.seen,
         TurnsHeld', UNCHANGED <<agreement, indexed>>
  PROVE  AnswerInv'
<1>1. \A d \in Callers : asking'[d] = IF d = c THEN row ELSE asking[d]
  BY DEF AnswerInv, QuestionInv, QuestionTypeOK
<1>2. Visible' = Visible
  BY DEF Visible
<1>3. IndexHeld'
  BY DEF AnswerInv, IndexHeld
<1>4. SeenHeld'
  BY <1>1, <1>2 DEF AnswerInv, SeenHeld
<1>5. RowsHeld'
  BY <1>1 DEF AnswerInv, RowsHeld
<1> QED
  BY <1>3, <1>4, <1>5 DEF AnswerInv

\* The first statements of a request: it has seen what is visible.
LEMMA FirstReadKeeps ==
  ASSUME AnswerInv, QuestionInv', NEW c \in Callers, NEW t \in Threads,
         CreateThreadRead(c, t) \/ AskSearch(c, t) \/ ReadThread(c, t)
  PROVE  AnswerInv'
<1>1. UNCHANGED <<agreement, indexed, turns>>
  BY DEF CreateThreadRead, AskSearch, ReadThread
<1>2. TurnsHeld'
  BY <1>1 DEF AnswerInv, TurnsHeld
<1>3. PICK row : /\ asking' = [asking EXCEPT ![c] = row]
                 /\ RowHeld(row) /\ row.seen = Visible
  <2>1. CASE CreateThreadRead(c, t)
    <3>1. RowHeld(Request("create", t, {}, {})) /\ Request("create", t, {}, {}).seen = Visible
      BY DEF RowHeld, FoundHeld, HistoryHeld, Request
    <3> QED
      BY <2>1, <3>1 DEF CreateThreadRead
  <2>2. CASE AskSearch(c, t)
    <3>1. PICK found \in SUBSET Retrievable(t) :
            asking' = [asking EXCEPT ![c] = Request("embedding", t, found, {})]
      BY <2>2 DEF AskSearch
    <3>2. \A r \in found : ResultHeld(t, r) /\ r.agreement \in Visible
      BY RetrievableIsHeld
    <3>3. /\ RowHeld(Request("embedding", t, found, {}))
          /\ Request("embedding", t, found, {}).seen = Visible
      BY <3>2 DEF RowHeld, FoundHeld, HistoryHeld, Request
    <3> QED
      BY <3>1, <3>3
  <2>3. CASE ReadThread(c, t)
    <3>1. asking' = [asking EXCEPT ![c] = Request("history", t, {}, turns[t])]
      BY <2>3 DEF ReadThread
    <3>2. \A turn \in turns[t] : Grounded(t, turn)
      BY <2>3 DEF ReadThread, Readable, AnswerInv, TurnsHeld
    <3>3. GuardrailsAllow({})
      BY DEF GuardrailsAllow, Evidence
    <3>4. /\ RowHeld(Request("history", t, {}, turns[t]))
          /\ Request("history", t, {}, turns[t]).seen = Visible
      BY <3>2, <3>3 DEF RowHeld, FoundHeld, HistoryHeld, Request
    <3> QED
      BY <3>1, <3>4
  <2> QED
    BY <2>1, <2>2, <2>3
<1> QED
  BY <1>1, <1>2, <1>3, RowKeepsAnswers

\* The later reads of a request: it goes on with what it has read and seen.
LEMMA LaterReadKeeps ==
  ASSUME AnswerInv, QuestionInv', NEW c \in Callers,
         SearchSemantic(c) \/ ReadTurns(c) \/ ReadVisible(c)
  PROVE  AnswerInv'
<1> DEFINE row == asking[c]
<1>1. row # Nothing /\ UNCHANGED <<agreement, indexed, turns>>
  BY DEF SearchSemantic, ReadTurns, ReadVisible
<1>2. TurnsHeld'
  BY <1>1 DEF AnswerInv, TurnsHeld
<1>3. QuestionInv /\ FoundHeld(row) /\ HistoryHeld(row) /\ Visible \subseteq row.seen
  BY <1>1 DEF AnswerInv, RowsHeld, RowHeld, SeenHeld
<1>4. CASE SearchSemantic(c)
  <2>1. row.step = "embedding"
    BY <1>4 DEF SearchSemantic
  <2>2. PICK more \in SUBSET Retrievable(row.thread) :
          asking' = [asking EXCEPT ![c] =
            [step |-> "found", thread |-> row.thread, found |-> row.found \cup more,
             history |-> row.history, seen |-> row.seen]]
    BY <1>3, <1>4, SemanticRow
  <2>3. \A r \in more : ResultHeld(row.thread, r) /\ r.agreement \in Visible
    BY RetrievableIsHeld
  <2> DEFINE next == [step |-> "found", thread |-> row.thread, found |-> row.found \cup more,
                      history |-> row.history, seen |-> row.seen]
  <2>4. /\ next.step = "found" /\ next.thread = row.thread /\ next.found = row.found \cup more
        /\ next.history = row.history /\ next.seen = row.seen
    OBVIOUS
  <2>5. asking' = [asking EXCEPT ![c] = next]
    BY <2>2
  <2> HIDE DEF row, next
  <2>6. FoundHeld(next)
    BY <1>3, <2>3, <2>4 DEF FoundHeld
  <2>7. HistoryHeld(next)
    BY <1>3, <2>4 DEF HistoryHeld
  <2>8. RowHeld(next)
    BY <2>6, <2>7 DEF RowHeld
  <2> QED
    BY <1>1, <1>2, <1>3, <2>4, <2>5, <2>8, RowKeepsAnswers
<1>5. CASE ReadTurns(c)
  <2> DEFINE read == IF row.thread \in DOMAIN turns THEN turns[row.thread] ELSE {}
             next == [step |-> "history", thread |-> row.thread, found |-> row.found,
                      history |-> read, seen |-> row.seen]
  <2>1. UsableEvidence(row.found)
    BY <1>5 DEF ReadTurns
  <2>2. asking' = [asking EXCEPT ![c] = next]
    BY <1>3, <1>5, TurnsRow
  <2>3. /\ next.step = "history" /\ next.thread = row.thread /\ next.found = row.found
        /\ next.history = read /\ next.seen = row.seen
    OBVIOUS
  <2>4. \A turn \in read : Grounded(row.thread, turn)
    BY DEF AnswerInv, TurnsHeld
  <2> HIDE DEF row, next, read
  <2>5. FoundHeld(next)
    BY <1>3, <2>1, <2>3 DEF FoundHeld, UsableEvidence
  <2>6. HistoryHeld(next)
    BY <2>3, <2>4 DEF HistoryHeld
  <2>7. RowHeld(next)
    BY <2>5, <2>6 DEF RowHeld
  <2> QED
    BY <1>1, <1>2, <1>3, <2>2, <2>3, <2>7, RowKeepsAnswers
<1>6. CASE ReadVisible(c)
  <2> DEFINE step == IF row.found = {} THEN "shown" ELSE "asked"
             kept == {turn \in row.history : turn.text # Nothing /\ ClaimKept(turn)}
             next == [step |-> step, thread |-> row.thread, found |-> row.found,
                      history |-> kept, seen |-> row.seen]
  <2>1. row.step = "history"
    BY <1>6 DEF ReadVisible
  <2>2. asking' = [asking EXCEPT ![c] = next]
    BY <1>3, <1>6, VisibleRow
  <2>3. /\ next.step = step /\ next.thread = row.thread /\ next.found = row.found
        /\ next.history = kept /\ next.seen = row.seen
    OBVIOUS
  <2>4. \A turn \in kept : /\ turn \in row.history /\ turn.text # Nothing
                           /\ \A x \in turn.cites : turn.sources[x].agreement \in Visible
    BY DEF ClaimKept
  <2> HIDE DEF row, next, kept, step
  <2>5. FoundHeld(next)
    BY <1>3, <2>1, <2>3 DEF FoundHeld
  <2>6. HistoryHeld(next)
    BY <1>3, <2>3, <2>4 DEF HistoryHeld
  <2>7. RowHeld(next)
    BY <2>5, <2>6 DEF RowHeld
  <2> QED
    BY <1>1, <1>2, <1>3, <2>2, <2>3, <2>7, RowKeepsAnswers
<1> QED
  BY <1>4, <1>5, <1>6

\* What ends a request, and what it stores when it does
LEMMA LastStepKeeps ==
  ASSUME AnswerInv, QuestionInv', NEW c \in Callers,
         CreateThreadCommit(c) \/ CommitAnswer(c) \/ Refuse(c) \/ EndRequest(c)
  PROVE  AnswerInv'
<1>1. asking' = [asking EXCEPT ![c] = Nothing] /\ UNCHANGED <<agreement, indexed>>
  BY DEF CreateThreadCommit, CommitAnswer, Refuse, EndRequest, AddTurn
<1>2. ASSUME NEW turn, AddTurn(c, turn), Grounded(asking[c].thread, turn) PROVE TurnsHeld'
  <2> DEFINE t == asking[c].thread
  <2>1. turns' = IF t \in DOMAIN turns THEN [turns EXCEPT ![t] = @ \cup {turn}] ELSE turns
    BY <1>2 DEF AddTurn
  <2> QED
    BY <1>2, <2>1 DEF AnswerInv, TurnsHeld
<1>3. TurnsHeld'
  <2>1. CASE CreateThreadCommit(c)
    <3>1. \A t \in DOMAIN turns' : turns'[t] = {} \/ (t \in DOMAIN turns /\ turns'[t] = turns[t])
      BY <2>1 DEF CreateThreadCommit
    <3> QED
      BY <3>1 DEF AnswerInv, TurnsHeld
  <2>2. CASE CommitAnswer(c)
    <3> DEFINE row == asking[c]
    <3>1. PICK text, cites : /\ Supported(row.found, text, cites)
                             /\ AddTurn(c, Turn(row.found, text, cites))
      BY <2>2 DEF CommitAnswer
    <3>2. FoundHeld(row) /\ row.step = "asked"
      BY <2>2 DEF CommitAnswer, AnswerInv, RowsHeld, RowHeld
    <3>3. GuardrailsAllow(row.found) /\ \A r \in row.found : ResultHeld(row.thread, r)
      BY <3>2 DEF FoundHeld
    <3>4. Grounded(row.thread, Turn(row.found, text, cites))
      BY <3>1, <3>3, SupportedIsGrounded
    <3> QED
      BY <1>2, <3>1, <3>4
  <2>3. CASE Refuse(c)
    <3>1. AddTurn(c, Refusal)
      BY <2>3 DEF Refuse
    <3> QED
      BY <1>2, <3>1, RefusalIsGrounded
  <2>4. CASE EndRequest(c)
    BY <2>4 DEF EndRequest, AnswerInv, TurnsHeld
  <2> QED
    BY <2>1, <2>2, <2>3, <2>4
<1> QED
  BY <1>1, <1>3, RowKeepsAnswers DEF RowHeld

\* An agreement that becomes visible is seen by every request.
LEMMA RestoreKeepsAnswers ==
  ASSUME AnswerInv, QuestionInv', NEW a \in Corpus, RestoreAgreement(a)
  PROVE  AnswerInv'
<1>1. /\ agreement' = [agreement EXCEPT ![a] = "visible"] /\ UNCHANGED <<indexed, turns>>
      /\ agreement[a] = "archived" /\ QuestionInv
  BY DEF RestoreAgreement, MoveAgreement, AnswerInv
<1>2. Visible' \subseteq Visible \cup {a}
  BY <1>1 DEF Visible, QuestionInv, QuestionTypeOK
<1>3. IndexHeld'
  BY <1>1 DEF AnswerInv, IndexHeld, QuestionInv, QuestionTypeOK
<1>4. TurnsHeld'
  BY <1>1 DEF AnswerInv, TurnsHeld
<1>5. ASSUME NEW c \in Callers, asking'[c] # Nothing
      PROVE  /\ Visible' \subseteq asking'[c].seen
             /\ FoundHeld(asking'[c]) /\ HistoryHeld(asking'[c])
  <2> DEFINE row == asking[c]
             next == asking'[c]
  <2>1. /\ row # Nothing
        /\ next = [step |-> row.step, thread |-> row.thread, found |-> row.found,
                   history |-> row.history, seen |-> row.seen \cup {a}]
    BY <1>1, <1>5, RestoreRow
  <2>2. /\ next.step = row.step /\ next.thread = row.thread /\ next.found = row.found
        /\ next.history = row.history /\ next.seen = row.seen \cup {a}
    BY <2>1
  <2>3. Visible \subseteq row.seen /\ FoundHeld(row) /\ HistoryHeld(row)
    BY <2>1 DEF AnswerInv, SeenHeld, RowsHeld, RowHeld
  <2> HIDE DEF row, next
  <2>4. FoundHeld(next)
    BY <2>2, <2>3 DEF FoundHeld
  <2>5. HistoryHeld(next)
    BY <2>2, <2>3 DEF HistoryHeld
  <2> QED
    BY <1>2, <2>2, <2>3, <2>4, <2>5 DEF next
<1> QED
  BY <1>3, <1>4, <1>5 DEF AnswerInv, SeenHeld, RowsHeld, RowHeld

\* The other moves of an agreement hide it; its index changes only to one of
\* its versions, and is emptied when it is purged.
LEMMA AgreementKeepsAnswers ==
  ASSUME AnswerInv, QuestionInv', NEW a \in Corpus,
         \/ ArchiveAgreement(a) \/ RequestDeletion(a) \/ Purge(a)
         \/ \E d \in Checksums : IndexDocument(a, d)
  PROVE  AnswerInv'
<1>1. UNCHANGED asking
  BY DEF ArchiveAgreement, RequestDeletion, Purge, IndexDocument
<1>2. /\ agreement \in [Corpus -> {"visible", "archived", "deleting", "purged"}]
      /\ DOMAIN indexed = Corpus /\ IndexHeld /\ TurnsHeld
  BY DEF AnswerInv, QuestionInv, QuestionTypeOK
<1>3. Visible' \subseteq Visible /\ IndexHeld' /\ TurnsHeld'
  <2>1. CASE ArchiveAgreement(a) \/ RequestDeletion(a)
    <3>1. PICK from, to :
            /\ from \in {"visible", "archived"} /\ to \in {"archived", "deleting"}
            /\ MoveAgreement(a, from, to)
      BY <2>1 DEF ArchiveAgreement, RequestDeletion
    <3>2. /\ agreement' = [agreement EXCEPT ![a] = to] /\ UNCHANGED <<indexed, turns>>
          /\ agreement[a] # "purged"
      BY <3>1 DEF MoveAgreement
    <3>3. Visible' \subseteq Visible
      BY <1>2, <3>1, <3>2 DEF Visible
    <3> QED
      BY <1>2, <3>2, <3>3 DEF IndexHeld, TurnsHeld
  <2>2. CASE Purge(a)
    <3>1. /\ agreement' = [agreement EXCEPT ![a] = "purged"]
          /\ indexed' = [indexed EXCEPT ![a] = Nothing]
          /\ turns' = [t \in {u \in DOMAIN turns : a \notin ScopeOf[u]} |-> turns[t]]
      BY <2>2 DEF Purge
    <3>2. Visible' \subseteq Visible
      BY <1>2, <3>1 DEF Visible
    <3>3. IndexHeld'
      BY <1>2, <3>1 DEF IndexHeld
    <3>4. TurnsHeld'
      BY <1>2, <3>1 DEF TurnsHeld
    <3> QED
      BY <3>2, <3>3, <3>4
  <2>3. ASSUME NEW d \in Checksums, IndexDocument(a, d)
        PROVE  Visible' \subseteq Visible /\ IndexHeld' /\ TurnsHeld'
    BY <1>2, <2>3 DEF IndexDocument, Visible, IndexHeld, TurnsHeld
  <2> QED
    BY <2>1, <2>2, <2>3
<1> QED
  BY <1>1, <1>3 DEF AnswerInv, SeenHeld, RowsHeld

LEMMA AnswerStep == AnswerInv /\ [QuestionNext]_questionVars => AnswerInv'
<1> SUFFICES ASSUME AnswerInv, [QuestionNext]_questionVars PROVE AnswerInv'
  OBVIOUS
<1>1. QuestionInv'
  BY QuestionStep DEF AnswerInv
<1>2. CASE UNCHANGED questionVars
  BY <1>1, <1>2 DEF questionVars, AnswerInv, IndexHeld, TurnsHeld, SeenHeld, RowsHeld, Visible
<1> QED
  BY <1>1, <1>2, FirstReadKeeps, LaterReadKeeps, LastStepKeeps, RestoreKeepsAnswers,
     AgreementKeepsAnswers DEF QuestionNext

LEMMA AnswersAlways == QuestionSpec => []AnswerInv
<1>1. QuestionInit => AnswerInv
  <2> SUFFICES ASSUME QuestionInit PROVE AnswerInv
    OBVIOUS
  <2>1. DOMAIN turns = {} /\ QuestionInv
    BY QuestionInitial DEF QuestionInit
  <2> QED
    BY <2>1 DEF QuestionInit, AnswerInv, IndexHeld, TurnsHeld, SeenHeld, RowsHeld, RowHeld
<1> QED
  BY <1>1, AnswerStep, PTL DEF QuestionSpec

\* Every claim that a reader is shown, or the model offered, was said where it
\* is cited: by a chunk with that anchor in a version of that agreement
\* (_evidence_from_search, _valid_claim, _redact_turn), though the chunk may
\* have been replaced since (document_indexing.py) or come from a copy.
THEOREM GivenStaysGrounded == QuestionSpec => []GivenIsGrounded
<1>1. AnswerInv => GivenIsGrounded
  <2> SUFFICES ASSUME AnswerInv, NEW c \in Callers, NEW turn \in Given(c), NEW x \in turn.cites
               PROVE  /\ turn.sources[x].version \in VersionsOf[turn.sources[x].agreement]
                      /\ InScope(asking[c].thread, turn.sources[x].agreement)
                      /\ \E k \in Chunks \ Hostile :
                           /\ DocumentOf[k] = turn.sources[x].version
                           /\ x \in AnchorsOf[k] /\ turn.text \in PreviewOf[k]
    BY DEF GivenIsGrounded, InScope
  <2>1. /\ asking[c] # Nothing /\ asking[c].step \in {"shown", "asked"}
        /\ turn \in asking[c].history
    BY DEF Given
  <2>2. turn.text # Nothing /\ Grounded(asking[c].thread, turn)
    BY <2>1 DEF AnswerInv, RowsHeld, RowHeld, HistoryHeld
  <2> QED
    BY <2>2 DEF Grounded
<1> QED
  BY <1>1, AnswersAlways, PTL

\* What a request finds and what it gives away is of agreements that were
\* visible at some moment of it (the conditions of the search's statements,
\* _redact_inaccessible_turns), however long the embedding and the model take
\* and whatever is archived or deleted meanwhile.
THEOREM OnlyTheSeenStaysGiven == QuestionSpec => []OnlyTheSeenIsGiven
<1>1. AnswerInv => OnlyTheSeenIsGiven
  <2> SUFFICES ASSUME AnswerInv, NEW c \in Callers, asking[c] # Nothing
               PROVE  /\ \A r \in asking[c].found : r.agreement \in asking[c].seen
                      /\ \A turn \in Given(c), a \in Corpus :
                           Quotes(turn, a) => a \in asking[c].seen
    BY DEF OnlyTheSeenIsGiven
  <2>1. FoundHeld(asking[c]) /\ HistoryHeld(asking[c])
    BY DEF AnswerInv, RowsHeld, RowHeld
  <2>2. ASSUME NEW turn \in Given(c), NEW a \in Corpus, Quotes(turn, a)
        PROVE  a \in asking[c].seen
    <3>1. asking[c].step \in {"shown", "asked"} /\ turn \in asking[c].history
      BY <2>2 DEF Given
    <3>2. \A x \in turn.cites : turn.sources[x].agreement \in asking[c].seen
      BY <2>1, <3>1 DEF HistoryHeld
    <3> QED
      BY <2>2, <3>2 DEF Quotes
  <2> QED
    BY <2>1, <2>2 DEF FoundHeld
<1> QED
  BY <1>1, AnswersAlways, PTL

(* ---------------------------- Model gateway ---------------------------- *)
(* Whatever is configured and whichever endpoint answers, vectors are      *)
(* filed under the model that made them and answers name the model that    *)
(* gave them.                                                              *)

\* A vector that can be found is filed under the model that made it.
FiledByMaker == \A k \in Passages : embedded[k].state = "ready" => embedded[k].by = embedded[k].named

GatewayInv == DOMAIN embedded = Passages /\ FiledByMaker /\ ProvenanceIsTrue

LEMMA GatewayInitial == GatewayInit => GatewayInv
BY DEF GatewayInit, GatewayInv, FiledByMaker, ProvenanceIsTrue

LEMMA EmbedKeeps ==
  ASSUME GatewayInv, NEW k \in Passages, NEW c, NEW normal \in BOOLEAN, NEW first, NEW second,
         EmbedPassage(k, c, normal, first, second)
  PROVE  GatewayInv'
<1> DEFINE reply == Call("embed", c, first, second)
\* a reply names the endpoint that answered, the first or the fallback
<1>1. reply.outcome = "ok" => reply.by = reply.named
  BY DEF Call, Reply, Failure, Named
<1> HIDE DEF reply
<1>2. embedded' = [embedded EXCEPT ![k] =
         IF reply.outcome = "ok"
         THEN [state |-> "ready", by |-> reply.by, version |-> c, named |-> reply.named]
         ELSE [state |-> "unavailable"]]
  BY DEF EmbedPassage, reply
<1>3. FiledByMaker'
  BY <1>1, <1>2 DEF GatewayInv, FiledByMaker
<1> QED
  BY <1>2, <1>3 DEF GatewayInv, EmbedPassage, ProvenanceIsTrue

\* A query meets vectors of its own space only: those filed under the model
\* that embedded it.
LEMMA SearchKeeps ==
  ASSUME GatewayInv, NEW c, NEW first, NEW second, SearchPassages(c, first, second)
  PROVE  GatewayInv'
<1> DEFINE reply == Call("embed", c, first, second)
<1>1. reply.outcome = "ok" => reply.by = reply.named
  BY DEF Call, Reply, Failure, Named
<1> HIDE DEF reply
<1>2. /\ reply.outcome = "ok" /\ UNCHANGED <<embedded, told>>
      /\ matched' = matched \cup {<<reply.by, embedded[k].by>> : k \in SpaceOf(c, reply.named)}
  BY DEF SearchPassages, reply
<1>3. \A k \in SpaceOf(c, reply.named) : embedded[k].by = reply.by
  BY <1>1, <1>2 DEF SpaceOf, GatewayInv, FiledByMaker
<1>4. \A pair \in matched' : pair[1] = pair[2]
  BY <1>2, <1>3 DEF GatewayInv, ProvenanceIsTrue
<1> QED
  BY <1>2, <1>4 DEF GatewayInv, FiledByMaker, ProvenanceIsTrue

LEMMA AnswerKeeps ==
  ASSUME GatewayInv, NEW evidence, NEW cited, NEW c, NEW first, NEW second,
         AnswerFrom(evidence, cited, c, first, second)
  PROVE  GatewayInv'
<1> DEFINE reply == Call("generate", c, first, second)
<1>1. reply.outcome = "ok" => reply.by = reply.named
  BY DEF Call, Reply, Failure, Named
<1> HIDE DEF reply
<1>2. /\ reply.outcome = "ok" /\ told' = [by |-> reply.by, named |-> reply.named]
      /\ UNCHANGED <<embedded, matched>>
  BY DEF AnswerFrom, reply
<1> QED
  BY <1>1, <1>2 DEF GatewayInv, FiledByMaker, ProvenanceIsTrue

LEMMA GatewayStep == GatewayInv /\ [GatewayNext]_gatewayVars => GatewayInv'
<1> SUFFICES ASSUME GatewayInv, [GatewayNext]_gatewayVars PROVE GatewayInv'
  OBVIOUS
<1>1. ASSUME NEW c \in Settings, PromoteSetting(c) PROVE GatewayInv'
  BY <1>1 DEF PromoteSetting, GatewayInv, FiledByMaker, ProvenanceIsTrue
<1>2. CASE UNCHANGED gatewayVars
  BY <1>2 DEF gatewayVars, GatewayInv, FiledByMaker, ProvenanceIsTrue
<1> QED
  BY <1>1, <1>2, EmbedKeeps, SearchKeeps, AnswerKeeps DEF GatewayNext

\* A query is compared with vectors of the model that embedded it only, and an
\* answer names the model that gave it (_provenance, semantic_candidates), for
\* any deployment, configurations, parameters and failures of the endpoints.
THEOREM ProvenanceStaysTrue == GatewaySpec => []ProvenanceIsTrue
<1>1. GatewayInv => ProvenanceIsTrue
  BY DEF GatewayInv
<1> QED
  BY <1>1, GatewayInitial, GatewayStep, PTL DEF GatewaySpec

(* ----------------------------- Usage ledger ---------------------------- *)
(* Rate limits run out and answers that were kept have been paid for, for  *)
(* any requests, estimates, budget and limit.  The two arguments are apart: *)
(* one is about the counters in Redis, the other about the reservation of a *)
(* turn, which no other request files a row under.                         *)

Routes == {"turn", "search", "submit"}

\* Why the limit holds: a counter counts every request it lets through, and
\* it is given its expiry by the request that makes it positive.
WindowInv ==
    /\ window \in [Routes -> [count : Nat, left : Nat]]
    /\ passed \in [Routes -> Nat]
    /\ \A route \in Routes :
        /\ window[route].count > 0 => window[route].left > 0
        /\ passed[route] <= window[route].count /\ passed[route] <= RateLimit

Untouched == {"start", "limited", "admitted", "reserved"}

\* Why an answer is paid for: the provider is called once, under a reservation,
\* and what is settled is what it has reported.
PaidInv ==
    /\ DOMAIN request = Requests /\ spent \in [Requests -> Nat]
    /\ \A r \in Requests :
        /\ At(r, "reserved") => Held(r) = Row(r, "reserved", 0)
        /\ request[r].at \in Untouched => spent[r] = 0
        /\ At(r, "called") /\ RouteOf[r] = "turn" /\ Held(r).status = "settled"
            => Held(r).actual = spent[r]
        /\ At(r, "answered") => RouteOf[r] = "turn"
    /\ AnswersArePaid

-----------------------------------------------------------------------------
LEMMA WindowInitial == UsageInit => WindowInv
  BY UsageAssumption DEF UsageInit, WindowInv, Routes

LEMMA EnterKeepsWindows ==
  ASSUME WindowInv, NEW r \in Requests, EnterRoute(r)
  PROVE  WindowInv'
<1> DEFINE route == RouteOf[r]
           w == Incremented(window[route])
<1>1. /\ route \in Routes /\ DOMAIN EstimateOf = Routes
      /\ RateLimit \in Nat /\ WindowLength \in Nat /\ WindowLength > 0
  BY UsageAssumption DEF Routes
<1>2. /\ w \in [count : Nat, left : Nat]
      /\ w.count > 0 /\ w.left > 0 /\ w.count >= window[route].count
      /\ w.count <= RateLimit => w.count = window[route].count + 1
  BY <1>1 DEF WindowInv, Incremented
<1>3. /\ window' = [window EXCEPT ![route] = w]
      /\ \/ w.count > RateLimit /\ passed' = passed
         \/ w.count <= RateLimit /\ passed' = [passed EXCEPT ![route] = @ + 1]
  BY <1>1, <1>2 DEF EnterRoute
<1> HIDE DEF w, route
<1>4. window' \in [Routes -> [count : Nat, left : Nat]] /\ passed' \in [Routes -> Nat]
  BY <1>1, <1>2, <1>3 DEF WindowInv
<1>5. ASSUME NEW x \in Routes
      PROVE  /\ window'[x].count > 0 => window'[x].left > 0
             /\ passed'[x] <= window'[x].count /\ passed'[x] <= RateLimit
  <2>1. CASE x = route
    BY <1>1, <1>2, <1>3, <2>1 DEF WindowInv
  <2>2. CASE x # route
    BY <1>1, <1>3, <2>2 DEF WindowInv
  <2> QED
    BY <2>1, <2>2
<1> QED
  BY <1>4, <1>5 DEF WindowInv

LEMMA TickKeepsWindows ==
  ASSUME WindowInv, NEW route \in Routes, Tick(route)
  PROVE  WindowInv'
<1>1. RateLimit \in Nat
  BY UsageAssumption
<1>2. /\ window' = [window EXCEPT ![route] = window'[route]]
      /\ \/ window'[route] = [count |-> 0, left |-> 0] /\ passed' = [passed EXCEPT ![route] = 0]
         \/ /\ window'[route] = [count |-> window[route].count, left |-> window[route].left - 1]
            /\ window[route].left > 1 /\ passed' = passed
  BY DEF Tick, WindowInv
<1>3. window' \in [Routes -> [count : Nat, left : Nat]] /\ passed' \in [Routes -> Nat]
  <2>1. window'[route] \in [count : Nat, left : Nat]
    BY <1>2 DEF WindowInv
  <2> QED
    BY <1>2, <2>1 DEF WindowInv
<1>4. ASSUME NEW x \in Routes
      PROVE  /\ window'[x].count > 0 => window'[x].left > 0
             /\ passed'[x] <= window'[x].count /\ passed'[x] <= RateLimit
  <2>1. CASE x = route
    BY <1>1, <1>2, <2>1 DEF WindowInv
  <2>2. CASE x # route
    BY <1>2, <2>2 DEF WindowInv
  <2> QED
    BY <2>1, <2>2
<1> QED
  BY <1>3, <1>4 DEF WindowInv

LEMMA WindowStep == WindowInv /\ [UsageNext]_usageVars => WindowInv'
<1> SUFFICES ASSUME WindowInv, [UsageNext]_usageVars PROVE WindowInv'
  OBVIOUS
<1>1. ASSUME NEW route \in DOMAIN EstimateOf, Tick(route) PROVE WindowInv'
  BY <1>1, TickKeepsWindows, UsageAssumption DEF Routes
<1>2. ASSUME NEW r \in Requests, EnterRoute(r) PROVE WindowInv'
  BY <1>2, EnterKeepsWindows
<1>3. ASSUME UNCHANGED <<window, passed>> PROVE WindowInv'
  BY <1>3 DEF WindowInv
<1> QED
  BY <1>1, <1>2, <1>3 DEF UsageNext, usageVars, EnterWithoutRedis, AskAgain, Reserve, CallProvider,
     ProviderFails, CommitTurn, CancelTurn, CommitSearch, CommitSubmit, RollBack

\* A counter in Redis always runs out, and before it does it lets at most the
\* limit through (the Lua script of redis_client.py).
THEOREM WindowsRunOut == UsageSpec => []WindowsEnd
<1>1. WindowInv => WindowsEnd
  BY DEF WindowInv, WindowsEnd
<1> QED
  BY <1>1, WindowInitial, WindowStep, PTL DEF UsageSpec

-----------------------------------------------------------------------------
LEMMA PaidInitial == UsageInit => PaidInv
  BY DEF UsageInit, PaidInv, AnswersArePaid, At, Held, Untouched

\* A request that moves on without the provider and without an answer.
LEMMA MoveKeepsPaid ==
  ASSUME PaidInv, NEW r \in Requests, NEW place, NEW row, Goto(r, place, row),
         UNCHANGED <<ledger, spent>>, place # "answered",
         place = "reserved" => row = Row(r, "reserved", 0),
         place \in Untouched => spent[r] = 0,
         place = "called" /\ RouteOf[r] = "turn" /\ row.status = "settled"
             => row.actual = spent[r]
  PROVE  PaidInv'
<1>1. request' = [request EXCEPT ![r] = [at |-> place, row |-> row]]
  BY DEF Goto
<1>2. AnswersArePaid'
  BY <1>1 DEF PaidInv, AnswersArePaid, At
<1> QED
  BY <1>1, <1>2 DEF PaidInv, At, Held, Row

LEMMA CallKeepsPaid ==
  ASSUME PaidInv, NEW r \in Requests, NEW n \in Actuals, CallProvider(r, n)
  PROVE  PaidInv'
<1>1. n \in Nat
  BY UsageAssumption
<1>2. /\ request' = [request EXCEPT ![r] = [at |-> "called", row |-> SettledRow(r, n)]]
      /\ spent' = [spent EXCEPT ![r] = @ + n] /\ ledger' = ledger
  BY DEF CallProvider, Goto
<1>3. RouteOf[r] = "turn" => SettledRow(r, n).actual = spent'[r]
  <2> SUFFICES ASSUME RouteOf[r] = "turn" PROVE SettledRow(r, n).actual = spent'[r]
    OBVIOUS
  <2>1. At(r, "reserved")
    BY DEF CallProvider
  <2>2. Held(r) = Row(r, "reserved", 0) /\ spent[r] = 0
    BY <2>1 DEF PaidInv, At, Untouched
  <2>3. SettledRow(r, n) = Row(r, "settled", n)
    BY <2>2 DEF SettledRow, Row
  <2> QED
    BY <1>1, <1>2, <2>2, <2>3 DEF PaidInv, Row
<1>4. AnswersArePaid'
  BY <1>2 DEF PaidInv, AnswersArePaid, At
<1>5. spent' \in [Requests -> Nat]
  BY <1>1, <1>2 DEF PaidInv
<1> QED
  BY <1>2, <1>3, <1>4, <1>5 DEF PaidInv, At, Held, Row, Untouched

\* What a request files concerns no turn but its own.
LEMMA FilingKeepsOthers ==
  ASSUME PaidInv, NEW r \in Requests, NEW s \in Requests, s # r, NEW row, File(r, row),
         At(s, "answered"), spent' = spent
  PROVE  /\ KeyOf[s] \in DOMAIN ledger'
         /\ ledger'[KeyOf[s]].status = "settled" /\ ledger'[KeyOf[s]].actual = spent'[s]
<1>1. KeyOf[s] # KeyOf[r]
  BY UsageAssumption DEF PaidInv
<1>2. /\ KeyOf[s] \in DOMAIN ledger
      /\ ledger[KeyOf[s]].status = "settled" /\ ledger[KeyOf[s]].actual = spent[s]
  BY DEF PaidInv, AnswersArePaid
<1> QED
  BY <1>1, <1>2 DEF File

LEMMA FileKeepsPaid ==
  ASSUME PaidInv, NEW r \in Requests, NEW place, NEW row, File(r, row),
         Goto(r, place, NoRow), spent' = spent, place \notin Untouched \cup {"called"},
         place = "answered" => /\ RouteOf[r] = "turn"
                               /\ row.status = "settled" /\ row.actual = spent[r]
  PROVE  PaidInv'
<1>1. request' = [request EXCEPT ![r] = [at |-> place, row |-> NoRow]]
  BY DEF Goto
<1>2. ASSUME NEW s \in Requests, At(s, "answered")'
      PROVE  /\ KeyOf[s] \in DOMAIN ledger'
             /\ ledger'[KeyOf[s]].status = "settled" /\ ledger'[KeyOf[s]].actual = spent'[s]
  <2>1. CASE s = r
    <3>1. place = "answered"
      BY <1>1, <1>2, <2>1 DEF PaidInv, At
    <3> QED
      BY <2>1, <3>1 DEF File
  <2>2. CASE s # r
    <3>1. At(s, "answered")
      BY <1>1, <1>2, <2>2 DEF PaidInv, At
    <3> QED
      BY <2>2, <3>1, FilingKeepsOthers
  <2> QED
    BY <2>1, <2>2
<1>3. AnswersArePaid'
  BY <1>2 DEF AnswersArePaid, At
<1>4. ASSUME NEW s \in Requests
      PROVE  /\ At(s, "reserved")' => Held(s)' = Row(s, "reserved", 0)
             /\ request'[s].at \in Untouched => spent'[s] = 0
             /\ At(s, "called")' /\ RouteOf[s] = "turn" /\ Held(s)'.status = "settled"
                    => Held(s)'.actual = spent'[s]
             /\ At(s, "answered")' => RouteOf[s] = "turn"
  BY <1>1 DEF PaidInv, At, Held, Untouched
<1> QED
  BY <1>1, <1>3, <1>4 DEF PaidInv, At, Held, Row

LEMMA PaidStep == PaidInv /\ [UsageNext]_usageVars => PaidInv'
<1> SUFFICES ASSUME PaidInv, [UsageNext]_usageVars PROVE PaidInv'
  OBVIOUS
<1> USE DEF At
<1>1. ASSUME UNCHANGED <<ledger, request, spent>> PROVE PaidInv'
  BY <1>1 DEF PaidInv, AnswersArePaid, Held, Row
<1>2. ASSUME NEW r \in Requests, EnterRoute(r) PROVE PaidInv'
  BY <1>2, MoveKeepsPaid DEF EnterRoute, PaidInv, Untouched
<1>3. ASSUME NEW r \in Requests, EnterWithoutRedis(r) PROVE PaidInv'
  <2>1. PICK place \in {"limited", "admitted"} : Goto(r, place, NoRow)
    BY <1>3 DEF EnterWithoutRedis
  <2>2. UNCHANGED <<ledger, spent>> /\ spent[r] = 0
    BY <1>3 DEF EnterWithoutRedis, PaidInv, Untouched
  <2> QED
    BY <2>1, <2>2, MoveKeepsPaid
<1>4. ASSUME NEW r \in Requests, AskAgain(r) PROVE PaidInv'
  BY <1>4, MoveKeepsPaid DEF AskAgain, PaidInv, Untouched
<1>5. ASSUME NEW r \in Requests, Reserve(r) PROVE PaidInv'
  <2>1. UNCHANGED <<ledger, spent>> /\ spent[r] = 0
    BY <1>5 DEF Reserve, PaidInv, Untouched
  <2>2. \/ \E place \in {"done", "refused"} : Goto(r, place, NoRow)
        \/ Goto(r, "reserved", Row(r, "reserved", 0))
    BY <1>5 DEF Reserve
  <2> QED
    BY <2>1, <2>2, MoveKeepsPaid
<1>6. ASSUME NEW r \in Requests, NEW n \in Actuals, CallProvider(r, n) PROVE PaidInv'
  BY <1>6, CallKeepsPaid
<1>7. ASSUME NEW r \in Requests, ProviderFails(r) PROVE PaidInv'
  <2>1. Held(r) = Row(r, "reserved", 0) /\ Goto(r, "called", Held(r)) /\ UNCHANGED <<ledger, spent>>
    BY <1>7 DEF ProviderFails, PaidInv
  <2> QED
    BY <2>1, MoveKeepsPaid DEF Row, Untouched
<1>8. ASSUME NEW r \in Requests, CommitTurn(r) PROVE PaidInv'
  <2>1. /\ File(r, Held(r)) /\ spent' = spent /\ RouteOf[r] = "turn"
        /\ Goto(r, IF Held(r).status = "settled" THEN "answered" ELSE "unanswered", NoRow)
    BY <1>8 DEF CommitTurn, TurnRow
  <2>2. Held(r).status = "settled" => Held(r).actual = spent[r]
    BY <1>8 DEF CommitTurn, PaidInv
  <2>3. CASE Held(r).status = "settled"
    BY <2>1, <2>2, <2>3, FileKeepsPaid DEF Untouched
  <2>4. CASE Held(r).status # "settled"
    BY <2>1, <2>4, FileKeepsPaid DEF Untouched
  <2> QED
    BY <2>3, <2>4
<1>9. ASSUME NEW r \in Requests, CancelTurn(r) \/ RollBack(r) PROVE PaidInv'
  BY <1>9, MoveKeepsPaid DEF CancelTurn, RollBack, Untouched
<1>10. ASSUME NEW r \in Requests, CommitSearch(r) \/ CommitSubmit(r) PROVE PaidInv'
  <2>1. PICK row : File(r, row) /\ Goto(r, "done", NoRow) /\ spent' = spent
    BY <1>10 DEF CommitSearch, CommitSubmit
  <2> QED
    BY <2>1, FileKeepsPaid DEF Untouched
<1>11. ASSUME NEW route \in DOMAIN EstimateOf, Tick(route) PROVE PaidInv'
  BY <1>1, <1>11 DEF Tick
<1> QED
  BY <1>1, <1>2, <1>3, <1>4, <1>5, <1>6, <1>7, <1>8, <1>9, <1>10, <1>11 DEF UsageNext, usageVars

\* An answer that was kept is settled with what the provider used: ask()
\* commits the turn and the row of its usage together.
THEOREM KeptAnswersArePaid == UsageSpec => []AnswersArePaid
<1>1. PaidInv => AnswersArePaid
  BY DEF PaidInv
<1> QED
  BY <1>1, PaidInitial, PaidStep, PTL DEF UsageSpec

(* ------------------------------ The budget ----------------------------- *)

UsageRow == [status : {"reserved", "settled", "cancelled"}, estimate : Nat, actual : Nat]

ChargedOf(rows) ==
    SumFunction([k \in {l \in DOMAIN rows : rows[l].status # "cancelled"} |-> Charge(rows[k])])
ExcessOf(rows) ==
    SumFunction([k \in {l \in DOMAIN rows : rows[l].actual > rows[l].estimate}
                    |-> rows[k].actual - rows[k].estimate])

\* Rows of the ledger, by their keys
Ledger(rows) == IsFiniteSet(DOMAIN rows) /\ \A k \in DOMAIN rows : rows[k] \in UsageRow

LEMMA ChargeIsNatural == ASSUME NEW row \in UsageRow PROVE Charge(row) \in Nat
BY DEF UsageRow, Charge

LEMMA SumsOfLedger ==
  ASSUME NEW rows, Ledger(rows)
  PROVE  /\ ChargedOf(rows) \in Nat /\ ExcessOf(rows) \in Nat
         /\ CurrentUsage(rows) = ChargedOf(rows)
<1>1. PICK charged : charged = [k \in {l \in DOMAIN rows : rows[l].status # "cancelled"}
                                    |-> Charge(rows[k])]
  OBVIOUS
<1>2. PICK excess : excess = [k \in {l \in DOMAIN rows : rows[l].actual > rows[l].estimate}
                                    |-> rows[k].actual - rows[k].estimate]
  OBVIOUS
<1>3. Summable(charged)
  <2>1. IsFiniteSet(DOMAIN charged)
    BY <1>1, FS_Subset DEF Ledger
  <2>2. \A k \in DOMAIN charged : rows[k] \in UsageRow /\ charged[k] = Charge(rows[k])
    BY <1>1 DEF Ledger
  <2> QED
    BY <2>1, <2>2, ChargeIsNatural DEF Summable
<1>4. Summable(excess)
  <2>1. IsFiniteSet(DOMAIN excess)
    BY <1>2, FS_Subset DEF Ledger
  <2>2. \A k \in DOMAIN excess : excess[k] \in Nat
    BY <1>2 DEF Ledger, UsageRow
  <2> QED
    BY <2>1, <2>2 DEF Summable
<1>5. SumFunction(charged) \in Nat /\ SumFunction(excess) \in Nat
  BY <1>3, <1>4, SumIsNatural
<1>6. {l \in DOMAIN rows : rows[l].status \in {"reserved", "settled"}} =
      {l \in DOMAIN rows : rows[l].status # "cancelled"}
  BY DEF Ledger, UsageRow
<1> QED
  BY <1>1, <1>2, <1>5, <1>6 DEF ChargedOf, ExcessOf, CurrentUsage

\* What filing a row adds to the sums
LEMMA FilingAdds ==
  ASSUME NEW rows, Ledger(rows), NEW k, k \notin DOMAIN rows, NEW row \in UsageRow,
         NEW new, DOMAIN new = DOMAIN rows \cup {k}, new[k] = row,
         \A l \in DOMAIN rows : new[l] = rows[l]
  PROVE  /\ Ledger(new)
         /\ ChargedOf(new) =
                ChargedOf(rows) + (IF row.status = "cancelled" THEN 0 ELSE Charge(row))
         /\ ExcessOf(new) = ExcessOf(rows) +
                (IF row.actual > row.estimate THEN row.actual - row.estimate ELSE 0)
<1>1. Ledger(new)
  BY FS_AddElement DEF Ledger
<1>2. PICK C, D : /\ C = {l \in DOMAIN rows : rows[l].status # "cancelled"}
                  /\ D = {l \in DOMAIN new : new[l].status # "cancelled"}
  OBVIOUS
<1>3. PICK f, g : /\ f = [l \in C |-> Charge(rows[l])]
                  /\ g = [l \in D |-> Charge(new[l])]
  OBVIOUS
<1>4. /\ ChargedOf(rows) = SumFunction(f) /\ ChargedOf(new) = SumFunction(g)
  BY <1>2, <1>3 DEF ChargedOf
<1>5. /\ DOMAIN f = C /\ DOMAIN g = D /\ k \notin C
      /\ \A l \in C : f[l] = Charge(rows[l]) /\ rows[l] \in UsageRow
      /\ \A l \in D : g[l] = Charge(new[l])
      /\ IsFiniteSet(C)
  <2>1. C \subseteq DOMAIN rows
    BY <1>2
  <2> QED
    BY <1>2, <1>3, <2>1, FS_Subset DEF Ledger
<1>6. Summable(f)
  BY <1>5, ChargeIsNatural DEF Summable
<1>7. ChargedOf(new) = ChargedOf(rows) + (IF row.status = "cancelled" THEN 0 ELSE Charge(row))
  <2>1. CASE row.status = "cancelled"
    <3>1. D = C
      BY <1>2, <2>1
    <3>2. f = g
      BY <1>2, <1>3, <3>1
    <3>3. SumFunction(f) \in Nat
      BY <1>6, SumIsNatural
    <3> QED
      BY <1>4, <2>1, <3>2, <3>3
  <2>2. CASE row.status # "cancelled"
    <3>1. D = C \cup {k}
      BY <1>2, <2>2
    <3>2. g[k] = Charge(row) /\ \A l \in C : g[l] = f[l]
      BY <1>2, <1>5, <3>1
    <3>3. SumFunction(g) = SumFunction(f) + Charge(row)
      BY <1>5, <1>6, <3>1, <3>2, ChargeIsNatural, SumGrows
    <3> QED
      BY <1>4, <2>2, <3>3
  <2> QED
    BY <2>1, <2>2
<1>8. PICK E, F : /\ E = {l \in DOMAIN rows : rows[l].actual > rows[l].estimate}
                  /\ F = {l \in DOMAIN new : new[l].actual > new[l].estimate}
  OBVIOUS
<1>9. PICK p, q : /\ p = [l \in E |-> rows[l].actual - rows[l].estimate]
                  /\ q = [l \in F |-> new[l].actual - new[l].estimate]
  OBVIOUS
<1>10. ExcessOf(rows) = SumFunction(p) /\ ExcessOf(new) = SumFunction(q)
  BY <1>8, <1>9 DEF ExcessOf
<1>11. /\ DOMAIN p = E /\ DOMAIN q = F /\ k \notin E
       /\ \A l \in E : p[l] = rows[l].actual - rows[l].estimate /\ p[l] \in Nat
       /\ \A l \in F : q[l] = new[l].actual - new[l].estimate
       /\ IsFiniteSet(E)
  <2>1. E \subseteq DOMAIN rows
    BY <1>8
  <2>2. \A l \in E : rows[l] \in UsageRow /\ rows[l].actual > rows[l].estimate
    BY <1>8 DEF Ledger
  <2> QED
    BY <1>8, <1>9, <2>1, <2>2, FS_Subset DEF Ledger, UsageRow
<1>12. Summable(p)
  BY <1>11 DEF Summable
<1>13. ExcessOf(new) = ExcessOf(rows) +
                (IF row.actual > row.estimate THEN row.actual - row.estimate ELSE 0)
  <2>1. CASE ~(row.actual > row.estimate)
    <3>1. F = E
      BY <1>8, <2>1
    <3>2. p = q
      BY <1>8, <1>9, <3>1
    <3>3. SumFunction(p) \in Nat
      BY <1>12, SumIsNatural
    <3> QED
      BY <1>10, <2>1, <3>2, <3>3
  <2>2. CASE row.actual > row.estimate
    <3>1. F = E \cup {k}
      BY <1>8, <2>2
    <3>2. q[k] = row.actual - row.estimate /\ \A l \in E : q[l] = p[l]
      BY <1>8, <1>11, <3>1
    <3>3. row.actual - row.estimate \in Nat
      BY <2>2 DEF UsageRow
    <3>4. SumFunction(q) = SumFunction(p) + (row.actual - row.estimate)
      BY <1>11, <1>12, <3>1, <3>2, <3>3, SumGrows
    <3> QED
      BY <1>10, <2>2, <3>4
  <2> QED
    BY <2>1, <2>2
<1> QED
  BY <1>1, <1>7, <1>13

\* What the transactions hold and what the ledger comes to, for
\* BudgetNeedsOverlap
Resting ==
    {"start", "limited", "admitted", "refused", "answered", "unanswered", "failed", "done"}
BudgetInv ==
    /\ request \in [Requests -> [at : Resting \cup {"reserved", "called"}, row : UsageRow \cup {NoRow}]]
    /\ Ledger(ledger)
    /\ \A r \in Requests : r \in Holders <=> request[r].at \in {"reserved", "called"}
    /\ \A r \in Holders :
        /\ KeyOf[r] \notin DOMAIN ledger
        /\ Held(r).estimate = EstimateOf[RouteOf[r]]
        /\ \A s \in Holders : KeyOf[s] = KeyOf[r] => s = r
    /\ ~contended =>
        \A r \in Holders :
            /\ Holders = {r}
            /\ ChargedOf(ledger) + EstimateOf[RouteOf[r]] <= TokenBudget + ExcessOf(ledger)
    /\ ~contended => ChargedOf(ledger) <= TokenBudget + ExcessOf(ledger)

LEMMA NoRowIsNoRow == NoRow \notin UsageRow
BY UsageAssumption DEF UsageAssumption, UsageRow

\* A request that holds nothing afterwards leaves the ledger as it was.
LEMMA LettingGoKeepsBudget ==
  ASSUME BudgetInv, NEW r \in Requests, NEW place \in Resting,
         Goto(r, place, NoRow), UNCHANGED <<ledger, contended>>
  PROVE  BudgetInv'
<1>1. request' \in [Requests -> [at : Resting \cup {"reserved", "called"}, row : UsageRow \cup {NoRow}]]
  BY DEF BudgetInv, Goto
<1>2. Holders' = Holders \ {r}
  BY DEF BudgetInv, Goto, Holders, Held
<1>3. \A s \in Requests : s \in Holders' <=> request'[s].at \in {"reserved", "called"}
  BY <1>2 DEF BudgetInv, Resting, Goto
<1>4. \A s \in Holders' : Held(s)' = Held(s)
  BY <1>2 DEF Goto, Held, Holders, BudgetInv
<1>5. Ledger(ledger') /\ ChargedOf(ledger') = ChargedOf(ledger) /\ ExcessOf(ledger') = ExcessOf(ledger)
  BY DEF BudgetInv
<1>6. \A s \in Holders' : s \in Holders
  BY <1>2
<1>7. ASSUME ~contended', NEW s \in Holders'
      PROVE  /\ Holders' = {s}
             /\ ChargedOf(ledger') + EstimateOf[RouteOf[s]] <= TokenBudget + ExcessOf(ledger')
  BY <1>2, <1>5, <1>7 DEF BudgetInv
<1> QED
  BY <1>1, <1>3, <1>4, <1>5, <1>6, <1>7 DEF BudgetInv

\* A row filed at the end of a transaction was reserved within the budget.
LEMMA FilingKeepsBudget ==
  ASSUME UsageAssumption, BudgetInv, NEW r \in Holders, NEW row \in UsageRow,
         row.estimate = EstimateOf[RouteOf[r]], File(r, row),
         NEW place \in Resting, Goto(r, place, NoRow),
         UNCHANGED contended
  PROVE  BudgetInv'
<1>1. request' \in [Requests -> [at : Resting \cup {"reserved", "called"}, row : UsageRow \cup {NoRow}]]
  BY DEF BudgetInv, Goto, Holders
<1>2. Holders' = Holders \ {r}
  BY DEF BudgetInv, Goto, Holders, Held
<1>3. \A s \in Requests : s \in Holders' <=> request'[s].at \in {"reserved", "called"}
  BY <1>2 DEF BudgetInv, Resting, Goto, Holders
<1>4. \A s \in Holders' : Held(s)' = Held(s)
  BY <1>2 DEF Goto, Held, Holders, BudgetInv
<1>5. /\ DOMAIN ledger' = DOMAIN ledger \cup {KeyOf[r]} /\ ledger'[KeyOf[r]] = row
      /\ \A l \in DOMAIN ledger : ledger'[l] = ledger[l]
  BY DEF File, BudgetInv
<1>6. /\ Ledger(ledger')
      /\ ChargedOf(ledger') =
             ChargedOf(ledger) + (IF row.status = "cancelled" THEN 0 ELSE Charge(row))
      /\ ExcessOf(ledger') = ExcessOf(ledger) +
             (IF row.actual > row.estimate THEN row.actual - row.estimate ELSE 0)
  <2>1. Ledger(ledger) /\ KeyOf[r] \notin DOMAIN ledger
    BY DEF BudgetInv
  <2> QED
    BY <1>5, <2>1, FilingAdds
<1>7. ~contended => /\ Holders' = {}
                    /\ ChargedOf(ledger') <= TokenBudget + ExcessOf(ledger')
  <2>1. ChargedOf(ledger) \in Nat /\ ExcessOf(ledger) \in Nat
    BY SumsOfLedger DEF BudgetInv
  <2>2. row.actual \in Nat /\ row.estimate \in Nat /\ TokenBudget \in Nat
    BY DEF UsageRow, UsageAssumption
  <2> QED
    BY <1>2, <1>6, <2>1, <2>2 DEF BudgetInv, Charge
<1> QED
  BY <1>1, <1>2, <1>3, <1>4, <1>5, <1>6, <1>7 DEF BudgetInv

LEMMA BudgetStep ==
  ASSUME UsageAssumption, BudgetInv, [UsageNext]_usageVars
  PROVE  BudgetInv'
<1>1. CASE UNCHANGED <<ledger, request, contended>>
  <2>1. Holders' = Holders /\ \A s \in Requests : Held(s)' = Held(s)
    BY <1>1 DEF Holders, Held
  <2>2. \A s \in Holders : s \in Requests
    BY DEF Holders
  <2>3. /\ Ledger(ledger') /\ ChargedOf(ledger') = ChargedOf(ledger)
        /\ ExcessOf(ledger') = ExcessOf(ledger)
    BY <1>1 DEF BudgetInv
  <2> QED
    BY <1>1, <2>1, <2>2, <2>3 DEF BudgetInv
<1>2. ASSUME NEW r \in Requests,
             EnterRoute(r) \/ EnterWithoutRedis(r) \/ AskAgain(r) \/ CancelTurn(r) \/ RollBack(r)
      PROVE  BudgetInv'
  <2>1. PICK place \in Resting :
            Goto(r, place, NoRow) /\ UNCHANGED <<ledger, contended>>
    <3>1. CASE EnterRoute(r)
      BY <3>1 DEF EnterRoute, Resting
    <3>2. CASE EnterWithoutRedis(r)
      BY <3>2 DEF EnterWithoutRedis, Resting
    <3>3. CASE AskAgain(r) \/ CancelTurn(r) \/ RollBack(r)
      BY <3>3 DEF AskAgain, CancelTurn, RollBack, Resting
    <3> QED
      BY <1>2, <3>1, <3>2, <3>3
  <2> QED
    BY <2>1, LettingGoKeepsBudget
<1>3. ASSUME NEW r \in Requests, Reserve(r)
      PROVE  BudgetInv'
  <2>1. CASE \/ KeyOf[r] \in DOMAIN ledger
             \/ ~WithinBudget(r)
    <3>1. PICK place \in Resting :
              Goto(r, place, NoRow) /\ UNCHANGED <<ledger, contended>>
      BY <1>3, <2>1 DEF Reserve, Resting
    <3> QED
      BY <3>1, LettingGoKeepsBudget
  <2>2. CASE KeyOf[r] \notin DOMAIN ledger /\ WithinBudget(r)
    <3>1. /\ Goto(r, "reserved", Row(r, "reserved", 0))
          /\ contended' = (contended \/ Holders # {}) /\ ledger' = ledger
          /\ \A s \in Holders : KeyOf[s] # KeyOf[r]
      BY <1>3, <2>2 DEF Reserve
    <3>2. PICK row \in UsageRow : /\ row = Row(r, "reserved", 0)
                                  /\ row.estimate = EstimateOf[RouteOf[r]]
      <4>1. /\ Row(r, "reserved", 0) \in UsageRow
            /\ Row(r, "reserved", 0).estimate = EstimateOf[RouteOf[r]]
        BY DEF Row, UsageRow, UsageAssumption
      <4> QED
        BY <4>1
    <3>3. row # NoRow
      BY NoRowIsNoRow
    <3>4. request' \in [Requests -> [at : Resting \cup {"reserved", "called"}, row : UsageRow \cup {NoRow}]]
      BY <3>1, <3>2 DEF Goto, BudgetInv
    <3>5. Holders' = Holders \cup {r}
      BY <3>1, <3>2, <3>3 DEF Goto, Holders, Held, BudgetInv
    <3>6. \A s \in Requests : s \in Holders' <=> request'[s].at \in {"reserved", "called"}
      BY <3>1, <3>5 DEF Goto, BudgetInv
    <3>7. r \notin Holders
      BY <3>1
    <3>8. Held(r)' = row /\ \A s \in Holders : Held(s)' = Held(s)
      BY <3>1, <3>2, <3>7 DEF Goto, Held, Holders, BudgetInv
    <3>9. /\ Ledger(ledger') /\ ChargedOf(ledger') = ChargedOf(ledger)
          /\ ExcessOf(ledger') = ExcessOf(ledger)
      BY <3>1 DEF BudgetInv
    <3>10. \A s \in Holders' :
              /\ KeyOf[s] \notin DOMAIN ledger'
              /\ (Held(s)').estimate = EstimateOf[RouteOf[s]]
              /\ \A t \in Holders' : KeyOf[t] = KeyOf[s] => t = s
      BY <2>2, <3>1, <3>2, <3>5, <3>8 DEF BudgetInv
    <3>11. /\ ChargedOf(ledger) + EstimateOf[RouteOf[r]] <= TokenBudget
           /\ ExcessOf(ledger) \in Nat /\ ChargedOf(ledger) \in Nat
      BY <2>2, SumsOfLedger DEF WithinBudget, BudgetInv
    <3>12. ASSUME ~contended', NEW s \in Holders'
           PROVE  /\ Holders' = {s}
                  /\ ChargedOf(ledger') + EstimateOf[RouteOf[s]] <= TokenBudget + ExcessOf(ledger')
      <4>1. Holders = {} /\ s = r
        BY <3>1, <3>5, <3>12
      <4>2. EstimateOf[RouteOf[r]] \in Nat /\ TokenBudget \in Nat
        BY DEF UsageAssumption
      <4> QED
        BY <3>5, <3>9, <3>11, <4>1, <4>2
    <3> QED
      BY <3>1, <3>4, <3>6, <3>9, <3>10, <3>12 DEF BudgetInv
  <2> QED
    BY <2>1, <2>2
<1>4. ASSUME NEW r \in Requests, ProviderFails(r) \/ \E n \in Actuals : CallProvider(r, n)
      PROVE  BudgetInv'
  <2>1. r \in Holders
    BY <1>4 DEF BudgetInv, CallProvider, ProviderFails, At
  <2>2. PICK row \in UsageRow :
            /\ row.estimate = EstimateOf[RouteOf[r]]
            /\ Goto(r, "called", row) /\ UNCHANGED <<ledger, contended>>
    <3>1. Held(r) \in UsageRow /\ Held(r).estimate = EstimateOf[RouteOf[r]]
      BY <2>1 DEF BudgetInv, Holders, Held
    <3>2. ASSUME NEW n \in Actuals
          PROVE  SettledRow(r, n) \in UsageRow /\ SettledRow(r, n).estimate = EstimateOf[RouteOf[r]]
      BY <3>1 DEF SettledRow, Row, UsageRow, UsageAssumption
    <3> QED
      BY <1>4, <3>1, <3>2 DEF CallProvider, ProviderFails
  <2>3. row # NoRow
    BY NoRowIsNoRow
  <2>4. request' \in [Requests -> [at : Resting \cup {"reserved", "called"}, row : UsageRow \cup {NoRow}]]
    BY <2>2 DEF Goto, BudgetInv
  <2>5. Holders' = Holders
    BY <2>1, <2>2, <2>3 DEF Goto, Holders, Held, BudgetInv
  <2>6. \A s \in Requests : s \in Holders' <=> request'[s].at \in {"reserved", "called"}
    BY <2>1, <2>2, <2>5 DEF Goto, BudgetInv
  <2>7. Held(r)' = row /\ \A s \in Holders : s # r => Held(s)' = Held(s)
    BY <2>2 DEF Goto, Held, Holders, BudgetInv
  <2>8. \A s \in Holders' :
            /\ KeyOf[s] \notin DOMAIN ledger'
            /\ (Held(s)').estimate = EstimateOf[RouteOf[s]]
            /\ \A t \in Holders' : KeyOf[t] = KeyOf[s] => t = s
    BY <2>2, <2>5, <2>7 DEF BudgetInv
  <2>9. /\ Ledger(ledger') /\ ChargedOf(ledger') = ChargedOf(ledger)
        /\ ExcessOf(ledger') = ExcessOf(ledger)
    BY <2>2 DEF BudgetInv
  <2> QED
    BY <2>2, <2>4, <2>5, <2>6, <2>8, <2>9 DEF BudgetInv
<1>5. ASSUME NEW r \in Requests, CommitTurn(r) \/ CommitSearch(r) \/ CommitSubmit(r)
      PROVE  BudgetInv'
  <2>1. r \in Holders
    BY <1>5 DEF BudgetInv, CommitTurn, CommitSearch, CommitSubmit, At
  <2>2. Held(r) \in UsageRow /\ Held(r).estimate = EstimateOf[RouteOf[r]]
    BY <2>1 DEF BudgetInv, Held, Holders
  <2>3. /\ Row(r, "cancelled", 0) \in UsageRow
        /\ Row(r, "cancelled", 0).estimate = EstimateOf[RouteOf[r]]
    BY <2>1 DEF Row, UsageRow, UsageAssumption, Holders
  <2>4. PICK row \in UsageRow, place \in Resting :
            /\ row.estimate = EstimateOf[RouteOf[r]] /\ File(r, row)
            /\ Goto(r, place, NoRow) /\ UNCHANGED contended
    <3>1. CASE CommitTurn(r)
      BY <2>2, <3>1 DEF CommitTurn, TurnRow, Resting
    <3>2. CASE CommitSearch(r)
      BY <2>2, <2>3, <3>2 DEF CommitSearch, Resting
    <3>3. CASE CommitSubmit(r)
      BY <2>2, <3>3 DEF CommitSubmit, Resting
    <3> QED
      BY <1>5, <3>1, <3>2, <3>3
  <2> QED
    BY <2>1, <2>4, FilingKeepsBudget
<1>6. ASSUME NEW route \in DOMAIN EstimateOf, Tick(route)
      PROVE  BudgetInv'
  BY <1>1, <1>6 DEF Tick
<1>7. CASE UsageNext
  <2>1. CASE \E route \in DOMAIN EstimateOf : Tick(route)
    BY <1>6, <2>1
  <2>2. ASSUME NEW r \in Requests,
               \/ EnterRoute(r) \/ EnterWithoutRedis(r) \/ AskAgain(r) \/ Reserve(r)
               \/ \E n \in Actuals : CallProvider(r, n)
               \/ ProviderFails(r) \/ CommitTurn(r) \/ CancelTurn(r) \/ CommitSearch(r)
               \/ CommitSubmit(r) \/ RollBack(r)
        PROVE  BudgetInv'
    <3>1. CASE \/ EnterRoute(r) \/ EnterWithoutRedis(r) \/ AskAgain(r) \/ CancelTurn(r)
               \/ RollBack(r)
      BY <1>2, <3>1
    <3>2. CASE Reserve(r)
      BY <1>3, <3>2
    <3>3. CASE ProviderFails(r) \/ \E n \in Actuals : CallProvider(r, n)
      BY <1>4, <3>3
    <3>4. CASE CommitTurn(r) \/ CommitSearch(r) \/ CommitSubmit(r)
      BY <1>5, <3>4
    <3> QED
      BY <2>2, <3>1, <3>2, <3>3, <3>4
  <2> QED
    BY <1>7, <2>1, <2>2 DEF UsageNext
<1>8. CASE UNCHANGED usageVars
  BY <1>1, <1>8 DEF usageVars
<1> QED
  BY <1>7, <1>8

\* However requests interleave, fail and repeat themselves, the rows of the
\* month come to more than the budget allows, beyond what calls used over
\* their estimates, only after two transactions have held reservations at
\* once (reserve_usage compares with the committed rows alone).
THEOREM BudgetHoldsOneByOne == UsageSpec => []BudgetNeedsOverlap
<1>1. UsageInit => BudgetInv
  <2> SUFFICES ASSUME UsageInit PROVE BudgetInv
    OBVIOUS
  <2>1. Holders = {}
    BY DEF UsageInit, Holders, Held
  <2>2. Ledger(ledger) /\ DOMAIN ledger = {}
    BY FS_EmptySet DEF UsageInit, Ledger
  <2>3. ChargedOf(ledger) = 0
    <3>1. PICK f : f = [k \in {l \in DOMAIN ledger : ledger[l].status # "cancelled"}
                            |-> Charge(ledger[k])]
      OBVIOUS
    <3>2. DOMAIN f = {}
      BY <2>2, <3>1
    <3> QED
      BY <3>1, <3>2, SumOfNothing DEF ChargedOf
  <2>4. ExcessOf(ledger) \in Nat
    BY <2>2, SumsOfLedger
  <2>5. request \in [Requests -> [at : Resting \cup {"reserved", "called"}, row : UsageRow \cup {NoRow}]]
    BY DEF UsageInit, Resting
  <2>6. \A r \in Requests : request[r].at \notin {"reserved", "called"}
    BY DEF UsageInit
  <2>7. ChargedOf(ledger) <= TokenBudget + ExcessOf(ledger)
    BY <2>3, <2>4, UsageAssumption DEF UsageAssumption
  <2> QED
    BY <2>1, <2>2, <2>5, <2>6, <2>7 DEF BudgetInv
<1>2. BudgetInv /\ [UsageNext]_usageVars => BudgetInv'
  BY UsageAssumption, BudgetStep
<1>3. BudgetInv => BudgetNeedsOverlap
  BY DEF BudgetInv, BudgetNeedsOverlap, Charged, Excess, ChargedOf, ExcessOf
<1> QED
  BY <1>1, <1>2, <1>3, PTL DEF UsageSpec

(* ----------------------------- Agreements ------------------------------ *)
(* The bytes of a version outlive the deletion of other agreements that    *)
(* have them, for any agreements, objects and number of transactions that  *)
(* overlap.  The argument is the lock of the object's key: while a         *)
(* deletion holds it, no active agreement has the object and none gets it. *)

Holds(c) == work[c].kind \in {"upload", "delete"}

\* Two transactions never hold the lock of one key.
KeysAreHeldOnce ==
    \A c, d \in Transactions : Holds(c) /\ Holds(d) /\ work[c].object = work[d].object => c = d

\* What each transaction may rely on until it commits.
WorkIsTrue ==
    \A c \in Transactions :
        /\ work[c].kind = "upload" => work[c].object \in stored
        /\ work[c].kind = "delete" =>
             \A a \in AgreementIds : life[a] = "active" => work[c].object \notin Keys(a)
        /\ work[c].kind = "version" =>
             /\ work[c].object \in Objects /\ work[c].agreement \in AgreementIds
             /\ registry[work[c].object].state # "none"

\* The registry has nothing that an active agreement has as deleted, and what it
\* has as available is in S3 but for the object that is being deleted.
RegistryIsTrue ==
    /\ \A o \in Objects : registry[o] \in [state : {"none", "available", "deleted"},
                                          after : SUBSET AgreementIds]
    /\ \A a \in AgreementIds : life[a] = "active" =>
         \A o \in Keys(a) : registry[o].state # "deleted" /\ (faults = 0 => o \in stored)
    /\ faults = 0 => \A o \in Objects : registry[o].state = "available" =>
         o \in stored \/ \E c \in Transactions : work[c].kind = "delete" /\ work[c].object = o

\* The versions of an agreement have each their own content.
VersionsDiffer ==
    \A a \in AgreementIds :
        /\ versions[a] \in Seq(Objects)
        /\ life[a] = "none" => versions[a] = <<>>
        /\ IsFiniteSet(Keys(a)) /\ Cardinality(Keys(a)) = Len(versions[a])
        /\ pending[a] # {} => life[a] = "deleting"

AgreementsInv ==
    /\ DOMAIN work = Transactions /\ DOMAIN registry = Objects
    /\ DOMAIN life = AgreementIds /\ DOMAIN versions = AgreementIds
    /\ DOMAIN pending = AgreementIds /\ faults \in Nat
    /\ VersionsDiffer
    /\ KeysAreHeldOnce
    /\ WorkIsTrue
    /\ RegistryIsTrue

LEMMA AgreementsInitial == AgreementsInit => AgreementsInv
<1> SUFFICES ASSUME AgreementsInit PROVE AgreementsInv
  OBVIOUS
<1>1. \A a \in AgreementIds : versions[a] = <<>> /\ Keys(a) = {}
  BY DEF AgreementsInit, Keys
<1>2. VersionsDiffer
  <2>1. IsFiniteSet({}) /\ Cardinality({}) = 0
    BY FS_EmptySet
  <2>2. \A a \in AgreementIds : pending[a] = {}
    BY DEF AgreementsInit
  <2>3. <<>> \in Seq(Objects) /\ Len(<<>>) = 0
    OBVIOUS
  <2> QED
    BY <1>1, <2>1, <2>2, <2>3 DEF VersionsDiffer
<1>3. KeysAreHeldOnce /\ WorkIsTrue /\ RegistryIsTrue
  BY DEF AgreementsInit, KeysAreHeldOnce, WorkIsTrue, RegistryIsTrue, Holds
<1> QED
  BY <1>2, <1>3 DEF AgreementsInit, AgreementsInv

\* The keys of versions that do not change.
LEMMA SameKeys ==
  ASSUME NEW a \in AgreementIds, versions'[a] = versions[a]
  PROVE  Keys(a)' = Keys(a)
BY DEF Keys

\* The keys of an agreement are objects.
LEMMA KeysAreObjects ==
  ASSUME VersionsDiffer, NEW a \in AgreementIds, NEW o \in Keys(a)
  PROVE  o \in Objects
<1>1. PICK n \in DOMAIN versions[a] : o = versions[a][n]
  BY DEF Keys
<1>2. versions[a] \in Seq(Objects)
  BY DEF VersionsDiffer
<1> QED
  BY <1>1, <1>2

\* The keys after a version is added.
LEMMA AppendedKeys ==
  ASSUME NEW a \in AgreementIds, NEW o \in Objects, versions[a] \in Seq(Objects),
         versions'[a] = Append(versions[a], o)
  PROVE  Keys(a)' = Keys(a) \cup {o}
<1>1. /\ Len(versions'[a]) = Len(versions[a]) + 1 /\ Len(versions[a]) \in Nat
      /\ versions'[a][Len(versions[a]) + 1] = o
      /\ \A n \in 1..Len(versions[a]) : versions'[a][n] = versions[a][n]
      /\ DOMAIN versions[a] = 1..Len(versions[a])
      /\ DOMAIN versions'[a] = 1..(Len(versions[a]) + 1)
  OBVIOUS
<1>2. \A x \in Keys(a) : x \in Keys(a)'
  BY <1>1 DEF Keys
<1>3. o \in Keys(a)'
  BY <1>1 DEF Keys
<1>4. \A x \in Keys(a)' : x \in Keys(a) \cup {o}
  <2> SUFFICES ASSUME NEW n \in 1..(Len(versions[a]) + 1)
               PROVE  versions'[a][n] \in Keys(a) \cup {o}
    BY <1>1 DEF Keys
  <2>1. CASE n \in 1..Len(versions[a])
    BY <1>1, <2>1 DEF Keys
  <2>2. CASE n = Len(versions[a]) + 1
    BY <1>1, <2>2
  <2> QED
    BY <1>1, <2>1, <2>2
<1> QED
  BY <1>2, <1>3, <1>4

\* An upload puts the object and holds its key until it is recorded.
LEMMA UploadKeeps ==
  ASSUME AgreementsInv, NEW c \in Transactions,
         (\E o \in Objects : PutSource(c, o)) \/ RecordUpload(c)
  PROVE  AgreementsInv'
<1> \A a \in AgreementIds : Keys(a)' = Keys(a)
  BY SameKeys DEF PutSource, RecordUpload
<1>1. ASSUME NEW o \in Objects, PutSource(c, o) PROVE AgreementsInv'
  <2>1. /\ work[c].kind = "idle" /\ KeyFree(o) /\ stored' = stored \cup {o}
        /\ work' = [work EXCEPT ![c] = [kind |-> "upload", object |-> o]]
        /\ UNCHANGED <<life, columns, versions, registry, pending, faults>>
    BY <1>1 DEF PutSource, Is
  <2>2. VersionsDiffer' /\ KeysAreHeldOnce'
    BY <2>1 DEF AgreementsInv, VersionsDiffer, KeysAreHeldOnce, Holds, KeyFree
  <2>3. WorkIsTrue' /\ RegistryIsTrue'
    BY <2>1 DEF AgreementsInv, WorkIsTrue, RegistryIsTrue
  <2> QED
    BY <2>1, <2>2, <2>3 DEF AgreementsInv
<1>2. CASE RecordUpload(c)
  <2> DEFINE o == work[c].object
  <2>1. /\ work[c].kind = "upload"
        /\ registry' = [registry EXCEPT ![o] =
             [state |-> "available", after |-> {a \in AgreementIds : life[a] = "deleting"}]]
        /\ work' = [work EXCEPT ![c] = [kind |-> "idle"]]
        /\ UNCHANGED <<life, columns, versions, stored, pending, faults>>
    BY <1>2 DEF RecordUpload, Is, Idle
  <2>2. VersionsDiffer' /\ KeysAreHeldOnce'
    BY <2>1 DEF AgreementsInv, VersionsDiffer, KeysAreHeldOnce, Holds
  <2>3. \A p \in Objects : registry'[p].state = IF p = o THEN "available" ELSE registry[p].state
    BY <2>1 DEF AgreementsInv
  <2>4. WorkIsTrue'
    BY <2>1, <2>3 DEF AgreementsInv, WorkIsTrue
  <2>5. RegistryIsTrue'
    <3>1. \A a \in AgreementIds : \A p \in Keys(a) : p \in Objects
      BY KeysAreObjects DEF AgreementsInv
    <3>2. o \in stored
      BY <2>1 DEF AgreementsInv, WorkIsTrue
    <3> QED
      BY <2>1, <2>3, <3>1, <3>2 DEF AgreementsInv, RegistryIsTrue
  <2> QED
    BY <2>1, <2>2, <2>4, <2>5 DEF AgreementsInv
<1> QED
  BY <1>1, <1>2

\* A new agreement, or a new version, of an object whose key is free.
LEMMA InsertKeeps ==
  ASSUME AgreementsInv, NEW a \in AgreementIds, NEW o \in Objects, KeyFree(o),
         registry[o].state # "deleted", faults = 0 => o \in stored, o \notin Keys(a),
         versions' = [versions EXCEPT ![a] = Append(versions[a], o)],
         DOMAIN life' = AgreementIds, life'[a] = "active", pending[a] = {},
         \A b \in AgreementIds : b # a => life'[b] = life[b],
         life[a] = "active" \/ Keys(a) = {},
         \A c \in Transactions : work'[c] = work[c] \/ work'[c].kind = "idle",
         DOMAIN work' = Transactions,
         \A c \in Transactions : work[c].kind = "delete" => work'[c] = work[c],
         UNCHANGED <<registry, stored, pending, faults>>
  PROVE  AgreementsInv'
<1> \A b \in AgreementIds : b # a => Keys(b)' = Keys(b)
  BY SameKeys DEF AgreementsInv
<1>1. Keys(a)' = Keys(a) \cup {o}
  BY AppendedKeys DEF AgreementsInv, VersionsDiffer
<1>2. VersionsDiffer'
  <2>1. /\ versions'[a] \in Seq(Objects)
        /\ Len(versions'[a]) = Len(versions[a]) + 1
    BY DEF AgreementsInv, VersionsDiffer
  <2>2. IsFiniteSet(Keys(a)) /\ Cardinality(Keys(a)) = Len(versions[a])
    BY DEF AgreementsInv, VersionsDiffer
  <2>3. IsFiniteSet(Keys(a) \cup {o}) /\ Cardinality(Keys(a) \cup {o}) = Len(versions[a]) + 1
    <3> DEFINE K == Keys(a)
    <3>1. IsFiniteSet(K) /\ o \notin K
      BY <2>2
    <3> HIDE DEF K
    <3>2. IsFiniteSet(K \cup {o}) /\ Cardinality(K \cup {o}) = Cardinality(K) + 1
      BY <3>1, FS_AddElement
    <3> QED
      BY <2>2, <3>2 DEF K
  <2>4. IsFiniteSet(Keys(a)') /\ Cardinality(Keys(a)') = Len(versions'[a])
    BY <1>1, <2>1, <2>3
  <2>5. ASSUME NEW b \in AgreementIds, b # a
        PROVE  versions'[b] = versions[b] /\ Keys(b)' = Keys(b) /\ life'[b] = life[b]
    BY <2>5 DEF AgreementsInv
  <2> QED
    BY <2>1, <2>4, <2>5 DEF AgreementsInv, VersionsDiffer
<1>3. KeysAreHeldOnce'
  BY DEF AgreementsInv, KeysAreHeldOnce, Holds
<1>4. WorkIsTrue'
  <2>1. \A c \in Transactions : work[c].kind = "delete" => work[c].object # o
    BY DEF KeyFree
  <2>2. ASSUME NEW c \in Transactions, work'[c].kind = "delete",
               NEW b \in AgreementIds, life'[b] = "active"
        PROVE  work[c].object \notin Keys(b)' /\ work'[c] = work[c]
    <3>1. work'[c] = work[c] /\ work[c].object # o
      BY <2>1, <2>2
    <3>2. CASE b = a
      <4>1. work[c].object \notin Keys(a)
        BY <2>2, <3>1 DEF AgreementsInv, WorkIsTrue
      <4> QED
        BY <1>1, <3>1, <3>2, <4>1
    <3>3. CASE b # a
      BY <2>2, <3>1, <3>3 DEF AgreementsInv, WorkIsTrue
    <3> QED
      BY <3>1, <3>2, <3>3
  <2> QED
    BY <2>2 DEF AgreementsInv, WorkIsTrue
<1>5. RegistryIsTrue'
  <2>1. \A b \in AgreementIds : life'[b] = "active" =>
          \A p \in Keys(b)' : registry[p].state # "deleted" /\ (faults = 0 => p \in stored)
    BY <1>1 DEF AgreementsInv, RegistryIsTrue
  <2>2. \A c \in Transactions : work[c].kind = "delete" => work'[c] = work[c]
    OBVIOUS
  <2> QED
    BY <2>1, <2>2 DEF AgreementsInv, RegistryIsTrue
<1> QED
  BY <1>2, <1>3, <1>4, <1>5 DEF AgreementsInv

\* Every other end of a request leaves versions and objects alone.
LEMMA RequestEndKeeps ==
  ASSUME AgreementsInv, NEW c \in Transactions, Idle(c), faults' \in Nat,
         work[c].kind = "delete" => faults' # 0, faults # 0 => faults' # 0,
         UNCHANGED <<life, versions, registry, stored, pending>>
  PROVE  AgreementsInv'
<1> \A a \in AgreementIds : Keys(a)' = Keys(a)
  BY SameKeys
<1>1. work' = [work EXCEPT ![c] = [kind |-> "idle"]]
  BY DEF Idle
<1>2. VersionsDiffer' /\ KeysAreHeldOnce' /\ WorkIsTrue'
  BY <1>1 DEF AgreementsInv, VersionsDiffer, KeysAreHeldOnce, Holds, WorkIsTrue
<1>3. RegistryIsTrue'
  BY <1>1 DEF AgreementsInv, RegistryIsTrue
<1> QED
  BY <1>1, <1>2, <1>3 DEF AgreementsInv

\* What the registry has as available, and nobody deletes, is in S3.
LEMMA FreeIsStored ==
  ASSUME RegistryIsTrue, NEW o \in Objects, KeyFree(o), registry[o].state \notin {"none", "deleted"}
  PROVE  faults = 0 => o \in stored
BY DEF RegistryIsTrue, KeyFree

LEMMA ReplaceKeeps ==
  ASSUME AgreementsInv, NEW c \in Transactions, Replace(c)
  PROVE  AgreementsInv'
<1> DEFINE a == work[c].agreement
           o == work[c].object
           inserts == /\ life[a] = "active" /\ work[c].kind = "version"
                      /\ ObjectAcceptable(o) /\ Insertable(a, work[c].number, o)
<1>1. /\ Idle(c) /\ work[c].kind # "delete"
      /\ UNCHANGED <<life, registry, stored, pending, faults>>
      /\ \/ versions' = versions
         \/ inserts /\ versions' = [versions EXCEPT ![a] = Append(@, o)]
  BY AgreementsAssumption DEF Replace
<1>2. CASE versions' = versions
  BY <1>1, <1>2, RequestEndKeeps DEF AgreementsInv
<1>3. CASE inserts /\ versions' = [versions EXCEPT ![a] = Append(@, o)] /\ versions' # versions
  <2>1. a \in AgreementIds
    BY <1>3 DEF AgreementsInv, WorkIsTrue
  <2>2. o \in Objects /\ registry[o].state # "deleted" /\ KeyFree(o)
    BY <1>3 DEF AgreementsInv, WorkIsTrue, ObjectAcceptable
  <2>7. faults = 0 => o \in stored
    <3>1. registry[o].state # "none"
      BY <1>3 DEF AgreementsInv, WorkIsTrue
    <3> QED
      BY <2>2, <3>1, FreeIsStored DEF AgreementsInv
  <2>3. o \notin Keys(a)
    BY <1>3 DEF Insertable, Keys
  <2>4. /\ DOMAIN life' = AgreementIds /\ life'[a] = "active" /\ pending[a] = {}
        /\ \A b \in AgreementIds : b # a => life'[b] = life[b]
    BY <1>1, <1>3, <2>1 DEF AgreementsInv, VersionsDiffer
  <2>5. work' = [work EXCEPT ![c] = [kind |-> "idle"]]
    BY <1>1 DEF Idle
  <2>6. /\ \A d \in Transactions : work'[d] = work[d] \/ work'[d].kind = "idle"
        /\ DOMAIN work' = Transactions
        /\ \A d \in Transactions : work[d].kind = "delete" => work'[d] = work[d]
    BY <1>1, <2>5 DEF AgreementsInv
  <2> QED
    BY <1>1, <1>3, <2>1, <2>2, <2>3, <2>4, <2>6, <2>7, InsertKeeps
<1> QED
  BY <1>1, <1>2, <1>3

LEMMA CreateKeeps ==
  ASSUME AgreementsInv, NEW a \in AgreementIds, NEW o \in Objects, CreateAgreement(a, o)
  PROVE  AgreementsInv'
<1>1. versions[a] = <<>> /\ pending[a] = {}
  BY DEF CreateAgreement, AgreementsInv, VersionsDiffer
<1>2. Keys(a) = {} /\ Append(versions[a], o) = <<o>>
  BY <1>1 DEF Keys
<1>3. KeyFree(o) /\ registry[o].state # "deleted"
  BY DEF CreateAgreement, ObjectAcceptable
<1>4. faults = 0 => o \in stored
  <2>1. o \in stored \/ registry[o].state # "none"
    BY DEF CreateAgreement
  <2> QED
    BY <1>3, <2>1, FreeIsStored DEF AgreementsInv
<1> QED
  BY <1>1, <1>2, <1>3, <1>4, InsertKeeps DEF CreateAgreement, AgreementsInv

\* The deletion of an object holds its key, and no active agreement has it:
\* neither another one nor, being deleted, its own.
LEMMA DeleteSourceKeeps ==
  ASSUME AgreementsInv, NEW c \in Transactions, NEW a \in AgreementIds,
         NEW o \in Objects, DeleteSource(c, a, o)
  PROVE  AgreementsInv'
<1> \A b \in AgreementIds : Keys(b)' = Keys(b)
  BY SameKeys DEF DeleteSource
<1>1. /\ work[c].kind = "idle" /\ KeyFree(o) /\ stored' = stored \ {o}
      /\ work' = [work EXCEPT ![c] = [kind |-> "delete", agreement |-> a, object |-> o]]
      /\ o \in pending[a] /\ ~ Referenced(a, o)
      /\ UNCHANGED <<life, columns, versions, registry, pending, faults>>
  BY DEF DeleteSource, Is
<1>2. \A b \in AgreementIds : life[b] = "active" => o \notin Keys(b)
  BY <1>1 DEF AgreementsInv, VersionsDiffer, Referenced
<1>3. VersionsDiffer' /\ KeysAreHeldOnce'
  BY <1>1 DEF AgreementsInv, VersionsDiffer, KeysAreHeldOnce, Holds, KeyFree
<1>4. WorkIsTrue'
  BY <1>1, <1>2 DEF AgreementsInv, WorkIsTrue, KeyFree
<1>5. RegistryIsTrue'
  <2>1. \A b \in AgreementIds : life[b] = "active" => \A p \in Keys(b) :
          registry[p].state # "deleted" /\ (faults = 0 => p \in stored')
    BY <1>1, <1>2 DEF AgreementsInv, RegistryIsTrue
  <2>2. faults = 0 => \A p \in Objects : registry[p].state = "available" =>
          p \in stored' \/ \E x \in Transactions : work'[x].kind = "delete" /\ work'[x].object = p
    <3> SUFFICES ASSUME faults = 0, NEW p \in Objects, registry[p].state = "available",
                        p \notin stored'
                 PROVE  \E x \in Transactions : work'[x].kind = "delete" /\ work'[x].object = p
      OBVIOUS
    <3>1. CASE p = o
      BY <1>1, <3>1 DEF AgreementsInv
    <3>2. CASE p # o
      <4>1. PICK x \in Transactions : work[x].kind = "delete" /\ work[x].object = p
        BY <1>1, <3>2 DEF AgreementsInv, RegistryIsTrue
      <4>2. work'[x] = work[x]
        BY <1>1, <4>1 DEF AgreementsInv
      <4> QED
        BY <4>1, <4>2
    <3> QED
      BY <3>1, <3>2
  <2> QED
    BY <1>1, <2>1, <2>2 DEF AgreementsInv, RegistryIsTrue
<1> QED
  BY <1>1, <1>3, <1>4, <1>5 DEF AgreementsInv

LEMMA CommitDeleteKeeps ==
  ASSUME AgreementsInv, NEW c \in Transactions, CommitDelete(c)
  PROVE  AgreementsInv'
<1> \A b \in AgreementIds : Keys(b)' = Keys(b)
  BY SameKeys DEF CommitDelete
<1> DEFINE o == work[c].object
<1>1. /\ work[c].kind = "delete"
      /\ registry' = [registry EXCEPT ![o] = [state |-> "deleted", after |-> {}]]
      /\ pending' = [pending EXCEPT ![work[c].agreement] = @ \ {o}]
      /\ work' = [work EXCEPT ![c] = [kind |-> "idle"]]
      /\ UNCHANGED <<life, columns, versions, stored, faults>>
  BY DEF CommitDelete, Is, Idle
<1>2. \A p \in Objects : registry'[p].state = IF p = o THEN "deleted" ELSE registry[p].state
  BY <1>1 DEF AgreementsInv
<1>3. \A a \in AgreementIds : life[a] = "active" => o \notin Keys(a)
  BY <1>1 DEF AgreementsInv, WorkIsTrue
<1>4. VersionsDiffer' /\ KeysAreHeldOnce'
  BY <1>1 DEF AgreementsInv, VersionsDiffer, KeysAreHeldOnce, Holds
<1>5. WorkIsTrue'
  BY <1>1, <1>2 DEF AgreementsInv, WorkIsTrue
<1>6. RegistryIsTrue'
  <2>1. \A a \in AgreementIds : \A p \in Keys(a) : p \in Objects
    BY KeysAreObjects DEF AgreementsInv
  <2> QED
    BY <1>1, <1>2, <1>3, <2>1 DEF AgreementsInv, RegistryIsTrue
<1> QED
  BY <1>1, <1>4, <1>5, <1>6 DEF AgreementsInv

\* The agreement rows of a deletion: accepted, an object preserved, erased.
LEMMA DeletionKeeps ==
  ASSUME AgreementsInv, NEW a \in AgreementIds,
         \/ AcceptDeletion(a) \/ Erase(a)
         \/ \E o \in Objects : PreserveSource(a, o)
  PROVE  AgreementsInv'
<1>1. /\ UNCHANGED <<stored, work, faults>>
      /\ DOMAIN registry' = Objects
      /\ DOMAIN life' = AgreementIds /\ DOMAIN versions' = AgreementIds
      /\ DOMAIN pending' = AgreementIds
      /\ \/ registry' = registry
         \/ registry' = [o \in Objects |-> [registry[o] EXCEPT !.after = @ \ {a}]]
  BY DEF AgreementsInv, AcceptDeletion, Erase, PreserveSource
<1>7. \A o \in Objects :
        /\ registry'[o] \in [state : {"none", "available", "deleted"},
                             after : SUBSET AgreementIds]
        /\ registry'[o].state = registry[o].state
  BY <1>1 DEF AgreementsInv, RegistryIsTrue
<1>2. \A b \in AgreementIds :
        /\ life'[b] = "active" => life[b] = "active"
        /\ life'[b] = "none" => life[b] = "none"
        /\ pending'[b] # {} => life'[b] = "deleting"
        /\ versions'[b] = versions[b] \/ (versions'[b] = <<>> /\ life'[b] = "erased")
  BY DEF AgreementsInv, VersionsDiffer, AcceptDeletion, Erase, PreserveSource
<1>3. \A b \in AgreementIds : Keys(b)' = Keys(b) \/ (Keys(b)' = {} /\ life'[b] = "erased")
  BY <1>2, SameKeys DEF Keys
<1>4. VersionsDiffer'
  <2>1. IsFiniteSet({}) /\ Cardinality({}) = 0 /\ <<>> \in Seq(Objects) /\ Len(<<>>) = 0
    BY FS_EmptySet
  <2> SUFFICES ASSUME NEW b \in AgreementIds
               PROVE  /\ versions'[b] \in Seq(Objects)
                      /\ life'[b] = "none" => versions'[b] = <<>>
                      /\ IsFiniteSet(Keys(b)') /\ Cardinality(Keys(b)') = Len(versions'[b])
                      /\ pending'[b] # {} => life'[b] = "deleting"
    BY DEF VersionsDiffer
  <2>2. CASE versions'[b] = versions[b]
    <3>1. Keys(b)' = Keys(b)
      BY <2>2, SameKeys
    <3> QED
      BY <1>2, <2>2, <3>1 DEF AgreementsInv, VersionsDiffer
  <2>3. CASE versions'[b] = <<>>
    <3>1. Keys(b)' = {}
      BY <2>3 DEF Keys
    <3> QED
      BY <1>2, <2>1, <2>3, <3>1
  <2> QED
    BY <1>2, <2>2, <2>3
<1>5. KeysAreHeldOnce' /\ WorkIsTrue'
  BY <1>1, <1>2, <1>3, <1>7 DEF AgreementsInv, KeysAreHeldOnce, Holds, WorkIsTrue
<1>6. RegistryIsTrue'
  BY <1>1, <1>2, <1>3, <1>7, KeysAreObjects DEF AgreementsInv, RegistryIsTrue
<1> QED
  BY <1>1, <1>4, <1>5, <1>6 DEF AgreementsInv

LEMMA AgreementsStep == AgreementsInv /\ [AgreementsNext]_agreementVars => AgreementsInv'
<1> SUFFICES ASSUME AgreementsInv, [AgreementsNext]_agreementVars PROVE AgreementsInv'
  OBVIOUS
<1>1. ASSUME NEW c \in Transactions, NEW a \in AgreementIds, NEW kind, NEW o,
             kind = "version" => o \in Objects, ReadAgreement(c, a, kind, o),
             kind \in {"version"} \cup Rewrites
      PROVE  AgreementsInv'
  <2> \A b \in AgreementIds : Keys(b)' = Keys(b)
    BY <1>1, SameKeys DEF ReadAgreement
  <2>1. /\ work[c].kind = "idle"
        /\ work' = [work EXCEPT ![c] =
             [kind |-> kind, agreement |-> a, object |-> o,
              read |-> columns[a], number |-> Len(versions[a]) + 1]]
        /\ kind = "version" => registry[o].state # "none"
        /\ kind \notin {"upload", "delete"}
        /\ UNCHANGED <<life, columns, versions, registry, stored, pending, faults>>
    BY <1>1, AgreementsAssumption DEF ReadAgreement, Is
  <2>2. VersionsDiffer' /\ KeysAreHeldOnce'
    BY <2>1 DEF AgreementsInv, VersionsDiffer, KeysAreHeldOnce, Holds
  <2>3. WorkIsTrue'
    BY <1>1, <2>1 DEF AgreementsInv, WorkIsTrue
  <2>4. RegistryIsTrue'
    BY <2>1 DEF AgreementsInv, RegistryIsTrue
  <2> QED
    BY <2>1, <2>2, <2>3, <2>4 DEF AgreementsInv
<1>2. ASSUME NEW c \in Transactions, RollBackWork(c) PROVE AgreementsInv'
  BY <1>2, RequestEndKeeps DEF RollBackWork, Is, AgreementsInv
<1>3. CASE UNCHANGED agreementVars
  BY <1>3, SameKeys DEF agreementVars, AgreementsInv, VersionsDiffer, KeysAreHeldOnce, Holds,
     WorkIsTrue, RegistryIsTrue
<1> QED
  BY <1>1, <1>2, <1>3, UploadKeeps, ReplaceKeeps, CreateKeeps, DeleteSourceKeeps,
     CommitDeleteKeeps, DeletionKeeps DEF AgreementsNext

LEMMA AgreementsAlways == AgreementsSpec => []AgreementsInv
BY AgreementsInitial, AgreementsStep, PTL DEF AgreementsSpec

\* No version of an active agreement loses its bytes to the deletion of another
\* that shares them (delete_source_if_unreferenced and create_version meet at the
\* key's lock), unless a deletion's transaction rolled back after the S3 delete.
THEOREM SharedSourcesAreKept == AgreementsSpec => []SharedSourcesSurvive
<1>1. AgreementsInv => SharedSourcesSurvive
  <2> SUFFICES ASSUME AgreementsInv, faults = 0, NEW a \in AgreementIds, life[a] = "active",
                      NEW o \in Keys(a)
               PROVE  o \in stored
    BY DEF SharedSourcesSurvive, Dangling
  <2>1. o \in Objects
    BY KeysAreObjects DEF AgreementsInv
  <2> QED
    BY <2>1 DEF AgreementsInv, RegistryIsTrue, WorkIsTrue
<1> QED
  BY <1>1, AgreementsAlways, PTL

\* A sequence with one more element begins with the sequence.
LEMMA AppendKeepsPrefix ==
  ASSUME NEW s \in Seq(Objects), NEW o \in Objects
  PROVE  SubSeq(Append(s, o), 1, Len(s)) = s
<1> DEFINE t == Append(s, o)
<1>1. t \in Seq(Objects) /\ Len(t) = Len(s) + 1 /\ \A i \in 1..Len(s) : t[i] = s[i]
  BY AppendProperties
<1> HIDE DEF t
<1>2. Len(s) \in Nat
  OBVIOUS
<1>3. /\ SubSeq(t, 1, Len(s)) \in Seq(Objects)
      /\ Len(SubSeq(t, 1, Len(s))) = Len(s)
      /\ \A i \in 1..Len(s) : SubSeq(t, 1, Len(s))[i] = s[i]
  <2>1. 1 \in 1..(Len(t) + 1) /\ Len(s) \in 0..Len(t)
    BY <1>1, <1>2
  <2>2. /\ SubSeq(t, 1, Len(s)) \in Seq(Objects)
        /\ Len(SubSeq(t, 1, Len(s))) = IF 1 <= Len(s) THEN Len(s) - 1 + 1 ELSE 0
        /\ \A i \in 1..(Len(s) - 1 + 1) : SubSeq(t, 1, Len(s))[i] = t[1 + i - 1]
    BY <1>1, <2>1, SubSeqProperties
  <2>3. \A i \in 1..Len(s) : SubSeq(t, 1, Len(s))[i] = t[i]
    BY <1>2, <2>2
  <2> QED
    BY <1>1, <1>2, <2>2, <2>3
<1> QED
  BY <1>3, SeqEqual DEF t

\* What a step does to the versions of an agreement that stays.
LEMMA VersionsGrow ==
  ASSUME AgreementsInv, AgreementsInv', [AgreementsNext]_agreementVars,
         NEW a \in AgreementIds, life'[a] = "active"
  PROVE  \/ versions'[a] = versions[a]
         \/ \E o \in Objects : versions'[a] = Append(versions[a], o)
<1>1. ASSUME NEW b \in AgreementIds, NEW o \in Objects, CreateAgreement(b, o)
      PROVE  \/ versions'[a] = versions[a]
             \/ \E p \in Objects : versions'[a] = Append(versions[a], p)
  <2>1. versions[b] = <<>> /\ versions' = [versions EXCEPT ![b] = <<o>>]
    BY <1>1 DEF CreateAgreement, AgreementsInv, VersionsDiffer
  <2>2. versions' = [versions EXCEPT ![b] = Append(versions[b], o)]
    BY <2>1
  <2> QED
    BY <2>2 DEF AgreementsInv
<1>2. ASSUME NEW c \in Transactions, Replace(c)
      PROVE  \/ versions'[a] = versions[a]
             \/ \E p \in Objects : versions'[a] = Append(versions[a], p)
  <2>1. \/ versions' = versions
        \/ /\ work[c].kind = "version"
           /\ versions' = [versions EXCEPT ![work[c].agreement] = Append(@, work[c].object)]
    BY <1>2 DEF Replace
  <2> QED
    BY <2>1 DEF AgreementsInv, WorkIsTrue
<1>3. ASSUME NEW b \in AgreementIds, Erase(b) PROVE versions'[a] = versions[a]
  BY <1>3 DEF Erase, AgreementsInv
<1>4. CASE UNCHANGED agreementVars
  BY <1>4 DEF agreementVars
<1> QED
  BY <1>1, <1>2, <1>3, <1>4, ZenonT(40) DEF AgreementsNext, PutSource, DeleteSource, ReadAgreement,
     RecordUpload, CommitDelete, RollBackWork, AcceptDeletion, PreserveSource

\* The versions of an agreement that stays are only added to, and have each a
\* content of its own: of two uploads that overlap one is refused by the unique
\* keys of agreement_versions.
THEOREM LineageStaysLinear == AgreementsSpec => LineageIsLinear
<1>1. ASSUME AgreementsInv, AgreementsInv', [AgreementsNext]_agreementVars,
             NEW a \in AgreementIds, life'[a] = "active"
      PROVE  /\ Len(versions[a]) <= Len(versions'[a])
             /\ SubSeq(versions'[a], 1, Len(versions[a])) = versions[a]
             /\ Cardinality(Keys(a)') = Len(versions'[a])
  <2>1. versions[a] \in Seq(Objects) /\ Len(versions[a]) \in Nat
    BY <1>1 DEF AgreementsInv, VersionsDiffer
  <2>2. Cardinality(Keys(a)') = Len(versions'[a])
    BY <1>1 DEF AgreementsInv, VersionsDiffer
  <2>3. CASE versions'[a] = versions[a]
    BY <2>1, <2>2, <2>3, SubSeqFull
  <2>4. ASSUME NEW o \in Objects, versions'[a] = Append(versions[a], o)
        PROVE  /\ Len(versions[a]) <= Len(versions'[a])
               /\ SubSeq(versions'[a], 1, Len(versions[a])) = versions[a]
    BY <2>1, <2>4, AppendKeepsPrefix, AppendProperties
  <2> QED
    BY <1>1, <2>2, <2>3, <2>4, VersionsGrow
<1>2. AgreementsInv /\ AgreementsInv' /\ [AgreementsNext]_agreementVars =>
        [\A a \in AgreementIds : life'[a] = "active" =>
           /\ Len(versions[a]) <= Len(versions'[a])
           /\ SubSeq(versions'[a], 1, Len(versions[a])) = versions[a]
           /\ Cardinality(Keys(a)') = Len(versions'[a])]_agreementVars
  BY <1>1
<1> QED
  BY <1>2, AgreementsAlways, PTL DEF AgreementsSpec, LineageIsLinear

(* --------------------------- Retrieval index --------------------------- *)
(* An agreement that the reindex job of the active configuration has dealt *)
(* with is found in no earlier space, for any number of configurations,    *)
(* promotions, builds and workers.  The argument is the agreement's lock:  *)
(* whoever writes a vector when the job ends has read the configuration    *)
(* that is active.                                                         *)

Writing(w) == sink[w].step = "write"

\* An agreement has one active build at most.
OneActiveBuild ==
    \A d \in Documents : \A s, t \in Texts :
        build[d][s] = "active" /\ build[d][t] = "active" => s = t

\* The lock of an agreement has one holder.
OneWriter ==
    \A w, x \in Sinks :
        Writing(w) /\ Writing(x) /\ sink[w].document = sink[x].document => w = x

\* What is found of an agreement that was dealt with is in the active space,
\* and so is what a normal job is about to write.
CaughtUpIsCurrent ==
    \A d \in caughtUp :
        /\ \A s \in Texts : build[d][s] = "active" =>
             vector[d][s] \in {Resolved, "none", "unavailable"}
        /\ \A w \in Sinks : Writing(w) /\ sink[w].document = d =>
             (sink[w].job = "normal" => sink[w].with = Resolved)

\* The job of a promotion writes vectors of its configuration.
JobsWriteTheirOwn ==
    \A w \in Sinks : Writing(w) =>
        /\ sink[w].job # "normal" => sink[w].with = sink[w].job
        /\ sink[w].source \in Texts

IndexInv ==
    /\ DOMAIN build = Documents /\ DOMAIN vector = Documents
    /\ \A d \in Documents : DOMAIN build[d] = Texts /\ DOMAIN vector[d] = Texts
    /\ DOMAIN sink = Sinks /\ caughtUp \subseteq Documents
    /\ \A w \in Sinks : sink[w].step # "idle" => sink[w].document \in Documents
    /\ analysed \subseteq Documents \X Texts
    /\ \A job \in reindexing : job[2] \in Documents
    /\ promotions \in Seq([of : Configurations, done : BOOLEAN, builds : SUBSET (Documents \X Texts)])
    /\ OneActiveBuild /\ OneWriter /\ CaughtUpIsCurrent /\ JobsWriteTheirOwn

\* The active configuration is that of the promotions.
LEMMA SameResolved ==
  ASSUME promotions' = promotions
  PROVE  Resolved' = Resolved
BY DEF Resolved, Promoted

LEMMA IndexInitial == IndexInit => IndexInv
BY DEF IndexInit, IndexInv, OneActiveBuild, OneWriter, CaughtUpIsCurrent, JobsWriteTheirOwn,
   Writing, Asleep

\* A worker that neither writes nor begins to leaves what the others rely on.
LEMMA SinkMoves ==
  ASSUME IndexInv, NEW w \in Sinks, NEW row, row.step # "write",
         row.step # "idle" => row.document \in Documents,
         sink' = [sink EXCEPT ![w] = row],
         UNCHANGED <<build, vector, promotions, analysed, reindexing, caughtUp>>
  PROVE  IndexInv'
<1>1. OneWriter'
  BY DEF IndexInv, OneWriter, Writing
<1>2. CaughtUpIsCurrent'
  BY SameResolved DEF IndexInv, CaughtUpIsCurrent, Writing
<1>3. JobsWriteTheirOwn'
  BY DEF IndexInv, JobsWriteTheirOwn, Writing
<1>4. OneActiveBuild'
  BY DEF IndexInv, OneActiveBuild
<1> QED
  BY <1>1, <1>2, <1>3, <1>4 DEF IndexInv

LEMMA IndexRests ==
  ASSUME IndexInv,
         UNCHANGED <<build, vector, promotions, analysed, reindexing, sink, caughtUp>>
  PROVE  IndexInv'
BY SameResolved DEF IndexInv, OneActiveBuild, OneWriter, CaughtUpIsCurrent, JobsWriteTheirOwn, Writing

\* The purge of an agreement leaves it without builds.
LEMMA IndexPurgeKeeps ==
  ASSUME IndexInv, NEW d \in Documents, PurgeIndex(d)
  PROVE  IndexInv'
<1>1. /\ build' = [build EXCEPT ![d] = [s \in Texts |-> "none"]]
      /\ vector' = [vector EXCEPT ![d] = [s \in Texts |-> "none"]]
      /\ analysed' \subseteq analysed /\ reindexing' \subseteq reindexing
      /\ UNCHANGED <<document, configuration, promotions, sink, caughtUp>>
  BY DEF PurgeIndex
<1>2. /\ \A t \in Texts : build'[d][t] = "none" /\ vector'[d][t] = "none"
      /\ \A e \in Documents : e # d => build'[e] = build[e] /\ vector'[e] = vector[e]
      /\ DOMAIN build'[d] = Texts /\ DOMAIN vector'[d] = Texts
  BY <1>1 DEF IndexInv
<1>3. OneActiveBuild'
  BY <1>2 DEF IndexInv, OneActiveBuild
<1>4. OneWriter' /\ JobsWriteTheirOwn'
  BY <1>1 DEF IndexInv, OneWriter, JobsWriteTheirOwn, Writing
<1>5. CaughtUpIsCurrent'
  <2>1. Resolved' = Resolved
    BY <1>1, SameResolved
  <2> QED
    BY <1>1, <1>2, <2>1 DEF IndexInv, CaughtUpIsCurrent, Writing
<1> QED
  BY <1>1, <1>2, <1>3, <1>4, <1>5 DEF IndexInv

\* A promotion that has begun changes nothing for the others.
LEMMA PromoteReadKeeps ==
  ASSUME IndexInv, NEW c \in Configurations, PromoteRead(c)
  PROVE  IndexInv'
<1> DEFINE Promotion == [of : Configurations, done : BOOLEAN, builds : SUBSET (Documents \X Texts)]
           entry == [of |-> c, done |-> FALSE,
                     builds |-> {b \in Documents \X Texts :
                                    document[b[1]] = "active" /\ build[b[1]][b[2]] = "active"}]
<1>1. /\ promotions' = Append(promotions, entry)
      /\ UNCHANGED <<document, build, vector, configuration, analysed, reindexing, sink, caughtUp>>
  BY DEF PromoteRead
<1>2. entry \in Promotion /\ entry.done = FALSE
  OBVIOUS
<1>3. promotions \in Seq(Promotion)
  BY DEF IndexInv
<1> HIDE DEF entry, Promotion
<1>4. /\ promotions' \in Seq(Promotion)
      /\ DOMAIN promotions = 1..Len(promotions) /\ Len(promotions) \in Nat
      /\ DOMAIN promotions' = 1..(Len(promotions) + 1)
      /\ \A n \in DOMAIN promotions : promotions'[n] = promotions[n]
      /\ promotions'[Len(promotions) + 1] = entry
  BY <1>1, <1>2, <1>3
<1>5. Promoted' = Promoted
  <2>1. \A n \in DOMAIN promotions' : promotions'[n].done <=>
          n \in DOMAIN promotions /\ promotions[n].done
    BY <1>2, <1>4
  <2> QED
    BY <1>4, <2>1 DEF Promoted
<1>6. Resolved' = Resolved
  <2>1. \A m \in Promoted : promotions'[m] = promotions[m]
    BY <1>4 DEF Promoted
  <2> HIDE DEF entry
  <2>2. Promoted = {} => Resolved' = Resolved
    BY <1>5 DEF Resolved
  <2>3. Promoted # {} => Resolved' = Resolved
    <3>1. Promoted # {} => /\ Resolved = promotions[Max(Promoted)].of
                           /\ Resolved' = promotions'[Max(Promoted)].of
      BY <1>5 DEF Resolved
    <3>2. Promoted # {} => Max(Promoted) \in Promoted
      <4>1. Promoted \in SUBSET (1..Len(promotions))
        BY <1>4 DEF Promoted
      <4> QED
        BY <1>4, <4>1, GreatestExists
    <3> QED
      BY <2>1, <3>1, <3>2
  <2> QED
    BY <2>2, <2>3
<1>7. OneActiveBuild' /\ OneWriter' /\ CaughtUpIsCurrent' /\ JobsWriteTheirOwn'
  BY <1>1, <1>6 DEF IndexInv, OneActiveBuild, OneWriter, CaughtUpIsCurrent, JobsWriteTheirOwn,
     Writing
<1> QED
  BY <1>1, <1>4, <1>7 DEF IndexInv, Promotion

\* A promotion that makes another space the active one leaves nothing caught up.
LEMMA PromoteKeeps ==
  ASSUME IndexInv, NEW n \in DOMAIN promotions, PromoteCommit(n)
  PROVE  IndexInv'
<1> DEFINE Promotion == [of : Configurations, done : BOOLEAN, builds : SUBSET (Documents \X Texts)]
<1>1. /\ promotions' = [promotions EXCEPT ![n] =
            [of |-> promotions[n].of, done |-> TRUE, builds |-> {}]]
      /\ reindexing' = reindexing \cup
            {<<promotions[n].of, b[1], b[2]>> : b \in promotions[n].builds}
      /\ UNCHANGED <<document, build, vector, configuration, analysed, sink>>
      /\ \/ Resolved' = Resolved /\ caughtUp' = caughtUp
         \/ caughtUp' = {}
  BY DEF PromoteCommit
<1>2. promotions \in Seq(Promotion) /\ promotions[n] \in Promotion
  <2>1. promotions \in Seq(Promotion)
    BY DEF IndexInv
  <2> HIDE DEF Promotion
  <2> QED
    BY <2>1
<1>3. promotions' \in Seq(Promotion)
  <2>1. [of |-> promotions[n].of, done |-> TRUE, builds |-> {}] \in Promotion
    BY <1>2
  <2> HIDE DEF Promotion
  <2> QED
    BY <1>1, <1>2, <2>1
<1>4. \A job \in reindexing' : job[2] \in Documents
  <2>1. promotions[n].builds \subseteq Documents \X Texts
    BY <1>2
  <2>2. \A b \in promotions[n].builds : b[1] \in Documents
    BY <2>1
  <2> QED
    BY <1>1, <2>2 DEF IndexInv
<1>5. OneActiveBuild' /\ OneWriter' /\ JobsWriteTheirOwn'
  BY <1>1 DEF IndexInv, OneActiveBuild, OneWriter, JobsWriteTheirOwn, Writing
<1>6. CaughtUpIsCurrent' /\ caughtUp' \subseteq Documents
  <2>1. CASE Resolved' = Resolved /\ caughtUp' = caughtUp
    BY <1>1, <2>1 DEF IndexInv, CaughtUpIsCurrent, Writing
  <2>2. CASE caughtUp' = {}
    BY <2>2 DEF CaughtUpIsCurrent
  <2> QED
    BY <1>1, <2>1, <2>2
<1> QED
  BY <1>1, <1>3, <1>4, <1>5, <1>6 DEF IndexInv

\* A build takes the place of the active one, and of every vector there was.
LEMMA BuildKeeps ==
  ASSUME IndexInv, NEW w \in Sinks, BuildIndex(w)
  PROVE  IndexInv'
<1> DEFINE d == sink[w].document
           s == sink[w].source
<1>1. /\ sink[w].step = "index" /\ d \in Documents
      /\ sink' = [sink EXCEPT ![w] = [step |-> "embed", document |-> d, job |-> "normal"]]
      /\ UNCHANGED <<document, configuration, promotions, analysed, reindexing, caughtUp>>
      /\ \/ UNCHANGED <<build, vector>>
         \/ /\ build' = [build EXCEPT ![d] = [t \in Texts |->
                 IF t = s THEN "active" ELSE IF build[d][t] = "active" THEN "stale" ELSE build[d][t]]]
            /\ vector' = [vector EXCEPT ![d] = [t \in Texts |-> "none"]]
  BY DEF BuildIndex, IndexInv
<1>2. CASE UNCHANGED <<build, vector>>
  BY <1>1, <1>2, SinkMoves
<1>3. CASE ~ UNCHANGED <<build, vector>>
  <2>0. /\ \A t \in Texts : build'[d][t] = "active" => t = s
        /\ \A e \in Documents : e # d => build'[e] = build[e]
    <3>1. build'[d] = [t \in Texts |->
             IF t = s THEN "active" ELSE IF build[d][t] = "active" THEN "stale" ELSE build[d][t]]
      BY <1>1, <1>3 DEF IndexInv
    <3>2. \A e \in Documents : e # d => build'[e] = build[e]
      BY <1>1, <1>3 DEF IndexInv
    <3> QED
      BY <3>1, <3>2
  <2>1. OneActiveBuild'
    <3> SUFFICES ASSUME NEW e \in Documents, NEW t \in Texts, NEW u \in Texts,
                        build'[e][t] = "active", build'[e][u] = "active"
                 PROVE  t = u
      BY DEF OneActiveBuild
    <3> QED
      BY <2>0 DEF IndexInv, OneActiveBuild
  <2>2. OneWriter' /\ JobsWriteTheirOwn'
    BY <1>1 DEF IndexInv, OneWriter, JobsWriteTheirOwn, Writing
  <2>3. CaughtUpIsCurrent'
    <3>1. Resolved' = Resolved
      BY <1>1, SameResolved
    <3> QED
      BY <1>1, <1>3, <3>1 DEF IndexInv, CaughtUpIsCurrent, Writing
  <2>4. \A e \in Documents : DOMAIN build'[e] = Texts /\ DOMAIN vector'[e] = Texts
    BY <1>1, <1>3 DEF IndexInv
  <2> QED
    BY <1>1, <1>3, <2>1, <2>2, <2>3, <2>4 DEF IndexInv
<1> QED
  BY <1>2, <1>3

\* The embedding sink takes the lock and reads the configuration; a reindex job
\* that finds nothing lacking has dealt with the agreement.
LEMMA EmbedReadKeeps ==
  ASSUME IndexInv, NEW w \in Sinks, EmbedRead(w)
  PROVE  IndexInv'
<1> DEFINE d == sink[w].document
           job == sink[w].job
           c == ConfigurationOf(job)
           lacking == {s \in Texts : build[d][s] = "active" /\ vector[d][s] # c}
<1>1. /\ sink[w].step = "embed" /\ d \in Documents /\ LockFree(d)
      /\ UNCHANGED <<document, build, vector, configuration, promotions,
                     analysed, reindexing>>
      /\ \/ sink' = [sink EXCEPT ![w] = Asleep] /\ UNCHANGED caughtUp
         \/ lacking = {} /\ sink' = [sink EXCEPT ![w] = Asleep] /\ CatchUp(d, job)
         \/ /\ \E s \in lacking : sink' = [sink EXCEPT ![w] =
                 [step |-> "write", document |-> d, source |-> s, job |-> job, with |-> c]]
            /\ UNCHANGED caughtUp
  BY DEF EmbedRead, IndexInv
<1>2. CASE sink' = [sink EXCEPT ![w] = Asleep] /\ UNCHANGED caughtUp
  BY <1>1, <1>2, SinkMoves DEF Asleep
<1>3. CASE lacking = {} /\ sink' = [sink EXCEPT ![w] = Asleep] /\ CatchUp(d, job)
  <2>1. OneWriter' /\ JobsWriteTheirOwn' /\ OneActiveBuild'
    BY <1>1, <1>3 DEF IndexInv, OneWriter, JobsWriteTheirOwn, Writing, OneActiveBuild, Asleep
  <2>2. ASSUME NEW e \in caughtUp'
        PROVE  e \in caughtUp \/ (e = d /\ job # "normal" /\ job = Resolved)
    BY <1>3, <2>2 DEF CatchUp
  <2>3. CaughtUpIsCurrent'
    <3> SUFFICES ASSUME NEW e \in caughtUp'
                 PROVE  /\ \A s \in Texts : build[e][s] = "active" =>
                             vector[e][s] \in {Resolved, "none", "unavailable"}
                        /\ \A x \in Sinks : Writing(x) /\ sink[x].document = e =>
                             (sink[x].job = "normal" => sink[x].with = Resolved)
      <4>1. \A x \in Sinks : Writing(x)' => x # w /\ sink'[x] = sink[x] /\ Writing(x)
        BY <1>3 DEF IndexInv, Writing, Asleep
      <4>2. Resolved' = Resolved
        BY <1>1, SameResolved
      <4> QED
        BY <1>1, <4>1, <4>2 DEF CaughtUpIsCurrent
    <3>1. CASE e \in caughtUp
      BY <3>1 DEF IndexInv, CaughtUpIsCurrent
    <3>2. CASE e = d /\ job # "normal" /\ job = Resolved
      BY <1>1, <1>3, <3>2 DEF ConfigurationOf, LockFree, Writing
    <3> QED
      BY <2>2, <3>1, <3>2
  <2>4. caughtUp' \subseteq Documents
    BY <1>1, <2>2 DEF IndexInv
  <2> QED
    BY <1>1, <1>3, <2>1, <2>3, <2>4 DEF IndexInv, Asleep
<1>4. ASSUME NEW s \in lacking, UNCHANGED caughtUp,
             sink' = [sink EXCEPT ![w] =
                 [step |-> "write", document |-> d, source |-> s, job |-> job, with |-> c]]
      PROVE  IndexInv'
  <2>1. OneWriter'
    BY <1>1, <1>4 DEF IndexInv, OneWriter, Writing, LockFree
  <2>2. JobsWriteTheirOwn' /\ OneActiveBuild'
    BY <1>1, <1>4 DEF ConfigurationOf, IndexInv, JobsWriteTheirOwn, Writing, OneActiveBuild
  <2>3. CaughtUpIsCurrent'
    <3>1. Resolved' = Resolved
      BY <1>1, SameResolved
    <3> QED
      BY <1>1, <1>4, <3>1 DEF ConfigurationOf, IndexInv, CaughtUpIsCurrent, Writing
  <2> QED
    BY <1>1, <1>4, <2>1, <2>2, <2>3 DEF IndexInv
<1> QED
  BY <1>1, <1>2, <1>3, <1>4

\* The provider has answered or failed: a vector of the configuration that was
\* read, or the mark that there is none.
LEMMA VectorKeeps ==
  ASSUME IndexInv, NEW w \in Sinks, EmbedReady(w) \/ EmbedUnavailable(w)
  PROVE  IndexInv'
<1> DEFINE d == sink[w].document
           s == sink[w].source
           job == sink[w].job
<1>1. /\ Writing(w) /\ d \in Documents /\ s \in Texts
      /\ sink' = [sink EXCEPT ![w] = Asleep]
      /\ UNCHANGED <<document, build, configuration, promotions, analysed, reindexing>>
  BY DEF EmbedReady, EmbedUnavailable, Writing, IndexInv, JobsWriteTheirOwn
<1>2. \/ UNCHANGED <<vector, caughtUp>>
      \/ /\ build[d][s] = "active" /\ CatchUp(d, job)
         /\ vector' = [vector EXCEPT ![d][s] = sink[w].with]
      \/ vector' = [vector EXCEPT ![d][s] = "unavailable"] /\ UNCHANGED caughtUp
  BY DEF EmbedReady, EmbedUnavailable
<1>3. CASE UNCHANGED <<vector, caughtUp>>
  BY <1>1, <1>3, SinkMoves DEF Asleep
<1>4. CASE ~ UNCHANGED <<vector, caughtUp>>
  <2>1. \A e \in Documents : \A t \in Texts : e # d \/ t # s => vector'[e][t] = vector[e][t]
    BY <1>1, <1>2, <1>4 DEF IndexInv
  <2>2. \A e \in Documents : DOMAIN vector'[e] = Texts
    BY <1>1, <1>2, <1>4 DEF IndexInv
  <2>3. OneWriter' /\ JobsWriteTheirOwn' /\ OneActiveBuild'
    BY <1>1 DEF IndexInv, OneWriter, JobsWriteTheirOwn, Writing, OneActiveBuild, Asleep
  <2>4. \A x \in Sinks : Writing(x)' => x # w /\ sink'[x] = sink[x] /\ Writing(x)
                                          /\ sink[x].document # d
    BY <1>1 DEF IndexInv, OneWriter, Writing, Asleep
  <2>5. Resolved' = Resolved
    BY <1>1, SameResolved
  <2>6. \A e \in caughtUp' : e \in Documents /\ (e \in caughtUp \/ e = d)
    BY <1>1, <1>2 DEF IndexInv, CatchUp
  <2>7. ASSUME NEW e \in caughtUp', NEW t \in Texts, build[e][t] = "active"
        PROVE  vector'[e][t] \in {Resolved, "none", "unavailable"}
    <3>1. CASE e # d
      BY <1>1, <2>1, <2>6, <2>7, <3>1 DEF IndexInv, CaughtUpIsCurrent
    <3>2. CASE e = d /\ vector' = [vector EXCEPT ![d][s] = "unavailable"] /\ UNCHANGED caughtUp
      BY <1>1, <2>7, <3>2 DEF IndexInv, CaughtUpIsCurrent
    <3>3. CASE /\ e = d /\ build[d][s] = "active" /\ CatchUp(d, job)
               /\ vector' = [vector EXCEPT ![d][s] = sink[w].with]
      <4>1. t = s /\ vector'[d][s] = sink[w].with
        BY <1>1, <2>7, <3>3 DEF IndexInv, OneActiveBuild
      <4>2. CASE job = "normal"
        BY <1>1, <3>3, <4>1, <4>2 DEF CatchUp, IndexInv, CaughtUpIsCurrent
      <4>3. CASE job # "normal"
        BY <1>1, <2>7, <3>3, <4>1, <4>3 DEF CatchUp, IndexInv, JobsWriteTheirOwn
      <4> QED
        BY <4>2, <4>3
    <3> QED
      BY <1>2, <1>4, <3>1, <3>2, <3>3
  <2>8. CaughtUpIsCurrent'
    BY <1>1, <2>4, <2>5, <2>6, <2>7 DEF IndexInv, CaughtUpIsCurrent
  <2> QED
    BY <1>1, <1>2, <1>4, <2>2, <2>3, <2>6, <2>8 DEF IndexInv, Asleep
<1> QED
  BY <1>3, <1>4

\* Registry, analyses, the life of an agreement and the start of a sink touch
\* neither vectors nor who holds a lock.
LEMMA IndexStep ==
  ASSUME IndexInv, [IndexNext]_indexVars
  PROVE  IndexInv'
<1>1. ASSUME NEW c \in Configurations, CreateConfiguration(c) \/ PublishConfiguration(c)
      PROVE  IndexInv'
  <2>1. UNCHANGED <<build, vector, promotions, analysed, reindexing, sink, caughtUp>>
    BY <1>1 DEF CreateConfiguration, PublishConfiguration
  <2> QED
    BY <2>1, IndexRests
<1>2. ASSUME NEW c \in Configurations, PromoteRead(c)
      PROVE  IndexInv'
  BY <1>2, PromoteReadKeeps
<1>3. ASSUME NEW n \in DOMAIN promotions, PromoteCommit(n)
      PROVE  IndexInv'
  BY <1>3, PromoteKeeps
<1>4. ASSUME NEW e \in Documents, NEW t \in Texts, CompleteAnalysis(e, t)
      PROVE  IndexInv'
  <2>1. /\ UNCHANGED <<build, vector, promotions, reindexing, sink, caughtUp>>
        /\ analysed' = analysed \cup {<<e, t>>}
    BY <1>4 DEF CompleteAnalysis
  <2> QED
    BY <2>1, SameResolved DEF IndexInv, OneActiveBuild, OneWriter, CaughtUpIsCurrent,
       JobsWriteTheirOwn, Writing
<1>5. ASSUME NEW e \in Documents, NEW t \in Texts, NEW w \in Sinks, StartNormal(w, e, t)
      PROVE  IndexInv'
  BY <1>5, SinkMoves DEF StartNormal
<1>6. ASSUME NEW w \in Sinks, NEW job \in reindexing, StartReindex(w, job)
      PROVE  IndexInv'
  <2>1. job[2] \in Documents
    BY DEF IndexInv
  <2> QED
    BY <1>6, <2>1, SinkMoves DEF StartReindex
<1>7. ASSUME NEW e \in Documents, NEW from, NEW to, MoveDocument(e, from, to)
      PROVE  IndexInv'
  BY <1>7, IndexRests DEF MoveDocument
<1>8. ASSUME NEW e \in Documents, PurgeIndex(e)
      PROVE  IndexInv'
  BY <1>8, IndexPurgeKeeps
<1>9. ASSUME NEW w \in Sinks, CrashSink(w)
      PROVE  IndexInv'
  BY <1>9, SinkMoves DEF CrashSink, Asleep
<1>10. CASE UNCHANGED indexVars
  BY <1>10, IndexRests DEF indexVars
<1> QED
  BY <1>1, <1>2, <1>3, <1>4, <1>5, <1>6, <1>7, <1>8, <1>9, <1>10,
     BuildKeeps, EmbedReadKeeps, VectorKeeps DEF IndexNext

LEMMA IndexAlways == IndexSpec => []IndexInv
<1>1. IndexInv /\ [IndexNext]_indexVars => IndexInv'
  BY IndexStep
<1> QED
  BY <1>1, IndexInitial, PTL DEF IndexSpec

\* NewestSpaceSticks: once the reindex job of the active configuration has
\* dealt with an agreement (EmbeddingReindexCompletionHandler), semantic search
\* finds the agreement in no space of an earlier configuration.
THEOREM NewestSpaceStays == IndexSpec => []NewestSpaceSticks
<1>1. IndexInv => NewestSpaceSticks
  BY IndexAssumption DEF IndexInv, CaughtUpIsCurrent, NewestSpaceSticks, PriorSpaces, InSpace
<1> QED
  BY <1>1, IndexAlways, PTL

(* ------------------------------- Chunks -------------------------------- *)
(* The sections of a document hold every token of its blocks and share no  *)
(* block; the chunks of a section are runs that begin in different places  *)
(* and leave no token out.  Both are loops, and what a loop has made of a  *)
(* prefix is its invariant.                                                *)

\* What a fold over 1..n chooses is such a recursion; f has its prefixes.
GroupsRecursion(n, h) ==
    h = [u \in SUBSET DOMAIN [anchor \in 1..n |-> anchor] |-> IF u = {} THEN <<>>
         ELSE AddBlock(h[u \ {Max(u)}], [anchor \in 1..n |-> anchor][Max(u)])]

Block == [kind : {"heading", "paragraph"}, length : Nat \ {0}]
Token == Nat \X Nat

\* The tokens of a block, by their places
LEMMA TokensOfBlock ==
  ASSUME blocks \in Seq(Block), NEW k \in 1..Len(blocks)
  PROVE  /\ TokensOf(k) \in Seq(Token) /\ Len(TokensOf(k)) = blocks[k].length
         /\ blocks[k].length \in Nat \ {0}
         /\ \A p \in 1..blocks[k].length : TokensOf(k)[p] = <<k, p>>
<1>1. PICK m : m = blocks[k].length
  OBVIOUS
<1>2. m \in Nat \ {0}
  <2>1. blocks[k] \in Block
    OBVIOUS
  <2> QED
    BY <1>1, <2>1 DEF Block
<1>3. PICK T : T = TokensOf(k)
  OBVIOUS
<1>4. T = [p \in 1..m |-> <<k, p>>]
  BY <1>1, <1>3 DEF TokensOf
<1>5. \A p \in 1..m : <<k, p>> \in Token
  BY <1>2 DEF Token
<1>6. T \in [1..m -> Token] /\ \A p \in 1..m : T[p] = <<k, p>>
  BY <1>4, <1>5
<1>7. T \in Seq(Token) /\ Len(T) = m
  BY <1>2, <1>6
<1> QED
  BY <1>1, <1>2, <1>3, <1>6, <1>7

LEMMA AddBlockType ==
  ASSUME blocks \in Seq(Block), NEW k \in 1..Len(blocks), NEW gs \in Seq(Seq(Token))
  PROVE  AddBlock(gs, k) \in Seq(Seq(Token))
<1>1. TokensOf(k) \in Seq(Token)
  BY TokensOfBlock
<1>2. CASE gs = <<>> \/ blocks[k].kind = "heading"
  <2>1. AddBlock(gs, k) = Append(gs, TokensOf(k))
    BY <1>2 DEF AddBlock
  <2> QED
    BY <1>1, <2>1
<1>3. CASE ~(gs = <<>> \/ blocks[k].kind = "heading")
  <2>1. Len(gs) \in DOMAIN gs /\ gs[Len(gs)] \in Seq(Token)
    BY <1>3
  <2>2. gs[Len(gs)] \o TokensOf(k) \in Seq(Token)
    BY <1>1, <2>1
  <2>3. AddBlock(gs, k) = [gs EXCEPT ![Len(gs)] = gs[Len(gs)] \o TokensOf(k)]
    BY <1>3 DEF AddBlock
  <2> QED
    BY <2>1, <2>2, <2>3
<1> QED
  BY <1>2, <1>3

LEMMA GroupsFold ==
  ASSUME blocks \in Seq(Block)
  PROVE  \E f : /\ f[0] = <<>> /\ Groups = f[Len(blocks)]
                /\ \A k \in 1..Len(blocks) : f[k] = AddBlock(f[k - 1], k)
<1>1. PICK n \in Nat : n = Len(blocks)
  OBVIOUS
<1>2. PICK R : R = Seq(Seq(Token))
  OBVIOUS
<1> DEFINE step == [p \in (1..n) \X R |-> AddBlock(p[2], p[1])]
<1>3. <<>> \in R
  BY <1>2
<1>4. \A k \in 1..n, r \in R : step[<<k, r>>] = AddBlock(r, k) /\ step[<<k, r>>] \in R
  BY <1>1, <1>2, AddBlockType
<1> HIDE DEF step
<1>5. PICK g : PrefixRecurses(n, <<>>, step, g) /\ \A u \in SUBSET (1..n) : g[u] \in R
  <2>1. \A k \in 1..n, r \in R : step[<<k, r>>] \in R
    BY <1>4
  <2> QED
    BY <1>3, <2>1, PrefixRecursion
<1>6. GroupsRecursion(n, g)
  <2>1. g = [u \in SUBSET (1..n) |-> g[u]] /\ g[{}] = <<>>
    BY <1>5 DEF PrefixRecurses
  <2>2. ASSUME NEW u \in SUBSET (1..n), u # {}
        PROVE  g[u] = AddBlock(g[u \ {Max(u)}], [anchor \in 1..n |-> anchor][Max(u)])
    <3>1. Max(u) \in 1..n /\ u \ {Max(u)} \in SUBSET (1..n)
      BY <2>2, PrefixSteps
    <3>2. g[u] = step[<<Max(u), g[u \ {Max(u)}]>>]
      BY <1>5, <2>2 DEF PrefixRecurses
    <3> QED
      BY <1>4, <1>5, <3>1, <3>2
  <2>3. DOMAIN [anchor \in 1..n |-> anchor] = 1..n
    OBVIOUS
  <2>4. g = [u \in SUBSET DOMAIN [anchor \in 1..n |-> anchor] |-> IF u = {} THEN <<>>
               ELSE AddBlock(g[u \ {Max(u)}], [anchor \in 1..n |-> anchor][Max(u)])]
    BY <2>1, <2>2, <2>3
  <2> QED
    BY <2>4 DEF GroupsRecursion
<1>7. PICK h : h = CHOOSE k : GroupsRecursion(n, k)
  OBVIOUS
<1>8. GroupsRecursion(n, h)
  BY <1>6, <1>7
<1>9. Groups = h[DOMAIN [anchor \in 1..n |-> anchor]]
  BY <1>1, <1>7 DEF Groups, FoldLeft, MapThenFoldSet, GroupsRecursion
<1>10. h[{}] = <<>>
  BY <1>8 DEF GroupsRecursion
<1>11. ASSUME NEW k \in 1..n PROVE h[1..k] = AddBlock(h[1..(k - 1)], k)
  <2>1. /\ 1..k \in SUBSET (1..n) /\ 1..k # {} /\ Max(1..k) = k
        /\ (1..k) \ {k} = 1..(k - 1)
    BY PrefixSteps
  <2>2. \A u \in SUBSET (1..n) : u # {} =>
            h[u] = AddBlock(h[u \ {Max(u)}], [anchor \in 1..n |-> anchor][Max(u)])
    BY <1>8 DEF GroupsRecursion
  <2>3. h[1..k] = AddBlock(h[(1..k) \ {k}], [anchor \in 1..n |-> anchor][k])
    BY <2>1, <2>2
  <2> QED
    BY <2>1, <2>3
<1> DEFINE f == [k \in 0..n |-> h[1..k]]
<1>12. f[0] = <<>> /\ f[n] = h[1..n]
  BY <1>10, PrefixSteps
<1>13. \A k \in 1..n : f[k] = AddBlock(f[k - 1], k)
  BY <1>11, PrefixSteps
<1>14. Groups = f[n]
  BY <1>9, <1>12
<1> HIDE DEF f
<1> QED
  BY <1>1, <1>12, <1>13, <1>14

Chunk == [tokens : Seq(Token), start : Nat, anchors : SUBSET Nat]
Accumulated == [chunks : Seq(Chunk), start : Nat, current : Seq(Token)]
NothingYet == [chunks |-> <<>>, start |-> 0, current |-> <<>>]

LEMMA ChunkOfType ==
  ASSUME NEW tokens \in Seq(Token), NEW start \in Nat
  PROVE  ChunkOf(tokens, start) \in Chunk
<1>1. \A i \in DOMAIN tokens : tokens[i] \in Token /\ tokens[i][1] \in Nat
  BY DEF Token
<1>2. {tokens[i][1] : i \in DOMAIN tokens} \in SUBSET Nat
  BY <1>1
<1> QED
  BY <1>2 DEF ChunkOf, Chunk

\* A full chunk is cut off before its overlap.
LEMMA Kept ==
  ASSUME NEW current \in Seq(Token), Len(current) >= MaxTokens
  PROVE  LET kept == SubSeq(current, MaxTokens - ChunkOverlap + 1, MaxTokens)
         IN  /\ kept \in Seq(Token) /\ Len(kept) = ChunkOverlap
             /\ \A p \in 1..ChunkOverlap : kept[p] = current[MaxTokens - ChunkOverlap + p]
<1>1. PICK from : from = MaxTokens - ChunkOverlap + 1
  OBVIOUS
<1>2. /\ MaxTokens \in Nat /\ ChunkOverlap \in Nat /\ from \in 1..MaxTokens
      /\ MaxTokens \in 1..Len(current) /\ from \in 1..(Len(current) + 1)
      /\ MaxTokens - from + 1 = ChunkOverlap
  BY <1>1, ChunkingAssumption
<1>3. PICK kept : kept = SubSeq(current, from, MaxTokens)
  OBVIOUS
<1>4. /\ kept \in Seq(Token) /\ Len(kept) = MaxTokens - from + 1
      /\ \A p \in 1..(MaxTokens - from + 1) : kept[p] = current[from + p - 1]
  BY <1>2, <1>3
<1> QED
  BY <1>1, <1>2, <1>3, <1>4

LEMMA AccumulateType ==
  ASSUME NEW token \in Token, NEW state \in Accumulated
  PROVE  Accumulate(state, token) \in Accumulated
<1>1. CASE Len(state.current) < MaxTokens
  BY <1>1 DEF Accumulate, Accumulated
<1>2. CASE ~(Len(state.current) < MaxTokens)
  <2>1. PICK kept : kept = SubSeq(state.current, MaxTokens - ChunkOverlap + 1, MaxTokens)
    OBVIOUS
  <2>2. state.current \in Seq(Token) /\ state.start \in Nat /\ state.chunks \in Seq(Chunk)
    BY DEF Accumulated
  <2>3. kept \in Seq(Token)
    BY <1>2, <2>1, <2>2, Kept, ChunkingAssumption
  <2>4. ChunkOf(state.current, state.start) \in Chunk
    BY <2>2, ChunkOfType
  <2>5. state.start + MaxTokens - ChunkOverlap \in Nat
    BY <2>2, ChunkingAssumption
  <2>6. Append(kept, token) \in Seq(Token)
        /\ Append(state.chunks, ChunkOf(state.current, state.start)) \in Seq(Chunk)
    BY <2>2, <2>3, <2>4
  <2>7. Accumulate(state, token)
          = [chunks |-> Append(state.chunks, ChunkOf(state.current, state.start)),
             start |-> state.start + MaxTokens - ChunkOverlap,
             current |-> Append(kept, token)]
    BY <1>2, <2>1 DEF Accumulate
  <2> QED
    BY <2>5, <2>6, <2>7 DEF Accumulated
<1> QED
  BY <1>1, <1>2

AccumulateRecursion(tokens, h) ==
    h = [u \in SUBSET DOMAIN tokens |->
         IF u = {} THEN [chunks |-> <<>>, start |-> 0, current |-> <<>>]
         ELSE Accumulate(h[u \ {Max(u)}], tokens[Max(u)])]

LEMMA AccumulateFold ==
  ASSUME NEW tokens \in Seq(Token)
  PROVE  \E f : /\ f[0] = NothingYet
                /\ FoldLeft(Accumulate, NothingYet, tokens) = f[Len(tokens)]
                /\ \A k \in 1..Len(tokens) : f[k] = Accumulate(f[k - 1], tokens[k])
<1>1. PICK n \in Nat : n = Len(tokens) /\ DOMAIN tokens = 1..n
  OBVIOUS
<1>2. PICK R : R = Accumulated
  OBVIOUS
<1> DEFINE step == [p \in (1..n) \X R |-> Accumulate(p[2], tokens[p[1]])]
<1>3. NothingYet \in R
  BY <1>2 DEF NothingYet, Accumulated
<1>4. \A k \in 1..n, r \in R :
        step[<<k, r>>] = Accumulate(r, tokens[k]) /\ step[<<k, r>>] \in R
  <2>1. \A k \in 1..n : tokens[k] \in Token
    BY <1>1
  <2> QED
    BY <1>2, <2>1, AccumulateType
<1> HIDE DEF step
<1>5. PICK g : PrefixRecurses(n, NothingYet, step, g) /\ \A u \in SUBSET (1..n) : g[u] \in R
  <2>1. \A k \in 1..n, r \in R : step[<<k, r>>] \in R
    BY <1>4
  <2> QED
    BY <1>3, <2>1, PrefixRecursion
<1>6. AccumulateRecursion(tokens, g)
  <2>1. g = [u \in SUBSET (1..n) |-> g[u]] /\ g[{}] = NothingYet
    BY <1>5 DEF PrefixRecurses
  <2>2. ASSUME NEW u \in SUBSET (1..n), u # {}
        PROVE  g[u] = Accumulate(g[u \ {Max(u)}], tokens[Max(u)])
    <3>1. Max(u) \in 1..n /\ u \ {Max(u)} \in SUBSET (1..n)
      BY <2>2, PrefixSteps
    <3>2. g[u] = step[<<Max(u), g[u \ {Max(u)}]>>]
      BY <1>5, <2>2 DEF PrefixRecurses
    <3> QED
      BY <1>4, <1>5, <3>1, <3>2
  <2> QED
    BY <1>1, <2>1, <2>2 DEF AccumulateRecursion, NothingYet
<1>7. PICK h : h = CHOOSE k : AccumulateRecursion(tokens, k)
  OBVIOUS
<1>8. AccumulateRecursion(tokens, h)
  BY <1>6, <1>7
<1>9. FoldLeft(Accumulate, NothingYet, tokens) = h[DOMAIN tokens]
  BY <1>7 DEF FoldLeft, MapThenFoldSet, AccumulateRecursion, NothingYet
<1>10. h[{}] = NothingYet
  BY <1>8 DEF AccumulateRecursion, NothingYet
<1>11. ASSUME NEW k \in 1..n PROVE h[1..k] = Accumulate(h[1..(k - 1)], tokens[k])
  <2>1. /\ 1..k \in SUBSET (1..n) /\ 1..k # {} /\ Max(1..k) = k
        /\ (1..k) \ {k} = 1..(k - 1)
    BY PrefixSteps
  <2>2. \A u \in SUBSET (1..n) : u # {} =>
            h[u] = Accumulate(h[u \ {Max(u)}], tokens[Max(u)])
    BY <1>1, <1>8 DEF AccumulateRecursion
  <2> QED
    BY <2>1, <2>2
<1> DEFINE f == [k \in 0..n |-> h[1..k]]
<1>12. f[0] = NothingYet /\ f[n] = h[1..n]
  BY <1>10, PrefixSteps
<1>13. \A k \in 1..n : f[k] = Accumulate(f[k - 1], tokens[k])
  BY <1>11, PrefixSteps
<1>14. FoldLeft(Accumulate, NothingYet, tokens) = f[n]
  BY <1>1, <1>9, <1>12
<1> HIDE DEF f
<1> QED
  BY <1>1, <1>12, <1>13, <1>14

\* c is a run of a section's tokens that begins where it says.
IsRun(tokens, c) ==
    /\ c \in Chunk /\ Len(c.tokens) \in 1..MaxTokens /\ c.start + Len(c.tokens) <= Len(tokens)
    /\ \A p \in 1..Len(c.tokens) : c.tokens[p] = tokens[c.start + p]
    /\ c.anchors = {c.tokens[p][1] : p \in DOMAIN c.tokens}

Reaches(c, q) == q \in (c.start + 1)..(c.start + Len(c.tokens))

\* A run begins at its first token
LEMMA RunOfTokens ==
  ASSUME NEW tokens \in Seq(Token), NEW current \in Seq(Token), NEW start \in Nat,
         Len(current) \in 1..MaxTokens, start + Len(current) <= Len(tokens),
         \A p \in 1..Len(current) : current[p] = tokens[start + p]
  PROVE  /\ IsRun(tokens, ChunkOf(current, start))
         /\ ChunkOf(current, start).start = start /\ ChunkOf(current, start).tokens = current
<1>1. ChunkOf(current, start) \in Chunk
  BY ChunkOfType
<1> QED
  BY <1>1 DEF ChunkOf, IsRun

\* What the loop has made of the first k tokens
Accumulates(tokens, k, state) ==
    /\ state \in Accumulated
    /\ state.start + Len(state.current) = k /\ Len(state.current) <= MaxTokens
    /\ k > 0 => Len(state.current) > 0
    /\ \A p \in 1..Len(state.current) : state.current[p] = tokens[state.start + p]
    /\ \A i \in DOMAIN state.chunks :
        IsRun(tokens, state.chunks[i]) /\ state.chunks[i].start < state.start
    /\ \A i, j \in DOMAIN state.chunks : i # j => state.chunks[i].start # state.chunks[j].start
    /\ \A q \in 1..k : q > state.start \/ \E i \in DOMAIN state.chunks : Reaches(state.chunks[i], q)

\* One more token joins the chunk under way, or the one that follows it.
LEMMA AccumulateKeeps ==
  ASSUME NEW tokens \in Seq(Token), NEW k \in 1..Len(tokens), NEW state,
         Accumulates(tokens, k - 1, state)
  PROVE  Accumulates(tokens, k, Accumulate(state, tokens[k]))
<1>1. PICK new : new = Accumulate(state, tokens[k])
  OBVIOUS
<1>2. PICK current, chunks, start :
        current = state.current /\ chunks = state.chunks /\ start = state.start
  OBVIOUS
<1>3. /\ current \in Seq(Token) /\ chunks \in Seq(Chunk) /\ start \in Nat
      /\ start + Len(current) = k - 1 /\ Len(current) <= MaxTokens
      /\ \A p \in 1..Len(current) : current[p] = tokens[start + p]
  BY <1>2 DEF Accumulates, Accumulated
<1>4. /\ \A i \in DOMAIN chunks : IsRun(tokens, chunks[i]) /\ chunks[i].start < start
      /\ \A i, j \in DOMAIN chunks : i # j => chunks[i].start # chunks[j].start
      /\ \A q \in 1..(k - 1) : q > start \/ \E i \in DOMAIN chunks : Reaches(chunks[i], q)
  BY <1>2 DEF Accumulates
<1>5. /\ MaxTokens \in Nat /\ ChunkOverlap \in Nat /\ ChunkOverlap < MaxTokens /\ ChunkOverlap > 0
      /\ k \in Nat /\ k > 0 /\ k <= Len(tokens) /\ Len(tokens) \in Nat /\ tokens[k] \in Token
  BY ChunkingAssumption
<1>6. new \in Accumulated
  BY <1>1, <1>5, AccumulateType DEF Accumulates
<1>7. CASE Len(current) < MaxTokens
  <2>1. new.chunks = chunks /\ new.start = start /\ new.current = Append(current, tokens[k])
    BY <1>1, <1>2, <1>7 DEF Accumulate, Accumulates, Accumulated
  <2>2. /\ Len(new.current) = Len(current) + 1
        /\ \A p \in 1..Len(current) : new.current[p] = current[p]
        /\ new.current[Len(current) + 1] = tokens[k]
    BY <1>3, <1>5, <2>1
  <2>3. \A p \in 1..Len(new.current) : new.current[p] = tokens[new.start + p]
    BY <1>3, <2>1, <2>2
  <2>4. /\ new.start + Len(new.current) = k /\ Len(new.current) <= MaxTokens
        /\ Len(new.current) > 0
    BY <1>3, <1>5, <1>7, <2>1, <2>2
  <2>5. \A q \in 1..k : q > new.start \/ \E i \in DOMAIN new.chunks : Reaches(new.chunks[i], q)
    BY <1>3, <1>4, <1>5, <2>1
  <2> QED
    BY <1>1, <1>4, <1>6, <2>1, <2>3, <2>4, <2>5 DEF Accumulates
<1>8. CASE ~(Len(current) < MaxTokens)
  <2>1. Len(current) = MaxTokens
    BY <1>3, <1>5, <1>8
  <2>2. PICK kept : kept = SubSeq(current, MaxTokens - ChunkOverlap + 1, MaxTokens)
    OBVIOUS
  <2>3. /\ kept \in Seq(Token) /\ Len(kept) = ChunkOverlap
        /\ \A p \in 1..ChunkOverlap : kept[p] = current[MaxTokens - ChunkOverlap + p]
    BY <1>3, <1>5, <2>1, <2>2, Kept
  <2>4. PICK c : c = ChunkOf(current, start)
    OBVIOUS
  <2>5. /\ new.chunks = Append(chunks, c) /\ new.start = start + MaxTokens - ChunkOverlap
        /\ new.current = Append(kept, tokens[k])
    BY <1>1, <1>2, <1>8, <2>2, <2>4 DEF Accumulate
  <2>6. IsRun(tokens, c) /\ c.start = start /\ c.tokens = current
    <3>1. Len(current) \in 1..MaxTokens /\ start + Len(current) <= Len(tokens)
      BY <1>3, <1>5, <2>1
    <3> QED
      BY <1>3, <2>4, <3>1, RunOfTokens
  <2>7. /\ Len(new.current) = ChunkOverlap + 1
        /\ \A p \in 1..ChunkOverlap : new.current[p] = kept[p]
        /\ new.current[ChunkOverlap + 1] = tokens[k]
    BY <1>5, <2>3, <2>5
  <2>8. ASSUME NEW p \in 1..Len(new.current) PROVE new.current[p] = tokens[new.start + p]
    <3>1. CASE p = ChunkOverlap + 1
      BY <1>3, <1>5, <2>1, <2>5, <2>7, <3>1
    <3>2. CASE p # ChunkOverlap + 1
      <4>1. p \in 1..ChunkOverlap /\ MaxTokens - ChunkOverlap + p \in 1..Len(current)
        BY <1>5, <2>1, <2>7, <3>2
      <4>2. new.current[p] = current[MaxTokens - ChunkOverlap + p]
        BY <2>3, <2>7, <4>1
      <4>3. current[MaxTokens - ChunkOverlap + p] = tokens[start + (MaxTokens - ChunkOverlap + p)]
        BY <1>3, <4>1
      <4>4. start + (MaxTokens - ChunkOverlap + p) = new.start + p
        BY <1>3, <1>5, <2>5, <4>1
      <4> QED
        BY <4>2, <4>3, <4>4
    <3> QED
      BY <3>1, <3>2
  <2>9. /\ new.start + Len(new.current) = k /\ Len(new.current) <= MaxTokens
        /\ Len(new.current) > 0 /\ start < new.start
    BY <1>3, <1>5, <2>1, <2>5, <2>7
  <2>10. /\ Len(chunks) + 1 \in DOMAIN new.chunks /\ new.chunks[Len(chunks) + 1] = c
         /\ \A i \in DOMAIN chunks : i \in DOMAIN new.chunks /\ new.chunks[i] = chunks[i]
         /\ \A i \in DOMAIN new.chunks : i \in DOMAIN chunks \/ i = Len(chunks) + 1
    BY <1>3, <2>5
  <2>11. \A i \in DOMAIN chunks : chunks[i].start \in Nat /\ chunks[i].start < start
    BY <1>4 DEF IsRun, Chunk
  <2>12. ASSUME NEW i \in DOMAIN new.chunks
         PROVE  IsRun(tokens, new.chunks[i]) /\ new.chunks[i].start < new.start
    <3>1. new.start \in Nat
      BY <1>6 DEF Accumulated
    <3>2. CASE i \in DOMAIN chunks
      <4>1. new.chunks[i] = chunks[i] /\ chunks[i].start \in Nat /\ chunks[i].start < start
        BY <2>10, <2>11, <3>2
      <4>2. IsRun(tokens, chunks[i])
        BY <1>4, <3>2
      <4> QED
        BY <1>3, <2>9, <3>1, <4>1, <4>2
    <3>3. CASE i = Len(chunks) + 1
      BY <2>6, <2>9, <2>10, <3>3
    <3> QED
      BY <2>10, <3>2, <3>3
  <2>13. ASSUME NEW i \in DOMAIN new.chunks, NEW j \in DOMAIN new.chunks, i # j
         PROVE  new.chunks[i].start # new.chunks[j].start
    <3>1. CASE i \in DOMAIN chunks /\ j \in DOMAIN chunks
      BY <1>3, <1>4, <2>10, <2>13, <3>1
    <3>2. CASE i \in DOMAIN chunks /\ j = Len(chunks) + 1
      BY <1>3, <2>6, <2>10, <2>11, <3>2
    <3>3. CASE i = Len(chunks) + 1 /\ j \in DOMAIN chunks
      BY <1>3, <2>6, <2>10, <2>11, <3>3
    <3> QED
      BY <2>10, <2>13, <3>1, <3>2, <3>3
  <2>14. ASSUME NEW q \in 1..k, ~(q > new.start)
         PROVE  \E i \in DOMAIN new.chunks : Reaches(new.chunks[i], q)
    <3>1. CASE q > start
      <4>1. Reaches(c, q)
        BY <1>3, <1>5, <1>6, <2>1, <2>5, <2>6, <2>14, <3>1 DEF Reaches, Accumulated
      <4> QED
        BY <2>10, <4>1
    <3>2. CASE ~(q > start)
      <4>1. q \in 1..(k - 1)
        BY <1>3, <1>5, <3>2
      <4>2. PICK i \in DOMAIN chunks : Reaches(chunks[i], q)
        BY <1>4, <3>2, <4>1
      <4>3. i \in DOMAIN new.chunks /\ new.chunks[i] = chunks[i]
        BY <1>3, <2>10
      <4> QED
        BY <4>2, <4>3
    <3> QED
      BY <3>1, <3>2
  <2> QED
    BY <1>1, <1>6, <2>8, <2>9, <2>12, <2>13, <2>14 DEF Accumulates
<1> QED
  BY <1>7, <1>8

\* The chunks of a section: runs that begin in different places and leave no
\* token out
ChunksOf(tokens, cs) ==
    /\ cs \in Seq(Chunk)
    /\ \A i \in DOMAIN cs : IsRun(tokens, cs[i])
    /\ \A i, j \in DOMAIN cs : i # j => cs[i].start # cs[j].start
    /\ \A q \in 1..Len(tokens) : \E i \in DOMAIN cs : Reaches(cs[i], q)

\* The loop ends with the chunk that is not full, and a short section is one chunk.
LEMMA SectionsAreCovered ==
  ASSUME NEW tokens \in Seq(Token), Len(tokens) > 0
  PROVE  ChunksOf(tokens, ChunksOfGroup(tokens))
<1>1. CASE Len(tokens) <= MaxTokens
  <2>1. PICK c : c = ChunkOf(tokens, 0)
    OBVIOUS
  <2>2. Len(tokens) \in 1..MaxTokens /\ 0 + Len(tokens) <= Len(tokens) /\ 0 \in Nat
    BY <1>1
  <2>3. \A p \in 1..Len(tokens) : tokens[p] = tokens[0 + p]
    OBVIOUS
  <2>4. IsRun(tokens, c) /\ c.start = 0 /\ c.tokens = tokens
    BY <2>1, <2>2, <2>3, RunOfTokens
  <2>5. ChunksOfGroup(tokens) = <<c>> /\ c \in Chunk
    BY <1>1, <2>1, <2>4 DEF ChunksOfGroup, IsRun
  <2>6. \A q \in 1..Len(tokens) : Reaches(c, q)
    BY <2>4 DEF Reaches
  <2> QED
    BY <2>4, <2>5, <2>6 DEF ChunksOf
<1>2. CASE ~(Len(tokens) <= MaxTokens)
  <2>1. PICK n \in Nat : n = Len(tokens)
    OBVIOUS
  <2>2. PICK f : /\ f[0] = NothingYet
                 /\ FoldLeft(Accumulate, NothingYet, tokens) = f[Len(tokens)]
                 /\ \A k \in 1..Len(tokens) : f[k] = Accumulate(f[k - 1], tokens[k])
    BY AccumulateFold
  <2> DEFINE G == {k \in 0..n : Accumulates(tokens, k, f[k])}
  <2>3. 0 \in G
    <3>1. PICK none : none = NothingYet
      OBVIOUS
    <3>2. /\ none \in Accumulated /\ none.start = 0 /\ Len(none.current) = 0
          /\ DOMAIN none.chunks = {}
      BY <3>1 DEF NothingYet, Accumulated
    <3>3. Accumulates(tokens, 0, none)
      BY <3>2, ChunkingAssumption DEF Accumulates
    <3> QED
      BY <2>2, <3>1, <3>3
  <2>4. ASSUME NEW k \in 1..n, k - 1 \in G PROVE k \in G
    <3>1. Accumulates(tokens, k, Accumulate(f[k - 1], tokens[k]))
      BY <2>1, <2>4, AccumulateKeeps
    <3> QED
      BY <2>1, <2>2, <3>1
  <2> HIDE DEF G
  <2>5. 0..n \subseteq G
    BY <2>3, <2>4, PrefixInduction
  <2>6. PICK end : end = f[n]
    OBVIOUS
  <2>7. Accumulates(tokens, n, end)
    BY <2>5, <2>6 DEF G
  <2>8. ChunksOfGroup(tokens) = Append(end.chunks, ChunkOf(end.current, end.start))
    BY <1>2, <2>1, <2>2, <2>6 DEF ChunksOfGroup, NothingYet
  <2>9. PICK chunks, c : chunks = end.chunks /\ c = ChunkOf(end.current, end.start)
    OBVIOUS
  <2>10. /\ chunks \in Seq(Chunk) /\ end.current \in Seq(Token) /\ end.start \in Nat
         /\ end.start + Len(end.current) = n /\ Len(end.current) \in 1..MaxTokens
         /\ \A p \in 1..Len(end.current) : end.current[p] = tokens[end.start + p]
    BY <2>1, <2>7, <2>9, ChunkingAssumption DEF Accumulates, Accumulated
  <2>11. /\ \A i \in DOMAIN chunks : IsRun(tokens, chunks[i]) /\ chunks[i].start < end.start
         /\ \A i, j \in DOMAIN chunks : i # j => chunks[i].start # chunks[j].start
         /\ \A q \in 1..n : q > end.start \/ \E i \in DOMAIN chunks : Reaches(chunks[i], q)
    BY <2>7, <2>9 DEF Accumulates
  <2>12. IsRun(tokens, c) /\ c.start = end.start /\ c.tokens = end.current
    <3>1. PICK current, start : current = end.current /\ start = end.start
      OBVIOUS
    <3>2. /\ current \in Seq(Token) /\ start \in Nat
          /\ Len(current) \in 1..MaxTokens /\ start + Len(current) <= Len(tokens)
          /\ \A p \in 1..Len(current) : current[p] = tokens[start + p]
      BY <2>1, <2>10, <3>1
    <3>3. /\ IsRun(tokens, ChunkOf(current, start))
          /\ ChunkOf(current, start).start = start /\ ChunkOf(current, start).tokens = current
      BY <3>2, RunOfTokens, ZenonT(40)
    <3> QED
      BY <2>9, <3>1, <3>3
  <2>13. PICK all : all = ChunksOfGroup(tokens)
    OBVIOUS
  <2>14. c \in Chunk
    BY <2>12 DEF IsRun
  <2>15. /\ all \in Seq(Chunk) /\ Len(chunks) \in Nat
         /\ \A i \in DOMAIN chunks : i \in DOMAIN all /\ all[i] = chunks[i]
         /\ Len(chunks) + 1 \in DOMAIN all /\ all[Len(chunks) + 1] = c
         /\ \A i \in DOMAIN all : i \in DOMAIN chunks \/ i = Len(chunks) + 1
    BY <2>8, <2>9, <2>10, <2>13, <2>14
  <2>16. ASSUME NEW i \in DOMAIN all PROVE IsRun(tokens, all[i])
    BY <2>11, <2>12, <2>15
  <2>17. ASSUME NEW i \in DOMAIN all, NEW j \in DOMAIN all, i # j PROVE all[i].start # all[j].start
    <3>1. \A l \in DOMAIN chunks : chunks[l].start \in Nat /\ chunks[l].start < end.start
      BY <2>11 DEF IsRun, Chunk
    <3>2. CASE i \in DOMAIN chunks /\ j \in DOMAIN chunks
      BY <2>11, <2>15, <2>17, <3>2
    <3>3. CASE i \in DOMAIN chunks /\ j = Len(chunks) + 1
      BY <2>10, <2>12, <2>15, <3>1, <3>3
    <3>4. CASE i = Len(chunks) + 1 /\ j \in DOMAIN chunks
      BY <2>10, <2>12, <2>15, <3>1, <3>4
    <3> QED
      BY <2>15, <2>17, <3>2, <3>3, <3>4
  <2>18. ASSUME NEW q \in 1..Len(tokens) PROVE \E i \in DOMAIN all : Reaches(all[i], q)
    <3>1. CASE q > end.start
      <4>1. Reaches(c, q)
        BY <2>1, <2>10, <2>12, <3>1 DEF Reaches
      <4> QED
        BY <2>15, <4>1
    <3>2. CASE ~(q > end.start)
      <4>1. PICK i \in DOMAIN chunks : Reaches(chunks[i], q)
        BY <2>1, <2>11, <3>2
      <4>2. i \in DOMAIN all /\ all[i] = chunks[i]
        BY <2>15
      <4> QED
        BY <4>1, <4>2
    <3> QED
      BY <3>1, <3>2
  <2> QED
    BY <2>13, <2>15, <2>16, <2>17, <2>18 DEF ChunksOf
<1> QED
  BY <1>1, <1>2

\* What the sections are made of after k blocks: each token of these blocks,
\* and no block in two sections
Sections(k, gs) ==
    /\ gs \in Seq(Seq(Token)) /\ \A g \in DOMAIN gs : Len(gs[g]) > 0
    /\ \A g \in DOMAIN gs : \A q \in 1..Len(gs[g]) :
        \E a \in 1..k : \E p \in 1..blocks[a].length : gs[g][q] = <<a, p>>
    /\ \A a \in 1..k : \A p \in 1..blocks[a].length :
        \E g \in DOMAIN gs : \E q \in 1..Len(gs[g]) : gs[g][q] = <<a, p>>
    /\ \A g, h \in DOMAIN gs : g # h =>
        \A q \in 1..Len(gs[g]), r \in 1..Len(gs[h]) : gs[g][q][1] # gs[h][r][1]

\* A block goes whole to the end of one section.
LEMMA AddBlockKeeps ==
  ASSUME blocks \in Seq(Block), NEW k \in 1..Len(blocks), NEW gs, Sections(k - 1, gs)
  PROVE  Sections(k, AddBlock(gs, k))
<1>1. PICK new, T : new = AddBlock(gs, k) /\ T = TokensOf(k)
  OBVIOUS
<1>2. gs \in Seq(Seq(Token)) /\ new \in Seq(Seq(Token)) /\ k \in Nat
  BY <1>1, AddBlockType DEF Sections
<1>3. PICK m \in Nat : m = blocks[k].length /\ m > 0
  BY TokensOfBlock
<1>4. T \in Seq(Token) /\ Len(T) = m /\ \A p \in 1..m : T[p] = <<k, p>>
  BY <1>1, <1>3, TokensOfBlock
\* one section, t, ends in the tokens of the block
<1>5. PICK t, old :
        /\ old \in Seq(Token) /\ t \in DOMAIN new /\ new[t] = old \o T
        /\ \A g \in DOMAIN gs : g \in DOMAIN new /\ (g # t => new[g] = gs[g]) /\ (g = t => old = gs[g])
        /\ \A g \in DOMAIN new : g # t => g \in DOMAIN gs
        /\ t \notin DOMAIN gs => old = <<>>
  <2>1. CASE gs = <<>> \/ blocks[k].kind = "heading"
    <3>1. new = Append(gs, T)
      BY <1>1, <2>1 DEF AddBlock
    <3>2. PICK t : t = Len(gs) + 1
      OBVIOUS
    <3>3. /\ t \in DOMAIN new /\ new[t] = T /\ t \notin DOMAIN gs
          /\ \A g \in DOMAIN gs : g \in DOMAIN new /\ new[g] = gs[g]
          /\ \A g \in DOMAIN new : g # t => g \in DOMAIN gs
      BY <1>2, <1>4, <3>1, <3>2
    <3>4. <<>> \in Seq(Token) /\ T = <<>> \o T
      BY <1>4
    <3> QED
      BY <3>3, <3>4
  <2>2. CASE ~(gs = <<>> \/ blocks[k].kind = "heading")
    <3>1. PICK t : t = Len(gs)
      OBVIOUS
    <3>2. t \in DOMAIN gs /\ gs[t] \in Seq(Token)
      BY <1>2, <2>2, <3>1
    <3>3. new = [gs EXCEPT ![t] = gs[t] \o T]
      BY <1>1, <2>2, <3>1 DEF AddBlock
    <3>4. /\ DOMAIN new = DOMAIN gs /\ new[t] = gs[t] \o T
          /\ \A g \in DOMAIN gs : g # t => new[g] = gs[g]
      BY <3>2, <3>3
    <3>5. PICK old : old = gs[t]
      OBVIOUS
    <3>6. /\ old \in Seq(Token) /\ t \in DOMAIN new /\ new[t] = old \o T
          /\ \A g \in DOMAIN gs : g \in DOMAIN new /\ (g # t => new[g] = gs[g]) /\ (g = t => old = gs[g])
          /\ \A g \in DOMAIN new : g # t => g \in DOMAIN gs
          /\ t \notin DOMAIN gs => old = <<>>
      BY <3>2, <3>4, <3>5
    <3> QED
      BY <3>6
  <2> QED
    BY <2>1, <2>2
<1>6. /\ Len(new[t]) = Len(old) + m /\ Len(old) \in Nat
      /\ \A q \in 1..Len(old) : new[t][q] = old[q]
      /\ \A p \in 1..m : new[t][Len(old) + p] = <<k, p>>
  BY <1>3, <1>4, <1>5
<1>7. ASSUME NEW g \in DOMAIN gs, NEW q \in 1..Len(gs[g])
      PROVE  g \in DOMAIN new /\ q \in 1..Len(new[g]) /\ new[g][q] = gs[g][q]
  <2>1. CASE g = t
    BY <1>3, <1>5, <1>6, <2>1
  <2>2. CASE g # t
    BY <1>5, <2>2
  <2> QED
    BY <2>1, <2>2
<1>8. ASSUME NEW g \in DOMAIN new, NEW q \in 1..Len(new[g])
      PROVE  \/ g \in DOMAIN gs /\ q \in 1..Len(gs[g]) /\ new[g][q] = gs[g][q]
             \/ g = t /\ \E p \in 1..m : new[g][q] = <<k, p>>
  <2>1. CASE g # t
    BY <1>5, <2>1
  <2>2. CASE g = t /\ q \in 1..Len(old)
    <3>1. t \in DOMAIN gs
      BY <1>5, <2>2
    <3> QED
      BY <1>5, <1>6, <2>2, <3>1
  <2>3. CASE g = t /\ q \notin 1..Len(old)
    <3>1. q - Len(old) \in 1..m /\ q = Len(old) + (q - Len(old))
      BY <1>3, <1>6, <2>3
    <3> QED
      BY <1>6, <2>3, <3>1
  <2> QED
    BY <2>1, <2>2, <2>3
<1>9. ASSUME NEW g \in DOMAIN new PROVE Len(new[g]) > 0
  <2>1. CASE g = t
    BY <1>3, <1>6, <2>1
  <2>2. CASE g # t
    BY <1>5, <2>2 DEF Sections
  <2> QED
    BY <2>1, <2>2
<1>10. ASSUME NEW g \in DOMAIN new, NEW q \in 1..Len(new[g])
       PROVE  \E a \in 1..k : \E p \in 1..blocks[a].length : new[g][q] = <<a, p>>
  <2>1. CASE g \in DOMAIN gs /\ q \in 1..Len(gs[g]) /\ new[g][q] = gs[g][q]
    <3>1. PICK a \in 1..(k - 1) : \E p \in 1..blocks[a].length : gs[g][q] = <<a, p>>
      BY <2>1 DEF Sections
    <3>2. a \in 1..k
      BY <1>2
    <3> QED
      BY <2>1, <3>1, <3>2
  <2>2. CASE g = t /\ \E p \in 1..m : new[g][q] = <<k, p>>
    <3>1. k \in 1..k
      BY <1>2
    <3> QED
      BY <1>3, <2>2, <3>1
  <2> QED
    BY <1>8, <2>1, <2>2
<1>11. ASSUME NEW a \in 1..k, NEW p \in 1..blocks[a].length
       PROVE  \E g \in DOMAIN new : \E q \in 1..Len(new[g]) : new[g][q] = <<a, p>>
  <2>1. CASE a = k
    <3>1. p \in 1..m /\ Len(old) + p \in 1..Len(new[t])
      BY <1>3, <1>6, <2>1
    <3> QED
      BY <1>5, <1>6, <2>1, <3>1
  <2>2. CASE a # k
    <3>1. a \in 1..(k - 1)
      BY <1>2, <2>2
    <3>2. PICK g \in DOMAIN gs : \E q \in 1..Len(gs[g]) : gs[g][q] = <<a, p>>
      BY <3>1 DEF Sections
    <3> QED
      BY <1>7, <3>2
  <2> QED
    BY <2>1, <2>2
<1>12. ASSUME NEW g \in DOMAIN new, NEW h \in DOMAIN new, g # h,
              NEW q \in 1..Len(new[g]), NEW r \in 1..Len(new[h])
       PROVE  new[g][q][1] # new[h][r][1]
  <2>1. \A f \in DOMAIN gs : \A p \in 1..Len(gs[f]) : gs[f][p][1] # k
    <3> SUFFICES ASSUME NEW f \in DOMAIN gs, NEW p \in 1..Len(gs[f]) PROVE gs[f][p][1] # k
      OBVIOUS
    <3>1. PICK a \in 1..(k - 1) : \E b \in 1..blocks[a].length : gs[f][p] = <<a, b>>
      BY DEF Sections
    <3>2. gs[f][p][1] = a /\ a # k
      BY <1>2, <3>1
    <3> QED
      BY <3>2
  <2>2. CASE g = t /\ \E p \in 1..m : new[g][q] = <<k, p>>
    <3>1. h \in DOMAIN gs /\ r \in 1..Len(gs[h]) /\ new[h][r] = gs[h][r]
      BY <1>8, <1>12, <2>2
    <3> QED
      BY <2>1, <2>2, <3>1
  <2>3. CASE h = t /\ \E p \in 1..m : new[h][r] = <<k, p>>
    <3>1. g \in DOMAIN gs /\ q \in 1..Len(gs[g]) /\ new[g][q] = gs[g][q]
      BY <1>8, <1>12, <2>3
    <3> QED
      BY <2>1, <2>3, <3>1
  <2>4. CASE /\ g \in DOMAIN gs /\ q \in 1..Len(gs[g]) /\ new[g][q] = gs[g][q]
             /\ h \in DOMAIN gs /\ r \in 1..Len(gs[h]) /\ new[h][r] = gs[h][r]
    BY <1>12, <2>4 DEF Sections
  <2> QED
    BY <1>8, <2>2, <2>3, <2>4
<1> QED
  <2>1. Sections(k, new)
    BY <1>2, <1>9, <1>10, <1>11, <1>12, ZenonT(40) DEF Sections
  <2> QED
    BY <1>1, <2>1

\* So the sections of a document are made of all its blocks.
LEMMA GroupsAreSections ==
  ASSUME blocks \in Seq(Block)
  PROVE  Sections(Len(blocks), Groups)
<1>1. PICK n \in Nat : n = Len(blocks)
  OBVIOUS
<1>2. PICK f : /\ f[0] = <<>> /\ Groups = f[Len(blocks)]
               /\ \A k \in 1..Len(blocks) : f[k] = AddBlock(f[k - 1], k)
  BY GroupsFold
<1> DEFINE G == {k \in 0..n : Sections(k, f[k])}
<1>3. 0 \in G
  <2>1. Sections(0, <<>>)
    BY DEF Sections
  <2> QED
    BY <1>2, <2>1
<1>4. ASSUME NEW k \in 1..n, k - 1 \in G PROVE k \in G
  BY <1>1, <1>2, <1>4, AddBlockKeeps
<1> HIDE DEF G
<1>5. 0..n \subseteq G
  BY <1>3, <1>4, PrefixInduction
<1> QED
  BY <1>1, <1>2, <1>5 DEF G

\* Joining one sequence after the other

Joins(seqs, n, f) == f = [i \in 1..n |-> IF i = 1 THEN seqs[i] ELSE f[i - 1] \o seqs[i]]

LEMMA JoinsExist ==
  ASSUME NEW n \in Nat, NEW seqs
  PROVE  \E f : Joins(seqs, n, f)
<1> DEFINE G == {k \in 0..n : \E f : Joins(seqs, k, f)}
<1>1. 0 \in G
  <2>1. Joins(seqs, 0, <<>>)
    BY DEF Joins
  <2> QED
    BY <2>1
<1>2. ASSUME NEW k \in 1..n, k - 1 \in G PROVE k \in G
  <2>1. PICK f : Joins(seqs, k - 1, f)
    BY <1>2
  <2>2. PICK g : g = [i \in 1..k |-> IF i = 1 THEN seqs[i] ELSE f[i - 1] \o seqs[i]]
    OBVIOUS
  <2>3. ASSUME NEW i \in 1..(k - 1) PROVE g[i] = f[i]
    <3>1. f[i] = IF i = 1 THEN seqs[i] ELSE f[i - 1] \o seqs[i]
      BY <2>1 DEF Joins
    <3>2. i \in 1..k
      OBVIOUS
    <3> QED
      BY <2>2, <3>1, <3>2
  <2>4. \A i \in 1..k : i # 1 => i - 1 \in 1..(k - 1)
    OBVIOUS
  <2>5. g = [i \in 1..k |-> IF i = 1 THEN seqs[i] ELSE g[i - 1] \o seqs[i]]
    BY <2>2, <2>3, <2>4
  <2>6. Joins(seqs, k, g)
    BY <2>5 DEF Joins
  <2> QED
    BY <2>6
<1> HIDE DEF G
<1>3. n \in G
  BY <1>1, <1>2, PrefixInduction
<1> QED
  BY <1>3 DEF G

LEMMA FlattenJoins ==
  ASSUME NEW T, NEW seqs \in Seq(Seq(T))
  PROVE  \E f : /\ f[0] = <<>> /\ FlattenSeq(seqs) = f[Len(seqs)]
                /\ \A k \in 1..Len(seqs) : f[k] = f[k - 1] \o seqs[k]
<1>1. PICK n \in Nat : n = Len(seqs)
  OBVIOUS
<1>2. CASE n = 0
  <2>1. Len(seqs) = 0 /\ seqs = <<>>
    BY <1>1, <1>2, EmptySeq
  <2>2. FlattenSeq(seqs) = seqs
    BY <2>1 DEF FlattenSeq
  <2>3. PICK f : f = [k \in {0} |-> <<>>]
    OBVIOUS
  <2> QED
    BY <2>1, <2>2, <2>3
<1>3. CASE n # 0
  <2>1. PICK h : h = CHOOSE f : Joins(seqs, n, f)
    OBVIOUS
  <2>2. Joins(seqs, n, h)
    BY <2>1, JoinsExist
  <2>3. FlattenSeq(seqs) = h[n]
    BY <1>1, <1>3, <2>1 DEF FlattenSeq, Joins
  <2>4. PICK f : f = [k \in 0..n |-> IF k = 0 THEN <<>> ELSE h[k]]
    OBVIOUS
  <2>5. f[0] = <<>> /\ f[n] = h[n]
    BY <1>3, <2>4
  <2>6. ASSUME NEW k \in 1..n PROVE f[k] = f[k - 1] \o seqs[k]
    <3>1. CASE k = 1
      <4>1. f[1] = seqs[1] /\ f[0] = <<>> /\ seqs[1] \in Seq(T)
        BY <1>1, <2>2, <2>4, <3>1 DEF Joins
      <4>2. <<>> \o seqs[1] = seqs[1]
        BY <4>1
      <4>3. k - 1 = 0
        BY <3>1
      <4> QED
        BY <3>1, <4>1, <4>2, <4>3
    <3>2. CASE k # 1
      <4>1. k - 1 \in 1..n
        BY <3>2
      <4>2. f[k] = h[k] /\ f[k - 1] = h[k - 1]
        BY <2>4, <4>1
      <4>3. h[k] = h[k - 1] \o seqs[k]
        BY <2>2, <3>2 DEF Joins
      <4> QED
        BY <4>2, <4>3
    <3> QED
      BY <3>1, <3>2
  <2> QED
    BY <1>1, <2>3, <2>5, <2>6
<1> QED
  BY <1>2, <1>3

\* The chunks of the first i sections: runs of them with keys of their own, in
\* which every token is
Covered(gs, i, cs) ==
    /\ cs \in Seq(Chunk)
    /\ \A x \in DOMAIN cs : \E g \in 1..i : IsRun(gs[g], cs[x])
    /\ \A x, y \in DOMAIN cs : x # y =>
        ~(cs[x].anchors = cs[y].anchors /\ cs[x].start = cs[y].start)
    /\ \A g \in 1..i : \A q \in 1..Len(gs[g]) :
        \E x \in DOMAIN cs : \E p \in DOMAIN cs[x].tokens : cs[x].tokens[p] = gs[g][q]

\* A chunk has the anchor of its first token, and only anchors of its section
LEMMA RunAnchors ==
  ASSUME NEW tokens \in Seq(Token), NEW c, IsRun(tokens, c)
  PROVE  /\ \E a \in c.anchors : TRUE
         /\ \A a \in c.anchors : \E q \in 1..Len(tokens) : tokens[q][1] = a
<1>1. c.tokens \in Seq(Token) /\ c.start \in Nat
  BY DEF IsRun, Chunk
<1>2. DOMAIN c.tokens = 1..Len(c.tokens) /\ 1 \in DOMAIN c.tokens
  BY <1>1 DEF IsRun
<1>3. \A p \in DOMAIN c.tokens : c.start + p \in 1..Len(tokens) /\ c.tokens[p] = tokens[c.start + p]
  BY <1>1, <1>2 DEF IsRun
<1>4. c.anchors = {c.tokens[p][1] : p \in DOMAIN c.tokens}
  BY DEF IsRun
<1>5. c.tokens[1][1] \in c.anchors
  BY <1>2, <1>4
<1>6. ASSUME NEW a \in c.anchors PROVE \E q \in 1..Len(tokens) : tokens[q][1] = a
  <2>1. PICK p \in DOMAIN c.tokens : c.tokens[p][1] = a
    BY <1>4
  <2> QED
    BY <1>3, <2>1
<1> QED
  BY <1>5, <1>6

\* The chunks of the next section join those of the sections before it.
LEMMA CoveredGrows ==
  ASSUME NEW n \in Nat, NEW gs, Sections(n, gs), NEW i \in 1..Len(gs), NEW old,
         Covered(gs, i - 1, old), NEW cs, ChunksOf(gs[i], cs)
  PROVE  Covered(gs, i, old \o cs)
<1>1. PICK all : all = old \o cs
  OBVIOUS
<1>2. /\ old \in Seq(Chunk) /\ cs \in Seq(Chunk) /\ all \in Seq(Chunk)
      /\ gs \in Seq(Seq(Token)) /\ i \in DOMAIN gs /\ i \in Nat /\ gs[i] \in Seq(Token)
  BY <1>1 DEF Covered, ChunksOf, Sections
<1>3. /\ \A x \in DOMAIN old : x \in DOMAIN all /\ all[x] = old[x]
      /\ \A y \in DOMAIN cs : Len(old) + y \in DOMAIN all /\ all[Len(old) + y] = cs[y]
  <2>1. /\ Len(old) \in Nat /\ Len(cs) \in Nat /\ DOMAIN old = 1..Len(old)
        /\ DOMAIN cs = 1..Len(cs) /\ DOMAIN all = 1..(Len(old) + Len(cs))
    BY <1>1, <1>2
  <2>2. \A x \in 1..(Len(old) + Len(cs)) : all[x] = IF x <= Len(old) THEN old[x] ELSE cs[x - Len(old)]
    BY <1>1, <1>2, ConcatProperties
  <2>3. ASSUME NEW x \in DOMAIN old PROVE x \in DOMAIN all /\ all[x] = old[x]
    BY <2>1, <2>2
  <2>4. ASSUME NEW y \in DOMAIN cs
        PROVE  Len(old) + y \in DOMAIN all /\ all[Len(old) + y] = cs[y]
    <3>1. /\ Len(old) + y \in 1..(Len(old) + Len(cs)) /\ ~(Len(old) + y <= Len(old))
          /\ Len(old) + y - Len(old) = y
      BY <2>1
    <3> QED
      BY <2>1, <2>2, <3>1
  <2> QED
    BY <2>3, <2>4
<1>4. ASSUME NEW x \in DOMAIN all
      PROVE  x \in DOMAIN old \/ \E y \in DOMAIN cs : x = Len(old) + y
  <2>1. CASE x \in DOMAIN old
    BY <2>1
  <2>2. CASE x \notin DOMAIN old
    <3>1. x - Len(old) \in DOMAIN cs /\ x = Len(old) + (x - Len(old))
      BY <1>1, <1>2, <2>2
    <3> QED
      BY <3>1
  <2> QED
    BY <2>1, <2>2
<1>5. ASSUME NEW x \in DOMAIN all PROVE \E g \in 1..i : IsRun(gs[g], all[x])
  <2>1. CASE x \in DOMAIN old
    <3>1. PICK g \in 1..(i - 1) : IsRun(gs[g], old[x])
      BY <2>1 DEF Covered
    <3>2. g \in 1..i
      BY <1>2
    <3> QED
      BY <1>3, <2>1, <3>1, <3>2
  <2>2. CASE \E y \in DOMAIN cs : x = Len(old) + y
    <3>1. i \in 1..i
      BY <1>2
    <3> QED
      BY <1>3, <2>2, <3>1 DEF ChunksOf
  <2> QED
    BY <1>4, <2>1, <2>2
\* a chunk of this section has no anchor of an earlier one
<1>6. ASSUME NEW x \in DOMAIN old, NEW y \in DOMAIN cs PROVE old[x].anchors # cs[y].anchors
  <2>1. PICK g \in 1..(i - 1) : IsRun(gs[g], old[x])
    BY DEF Covered
  <2>2. g \in DOMAIN gs /\ g # i /\ gs[g] \in Seq(Token)
    BY <1>2
  <2>3. IsRun(gs[i], cs[y])
    BY DEF ChunksOf
  <2>4. PICK a \in old[x].anchors : TRUE
    BY <2>1, <2>2, RunAnchors
  <2>5. PICK q \in 1..Len(gs[g]) : gs[g][q][1] = a
    BY <2>1, <2>2, RunAnchors
  <2>6. SUFFICES ASSUME a \in cs[y].anchors PROVE FALSE
    BY <2>4
  <2>7. PICK r \in 1..Len(gs[i]) : gs[i][r][1] = a
    BY <1>2, <2>3, <2>6, RunAnchors, ZenonT(40)
  <2>8. gs[g][q][1] # gs[i][r][1]
    <3>1. \A e, h \in DOMAIN gs : e # h =>
            \A b \in 1..Len(gs[e]), d \in 1..Len(gs[h]) : gs[e][b][1] # gs[h][d][1]
      BY DEF Sections
    <3> QED
      BY <1>2, <2>2, <3>1
  <2> QED
    BY <2>5, <2>7, <2>8
<1>7. ASSUME NEW x \in DOMAIN all, NEW y \in DOMAIN all, x # y
      PROVE  ~(all[x].anchors = all[y].anchors /\ all[x].start = all[y].start)
  <2>1. CASE x \in DOMAIN old /\ y \in DOMAIN old
    BY <1>3, <1>7, <2>1 DEF Covered
  <2>2. CASE x \in DOMAIN old /\ \E z \in DOMAIN cs : y = Len(old) + z
    BY <1>3, <1>6, <2>2
  <2>3. CASE y \in DOMAIN old /\ \E z \in DOMAIN cs : x = Len(old) + z
    BY <1>3, <1>6, <2>3
  <2>4. CASE /\ \E z \in DOMAIN cs : x = Len(old) + z
             /\ \E z \in DOMAIN cs : y = Len(old) + z
    <3>1. PICK v \in DOMAIN cs : x = Len(old) + v
      BY <2>4
    <3>2. PICK w \in DOMAIN cs : y = Len(old) + w
      BY <2>4
    <3>3. v # w /\ all[x] = cs[v] /\ all[y] = cs[w]
      BY <1>3, <1>7, <3>1, <3>2
    <3> QED
      BY <3>3 DEF ChunksOf
  <2> QED
    BY <1>4, <2>1, <2>2, <2>3, <2>4
<1>8. ASSUME NEW g \in 1..i, NEW q \in 1..Len(gs[g])
      PROVE  \E x \in DOMAIN all : \E p \in DOMAIN all[x].tokens : all[x].tokens[p] = gs[g][q]
  <2>1. CASE g = i
    <3>1. PICK y \in DOMAIN cs : Reaches(cs[y], q)
      BY <2>1 DEF ChunksOf
    <3>2. IsRun(gs[i], cs[y])
      BY DEF ChunksOf
    <3>3. cs[y].tokens \in Seq(Token) /\ cs[y].start \in Nat
      BY <3>2 DEF IsRun, Chunk
    <3>4. /\ q - cs[y].start \in 1..Len(cs[y].tokens) /\ q - cs[y].start \in DOMAIN cs[y].tokens
          /\ cs[y].start + (q - cs[y].start) = q
      <4>1. PICK start, length : start = cs[y].start /\ length = Len(cs[y].tokens)
        OBVIOUS
      <4>2. start \in Nat /\ length \in Nat /\ DOMAIN cs[y].tokens = 1..length
        BY <3>3, <4>1
      <4>3. q \in (start + 1)..(start + length)
        BY <3>1, <4>1 DEF Reaches
      <4>4. q - start \in 1..length /\ start + (q - start) = q
        BY <4>2, <4>3
      <4> QED
        BY <4>1, <4>2, <4>4
    <3>5. cs[y].tokens[q - cs[y].start] = gs[g][q]
      BY <2>1, <3>2, <3>4 DEF IsRun
    <3>6. Len(old) + y \in DOMAIN all /\ all[Len(old) + y] = cs[y]
      BY <1>3
    <3> QED
      BY <3>4, <3>5, <3>6
  <2>2. CASE g # i
    <3>1. g \in 1..(i - 1)
      BY <1>2, <2>2
    <3>2. PICK x \in DOMAIN old :
            \E p \in DOMAIN old[x].tokens : old[x].tokens[p] = gs[g][q]
      BY <3>1 DEF Covered
    <3> QED
      BY <1>3, <3>2
  <2> QED
    BY <2>1, <2>2
<1>9. Covered(gs, i, all)
  BY <1>2, <1>5, <1>7, <1>8 DEF Covered
<1> QED
  BY <1>1, <1>9

\* The chunks of all sections, one section after the other
LEMMA DocumentsAreCovered ==
  ASSUME blocks \in Seq(Block)
  PROVE  Covered(Groups, Len(Groups), DocumentChunks)
<1>1. PICK gs, n : gs = Groups /\ n = Len(blocks)
  OBVIOUS
<1>2. n \in Nat /\ Sections(n, gs)
  BY <1>1, GroupsAreSections
<1>3. PICK seqs : seqs = [i \in DOMAIN gs |-> ChunksOfGroup(gs[i])]
  OBVIOUS
<1>4. gs \in Seq(Seq(Token)) /\ \A i \in DOMAIN gs : Len(gs[i]) > 0
  BY <1>2 DEF Sections
<1>5. PICK m \in Nat : m = Len(gs) /\ DOMAIN gs = 1..m
  BY <1>4
<1>6. ASSUME NEW i \in 1..m PROVE ChunksOf(gs[i], seqs[i])
  <2>1. gs[i] \in Seq(Token) /\ Len(gs[i]) > 0
    <3>1. i \in DOMAIN gs
      BY <1>5
    <3> QED
      BY <1>4, <3>1
  <2>2. seqs[i] = ChunksOfGroup(gs[i])
    BY <1>3, <1>5
  <2> QED
    BY <2>1, <2>2, SectionsAreCovered
<1>7. seqs \in Seq(Seq(Chunk)) /\ Len(seqs) = m
  <2>1. \A i \in 1..m : seqs[i] \in Seq(Chunk)
    BY <1>6 DEF ChunksOf
  <2>2. seqs = [i \in 1..m |-> seqs[i]]
    BY <1>3, <1>5
  <2> QED
    BY <2>1, <2>2
<1>8. PICK f : /\ f[0] = <<>> /\ FlattenSeq(seqs) = f[Len(seqs)]
               /\ \A k \in 1..Len(seqs) : f[k] = f[k - 1] \o seqs[k]
  BY <1>7, FlattenJoins
<1> DEFINE G == {i \in 0..m : Covered(gs, i, f[i])}
<1>9. 0 \in G
  <2>1. Covered(gs, 0, <<>>)
    BY DEF Covered
  <2> QED
    BY <1>8, <2>1
<1>10. ASSUME NEW k \in 1..m, k - 1 \in G PROVE k \in G
  <2>1. Covered(gs, k - 1, f[k - 1]) /\ k \in 1..Len(gs)
    BY <1>5, <1>10
  <2>2. Covered(gs, k, f[k - 1] \o seqs[k])
    BY <1>2, <1>6, <2>1, CoveredGrows
  <2>3. f[k] = f[k - 1] \o seqs[k]
    BY <1>7, <1>8
  <2>4. Covered(gs, k, f[k]) /\ k \in 0..m
    BY <2>2, <2>3
  <2> QED
    BY <2>4
<1> HIDE DEF G
<1>11. 0..m \subseteq G
  BY <1>9, <1>10, PrefixInduction
<1>12. DocumentChunks = f[m]
  BY <1>1, <1>3, <1>7, <1>8 DEF DocumentChunks
<1> QED
  BY <1>1, <1>5, <1>11, <1>12 DEF G

\* A document has blocks of a token or more.
LEMMA BlocksAreBlocks == ChunkingSpec => [](blocks \in Seq(Block))
<1>1. ChunkingInit => blocks \in Seq(Block)
  BY DEF ChunkingInit
<1>2. ASSUME blocks \in Seq(Block), [ChunkingNext]_blocks PROVE (blocks \in Seq(Block))'
  <2>1. ASSUME NEW kind \in {"heading", "paragraph"}, NEW l \in Lengths, AppendBlock(kind, l)
        PROVE  (blocks \in Seq(Block))'
    <3>1. [kind |-> kind, length |-> l] \in Block
      BY ChunkingAssumption DEF Block
    <3> QED
      BY <1>2, <2>1, <3>1 DEF AppendBlock
  <2>2. CASE UNCHANGED blocks
    BY <1>2, <2>2
  <2> QED
    BY <1>2, <2>1, <2>2 DEF ChunkingNext
<1> QED
  BY <1>1, <1>2, PTL DEF ChunkingSpec

\* The chunks of any document, whatever the lengths of its sections and the
\* overlap, hold every token of it; each is a run of one section that begins
\* where it says and is no longer than may be, and no two have the same key
\* (structural_chunks_from_manifest and _chunks_for_group of
\* document_indexing.py).
THEOREM DocumentsAreChunkedWhole == ChunkingSpec => []ChunksCoverTheText
<1>1. ASSUME blocks \in Seq(Block) PROVE ChunksCoverTheText
  <2>1. PICK gs, n : gs = Groups /\ n = Len(blocks)
    OBVIOUS
  <2>2. PICK all : all = DocumentChunks
    OBVIOUS
  <2>3. n \in Nat /\ Sections(n, gs) /\ Covered(gs, Len(gs), all)
    BY <1>1, <2>1, <2>2, GroupsAreSections, DocumentsAreCovered
  <2>4. PICK m \in Nat : m = Len(gs) /\ DOMAIN gs = 1..m
    BY <2>3 DEF Sections
  <2>5. \A g \in 1..m : gs[g] \in Seq(Token)
    BY <2>3, <2>4 DEF Sections
  <2>6. \A x \in DOMAIN all : \E g \in 1..m : IsRun(gs[g], all[x])
    BY <2>3, <2>4 DEF Covered
  <2>7. \A x \in DOMAIN all : DOMAIN all[x].tokens = 1..Len(all[x].tokens) /\ all[x].start \in Nat
    BY <2>6 DEF IsRun, Chunk
  <2>8. DOMAIN blocks = 1..n
    BY <1>1, <2>1
  <2>9. ASSUME NEW x \in DOMAIN all, NEW p \in DOMAIN all[x].tokens
        PROVE  all[x].tokens[p] \in UNION {{<<a, b>> : b \in 1..blocks[a].length} : a \in DOMAIN blocks}
    <3>1. PICK g \in 1..m : IsRun(gs[g], all[x])
      BY <2>6
    <3>2. PICK q : q = all[x].start + p
      OBVIOUS
    <3>3. q \in 1..Len(gs[g]) /\ all[x].tokens[p] = gs[g][q] /\ g \in DOMAIN gs
      <4>1. /\ Len(all[x].tokens) \in Nat /\ all[x].start + Len(all[x].tokens) <= Len(gs[g])
            /\ \A r \in 1..Len(all[x].tokens) : all[x].tokens[r] = gs[g][all[x].start + r]
        BY <3>1 DEF IsRun
      <4>2. Len(gs[g]) \in Nat /\ all[x].start \in Nat /\ p \in 1..Len(all[x].tokens)
        BY <2>5, <2>7
      <4> QED
        BY <2>4, <3>2, <4>1, <4>2
    <3>4. PICK a \in 1..n : \E b \in 1..blocks[a].length : gs[g][q] = <<a, b>>
      BY <2>3, <3>3 DEF Sections
    <3> QED
      BY <2>8, <3>3, <3>4
  <2>10. ASSUME NEW a \in DOMAIN blocks, NEW b \in 1..blocks[a].length
         PROVE  \E x \in DOMAIN all : \E p \in DOMAIN all[x].tokens : all[x].tokens[p] = <<a, b>>
    <3>1. PICK g \in DOMAIN gs : \E q \in 1..Len(gs[g]) : gs[g][q] = <<a, b>>
      BY <2>3, <2>8 DEF Sections
    <3>2. PICK q \in 1..Len(gs[g]) : gs[g][q] = <<a, b>>
      BY <3>1
    <3>3. g \in 1..Len(gs)
      BY <2>4
    <3>4. \E x \in DOMAIN all : \E p \in DOMAIN all[x].tokens : all[x].tokens[p] = gs[g][q]
      BY <2>3, <3>3 DEF Covered
    <3> QED
      BY <3>2, <3>4
  <2>11. UNION {{all[i].tokens[p] : p \in DOMAIN all[i].tokens} : i \in DOMAIN all}
            = UNION {{<<a, p>> : p \in 1..blocks[a].length} : a \in DOMAIN blocks}
    <3>1. UNION {{all[i].tokens[p] : p \in DOMAIN all[i].tokens} : i \in DOMAIN all}
            \subseteq UNION {{<<a, p>> : p \in 1..blocks[a].length} : a \in DOMAIN blocks}
      <4> SUFFICES ASSUME NEW i \in DOMAIN all, NEW p \in DOMAIN all[i].tokens
                   PROVE  all[i].tokens[p]
                            \in UNION {{<<a, b>> : b \in 1..blocks[a].length} : a \in DOMAIN blocks}
        OBVIOUS
      <4> QED
        BY <2>9
    <3>2. UNION {{<<a, p>> : p \in 1..blocks[a].length} : a \in DOMAIN blocks}
            \subseteq UNION {{all[i].tokens[p] : p \in DOMAIN all[i].tokens} : i \in DOMAIN all}
      <4> SUFFICES ASSUME NEW a \in DOMAIN blocks, NEW b \in 1..blocks[a].length
                   PROVE  \E i \in DOMAIN all : \E p \in DOMAIN all[i].tokens :
                            all[i].tokens[p] = <<a, b>>
        OBVIOUS
      <4> QED
        BY <2>10
    <3> QED
      BY <3>1, <3>2
  <2>12. ASSUME NEW i \in DOMAIN all
         PROVE  /\ Len(all[i].tokens) \in 1..MaxTokens
                /\ \E g \in DOMAIN gs :
                    /\ all[i].start + Len(all[i].tokens) <= Len(gs[g])
                    /\ \A p \in DOMAIN all[i].tokens : all[i].tokens[p] = gs[g][all[i].start + p]
    <3>1. PICK g \in 1..m : IsRun(gs[g], all[i])
      BY <2>6
    <3> QED
      BY <2>4, <2>7, <3>1 DEF IsRun
  <2>13. \A i, j \in DOMAIN all : i # j =>
            <<all[i].anchors, all[i].start>> # <<all[j].anchors, all[j].start>>
    BY <2>3 DEF Covered
  <2> QED
    BY <2>1, <2>2, <2>11, <2>12, <2>13 DEF ChunksCoverTheText
<1> QED
  BY <1>1, BlocksAreBlocks, PTL
=============================================================================
