-------------------------- MODULE VersionComparison --------------------------
(***************************************************************************)
(* Comparisons of the versions of one agreement: create() of               *)
(* comparisons/service.py, the worker's version_comparison_processor.py    *)
(* inside commit_prepared() of processing.py, the alignment of             *)
(* version_alignment.py and the materiality of version_materiality.py.     *)
(* Versions are numbered, a completed job of a version has an artifact:    *)
(* an analysis (the elements of the document), a comparison, or none at    *)
(* all (a reindex job).  A text is the set of its words, and the ratio of  *)
(* two texts is that of their common words; scores are percentages.        *)
(***************************************************************************)
EXTENDS Naturals, FiniteSets, Sequences, SequencesExt, FiniteSetsExt

CONSTANTS
    Versions,      \* 1..n
    Contents,      \* what a version may say: sequences of elements, each of a
                   \* text, a clause type or Absent and a heading or Absent
    Providers,     \* severities the model may answer, Absent when it does not
    Comparers,     \* calls of create() that may overlap
    MaxReindexed, MaxCompared, MaxTries,  \* BOUNDS
    Comparing,     \* workers
    Absent

ASSUME ComparisonAssumption ==
    /\ MaxReindexed \in Nat /\ MaxCompared \in Nat /\ MaxTries \in Nat \ {0}
    /\ Absent \in Providers /\ Providers \subseteq 0..3 \cup {Absent}
    /\ \A content \in Contents :
        /\ Len(content) \in Nat /\ DOMAIN content = 1..Len(content)
        /\ \A i \in DOMAIN content : IsFiniteSet(content[i].text)

VARIABLES
    versionState,   \* agreement_versions.processing_state
    versionJobs,    \* the processing_jobs rows, in the order of their random ids
    comparisons,    \* version_comparison_runs, with their changes
    written,        \* the comparison objects in S3
    requested,      \* what each call of create() has read
    inHand          \* what each worker has claimed and prepared

comparisonVars == <<versionState, versionJobs, comparisons, written, requested, inHand>>

Grave == {"liability", "indemnity", "termination", "governing_law"}
Ordinary == {"parties", "obligation", "numbers", "dates"}

-----------------------------------------------------------------------------
\* One element and another, out of n and m: _compatible_clause_type,
\* _position_distance, _token_coverage, _candidate_score
CompatibleType(e, f) == e.type = Absent \/ f.type = Absent \/ e.type = f.type
Distance(i, n, j, m) ==
    LET at == (100 * (i - 1)) \div Max({n - 1, 1})
        to == (100 * (j - 1)) \div Max({m - 1, 1})
    IN  IF at > to THEN at - to ELSE to - at
Covers(e, f) ==
    IF e.text = {} THEN 0 ELSE (100 * Cardinality(e.text \cap f.text)) \div Cardinality(e.text)
Score(e, i, n, f, j, m) ==
    LET ratio == IF e.text \cup f.text = {} THEN 100
                 ELSE (200 * Cardinality(e.text \cap f.text))
                        \div (Cardinality(e.text) + Cardinality(f.text))
        heading == IF e.heading = f.heading THEN 100 ELSE 0
        taxonomy == IF e.type = Absent /\ f.type = Absent THEN 50
                    ELSE IF e.type = Absent \/ f.type = Absent THEN 25
                    ELSE IF e.type = f.type THEN 100 ELSE 0
    IN  (65 * ratio + 20 * heading + 10 * taxonomy + 5 * (100 - Distance(i, n, j, m))) \div 100

Alignment(kind, from, to, confidence) ==
    [kind |-> kind, from |-> from, to |-> to, confidence |-> confidence]
Paired(i, n, j, m, confidence) ==
    Alignment(IF Distance(i, n, j, m) >= 25 THEN "moved" ELSE "matched", {i}, {j}, confidence)

\* The alignment so far: the elements without a partner, and the pairs
Unaligned(a, b) == [left |-> DOMAIN a, right |-> DOMAIN b, pairs |-> {}]
Align(state, from, to, pair) ==
    [left |-> state.left \ from, right |-> state.right \ to, pairs |-> state.pairs \cup {pair}]

\* The elements that say what i says, none of which has a partner
SameText(a, b, s, i) == {j \in s.right : b[j].text = a[i].text /\ CompatibleType(a[i], b[j])}

\* Mutant: an exact match leaves its target for others
AlignsTwice(a, b, s, i) ==
    LET j == CHOOSE j \in SameText(a, b, s, i) : TRUE
    IN  IF i \notin s.left \/ Cardinality(SameText(a, b, s, i)) # 1 THEN s
        ELSE Align(s, {i}, {}, Paired(i, Len(a), j, Len(b), 100))
AlignExact(a, b, s, i) ==
    LET j == CHOOSE j \in SameText(a, b, s, i) : TRUE
    IN  IF i \notin s.left \/ Cardinality(SameText(a, b, s, i)) # 1 THEN s
        ELSE Align(s, {i}, {j}, Paired(i, Len(a), j, Len(b), 100))
\* _align_exact_elements: the same text, in one place only
AlignExactElements(a, b, state) ==
    FoldLeft(LAMBDA s, i : AlignExact(a, b, s, i), state, [i \in DOMAIN a |-> i])

Both(e, f) ==
    [text |-> e.text \cup f.text, type |-> IF e.type = f.type THEN e.type ELSE Absent,
     heading |-> e.heading]
Together(b, j) == Both(b[j], b[j + 1])
GroupConfidence(a, i, b, j) ==
    Max({Score(a[i], i, Len(a), Together(b, j), j, Len(b)), Covers(a[i], Together(b, j))})
\* two free neighbours that cover the element together and neither alone
GroupCandidates(a, i, b, free) ==
    {j \in free :
        /\ j + 1 \in free
        /\ CompatibleType(a[i], b[j]) \/ CompatibleType(a[i], b[j + 1])
        /\ Covers(a[i], Together(b, j)) >= 76
        /\ Covers(a[i], Together(b, j)) >=
                15 + Max({Covers(a[i], b[j]), Covers(a[i], b[j + 1])})}
\* _best_group_candidate: the first of the best; Absent if there are none
BestGroup(a, i, b, free) ==
    LET candidates == GroupCandidates(a, i, b, free)
        best == CHOOSE j \in candidates : \A k \in candidates :
                    \/ GroupConfidence(a, i, b, k) < GroupConfidence(a, i, b, j)
                    \/ GroupConfidence(a, i, b, k) = GroupConfidence(a, i, b, j) /\ j <= k
    IN  IF candidates = {} THEN Absent
        ELSE [first |-> best, confidence |-> GroupConfidence(a, i, b, best)]

\* _align_adjacent_groups: splits, then merges
AlignSplit(a, b, s, i) ==
    LET best == BestGroup(a, i, b, s.right)
        to == {best.first, best.first + 1}
    IN  IF i \notin s.left \/ best = Absent THEN s
        ELSE Align(s, {i}, to, Alignment("split", {i}, to, best.confidence))
AlignMerge(a, b, s, j) ==
    LET best == BestGroup(b, j, a, s.left)
        from == {best.first, best.first + 1}
    IN  IF j \notin s.right \/ best = Absent THEN s
        ELSE Align(s, from, {j}, Alignment("merged", from, {j}, best.confidence))
AlignAdjacentGroups(a, b, state) ==
    FoldLeft(LAMBDA s, j : AlignMerge(a, b, s, j),
             FoldLeft(LAMBDA s, i : AlignSplit(a, b, s, i), state, [i \in DOMAIN a |-> i]),
             [j \in DOMAIN b |-> j])

\* _align_remaining_pairs: the best scores first, no worse than 45
PairScore(a, b, p) == Score(a[p[1]], p[1], Len(a), b[p[2]], p[2], Len(b))
ScoredPairs(a, b, state) ==
    {p \in state.left \X state.right :
        CompatibleType(a[p[1]], b[p[2]]) /\ PairScore(a, b, p) >= 45}
Before(a, b, p, q) ==
    \/ PairScore(a, b, p) > PairScore(a, b, q)
    \/ PairScore(a, b, p) = PairScore(a, b, q) /\ p[1] < q[1]
    \/ PairScore(a, b, p) = PairScore(a, b, q) /\ p[1] = q[1] /\ p[2] < q[2]
AlignPair(a, b, s, p) ==
    IF p[1] \in s.left /\ p[2] \in s.right
    THEN Align(s, {p[1]}, {p[2]}, Paired(p[1], Len(a), p[2], Len(b), PairScore(a, b, p)))
    ELSE s
AlignRemainingPairs(a, b, state) ==
    MapThenFoldSet(LAMBDA p, s : AlignPair(a, b, s, p), state, LAMBDA p : p,
        LAMBDA rest : CHOOSE p \in rest : \A q \in rest \ {p} : Before(a, b, q, p),
        ScoredPairs(a, b, state))

\* align_versions
AlignVersions(a, b) ==
    LET aligned == AlignRemainingPairs(a, b,
                    AlignAdjacentGroups(a, b, AlignExactElements(a, b, Unaligned(a, b))))
    IN  aligned.pairs \cup {Alignment("removed", {i}, {}, 100) : i \in aligned.left}
                      \cup {Alignment("added", {}, {j}, 100) : j \in aligned.right}

-----------------------------------------------------------------------------
\* _severity of a change, whose words are its concepts: 0 is low, 3 critical
ChangeSeverity(pair, old, new) ==
    LET words == old \cup new
    IN  IF pair.kind = "moved" /\ old = new /\ pair.confidence >= 75 THEN 0
        ELSE IF \/ pair.kind \in {"added", "removed"} /\ words \cap Grave # {}
                \/ {"liability", "numbers"} \subseteq words THEN 3
        ELSE IF words \cap Grave # {} THEN 2
        ELSE IF words \cap Ordinary # {} THEN 1 ELSE 0

\* assess_materiality_with_model and augment_materiality: the model may raise
\* the severity and nothing else
Change(a, b, pair, answered) ==
    LET old == UNION {a[i].text : i \in pair.from}
        new == UNION {b[j].text : j \in pair.to}
        severity == ChangeSeverity(pair, old, new)
    IN  [pair |-> pair,
         severity |-> IF answered # Absent /\ answered >= severity THEN answered ELSE severity,
         review |-> pair.confidence < 75 \/ severity = 3]

Changes(a, b, answered) == {Change(a, b, pair, answered) : pair \in AlignVersions(a, b)}

-----------------------------------------------------------------------------
ComparisonInit ==
    /\ versionState = [v \in Versions |-> "queued"]
    /\ versionJobs = <<>>
    /\ comparisons = {}
    /\ written = {}
    /\ requested = [c \in Comparers |-> Absent]
    /\ inHand = [w \in Comparing |-> Absent]

\* A job's id is random: it may come anywhere among the others.
Insert(job) ==
    \E i \in 1..(Len(versionJobs) + 1) : versionJobs' = InsertAt(versionJobs, i, job)
JobOf(id) == CHOOSE i \in DOMAIN versionJobs : versionJobs[i].id = id
Compared(i) == versionJobs[i].id[1] = "compare"

\* a worker that has reached the objects in S3 holds the agreement's row
Committing == \E w \in Comparing : inHand[w] # Absent /\ inHand[w].put

\* the analysis of a version completes
AnalyseVersion(v, content) ==
    /\ versionState[v] = "queued"
    /\ \A i \in DOMAIN versionJobs : versionJobs[i].version # v
    /\ versionState' = [versionState EXCEPT ![v] = "completed"]
    /\ Insert([id |-> <<"analyse", v>>, version |-> v, state |-> "completed", tries |-> 1,
               holder |-> Absent, artifact |-> [kind |-> "analysis", elements |-> content]])
    /\ UNCHANGED <<comparisons, written, requested, inHand>>

\* a reindex job of the version completes: it leaves no artifact
ReindexVersion(v) ==
    /\ versionState[v] = "completed"
    /\ Cardinality({i \in DOMAIN versionJobs : versionJobs[i].id[1] = "reindex"}) < MaxReindexed
    /\ \A i \in DOMAIN versionJobs : versionJobs[i].id # <<"reindex", v>>
    /\ Insert([id |-> <<"reindex", v>>, version |-> v, state |-> "completed", tries |-> 1,
               holder |-> Absent, artifact |-> Absent])
    /\ UNCHANGED <<versionState, comparisons, written, requested, inHand>>

\* create() resolves the two versions, and finds no comparison of theirs ...
RequestComparison(c, from, to) ==
    /\ requested[c] = Absent
    /\ from < to /\ versionState[from] = "completed" /\ versionState[to] = "completed"
    /\ ~\E r \in comparisons : r.from = from /\ r.to = to
    /\ requested' = [requested EXCEPT ![c] = [from |-> from, to |-> to]]
    /\ UNCHANGED <<versionState, versionJobs, comparisons, written, inHand>>

\* ... and adds one with its job, or answers with the one a colleague added
CreateComparison(c) ==
    /\ requested[c] # Absent
    /\ ~Committing
    /\ LET from == requested[c].from
           to == requested[c].to
           id == <<"compare", <<from, to>>>>
       IN  IF \E r \in comparisons : r.from = from /\ r.to = to
           THEN UNCHANGED <<versionJobs, comparisons>>
           ELSE /\ Cardinality(comparisons) < MaxCompared
                /\ Insert([id |-> id, version |-> to, state |-> "queued", tries |-> 0,
                           holder |-> Absent, artifact |-> Absent])
                /\ comparisons' = comparisons \cup
                    {[from |-> from, to |-> to, state |-> "queued", changes |-> Absent]}
    /\ requested' = [requested EXCEPT ![c] = Absent]
    /\ UNCHANGED <<versionState, written, inHand>>

RunOf(id) == CHOOSE r \in comparisons : <<r.from, r.to>> = id[2]
SetRun(id, state, changes) ==
    comparisons' = (comparisons \ {RunOf(id)})
        \cup {[RunOf(id) EXCEPT !.state = state, !.changes = changes]}

\* claim(), which also says that the version is being processed
ClaimComparison(w, i) ==
    /\ inHand[w] = Absent
    /\ ~Committing
    /\ Compared(i)
    /\ \/ versionJobs[i].state = "queued"
       \/ versionJobs[i].state = "processing" /\ versionJobs[i].holder = Absent
    /\ versionJobs' = [versionJobs EXCEPT ![i] =
            [@ EXCEPT !.state = "processing", !.tries = @ + 1, !.holder = w]]
    /\ versionState' = [versionState EXCEPT ![versionJobs[i].version] = "processing"]
    /\ inHand' = [inHand EXCEPT ![w] = [id |-> versionJobs[i].id, changes |-> Absent, put |-> FALSE]]
    /\ UNCHANGED <<comparisons, written, requested>>

\* a claim's lease expires, its holder still at work or not
ClaimExpires(i) ==
    /\ versionJobs[i].holder # Absent
    /\ ~Committing
    /\ versionJobs[i].tries < MaxTries
    /\ versionJobs' = [versionJobs EXCEPT ![i] = [@ EXCEPT !.holder = Absent]]
    /\ UNCHANGED <<versionState, comparisons, written, requested, inHand>>

\* _artifact_key_for_version: of the version's completed jobs, whatever they
\* did, the one with the greatest id
SourceFor(v) ==
    LET done == {i \in DOMAIN versionJobs :
                    versionJobs[i].version = v /\ versionJobs[i].state = "completed"}
    IN  versionJobs[Max(done)].artifact
IsAnalysis(source) == IF source = Absent THEN FALSE ELSE source.kind = "analysis"

\* prepare(), from two analyses
PrepareComparison(w, answered) ==
    /\ inHand[w] # Absent /\ inHand[w].changes = Absent
    /\ LET pair == inHand[w].id[2]
           from == SourceFor(pair[1])
           to == SourceFor(pair[2])
       IN  /\ IsAnalysis(from) /\ IsAnalysis(to)
           /\ inHand' = [inHand EXCEPT ![w].changes = Changes(from.elements, to.elements, answered)]
    /\ UNCHANGED <<versionState, versionJobs, comparisons, written, requested>>

\* prepare() raises: for good if there is no artifact, else the job is tried
\* again while it may be; _requeue() and fail() ask for the claim
ComparisonFails(w) ==
    /\ inHand[w] # Absent /\ inHand[w].changes = Absent
    /\ ~Committing
    /\ LET id == inHand[w].id
           i == JobOf(id)
           sources == {SourceFor(v) : v \in {id[2][1], id[2][2]}}
           again == Absent \notin sources /\ versionJobs[i].tries < MaxTries
           next == IF again THEN "queued" ELSE "failed"
       IN  /\ \E source \in sources : ~IsAnalysis(source)
           /\ IF versionJobs[i].holder # w
              THEN UNCHANGED <<versionJobs, versionState, comparisons>>
              ELSE /\ versionJobs' = [versionJobs EXCEPT ![i] =
                            [@ EXCEPT !.state = next, !.holder = Absent]]
                   /\ versionState' = [versionState EXCEPT ![id[2][2]] = next]
                   /\ IF again THEN UNCHANGED comparisons ELSE SetRun(id, next, Absent)
    /\ inHand' = [inHand EXCEPT ![w] = Absent]
    /\ UNCHANGED <<written, requested>>

\* commit_prepared: the rows locked and the claim still held, the object is
\* written unless there is one (write_or_read_canonical) ...
PutComparison(w) ==
    /\ inHand[w] # Absent /\ inHand[w].changes # Absent
    /\ ~Committing
    /\ LET id == inHand[w].id
       IN  IF versionJobs[JobOf(id)].holder # w
           THEN /\ inHand' = [inHand EXCEPT ![w] = Absent]
                /\ UNCHANGED written
           ELSE /\ inHand' = [inHand EXCEPT ![w].put = TRUE]
                /\ written' = written \cup
                    (IF \E o \in written : o.id = id THEN {}
                     ELSE {[id |-> id, changes |-> inHand[w].changes]})
    /\ UNCHANGED <<versionState, versionJobs, comparisons, requested>>

\* Mutant: finalize() writes what this worker prepared
Prepared(w) == inHand[w].changes
\* what the object says
Canonical(w) == (CHOOSE o \in written : o.id = inHand[w].id).changes

\* ... and finalize() writes what the object says; the job completes
CommitComparison(w) ==
    /\ inHand[w] # Absent /\ inHand[w].put
    /\ LET id == inHand[w].id
       IN  /\ SetRun(id, "completed", Canonical(w))
           /\ versionJobs' = [versionJobs EXCEPT ![JobOf(id)] =
                [@ EXCEPT !.state = "completed", !.holder = Absent,
                          !.artifact = [kind |-> "comparison"]]]
           /\ versionState' = [versionState EXCEPT ![id[2][2]] = "completed"]
    /\ inHand' = [inHand EXCEPT ![w] = Absent]
    /\ UNCHANGED <<written, requested>>

\* the worker dies, or its transaction is rolled back
LoseComparison(w) ==
    /\ inHand[w] # Absent
    /\ versionJobs[JobOf(inHand[w].id)].tries < MaxTries
    /\ inHand' = [inHand EXCEPT ![w] = Absent]
    /\ UNCHANGED <<versionState, versionJobs, comparisons, written, requested>>

ComparisonNext ==
    \/ \E v \in Versions :
        \/ \E content \in Contents : AnalyseVersion(v, content)
        \/ ReindexVersion(v)
    \/ \E c \in Comparers :
        \/ \E from, to \in Versions : RequestComparison(c, from, to)
        \/ CreateComparison(c)
    \/ \E i \in DOMAIN versionJobs : ClaimExpires(i)
    \/ \E w \in Comparing :
        \/ \E i \in DOMAIN versionJobs : ClaimComparison(w, i)
        \/ \E answered \in Providers : PrepareComparison(w, answered)
        \/ ComparisonFails(w) \/ PutComparison(w) \/ CommitComparison(w) \/ LoseComparison(w)

ComparisonSpec == ComparisonInit /\ [][ComparisonNext]_comparisonVars

-----------------------------------------------------------------------------
Completed == {r \in comparisons : r.state = "completed"}
ContentOf(v) ==
    versionJobs[JobOf(<<"analyse", v>>)].artifact.elements

\* The rows of a completed comparison say what its immutable object says,
\* whichever of the workers wrote it, and however often the comparison was
\* prepared with answers of the model that differ.
RowsTellTheArtifact ==
    \A r \in Completed : \E o \in written :
        o.id = <<"compare", <<r.from, r.to>>>> /\ o.changes = r.changes

\* A completed comparison accounts for every element of both versions once,
\* whatever the passes of the alignment took, and none of its pairs joins
\* incompatible clauses.
EveryElementIsAccountedFor ==
    \A r \in Completed :
        LET a == ContentOf(r.from)
            b == ContentOf(r.to)
        IN  /\ \A i \in DOMAIN a : Cardinality({c \in r.changes : i \in c.pair.from}) = 1
            /\ \A j \in DOMAIN b : Cardinality({c \in r.changes : j \in c.pair.to}) = 1
            /\ \A c \in r.changes : c.pair.kind \in {"matched", "moved"} =>
                \A i \in c.pair.from, j \in c.pair.to : CompatibleType(a[i], b[j])

\* A comparison of two analysed versions finds their analyses ("the comparison
\* uses the correct sources", docs/testing/manual-test-plan.md:286): it has no
\* other reason to fail here.
ComparisonsFindTheirSources == \A r \in comparisons : r.state # "failed"
=============================================================================
