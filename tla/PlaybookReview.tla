--------------------------- MODULE PlaybookReview ---------------------------
(***************************************************************************)
(* Playbook evaluations of one agreement and the decisions about their     *)
(* findings: the worker's sink (playbook_evaluation.py), submit() of the   *)
(* API (reviews/service.py), the overrides of playbooks/service.py and     *)
(* reviews/decisions.py.  Each of them locks the agreement first.  A       *)
(* playbook version has one rule here; texts are the languages they        *)
(* contain, and a confidence is a number of which Floor is the least that  *)
(* counts as evidence.                                                     *)
(***************************************************************************)
EXTENDS Naturals, FiniteSets, Sequences, SequencesExt

CONSTANTS
    Offers,        \* playbook versions of the agreement's family
    RuleOf,        \* the rule of each: its clause, policy and language
    RankOf,        \* how well its route fits the agreement; 0 when it does not
    Analyses,      \* what an analysis may extract: sequences of clauses
    CanonicalOf,   \* _canonical_clause_type, for each clause category
    Floor,         \* _MINIMUM_CONFIDENCE
    DecisionChoices,       \* decisions: an action, and the values of an edit
    Severity,      \* the severity the rules give
    MaxJobs, MaxOverrides, MaxDecisions,  \* BOUNDS
    Reviewers,     \* calls of record() that may overlap (BOUND)
    Nil

ASSUME ReviewAssumption ==
    /\ RankOf \in [Offers -> Nat] /\ Floor \in Nat
    /\ \A choice \in DecisionChoices :
        /\ choice.action \in {"accepted", "rejected", "edited"}
        /\ (choice.action = "edited") <=> (choice.result # Nil \/ choice.severity # Nil)

VARIABLES
    offered,     \* "draft", "published" or "archived" (its playbook is)
    overrides,   \* the versions chosen for the agreement, oldest first
    jobs,        \* what the artifact of each completed job has: the clauses of an
                 \* analysis, or Nil for a comparison or a reindex; oldest first
    evaluation,  \* the result for each job and version evaluated
    decided,     \* the review_decisions rows
    answer,      \* what record() answered last about each finding
    recording,   \* what each call of record() has read
    clock,       \* the time
    deleting     \* deletion_requested_at

reviewVars == <<offered, overrides, jobs, evaluation, decided, answer, recording, clock, deleting>>

FindingIds == (1..MaxJobs) \X Offers

ReviewInit ==
    /\ offered = [v \in Offers |-> "draft"]
    /\ overrides = <<>> /\ jobs = <<>>
    /\ evaluation = [f \in FindingIds |-> Nil]
    /\ decided = {}
    /\ answer = [f \in FindingIds |-> Nil]
    /\ recording = [c \in Reviewers |-> Nil]
    /\ clock = 0
    /\ deleting = FALSE

\* Mutant: _finding without lock_agreement
NobodyLocks == ~deleting
\* the agreement's row, which nobody else has locked and no deletion has marked
Lockable == ~deleting /\ \A c \in Reviewers : recording[c] = Nil

-----------------------------------------------------------------------------
\* evaluate_playbook and _evaluate look at the most confident clause of the
\* rule's category that the rules of the extraction found (the first of equals).
\* The worker compares canonical categories, the API those that are written.
Candidates(rule, clauses, canonical) ==
    {i \in DOMAIN clauses :
        /\ clauses[i].deterministic
        /\ IF canonical THEN CanonicalOf[clauses[i].category] = CanonicalOf[rule.clause]
                        ELSE clauses[i].category = rule.clause}
Selected(clauses, candidates) ==
    clauses[CHOOSE i \in candidates : \A j \in candidates :
        \/ clauses[i].confidence > clauses[j].confidence
        \/ clauses[i].confidence = clauses[j].confidence /\ i <= j]

\* _deterministic_finding: what the rule makes of the clause that was selected
Judgement(rule, clause) ==
    IF \/ clause.confidence < Floor
       \/ ~clause.cited
       \/ rule.language = Nil
    THEN "needs_review"
    ELSE IF rule.policy = "prohibited"
    THEN IF rule.language \in clause.text THEN "non_compliant" ELSE "satisfied"
    ELSE IF rule.language \in clause.text THEN "satisfied" ELSE "needs_review"

\* _evaluate
Evaluate(rule, clauses, canonical) ==
    LET candidates == Candidates(rule, clauses, canonical)
    IN  IF candidates = {} THEN "needs_review"
        ELSE Judgement(rule, Selected(clauses, candidates))

\* _select_routed_playbook_version: the last override that is still offered,
\* or the best route
Usable == {i \in DOMAIN overrides : offered[overrides[i]] = "published"}
Fitting == {v \in Offers : offered[v] = "published" /\ RankOf[v] > 0}
Routed ==
    IF Usable # {} THEN overrides[CHOOSE i \in Usable : \A j \in Usable : j <= i]
    ELSE IF Fitting # {} THEN CHOOSE v \in Fitting : \A w \in Fitting : RankOf[w] <= RankOf[v]
    ELSE Nil

\* publish() and archive() of the playbooks
Offer(v, from, to) ==
    /\ offered[v] = from
    /\ offered' = [offered EXCEPT ![v] = to]
    /\ UNCHANGED <<overrides, jobs, evaluation, decided, answer, recording, clock, deleting>>

\* override_for_agreement
RecordOverride(v) ==
    /\ Lockable
    /\ offered[v] = "published"
    /\ Len(overrides) < MaxOverrides
    /\ overrides' = Append(overrides, v)
    /\ UNCHANGED <<offered, jobs, evaluation, decided, answer, recording, clock, deleting>>

\* a job completes, the agreement locked
CompleteJob(artifact) ==
    /\ Lockable
    /\ Len(jobs) < MaxJobs
    /\ jobs' = Append(jobs, artifact)
    /\ UNCHANGED <<offered, overrides, evaluation, decided, answer, recording, clock, deleting>>

\* SQLAlchemyPlaybookEvaluationSink.completed, for an analysis that has completed
\* or whose message has come again
WorkerEvaluates(n) ==
    /\ n \in DOMAIN jobs /\ jobs[n] # Nil
    /\ Lockable
    /\ Routed # Nil
    /\ evaluation[<<n, Routed>>] = Nil
    /\ evaluation' = [evaluation EXCEPT ![<<n, Routed>>] = Evaluate(RuleOf[Routed], jobs[n], TRUE)]
    /\ UNCHANGED <<offered, overrides, jobs, decided, answer, recording, clock, deleting>>

\* submit(): any published version of the family, its playbook archived or
\* not, and the newest artifact of a completed job: one that is no analysis
\* has no clauses
SubmitEvaluation(v) ==
    /\ jobs # <<>>
    /\ Lockable
    /\ offered[v] # "draft"
    /\ evaluation[<<Len(jobs), v>>] = Nil
    /\ LET artifact == jobs[Len(jobs)]
           clauses == IF artifact = Nil THEN <<>> ELSE artifact
       IN  evaluation' = [evaluation EXCEPT ![<<Len(jobs), v>>] =
                            Evaluate(RuleOf[v], clauses, FALSE)]
    /\ UNCHANGED <<offered, overrides, jobs, decided, answer, recording, clock, deleting>>

-----------------------------------------------------------------------------
\* the decisions on a finding, in the order of occurred_at
InOrder(decisions) ==
    CHOOSE s \in [1..Cardinality(decisions) -> decisions] :
        \A i, j \in DOMAIN s : i < j => s[i] # s[j] /\ s[i].at <= s[j].at
History(f) == InOrder({d \in decided : d.on = f})

\* _current_decision
Current(f, events) ==
    LET original == [result |-> evaluation[f], severity |-> Severity]
        apply(current, event) ==
            IF event.choice.action # "edited" THEN original
            ELSE [result |-> IF event.choice.result # Nil
                             THEN event.choice.result ELSE current.result,
                  severity |-> IF event.choice.severity # Nil
                               THEN event.choice.severity ELSE current.severity]
    IN  FoldLeft(apply, original, events)

\* record() locks the agreement, reads the finding with its decisions and the
\* time ...
DecisionRead(c, f, choice) ==
    /\ recording[c] = Nil
    /\ evaluation[f] # Nil
    /\ Lockable
    /\ clock < MaxDecisions
    /\ clock' = clock + 1
    /\ recording' = [recording EXCEPT ![c] =
            [seen |-> History(f), row |-> [on |-> f, at |-> clock', choice |-> choice]]]
    /\ UNCHANGED <<offered, overrides, jobs, evaluation, decided, answer, deleting>>

\* ... adds its row and answers with what is now in force
DecisionCommit(c) ==
    /\ recording[c] # Nil
    /\ LET row == recording[c].row
       IN  /\ decided' = decided \cup {row}
           /\ answer' = [answer EXCEPT ![row.on] = Current(row.on, Append(recording[c].seen, row))]
    /\ recording' = [recording EXCEPT ![c] = Nil]
    /\ UNCHANGED <<offered, overrides, jobs, evaluation, clock, deleting>>

DecisionFails(c) ==
    /\ recording[c] # Nil
    /\ recording' = [recording EXCEPT ![c] = Nil]
    /\ UNCHANGED <<offered, overrides, jobs, evaluation, decided, answer, clock, deleting>>

AcceptReviewDeletion ==
    /\ Lockable
    /\ deleting' = TRUE
    /\ UNCHANGED <<offered, overrides, jobs, evaluation, decided, answer, recording, clock>>

ReviewNext ==
    \/ \E v \in Offers :
        \/ Offer(v, "draft", "published") \/ Offer(v, "published", "archived")
        \/ RecordOverride(v) \/ SubmitEvaluation(v)
    \/ \E artifact \in Analyses \cup {Nil} : CompleteJob(artifact)
    \/ \E n \in 1..MaxJobs : WorkerEvaluates(n)
    \/ \E c \in Reviewers :
        \/ \E f \in FindingIds, choice \in DecisionChoices : DecisionRead(c, f, choice)
        \/ DecisionCommit(c) \/ DecisionFails(c)
    \/ AcceptReviewDeletion

ReviewSpec == ReviewInit /\ [][ReviewNext]_reviewVars

-----------------------------------------------------------------------------
\* What is in force about a finding: of each field the last edit that no
\* acceptance or rejection has followed, else what was evaluated
EditsInForce(f) ==
    {d \in decided : d.on = f /\ d.choice.action = "edited"
        /\ \A e \in decided : e.on = f /\ e.at > d.at => e.choice.action = "edited"}
InForce(f) ==
    LET field(name, original) ==
            LET edits == {d \in EditsInForce(f) : d.choice[name] # Nil}
            IN  IF edits = {} THEN original
                ELSE (CHOOSE d \in edits : \A e \in edits : e.at <= d.at).choice[name]
    IN  [result |-> field("result", evaluation[f]), severity |-> field("severity", Severity)]

\* What a reviewer was told last is what is in force, and the history says the
\* same, however decisions of several reviewers overlap and whatever is
\* evaluated meanwhile (record() takes its time and its view under the lock).
ToldIsInForce ==
    \A f \in FindingIds : answer[f] # Nil =>
        answer[f] = InForce(f) /\ Current(f, History(f)) = InForce(f)
=============================================================================
