# Agreement Intelligence: TLA+ specification

This directory specifies Agreement Intelligence: the pipeline that processes an
uploaded agreement (API, SQS, worker processes, PostgreSQL, S3), the durable deletion
that has to erase everything the pipeline produced, the approval of a review and the
delivery of its final package, and the services around them (playbooks, approval
policies, budgets, question threads, versions and sources, the retrieval index,
comparisons). The models are checked by TLC on small instances; almost all
safety properties are proved with TLAPS for all values of the constants.

Paths below are relative to `src/`; `W/` stands for
`apps/worker/src/agreement_intelligence_worker/` and `A/` for
`apps/api/src/agreement_intelligence_api/`.

## 1. Inventory of the system

| component | state it keeps | operations | what is hard | modules |
|---|---|---|---|---|
| processing jobs, worker side (`W/processing.py`, `W/artifact_commit.py`) | `processing_jobs`, `processing_artifact_intents`, `processing_artifacts`; objects in S3 | claim, expect, prepare, commit_prepared, requeue, fail | object and rows commit separately; crash, lost connection or lost lease in between; redelivery; deletion accepted meanwhile | `AgreementStore`, `WorkerProcess`, `ProcessingWorker` |
| SQS queue | messages, visibility, dead letters | send, receive, delete | at-least-once, unordered, stale receipts, redrive policy | `JobQueue` |
| processing API (`A/processing/`) | `processing_jobs`, `processing_outbox` | submit, retry, requeue, dispatch_pending | outbox published after commit; no poller; retry against a handler that lost its claim | `ProcessingApi` |
| durable deletion (`W/agreement_deletion.py`) and its API (`A/agreements/`) | `agreement_deletion_requests`, `_objects`, `_outbox`, tombstone | accept, claim, erase, mark, retry, purge, sweep, recover, redrive | erasing while handlers write; publish/mark races; lease expiry; late artifacts | `DeletionProcessor`, `ProcessingApi`, composed in `AgreementErasure` |
| review workflow (`A/reviews/workflow.py`) | workflows, stages, decisions, revision | start, read, decide, escalate_overdue | stale reads, distinct approvers, quorum, two ways to end | `ReviewWorkflow` |
| review collaboration (`A/reviews/collaboration.py`) | assignments, comments, notifications | start, assign, transfer, comment | transfers against decisions | `ReviewCase` |
| workflow outbox and final package (`W/workflow_outbox_relay.py`, `W/review_workflow.py`, `W/final_package.py`, migration 0035) | `review_workflow_outbox`, checkpoints, package row, two objects in S3 | dispatch, relay, handle, write, repair | publish then mark; objects before the row; lost lock; deletion meanwhile | `WorkflowDelivery`, implementing `ReviewOutcome` |
| playbooks (`A/playbooks/`) | playbooks, versions, rules | draft, edit rules, publish, archive, delete | calls act on rows read before; triggers and an index stand in | `Playbooks` |
| playbook evaluation and findings (`W/playbook_evaluation.py`, `A/reviews/service.py`, `decisions.py`) | overrides, evaluations, decisions | route, override, evaluate, submit, record | two evaluators; overlapping decisions | `PlaybookReview` |
| approval policies (`A/approval_policies/`) | policies, versions | draft, publish, route | check-then-write publication; what a tie is | `ApprovalPolicies` |
| usage ledger, limits (`A/usage.py`, `A/limits.py`, `A/redis_client.py`) | ledger rows, counters in Redis | reserve, settle, cancel, consume | rows seen after commit; expiry of counters | `UsageLedger` |
| questions (`A/qa/`, `W/evidence_validation.py`, `W/guardrails.py`) | threads, turns | create, ask, read | long call to a model between read and write; quotations of what is deleted | `Questions` |
| agreements, versions, sources (`A/agreements/`, `A/documents/`) | agreement row, versions, registry, uploads | create, archive, restore, new version, upload, delete_source_if_unreferenced | full-row `replace` from a snapshot; shared sources; S3 delete inside a transaction | `Agreements` |
| retrieval index, AI configuration (`W/document_indexing.py`, `W/embedding_indexing.py`, `A/ai_config/`, `A/search/`) | builds, chunks, vectors, configurations, promotions | index, embed, promote, reindex, search | sinks run again; promotion against a sink; vector spaces | `RetrievalIndex`, `Chunking` |
| model gateway (`W/model_gateway.py`) | – (provenance in rows) | generate, embed, answer, fall back | whose model answered | `ModelGateway` |
| comparisons (`A/comparisons/`, `W/version_comparison_processor.py`, `W/version_alignment.py`, `W/version_materiality.py`) | runs, changes, immutable objects | create, claim, prepare, finalize, fail | two preparations of one object; alignment passes; which job is the analysis | `VersionComparison` |
| identity, audit, document analysis, MCP, web, schema | – | – | request-scoped, pure or declarative | not modelled, section 6 |

How they interact: the API commits a job with an outbox row and publishes the row
to SQS; a worker receives the message and works under a claim in the job row,
writes one immutable object to S3 and completes the job, whose completion handlers
index and evaluate it; an accepted deletion sets a tombstone on the agreement, which
every repository transaction reads under the agreement's row lock
(`SELECT ... FOR UPDATE`); a sweeper thread in every worker process publishes the
deletion's message. A review of the agreement runs through the stages of a policy
version; every change adds an outbox row, which the API or a relay publishes, and the
worker that handles the terminal one writes the final package under the agreement's
row lock. Searches, questions, comparisons and promotions read what completed jobs
left and go through the gateway to a model.

`PROJECT.json` lists the hazards behind the properties, each at its line.

## 2. Modules

```
AgreementStore   rows and objects of one agreement; intents, late-artifact inventory
JobQueue         SQS as the code uses it
  WorkerProcess  the receive / handle / acknowledge loop, crashes
    ProcessingWorker     JobProcessor.handle and its transactions
    DeletionProcessor    AgreementDeletionProcessor.handle, outbox sweeper
    ProcessingApi        submit, retry, requeue, dispatch, accept and redrive deletion
      AgreementErasure   composition of the three; properties; fairness
        ErasureInvariant          the inductive invariant
          MCErasure

ReviewCase               review, assignments, comments, notifications, tombstone
  ReviewWorkflow         stages, decisions, escalation, outbox rows
    WorkflowDelivery     (with JobQueue) dispatcher, relay, workers, package, deletion
      MCDelivery         WorkflowDelivery implements ReviewOutcome (KeepsPromise)

Questions  UsageLedger
  MCReview               (with ReviewWorkflow) one scene for each
Playbooks  PlaybookReview  ApprovalPolicies  Agreements  RetrievalIndex  Chunking
ModelGateway  VersionComparison
  MCServices             one scene for each
```

`<Module>_proofs` holds the theorems of a module; `WakeUp_proofs` has the wake-ups of
`AgreementErasure`, `Playbooks_proofs` also the policies of `ApprovalPolicies` and the
decisions of `PlaybookReview`, `Services_proofs` the other services but the comparisons,
and `Folds_proofs` the lemmas about sums and folds that these use. `PROJECT.json` maps every
definition to the lines it models.

### Erasure: grain of the steps

Every repository transaction on an agreement first takes its row lock, so a
transaction that makes no call outside the database is one step, enabled while
nobody holds the lock across such a call (`AgreementRowFree`). The exceptions:

* `commit_prepared` writes to S3 in the middle of its transaction. It is three
  steps: the checks (`CommitPrepared`), which take `rowLock`; `PutArtifact`;
  `FinishCommit`. The database may end the session in between (`ConnectionLost`):
  the lock is free and the transaction gone, the worker finds out at its next
  statement (`FinishFails`) and may still complete its write to S3.
* the deletion's erasure of an object is outside any transaction (`EraseObject`),
  its mark a transaction of its own (`MarkDeleted`).
* `requeue` commits before it enqueues (`Requeue`, `Enqueue`); the sweeper and
  `dispatch_pending` publish before they mark.
* deletion claims, marks and retries lock the request row and not the agreement
  row; they are single steps as well, not guarded by `AgreementRowFree`.
* `requeue` and `fail` read the job row before they lock the agreement. If it was
  purged in between they return without effect (second disjunct of
  `SettleAfterPurge`).

Claim tokens are not stored: `attempt_count` never decreases while a job row
exists, so it identifies the token; `(retry_cycle, attempt_count)` identifies a
deletion claim. That this is sound is part of the invariant
(`JobClaimsAreOrdered`, `DeletionClaimsAreOrdered`).

There are no clocks. A lease is live until a step expires it; expiry under the
feet of a live owner is a fault and counts against `MaxFaults`, expiry after the
owner is gone is free. Three points deserve care:

* Receiving a message and the claim transaction its handler starts with are one
  step. Nothing else a worker does depends on the time between them.
* A claim lease lasts 14 minutes, the queue's visibility timeout in deployment 15
  (`infra/terraform/main.tf:67`). The model does not use that relation: a message
  may reappear while its handler runs.
* `commit_prepared` checks the claim token and not the lease, so a handler whose
  lease is over but whose job nobody has claimed since goes on. `LatePuts = FALSE`
  states the assumption under which the erasure properties hold: a single call to
  S3 does not outlast the lease it was made under. With `LatePuts = TRUE` they fail
  (run `LatePut`).

### Reviews

`decide` locks the workflow row, so it is one step; what its sender knew is the step
that read the workflow (`ReadWorkflow`, `seen`), and `SawCurrent` is the revision
check. `escalate_overdue` locks nothing and is two steps. Memberships (who has which
role) are constant. Replays of an idempotency key change nothing and are left out.
`escalate_overdue` has no caller in `src/` except tests; it is modelled as the
operation it offers. `MaxActs` bounds decisions, assignments by hand and comments
together.

### Delivery

The dispatcher (`dispatch_pending` of an API call) publishes and marks rows without a
lease; the relay leases, publishes and marks in three transactions; a worker prepares
the payload from what it reads, takes the agreement's row lock (`holder`), writes the
objects and the row, and commits, acknowledging afterwards. A checkpoint of the
LangGraph runner is a member of a set. A worker that loses its connection between the
lock and its writes (`LateWrites`) may still write. `RedeliverEarly`, a message that
reappears while it is handled, counts as a fault. A review decided before migration
0035 begins with the legacy objects, the rebuilt snapshot and the backfill event
(`Migrated`). The purge is one step here: `DeletionProcessor` has its steps. A step of
the review that writes waits for `holder = None`, the row lock of the worker.
`reserve_final_package_intent` (`A/reviews/final_package.py`) is used by tests only.

`ReviewOutcome` is the abstract specification: a review is resolved at most once,
published at most once, as decided, and eventually, unless it is deleted first.
`KeepsPromise` is the refinement: the mapping forgets stages, queues and workers.

### Services

These modules share no state, and each has a scene of its own in `MCServices` or, for
questions and usage, in `MCReview`: the first choice of a behaviour. In each, the operations that hold a lock to their commit
are one step, and the ones that read without it are two or more:

* `Playbooks`: rule changes, publications and deletions are sent at one moment and
  committed at another (`call`); triggers and the partial unique index of migration 0008
  (with the deletion trigger of 0015) are the guards. READ COMMITTED.
* `ApprovalPolicies`: `publish()` checks and commits in two steps; `overlapped` remembers
  that two did at once, which is the exception `RoutingAnswers` makes.
* `UsageLedger`: a reservation is seen by others when its transaction commits. Tokens
  stand for tokens and cost. The Lua script of the limiter is one step, without Redis
  an expensive route is refused.
* `Questions`: every statement of a turn is a step (lexical search, semantic search, the
  earlier turns, which agreements are visible, the call of the model, the commit), and
  agreements are archived, restored, indexed anew, deleted and purged between any two.
  Evidence is as the code makes it: every anchor of a chunk carries the preview of the whole
  chunk, which claim validation and the guardrails look at, so that a sentence of one anchor
  may be cited to another of the chunk. Texts are sentences, all that validation compares.
* `Agreements`: a request reads the agreement (`ReadAgreement`) and later writes the whole
  row back (`Replace`); uploads and the deletion of sources hold the key's advisory lock. A
  key is also accepted that the registry does not know, as `create_version` does.
* `RetrievalIndex`: the completion handlers as sinks that may run again at any delivery,
  the embedding sink holding the agreement's lock during the call to the provider;
  a promotion takes its time and its list of builds, and commits later: several may overlap
  and commit in another order than that of their times, by which `Resolved` chooses.
* `PlaybookReview`: evaluations by the worker and by the API, overrides, decisions on
  findings whose events are loaded with the finding under the agreement's lock.
* `VersionComparison`: `create()` in two steps; claim, preparation (with an answer of the model
  that may differ every time), write-or-read of the immutable object, `finalize`. The
  alignment passes are operators over sequences of elements; a text is a set of words.
* `ModelGateway`: the endpoints answer, are unavailable or refuse; the fallback.
* `Chunking`: the splitting of a section into chunks that overlap.

## 3. Runs

| run | instance | checks | shows |
|---|---|---|---|
| `SharedKey` | 2 jobs of one source, 1 worker, 1 sweeper, 2 deletion attempts, 1 API call, 1 fault | `ErasureInv`, `CompletedJobHasArtifact`, `TypeOK`, `DeletionWakeUp` | the inductive invariant of the proofs; publish, mark, release, redrive and recovery in every order |
| `Retries` | 1 job, 2 attempts, 2 workers, 1 sweeper, 1 fault | `JobWakeUp`, `NoOrphanObject`, `CompletedIsErased`, `TerminalJobStaysTerminal` | retry and requeue against a handler that lost its claim, a deletion at any step |
| `Liveness` | 1 job, 1 worker, 1 sweeper, 1 fault, 2 + 2 attempts, 4 messages | `DeletionSettles`, `JobSettles` | deletions and jobs end |
| `DeadLetter` | redrive after 2 receives | `StuckJobCanBeRequeued`, violated | Findings |
| `LatePut` | `LatePuts = TRUE`, 2 faults | `NoOrphanObject`, violated | Findings |
| `Approvals` | 3 members, 2 roles, 3 policies (quorum then any; any then all, with both exceptions; a stage with a deadline), 2 escalators, 3 acts; scenes of the questions and the usage | `ApprovedIsEarned`, `EventsTellTheHistory`, `StagesAreInOrder`, `TransfersAreLinear`, `AssigneesAreNotified`, `DecisionIsOnTheStageSeen`, `OutcomeIsFinal`; those of the scenes | decisions from stale readings, transfers, escalations and a deletion, in every order; the scenes below |
| `OpenWork` | 1 stage, an assignment by hand | `TerminalDecisionClosesWork`, violated | Findings |
| `Packages` | dispatcher, relay, 2 messages, 1 worker, 1 fault, migrated or not | `EventWakeUp`, `PackageTellsTheDecision`, `DeletionKnowsPackages` | crashes and an expired lease at any step, old and repaired packages |
| `Promise` | relay, 2 workers, a comment, a fault, lost connections | `RetriesDoNotConflict`, `KeepsPromise` | the delivery implements `ReviewOutcome`, liveness included |
| `Services` | eight scenes | 9 invariants, 3 action properties | below |
| `Quotes` | scene of the questions | `QuotesArePurged`, violated | Findings |
| `Sources` | scene of the comparisons, 3 versions | `ComparisonsFindTheirSources`, violated | Findings |

What the properties relate, and why they could fail:

* `NoOrphanObject` and `CompletedIsErased` tie S3 to six tables across handlers
  that died. Acceptance inventories artifact rows and intents; a handler in flight
  reserves its intent before it writes; whoever meets the tombstone inventories the
  key again and reopens the request; the purge refuses while an intent is open.
  The runs have one fault; that more faults do no more harm follows from `ErasureInv`,
  which `SharedKey` checks with one and which is proved for any number.
* `JobWakeUp` and `DeletionWakeUp` are the safety side of progress: at every step
  some message that nobody is about to acknowledge, or some outbox row, stands for
  the unfinished work.
* `TerminalJobStaysTerminal` is an action property: only `Retry` takes a failed job
  back.
* `DeletionSettles` allows two ends: completed, or failed with attempts exhausted by S3
  (an object is still listed) or by the database (only the purge was missing). It
  excludes a deletion left failed because a handler's intent was open at its last
  attempt: the job's message is still there, handling it reconciles the intent, and
  that reopens the deletion.
* `ApprovedIsEarned` looks back over all decisions of an approved workflow: who, on which
  stage, and whether they had approved another. `EventsTellTheHistory` ties the outbox
  rows and the frozen snapshot to them.
* `PackageTellsTheDecision` and `RetriesDoNotConflict` hold because the payload comes from
  the snapshot frozen with the terminal event and not from the live rows: a comment
  between two deliveries would otherwise change the bytes of an immutable key.
* `DeletionKnowsPackages`: the deletion inventories what a worker may be about to write.
* `KeepsPromise` is the refinement and carries its liveness: a decided review is published.

The scenes of `Services`, and the two of `Approvals` beside the reviews (usage, questions):

| scene | properties | instance |
|---|---|---|
| playbooks | `OnePublishedVersion`, `PublishedSurvives`, `PublishedSettles` | 2 playbooks, 2 versions, 2 calls that overlap, 2 rules that clash |
| policies | `RoutingAnswers` | 2 policies of 2 versions, 2 jurisdictions, 2 publishers |
| usage | `BudgetNeedsOverlap`, `AnswersArePaid`, `WindowsEnd` | a turn, a search and two submissions with one key; budget 5, estimates 3, 1 and 4; limit 1 in a window of 2 |
| questions | `GivenIsGrounded`, `OnlyTheSeenIsGiven`, `NamedThreadsAreGone` | 2 agreements, copies of one document, one with a later version; 4 chunks that overlap, repeat a sentence or are refused; a thread with a scope and one without; 2 requests |
| agreements | `SharedSourcesSurvive`, `LineageIsLinear` | 2 agreements, 2 objects, 2 transactions, 2 versions each, archive and restore |
| index | `NewestSpaceSticks` | 1 document with 2 texts, 2 valid configurations and a broken one, 2 promotions that may overlap, 2 sinks |
| review | `ToldIsInForce` | 2 playbook versions, 1 job with either of 2 analyses, an override, 3 decisions by 2 reviewers |
| comparison | `RowsTellTheArtifact`, `EveryElementIsAccountedFor` | 2 versions out of 5 contents (kept, moved, split, merged, repeated, retyped, without words), 2 workers, 2 tries |
| gateway | `ProvenanceIsTrue` | 3 deployments, 3 configurations, 2 passages |
| chunks | `ChunksCoverTheText` | up to 4 blocks of 1, 2, 4 or 5 tokens, chunks of 4 that overlap by 2 |

`GivenIsGrounded` says of a claim that is shown, or offered to the model, that a chunk with the
cited anchor has said it, in a version of the cited agreement and in the thread's scope. It
does not say that the chunk is still indexed, nor that the anchor's own words hold the
sentence: the code guarantees neither (Observations). `OnlyTheSeenIsGiven` bounds the gap
between a reading and its use: what a request finds and gives away is of agreements that
were visible at some moment of it, however long the model takes.

`SharedSourcesSurvive` and `RoutingAnswers` and `BudgetNeedsOverlap` state their exception in
their antecedent: a deletion transaction that rolled back after the delete, and
publications or reservations that overlapped. What happens then is under Observations.

### Bounds, and why they are enough

* `MaxFaults` counts crashes, lost connections, failed calls and leases that expire
  under a live owner. Two suffice for the bad behaviour of `LatePut`; the passing runs
  have one, and what is proved holds for any number. In the scene of the agreements it is 0:
  the property names the fault it bounds.
* One or two attempts (`MaxAttempts`, `MaxDeletionAttempts`; 3 or more in the
  code) give both the retry and the exhausted branch.
* `MessageIds` bounds undeleted messages, not messages sent: an id is used again
  once its message is deleted. A `Send` waits while none is free. `Liveness` has
  as many as its one job and its deletion can need at a time; in `Promise` one message
  at a time is enough, because every message is deleted or reappears.
* `MaxReceives = 0` means no redrive policy. The deployed 5 is 2 in `DeadLetter`: the
  run needs only that the limit can be reached.
* One artifact key: several keys at once are covered by the proofs only.
* `MaxCalls` bounds retry, requeue and redrive calls.
* `MaxActs = 3` lets a two-stage policy be approved: quorum 2 and a second stage need
  three decisions.
* `Rewrites` leaves the requests of processing out of the scene of the agreements: they
  write a snapshot back as archive and restore do, and change nothing else.
* Two calls that overlap are enough for each of the service hazards, which are races of
  two; ids of versions, objects and threads are two so that one may be mistaken for
  the other.
* In the scene of the questions `ChannelLimit = 1` (a channel finds one result; the two
  together find the two that overlap), `MaxAsking = 1` (one request asks at a time, another
  reads or creates a thread) and `Moving = {"a"}` (one agreement is archived, restored or
  deleted while the other is indexed anew) keep it small. The theorems have none of them.
* The other bounds (`MaxTurns`, `MaxVersions`, `MaxPromotions`, `MaxJobs`, `MaxOverrides`,
  `MaxDecisions`, `MaxReindexed`, `MaxCompared`, `MaxTries`, `MaxBlocks`, `MaxPolicyVersions`)
  stop histories that only grow; each is large enough for the second of a kind to meet
  the first, except jobs, turns and overrides, whose second is met through the second
  playbook version, thread or route. `Incremented` counts to one above the limit.

Symmetry is used for workers, sweepers and jobs, for client keys and escalators, and in
the scenes for the model values they share (ids, objects or versions, callers);
never with liveness. Deadlock is not checked: every one of these systems may rest,
when jobs have ended, a review is over or a bound is reached.

### Fairness

`FairSpec` (erasure) adds to `Spec`:

* weak fairness of the steps of every worker process and sweeper: they are loops
  in threads of a running process;
* weak fairness of `DispatchOne`: an API call that has committed runs its
  dispatch loop;
* weak fairness of visibility timeouts, back-offs and the expiry of leases whose
  owner is gone: time passes;
* strong fairness of the delivery of a message of each subject: SQS eventually
  delivers what is visible, though a message is hidden again and again.

There is none for faults, API calls, or the replay of an outbox row whose publication
failed. The last is the exception in `JobSettles`: nothing polls
`processing_outbox`, as `docs/operations/runbooks/stuck-processing.md:32` also says.

`FairDeliverySpec` adds weak fairness of the relay's steps (`RelayLease`, `RelayPublish`,
`RelayMark`: it polls), of receiving and handling by each worker, and of `Redeliver`
(the visibility timeout). There is none for the API dispatcher, decisions, deletion,
lease expiry or faults: `Promise` has no dispatcher at all, the relay alone delivers.

### Findings

* **A dead-lettered job cannot be requeued** (`DeadLetter`). The runbook for agreements
  stuck in `queued` or `processing` recovers with "Requeue analysis". `requeue()`
  accepts only queued jobs and `retry()` only failed ones. Redeliveries that meet a
  live claim raise and count as receives, so a job whose worker dies can be left
  `processing`, its lease expired and its only message in the dead-letter queue.
  With the deployed attributes (visibility 900 s, lease 14 minutes, 5 receives) this
  takes five receptions that each end without an acknowledgement; with a shorter
  visibility timeout the held lease alone uses them up.
* **A late write is not fenced** (`LatePut`). `docs/architecture/overview.md:190`
  says that deletion fences concurrent artifact commits. The fence is the row lock,
  and ends with the database session. If the lease has expired as well, the job is
  handled again, the deletion completes, and the first write arrives afterwards.
* **Approval leaves work open** (`OpenWork`). `_complete_terminal` says that terminal
  decisions close any remaining assignee work; the decision that approves the last
  stage does not go through it, and an assignment made by hand stays active.
* **Quotations outlive the purge** (`Quotes`). The purge removes "every other derived row",
  but finds threads by their scope: a turn of a thread without one keeps the sentence
  and the citation of the purged agreement. It is redacted whenever it is read.
* **A comparison may take another for its analysis** (`Sources`). The analysis of a version is
  looked up among all completed jobs of the version, by the greatest random id; a
  comparison is a job of its target version. The run fails after its retries, and
  `_update_agreement_processing_state` then marks the analysed version failed.

### Observations

Read while modelling; the models contain them, but no run of their own shows them.

* Reviews: an escalation that read before the last decision commits after it
  (`A/reviews/workflow.py:442`); the mode "all" counts roles and users, not members
  (`workflow.py:411`); decisions on findings may be recorded after the package is final;
  an API submission accepts versions of archived playbooks, and takes the newest artifact of
  any completed job, a comparison's or none at all included (`A/reviews/service.py:239`); an
  archived override revives an older one.
* Packages: a write that outlasts its lock after a lost connection behaves as in `LatePut`
  if the agreement is deleted and purged meanwhile (`W/final_package.py:328`).
* Agreements: `replace()` may set `current_version_id` back to the version a slower request
  had read; a retry marks an agreement queued that a newer version has completed; a source
  whose delete was rolled back is gone in S3 while the registry calls it available
  (`W/agreement_deletion.py:495`).
* Policies and playbooks: overlapping publications of two policies may tie, and the
  routing then refuses (`A/approval_policies/service.py:160`); a rule change under way when
  its version is published commits afterwards.
* Evaluation: the worker's `_canonical_clause_type` and the API's `_normalized` disagree on
  synonyms, so the two may evaluate one clause differently; only the most confident clause
  of a category is examined.
* Usage: reservations that overlap may exceed the budget together (`A/usage.py:90`); the
  cancellation of an unanswered turn runs in a transaction without the tenant setting, so
  the reservation stays; submissions are never settled; a search settles its first
  embedding only. `consume_quota` is used by tests only.
* Questions: `docs/architecture/overview.md:229` says that citations link to current
  accessible anchors. A new version of the document deletes the chunks of the one before
  (`W/document_indexing.py:222`), but `_redact_turn` asks only whether the agreement is
  visible: a stored citation may point at a chunk that is gone. Every anchor of a chunk carries
  the chunk's whole preview (`A/qa/service.py:349`), so a sentence may be cited to an anchor
  beside its own. Which agreements are visible is read before the model is called
  (`A/qa/service.py:295`), and an agreement archived in between is still offered to it.
  Overlapping chunks and copies of one text drop each other as evidence.
* Index: a reindex job of an earlier promotion, delivered late, moves vectors back;
  promoting an earlier configuration again enqueues nothing; agreements archived or first
  indexed during a promotion get no reindex job; an outage in a normal job replaces ready
  vectors; an older completion delivered again moves the index back to its version; heading
  paths only grow.
* Comparisons: a claim sets the analysed target version to "processing", and another
  comparison of it is refused meanwhile; matched but unchanged sections count as modified.
* Gateway: a configuration with `max_tokens` can never fall back; vectors the fallback made
  under the active configuration are not found by queries the primary answers; a vector
  space is named by its model and not by the provider.

## 4. Theorems

| module | theorem | statement |
|---|---|---|
| `AgreementErasure_proofs` | `TypeCorrect` | `Spec => []TypeOK` |
| | `ErasureInvariantHolds` | `~ LatePuts => (Spec => []ErasureInv)` |
| | `ObjectsAreKnown` | `~ LatePuts => (Spec => []NoOrphanObject)` |
| | `CompletedDeletionErases` | `~ LatePuts => (Spec => []CompletedIsErased)` |
| | `CompletedJobsHaveArtifacts` | `~ LatePuts => (Spec => []CompletedJobHasArtifact)` |
| | `TerminalJobsStayTerminal` | `~ LatePuts => (Spec => TerminalJobStaysTerminal)` |
| `WakeUp_proofs` | `JobsWakeUp` | `MaxReceives = 0 => (Spec => []JobWakeUp)` |
| | `DeletionsWakeUp` | `MaxReceives = 0 => (Spec => []DeletionWakeUp)` |
| `ReviewWorkflow_proofs` | `ApprovalIsEarned` | `ReviewSpec => []ApprovedIsEarned` |
| | `OutcomesAreFinal` | `ReviewSpec => OutcomeIsFinal` |
| | `StagesStayInOrder` | `ReviewSpec => []StagesAreInOrder` |
| | `HistoryIsTold` | `ReviewSpec => []EventsTellTheHistory` |
| | `TransfersStayLinear` | `ReviewSpec => []TransfersAreLinear` |
| | `InboxesAreNotified` | `ReviewSpec => []AssigneesAreNotified` |
| | `DecisionsAreOnTheStageSeen` | `ReviewSpec => DecisionIsOnTheStageSeen` |
| `WorkflowDelivery_proofs` | `RetriesAgree` | `DeliverySpec => []RetriesDoNotConflict` |
| | `PackagesTellDecisions` | `DeliverySpec => []PackageTellsTheDecision` |
| | `DeletionsKnowPackages` | `~LateWrites => (DeliverySpec => []DeletionKnowsPackages)` |
| | `EventsWakeUp` | `MaxReceives = 0 => (DeliverySpec => []EventWakeUp)` |
| | `DeliveryKeepsPromise` | `Migrated \subseteq {FALSE} => (DeliverySpec => Promise!OutcomeSafety)` |
| `Playbooks_proofs` | `OnePublished` | `PlaybookSpec => []OnePublishedVersion` |
| | `PublishedStays` | `PlaybookSpec => PublishedSurvives` |
| | `PublishedIsFrozen` | `PlaybookSpec => PublishedSettles` |
| | `RoutingIsSafe` | `PolicySpec => []RoutingAnswers` |
| | `ReviewersTakeTurns` | `ReviewSpec => []DecisionsAreSerial` (of `PlaybookReview`) |
| | `ReviewersAreToldWhatHolds` | `ReviewSpec => []ToldIsInForce` (of `PlaybookReview`) |
| `Services_proofs` | `NamedThreadsStayGone` | `QuestionSpec => []NamedThreadsAreGone` |
| | `GivenStaysGrounded` | `QuestionSpec => []GivenIsGrounded` |
| | `OnlyTheSeenStaysGiven` | `QuestionSpec => []OnlyTheSeenIsGiven` |
| | `ProvenanceStaysTrue` | `GatewaySpec => []ProvenanceIsTrue` |
| | `WindowsRunOut` | `UsageSpec => []WindowsEnd` |
| | `BudgetHoldsOneByOne` | `UsageSpec => []BudgetNeedsOverlap` |
| | `KeptAnswersArePaid` | `UsageSpec => []AnswersArePaid` |
| | `SharedSourcesAreKept` | `AgreementsSpec => []SharedSourcesSurvive` |
| | `LineageStaysLinear` | `AgreementsSpec => LineageIsLinear` |
| | `NewestSpaceStays` | `IndexSpec => []NewestSpaceSticks` |
| | `DocumentsAreChunkedWhole` | `ChunkingSpec => []ChunksCoverTheText` |
| `VersionComparison_proofs` | `ComparisonsTellTheirArtifact` | `ComparisonSpec => []RowsTellTheArtifact` |
| | `ComparisonsAccountForEverything` | `ComparisonSpec => []EveryElementIsAccountedFor` |

They hold for all values of the constants that satisfy the modules' assumptions: any
numbers of jobs, workers, members, policies, calls that overlap and bounds. The
assumptions name what the code or its schema guarantees of its inputs (each job has a
key, a published policy has satisfiable stages, an estimate is positive) and keep the
values that stand for "none" apart from the others. Three hypotheses are written in the
theorems, because the properties fail without them:

* `~ LatePuts` and `~LateWrites`: no call to S3 outlasts the claim or the lock it was made
  under. `LatePut` is the counterexample.
* `MaxReceives = 0`: the queue has no redrive policy. With one a message moves to the
  dead-letter queue while its work is open; `DeadLetter` shows where that leads.
* `Migrated \subseteq {FALSE}`: a database that migration 0035 repaired starts with a
  package, so its first state is not the promise's. The other theorems about the delivery
  include such databases.

### The erasure

`NoOrphanObject` is not inductive. Between the checks of `commit_prepared` and the
write, nothing but the claim and the lock says that the intent will still be there;
between the erasure of an object and its mark, nothing says that the object was not
written again. `ErasureInvariant` adds:

* `PutIsAnnounced`: a handler about to write owns its claim, its intent is
  `"expected"`, and it has the row lock or an unexpired lease. This is where
  `~ LatePuts` is needed.
* `LockProtects`: the lock across a call to S3 implies the claim and no tombstone.
* `MarkIsTrue`: an object about to be marked deleted is absent, or an open intent
  will have it inventoried again, unless the deletion claim is stale already.
* `JobClaimsAreOrdered`, `DeletionClaimsAreOrdered`: attempt numbers tell claims
  apart, so "owns the claim" has one owner.
* `CompletionIsRecorded`: a completed job has its artifact row, and until the tombstone
  the row's object is in S3. With it `CompletedJobHasArtifact` and
  `TerminalJobStaysTerminal` follow.
* `ArtifactRowsAreFinal`, `DeletionStarts`, `OnlyDeletedIsErased`: bookkeeping the
  others use.

The proof separates the steps. Most are a `SafeMove`: they may change a handler's
position, release a job, open an intent, or put a key back on the inventory, but take
nothing away that another handler relies on. `SafeMoveKeepsCore` shows once that
such a step preserves the invariant; one lemma per action shows that it is a safe
move. Eight steps are not (a job claim, taking the lock, the commit, a deletion
claim, erasing an object, marking it, the purge, accepting a deletion); each has a
lemma of its own. The queue does not occur in the invariant: erasure is safe
whatever SQS delivers.

### Wake-ups

`JobWakeUp` and `DeletionWakeUp` are the opposite: they are about the queue, and hold with
late writes. A message may reappear while its handler runs, so it is not enough that there
is one; whoever can delete it must be about to settle the work. `JobsInv` says that
receipts are exclusive (`ReceiptsAreExclusive`), that claims, artifact rows and intents agree
(`RowsAgree`), and that unfinished work has an outbox row or a message whose receipts are
held only by handlers that work on the job under a claim that holds (`UnfinishedIsAwake`).
`DeletionInv` follows the deletion's outbox row: a sweeper may publish a row and die before
it marks it, or be late and meet the row of a newer attempt, and `OutboxIsTrue` says what
each position guarantees. As in the erasure, one lemma about a kind of step (`Rests`,
`Sends`, `Takes`, `HandlerMoves`, `HandlersRest`, `RowMoves`) serves many actions.

### The reviews

`ApprovedIsEarned` speaks of approved workflows only. `EarnedInv` says of every state that
the approvers of every stage are eligible and independent of those of the others
(`Independent`), and that each stage before the active one has what its rule asks for
(`PassedInOrder`); a decision adds one approver to the active stage (`ApproversAfter`).
`OutcomeIsFinal` needs no invariant: every step that writes checks the state it finds.

`TablesInv` relates the other tables. What a member has seen is a past revision, and the
same revision means the same stage (`SeenIsPast`), so a decision that passes the revision
check is on the stage its author read. A transferred or escalated assignment has one
successor, and its own predecessor exists (`Linear`, `PredecessorsExist`); the work of a stage
that is still pending has no rows (`StageWorkIsKnown`), so a stage's activation never meets
the key of an old assignment. There is a terminal event exactly when the workflow is
decided, and its snapshot is the history at that moment (`History`). `KeyAssumption` says
that an idempotency key of a client is not the key the code derives from a stage and its
assignee. A decision ends the workflow, leaves its stage waiting for more, moves on to the
next stage or approves (`Ended`, `Supported`, `MovedOn`, `Approved`): each is treated once.

### The delivery

`PackageInv` carries the argument of three theorems. A terminal event is the only one of its
workflow and tells its state (`EventsInv`); a worker past its preparation has that event's
snapshot, wherever it was interrupted (`WorkerInv`); who holds the agreement row is about to
publish an event nobody has processed, of an agreement that is not being deleted (`LockInv`);
the objects are those of the terminal event with its content (`ObjectsInv`), hence no two
writers disagree; the package row is that of a processed event whose objects are there
(`RowInv`); and without late writes a deletion's inventory has them all (`InventoryInv`). The
invariant includes workers that lost their lock and go on writing: what they write is right,
only a deletion may not know of it.

`WakeInv` is the corresponding one for the messages: a row is marked only after its message
is sent (`OutboxInv`), and a receipt is for a message about the worker's own event, held by
nobody else, which is acknowledged when the event is settled (`ReceiptInv`). `Onward` lists
what no step takes back.

`DeliveryKeepsPromise` is the safety part of the refinement `KeepsPromise`. `PromiseNext`
reduces each action to one of four changes of workflow, package row and tombstone, and each
of those is a step of `ReviewOutcome` or a stutter. That a decided review is published at
all needs fairness and is checked by `Promise`.

### The services

* `RoutingInv`: a publication under way that overlaps no other has compared its policy
  with all published ones (`PublishesAlone`), and a tie of two policies is what
  `_routing_scopes_overlap` finds. Routing then never meets two best matches.
* `PlaybookInv` is the index; that published versions stay and freeze follows from the
  triggers, step by step.
* `DecisionInv`: the decisions on findings are recorded one call at a time. The call under
  way has read the whole history (`DecisionsAreSerial`) and has a time later than all rows.
  `ToldInv` adds that the last answer is what the rows of the finding leave in force. The
  view it was folded from is those rows in order (`HistoryIsTimed`), the new row comes last
  (`OrderGrows`), and such a fold gives what is in force (`FoldIsForce`).
* `QuestionInv`: while a thread is being created the agreements it names are held
  visible (`ScopeHeld`); the purge takes the threads there are. `AnswerInv` adds that what is
  visible now has been seen by every request under way (`SeenHeld`), that the turns of every
  thread say what a chunk with their anchors has said (`TurnsHeld`, `Grounded`), and of each
  request that its results are of agreements it has seen (`FoundHeld`) and its history of
  turns that were kept (`HistoryHeld`). The step that matters is the validation of an answer
  against results some of which may be gone (`SupportedIsGrounded`).
* `GatewayInv`: a vector that can be found is filed under the model that made it.
* `WindowInv`: a counter counts at least what it let through, and has an expiry when it is
  positive. `PaidInv`: the provider is called once for a turn, under its reservation, and
  nobody else files a row under the turn's key. `BudgetInv`: unless two transactions have
  held reservations at once, the one that holds one has room for its estimate, so that the
  row it files keeps the sum in the budget (`FilingKeepsBudget`).
* `AgreementsInv`: two transactions never hold one key (`KeysAreHeldOnce`); an upload's
  object is in S3 and a deletion's is in use by no active agreement until they commit
  (`WorkIsTrue`); the registry never calls deleted what active agreements use, and while no
  deletion has been rolled back it is in S3 (`RegistryIsTrue`).
* `IndexInv`: one active build and one writer for an agreement, and of an agreement that has
  caught up, what is found and what a normal job is about to write is in the active space
  (`CaughtUpIsCurrent`). A promotion that commits late may be older than the active one; then
  nothing changes, and otherwise nothing has caught up (`PromoteKeeps`).
* `ComparisonInv`: a run is known by its two versions, an object is never rewritten
  (`ObjectsAreFinal`), and a worker about to commit has an object to read (`JobsHaveRuns`).
  `AccountsInv` is about what the object says: a row of an analysis never changes, a run
  compares two versions that have one, and an artifact in hand or in S3 is the alignment of
  the two texts (`Told`). Of the alignment, each pass keeps `Sound`: the matches made so far
  pair elements no other match has, of types that may be joined, and what the pass leaves is
  exactly the rest. What all four leave becomes the added and the removed.
* The chunks: `Sections` says that the sections hold the tokens of all blocks read so far and
  share no block. `Accumulates` says of the loop over a section's tokens that the chunk under
  way is the run that ends at the last token read, that those before it begin earlier, each
  elsewhere, and that no token read is in none. Chunks of two sections differ in their
  anchors, those of one in their starts (`Covered`).

### Sums and folds

The ledger's sums and the fold of `_current_decision` run over data of any size. The library's
induction theorems take an operator as a parameter, but a well-founded order has minimal
elements in every set (`WFMin`), so that `Folds_proofs` can state induction over the subsets of
a finite set with a set for its hypothesis (`SubsetInduction`). From it follow that a
recursion along the subsets has a solution (`RecursionExists`) and only one
(`RecursionsAgree`), that a sum does not depend on the order in which elements are taken out
(`AddsAnyOrder`), and what another element adds to it (`SumGrows`). `PlaybookReview` says that
`InOrder` is some sequence of the decisions by their times; that there is one is again an
induction (`OrderExists`). The passes of the alignment are folds over the elements of a text
in order and over the pairs by their scores: what each step keeps, the whole fold keeps
(`StaysIn`, `RecursionStays`). For a loop whose invariant names how far it has come, the
recursion is read along the prefixes (`PrefixRecursion`, `PrefixSteps`, `PrefixInduction`).

### Model-checked only

Liveness, which is outside the prover's reach: `JobSettles`, `DeletionSettles` and the
liveness in `KeepsPromise`. The specifications' fairness needs `ENABLED`. Every safety
property of the runs is a theorem, with the hypotheses above where it needs one; of
`KeepsPromise` the safety part is.

## 5. Reading a run

`tlc -config MCServices.cfg MCServices` runs its scenes; with fewer elements in `Scenes` it
runs some. A counterexample of a scene leaves the variables of the others as they began.

## 6. Not modelled

* In the erasure: `expected_artifact()` raising before an artifact is known, and the profile
  without an artifact intent (embedding reindex, whose completion is in `RetrievalIndex`);
  `complete()`, for processors without `prepare()`: production processors have it;
  audit rows and tenant scoping; the length of back-offs: a failed publication of the outbox
  is due again at once, and a deletion retry at any later moment; claims that skip a locked
  request row, and clocks that differ between hosts; several concurrent `dispatch_pending`:
  what they add, a row published twice, is the outcome of `DispatchFails` with a message sent.
* In the reviews: due dates, texts of comments, authorization, membership changes, deadlocks
  (PostgreSQL aborts one transaction and it is retried).
* In the services: titles and other descriptive columns, values of `processing_state`, ranking
  and filters of searches, prompts, payloads of risk and fallback suggestions, the order of
  rows in a comparison, failures of S3 during one (`ProcessingWorker` has them).
  The batches of an embedding are one step, and so are the start of a promotion, its row and
  its list of builds; a key whose object was never uploaded is not given to `create()`; a
  model's provenance is its name.
  `PlaybookReview` assumes one clock for all API processes. `update_prompt` has no route.
* Document analysis and unified evaluation: pure extraction and calls to a model;
  `prepare()` stands for it.
* Identity and authorization, audit, worker lifecycle, MCP server, web application, schema
  and infrastructure: request-scoped checks, append-only rows, wiring and declarations.

## 7. Plan

1. Theorems: the promise of databases that were migrated, from a start of their own.
2. Models: several package objects and deletions of one workspace at a time; unified
   evaluation as a second producer of findings; the processing of comparisons under the
   claims of `ProcessingWorker` instead of its own.
