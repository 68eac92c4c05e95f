--------------------------- MODULE RetrievalIndex ---------------------------
(***************************************************************************)
(* The retrieval index: builds of chunks (document_indexing.py), their     *)
(* vectors (embedding_indexing.py), the registry of AI configurations and  *)
(* the jobs a promotion makes (ai_config/service.py, ai_configuration.py), *)
(* and what semantic search reads (search/service.py, repository.py).  The *)
(* sinks run after a job has completed, and again whenever its message is  *)
(* delivered again (processing.py _recover_completed_evaluation).  Each    *)
(* locks the agreement (completion_fence.py); the embedding sink keeps the *)
(* lock while it calls the provider.                                       *)
(***************************************************************************)
EXTENDS Naturals, Sequences, FiniteSetsExt

CONSTANTS
    Documents,       \* agreements with an index
    Texts,           \* source checksums; a build of an agreement is of one
    Configurations,  \* embedding configurations of the registry
    Valid,           \* those _ensure_valid accepts
    BuiltIn,         \* what is resolved before any promotion
    MaxPromotions,   \* BOUND on promotions
    Sinks            \* worker processes that run the sinks

ASSUME IndexAssumption ==
    /\ Valid \subseteq Configurations /\ BuiltIn \notin Configurations
    /\ {"none", "unavailable"} \cap (Configurations \cup {BuiltIn}) = {}
    /\ MaxPromotions \in Nat

VARIABLES
    document,       \* "active", "archived" or "deleting"
    build,          \* each build: "none", "active" or "stale"
    vector,         \* of each build: "none", "unavailable" or a configuration
    configuration,  \* "none", "draft" or "published"
    promotions,     \* the promotions in the order of promoted_at: each with its
                    \* configuration, the builds it has read, and whether it is
                    \* committed
    analysed,       \* the completed jobs of analysis: agreement and source
    reindexing,     \* the jobs of promotions: configuration, agreement, source
    sink,           \* what each worker is doing
    caughtUp        \* HISTORY: agreements whose last reindex job was the
                    \* active configuration's, since it was promoted

indexVars == <<document, build, vector, configuration, promotions,
               analysed, reindexing, sink, caughtUp>>

Asleep == [step |-> "idle"]

IndexInit ==
    /\ document = [d \in Documents |-> "active"]
    /\ build = [d \in Documents |-> [s \in Texts |-> "none"]]
    /\ vector = [d \in Documents |-> [s \in Texts |-> "none"]]
    /\ configuration = [c \in Configurations |-> "none"]
    /\ promotions = <<>>
    /\ analysed = {} /\ reindexing = {}
    /\ sink = [w \in Sinks |-> Asleep]
    /\ caughtUp = {}

\* resolve_configuration: the last of the promotions that are committed
Promoted == {n \in DOMAIN promotions : promotions[n].done}
Resolved ==
    IF Promoted = {} THEN BuiltIn ELSE promotions[Max(Promoted)].of

\* Mutant: the sinks do not lock the agreement
NoLock(d) == TRUE
\* lock_active_agreement, and the lock of archive, restore and deletion
LockFree(d) == \A w \in Sinks : ~(sink[w].step = "write" /\ sink[w].document = d)

-----------------------------------------------------------------------------
CreateConfiguration(c) ==
    /\ configuration[c] = "none"
    /\ configuration' = [configuration EXCEPT ![c] = "draft"]
    /\ UNCHANGED <<document, build, vector, promotions, analysed, reindexing, sink, caughtUp>>

\* of two publications the trigger refuses the second
PublishConfiguration(c) ==
    /\ configuration[c] = "draft" /\ c \in Valid
    /\ configuration' = [configuration EXCEPT ![c] = "published"]
    /\ UNCHANGED <<document, build, vector, promotions, analysed, reindexing, sink, caughtUp>>

\* promote() and _enqueue_embedding_reindex_jobs: the row of the promotion, and
\* the active builds of agreements that are neither archived nor being deleted;
\* several may overlap, and one that fails is never committed ...
PromoteRead(c) ==
    /\ configuration[c] = "published"
    /\ Len(promotions) < MaxPromotions
    /\ promotions' = Append(promotions, [of |-> c, done |-> FALSE,
            builds |-> {b \in Documents \X Texts :
                            document[b[1]] = "active" /\ build[b[1]][b[2]] = "active"}])
    /\ UNCHANGED <<document, build, vector, configuration, analysed, reindexing, sink, caughtUp>>

\* ... and a job for each, unless this configuration had one for that build
PromoteCommit(n) ==
    /\ n \notin Promoted
    /\ promotions' = [promotions EXCEPT ![n] = [of |-> @.of, done |-> TRUE, builds |-> {}]]
    /\ reindexing' = reindexing \cup
            {<<promotions[n].of, b[1], b[2]>> : b \in promotions[n].builds}
    /\ caughtUp' = IF Resolved' = Resolved THEN caughtUp ELSE {}
    /\ UNCHANGED <<document, build, vector, configuration, analysed, sink>>

-----------------------------------------------------------------------------
\* commit_prepared of an analysis job
CompleteAnalysis(d, s) ==
    /\ document[d] # "deleting"
    /\ analysed' = analysed \cup {<<d, s>>}
    /\ UNCHANGED <<document, build, vector, configuration, promotions, reindexing, sink, caughtUp>>

\* EmbeddingReindexCompletionHandler: a completed job, or one whose message
\* has come again, goes to the sinks, ...
StartNormal(w, d, s) ==
    /\ sink[w] = Asleep
    /\ <<d, s>> \in analysed
    /\ sink' = [sink EXCEPT ![w] = [step |-> "index", document |-> d, source |-> s]]
    /\ UNCHANGED <<document, build, vector, configuration, promotions, analysed, reindexing, caughtUp>>

\* ... a job of a promotion to the embedding sink only
StartReindex(w, job) ==
    /\ sink[w] = Asleep
    /\ job \in reindexing
    /\ sink' = [sink EXCEPT ![w] = [step |-> "embed", document |-> job[2], job |-> job[1]]]
    /\ UNCHANGED <<document, build, vector, configuration, promotions, analysed, reindexing, caughtUp>>

\* SQLAlchemyDocumentIndexSink.completed: one transaction makes the build the
\* active one and removes chunks and vectors of the others
BuildIndex(w) ==
    LET d == sink[w].document
        s == sink[w].source
    IN  /\ sink[w].step = "index"
        /\ LockFree(d)
        /\ IF document[d] = "deleting" \/ build[d][s] = "active"
           THEN UNCHANGED <<build, vector>>
           ELSE /\ build' = [build EXCEPT ![d] = [t \in Texts |->
                        IF t = s THEN "active" ELSE IF @[t] = "active" THEN "stale" ELSE @[t]]]
                /\ vector' = [vector EXCEPT ![d] = [t \in Texts |-> "none"]]
        /\ sink' = [sink EXCEPT ![w] = [step |-> "embed", document |-> d, job |-> "normal"]]
        /\ UNCHANGED <<document, configuration, promotions, analysed, reindexing, caughtUp>>

\* A reindex job has embedded the index, or found it embedded
CatchUp(d, job) ==
    caughtUp' = IF job = "normal" THEN caughtUp
                ELSE IF job = Resolved THEN caughtUp \cup {d} ELSE caughtUp \ {d}

\* The configuration an embedding job works with: a reindex job's own (_load_by_id)
ConfigurationOf(job) == IF job = "normal" THEN Resolved ELSE job

\* SQLAlchemyEmbeddingIndexSink.completed: the lock, the configuration and the
\* chunks of the active build that have no ready vector of it ...
EmbedRead(w) ==
    LET d == sink[w].document
        job == sink[w].job
        c == ConfigurationOf(job)
        lacking == {s \in Texts : build[d][s] = "active" /\ vector[d][s] # c}
    IN  /\ sink[w].step = "embed"
        /\ LockFree(d)
        /\ IF document[d] = "deleting"
           THEN sink' = [sink EXCEPT ![w] = Asleep] /\ UNCHANGED caughtUp
           ELSE IF lacking = {}
           THEN sink' = [sink EXCEPT ![w] = Asleep] /\ CatchUp(d, job)
           ELSE /\ \E s \in lacking : sink' = [sink EXCEPT ![w] =
                        [step |-> "write", document |-> d, source |-> s, job |-> job, with |-> c]]
                /\ UNCHANGED caughtUp
        /\ UNCHANGED <<document, build, vector, configuration, promotions, analysed, reindexing>>

\* ... and _replace_batch, when the provider has answered for all batches, which
\* are one transaction.  The key of a vector to its chunk refuses it when the
\* chunk is gone.
EmbedReady(w) ==
    LET d == sink[w].document
        s == sink[w].source
    IN  /\ sink[w].step = "write"
        /\ IF build[d][s] = "active"
           THEN vector' = [vector EXCEPT ![d][s] = sink[w].with] /\ CatchUp(d, sink[w].job)
           ELSE UNCHANGED <<vector, caughtUp>>
        /\ sink' = [sink EXCEPT ![w] = Asleep]
        /\ UNCHANGED <<document, build, configuration, promotions, analysed, reindexing>>

\* The provider fails: a normal job records that, in place of any vector there
\* was; the job of a promotion rolls back and its message comes again.
EmbedUnavailable(w) ==
    LET d == sink[w].document
        s == sink[w].source
    IN  /\ sink[w].step = "write"
        /\ vector' = IF sink[w].job = "normal" /\ build[d][s] = "active"
                     THEN [vector EXCEPT ![d][s] = "unavailable"] ELSE vector
        /\ sink' = [sink EXCEPT ![w] = Asleep]
        /\ UNCHANGED <<document, build, configuration, promotions, analysed, reindexing, caughtUp>>

\* a crash; the message comes again
CrashSink(w) ==
    /\ sink[w] # Asleep
    /\ sink' = [sink EXCEPT ![w] = Asleep]
    /\ UNCHANGED <<document, build, vector, configuration, promotions, analysed, reindexing, caughtUp>>

-----------------------------------------------------------------------------
\* archive, restore and the deletion request lock the agreement
MoveDocument(d, from, to) ==
    /\ document[d] = from /\ LockFree(d)
    /\ document' = [document EXCEPT ![d] = to]
    /\ UNCHANGED <<build, vector, configuration, promotions, analysed, reindexing, sink, caughtUp>>

\* complete_and_purge removes jobs, builds, chunks and vectors
PurgeIndex(d) ==
    /\ document[d] = "deleting"
    /\ build' = [build EXCEPT ![d] = [s \in Texts |-> "none"]]
    /\ vector' = [vector EXCEPT ![d] = [s \in Texts |-> "none"]]
    /\ analysed' = {j \in analysed : j[1] # d}
    /\ reindexing' = {j \in reindexing : j[2] # d}
    /\ UNCHANGED <<document, configuration, promotions, sink, caughtUp>>

IndexNext ==
    \/ \E c \in Configurations : CreateConfiguration(c) \/ PublishConfiguration(c) \/ PromoteRead(c)
    \/ \E n \in DOMAIN promotions : PromoteCommit(n)
    \/ \E d \in Documents :
        \/ \E s \in Texts : CompleteAnalysis(d, s) \/ \E w \in Sinks : StartNormal(w, d, s)
        \/ \E from, to \in {"active", "archived", "deleting"} :
            from # "deleting" /\ from # to /\ MoveDocument(d, from, to)
        \/ PurgeIndex(d)
    \/ \E w \in Sinks :
        \/ \E job \in reindexing : StartReindex(w, job)
        \/ BuildIndex(w) \/ EmbedRead(w) \/ EmbedReady(w) \/ EmbedUnavailable(w) \/ CrashSink(w)

IndexSpec == IndexInit /\ [][IndexNext]_indexVars

-----------------------------------------------------------------------------
\* semantic_candidates: what a query embedded with a configuration can find
InSpace(c) == {d \in Documents :
    document[d] = "active" /\ \E s \in Texts : build[d][s] = "active" /\ vector[d][s] = c}

\* SQLAlchemySemanticCandidateProvider.candidates: the spaces besides the
\* active one it asks, at the cost of an embedding each (BOUND: below its five)
PriorSpaces == {c \in Configurations \cup {BuiltIn} : c # Resolved /\ InSpace(c) # {}}

\* After the reindex job of the active configuration, the agreement is found in
\* the space of that configuration or not at all, whatever versions are indexed,
\* analyses delivered again and jobs that began before the promotion end later;
\* only a reindex job of an earlier promotion takes it back.
NewestSpaceSticks == \A c \in PriorSpaces : InSpace(c) \cap caughtUp = {}
=============================================================================
