---------------------------- MODULE ModelGateway ----------------------------
(***************************************************************************)
(* The gateway to the models (model_gateway.py): which endpoint a call     *)
(* goes to, when it falls back to the hosted one, and what the reply says  *)
(* of itself; with the two users that depend on it most: the vectors of    *)
(* the index (embedding_indexing.py, its concurrency in RetrievalIndex)    *)
(* and the queries compared with them (search/service.py).  An endpoint    *)
(* answers, is unavailable, or refuses (an answer of another shape is a    *)
(* refusal too).                                                           *)
(***************************************************************************)
EXTENDS Naturals

CONSTANTS
    Deployments,   \* what the environment may configure: mode, own model and
                   \* the model of the hosted fallback, or NoModel
    Settings,      \* the configurations of the registry
    SettingOf,     \* the route (provider and model) and parameters of each
    DefaultSetting,\* the built-in one: the environment's model
    Passages,      \* chunks, and pieces of evidence
    NoModel

ASSUME GatewayAssumption ==
    /\ DefaultSetting \notin Settings
    /\ \A d \in Deployments :
        /\ d.mode \in {"openai", "openai-compatible"}
        /\ d.mode = "openai" => d.fallback = NoModel

VARIABLES
    deployment,   \* the environment of the process, which does not change
    active,       \* the configuration that is promoted
    embedded,     \* the row of each passage: who made its vector, and the
                  \* space it was filed under; or its state
    matched,      \* HISTORY: queries and vectors compared, by who made them
    told          \* the last grounded answer: who gave it, and who it names

gatewayVars == <<deployment, active, embedded, matched, told>>

Endpoint == {"answers", "unavailable", "refuses"}

\* model_gateway_from_environment: a deployment that is misconfigured raises
GatewayInit ==
    /\ deployment \in Deployments
    /\ active = DefaultSetting
    /\ embedded = [k \in Passages |-> [state |-> "none"]]
    /\ matched = {}
    /\ told = [by |-> NoModel, named |-> NoModel]

\* _effective_configuration and model_for_route: the model of a configuration,
\* or NoModel when its route is for another kind of endpoint
Effective(c) ==
    IF c = DefaultSetting THEN deployment.own
    ELSE IF SettingOf[c].provider = deployment.mode THEN SettingOf[c].model
    ELSE NoModel

\* _request_parameters and _embedding_request_parameters
ParametersOf(c) == IF c = DefaultSetting THEN {} ELSE SettingOf[c].parameters
Generates(c, mode) ==
    ParametersOf(c) \subseteq
        {"temperature", IF mode = "openai" THEN "max_output_tokens" ELSE "max_tokens"}
Embeds(c, mode) == ParametersOf(c) \subseteq {"encoding_format"}
Admits(operation, c, mode) ==
    (operation = "embed" /\ Embeds(c, mode)) \/ (operation = "generate" /\ Generates(c, mode))

\* Mutant: the provenance of a fallback is that of the first attempt
Intended(c, by) == Effective(c)
\* _provenance: the model of the endpoint that answered
Named(c, by) == by

Reply(c, by) == [outcome |-> "ok", by |-> by, version |-> c, named |-> Named(c, by)]
Failure(outcome) == [outcome |-> outcome, by |-> NoModel, version |-> NoModel, named |-> NoModel]

\* generate_json and embed: the endpoint of the deployment; when that is
\* unavailable, and then only, the hosted fallback, whose parameters are
\* checked again: any failure of it is one of both
Call(operation, c, first, second) ==
    IF Effective(c) = NoModel \/ ~Admits(operation, c, deployment.mode) THEN Failure("misconfigured")
    ELSE IF first = "answers" THEN Reply(c, Effective(c))
    ELSE IF first = "refuses" THEN Failure("refused")
    ELSE IF /\ deployment.fallback # NoModel
            /\ Admits(operation, c, "openai")
            /\ second = "answers" THEN Reply(c, deployment.fallback)
    ELSE Failure("unavailable")

-----------------------------------------------------------------------------
PromoteSetting(c) ==
    /\ active' = c
    /\ UNCHANGED <<deployment, embedded, matched, told>>

\* _embed_batch with the last of its retries, for the active configuration (a
\* normal job) or any (a reindex job, which records no failure); a passage
\* with a ready vector of the configuration's own model is left alone
EmbedPassage(k, c, normal, first, second) ==
    LET reply == Call("embed", c, first, second)
    IN  /\ normal => c = active
        /\ ~(embedded[k].state = "ready" /\ embedded[k].version = c /\ embedded[k].named = Effective(c))
        /\ reply.outcome # "misconfigured"
        /\ reply.outcome = "ok" \/ normal
        /\ embedded' = [embedded EXCEPT ![k] =
                IF reply.outcome = "ok"
                THEN [state |-> "ready", by |-> reply.by, version |-> c, named |-> reply.named]
                ELSE [state |-> "unavailable"]]
        /\ UNCHANGED <<deployment, active, matched, told>>

\* semantic_candidates: the ready vectors of a configuration and a model
SpaceOf(version, model) ==
    {k \in Passages : /\ embedded[k].state = "ready"
                      /\ embedded[k].version = version /\ embedded[k].named = model}

\* candidates(): a query in the active configuration, or in an earlier one
\* that some vectors are still filed under
SearchPassages(c, first, second) ==
    LET reply == Call("embed", c, first, second)
    IN  /\ c = active \/ \E k \in Passages : embedded[k].state = "ready" /\ embedded[k].version = c
        /\ reply.outcome = "ok"
        /\ matched' = matched \cup
            {<<reply.by, embedded[k].by>> : k \in SpaceOf(c, reply.named)}
        /\ UNCHANGED <<deployment, active, embedded, told>>

\* answer(): a reply that cites anything but the evidence is refused
AnswerFrom(evidence, cited, c, first, second) ==
    LET reply == Call("generate", c, first, second)
    IN  /\ reply.outcome = "ok" /\ cited \subseteq evidence
        /\ told' = [by |-> reply.by, named |-> reply.named]
        /\ UNCHANGED <<deployment, active, embedded, matched>>

GatewayNext ==
    \/ \E c \in Settings : PromoteSetting(c)
    \/ \E c \in Settings \cup {DefaultSetting}, first, second \in Endpoint :
        \/ \E k \in Passages, normal \in BOOLEAN : EmbedPassage(k, c, normal, first, second)
        \/ SearchPassages(c, first, second)
        \/ c = active /\ \E evidence, cited \in SUBSET Passages :
                            AnswerFrom(evidence, cited, c, first, second)

GatewaySpec == GatewayInit /\ [][GatewayNext]_gatewayVars

-----------------------------------------------------------------------------
\* A query is compared with vectors of the model that embedded it only, and an
\* answer names the model that gave it, whichever endpoint answered when the
\* index was built, when the question came, and under whichever configuration.
ProvenanceIsTrue ==
    /\ \A pair \in matched : pair[1] = pair[2]
    /\ told.by = told.named
=============================================================================
