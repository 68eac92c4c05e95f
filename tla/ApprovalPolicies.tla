-------------------------- MODULE ApprovalPolicies --------------------------
(***************************************************************************)
(* Approval policies as ApprovalPolicyService (approval_policies/          *)
(* service.py) keeps them, and the choice of one for a review.  create and *)
(* create_version are one step (a new row, or the policy row locked);      *)
(* publish reads other policies without a lock and commits later, and no   *)
(* index of the database stands in for the check.                          *)
(***************************************************************************)
EXTENDS Naturals, FiniteSets

CONSTANTS
    PolicyIds,
    Directions, Jurisdictions, Materialities,  \* values besides "any"
    Precedences,
    StageLists,   \* the stage lists drafts are made with
    MaxPolicyVersions,  \* BOUND on the versions of a policy
    Publishers,   \* calls of publish() that may overlap (BOUND)
    NoPolicy

\* What a policy, or a request for one, is about (within one agreement family)
Scope == [direction : Directions \cup {"any"}, jurisdiction : Jurisdictions \cup {"any"},
          materiality : Materialities \cup {"any"}]
RankedScope == [scope : Scope, precedence : Precedences]
Request == Scope

ASSUME PolicyCatalogAssumption ==
    /\ Precedences \subseteq Nat /\ MaxPolicyVersions \in Nat \ {0}
    /\ \A D \in {Directions, Jurisdictions, Materialities} : "any" \notin D
    /\ NoPolicy \notin PolicyIds \cup (PolicyIds \X (1..MaxPolicyVersions)) \cup RankedScope

VARIABLES
    policyScope,    \* the approval_policies rows
    policyVersion,  \* the approval_policy_versions rows, with their stages
    publishing,     \* the version each publish() has checked
    overlapped      \* HISTORY: two publications have overlapped

policyVars == <<policyScope, policyVersion, publishing, overlapped>>

PolicyInit ==
    /\ policyScope = [p \in PolicyIds |-> NoPolicy]
    /\ policyVersion = [v \in {} |-> NoPolicy]
    /\ publishing = [c \in Publishers |-> NoPolicy]
    /\ overlapped = FALSE

PublishedPolicies ==
    {p \in PolicyIds : \E n \in 1..MaxPolicyVersions :
        <<p, n>> \in DOMAIN policyVersion /\ policyVersion[<<p, n>>].status = "published"}

\* _validate_draft: each stage names somebody, and a quorum, which belongs
\* to the mode of that name, does not exceed the roles and users named
ValidStage(s) ==
    /\ s.roles \cup s.users # {}
    /\ IF s.mode = "quorum"
       THEN s.quorum # 0 /\ s.quorum <= Cardinality(s.roles) + Cardinality(s.users)
       ELSE s.quorum = 0
ValidDraft(stages) == DOMAIN stages # {} /\ \A i \in DOMAIN stages : ValidStage(stages[i])

NewDraft(v, stages) ==
    policyVersion' = [w \in DOMAIN policyVersion \cup {v} |->
        IF w = v THEN [status |-> "draft", stages |-> stages] ELSE policyVersion[w]]

CreatePolicy(p, ranked, stages) ==
    /\ policyScope[p] = NoPolicy
    /\ policyScope' = [policyScope EXCEPT ![p] = ranked]
    /\ NewDraft(<<p, 1>>, stages)
    /\ UNCHANGED <<publishing, overlapped>>

\* versions are never deleted: the next number is one more than there are
CreatePolicyVersion(p, n, stages) ==
    /\ policyScope[p] # NoPolicy
    /\ <<p, n>> \notin DOMAIN policyVersion
    /\ n > 1 => <<p, n - 1>> \in DOMAIN policyVersion
    /\ \/ stages = <<>>
       \/ \E v \in DOMAIN policyVersion : v[1] = p /\ policyVersion[v].stages = stages
    /\ NewDraft(<<p, n>>, stages)
    /\ UNCHANGED <<policyScope, publishing, overlapped>>

-----------------------------------------------------------------------------
\* _route_sort_key: how many of the three the policy names, then precedence
Specificity(s) == Cardinality({f \in DOMAIN s : s[f] # "any"})
SameRank(r, s) ==
    Specificity(r.scope) = Specificity(s.scope) /\ r.precedence = s.precedence
RanksAbove(r, s) ==
    \/ Specificity(r.scope) > Specificity(s.scope)
    \/ Specificity(r.scope) = Specificity(s.scope) /\ r.precedence > s.precedence

\* Mutant: scopes overlap when they are equal
EqualScopes(r, s) == r = s

\* _routing_scopes_overlap
Overlap(r, s) ==
    \A f \in {"direction", "jurisdiction", "materiality"} :
        r[f] = "any" \/ s[f] = "any" \/ r[f] = s[f]

\* _scope_matches, for the three fields
Matches(s, request) ==
    \A f \in {"direction", "jurisdiction", "materiality"} : s[f] = "any" \/ s[f] = request[f]

Tie(p, q) ==
    /\ SameRank(policyScope[p], policyScope[q])
    /\ Overlap(policyScope[p].scope, policyScope[q].scope)

\* publish() reads the version, its policy's other versions and the published
\* policies (_ensure_no_equal_routing_match) ...
PublishPolicyRead(c, v) ==
    /\ publishing[c] = NoPolicy
    /\ v \in DOMAIN policyVersion
    /\ policyVersion[v].status = "draft"
    /\ ValidDraft(policyVersion[v].stages)
    /\ v[1] \notin PublishedPolicies
    /\ \A q \in PublishedPolicies : ~Tie(v[1], q)
    /\ publishing' = [publishing EXCEPT ![c] = v]
    /\ overlapped' = (overlapped \/ \E d \in Publishers : publishing[d] # NoPolicy)
    /\ UNCHANGED <<policyScope, policyVersion>>

\* ... and commits the new status
PublishPolicyCommit(c) ==
    /\ publishing[c] # NoPolicy
    /\ policyVersion' = [policyVersion EXCEPT ![publishing[c]].status = "published"]
    /\ publishing' = [publishing EXCEPT ![c] = NoPolicy]
    /\ UNCHANGED <<policyScope, overlapped>>

\* route(): the best of the published policies that match; with two equally
\* good ones the request is refused (approval_policy_routing_conflict)
Matching(request) ==
    {p \in PublishedPolicies : Matches(policyScope[p].scope, request)}
Best(request) ==
    {p \in Matching(request) :
        \A q \in Matching(request) : ~RanksAbove(policyScope[q], policyScope[p])}
RoutingRefused(request) == \E p, q \in Best(request) : p # q

PolicyNext ==
    \/ \E p \in PolicyIds, ranked \in RankedScope, stages \in StageLists :
        CreatePolicy(p, ranked, stages)
    \/ \E p \in PolicyIds, n \in 1..MaxPolicyVersions, stages \in StageLists \cup {<<>>} :
        CreatePolicyVersion(p, n, stages)
    \/ \E c \in Publishers, v \in PolicyIds \X (1..MaxPolicyVersions) : PublishPolicyRead(c, v)
    \/ \E c \in Publishers : PublishPolicyCommit(c)

PolicySpec == PolicyInit /\ [][PolicyNext]_policyVars

-----------------------------------------------------------------------------
NoTies == \A p, q \in PublishedPolicies : p # q => ~Tie(p, q)

\* As long as no two publications have overlapped, no two published policies
\* tie (publish() checks what is committed; test_approval_policies.py:
\* "publication rejects overlapping scopes that would tie at routing"). ...
TiesNeedOverlap == ~overlapped => NoTies

\* ... and then a request is never refused for a tie: what the publication
\* compares (_routing_scopes_overlap) covers what the routing compares.
RoutingAnswers == ~overlapped => \A request \in Request : ~RoutingRefused(request)
=============================================================================
