-------------------------- MODULE Playbooks_proofs --------------------------
(***************************************************************************)
(* Published playbook versions: one per playbook at most, and frozen once  *)
(* no rule change is under way on them, for any playbooks, rules, versions *)
(* and number of calls that overlap.  Then the routing of approval         *)
(* policies, and the decisions on the findings of an evaluation: the lock  *)
(* of the agreement makes them serial, and the fold over them says what is *)
(* in force.                                                               *)
(***************************************************************************)
EXTENDS Playbooks, ApprovalPolicies, PlaybookReview, Folds_proofs,
        FiniteSetTheorems, TLAPS

VersionRow == [playbook : PlaybookIds, status : {"draft", "published"}, rules : SUBSET Rules]
CallRow == [kind : {"edit", "publish", "delete"}, on : SUBSET (VersionIds \cup PlaybookIds),
            drop : SUBSET Rules, add : SUBSET Rules]

PlaybookTypeOK ==
    /\ DOMAIN version \subseteq VersionIds
    /\ version \in [DOMAIN version -> VersionRow]
    /\ call \in [Calls -> CallRow \cup {None}]

PlaybookInv == PlaybookTypeOK /\ OnePublishedVersion

LEMMA PlaybookInitial == PlaybookInit => PlaybookInv
<1> SUFFICES ASSUME PlaybookInit PROVE PlaybookInv
  OBVIOUS
<1>1. DOMAIN version = {}
  BY DEF PlaybookInit
<1> QED
  BY <1>1 DEF PlaybookInit, PlaybookInv, PlaybookTypeOK, OnePublishedVersion

\* A new draft leaves the published versions as they are.
LEMMA NewDraftKeeps ==
  ASSUME PlaybookInv, NEW p \in PlaybookIds, NEW v \in VersionIds, NEW rules \in SUBSET Rules,
         v \notin DOMAIN version, AddVersion(v, Draft(p, rules)), UNCHANGED call
  PROVE  /\ PlaybookInv'
         /\ \A w \in DOMAIN version : w \in DOMAIN version' /\ version'[w] = version[w]
<1>1. DOMAIN version' = DOMAIN version \cup {v}
  BY DEF AddVersion
<1>2. \A w \in DOMAIN version : version'[w] = version[w]
  BY DEF AddVersion
<1>3. version'[v] = Draft(p, rules)
  BY DEF AddVersion
<1>4. Draft(p, rules) \in VersionRow /\ Draft(p, rules).status = "draft"
  BY DEF Draft, VersionRow
<1>5. version' \in [DOMAIN version' -> VersionRow]
  BY <1>1, <1>2, <1>3, <1>4 DEF AddVersion, PlaybookInv, PlaybookTypeOK
<1>6. PlaybookTypeOK'
  BY <1>1, <1>5 DEF PlaybookInv, PlaybookTypeOK
<1>7. OnePublishedVersion'
  BY <1>1, <1>2, <1>3, <1>4 DEF PlaybookInv, OnePublishedVersion, Published
<1> QED
  BY <1>1, <1>2, <1>6, <1>7 DEF PlaybookInv

\* Removing versions publishes nothing.
LEMMA WithoutKeeps ==
  ASSUME PlaybookInv, NEW vs, version' = Without(vs),
         call' \in [Calls -> CallRow \cup {None}]
  PROVE  /\ PlaybookInv'
         /\ \A w \in DOMAIN version \ vs : w \in DOMAIN version' /\ version'[w] = version[w]
<1>1. DOMAIN version' = DOMAIN version \ vs
  BY DEF Without
<1>2. \A w \in DOMAIN version' : version'[w] = version[w]
  BY DEF Without
<1>3. PlaybookTypeOK'
  BY <1>1, <1>2 DEF PlaybookInv, PlaybookTypeOK, Without
<1> QED
  BY <1>1, <1>2, <1>3 DEF PlaybookInv, OnePublishedVersion, Published

\* What a step does to a published version: it stays published, and when no
\* rule change of it is under way its rules stay and none begins.
Kept(v) ==
    /\ Published(v)'
    /\ ~Pending("edit", v) => ~Pending("edit", v)' /\ version'[v].rules = version[v].rules

LEMMA CreateKeeps ==
  ASSUME PlaybookInv, NEW p \in PlaybookIds, NEW v \in VersionIds,
         \/ \E route \in Routes, rules \in SUBSET Rules : CreatePlaybook(p, v, route, rules)
         \/ \E source \in VersionsOf(p) \cup {None} : CreateVersion(p, v, source)
  PROVE  PlaybookInv' /\ \A w \in DOMAIN version : Published(w) => Kept(w)
<1>1. /\ v \notin DOMAIN version /\ UNCHANGED call
      /\ \E rules \in SUBSET Rules : AddVersion(v, Draft(p, rules))
  <2>1. CASE \E route \in Routes, rules \in SUBSET Rules : CreatePlaybook(p, v, route, rules)
    BY <2>1 DEF CreatePlaybook, FreshVersion
  <2>2. ASSUME NEW source \in VersionsOf(p) \cup {None}, CreateVersion(p, v, source)
        PROVE  /\ v \notin DOMAIN version /\ UNCHANGED call
               /\ \E rules \in SUBSET Rules : AddVersion(v, Draft(p, rules))
    <3>1. source # None => version[source].rules \in SUBSET Rules
      BY DEF VersionsOf, PlaybookInv, PlaybookTypeOK, VersionRow
    <3>2. (IF source = None THEN {} ELSE version[source].rules) \in SUBSET Rules
      BY <3>1
    <3> QED
      BY <2>2, <3>2 DEF CreateVersion, FreshVersion
  <2> QED
    BY <2>1, <2>2
<1>2. PlaybookInv' /\ \A w \in DOMAIN version : w \in DOMAIN version' /\ version'[w] = version[w]
  BY <1>1, NewDraftKeeps
<1>3. \A w : Pending("edit", w)' <=> Pending("edit", w)
  BY <1>1 DEF Pending
<1> QED
  BY <1>2, <1>3 DEF Kept, Published

LEMMA DeleteVersionKeeps ==
  ASSUME PlaybookInv, NEW v \in VersionIds, DeleteVersion(v)
  PROVE  PlaybookInv' /\ \A w \in DOMAIN version : Published(w) => Kept(w)
<1>1. version' = Without({v}) /\ ~Published(v) /\ UNCHANGED call
  BY DEF DeleteVersion
<1>2. /\ PlaybookInv'
      /\ \A w \in DOMAIN version \ {v} : w \in DOMAIN version' /\ version'[w] = version[w]
  BY <1>1, WithoutKeeps DEF PlaybookInv, PlaybookTypeOK
<1>3. \A w : Pending("edit", w)' <=> Pending("edit", w)
  BY <1>1 DEF Pending
<1> QED
  BY <1>1, <1>2, <1>3 DEF Kept, Published

\* A rule change can begin on a draft only (the trigger of migration 0008).
LEMMA EditKeeps ==
  ASSUME PlaybookInv, NEW c \in Calls, NEW v \in DOMAIN version,
         NEW drop \in SUBSET Rules, NEW add \in SUBSET Rules, EditRule(c, v, drop, add)
  PROVE  PlaybookInv' /\ \A w \in DOMAIN version : Published(w) => Kept(w)
<1>1. /\ UNCHANGED version /\ ~Published(v)
      /\ call' = [call EXCEPT ![c] = [kind |-> "edit", on |-> {v}, drop |-> drop, add |-> add]]
  BY DEF EditRule, RuleTrigger, Published
<1>2. [kind |-> "edit", on |-> {v}, drop |-> drop, add |-> add] \in CallRow
  BY DEF CallRow, PlaybookInv, PlaybookTypeOK
<1>3. PlaybookInv'
  BY <1>1, <1>2 DEF PlaybookInv, PlaybookTypeOK, OnePublishedVersion, Published
<1>4. ASSUME NEW w, w # v, ~Pending("edit", w) PROVE ~Pending("edit", w)'
  <2> SUFFICES ASSUME NEW d \in Calls, call'[d] # None, call'[d].kind = "edit", w \in call'[d].on
               PROVE  FALSE
    BY DEF Pending
  <2>1. d # c
    BY <1>1, <1>4 DEF PlaybookInv, PlaybookTypeOK
  <2> QED
    BY <1>1, <1>4, <2>1 DEF Pending, PlaybookInv, PlaybookTypeOK
<1> QED
  BY <1>1, <1>3, <1>4 DEF Kept, Published

\* A call that ends, or one that is no rule change, begins no rule change.
LEMMA NoNewEdit ==
  ASSUME PlaybookTypeOK, NEW c \in Calls, NEW row, row = None \/ row.kind # "edit",
         call' = [call EXCEPT ![c] = row], NEW w, ~Pending("edit", w)
  PROVE  ~Pending("edit", w)'
BY DEF Pending, PlaybookTypeOK

\* The end of a rule change changes the rules of its own version only, which
\* is not settled.
LEMMA CommitRuleKeeps ==
  ASSUME PlaybookInv, NEW c \in Calls, NEW v \in VersionIds, CommitRule(c, v)
  PROVE  PlaybookInv' /\ \A w \in DOMAIN version : Published(w) => Kept(w)
<1> DEFINE new == (version[v].rules \ call[c].drop) \cup call[c].add
<1>1. /\ version' = [version EXCEPT ![v].rules = new]
      /\ call' = [call EXCEPT ![c] = None]
      /\ Pending("edit", v)
  BY DEF CommitRule, Pending
<1>2. DOMAIN version' = DOMAIN version
  BY <1>1
<1>3. \A w \in DOMAIN version :
        /\ version'[w].status = version[w].status
        /\ version'[w].playbook = version[w].playbook
        /\ w # v => version'[w] = version[w]
  BY <1>1 DEF PlaybookInv, PlaybookTypeOK, VersionRow
<1>4. v \in DOMAIN version => new \in SUBSET Rules
  BY DEF CommitRule, PlaybookInv, PlaybookTypeOK, VersionRow, CallRow
<1>5. PlaybookTypeOK'
  <2>1. \A w \in DOMAIN version : version'[w] \in VersionRow
    <3> SUFFICES ASSUME NEW w \in DOMAIN version PROVE version'[w] \in VersionRow
      OBVIOUS
    <3>1. CASE w = v
      BY <1>1, <1>4, <3>1 DEF PlaybookInv, PlaybookTypeOK, VersionRow
    <3>2. CASE w # v
      BY <1>3, <3>2 DEF PlaybookInv, PlaybookTypeOK
    <3> QED
      BY <3>1, <3>2
  <2> QED
    BY <1>1, <1>2, <2>1 DEF PlaybookInv, PlaybookTypeOK
<1>6. OnePublishedVersion'
  BY <1>2, <1>3 DEF PlaybookInv, OnePublishedVersion, Published
<1>7. \A w : ~Pending("edit", w) => ~Pending("edit", w)'
  BY <1>1, NoNewEdit DEF PlaybookInv
<1>8. \A w \in DOMAIN version : ~Pending("edit", w) => version'[w].rules = version[w].rules
  BY <1>1, <1>3
<1> QED
  BY <1>2, <1>3, <1>5, <1>6, <1>7, <1>8 DEF PlaybookInv, Kept, Published

\* A call that only reads begins no rule change.
LEMMA ReadKeeps ==
  ASSUME PlaybookInv, NEW c \in Calls, NEW row \in CallRow, row.kind # "edit",
         call' = [call EXCEPT ![c] = row], UNCHANGED version
  PROVE  PlaybookInv' /\ \A w \in DOMAIN version : Published(w) => Kept(w)
<1>1. PlaybookInv'
  BY DEF PlaybookInv, PlaybookTypeOK, OnePublishedVersion, Published
<1>2. \A w : ~Pending("edit", w) => ~Pending("edit", w)'
  BY NoNewEdit DEF PlaybookInv
<1> QED
  BY <1>1, <1>2 DEF Kept, Published

\* The row is published only if its playbook has no published version at that
\* moment, whatever the call read before.
LEMMA PublishCommitKeeps ==
  ASSUME PlaybookInv, NEW c \in Calls, NEW v \in VersionIds, PublishCommit(c, v)
  PROVE  PlaybookInv' /\ \A w \in DOMAIN version : Published(w) => Kept(w)
<1>1. call' = [call EXCEPT ![c] = None]
  BY DEF PublishCommit
<1>2. \A w : ~Pending("edit", w) => ~Pending("edit", w)'
  BY <1>1, NoNewEdit DEF PlaybookInv
<1>3. CASE ~PublishAllowed(v)
  <2>1. UNCHANGED version
    BY <1>3 DEF PublishCommit
  <2> QED
    BY <1>1, <1>2, <2>1
    DEF Kept, Published, PlaybookInv, PlaybookTypeOK, OnePublishedVersion
<1>4. CASE PublishAllowed(v)
  <2>1. version' = [version EXCEPT ![v].status = "published"] /\ DOMAIN version' = DOMAIN version
    BY <1>4 DEF PublishCommit
  <2>2. v \in DOMAIN version /\ \A w \in DOMAIN version :
            version[w].playbook = version[v].playbook => ~Published(w)
    BY <1>4 DEF PublishAllowed, VersionsOf
  <2>3. \A w \in DOMAIN version :
          /\ version'[w].playbook = version[w].playbook
          /\ version'[w].rules = version[w].rules
          /\ w # v => version'[w] = version[w]
          /\ w = v => version'[w].status = "published"
    BY <2>1 DEF PlaybookInv, PlaybookTypeOK, VersionRow
  <2>4. PlaybookTypeOK'
    BY <1>1, <2>1 DEF PlaybookInv, PlaybookTypeOK, VersionRow
  <2>5. OnePublishedVersion'
    BY <2>1, <2>2, <2>3 DEF PlaybookInv, OnePublishedVersion, Published
  <2> QED
    BY <1>2, <2>1, <2>3, <2>4, <2>5 DEF PlaybookInv, Kept, Published
<1> QED
  BY <1>3, <1>4

\* The triggers refuse a deletion that would take a published version with it.
LEMMA DeleteCommitKeeps ==
  ASSUME PlaybookInv, NEW c \in Calls, NEW p \in PlaybookIds, DeleteCommit(c, p)
  PROVE  PlaybookInv' /\ \A w \in DOMAIN version : Published(w) => Kept(w)
<1>1. call' = [call EXCEPT ![c] = None]
  BY DEF DeleteCommit
<1>2. \A w : ~Pending("edit", w) => ~Pending("edit", w)'
  BY <1>1, NoNewEdit DEF PlaybookInv
<1>3. CASE UNCHANGED version
  BY <1>1, <1>2, <1>3 DEF Kept, Published, PlaybookInv, PlaybookTypeOK, OnePublishedVersion
<1>4. CASE version' = Without(VersionsOf(p)) /\ DeleteAllowed(c, p)
  <2>1. call' \in [Calls -> CallRow \cup {None}]
    BY <1>1 DEF PlaybookInv, PlaybookTypeOK
  <2>2. /\ PlaybookInv'
        /\ \A w \in DOMAIN version \ VersionsOf(p) :
             w \in DOMAIN version' /\ version'[w] = version[w]
    BY <1>4, <2>1, WithoutKeeps
  <2>3. \A w \in VersionsOf(p) : ~Published(w)
    BY <1>4 DEF DeleteAllowed
  <2> QED
    BY <1>2, <2>2, <2>3 DEF Kept, Published
<1> QED
  BY <1>3, <1>4 DEF DeleteCommit

LEMMA PlaybookStep ==
  ASSUME PlaybookInv, [PlaybookNext]_playbookVars
  PROVE  PlaybookInv' /\ \A w \in DOMAIN version : Published(w) => Kept(w)
<1>1. ASSUME NEW p \in PlaybookIds, NEW v \in VersionIds,
             \/ \E route \in Routes, rules \in SUBSET Rules : CreatePlaybook(p, v, route, rules)
             \/ \E source \in VersionsOf(p) \cup {None} : CreateVersion(p, v, source)
      PROVE  PlaybookInv' /\ \A w \in DOMAIN version : Published(w) => Kept(w)
  BY <1>1, CreateKeeps
<1>2. ASSUME NEW v \in VersionIds, DeleteVersion(v)
      PROVE  PlaybookInv' /\ \A w \in DOMAIN version : Published(w) => Kept(w)
  BY <1>2, DeleteVersionKeeps
<1>3. ASSUME NEW p \in PlaybookIds, ArchivePlaybook(p)
      PROVE  PlaybookInv' /\ \A w \in DOMAIN version : Published(w) => Kept(w)
  BY <1>3 DEF ArchivePlaybook, PlaybookInv, PlaybookTypeOK, OnePublishedVersion, Published,
              Kept, Pending
<1>4. ASSUME NEW c \in Calls, NEW v \in DOMAIN version, NEW r \in Rules,
             \/ EditRule(c, v, {}, {r}) \/ EditRule(c, v, {r}, {})
             \/ \E s \in Rules \ {r} : EditRule(c, v, {r}, {s})
      PROVE  PlaybookInv' /\ \A w \in DOMAIN version : Published(w) => Kept(w)
  <2>1. {} \in SUBSET Rules /\ \A s \in Rules : {s} \in SUBSET Rules
    OBVIOUS
  <2>2. CASE EditRule(c, v, {}, {r})
    BY <2>1, <2>2, EditKeeps
  <2>3. CASE EditRule(c, v, {r}, {})
    BY <2>1, <2>3, EditKeeps
  <2>4. ASSUME NEW s \in Rules, EditRule(c, v, {r}, {s})
        PROVE  PlaybookInv' /\ \A w \in DOMAIN version : Published(w) => Kept(w)
    BY <2>1, <2>4, EditKeeps
  <2> QED
    BY <1>4, <2>2, <2>3, <2>4
<1>5. ASSUME NEW c \in Calls, NEW v \in VersionIds, PublishRead(c, v)
      PROVE  PlaybookInv' /\ \A w \in DOMAIN version : Published(w) => Kept(w)
  <2>1. [kind |-> "publish", on |-> {v}, drop |-> {}, add |-> {}] \in CallRow
    BY DEF CallRow
  <2> QED
    BY <1>5, <2>1, ReadKeeps DEF PublishRead
<1>6. ASSUME NEW c \in Calls, NEW p \in PlaybookIds, DeleteRead(c, p)
      PROVE  PlaybookInv' /\ \A w \in DOMAIN version : Published(w) => Kept(w)
  <2>1. [kind |-> "delete", on |-> VersionsOf(p) \cup {p}, drop |-> {}, add |-> {}] \in CallRow
    BY DEF CallRow, VersionsOf, PlaybookInv, PlaybookTypeOK
  <2> QED
    BY <1>6, <2>1, ReadKeeps DEF DeleteRead
<1>7. CASE UNCHANGED playbookVars
  BY <1>7 DEF playbookVars, PlaybookInv, PlaybookTypeOK, OnePublishedVersion, Published,
              Kept, Pending
<1> QED
  BY <1>1, <1>2, <1>3, <1>4, <1>5, <1>6, <1>7,
     CommitRuleKeeps, PublishCommitKeeps, DeleteCommitKeeps
  DEF PlaybookNext, Editing

LEMMA PlaybookInvariant == PlaybookSpec => []PlaybookInv
<1>1. PlaybookInv /\ [PlaybookNext]_playbookVars => PlaybookInv'
  BY PlaybookStep
<1> QED
  BY <1>1, PlaybookInitial, PTL DEF PlaybookSpec

\* A playbook never has two published versions (publish() and
\* uq_playbook_versions_one_published), however many publications overlap.
THEOREM OnePublished == PlaybookSpec => []OnePublishedVersion
<1>1. PlaybookInv => OnePublishedVersion
  BY DEF PlaybookInv
<1> QED
  BY <1>1, PlaybookInvariant, PTL

\* No call removes a published version or makes it a draft again.
THEOREM PublishedStays == PlaybookSpec => PublishedSurvives
<1>1. PlaybookInv /\ [PlaybookNext]_playbookVars =>
        [\A v \in DOMAIN version : Published(v) => Published(v)']_playbookVars
  BY PlaybookStep DEF Kept
<1> QED
  BY <1>1, PlaybookInvariant, PTL DEF PlaybookSpec, PublishedSurvives

\* A published version is frozen from the moment no rule change is under way
\* on it (prevent_published_playbook_rule_mutation).
THEOREM PublishedIsFrozen == PlaybookSpec => PublishedSettles
<1>1. PlaybookInv /\ [PlaybookNext]_playbookVars =>
        [\A v \in DOMAIN version :
            Settled(v) => Settled(v)' /\ version'[v].rules = version[v].rules]_playbookVars
  BY PlaybookStep DEF Kept, Settled
<1> QED
  BY <1>1, PlaybookInvariant, PTL DEF PlaybookSpec, PublishedSettles

(* -------------------------- Approval policies -------------------------- *)
(* Routing never refuses a request for a tie as long as no two             *)
(* publications have overlapped, for any set of policies, scopes and       *)
(* callers.  The invariant says what a publication under way has checked   *)
(* and that it is alone.                                                   *)

PolicyKeys == PolicyIds \X (1..MaxPolicyVersions)

PolicyTypeOK ==
    /\ policyScope \in [PolicyIds -> RankedScope \cup {NoPolicy}]
    /\ DOMAIN policyVersion \subseteq PolicyKeys
    /\ publishing \in [Publishers -> DOMAIN policyVersion \cup {NoPolicy}]
    /\ \A v \in DOMAIN policyVersion : policyScope[v[1]] # NoPolicy

\* A publication that overlaps no other has compared its policy with all those
\* that are published.
PublishesAlone ==
    ~overlapped => \A c \in Publishers : publishing[c] # NoPolicy =>
        /\ \A d \in Publishers : publishing[d] # NoPolicy => d = c
        /\ \A q \in PublishedPolicies : ~Tie(publishing[c][1], q)

RoutingInv == PolicyTypeOK /\ PublishesAlone /\ TiesNeedOverlap

\* The comparison of two policies does not depend on their order.
LEMMA TieIsSymmetric ==
  ASSUME NEW p \in PolicyIds, NEW q \in PolicyIds, Tie(p, q) PROVE Tie(q, p)
<1>1. SameRank(policyScope[q], policyScope[p])
  BY DEF Tie, SameRank
<1>2. Overlap(policyScope[q].scope, policyScope[p].scope)
  BY DEF Tie, Overlap
<1> QED
  BY <1>1, <1>2 DEF Tie

\* A new draft publishes nothing and leaves the rows there were.
LEMMA DraftsAreNotPublished ==
  ASSUME NEW v \in PolicyKeys, v \notin DOMAIN policyVersion, NEW stages, NewDraft(v, stages)
  PROVE  /\ DOMAIN policyVersion' = DOMAIN policyVersion \cup {v}
         /\ PublishedPolicies' = PublishedPolicies
<1>1. DOMAIN policyVersion' = DOMAIN policyVersion \cup {v}
  BY DEF NewDraft
<1>2. \A w \in DOMAIN policyVersion : policyVersion'[w] = policyVersion[w]
  BY DEF NewDraft
<1>3. policyVersion'[v].status = "draft"
  BY DEF NewDraft
<1> QED
  BY <1>1, <1>2, <1>3 DEF PublishedPolicies

\* A published policy has a version, so it has a scope.
LEMMA PublishedHasScope ==
  ASSUME PolicyTypeOK, NEW p \in PublishedPolicies
  PROVE  p \in PolicyIds /\ policyScope[p] \in RankedScope
<1>1. PICK n \in 1..MaxPolicyVersions : <<p, n>> \in DOMAIN policyVersion
  BY DEF PublishedPolicies
<1>2. p \in PolicyIds
  BY DEF PublishedPolicies
<1>3. policyScope[<<p, n>>[1]] # NoPolicy
  BY <1>1 DEF PolicyTypeOK
<1>4. policyScope[p] # NoPolicy
  BY <1>3
<1> QED
  BY <1>2, <1>4 DEF PolicyTypeOK

LEMMA RoutingInit == PolicyInit => RoutingInv
<1> SUFFICES ASSUME PolicyInit PROVE RoutingInv
  OBVIOUS
<1>1. PublishedPolicies = {}
  BY DEF PolicyInit, PublishedPolicies
<1>2. PolicyTypeOK
  BY DEF PolicyInit, PolicyTypeOK
<1> QED
  BY <1>1, <1>2 DEF RoutingInv, PublishesAlone, TiesNeedOverlap, NoTies, PolicyInit

\* Creating a policy, or a version of one, changes the scope of no policy that
\* is published or being published.
LEMMA DraftingKeepsRouting ==
  ASSUME RoutingInv, NEW v \in PolicyKeys, v \notin DOMAIN policyVersion, NEW stages,
         NewDraft(v, stages), UNCHANGED <<publishing, overlapped>>,
         policyScope' \in [PolicyIds -> RankedScope \cup {NoPolicy}],
         policyScope'[v[1]] # NoPolicy,
         \A p \in PolicyIds : policyScope[p] # NoPolicy => policyScope'[p] = policyScope[p]
  PROVE  RoutingInv'
<1>1. /\ DOMAIN policyVersion' = DOMAIN policyVersion \cup {v}
      /\ PublishedPolicies' = PublishedPolicies
  BY DraftsAreNotPublished
<1>2. PolicyTypeOK'
  <2>1. \A w \in DOMAIN policyVersion : policyScope'[w[1]] # NoPolicy
    BY DEF RoutingInv, PolicyTypeOK, PolicyKeys
  <2> QED
    BY <1>1, <2>1 DEF RoutingInv, PolicyTypeOK
<1>3. \A p \in PublishedPolicies : p \in PolicyIds /\ policyScope'[p] = policyScope[p]
  BY PublishedHasScope, PolicyCatalogAssumption DEF RoutingInv
<1>4. \A c \in Publishers : publishing[c] # NoPolicy =>
        policyScope'[publishing[c][1]] = policyScope[publishing[c][1]]
  <2> SUFFICES ASSUME NEW c \in Publishers, publishing[c] # NoPolicy
               PROVE  policyScope'[publishing[c][1]] = policyScope[publishing[c][1]]
    OBVIOUS
  <2>1. publishing[c] \in DOMAIN policyVersion
    BY DEF RoutingInv, PolicyTypeOK
  <2>2. publishing[c][1] \in PolicyIds
    BY <2>1 DEF RoutingInv, PolicyTypeOK, PolicyKeys
  <2> QED
    BY <2>1, <2>2 DEF RoutingInv, PolicyTypeOK
<1>5. PublishesAlone'
  BY <1>1, <1>3, <1>4 DEF RoutingInv, PublishesAlone, Tie
<1>6. TiesNeedOverlap'
  BY <1>1, <1>3 DEF RoutingInv, TiesNeedOverlap, NoTies, Tie
<1> QED
  BY <1>2, <1>5, <1>6 DEF RoutingInv

LEMMA CreatePolicyKeepsRouting ==
  ASSUME RoutingInv, NEW p \in PolicyIds, NEW ranked \in RankedScope, NEW stages,
         CreatePolicy(p, ranked, stages), 1 \in 1..MaxPolicyVersions
  PROVE  RoutingInv'
<1>1. <<p, 1>> \in PolicyKeys
  BY DEF PolicyKeys
<1>2. <<p, 1>> \notin DOMAIN policyVersion
  BY DEF RoutingInv, PolicyTypeOK, CreatePolicy
<1>3. policyScope' \in [PolicyIds -> RankedScope \cup {NoPolicy}]
  BY DEF RoutingInv, PolicyTypeOK, CreatePolicy
<1>4. policyScope'[<<p, 1>>[1]] # NoPolicy
  BY PolicyCatalogAssumption DEF RoutingInv, PolicyTypeOK, CreatePolicy
<1>5. \A q \in PolicyIds : policyScope[q] # NoPolicy => policyScope'[q] = policyScope[q]
  BY DEF RoutingInv, PolicyTypeOK, CreatePolicy
<1>6. NewDraft(<<p, 1>>, stages) /\ UNCHANGED <<publishing, overlapped>>
  BY DEF CreatePolicy
<1> QED
  BY <1>1, <1>2, <1>3, <1>4, <1>5, <1>6, DraftingKeepsRouting

LEMMA CreateVersionKeepsRouting ==
  ASSUME RoutingInv, NEW p \in PolicyIds, NEW n \in 1..MaxPolicyVersions, NEW stages,
         CreatePolicyVersion(p, n, stages)
  PROVE  RoutingInv'
<1>1. <<p, n>> \in PolicyKeys /\ <<p, n>> \notin DOMAIN policyVersion
  BY DEF PolicyKeys, CreatePolicyVersion
<1>2. policyScope' = policyScope /\ policyScope'[<<p, n>>[1]] # NoPolicy
  BY DEF CreatePolicyVersion
<1>3. NewDraft(<<p, n>>, stages) /\ UNCHANGED <<publishing, overlapped>>
  BY DEF CreatePolicyVersion
<1> QED
  BY <1>1, <1>2, <1>3, DraftingKeepsRouting DEF RoutingInv, PolicyTypeOK

\* A publication that begins while another is under way is an overlap; one that
\* begins alone has checked all that is published.
LEMMA PublishReadKeepsRouting ==
  ASSUME RoutingInv, NEW c \in Publishers, NEW v \in PolicyKeys, PublishPolicyRead(c, v)
  PROVE  RoutingInv'
<1>1. UNCHANGED <<policyScope, policyVersion>> /\ PublishedPolicies' = PublishedPolicies
  BY DEF PublishPolicyRead, PublishedPolicies
<1>2. publishing' = [publishing EXCEPT ![c] = v] /\ v \in DOMAIN policyVersion
  BY DEF PublishPolicyRead
<1>3. PolicyTypeOK'
  BY <1>1, <1>2 DEF RoutingInv, PolicyTypeOK
<1>4. PublishesAlone'
  <2> SUFFICES ASSUME ~overlapped', NEW e \in Publishers, publishing'[e] # NoPolicy
               PROVE  /\ \A d \in Publishers : publishing'[d] # NoPolicy => d = e
                      /\ \A q \in PublishedPolicies : ~Tie(publishing'[e][1], q)
    BY <1>1 DEF PublishesAlone, Tie
  <2>1. \A d \in Publishers : publishing[d] = NoPolicy
    BY DEF PublishPolicyRead
  <2>2. e = c
    BY <1>2, <2>1 DEF RoutingInv, PolicyTypeOK
  <2>3. publishing'[e] = v
    BY <1>2, <2>2 DEF RoutingInv, PolicyTypeOK
  <2>4. \A q \in PublishedPolicies : ~Tie(v[1], q)
    BY DEF PublishPolicyRead
  <2> QED
    BY <1>2, <2>1, <2>2, <2>3, <2>4 DEF RoutingInv, PolicyTypeOK
<1>5. TiesNeedOverlap'
  BY <1>1 DEF RoutingInv, TiesNeedOverlap, NoTies, Tie, PublishPolicyRead
<1> QED
  BY <1>3, <1>4, <1>5 DEF RoutingInv

\* What a publication adds ties with nothing, because nothing was published
\* since it looked.
LEMMA PublishCommitKeepsRouting ==
  ASSUME RoutingInv, NEW c \in Publishers, PublishPolicyCommit(c)
  PROVE  RoutingInv'
<1> DEFINE v == publishing[c]
<1>1. v \in DOMAIN policyVersion /\ v \in PolicyKeys /\ v[1] \in PolicyIds
  BY DEF PublishPolicyCommit, RoutingInv, PolicyTypeOK, PolicyKeys
<1>2. /\ policyVersion' = [policyVersion EXCEPT ![v].status = "published"]
      /\ publishing' = [publishing EXCEPT ![c] = NoPolicy]
      /\ UNCHANGED <<policyScope, overlapped>>
  BY DEF PublishPolicyCommit
<1>3. DOMAIN policyVersion' = DOMAIN policyVersion
  BY <1>2
<1>4. \A q \in PublishedPolicies' : q = v[1] \/ q \in PublishedPolicies
  <2> SUFFICES ASSUME NEW q \in PublishedPolicies' PROVE q = v[1] \/ q \in PublishedPolicies
    OBVIOUS
  <2>1. PICK n \in 1..MaxPolicyVersions :
            <<q, n>> \in DOMAIN policyVersion' /\ policyVersion'[<<q, n>>].status = "published"
    BY DEF PublishedPolicies
  <2>2. CASE <<q, n>> = v
    BY <2>2
  <2>3. CASE <<q, n>> # v
    <3>1. policyVersion'[<<q, n>>] = policyVersion[<<q, n>>]
      BY <1>2, <1>3, <2>1, <2>3
    <3> QED
      BY <1>3, <2>1, <3>1 DEF PublishedPolicies
  <2> QED
    BY <2>2, <2>3
<1>5. PolicyTypeOK'
  BY <1>2, <1>3 DEF RoutingInv, PolicyTypeOK
<1>6. PublishesAlone'
  BY <1>2 DEF RoutingInv, PolicyTypeOK, PublishesAlone, PublishPolicyCommit
<1>7. TiesNeedOverlap'
  <2> SUFFICES ASSUME ~overlapped, NEW p \in PublishedPolicies', NEW q \in PublishedPolicies',
                      p # q
               PROVE  ~Tie(p, q)'
    BY <1>2 DEF TiesNeedOverlap, NoTies
  <2>1. p \in PolicyIds /\ q \in PolicyIds
    BY DEF PublishedPolicies
  <2>2. Tie(p, q)' <=> Tie(p, q)
    BY <1>2 DEF Tie
  <2>3. \A r \in PublishedPolicies : ~Tie(v[1], r)
    BY DEF RoutingInv, PublishesAlone, PublishPolicyCommit
  <2>4. \A r, s \in PublishedPolicies : r # s => ~Tie(r, s)
    BY DEF RoutingInv, TiesNeedOverlap, NoTies
  <2>5. CASE p = v[1]
    <3>1. q \in PublishedPolicies
      BY <1>4, <2>5
    <3> QED
      BY <2>2, <2>3, <2>5, <3>1
  <2>6. CASE p # v[1] /\ q = v[1]
    <3>1. p \in PublishedPolicies
      BY <1>4, <2>6
    <3>2. ~Tie(q, p)
      BY <2>3, <2>6, <3>1
    <3> QED
      BY <2>1, <2>2, <3>2, TieIsSymmetric
  <2>7. CASE p # v[1] /\ q # v[1]
    BY <1>4, <2>2, <2>4, <2>7
  <2> QED
    BY <2>5, <2>6, <2>7
<1> QED
  BY <1>5, <1>6, <1>7 DEF RoutingInv

LEMMA RoutingStep == RoutingInv /\ [PolicyNext]_policyVars => RoutingInv'
<1> SUFFICES ASSUME RoutingInv, [PolicyNext]_policyVars PROVE RoutingInv'
  OBVIOUS
<1>1. ASSUME NEW p \in PolicyIds, NEW ranked \in RankedScope, NEW stages,
             CreatePolicy(p, ranked, stages)
      PROVE  RoutingInv'
  BY <1>1, CreatePolicyKeepsRouting, PolicyCatalogAssumption
<1>2. ASSUME NEW p \in PolicyIds, NEW n \in 1..MaxPolicyVersions, NEW stages,
             CreatePolicyVersion(p, n, stages)
      PROVE  RoutingInv'
  BY <1>2, CreateVersionKeepsRouting
<1>3. ASSUME NEW c \in Publishers, NEW v \in PolicyKeys, PublishPolicyRead(c, v)
      PROVE  RoutingInv'
  BY <1>3, PublishReadKeepsRouting
<1>4. ASSUME NEW c \in Publishers, PublishPolicyCommit(c)
      PROVE  RoutingInv'
  BY <1>4, PublishCommitKeepsRouting
<1>5. CASE UNCHANGED policyVars
  BY <1>5 DEF policyVars, RoutingInv, PolicyTypeOK, PublishesAlone, TiesNeedOverlap, NoTies,
              PublishedPolicies, Tie
<1> QED
  BY <1>1, <1>2, <1>3, <1>4, <1>5 DEF PolicyNext, PolicyKeys

\* Two policies that match one request overlap, whatever they leave open.
LEMMA MatchingOverlaps ==
  ASSUME NEW r, NEW s, NEW request, Matches(r, request), Matches(s, request)
  PROVE  Overlap(r, s)
BY DEF Matches, Overlap

\* Of two that match, the better one is chosen, or they have one rank.
LEMMA BestAreOfOneRank ==
  ASSUME PolicyTypeOK, NEW p \in PublishedPolicies, NEW q \in PublishedPolicies,
         ~RanksAbove(policyScope[p], policyScope[q]),
         ~RanksAbove(policyScope[q], policyScope[p])
  PROVE  SameRank(policyScope[p], policyScope[q])
<1>1. policyScope[p] \in RankedScope /\ policyScope[q] \in RankedScope
  BY PublishedHasScope
<1>2. policyScope[p].precedence \in Nat /\ policyScope[q].precedence \in Nat
  BY <1>1, PolicyCatalogAssumption DEF RankedScope
<1>3. \A s \in Scope : Specificity(s) \in Nat
  <2> SUFFICES ASSUME NEW s \in Scope PROVE Specificity(s) \in Nat
    OBVIOUS
  <2>1. DOMAIN s = {"direction", "jurisdiction", "materiality"}
    BY DEF Scope
  <2>2. IsFiniteSet({"direction", "jurisdiction", "materiality"})
    <3>1. IsFiniteSet({"direction"})
      BY FS_Singleton
    <3>2. IsFiniteSet({"direction"} \cup {"jurisdiction"})
      BY <3>1, FS_AddElement
    <3>3. IsFiniteSet(({"direction"} \cup {"jurisdiction"}) \cup {"materiality"})
      BY <3>2, FS_AddElement
    <3>4. ({"direction"} \cup {"jurisdiction"}) \cup {"materiality"}
            = {"direction", "jurisdiction", "materiality"}
      OBVIOUS
    <3> QED
      BY <3>3, <3>4
  <2>3. IsFiniteSet({f \in DOMAIN s : s[f] # "any"})
    BY <2>1, <2>2, FS_Subset
  <2> QED
    BY <2>3, FS_CardinalityType DEF Specificity
<1>4. /\ Specificity(policyScope[p].scope) \in Nat
      /\ Specificity(policyScope[q].scope) \in Nat
  BY <1>1, <1>3 DEF RankedScope
<1> QED
  BY <1>2, <1>4 DEF RanksAbove, SameRank

\* What publication compares covers what routing compares.
LEMMA NoTieNoRefusal == RoutingInv => RoutingAnswers
<1> SUFFICES ASSUME RoutingInv, ~overlapped, NEW request \in Request, RoutingRefused(request)
             PROVE  FALSE
  BY DEF RoutingAnswers
<1>1. PICK p, q \in Best(request) : p # q
  BY DEF RoutingRefused
<1>2. /\ p \in PublishedPolicies /\ q \in PublishedPolicies
      /\ Matches(policyScope[p].scope, request) /\ Matches(policyScope[q].scope, request)
  BY <1>1 DEF Best, Matching
<1>3. ~RanksAbove(policyScope[p], policyScope[q]) /\ ~RanksAbove(policyScope[q], policyScope[p])
  BY <1>1 DEF Best
<1>4. SameRank(policyScope[p], policyScope[q])
  BY <1>2, <1>3, BestAreOfOneRank DEF RoutingInv
<1>5. Overlap(policyScope[p].scope, policyScope[q].scope)
  BY <1>2, MatchingOverlaps
<1> QED
  BY <1>1, <1>2, <1>4, <1>5 DEF RoutingInv, TiesNeedOverlap, NoTies, Tie

\* A request is never refused because two published policies are equally good
\* for it (route() of ApprovalPolicyService), unless two publications have
\* overlapped: for any policies, scopes, precedences and callers.
THEOREM RoutingIsSafe == PolicySpec => []RoutingAnswers
<1>1. PolicyInit => RoutingInv
  BY RoutingInit
<1>2. RoutingInv /\ [PolicyNext]_policyVars => RoutingInv'
  BY RoutingStep
<1>3. RoutingInv => RoutingAnswers
  BY NoTieNoRefusal
<1> QED
  BY <1>1, <1>2, <1>3, PTL DEF PolicySpec

(* ------------------------ Decisions on findings ------------------------ *)
(* The lock of the agreement's row makes the calls of record() serial: the *)
(* one under way has seen all there is, and its time is the latest.        *)

\* Whoever records a decision is alone, has read the whole history of the
\* finding and writes a row later than all the rows there are.
DecisionsAreSerial ==
    /\ \A c \in Reviewers : recording[c] # Nil =>
        /\ recording[c].seen = History(recording[c].row.on)
        /\ \A d \in decided : d.at < recording[c].row.at
        /\ \A b \in Reviewers : recording[b] # Nil => b = c
    /\ \A d, e \in decided : d.at = e.at => d = e

TimesArePast ==
    /\ clock \in Nat
    /\ \A d \in decided : d.at \in Nat /\ d.at <= clock
    /\ \A c \in Reviewers : recording[c] # Nil =>
        recording[c].row.at \in Nat /\ recording[c].row.at <= clock

DecisionInv == DOMAIN recording = Reviewers /\ TimesArePast /\ DecisionsAreSerial

\* What decides nothing and records nothing
LEMMA UndecidedKeeps ==
  ASSUME DecisionInv, UNCHANGED <<decided, recording, clock>>
  PROVE  DecisionInv'
<1>1. \A f : History(f)' = History(f)
  BY DEF History
<1>2. TimesArePast'
  BY DEF DecisionInv, TimesArePast
<1>3. DecisionsAreSerial'
  BY <1>1 DEF DecisionInv, DecisionsAreSerial
<1> QED
  BY <1>2, <1>3 DEF DecisionInv

LEMMA DecisionReadKeeps ==
  ASSUME DecisionInv, NEW c \in Reviewers, NEW f, NEW choice, DecisionRead(c, f, choice)
  PROVE  DecisionInv'
<1>1. PICK seen, row : /\ row = [on |-> f, at |-> clock + 1, choice |-> choice]
                       /\ seen = History(f)
  OBVIOUS
<1>2. /\ recording' = [recording EXCEPT ![c] = [seen |-> seen, row |-> row]]
      /\ clock' = clock + 1 /\ UNCHANGED decided
      /\ \A b \in Reviewers : recording[b] = Nil
  BY <1>1 DEF DecisionRead, Lockable
<1>3. /\ DOMAIN recording' = Reviewers
      /\ \A b \in Reviewers : recording'[b] # Nil => b = c
      /\ recording'[c].seen = seen /\ recording'[c].row = row
      /\ row.on = f /\ row.at = clock + 1
  BY <1>1, <1>2 DEF DecisionInv
<1>4. seen = History(f)'
  BY <1>1, <1>2 DEF History
<1>5. TimesArePast'
  BY <1>2, <1>3 DEF DecisionInv, TimesArePast
<1>6. DecisionsAreSerial'
  <2>1. \A d \in decided' : d.at < row.at
    BY <1>2, <1>3 DEF DecisionInv, TimesArePast
  <2>2. \A d, e \in decided' : d.at = e.at => d = e
    BY <1>2 DEF DecisionInv, DecisionsAreSerial
  <2> QED
    BY <1>1, <1>2, <1>3, <1>4, <2>1, <2>2, ZenonT(40) DEF DecisionsAreSerial, History
<1> QED
  BY <1>3, <1>5, <1>6 DEF DecisionInv

LEMMA DecisionEndKeeps ==
  ASSUME DecisionInv, NEW c \in Reviewers, DecisionCommit(c) \/ DecisionFails(c)
  PROVE  DecisionInv'
<1>1. /\ recording' = [recording EXCEPT ![c] = Nil] /\ UNCHANGED clock
      /\ recording[c] # Nil
      /\ UNCHANGED decided \/ decided' = decided \cup {recording[c].row}
  BY DEF DecisionCommit, DecisionFails
<1>2. \A b \in Reviewers : recording'[b] = Nil
  BY <1>1 DEF DecisionInv, DecisionsAreSerial
<1>3. TimesArePast'
  BY <1>1, <1>2 DEF DecisionInv, TimesArePast
<1>4. \A d, e \in decided' : d.at = e.at => d = e
  BY <1>1 DEF DecisionInv, DecisionsAreSerial, TimesArePast
<1> QED
  BY <1>1, <1>2, <1>3, <1>4 DEF DecisionInv, DecisionsAreSerial

LEMMA DecisionStep == ASSUME DecisionInv, [ReviewNext]_reviewVars PROVE DecisionInv'
<1>1. CASE UNCHANGED reviewVars
  BY <1>1, UndecidedKeeps DEF reviewVars
<1>2. ASSUME NEW v \in Offers, \/ Offer(v, "draft", "published") \/ Offer(v, "published", "archived")
                               \/ RecordOverride(v) \/ SubmitEvaluation(v)
      PROVE  DecisionInv'
  BY <1>2, UndecidedKeeps DEF Offer, RecordOverride, SubmitEvaluation
<1>3. ASSUME \/ \E artifact \in Analyses \cup {Nil} : CompleteJob(artifact)
             \/ \E n \in 1..MaxJobs : WorkerEvaluates(n)
             \/ AcceptReviewDeletion
      PROVE  DecisionInv'
  BY <1>3, UndecidedKeeps DEF CompleteJob, WorkerEvaluates, AcceptReviewDeletion
<1>4. ASSUME NEW c \in Reviewers,
             \/ \E f \in FindingIds, choice \in DecisionChoices : DecisionRead(c, f, choice)
             \/ DecisionCommit(c) \/ DecisionFails(c)
      PROVE  DecisionInv'
  BY <1>4, DecisionReadKeeps, DecisionEndKeeps
<1> QED
  BY <1>1, <1>2, <1>3, <1>4 DEF ReviewNext

\* Calls of record() take effect one after the other, for any reviewers,
\* findings and number of decisions: the view from which an answer is worked
\* out is the history the row is added to, and no two rows have one time
\* (_finding locks the agreement before it reads, reviews/decisions.py).
THEOREM ReviewersTakeTurns == ReviewSpec => []DecisionsAreSerial
<1>1. ReviewInit => DecisionInv
  BY DEF ReviewInit, DecisionInv, TimesArePast, DecisionsAreSerial
<1>2. DecisionInv /\ [ReviewNext]_reviewVars => DecisionInv'
  BY DecisionStep
<1>3. DecisionInv => DecisionsAreSerial
  BY DEF DecisionInv
<1> QED
  BY <1>1, <1>2, <1>3, PTL DEF ReviewSpec

(* ----------------------- What a reviewer is told ----------------------- *)
(* A history in order, and the fold of its decisions one by one.           *)

\* Decisions of which no two have one time
Timed(D) ==
    /\ IsFiniteSet(D)
    /\ \A d \in D : d.at \in Nat
    /\ \A d, e \in D : d.at = e.at => d = e

\* A sequence of all of D, oldest first
Enumerates(s, D) ==
    /\ s \in [1..Cardinality(D) -> D]
    /\ \A i, j \in 1..Cardinality(D) : i < j => s[i].at < s[j].at
    /\ \A d \in D : \E i \in 1..Cardinality(D) : s[i] = d

LEMMA LastExists ==
  ASSUME NEW D, Timed(D), D # {}
  PROVE  \E m \in D : \A d \in D \ {m} : d.at < m.at
<1> DEFINE G == {T \in SUBSET D : T # {} => \E m \in T : \A d \in T \ {m} : d.at < m.at}
<1>1. ASSUME NEW T \in SUBSET D, \A U \in SUBSET T : U # T => U \in G
      PROVE  T \in G
  <2>1. CASE T = {}
    BY <2>1
  <2>2. CASE T # {}
    <3>1. PICK x \in T : TRUE
      BY <2>2
    <3>2. CASE T \ {x} = {}
      BY <3>1, <3>2
    <3>3. CASE T \ {x} # {}
      <4>1. PICK m \in T \ {x} : \A d \in (T \ {x}) \ {m} : d.at < m.at
        <5>1. T \ {x} \in SUBSET T /\ T \ {x} # T
          BY <3>1
        <5>2. T \ {x} \in G
          BY <1>1, <5>1
        <5> QED
          BY <3>3, <5>2
      <4>2. x.at \in Nat /\ m.at \in Nat /\ x.at # m.at /\ \A d \in T : d.at \in Nat
        BY <3>1, <4>1 DEF Timed
      <4>3. CASE x.at < m.at
        BY <4>1, <4>3
      <4>4. CASE m.at < x.at
        BY <3>1, <4>1, <4>2, <4>4
      <4> QED
        BY <4>2, <4>3, <4>4
    <3> QED
      BY <3>2, <3>3
  <2> QED
    BY <2>1, <2>2
<1> HIDE DEF G
<1>2. SUBSET D \subseteq G
  BY <1>1, SubsetInduction DEF Timed
<1> QED
  BY <1>2 DEF G

\* With a later decision at its end, the order of a history stays one.
LEMMA OrderGrows ==
  ASSUME NEW D, Timed(D), NEW s, Enumerates(s, D),
         NEW m, m.at \in Nat, \A d \in D : d.at < m.at,
         NEW t, DOMAIN t = 1..(Cardinality(D) + 1), t[Cardinality(D) + 1] = m,
         \A i \in 1..Cardinality(D) : t[i] = s[i], t = [i \in DOMAIN t |-> t[i]]
  PROVE  Timed(D \cup {m}) /\ Enumerates(t, D \cup {m})
<1>1. m \notin D
  BY DEF Timed
<1>2. PICK n, E : n \in Nat /\ n = Cardinality(D) /\ E = D \cup {m}
  BY FS_CardinalityType DEF Timed
<1>3. IsFiniteSet(E) /\ Cardinality(E) = n + 1
  BY <1>1, <1>2, FS_AddElement DEF Timed
<1>4. Timed(E)
  BY <1>2, <1>3 DEF Timed
<1>5. \A i \in 1..(n + 1) : i \in 1..n \/ i = n + 1
  BY <1>2
<1>6. \A i \in 1..n : t[i] = s[i] /\ s[i] \in D
  BY <1>2 DEF Enumerates
<1>7. \A i \in 1..(n + 1) : t[i] \in E
  BY <1>2, <1>5, <1>6
<1>8. ASSUME NEW i \in 1..(n + 1), NEW j \in 1..(n + 1), i < j PROVE t[i].at < t[j].at
  <2>1. i \in 1..n
    BY <1>2, <1>8
  <2>2. CASE j \in 1..n
    BY <1>2, <1>6, <1>8, <2>1, <2>2 DEF Enumerates
  <2>3. CASE j = n + 1
    BY <1>2, <1>6, <2>1, <2>3
  <2> QED
    BY <1>5, <2>2, <2>3
<1>9. ASSUME NEW d \in E PROVE \E i \in 1..(n + 1) : t[i] = d
  <2>1. CASE d = m
    BY <1>2, <2>1
  <2>2. CASE d \in D
    <3>1. PICK i \in 1..n : s[i] = d
      BY <1>2, <2>2 DEF Enumerates
    <3> QED
      BY <1>2, <1>6, <3>1
  <2> QED
    BY <1>2, <2>1, <2>2
<1>10. t \in [1..(n + 1) -> E]
  BY <1>2, <1>7
<1> QED
  BY <1>2, <1>3, <1>4, <1>8, <1>9, <1>10 DEF Enumerates

LEMMA OrderExists ==
  ASSUME NEW D, Timed(D) PROVE \E s : Enumerates(s, D)
<1> DEFINE G == {T \in SUBSET D : \E s : Enumerates(s, T)}
<1>1. ASSUME NEW T \in SUBSET D, \A U \in SUBSET T : U # T => U \in G
      PROVE  T \in G
  <2>1. CASE T = {}
    <3>1. Cardinality(T) = 0
      BY <2>1, FS_EmptySet
    <3>2. PICK s : s = [i \in 1..Cardinality(T) |-> {}]
      OBVIOUS
    <3>3. Enumerates(s, T)
      BY <2>1, <3>1, <3>2 DEF Enumerates
    <3> QED
      BY <3>3
  <2>2. CASE T # {}
    <3>1. Timed(T)
      BY FS_Subset DEF Timed
    <3>2. PICK m \in T : \A d \in T \ {m} : d.at < m.at
      BY <2>2, <3>1, LastExists
    <3>3. PICK U : U = T \ {m}
      OBVIOUS
    <3>4. PICK s : Enumerates(s, U)
      BY <1>1, <3>2, <3>3
    <3>5. Timed(U) /\ m.at \in Nat /\ T = U \cup {m}
      BY <3>1, <3>2, <3>3, FS_Subset DEF Timed
    <3>6. PICK t : t = [i \in 1..(Cardinality(U) + 1) |->
                            IF i = Cardinality(U) + 1 THEN m ELSE s[i]]
      OBVIOUS
    <3>7. Cardinality(U) \in Nat
      BY <3>5, FS_CardinalityType DEF Timed
    <3>8. /\ DOMAIN t = 1..(Cardinality(U) + 1) /\ t[Cardinality(U) + 1] = m
          /\ \A i \in 1..Cardinality(U) : t[i] = s[i]
          /\ t = [i \in DOMAIN t |-> t[i]]
      BY <3>6, <3>7
    <3>9. \A d \in U : d.at < m.at
      BY <3>2, <3>3
    <3>10. Enumerates(t, U \cup {m})
      BY <3>4, <3>5, <3>8, <3>9, OrderGrows
    <3> QED
      BY <3>5, <3>10
  <2> QED
    BY <2>1, <2>2
<1> HIDE DEF G
<1>2. SUBSET D \subseteq G
  BY <1>1, SubsetInduction DEF Timed
<1> QED
  BY <1>2 DEF G

\* The history of a finding is all its decisions, oldest first.
LEMMA InOrderEnumerates ==
  ASSUME NEW D, Timed(D) PROVE Enumerates(InOrder(D), D)
<1>1. PICK n \in Nat : n = Cardinality(D)
  BY FS_CardinalityType DEF Timed
<1> DEFINE Sorted(s) == \A i, j \in DOMAIN s : i < j => s[i] # s[j] /\ s[i].at <= s[j].at
<1>2. \E s \in [1..Cardinality(D) -> D] : Sorted(s)
  <2>1. PICK s : Enumerates(s, D)
    BY OrderExists
  <2>2. \A i \in 1..n : s[i] \in D /\ s[i].at \in Nat
    BY <1>1, <2>1 DEF Enumerates, Timed
  <2>3. Sorted(s)
    BY <1>1, <2>1, <2>2 DEF Enumerates
  <2> QED
    BY <2>1, <2>3 DEF Enumerates
<1>3. PICK s : s = InOrder(D)
  OBVIOUS
<1>4. s \in [1..n -> D] /\ Sorted(s)
  BY <1>1, <1>2, <1>3 DEF InOrder
<1>5. \A i \in 1..n : s[i] \in D /\ s[i].at \in Nat
  BY <1>4 DEF Timed
<1>6. \A i, j \in 1..n : i < j => s[i].at < s[j].at
  BY <1>4, <1>5 DEF Timed
<1>7. s \in Injection(1..n, D)
  BY <1>4 DEF Injection, IsInjective
<1>8. s \in Surjection(1..n, D)
  <2>1. IsFiniteSet(D) /\ Cardinality(D) = n
    BY <1>1 DEF Timed
  <2>2. Cardinality(1..n) = n
    BY <1>1, FS_Interval
  <2> QED
    BY <1>1, <1>7, <2>1, <2>2, FS_Injection
<1> QED
  BY <1>1, <1>3, <1>4, <1>6, <1>8 DEF Enumerates, Surjection

\* The edits of D that no acceptance or rejection follows, and the field that
\* they leave in force
EditsOf(D) ==
    {d \in D : d.choice.action = "edited" /\
        \A e \in D : e.at > d.at => e.choice.action = "edited"}
FieldOf(D, name, original) ==
    LET edits == {d \in EditsOf(D) : d.choice[name] # Nil}
    IN  IF edits = {} THEN original
        ELSE (CHOOSE d \in edits : \A e \in edits : e.at <= d.at).choice[name]
ForceOf(D, result, severity) ==
    [result |-> FieldOf(D, "result", result), severity |-> FieldOf(D, "severity", severity)]

\* One step of the fold of _current_decision
Applied(result, severity, current, event) ==
    IF event.choice.action # "edited" THEN [result |-> result, severity |-> severity]
    ELSE [result |-> IF event.choice.result # Nil THEN event.choice.result ELSE current.result,
          severity |-> IF event.choice.severity # Nil
                       THEN event.choice.severity ELSE current.severity]

\* A later decision changes a field as the fold does.
LEMMA FieldGrows ==
  ASSUME NEW D, Timed(D), NEW m, m.at \in Nat, \A d \in D : d.at < m.at,
         NEW name, NEW original
  PROVE  FieldOf(D \cup {m}, name, original) =
           IF m.choice.action # "edited" THEN original
           ELSE IF m.choice[name] # Nil THEN m.choice[name] ELSE FieldOf(D, name, original)
<1>1. PICK E : E = D \cup {m}
  OBVIOUS
<1>2. \A d \in E : d.at \in Nat
  BY <1>1 DEF Timed
<1>3. CASE m.choice.action # "edited"
  <2>1. EditsOf(E) = {}
    BY <1>1, <1>2, <1>3 DEF EditsOf
  <2> QED
    BY <1>1, <1>3, <2>1 DEF FieldOf
<1>4. CASE m.choice.action = "edited"
  <2>1. EditsOf(E) = EditsOf(D) \cup {m}
    BY <1>1, <1>2, <1>4 DEF EditsOf
  <2>2. CASE m.choice[name] = Nil
    <3>1. {d \in EditsOf(E) : d.choice[name] # Nil} = {d \in EditsOf(D) : d.choice[name] # Nil}
      BY <2>1, <2>2
    <3>2. FieldOf(E, name, original) = FieldOf(D, name, original)
      <4>1. PICK edits : edits = {d \in EditsOf(D) : d.choice[name] # Nil}
        OBVIOUS
      <4>2. edits = {d \in EditsOf(E) : d.choice[name] # Nil}
        BY <3>1, <4>1
      <4>3. FieldOf(D, name, original) =
                IF edits = {} THEN original
                ELSE (CHOOSE d \in edits : \A e \in edits : e.at <= d.at).choice[name]
        BY <4>1 DEF FieldOf
      <4>4. FieldOf(E, name, original) =
                IF edits = {} THEN original
                ELSE (CHOOSE d \in edits : \A e \in edits : e.at <= d.at).choice[name]
        BY <4>2 DEF FieldOf
      <4> QED
        BY <4>3, <4>4
    <3> QED
      BY <1>1, <1>4, <2>2, <3>2
  <2>3. CASE m.choice[name] # Nil
    <3>1. PICK edits : edits = {d \in EditsOf(E) : d.choice[name] # Nil}
      OBVIOUS
    <3>2. m \in edits /\ \A e \in edits : e.at <= m.at /\ (e # m => e.at < m.at)
      <4>1. \A e \in edits : e \in D \cup {m}
        BY <2>1, <3>1 DEF EditsOf
      <4> QED
        BY <2>1, <2>3, <3>1, <4>1, <1>2, <1>1
    <3>3. \A d \in edits : d.at \in Nat
      BY <1>1, <1>2, <2>1, <3>1 DEF EditsOf
    <3>4. \A d \in edits : (\A e \in edits : e.at <= d.at) => d = m
      BY <3>2, <3>3
    <3>5. (CHOOSE d \in edits : \A e \in edits : e.at <= d.at) = m
      BY <3>2, <3>4
    <3>6. FieldOf(E, name, original) = m.choice[name]
      BY <3>1, <3>2, <3>5 DEF FieldOf
    <3> QED
      BY <1>1, <1>4, <2>3, <3>6
  <2> QED
    BY <2>2, <2>3
<1> QED
  BY <1>3, <1>4

LEMMA ForceGrows ==
  ASSUME NEW D, Timed(D), NEW m, m.at \in Nat, \A d \in D : d.at < m.at,
         NEW result, NEW severity
  PROVE  ForceOf(D \cup {m}, result, severity) =
            Applied(result, severity, ForceOf(D, result, severity), m)
<1>1. FieldOf(D \cup {m}, "result", result) =
           IF m.choice.action # "edited" THEN result
           ELSE IF m.choice["result"] # Nil THEN m.choice["result"]
                ELSE FieldOf(D, "result", result)
  BY FieldGrows
<1>2. FieldOf(D \cup {m}, "severity", severity) =
           IF m.choice.action # "edited" THEN severity
           ELSE IF m.choice["severity"] # Nil THEN m.choice["severity"]
                ELSE FieldOf(D, "severity", severity)
  BY FieldGrows
<1> QED
  BY <1>1, <1>2 DEF ForceOf, Applied

\* The recursion of the fold over a sequence of decisions
IsFold(s, result, severity, g) ==
    g = [u \in SUBSET DOMAIN s |->
            IF u = {} THEN [result |-> result, severity |-> severity]
            ELSE LET x == Max(u) IN Applied(result, severity, g[u \ {x}], s[x])]

\* The view that _current_decision folds out of a history is what is in force.
LEMMA FoldIsForce ==
  ASSUME NEW D, Timed(D), NEW s, Enumerates(s, D), NEW f
  PROVE  Current(f, s) = ForceOf(D, evaluation[f], Severity)
<1>1. PICK n, result, severity :
        n \in Nat /\ n = Cardinality(D) /\ result = evaluation[f] /\ severity = Severity
  BY FS_CardinalityType DEF Timed
<1>2. PICK S : S = 1..n
  OBVIOUS
<1>3. DOMAIN s = S /\ IsFiniteSet(S)
  BY <1>1, <1>2, FS_Interval DEF Enumerates
<1> DEFINE Of(u) == {s[i] : i \in u}
           g == [u \in SUBSET S |-> ForceOf(Of(u), result, severity)]
<1>4. ASSUME NEW u \in SUBSET S, u # {}
      PROVE  /\ Max(u) \in u
             /\ g[u] = Applied(result, severity, g[u \ {Max(u)}], s[Max(u)])
  <2>1. PICK x : x = Max(u)
    OBVIOUS
  <2>2. x \in u /\ \A y \in u : y <= x
    BY <1>1, <1>2, <1>4, <2>1, GreatestExists
  <2>3. PICK A : A = Of(u \ {x})
    OBVIOUS
  <2>4. Of(u) = A \cup {s[x]}
    BY <2>2, <2>3
  <2>5. \A i \in S : s[i] \in D
    BY <1>1, <1>2 DEF Enumerates
  <2>6. Timed(A) /\ s[x].at \in Nat
    <3>1. A \subseteq D
      BY <2>3, <2>5
    <3> QED
      BY <2>2, <2>5, <3>1, FS_Subset DEF Timed
  <2>7. \A d \in A : d.at < s[x].at
    <3>1. \A i \in u \ {x} : s[i].at < s[x].at
      BY <1>1, <1>2, <2>2 DEF Enumerates
    <3> QED
      BY <2>3, <3>1
  <2>8. ForceOf(A \cup {s[x]}, result, severity) =
            Applied(result, severity, ForceOf(A, result, severity), s[x])
    BY <2>6, <2>7, ForceGrows
  <2>9. g[u] = ForceOf(A \cup {s[x]}, result, severity)
    BY <2>4
  <2>10. g[u \ {x}] = ForceOf(A, result, severity)
    BY <2>3
  <2> QED
    BY <2>1, <2>2, <2>8, <2>9, <2>10
<1>5. g[{}] = [result |-> result, severity |-> severity]
  <2>1. Of({}) = {}
    OBVIOUS
  <2>2. EditsOf({}) = {}
    BY DEF EditsOf
  <2>3. ForceOf({}, result, severity) = [result |-> result, severity |-> severity]
    BY <2>2 DEF ForceOf, FieldOf
  <2> QED
    BY <2>1, <2>3
<1>6. g = [u \in SUBSET S |-> g[u]] /\ g[S] = ForceOf(Of(S), result, severity)
  OBVIOUS
<1>7. Of(S) = D
  BY <1>1, <1>2 DEF Enumerates
<1> HIDE DEF g, Of
<1>8. IsFold(s, result, severity, g)
  BY <1>3, <1>4, <1>5, <1>6 DEF IsFold
<1> DEFINE h == CHOOSE g0 : IsFold(s, result, severity, g0)
<1>9. IsFold(s, result, severity, h)
  BY <1>8
<1>10. Current(f, s) = h[DOMAIN s]
  BY <1>1 DEF Current, FoldLeft, MapThenFoldSet, IsFold, Applied
<1> HIDE DEF h
<1> DEFINE G == {u \in SUBSET S : h[u] = g[u]}
<1>11. ASSUME NEW u \in SUBSET S, \A v \in SUBSET u : v # u => v \in G
       PROVE  u \in G
  <2>1. CASE u = {}
    BY <1>3, <1>5, <1>9, <2>1 DEF IsFold
  <2>2. CASE u # {}
    <3>1. PICK x : x = Max(u)
      OBVIOUS
    <3>2. x \in u /\ g[u] = Applied(result, severity, g[u \ {x}], s[x])
      BY <1>4, <2>2, <3>1
    <3>3. h[u] = Applied(result, severity, h[u \ {x}], s[x])
      BY <1>3, <1>9, <2>2, <3>1 DEF IsFold
    <3>4. h[u \ {x}] = g[u \ {x}]
      BY <1>11, <3>2
    <3> QED
      BY <3>2, <3>3, <3>4
  <2> QED
    BY <2>1, <2>2
<1> HIDE DEF G
<1>12. SUBSET S \subseteq G
  BY <1>3, <1>11, SubsetInduction
<1>13. h[S] = g[S]
  BY <1>12 DEF G
<1> QED
  BY <1>1, <1>3, <1>6, <1>7, <1>10, <1>13

\* The decisions about a finding
About(f) == {d \in decided : d.on = f}

\* What was answered last about a finding is what its decisions leave in
\* force, for ToldIsInForce; an evaluation does not change once it is there.
ToldInv ==
    /\ DecisionInv
    /\ IsFiniteSet(decided)
    /\ DOMAIN evaluation = FindingIds /\ DOMAIN answer = FindingIds
    /\ \A c \in Reviewers : recording[c] # Nil =>
        recording[c].row.on \in FindingIds /\ evaluation[recording[c].row.on] # Nil
    /\ \A f \in FindingIds : answer[f] # Nil =>
        evaluation[f] # Nil /\ answer[f] = ForceOf(About(f), evaluation[f], Severity)

LEMMA HistoryIsTimed ==
  ASSUME ToldInv, NEW f
  PROVE  Timed(About(f)) /\ Enumerates(History(f), About(f))
<1>1. PICK D : D = About(f)
  OBVIOUS
<1>2. Timed(D)
  BY <1>1, FS_Subset DEF ToldInv, DecisionInv, TimesArePast, DecisionsAreSerial, About, Timed
<1>3. Enumerates(InOrder(D), D)
  BY <1>2, InOrderEnumerates
<1>4. History(f) = InOrder(D)
  BY <1>1 DEF History, About
<1> QED
  BY <1>1, <1>2, <1>3, <1>4

LEMMA InForceIsForce ==
  ASSUME NEW f PROVE InForce(f) = ForceOf(About(f), evaluation[f], Severity)
<1>1. EditsInForce(f) = EditsOf(About(f))
  BY DEF EditsInForce, EditsOf, About
<1>2. PICK edits : edits = EditsInForce(f)
  OBVIOUS
<1> QED
  BY <1>1, <1>2 DEF InForce, ForceOf, FieldOf

LEMMA UntoldKeeps ==
  ASSUME ToldInv, UNCHANGED <<decided, recording, clock, answer>>,
         DOMAIN evaluation' = FindingIds,
         \A f \in FindingIds : evaluation[f] # Nil => evaluation'[f] = evaluation[f]
  PROVE  ToldInv'
<1>1. DecisionInv'
  BY UndecidedKeeps DEF ToldInv
<1>2. \A f \in FindingIds : About(f)' = About(f)
  BY DEF About
<1>3. ASSUME NEW f \in FindingIds, answer'[f] # Nil
      PROVE  evaluation'[f] # Nil /\ answer'[f] = ForceOf(About(f)', evaluation'[f], Severity)
  BY <1>2, <1>3 DEF ToldInv
<1> QED
  BY <1>1, <1>3 DEF ToldInv

LEMMA ToldCommitKeeps ==
  ASSUME ToldInv, NEW c \in Reviewers, DecisionCommit(c)
  PROVE  ToldInv'
<1>1. PICK row, seen, f : row = recording[c].row /\ seen = recording[c].seen /\ f = row.on
  OBVIOUS
<1>2. /\ recording[c] # Nil /\ decided' = decided \cup {row} /\ UNCHANGED evaluation
      /\ answer' = [answer EXCEPT ![f] = Current(f, Append(seen, row))]
      /\ recording' = [recording EXCEPT ![c] = Nil]
  BY <1>1 DEF DecisionCommit
<1>3. DecisionInv'
  BY DecisionEndKeeps DEF ToldInv
<1>4. IsFiniteSet(decided')
  BY <1>2, FS_AddElement DEF ToldInv
<1>5. \A b \in Reviewers : recording'[b] = Nil
  BY <1>2 DEF ToldInv, DecisionInv, DecisionsAreSerial
<1>6. f \in FindingIds /\ evaluation[f] # Nil
  BY <1>1, <1>2 DEF ToldInv
<1>7. PICK D : D = About(f)
  OBVIOUS
<1>8. Timed(D) /\ Enumerates(seen, D)
  <2>1. seen = History(f)
    BY <1>1, <1>2 DEF ToldInv, DecisionInv, DecisionsAreSerial
  <2> QED
    BY <1>7, <2>1, HistoryIsTimed
<1>9. row.at \in Nat /\ \A d \in D : d.at < row.at
  BY <1>1, <1>2, <1>7 DEF ToldInv, DecisionInv, DecisionsAreSerial, TimesArePast, About
<1>10. PICK n \in Nat : n = Cardinality(D)
  BY <1>8, FS_CardinalityType DEF Timed
<1>11. PICK t : t = Append(seen, row)
  OBVIOUS
<1>12. Timed(D \cup {row}) /\ Enumerates(t, D \cup {row})
  <2>1. seen \in [1..n -> D]
    BY <1>8, <1>10 DEF Enumerates
  <2>2. seen \in Seq(D \cup {row}) /\ Len(seen) = n /\ row \in D \cup {row}
    BY <2>1
  <2>3. t \in Seq(D \cup {row}) /\ Len(t) = n + 1
    BY <1>11, <2>2
  <2>4. DOMAIN t = 1..(n + 1) /\ t = [i \in DOMAIN t |-> t[i]]
    BY <2>3
  <2>5. t[n + 1] = row
    BY <1>11, <2>2
  <2>6. \A i \in 1..n : t[i] = seen[i]
    BY <1>11, <2>2
  <2>7. /\ DOMAIN t = 1..(Cardinality(D) + 1) /\ t[Cardinality(D) + 1] = row
        /\ \A i \in 1..Cardinality(D) : t[i] = seen[i]
        /\ t = [i \in DOMAIN t |-> t[i]]
    BY <1>10, <2>4, <2>5, <2>6
  <2> QED
    BY <1>8, <1>9, <2>7, OrderGrows
<1>13. Current(f, t) = ForceOf(D \cup {row}, evaluation[f], Severity)
  BY <1>12, FoldIsForce
<1>14. ASSUME NEW g \in FindingIds, answer'[g] # Nil
       PROVE  evaluation'[g] # Nil /\ answer'[g] = ForceOf(About(g)', evaluation'[g], Severity)
  <2>1. CASE g = f
    <3>1. About(g)' = D \cup {row}
      BY <1>1, <1>2, <1>7, <2>1 DEF About
    <3>2. answer'[g] = Current(f, t)
      BY <1>2, <1>6, <1>11, <2>1 DEF ToldInv
    <3> QED
      BY <1>2, <1>6, <1>13, <2>1, <3>1, <3>2
  <2>2. CASE g # f
    <3>1. About(g)' = About(g)
      BY <1>1, <1>2, <2>2 DEF About
    <3>2. answer'[g] = answer[g]
      BY <1>2, <2>2 DEF ToldInv
    <3> QED
      BY <1>2, <1>14, <3>1, <3>2 DEF ToldInv
  <2> QED
    BY <2>1, <2>2
<1>15. DOMAIN evaluation' = FindingIds /\ DOMAIN answer' = FindingIds
  BY <1>2 DEF ToldInv
<1> QED
  BY <1>3, <1>4, <1>5, <1>14, <1>15 DEF ToldInv

LEMMA ToldStep == ASSUME ToldInv, [ReviewNext]_reviewVars PROVE ToldInv'
<1>1. ASSUME UNCHANGED <<decided, recording, clock, answer, evaluation>>
      PROVE  ToldInv'
  BY <1>1, UntoldKeeps DEF ToldInv
<1>2. ASSUME NEW f, evaluation[f] = Nil, NEW result,
             evaluation' = [evaluation EXCEPT ![f] = result],
             UNCHANGED <<decided, recording, clock, answer>>
      PROVE  ToldInv'
  <2>1. \A g \in FindingIds : evaluation[g] # Nil => evaluation'[g] = evaluation[g]
    BY <1>2 DEF ToldInv
  <2>2. DOMAIN evaluation' = FindingIds
    BY <1>2 DEF ToldInv
  <2> QED
    BY <1>2, <2>1, <2>2, UntoldKeeps
<1>3. ASSUME NEW c \in Reviewers, NEW f \in FindingIds, NEW choice, DecisionRead(c, f, choice)
      PROVE  ToldInv'
  <2>1. DecisionInv'
    BY <1>3, DecisionReadKeeps DEF ToldInv
  <2>2. PICK row : row.on = f /\ row = [on |-> f, at |-> clock', choice |-> choice]
    OBVIOUS
  <2>3. PICK reading : reading.row = row /\ reading = [seen |-> History(f), row |-> row]
    OBVIOUS
  <2>4. /\ recording' = [recording EXCEPT ![c] = reading] /\ evaluation[f] # Nil
        /\ UNCHANGED <<decided, answer, evaluation>>
    BY <1>3, <2>2, <2>3 DEF DecisionRead
  <2>5. \A b \in Reviewers : recording'[b] # Nil =>
            recording'[b].row.on \in FindingIds /\ evaluation'[recording'[b].row.on] # Nil
    BY <1>3, <2>2, <2>3, <2>4 DEF ToldInv, DecisionInv
  <2>6. \A g \in FindingIds : About(g)' = About(g)
    BY <2>4 DEF About
  <2>7. ASSUME NEW g \in FindingIds, answer'[g] # Nil
        PROVE  evaluation'[g] # Nil /\ answer'[g] = ForceOf(About(g)', evaluation'[g], Severity)
    BY <2>4, <2>6, <2>7 DEF ToldInv
  <2> QED
    BY <2>1, <2>4, <2>5, <2>7 DEF ToldInv
<1>4. ASSUME NEW c \in Reviewers, DecisionFails(c)
      PROVE  ToldInv'
  <2>1. DecisionInv'
    BY <1>4, DecisionEndKeeps DEF ToldInv
  <2>2. /\ recording' = [recording EXCEPT ![c] = Nil]
        /\ UNCHANGED <<decided, answer, evaluation>>
    BY <1>4 DEF DecisionFails
  <2>3. \A b \in Reviewers : recording'[b] # Nil =>
            recording'[b].row.on \in FindingIds /\ evaluation'[recording'[b].row.on] # Nil
    BY <2>2 DEF ToldInv, DecisionInv
  <2>4. \A g \in FindingIds : About(g)' = About(g)
    BY <2>2 DEF About
  <2>5. ASSUME NEW g \in FindingIds, answer'[g] # Nil
        PROVE  evaluation'[g] # Nil /\ answer'[g] = ForceOf(About(g)', evaluation'[g], Severity)
    BY <2>2, <2>4, <2>5 DEF ToldInv
  <2> QED
    BY <2>1, <2>2, <2>3, <2>5 DEF ToldInv
<1>5. CASE UNCHANGED reviewVars
  BY <1>1, <1>5 DEF reviewVars
<1>6. ASSUME NEW v \in Offers, \/ Offer(v, "draft", "published") \/ Offer(v, "published", "archived")
                               \/ RecordOverride(v)
      PROVE  ToldInv'
  BY <1>1, <1>6 DEF Offer, RecordOverride
<1>7. ASSUME NEW v \in Offers, SubmitEvaluation(v)
      PROVE  ToldInv'
  BY <1>2, <1>7 DEF SubmitEvaluation
<1>8. ASSUME NEW n \in 1..MaxJobs, WorkerEvaluates(n)
      PROVE  ToldInv'
  BY <1>2, <1>8 DEF WorkerEvaluates
<1>9. ASSUME (\E artifact \in Analyses \cup {Nil} : CompleteJob(artifact)) \/ AcceptReviewDeletion
      PROVE  ToldInv'
  BY <1>1, <1>9 DEF CompleteJob, AcceptReviewDeletion
<1>10. ASSUME NEW c \in Reviewers,
             \/ \E f \in FindingIds, choice \in DecisionChoices : DecisionRead(c, f, choice)
             \/ DecisionCommit(c) \/ DecisionFails(c)
      PROVE  ToldInv'
  BY <1>3, <1>4, <1>10, ToldCommitKeeps
<1> QED
  BY <1>5, <1>6, <1>7, <1>8, <1>9, <1>10 DEF ReviewNext

\* What a reviewer was told last is what is in force, and a reader who folds
\* the history gets the same, for any findings, evaluations, reviewers and
\* number of decisions (record() and _current_decision, reviews/decisions.py).
THEOREM ReviewersAreToldWhatHolds == ReviewSpec => []ToldIsInForce
<1>1. ReviewInit => ToldInv
  <2> SUFFICES ASSUME ReviewInit PROVE ToldInv
    OBVIOUS
  <2>1. DecisionInv
    BY DEF ReviewInit, DecisionInv, TimesArePast, DecisionsAreSerial
  <2>2. IsFiniteSet(decided)
    BY FS_EmptySet DEF ReviewInit
  <2> QED
    BY <2>1, <2>2 DEF ReviewInit, ToldInv
<1>2. ToldInv /\ [ReviewNext]_reviewVars => ToldInv'
  BY ToldStep
<1>3. ToldInv => ToldIsInForce
  <2> SUFFICES ASSUME ToldInv, NEW f \in FindingIds, answer[f] # Nil
               PROVE  answer[f] = InForce(f) /\ Current(f, History(f)) = InForce(f)
    BY DEF ToldIsInForce
  <2>1. Timed(About(f)) /\ Enumerates(History(f), About(f))
    BY HistoryIsTimed
  <2>2. Current(f, History(f)) = ForceOf(About(f), evaluation[f], Severity)
    BY <2>1, FoldIsForce
  <2>3. answer[f] = ForceOf(About(f), evaluation[f], Severity)
    BY DEF ToldInv
  <2> QED
    BY <2>2, <2>3, InForceIsForce
<1> QED
  BY <1>1, <1>2, <1>3, PTL DEF ReviewSpec
=============================================================================
