------------------------------ MODULE Playbooks ------------------------------
(***************************************************************************)
(* Legal playbooks as PlaybookService (playbooks/service.py) keeps them:   *)
(* drafts are edited, validated, published, archived or deleted.  Only     *)
(* create_version locks a row.  A rule change is sent to the database at   *)
(* one moment and committed at another, and publication and deletion act   *)
(* on rows read before: what protects published rows are the triggers and  *)
(* the partial unique index of migration 0008, under READ COMMITTED.       *)
(***************************************************************************)
EXTENDS FiniteSets

CONSTANTS
    PlaybookIds,
    Routes,      \* agreement family, direction, jurisdiction and priority
    Rules,       \* rules an editor may write
    ClauseOf,    \* the normalized clause type of each rule
    Complete,    \* the rules with the texts a publication asks for
    VersionIds,  \* ids of version rows (BOUND on the versions there are at once)
    Calls,       \* API calls that are not one step (BOUND on how many overlap)
    None

ASSUME PlaybookAssumption ==
    ClauseOf \in [Rules -> STRING] /\ Complete \subseteq Rules

VARIABLES
    playbook,  \* the legal_playbooks rows: state and route
    version,   \* the playbook_versions rows that exist, with their rules
    call       \* what each call has read or sent but not committed

playbookVars == <<playbook, version, call>>

PlaybookInit ==
    /\ playbook = [p \in PlaybookIds |-> [state |-> "none", route |-> None]]
    /\ version = [v \in {} |-> None]
    /\ call = [c \in Calls |-> None]

Exists(p) == playbook[p].state \in {"active", "archived"}
VersionsOf(p) == {v \in DOMAIN version : version[v].playbook = p}
Published(v) == v \in DOMAIN version /\ version[v].status = "published"
Pending(kind, v) == \E c \in Calls : call[c] # None /\ call[c].kind = kind /\ v \in call[c].on
FreshVersion(v) == v \notin DOMAIN version /\ \A kind \in {"edit", "publish", "delete"} : ~Pending(kind, v)

Draft(p, rules) == [playbook |-> p, status |-> "draft", rules |-> rules]

AddVersion(v, row) ==
    version' = [w \in DOMAIN version \cup {v} |-> IF w = v THEN row ELSE version[w]]

CreatePlaybook(p, v, route, rules) ==
    /\ playbook[p].state = "none"
    /\ FreshVersion(v)
    /\ playbook' = [playbook EXCEPT ![p] = [state |-> "active", route |-> route]]
    /\ AddVersion(v, Draft(p, rules))
    /\ UNCHANGED call

\* create_version locks the playbook row; it does not ask whether the
\* playbook is archived
CreateVersion(p, v, source) ==
    /\ Exists(p)
    /\ FreshVersion(v)
    /\ AddVersion(v, Draft(p, IF source = None THEN {} ELSE version[source].rules))
    /\ UNCHANGED <<playbook, call>>

-----------------------------------------------------------------------------
\* Mutant: the trigger on playbook_rules is missing
RuleTriggerMissing(v) == v \in DOMAIN version

\* prevent_published_playbook_rule_mutation, as a statement sees it
RuleTrigger(v) == v \in DOMAIN version /\ version[v].status # "published"

\* Two statements on one rule row or key wait for each other.
Touched(v) == UNION {call[c].drop \cup call[c].add :
                        c \in {d \in Calls : call[d] # None /\ v \in call[d].on}}

\* add_rule, update_rule and delete_rule: _ensure_draft and the statement ...
EditRule(c, v, drop, add) ==
    /\ call[c] = None
    /\ RuleTrigger(v)
    /\ drop \subseteq version[v].rules
    /\ (add \ drop) \cap version[v].rules = {}
    /\ (drop \cup add) \cap Touched(v) = {}
    /\ call' = [call EXCEPT ![c] = [kind |-> "edit", on |-> {v}, drop |-> drop, add |-> add]]
    /\ UNCHANGED <<playbook, version>>

\* ... and the end of its transaction
CommitRule(c, v) ==
    /\ call[c] # None /\ call[c].kind = "edit" /\ v \in call[c].on
    /\ version' = [version EXCEPT ![v].rules = (@ \ call[c].drop) \cup call[c].add]
    /\ call' = [call EXCEPT ![c] = None]
    /\ UNCHANGED playbook

\* _validate_for_publication
ValidForPublication(rules) ==
    /\ rules # {}
    /\ rules \subseteq Complete
    /\ \A r, s \in rules : ClauseOf[r] = ClauseOf[s] => r = s

RoutingConflict(p) ==
    \E v \in DOMAIN version :
        LET q == version[v].playbook
        IN  /\ Published(v) /\ q # p /\ playbook[q].state = "active"
            /\ playbook[q].route = playbook[p].route

\* publish() reads without a lock ...
PublishRead(c, v) ==
    /\ call[c] = None
    /\ v \in DOMAIN version /\ ~Published(v)
    /\ ValidForPublication(version[v].rules)
    /\ \A w \in VersionsOf(version[v].playbook) : ~Published(w)
    /\ ~RoutingConflict(version[v].playbook)
    /\ call' = [call EXCEPT ![c] = [kind |-> "publish", on |-> {v}, drop |-> {}, add |-> {}]]
    /\ UNCHANGED <<playbook, version>>

\* Mutant: without uq_playbook_versions_one_published
PublishAllowedByTrigger(v) == RuleTrigger(v)

\* the row is still there, the trigger and the unique index agree
PublishAllowed(v) ==
    /\ v \in DOMAIN version /\ ~Published(v)
    /\ \A w \in VersionsOf(version[v].playbook) : ~Published(w)

\* ... and updates the row it read, if the database lets it
PublishCommit(c, v) ==
    /\ call[c] # None /\ call[c].kind = "publish" /\ v \in call[c].on
    /\ version' = IF PublishAllowed(v)
                  THEN [version EXCEPT ![v].status = "published"] ELSE version
    /\ call' = [call EXCEPT ![c] = None]
    /\ UNCHANGED playbook

Without(vs) == [v \in DOMAIN version \ vs |-> version[v]]

\* delete_version: the row lock waits for rule changes under way
DeleteVersion(v) ==
    /\ v \in DOMAIN version /\ ~Published(v)
    /\ ~Pending("edit", v)
    /\ version' = Without({v})
    /\ UNCHANGED <<playbook, call>>

\* archive refuses while there are drafts and fails without a version
ArchivePlaybook(p) ==
    /\ playbook[p].state = "active"
    /\ VersionsOf(p) # {}
    /\ \A v \in VersionsOf(p) : Published(v)
    /\ playbook' = [playbook EXCEPT ![p].state = "archived"]
    /\ UNCHANGED <<version, call>>

\* delete_playbook reads the versions, none of which is published ...
DeleteRead(c, p) ==
    /\ call[c] = None
    /\ Exists(p)
    /\ \A v \in VersionsOf(p) : ~Published(v)
    /\ call' = [call EXCEPT ![c] = [kind |-> "delete", on |-> VersionsOf(p) \cup {p},
                                    drop |-> {}, add |-> {}]]
    /\ UNCHANGED <<playbook, version>>

\* Mutant: without the triggers on versions and rules
DeleteAllowedByKeys(c, p) == VersionsOf(p) \subseteq call[c].on

\* the triggers of the rows it deletes, and the key of a version it missed
DeleteAllowed(c, p) ==
    VersionsOf(p) \subseteq call[c].on /\ \A v \in VersionsOf(p) : ~Published(v)

\* ... and deletes them with the playbook
DeleteCommit(c, p) ==
    /\ call[c] # None /\ call[c].kind = "delete" /\ p \in call[c].on
    /\ \A v \in VersionsOf(p) : ~Pending("edit", v)
    /\ IF Exists(p) /\ DeleteAllowed(c, p)
       THEN /\ version' = Without(VersionsOf(p))
            /\ playbook' = [playbook EXCEPT ![p].state = "deleted"]
       ELSE UNCHANGED <<playbook, version>>
    /\ call' = [call EXCEPT ![c] = None]

Editing(c) ==
    \/ \E v \in DOMAIN version, r \in Rules :
        EditRule(c, v, {}, {r}) \/ EditRule(c, v, {r}, {})
            \/ \E s \in Rules \ {r} : EditRule(c, v, {r}, {s})
    \/ \E v \in VersionIds : CommitRule(c, v) \/ PublishRead(c, v) \/ PublishCommit(c, v)
    \/ \E p \in PlaybookIds : DeleteRead(c, p) \/ DeleteCommit(c, p)

PlaybookNext ==
    \/ \E p \in PlaybookIds, v \in VersionIds :
        \/ \E route \in Routes, rules \in SUBSET Rules : CreatePlaybook(p, v, route, rules)
        \/ \E source \in VersionsOf(p) \cup {None} : CreateVersion(p, v, source)
    \/ \E v \in VersionIds : DeleteVersion(v)
    \/ \E p \in PlaybookIds : ArchivePlaybook(p)
    \/ \E c \in Calls : Editing(c)

PlaybookSpec == PlaybookInit /\ [][PlaybookNext]_playbookVars

-----------------------------------------------------------------------------
\* A playbook has one published version at most, whatever publications
\* overlap (publish() and uq_playbook_versions_one_published).
OnePublishedVersion ==
    \A v, w \in DOMAIN version :
        Published(v) /\ Published(w) /\ version[v].playbook = version[w].playbook => v = w

\* What was published stays: neither a deletion that read the versions before
\* the publication nor another call removes it or makes it a draft again.
PublishedSurvives ==
    [][\A v \in DOMAIN version : Published(v) => Published(v)']_playbookVars

\* Once a version is published and no rule change is under way on it, its
\* rules never change again and no change of them can begin.
Settled(v) == Published(v) /\ ~Pending("edit", v)
PublishedSettles ==
    [][\A v \in DOMAIN version :
        Settled(v) => Settled(v)' /\ version'[v].rules = version[v].rules]_playbookVars
=============================================================================
