----------------------------- MODULE MCServices -----------------------------
(* Small instances of the services that share no state with one another. A   *)
(* behaviour explores one of them, its scene; the others stay as they begin. *)
EXTENDS Playbooks, ApprovalPolicies, Agreements, RetrievalIndex, PlaybookReview,
        VersionComparison, ModelGateway, Chunking, TLC

CONSTANTS Scenes, r1, r2
VARIABLE scene

servicesVars == <<playbookVars, policyVars, agreementVars, indexVars, reviewVars,
                  comparisonVars, gatewayVars, blocks>>

\* Two rules about one clause: a version that has both is not publishable.
ClauseOfRules == [r \in Rules |-> "liability"]

\* A stage somebody can satisfy, and one that asks for more than it names
ValidStages == <<[mode |-> "any", quorum |-> 0, roles |-> {"legal"}, users |-> {}]>>
InvalidStages == <<[mode |-> "quorum", quorum |-> 2, roles |-> {"legal"}, users |-> {}]>>
StageListsTwo == {ValidStages, InvalidStages}

\* Two published rules about the same words, and what two analyses may find:
\* the worker takes a "limit" for a "cap", the API does not.
RuleOfOffer == [o \in Offers |->
    IF o = "p1" THEN [clause |-> "cap", policy |-> "prohibited", language |-> "l"]
                ELSE [clause |-> "fee", policy |-> "required", language |-> "l"]]
RankOfOffer == [p1 |-> 1, p2 |-> 2]
Clause(category, confidence) ==
    [category |-> category, confidence |-> confidence, cited |-> TRUE, text |-> {"l"},
     deterministic |-> TRUE]
AnalysesTwo == {<<Clause("limit", 9)>>, <<Clause("cap", 8), Clause("fee", 7)>>}
CanonicalOfClause == [cap |-> "limit", limit |-> "limit", fee |-> "fee"]
DecisionsThree ==
    {[action |-> "accepted", result |-> Nil, severity |-> Nil],
     [action |-> "edited", result |-> "missing", severity |-> Nil],
     [action |-> "edited", result |-> Nil, severity |-> "low"]}

\* Documents whose sections are kept, moved, split, merged, repeated and of
\* another type
Section(text, type, heading) == [text |-> text, type |-> type, heading |-> heading]
Whole == Section({"liability", "ceiling", "fee"}, "liability", "h1")
Half == Section({"liability", "ceiling"}, "liability", "h1")
Rest == Section({"fee"}, Absent, Absent)
Others == Section({"parties", "x", "y", "z"}, Absent, "h2")
Typed == Section({"liability", "numbers", "x"}, "fee", Absent)
Blank == Section({}, Absent, Absent)    \* a text without words
ContentsFive ==
    {<<Whole, Others>>, <<Half, Rest, Others>>, <<Others, Whole>>, <<Others, Others, Blank>>,
     <<Typed, Rest, Blank>>}
ContentsOne == {<<Whole>>}
VersionsTwo == 1..2
VersionsThree == 1..3

\* A hosted endpoint, a compatible one, and one that falls back to the hosted;
\* a configuration of each kind, and one the compatible endpoint alone accepts
DeploymentsThree ==
    {[mode |-> "openai", own |-> "m0", fallback |-> NoModel],
     [mode |-> "openai-compatible", own |-> "m0", fallback |-> NoModel],
     [mode |-> "openai-compatible", own |-> "m0", fallback |-> "m1"]}
SettingOfThree ==
    [a |-> [provider |-> "openai", model |-> "m1", parameters |-> {}],
     b |-> [provider |-> "openai-compatible", model |-> "m2", parameters |-> {"encoding_format"}],
     x |-> [provider |-> "openai-compatible", model |-> "m2", parameters |-> {"max_tokens"}]]

Init ==
    /\ scene \in Scenes
    /\ PlaybookInit /\ PolicyInit /\ AgreementsInit /\ IndexInit /\ ReviewInit
    /\ ComparisonInit /\ GatewayInit /\ ChunkingInit
    /\ scene = "gateway" \/ deployment = CHOOSE d \in Deployments : TRUE

Next ==
    /\ UNCHANGED scene
    /\ \/ /\ scene = "playbooks" /\ PlaybookNext
          /\ UNCHANGED <<policyVars, agreementVars, indexVars, reviewVars,
                         comparisonVars, gatewayVars, blocks>>
       \/ /\ scene = "policies" /\ PolicyNext
          /\ UNCHANGED <<playbookVars, agreementVars, indexVars, reviewVars,
                         comparisonVars, gatewayVars, blocks>>
       \/ /\ scene = "agreements" /\ AgreementsNext
          /\ UNCHANGED <<playbookVars, policyVars, indexVars, reviewVars,
                         comparisonVars, gatewayVars, blocks>>
       \/ /\ scene = "index" /\ IndexNext
          /\ UNCHANGED <<playbookVars, policyVars, agreementVars, reviewVars,
                         comparisonVars, gatewayVars, blocks>>
       \/ /\ scene = "review" /\ ReviewNext
          /\ UNCHANGED <<playbookVars, policyVars, agreementVars, indexVars,
                         comparisonVars, gatewayVars, blocks>>
       \/ /\ scene = "comparison" /\ ComparisonNext
          /\ UNCHANGED <<playbookVars, policyVars, agreementVars, indexVars,
                         reviewVars, gatewayVars, blocks>>
       \/ /\ scene = "gateway" /\ GatewayNext
          /\ UNCHANGED <<playbookVars, policyVars, agreementVars, indexVars,
                         reviewVars, comparisonVars, blocks>>
       \/ /\ scene = "chunks" /\ ChunkingNext
          /\ UNCHANGED <<playbookVars, policyVars, agreementVars, indexVars,
                         reviewVars, comparisonVars, gatewayVars>>

Spec == Init /\ [][Next]_<<scene, servicesVars>>

\* The scenes share their model values: i1 and i2 are playbooks, policies,
\* agreements or configurations, o1 and o2 versions, objects or texts, c1 and
\* c2 whoever calls.
Symmetry == Permutations(AgreementIds) \cup Permutations(Objects) \cup Permutations(Calls)
=============================================================================
