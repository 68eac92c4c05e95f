---------------------------- MODULE ReviewOutcome ----------------------------
(***************************************************************************)
(* What the review of an agreement promises, without stages, queues or     *)
(* workers: it gets at most one outcome; the outcome is published at most  *)
(* once, as a package that tells it, and eventually, unless the agreement  *)
(* is deleted first; nothing is published of a deleted agreement, and what *)
(* was published is erased.                                                *)
(***************************************************************************)
CONSTANTS Outcomes, None

VARIABLES outcome, published, deleted

outcomeVars == <<outcome, published, deleted>>

Undecided == outcome = None /\ published = None /\ ~deleted

Resolve ==
    /\ outcome = None
    /\ ~deleted
    /\ outcome' \in Outcomes
    /\ UNCHANGED <<published, deleted>>

Publish ==
    /\ outcome # None
    /\ ~deleted
    /\ published = None
    /\ published' = outcome
    /\ UNCHANGED <<outcome, deleted>>

Tombstone == ~deleted /\ deleted' = TRUE /\ UNCHANGED <<outcome, published>>

Erase == deleted /\ published # None /\ published' = None /\ UNCHANGED <<outcome, deleted>>

OutcomeNext == Resolve \/ Publish \/ Tombstone \/ Erase

\* What must not happen, and with it what must
OutcomeSafety == Undecided /\ [][OutcomeNext]_outcomeVars
OutcomeSpec == OutcomeSafety /\ WF_outcomeVars(Publish)
=============================================================================
