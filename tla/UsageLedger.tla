----------------------------- MODULE UsageLedger -----------------------------
(***************************************************************************)
(* The monthly AI budget of an organization and the rate limits in front   *)
(* of it: UsageLedgerService (usage.py), reserve_rate_limit (limits.py,    *)
(* redis_client.py) and the three routes that use them: POST turns         *)
(* (qa/routes.py), GET search (search/routes.py) and POST processing-jobs  *)
(* (processing/routes.py).  A reservation is added to the request's own    *)
(* transaction and seen by other requests when that commits.  Tokens stand *)
(* for tokens and cost, which the ledger treats alike.                     *)
(***************************************************************************)
EXTENDS Integers, FiniteSets, FiniteSetsExt

CONSTANTS
    Requests,    \* requests to the three routes (BOUND on how many there are)
    RouteOf,     \* "turn", "search" or "submit"
    KeyOf,       \* what its reservation is filed under: an idempotency key of
                 \* a submission, an id of its own otherwise
    EstimateOf,  \* the tokens each route reserves
    Actuals,     \* what a provider call may use; 0 when it reports nothing
    TokenBudget, \* AI_MONTHLY_TOKEN_BUDGET
    RateLimit, WindowLength,  \* the policy of a route, per tenant and user
    NoRow

ASSUME UsageAssumption ==
    /\ RouteOf \in [Requests -> {"turn", "search", "submit"}]
    /\ \A r, s \in Requests : KeyOf[r] = KeyOf[s] => r = s \/ {RouteOf[r], RouteOf[s]} = {"submit"}
    /\ EstimateOf \in [{"turn", "search", "submit"} -> Nat \ {0}]
    /\ Actuals \subseteq Nat /\ TokenBudget \in Nat \ {0}
    /\ RateLimit \in Nat /\ WindowLength \in Nat \ {0}
    /\ NoRow \notin [status : {"reserved", "settled", "cancelled"}, estimate : Nat, actual : Nat]

VARIABLES
    ledger,     \* the committed ai_usage_ledger rows of the month, by key
    request,    \* where each request is and the row its transaction holds
    window,     \* the counter of each route in Redis and the seconds it has left
    spent,      \* HISTORY: what the provider has reported for each request
    passed,     \* HISTORY: requests let through in this window
    contended   \* HISTORY: two transactions have held reservations at once

usageVars == <<ledger, request, window, spent, passed, contended>>

Row(r, status, actual) ==
    [status |-> status, estimate |-> EstimateOf[RouteOf[r]], actual |-> actual]

UsageInit ==
    /\ ledger = [k \in {} |-> NoRow]
    /\ request = [r \in Requests |-> [at |-> "start", row |-> NoRow]]
    /\ window = [route \in DOMAIN EstimateOf |-> [count |-> 0, left |-> 0]]
    /\ spent = [r \in Requests |-> 0]
    /\ passed = [route \in DOMAIN EstimateOf |-> 0]
    /\ contended = FALSE

At(r, place) == request[r].at = place
Held(r) == request[r].row
Goto(r, place, row) == request' = [request EXCEPT ![r] = [at |-> place, row |-> row]]
Holders == {r \in Requests : Held(r) # NoRow}

-----------------------------------------------------------------------------
\* Mutant: the counter starts without an expiry (INCR and EXPIRE apart)
NoExpiry(w) == [count |-> w.count + 1, left |-> w.left]

\* the Lua script: INCR, and EXPIRE for a new key (BOUND: one above the limit
\* is as far as the counter is counted)
Incremented(w) ==
    [count |-> IF w.count > RateLimit THEN w.count ELSE w.count + 1,
     left |-> IF w.count = 0 THEN WindowLength ELSE w.left]

\* reserve_rate_limit in Redis
EnterRoute(r) ==
    LET route == RouteOf[r]
        w == Incremented(window[route])
    IN  /\ At(r, "start")
        /\ window' = [window EXCEPT ![route] = w]
        /\ IF w.count > RateLimit
           THEN Goto(r, "limited", NoRow) /\ UNCHANGED passed
           ELSE Goto(r, "admitted", NoRow) /\ passed' = [passed EXCEPT ![route] = @ + 1]
        /\ UNCHANGED <<ledger, spent, contended>>

\* without Redis an expensive route is refused, and a search is counted by the
\* API process alone (_reserve_local_fallback)
EnterWithoutRedis(r) ==
    /\ At(r, "start")
    /\ \E place \in {"limited"} \cup (IF RouteOf[r] = "search" THEN {"admitted"} ELSE {}) :
        Goto(r, place, NoRow)
    /\ UNCHANGED <<ledger, window, spent, passed, contended>>

\* a limited client asks again after Retry-After
AskAgain(r) ==
    /\ At(r, "limited")
    /\ Goto(r, "start", NoRow)
    /\ UNCHANGED <<ledger, window, spent, passed, contended>>

\* a second passes for a key, which expires with the last one
Tick(route) ==
    /\ window[route].left > 0
    /\ IF window[route].left = 1
       THEN /\ window' = [window EXCEPT ![route] = [count |-> 0, left |-> 0]]
            /\ passed' = [passed EXCEPT ![route] = 0]
       ELSE window' = [window EXCEPT ![route].left = @ - 1] /\ UNCHANGED passed
    /\ UNCHANGED <<ledger, request, spent, contended>>

-----------------------------------------------------------------------------
Charge(row) == IF row.actual # 0 THEN row.actual ELSE row.estimate

\* Mutant: reservations do not count until they are settled
CountsSettled(rows) ==
    SumFunction([k \in {l \in DOMAIN rows : rows[l].status = "settled"} |-> Charge(rows[k])])

\* _current_usage
CurrentUsage(rows) ==
    SumFunction([k \in {l \in DOMAIN rows : rows[l].status \in {"reserved", "settled"}}
                    |-> Charge(rows[k])])

WithinBudget(r) == CurrentUsage(ledger) + EstimateOf[RouteOf[r]] <= TokenBudget

\* reserve_usage.  A submission that finds its job is answered with it; one
\* that finds the same key in another transaction waits for its end.
Reserve(r) ==
    /\ At(r, "admitted")
    /\ \A s \in Holders : KeyOf[s] # KeyOf[r]
    /\ IF KeyOf[r] \in DOMAIN ledger THEN Goto(r, "done", NoRow) /\ UNCHANGED contended
       ELSE IF WithinBudget(r)
       THEN Goto(r, "reserved", Row(r, "reserved", 0)) /\ contended' = (contended \/ Holders # {})
       ELSE /\ Goto(r, IF RouteOf[r] = "search" THEN "done" ELSE "refused", NoRow)
            /\ UNCHANGED contended
    /\ UNCHANGED <<ledger, window, spent, passed>>

\* The provider answers and the request settles: once, a further embedding of
\* the same search finds its row settled.
SettledRow(r, n) == IF Held(r).status = "settled" THEN Held(r) ELSE Row(r, "settled", n)
CallProvider(r, n) ==
    /\ RouteOf[r] # "submit"
    /\ \/ At(r, "reserved")
       \/ At(r, "called") /\ RouteOf[r] = "search" /\ spent[r] = Held(r).actual
    /\ Goto(r, "called", SettledRow(r, n))
    /\ spent' = [spent EXCEPT ![r] = @ + n]
    /\ UNCHANGED <<ledger, window, passed, contended>>

\* no evidence, no provider, or one that fails: nothing is settled
ProviderFails(r) ==
    /\ At(r, "reserved") /\ RouteOf[r] # "submit"
    /\ Goto(r, "called", Held(r))
    /\ UNCHANGED <<ledger, window, spent, passed, contended>>

File(r, row) ==
    ledger' = [k \in DOMAIN ledger \cup {KeyOf[r]} |-> IF k = KeyOf[r] THEN row ELSE ledger[k]]

\* Mutant: the turn is committed before its usage is settled
ReservedOnly(r) == Row(r, "reserved", 0)
\* the turn and the row its request holds are one transaction
TurnRow(r) == Held(r)

\* ask() commits the turn; a row that is not settled is cancelled next
CommitTurn(r) ==
    /\ At(r, "called") /\ RouteOf[r] = "turn"
    /\ File(r, TurnRow(r))
    /\ Goto(r, IF Held(r).status = "settled" THEN "answered" ELSE "unanswered", NoRow)
    /\ UNCHANGED <<window, spent, passed, contended>>

\* ... in a new transaction, for which nobody has set app.organization_id:
\* the row is not there for it, and the reservation stays
CancelTurn(r) ==
    /\ At(r, "unanswered")
    /\ Goto(r, "failed", NoRow)
    /\ UNCHANGED <<ledger, window, spent, passed, contended>>

\* the search cancels what is not settled and commits once
CommitSearch(r) ==
    /\ At(r, "called") /\ RouteOf[r] = "search"
    /\ File(r, IF Held(r).status = "settled" THEN Held(r) ELSE Row(r, "cancelled", 0))
    /\ Goto(r, "done", NoRow)
    /\ UNCHANGED <<window, spent, passed, contended>>

\* submit() commits the job with the reservation, which nobody settles
CommitSubmit(r) ==
    /\ At(r, "reserved") /\ RouteOf[r] = "submit"
    /\ File(r, Held(r))
    /\ Goto(r, "done", NoRow)
    /\ UNCHANGED <<window, spent, passed, contended>>

\* An error or a crash before the commit rolls everything back.
RollBack(r) ==
    /\ request[r].at \in {"reserved", "called"}
    /\ Goto(r, "failed", NoRow)
    /\ UNCHANGED <<ledger, window, spent, passed, contended>>

UsageNext ==
    \/ \E route \in DOMAIN EstimateOf : Tick(route)
    \/ \E r \in Requests :
        \/ EnterRoute(r) \/ EnterWithoutRedis(r) \/ AskAgain(r) \/ Reserve(r)
        \/ \E n \in Actuals : CallProvider(r, n)
        \/ ProviderFails(r) \/ CommitTurn(r) \/ CancelTurn(r) \/ CommitSearch(r) \/ CommitSubmit(r)
        \/ RollBack(r)

UsageSpec == UsageInit /\ [][UsageNext]_usageVars

-----------------------------------------------------------------------------
\* What settled calls used beyond their estimates
Excess ==
    SumFunction([k \in {l \in DOMAIN ledger : ledger[l].actual > ledger[l].estimate}
                    |-> ledger[k].actual - ledger[k].estimate])

\* What the month's rows come to
Charged ==
    SumFunction([k \in {l \in DOMAIN ledger : ledger[l].status # "cancelled"}
                    |-> Charge(ledger[k])])

\* Unless two requests have held reservations at once, the ledger passes the
\* budget only by what calls used beyond their estimates (reserve_usage
\* compares with committed rows only).
BudgetNeedsOverlap == ~contended => Charged <= TokenBudget + Excess

\* An answer that was kept has been paid for: its row is settled with what
\* the provider used, whatever failed on the way.
AnswersArePaid ==
    \A r \in Requests : At(r, "answered") =>
        /\ KeyOf[r] \in DOMAIN ledger
        /\ ledger[KeyOf[r]].status = "settled" /\ ledger[KeyOf[r]].actual = spent[r]

\* A counter in Redis always runs out, so that no client is shut out for good,
\* and lets at most the limit through before it does.
WindowsEnd ==
    \A route \in DOMAIN window :
        (window[route].count > 0 => window[route].left > 0) /\ passed[route] <= RateLimit
=============================================================================
