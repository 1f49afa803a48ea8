----------------------------- MODULE DomainGate -----------------------------
(***************************************************************************)
(* How requests reach one shop: the gate, the cooldowns and the fetchers of *)
(* app/monitor/fetchers.py, and the routing policy of app/proxy.py.        *)
(*                                                                         *)
(* Watches, scans, the catalogue and the browser all fetch on their own.   *)
(* What keeps them from knocking together is one semaphore per domain, a   *)
(* minimum gap after the last request, and a cooldown for every bucket and *)
(* route that was refused.  All of this is keyed by the domain, so the     *)
(* model is of a single one.  The daily budget of the proxy is not: every  *)
(* shop spends it, so the proxied fetches of the others are counted, too.  *)
(*                                                                         *)
(* Time is counted in ticks and every clock runs down to zero: how long a  *)
(* key stays blocked, how long the shop still has its rest, how long a     *)
(* coroutine still sleeps.                                                 *)
(***************************************************************************)
EXTENDS Integers, Sequences, FiniteSets

CONSTANTS
    Pages,          \* fetches of ordinary pages (fetch_httpx)
    Catalogs,       \* fetches of /products.json (fetch_httpx)
    Browsers,       \* fetches by fetch_playwright
    RobotsAware,    \* fetches that ask for robots.txt first
    Slots,          \* settings.per_domain_concurrency
    MinGap,         \* settings.per_domain_min_interval_seconds, in ticks
    Retries,        \* attempts of one fetch
    Backoff,        \* ticks slept after a failed attempt
    DefaultWait,    \* DEFAULT_COOLDOWN_SECONDS, in ticks
    MaxWait,        \* MAX_COOLDOWN_SECONDS, in ticks
    MaxFactor,      \* 2 ** 8, the largest multiple of a wait
    RetryAfters,    \* waits a shop can ask for in Retry-After
    ProxyMode,      \* settings.proxy_mode, or "off" without PROXY_URL
    AfterRefusals,  \* settings.proxy_after_refusals
    Budget,         \* settings.proxy_daily_request_budget
    OtherFetches    \* bound on the fetches other shops have under way at once

Requests == Pages \cup Catalogs \cup Browsers
Buckets  == {"page", "catalog"}
Routes   == {"direct", "proxy"}
Keys     == Buckets \X Routes
NoHeader == 0      \* no usable Retry-After

ASSUME RequestsAssumption ==
    /\ IsFiniteSet(Requests)
    /\ Pages \cap Catalogs = {} /\ Pages \cap Browsers = {} /\ Catalogs \cap Browsers = {}
    /\ RobotsAware \subseteq Pages
ASSUME PacingAssumption == Slots \in Nat \ {0} /\ {MinGap, Backoff} \subseteq Nat
ASSUME WaitsAssumption ==
    /\ DefaultWait \in Nat \ {0} /\ MaxWait \in Nat /\ DefaultWait <= MaxWait
    /\ RetryAfters \subseteq 1..MaxWait
    /\ MaxFactor \in Nat \ {0}
ASSUME ProxyAssumption ==
    /\ ProxyMode \in {"off", "always", "on-refusal"}
    /\ {AfterRefusals, Retries} \subseteq Nat \ {0} /\ {Budget, OtherFetches} \subseteq Nat

VARIABLES
    pc,         \* where each fetch stands
    route,      \* the route each fetch has chosen
    attempt,    \* attempts of each fetch that have failed
    nap,        \* how long each coroutine still sleeps
    line,       \* who waits for the semaphore, first come first served
    rest,       \* what is left of the minimum gap (_domain_last_request)
    blocked,    \* what is left of each cooldown (_domain_blocked_until)
    factor,     \* 2 ** refusals in a row (_domain_penalty)
    robots,     \* the cached robots.txt
    escalated,  \* buckets moved to the proxy (_State.escalated)
    refusals,   \* direct refusals counted towards that (_State.refusals)
    used,       \* proxied requests counted today, of every shop (totals)
    elsewhere,  \* fetches of other shops that have chosen the proxy and not ended
    mood,       \* whether the shop answers or may refuse
    hist        \* observer: what the shop said

fetches  == <<pc, route, attempt, nap>>
cooldown == <<blocked, factor>>
policy   == <<escalated, refusals, used>>
vars == <<fetches, line, rest, cooldown, robots, policy, elsewhere, mood, hist>>

Min2(a, b) == IF a <= b THEN a ELSE b
Max2(a, b) == IF a >= b THEN a ELSE b
Less(n)    == IF n = 0 THEN 0 ELSE n - 1

-----------------------------------------------------------------------------
(* The keys a request is held against.                                     *)

\* bucket_of
Bucket(r) == IF r \in Catalogs THEN "catalog" ELSE "page"

\* Faulty variant: the budget is spent one request late.
BudgetExhaustedLate == used > Budget

\* budget_exhausted
BudgetExhausted == used >= Budget

\* routes_via_proxy
RoutesViaProxy(b) ==
    /\ ProxyMode # "off"
    /\ ProxyMode = "always" \/ b \in escalated
    /\ ~BudgetExhausted

\* fetch_playwright enters the gate with the default bucket and route, even when
\* the browser is given the proxy.
ChosenRoute(r) ==
    IF r \notin Browsers /\ RoutesViaProxy(Bucket(r)) THEN "proxy" ELSE "direct"

Key(r) == <<Bucket(r), route[r]>>

Inside == {r \in Requests : pc[r] \in {"pacing", "sending", "backoff"}}

-----------------------------------------------------------------------------
(* note_refusal and note_success of the fetchers.                          *)

CooldownWait(k, ra) ==
    Min2((IF ra = NoHeader THEN DefaultWait ELSE ra) * factor[k], MaxWait)

\* A refused page pauses the catalogue of the same route too.
BlockedAfter(k, wait) ==
    [q \in Keys |->
        IF q = k THEN wait
        ELSE IF k[1] = "page" /\ q = <<"catalog", k[2]>> THEN Max2(blocked[q], wait)
        ELSE blocked[q]]

NoteRefusal(k, ra) ==
    /\ blocked' = BlockedAfter(k, CooldownWait(k, ra))
    /\ factor' = [factor EXCEPT ![k] = Min2(2 * @, MaxFactor)]

\* Faulty variant: a success clears the whole shop.
ClearedWholeShop(k, f, none) == [q \in Keys |-> none]

\* A working page says nothing about the catalogue.
Cleared(k, f, none) == [f EXCEPT ![k] = none]

NoteSuccess(k) ==
    /\ factor' = Cleared(k, factor, 1)
    /\ blocked' = Cleared(k, blocked, 0)

-----------------------------------------------------------------------------
(* note_refusal and note_success of the proxy policy.                      *)

\* Faulty variant: refusals are counted on after the bucket has moved.
CountsTowardsProxyStill(b, via) == via = "direct" /\ ProxyMode # "off"

CountsTowardsProxy(b, via) ==
    via = "direct" /\ ProxyMode # "off" /\ b \notin escalated

PolicyRefusal(b, via) ==
    /\ IF CountsTowardsProxy(b, via)
       THEN /\ refusals' = [refusals EXCEPT ![b] = @ + 1]
            /\ escalated' = IF refusals'[b] < AfterRefusals THEN escalated
                            ELSE escalated \cup {b}
       ELSE UNCHANGED <<refusals, escalated>>
    /\ UNCHANGED used

\* Faulty variant: a direct success forgives no earlier refusal.
PolicySuccessUnforgiving(b, via) ==
    IF via = "proxy"
    THEN used' = used + 1 /\ UNCHANGED <<escalated, refusals>>
    ELSE escalated' = escalated \ {b} /\ UNCHANGED <<refusals, used>>

\* A direct success ends what was paid for; a proxied one is counted.
PolicySuccess(b, via) ==
    IF via = "proxy"
    THEN used' = used + 1 /\ UNCHANGED <<escalated, refusals>>
    ELSE /\ refusals' = [refusals EXCEPT ![b] = 0]
         /\ escalated' = escalated \ {b}
         /\ UNCHANGED used

-----------------------------------------------------------------------------
(* Observer: what the shop has said, never read by a guard.                *)

\* The shop refused key k: it is owed the silence it asked for, doubled for
\* every refusal before, and after a refused page for the catalogue as well.
NoteTold(k, ra) ==
    LET due == Min2((IF ra = NoHeader THEN DefaultWait ELSE ra) * hist.row[k], MaxWait)
    IN  hist' = [hist EXCEPT
            !.due = [q \in Keys |->
                IF q = k \/ (k[1] = "page" /\ q = <<"catalog", k[2]>>)
                THEN Max2(@[q], due) ELSE @[q]],
            !.row[k] = Min2(2 * @, MaxFactor),
            !.direct[k[1]] = IF k[2] = "direct" THEN Min2(@ + 1, AfterRefusals) ELSE @,
            !.quiet = 0]

NoteAnswered(k) ==
    hist' = [hist EXCEPT
        !.row[k] = 1,
        !.direct[k[1]] = IF k[2] = "direct" THEN 0 ELSE @,
        !.quiet = 0]

NoteWire == hist' = [hist EXCEPT !.quiet = 0]

-----------------------------------------------------------------------------
Init ==
    /\ pc = [r \in Requests |-> "idle"]
    /\ route = [r \in Requests |-> "direct"]
    /\ attempt = [r \in Requests |-> 0]
    /\ nap = [r \in Requests |-> 0]
    /\ line = <<>>
    /\ rest = 0
    /\ blocked = [k \in Keys |-> 0]
    /\ factor = [k \in Keys |-> 1]
    /\ robots = "unknown"
    /\ escalated = {}
    /\ refusals = [b \in Buckets |-> 0]
    /\ used = 0
    /\ elsewhere = 0
    /\ mood = "hostile"
    /\ hist = [due |-> [k \in Keys |-> 0], row |-> [k \in Keys |-> 1],
               direct |-> [b \in Buckets |-> 0], quiet |-> MinGap]

\* The route is chosen and the cooldown looked up; then the coroutine queues.
\* Who is refused here raises RateLimited at once.
Join(r) ==
    /\ blocked[<<Bucket(r), ChosenRoute(r)>>] = 0
    /\ pc' = [pc EXCEPT ![r] = "queued"]
    /\ route' = [route EXCEPT ![r] = ChosenRoute(r)]
    /\ line' = Append(line, r)

Arrive(r) ==
    /\ pc[r] = "idle"
    /\ r \in RobotsAware => robots = "allow"
    /\ Join(r)
    /\ UNCHANGED <<attempt, nap, rest, cooldown, robots, policy, elsewhere, mood, hist>>

\* _robots_allowed without a cached answer: a GET of its own.
AskRobots(r) ==
    /\ pc[r] = "idle"
    /\ r \in RobotsAware /\ robots = "unknown"
    /\ pc' = [pc EXCEPT ![r] = "robots"]
    /\ UNCHANGED <<route, attempt, nap, line, rest, cooldown, robots, policy, elsewhere, mood, hist>>

\* An unreachable robots.txt allows everything.
RobotsAnswer(r, verdict) ==
    /\ pc[r] = "robots"
    /\ robots' = verdict
    /\ IF verdict = "allow" /\ blocked[<<Bucket(r), ChosenRoute(r)>>] = 0
       THEN Join(r)
       ELSE pc' = [pc EXCEPT ![r] = "idle"] /\ UNCHANGED <<route, line>>
    /\ UNCHANGED <<attempt, nap, rest, cooldown, policy, elsewhere, mood, hist>>

\* Faulty variant: who finds the cooldown goes back to wait, and is never woken.
RecheckedQueued(r) == IF blocked[Key(r)] > 0 THEN "queued" ELSE "pacing"

Rechecked(r) == IF blocked[Key(r)] > 0 THEN "idle" ELSE "pacing"

\* A slot of the semaphore is free.  The cooldown is looked up again: whoever
\* was in front may have been refused meanwhile.
Enter(r) ==
    /\ line # <<>> /\ r = Head(line)
    /\ Cardinality(Inside) < Slots
    /\ line' = Tail(line)
    /\ pc' = [pc EXCEPT ![r] = Rechecked(r)]
    /\ IF Rechecked(r) = "pacing"
       THEN nap' = [nap EXCEPT ![r] = rest] /\ UNCHANGED route
       ELSE route' = [route EXCEPT ![r] = "direct"] /\ UNCHANGED nap
    /\ UNCHANGED <<attempt, rest, cooldown, robots, policy, elsewhere, mood, hist>>

\* The gap is over, and so is the jitter; or the backoff after a failure.
GoOut(r) ==
    /\ pc[r] \in {"pacing", "backoff"}
    /\ nap[r] = 0
    /\ attempt[r] < Retries
    /\ pc' = [pc EXCEPT ![r] = "sending"]
    /\ UNCHANGED <<route, attempt, nap, line, rest, cooldown, robots, policy, elsewhere, mood, hist>>

\* Faulty variant: the time of the request is not taken when it ends.
LeaveUnstamped(r) ==
    /\ pc' = [pc EXCEPT ![r] = "idle"]
    /\ route' = [route EXCEPT ![r] = "direct"]
    /\ attempt' = [attempt EXCEPT ![r] = 0]
    /\ nap' = [nap EXCEPT ![r] = 0]
    /\ UNCHANGED rest

\* The gate is left, whatever happened inside.
Leave(r) ==
    /\ pc' = [pc EXCEPT ![r] = "idle"]
    /\ route' = [route EXCEPT ![r] = "direct"]
    /\ attempt' = [attempt EXCEPT ![r] = 0]
    /\ nap' = [nap EXCEPT ![r] = 0]
    /\ rest' = MinGap

\* A transport error: try again after a while.  The browser gives up at once.
Fails(r) ==
    /\ pc[r] = "sending"
    /\ mood = "hostile"
    /\ IF r \in Browsers
       THEN Leave(r)
       ELSE /\ pc' = [pc EXCEPT ![r] = "backoff"]
            /\ attempt' = [attempt EXCEPT ![r] = @ + 1]
            /\ nap' = [nap EXCEPT ![r] = Backoff]
            /\ UNCHANGED <<route, rest>>
    /\ NoteWire
    /\ UNCHANGED <<line, cooldown, robots, policy, elsewhere, mood>>

GiveUp(r) ==
    /\ pc[r] = "backoff"
    /\ nap[r] = 0
    /\ attempt[r] = Retries
    /\ Leave(r)
    /\ UNCHANGED <<line, cooldown, robots, policy, elsewhere, mood, hist>>

\* 429 or 503, never retried.  fetch_playwright does not look at the status.
IsRefused(r, ra) ==
    /\ pc[r] = "sending"
    /\ mood = "hostile"
    /\ Leave(r)
    /\ IF r \in Browsers
       THEN UNCHANGED <<cooldown, policy>>
       ELSE NoteRefusal(Key(r), ra) /\ PolicyRefusal(Bucket(r), route[r])
    /\ IF r \in Browsers THEN NoteWire ELSE NoteTold(Key(r), ra)
    /\ UNCHANGED <<line, robots, elsewhere, mood>>

IsAnswered(r) ==
    /\ pc[r] = "sending"
    /\ Leave(r)
    /\ IF r \in Browsers
       THEN UNCHANGED <<cooldown, policy>>
       ELSE NoteSuccess(Key(r)) /\ PolicySuccess(Bucket(r), route[r])
    /\ IF r \in Browsers THEN NoteWire ELSE NoteAnswered(Key(r))
    /\ UNCHANGED <<line, robots, elsewhere, mood>>

-----------------------------------------------------------------------------
(* The world.                                                              *)

Tick ==
    /\ nap' = [r \in Requests |-> Less(nap[r])]
    /\ rest' = Less(rest)
    /\ blocked' = [k \in Keys |-> Less(blocked[k])]
    /\ hist' = [hist EXCEPT
           !.due = [k \in Keys |-> Less(@[k])],
           !.quiet = IF \E r \in Requests : pc[r] = "sending" THEN 0 ELSE Min2(@ + 1, MinGap)]
    /\ UNCHANGED <<pc, route, attempt, line, factor, robots, policy, elsewhere, mood>>

\* The shop turns against us, or comes round.
MoodSwings ==
    /\ mood' \in {"friendly", "hostile"} \ {mood}
    /\ UNCHANGED <<fetches, line, rest, cooldown, robots, policy, elsewhere, hist>>

\* Midnight: the usage of the day is cleared by the first look at it.
NewDay ==
    /\ used' = 0
    /\ UNCHANGED <<fetches, line, rest, cooldown, robots, escalated, refusals, elsewhere, mood, hist>>

\* A fetch of another shop chooses the proxy; it ends charged if it was answered,
\* and uncharged if it was refused or failed.
OtherShopJoins ==
    /\ ProxyMode # "off" /\ ~BudgetExhausted
    /\ elsewhere < OtherFetches
    /\ elsewhere' = elsewhere + 1
    /\ UNCHANGED <<fetches, line, rest, cooldown, robots, policy, mood, hist>>

OtherShopEnds ==
    /\ elsewhere > 0
    /\ elsewhere' = elsewhere - 1
    /\ used' \in {used, used + 1}
    /\ UNCHANGED <<fetches, line, rest, cooldown, robots, escalated, refusals, mood, hist>>

RobotsExpire ==
    /\ robots' = "unknown"
    /\ UNCHANGED <<fetches, line, rest, cooldown, policy, elsewhere, mood, hist>>

-----------------------------------------------------------------------------
Ends(r) == Fails(r) \/ IsAnswered(r) \/ \E ra \in RetryAfters \cup {NoHeader} : IsRefused(r, ra)

HearsRobots(r) == \E verdict \in {"allow", "deny"} : RobotsAnswer(r, verdict)

Fetch(r) ==
    Arrive(r) \/ AskRobots(r) \/ HearsRobots(r) \/ Enter(r) \/ GoOut(r) \/ GiveUp(r) \/ Ends(r)

Next ==
    \/ \E r \in Requests : Fetch(r)
    \/ OtherShopJoins \/ OtherShopEnds
    \/ Tick \/ MoodSwings \/ NewDay \/ RobotsExpire

Spec == Init /\ [][Next]_vars

\* Clocks run, the scheduler brings every fetch back, coroutines are resumed,
\* and a request ends one way or the other (every client has a timeout).
Fairness ==
    /\ WF_vars(Tick)
    /\ \A r \in Requests :
        /\ WF_vars(Arrive(r)) /\ WF_vars(AskRobots(r)) /\ WF_vars(HearsRobots(r))
        /\ WF_vars(Enter(r)) /\ WF_vars(GoOut(r)) /\ WF_vars(GiveUp(r)) /\ WF_vars(Ends(r))

FairSpec == Spec /\ Fairness

-----------------------------------------------------------------------------
(* Correctness.                                                            *)

Places == {"idle", "robots", "queued", "pacing", "sending", "backoff"}

HistRecord == [due: [Keys -> 0..MaxWait], row: [Keys -> 1..MaxFactor],
               direct: [Buckets -> 0..AfterRefusals], quiet: 0..MinGap]

\* Every variable keeps its type: no cooldown beyond its cap, no attempt beyond
\* the limit, no refusal counted past the one that escalates.
TypeOK ==
    /\ pc \in [Requests -> Places]
    /\ route \in [Requests -> Routes]
    /\ attempt \in [Requests -> 0..Retries]
    /\ nap \in [Requests -> Nat]
    /\ line \in Seq(Requests)
    /\ rest \in 0..MinGap
    /\ blocked \in [Keys -> 0..MaxWait]
    /\ factor \in [Keys -> 1..MaxFactor]
    /\ robots \in {"unknown", "allow", "deny"}
    /\ escalated \subseteq Buckets
    /\ refusals \in [Buckets -> 0..AfterRefusals]
    /\ used \in Nat
    /\ elsewhere \in 0..OtherFetches
    /\ mood \in {"friendly", "hostile"}
    /\ hist \in HistRecord

GoesOut(r) == pc[r] # "sending" /\ pc'[r] = "sending"

\* A shop that refused a bucket over one route hears nothing more from that
\* bucket over that route until it has had the silence it asked for, doubled
\* with every refusal in a row; a refused page silences the catalogue as well.
\* The fetches that were already queueing are no exception, and neither is the
\* one behind a browser load.  Browser loads themselves are: they go through the
\* proxy without a look at its cooldown, and report no refusal (domain_gate,
\* fetch_playwright).
SilenceKept ==
    [][\A r \in Requests \ Browsers : GoesOut(r) => hist.due[Key(r)] = 0]_vars

\* Between the end of one fetch and the first request of the next the shop has
\* its minimum gap, slow loads and retry chains not deducted (domain_gate).
GapKept ==
    [][\A r \in Requests : GoesOut(r) /\ attempt[r] = 0 => hist.quiet = MinGap]_vars

\* In the mode "on-refusal" the paid route is taken only by a bucket that was
\* refused often enough on the free one since it last worked there.
ProxyIsEarned ==
    [][\A r \in Requests :
         pc[r] # "queued" /\ pc'[r] = "queued" /\ route'[r] = "proxy" /\ ProxyMode = "on-refusal"
             => hist.direct[Bucket(r)] = AfterRefusals]_vars

\* Every shop spends the one daily budget, and what is counted overshoots it by no
\* more than the fetches, of this shop and the others, that had chosen the proxy
\* before the last of it was spent: the route is not looked at again in the queue
\* (routes_via_proxy, note_success).  It says nothing of what is not counted: the
\* proxied requests that were refused or failed, and the browser's.
BudgetNearlyKept ==
    used <= Max2(0, Budget + Cardinality(Requests \ Browsers) + OtherFetches - 1)

\* A shop that has come round is read again, every bucket of it, however long
\* the cooldowns had grown and whoever was in the queue.
ShopComesRound == <>[](mood = "friendly" /\ robots # "deny")

Recovers ==
    ShopComesRound => \A r \in Requests : []<><<IsAnswered(r)>>_vars
=============================================================================
