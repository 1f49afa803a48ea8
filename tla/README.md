# TLA+ models of the restock tracker

The repository is a tracker for trading-card products.  It polls shop pages,
catalogues and news sources, decides what changed, and pings Discord.  It is one
Python process: an asyncio event loop, an APScheduler instance, a FastAPI
dashboard and an SQL database (SQLAlchemy, async sessions).  There are no
threads that share state; everything that can go wrong between two actors goes
wrong between two `await`s, between two database sessions, or across a restart.

This directory holds models of the parts where that matters, TLC runs over small
instances of them, and TLAPS proofs of what is most worth having for every
instance.

    tlc -workers 2 -config <run>.cfg <MC module>.tla     a run
    tlapm <module>Proofs.tla                             the proofs

| file | what it is |
|---|---|
| `WatchCheck.tla` | the check pipeline of one watch |
| `DomainGate.tla` | gate, cooldowns and proxy policy in front of one shop |
| `Scanner.tla` | one keyword scanner |
| `ShopCatalog.tla` | the cached catalogue of one shop and the adapters that read it |
| `Watchdog.tla` | the alarm about watches and scanners that stay broken, and the pruning of its evidence |
| `Jobs.tla` | rows, interval jobs, job slots and "check all" sweeps |
| `AtMostOnce.tla`, `Finders.tla` | what a finder promises; news and hunts, which implement it |
| `Dispatch.tla`, `KeywordPinger.tla` | an event on its way to its channels; the message handlers that send such events |
| `PageReading.tla`, `MessageRules.tla`, `ShopListing.tla` | the rules that decide, as operators |
| `Decisions.tla` | one step per use of such a rule, and what must be true of all of them |
| `MC*.tla`, `*.cfg` | instances for TLC |
| `WatchCheckProofs`, `DomainGateProofs`, `ScannerProofs`, `ShopCatalogProofs`, `WatchdogProofs`, `JobsProofs`, `FindersProofs`, `KeywordPingerProofs` | theorems and proofs; `WatchdogProofs` holds those about `Watchdog` and, after them, those about `Decisions` |
| `PROJECT.json` | components, runs, mutants, the map to the source, hazards, findings |


## 1. Inventory

What each component keeps, does, and owes to the others.

**Watch check** (`monitor/service.py`, row `Watch` of `models.py`, handlers of
`web/routes.py`).  State: the row (`enabled`, `last_check_at`, `listing_seen`,
`last_status`, `last_notified_at`, `restock_reminders_sent`, `price_target`,
`price_target_hit`, `notify_on_first_seen`), the check history, and one session
per running check.  Operations: load, fetch through the adapter, decide
(`evaluate_transition`, `evaluate_price_target`), apply, commit, stamp
`last_notified_at`, commit, dispatch; on the dashboard: create, edit, toggle,
delete.  Started by the interval job, by "check now" and by the "check all"
sweep, independently of each other.  *Hard*: the row is read before a fetch of
minutes and written after it; two commits with a restart in between; pages that
cannot be read.  *Correct when* alerts keep their cooldown and reminder pace, an
alert corresponds to a real change of reading, nobody's commit is lost, and a
product that stays in stock is mentioned again.

**Domain gate and fetchers** (`monitor/fetchers.py`, `monitor/browser_tls.py`).
State, all in module dictionaries: one semaphore per domain, the time of the last
request, a cooldown and a count of refusals for every (domain, bucket, route),
cached robots.txt.  Operations: `fetch_httpx` with retries, `fetch_playwright`,
`domain_gate`, `note_refusal`, `note_success`, `_robots_allowed`.  Used by every
adapter, the catalogue, the scanner and discovery.  *Hard*: fetches that looked
up the cooldown and then queued; buckets that share a refusal in one direction;
growing waits.  *Correct when* the shop is never knocked on during a silence it
asked for, the gap is kept, and a shop that answers again is read again.

**Proxy policy** (`proxy.py`).  State: which (domain, bucket) have moved to the
paid route, refusals counted, usage of the day.  *Correct when* the paid route is
earned by refusals on the free one and the daily budget stops the bill.

**Shop catalogue** (`monitor/catalog.py`, `adapters/generic.py`,
`adapters/shopify.py`).  State per host: cached entry (index, validators, expiry,
ttl), a lock, failures in a row.  Operations: lookup, refresh under the lock with
a conditional request, verdict, `guard_single_fetch`, single product fetches.
*Hard*: every watch of a shop finds the entry expired at once; 304 answers keep
old content alive; "cannot be read" and "does not exist" must not be confused.

**Keyword scanner** (`scanner.py`, rows `Scan`, `ScanItem`).  State: url,
`baseline_done`, `enabled`, the remembered products with their prices under a
unique key.  Operations: run, edit, toggle, delete.  *Hard*: overlapping runs,
an edit of the page during a run, one bad row that fails the whole commit.
*Correct when* the first run is silent, every product is announced once, and what
was there all along is never a drop.

**Watchdog** (`watchdog.py`).  State in memory: since when each shop fails, when
it was last reported.  *Hard*: flapping shops, restarts within the grace period,
an alarm marked as sent before it is sent, evidence that retention deletes.

**Scheduler, job slots, sweeps** (`scheduler.py`, `limits.py`, `db.py`,
`main.py`, sweep handlers).  State: one job per enabled row, a semaphore of job
slots, the connection pool, the set of running sweeps.  *Hard*: a toggle commits
and (re)schedules in two steps; a job holds a slot while it waits for a
connection, a catalogue lock and a gate.

**Dispatch and notifiers** (`notify/`, `events.py`).  Stateless but for the
notification history, which is committed once after all sends.  *Hard*: a
notifier that raises, quiet hours, a crash between send and record.

**News** (`news/`).  State: items under a unique (source, guid), announcement
flags.  *Hard*: overlapping polls, flags committed before the announcement.

**Discovery** (`discovery.py`).  State: known domains.  *Hard*: two hunts that
find one domain.

**Keyword pinger** (`keyword_pinger.py`, `keyword_match.py`).  State: a window of
recent messages, a block list.  *Hard*: windows renewed by each repeat, a block
list read before a delay.

**Rules** (`detection.py`, the retailer adapters and their registry,
`pokemon_center_queue.py`, the unlocker client, `keyword_match.py`, `events.py`,
quiet hours, `parse_listing`, `vet_site`).  No state: each maps one input to a
verdict, and an order of two tests or a boundary decides whether somebody is
pinged.  *Correct when* no verdict goes against what the shop's words mean (it does
for a few of them, section 11), and no rule can be silenced by an input that should only make it say more.

**Other stateless parts**: `retention.py`, `heartbeat.py`, the Cardmarket client,
configuration, logging, dashboard pages, report and debug tools.

How they meet:

    APScheduler job / check now / sweep
        └─ job slot ─ session ─ check_watch / run_scan
              └─ adapter ── catalogue of the host (lock) ─┐
                        └── single page ──────────────────┤
                                                          └─ domain gate ─ route ─ shop
              └─ commit ─ commit ─ dispatch_event ─ notifiers
    dashboard ─ the same rows, the same jobs
    watchdog, heartbeat, retention ─ the history the checks leave behind

`PROJECT.json` has the same list with the status of each component, and under
`hazards` the places in this code where a test would hardly reach.


## 2. Plan

| # | modules | state of work |
|---|---|---|
| 1 | `WatchCheck`, `WatchCheckProofs` | modelled, checked, proved but for liveness |
| 2 | `DomainGate`, `DomainGateProofs` | modelled, checked, proved but for liveness |
| 3 | `Scanner`, `ScannerProofs` | modelled, checked, proved but for liveness |
| 4 | `ShopCatalog`, `ShopCatalogProofs` | modelled, checked, proved but for liveness |
| 5 | `Watchdog`, `WatchdogProofs` | modelled, checked, proved but for liveness |
| 6 | `Jobs`, `JobsProofs` | modelled, checked, proved but for liveness |
| 7 | `AtMostOnce`, `Finders`, `FindersProofs` | modelled, the refinement checked and proved |
| 8 | `Dispatch`, `KeywordPinger`, `KeywordPingerProofs` | modelled, checked, proved |
| 9 | `PageReading`, `MessageRules`, `ShopListing`, `Decisions` | modelled, checked over bounded inputs, proved for all |

Theorems still worth proving: what the premises of those there are leave open, as
far as it is true.  No module that needs a proof declares a RECURSIVE operator;
what goes through a list is a fold or a search of the community modules.

How the proofs are laid out is the same everywhere: the type invariant first, one
lemma per action that does more than copy; then the observer, what each of its
updates leaves alone; then the strengthening, whose parts are named after what they
say, one step per action; last the theorems.  Every part of every strengthening
was run through TLC as an invariant of the instance of its module before it was
proved.

A composition of job slots, pooled connections, catalogue locks and gates in one
module was planned and given up: the slots are in `Jobs`, the lock in
`ShopCatalog`, the semaphore in `DomainGate`.  They are always taken in this
order and each module shows, under fairness, that what it guards is given back;
only the connections are counted nowhere (section 13).


## 3. WatchCheck

One watch, any number of checks of it, the dashboard and the shop.

| model | code |
|---|---|
| `db`, `alive` | the committed row; whether it exists |
| `loaded`, `cur` | the row as a session read it, and as it holds it now |
| `Begin` | `check_watch_by_id` (scheduled checks look at `enabled`, "check now" does not) and the head of `check_watch` |
| `Evaluate`, `FetchFails` | the adapter call, `evaluate_transition`, `evaluate_price_target`, `_apply_result`; the two `except` branches |
| `Record` | first commit: the reading, the history row |
| `Stamp`, `Send` | `last_notified_at` and second commit; `dispatch_event` |
| `Abandon` | StaleDataError when the row is gone |
| `OpenForm` … `DeleteWatch` | handlers of `web/routes.py`, load and commit as two steps |
| `Readings` | what adapters can return: the truth, an unreadable page with or without a price (`detect_stock` without a signal), an adapter's own "unknown" (bot wall) |
| `Flush` | SQLAlchemy's unit of work: columns whose value differs from what was loaded, plus those given a new time stamp, and no other |

Time is kept as the age of the last alert in the row and in every session, and
saturates at the larger of cooldown and reminder interval: the code only compares
the age with those two, so nothing is lost and time needs no bound.  `hist` and
`overtaken` are observers no guard reads.  Fetch duration is arbitrary: any number
of ticks and commits may fall between `Begin` and `Evaluate`.

**Runs.**  `watch_alerts` (one scheduled check; cooldown, reminder interval and
reminders all 1; two prices around one target; failing, unreadable and "unknown"
pages; the operator may have opted in to first-seen alerts at creation and edits
the target, toggles and deletes in mid-check; one crash).  What it says of reminders,
restocks and dips is said of one check at a time, since two that overlap break it
(below); ages 0 and 1 are both sides of both intervals.

* `RemindersCapped`: no more reminders than configured in one streak, whatever
  unreadable pages and restarts lie between.
* `NewsIsNews`: a restock (`NoPhantomRestock`) needs a last page *with a verdict*
  that was not "in stock".  A new listing (`SilentBaseline`) needs an earlier check
  that found none.  `hist` classifies pages by what they say, not by the `readable`
  flag: a bot wall is no verdict.  The two exceptions below are named in the
  formulas by facts of their own, `hist.walled` and `listing = "blind"`, and excuse
  nothing else.
* `PriceAlertPerDip`: one price alert per dip.
* `StaleWritesHarmless`: stale sessions take nothing back, neither the operator's
  columns nor "seen" nor the time of the last alert.

`watch_live` (the job and "check now", which overlap in every way; unlimited
reminders; failing pages; one crash; no edits):

* `AlertsPaced`: an alert keeps the cooldown, or the reminder interval, to the one
  stamped last, however many checks overlap, unless that one was stamped by another
  check *after this one had loaded the row* (`overtaken`).  So nothing is lost but
  the pace among checks that were under way together.
* `KeepsReminding`: a product that stays in stock is alerted again and again once
  any alert was stamped.

Fairness: time passes; the interval job starts again and its session makes
progress (APScheduler and the event loop); a shop that is asked for ever answers
truthfully every now and then (strong fairness of the true reading only; the shop
may fail between any two of those).  Nothing is assumed of the operator or of
"check now".

**What the properties except, because the code does otherwise**:

* Two checks of one watch overlap (job, "check now", sweep): both decide on the
  row as it was, and both alert within the cooldown (`service.py:218`, against
  README.md:100-102).  `AlertsPaced` excepts a check that is overtaken, and nobody
  else.  For the same reason two overlapping checks may both count the last
  reminder, announce one restock or alert on one dip; those properties are run and
  proved for one check at a time.
* A bot wall that an adapter reports as a readable "unknown" becomes the baseline
  of the next restock: in stock, wall, in stock is announced as back, although
  `amazon_de.py:4-6` ("never as a stock transition") and
  `pokemon_center_queue.py:10` promise silence.  `hist.walled`: since the last
  verdict there was such a page.
* A first check that fails counts as the silent baseline, so the first page that
  is read is announced as new (`service.py:276`, against README.md:97-99).
  `listing = "blind"`: the first check that ended had read nothing.  The same
  holds when the operator ticks the first-seen box, which takes the baseline back
  (`routes.py:293-297`), while a check is under way: that check counts as the
  silent one.
* A crash between the two commits (`service.py:288`) loses the first alert of a
  watch, and without a stamp no reminder makes up for it (against
  `service.py:13-16`): the premise of `KeepsReminding`.
* A page without a stock signal that still shows a price re-arms the price alert
  (`service.py:93`).  `PriceAlertPerDip` is run and proved without such pages
  (`priced_partial` is not in `PageFaults`).

Met while modelling as well: a check running while the form re-arms `listing_seen`
leaves the baseline half re-armed; one running while the target changes commits
`price_target_hit` for the new target (a check that began before the edit says
nothing of the new target, `hist.stale`).  Edits of the first-seen box are in no
run, only the box as it was at creation; the proofs cover them, for
`PriceAlertsArePerDip` and `OnlyNewsIsNews` too.

**Proved** (`WatchCheckProofs`), for any checkers, settings, prices, shop, edits
and number of restarts:

* `TypeCorrect`.  The inductive invariant is `TypeOK` itself; the reminder counter
  stays in range because it moves only while reminders are left.
* `StaleWritesAreHarmless`, from `OperatorFieldsAreKept`, `LastAlertIsKept` and
  `ListingIsRemembered`.  `SessionInv`: a session's copy differs from what it
  loaded neither in the operator's columns nor, before the stamp, in the time of
  the last alert, so `Flush` does not write them.  `SeenInv`: a session never
  turns its copy of `listing_seen` off, so `Flush` writes it only to set it.
* `AlertsArePaced`, without a premise.  The property speaks of the row at the stamp,
  the decision of the session's copy; `PaceInv` says that the two agree on the age
  for every check that is not overtaken, and that a decision once justified stays
  so, because ages only grow.
* `RemindersAreCapped`, for one check at a time.  `ReadingInv` says, column by
  column, what a session that records makes of the row it loaded; `SoleInv` that
  the row holds the last reading and counts at least the reminders of the streak,
  one that is counted but not yet stamped included.
* `OnlyNewsIsNews`, from `RestocksAreReal` (again `SoleInv`, one check at a time) and
  `BaselineIsSilent`, which needs no premise: `BaselineInv` says that a row that was
  checked has seen the listing if the checks that ended have, unless the first of
  them was blind, and that no session on an older copy takes this back.
* `PriceAlertsArePerDip`, for one check at a time.  `DipInv`: until the price was
  seen to rise or the target moved, the row has the target as hit; a session that
  began before the target moved finds the dip open.

The premises of these: `Checkers = {job}` where it says one check at a time, and `"priced_partial" \notin PageFaults` for the last one.
Only model-checked: `KeepsReminding`.


## 4. DomainGate

One domain, any number of page, catalogue and browser fetches.  All state of the
code is kept per domain but one: the daily budget, which all shops spend together
(`proxy.py:150-171`).

| model | code |
|---|---|
| `Arrive`, `Join` | route by `routes_via_proxy`, first look at the cooldown, queue for the semaphore |
| `Enter` | the semaphore (first come, first served, as `asyncio.Semaphore` is), second look, minimum gap |
| `GoOut`, `Fails`, `GiveUp` | the attempts of `fetch_httpx` with their backoff, inside the gate |
| `IsRefused`, `IsAnswered` | 429/503 and everything else; `note_refusal` and `note_success` of the fetchers and of the policy |
| `AskRobots`, `RobotsAnswer` | `_robots_allowed`, outside the gate as in the code |
| `blocked`, `factor`, `rest`, `nap` | cooldowns, `2 ** _domain_penalty`, what is left of the gap and of sleeps |
| `escalated`, `refusals`, `used` | `proxy._State`; `used` is `totals()`, which adds up every shop |
| `OtherShopJoins`, `OtherShopEnds`, `elsewhere` | the proxied fetches of all other shops, as far as the budget sees them: one chooses the proxy while some of it is left, and ends charged or not |

All clocks run down to zero.  The observer holds what the shop has said:
`due`, the silence it is owed, computed from its answers and not from the code's
tables; `direct`, its refusals in a row on the free route; `quiet`, how long
nothing was under way.

Not in the model: the megabyte budget (same shape as the request budget), the
jitter (adds to the gap), robots.txt rules per path, the requests that pass no gate
(robots.txt itself, the direct fetch of the queue adapter, the scraping APIs).  A
`Retry-After` beyond `MAX_COOLDOWN_SECONDS` is cut there by the code, and the
silence owed is defined with the same cap.

**Run.**  `gate`: a page fetch that asks for robots.txt, a catalogue fetch and a
browser; one slot (the default), gap 1, waits up to 3, doubling up to 2, two
attempts, escalation after two refusals, a budget of one, and one fetch of another
shop under way at a time (`OtherFetches`).  A page and a catalogue
are what it takes to be refused behind somebody who was waiting, in both
directions between the two buckets; the browser comes in between with its own
idea of the route.  Properties: `SilenceKept`, `GapKept`, `ProxyIsEarned`,
`BudgetNearlyKept` (what is counted exceeds the budget by no more than the fetches of
all shops that had chosen the proxy before it was spent: budget plus own fetches
plus `OtherFetches`, less one), and under fairness `Recovers`: once the shop is friendly for good and its robots.txt allows
it, every fetch is answered for ever again.  Fairness is weak throughout: clocks,
the scheduler's arrivals, coroutines that can run, requests that end (all clients
have timeouts).

**What the properties except, because the code does otherwise**:

* The browser goes through the proxy but looks up the cooldown of the direct page
  key, and reports no refusal (`fetchers.py:633`, `:639`, against
  `fetchers.py:33-34` and `:65`): `SilenceKept` leaves out its own loads, not the
  fetches that queue behind it.
* Requests that are refused or fail over the proxy are paid for and never counted
  (`proxy.py:216`, against `proxy.py:13-15`), and so are the browser's:
  `BudgetNearlyKept` bounds what is counted, and no property bounds the bill.
* With more than one slot neither gap nor silence is promised by the code, and
  neither is stated.

**Proved** (`DomainGateProofs`), for any fetches, waits, retries and budgets:

* `TypeCorrect`, for any number of slots: cooldowns within their cap, and refusals
  never counted past the one that moves a bucket.
* `ProxyIsPaidFor`, for any number of slots.  `CountIsTrue`: the policy counts the
  refusals in a row on the free route, and a bucket that has moved had them all.
* `BudgetIsNearlyKept`, for any number of slots and of fetches elsewhere.  `Spent`:
  what is used and what is on its way over the paid route, of this shop and the
  others, stay within the bound; a fetch that chooses the paid route finds one unit
  left, and whoever pays leaves the set, or the number, it is counted in.
* `SilenceIsKept` and `GapIsKept`, with the premise `Slots = 1`, which is the
  default of `per_domain_concurrency` (`config.py:98`).  `Alone`: one fetch is
  inside; the doubling is the row of refusals and the cooldown covers the silence
  owed; who is inside looked after the last refusal; who paces sleeps what the gap
  lacks.  With two slots both are false: a fetch that sleeps out the gap has had its
  second look when the one beside it is refused, and goes out all the same.

Only model-checked: `Recovers`.


## 5. Scanner

| model | code |
|---|---|
| `scan`, `alive`, `items` | `Scan` row; `ScanItem` rows as a price per product |
| `Begin`, `Fetch`, `FetchFails` | head of `run_scan`, the page, the failure branch |
| `Compare` | the loop over the listing: new products, changed prices |
| `Record`, `RecordFails` | the commit; IntegrityError of the unique key and StaleDataError of deleted rows lose the whole run |
| `AnnounceEach`, `AnnounceFlood`, `AnnouncePrice`, `Finish` | the dispatch loops with `FLOOD_CAP`; the summary of a flood names `SummaryCap` products |
| `SpeakFails` | a `dispatch_event` that raises out of the run |
| `UpdateScan`, `ToggleScan`, `DeleteScan` | the handlers; another page re-arms the baseline and deletes the items, other keywords do neither |

Parsing and `url_key` are abstracted to the set of products a page shows, keywords
to the set of products they match (`wanted`; `Wordings` are the sets the form can
set).  As in WatchCheck a flag is written only if the session changed it:
that is why `UpdateScan` clears `baseline_done` only when its handler had loaded
it as set.  `torn` marks runs whose rows were deleted under them.  `MaxEdits` and
`MaxCrashes` bound forms and restarts.

**Runs.**  `scan`: two runs, one product on two pages with two prices, keywords
that match it or not, one edit (of page, keywords or both) and one crash:
`DropsAreReal`, nothing is announced as new that was on the page and asked for all
along, or twice.  One product suffices, the property speaks of one at a time; the
flood and clash paths with several are in `scan_live`: two runs, two products,
`FloodCap` 1 and `SummaryCap` 1, so that one product is told singly, and of two in a
summary one is named and one cut, as the thirteenth is with the code's 8 and 12;
one edit, dispatches that raise.

* `OwedIsAnnounced`: what was committed as new is named in a message, but for the
  losses below (`hist.lost`) and a restart.
* `SeenIsRemembered`: clashing runs lose what they found, but not for ever.

Fairness: a run that began goes on, the job starts the next one, and its page can
be read from time to time (strong fairness of `Fetch`).

**Excepted, because the code does otherwise**:

* A run under way while the page is changed announces products that were on the
  new page all along, or leaves the baseline flag set for a page nobody has read
  (`routes.py:600`, against `routes.py:587-592`).  `DropsAreReal` excepts exactly
  those runs (`hist.misled`).
* Widened keywords announce what was on the page all along: only a new URL re-arms
  the baseline (`routes.py:596-605`).  For `DropsAreReal` a product that the
  keywords did not ask for counts as missing (`hist.missing`).
* The summary of a flood names `items[:12]` and has no line for the rest
  (`scanner.py:222`); its text is cut at 3900 characters as well
  (`scanner.py:228`), which twelve long titles and addresses can reach.  All
  products are stored, so none of the rest is ever named.
* A dispatch that raises, that is one whose own queries or commit do, ends the run
  after its products are stored: what was left to tell is lost (`scanner.py:340-353`).

**Proved** (`ScannerProofs`), for any runs, products, pages, prices and caps:

* `TypeCorrect`.
* `DropsAreTrue`, with the exception of misled runs and without another premise.
  What the page has shown and the keywords have matched ever since the scanner was
  pointed at it is in the baseline once one is there (`BaselineKnows`), in the copy
  a run took of page and keywords, and in what the run adds (`RunIsSound`); what is
  gone from either is among the missing (`GoneIsMissing`); what was told stays remembered
  (`ToldIsKnown`), and two runs that announce have nothing in common
  (`RunsAreApart`), since of two that found the same only one commits.

Only model-checked: `OwedIsAnnounced`, `SeenIsRemembered`.

Nothing is promised about repeated price pings of overlapping runs, about floods
of prices (more changed prices than `FLOOD_CAP` are remembered and not told,
`scanner.py:349`), or about the announcements of a run that dies (the `notified`
flag is read by nothing), and nothing is stated.


## 6. ShopCatalog

| model | code |
|---|---|
| `entry`, `misses`, `line` | `_cache`, `_misses`, `_locks` of one host; the head of `line` holds the lock |
| `LookUp`, `Recheck` | `catalog()` before and after the lock |
| `Answered` | `_load` and what `catalog()` stores: an index, a settled "no catalogue", or a transient failure with a doubling wait |
| `Decide` | the adapters: found, ask for the product alone, or `guard_single_fetch` |
| `ProductJson`, `ProductPage`, `Pause`, `ProductPageAgain` | single fetches of both adapters, with the generic adapter's second look |

A validator stands for the content it was issued with; it is sent only along with
an index, and 304 is the answer to one that still matches.  An empty catalogue is
a transient failure, as in the code.  The request itself is DomainGate's subject.
One host: keys of two hosts never meet
(the cache keeps `www.` in its key and the gate does not, so both spellings of a
shop are two catalogues behind one gate).

**Run.**  `catalog`: two watches on two products, one per adapter, five states of
the shelf, lifetimes 2/1/2/3 (a catalogue, a first and a longest retry, a
settled verdict: the assumption `MaxRetryTtl < NegativeTtl` is what keeps verdicts
apart, and it holds with the code's numbers).  `ReadingIsRecent`, `ProbesPaced`,
`OnlyStragglers`, and under fairness `CatalogServes`: a shop that publishes and
answers again serves every watch from its catalogue again.  Fairness: clocks, and
every check of a watch goes on (scheduler, timeouts, a fair `asyncio.Lock`).

**Proved** (`ShopCatalogProofs`), for any watches, products, shelves and times:

* `TypeCorrect`, which includes that the prober holds the lock.
* `ProbesArePaced`.  `Paced`: the silence owed is what is left of the entry, and
  the failures the observer counts are those the code counts.
* `OnlyStragglersAsk`.  `Quiet`: after a failure the entry reads "unavailable",
  for which the cap below the settled ttl is needed; nobody passes the guard on it.
* `ReadingsAreRecent`.  `Recent`: the validator describes the index it is kept
  with, so a 304 confirms what the shop sells now, and age plus remaining life
  never exceed the lifetime of an entry.

`CatalogServes` is only model-checked.


## 7. Watchdog

| model | code |
|---|---|
| `rows` | `enabled` and whether `last_error` is set, of every watch and scanner |
| `kept` | age of the newest `StockCheck` of a watch without an error |
| `memory` | `_failing_since`, `_alerted`, `_recovered_at` |
| `CheckWatch`, `RunScan`, `Toggle` | what checks, scans and the dashboard commit |
| `Prune` | `prune_old_rows` |
| `Look`, `Judge` | the queries of `collect_broken`, and from the last of them to the event without an await |
| `alarm`, `named` | what the event counts, and what of that it names (`fresh[:MAX_LISTED]`) |
| `Send`, `SendFails`, `LookFails` | `run_watchdog`, which swallows every exception |
| `Restart` | the three dictionaries are gone, the database is not |

All ages saturate where the code stops telling them apart.  The rows of watches
and scanners are read in one step; their keys never meet.  The observer keeps
what really happened: when a watch was really read (pruned or not), for how long
the looks found a key in order, when it was last decided to report it.

**Run.**  `watchdog`: one watch, one scanner, grace 1, repeat 3, stable 1,
retention 2, one restart, and an alarm of one line (`MaxListed`, 8 in the code), so
that of two due keys one is named and one only counted.  But for that a key is
judged by itself, so one of each kind is enough; the repeat is longer than grace and stability together, so that a key can
fail, be reported, pass, fail again and become due in every order.

* `AlarmIsHonest`: nothing is reported before the process has looked at it for the
  grace period, and no watch that was really read within it, however little is
  kept and whatever the last check said.
* `AlarmsPaced`: no more than one report per `Repeat`, however often the key
  passes in between, unless every look of a `Stable` stretch found it in order.
* `LastingFailureIsReported`: what stays broken is reported again and again,
  although a report that failed was marked as made, and a restart starts anew.
  Reported means counted.  By name it is reported if from some time on no more
  fails than the alarm has lines for.

**Excepted, because the code does otherwise**: every due key is marked as alerted
and only the first eight are named (`watchdog.py:129-135`).  A ninth is "und N
weitere" and silent for the next six hours, and may be the ninth every time:
without `RoomForAll` TLC finds the behaviour in which a key is never named.

Fairness: the interval job runs on, time passes, queries work at times (strong
fairness of `Judge`), and a report about one and the same key, tried for ever, gets
through now and then.  A process restarted more often than once per grace period
never reports anything; the bound on restarts is what excludes it.

**Proved** (first part of `WatchdogProofs`), for any watches, scanners and times with a retention
of at least the grace period:

* `TypeCorrect`.
* `AlarmsAreHonest`.  `KeptIsGood`: pruning never takes a success the watchdog would
  still count, which is where the assumption on the retention is used.
* `AlarmsArePaced`.  `MemoryIsTrue`: what the process remembers of a key is what
  happened to it, and it has failed for no longer than the process runs.

Only model-checked: `LastingFailureIsReported`.


## 8. Jobs

| model | code |
|---|---|
| `rows`, `jobs` | rows by id; the jobs the scheduler holds |
| `OpenUpdate`, `OpenToggle`, `OpenDelete`, `Create`, `Commit`, `CommitFails`, `Reschedule` | the handlers of watches, scanners and hunts: load, commit, (re)schedule from the handler's own copy |
| `JobsFor` | `schedule_*` and `remove_*_job` |
| `Fire`, `GetsSlot`, `Finish` | an interval job with `max_instances=1`, `job_slots`, the check, which may raise |
| `Ask`, `StartSweep`, `SweepRow`, `EndSweep` | "check all" and `run_sweep` with its guard `_sweeping` |
| `Restart` | `lifespan`: memory is gone, `sync_*_jobs` runs before anything is served |

A row may vanish and its id be used again.  A commit on a row that is gone raises,
unless nothing was changed.  Hunts take no slot and have no sweep.

**Run.**  `jobs`: one watch, one hunt, two handlers, two sweeps of watches, one
slot.  Two handlers overlap in every way; job and two sweeps of one row are more
than the slot takes, so there is always somebody in line.

* `JobsFollowRows`: with nobody at work on it a row has a job exactly if it is
  enabled, through edits, deletions, reused ids, failed commits and restarts.
* `EnabledIsChecked`: a row that stays enabled is run again and again.
* `SweepsGetThrough`: a sweep that runs gets to all its rows and ends, so the
  guard is released.

Fairness is weak: intervals pass, coroutines that can run do, checks end.

**Excepted, because the code does otherwise**: two handlers of one row that
overlap (a double click on "toggle") may commit in one order and reschedule in the
other.  An enabled row without a job, or a disabled one with a job that looks and
goes away, stays until the next handler of that row or the next start:
`scheduler.py:59-61` says the rows are reconciled "on startup and after dashboard
changes", but only the start does.  `hist.tangled` holds exactly those rows, until
somebody works on them alone.

**Proved** (`JobsProofs`), for any rows, handlers, sweeps and slots:

* `TypeCorrect`, in which no more jobs run than there are slots.  `Order`: whoever
  is in the line waits there once, and only a sweep that runs has a row at work.
* `JobsAreReconciled`.  `Follows`: a handler that is alone with its row knows it
  (`AloneKnows`); a row that is not tangled has at most such a handler
  (`UntangledIsAlone`); and until that one commits, job and row agree (`JobsMatch`).

Only model-checked: `EnabledIsChecked`, `SweepsGetThrough`.


## 9. AtMostOnce and Finders

`AtMostOnce` is what a finder promises: things become known, known things are
told, each at most once, nothing is taken back.  `Finders` is how three finders of
the code do it:

| model | code |
|---|---|
| `known`, `flagged`, `dated`, `soon` | `SetNews` and `DiscoveredSite` rows and their flags |
| `Poll`, `Ingest`, `IngestFails` | `poll_source`, `ingest_items`, the unique (source, guid) |
| `LoadReleases` | `scan_release_soon` |
| `Search`, `RecordSites`, `RecordFails` | `run_hunt`: known domains are read before minutes of vetting, stored after it under a unique domain |
| `Take`, `Send`, `Raises`, `End` | the loops that tell: news are flagged and committed before the dispatch, a shop's flag after it, by the next commit |
| `Restart` | a crash at any point |
| `mishaps` | restarts, and hunts deleted under a run (StaleDataError, in `RecordFails`) |

What a feed or a search shows is any set; the vetting is any choice of those
that are pinged, up to the caps.  Polls and release scans are one job each; hunts
overlap (of two queries, or "run now").

**Runs.**  `finders`: two news, one of them with a guid longer than its column, one
shop, two workers, two mishaps; one shop is enough for two hunts to clash, but what
a clashing hunt loses of *other* shops is not exercised.

* `ToldOnce`: `Once!Spec` and `SoonOnce!Spec`, the refinement of `AtMostOnce` by
  `known`/`told` and again by `dated`/`soon`.
* `NothingSlipsThrough`: what is known and untold is about to be told or was lost
  to a crash, a raised dispatch, its verdict or the cap; and the flags say so.
* `FoundIsKnown`: what is found again and again is stored in the end, although one
  clash fails the whole page or run.  Fairness: what runs goes on.

`finders_long_guid` is a **finding**: `ingest_items` looks up the whole guid
(`news/service.py:58`) and stores 500 characters of it (`:80`).  A stored item
with a longer guid is missed on every poll, clashes, and takes every new item of
its page with it: "Insert unseen items" (`:53`) fails for ever.

**Proved** (`FindersProofs`), for any news, domains, coroutines, caps and restarts:

* `TypeCorrect` and `NothingIsForgotten`.
* `TellsOnce`: the finders implement `AtMostOnce` twice, by their announcements and
  by their release reminders, initial state and every step.

Both rest on one invariant: what is owed is not told (`OwedIsUntold`) and owed by
one coroutine only (`OwedByOne`), which holds because an item and a domain enter
their table once, under a unique key, and whoever entered it tells it, while
reminders have one job; what is told is known and
flagged (`ToldIsKnown`, `FlaggedIsTold`, and the same of reminders), what is known
and not told is owed or lost (`UntoldIsOwed`).  Only model-checked: `FoundIsKnown`.


## 10. Dispatch and KeywordPinger

| model | code |
|---|---|
| `Begin`, `Post`, `Committed`, `Dropped` | `dispatch_event`: load the channels, look at the clock, post to each, one commit; a session that is rolled back |
| `RowsAtOnce` | the rows of an event that is not sent: no channel, or quiet hours |
| `Answered` | `DiscordNotifier.send`: lost answers and rate limits are tried again |
| `Arrive`, `CheckBlocked` | `handle_message`: alerts first, then the block list |
| `Repeat`, `Hit` | `is_duplicate`, which renews its entry on every look |
| `Dispatches`, `Posts`, `Records` | the ping after its delay |
| `Messaging`, `SendsMessage`, `Press` | the direct messages and their block button |
| `Raises`, `Restart` | the database fails under a handler; the process ends |

`KeywordPinger` extends `Dispatch` and is the caller its runs need.  Counters on
the alert's row are left out: nothing reads them.

**Run.**  `pinger`: two coroutines, two alerts, a message and its repost, the repost
with a link too long for a button, one channel, two attempts, window 1, three
messages, one restart.  The senders are symmetric, and only safety is checked, so
the symmetry is sound.  The system may stop when all messages have come, hence
`CHECK_DEADLOCK FALSE`.

* `PingsAreWanted`: an alert pings exactly if it has not met the text within the
  window, in any message handled at the time, and never for a link that was
  blocked when the message came.
* `HistoryIsHonest`: a row of success arrived; one of failure, or a second copy,
  only where an answer was lost.
* `NothingVanishes`: every hit has its row for every channel meant, or one that
  says there was none, and its direct message, or is on its way; only a restart or
  a failing database takes it out.

Met while modelling: a message repeated within every window is silenced for as
long as it goes on, which is what `is_duplicate` is for; a link blocked during the
delay of a ping still pings; the id of a block button holds 100 characters
(`keyword_pinger.py:207-211`), so pressing it blocks a prefix that no link of a
later message equals, against the comment there ("no button rather than a broken
one"); a crash between the posts and the commit leaves no row of
what was sent; `run_listener` is started by nothing in the repository.

What a sender still has to post to (`left`) is a set of places in the list of
notifiers, taken in their order.  The names on that list differ
(`NotifiersAssumption`): `load_notifiers` keeps the notifiers in a dict by name.

**Proved** (`KeywordPingerProofs`), for any messages, alerts, coroutines and channels:

* `TypeCorrect`.
* `HistoryIsTrue`.  A channel that is left has no row, and if something arrived there
  its answer was lost (`LeftIsUnwritten`); rows are honest (`WrittenIsHonest`).
* `HitsAreKept`.  A channel that was meant has its row or is left
  (`MeantIsCounted`), so the commit that ends a dispatch ends it for all of them.
* `PingsAreAsked`.  The window forgets what is older than it and nothing else
  (`RecentIsMet`); the block list only grows, and who goes on was let through
  (`PassedIsUnlisted`).


## 11. Decisions

`PageReading`, `MessageRules` and `ShopListing` hold the rules as operators.  A
page is the signals on it: the availability words of its structured data in order,
whether it has a buy button, a sold-out notice somewhere, and what its words about
the product say: a text is named for what it means, and holds every phrase of the
tables that is a substring of it (`Held`).  `Decisions` has one step
per use of a rule; each picks one input and decides it, so that a state is one
input with its verdict.  Every behaviour is one step long: `CHECK_DEADLOCK FALSE`.

**Run.**  `decisions`: all combinations of all signals in the small sets of
`MCDecisions`, each with the boundary cases of its rule (hours from -1 to 24, ratings
around 3.0 and 3.7, prices on the limits, hosts that only look like a domain's).

* `ReadingsAreSound`: an adapter says "in stock" only if a button, the shop's words
  or its own data say so, and its words do not deny it unless its data does
  otherwise.  What words mean (`Denials`, `Offers`) is stated by their meaning and
  not by the code's tables; the words that an adapter reads against it are listed,
  adapter by adapter, in `Misread` (below), and each of them is needed there.  Adding
  a sold-out notice or removing a button never makes a page buyable; a second look
  never overturns a verdict; a price is the least at which something can be bought;
  the queue alarm is quiet only on the real store, heard on every page that has the
  words or the address, and silent about a bot check; an unlocker that fails with
  429, 500, 502, 503 or 504 is no wall; the closest registered domain chooses the
  adapter.
* `ChoicesAreSound`: a hit names the first alternative that is in the message, one
  more alternative or wider limits never silence a rule, one more exclusion never
  fires it; a number is never read too high, so that a maximum turns away no price
  below it (a minimum may: a price can be read too low); quiet hours are an arc of the clock,
  and keep back no priority; choosing more channels only adds recipients; a listing
  has one record per product and misses none, with the longest title and one of its
  prices; a search brings all addresses up to its limit; no host under a domain of
  the catalogue is a new shop, and none is left out for a name that ends alike; a
  shop without an imprint is never trusted and no merit lowers a verdict.

These compare a verdict with those of other inputs or with a reference definition;
none repeats the rule.

**Proved** (second part of `WatchdogProofs`): `EveryReadingIsSound` and
`EveryChoiceIsSound`, of any inputs.  The assumptions of `Decisions` say what an
input is: pages with any availability words, any status, rating, title and price,
lists of any length, any words, hosts and registered domains of any number of
labels (a registered one has a dot, `AdaptersAssumption`; one of the catalogue is
not empty, `ShopsAssumption`), numbers with one group of thousands at most.  They
hold for what the code calls the rules with, and TLC evaluates them on the
instance.

A step decides one input, so the invariant is the two properties together
(`EverythingIsSound`), and all of the argument is in one lemma per rule,
`PageSound` to `SiteSound`:

* *Orders of signals* (pages, queue alarm, unlocker, verdicts) are split into the
  cases of the code; `PageSound` compares three pages in each, the one read, the
  one with a sold-out notice and the one without its button.
* *The first one that ...* (the availability word, the alternative, the unlocker's
  answer) and *the least* (prices) are minima of sets of numbers: `LeastFacts`,
  `FirstOfFacts`, `FirstHitOfMore`.
* *Domains* are sequences of labels: one ends another exactly if it is what is left
  after some labels (`SuffixFacts`), so the longest hit of `resolve_adapter` is the
  closest domain above the host.
* *Lists* are folds.  `FoldExists` shows that a fold is what it is said to be,
  `MergeWantedSteps` and `SearchHitsSteps` unroll it, and `PrefixInduction` carries
  along what holds of every prefix: that the records so far sum up the entries so
  far (`Lists`, kept by `MergeLists`), or that the hits so far are what the search
  should bring (`Brings`).
* *Numbers and hours* are arithmetic; the hours need the two cases of a window over
  midnight.

Nothing of `Decisions` is left to TLC alone.

Met while writing them down, where the code says less than one would like:

* The phrase tables are searched as substrings and have gaps.  Read as in stock
  are: at Amazon "nicht auf lager" without "derzeit" (it holds "auf lager"), and
  "nicht lieferbar" or "ausverkauft" beside a buy box; at Games Island "nicht
  lieferbar" (it holds the badge "lieferbar", and the badge table lacks what
  `detection.py:36` lists); at MediaMarkt and in the generic detection "nicht auf
  lager" beside a buy button; in the store finder "in 0 Märkten verfügbar", "nicht
  abholbereit" and the bare menu entry "Click & Collect".  `Misread` is this list.
* MediaMarkt's raw scan sets a status and leaves `readable` false
  (`mediamarkt_de.py`), so that the status is not remembered.
* An explicit slug ignores the watch's own choice of fetcher (`registry.py:68-73`,
  against `:85-90`).
* "1.299" without decimals is read as 1.30, by the keyword rules "1,299.00" too;
  both readers drop digits of five-digit amounts without a separator.
* A shop that takes prepayment only can still be "trusted".
* The unlocker's 501 and 505 and above, 520 to 529 among them, when they come with
  a body and without the upstream header, and any 5xx of the other two scraping
  APIs, are taken for the shop's and raise the queue alarm, the confusion that
  `fetchers.py:425-428` is about; `UnlockerIsSound` excepts those statuses.
* A waiting room of more than 8000 characters with none of the known words reads as
  the idle store.
* Excluded tokens such as "x.com" match inside other names.
* `detection.py:299-300` cannot be reached.


## 12. What the two tools cannot do here

TLC checks the bounds above and no more.  TLAPS proves nothing of liveness under
fairness or of `ENABLED`; `KeepsReminding`, `Recovers`, `OwedIsAnnounced`,
`SeenIsRemembered`, `CatalogServes`, `LastingFailureIsReported`,
`EnabledIsChecked`, `SweepsGetThrough` and `FoundIsKnown` rest on TLC.  Every other
property of a passing run is a theorem as well.

A theorem about every sequence needs induction, and the induction rule of the
library takes a predicate as its parameter, which the provers at hand cannot
instantiate.  `NatSetInduction` gets around it with a set in its place: the numbers
that fail have a least one, since `<` is well-founded on `Nat`.  What a RECURSIVE
operator computes stays out of reach; there is none.  Powers of two are a table
(`TwoTo`) or a doubled counter (`factor`).

The theorems assume what the `ASSUME`s of the modules say and what is named as a
premise in their statement.  TLC evaluates every assumption on the instances of the
runs.  Each is a range of a setting, says what an input is made of (section 11), or
says that two kinds of names differ; the two that carry an argument are
`MaxRetryTtl < NegativeTtl` (section 6) and `Retention >= Grace` (section 7), and
both hold with the code's numbers.  A theorem with a premise is about the instances
that satisfy it, as those of the runs do.

Every property has a mutant: a named faulty variant beside the definition it
replaces, under which the property fails in the same run.


## 13. What is not modelled

* Connections of the database pool.  Checks give theirs back before they fetch
  (`service.py:223-229`); hunts hold one through all their fetches
  (`discovery.py:343-384`), which bounds how many hunts the pool bears.  The pool
  has a timeout, so this can fail a handler and not stop the system.
* The megabyte budget of the proxy, the other two scraping APIs, the TLS client.
* The heartbeat, which counts rows and sends one event; reference prices of
  Cardmarket (`cardmarket.py:127-139` caches a failed request for six hours, too);
  e-mail and Telegram, which send once.
* Text: what of a page, a feed, a search result or a message becomes a signal, a
  product, an item or a word; formatting of events.
* Login, the dashboard's read-only pages, configuration, migrations, report and
  debug tools.

They either keep no state or are input and output of a single call.
