----------------------------- MODULE WatchCheck -----------------------------
(***************************************************************************)
(* The check pipeline of one watch: app/monitor/service.py, with the       *)
(* dashboard handlers of app/web/routes.py that write the same row.        *)
(*                                                                         *)
(* A check is a coroutine with a database session of its own.  It loads    *)
(* the row, hands the connection back, fetches for seconds to minutes, and *)
(* only then decides and writes.  The scheduled job (one instance at most),*)
(* the "check now" button and the "check all" sweep do this independently  *)
(* of each other, and the watch form writes the row in between.            *)
(*                                                                         *)
(* SQLAlchemy writes the columns whose value differs from the one that was *)
(* loaded and no others; Flush is that rule.  last_check_at and            *)
(* last_notified_at get a fresh time stamp and so are always written.      *)
(*                                                                         *)
(* Time is kept as ages: the row and the sessions hold how long ago the    *)
(* last alert was stamped, saturating at AgeCap.  The code compares that   *)
(* age with the cooldown and the reminder interval and does nothing else   *)
(* with it, so nothing is lost and the model needs no bound on time.       *)
(***************************************************************************)
EXTENDS Integers, FiniteSets

CONSTANTS
    Checkers,      \* coroutines that can run check_watch on this watch
    Scheduled,     \* those started through check_watch_by_id
    Cooldown,      \* watch.cooldown_seconds, in ticks
    ReminderGap,   \* settings.restock_reminder_seconds, in ticks
    Reminders,     \* settings.restock_reminders: -1 unlimited, 0 off, n at most n
    Prices,        \* prices a shop page can show
    Targets,       \* price targets the form can set
    PageFaults,    \* which bad answers a shop can give, a subset of FaultKinds
    FormChanges,   \* what the operator does in the forms, a subset of ChangeKinds
    MaxCrashes     \* bound on process restarts

Never   == -1      \* last_notified_at IS NULL
NoPrice == 0       \* result.price is None
NoTarget == 0      \* watch.price_target is None

FaultKinds  == {"error", "partial", "priced_partial", "unsure"}
ChangeKinds == {"opt_in", "target", "first_seen", "toggle", "delete"}
Statuses    == {"IN_STOCK", "OUT_OF_STOCK", "UNKNOWN"}
Shelves     == {"absent", "sold_out", "in_stock"}
StockAlerts == {"new_listing", "restock", "reminder"}
EventKinds  == StockAlerts \cup {"none", "price_drop"}

AgeCap == IF Cooldown > ReminderGap THEN Cooldown ELSE ReminderGap
ReminderCap == IF Reminders >= 0 THEN Reminders ELSE 1
Ages == {Never} \cup 0..AgeCap

ASSUME CheckersAssumption == Scheduled \subseteq Checkers
ASSUME TimesAssumption == Cooldown \in Nat /\ ReminderGap \in Nat
ASSUME RemindersAssumption == Reminders \in Int /\ Reminders >= -1
ASSUME PricesAssumption == Prices \subseteq Nat \ {0} /\ Targets \subseteq Nat \ {0}
ASSUME ScopeAssumption ==
    /\ PageFaults \subseteq FaultKinds
    /\ FormChanges \subseteq ChangeKinds
    /\ MaxCrashes \in Nat

VARIABLES
    db,        \* the committed row of the watch
    alive,     \* the row has not been deleted
    pc,        \* where each check stands
    loaded,    \* the row as each session last read or wrote it
    cur,       \* the row as each session holds it now
    result,    \* the reading each check has brought back
    event,     \* the alert each check has decided to send
    overtaken, \* observer: checks under way when another stamped its alert
    form,      \* the row as the form handler loaded it, while it runs
    formOpen,  \* a form handler stands between its load and its commit
    shelf,     \* what the shop really has
    price,     \* what the shop really asks
    crashes,
    hist       \* observer: what really happened since the last alert

vars == <<db, alive, pc, loaded, cur, result, event, overtaken, form, formOpen,
          shelf, price, crashes, hist>>
checks == <<pc, loaded, cur, result, event, overtaken>>
shop   == <<shelf, price>>
dialog == <<form, formOpen>>

Row == [enabled: BOOLEAN, checked: BOOLEAN, listing_seen: BOOLEAN,
        last_status: Statuses, notified_age: Ages, reminders_sent: 0..ReminderCap,
        price_target: Targets \cup {NoTarget}, price_target_hit: BOOLEAN,
        notify_on_first_seen: BOOLEAN]

\* A watch as create_watch or seed_watches inserts it.
NewRow(optIn, target) ==
    [enabled |-> TRUE, checked |-> FALSE, listing_seen |-> FALSE,
     last_status |-> "UNKNOWN", notified_age |-> Never, reminders_sent |-> 0,
     price_target |-> target, price_target_hit |-> FALSE,
     notify_on_first_seen |-> optIn]

NoRow == NewRow(FALSE, NoTarget)

Reading == [status: Statuses, listed: BOOLEAN, readable: BOOLEAN,
            price: Prices \cup {NoPrice}]

-----------------------------------------------------------------------------
(* What a fetch can bring back.                                            *)

Truth ==
    IF shelf = "absent"
    THEN [status |-> "UNKNOWN", listed |-> FALSE, readable |-> TRUE, price |-> NoPrice]
    ELSE [status |-> IF shelf = "in_stock" THEN "IN_STOCK" ELSE "OUT_OF_STOCK",
          listed |-> TRUE, readable |-> TRUE, price |-> price]

\* A page without any stock signal.  detect_stock passes on the price it may
\* have found, leaves listed at its default and clears readable.
Partial(p) == [status |-> "UNKNOWN", listed |-> TRUE, readable |-> FALSE, price |-> p]

\* A verdict "unknown" by an adapter (bot wall, 403): readable by default.
Unsure == [status |-> "UNKNOWN", listed |-> TRUE, readable |-> TRUE, price |-> NoPrice]

\* What a check holds before a fetch, and after one that failed.
NoReading == [status |-> "UNKNOWN", listed |-> FALSE, readable |-> FALSE, price |-> NoPrice]

Readings ==
    {Truth}
    \cup (IF "partial" \in PageFaults THEN {Partial(NoPrice)} ELSE {})
    \cup (IF "priced_partial" \in PageFaults /\ shelf # "absent" THEN {Partial(price)} ELSE {})
    \cup (IF "unsure" \in PageFaults THEN {Unsure} ELSE {})

-----------------------------------------------------------------------------
(* evaluate_transition and evaluate_price_target.                          *)

\* Faulty variant: the cooldown ends one tick early.
CoolingDownShort(w) == w.notified_age # Never /\ w.notified_age + 1 < Cooldown

CoolingDown(w) == w.notified_age # Never /\ w.notified_age < Cooldown

NewListingDue(w, r) ==
    /\ r.listed /\ ~w.listing_seen
    /\ w.checked \/ (w.notify_on_first_seen /\ r.status = "IN_STOCK")

RestockDue(w, r) ==
    /\ r.status = "IN_STOCK" /\ w.listing_seen
    /\ w.last_status \in {"OUT_OF_STOCK", "UNKNOWN"}
    /\ ~CoolingDown(w)

\* Faulty variants: one reminder too many; -1 taken for a limit.
RemindersLeftOnceMore(w) == Reminders >= 0 => w.reminders_sent <= Reminders
RemindersLeftBelow(w) == w.reminders_sent < Reminders

RemindersLeft(w) == Reminders >= 0 => w.reminders_sent < Reminders

ReminderDue(w, r) ==
    /\ r.status = "IN_STOCK" /\ w.listing_seen
    /\ w.last_status = "IN_STOCK"
    /\ RemindersLeft(w)
    /\ w.notified_age # Never /\ w.notified_age >= ReminderGap

AtTarget(w, r) ==
    w.price_target # NoTarget /\ r.price # NoPrice /\ r.price <= w.price_target

PriceDropDue(w, r) ==
    AtTarget(w, r) /\ r.status = "IN_STOCK" /\ ~w.price_target_hit

EvaluateTransition(w, r) ==
    CASE NewListingDue(w, r) -> "new_listing"
      [] RestockDue(w, r)    -> "restock"
      [] ReminderDue(w, r)   -> "reminder"
      [] OTHER               -> "none"

Decide(w, r) ==
    LET transition == EvaluateTransition(w, r)
    IN  IF transition = "none" /\ PriceDropDue(w, r) THEN "price_drop" ELSE transition

\* Faulty variant: a stock alert does not arm the target.
TargetHitByPriceOnly(w, r) ==
    IF EvaluateTransition(w, r) # "none" \/ w.price_target = NoTarget \/ r.price = NoPrice
    THEN w.price_target_hit
    ELSE AtTarget(w, r) /\ r.status = "IN_STOCK"

\* A stock alert shows the price and so arms the target; without one the
\* target is hit or re-armed by every priced reading.
TargetHitAfter(w, r) ==
    IF EvaluateTransition(w, r) # "none"
    THEN w.price_target_hit \/ AtTarget(w, r)
    ELSE IF w.price_target = NoTarget \/ r.price = NoPrice
         THEN w.price_target_hit
         ELSE AtTarget(w, r) /\ r.status = "IN_STOCK"

\* Without a limit nobody asks how many there were.
CountReminder(n) == IF Reminders < 0 THEN 1 ELSE n + 1

\* Faulty variant: an unreadable page re-arms the reminders.
RemindersAfterAnyPage(w, r) ==
    IF Decide(w, r) = "reminder" THEN CountReminder(w.reminders_sent)
    ELSE IF r.status # "IN_STOCK" THEN 0 ELSE w.reminders_sent

RemindersAfter(w, r) ==
    IF Decide(w, r) = "reminder" THEN CountReminder(w.reminders_sent)
    ELSE IF r.status # "IN_STOCK" /\ r.readable THEN 0 ELSE w.reminders_sent

\* Faulty variant: an unreadable page becomes the baseline.
StatusAfterAnyPage(w, r) == r.status

StatusAfter(w, r) == IF r.readable THEN r.status ELSE w.last_status

SeenAfter(w, r) == w.listing_seen \/ r.listed

\* _apply_result, after the counters check_watch itself has set.
ApplyResult(w, r) ==
    [w EXCEPT !.checked = TRUE,
              !.last_status = StatusAfter(w, r),
              !.listing_seen = SeenAfter(w, r),
              !.reminders_sent = RemindersAfter(w, r),
              !.price_target_hit = TargetHitAfter(w, r)]

-----------------------------------------------------------------------------
(* The unit of work of a SQLAlchemy session.                               *)

\* Faulty variant: every column is written, as a whole-row save would.
FlushWholeRow(row, old, new, stamped) == new

\* Columns assigned a new time stamp are written whatever they held before.
Flush(row, old, new, stamped) ==
    [f \in DOMAIN row |-> IF f \in stamped \/ new[f] # old[f] THEN new[f] ELSE row[f]]

\* _apply_watch_form on the fields this pipeline reads.
ApplyForm(w, target, optIn) ==
    LET rearm == optIn /\ ~w.notify_on_first_seen
    IN  [w EXCEPT !.price_target = target,
                  !.price_target_hit = IF target # w.price_target THEN FALSE ELSE @,
                  !.notify_on_first_seen = optIn,
                  !.listing_seen = IF rearm THEN FALSE ELSE @,
                  !.checked = IF rearm THEN FALSE ELSE @]

-----------------------------------------------------------------------------
(* Observer: facts about the checks and readings, never read by a guard.   *)

UnderWay == {c \in Checkers : pc[c] # "idle"}

NoteBegin(c) == hist' = [hist EXCEPT !.stale = @ \ {c}]

\* The page said what the shop has: in stock, sold out, or nothing listed there.
IsVerdict(r) == r.readable /\ (r.status # "UNKNOWN" \/ ~r.listed)

\* What the recorded checks know of the listing: that there was none; that there
\* is one; or nothing, since the first check to end had failed.
ListingAfter(known, r) ==
    IF known \in {"blind", "unlisted"} THEN known
    ELSE IF r.listed THEN "listed"
    ELSE IF r.readable THEN "unlisted"
    ELSE IF known = "unread" THEN "blind" ELSE known

\* What check c recorded: r was read and e decided, on the row w.  A check
\* that began before the target moved says nothing of the new target.
NoteRecord(c, w, r, e) ==
    hist' = [hist EXCEPT
        !.verdict = IF IsVerdict(r) THEN r.status ELSE @,
        !.walled = ~IsVerdict(r) /\ (@ \/ r.readable),
        !.listing = ListingAfter(@, r),
        !.streak = IF r.readable /\ r.status # "IN_STOCK" THEN 0 ELSE @,
        !.dip_left = IF e # "none" /\ AtTarget(w, r) /\ c \notin hist.stale THEN FALSE
                     ELSE @ \/ (r.readable /\ r.price # NoPrice
                                /\ ~(r.status = "IN_STOCK" /\ AtTarget(w, r)))]

\* A stamp overtakes every other check that is under way.
NoteStamp(c, e) ==
    /\ hist' = [hist EXCEPT !.streak = IF e = "reminder" THEN CountReminder(@) ELSE @]
    /\ overtaken' = overtaken \cup (UnderWay \ {c})

\* Ticking the first-seen box takes the baseline back, and the next check is the
\* silent one again, unless a check under way records itself as that one.
NoteForm(new) ==
    LET retargeted == new.price_target # form.price_target
        ticked     == new.notify_on_first_seen /\ ~form.notify_on_first_seen
    IN  hist' = [hist EXCEPT
            !.dip_left = @ \/ retargeted,
            !.stale = IF retargeted THEN UnderWay ELSE @,
            !.listing = IF ~ticked THEN @
                        ELSE IF db'.checked \/ UnderWay # {} THEN "blind" ELSE "unread"]

-----------------------------------------------------------------------------
Init ==
    /\ \E optIn \in (IF "opt_in" \in FormChanges THEN BOOLEAN ELSE {FALSE}),
          target \in Targets \cup {NoTarget} : db = NewRow(optIn, target)
    /\ alive = TRUE
    /\ pc = [c \in Checkers |-> "idle"]
    /\ loaded = [c \in Checkers |-> NoRow]
    /\ cur = [c \in Checkers |-> NoRow]
    /\ result = [c \in Checkers |-> NoReading]
    /\ event = [c \in Checkers |-> "none"]
    /\ overtaken = {}
    /\ form = NoRow
    /\ formOpen = FALSE
    /\ shelf \in Shelves
    /\ price \in Prices
    /\ crashes = 0
    /\ hist = [verdict |-> "never", walled |-> FALSE, listing |-> "unread",
               streak |-> 0, dip_left |-> TRUE, stale |-> {}]

\* check_watch_by_id gives up on a disabled watch; "check now" does not look.
Begin(c) ==
    /\ pc[c] = "idle"
    /\ alive
    /\ c \in Scheduled => db.enabled
    /\ pc' = [pc EXCEPT ![c] = "fetching"]
    /\ loaded' = [loaded EXCEPT ![c] = db]
    /\ cur' = [cur EXCEPT ![c] = db]
    /\ NoteBegin(c)
    /\ UNCHANGED <<db, alive, result, event, overtaken, dialog, shop, crashes>>

\* The fetch is over: decide on the row as it was loaded, and apply.
Evaluate(c, r) ==
    /\ pc[c] = "fetching"
    /\ cur' = [cur EXCEPT ![c] = ApplyResult(@, r)]
    /\ event' = [event EXCEPT ![c] = Decide(cur[c], r)]
    /\ result' = [result EXCEPT ![c] = r]
    /\ pc' = [pc EXCEPT ![c] = "recording"]
    /\ UNCHANGED <<db, alive, loaded, overtaken, dialog, shop, crashes, hist>>

\* An AdapterError, or any other exception: only the time of the check moves.
FetchFails(c) ==
    /\ pc[c] = "fetching"
    /\ "error" \in PageFaults
    /\ cur' = [cur EXCEPT ![c].checked = TRUE]
    /\ pc' = [pc EXCEPT ![c] = "recording"]
    /\ UNCHANGED <<db, alive, loaded, result, event, overtaken, dialog, shop, crashes, hist>>

Stop(c) ==
    /\ pc' = [pc EXCEPT ![c] = "idle"]
    /\ loaded' = [loaded EXCEPT ![c] = NoRow]
    /\ cur' = [cur EXCEPT ![c] = NoRow]
    /\ result' = [result EXCEPT ![c] = NoReading]
    /\ event' = [event EXCEPT ![c] = "none"]
    /\ overtaken' = overtaken \ {c}

\* The first commit: the reading, and the check that is now history.
Record(c) ==
    /\ pc[c] = "recording" /\ alive
    /\ db' = Flush(db, loaded[c], cur[c], {"checked"})
    /\ IF event[c] = "none"
       THEN Stop(c)
       ELSE /\ pc' = [pc EXCEPT ![c] = "stamping"]
            /\ loaded' = [loaded EXCEPT ![c] = cur[c]]
            /\ UNCHANGED <<cur, result, event, overtaken>>
    /\ NoteRecord(c, cur[c], result[c], event[c])
    /\ UNCHANGED <<alive, dialog, shop, crashes>>

\* The second commit: last_notified_at, before anything is sent.
Stamp(c) ==
    /\ pc[c] = "stamping" /\ alive
    /\ cur' = [cur EXCEPT ![c].notified_age = 0]
    /\ db' = Flush(db, loaded[c], cur'[c], {"notified_age"})
    /\ pc' = [pc EXCEPT ![c] = "sending"]
    /\ NoteStamp(c, event[c])
    /\ UNCHANGED <<alive, loaded, result, event, dialog, shop, crashes>>

\* dispatch_event never raises for a notifier's failure; see Dispatch.
Send(c) ==
    /\ pc[c] = "sending"
    /\ Stop(c)
    /\ UNCHANGED <<db, alive, dialog, shop, crashes, hist>>

\* Writing a row that is gone raises StaleDataError out of check_watch.
Abandon(c) ==
    /\ pc[c] \in {"recording", "stamping"} /\ ~alive
    /\ Stop(c)
    /\ UNCHANGED <<db, alive, dialog, shop, crashes, hist>>

-----------------------------------------------------------------------------
(* The dashboard.                                                          *)

OpenForm ==
    /\ FormChanges # {} /\ alive /\ ~formOpen
    /\ form' = db
    /\ formOpen' = TRUE
    /\ UNCHANGED <<db, alive, checks, shop, crashes, hist>>

CloseForm == formOpen' = FALSE /\ form' = NoRow

Save(new) ==
    /\ formOpen
    /\ db' = IF alive THEN Flush(db, form, new, {}) ELSE db
    /\ NoteForm(new)
    /\ CloseForm
    /\ UNCHANGED <<alive, checks, shop, crashes>>

UpdateWatch ==
    \E target \in (IF "target" \in FormChanges THEN Targets \cup {NoTarget}
                   ELSE {form.price_target}),
       optIn \in (IF "first_seen" \in FormChanges THEN BOOLEAN
                  ELSE {form.notify_on_first_seen}) :
        Save(ApplyForm(form, target, optIn))

ToggleWatch ==
    /\ "toggle" \in FormChanges
    /\ Save([form EXCEPT !.enabled = ~@])

DeleteWatch ==
    /\ "delete" \in FormChanges /\ formOpen
    /\ alive' = FALSE
    /\ CloseForm
    /\ UNCHANGED <<db, checks, shop, crashes, hist>>

-----------------------------------------------------------------------------
(* The world.                                                              *)

ShopMoves ==
    /\ shelf' \in Shelves /\ price' \in Prices
    /\ shop' # shop
    /\ UNCHANGED <<db, alive, checks, dialog, crashes, hist>>

Older(a) == IF a = Never \/ a = AgeCap THEN a ELSE a + 1
AgeRow(w) == [w EXCEPT !.notified_age = Older(@)]

Tick ==
    /\ db' = AgeRow(db)
    /\ loaded' = [c \in Checkers |-> AgeRow(loaded[c])]
    /\ cur' = [c \in Checkers |-> AgeRow(cur[c])]
    /\ form' = AgeRow(form)
    /\ UNCHANGED <<alive, pc, result, event, overtaken, formOpen, shop, crashes, hist>>

\* The process dies and comes back: sessions are gone, the row is not.
Crash ==
    /\ crashes < MaxCrashes
    /\ crashes' = crashes + 1
    /\ pc' = [c \in Checkers |-> "idle"]
    /\ loaded' = [c \in Checkers |-> NoRow]
    /\ cur' = [c \in Checkers |-> NoRow]
    /\ result' = [c \in Checkers |-> NoReading]
    /\ event' = [c \in Checkers |-> "none"]
    /\ overtaken' = {}
    /\ CloseForm
    /\ UNCHANGED <<db, alive, shop, hist>>

-----------------------------------------------------------------------------
Check(c) ==
    \/ Begin(c) \/ FetchFails(c) \/ Record(c) \/ Stamp(c) \/ Send(c) \/ Abandon(c)
    \/ \E r \in Readings : Evaluate(c, r)

Dashboard == OpenForm \/ UpdateWatch \/ ToggleWatch \/ DeleteWatch

Next == (\E c \in Checkers : Check(c)) \/ Dashboard \/ ShopMoves \/ Tick \/ Crash

Spec == Init /\ [][Next]_vars

\* The interval job comes back, sessions make progress, clocks run, and a shop
\* that is asked for ever answers truthfully every now and then.
Fairness ==
    /\ WF_vars(Tick)
    /\ \A c \in Scheduled :
        /\ WF_vars(Begin(c)) /\ WF_vars(Record(c)) /\ WF_vars(Stamp(c))
        /\ WF_vars(Send(c)) /\ WF_vars(Abandon(c))
        /\ SF_vars(Evaluate(c, Truth))

FairSpec == Spec /\ Fairness

-----------------------------------------------------------------------------
(* Correctness.                                                            *)

HistRecord == [verdict: Statuses \cup {"never"}, walled: BOOLEAN,
               listing: {"unread", "blind", "listed", "unlisted"}, streak: Nat,
               dip_left: BOOLEAN, stale: SUBSET Checkers]

Places == {"idle", "fetching", "recording", "stamping", "sending"}

\* Every variable keeps its type: the row, the rows the sessions hold, the
\* place of each check and the facts the observer collects.
TypeOK ==
    /\ db \in Row
    /\ alive \in BOOLEAN
    /\ pc \in [Checkers -> Places]
    /\ loaded \in [Checkers -> Row]
    /\ cur \in [Checkers -> Row]
    /\ result \in [Checkers -> Reading]
    /\ event \in [Checkers -> EventKinds]
    /\ overtaken \subseteq Checkers
    /\ form \in Row
    /\ formOpen \in BOOLEAN
    /\ shelf \in Shelves
    /\ price \in Prices
    /\ crashes \in 0..MaxCrashes
    /\ hist \in HistRecord

\* c commits its reading, and with it the decision to alert.
Decides(c, kind) == pc[c] = "recording" /\ pc'[c] = "stamping" /\ event[c] = kind

\* c commits the time of its alert; nothing keeps the alert back any more.
Commits(c, kind) == pc[c] = "stamping" /\ pc'[c] = "sending" /\ event[c] = kind

\* However many checks of the watch overlap - the job, "check now" and the sweep
\* do - an alert keeps the cooldown, or the reminder interval, to the alert
\* stamped last, unless that one was stamped by another check after this one had
\* loaded the row: minutes pass between evaluate_transition's look at
\* last_notified_at and the next stamp, and nothing looks again (check_watch).  So
\* within one cooldown there is at most one alert per check that was under way.
AlertsPaced ==
    [][\A c \in Checkers \ overtaken :
         /\ Commits(c, "restock") =>
              db.notified_age = Never \/ db.notified_age >= Cooldown
         /\ Commits(c, "reminder") => db.notified_age >= ReminderGap]_vars

\* RESTOCK_REMINDERS caps the repeats of one streak: since the last page that
\* was readable and did not show the product in stock, whatever unreadable
\* pages, failed fetches and restarts came in between (_apply_result).  An
\* adapter's "unknown" counts as readable, and so re-arms the reminders.
RemindersCapped == Reminders >= 0 => hist.streak <= Reminders

\* A restock is a change of the shop's word: the last page with a verdict did not
\* show the product in stock.  _apply_result keeps last_status over a partial
\* page for this reason.  It does not keep it over an adapter's "unknown" (bot
\* wall, 403), so the one exception is a product seen behind such a page: that
\* is announced as back, though the adapters say "never as a stock transition".
NoPhantomRestock ==
    [][\A c \in Checkers : Decides(c, "restock") =>
         hist.verdict # "IN_STOCK" \/ hist.walled]_vars

\* New is what an earlier check found not listed.  The first page of a product
\* the shop lists is a silent baseline, except in stock and by a watch that asked
\* for it (notify_on_first_seen), and except after a first check that failed: it
\* counts as the silent one, though nothing was read.  (A check under way when the
\* first-seen box takes the baseline back counts as that one, too.)
SilentBaseline ==
    [][\A c \in Checkers : Decides(c, "new_listing") =>
         \/ hist.listing \in {"unlisted", "blind"}
         \/ cur[c].notify_on_first_seen /\ result[c].status = "IN_STOCK"]_vars

\* Both: what the shop did not change is not told as news (evaluate_transition),
\* but for the wall and the failed first check, exactly.
NewsIsNews == NoPhantomRestock /\ SilentBaseline

\* The price alert fires once per dip: between two alerts that show a price at
\* or below the target, a readable page showed otherwise or the target moved.
PriceAlertPerDip ==
    [][\A c \in Checkers : Decides(c, "price_drop") => hist.dip_left]_vars

\* A check that runs for minutes never takes back what the operator saved in
\* the meantime: it writes no column it did not change.
OperatorFieldsKept ==
    [][(\E c \in Checkers : pc'[c] # pc[c]) =>
         /\ db'.enabled = db.enabled
         /\ db'.price_target = db.price_target
         /\ db'.notify_on_first_seen = db.notify_on_first_seen]_vars

\* Once a product was seen listed, no check started earlier, no crash and no form
\* that was opened before makes it new again: only ticking the first-seen box does.
ListingStaysSeen ==
    [][db.listing_seen /\ ~db'.listing_seen =>
         ~form.notify_on_first_seen /\ db'.notify_on_first_seen]_vars

\* However many sessions write the row, and however stale they are, the time
\* of the last alert only ever moves to now: no commit makes it look older or
\* unset, which would lift the cooldown and stop the reminders.
LastAlertNotForgotten ==
    [][db'.notified_age \in {db.notified_age, 0} \/ db' = AgeRow(db)]_vars

\* All three: what one stale session writes undoes nothing that others have
\* committed while it was fetching (check_watch, update_watch).
StaleWritesHarmless == OperatorFieldsKept /\ ListingStaysSeen /\ LastAlertNotForgotten

AvailableForGood == <>[](shelf = "in_stock" /\ alive /\ db.enabled)

\* The operator is done with the "already available" box, which takes the
\* baseline back every time it is ticked.
OptInSettled == \E b \in BOOLEAN : <>[](db.notify_on_first_seen = b)

\* A product that stays in stock is alerted again and again once an alert of
\* this watch was ever stamped, through every crash (RESTOCK_REMINDERS = -1).
KeepsReminding ==
    AvailableForGood /\ OptInSettled /\ <>(db.notified_age # Never)
        => []<>(\E c \in Checkers : pc[c] = "sending")
=============================================================================
