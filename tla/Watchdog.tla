------------------------------ MODULE Watchdog ------------------------------
(***************************************************************************)
(* The alarm about watches and scanners that stay broken: app/watchdog.py, *)
(* over the rows and the history the checks leave behind, with the nightly *)
(* pruning of that history (app/retention.py).                             *)
(*                                                                         *)
(* The watchdog runs as one job at most.  It reads the rows, then which    *)
(* watches succeeded within the grace period, updates what it remembers in *)
(* memory, marks what it is about to report as reported, and dispatches.   *)
(* The event names as many things as it has lines and counts the others.   *)
(* A restart forgets everything but the database.                          *)
(*                                                                         *)
(* Times are ages that saturate where the code stops telling them apart.   *)
(***************************************************************************)
EXTENDS Integers, FiniteSets

CONSTANTS
    Watches,      \* products watched; a success of theirs is looked up in the history
    Scans,        \* keyword scanners; only their last error is looked at
    Grace,        \* BROKEN_AFTER_SECONDS, in ticks
    Repeat,       \* REPEAT_AFTER_SECONDS
    Stable,       \* STABLE_FOR_SECONDS
    Retention,    \* settings.check_retention_days
    MaxListed,    \* MAX_LISTED
    MaxRestarts   \* bound on process restarts

Keys  == Watches \cup Scans
Never == -1       \* the key is not in the dictionary

ASSUME KeysAssumption == IsFiniteSet(Keys) /\ Watches \cap Scans = {}
ASSUME TimesAssumption == {Grace, Repeat, Stable} \subseteq Nat \ {0}
ASSUME RetentionAssumption == Retention \in Nat /\ Retention >= Grace
ASSUME BoundsAssumption == {MaxListed, MaxRestarts} \subseteq Nat

VARIABLES
    rows,      \* the committed rows: enabled, last_error set
    kept,      \* age of the newest successful check still in the history
    memory,    \* _failing_since, _alerted and _recovered_at of each key
    pc,        \* where the job stands
    failing,   \* the keys it found enabled with an error
    alarm,     \* the keys the event it is dispatching is about
    named,     \* those of them it names
    restarts,
    hist       \* observer: what really happened

job  == <<pc, failing, alarm, named>>
vars == <<rows, kept, memory, job, restarts, hist>>

Older == Grace + 1     \* no success within the grace period, or none kept
Entry == [since: {Never} \cup 0..Grace,
          alerted: {Never} \cup 0..Repeat,
          recovered: {Never} \cup 0..Stable]
Clean == [since |-> Never, alerted |-> Never, recovered |-> Never]

Aged(age, cap) == IF age = Never \/ age = cap THEN age ELSE age + 1

-----------------------------------------------------------------------------
(* What the watchdog makes of what it read.                                *)

\* A watch that succeeded within the grace period is not broken, whatever its
\* last check said.
RecentlyRead(w) == kept[w] <= Grace

Seen == {k \in failing : k \in Watches => ~RecentlyRead(k)}

\* Faulty variant: one good look is a recovery.
RecoverAtOnce(k) == IF k \in Seen THEN [memory[k] EXCEPT !.recovered = Never] ELSE Clean

\* One good look is not a recovery; Stable of them without a bad one are.
Recover(k) ==
    CASE k \in Seen -> [memory[k] EXCEPT !.recovered = Never]
      [] k \notin Seen /\ memory[k].recovered = Never -> [memory[k] EXCEPT !.recovered = 0]
      [] k \notin Seen /\ memory[k].recovered >= Stable -> Clean
      [] OTHER -> memory[k]

Remember(k) ==
    CASE memory[k].since # Never -> Recover(k)
      [] memory[k].since = Never /\ k \in Seen -> [memory[k] EXCEPT !.since = 0]
      [] OTHER -> memory[k]

\* collect_broken
Broken == {k \in Seen : Remember(k).since >= Grace}

\* Faulty variant: what was reported once is never due again.
DueOnce(k) == memory[k].alerted = Never

Due(k) == memory[k].alerted = Never \/ memory[k].alerted >= Repeat

\* build_alarm
Fresh == {k \in Broken : Due(k)}

\* fresh[:MAX_LISTED], watches before scanners and otherwise as the rows come.
FirstOf(due) ==
    {ks \in SUBSET due :
        /\ ks = due \/ Cardinality(ks) = MaxListed
        /\ Cardinality(ks) <= MaxListed
        /\ ks \cap Scans # {} => due \cap Watches \subseteq ks}

-----------------------------------------------------------------------------
(* Observer: how long the process is up, how long ago each watch was really *)
(* read, for how long the looks have found a key in order, and when it was   *)
(* last decided to report it, forgotten after Stable of such looks.          *)

NoteLook(found, reported) ==
    hist' = [hist EXCEPT
        !.calm = [k \in Keys |-> CASE k \in found -> Never
                                   [] k \notin found /\ @[k] = Never -> 0
                                   [] OTHER -> @[k]],
        !.last = [k \in Keys |-> CASE k \in reported -> 0
                                   [] k \notin found /\ hist.calm[k] = Stable -> Never
                                   [] OTHER -> @[k]]]

NoteTick ==
    hist' = [hist EXCEPT
        !.up = Aged(@, Grace),
        !.good = [w \in Watches |-> Aged(@[w], Older)],
        !.calm = [k \in Keys |-> Aged(@[k], Stable)],
        !.last = [k \in Keys |-> Aged(@[k], Repeat)]]

-----------------------------------------------------------------------------
Init ==
    /\ rows = [k \in Keys |-> [enabled |-> TRUE, error |-> FALSE]]
    /\ kept = [w \in Watches |-> Older]
    /\ memory = [k \in Keys |-> Clean]
    /\ pc = "idle"
    /\ failing = {}
    /\ alarm = {} /\ named = {}
    /\ restarts = 0
    /\ hist = [up |-> 0, good |-> [w \in Watches |-> Older],
               calm |-> [k \in Keys |-> Never], last |-> [k \in Keys |-> Never]]

\* A check of a watch commits its row and its history entry together.  A page
\* that could not be read sets last_error; the entry has no error when a status
\* came out, and that of a readable page without a status carries its note.
CheckWatch(w, error, success) ==
    /\ rows[w].enabled
    /\ rows' = [rows EXCEPT ![w].error = error]
    /\ kept' = [kept EXCEPT ![w] = IF success THEN 0 ELSE @]
    /\ hist' = [hist EXCEPT !.good[w] = IF success THEN 0 ELSE @]
    /\ UNCHANGED <<memory, job, restarts>>

RunScan(s, error) ==
    /\ rows[s].enabled
    /\ rows' = [rows EXCEPT ![s].error = error]
    /\ UNCHANGED <<kept, memory, job, restarts, hist>>

Toggle(k) ==
    /\ rows' = [rows EXCEPT ![k].enabled = ~@]
    /\ UNCHANGED <<kept, memory, job, restarts, hist>>

\* Faulty variant: successes within the grace period are deleted too.
PrunedAll == [w \in Watches |-> Older]

Pruned == [w \in Watches |-> IF kept[w] > Retention THEN Older ELSE kept[w]]

\* prune_old_rows
Prune ==
    /\ kept' = Pruned
    /\ UNCHANGED <<rows, memory, job, restarts, hist>>

\* The two queries for the rows.
Look ==
    /\ pc = "idle"
    /\ failing' = {k \in Keys : rows[k].enabled /\ rows[k].error}
    /\ pc' = "judging"
    /\ UNCHANGED <<rows, kept, memory, alarm, named, restarts, hist>>

\* What is reported is marked before it is sent, named or only counted.
MarkedMemory ==
    [k \in Keys |-> IF k \in Fresh THEN [Remember(k) EXCEPT !.alerted = 0] ELSE Remember(k)]

\* The query for recent successes, and from there to the event without a break.
Judge ==
    /\ pc = "judging"
    /\ memory' = MarkedMemory
    /\ alarm' = Fresh /\ named' \in FirstOf(Fresh)
    /\ pc' = IF Fresh = {} THEN "idle" ELSE "sending"
    /\ failing' = {}
    /\ NoteLook(Seen, Fresh)
    /\ UNCHANGED <<rows, kept, restarts>>

\* Faulty variant: the event is kept after it was sent.
SendAndKeep ==
    /\ pc = "sending"
    /\ pc' = "idle"
    /\ UNCHANGED <<rows, kept, memory, failing, alarm, named, restarts, hist>>

\* dispatch_event reaches somebody ...
Send ==
    /\ pc = "sending"
    /\ pc' = "idle"
    /\ alarm' = {} /\ named' = {}
    /\ UNCHANGED <<rows, kept, memory, failing, restarts, hist>>

\* ... or nobody, or raises; run_watchdog swallows that.
SendFails ==
    /\ pc = "sending"
    /\ pc' = "idle"
    /\ alarm' = {} /\ named' = {}
    /\ UNCHANGED <<rows, kept, memory, failing, restarts, hist>>

\* A query raises; run_watchdog swallows that too.
LookFails ==
    /\ pc = "judging"
    /\ pc' = "idle"
    /\ failing' = {}
    /\ UNCHANGED <<rows, kept, memory, alarm, named, restarts, hist>>

Restart ==
    /\ restarts < MaxRestarts
    /\ restarts' = restarts + 1
    /\ memory' = [k \in Keys |-> Clean]
    /\ pc' = "idle"
    /\ failing' = {}
    /\ alarm' = {} /\ named' = {}
    /\ hist' = [hist EXCEPT !.up = 0, !.calm = [k \in Keys |-> Never],
                              !.last = [k \in Keys |-> Never]]
    /\ UNCHANGED <<rows, kept>>

Tick ==
    /\ kept' = [w \in Watches |-> Aged(kept[w], Older)]
    /\ memory' = [k \in Keys |-> [since |-> Aged(memory[k].since, Grace),
                                  alerted |-> Aged(memory[k].alerted, Repeat),
                                  recovered |-> Aged(memory[k].recovered, Stable)]]
    /\ NoteTick
    /\ UNCHANGED <<rows, job, restarts>>

Next ==
    \/ \E w \in Watches, error \in BOOLEAN, success \in BOOLEAN : CheckWatch(w, error, success)
    \/ \E s \in Scans, error \in BOOLEAN : RunScan(s, error)
    \/ \E k \in Keys : Toggle(k)
    \/ Prune
    \/ Look
    \/ Judge
    \/ Send
    \/ SendFails
    \/ LookFails
    \/ Restart
    \/ Tick

\* The interval job runs on and its queries work at times; time passes.  An alarm
\* about one and the same thing, tried for ever, gets through now and then.
Fairness ==
    /\ WF_vars(Tick)
    /\ WF_vars(Look)
    /\ SF_vars(Judge)
    /\ WF_vars(Send \/ SendFails)
    /\ \A k \in Keys : SF_vars(Send /\ k \in alarm)

Spec == Init /\ [][Next]_vars
FairSpec == Spec /\ Fairness

-----------------------------------------------------------------------------
\* Values of the variables; an event is about a key exactly while it is being sent
\* (watchdog.py:123-163).
TypeOK ==
    /\ rows \in [Keys -> [enabled: BOOLEAN, error: BOOLEAN]]
    /\ kept \in [Watches -> 0..Older]
    /\ memory \in [Keys -> Entry]
    /\ pc \in {"idle", "judging", "sending"}
    /\ failing \subseteq Keys
    /\ alarm \subseteq Keys /\ named \subseteq alarm
    /\ (alarm # {}) <=> pc = "sending"
    /\ restarts \in 0..MaxRestarts
    /\ hist \in [up: 0..Grace, good: [Watches -> 0..Older],
                 calm: [Keys -> {Never} \cup 0..Stable], last: [Keys -> {Never} \cup 0..Repeat]]

\* An alarm is about nothing that the process has not been looking at for the whole
\* grace period, and no watch that was really read within it, however little of
\* the history is kept and however the last check went (watchdog.py:87-95, 34-46).
AlarmIsHonest ==
    [][\A k \in alarm' \ alarm :
        /\ hist.up >= Grace
        /\ k \in Watches => hist.good[k] > Grace]_vars

\* Within one process the same thing is reported at most once per Repeat, however
\* often it passes and fails in between, unless every look of a stretch of Stable
\* found it in order (watchdog.py:48-54, 63-65, 106-114).
AlarmsPaced ==
    [][\A k \in alarm' \ alarm : hist.last[k] \in {Never, Repeat}]_vars

\* k is enabled, failing and, if it is a watch, long unread.
Stuck(k) ==
    /\ rows[k].enabled /\ rows[k].error
    /\ k \in Watches => hist.good[k] > Grace

\* At no time does more fail than an alarm has lines for.
RoomForAll == Cardinality({k \in Keys : rows[k].enabled /\ rows[k].error}) <= MaxListed

\* What stays broken, enabled and unread for good is reported again and again,
\* although a report that failed was marked as made and a restart starts the
\* grace period anew.  Reported means counted; by name it is told only if an alarm
\* has room for all that fails: beyond MAX_LISTED the same things may stay one of
\* "und N weitere" for ever, marked like the named ones (watchdog.py:123-163).
LastingFailureIsReported ==
    \A k \in Keys :
        <>[]Stuck(k) =>
            /\ []<><<Send /\ k \in alarm>>_vars
            /\ <>[]RoomForAll => []<><<Send /\ k \in named>>_vars
=============================================================================
