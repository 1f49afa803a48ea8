---------------------------- MODULE KeywordPinger ----------------------------
(***************************************************************************)
(* Pings on keyword hits in Discord messages: app/keyword_pinger.py, over  *)
(* the dispatch of every ping to its channels.                             *)
(*                                                                         *)
(* Every message is handled by a coroutine of its own.  It loads the       *)
(* enabled alerts, then the block list, then goes through the alerts: one  *)
(* that matches and has not seen this text within the window counts a hit, *)
(* waits for its delay and dispatches a ping.  After the last of them come *)
(* the direct messages, with a button that blocks the link.                *)
(*                                                                         *)
(* Nothing in the program starts the listener or edits alerts yet: who     *)
(* sends messages and presses buttons is taken from the callbacks.  The    *)
(* counters on an alert's row (hits, last_hit_at) are left out: nothing    *)
(* reads them.                                                             *)
(***************************************************************************)
EXTENDS Dispatch

CONSTANTS
    Alerts,       \* enabled keyword alerts
    Messages,     \* what can be posted
    Text,         \* message -> the fingerprint of its text
    Link,         \* message -> the shop link of its embed
    HitBy,        \* message -> the alerts whose rules it meets
    Cut,          \* link -> what is left of it in the id of a button
    Window,       \* DUPLICATE_WINDOW_SECONDS, in ticks
    MaxMessages,  \* bound on messages
    MaxRestarts   \* bound on process restarts

Texts == {Text[m] : m \in Messages}
Links == {Link[m] : m \in Messages} \cup {Cut[Link[m]] : m \in Messages}
Never == -1
None  == "none"

ASSUME WindowAssumption == Window \in Nat \ {0}
ASSUME HitByAssumption == HitBy \in [Messages -> SUBSET Alerts]
ASSUME BoundsAssumption == MaxMessages \in Nat /\ MaxRestarts \in Nat

VARIABLES
    blocked,   \* BlockedUrl rows
    buttons,   \* links with a block button under a direct message
    recent,    \* age of each entry of _recent
    pc,        \* where each coroutine stands
    msg,       \* its message
    todo,      \* alerts it has not come to
    current,   \* the alert it pings for
    fired,     \* alerts it owes a direct message
    posted,    \* messages so far
    restarts,
    hist       \* observer

handler == <<pc, msg, todo, current, fired>>
vars == <<dispatch, blocked, buttons, recent, handler, posted, restarts, hist>>

Ages   == {Never} \cup 0..(Window + 1)
Age(n) == IF n = Never \/ n > Window THEN n ELSE n + 1

-----------------------------------------------------------------------------
(* Observer: how long ago each alert met each text, which links were on the *)
(* list when a message came, and the hits that have neither a row nor a     *)
(* direct message yet.                                                      *)

OwedBy(who) == {o \in hist.owed : o[1] \in who}

NoteArrival(s) == hist' = [hist EXCEPT !.listed[s] = blocked]
NoteMet(s, a, hit) ==
    hist' = [hist EXCEPT
        !.met[a][Text[msg[s]]] = 0,
        !.owed = IF hit THEN @ \cup {<<s, a, "row">>, <<s, a, "message">>} ELSE @]
NoteLost(who) == hist' = [hist EXCEPT !.owed = @ \ OwedBy(who)]

-----------------------------------------------------------------------------
Init ==
    /\ InitDispatch
    /\ blocked = {} /\ buttons = {}
    /\ recent = [a \in Alerts |-> [t \in Texts |-> Never]]
    /\ pc = [s \in Senders |-> "idle"]
    /\ msg = [s \in Senders |-> None]
    /\ todo = [s \in Senders |-> {}]
    /\ current = [s \in Senders |-> None]
    /\ fired = [s \in Senders |-> {}]
    /\ posted = 0 /\ restarts = 0
    /\ hist = [met |-> [a \in Alerts |-> [t \in Texts |-> Never]],
               listed |-> [s \in Senders |-> {}],
               owed |-> {}]

\* A message comes in and the enabled alerts are loaded.
Arrive(s, m) ==
    /\ pc[s] = "idle" /\ posted < MaxMessages
    /\ posted' = posted + 1
    /\ pc' = [pc EXCEPT ![s] = "loaded"]
    /\ msg' = [msg EXCEPT ![s] = m]
    /\ todo' = [todo EXCEPT ![s] = HitBy[m]]
    /\ NoteArrival(s)
    /\ UNCHANGED <<dispatch, blocked, buttons, recent, current, fired, restarts>>

IsBlocked(s) == Link[msg[s]] \in blocked

Idle(s) ==
    /\ pc' = [pc EXCEPT ![s] = "idle"]
    /\ msg' = [msg EXCEPT ![s] = None]
    /\ todo' = [todo EXCEPT ![s] = {}]
    /\ current' = [current EXCEPT ![s] = None]
    /\ fired' = [fired EXCEPT ![s] = {}]

CheckBlocked(s) ==
    /\ pc[s] = "loaded"
    /\ IF IsBlocked(s)
       THEN Idle(s)
       ELSE /\ pc' = [pc EXCEPT ![s] = "matching"]
            /\ UNCHANGED <<msg, todo, current, fired>>
    /\ UNCHANGED <<dispatch, blocked, buttons, recent, posted, restarts, hist>>

Repeated(a, t) == recent[a][t] \in 0..Window

\* Faulty variant: a repeat does not renew the entry.
RememberFirst(a, t) == IF Repeated(a, t) THEN recent ELSE [recent EXCEPT ![a][t] = 0]

\* is_duplicate: every look renews the entry, and the old ones are dropped.
Remember(a, t) ==
    [b \in Alerts |-> [u \in Texts |->
        CASE b = a /\ u = t -> 0
          [] ~(b = a /\ u = t) /\ recent[b][u] > Window -> Never
          [] OTHER -> recent[b][u]]]

\* The next alert that matches: the same text again, or a hit.
Repeat(s, a) ==
    /\ pc[s] = "matching" /\ a \in todo[s]
    /\ Repeated(a, Text[msg[s]])
    /\ recent' = Remember(a, Text[msg[s]])
    /\ todo' = [todo EXCEPT ![s] = @ \ {a}]
    /\ NoteMet(s, a, FALSE)
    /\ UNCHANGED <<dispatch, blocked, buttons, pc, msg, current, fired,
                   posted, restarts>>

Hit(s, a) ==
    /\ pc[s] = "matching" /\ a \in todo[s]
    /\ ~Repeated(a, Text[msg[s]])
    /\ recent' = Remember(a, Text[msg[s]])
    /\ todo' = [todo EXCEPT ![s] = @ \ {a}]
    /\ current' = [current EXCEPT ![s] = a]
    /\ fired' = [fired EXCEPT ![s] = @ \cup {a}]
    /\ pc' = [pc EXCEPT ![s] = "waiting"]
    /\ NoteMet(s, a, TRUE)
    /\ UNCHANGED <<dispatch, blocked, buttons, msg, posted, restarts>>

\* The delay is over and the ping dispatched to the channels that match now.
Dispatches(s, matching, quiet) ==
    /\ pc[s] = "waiting"
    /\ Begin(s, matching, quiet)
    /\ pc' = [pc EXCEPT ![s] = "posting"]
    /\ UNCHANGED <<blocked, buttons, recent, msg, todo, current, fired,
                   posted, restarts, hist>>

Posts(s, answer, arrived) ==
    /\ pc[s] = "posting"
    /\ Post(s, answer, arrived)
    /\ UNCHANGED <<blocked, buttons, recent, handler, posted, restarts, hist>>

Records(s) ==
    /\ pc[s] = "posting"
    /\ Committed(s)
    /\ pc' = [pc EXCEPT ![s] = "matching"]
    /\ current' = [current EXCEPT ![s] = None]
    /\ hist' = [hist EXCEPT !.owed =
           IF Complete(s) THEN @ \ {<<s, current[s], "row">>} ELSE @]
    /\ UNCHANGED <<blocked, buttons, recent, msg, todo, fired, posted, restarts>>

\* The database fails under it: the rest of the message is given up, the direct
\* messages for what was already pinged included.
Raises(s) ==
    /\ \/ pc[s] \in {"loaded", "waiting"}
       \/ pc[s] = "posting" /\ left[s] = {}
    /\ Dropped({s})
    /\ Idle(s)
    /\ NoteLost({s})
    /\ UNCHANGED <<blocked, buttons, recent, posted, restarts>>

\* All alerts are done; what fired is sent as direct messages, each with a block
\* button.  A message that cannot be sent is logged.
Messaging(s) ==
    /\ pc[s] = "matching" /\ todo[s] = {}
    /\ IF fired[s] = {}
       THEN Idle(s)
       ELSE /\ pc' = [pc EXCEPT ![s] = "messaging"]
            /\ UNCHANGED <<msg, todo, current, fired>>
    /\ UNCHANGED <<dispatch, blocked, buttons, recent, posted, restarts, hist>>

SendsMessage(s, a, delivered) ==
    /\ pc[s] = "messaging" /\ a \in fired[s]
    /\ IF fired[s] = {a}
       THEN Idle(s)
       ELSE /\ fired' = [fired EXCEPT ![s] = @ \ {a}]
            /\ UNCHANGED <<pc, msg, todo, current>>
    /\ buttons' = IF delivered THEN buttons \cup {Link[msg[s]]} ELSE buttons
    /\ hist' = [hist EXCEPT !.owed = @ \ {<<s, a, "message">>}]
    /\ UNCHANGED <<dispatch, blocked, recent, posted, restarts>>

\* A block button is pressed: its id holds only the beginning of a long link.
Press(l) ==
    /\ l \in buttons /\ Cut[l] \notin blocked
    /\ blocked' = blocked \cup {Cut[l]}
    /\ UNCHANGED <<dispatch, buttons, recent, handler, posted, restarts, hist>>

Tick ==
    /\ recent' = [a \in Alerts |-> [t \in Texts |-> Age(recent[a][t])]]
    /\ hist' = [hist EXCEPT !.met = [a \in Alerts |-> [t \in Texts |-> Age(@[a][t])]]]
    /\ <<recent', hist'>> # <<recent, hist>>
    /\ UNCHANGED <<dispatch, blocked, buttons, handler, posted, restarts>>

\* The process starts anew: rows and buttons stay, _recent does not.
Restart ==
    /\ restarts < MaxRestarts
    /\ restarts' = restarts + 1
    /\ Dropped(Senders)
    /\ recent' = [a \in Alerts |-> [t \in Texts |-> Never]]
    /\ pc' = [s \in Senders |-> "idle"]
    /\ msg' = [s \in Senders |-> None]
    /\ todo' = [s \in Senders |-> {}]
    /\ current' = [s \in Senders |-> None]
    /\ fired' = [s \in Senders |-> {}]
    /\ hist' = [hist EXCEPT !.owed = {},
                            !.met = [a \in Alerts |-> [t \in Texts |-> Never]]]
    /\ UNCHANGED <<blocked, buttons, posted>>

-----------------------------------------------------------------------------
Answers == {"ok", "lost", "limited", "refused"}

Next ==
    \/ \E s \in Senders :
        \/ \E m \in Messages : Arrive(s, m)
        \/ CheckBlocked(s)
        \/ \E a \in Alerts : Repeat(s, a) \/ Hit(s, a)
        \/ \E matching \in SUBSET Channels, quiet \in BOOLEAN : Dispatches(s, matching, quiet)
        \/ \E answer \in Answers, arrived \in BOOLEAN : Posts(s, answer, arrived)
        \/ Records(s)
        \/ Raises(s)
        \/ Messaging(s)
        \/ \E a \in Alerts, delivered \in BOOLEAN : SendsMessage(s, a, delivered)
    \/ \E l \in Links : Press(l)
    \/ Tick
    \/ Restart

Spec == Init /\ [][Next]_vars

-----------------------------------------------------------------------------
\* Values of the variables; a coroutine pings for an alert that fired, and only
\* one that pings has posts or rows under way.
TypeOK ==
    /\ DispatchTypeOK
    /\ blocked \subseteq Links /\ buttons \subseteq Links
    /\ recent \in [Alerts -> [Texts -> Ages]]
    /\ pc \in [Senders -> {"idle", "loaded", "matching", "waiting", "posting", "messaging"}]
    /\ msg \in [Senders -> Messages \cup {None}]
    /\ todo \in [Senders -> SUBSET Alerts] /\ fired \in [Senders -> SUBSET Alerts]
    /\ current \in [Senders -> Alerts \cup {None}]
    /\ \A s \in Senders :
        IF pc[s] \in {"waiting", "posting"} THEN current[s] \in fired[s] ELSE current[s] = None
    /\ \A s \in Senders : pc[s] # "posting" => left[s] = {} /\ records[s] = {}
    /\ posted \in 0..MaxMessages /\ restarts \in 0..MaxRestarts

Comes(s, a) == pc[s] = "matching" /\ a \in todo[s] /\ a \notin todo'[s] /\ pc'[s] # "idle"
Rings(s, a)  == Comes(s, a) /\ pc'[s] = "waiting"
Meets(s, a)  == hist.met[a][Text[msg[s]]] \in 0..Window

\* An alert pings for a text exactly if it has not met that text within the
\* window, in this or any other message being handled, and never for a link that
\* was on the block list when the message came (is_duplicate, blocked).
PingsAreWanted ==
    [][\A s \in Senders, a \in Alerts : Comes(s, a) =>
         /\ Rings(s, a) <=> ~Meets(s, a)
         /\ Rings(s, a) => Link[msg[s]] \notin hist.listed[s]]_vars

\* Every hit ends in the history with a row for each channel that was meant, or
\* one that says there was none, and in a direct message; until then its
\* coroutine is on its way there.  Only a restart or a failing database takes it
\* out (handle_message, dispatch_event).
NothingVanishes ==
    \A o \in hist.owed :
        LET s == o[1]
        IN  IF o[3] = "row"
            THEN pc[s] \in {"waiting", "posting"} /\ current[s] = o[2]
            ELSE pc[s] # "idle" /\ o[2] \in fired[s]
=============================================================================
