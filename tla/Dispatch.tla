------------------------------ MODULE Dispatch ------------------------------
(***************************************************************************)
(* How an event reaches the channels it is meant for: dispatch_event of    *)
(* app/notify/service.py with the webhook of app/notify/discord.py.        *)
(*                                                                         *)
(* A sender dispatches one event at a time.  With no matching channel, or   *)
(* in the quiet hours, it only writes rows of the history.  Otherwise it    *)
(* posts to each channel in turn, a few times if the answer is lost or the  *)
(* webhook is rate limited, and writes all rows in one commit at the end.   *)
(* What calls it is the business of the module that extends this one.       *)
(***************************************************************************)
EXTENDS Integers, Sequences

CONSTANTS
    Senders,     \* coroutines that dispatch
    Notifiers,   \* those of config.yaml, then those of the dashboard, in order
    Attempts     \* posts of one event to one channel

Channels == {Notifiers[i] : i \in DOMAIN Notifiers}

ASSUME AttemptsAssumption == Attempts \in Nat \ {0}
\* They are kept in a dict by name.
ASSUME NotifiersAssumption ==
    \A i, j \in DOMAIN Notifiers : Notifiers[i] = Notifiers[j] => i = j

NoChannel == "(kein Kanal)"

VARIABLES
    left,      \* places in Notifiers of those a sender still posts its event to
    tries,     \* posts to the channel it is at
    records,   \* rows it has added and not committed
    wire       \* observer: what the channels really got of its event

dispatch == <<left, tries, records, wire>>

Row == [channel: Channels \cup {NoChannel}, success: BOOLEAN]
NothingPosted ==
    [meant |-> {}, got |-> [c \in Channels |-> 0], unsure |-> {}]

RowsOf(channels) == [channel: channels, success: {FALSE}]

\* Faulty variant: an event that matches nothing leaves no trace.
RowsOfChannels(matching) == RowsOf(matching)

\* An event that is not sent is still recorded, one row per channel that was
\* meant, or one that says there was none.
RowsAtOnce(matching) == IF matching = {} THEN RowsOf({NoChannel}) ELSE RowsOf(matching)

InitDispatch ==
    /\ left = [s \in Senders |-> {}]
    /\ tries = [s \in Senders |-> 0]
    /\ records = [s \in Senders |-> {}]
    /\ wire = [s \in Senders |-> NothingPosted]

\* The channels that match are loaded, and the clock is looked at.
Begin(s, matching, quiet) ==
    /\ wire' = [wire EXCEPT ![s] = [NothingPosted EXCEPT !.meant = matching]]
    /\ tries' = [tries EXCEPT ![s] = 0]
    /\ IF matching = {} \/ quiet
       THEN /\ records' = [records EXCEPT ![s] = RowsAtOnce(matching)]
            /\ UNCHANGED left
       ELSE /\ left' = [left EXCEPT ![s] = {i \in DOMAIN Notifiers : Notifiers[i] \in matching}]
            /\ UNCHANGED records

\* Faulty variant: a webhook that cannot be reached is taken for delivered.
AnsweredHopefully(s, answer) ==
    CASE answer \in {"ok", "lost"} -> "success"
      [] answer = "limited" /\ tries[s] + 1 < Attempts -> "again"
      [] OTHER -> "failure"

\* Faulty variant: one post too many.
AnsweredLate(s, answer) ==
    CASE answer = "ok" -> "success"
      [] answer \in {"lost", "limited"} /\ tries[s] < Attempts -> "again"
      [] OTHER -> "failure"

\* What the send makes of an answer: none and "slow down" are tried again.
Answered(s, answer) ==
    CASE answer = "ok" -> "success"
      [] answer \in {"lost", "limited"} /\ tries[s] + 1 < Attempts -> "again"
      [] OTHER -> "failure"

\* Observer: what arrived at a channel, and whether the answer was lost.
NoteHeard(s, c, answer, arrived) ==
    wire' = [wire EXCEPT ![s].got[c] = IF arrived THEN @ + 1 ELSE @,
                         ![s].unsure = IF answer = "lost" THEN @ \cup {c} ELSE @]

\* One post to the first channel left; an answer that is lost says nothing of
\* whether the post arrived.
Post(s, answer, arrived) == \E first \in left[s] :
    /\ \A i \in left[s] : first <= i
    /\ answer = "ok" => arrived
    /\ answer \in {"limited", "refused"} => ~arrived
    /\ LET c == Notifiers[first] IN
        /\ NoteHeard(s, c, answer, arrived)
        /\ IF Answered(s, answer) = "again"
           THEN /\ tries' = [tries EXCEPT ![s] = @ + 1]
                /\ UNCHANGED <<left, records>>
           ELSE /\ tries' = [tries EXCEPT ![s] = 0]
                /\ left' = [left EXCEPT ![s] = @ \ {first}]
                /\ records' = [records EXCEPT ![s] =
                       @ \cup {[channel |-> c, success |-> Answered(s, answer) = "success"]}]

\* Everything the event is recorded as, in one commit; or the sender raises, or
\* the process ends, and nothing of it is.
Committed(s) ==
    /\ left[s] = {}
    /\ records' = [records EXCEPT ![s] = {}]
    /\ wire' = [wire EXCEPT ![s] = NothingPosted]
    /\ UNCHANGED <<left, tries>>

Dropped(who) ==
    /\ left' = [s \in Senders |-> IF s \in who THEN {} ELSE left[s]]
    /\ tries' = [s \in Senders |-> IF s \in who THEN 0 ELSE tries[s]]
    /\ records' = [s \in Senders |-> IF s \in who THEN {} ELSE records[s]]
    /\ wire' = [s \in Senders |-> IF s \in who THEN NothingPosted ELSE wire[s]]

\* Values of the variables; no channel is posted to more often than allowed.
DispatchTypeOK ==
    /\ left \in [Senders -> SUBSET DOMAIN Notifiers]
    /\ tries \in [Senders -> 0..(Attempts - 1)]
    /\ records \in [Senders -> SUBSET Row]

\* Every channel the event was meant for has its row, or there was none.
Complete(s) ==
    /\ records[s] # {}
    /\ wire[s].meant \subseteq {r.channel : r \in records[s]}

\* What the history will say of a channel is what the channel knows: a success
\* arrived, a failure arrived at most when an answer was lost, and nothing
\* arrived twice unless one was (discord.py:160-184, service.py:168-187).
HistoryIsHonest ==
    \A s \in Senders : \A r \in records[s] :
        r.channel # NoChannel =>
            /\ r.success => wire[s].got[r.channel] > 0
            /\ wire[s].got[r.channel] > (IF r.success THEN 1 ELSE 0) => r.channel \in wire[s].unsure
=============================================================================
