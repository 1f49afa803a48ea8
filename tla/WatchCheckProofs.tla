-------------------------- MODULE WatchCheckProofs --------------------------
(***************************************************************************)
(* Theorems about WatchCheck for every set of checkers, every cooldown,    *)
(* reminder setting, price and shop behaviour.                             *)
(***************************************************************************)
EXTENDS WatchCheck, TLAPS

LEMMA RowFacts ==
    ASSUME NEW w \in Row
    PROVE  /\ w.enabled \in BOOLEAN /\ w.checked \in BOOLEAN
           /\ w.listing_seen \in BOOLEAN /\ w.last_status \in Statuses
           /\ w.notified_age \in Ages /\ w.reminders_sent \in 0..ReminderCap
           /\ w.price_target \in Targets \cup {NoTarget}
           /\ w.price_target_hit \in BOOLEAN /\ w.notify_on_first_seen \in BOOLEAN
  BY DEF Row

\* A flushed row is a row: each column comes from one of two rows.
LEMMA FlushType ==
    ASSUME NEW row \in Row, NEW old \in Row, NEW new \in Row, NEW stamped
    PROVE  Flush(row, old, new, stamped) \in Row
  BY DEF Flush, Row

LEMMA AgeRowType ==
    ASSUME NEW w \in Row
    PROVE  AgeRow(w) \in Row
  BY TimesAssumption DEF AgeRow, Row, Ages, Older, AgeCap, Never

LEMMA NewRowType ==
    ASSUME NEW optIn \in BOOLEAN, NEW target \in Targets \cup {NoTarget}
    PROVE  NewRow(optIn, target) \in Row
  BY RemindersAssumption DEF NewRow, Row, Ages, Never, Statuses, ReminderCap

LEMMA ApplyFormType ==
    ASSUME NEW w \in Row, NEW target \in Targets \cup {NoTarget}, NEW optIn \in BOOLEAN
    PROVE  ApplyForm(w, target, optIn) \in Row
  BY ZenonT(30) DEF ApplyForm, Row

\* The reminder counter never passes its limit: it moves only while
\* reminders are left.
LEMMA RemindersAfterType ==
    ASSUME NEW w \in Row, NEW r \in Reading
    PROVE  RemindersAfter(w, r) \in 0..ReminderCap
  <1>1. w.reminders_sent \in 0..ReminderCap
    BY RowFacts
  <1>2. CASE Decide(w, r) = "reminder"
    <2>1. EvaluateTransition(w, r) = "reminder"
      BY <1>2 DEF Decide
    <2>2. ReminderDue(w, r)
      BY <2>1 DEF EvaluateTransition
    <2>3. Reminders >= 0 => w.reminders_sent < Reminders
      BY <2>2 DEF ReminderDue, RemindersLeft
    <2>4. CountReminder(w.reminders_sent) \in 0..ReminderCap
      BY <1>1, <2>3, RemindersAssumption DEF CountReminder, ReminderCap
    <2> QED BY <1>2, <2>4 DEF RemindersAfter
  <1>3. CASE Decide(w, r) # "reminder"
    <2>1. 0 \in 0..ReminderCap
      BY RemindersAssumption DEF ReminderCap
    <2> QED BY <1>1, <1>3, <2>1 DEF RemindersAfter
  <1> QED BY <1>2, <1>3

LEMMA DecideType ==
    ASSUME NEW w, NEW r
    PROVE  Decide(w, r) \in EventKinds
  BY DEF Decide, EvaluateTransition, EventKinds, StockAlerts

LEMMA ApplyResultType ==
    ASSUME NEW w \in Row, NEW r \in Reading
    PROVE  ApplyResult(w, r) \in Row
  <1>1. RemindersAfter(w, r) \in 0..ReminderCap
    BY RemindersAfterType
  <1>2. TargetHitAfter(w, r) \in BOOLEAN
    BY RowFacts DEF TargetHitAfter, AtTarget
  <1>3. StatusAfter(w, r) \in Statuses /\ SeenAfter(w, r) \in BOOLEAN
    BY RowFacts DEF StatusAfter, SeenAfter, Reading
  <1> QED BY <1>1, <1>2, <1>3 DEF ApplyResult, Row

LEMMA ReadingsType ==
    ASSUME shelf \in Shelves, price \in Prices
    PROVE  Readings \subseteq Reading /\ Truth \in Reading /\ NoReading \in Reading
  <1>1. Truth \in Reading
    <2>1. CASE shelf = "absent"
      BY <2>1 DEF Truth, Reading, Statuses
    <2>2. CASE shelf # "absent"
      BY <2>2 DEF Truth, Reading, Statuses
    <2> QED BY <2>1, <2>2
  <1>2. \A p \in Prices \cup {NoPrice} : Partial(p) \in Reading
    BY DEF Partial, Reading, Statuses
  <1>3. Unsure \in Reading
    BY DEF Unsure, Reading, Statuses
  <1>4. NoReading \in Reading
    BY DEF NoReading, Reading, Statuses
  <1> QED BY <1>1, <1>2, <1>3, <1>4 DEF Readings

-----------------------------------------------------------------------------

LEMMA InitType == Init => TypeOK
  <1> SUFFICES ASSUME Init PROVE TypeOK
    OBVIOUS
  <1>1. db \in Row
    BY NewRowType DEF Init
  <1>2. NoRow \in Row
    BY NewRowType DEF NoRow
  <1>3. NoReading \in Reading
    BY DEF NoReading, Reading, Statuses
  <1>4. crashes \in 0..MaxCrashes
    BY ScopeAssumption DEF Init
  <1>5. hist \in HistRecord
    BY DEF Init, HistRecord
  <1> QED BY <1>1, <1>2, <1>3, <1>4, <1>5
          DEF Init, TypeOK, Places, EventKinds, StockAlerts

\* A session that ends, for whatever reason, leaves the types alone.
LEMMA StopType ==
    ASSUME TypeOK, NEW c \in Checkers, Stop(c)
    PROVE  /\ pc' \in [Checkers -> Places] /\ loaded' \in [Checkers -> Row]
           /\ cur' \in [Checkers -> Row] /\ result' \in [Checkers -> Reading]
           /\ event' \in [Checkers -> EventKinds] /\ overtaken' \subseteq Checkers
  <1>1. NoRow \in Row
    BY NewRowType DEF NoRow
  <1>2. NoReading \in Reading
    BY DEF NoReading, Reading, Statuses
  <1> QED BY <1>1, <1>2 DEF Stop, TypeOK, Places, EventKinds, StockAlerts

\* Everything a check touches of the observer keeps its type.
LEMMA HistType ==
    ASSUME TypeOK, NEW c \in Checkers, NEW w \in Row, NEW r \in Reading, NEW e
    PROVE  /\ NoteRecord(c, w, r, e) => hist' \in HistRecord
           /\ NoteStamp(c, e) => hist' \in HistRecord /\ overtaken' \subseteq Checkers
           /\ NoteBegin(c) => hist' \in HistRecord
  <1>1. hist \in HistRecord
    BY DEF TypeOK
  <1>2. r.status \in Statuses
    BY DEF Reading
  <1>3. NoteRecord(c, w, r, e) => hist' \in HistRecord
    <2> SUFFICES ASSUME NoteRecord(c, w, r, e) PROVE hist' \in HistRecord
      OBVIOUS
    <2>1. hist' = [hist EXCEPT !.verdict = hist'.verdict, !.walled = hist'.walled,
                               !.listing = hist'.listing, !.streak = hist'.streak,
                               !.dip_left = hist'.dip_left]
      BY <1>1 DEF NoteRecord, HistRecord
    <2>2. hist'.verdict \in Statuses \cup {"never"}
      BY <1>1, <1>2 DEF NoteRecord, HistRecord
    <2>3. hist'.streak \in Nat
      BY <1>1 DEF NoteRecord, HistRecord
    <2>4. hist'.dip_left \in BOOLEAN
      BY <1>1 DEF NoteRecord, HistRecord
    <2>5. hist'.walled \in BOOLEAN
      BY <1>1 DEF NoteRecord, HistRecord
    <2>6. hist'.listing \in {"unread", "blind", "listed", "unlisted"}
      BY <1>1 DEF NoteRecord, HistRecord, ListingAfter
    <2> QED BY <1>1, <2>1, <2>2, <2>3, <2>4, <2>5, <2>6 DEF HistRecord
  <1>4. NoteStamp(c, e) => hist' \in HistRecord /\ overtaken' \subseteq Checkers
    BY <1>1 DEF NoteStamp, HistRecord, CountReminder, TypeOK, UnderWay
  <1>5. NoteBegin(c) => hist' \in HistRecord
    BY <1>1 DEF NoteBegin, HistRecord
  <1> QED BY <1>3, <1>4, <1>5

\* So does what the form touches of it.
LEMMA FormNoteType ==
    ASSUME TypeOK, NEW new \in Row, NoteForm(new)
    PROVE  hist' \in HistRecord
  <1>1. hist \in HistRecord
    BY DEF TypeOK
  <1>2. hist' = [hist EXCEPT !.dip_left = hist'.dip_left, !.stale = hist'.stale,
                             !.listing = hist'.listing]
    BY <1>1 DEF NoteForm, HistRecord
  <1>3. hist'.dip_left \in BOOLEAN
    BY <1>1, ZenonT(30) DEF NoteForm, HistRecord
  <1>4. hist'.stale \subseteq Checkers
    BY <1>1 DEF NoteForm, HistRecord, UnderWay
  <1>5. hist'.listing \in {"unread", "blind", "listed", "unlisted"}
    BY <1>1 DEF NoteForm, HistRecord
  <1> QED BY <1>1, <1>2, <1>3, <1>4, <1>5 DEF HistRecord

-----------------------------------------------------------------------------

\* Type correctness, one step per action.
LEMMA NextType == TypeOK /\ [Next]_vars => TypeOK'
  <1> SUFFICES ASSUME TypeOK, [Next]_vars PROVE TypeOK'
    OBVIOUS
  <1> USE DEF checks, shop, dialog
  <1>1. ASSUME NEW c \in Checkers, Begin(c) PROVE TypeOK'
    <2>1. hist' \in HistRecord
      BY <1>1, HistType, NewRowType, ReadingsType DEF Begin, TypeOK, NoRow
    <2> QED BY <1>1, <2>1 DEF Begin, TypeOK, Places
  <1>2. ASSUME NEW c \in Checkers, NEW r \in Readings, Evaluate(c, r) PROVE TypeOK'
    <2>1. r \in Reading
      BY ReadingsType DEF TypeOK
    <2>2. ApplyResult(cur[c], r) \in Row
      BY <2>1, ApplyResultType DEF TypeOK
    <2>3. Decide(cur[c], r) \in EventKinds
      BY DecideType
    <2> QED BY <1>2, <2>1, <2>2, <2>3 DEF Evaluate, TypeOK, Places
  <1>3. ASSUME NEW c \in Checkers, FetchFails(c) PROVE TypeOK'
    <2>1. [cur[c] EXCEPT !.checked = TRUE] \in Row
      BY DEF TypeOK, Row
    <2> QED BY <1>3, <2>1 DEF FetchFails, TypeOK, Places
  <1>4. ASSUME NEW c \in Checkers, Record(c) PROVE TypeOK'
    <2>1. db' \in Row
      BY <1>4, FlushType DEF Record, TypeOK
    <2>2. hist' \in HistRecord
      BY <1>4, HistType DEF Record, TypeOK
    <2>3. /\ pc' \in [Checkers -> Places] /\ loaded' \in [Checkers -> Row]
          /\ cur' \in [Checkers -> Row] /\ result' \in [Checkers -> Reading]
          /\ event' \in [Checkers -> EventKinds] /\ overtaken' \subseteq Checkers
      <3>1. CASE event[c] = "none"
        BY <1>4, <3>1, StopType DEF Record
      <3>2. CASE event[c] # "none"
        BY <1>4, <3>2 DEF Record, TypeOK, Places
      <3> QED BY <3>1, <3>2
    <2> QED BY <1>4, <2>1, <2>2, <2>3 DEF Record, TypeOK
  <1>5. ASSUME NEW c \in Checkers, Stamp(c) PROVE TypeOK'
    <2>1. cur' \in [Checkers -> Row]
      <3>1. 0 \in Ages /\ cur[c] \in Row
        BY TimesAssumption DEF TypeOK, Ages, AgeCap
      <3>2. [cur[c] EXCEPT !.notified_age = 0] \in Row
        BY <3>1 DEF Row
      <3> QED BY <1>5, <3>2 DEF Stamp, TypeOK
    <2>2. db' \in Row
      BY <1>5, <2>1, FlushType DEF Stamp, TypeOK
    <2>3. hist' \in HistRecord /\ overtaken' \subseteq Checkers
      BY <1>5, HistType DEF Stamp, TypeOK
    <2> QED BY <1>5, <2>1, <2>2, <2>3 DEF Stamp, TypeOK, Places
  <1>6. ASSUME NEW c \in Checkers, Send(c) PROVE TypeOK'
    BY <1>6, StopType DEF Send, TypeOK
  <1>7. ASSUME NEW c \in Checkers, Abandon(c) PROVE TypeOK'
    BY <1>7, StopType DEF Abandon, TypeOK
  <1>8. CASE OpenForm
    BY <1>8 DEF OpenForm, TypeOK
  <1>9. ASSUME NEW new \in Row, Save(new) PROVE TypeOK'
    <2>1. db' \in Row
      BY <1>9, FlushType DEF Save, TypeOK
    <2>2. hist' \in HistRecord
      BY <1>9, FormNoteType DEF Save
    <2>3. form' \in Row /\ formOpen' \in BOOLEAN
      BY <1>9, NewRowType DEF Save, CloseForm, NoRow
    <2> QED BY <1>9, <2>1, <2>2, <2>3 DEF Save, TypeOK
  <1>10. CASE UpdateWatch
    <2>1. form.price_target \in Targets \cup {NoTarget} /\ form.notify_on_first_seen \in BOOLEAN
      BY RowFacts DEF TypeOK
    <2>2. PICK target \in Targets \cup {NoTarget}, optIn \in BOOLEAN :
             Save(ApplyForm(form, target, optIn))
      BY <1>10, <2>1 DEF UpdateWatch
    <2> QED BY <1>9, <2>2, ApplyFormType DEF TypeOK
  <1>11. CASE ToggleWatch
    <2>1. [form EXCEPT !.enabled = ~@] \in Row
      BY DEF TypeOK, Row
    <2> QED BY <1>9, <1>11, <2>1 DEF ToggleWatch
  <1>12. CASE DeleteWatch
    BY <1>12, NewRowType DEF DeleteWatch, CloseForm, TypeOK, NoRow
  <1>13. CASE ShopMoves
    BY <1>13 DEF ShopMoves, TypeOK
  <1>14. CASE Tick
    BY <1>14, AgeRowType DEF Tick, TypeOK
  <1>15. CASE Crash
    <2>1. NoRow \in Row
      BY NewRowType DEF NoRow
    <2>2. NoReading \in Reading
      BY ReadingsType DEF TypeOK
    <2>3. crashes' \in 0..MaxCrashes
      BY <1>15, ScopeAssumption DEF Crash, TypeOK
    <2> QED BY <1>15, <2>1, <2>2, <2>3
            DEF Crash, CloseForm, TypeOK, Places, EventKinds, StockAlerts
  <1>16. CASE UNCHANGED vars
    BY <1>16 DEF vars, TypeOK
  <1> QED BY <1>1, <1>2, <1>3, <1>4, <1>5, <1>6, <1>7, <1>8, <1>10, <1>11, <1>12,
             <1>13, <1>14, <1>15, <1>16 DEF Next, Check, Dashboard

\* The row, the sessions and the places of the checks keep their types, for
\* every number of checks at once (the columns of models.Watch).
THEOREM TypeCorrect == Spec => []TypeOK
  BY InitType, NextType, PTL DEF Spec

-----------------------------------------------------------------------------
(* Sessions: what a check never touches in its own copy of the row, and so *)
(* never writes over what others committed meanwhile.                      *)

OwnedByOperator(new, old) ==
    /\ new.enabled = old.enabled
    /\ new.price_target = old.price_target
    /\ new.notify_on_first_seen = old.notify_on_first_seen

\* A session changes no field of the operator's, and the time of the last
\* alert only in the step that stamps it.
SessionInv ==
    \A c \in Checkers :
        /\ OwnedByOperator(cur[c], loaded[c])
        /\ pc[c] # "sending" => cur[c].notified_age = loaded[c].notified_age

\* What Flush does to one column.
LEMMA FlushColumn ==
    ASSUME NEW row \in Row, NEW old \in Row, NEW new \in Row, NEW stamped
    PROVE  /\ OwnedByOperator(new, old) /\ stamped \subseteq {"checked", "notified_age"}
                => OwnedByOperator(Flush(row, old, new, stamped), row)
           /\ "notified_age" \notin stamped /\ new.notified_age = old.notified_age
                => Flush(row, old, new, stamped).notified_age = row.notified_age
           /\ "notified_age" \in stamped
                => Flush(row, old, new, stamped).notified_age = new.notified_age
  BY DEF Flush, Row, OwnedByOperator

LEMMA SessionInit == Init => SessionInv
  BY DEF Init, SessionInv, OwnedByOperator

LEMMA SessionNext == TypeOK /\ SessionInv /\ [Next]_vars => SessionInv'
  <1> SUFFICES ASSUME TypeOK, SessionInv, [Next]_vars PROVE SessionInv'
    OBVIOUS
  <1> USE DEF checks, shop, dialog, SessionInv
  <1>0. ASSUME NEW c \in Checkers, Stop(c) PROVE SessionInv'
    BY <1>0 DEF Stop, TypeOK, OwnedByOperator
  <1>1. ASSUME NEW c \in Checkers, Begin(c) PROVE SessionInv'
    BY <1>1 DEF Begin, TypeOK, OwnedByOperator
  <1>2. ASSUME NEW c \in Checkers, NEW r \in Readings, Evaluate(c, r) PROVE SessionInv'
    <2>1. OwnedByOperator(ApplyResult(cur[c], r), cur[c])
          /\ ApplyResult(cur[c], r).notified_age = cur[c].notified_age
      BY DEF ApplyResult, OwnedByOperator, TypeOK, Row
    <2> QED BY <1>2, <2>1 DEF Evaluate, TypeOK, OwnedByOperator
  <1>3. ASSUME NEW c \in Checkers, FetchFails(c) PROVE SessionInv'
    <2>1. OwnedByOperator([cur[c] EXCEPT !.checked = TRUE], cur[c])
          /\ [cur[c] EXCEPT !.checked = TRUE].notified_age = cur[c].notified_age
      BY DEF OwnedByOperator, TypeOK, Row
    <2> QED BY <1>3, <2>1 DEF FetchFails, TypeOK, OwnedByOperator
  <1>4. ASSUME NEW c \in Checkers, Record(c) PROVE SessionInv'
    <2>1. CASE event[c] = "none"
      BY <1>0, <1>4, <2>1 DEF Record
    <2>2. CASE event[c] # "none"
      BY <1>4, <2>2 DEF Record, TypeOK, OwnedByOperator
    <2> QED BY <2>1, <2>2
  <1>5. ASSUME NEW c \in Checkers, Stamp(c) PROVE SessionInv'
    <2>1. OwnedByOperator([cur[c] EXCEPT !.notified_age = 0], cur[c])
      BY DEF OwnedByOperator, TypeOK, Row
    <2> QED BY <1>5, <2>1 DEF Stamp, TypeOK, OwnedByOperator
  <1>6. ASSUME NEW c \in Checkers, Send(c) PROVE SessionInv'
    BY <1>0, <1>6 DEF Send
  <1>7. ASSUME NEW c \in Checkers, Abandon(c) PROVE SessionInv'
    BY <1>0, <1>7 DEF Abandon
  <1>8. CASE Dashboard
    <2>1. UNCHANGED checks
      BY <1>8 DEF Dashboard, OpenForm, UpdateWatch, ToggleWatch, Save, DeleteWatch
    <2> QED BY <2>1
  <1>9. CASE ShopMoves
    BY <1>9 DEF ShopMoves
  <1>10. CASE Tick
    <2>1. \A w \in Row : OwnedByOperator(AgeRow(w), w)
                         /\ AgeRow(w).notified_age = Older(w.notified_age)
      BY DEF AgeRow, OwnedByOperator, Row
    <2> QED BY <1>10, <2>1 DEF Tick, TypeOK, OwnedByOperator
  <1>11. CASE Crash
    BY <1>11 DEF Crash, OwnedByOperator
  <1>12. CASE UNCHANGED vars
    BY <1>12 DEF vars
  <1> QED BY <1>1, <1>2, <1>3, <1>4, <1>5, <1>6, <1>7, <1>8, <1>9, <1>10, <1>11, <1>12
          DEF Next, Check

\* What a commit of a check leaves alone.
LEMMA CommitKeeps ==
    ASSUME TypeOK, SessionInv, NEW c \in Checkers, Record(c) \/ Stamp(c)
    PROVE  /\ OwnedByOperator(db', db)
           /\ Record(c) /\ pc[c] = "recording" => db'.notified_age = db.notified_age
           /\ Stamp(c) => db'.notified_age = 0
  <1>1. db \in Row /\ loaded[c] \in Row /\ cur[c] \in Row
    BY DEF TypeOK
  <1>2. CASE Record(c)
    <2>1. cur[c].notified_age = loaded[c].notified_age /\ OwnedByOperator(cur[c], loaded[c])
      BY <1>2 DEF Record, SessionInv
    <2>2. db' = Flush(db, loaded[c], cur[c], {"checked"})
      BY <1>2 DEF Record
    <2>3. pc[c] # "stamping"
      BY <1>2 DEF Record
    <2> QED BY <1>1, <2>1, <2>2, <2>3, FlushColumn DEF Stamp
  <1>3. CASE Stamp(c)
    <2> DEFINE new == [cur[c] EXCEPT !.notified_age = 0]
    <2>1. new \in Row /\ OwnedByOperator(new, loaded[c]) /\ new.notified_age = 0
      <3>1. 0 \in Ages
        BY TimesAssumption DEF Ages, AgeCap
      <3> QED BY <1>1, <3>1 DEF SessionInv, OwnedByOperator, Row
    <2>2. cur'[c] = new
      BY <1>3 DEF Stamp, TypeOK
    <2>3. db' = Flush(db, loaded[c], new, {"notified_age"})
      BY <1>3, <2>2 DEF Stamp
    <2>4. pc[c] # "recording"
      BY <1>3 DEF Stamp
    <2> HIDE DEF new
    <2> QED BY <1>1, <2>1, <2>3, <2>4, FlushColumn
  <1> QED BY <1>2, <1>3

\* A step that changes the place of a check is a step of a check, or a crash.
LEMMA WhoMoves ==
    ASSUME TypeOK, SessionInv, [Next]_vars, \E c \in Checkers : pc'[c] # pc[c]
    PROVE  \/ UNCHANGED db
           \/ \E c \in Checkers : Record(c) \/ Stamp(c)
  <1> USE DEF checks, shop, dialog
  <1>1. ASSUME NEW c \in Checkers, Check(c)
        PROVE  UNCHANGED db \/ Record(c) \/ Stamp(c)
    BY <1>1 DEF Check, Begin, Evaluate, FetchFails, Send, Abandon
  <1>2. Dashboard \/ ShopMoves \/ Tick \/ UNCHANGED vars => UNCHANGED pc
    BY DEF Dashboard, OpenForm, UpdateWatch, ToggleWatch, Save, DeleteWatch,
           ShopMoves, Tick, vars
  <1>3. Crash => UNCHANGED db
    BY DEF Crash
  <1> QED BY <1>1, <1>2, <1>3 DEF Next

\* A check never takes back what the operator saved while it ran: enabled, the
\* price target and the first-seen box move only by the dashboard's commits.
THEOREM OperatorFieldsAreKept == Spec => OperatorFieldsKept
  <1> DEFINE Kept == (\E c \in Checkers : pc'[c] # pc[c]) =>
                        /\ db'.enabled = db.enabled
                        /\ db'.price_target = db.price_target
                        /\ db'.notify_on_first_seen = db.notify_on_first_seen
  <1>1. TypeOK /\ SessionInv /\ [Next]_vars => Kept
    <2> SUFFICES ASSUME TypeOK, SessionInv, [Next]_vars,
                        \E c \in Checkers : pc'[c] # pc[c]
                 PROVE  OwnedByOperator(db', db)
      BY DEF OwnedByOperator
    <2>1. CASE UNCHANGED db
      BY <2>1 DEF OwnedByOperator
    <2>2. ASSUME NEW c \in Checkers, Record(c) \/ Stamp(c)
          PROVE  OwnedByOperator(db', db)
      BY <2>2, CommitKeeps
    <2> QED BY <2>1, <2>2, WhoMoves
  <1> HIDE DEF Kept
  <1>2. Spec => [][Kept]_vars
    BY <1>1, InitType, NextType, SessionInit, SessionNext, PTL DEF Spec
  <1> QED BY <1>2 DEF OperatorFieldsKept, Kept

\* No commit makes the last alert look older than it is, or unset.
THEOREM LastAlertIsKept == Spec => LastAlertNotForgotten
  <1> DEFINE Remembered == db'.notified_age \in {db.notified_age, 0} \/ db' = AgeRow(db)
  <1>1. TypeOK /\ SessionInv /\ [Next]_vars => Remembered
    <2> SUFFICES ASSUME TypeOK, SessionInv, [Next]_vars PROVE Remembered
      OBVIOUS
    <2> USE DEF checks, shop, dialog
    <2>1. ASSUME NEW c \in Checkers, Check(c) PROVE Remembered
      <3>1. CASE Record(c) \/ Stamp(c)
        <4>1. Record(c) => pc[c] = "recording"
          BY DEF Record
        <4> QED BY <3>1, <4>1, CommitKeeps
      <3>2. CASE ~(Record(c) \/ Stamp(c))
        BY <2>1, <3>2 DEF Check, Begin, Evaluate, FetchFails, Send, Abandon
      <3> QED BY <3>1, <3>2
    <2>2. ASSUME NEW new \in Row, new.notified_age = form.notified_age, Save(new)
          PROVE  Remembered
      <3>1. db \in Row /\ form \in Row
        BY DEF TypeOK
      <3>2. Flush(db, form, new, {}).notified_age = db.notified_age
        BY <2>2, <3>1, FlushColumn
      <3>3. db' = db \/ db' = Flush(db, form, new, {})
        BY <2>2 DEF Save
      <3> QED BY <3>2, <3>3
    <2>3. CASE UpdateWatch
      <3>1. form.price_target \in Targets \cup {NoTarget}
            /\ form.notify_on_first_seen \in BOOLEAN /\ form \in Row
        BY RowFacts DEF TypeOK
      <3>2. PICK target \in Targets \cup {NoTarget}, optIn \in BOOLEAN :
               Save(ApplyForm(form, target, optIn))
        BY <2>3, <3>1 DEF UpdateWatch
      <3>3. ApplyForm(form, target, optIn).notified_age = form.notified_age
        BY <3>1 DEF ApplyForm, Row
      <3> QED BY <2>2, <3>1, <3>2, <3>3, ApplyFormType
    <2>4. CASE ToggleWatch
      <3>1. [form EXCEPT !.enabled = ~@] \in Row
            /\ [form EXCEPT !.enabled = ~@].notified_age = form.notified_age
        BY DEF TypeOK, Row
      <3> QED BY <2>2, <2>4, <3>1 DEF ToggleWatch
    <2>5. CASE Tick
      BY <2>5 DEF Tick
    <2>6. OpenForm \/ DeleteWatch \/ ShopMoves \/ Crash \/ UNCHANGED vars => UNCHANGED db
      BY DEF OpenForm, DeleteWatch, ShopMoves, Crash, vars
    <2> QED BY <2>1, <2>3, <2>4, <2>5, <2>6 DEF Next, Dashboard
  <1> HIDE DEF Remembered
  <1>2. Spec => [][Remembered]_vars
    BY <1>1, InitType, NextType, SessionInit, SessionNext, PTL DEF Spec
  <1> QED BY <1>2 DEF LastAlertNotForgotten, Remembered

-----------------------------------------------------------------------------
(* What was seen listed stays seen.                                        *)

\* No session takes listing_seen back in its own copy: it only ever sets it.
SeenInv == \A c \in Checkers : loaded[c].listing_seen => cur[c].listing_seen

LEMMA SeenInit == Init => SeenInv
  BY DEF Init, SeenInv

LEMMA SeenNext == TypeOK /\ SeenInv /\ [Next]_vars => SeenInv'
  <1> SUFFICES ASSUME TypeOK, SeenInv, [Next]_vars PROVE SeenInv'
    OBVIOUS
  <1> USE DEF checks, shop, dialog, SeenInv
  <1>0. ASSUME NEW c \in Checkers, Stop(c) PROVE SeenInv'
    BY <1>0 DEF Stop, TypeOK
  <1>1. ASSUME NEW c \in Checkers, Begin(c) PROVE SeenInv'
    BY <1>1 DEF Begin, TypeOK
  <1>2. ASSUME NEW c \in Checkers, NEW r \in Readings, Evaluate(c, r) PROVE SeenInv'
    <2>1. cur[c].listing_seen => ApplyResult(cur[c], r).listing_seen
      BY DEF ApplyResult, SeenAfter, TypeOK, Row
    <2> QED BY <1>2, <2>1 DEF Evaluate, TypeOK
  <1>3. ASSUME NEW c \in Checkers, FetchFails(c) PROVE SeenInv'
    <2>1. [cur[c] EXCEPT !.checked = TRUE].listing_seen = cur[c].listing_seen
      BY DEF TypeOK, Row
    <2> QED BY <1>3, <2>1 DEF FetchFails, TypeOK
  <1>4. ASSUME NEW c \in Checkers, Record(c) PROVE SeenInv'
    <2>1. CASE event[c] = "none"
      BY <1>0, <1>4, <2>1 DEF Record
    <2>2. CASE event[c] # "none"
      BY <1>4, <2>2 DEF Record, TypeOK
    <2> QED BY <2>1, <2>2
  <1>5. ASSUME NEW c \in Checkers, Stamp(c) PROVE SeenInv'
    <2>1. [cur[c] EXCEPT !.notified_age = 0].listing_seen = cur[c].listing_seen
      BY DEF TypeOK, Row
    <2> QED BY <1>5, <2>1 DEF Stamp, TypeOK
  <1>6. ASSUME NEW c \in Checkers, Send(c) \/ Abandon(c) PROVE SeenInv'
    BY <1>0, <1>6 DEF Send, Abandon
  <1>7. CASE Dashboard \/ ShopMoves \/ UNCHANGED vars
    <2>1. UNCHANGED checks
      BY <1>7 DEF Dashboard, OpenForm, UpdateWatch, ToggleWatch, Save, DeleteWatch,
                  ShopMoves, vars
    <2> QED BY <2>1
  <1>8. CASE Tick
    <2>1. \A w \in Row : AgeRow(w).listing_seen = w.listing_seen
      BY DEF AgeRow, Row
    <2> QED BY <1>8, <2>1 DEF Tick, TypeOK
  <1>9. CASE Crash
    BY <1>9 DEF Crash
  <1> QED BY <1>1, <1>2, <1>3, <1>4, <1>5, <1>6, <1>7, <1>8, <1>9 DEF Next, Check

\* A row that was seen keeps it through the commit of a copy that took nothing back.
LEMMA FlushSeen ==
    ASSUME NEW row \in Row, NEW old \in Row, NEW new \in Row, NEW stamped,
           "listing_seen" \notin stamped, old.listing_seen => new.listing_seen,
           row.listing_seen
    PROVE  Flush(row, old, new, stamped).listing_seen
  BY DEF Flush, Row

\* A product once seen listed is never new again, whatever stale check or form
\* commits after that: only a save that ticks the first-seen box takes it back.
THEOREM ListingIsRemembered == Spec => ListingStaysSeen
  <1> DEFINE Stays == db.listing_seen /\ ~db'.listing_seen =>
                         ~form.notify_on_first_seen /\ db'.notify_on_first_seen
  <1>1. TypeOK /\ SeenInv /\ [Next]_vars => Stays
    <2> SUFFICES ASSUME TypeOK, SeenInv, [Next]_vars,
                        db.listing_seen,
                        ~(~form.notify_on_first_seen /\ db'.notify_on_first_seen)
                 PROVE  db'.listing_seen
      OBVIOUS
    <2> USE DEF checks, shop, dialog
    <2>0. db \in Row /\ form \in Row /\ loaded \in [Checkers -> Row] /\ cur \in [Checkers -> Row]
      BY DEF TypeOK
    <2>1. ASSUME NEW c \in Checkers, Check(c) PROVE db'.listing_seen
      <3>1. CASE Record(c)
        <4>1. db' = Flush(db, loaded[c], cur[c], {"checked"})
          BY <3>1 DEF Record
        <4> QED BY <2>0, <4>1, FlushSeen DEF SeenInv
      <3>2. CASE Stamp(c)
        <4> DEFINE new == [cur[c] EXCEPT !.notified_age = 0]
        <4>1. new \in Row /\ new.listing_seen = cur[c].listing_seen
          <5>1. 0 \in Ages
            BY TimesAssumption DEF Ages, AgeCap
          <5> QED BY <2>0, <5>1 DEF Row
        <4>2. db' = Flush(db, loaded[c], new, {"notified_age"})
          BY <2>0, <3>2 DEF Stamp
        <4>3. loaded[c].listing_seen => new.listing_seen
          BY <4>1 DEF SeenInv
        <4> HIDE DEF new
        <4> QED BY <2>0, <4>1, <4>2, <4>3, FlushSeen
      <3>3. CASE ~(Record(c) \/ Stamp(c))
        BY <2>1, <3>3 DEF Check, Begin, Evaluate, FetchFails, Send, Abandon
      <3> QED BY <3>1, <3>2, <3>3
    <2>2. ASSUME NEW new \in Row, new.listing_seen = form.listing_seen, Save(new)
          PROVE  db'.listing_seen
      <3>1. Flush(db, form, new, {}).listing_seen
        BY <2>0, <2>2, FlushSeen
      <3>2. db' = db \/ db' = Flush(db, form, new, {})
        BY <2>2 DEF Save
      <3> QED BY <3>1, <3>2
    <2>3. CASE UpdateWatch
      <3>1. /\ form.price_target \in Targets \cup {NoTarget}
            /\ form.notify_on_first_seen \in BOOLEAN
        BY <2>0, RowFacts
      <3>2. PICK target \in Targets \cup {NoTarget}, optIn \in BOOLEAN :
               Save(ApplyForm(form, target, optIn))
        BY <2>3, <3>1 DEF UpdateWatch
      <3> DEFINE new == ApplyForm(form, target, optIn)
      <3>3. new \in Row /\ new.notify_on_first_seen = optIn
        <4>1. new \in Row
          BY <2>0, ApplyFormType
        <4>2. new.notify_on_first_seen = optIn
          BY <2>0 DEF ApplyForm, Row
        <4> QED BY <4>1, <4>2
      <3>4. CASE optIn /\ ~form.notify_on_first_seen
        \* Then the opt-in is written, unless the row is gone.
        <4>1. Flush(db, form, new, {}).notify_on_first_seen = optIn
          BY <2>0, <3>3, <3>4 DEF Flush, Row
        <4>2. db' = db \/ db' = Flush(db, form, new, {})
          BY <3>2 DEF Save
        <4> QED BY <3>4, <4>1, <4>2
      <3>5. CASE ~(optIn /\ ~form.notify_on_first_seen)
        <4>1. new.listing_seen = form.listing_seen
          BY <2>0, <3>5 DEF ApplyForm, Row
        <4> QED BY <2>2, <3>2, <3>3, <4>1
      <3> QED BY <3>4, <3>5
    <2>4. CASE ToggleWatch
      <3>1. [form EXCEPT !.enabled = ~@] \in Row
            /\ [form EXCEPT !.enabled = ~@].listing_seen = form.listing_seen
        BY <2>0 DEF Row
      <3> QED BY <2>2, <2>4, <3>1 DEF ToggleWatch
    <2>5. CASE Tick
      BY <2>0, <2>5 DEF Tick, AgeRow, Row
    <2>6. OpenForm \/ DeleteWatch \/ ShopMoves \/ Crash \/ UNCHANGED vars => UNCHANGED db
      BY DEF OpenForm, DeleteWatch, ShopMoves, Crash, vars
    <2> QED BY <2>1, <2>3, <2>4, <2>5, <2>6 DEF Next, Dashboard
  <1> HIDE DEF Stays
  <1>2. Spec => [][Stays]_vars
    BY <1>1, InitType, NextType, SeenInit, SeenNext, PTL DEF Spec
  <1> QED BY <1>2 DEF ListingStaysSeen, Stays

\* However many checks and forms overlap and however stale they are, none of
\* them undoes what another has committed.
THEOREM StaleWritesAreHarmless == Spec => StaleWritesHarmless
  BY OperatorFieldsAreKept, LastAlertIsKept, ListingIsRemembered DEF StaleWritesHarmless

-----------------------------------------------------------------------------
(* The cooldown and the reminder pace, for any number of checks.           *)

\* One step of one check leaves the sessions of the others alone.
LEMMA OwnSession ==
    ASSUME TypeOK, NEW c \in Checkers, Check(c)
    PROVE  \A d \in Checkers : d # c =>
              /\ pc'[d] = pc[d] /\ loaded'[d] = loaded[d] /\ cur'[d] = cur[d]
              /\ result'[d] = result[d] /\ event'[d] = event[d]
  <1>1. Stop(c) => \A d \in Checkers : d # c =>
              /\ pc'[d] = pc[d] /\ loaded'[d] = loaded[d] /\ cur'[d] = cur[d]
              /\ result'[d] = result[d] /\ event'[d] = event[d]
    BY DEF Stop, TypeOK
  <1> QED
    BY <1>1 DEF Check, Begin, Evaluate, FetchFails, Record, Stamp, Send, Abandon, TypeOK

\* AlertsPaced speaks of the row at the moment of the stamp, the decision was
\* taken on the session's copy.  What bridges the two: a check that nobody has
\* overtaken since it loaded the row agrees with it on the age of the last alert,
\* and a decision once grounded stays grounded because ages only grow until the cap.
Grounded(c) ==
    /\ event[c] = "restock" =>
         cur[c].notified_age = Never \/ cur[c].notified_age >= Cooldown
    /\ event[c] = "reminder" => cur[c].notified_age >= ReminderGap

Paced(c) ==
    /\ pc[c] # "idle" /\ c \notin overtaken => cur[c].notified_age = db.notified_age
    /\ pc[c] \in {"idle", "fetching"} => event[c] = "none"
    /\ pc[c] \in {"recording", "stamping"} => Grounded(c)

PaceInv == \A c \in Checkers : Paced(c)

LEMMA PaceInit == Init => PaceInv
  BY DEF Init, PaceInv, Paced

LEMMA DecideGrounded ==
    ASSUME NEW w \in Row, NEW r
    PROVE  /\ Decide(w, r) = "restock" =>
                w.notified_age = Never \/ w.notified_age >= Cooldown
           /\ Decide(w, r) = "reminder" => w.notified_age >= ReminderGap
  <1>0. w.notified_age \in Int /\ Cooldown \in Int
    BY TimesAssumption DEF Row, Ages, AgeCap, Never
  <1>1. Decide(w, r) = "restock" => EvaluateTransition(w, r) = "restock"
    BY DEF Decide
  <1>2. EvaluateTransition(w, r) = "restock" => RestockDue(w, r)
    BY DEF EvaluateTransition
  <1>3. Decide(w, r) = "reminder" => EvaluateTransition(w, r) = "reminder"
    BY DEF Decide
  <1>4. EvaluateTransition(w, r) = "reminder" => ReminderDue(w, r)
    BY DEF EvaluateTransition
  <1>5. RestockDue(w, r) => w.notified_age = Never \/ w.notified_age >= Cooldown
    BY <1>0 DEF RestockDue, CoolingDown
  <1>6. ReminderDue(w, r) => w.notified_age >= ReminderGap
    BY DEF ReminderDue
  <1> QED BY <1>1, <1>2, <1>3, <1>4, <1>5, <1>6

\* Growing older never undoes what made an alert due.
LEMMA OlderKeeps ==
    ASSUME NEW a \in Ages
    PROVE  /\ a = Never => Older(a) = Never
           /\ a >= Cooldown => Older(a) >= Cooldown
           /\ a >= ReminderGap => Older(a) >= ReminderGap
  BY TimesAssumption DEF Ages, AgeCap, Older, Never

\* A check's own step keeps the pace of its session, and another session either
\* still agrees with the row or was overtaken by this step.
LEMMA CheckKeepsPace ==
    ASSUME TypeOK, SessionInv, PaceInv, NEW c \in Checkers, Check(c)
    PROVE  PaceInv'
  <1>0. Paced(c) /\ \A d \in Checkers : Paced(d)
    BY DEF PaceInv
  <1>1. ASSUME \A d \in Checkers \ {c} :
                 /\ d \in overtaken => d \in overtaken'
                 /\ pc[d] = "idle" \/ d \in overtaken' \/ db'.notified_age = db.notified_age,
               Paced(c)'
        PROVE  PaceInv'
    <2>1. \A d \in Checkers : d # c => (Grounded(d) => Grounded(d)')
      BY OwnSession DEF Grounded
    <2>2. \A d \in Checkers : d # c => Paced(d)'
      BY <1>0, <1>1, <2>1, OwnSession DEF Paced
    <2> QED  BY <1>1, <2>2 DEF PaceInv
  <1>2. ASSUME Stop(c) PROVE Paced(c)' /\ overtaken' = overtaken \ {c}
    BY <1>2 DEF Stop, Paced, TypeOK
  <1>3. CASE Begin(c)
    <2>1. /\ cur'[c] = db /\ UNCHANGED <<db, event, overtaken>> /\ pc[c] = "idle"
          /\ pc'[c] = "fetching"
      BY <1>3 DEF Begin, TypeOK
    <2> QED  BY <1>0, <1>1, <2>1 DEF Paced
  <1>4. CASE \E r \in Readings : Evaluate(c, r)
    <2>1. PICK r \in Readings : Evaluate(c, r)
      BY <1>4
    <2>2. ApplyResult(cur[c], r).notified_age = cur[c].notified_age
      BY DEF ApplyResult, TypeOK, Row
    <2>3. /\ cur'[c].notified_age = cur[c].notified_age /\ event'[c] = Decide(cur[c], r)
          /\ pc[c] = "fetching" /\ pc'[c] = "recording" /\ UNCHANGED <<db, overtaken>>
      BY <2>1, <2>2 DEF Evaluate, TypeOK
    <2>4. Grounded(c)'
      BY <2>3, DecideGrounded DEF Grounded, TypeOK
    <2> QED  BY <1>0, <1>1, <2>3, <2>4 DEF Paced
  <1>5. CASE FetchFails(c)
    <2>1. [cur[c] EXCEPT !.checked = TRUE].notified_age = cur[c].notified_age
      BY DEF TypeOK, Row
    <2>2. /\ cur'[c].notified_age = cur[c].notified_age /\ UNCHANGED <<db, event, overtaken>>
          /\ pc[c] = "fetching" /\ pc'[c] = "recording"
      BY <1>5, <2>1 DEF FetchFails, TypeOK
    <2> QED  BY <1>0, <1>1, <2>2 DEF Paced, Grounded
  <1>6. CASE Record(c)
    <2>1. db'.notified_age = db.notified_age
      BY <1>6, CommitKeeps DEF Record
    <2>2. CASE event[c] = "none"
      BY <1>1, <1>2, <1>6, <2>1, <2>2 DEF Record
    <2>3. CASE event[c] # "none"
      <3>1. /\ pc[c] = "recording" /\ pc'[c] = "stamping"
            /\ UNCHANGED <<cur, event, overtaken>>
        BY <1>6, <2>3 DEF Record, TypeOK
      <3> QED  BY <1>0, <1>1, <2>1, <3>1 DEF Paced, Grounded
    <2> QED  BY <2>2, <2>3
  <1>7. CASE Stamp(c)
    <2>1. db'.notified_age = 0
      BY <1>7, CommitKeeps
    <2>2. cur'[c].notified_age = 0 /\ pc'[c] = "sending"
      BY <1>7 DEF Stamp, TypeOK, Row
    <2>3. \A d \in Checkers \ {c} :
             /\ d \in overtaken => d \in overtaken'
             /\ pc[d] = "idle" \/ d \in overtaken'
      BY <1>7 DEF Stamp, NoteStamp, UnderWay
    <2> QED  BY <1>1, <2>1, <2>2, <2>3 DEF Paced
  <1>8. CASE Send(c) \/ Abandon(c)
    <2>1. Stop(c) /\ UNCHANGED db
      BY <1>8 DEF Send, Abandon
    <2> QED  BY <1>1, <1>2, <2>1
  <1> QED
    BY <1>3, <1>4, <1>5, <1>6, <1>7, <1>8 DEF Check

LEMMA PaceNext ==
    ASSUME TypeOK, SessionInv, PaceInv, [Next]_vars
    PROVE  PaceInv'
  <1> USE DEF checks, shop, dialog
  <1>1. CASE \E c \in Checkers : Check(c)
    BY <1>1, CheckKeepsPace
  <1>8. ASSUME UNCHANGED checks, db'.notified_age = db.notified_age PROVE PaceInv'
    BY <1>8 DEF PaceInv, Paced, Grounded
  <1>9. ASSUME NEW new \in Row, new.notified_age = form.notified_age, Save(new)
        PROVE  PaceInv'
    <2>1. db \in Row /\ form \in Row
      BY DEF TypeOK
    <2>2. Flush(db, form, new, {}).notified_age = db.notified_age
      BY <1>9, <2>1, FlushColumn
    <2>3. UNCHANGED checks /\ (db' = db \/ db' = Flush(db, form, new, {}))
      BY <1>9 DEF Save
    <2> QED BY <1>8, <2>2, <2>3
  <1>10. CASE UpdateWatch
    <2>1. form.price_target \in Targets \cup {NoTarget}
          /\ form.notify_on_first_seen \in BOOLEAN /\ form \in Row
      BY RowFacts DEF TypeOK
    <2>2. PICK target \in Targets \cup {NoTarget}, optIn \in BOOLEAN :
             Save(ApplyForm(form, target, optIn))
      BY <1>10, <2>1 DEF UpdateWatch
    <2>3. ApplyForm(form, target, optIn).notified_age = form.notified_age
      BY <2>1 DEF ApplyForm, Row
    <2> QED BY <1>9, <2>1, <2>2, <2>3, ApplyFormType
  <1>11. CASE ToggleWatch
    <2>1. [form EXCEPT !.enabled = ~@] \in Row
          /\ [form EXCEPT !.enabled = ~@].notified_age = form.notified_age
      BY DEF TypeOK, Row
    <2> QED BY <1>9, <1>11, <2>1 DEF ToggleWatch
  <1>12. CASE OpenForm \/ DeleteWatch \/ ShopMoves \/ UNCHANGED vars
    BY <1>8, <1>12 DEF OpenForm, DeleteWatch, ShopMoves, vars
  <1>13. CASE Tick
    <2>1. \A w \in Row : AgeRow(w).notified_age = Older(w.notified_age)
      BY DEF AgeRow, Row
    <2>2. db'.notified_age = Older(db.notified_age)
          /\ \A c \in Checkers : cur'[c].notified_age = Older(cur[c].notified_age)
      BY <1>13, <2>1 DEF Tick, TypeOK
    <2>3. UNCHANGED <<pc, event, overtaken>>
      BY <1>13 DEF Tick
    <2>4. ASSUME NEW c \in Checkers, Grounded(c) PROVE Grounded(c)'
      <3>1. cur[c].notified_age \in Ages
        BY RowFacts DEF TypeOK
      <3> QED BY <2>2, <2>3, <2>4, <3>1, OlderKeeps DEF Grounded
    <2> QED BY <2>2, <2>3, <2>4 DEF PaceInv, Paced
  <1>14. CASE Crash
    BY <1>14 DEF Crash, PaceInv, Paced
  <1> QED BY <1>1, <1>10, <1>11, <1>12, <1>13, <1>14 DEF Next, Dashboard

\* However many checks of a watch overlap, no restock alert is stamped within the
\* cooldown of the alert stamped last, and no reminder before its interval is over,
\* but by a check that had loaded the row before that stamp: its decision rests on
\* the alert before (check_watch).  Nothing is assumed of who checks or when.
THEOREM AlertsArePaced == Spec => AlertsPaced
  <1> DEFINE Kept == \A c \in Checkers \ overtaken :
                        /\ Commits(c, "restock") =>
                             db.notified_age = Never \/ db.notified_age >= Cooldown
                        /\ Commits(c, "reminder") => db.notified_age >= ReminderGap
  <1>1. PaceInv => Kept
    BY DEF PaceInv, Paced, Commits, Grounded
  <1>2. TypeOK /\ SessionInv /\ PaceInv /\ [Next]_vars => PaceInv'
    BY PaceNext
  <1> HIDE DEF Kept
  <1>3. Spec => [][Kept]_vars
    BY <1>1, <1>2, InitType, NextType, SessionInit, SessionNext, PaceInit, PTL DEF Spec
  <1> QED BY <1>3 DEF AlertsPaced, Kept

-----------------------------------------------------------------------------
(* What a session has read and decided, by the columns it will commit.     *)

\* A check that fetches holds the row as it loaded it and has read nothing; one
\* that records holds what its reading makes of that row (the reading of a fetch
\* that failed is none at all); one that is to stamp has nothing left to write.
\* Stated column by column, because the age of the last alert moves on meanwhile.
Recorded(c) ==
    LET w == loaded[c]
        n == cur[c]
        r == result[c]
        e == event[c]
    IN  /\ n.last_status = StatusAfter(w, r)
        /\ n.reminders_sent =
             IF e = "reminder" THEN CountReminder(w.reminders_sent)
             ELSE IF r.status # "IN_STOCK" /\ r.readable THEN 0 ELSE w.reminders_sent
        /\ e = "restock" => w.last_status # "IN_STOCK"
        /\ e = "reminder" => r.status = "IN_STOCK"
        /\ e = "new_listing" =>
             \/ w.checked /\ ~w.listing_seen
             \/ n.notify_on_first_seen /\ r.status = "IN_STOCK"
        /\ e = "price_drop" => ~w.price_target_hit
        /\ e # "none" /\ AtTarget(n, r) => n.price_target_hit
        /\ w.price_target_hit /\ ~n.price_target_hit =>
             r.price # NoPrice /\ ~(r.status = "IN_STOCK" /\ AtTarget(n, r))

Session(c) ==
    /\ pc[c] \in {"idle", "fetching"} => result[c] = NoReading /\ event[c] = "none"
    /\ pc[c] \in {"fetching", "stamping"} => cur[c] = loaded[c]
    /\ pc[c] = "recording" => Recorded(c)

ReadingInv == \A c \in Checkers : Session(c)

LEMMA ReadingInit == Init => ReadingInv
  BY DEF Init, ReadingInv, Session

\* What evaluate_transition and evaluate_price_target decide, and what they leave
\* of the price target.
LEMMA EvaluateRecords ==
    ASSUME NEW w \in Row, NEW r \in Reading
    PROVE  /\ Decide(w, r) = "restock" => w.last_status # "IN_STOCK"
           /\ Decide(w, r) = "reminder" => r.status = "IN_STOCK"
           /\ Decide(w, r) = "new_listing" =>
                /\ r.listed
                /\ \/ w.checked /\ ~w.listing_seen
                   \/ w.notify_on_first_seen /\ r.status = "IN_STOCK"
           /\ Decide(w, r) = "price_drop" => ~w.price_target_hit
           /\ Decide(w, r) # "none" /\ AtTarget(w, r) => TargetHitAfter(w, r)
           /\ w.price_target_hit /\ ~TargetHitAfter(w, r) =>
                r.price # NoPrice /\ ~(r.status = "IN_STOCK" /\ AtTarget(w, r))
  <1> DEFINE e == EvaluateTransition(w, r)
  <1>1. /\ e = "restock" => RestockDue(w, r)
        /\ e = "reminder" => ReminderDue(w, r)
        /\ e = "new_listing" => NewListingDue(w, r)
        /\ e \in {"new_listing", "restock", "reminder", "none"}
    BY DEF EvaluateTransition
  <1>2. /\ Decide(w, r) = "price_drop" => e = "none" /\ PriceDropDue(w, r)
        /\ Decide(w, r) # "price_drop" => Decide(w, r) = e
        /\ e # "none" => Decide(w, r) = e
    BY <1>1 DEF Decide
  <1>3. w.price_target_hit \in BOOLEAN /\ AtTarget(w, r) \in BOOLEAN
    BY RowFacts DEF AtTarget
  <1> HIDE DEF e
  <1>4. /\ Decide(w, r) = "restock" => w.last_status # "IN_STOCK"
        /\ Decide(w, r) = "reminder" => r.status = "IN_STOCK"
        /\ Decide(w, r) = "price_drop" => ~w.price_target_hit
    BY <1>1, <1>2 DEF RestockDue, ReminderDue, PriceDropDue
  <1>5. Decide(w, r) = "new_listing" =>
          /\ r.listed
          /\ \/ w.checked /\ ~w.listing_seen
             \/ w.notify_on_first_seen /\ r.status = "IN_STOCK"
    BY <1>1, <1>2 DEF NewListingDue
  <1>6. CASE e # "none"
    <2>1. TargetHitAfter(w, r) <=> (w.price_target_hit \/ AtTarget(w, r))
      BY <1>6 DEF TargetHitAfter, e
    <2> QED  BY <1>3, <1>4, <1>5, <2>1
  <1>7. CASE e = "none"
    <2>1. /\ w.price_target = NoTarget \/ r.price = NoPrice =>
                TargetHitAfter(w, r) = w.price_target_hit /\ ~AtTarget(w, r)
          /\ ~(w.price_target = NoTarget \/ r.price = NoPrice) =>
                (TargetHitAfter(w, r) <=> (AtTarget(w, r) /\ r.status = "IN_STOCK"))
      BY <1>3, <1>7 DEF TargetHitAfter, AtTarget, e
    <2>2. Decide(w, r) # "none" => AtTarget(w, r) /\ r.status = "IN_STOCK"
      BY <1>2, <1>7 DEF PriceDropDue
    <2> QED  BY <1>4, <1>5, <2>1, <2>2
  <1> QED  BY <1>6, <1>7

\* The columns of the row a check writes back.
LEMMA ApplyColumns ==
    ASSUME NEW w \in Row, NEW r \in Reading
    PROVE  LET n == ApplyResult(w, r)
           IN  /\ n.last_status = StatusAfter(w, r)
               /\ n.listing_seen = SeenAfter(w, r)
               /\ n.reminders_sent = RemindersAfter(w, r)
               /\ n.price_target_hit = TargetHitAfter(w, r)
               /\ n.price_target = w.price_target
               /\ n.notify_on_first_seen = w.notify_on_first_seen
               /\ n.checked
  BY DEF ApplyResult, Row

LEMMA AgeColumns ==
    ASSUME NEW w \in Row
    PROVE  LET n == AgeRow(w)
           IN  /\ n.last_status = w.last_status /\ n.listing_seen = w.listing_seen
               /\ n.reminders_sent = w.reminders_sent /\ n.checked = w.checked
               /\ n.price_target_hit = w.price_target_hit
               /\ n.price_target = w.price_target
               /\ n.notify_on_first_seen = w.notify_on_first_seen
  BY DEF AgeRow, Row

\* A session's own step takes it from one such state to the next.
LEMMA CheckKeepsReading ==
    ASSUME TypeOK, ReadingInv, NEW c \in Checkers, Check(c)
    PROVE  Session(c)'
  <1> USE DEF Session
  <1>1. CASE Begin(c)
    BY <1>1 DEF Begin, TypeOK, ReadingInv
  <1>2. CASE \E r \in Readings : Evaluate(c, r)
    <2>1. PICK r \in Readings : Evaluate(c, r)
      BY <1>2
    <2>2. /\ r \in Reading /\ cur[c] \in Row
          /\ cur[c] = loaded[c]
      BY <2>1, ReadingsType DEF TypeOK, Evaluate, ReadingInv
    <2>3. /\ pc'[c] = "recording" /\ loaded'[c] = cur[c]
          /\ cur'[c] = ApplyResult(cur[c], r)
          /\ result'[c] = r /\ event'[c] = Decide(cur[c], r)
      BY <2>1, <2>2 DEF Evaluate, TypeOK
    <2>4. AtTarget(ApplyResult(cur[c], r), r) <=> AtTarget(cur[c], r)
      BY <2>2, ApplyColumns DEF AtTarget
    <2>5. Recorded(c)'
      BY <2>2, <2>3, <2>4, ApplyColumns, EvaluateRecords DEF Recorded, RemindersAfter
    <2> QED  BY <2>3, <2>5
  <1>3. CASE FetchFails(c)
    <2>1. /\ pc'[c] = "recording" /\ loaded'[c] = cur[c]
          /\ cur'[c] = [cur[c] EXCEPT !.checked = TRUE]
          /\ result'[c] = NoReading /\ event'[c] = "none" /\ cur[c] \in Row
      BY <1>3 DEF FetchFails, TypeOK, ReadingInv
    <2>2. /\ cur'[c].last_status = cur[c].last_status
          /\ cur'[c].reminders_sent = cur[c].reminders_sent
          /\ cur'[c].price_target_hit = cur[c].price_target_hit
      BY <2>1 DEF Row
    <2>3. /\ NoReading.status = "UNKNOWN" /\ ~NoReading.readable /\ NoReading.price = NoPrice
      BY DEF NoReading, Partial
    <2>4. Recorded(c)'
      BY <2>1, <2>2, <2>3 DEF Recorded, StatusAfter
    <2> QED  BY <2>1, <2>4
  <1>4. CASE Record(c)
    <2>1. CASE Stop(c)
      BY <2>1 DEF Stop, TypeOK
    <2>2. CASE ~Stop(c)
      BY <1>4, <2>2 DEF Record, TypeOK
    <2> QED  BY <2>1, <2>2
  <1>5. CASE Stamp(c)
    BY <1>5 DEF Stamp, TypeOK
  <1>6. CASE Send(c) \/ Abandon(c)
    BY <1>6 DEF Send, Abandon, Stop, TypeOK
  <1> QED
    BY <1>1, <1>2, <1>3, <1>4, <1>5, <1>6 DEF Check

LEMMA ReadingNext == TypeOK /\ ReadingInv /\ [Next]_vars => ReadingInv'
  <1> SUFFICES ASSUME TypeOK, ReadingInv, [Next]_vars PROVE ReadingInv'
    OBVIOUS
  <1>1. CASE \E c \in Checkers : Check(c)
    <2>1. PICK c \in Checkers : Check(c)
      BY <1>1
    <2>2. \A d \in Checkers : d # c => (Recorded(d) => Recorded(d)')
      BY <2>1, OwnSession DEF Recorded
    <2>3. \A d \in Checkers : d # c => Session(d)'
      BY <2>1, <2>2, OwnSession DEF ReadingInv, Session
    <2> QED  BY <2>1, <2>3, CheckKeepsReading DEF ReadingInv
  <1>2. CASE Dashboard \/ ShopMoves \/ UNCHANGED vars
    <2>1. UNCHANGED checks
      BY <1>2 DEF Dashboard, OpenForm, UpdateWatch, ToggleWatch, Save, DeleteWatch,
                  ShopMoves, vars, checks
    <2> QED  BY <2>1 DEF checks, ReadingInv, Session, Recorded
  <1>3. CASE Tick
    <2>1. /\ UNCHANGED <<pc, result, event>>
          /\ \A c \in Checkers : loaded'[c] = AgeRow(loaded[c]) /\ cur'[c] = AgeRow(cur[c])
          /\ \A c \in Checkers : loaded[c] \in Row /\ cur[c] \in Row
      BY <1>3 DEF Tick, TypeOK
    <2>2. ASSUME NEW c \in Checkers, Recorded(c) PROVE Recorded(c)'
      <3> DEFINE w == loaded[c]
                 n == cur[c]
      <3>1. /\ w \in Row /\ n \in Row /\ loaded'[c] = AgeRow(w) /\ cur'[c] = AgeRow(n)
            /\ result'[c] = result[c] /\ event'[c] = event[c]
        BY <2>1
      <3>2. /\ AtTarget(AgeRow(n), result[c]) <=> AtTarget(n, result[c])
            /\ StatusAfter(AgeRow(w), result[c]) = StatusAfter(w, result[c])
        BY <3>1, AgeColumns DEF AtTarget, StatusAfter
      <3> QED  BY <2>2, <3>1, <3>2, AgeColumns DEF Recorded
    <2> QED  BY <2>1, <2>2 DEF ReadingInv, Session
  <1>4. CASE Crash
    BY <1>4 DEF Crash, ReadingInv, Session
  <1> QED
    BY <1>1, <1>2, <1>3, <1>4 DEF Next

-----------------------------------------------------------------------------
(* What the steps do to the row and to the observer, column by column.     *)

\* The columns these invariants speak of.
SameColumns(a, b) ==
    /\ a.last_status = b.last_status /\ a.reminders_sent = b.reminders_sent
    /\ a.price_target_hit = b.price_target_hit
    /\ a.checked = b.checked /\ a.listing_seen = b.listing_seen

LEMMA FlushColumns ==
    ASSUME NEW row \in Row, NEW old \in Row, NEW new \in Row, NEW stamped
    PROVE  LET f == Flush(row, old, new, stamped)
           IN  /\ f.last_status =
                    IF "last_status" \in stamped \/ new.last_status # old.last_status
                    THEN new.last_status ELSE row.last_status
               /\ f.reminders_sent =
                    IF "reminders_sent" \in stamped \/ new.reminders_sent # old.reminders_sent
                    THEN new.reminders_sent ELSE row.reminders_sent
               /\ f.price_target_hit =
                    IF "price_target_hit" \in stamped
                         \/ new.price_target_hit # old.price_target_hit
                    THEN new.price_target_hit ELSE row.price_target_hit
               /\ f.checked =
                    IF "checked" \in stamped \/ new.checked # old.checked
                    THEN new.checked ELSE row.checked
               /\ f.listing_seen =
                    IF "listing_seen" \in stamped \/ new.listing_seen # old.listing_seen
                    THEN new.listing_seen ELSE row.listing_seen
  BY DEF Flush, Row

\* The first commit of a check: what the session changed, and nothing else.
LEMMA RecordColumns ==
    ASSUME TypeOK, NEW c \in Checkers, Record(c)
    PROVE  LET w == loaded[c]
               n == cur[c]
           IN  /\ db'.last_status =
                    IF n.last_status # w.last_status THEN n.last_status ELSE db.last_status
               /\ db'.reminders_sent =
                    IF n.reminders_sent # w.reminders_sent
                    THEN n.reminders_sent ELSE db.reminders_sent
               /\ db'.price_target_hit =
                    IF n.price_target_hit # w.price_target_hit
                    THEN n.price_target_hit ELSE db.price_target_hit
               /\ db'.listing_seen =
                    IF n.listing_seen # w.listing_seen THEN n.listing_seen ELSE db.listing_seen
               /\ db'.checked = n.checked
  <1>1. db \in Row /\ loaded[c] \in Row /\ cur[c] \in Row
    BY DEF TypeOK
  <1>2. db' = Flush(db, loaded[c], cur[c], {"checked"})
    BY DEF Record
  <1> QED
    BY <1>1, <1>2, FlushColumns

\* The second one writes the time of the alert.
LEMMA StampColumns ==
    ASSUME TypeOK, ReadingInv, NEW c \in Checkers, Stamp(c)
    PROVE  SameColumns(db', db)
  <1> DEFINE new == [cur[c] EXCEPT !.notified_age = 0]
  <1>1. db \in Row /\ loaded[c] \in Row /\ cur[c] \in Row /\ cur[c] = loaded[c]
    BY DEF TypeOK, ReadingInv, Session, Stamp
  <1>2. new \in Row /\ SameColumns(new, cur[c])
    <2>1. 0 \in Ages
      BY TimesAssumption DEF Ages, AgeCap
    <2> QED  BY <1>1, <2>1 DEF Row, SameColumns
  <1>3. db' = Flush(db, loaded[c], new, {"notified_age"})
    BY DEF Stamp, TypeOK
  <1> HIDE DEF new
  <1> QED
    BY <1>1, <1>2, <1>3, FlushColumns DEF SameColumns

\* No other step of a check writes the row.
LEMMA OtherColumns ==
    ASSUME NEW c \in Checkers, Check(c), ~Record(c), ~Stamp(c)
    PROVE  UNCHANGED db
  BY DEF Check, Begin, Evaluate, FetchFails, Send, Abandon

LEMMA RecordNotes ==
    ASSUME TypeOK, NEW c \in Checkers, NEW w, NEW r, NEW e, NoteRecord(c, w, r, e)
    PROVE  /\ hist'.verdict = IF IsVerdict(r) THEN r.status ELSE hist.verdict
           /\ hist'.walled = (~IsVerdict(r) /\ (hist.walled \/ r.readable))
           /\ hist'.streak = IF r.readable /\ r.status # "IN_STOCK" THEN 0 ELSE hist.streak
           /\ hist'.listing = ListingAfter(hist.listing, r)
           /\ hist'.dip_left =
                IF e # "none" /\ AtTarget(w, r) /\ c \notin hist.stale THEN FALSE
                ELSE hist.dip_left \/ (r.readable /\ r.price # NoPrice
                                       /\ ~(r.status = "IN_STOCK" /\ AtTarget(w, r)))
           /\ hist'.stale = hist.stale
  BY DEF NoteRecord, TypeOK, HistRecord

\* Nothing but a record, a stamp or the form changes what the observer knows of
\* readings, reminders and dips.
LEMMA OtherNotes ==
    ASSUME TypeOK
    PROVE  /\ \A c \in Checkers : NoteBegin(c) =>
                /\ hist'.verdict = hist.verdict /\ hist'.walled = hist.walled /\ hist'.streak = hist.streak
                /\ hist'.listing = hist.listing /\ hist'.dip_left = hist.dip_left
                /\ hist'.stale = hist.stale \ {c}
           /\ \A c, e : NoteStamp(c, e) =>
                /\ hist'.verdict = hist.verdict /\ hist'.walled = hist.walled
                /\ hist'.streak = IF e = "reminder" THEN CountReminder(hist.streak)
                                  ELSE hist.streak
                /\ hist'.listing = hist.listing /\ hist'.dip_left = hist.dip_left
                /\ hist'.stale = hist.stale
  BY DEF NoteBegin, NoteStamp, TypeOK, HistRecord

\* The form writes none of the columns that only checks write.  It writes
\* price_target_hit when it moves the target, and then every check under way counts
\* as stale; the baseline only when the first-seen box is ticked.
LEMMA FormColumns ==
    ASSUME TypeOK, UpdateWatch \/ ToggleWatch
    PROVE  /\ UNCHANGED <<pc, loaded, cur, result, event, shelf>>
           /\ db'.last_status = db.last_status /\ db'.reminders_sent = db.reminders_sent
           /\ hist'.verdict = hist.verdict /\ hist'.walled = hist.walled /\ hist'.streak = hist.streak
           /\ \/ /\ hist'.listing = hist.listing
                 /\ db'.checked = db.checked /\ db'.listing_seen = db.listing_seen
              \/ hist'.listing = IF db'.checked \/ UnderWay # {} THEN "blind" ELSE "unread"
           /\ \/ /\ hist'.dip_left = hist.dip_left /\ hist'.stale = hist.stale
                 /\ db'.price_target_hit = db.price_target_hit
              \/ /\ hist'.dip_left
                 /\ hist'.stale = {c \in Checkers : pc[c] # "idle"}
  <1>1. form \in Row /\ db \in Row
    BY DEF TypeOK
  <1>2. PICK new \in Row :
          /\ Save(new)
          /\ new.last_status = form.last_status /\ new.reminders_sent = form.reminders_sent
          /\ \/ new.notify_on_first_seen /\ ~form.notify_on_first_seen
             \/ new.checked = form.checked /\ new.listing_seen = form.listing_seen
          /\ new.price_target = form.price_target =>
               new.price_target_hit = form.price_target_hit
    <2>1. CASE UpdateWatch
      <3>1. /\ form.price_target \in Targets \cup {NoTarget}
            /\ form.notify_on_first_seen \in BOOLEAN
        BY <1>1, RowFacts
      <3>2. PICK target \in Targets \cup {NoTarget}, optIn \in BOOLEAN :
              Save(ApplyForm(form, target, optIn))
        BY <2>1, <3>1 DEF UpdateWatch
      <3> DEFINE new == ApplyForm(form, target, optIn)
      <3>3. /\ new.last_status = form.last_status /\ new.reminders_sent = form.reminders_sent
            /\ \/ new.notify_on_first_seen /\ ~form.notify_on_first_seen
               \/ new.checked = form.checked /\ new.listing_seen = form.listing_seen
            /\ new.price_target = form.price_target =>
                 new.price_target_hit = form.price_target_hit
        BY <1>1, <3>1 DEF ApplyForm, Row
      <3>4. new \in Row
        BY <1>1, ApplyFormType
      <3> HIDE DEF new
      <3> QED  BY <3>2, <3>3, <3>4 DEF new
    <2>2. CASE ToggleWatch
      <3> DEFINE new == [form EXCEPT !.enabled = ~@]
      <3>1. /\ new \in Row /\ SameColumns(new, form)
        BY <1>1 DEF Row, SameColumns
      <3>2. Save(new)
        BY <2>2 DEF ToggleWatch
      <3> HIDE DEF new
      <3> QED  BY <3>1, <3>2 DEF SameColumns
    <2> QED  BY <2>1, <2>2
  <1>3. db' = db \/ db' = Flush(db, form, new, {})
    BY <1>2 DEF Save
  <1>4. /\ db'.last_status = db.last_status /\ db'.reminders_sent = db.reminders_sent
        /\ new.checked = form.checked /\ new.listing_seen = form.listing_seen =>
             db'.checked = db.checked /\ db'.listing_seen = db.listing_seen
        /\ new.price_target = form.price_target =>
             db'.price_target_hit = db.price_target_hit
    BY <1>1, <1>2, <1>3, FlushColumns
  <1>5. UNCHANGED <<pc, loaded, cur, result, event, shelf>> /\ NoteForm(new)
    BY <1>2 DEF Save, checks, shop
  <1>6. /\ hist'.verdict = hist.verdict /\ hist'.walled = hist.walled /\ hist'.streak = hist.streak
        /\ hist'.listing = IF new.notify_on_first_seen /\ ~form.notify_on_first_seen
                           THEN IF db'.checked \/ UnderWay # {} THEN "blind" ELSE "unread"
                           ELSE hist.listing
        /\ hist'.dip_left = (hist.dip_left \/ new.price_target # form.price_target)
        /\ hist'.stale = IF new.price_target # form.price_target THEN UnderWay ELSE hist.stale
        /\ hist.dip_left \in BOOLEAN
    BY <1>5 DEF NoteForm, TypeOK, HistRecord
  <1>7. \/ /\ hist'.listing = hist.listing
           /\ db'.checked = db.checked /\ db'.listing_seen = db.listing_seen
        \/ hist'.listing = IF db'.checked \/ UnderWay # {} THEN "blind" ELSE "unread"
    <2>1. CASE new.notify_on_first_seen /\ ~form.notify_on_first_seen
      BY <1>6, <2>1
    <2>2. CASE ~(new.notify_on_first_seen /\ ~form.notify_on_first_seen)
      BY <1>2, <1>4, <1>6, <2>2
    <2> QED  BY <2>1, <2>2
  <1>8. \/ /\ hist'.dip_left = hist.dip_left /\ hist'.stale = hist.stale
           /\ db'.price_target_hit = db.price_target_hit
        \/ hist'.dip_left /\ hist'.stale = UnderWay
    BY <1>4, <1>6
  <1> QED
    BY <1>4, <1>5, <1>6, <1>7, <1>8 DEF UnderWay

\* A session that ends holds nothing any more.
LEMMA StopColumns ==
    ASSUME TypeOK, NEW c \in Checkers, Stop(c)
    PROVE  /\ pc'[c] = "idle" /\ result'[c] = NoReading /\ event'[c] = "none"
           /\ loaded'[c] = NoRow
  BY DEF Stop, TypeOK

-----------------------------------------------------------------------------
(* The columns that only checks write, seen from the only check there is.  *)

\* The row remembers the last verdict, unless a wall wiped it out, and as many reminders as
\* were sent since it last showed the product gone; a reminder that is to be stamped
\* has been counted already.
SoleInv ==
    /\ hist.verdict = "IN_STOCK" /\ ~hist.walled => db.last_status = "IN_STOCK"
    /\ Reminders >= 0 => hist.streak <= db.reminders_sent
    /\ \A c \in Checkers :
         /\ pc[c] \in {"fetching", "recording"} =>
              /\ loaded[c].last_status = db.last_status
              /\ loaded[c].reminders_sent = db.reminders_sent
         /\ pc[c] = "stamping" /\ event[c] = "reminder" /\ Reminders >= 0 =>
              hist.streak < db.reminders_sent

LEMMA SoleInit == Init => SoleInv
  BY RemindersAssumption DEF Init, SoleInv, NewRow

LEMMA CheckKeepsSole ==
    ASSUME NEW c, Checkers = {c}, TypeOK, ReadingInv, SoleInv, Check(c)
    PROVE  SoleInv'
  <1> USE DEF SoleInv
  <1>1. CASE Begin(c)
    <2>1. /\ UNCHANGED db /\ loaded'[c] = db /\ pc'[c] = "fetching"
          /\ hist'.verdict = hist.verdict /\ hist'.walled = hist.walled /\ hist'.streak = hist.streak
      BY <1>1, OtherNotes DEF Begin, TypeOK
    <2> QED  BY <2>1
  <1>2. CASE (\E r \in Readings : Evaluate(c, r)) \/ FetchFails(c)
    <2>1. /\ UNCHANGED <<db, loaded, hist>> /\ pc[c] = "fetching" /\ pc'[c] = "recording"
      BY <1>2 DEF Evaluate, FetchFails, TypeOK
    <2> QED  BY <2>1
  <1>3. CASE Record(c)
    <2>1. /\ pc[c] = "recording" /\ Recorded(c)
          /\ NoteRecord(c, cur[c], result[c], event[c])
      BY <1>3 DEF Record, ReadingInv, Session
    <2>2. /\ loaded[c].last_status = db.last_status
          /\ loaded[c].reminders_sent = db.reminders_sent
      BY <2>1
    <2>3. /\ db'.last_status = cur[c].last_status
          /\ db'.reminders_sent = cur[c].reminders_sent
      BY <1>3, <2>2, RecordColumns
    <2>4. /\ hist'.verdict = IF IsVerdict(result[c]) THEN result[c].status ELSE hist.verdict
          /\ hist'.walled = (~IsVerdict(result[c]) /\ (hist.walled \/ result[c].readable))
          /\ hist'.streak = IF result[c].readable /\ result[c].status # "IN_STOCK" THEN 0
                            ELSE hist.streak
      BY <2>1, RecordNotes
    <2>5. pc'[c] \in {"idle", "stamping"} /\ (pc'[c] = "stamping" => event'[c] = event[c])
      BY <1>3, StopColumns DEF Record, TypeOK
    <2>6. /\ hist.streak \in Nat /\ db.reminders_sent \in 0..ReminderCap
          /\ cur[c].reminders_sent \in 0..ReminderCap
      BY RowFacts DEF TypeOK, HistRecord
    <2>7. hist'.verdict = "IN_STOCK" /\ ~hist'.walled => db'.last_status = "IN_STOCK"
      BY <2>1, <2>2, <2>3, <2>4 DEF Recorded, StatusAfter, IsVerdict
    <2>8. ASSUME Reminders >= 0
          PROVE  /\ hist'.streak <= db'.reminders_sent
                 /\ event[c] = "reminder" => hist'.streak < db'.reminders_sent
      <3>1. hist.streak <= db.reminders_sent
        BY <2>8
      <3>2. CASE event[c] = "reminder"
        <4>1. db'.reminders_sent = db.reminders_sent + 1
          BY <2>1, <2>2, <2>3, <2>8, <3>2, RemindersAssumption DEF Recorded, CountReminder
        <4>2. hist'.streak = hist.streak
          BY <2>1, <2>4, <3>2 DEF Recorded
        <4> QED  BY <2>6, <3>1, <4>1, <4>2
      <3>3. CASE event[c] # "reminder"
        BY <2>1, <2>2, <2>3, <2>4, <2>6, <3>1, <3>3 DEF Recorded
      <3> QED  BY <3>2, <3>3
    <2> QED  BY <2>5, <2>7, <2>8
  <1>4. CASE Stamp(c)
    <2>1. /\ pc[c] = "stamping" /\ pc'[c] = "sending" /\ NoteStamp(c, event[c])
      BY <1>4 DEF Stamp, TypeOK
    <2>2. SameColumns(db', db)
      BY <1>4, StampColumns
    <2>3. /\ hist'.verdict = hist.verdict /\ hist'.walled = hist.walled
          /\ hist'.streak = IF event[c] = "reminder" THEN CountReminder(hist.streak)
                            ELSE hist.streak
      BY <2>1, OtherNotes
    <2>4. hist.streak \in Nat /\ db.reminders_sent \in 0..ReminderCap
      BY RowFacts DEF TypeOK, HistRecord
    <2>5. Reminders >= 0 => hist'.streak <= db'.reminders_sent
      BY <2>1, <2>2, <2>3, <2>4, RemindersAssumption DEF SameColumns, CountReminder, ReminderCap
    <2> QED  BY <2>1, <2>2, <2>3, <2>5 DEF SameColumns
  <1>5. CASE Send(c) \/ Abandon(c)
    <2>1. UNCHANGED <<db, hist>> /\ pc'[c] = "idle"
      BY <1>5, StopColumns DEF Send, Abandon
    <2> QED  BY <2>1
  <1> QED
    BY <1>1, <1>2, <1>3, <1>4, <1>5 DEF Check

LEMMA SoleNext ==
    ASSUME NEW job, Checkers = {job}, TypeOK, ReadingInv, SoleInv, [Next]_vars
    PROVE  SoleInv'
  <1>1. CASE \E c \in Checkers : Check(c)
    BY <1>1, CheckKeepsSole
  <1>2. CASE UpdateWatch \/ ToggleWatch
    BY <1>2, FormColumns DEF SoleInv
  <1>3. CASE OpenForm \/ DeleteWatch \/ UNCHANGED vars
    BY <1>3 DEF OpenForm, DeleteWatch, vars, checks, SoleInv
  <1>4. CASE ShopMoves
    BY <1>4, OtherNotes DEF ShopMoves, checks, SoleInv
  <1>5. CASE Tick
    <2>1. /\ UNCHANGED <<pc, event, hist>> /\ db' = AgeRow(db) /\ db \in Row
          /\ \A c \in Checkers : loaded'[c] = AgeRow(loaded[c]) /\ loaded[c] \in Row
      BY <1>5 DEF Tick, TypeOK
    <2> QED  BY <2>1, AgeColumns DEF SoleInv
  <1>6. CASE Crash
    BY <1>6 DEF Crash, SoleInv
  <1> QED
    BY <1>1, <1>2, <1>3, <1>4, <1>5, <1>6 DEF Next, Dashboard

LEMMA AlwaysSole ==
    ASSUME NEW job, Checkers = {job}
    PROVE  Spec => [](TypeOK /\ ReadingInv /\ SoleInv)
  <1>1. TypeOK /\ ReadingInv /\ SoleInv /\ [Next]_vars => SoleInv'
    BY SoleNext
  <1> QED
    BY <1>1, InitType, NextType, ReadingInit, ReadingNext, SoleInit, SoleNext, PTL DEF Spec

\* With one check of a watch at a time, RESTOCK_REMINDERS caps the repeats of one
\* streak, through unreadable pages, failed fetches, edits, restarts and reminders
\* that were counted but never stamped (_apply_result).
THEOREM RemindersAreCapped ==
    ASSUME NEW job, Checkers = {job}
    PROVE  Spec => []RemindersCapped
  <1>1. TypeOK /\ ReadingInv /\ SoleInv => RemindersCapped
    BY RowFacts, RemindersAssumption
       DEF TypeOK, SoleInv, RemindersCapped, ReminderCap, HistRecord
  <1> QED
    BY <1>1, AlwaysSole, PTL

\* With one check of a watch at a time, a restock is told only when the last page
\* with a verdict did not show the product in stock, or a bot wall was read since
\* (evaluate_transition, _apply_result).
THEOREM RestocksAreReal ==
    ASSUME NEW job, Checkers = {job}
    PROVE  Spec => NoPhantomRestock
  <1> DEFINE P == \A c \in Checkers : Decides(c, "restock") =>
                    hist.verdict # "IN_STOCK" \/ hist.walled
  <1>1. TypeOK /\ ReadingInv /\ SoleInv => P
    BY DEF Decides, ReadingInv, Session, Recorded, SoleInv
  <1> HIDE DEF P
  <1>2. Spec => [][P]_vars
    BY <1>1, AlwaysSole, PTL DEF Spec
  <1> QED
    BY <1>2 DEF NoPhantomRestock, P

\* Unless the price was seen to rise, or the target moved, since the alert that
\* showed it, the row still has the target as hit; a check that began before the
\* target moved finds the dip open again.
DipInv ==
    /\ ~hist.dip_left => db.price_target_hit
    /\ \A c \in Checkers :
         /\ pc[c] # "idle" /\ c \in hist.stale => hist.dip_left
         /\ pc[c] \in {"fetching", "recording"} /\ c \notin hist.stale =>
              loaded[c].price_target_hit = db.price_target_hit
         /\ result[c].price # NoPrice => result[c].readable

LEMMA DipInit == Init => DipInv
  BY DEF Init, DipInv, NoReading, Partial

\* Unless a page without a stock signal can show a price, only a page that could be
\* read shows one.
LEMMA PricesAreReadable ==
    ASSUME "priced_partial" \notin PageFaults, NEW r \in Readings
    PROVE  r.price # NoPrice => r.readable
  <1>1. Truth.readable
    BY DEF Truth
  <1>2. Partial(NoPrice).price = NoPrice /\ Unsure.price = NoPrice
    BY DEF Partial, Unsure
  <1>3. r \in {Truth, Partial(NoPrice), Unsure}
    BY DEF Readings
  <1> QED
    BY <1>1, <1>2, <1>3

LEMMA CheckKeepsDip ==
    ASSUME "priced_partial" \notin PageFaults,
           NEW c, Checkers = {c}, TypeOK, ReadingInv, DipInv, Check(c)
    PROVE  DipInv'
  <1> USE DEF DipInv
  <1>1. CASE Begin(c)
    <2>1. /\ UNCHANGED <<db, result>> /\ loaded'[c] = db
          /\ hist'.dip_left = hist.dip_left /\ hist'.stale = hist.stale \ {c}
      BY <1>1, OtherNotes DEF Begin, TypeOK
    <2> QED  BY <2>1
  <1>2. CASE \E r \in Readings : Evaluate(c, r)
    <2>1. PICK r \in Readings : Evaluate(c, r)
      BY <1>2
    <2>2. /\ UNCHANGED <<db, loaded, hist>> /\ pc[c] = "fetching" /\ pc'[c] = "recording"
          /\ result'[c] = r
      BY <2>1 DEF Evaluate, TypeOK
    <2> QED  BY <2>2, PricesAreReadable
  <1>3. CASE FetchFails(c)
    <2>1. /\ UNCHANGED <<db, loaded, hist, result>> /\ pc[c] = "fetching"
          /\ pc'[c] = "recording"
      BY <1>3 DEF FetchFails, TypeOK
    <2> QED  BY <2>1
  <1>4. CASE Record(c)
    <2> DEFINE n == cur[c]
               r == result[c]
    <2>1. /\ pc[c] = "recording" /\ Recorded(c)
          /\ NoteRecord(c, n, r, event[c])
      BY <1>4 DEF Record, ReadingInv, Session
    <2>2. /\ db'.price_target_hit =
               IF n.price_target_hit # loaded[c].price_target_hit
               THEN n.price_target_hit ELSE db.price_target_hit
      BY <1>4, RecordColumns
    <2>3. /\ hist'.dip_left =
               IF event[c] # "none" /\ AtTarget(n, r) /\ c \notin hist.stale THEN FALSE
               ELSE hist.dip_left \/ (r.readable /\ r.price # NoPrice
                                      /\ ~(r.status = "IN_STOCK" /\ AtTarget(n, r)))
          /\ hist'.stale = hist.stale
      BY <2>1, RecordNotes, ZenonT(30)
    <2>4. /\ event[c] # "none" /\ AtTarget(n, r) => n.price_target_hit
          /\ loaded[c].price_target_hit /\ ~n.price_target_hit =>
               r.price # NoPrice /\ ~(r.status = "IN_STOCK" /\ AtTarget(n, r))
      BY <2>1 DEF Recorded
    <2>5. /\ hist.dip_left \in BOOLEAN /\ db.price_target_hit \in BOOLEAN
          /\ loaded[c].price_target_hit \in BOOLEAN /\ n.price_target_hit \in BOOLEAN
      BY RowFacts DEF TypeOK, HistRecord
    <2>6. r.price # NoPrice => r.readable
      OBVIOUS
    <2>7. /\ c \in hist.stale => hist.dip_left
          /\ c \notin hist.stale => loaded[c].price_target_hit = db.price_target_hit
          /\ ~hist.dip_left => db.price_target_hit
      BY <2>1
    <2> HIDE DEF n, r
    <2>8. ~hist'.dip_left => db'.price_target_hit
      BY <2>2, <2>3, <2>4, <2>5, <2>6, <2>7
    <2>9. c \in hist'.stale => hist'.dip_left
      BY <2>3, <2>7
    <2>10. /\ pc'[c] \in {"idle", "stamping"}
           /\ result'[c] = NoReading \/ result'[c] = result[c]
      BY <1>4, StopColumns DEF Record, TypeOK
    <2>11. result'[c].price # NoPrice => result'[c].readable
      BY <2>10 DEF NoReading, Partial
    <2> QED  BY <2>8, <2>9, <2>10, <2>11
  <1>5. CASE Stamp(c)
    <2>1. /\ pc[c] = "stamping" /\ pc'[c] = "sending" /\ UNCHANGED result
          /\ hist'.dip_left = hist.dip_left /\ hist'.stale = hist.stale
      BY <1>5, OtherNotes DEF Stamp, TypeOK
    <2>2. SameColumns(db', db)
      BY <1>5, StampColumns
    <2> QED  BY <2>1, <2>2 DEF SameColumns
  <1>6. CASE Send(c) \/ Abandon(c)
    <2>1. UNCHANGED <<db, hist>> /\ pc'[c] = "idle" /\ result'[c] = NoReading
      BY <1>6, StopColumns DEF Send, Abandon
    <2> QED  BY <2>1 DEF NoReading, Partial
  <1> QED
    BY <1>1, <1>2, <1>3, <1>4, <1>5, <1>6 DEF Check

LEMMA DipNext ==
    ASSUME "priced_partial" \notin PageFaults, NEW job, Checkers = {job},
           TypeOK, ReadingInv, DipInv, [Next]_vars
    PROVE  DipInv'
  <1>1. CASE \E c \in Checkers : Check(c)
    BY <1>1, CheckKeepsDip
  <1>2. CASE UpdateWatch \/ ToggleWatch
    BY <1>2, FormColumns DEF DipInv
  <1>3. CASE OpenForm \/ DeleteWatch \/ UNCHANGED vars
    BY <1>3 DEF OpenForm, DeleteWatch, vars, checks, DipInv
  <1>4. CASE ShopMoves
    BY <1>4, OtherNotes DEF ShopMoves, checks, DipInv
  <1>5. CASE Tick
    <2>1. /\ UNCHANGED <<pc, result, hist>> /\ db' = AgeRow(db) /\ db \in Row
          /\ \A c \in Checkers : loaded'[c] = AgeRow(loaded[c]) /\ loaded[c] \in Row
      BY <1>5 DEF Tick, TypeOK
    <2> QED  BY <2>1, AgeColumns DEF DipInv
  <1>6. CASE Crash
    BY <1>6 DEF Crash, DipInv, NoReading, Partial
  <1> QED
    BY <1>1, <1>2, <1>3, <1>4, <1>5, <1>6 DEF Next, Dashboard

\* With one check of a watch at a time, and as long as no page without a stock signal
\* still shows a price, the price alert fires once per dip: whatever the target is
\* moved to while a check runs, and however often the process restarts between the
\* alert and its stamp (evaluate_price_target, _apply_watch_form).
THEOREM PriceAlertsArePerDip ==
    ASSUME NEW job, Checkers = {job}, "priced_partial" \notin PageFaults
    PROVE  Spec => PriceAlertPerDip
  <1> DEFINE P == \A c \in Checkers : Decides(c, "price_drop") => hist.dip_left
  <1>1. TypeOK /\ ReadingInv /\ DipInv => P
    <2> SUFFICES ASSUME TypeOK, ReadingInv, DipInv, NEW c \in Checkers, Decides(c, "price_drop")
                 PROVE  hist.dip_left
      OBVIOUS
    <2>1. ~loaded[c].price_target_hit /\ pc[c] = "recording"
      BY DEF Decides, ReadingInv, Session, Recorded
    <2>2. hist.dip_left \in BOOLEAN
      BY DEF TypeOK, HistRecord
    <2> QED  BY <2>1, <2>2 DEF DipInv
  <1>2. TypeOK /\ ReadingInv /\ DipInv /\ [Next]_vars => DipInv'
    BY DipNext
  <1> HIDE DEF P
  <1>3. Spec => [][P]_vars
    BY <1>1, <1>2, InitType, NextType, ReadingInit, ReadingNext, DipInit, PTL DEF Spec
  <1> QED
    BY <1>3 DEF PriceAlertPerDip, P

-----------------------------------------------------------------------------
(* The silent baseline, for any number of checks.                          *)

\* The news of a new product: an earlier check found it not listed, or the first
\* check to end had failed, or was under way when the first-seen box was ticked.
Excused == hist.listing \in {"unlisted", "blind"}

\* Without that, a row that was ever checked has seen the product listed, and so
\* has every session, and none of them saw more than the row has; and whoever has
\* an alert to send has read a page.
SessionBaseline(c) ==
    /\ ~Excused /\ pc[c] # "idle" =>
         /\ loaded[c].listing_seen => db.listing_seen
         /\ loaded[c].checked => loaded[c].listing_seen
    /\ pc[c] = "recording" =>
         /\ result[c].listed => cur[c].listing_seen
         /\ result[c].listed \/ result[c].readable \/ event[c] = "none"

BaselineInv ==
    /\ ~Excused /\ db.checked => db.listing_seen
    /\ hist.listing = "listed" => db.listing_seen
    /\ \A c \in Checkers : SessionBaseline(c)

LEMMA BaselineInit == Init => BaselineInv
  BY DEF Init, NoRow, NewRow, BaselineInv, SessionBaseline

\* A page that came back says something of the listing.
LEMMA ReadingsTell ==
    ASSUME NEW r \in Readings
    PROVE  r.listed \/ r.readable
  <1>1. Truth.readable /\ Unsure.listed /\ \A p : Partial(p).listed
    BY DEF Truth, Unsure, Partial
  <1> QED
    BY <1>1 DEF Readings

LEMMA CheckKeepsBaseline ==
    ASSUME TypeOK, ReadingInv, SeenInv, BaselineInv, NEW c \in Checkers, Check(c)
    PROVE  BaselineInv'
  <1>1. /\ ~Excused /\ db.checked => db.listing_seen
        /\ hist.listing = "listed" => db.listing_seen
    BY DEF BaselineInv
  <1>2. SessionBaseline(c) /\ \A d \in Checkers : SessionBaseline(d)
    BY DEF BaselineInv
  \* It is enough to look at the row, the observer and the session itself.
  <1>4. ASSUME Excused => Excused',
               ~Excused /\ db.listing_seen => db'.listing_seen,
               ~Excused' /\ db'.checked => db'.listing_seen,
               hist'.listing = "listed" => db'.listing_seen,
               SessionBaseline(c)'
        PROVE  BaselineInv'
    <2>1. \A d \in Checkers : d # c => SessionBaseline(d)'
      BY <1>2, <1>4, OwnSession DEF SessionBaseline
    <2> QED  BY <1>4, <2>1 DEF BaselineInv
  <1>5. CASE Begin(c)
    <2>1. /\ UNCHANGED db /\ loaded'[c] = db /\ pc'[c] = "fetching"
          /\ hist'.listing = hist.listing
      BY <1>5, OtherNotes DEF Begin, TypeOK
    <2> QED  BY <1>1, <1>4, <2>1 DEF SessionBaseline, Excused
  <1>6. CASE \E r \in Readings : Evaluate(c, r)
    <2>1. PICK r \in Readings : Evaluate(c, r)
      BY <1>6
    <2>2. /\ UNCHANGED <<db, loaded, hist>> /\ pc[c] = "fetching" /\ pc'[c] = "recording"
          /\ result'[c] = r /\ cur'[c] = ApplyResult(cur[c], r)
          /\ cur[c] \in Row /\ r \in Reading
      BY <2>1, ReadingsType DEF Evaluate, TypeOK
    <2>3. r.listed => cur'[c].listing_seen
      <3>1. cur'[c].listing_seen = SeenAfter(cur[c], r)
        BY <2>2, ApplyColumns
      <3> QED  BY <3>1 DEF SeenAfter
    <2> QED  BY <1>1, <1>2, <1>4, <2>2, <2>3, ReadingsTell DEF SessionBaseline, Excused
  <1>7. CASE FetchFails(c)
    <2>1. /\ UNCHANGED <<db, loaded, hist, result, event>> /\ pc[c] = "fetching"
          /\ pc'[c] = "recording" /\ result[c] = NoReading /\ event[c] = "none"
      BY <1>7 DEF FetchFails, TypeOK, ReadingInv, Session
    <2>2. ~NoReading.listed
      BY DEF NoReading
    <2> QED  BY <1>1, <1>2, <1>4, <2>1, <2>2 DEF SessionBaseline, Excused
  <1>8. CASE Record(c)
    <2> DEFINE r == result[c]
    <2>1. /\ pc[c] = "recording" /\ NoteRecord(c, cur[c], r, event[c])
      BY <1>8 DEF Record
    <2>2. hist'.listing = ListingAfter(hist.listing, r)
      BY <2>1, RecordNotes
    <2>3. db'.listing_seen = IF cur[c].listing_seen # loaded[c].listing_seen
                             THEN cur[c].listing_seen ELSE db.listing_seen
      BY <1>8, RecordColumns
    <2>4. /\ cur[c].listing_seen \in BOOLEAN /\ loaded[c].listing_seen \in BOOLEAN
          /\ db.listing_seen \in BOOLEAN
          /\ loaded[c].listing_seen => cur[c].listing_seen
      BY RowFacts DEF TypeOK, SeenInv
    <2>5. ~Excused /\ loaded[c].listing_seen => db.listing_seen
      BY <1>2, <2>1 DEF SessionBaseline
    <2>6. ~Excused /\ (db.listing_seen \/ cur[c].listing_seen) => db'.listing_seen
      BY <2>3, <2>4, <2>5
    <2>7. /\ r.listed => cur[c].listing_seen
          /\ r.listed \/ r.readable \/ event[c] = "none"
      BY <1>2, <2>1 DEF SessionBaseline
    <2>8. hist.listing \in {"unread", "blind", "listed", "unlisted"}
      BY DEF TypeOK, HistRecord
    <2>9. /\ Excused => Excused'
          /\ ~Excused' \/ hist'.listing = "listed" => r.listed \/ (~r.readable /\ hist.listing = "listed")
      BY <2>2, <2>8 DEF Excused, ListingAfter
    <2>10. ~Excused' \/ hist'.listing = "listed" => db'.listing_seen
      BY <1>1, <2>6, <2>7, <2>9 DEF Excused
    <2>11. \/ pc'[c] = "idle" /\ loaded'[c] = NoRow
           \/ pc'[c] = "stamping" /\ loaded'[c] = cur[c] /\ event[c] # "none"
      BY <1>8, StopColumns DEF Record, TypeOK
    <2>12. SessionBaseline(c)'
      BY <2>6, <2>7, <2>9, <2>11 DEF SessionBaseline, NoRow, NewRow
    <2> QED  BY <1>4, <2>6, <2>9, <2>10, <2>12
  <1>9. CASE Stamp(c)
    <2>1. /\ pc[c] = "stamping" /\ pc'[c] = "sending" /\ UNCHANGED loaded
          /\ hist'.listing = hist.listing
      BY <1>9, OtherNotes DEF Stamp, TypeOK
    <2>2. SameColumns(db', db)
      BY <1>9, StampColumns
    <2> QED  BY <1>1, <1>2, <1>4, <2>1, <2>2 DEF SameColumns, SessionBaseline, Excused
  <1>10. CASE Send(c) \/ Abandon(c)
    <2>1. UNCHANGED <<db, hist>> /\ pc'[c] = "idle" /\ loaded'[c] = NoRow
      BY <1>10, StopColumns DEF Send, Abandon
    <2> QED  BY <1>1, <1>4, <2>1 DEF SessionBaseline, NoRow, NewRow, Excused
  <1> QED
    BY <1>5, <1>6, <1>7, <1>8, <1>9, <1>10 DEF Check

LEMMA BaselineNext ==
    ASSUME TypeOK, ReadingInv, SeenInv, BaselineInv, [Next]_vars
    PROVE  BaselineInv'
  <1>1. CASE \E c \in Checkers : Check(c)
    BY <1>1, CheckKeepsBaseline
  <1>2. CASE UpdateWatch \/ ToggleWatch
    <2>1. /\ UNCHANGED <<pc, loaded, cur, result, event>>
          /\ \/ /\ hist'.listing = hist.listing
                /\ db'.checked = db.checked /\ db'.listing_seen = db.listing_seen
             \/ hist'.listing = "blind"
             \/ hist'.listing = "unread" /\ ~db'.checked /\ UnderWay = {}
      BY <1>2, FormColumns
    <2> QED  BY <2>1 DEF BaselineInv, SessionBaseline, Excused, UnderWay
  <1>3. CASE OpenForm \/ DeleteWatch \/ UNCHANGED vars
    BY <1>3 DEF OpenForm, DeleteWatch, vars, checks, shop, BaselineInv, SessionBaseline, Excused
  <1>4. CASE ShopMoves
    BY <1>4 DEF ShopMoves, checks, BaselineInv, SessionBaseline, Excused
  <1>5. CASE Tick
    <2>1. /\ UNCHANGED <<pc, result, event, hist>> /\ db' = AgeRow(db) /\ db \in Row
          /\ \A c \in Checkers : /\ loaded'[c] = AgeRow(loaded[c]) /\ loaded[c] \in Row
                                 /\ cur'[c] = AgeRow(cur[c]) /\ cur[c] \in Row
      BY <1>5 DEF Tick, TypeOK
    <2> QED  BY <2>1, AgeColumns DEF BaselineInv, SessionBaseline, Excused
  <1>6. CASE Crash
    BY <1>6 DEF Crash, BaselineInv, SessionBaseline, NoRow, NewRow, Excused
  <1> QED
    BY <1>1, <1>2, <1>3, <1>4, <1>5, <1>6 DEF Next, Dashboard

\* Only what an earlier check found not listed is announced as new, except in stock
\* and to a watch that asked for it, or when the very first check to end had failed
\* or began before the first-seen box was ticked: for any number of checks at once, on
\* whatever stale copies of the row (evaluate_transition, _apply_watch_form).
THEOREM BaselineIsSilent == Spec => SilentBaseline
  <1> DEFINE P == \A c \in Checkers : Decides(c, "new_listing") =>
                    \/ hist.listing \in {"unlisted", "blind"}
                    \/ cur[c].notify_on_first_seen /\ result[c].status = "IN_STOCK"
  <1>1. TypeOK /\ ReadingInv /\ BaselineInv => P
    BY DEF Decides, ReadingInv, Session, Recorded, BaselineInv, SessionBaseline, Excused
  <1>2. TypeOK /\ ReadingInv /\ SeenInv /\ BaselineInv /\ [Next]_vars => BaselineInv'
    BY BaselineNext
  <1> HIDE DEF P
  <1>3. Spec => [][P]_vars
    BY <1>1, <1>2, InitType, NextType, ReadingInit, ReadingNext, SeenInit, SeenNext,
       BaselineInit, PTL DEF Spec
  <1> QED
    BY <1>3 DEF SilentBaseline, P

\* What the shop did not change is not told as news: neither a restock nor a new
\* listing, but for the bot wall and the unread first check that NewsIsNews names.
\* The premise is that of the restocks.
THEOREM OnlyNewsIsNews ==
    ASSUME NEW job, Checkers = {job}
    PROVE  Spec => NewsIsNews
  BY RestocksAreReal, BaselineIsSilent DEF NewsIsNews
=============================================================================
