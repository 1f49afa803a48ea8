------------------------ MODULE KeywordPingerProofs ------------------------
(***************************************************************************)
(* Theorems about KeywordPinger, and the dispatch under it, for every set   *)
(* of messages, alerts and coroutines and every list of channels.           *)
(***************************************************************************)
EXTENDS KeywordPinger, TLAPS

Wire == [meant: SUBSET Channels, got: [Channels -> Nat], unsure: SUBSET Channels]

\* A channel that is left has no row yet; if anything arrived there its answer was
\* lost.
LeftIsUnwritten(s) ==
    \A i \in left[s] :
        /\ \A r \in records[s] : r.channel # Notifiers[i]
        /\ wire[s].got[Notifiers[i]] > 0 => Notifiers[i] \in wire[s].unsure

\* HistoryIsHonest, of one sender.
WrittenIsHonest(s) ==
    \A r \in records[s] :
        r.channel # NoChannel =>
            /\ r.success => wire[s].got[r.channel] > 0
            /\ wire[s].got[r.channel] > (IF r.success THEN 1 ELSE 0) => r.channel \in wire[s].unsure

\* A channel that was meant has its row or is left.
MeantIsCounted(s) ==
    /\ left[s] = {} => records[s] # {}
    /\ \A c \in wire[s].meant :
          (\E r \in records[s] : r.channel = c) \/ (\E i \in left[s] : Notifiers[i] = c)

DispatchInv ==
    /\ DispatchTypeOK
    /\ wire \in [Senders -> Wire]
    /\ \A s \in Senders : LeftIsUnwritten(s) /\ WrittenIsHonest(s)

Hist == [met: [Alerts -> [Texts -> Ages]], listed: [Senders -> SUBSET Links],
         owed: SUBSET (Senders \X Alerts \X {"row", "message"})]

\* The observer and the button keep to what there is.
Kept ==
    /\ hist \in Hist
    /\ buttons \subseteq {Link[m] : m \in Messages}
    /\ \A s \in Senders :
          /\ pc[s] # "idle" => msg[s] \in Messages
          /\ pc[s] \in {"idle", "loaded"} => fired[s] = {}

PostingCounts == \A s \in Senders : pc[s] = "posting" => MeantIsCounted(s)

\* _recent forgets what is older than the window, and nothing else.
RecentIsMet ==
    \A a \in Alerts, t \in Texts :
        \/ hist.met[a][t] = recent[a][t]
        \/ recent[a][t] = Never /\ hist.met[a][t] > Window

\* The block list only grows, and a coroutine that goes on was let through.
PassedIsUnlisted ==
    \A s \in Senders :
        /\ hist.listed[s] \subseteq blocked
        /\ pc[s] \notin {"idle", "loaded"} => Link[msg[s]] \notin hist.listed[s]

Inv ==
    /\ TypeOK
    /\ DispatchInv
    /\ Kept
    /\ PostingCounts
    /\ NothingVanishes
    /\ RecentIsMet
    /\ PassedIsUnlisted

-----------------------------------------------------------------------------
(* A dispatch.                                                             *)

\* Nothing is under way for the others that was not before.
Elsewhere(s) ==
    \A q \in Senders : q # s =>
        left'[q] = left[q] /\ records'[q] = records[q] /\ wire'[q] = wire[q]

LEMMA ElsewhereKeeps ==
    ASSUME DispatchInv, NEW s \in Senders, Elsewhere(s),
           LeftIsUnwritten(s)', WrittenIsHonest(s)'
    PROVE  \A q \in Senders : LeftIsUnwritten(q)' /\ WrittenIsHonest(q)'
  <1> TAKE q \in Senders
  <1>1. CASE q # s
    <2>1. left'[q] = left[q] /\ records'[q] = records[q] /\ wire'[q] = wire[q]
      BY <1>1 DEF Elsewhere
    <2>2. LeftIsUnwritten(q) /\ WrittenIsHonest(q)
      BY DEF DispatchInv
    <2> QED BY <2>1, <2>2 DEF LeftIsUnwritten, WrittenIsHonest
  <1> QED BY <1>1

LEMMA NothingPostedType == NothingPosted \in Wire
  BY DEF NothingPosted, Wire

\* A dispatch starts with an empty slate.
LEMMA BeginFacts ==
    ASSUME DispatchInv, NEW s \in Senders, NEW matching \in SUBSET Channels, NEW quiet \in BOOLEAN,
           Begin(s, matching, quiet), left[s] = {}, records[s] = {}
    PROVE  DispatchInv' /\ Elsewhere(s) /\ MeantIsCounted(s)'
  <1>1. /\ wire'[s] = [NothingPosted EXCEPT !.meant = matching]
        /\ wire' \in [Senders -> Wire] /\ tries' \in [Senders -> 0..(Attempts - 1)]
    <2>1. [NothingPosted EXCEPT !.meant = matching] \in Wire
      BY DEF NothingPosted, Wire
    <2>2. 0 \in 0..(Attempts - 1)
      BY AttemptsAssumption
    <2> QED BY <2>1, <2>2 DEF Begin, DispatchInv, DispatchTypeOK
  <1>2. wire'[s].meant = matching /\ wire'[s].got = [c \in Channels |-> 0]
    BY <1>1 DEF NothingPosted
  <1>3. CASE matching = {} \/ quiet
    <2>1. records'[s] = RowsAtOnce(matching) /\ records' = [records EXCEPT ![s] = RowsAtOnce(matching)] /\ UNCHANGED left
      BY <1>3 DEF Begin, DispatchInv, DispatchTypeOK
    <2>2. /\ RowsAtOnce(matching) \subseteq Row /\ RowsAtOnce(matching) # {}
          /\ \A r \in RowsAtOnce(matching) : ~r.success
          /\ \A r \in RowsAtOnce(matching) : r.channel # NoChannel => r.channel \in Channels
          /\ \A c \in matching : \E r \in RowsAtOnce(matching) : r.channel = c
      <3>1. CASE matching = {}
        <4>1. [channel |-> NoChannel, success |-> FALSE] \in RowsAtOnce(matching)
          BY <3>1 DEF RowsAtOnce, RowsOf
        <4> QED BY <3>1, <4>1 DEF RowsAtOnce, RowsOf, Row
      <3>2. CASE matching # {}
        <4>1. \A c \in matching : [channel |-> c, success |-> FALSE] \in RowsAtOnce(matching)
          BY <3>2 DEF RowsAtOnce, RowsOf
        <4> QED BY <3>2, <4>1 DEF RowsAtOnce, RowsOf, Row
      <3> QED BY <3>1, <3>2
    <2>3. DispatchTypeOK'
      BY <1>1, <2>1, <2>2 DEF DispatchInv, DispatchTypeOK
    <2>4. LeftIsUnwritten(s)'
      BY <2>1 DEF LeftIsUnwritten
    <2>5. WrittenIsHonest(s)'
      BY <1>2, <2>1, <2>2 DEF WrittenIsHonest
    <2>6. Elsewhere(s)
      BY <2>1 DEF Begin, Elsewhere, DispatchInv, DispatchTypeOK
    <2>7. MeantIsCounted(s)'
      BY <1>2, <2>1, <2>2 DEF MeantIsCounted
    <2> QED BY <1>1, <2>3, <2>4, <2>5, <2>6, <2>7, ElsewhereKeeps DEF DispatchInv
  <1>4. CASE matching # {} /\ ~quiet
    <2> DEFINE some == {i \in DOMAIN Notifiers : Notifiers[i] \in matching}
    <2>1. left'[s] = some /\ left' = [left EXCEPT ![s] = some] /\ UNCHANGED records
      BY <1>4 DEF Begin, DispatchInv, DispatchTypeOK
    <2>2. some \in SUBSET DOMAIN Notifiers /\ \A c \in matching : \E i \in some : Notifiers[i] = c
      BY DEF Channels
    <2>3. DispatchTypeOK'
      BY <1>1, <2>1, <2>2 DEF DispatchInv, DispatchTypeOK
    <2>4. LeftIsUnwritten(s)'
      <3>1. \A i \in some : Notifiers[i] \in Channels
        BY DEF Channels
      <3> QED BY <1>2, <2>1, <3>1 DEF LeftIsUnwritten
    <2>5. WrittenIsHonest(s)'
      BY <2>1 DEF WrittenIsHonest
    <2>6. Elsewhere(s)
      BY <2>1 DEF Begin, Elsewhere, DispatchInv, DispatchTypeOK
    <2>7. MeantIsCounted(s)'
      BY <1>2, <1>4, <2>1, <2>2 DEF MeantIsCounted
    <2> QED BY <1>1, <2>3, <2>4, <2>5, <2>6, <2>7, ElsewhereKeeps DEF DispatchInv
  <1> QED BY <1>3, <1>4

\* What a channel is known to have got after one more post to c.
Heard(s, c, answer, arrived) ==
    /\ wire' \in [Senders -> Wire]
    /\ \A q \in Senders : q # s => wire'[q] = wire[q]
    /\ wire'[s].meant = wire[s].meant
    /\ \A d \in Channels : d # c => wire'[s].got[d] = wire[s].got[d]
    /\ wire'[s].got[c] = IF arrived THEN wire[s].got[c] + 1 ELSE wire[s].got[c]
    /\ wire'[s].unsure = IF answer = "lost" THEN wire[s].unsure \cup {c} ELSE wire[s].unsure

LEMMA PostWire ==
    ASSUME wire \in [Senders -> Wire], NEW s \in Senders, NEW c \in Channels,
           NEW answer, NEW arrived \in BOOLEAN,
           NoteHeard(s, c, answer, arrived)
    PROVE  Heard(s, c, answer, arrived)
  <1>1. wire[s] \in Wire /\ wire[s].got \in [Channels -> Nat]
    BY DEF Wire
  <1> DEFINE more == IF arrived THEN wire[s].got[c] + 1 ELSE wire[s].got[c]
             now  == IF answer = "lost" THEN wire[s].unsure \cup {c} ELSE wire[s].unsure
             got  == [wire[s].got EXCEPT ![c] = more]
  <1>2. more \in Nat /\ now \in SUBSET Channels
    BY <1>1 DEF Wire
  <1>3. got \in [Channels -> Nat] /\ got[c] = more /\ \A d \in Channels : d # c => got[d] = wire[s].got[d]
    BY <1>1, <1>2
  <1>4. wire' = [wire EXCEPT ![s] = [wire[s] EXCEPT !.got = got, !.unsure = now]]
    BY <1>1 DEF NoteHeard, Wire
  <1>5. wire'[s] = [wire[s] EXCEPT !.got = got, !.unsure = now]
    BY <1>4
  <1> HIDE DEF got, now
  <1>6. wire'[s].got = got /\ wire'[s].unsure = now /\ wire'[s].meant = wire[s].meant /\ wire'[s] \in Wire
    BY <1>1, <1>2, <1>3, <1>5 DEF Wire
  <1>7. wire' \in [Senders -> Wire] /\ \A q \in Senders : q # s => wire'[q] = wire[q]
    BY <1>4, <1>5, <1>6
  <1> QED BY <1>3, <1>6, <1>7 DEF Heard, now

\* A post that gets its answer adds the row of its channel; one that is to be
\* tried again adds nothing.
LEMMA PostFacts ==
    ASSUME DispatchInv, NEW s \in Senders, NEW answer \in Answers, NEW arrived \in BOOLEAN,
           Post(s, answer, arrived)
    PROVE  DispatchInv' /\ Elsewhere(s) /\ (MeantIsCounted(s) => MeantIsCounted(s)')
  <1>1. PICK first \in left[s] :
            /\ answer = "ok" => arrived
            /\ answer \in {"limited", "refused"} => ~arrived
            /\ NoteHeard(s, Notifiers[first], answer, arrived)
            /\ IF Answered(s, answer) = "again"
               THEN /\ tries' = [tries EXCEPT ![s] = @ + 1]
                    /\ UNCHANGED <<left, records>>
               ELSE /\ tries' = [tries EXCEPT ![s] = 0]
                    /\ left' = [left EXCEPT ![s] = @ \ {first}]
                    /\ records' = [records EXCEPT ![s] =
                           @ \cup {[channel |-> Notifiers[first], success |-> Answered(s, answer) = "success"]}]
    BY DEF Post
  <1> DEFINE c == Notifiers[first]
  <1>2. first \in DOMAIN Notifiers /\ c \in Channels
    BY DEF DispatchInv, DispatchTypeOK, Channels
  <1>3. wire \in [Senders -> Wire]
    BY DEF DispatchInv
  <1>4. /\ wire' \in [Senders -> Wire]
        /\ \A q \in Senders : q # s => wire'[q] = wire[q]
        /\ wire'[s].meant = wire[s].meant
        /\ \A d \in Channels : d # c => wire'[s].got[d] = wire[s].got[d]
        /\ wire'[s].got[c] = IF arrived THEN wire[s].got[c] + 1 ELSE wire[s].got[c]
        /\ wire'[s].unsure = IF answer = "lost" THEN wire[s].unsure \cup {c} ELSE wire[s].unsure
    <2>1. NoteHeard(s, c, answer, arrived)
      BY <1>1
    <2>2. Heard(s, c, answer, arrived)
      BY <1>2, <1>3, <2>1, PostWire
    <2> QED BY <2>2 DEF Heard
  <1>5. wire[s].got[c] \in Nat
    BY <1>2, <1>3 DEF Wire
  \* Of the other channels nothing more is known; of this one no more than before,
  \* unless its answer was lost or said that the post arrived.
  <1>6. /\ \A r \in records[s] : r.channel # c
        /\ wire[s].got[c] > 0 => c \in wire[s].unsure
    BY <1>2 DEF DispatchInv, LeftIsUnwritten
  <1>7. \A i \in left[s] : i # first => Notifiers[i] \in Channels /\ Notifiers[i] # c
    BY <1>2, NotifiersAssumption DEF DispatchInv, DispatchTypeOK, Channels
  <1>8. \A r \in records[s] : r.channel # NoChannel =>
            /\ r.channel \in Channels
            /\ wire'[s].got[r.channel] = wire[s].got[r.channel]
            /\ r.channel \in wire[s].unsure => r.channel \in wire'[s].unsure
    BY <1>4, <1>6 DEF DispatchInv, DispatchTypeOK, Row
  <1>9. CASE Answered(s, answer) = "again"
    <2>1. tries' = [tries EXCEPT ![s] = @ + 1] /\ UNCHANGED <<left, records>>
      BY <1>1, <1>9
    <2>2. answer # "ok" /\ tries[s] + 1 < Attempts
      BY <1>9 DEF Answered
    <2>3. DispatchTypeOK'
      BY <2>1, <2>2, AttemptsAssumption DEF DispatchInv, DispatchTypeOK
    <2>4. LeftIsUnwritten(s)'
      <3>1. wire'[s].got[c] > 0 => c \in wire'[s].unsure
        BY <1>1, <1>4, <1>5, <1>6, <1>9, <2>2 DEF Answers
      <3>2. ASSUME NEW i \in left[s], i # first
            PROVE  wire'[s].got[Notifiers[i]] > 0 => Notifiers[i] \in wire'[s].unsure
        BY <1>4, <1>7, <3>2 DEF DispatchInv, LeftIsUnwritten
      <3> QED BY <2>1, <3>1, <3>2 DEF DispatchInv, LeftIsUnwritten
    <2>5. WrittenIsHonest(s)'
      BY <1>8, <2>1 DEF DispatchInv, WrittenIsHonest
    <2>6. Elsewhere(s)
      BY <1>4, <2>1 DEF Elsewhere
    <2>7. MeantIsCounted(s) => MeantIsCounted(s)'
      BY <1>4, <2>1 DEF MeantIsCounted
    <2> QED BY <1>4, <2>3, <2>4, <2>5, <2>6, <2>7, ElsewhereKeeps DEF DispatchInv
  <1>10. CASE Answered(s, answer) # "again"
    <2> DEFINE row == [channel |-> c, success |-> Answered(s, answer) = "success"]
    <2>1. /\ tries' = [tries EXCEPT ![s] = 0]
          /\ left' = [left EXCEPT ![s] = left[s] \ {first}]
          /\ records' = [records EXCEPT ![s] = records[s] \cup {row}]
      BY <1>1, <1>10
    <2>2. left'[s] = left[s] \ {first} /\ records'[s] = records[s] \cup {row}
      BY <2>1 DEF DispatchInv, DispatchTypeOK
    <2>3. row \in Row /\ row.channel = c /\ (row.success <=> answer = "ok")
      BY <1>2 DEF Row, Answered
    <2>4. DispatchTypeOK'
      BY <2>1, <2>3, AttemptsAssumption DEF DispatchInv, DispatchTypeOK
    <2>5. LeftIsUnwritten(s)'
      <3>1. ASSUME NEW i \in left[s], i # first
            PROVE  wire'[s].got[Notifiers[i]] > 0 => Notifiers[i] \in wire'[s].unsure
        BY <1>4, <1>7, <3>1 DEF DispatchInv, LeftIsUnwritten
      <3>2. ASSUME NEW i \in left[s], i # first, NEW r \in records[s] \cup {row}
            PROVE  r.channel # Notifiers[i]
        BY <1>7, <2>3, <3>2 DEF DispatchInv, LeftIsUnwritten
      <3> QED BY <2>2, <3>1, <3>2 DEF LeftIsUnwritten
    <2>6. WrittenIsHonest(s)'
      <3>1. /\ answer = "ok" => wire'[s].got[c] > 0
            /\ wire'[s].got[c] > (IF answer = "ok" THEN 1 ELSE 0) => c \in wire'[s].unsure
        BY <1>1, <1>4, <1>5, <1>6 DEF Answers
      <3>2. ASSUME NEW r \in records[s], r.channel # NoChannel
            PROVE  /\ r.success => wire'[s].got[r.channel] > 0
                   /\ wire'[s].got[r.channel] > (IF r.success THEN 1 ELSE 0) => r.channel \in wire'[s].unsure
        BY <1>8, <3>2 DEF DispatchInv, WrittenIsHonest
      <3> QED BY <2>2, <2>3, <3>1, <3>2 DEF WrittenIsHonest
    <2>7. Elsewhere(s)
      BY <1>4, <2>1 DEF Elsewhere
    <2>8. MeantIsCounted(s) => MeantIsCounted(s)'
      BY <1>4, <2>2, <2>3 DEF MeantIsCounted
    <2> QED BY <1>4, <2>4, <2>5, <2>6, <2>7, <2>8, ElsewhereKeeps DEF DispatchInv
  <1> QED BY <1>9, <1>10

\* A commit, and a rollback, leave a sender with nothing.
LEMMA CommittedFacts ==
    ASSUME DispatchInv, NEW s \in Senders, Committed(s)
    PROVE  DispatchInv' /\ Elsewhere(s) /\ left'[s] = {} /\ records'[s] = {}
  <1>1. /\ left'[s] = {} /\ records'[s] = {} /\ wire' \in [Senders -> Wire] /\ Elsewhere(s)
        /\ DispatchTypeOK'
    BY NothingPostedType DEF Committed, DispatchInv, DispatchTypeOK, Elsewhere
  <1>2. LeftIsUnwritten(s)' /\ WrittenIsHonest(s)'
    BY <1>1 DEF LeftIsUnwritten, WrittenIsHonest
  <1> QED BY <1>1, <1>2, ElsewhereKeeps DEF DispatchInv

LEMMA DroppedFacts ==
    ASSUME DispatchInv, NEW who \in SUBSET Senders, Dropped(who)
    PROVE  /\ DispatchInv'
           /\ \A s \in who : left'[s] = {} /\ records'[s] = {}
           /\ \A s \in Senders \ who :
                 left'[s] = left[s] /\ records'[s] = records[s] /\ wire'[s] = wire[s]
  <1>1. /\ \A s \in who : left'[s] = {} /\ records'[s] = {}
        /\ \A s \in Senders \ who :
              left'[s] = left[s] /\ records'[s] = records[s] /\ wire'[s] = wire[s]
        /\ wire' \in [Senders -> Wire]
    BY NothingPostedType DEF Dropped, DispatchInv
  <1>2. DispatchTypeOK'
    BY AttemptsAssumption DEF Dropped, DispatchInv, DispatchTypeOK
  <1>3. ASSUME NEW s \in Senders
        PROVE  LeftIsUnwritten(s)' /\ WrittenIsHonest(s)'
    BY <1>1 DEF DispatchInv, LeftIsUnwritten, WrittenIsHonest
  <1> QED BY <1>1, <1>2, <1>3 DEF DispatchInv

-----------------------------------------------------------------------------
(* What the observer notes.                                                *)

LEMMA AgeType ==
    ASSUME NEW n \in Ages
    PROVE  /\ Age(n) \in Ages
           /\ n = Never => Age(n) = Never
           /\ n > Window => Age(n) > Window
  BY WindowAssumption DEF Ages, Age, Never

LEMMA TextType ==
    ASSUME NEW m \in Messages
    PROVE  Text[m] \in Texts /\ Link[m] \in Links /\ HitBy[m] \subseteq Alerts
  BY HitByAssumption DEF Texts, Links

\* An entry that is renewed, of _recent or of the observer.
LEMMA RenewedFacts ==
    ASSUME NEW f \in [Alerts -> [Texts -> Ages]], NEW a \in Alerts, NEW t \in Texts,
           NEW g, g = [f EXCEPT ![a][t] = 0]
    PROVE  /\ g \in [Alerts -> [Texts -> Ages]] /\ g[a][t] = 0
           /\ \A b \in Alerts, u \in Texts : ~(b = a /\ u = t) => g[b][u] = f[b][u]
  BY WindowAssumption DEF Ages

LEMMA ArrivalFacts ==
    ASSUME hist \in Hist, blocked \subseteq Links, NEW s \in Senders, NoteArrival(s)
    PROVE  /\ hist' \in Hist /\ hist'.met = hist.met /\ hist'.owed = hist.owed
           /\ hist'.listed[s] = blocked
           /\ \A q \in Senders : q # s => hist'.listed[q] = hist.listed[q]
  BY DEF NoteArrival, Hist

LEMMA MetFacts ==
    ASSUME hist \in Hist, NEW s \in Senders, NEW a \in Alerts, NEW hit \in BOOLEAN,
           msg[s] \in Messages, NoteMet(s, a, hit)
    PROVE  /\ hist' \in Hist /\ hist'.listed = hist.listed
           /\ hist'.met[a][Text[msg[s]]] = 0
           /\ \A b \in Alerts, t \in Texts :
                ~(b = a /\ t = Text[msg[s]]) => hist'.met[b][t] = hist.met[b][t]
           /\ hist'.owed = IF hit THEN hist.owed \cup {<<s, a, "row">>, <<s, a, "message">>} ELSE hist.owed
  <1>1. hist.met \in [Alerts -> [Texts -> Ages]] /\ Text[msg[s]] \in Texts
    BY TextType DEF Hist
  <1> DEFINE met  == [hist.met EXCEPT ![a][Text[msg[s]]] = 0]
             owed == IF hit THEN hist.owed \cup {<<s, a, "row">>, <<s, a, "message">>} ELSE hist.owed
  <1>2. /\ met \in [Alerts -> [Texts -> Ages]] /\ met[a][Text[msg[s]]] = 0
        /\ \A b \in Alerts, t \in Texts : ~(b = a /\ t = Text[msg[s]]) => met[b][t] = hist.met[b][t]
    BY <1>1, RenewedFacts, ZenonT(30)
  <1>3. owed \in SUBSET (Senders \X Alerts \X {"row", "message"})
    BY DEF Hist
  <1>4. hist' = [hist EXCEPT !.met = met, !.owed = owed]
    BY DEF NoteMet, Hist
  <1> HIDE DEF met, owed
  <1>5. hist'.met = met /\ hist'.owed = owed /\ hist'.listed = hist.listed /\ hist' \in Hist
    BY <1>2, <1>3, <1>4 DEF Hist
  <1> QED BY <1>2, <1>5 DEF owed

\* Whatever takes something off the list of what is owed.
LEMMA OwedFacts ==
    ASSUME hist \in Hist, NEW rest, rest \subseteq hist.owed, hist' = [hist EXCEPT !.owed = rest]
    PROVE  hist' \in Hist /\ hist'.met = hist.met /\ hist'.listed = hist.listed /\ hist'.owed = rest
  BY DEF Hist

\* Time passes.
LEMMA AgedFacts ==
    ASSUME NEW f \in [Alerts -> [Texts -> Ages]],
           NEW g, g = [a \in Alerts |-> [t \in Texts |-> Age(f[a][t])]]
    PROVE  /\ g \in [Alerts -> [Texts -> Ages]]
           /\ \A a \in Alerts, t \in Texts : g[a][t] = Age(f[a][t])
  <1>1. \A a \in Alerts, t \in Texts : Age(f[a][t]) \in Ages
    BY AgeType
  <1> QED BY <1>1

LEMMA TickFacts ==
    ASSUME hist \in Hist, Tick
    PROVE  /\ hist' \in Hist /\ hist'.listed = hist.listed /\ hist'.owed = hist.owed
           /\ hist'.met = [a \in Alerts |-> [t \in Texts |-> Age(hist.met[a][t])]]
  <1> DEFINE met == [a \in Alerts |-> [t \in Texts |-> Age(hist.met[a][t])]]
  <1>1. hist.met \in [Alerts -> [Texts -> Ages]]
    BY DEF Hist
  <1>2. met \in [Alerts -> [Texts -> Ages]]
    BY <1>1, AgedFacts
  <1>3. hist' = [hist EXCEPT !.met = met]
    BY DEF Tick, Hist
  <1> HIDE DEF met
  <1>4. hist'.met = met /\ hist' \in Hist /\ hist'.listed = hist.listed /\ hist'.owed = hist.owed
    BY <1>2, <1>3 DEF Hist
  <1> QED BY <1>4 DEF met

\* is_duplicate leaves an entry as it was, or drops it if it is old.
LEMMA RememberFacts ==
    ASSUME recent \in [Alerts -> [Texts -> Ages]], NEW a \in Alerts, NEW t \in Texts,
           recent' = Remember(a, t)
    PROVE  /\ recent' \in [Alerts -> [Texts -> Ages]] /\ recent'[a][t] = 0
           /\ \A b \in Alerts, u \in Texts : ~(b = a /\ u = t) =>
                recent'[b][u] = IF recent[b][u] > Window THEN Never ELSE recent[b][u]
  <1> DEFINE entry(b, u) ==
        CASE b = a /\ u = t -> 0
          [] ~(b = a /\ u = t) /\ recent[b][u] > Window -> Never
          [] OTHER -> recent[b][u]
  <1>1. \A b \in Alerts, u \in Texts :
            /\ entry(b, u) \in Ages
            /\ b = a /\ u = t => entry(b, u) = 0
            /\ ~(b = a /\ u = t) =>
                 entry(b, u) = IF recent[b][u] > Window THEN Never ELSE recent[b][u]
    BY WindowAssumption DEF Ages, Never
  <1>2. recent' = [b \in Alerts |-> [u \in Texts |-> entry(b, u)]]
    BY DEF Remember
  <1> HIDE DEF entry
  <1>3. recent' \in [Alerts -> [Texts -> Ages]] /\ \A b \in Alerts, u \in Texts : recent'[b][u] = entry(b, u)
    BY <1>1, <1>2
  <1> QED BY <1>1, <1>3

-----------------------------------------------------------------------------
(* Types, and what each step does to the dispatch.                          *)

LEMMA InitInv == Init => Inv
  <1> SUFFICES ASSUME Init PROVE Inv
    OBVIOUS
  <1>1. DispatchInv
    BY NothingPostedType, AttemptsAssumption
    DEF Init, InitDispatch, DispatchInv, DispatchTypeOK, LeftIsUnwritten, WrittenIsHonest
  <1>2. TypeOK
    BY <1>1, BoundsAssumption DEF Init, InitDispatch, DispatchInv, TypeOK, Ages
  <1>3. Kept
    BY DEF Init, Kept, Hist, Ages
  <1>4. PostingCounts /\ NothingVanishes /\ RecentIsMet /\ PassedIsUnlisted
    BY DEF Init, PostingCounts, NothingVanishes, RecentIsMet, PassedIsUnlisted
  <1> QED BY <1>1, <1>2, <1>3, <1>4 DEF Inv

LEMMA DispatchRests ==
    ASSUME UNCHANGED dispatch
    PROVE  /\ DispatchInv => DispatchInv'
           /\ \A q \in Senders :
                left'[q] = left[q] /\ records'[q] = records[q] /\ (MeantIsCounted(q)' <=> MeantIsCounted(q))
  <1>1. left' = left /\ tries' = tries /\ records' = records /\ wire' = wire
    BY DEF dispatch
  <1> QED BY <1>1 DEF DispatchInv, DispatchTypeOK, LeftIsUnwritten, WrittenIsHonest, MeantIsCounted

\* What a step of s may do to the dispatches: one that posts has its rows counted,
\* one that does not has none.
Dispatched ==
    /\ DispatchInv'
    /\ \A q \in Senders :
          /\ pc'[q] = "posting" => MeantIsCounted(q)'
          /\ pc'[q] # "posting" => left'[q] = {} /\ records'[q] = {}

LEMMA DispatchedAtRest ==
    ASSUME Inv, UNCHANGED dispatch,
           \A q \in Senders : pc'[q] = "posting" <=> pc[q] = "posting"
    PROVE  Dispatched
  <1>1. DispatchInv' /\ \A q \in Senders :
            left'[q] = left[q] /\ records'[q] = records[q] /\ (MeantIsCounted(q)' <=> MeantIsCounted(q))
    BY DispatchRests DEF Inv
  <1> QED BY <1>1 DEF Inv, TypeOK, PostingCounts, Dispatched

\* A step of a dispatch, of one sender.
LEMMA DispatchedBy ==
    ASSUME Inv, NEW s \in Senders, DispatchInv', Elsewhere(s),
           \A q \in Senders : q # s => pc'[q] = pc[q],
           pc'[s] = "posting" => MeantIsCounted(s)',
           pc'[s] # "posting" => left'[s] = {} /\ records'[s] = {}
    PROVE  Dispatched
  <1>1. ASSUME NEW q \in Senders, q # s
        PROVE  /\ left'[q] = left[q] /\ records'[q] = records[q]
               /\ MeantIsCounted(q) => MeantIsCounted(q)'
    BY <1>1 DEF Elsewhere, MeantIsCounted
  <1> QED BY <1>1 DEF Inv, TypeOK, PostingCounts, Dispatched

\* Steps of a coroutine s, as its steps of the disjunction Next.
Steps(s) ==
    \/ \E m \in Messages : Arrive(s, m)
    \/ CheckBlocked(s)
    \/ \E a \in Alerts : Repeat(s, a) \/ Hit(s, a)
    \/ \E matching \in SUBSET Channels, quiet \in BOOLEAN : Dispatches(s, matching, quiet)
    \/ \E answer \in Answers, arrived \in BOOLEAN : Posts(s, answer, arrived)
    \/ Records(s)
    \/ Raises(s)
    \/ Messaging(s)
    \/ \E a \in Alerts, delivered \in BOOLEAN : SendsMessage(s, a, delivered)

LEMMA StepsDispatch ==
    ASSUME Inv, NEW s \in Senders, Steps(s)
    PROVE  Dispatched
  <1> USE DEF Inv
  <1>1. pc \in [Senders -> {"idle", "loaded", "matching", "waiting", "posting", "messaging"}] /\ DispatchInv
    BY DEF TypeOK
  <1>2. ASSUME NEW m \in Messages, Arrive(s, m) PROVE Dispatched
    BY <1>1, <1>2, DispatchedAtRest DEF Arrive
  <1>3. CASE CheckBlocked(s)
    BY <1>1, <1>3, DispatchedAtRest DEF CheckBlocked, Idle
  <1>4. ASSUME NEW a \in Alerts, Repeat(s, a) PROVE Dispatched
    BY <1>1, <1>4, DispatchedAtRest DEF Repeat
  <1>5. ASSUME NEW a \in Alerts, Hit(s, a) PROVE Dispatched
    BY <1>1, <1>5, DispatchedAtRest DEF Hit
  <1>6. ASSUME NEW matching \in SUBSET Channels, NEW quiet \in BOOLEAN, Dispatches(s, matching, quiet)
        PROVE  Dispatched
    <2>1. Begin(s, matching, quiet) /\ left[s] = {} /\ records[s] = {} /\ pc' = [pc EXCEPT ![s] = "posting"]
      BY <1>6 DEF Dispatches, TypeOK
    <2>2. DispatchInv' /\ Elsewhere(s) /\ MeantIsCounted(s)'
      BY <1>1, <2>1, BeginFacts
    <2> QED BY <1>1, <2>1, <2>2, DispatchedBy
  <1>7. ASSUME NEW answer \in Answers, NEW arrived \in BOOLEAN, Posts(s, answer, arrived)
        PROVE  Dispatched
    <2>1. Post(s, answer, arrived) /\ pc' = pc /\ pc[s] = "posting"
      BY <1>7 DEF Posts, handler
    <2>2. DispatchInv' /\ Elsewhere(s) /\ (MeantIsCounted(s) => MeantIsCounted(s)')
      BY <1>1, <2>1, PostFacts
    <2> QED BY <2>1, <2>2, DispatchedBy DEF PostingCounts
  <1>8. CASE Records(s)
    <2>1. Committed(s) /\ pc' = [pc EXCEPT ![s] = "matching"]
      BY <1>8 DEF Records
    <2>2. DispatchInv' /\ Elsewhere(s) /\ left'[s] = {} /\ records'[s] = {}
      BY <1>1, <2>1, CommittedFacts
    <2> QED BY <1>1, <2>1, <2>2, DispatchedBy
  <1>9. CASE Raises(s)
    <2>1. Dropped({s}) /\ pc' = [pc EXCEPT ![s] = "idle"]
      BY <1>9 DEF Raises, Idle
    <2>2. DispatchInv' /\ Elsewhere(s) /\ left'[s] = {} /\ records'[s] = {}
      BY <1>1, <2>1, DroppedFacts DEF Elsewhere
    <2> QED BY <1>1, <2>1, <2>2, DispatchedBy
  <1>10. CASE Messaging(s)
    BY <1>1, <1>10, DispatchedAtRest DEF Messaging, Idle
  <1>11. ASSUME NEW a \in Alerts, NEW delivered \in BOOLEAN, SendsMessage(s, a, delivered)
         PROVE  Dispatched
    BY <1>1, <1>11, DispatchedAtRest DEF SendsMessage, Idle
  <1> QED BY <1>2, <1>3, <1>4, <1>5, <1>6, <1>7, <1>8, <1>9, <1>10, <1>11 DEF Steps

LEMMA NextDispatch ==
    ASSUME Inv, [Next]_vars
    PROVE  Dispatched
  <1>1. CASE \E s \in Senders : Steps(s)
    BY <1>1, StepsDispatch
  <1>2. CASE (\E l \in Links : Press(l)) \/ Tick \/ UNCHANGED vars
    <2>1. UNCHANGED dispatch /\ pc' = pc
      BY <1>2 DEF Press, Tick, vars, handler
    <2> QED BY <2>1, DispatchedAtRest
  <1>3. CASE Restart
    <2>1. Dropped(Senders) /\ \A q \in Senders : pc'[q] = "idle"
      BY <1>3 DEF Restart
    <2>2. DispatchInv' /\ \A q \in Senders : left'[q] = {} /\ records'[q] = {}
      BY <2>1, DroppedFacts DEF Inv
    <2> QED BY <2>1, <2>2 DEF Dispatched
  <1> QED BY <1>1, <1>2, <1>3 DEF Next, Steps

-----------------------------------------------------------------------------
(* The handlers.                                                           *)

\* What a coroutine is at; its message, what it has to do and what it owes.
HandlerType ==
    /\ pc \in [Senders -> {"idle", "loaded", "matching", "waiting", "posting", "messaging"}]
    /\ msg \in [Senders -> Messages \cup {None}]
    /\ todo \in [Senders -> SUBSET Alerts] /\ fired \in [Senders -> SUBSET Alerts]
    /\ current \in [Senders -> Alerts \cup {None}]
    /\ \A s \in Senders :
        /\ IF pc[s] \in {"waiting", "posting"} THEN current[s] \in fired[s] ELSE current[s] = None
        /\ pc[s] # "idle" => msg[s] \in Messages
        /\ pc[s] \in {"idle", "loaded"} => fired[s] = {}

LEMMA HandlerTyped ==
    ASSUME TypeOK, Kept
    PROVE  HandlerType
  BY DEF TypeOK, Kept, HandlerType

\* A step of s leaves the other coroutines alone.
Others(s) ==
    \A q \in Senders : q # s =>
        /\ pc'[q] = pc[q] /\ msg'[q] = msg[q] /\ todo'[q] = todo[q]
        /\ current'[q] = current[q] /\ fired'[q] = fired[q]

LEMMA IdleFacts ==
    ASSUME HandlerType, NEW s \in Senders, Idle(s)
    PROVE  HandlerType' /\ Others(s) /\ pc'[s] = "idle" /\ fired'[s] = {}
  BY DEF Idle, HandlerType, Others

LEMMA StepsHandler ==
    ASSUME HandlerType, NEW s \in Senders, Steps(s)
    PROVE  HandlerType' /\ Others(s)
  <1>1. ASSUME NEW m \in Messages, Arrive(s, m) PROVE HandlerType' /\ Others(s)
    BY <1>1, TextType DEF Arrive, HandlerType, Others
  <1>2. CASE CheckBlocked(s)
    <2>1. CASE Idle(s)
      BY <2>1, IdleFacts
    <2>2. CASE ~Idle(s)
      BY <1>2, <2>2 DEF CheckBlocked, HandlerType, Others
    <2> QED BY <2>1, <2>2
  <1>3. ASSUME NEW a \in Alerts, Repeat(s, a) PROVE HandlerType' /\ Others(s)
    BY <1>3 DEF Repeat, HandlerType, Others
  <1>4. ASSUME NEW a \in Alerts, Hit(s, a) PROVE HandlerType' /\ Others(s)
    BY <1>4 DEF Hit, HandlerType, Others
  <1>5. ASSUME NEW matching \in SUBSET Channels, NEW quiet \in BOOLEAN, Dispatches(s, matching, quiet)
        PROVE  HandlerType' /\ Others(s)
    BY <1>5 DEF Dispatches, HandlerType, Others
  <1>6. ASSUME NEW answer \in Answers, NEW arrived \in BOOLEAN, Posts(s, answer, arrived)
        PROVE  HandlerType' /\ Others(s)
    BY <1>6 DEF Posts, handler, HandlerType, Others
  <1>7. CASE Records(s)
    BY <1>7 DEF Records, HandlerType, Others
  <1>8. CASE Raises(s)
    BY <1>8, IdleFacts DEF Raises
  <1>9. CASE Messaging(s)
    <2>1. CASE Idle(s)
      BY <2>1, IdleFacts
    <2>2. CASE ~Idle(s)
      BY <1>9, <2>2 DEF Messaging, HandlerType, Others
    <2> QED BY <2>1, <2>2
  <1>10. ASSUME NEW a \in Alerts, NEW delivered \in BOOLEAN, SendsMessage(s, a, delivered)
         PROVE  HandlerType' /\ Others(s)
    <2>1. CASE Idle(s)
      BY <2>1, IdleFacts
    <2>2. CASE ~Idle(s)
      BY <1>10, <2>2 DEF SendsMessage, HandlerType, Others
    <2> QED BY <2>1, <2>2
  <1> QED BY <1>1, <1>2, <1>3, <1>4, <1>5, <1>6, <1>7, <1>8, <1>9, <1>10 DEF Steps

\* The rest of the type invariant: the database, the counters and the observer.
RestType ==
    /\ blocked \subseteq Links
    /\ buttons \subseteq {Link[m] : m \in Messages}
    /\ recent \in [Alerts -> [Texts -> Ages]]
    /\ posted \in 0..MaxMessages /\ restarts \in 0..MaxRestarts
    /\ hist \in Hist

LEMMA StepsRest ==
    ASSUME HandlerType, RestType, NEW s \in Senders, Steps(s)
    PROVE  RestType'
  <1> USE DEF RestType
  <1>1. ASSUME NEW m \in Messages, Arrive(s, m) PROVE RestType'
    BY <1>1, ArrivalFacts, BoundsAssumption DEF Arrive
  <1>2. CASE CheckBlocked(s)
    BY <1>2 DEF CheckBlocked
  <1>3. ASSUME NEW a \in Alerts, NEW hit \in BOOLEAN, pc[s] = "matching", NoteMet(s, a, hit),
               recent' = Remember(a, Text[msg[s]]), UNCHANGED <<blocked, buttons, posted, restarts>>
        PROVE  RestType'
    <2>1. msg[s] \in Messages /\ Text[msg[s]] \in Texts
      BY <1>3, TextType DEF HandlerType
    <2> QED BY <1>3, <2>1, MetFacts, RememberFacts
  <1>4. ASSUME NEW a \in Alerts, Repeat(s, a) \/ Hit(s, a) PROVE RestType'
    BY <1>3, <1>4 DEF Repeat, Hit
  <1>5. ASSUME NEW matching \in SUBSET Channels, NEW quiet \in BOOLEAN, Dispatches(s, matching, quiet)
        PROVE  RestType'
    BY <1>5 DEF Dispatches
  <1>6. ASSUME NEW answer \in Answers, NEW arrived \in BOOLEAN, Posts(s, answer, arrived)
        PROVE  RestType'
    BY <1>6 DEF Posts
  <1>7. CASE Records(s)
    BY <1>7, OwedFacts DEF Records
  <1>8. CASE Raises(s)
    BY <1>8, OwedFacts DEF Raises, NoteLost
  <1>9. CASE Messaging(s)
    BY <1>9 DEF Messaging
  <1>10. ASSUME NEW a \in Alerts, NEW delivered \in BOOLEAN, SendsMessage(s, a, delivered)
         PROVE  RestType'
    <2>1. msg[s] \in Messages
      BY <1>10 DEF SendsMessage, HandlerType
    <2>2. hist' = [hist EXCEPT !.owed = hist.owed \ {<<s, a, "message">>}]
      BY <1>10 DEF SendsMessage
    <2>3. hist' \in Hist
      <3>1. hist \in Hist
        BY DEF RestType
      <3>2. hist.owed \ {<<s, a, "message">>} \subseteq hist.owed
        OBVIOUS
      <3> QED BY ONLY <2>2, <3>1, <3>2, OwedFacts
    <2> QED BY <1>10, <2>1, <2>3 DEF SendsMessage
  <1> QED BY <1>1, <1>2, <1>4, <1>5, <1>6, <1>7, <1>8, <1>9, <1>10 DEF Steps

LEMMA RestartFacts ==
    ASSUME hist \in Hist, Restart
    PROVE  /\ hist' \in Hist /\ hist'.owed = {} /\ hist'.listed = hist.listed
           /\ hist'.met = recent' /\ recent' = [a \in Alerts |-> [t \in Texts |-> Never]]
  <1>1. hist' = [hist EXCEPT !.owed = {}, !.met = [a \in Alerts |-> [t \in Texts |-> Never]]]
    BY DEF Restart
  <1>2. [a \in Alerts |-> [t \in Texts |-> Never]] \in [Alerts -> [Texts -> Ages]]
    BY DEF Ages
  <1> QED BY <1>1, <1>2 DEF Restart, Hist

\* The types of everything, and what the observer and the buttons keep to.
LEMMA NextType ==
    ASSUME Inv, [Next]_vars
    PROVE  TypeOK' /\ Kept' /\ DispatchInv' /\ PostingCounts'
  <1>2. HandlerType /\ RestType
    BY HandlerTyped DEF Inv, TypeOK, Kept, RestType
  <1>3. HandlerType' /\ RestType'
    <2>1. CASE \E s \in Senders : Steps(s)
      BY <1>2, <2>1, StepsHandler, StepsRest
    <2>2. ASSUME NEW l \in Links, Press(l) PROVE HandlerType' /\ RestType'
      <3>1. UNCHANGED handler /\ Cut[l] \in Links
        BY <1>2, <2>2 DEF Press, RestType, Links
      <3> QED BY <1>2, <2>2, <3>1 DEF Press, handler, HandlerType, RestType
    <2>3. CASE Tick
      <3>1. hist' \in Hist /\ recent' \in [Alerts -> [Texts -> Ages]]
        BY <1>2, <2>3, TickFacts, AgedFacts DEF Tick, RestType
      <3> QED BY <1>2, <2>3, <3>1 DEF Tick, handler, HandlerType, RestType
    <2>4. CASE Restart
      <3>1. hist' \in Hist /\ recent' \in [Alerts -> [Texts -> Ages]]
        BY <1>2, <2>4, RestartFacts DEF RestType, Ages
      <3> QED BY <1>2, <2>4, <3>1, BoundsAssumption DEF Restart, HandlerType, RestType
    <2>5. CASE UNCHANGED vars
      BY <1>2, <2>5 DEF vars, handler, HandlerType, RestType
    <2> QED BY <2>1, <2>2, <2>3, <2>4, <2>5 DEF Next, Steps
  <1>4. Dispatched
    BY NextDispatch
  <1>5. {Link[m] : m \in Messages} \subseteq Links
    BY DEF Links
  <1>6. TypeOK'
    BY <1>3, <1>4, <1>5 DEF HandlerType, RestType, Dispatched, DispatchInv, TypeOK
  <1>7. Kept'
    BY <1>3 DEF HandlerType, RestType, Kept
  <1> QED BY <1>4, <1>6, <1>7 DEF Dispatched, PostingCounts

-----------------------------------------------------------------------------
(* Nothing vanishes.                                                        *)

\* Where the coroutine of a hit is that has no row, or no direct message, yet.
OnItsWay(o) ==
    IF o[3] = "row"
    THEN pc[o[1]] \in {"waiting", "posting"} /\ current[o[1]] = o[2]
    ELSE pc[o[1]] # "idle" /\ o[2] \in fired[o[1]]

LEMMA OwedIsOnItsWay == NothingVanishes <=> \A o \in hist.owed : OnItsWay(o)
  BY DEF NothingVanishes, OnItsWay

\* A step of s adds to what s owes, if anything; the others are where they were.
LEMMA OwedByOthers ==
    ASSUME NothingVanishes, hist' \in Hist, NEW s \in Senders, Others(s),
           \A o \in hist'.owed : o[1] = s => OnItsWay(o)',
           \A o \in hist'.owed : o[1] # s => o \in hist.owed
    PROVE  NothingVanishes'
  <1>1. ASSUME NEW o \in hist'.owed, o[1] # s PROVE OnItsWay(o)'
    <2>1. OnItsWay(o) /\ o[1] \in Senders
      BY <1>1, OwedIsOnItsWay DEF Hist
    <2>2. pc'[o[1]] = pc[o[1]] /\ current'[o[1]] = current[o[1]] /\ fired'[o[1]] = fired[o[1]]
      BY <1>1, <2>1 DEF Others
    <2> QED BY <2>1, <2>2 DEF OnItsWay
  <1>2. \A o \in hist'.owed : OnItsWay(o)'
    BY <1>1
  <1> QED BY <1>2 DEF NothingVanishes, OnItsWay

\* At the commit of a ping the rows are complete.
LEMMA RecordsComplete ==
    ASSUME Inv, NEW s \in Senders, Records(s)
    PROVE  Complete(s)
  BY DEF Records, Committed, Inv, PostingCounts, MeantIsCounted, Complete

LEMMA StepsVanish ==
    ASSUME Inv, NEW s \in Senders, Steps(s), hist' \in Hist
    PROVE  NothingVanishes'
  <1>1. HandlerType /\ hist \in Hist /\ NothingVanishes /\ blocked \subseteq Links
    BY HandlerTyped DEF Inv, Kept, TypeOK
  <1>2. Others(s)
    BY <1>1, StepsHandler
  <1>3. \A o \in hist.owed : OnItsWay(o) /\ o[1] \in Senders /\ o[2] \in Alerts /\ o[3] \in {"row", "message"}
    BY <1>1, OwedIsOnItsWay DEF Hist
  \* Where nothing is added it suffices that what s still owes goes on.
  <1>4. ASSUME hist'.owed \subseteq hist.owed,
               \A o \in hist'.owed : o[1] = s /\ OnItsWay(o) => OnItsWay(o)'
        PROVE  NothingVanishes'
    <2>1. \A o \in hist'.owed : o[1] = s => OnItsWay(o)'
      BY <1>3, <1>4
    <2> QED BY <1>1, <1>2, <1>4, <2>1, OwedByOthers
  <1>5. ASSUME NEW m \in Messages, Arrive(s, m) PROVE NothingVanishes'
    <2>1. hist'.owed = hist.owed /\ pc[s] = "idle" /\ fired[s] = {}
      BY <1>1, <1>5, ArrivalFacts DEF Arrive, HandlerType
    <2>2. \A o \in hist.owed : o[1] = s => ~OnItsWay(o)
      BY <2>1 DEF OnItsWay
    <2> QED BY <1>4, <2>1, <2>2
  <1>6. CASE CheckBlocked(s)
    <2>1. hist'.owed = hist.owed /\ pc[s] = "loaded" /\ fired[s] = {}
      BY <1>1, <1>6 DEF CheckBlocked, HandlerType
    <2>2. \A o \in hist.owed : o[1] = s => ~OnItsWay(o)
      BY <2>1 DEF OnItsWay
    <2> QED BY <1>4, <2>1, <2>2
  <1>7. ASSUME NEW a \in Alerts, Repeat(s, a) PROVE NothingVanishes'
    <2>1. hist'.owed = hist.owed
      BY <1>1, <1>7, MetFacts DEF Repeat, HandlerType
    <2>2. UNCHANGED <<pc, current, fired>>
      BY <1>7 DEF Repeat
    <2> QED BY <1>4, <2>1, <2>2 DEF OnItsWay
  <1>8. ASSUME NEW a \in Alerts, Hit(s, a) PROVE NothingVanishes'
    <2>1. hist'.owed = hist.owed \cup {<<s, a, "row">>, <<s, a, "message">>}
      BY <1>1, <1>8, MetFacts DEF Hit, HandlerType
    <2>2. /\ pc[s] = "matching" /\ pc'[s] = "waiting" /\ current'[s] = a
          /\ fired'[s] = fired[s] \cup {a}
      BY <1>1, <1>8 DEF Hit, HandlerType
    <2>3. OnItsWay(<<s, a, "row">>)' /\ OnItsWay(<<s, a, "message">>)'
      BY <2>2 DEF OnItsWay
    <2>4. \A o \in hist.owed : o[1] = s => OnItsWay(o)'
      BY <1>3, <2>2 DEF OnItsWay
    <2>5. \A o \in hist'.owed : o[1] = s => OnItsWay(o)'
      BY <2>1, <2>3, <2>4
    <2>6. \A o \in hist'.owed : o[1] # s => o \in hist.owed
      BY <2>1
    <2> QED BY <1>1, <1>2, <2>5, <2>6, OwedByOthers
  <1>9. ASSUME NEW matching \in SUBSET Channels, NEW quiet \in BOOLEAN, Dispatches(s, matching, quiet)
        PROVE  NothingVanishes'
    <2>1. /\ hist'.owed = hist.owed /\ pc[s] = "waiting" /\ pc'[s] = "posting"
          /\ UNCHANGED <<current, fired>>
      BY <1>1, <1>9 DEF Dispatches, HandlerType
    <2> QED BY <1>4, <2>1 DEF OnItsWay
  <1>10. ASSUME NEW answer \in Answers, NEW arrived \in BOOLEAN, Posts(s, answer, arrived)
         PROVE  NothingVanishes'
    <2>1. hist'.owed = hist.owed /\ UNCHANGED <<pc, current, fired>>
      BY <1>10 DEF Posts, handler
    <2> QED BY <1>4, <2>1 DEF OnItsWay
  <1>11. CASE Records(s)
    <2>1. hist'.owed = hist.owed \ {<<s, current[s], "row">>}
      BY <1>1, <1>11, RecordsComplete, OwedFacts DEF Records
    <2>2. pc[s] = "posting" /\ pc'[s] = "matching" /\ UNCHANGED fired
      BY <1>1, <1>11 DEF Records, HandlerType
    <2>3. ASSUME NEW o \in hist'.owed, o[1] = s, OnItsWay(o) PROVE o[3] # "row"
      <3>1. CASE o[3] = "row"
        <4>1. o = <<s, current[s], "row">>
          BY <1>1, <2>1, <2>3, <3>1 DEF OnItsWay, Hist
        <4> QED BY <2>1, <4>1
      <3> QED BY <3>1
    <2> QED BY <1>4, <2>1, <2>2, <2>3 DEF OnItsWay
  <1>12. CASE Raises(s)
    <2>1. hist'.owed = hist.owed \ OwedBy({s})
      BY <1>1, <1>12, OwedFacts DEF Raises, NoteLost
    <2>2. \A o \in hist'.owed : o[1] # s
      BY <2>1 DEF OwedBy
    <2> QED BY <1>4, <2>1, <2>2
  <1>13. CASE Messaging(s)
    <2>1. hist'.owed = hist.owed /\ pc[s] = "matching"
      BY <1>13 DEF Messaging
    <2>2. CASE fired[s] = {}
      <3>1. \A o \in hist.owed : o[1] = s => ~OnItsWay(o)
        BY <2>1, <2>2 DEF OnItsWay
      <3> QED BY <1>4, <2>1, <3>1
    <2>3. CASE fired[s] # {}
      <3>1. pc'[s] = "messaging" /\ UNCHANGED <<current, fired>>
        BY <1>1, <1>13, <2>3 DEF Messaging, HandlerType
      <3> QED BY <1>4, <2>1, <3>1 DEF OnItsWay
    <2> QED BY <2>2, <2>3
  <1>14. ASSUME NEW a \in Alerts, NEW delivered \in BOOLEAN, SendsMessage(s, a, delivered)
         PROVE  NothingVanishes'
    <2>1. hist'.owed = hist.owed \ {<<s, a, "message">>} /\ pc[s] = "messaging"
      BY <1>1, <1>14, OwedFacts DEF SendsMessage
    <2>2. ASSUME NEW o \in hist'.owed, o[1] = s, OnItsWay(o) PROVE o[2] # a /\ o[2] \in fired[s] /\ o[3] # "row"
      <3>1. o \in hist.owed /\ o[3] = "message" /\ o[2] \in fired[s]
        BY <1>3, <2>1, <2>2 DEF OnItsWay
      <3>2. CASE o[2] = a
        <4>1. o = <<s, a, "message">>
          BY <1>1, <2>2, <3>1, <3>2 DEF Hist
        <4> QED BY <2>1, <4>1
      <3> QED BY <3>1, <3>2
    <2>3. CASE fired[s] = {a}
      BY <1>4, <2>1, <2>2, <2>3
    <2>4. CASE fired[s] # {a}
      <3>1. fired'[s] = fired[s] \ {a} /\ UNCHANGED pc
        BY <1>1, <1>14, <2>4 DEF SendsMessage, HandlerType
      <3> QED BY <1>4, <2>1, <2>2, <3>1 DEF OnItsWay
    <2> QED BY <2>3, <2>4
  <1> QED BY <1>5, <1>6, <1>7, <1>8, <1>9, <1>10, <1>11, <1>12, <1>13, <1>14 DEF Steps

LEMMA NextVanish ==
    ASSUME Inv, [Next]_vars, hist' \in Hist
    PROVE  NothingVanishes'
  <1>1. hist \in Hist /\ NothingVanishes
    BY DEF Inv, Kept
  <1>2. CASE \E s \in Senders : Steps(s)
    BY <1>2, StepsVanish
  <1>3. CASE (\E l \in Links : Press(l)) \/ Tick \/ UNCHANGED vars
    <2>1. hist'.owed = hist.owed /\ UNCHANGED <<pc, current, fired>>
      BY <1>1, <1>3, TickFacts DEF Press, Tick, vars, handler
    <2> QED BY <1>1, <2>1 DEF NothingVanishes
  <1>4. CASE Restart
    BY <1>1, <1>4, RestartFacts DEF NothingVanishes
  <1> QED BY <1>2, <1>3, <1>4 DEF Next, Steps

-----------------------------------------------------------------------------
(* The window and the block list.                                           *)

\* What is_duplicate finds is what the observer has seen.
LEMMA RepeatedIsMet ==
    ASSUME Inv, NEW s \in Senders, NEW a \in Alerts, msg[s] \in Messages
    PROVE  Repeated(a, Text[msg[s]]) <=> Meets(s, a)
  <1>1. Text[msg[s]] \in Texts
    BY TextType
  <1> QED BY <1>1, WindowAssumption DEF Inv, RecentIsMet, Repeated, Meets, Never

LEMMA NextRecent ==
    ASSUME Inv, [Next]_vars
    PROVE  RecentIsMet'
  <1>1. /\ HandlerType /\ hist \in Hist /\ RecentIsMet
        /\ recent \in [Alerts -> [Texts -> Ages]] /\ hist.met \in [Alerts -> [Texts -> Ages]]
    BY HandlerTyped DEF Inv, Kept, TypeOK, Hist
  \* A look at an entry renews it on both sides.
  <1>2. ASSUME NEW s \in Senders, NEW a \in Alerts, NEW hit \in BOOLEAN, pc[s] = "matching",
               NoteMet(s, a, hit), recent' = Remember(a, Text[msg[s]])
        PROVE  RecentIsMet'
    <2> DEFINE t == Text[msg[s]]
    <2>1. msg[s] \in Messages /\ t \in Texts
      BY <1>1, <1>2, TextType DEF HandlerType
    <2>3. hist'.met[a][t] = 0 /\ \A b \in Alerts, u \in Texts : ~(b = a /\ u = t) => hist'.met[b][u] = hist.met[b][u]
      BY <1>1, <1>2, <2>1, MetFacts, ZenonT(30)
    <2>4. /\ recent'[a][t] = 0
          /\ \A b \in Alerts, u \in Texts : ~(b = a /\ u = t) =>
               recent'[b][u] = IF recent[b][u] > Window THEN Never ELSE recent[b][u]
      BY <1>1, <1>2, <2>1, RememberFacts
    <2> HIDE DEF t
    <2> QED BY <1>1, <2>3, <2>4 DEF RecentIsMet
  <1>3. CASE \E s \in Senders, a \in Alerts : Repeat(s, a) \/ Hit(s, a)
    BY <1>2, <1>3 DEF Repeat, Hit
  <1>4. ASSUME NEW s \in Senders, Steps(s), ~\E a \in Alerts : Repeat(s, a) \/ Hit(s, a)
        PROVE  RecentIsMet'
    <2>1. UNCHANGED recent
      BY <1>4 DEF Steps, Arrive, CheckBlocked, Dispatches, Posts, Records, Raises, Messaging, SendsMessage
    <2>2. hist'.met = hist.met
      BY <1>1, <1>4 DEF Steps, Arrive, CheckBlocked, Dispatches, Posts, Records, Raises, Messaging,
                        SendsMessage, NoteArrival, NoteLost, Hist
    <2> QED BY <1>1, <2>1, <2>2 DEF RecentIsMet
  <1>5. CASE Tick
    <2>1. ASSUME NEW a \in Alerts, NEW t \in Texts
          PROVE  recent'[a][t] = Age(recent[a][t]) /\ hist'.met[a][t] = Age(hist.met[a][t])
      BY <1>1, <1>5, TickFacts, AgedFacts DEF Tick
    <2>2. ASSUME NEW a \in Alerts, NEW t \in Texts
          PROVE  \/ hist'.met[a][t] = recent'[a][t]
                 \/ recent'[a][t] = Never /\ hist'.met[a][t] > Window
      BY <1>1, <2>1, AgeType DEF RecentIsMet
    <2> QED BY <2>2 DEF RecentIsMet
  <1>6. CASE Restart
    BY <1>1, <1>6, RestartFacts DEF RecentIsMet
  <1>7. CASE (\E l \in Links : Press(l)) \/ UNCHANGED vars
    BY <1>1, <1>7 DEF Press, vars, RecentIsMet
  <1> QED BY <1>3, <1>4, <1>5, <1>6, <1>7 DEF Next, Steps

LEMMA NextPassed ==
    ASSUME Inv, [Next]_vars
    PROVE  PassedIsUnlisted'
  <1>1. /\ HandlerType /\ hist \in Hist /\ PassedIsUnlisted /\ blocked \subseteq Links
        /\ hist.listed \in [Senders -> SUBSET Links]
    BY HandlerTyped DEF Inv, Kept, TypeOK, Hist
  \* Of the coroutines that did not move it holds as long as the list only grows.
  <1>2. ASSUME NEW q \in Senders, blocked \subseteq blocked', hist'.listed[q] = hist.listed[q],
               pc'[q] = pc[q], msg'[q] = msg[q]
        PROVE  /\ hist'.listed[q] \subseteq blocked'
               /\ pc'[q] \notin {"idle", "loaded"} => Link[msg'[q]] \notin hist'.listed[q]
    BY <1>1, <1>2 DEF PassedIsUnlisted
  <1>3. ASSUME NEW s \in Senders, Steps(s) PROVE PassedIsUnlisted'
    <2>1. blocked' = blocked /\ Others(s)
      BY <1>1, <1>3, StepsHandler
      DEF Steps, Arrive, CheckBlocked, Repeat, Hit, Dispatches, Posts, Records, Raises, Messaging, SendsMessage
    <2>2. CASE \E m \in Messages : Arrive(s, m)
      <3>1. /\ hist'.listed[s] = blocked /\ pc'[s] = "loaded"
            /\ \A q \in Senders : q # s => hist'.listed[q] = hist.listed[q]
        BY <1>1, <2>2, ArrivalFacts DEF Arrive, HandlerType
      <3> QED BY <1>2, <2>1, <3>1 DEF Others, PassedIsUnlisted
    <2>3. CASE ~\E m \in Messages : Arrive(s, m)
      <3>1. hist'.listed = hist.listed
        <4>1. CASE \E a \in Alerts : Repeat(s, a) \/ Hit(s, a)
          BY <1>1, <4>1, MetFacts DEF Repeat, Hit, HandlerType
        <4>2. CASE ~\E a \in Alerts : Repeat(s, a) \/ Hit(s, a)
          BY <1>1, <1>3, <2>3, <4>2 DEF Steps, CheckBlocked, Dispatches, Posts, Records, Raises, Messaging,
                                   SendsMessage, NoteLost, Hist
        <4> QED BY <4>1, <4>2
      <3>2. pc'[s] \notin {"idle", "loaded"} =>
                Link[msg'[s]] \notin hist.listed[s]
        <4>1. CASE CheckBlocked(s)
          <5>1. pc'[s] \notin {"idle", "loaded"} => msg' = msg /\ Link[msg[s]] \notin blocked
            BY <1>1, <4>1 DEF CheckBlocked, IsBlocked, Idle, HandlerType
          <5> QED BY <1>1, <5>1 DEF PassedIsUnlisted
        <4>2. CASE ~CheckBlocked(s)
          <5>1. pc'[s] \notin {"idle", "loaded"} => msg' = msg /\ pc[s] \notin {"idle", "loaded"}
            BY <1>1, <1>3, <2>3, <4>2 DEF Steps, Repeat, Hit, Dispatches, Posts, Records, Raises, Messaging,
                                     SendsMessage, Idle, HandlerType, handler
          <5> QED BY <1>1, <5>1 DEF PassedIsUnlisted
        <4> QED BY <4>1, <4>2
      <3> QED BY <1>1, <1>2, <2>1, <3>1, <3>2 DEF Others, PassedIsUnlisted
    <2> QED BY <2>2, <2>3
  <1>4. CASE (\E l \in Links : Press(l)) \/ Tick \/ UNCHANGED vars
    <2>1. blocked \subseteq blocked' /\ hist'.listed = hist.listed /\ UNCHANGED <<pc, msg>>
      BY <1>1, <1>4, TickFacts DEF Press, Tick, vars, handler
    <2> QED BY <1>2, <2>1 DEF PassedIsUnlisted
  <1>5. CASE Restart
    <2>1. hist'.listed = hist.listed /\ blocked' = blocked /\ \A q \in Senders : pc'[q] = "idle"
      BY <1>1, <1>5, RestartFacts DEF Restart
    <2> QED BY <1>1, <2>1 DEF PassedIsUnlisted
  <1> QED BY <1>3, <1>4, <1>5 DEF Next, Steps

LEMMA NextInv == Inv /\ [Next]_vars => Inv'
  <1> SUFFICES ASSUME Inv, [Next]_vars PROVE Inv'
    OBVIOUS
  <1>1. TypeOK' /\ Kept' /\ DispatchInv' /\ PostingCounts'
    BY NextType
  <1>2. NothingVanishes'
    BY <1>1, NextVanish DEF Kept
  <1>3. RecentIsMet' /\ PassedIsUnlisted'
    BY NextRecent, NextPassed
  <1> QED BY <1>1, <1>2, <1>3 DEF Inv

LEMMA Always == Spec => []Inv
  BY InitInv, NextInv, PTL DEF Spec

-----------------------------------------------------------------------------
(* What the project states of the pings.                                    *)

\* Every variable keeps its type, and no channel is posted to more often than the
\* retries of the webhook allow, for any messages, alerts and channels.
THEOREM TypeCorrect == Spec => []TypeOK
  <1>1. Inv => TypeOK
    BY DEF Inv
  <1> QED BY <1>1, Always, PTL

\* Whatever answers are lost or refused, the rows a dispatch is about to commit
\* say of every channel what the channel knows (DiscordNotifier.send,
\* dispatch_event).
THEOREM HistoryIsTrue == Spec => []HistoryIsHonest
  <1>1. Inv => HistoryIsHonest
    BY DEF Inv, DispatchInv, WrittenIsHonest, HistoryIsHonest
  <1> QED BY <1>1, Always, PTL

\* Every hit is on its way to its rows and its direct message, and the commit of
\* its rows has one for every channel that was meant (handle_message).
THEOREM HitsAreKept == Spec => []NothingVanishes
  <1>1. Inv => NothingVanishes
    BY DEF Inv
  <1> QED BY <1>1, Always, PTL

\* An alert pings for a text exactly if it has not met it within the window, in any
\* message, and never for a link that was blocked when the message came.
THEOREM PingsAreAsked == Spec => PingsAreWanted
  <1> DEFINE Wanted ==
        \A s \in Senders, a \in Alerts : Comes(s, a) =>
            /\ Rings(s, a) <=> ~Meets(s, a)
            /\ Rings(s, a) => Link[msg[s]] \notin hist.listed[s]
  <1>1. ASSUME Inv, [Next]_vars PROVE Wanted
    <2> SUFFICES ASSUME NEW s \in Senders, NEW a \in Alerts, Comes(s, a)
                 PROVE  /\ Rings(s, a) <=> ~Meets(s, a)
                        /\ Rings(s, a) => Link[msg[s]] \notin hist.listed[s]
      OBVIOUS
    <2>1. HandlerType /\ Inv
      BY <1>1, HandlerTyped DEF Inv
    <2>2. Link[msg[s]] \notin hist.listed[s] /\ msg[s] \in Messages
      BY <2>1 DEF Comes, Inv, PassedIsUnlisted, HandlerType
    \* Only s itself comes to its alerts.
    <2>3. Repeat(s, a) \/ Hit(s, a)
      <3>1. CASE \E q \in Senders : Steps(q)
        <4>1. PICK q \in Senders : Steps(q)
          BY <3>1
        <4>2. q = s
          BY <2>1, <4>1, StepsHandler DEF Others, Comes
        <4>3. pc[s] = "matching" /\ a \in todo[s] /\ a \notin todo'[s] /\ pc'[s] # "idle" /\ Steps(s)
          BY <4>1, <4>2 DEF Comes
        <4>4. CASE \E b \in Alerts : Repeat(s, b) \/ Hit(s, b)
          <5>1. PICK b \in Alerts : Repeat(s, b) \/ Hit(s, b)
            BY <4>4
          <5>2. todo'[s] = todo[s] \ {b}
            BY <2>1, <5>1 DEF Repeat, Hit, HandlerType
          <5>3. a = b
            BY <4>3, <5>2
          <5> QED BY <5>1, <5>3
        <4>5. CASE Messaging(s)
          BY <4>3, <4>5 DEF Messaging
        <4>6. CASE Records(s)
          BY <4>3, <4>6 DEF Records
        <4> QED BY <4>3, <4>4, <4>5, <4>6
            DEF Steps, Arrive, CheckBlocked, Dispatches, Posts, Raises, SendsMessage
      <3>2. CASE (\E l \in Links : Press(l)) \/ Tick \/ UNCHANGED vars
        BY <3>2 DEF Press, Tick, vars, handler, Comes
      <3>3. CASE Restart
        BY <3>3 DEF Restart, Comes
      <3> QED BY <1>1, <3>1, <3>2, <3>3 DEF Next, Steps
    <2>4. CASE Repeat(s, a)
      <3>1. Meets(s, a) /\ ~Rings(s, a)
        BY <2>1, <2>2, <2>4, RepeatedIsMet DEF Repeat, Rings
      <3> QED BY <2>2, <3>1
    <2>5. CASE Hit(s, a)
      <3>1. ~Meets(s, a) /\ Rings(s, a)
        BY <2>1, <2>2, <2>5, RepeatedIsMet DEF Hit, Rings, Comes, HandlerType
      <3> QED BY <2>2, <3>1
    <2> QED BY <2>3, <2>4, <2>5
  <1>2. Inv /\ [Next]_vars => [Wanted]_vars
    BY <1>1
  <1> QED BY <1>2, Always, PTL DEF Spec, PingsAreWanted
=============================================================================
