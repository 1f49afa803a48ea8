--------------------------- MODULE WatchdogProofs ---------------------------
(***************************************************************************)
(* Theorems about Watchdog for every set of watches and scanners and every *)
(* grace period, repeat interval, recovery period and retention; and, from *)
(* the folds on, theorems about Decisions for every page, message, listing *)
(* and shop.  The two share no state and no definition.                    *)
(***************************************************************************)
EXTENDS Watchdog, Decisions, FiniteSetTheorems, SequenceTheorems, WellFoundedInduction, TLAPS

\* The history the watchdog reads keeps every success that it would still count.
KeptIsGood == \A w \in Watches : kept[w] = hist.good[w]

\* What the process remembers of a key is what the observer saw it do.
MemoryIsTrue ==
    \A k \in Keys :
        /\ memory[k].since = Never => memory[k] = Clean
        /\ memory[k].since # Never => memory[k].since <= hist.up /\ memory[k].recovered = hist.calm[k]
        /\ memory[k].alerted = hist.last[k]

Inv ==
    /\ TypeOK
    /\ KeptIsGood
    /\ MemoryIsTrue

-----------------------------------------------------------------------------
(* Types.                                                                  *)

LEMMA TimesFacts ==
    /\ Grace \in Nat /\ Grace > 0 /\ Repeat \in Nat /\ Repeat > 0 /\ Stable \in Nat /\ Stable > 0
    /\ Retention \in Nat /\ Retention >= Grace /\ Older \in Nat /\ Older = Grace + 1
  BY TimesAssumption, RetentionAssumption DEF Older

LEMMA AgedType ==
    ASSUME NEW cap \in Nat, NEW age \in {Never} \cup 0..cap
    PROVE  /\ Aged(age, cap) \in {Never} \cup 0..cap
           /\ age # Never => Aged(age, cap) \in 0..cap /\ Aged(age, cap) >= age
           /\ Aged(age, cap) = Never <=> age = Never
  BY DEF Aged, Never

LEMMA CleanType == Clean \in Entry
  BY DEF Clean, Entry

\* What the watchdog remembers of a key after a look at it.
LEMMA RememberFacts ==
    ASSUME TypeOK, NEW k \in Keys
    PROVE  /\ Remember(k) \in Entry
           /\ k \in Seen => /\ Remember(k).since = IF memory[k].since = Never THEN 0 ELSE memory[k].since
                            /\ Remember(k).recovered = IF memory[k].since = Never THEN memory[k].recovered ELSE Never
                            /\ Remember(k).alerted = memory[k].alerted
           /\ k \notin Seen /\ memory[k].since = Never => Remember(k) = memory[k]
           /\ k \notin Seen /\ memory[k].since # Never /\ memory[k].recovered = Never =>
                /\ Remember(k).since = memory[k].since /\ Remember(k).recovered = 0
                /\ Remember(k).alerted = memory[k].alerted
           /\ k \notin Seen /\ memory[k].since # Never /\ memory[k].recovered >= Stable => Remember(k) = Clean
           /\ k \notin Seen /\ memory[k].since # Never /\ memory[k].recovered \notin {Never, Stable} =>
                Remember(k) = memory[k]
  <1>1. memory[k] \in Entry
    BY DEF TypeOK
  <1>2. /\ memory[k].since \in {Never} \cup 0..Grace /\ memory[k].alerted \in {Never} \cup 0..Repeat
        /\ memory[k].recovered \in {Never} \cup 0..Stable
    BY <1>1 DEF Entry
  <1>3. CASE k \in Seen /\ memory[k].since = Never
    <2>1. Remember(k) = [memory[k] EXCEPT !.since = 0]
      BY <1>3 DEF Remember
    <2> QED BY <1>1, <1>3, <2>1, TimesFacts DEF Entry
  <1>4. CASE k \in Seen /\ memory[k].since # Never
    <2>1. Remember(k) = [memory[k] EXCEPT !.recovered = Never]
      BY <1>4 DEF Remember, Recover
    <2> QED BY <1>1, <1>4, <2>1 DEF Entry
  <1>5. CASE k \notin Seen /\ memory[k].since = Never
    <2>1. Remember(k) = memory[k]
      BY <1>5 DEF Remember
    <2> QED BY <1>1, <1>5, <2>1
  <1>6. CASE k \notin Seen /\ memory[k].since # Never /\ memory[k].recovered = Never
    <2>1. Remember(k) = [memory[k] EXCEPT !.recovered = 0]
      BY <1>6, TimesFacts DEF Remember, Recover, Never
    <2> QED BY <1>1, <1>6, <2>1, TimesFacts DEF Entry, Never
  <1>7. CASE k \notin Seen /\ memory[k].since # Never /\ memory[k].recovered # Never
    <2>1. Remember(k) = IF memory[k].recovered >= Stable THEN Clean ELSE memory[k]
      BY <1>7 DEF Remember, Recover
    <2> QED BY <1>1, <1>2, <1>7, <2>1, CleanType, TimesFacts
  <1> QED BY <1>3, <1>4, <1>5, <1>6, <1>7

Hist == [up: 0..Grace, good: [Watches -> 0..Older],
         calm: [Keys -> {Never} \cup 0..Stable], last: [Keys -> {Never} \cup 0..Repeat]]

LEMMA KeySets == Watches \subseteq Keys /\ Scans \subseteq Keys /\ Fresh \subseteq Broken /\ Broken \subseteq Seen
  BY DEF Keys, Fresh, Broken

\* A look, as the observer notes it.
LEMMA LookFacts ==
    ASSUME hist \in Hist, NoteLook(Seen, Fresh)
    PROVE  /\ hist' \in Hist /\ hist'.up = hist.up /\ hist'.good = hist.good
           /\ \A k \in Keys :
                /\ hist'.calm[k] = CASE k \in Seen -> Never
                                     [] k \notin Seen /\ hist.calm[k] = Never -> 0
                                     [] OTHER -> hist.calm[k]
                /\ hist'.last[k] = CASE k \in Fresh -> 0
                                     [] k \notin Seen /\ hist.calm[k] = Stable -> Never
                                     [] OTHER -> hist.last[k]
  <1> DEFINE calm(k) == CASE k \in Seen -> Never
                          [] k \notin Seen /\ hist.calm[k] = Never -> 0
                          [] OTHER -> hist.calm[k]
             last(k) == CASE k \in Fresh -> 0
                          [] k \notin Seen /\ hist.calm[k] = Stable -> Never
                          [] OTHER -> hist.last[k]
  <1>1. \A k \in Keys : calm(k) \in {Never} \cup 0..Stable /\ last(k) \in {Never} \cup 0..Repeat
    BY TimesFacts, KeySets DEF Hist
  <1>2. hist' = [hist EXCEPT !.calm = [k \in Keys |-> calm(k)], !.last = [k \in Keys |-> last(k)]]
    BY DEF NoteLook, Hist
  <1> HIDE DEF calm, last
  <1>3. /\ hist'.calm = [k \in Keys |-> calm(k)] /\ hist'.last = [k \in Keys |-> last(k)]
        /\ hist'.up = hist.up /\ hist'.good = hist.good /\ hist' \in Hist
    BY <1>1, <1>2 DEF Hist
  <1> QED BY <1>3 DEF calm, last

LEMMA TickFacts ==
    ASSUME TypeOK, Tick
    PROVE  /\ hist' \in Hist /\ kept' \in [Watches -> 0..Older] /\ memory' \in [Keys -> Entry]
           /\ hist'.up = Aged(hist.up, Grace)
           /\ \A w \in Watches : kept'[w] = Aged(kept[w], Older) /\ hist'.good[w] = Aged(hist.good[w], Older)
           /\ \A k \in Keys :
                /\ memory'[k].since = Aged(memory[k].since, Grace)
                /\ memory'[k].alerted = Aged(memory[k].alerted, Repeat)
                /\ memory'[k].recovered = Aged(memory[k].recovered, Stable)
                /\ hist'.calm[k] = Aged(hist.calm[k], Stable)
                /\ hist'.last[k] = Aged(hist.last[k], Repeat)
  <1>1. hist \in Hist /\ kept \in [Watches -> 0..Older] /\ memory \in [Keys -> Entry]
    BY DEF TypeOK, Hist
  <1> DEFINE good == [w \in Watches |-> Aged(hist.good[w], Older)]
             calm == [k \in Keys |-> Aged(hist.calm[k], Stable)]
             last == [k \in Keys |-> Aged(hist.last[k], Repeat)]
  <1>2. /\ Aged(hist.up, Grace) \in 0..Grace /\ good \in [Watches -> 0..Older]
        /\ calm \in [Keys -> {Never} \cup 0..Stable] /\ last \in [Keys -> {Never} \cup 0..Repeat]
    <2>1. \A n \in 0..Grace : Aged(n, Grace) \in 0..Grace
      BY AgedType, TimesFacts DEF Never
    <2>2. \A n \in 0..Older : Aged(n, Older) \in 0..Older
      BY AgedType, TimesFacts DEF Never
    <2>3. \A n \in {Never} \cup 0..Stable : Aged(n, Stable) \in {Never} \cup 0..Stable
      BY AgedType, TimesFacts
    <2>4. \A n \in {Never} \cup 0..Repeat : Aged(n, Repeat) \in {Never} \cup 0..Repeat
      BY AgedType, TimesFacts
    <2> QED BY <1>1, <2>1, <2>2, <2>3, <2>4 DEF Hist
  <1>3. hist' = [hist EXCEPT !.up = Aged(hist.up, Grace), !.good = good, !.calm = calm, !.last = last]
    BY <1>1 DEF Tick, NoteTick, Hist
  <1> HIDE DEF good, calm, last
  <1>4. hist' \in Hist /\ hist'.up = Aged(hist.up, Grace) /\ hist'.good = good /\ hist'.calm = calm /\ hist'.last = last
    BY <1>1, <1>2, <1>3 DEF Hist
  <1>5. kept' \in [Watches -> 0..Older] /\ \A w \in Watches : kept'[w] = Aged(kept[w], Older)
    <2>1. \A n \in 0..Older : Aged(n, Older) \in 0..Older
      BY AgedType, TimesFacts DEF Never
    <2> QED BY <1>1, <2>1 DEF Tick
  <1>6. memory' \in [Keys -> Entry]
    <2>1. ASSUME NEW k \in Keys
          PROVE  /\ Aged(memory[k].since, Grace) \in {Never} \cup 0..Grace
                 /\ Aged(memory[k].alerted, Repeat) \in {Never} \cup 0..Repeat
                 /\ Aged(memory[k].recovered, Stable) \in {Never} \cup 0..Stable
      BY <1>1, AgedType, TimesFacts DEF Entry
    <2> QED BY <2>1 DEF Tick, Entry
  <1> QED BY <1>4, <1>5, <1>6 DEF Tick, good, calm, last

LEMMA InitInv == Init => Inv
  <1> SUFFICES ASSUME Init PROVE Inv
    OBVIOUS
  <1>1. TypeOK
    BY TimesFacts, CleanType, BoundsAssumption DEF Init, TypeOK, Older
  <1>2. KeptIsGood /\ MemoryIsTrue
    BY DEF Init, KeptIsGood, MemoryIsTrue, Clean
  <1> QED BY <1>1, <1>2 DEF Inv

\* Nothing is deleted that the watchdog still counts.
LEMMA PrunedIsKept ==
    ASSUME TypeOK
    PROVE  Pruned = kept
  <1>1. ASSUME NEW w \in Watches, kept[w] > Retention
        PROVE  kept[w] = Older
    <2>1. kept[w] \in 0..Older
      BY DEF TypeOK
    <2> QED BY <1>1, <2>1, TimesFacts
  <1> QED BY <1>1 DEF Pruned, TypeOK

\* What is reported was seen to fail for the whole grace period.
LEMMA FreshFacts ==
    ASSUME Inv, NEW k \in Fresh
    PROVE  /\ k \in Keys /\ k \in Seen /\ memory[k].since >= Grace /\ memory[k].since # Never
           /\ memory[k].alerted \in {Never, Repeat}
           /\ k \in Watches => kept[k] > Grace
  <1>1. k \in Seen /\ k \in Keys /\ Remember(k).since >= Grace /\ Due(k)
    BY DEF Fresh, Broken, Seen, Inv, TypeOK
  <1>2. Remember(k).since = IF memory[k].since = Never THEN 0 ELSE memory[k].since
    BY <1>1, RememberFacts DEF Inv
  <1>3. memory[k] \in Entry
    BY <1>1 DEF Inv, TypeOK
  <1>4. memory[k].alerted \in {Never, Repeat}
    BY <1>1, <1>3, TimesFacts DEF Due, Entry
  <1>5. k \in Watches => kept[k] > Grace
    BY <1>1, TimesFacts DEF Seen, RecentlyRead, Inv, TypeOK
  <1> QED BY <1>1, <1>2, <1>4, <1>5, TimesFacts

\* What the watchdog remembers after a look is what the observer notes.
LEMMA JudgeMemory ==
    ASSUME Inv, Judge
    PROVE  /\ hist' \in Hist /\ memory' \in [Keys -> Entry]
           /\ KeptIsGood' /\ MemoryIsTrue'
  <1>1. hist \in Hist /\ memory \in [Keys -> Entry] /\ TypeOK /\ KeptIsGood /\ MemoryIsTrue
    BY DEF Inv, TypeOK, Hist
  <1>2. /\ hist' \in Hist /\ hist'.up = hist.up /\ hist'.good = hist.good
        /\ \A k \in Keys :
             /\ hist'.calm[k] = CASE k \in Seen -> Never
                                  [] k \notin Seen /\ hist.calm[k] = Never -> 0
                                  [] OTHER -> hist.calm[k]
             /\ hist'.last[k] = CASE k \in Fresh -> 0
                                  [] k \notin Seen /\ hist.calm[k] = Stable -> Never
                                  [] OTHER -> hist.last[k]
    BY <1>1, LookFacts DEF Judge
  <1>3. ASSUME NEW k \in Keys
        PROVE  /\ memory'[k] = IF k \in Fresh THEN [Remember(k) EXCEPT !.alerted = 0] ELSE Remember(k)
               /\ memory'[k] \in Entry
    <2>1. memory'[k] = IF k \in Fresh THEN [Remember(k) EXCEPT !.alerted = 0] ELSE Remember(k)
      BY DEF Judge, MarkedMemory
    <2>2. Remember(k) \in Entry
      BY <1>1, RememberFacts
    <2> QED BY <2>1, <2>2, TimesFacts DEF Entry
  <1>4. memory' \in [Keys -> Entry]
    BY <1>3 DEF Judge, MarkedMemory
  <1>5. ASSUME NEW k \in Keys
        PROVE  /\ memory'[k].since = Never => memory'[k] = Clean
               /\ memory'[k].since # Never => memory'[k].since <= hist'.up /\ memory'[k].recovered = hist'.calm[k]
               /\ memory'[k].alerted = hist'.last[k]
    <2>1. /\ memory[k] \in Entry /\ Remember(k) \in Entry
          /\ hist.up \in 0..Grace /\ hist.calm[k] \in {Never} \cup 0..Stable
      BY <1>1, RememberFacts DEF Hist
    <2>2. /\ memory[k].since = Never => memory[k] = Clean
          /\ memory[k].since # Never => memory[k].since <= hist.up /\ memory[k].recovered = hist.calm[k]
          /\ memory[k].alerted = hist.last[k]
      BY <1>1 DEF MemoryIsTrue
    <2>3. CASE k \in Fresh
      <3>1. k \in Seen /\ memory[k].since # Never
        BY <1>1, <2>3, FreshFacts DEF Inv
      <3>2. /\ memory'[k].since = memory[k].since /\ memory'[k].recovered = Never /\ memory'[k].alerted = 0
        BY <1>1, <1>3, <2>1, <2>3, <3>1, RememberFacts DEF Entry
      <3> QED BY <1>2, <2>2, <2>3, <3>1, <3>2
    <2>4. CASE k \notin Fresh /\ k \in Seen
      <3>1. /\ memory'[k].since = IF memory[k].since = Never THEN 0 ELSE memory[k].since
            /\ memory'[k].recovered = IF memory[k].since = Never THEN memory[k].recovered ELSE Never
            /\ memory'[k].alerted = memory[k].alerted
        BY <1>1, <1>3, <2>4, RememberFacts
      <3>2. hist'.calm[k] = Never /\ hist'.last[k] = hist.last[k]
        BY <1>2, <2>4
      <3> QED BY <1>2, <2>1, <2>2, <3>1, <3>2, TimesFacts DEF Clean, Never
    <2>5. CASE k \notin Fresh /\ k \notin Seen
      <3>1. memory'[k] = Remember(k)
        BY <1>3, <2>5
      <3>2. CASE memory[k].since = Never
        <4>1. memory'[k] = memory[k]
          BY <1>1, <2>5, <3>1, <3>2, RememberFacts
        <4> QED BY <1>2, <2>2, <2>5, <3>2, <4>1 DEF Clean
      <3>3. CASE memory[k].since # Never /\ memory[k].recovered = Never
        <4>1. /\ memory'[k].since = memory[k].since /\ memory'[k].recovered = 0
              /\ memory'[k].alerted = memory[k].alerted
          BY <1>1, <2>5, <3>1, <3>3, RememberFacts
        <4> QED BY <1>2, <2>2, <2>5, <3>3, <4>1, TimesFacts DEF Never
      <3>4. CASE memory[k].since # Never /\ memory[k].recovered = Stable
        <4>1. memory'[k] = Clean
          BY <1>1, <2>5, <3>1, <3>4, RememberFacts, TimesFacts
        <4>2. hist.calm[k] = Stable /\ hist'.last[k] = Never
          BY <1>2, <2>2, <2>5, <3>4
        <4> QED BY <4>1, <4>2 DEF Clean
      <3>5. CASE memory[k].since # Never /\ memory[k].recovered \notin {Never, Stable}
        <4>1. memory'[k] = memory[k]
          BY <1>1, <2>5, <3>1, <3>5, RememberFacts
        <4> QED BY <1>2, <2>2, <2>5, <3>5, <4>1
      <3> QED BY <3>2, <3>3, <3>4, <3>5
    <2> QED BY <2>3, <2>4, <2>5
  <1>6. KeptIsGood'
    BY <1>1, <1>2 DEF Judge, KeptIsGood
  <1> QED BY <1>2, <1>4, <1>5, <1>6 DEF MemoryIsTrue

LEMMA TickInv ==
    ASSUME Inv, Tick
    PROVE  KeptIsGood' /\ MemoryIsTrue'
  <1>1. TypeOK /\ KeptIsGood /\ MemoryIsTrue
    BY DEF Inv
  <1>2. KeptIsGood'
    BY <1>1, TickFacts DEF KeptIsGood
  <1>3. ASSUME NEW k \in Keys
        PROVE  /\ memory'[k].since = Never => memory'[k] = Clean
               /\ memory'[k].since # Never => memory'[k].since <= hist'.up /\ memory'[k].recovered = hist'.calm[k]
               /\ memory'[k].alerted = hist'.last[k]
    <2>1. /\ hist'.up = Aged(hist.up, Grace) /\ memory'[k].since = Aged(memory[k].since, Grace)
          /\ memory'[k].alerted = Aged(memory[k].alerted, Repeat)
          /\ memory'[k].recovered = Aged(memory[k].recovered, Stable)
          /\ hist'.calm[k] = Aged(hist.calm[k], Stable) /\ hist'.last[k] = Aged(hist.last[k], Repeat)
          /\ memory'[k] \in Entry
      BY <1>1, TickFacts
    <2>2. /\ memory[k].since = Never => memory[k] = Clean
          /\ memory[k].since # Never => memory[k].since <= hist.up /\ memory[k].recovered = hist.calm[k]
          /\ memory[k].alerted = hist.last[k]
      BY <1>1 DEF MemoryIsTrue
    <2>3. hist.up \in 0..Grace /\ memory[k].since \in {Never} \cup 0..Grace
      BY <1>1 DEF TypeOK, Entry
    <2>4. memory'[k].since = Never => memory[k].since = Never
      BY <2>1, <2>3, AgedType, TimesFacts
    <2>5. memory'[k].since = Never => memory'[k] = Clean
      BY <2>1, <2>2, <2>4 DEF Entry, Clean, Aged
    <2>6. memory[k].since # Never => memory'[k].since <= hist'.up
      BY <2>1, <2>2, <2>3, TimesFacts DEF Aged, Never
    <2>7. memory'[k].since # Never => memory[k].since # Never
      BY <2>1 DEF Aged
    <2> QED BY <2>1, <2>2, <2>4, <2>5, <2>6, <2>7
  <1> QED BY <1>2, <1>3 DEF MemoryIsTrue

LEMMA NextInv == Inv /\ [Next]_vars => Inv'
  <1> SUFFICES ASSUME Inv, [Next]_vars PROVE Inv'
    OBVIOUS
  <1>1. TypeOK /\ KeptIsGood /\ MemoryIsTrue /\ hist \in Hist
    BY DEF Inv, TypeOK, Hist
  <1>2. ASSUME NEW w \in Watches, NEW error \in BOOLEAN, NEW success \in BOOLEAN,
               CheckWatch(w, error, success)
        PROVE  Inv'
    <2> DEFINE good == [hist.good EXCEPT ![w] = IF success THEN 0 ELSE @]
    <2>1. w \in Keys /\ good \in [Watches -> 0..Older] /\ kept' \in [Watches -> 0..Older]
      BY <1>1, <1>2, KeySets, TimesFacts DEF CheckWatch, TypeOK
    <2>2. \A v \in Watches : kept'[v] = good[v]
      BY <1>1, <1>2 DEF CheckWatch, TypeOK, KeptIsGood
    <2>3. hist' = [hist EXCEPT !.good = good]
      BY <1>1, <1>2 DEF CheckWatch, Hist
    <2> HIDE DEF good
    <2>4. hist' \in Hist /\ hist'.good = good /\ hist'.up = hist.up /\ hist'.calm = hist.calm /\ hist'.last = hist.last
      BY <1>1, <2>1, <2>3 DEF Hist
    <2>5. TypeOK'
      BY <1>1, <1>2, <2>1, <2>4, SMTT(60) DEF CheckWatch, job, TypeOK, Hist
    <2>6. KeptIsGood' /\ MemoryIsTrue'
      BY <1>1, <1>2, <2>2, <2>4, ZenonT(30) DEF CheckWatch, KeptIsGood, MemoryIsTrue
    <2> QED BY <2>5, <2>6 DEF Inv
  <1>3. ASSUME NEW s \in Scans, NEW error \in BOOLEAN, RunScan(s, error) PROVE Inv'
    BY <1>1, <1>3, KeySets DEF RunScan, job, Inv, TypeOK, KeptIsGood, MemoryIsTrue
  <1>4. ASSUME NEW k \in Keys, Toggle(k) PROVE Inv'
    <2>1. rows' \in [Keys -> [enabled: BOOLEAN, error: BOOLEAN]]
      BY <1>1, <1>4 DEF Toggle, TypeOK
    <2> QED BY <1>1, <1>4, <2>1 DEF Toggle, job, Inv, TypeOK, KeptIsGood, MemoryIsTrue
  <1>5. CASE Prune
    <2>1. kept' = kept
      BY <1>1, <1>5, PrunedIsKept DEF Prune
    <2> QED BY <1>1, <1>5, <2>1 DEF Prune, job, Inv, TypeOK, KeptIsGood, MemoryIsTrue
  <1>6. CASE Look
    BY <1>1, <1>6 DEF Look, Inv, TypeOK, KeptIsGood, MemoryIsTrue
  <1>7. CASE Judge
    <2>1. hist' \in Hist /\ memory' \in [Keys -> Entry] /\ KeptIsGood' /\ MemoryIsTrue'
      BY <1>7, JudgeMemory
    <2>2. Fresh \subseteq Keys
      BY <1>1, KeySets DEF Seen, TypeOK
    <2>4. named' \subseteq alarm' /\ alarm' \subseteq Keys
      BY <1>7, <2>2 DEF Judge, FirstOf
    <2>3. TypeOK'
      BY <1>1, <1>7, <2>1, <2>4 DEF Judge, TypeOK, Hist
    <2> QED BY <2>1, <2>3 DEF Inv
  <1>8. CASE Send \/ SendFails \/ LookFails
    BY <1>1, <1>8 DEF Send, SendFails, LookFails, Inv, TypeOK, KeptIsGood, MemoryIsTrue
  <1>9. CASE Restart
    <2>1. /\ hist' \in Hist /\ hist'.good = hist.good
          /\ \A k \in Keys : hist'.last[k] = Never
      <3> DEFINE never == [k \in Keys |-> Never]
      <3>1. never \in [Keys -> {Never} \cup 0..Stable] /\ never \in [Keys -> {Never} \cup 0..Repeat]
        OBVIOUS
      <3>2. hist' = [hist EXCEPT !.up = 0, !.calm = never, !.last = never] /\ 0 \in 0..Grace
        BY <1>9, TimesFacts DEF Restart
      <3>3. \A k \in Keys : never[k] = Never
        OBVIOUS
      <3> HIDE DEF never
      <3> QED BY <1>1, <3>1, <3>2, <3>3 DEF Hist
    <2>2. memory' \in [Keys -> Entry] /\ \A k \in Keys : memory'[k] = Clean
      BY <1>9, CleanType DEF Restart
    <2>3. TypeOK'
      BY <1>1, <1>9, <2>1, <2>2, BoundsAssumption DEF Restart, TypeOK, Hist
    <2>4. KeptIsGood' /\ MemoryIsTrue'
      BY <1>1, <1>9, <2>1, <2>2 DEF Restart, KeptIsGood, MemoryIsTrue, Clean
    <2> QED BY <2>3, <2>4 DEF Inv
  <1>10. CASE Tick
    <2>1. hist' \in Hist /\ kept' \in [Watches -> 0..Older] /\ memory' \in [Keys -> Entry]
      BY <1>1, <1>10, TickFacts
    <2>2. TypeOK'
      BY <1>1, <1>10, <2>1 DEF Tick, job, TypeOK, Hist
    <2> QED BY <1>10, <2>2, TickInv DEF Inv
  <1>11. CASE UNCHANGED vars
    BY <1>1, <1>11 DEF vars, job, Inv, TypeOK, KeptIsGood, MemoryIsTrue
  <1> QED BY <1>2, <1>3, <1>4, <1>5, <1>6, <1>7, <1>8, <1>9, <1>10, <1>11 DEF Next

LEMMA Always == Spec => []Inv
  BY InitInv, NextInv, PTL DEF Spec

-----------------------------------------------------------------------------
(* What the project states of the alarm.                                    *)

\* Every variable keeps its type, and an event is under way exactly while it names
\* something.
THEOREM TypeCorrect == Spec => []TypeOK
  <1>1. Inv => TypeOK
    BY DEF Inv
  <1> QED BY <1>1, Always, PTL

\* Only Judge names anything new.
LEMMA NewIsFresh ==
    ASSUME [Next]_vars, NEW k \in alarm' \ alarm
    PROVE  Judge /\ k \in Fresh
  BY DEF Next, CheckWatch, RunScan, Toggle, Prune, Look, Judge, Send, SendFails, LookFails, Restart, Tick, job, vars

\* An alarm names nothing the process has not looked at for the grace period, and
\* no watch that was read within it (collect_broken, _recently_read_watch_ids).
THEOREM AlarmsAreHonest == Spec => AlarmIsHonest
  <1> DEFINE Honest == \A k \in alarm' \ alarm :
                          /\ hist.up >= Grace
                          /\ k \in Watches => hist.good[k] > Grace
  <1>1. ASSUME Inv, [Next]_vars PROVE Honest
    <2> SUFFICES ASSUME NEW k \in alarm' \ alarm
                 PROVE  hist.up >= Grace /\ (k \in Watches => hist.good[k] > Grace)
      OBVIOUS
    <2>1. /\ k \in Keys /\ memory[k].since >= Grace /\ memory[k].since # Never
          /\ k \in Watches => kept[k] > Grace
      BY <1>1, NewIsFresh, FreshFacts
    <2>2. memory[k].since <= hist.up /\ (k \in Watches => hist.good[k] > Grace)
      BY <1>1, <2>1 DEF Inv, MemoryIsTrue, KeptIsGood
    <2>3. memory[k].since \in {Never} \cup 0..Grace /\ hist.up \in 0..Grace
      BY <1>1, <2>1 DEF Inv, TypeOK, Entry
    <2> QED BY <2>1, <2>2, <2>3, TimesFacts DEF Never
  <1>2. Inv /\ [Next]_vars => [Honest]_vars
    BY <1>1
  <1> QED BY <1>2, Always, PTL DEF Spec, AlarmIsHonest

\* Within one process a thing is reported at most once per REPEAT_AFTER_SECONDS,
\* unless the looks found it in order for STABLE_FOR_SECONDS (build_alarm).
THEOREM AlarmsArePaced == Spec => AlarmsPaced
  <1> DEFINE Paced == \A k \in alarm' \ alarm : hist.last[k] \in {Never, Repeat}
  <1>1. ASSUME Inv, [Next]_vars PROVE Paced
    <2> SUFFICES ASSUME NEW k \in alarm' \ alarm
                 PROVE  hist.last[k] \in {Never, Repeat}
      OBVIOUS
    <2>1. k \in Keys /\ memory[k].alerted \in {Never, Repeat}
      BY <1>1, NewIsFresh, FreshFacts
    <2> QED BY <1>1, <2>1 DEF Inv, MemoryIsTrue
  <1>2. Inv /\ [Next]_vars => [Paced]_vars
    BY <1>1
  <1> QED BY <1>2, Always, PTL DEF Spec, AlarmsPaced

-----------------------------------------------------------------------------
(* Decisions: numbers, and what a fold over a sequence amounts to.          *)
(* Nothing here is about Watchdog; the two parts share no state.            *)

\* A set that holds zero and, with a number, the next one, holds them all.
LEMMA NatSetInduction ==
    ASSUME NEW S, 0 \in S, \A n \in Nat : n \in S => n + 1 \in S
    PROVE  Nat \subseteq S
  <1> DEFINE R == OpToRel(<, Nat)
             T == Nat \ S
  <1>1. IsWellFoundedOn(R, Nat)
    BY NatLessThanWellFounded
  <1>2. \A x, y \in Nat : <<x, y>> \in R <=> x < y
    BY DEF OpToRel
  <1> HIDE DEF R
  <1> SUFFICES ASSUME T # {} PROVE FALSE
    OBVIOUS
  <1>3. \E x \in T : \A y \in T : ~ (<<y, x>> \in R)
    <2>1. T \subseteq Nat OBVIOUS
    <2> HIDE DEF T
    <2> QED BY <1>1, <2>1, WFMin
  <1>4. PICK x \in T : \A y \in T : ~ (<<y, x>> \in R)
    BY <1>3
  <1>5. x # 0 /\ x - 1 \in Nat /\ x - 1 < x /\ (x - 1) + 1 = x
    OBVIOUS
  <1>6. x - 1 \notin T
    BY <1>2, <1>4, <1>5
  <1> QED BY <1>5, <1>6

\* A set of numbers has a least one.
LEMMA LeastFacts ==
    ASSUME NEW S \in SUBSET Nat, S # {}
    PROVE  Min(S) \in S /\ \A n \in S : Min(S) <= n
  <1> DEFINE T == {n \in Nat : \A m \in 0..n : m \notin S}
  <1>1. \E x \in S : \A y \in S : x =< y
    <2> SUFFICES ASSUME \A x \in S : \E y \in S : y < x PROVE FALSE
      OBVIOUS
    <2>1. 0 \in T
      OBVIOUS
    <2>2. \A n \in Nat : n \in T => n + 1 \in T
      OBVIOUS
    <2>3. Nat \subseteq T
      <3> HIDE DEF T
      <3> QED BY <2>1, <2>2, NatSetInduction
    <2>4. PICK n \in Nat : n \in S
      OBVIOUS
    <2>5. n \in T /\ n \in 0..n
      BY <2>3
    <2> QED BY <2>4, <2>5
  <1> QED BY <1>1 DEF Min

\* A bounded set of numbers has a greatest one.
LEMMA GreatestFacts ==
    ASSUME NEW bound \in Nat, NEW S \in SUBSET (0..bound), S # {}
    PROVE  \E x \in S : \A y \in S : x >= y
  <1> DEFINE T == {bound - n : n \in S}
  <1>1. T \in SUBSET Nat /\ T # {}
    <2>1. \A n \in S : bound - n \in Nat
      OBVIOUS
    <2>2. T # {}
      OBVIOUS
    <2> QED BY <2>1, <2>2, Zenon
  <1>2. Min(T) \in T /\ \A n \in T : Min(T) <= n
    <2> HIDE DEF T
    <2> QED BY <1>1, LeastFacts
  <1>3. PICK x \in S : Min(T) = bound - x
    BY <1>2
  <1>4. \A y \in S : bound - x <= bound - y
    BY <1>2, <1>3
  <1> QED BY <1>4

\* The maximum the folds of the community modules go by.
LEMMA MaxFacts ==
    ASSUME NEW bound \in Nat, NEW S \in SUBSET (0..bound), S # {}
    PROVE  Max(S) \in S /\ \A n \in S : n <= Max(S)
  BY GreatestFacts DEF Max

\* A step folded over the positions of a sequence, the last one last.
Folds(A, base, step, seq, m, g) ==
    /\ g \in [SUBSET (1..m) -> A]
    /\ \A s \in SUBSET (1..m) :
          g[s] = IF s = {} THEN base ELSE step[<<g[s \ {Max(s)}], seq[Max(s)]>>]

\* There is such a fold of every sequence, so that what the folds choose is one.
LEMMA FoldExists ==
    ASSUME NEW A, NEW B, NEW base \in A, NEW step \in [A \X B -> A], NEW seq \in Seq(B)
    PROVE  \E g : Folds(A, base, step, seq, Len(seq), g)
  <1> DEFINE T == {m \in Nat : m <= Len(seq) => \E g : Folds(A, base, step, seq, m, g)}
  <1>1. 0 \in T
    <2> DEFINE g == [s \in SUBSET (1..0) |-> base]
    <2>1. \A s \in SUBSET (1..0) : s = {}
      OBVIOUS
    <2>2. g \in [SUBSET (1..0) -> A]
      OBVIOUS
    <2>3. Folds(A, base, step, seq, 0, g)
      BY <2>1, <2>2 DEF Folds
    <2> QED BY <2>3
  <1>2. ASSUME NEW m \in Nat, m \in T PROVE m + 1 \in T
    <2> SUFFICES ASSUME m + 1 <= Len(seq)
                 PROVE  \E g : Folds(A, base, step, seq, m + 1, g)
      OBVIOUS
    <2>1. PICK f : Folds(A, base, step, seq, m, f)
      BY <1>2
    <2>2. /\ f \in [SUBSET (1..m) -> A]
          /\ \A s \in SUBSET (1..m) :
                f[s] = IF s = {} THEN base ELSE step[<<f[s \ {Max(s)}], seq[Max(s)]>>]
      BY <2>1 DEF Folds
    <2> DEFINE g == [s \in SUBSET (1..(m + 1)) |->
                        IF m + 1 \in s THEN step[<<f[s \ {m + 1}], seq[m + 1]>>] ELSE f[s]]
    <2>3. seq[m + 1] \in B
      OBVIOUS
    <2>4. ASSUME NEW s \in SUBSET (1..(m + 1))
          PROVE  /\ g[s] \in A
                 /\ g[s] = IF s = {} THEN base ELSE step[<<g[s \ {Max(s)}], seq[Max(s)]>>]
      <3>1. CASE m + 1 \in s
        <4>1. \A n \in s : n <= m + 1
          OBVIOUS
        <4>2. Max(s) = m + 1
          <5>1. Max(s) \in s /\ \A n \in s : n <= Max(s)
            <6>1. s \in SUBSET (0..(m + 1)) /\ s # {} /\ m + 1 \in Nat
              BY <3>1
            <6> QED BY <6>1, MaxFacts
          <5>2. Max(s) \in 1..(m + 1) /\ m + 1 <= Max(s)
            BY <3>1, <5>1
          <5> QED BY <5>2
        <4>3. s \ {m + 1} \in SUBSET (1..m) /\ s \ {m + 1} \in SUBSET (1..(m + 1)) /\ m + 1 \notin s \ {m + 1}
          OBVIOUS
        <4>4. g[s] = step[<<f[s \ {m + 1}], seq[m + 1]>>] /\ g[s \ {m + 1}] = f[s \ {m + 1}]
          BY <3>1, <4>3
        <4>5. f[s \ {m + 1}] \in A
          BY <2>2, <4>3
        <4> QED BY <2>3, <3>1, <4>2, <4>4, <4>5
      <3>2. CASE m + 1 \notin s
        <4>1. s \in SUBSET (1..m)
          <5>1. ASSUME NEW n \in s PROVE n \in 1..m
            <6>1. n \in 1..(m + 1) /\ n # m + 1
              BY <3>2
            <6> QED BY <6>1
          <5> QED BY <5>1
        <4>2. s \ {Max(s)} \in SUBSET (1..(m + 1)) /\ m + 1 \notin s \ {Max(s)}
          BY <3>2
        <4>3. g[s] = f[s] /\ g[s \ {Max(s)}] = f[s \ {Max(s)}]
          BY <3>2, <4>2
        <4>4. f[s] \in A
          BY <2>2, <4>1
        <4> QED BY <2>2, <4>1, <4>3, <4>4
      <3> QED BY <3>1, <3>2
    <2>5. g \in [SUBSET (1..(m + 1)) -> A]
      BY <2>4
    <2>6. Folds(A, base, step, seq, m + 1, g)
      <3> HIDE DEF g
      <3> QED BY <2>4, <2>5 DEF Folds
    <2> QED BY <2>6
  <1>3. Nat \subseteq T
    <2> HIDE DEF T
    <2> QED BY <1>1, <1>2, NatSetInduction
  <1> QED BY <1>3, LenProperties

\* The positions up to n, and what is left of them without the last one.
LEMMA PrefixFacts ==
    ASSUME NEW n \in Nat \ {0}
    PROVE  1..n # {} /\ Max(1..n) = n /\ (1..n) \ {Max(1..n)} = 1..(n - 1)
  <1>1. Max(1..n) \in 1..n /\ \A k \in 1..n : k <= Max(1..n)
    <2>1. 1..n \in SUBSET (0..n) /\ n \in Nat /\ 1..n # {}
      OBVIOUS
    <2> QED BY <2>1, MaxFacts
  <1>2. Max(1..n) = n
    <2>1. n \in 1..n
      OBVIOUS
    <2>2. n <= Max(1..n)
      BY <1>1, <2>1
    <2> QED BY <1>1, <2>2
  <1>3. \A k : k \in (1..n) \ {n} <=> k \in 1..(n - 1)
    OBVIOUS
  <1>4. (1..n) \ {n} = 1..(n - 1)
    BY <1>3, Zenon
  <1> QED BY <1>2, <1>4

\* What holds of no position, and of one more whenever it holds of those before,
\* holds of them all.
LEMMA PrefixInduction ==
    ASSUME NEW l \in Nat, NEW g, NEW I, g[{}] \in I[0],
           \A n \in 1..l : g[1..(n - 1)] \in I[n - 1] => g[1..n] \in I[n]
    PROVE  g[1..l] \in I[l]
  <1> DEFINE T == {n \in Nat : n <= l => g[1..n] \in I[n]}
  <1>1. 0 \in T
    <2>1. 1..0 = {}
      OBVIOUS
    <2> QED BY <2>1
  <1>2. ASSUME NEW n \in Nat, n \in T PROVE n + 1 \in T
    <2> SUFFICES ASSUME n + 1 <= l PROVE g[1..(n + 1)] \in I[n + 1]
      OBVIOUS
    <2>1. n + 1 \in 1..l /\ (n + 1) - 1 = n
      OBVIOUS
    <2>2. g[1..n] \in I[n]
      BY <1>2
    <2> QED BY <2>1, <2>2
  <1>3. Nat \subseteq T
    <2> HIDE DEF T
    <2> QED BY <1>1, <1>2, NatSetInduction
  <1> QED BY <1>3

-----------------------------------------------------------------------------
(* Decisions: the listing of a shop (ShopListing).                          *)

\* What a page may hold, and what a listing consists of.
Entries == [key: STRING, kind: {"jsonld", "product", "plain", "menu"},
            title: Nat, price: {NoPrice} \cup Nat]
Records == [key: STRING, title: Nat, price: {NoPrice} \cup Nat]

\* A record that sums up the entries of its key.
SumsUp(r, found) ==
    /\ \E e \in found : e.key = r.key /\ e.title = r.title
    /\ \A e \in found : e.key = r.key => e.title <= r.title
    /\ IF r.price = NoPrice
       THEN \A e \in found : e.key = r.key => e.price = NoPrice
       ELSE \E e \in found : e.key = r.key /\ e.price = r.price

\* A list that holds one such record per key.
Lists(merged, found) ==
    /\ merged \in Seq(Records)
    /\ \A i, j \in DOMAIN merged : merged[i].key = merged[j].key => i = j
    /\ \A e \in found : \E i \in DOMAIN merged : merged[i].key = e.key
    /\ \A i \in DOMAIN merged : SumsUp(merged[i], found)

\* _richer of a record and an entry of its key sums up that entry too.
LEMMA RicherSumsUp ==
    ASSUME NEW found \in SUBSET Entries, NEW r \in Records, NEW e \in Entries,
           SumsUp(r, found), r.key = e.key
    PROVE  Richer(r, e) \in Records /\ Richer(r, e).key = r.key /\ SumsUp(Richer(r, e), found \cup {e})
  <1> DEFINE q == Richer(r, e)
  <1>1. /\ q \in Records /\ q.key = r.key
        /\ q.price = IF r.price = NoPrice THEN e.price ELSE r.price
        /\ q.title = IF e.title > r.title THEN e.title ELSE r.title
    BY DEF Richer, Records, Entries
  <1>2. \A f \in found : f \in Entries
    OBVIOUS
  <1> HIDE DEF q
  <1>3. \E f \in found \cup {e} : f.key = q.key /\ f.title = q.title
    BY <1>1 DEF SumsUp
  <1>4. \A f \in found \cup {e} : f.key = q.key => f.title <= q.title
    <2> SUFFICES ASSUME NEW f \in found \cup {e}, f.key = q.key PROVE f.title <= q.title
      OBVIOUS
    <2>1. f.title \in Nat /\ e.title \in Nat /\ r.title \in Nat
      BY DEF Entries, Records
    <2>2. f = e \/ f.title <= r.title
      BY <1>1 DEF SumsUp
    <2> QED BY <1>1, <2>1, <2>2
  <1>5. CASE r.price = NoPrice
    BY <1>1, <1>3, <1>4, <1>5 DEF SumsUp, q
  <1>6. CASE r.price # NoPrice
    BY <1>1, <1>3, <1>4, <1>6 DEF SumsUp, q
  <1> QED BY <1>5, <1>6

\* Merging one more entry lists it too.
LEMMA MergeLists ==
    ASSUME NEW found \in SUBSET Entries, NEW merged, NEW e \in Entries, Lists(merged, found)
    PROVE  Lists(Merge(merged, e), found \cup {e})
  <1>1. merged \in Seq(Records) /\ DOMAIN merged = 1..Len(merged)
    BY DEF Lists
  <1>2. CASE \E i \in DOMAIN merged : merged[i].key = e.key
    <2> DEFINE new == [i \in DOMAIN merged |->
                          IF merged[i].key = e.key THEN Richer(merged[i], e) ELSE merged[i]]
    <2>1. Merge(merged, e) = new
      BY <1>2 DEF Merge
    <2>2. ASSUME NEW i \in DOMAIN merged
          PROVE  /\ new[i] \in Records /\ new[i].key = merged[i].key
                 /\ SumsUp(new[i], found \cup {e})
      <3>1. merged[i] \in Records /\ SumsUp(merged[i], found)
        BY <1>1 DEF Lists
      <3>2. CASE merged[i].key = e.key
        BY <3>1, <3>2, RicherSumsUp
      <3>3. CASE merged[i].key # e.key
        BY <3>1, <3>3 DEF SumsUp
      <3> QED BY <3>2, <3>3
    <2>3. DOMAIN new = 1..Len(merged) /\ Len(merged) \in Nat
      BY <1>1
    <2>4. new \in Seq(Records)
      <3>1. new \in [1..Len(merged) -> Records]
        BY <2>2, <2>3
      <3> HIDE DEF new
      <3> QED BY <2>3, <3>1, SeqDef
    <2> HIDE DEF new
    <2>5. \A f \in found \cup {e} : \E i \in DOMAIN new : new[i].key = f.key
      BY <1>1, <1>2, <2>2, <2>3 DEF Lists
    <2>6. \A i, j \in DOMAIN new : new[i].key = new[j].key => i = j
      BY <1>1, <2>2, <2>3 DEF Lists
    <2> QED BY <1>1, <2>1, <2>2, <2>3, <2>4, <2>5, <2>6 DEF Lists
  <1>3. CASE \A i \in DOMAIN merged : merged[i].key # e.key
    <2> DEFINE new == Append(merged, Record(e))
    <2>1. Merge(merged, e) = new
      BY <1>3 DEF Merge
    <2>2. Record(e) \in Records /\ Record(e).key = e.key /\ Record(e).title = e.title /\ Record(e).price = e.price
      BY DEF Record, Records, Entries
    <2>3. /\ new \in Seq(Records) /\ DOMAIN new = 1..(Len(merged) + 1)
          /\ new[Len(merged) + 1] = Record(e)
          /\ \A i \in 1..Len(merged) : new[i] = merged[i]
      BY <1>1, <2>2
    <2>4. \A f \in found : f.key # e.key
      BY <1>3 DEF Lists
    <2>5. SumsUp(Record(e), found \cup {e})
      <3>1. e.title <= e.title
        BY DEF Entries
      <3> QED BY <2>2, <2>4, <3>1 DEF SumsUp
    <2>6. \A i \in 1..Len(merged) : SumsUp(merged[i], found \cup {e})
      BY <1>1, <1>3 DEF Lists, SumsUp
    <2> HIDE DEF new
    <2>7. \A f \in found \cup {e} : \E i \in DOMAIN new : new[i].key = f.key
      <3> SUFFICES ASSUME NEW f \in found \cup {e} PROVE \E i \in DOMAIN new : new[i].key = f.key
        OBVIOUS
      <3>1. CASE f = e
        <4>1. Len(merged) + 1 \in DOMAIN new
          BY <1>1, <2>3
        <4> QED BY <2>2, <2>3, <3>1, <4>1
      <3>2. CASE f \in found
        <4>1. PICK i \in 1..Len(merged) : merged[i].key = f.key
          BY <1>1, <3>2 DEF Lists
        <4>2. i \in DOMAIN new
          BY <1>1, <2>3
        <4> QED BY <2>3, <4>1, <4>2
      <3> QED BY <3>1, <3>2
    <2>8. \A i \in DOMAIN new : i \in 1..Len(merged) \/ i = Len(merged) + 1
      BY <1>1, <2>3
    <2>9. \A i, j \in DOMAIN new : new[i].key = new[j].key => i = j
      <3>1. \A i \in 1..Len(merged) : new[i].key = merged[i].key /\ new[i].key # e.key
        BY <1>1, <1>3, <2>3
      <3>2. new[Len(merged) + 1].key = e.key
        BY <2>2, <2>3
      <3>3. \A i, j \in 1..Len(merged) : merged[i].key = merged[j].key => i = j
        BY <1>1 DEF Lists
      <3> QED BY <2>8, <3>1, <3>2, <3>3
    <2>10. \A i \in DOMAIN new : SumsUp(new[i], found \cup {e})
      BY <2>3, <2>5, <2>6, <2>8
    <2> QED BY <2>1, <2>3, <2>7, <2>9, <2>10 DEF Lists
  <1> QED BY <1>2, <1>3

\* The fold, unrolled: MergeWanted takes the entries one after the other.
LEMMA MergeWantedSteps ==
    ASSUME NEW A, NEW B, NEW start \in A, NEW entries \in Seq(B), NEW wanted,
           \A m \in A : \A e \in B : Merge(m, e) \in A
    PROVE  \E g :
              /\ g[{}] = start
              /\ \A n \in 1..Len(entries) :
                    g[1..n] = IF entries[n] \in wanted THEN Merge(g[1..(n - 1)], entries[n])
                                                       ELSE g[1..(n - 1)]
              /\ MergeWanted(start, entries, wanted) = g[1..Len(entries)]
  <1> DEFINE step == [x \in A \X B |-> IF x[2] \in wanted THEN Merge(x[1], x[2]) ELSE x[1]]
             Is(g) == g = [s \in SUBSET DOMAIN entries |->
                              IF s = {} THEN start
                              ELSE IF entries[Max(s)] \in wanted
                                   THEN Merge(g[s \ {Max(s)}], entries[Max(s)])
                                   ELSE g[s \ {Max(s)}]]
             h == CHOOSE g : Is(g)
  <1>1. MergeWanted(start, entries, wanted) = h[DOMAIN entries]
    BY DEF MergeWanted, FoldLeft, MapThenFoldSet
  <1>2. DOMAIN entries = 1..Len(entries) /\ Len(entries) \in Nat
    OBVIOUS
  <1>3. \E g : Is(g)
    <2>1. step \in [A \X B -> A]
      OBVIOUS
    <2>2. PICK g : Folds(A, start, step, entries, Len(entries), g)
      <3> HIDE DEF step
      <3> QED BY <2>1, FoldExists
    <2>3. g \in [SUBSET (1..Len(entries)) -> A]
      BY <2>2 DEF Folds
    <2>4. ASSUME NEW s \in SUBSET (1..Len(entries)), s # {}
          PROVE  g[s] = IF entries[Max(s)] \in wanted
                        THEN Merge(g[s \ {Max(s)}], entries[Max(s)])
                        ELSE g[s \ {Max(s)}]
      <3>1. Max(s) \in 1..Len(entries)
        <4>1. s \in SUBSET (0..Len(entries)) /\ Len(entries) \in Nat
          BY <1>2
        <4> QED BY <2>4, <4>1, MaxFacts
      <3>2. g[s \ {Max(s)}] \in A /\ entries[Max(s)] \in B
        <4>1. s \ {Max(s)} \in SUBSET (1..Len(entries))
          OBVIOUS
        <4>2. g[s \ {Max(s)}] \in A
          BY <2>3, <4>1
        <4> QED BY <3>1, <4>2
      <3>3. g[s] = step[<<g[s \ {Max(s)}], entries[Max(s)]>>]
        BY <2>2, <2>4 DEF Folds
      <3> QED BY <3>2, <3>3
    <2>5. g[{}] = start
      BY <2>2 DEF Folds
    <2> QED BY <1>2, <2>3, <2>4, <2>5
  <1>4. Is(h)
    <2> HIDE DEF Is
    <2> QED BY <1>3
  <1>5. h[{}] = start
    BY <1>4
  <1>6. ASSUME NEW n \in 1..Len(entries)
        PROVE  h[1..n] = IF entries[n] \in wanted THEN Merge(h[1..(n - 1)], entries[n])
                                                  ELSE h[1..(n - 1)]
    <2>1. 1..n # {} /\ Max(1..n) = n /\ (1..n) \ {Max(1..n)} = 1..(n - 1)
      <3>1. n \in Nat \ {0}
        BY <1>2
      <3> QED BY <3>1, PrefixFacts, Zenon
    <2>2. 1..n \in SUBSET DOMAIN entries
      BY <1>2
    <2> HIDE DEF h
    <2>3. h[1..n] = IF entries[Max(1..n)] \in wanted
                    THEN Merge(h[(1..n) \ {Max(1..n)}], entries[Max(1..n)])
                    ELSE h[(1..n) \ {Max(1..n)}]
      BY <1>4, <2>1, <2>2, Zenon
    <2> QED BY <2>1, <2>3, Zenon
  <1> QED BY <1>1, <1>2, <1>5, <1>6

\* A list of some entries, with the wanted ones of a page merged into it, lists
\* those too.
LEMMA MergeWantedLists ==
    ASSUME NEW listed \in SUBSET Entries, NEW start, Lists(start, listed),
           NEW entries \in Seq(Entries), NEW wanted \in SUBSET Range(entries)
    PROVE  Lists(MergeWanted(start, entries, wanted), listed \cup wanted)
  <1> DEFINE A == {m \in Seq(Records) : \E found \in SUBSET Entries : Lists(m, found)}
             seen(n) == listed \cup (wanted \cap {entries[k] : k \in 1..n})
             I == [n \in 0..Len(entries) |-> {m \in A : Lists(m, seen(n))}]
  <1>1. Len(entries) \in Nat /\ DOMAIN entries = 1..Len(entries)
        /\ \A k \in 1..Len(entries) : entries[k] \in Entries
    OBVIOUS
  <1>2. start \in A
    BY DEF Lists
  <1>3. ASSUME NEW m \in A, NEW e \in Entries PROVE Merge(m, e) \in A
    <2>1. PICK found \in SUBSET Entries : Lists(m, found)
      OBVIOUS
    <2>2. Lists(Merge(m, e), found \cup {e}) /\ found \cup {e} \in SUBSET Entries
      BY <2>1, MergeLists
    <2> QED BY <2>2 DEF Lists
  <1> HIDE DEF A
  <1>4. PICK g : /\ g[{}] = start
                 /\ \A n \in 1..Len(entries) :
                       g[1..n] = IF entries[n] \in wanted THEN Merge(g[1..(n - 1)], entries[n])
                                                          ELSE g[1..(n - 1)]
                 /\ MergeWanted(start, entries, wanted) = g[1..Len(entries)]
    BY <1>2, <1>3, MergeWantedSteps
  <1>5. g[{}] \in I[0]
    <2>1. seen(0) = listed
      OBVIOUS
    <2>2. 0 \in 0..Len(entries)
      BY <1>1
    <2> HIDE DEF seen
    <2>3. Lists(start, seen(0))
      BY <2>1
    <2> QED BY <1>2, <1>4, <2>2, <2>3
  <1>6. ASSUME NEW n \in 1..Len(entries), g[1..(n - 1)] \in I[n - 1]
        PROVE  g[1..n] \in I[n]
    <2> DEFINE m == g[1..(n - 1)]
               e == entries[n]
    <2>1. n - 1 \in 0..Len(entries) /\ n \in 0..Len(entries) /\ e \in Entries
      BY <1>1
    <2>2. m \in A /\ Lists(m, seen(n - 1))
      BY <1>6, <2>1
    <2>3. seen(n - 1) \in SUBSET Entries
      <3>1. \A k \in 1..(n - 1) : entries[k] \in Entries
        BY <1>1
      <3> QED BY <3>1
    <2>4. \A k : k \in 1..n <=> k \in 1..(n - 1) \/ k = n
      BY <1>1
    <2>5. CASE e \in wanted
      <3>1. g[1..n] = Merge(m, e)
        BY <1>4, <2>5
      <3>2. seen(n) = seen(n - 1) \cup {e}
        BY <2>4, <2>5, Zenon
      <3> HIDE DEF seen, m, e
      <3>3. Lists(Merge(m, e), seen(n - 1) \cup {e})
        BY <2>1, <2>2, <2>3, MergeLists
      <3> QED BY <1>3, <2>1, <2>2, <3>1, <3>2, <3>3
    <2>6. CASE e \notin wanted
      <3>1. g[1..n] = m
        BY <1>4, <2>6
      <3>2. seen(n) = seen(n - 1)
        BY <2>4, <2>6, Zenon
      <3> HIDE DEF seen, m, e
      <3> QED BY <2>1, <2>2, <3>1, <3>2
    <2> QED BY <2>5, <2>6
  <1>7. g[1..Len(entries)] \in I[Len(entries)]
    <2> HIDE DEF I
    <2> QED BY <1>1, <1>5, <1>6, PrefixInduction
  <1>8. seen(Len(entries)) = listed \cup wanted
    BY <1>1 DEF Range
  <1>9. Lists(g[1..Len(entries)], seen(Len(entries)))
    <2>1. Len(entries) \in 0..Len(entries)
      BY <1>1
    <2> HIDE DEF seen
    <2> QED BY <1>7, <2>1
  <1> HIDE DEF seen
  <1> QED BY <1>4, <1>8, <1>9

\* What parse_listing takes into account is on the page.
LEMMA CandidatesAreEntries ==
    ASSUME NEW entries \in Seq(Entries)
    PROVE  /\ JsonLdProducts(entries) \in SUBSET Range(entries)
           /\ AnchorProducts(entries) \in SUBSET Range(entries)
           /\ Range(entries) \in SUBSET Entries
  <1>1. Range(entries) \in SUBSET Entries
    BY DEF Range
  <1> QED BY <1>1 DEF JsonLdProducts, AnchorProducts

\* parse_listing takes JSON-LD first and the links after it, and lists both.
LEMMA ParseListingLists ==
    ASSUME NEW entries \in Seq(Entries)
    PROVE  Lists(ParseListing(entries), Candidates(entries))
  <1> DEFINE first == MergeWanted(<<>>, entries, JsonLdProducts(entries))
  <1>1. Lists(<<>>, {})
    BY DEF Lists
  <1>2. Lists(first, {} \cup JsonLdProducts(entries))
    BY <1>1, CandidatesAreEntries, MergeWantedLists
  <1>3. {} \cup JsonLdProducts(entries) \in SUBSET Entries
    BY CandidatesAreEntries
  <1> HIDE DEF first
  <1>4. Lists(MergeWanted(first, entries, AnchorProducts(entries)),
              ({} \cup JsonLdProducts(entries)) \cup AnchorProducts(entries))
    BY <1>2, <1>3, CandidatesAreEntries, MergeWantedLists
  <1> QED BY <1>4 DEF ParseListing, Candidates, first

\* A sequence without repetition has as many members as positions.
LEMMA KeysAreCounted ==
    ASSUME NEW found \in Seq(Records),
           \A i, j \in DOMAIN found : found[i].key = found[j].key => i = j
    PROVE  Cardinality({found[i].key : i \in DOMAIN found}) = Len(found)
  <1> DEFINE keys == {found[i].key : i \in DOMAIN found}
             f == [i \in 1..Len(found) |-> found[i].key]
  <1>1. DOMAIN found = 1..Len(found) /\ Len(found) \in Nat
    OBVIOUS
  <1>2. f \in Bijection(1..Len(found), keys)
    BY <1>1 DEF Bijection, Injection, Surjection, IsInjective
  <1>3. IsFiniteSet(1..Len(found)) /\ Cardinality(1..Len(found)) = Len(found)
    <2>1. \A n \in Nat : (IF 1 <= n THEN n - 1 + 1 ELSE 0) = n
      OBVIOUS
    <2>2. \A n \in Int : IsFiniteSet(1..n) /\ Cardinality(1..n) = IF 1 <= n THEN n - 1 + 1 ELSE 0
      BY FS_Interval
    <2> QED BY <1>1, <2>1, <2>2
  <1> HIDE DEF keys, f
  <1>4. Cardinality(keys) = Cardinality(1..Len(found))
    BY <1>2, <1>3, FS_Bijection DEF ExistsBijection
  <1> QED BY <1>3, <1>4 DEF keys

\* ListingIsSound holds of parse_listing on every page.
LEMMA ListingSound ==
    ASSUME NEW l \in Seq(Entries)
    PROVE  ListingIsSound(l, ParseListing(l))
  <1> DEFINE found == ParseListing(l)
             of(key) == {e \in Candidates(l) : e.key = key}
             keys == {found[i].key : i \in DOMAIN found}
  <1>1. Lists(found, Candidates(l))
    BY ParseListingLists
  <1> HIDE DEF found
  <1>2. Cardinality(keys) = Len(found)
    BY <1>1, KeysAreCounted DEF Lists
  <1>3. keys = {e.key : e \in Candidates(l)}
    <2>1. \A e \in Candidates(l) : e.key \in keys
      BY <1>1 DEF Lists
    <2>2. \A i \in DOMAIN found : \E e \in Candidates(l) : e.key = found[i].key
      BY <1>1 DEF Lists, SumsUp
    <2> QED BY <2>1, <2>2
  <1>4. ASSUME NEW i \in DOMAIN found
        PROVE  /\ \A e \in of(found[i].key) : e.title <= found[i].title
               /\ \E e \in of(found[i].key) : e.title = found[i].title
               /\ IF found[i].price = NoPrice
                  THEN \A e \in of(found[i].key) : e.price = NoPrice
                  ELSE \E e \in of(found[i].key) : e.price = found[i].price
    BY <1>1 DEF Lists, SumsUp
  <1>5. ASSUME \E e \in Range(l) : e.kind = "product" /\ e.title >= MinTitle, NEW key \in keys
        PROVE  \E e \in of(key) : e.kind \in {"jsonld", "product"}
    <2>1. \A e \in Candidates(l) : e.kind \in {"jsonld", "product"}
      BY <1>5 DEF Candidates, JsonLdProducts, AnchorProducts
    <2>2. \E e \in Candidates(l) : e.key = key
      BY <1>3
    <2> QED BY <2>1, <2>2
  <1> QED BY <1>2, <1>3, <1>4, <1>5 DEF ListingIsSound, found

-----------------------------------------------------------------------------
(* Decisions: the results of a search (ShopListing).                        *)

\* A result of the search page.
Hit == [http: BOOLEAN, n: Nat]

\* The fold of SearchHits, unrolled in the same way.
LEMMA SearchHitsSteps ==
    ASSUME NEW results \in Seq(Hit), NEW limit \in Nat
    PROVE  \E g :
              /\ g[{}] = <<>>
              /\ \A n \in 1..Len(results) :
                    g[1..n] = IF results[n].http /\ Len(g[1..(n - 1)]) < limit
                              THEN Append(g[1..(n - 1)], results[n]) ELSE g[1..(n - 1)]
              /\ SearchHits(results, limit) = g[1..Len(results)]
  <1> DEFINE A == Seq(Hit)
             step == [x \in A \X Hit |-> IF x[2].http /\ Len(x[1]) < limit
                                         THEN Append(x[1], x[2]) ELSE x[1]]
             Is(g) == g = [s \in SUBSET DOMAIN results |->
                              IF s = {} THEN <<>>
                              ELSE IF results[Max(s)].http /\ Len(g[s \ {Max(s)}]) < limit
                                   THEN Append(g[s \ {Max(s)}], results[Max(s)])
                                   ELSE g[s \ {Max(s)}]]
             h == CHOOSE g : Is(g)
  <1>1. SearchHits(results, limit) = h[DOMAIN results]
    BY DEF SearchHits, FoldLeft, MapThenFoldSet
  <1>2. DOMAIN results = 1..Len(results) /\ Len(results) \in Nat
    OBVIOUS
  <1>3. \E g : Is(g)
    <2>1. step \in [A \X Hit -> A] /\ <<>> \in A
      OBVIOUS
    <2>2. PICK g : Folds(A, <<>>, step, results, Len(results), g)
      <3> HIDE DEF step, A
      <3> QED BY <2>1, FoldExists
    <2>3. g \in [SUBSET (1..Len(results)) -> A]
      BY <2>2 DEF Folds
    <2>4. ASSUME NEW s \in SUBSET (1..Len(results)), s # {}
          PROVE  g[s] = IF results[Max(s)].http /\ Len(g[s \ {Max(s)}]) < limit
                        THEN Append(g[s \ {Max(s)}], results[Max(s)])
                        ELSE g[s \ {Max(s)}]
      <3>1. Max(s) \in 1..Len(results)
        <4>1. s \in SUBSET (0..Len(results)) /\ Len(results) \in Nat
          BY <1>2
        <4> QED BY <2>4, <4>1, MaxFacts
      <3>2. g[s \ {Max(s)}] \in A /\ results[Max(s)] \in Hit
        <4>1. s \ {Max(s)} \in SUBSET (1..Len(results))
          OBVIOUS
        <4>2. g[s \ {Max(s)}] \in A
          BY <2>3, <4>1
        <4> QED BY <3>1, <4>2
      <3>3. g[s] = step[<<g[s \ {Max(s)}], results[Max(s)]>>]
        BY <2>2, <2>4 DEF Folds
      <3> QED BY <3>2, <3>3
    <2>5. g[{}] = <<>>
      BY <2>2 DEF Folds
    <2> QED BY <1>2, <2>3, <2>4, <2>5
  <1>4. Is(h)
    <2> HIDE DEF Is
    <2> QED BY <1>3
  <1>5. h[{}] = <<>>
    BY <1>4
  <1>6. ASSUME NEW n \in 1..Len(results)
        PROVE  h[1..n] = IF results[n].http /\ Len(h[1..(n - 1)]) < limit
                         THEN Append(h[1..(n - 1)], results[n]) ELSE h[1..(n - 1)]
    <2>1. 1..n # {} /\ Max(1..n) = n /\ (1..n) \ {Max(1..n)} = 1..(n - 1)
      <3>1. n \in Nat \ {0}
        BY <1>2
      <3> QED BY <3>1, PrefixFacts, Zenon
    <2>2. 1..n \in SUBSET DOMAIN results
      BY <1>2
    <2> HIDE DEF h
    <2>3. h[1..n] = IF results[Max(1..n)].http /\ Len(h[(1..n) \ {Max(1..n)}]) < limit
                    THEN Append(h[(1..n) \ {Max(1..n)}], results[Max(1..n)])
                    ELSE h[(1..n) \ {Max(1..n)}]
      BY <1>4, <2>1, <2>2, Zenon
    <2> QED BY <2>1, <2>3, Zenon
  <1> QED BY <1>1, <1>2, <1>5, <1>6

\* What a search brings of the first n results.
Brings(hits, results, n) ==
    /\ hits \in Seq(Hit) /\ Len(hits) <= MaxHits
    /\ \A k \in DOMAIN hits : hits[k].http
    /\ Len(hits) < MaxHits =>
          \A j \in 1..n : results[j].http => \E k \in DOMAIN hits : hits[k] = results[j]

\* SearchIsSound holds of the results of search_web, whatever the page brings.
LEMMA SearchSound ==
    ASSUME NEW results \in Seq(Hit), MaxHits \in Nat
    PROVE  SearchIsSound(results, SearchHits(results, MaxHits))
  <1> DEFINE I == [n \in 0..Len(results) |-> {hits \in Seq(Hit) : Brings(hits, results, n)}]
  <1>1. DOMAIN results = 1..Len(results) /\ Len(results) \in Nat
    OBVIOUS
  <1>2. PICK g : /\ g[{}] = <<>>
                 /\ \A n \in 1..Len(results) :
                       g[1..n] = IF results[n].http /\ Len(g[1..(n - 1)]) < MaxHits
                                 THEN Append(g[1..(n - 1)], results[n]) ELSE g[1..(n - 1)]
                 /\ SearchHits(results, MaxHits) = g[1..Len(results)]
    BY SearchHitsSteps
  <1>3. g[{}] \in I[0]
    <2>1. Brings(<<>>, results, 0) /\ <<>> \in Seq(Hit)
      BY DEF Brings
    <2> QED BY <1>1, <1>2, <2>1
  <1>4. ASSUME NEW n \in 1..Len(results), g[1..(n - 1)] \in I[n - 1]
        PROVE  g[1..n] \in I[n]
    <2> DEFINE m == g[1..(n - 1)]
    <2>1. n - 1 \in 0..Len(results) /\ n \in 0..Len(results) /\ results[n] \in Hit
      BY <1>1
    <2>2. m \in Seq(Hit) /\ Brings(m, results, n - 1)
      BY <1>4, <2>1
    <2>3. \A k : k \in 1..n => k \in 1..(n - 1) \/ k = n
      BY <1>1
    <2>4. CASE results[n].http /\ Len(m) < MaxHits
      <3>1. g[1..n] = Append(m, results[n])
        BY <1>2, <2>4
      <3> HIDE DEF m
      <3> DEFINE new == Append(m, results[n])
      <3>2. /\ new \in Seq(Hit) /\ Len(new) = Len(m) + 1 /\ DOMAIN new = 1..(Len(m) + 1)
            /\ new[Len(m) + 1] = results[n] /\ \A k \in 1..Len(m) : new[k] = m[k]
            /\ DOMAIN m = 1..Len(m) /\ Len(m) \in Nat
        BY <2>1, <2>2
      <3> HIDE DEF new
      <3>3. Len(new) <= MaxHits /\ \A k \in DOMAIN new : new[k].http
        <4>1. \A k \in DOMAIN new : k \in 1..Len(m) \/ k = Len(m) + 1
          BY <3>2
        <4> QED BY <2>2, <2>4, <3>2, <4>1 DEF Brings
      <3>4. ASSUME NEW j \in 1..n, results[j].http
            PROVE  \E k \in DOMAIN new : new[k] = results[j]
        <4>1. CASE j = n
          <5>1. Len(m) + 1 \in DOMAIN new
            BY <3>2
          <5> QED BY <3>2, <4>1, <5>1
        <4>2. CASE j \in 1..(n - 1)
          <5>1. PICK k \in 1..Len(m) : m[k] = results[j]
            BY <2>2, <2>4, <3>2, <3>4, <4>2 DEF Brings
          <5>2. k \in DOMAIN new
            BY <3>2
          <5> QED BY <3>2, <5>1, <5>2
        <4> QED BY <2>3, <4>1, <4>2
      <3>5. Brings(new, results, n)
        BY <3>2, <3>3, <3>4 DEF Brings
      <3> QED BY <2>1, <3>1, <3>2, <3>5 DEF new
    <2>5. CASE ~(results[n].http /\ Len(m) < MaxHits)
      <3>1. g[1..n] = m
        BY <1>2, <2>5
      <3> HIDE DEF m
      <3>2. Brings(m, results, n)
        BY <2>2, <2>3, <2>5 DEF Brings
      <3> QED BY <2>1, <2>2, <3>1, <3>2
    <2> QED BY <2>4, <2>5
  <1>5. g[1..Len(results)] \in I[Len(results)]
    <2> HIDE DEF I
    <2> QED BY <1>1, <1>3, <1>4, PrefixInduction
  <1>6. Brings(g[1..Len(results)], results, Len(results))
    <2>1. Len(results) \in 0..Len(results)
      BY <1>1
    <2> QED BY <1>5, <2>1
  <1> QED BY <1>1, <1>2, <1>6 DEF SearchIsSound, Brings, Range

-----------------------------------------------------------------------------
(* Decisions: pages, data and answers (PageReading).                        *)

\* The first position of a sequence that passes a test.
LEMMA FirstOfFacts ==
    ASSUME NEW l \in Nat, NEW S \in SUBSET (1..l), NEW n, n = IF S # {} THEN Min(S) ELSE 0
    PROVE  /\ n = 0 <=> S = {}
           /\ n # 0 => n \in S /\ \A m \in S : n <= m
  <1>1. CASE S = {}
    BY <1>1
  <1>2. CASE S # {}
    <2>1. S \in SUBSET Nat
      OBVIOUS
    <2>2. Min(S) \in S /\ \A m \in S : Min(S) <= m
      BY <1>2, <2>1, LeastFacts
    <2>3. Min(S) \in 1..l
      BY <2>2
    <2> QED BY <1>2, <2>2, <2>3
  <1> QED BY <1>1, <1>2

\* A word says one of two things or nothing, and an empty text nothing.
LEMMA FirstKnownFacts ==
    ASSUME NEW words \in Seq(STRING)
    PROVE  /\ FirstKnown(words) \in {"IN", "OUT", None}
           /\ words = <<>> => FirstKnown(words) = None
  <1>1. words = <<>> => SelectInSeq(words, LAMBDA w : Normalize(w) # None) = 0
    BY DEF SelectInSeq
  <1> QED BY <1>1 DEF FirstKnown, Normalize, None

\* A page, as the signals on it.
Page == [status: Nat, jsonld: Seq(STRING), microdata: Seq(STRING), raw: Seq(STRING),
         button: BOOLEAN, soldOut: BOOLEAN, text: Texts, wall: BOOLEAN, title: BOOLEAN]

\* What the order of signals amounts to, for any page.
LEMMA DetectStockFacts ==
    ASSUME NEW p \in Page
    PROVE  /\ DetectStock(p).status =
                  IF FirstKnown(p.jsonld) # None THEN FirstKnown(p.jsonld)
                  ELSE IF p.button /\ ~SoldOut(p) THEN "IN"
                  ELSE IF FirstKnown(p.microdata) = "OUT" \/ SoldOut(p) THEN "OUT" ELSE "UNKNOWN"
           /\ DetectStock(p).readable <=> DetectStock(p).status # "UNKNOWN"
           /\ DetectStock(p).readable \in BOOLEAN
           /\ DetectStock(p) \in [status: {"IN", "OUT", "UNKNOWN"}, readable: BOOLEAN, listed: {TRUE}]
  <1>1. FirstKnown(p.jsonld) \in {"IN", "OUT", None}
    BY FirstKnownFacts DEF Page
  <1> QED BY <1>1 DEF DetectStock, Heuristics, Stock, NoSignal, Reading, None

\* Which texts hold a phrase of which table.
LEMMA TextFacts ==
    ASSUME NEW p, p.text \in Texts
    PROVE  /\ Holds(p, AMAZON_UNAVAILABLE) <=>
                  p.text \in {"derzeit_nicht_verfuegbar", "derzeit_nicht_auf_lager"}
           /\ Holds(p, AMAZON_IN_STOCK) <=>
                  p.text \in {"auf_lager", "nicht_auf_lager", "derzeit_nicht_auf_lager"}
           /\ Holds(p, UNAVAILABLE_BADGES) <=>
                  p.text \in {"ausverkauft", "ausverkauft_bald_lieferbar", "nicht_auf_lager",
                              "derzeit_nicht_auf_lager"}
           /\ Holds(p, AVAILABLE_BADGES) <=>
                  p.text \in {"sofort_verfuegbar", "auf_lager", "nicht_auf_lager",
                              "derzeit_nicht_auf_lager", "lieferbar", "nicht_lieferbar",
                              "ausverkauft_bald_lieferbar"}
           /\ Holds(p, IN_STORE_UNAVAILABLE) <=>
                  p.text \in {"in_keinem_markt", "nicht_im_markt", "nicht_abholbar_click_collect"}
           /\ Holds(p, IN_STORE_AVAILABLE) <=>
                  p.text \in {"in_keinem_markt", "nicht_im_markt", "in_null_maerkten", "abholbereit",
                              "nicht_abholbereit", "click_collect", "nicht_abholbar_click_collect"}
           /\ Holds(p, SOLD_OUT_PHRASES) <=>
                  p.text \in {"ausverkauft", "ausverkauft_bald_lieferbar", "derzeit_nicht_verfuegbar",
                              "nicht_lieferbar", "derzeit_nicht_auf_lager"}
  <1>1. p.text \in {"silent", "auf_lager", "nicht_auf_lager",
                  "derzeit_nicht_auf_lager", "derzeit_nicht_verfuegbar", "sofort_verfuegbar",
                  "lieferbar", "nicht_lieferbar", "ausverkauft",
                  "ausverkauft_bald_lieferbar", "abholbereit", "nicht_abholbereit", "click_collect",
                  "in_keinem_markt", "in_null_maerkten", "nicht_im_markt",
                  "nicht_abholbar_click_collect"}
    BY DEF Texts, Held
  <1>2. /\ Held["silent"] = {}
        /\ Held["auf_lager"] = {"auf lager"}
        /\ Held["nicht_auf_lager"] = {"nicht auf lager", "auf lager"}
        /\ Held["derzeit_nicht_auf_lager"] = {"derzeit nicht auf lager", "nicht auf lager", "auf lager"}
        /\ Held["derzeit_nicht_verfuegbar"] = {"derzeit nicht verfuegbar", "nicht verfuegbar"}
        /\ Held["sofort_verfuegbar"] = {"sofort verfuegbar"}
        /\ Held["lieferbar"] = {"lieferbar"}
        /\ Held["nicht_lieferbar"] = {"nicht lieferbar", "lieferbar"}
        /\ Held["ausverkauft"] = {"ausverkauft"}
        /\ Held["ausverkauft_bald_lieferbar"] = {"ausverkauft", "lieferbar"}
        /\ Held["abholbereit"] = {"abholbereit"}
        /\ Held["nicht_abholbereit"] = {"nicht abholbereit", "abholbereit"}
        /\ Held["click_collect"] = {"click & collect"}
        /\ Held["in_keinem_markt"] = {"in keinem markt verfuegbar", "markt verfuegbar"}
        /\ Held["in_null_maerkten"] = {"maerkten verfuegbar"}
        /\ Held["nicht_im_markt"] = {"nicht im markt verfuegbar", "markt verfuegbar"}
        /\ Held["nicht_abholbar_click_collect"] = {"nicht abholbar", "click & collect"}
    BY DEF Held
  <1> USE DEF AMAZON_UNAVAILABLE, AMAZON_IN_STOCK, UNAVAILABLE_BADGES, AVAILABLE_BADGES,
              IN_STORE_UNAVAILABLE, IN_STORE_AVAILABLE, SOLD_OUT_PHRASES
  <1>3. CASE p.text = "silent"
    BY <1>2, <1>3 DEF Holds
  <1>4. CASE p.text = "auf_lager"
    BY <1>2, <1>4 DEF Holds
  <1>5. CASE p.text = "nicht_auf_lager"
    BY <1>2, <1>5 DEF Holds
  <1>6. CASE p.text = "derzeit_nicht_auf_lager"
    BY <1>2, <1>6 DEF Holds
  <1>7. CASE p.text = "derzeit_nicht_verfuegbar"
    BY <1>2, <1>7 DEF Holds
  <1>8. CASE p.text = "sofort_verfuegbar"
    BY <1>2, <1>8 DEF Holds
  <1>9. CASE p.text = "lieferbar"
    BY <1>2, <1>9 DEF Holds
  <1>10. CASE p.text = "nicht_lieferbar"
    BY <1>2, <1>10 DEF Holds
  <1>11. CASE p.text = "ausverkauft"
    BY <1>2, <1>11 DEF Holds
  <1>12. CASE p.text = "ausverkauft_bald_lieferbar"
    BY <1>2, <1>12 DEF Holds
  <1>13. CASE p.text = "abholbereit"
    BY <1>2, <1>13 DEF Holds
  <1>14. CASE p.text = "click_collect"
    BY <1>2, <1>14 DEF Holds
  <1>15. CASE p.text = "in_keinem_markt"
    BY <1>2, <1>15 DEF Holds
  <1>16. CASE p.text = "in_null_maerkten"
    BY <1>2, <1>16 DEF Holds
  <1>17. CASE p.text = "nicht_im_markt"
    BY <1>2, <1>17 DEF Holds
  <1>18. CASE p.text = "nicht_abholbar_click_collect"
    BY <1>2, <1>18 DEF Holds
  <1>19. CASE p.text = "nicht_abholbereit"
    BY <1>2, <1>19 DEF Holds
  <1> QED BY <1>1, <1>3, <1>4, <1>5, <1>6, <1>7, <1>8, <1>9, <1>10, <1>11, <1>12, <1>13, <1>14, <1>15, <1>16, <1>17, <1>18, <1>19

\* PageIsSound holds of every adapter that reads HTML, one case per adapter.
LEMMA PageSound ==
    ASSUME NEW p \in Page, NEW adapter \in HtmlAdapters
    PROVE  PageIsSound(adapter, p, Check(adapter, p))
  <1> DEFINE sold == [p EXCEPT !.soldOut = TRUE]
             bare == [p EXCEPT !.button = FALSE]
  <1>1. /\ sold \in Page /\ sold.soldOut = TRUE /\ sold.button = p.button /\ sold.status = p.status
        /\ sold.wall = p.wall /\ sold.jsonld = p.jsonld /\ sold.microdata = p.microdata
        /\ sold.raw = p.raw /\ sold.text = p.text /\ sold.title = p.title
    BY DEF Page
  <1>2. /\ bare \in Page /\ bare.button = FALSE /\ bare.soldOut = p.soldOut /\ bare.status = p.status
        /\ bare.wall = p.wall /\ bare.jsonld = p.jsonld /\ bare.microdata = p.microdata
        /\ bare.raw = p.raw /\ bare.text = p.text /\ bare.title = p.title
    BY DEF Page
  <1>3. /\ FirstKnown(p.jsonld) \in {"IN", "OUT", None} /\ FirstKnown(p.microdata) \in {"IN", "OUT", None}
        /\ FirstKnown(p.raw) \in {"IN", "OUT", None}
        /\ p.raw = <<>> => FirstKnown(p.raw) = None
    BY FirstKnownFacts DEF Page
  <1>4. p.button \in BOOLEAN /\ p.soldOut \in BOOLEAN /\ p.wall \in BOOLEAN /\ p.title \in BOOLEAN
    BY DEF Page
  <1>5. \A table : Holds(sold, table) = Holds(p, table) /\ Holds(bare, table) = Holds(p, table)
    BY <1>1, <1>2 DEF Holds
  <1>14. /\ SoldOut(sold) = TRUE /\ SoldOut(bare) = SoldOut(p) /\ SoldOut(p) \in BOOLEAN
         /\ SoldOut(p) <=> p.soldOut \/ Holds(p, SOLD_OUT_PHRASES)
    BY <1>1, <1>2, <1>4, <1>5 DEF SoldOut
  <1> HIDE DEF sold, bare
  <1> DEFINE data == FirstKnown(p.jsonld)
             below(button, soldOut) ==
                 IF button /\ ~soldOut THEN "IN"
                 ELSE IF FirstKnown(p.microdata) = "OUT" \/ soldOut THEN "OUT" ELSE "UNKNOWN"
             seen(button, soldOut) == IF data # None THEN data ELSE below(button, soldOut)
  <1>6. /\ DetectStock(p).status = seen(p.button, SoldOut(p))
        /\ DetectStock(sold).status = seen(p.button, TRUE)
        /\ DetectStock(bare).status = seen(FALSE, SoldOut(p))
        /\ DetectStock(p).readable <=> DetectStock(p).status # "UNKNOWN"
        /\ DetectStock(p).readable \in BOOLEAN
    BY <1>1, <1>2, <1>14, DetectStockFacts, ZenonT(30)
  <1> DEFINE said(x) == Check(adapter, x).status
             Goal == /\ said(p) = "IN" /\ p.text \notin Misread[adapter] =>
                           /\ Vouches(adapter, p)
                           /\ Denies(adapter, p) => FirstKnown(p.jsonld) = "IN"
                     /\ said(sold) = "IN" => said(p) = "IN"
                     /\ said(bare) = "IN" => said(p) = "IN"
                     /\ Check(adapter, p).readable \/ said(p) = "UNKNOWN"
                           \/ (adapter = "mediamarkt_de" /\ p.raw # <<>>)
  <1>7. Goal => PageIsSound(adapter, p, Check(adapter, p))
    <2>1. Check(adapter, sold) = Check(adapter, [p EXCEPT !.soldOut = TRUE])
          /\ Check(adapter, bare) = Check(adapter, [p EXCEPT !.button = FALSE])
      BY DEF sold, bare
    <2> QED BY <2>1, Zenon DEF PageIsSound
  <1>15. /\ p.text \in Texts
         /\ Misread["amazon_de"] = {"nicht_auf_lager", "nicht_lieferbar", "ausverkauft",
                                     "ausverkauft_bald_lieferbar"}
         /\ Misread["games_island"] = {"nicht_lieferbar"}
         /\ Misread["mediamarkt_de"] = {"nicht_auf_lager"}
         /\ Misread["mediamarkt_instore"] = {"in_null_maerkten", "nicht_abholbereit", "click_collect"}
         /\ Misread["generic"] = {"nicht_auf_lager"}
    BY DEF Misread, Page
  <1>8. CASE p.status = 404
    <2>1. \A x : x.status = 404 => said(x) = "UNKNOWN"
      BY DEF Check, NotListed, Reading
    <2>2. Goal
      <3> HIDE DEF said
      <3> QED BY <1>1, <1>2, <1>8, <2>1
    <2> QED BY <1>7, <2>2
  <1>9. CASE p.status # 404 /\ adapter = "amazon_de"
    <2>1. ASSUME NEW x \in Page, x.status # 404
          PROVE  /\ Check(adapter, x).readable
                 /\ said(x) = "IN" <=> /\ ~x.wall /\ ~Holds(x, AMAZON_UNAVAILABLE)
                                       /\ x.button \/ Holds(x, AMAZON_IN_STOCK)
      BY <1>9, <2>1 DEF Check, Parse, AmazonDe, Stock, Reading, Page
    <2>2. Goal
      <3> HIDE DEF said
      <3>1. /\ Vouches(adapter, p) <=> p.button \/ p.text \in {"auf_lager", "sofort_verfuegbar", "lieferbar"}
            /\ Denies(adapter, p) <=>
                   p.text \in {"nicht_auf_lager", "derzeit_nicht_auf_lager", "derzeit_nicht_verfuegbar",
                               "nicht_lieferbar", "ausverkauft", "ausverkauft_bald_lieferbar"}
        BY <1>9 DEF Vouches, Denies, Denials, Offers
      <3>2. /\ said(p) = "IN" /\ p.text \notin Misread[adapter] => Vouches(adapter, p)
            /\ said(p) = "IN" /\ p.text \notin Misread[adapter] => ~Denies(adapter, p)
        BY <1>9, <1>15, <2>1, <3>1, TextFacts
      <3> QED BY <1>1, <1>2, <1>4, <1>5, <1>9, <2>1, <3>2
    <2> QED BY <1>7, <2>2
  <1>10. CASE p.status # 404 /\ adapter = "games_island"
    <2>1. ASSUME NEW x \in Page, x.status # 404
          PROVE  /\ said(x) = IF FirstKnown(x.jsonld) # None THEN FirstKnown(x.jsonld)
                              ELSE IF Holds(x, UNAVAILABLE_BADGES) THEN "OUT"
                              ELSE IF Holds(x, AVAILABLE_BADGES) THEN "IN"
                              ELSE DetectStock(x).status
                 /\ Check(adapter, x).readable \/ said(x) = "UNKNOWN"
      BY <1>10, <2>1, DetectStockFacts DEF Check, Parse, GamesIsland, Stock, Reading
    <2>2. Goal
      <3> DEFINE badge(x) == IF Holds(p, UNAVAILABLE_BADGES) THEN "OUT"
                             ELSE IF Holds(p, AVAILABLE_BADGES) THEN "IN" ELSE x
                 read(x) == IF data # None THEN data ELSE badge(x)
      <3>1. /\ said(p) = read(seen(p.button, SoldOut(p))) /\ said(sold) = read(seen(p.button, TRUE))
            /\ said(bare) = read(seen(FALSE, SoldOut(p)))
            /\ Check(adapter, p).readable \/ said(p) = "UNKNOWN"
        BY <1>1, <1>2, <1>5, <1>10, <1>6, <2>1
      <3>2. /\ Vouches(adapter, p) <=> \/ p.button \/ data = "IN"
                                        \/ p.text \in {"auf_lager", "sofort_verfuegbar", "lieferbar"}
            /\ Denies(adapter, p) <=>
                   \/ p.text \in {"nicht_auf_lager", "derzeit_nicht_auf_lager", "derzeit_nicht_verfuegbar",
                                  "nicht_lieferbar", "ausverkauft", "ausverkauft_bald_lieferbar"}
                   \/ p.soldOut /\ p.text = "silent"
        BY <1>4, <1>10 DEF Vouches, Denies, Denials, Offers
      <3> HIDE DEF said
      <3>3. said(p) = "IN" /\ data # "IN" /\ p.text \notin Misread[adapter] =>
               Vouches(adapter, p) /\ ~Denies(adapter, p)
        <4>1. CASE Holds(p, AVAILABLE_BADGES) \/ Holds(p, UNAVAILABLE_BADGES)
          BY <1>3, <1>10, <1>15, <3>1, <3>2, <4>1, TextFacts DEF None
        <4>2. CASE ~Holds(p, AVAILABLE_BADGES) /\ ~Holds(p, UNAVAILABLE_BADGES)
          <5>1. said(p) = "IN" /\ data # "IN" => p.button /\ ~SoldOut(p)
            BY <1>3, <1>4, <1>14, <3>1, <4>2 DEF None
          <5> QED BY <1>4, <1>10, <1>14, <1>15, <3>2, <4>2, <5>1, TextFacts
        <4> QED BY <4>1, <4>2
      <3>4. (said(sold) = "IN" => said(p) = "IN") /\ (said(bare) = "IN" => said(p) = "IN")
        BY <1>3, <1>4, <1>14, <3>1 DEF None
      <3> HIDE DEF data
      <3> QED BY <1>10, <3>1, <3>2, <3>3, <3>4 DEF data
    <2> QED BY <1>7, <2>2
  <1>11. CASE p.status # 404 /\ adapter = "mediamarkt_de"
    <2>1. ASSUME NEW x \in Page, x.status # 404
          PROVE  /\ said(x) = IF FirstKnown(x.jsonld) # None THEN FirstKnown(x.jsonld)
                              ELSE IF x.wall THEN "UNKNOWN"
                              ELSE IF DetectStock(x).status = "UNKNOWN" /\ FirstKnown(x.raw) # None
                                   THEN FirstKnown(x.raw)
                                   ELSE DetectStock(x).status
                 /\ Check(adapter, x).readable \/ said(x) = "UNKNOWN" \/ x.raw # <<>>
      <3>1. DetectStock(x) \in [status: {"IN", "OUT", "UNKNOWN"}, readable: BOOLEAN, listed: {TRUE}]
            /\ (DetectStock(x).readable <=> DetectStock(x).status # "UNKNOWN")
        BY DetectStockFacts
      <3>2. x.raw = <<>> => FirstKnown(x.raw) = None
        BY FirstKnownFacts DEF Page
      <3> QED BY <1>11, <2>1, <3>1, <3>2 DEF Check, Parse, MediaMarktDe, Stock, Reading
    <2>2. Goal
      <3> DEFINE scan(x) == IF x = "UNKNOWN" /\ FirstKnown(p.raw) # None THEN FirstKnown(p.raw) ELSE x
                 read(x) == IF data # None THEN data ELSE IF p.wall THEN "UNKNOWN" ELSE scan(x)
      <3>1. /\ said(p) = read(seen(p.button, SoldOut(p))) /\ said(sold) = read(seen(p.button, TRUE))
            /\ said(bare) = read(seen(FALSE, SoldOut(p)))
            /\ Check(adapter, p).readable \/ said(p) = "UNKNOWN" \/ p.raw # <<>>
        BY <1>1, <1>2, <1>11, <1>6, <2>1
      <3>2. /\ p.button \/ data = "IN" \/ FirstKnown(p.raw) = "IN" => Vouches(adapter, p)
            /\ Denies(adapter, p) <=>
                   \/ p.text \in {"nicht_auf_lager", "derzeit_nicht_auf_lager", "derzeit_nicht_verfuegbar",
                                  "nicht_lieferbar", "ausverkauft", "ausverkauft_bald_lieferbar"}
                   \/ p.soldOut
        BY <1>4, <1>11 DEF Vouches, Denies, Denials
      <3>3. Denies(adapter, p) /\ p.text \notin Misread[adapter] => SoldOut(p)
        BY <1>4, <1>11, <1>14, <1>15, <3>2, TextFacts
      <3> HIDE DEF said
      <3> QED BY <1>3, <1>4, <1>11, <1>14, <3>1, <3>2, <3>3 DEF None
    <2> QED BY <1>7, <2>2
  <1>12. CASE p.status # 404 /\ adapter = "mediamarkt_instore"
    <2>1. ASSUME NEW x \in Page, x.status # 404
          PROVE  /\ Check(adapter, x).readable
                 /\ said(x) = "IN" <=> /\ ~x.wall /\ ~Holds(x, IN_STORE_UNAVAILABLE)
                                       /\ Holds(x, IN_STORE_AVAILABLE)
      BY <1>12, <2>1 DEF Check, Parse, MediaMarktInStore, Stock, Reading, Page
    <2>2. Goal
      <3> HIDE DEF said
      <3>1. /\ p.text = "abholbereit" => Vouches(adapter, p)
            /\ Denies(adapter, p) <=>
                   p.text \in {"in_keinem_markt", "in_null_maerkten", "nicht_im_markt",
                               "nicht_abholbereit", "nicht_abholbar_click_collect"}
        BY <1>12 DEF Vouches, Denies, Denials, Offers
      <3>2. said(p) = "IN" /\ p.text \notin Misread[adapter] => Vouches(adapter, p) /\ ~Denies(adapter, p)
        BY <1>12, <1>15, <2>1, <3>1, TextFacts
      <3> QED BY <1>1, <1>2, <1>4, <1>5, <1>12, <2>1, <3>2
    <2> QED BY <1>7, <2>2
  <1>13. CASE p.status # 404 /\ adapter = "generic"
    <2>1. ASSUME NEW x \in Page, x.status # 404
          PROVE  Check(adapter, x) = DetectStock(x)
      BY <1>13, <2>1 DEF Check, Parse
    <2>2. Goal
      <3>1. /\ said(p) = DetectStock(p).status /\ Check(adapter, p).readable = DetectStock(p).readable
            /\ said(sold) = DetectStock(sold).status /\ said(bare) = DetectStock(bare).status
        BY <1>1, <1>2, <1>13, <2>1
      <3>2. /\ p.button \/ data = "IN" => Vouches(adapter, p)
            /\ Denies(adapter, p) <=>
                   \/ p.text \in {"nicht_auf_lager", "derzeit_nicht_auf_lager", "derzeit_nicht_verfuegbar",
                                  "nicht_lieferbar", "ausverkauft", "ausverkauft_bald_lieferbar"}
                   \/ p.soldOut
        BY <1>4, <1>13 DEF Vouches, Denies, Denials
      <3>3. Denies(adapter, p) /\ p.text \notin Misread[adapter] => SoldOut(p)
        BY <1>4, <1>13, <1>14, <1>15, <3>2, TextFacts
      <3> HIDE DEF said
      <3> QED BY <1>3, <1>4, <1>13, <1>14, <1>6, <3>1, <3>2, <3>3 DEF None
    <2> QED BY <1>7, <2>2
  <1> QED BY <1>8, <1>9, <1>10, <1>11, <1>12, <1>13 DEF HtmlAdapters

\* TwiceIsSound holds of the second look.
LEMMA TwiceSound ==
    ASSUME NEW p \in Page, NEW q \in Page
    PROVE  TwiceIsSound(p, q, Settle(Check("generic", p), Check("generic", q)))
  <1>1. \A r \in Page : /\ Check("generic", r).readable \in BOOLEAN /\ Check("generic", r).listed \in BOOLEAN
                        /\ ~Check("generic", r).listed => Check("generic", r).readable
    BY DEF Check, Parse, DetectStock, Heuristics, Stock, NotListed, NoSignal, Reading
  <1> QED BY <1>1 DEF TwiceIsSound, Settle

\* ProductIsSound holds of every Shopify product: the cheapest price is that of
\* a variant on sale.
LEMMA ProductSound ==
    ASSUME NEW product \in [available: {"unset", "yes", "no"},
                            variants: SUBSET [available: BOOLEAN, price: {Nothing} \cup Nat]]
    PROVE  ProductIsSound(product, Shopify(product))
  <1> DEFINE there == PricesOf(Buyable(product.variants))
  <1>1. there \in SUBSET Nat
    BY DEF PricesOf, Buyable, Nothing
  <1>2. Shopify(product).price = Least(IF there = {} THEN PricesOf(product.variants) ELSE there)
    BY DEF Shopify, ShopifyPrice
  <1>3. Shopify(product).cart <=> Buyable(product.variants) # {}
    BY DEF Shopify
  <1> HIDE DEF there
  <1>4. ASSUME there # {}
        PROVE  Shopify(product).price \in there /\ \A x \in there : Shopify(product).price <= x
    <2>1. Shopify(product).price = Min(there)
      BY <1>2, <1>4 DEF Least
    <2>2. Min(there) \in there /\ \A x \in there : Min(there) <= x
      BY <1>1, <1>4, LeastFacts
    <2> QED BY <2>1, <2>2
  <1>5. Shopify(product).cart => \E v \in product.variants : v.available
    BY <1>3 DEF Buyable
  <1> QED BY <1>4, <1>5 DEF ProductIsSound, there

\* An answer of Cardmarket is read as buyable only with offers in it.
LEMMA AnswerSound ==
    ASSUME NEW answer \in [status: Nat, articles: {Nothing} \cup Nat, least: Int],
           Cardmarket(answer).status = "IN"
    PROVE  answer.articles > 0 \/ answer.least <= 0
  BY DEF Cardmarket, NotListed, Failure, Stock, Reading, Nothing

\* QueueIsSound holds of every page the queue alarm gets.
LEMMA QueueSound ==
    ASSUME NEW p \in QueuePage
    PROVE  QueueIsSound(p, CheckQueue(p))
  BY DEF QueueIsSound, CheckQueue, QueueAlarm, QueueIsLive, Shape, Wall, IDLE_STATUSES, REDIRECT_STATUSES,
         Stock, NotListed, Reading, QueuePage

\* An answer of the unlocker.
Answer == [api: Nat, upstream: Nat, empty: BOOLEAN, page: QueuePage]

\* Without the words or the address of the waiting room, what makes a page one of a
\* drop in spite of its status is no wall.
LEMMA ByStatusAlone ==
    ASSUME NEW c \in Answer, Unlocked(c) = "page", c.upstream = Unsaid,
           CheckQueue(UnlockedPage(c)).status = "IN"
    PROVE  \/ CheckQueue([UnlockedPage(c) EXCEPT !.status = 200]).status = "IN"
           \/ c.api = 501 \/ c.api >= 505
  <1> DEFINE p == UnlockedPage(c)
             q == [p EXCEPT !.status = 200]
  <1>1. /\ p \in QueuePage /\ p.status = c.api /\ p.location = FALSE /\ p.queueHost = FALSE
        /\ c.api \in Nat
    BY DEF UnlockedPage, Answer, QueuePage
  <1>2. c.api \notin GATEWAY_FAILURE_STATUSES
    BY DEF Unlocked
  <1>3. /\ q.status = 200 /\ q.location = p.location /\ q.queueHost = p.queueHost
        /\ q.queuePhrase = p.queuePhrase /\ q.queueTag = p.queueTag
        /\ q.storeMarker = p.storeMarker /\ q.large = p.large
        /\ q.challengeMarker = p.challengeMarker
    BY <1>1 DEF QueuePage
  <1>4. Shape(q) = Shape(p)
    BY <1>3 DEF Shape
  <1> HIDE DEF p, q
  <1>5. CASE Wall(p.status)
    BY <1>1, <1>2, <1>5 DEF Wall, GATEWAY_FAILURE_STATUSES
  <1>6. CASE ~Wall(p.status)
    <2>1. p.status # 404 /\ QueueAlarm(p).status = "IN"
      BY DEF CheckQueue, NotListed, Reading, p
    <2>2. QueueIsLive(p) \/ (Shape(p) = "other" /\ p.status = 200)
      BY <1>6, <2>1 DEF QueueAlarm, Stock, Reading
    <2>3. QueueIsLive(p) => QueueIsLive(q)
      BY <1>1, <1>3, <1>4 DEF QueueIsLive
    <2>4. CheckQueue(q).status = "IN"
      BY <1>3, <1>4, <2>2, <2>3 DEF CheckQueue, QueueAlarm, Stock, Reading, Shape
    <2> QED BY <2>4 DEF q, p
  <1> QED BY <1>5, <1>6

\* UnlockerIsSound holds of any two answers of the unlocker.
LEMMA UnlockerSound ==
    ASSUME NEW a \in Answer, NEW b \in Answer
    PROVE  UnlockerIsSound(a, b, CheckQueueUnlocked(<<a, b>>))
  <1> DEFINE S == {i \in 1..2 : Unlocked(<<a, b>>[i]) # "again"}
             last == SelectInSeq(<<a, b>>, LAMBDA x : Unlocked(x) # "again")
  <1>1. last = IF S # {} THEN Min(S) ELSE 0
    <2>1. Len(<<a, b>>) = 2
      OBVIOUS
    <2> QED BY <2>1 DEF SelectInSeq
  <1>2. /\ last = 0 <=> S = {}
        /\ last # 0 => last \in S /\ \A m \in S : last <= m
    <2>1. S \in SUBSET (1..2) /\ 2 \in Nat
      OBVIOUS
    <2> HIDE DEF S, last
    <2> QED BY <1>1, <2>1, FirstOfFacts
  <1>4. /\ last \in {0, 1, 2} /\ <<a, b>>[1] = a /\ <<a, b>>[2] = b
        /\ last = 1 <=> Unlocked(a) # "again"
        /\ last = 2 <=> Unlocked(a) = "again" /\ Unlocked(b) # "again"
    <2> HIDE DEF last
    <2>1. <<a, b>>[1] = a /\ <<a, b>>[2] = b
      OBVIOUS
    <2>2. (1 \in S <=> Unlocked(a) # "again") /\ (2 \in S <=> Unlocked(b) # "again")
      BY <2>1
    <2>3. \A i \in S : i = 1 \/ i = 2
      OBVIOUS
    <2> HIDE DEF S
    <2>4. last = 0 \/ last = 1 \/ last = 2
      BY <1>2, <2>3
    <2>5. last = 1 <=> 1 \in S
      BY <1>2, <2>3, <2>4
    <2>6. last = 2 <=> 1 \notin S /\ 2 \in S
      BY <1>2, <2>3, <2>4
    <2> QED BY <2>1, <2>2, <2>4, <2>5, <2>6
  <1>3. Deciding(<<a, b>>) = last
    <2>1. last <= 2
      BY <1>4
    <2> QED BY <2>1 DEF Deciding, BRIGHTDATA_ATTEMPTS
  <1> HIDE DEF last
  <1>5. \A c : Unlocked(c) \in {"failed", "again", "page"}
    BY DEF Unlocked
  <1>6. CASE last = 0
    BY <1>3, <1>4, <1>6 DEF UnlockerIsSound, CheckQueueUnlocked, Failure, Reading
  <1>7. CASE last = 1
    <2>1. /\ Unlocked(a) = "page" /\ a.upstream = Unsaid
          /\ CheckQueue(UnlockedPage(a)).status = "IN"
          => \/ CheckQueue([UnlockedPage(a) EXCEPT !.status = 200]).status = "IN"
             \/ a.api = 501 \/ a.api >= 505
      BY ByStatusAlone
    <2> QED BY <1>3, <1>4, <1>5, <1>7, <2>1 DEF UnlockerIsSound, CheckQueueUnlocked, Failure, Reading
  <1>8. CASE last = 2
    <2>1. /\ Unlocked(b) = "page" /\ b.upstream = Unsaid
          /\ CheckQueue(UnlockedPage(b)).status = "IN"
          => \/ CheckQueue([UnlockedPage(b) EXCEPT !.status = 200]).status = "IN"
             \/ b.api = 501 \/ b.api >= 505
      BY ByStatusAlone
    <2> QED BY <1>3, <1>4, <1>5, <1>8, <2>1 DEF UnlockerIsSound, CheckQueueUnlocked, Failure, Reading
  <1> QED BY <1>4, <1>6, <1>7, <1>8

-----------------------------------------------------------------------------
(* Decisions: hosts, numbers, hours, routes and shops.                      *)

\* A domain read from its end.
LEMMA ReverseFacts ==
    ASSUME NEW s \in Labels
    PROVE  /\ Reverse(s) \in Labels /\ Len(Reverse(s)) = Len(s)
           /\ \A i \in 1..Len(s) : Reverse(s)[i] = s[(Len(s) - i) + 1]
  <1>1. Len(s) \in Nat /\ \A i \in 1..Len(s) : s[i] \in STRING
    BY DEF Labels
  <1>2. \A i \in 1..Len(s) : (Len(s) - i) + 1 \in 1..Len(s)
    BY <1>1
  <1>3. Reverse(s) \in [1..Len(s) -> STRING]
    BY <1>1, <1>2 DEF Reverse
  <1>4. Reverse(s) \in Labels
    BY <1>1, <1>3, SeqDef DEF Labels
  <1> QED BY <1>1, <1>3, <1>4 DEF Reverse, Labels

\* A domain ends another one exactly if it is what is left of it after some labels.
LEMMA SuffixFacts ==
    ASSUME NEW d \in Labels, NEW h \in Labels
    PROVE  IsSuffix(d, h) <=> Len(d) <= Len(h) /\ Suffix(h, Len(d)) = d
  <1>1. /\ Len(d) \in Nat /\ Len(h) \in Nat /\ d \in Seq(STRING) /\ h \in Seq(STRING)
        /\ Reverse(d) \in Seq(STRING) /\ Reverse(h) \in Seq(STRING)
        /\ Len(Reverse(d)) = Len(d) /\ Len(Reverse(h)) = Len(h)
        /\ \A i \in 1..Len(d) : Reverse(d)[i] = d[(Len(d) - i) + 1]
        /\ \A i \in 1..Len(h) : Reverse(h)[i] = h[(Len(h) - i) + 1]
    BY ReverseFacts DEF Labels
  <1>2. IsSuffix(d, h) <=> /\ Len(d) <= Len(h)
                           /\ SubSeq(Reverse(d), 1, Len(d)) = SubSeq(Reverse(h), 1, Len(d))
    BY <1>1 DEF IsSuffix, IsPrefix
  <1> SUFFICES ASSUME Len(d) <= Len(h)
               PROVE  SubSeq(Reverse(d), 1, Len(d)) = SubSeq(Reverse(h), 1, Len(d))
                         <=> Suffix(h, Len(d)) = d
    BY <1>2
  <1> DEFINE front == SubSeq(Reverse(d), 1, Len(d))
             back == SubSeq(Reverse(h), 1, Len(d))
             rest == Suffix(h, Len(d))
  <1>3. /\ front \in Seq(STRING) /\ back \in Seq(STRING) /\ Len(front) = Len(d) /\ Len(back) = Len(d)
        /\ \A i \in 1..Len(d) : front[i] = d[(Len(d) - i) + 1] /\ back[i] = h[(Len(h) - i) + 1]
    BY <1>1
  <1>4. /\ rest \in Seq(STRING) /\ Len(rest) = Len(d)
        /\ \A i \in 1..Len(d) : rest[i] = h[(Len(h) - Len(d)) + i]
    <2>1. Len(h) - Len(d) + 1 \in 1..(Len(h) + 1)
      BY <1>1
    <2> QED BY <1>1, <2>1, SMTT(30) DEF Suffix
  <1>5. front = back <=> \A i \in 1..Len(d) : d[(Len(d) - i) + 1] = h[(Len(h) - i) + 1]
    <2> HIDE DEF front, back
    <2>1. (\A i \in 1..Len(d) : front[i] = back[i]) => front = back
      BY <1>3, SeqEqual
    <2> QED BY <1>3, <2>1
  <1>6. rest = d <=> \A i \in 1..Len(d) : h[(Len(h) - Len(d)) + i] = d[i]
    <2> HIDE DEF rest
    <2>1. (\A i \in 1..Len(d) : rest[i] = d[i]) => rest = d
      BY <1>1, <1>4, SeqEqual
    <2> QED BY <1>4, <2>1
  <1>7. \A i \in 1..Len(d) : /\ (Len(d) - i) + 1 \in 1..Len(d)
                             /\ (Len(d) - ((Len(d) - i) + 1)) + 1 = i
                             /\ (Len(h) - Len(d)) + ((Len(d) - i) + 1) = (Len(h) - i) + 1
                             /\ (Len(h) - ((Len(d) - i) + 1)) + 1 = (Len(h) - Len(d)) + i
    BY <1>1
  <1>8. ASSUME \A i \in 1..Len(d) : d[(Len(d) - i) + 1] = h[(Len(h) - i) + 1], NEW i \in 1..Len(d)
        PROVE  h[(Len(h) - Len(d)) + i] = d[i]
    <2> DEFINE j == (Len(d) - i) + 1
    <2>1. j \in 1..Len(d) /\ (Len(d) - j) + 1 = i /\ (Len(h) - j) + 1 = (Len(h) - Len(d)) + i
      BY <1>7
    <2> HIDE DEF j
    <2>2. d[(Len(d) - j) + 1] = h[(Len(h) - j) + 1]
      BY <1>8, <2>1
    <2> QED BY <2>1, <2>2
  <1>9. ASSUME \A i \in 1..Len(d) : h[(Len(h) - Len(d)) + i] = d[i], NEW i \in 1..Len(d)
        PROVE  d[(Len(d) - i) + 1] = h[(Len(h) - i) + 1]
    <2> DEFINE j == (Len(d) - i) + 1
    <2>1. j \in 1..Len(d) /\ (Len(h) - Len(d)) + j = (Len(h) - i) + 1
      BY <1>7
    <2>2. h[(Len(h) - Len(d)) + j] = d[j]
      <3> HIDE DEF j
      <3> QED BY <1>9, <2>1
    <2> QED BY <2>1, <2>2
  <1> QED BY <1>5, <1>6, <1>8, <1>9

\* The last n labels of a host are n labels.
LEMMA SuffixLength ==
    ASSUME NEW h \in Labels, NEW n \in 0..Len(h)
    PROVE  Suffix(h, n) \in Labels /\ Len(Suffix(h, n)) = n
  BY DEF Suffix, Labels

\* AdapterIsSound holds of the registry, whatever domains are registered.
LEMMA AdapterSound ==
    ASSUME NEW slug, NEW host \in Labels, NEW override
    PROVE  AdapterIsSound(slug, host, Resolve(slug, host, override, Slugs, Domains))
  <1> SUFFICES ASSUME slug = None, NEW d \in DOMAIN Domains, IsSuffix(d, host),
                      \A e \in DOMAIN Domains : IsSuffix(e, host) => Len(e) <= Len(d)
               PROVE  Resolve(slug, host, override, Slugs, Domains).adapter = Domains[d]
    BY DEF AdapterIsSound
  <1> DEFINE hits == {n \in 2..Len(host) : Suffix(host, n) \in DOMAIN Domains}
             longest == CHOOSE n \in hits : \A m \in hits : m <= n
  <1>1. d \in Labels /\ Len(d) \in Nat /\ Len(d) >= 2 /\ Len(host) \in Nat
    BY AdaptersAssumption DEF Labels
  <1>2. Len(d) \in hits /\ Suffix(host, Len(d)) = d
    BY <1>1, SuffixFacts
  <1>3. ASSUME NEW m \in hits PROVE m <= Len(d)
    <2>1. m \in 0..Len(host) /\ Suffix(host, m) \in DOMAIN Domains
      BY <1>1
    <2>2. Suffix(host, m) \in Labels /\ Len(Suffix(host, m)) = m
      BY <2>1, SuffixLength
    <2>3. IsSuffix(Suffix(host, m), host)
      BY <1>1, <2>1, <2>2, SuffixFacts
    <2> QED BY <2>1, <2>2, <2>3
  <1>4. \A m \in hits : m \in Nat
    OBVIOUS
  <1>5. longest = Len(d)
    <2> HIDE DEF hits
    <2>1. longest \in hits /\ \A m \in hits : m <= longest
      BY <1>2, <1>3
    <2>2. longest <= Len(d) /\ Len(d) <= longest
      BY <1>2, <1>3, <2>1
    <2> QED BY <1>1, <1>4, <2>1, <2>2
  <1>6. hits # {} /\ slug \notin Slugs
    BY <1>2, AdaptersAssumption
  <1> QED BY <1>2, <1>5, <1>6 DEF Resolve

\* DomainIsSound holds of is_excluded_domain, whatever the catalogue.
LEMMA DomainSound ==
    ASSUME NEW host \in Found
    PROVE  DomainIsSound(host, IsExcludedDomain(host, Tokens, ShopDomains))
  <1> DEFINE labels == host.labels
             under == \E k \in DOMAIN labels : SubSeq(labels, k, Len(labels)) \in ShopDomains
  <1>1. /\ labels \in Labels /\ Len(labels) \in Nat /\ DOMAIN labels = 1..Len(labels)
        /\ \A s \in ShopDomains : s \in Labels /\ s # <<>> /\ Len(s) \in Nat
    BY ShopsAssumption DEF Labels
  <1> HIDE DEF labels
  <1>2. ASSUME NEW s \in ShopDomains, IsSuffix(s, labels) PROVE under
    <2>1. Len(s) <= Len(labels) /\ Suffix(labels, Len(s)) = s
      BY <1>1, <1>2, SuffixFacts
    <2>2. Len(s) # 0
      BY <1>1 DEF Labels
    <2>3. Len(labels) - Len(s) + 1 \in DOMAIN labels
      BY <1>1, <2>1, <2>2
    <2> QED BY <2>1, <2>3 DEF Suffix
  <1>3. ASSUME NEW k \in DOMAIN labels, SubSeq(labels, k, Len(labels)) \in ShopDomains
        PROVE  \E s \in ShopDomains : IsSuffix(s, labels)
    <2> DEFINE n == (Len(labels) - k) + 1
    <2>1. n \in 0..Len(labels) /\ (Len(labels) - n) + 1 = k /\ n <= Len(labels)
      BY <1>1
    <2>2. Suffix(labels, n) = SubSeq(labels, k, Len(labels))
      BY <2>1 DEF Suffix
    <2>3. Len(Suffix(labels, n)) = n
      BY <1>1, <2>1, SuffixLength
    <2> HIDE DEF n
    <2>4. IsSuffix(Suffix(labels, n), labels)
      BY <1>1, <1>3, <2>1, <2>2, <2>3, SuffixFacts
    <2> QED BY <1>3, <2>2, <2>4
  <1>4. (\E s \in ShopDomains : IsSuffix(s, labels)) <=> under
    BY <1>2, <1>3
  <1> QED BY <1>4 DEF DomainIsSound, IsExcludedDomain, labels

\* NumberIsSound holds of both ways the program reads a number.
LEMMA NumberSound ==
    ASSUME NEW n \in Written
    PROVE  NumberIsSound(n, <<ParseGermanPrice(n), Number(n)>>)
  <1>1. n.whole \in Nat /\ n.cents \in {Unset} \cup 0..99
    <2>1. MaxWhole \in Int
      BY DEF MaxWhole
    <2> QED BY <2>1 DEF Written
  <1>2. \A w \in Nat : Rounded(w) \in Int /\ w * 100 \in Int /\ Rounded(w) <= w * 100
    BY DEF Rounded
  <1> DEFINE read == Rounded(n.whole)
             meant == Meant(n)
             price == ParseGermanPrice(n)
             number == Number(n)
  <1>3. meant \in Int /\ read \in Int /\ read <= meant
    <2>1. CASE Bald(n)
      BY <1>1, <1>2, <2>1 DEF Meant
    <2>2. CASE ~Bald(n)
      <3>1. n.cents \in Int /\ n.cents >= 0
        BY <1>1, <2>2 DEF Bald
      <3>2. meant = n.whole * 100 + n.cents
        BY <2>2 DEF Meant
      <3> HIDE DEF meant
      <3> QED BY <1>1, <1>2, <3>1, <3>2
    <2> QED BY <2>1, <2>2
  <1>4. /\ price = IF Grouped(n) /\ n.group = "dot" /\ Bald(n) THEN read ELSE meant
        /\ number = IF Grouped(n) /\ (n.group = "comma" \/ Bald(n)) THEN read ELSE meant
    BY DEF ParseGermanPrice, Number
  <1> HIDE DEF read, meant, price, number
  <1>5. price <= meant /\ number <= meant
    BY <1>3, <1>4
  <1>6. /\ price # meant => Grouped(n) /\ n.group = "dot" /\ Bald(n)
        /\ number # meant => Grouped(n) /\ (n.group = "comma" \/ Bald(n))
    BY <1>4
  <1>7. <<price, number>>[1] = price /\ <<price, number>>[2] = number
    OBVIOUS
  <1> QED BY <1>5, <1>6, <1>7 DEF NumberIsSound, price, number, meant

\* QuietIsSound holds of every pair of quiet hours.
LEMMA QuietSound ==
    ASSUME NEW start \in Int, NEW end \in Int, NEW hour \in 0..23, NEW type, NEW priority \in BOOLEAN,
           NEW event, event = [type |-> type, priority |-> priority, hour |-> hour]
    PROVE  QuietIsSound(event, start, end, Suppressed(event, start, end))
  <1>1. ASSUME start \in 0..23, end \in 0..23
        PROVE  Quiet(start, end, hour) <=> \E k \in 0..22 : /\ k < (end - start) % 24
                                                            /\ hour = (start + k) % 24
    <2> DEFINE k == (hour - start) % 24
    <2>1. /\ (end - start) % 24 = IF start <= end THEN end - start ELSE end - start + 24
          /\ k = IF start <= hour THEN hour - start ELSE hour - start + 24
      BY <1>1
    <2>2. \A j \in 0..22 : (start + j) % 24 = IF start + j < 24 THEN start + j ELSE start + j - 24
      BY <1>1
    <2>3. ASSUME Quiet(start, end, hour) PROVE k \in 0..22 /\ k < (end - start) % 24 /\ hour = (start + k) % 24
      BY <1>1, <2>1, <2>2, <2>3 DEF Quiet
    <2>4. ASSUME NEW j \in 0..22, j < (end - start) % 24, hour = (start + j) % 24
          PROVE  Quiet(start, end, hour)
      BY <1>1, <2>1, <2>2, <2>4 DEF Quiet
    <2> QED BY <2>3, <2>4
  <1> QED BY <1>1 DEF QuietIsSound, Suppressed, Undisturbed

\* RouteIsSound holds of every choice of channels.
LEMMA RouteSound ==
    ASSUME NEW game, NEW chosen \in SUBSET Channels, NEW pattern
    PROVE  RouteIsSound(game, chosen, pattern,
                        RouteMatches(pattern, StockRoutes(game, chosen, "watch", "7")))
  <1>1. StockRoutes(game, chosen, "watch", "7") \subseteq StockRoutes(game, Channels, "watch", "7")
    BY DEF StockRoutes
  <1>2. Route("stock", game) \in StockRoutes(game, chosen, "watch", "7")
    BY DEF StockRoutes
  <1>3. /\ Route("stock", game)[1] = "stock" /\ Route("stock", game)[2] = game
        /\ Len(<<"stock", "*">>) = 2 /\ <<"stock", "*">>[2] = "*" /\ <<"stock", "*">>[1] = "stock"
        /\ Len(<<game>>) = 1 /\ <<game>>[1] = game
    BY DEF Route
  <1> QED BY <1>1, <1>2, <1>3 DEF RouteIsSound, RouteMatches

\* SiteIsSound holds of the verdict on every front page.
LEMMA SiteSound ==
    ASSUME NEW site \in [home: {"up", "error", "down"}, impressum: BOOLEAN, agb: BOOLEAN,
                         datenschutz: BOOLEAN, payment: {"protected", "prepay", "unclear"},
                         rating: Nat, reviews: Nat]
    PROVE  SiteIsSound(site, Verdict(site))
  <1> QED BY DEF SiteIsSound, Verdict, Score, ScoreHomepage, ScoreReviews

-----------------------------------------------------------------------------
(* Decisions: messages, and all the rules together.                         *)

\* The first alternative that is in the message, and what one more at the end
\* changes about it.
LEMMA FirstHitFacts ==
    ASSUME NEW rules, NEW message, rules.positives \in Seq(SUBSET Words)
    PROVE  LET n == FirstHit(rules, message)
               is(i) == rules.positives[i] \subseteq message.words
           IN  /\ n \in 0..Len(rules.positives)
               /\ n = 0 => \A i \in 1..Len(rules.positives) : ~is(i)
               /\ n # 0 => is(n) /\ \A i \in 1..(n - 1) : ~is(i)
  <1> DEFINE n == FirstHit(rules, message)
             is(i) == rules.positives[i] \subseteq message.words
             l == Len(rules.positives)
             S == {i \in 1..l : is(i)}
  <1>1. l \in Nat /\ S \in SUBSET (1..l)
    OBVIOUS
  <1>2. n = IF S # {} THEN Min(S) ELSE 0
    BY DEF FirstHit, SelectInSeq
  <1>3. /\ n = 0 <=> S = {}
        /\ n # 0 => n \in S /\ \A m \in S : n <= m
    <2> HIDE DEF n, S, l
    <2> QED BY <1>1, <1>2, FirstOfFacts
  <1> HIDE DEF n
  <1>4. n # 0 => \A i \in 1..(n - 1) : ~is(i)
    <2> SUFFICES ASSUME n # 0, NEW i \in 1..(n - 1), is(i) PROVE FALSE
      OBVIOUS
    <2>1. n \in 1..l /\ i \in S
      BY <1>1, <1>3
    <2>2. n <= i
      BY <1>3, <2>1
    <2> QED BY <1>1, <2>1, <2>2
  <1>5. n \in 0..l /\ (n = 0 => \A i \in 1..l : ~is(i)) /\ (n # 0 => is(n))
    BY <1>1, <1>3
  <1> HIDE DEF S
  <1> QED BY <1>4, <1>5 DEF n

\* An alternative added at the end does not change a hit there is.
LEMMA FirstHitOfMore ==
    ASSUME NEW rules, NEW more, NEW message, NEW group \in SUBSET Words,
           rules.positives \in Seq(SUBSET Words),
           more.positives = Append(rules.positives, group),
           FirstHit(rules, message) # 0
    PROVE  FirstHit(more, message) = FirstHit(rules, message)
  <1> DEFINE n == FirstHit(rules, message)
             m == FirstHit(more, message)
             l == Len(rules.positives)
  <1>1. /\ more.positives \in Seq(SUBSET Words) /\ Len(more.positives) = l + 1 /\ l \in Nat
        /\ \A i \in 1..l : more.positives[i] = rules.positives[i]
    OBVIOUS
  <1>2. /\ n \in 1..l /\ rules.positives[n] \subseteq message.words
        /\ \A i \in 1..(n - 1) : ~(rules.positives[i] \subseteq message.words)
    BY FirstHitFacts
  <1>3. /\ m \in 0..(l + 1)
        /\ m = 0 => \A i \in 1..(l + 1) : ~(more.positives[i] \subseteq message.words)
        /\ m # 0 => /\ more.positives[m] \subseteq message.words
                    /\ \A i \in 1..(m - 1) : ~(more.positives[i] \subseteq message.words)
    BY <1>1, FirstHitFacts
  <1> HIDE DEF n, m, l
  <1>4. more.positives[n] \subseteq message.words /\ n \in 1..(l + 1)
    BY <1>1, <1>2
  <1>5. m # 0 /\ m <= n
    <2>1. m # 0
      BY <1>3, <1>4
    <2>2. ~(n \in 1..(m - 1))
      BY <1>3, <1>4, <2>1
    <2> QED BY <1>1, <1>2, <1>3, <2>1, <2>2
  <1>6. m = n
    <2> SUFFICES ASSUME m < n PROVE FALSE
      BY <1>1, <1>2, <1>3, <1>5
    <2>1. m \in 1..(n - 1) /\ m \in 1..l
      BY <1>1, <1>2, <1>3, <1>5
    <2>2. rules.positives[m] \subseteq message.words
      BY <1>1, <1>3, <1>5, <2>1
    <2> QED BY <1>2, <2>1, <2>2
  <1> QED BY <1>6 DEF n, m

\* MessageIsSound holds of every rule and every message.
LEMMA MessageSound ==
    ASSUME NEW channels, NEW positives \in Seq(SUBSET Words), NEW negatives, NEW low, NEW high, NEW sizes,
           NEW rules, rules = [channels |-> channels, positives |-> positives, negatives |-> negatives,
                               low |-> low, high |-> high, sizes |-> sizes],
           NEW words, NEW prices, NEW channel,
           NEW message, message = [words |-> words, prices |-> prices, channel |-> channel]
    PROVE  MessageIsSound(rules, message, Matches(rules, message))
  <1>1. /\ rules.channels = channels /\ rules.positives = positives /\ rules.negatives = negatives
        /\ rules.low = low /\ rules.high = high /\ rules.sizes = sizes
        /\ message.words = words /\ message.prices = prices /\ message.channel = channel
    OBVIOUS
  <1>2. ASSUME Matches(rules, message)
        PROVE  /\ rules.positives[FirstHit(rules, message)] \subseteq message.words
               /\ \A i \in 1..(FirstHit(rules, message) - 1) :
                      ~(rules.positives[i] \subseteq message.words)
    <2>1. FirstHit(rules, message) # 0
      BY <1>2 DEF Matches
    <2> QED BY <1>1, <2>1, FirstHitFacts
  <1>3. ASSUME Matches(rules, message), NEW group \in SUBSET Words
        PROVE  LET more == [rules EXCEPT !.positives = Append(@, group)]
               IN  Matches(more, message) /\ FirstHit(more, message) = FirstHit(rules, message)
    <2> DEFINE more == [rules EXCEPT !.positives = Append(@, group)]
    <2>1. /\ more.positives = Append(rules.positives, group) /\ more.channels = rules.channels
          /\ more.negatives = rules.negatives /\ more.low = rules.low /\ more.high = rules.high
          /\ more.sizes = rules.sizes
      OBVIOUS
    <2>2. FirstHit(rules, message) # 0
      BY <1>3 DEF Matches
    <2> HIDE DEF more
    <2>3. FirstHit(more, message) = FirstHit(rules, message)
      BY <1>1, <2>1, <2>2, FirstHitOfMore
    <2>4. Matches(more, message)
      BY <1>3, <2>1, <2>3 DEF Matches, WithinLimits
    <2> QED BY <2>3, <2>4 DEF more
  <1> DEFINE wideLow == [rules EXCEPT !.low = Unset]
             wideHigh == [rules EXCEPT !.high = Unset]
             open == [rules EXCEPT !.low = Unset, !.high = Unset]
             anywhere == [rules EXCEPT !.channels = {}]
             same(r) == /\ r.positives = positives /\ r.negatives = negatives /\ r.sizes = sizes
  <1>4. /\ same(wideLow) /\ same(wideHigh) /\ same(open) /\ same(anywhere)
        /\ wideLow.channels = channels /\ wideLow.low = Unset /\ wideLow.high = high
        /\ wideHigh.channels = channels /\ wideHigh.low = low /\ wideHigh.high = Unset
        /\ open.channels = channels /\ open.low = Unset /\ open.high = Unset
        /\ anywhere.channels = {} /\ anywhere.low = low /\ anywhere.high = high
    OBVIOUS
  <1>5. \A r : r.positives = positives => FirstHit(r, message) = FirstHit(rules, message)
    BY <1>1 DEF FirstHit
  <1> HIDE DEF wideLow, wideHigh, open, anywhere
  <1>6. Matches(rules, message) => /\ Matches(wideLow, message) /\ Matches(wideHigh, message)
                                   /\ Matches(anywhere, message)
    <2> SUFFICES ASSUME Matches(rules, message)
                 PROVE  Matches(wideLow, message) /\ Matches(wideHigh, message) /\ Matches(anywhere, message)
      OBVIOUS
    <2>1. WithinLimits(rules, message)
      BY DEF Matches
    <2>2. WithinLimits(wideLow, message) /\ WithinLimits(wideHigh, message) /\ WithinLimits(anywhere, message)
      BY <1>1, <1>4, <2>1 DEF WithinLimits
    <2> QED BY <1>1, <1>4, <1>5, <2>2 DEF Matches
  <1>7. message.prices = {} => (Matches(rules, message) <=> Matches(open, message))
    <2> SUFFICES ASSUME message.prices = {} PROVE Matches(rules, message) <=> Matches(open, message)
      OBVIOUS
    <2>1. WithinLimits(rules, message) /\ WithinLimits(open, message)
      BY DEF WithinLimits
    <2> QED BY <1>1, <1>4, <1>5, <2>1 DEF Matches
  <1>8. ASSUME NEW w \in Words, Matches([rules EXCEPT !.negatives = @ \cup {w}], message)
        PROVE  Matches(rules, message)
    <2> DEFINE stricter == [rules EXCEPT !.negatives = @ \cup {w}]
    <2>1. /\ stricter.positives = positives /\ stricter.negatives = negatives \cup {w}
          /\ stricter.sizes = sizes /\ stricter.channels = channels
          /\ stricter.low = low /\ stricter.high = high
      OBVIOUS
    <2> HIDE DEF stricter
    <2>2. Matches(stricter, message)
      BY <1>8 DEF stricter
    <2>3. WithinLimits(stricter, message) => WithinLimits(rules, message)
      BY <1>1, <2>1 DEF WithinLimits
    <2> QED BY <1>1, <1>5, <2>1, <2>2, <2>3 DEF Matches
  <1>9. Matches(rules, message) \in BOOLEAN /\ Matches(open, message) \in BOOLEAN
    BY DEF Matches
  <1> QED BY <1>2, <1>3, <1>6, <1>7, <1>8, <1>9 DEF MessageIsSound, wideLow, wideHigh, open, anywhere

\* What is decided is decided soundly, whatever it is about.
EverythingIsSound == ReadingsAreSound /\ ChoicesAreSound

\* What a decision leaves behind.
LEMMA DecidedFacts ==
    ASSUME NEW of, NEW input, NEW result, Decided(of, input, result)
    PROVE  decision'.of = of /\ decision'.input = input /\ decision'.result = result
  BY DEF Decided

\* Every step decides one input, and each rule decides it soundly.
LEMMA DecideSound == DecisionNext => EverythingIsSound'
  <1> SUFFICES ASSUME DecisionNext PROVE EverythingIsSound'
    OBVIOUS
  <1> USE DEF EverythingIsSound, ReadingsAreSound, ChoicesAreSound
  <1>1. CASE ReadPage
    <2>1. PICK adapter \in HtmlAdapters, p \in Pages : Decided("page", <<adapter, p>>, Check(adapter, p))
      BY <1>1 DEF ReadPage
    <2>2. PageIsSound(adapter, p, Check(adapter, p))
      BY PageSound, PagesAssumption DEF Page
    <2> QED BY <2>1, <2>2, DecidedFacts
  <1>2. CASE ReadTwice
    <2>1. PICK p \in Pages, q \in Pages :
             Decided("twice", <<p, q>>, Settle(Check("generic", p), Check("generic", q)))
      BY <1>2 DEF ReadTwice
    <2>2. TwiceIsSound(p, q, Settle(Check("generic", p), Check("generic", q)))
      BY TwiceSound, PagesAssumption DEF Page
    <2> QED BY <2>1, <2>2, DecidedFacts
  <1>3. CASE ReadData
    <2>1. ASSUME NEW product \in Products, Decided("product", product, Shopify(product)) PROVE EverythingIsSound'
      <3>1. ProductIsSound(product, Shopify(product))
        BY ProductSound, DataAssumption
      <3> QED BY <2>1, <3>1, DecidedFacts
    <2>2. ASSUME NEW answer \in Answers, Decided("answer", answer, Cardmarket(answer)) PROVE EverythingIsSound'
      <3>1. Cardmarket(answer).status = "IN" => answer.articles > 0 \/ answer.least <= 0
        BY AnswerSound, DataAssumption
      <3> QED BY <2>2, <3>1, DecidedFacts
    <2> QED BY <1>3, <2>1, <2>2 DEF ReadData
  <1>4. CASE ReadQueue
    <2>1. ASSUME NEW p \in QueuePages, Decided("queue", p, CheckQueue(p)) PROVE EverythingIsSound'
      <3>1. QueueIsSound(p, CheckQueue(p))
        BY QueueSound, PagesAssumption
      <3> QED BY <2>1, <3>1, DecidedFacts
    <2>2. ASSUME NEW a \in ApiAnswers, NEW b \in ApiAnswers,
                 Decided("unlocker", <<a, b>>, CheckQueueUnlocked(<<a, b>>))
          PROVE  EverythingIsSound'
      <3>1. UnlockerIsSound(a, b, CheckQueueUnlocked(<<a, b>>))
        BY UnlockerSound, PagesAssumption DEF Answer
      <3> QED BY <2>2, <3>1, DecidedFacts
    <2> QED BY <1>4, <2>1, <2>2 DEF ReadQueue
  <1>5. CASE ResolveAdapter
    <2>1. PICK slug \in Slugs \cup {None}, host \in Hosts, override \in BOOLEAN :
             Decided("adapter", <<slug, host, override>>, Resolve(slug, host, override, Slugs, Domains))
      BY <1>5 DEF ResolveAdapter
    <2>2. AdapterIsSound(slug, host, Resolve(slug, host, override, Slugs, Domains))
      BY AdapterSound, AdaptersAssumption
    <2> QED BY <2>1, <2>2, DecidedFacts
  <1>6. CASE MatchMessage
    <2>1. PICK field \in RangeFields, positives \in Positives, negatives \in SUBSET Words,
               channels \in {{}, {CHOOSE c \in PostChannels : TRUE}}, words \in SUBSET Words,
               prices \in SUBSET PostedPrices, channel \in PostChannels :
             LET limits == ParseRanges(field)
                 rules == [channels |-> channels, positives |-> positives, negatives |-> negatives,
                           low |-> limits.low, high |-> limits.high, sizes |-> limits.sizes]
                 message == [words |-> words, prices |-> prices, channel |-> channel]
             IN  Decided("message", <<rules, message>>, Matches(rules, message))
      BY <1>6 DEF MatchMessage
    <2> DEFINE limits == ParseRanges(field)
               rules == [channels |-> channels, positives |-> positives, negatives |-> negatives,
                         low |-> limits.low, high |-> limits.high, sizes |-> limits.sizes]
               message == [words |-> words, prices |-> prices, channel |-> channel]
    <2>2. Decided("message", <<rules, message>>, Matches(rules, message))
      BY <2>1
    <2>3. MessageIsSound(rules, message, Matches(rules, message))
      <3> HIDE DEF limits
      <3>1. positives \in Seq(SUBSET Words)
        BY MessagesAssumption
      <3> QED BY <3>1, MessageSound
    <2> HIDE DEF rules, message
    <2> QED BY <2>2, <2>3, DecidedFacts
  <1>7. CASE ReadNumber
    <2>1. PICK n \in Numbers : Decided("number", n, <<ParseGermanPrice(n), Number(n)>>)
      BY <1>7 DEF ReadNumber
    <2>2. NumberIsSound(n, <<ParseGermanPrice(n), Number(n)>>)
      BY NumberSound, MessagesAssumption
    <2> QED BY <2>1, <2>2, DecidedFacts
  <1>8. CASE Disturb
    <2>1. PICK start \in Hours, end \in Hours, hour \in 0..23,
               type \in {"BACK_IN_STOCK", "HEARTBEAT"}, priority \in BOOLEAN :
             LET event == [type |-> type, priority |-> priority, hour |-> hour]
             IN  Decided("quiet", <<event, start, end>>, Suppressed(event, start, end))
      BY <1>8 DEF Disturb
    <2> DEFINE event == [type |-> type, priority |-> priority, hour |-> hour]
    <2>2. Decided("quiet", <<event, start, end>>, Suppressed(event, start, end))
      BY <2>1
    <2>3. QuietIsSound(event, start, end, Suppressed(event, start, end))
      <3>1. start \in Int /\ end \in Int
        BY MessagesAssumption
      <3> QED BY <3>1, QuietSound
    <2> HIDE DEF event
    <2> QED BY <2>2, <2>3, DecidedFacts
  <1>9. CASE RouteEvent
    <2>1. PICK game \in Games, chosen \in SUBSET Channels, pattern \in Patterns :
             Decided("route", <<game, chosen, pattern>>,
                     RouteMatches(pattern, StockRoutes(game, chosen, "watch", "7")))
      BY <1>9 DEF RouteEvent
    <2>2. RouteIsSound(game, chosen, pattern, RouteMatches(pattern, StockRoutes(game, chosen, "watch", "7")))
      BY RouteSound
    <2> QED BY <2>1, <2>2, DecidedFacts
  <1>10. CASE ReadListing
    <2>1. PICK l \in Listings : Decided("listing", l, ParseListing(l))
      BY <1>10 DEF ReadListing
    <2>2. ListingIsSound(l, ParseListing(l))
      BY ListingSound, ShopsAssumption DEF Entries
    <2> QED BY <2>1, <2>2, DecidedFacts
  <1>11. CASE VetShop
    <2>1. ASSUME NEW r \in Results, Decided("search", r, SearchHits(r, MaxHits)) PROVE EverythingIsSound'
      <3>1. SearchIsSound(r, SearchHits(r, MaxHits))
        BY SearchSound, ShopsAssumption DEF Hit
      <3> QED BY <2>1, <3>1, DecidedFacts
    <2>2. ASSUME NEW host \in Found, Decided("domain", host, IsExcludedDomain(host, Tokens, ShopDomains))
          PROVE  EverythingIsSound'
      <3>1. DomainIsSound(host, IsExcludedDomain(host, Tokens, ShopDomains))
        BY DomainSound
      <3> QED BY <2>2, <3>1, DecidedFacts
    <2>3. ASSUME NEW site \in Sites, Decided("site", site, Verdict(site)) PROVE EverythingIsSound'
      <3>1. SiteIsSound(site, Verdict(site))
        BY SiteSound, ShopsAssumption
      <3> QED BY <2>3, <3>1, DecidedFacts
    <2> QED BY <1>11, <2>1, <2>2, <2>3 DEF VetShop
  <1> QED BY <1>1, <1>2, <1>3, <1>4, <1>5, <1>6, <1>7, <1>8, <1>9, <1>10, <1>11 DEF DecisionNext

\* So everything ever decided is sound.
LEMMA DecisionsAreSound == DecisionSpec => []EverythingIsSound
  <1>1. DecisionInit => EverythingIsSound
    BY DEF DecisionInit, EverythingIsSound, ReadingsAreSound, ChoicesAreSound
  <1>2. EverythingIsSound /\ [DecisionNext]_decision => EverythingIsSound'
    <2>1. EverythingIsSound /\ UNCHANGED decision => EverythingIsSound'
      BY DEF EverythingIsSound, ReadingsAreSound, ChoicesAreSound
    <2> QED BY <2>1, DecideSound
  <1> QED BY <1>1, <1>2, PTL DEF DecisionSpec

\* Whatever page, product, API answer or host there is, the adapters, detect_stock,
\* the queue alarm and resolve_adapter read it soundly.
THEOREM EveryReadingIsSound == DecisionSpec => []ReadingsAreSound
  <1>1. EverythingIsSound => ReadingsAreSound
    BY DEF EverythingIsSound
  <1> QED BY <1>1, DecisionsAreSound, PTL

\* Whatever message, number, event, listing, search result or shop there is, the
\* choice of matches, dispatch_event, parse_listing, search_web or vet_site is sound.
THEOREM EveryChoiceIsSound == DecisionSpec => []ChoicesAreSound
  <1>1. EverythingIsSound => ChoicesAreSound
    BY DEF EverythingIsSound
  <1> QED BY <1>1, DecisionsAreSound, PTL
=============================================================================
