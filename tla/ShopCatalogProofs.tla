------------------------- MODULE ShopCatalogProofs -------------------------
(***************************************************************************)
(* Theorems about ShopCatalog for every set of watches and products, every *)
(* life of an entry and every behaviour of the shop.                       *)
(***************************************************************************)
EXTENDS ShopCatalog, SequenceTheorems, TLAPS

LEMMA TwoToType ==
    ASSUME NEW n \in 0..4
    PROVE  TwoTo(n) \in Nat \ {0}
  <1>1. n = 0 \/ n = 1 \/ n = 2 \/ n = 3 \/ n = 4
    OBVIOUS
  <1> QED BY <1>1 DEF TwoTo

Entries == [index : Content, etag : Content, left : Nat, ttl : Nat]

\* A wait after a failure is positive and never passes for a settled answer.
LEMMA RetryTtlRange ==
    ASSUME NEW n \in 0..MissCap
    PROVE  LET t == Min2(RetryTtl * TwoTo(n), MaxRetryTtl)
           IN  t \in Nat /\ t < NegativeTtl
  <1>1. n \in 0..4
    BY TtlAssumption
  <1>2. RetryTtl * TwoTo(n) \in Nat
    BY <1>1, TwoToType, TtlAssumption
  <1> QED BY <1>2, TtlAssumption DEF Min2

LEMMA ShelvesAreContent == Shelves \subseteq Content
  BY ShelvesAssumption DEF Content, Stock

LEMMA BlankIsContent == Blank \in Content
  BY DEF Blank, Content

LEMMA EntryAfterType ==
    ASSUME TypeOK
    PROVE  EntryAfter \in Entries /\ EntryAfter.left = EntryAfter.ttl
  <1>1. LoadedIndex \in Content /\ shelf \in Content
    BY ShelvesAreContent DEF TypeOK, LoadedIndex
  <1>2. RetryTtlNow \in Nat /\ NegativeTtl \in Nat /\ CatalogTtl \in Nat
    BY RetryTtlRange, TtlAssumption DEF TypeOK, RetryTtlNow
  <1> QED BY <1>1, <1>2, BlankIsContent DEF EntryAfter, EntryOf, Entries

\* A check that is given an index ends with a reading or goes on alone.
LEMMA DecideType ==
    ASSUME TypeOK, NEW w \in Watches, NEW e \in Entries, Decide(w, e)
    PROVE  /\ reading' \in [Watches -> {"none", "out", "in"}]
           /\ pc' \in [Watches -> Places]
           /\ pc'[w] # "probing"
           /\ \A v \in Watches : v # w => pc'[v] = pc[v]
  <1>1. e.index \in [Handles -> Stock \cup {"unlisted"}]
    BY DEF Entries, Content
  <1>2. Handle[w] \in Handles
    BY WatchesAssumption
  <1>3. e.index[Handle[w]] \in {"out", "in", "unlisted"}
    BY <1>1, <1>2 DEF Stock
  <1>4. reading \in [Watches -> {"none", "out", "in"}] /\ pc \in [Watches -> Places]
    BY DEF TypeOK
  <1>5. PICK place \in {"idle", "json", "html"} : pc' = [pc EXCEPT ![w] = place]
    BY DEF Decide
  <1>6. PICK value \in {"none", "out", "in"} : reading' = [reading EXCEPT ![w] = value]
    BY <1>3 DEF Decide
  <1>7. place \in Places /\ place # "probing"
    BY DEF Places, Single
  <1> QED BY <1>4, <1>5, <1>6, <1>7

-----------------------------------------------------------------------------
(* Type correctness.                                                       *)

\* Whoever joins the queue, its first stays first; the first can leave it.
LEMMA QueueFacts ==
    ASSUME NEW q \in Seq(Watches), NEW w \in Watches
    PROVE  /\ Append(q, w) \in Seq(Watches)
           /\ Append(q, w) # <<>>
           /\ q # <<>> => Tail(q) \in Seq(Watches) /\ Head(Append(q, w)) = Head(q)
  <1>1. Append(q, w) \in Seq(Watches) /\ Append(q, w) # <<>>
    BY AppendProperties
  <1>2. ASSUME q # <<>> PROVE Tail(q) \in Seq(Watches)
    BY <1>2, HeadTailProperties
  <1>3. ASSUME q # <<>> PROVE Head(Append(q, w)) = Head(q)
    <2>1. Len(q) \in Nat \ {0}
      BY <1>3
    <2>2. Append(q, w)[1] = q[1]
      BY <2>1, AppendProperties
    <2> QED BY <2>2, <1>1, <1>3
  <1> QED BY <1>1, <1>2, <1>3

LEMMA InitType == Init => TypeOK
  <1> SUFFICES ASSUME Init PROVE TypeOK
    OBVIOUS
  <1>1. Never \in Entries /\ Never.left = 0 /\ Never.ttl = 0
    BY BlankIsContent DEF Never, Entries
  <1>2. shelf \in Shelves /\ mood \in {"open", "gone", "refusing"}
    BY DEF Init
  <1>3. hist \in [seen : [Handles -> [Stock -> 0..(CatalogTtl + 1)]], hush : Nat,
                  row : 0..MissCap, down : BOOLEAN, past : SUBSET Watches]
    BY TtlAssumption DEF Init
  <1>4. line \in Seq(Watches) /\ misses \in 0..MissCap
    BY TtlAssumption DEF Init
  <1> QED BY <1>1, <1>2, <1>3, <1>4 DEF Init, TypeOK, Entries, Places

\* The lock has one holder.
LEMMA OneProbes ==
    ASSUME TypeOK, NEW v \in Watches, NEW w \in Watches, pc[v] = "probing", HoldsLock(w)
    PROVE  v = w
  BY DEF TypeOK, HoldsLock

\* The observer keeps its type through a request for the catalogue.
LEMMA NoteProbeType ==
    ASSUME TypeOK, NoteProbe
    PROVE  hist' \in [seen : [Handles -> [Stock -> 0..(CatalogTtl + 1)]], hush : Nat,
                      row : 0..MissCap, down : BOOLEAN, past : SUBSET Watches]
  <1>1. SilenceOwed \in Nat
    BY RetryTtlRange, TtlAssumption DEF TypeOK, SilenceOwed
  <1>2. hist.row \in 0..MissCap
    BY DEF TypeOK
  <1>3. 0 \in 0..MissCap /\ Min2(hist.row + 1, MissCap) \in 0..MissCap
    BY <1>2, TtlAssumption DEF Min2
  <1>4. Loads \in BOOLEAN /\ Settles \in BOOLEAN
    BY DEF Loads, Settles
  <1> QED BY <1>1, <1>2, <1>3, <1>4 DEF TypeOK, NoteProbe

\* One tick ages everything by one, within bounds.
LEMMA TickType ==
    ASSUME TypeOK, Tick
    PROVE  /\ entry' \in Entries /\ entry'.left <= entry'.ttl
           /\ hist' \in [seen : [Handles -> [Stock -> 0..(CatalogTtl + 1)]], hush : Nat,
                         row : 0..MissCap, down : BOOLEAN, past : SUBSET Watches]
  <1>1. entry.left \in Nat /\ entry.ttl \in Nat /\ entry.left <= entry.ttl
    BY DEF TypeOK
  <1>2. entry' \in Entries /\ entry'.left <= entry'.ttl
    BY <1>1 DEF TypeOK, Entries, Tick, Less
  <1>3. hist.seen \in [Handles -> [Stock -> 0..(CatalogTtl + 1)]] /\ hist.hush \in Nat
    BY DEF TypeOK
  <1>4. \A h \in Handles, s \in Stock :
           Min2(hist.seen[h][s] + 1, CatalogTtl + 1) \in 0..(CatalogTtl + 1)
    BY <1>3, TtlAssumption DEF Min2
  <1>5. 0 \in 0..(CatalogTtl + 1) /\ Less(hist.hush) \in Nat
    BY <1>3, TtlAssumption DEF Less
  <1>6. [h \in Handles |-> [s \in Stock |-> IF shelf[h] = s THEN 0
                                           ELSE Min2(hist.seen[h][s] + 1, CatalogTtl + 1)]]
           \in [Handles -> [Stock -> 0..(CatalogTtl + 1)]]
    BY <1>4, <1>5
  <1>7. hist' = [hist EXCEPT !.hush = Less(hist.hush),
                             !.seen = [h \in Handles |-> [s \in Stock |->
                                          IF shelf[h] = s THEN 0
                                          ELSE Min2(hist.seen[h][s] + 1, CatalogTtl + 1)]]]
    BY DEF Tick
  <1>8. hist' \in [seen : [Handles -> [Stock -> 0..(CatalogTtl + 1)]], hush : Nat,
                    row : 0..MissCap, down : BOOLEAN, past : SUBSET Watches]
    BY <1>5, <1>6, <1>7 DEF TypeOK
  <1> QED BY <1>2, <1>8

LEMMA NextType == TypeOK /\ [Next]_vars => TypeOK'
  <1> SUFFICES ASSUME TypeOK, [Next]_vars PROVE TypeOK'
    OBVIOUS
  <1>e. entry \in Entries
    BY DEF TypeOK, Entries
  <1>1. ASSUME NEW w \in Watches, LookUp(w) PROVE TypeOK'
    <2>1. CASE Fresh(entry)
      <3>1. Decide(w, entry) /\ line' = line
        BY <1>1, <2>1 DEF LookUp
      <3>2. \A v \in Watches : pc'[v] = "probing" => HoldsLock(v)'
        BY <3>1, <1>e, DecideType DEF TypeOK, HoldsLock
      <3> QED BY <1>1, <1>e, <3>1, <3>2, DecideType DEF LookUp, TypeOK, cache, shop
    <2>2. CASE ~Fresh(entry)
      <3>1. pc' = [pc EXCEPT ![w] = "queued"] /\ line' = Append(line, w) /\ reading' = reading
        BY <1>1, <2>2 DEF LookUp
      <3>2. line' \in Seq(Watches) /\ pc' \in [Watches -> Places]
        BY <3>1, QueueFacts DEF TypeOK, Places
      <3>3. \A v \in Watches : pc'[v] = "probing" => HoldsLock(v)'
        BY <3>1, QueueFacts DEF TypeOK, HoldsLock
      <3> QED BY <1>1, <3>1, <3>2, <3>3 DEF LookUp, TypeOK, cache, shop
    <2> QED BY <2>1, <2>2
  <1>2. ASSUME NEW w \in Watches, Recheck(w) PROVE TypeOK'
    <2>0. pc[w] = "queued" /\ HoldsLock(w) /\ line # <<>>
      BY <1>2 DEF Recheck, HoldsLock
    <2>1. \A v \in Watches : pc[v] # "probing"
      BY <2>0, OneProbes
    <2>2. CASE Spared(entry)
      <3>1. Decide(w, entry) /\ line' = Tail(line)
        BY <1>2, <2>2 DEF Recheck
      <3>2. line' \in Seq(Watches)
        BY <2>0, <3>1, QueueFacts DEF TypeOK
      <3>3. \A v \in Watches : pc'[v] # "probing"
        BY <2>1, <3>1, <1>e, DecideType
      <3> QED BY <1>2, <1>e, <3>1, <3>2, <3>3, DecideType DEF Recheck, TypeOK, cache, shop
    <2>3. CASE ~Spared(entry)
      <3>1. pc' = [pc EXCEPT ![w] = "probing"] /\ reading' = reading /\ line' = line
        BY <1>2, <2>3 DEF Recheck
      <3>2. \A v \in Watches : pc'[v] = "probing" => HoldsLock(v)'
        BY <2>0, <2>1, <3>1 DEF TypeOK, HoldsLock
      <3> QED BY <1>2, <3>1, <3>2 DEF Recheck, TypeOK, Places, cache, shop
    <2> QED BY <2>2, <2>3
  <1>3. ASSUME NEW w \in Watches, Answered(w) PROVE TypeOK'
    <2>1. HoldsLock(w) /\ line # <<>>
      BY <1>3 DEF Answered, TypeOK, HoldsLock
    <2>2. entry' \in Entries /\ entry'.left <= entry'.ttl
      BY <1>3, EntryAfterType DEF Answered, Entries
    <2>3. misses' \in 0..MissCap
      BY <1>3, TtlAssumption DEF Answered, MissesAfter, Min2, TypeOK
    <2>4. line' \in Seq(Watches)
      BY <1>3, <2>1, QueueFacts DEF Answered, TypeOK
    <2>5. Decide(w, entry')
      BY <1>3 DEF Answered
    <2>6. \A v \in Watches : pc'[v] # "probing"
      BY <2>1, <2>2, <2>5, DecideType, OneProbes
    <2>7. shelf' = shelf /\ mood' = mood /\ NoteProbe
      BY <1>3 DEF Answered, shop
    <2>8. reading' \in [Watches -> {"none", "out", "in"}] /\ pc' \in [Watches -> Places]
      BY <2>2, <2>5, DecideType
    <2> QED BY <2>2, <2>3, <2>4, <2>6, <2>7, <2>8, NoteProbeType DEF TypeOK, Entries
  <1>4. ASSUME NEW w \in Watches, Alone(w) \/ Record(w) PROVE TypeOK'
    <2>1. reading' \in [Watches -> {"none", "out", "in"}]
      <3>1. Handle[w] \in Handles /\ shelf[Handle[w]] \in {"out", "in", "unlisted"}
        BY WatchesAssumption, ShelvesAssumption DEF TypeOK
      <3> QED BY <1>4, <3>1 DEF Alone, ProductJson, ProductPage, Pause, ProductPageAgain, Record,
                   ReadsPage, ReadsNothing, TypeOK
    <2>2. pc' \in [Watches -> Places] /\ \A v \in Watches : pc'[v] = "probing" => pc[v] = "probing"
      BY <1>4 DEF Alone, ProductJson, ProductPage, Pause, ProductPageAgain, Record,
                   ReadsPage, ReadsNothing, TypeOK, Places, Single
    <2>3. hist' = hist \/ hist' = [hist EXCEPT !.past = @ \ {w}]
      BY <1>4 DEF Alone, ProductJson, ProductPage, Pause, ProductPageAgain, Record,
                   ReadsPage, ReadsNothing, NoteOver
    <2>4. UNCHANGED <<entry, misses, line, shelf, mood>>
      BY <1>4 DEF Alone, ProductJson, ProductPage, Pause, ProductPageAgain, Record, cache, shop
    <2> QED BY <2>1, <2>2, <2>3, <2>4 DEF TypeOK, HoldsLock
  <1>5. CASE Tick
    BY <1>5, TickType DEF Tick, TypeOK, Entries, HoldsLock, checks, shop
  <1>6. CASE ShelfMoves
    <2>1. shelf' \in Shelves /\ UNCHANGED <<entry, misses, line, pc, reading, mood>>
      BY <1>6 DEF ShelfMoves, cache, checks
    <2>2. [h \in Handles |-> [s \in Stock |-> IF shelf'[h] = s THEN 0 ELSE hist.seen[h][s]]]
             \in [Handles -> [Stock -> 0..(CatalogTtl + 1)]]
      BY TtlAssumption DEF TypeOK
    <2>3. hist' = [hist EXCEPT !.seen = [h \in Handles |-> [s \in Stock |->
                                           IF shelf'[h] = s THEN 0 ELSE hist.seen[h][s]]]]
      BY <1>6 DEF ShelfMoves
    <2> QED BY <2>1, <2>2, <2>3 DEF TypeOK, HoldsLock
  <1>7. CASE MoodSwings
    BY <1>7 DEF MoodSwings, TypeOK, HoldsLock, cache, checks
  <1>8. CASE UNCHANGED vars
    BY <1>8 DEF vars, cache, checks, shop, TypeOK, HoldsLock
  <1> QED BY <1>1, <1>2, <1>3, <1>4, <1>5, <1>6, <1>7, <1>8 DEF Next, Check

\* Every variable of the catalogue keeps its type (TypeOK).
THEOREM TypeCorrect == Spec => []TypeOK
  <1>1. Init => TypeOK
    BY InitType
  <1>2. TypeOK /\ [Next]_vars => TypeOK'
    BY NextType
  <1> QED BY <1>1, <1>2, PTL DEF Spec

-----------------------------------------------------------------------------
(* The silence between two requests for the catalogue.                     *)

\* The cache owes the shop exactly the silence the observer has noted.
Paced == hist.row = misses /\ hist.hush = entry.left

LEMMA NextPaced == TypeOK /\ Paced /\ [Next]_vars => Paced'
  <1> SUFFICES ASSUME TypeOK, Paced, [Next]_vars PROVE Paced'
    OBVIOUS
  <1>1. ASSUME NEW w \in Watches, LookUp(w) \/ Recheck(w) \/ Record(w) PROVE Paced'
    BY <1>1 DEF LookUp, Recheck, Record, Paced, cache
  <1>2. ASSUME NEW w \in Watches, Answered(w) PROVE Paced'
    <2>1. ~(Loads /\ Settles)
      BY DEF Loads, Settles
    <2>2. EntryAfter.left = SilenceOwed
      BY DEF EntryAfter, EntryOf, SilenceOwed, RetryTtlNow, Paced
    <2>3. hist'.hush = SilenceOwed
      BY <1>2 DEF Answered, NoteProbe, TypeOK
    <2>4. hist'.row = misses'
      BY <1>2, <2>1 DEF Answered, NoteProbe, MissesAfter, TypeOK, Paced
    <2> QED BY <1>2, <2>2, <2>3, <2>4 DEF Answered, Paced
  <1>3. ASSUME NEW w \in Watches, Alone(w) PROVE Paced'
    <2>1. UNCHANGED <<entry, misses>>
      BY <1>3 DEF Alone, ProductJson, ProductPage, Pause, ProductPageAgain, cache
    <2>2. hist' = hist \/ hist' = [hist EXCEPT !.past = @ \ {w}]
      BY <1>3 DEF Alone, ProductJson, ProductPage, Pause, ProductPageAgain,
                   ReadsPage, ReadsNothing, NoteOver
    <2> QED BY <2>1, <2>2 DEF Paced, TypeOK
  <1>4. CASE Tick
    BY <1>4 DEF Tick, Paced, TypeOK
  <1>5. CASE ShelfMoves
    BY <1>5 DEF ShelfMoves, Paced, TypeOK, cache
  <1>6. CASE MoodSwings \/ UNCHANGED vars
    BY <1>6 DEF MoodSwings, Paced, vars, cache
  <1> QED BY <1>1, <1>2, <1>3, <1>4, <1>5, <1>6 DEF Next, Check

\* The shop hears a new request only when the silence is over (ProbesPaced).
THEOREM ProbesArePaced == Spec => ProbesPaced
  <1>1. Init => TypeOK /\ Paced
    BY InitType DEF Init, Paced, Never
  <1>2. TypeOK /\ Paced /\ [Next]_vars => (TypeOK /\ Paced)'
    BY NextType, NextPaced
  <1>3. ASSUME TypeOK, Paced, [Next]_vars, NEW w \in Watches, pc[w] # "probing", pc'[w] = "probing"
        PROVE  hist.hush = 0
    <2>1. PICK v \in Watches : Check(v)
      BY <1>3 DEF Next, Tick, ShelfMoves, MoodSwings, vars, checks
    <2>2. entry \in Entries
      BY <1>3 DEF TypeOK, Entries
    <2>3. Recheck(v) /\ ~Spared(entry)
      <3>1. ASSUME Alone(v) \/ Record(v) PROVE FALSE
        BY <1>3, <3>1 DEF Alone, ProductJson, ProductPage, Pause, ProductPageAgain, Record,
                     ReadsPage, ReadsNothing, TypeOK
      <3>2. ASSUME LookUp(v) PROVE FALSE
        BY <1>3, <3>2, <2>2, DecideType DEF LookUp, TypeOK
      <3>3. ASSUME Answered(v) PROVE FALSE
        BY <1>3, <3>3, EntryAfterType, DecideType DEF Answered
      <3>4. ASSUME Recheck(v), Spared(entry) PROVE FALSE
        BY <1>3, <3>4, <2>2, DecideType DEF Recheck
      <3> QED BY <2>1, <3>1, <3>2, <3>3, <3>4 DEF Check
    <2>4. entry.left \in Nat /\ ~(entry.left > 0)
      BY <1>3, <2>3 DEF Spared, Fresh, TypeOK
    <2> QED BY <1>3, <2>4 DEF Paced
  <1>4. TypeOK /\ Paced /\ [Next]_vars
          => [\A w \in Watches : pc[w] # "probing" /\ pc'[w] = "probing" => hist.hush = 0]_vars
    BY <1>3
  <1> QED BY <1>1, <1>2, <1>4, PTL DEF Spec, ProbesPaced

-----------------------------------------------------------------------------
(* Nothing product by product while the catalogue cannot be read.          *)

\* What is cached after a failure is a verdict of "unavailable".
DownIsUnavailable == hist.down => entry.index = Blank /\ entry.ttl < NegativeTtl

Quiet == OnlyStragglers /\ DownIsUnavailable

\* The guard lets nobody pass on an entry that says "unavailable".
LEMMA GuardHolds ==
    ASSUME TypeOK, NEW w \in Watches, NEW e \in Entries, Decide(w, e),
           e.index = Blank, e.ttl < NegativeTtl
    PROVE  pc' = [pc EXCEPT ![w] = "idle"]
  <1>1. e.index[Handle[w]] = "unlisted"
    BY WatchesAssumption DEF Blank
  <1>2. Verdict(e) = "unavailable"
    BY TtlAssumption DEF Verdict, Entries
  <1> QED BY <1>1, <1>2 DEF Decide

LEMMA NextQuiet == TypeOK /\ Quiet /\ [Next]_vars => Quiet'
  <1> SUFFICES ASSUME TypeOK, Quiet, [Next]_vars PROVE Quiet'
    OBVIOUS
  <1>e. entry \in Entries /\ pc \in [Watches -> Places]
    BY DEF TypeOK, Entries
  <1>1. ASSUME NEW w \in Watches, LookUp(w) \/ Recheck(w), hist.down PROVE Quiet'
    <2>1. entry' = entry /\ hist' = hist
      BY <1>1 DEF LookUp, Recheck, cache
    <2>2. PICK place \in {"idle", "queued", "probing"} : pc' = [pc EXCEPT ![w] = place]
      BY <1>1, <1>e, GuardHolds DEF LookUp, Recheck, Quiet, DownIsUnavailable
    <2>3. place \notin Single
      BY DEF Single
    <2> QED BY <2>1, <2>2, <2>3, <1>e DEF Quiet, OnlyStragglers, DownIsUnavailable
  <1>2. ASSUME NEW w \in Watches, LookUp(w) \/ Recheck(w), ~hist.down PROVE Quiet'
    BY <1>2 DEF LookUp, Recheck, Quiet, OnlyStragglers, DownIsUnavailable
  <1>3. ASSUME NEW w \in Watches, Answered(w) PROVE Quiet'
    <2>1. hist'.down = (~Loads /\ ~Settles) /\ entry' = EntryAfter /\ entry' \in Entries
      BY <1>3, EntryAfterType DEF Answered, NoteProbe, TypeOK
    <2>2. CASE Loads \/ Settles
      BY <2>1, <2>2 DEF Quiet, OnlyStragglers, DownIsUnavailable
    <2>3. CASE ~Loads /\ ~Settles
      <3>1. entry'.index = Blank /\ entry'.ttl < NegativeTtl
        BY <2>1, <2>3, RetryTtlRange DEF EntryAfter, EntryOf, RetryTtlNow, TypeOK
      <3>2. pc' = [pc EXCEPT ![w] = "idle"]
        BY <1>3, <2>1, <3>1, GuardHolds DEF Answered
      <3>3. hist'.past = {v \in Watches : pc[v] \in Single}
        BY <1>3, <2>3 DEF Answered, NoteProbe, TypeOK
      <3>4. "idle" \notin Single
        BY DEF Single
      <3> QED BY <3>1, <3>2, <3>3, <3>4, <1>e DEF Quiet, OnlyStragglers, DownIsUnavailable
    <2> QED BY <2>2, <2>3
  <1>4. ASSUME NEW w \in Watches, Alone(w) \/ Record(w) PROVE Quiet'
    <2>1. entry' = entry
      BY <1>4 DEF Alone, ProductJson, ProductPage, Pause, ProductPageAgain, Record, cache
    <2>2. \/ hist' = [hist EXCEPT !.past = @ \ {w}] /\ pc' = [pc EXCEPT ![w] = "idle"]
          \/ hist' = hist /\ pc' = pc
          \/ hist' = hist /\ pc[w] \in Single /\ \A v \in Watches : v # w => pc'[v] = pc[v]
      BY <1>4, <1>e DEF Alone, ProductJson, ProductPage, Pause, ProductPageAgain, Record,
                   ReadsPage, ReadsNothing, NoteOver, Single
    <2>3. "idle" \notin Single
      BY DEF Single
    <2>4. hist'.down = hist.down
      BY <2>2 DEF TypeOK
    <2>5. ASSUME hist.down, NEW v \in Watches, pc'[v] \in Single PROVE v \in hist'.past
      <3>1. pc[v] \in Single
        BY <2>2, <2>3, <2>5, <1>e
      <3>2. v \in hist.past
        BY <2>5, <3>1 DEF Quiet, OnlyStragglers
      <3>3. hist' = hist \/ (hist'.past = hist.past \ {w} /\ v # w)
        BY <2>2, <2>3, <2>5, <1>e DEF TypeOK
      <3> QED BY <3>2, <3>3
    <2> QED BY <2>1, <2>4, <2>5 DEF Quiet, OnlyStragglers, DownIsUnavailable
  <1>5. CASE Tick
    BY <1>5 DEF Tick, Quiet, OnlyStragglers, DownIsUnavailable, TypeOK, checks
  <1>6. CASE ShelfMoves
    BY <1>6 DEF ShelfMoves, Quiet, OnlyStragglers, DownIsUnavailable, TypeOK, cache, checks
  <1>7. CASE MoodSwings \/ UNCHANGED vars
    BY <1>7 DEF MoodSwings, Quiet, OnlyStragglers, DownIsUnavailable, vars, cache, checks
  <1> QED BY <1>1, <1>2, <1>3, <1>4, <1>5, <1>6, <1>7 DEF Next, Check

\* While the catalogue is unreachable, only checks that were past the guard
\* before still ask for single products (OnlyStragglers).
THEOREM OnlyStragglersAsk == Spec => []OnlyStragglers
  <1>1. Init => TypeOK /\ Quiet
    BY InitType DEF Init, Quiet, OnlyStragglers, DownIsUnavailable
  <1>2. TypeOK /\ Quiet /\ [Next]_vars => (TypeOK /\ Quiet)'
    BY NextType, NextQuiet
  <1>3. Quiet => OnlyStragglers
    BY DEF Quiet
  <1> QED BY <1>1, <1>2, <1>3, PTL DEF Spec

-----------------------------------------------------------------------------
(* What is read is recent.                                                 *)

\* The validator describes the index it is kept with, the observer knows what
\* the shop sells now, and while an entry lives what it says of a product was
\* true no longer ago than the entry has lived.
Recent ==
    /\ entry.index # Blank => entry.etag = entry.index
    /\ \A h \in Handles : shelf[h] \in Stock => hist.seen[h][shelf[h]] = 0
    /\ entry.left > 0 =>
         \A h \in Handles : entry.index[h] \in Stock =>
             hist.seen[h][entry.index[h]] + entry.left <= CatalogTtl

\* What the shop sends is what it sells, whether in full or as "unchanged".
LEMMA LoadedIsShelf == Recent => LoadedIndex = shelf
  BY DEF Recent, LoadedIndex, Unchanged, TagSent

LEMMA EntryAfterRecent ==
    ASSUME TypeOK, Recent
    PROVE  /\ EntryAfter.index # Blank => EntryAfter.etag = EntryAfter.index
           /\ \A h \in Handles : EntryAfter.index[h] \in Stock =>
                  hist.seen[h][EntryAfter.index[h]] + EntryAfter.left <= CatalogTtl
  <1>1. CASE Loads
    <2>1. EntryAfter.index = shelf /\ EntryAfter.etag = shelf /\ EntryAfter.left = CatalogTtl
      BY <1>1, LoadedIsShelf DEF EntryAfter, EntryOf
    <2> QED BY <2>1, TtlAssumption DEF Recent
  <1>2. CASE ~Loads
    <2>1. EntryAfter.index = Blank /\ EntryAfter.etag = Blank
      BY <1>2 DEF EntryAfter, EntryOf
    <2> QED BY <2>1 DEF Blank, Stock
  <1> QED BY <1>1, <1>2

\* Neither the index nor the memory of the observer changes with a request.
LEMMA KeepsRecent ==
    ASSUME Recent, UNCHANGED <<entry, shelf>>, hist'.seen = hist.seen
    PROVE  Recent'
  BY DEF Recent

LEMMA NextRecent == TypeOK /\ Recent /\ [Next]_vars => Recent'
  <1> SUFFICES ASSUME TypeOK, Recent, [Next]_vars PROVE Recent'
    OBVIOUS
  <1>s. hist.seen \in [Handles -> [Stock -> 0..(CatalogTtl + 1)]]
    BY DEF TypeOK
  <1>1. ASSUME NEW w \in Watches, Check(w), ~Answered(w) PROVE Recent'
    <2>1. UNCHANGED <<entry, shelf>>
      BY <1>1 DEF Check, LookUp, Recheck, Record, Alone, ProductJson, ProductPage, Pause,
                   ProductPageAgain, cache, shop
    <2>2. hist' = hist \/ hist' = [hist EXCEPT !.past = @ \ {w}]
      BY <1>1 DEF Check, LookUp, Recheck, Record, Alone, ProductJson, ProductPage, Pause,
                   ProductPageAgain, ReadsPage, ReadsNothing, NoteOver
    <2> QED BY <2>1, <2>2, KeepsRecent DEF TypeOK
  <1>2. ASSUME NEW w \in Watches, Answered(w) PROVE Recent'
    <2>1. entry' = EntryAfter /\ shelf' = shelf /\ hist'.seen = hist.seen
      BY <1>2 DEF Answered, NoteProbe, TypeOK, shop
    <2> QED BY <2>1, EntryAfterRecent DEF Recent
  <1>3. CASE Tick
    <2>1. shelf' = shelf /\ entry'.index = entry.index /\ entry'.etag = entry.etag
      BY <1>3 DEF Tick, TypeOK, shop
    <2>2. hist'.seen = [h \in Handles |-> [s \in Stock |-> IF shelf[h] = s THEN 0
                                          ELSE Min2(hist.seen[h][s] + 1, CatalogTtl + 1)]]
      BY <1>3 DEF Tick, TypeOK
    <2>3. \A h \in Handles, s \in Stock :
             hist'.seen[h][s] \in Int /\ hist'.seen[h][s] <= hist.seen[h][s] + 1
      BY <2>2, <1>s, TtlAssumption DEF Min2
    <2>4. entry.left \in Nat /\ entry'.left = Less(entry.left)
      BY <1>3 DEF Tick, TypeOK
    <2>5. entry'.left > 0 => entry.left > 0 /\ entry'.left = entry.left - 1
      BY <2>4 DEF Less
    <2>6. ASSUME entry'.left > 0, NEW h \in Handles, entry.index[h] \in Stock
          PROVE  hist'.seen[h][entry.index[h]] + entry'.left <= CatalogTtl
      <3>1. hist.seen[h][entry.index[h]] + entry.left <= CatalogTtl
        BY <2>5, <2>6 DEF Recent
      <3>2. hist.seen[h][entry.index[h]] \in Int
        BY <1>s, <2>6
      <3> QED BY <2>3, <2>4, <2>5, <2>6, <3>1, <3>2, TtlAssumption
    <2>7. \A h \in Handles : shelf[h] \in Stock => hist'.seen[h][shelf[h]] = 0
      BY <2>2
    <2> QED BY <2>1, <2>6, <2>7 DEF Recent
  <1>4. CASE ShelfMoves
    <2>1. entry' = entry
      BY <1>4 DEF ShelfMoves, cache
    <2>2. hist'.seen = [h \in Handles |-> [s \in Stock |->
                          IF shelf'[h] = s THEN 0 ELSE hist.seen[h][s]]]
      BY <1>4 DEF ShelfMoves, TypeOK
    <2>3. \A h \in Handles, s \in Stock :
             hist'.seen[h][s] \in Int /\ hist'.seen[h][s] <= hist.seen[h][s]
      BY <2>2, <1>s
    <2>4. entry.left \in Nat
      BY DEF TypeOK
    <2>5. ASSUME entry.left > 0, NEW h \in Handles, entry.index[h] \in Stock
          PROVE  hist'.seen[h][entry.index[h]] + entry.left <= CatalogTtl
      <3>1. hist.seen[h][entry.index[h]] + entry.left <= CatalogTtl
        BY <2>5 DEF Recent
      <3>2. hist.seen[h][entry.index[h]] \in Int
        BY <1>s, <2>5
      <3> QED BY <2>3, <2>4, <2>5, <3>1, <3>2, TtlAssumption
    <2>6. \A h \in Handles : shelf'[h] \in Stock => hist'.seen[h][shelf'[h]] = 0
      BY <2>2
    <2> QED BY <2>1, <2>5, <2>6 DEF Recent
  <1>5. CASE MoodSwings \/ UNCHANGED vars
    BY <1>5, KeepsRecent DEF MoodSwings, vars, cache, shop
  <1> QED BY <1>1, <1>2, <1>3, <1>4, <1>5 DEF Next

\* A check that is given a living entry reads what was true recently.
LEMMA DecidesRecent ==
    ASSUME TypeOK, NEW w \in Watches, NEW e \in Entries, Decide(w, e),
           \A h \in Handles : e.index[h] \in Stock => hist.seen[h][e.index[h]] <= CatalogTtl,
           NEW v \in Watches, reading'[v] # reading[v], reading'[v] # "none"
    PROVE  hist.seen[Handle[v]][reading'[v]] <= CatalogTtl
  <1>1. e.index \in [Handles -> {"out", "in", "unlisted"}] /\ Handle[w] \in Handles
    BY WatchesAssumption DEF Entries, Content, Stock
  <1>2. v = w /\ e.index[Handle[w]] # "unlisted" /\ reading'[v] = e.index[Handle[w]]
    BY DEF Decide, TypeOK
  <1>3. e.index[Handle[w]] \in Stock
    BY <1>1, <1>2 DEF Stock
  <1> QED BY <1>1, <1>2, <1>3

\* Every reading was true at some moment of the last catalog_ttl_seconds
\* (ReadingIsRecent).
THEOREM ReadingsAreRecent == Spec => ReadingIsRecent
  <1>1. Init => TypeOK /\ Recent
    <2> SUFFICES ASSUME Init PROVE Recent
      BY InitType
    <2>1. entry.index = Blank /\ entry.left = 0
      BY DEF Init, Never
    <2>2. hist.seen = [h \in Handles |-> [s \in Stock |-> IF shelf[h] = s THEN 0 ELSE CatalogTtl + 1]]
      BY DEF Init
    <2> QED BY <2>1, <2>2 DEF Recent
  <1>2. TypeOK /\ Recent /\ [Next]_vars => (TypeOK /\ Recent)'
    BY NextType, NextRecent
  <1>3. ASSUME TypeOK, Recent, [Next]_vars, NEW v \in Watches,
               reading'[v] # reading[v], reading'[v] # "none"
        PROVE  hist.seen[Handle[v]][reading'[v]] <= CatalogTtl
    <2>1. PICK w \in Watches : Check(w)
      BY <1>3 DEF Next, Tick, ShelfMoves, MoodSwings, vars, checks
    <2>2. entry \in Entries
      BY <1>3 DEF TypeOK, Entries
    <2>3. ASSUME entry.left > 0, NEW h \in Handles, entry.index[h] \in Stock
          PROVE  hist.seen[h][entry.index[h]] <= CatalogTtl
      <3>1. hist.seen[h][entry.index[h]] + entry.left <= CatalogTtl
        BY <1>3, <2>3 DEF Recent
      <3>2. hist.seen[h][entry.index[h]] \in Int /\ entry.left \in Nat
        BY <1>3, <2>3 DEF TypeOK
      <3> QED BY <3>1, <3>2, TtlAssumption
    <2>4. ASSUME LookUp(w) \/ Recheck(w) PROVE hist.seen[Handle[v]][reading'[v]] <= CatalogTtl
      <3>1. Decide(w, entry) /\ entry.left > 0
        BY <1>3, <2>4 DEF LookUp, Recheck, Fresh, Spared
      <3> QED BY <1>3, <2>2, <2>3, <3>1, DecidesRecent
    <2>5. ASSUME Answered(w) PROVE hist.seen[Handle[v]][reading'[v]] <= CatalogTtl
      <3>1. Decide(w, entry') /\ entry' = EntryAfter /\ entry' \in Entries
        BY <1>3, <2>5, EntryAfterType DEF Answered
      <3>2. ASSUME NEW h \in Handles, entry'.index[h] \in Stock
            PROVE  hist.seen[h][entry'.index[h]] <= CatalogTtl
        <4>1. hist.seen[h][entry'.index[h]] + entry'.left <= CatalogTtl
          BY <1>3, <3>1, <3>2, EntryAfterRecent
        <4>2. hist.seen[h][entry'.index[h]] \in Int /\ entry'.left \in Nat
          BY <1>3, <3>1, <3>2 DEF TypeOK, Entries
        <4> QED BY <4>1, <4>2, TtlAssumption
      <3> QED BY <1>3, <3>1, <3>2, DecidesRecent
    <2>6. ASSUME Alone(w) \/ Record(w) PROVE hist.seen[Handle[v]][reading'[v]] <= CatalogTtl
      <3>1. v = w /\ reading'[v] = shelf[Handle[v]] /\ shelf[Handle[v]] # "unlisted"
        BY <1>3, <2>6 DEF Alone, ProductJson, ProductPage, Pause, ProductPageAgain, Record,
                     ReadsPage, ReadsNothing, TypeOK
      <3>2. Handle[v] \in Handles /\ shelf \in [Handles -> {"unlisted", "out", "in"}]
        BY <1>3, WatchesAssumption, ShelvesAssumption DEF TypeOK
      <3>3. shelf[Handle[v]] \in Stock
        BY <3>1, <3>2 DEF Stock
      <3>4. hist.seen[Handle[v]][shelf[Handle[v]]] = 0
        BY <1>3, <3>2, <3>3 DEF Recent
      <3> QED BY <3>1, <3>4, TtlAssumption
    <2> QED BY <2>1, <2>4, <2>5, <2>6 DEF Check
  <1>4. TypeOK /\ Recent /\ [Next]_vars
          => [\A w \in Watches : reading'[w] # reading[w] /\ reading'[w] # "none"
                 => hist.seen[Handle[w]][reading'[w]] <= CatalogTtl]_vars
    BY <1>3
  <1> QED BY <1>1, <1>2, <1>4, PTL DEF Spec, ReadingIsRecent
=============================================================================
