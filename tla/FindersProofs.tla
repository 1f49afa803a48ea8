--------------------------- MODULE FindersProofs ---------------------------
(***************************************************************************)
(* Theorems about Finders for every set of news and domains, every number  *)
(* of coroutines and restarts, and every cap.                              *)
(***************************************************************************)
EXTENDS Finders, TLAPS

\* A coroutine that has stored, or loaded, what it tells and is not through.
Telling(w) == pc[w] \in {"telling", "sending"}

\* What a coroutine is decides where it can stand, and what it holds there.
Roles ==
    \A w \in Workers :
        /\ pc[w] = "idle" => kind[w] = None /\ batch[w] = {}
        /\ pc[w] = "ingesting" => kind[w] = "poll" /\ batch[w] = {}
        /\ pc[w] = "vetting" => kind[w] = "hunt" /\ batch[w] \subseteq Domains
        /\ Telling(w) => kind[w] \in Kinds
        /\ pc[w] = "sending" => current[w] \in batch[w]
        /\ kind[w] # "hunt" => pending[w] = {}
        /\ found[w].dated \subseteq found[w].items

\* What a poll or a hunt is going to tell is stored and nobody has told it; what it
\* has not begun to tell is not flagged either.
OwedIsUntold ==
    \A w \in Workers : Telling(w) /\ kind[w] # "release scan" =>
        /\ batch[w] \subseteq known
        /\ \A x \in batch[w] : hist.told[x] = 0
        /\ kind[w] = "hunt" => batch[w] \subseteq Domains
        /\ kind[w] = "poll" => batch[w] \subseteq News

\* No two coroutines are going to tell the same thing.
OwedByOne ==
    \A v, w \in Workers : v # w => Owed(v) \cap Owed(w) = {}

\* Everything told was stored before, and was told once.
ToldIsKnown ==
    /\ \A x \in Finds : hist.told[x] \in {0, 1} /\ (hist.told[x] = 1 => x \in known)
    /\ \A w \in Workers : pending[w] \subseteq known /\ \A x \in pending[w] : hist.told[x] = 1

\* One scan of releases at a time.
OneScan == \A v, w \in Workers : kind[v] = "release scan" /\ kind[w] = "release scan" => v = w

\* A release was reminded of once at most, and then it is flagged.
RemindedIsFlagged == \A i \in News : hist.soon[i] \in {0, 1} /\ (hist.soon[i] = 1 => i \in soon)

\* What a scan is going to remind of is dated, was not reminded of, and is flagged
\* in its turn.
DueIsUnflagged ==
    \A w \in Workers : Telling(w) /\ kind[w] = "release scan" =>
        \A i \in batch[w] :
            /\ i \in dated /\ hist.soon[i] = 0
            /\ i \in soon <=> pc[w] = "sending" /\ current[w] = i

\* A flag without a telling is the one of an item being told now, or one whose
\* telling was lost.
FlaggedIsTold ==
    \A x \in flagged : hist.told[x] = 0 =>
        /\ x \in News
        /\ \/ x \in hist.lost
           \/ \E w \in Workers : pc[w] = "sending" /\ kind[w] = "poll" /\ current[w] = x

UntoldIsOwed ==
    \A x \in known : hist.told[x] = 0 => x \in hist.lost \/ \E w \in Workers : x \in Owed(w)

Inv ==
    /\ TypeOK
    /\ Roles
    /\ OwedIsUntold
    /\ OwedByOne
    /\ ToldIsKnown
    /\ OneScan
    /\ RemindedIsFlagged
    /\ DueIsUnflagged
    /\ FlaggedIsTold
    /\ UntoldIsOwed

-----------------------------------------------------------------------------
(* Types.                                                                  *)

LEMMA InitType == Init => TypeOK
  BY BoundsAssumption DEF Init, TypeOK, Stages, NoPage, Kinds

\* A coroutine that ends, for whatever reason, leaves the types alone.
LEMMA StopsType ==
    ASSUME TypeOK, NEW w \in Workers, Stops(w)
    PROVE  /\ pc' \in [Workers -> Stages] /\ kind' \in [Workers -> Kinds \cup {None}]
           /\ found' \in [Workers -> [items: SUBSET News, dated: SUBSET News]]
           /\ batch' \in [Workers -> SUBSET Finds]
           /\ current' \in [Workers -> Finds \cup {None}]
           /\ pending' \in [Workers -> SUBSET Domains]
  BY DEF Stops, TypeOK, Stages, NoPage

LEMMA OwedType ==
    ASSUME TypeOK, NEW w \in Workers
    PROVE  Owed(w) \subseteq Finds
  BY DEF Owed, TypeOK

LEMMA CountedType ==
    ASSUME NEW S, NEW f \in [S -> 0..2], NEW x \in S
    PROVE  Counted(f, x) \in [S -> 0..2]
  <1> DEFINE next == IF f[x] = 2 THEN 2 ELSE f[x] + 1
  <1>1. Counted(f, x) = [f EXCEPT ![x] = next]
    BY DEF Counted
  <1>2. next \in 0..2
    OBVIOUS
  <1> QED BY <1>1, <1>2

LEMMA CountedFirst ==
    ASSUME NEW f, NEW x, f[x] = 0
    PROVE  Counted(f, x) = [f EXCEPT ![x] = 1]
  BY DEF Counted

\* What the observer notes keeps its type.
LEMMA HistType ==
    ASSUME TypeOK
    PROVE  /\ \A some \in SUBSET Finds : NoteLost(some) =>
                 hist' \in [told: [Finds -> 0..2], soon: [News -> 0..2], lost: SUBSET Finds]
           /\ \A w \in Workers : NoteTold(w) /\ current[w] \in Finds
                    /\ (kind[w] = "release scan" => current[w] \in News) =>
                 hist' \in [told: [Finds -> 0..2], soon: [News -> 0..2], lost: SUBSET Finds]
  <1>1. ASSUME NEW some \in SUBSET Finds, NoteLost(some)
        PROVE  hist' \in [told: [Finds -> 0..2], soon: [News -> 0..2], lost: SUBSET Finds]
    BY <1>1 DEF NoteLost, TypeOK
  <1>2. ASSUME NEW w \in Workers, NoteTold(w), current[w] \in Finds,
               kind[w] = "release scan" => current[w] \in News
        PROVE  hist' \in [told: [Finds -> 0..2], soon: [News -> 0..2], lost: SUBSET Finds]
    <2>1. hist.told \in [Finds -> 0..2] /\ hist.soon \in [News -> 0..2]
      BY DEF TypeOK
    <2>2. CASE kind[w] = "release scan"
      <3>1. Counted(hist.soon, current[w]) \in [News -> 0..2]
        BY <1>2, <2>1, <2>2, CountedType
      <3> QED BY <1>2, <2>2, <3>1 DEF NoteTold, TypeOK
    <2>3. CASE kind[w] # "release scan"
      <3>1. Counted(hist.told, current[w]) \in [Finds -> 0..2]
        BY <1>2, <2>1, CountedType
      <3> QED BY <1>2, <2>3, <3>1 DEF NoteTold, TypeOK
    <2> QED BY <2>2, <2>3
  <1> QED BY <1>1, <1>2

\* The types need to know of a coroutine what it is: the one that flags is a poll
\* telling of stored news, a scan telling of dated ones, or a hunt.
LEMMA NextType == TypeOK /\ Roles /\ OwedIsUntold /\ ToldIsKnown /\ DueIsUnflagged /\ [Next]_vars => TypeOK'
  <1> SUFFICES ASSUME TypeOK, Roles, OwedIsUntold, ToldIsKnown, DueIsUnflagged, [Next]_vars
               PROVE  TypeOK'
    OBVIOUS
  <1>1. ASSUME NEW w \in Workers, NEW items \in SUBSET News, NEW withDate \in SUBSET News,
               Poll(w, items, withDate)
        PROVE  TypeOK'
    BY <1>1 DEF Poll, Starts, TypeOK, Stages, Kinds, rows
  <1>2. ASSUME NEW w \in Workers, Ingest(w) PROVE TypeOK'
    <2>1. found[w].items \subseteq News /\ found[w].dated \subseteq found[w].items
      BY <1>2 DEF TypeOK, Roles, Ingest
    <2>2. {i \in found[w].items : ~Existing(i)} \subseteq Finds
      BY <2>1 DEF Finds
    <2>3. dated' \subseteq known' \cap News
      BY <1>2, <2>1 DEF Ingest, TypeOK, Existing
    <2> QED BY <1>2, <2>1, <2>2, <2>3 DEF Ingest, TypeOK, Stages, NoPage
  <1>3. ASSUME NEW w \in Workers, IngestFails(w) \/ RecordFails(w) PROVE TypeOK'
    <2>1. mishaps' \in 0..MaxMishaps
      BY <1>3, BoundsAssumption DEF IngestFails, RecordFails, TypeOK
    <2> QED BY <1>3, <2>1, StopsType DEF IngestFails, RecordFails, TypeOK, rows
  <1>4. ASSUME NEW w \in Workers, NEW due \in SUBSET News, LoadReleases(w, due) PROVE TypeOK'
    BY <1>4 DEF LoadReleases, Starts, TypeOK, Stages, Kinds, rows, Finds
  <1>5. ASSUME NEW w \in Workers, NEW new \in SUBSET Domains, Search(w, new) PROVE TypeOK'
    BY <1>5 DEF Search, Starts, TypeOK, Stages, Kinds, rows, Finds
  <1>6. ASSUME NEW w \in Workers, RecordAny(w) PROVE TypeOK'
    <2>1. PICK pinged \in SUBSET Domains : RecordSites(w, pinged)
      BY <1>6 DEF RecordAny
    <2>2. batch[w] \subseteq Finds
      BY DEF TypeOK
    <2>3. hist' \in [told: [Finds -> 0..2], soon: [News -> 0..2], lost: SUBSET Finds]
      BY <2>1, <2>2, HistType DEF RecordSites
    <2> QED BY <2>1, <2>2, <2>3 DEF RecordSites, TypeOK, Stages
  <1>7. ASSUME NEW w \in Workers, TakeAny(w) PROVE TypeOK'
    <2>1. PICK x \in Finds : Take(w, x)
      BY <1>7 DEF TakeAny
    <2>2. flagged' \subseteq known
      BY <2>1 DEF Take, Flags, OwedIsUntold, TypeOK, Telling
    <2>3. soon' \subseteq dated
      <3>1. kind[w] = "release scan" => x \in dated
        BY <2>1 DEF Take, DueIsUnflagged, Telling
      <3> QED BY <2>1, <3>1 DEF Take, Flags, TypeOK
    <2> QED BY <2>1, <2>2, <2>3 DEF Take, TypeOK, Stages
  <1>8. ASSUME NEW w \in Workers, Send(w) PROVE TypeOK'
    <2>1. current[w] \in batch[w] /\ batch[w] \subseteq Finds
      BY <1>8 DEF Send, Roles, TypeOK
    <2>2. kind[w] = "release scan" => current[w] \in News
      BY <1>8, <2>1 DEF Send, DueIsUnflagged, Telling, TypeOK
    <2>3. hist' \in [told: [Finds -> 0..2], soon: [News -> 0..2], lost: SUBSET Finds]
      BY <1>8, <2>1, <2>2, HistType DEF Send
    <2>4. pending' \in [Workers -> SUBSET Domains]
      BY <1>8, <2>1 DEF Send, TypeOK, OwedIsUntold, Telling
    <2>5. flagged' \subseteq known
      BY <1>8 DEF Send, TypeOK, ToldIsKnown
    <2> QED BY <1>8, <2>1, <2>3, <2>4, <2>5 DEF Send, TypeOK, Stages
  <1>9. ASSUME NEW w \in Workers, Raises(w) PROVE TypeOK'
    <2>1. hist' \in [told: [Finds -> 0..2], soon: [News -> 0..2], lost: SUBSET Finds]
      BY <1>9, HistType, OwedType DEF Raises
    <2> QED BY <1>9, <2>1, StopsType DEF Raises, TypeOK, rows
  <1>10. ASSUME NEW w \in Workers, End(w) PROVE TypeOK'
    BY <1>10, StopsType DEF End, TypeOK, ToldIsKnown
  <1>11. ASSUME Restart PROVE TypeOK'
    <2>1. UNION {Owed(w) : w \in Workers} \subseteq Finds
      BY OwedType
    <2>2. hist' \in [told: [Finds -> 0..2], soon: [News -> 0..2], lost: SUBSET Finds]
      BY <1>11, <2>1, HistType DEF Restart
    <2> QED BY <1>11, <2>2, BoundsAssumption DEF Restart, TypeOK, rows, Stages, NoPage
  <1>12. ASSUME UNCHANGED vars PROVE TypeOK'
    BY <1>12 DEF vars, rows, worker, TypeOK
  <1> QED BY <1>1, <1>2, <1>3, <1>4, <1>5, <1>6, <1>7, <1>8, <1>9, <1>10, <1>11, <1>12 DEF Next

-----------------------------------------------------------------------------
(* The invariant.                                                          *)

\* What the observer notes of a telling that was owed.
LEMMA Noted ==
    ASSUME TypeOK, NEW w \in Workers, NoteTold(w), current[w] \in Finds,
           kind[w] = "release scan" => current[w] \in News /\ hist.soon[current[w]] = 0,
           kind[w] # "release scan" => hist.told[current[w]] = 0
    PROVE  /\ hist'.lost = hist.lost
           /\ hist'.soon = IF kind[w] = "release scan"
                           THEN [hist.soon EXCEPT ![current[w]] = 1] ELSE hist.soon
           /\ hist'.told = IF kind[w] = "release scan"
                           THEN hist.told ELSE [hist.told EXCEPT ![current[w]] = 1]
  <1>1. hist.told \in [Finds -> 0..2] /\ hist.soon \in [News -> 0..2]
    BY DEF TypeOK
  <1>2. CASE kind[w] = "release scan"
    <2>1. Counted(hist.soon, current[w]) = [hist.soon EXCEPT ![current[w]] = 1]
      BY <1>2, CountedFirst
    <2> QED BY <1>2, <2>1 DEF NoteTold, TypeOK
  <1>3. CASE kind[w] # "release scan"
    <2>1. Counted(hist.told, current[w]) = [hist.told EXCEPT ![current[w]] = 1]
      BY <1>3, CountedFirst
    <2> QED BY <1>3, <2>1 DEF NoteTold, TypeOK
  <1> QED BY <1>2, <1>3

\* What is being told is stored, and was not told.
TellsOwed(w) ==
    /\ current[w] \in batch[w] /\ current[w] \in Finds
    /\ kind[w] = "release scan" =>
          current[w] \in News /\ current[w] \in dated /\ hist.soon[current[w]] = 0
    /\ kind[w] # "release scan" => current[w] \in known /\ hist.told[current[w]] = 0
    /\ hist'.lost = hist.lost
    /\ hist'.soon = IF kind[w] = "release scan"
                    THEN [hist.soon EXCEPT ![current[w]] = 1] ELSE hist.soon
    /\ hist'.told = IF kind[w] = "release scan"
                    THEN hist.told ELSE [hist.told EXCEPT ![current[w]] = 1]

LEMMA SendIsOwed ==
    ASSUME TypeOK, Roles, OwedIsUntold, DueIsUnflagged, NEW w \in Workers, Send(w)
    PROVE  TellsOwed(w)
  <1>1. current[w] \in batch[w] /\ current[w] \in Finds
    BY DEF Send, Roles, TypeOK
  <1>2. kind[w] = "release scan" =>
           current[w] \in News /\ current[w] \in dated /\ hist.soon[current[w]] = 0
    BY <1>1 DEF Send, DueIsUnflagged, Telling, TypeOK
  <1>3. kind[w] # "release scan" => current[w] \in known /\ hist.told[current[w]] = 0
    BY <1>1 DEF Send, OwedIsUntold, Telling
  <1> QED BY <1>1, <1>2, <1>3, Noted DEF Send, TellsOwed

LEMMA SetElsewhere ==
    ASSUME NEW S, NEW f \in [S -> 0..2], NEW c, NEW x \in S, [f EXCEPT ![c] = 1][x] = 0
    PROVE  f[x] = 0 /\ x # c
  OBVIOUS

\* What is untold after a telling was untold before it, and is not what was told.
LEMMA UntoldBefore ==
    ASSUME TypeOK, NEW w \in Workers, TellsOwed(w), NEW x \in Finds, hist'.told[x] = 0
    PROVE  hist.told[x] = 0 /\ (kind[w] # "release scan" => x # current[w])
  <1>1. hist.told \in [Finds -> 0..2]
    BY DEF TypeOK
  <1>2. CASE kind[w] = "release scan"
    BY <1>2 DEF TellsOwed
  <1>3. CASE kind[w] # "release scan"
    <2>1. hist'.told = [hist.told EXCEPT ![current[w]] = 1]
      BY <1>3 DEF TellsOwed
    <2> QED BY <1>1, <2>1, SetElsewhere
  <1> QED BY <1>2, <1>3

\* Only a telling, a loss and a restart touch the observer.
LEMMA HistKept ==
    ASSUME TypeOK, NEW some, NoteLost(some)
    PROVE  hist'.told = hist.told /\ hist'.soon = hist.soon /\ hist'.lost = hist.lost \cup some
  BY DEF NoteLost, TypeOK

Begins(w) ==
    \/ \E items \in SUBSET News, withDate \in SUBSET News : Poll(w, items, withDate)
    \/ \E due \in SUBSET News : LoadReleases(w, due)
    \/ \E new \in SUBSET Domains : Search(w, new)
Fails(w) == IngestFails(w) \/ RecordFails(w)

LEMMA NextRoles == TypeOK /\ Roles /\ OwedIsUntold /\ [Next]_vars => Roles'
  <1> SUFFICES ASSUME TypeOK, Roles, OwedIsUntold, [Next]_vars PROVE Roles'
    OBVIOUS
  <1>1. ASSUME NEW w \in Workers, Begins(w) PROVE Roles'
    <2>1. CASE \E items \in SUBSET News, withDate \in SUBSET News : Poll(w, items, withDate)
      BY <2>1 DEF Poll, Starts, Roles, TypeOK, Telling, None
    <2>2. CASE \E due \in SUBSET News : LoadReleases(w, due)
      <3>1. /\ pc'[w] = "telling" /\ kind'[w] = "release scan" /\ kind[w] = None
            /\ UNCHANGED <<found, current, pending>>
            /\ \A v \in Workers : v # w => pc'[v] = pc[v] /\ kind'[v] = kind[v] /\ batch'[v] = batch[v]
        BY <2>2 DEF LoadReleases, Starts, TypeOK, Roles
      <3> QED BY <3>1 DEF Roles, Telling, Kinds, None
    <2>3. CASE \E new \in SUBSET Domains : Search(w, new)
      <3>1. PICK new \in SUBSET Domains : Search(w, new)
        BY <2>3
      <3>2. batch'[w] \subseteq Domains /\ pc'[w] = "vetting" /\ kind'[w] = "hunt"
        BY <3>1 DEF Search, Starts, TypeOK
      <3>3. \A v \in Workers : v # w => pc'[v] = pc[v] /\ kind'[v] = kind[v] /\ batch'[v] = batch[v]
        BY <3>1 DEF Search, Starts, TypeOK
      <3>4. UNCHANGED <<found, current, pending>> /\ kind[w] = None
        BY <3>1 DEF Search, Starts, Roles
      <3> QED BY <3>2, <3>3, <3>4 DEF Roles, Telling, None
    <2> QED BY <1>1, <2>1, <2>2, <2>3 DEF Begins
  <1>2. ASSUME NEW w \in Workers, Ingest(w) PROVE Roles'
    BY <1>2 DEF Ingest, Roles, TypeOK, Telling, Kinds, None, NoPage
  <1>3. ASSUME NEW w \in Workers, Fails(w) \/ Raises(w) \/ End(w) PROVE Roles'
    <2>1. Stops(w)
      BY <1>3 DEF Fails, IngestFails, RecordFails, Raises, End
    <2> QED BY <2>1 DEF Stops, Roles, TypeOK, Telling, NoPage, None
  <1>4. ASSUME NEW w \in Workers, RecordAny(w) PROVE Roles'
    <2>1. PICK pinged \in SUBSET Domains : RecordSites(w, pinged)
      BY <1>4 DEF RecordAny
    <2> QED BY <2>1 DEF RecordSites, Roles, TypeOK, Telling, Kinds
  <1>5. ASSUME NEW w \in Workers, TakeAny(w) PROVE Roles'
    BY <1>5 DEF TakeAny, Take, Roles, TypeOK, Telling
  <1>6. ASSUME NEW w \in Workers, Send(w) PROVE Roles'
    BY <1>6 DEF Send, Roles, TypeOK, Telling
  <1>7. CASE Restart
    BY <1>7 DEF Restart, Roles, Telling, NoPage, None
  <1>8. CASE UNCHANGED vars
    BY <1>8 DEF vars, rows, worker, Roles, Telling
  <1> QED BY <1>1, <1>2, <1>3, <1>4, <1>5, <1>6, <1>7, <1>8 DEF Next, Begins, Fails

LEMMA NextOwedByOne == TypeOK /\ Roles /\ OwedIsUntold /\ OwedByOne /\ [Next]_vars => OwedByOne'
  <1> SUFFICES ASSUME TypeOK, Roles, OwedIsUntold, OwedByOne, [Next]_vars PROVE OwedByOne'
    OBVIOUS
  <1>1. ASSUME NEW w \in Workers, Begins(w) PROVE OwedByOne'
    <2>1. \A v \in Workers : Owed(v)' = Owed(v)
      <3>1. CASE \E items \in SUBSET News, withDate \in SUBSET News : Poll(w, items, withDate)
        BY <3>1 DEF Poll, Starts, Roles, TypeOK, Owed, None
      <3>2. CASE \E due \in SUBSET News : LoadReleases(w, due)
        BY <3>2, ZenonT(30) DEF LoadReleases, Starts, Roles, TypeOK, Owed, None
      <3>3. CASE \E new \in SUBSET Domains : Search(w, new)
        BY <3>3 DEF Search, Starts, Roles, TypeOK, Owed, None
      <3> QED BY <1>1, <3>1, <3>2, <3>3 DEF Begins
    <2> QED BY <2>1 DEF OwedByOne
  \* What one coroutine stores nobody else knew of.
  <1>2. ASSUME NEW w \in Workers, Ingest(w) \/ RecordAny(w) PROVE OwedByOne'
    <2>1. \A v \in Workers : v # w => Owed(v)' = Owed(v)
      BY <1>2 DEF Ingest, RecordAny, RecordSites, TypeOK, Owed
    <2>2. \A v \in Workers : Owed(v) \subseteq known
      BY DEF Owed, Telling, OwedIsUntold, Roles, TypeOK, Stages
    <2>3. Owed(w)' \cap known = {}
      <3>1. CASE Ingest(w)
        BY <3>1 DEF Ingest, TypeOK, Owed
      <3>2. CASE RecordAny(w)
        <4>1. PICK pinged \in SUBSET Domains : RecordSites(w, pinged)
          BY <3>2 DEF RecordAny
        <4>2. pinged \cap known = {}
          BY <4>1 DEF RecordSites, Clashes
        <4> QED BY <4>1, <4>2 DEF RecordSites, TypeOK, Owed
      <3> QED BY <1>2, <3>1, <3>2
    <2> QED BY <2>1, <2>2, <2>3 DEF OwedByOne
  <1>3. ASSUME NEW w \in Workers, Fails(w) \/ TakeAny(w) \/ Send(w) \/ Raises(w) \/ End(w) PROVE OwedByOne'
    <2>1. \A v \in Workers : Owed(v)' \subseteq Owed(v)
      <3>1. CASE Stops(w)
        BY <3>1 DEF Stops, TypeOK, Owed
      <3>2. CASE TakeAny(w)
        BY <3>2 DEF TakeAny, Take, TypeOK, Owed
      <3>3. CASE Send(w)
        BY <3>3 DEF Send, TypeOK, Owed
      <3> QED BY <1>3, <3>1, <3>2, <3>3 DEF Fails, IngestFails, RecordFails, Raises, End
    <2> QED BY <2>1 DEF OwedByOne
  <1>4. CASE Restart
    BY <1>4 DEF Restart, OwedByOne, Owed
  <1>5. CASE UNCHANGED vars
    BY <1>5 DEF vars, rows, worker, OwedByOne, Owed
  <1> QED BY <1>1, <1>2, <1>3, <1>4, <1>5 DEF Next, Begins, Fails

LEMMA NextOwed ==
    TypeOK /\ Roles /\ OwedIsUntold /\ OwedByOne /\ ToldIsKnown /\ DueIsUnflagged /\ [Next]_vars
        => OwedIsUntold'
  <1> SUFFICES ASSUME TypeOK, Roles, OwedIsUntold, OwedByOne, ToldIsKnown, DueIsUnflagged, [Next]_vars
               PROVE  OwedIsUntold'
    OBVIOUS
  <1>1. ASSUME NEW w \in Workers, Begins(w) PROVE OwedIsUntold'
    <2>1. CASE \E items \in SUBSET News, withDate \in SUBSET News : Poll(w, items, withDate)
      BY <2>1 DEF Poll, Starts, rows, OwedIsUntold, TypeOK, Telling
    <2>2. CASE \E due \in SUBSET News : LoadReleases(w, due)
      BY <2>2, ZenonT(30) DEF LoadReleases, Starts, rows, OwedIsUntold, TypeOK, Telling
    <2>3. CASE \E new \in SUBSET Domains : Search(w, new)
      BY <2>3, ZenonT(30) DEF Search, Starts, rows, OwedIsUntold, TypeOK, Telling
    <2> QED BY <1>1, <2>1, <2>2, <2>3 DEF Begins
  <1>2. ASSUME NEW w \in Workers, Ingest(w) PROVE OwedIsUntold'
    <2>1. batch'[w] \subseteq known' /\ batch'[w] \subseteq News /\ batch'[w] \cap known = {}
      BY <1>2 DEF Ingest, TypeOK
    <2>2. \A x \in batch'[w] : hist.told[x] = 0
      BY <2>1, FindsAssumption DEF ToldIsKnown, Finds
    <2> QED BY <1>2, <2>1, <2>2 DEF Ingest, OwedIsUntold, Roles, TypeOK, Telling
  <1>3. ASSUME NEW w \in Workers, Stops(w), UNCHANGED known, hist'.told = hist.told PROVE OwedIsUntold'
    BY <1>3 DEF Stops, OwedIsUntold, TypeOK, Telling
  <1>4. ASSUME NEW w \in Workers, RecordAny(w) PROVE OwedIsUntold'
    <2>1. PICK pinged \in SUBSET Domains : RecordSites(w, pinged)
      BY <1>4 DEF RecordAny
    <2>2. hist'.told = hist.told
      BY <2>1, HistKept DEF RecordSites
    <2>3. batch'[w] = pinged /\ pinged \subseteq known' /\ pinged \subseteq Domains /\ pinged \cap known = {}
      BY <2>1 DEF RecordSites, Clashes, TypeOK
    <2>4. \A x \in pinged : hist.told[x] = 0
      BY <2>3 DEF ToldIsKnown, Finds
    <2>5. kind'[w] = "hunt"
      BY <2>1 DEF RecordSites, Roles
    <2>6. \A v \in Workers : v # w =>
             Telling(v)' = Telling(v) /\ batch'[v] = batch[v] /\ kind'[v] = kind[v]
      BY <2>1 DEF RecordSites, TypeOK, Telling
    <2>7. known \subseteq known'
      BY <2>1 DEF RecordSites
    <2> QED BY <2>2, <2>3, <2>4, <2>5, <2>6, <2>7 DEF OwedIsUntold
  <1>5. ASSUME NEW w \in Workers, TakeAny(w) PROVE OwedIsUntold'
    BY <1>5 DEF TakeAny, Take, OwedIsUntold, TypeOK, Telling
  <1>6. ASSUME NEW w \in Workers, Send(w) PROVE OwedIsUntold'
    <2>0. TellsOwed(w)
      BY <1>6, SendIsOwed
    <2>1. ASSUME NEW v \in Workers, Telling(v)', kind'[v] # "release scan"
          PROVE  /\ batch'[v] \subseteq batch[v] /\ Telling(v) /\ kind'[v] = kind[v]
                 /\ \A x \in batch'[v] : hist'.told[x] = 0
      <3>1. batch'[v] \subseteq batch[v] /\ Telling(v) /\ kind'[v] = kind[v] /\ Telling(w)
        BY <1>6, <2>1 DEF Send, TypeOK, Telling
      <3>2. kind[w] # "release scan" => current[w] \notin batch'[v]
        <4>1. CASE v = w
          BY <1>6, <4>1 DEF Send, TypeOK
        <4>2. CASE v # w /\ kind[w] # "release scan"
          <5>1. Owed(v) = batch[v] /\ Owed(w) = batch[w]
            BY <2>1, <3>1, <4>2 DEF Owed, Telling
          <5> QED BY <2>0, <3>1, <4>2, <5>1, ZenonT(30) DEF OwedByOne, TellsOwed
        <4> QED BY <4>1, <4>2
      <3>3. \A x \in batch[v] : hist.told[x] = 0 /\ x \in Finds
        BY <2>1, <3>1 DEF OwedIsUntold, TypeOK
      <3>4. hist.told \in [Finds -> 0..2]
        BY DEF TypeOK
      <3>5. \A x \in batch'[v] : hist'.told[x] = 0
        BY <2>0, <3>1, <3>2, <3>3, <3>4 DEF TellsOwed
      <3> QED BY <3>1, <3>5
    <2>2. known' = known
      BY <1>6 DEF Send
    <2> QED BY <2>1, <2>2 DEF OwedIsUntold
  <1>7. CASE Restart
    BY <1>7 DEF Restart, OwedIsUntold, Telling
  <1>8. CASE UNCHANGED vars
    BY <1>8 DEF vars, rows, worker, OwedIsUntold, Telling
  <1>9. ASSUME NEW w \in Workers, Fails(w) \/ Raises(w) \/ End(w)
        PROVE  Stops(w) /\ UNCHANGED known /\ hist'.told = hist.told
    BY <1>9, HistKept DEF Fails, IngestFails, RecordFails, Raises, End, rows
  <1> QED BY <1>1, <1>2, <1>3, <1>4, <1>5, <1>6, <1>7, <1>8, <1>9 DEF Next, Begins, Fails

LEMMA NextTold == TypeOK /\ Roles /\ OwedIsUntold /\ ToldIsKnown /\ DueIsUnflagged /\ [Next]_vars => ToldIsKnown'
  <1> SUFFICES ASSUME TypeOK, Roles, OwedIsUntold, ToldIsKnown, DueIsUnflagged, [Next]_vars
               PROVE  ToldIsKnown'
    OBVIOUS
  <1>1. ASSUME UNCHANGED <<pending, hist>>, known \subseteq known' PROVE ToldIsKnown'
    BY <1>1 DEF ToldIsKnown
  <1>2. ASSUME NEW w \in Workers, Stops(w), UNCHANGED known, hist'.told = hist.told PROVE ToldIsKnown'
    BY <1>2 DEF Stops, ToldIsKnown, TypeOK
  <1>3. ASSUME NEW w \in Workers, RecordAny(w) PROVE ToldIsKnown'
    <2>1. known \subseteq known' /\ hist'.told = hist.told /\ UNCHANGED pending
      BY <1>3, HistKept DEF RecordAny, RecordSites
    <2> QED BY <2>1 DEF ToldIsKnown
  <1>4. ASSUME NEW w \in Workers, Send(w) PROVE ToldIsKnown'
    <2>0. TellsOwed(w)
      BY <1>4, SendIsOwed
    <2>1. hist.told \in [Finds -> 0..2] /\ known' = known
      BY <1>4 DEF Send, TypeOK
    <2>2. \A x \in Finds : hist'.told[x] \in {0, 1} /\ (hist'.told[x] = 1 => x \in known)
      <3>1. CASE kind[w] = "release scan"
        BY <2>0, <3>1 DEF ToldIsKnown, TellsOwed
      <3>2. CASE kind[w] # "release scan"
        BY <2>0, <2>1, <3>2 DEF ToldIsKnown, TellsOwed
      <3> QED BY <3>1, <3>2
    <2>3. \A v \in Workers : v # w => pending'[v] = pending[v]
      BY <1>4 DEF Send, TypeOK
    <2>4. pending'[w] = IF kind[w] = "hunt" THEN {current[w]} ELSE {}
      BY <1>4 DEF Send, TypeOK
    <2>5. \A x \in Finds : hist.told[x] = 1 => hist'.told[x] = 1
      BY <2>0, <2>1 DEF TellsOwed
    <2>6. kind[w] = "hunt" => current[w] \in known /\ hist'.told[current[w]] = 1
      BY <2>0, <2>1 DEF TellsOwed
    <2>7. \A v \in Workers : pending'[v] \subseteq known' /\ \A x \in pending'[v] : hist'.told[x] = 1
      BY <2>1, <2>3, <2>4, <2>5, <2>6 DEF ToldIsKnown, TypeOK
    <2> QED BY <2>1, <2>2, <2>7 DEF ToldIsKnown
  <1>5. CASE Restart
    <2>1. hist'.told = hist.told /\ known' = known
      BY <1>5, HistKept DEF Restart, rows
    <2> QED BY <1>5, <2>1 DEF Restart, ToldIsKnown
  <1>6. ASSUME NEW w \in Workers, Fails(w) \/ Raises(w) \/ End(w)
        PROVE  Stops(w) /\ UNCHANGED known /\ hist'.told = hist.told
    BY <1>6, HistKept DEF Fails, IngestFails, RecordFails, Raises, End, rows
  <1>7. ASSUME NEW w \in Workers, Begins(w) \/ Ingest(w) \/ TakeAny(w)
        PROVE  UNCHANGED <<pending, hist>> /\ known \subseteq known'
    BY <1>7 DEF Begins, Poll, LoadReleases, Search, Ingest, TakeAny, Take, rows
  <1>8. CASE UNCHANGED vars
    BY <1>1, <1>8 DEF vars, rows, worker
  <1> QED BY <1>1, <1>2, <1>3, <1>4, <1>5, <1>6, <1>7, <1>8 DEF Next, Begins, Fails

LEMMA NextReminded ==
    TypeOK /\ Roles /\ OwedIsUntold /\ OneScan /\ RemindedIsFlagged /\ DueIsUnflagged /\ [Next]_vars
        => OneScan' /\ RemindedIsFlagged' /\ DueIsUnflagged'
  <1> SUFFICES ASSUME TypeOK, Roles, OwedIsUntold, OneScan, RemindedIsFlagged, DueIsUnflagged, [Next]_vars
               PROVE  OneScan' /\ RemindedIsFlagged' /\ DueIsUnflagged'
    OBVIOUS
  <1> DEFINE Kept == OneScan' /\ RemindedIsFlagged' /\ DueIsUnflagged'
  <1>1. ASSUME NEW w \in Workers, NEW due \in SUBSET News, LoadReleases(w, due) PROVE Kept
    <2>1. /\ pc'[w] = "telling" /\ kind'[w] = "release scan" /\ batch'[w] = due
          /\ \A v \in Workers : v # w => kind'[v] # "release scan"
      BY <1>1 DEF LoadReleases, Starts, TypeOK, Running
    <2>2. UNCHANGED <<soon, dated, hist>>
      BY <1>1 DEF LoadReleases, rows
    <2>3. \A i \in due : i \in dated /\ i \notin soon /\ i \in News
      BY <1>1 DEF LoadReleases
    <2>4. \A i \in due : hist.soon[i] = 0
      BY <2>3 DEF RemindedIsFlagged
    <2>5. OneScan'
      BY <2>1 DEF OneScan
    <2>6. RemindedIsFlagged'
      BY <2>2 DEF RemindedIsFlagged
    <2>7. DueIsUnflagged'
      BY <2>1, <2>2, <2>3, <2>4 DEF DueIsUnflagged
    <2> QED BY <2>5, <2>6, <2>7
  \* A coroutine that is no scan, before and after, leaves the reminders alone.
  <1>2. ASSUME NEW w \in Workers, UNCHANGED soon, hist'.soon = hist.soon, dated \subseteq dated',
               kind'[w] # "release scan",
               \A v \in Workers : v # w => /\ pc'[v] = pc[v] /\ kind'[v] = kind[v]
                                          /\ batch'[v] = batch[v] /\ current'[v] = current[v]
        PROVE  Kept
    <2>1. OneScan'
      BY <1>2 DEF OneScan
    <2>2. RemindedIsFlagged'
      BY <1>2 DEF RemindedIsFlagged
    <2>3. ASSUME NEW v \in Workers, Telling(v)', kind'[v] = "release scan", NEW i \in batch'[v]
          PROVE  /\ i \in dated' /\ hist'.soon[i] = 0
                 /\ i \in soon' <=> pc'[v] = "sending" /\ current'[v] = i
      <3>1. /\ pc'[v] = pc[v] /\ kind[v] = "release scan" /\ i \in batch[v] /\ current'[v] = current[v]
            /\ Telling(v)
        BY <1>2, <2>3 DEF Telling
      <3>2. /\ i \in dated /\ hist.soon[i] = 0
            /\ i \in soon <=> pc[v] = "sending" /\ current[v] = i
        BY <3>1 DEF DueIsUnflagged
      <3> QED BY <1>2, <3>1, <3>2
    <2>4. DueIsUnflagged'
      BY <2>3 DEF DueIsUnflagged
    <2> QED BY <2>1, <2>2, <2>4
  <1>3. ASSUME NEW w \in Workers, Stops(w), UNCHANGED <<soon, dated>>, hist'.soon = hist.soon
        PROVE  Kept
    BY <1>2, <1>3 DEF Stops, TypeOK, None
  <1>4. ASSUME NEW w \in Workers, Fails(w) \/ Raises(w) \/ End(w) PROVE Kept
    BY <1>3, <1>4, HistKept DEF Fails, IngestFails, RecordFails, Raises, End, rows
  <1>5. ASSUME NEW w \in Workers, Ingest(w) PROVE Kept
    BY <1>2, <1>5 DEF Ingest, Roles, TypeOK
  <1>6. ASSUME NEW w \in Workers, RecordAny(w) PROVE Kept
    <2>1. PICK pinged \in SUBSET Domains : RecordSites(w, pinged)
      BY <1>6 DEF RecordAny
    <2>2. hist'.soon = hist.soon
      BY <2>1, HistKept DEF RecordSites
    <2> QED BY <1>2, <2>1, <2>2 DEF RecordSites, Roles, TypeOK
  <1>7. ASSUME NEW w \in Workers, NEW items \in SUBSET News, NEW withDate \in SUBSET News, Poll(w, items, withDate)
        PROVE  Kept
    BY <1>2, <1>7 DEF Poll, Starts, TypeOK, rows
  <1>8. ASSUME NEW w \in Workers, NEW new \in SUBSET Domains, Search(w, new) PROVE Kept
    BY <1>2, <1>8 DEF Search, Starts, TypeOK, rows
  <1>9. ASSUME NEW w \in Workers, NEW x \in Finds, Take(w, x) PROVE Kept
    <2>1. CASE kind[w] # "release scan"
      BY <1>2, <1>9, <2>1 DEF Take, Flags, TypeOK
    <2>2. CASE kind[w] = "release scan"
      <3>1. /\ pc[w] = "telling" /\ pc'[w] = "sending" /\ current'[w] = x
            /\ UNCHANGED <<kind, batch, hist, dated>> /\ soon' = soon \cup {x}
        BY <1>9, <2>2 DEF Take, Flags, TypeOK
      <3>2. \A v \in Workers : kind[v] = "release scan" => v = w
        BY <2>2 DEF OneScan
      <3>3. OneScan'
        BY <3>1 DEF OneScan
      <3>4. RemindedIsFlagged'
        BY <3>1 DEF RemindedIsFlagged
      <3>5. DueIsUnflagged'
        BY <2>2, <3>1, <3>2 DEF DueIsUnflagged, Telling
      <3> QED BY <3>3, <3>4, <3>5
    <2> QED BY <2>1, <2>2
  <1>10. ASSUME NEW w \in Workers, Send(w) PROVE Kept
    <2>0. TellsOwed(w)
      BY <1>10, SendIsOwed
    <2>1. CASE kind[w] # "release scan"
      BY <1>2, <1>10, <2>0, <2>1 DEF Send, TypeOK, TellsOwed
    <2>2. CASE kind[w] = "release scan"
      <3>1. /\ pc[w] = "sending" /\ pc'[w] = "telling" /\ batch'[w] = batch[w] \ {current[w]}
            /\ UNCHANGED <<kind, soon, dated>>
        BY <1>10 DEF Send, TypeOK
      <3>2. \A v \in Workers : kind[v] = "release scan" => v = w
        BY <2>2 DEF OneScan
      <3>3. \A i \in batch[w] : /\ i \in News /\ i \in dated /\ hist.soon[i] = 0
                                /\ i \in soon <=> current[w] = i
        BY <2>2, <3>1 DEF DueIsUnflagged, Telling, TypeOK
      <3>4. hist.soon \in [News -> 0..2] /\ hist'.soon = [hist.soon EXCEPT ![current[w]] = 1]
        BY <2>0, <2>2 DEF TypeOK, TellsOwed
      <3>5. current[w] \in soon
        BY <2>0, <3>3 DEF TellsOwed
      <3>6. OneScan'
        BY <3>1 DEF OneScan
      <3>7. RemindedIsFlagged'
        BY <3>1, <3>4, <3>5 DEF RemindedIsFlagged
      <3>8. \A i \in batch'[w] : i \in dated /\ hist'.soon[i] = 0 /\ i \notin soon
        BY <3>1, <3>3, <3>4
      <3>9. DueIsUnflagged'
        BY <3>1, <3>2, <3>8 DEF DueIsUnflagged
      <3> QED BY <3>6, <3>7, <3>9
    <2> QED BY <2>1, <2>2
  <1>11. CASE Restart
    <2>1. hist'.soon = hist.soon
      BY <1>11, HistKept DEF Restart
    <2> QED BY <1>11, <2>1 DEF Restart, OneScan, RemindedIsFlagged, DueIsUnflagged, Telling, None, rows
  <1>12. CASE UNCHANGED vars
    BY <1>12 DEF vars, rows, worker, OneScan, RemindedIsFlagged, DueIsUnflagged, Telling
  <1> QED BY <1>1, <1>4, <1>5, <1>6, <1>7, <1>8, <1>9, <1>10, <1>11, <1>12 DEF Next, Fails, TakeAny

LEMMA NextFlagged ==
    TypeOK /\ Roles /\ OwedIsUntold /\ ToldIsKnown /\ DueIsUnflagged /\ FlaggedIsTold /\ [Next]_vars
        => FlaggedIsTold'
  <1> SUFFICES ASSUME TypeOK, Roles, OwedIsUntold, ToldIsKnown, DueIsUnflagged, FlaggedIsTold, [Next]_vars
               PROVE  FlaggedIsTold'
    OBVIOUS
  <1> DEFINE Now(v, x) == pc[v] = "sending" /\ kind[v] = "poll" /\ current[v] = x
  \* A coroutine that was not sending, or is still, takes nothing back.
  <1>1. ASSUME NEW w \in Workers, UNCHANGED <<flagged, hist>>, pc[w] # "sending",
               \A v \in Workers : v # w => /\ pc'[v] = pc[v] /\ kind'[v] = kind[v]
                                          /\ current'[v] = current[v]
        PROVE  FlaggedIsTold'
    <2>1. \A v \in Workers, x \in flagged : Now(v, x) => Now(v, x)'
      BY <1>1
    <2> QED BY <1>1, <2>1 DEF FlaggedIsTold
  <1>2. ASSUME NEW w \in Workers, Begins(w) \/ Ingest(w) \/ Fails(w) PROVE FlaggedIsTold'
    <2>1. CASE \E items \in SUBSET News, withDate \in SUBSET News : Poll(w, items, withDate)
      BY <1>1, <2>1 DEF Poll, Starts, TypeOK, rows
    <2>2. CASE \E due \in SUBSET News : LoadReleases(w, due)
      BY <1>1, <2>2 DEF LoadReleases, Starts, TypeOK, rows
    <2>3. CASE \E new \in SUBSET Domains : Search(w, new)
      BY <1>1, <2>3 DEF Search, Starts, TypeOK, rows
    <2>4. CASE Ingest(w)
      BY <1>1, <2>4 DEF Ingest, TypeOK
    <2>5. CASE Fails(w)
      BY <1>1, <2>5 DEF Fails, IngestFails, RecordFails, Stops, TypeOK, rows
    <2> QED BY <1>2, <2>1, <2>2, <2>3, <2>4, <2>5 DEF Begins
  <1>3. ASSUME NEW w \in Workers, RecordAny(w) PROVE FlaggedIsTold'
    <2>1. PICK pinged \in SUBSET Domains : RecordSites(w, pinged)
      BY <1>3 DEF RecordAny
    <2>2. hist'.told = hist.told /\ hist.lost \subseteq hist'.lost /\ UNCHANGED <<flagged, kind, current>>
      BY <2>1, HistKept DEF RecordSites
    <2>3. \A v \in Workers, x \in flagged : Now(v, x) => Now(v, x)'
      BY <2>1, <2>2 DEF RecordSites, TypeOK
    <2> QED BY <2>2, <2>3 DEF FlaggedIsTold
  <1>4. ASSUME NEW w \in Workers, NEW x \in Finds, Take(w, x) PROVE FlaggedIsTold'
    <2>1. \A v \in Workers, y \in flagged : Now(v, y) => Now(v, y)'
      BY <1>4 DEF Take, TypeOK
    <2>2. hist' = hist /\ flagged' = IF kind[w] = "poll" THEN flagged \cup {x} ELSE flagged
      BY <1>4 DEF Take, Flags
    <2>3. kind[w] = "poll" => x \in News /\ Now(w, x)'
      BY <1>4 DEF Take, OwedIsUntold, Telling, TypeOK
    <2> QED BY <2>1, <2>2, <2>3 DEF FlaggedIsTold
  <1>5. ASSUME NEW w \in Workers, Send(w) PROVE FlaggedIsTold'
    <2>0. TellsOwed(w)
      BY <1>5, SendIsOwed
    <2>1. hist.told \in [Finds -> 0..2] /\ hist'.lost = hist.lost /\ flagged \subseteq Finds
      BY <2>0 DEF TypeOK, TellsOwed
    <2>2. ASSUME NEW x \in flagged', hist'.told[x] = 0
          PROVE  x \in flagged /\ hist.told[x] = 0 /\ ~Now(w, x)
      <3>1. x \in Finds
        BY <1>5, <2>1, <2>2 DEF Send, TypeOK, Finds
      <3>2. hist.told[x] = 0 /\ (kind[w] # "release scan" => x # current[w])
        BY <2>0, <2>2, <3>1, UntoldBefore
      <3>3. \A y \in pending[w] : hist.told[y] = 1
        BY DEF ToldIsKnown
      <3>4. x \notin pending[w]
        <4>1. hist.told[x] = 0
          BY <3>2
        <4> QED BY <2>1, <3>1, <3>3, <4>1
      <3>5. flagged' = flagged \cup pending[w]
        BY <1>5 DEF Send
      <3>6. x \in flagged
        BY <2>2, <3>4, <3>5
      <3> QED BY <3>2, <3>6
    <2>3. \A v \in Workers : v # w => pc'[v] = pc[v] /\ kind'[v] = kind[v] /\ current'[v] = current[v]
      BY <1>5 DEF Send, TypeOK
    <2>4. \A v \in Workers, x \in flagged : v # w /\ Now(v, x) => Now(v, x)'
      BY <2>3
    <2> QED BY <2>1, <2>2, <2>4 DEF FlaggedIsTold
  <1>6. ASSUME NEW w \in Workers, Raises(w) PROVE FlaggedIsTold'
    <2>1. /\ hist'.told = hist.told /\ hist'.lost = hist.lost \cup Owed(w) /\ flagged' = flagged
          /\ pc[w] = "sending"
      BY <1>6, HistKept DEF Raises, rows
    <2>2. \A v \in Workers : v # w => pc'[v] = pc[v] /\ kind'[v] = kind[v] /\ current'[v] = current[v]
      BY <1>6 DEF Raises, Stops, TypeOK
    <2>3. \A x : Now(w, x) => x \in Owed(w)
      BY <2>1 DEF Roles, Owed
    <2>4. \A v \in Workers, x \in flagged : Now(v, x) => Now(v, x)' \/ x \in hist'.lost
      BY <2>1, <2>2, <2>3
    <2> QED BY <2>1, <2>4 DEF FlaggedIsTold
  <1>7. ASSUME NEW w \in Workers, End(w) PROVE FlaggedIsTold'
    <2>1. hist' = hist /\ \A x \in flagged' : hist.told[x] = 0 => x \in flagged
      BY <1>7 DEF End, ToldIsKnown
    <2>2. \A v \in Workers, x \in flagged : Now(v, x) => Now(v, x)'
      BY <1>7 DEF End, Stops, TypeOK
    <2> QED BY <2>1, <2>2 DEF FlaggedIsTold
  <1>8. CASE Restart
    <2>1. /\ hist'.told = hist.told /\ flagged' = flagged
          /\ hist'.lost = hist.lost \cup UNION {Owed(w) : w \in Workers}
      BY <1>8, HistKept DEF Restart, rows
    <2>2. \A v \in Workers, x \in flagged : Now(v, x) => x \in Owed(v)
      BY DEF Roles, Owed
    <2> QED BY <2>1, <2>2 DEF FlaggedIsTold
  <1>9. CASE UNCHANGED vars
    BY <1>9 DEF vars, rows, worker, FlaggedIsTold
  <1> QED BY <1>2, <1>3, <1>4, <1>5, <1>6, <1>7, <1>8, <1>9 DEF Next, Begins, Fails, TakeAny

LEMMA NextUntold ==
    TypeOK /\ Roles /\ OwedIsUntold /\ DueIsUnflagged /\ UntoldIsOwed /\ [Next]_vars => UntoldIsOwed'
  <1> SUFFICES ASSUME TypeOK, Roles, OwedIsUntold, DueIsUnflagged, UntoldIsOwed, [Next]_vars
               PROVE  UntoldIsOwed'
    OBVIOUS
  <1>1. ASSUME NEW w \in Workers, Begins(w) \/ Fails(w) \/ TakeAny(w) \/ End(w) PROVE UntoldIsOwed'
    <2>1. \A v \in Workers : v # w => Owed(v)' = Owed(v)
      <3>1. CASE \E items \in SUBSET News, withDate \in SUBSET News : Poll(w, items, withDate)
        BY <3>1 DEF Poll, Starts, TypeOK, Owed
      <3>2. CASE \E due \in SUBSET News : LoadReleases(w, due)
        BY <3>2 DEF LoadReleases, Starts, TypeOK, Owed
      <3>3. CASE \E new \in SUBSET Domains : Search(w, new)
        BY <3>3 DEF Search, Starts, TypeOK, Owed
      <3>4. CASE Stops(w)
        BY <3>4 DEF Stops, TypeOK, Owed
      <3>5. CASE TakeAny(w)
        BY <3>5 DEF TakeAny, Take, TypeOK, Owed
      <3> QED BY <1>1, <3>1, <3>2, <3>3, <3>4, <3>5 DEF Begins, Fails, IngestFails, RecordFails, End
    <2>2. TakeAny(w) \/ Owed(w) = {}
      BY <1>1 DEF Begins, Poll, LoadReleases, Search, Starts, Fails, IngestFails, RecordFails, End, Roles, Owed
    <2>3. TakeAny(w) => Owed(w)' = Owed(w)
      BY DEF TakeAny, Take, TypeOK, Owed
    <2>4. UNCHANGED <<known, hist>>
      BY <1>1 DEF Begins, Poll, LoadReleases, Search, Fails, IngestFails, RecordFails, TakeAny, Take, End, rows
    <2> QED BY <2>1, <2>2, <2>3, <2>4 DEF UntoldIsOwed
  <1>2. ASSUME NEW w \in Workers, Ingest(w) PROVE UntoldIsOwed'
    <2>1. \A v \in Workers : v # w => Owed(v)' = Owed(v)
      BY <1>2 DEF Ingest, TypeOK, Owed
    <2>2. Owed(w) = {} /\ Owed(w)' = known' \ known /\ hist' = hist
      BY <1>2 DEF Ingest, TypeOK, Owed, Roles
    <2> QED BY <2>1, <2>2 DEF UntoldIsOwed
  <1>3. ASSUME NEW w \in Workers, RecordAny(w) PROVE UntoldIsOwed'
    <2>1. PICK pinged \in SUBSET Domains : RecordSites(w, pinged)
      BY <1>3 DEF RecordAny
    <2>2. \A v \in Workers : v # w => Owed(v)' = Owed(v)
      BY <2>1 DEF RecordSites, TypeOK, Owed
    <2>3. Owed(w) = {} /\ Owed(w)' = pinged
      BY <2>1 DEF RecordSites, Roles, TypeOK, Owed
    <2>4. hist'.told = hist.told /\ hist'.lost = hist.lost \cup (batch[w] \ pinged)
      BY <2>1, HistKept DEF RecordSites
    <2>5. known' = known \cup batch[w]
      BY <2>1 DEF RecordSites
    <2> QED BY <2>2, <2>3, <2>4, <2>5 DEF UntoldIsOwed
  <1>4. ASSUME NEW w \in Workers, Send(w) PROVE UntoldIsOwed'
    <2>0. TellsOwed(w)
      BY <1>4, SendIsOwed
    <2>1. \A v \in Workers : v # w => Owed(v)' = Owed(v)
      BY <1>4 DEF Send, TypeOK, Owed
    <2>2. Owed(w)' = Owed(w) \ {current[w]}
      BY <1>4 DEF Send, TypeOK, Owed
    <2>3. hist.told \in [Finds -> 0..2] /\ known' = known /\ known \subseteq Finds /\ hist'.lost = hist.lost
      BY <1>4, <2>0 DEF Send, TypeOK, TellsOwed
    <2>4. ASSUME NEW x \in known', hist'.told[x] = 0
          PROVE  hist.told[x] = 0 /\ (kind[w] # "release scan" => x # current[w])
      BY <2>0, <2>3, <2>4, UntoldBefore
    <2>5. kind[w] = "release scan" => Owed(w) = {}
      BY DEF Owed
    <2> QED BY <2>1, <2>2, <2>3, <2>4, <2>5 DEF UntoldIsOwed
  <1>5. ASSUME NEW w \in Workers, Raises(w) PROVE UntoldIsOwed'
    <2>1. \A v \in Workers : v # w => Owed(v)' = Owed(v)
      BY <1>5 DEF Raises, Stops, TypeOK, Owed
    <2>2. hist'.told = hist.told /\ hist'.lost = hist.lost \cup Owed(w) /\ known' = known
      BY <1>5, HistKept DEF Raises, rows
    <2> QED BY <2>1, <2>2 DEF UntoldIsOwed
  <1>6. CASE Restart
    <2>1. /\ hist'.told = hist.told /\ known' = known
          /\ hist'.lost = hist.lost \cup UNION {Owed(w) : w \in Workers}
      BY <1>6, HistKept DEF Restart, rows
    <2> QED BY <2>1 DEF UntoldIsOwed
  <1>7. CASE UNCHANGED vars
    BY <1>7 DEF vars, rows, worker, UntoldIsOwed, Owed
  <1> QED BY <1>1, <1>2, <1>3, <1>4, <1>5, <1>6, <1>7 DEF Next, Begins, Fails

LEMMA InitInv == Init => Inv
  <1> SUFFICES ASSUME Init PROVE Inv
    OBVIOUS
  <1>1. TypeOK
    BY InitType
  <1>2. Roles /\ OwedIsUntold /\ OwedByOne /\ ToldIsKnown
    BY DEF Init, Roles, OwedIsUntold, OwedByOne, ToldIsKnown, Telling, Owed, NoPage
  <1>3. OneScan /\ RemindedIsFlagged /\ DueIsUnflagged
    BY DEF Init, OneScan, RemindedIsFlagged, DueIsUnflagged, Telling, None
  <1>4. FlaggedIsTold /\ UntoldIsOwed
    BY DEF Init, FlaggedIsTold, UntoldIsOwed
  <1> QED BY <1>1, <1>2, <1>3, <1>4 DEF Inv

LEMMA NextInv == Inv /\ [Next]_vars => Inv'
  BY NextType, NextRoles, NextOwed, NextOwedByOne, NextTold, NextReminded, NextFlagged, NextUntold DEF Inv

\* Values of the variables; only what is stored is flagged, and only what has a
\* release date is reminded of (news/service.py:121-151).
THEOREM TypeCorrect == Spec => []TypeOK
  <1>1. Inv => TypeOK
    BY DEF Inv
  <1> QED BY <1>1, InitInv, NextInv, PTL DEF Spec

\* What is stored and not told is about to be told or is lost in a way the observer
\* names, and the flags do not claim more (news/service.py:104-115,
\* discovery.py:393-401).
THEOREM NothingIsForgotten == Spec => []NothingSlipsThrough
  <1>1. Inv => NothingSlipsThrough
    BY DEF Inv, NothingSlipsThrough, UntoldIsOwed, FlaggedIsTold
  <1> QED BY <1>1, InitInv, NextInv, PTL DEF Spec

-----------------------------------------------------------------------------
(* The refinement.                                                         *)

\* Storing is learning and sending is telling; to the rest nothing happens.
LEMMA StepsOfOnce == Inv /\ [Next]_vars => [Once!Next]_<<known, hist.told>>
  <1> SUFFICES ASSUME Inv, [Next]_vars PROVE [Once!Next]_<<known, hist.told>>
    OBVIOUS
  <1> USE DEF Inv
  <1>1. ASSUME NEW w \in Workers, Begins(w) \/ Fails(w) \/ TakeAny(w) \/ End(w) \/ Raises(w)
        PROVE  UNCHANGED <<known, hist.told>>
    BY <1>1, HistKept DEF Begins, Poll, LoadReleases, Search, Fails, IngestFails, RecordFails,
                          TakeAny, Take, End, Raises, rows
  <1>2. ASSUME NEW w \in Workers, Ingest(w) \/ RecordAny(w) PROVE Once!Next
    <2>1. hist'.told = hist.told
      BY <1>2, HistKept DEF Ingest, RecordAny, RecordSites
    <2>2. PICK some \in SUBSET Finds : known' = known \cup some
      BY <1>2 DEF Ingest, RecordAny, RecordSites, TypeOK, Finds
    <2> QED BY <2>1, <2>2 DEF Once!Next, Once!Learn
  <1>3. ASSUME NEW w \in Workers, Send(w) PROVE [Once!Next]_<<known, hist.told>>
    <2>1. TellsOwed(w) /\ known' = known
      BY <1>3, SendIsOwed DEF Send
    <2>2. CASE kind[w] = "release scan"
      BY <2>1, <2>2 DEF TellsOwed
    <2>3. CASE kind[w] # "release scan"
      BY <2>1, <2>3 DEF TellsOwed, Once!Next, Once!Tell
    <2> QED BY <2>2, <2>3
  <1>4. CASE Restart \/ UNCHANGED vars
    BY <1>4, HistKept DEF Restart, rows, vars
  <1> QED BY <1>1, <1>2, <1>3, <1>4 DEF Next, Begins, Fails

\* Dating a stored item is learning its release, and reminding of it is telling.
LEMMA StepsOfSoonOnce == Inv /\ [Next]_vars => [SoonOnce!Next]_<<dated, hist.soon>>
  <1> SUFFICES ASSUME Inv, [Next]_vars PROVE [SoonOnce!Next]_<<dated, hist.soon>>
    OBVIOUS
  <1> USE DEF Inv
  <1>1. ASSUME NEW w \in Workers, Begins(w) \/ Fails(w) \/ RecordAny(w) \/ TakeAny(w) \/ End(w) \/ Raises(w)
        PROVE  UNCHANGED <<dated, hist.soon>>
    BY <1>1, HistKept DEF Begins, Poll, LoadReleases, Search, Fails, IngestFails, RecordFails,
                          RecordAny, RecordSites, TakeAny, Take, End, Raises, rows
  <1>2. ASSUME NEW w \in Workers, Ingest(w) PROVE SoonOnce!Next
    <2>1. found[w].dated \in SUBSET News
      BY DEF TypeOK
    <2> QED BY <1>2, <2>1 DEF Ingest, SoonOnce!Next, SoonOnce!Learn
  <1>3. ASSUME NEW w \in Workers, Send(w) PROVE [SoonOnce!Next]_<<dated, hist.soon>>
    <2>1. TellsOwed(w) /\ dated' = dated
      BY <1>3, SendIsOwed DEF Send
    <2>2. CASE kind[w] # "release scan"
      BY <2>1, <2>2 DEF TellsOwed
    <2>3. CASE kind[w] = "release scan"
      BY <2>1, <2>3 DEF TellsOwed, SoonOnce!Next, SoonOnce!Tell
    <2> QED BY <2>2, <2>3
  <1>4. CASE Restart \/ UNCHANGED vars
    BY <1>4, HistKept DEF Restart, rows, vars
  <1> QED BY <1>1, <1>2, <1>3, <1>4 DEF Next, Begins, Fails

\* Finders implements AtMostOnce twice: what is stored and told, and what is dated
\* and reminded of (news/service.py:103-151, discovery.py:343-401).
THEOREM TellsOnce == Spec => ToldOnce
  <1>1. Init => Once!Init /\ SoonOnce!Init
    BY DEF Init, Once!Init, SoonOnce!Init
  <1>2. Spec => Once!Spec
    BY <1>1, InitInv, NextInv, StepsOfOnce, PTL DEF Spec, Once!Spec
  <1>3. Spec => SoonOnce!Spec
    BY <1>1, InitInv, NextInv, StepsOfSoonOnce, PTL DEF Spec, SoonOnce!Spec
  <1> QED BY <1>2, <1>3 DEF ToldOnce
=============================================================================
