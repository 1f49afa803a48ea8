--------------------------- MODULE ScannerProofs ---------------------------
(***************************************************************************)
(* Theorems about Scanner for every set of runs, products, pages and prices *)
(* and every flood cap.                                                     *)
(***************************************************************************)
EXTENDS Scanner, TLAPS

\* What the page has shown and the keywords have matched ever since the scanner was
\* pointed at it.
Lasting == Products \ hist.missing

\* The observer misses nothing that leaves the page or the keywords.
GoneIsMissing == Lasting \subseteq Matching(listing[scan.url], scan.wanted)

\* A baseline that no misled run left knows all that was always there.
BaselineKnows ==
    alive /\ scan.baseline_done /\ ~hist.stale => Lasting \subseteq Known(items)

\* What was told is remembered, as long as anything is.
ToldIsKnown == alive => hist.told \subseteq Known(items)

\* A run that is not misled reads the page of the scanner, starts from a baseline
\* that knows what was always there, and announces what was missing and nobody told.
RunIsSound(r) ==
    r \notin hist.misled =>
        /\ pc[r] = "fetching" => mine[r].url = scan.url
        /\ pc[r] \in {"fetching", "comparing"} => Lasting \subseteq mine[r].wanted
        /\ pc[r] \in {"fetching", "comparing", "recording"} /\ mine[r].baseline_done /\ alive =>
              Lasting \subseteq Known(items)
        /\ pc[r] = "comparing" => Lasting \subseteq Shown(page[r])
        /\ pc[r] = "recording" /\ alive => Lasting \subseteq fresh[r] \cup Known(items)
        /\ pc[r] = "announcing" =>
              /\ fresh[r] \subseteq hist.missing /\ fresh[r] \cap hist.told = {}
              /\ alive => fresh[r] \subseteq Known(items)

\* No two of them announce the same product.
RunsAreApart ==
    \A q, r \in Runs \ hist.misled :
        q # r /\ pc[q] = "announcing" /\ pc[r] = "announcing" => fresh[q] \cap fresh[r] = {}

Drops ==
    /\ GoneIsMissing
    /\ BaselineKnows
    /\ ToldIsKnown
    /\ \A r \in Runs : RunIsSound(r)
    /\ RunsAreApart

Inv == TypeOK /\ Drops

-----------------------------------------------------------------------------
(* What the observer notes.                                                *)

Hist == [stale : BOOLEAN, owed : SUBSET Products, told : SUBSET Products,
         lost : SUBSET Products, missing : SUBSET Products, misled : SUBSET Runs]

LEMMA BeginFacts ==
    ASSUME hist \in Hist, NEW r \in Runs, NoteBegin(r)
    PROVE  /\ hist' \in Hist
           /\ hist'.stale = hist.stale /\ hist'.told = hist.told /\ hist'.missing = hist.missing
           /\ r \in hist'.misled <=> hist.stale
           /\ \A q \in Runs : q # r => (q \in hist'.misled <=> q \in hist.misled)
  BY DEF NoteBegin, Hist

LEMMA RecordFacts ==
    ASSUME TypeOK, hist \in Hist, NEW r \in Runs, NoteRecord(r)
    PROVE  /\ hist' \in Hist
           /\ hist'.told = hist.told /\ hist'.missing = hist.missing /\ hist'.misled = hist.misled
           /\ mine[r].baseline_done => hist'.stale = hist.stale
           /\ ~mine[r].baseline_done =>
                (hist'.stale <=> r \in hist.misled /\ (hist.stale \/ ~scan.baseline_done))
  <1> DEFINE stale == IF mine[r].baseline_done THEN hist.stale
                      ELSE r \in hist.misled /\ (hist.stale \/ ~scan.baseline_done)
             owed  == IF mine[r].baseline_done THEN hist.owed \cup fresh[r] ELSE hist.owed
  <1>1. stale \in BOOLEAN
    BY DEF Hist
  <1>2. owed \in SUBSET Products
    BY DEF Hist, TypeOK
  <1>3. hist' = [hist EXCEPT !.stale = stale, !.owed = owed]
    BY DEF NoteRecord, Hist
  <1> HIDE DEF stale, owed
  <1>4. /\ hist' \in Hist /\ hist'.stale = stale
        /\ hist'.told = hist.told /\ hist'.missing = hist.missing /\ hist'.misled = hist.misled
    BY <1>1, <1>2, <1>3 DEF Hist
  <1> QED BY <1>4 DEF stale

LEMMA ToldFacts ==
    ASSUME hist \in Hist, NEW r \in Runs, NEW ps \in SUBSET Products,
           NEW cut \in SUBSET Products, NoteTold(r, ps, cut)
    PROVE  /\ hist' \in Hist
           /\ hist'.stale = hist.stale /\ hist'.missing = hist.missing /\ hist'.misled = hist.misled
           /\ hist'.told = IF r \in hist.misled THEN hist.told ELSE hist.told \cup ps
  BY DEF NoteTold, Hist

LEMMA ListingFacts ==
    ASSUME hist \in Hist, NEW u \in Pages, NEW p \in Products, NEW price, NoteListing(u, p, price)
    PROVE  /\ hist' \in Hist
           /\ hist'.stale = hist.stale /\ hist'.told = hist.told /\ hist'.misled = hist.misled
           /\ hist'.missing = IF u = scan.url /\ price = Nothing THEN hist.missing \cup {p} ELSE hist.missing
  BY DEF NoteListing, Hist

LEMMA MovedFacts ==
    ASSUME TypeOK, NEW u \in Pages, NEW w \in Wordings, NoteMoved(u, w)
    PROVE  /\ hist' \in Hist
           /\ hist'.stale <=> scan.baseline_done /\ ~form.baseline_done
           /\ hist'.told = {} /\ hist'.missing = Products \ Matching(listing[u], w)
           /\ hist'.misled = {r \in Runs : pc[r] # "idle"}
  BY DEF NoteMoved, Hist, TypeOK, Row, Shown

LEMMA RewordedFacts ==
    ASSUME hist \in Hist, NEW w \in Wordings, NoteReworded(w)
    PROVE  /\ hist' \in Hist
           /\ hist'.stale = hist.stale /\ hist'.told = hist.told /\ hist'.misled = hist.misled
           /\ hist'.missing = hist.missing \cup (Products \ w)
  BY DEF NoteReworded, Hist

-----------------------------------------------------------------------------
(* Types.                                                                  *)

LEMMA NewType ==
    /\ NoRow \in Row /\ Blank \in Listing
    /\ \A w \in Wordings : NewRow(w) \in Row /\ NewRow(w).wanted = w
  BY PagesAssumption, WordingsAssumption DEF NoRow, NewRow, Row, Blank, Listing

LEMMA StopType ==
    ASSUME TypeOK, NEW r \in Runs, Stop(r)
    PROVE  /\ mine' \in [Runs -> Row] /\ page' \in [Runs -> Listing] /\ pc' \in [Runs -> Places]
           /\ fresh' \in [Runs -> SUBSET Products] /\ moved' \in [Runs -> SUBSET Products]
           /\ torn' \subseteq Runs
           /\ pc'[r] = "idle" /\ fresh'[r] = {} /\ moved'[r] = {}
           /\ \A q \in Runs : q # r =>
                pc'[q] = pc[q] /\ fresh'[q] = fresh[q] /\ moved'[q] = moved[q]
                /\ mine'[q] = mine[q] /\ page'[q] = page[q]
  BY NewType DEF Stop, TypeOK, Places

LEMMA InitInv == Init => Inv
  <1> SUFFICES ASSUME Init PROVE Inv
    OBVIOUS
  <1>1. TypeOK
    <2>1. /\ mine \in [Runs -> Row] /\ page \in [Runs -> Listing]
          /\ scan \in Row /\ form \in Row /\ items \in Listing /\ listing \in [Pages -> Listing]
      BY NewType DEF Init
    <2>2. /\ fresh \in [Runs -> SUBSET Products] /\ moved \in [Runs -> SUBSET Products]
          /\ pc \in [Runs -> Places] /\ \A r \in Runs : pc[r] = "idle" /\ fresh[r] = {} /\ moved[r] = {}
      BY DEF Init, Places
    <2>3. hist \in [stale : BOOLEAN, owed : SUBSET Products, told : SUBSET Products,
                    lost : SUBSET Products, missing : SUBSET Products, misled : SUBSET Runs]
      BY DEF Init
    <2>4. edits \in 0..MaxEdits /\ crashes \in 0..MaxCrashes
      BY BoundsAssumption DEF Init
    <2> QED BY <2>1, <2>2, <2>3, <2>4 DEF Init, TypeOK
  <1>2. Drops
    BY PagesAssumption, NewType
    DEF Init, Drops, GoneIsMissing, BaselineKnows, ToldIsKnown, RunIsSound, RunsAreApart, Lasting, NewRow, Matching, Shown
  <1> QED BY <1>1, <1>2 DEF Inv

\* What is new on a page is not known; what is repriced is.
LEMMA CompareFacts ==
    ASSUME TypeOK, NEW l \in Listing, NEW w \in SUBSET Products
    PROVE  /\ NewOn(l, w) \in SUBSET Products /\ Repriced(l, w) \in SUBSET Products
           /\ NewOn(l, w) \cap Repriced(l, w) = {}
           /\ NewOn(l, w) \cup Repriced(l, w) \subseteq Shown(l)
           /\ Matching(l, w) \subseteq NewOn(l, w) \cup Known(items)
  BY DEF NewOn, Repriced, Matching, Shown, Known

\* A run that records remembers what it has seen, and forgets nothing.
LEMMA RememberedFacts ==
    ASSUME TypeOK, NEW r \in Runs, pc[r] = "recording", items' = Remembered(r)
    PROVE  items' \in Listing /\ Known(items)' = Known(items) \cup fresh[r] \cup moved[r]
  <1>1. \A p \in Products : page[r][p] \in Prices \cup {Nothing} /\ items[p] \in Prices \cup {Nothing}
    BY DEF TypeOK, Listing
  <1>2. items' \in Listing
    BY <1>1 DEF Remembered, Listing
  <1>3. \A p \in fresh[r] \cup moved[r] : p \in Products /\ page[r][p] # Nothing
    BY DEF TypeOK, Shown
  <1>4. \A p \in Products : items'[p] = IF p \in fresh[r] \cup moved[r] THEN page[r][p] ELSE items[p]
    BY DEF Remembered
  <1>5. \A p \in Products : items'[p] # Nothing <=> items[p] # Nothing \/ p \in fresh[r] \cup moved[r]
    BY <1>3, <1>4 DEF TypeOK, Known
  <1> QED BY <1>2, <1>3, <1>5 DEF Known

LEMMA RunType ==
    ASSUME TypeOK, NEW r \in Runs, Run(r)
    PROVE  TypeOK'
  <1>1. hist \in Hist
    BY DEF TypeOK, Hist
  <1>2. CASE Begin(r)
    <2>1. hist' \in Hist
      BY <1>1, <1>2, BeginFacts DEF Begin
    <2> QED BY <1>2, <2>1 DEF Begin, dialog, TypeOK, Places, Hist
  <1>3. CASE Fetch(r)
    <2>1. page' \in [Runs -> Listing]
      BY <1>3 DEF Fetch, TypeOK, Row
    <2> QED BY <1>3, <2>1 DEF Fetch, dialog, TypeOK, Places
  <1>4. CASE FetchFails(r)
    <2>1. scan' \in Row
      BY <1>4 DEF FetchFails, BaselineAfterFailure, TypeOK, Row
    <2> QED BY <1>4, <2>1, StopType DEF FetchFails, dialog, TypeOK
  <1>5. CASE Compare(r)
    <2>1. page[r] \in Listing /\ mine[r].wanted \in SUBSET Products
      BY DEF TypeOK, Row
    <2>2. /\ fresh'[r] = NewOn(page[r], mine[r].wanted)
          /\ moved'[r] = Repriced(page[r], mine[r].wanted) /\ pc' \in [Runs -> Places]
          /\ fresh' \in [Runs -> SUBSET Products] /\ moved' \in [Runs -> SUBSET Products]
          /\ \A q \in Runs : q # r => fresh'[q] = fresh[q] /\ moved'[q] = moved[q] /\ pc'[q] = pc[q]
      BY <1>5, <2>1, CompareFacts DEF Compare, TypeOK, Places
    <2>3. \A q \in Runs : fresh'[q] \cap moved'[q] = {}
      BY <2>1, <2>2, CompareFacts DEF TypeOK
    <2>4. \A q \in Runs : pc'[q] = "recording" => fresh'[q] \cup moved'[q] \subseteq Shown(page[q])
      BY <2>1, <2>2, CompareFacts DEF TypeOK
    <2> QED BY <1>5, <2>2, <2>3, <2>4 DEF Compare, dialog, TypeOK
  <1>6. CASE Record(r)
    <2>1. hist' \in Hist /\ items' \in Listing
      BY <1>1, <1>6, RecordFacts, RememberedFacts DEF Record
    <2>2. scan' \in Row
      BY <1>6 DEF Record, TypeOK, Row
    <2>3. CASE mine[r].baseline_done
      <3>1. /\ fresh' = [fresh EXCEPT ![r] = FreshToTell(fresh[r])]
            /\ moved' = [moved EXCEPT ![r] = MovedToTell(moved[r])]
            /\ pc' = [pc EXCEPT ![r] = IF fresh[r] = {} THEN "repricing" ELSE "announcing"]
            /\ mine' = [mine EXCEPT ![r] = NoRow] /\ page' = [page EXCEPT ![r] = Blank]
            /\ torn' = torn \ {r}
        BY <1>6, <2>3 DEF Record
      <3>2. FreshToTell(fresh[r]) = fresh[r] /\ MovedToTell(moved[r]) \subseteq moved[r]
        BY DEF FreshToTell, MovedToTell
      <3>3. /\ fresh' \in [Runs -> SUBSET Products] /\ moved' \in [Runs -> SUBSET Products]
            /\ pc' \in [Runs -> Places] /\ mine' \in [Runs -> Row] /\ page' \in [Runs -> Listing]
        BY <3>1, <3>2, NewType DEF TypeOK, Places
      <3>4. \A q \in Runs : fresh'[q] \cap moved'[q] = {}
        BY <3>1, <3>2 DEF TypeOK
      <3>5. \A q \in Runs : pc'[q] = "recording" => fresh'[q] \cup moved'[q] \subseteq Shown(page'[q])
        BY <3>1, <3>2 DEF TypeOK
      <3> QED BY <1>6, <2>1, <2>2, <3>1, <3>3, <3>4, <3>5 DEF Record, dialog, TypeOK, Hist, Shown
    <2>4. CASE ~mine[r].baseline_done
      <3>1. Stop(r)
        BY <1>6, <2>4 DEF Record
      <3> QED BY <1>6, <2>1, <2>2, <3>1, StopType DEF Record, dialog, TypeOK, Hist, Shown
    <2> QED BY <2>3, <2>4
  <1>7. CASE RecordFails(r)
    BY <1>7, StopType DEF RecordFails, dialog, TypeOK
  <1>8. CASE AnnounceEach(r) \/ AnnounceFlood(r)
    <2>1. PICK ps \in SUBSET Products, cut \in SUBSET Products :
            fresh' = [fresh EXCEPT ![r] = fresh[r] \ (ps \cup cut)] /\ NoteTold(r, ps, cut)
      <3>1. CASE AnnounceEach(r)
        <4>1. PICK p \in fresh[r] :
                fresh' = [fresh EXCEPT ![r] = fresh[r] \ {p}] /\ NoteTold(r, {p}, {})
          BY <3>1 DEF AnnounceEach
        <4>2. {p} \in SUBSET Products /\ {} \in SUBSET Products /\ {p} \cup {} = {p}
          BY DEF TypeOK
        <4> QED BY <4>1, <4>2
      <3>2. CASE AnnounceFlood(r)
        <4>1. PICK named \in SUBSET fresh[r] : NoteTold(r, named, fresh[r] \ named)
          BY <3>2 DEF AnnounceFlood
        <4>2. fresh[r] \subseteq Products /\ fresh' = [fresh EXCEPT ![r] = {}]
          BY <3>2 DEF AnnounceFlood, TypeOK
        <4>3. /\ fresh[r] \ (named \cup (fresh[r] \ named)) = {}
              /\ named \in SUBSET Products /\ fresh[r] \ named \in SUBSET Products
          BY <4>2
        <4> QED BY <4>1, <4>2, <4>3
      <3> QED BY <1>8, <3>1, <3>2
    <2>2. hist' \in Hist
      BY <1>1, <2>1, ToldFacts
    <2>3. fresh' \in [Runs -> SUBSET Products] /\ \A q \in Runs : fresh'[q] \subseteq fresh[q]
      BY <2>1 DEF TypeOK
    <2>4. UNCHANGED <<scan, alive, items, pc, mine, page, moved, torn, dialog, listing, crashes>>
      BY <1>8 DEF AnnounceEach, AnnounceFlood
    <2> QED BY <2>2, <2>3, <2>4 DEF dialog, TypeOK, Hist
  <1>9. CASE AnnouncePrice(r)
    <2>1. moved' \in [Runs -> SUBSET Products] /\ \A q \in Runs : moved'[q] \subseteq moved[q]
      BY <1>9 DEF AnnouncePrice, TypeOK
    <2> QED BY <1>9, <2>1 DEF AnnouncePrice, dialog, TypeOK
  <1>10. CASE Finish(r)
    BY <1>10, StopType DEF Finish, dialog, TypeOK
  <1>11. CASE SpeakFails(r)
    <2>1. {} \in SUBSET Products /\ fresh[r] \in SUBSET Products
      BY DEF TypeOK
    <2>2. hist' \in Hist
      BY <1>1, <1>11, <2>1, ToldFacts DEF SpeakFails
    <2> QED BY <1>11, <2>2, StopType DEF SpeakFails, dialog, TypeOK, Hist
  <1> QED BY <1>2, <1>3, <1>4, <1>5, <1>6, <1>7, <1>8, <1>9, <1>10, <1>11 DEF Run, Speak

LEMMA NextType ==
    ASSUME TypeOK, [Next]_vars
    PROVE  TypeOK'
  <1>1. hist \in Hist
    BY DEF TypeOK, Hist
  <1>2. CASE \E r \in Runs : Run(r)
    BY <1>2, RunType
  <1>3. CASE OpenForm
    <2>1. edits' \in 0..MaxEdits
      BY <1>3, BoundsAssumption DEF OpenForm, TypeOK
    <2> QED BY <1>3, <2>1 DEF OpenForm, runs, TypeOK
  <1>4. ASSUME NEW u \in Pages, NEW w \in Wordings, UpdateScan(u, w) PROVE TypeOK'
    <2>0. w \in SUBSET Products
      BY WordingsAssumption
    <2>1. CASE u = form.url
      <3>1. hist' \in Hist /\ scan' \in Row
        BY <1>1, <1>4, <2>0, <2>1, RewordedFacts DEF UpdateScan, TypeOK, Row
      <3> QED BY <1>4, <2>1, <3>1, NewType DEF UpdateScan, Close, TypeOK, Hist
    <2>2. CASE u # form.url
      <3>1. hist' \in Hist
        BY <1>1, <1>4, <2>0, <2>2, MovedFacts DEF UpdateScan
      <3>2. items' \in Listing
        BY <1>4, <2>2, NewType DEF UpdateScan
      <3>3. scan' \in Row
        BY <1>4, <2>0, <2>2 DEF UpdateScan, TypeOK, Row
      <3>4. torn' \subseteq Runs
        BY <1>4, <2>2 DEF UpdateScan, TypeOK, TornNow
      <3> QED BY <1>4, <2>2, <3>1, <3>2, <3>3, <3>4, NewType DEF UpdateScan, Close, TypeOK, Hist
    <2> QED BY <2>1, <2>2
  <1>5. CASE ToggleScan
    <2>1. scan' \in Row
      BY <1>5 DEF ToggleScan, TypeOK, Row
    <2> QED BY <1>5, <2>1, NewType DEF ToggleScan, Close, runs, TypeOK
  <1>6. CASE DeleteScan
    BY <1>6, NewType DEF DeleteScan, Close, TornNow, TypeOK
  <1>7. CASE ShopMoves
    <2>1. PICK u \in Pages, p \in Products, price \in Prices \cup {Nothing} :
              /\ listing' = [listing EXCEPT ![u][p] = price]
              /\ NoteListing(u, p, price)
              /\ UNCHANGED <<scan, alive, items, runs, dialog, crashes>>
      BY <1>7 DEF ShopMoves
    <2>2. listing' \in [Pages -> Listing]
      BY <2>1 DEF TypeOK, Listing
    <2> QED BY <1>1, <2>1, <2>2, ListingFacts DEF runs, dialog, TypeOK, Hist
  <1>8. CASE Crash
    <2>1. hist' \in Hist
      BY <1>1, <1>8 DEF Crash, Hist
    <2>2. /\ mine' \in [Runs -> Row] /\ page' \in [Runs -> Listing] /\ form' \in Row
          /\ fresh' \in [Runs -> SUBSET Products] /\ moved' \in [Runs -> SUBSET Products]
          /\ pc' \in [Runs -> Places] /\ crashes' \in 0..MaxCrashes /\ edits' = edits /\ formOpen' = FALSE
          /\ \A r \in Runs : pc'[r] = "idle" /\ fresh'[r] = {} /\ moved'[r] = {}
      BY <1>8, NewType, BoundsAssumption DEF Crash, Close, TypeOK, Places
    <2> QED BY <1>8, <2>1, <2>2 DEF Crash, TypeOK, Hist
  <1>9. CASE UNCHANGED vars
    BY <1>9 DEF vars, runs, dialog, TypeOK
  <1> QED BY <1>2, <1>3, <1>4, <1>5, <1>6, <1>7, <1>8, <1>9 DEF Next, Dashboard

-----------------------------------------------------------------------------
(* Drops are real.                                                          *)

\* A run that stands where it stood stays sound while the page is the same, what
\* was absent stays so, and the memory grows or goes with the scanner.
LEMMA SoundKept ==
    ASSUME NEW r \in Runs, RunIsSound(r),
           r \notin hist'.misled => r \notin hist.misled /\ scan'.url = scan.url,
           pc'[r] = pc[r], mine'[r] = mine[r], page'[r] = page[r], fresh'[r] = fresh[r],
           hist.missing \subseteq hist'.missing,
           alive' => alive /\ Known(items) \subseteq Known(items)',
           r \notin hist'.misled /\ pc[r] = "announcing" => fresh[r] \cap hist'.told = {}
    PROVE  RunIsSound(r)'
  <1> SUFFICES ASSUME r \notin hist'.misled PROVE RunIsSound(r)'
    BY DEF RunIsSound
  <1>1. r \notin hist.misled /\ Lasting' \subseteq Lasting /\ scan'.url = scan.url
    BY DEF Lasting
  <1>2. /\ pc'[r] = "fetching" => mine'[r].url = scan'.url
        /\ pc'[r] \in {"fetching", "comparing"} => Lasting' \subseteq mine'[r].wanted
    BY <1>1 DEF RunIsSound
  <1>3. pc'[r] \in {"fetching", "comparing", "recording"} /\ mine'[r].baseline_done /\ alive' =>
            Lasting' \subseteq Known(items)'
    BY <1>1 DEF RunIsSound
  <1>4. pc'[r] = "comparing" => Lasting' \subseteq Shown(page[r])
    BY <1>1 DEF RunIsSound
  <1>5. pc'[r] = "recording" /\ alive' => Lasting' \subseteq fresh'[r] \cup Known(items)'
    BY <1>1 DEF RunIsSound
  <1>6. pc'[r] = "announcing" =>
            /\ fresh'[r] \subseteq hist'.missing /\ fresh'[r] \cap hist'.told = {}
            /\ alive' => fresh'[r] \subseteq Known(items)'
    BY <1>1 DEF RunIsSound
  <1> QED BY <1>2, <1>3, <1>4, <1>5, <1>6 DEF RunIsSound, Shown

\* A run that rests is sound.
LEMMA IdleIsSound ==
    ASSUME NEW r \in Runs, pc'[r] \in {"idle", "repricing"}
    PROVE  RunIsSound(r)'
  BY DEF RunIsSound

\* Only r moves, and nothing is remembered or told; what is sound of r is left to
\* show, and that it does not start to announce.
LEMMA QuietStep ==
    ASSUME Inv, NEW r \in Runs, hist' \in Hist,
           UNCHANGED <<alive, items, listing>>,
           scan'.url = scan.url, scan'.wanted = scan.wanted,
           scan'.baseline_done = scan.baseline_done,
           hist'.stale = hist.stale, hist'.told = hist.told, hist'.missing = hist.missing,
           \A q \in Runs : q # r =>
             /\ pc'[q] = pc[q] /\ mine'[q] = mine[q] /\ page'[q] = page[q] /\ fresh'[q] = fresh[q]
             /\ q \in hist'.misled <=> q \in hist.misled,
           pc'[r] # "announcing", RunIsSound(r)'
    PROVE  Drops'
  <1>1. GoneIsMissing' /\ BaselineKnows' /\ ToldIsKnown'
    BY DEF Inv, Drops, GoneIsMissing, BaselineKnows, ToldIsKnown, Lasting, Known, Matching, Shown
  <1>2. Known(items)' = Known(items)
    BY DEF Known
  <1>3. ASSUME NEW q \in Runs, q # r PROVE RunIsSound(q)'
    <2>1. q \notin hist.misled /\ pc[q] = "announcing" => fresh[q] \cap hist.told = {}
      BY DEF Inv, Drops, RunIsSound
    <2>2. RunIsSound(q)
      BY DEF Inv, Drops
    <2> QED BY <1>2, <1>3, <2>1, <2>2, SoundKept
  <1>4. RunsAreApart'
    BY DEF Inv, Drops, RunsAreApart
  <1> QED BY <1>1, <1>3, <1>4 DEF Drops

LEMMA BeginSound ==
    ASSUME Inv, NEW r \in Runs, Begin(r)
    PROVE  Drops'
  <1>1. TypeOK /\ Drops /\ hist \in Hist
    BY DEF Inv, TypeOK, Hist
  <1>2. /\ hist' \in Hist
        /\ hist'.stale = hist.stale /\ hist'.told = hist.told /\ hist'.missing = hist.missing
        /\ r \in hist'.misled <=> hist.stale
        /\ \A q \in Runs : q # r => (q \in hist'.misled <=> q \in hist.misled)
    BY <1>1, BeginFacts DEF Begin
  <1>3. /\ pc'[r] = "fetching" /\ mine'[r] = scan /\ scan' = scan /\ alive /\ alive' = alive /\ items' = items
        /\ \A q \in Runs : q # r =>
             pc'[q] = pc[q] /\ mine'[q] = mine[q] /\ page'[q] = page[q] /\ fresh'[q] = fresh[q]
    BY <1>1 DEF Begin, TypeOK
  <1>4. RunIsSound(r)'
    BY <1>1, <1>2, <1>3 DEF Drops, GoneIsMissing, BaselineKnows, RunIsSound, Lasting, Known, Matching
  <1> QED BY <1>2, <1>3, <1>4, QuietStep DEF Begin

LEMMA FetchSound ==
    ASSUME Inv, NEW r \in Runs, Fetch(r)
    PROVE  Drops'
  <1>1. TypeOK /\ Drops /\ hist \in Hist
    BY DEF Inv, TypeOK, Hist
  <1>2. /\ pc[r] = "fetching" /\ pc'[r] = "comparing" /\ page'[r] = listing[mine[r].url] /\ mine' = mine
        /\ alive' = alive /\ items' = items /\ scan' = scan /\ hist' = hist
        /\ \A q \in Runs : q # r =>
             pc'[q] = pc[q] /\ mine'[q] = mine[q] /\ page'[q] = page[q] /\ fresh'[q] = fresh[q]
    BY <1>1 DEF Fetch, TypeOK
  <1>3. RunIsSound(r)'
    <2>1. RunIsSound(r) /\ GoneIsMissing
      BY <1>1 DEF Drops
    <2>2. Lasting' = Lasting /\ Known(items)' = Known(items)
      BY <1>2 DEF Lasting, Known
    <2>3. r \notin hist.misled => Lasting \subseteq Shown(listing[mine[r].url])
      BY <1>2, <2>1 DEF RunIsSound, GoneIsMissing, Matching
    <2>4. Shown(listing[mine[r].url]) = Shown(page[r])'
      BY <1>2 DEF Shown
    <2> QED BY <1>2, <2>1, <2>2, <2>3, <2>4 DEF RunIsSound
  <1> QED BY <1>1, <1>2, <1>3, QuietStep DEF Fetch

LEMMA CompareSound ==
    ASSUME Inv, NEW r \in Runs, Compare(r)
    PROVE  Drops'
  <1>1. TypeOK /\ Drops /\ hist \in Hist
    BY DEF Inv, TypeOK, Hist
  <1>2. /\ pc[r] = "comparing" /\ pc'[r] = "recording" /\ mine' = mine
        /\ fresh'[r] = NewOn(page[r], mine[r].wanted)
        /\ alive' = alive /\ items' = items /\ scan' = scan /\ hist' = hist /\ page' = page
        /\ \A q \in Runs : q # r => pc'[q] = pc[q] /\ fresh'[q] = fresh[q]
    BY <1>1 DEF Compare, TypeOK
  <1>3. RunIsSound(r)'
    <2>1. RunIsSound(r)
      BY <1>1 DEF Drops
    <2>2. Lasting' = Lasting /\ Known(items)' = Known(items)
      BY <1>2 DEF Lasting, Known
    <2>3. Matching(page[r], mine[r].wanted)
            \subseteq NewOn(page[r], mine[r].wanted) \cup Known(items)
      BY <1>1, CompareFacts DEF TypeOK, Row
    <2> QED BY <1>2, <2>1, <2>2, <2>3 DEF RunIsSound, Matching
  <1> QED BY <1>1, <1>2, <1>3, QuietStep DEF Compare

\* A run that stops says no more.
LEMMA StopSound ==
    ASSUME Inv, NEW r \in Runs,
           FetchFails(r) \/ RecordFails(r) \/ Finish(r) \/ SpeakFails(r)
    PROVE  Drops'
  <1>1. TypeOK /\ hist \in Hist
    BY DEF Inv, TypeOK, Hist
  <1>2. Stop(r) /\ UNCHANGED <<alive, items, listing>>
    BY DEF FetchFails, RecordFails, Finish, SpeakFails
  <1>3. /\ scan'.url = scan.url /\ scan'.wanted = scan.wanted
        /\ scan'.baseline_done = scan.baseline_done
    BY <1>1 DEF FetchFails, RecordFails, Finish, SpeakFails, BaselineAfterFailure, TypeOK, Row
  <1>6. /\ hist' \in Hist
        /\ hist'.stale = hist.stale /\ hist'.told = hist.told
        /\ hist'.missing = hist.missing /\ hist'.misled = hist.misled
    <2>1. CASE SpeakFails(r)
      <3>1. NoteTold(r, {}, fresh[r]) /\ fresh[r] \in SUBSET Products /\ {} \in SUBSET Products
        BY <1>1, <2>1 DEF SpeakFails, TypeOK
      <3> QED BY <1>1, <3>1, ToldFacts
    <2>2. CASE ~SpeakFails(r)
      BY <1>1, <2>2 DEF FetchFails, RecordFails, Finish
    <2> QED BY <2>1, <2>2
  <1>4. /\ pc'[r] = "idle"
        /\ \A q \in Runs : q # r =>
             pc'[q] = pc[q] /\ mine'[q] = mine[q] /\ page'[q] = page[q] /\ fresh'[q] = fresh[q]
    BY <1>1, <1>2, StopType
  <1>5. RunIsSound(r)'
    BY <1>4, IdleIsSound
  <1> QED BY <1>1, <1>2, <1>3, <1>4, <1>5, <1>6, QuietStep

\* What is recorded as new was missing once, and nobody else tells of it.
LEMMA RecordSound ==
    ASSUME Inv, NEW r \in Runs, Record(r)
    PROVE  Drops'
  <1>1. TypeOK /\ Drops /\ hist \in Hist
    BY DEF Inv, TypeOK, Hist
  <1>2. /\ pc[r] = "recording" /\ alive /\ alive' /\ listing' = listing
        /\ fresh[r] \cap Known(items) = {}
    BY DEF Record, Clashes
  <1>3. Known(items)' = Known(items) \cup fresh[r] \cup moved[r]
    BY <1>1, <1>2, RememberedFacts DEF Record
  <1>4. /\ scan'.url = scan.url /\ scan'.wanted = scan.wanted
        /\ scan'.baseline_done <=> scan.baseline_done \/ ~mine[r].baseline_done
    BY <1>1 DEF Record, TypeOK, Row
  <1>5. /\ hist' \in Hist
        /\ hist'.told = hist.told /\ hist'.missing = hist.missing /\ hist'.misled = hist.misled
        /\ mine[r].baseline_done => hist'.stale = hist.stale
        /\ ~mine[r].baseline_done =>
             (hist'.stale <=> r \in hist.misled /\ (hist.stale \/ ~scan.baseline_done))
    BY <1>1, RecordFacts DEF Record
  <1>6. /\ pc'[r] \in {"idle", "repricing"} \/ (pc'[r] = "announcing" /\ mine[r].baseline_done /\ fresh'[r] = fresh[r])
        /\ \A q \in Runs : q # r =>
             pc'[q] = pc[q] /\ mine'[q] = mine[q] /\ page'[q] = page[q] /\ fresh'[q] = fresh[q]
    <2>1. CASE mine[r].baseline_done
      BY <1>1, <2>1 DEF Record, FreshToTell, TypeOK
    <2>2. CASE ~mine[r].baseline_done
      <3>1. Stop(r)
        BY <2>2 DEF Record
      <3> QED BY <1>1, <3>1, StopType
    <2> QED BY <2>1, <2>2
  <1>7. Lasting' = Lasting
    BY <1>5 DEF Lasting
  <1>8. GoneIsMissing'
    BY <1>1, <1>2, <1>4, <1>7 DEF Drops, GoneIsMissing, Matching, Shown
  <1>9. ToldIsKnown'
    BY <1>1, <1>2, <1>3, <1>5 DEF Drops, ToldIsKnown
  <1>10. RunIsSound(r)
    BY <1>1 DEF Drops
  <1>11. BaselineKnows'
    <2>1. CASE r \notin hist.misled
      BY <1>2, <1>3, <1>7, <1>10, <2>1 DEF RunIsSound, BaselineKnows
    <2>2. CASE r \in hist.misled
      BY <1>1, <1>2, <1>3, <1>4, <1>5, <1>7, <2>2 DEF Drops, BaselineKnows
    <2> QED BY <2>1, <2>2
  <1>12. RunIsSound(r)'
    <2>1. CASE pc'[r] \in {"idle", "repricing"}
      BY <2>1, IdleIsSound
    <2>2. CASE pc'[r] = "announcing" /\ r \notin hist.misled
      <3>1. fresh[r] \subseteq Products /\ hist.told \subseteq Known(items) /\ Lasting \subseteq Known(items)
        BY <1>1, <1>2, <1>6, <1>10, <2>2 DEF TypeOK, Drops, ToldIsKnown, RunIsSound
      <3>2. fresh[r] \subseteq hist.missing /\ fresh[r] \cap hist.told = {}
        BY <1>2, <3>1 DEF Lasting
      <3> QED BY <1>2, <1>3, <1>5, <1>6, <2>2, <3>2 DEF RunIsSound
    <2> QED BY <1>5, <1>6, <2>1, <2>2 DEF RunIsSound
  <1>13. ASSUME NEW q \in Runs, q # r PROVE RunIsSound(q)'
    <2>1. RunIsSound(q)
      BY <1>1 DEF Drops
    <2>2. q \notin hist.misled /\ pc[q] = "announcing" => fresh[q] \cap hist.told = {}
      BY <2>1 DEF RunIsSound
    <2>3. alive' => alive /\ Known(items) \subseteq Known(items)'
      BY <1>2, <1>3
    <2> QED BY <1>4, <1>5, <1>6, <1>13, <2>1, <2>2, <2>3, SoundKept
  <1>14. RunsAreApart'
    <2>1. ASSUME NEW q \in Runs \ hist.misled, q # r, pc[q] = "announcing", pc'[r] = "announcing"
          PROVE  fresh[q] \cap fresh[r] = {}
      <3>1. fresh[q] \subseteq Known(items)
        BY <1>1, <1>2, <2>1 DEF Drops, RunIsSound
      <3> QED BY <1>2, <3>1
    <2>2. ASSUME NEW q \in Runs \ hist.misled, NEW p \in Runs \ hist.misled, q # p,
                 pc'[q] = "announcing", pc'[p] = "announcing"
          PROVE  fresh'[q] \cap fresh'[p] = {}
      <3>1. CASE q = r
        BY <1>6, <2>1, <2>2, <3>1
      <3>2. CASE p = r
        BY <1>6, <2>1, <2>2, <3>2
      <3>3. CASE q # r /\ p # r
        BY <1>1, <1>6, <2>2, <3>3 DEF Drops, RunsAreApart
      <3> QED BY <3>1, <3>2, <3>3
    <2> QED BY <1>5, <2>2 DEF RunsAreApart
  <1> QED BY <1>8, <1>9, <1>11, <1>12, <1>13, <1>14 DEF Drops

\* One step of announcing: some of what the run holds is told or cut off, and no
\* longer held.
Tells(r, ps, cut) ==
    /\ pc[r] = "announcing" /\ ps \subseteq fresh[r]
    /\ fresh' = [fresh EXCEPT ![r] = fresh[r] \ (ps \cup cut)]
    /\ NoteTold(r, ps, cut)
    /\ UNCHANGED <<scan, alive, items, pc, mine, page, moved, torn, dialog, listing, crashes>>

LEMMA AnnounceTells ==
    ASSUME TypeOK, NEW r \in Runs, AnnounceEach(r) \/ AnnounceFlood(r)
    PROVE  \E ps, cut \in SUBSET Products : Tells(r, ps, cut)
  <1>0. fresh[r] \subseteq Products
    BY DEF TypeOK
  <1>1. CASE AnnounceEach(r)
    <2>1. PICK p \in fresh[r] :
            fresh' = [fresh EXCEPT ![r] = fresh[r] \ {p}] /\ NoteTold(r, {p}, {})
      BY <1>1 DEF AnnounceEach
    <2>2. {p} \cup {} = {p} /\ {p} \in SUBSET Products /\ {} \in SUBSET Products
      BY <1>0
    <2>3. Tells(r, {p}, {})
      BY <1>1, <2>1, <2>2 DEF AnnounceEach, Tells
    <2> QED BY <2>2, <2>3
  <1>2. CASE AnnounceFlood(r)
    <2>1. PICK named \in SUBSET fresh[r] : NoteTold(r, named, fresh[r] \ named)
      BY <1>2 DEF AnnounceFlood
    <2>2. /\ fresh[r] \ (named \cup (fresh[r] \ named)) = {}
          /\ named \in SUBSET Products /\ fresh[r] \ named \in SUBSET Products
      BY <1>0
    <2>3. Tells(r, named, fresh[r] \ named)
      BY <1>2, <2>1, <2>2 DEF AnnounceFlood, Tells
    <2> QED BY <2>2, <2>3
  <1> QED BY <1>1, <1>2

LEMMA TellsSound ==
    ASSUME Inv, NEW r \in Runs, NEW ps \in SUBSET Products,
           NEW cut \in SUBSET Products, Tells(r, ps, cut)
    PROVE  Drops'
  <1>1. TypeOK /\ Drops /\ hist \in Hist
    BY DEF Inv, TypeOK, Hist
  <1>2. /\ pc[r] = "announcing" /\ ps \subseteq fresh[r] /\ fresh'[r] = fresh[r] \ (ps \cup cut)
        /\ \A q \in Runs : q # r => fresh'[q] = fresh[q]
        /\ UNCHANGED <<scan, alive, items, pc, mine, page, listing>>
    BY <1>1 DEF Tells, TypeOK
  <1>3. /\ hist' \in Hist
        /\ hist'.stale = hist.stale /\ hist'.missing = hist.missing /\ hist'.misled = hist.misled
        /\ hist'.told = IF r \in hist.misled THEN hist.told ELSE hist.told \cup ps
    BY <1>1, ToldFacts DEF Tells
  <1>4. Lasting' = Lasting /\ Known(items)' = Known(items) /\ RunIsSound(r)
    BY <1>1, <1>2, <1>3 DEF Lasting, Known, Drops
  <1>5. GoneIsMissing' /\ BaselineKnows'
    BY <1>1, <1>2, <1>3, <1>4 DEF Drops, GoneIsMissing, BaselineKnows, Matching, Shown
  <1>6. ToldIsKnown'
    BY <1>1, <1>2, <1>3, <1>4 DEF Drops, ToldIsKnown, RunIsSound
  <1>7. RunIsSound(r)'
    BY <1>2, <1>3, <1>4 DEF RunIsSound
  <1>8. ASSUME NEW q \in Runs, q # r PROVE RunIsSound(q)'
    <2>1. RunIsSound(q)
      BY <1>1 DEF Drops
    <2>2. q \notin hist.misled /\ pc[q] = "announcing" => fresh[q] \cap hist'.told = {}
      BY <1>1, <1>2, <1>3, <1>8, <2>1 DEF RunIsSound, Drops, RunsAreApart
    <2> QED BY <1>2, <1>3, <1>4, <1>8, <2>1, <2>2, SoundKept
  <1>9. RunsAreApart'
    <2>1. \A q \in Runs : fresh'[q] \subseteq fresh[q]
      BY <1>2
    <2> QED BY <1>1, <1>2, <1>3, <2>1 DEF Drops, RunsAreApart
  <1> QED BY <1>5, <1>6, <1>7, <1>8, <1>9 DEF Drops

LEMMA RunSound ==
    ASSUME Inv, NEW r \in Runs, Run(r)
    PROVE  Drops'
  <1>1. CASE Begin(r) \/ Fetch(r) \/ Compare(r) \/ Record(r)
    BY <1>1, BeginSound, FetchSound, CompareSound, RecordSound
  <1>2. CASE FetchFails(r) \/ RecordFails(r) \/ Finish(r) \/ SpeakFails(r)
    BY <1>2, StopSound
  <1>3. CASE AnnounceEach(r) \/ AnnounceFlood(r)
    BY <1>3, AnnounceTells, TellsSound DEF Inv
  <1>4. CASE AnnouncePrice(r)
    <2>1. UNCHANGED <<scan, alive, items, pc, mine, page, fresh, listing, hist>> /\ hist' \in Hist
      BY <1>4 DEF AnnouncePrice, Inv, TypeOK, Hist
    <2>2. \A q \in Runs : RunIsSound(q)'
      BY <2>1 DEF Inv, Drops, RunIsSound, Lasting, Known, Shown
    <2> QED BY <2>1, <2>2
        DEF Inv, Drops, GoneIsMissing, BaselineKnows, ToldIsKnown, RunsAreApart, Lasting, Known,
            Matching, Shown
  <1> QED BY <1>1, <1>2, <1>3, <1>4 DEF Run, Speak

\* Pointed at another page everything starts anew, and who is under way is misled.
LEMMA MoveSound ==
    ASSUME Inv, NEW u \in Pages, NEW w \in Wordings, UpdateScan(u, w), u # form.url
    PROVE  Drops'
  <1>1. TypeOK
    BY DEF Inv
  <1>2. /\ hist'.stale <=> scan.baseline_done /\ ~form.baseline_done
        /\ hist'.told = {} /\ hist'.missing = Products \ Matching(listing[u], w)
        /\ hist'.misled = {r \in Runs : pc[r] # "idle"}
    BY <1>1, MovedFacts DEF UpdateScan
  <1>3. /\ scan'.url = u /\ scan'.wanted = w /\ listing' = listing /\ pc' = pc
        /\ scan'.baseline_done <=> scan.baseline_done /\ ~form.baseline_done
    BY <1>1 DEF UpdateScan, TypeOK, Row
  <1>4. GoneIsMissing' /\ BaselineKnows' /\ ToldIsKnown'
    BY <1>2, <1>3 DEF GoneIsMissing, BaselineKnows, ToldIsKnown, Lasting, Matching, Shown
  <1>5. \A r \in Runs : RunIsSound(r)'
    BY <1>2, <1>3 DEF RunIsSound
  <1>6. RunsAreApart'
    BY <1>2, <1>3 DEF RunsAreApart
  <1> QED BY <1>4, <1>5, <1>6 DEF Drops

\* The runs stand where they stood, and so do the page and what was told.
LEMMA AroundSound ==
    ASSUME Inv, UNCHANGED <<pc, mine, page, fresh>>,
           scan'.url = scan.url, scan'.baseline_done = scan.baseline_done,
           hist'.stale = hist.stale, hist'.told = hist.told, hist'.misled = hist.misled,
           hist.missing \subseteq hist'.missing,
           alive' => alive /\ items' = items,
           GoneIsMissing'
    PROVE  Drops'
  <1>1. Lasting' \subseteq Lasting /\ (alive' => Known(items)' = Known(items))
    BY DEF Lasting, Known
  <1>2. BaselineKnows' /\ ToldIsKnown'
    BY <1>1 DEF Inv, Drops, BaselineKnows, ToldIsKnown
  <1>3. ASSUME NEW q \in Runs PROVE RunIsSound(q)'
    <2>1. RunIsSound(q)
      BY DEF Inv, Drops
    <2>2. q \notin hist.misled /\ pc[q] = "announcing" => fresh[q] \cap hist.told = {}
      BY <2>1 DEF RunIsSound
    <2> QED BY <1>1, <2>1, <2>2, SoundKept
  <1>4. RunsAreApart'
    BY DEF Inv, Drops, RunsAreApart
  <1> QED BY <1>2, <1>3, <1>4 DEF Drops

LEMMA NextSound ==
    ASSUME Inv, [Next]_vars
    PROVE  Drops'
  <1>1. TypeOK /\ hist \in Hist /\ GoneIsMissing
    BY DEF Inv, TypeOK, Hist, Drops
  <1>2. CASE \E r \in Runs : Run(r)
    BY <1>2, RunSound
  <1>3. ASSUME NEW u \in Pages, NEW w \in Wordings, UpdateScan(u, w) PROVE Drops'
    <2>1. CASE u # form.url
      BY <1>3, <2>1, MoveSound
    <2>2. CASE u = form.url
      <3>1. UNCHANGED <<alive, items, pc, mine, page, fresh, listing>> /\ NoteReworded(w)
        BY <1>3, <2>2 DEF UpdateScan
      <3>2. /\ scan'.url = scan.url /\ scan'.wanted = w
            /\ scan'.baseline_done = scan.baseline_done
        BY <1>1, <1>3, <2>2 DEF UpdateScan, TypeOK, Row
      <3>3. /\ hist'.stale = hist.stale /\ hist'.told = hist.told /\ hist'.misled = hist.misled
            /\ hist'.missing = hist.missing \cup (Products \ w)
        BY <1>1, <3>1, RewordedFacts
      <3>4. GoneIsMissing'
        BY <1>1, <3>1, <3>2, <3>3 DEF GoneIsMissing, Lasting, Matching, Shown
      <3> QED BY <3>1, <3>2, <3>3, <3>4, AroundSound
    <2> QED BY <2>1, <2>2
  <1>4. CASE OpenForm \/ ToggleScan \/ DeleteScan \/ UNCHANGED vars
    <2>1. UNCHANGED <<pc, mine, page, fresh, listing, hist>> /\ (alive' => alive /\ items' = items)
      BY <1>4 DEF OpenForm, ToggleScan, DeleteScan, vars, runs
    <2>2. /\ scan'.url = scan.url /\ scan'.wanted = scan.wanted
          /\ scan'.baseline_done = scan.baseline_done
      BY <1>1, <1>4 DEF OpenForm, ToggleScan, DeleteScan, vars, TypeOK, Row
    <2>3. GoneIsMissing'
      BY <1>1, <2>1, <2>2 DEF GoneIsMissing, Lasting, Matching, Shown
    <2> QED BY <2>1, <2>2, <2>3, AroundSound
  <1>5. CASE ShopMoves
    <2>1. PICK u \in Pages, p \in Products, price \in Prices \cup {Nothing} :
              /\ listing' = [listing EXCEPT ![u][p] = price]
              /\ NoteListing(u, p, price)
              /\ UNCHANGED <<scan, alive, items, runs, dialog, crashes>>
      BY <1>5 DEF ShopMoves
    <2>2. /\ hist'.stale = hist.stale /\ hist'.told = hist.told /\ hist'.misled = hist.misled
          /\ hist'.missing = IF u = scan.url /\ price = Nothing THEN hist.missing \cup {p} ELSE hist.missing
      BY <1>1, <2>1, ListingFacts
    <2>3. ASSUME NEW x \in Products, x \notin hist'.missing
          PROVE  listing'[scan.url][x] # Nothing /\ x \in scan.wanted
      <3>1. listing[scan.url][x] # Nothing /\ x \in scan.wanted
        BY <1>1, <2>2, <2>3 DEF GoneIsMissing, Lasting, Matching, Shown
      <3>2. scan.url \in Pages /\ listing \in [Pages -> [Products -> Prices \cup {Nothing}]]
        BY <1>1 DEF TypeOK, Row, Listing
      <3>3. listing'[scan.url][x] = IF u = scan.url /\ p = x THEN price ELSE listing[scan.url][x]
        BY <2>1, <3>2
      <3> QED BY <2>2, <2>3, <3>1, <3>3
    <2>4. GoneIsMissing'
      BY <2>1, <2>3 DEF GoneIsMissing, Lasting, Matching, Shown
    <2> QED BY <2>1, <2>2, <2>4, AroundSound DEF runs
  <1>6. CASE Crash
    <2>1. /\ UNCHANGED <<scan, alive, items, listing>> /\ \A r \in Runs : pc'[r] = "idle"
          /\ hist'.stale = hist.stale /\ hist'.told = hist.told /\ hist'.missing = hist.missing
      BY <1>1, <1>6 DEF Crash, Hist
    <2>2. \A r \in Runs : RunIsSound(r)'
      BY <2>1, IdleIsSound
    <2>3. RunsAreApart'
      BY <2>1 DEF RunsAreApart
    <2> QED BY <2>1, <2>2, <2>3
        DEF Inv, Drops, GoneIsMissing, BaselineKnows, ToldIsKnown, Lasting, Known,
            Matching, Shown
  <1> QED BY <1>2, <1>3, <1>4, <1>5, <1>6 DEF Next, Dashboard

LEMMA NextInv == Inv /\ [Next]_vars => Inv'
  BY NextType, NextSound DEF Inv

LEMMA Always == Spec => []Inv
  BY InitInv, NextInv, PTL DEF Spec

-----------------------------------------------------------------------------
(* What the project states of the scanner.                                  *)

\* Every variable keeps its type, and a run holds only products its page showed,
\* for any number of overlapping runs, any pages and any crash.
THEOREM TypeCorrect == Spec => []TypeOK
  <1>1. Inv => TypeOK
    BY DEF Inv
  <1> QED BY <1>1, Always, PTL

\* Whatever runs overlap, fail or clash, what a run announces as new was, at some time
\* since the scanner was pointed at the page, missing from it or not asked for by the
\* keywords, and nobody had announced it; only runs a change of the page misled are
\* excepted (run_scan, update_scan).
THEOREM DropsAreTrue == Spec => DropsAreReal
  <1> DEFINE Real ==
        \A r \in Runs, p \in Products :
            Announces(r, p) =>
                \/ p \in hist.missing /\ p \notin hist.told
                \/ r \in hist.misled
  <1>1. Inv => Real
    BY DEF Inv, Drops, RunIsSound, Announces
  <1>2. Inv /\ [Next]_vars => [Real]_vars
    BY <1>1
  <1> QED BY <1>2, Always, PTL DEF Spec, DropsAreReal
=============================================================================
