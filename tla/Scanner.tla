------------------------------ MODULE Scanner ------------------------------
(***************************************************************************)
(* One keyword scanner: run_scan of app/scanner.py, with the dashboard     *)
(* handlers of app/web/routes.py that edit, toggle and delete it.          *)
(*                                                                         *)
(* A run loads the scanner, fetches its listing page, compares the page    *)
(* with the products remembered from earlier runs, commits the new ones    *)
(* and then announces them one by one.  The scheduled job, "check now" and *)
(* the sweep each run it with a session of their own, and the form may     *)
(* point the scanner at another page or change its keywords in between.    *)
(*                                                                         *)
(* A product stands for a url_key; the pages show products with a price    *)
(* that could be read, and prices differ by MIN_PRICE_DELTA at least.  The *)
(* keywords stand for the products whose titles they match.                *)
(* ScanItem.notified is read by nothing and left out.                      *)
(***************************************************************************)
EXTENDS Integers, FiniteSets

CONSTANTS
    Runs,        \* coroutines that can run this scanner
    Scheduled,   \* those started through run_scan_by_id
    Products,    \* products the pages can show
    Pages,       \* listing pages the form can point the scanner at
    FirstPage,   \* the page it was created with
    Prices,      \* prices a page can show
    Wordings,    \* what keywords and excludes can match, sets of products
    FloodCap,    \* FLOOD_CAP
    SummaryCap,  \* the lines of a summary (_summary_event)
    MaxEdits,    \* bound on the operator's forms
    MaxCrashes   \* bound on process restarts

Nothing == 0   \* the page does not show the product, or nobody remembers it

ASSUME RunsAssumption == Scheduled \subseteq Runs
ASSUME PagesAssumption == FirstPage \in Pages /\ Prices \subseteq Nat \ {Nothing}
ASSUME WordingsAssumption == Wordings \subseteq SUBSET Products
ASSUME BoundsAssumption ==
    /\ IsFiniteSet(Products)
    /\ {FloodCap, SummaryCap, MaxEdits, MaxCrashes} \subseteq Nat

VARIABLES
    scan,      \* the committed row of the scanner
    alive,     \* it has not been deleted
    items,     \* what it remembers: a price for every product it knows
    pc,        \* where each run stands
    mine,      \* the scanner's row as each run loaded it
    page,      \* the page each run has fetched
    fresh,     \* products each run takes for new and has not announced yet
    moved,     \* products whose change of price it has not announced yet
    torn,      \* runs whose remembered rows were deleted after they read them
    form,      \* the row as the form handler loaded it, while it runs
    formOpen,  \* a form handler stands between its load and its commit
    listing,   \* what the shop's pages really show
    edits,
    crashes,
    hist       \* observer

runs   == <<pc, mine, page, fresh, moved, torn>>
dialog == <<form, formOpen, edits>>
vars   == <<scan, alive, items, runs, dialog, listing, crashes, hist>>

Row     == [url: Pages, wanted: SUBSET Products, baseline_done: BOOLEAN, enabled: BOOLEAN]
Listing == [Products -> Prices \cup {Nothing}]

\* A scanner as create_scan inserts it.
NewRow(w) == [url |-> FirstPage, wanted |-> w, baseline_done |-> FALSE, enabled |-> TRUE]
NoRow     == NewRow({})
Blank     == [p \in Products |-> Nothing]

Shown(l)   == {p \in Products : l[p] # Nothing}
Known(mem) == {p \in Products : mem[p] # Nothing}

-----------------------------------------------------------------------------
(* What a run makes of a page.                                             *)

\* keywords_match, on the titles of the page.
Matching(l, w) == Shown(l) \cap w

NewOn(l, w) == Matching(l, w) \ Known(items)

\* Faulty variant: what the page no longer shows counts as repriced.
RepricedByPage(l, w) == {p \in Known(items) : l[p] # items[p]}

Repriced(l, w) == {p \in Matching(l, w) \cap Known(items) : l[p] # items[p]}

\* Faulty variant: a flood is summed up and not remembered.
RememberedUnlessFlood(r) ==
    [p \in Products |-> IF p \in moved[r] \/ (p \in fresh[r] /\ Cardinality(fresh[r]) <= FloodCap)
                       THEN page[r][p] ELSE items[p]]

\* The memory with what run r has seen.
Remembered(r) == [p \in Products |-> IF p \in fresh[r] \cup moved[r] THEN page[r][p] ELSE items[p]]

\* Faulty variant: too many new products are treated as too many new prices.
FreshToTellCapped(ps) == IF Cardinality(ps) > FloodCap THEN {} ELSE ps

\* A flood is told in one summary, not swallowed.
FreshToTell(ps) == ps

\* A flood of new prices is remembered and never told.
MovedToTell(ps) == IF Cardinality(ps) > FloodCap THEN {} ELSE ps

\* The INSERT of a product that another run has remembered meanwhile raises
\* IntegrityError, the UPDATE of a deleted row StaleDataError.
Clashes(r) == fresh[r] \cap Known(items) # {} \/ (moved[r] # {} /\ r \in torn)

-----------------------------------------------------------------------------
(* Observer: the products the page was seen without, or the keywords did not *)
(* ask for, since it is this scanner's page; those that are owed an           *)
(* announcement, those that had one and those whose one is lost; the runs     *)
(* that loaded another page's row, and whether the committed baseline is      *)
(* another page's.                                                            *)

NoteBegin(r) ==
    hist' = [hist EXCEPT !.misled = IF hist.stale THEN @ \cup {r} ELSE @ \ {r}]

NoteRecord(r) ==
    hist' = [hist EXCEPT
        !.stale = IF mine[r].baseline_done THEN @
                  ELSE r \in hist.misled /\ (@ \/ ~scan.baseline_done),
        !.owed = IF mine[r].baseline_done THEN @ \cup fresh[r] ELSE @]

\* One message: ps are named in it, cut would have been and never will be.
NoteTold(r, ps, cut) ==
    hist' = [hist EXCEPT !.owed = @ \ ps,
                         !.told = IF r \in hist.misled THEN @ ELSE @ \cup ps,
                         !.lost = @ \cup cut]

NoteListing(u, p, price) ==
    hist' = [hist EXCEPT !.missing = IF u = scan.url /\ price = Nothing THEN @ \cup {p} ELSE @]

NoteReworded(w) == hist' = [hist EXCEPT !.missing = @ \cup (Products \ w)]

NoteMoved(u, w) ==
    hist' = [stale |-> scan.baseline_done /\ ~form.baseline_done,
             owed |-> {}, told |-> {}, lost |-> {},
             missing |-> Products \ Matching(listing[u], w),
             misled |-> {r \in Runs : pc[r] # "idle"}]

-----------------------------------------------------------------------------
Init ==
    /\ \E w \in Wordings : scan = NewRow(w)
    /\ alive = TRUE
    /\ items = Blank
    /\ pc = [r \in Runs |-> "idle"]
    /\ mine = [r \in Runs |-> NoRow]
    /\ page = [r \in Runs |-> Blank]
    /\ fresh = [r \in Runs |-> {}]
    /\ moved = [r \in Runs |-> {}]
    /\ torn = {}
    /\ form = NoRow
    /\ formOpen = FALSE
    /\ edits = 0
    /\ listing \in [Pages -> Listing]
    /\ crashes = 0
    /\ hist = [stale |-> FALSE, owed |-> {}, told |-> {}, lost |-> {},
               missing |-> Products \ Matching(listing[FirstPage], scan.wanted),
               misled |-> {}]

\* run_scan_by_id gives up on a disabled scanner; "check now" does not look.
Begin(r) ==
    /\ pc[r] = "idle"
    /\ alive
    /\ r \in Scheduled => scan.enabled
    /\ pc' = [pc EXCEPT ![r] = "fetching"]
    /\ mine' = [mine EXCEPT ![r] = scan]
    /\ NoteBegin(r)
    /\ UNCHANGED <<scan, alive, items, page, fresh, moved, torn, dialog, listing, crashes>>

Fetch(r) ==
    /\ pc[r] = "fetching"
    /\ page' = [page EXCEPT ![r] = listing[mine[r].url]]
    /\ pc' = [pc EXCEPT ![r] = "comparing"]
    /\ UNCHANGED <<scan, alive, items, mine, fresh, moved, torn, dialog, listing, crashes, hist>>

Stop(r) ==
    /\ pc' = [pc EXCEPT ![r] = "idle"]
    /\ mine' = [mine EXCEPT ![r] = NoRow]
    /\ page' = [page EXCEPT ![r] = Blank]
    /\ fresh' = [fresh EXCEPT ![r] = {}]
    /\ moved' = [moved EXCEPT ![r] = {}]
    /\ torn' = torn \ {r}

\* Faulty variant: a failed run counts as the first one.
BaselineAfterAny(row) == TRUE

BaselineAfterFailure(row) == row.baseline_done

\* Only last_check_at and last_error are written.
FetchFails(r) ==
    /\ pc[r] = "fetching"
    /\ scan' = [scan EXCEPT !.baseline_done = BaselineAfterFailure(scan)]
    /\ Stop(r)
    /\ UNCHANGED <<alive, items, dialog, listing, crashes, hist>>

Compare(r) ==
    /\ pc[r] = "comparing"
    /\ fresh' = [fresh EXCEPT ![r] = NewOn(page[r], mine[r].wanted)]
    /\ moved' = [moved EXCEPT ![r] = Repriced(page[r], mine[r].wanted)]
    /\ pc' = [pc EXCEPT ![r] = "recording"]
    /\ UNCHANGED <<scan, alive, items, mine, page, torn, dialog, listing, crashes, hist>>

\* What is seen is remembered before anything is said of it; the first run of
\* all says nothing.  The page and the row are not looked at again.
Record(r) ==
    /\ pc[r] = "recording" /\ alive /\ ~Clashes(r)
    /\ items' = Remembered(r)
    /\ scan' = [scan EXCEPT !.baseline_done = @ \/ ~mine[r].baseline_done]
    /\ IF mine[r].baseline_done
       THEN /\ pc' = [pc EXCEPT ![r] = IF fresh[r] = {} THEN "repricing" ELSE "announcing"]
            /\ fresh' = [fresh EXCEPT ![r] = FreshToTell(@)]
            /\ moved' = [moved EXCEPT ![r] = MovedToTell(@)]
            /\ torn' = torn \ {r}
            /\ mine' = [mine EXCEPT ![r] = NoRow]
            /\ page' = [page EXCEPT ![r] = Blank]
       ELSE Stop(r)
    /\ NoteRecord(r)
    /\ UNCHANGED <<alive, dialog, listing, crashes>>

\* The commit raises out of the run: nothing of it is kept.
RecordFails(r) ==
    /\ pc[r] = "recording" /\ (~alive \/ Clashes(r))
    /\ Stop(r)
    /\ UNCHANGED <<scan, alive, items, dialog, listing, crashes, hist>>

AnnounceEach(r) ==
    /\ pc[r] = "announcing"
    /\ Cardinality(fresh[r]) <= FloodCap
    /\ \E p \in fresh[r] : fresh' = [fresh EXCEPT ![r] = @ \ {p}] /\ NoteTold(r, {p}, {})
    /\ UNCHANGED <<scan, alive, items, pc, mine, page, moved, torn, dialog, listing, crashes>>

\* One summary message stands for them all.  It names as many as it has lines and
\* only counts the rest, which is remembered like the others and never named again.
AnnounceFlood(r) ==
    /\ pc[r] = "announcing"
    /\ Cardinality(fresh[r]) > FloodCap
    /\ \E named \in SUBSET fresh[r] :
         /\ named = fresh[r] \/ Cardinality(named) = SummaryCap
         /\ Cardinality(named) <= SummaryCap
         /\ NoteTold(r, named, fresh[r] \ named)
    /\ fresh' = [fresh EXCEPT ![r] = {}]
    /\ UNCHANGED <<scan, alive, items, pc, mine, page, moved, torn, dialog, listing, crashes>>

\* dispatch_event raises when its queries or its commit do: the run ends, and what it
\* had still to tell is remembered already.
SpeakFails(r) ==
    /\ pc[r] \in {"announcing", "repricing"}
    /\ fresh[r] \cup moved[r] # {}
    /\ NoteTold(r, {}, fresh[r])
    /\ Stop(r)
    /\ UNCHANGED <<scan, alive, items, dialog, listing, crashes>>

\* The new rows are marked as notified once they are all announced: the next
\* flush raises when they have been deleted meanwhile.
Announced(r) == pc[r] \in {"announcing", "repricing"} /\ fresh[r] = {}
Stumbles(r)  == pc[r] = "announcing" /\ r \in torn

AnnouncePrice(r) ==
    /\ Announced(r) /\ ~Stumbles(r)
    /\ \E p \in moved[r] : moved' = [moved EXCEPT ![r] = @ \ {p}]
    /\ UNCHANGED <<scan, alive, items, pc, mine, page, fresh, torn, dialog, listing, crashes, hist>>

Finish(r) ==
    /\ Announced(r) /\ (moved[r] = {} \/ Stumbles(r))
    /\ Stop(r)
    /\ UNCHANGED <<scan, alive, items, dialog, listing, crashes, hist>>

-----------------------------------------------------------------------------
(* The dashboard.                                                          *)

\* A handler has loaded the row and not committed yet.
OpenForm ==
    /\ alive /\ ~formOpen
    /\ form' = scan
    /\ formOpen' = TRUE
    /\ edits < MaxEdits
    /\ edits' = edits + 1
    /\ UNCHANGED <<scan, alive, items, runs, listing, crashes, hist>>

Close == form' = NoRow /\ formOpen' = FALSE /\ UNCHANGED edits

\* Runs whose remembered rows vanish between their SELECT and their last flush.
TornNow == {r \in Runs : pc[r] \in {"recording", "announcing"}}

\* Another page re-arms the baseline and forgets the products of the old one.
\* The flag is written only when the handler had loaded it as set.  Other keywords
\* do neither: what they newly match is compared with what the old ones remembered.
UpdateScan(u, w) ==
    /\ formOpen
    /\ Close
    /\ IF u = form.url
       THEN /\ scan' = [scan EXCEPT !.wanted = w]
            /\ NoteReworded(w)
            /\ UNCHANGED <<items, torn>>
       ELSE /\ scan' = [scan EXCEPT !.url = u, !.wanted = w,
                                   !.baseline_done = @ /\ ~form.baseline_done]
            /\ items' = Blank
            /\ torn' = torn \cup TornNow
            /\ NoteMoved(u, w)
    /\ UNCHANGED <<alive, pc, mine, page, fresh, moved, listing, crashes>>

ToggleScan ==
    /\ formOpen
    /\ Close
    /\ scan' = [scan EXCEPT !.enabled = ~form.enabled]
    /\ UNCHANGED <<alive, items, runs, listing, crashes, hist>>

\* A handler that was about to commit to the deleted row raises.
DeleteScan ==
    /\ alive
    /\ alive' = FALSE
    /\ items' = Blank
    /\ torn' = torn \cup TornNow
    /\ Close
    /\ UNCHANGED <<scan, pc, mine, page, fresh, moved, listing, crashes, hist>>

-----------------------------------------------------------------------------
(* The world.                                                              *)

ShopMoves ==
    \E u \in Pages, p \in Products, price \in Prices \cup {Nothing} :
        /\ price # listing[u][p]
        /\ listing' = [listing EXCEPT ![u][p] = price]
        /\ NoteListing(u, p, price)
        /\ UNCHANGED <<scan, alive, items, runs, dialog, crashes>>

Crash ==
    /\ crashes < MaxCrashes
    /\ crashes' = crashes + 1
    /\ pc' = [r \in Runs |-> "idle"]
    /\ mine' = [r \in Runs |-> NoRow]
    /\ page' = [r \in Runs |-> Blank]
    /\ fresh' = [r \in Runs |-> {}]
    /\ moved' = [r \in Runs |-> {}]
    /\ torn' = {}
    /\ Close
    /\ hist' = [hist EXCEPT !.misled = {}]
    /\ UNCHANGED <<scan, alive, items, listing>>

-----------------------------------------------------------------------------
Speak(r) == AnnounceEach(r) \/ AnnounceFlood(r) \/ AnnouncePrice(r) \/ Finish(r)

Run(r) ==
    \/ Begin(r) \/ Fetch(r) \/ FetchFails(r) \/ Compare(r) \/ Record(r) \/ RecordFails(r)
    \/ Speak(r) \/ SpeakFails(r)

Dashboard ==
    \/ OpenForm \/ ToggleScan \/ DeleteScan
    \/ \E u \in Pages, w \in Wordings : UpdateScan(u, w)

Next == (\E r \in Runs : Run(r)) \/ Dashboard \/ ShopMoves \/ Crash

Spec == Init /\ [][Next]_vars

\* A run that has begun goes on, the scheduler starts the next, and the page
\* can be read from time to time.
Fairness ==
    /\ \A r \in Scheduled : WF_vars(Begin(r)) /\ SF_vars(Fetch(r))
    /\ \A r \in Runs :
        /\ WF_vars(Fetch(r) \/ FetchFails(r)) /\ WF_vars(Compare(r))
        /\ WF_vars(Record(r) \/ RecordFails(r)) /\ WF_vars(Speak(r))

FairSpec == Spec /\ Fairness

-----------------------------------------------------------------------------
(* Correctness.                                                            *)

Places == {"idle", "fetching", "comparing", "recording", "announcing", "repricing"}

\* Every variable keeps its type; only a run that saw the page holds products
\* to tell, never one both as new and as repriced (run_scan).
TypeOK ==
    /\ scan \in Row /\ form \in Row /\ mine \in [Runs -> Row]
    /\ alive \in BOOLEAN /\ formOpen \in BOOLEAN
    /\ items \in Listing /\ page \in [Runs -> Listing] /\ listing \in [Pages -> Listing]
    /\ pc \in [Runs -> Places]
    /\ fresh \in [Runs -> SUBSET Products] /\ moved \in [Runs -> SUBSET Products]
    /\ \A r \in Runs : fresh[r] \cap moved[r] = {}
    /\ \A r \in Runs : pc[r] = "recording" => fresh[r] \cup moved[r] \subseteq Shown(page[r])
    /\ torn \subseteq Runs
    /\ edits \in 0..MaxEdits /\ crashes \in 0..MaxCrashes
    /\ hist \in [stale : BOOLEAN, owed : SUBSET Products, told : SUBSET Products,
                 lost : SUBSET Products, missing : SUBSET Products, misled : SUBSET Runs]

Announces(r, p) ==
    pc[r] = "announcing" /\ pc'[r] = "announcing" /\ p \in fresh[r] \ fresh'[r]

\* What a run announces as new was, at some time since the scanner was pointed at
\* the page, missing from it or not asked for by the keywords, and is announced once:
\* neither a failed first run nor a concurrent one turns what was always there into a
\* drop, and no two overlapping runs tell of one product.  Two things are excepted,
\* and the code does both: widened keywords announce as new what was always there,
\* since only another page re-arms the baseline; and so may the runs that were under
\* way when the page was changed, or live on a baseline such a run left (run_scan,
\* update_scan).
DropsAreReal ==
    [][\A r \in Runs, p \in Products :
         Announces(r, p) =>
            \/ p \in hist.missing /\ p \notin hist.told
            \/ r \in hist.misled]_vars

\* Remembering a new product without telling is for good, so every one that was
\* committed as new is named in a message, but for those past the last line of a
\* summary, those whose run a raising dispatch ended, and those of a process that
\* died in between (run_scan).
OwedIsAnnounced ==
    \A p \in Products :
        p \in hist.owed ~> (p \notin hist.owed \/ p \in hist.lost \/ crashes > 0)

\* A product that stays on the page of an enabled scanner, and that its keywords ask
\* for, is remembered, even though one clash with another run loses all a run has
\* found (run_scan).
Steady(p) == alive /\ scan.enabled /\ p \in Matching(listing[scan.url], scan.wanted)

SeenIsRemembered ==
    \A p \in Products : <>[]Steady(p) => []<>(p \in Known(items))
=============================================================================
