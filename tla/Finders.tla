------------------------------ MODULE Finders ------------------------------
(***************************************************************************)
(* What the tracker finds and tells once: news of a feed and the reminder  *)
(* of their release (app/news/service.py), and shops found by web searches *)
(* (run_hunt of app/discovery.py).                                         *)
(*                                                                         *)
(* A poll stores what is new under its unique (source, guid) and then      *)
(* announces it item by item, each flagged and committed before it is      *)
(* sent.  The daily scan does the same for releases.  A hunt reads the     *)
(* known domains, vets new ones for minutes, stores them under their       *)
(* unique domain, pings, and flags a domain after its ping.  A feed is     *)
(* polled by one job, releases are scanned by one job; hunts run side by   *)
(* side, of different queries or of one ("run now").                       *)
(*                                                                         *)
(* Workers bounds how many of these coroutines are under way at a time.    *)
(***************************************************************************)
EXTENDS Integers, FiniteSets

CONSTANTS
    News,        \* items a feed can show
    Overlong,    \* those whose guid does not fit the column and is cut
    Domains,     \* shops a search can find, neither excluded nor in the catalogue
    Workers,     \* coroutines
    MaxNew,      \* MAX_NEW_DOMAINS_PER_RUN
    MaxPings,    \* MAX_PINGS_PER_RUN
    MaxMishaps   \* bound on process restarts and on hunts deleted under a run

Finds == News \cup Domains
None  == "none"

ASSUME FindsAssumption == IsFiniteSet(Finds) /\ News \cap Domains = {} /\ Overlong \subseteq News
ASSUME BoundsAssumption == MaxNew \in Nat \ {0} /\ MaxPings \in Nat /\ MaxMishaps \in Nat

VARIABLES
    known,     \* SetNews and DiscoveredSite rows
    flagged,   \* announced_notified (or preorder_notified), notified
    dated,     \* news with a release date
    soon,      \* news with release_soon_notified
    pc,        \* where each worker stands
    kind,      \* what it is: a poll, a release scan or a hunt
    found,     \* what it fetched, and of that what has a date
    batch,     \* what it stored, or loaded, and has not told yet
    current,   \* what it is telling
    pending,   \* the domain it has flagged and not committed
    mishaps,
    hist       \* observer

rows   == <<known, flagged, dated, soon>>
worker == <<pc, kind, found, batch, current, pending>>
vars   == <<rows, worker, mishaps, hist>>

Kinds   == {"poll", "release scan", "hunt"}
NoPage  == [items |-> {}, dated |-> {}]
Running(k) == \E w \in Workers : kind[w] = k

-----------------------------------------------------------------------------
(* Observer: how often everything was told, how often its release was, and  *)
(* what nobody will tell because of a crash, a dispatch that raised, a bad   *)
(* verdict or too many pings.                                               *)

Counted(f, x) == [f EXCEPT ![x] = IF @ = 2 THEN 2 ELSE @ + 1]

NoteTold(w) ==
    hist' = IF kind[w] = "release scan"
            THEN [hist EXCEPT !.soon = Counted(@, current[w])]
            ELSE [hist EXCEPT !.told = Counted(@, current[w])]

NoteLost(some) == hist' = [hist EXCEPT !.lost = @ \cup some]

\* What worker w would still have told if it went on.
Owed(w) == IF kind[w] = "release scan" \/ pc[w] = "vetting" THEN {} ELSE batch[w]

-----------------------------------------------------------------------------
Init ==
    /\ known = {} /\ flagged = {} /\ dated = {} /\ soon = {}
    /\ pc = [w \in Workers |-> "idle"]
    /\ kind = [w \in Workers |-> None]
    /\ found = [w \in Workers |-> NoPage]
    /\ batch = [w \in Workers |-> {}]
    /\ current = [w \in Workers |-> None]
    /\ pending = [w \in Workers |-> {}]
    /\ mishaps = 0
    /\ hist = [told |-> [x \in Finds |-> 0], soon |-> [i \in News |-> 0], lost |-> {}]

Starts(w, k, stage) ==
    /\ pc[w] = "idle"
    /\ pc' = [pc EXCEPT ![w] = stage]
    /\ kind' = [kind EXCEPT ![w] = k]

Stops(w) ==
    /\ pc' = [pc EXCEPT ![w] = "idle"]
    /\ kind' = [kind EXCEPT ![w] = None]
    /\ found' = [found EXCEPT ![w] = NoPage]
    /\ batch' = [batch EXCEPT ![w] = {}]
    /\ current' = [current EXCEPT ![w] = None]
    /\ pending' = [pending EXCEPT ![w] = {}]

-----------------------------------------------------------------------------
(* News.                                                                   *)

\* poll_source: the fetch, of whatever the feed shows; one that fails changes
\* nothing.
Poll(w, items, withDate) ==
    /\ ~Running("poll")
    /\ withDate \subseteq items
    /\ Starts(w, "poll", "ingesting")
    /\ found' = [found EXCEPT ![w] = [items |-> items, dated |-> withDate]]
    /\ UNCHANGED <<rows, batch, current, pending, mishaps, hist>>

\* Faulty variant: nothing is recognised.
ExistingNever(i) == FALSE

\* The lookup takes the guid as it came, the row keeps what fits the column.
Existing(i) == i \in known \ Overlong

\* ingest_items: dates are refreshed, what is missing is inserted, all in one
\* transaction.
Ingest(w) ==
    LET created == {i \in found[w].items : ~Existing(i)}
    IN  /\ pc[w] = "ingesting"
        /\ created \cap known = {}
        /\ known' = known \cup created
        /\ dated' = dated \cup found[w].dated
        /\ pc' = [pc EXCEPT ![w] = "telling"]
        /\ found' = [found EXCEPT ![w] = NoPage]
        /\ batch' = [batch EXCEPT ![w] = created]
        /\ UNCHANGED <<flagged, soon, kind, current, pending, mishaps, hist>>

\* The unique key: IntegrityError, and nothing of the whole page is stored.
IngestFails(w) ==
    /\ pc[w] = "ingesting"
    /\ {i \in found[w].items : ~Existing(i)} \cap known # {}
    /\ Stops(w)
    /\ UNCHANGED <<rows, mishaps, hist>>

\* Faulty variant: items without a date are taken along.
LoadUndated(w, due) ==
    /\ ~Running("release scan")
    /\ due \subseteq (known \cap News) \ soon
    /\ due # {}
    /\ Starts(w, "release scan", "telling")
    /\ batch' = [batch EXCEPT ![w] = due]
    /\ UNCHANGED <<rows, found, current, pending, mishaps, hist>>

\* scan_release_soon: of those with a date, the ones within the window today.
LoadReleases(w, due) ==
    /\ ~Running("release scan")
    /\ due \subseteq dated \ soon
    /\ due # {}
    /\ Starts(w, "release scan", "telling")
    /\ batch' = [batch EXCEPT ![w] = due]
    /\ UNCHANGED <<rows, found, current, pending, mishaps, hist>>

-----------------------------------------------------------------------------
(* Hunts.                                                                  *)

\* run_hunt up to the vetting: the hits that are not known, up to the cap.
Search(w, new) ==
    /\ new \subseteq Domains \ known
    /\ Cardinality(new) <= MaxNew
    /\ Starts(w, "hunt", "vetting")
    /\ batch' = [batch EXCEPT ![w] = new]
    /\ UNCHANGED <<rows, found, current, pending, mishaps, hist>>

\* Faulty variant: domains have no unique key.
ClashesNever(w) == FALSE

\* Another hunt has stored one of them meanwhile.
Clashes(w) == batch[w] \cap known # {}

\* The sites are stored; the suspicious ones and those past the cap stay on the
\* dashboard.
RecordSites(w, pinged) ==
    /\ pc[w] = "vetting"
    /\ ~Clashes(w)
    /\ pinged \subseteq batch[w] /\ Cardinality(pinged) <= MaxPings
    /\ known' = known \cup batch[w]
    /\ pc' = [pc EXCEPT ![w] = "telling"]
    /\ batch' = [batch EXCEPT ![w] = pinged]
    /\ NoteLost(batch[w] \ pinged)
    /\ UNCHANGED <<flagged, dated, soon, kind, found, current, pending, mishaps>>

\* IntegrityError, or StaleDataError when the hunt was deleted since the run loaded it:
\* nothing of the run is stored.
RecordFails(w) ==
    /\ pc[w] = "vetting"
    /\ \/ Clashes(w) /\ UNCHANGED mishaps
       \/ mishaps < MaxMishaps /\ mishaps' = mishaps + 1
    /\ Stops(w)
    /\ UNCHANGED <<rows, hist>>

-----------------------------------------------------------------------------
(* Telling, the same loop in all three.                                    *)

Flags(w, x) ==
    /\ flagged' = IF kind[w] = "poll" THEN flagged \cup {x} ELSE flagged
    /\ soon' = IF kind[w] = "release scan" THEN soon \cup {x} ELSE soon

Take(w, x) ==
    /\ pc[w] = "telling"
    /\ x \in batch[w]
    /\ pc' = [pc EXCEPT ![w] = "sending"]
    /\ current' = [current EXCEPT ![w] = x]
    /\ Flags(w, x)
    /\ UNCHANGED <<known, dated, kind, found, batch, pending, mishaps, hist>>

\* dispatch_event; its commit takes the flag of the domain before along.
Send(w) ==
    /\ pc[w] = "sending"
    /\ NoteTold(w)
    /\ flagged' = flagged \cup pending[w]
    /\ pending' = [pending EXCEPT ![w] = IF kind[w] = "hunt" THEN {current[w]} ELSE {}]
    /\ batch' = [batch EXCEPT ![w] = @ \ {current[w]}]
    /\ current' = [current EXCEPT ![w] = None]
    /\ pc' = [pc EXCEPT ![w] = "telling"]
    /\ UNCHANGED <<known, dated, soon, kind, found, mishaps>>

\* Faulty variant: a run whose dispatch raises commits its flags.
RaisesAndFlags(w) ==
    /\ pc[w] = "sending"
    /\ NoteLost(Owed(w))
    /\ flagged' = flagged \cup pending[w] \cup batch[w]
    /\ Stops(w)
    /\ UNCHANGED <<known, dated, soon, mishaps>>

\* dispatch_event raises before anything is sent: the rest of the run is dropped.
Raises(w) ==
    /\ pc[w] = "sending"
    /\ NoteLost(Owed(w))
    /\ Stops(w)
    /\ UNCHANGED <<rows, mishaps>>

\* The last commit of a hunt.
End(w) ==
    /\ pc[w] = "telling"
    /\ batch[w] = {}
    /\ flagged' = flagged \cup pending[w]
    /\ Stops(w)
    /\ UNCHANGED <<known, dated, soon, mishaps, hist>>

Restart ==
    /\ mishaps < MaxMishaps
    /\ mishaps' = mishaps + 1
    /\ pc' = [w \in Workers |-> "idle"]
    /\ kind' = [w \in Workers |-> None]
    /\ found' = [w \in Workers |-> NoPage]
    /\ batch' = [w \in Workers |-> {}]
    /\ current' = [w \in Workers |-> None]
    /\ pending' = [w \in Workers |-> {}]
    /\ NoteLost(UNION {Owed(w) : w \in Workers})
    /\ UNCHANGED <<rows>>

-----------------------------------------------------------------------------
RecordAny(w) == \E pinged \in SUBSET Domains : RecordSites(w, pinged)
TakeAny(w)   == \E x \in Finds : Take(w, x)

Next ==
    \/ \E w \in Workers :
         \/ \E items \in SUBSET News, withDate \in SUBSET News : Poll(w, items, withDate)
         \/ Ingest(w) \/ IngestFails(w)
         \/ \E due \in SUBSET News : LoadReleases(w, due)
         \/ \E new \in SUBSET Domains : Search(w, new)
         \/ RecordAny(w) \/ RecordFails(w)
         \/ TakeAny(w) \/ Send(w) \/ Raises(w) \/ End(w)
    \/ Restart

\* What runs goes on.
Fairness ==
    \A w \in Workers :
        WF_vars(Ingest(w) \/ IngestFails(w) \/ RecordAny(w) \/ RecordFails(w)
                \/ TakeAny(w) \/ Send(w) \/ Raises(w) \/ End(w))

Spec == Init /\ [][Next]_vars
FairSpec == Spec /\ Fairness

-----------------------------------------------------------------------------
Stages == {"idle", "ingesting", "vetting", "telling", "sending"}

\* Values of the variables; only what is stored is flagged, and only what has a
\* release date is reminded of (news/service.py:121-151).
TypeOK ==
    /\ known \subseteq Finds
    /\ flagged \subseteq known
    /\ dated \subseteq known \cap News
    /\ soon \subseteq dated
    /\ pc \in [Workers -> Stages]
    /\ kind \in [Workers -> Kinds \cup {None}]
    /\ found \in [Workers -> [items: SUBSET News, dated: SUBSET News]]
    /\ batch \in [Workers -> SUBSET Finds]
    /\ current \in [Workers -> Finds \cup {None}]
    /\ pending \in [Workers -> SUBSET Domains]
    /\ mishaps \in 0..MaxMishaps
    /\ hist \in [told: [Finds -> 0..2], soon: [News -> 0..2], lost: SUBSET Finds]

Once     == INSTANCE AtMostOnce WITH Items <- Finds, told <- hist.told
SoonOnce == INSTANCE AtMostOnce WITH Items <- News, known <- dated, told <- hist.soon

\* News and shops are stored before they are told and told once at most, by
\* overlapping hunts, after clashes, and over restarts at any point; so is the
\* reminder of a release, for a date that is known (news/service.py:103-151,
\* discovery.py:343-401).
ToldOnce == Once!Spec /\ SoonOnce!Spec

\* What is stored and not told is about to be told, unless a crash, a dispatch that
\* raised, its verdict or the cap on pings took it out for good; and what the flags
\* of a stored item say, was told, is being told or is lost in that way
\* (news/service.py:104-115, discovery.py:393-401).
NothingSlipsThrough ==
    /\ \A x \in known : hist.told[x] = 0 =>
          \/ x \in hist.lost
          \/ \E w \in Workers : x \in Owed(w)
    /\ \A x \in flagged : hist.told[x] = 0 =>
          x \in News /\ (x \in hist.lost \/ \E w \in Workers : current[w] = x)

Fetched(w, x) == x \in found[w].items \/ (pc[w] = "vetting" /\ x \in batch[w])

\* The page also shows a stored item whose guid was cut.
Poisoned(w) == found[w].items \cap Overlong \cap known # {}

\* What is found again and again is stored in the end, although one clash fails the
\* whole page or run it comes with; but for pages that also show a stored item
\* whose guid was cut (news/service.py:52-90, discovery.py:343-384).
FoundIsKnown ==
    \A x \in Finds :
        []<>(\E w \in Workers : Fetched(w, x) /\ ~Poisoned(w))
        => <>(x \in known)

\* "Insert unseen items; return the newly created rows", without that exception
\* (news/service.py:53).
UnseenIsInserted ==
    \A x \in Finds :
        []<>(\E w \in Workers : Fetched(w, x)) => <>(x \in known)
=============================================================================
