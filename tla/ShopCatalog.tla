---------------------------- MODULE ShopCatalog ----------------------------
(***************************************************************************)
(* The catalogue of one shop, shared by every watch on it: catalog() of    *)
(* app/monitor/catalog.py and the two adapters that read through it,       *)
(* GenericAdapter.check and ShopifyAdapter.fetch.                          *)
(*                                                                         *)
(* A watch looks its product up in the cached index; when the entry has    *)
(* expired it queues for the lock of the host, looks again, and asks the   *)
(* shop.  A product that is not in the index is fetched on its own, unless *)
(* the catalogue could merely not be read.  What goes on inside a request  *)
(* is the subject of DomainGate.                                           *)
(*                                                                         *)
(* Time is counted in ticks; an entry carries what is left of its life.    *)
(***************************************************************************)
EXTENDS Integers, Sequences, FiniteSets

CONSTANTS
    Watches,        \* watches on this shop
    ShopifyWatches, \* those served by ShopifyAdapter
    Handles,        \* products
    Handle,         \* the product of each watch
    Shelves,        \* what the shop can sell
    CatalogTtl,     \* catalog_ttl_seconds
    RetryTtl,       \* RETRY_TTL_SECONDS
    MaxRetryTtl,    \* MAX_RETRY_TTL_SECONDS
    NegativeTtl,    \* NEGATIVE_TTL_SECONDS
    MissCap         \* failures in a row that are counted, 4 in the code

ASSUME WatchesAssumption == ShopifyWatches \subseteq Watches /\ Handle \in [Watches -> Handles]
ASSUME ShelvesAssumption == Shelves # {} /\ Shelves \subseteq [Handles -> {"unlisted", "out", "in"}]
ASSUME TtlAssumption ==
    /\ CatalogTtl \in Nat \ {0} /\ RetryTtl \in Nat \ {0} /\ MissCap \in 0..4
    /\ MaxRetryTtl \in Nat \ {0} /\ NegativeTtl \in Nat
    /\ MaxRetryTtl < NegativeTtl

VARIABLES
    entry,    \* _cache of the host
    misses,   \* _misses of the host
    line,     \* watches in the order they asked for the lock; the first holds it
    pc,       \* where each check stands
    reading,  \* what each check has read of its product
    shelf,    \* what the shop sells
    mood,     \* how it answers the request for its catalogue
    hist      \* observer

cache  == <<entry, misses>>
checks == <<pc, reading>>
shop   == <<shelf, mood>>
vars   == <<cache, line, checks, shop, hist>>

Stock   == {"out", "in"}
Content == [Handles -> Stock \cup {"unlisted"}]

\* No index, no validator, a catalogue without products.
Blank == [h \in Handles |-> "unlisted"]

Never == [index |-> Blank, etag |-> Blank, left |-> 0, ttl |-> 0]

Min2(a, b) == IF a < b THEN a ELSE b

\* 2^n, for the numbers of failures that are counted.
TwoTo(n) == <<1, 2, 4, 8, 16>>[n + 1]

-----------------------------------------------------------------------------
(* The cache.                                                              *)

\* Faulty variant: settled is settled.
FreshForGood(e) == e.left > 0 \/ e.ttl >= NegativeTtl

Fresh(e) == e.left > 0

Verdict(e) == IF e.index # Blank THEN "catalog"
              ELSE IF e.ttl >= NegativeTtl THEN "no-catalog" ELSE "unavailable"

\* Faulty variant: the wait doubles without end.
RetryTtlUncapped == RetryTtl * TwoTo(misses)

RetryTtlNow == Min2(RetryTtl * TwoTo(misses), MaxRetryTtl)

\* Faulty variant: failures are counted for ever.
MissesUncapped(was) == was + 1

MissesAfter(was) == Min2(was + 1, MissCap)

\* Validators are sent only along with an index they describe.
TagSent == IF entry.index # Blank THEN entry.etag ELSE Blank

Unchanged == TagSent # Blank /\ TagSent = shelf

\* _load: an answer of 304 keeps the index, an empty catalogue is no answer.
Loads   == mood = "open" /\ (Unchanged \/ shelf # Blank)
Settles == mood = "gone"

LoadedIndex == IF Unchanged THEN entry.index ELSE shelf

\* Faulty variant: a failed request leaves the old index in place.
ReplacedWith(index, etag, ttl) ==
    IF index = Blank THEN [entry EXCEPT !.left = ttl, !.ttl = ttl]
    ELSE [index |-> index, etag |-> etag, left |-> ttl, ttl |-> ttl]

EntryOf(index, etag, ttl) == [index |-> index, etag |-> etag, left |-> ttl, ttl |-> ttl]

EntryAfter ==
    IF Loads THEN EntryOf(LoadedIndex, shelf, CatalogTtl)
    ELSE IF Settles THEN EntryOf(Blank, Blank, NegativeTtl)
    ELSE EntryOf(Blank, Blank, RetryTtlNow)

-----------------------------------------------------------------------------
(* Observer: how long ago each product was last in each state, the silence *)
(* owed to the catalogue, whether its last request failed, and the checks  *)
(* that had passed the guard by then.                                      *)

Single == {"json", "html", "pause", "again"}

SilenceOwed ==
    IF Loads THEN CatalogTtl ELSE IF Settles THEN NegativeTtl
    ELSE Min2(RetryTtl * TwoTo(hist.row), MaxRetryTtl)

NoteProbe ==
    LET failed == ~Loads /\ ~Settles
    IN  hist' = [hist EXCEPT
            !.hush = SilenceOwed,
            !.row = IF Loads THEN 0 ELSE IF failed THEN Min2(@ + 1, MissCap) ELSE @,
            !.down = failed,
            !.past = IF failed THEN {v \in Watches : pc[v] \in Single} ELSE {}]

NoteOver(w) == hist' = [hist EXCEPT !.past = @ \ {w}]

-----------------------------------------------------------------------------
Init ==
    /\ entry = Never
    /\ misses = 0
    /\ line = <<>>
    /\ pc = [w \in Watches |-> "idle"]
    /\ reading = [w \in Watches |-> "none"]
    /\ shelf \in Shelves
    /\ mood \in {"open", "gone", "refusing"}
    /\ hist = [seen |-> [h \in Handles |-> [s \in Stock |-> IF shelf[h] = s THEN 0 ELSE CatalogTtl + 1]],
               hush |-> 0, row |-> 0, down |-> FALSE, past |-> {}]

\* What a check does with the index it was given: the product is in it, or it
\* may be asked for on its own, or it may not.
Decide(w, e) ==
    LET found == e.index[Handle[w]]
    IN  IF found # "unlisted"
        THEN /\ reading' = [reading EXCEPT ![w] = found]
             /\ pc' = [pc EXCEPT ![w] = "idle"]
        ELSE /\ reading' = [reading EXCEPT ![w] = "none"]
             /\ pc' = [pc EXCEPT ![w] =
                    IF Verdict(e) = "unavailable" THEN "idle"
                    ELSE IF w \in ShopifyWatches \/ Verdict(e) = "catalog" THEN "json" ELSE "html"]

LookUp(w) ==
    /\ pc[w] = "idle" /\ reading[w] = "none"
    /\ IF Fresh(entry)
       THEN Decide(w, entry) /\ UNCHANGED line
       ELSE /\ pc' = [pc EXCEPT ![w] = "queued"]
            /\ line' = Append(line, w)
            /\ UNCHANGED reading
    /\ UNCHANGED <<cache, shop, hist>>

\* The check is over and its reading recorded.
Record(w) ==
    /\ pc[w] = "idle" /\ reading[w] # "none"
    /\ reading' = [reading EXCEPT ![w] = "none"]
    /\ UNCHANGED <<cache, line, pc, shop, hist>>

HoldsLock(w) == line # <<>> /\ Head(line) = w

\* Faulty variant: only a catalogue that was loaded spares the next request.
SparedBySuccess(e) == Fresh(e) /\ e.index # Blank

\* What spares a watch that has queued the request: any answer, a failure too.
Spared(e) == Fresh(e)

Recheck(w) ==
    /\ pc[w] = "queued" /\ HoldsLock(w)
    /\ IF Spared(entry)
       THEN Decide(w, entry) /\ line' = Tail(line)
       ELSE pc' = [pc EXCEPT ![w] = "probing"] /\ UNCHANGED <<reading, line>>
    /\ UNCHANGED <<cache, shop, hist>>

\* The shop has answered, one way or another.
Answered(w) ==
    /\ pc[w] = "probing"
    /\ entry' = EntryAfter
    /\ misses' = IF Loads THEN 0 ELSE IF Settles THEN misses ELSE MissesAfter(misses)
    /\ line' = Tail(line)
    /\ Decide(w, entry')
    /\ NoteProbe
    /\ UNCHANGED shop

ReadsPage(w) ==
    /\ reading' = [reading EXCEPT ![w] = IF shelf[Handle[w]] = "unlisted" THEN "none" ELSE shelf[Handle[w]]]
    /\ pc' = [pc EXCEPT ![w] = "idle"]
    /\ NoteOver(w)

ReadsNothing(w) == pc' = [pc EXCEPT ![w] = "idle"] /\ NoteOver(w) /\ UNCHANGED reading

\* /products/<handle>.js: the generic adapter falls back to the page itself.
ProductJson(w) ==
    /\ pc[w] = "json"
    /\ \/ ReadsPage(w)
       \/ w \in ShopifyWatches /\ ReadsNothing(w)
       \/ /\ w \notin ShopifyWatches
          /\ pc' = [pc EXCEPT ![w] = "html"]
          /\ UNCHANGED <<reading, hist>>
    /\ UNCHANGED <<cache, line, shop>>

\* A page that says nothing about stock is asked for once more.
ProductPage(w) ==
    /\ pc[w] = "html"
    /\ \/ ReadsPage(w)
       \/ ReadsNothing(w)
       \/ pc' = [pc EXCEPT ![w] = "pause"] /\ UNCHANGED <<reading, hist>>
    /\ UNCHANGED <<cache, line, shop>>

Pause(w) ==
    /\ pc[w] = "pause"
    /\ pc' = [pc EXCEPT ![w] = "again"]
    /\ UNCHANGED <<cache, line, reading, shop, hist>>

ProductPageAgain(w) ==
    /\ pc[w] = "again"
    /\ ReadsPage(w) \/ ReadsNothing(w)
    /\ UNCHANGED <<cache, line, shop>>

-----------------------------------------------------------------------------
(* The world.                                                              *)

Less(n) == IF n = 0 THEN 0 ELSE n - 1

Tick ==
    /\ entry' = [entry EXCEPT !.left = Less(@)]
    /\ hist' = [hist EXCEPT
           !.hush = Less(@),
           !.seen = [h \in Handles |-> [s \in Stock |->
                        IF shelf[h] = s THEN 0 ELSE Min2(@[h][s] + 1, CatalogTtl + 1)]]]
    /\ UNCHANGED <<misses, line, checks, shop>>

ShelfMoves ==
    /\ shelf' \in Shelves \ {shelf}
    /\ hist' = [hist EXCEPT !.seen = [h \in Handles |-> [s \in Stock |->
                                       IF shelf'[h] = s THEN 0 ELSE @[h][s]]]]
    /\ UNCHANGED <<cache, line, checks, mood>>

MoodSwings ==
    /\ mood' \in {"open", "gone", "refusing"} \ {mood}
    /\ UNCHANGED <<cache, line, checks, shelf, hist>>

-----------------------------------------------------------------------------
Alone(w) == ProductJson(w) \/ ProductPage(w) \/ Pause(w) \/ ProductPageAgain(w)

Check(w) == LookUp(w) \/ Recheck(w) \/ Answered(w) \/ Alone(w) \/ Record(w)

Next == (\E w \in Watches : Check(w)) \/ Tick \/ ShelfMoves \/ MoodSwings

Spec == Init /\ [][Next]_vars

\* Clocks run, the scheduler brings every watch back, a coroutine whose turn it
\* is goes on, and every request ends (timeouts).
Fairness == WF_vars(Tick) /\ \A w \in Watches : WF_vars(Check(w))

FairSpec == Spec /\ Fairness

-----------------------------------------------------------------------------
(* Correctness.                                                            *)

Places == {"idle", "queued", "probing"} \cup Single

\* Every variable keeps its type, the lock is held by the one who asks the
\* shop, and no wait grows beyond its cap (catalog).
TypeOK ==
    /\ entry \in [index : Content, etag : Content, left : Nat, ttl : Nat]
    /\ entry.left <= entry.ttl
    /\ misses \in 0..MissCap
    /\ line \in Seq(Watches)
    /\ pc \in [Watches -> Places]
    /\ \A w \in Watches : pc[w] = "probing" => HoldsLock(w)
    /\ reading \in [Watches -> {"none", "out", "in"}]
    /\ shelf \in Shelves /\ mood \in {"open", "gone", "refusing"}
    /\ hist \in [seen : [Handles -> [Stock -> 0..(CatalogTtl + 1)]], hush : Nat,
                 row : 0..MissCap, down : BOOLEAN, past : SUBSET Watches]

\* What a watch reads of its product was true at some moment of the last
\* catalog_ttl_seconds, answers of 304 and failed requests in between or not.
ReadingIsRecent ==
    [][\A w \in Watches :
         reading'[w] # reading[w] /\ reading'[w] # "none"
             => hist.seen[Handle[w]][reading'[w]] <= CatalogTtl]_vars

\* However many watches find the entry expired together, the shop is asked for
\* its catalogue again only after the silence its last answer called for: the
\* life of the entry, an hour when it has none, doubling waits when it failed.
ProbesPaced ==
    [][\A w \in Watches : pc[w] # "probing" /\ pc'[w] = "probing" => hist.hush = 0]_vars

\* While the catalogue is merely unreachable nothing is asked of the shop
\* product by product, but by the checks that were past the guard when it
\* failed (guard_single_fetch).
OnlyStragglers ==
    hist.down => \A w \in Watches : pc[w] \in Single => w \in hist.past

\* A shop that publishes its catalogue and answers again serves every watch
\* from it again, whatever verdict it was given before.
ShopComesRound == <>[](mood = "open" /\ \A h \in Handles : shelf[h] # "unlisted")

CatalogServes ==
    ShopComesRound => \A w \in Watches : []<>(Verdict(entry) = "catalog" /\ reading[w] # "none")
=============================================================================
