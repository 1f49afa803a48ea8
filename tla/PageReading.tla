---------------------------- MODULE PageReading ----------------------------
(***************************************************************************)
(* What one fetched page says of the stock: app/monitor/detection.py, the  *)
(* parse methods under app/monitor/adapters/, the registry that chooses    *)
(* among them, and the two answers of the unlocker API that the queue      *)
(* alarm may have to go by (app/monitor/fetchers.py).                      *)
(*                                                                         *)
(* A page is what the signals on it are: the availability words of its     *)
(* structured data in document order, whether a working buy button is on   *)
(* it, what its words about the product say.  HTML, selectors and titles   *)
(* are left out.  Prices are whole cents.                                  *)
(***************************************************************************)
EXTENDS Integers, FiniteSets, SequencesExt

None    == "none"
Nothing == -1    \* no price, no product

Reading(status, readable, listed) ==
    [status |-> status, readable |-> readable, listed |-> listed]
Stock(status) == Reading(status, TRUE, TRUE)
NotListed     == Reading("UNKNOWN", TRUE, FALSE)
NoSignal      == Reading("UNKNOWN", FALSE, TRUE)
Failure       == Reading("FAILED", FALSE, FALSE)   \* parse or fetch raised

-----------------------------------------------------------------------------
(* Structured data. *)

IN_STOCK_AVAILABILITY ==
    {"instock", "instoreonly", "limitedavailability", "onlineonly",
     "presale", "preorder", "backorder"}
OUT_OF_STOCK_AVAILABILITY == {"outofstock", "soldout", "discontinued"}

Normalize(word) ==
    CASE word \in IN_STOCK_AVAILABILITY -> "IN"
      [] word \in OUT_OF_STOCK_AVAILABILITY -> "OUT"
      [] OTHER -> None

\* The first word that means something: of the JSON-LD products, of the
\* itemprops, of the raw schema.org tokens.
FirstKnown(words) ==
    LET known == SelectInSeq(words, LAMBDA w : Normalize(w) # None)
    IN  IF known = 0 THEN None ELSE Normalize(words[known])

-----------------------------------------------------------------------------
(* The words on a page.  Phrases are looked up as substrings, so a text holds *)
(* every phrase of a table that one of its words is part of.                   *)

Held == [
    silent                          |-> {},
    auf_lager                       |-> {"auf lager"},
    nicht_auf_lager                 |-> {"nicht auf lager", "auf lager"},
    derzeit_nicht_auf_lager         |-> {"derzeit nicht auf lager", "nicht auf lager", "auf lager"},
    derzeit_nicht_verfuegbar        |-> {"derzeit nicht verfuegbar", "nicht verfuegbar"},
    sofort_verfuegbar               |-> {"sofort verfuegbar"},
    lieferbar                       |-> {"lieferbar"},
    nicht_lieferbar                 |-> {"nicht lieferbar", "lieferbar"},
    ausverkauft                     |-> {"ausverkauft"},
    ausverkauft_bald_lieferbar      |-> {"ausverkauft", "lieferbar"},
    abholbereit                     |-> {"abholbereit"},
    nicht_abholbereit               |-> {"nicht abholbereit", "abholbereit"},
    click_collect                   |-> {"click & collect"},
    in_keinem_markt                 |-> {"in keinem markt verfuegbar", "markt verfuegbar"},
    in_null_maerkten                |-> {"maerkten verfuegbar"},
    nicht_im_markt                  |-> {"nicht im markt verfuegbar", "markt verfuegbar"},
    nicht_abholbar_click_collect    |-> {"nicht abholbar", "click & collect"}]
Texts == DOMAIN Held

Holds(p, table) == Held[p.text] \cap table # {}

SOLD_OUT_PHRASES ==
    {"ausverkauft", "nicht verfuegbar", "nicht lieferbar", "derzeit nicht auf lager"}

\* find_sold_out_phrase: in the words about the product, or anywhere else.
SoldOut(p) == p.soldOut \/ Holds(p, SOLD_OUT_PHRASES)

-----------------------------------------------------------------------------
(* Shops without an adapter of their own. *)

\* Faulty variant: microdata may say "buyable".
HeuristicsTrusting(p) ==
    IF p.button /\ ~SoldOut(p) THEN Stock("IN")
    ELSE IF FirstKnown(p.microdata) # None THEN Stock(FirstKnown(p.microdata))
    ELSE IF SoldOut(p) THEN Stock("OUT")
    ELSE NoSignal

\* After the structured data: the button unless the text says sold out, then
\* microdata, which may only say "sold out", then the text.
Heuristics(p) ==
    IF p.button /\ ~SoldOut(p) THEN Stock("IN")
    ELSE IF FirstKnown(p.microdata) = "OUT" \/ SoldOut(p) THEN Stock("OUT")
    ELSE NoSignal

DetectStock(p) ==
    IF FirstKnown(p.jsonld) # None THEN Stock(FirstKnown(p.jsonld)) ELSE Heuristics(p)

\* One more attempt when the first page said nothing; its page counts only if it
\* says something.
Settle(first, again) ==
    IF first.readable \/ ~first.listed \/ ~again.readable THEN first ELSE again

-----------------------------------------------------------------------------
(* Shops with an adapter of their own. *)

AMAZON_UNAVAILABLE == {"derzeit nicht verfuegbar", "derzeit nicht auf lager"}
AMAZON_IN_STOCK    == {"auf lager"}
UNAVAILABLE_BADGES == {"ausverkauft", "nicht auf lager"}
AVAILABLE_BADGES   == {"sofort verfuegbar", "auf lager", "lieferbar"}
IN_STORE_UNAVAILABLE ==
    {"in keinem markt verfuegbar", "nicht im markt verfuegbar", "nicht abholbar"}
IN_STORE_AVAILABLE ==
    {"markt verfuegbar", "maerkten verfuegbar", "abholbereit", "click & collect"}

AmazonDe(p) ==
    IF p.wall THEN Stock("UNKNOWN")
    ELSE IF Holds(p, AMAZON_UNAVAILABLE) THEN Stock("OUT")
    ELSE IF p.button \/ Holds(p, AMAZON_IN_STOCK) THEN Stock("IN")
    ELSE Stock(IF p.title THEN "OUT" ELSE "UNKNOWN")

GamesIsland(p) ==
    IF FirstKnown(p.jsonld) # None THEN Stock(FirstKnown(p.jsonld))
    ELSE IF Holds(p, UNAVAILABLE_BADGES) THEN Stock("OUT")
    ELSE IF Holds(p, AVAILABLE_BADGES) THEN Stock("IN")
    ELSE DetectStock(p)

\* The raw scan replaces the verdict of an empty reading and leaves it marked
\* as unreadable.
MediaMarktDe(p) ==
    IF FirstKnown(p.jsonld) # None THEN Stock(FirstKnown(p.jsonld))
    ELSE IF p.wall THEN Stock("UNKNOWN")
    ELSE LET found == DetectStock(p)
         IN  IF found.status = "UNKNOWN" /\ FirstKnown(p.raw) # None
             THEN [found EXCEPT !.status = FirstKnown(p.raw)]
             ELSE found

MediaMarktInStore(p) ==
    IF p.wall THEN Stock("UNKNOWN")
    ELSE IF Holds(p, IN_STORE_UNAVAILABLE) THEN Stock("OUT")
    ELSE IF Holds(p, IN_STORE_AVAILABLE) THEN Stock("IN")
    ELSE Stock("UNKNOWN")

HtmlAdapters ==
    {"amazon_de", "games_island", "mediamarkt_de", "mediamarkt_instore", "generic"}

Parse(adapter, p) ==
    CASE adapter = "amazon_de" -> AmazonDe(p)
      [] adapter = "games_island" -> GamesIsland(p)
      [] adapter = "mediamarkt_de" -> MediaMarktDe(p)
      [] adapter = "mediamarkt_instore" -> MediaMarktInStore(p)
      [] OTHER -> DetectStock(p)

\* RetailerAdapter.check: a page that is not there is not parsed.
Check(adapter, p) == IF p.status = 404 THEN NotListed ELSE Parse(adapter, p)

-----------------------------------------------------------------------------
(* Shops that answer with data. *)

Least(prices) == IF prices = {} THEN Nothing ELSE Min(prices)
PricesOf(variants) == {v.price : v \in {w \in variants : w.price # Nothing}}
Buyable(variants) == {v \in variants : v.available}

\* The cheapest variant that can be bought, or of all if none of those has a
\* price.
ShopifyPrice(product) ==
    LET prices == PricesOf(Buyable(product.variants))
    IN  Least(IF prices = {} THEN PricesOf(product.variants) ELSE prices)

\* The product's own flag, or its variants' when it has none; the cart link
\* needs a variant that is available.
Shopify(product) ==
    [status |-> IF \/ product.available = "yes"
                   \/ product.available = "unset" /\ Buyable(product.variants) # {}
                THEN "IN" ELSE "OUT",
     price |-> ShopifyPrice(product),
     cart |-> Buyable(product.variants) # {}]

\* The Cardmarket API; an answer that is no product is an error, not a reading.
Cardmarket(answer) ==
    IF answer.status = 404 THEN NotListed
    ELSE IF answer.status \in {401, 429} \/ answer.articles = Nothing THEN Failure
    ELSE Stock(IF answer.articles >= answer.least THEN "IN" ELSE "OUT")

-----------------------------------------------------------------------------
(* The unlocker, and the alarm for the waiting room of the Pokemon Center. *)

GATEWAY_FAILURE_STATUSES == {429, 500, 502, 503, 504}
BRIGHTDATA_ATTEMPTS == 2
Lost   == 0   \* the API could not be reached
Unsaid == 0   \* the API does not report the status of the shop

\* What one answer of the API is worth: its own status is not the shop's.
Unlocked(a) ==
    IF a.api \in {401, 403} THEN "failed"
    ELSE IF \/ a.api = Lost
            \/ a.upstream = Unsaid /\ a.api \in GATEWAY_FAILURE_STATUSES
            \/ a.empty
         THEN "again"
    ELSE "page"

\* The unlocker follows redirects itself and reports the address it was asked for.
UnlockedPage(a) ==
    [a.page EXCEPT !.status = IF a.upstream # Unsaid THEN a.upstream ELSE a.api,
                   !.location = FALSE, !.queueHost = FALSE]

\* The first attempt whose answer need not be asked for again, 0 if there is none.
Deciding(answers) ==
    LET last == SelectInSeq(answers, LAMBDA a : Unlocked(a) # "again")
    IN  IF last <= BRIGHTDATA_ATTEMPTS THEN last ELSE 0

REDIRECT_STATUSES == {301, 302, 303, 307, 308}
IDLE_STATUSES == {200, 403, 404}
Wall(status) == status \notin IDLE_STATUSES /\ (status = 429 \/ status >= 500)

\* Anything large is the store, whatever is in it; of the rest only the known
\* challenge is told from pages nobody has seen.
Shape(p) ==
    IF p.storeMarker \/ p.large THEN "store"
    ELSE IF p.challengeMarker THEN "challenge"
    ELSE "other"

\* The waiting room itself, by address, by its words, or by the tag on a page
\* that is not the store.
QueueIsLive(p) ==
    \/ p.location /\ p.status \in REDIRECT_STATUSES
    \/ p.queueHost \/ p.queuePhrase
    \/ Shape(p) # "store" /\ p.queueTag

QueueAlarm(p) ==
    IF QueueIsLive(p) \/ Wall(p.status) THEN Stock("IN")
    ELSE IF Shape(p) = "store" THEN Stock("OUT")
    ELSE IF Shape(p) = "other" /\ p.status = 200 THEN Stock("IN")
    ELSE Stock("UNKNOWN")

CheckQueue(p) == IF p.status = 404 THEN NotListed ELSE QueueAlarm(p)

\* The alarm by way of the unlocker.
CheckQueueUnlocked(answers) ==
    LET last == Deciding(answers)
    IN  IF last = 0 \/ Unlocked(answers[last]) = "failed" THEN Failure
        ELSE CheckQueue(UnlockedPage(answers[last]))

-----------------------------------------------------------------------------
(* Which adapter reads a watch.  A host is the sequence of its labels. *)

Suffix(host, n) == SubSeq(host, Len(host) - n + 1, Len(host))

\* The chosen slug if there is such an adapter, else the registered domain the
\* host is or lies under, the longest one first, else the generic adapter.  An
\* own way to fetch is honoured unless a slug decided.
Resolve(slug, host, override, bySlug, byDomain) ==
    LET hits == {n \in 2..Len(host) : Suffix(host, n) \in DOMAIN byDomain}
        longest == CHOOSE n \in hits : \A m \in hits : m <= n
    IN  IF slug \in bySlug THEN [adapter |-> slug, override |-> FALSE]
        ELSE [adapter |-> IF hits # {} THEN byDomain[Suffix(host, longest)] ELSE "generic",
              override |-> override]

=============================================================================
