------------------------------ MODULE Decisions ------------------------------
(***************************************************************************)
(* Every decision the program takes by a rule, one at a time: what a page  *)
(* says, which adapter reads it, whom an event reaches and when, what a    *)
(* message has to hold, what a listing and a found shop amount to.  Each   *)
(* step picks one input and decides it; what must be true of all of them   *)
(* is below, in terms of the input and of what other inputs would give.    *)
(***************************************************************************)
EXTENDS PageReading, MessageRules, ShopListing

CONSTANTS
    Pages,        \* HTML pages, as the signals on them
    Products,     \* products of a Shopify shop
    Answers,      \* answers of the Cardmarket API
    QueuePages,   \* pages the queue alarm may get
    ApiAnswers,   \* answers of the unlocker API
    Slugs, Domains, Hosts,             \* adapters, and where they are
    RangeFields, Positives, Words,     \* keyword rules
    PostedPrices, PostChannels,        \* messages
    Numbers,      \* numbers as they are written
    Hours,        \* what may stand in the quiet hours
    Games, Channels, Patterns,         \* routes
    Listings,     \* listing pages
    Results, ShopDomains, Tokens, Found,   \* search results, and whose they are
    MaxHits,      \* limit of search_web
    Sites         \* front pages of shops

\* What the inputs are.  Statuses, counts and prices may be any; every registered
\* domain has a dot in it.
Labels == Seq(STRING)
MaxWhole == 999999      \* from there on a number has two groups of thousands
Written == [whole: 0..MaxWhole, group: {"none", "dot", "comma"}, cents: {Unset} \cup 0..99]
QueuePage ==
    [status: Nat, location: BOOLEAN, queueHost: BOOLEAN, queuePhrase: BOOLEAN,
     queueTag: BOOLEAN, storeMarker: BOOLEAN, large: BOOLEAN, challengeMarker: BOOLEAN]

ASSUME PagesAssumption ==
    /\ Pages \subseteq [status: Nat, jsonld: Seq(STRING), microdata: Seq(STRING), raw: Seq(STRING),
                       button: BOOLEAN, soldOut: BOOLEAN, text: Texts, wall: BOOLEAN, title: BOOLEAN]
    /\ QueuePages \subseteq QueuePage
    /\ ApiAnswers \subseteq [api: Nat, upstream: Nat, empty: BOOLEAN, page: QueuePage]
ASSUME DataAssumption ==
    /\ Products \subseteq [available: {"unset", "yes", "no"},
                          variants: SUBSET [available: BOOLEAN, price: {Nothing} \cup Nat]]
    /\ Answers \subseteq [status: Nat, articles: {Nothing} \cup Nat, least: Int]
ASSUME AdaptersAssumption ==
    /\ None \notin Slugs
    /\ Hosts \subseteq Labels
    /\ \A d \in DOMAIN Domains : d \in Labels /\ Len(d) >= 2
ASSUME MessagesAssumption ==
    /\ Positives \subseteq Seq(SUBSET Words)
    /\ Numbers \subseteq Written
    /\ Hours \subseteq Int
ASSUME ShopsAssumption ==
    /\ Listings \subseteq Seq([key: STRING, kind: {"jsonld", "product", "plain", "menu"},
                              title: Nat, price: {NoPrice} \cup Nat])
    /\ Results \subseteq Seq([http: BOOLEAN, n: Nat]) /\ MaxHits \in Nat
    /\ ShopDomains \subseteq Labels \ {<<>>}
    /\ Found \subseteq [labels: Labels, holds: SUBSET Tokens]
    /\ Sites \subseteq [home: {"up", "error", "down"}, impressum: BOOLEAN, agb: BOOLEAN,
                       datenschutz: BOOLEAN, payment: {"protected", "prepay", "unclear"},
                       rating: Nat, reviews: Nat]

VARIABLE decision

DecisionInit == decision = [of |-> "nothing"]

Undecided == decision.of = "nothing"
Decided(of, input, result) ==
    decision' = [of |-> of, input |-> input, result |-> result]

ReadPage ==
    /\ Undecided
    /\ \E adapter \in HtmlAdapters, p \in Pages :
           Decided("page", <<adapter, p>>, Check(adapter, p))

ReadTwice ==
    /\ Undecided
    /\ LET plain == {p \in Pages : p.text = "silent" /\ p.raw = <<>> /\ ~p.wall /\ p.title}
       IN  \E p \in plain, q \in plain :
               Decided("twice", <<p, q>>, Settle(Check("generic", p), Check("generic", q)))

ReadData ==
    /\ Undecided
    /\ \/ \E product \in Products : Decided("product", product, Shopify(product))
       \/ \E answer \in Answers : Decided("answer", answer, Cardmarket(answer))

ReadQueue ==
    /\ Undecided
    /\ \/ \E p \in QueuePages : Decided("queue", p, CheckQueue(p))
       \/ \E a \in ApiAnswers, b \in ApiAnswers :
              Decided("unlocker", <<a, b>>, CheckQueueUnlocked(<<a, b>>))

ResolveAdapter ==
    /\ Undecided
    /\ \E slug \in Slugs \cup {None}, host \in Hosts, override \in BOOLEAN :
           Decided("adapter", <<slug, host, override>>,
                   Resolve(slug, host, override, Slugs, Domains))

MatchMessage ==
    /\ Undecided
    /\ \E field \in RangeFields, positives \in Positives, negatives \in SUBSET Words,
          channels \in {{}, {CHOOSE c \in PostChannels : TRUE}}, words \in SUBSET Words,
          prices \in SUBSET PostedPrices, channel \in PostChannels :
           LET limits == ParseRanges(field)
               rules == [channels |-> channels, positives |-> positives, negatives |-> negatives,
                         low |-> limits.low, high |-> limits.high, sizes |-> limits.sizes]
               message == [words |-> words, prices |-> prices, channel |-> channel]
           IN  Decided("message", <<rules, message>>, Matches(rules, message))

ReadNumber ==
    /\ Undecided
    /\ \E n \in Numbers : Decided("number", n, <<ParseGermanPrice(n), Number(n)>>)

Disturb ==
    /\ Undecided
    /\ \E start \in Hours, end \in Hours, hour \in 0..23,
          type \in {"BACK_IN_STOCK", "HEARTBEAT"}, priority \in BOOLEAN :
           LET event == [type |-> type, priority |-> priority, hour |-> hour]
           IN  Decided("quiet", <<event, start, end>>, Suppressed(event, start, end))

RouteEvent ==
    /\ Undecided
    /\ \E game \in Games, chosen \in SUBSET Channels, pattern \in Patterns :
           Decided("route", <<game, chosen, pattern>>,
                   RouteMatches(pattern, StockRoutes(game, chosen, "watch", "7")))

ReadListing ==
    /\ Undecided
    /\ \E l \in Listings : Decided("listing", l, ParseListing(l))

VetShop ==
    /\ Undecided
    /\ \/ \E r \in Results : Decided("search", r, SearchHits(r, MaxHits))
       \/ \E host \in Found : Decided("domain", host, IsExcludedDomain(host, Tokens, ShopDomains))
       \/ \E site \in Sites : Decided("site", site, Verdict(site))

DecisionNext ==
    \/ ReadPage \/ ReadTwice \/ ReadData \/ ReadQueue \/ ResolveAdapter \/ MatchMessage
    \/ ReadNumber \/ Disturb \/ RouteEvent \/ ReadListing \/ VetShop

DecisionSpec == DecisionInit /\ [][DecisionNext]_decision

-----------------------------------------------------------------------------
(* Readings. *)

\* What the words of a shop mean to a reader, whatever the tables of the code hold.
Denials(adapter) ==
    IF adapter = "mediamarkt_instore"
    THEN {"in_keinem_markt", "in_null_maerkten", "nicht_im_markt", "nicht_abholbereit",
          "nicht_abholbar_click_collect"}
    ELSE {"nicht_auf_lager", "derzeit_nicht_auf_lager", "derzeit_nicht_verfuegbar",
          "nicht_lieferbar", "ausverkauft", "ausverkauft_bald_lieferbar"}
Offers(adapter) ==
    IF adapter = "mediamarkt_instore" THEN {"abholbereit"}
    ELSE {"auf_lager", "sofort_verfuegbar", "lieferbar"}

\* The words that are read against their meaning: no table of the adapter holds
\* them, and a shorter phrase that is part of them, or the button, decides.
Misread ==
    [amazon_de          |-> {"nicht_auf_lager", "nicht_lieferbar", "ausverkauft",
                             "ausverkauft_bald_lieferbar"},
     games_island       |-> {"nicht_lieferbar"},
     mediamarkt_de      |-> {"nicht_auf_lager"},
     mediamarkt_instore |-> {"in_null_maerkten", "nicht_abholbereit", "click_collect"},
     generic            |-> {"nicht_auf_lager"}]

\* A sold-out notice beside the words about the product counts where the adapter
\* has no place of its own to look for them, or finds none there.
Denies(adapter, p) ==
    \/ p.text \in Denials(adapter)
    \/ p.soldOut /\ adapter \in {"generic", "mediamarkt_de"}
    \/ p.soldOut /\ adapter = "games_island" /\ p.text = "silent"

Vouches(adapter, p) ==
    \/ p.button
    \/ p.text \in Offers(adapter)
    \/ adapter \notin {"amazon_de", "mediamarkt_instore"} /\ FirstKnown(p.jsonld) = "IN"
    \/ adapter = "mediamarkt_de" /\ FirstKnown(p.raw) = "IN"

\* A page is read as buyable only if something an order could be placed on, the
\* words of the shop or its own data for this product say so (microdata is
\* neither), and not against its words unless its data says otherwise.  The words
\* in Misread are excepted: with them the code does read a product as buyable of
\* which the shop says that it is not or, with the menu entry "Click & Collect",
\* says nothing.  A sold-out notice more or a button less never makes a page
\* buyable.  What has no verdict is marked so, but for the raw scan of MediaMarkt.
PageIsSound(adapter, p, r) ==
    /\ r.status = "IN" /\ p.text \notin Misread[adapter] =>
          /\ Vouches(adapter, p)
          /\ Denies(adapter, p) => FirstKnown(p.jsonld) = "IN"
    /\ Check(adapter, [p EXCEPT !.soldOut = TRUE]).status = "IN" => r.status = "IN"
    /\ Check(adapter, [p EXCEPT !.button = FALSE]).status = "IN" => r.status = "IN"
    /\ ~r.readable => r.status = "UNKNOWN" \/ (adapter = "mediamarkt_de" /\ p.raw # <<>>)

\* The second look never overturns a first one that said something.
TwiceIsSound(p, q, r) ==
    /\ Check("generic", p).readable => r = Check("generic", p)
    /\ r.readable <=> Check("generic", p).readable \/ Check("generic", q).readable

\* The price of a ping is one at which something can be bought, and never above
\* another such price; a cart link leads to a variant that is there.
ProductIsSound(product, r) ==
    LET there == PricesOf(Buyable(product.variants))
    IN  /\ there # {} => r.price \in there /\ \A x \in there : r.price <= x
        /\ r.cart => \E v \in product.variants : v.available

\* The alarm says "quiet" only of a page that is the store, in answer to a
\* request the edge served as it does at rest; it never says so behind the bot
\* check, where it is blind.  The words and the address of the waiting room are
\* heard on every page, the tag alone only where the store does not carry it.
QueueIsSound(p, r) ==
    /\ r.status = "OUT" =>
          /\ p.storeMarker \/ p.large
          /\ ~p.queuePhrase /\ ~p.queueHost /\ ~Wall(p.status)
    /\ (p.queuePhrase \/ p.queueHost) /\ p.status # 404 => r.status = "IN"
    /\ (p.storeMarker /\ p.status = 200 /\ ~p.queuePhrase /\ ~p.queueHost)
           => r.status = "OUT"
    /\ (/\ p.challengeMarker /\ ~p.storeMarker /\ ~p.large /\ p.status \in {200, 403}
        /\ ~p.queuePhrase /\ ~p.queueHost /\ ~p.queueTag)
           => r.status = "UNKNOWN"

\* A gateway that fails with 429, 500, 502, 503 or 504 is never taken for the shop's
\* wall; one that fails with a body and any other status from 500 on is, the 520 to
\* 529 of a content delivery network among them.  One answer of two is enough unless
\* the first one says that asking again is no use.
UnlockerIsSound(a, b, r) ==
    /\ r.status = "IN" =>
          LET c == <<a, b>>[Deciding(<<a, b>>)]
          IN  \/ CheckQueue([UnlockedPage(c) EXCEPT !.status = 200]).status = "IN"
              \/ c.upstream # Unsaid
              \/ c.api = 501 \/ c.api >= 505
    /\ Unlocked(a) = "page" => r = CheckQueue(UnlockedPage(a))
    /\ Unlocked(a) = "again" /\ Unlocked(b) = "page" => r = CheckQueue(UnlockedPage(b))

\* The adapter of a host is the one registered for the closest domain above it.
AdapterIsSound(slug, host, r) ==
    slug = None =>
        \A d \in DOMAIN Domains :
            /\ IsSuffix(d, host)
            /\ \A e \in DOMAIN Domains : IsSuffix(e, host) => Len(e) <= Len(d)
            => r.adapter = Domains[d]

\* What a page, a product, an API or the unlocker says is read soundly: see the
\* parts above.  Code: detection.py and the adapters.
ReadingsAreSound ==
    LET i == decision.input
        r == decision.result
    IN  CASE decision.of = "page"     -> PageIsSound(i[1], i[2], r)
          [] decision.of = "twice"    -> TwiceIsSound(i[1], i[2], r)
          [] decision.of = "product"  -> ProductIsSound(i, r)
          [] decision.of = "answer"   -> r.status = "IN" => i.articles > 0 \/ i.least <= 0
          [] decision.of = "queue"    -> QueueIsSound(i, r)
          [] decision.of = "unlocker" -> UnlockerIsSound(i[1], i[2], r)
          [] decision.of = "adapter"  -> AdapterIsSound(i[1], i[2], r)
          [] OTHER -> TRUE

-----------------------------------------------------------------------------
(* Choices. *)

\* A hit names an alternative that is in the message, and the first such one.  One
\* more alternative neither silences a rule nor changes that name, one more
\* unwanted word never makes it fire, a wider limit never silences it, and limits
\* never reject a message without a price.
MessageIsSound(rules, message, fires) ==
    /\ fires =>
          /\ rules.positives[FirstHit(rules, message)] \subseteq message.words
          /\ \A i \in 1..(FirstHit(rules, message) - 1) :
                 ~(rules.positives[i] \subseteq message.words)
          /\ \A group \in SUBSET Words :
                 LET more == [rules EXCEPT !.positives = Append(@, group)]
                 IN  Matches(more, message) /\ FirstHit(more, message) = FirstHit(rules, message)
          /\ Matches([rules EXCEPT !.low = Unset], message)
          /\ Matches([rules EXCEPT !.high = Unset], message)
          /\ Matches([rules EXCEPT !.channels = {}], message)
    /\ \A w \in Words :
          Matches([rules EXCEPT !.negatives = @ \cup {w}], message) => fires
    /\ message.prices = {} =>
          fires = Matches([rules EXCEPT !.low = Unset, !.high = Unset], message)

\* A number is read as it was meant, or too low by the factor of its grouping, and
\* never too high: a maximum never turns away a price below it.  A minimum may, when
\* the price is read too low.
NumberIsSound(n, read) ==
    /\ read[1] # Meant(n) => Grouped(n) /\ n.group = "dot" /\ Bald(n)
    /\ read[2] # Meant(n) => Grouped(n) /\ (n.group = "comma" \/ Bald(n))
    /\ read[1] <= Meant(n) /\ read[2] <= Meant(n)

\* The quiet hours are those from the first to before the last one around the
\* clock, and neither a priority nor a test or a sign of life is kept back.
QuietIsSound(event, start, end, kept) ==
    /\ kept => ~event.priority /\ event.type # "HEARTBEAT"
    /\ /\ start \in 0..23 /\ end \in 0..23
       /\ ~event.priority /\ event.type = "BACK_IN_STOCK"
       => (kept <=> \E k \in 0..22 : /\ k < (end - start) % 24
                                     /\ event.hour = (start + k) % 24)

\* Choosing more channels only adds recipients, and none of the choices can keep
\* an event from its game's channel or from one that takes everything.
RouteIsSound(game, chosen, pattern, matches) ==
    /\ matches => RouteMatches(pattern, StockRoutes(game, Channels, "watch", "7"))
    /\ pattern \in {<<"*">>, <<"stock", "*">>, Route("stock", game), <<game>>} => matches

\* A listing has one record per product of the page and misses none, each with its
\* longest title and, if the page has a price for it, one of those; where links
\* look like products, menus are no product.
ListingIsSound(l, found) ==
    LET keys == {found[i].key : i \in DOMAIN found}
        of(key) == {e \in Candidates(l) : e.key = key}
    IN  /\ Cardinality(keys) = Len(found)
        /\ keys = {e.key : e \in Candidates(l)}
        /\ \A i \in DOMAIN found :
              /\ \A e \in of(found[i].key) : e.title <= found[i].title
              /\ \E e \in of(found[i].key) : e.title = found[i].title
              /\ IF found[i].price = NoPrice
                 THEN \A e \in of(found[i].key) : e.price = NoPrice
                 ELSE \E e \in of(found[i].key) : e.price = found[i].price
        /\ (\E e \in Range(l) : e.kind = "product" /\ e.title >= MinTitle) =>
              \A key \in keys : \E e \in of(key) : e.kind \in {"jsonld", "product"}

\* A search brings addresses only, never more than asked for, and all of them if
\* that were too few.
SearchIsSound(results, hits) ==
    /\ Len(hits) <= MaxHits
    /\ \A k \in DOMAIN hits : hits[k].http
    /\ Len(hits) < MaxHits => {r \in Range(results) : r.http} \subseteq Range(hits)

\* No shop of the catalogue is taken for a new one, at whatever depth below its
\* domain the host lies, and none is left out for a name that merely ends alike.
DomainIsSound(host, excluded) ==
    LET labels == host.labels
        under == \E k \in DOMAIN labels : SubSeq(labels, k, Len(labels)) \in ShopDomains
    IN  host.holds \cap Tokens = {} => (excluded <=> under)

\* A shop is trusted only with an imprint and a front page that loads, whatever
\* its reviews, and nothing that speaks for it ever lowers the verdict.
SiteIsSound(site, verdict) ==
    LET worth(v) == CASE v = "suspicious" -> 0 [] v = "check" -> 1 [] v = "trusted" -> 2
    IN  /\ verdict = "trusted" => site.home = "up" /\ site.impressum
        /\ site.home # "up" => verdict = "suspicious"
        /\ \A better \in {[site EXCEPT !.impressum = TRUE], [site EXCEPT !.agb = TRUE],
                          [site EXCEPT !.datenschutz = TRUE],
                          [site EXCEPT !.payment = "protected"],
                          [site EXCEPT !.reviews = @ + 50]} :
              worth(verdict) <= worth(Verdict(better))

\* Who is told, when, and of what, is chosen soundly: see the parts above.
\* Code: keyword_match.py, events.py, notify/service.py, scanner.py, discovery.py.
ChoicesAreSound ==
    LET i == decision.input
        r == decision.result
    IN  CASE decision.of = "message" -> MessageIsSound(i[1], i[2], r)
          [] decision.of = "number"  -> NumberIsSound(i, r)
          [] decision.of = "quiet"   -> QuietIsSound(i[1], i[2], i[3], r)
          [] decision.of = "route"   -> RouteIsSound(i[1], i[2], i[3], r)
          [] decision.of = "listing" -> ListingIsSound(i, r)
          [] decision.of = "search"  -> SearchIsSound(i, r)
          [] decision.of = "domain"  -> DomainIsSound(i, r)
          [] decision.of = "site"    -> SiteIsSound(i, r)
          [] OTHER -> TRUE

=============================================================================
