----------------------------- MODULE ShopListing -----------------------------
(***************************************************************************)
(* Reading pages that list many things: the product list of a scanner      *)
(* (app/scanner.py) and the result list and front page of a shop that a    *)
(* hunt turned up (app/discovery.py).                                      *)
(*                                                                         *)
(* An entry of a page is the key of its address (host and path without     *)
(* query, fragment and last slash), the length of its title, its price if  *)
(* it has one, and what kind of link it is.                                *)
(***************************************************************************)
EXTENDS Integers, FiniteSets, SequencesExt

NoPrice   == -1
MinTitle  == 12       \* a shorter text is a menu, not a product

-----------------------------------------------------------------------------
(* Products of a listing. *)

\* _jsonld_products: every Product with an address and a name.
JsonLdProducts(entries) ==
    {e \in Range(entries) : e.kind = "jsonld" /\ e.title > 0}

\* _anchor_products: links on the shop's own host, not to its services, with a
\* text long enough; if any of those has a product path, only those.
AnchorProducts(entries) ==
    LET links == {e \in Range(entries) : e.kind \in {"product", "plain"} /\ e.title >= MinTitle}
        likely == {e \in links : e.kind = "product"}
    IN  IF likely # {} THEN likely ELSE links

Candidates(entries) == JsonLdProducts(entries) \cup AnchorProducts(entries)

\* The richer of two records of one product: the longer title, the first price.
Richer(kept, e) ==
    [kept EXCEPT !.price = IF @ = NoPrice THEN e.price ELSE @,
                 !.title = IF e.title > @ THEN e.title ELSE @]

Record(e) == [key |-> e.key, title |-> e.title, price |-> e.price]

\* One record per key, in the order the keys first appear.
Merge(merged, e) ==
    IF \E i \in DOMAIN merged : merged[i].key = e.key
    THEN [i \in DOMAIN merged |->
             IF merged[i].key = e.key THEN Richer(merged[i], e) ELSE merged[i]]
    ELSE Append(merged, Record(e))

MergeWanted(start, entries, wanted) ==
    FoldLeft(LAMBDA merged, e : IF e \in wanted THEN Merge(merged, e) ELSE merged,
             start, entries)

\* parse_listing: the structured data of the page first, then its links.
ParseListing(entries) ==
    MergeWanted(MergeWanted(<<>>, entries, JsonLdProducts(entries)),
                entries, AnchorProducts(entries))

-----------------------------------------------------------------------------
(* Shops found by a search. *)

\* search_web: results with an address, as many as asked for.
SearchHits(results, limit) ==
    FoldLeft(LAMBDA hits, r : IF r.http /\ Len(hits) < limit THEN Append(hits, r) ELSE hits,
             <<>>, results)

\* A host that holds one of the tokens anywhere in its name, or lies in the
\* domain of a shop of the catalogue.
IsExcludedDomain(host, tokens, catalog) ==
    host.holds \cap tokens # {} \/ \E shop \in catalog : IsSuffix(shop, host.labels)

ScoreHomepage(site) ==
    (IF site.impressum THEN 3 ELSE -3)
    + (IF site.agb THEN 1 ELSE 0)
    + (IF site.datenschutz THEN 1 ELSE 0)
    + (CASE site.payment = "protected" -> 2
         [] site.payment = "prepay"    -> -2
         [] site.payment = "unclear"   -> 0)

\* Trustpilot: ratings in tenths; no profile counts for nothing.
ScoreReviews(site) ==
    IF site.rating = 0 THEN 0
    ELSE IF site.reviews >= 50 /\ site.rating >= 37 THEN 4
    ELSE IF site.rating < 30 THEN -3
    ELSE 1

Score(site) ==
    (CASE site.home = "up"    -> ScoreHomepage(site)
       [] site.home = "error" -> -3
       [] site.home = "down"  -> -4)
    + ScoreReviews(site)

Verdict(site) ==
    IF Score(site) >= 6 THEN "trusted"
    ELSE IF Score(site) >= 2 THEN "check"
    ELSE "suspicious"

=============================================================================
