---------------------------- MODULE MCDecisions ----------------------------
(* Small sets of every kind of input, each with the boundary cases of its rule. *)
EXTENDS Decisions

MCSeqs(words, n) == UNION {[1..k -> words] : k \in 0..n}

MCPages ==
    {p \in [status: {200, 404}, jsonld: {<<>>, <<"instock">>, <<"reserved", "soldout">>},
            microdata: {<<>>, <<"instock">>, <<"soldout", "instock">>},
            raw: {<<>>, <<"preorder">>, <<"discontinued">>},
            button: BOOLEAN, soldOut: BOOLEAN, text: Texts, wall: BOOLEAN, title: BOOLEAN] :
        /\ p.raw # <<>> \/ p.status = 404 => p.text = "silent" /\ p.title
        /\ p.text # "silent" => p.microdata = <<>>}
MCProducts ==
    [available: {"unset", "yes", "no"},
     variants: {v \in SUBSET [available: BOOLEAN, price: {Nothing, 499, 999}] : v # {}}]
MCAnswers == [status: {200, 401, 404, 429, 500}, articles: {Nothing, 0, 1, 5}, least: 0..2]
MCQueuePages ==
    [status: {200, 302, 403, 404, 429, 503, 520}, location: BOOLEAN, queueHost: BOOLEAN,
     queuePhrase: BOOLEAN, queueTag: BOOLEAN,
     storeMarker: BOOLEAN, large: BOOLEAN, challengeMarker: BOOLEAN]
MCApiAnswers ==
    [api: {Lost, 200, 401, 502, 520}, upstream: {Unsaid, 200, 503}, empty: BOOLEAN,
     page: {p \in MCQueuePages : /\ p.status = 200 /\ ~p.location /\ ~p.queueHost
                                 /\ ~p.large /\ ~p.queueTag
                                 /\ Cardinality({k \in {"storeMarker", "challengeMarker", "queuePhrase"} :
                                                     p[k]}) <= 1}]

MCSlugs == {"mediamarkt_de", "queue"}
MCDomains == (<<"shop", "de">> :> "shop" @@ <<"outlet", "shop", "de">> :> "outlet")
MCHosts ==
    {<<"shop", "de">>, <<"www", "shop", "de">>, <<"a", "outlet", "shop", "de">>,
     <<"outlet", "shop", "de">>, <<"a", "shop", "de">>, <<"myshop", "de">>, <<"de">>}

MCLimit(kind, low, high, word) == [kind |-> kind, low |-> low, high |-> high, word |-> word]
MCMin   == MCLimit("min", 20, Unset, "")
MCMax   == MCLimit("max", Unset, 30, "")
MCRange == MCLimit("range", 10, 20, "")
MCSize  == MCLimit("size", Unset, Unset, "etb")
MCRangeFields ==
    {<<>>, <<MCMin>>, <<MCMax>>, <<MCMin, MCMax>>, <<MCMin, MCRange>>, <<MCRange, MCMax>>,
     <<MCSize, MCMin>>}
MCWords == {"pokemon", "display", "etb"}
MCPositives == {<<>>, <<{"pokemon", "display"}>>, <<{"display"}, {"etb"}>>}
MCPostedPrices == {10, 30}
MCPostChannels == {"drops", "chat"}

MCNumbers ==
    [whole: {5, 999, 1000, 1299, 9999}, group: {"none", "dot", "comma"}, cents: {Unset, 0, 99}]
MCHours == -1..24
MCGames == {"pokemon", "one_piece"}
MCChannels == {<<"drops">>, <<"stock", "one_piece">>}
MCPatterns ==
    {<<"*">>, <<"stock", "*">>, <<"stock", "pokemon">>, <<"pokemon">>, <<"one_piece">>,
     <<"channel", "drops">>, <<"drops">>, <<"watch", "*">>, <<"7">>, <<"news", "*">>}

MCEntries ==
    {e \in [key: {"a", "b"}, kind: {"jsonld", "product", "plain", "menu"}, title: {11, 12},
            price: {NoPrice, 999}] : e.title = 12 \/ e.price # NoPrice}
MCListings == MCSeqs(MCEntries, 3)
MCResults == MCSeqs([http: BOOLEAN, n: {1, 2}], 4)
MCShopDomains == {<<"shop", "de">>}
MCTokens == {"ebay."}
MCFound ==
    [labels: {<<"shop", "de">>, <<"m", "shop", "de">>, <<"myshop", "de">>},
     holds: SUBSET {"ebay."}]
MCSites ==
    [home: {"up", "error", "down"}, impressum: BOOLEAN, agb: BOOLEAN, datenschutz: BOOLEAN,
     payment: {"protected", "prepay", "unclear"}, rating: {0, 10, 29, 30, 36, 37, 50},
     reviews: {0, 49, 50}]

=============================================================================
