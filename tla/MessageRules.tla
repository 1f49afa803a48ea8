---------------------------- MODULE MessageRules ----------------------------
(***************************************************************************)
(* The rules that decide whether somebody is told: the keyword rules of    *)
(* app/keyword_match.py, the routes of app/events.py, the quiet hours of   *)
(* app/notify/service.py, and how the two price readers take a number.     *)
(*                                                                         *)
(* A message is the set of the configured words it contains (after         *)
(* folding, as substrings), the prices in it and its channel.  Prices are  *)
(* whole cents, an absent limit is Unset.  Whole parts stay below 10000:   *)
(* both patterns take four digits that are not grouped.                    *)
(***************************************************************************)
EXTENDS Integers, FiniteSets, SequencesExt

Unset == -1

-----------------------------------------------------------------------------
(* Keyword rules. *)

\* parse_ranges: every entry of the field in turn; a later one replaces what an
\* earlier one set, and what is no price rule is a size.
ParseRanges(entries) ==
    FoldLeft(LAMBDA limits, e :
                 CASE e.kind = "min"   -> [limits EXCEPT !.low = e.low]
                   [] e.kind = "max"   -> [limits EXCEPT !.high = e.high]
                   [] e.kind = "range" -> [limits EXCEPT !.low = e.low, !.high = e.high]
                   [] e.kind = "size"  -> [limits EXCEPT !.sizes = @ \cup {e.word}],
             [low |-> Unset, high |-> Unset, sizes |-> {}], entries)

\* The first alternative, in the order written, all of whose terms are there; 0
\* if there is none.
FirstHit(rules, message) ==
    SelectInSeq(rules.positives, LAMBDA group : group \subseteq message.words)

\* A limit only rejects prices it saw, and one price in the limits is enough.
WithinLimits(rules, message) ==
    \/ rules.low = Unset /\ rules.high = Unset
    \/ message.prices = {}
    \/ \E price \in message.prices :
           /\ rules.low # Unset => rules.low <= price
           /\ rules.high # Unset => price <= rules.high

Matches(rules, message) ==
    /\ rules.channels = {} \/ message.channel \in rules.channels
    /\ FirstHit(rules, message) # 0
    /\ rules.negatives \cap message.words = {}
    /\ rules.sizes = {} \/ rules.sizes \cap message.words # {}
    /\ WithinLimits(rules, message)

-----------------------------------------------------------------------------
(* Numbers as shops write them: the whole part, perhaps grouped by thousands *)
(* with a dot or a comma, perhaps two decimals after a comma or a dot: the    *)
(* other one, if the whole part is grouped.                                   *)

Grouped(n)   == n.group # "none" /\ n.whole >= 1000
Bald(n)      == n.cents = Unset
Meant(n)     == n.whole * 100 + (IF Bald(n) THEN 0 ELSE n.cents)
Rounded(thousandths) == (thousandths + 5) \div 10

\* parse_german_price: with both separators the last one is the decimal one; a
\* lone comma is one before one or two digits; a lone dot always is.
ParseGermanPrice(n) ==
    IF Grouped(n) /\ n.group = "dot" /\ Bald(n) THEN Rounded(n.whole) ELSE Meant(n)

\* _number of the keyword rules: with both separators the dot groups and the
\* comma is the decimal one; a lone one of either kind is decimal.
Number(n) ==
    IF Grouped(n) /\ (n.group = "comma" \/ Bald(n)) THEN Rounded(n.whole) ELSE Meant(n)

-----------------------------------------------------------------------------
(* Routes and quiet hours. *)

Route(kind, value) == <<kind, value>>

\* A pattern is "*", a kind and "*", a route, or a bare word.
RouteMatches(pattern, routes) ==
    \/ pattern = <<"*">>
    \/ pattern \in routes
    \/ /\ Len(pattern) = 2 /\ pattern[2] = "*"
       /\ \E r \in routes : r[1] = pattern[1]
    \/ /\ Len(pattern) = 1
       /\ \E r \in routes : pattern[1] \in {r[1], r[2]}

\* What a watch or a scanner tells is routed by its game, the channels chosen
\* for it, and its own number.  A choice may also be a whole route.
StockRoutes(game, channels, kind, id) ==
    {Route("stock", game), Route(kind, id)}
        \cup {IF Len(c) = 1 THEN Route("channel", c[1]) ELSE c : c \in channels}

\* Faulty variant: a window over midnight is taken for one of the day.
QuietWithoutWrap(start, end, hour) == start <= hour /\ hour < end

Quiet(start, end, hour) ==
    /\ start \in 0..23 /\ end \in 0..23 /\ start # end
    /\ IF start < end THEN start <= hour /\ hour < end
                      ELSE hour >= start \/ hour < end

Undisturbed == {"TEST", "HEARTBEAT"}

\* Events somebody is woken for go out in the quiet hours.
Suppressed(event, start, end) ==
    /\ ~event.priority
    /\ event.type \notin Undisturbed
    /\ Quiet(start, end, event.hour)

=============================================================================
