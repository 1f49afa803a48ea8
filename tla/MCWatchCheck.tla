---------------------------- MODULE MCWatchCheck ----------------------------
(* Instances of WatchCheck for TLC: who checks, and what a watch is set to. *)
EXTENDS WatchCheck

CONSTANTS job, manual     \* the scheduled job; the "check now" button

OneChecker  == {job}
TwoCheckers == {job, manual}

OnlyErrors  == {"error"}
AllUnpriced == {"error", "partial", "unsure"}
Edits       == {"opt_in", "target", "toggle", "delete"}
OnePrice    == {2}
TwoPrices   == {2, 3}
NoTargets   == {}
NoChange    == {}
OneTarget   == {2}
Unlimited   == -1
=============================================================================
