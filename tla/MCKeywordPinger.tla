-------------------------- MODULE MCKeywordPinger --------------------------
(* An instance of KeywordPinger for TLC: a post and a repost of one drop, the *)
(* repost with a link too long for a button; the second alert wants only the  *)
(* first.                                                                     *)
EXTENDS KeywordPinger, TLC

CONSTANTS s1, s2, box, cards, channel

TwoSenders == {s1, s2}
Same       == Permutations(TwoSenders)
TwoAlerts  == {box, cards}
Both       == {"post", "repost"}
OneText    == [m \in Both |-> "drop"]
Links2     == [m \in Both |-> IF m = "post" THEN "short" ELSE "long"]
Hitting    == [m \in Both |-> IF m = "post" THEN TwoAlerts ELSE {box}]
Buttons    == [l \in {"short", "long"} |-> IF l = "short" THEN "short" ELSE "lo"]
OneChannel  == <<channel>>
=============================================================================
