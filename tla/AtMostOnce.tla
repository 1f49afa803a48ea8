----------------------------- MODULE AtMostOnce -----------------------------
(***************************************************************************)
(* What every finder of the tracker promises: things become known, what is *)
(* known may be told, nothing is told before it is known or more than      *)
(* once, and nothing that is known or told is ever taken back, whatever    *)
(* crashes in between.                                                     *)
(***************************************************************************)
EXTENDS Naturals

CONSTANT Items
VARIABLES known, told

Init == known = {} /\ told = [x \in Items |-> 0]

Learn(some) ==
    /\ known' = known \cup some
    /\ UNCHANGED told

Tell(x) ==
    /\ x \in known /\ told[x] = 0
    /\ told' = [told EXCEPT ![x] = 1]
    /\ UNCHANGED known

Next == (\E some \in SUBSET Items : Learn(some)) \/ (\E x \in Items : Tell(x))

Spec == Init /\ [][Next]_<<known, told>>
=============================================================================
