----------------------------- MODULE MCScanner -----------------------------
(* Instances of Scanner for TLC. *)
EXTENDS Scanner

CONSTANTS job, now, a, b, here, there

JobOnly  == {job}
TwoRuns  == {job, now}
Two      == {a, b}
One      == {a}
TwoPages == {here, there}
OnePage  == {here}
OnePrice == {1}
TwoPrices == {1, 2}

AnyOne    == {{}, {a}}      \* keywords that match nothing, or the product
Both      == {{a, b}}
=============================================================================
