------------------------------- MODULE MCJobs -------------------------------
(* An instance of Jobs for TLC: a watch and a hunt, one slot. *)
EXTENDS Jobs

CONSTANTS shirt, scout, one, two, left, right

OneWatch    == {shirt}
OneHunt     == {scout}
NoScans     == {}
WatchesOnly == {"watches"}
TwoHandlers == {one, two}
TwoSweeps   == {left, right}
=============================================================================
