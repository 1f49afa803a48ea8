----------------------------- MODULE MCWatchdog -----------------------------
(* An instance of Watchdog for TLC: one watch and one scanner. *)
EXTENDS Watchdog

CONSTANTS shirt, shop

OneWatch == {shirt}
OneScan  == {shop}
=============================================================================
