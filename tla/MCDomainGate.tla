---------------------------- MODULE MCDomainGate ----------------------------
(* Instances of DomainGate for TLC. *)
EXTENDS DomainGate

CONSTANTS p1, cat, br

OnePage    == {p1}
TheCatalog == {cat}
TheBrowser == {br}
AskFor2    == {2}
=============================================================================
