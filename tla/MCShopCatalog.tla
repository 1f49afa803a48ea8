--------------------------- MODULE MCShopCatalog ---------------------------
(* Instances of ShopCatalog for TLC. *)
EXTENDS ShopCatalog

CONSTANTS g, s, x, y

TwoWatches == {g, s}
TheShopify == {s}
TwoHandles == {x, y}
OwnHandle  == [w \in TwoWatches |-> IF w = g THEN x ELSE y]

Sells(a, b) == [h \in TwoHandles |-> IF h = x THEN a ELSE b]
FewShelves == {Sells("out", "unlisted"), Sells("in", "unlisted"), Sells("unlisted", "in"), Sells("in", "in"),
               Sells("unlisted", "unlisted")}
=============================================================================
