----------------------------- MODULE MCFinders -----------------------------
(* Instances of Finders for TLC: two news, one shop or none. *)
EXTENDS Finders

CONSTANTS set, promo, shop, one, two

OneShop    == {shop}
TwoItems   == {set, promo}
NoShops    == {}
OnlyPromo  == {promo}
TwoWorkers == {one, two}
OneWorker  == {one}
=============================================================================
