------------------------- MODULE MCMarketSnapshots -------------------------
(* MarketSnapshots with one process of each kind for TLC. *)
EXTENDS MarketSnapshots

CONSTANTS s1, o1

OneScheduler == {s1}
OneOperator  == {o1}
=============================================================================
