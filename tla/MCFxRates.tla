----------------------------- MODULE MCFxRates -----------------------------
(* FxRates with two ingest processes and a bank holiday for TLC. *)
EXTENDS FxRates

CONSTANTS i1, i2

TwoIngest == {i1, i2}
Banks     == {1, 2, 4}
=============================================================================
