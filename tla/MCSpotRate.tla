----------------------------- MODULE MCSpotRate -----------------------------
(* SpotRate for TLC: the providers, the sources and the prices of a run.     *)
EXTENDS SpotRate

AllProviders == {"picker", "oracle", "carry"}
TwoSources == 1 .. 2
FarPrices == {1, 2, 4}
=============================================================================
