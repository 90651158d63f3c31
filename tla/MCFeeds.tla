------------------------------ MODULE MCFeeds -------------------------------
(* Feeds for TLC: the markets of a run and what oracle and pool may answer.  *)
EXTENDS Feeds

AllKinds == {"spot", "anchored", "pool", "perp", "future", "option"}
TwoPrices == {1, 2}
=============================================================================
