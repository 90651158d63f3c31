--------------------------- MODULE MCQuotingLoop ----------------------------
(* QuotingLoop for TLC: the sets of model values, and the operators' and     *)
(* the environment's choices that each run allows.                           *)
EXTENDS QuotingLoop, TLC

CONSTANTS b1, h1

OneBot == {b1}
OneHandler == {h1}
NoHandler == {}
=============================================================================
