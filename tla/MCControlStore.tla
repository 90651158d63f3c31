--------------------------- MODULE MCControlStore ---------------------------
(* ControlStore for TLC: two requests in progress beside the loop, three     *)
(* nonce ranges.                                                             *)
EXTENDS ControlStore, TLC

CONSTANTS h1, h2

MCHandlers == {h1, h2}
=============================================================================
