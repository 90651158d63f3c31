------------------------- MODULE MCFillAccounting ---------------------------
(* FillAccounting for TLC: two orders, of two lots at most.                 *)
EXTENDS FillAccounting, TLC

CONSTANTS o1, o2, h1

TwoOrders == {o1, o2}
OneHandler == {h1}
NoHandler == {}
Symmetry == Permutations(Orders)
=============================================================================
