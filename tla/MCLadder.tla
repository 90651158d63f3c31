------------------------------ MODULE MCLadder ------------------------------
(* Ladder for TLC: a two-level ladder that stays, moves by less than the    *)
(* drift threshold, moves by more, changes a size, or is taken off.         *)
EXTENDS Ladder

Level(p, n) == [price |-> p, size |-> n]
Standing == <<Level(5, 2), Level(2, 2)>>
Shifted == <<Level(8, 2), Level(5, 3)>>
Grown == <<Level(6, 4), Level(2, 2)>>
SomeLadders == {Standing, Shifted, Grown}

TwoFees == {1, 2}
Stranger(p, left, post, prot) ==
  [price |-> p, size |-> 2, left |-> left, post |-> post, fee |-> 1, prot |-> prot, bad |-> 0]
\* An order of the image before: not post-only, or signed for much longer.
Predecessors == {Stranger(5, 3, FALSE, FALSE), Stranger(2, 6, TRUE, FALSE)}
=============================================================================
