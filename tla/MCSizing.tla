------------------------------ MODULE MCSizing ------------------------------
(* Sizing for TLC: one market of each kind, its balances small enough to      *)
(* bind and its limits near enough to be met.                                 *)
EXTENDS Sizing

Plain == [base |-> 0, cash |-> 40, elsewhere |-> 0, order |-> 2, cap |-> 0, net |-> 0, long |-> 4, short |-> -4,
          half |-> 1, step |-> 1, levels |-> 2, mult |-> 2, skew |-> 1, wide |-> 1, thin |-> 10, leverage |-> 1,
          basis |-> 1, room |-> 3, usage |-> 10, im |-> 5, band |-> 1, closed |-> FALSE]
Markets ==
  [k \in Kinds |->
    CASE k = "spot" -> [Plain EXCEPT !.base = 4, !.cash = 30, !.elsewhere = 12, !.order = 16, !.long = 64, !.short = -48,
                          !.wide = 2, !.thin = 5]
      [] k = "perp" -> [Plain EXCEPT !.order = 16, !.long = 32, !.short = -32, !.cash = 24]
      [] k = "dated" -> [Plain EXCEPT !.cash = 20, !.net = 3, !.cap = 24]
      [] k = "engine" -> [Plain EXCEPT !.cash = 20, !.usage = 8, !.cap = 3, !.levels = 3, !.mult = 1]
      [] k = "option" -> [Plain EXCEPT !.cash = 20, !.levels = 1, !.order = 3]]
TwoIndices == {8, 10}
Book(b, a) == [buy |-> b, sell |-> a]
SomeBooks == {Book(0, 0), Book(8, 10)}
SomeOverrides == {Neutral, [Neutral EXCEPT !.mult = 2, !.shift = 3, !.off = {"sell"}]}
=============================================================================
