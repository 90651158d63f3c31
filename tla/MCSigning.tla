----------------------------- MODULE MCSigning ------------------------------
(* Signing for TLC: four wei to a whole, the ways a market may be listed,    *)
(* and a band of a quarter of the index on the MarginEngine series.          *)
EXTENDS Signing

Listed(kind, step, scale) ==
  [kind |-> kind, step |-> step, scale |-> scale, contract |-> 1, american |-> FALSE, tick |-> 1,
   width |-> 0, fixing |-> Horizon, last |-> Horizon]
Engine(step, scale, american, tick) ==
  [Listed("engine", step, scale) EXCEPT !.american = american, !.tick = tick, !.width = 1, !.last = Horizon - 1,
                                        !.contract = 2]
SomeListings ==
  {Listed("spot", 0, 4), Listed("perp", 4, 0), Listed("dated", 0, 0), Listed("dated", 2, 1),
   [Listed("option", 0, 8) EXCEPT !.last = Horizon - 1],
   Engine(4, 1, FALSE, 1), Engine(0, 0, FALSE, 1), Engine(2, 0, TRUE, 1), Engine(0, 2, TRUE, 2)}
SomeSizes == {7, 17}
SomePrices == {1, 5, 8}
SomeSpots == {4, 6}
SomeFees == {0, 2, 3}
=============================================================================
