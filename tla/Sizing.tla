------------------------------- MODULE Sizing -------------------------------
(***************************************************************************)
(* What a cycle asks for, given what it read: the reference, the prices    *)
(* and sizes of the ladder (BuildQuotesWithOverrides, future.go,           *)
(* option.go), and the loop these close: the orders a cycle leaves are the *)
(* reservations, the inventory and the book the next one reads. Fills race *)
(* the reads, which are calls of their own. How single orders are kept or  *)
(* replaced is Ladder's; here a Sync leaves exactly the targets.           *)
(*                                                                         *)
(* Prices are ticks and spreads are added to them instead of multiplied;   *)
(* sizes are whole units of the market's size step.                        *)
(***************************************************************************)
EXTENDS Integers, FiniteSets, FiniteSetsExt, Functions

CONSTANTS
  Config,    \* a market's kind -> its settings and what its account starts with (SettingsAssumption)
  Indices,   \* what the index (external rate, oracle, forward) may be
  Books,     \* others' best prices, [buy |-> , sell |-> ], 0 for an empty side
  Overrides, \* what the operator may set, see Neutral
  MaxEvents  \* bound: fills, moves and adjustments

\* "spot" and "perp" are sized by the operator in quote units, the others in base units.
Kinds == {"spot", "perp", "dated", "engine", "option"}
Sides == {"buy", "sell"}
Neutral == [shift |-> 0, spread |-> 0, mult |-> 1, off |-> {}]

\* The settings that config.Load lets a process start with.
Accepted(s) ==
  /\ s.order > 0 /\ s.levels >= 1 /\ s.mult > 0
  /\ s.levels > 1 => s.step > 0     \* else the levels would overlap at one price
  /\ s.short <= s.long
  /\ s.usage \in 1 .. 10            \* tenths
  /\ s.leverage \in 1 .. 3 /\ s.basis > 0

ASSUME SettingsAssumption ==
  /\ DOMAIN Config \subseteq Kinds
  /\ \A k \in DOMAIN Config : LET s == Config[k] IN
       /\ {s.base, s.cash, s.elsewhere, s.order, s.cap, s.net, s.skew, s.wide, s.thin, s.leverage,
           s.basis, s.room, s.usage, s.im, s.band, s.levels, s.step, s.mult, s.half} \subseteq Nat
       /\ {s.long, s.short} \subseteq Int /\ s.closed \in BOOLEAN
       /\ s.half > 0 /\ s.im > 0
       /\ Accepted(s)
ASSUME IndicesAssumption == Indices \subseteq Nat \ {0}
ASSUME BooksAssumption == Books \subseteq [buy : Nat, sell : Nat]
ASSUME OverridesAssumption ==
  /\ Neutral \in Overrides
  /\ \A o \in Overrides : {o.shift, o.spread} \subseteq Int /\ o.mult \in Nat
ASSUME EventsAssumption == MaxEvents \in Nat

VARIABLES
  kind,    \* the market this bot quotes
  pc,      \* the cycle: "book", "positions", "exposures", "decide", "sync"
  inv,     \* the base held, or the signed position
  cash,    \* the quote asset held
  rest,    \* this bot's orders: side, price, desired and remaining size
  others,  \* the best prices of everybody else
  index,   \* the market's price outside the venue
  ov,      \* the operator's overrides
  trading, \* the perp market is open
  read,    \* what the cycle has read so far
  plan,    \* what the last decision wanted, and the limits it stood under
  terms,   \* the limits the resting orders were placed under
  late,    \* history: what filled since the positions were read
  still,   \* history: cycles begun since anything happened, up to 2
  events   \* fills, moves and adjustments so far

vars == <<kind, pc, inv, cash, rest, others, index, ov, trading, read, plan, terms, late, still, events>>
world == <<kind, inv, cash, others, index, ov, trading, events>>

c == Config[kind]
Smaller(a, b) == IF a <= b THEN a ELSE b
Larger(a, b) == IF a >= b THEN a ELSE b
Ceil(a, b) == -((-a) \div b)
Clamped(x, lo, hi) == Larger(lo, Smaller(x, hi))
Of(s, orders) == {o \in orders : o.side = s}
Total(orders, size) == SumFunctionOnSet(size, orders)
Remaining == [o \in rest |-> o.left]
Left(s) == Total(Of(s, rest), Remaining)
None == [buy |-> 0, sell |-> 0]
NothingRead == [own |-> {}, others |-> None, inv |-> 0, cash |-> 0, reserved |-> None, mine |-> None]
NoLimits == [long |-> 0, short |-> 0, opening |-> None, bound |-> 0, lo |-> 0, hi |-> 0, late |-> None, sound |-> FALSE]
NoPlan == [ref |-> 0, quotes |-> {}, limits |-> NoLimits]

-----------------------------------------------------------------------------
(* The reference. *)

TwoSided(b) == b.buy > 0 /\ b.sell > 0

\* othersBestPrices. The book and the open orders are two reads: an order of its own that filled in
\* between is in the first and not in the second, and counts as somebody else's.
OthersBest(book, own, open) ==
  LET gone(s) == {o.price : o \in {w \in own : w.side = s /\ ~\E r \in open : r.side = s /\ r.price = w.price}}
      best(s) == gone(s) \cup (IF book[s] = 0 THEN {} ELSE {book[s]})
  IN  [buy |-> IF best("buy") = {} THEN 0 ELSE Max(best("buy")),
       sell |-> IF best("sell") = {} THEN 0 ELSE Min(best("sell"))]

\* PerpReference, and ComputeReferencePrice on the other markets.
Reference(b) ==
  CASE kind = "perp" -> IF TwoSided(b) /\ b.buy < b.sell
                        THEN Clamped((b.buy + b.sell) \div 2, index - c.basis, index + c.basis) ELSE index
    [] kind = "spot" -> IF TwoSided(b) THEN (b.buy + b.sell) \div 2 ELSE index
    [] OTHER -> index

\* The external rate stands in for a book: wider and smaller (USDCCNGNSpotExternalAnchor).
External(b) == kind = "spot" /\ ~TwoSided(b)

-----------------------------------------------------------------------------
(* Sizes and prices. *)

\* BaseSized: what the operator sets in quote units is divided by the reference.
Unit(ref) == IF kind \in {"spot", "perp"} THEN ref ELSE 1

\* effectiveMaxLong and effectiveMaxShort, then inventoryLimits.
MaxLong == IF c.net > 0 /\ (c.long = 0 \/ c.net < c.long) THEN c.net ELSE c.long
MaxShort == IF c.net > 0 /\ (c.short = 0 \/ -c.net > c.short) THEN -c.net ELSE c.short
LongLimit(ref) == MaxLong \div Unit(ref)
ShortLimit(ref) == Ceil(MaxShort, Unit(ref))

\* levelSize: the order size, times what LevelSizeMult made of it so far, in base units.
Wanted(times, ref, ext) ==
  LET usd == c.order * ov.mult * times IN
  (IF ext THEN (usd * c.thin) \div 10 ELSE usd) \div Unit(ref)

\* The price of level k: the pricing reference, the half spread, k steps out, leaning with inventory up to c.skew.
PriceOf(s, k, ref, ext, held) ==
  LET full == Larger(1, Larger(LongLimit(ref), -ShortLimit(ref)))
      lean == c.skew * Clamped(held, -full, full)
      out == (IF ext THEN c.half * c.wide ELSE c.half) + ov.spread + k * c.step
  IN  IF s = "buy" THEN (full * (ref + ov.shift - out) - lean) \div full
                   ELSE Ceil(full * (ref + ov.shift + out) - lean, full)

\* Faulty variant: what its own orders hold is worked out a second time, an eighth off.
BudgetWalks(total, reserved, mine) == Larger(0, total - reserved) + (9 * mine) \div 8

\* Faulty variant: the budget is the whole balance, other markets' reservations included.
BudgetTotal(total, reserved, mine) == total

\* Balance.Available + Balance.Reusable.
Budget(total, reserved, mine) == Larger(0, total - reserved) + Smaller(reserved, mine)

Closing(s, held) == Larger(0, IF s = "buy" THEN -held ELSE held)
Usable(surplus) == (Larger(0, surplus) * c.usage) \div 10

\* The margin engine's surplus: what is held less the initial margin of the position.
Surplus == cash - c.im * (IF kind = "engine" THEN Larger(inv, -inv) ELSE Larger(0, -inv))

\* What opens a new position: marginEngineFutureCapacity, buildOptionQuotes, SideRoomNGN.
Opening(s, price) ==
  CASE kind = "engine" -> Usable(Surplus) \div c.im
    [] kind = "option" -> IF s = "sell" THEN Usable(Surplus) \div c.im
                          ELSE IF price > 0 THEN Usable(Surplus) \div price ELSE 0
    [] kind = "perp" -> IF trading THEN Larger(0, c.room - Larger(inv, -inv)) ELSE 0
    [] OTHER -> 0

\* perpCapacity's leverage bound.
Bound(held, ref) == (Larger(0, held) * c.leverage) \div ref

\* Faulty variant: the leverage bound of each side forgets the position it adds to.
CapacityFlat(s, price, ref, r) ==
  CASE kind = "spot" -> IF s = "buy" THEN Budget(r.cash, r.reserved.buy, r.mine.buy) \div price
                        ELSE Budget(r.inv, r.reserved.sell, r.mine.sell)
    [] kind = "dated" -> r.cash \div price
    [] kind = "perp" -> Bound(r.cash, ref)
    [] OTHER -> Closing(s, r.inv) + Opening(s, price)

\* What a side may quote in all, in base units, before the operator's cap, on the reading r.
Capacity(s, price, ref, r) ==
  CASE kind = "spot" -> IF s = "buy" THEN Budget(r.cash, r.reserved.buy, r.mine.buy) \div price
                        ELSE Budget(r.inv, r.reserved.sell, r.mine.sell)
    [] kind = "dated" -> r.cash \div price
    [] kind = "perp" ->
         LET held == IF s = "buy" THEN r.inv ELSE -r.inv
             most == Larger(0, Bound(r.cash, ref) - held)
         IN  IF ~trading /\ c.closed THEN most
             ELSE Smaller(most, Closing(s, r.inv) + Opening(s, price))
    [] OTHER -> Closing(s, r.inv) + Opening(s, price)

\* MM_MAX_NOTIONAL_PER_SIDE: an amount of the base, or quote notional on a dated future; 0 is no cap.
Capped(n, price) ==
  IF c.cap = 0 \/ kind = "option" THEN n
  ELSE Smaller(n, IF kind = "dated" THEN c.cap \div price ELSE c.cap)

\* Further out by one level, unless that would be empty, below zero or across. All levels of a side
\* share its limit.
Further(levels, k, s, limit, against, ref, ext, held) ==
  LET price == PriceOf(s, k, ref, ext, held)
      size == Smaller(Wanted(levels.times, ref, ext), limit - levels.used)
  IN  IF ~levels.on \/ size < 1 \/ price <= 0
         \/ (IF s = "buy" THEN price >= against ELSE price <= against)
      THEN [levels EXCEPT !.on = FALSE]
      ELSE [quotes |-> levels.quotes \cup {[side |-> s, price |-> price, size |-> size]},
            used |-> levels.used + size, times |-> levels.times * c.mult, on |-> TRUE]
NoLevels == [quotes |-> {}, used |-> 0, times |-> 1, on |-> TRUE]

\* Faulty variant: every level may fill the whole limit.
LevelsApart(s, limit, against, ref, ext, held) ==
  {[side |-> s, price |-> PriceOf(s, k, ref, ext, held), size |-> Smaller(Wanted(c.mult ^ k, ref, ext), limit)] :
    k \in 0 .. c.levels - 1}

\* buildLevels: from the innermost level outward.
Levels(s, limit, against, ref, ext, held) ==
  LET upTo[k \in 0 .. c.levels] ==
        IF k = 0 THEN NoLevels ELSE Further(upTo[k - 1], k - 1, s, limit, against, ref, ext, held)
  IN  upTo[c.levels].quotes

\* Faulty variant: a level beyond the band is dropped only on its unsafe side, never moved.
ClampDropsOnly(quotes, lo, hi) ==
  {q \in quotes : IF q.side = "buy" THEN q.price >= lo ELSE q.price <= hi}

\* clampLevels: into the band in the safe direction only; of several at one price the innermost stays.
ClampLevels(quotes, lo, hi) ==
  LET inside == {q \in quotes : IF q.side = "buy" THEN q.price >= lo ELSE q.price <= hi}
      moved(q) == Clamped(q.price, lo, hi)
      inner(q, r) == IF q.side = "buy" THEN q.price > r.price ELSE q.price < r.price
  IN  {[q EXCEPT !.price = moved(q)] : q \in
         {r \in inside : ~\E q \in inside : q.side = r.side /\ moved(q) = moved(r) /\ inner(q, r)}}

\* One side: off by its price, its size or its limit, or as deep as its budget and room go.
SideQuotes(s, ref, ext, r) ==
  LET bid == PriceOf("buy", 0, ref, ext, r.inv)
      ask == PriceOf("sell", 0, ref, ext, r.inv)
      price == PriceOf(s, 0, ref, ext, r.inv)
      room == IF s = "buy" THEN LongLimit(ref) - r.inv ELSE r.inv - ShortLimit(ref)
      budget == Capped(Capacity(s, price, ref, r), price)
      size == Smaller(Wanted(1, ref, ext), budget)
  IN  IF \/ s \in ov.off \/ price <= 0
         \/ kind = "perp" /\ ~trading /\ ~c.closed
         \/ size < 1 \/ (kind # "option" /\ size > room)
      THEN {}
      ELSE Levels(s, Smaller(budget, room), IF s = "buy" THEN ask ELSE bid, ref, ext, r.inv)

Quotes(ref, ext, r) ==
  LET all == UNION {SideQuotes(s, ref, ext, r) : s \in Sides}
  IN  IF kind = "engine" THEN ClampLevels(all, index - c.band, index + c.band) ELSE all

\* Prices the strategy refuses to quote at all; an option only loses the side.
Unpriceable(ref, ext, held) ==
  LET bid == PriceOf("buy", 0, ref, ext, held)
      ask == PriceOf("sell", 0, ref, ext, held)
  IN  kind # "option" /\ (bid <= 0 \/ bid >= ask)

\* risk.Evaluate on the inventory.
OverLimit(ref, held) == held * Unit(ref) > MaxLong \/ held * Unit(ref) < MaxShort

\* No more is reserved than is held. (A perp reserves nothing, and futures do not look.)
Sound(r) == kind = "spot" => r.reserved.buy <= r.cash /\ r.reserved.sell <= r.inv

\* What the decision holds its quotes to.
Limits(ref, ext, r) ==
  [long |-> LongLimit(ref), short |-> ShortLimit(ref),
   opening |-> [buy |-> Opening("buy", PriceOf("buy", 0, ref, ext, r.inv)),
                sell |-> Opening("sell", PriceOf("sell", 0, ref, ext, r.inv))],
   bound |-> Bound(r.cash, ref), lo |-> index - c.band, hi |-> index + c.band,
   late |-> None, sound |-> Sound(r)]

-----------------------------------------------------------------------------
Quoted == [side : Sides, price : Nat \ {0}, size : Nat \ {0}]

(* Sizes and prices are positive, one order at a price, and nothing is sold twice. *)
TypeOK ==
  /\ kind \in DOMAIN Config
  /\ pc \in {"book", "positions", "exposures", "decide", "sync"}
  /\ inv \in Int /\ cash \in Int
  /\ \A o \in rest : o.side \in Sides /\ o.price > 0 /\ o.left \in 1 .. o.desired
  /\ \A o, q \in rest : o.side = q.side /\ o.price = q.price => o = q
  /\ \A q \in plan.quotes : q.side \in Sides /\ q.price > 0 /\ q.size > 0
  /\ others \in Books /\ index \in Indices /\ ov \in Overrides /\ trading \in BOOLEAN
  /\ still \in 0 .. 2 /\ events \in 0 .. MaxEvents

Init ==
  /\ kind \in DOMAIN Config
  /\ pc = "book"
  /\ inv = c.base /\ cash = c.cash
  /\ rest = {}
  /\ others \in Books /\ index \in Indices /\ ov = Neutral
  /\ trading = (kind # "perp")
  /\ read = NothingRead /\ plan = NoPlan /\ terms = NoLimits
  /\ late = None /\ still = 0 /\ events = 0

(* Loader.Load, call by call. *)
ReadBook ==
  /\ pc = "book"
  /\ read' = [NothingRead EXCEPT !.own = {[side |-> o.side, price |-> o.price] : o \in rest}, !.others = others]
  /\ still' = Smaller(2, still + 1)
  /\ pc' = "positions"
  /\ UNCHANGED <<world, rest, plan, terms, late>>

\* readAccountBalances; a perp's balances are these alone.
ReadPositions ==
  /\ pc = "positions"
  /\ read' = [read EXCEPT !.inv = inv, !.cash = cash]
  /\ late' = None
  /\ pc' = IF kind \in {"spot", "dated"} THEN "exposures" ELSE "decide"
  /\ UNCHANGED <<world, rest, plan, terms, still>>

\* What an order holds: the size it was placed with, whatever of it has filled.
Holds(o) == IF o.side = "buy" THEN o.desired * o.price ELSE o.desired

ReadExposures ==
  /\ pc = "exposures"
  /\ LET mine(s) == Total(Of(s, rest), [o \in rest |-> Holds(o)])
     IN  read' = [read EXCEPT !.mine = [buy |-> mine("buy"), sell |-> mine("sell")],
                              !.reserved = [buy |-> mine("buy") + c.elsewhere, sell |-> mine("sell")]]
  /\ pc' = "decide"
  /\ UNCHANGED <<world, rest, plan, terms, late, still>>

\* The open orders are listed, the quotes built and judged.
Decide ==
  /\ pc = "decide"
  /\ LET b == OthersBest(read.others, read.own, rest)
         ref == Reference(b)
         ext == External(b)
     IN  \/ /\ Unpriceable(ref, ext, read.inv)        \* the cycle ends in an error, the ladder stays
            /\ pc' = "book"
            /\ UNCHANGED <<rest, plan, read>>
         \/ /\ ~Unpriceable(ref, ext, read.inv)
            /\ OverLimit(ref, read.inv)               \* the risk check halts: cancel-all
            /\ pc' = "book" /\ rest' = {}
            /\ plan' = [NoPlan EXCEPT !.ref = ref]
            /\ UNCHANGED read
         \/ /\ ~Unpriceable(ref, ext, read.inv)
            /\ ~OverLimit(ref, read.inv)
            /\ plan' = [ref |-> ref, quotes |-> Quotes(ref, ext, read), limits |-> Limits(ref, ext, read)]
            /\ read' = [read EXCEPT !.own = rest]      \* snapshot.OpenOrders
            /\ pc' \in {"sync"} \cup (IF rest = {} THEN {} ELSE {"book"})   \* the refresh may not be due
            /\ UNCHANGED rest
  /\ UNCHANGED <<world, terms, late, still>>

\* Syncer.Sync: a listed order that quotes a target stays, whatever happened to it since; the rest is replaced.
Sync ==
  /\ pc = "sync"
  /\ LET quotes(o, q) == o.side = q.side /\ o.price = q.price /\ o.left = q.size
         kept == {o \in read.own : \E q \in plan.quotes : quotes(o, q)}
         missing == {q \in plan.quotes : ~\E o \in kept : quotes(o, q)}
     IN  rest' = {o \in rest : \E k \in kept : k.side = o.side /\ k.price = o.price}
                   \cup {[side |-> q.side, price |-> q.price, desired |-> q.size, left |-> q.size] : q \in missing}
  /\ terms' = [plan.limits EXCEPT !.late = late]
  /\ read' = NothingRead
  /\ pc' = "book"
  /\ UNCHANGED <<world, plan, late, still>>

-----------------------------------------------------------------------------
Happens == events < MaxEvents /\ events' = events + 1 /\ still' = 0

\* Somebody takes all or one unit of an order, if the account can settle it.
Fill(o, n) ==
  /\ Happens
  /\ n <= o.left
  /\ trading
  /\ kind = "spot" => IF o.side = "buy" THEN cash >= n * o.price ELSE inv >= n
  /\ inv' = IF o.side = "buy" THEN inv + n ELSE inv - n
  /\ cash' = IF kind \notin {"spot", "option"} THEN cash
             ELSE IF o.side = "buy" THEN cash - n * o.price ELSE cash + n * o.price
  /\ rest' = (rest \ {o}) \cup (IF n = o.left THEN {} ELSE {[o EXCEPT !.left = @ - n]})
  /\ late' = IF pc \in {"book", "positions"} THEN late ELSE [late EXCEPT ![o.side] = @ + n]
  /\ UNCHANGED <<kind, pc, others, index, ov, trading, read, plan, terms>>

Move ==
  /\ Happens
  /\ \/ index' \in Indices \ {index} /\ UNCHANGED <<others, trading>>
     \/ others' \in Books \ {others} /\ UNCHANGED <<index, trading>>
     \/ kind = "perp" /\ trading' = ~trading /\ UNCHANGED <<index, others>>
  /\ UNCHANGED <<kind, pc, inv, cash, rest, ov, read, plan, terms, late>>

Adjust ==
  /\ Happens
  /\ ov' \in Overrides \ {ov}
  /\ UNCHANGED <<kind, pc, inv, cash, rest, others, index, trading, read, plan, terms, late>>

Next ==
  \/ ReadBook \/ ReadPositions \/ ReadExposures \/ Decide \/ Sync
  \/ \E o \in rest : \E n \in {1, o.left} : Fill(o, n)
  \/ Move \/ Adjust

Spec == Init /\ [][Next]_vars

-----------------------------------------------------------------------------
(* The ladder is a fixed point: while nothing happens, a cycle wants what the *)
(* last one wanted, unless either found more reserved than held. What its own *)
(* orders hold must not feed back into their size (strategy.go, on the        *)
(* budget).                                                                   *)
StableSizing == [][still = 2 /\ plan.limits.sound /\ Sound(read) /\ Decide => plan'.quotes = plan.quotes]_vars

(* Were everything resting on a side to fill, the inventory would stay within *)
(* the limit the decision used, but for what filled while it was being made.  *)
InventoryKept ==
  /\ Left("buy") > 0 => inv + Left("buy") <= terms.long + terms.late.buy
  /\ Left("sell") > 0 => inv - Left("sell") >= terms.short - terms.late.sell

(* What the resting orders of a side would open, beyond closing the position, *)
(* fits the margin (engine, option) or the open interest (perp) there was,    *)
(* and a perp position the leverage bound.                                    *)
MarginKept ==
  kind \in {"perp", "engine", "option"} /\ ~(kind = "perp" /\ c.closed) =>
    \A s \in Sides : Left(s) > 0 =>
      /\ Left(s) - Closing(s, inv) <= terms.opening[s] + terms.late[s]
      /\ kind = "perp" =>
           (IF s = "buy" THEN inv ELSE -inv) + Left(s) <= terms.bound + terms.late[s]

(* A spot ladder is backed: what rests can be delivered and paid for, unless  *)
(* a fill raced the reads, or the account was overcommitted when they began.  *)
SpotBacked ==
  kind = "spot" /\ terms.sound /\ terms.late = None =>
    /\ Left("sell") <= inv
    /\ Total(Of("buy", rest), [o \in rest |-> o.left * o.price]) + c.elsewhere <= cash

(* A MarginEngine future rests inside the fill band of its decision, never    *)
(* across itself.                                                             *)
BandKept ==
  /\ kind = "engine" => \A o \in rest : terms.lo <= o.price /\ o.price <= terms.hi
  /\ \A b, a \in rest : b.side = "buy" /\ a.side = "sell" => b.price < a.price

-----------------------------------------------------------------------------
(* "An ask can sell what is held" (strategy.go), with no fill racing the      *)
(* reads. Not so: a partly filled order is reserved, and added back, at the   *)
(* size it was placed with.                                                   *)
AsksBacked == [][Sync /\ kind = "spot" /\ late = None => Left("sell")' <= inv]_vars
=============================================================================
