------------------------------- MODULE Signing -------------------------------
(***************************************************************************)
(* The numbers of an order. The strategy sizes in contracts or base units, *)
(* the client signs wei, the venue keeps a count of its own units, the     *)
(* chain settles wei, and the bot reads the order, the trade and the       *)
(* position back, each by a conversion of its own (client.go). With the    *)
(* amount it signs a price, on the MarginEngine future one that the        *)
(* contract admits (FutureState.Admits), a ceiling for the fee             *)
(* (signedWorstFee), and an expiry (cappedOrderExpiry). None of these can  *)
(* be amended: the order fills as it was signed, or not at all.            *)
(*                                                                         *)
(* One market and one order at a time; Ladder and QuotingLoop have many.   *)
(* Amounts, prices and fees are integers in wei, with few wei to a whole.  *)
(***************************************************************************)
EXTENDS Integers, FiniteSetsExt

CONSTANTS
  Scale,     \* wei in a whole (decimalScale, 1e18)
  Milli,     \* 0.001 of a whole: the step of a deliverable future that lists none
  Listings,  \* what /markets may list, see ListingsAssumption
  Sizes,     \* what the strategy may want, before it rounds it, in wei
  Prices,    \* where it may want it, before it rounds it: below, in and above the band
  Spots,     \* what the index feed may answer
  Fees,      \* taker fees the venue may list, in basis points; 0: it lists none
  Bps,       \* basis points in one (10,000)
  Headroom,  \* worstFeeHeadroomBps
  WorstFee,  \* MM_WORST_FEE
  Drift,     \* how many ticks outside the band its float edges may come out
  MaxSteps,  \* maxBandEdgeSteps
  Life,      \* MM_ORDER_EXPIRY_SECONDS
  Margin,    \* MM_FUTURE_CUTOFF_BEFORE_FIX_SECONDS, MM_OPTION_CUTOFF_SECONDS
  Horizon    \* bound: the last second of the run

IsFuture(l) == l.kind \in {"dated", "engine"}
BaseSized(l) == l.kind \in {"spot", "perp"}

\* kind; amount_step and amount_scale in wei, 0 where the listing names none; one contract in USDC or,
\* with american, in the base; tick size; markIndexBand; the start of the fixing and the last trade.
\* The venue's step on base-sized markets is one whole unit, and its scales and steps fit each other.
ASSUME ListingsAssumption ==
  \A l \in Listings :
    /\ l.kind \in {"spot", "perp", "dated", "engine", "option"}
    /\ {l.step, l.scale, l.width, l.fixing, l.last} \subseteq Nat
    /\ l.contract \in Nat \ {0} /\ l.tick \in Nat \ {0} /\ l.american \in BOOLEAN
    /\ BaseSized(l) => l.step \in {0, Scale}
    /\ l.kind = "option" => l.scale > 0
    /\ l.kind = "dated" /\ l.scale > 0 => (IF l.step > 0 THEN l.step ELSE Milli) % l.scale = 0
ASSUME NumbersAssumption ==
  /\ Scale \in Nat \ {0} /\ Milli \in 1 .. Scale /\ Bps \in Nat \ {0}
  /\ {Headroom, WorstFee, Drift, MaxSteps, Life, Margin, Horizon} \subseteq Nat
  /\ Life > 0
  /\ Sizes \subseteq Nat /\ Prices \subseteq Nat \ {0} /\ Spots \subseteq Nat \ {0} /\ Fees \subseteq Nat

VARIABLES
  listing, \* the market
  fee,     \* the taker fee the venue lists and charges
  spot,    \* what the index feed answers
  now,     \* the clock
  order,   \* the bot's order as the venue keeps it, or NoOrder
  asked,   \* the target it was placed for
  wei,     \* the position the chain keeps, without its sign
  traded,  \* history: the sizes of its fills as read off the tape
  left,    \* history: how much less the order read after each fill
  refused  \* history: the client or the venue refused an order

vars == <<listing, fee, spot, now, order, asked, wei, traded, left, refused>>

Larger(a, b) == IF a >= b THEN a ELSE b
Smaller(a, b) == IF a <= b THEN a ELSE b
Ceil(a, b) == -((-a) \div b)
Distance(a, b) == IF a >= b THEN a - b ELSE b - a
NoOrder == [side |-> "none"]
NoTarget == [size |-> 0, price |-> 0]

-----------------------------------------------------------------------------
(* Sizes.                                                                   *)

\* loadMarkets: SizeStep and MinSize, in wei.
Step(l) ==
  IF l.kind = "option" \/ (l.kind = "engine" /\ l.scale > 0) THEN l.scale
  ELSE IF l.step > 0 THEN l.step
  ELSE IF BaseSized(l) \/ l.kind = "engine" THEN Scale
  ELSE Milli

\* The strategy rounds its sizes down to the step.
RoundDown(size, step) == (size \div step) * step

\* One unit of a listed amount (venueUnitContracts, Option.UnitBase, a whole base unit).
Unit(l) == IF BaseSized(l) THEN Scale ELSE IF l.scale > 0 THEN l.scale ELSE Step(l)

\* Faulty variant: a future is placed in whole contracts.
RoundedToContracts(l, size) == RoundDown(size, IF IsFuture(l) THEN Larger(Scale, Step(l)) ELSE Unit(l))

\* futureOrderAmounts, optionOrderAmounts and PlaceLimitOrder: what an order of this size is for.
Rounded(l, size) == RoundDown(size, IF IsFuture(l) THEN Step(l) ELSE Unit(l))

\* The amount in the body. A future that lists no scale sends contracts, the others a count.
Body(l, size) == IF IsFuture(l) /\ l.scale = 0 THEN size ELSE size \div Unit(l)

\* futureOrderAmounts refuses less than a step and parts of a unit; the others less than a unit.
Expressible(l, size) == Rounded(l, size) > 0 /\ Rounded(l, size) % Unit(l) = 0

\* orderAmountToFloat
ListedSize(l, count) == count * Unit(l)

\* Faulty variant: raw amounts count steps on every future.
LotIsStep(l) == Step(l)

\* rawLotContracts, in wei: what a wei-denominated whole is worth.
RawLot(l) == IF l.scale > 0 /\ l.kind = "engine" THEN Scale ELSE Step(l)

\* rawOrderSizeToFloat: futures report a trade in wei, the others in units.
TradeSize(l, amount) == IF IsFuture(l) THEN (amount * RawLot(l)) \div Scale ELSE amount * Unit(l)

\* rawPositionToMarketSize
PositionSize(l, amount) == IF IsFuture(l) THEN (amount * RawLot(l)) \div Scale ELSE amount

\* sizeMismatchRequiresReplace, with the venue's quantum for a tolerance.
SizeWrong(l, size, target) == Distance(size, target) > Step(l)

-----------------------------------------------------------------------------
(* Prices.                                                                  *)

\* FutureState: the feed as it is, or inverted on the series priced in cNGN per USDC.
Index(l, feed) == IF l.american THEN feed ELSE (Scale * Scale) \div feed

\* FutureBandEdges
HalfBand(l, index) == (index * l.width) \div Scale
BandLow(l, index) == index - HalfBand(l, index)
BandHigh(l, index) == index + HalfBand(l, index)

\* FutureState.Admits
Admits(l, index, price) == price > 0 /\ BandLow(l, index) <= price /\ price <= BandHigh(l, index)

\* Faulty variant: the float edges are taken as they come.
InnermostAsIs(l, index, from, direction) == {from}

\* applyMarginEngineFuture: from an edge, ticks inward up to the first that the contract admits.
Innermost(l, index, from, direction) ==
  LET steps == {from + direction * k * l.tick : k \in 0 .. MaxSteps}
      inside == {p \in steps : Admits(l, index, p)}
  IN  IF inside = {} THEN {} ELSE {CHOOSE p \in inside : \A q \in inside : direction * p <= direction * q}

Edges(l, index) ==
  [low : Innermost(l, index, Ceil(BandLow(l, index), l.tick) * l.tick - Drift * l.tick, 1),
   high : Innermost(l, index, RoundDown(BandHigh(l, index), l.tick) + Drift * l.tick, -1)]

\* buildLevels rounds away from the other side, onto the grid.
OnGrid(l, side, price) ==
  IF side = "buy" THEN RoundDown(price, l.tick) ELSE Ceil(price, l.tick) * l.tick

\* clampLevels: the prices a side may quote where it wants price, one or none.
Clamped(l, index, side, price) ==
  IF l.kind # "engine" THEN {price}
  ELSE {IF side = "buy" THEN Smaller(price, e.high) ELSE Larger(price, e.low) :
          e \in {f \in Edges(l, index) :
                   f.low <= f.high /\ (IF side = "buy" THEN price >= f.low ELSE price <= f.high)}}

-----------------------------------------------------------------------------
(* The ceiling of the fee, and the expiry.                                  *)

\* ContractNotionalUSDC on the engine's series, the price elsewhere: what a whole is worth.
Notional(l, price) ==
  IF l.kind # "engine" THEN price ELSE IF l.american THEN l.contract * price ELSE l.contract * Scale

\* signedWorstFee
Ceiling(l, price, bps) ==
  IF bps = 0 THEN WorstFee ELSE Larger(1, Ceil(Notional(l, price) * (bps + Headroom), Bps))

\* FutureState.QuotingCutoff, and the listing's own last trade for an option.
Cutoff(l) == IF l.kind = "option" THEN l.last ELSE Smaller(l.fixing, l.last) - Margin

\* When the strategy stops. (The other markets never do.)
Closed(l, time) ==
  \/ l.kind = "engine" /\ time >= Cutoff(l)
  \/ l.kind = "option" /\ time >= Cutoff(l) - Margin

\* Faulty variant: the expiry is the configured one on every market.
ExpiryUncapped(l, time) == time + Life

\* cappedOrderExpiry
Expiry(l, time) == IF l.kind \in {"engine", "option"} THEN Smaller(time + Life, Cutoff(l)) ELSE time + Life

-----------------------------------------------------------------------------
(* The venue and the chain.                                                 *)

VenueStep(l) ==
  IF l.kind = "dated" /\ l.step = 0 THEN Milli
  ELSE IF l.scale > 0 THEN l.scale
  ELSE IF l.step > 0 THEN l.step ELSE Scale

\* The count it keeps of a body. A body that is no multiple of its step is refused.
Count(l, body) == IF IsFuture(l) /\ l.scale = 0 THEN body \div VenueStep(l) ELSE body
VenueTakes(l, size) == IsFuture(l) /\ l.scale = 0 => Body(l, size) % VenueStep(l) = 0

\* FutureAsset: |price - index| x 1e18 > index x width is refused.
AssetAdmits(l, index, price) ==
  l.kind = "engine" => Distance(price, index) * Scale <= index * l.width

\* The matcher truncates its charge; TradeModule holds it to the signed bound per unit filled.
Charge(l, price, bps, amount) == (bps * Notional(l, price) * amount) \div (Bps * Scale)
Covers(l, o, bps, amount) == Charge(l, o.price, bps, amount) * Scale <= o.ceiling * amount

-----------------------------------------------------------------------------
(* One order, no larger than what was ever wanted, of which something is left. *)
TypeOK ==
  /\ listing \in Listings /\ fee \in Fees /\ spot \in Spots /\ now \in 0 .. Horizon
  /\ order # NoOrder =>
       /\ order.side \in {"buy", "sell"} /\ order.price \in Nat \ {0}
       /\ order.count \in Nat /\ order.filled \in 0 .. order.count - 1
       /\ order.amount > 0 /\ (\E size \in Sizes : order.amount \in 0 .. size)
       /\ order.ceiling \in Nat /\ order.expiry > now /\ order.bps \in Fees
  /\ asked \in [size : Nat, price : Nat]
  /\ {wei, traded, left} \subseteq Nat /\ refused \in BOOLEAN

Init ==
  /\ listing \in Listings /\ fee \in Fees /\ spot \in Spots /\ now = 0
  /\ order = NoOrder /\ asked = NoTarget
  /\ wei = 0 /\ traded = 0 /\ left = 0
  /\ refused = FALSE

\* What a cycle wants: a size in steps at an admitted price on the grid, or nothing.
Targets(side, size, price) ==
  LET lots == RoundDown(size, Step(listing))
      level == OnGrid(listing, side, price)
  IN  IF Closed(listing, now) \/ lots = 0 \/ level = 0 THEN {}
      ELSE {[size |-> lots, price |-> p] : p \in Clamped(listing, Index(listing, spot), side, level)}

\* PlaceLimitOrder
Placed(side, t) ==
  LET size == Rounded(listing, t.size) IN
  [side |-> side, price |-> t.price, count |-> Count(listing, Body(listing, size)), filled |-> 0,
   amount |-> size, ceiling |-> Ceiling(listing, t.price, fee), expiry |-> Expiry(listing, now),
   bps |-> fee]

Taken(t) ==
  /\ VenueTakes(listing, Rounded(listing, t.size))
  /\ AssetAdmits(listing, Index(listing, spot), t.price)
  /\ t.price % listing.tick = 0

\* evaluateCancel: is the resting order another than the target, or under a ceiling too low by now?
Replaced(side, t) ==
  \/ order.side # side \/ order.price # t.price
  \/ SizeWrong(listing, ListedSize(listing, order.count - order.filled), t.size)
  \/ order.ceiling < Ceiling(listing, order.price, fee)

\* A cycle: the order goes if there is no target or it is replaced, and the target is placed.
Cycle(side, size, price) ==
  LET targets == Targets(side, size, price) IN
  /\ IF targets = {} THEN
       order' = NoOrder /\ asked' = NoTarget /\ UNCHANGED refused
     ELSE \E t \in targets :
       IF order # NoOrder /\ ~Replaced(side, t) THEN UNCHANGED <<order, asked, refused>>
       ELSE LET sent == Expressible(listing, t.size) /\ Expiry(listing, now) > now
                rests == sent /\ Taken(t)
            IN  /\ refused' = (refused \/ ~rests)
                /\ order' = IF rests THEN Placed(side, t) ELSE NoOrder
                /\ asked' = IF rests THEN t ELSE NoTarget
  /\ UNCHANGED <<listing, fee, spot, now, wei, traded, left>>

\* Somebody takes n of the order's units. The chain settles the fill or refuses it.
Fill(n) ==
  LET amount == (order.amount * n) \div order.count
      whole == order.filled + n = order.count
      before == ListedSize(listing, order.count - order.filled)
      after == ListedSize(listing, order.count - order.filled - n)
  IN  /\ wei' = wei + amount
      /\ traded' = traded + TradeSize(listing, IF IsFuture(listing) THEN amount ELSE n)
      /\ left' = left + before - after
      /\ order' = IF whole THEN NoOrder ELSE [order EXCEPT !.filled = @ + n]
      /\ asked' = IF whole THEN NoTarget ELSE asked
      /\ UNCHANGED <<listing, fee, spot, now, refused>>

Settle ==
  /\ order # NoOrder
  /\ left < Max(Sizes) \div 2    \* bound: fills of one run
  /\ \E n \in {1, order.count - order.filled} :
       /\ Covers(listing, order, fee, (order.amount * n) \div order.count)
       /\ AssetAdmits(listing, Index(listing, spot), order.price)
       /\ Fill(n)

\* The venue lists another fee, or the index moves.
Change ==
  /\ fee' \in Fees /\ spot' \in Spots /\ <<fee', spot'>> # <<fee, spot>>
  /\ UNCHANGED <<listing, now, order, asked, wei, traded, left, refused>>

\* A second passes, and with its last one an order goes.
Tick ==
  /\ now < Horizon
  /\ now' = now + 1
  /\ LET over == order # NoOrder /\ order.expiry = now' IN
       /\ order' = IF over THEN NoOrder ELSE order
       /\ asked' = IF over THEN NoTarget ELSE asked
  /\ UNCHANGED <<listing, fee, spot, wei, traded, left, refused>>

Next ==
  \/ \E side \in {"buy", "sell"}, size \in Sizes, price \in Prices : Cycle(side, size, price)
  \/ Settle \/ Change \/ Tick

Spec == Init /\ [][Next]_vars

-----------------------------------------------------------------------------
(* Properties.                                                              *)

(* What the strategy wants, the client can sign and the venue takes: whole units of the venue's     *)
(* step, a price on the grid that the future's contract admits as signed ("every engine-future      *)
(* order was refused on 2026-10-13"), an expiry ahead.                                              *)
OrdersAreTaken == ~refused

(* A resting order can be taken for as long as it rests: its ceiling covers what the matcher        *)
(* charges for any part of it, also when the venue raises its fee by up to the headroom, and it is  *)
(* gone before the fixing or the last trade. (Where the venue lists no fee there is no headroom:    *)
(* MM_WORST_FEE is signed as it is.)                                                                *)
FillsClear ==
  order # NoOrder =>
    /\ order.bps > 0 /\ fee <= order.bps + Headroom =>
         \A n \in 1 .. order.count - order.filled :
           Covers(listing, order, fee, (order.amount * n) \div order.count)
    /\ listing.kind \in {"engine", "option"} => now < Cutoff(listing)

(* An order that nobody took reads as what it was placed for, and is not replaced by the same       *)
(* order every cycle ("a 0.359975 USDC level was placed 4,065 times at an unchanged price").        *)
NoChurn ==
  order # NoOrder /\ order.filled = 0 /\ fee = order.bps =>
    ~Replaced(order.side, [asked EXCEPT !.price = order.price])

\* The markets whose wei the client reads as it signs it. Not so the futures that list no scale and
\* a step below one contract: their orders are signed at 1e18 a contract, their trades and positions
\* read at 1e18 a step.
OneScale(l) == IsFuture(l) /\ ~(l.kind = "engine" /\ l.scale > 0) => Step(l) = Scale

(* A fill is the same size wherever the bot meets it: on the tape, in the position, and in what is  *)
(* left of the order.                                                                               *)
ReadsAgree == OneScale(listing) => traded = left /\ PositionSize(listing, wei) = left
=============================================================================
