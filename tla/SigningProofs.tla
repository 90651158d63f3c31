---------------------------- MODULE SigningProofs ----------------------------
(***************************************************************************)
(* Proofs about Signing for any listings, sizes, prices and fees.          *)
(***************************************************************************)
EXTENDS Signing, WellFoundedInduction, NaturalsInduction, TLAPS

\* The bot's order, if it has one, in numbers.
Resting == order # NoOrder
NumbersTyped ==
  /\ listing \in Listings /\ fee \in Fees /\ spot \in Spots /\ now \in 0 .. Horizon
  /\ wei \in Nat /\ traded \in Nat /\ left \in Nat /\ refused \in BOOLEAN
  /\ asked \in [size : Nat, price : Nat]
OrderTyped ==
  Resting =>
    /\ order.side \in {"buy", "sell"} /\ order.price \in Nat \ {0}
    /\ order.count \in Nat /\ order.filled \in 0 .. order.count - 1
    /\ order.amount > 0 /\ (\E size \in Sizes : order.amount \in 0 .. size)
    /\ order.ceiling \in Nat /\ order.expiry \in Int /\ order.expiry > now /\ order.bps \in Fees

\* An order is signed for what the venue keeps, which is what was asked, under the ceiling of its fee,
\* to expire before trading ends.
OrderMade ==
  Resting =>
    /\ order.amount = order.count * Unit(listing) /\ asked.size = order.amount
    /\ order.ceiling = Ceiling(listing, order.price, order.bps)
    /\ listing.kind \in {"engine", "option"} => order.expiry <= Cutoff(listing)

(* The inductive invariant.                                                *)
IInv == NumbersTyped /\ OrderTyped /\ OrderMade /\ ReadsAgree /\ OrdersAreTaken

-----------------------------------------------------------------------------
(* Multiplying and dividing.                                                *)

LEMMA DivFacts ==
  ASSUME NEW a \in Int, NEW b \in Nat \ {0}
  PROVE  a \div b \in Int /\ (a \div b) * b <= a /\ a < (a \div b) * b + b
OBVIOUS

LEMMA DivUnique ==
  ASSUME NEW a \in Int, NEW b \in Nat \ {0}, NEW q \in Int, q * b <= a, a < q * b + b
  PROVE  a \div b = q
OBVIOUS

LEMMA ModFacts ==
  ASSUME NEW a \in Int, NEW b \in Nat \ {0}
  PROVE  a % b = a - (a \div b) * b
OBVIOUS

LEMMA DivExact ==
  ASSUME NEW k \in Int, NEW b \in Nat \ {0}
  PROVE  k * b \in Int /\ (k * b) \div b = k /\ (k * b) % b = 0
<1>1. k * b \in Int /\ (k * b) \div b = k
  BY DivUnique
<1> DEFINE a == k * b
<1>2. a \in Int /\ a = k * b /\ a \div b = k
  BY <1>1
<1> HIDE DEF a
<1>3. a % b = a - k * b
  BY <1>2, ModFacts
<1>4. a % b = 0
  BY <1>2, <1>3
<1>5. QED
  BY <1>1, <1>4 DEF a

LEMMA DivNat ==
  ASSUME NEW a \in Nat, NEW b \in Nat \ {0}
  PROVE  a \div b \in Nat /\ a % b \in Nat /\ (a % b = 0 => a = (a \div b) * b)
OBVIOUS

LEMMA TimesMonotone ==
  ASSUME NEW a \in Int, NEW b \in Int, NEW c \in Nat, a <= b
  PROVE  a * c <= b * c
OBVIOUS

LEMMA TimesCancels ==
  ASSUME NEW a \in Int, NEW b \in Int, NEW c \in Nat \ {0}, a * c <= b * c
  PROVE  a <= b
OBVIOUS

LEMMA TimesNat ==
  ASSUME NEW a \in Nat, NEW b \in Nat
  PROVE  a * b \in Nat /\ (a > 0 /\ b > 0 => a * b > 0)
OBVIOUS

LEMMA TimesAssociates ==
  ASSUME NEW a \in Int, NEW b \in Int, NEW c \in Int
  PROVE  (a * b) * c = a * (b * c) /\ a * b = b * a /\ a * b \in Int
OBVIOUS

LEMMA CeilFacts ==
  ASSUME NEW a \in Int, NEW b \in Nat \ {0}
  PROVE  Ceil(a, b) \in Int /\ a <= Ceil(a, b) * b
<1>1. -a \in Int /\ (-a) \div b \in Int /\ ((-a) \div b) * b <= -a
  BY DivFacts
<1> DEFINE q == (-a) \div b
<1>2. q \in Int /\ q * b <= -a
  BY <1>1
<1> HIDE DEF q
<1>3. -q \in Int /\ a <= (-q) * b
  BY <1>2
<1>4. QED
  BY <1>3 DEF Ceil, q

LEMMA RoundDownFacts ==
  ASSUME NEW size \in Nat, NEW step \in Nat \ {0}
  PROVE  /\ RoundDown(size, step) \in Nat /\ RoundDown(size, step) <= size
         /\ RoundDown(size, step) = (size \div step) * step /\ size \div step \in Nat
<1>1. size \div step \in Nat /\ (size \div step) * step <= size
  BY DivNat, DivFacts
<1>2. QED
  BY <1>1, TimesNat DEF RoundDown

LEMMA RoundDownExact ==
  ASSUME NEW k \in Nat, NEW step \in Nat \ {0}
  PROVE  RoundDown(k * step, step) = k * step
BY DivExact DEF RoundDown

-----------------------------------------------------------------------------
(* Listings, and the sizes that fit them.                                   *)

LEMMA ListingFacts ==
  ASSUME NEW l \in Listings
  PROVE  /\ l.kind \in {"spot", "perp", "dated", "engine", "option"}
         /\ l.step \in Nat /\ l.scale \in Nat /\ l.width \in Nat /\ l.fixing \in Nat /\ l.last \in Nat
         /\ l.contract \in Nat \ {0} /\ l.tick \in Nat \ {0} /\ l.american \in BOOLEAN
BY ListingsAssumption

LEMMA UnitFacts ==
  ASSUME NEW l \in Listings
  PROVE  /\ Step(l) \in Nat \ {0} /\ Unit(l) \in Nat \ {0} /\ VenueStep(l) \in Nat \ {0}
         /\ ~IsFuture(l) => Step(l) = Unit(l)
         /\ IsFuture(l) /\ l.scale = 0 => Unit(l) = Step(l) /\ VenueStep(l) = Step(l)
         /\ IsFuture(l) /\ l.scale > 0 => Unit(l) = l.scale /\ Step(l) % Unit(l) = 0
<1> USE NumbersAssumption
<1>1. /\ Step(l) \in Nat \ {0}
  BY ListingFacts, ListingsAssumption DEF Step, BaseSized
<1>2. Unit(l) \in Nat \ {0} /\ VenueStep(l) \in Nat \ {0}
  BY <1>1, ListingFacts DEF Unit, VenueStep
<1>3. ~IsFuture(l) => Step(l) = Unit(l)
  BY ListingFacts, ListingsAssumption DEF Step, Unit, IsFuture, BaseSized
<1>4. IsFuture(l) /\ l.scale = 0 => Unit(l) = Step(l) /\ VenueStep(l) = Step(l)
  BY ListingFacts DEF Step, Unit, VenueStep, IsFuture, BaseSized
<1>5. IsFuture(l) /\ l.scale > 0 => Unit(l) = l.scale
  BY ListingFacts DEF Unit, IsFuture, BaseSized
<1>6. IsFuture(l) /\ l.scale > 0 => Step(l) % l.scale = 0
  <2>1. CASE l.kind = "engine" /\ l.scale > 0
    <3>1. Step(l) = 1 * l.scale /\ l.scale \in Nat \ {0}
      BY <2>1, ListingFacts DEF Step
    <3>2. QED
      BY <3>1, DivExact
  <2>2. CASE l.kind = "dated" /\ l.scale > 0
    BY <2>2, ListingFacts, ListingsAssumption DEF Step, BaseSized
  <2>3. QED
    BY <2>1, <2>2 DEF IsFuture
<1>7. QED
  BY <1>1, <1>2, <1>3, <1>4, <1>5, <1>6

\* A size in steps is a size in units: the client signs it whole, and the venue keeps a count of it.
LEMMA SizeFacts ==
  ASSUME NEW l \in Listings, NEW size \in Nat, RoundDown(size, Step(l)) # 0
  PROVE  LET lots == RoundDown(size, Step(l)) IN
         /\ lots \in Nat \ {0} /\ lots <= size /\ Rounded(l, lots) = lots
         /\ Count(l, Body(l, lots)) \in Nat \ {0}
         /\ lots = Count(l, Body(l, lots)) * Unit(l)
         /\ Expressible(l, lots) /\ VenueTakes(l, lots)
<1> DEFINE lots == RoundDown(size, Step(l))
           k == size \div Step(l)
<1>1. lots \in Nat \ {0} /\ lots <= size /\ lots = k * Step(l) /\ k \in Nat
  BY RoundDownFacts, UnitFacts
<1> HIDE DEF lots, k
<1>2. RoundDown(lots, Step(l)) = lots
  BY <1>1, RoundDownExact, UnitFacts
<1>3. PICK n \in Nat : lots = n * Unit(l)
  <2>1. CASE Unit(l) = Step(l)
    BY <1>1, <2>1
  <2>2. CASE Step(l) % Unit(l) = 0
    <3>1. Step(l) = (Step(l) \div Unit(l)) * Unit(l) /\ Step(l) \div Unit(l) \in Nat
      BY <2>2, DivNat, UnitFacts
    <3>2. k * (Step(l) \div Unit(l)) \in Nat
      BY <1>1, <3>1, TimesNat
    <3>3. lots = (k * (Step(l) \div Unit(l))) * Unit(l)
      BY <1>1, <3>1, TimesAssociates, UnitFacts
    <3>4. QED
      BY <3>2, <3>3
  <2>3. QED
    BY <2>1, <2>2, UnitFacts, ListingFacts
<1>4. n # 0 /\ lots \div Unit(l) = n /\ lots % Unit(l) = 0
  BY <1>1, <1>3, DivExact, UnitFacts
<1>5. Rounded(l, lots) = lots
  BY <1>2, UnitFacts DEF Rounded
<1>6. Count(l, Body(l, lots)) = n
  BY <1>4, UnitFacts DEF Count, Body
<1>7. Expressible(l, lots) /\ VenueTakes(l, lots)
  <2>1. Expressible(l, lots)
    BY <1>1, <1>4, <1>5 DEF Expressible
  <2>2. VenueTakes(l, lots)
    BY <1>4, UnitFacts DEF VenueTakes, Body
  <2>3. QED
    BY <2>1, <2>2
<1>8. QED
  BY <1>1, <1>3, <1>4, <1>5, <1>6, <1>7 DEF lots

-----------------------------------------------------------------------------
(* Prices that the future's contract admits.                                *)

LEMMA Least ==
  ASSUME NEW T, T \subseteq Nat, T # {}
  PROVE  \E s \in T : \A t \in T : s <= t
<1>1. PICK s \in T : \A t \in T : ~(<<t, s>> \in OpToRel(<, Nat))
  BY NatLessThanWellFounded, WFMin
<1>2. \A t \in T : ~(t < s)
  BY <1>1 DEF OpToRel
<1>3. QED
  BY <1>2

\* The chosen step inward is one that is admitted, and stays on the grid.
LEMMA InnermostFacts ==
  ASSUME NEW l \in Listings, NEW index \in Nat, NEW f \in Int, NEW direction \in {1, -1},
         NEW p \in Innermost(l, index, f * l.tick, direction)
  PROVE  p \in Int /\ Admits(l, index, p) /\ \E m \in Int : p = m * l.tick
<1> DEFINE At(k) == f * l.tick + direction * k * l.tick
           inside == {q \in {At(k) : k \in 0 .. MaxSteps} : Admits(l, index, q)}
           K == {k \in 0 .. MaxSteps : Admits(l, index, At(k))}
<1>1. l.tick \in Nat \ {0} /\ MaxSteps \in Nat
  BY ListingFacts, NumbersAssumption
<1>2. \A k \in Nat : At(k) = (f + direction * k) * l.tick /\ f + direction * k \in Int /\ At(k) \in Int
  BY <1>1
<1>3. ASSUME NEW j \in Nat, NEW k \in Nat, k <= j PROVE direction * At(k) <= direction * At(j)
  <2>1. /\ k * l.tick <= j * l.tick /\ k * l.tick \in Int /\ j * l.tick \in Int /\ f * l.tick \in Int
    BY <1>1, <1>3, TimesMonotone
  <2>2. CASE direction = 1
    BY <1>1, <2>1, <2>2
  <2>3. CASE direction = -1
    <3>1. At(k) = f * l.tick - k * l.tick /\ At(j) = f * l.tick - j * l.tick
      BY <1>1, <2>3
    <3>2. QED
      BY <2>1, <2>3, <3>1
  <2>4. QED
    BY <2>2, <2>3
<1>4. inside # {} /\ p = CHOOSE q \in inside : \A r \in inside : direction * q <= direction * r
  BY DEF Innermost
<1> HIDE DEF At
<1>5. K \subseteq Nat /\ K # {}
  BY <1>1, <1>4
<1>6. PICK k \in K : \A j \in K : k <= j
  BY <1>5, Least
<1>7. At(k) \in inside /\ \A r \in inside : direction * At(k) <= direction * r
  BY <1>1, <1>3, <1>5, <1>6
<1>8. p \in inside
  BY <1>4, <1>7
<1>9. PICK n \in 0 .. MaxSteps : p = At(n)
  BY <1>8
<1>10. p \in Int /\ \E m \in Int : p = m * l.tick
  BY <1>1, <1>2, <1>9
<1>11. QED
  BY <1>8, <1>10

\* Between the edges of the band the chain's own test passes.
LEMMA AdmittedIsTaken ==
  ASSUME NEW l \in Listings, NEW index \in Nat, NEW p \in Int, Admits(l, index, p)
  PROVE  AssetAdmits(l, index, p)
<1> USE NumbersAssumption
<1> DEFINE band == index * l.width
           half == band \div Scale
<1>1. band \in Nat /\ Scale \in Nat \ {0}
  BY ListingFacts, TimesNat
<1> HIDE DEF band
<1>2. half \in Nat /\ half * Scale <= band
  BY <1>1, DivNat, DivFacts
<1>3. index - half <= p /\ p <= index + half
  BY DEF band, Admits, BandLow, BandHigh, HalfBand
<1> HIDE DEF half
<1>4. Distance(p, index) \in Nat /\ Distance(p, index) <= half
  BY <1>2, <1>3 DEF Distance
<1>5. Distance(p, index) * Scale <= half * Scale
  BY <1>1, <1>2, <1>4, TimesMonotone
<1>6. Distance(p, index) * Scale <= band
  BY <1>1, <1>2, <1>4, <1>5, TimesNat
<1>7. QED
  BY <1>6 DEF band, AssetAdmits

LEMMA OnGridFacts ==
  ASSUME NEW l \in Listings, NEW side, NEW price \in Nat
  PROVE  /\ OnGrid(l, side, price) \in Int /\ (price > 0 => OnGrid(l, side, price) >= 0)
         /\ \E m \in Int : OnGrid(l, side, price) = m * l.tick
<1>1. l.tick \in Nat \ {0}
  BY ListingFacts
<1>2. CASE side = "buy"
  <2>1. OnGrid(l, side, price) = RoundDown(price, l.tick)
    BY <1>2 DEF OnGrid
  <2>2. /\ RoundDown(price, l.tick) \in Nat /\ price \div l.tick \in Nat
        /\ RoundDown(price, l.tick) = (price \div l.tick) * l.tick
    BY ONLY <1>1, RoundDownFacts, price \in Nat
  <2>3. QED
    BY <2>1, <2>2
<1>3. CASE side # "buy"
  <2>1. OnGrid(l, side, price) = Ceil(price, l.tick) * l.tick
    BY <1>3 DEF OnGrid
  <2>2. Ceil(price, l.tick) \in Int /\ price <= Ceil(price, l.tick) * l.tick
    BY <1>1, CeilFacts
  <2>3. Ceil(price, l.tick) * l.tick \in Int
    BY <1>1, <2>2, TimesAssociates
  <2>4. QED
    BY <2>1, <2>2, <2>3
<1>4. QED
  BY <1>2, <1>3

LEMMA IndexFacts ==
  ASSUME NEW l \in Listings, NEW feed \in Spots
  PROVE  Index(l, feed) \in Nat
BY NumbersAssumption, DivNat, TimesNat DEF Index

\* Every price a cycle wants is positive, on the grid, and taken by the future's contract.
LEMMA ClampedFacts ==
  ASSUME NEW l \in Listings, NEW index \in Nat, NEW side,
         NEW level \in Nat \ {0}, \E m \in Int : level = m * l.tick,
         NEW p \in Clamped(l, index, side, level)
  PROVE  p \in Nat \ {0} /\ p % l.tick = 0 /\ AssetAdmits(l, index, p)
<1> USE NumbersAssumption
<1>1. l.tick \in Nat \ {0}
  BY ListingFacts
<1>2. CASE l.kind # "engine"
  <2>1. p = level
    BY <1>2 DEF Clamped
  <2>2. QED
    BY <1>1, <1>2, <2>1, DivExact DEF AssetAdmits
<1>3. CASE l.kind = "engine"
  <2>1. PICK e \in Edges(l, index) :
          /\ e.low <= e.high /\ (IF side = "buy" THEN level >= e.low ELSE level <= e.high)
          /\ p = IF side = "buy" THEN Smaller(level, e.high) ELSE Larger(level, e.low)
    BY <1>3 DEF Clamped
  <2>2. e.low \in Innermost(l, index, Ceil(BandLow(l, index), l.tick) * l.tick - Drift * l.tick, 1)
    BY <2>1 DEF Edges
  <2>3. e.high \in Innermost(l, index, RoundDown(BandHigh(l, index), l.tick) + Drift * l.tick, -1)
    BY <2>1 DEF Edges
  <2>4. BandLow(l, index) \in Int /\ BandHigh(l, index) \in Int
    BY ListingFacts, TimesNat, DivNat DEF BandLow, BandHigh, HalfBand
  <2>5. /\ e.low \in Int /\ Admits(l, index, e.low) /\ \E m \in Int : e.low = m * l.tick
    <3>1. Ceil(BandLow(l, index), l.tick) \in Int /\ Drift \in Int
      BY <1>1, <2>4, CeilFacts
    <3>2. /\ Ceil(BandLow(l, index), l.tick) * l.tick - Drift * l.tick
               = (Ceil(BandLow(l, index), l.tick) - Drift) * l.tick
          /\ Ceil(BandLow(l, index), l.tick) - Drift \in Int
      BY <1>1, <3>1
    <3> DEFINE f == Ceil(BandLow(l, index), l.tick) - Drift
    <3>3. f \in Int /\ e.low \in Innermost(l, index, f * l.tick, 1)
      BY <2>2, <3>2
    <3> HIDE DEF f
    <3>4. ASSUME NEW d \in {1, -1}, e.low \in Innermost(l, index, f * l.tick, d)
          PROVE  e.low \in Int /\ Admits(l, index, e.low) /\ \E m \in Int : e.low = m * l.tick
      BY ONLY <3>3, <3>4, InnermostFacts, l \in Listings, index \in Nat
    <3>5. QED
      BY <3>3, <3>4
  <2>6. /\ e.high \in Int /\ Admits(l, index, e.high) /\ \E m \in Int : e.high = m * l.tick
    <3>1. BandHigh(l, index) \div l.tick \in Int /\ Drift \in Int
      BY <1>1, <2>4, DivFacts
    <3>2. /\ RoundDown(BandHigh(l, index), l.tick) + Drift * l.tick
               = (BandHigh(l, index) \div l.tick + Drift) * l.tick
          /\ BandHigh(l, index) \div l.tick + Drift \in Int
      BY <1>1, <3>1 DEF RoundDown
    <3> DEFINE f == BandHigh(l, index) \div l.tick + Drift
    <3>3. f \in Int /\ e.high \in Innermost(l, index, f * l.tick, -1)
      BY <2>3, <3>2
    <3> HIDE DEF f
    <3>4. ASSUME NEW d \in {1, -1}, e.high \in Innermost(l, index, f * l.tick, d)
          PROVE  e.high \in Int /\ Admits(l, index, e.high) /\ \E m \in Int : e.high = m * l.tick
      BY ONLY <3>3, <3>4, InnermostFacts, l \in Listings, index \in Nat
    <3>5. QED
      BY <3>3, <3>4
  <2>7. p \in {level, e.low, e.high} /\ e.low <= p /\ p <= e.high
    BY <2>1, <2>5, <2>6 DEF Smaller, Larger
  <2>8. \E m \in Int : p = m * l.tick
    BY <2>5, <2>6, <2>7
  <2>9. p \in Int /\ Admits(l, index, p)
    BY <2>4, <2>5, <2>6, <2>7 DEF Admits
  <2>10. p > 0
    BY <2>9 DEF Admits
  <2>11. p % l.tick = 0
    BY <1>1, <2>8, DivExact
  <2>12. QED
    BY <2>9, <2>10, <2>11, AdmittedIsTaken
<1>4. QED
  BY <1>2, <1>3

-----------------------------------------------------------------------------
(* The ceiling of the fee, the expiry, and what is read back.               *)

LEMMA NotionalFacts ==
  ASSUME NEW l \in Listings, NEW price \in Nat
  PROVE  Notional(l, price) \in Nat
BY ListingFacts, NumbersAssumption, TimesNat DEF Notional

LEMMA CeilingFacts ==
  ASSUME NEW l \in Listings, NEW price \in Nat, NEW bps \in Fees
  PROVE  /\ Ceiling(l, price, bps) \in Nat
         /\ bps > 0 => Notional(l, price) * (bps + Headroom) <= Ceiling(l, price, bps) * Bps
<1> DEFINE due == Notional(l, price) * (bps + Headroom)
           up == Ceil(due, Bps)
<1>1. bps \in Nat /\ bps + Headroom \in Nat /\ Bps \in Nat \ {0} /\ WorstFee \in Nat
  BY NumbersAssumption
<1>2. due \in Nat
  BY <1>1, NotionalFacts, TimesNat
<1> HIDE DEF due
<1>3. up \in Int /\ due <= up * Bps
  BY <1>1, <1>2, CeilFacts
<1> HIDE DEF up
<1>4. Ceiling(l, price, bps) = IF bps = 0 THEN WorstFee ELSE Larger(1, up)
  BY DEF Ceiling, due, up
<1>5. Larger(1, up) \in Nat /\ up <= Larger(1, up)
  BY <1>3 DEF Larger
<1>6. up * Bps <= Larger(1, up) * Bps
  BY <1>1, <1>3, <1>5, TimesMonotone
<1>7. due <= Larger(1, up) * Bps
  BY <1>1, <1>2, <1>3, <1>5, <1>6, TimesAssociates
<1>8. QED
  BY <1>1, <1>4, <1>5, <1>7 DEF due

\* The matcher truncates, the bot rounds up: the charge per unit stays under the ceiling.
LEMMA CoversFacts ==
  ASSUME NEW l \in Listings, NEW o, o.price \in Nat, NEW bps \in Fees, bps > 0,
         o.ceiling = Ceiling(l, o.price, bps),
         NEW charged \in Nat, charged <= bps + Headroom, NEW amount \in Nat
  PROVE  Covers(l, o, charged, amount)
<1> DEFINE worth == Notional(l, o.price)
           c == o.ceiling
           x == Charge(l, o.price, charged, amount)
<1>1. /\ bps + Headroom \in Nat /\ Bps \in Nat \ {0} /\ Scale \in Nat \ {0}
      /\ Bps * Scale \in Nat \ {0}
  BY NumbersAssumption, TimesNat
<1>2. worth \in Nat /\ c \in Nat /\ worth * (bps + Headroom) <= c * Bps
  BY NotionalFacts, CeilingFacts
<1>3. x = (charged * worth * amount) \div (Bps * Scale)
  BY DEF Charge
<1> HIDE DEF worth, c, x
<1>4. charged * worth \in Nat /\ (charged * worth) * amount \in Nat
  BY <1>2, TimesNat
<1>5. charged * worth <= c * Bps
  <2>1. charged * worth <= (bps + Headroom) * worth
    BY <1>1, <1>2, TimesMonotone
  <2>2. (bps + Headroom) * worth = worth * (bps + Headroom)
    BY <1>1, <1>2, TimesAssociates
  <2>3. (bps + Headroom) * worth \in Int /\ c * Bps \in Int
    BY <1>1, <1>2, TimesAssociates
  <2>4. QED
    BY <1>2, <1>4, <2>1, <2>2, <2>3
<1>6. x \in Nat /\ x * (Bps * Scale) <= (charged * worth) * amount
  <2> DEFINE a == (charged * worth) * amount
             b == Bps * Scale
  <2>1. a \in Nat /\ b \in Nat \ {0} /\ x = a \div b
    BY <1>1, <1>3, <1>4
  <2> HIDE DEF a, b
  <2>2. x \in Nat /\ x * b <= a
    BY <2>1, DivNat, DivFacts
  <2>3. QED
    BY <2>2 DEF a, b
<1>7. (charged * worth) * amount <= (c * Bps) * amount
  BY <1>1, <1>2, <1>4, <1>5, TimesMonotone, TimesAssociates
<1>8. (x * Scale) * Bps <= (c * amount) * Bps
  <2>1. x * (Bps * Scale) = (x * Scale) * Bps
    BY <1>1, <1>6
  <2>2. (c * Bps) * amount = (c * amount) * Bps
    BY <1>1, <1>2
  <2>3. (x * Scale) * Bps \in Int /\ (c * amount) * Bps \in Int
    BY <1>1, <1>2, <1>6, TimesAssociates
  <2>4. QED
    BY <1>4, <1>6, <1>7, <2>1, <2>2, <2>3
<1>9. x * Scale <= c * amount
  BY <1>1, <1>2, <1>6, <1>8, TimesCancels, TimesAssociates
<1>10. QED
  BY <1>9 DEF Covers, x, c

\* While the strategy quotes, an order placed now expires later, and before trading ends.
LEMMA ExpiryFacts ==
  ASSUME NEW l \in Listings, NEW time \in Nat, ~Closed(l, time)
  PROVE  /\ Expiry(l, time) \in Int /\ Expiry(l, time) > time
         /\ l.kind \in {"engine", "option"} => Expiry(l, time) <= Cutoff(l)
<1>1. Life \in Nat \ {0} /\ Margin \in Nat /\ Cutoff(l) \in Int
  BY ListingFacts, NumbersAssumption DEF Cutoff, Smaller
<1>2. l.kind \in {"engine", "option"} => time < Cutoff(l)
  BY <1>1 DEF Closed
<1> HIDE DEF Cutoff
<1>3. QED
  BY <1>1, <1>2 DEF Expiry, Smaller

LEMMA ReadFacts ==
  ASSUME NEW l \in Listings, NEW amount \in Nat
  PROVE  /\ RawLot(l) \in Nat /\ PositionSize(l, amount) \in Nat /\ TradeSize(l, amount) \in Nat
         /\ OneScale(l) => PositionSize(l, amount) = amount
         /\ OneScale(l) /\ IsFuture(l) => TradeSize(l, amount) = amount
<1>1. RawLot(l) \in Nat /\ Unit(l) \in Nat /\ Scale \in Nat \ {0}
  BY UnitFacts, NumbersAssumption DEF RawLot
<1>2. amount * RawLot(l) \in Nat /\ (amount * RawLot(l)) \div Scale \in Nat /\ amount * Unit(l) \in Nat
  BY <1>1, TimesNat, DivNat
<1>3. OneScale(l) /\ IsFuture(l) => RawLot(l) = Scale
  BY DEF OneScale, RawLot
<1>4. (amount * Scale) \div Scale = amount
  BY <1>1, DivExact
<1>5. QED
  BY <1>1, <1>2, <1>3, <1>4 DEF PositionSize, TradeSize

-----------------------------------------------------------------------------
(* Every step keeps the invariant.                                          *)

LEMMA InitHolds == Init => IInv
<1> SUFFICES ASSUME Init PROVE IInv
  OBVIOUS
<1>1. ~Resting /\ NumbersTyped
  <2>1. ~Resting /\ asked \in [size : Nat, price : Nat] /\ refused \in BOOLEAN
    BY DEF Init, Resting, NoTarget
  <2>2. now \in 0 .. Horizon
    BY NumbersAssumption DEF Init
  <2>3. QED
    BY <2>1, <2>2 DEF Init, NumbersTyped
<1>2. PositionSize(listing, 0) = 0 \/ ~OneScale(listing)
  BY ReadFacts DEF Init
<1>3. ReadsAgree /\ OrdersAreTaken
  BY <1>2 DEF Init, ReadsAgree, OrdersAreTaken
<1>4. QED
  BY <1>1, <1>3 DEF IInv, OrderTyped, OrderMade

\* What a cycle wants is taken, and rests as it was asked for.
LEMMA TargetFacts ==
  ASSUME NumbersTyped, NEW side \in {"buy", "sell"}, NEW size \in Sizes, NEW price \in Prices,
         NEW t \in Targets(side, size, price)
  PROVE  LET placed == Placed(side, t) IN
         /\ Expressible(listing, t.size) /\ Expiry(listing, now) > now /\ Taken(t)
         /\ t \in [size : Nat, price : Nat] /\ placed # NoOrder
         /\ placed.side = side /\ placed.price \in Nat \ {0}
         /\ placed.count \in Nat /\ placed.filled = 0 /\ placed.count > 0
         /\ placed.amount > 0 /\ placed.amount \in 0 .. size
         /\ placed.bps = fee /\ placed.ceiling = Ceiling(listing, placed.price, fee)
         /\ placed.expiry \in Int /\ placed.expiry > now
         /\ placed.amount = placed.count * Unit(listing) /\ t.size = placed.amount
         /\ listing.kind \in {"engine", "option"} => placed.expiry <= Cutoff(listing)
<1> DEFINE lots == RoundDown(size, Step(listing))
           level == OnGrid(listing, side, price)
<1>1. /\ listing \in Listings /\ spot \in Spots /\ now \in Nat
      /\ size \in Nat /\ price \in Nat \ {0}
  BY NumbersAssumption DEF NumbersTyped
<1>2. ~Closed(listing, now) /\ lots # 0 /\ level # 0
  BY DEF Targets
<1>3. PICK p \in Clamped(listing, Index(listing, spot), side, level) : t = [size |-> lots, price |-> p]
  BY <1>2 DEF Targets
<1>4. level \in Nat \ {0} /\ \E m \in Int : level = m * listing.tick
  BY <1>1, <1>2, OnGridFacts
<1>5. Index(listing, spot) \in Nat
  BY <1>1, IndexFacts
<1> HIDE DEF level
<1>6. p \in Nat \ {0} /\ p % listing.tick = 0 /\ AssetAdmits(listing, Index(listing, spot), p)
  BY <1>1, <1>3, <1>4, <1>5, ClampedFacts
<1>7. /\ lots \in Nat \ {0} /\ lots <= size /\ Rounded(listing, lots) = lots
      /\ Count(listing, Body(listing, lots)) \in Nat \ {0}
      /\ lots = Count(listing, Body(listing, lots)) * Unit(listing)
      /\ Expressible(listing, lots) /\ VenueTakes(listing, lots)
  BY <1>1, <1>2, SizeFacts
<1> HIDE DEF lots
<1>8. t.size = lots /\ t.price = p
  BY <1>3
<1>9. Taken(t)
  BY <1>6, <1>7, <1>8 DEF Taken
<1>10. /\ Expiry(listing, now) \in Int /\ Expiry(listing, now) > now
       /\ listing.kind \in {"engine", "option"} => Expiry(listing, now) <= Cutoff(listing)
  BY <1>1, <1>2, ExpiryFacts
<1>11. Placed(side, t) = [side |-> side, price |-> p, count |-> Count(listing, Body(listing, lots)),
                          filled |-> 0, amount |-> lots, ceiling |-> Ceiling(listing, p, fee),
                          expiry |-> Expiry(listing, now), bps |-> fee]
  BY <1>7, <1>8 DEF Placed
<1>12. Placed(side, t) # NoOrder
  <2>1. Placed(side, t).side = side /\ NoOrder.side = "none"
    BY <1>11 DEF NoOrder
  <2>2. QED
    BY <2>1
<1>13. t \in [size : Nat, price : Nat]
  BY <1>3, <1>6, <1>7
<1>14. QED
  BY <1>1, <1>6, <1>7, <1>8, <1>9, <1>10, <1>11, <1>12, <1>13

LEMMA CycleKeeps ==
  ASSUME IInv, NEW side \in {"buy", "sell"}, NEW size \in Sizes, NEW price \in Prices,
         Cycle(side, size, price)
  PROVE  IInv'
<1> DEFINE targets == Targets(side, size, price)
<1>1. NumbersTyped /\ OrderTyped /\ OrderMade /\ ReadsAgree /\ refused = FALSE
  BY DEF IInv, OrdersAreTaken, NumbersTyped
<1>2. UNCHANGED <<listing, fee, spot, now, wei, traded, left>>
  BY DEF Cycle
<1>3. ReadsAgree'
  BY <1>1, <1>2 DEF ReadsAgree
<1>4. CASE order' = NoOrder /\ asked' = NoTarget /\ refused' = refused
  <2>1. NumbersTyped' /\ OrdersAreTaken'
    BY <1>1, <1>2, <1>4 DEF NumbersTyped, NoTarget, OrdersAreTaken
  <2>2. OrderTyped' /\ OrderMade'
    BY <1>4 DEF OrderTyped, OrderMade, Resting
  <2>3. QED
    BY <1>3, <2>1, <2>2 DEF IInv
<1>5. CASE UNCHANGED <<order, asked, refused>>
  <2>1. NumbersTyped' /\ OrdersAreTaken'
    BY <1>1, <1>2, <1>5 DEF NumbersTyped, OrdersAreTaken
  <2>2. OrderTyped'
    BY <1>1, <1>2, <1>5 DEF OrderTyped, Resting
  <2>3. OrderMade'
    BY <1>1, <1>2, <1>5 DEF OrderMade, Resting
  <2>4. QED
    BY <1>3, <2>1, <2>2, <2>3 DEF IInv
<1>6. ASSUME NEW t \in targets,
             LET sent == Expressible(listing, t.size) /\ Expiry(listing, now) > now
                 rests == sent /\ Taken(t)
             IN  /\ refused' = (refused \/ ~rests)
                 /\ order' = IF rests THEN Placed(side, t) ELSE NoOrder
                 /\ asked' = IF rests THEN t ELSE NoTarget
      PROVE  IInv'
  <2> DEFINE placed == Placed(side, t)
  <2>1. /\ Expressible(listing, t.size) /\ Expiry(listing, now) > now /\ Taken(t)
        /\ t \in [size : Nat, price : Nat] /\ placed # NoOrder
        /\ placed.side = side /\ placed.price \in Nat \ {0}
        /\ placed.count \in Nat /\ placed.filled = 0 /\ placed.count > 0
        /\ placed.amount > 0 /\ placed.amount \in 0 .. size
        /\ placed.bps = fee /\ placed.ceiling = Ceiling(listing, placed.price, fee)
        /\ placed.expiry \in Int /\ placed.expiry > now
        /\ placed.amount = placed.count * Unit(listing) /\ t.size = placed.amount
        /\ listing.kind \in {"engine", "option"} => placed.expiry <= Cutoff(listing)
    BY <1>1, TargetFacts
  <2> HIDE DEF placed
  <2>2. refused' = FALSE /\ order' = placed /\ asked' = t
    BY <1>1, <1>6, <2>1 DEF placed
  <2>3. NumbersTyped' /\ OrdersAreTaken'
    BY <1>1, <1>2, <2>1, <2>2 DEF NumbersTyped, OrdersAreTaken
  <2>4. OrderTyped'
    <3>1. fee \in Fees /\ placed.ceiling \in Nat
      BY <1>1, <2>1, CeilingFacts DEF NumbersTyped
    <3>2. QED
      BY <1>2, <2>1, <2>2, <3>1 DEF OrderTyped, Resting
  <2>5. OrderMade'
    BY <1>2, <2>1, <2>2 DEF OrderMade, Resting
  <2>6. QED
    BY <1>3, <2>3, <2>4, <2>5 DEF IInv
<1>7. QED
  BY <1>4, <1>5, <1>6 DEF Cycle

\* A fill of n of the order's units, all or one of what is left.
LEMMA SettleKeeps ==
  ASSUME IInv, Settle
  PROVE  IInv'
<1>1. NumbersTyped /\ OrderTyped /\ OrderMade /\ ReadsAgree /\ refused = FALSE /\ Resting
  BY DEF IInv, OrdersAreTaken, NumbersTyped, Settle, Resting
<1>2. PICK n \in {1, order.count - order.filled} : Fill(n)
  BY DEF Settle
<1> DEFINE amount == (order.amount * n) \div order.count
           unit == Unit(listing)
<1>3. /\ order.count \in Nat \ {0} /\ order.filled \in Nat /\ order.filled + n <= order.count /\ n \in Nat
      /\ listing \in Listings /\ unit \in Nat \ {0} /\ order.amount = order.count * unit
      /\ wei \in Nat /\ traded \in Nat /\ left \in Nat
  BY <1>1, UnitFacts DEF NumbersTyped, OrderTyped, OrderMade
<1>4. amount = n * unit
  <2>1. order.amount * n = (n * unit) * order.count /\ n * unit \in Int
    BY <1>3
  <2>2. QED
    BY <1>3, <2>1, DivExact
<1>5. n * unit \in Nat
  BY <1>3, TimesNat
<1>6. ListedSize(listing, order.count - order.filled)
         - ListedSize(listing, order.count - order.filled - n) = n * unit
  BY <1>3 DEF ListedSize
<1>7. wei' = wei + amount /\ traded' = traded + TradeSize(listing, IF IsFuture(listing) THEN amount ELSE n)
  BY <1>2 DEF Fill
<1>8. left' = left + n * unit
  <2>1. left' = left + (ListedSize(listing, order.count - order.filled)
                          - ListedSize(listing, order.count - order.filled - n))
    BY <1>2 DEF Fill
  <2>2. QED
    BY <1>6, <2>1
<1>9. UNCHANGED <<listing, fee, spot, now, refused>>
  BY <1>2 DEF Fill
<1>10. \/ order' = NoOrder /\ asked' = NoTarget
       \/ order.filled + n # order.count /\ order' = [order EXCEPT !.filled = order.filled + n] /\ asked' = asked
  BY <1>2 DEF Fill
<1> DEFINE taken == n * unit
<1>11. amount = taken /\ taken \in Nat
  BY <1>4, <1>5
<1> HIDE DEF amount, unit, taken
<1>12. wei' \in Nat /\ traded' \in Nat /\ left' \in Nat
  <2>1. TradeSize(listing, IF IsFuture(listing) THEN amount ELSE n) \in Nat
    BY <1>3, <1>11, ReadFacts
  <2>2. QED
    BY <1>3, <1>7, <1>8, <1>11, <2>1 DEF taken
<1>13. ReadsAgree'
  <2> SUFFICES ASSUME OneScale(listing) PROVE traded' = left' /\ PositionSize(listing, wei') = left'
    BY <1>9 DEF ReadsAgree
  <2>1. traded = left /\ wei = left
    BY <1>1, <1>3, ReadFacts DEF ReadsAgree
  <2>2. TradeSize(listing, IF IsFuture(listing) THEN amount ELSE n) = taken
    <3>1. CASE IsFuture(listing)
      BY <1>3, <1>11, <3>1, ReadFacts
    <3>2. CASE ~IsFuture(listing)
      BY <3>2 DEF TradeSize, taken, unit
    <3>3. QED
      BY <3>1, <3>2
  <2>3. left' = left + taken
    BY <1>8 DEF taken
  <2>4. PositionSize(listing, wei') = wei'
    BY <1>3, <1>12, ReadFacts
  <2>5. QED
    BY <1>7, <1>11, <2>1, <2>2, <2>3, <2>4
<1>14. NumbersTyped' /\ OrdersAreTaken'
  <2>1. asked' \in [size : Nat, price : Nat]
    BY <1>1, <1>10 DEF NumbersTyped, NoTarget
  <2>2. QED
    BY <1>1, <1>9, <1>12, <2>1 DEF NumbersTyped, OrdersAreTaken
<1>15. OrderTyped' /\ OrderMade'
  <2>1. CASE order' = NoOrder
    BY <2>1 DEF OrderTyped, OrderMade, Resting
  <2>2. CASE /\ order.filled + n # order.count
             /\ order' = [order EXCEPT !.filled = order.filled + n] /\ asked' = asked
    <3>1. /\ order'.side = order.side /\ order'.price = order.price /\ order'.count = order.count
          /\ order'.amount = order.amount /\ order'.ceiling = order.ceiling
          /\ order'.expiry = order.expiry /\ order'.bps = order.bps
      BY <2>2
    <3>2. order'.filled \in 0 .. order'.count - 1
      <4>1. order.filled \in 0 .. order.count - 1
        BY <1>1 DEF OrderTyped
      <4>2. order'.filled = order.filled + n \/ order'.filled = order.filled
        BY <2>2
      <4>3. QED
        BY <1>3, <2>2, <3>1, <4>1, <4>2
    <3>3. OrderTyped'
      BY <1>1, <1>9, <3>1, <3>2 DEF OrderTyped, Resting
    <3>4. OrderMade'
      BY <1>1, <1>9, <2>2, <3>1 DEF OrderMade, Resting
    <3>5. QED
      BY <3>3, <3>4
  <2>3. QED
    BY <1>10, <2>1, <2>2
<1>16. QED
  BY <1>13, <1>14, <1>15 DEF IInv

LEMMA ChangeKeeps ==
  ASSUME IInv, Change
  PROVE  IInv'
<1>1. UNCHANGED <<listing, now, order, asked, wei, traded, left, refused>> /\ fee' \in Fees /\ spot' \in Spots
  BY DEF Change
<1>2. NumbersTyped' /\ OrdersAreTaken'
  BY <1>1 DEF IInv, NumbersTyped, OrdersAreTaken
<1>3. OrderTyped'
  BY <1>1 DEF IInv, OrderTyped, Resting
<1>4. OrderMade' /\ ReadsAgree'
  BY <1>1 DEF IInv, OrderMade, ReadsAgree, Resting
<1>5. QED
  BY <1>2, <1>3, <1>4 DEF IInv

LEMMA TickKeeps ==
  ASSUME IInv, Tick
  PROVE  IInv'
<1>1. UNCHANGED <<listing, fee, spot, wei, traded, left, refused>> /\ now' = now + 1 /\ now < Horizon
  BY DEF Tick
<1>2. \/ order' = NoOrder /\ asked' = NoTarget
      \/ (Resting => order.expiry # now') /\ order' = order /\ asked' = asked
  BY DEF Tick, Resting
<1>3. now' \in 0 .. Horizon /\ now' = now + 1 /\ now \in Int
  BY <1>1, NumbersAssumption DEF IInv, NumbersTyped
<1>4. NumbersTyped' /\ OrdersAreTaken'
  <2>1. asked' \in [size : Nat, price : Nat]
    BY <1>2 DEF IInv, NumbersTyped, NoTarget
  <2>2. QED
    BY <1>1, <1>3, <2>1 DEF IInv, NumbersTyped, OrdersAreTaken
<1>5. OrderTyped'
  <2>1. CASE order' = NoOrder
    BY <2>1 DEF OrderTyped, Resting
  <2>2. CASE (Resting => order.expiry # now') /\ order' = order
    <3>1. Resting => order.expiry > now'
      BY <1>3, <2>2 DEF IInv, OrderTyped
    <3>2. QED
      BY <2>2, <3>1 DEF IInv, OrderTyped, Resting
  <2>3. QED
    BY <1>2, <2>1, <2>2
<1>6. OrderMade'
  BY <1>1, <1>2 DEF IInv, OrderMade, Resting
<1>7. ReadsAgree'
  BY <1>1 DEF IInv, ReadsAgree
<1>8. QED
  BY <1>4, <1>5, <1>6, <1>7 DEF IInv

THEOREM Invariant == Spec => []IInv
<1>1. Init => IInv
  BY InitHolds
<1>2. IInv /\ UNCHANGED vars => IInv'
  <2> SUFFICES ASSUME IInv, UNCHANGED vars PROVE IInv'
    OBVIOUS
  <2>1. UNCHANGED <<listing, fee, spot, now, order, asked, wei, traded, left, refused>>
    BY DEF vars
  <2>2. NumbersTyped' /\ OrdersAreTaken'
    BY <2>1 DEF IInv, NumbersTyped, OrdersAreTaken
  <2>3. OrderTyped'
    BY <2>1 DEF IInv, OrderTyped, Resting
  <2>4. OrderMade' /\ ReadsAgree'
    BY <2>1 DEF IInv, OrderMade, ReadsAgree, Resting
  <2>5. QED
    BY <2>2, <2>3, <2>4 DEF IInv
<1>3. IInv /\ [Next]_vars => IInv'
  BY <1>2, CycleKeeps, SettleKeeps, ChangeKeeps, TickKeeps DEF Next
<1>4. QED
  BY <1>1, <1>3, PTL DEF Spec

(* Amounts, prices and fees are numbers, and the bot's order is no larger than what it wanted.     *)
THEOREM TypeCorrect == Spec => []TypeOK
<1>1. IInv => TypeOK
  BY DEF IInv, NumbersTyped, OrderTyped, Resting, TypeOK
<1>2. QED
  BY <1>1, Invariant, PTL

(* PlaceLimitOrder can sign what BuildQuotes wants, and neither the venue nor the future's          *)
(* contract refuses it.                                                                             *)
THEOREM OrdersStayTaken == Spec => []OrdersAreTaken
<1>1. IInv => OrdersAreTaken
  BY DEF IInv
<1>2. QED
  BY <1>1, Invariant, PTL

(* signedWorstFee's ceiling covers the matcher's charge for any part of the order, through any      *)
(* rise of the fee within the headroom, and cappedOrderExpiry takes the order off before the cutoff. *)
THEOREM FillsStayClear == Spec => []FillsClear
<1>1. ASSUME IInv PROVE FillsClear
  <2> SUFFICES ASSUME Resting PROVE
         /\ order.bps > 0 /\ fee <= order.bps + Headroom =>
              \A n \in 1 .. order.count - order.filled :
                Covers(listing, order, fee, (order.amount * n) \div order.count)
         /\ listing.kind \in {"engine", "option"} => now < Cutoff(listing)
    BY DEF FillsClear, Resting
  <2>1. NumbersTyped /\ OrderTyped /\ OrderMade
    BY <1>1 DEF IInv
  <2>2. listing.kind \in {"engine", "option"} => now < Cutoff(listing)
    <3>1. Cutoff(listing) \in Int /\ now \in Int /\ order.expiry \in Int /\ now < order.expiry
      BY <2>1, ListingFacts, NumbersAssumption DEF Cutoff, Smaller, NumbersTyped, OrderTyped
    <3>2. listing.kind \in {"engine", "option"} => order.expiry <= Cutoff(listing)
      BY <2>1 DEF OrderMade
    <3> HIDE DEF Cutoff
    <3>3. QED
      BY <3>1, <3>2
  <2>3. ASSUME order.bps > 0, fee <= order.bps + Headroom, NEW n \in 1 .. order.count - order.filled
        PROVE  Covers(listing, order, fee, (order.amount * n) \div order.count)
    <3>1. /\ order.price \in Nat /\ order.bps \in Fees /\ fee \in Nat /\ listing \in Listings
          /\ order.ceiling = Ceiling(listing, order.price, order.bps)
      BY <2>1, NumbersAssumption DEF NumbersTyped, OrderTyped, OrderMade
    <3>2. order.amount \in Nat /\ order.count \in Nat \ {0} /\ n \in Nat
      BY <2>1, NumbersAssumption DEF OrderTyped
    <3>3. (order.amount * n) \div order.count \in Nat
      BY <3>2, TimesNat, DivNat
    <3>4. QED
      BY <2>3, <3>1, <3>3, CoversFacts
  <2>4. QED
    BY <2>2, <2>3
<1>2. QED
  BY <1>1, Invariant, PTL

(* evaluateCancel leaves an order nobody took alone while the target and the fee are the same: what *)
(* futureOrderAmounts signs, orderAmountToFloat reads back.                                         *)
THEOREM NothingChurns == Spec => []NoChurn
<1>1. ASSUME IInv PROVE NoChurn
  <2> DEFINE same == [asked EXCEPT !.price = order.price]
  <2> SUFFICES ASSUME Resting, order.filled = 0, fee = order.bps PROVE ~Replaced(order.side, same)
    BY DEF NoChurn, Resting
  <2>1. NumbersTyped /\ OrderTyped /\ OrderMade
    BY <1>1 DEF IInv
  <2>2. same.size = order.amount /\ same.price = order.price
    BY <2>1 DEF NumbersTyped, OrderMade
  <2>3. order.count \in Nat /\ order.amount = order.count * Unit(listing) /\ order.amount \in Int
    BY <2>1, NumbersAssumption DEF OrderTyped, OrderMade
  <2>4. ListedSize(listing, order.count - order.filled) = order.amount
    BY <2>3 DEF ListedSize
  <2>5. ~SizeWrong(listing, order.amount, order.amount)
    BY <2>1, <2>3, UnitFacts DEF SizeWrong, Distance, NumbersTyped
  <2>6. ~(order.ceiling < Ceiling(listing, order.price, fee))
    <3>1. order.ceiling = Ceiling(listing, order.price, fee) /\ order.ceiling \in Nat
      BY <2>1 DEF OrderTyped, OrderMade
    <3>2. QED
      BY <3>1
  <2> HIDE DEF same
  <2>7. QED
    BY <2>2, <2>4, <2>5, <2>6 DEF Replaced
<1>2. QED
  BY <1>1, Invariant, PTL

(* rawOrderSizeToFloat, rawPositionToMarketSize and orderAmountToFloat agree on every fill of the   *)
(* markets of one scale.                                                                            *)
THEOREM ReadsStayEqual == Spec => []ReadsAgree
<1>1. IInv => ReadsAgree
  BY DEF IInv
<1>2. QED
  BY <1>1, Invariant, PTL
=============================================================================
