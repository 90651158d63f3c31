---------------------------- MODULE SpotRateProofs ---------------------------
(***************************************************************************)
(* Proofs about SpotRate for every set of sources, every set of prices and *)
(* every maximum age, throttle and breaker setting.                        *)
(***************************************************************************)
EXTENDS SpotRate, WellFoundedInduction, TLAPS

\* A circuit that is not open has failed less often than it takes to open it.
HealthKept == \A s \in Sources : health[s].opened = Closed => health[s].failures < Failures

\* A cached price was within its maximum age when it was last fetched, or confirmed.
QuoteWithin == quote.price # 0 => quote.age <= MaxAge + quote.wall
CarriedWithin == carried.price # 0 => carried.age <= MaxAge + carried.wall

(* The inductive invariant.                                                *)
IInv == TypeOK /\ HealthKept /\ QuoteWithin /\ CarriedWithin /\ ServedInAge

-----------------------------------------------------------------------------
LEMMA ConstantFacts ==
  /\ MaxAge \in Nat /\ Refresh \in Nat /\ Carry \in Nat /\ Failures \in Nat /\ Cooldown \in Nat
  /\ MaxAge > 0 /\ Refresh > 0 /\ Carry > 0 /\ Failures > 0 /\ Cooldown > 0
  /\ MaxDev \in Nat /\ Prices \subseteq Nat /\ 0 \notin Prices /\ Sources \subseteq Nat
  /\ Cap = MaxAge + Refresh + Carry /\ Cap \in Nat /\ Closed = Cooldown + 1
BY NumbersAssumption, SourcesAssumption DEF Cap, Closed

\* What ratePicker.Pick relies on when it takes the answer of highest priority.
LEMMA Least ==
  ASSUME NEW T, T \subseteq Nat, T # {}
  PROVE  \E s \in T : \A t \in T : s <= t
<1>1. PICK s \in T : \A t \in T : ~(<<t, s>> \in OpToRel(<, Nat))
  BY NatLessThanWellFounded, WFMin
<1>2. \A t \in T : ~(t < s)
  BY <1>1 DEF OpToRel
<1>3. QED
  BY <1>2

LEMMA PickedFacts ==
  ASSUME market \in [Sources -> Prices \cup {0}]
  PROVE  Picked \in Prices \cup {0}
<1>1. CASE Answers = {}
  BY <1>1 DEF Picked
<1>2. CASE Answers # {}
  <2>1. Answers \subseteq Sources
    BY DEF Answers, Asked
  <2>2. \E s \in Answers : \A t \in Answers : s <= t
    BY <1>2, <2>1, Least, ConstantFacts
  <2>3. (CHOOSE s \in Answers : \A t \in Answers : s <= t) \in Answers
    BY <2>2
  <2>4. QED
    BY <1>2, <2>1, <2>3 DEF Picked
<1>3. QED
  BY <1>1, <1>2

-----------------------------------------------------------------------------
(* Facts about a fetch.                                                    *)

Healths == [failures : 0 .. Failures, opened : 0 .. Cooldown + 1]
HealthyOnes == {h \in Healths : h.opened = Closed => h.failures < Failures}
Within(q) == q.price # 0 => q.age <= MaxAge + q.wall

LEMMA HealthFacts ==
  ASSUME health \in [Sources -> HealthyOnes]
  PROVE  HealthAfterPick \in [Sources -> HealthyOnes]
<1>1. ASSUME NEW s \in Sources
      PROVE  (IF s \in Asked THEN Recorded(HalfOpened(health[s]), s \in Answers) ELSE health[s])
               \in HealthyOnes
  <2> DEFINE h == HalfOpened(health[s])
  <2>1. h \in HealthyOnes
    BY ConstantFacts DEF HealthyOnes, Healths, HalfOpened
  <2> HIDE DEF h
  <2>2. ASSUME h.opened = Closed PROVE Recorded(h, s \in Answers) \in HealthyOnes
    BY <2>1, <2>2, ConstantFacts DEF HealthyOnes, Healths, Recorded
  <2>3. s \in Asked => h.opened = Closed
    BY DEF Asked, h
  <2>4. QED
    BY <2>2, <2>3 DEF h
<1>2. QED
  BY <1>1 DEF HealthAfterPick

\* Whatever upstream answers, what is cached was within its age when it was fetched or confirmed, and
\* what is returned is within it now.
LEMMA FetchedFacts ==
  ASSUME NEW q \in Quotes, Within(q), NEW price \in Prices \cup {0}, NEW age \in 0 .. Cap
  PROVE  LET f == Fetched(q, price, age)
         IN  /\ f.quote \in Quotes /\ Within(f.quote)
             /\ f.result \in Quotes /\ Within(f.result)
             /\ f.result.price # 0 => f.result.age <= MaxAge
<1> USE ConstantFacts
<1>1. Nothing \in Quotes /\ Nothing.price = 0
  BY DEF Nothing, Quotes
<1>2. CASE price = 0 \/ age > MaxAge
  <2>1. Fetched(q, price, age) = [quote |-> q, result |-> CachedIfFresh(q)]
    BY <1>2 DEF Fetched
  <2>2. QED
    BY <2>1, <1>1 DEF CachedIfFresh, Quotes, Within
<1>3. CASE ~(price = 0 \/ age > MaxAge) /\ Rejected(q, price)
  <2> DEFINE again == [q EXCEPT !.wall = 0]
  <2>1. Fetched(q, price, age) = [quote |-> again, result |-> again]
    BY <1>3 DEF Fetched
  <2>2. again \in Quotes /\ again.age <= MaxAge /\ again.wall = 0
    BY <1>3 DEF Rejected, Quotes
  <2> HIDE DEF again
  <2>3. QED
    BY <2>1, <2>2 DEF Within
<1>4. CASE ~(price = 0 \/ age > MaxAge) /\ ~Rejected(q, price)
  <2> DEFINE fresh == [price |-> price, age |-> age, wall |-> 0]
  <2>1. Fetched(q, price, age) = [quote |-> fresh, result |-> fresh]
    BY <1>4 DEF Fetched
  <2>2. fresh \in Quotes /\ fresh.age <= MaxAge /\ fresh.wall = 0
    BY <1>4 DEF Quotes
  <2>3. QED
    BY <2>1, <2>2 DEF Within
<1>5. QED
  BY <1>2, <1>3, <1>4

LEMMA FetchFacts ==
  ASSUME IInv
  PROVE  /\ Fetch.quote \in Quotes /\ Within(Fetch.quote)
         /\ Fetch.result \in Quotes /\ Within(Fetch.result)
         /\ Fetch.result.price # 0 => Fetch.result.age < MaxAge + Refresh
         /\ Fetch.health \in [Sources -> HealthyOnes]
<1> USE ConstantFacts
<1>1. quote \in Quotes /\ Within(quote) /\ health \in [Sources -> HealthyOnes]
  BY DEF IInv, TypeOK, QuoteWithin, Within, HealthKept, HealthyOnes, Healths
<1>2. CASE Cached
  <2>1. Fetch = [quote |-> quote, result |-> quote, health |-> health]
    BY <1>2 DEF Fetch
  <2>2. quote.price # 0 => quote.age < MaxAge + Refresh
    BY <1>1, <1>2 DEF Cached, Within, Quotes
  <2>3. QED
    BY <1>1, <2>1, <2>2
<1>3. CASE ~Cached /\ provider = "picker"
  <2> DEFINE f == Fetched(quote, Picked, 0)
  <2>1. Fetch = [quote |-> f.quote, result |-> f.result, health |-> HealthAfterPick]
    BY <1>3 DEF Fetch
  <2>2. Picked \in Prices \cup {0} /\ 0 \in 0 .. Cap
    BY PickedFacts DEF IInv, TypeOK
  <2>3. QED
    BY <1>1, <2>1, <2>2, FetchedFacts, HealthFacts DEF Quotes
<1>4. CASE ~Cached /\ provider # "picker"
  <2> DEFINE f == Fetched(quote, round.price, round.age)
  <2>1. Fetch = [quote |-> f.quote, result |-> f.result, health |-> health]
    BY <1>4 DEF Fetch
  <2>2. round.price \in Prices \cup {0} /\ round.age \in 0 .. Cap
    BY DEF IInv, TypeOK
  <2>3. /\ f.quote \in Quotes /\ Within(f.quote) /\ f.result \in Quotes /\ Within(f.result)
        /\ f.result.price # 0 => f.result.age <= MaxAge
    BY <1>1, <2>2, FetchedFacts
  <2> HIDE DEF f
  <2>4. QED
    BY <1>1, <2>1, <2>3 DEF Quotes
<1>5. QED
  BY <1>2, <1>3, <1>4

-----------------------------------------------------------------------------
(* The inductive invariant holds at the start and is kept by every step.   *)

LEMMA InitHolds == Init => IInv
<1> SUFFICES ASSUME Init PROVE IInv
  OBVIOUS
<1> USE ConstantFacts DEF Init
<1>1. Nothing \in Quotes /\ Nothing.price = 0
  BY DEF Nothing, Quotes
<1>2. market \in [Sources -> Prices \cup {0}] /\ round \in [price : Prices \cup {0}, age : 0 .. Cap]
  OBVIOUS
<1>3. health \in [Sources -> [failures : 0 .. Failures, opened : 0 .. Cooldown + 1]] /\ HealthKept
  BY DEF HealthKept
<1>4. served \in [price : Prices \cup {0}, age : 0 .. Cap] /\ served.price = 0
  OBVIOUS
<1>5. QED
  BY <1>1, <1>2, <1>3, <1>4 DEF IInv, TypeOK, QuoteWithin, CarriedWithin, ServedInAge

LEMMA PollKeeps == IInv /\ Poll => IInv'
<1> SUFFICES ASSUME IInv, Poll PROVE IInv'
  OBVIOUS
<1> USE ConstantFacts, FetchFacts
<1>1. /\ quote' = Fetch.quote /\ health' = Fetch.health
      /\ served' = [price |-> Fetch.result.price, age |-> Fetch.result.age]
      /\ UNCHANGED <<carried, provider, market, round, calm>> /\ provider # "carry"
  BY DEF Poll, Serves, world
<1>2. served' \in [price : Prices \cup {0}, age : 0 .. Cap] /\ ServedInAge'
  BY <1>1 DEF Quotes, ServedInAge
<1>3. health' \in [Sources -> Healths] /\ HealthKept'
  BY <1>1 DEF HealthyOnes, HealthKept
<1>4. QED
  BY <1>1, <1>2, <1>3 DEF IInv, TypeOK, QuoteWithin, CarriedWithin, Within, Healths

LEMMA PollCarryKeeps == IInv /\ PollCarry => IInv'
<1> SUFFICES ASSUME IInv, PollCarry PROVE IInv'
  OBVIOUS
<1> USE ConstantFacts
<1>1. UNCHANGED <<health, provider, market, round, calm>> /\ provider = "carry"
  BY DEF PollCarry, world
<1>2. carried \in Quotes /\ Within(carried)
  BY DEF IInv, TypeOK, CarriedWithin, Within
<1>3. CASE carried.price # 0 /\ carried.wall < Carry
  <2>1. UNCHANGED <<quote, carried>> /\ served' = [price |-> carried.price, age |-> carried.age]
    BY <1>3 DEF PollCarry, Serves
  <2>2. served' \in [price : Prices \cup {0}, age : 0 .. Cap] /\ ServedInAge'
    BY <1>1, <1>2, <1>3, <2>1 DEF Quotes, Within, ServedInAge
  <2>3. QED
    BY <1>1, <2>1, <2>2 DEF IInv, TypeOK, HealthKept, QuoteWithin, CarriedWithin
<1>4. CASE ~(carried.price # 0 /\ carried.wall < Carry)
  <2> DEFINE r == Fetch.result
  <2>1. /\ quote' = Fetch.quote
        /\ carried' = IF Usable(r) THEN [r EXCEPT !.wall = 0] ELSE carried
        /\ IF Usable(r) THEN Serves(r) ELSE Serves(Nothing)
    BY <1>4 DEF PollCarry
  <2>2. r \in Quotes /\ quote' \in Quotes /\ Within(quote')
    BY <2>1, FetchFacts
  <2> HIDE DEF r
  <2>3. carried' \in Quotes /\ Within(carried')
    BY <1>2, <2>1, <2>2 DEF Usable, Quotes, Within
  <2>4. served' \in [price : Prices \cup {0}, age : 0 .. Cap] /\ ServedInAge'
    BY <1>1, <2>1, <2>2 DEF Usable, Serves, Nothing, Quotes, ServedInAge
  <2>5. QED
    BY <1>1, <2>2, <2>3, <2>4 DEF IInv, TypeOK, HealthKept, QuoteWithin, CarriedWithin, Within
<1>5. QED
  BY <1>3, <1>4

LEMMA WorldKeeps == IInv /\ (Move \/ Settle) => IInv'
<1> SUFFICES ASSUME IInv, Move \/ Settle PROVE IInv'
  OBVIOUS
<1> USE ConstantFacts
<1>1. UNCHANGED <<provider, health, quote, carried, served>> /\ calm' \in BOOLEAN
  BY DEF Move, Settle, IInv, TypeOK
<1>2. market' \in [Sources -> Prices \cup {0}] /\ round' \in [price : Prices \cup {0}, age : 0 .. Cap]
  BY DEF Move, Settle, IInv, TypeOK
<1>3. QED
  BY <1>1, <1>2 DEF IInv, TypeOK, HealthKept, QuoteWithin, CarriedWithin, ServedInAge

\* A cached price and the time since its fetch age together.
LEMMA OlderFacts ==
  ASSUME NEW q \in Quotes, Within(q)
  PROVE  LET r == [q EXCEPT !.age = Older(q.age, Cap), !.wall = Older(q.wall, Refresh + Carry)]
         IN  r \in Quotes /\ Within(r)
<1> DEFINE r == [q EXCEPT !.age = Older(q.age, Cap), !.wall = Older(q.wall, Refresh + Carry)]
<1>1. q.age \in 0 .. Cap /\ q.wall \in 0 .. Refresh + Carry /\ q.price \in Prices \cup {0}
  BY DEF Quotes
<1>2. r.price = q.price /\ r.age = Older(q.age, Cap) /\ r.wall = Older(q.wall, Refresh + Carry)
  BY DEF Quotes
<1>3. r \in Quotes
  <2>1. Older(q.age, Cap) \in 0 .. Cap /\ Older(q.wall, Refresh + Carry) \in 0 .. Refresh + Carry
    BY <1>1, ConstantFacts DEF Older
  <2>2. QED
    BY <2>1 DEF Quotes
<1>4. ASSUME NEW age \in 0 .. Cap, NEW wall \in 0 .. Refresh + Carry, age <= MaxAge + wall
      PROVE  Older(age, Cap) <= MaxAge + Older(wall, Refresh + Carry)
  <2>1. CASE wall >= Refresh + Carry
    BY <2>1, <1>4, ConstantFacts DEF Older
  <2>2. CASE wall < Refresh + Carry
    <3>1. Older(wall, Refresh + Carry) = wall + 1
      BY <2>2, ConstantFacts DEF Older
    <3>2. Older(age, Cap) \in Nat /\ Older(age, Cap) <= age + 1
      BY ConstantFacts DEF Older
    <3>3. QED
      BY <3>1, <3>2, <1>4, ConstantFacts
  <2>3. QED
    BY <2>1, <2>2, ConstantFacts
<1> HIDE DEF r
<1>5. Within(r)
  BY <1>1, <1>2, <1>4 DEF Within
<1>6. QED
  BY <1>3, <1>5 DEF r

LEMMA TickKeeps == IInv /\ Tick => IInv'
<1> SUFFICES ASSUME IInv, Tick PROVE IInv'
  OBVIOUS
<1> USE ConstantFacts
<1>1. quote' \in Quotes /\ Within(quote') /\ carried' \in Quotes /\ Within(carried')
  BY OlderFacts DEF Tick, IInv, TypeOK, QuoteWithin, CarriedWithin, Within
<1>2. round' \in [price : Prices \cup {0}, age : 0 .. Cap]
  BY DEF Tick, IInv, TypeOK, Older
<1>3. ASSUME NEW s \in Sources
      PROVE  LET h == [health[s] EXCEPT !.opened = IF @ = Closed THEN @ ELSE Older(@, Cooldown)]
             IN  h \in Healths /\ (h.opened = Closed => h.failures < Failures)
  BY DEF IInv, TypeOK, HealthKept, Healths, Older
<1>4. health' \in [Sources -> Healths] /\ HealthKept'
  BY <1>3 DEF Tick, HealthKept
<1>5. UNCHANGED <<provider, market, served, calm>>
  BY DEF Tick
<1>6. QED
  BY <1>1, <1>2, <1>4, <1>5 DEF IInv, TypeOK, QuoteWithin, CarriedWithin, Within, Healths, ServedInAge

LEMMA StepKeeps == IInv /\ [Next]_vars => IInv'
<1>1. IInv /\ UNCHANGED vars => IInv'
  BY DEF vars, IInv, TypeOK, HealthKept, QuoteWithin, CarriedWithin, ServedInAge
<1>2. QED
  BY <1>1, PollKeeps, PollCarryKeeps, WorldKeeps, TickKeeps DEF Next

-----------------------------------------------------------------------------
(* The results.                                                            *)

THEOREM Invariant == Spec => []IInv
<1>1. Init => IInv
  BY InitHolds
<1>2. IInv /\ [Next]_vars => IInv'
  BY StepKeeps
<1>3. QED
  BY <1>1, <1>2, PTL DEF Spec

(* The caches, the breakers and the price served stay within their types.  *)
THEOREM TypeCorrect == Spec => []TypeOK
<1>1. IInv => TypeOK
  BY DEF IInv
<1>2. QED
  BY <1>1, Invariant, PTL

(* No call of the external anchor, behind whichever throttles, ever returns a price older than its  *)
(* maximum age and one refresh interval.                                                            *)
THEOREM ServedStaysInAge == Spec => []ServedInAge
<1>1. IInv => ServedInAge
  BY DEF IInv
<1>2. QED
  BY <1>1, Invariant, PTL
=============================================================================
