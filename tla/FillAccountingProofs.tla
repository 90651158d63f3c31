------------------------ MODULE FillAccountingProofs ------------------------
(***************************************************************************)
(* Proofs about FillAccounting for any set of orders, of handlers and of   *)
(* faults, and any size. What is counted too often is bounded only where   *)
(* the tape and the list of a load agree: "tape" is not among the faults.  *)
(***************************************************************************)
EXTENDS FillAccounting, FiniteSetTheorems, TLAPS

\* The parts of TypeOK.
VenueTyped ==
  st \in [Orders -> Statuses] /\ size \in [Orders -> 0..Size] /\ tape \in SUBSET Trades
CancelTyped ==
  /\ noted \in SUBSET Orders /\ asked \in SUBSET Orders /\ late \in SUBSET Orders
  /\ call \in [Callers -> Orders \cup {NoOrder}]
CycleTyped ==
  /\ pc \in {"idle", "trades", "listed", "drained", "acting"}
  /\ new \in Snapshots /\ observed \in Snapshots /\ ours \in SUBSET Orders
CountTyped ==
  /\ counted \in [Orders -> Nat] /\ excused \in [Orders -> Nat]
  /\ prompt \in SUBSET Orders /\ seen \in SUBSET Orders

\* What the venue holds of an order that rests, and of one that is done.
SizeKept ==
  \A o \in Orders : /\ st[o] \in {"active", "matching"} => size[o] > 0
                    /\ st[o] = "filled" => size[o] = 0

\* Only what was asked to be cancelled is noted, awaited, late or cancelled by the bot.
AskedKept ==
  /\ noted \cup ours \cup late \subseteq asked
  /\ \A c \in Callers : call[c] # NoOrder => call[c] \in asked
  /\ \A o \in Orders : st[o] = "cancelled by us" => o \in asked

\* The snapshot a cycle starts from is the one it compares with.
NewKept ==
  /\ pc \in {"idle", "acting"} => new = observed
  /\ pc = "trades" => new.list = observed.list
  /\ \A o \in Orders : observed.list[o] > 0 \/ new.list[o] > 0 => st[o] # "unknown"

\* An order that left without being asked to was counted, or the venue cancelled it.
VenueDid(o) == st[o] = "cancelled by venue"
FillsKept == \A o \in seen \ asked : observed.list[o] = 0 => counted[o] > 0 \/ VenueDid(o)

(* The inductive invariant behind NoFillLost.                              *)
IInv ==
  /\ VenueTyped /\ CancelTyped /\ CycleTyped /\ CountTyped
  /\ SizeKept /\ AskedKept /\ NewKept /\ FillsKept

-----------------------------------------------------------------------------
\* The loop cancels before and after a load, never during one; what it took off is among ours.
PromptKept ==
  /\ pc \in {"trades", "listed", "drained"} => call["loop"] = NoOrder
  /\ call["loop"] # NoOrder => call["loop"] \in noted
  /\ IF pc = "drained" THEN prompt \subseteq ours ELSE prompt \subseteq noted

\* A set of trades that holds, of every order, the ones above some remaining size: its level.
Above(X, o, level) == \A k \in 1 .. Size : <<o, k>> \in X <=> k > level
Stepped(X) == \A o \in Orders : \E level \in 0 .. Size : Above(X, o, level)
LevelOf(X, o) == CHOOSE level \in 0 .. Size : Above(X, o, level)

\* The tape says what remains of an order.
Remains(o) == IF st[o] = "unknown" THEN Size ELSE size[o]
VenueKept == \A o \in Orders : Above(tape, o, Remains(o))

\* So does the tape of a load of what that load listed.
TapesKept ==
  /\ Stepped(new.tape) /\ Stepped(observed.tape)
  /\ observed.tape \subseteq new.tape /\ new.tape \subseteq tape
  /\ pc = "trades" => new.tape = tape
ListKept ==
  \A o \in Orders :
    /\ observed.list[o] > 0 => LevelOf(observed.tape, o) = observed.list[o]
    /\ pc # "trades" /\ new.list[o] > 0 => LevelOf(new.tape, o) = new.list[o]

\* No order was counted more often than it had traded by the last comparison, but for its excuses.
Covered(o, extra) == counted[o] + extra <= (Size - LevelOf(observed.tape, o)) + excused[o]

\* An excuse is still unused while the matcher holds an order that was listed, and an order the
\* next comparison will miss has filled, has one, or was cancelled.
Matched(o) == st[o] = "matching" /\ (observed.list[o] > 0 \/ new.list[o] > 0)
Missing(o) == pc \in {"listed", "drained"} /\ observed.list[o] > 0 /\ new.list[o] = 0
Gone(o) == st[o] \in {"cancelled by us", "cancelled by venue"}
CreditKept ==
  \A o \in Orders : /\ Covered(o, 0)
                    /\ Matched(o) => Covered(o, 1)
                    /\ Missing(o) => <<o, 1>> \in new.tape \/ Covered(o, 1) \/ Gone(o)

(* The inductive invariant behind NoPhantomFill.                           *)
CountInv == IInv /\ PromptKept /\ VenueKept /\ TapesKept /\ ListKept /\ CreditKept

-----------------------------------------------------------------------------
(* Trades of one order, counted.                                           *)

LEMMA ConstantFacts == /\ Size \in Nat /\ Size > 0
                       /\ Callers = Handlers \cup {"loop"} /\ NoOrder \notin Orders
BY SizeAssumption, NamesAssumption DEF Callers

\* The trades of an order between two remaining sizes are as many as their difference.
LEMMA Counting ==
  ASSUME NEW o \in Orders, NEW S \in SUBSET Trades, NEW a \in 0 .. Size, NEW b \in 0 .. Size, a <= b,
         \A t \in S : t[1] = o,
         \A k \in 1 .. Size : <<o, k>> \in S <=> a < k /\ k <= b
  PROVE  Cardinality(S) = b - a
<1> USE ConstantFacts
<1> DEFINE f == [i \in 1 .. (b - a) |-> <<o, a + i>>]
<1>1. \A i \in 1 .. (b - a) : a + i \in 1 .. Size /\ f[i] \in S
  OBVIOUS
<1>2. ASSUME NEW t \in S PROVE \E i \in 1 .. (b - a) : f[i] = t
  <2>1. t = <<o, t[2]>> /\ t[2] \in 1 .. Size
    BY DEF Trades
  <2>2. a < t[2] /\ t[2] <= b
    BY <2>1
  <2>3. t[2] - a \in 1 .. (b - a) /\ f[t[2] - a] = t
    BY <2>1, <2>2
  <2>4. QED
    BY <2>3
<1>3. \A i, j \in 1 .. (b - a) : f[i] = f[j] => i = j
  OBVIOUS
<1>4. f \in Bijection(1 .. (b - a), S)
  BY <1>1, <1>2, <1>3 DEF Bijection, Injection, Surjection, IsInjective
<1>5. QED
  BY <1>4, FS_CountingElements DEF ExistsBijection

LEMMA LevelFacts ==
  ASSUME NEW X, NEW o \in Orders, Stepped(X)
  PROVE  LevelOf(X, o) \in 0 .. Size /\ Above(X, o, LevelOf(X, o))
BY DEF Stepped, LevelOf

LEMMA LevelUnique ==
  ASSUME NEW X, NEW o \in Orders, NEW level \in 0 .. Size, Above(X, o, level)
  PROVE  LevelOf(X, o) = level
<1>1. LevelOf(X, o) \in 0 .. Size /\ Above(X, o, LevelOf(X, o))
  BY DEF LevelOf
<1>2. ASSUME NEW m \in 0 .. Size, Above(X, o, m), m < level PROVE FALSE
  <2>1. m + 1 \in 1 .. Size
    BY <1>2, ConstantFacts
  <2>2. (<<o, m + 1>> \in X <=> m + 1 > m) /\ (<<o, m + 1>> \in X <=> m + 1 > level)
    BY <2>1, <1>2 DEF Above
  <2>3. QED
    BY <2>1, <2>2, <1>2, ConstantFacts
<1>3. ASSUME NEW m \in 0 .. Size, Above(X, o, m), level < m PROVE FALSE
  <2>1. level + 1 \in 1 .. Size
    BY <1>3, ConstantFacts
  <2>2. (<<o, level + 1>> \in X <=> level + 1 > m) /\ (<<o, level + 1>> \in X <=> level + 1 > level)
    BY <2>1, <1>3 DEF Above
  <2>3. QED
    BY <2>1, <2>2, <1>3, ConstantFacts
<1>4. QED
  BY <1>1, <1>2, <1>3, ConstantFacts

\* More trades, lower level; and what observeTradeFills counts is the difference.
LEMMA LevelsOrdered ==
  ASSUME NEW X, NEW Y, NEW o \in Orders, Stepped(X), Stepped(Y), X \subseteq Y
  PROVE  LevelOf(Y, o) <= LevelOf(X, o)
<1> DEFINE x == LevelOf(X, o)
           y == LevelOf(Y, o)
<1>1. x \in 0 .. Size /\ Above(X, o, x) /\ y \in 0 .. Size /\ Above(Y, o, y)
  BY LevelFacts
<1> HIDE DEF x, y
<1>2. ASSUME x < y PROVE FALSE
  <2>1. x + 1 \in 1 .. Size
    BY <1>1, <1>2, ConstantFacts
  <2>2. (<<o, x + 1>> \in X <=> x + 1 > x) /\ (<<o, x + 1>> \in Y <=> x + 1 > y)
    BY <2>1, <1>1 DEF Above
  <2>3. QED
    BY <2>1, <2>2, <1>1, <1>2, ConstantFacts
<1>3. QED
  BY <1>1, <1>2, ConstantFacts DEF x, y

LEMMA TapeDifference ==
  ASSUME NEW X \in SUBSET Trades, NEW Y \in SUBSET Trades, NEW o \in Orders,
         Stepped(X), Stepped(Y), X \subseteq Y
  PROVE  Cardinality({t \in Y \ X : t[1] = o}) = LevelOf(X, o) - LevelOf(Y, o)
<1> DEFINE x == LevelOf(X, o)
           y == LevelOf(Y, o)
           S == {t \in Y \ X : t[1] = o}
<1>1. x \in 0 .. Size /\ Above(X, o, x) /\ y \in 0 .. Size /\ Above(Y, o, y) /\ y <= x
  BY LevelFacts, LevelsOrdered
<1> HIDE DEF x, y
<1>2. \A k \in 1 .. Size : <<o, k>> \in S <=> y < k /\ k <= x
  BY <1>1, ConstantFacts DEF Above
<1>3. S \in SUBSET Trades /\ \A t \in S : t[1] = o
  OBVIOUS
<1> HIDE DEF S
<1>4. Cardinality(S) = x - y
  BY <1>1, <1>2, <1>3, Counting
<1>5. QED
  BY <1>4 DEF x, y, S

LEMMA TradedIs ==
  ASSUME NEW X \in SUBSET Trades, NEW o \in Orders, NEW level \in 0 .. Size, Above(X, o, level)
  PROVE  Cardinality({t \in X : t[1] = o}) = Size - level
<1> DEFINE S == {t \in X : t[1] = o}
<1>1. \A k \in 1 .. Size : <<o, k>> \in S <=> level < k /\ k <= Size
  BY ConstantFacts DEF Above
<1>2. S \in SUBSET Trades /\ \A t \in S : t[1] = o
  OBVIOUS
<1> HIDE DEF S
<1>3. Cardinality(S) = Size - level
  BY <1>1, <1>2, Counting, ConstantFacts
<1>4. QED
  BY <1>3 DEF S

\* However large the set of orders, the trades of one are finitely many.
LEMMA TapeFillsNat ==
  ASSUME NEW S \in SUBSET Trades, NEW o \in Orders
  PROVE  Cardinality({t \in S : t[1] = o}) \in Nat
<1> DEFINE All == {t \in Trades : t[1] = o}
           f == [k \in 1 .. Size |-> <<o, k>>]
<1>1. f \in Bijection(1 .. Size, All)
  <2>1. \A k \in 1 .. Size : f[k] \in All
    BY DEF Trades
  <2>2. \A t \in All : t[2] \in 1 .. Size /\ f[t[2]] = t
    BY DEF Trades
  <2>3. \A j, k \in 1 .. Size : f[j] = f[k] => j = k
    OBVIOUS
  <2>4. QED
    BY <2>1, <2>2, <2>3 DEF Bijection, Injection, Surjection, IsInjective
<1>2. IsFiniteSet(1 .. Size)
  BY FS_Interval, ConstantFacts
<1>3. IsFiniteSet(All)
  BY <1>1, <1>2, FS_Bijection DEF ExistsBijection
<1>4. {t \in S : t[1] = o} \in SUBSET All
  OBVIOUS
<1> HIDE DEF All
<1>5. QED
  BY <1>3, <1>4, FS_Subset, FS_CardinalityType
-----------------------------------------------------------------------------
(* Every step keeps the first inductive invariant.                         *)

LEMMA FillTyped ==
  ASSUME VenueTyped, NEW o \in Orders, size[o] > 0, Fill(o)
  PROVE  VenueTyped'
<1> USE ConstantFacts DEF VenueTyped, Fill
<1>1. st' \in [Orders -> Statuses]
  BY DEF Statuses
<1>2. size[o] \in 1 .. Size /\ size' \in [Orders -> 0..Size]
  OBVIOUS
<1>3. tape' \in SUBSET Trades
  BY <1>2 DEF Trades
<1>4. QED
  BY <1>1, <1>2, <1>3

LEMMA ReadTradesKeeps ==
  ASSUME IInv, ReadTrades
  PROVE  IInv'
<1> USE ConstantFacts DEF ReadTrades, venueVars, cancelVars, cycleVars, countVars, IInv
<1>1. VenueTyped'
  BY DEF VenueTyped, Statuses
<1>2. CancelTyped'
  BY DEF CancelTyped
<1>3. CycleTyped'
  BY DEF VenueTyped, CycleTyped, Snapshots
<1>4. CountTyped'
  BY DEF CountTyped
<1>5. SizeKept'
  BY DEF VenueTyped, SizeKept
<1>6. AskedKept'
  BY DEF VenueTyped, CancelTyped, AskedKept
<1>7. NewKept'
  BY DEF VenueTyped, CycleTyped, NewKept
<1>8. FillsKept'
  BY DEF VenueTyped, CycleTyped, CountTyped, FillsKept, VenueDid
<1>9. QED
  BY <1>1, <1>2, <1>3, <1>4, <1>5, <1>6, <1>7, <1>8

LEMMA ListOrdersKeeps ==
  ASSUME IInv, ListOrders
  PROVE  IInv'
<1> USE ConstantFacts DEF ListOrders, venueVars, cancelVars, cycleVars, countVars, IInv
<1>1. VenueTyped'
  BY DEF VenueTyped, Statuses
<1>2. CancelTyped'
  BY DEF CancelTyped
<1>3. CycleTyped'
  <2>1. [o \in Orders |-> IF st[o] = "active" THEN size[o] ELSE 0] \in [Orders -> 0..Size]
    BY DEF VenueTyped
  <2>2. QED
    BY <2>1 DEF CycleTyped, Snapshots
<1>4. CountTyped'
  BY DEF CountTyped
<1>5. SizeKept'
  BY DEF VenueTyped, SizeKept
<1>6. AskedKept'
  BY DEF VenueTyped, CancelTyped, AskedKept
<1>7. NewKept'
  BY DEF VenueTyped, CycleTyped, NewKept
<1>8. FillsKept'
  BY DEF VenueTyped, CycleTyped, CountTyped, FillsKept, VenueDid
<1>9. QED
  BY <1>1, <1>2, <1>3, <1>4, <1>5, <1>6, <1>7, <1>8

LEMMA LoadFailsKeeps ==
  ASSUME IInv, LoadFails
  PROVE  IInv'
<1> USE ConstantFacts DEF LoadFails, venueVars, cancelVars, cycleVars, countVars, IInv
<1>1. VenueTyped'
  BY DEF VenueTyped, Statuses
<1>2. CancelTyped'
  BY DEF CancelTyped
<1>3. CycleTyped'
  BY DEF CycleTyped, Snapshots
<1>4. CountTyped'
  BY DEF CountTyped
<1>5. SizeKept'
  BY DEF VenueTyped, SizeKept
<1>6. AskedKept'
  BY DEF VenueTyped, CancelTyped, AskedKept
<1>7. NewKept'
  BY DEF VenueTyped, CycleTyped, NewKept
<1>8. FillsKept'
  BY DEF VenueTyped, CycleTyped, CountTyped, FillsKept, VenueDid
<1>9. QED
  BY <1>1, <1>2, <1>3, <1>4, <1>5, <1>6, <1>7, <1>8

LEMMA TakeCancelledKeeps ==
  ASSUME IInv, TakeCancelled
  PROVE  IInv'
<1> USE ConstantFacts DEF TakeCancelled, venueVars, cancelVars, cycleVars, countVars, IInv
<1>1. VenueTyped'
  BY DEF VenueTyped, Statuses
<1>2. CancelTyped'
  BY DEF CancelTyped
<1>3. CycleTyped'
  BY DEF CancelTyped, CycleTyped
<1>4. CountTyped'
  BY DEF CountTyped
<1>5. SizeKept'
  BY DEF VenueTyped, SizeKept
<1>6. AskedKept'
  BY DEF VenueTyped, CancelTyped, AskedKept
<1>7. NewKept'
  BY DEF VenueTyped, CycleTyped, NewKept
<1>8. FillsKept'
  BY DEF VenueTyped, CycleTyped, CountTyped, FillsKept, VenueDid
<1>9. QED
  BY <1>1, <1>2, <1>3, <1>4, <1>5, <1>6, <1>7, <1>8

LEMMA LoopCancelsKeeps ==
  ASSUME IInv, NEW o \in Orders, LoopCancels(o)
  PROVE  IInv'
<1> USE ConstantFacts DEF LoopCancels, Ask, venueVars, cancelVars, cycleVars, countVars, IInv
<1>1. VenueTyped'
  BY DEF VenueTyped, Statuses
<1>2. CancelTyped'
  BY DEF CancelTyped
<1>3. CycleTyped'
  BY DEF CycleTyped, Snapshots
<1>4. CountTyped'
  BY DEF CountTyped
<1>5. SizeKept'
  BY DEF VenueTyped, SizeKept
<1>6. AskedKept'
  BY DEF VenueTyped, CancelTyped, AskedKept
<1>7. NewKept'
  BY DEF VenueTyped, CycleTyped, NewKept
<1>8. FillsKept'
  BY DEF VenueTyped, CycleTyped, CountTyped, FillsKept, VenueDid
<1>9. QED
  BY <1>1, <1>2, <1>3, <1>4, <1>5, <1>6, <1>7, <1>8

LEMMA PlaceKeeps ==
  ASSUME IInv, NEW o \in Orders, Place(o)
  PROVE  IInv'
<1> USE ConstantFacts DEF Place, venueVars, cancelVars, cycleVars, countVars, IInv
<1>1. VenueTyped'
  <2>1. st' \in [Orders -> Statuses]
    BY DEF VenueTyped, Statuses
  <2>2. size' \in [Orders -> 0..Size] /\ tape' = tape
    BY DEF VenueTyped
  <2>3. QED
    BY <2>1, <2>2 DEF VenueTyped
<1>2. CancelTyped'
  BY DEF CancelTyped
<1>3. CycleTyped'
  BY DEF CycleTyped, Snapshots
<1>4. CountTyped'
  BY DEF CountTyped
<1>5. SizeKept'
  BY DEF VenueTyped, SizeKept
<1>6. AskedKept'
  BY DEF VenueTyped, CancelTyped, AskedKept
<1>7. NewKept'
  BY DEF VenueTyped, CycleTyped, NewKept
<1>8. FillsKept'
  BY DEF VenueTyped, CycleTyped, CountTyped, FillsKept, VenueDid
<1>9. QED
  BY <1>1, <1>2, <1>3, <1>4, <1>5, <1>6, <1>7, <1>8

LEMMA EndCycleKeeps ==
  ASSUME IInv, EndCycle
  PROVE  IInv'
<1> USE ConstantFacts DEF EndCycle, venueVars, cancelVars, cycleVars, countVars, IInv
<1>1. VenueTyped'
  BY DEF VenueTyped, Statuses
<1>2. CancelTyped'
  BY DEF CancelTyped
<1>3. CycleTyped'
  BY DEF CycleTyped, Snapshots
<1>4. CountTyped'
  BY DEF CountTyped
<1>5. SizeKept'
  BY DEF VenueTyped, SizeKept
<1>6. AskedKept'
  BY DEF VenueTyped, CancelTyped, AskedKept
<1>7. NewKept'
  BY DEF VenueTyped, CycleTyped, NewKept
<1>8. FillsKept'
  BY DEF VenueTyped, CycleTyped, CountTyped, FillsKept, VenueDid
<1>9. QED
  BY <1>1, <1>2, <1>3, <1>4, <1>5, <1>6, <1>7, <1>8

LEMMA HandlerCancelsKeeps ==
  ASSUME IInv, NEW h \in Handlers, NEW o \in Orders, HandlerCancels(h, o)
  PROVE  IInv'
<1> USE ConstantFacts DEF HandlerCancels, Ask, venueVars, cancelVars, cycleVars, countVars, IInv
<1>1. VenueTyped'
  BY DEF VenueTyped, Statuses
<1>2. CancelTyped'
  BY DEF CancelTyped
<1>3. CycleTyped'
  BY DEF CycleTyped, Snapshots
<1>4. CountTyped'
  BY DEF CountTyped
<1>5. SizeKept'
  BY DEF VenueTyped, SizeKept
<1>6. AskedKept'
  BY DEF VenueTyped, CancelTyped, AskedKept
<1>7. NewKept'
  BY DEF VenueTyped, CycleTyped, NewKept
<1>8. FillsKept'
  BY DEF VenueTyped, CycleTyped, CountTyped, FillsKept, VenueDid
<1>9. QED
  BY <1>1, <1>2, <1>3, <1>4, <1>5, <1>6, <1>7, <1>8

LEMMA CancelReturnsKeeps ==
  ASSUME IInv, NEW c \in Callers, CancelReturns(c)
  PROVE  IInv'
<1> USE ConstantFacts DEF CancelReturns, Leaves, venueVars, cancelVars, cycleVars, countVars, IInv
<1>1. VenueTyped'
  BY DEF VenueTyped, Statuses
<1>2. CancelTyped'
  BY DEF CancelTyped
<1>3. CycleTyped'
  BY DEF CycleTyped, Snapshots
<1>4. CountTyped'
  BY DEF CancelTyped, CountTyped
<1>5. SizeKept'
  BY DEF VenueTyped, SizeKept
<1>6. AskedKept'
  BY DEF VenueTyped, CancelTyped, AskedKept
<1>7. NewKept'
  BY DEF VenueTyped, CycleTyped, NewKept
<1>8. FillsKept'
  BY DEF VenueTyped, CycleTyped, CountTyped, FillsKept, VenueDid
<1>9. QED
  BY <1>1, <1>2, <1>3, <1>4, <1>5, <1>6, <1>7, <1>8

LEMMA CancelFailsKeeps ==
  ASSUME IInv, NEW c \in Callers, CancelFails(c)
  PROVE  IInv'
<1> USE ConstantFacts DEF CancelFails, venueVars, cancelVars, cycleVars, countVars, IInv
<1>1. VenueTyped'
  BY DEF VenueTyped, Statuses
<1>2. CancelTyped'
  BY DEF CancelTyped
<1>3. CycleTyped'
  BY DEF CycleTyped, Snapshots
<1>4. CountTyped'
  BY DEF CountTyped
<1>5. SizeKept'
  BY DEF VenueTyped, SizeKept
<1>6. AskedKept'
  BY DEF VenueTyped, CancelTyped, AskedKept
<1>7. NewKept'
  BY DEF VenueTyped, CycleTyped, NewKept
<1>8. FillsKept'
  BY DEF VenueTyped, CycleTyped, CountTyped, FillsKept, VenueDid
<1>9. QED
  BY <1>1, <1>2, <1>3, <1>4, <1>5, <1>6, <1>7, <1>8

LEMMA LateCancelKeeps ==
  ASSUME IInv, NEW o \in Orders, LateCancel(o)
  PROVE  IInv'
<1> USE ConstantFacts DEF LateCancel, Leaves, venueVars, cancelVars, cycleVars, countVars, IInv
<1>1. VenueTyped'
  BY DEF VenueTyped, Statuses
<1>2. CancelTyped'
  BY DEF CancelTyped
<1>3. CycleTyped'
  BY DEF CycleTyped, Snapshots
<1>4. CountTyped'
  BY DEF CountTyped
<1>5. SizeKept'
  BY DEF VenueTyped, SizeKept
<1>6. AskedKept'
  BY DEF VenueTyped, CancelTyped, AskedKept
<1>7. NewKept'
  BY DEF VenueTyped, CycleTyped, NewKept
<1>8. FillsKept'
  BY DEF VenueTyped, CycleTyped, CountTyped, FillsKept, VenueDid
<1>9. QED
  BY <1>1, <1>2, <1>3, <1>4, <1>5, <1>6, <1>7, <1>8

LEMMA TradeKeeps ==
  ASSUME IInv, NEW o \in Orders, Trade(o)
  PROVE  IInv'
<1> USE ConstantFacts DEF Trade, Fill, Elsewhere, venueVars, cancelVars, cycleVars, countVars, IInv
<1>1. VenueTyped'
  BY FillTyped DEF SizeKept, Fill
<1>2. CancelTyped'
  BY DEF CancelTyped
<1>3. CycleTyped'
  BY DEF CycleTyped, Snapshots
<1>4. CountTyped'
  BY DEF CountTyped
<1>5. SizeKept'
  BY DEF VenueTyped, SizeKept
<1>6. AskedKept'
  BY DEF VenueTyped, CancelTyped, AskedKept
<1>7. NewKept'
  BY DEF VenueTyped, CycleTyped, NewKept
<1>8. FillsKept'
  BY DEF VenueTyped, CycleTyped, CountTyped, FillsKept, VenueDid
<1>9. QED
  BY <1>1, <1>2, <1>3, <1>4, <1>5, <1>6, <1>7, <1>8

LEMMA VenueCancelsKeeps ==
  ASSUME IInv, NEW o \in Orders, VenueCancels(o)
  PROVE  IInv'
<1> USE ConstantFacts DEF VenueCancels, Elsewhere, venueVars, cancelVars, cycleVars, countVars, IInv
<1>1. VenueTyped'
  BY DEF VenueTyped, Statuses
<1>2. CancelTyped'
  BY DEF CancelTyped
<1>3. CycleTyped'
  BY DEF CycleTyped, Snapshots
<1>4. CountTyped'
  BY DEF CountTyped
<1>5. SizeKept'
  BY DEF VenueTyped, SizeKept
<1>6. AskedKept'
  BY DEF VenueTyped, CancelTyped, AskedKept
<1>7. NewKept'
  BY DEF VenueTyped, CycleTyped, NewKept
<1>8. FillsKept'
  BY DEF VenueTyped, CycleTyped, CountTyped, FillsKept, VenueDid
<1>9. QED
  BY <1>1, <1>2, <1>3, <1>4, <1>5, <1>6, <1>7, <1>8

LEMMA ReserveKeeps ==
  ASSUME IInv, NEW o \in Orders, Reserve(o)
  PROVE  IInv'
<1> USE ConstantFacts DEF Reserve, Elsewhere, venueVars, cancelVars, cycleVars, countVars, IInv
<1>1. VenueTyped'
  BY DEF VenueTyped, Statuses
<1>2. CancelTyped'
  BY DEF CancelTyped
<1>3. CycleTyped'
  BY DEF CycleTyped, Snapshots
<1>4. CountTyped'
  BY DEF CountTyped
<1>5. SizeKept'
  BY DEF VenueTyped, SizeKept
<1>6. AskedKept'
  BY DEF VenueTyped, CancelTyped, AskedKept
<1>7. NewKept'
  BY DEF VenueTyped, CycleTyped, NewKept
<1>8. FillsKept'
  BY DEF VenueTyped, CycleTyped, CountTyped, FillsKept, VenueDid
<1>9. QED
  BY <1>1, <1>2, <1>3, <1>4, <1>5, <1>6, <1>7, <1>8

LEMMA SettleKeeps ==
  ASSUME IInv, NEW o \in Orders, Settle(o)
  PROVE  IInv'
<1> USE ConstantFacts DEF Settle, Fill, Elsewhere, venueVars, cancelVars, cycleVars, countVars, IInv
<1>1. VenueTyped'
  <2>1. CASE Fill(o)
    BY <2>1, FillTyped DEF SizeKept
  <2>2. CASE st' = [st EXCEPT ![o] = "active"] /\ UNCHANGED <<size, tape>>
    BY <2>2 DEF VenueTyped, Statuses
  <2>3. QED
    BY <2>1, <2>2
<1>2. CancelTyped'
  BY DEF CancelTyped
<1>3. CycleTyped'
  BY DEF CycleTyped, Snapshots
<1>4. CountTyped'
  BY DEF CountTyped
<1>5. SizeKept'
  BY DEF VenueTyped, SizeKept
<1>6. AskedKept'
  BY DEF VenueTyped, CancelTyped, AskedKept
<1>7. NewKept'
  BY DEF VenueTyped, CycleTyped, NewKept
<1>8. FillsKept'
  BY DEF VenueTyped, CycleTyped, CountTyped, FillsKept, VenueDid
<1>9. QED
  BY <1>1, <1>2, <1>3, <1>4, <1>5, <1>6, <1>7, <1>8

\* observeFills adds a number of fills to every order's count.
LEMMA CountsFacts ==
  ASSUME CycleTyped, CountTyped, NEW cancelled, Counts(cancelled)
  PROVE  /\ counted' \in [Orders -> Nat]
         /\ \A o \in Orders : counted'[o] >= counted[o]
         /\ \A o \in Orders : HaveTruth /\ o \in OrderFills(cancelled) => counted'[o] = counted[o] + 1
         /\ \A o \in Orders : HaveTruth /\ o \notin OrderFills(cancelled) => counted'[o] = counted[o]
         /\ \A o \in Orders : ~HaveTruth => counted'[o] = counted[o] + TapeFills(o)
<1>1. ASSUME NEW o \in Orders PROVE TapeFills(o) \in Nat
  <2>1. new.tape \ observed.tape \in SUBSET Trades
    BY DEF CycleTyped, Snapshots
  <2>2. QED
    BY <2>1, TapeFillsNat DEF TapeFills
<1>2. \A o \in Orders : counted[o] \in Nat
  BY DEF CountTyped
<1> HIDE DEF CountTyped
<1>3. counted' = [o \in Orders |->
          counted[o] + (IF HaveTruth THEN (IF o \in OrderFills(cancelled) THEN 1 ELSE 0)
                                     ELSE TapeFills(o))]
  BY DEF Counts
<1>4. QED
  BY <1>1, <1>2, <1>3

LEMMA ObserveFacts ==
  ASSUME ObserveFills
  PROVE  /\ pc = "drained" /\ pc' = "acting"
         /\ observed' = new /\ new' = new
         /\ ours' = {} /\ prompt' = {} /\ seen' = seen \cup {o \in Orders : new.list[o] > 0}
         /\ UNCHANGED <<st, size, tape, noted, call, late, asked>>
         /\ \/ Counts(ours \cup VenueCancelled) /\ UNCHANGED excused
            \/ /\ Counts(ours)
               /\ excused' = [o \in Orders |->
                                excused[o] + IF o \in VenueCancelled \ prompt THEN 1 ELSE 0]
BY DEF ObserveFills, Observed, venueVars, cancelVars

LEMMA ObserveFillsKeeps ==
  ASSUME IInv, ObserveFills
  PROVE  IInv'
<1> USE ConstantFacts DEF IInv
<1>1. VenueTyped' /\ CancelTyped' /\ CycleTyped' /\ SizeKept' /\ AskedKept' /\ NewKept'
  BY ObserveFacts DEF VenueTyped, CancelTyped, CycleTyped, SizeKept, AskedKept, NewKept
<1>2. /\ counted' \in [Orders -> Nat]
      /\ \A o \in Orders : counted'[o] >= counted[o]
      /\ \A o \in Orders : counted[o] \in Nat
  BY ObserveFacts, CountsFacts DEF CountTyped
<1>3. CountTyped'
  BY <1>2, ObserveFacts DEF CountTyped, CycleTyped, Snapshots
<1>4. FillsKept'
  <2>1. ASSUME NEW o \in seen', o \notin asked, new.list[o] = 0, ~VenueDid(o)
        PROVE  counted'[o] > 0
    <3>1. seen' = seen \cup {p \in Orders : new.list[p] > 0}
      BY ObserveFacts
    <3>2. ~(new.list[o] > 0)
      BY <2>1
    <3>3. o \in seen
      BY <3>1, <3>2
    <3>4. o \in Orders
      BY <3>3 DEF CountTyped
    <3>5. observed.list[o] \in Nat
      BY <3>4 DEF CycleTyped, Snapshots
    <3>6. CASE observed.list[o] = 0
      BY <1>2, <2>1, <3>3, <3>4, <3>6 DEF FillsKept
    <3>7. CASE observed.list[o] # 0
      <4>1. o \in Left /\ HaveTruth
        BY <2>1, <3>4, <3>5, <3>7 DEF Left, HaveTruth
      <4>2. o \notin ours
        BY <2>1 DEF AskedKept
      <4>3. o \notin VenueCancelled
        BY <2>1, <3>4 DEF AskedKept, VenueCancelled, VenueDid
      <4>4. o \in OrderFills(ours) /\ o \in OrderFills(ours \cup VenueCancelled)
        BY <4>1, <4>2, <4>3 DEF OrderFills
      <4>5. counted'[o] = counted[o] + 1
        BY <3>4, <4>1, <4>4, ObserveFacts, CountsFacts
      <4>6. QED
        BY <1>2, <3>4, <4>5
    <3>8. QED
      BY <3>6, <3>7
  <2>2. observed' = new /\ asked' = asked /\ \A o : VenueDid(o)' <=> VenueDid(o)
    BY ObserveFacts DEF VenueDid
  <2>3. QED
    BY <2>1, <2>2 DEF FillsKept
<1>5. QED
  BY <1>1, <1>3, <1>4

LEMMA InitHolds == Init => IInv
<1> SUFFICES ASSUME Init PROVE IInv
  OBVIOUS
<1>1. PICK adopted \in SUBSET Orders :
        /\ st = [o \in Orders |-> IF o \in adopted THEN "active" ELSE "unknown"]
        /\ size = [o \in Orders |-> IF o \in adopted THEN Size ELSE 0]
        /\ new = [tape |-> {}, list |-> [o \in Orders |-> IF o \in adopted THEN Size ELSE 0]]
        /\ observed = new /\ seen = adopted
  BY DEF Init
<1> USE ConstantFacts DEF Init
<1>2. VenueTyped /\ CancelTyped /\ CountTyped
  BY <1>1 DEF VenueTyped, Statuses, CancelTyped, CountTyped
<1>3. new \in Snapshots /\ CycleTyped
  <2>1. new \in Snapshots
    BY <1>1 DEF Snapshots
  <2>2. QED
    BY <1>1, <2>1 DEF CycleTyped
<1>4. SizeKept /\ AskedKept /\ NewKept /\ FillsKept
  <2>1. SizeKept
    <3>1. \A o \in Orders : IF o \in adopted THEN st[o] = "active" /\ size[o] = Size ELSE st[o] = "unknown"
      BY <1>1
    <3>2. QED
      BY <3>1 DEF SizeKept
  <2>2. AskedKept
    BY <1>1 DEF AskedKept
  <2>3. NewKept
    BY <1>1 DEF NewKept
  <2>4. FillsKept
    <3>1. \A o \in seen : observed.list[o] = Size
      BY <1>1
    <3>2. QED
      BY <3>1 DEF FillsKept
  <2>5. QED
    BY <2>1, <2>2, <2>3, <2>4
<1>5. QED
  BY <1>2, <1>3, <1>4 DEF IInv

LEMMA StepKeeps == IInv /\ [Next]_vars => IInv'
<1>1. IInv /\ UNCHANGED vars => IInv'
  BY DEF vars, venueVars, cancelVars, cycleVars, countVars, IInv, VenueTyped, CancelTyped, CycleTyped,
         CountTyped, SizeKept, AskedKept, NewKept, FillsKept, VenueDid
<1>2. QED
  BY <1>1, ReadTradesKeeps, ListOrdersKeeps, LoadFailsKeeps, TakeCancelledKeeps, ObserveFillsKeeps,
     LoopCancelsKeeps, PlaceKeeps, EndCycleKeeps, HandlerCancelsKeeps, CancelReturnsKeeps,
     CancelFailsKeeps, LateCancelKeeps, TradeKeeps, VenueCancelsKeeps, ReserveKeeps, SettleKeeps
  DEF Next, CycleStep, CancelStep, VenueStep

THEOREM Invariant == Spec => []IInv
<1>1. Init => IInv
  BY InitHolds
<1>2. IInv /\ [Next]_vars => IInv'
  BY StepKeeps
<1>3. QED
  BY <1>1, <1>2, PTL DEF Spec

(* The venue's orders, the bot's snapshots and the counts stay within their types.                 *)
THEOREM TypeCorrect == Spec => []TypeOK
<1>1. IInv => TypeOK
  BY DEF IInv, VenueTyped, CancelTyped, CycleTyped, CountTyped, TypeOK
<1>2. QED
  BY <1>1, Invariant, PTL

(* observeFills counts every order that stood in a snapshot, was not asked to be cancelled and     *)
(* filled, with every fault the module knows, the tape's included.                                  *)
THEOREM NoFillIsLost == Spec => []NoFillLost
<1>1. IInv => NoFillLost
  BY DEF IInv, FillsKept, NoFillLost, CountTyped, VenueDid
<1>2. QED
  BY <1>1, Invariant, PTL

-----------------------------------------------------------------------------
(* No fill is invented where the tape and the list of a load agree.         *)

\* What an action that counts nothing has to keep for CreditKept.
LEMMA CreditCarries ==
  ASSUME CreditKept, UNCHANGED <<counted, excused, observed>>,
         \A o \in Orders : Matched(o)' => Matched(o),
         \A o \in Orders : Missing(o)' => Missing(o) /\ new' = new,
         \A o \in Orders : Gone(o) => Gone(o)'
  PROVE  CreditKept'
<1> SUFFICES ASSUME NEW o \in Orders
             PROVE  /\ Covered(o, 0)'
                    /\ Matched(o)' => Covered(o, 1)'
                    /\ Missing(o)' => <<o, 1>> \in new.tape' \/ Covered(o, 1)' \/ Gone(o)'
  BY DEF CreditKept
<1>1. (Covered(o, 0)' <=> Covered(o, 0)) /\ (Covered(o, 1)' <=> Covered(o, 1))
  BY DEF Covered
<1> HIDE DEF Covered, Matched, Missing, Gone
<1>2. QED
  BY <1>1 DEF CreditKept

\* The same for an action that reads and counts nothing.
LEMMA CountsNothing ==
  ASSUME CountInv, UNCHANGED <<counted, excused, observed, new>>, VenueKept', tape \subseteq tape',
         pc' = pc \/ (pc' \in {"idle", "acting"} /\ pc # "trades"),
         pc = "trades" => tape' = tape,
         \A o \in Orders : st'[o] = "matching" => st[o] = "matching",
         \A o \in Orders : Gone(o) => Gone(o)'
  PROVE  VenueKept' /\ TapesKept' /\ ListKept' /\ CreditKept'
<1>1. TapesKept'
  BY DEF CountInv, TapesKept, Stepped, Above
<1>2. ListKept'
  BY DEF CountInv, ListKept
<1>3. CreditKept'
  BY CreditCarries DEF CountInv, Matched, Missing
<1>4. QED
  BY <1>1, <1>2, <1>3

LEMMA FillLevels ==
  ASSUME VenueTyped, VenueKept, NEW o \in Orders, st[o] # "unknown", size[o] > 0, Fill(o)
  PROVE  VenueKept' /\ tape \subseteq tape'
<1> USE ConstantFacts
<1>1. /\ size[o] \in 1 .. Size /\ tape' = tape \cup {<<o, size[o]>>}
      /\ size' = [size EXCEPT ![o] = size[o] - 1] /\ o \in DOMAIN size
      /\ \A p \in Orders \ {o} : st'[p] = st[p] /\ size'[p] = size[p]
  BY DEF VenueTyped, Fill
<1>2. st'[o] # "unknown"
  BY DEF VenueTyped, Fill
<1>3. Remains(o) = size[o] /\ Remains(o)' = size[o] - 1
  BY <1>1, <1>2 DEF Remains
<1>4. Above(tape', o, size[o] - 1)
  <2>1. Above(tape, o, size[o])
    BY <1>3 DEF VenueKept
  <2>2. QED
    BY <1>1, <2>1 DEF Above
<1>5. ASSUME NEW p \in Orders \ {o} PROVE Above(tape', p, Remains(p)')
  <2>1. Remains(p)' = Remains(p)
    BY <1>1, <1>5 DEF Remains
  <2>2. Above(tape, p, Remains(p)) /\ \A k : <<p, k>> \in tape' <=> <<p, k>> \in tape
    BY <1>1 DEF VenueKept
  <2>3. QED
    BY <2>1, <2>2 DEF Above
<1>6. QED
  BY <1>1, <1>3, <1>4, <1>5 DEF VenueKept

\* An order that turns from one state into another keeps what remains of it.
LEMMA LevelsCarry ==
  ASSUME VenueKept, UNCHANGED tape, \A o \in Orders : Remains(o)' = Remains(o)
  PROVE  VenueKept'
<1> HIDE DEF Remains
<1>1. QED
  BY DEF VenueKept, Above

LEMMA ReadTradesCounts ==
  ASSUME CountInv, ReadTrades
  PROVE  PromptKept' /\ VenueKept' /\ TapesKept' /\ ListKept' /\ CreditKept'
<1>1. /\ pc = "idle" /\ pc' = "trades" /\ call["loop"] = NoOrder
      /\ new' = [new EXCEPT !.tape = tape] /\ new \in Snapshots
      /\ UNCHANGED <<st, size, tape, noted, call, observed, ours, prompt, counted, excused>>
  BY DEF ReadTrades, CountInv, IInv, CycleTyped, venueVars, cancelVars, countVars
<1>2. new'.tape = tape /\ new'.list = new.list
  BY <1>1 DEF Snapshots
<1>3. PromptKept'
  BY <1>1 DEF CountInv, PromptKept
<1>4. VenueKept'
  BY <1>1, LevelsCarry DEF CountInv, Remains
<1>5. TapesKept'
  <2>1. \A o \in Orders : Remains(o) \in 0 .. Size
    BY ConstantFacts DEF CountInv, IInv, VenueTyped, Remains
  <2>2. Stepped(tape)
    BY <2>1 DEF CountInv, VenueKept, Stepped
  <2>3. observed.tape \subseteq tape /\ Stepped(observed.tape)
    BY DEF CountInv, TapesKept
  <2>4. QED
    BY <1>1, <1>2, <2>2, <2>3 DEF TapesKept, Stepped, Above
<1>6. ListKept'
  BY <1>1, <1>2 DEF CountInv, ListKept
<1>7. CreditKept'
  BY <1>1, <1>2, CreditCarries DEF CountInv, Matched, Missing, Gone
<1>8. QED
  BY <1>3, <1>4, <1>5, <1>6, <1>7

LEMMA ListOrdersCounts ==
  ASSUME CountInv, ListOrders
  PROVE  PromptKept' /\ VenueKept' /\ TapesKept' /\ ListKept' /\ CreditKept'
<1> USE ConstantFacts
<1>1. /\ pc = "trades" /\ pc' = "listed"
      /\ new' = [new EXCEPT !.list = [o \in Orders |-> IF st[o] = "active" THEN size[o] ELSE 0]]
      /\ new \in Snapshots
      /\ UNCHANGED <<st, size, tape, noted, call, observed, ours, prompt, counted, excused>>
  BY DEF ListOrders, CountInv, IInv, CycleTyped, venueVars, cancelVars, countVars
<1>2. new'.tape = new.tape /\ new.tape = tape
  BY <1>1 DEF Snapshots, CountInv, TapesKept
<1>3. \A o \in Orders : new'.list[o] = IF st[o] = "active" THEN size[o] ELSE 0
  BY <1>1 DEF Snapshots
<1>4. PromptKept'
  BY <1>1 DEF CountInv, PromptKept
<1>5. VenueKept'
  BY <1>1, LevelsCarry DEF CountInv, Remains
<1>6. TapesKept'
  BY <1>1, <1>2 DEF CountInv, TapesKept, Stepped, Above
<1>7. ListKept'
  <2>1. ASSUME NEW o \in Orders, new'.list[o] > 0 PROVE LevelOf(tape, o) = new'.list[o]
    <3>1. st[o] = "active" /\ new'.list[o] = size[o]
      BY <1>3, <2>1
    <3>2. size[o] \in 0 .. Size /\ Remains(o) = size[o]
      BY <3>1 DEF CountInv, IInv, VenueTyped, Remains
    <3>3. Above(tape, o, size[o])
      BY <3>2 DEF CountInv, VenueKept
    <3>4. QED
      BY <3>1, <3>2, <3>3, LevelUnique
  <2>2. QED
    BY <1>1, <1>2, <2>1 DEF CountInv, ListKept
<1>8. CreditKept'
  <2>1. ASSUME NEW o \in Orders
        PROVE  (Covered(o, 0)' <=> Covered(o, 0)) /\ (Covered(o, 1)' <=> Covered(o, 1))
    BY <1>1 DEF Covered
  <2>2. ASSUME NEW o \in Orders, Matched(o)' PROVE Covered(o, 1)
    <3>1. Matched(o)
      <4>1. st[o] = "matching" /\ ~(new'.list[o] > 0)
        BY <1>1, <1>3, <2>2 DEF Matched
      <4>2. QED
        BY <1>1, <2>2, <4>1 DEF Matched
    <3>2. QED
      BY <3>1 DEF CountInv, CreditKept
  <2>3. ASSUME NEW o \in Orders, Missing(o)'
        PROVE  <<o, 1>> \in new'.tape \/ Covered(o, 1) \/ Gone(o)'
    <3>1. observed.list[o] > 0 /\ new'.list[o] = 0
      BY <1>1, <2>3 DEF Missing
    <3>2. st[o] # "unknown" /\ st[o] \in Statuses
      BY <3>1 DEF CountInv, IInv, NewKept, VenueTyped
    <3>3. st[o] # "active"
      BY <1>3, <3>1 DEF CountInv, IInv, SizeKept
    <3>4. CASE st[o] = "matching"
      <4>1. Matched(o)
        BY <3>1, <3>4 DEF Matched
      <4>2. QED
        BY <4>1 DEF CountInv, CreditKept
    <3>5. CASE st[o] = "filled"
      <4>1. Remains(o) = 0
        BY <3>5 DEF CountInv, IInv, SizeKept, Remains
      <4>2. Above(tape, o, 0)
        BY <4>1 DEF CountInv, VenueKept
      <4>3. QED
        BY <1>2, <4>2 DEF Above
    <3>6. CASE Gone(o)
      BY <1>1, <3>6 DEF Gone
    <3>7. QED
      BY <3>2, <3>3, <3>4, <3>5, <3>6 DEF Statuses, Gone
  <2>4. \A o \in Orders : Covered(o, 0)
    BY DEF CountInv, CreditKept
  <2>5. QED
    BY <2>1, <2>2, <2>3, <2>4 DEF CreditKept
<1>9. QED
  BY <1>4, <1>5, <1>6, <1>7, <1>8

LEMMA LoadFailsCounts ==
  ASSUME CountInv, LoadFails
  PROVE  PromptKept' /\ VenueKept' /\ TapesKept' /\ ListKept' /\ CreditKept'
<1>1. /\ pc' = "idle" /\ pc \in {"trades", "listed"} /\ new' = observed
      /\ UNCHANGED <<st, size, tape, noted, call, observed, ours, prompt, counted, excused>>
  BY DEF LoadFails, venueVars, cancelVars, countVars
<1>2. PromptKept'
  BY <1>1 DEF CountInv, PromptKept
<1>3. VenueKept'
  BY <1>1, LevelsCarry DEF CountInv, Remains
<1>4. TapesKept'
  BY <1>1 DEF CountInv, TapesKept, Stepped, Above
<1>5. ListKept'
  BY <1>1 DEF CountInv, ListKept
<1>6. CreditKept'
  <2>1. \A o \in Orders : Matched(o)' => Matched(o)
    BY <1>1 DEF Matched
  <2>2. \A o \in Orders : ~Missing(o)'
    BY <1>1 DEF Missing
  <2>3. QED
    BY <1>1, <2>1, <2>2, CreditCarries DEF CountInv, Gone
<1>7. QED
  BY <1>2, <1>3, <1>4, <1>5, <1>6

LEMMA TakeCancelledCounts ==
  ASSUME CountInv, TakeCancelled
  PROVE  PromptKept' /\ VenueKept' /\ TapesKept' /\ ListKept' /\ CreditKept'
<1>1. /\ pc = "listed" /\ pc' = "drained" /\ ours' = noted
      /\ UNCHANGED <<st, size, tape, call, new, observed, prompt, counted, excused>>
  BY DEF TakeCancelled, venueVars, countVars
<1>2. PromptKept'
  BY <1>1 DEF CountInv, PromptKept
<1>3. VenueKept'
  BY <1>1, LevelsCarry DEF CountInv, Remains
<1>4. TapesKept' /\ ListKept'
  BY <1>1 DEF CountInv, TapesKept, ListKept, Stepped, Above
<1>5. CreditKept'
  BY <1>1, CreditCarries DEF CountInv, Matched, Missing, Gone
<1>6. QED
  BY <1>2, <1>3, <1>4, <1>5

\* Cancels: an order only leaves the list, and what remains of it stays.
LEMMA CancelCounts ==
  ASSUME CountInv, UNCHANGED <<size, tape, new, observed, counted, excused>>,
         pc' = pc \/ (pc' \in {"idle", "acting"} /\ pc # "trades"),
         \A o \in Orders : \/ st'[o] = st[o]
                           \/ st[o] = "active" /\ st'[o] \in {"cancelled by us", "cancelled by venue"}
  PROVE  VenueKept' /\ TapesKept' /\ ListKept' /\ CreditKept'
<1>1. \A o \in Orders : Remains(o)' = Remains(o)
  BY DEF Remains
<1>2. VenueKept'
  BY <1>1, LevelsCarry DEF CountInv
<1>3. \A o \in Orders : st'[o] = "matching" => st[o] = "matching"
  OBVIOUS
<1>4. \A o \in Orders : Gone(o) => Gone(o)'
  BY DEF Gone
<1>5. QED
  BY <1>2, <1>3, <1>4, CountsNothing

LEMMA AskCounts ==
  ASSUME CountInv, NEW c \in Callers, NEW o \in Orders, Ask(c, o),
         c = "loop" => pc \in {"idle", "acting"}
  PROVE  PromptKept' /\ VenueKept' /\ TapesKept' /\ ListKept' /\ CreditKept'
<1>1. /\ call' = [call EXCEPT ![c] = o] /\ noted' = noted \cup {o}
      /\ UNCHANGED <<st, size, tape, pc, new, ours, observed, counted, excused, prompt>>
  BY DEF Ask, venueVars, cycleVars, countVars
<1>2. PromptKept'
  <2>1. "loop" \in DOMAIN call /\ (c = "loop" => call'["loop"] = o)
    BY <1>1, ConstantFacts DEF CountInv, IInv, CancelTyped
  <2>2. c # "loop" => call'["loop"] = call["loop"]
    BY <1>1
  <2>3. QED
    BY <1>1, <2>1, <2>2 DEF CountInv, PromptKept
<1>3. QED
  BY <1>1, <1>2, CancelCounts

LEMMA CancelReturnsCounts ==
  ASSUME CountInv, NEW c \in Callers, CancelReturns(c)
  PROVE  PromptKept' /\ VenueKept' /\ TapesKept' /\ ListKept' /\ CreditKept'
<1>1. /\ call[c] # NoOrder /\ call' = [call EXCEPT ![c] = NoOrder]
      /\ st' = [st EXCEPT ![call[c]] = IF @ = "active" THEN "cancelled by us" ELSE @]
      /\ prompt' = IF c = "loop" /\ st[call[c]] = "active" THEN prompt \cup {call[c]} ELSE prompt
      /\ UNCHANGED <<size, tape, noted, pc, new, ours, observed, counted, excused>>
  BY DEF CancelReturns, Leaves, cycleVars
<1>2. PromptKept'
  <2>1. call'["loop"] \in {call["loop"], NoOrder} /\ (c = "loop" => call'["loop"] = NoOrder)
    BY <1>1, ConstantFacts DEF CountInv, IInv, CancelTyped
  <2>2. c = "loop" => pc \notin {"trades", "listed", "drained"} /\ call[c] \in noted
    BY <1>1 DEF CountInv, PromptKept
  <2>3. IF pc = "drained" THEN prompt' \subseteq ours ELSE prompt' \subseteq noted
    <3>1. CASE c = "loop"
      BY <1>1, <2>2, <3>1 DEF CountInv, PromptKept
    <3>2. CASE c # "loop"
      BY <1>1, <3>2 DEF CountInv, PromptKept
    <3>3. QED
      BY <3>1, <3>2
  <2>4. /\ pc \in {"trades", "listed", "drained"} => call'["loop"] = NoOrder
        /\ call'["loop"] # NoOrder => call'["loop"] \in noted
    BY <2>1 DEF CountInv, PromptKept
  <2>5. pc' = pc /\ noted' = noted /\ ours' = ours
    BY <1>1
  <2>6. QED
    BY <2>3, <2>4, <2>5 DEF PromptKept
<1>3. \A o \in Orders : st'[o] = st[o] \/ (st[o] = "active" /\ st'[o] = "cancelled by us")
  BY <1>1 DEF CountInv, IInv, VenueTyped
<1>4. QED
  BY <1>1, <1>2, <1>3, CancelCounts

LEMMA CancelFailsCounts ==
  ASSUME CountInv, NEW c \in Callers, CancelFails(c)
  PROVE  PromptKept' /\ VenueKept' /\ TapesKept' /\ ListKept' /\ CreditKept'
<1>1. /\ call' = [call EXCEPT ![c] = NoOrder]
      /\ UNCHANGED <<st, size, tape, noted, pc, new, ours, observed, counted, excused, prompt>>
  BY DEF CancelFails, venueVars, cycleVars, countVars
<1>2. PromptKept'
  <2>1. call'["loop"] \in {call["loop"], NoOrder}
    BY <1>1, ConstantFacts DEF CountInv, IInv, CancelTyped
  <2>2. QED
    BY <1>1, <2>1 DEF CountInv, PromptKept
<1>3. QED
  BY <1>1, <1>2, CancelCounts

LEMMA LateCancelCounts ==
  ASSUME CountInv, NEW o \in Orders, LateCancel(o)
  PROVE  PromptKept' /\ VenueKept' /\ TapesKept' /\ ListKept' /\ CreditKept'
<1>1. /\ st' = [st EXCEPT ![o] = IF @ = "active" THEN "cancelled by us" ELSE @]
      /\ UNCHANGED <<size, tape, noted, call, pc, new, ours, observed, counted, excused, prompt>>
  BY DEF LateCancel, Leaves, cycleVars, countVars
<1>2. PromptKept'
  BY <1>1 DEF CountInv, PromptKept
<1>3. \A p \in Orders : st'[p] = st[p] \/ (st[p] = "active" /\ st'[p] = "cancelled by us")
  BY <1>1 DEF CountInv, IInv, VenueTyped
<1>4. QED
  BY <1>1, <1>2, <1>3, CancelCounts

LEMMA VenueCancelsCounts ==
  ASSUME CountInv, NEW o \in Orders, VenueCancels(o)
  PROVE  PromptKept' /\ VenueKept' /\ TapesKept' /\ ListKept' /\ CreditKept'
<1>1. /\ st[o] = "active" /\ st' = [st EXCEPT ![o] = "cancelled by venue"]
      /\ UNCHANGED <<size, tape, noted, call, pc, new, ours, observed, counted, excused, prompt>>
  BY DEF VenueCancels, Elsewhere, cancelVars, cycleVars, countVars
<1>2. PromptKept'
  BY <1>1 DEF CountInv, PromptKept
<1>3. \A p \in Orders : st'[p] = st[p] \/ (st[p] = "active" /\ st'[p] = "cancelled by venue")
  BY <1>1 DEF CountInv, IInv, VenueTyped
<1>4. QED
  BY <1>1, <1>2, <1>3, CancelCounts

LEMMA EndCycleCounts ==
  ASSUME CountInv, EndCycle
  PROVE  PromptKept' /\ VenueKept' /\ TapesKept' /\ ListKept' /\ CreditKept'
<1>1. /\ pc = "acting" /\ pc' = "idle"
      /\ UNCHANGED <<st, size, tape, noted, call, new, ours, observed, counted, excused, prompt>>
  BY DEF EndCycle, venueVars, cancelVars, countVars
<1>2. PromptKept'
  BY <1>1 DEF CountInv, PromptKept
<1>3. QED
  BY <1>1, <1>2, CancelCounts

LEMMA PlaceCounts ==
  ASSUME CountInv, NEW o \in Orders, Place(o)
  PROVE  PromptKept' /\ VenueKept' /\ TapesKept' /\ ListKept' /\ CreditKept'
<1>1. /\ pc = "acting" /\ st[o] = "unknown"
      /\ st' = [st EXCEPT ![o] = "active"] /\ size' = [size EXCEPT ![o] = Size]
      /\ UNCHANGED <<tape, noted, call, pc, new, ours, observed, counted, excused, prompt>>
  BY DEF Place, cancelVars, cycleVars, countVars
<1>2. PromptKept'
  BY <1>1 DEF CountInv, PromptKept
<1>3. /\ o \in DOMAIN st /\ o \in DOMAIN size /\ st'[o] = "active" /\ size'[o] = Size
      /\ \A p \in Orders \ {o} : st'[p] = st[p] /\ size'[p] = size[p]
  BY <1>1 DEF CountInv, IInv, VenueTyped
<1>4. \A p \in Orders : Remains(p)' = Remains(p)
  BY <1>1, <1>3 DEF Remains
<1>5. VenueKept'
  BY <1>1, <1>4, LevelsCarry DEF CountInv
<1>6. \A p \in Orders : st'[p] = "matching" => st[p] = "matching"
  BY <1>3
<1>7. \A p \in Orders : Gone(p) => Gone(p)'
  BY <1>1, <1>3 DEF Gone
<1>8. QED
  BY <1>1, <1>2, <1>5, <1>6, <1>7, CountsNothing

LEMMA FillCounts ==
  ASSUME CountInv, NEW o \in Orders, st[o] \in {"active", "matching"}, pc # "trades", Fill(o),
         UNCHANGED <<cancelVars, cycleVars, countVars>>
  PROVE  PromptKept' /\ VenueKept' /\ TapesKept' /\ ListKept' /\ CreditKept'
<1>1. UNCHANGED <<noted, call, pc, new, ours, observed, counted, excused, prompt>>
  BY DEF cancelVars, cycleVars, countVars
<1>2. PromptKept'
  BY <1>1 DEF CountInv, PromptKept
<1>3. size[o] > 0 /\ st[o] # "unknown"
  BY DEF CountInv, IInv, SizeKept
<1>4. VenueKept' /\ tape \subseteq tape'
  BY <1>3, FillLevels DEF CountInv, IInv
<1>5. st' = [st EXCEPT ![o] = IF size[o] = 1 THEN "filled" ELSE "active"] /\ o \in DOMAIN st
  BY DEF Fill, CountInv, IInv, VenueTyped
<1>6. st'[o] \in {"filled", "active"} /\ \A p \in Orders \ {o} : st'[p] = st[p]
  BY <1>5
<1>7. \A p \in Orders : st'[p] = "matching" => st[p] = "matching"
  BY <1>6
<1>8. \A p \in Orders : Gone(p) => Gone(p)'
  BY <1>6 DEF Gone
<1>9. QED
  BY <1>1, <1>2, <1>4, <1>7, <1>8, CountsNothing

LEMMA TradeCounts ==
  ASSUME "tape" \notin Faults, CountInv, NEW o \in Orders, Trade(o)
  PROVE  PromptKept' /\ VenueKept' /\ TapesKept' /\ ListKept' /\ CreditKept'
BY FillCounts DEF Trade, InStep, Elsewhere

LEMMA SettleCounts ==
  ASSUME "tape" \notin Faults, CountInv, NEW o \in Orders, Settle(o)
  PROVE  PromptKept' /\ VenueKept' /\ TapesKept' /\ ListKept' /\ CreditKept'
<1>1. CASE Fill(o)
  BY <1>1, FillCounts DEF Settle, InStep, Elsewhere
<1>2. CASE st' = [st EXCEPT ![o] = "active"] /\ UNCHANGED <<size, tape>>
  <2>1. UNCHANGED <<noted, call, pc, new, ours, observed, counted, excused, prompt>>
    BY DEF Settle, Elsewhere, cancelVars, cycleVars, countVars
  <2>2. PromptKept'
    BY <2>1 DEF CountInv, PromptKept
  <2>3. st[o] = "matching" /\ st'[o] = "active" /\ \A p \in Orders \ {o} : st'[p] = st[p]
    BY <1>2 DEF Settle, CountInv, IInv, VenueTyped
  <2>4. \A p \in Orders : Remains(p)' = Remains(p)
    BY <1>2, <2>3 DEF Remains
  <2>5. VenueKept'
    BY <1>2, <2>4, LevelsCarry DEF CountInv
  <2>6. \A p \in Orders : st'[p] = "matching" => st[p] = "matching"
    BY <2>3
  <2>7. \A p \in Orders : Gone(p) => Gone(p)'
    BY <2>3 DEF Gone
  <2>8. QED
    BY <1>2, <2>1, <2>2, <2>5, <2>6, <2>7, CountsNothing
<1>3. QED
  BY <1>1, <1>2 DEF Settle

LEMMA ReserveCounts ==
  ASSUME CountInv, NEW o \in Orders, Reserve(o)
  PROVE  PromptKept' /\ VenueKept' /\ TapesKept' /\ ListKept' /\ CreditKept'
<1>1. /\ st[o] = "active" /\ st' = [st EXCEPT ![o] = "matching"]
      /\ excused' = [excused EXCEPT ![o] = excused[o] + 1]
      /\ UNCHANGED <<size, tape, noted, call, pc, new, ours, observed, counted, prompt>>
  BY DEF Reserve, Elsewhere, cancelVars, cycleVars
<1>2. PromptKept'
  BY <1>1 DEF CountInv, PromptKept
<1>3. o \in DOMAIN st /\ st'[o] = "matching" /\ \A p \in Orders \ {o} : st'[p] = st[p]
  BY <1>1 DEF CountInv, IInv, VenueTyped
<1>4. \A p \in Orders : Remains(p)' = Remains(p)
  BY <1>1, <1>3 DEF Remains
<1>5. VenueKept'
  BY <1>1, <1>4, LevelsCarry DEF CountInv
<1>6. TapesKept' /\ ListKept'
  BY <1>1 DEF CountInv, TapesKept, ListKept, Stepped, Above
<1>7. CreditKept'
  <2>1. /\ excused'[o] = excused[o] + 1 /\ \A p \in Orders \ {o} : excused'[p] = excused[p]
        /\ excused[o] \in Nat /\ counted[o] \in Nat
    BY <1>1 DEF CountInv, IInv, CountTyped
  <2>2. LevelOf(observed.tape, o) \in 0 .. Size
    BY LevelFacts DEF CountInv, TapesKept
  <2>3. Covered(o, 0)' /\ Covered(o, 1)'
    <3>1. Covered(o, 0)
      BY DEF CountInv, CreditKept
    <3>2. QED
      BY <1>1, <2>1, <2>2, <3>1, ConstantFacts DEF Covered
  <2>4. ASSUME NEW p \in Orders \ {o}
        PROVE  /\ Covered(p, 0)' /\ (Matched(p)' => Covered(p, 1)')
               /\ Missing(p)' => <<p, 1>> \in new.tape' \/ Covered(p, 1)' \/ Gone(p)'
    <3>1. (Covered(p, 0)' <=> Covered(p, 0)) /\ (Covered(p, 1)' <=> Covered(p, 1))
      BY <1>1, <2>1 DEF Covered
    <3>2. (Matched(p)' <=> Matched(p)) /\ (Missing(p)' <=> Missing(p)) /\ (Gone(p)' <=> Gone(p))
      BY <1>1, <1>3 DEF Matched, Missing, Gone
    <3>3. /\ Covered(p, 0) /\ (Matched(p) => Covered(p, 1))
          /\ Missing(p) => <<p, 1>> \in new.tape \/ Covered(p, 1) \/ Gone(p)
      BY DEF CountInv, CreditKept
    <3> HIDE DEF Covered, Matched, Missing, Gone
    <3>4. QED
      BY <1>1, <3>1, <3>2, <3>3
  <2> HIDE DEF Covered, Matched, Missing, Gone
  <2>5. QED
    BY <2>3, <2>4 DEF CreditKept
<1>8. QED
  BY <1>2, <1>5, <1>6, <1>7

\* What is left to count of an order, in numbers: the trades between the two loads.
LEMMA ObserveLevels ==
  ASSUME CountInv, NEW o \in Orders
  PROVE  /\ LevelOf(observed.tape, o) \in 0 .. Size /\ LevelOf(new.tape, o) \in 0 .. Size
         /\ LevelOf(new.tape, o) <= LevelOf(observed.tape, o)
         /\ TapeFills(o) = LevelOf(observed.tape, o) - LevelOf(new.tape, o)
<1>1. Stepped(new.tape) /\ Stepped(observed.tape) /\ observed.tape \subseteq new.tape
  BY DEF CountInv, TapesKept
<1>2. new.tape \in SUBSET Trades /\ observed.tape \in SUBSET Trades
  BY DEF CountInv, IInv, CycleTyped, Snapshots
<1>3. QED
  BY <1>1, <1>2, LevelFacts, LevelsOrdered, TapeDifference DEF TapeFills

\* A comparison that adds no more than what was traded since, or one that has an excuse.
LEMMA CoveredCarries ==
  ASSUME CountInv, NEW o \in Orders, NEW extra \in {0, 1}, observed' = new,
         counted'[o] \in Nat, excused'[o] \in Nat, excused[o] <= excused'[o], Covered(o, extra),
         \/ counted'[o] = counted[o]
         \/ counted'[o] = counted[o] + TapeFills(o)
         \/ counted'[o] = counted[o] + 1 /\ LevelOf(new.tape, o) < LevelOf(observed.tape, o)
         \/ counted'[o] = counted[o] + 1 /\ excused'[o] = excused[o] + 1
         \/ counted'[o] = counted[o] + 1 /\ extra = 0 /\ Covered(o, 1)
  PROVE  Covered(o, extra)'
<1> DEFINE before == LevelOf(observed.tape, o)
           after == LevelOf(new.tape, o)
<1>1. /\ before \in 0 .. Size /\ after \in 0 .. Size /\ after <= before
      /\ TapeFills(o) = before - after
  BY ObserveLevels
<1>2. counted[o] \in Nat /\ excused[o] \in Nat
  BY DEF CountInv, IInv, CountTyped
<1>3. counted[o] + extra <= (Size - before) + excused[o]
  BY DEF Covered
<1>4. Covered(o, 1) => counted[o] + 1 <= (Size - before) + excused[o]
  BY DEF Covered
<1>5. Covered(o, extra)' <=> counted'[o] + extra <= (Size - after) + excused'[o]
  BY DEF Covered
<1> HIDE DEF before, after
<1>6. LevelOf(new.tape, o) < LevelOf(observed.tape, o) <=> after < before
  BY DEF before, after
<1>7. counted'[o] + extra <= (Size - after) + excused'[o]
  BY <1>1, <1>2, <1>3, <1>4, <1>6, ConstantFacts
<1>8. QED
  BY <1>5, <1>7

LEMMA ObserveCredits ==
  ASSUME CountInv, ObserveFills, NEW o \in Orders
  PROVE  Covered(o, 0)' /\ (Matched(o)' => Covered(o, 1)')
<1>1. PICK cancelled \in {ours, ours \cup VenueCancelled} :
        /\ Counts(cancelled)
        /\ \/ cancelled = ours \cup VenueCancelled /\ excused' = excused
           \/ /\ cancelled = ours
              /\ excused' = [p \in Orders |-> excused[p] + IF p \in VenueCancelled \ prompt THEN 1 ELSE 0]
  BY ObserveFacts
<1>2. CycleTyped /\ CountTyped
  BY DEF CountInv, IInv
<1>3. /\ counted[o] \in Nat /\ excused[o] \in Nat /\ counted'[o] \in Nat
      /\ HaveTruth /\ o \in OrderFills(cancelled) => counted'[o] = counted[o] + 1
      /\ HaveTruth /\ o \notin OrderFills(cancelled) => counted'[o] = counted[o]
      /\ ~HaveTruth => counted'[o] = counted[o] + TapeFills(o)
  BY <1>1, <1>2, CountsFacts DEF CountTyped
<1>4. /\ excused'[o] \in Nat /\ excused[o] <= excused'[o]
      /\ cancelled = ours /\ o \in VenueCancelled \ prompt /\ excused' # excused => excused'[o] = excused[o] + 1
  BY <1>1, <1>3
<1>5. /\ observed' = new /\ new' = new /\ st' = st /\ pc = "drained"
      /\ new.list[o] \in Nat /\ observed.list[o] \in Nat
  BY ObserveFacts, <1>2 DEF CycleTyped, Snapshots
<1>6. Covered(o, 0) /\ (Matched(o) => Covered(o, 1))
  BY DEF CountInv, CreditKept
<1>7. Matched(o)' => new.list[o] > 0 /\ Matched(o)
  BY <1>5 DEF Matched
<1> HIDE DEF Matched, Covered
<1>8. CASE ~HaveTruth \/ o \notin OrderFills(cancelled)
  BY <1>3, <1>4, <1>5, <1>6, <1>7, <1>8, CoveredCarries
<1>9. CASE HaveTruth /\ 0 < new.list[o] /\ new.list[o] < observed.list[o] /\ o \in OrderFills(cancelled)
  <2>1. LevelOf(new.tape, o) < LevelOf(observed.tape, o)
    BY <1>5, <1>9 DEF CountInv, ListKept
  <2>2. QED
    BY <1>3, <1>4, <1>5, <1>6, <1>7, <1>9, <2>1, CoveredCarries
<1>10. CASE HaveTruth /\ o \in Left \ cancelled
  <2>1. o \in OrderFills(cancelled) /\ observed.list[o] > 0 /\ new.list[o] = 0 /\ ~Matched(o)'
    BY <1>5, <1>7, <1>10 DEF OrderFills, Left
  <2>2. counted'[o] = counted[o] + 1
    BY <1>3, <1>10, <2>1
  <2>3. Missing(o)
    BY <1>5, <2>1 DEF Missing
  <2>4. <<o, 1>> \in new.tape \/ Covered(o, 1) \/ Gone(o)
    BY <2>3 DEF CountInv, CreditKept
  <2>5. CASE <<o, 1>> \in new.tape
    <3>1. LevelOf(observed.tape, o) > 0
      BY <2>1 DEF CountInv, ListKept
    <3>2. Above(new.tape, o, LevelOf(new.tape, o)) /\ LevelOf(new.tape, o) \in 0 .. Size
      BY LevelFacts DEF CountInv, TapesKept
    <3>3. LevelOf(new.tape, o) < 1
      BY <2>5, <3>2, ConstantFacts DEF Above
    <3>4. LevelOf(new.tape, o) < LevelOf(observed.tape, o)
      BY <3>1, <3>2, <3>3, ObserveLevels
    <3>5. QED
      BY <1>3, <1>4, <1>5, <1>6, <2>1, <2>2, <3>4, CoveredCarries
  <2>6. CASE Covered(o, 1)
    BY <1>3, <1>4, <1>5, <1>6, <2>1, <2>2, <2>6, CoveredCarries
  <2>7. CASE Gone(o)
    <3>1. o \in Left /\ o \notin ours
      BY <1>1, <1>10
    <3>2. o \in VenueCancelled
      BY <2>7, <3>1 DEF VenueCancelled, Gone
    <3>3. o \notin prompt
      BY <1>5, <3>1 DEF CountInv, PromptKept
    <3>4. cancelled = ours /\ excused'[o] = excused[o] + 1
      BY <1>1, <1>3, <1>10, <3>2, <3>3
    <3>5. QED
      BY <1>3, <1>4, <1>5, <1>6, <2>1, <2>2, <3>4, CoveredCarries
  <2>8. QED
    BY <2>4, <2>5, <2>6, <2>7
<1>11. QED
  BY <1>8, <1>9, <1>10 DEF OrderFills

LEMMA ObserveFillsCounts ==
  ASSUME CountInv, ObserveFills
  PROVE  PromptKept' /\ VenueKept' /\ TapesKept' /\ ListKept' /\ CreditKept'
<1>1. PromptKept'
  <2>1. call["loop"] = NoOrder
    BY ObserveFacts DEF CountInv, PromptKept
  <2>2. QED
    BY <2>1, ObserveFacts DEF PromptKept
<1>2. VenueKept'
  BY ObserveFacts, LevelsCarry DEF CountInv, Remains
<1>3. TapesKept'
  BY ObserveFacts DEF CountInv, TapesKept, Stepped, Above
<1>4. ListKept'
  BY ObserveFacts DEF CountInv, ListKept
<1>5. \A o \in Orders : ~Missing(o)'
  BY ObserveFacts DEF Missing
<1>6. CreditKept'
  BY <1>5, ObserveCredits DEF CreditKept
<1>7. QED
  BY <1>1, <1>2, <1>3, <1>4, <1>6

LEMMA CountInvInit == Init => CountInv
<1> SUFFICES ASSUME Init PROVE CountInv
  OBVIOUS
<1> USE ConstantFacts
<1>1. IInv
  BY InitHolds
<1>2. PICK adopted \in SUBSET Orders :
        /\ st = [o \in Orders |-> IF o \in adopted THEN "active" ELSE "unknown"]
        /\ size = [o \in Orders |-> IF o \in adopted THEN Size ELSE 0]
        /\ new = [tape |-> {}, list |-> [o \in Orders |-> IF o \in adopted THEN Size ELSE 0]]
        /\ observed = new
  BY DEF Init
<1>3. /\ tape = {} /\ noted = {} /\ prompt = {} /\ pc = "idle" /\ call["loop"] = NoOrder
      /\ counted = [o \in Orders |-> 0] /\ excused = [o \in Orders |-> 0]
  BY DEF Init
<1>4. new.tape = {} /\ observed.tape = {} /\ \A o \in Orders : new.list[o] \in {0, Size}
  BY <1>2
<1>5. \A o \in Orders : Above({}, o, Size)
  BY DEF Above
<1>6. Stepped({}) /\ \A o \in Orders : LevelOf({}, o) = Size
  BY <1>5, LevelUnique DEF Stepped
<1>7. PromptKept
  BY <1>3 DEF PromptKept
<1>8. VenueKept
  <2>1. \A o \in Orders : Remains(o) = Size
    BY <1>2 DEF Remains
  <2>2. QED
    BY <1>3, <1>5, <2>1 DEF VenueKept
<1>9. TapesKept
  BY <1>3, <1>4, <1>6 DEF TapesKept
<1>10. ListKept
  BY <1>2, <1>4, <1>6 DEF ListKept
<1>11. CreditKept
  <2>1. \A o \in Orders : Covered(o, 0)
    BY <1>3, <1>4, <1>6 DEF Covered
  <2>2. \A o \in Orders : ~Matched(o)
    BY <1>2 DEF Matched
  <2>3. \A o \in Orders : ~Missing(o)
    BY <1>3 DEF Missing
  <2>4. QED
    BY <2>1, <2>2, <2>3 DEF CreditKept
<1>12. QED
  BY <1>1, <1>7, <1>8, <1>9, <1>10, <1>11 DEF CountInv

LEMMA CountInvStep == "tape" \notin Faults => (CountInv /\ [Next]_vars => CountInv')
<1> SUFFICES ASSUME "tape" \notin Faults, CountInv, [Next]_vars PROVE CountInv'
  OBVIOUS
<1>1. IInv'
  BY StepKeeps DEF CountInv
<1>2. PromptKept' /\ VenueKept' /\ TapesKept' /\ ListKept' /\ CreditKept'
  <2>1. CASE UNCHANGED vars
    BY <2>1 DEF vars, venueVars, cancelVars, cycleVars, countVars, CountInv, PromptKept, VenueKept,
                Remains, TapesKept, Stepped, Above, ListKept, CreditKept, Covered, Matched, Missing, Gone
  <2>2. CASE CycleStep
    <3>1. ASSUME NEW o \in Orders, LoopCancels(o)
          PROVE  PromptKept' /\ VenueKept' /\ TapesKept' /\ ListKept' /\ CreditKept'
      BY <3>1, AskCounts DEF LoopCancels, Callers
    <3>2. QED
      BY <2>2, <3>1, ReadTradesCounts, ListOrdersCounts, LoadFailsCounts, TakeCancelledCounts,
         ObserveFillsCounts, EndCycleCounts, PlaceCounts
      DEF CycleStep
  <2>3. CASE CancelStep
    <3>1. ASSUME NEW h \in Handlers, NEW o \in Orders, HandlerCancels(h, o)
          PROVE  PromptKept' /\ VenueKept' /\ TapesKept' /\ ListKept' /\ CreditKept'
      BY <3>1, AskCounts, NamesAssumption DEF HandlerCancels, Callers
    <3>2. QED
      BY <2>3, <3>1, CancelReturnsCounts, CancelFailsCounts, LateCancelCounts DEF CancelStep
  <2>4. CASE VenueStep
    BY <2>4, TradeCounts, VenueCancelsCounts, ReserveCounts, SettleCounts DEF VenueStep
  <2>5. QED
    BY <2>1, <2>2, <2>3, <2>4 DEF Next
<1>3. QED
  BY <1>1, <1>2 DEF CountInv

LEMMA CountInvGives == CountInv => NoPhantomFill
<1> SUFFICES ASSUME CountInv, NEW o \in Orders PROVE counted[o] <= Traded(o) + excused[o]
  BY DEF NoPhantomFill
<1> USE ConstantFacts
<1>1. tape \in SUBSET Trades /\ Remains(o) \in 0 .. Size /\ Above(tape, o, Remains(o))
  BY DEF CountInv, IInv, VenueTyped, VenueKept, Remains
<1>2. Traded(o) = Size - Remains(o)
  BY <1>1, TradedIs DEF Traded
<1>3. LevelOf(tape, o) = Remains(o) /\ Stepped(tape)
  <2>1. \A p \in Orders : Remains(p) \in 0 .. Size /\ Above(tape, p, Remains(p))
    BY DEF CountInv, IInv, VenueTyped, VenueKept, Remains
  <2>2. QED
    BY <2>1, LevelUnique DEF Stepped
<1>4. LevelOf(tape, o) <= LevelOf(observed.tape, o) /\ LevelOf(observed.tape, o) \in 0 .. Size
  BY <1>3, LevelsOrdered, LevelFacts DEF CountInv, TapesKept
<1>5. counted[o] + 0 <= (Size - LevelOf(observed.tape, o)) + excused[o]
  BY DEF CountInv, CreditKept, Covered
<1>6. counted[o] \in Nat /\ excused[o] \in Nat
  BY DEF CountInv, IInv, CountTyped
<1>7. QED
  BY <1>1, <1>2, <1>3, <1>4, <1>5, <1>6

(* RunCycle counts an order as filled no more often than it traded, but for its excuses: through  *)
(* failed cycles, cancels of the loop and of handlers at any moment, late ones and the venue's,    *)
(* wherever no trade falls between the loop's read of the tape and its list of orders.             *)
THEOREM NoFillIsInvented == ASSUME "tape" \notin Faults PROVE Spec => []NoPhantomFill
<1>1. Init => CountInv
  BY CountInvInit
<1>2. CountInv /\ [Next]_vars => CountInv'
  BY CountInvStep
<1>3. CountInv => NoPhantomFill
  BY CountInvGives
<1>4. QED
  BY <1>1, <1>2, <1>3, PTL DEF Spec
=============================================================================
