---------------------------- MODULE LadderProofs ----------------------------
(***************************************************************************)
(* Proofs about Ladder for any ladders, fees, times, budgets, tolerances   *)
(* and faults, and any orders of others.                                   *)
(***************************************************************************)
EXTENDS Ladder, FiniteSetTheorems, NaturalsInduction, TLAPS

(* Naturals, and functions defined from the one before.                    *)

LEMMA Least ==
  ASSUME NEW T, T \subseteq Nat, T # {}
  PROVE  \E s \in T : \A t \in T : s <= t
<1>1. PICK s \in T : \A t \in T : ~(<<t, s>> \in OpToRel(<, Nat))
  BY NatLessThanWellFounded, WFMin
<1>2. \A t \in T : ~(t < s)
  BY <1>1 DEF OpToRel
<1>3. QED
  BY <1>2

\* Induction up to n, for the members of a set.
LEMMA Climb ==
  ASSUME NEW n \in Nat, NEW P, 0 \in P, \A k \in 1 .. n : k - 1 \in P => k \in P
  PROVE  \A k \in 0 .. n : k \in P
<1> DEFINE T == {k \in 0 .. n : k \notin P}
<1>1. CASE T = {}
  BY <1>1
<1>2. CASE T # {}
  <2>1. T \subseteq Nat
    OBVIOUS
  <2>2. PICK s \in T : \A t \in T : s <= t
    BY <1>2, <2>1, Least
  <2>3. s # 0 /\ s \in 1 .. n
    OBVIOUS
  <2>4. s - 1 \notin T /\ s - 1 \in 0 .. n
    BY <2>2, <2>3
  <2>5. QED
    BY <2>3, <2>4
<1>3. QED
  BY <1>1, <1>2

\* A function that each step takes further, from base, within D.
Stepwise(g, n, base, G) == g = [k \in 0 .. n |-> IF k = 0 THEN base ELSE G[k][g[k - 1]]]

LEMMA StepwiseExists ==
  ASSUME NEW n \in Nat, NEW D, NEW base \in D, NEW G \in [1 .. n -> [D -> D]]
  PROVE  \E g \in [0 .. n -> D] : Stepwise(g, n, base, G)
<1> DEFINE Good(g, m) == g[0] = base /\ \A k \in 1 .. m : g[k] = G[k][g[k - 1]]
           some(m) == \E g \in [0 .. m -> D] : Good(g, m)
           P == {m \in 0 .. n : some(m)}
<1>1. some(0)
  <2>1. [k \in 0 .. 0 |-> base] \in [0 .. 0 -> D] /\ Good([k \in 0 .. 0 |-> base], 0)
    OBVIOUS
  <2>2. QED
    BY <2>1
<1>2. ASSUME NEW m \in 1 .. n, some(m - 1) PROVE some(m)
  <2>1. PICK g \in [0 .. m - 1 -> D] : Good(g, m - 1)
    BY <1>2
  <2> DEFINE last == G[m][g[m - 1]]
             h == [k \in 0 .. m |-> IF k = m THEN last ELSE g[k]]
  <2>2. last \in D
    BY <2>1
  <2>3. h \in [0 .. m -> D]
    BY <2>1, <2>2
  <2>4. h[0] = base /\ h[m - 1] = g[m - 1] /\ h[m] = G[m][h[m - 1]]
    BY <2>1
  <2>5. \A k \in 1 .. m : h[k] = G[k][h[k - 1]]
    <3> TAKE k \in 1 .. m
    <3>1. CASE k = m
      BY <3>1, <2>4
    <3>2. CASE k # m
      <4>1. k \in 1 .. m - 1 /\ k - 1 \in 0 .. m - 1 /\ k - 1 # m
        BY <3>2
      <4>2. h[k] = g[k] /\ h[k - 1] = g[k - 1] /\ g[k] = G[k][g[k - 1]]
        BY <4>1, <2>1
      <4>3. QED
        BY <4>2
    <3>3. QED
      BY <3>1, <3>2
  <2>6. QED
    BY <2>3, <2>4, <2>5
<1> HIDE DEF some
<1>3. 0 \in P /\ \A m \in 1 .. n : m - 1 \in P => m \in P
  BY <1>1, <1>2
<1> HIDE DEF P
<1>4. \A k \in 0 .. n : k \in P
  BY <1>3, Climb
<1>5. n \in P
  BY <1>4
<1>6. some(n)
  BY <1>5 DEF P
<1>7. PICK g \in [0 .. n -> D] : Good(g, n)
  BY <1>6 DEF some
<1>8. \A k \in 0 .. n : g[k] = IF k = 0 THEN base ELSE G[k][g[k - 1]]
  BY <1>7
<1>9. g = [k \in 0 .. n |-> IF k = 0 THEN base ELSE G[k][g[k - 1]]]
  BY <1>8
<1>10. QED
  BY <1>9 DEF Stepwise

-----------------------------------------------------------------------------
(* A finite set in the order that a relation puts it in.                   *)

Below(S, R, x) == {y \in S : <<y, x>> \in R}
StrictTotal(S, R) ==
  /\ \A x \in S : <<x, x>> \notin R
  /\ \A x, y \in S : x = y \/ <<x, y>> \in R \/ <<y, x>> \in R
  /\ \A x, y, z \in S : <<x, y>> \in R /\ <<y, z>> \in R => <<x, z>> \in R

LEMMA RankFacts ==
  ASSUME NEW S, IsFiniteSet(S), NEW R, StrictTotal(S, R)
  PROVE  /\ Cardinality(S) \in Nat
         /\ \A x \in S : Cardinality(Below(S, R, x)) \in 0 .. Cardinality(S) - 1
         /\ \A x, y \in S : Cardinality(Below(S, R, x)) = Cardinality(Below(S, R, y)) => x = y
         /\ \A k \in 1 .. Cardinality(S) : \E x \in S : Cardinality(Below(S, R, x)) = k - 1
<1> DEFINE n == Cardinality(S)
           rank(x) == Cardinality(Below(S, R, x))
<1>1. n \in Nat
  BY FS_CardinalityType
<1>2. ASSUME NEW x \in S PROVE IsFiniteSet(Below(S, R, x)) /\ rank(x) \in 0 .. n - 1
  <2>1. Below(S, R, x) \in SUBSET (S \ {x})
    BY DEF Below, StrictTotal
  <2>2. IsFiniteSet(S \ {x}) /\ Cardinality(S \ {x}) = n - 1
    BY FS_RemoveElement
  <2>3. IsFiniteSet(Below(S, R, x)) /\ rank(x) <= n - 1
    BY <2>1, <2>2, FS_Subset
  <2>4. rank(x) \in Nat
    BY <2>3, FS_CardinalityType
  <2>5. QED
    BY <2>3, <2>4, <1>1
<1>3. ASSUME NEW x \in S, NEW y \in S, <<x, y>> \in R PROVE rank(x) < rank(y)
  <2>1. Below(S, R, x) \in SUBSET (Below(S, R, y) \ {x})
    BY <1>3 DEF Below, StrictTotal
  <2>2. x \in Below(S, R, y)
    BY <1>3 DEF Below
  <2>3. IsFiniteSet(Below(S, R, y) \ {x}) /\ Cardinality(Below(S, R, y) \ {x}) = rank(y) - 1
    BY <2>2, <1>2, FS_RemoveElement
  <2>4. rank(x) <= rank(y) - 1
    BY <2>1, <2>3, FS_Subset
  <2>5. QED
    BY <2>4, <1>1, <1>2
<1> HIDE DEF n, rank
<1>4. \A x, y \in S : rank(x) = rank(y) => x = y
  <2> SUFFICES ASSUME NEW x \in S, NEW y \in S, rank(x) = rank(y), x # y PROVE FALSE
    OBVIOUS
  <2>1. <<x, y>> \in R \/ <<y, x>> \in R
    BY DEF StrictTotal
  <2>2. rank(x) < rank(y) \/ rank(y) < rank(x)
    BY <2>1, <1>3
  <2>3. rank(x) \in Int /\ rank(y) \in Int
    BY <1>1, <1>2
  <2>4. QED
    BY <2>2, <2>3
<1>5. ASSUME NEW k \in 1 .. n PROVE \E x \in S : rank(x) = k - 1
  <2> SUFFICES ASSUME \A x \in S : rank(x) # k - 1 PROVE FALSE
    OBVIOUS
  <2> DEFINE T == 0 .. (n - 1)
             f == [x \in S |-> rank(x)]
  <2>1. IsFiniteSet(T) /\ Cardinality(T) = n
    <3>1. 0 \in Int /\ n - 1 \in Int /\ ~(0 > n - 1)
      BY <1>1
    <3>2. IsFiniteSet(0 .. (n - 1)) /\ Cardinality(0 .. (n - 1)) = (n - 1) - 0 + 1
      BY <3>1, FS_Interval
    <3>3. QED
      BY <3>2, <1>1
  <2>2. k - 1 \in T
    BY <1>1
  <2>3. IsFiniteSet(T \ {k - 1}) /\ Cardinality(T \ {k - 1}) = n - 1
    BY <2>1, <2>2, FS_RemoveElement
  <2>4. f \in [S -> T \ {k - 1}]
    BY <1>2
  <2>5. n - 1 < n
    BY <1>1
  <2> HIDE DEF T, f
  <2>6. \E x, y \in S : x # y /\ f[x] = f[y]
    BY <2>3, <2>4, <2>5, FS_PigeonHole DEF n
  <2>7. QED
    BY <2>6, <1>4 DEF f
<1>6. QED
  BY <1>1, <1>2, <1>4, <1>5 DEF n, rank

\* A finite set that is not empty has a first member.
LEMMA First ==
  ASSUME NEW S, IsFiniteSet(S), S # {}, NEW R, StrictTotal(S, R)
  PROVE  \E x \in S : \A y \in S \ {x} : <<x, y>> \in R
<1>1. Cardinality(S) \in Nat /\ Cardinality(S) # 0
  BY FS_CardinalityType, FS_EmptySet
<1>2. 1 \in 1 .. Cardinality(S)
  BY <1>1
<1>3. PICK x \in S : Cardinality(Below(S, R, x)) = 1 - 1
  BY <1>2, RankFacts
<1>4. IsFiniteSet(Below(S, R, x))
  <2>1. Below(S, R, x) \in SUBSET S
    BY DEF Below
  <2>2. QED
    BY <2>1, FS_Subset
<1>5. Below(S, R, x) = {}
  BY <1>3, <1>4, FS_EmptySet
<1>6. QED
  BY <1>5 DEF Below, StrictTotal

-----------------------------------------------------------------------------
(* Sequences at some of their places.                                      *)

LEMMA UpTo == \A n \in Nat : IsFiniteSet(1 .. n) /\ Cardinality(1 .. n) = n
<1> TAKE n \in Nat
<1>1. IsFiniteSet(1 .. n) /\ Cardinality(1 .. n) = IF 1 > n THEN 0 ELSE n - 1 + 1
  BY FS_Interval
<1>2. QED
  BY <1>1

LEMMA Joined ==
  ASSUME NEW T, NEW s \in Seq(T), NEW t \in Seq(T)
  PROVE  /\ s \o t \in Seq(T) /\ DOMAIN (s \o t) = 1 .. (Len(s) + Len(t))
         /\ \A k \in 1 .. Len(s) : (s \o t)[k] = s[k]
         /\ \A j \in 1 .. Len(t) : (s \o t)[Len(s) + j] = t[j]
<1>1. s \o t \in Seq(T) /\ Len(s \o t) = Len(s) + Len(t) /\ Len(s) \in Nat /\ Len(t) \in Nat
  OBVIOUS
<1>2. \A k \in 1 .. Len(s) : (s \o t)[k] = s[k]
  OBVIOUS
<1>3. ASSUME NEW j \in 1 .. Len(t) PROVE (s \o t)[Len(s) + j] = t[j]
  BY <1>1
<1>4. QED
  BY <1>1, <1>2, <1>3

LEMMA PlacesFinite ==
  ASSUME NEW n \in Nat, NEW places \in SUBSET (1 .. n)
  PROVE  IsFiniteSet(places) /\ Cardinality(places) \in Nat /\ Cardinality(places) <= n
<1>1. IsFiniteSet(1 .. n) /\ Cardinality(1 .. n) = n
  BY UpTo
<1>2. QED
  BY <1>1, FS_Subset, FS_CardinalityType

LEMMA InOrderFacts ==
  ASSUME NEW places, IsFiniteSet(places), places \subseteq Int
  PROVE  /\ InOrder(places) \in [1 .. Cardinality(places) -> places]
         /\ \A k \in 1 .. Cardinality(places) :
              Cardinality({j \in places : j < InOrder(places)[k]}) = k - 1
<1> DEFINE lower == {p \in places \X places : p[1] < p[2]}
<1>1. \A x, y \in places : <<x, y>> \in lower <=> x < y
  OBVIOUS
<1> HIDE DEF lower
<1>2. StrictTotal(places, lower)
  BY <1>1 DEF StrictTotal
<1>3. \A i \in places : Below(places, lower, i) = {j \in places : j < i}
  BY <1>1 DEF Below
<1>4. Cardinality(places) \in Nat
  BY FS_CardinalityType
<1>5. \A k \in 1 .. Cardinality(places) : \E i \in places : Cardinality(Below(places, lower, i)) = k - 1
  BY ONLY IsFiniteSet(places), <1>2, <1>4, RankFacts
<1>6. \A k \in 1 .. Cardinality(places) : \E i \in places : Cardinality({j \in places : j < i}) = k - 1
  BY <1>3, <1>5
<1>7. QED
  BY <1>6 DEF InOrder

\* What At takes is from the places, and all of it where they are all.
LEMMA AtFacts ==
  ASSUME NEW T, NEW s \in Seq(T), NEW places \in SUBSET DOMAIN s
  PROVE  /\ DOMAIN At(s, places) = 1 .. Cardinality(places)
         /\ Cardinality(places) \in Nat /\ Cardinality(places) <= Len(s)
         /\ \A k \in DOMAIN At(s, places) : \E i \in places : At(s, places)[k] = s[i]
<1>1. Len(s) \in Nat /\ DOMAIN s = 1 .. Len(s)
  OBVIOUS
<1>2. InOrder(places) \in [1 .. Cardinality(places) -> places]
  BY <1>1, PlacesFinite, InOrderFacts
<1>3. Cardinality(places) \in Nat /\ Cardinality(places) <= Len(s)
  BY <1>1, PlacesFinite
<1>4. QED
  BY <1>2, <1>3 DEF At

LEMMA AtTyped ==
  ASSUME NEW T, NEW s \in Seq(T), NEW places \in SUBSET DOMAIN s, NEW U, \A i \in places : s[i] \in U
  PROVE  At(s, places) \in Seq(U) /\ Len(At(s, places)) <= Len(s)
<1>1. /\ DOMAIN At(s, places) = 1 .. Cardinality(places)
      /\ Cardinality(places) \in Nat /\ Cardinality(places) <= Len(s)
      /\ \A k \in DOMAIN At(s, places) : \E i \in places : At(s, places)[k] = s[i]
  BY AtFacts
<1>2. At(s, places) = [k \in 1 .. Cardinality(places) |-> At(s, places)[k]]
  BY <1>1 DEF At
<1>3. \A k \in 1 .. Cardinality(places) : At(s, places)[k] \in U
  BY <1>1
<1>4. At(s, places) \in [1 .. Cardinality(places) -> U]
  BY <1>2, <1>3
<1>5. QED
  BY <1>1, <1>4

LEMMA AtAll ==
  ASSUME NEW T, NEW s \in Seq(T)
  PROVE  At(s, DOMAIN s) = s
<1>1. Len(s) \in Nat /\ DOMAIN s = 1 .. Len(s) /\ s = [k \in 1 .. Len(s) |-> s[k]]
  OBVIOUS
<1> DEFINE n == Len(s)
           all == 1 .. n
<1>2. \A i \in Nat : Cardinality(1 .. i) = i
  BY UpTo
<1>3. n \in Nat /\ Cardinality(all) = n
  BY <1>1, <1>2
<1> HIDE DEF n
<1>4. /\ InOrder(all) \in [1 .. n -> all]
      /\ \A k \in 1 .. n : Cardinality({j \in all : j < InOrder(all)[k]}) = k - 1
  <2>1. IsFiniteSet(all) /\ all \subseteq Int
    BY <1>3, FS_Interval
  <2> HIDE DEF all
  <2>2. QED
    BY <2>1, <1>3, InOrderFacts
<1>5. ASSUME NEW k \in 1 .. n PROVE InOrder(all)[k] = k
  <2> DEFINE i == InOrder(all)[k]
  <2>1. i \in 1 .. n /\ Cardinality({j \in all : j < i}) = k - 1
    BY <1>4
  <2> HIDE DEF i
  <2>2. {j \in all : j < i} = 1 .. (i - 1) /\ i - 1 \in Nat
    BY <2>1, <1>3
  <2>3. i - 1 = k - 1
    BY <2>1, <2>2, <1>2
  <2>4. i = k
    BY <2>1, <2>3, <1>3
  <2>5. QED
    BY <2>4 DEF i
<1>6. At(s, all) = [k \in 1 .. n |-> s[InOrder(all)[k]]]
  BY <1>3 DEF At
<1>7. At(s, all) = [k \in 1 .. n |-> s[k]]
  BY <1>5, <1>6
<1>8. QED
  BY <1>1, <1>7 DEF n

\* Dropping what is older than a minute drops nothing where nothing is.
LEMMA PruneFacts ==
  ASSUME NEW s \in Seq(Nat)
  PROVE  /\ Prune(s) \in Seq(0 .. Window) /\ Len(Prune(s)) <= Len(s)
         /\ (\A i \in DOMAIN s : s[i] <= Window) => Prune(s) = s
<1> DEFINE kept == {i \in DOMAIN s : s[i] <= Window}
           T == 0 .. Window
<1>1. kept \in SUBSET DOMAIN s /\ Prune(s) = At(s, kept)
  BY DEF Prune
<1>2. \A i \in DOMAIN s : s[i] \in Nat
  OBVIOUS
<1>3. \A i \in kept : s[i] \in T
  BY <1>2, TimesAssumption
<1>4. (\A i \in DOMAIN s : s[i] <= Window) => kept = DOMAIN s
  OBVIOUS
<1> HIDE DEF kept, T
<1>5. At(s, kept) \in Seq(T) /\ Len(At(s, kept)) <= Len(s)
  BY <1>1, <1>3, AtTyped
<1>6. QED
  BY <1>1, <1>4, <1>5, AtAll DEF T

-----------------------------------------------------------------------------
(* Ranks, and the free order nearest to a level.                           *)

\* The places of b by rank.
Ranks(b) == {p \in (1 .. Len(b)) \X (1 .. Len(b)) : Better(b, p[1], p[2])}

LEMMA RanksFacts ==
  ASSUME NEW b \in Seq(Order), NEW places \in SUBSET DOMAIN b
  PROVE  /\ StrictTotal(places, Ranks(b))
         /\ \A i, j \in places : <<i, j>> \in Ranks(b) <=> Better(b, i, j)
<1>1. DOMAIN b = 1 .. Len(b) /\ Len(b) \in Nat
  OBVIOUS
<1>2. \A i \in places : i \in Nat /\ b[i].price \in Nat
  <2>1. \A i \in places : i \in 1 .. Len(b) /\ b[i] \in Order
    BY <1>1
  <2>2. \A o \in Order : o.price \in Nat
    BY DEF Order
  <2>3. QED
    BY <1>1, <2>1, <2>2
<1>3. \A i, j \in places : <<i, j>> \in Ranks(b) <=> Better(b, i, j)
  BY <1>1 DEF Ranks
<1>4. \A x \in places : ~Better(b, x, x)
  BY <1>2 DEF Better
<1>5. \A x, y \in places : x = y \/ Better(b, x, y) \/ Better(b, y, x)
  BY <1>2 DEF Better
<1>6. \A x, y, z \in places : Better(b, x, y) /\ Better(b, y, z) => Better(b, x, z)
  BY <1>2 DEF Better
<1>7. QED
  BY <1>3, <1>4, <1>5, <1>6 DEF StrictTotal

\* No place twice; 0 is none.
Apart(c) == \A p, q \in DOMAIN c : c[p] = c[q] /\ c[p] # 0 => p = q

LEMMA RankedFacts ==
  ASSUME NEW b \in Seq(Order), NEW places \in SUBSET DOMAIN b
  PROVE  /\ Ranked(b, places) \in Seq(places) /\ Len(Ranked(b, places)) = Cardinality(places)
         /\ \A i \in places : \E k \in DOMAIN Ranked(b, places) : Ranked(b, places)[k] = i
         /\ Apart(Ranked(b, places))
<1> DEFINE n == Cardinality(places)
           rank(i) == Cardinality({j \in places : Better(b, j, i)})
           r == Ranked(b, places)
<1>1. DOMAIN b = 1 .. Len(b) /\ Len(b) \in Nat
  OBVIOUS
<1>2. IsFiniteSet(places) /\ n \in Nat
  BY <1>1, PlacesFinite
<1>3. \A i \in places : Below(places, Ranks(b), i) = {j \in places : Better(b, j, i)}
  BY RanksFacts DEF Below
<1>4. /\ \A i \in places : rank(i) \in 0 .. n - 1
      /\ \A i, j \in places : rank(i) = rank(j) => i = j
      /\ \A k \in 1 .. n : \E i \in places : rank(i) = k - 1
  <2>1. StrictTotal(places, Ranks(b))
    BY RanksFacts
  <2>2. /\ \A i \in places : Cardinality(Below(places, Ranks(b), i)) \in 0 .. n - 1
        /\ \A i, j \in places : Cardinality(Below(places, Ranks(b), i)) =
                                Cardinality(Below(places, Ranks(b), j)) => i = j
        /\ \A k \in 1 .. n : \E i \in places : Cardinality(Below(places, Ranks(b), i)) = k - 1
    BY <2>1, <1>2, RankFacts
  <2>3. QED
    BY <2>2, <1>3
<1>5. DOMAIN r = 1 .. n /\ \A k \in 1 .. n : r[k] \in places /\ rank(r[k]) = k - 1
  BY <1>4 DEF Ranked
<1>6. r = [k \in 1 .. n |-> CHOOSE i \in places : rank(i) = k - 1]
  BY DEF Ranked
<1> HIDE DEF n, rank, r
<1>7. ASSUME NEW i \in places PROVE \E k \in 1 .. n : r[k] = i
  <2>1. rank(i) + 1 \in 1 .. n /\ (rank(i) + 1) - 1 = rank(i)
    BY <1>2, <1>4
  <2>2. rank(r[rank(i) + 1]) = rank(i) /\ r[rank(i) + 1] \in places
    BY <2>1, <1>5
  <2>3. QED
    BY <2>1, <2>2, <1>4
<1>8. r \in [1 .. n -> places]
  BY <1>5, <1>6
<1>9. r \in Seq(places) /\ Len(r) = n
  BY <1>2, <1>8
<1>10. Apart(r)
  <2> SUFFICES ASSUME NEW k \in 1 .. n, NEW m \in 1 .. n, r[k] = r[m] PROVE k = m
    BY <1>5 DEF Apart
  <2>1. k - 1 = m - 1
    BY <1>5
  <2>2. QED
    BY <2>1, <1>2
<1>11. QED
  BY <1>5, <1>7, <1>9, <1>10 DEF r, n

LEMMA NearestFacts ==
  ASSUME NEW b \in Seq(Order), NEW free \in SUBSET DOMAIN b, NEW price \in Nat, NEW within \in SUBSET Nat
  PROVE  LET i == Nearest(b, free, price, within)
         IN  /\ i # 0 => i \in free /\ Distance(b[i].price, price) \in within
             /\ i = 0 => \A j \in free : Distance(b[j].price, price) \notin within
<1> DEFINE off(i) == Distance(b[i].price, price)
           near == {i \in free : off(i) \in within}
           first(i) == \A j \in near \ {i} : off(i) < off(j) \/ (off(i) = off(j) /\ Better(b, i, j))
<1>1. DOMAIN b = 1 .. Len(b) /\ Len(b) \in Nat
  OBVIOUS
<1>2. \A i \in free : i \in Nat /\ i # 0 /\ off(i) \in Nat
  <2>1. \A i \in free : i \in 1 .. Len(b) /\ b[i] \in Order
    BY <1>1
  <2>2. \A o \in Order : o.price \in Nat
    BY DEF Order
  <2>3. \A i \in free : i \in Nat /\ i # 0 /\ b[i].price \in Nat
    BY <1>1, <2>1, <2>2
  <2>4. \A x, y \in Nat : Distance(x, y) \in Nat
    BY DEF Distance
  <2>5. QED
    BY <2>3, <2>4
<1>3. Nearest(b, free, price, within) = IF near = {} THEN 0 ELSE CHOOSE i \in near : first(i)
  BY DEF Nearest
<1>4. ASSUME near # {} PROVE \E i \in near : first(i)
  <2> DEFINE T == {off(i) : i \in near}
  <2>1. T \subseteq Nat /\ T # {}
    BY <1>2, <1>4
  <2>2. PICK s \in T : \A t \in T : s <= t
    BY <2>1, Least
  <2> DEFINE ties == {i \in near : off(i) = s}
  <2>3. ties \in SUBSET DOMAIN b /\ ties # {}
    OBVIOUS
  <2>4. IsFiniteSet(ties)
    BY <1>1, <2>3, PlacesFinite
  <2>5. StrictTotal(ties, Ranks(b)) /\ \A i, j \in ties : <<i, j>> \in Ranks(b) <=> Better(b, i, j)
    BY <2>3, RanksFacts
  <2>6. \E i \in ties : \A j \in ties \ {i} : <<i, j>> \in Ranks(b)
    <3> HIDE DEF ties
    <3>1. QED
      BY <2>3, <2>4, <2>5, First
  <2>7. PICK i \in ties : \A j \in ties \ {i} : Better(b, i, j)
    BY <2>5, <2>6
  <2>8. \A j \in near \ {i} : off(i) < off(j) \/ (off(i) = off(j) /\ Better(b, i, j))
    <3> TAKE j \in near \ {i}
    <3>1. off(i) = s /\ s <= off(j) /\ off(j) \in Nat /\ s \in Nat
      BY <2>1, <2>2, <1>2
    <3>2. off(j) = s => j \in ties \ {i}
      OBVIOUS
    <3> HIDE DEF off, ties
    <3>3. QED
      BY <3>1, <3>2, <2>7
  <2>9. QED
    BY <2>8
<1> HIDE DEF first
<1>5. QED
  BY <1>2, <1>3, <1>4

-----------------------------------------------------------------------------
(* What Claims gives: each order to one level at most, a level that orders  *)
(* are near to one of those first.                                          *)

Rung == [price: Nat \ {0}, size: Nat]
Targets == Seq(Rung)
Places(b) == 0 .. Len(b)

\* The step of each of the two functions in Claims.
NearStep(b, targets, c, k) == Append(c, Nearest(b, DOMAIN b \ Range(c), targets[k].price, 0 .. Tolerance - 1))
AllStep(b, targets, c, k) ==
  IF c[k] # 0 THEN c
  ELSE [c EXCEPT ![k] = Nearest(b, DOMAIN b \ Range(c), targets[k].price, Nat)]
IsNear(g, b, targets) ==
  g = [k \in 0 .. Len(targets) |-> IF k = 0 THEN <<>> ELSE NearStep(b, targets, g[k - 1], k)]
IsAll(g, b, targets, near) ==
  g = [k \in 0 .. Len(targets) |->
         IF k = 0 THEN near[Len(targets)] ELSE AllStep(b, targets, g[k - 1], k)]

LEMMA ClaimsIs ==
  ASSUME NEW b, NEW targets
  PROVE  LET near == CHOOSE g : IsNear(g, b, targets)
             all == CHOOSE g : IsAll(g, b, targets, near)
         IN  Claims(b, targets) = all[Len(targets)]
BY DEF Claims, IsNear, IsAll, NearStep, AllStep

LEMMA TargetFacts ==
  ASSUME NEW targets \in Targets
  PROVE  /\ Len(targets) \in Nat /\ DOMAIN targets = 1 .. Len(targets)
         /\ \A k \in DOMAIN targets : /\ targets[k].price \in Nat /\ targets[k].price # 0
                                      /\ targets[k].size \in Nat
<1>1. Len(targets) \in Nat /\ DOMAIN targets = 1 .. Len(targets)
  BY DEF Targets
<1>2. \A k \in DOMAIN targets : targets[k] \in Rung
  BY DEF Targets
<1>3. QED
  BY <1>1, <1>2 DEF Rung

LEMMA PickFacts ==
  ASSUME NEW b \in Seq(Order), NEW c, NEW price \in Nat, NEW within \in SUBSET Nat
  PROVE  LET i == Nearest(b, DOMAIN b \ Range(c), price, within)
         IN  /\ i \in Places(b)
             /\ i # 0 => /\ i \in DOMAIN b /\ Distance(b[i].price, price) \in within
                         /\ \A p \in DOMAIN c : c[p] # i
             /\ i = 0 => \A j \in DOMAIN b : Distance(b[j].price, price) \in within => j \in Range(c)
<1> DEFINE free == DOMAIN b \ Range(c)
           i == Nearest(b, free, price, within)
<1>1. DOMAIN b = 1 .. Len(b) /\ Len(b) \in Nat /\ free \in SUBSET DOMAIN b
  OBVIOUS
<1> HIDE DEF free, i
<1>2. /\ i # 0 => i \in free /\ Distance(b[i].price, price) \in within
      /\ i = 0 => \A j \in free : Distance(b[j].price, price) \notin within
  BY <1>1, NearestFacts DEF i
<1>3. i \in Places(b)
  BY <1>1, <1>2 DEF Places
<1>4. i # 0 => \A p \in DOMAIN c : c[p] # i
  BY <1>2 DEF free, Range
<1>5. i = 0 => \A j \in DOMAIN b : Distance(b[j].price, price) \in within => j \in Range(c)
  BY <1>2 DEF free
<1>6. QED
  BY <1>1, <1>2, <1>3, <1>4, <1>5 DEF i, free

\* The claims of the first k levels, before the leftovers.
Claimed(b, targets, c) ==
  \A p \in DOMAIN c :
    /\ c[p] # 0 => c[p] \in DOMAIN b /\ Near(b[c[p]], targets[p])
    /\ c[p] = 0 => \A i \in DOMAIN b : Near(b[i], targets[p]) => i \in Range(c)
NearInv(b, targets, c, k) ==
  c \in Seq(Places(b)) /\ Len(c) = k /\ Apart(c) /\ Claimed(b, targets, c)

LEMMA NearStepKeeps ==
  ASSUME NEW b \in Seq(Order), NEW targets \in Targets, NEW k \in DOMAIN targets, NEW c,
         NearInv(b, targets, c, k - 1)
  PROVE  NearInv(b, targets, NearStep(b, targets, c, k), k)
<1> DEFINE i == Nearest(b, DOMAIN b \ Range(c), targets[k].price, 0 .. Tolerance - 1)
           d == Append(c, i)
<1>1. k \in Nat /\ k >= 1 /\ targets[k].price \in Nat /\ Tolerance \in Nat
  BY TargetFacts, KnobsAssumption
<1>2. /\ i \in Places(b)
      /\ i # 0 => /\ i \in DOMAIN b /\ Near(b[i], targets[k])
                  /\ \A p \in DOMAIN c : c[p] # i
      /\ i = 0 => \A j \in DOMAIN b : Near(b[j], targets[k]) => j \in Range(c)
  <2>1. /\ i \in Places(b)
        /\ i # 0 => /\ i \in DOMAIN b /\ Distance(b[i].price, targets[k].price) \in 0 .. Tolerance - 1
                    /\ \A p \in DOMAIN c : c[p] # i
        /\ i = 0 => \A j \in DOMAIN b : Distance(b[j].price, targets[k].price) \in 0 .. Tolerance - 1
                                          => j \in Range(c)
    <3> DEFINE within == 0 .. Tolerance - 1
    <3>1. within \in SUBSET Nat
      BY <1>1
    <3> HIDE DEF within
    <3>2. LET j == Nearest(b, DOMAIN b \ Range(c), targets[k].price, within)
          IN  /\ j \in Places(b)
              /\ j # 0 => /\ j \in DOMAIN b /\ Distance(b[j].price, targets[k].price) \in within
                          /\ \A p \in DOMAIN c : c[p] # j
              /\ j = 0 => \A q \in DOMAIN b : Distance(b[q].price, targets[k].price) \in within
                                                => q \in Range(c)
      BY <1>1, <3>1, PickFacts
    <3>3. QED
      BY <3>2 DEF within
  <2>2. ASSUME NEW j \in DOMAIN b
        PROVE  Near(b[j], targets[k]) <=> Distance(b[j].price, targets[k].price) \in 0 .. Tolerance - 1
    <3>1. b[j].price \in Nat
      <4>1. b[j] \in Order
        OBVIOUS
      <4>2. QED
        BY <4>1 DEF Order
    <3>2. Distance(b[j].price, targets[k].price) \in Nat
      BY <1>1, <3>1 DEF Distance
    <3>3. QED
      BY <1>1, <3>2 DEF Near
  <2> HIDE DEF i
  <2>3. QED
    BY <2>1, <2>2
<1>3. NearStep(b, targets, c, k) = d
  BY DEF NearStep
<1>4. c \in Seq(Places(b)) /\ Len(c) = k - 1 /\ DOMAIN c = 1 .. k - 1 /\ Apart(c) /\ Claimed(b, targets, c)
  BY DEF NearInv
<1> HIDE DEF i
<1>5. d \in Seq(Places(b)) /\ Len(d) = k /\ DOMAIN d = 1 .. k
  BY <1>1, <1>2, <1>4
<1>6. d[k] = i /\ \A p \in DOMAIN c : d[p] = c[p]
  BY <1>1, <1>4
<1>7. \A p \in DOMAIN d : p \in DOMAIN c \/ p = k
  BY <1>1, <1>4, <1>5
<1> HIDE DEF d
<1>8. Apart(d)
  <2> SUFFICES ASSUME NEW p \in DOMAIN d, NEW q \in DOMAIN d, d[p] = d[q], d[p] # 0 PROVE p = q
    BY DEF Apart
  <2>1. CASE p = k /\ q = k
    BY <2>1
  <2>2. CASE p \in DOMAIN c /\ q = k
    BY <2>2, <1>2, <1>6
  <2>3. CASE p = k /\ q \in DOMAIN c
    BY <2>3, <1>2, <1>6
  <2>4. CASE p \in DOMAIN c /\ q \in DOMAIN c
    BY <2>4, <1>4, <1>6 DEF Apart
  <2>5. QED
    BY <2>1, <2>2, <2>3, <2>4, <1>7
<1>9. Range(c) \subseteq Range(d)
  BY <1>1, <1>4, <1>5, <1>6 DEF Range
<1>10. Claimed(b, targets, d)
  <2> SUFFICES ASSUME NEW p \in DOMAIN d
               PROVE  /\ d[p] # 0 => d[p] \in DOMAIN b /\ Near(b[d[p]], targets[p])
                      /\ d[p] = 0 => \A j \in DOMAIN b : Near(b[j], targets[p]) => j \in Range(d)
    BY DEF Claimed
  <2>1. CASE p = k
    BY <2>1, <1>2, <1>6, <1>9
  <2>2. CASE p \in DOMAIN c
    <3>1. /\ c[p] # 0 => c[p] \in DOMAIN b /\ Near(b[c[p]], targets[p])
          /\ c[p] = 0 => \A j \in DOMAIN b : Near(b[j], targets[p]) => j \in Range(c)
      BY <2>2, <1>4 DEF Claimed
    <3>2. QED
      BY <2>2, <3>1, <1>6, <1>9
  <2>3. QED
    BY <2>1, <2>2, <1>7
<1>11. QED
  BY <1>3, <1>5, <1>8, <1>10 DEF NearInv

\* With the leftovers: what a level claimed stays.
AllInv(b, targets, near, c) ==
  /\ c \in [1 .. Len(targets) -> Places(b)] /\ Apart(c)
  /\ \A p \in 1 .. Len(targets) : near[p] # 0 => c[p] = near[p]

\* A level is left empty only where every order is claimed.
Filled(b, c, k) == \A p \in 1 .. k : c[p] = 0 => DOMAIN b \subseteq Range(c)

LEMMA AllStepFills ==
  ASSUME NEW b \in Seq(Order), NEW targets \in Targets, NEW k \in DOMAIN targets,
         NEW c \in [1 .. Len(targets) -> Places(b)], Filled(b, c, k - 1)
  PROVE  Filled(b, AllStep(b, targets, c, k), k)
<1> DEFINE i == Nearest(b, DOMAIN b \ Range(c), targets[k].price, Nat)
           d == [c EXCEPT ![k] = i]
           n == Len(targets)
<1>1. k \in 1 .. n /\ n \in Nat /\ targets[k].price \in Nat
  BY TargetFacts
<1>2. /\ i \in Places(b) /\ DOMAIN b = 1 .. Len(b) /\ Len(b) \in Nat
      /\ i = 0 => \A j \in DOMAIN b : Distance(b[j].price, targets[k].price) \in Nat => j \in Range(c)
  <2>1. Nat \in SUBSET Nat /\ DOMAIN b = 1 .. Len(b) /\ Len(b) \in Nat
    OBVIOUS
  <2>2. LET m == Nearest(b, DOMAIN b \ Range(c), targets[k].price, Nat)
        IN  /\ m \in Places(b)
            /\ m = 0 => \A j \in DOMAIN b : Distance(b[j].price, targets[k].price) \in Nat => j \in Range(c)
    BY <1>1, <2>1, PickFacts
  <2>3. QED
    BY <2>1, <2>2
<1>3. ASSUME NEW j \in DOMAIN b PROVE Distance(b[j].price, targets[k].price) \in Nat
  <2>1. b[j] \in Order
    OBVIOUS
  <2>2. b[j].price \in Nat
    BY <2>1 DEF Order
  <2>3. QED
    BY <1>1, <2>2 DEF Distance
<1>4. i = 0 => DOMAIN b \subseteq Range(c)
  BY <1>2, <1>3
<1> HIDE DEF i, n
<1>5. \A p \in 1 .. k : p \in 1 .. k - 1 \/ p = k
  BY <1>1
<1>6. CASE c[k] # 0
  <2>1. AllStep(b, targets, c, k) = c
    BY <1>6 DEF AllStep
  <2>2. QED
    BY <2>1, <1>5, <1>6 DEF Filled
<1>7. CASE c[k] = 0
  <2>1. AllStep(b, targets, c, k) = d
    BY <1>7 DEF AllStep, i
  <2>2. c \in [1 .. n -> Places(b)]
    BY DEF n
  <2>3. d[k] = i /\ DOMAIN d = 1 .. n /\ \A p \in 1 .. n : p # k => d[p] = c[p]
    BY <2>2, <1>1
  <2> HIDE DEF d
  <2>4. ASSUME DOMAIN b \subseteq Range(c) PROVE DOMAIN b \subseteq Range(d)
    <3> SUFFICES ASSUME NEW j \in DOMAIN b PROVE j \in Range(d)
      OBVIOUS
    <3>1. PICK p \in 1 .. n : c[p] = j
      BY <2>2, <2>4 DEF Range
    <3>2. j # 0
      BY <1>2
    <3>3. p # k
      BY <3>1, <3>2, <1>7
    <3>4. QED
      BY <3>1, <3>3, <2>3 DEF Range
  <2>5. ASSUME NEW p \in 1 .. k, d[p] = 0 PROVE DOMAIN b \subseteq Range(c)
    <3>1. CASE p = k
      BY <3>1, <2>3, <2>5, <1>4
    <3>2. CASE p \in 1 .. k - 1
      <4>1. p \in 1 .. n /\ p # k
        BY <3>2, <1>1
      <4>2. c[p] = 0
        BY <4>1, <2>3, <2>5
      <4>3. QED
        BY <3>2, <4>2 DEF Filled
    <3>3. QED
      BY <3>1, <3>2, <1>5
  <2>6. QED
    BY <2>1, <2>4, <2>5 DEF Filled
<1>8. QED
  BY <1>6, <1>7

LEMMA AllStepKeeps ==
  ASSUME NEW b \in Seq(Order), NEW targets \in Targets, NEW k \in DOMAIN targets, NEW near, NEW c,
         AllInv(b, targets, near, c)
  PROVE  AllInv(b, targets, near, AllStep(b, targets, c, k))
<1> DEFINE i == Nearest(b, DOMAIN b \ Range(c), targets[k].price, Nat)
           d == [c EXCEPT ![k] = i]
           n == Len(targets)
<1>1. k \in 1 .. n /\ n \in Nat /\ targets[k].price \in Nat
  BY TargetFacts
<1>2. i \in Places(b) /\ (i # 0 => \A p \in DOMAIN c : c[p] # i)
  BY <1>1, PickFacts
<1>3. c \in [1 .. n -> Places(b)] /\ Apart(c) /\ \A p \in 1 .. n : near[p] # 0 => c[p] = near[p]
  BY DEF AllInv
<1>4. CASE c[k] # 0
  BY <1>4 DEF AllStep
<1>5. CASE c[k] = 0
  <2>1. AllStep(b, targets, c, k) = d
    BY <1>5 DEF AllStep
  <2> HIDE DEF i, n
  <2>2. d \in [1 .. n -> Places(b)] /\ d[k] = i /\ \A p \in 1 .. n : p # k => d[p] = c[p]
    BY <1>1, <1>2, <1>3
  <2>3. DOMAIN c = 1 .. n /\ DOMAIN d = 1 .. n
    BY <1>3
  <2> HIDE DEF d
  <2>4. Apart(d)
    <3> SUFFICES ASSUME NEW p \in 1 .. n, NEW q \in 1 .. n, d[p] = d[q], d[p] # 0, p # q PROVE FALSE
      BY <2>3 DEF Apart
    <3>1. CASE p = k
      BY <3>1, <2>2, <1>2, <2>3
    <3>2. CASE q = k
      BY <3>2, <2>2, <1>2, <2>3
    <3>3. CASE p # k /\ q # k
      BY <3>3, <2>2, <1>3, <2>3 DEF Apart
    <3>4. QED
      BY <3>1, <3>2, <3>3
  <2>5. \A p \in 1 .. n : near[p] # 0 => d[p] = near[p]
    BY <1>3, <1>5, <2>2, <1>1
  <2>6. QED
    BY <2>1, <2>2, <2>4, <2>5 DEF AllInv, n
<1>6. QED
  BY <1>4, <1>5

LEMMA NearTyped ==
  ASSUME NEW b \in Seq(Order), NEW targets \in Targets
  PROVE  LET near == CHOOSE g : IsNear(g, b, targets)
         IN  \A k \in 0 .. Len(targets) : NearInv(b, targets, near[k], k)
<1> DEFINE n == Len(targets)
           near == CHOOSE g : IsNear(g, b, targets)
           D == Seq(Places(b))
           G == [k \in 1 .. n |-> [c \in D |-> NearStep(b, targets, c, k)]]
<1>1. n \in Nat /\ DOMAIN targets = 1 .. n
  BY TargetFacts
<1>2. ASSUME NEW k \in 1 .. n, NEW c \in Seq(Places(b))
      PROVE  NearStep(b, targets, c, k) \in Seq(Places(b))
  <2>1. targets[k].price \in Nat /\ Tolerance \in Nat
    BY <1>1, TargetFacts, KnobsAssumption
  <2>2. Nearest(b, DOMAIN b \ Range(c), targets[k].price, 0 .. Tolerance - 1) \in Places(b)
    <3> DEFINE within == 0 .. Tolerance - 1
    <3>1. within \in SUBSET Nat
      BY <2>1
    <3> HIDE DEF within
    <3>2. Nearest(b, DOMAIN b \ Range(c), targets[k].price, within) \in Places(b)
      BY <2>1, <3>1, PickFacts
    <3>3. QED
      BY <3>2 DEF within
  <2>3. QED
    BY <2>2 DEF NearStep
<1>3. <<>> \in D /\ \A k \in 1 .. n, c \in D : NearStep(b, targets, c, k) \in D
  BY <1>2
<1> HIDE DEF D
<1>4. G \in [1 .. n -> [D -> D]]
  BY <1>3
<1>5. PICK g \in [0 .. n -> D] : Stepwise(g, n, <<>>, G)
  BY <1>1, <1>3, <1>4, StepwiseExists
<1>6. IsNear(g, b, targets)
  <2>1. \A k \in 1 .. n : G[k][g[k - 1]] = NearStep(b, targets, g[k - 1], k)
    BY <1>1, <1>5
  <2>2. \A k \in 0 .. n : g[k] = IF k = 0 THEN <<>> ELSE G[k][g[k - 1]]
    BY <1>5 DEF Stepwise
  <2> HIDE DEF G
  <2>3. \A k \in 0 .. n : g[k] = IF k = 0 THEN <<>> ELSE NearStep(b, targets, g[k - 1], k)
    BY <1>1, <2>1, <2>2
  <2>4. QED
    BY <2>3 DEF IsNear
<1>7. IsNear(near, b, targets)
  BY <1>6
<1> HIDE DEF near, n
<1>8. near[0] = <<>> /\ \A k \in 1 .. n : near[k] = NearStep(b, targets, near[k - 1], k)
  BY <1>1, <1>7 DEF IsNear, n
<1> DEFINE P == {k \in 0 .. n : NearInv(b, targets, near[k], k)}
<1>9. 0 \in P
  <2>1. NearInv(b, targets, <<>>, 0)
    BY DEF NearInv, Apart, Claimed
  <2>2. QED
    BY <1>1, <1>8, <2>1
<1>10. \A k \in 1 .. n : k - 1 \in P => k \in P
  <2> SUFFICES ASSUME NEW k \in 1 .. n, NearInv(b, targets, near[k - 1], k - 1)
               PROVE  NearInv(b, targets, near[k], k)
    BY <1>1
  <2>1. QED
    BY <1>1, <1>8, NearStepKeeps
<1> HIDE DEF P
<1>11. \A k \in 0 .. n : k \in P
  BY <1>1, <1>9, <1>10, Climb
<1>12. QED
  BY <1>11 DEF P, n, near

LEMMA AllTyped ==
  ASSUME NEW b \in Seq(Order), NEW targets \in Targets, NEW near,
         AllInv(b, targets, near[Len(targets)], near[Len(targets)])
  PROVE  LET all == CHOOSE g : IsAll(g, b, targets, near)
         IN  /\ AllInv(b, targets, near[Len(targets)], all[Len(targets)])
             /\ Filled(b, all[Len(targets)], Len(targets))
<1> DEFINE n == Len(targets)
           first == near[n]
           all == CHOOSE g : IsAll(g, b, targets, near)
           D == {c \in [1 .. n -> Places(b)] : AllInv(b, targets, first, c)}
           G == [k \in 1 .. n |-> [c \in D |-> AllStep(b, targets, c, k)]]
<1>1. n \in Nat /\ DOMAIN targets = 1 .. n
  BY TargetFacts
<1>2. \A c : AllInv(b, targets, first, c) => c \in D
  BY DEF AllInv
<1>3. \A k \in 1 .. n, c \in D : AllStep(b, targets, c, k) \in D
  <2> TAKE k \in 1 .. n, c \in D
  <2>1. AllInv(b, targets, first, AllStep(b, targets, c, k))
    BY <1>1, AllStepKeeps
  <2>2. QED
    BY <2>1, <1>2
<1>4. first \in D
  BY <1>2
<1> HIDE DEF D
<1>5. G \in [1 .. n -> [D -> D]]
  BY <1>3
<1>6. PICK g \in [0 .. n -> D] : Stepwise(g, n, first, G)
  BY <1>1, <1>4, <1>5, StepwiseExists
<1>7. IsAll(g, b, targets, near)
  <2>1. \A k \in 1 .. n : G[k][g[k - 1]] = AllStep(b, targets, g[k - 1], k)
    BY <1>1, <1>6
  <2>2. \A k \in 0 .. n : g[k] = IF k = 0 THEN first ELSE G[k][g[k - 1]]
    BY <1>6 DEF Stepwise
  <2> HIDE DEF G
  <2>3. \A k \in 0 .. n : g[k] = IF k = 0 THEN near[n] ELSE AllStep(b, targets, g[k - 1], k)
    BY <1>1, <2>1, <2>2
  <2>4. QED
    BY <2>3 DEF IsAll
<1>8. IsAll(all, b, targets, near)
  BY <1>7
<1> HIDE DEF all, n, first
<1>9. all[0] = first /\ \A k \in 1 .. n : all[k] = AllStep(b, targets, all[k - 1], k)
  BY <1>1, <1>8 DEF IsAll, n, first
<1> DEFINE P == {k \in 0 .. n : all[k] \in D /\ Filled(b, all[k], k)}
<1>10. 0 \in P
  <2>1. Filled(b, all[0], 0)
    BY DEF Filled
  <2>2. QED
    BY <2>1, <1>1, <1>4, <1>9
<1>11. \A k \in 1 .. n : k - 1 \in P => k \in P
  <2> SUFFICES ASSUME NEW k \in 1 .. n, all[k - 1] \in D, Filled(b, all[k - 1], k - 1) PROVE k \in P
    OBVIOUS
  <2>1. all[k] \in D
    BY <1>3, <1>9
  <2>2. all[k - 1] \in [1 .. Len(targets) -> Places(b)] /\ k \in DOMAIN targets
    BY <1>1 DEF D, n
  <2>3. Filled(b, all[k], k)
    BY <2>2, <1>9, AllStepFills
  <2>4. QED
    BY <1>1, <2>1, <2>3
<1> HIDE DEF P
<1>12. \A k \in 0 .. n : k \in P
  BY <1>1, <1>10, <1>11, Climb
<1>13. all[n] \in D /\ Filled(b, all[n], n)
  BY <1>1, <1>12 DEF P
<1>14. QED
  BY <1>13 DEF D, n, all, first

LEMMA ClaimsFacts ==
  ASSUME NEW b \in Seq(Order), NEW targets \in Targets
  PROVE  LET c == Claims(b, targets)
         IN  /\ c \in [1 .. Len(targets) -> Places(b)] /\ Apart(c) /\ Filled(b, c, Len(targets))
             /\ \A i \in DOMAIN b, k \in DOMAIN targets :
                  /\ Near(b[i], targets[k])
                  /\ \A j \in DOMAIN b \ {i} : ~Near(b[j], targets[k])
                  => \E p \in DOMAIN targets : c[p] = i /\ Near(b[i], targets[p])
<1> DEFINE n == Len(targets)
           near == CHOOSE g : IsNear(g, b, targets)
           all == CHOOSE g : IsAll(g, b, targets, near)
           first == near[n]
           c == Claims(b, targets)
<1>1. n \in Nat /\ DOMAIN targets = 1 .. n
  BY TargetFacts
<1>2. NearInv(b, targets, first, n)
  BY <1>1, NearTyped
<1>3. c = all[n]
  BY ClaimsIs
<1>4. AllInv(b, targets, first, first)
  <2>1. first \in Seq(Places(b)) /\ Len(first) = Len(targets) /\ Apart(first)
    BY <1>2 DEF NearInv
  <2> HIDE DEF first
  <2>2. first \in [1 .. Len(targets) -> Places(b)]
    BY <2>1
  <2>3. QED
    BY <2>1, <2>2 DEF AllInv
<1> HIDE DEF near
<1>5. AllInv(b, targets, first, all[n]) /\ Filled(b, all[n], n)
  BY <1>4, AllTyped
<1> HIDE DEF all, first, n, c
<1>6. c \in [1 .. n -> Places(b)] /\ Apart(c) /\ \A p \in 1 .. n : first[p] # 0 => c[p] = first[p]
  BY <1>3, <1>5 DEF AllInv, n
<1>7. ASSUME NEW i \in DOMAIN b, NEW k \in DOMAIN targets, Near(b[i], targets[k]),
             \A j \in DOMAIN b \ {i} : ~Near(b[j], targets[k])
      PROVE  \E p \in DOMAIN targets : c[p] = i /\ Near(b[i], targets[p])
  <2>1. DOMAIN first = 1 .. n /\ Claimed(b, targets, first)
    BY <1>2, <1>1 DEF NearInv
  <2>2. i # 0
    OBVIOUS
  <2>3. PICK p \in 1 .. n : first[p] = i
    <3>1. /\ first[k] # 0 => first[k] \in DOMAIN b /\ Near(b[first[k]], targets[k])
          /\ first[k] = 0 => i \in Range(first)
      BY <2>1, <1>1, <1>7 DEF Claimed
    <3>2. QED
      BY <3>1, <2>1, <1>1, <1>7 DEF Range
  <2>4. Near(b[i], targets[p])
    BY <2>1, <2>2, <2>3 DEF Claimed
  <2>5. QED
    BY <2>2, <2>3, <2>4, <1>1, <1>6
<1>8. Filled(b, c, n)
  BY <1>3, <1>5
<1>9. QED
  BY <1>6, <1>7, <1>8 DEF c, n

-----------------------------------------------------------------------------
(* Every resting order has a slot, and one that claims a level only that.  *)

SlotSet(b, targets) == [order: Places(b), level: 0 .. Len(targets)]
Covers(slots, b) == \A i \in DOMAIN b : \E k \in DOMAIN slots : slots[k].order = i
\* No order has two slots, and the empty slots are those for which the orders are too few.
Empty(slots, k) == {j \in 1 .. k : slots[j].order = 0}
Single(slots) == \A j, k \in DOMAIN slots : slots[j].order = slots[k].order /\ slots[j].order # 0 => j = k
Room(slots, b, targets) ==
  Len(b) + Cardinality(Empty(slots, Len(slots))) <= Larger(Len(b), Len(targets))
ByClaim(slot, claims) ==
  IF slot.level = 0 THEN slot.order \notin Range(claims) ELSE slot.order = claims[slot.level]

LEMMA SlotsByRankFacts ==
  ASSUME NEW b \in Seq(Order), NEW targets \in Targets
  PROVE  LET slots == SlotsByRank(b, targets)
         IN  /\ slots \in Seq(SlotSet(b, targets)) /\ Covers(slots, b)
             /\ Single(slots) /\ Room(slots, b, targets)
<1> DEFINE ranked == Ranked(b, DOMAIN b)
           n == Larger(Len(b), Len(targets))
           slots == SlotsByRank(b, targets)
<1>1. Len(b) \in Nat /\ DOMAIN b = 1 .. Len(b) /\ Len(targets) \in Nat
  BY TargetFacts
<1>2. Cardinality(DOMAIN b) = Len(b)
  BY <1>1, UpTo
<1>3. /\ ranked \in Seq(DOMAIN b) /\ Len(ranked) = Len(b) /\ Apart(ranked)
      /\ \A i \in DOMAIN b : \E k \in DOMAIN ranked : ranked[k] = i
  BY <1>2, RankedFacts
<1> HIDE DEF ranked
<1>4. DOMAIN ranked = 1 .. Len(b) /\ \A k \in 1 .. Len(b) : ranked[k] \in 1 .. Len(b)
  BY <1>1, <1>3
<1>5. n \in Nat /\ Len(b) <= n /\ Len(targets) <= n
  BY <1>1 DEF Larger
<1> HIDE DEF n
<1>6. slots = [i \in 1 .. n |-> [order |-> IF i <= Len(b) THEN ranked[i] ELSE 0,
                                 level |-> IF i <= Len(targets) THEN i ELSE 0]]
  BY DEF SlotsByRank, n, ranked
<1> HIDE DEF slots
<1>7. \A i \in 1 .. n : slots[i] \in SlotSet(b, targets)
  <2> TAKE i \in 1 .. n
  <2>1. (IF i <= Len(b) THEN ranked[i] ELSE 0) \in Places(b)
    BY <1>1, <1>4, <1>5 DEF Places
  <2>2. (IF i <= Len(targets) THEN i ELSE 0) \in 0 .. Len(targets)
    BY <1>1, <1>5
  <2>3. QED
    BY <1>6, <2>1, <2>2 DEF SlotSet
<1>8. slots \in Seq(SlotSet(b, targets)) /\ DOMAIN slots = 1 .. n
  <2>1. slots \in [1 .. n -> SlotSet(b, targets)]
    BY <1>6, <1>7
  <2>2. QED
    BY <2>1, <1>5
<1>9. Covers(slots, b)
  <2> SUFFICES ASSUME NEW i \in DOMAIN b PROVE \E k \in DOMAIN slots : slots[k].order = i
    BY DEF Covers
  <2>1. PICK k \in DOMAIN ranked : ranked[k] = i
    BY <1>3
  <2>2. k \in 1 .. n /\ k <= Len(b)
    BY <2>1, <1>1, <1>4, <1>5
  <2>3. slots[k].order = i
    BY <1>6, <2>1, <2>2
  <2>4. QED
    BY <2>2, <2>3, <1>8
<1>10. Single(slots)
  <2> SUFFICES ASSUME NEW j \in 1 .. n, NEW k \in 1 .. n,
                      slots[j].order = slots[k].order, slots[j].order # 0
               PROVE  j = k
    BY <1>8 DEF Single
  <2>1. j <= Len(b) /\ k <= Len(b) /\ ranked[j] = ranked[k] /\ ranked[j] # 0
    BY <1>6
  <2>2. j \in DOMAIN ranked /\ k \in DOMAIN ranked
    BY <2>1, <1>1, <1>4, <1>5
  <2>3. QED
    BY <2>1, <2>2, <1>3 DEF Apart
<1>11. Room(slots, b, targets)
  <2>1. Len(slots) = n
    BY <1>5, <1>8
  <2>2. \A j \in 1 .. n : slots[j].order = 0 <=> j > Len(b)
    <3> TAKE j \in 1 .. n
    <3>1. slots[j].order = IF j <= Len(b) THEN ranked[j] ELSE 0
      BY <1>6
    <3>2. j <= Len(b) => ranked[j] # 0
      BY <1>1, <1>4, <1>5
    <3>3. QED
      BY <3>1, <3>2, <1>1, <1>5
  <2>3. Empty(slots, n) = (Len(b) + 1) .. n
    BY <2>2, <1>1, <1>5 DEF Empty
  <2>4. Cardinality((Len(b) + 1) .. n) = n - Len(b)
    <3> DEFINE m == Len(b) + 1
    <3>1. m \in Int /\ n \in Int
      BY <1>1, <1>5
    <3> HIDE DEF m
    <3>2. Cardinality(m .. n) = IF m > n THEN 0 ELSE n - m + 1
      BY <3>1, FS_Interval
    <3>3. QED
      BY <3>2, <1>1, <1>5 DEF m
  <2>5. n = Larger(Len(b), Len(targets))
    BY DEF n
  <2>6. QED
    BY <2>1, <2>3, <2>4, <2>5, <1>1, <1>5 DEF Room
<1>12. QED
  BY <1>8, <1>9, <1>10, <1>11 DEF slots

LEMMA SlotsByClaimFacts ==
  ASSUME NEW b \in Seq(Order), NEW targets \in Targets, Tolerance # 0
  PROVE  LET slots == Slots(b, targets)
         IN  /\ slots \in Seq(SlotSet(b, targets)) /\ Covers(slots, b)
             /\ Single(slots) /\ Room(slots, b, targets)
             /\ \A k \in DOMAIN slots : ByClaim(slots[k], Claims(b, targets))
<1> DEFINE n == Len(targets)
           claims == Claims(b, targets)
           free == DOMAIN b \ Range(claims)
           rest == Ranked(b, free)
           one == [k \in 1 .. n |-> [order |-> claims[k], level |-> k]]
           two == [j \in 1 .. Len(rest) |-> [order |-> rest[j], level |-> 0]]
           slots == Slots(b, targets)
<1>1. Len(b) \in Nat /\ DOMAIN b = 1 .. Len(b) /\ n \in Nat
  BY TargetFacts
<1>2. claims \in [1 .. n -> Places(b)] /\ Apart(claims) /\ Filled(b, claims, n)
  BY ClaimsFacts
<1>3. free \in SUBSET DOMAIN b
  OBVIOUS
<1>4. rest \in Seq(free) /\ Apart(rest) /\ \A i \in free : \E k \in DOMAIN rest : rest[k] = i
  BY <1>3, RankedFacts
<1>5. slots = one \o two
  BY DEF Slots
<1> HIDE DEF claims, free, rest, n
<1>6. Len(rest) \in Nat /\ DOMAIN rest = 1 .. Len(rest) /\ \A j \in 1 .. Len(rest) : rest[j] \in free
  BY <1>4
<1>7. /\ one \in Seq(SlotSet(b, targets)) /\ Len(one) = n
      /\ \A k \in 1 .. n : one[k].order = claims[k] /\ one[k].level = k
  <2>1. \A k \in 1 .. n : [order |-> claims[k], level |-> k] \in SlotSet(b, targets)
    BY <1>1, <1>2 DEF SlotSet, n
  <2>2. one \in [1 .. n -> SlotSet(b, targets)]
    BY <2>1
  <2>3. QED
    BY <1>1, <2>2
<1>8. /\ two \in Seq(SlotSet(b, targets)) /\ Len(two) = Len(rest)
      /\ \A j \in 1 .. Len(rest) : two[j].order = rest[j] /\ two[j].level = 0
  <2>1. \A j \in 1 .. Len(rest) : [order |-> rest[j], level |-> 0] \in SlotSet(b, targets)
    BY <1>1, <1>3, <1>6 DEF SlotSet, Places, n
  <2>2. two \in [1 .. Len(rest) -> SlotSet(b, targets)]
    BY <2>1
  <2>3. QED
    BY <1>6, <2>2
<1> HIDE DEF one, two, slots
<1>9. /\ slots \in Seq(SlotSet(b, targets)) /\ DOMAIN slots = 1 .. (n + Len(rest))
      /\ \A k \in 1 .. n : slots[k] = one[k]
      /\ \A j \in 1 .. Len(rest) : slots[n + j] = two[j]
  BY <1>5, <1>7, <1>8, Joined
<1>10. Covers(slots, b)
  <2> SUFFICES ASSUME NEW i \in DOMAIN b PROVE \E k \in DOMAIN slots : slots[k].order = i
    BY DEF Covers
  <2>1. CASE i \in Range(claims)
    <3>1. PICK k \in 1 .. n : claims[k] = i
      BY <2>1, <1>2 DEF Range
    <3>2. QED
      BY <3>1, <1>1, <1>6, <1>7, <1>9
  <2>2. CASE i \notin Range(claims)
    <3>1. PICK j \in 1 .. Len(rest) : rest[j] = i
      BY <2>2, <1>4, <1>6 DEF free
    <3>2. n + j \in DOMAIN slots /\ slots[n + j].order = i
      BY <3>1, <1>1, <1>6, <1>8, <1>9
    <3>3. QED
      BY <3>2
  <2>3. QED
    BY <2>1, <2>2
<1>11. ASSUME NEW k \in DOMAIN slots PROVE ByClaim(slots[k], claims)
  <2>1. CASE k \in 1 .. n
    <3>1. slots[k].level = k /\ slots[k].order = claims[k] /\ k # 0
      BY <2>1, <1>7, <1>9
    <3>2. QED
      BY <3>1 DEF ByClaim
  <2>2. CASE k \notin 1 .. n
    <3>1. k - n \in 1 .. Len(rest) /\ n + (k - n) = k
      BY <2>2, <1>1, <1>6, <1>9
    <3>2. slots[k] = two[k - n]
      BY <3>1, <1>9
    <3>3. slots[k].level = 0 /\ slots[k].order \in free
      BY <3>1, <3>2, <1>6, <1>8
    <3>4. QED
      BY <3>3 DEF ByClaim, free
  <2>3. QED
    BY <2>1, <2>2
\* The slots of the levels come first, then those of the leftovers.
<1>12. \A k \in DOMAIN slots : \/ k \in 1 .. n /\ slots[k].order = claims[k]
                               \/ k - n \in 1 .. Len(rest) /\ slots[k].order = rest[k - n]
  <2> TAKE k \in DOMAIN slots
  <2>1. CASE k \in 1 .. n
    BY <2>1, <1>7, <1>9
  <2>2. CASE k \notin 1 .. n
    <3>1. k - n \in 1 .. Len(rest) /\ n + (k - n) = k
      BY <2>2, <1>1, <1>6, <1>9
    <3>2. slots[k] = two[k - n]
      BY <3>1, <1>9
    <3>3. QED
      BY <3>1, <3>2, <1>8
  <2>3. QED
    BY <2>1, <2>2
<1>13. \A k \in 1 .. n, j \in 1 .. Len(rest) : rest[j] # 0 /\ claims[k] # rest[j]
  <2> TAKE k \in 1 .. n, j \in 1 .. Len(rest)
  <2>1. rest[j] \in DOMAIN b /\ rest[j] \notin Range(claims)
    BY <1>6 DEF free
  <2>2. claims[k] \in Range(claims)
    BY <1>2 DEF Range
  <2>3. QED
    BY <2>1, <2>2, <1>1
<1>14. Single(slots)
  <2> SUFFICES ASSUME NEW j \in DOMAIN slots, NEW k \in DOMAIN slots,
                      slots[j].order = slots[k].order, slots[j].order # 0
               PROVE  j = k
    BY DEF Single
  <2>1. CASE j \in 1 .. n /\ slots[j].order = claims[j] /\ k \in 1 .. n /\ slots[k].order = claims[k]
    BY <2>1, <1>2 DEF Apart
  <2>2. CASE /\ j - n \in 1 .. Len(rest) /\ slots[j].order = rest[j - n]
             /\ k - n \in 1 .. Len(rest) /\ slots[k].order = rest[k - n]
    <3>1. j - n = k - n
      BY <2>2, <1>4, <1>6 DEF Apart
    <3>2. j \in Nat /\ k \in Nat
      BY <1>9
    <3>3. QED
      BY <3>1, <3>2, <1>1
  <2>3. QED
    BY <2>1, <2>2, <1>12, <1>13
<1>15. Room(slots, b, targets)
  <2>1. Len(slots) = n + Len(rest) /\ n + Len(rest) \in Nat
    BY <1>1, <1>6, <1>9
  <2> DEFINE none == {k \in 1 .. n : claims[k] = 0}
             some == {k \in 1 .. n : claims[k] # 0}
  <2>2. Empty(slots, Len(slots)) = none
    <3>1. \A k \in 1 .. Len(slots) : slots[k].order = 0 <=> k \in none
      <4> TAKE k \in 1 .. Len(slots)
      <4>1. k \in DOMAIN slots
        BY <2>1, <1>9
      <4>2. CASE k \in 1 .. n
        <5>1. slots[k].order = claims[k]
          BY <4>2, <1>7, <1>9
        <5>2. QED
          BY <5>1, <4>2
      <4>3. CASE k \notin 1 .. n
        <5>1. k - n \in 1 .. Len(rest) /\ slots[k].order = rest[k - n] /\ k > n
          BY <4>1, <4>3, <1>1, <1>12
        <5>2. rest[k - n] # 0
          <6>1. rest[k - n] \in DOMAIN b
            BY <5>1, <1>6 DEF free
          <6>2. QED
            BY <6>1, <1>1
        <5>3. QED
          BY <5>1, <5>2, <4>3
      <4>4. QED
        BY <4>2, <4>3
    <3>2. 1 .. n \subseteq 1 .. Len(slots)
      BY <2>1, <1>1, <1>6
    <3>3. QED
      BY <3>1, <3>2 DEF Empty
  <2>3. IsFiniteSet(none) /\ Cardinality(none) \in Nat
    BY <1>1, PlacesFinite
  <2>4. CASE none = {}
    <3>1. Cardinality(none) = 0
      BY <2>4, FS_EmptySet
    <3>2. QED
      BY <3>1, <2>2, <1>1 DEF Room, Larger, n
  <2>5. CASE none # {}
    <3>1. DOMAIN b \subseteq Range(claims)
      BY <2>5, <1>2 DEF Filled
    <3> DEFINE f == [k \in some |-> claims[k]]
    <3>2. f \in Surjection(some, DOMAIN b)
      <4>1. \A k \in some : f[k] \in DOMAIN b
        BY <1>1, <1>2 DEF Places
      <4>2. \A i \in DOMAIN b : \E k \in some : f[k] = i
        <5> TAKE i \in DOMAIN b
        <5>1. PICK k \in 1 .. n : claims[k] = i
          BY <3>1, <1>2 DEF Range
        <5>2. i # 0
          BY <1>1
        <5>3. QED
          BY <5>1, <5>2
      <4> HIDE DEF some
      <4>3. QED
        BY <4>1, <4>2 DEF Surjection
    <3>3. IsFiniteSet(some) /\ Cardinality(some) \in Nat
      BY <1>1, PlacesFinite
    <3> HIDE DEF f
    <3>4. Cardinality(DOMAIN b) <= Cardinality(some) /\ Cardinality(DOMAIN b) = Len(b)
      <4>1. Cardinality(DOMAIN b) <= Cardinality(some)
        BY <3>2, <3>3, FS_Surjection
      <4>2. QED
        BY <4>1, <1>1, UpTo
    <3>5. Cardinality(some) + Cardinality(none) = n
      <4>1. some \cup none = 1 .. n /\ some \cap none = {}
        OBVIOUS
      <4> HIDE DEF some, none
      <4>2. Cardinality(1 .. n) = Cardinality(some) + Cardinality(none) - Cardinality({})
        BY <2>3, <3>3, <4>1, FS_Union
      <4>3. QED
        BY <4>2, <2>3, <3>3, <1>1, UpTo, FS_EmptySet
    <3> HIDE DEF some, none
    <3>6. Len(b) + Cardinality(none) <= n
      BY <3>3, <3>4, <3>5, <2>3, <1>1
    <3>7. QED
      BY <3>6, <2>2, <2>3, <1>1 DEF Room, Larger, n
  <2>6. QED
    BY <2>4, <2>5
<1>16. QED
  BY <1>9, <1>10, <1>11, <1>14, <1>15 DEF slots, claims

LEMMA SlotsFacts ==
  ASSUME NEW b \in Seq(Order), NEW targets \in Targets
  PROVE  /\ Slots(b, targets) \in Seq(SlotSet(b, targets)) /\ Covers(Slots(b, targets), b)
         /\ Single(Slots(b, targets)) /\ Room(Slots(b, targets), b, targets)
<1>1. CASE Tolerance = 0
  BY <1>1, SlotsByRankFacts DEF Slots
<1>2. CASE Tolerance # 0
  BY <1>2, SlotsByClaimFacts
<1>3. QED
  BY <1>1, <1>2

-----------------------------------------------------------------------------
(* What a pass does, slot by slot.                                         *)

PlacedSet(targets, fee) == {Placed(targets[k], fee) : k \in DOMAIN targets}
Passing(b, targets, fee) ==
  [gone: SUBSET OwnPlaces(b), placed: Seq(PlacedSet(targets, fee)),
   stamps: Seq(0 .. Window), spent: Seq(0 .. Window),
   changed: BOOLEAN, calls: Nat, failed: BOOLEAN]

\* No more cancels in the minute than the budget, and each is in the history too.
Within(list, history) == history = list /\ (Budget > 0 => Len(list) <= Budget)

\* What a pass must cancel.
MustGo(o, known) == Own(o) /\ (StaleTerms(o, known) \/ Expiring(o))
TargetOf(targets, slot) == IF slot.level = 0 THEN NoTarget ELSE targets[slot.level]
Kept(reason) == reason \in {"keep", "suppress"}

LEMMA MustGoCancels ==
  ASSUME NEW o, NEW target, NEW known, MustGo(o, known)
  PROVE  ~Kept(Decide(o, target, known)) /\ ~Budgeted(Decide(o, target, known))
BY DEF MustGo, Kept, Budgeted, Decide

LEMMA PruneKeeps ==
  ASSUME NEW s \in Seq(0 .. Window)
  PROVE  Prune(s) = s
<1>1. Window \in Nat
  BY TimesAssumption
<1>2. s \in Seq(Nat) /\ \A i \in DOMAIN s : s[i] <= Window
  <2> DEFINE T == 0 .. Window
  <2>1. Len(s) \in Nat /\ DOMAIN s = 1 .. Len(s) /\ \A i \in DOMAIN s : s[i] \in T
    <3> HIDE DEF T
    <3>1. s \in Seq(T)
      BY DEF T
    <3>2. QED
      BY <3>1
  <2>2. s \in [1 .. Len(s) -> Nat]
    BY <2>1
  <2>3. QED
    BY <1>1, <2>1, <2>2
<1>3. QED
  BY <1>2, PruneFacts

LEMMA SlotKeeps ==
  ASSUME NEW b, NEW targets \in Targets, NEW fee, NEW known, NEW cut, NEW refused,
         NEW slot \in SlotSet(b, targets), b \in Seq(Order),
         NEW r \in Passing(b, targets, fee), Within(r.stamps, r.spent)
  PROVE  LET q == Slot(b, targets, slot, r, cut, refused, known, fee)
         IN  /\ q \in Passing(b, targets, fee) /\ Within(q.stamps, q.spent)
             /\ r.gone \subseteq q.gone /\ q.gone \subseteq r.gone \cup {slot.order}
             /\ ~q.failed => ~r.failed
             /\ ~q.failed /\ slot.order # 0 /\ MustGo(b[slot.order], known) => slot.order \in q.gone
             /\ slot.order \in q.gone =>
                  \/ slot.order \in r.gone
                  \/ ~Kept(Decide(b[slot.order], TargetOf(targets, slot), known))
<1> DEFINE q == Slot(b, targets, slot, r, cut, refused, known, fee)
           target == TargetOf(targets, slot)
           reason == IF slot.order = 0 THEN "keep" ELSE Decide(b[slot.order], target, known)
           cancels == slot.order # 0 /\ ~Kept(reason) /\ (Budgeted(reason) => CanUseCancelSlot(r.stamps))
           sent == cancels /\ Own(b[slot.order])
           cancelFails == sent /\ r.calls = cut
           calls == r.calls + (IF sent THEN 1 ELSE 0)
           places == Frees(slot, reason, cancels) /\ slot.level # 0 /\ ~cancelFails
           placeFails == places /\ calls = cut
           counted == sent /\ ~cancelFails /\ Budgeted(reason)
           gone == IF sent /\ ~cancelFails THEN r.gone \cup {slot.order} ELSE r.gone
           placed == IF places /\ ~placeFails /\ slot.level \notin refused
                       THEN Append(r.placed, Placed(targets[slot.level], fee)) ELSE r.placed
           list == IF counted THEN Append(Prune(r.stamps), 0) ELSE r.stamps
           history == IF counted THEN Append(r.spent, 0) ELSE r.spent
           changed == r.changed \/ (cancels /\ ~cancelFails) \/ (places /\ ~placeFails)
           made == calls + (IF places THEN 1 ELSE 0)
           failed == cancelFails \/ placeFails
<1>1. /\ r.gone \subseteq OwnPlaces(b) /\ r.placed \in Seq(PlacedSet(targets, fee))
      /\ r.stamps \in Seq(0 .. Window) /\ r.spent \in Seq(0 .. Window)
      /\ r.changed \in BOOLEAN /\ r.calls \in Nat /\ r.failed \in BOOLEAN
  BY DEF Passing
<1>2. CASE r.failed
  BY <1>2 DEF Slot
<1>3. ASSUME ~r.failed
      PROVE  q = [gone |-> gone, placed |-> placed, stamps |-> list, spent |-> history,
                  changed |-> changed, calls |-> made, failed |-> failed]
  <2>1. slot.level # 0 => target = targets[slot.level]
    BY DEF TargetOf
  <2>2. QED
    BY <1>3, <2>1 DEF Slot, TargetOf, Kept
<1> HIDE DEF q
<1>4. slot.order \in Places(b) /\ slot.level \in 0 .. Len(targets)
  BY DEF SlotSet
<1>5. gone \subseteq OwnPlaces(b)
  <2>1. sent => slot.order \in DOMAIN b /\ Own(b[slot.order])
    BY <1>4 DEF Places
  <2>2. sent => slot.order \in OwnPlaces(b)
    BY <2>1 DEF OwnPlaces
  <2> HIDE DEF sent, cancelFails
  <2>3. QED
    BY <1>1, <2>2
<1>6. placed \in Seq(PlacedSet(targets, fee))
  <2>1. places => slot.level \in DOMAIN targets
    BY <1>4, TargetFacts
  <2>2. places => Placed(targets[slot.level], fee) \in PlacedSet(targets, fee)
    BY <2>1 DEF PlacedSet
  <2> HIDE DEF places, placeFails
  <2>3. QED
    BY <1>1, <2>2
<1>7. list \in Seq(0 .. Window) /\ history \in Seq(0 .. Window) /\ Within(list, history)
  <2>1. Prune(r.stamps) = r.stamps
    BY <1>1, PruneKeeps
  <2>2. r.spent = r.stamps /\ (Budget > 0 => Len(r.stamps) <= Budget) /\ Len(r.stamps) \in Nat
    BY <1>1 DEF Within
  <2>3. Budget \in Nat /\ Window \in Nat
    BY TimesAssumption
  <2>4. CASE counted
    <3>1. Budget = 0 \/ Len(r.stamps) < Budget
      BY <2>4, <2>1 DEF CanUseCancelSlot
    <3> HIDE DEF counted
    <3>2. list = Append(r.stamps, 0) /\ history = Append(r.stamps, 0)
      BY <2>4, <2>1, <2>2
    <3>3. Append(r.stamps, 0) \in Seq(0 .. Window) /\ Len(Append(r.stamps, 0)) = Len(r.stamps) + 1
      BY <1>1, <2>3
    <3>4. Budget > 0 => Len(list) <= Budget
      BY <3>1, <3>2, <3>3, <2>2, <2>3
    <3>5. QED
      BY <3>2, <3>3, <3>4 DEF Within
  <2>5. CASE ~counted
    <3> HIDE DEF counted
    <3>1. list = r.stamps /\ history = r.spent
      BY <2>5
    <3>2. QED
      BY <3>1, <1>1
  <2>6. QED
    BY <2>4, <2>5
<1>8. changed \in BOOLEAN /\ failed \in BOOLEAN /\ made \in Nat
  BY <1>1
<1>9. r.gone \subseteq gone /\ gone \subseteq r.gone \cup {slot.order}
  OBVIOUS
<1>10. ~failed /\ slot.order # 0 /\ MustGo(b[slot.order], known) => slot.order \in gone
  <2> SUFFICES ASSUME ~failed, slot.order # 0, MustGo(b[slot.order], known) PROVE slot.order \in gone
    OBVIOUS
  <2>1. ~Kept(reason) /\ ~Budgeted(reason) /\ Own(b[slot.order])
    BY MustGoCancels DEF MustGo
  <2>2. sent /\ ~cancelFails
    BY <2>1
  <2> HIDE DEF sent, cancelFails
  <2>3. QED
    BY <2>2
<1>11. slot.order \in gone => slot.order \in r.gone \/ ~Kept(Decide(b[slot.order], target, known))
  OBVIOUS
<1> HIDE DEF gone, placed, list, history, changed, made, failed, target
<1>12. CASE ~r.failed
  <2>1. q \in Passing(b, targets, fee)
    BY <1>3, <1>5, <1>6, <1>7, <1>8, <1>12 DEF Passing
  <2>2. /\ q.gone = gone /\ q.stamps = list /\ q.spent = history /\ q.failed = failed
    BY <1>3, <1>12
  <2>3. QED
    BY <2>1, <2>2, <1>7, <1>9, <1>10, <1>11, <1>12 DEF q, target
<1>13. CASE r.failed
  BY <1>2, <1>13
<1>14. QED
  BY <1>12, <1>13

PassStart ==
  [gone |-> {}, placed |-> <<>>, stamps |-> stamps, spent |-> spent,
   changed |-> FALSE, calls |-> 0, failed |-> FALSE]
IsDone(g, b, targets, cut, refused, known, fee) ==
  g = [k \in 0 .. Len(Slots(b, targets)) |->
         IF k = 0 THEN PassStart
         ELSE Slot(b, targets, Slots(b, targets)[k], g[k - 1], cut, refused, known, fee)]

LEMMA PassIs ==
  ASSUME NEW b, NEW targets, NEW cut, NEW refused, NEW known, NEW fee
  PROVE  LET done == CHOOSE g : IsDone(g, b, targets, cut, refused, known, fee)
         IN  Pass(b, targets, cut, refused, known, fee) = done[Len(Slots(b, targets))]
BY DEF Pass, IsDone, PassStart

\* What the first k slots of a pass have done.
PassInv(b, targets, known, fee, r, k) ==
  /\ r \in Passing(b, targets, fee) /\ Within(r.stamps, r.spent)
  /\ ~r.failed => \A j \in 1 .. k :
       LET i == Slots(b, targets)[j].order IN i # 0 /\ MustGo(b[i], known) => i \in r.gone
  /\ \A i \in r.gone : \E j \in 1 .. k :
       LET slot == Slots(b, targets)[j]
       IN  slot.order = i /\ ~Kept(Decide(b[i], TargetOf(targets, slot), known))

LEMMA PassStepKeeps ==
  ASSUME NEW b \in Seq(Order), NEW targets \in Targets, NEW cut, NEW refused, NEW known, NEW fee,
         NEW k \in DOMAIN Slots(b, targets), NEW r, PassInv(b, targets, known, fee, r, k - 1)
  PROVE  PassInv(b, targets, known, fee,
                 Slot(b, targets, Slots(b, targets)[k], r, cut, refused, known, fee), k)
<1> DEFINE slots == Slots(b, targets)
           slot == slots[k]
           q == Slot(b, targets, slot, r, cut, refused, known, fee)
           target(j) == TargetOf(targets, slots[j])
           must(j) == slots[j].order # 0 /\ MustGo(b[slots[j].order], known)
           off(j) == ~Kept(Decide(b[slots[j].order], target(j), known))
<1>1. slots \in Seq(SlotSet(b, targets))
  BY SlotsFacts
<1> HIDE DEF slots
<1>2. k \in 1 .. Len(slots) /\ Len(slots) \in Nat
  BY <1>1 DEF slots
<1>3. slot \in SlotSet(b, targets)
  BY <1>1, <1>2
<1>4. /\ r \in Passing(b, targets, fee) /\ Within(r.stamps, r.spent)
      /\ ~r.failed => \A j \in 1 .. k - 1 : must(j) => slots[j].order \in r.gone
      /\ \A i \in r.gone : \E j \in 1 .. k - 1 : slots[j].order = i /\ off(j)
  <2>1. \A j \in 1 .. k - 1, i \in r.gone :
          slots[j].order = i /\ ~Kept(Decide(b[i], TargetOf(targets, slots[j]), known))
            => slots[j].order = i /\ off(j)
    OBVIOUS
  <2>2. /\ r \in Passing(b, targets, fee) /\ Within(r.stamps, r.spent)
        /\ ~r.failed => \A j \in 1 .. k - 1 : must(j) => slots[j].order \in r.gone
        /\ \A i \in r.gone : \E j \in 1 .. k - 1 :
             slots[j].order = i /\ ~Kept(Decide(b[i], TargetOf(targets, slots[j]), known))
    BY DEF PassInv, slots
  <2>3. QED
    BY <2>1, <2>2
<1> HIDE DEF slot
<1>5. /\ q \in Passing(b, targets, fee) /\ Within(q.stamps, q.spent)
      /\ r.gone \subseteq q.gone /\ q.gone \subseteq r.gone \cup {slot.order}
      /\ ~q.failed => ~r.failed
      /\ ~q.failed /\ slot.order # 0 /\ MustGo(b[slot.order], known) => slot.order \in q.gone
      /\ slot.order \in q.gone =>
           \/ slot.order \in r.gone
           \/ ~Kept(Decide(b[slot.order], TargetOf(targets, slot), known))
  BY <1>3, <1>4, SlotKeeps
<1>6. (must(k) <=> slot.order # 0 /\ MustGo(b[slot.order], known)) /\ slots[k].order = slot.order
      /\ (off(k) <=> ~Kept(Decide(b[slot.order], TargetOf(targets, slot), known)))
  BY DEF slot
<1> HIDE DEF must, off, q
<1>7. \A j \in 1 .. k : j \in 1 .. k - 1 \/ j = k
  BY <1>2
<1>8. \A j \in 1 .. k - 1 : j \in 1 .. k
  BY <1>2
<1>9. ~q.failed => \A j \in 1 .. k : must(j) => slots[j].order \in q.gone
  BY <1>4, <1>5, <1>6, <1>7
<1>10. \A i \in q.gone : \E j \in 1 .. k : slots[j].order = i /\ off(j)
  <2> SUFFICES ASSUME NEW i \in q.gone PROVE \E j \in 1 .. k : slots[j].order = i /\ off(j)
    OBVIOUS
  <2>1. CASE i \in r.gone
    BY <2>1, <1>4, <1>8
  <2>2. CASE i \notin r.gone
    <3>1. i = slot.order /\ off(k) /\ k \in 1 .. k
      BY <2>2, <1>2, <1>5, <1>6
    <3>2. QED
      BY <3>1, <1>6
  <2>3. QED
    BY <2>1, <2>2
<1>11. \A i \in q.gone : \E j \in 1 .. k :
         slots[j].order = i /\ ~Kept(Decide(b[i], TargetOf(targets, slots[j]), known))
  BY <1>10 DEF off
<1>12. PassInv(b, targets, known, fee, q, k)
  BY <1>5, <1>9, <1>11 DEF PassInv, must, slots
<1>13. QED
  BY <1>12 DEF q, slot, slots

\* A pass is its slots one after the other.
LEMMA PassRuns ==
  ASSUME NEW b \in Seq(Order), NEW targets \in Targets, NEW cut, NEW refused, NEW known, NEW fee,
         stamps \in Seq(0 .. Window), Within(stamps, spent)
  PROVE  /\ PassStart \in Passing(b, targets, fee) /\ Within(PassStart.stamps, PassStart.spent)
         /\ \E done :
              /\ done[0] = PassStart
              /\ \A k \in DOMAIN Slots(b, targets) :
                   done[k] = Slot(b, targets, Slots(b, targets)[k], done[k - 1], cut, refused, known, fee)
              /\ Pass(b, targets, cut, refused, known, fee) = done[Len(Slots(b, targets))]
<1> DEFINE slots == Slots(b, targets)
           n == Len(slots)
           done == CHOOSE g : IsDone(g, b, targets, cut, refused, known, fee)
           D == {r \in Passing(b, targets, fee) : Within(r.stamps, r.spent)}
           G == [k \in 1 .. n |-> [r \in D |-> Slot(b, targets, slots[k], r, cut, refused, known, fee)]]
<1>1. slots \in Seq(SlotSet(b, targets))
  BY SlotsFacts
<1> HIDE DEF slots
<1>2. n \in Nat /\ DOMAIN slots = 1 .. n /\ \A k \in 1 .. n : slots[k] \in SlotSet(b, targets)
  BY <1>1
<1> HIDE DEF n
<1>3. \A k \in 1 .. n, r \in D : Slot(b, targets, slots[k], r, cut, refused, known, fee) \in D
  <2> TAKE k \in 1 .. n, r \in D
  <2> DEFINE q == Slot(b, targets, slots[k], r, cut, refused, known, fee)
  <2>1. q \in Passing(b, targets, fee) /\ Within(q.stamps, q.spent)
    BY <1>2, SlotKeeps
  <2>2. QED
    BY <2>1
<1>4. PassStart \in D
  <2>1. /\ spent = stamps /\ {} \subseteq OwnPlaces(b) /\ <<>> \in Seq(PlacedSet(targets, fee))
    BY DEF Within
  <2>2. QED
    BY <2>1 DEF PassStart, Passing
<1> HIDE DEF D
<1>5. G \in [1 .. n -> [D -> D]]
  BY <1>3
<1>6. PICK g \in [0 .. n -> D] : Stepwise(g, n, PassStart, G)
  BY <1>2, <1>4, <1>5, StepwiseExists
<1>7. IsDone(g, b, targets, cut, refused, known, fee)
  <2>1. \A k \in 1 .. n : G[k][g[k - 1]] = Slot(b, targets, slots[k], g[k - 1], cut, refused, known, fee)
    BY <1>2, <1>6
  <2>2. \A k \in 0 .. n : g[k] = IF k = 0 THEN PassStart ELSE G[k][g[k - 1]]
    BY <1>6 DEF Stepwise
  <2>3. g = [k \in 0 .. n |-> g[k]]
    BY <1>6
  <2> HIDE DEF G
  <2>4. \A k \in 0 .. n :
          g[k] = IF k = 0 THEN PassStart ELSE Slot(b, targets, slots[k], g[k - 1], cut, refused, known, fee)
    BY <1>2, <2>1, <2>2
  <2>5. QED
    BY <2>3, <2>4 DEF IsDone, n, slots
<1>8. IsDone(done, b, targets, cut, refused, known, fee)
  BY <1>7
<1> HIDE DEF done
<1>9. /\ done[0] = PassStart
      /\ \A k \in 1 .. n : done[k] = Slot(b, targets, slots[k], done[k - 1], cut, refused, known, fee)
  <2> DEFINE F(r, k) == Slot(b, targets, slots[k], r, cut, refused, known, fee)
  <2>1. done = [k \in 0 .. n |-> IF k = 0 THEN PassStart ELSE F(done[k - 1], k)]
    BY <1>8 DEF IsDone, n, slots
  <2> HIDE DEF F
  <2>2. done[0] = PassStart /\ \A k \in 1 .. n : done[k] = F(done[k - 1], k)
    BY <1>2, <2>1
  <2>3. QED
    BY <2>2 DEF F
<1>10. Pass(b, targets, cut, refused, known, fee) = done[n]
  BY PassIs DEF done, n, slots
<1> HIDE DEF G
<1>11. QED
  BY <1>2, <1>4, <1>9, <1>10 DEF D, n, slots

LEMMA PassFacts ==
  ASSUME NEW b \in Seq(Order), NEW targets \in Targets, NEW cut, NEW refused, NEW known, NEW fee,
         stamps \in Seq(0 .. Window), Within(stamps, spent)
  PROVE  PassInv(b, targets, known, fee,
                 Pass(b, targets, cut, refused, known, fee), Len(Slots(b, targets)))
<1> DEFINE slots == Slots(b, targets)
           n == Len(slots)
<1>1. slots \in Seq(SlotSet(b, targets))
  BY SlotsFacts
<1>2. n \in Nat /\ DOMAIN slots = 1 .. n
  BY <1>1
<1>3. PassStart \in Passing(b, targets, fee) /\ Within(PassStart.stamps, PassStart.spent)
  BY PassRuns
<1>4. PICK done :
        /\ done[0] = PassStart
        /\ \A k \in DOMAIN slots :
             done[k] = Slot(b, targets, slots[k], done[k - 1], cut, refused, known, fee)
        /\ Pass(b, targets, cut, refused, known, fee) = done[n]
  BY PassRuns
<1> HIDE DEF slots, n
<1> DEFINE P == {k \in 0 .. n : PassInv(b, targets, known, fee, done[k], k)}
<1>5. 0 \in P
  <2>1. PassStart.gone = {}
    BY DEF PassStart
  <2>2. PassInv(b, targets, known, fee, PassStart, 0)
    BY <1>3, <2>1 DEF PassInv
  <2>3. QED
    BY <1>2, <1>4, <2>2
<1>6. \A k \in 1 .. n : k - 1 \in P => k \in P
  <2> SUFFICES ASSUME NEW k \in 1 .. n, PassInv(b, targets, known, fee, done[k - 1], k - 1)
               PROVE  PassInv(b, targets, known, fee, done[k], k)
    BY <1>2
  <2>1. k \in DOMAIN Slots(b, targets)
    BY <1>2 DEF slots
  <2>2. done[k] = Slot(b, targets, Slots(b, targets)[k], done[k - 1], cut, refused, known, fee)
    BY <1>2, <1>4 DEF slots
  <2>3. QED
    BY <2>1, <2>2, PassStepKeeps
<1> HIDE DEF P
<1>7. \A k \in 0 .. n : k \in P
  BY <1>2, <1>5, <1>6, Climb
<1>8. PassInv(b, targets, known, fee, done[n], n)
  BY <1>2, <1>7 DEF P
<1>9. QED
  BY <1>8, <1>4 DEF n, slots

-----------------------------------------------------------------------------
(* The invariant.                                                          *)

\* The parts of TypeOK that are not lists, and how long the side is dark: no longer than since
\* the last cycle.
ClockKept ==
  /\ up \in BOOLEAN /\ lapsed \in BOOLEAN
  /\ listed \in Fees /\ cache \in Fees /\ spec \in Fees
  /\ quiet \in 0 .. Never /\ foreign \in 0 .. MaxForeign /\ calm \in 0 .. Margin
  /\ wait \in 0 .. Poll /\ dark \in Nat /\ dark <= wait

StampsKept == stamps \in Seq(0 .. Window) /\ Within(stamps, spent)

\* How long an order may have rested under terms the bot would not sign: up to Refresh when the
\* last cycle left it, for a cycle that the throttle stops has seen the order no longer than the
\* quotes have been quiet.
InTerms(o) ==
  /\ o.left > 0 /\ (o.prot => o.bad = 0)
  /\ o.bad <= Refresh + Poll
  /\ up /\ StaleTerms(o, spec) => o.bad <= Refresh + wait /\ (quiet < Refresh => o.bad <= quiet)
Sound == {o \in Order : InTerms(o)}
BookKept == book \in Seq(Sound)

IInv == ClockKept /\ StampsKept /\ BookKept

LEMMA ConstantFacts ==
  /\ Life \in Nat /\ Margin \in Nat /\ Slack \in Nat /\ Poll \in Nat /\ Refresh \in Nat
  /\ MaxAge \in Nat /\ Window \in Nat /\ Budget \in Nat /\ Tolerance \in Nat /\ MaxForeign \in Nat
  /\ 0 < Poll /\ 0 < Margin /\ 2 * Margin < Life
  /\ Long \in Nat /\ Never \in Nat /\ Refresh < Long /\ Long < Never
  /\ \A fee \in Fees : fee \in Nat
<1>1. /\ Life \in Nat /\ Margin \in Nat /\ Slack \in Nat /\ Poll \in Nat /\ Refresh \in Nat
      /\ MaxAge \in Nat /\ Window \in Nat /\ Budget \in Nat
      /\ 0 < Poll /\ 0 < Margin /\ 2 * Margin < Life
  BY TimesAssumption
<1>2. Tolerance \in Nat /\ MaxForeign \in Nat
  BY KnobsAssumption
<1>3. Long \in Nat /\ Never \in Nat /\ Refresh < Long /\ Long < Never
  BY <1>1 DEF Long, Never, Larger
<1>4. \A fee \in Fees : fee \in Nat
  BY FeesAssumption
<1>5. QED
  BY <1>1, <1>2, <1>3, <1>4

-----------------------------------------------------------------------------
(* Books that are made of others.                                          *)

LEMMA WithoutIn ==
  ASSUME NEW T, NEW b \in Seq(T), NEW gone, NEW U, \A i \in DOMAIN b \ gone : b[i] \in U
  PROVE  Without(b, gone) \in Seq(U)
<1> DEFINE places == DOMAIN b \ gone
<1>1. places \in SUBSET DOMAIN b /\ \A i \in places : b[i] \in U
  OBVIOUS
<1>2. Without(b, gone) = At(b, places)
  BY DEF Without
<1> HIDE DEF places
<1>3. QED
  BY <1>1, <1>2, AtTyped

LEMMA ExcusedIn ==
  ASSUME NEW T, NEW b \in Seq(T), NEW U, \A o \in T : [o EXCEPT !.bad = 0] \in U
  PROVE  Excused(b) \in Seq(U)
<1>1. Len(b) \in Nat /\ DOMAIN b = 1 .. Len(b) /\ \A i \in DOMAIN b : b[i] \in T
  OBVIOUS
<1>2. \A i \in 1 .. Len(b) : [b[i] EXCEPT !.bad = 0] \in U
  BY <1>1
<1>3. Excused(b) \in [1 .. Len(b) -> U]
  BY <1>1, <1>2 DEF Excused
<1>4. QED
  BY <1>1, <1>3

LEMMA BrokenIn ==
  ASSUME NEW T, NEW b \in Seq(T), NEW gone, NEW U, \A o \in T : [o EXCEPT !.bad = 0] \in U
  PROVE  Excused(Without(b, gone)) \in Seq(U)
<1>1. Without(b, gone) \in Seq(T)
  BY WithoutIn
<1>2. QED
  BY <1>1, ExcusedIn

\* After a raise of the fee only what the cancel-all spares is listed.
LEMMA ListedIn ==
  ASSUME NEW T, book \in Seq(T), NEW fee
  PROVE  Listed(fee) \in Seq({o \in T : fee > spec => o.prot})
<1> DEFINE U == {o \in T : fee > spec => o.prot}
<1>1. Len(book) \in Nat /\ DOMAIN book = 1 .. Len(book) /\ \A i \in DOMAIN book : book[i] \in T
  OBVIOUS
<1>2. CASE fee > spec
  <2>1. \A i \in DOMAIN book \ OwnPlaces(book) : book[i] \in U
    BY <1>1 DEF OwnPlaces, Own
  <2> HIDE DEF U
  <2>2. Without(book, OwnPlaces(book)) \in Seq(U)
    BY <2>1, WithoutIn
  <2>3. QED
    BY <1>2, <2>2 DEF Listed, U
<1>3. CASE ~(fee > spec)
  <2>1. \A i \in DOMAIN book : book[i] \in U
    BY <1>1, <1>3
  <2> HIDE DEF U
  <2>2. book \in [1 .. Len(book) -> U]
    BY <1>1, <2>1
  <2>3. book \in Seq(U)
    BY <1>1, <2>2
  <2>4. QED
    BY <1>3, <2>3 DEF Listed, U
<1>4. QED
  BY <1>2, <1>3

\* A cycle works on orders that are sound.
LEMMA ListedSound ==
  ASSUME BookKept, NEW fee
  PROVE  /\ Listed(fee) \in Seq({o \in Sound : fee > spec => o.prot})
         /\ Listed(fee) \in Seq(Order)
<1> DEFINE U == {o \in Sound : fee > spec => o.prot}
           b == Listed(fee)
<1>1. b \in Seq(U)
  BY ListedIn DEF BookKept
<1>2. \A o \in U : o \in Order
  BY DEF Sound
<1> HIDE DEF U, b
<1>3. b \in Seq(Order)
  <2>1. Len(b) \in Nat /\ DOMAIN b = 1 .. Len(b) /\ \A i \in DOMAIN b : b[i] \in U
    BY <1>1
  <2>2. b \in [1 .. Len(b) -> Order]
    BY <1>1, <1>2, <2>1
  <2>3. QED
    BY <2>1, <2>2
<1>4. QED
  BY <1>1, <1>3 DEF U, b

LEMMA OrderFacts ==
  ASSUME NEW o \in Order
  PROVE  /\ o.price \in Nat /\ o.size \in Nat /\ o.left \in Nat /\ o.post \in BOOLEAN
         /\ o.fee \in Nat /\ o.prot \in BOOLEAN /\ o.bad \in Nat
BY DEF Order

LEMMA SoundNext ==
  ASSUME NEW o \in Order, o.left > 0, o.prot => o.bad = 0, o.bad <= Refresh + Poll,
         up' /\ StaleTerms(o, spec') => o.bad <= Refresh + wait' /\ (quiet' < Refresh => o.bad <= quiet')
  PROVE  o \in Sound'
BY DEF Sound, InTerms

\* An order under terms that hold, or excused, is sound whatever else changes.
LEMMA FreshSound ==
  ASSUME NEW o \in Order, o.left > 0, o.bad = 0, ClockKept'
  PROVE  o \in Sound'
<1>1. wait' \in Nat /\ quiet' \in Nat
  BY ConstantFacts DEF ClockKept
<1>2. Refresh \in Nat /\ Poll \in Nat
  BY ConstantFacts
<1>3. 0 <= Refresh + Poll /\ 0 <= Refresh + wait' /\ 0 <= quiet'
  <2>1. 0 <= Refresh + Poll
    BY <1>2
  <2>2. \A w \in Nat : 0 <= Refresh + w
    BY <1>2
  <2>3. 0 <= quiet'
    BY <1>1
  <2>4. QED
    BY <1>1, <2>1, <2>2, <2>3
<1>4. o.bad <= Refresh + Poll /\ o.bad <= Refresh + wait' /\ o.bad <= quiet'
  BY <1>3
<1>5. QED
  BY <1>4, SoundNext

LEMMA ExcusedSound ==
  ASSUME NEW o \in Order, o.left > 0, ClockKept'
  PROVE  [o EXCEPT !.bad = 0] \in Sound'
<1> DEFINE e == [o EXCEPT !.bad = 0]
<1>1. e \in Order /\ e.bad = 0 /\ e.left = o.left
  BY DEF Order
<1> HIDE DEF e
<1>2. e \in Sound'
  BY <1>1, FreshSound
<1>3. QED
  BY <1>2 DEF e

-----------------------------------------------------------------------------
(* Steps of the loop.                                                      *)

LEMMA ScheduleFacts ==
  ASSUME ClockKept, NEW fee \in Schedule
  PROVE  fee \in Fees /\ fee \in Nat
BY ConstantFacts DEF Schedule, ClockKept

\* A cycle that ends in an error.
LEMMA BrokenKeeps ==
  ASSUME IInv, NEW fee \in Schedule, NEW gone, NEW b, b = book \/ b = Listed(fee),
         StartCycle(fee), Broken(b, gone), cache' = fee, UNCHANGED <<stamps, quiet, spent>>
  PROVE  IInv'
<1>1. ClockKept'
  <2>1. /\ up' = up /\ listed' = listed /\ foreign' = foreign /\ lapsed' = lapsed /\ quiet' = quiet
        /\ cache' = fee /\ spec' = fee /\ wait' = 0 /\ calm' = 0 /\ dark' = 0
    BY DEF StartCycle, Broken
  <2>2. ClockKept /\ fee \in Fees
    BY ScheduleFacts DEF IInv
  <2>3. QED
    BY <2>1, <2>2, ConstantFacts DEF ClockKept
<1>2. StampsKept'
  BY DEF IInv, StampsKept, Within
<1>3. BookKept'
  <2> DEFINE T == {o \in Order : o.left > 0}
  <2>1. b \in Seq(T)
    <3>1. \A o \in Sound : o \in T
      BY DEF Sound, InTerms
    <3>2. book \in Seq(Sound) /\ Listed(fee) \in Seq({o \in Sound : fee > spec => o.prot})
      BY ListedSound DEF IInv, BookKept
    <3> DEFINE U == {o \in Sound : fee > spec => o.prot}
    <3>3. \A o \in U : o \in T
      BY <3>1
    <3> HIDE DEF T, U
    <3>4. book \in Seq(T)
      <4>1. book \in [1 .. Len(book) -> T] /\ Len(book) \in Nat
        BY <3>1, <3>2
      <4>2. QED
        BY <4>1
    <3>5. Listed(fee) \in Seq(T)
      <4>1. Listed(fee) \in Seq(U)
        BY <3>2 DEF U
      <4>2. Listed(fee) \in [1 .. Len(Listed(fee)) -> T] /\ Len(Listed(fee)) \in Nat
        BY <3>3, <4>1
      <4>3. QED
        BY <4>2
    <3>6. QED
      BY <3>4, <3>5
  <2>2. \A o \in T : [o EXCEPT !.bad = 0] \in Sound'
    BY <1>1, ExcusedSound
  <2> HIDE DEF T
  <2>3. Excused(Without(b, gone)) \in Seq(Sound')
    BY <2>1, <2>2, BrokenIn
  <2>4. book' = Excused(Without(b, gone))
    BY DEF Broken
  <2>5. QED
    BY <2>3, <2>4 DEF BookKept
<1>4. QED
  BY <1>1, <1>2, <1>3 DEF IInv

LEMMA FeeCancelFailsKeeps ==
  ASSUME IInv, NEW fee \in Schedule, FeeCancelFails(fee)
  PROVE  IInv'
<1>1. PICK gone \in SUBSET OwnPlaces(book) : Broken(book, gone)
  BY DEF FeeCancelFails
<1>2. StartCycle(fee) /\ cache' = fee /\ UNCHANGED <<stamps, quiet, spent>>
  BY DEF FeeCancelFails
<1>3. QED
  BY <1>1, <1>2, BrokenKeeps

LEMMA LoadFailsKeeps ==
  ASSUME IInv, NEW fee \in Schedule, LoadFails(fee)
  PROVE  IInv'
BY BrokenKeeps DEF LoadFails

\* What a cycle that gets through keeps of the clock, with the history it sets.
LEMMA CycleClock ==
  ASSUME ClockKept, NEW fee \in Schedule, StartCycle(fee), cache' \in Fees, dark' = 0,
         calm' = 0 \/ calm' = calm, quiet' = 0 \/ quiet' = quiet
  PROVE  ClockKept'
<1>1. /\ up' = up /\ listed' = listed /\ foreign' = foreign /\ lapsed' = lapsed
      /\ spec' = fee /\ wait' = 0 /\ fee \in Fees
  BY ScheduleFacts DEF StartCycle
<1>2. /\ up \in BOOLEAN /\ lapsed \in BOOLEAN /\ listed \in Fees
      /\ quiet \in 0 .. Never /\ foreign \in 0 .. MaxForeign /\ calm \in 0 .. Margin
  BY DEF ClockKept
<1>3. quiet' \in 0 .. Never /\ calm' \in 0 .. Margin
  BY <1>2, ConstantFacts
<1>4. QED
  BY <1>1, <1>2, <1>3, ConstantFacts DEF ClockKept

LEMMA AgeHaltsKeeps ==
  ASSUME IInv, NEW fee \in Schedule, AgeHalts(fee)
  PROVE  IInv'
<1> DEFINE b == Listed(fee)
<1>1. StartCycle(fee) /\ cache' = fee /\ UNCHANGED <<stamps, quiet, spent>> /\ TooOld(b)
  BY DEF AgeHalts
<1>2. ASSUME NEW gone, Broken(b, gone) PROVE IInv'
  BY <1>1, <1>2, BrokenKeeps
<1>3. CASE book' = Without(b, OwnPlaces(b)) /\ dark' = Unlit(b) /\ calm' = calm
  <2> DEFINE U == {o \in Sound : fee > spec => o.prot}
  <2>1. b \in Seq(U) /\ b \in Seq(Order)
    BY ListedSound DEF IInv
  <2>2. dark' = 0
    <3>1. Len(b) > 0
      BY <1>1 DEF TooOld
    <3>2. b # <<>>
      BY <3>1
    <3>3. QED
      BY <1>3, <3>2 DEF Unlit
  <2>3. ClockKept'
    BY <1>1, <1>3, <2>2, ScheduleFacts, CycleClock DEF IInv
  <2>4. \A i \in DOMAIN b \ OwnPlaces(b) : b[i] \in Sound'
    <3> SUFFICES ASSUME NEW i \in DOMAIN b \ OwnPlaces(b) PROVE b[i] \in Sound'
      OBVIOUS
    <3> DEFINE o == b[i]
    <3>1. o.prot
      BY DEF OwnPlaces, Own
    <3>2. o \in U
      <4> HIDE DEF U, b
      <4>1. QED
        BY <2>1
    <3>3. o \in Order /\ o.left > 0 /\ o.bad = 0
      BY <3>1, <3>2 DEF Sound, InTerms
    <3> HIDE DEF o
    <3>4. o \in Sound'
      BY <3>3, <2>3, FreshSound
    <3>5. QED
      BY <3>4 DEF o
  <2> HIDE DEF b
  <2>5. BookKept'
    <3>1. Without(b, OwnPlaces(b)) \in Seq(Sound')
      BY <2>1, <2>4, WithoutIn
    <3>2. QED
      BY <3>1, <1>3 DEF BookKept
  <2>6. StampsKept'
    BY <1>1 DEF IInv, StampsKept, Within
  <2>7. QED
    BY <2>3, <2>5, <2>6 DEF IInv
<1>4. QED
  BY <1>2, <1>3 DEF AgeHalts

LEMMA ThrottledKeeps ==
  ASSUME IInv, NEW fee \in Schedule, Throttled(fee)
  PROVE  IInv'
<1> DEFINE b == Listed(fee)
           U == {o \in Sound : fee > spec => o.prot}
<1>1. /\ StartCycle(fee) /\ cache' = fee /\ UNCHANGED <<stamps, quiet, spent, calm>>
      /\ Throttles(b) /\ book' = b /\ dark' = Unlit(b)
  BY DEF Throttled
<1>2. b \in Seq(U) /\ b \in Seq(Order)
  BY ListedSound DEF IInv
<1>3. dark' = 0
  <2>1. b # <<>>
    BY <1>1 DEF Throttles
  <2>2. QED
    BY <1>1, <2>1 DEF Unlit
<1>4. ClockKept'
  BY <1>1, <1>3, ScheduleFacts, CycleClock DEF IInv
<1>5. ASSUME NEW o \in U PROVE o \in Sound'
  <2>1. o \in Order /\ o.left > 0 /\ (o.prot => o.bad = 0) /\ o.bad <= Refresh + Poll
    BY DEF Sound, InTerms
  <2>2. quiet' = quiet /\ quiet < Refresh /\ spec' = fee /\ up' = up /\ up /\ wait' = 0
    BY <1>1 DEF Throttles, StartCycle
  <2>3. fee \in Nat /\ spec \in Nat /\ quiet \in Nat
    BY ScheduleFacts, ConstantFacts DEF IInv, ClockKept
  <2>4. o.bad \in Nat /\ o.fee \in Nat /\ o.prot \in BOOLEAN
    BY <2>1, OrderFacts
  <2>5. CASE o.prot
    <3>1. o.bad = 0
      BY <2>1, <2>5
    <3>2. QED
      BY <2>1, <3>1, <1>4, FreshSound
  <2>6. CASE ~o.prot
    <3>1. fee <= spec
      BY <2>3, <2>6
    <3>2. StaleTerms(o, fee) => StaleTerms(o, spec)
      BY <3>1, <2>3, <2>4 DEF StaleTerms
    <3>3. StaleTerms(o, spec) => o.bad <= quiet
      BY <2>2 DEF Sound, InTerms
    <3>4. StaleTerms(o, fee) => o.bad <= quiet /\ o.bad <= Refresh + 0
      BY <3>2, <3>3, <2>2, <2>3, <2>4, ConstantFacts
    <3>5. QED
      BY <2>1, <2>2, <3>4, SoundNext
  <2>7. QED
    BY <2>5, <2>6
<1> HIDE DEF b, U
<1>6. BookKept'
  <2>1. Len(b) \in Nat /\ b \in [1 .. Len(b) -> Sound']
    BY <1>2, <1>5
  <2>2. b \in Seq(Sound')
    BY <2>1
  <2>3. QED
    BY <2>2, <1>1 DEF BookKept
<1>7. StampsKept'
  BY <1>1 DEF IInv, StampsKept, Within
<1>8. QED
  BY <1>4, <1>6, <1>7 DEF IInv

-----------------------------------------------------------------------------
(* A pass over the listed book.                                            *)

LEMMA Widens ==
  ASSUME NEW T, NEW s \in Seq(T), NEW U, \A x \in T : x \in U
  PROVE  s \in Seq(U)
<1>1. Len(s) \in Nat /\ s \in [1 .. Len(s) -> U]
  OBVIOUS
<1>2. QED
  BY <1>1

LEMMA LadderFacts ==
  ASSUME NEW targets \in Ladders
  PROVE  targets \in Targets
BY LaddersAssumption DEF Targets, Rung

LEMMA PlacedFacts ==
  ASSUME NEW targets \in Targets, NEW fee \in Nat, NEW o \in PlacedSet(targets, fee)
  PROVE  o \in Order /\ o.left = Life /\ o.left > 0 /\ o.bad = 0 /\ Own(o)
<1>1. PICK k \in DOMAIN targets : o = Placed(targets[k], fee)
  BY DEF PlacedSet
<1>2. targets[k].price \in Nat /\ targets[k].size \in Nat
  BY TargetFacts
<1>3. o = [price |-> targets[k].price, size |-> targets[k].size, left |-> Life, post |-> TRUE,
           fee |-> fee, prot |-> FALSE, bad |-> 0]
  BY <1>1 DEF Placed
<1>4. Life \in Nat /\ Life > 0
  BY ConstantFacts
<1>5. QED
  BY <1>2, <1>3, <1>4 DEF Order, Own

\* What the pass of a cycle leaves, and what it keeps of the cancel budget.
LEMMA SyncFacts ==
  ASSUME IInv, NEW fee \in Schedule, NEW targets \in Ladders, NEW cut, NEW refused, NEW signed
  PROVE  LET b == Listed(fee)
             r == Pass(b, targets, cut, refused, fee, signed)
         IN  /\ r \in Passing(b, targets, signed) /\ Within(r.stamps, r.spent)
             /\ ~r.failed => \A i \in DOMAIN b \ r.gone : ~MustGo(b[i], fee)
<1> DEFINE b == Listed(fee)
           r == Pass(b, targets, cut, refused, fee, signed)
           slots == Slots(b, targets)
<1>1. b \in Seq(Order) /\ targets \in Targets
  BY ListedSound, LadderFacts DEF IInv
<1>2. stamps \in Seq(0 .. Window) /\ Within(stamps, spent)
  BY DEF IInv, StampsKept
<1> HIDE DEF b
<1>3. PassInv(b, targets, fee, signed, r, Len(slots))
  BY <1>1, <1>2, PassFacts
<1>4. slots \in Seq(SlotSet(b, targets)) /\ Covers(slots, b)
  BY <1>1, SlotsFacts
<1> HIDE DEF r
<1>5. /\ r \in Passing(b, targets, signed) /\ Within(r.stamps, r.spent)
      /\ ~r.failed => \A j \in 1 .. Len(slots) :
           slots[j].order # 0 /\ MustGo(b[slots[j].order], fee) => slots[j].order \in r.gone
  BY <1>3 DEF PassInv
<1> HIDE DEF slots
<1>6. ASSUME ~r.failed, NEW i \in DOMAIN b \ r.gone PROVE ~MustGo(b[i], fee)
  <2>1. PICK k \in 1 .. Len(slots) : slots[k].order = i
    BY <1>4 DEF Covers
  <2>2. i # 0
    BY <1>1
  <2>3. QED
    BY <1>5, <1>6, <2>1, <2>2
<1>7. QED
  BY <1>5, <1>6 DEF b, r

LEMMA SyncKeeps ==
  ASSUME IInv, NEW fee \in Schedule, NEW targets \in Ladders, NEW cut, NEW refused,
         NEW signed \in {fee, listed}, Sync(fee, targets, cut, refused, signed)
  PROVE  IInv'
<1> DEFINE b == Listed(fee)
           r == Pass(b, targets, cut, refused, fee, signed)
           rest == Without(b, r.gone)
           T == {o \in Order : o.left > 0}
           U == {o \in Sound : fee > spec => o.prot}
<1>1. /\ r \in Passing(b, targets, signed) /\ Within(r.stamps, r.spent)
      /\ ~r.failed => \A i \in DOMAIN b \ r.gone : ~MustGo(b[i], fee)
  BY SyncFacts
<1>2. StartCycle(fee) /\ spec' = fee /\ up /\ up' = up
  BY DEF Sync, StartCycle
<1>3. /\ IF r.failed THEN book' = Excused(rest \o r.placed) /\ calm' = 0
         ELSE book' = rest \o r.placed /\ calm' = calm
      /\ dark' = 0 /\ stamps' = r.stamps /\ spent' = r.spent
      /\ quiet' = IF r.changed /\ ~r.failed THEN 0 ELSE quiet
      /\ cache' = IF r.placed = <<>> THEN fee ELSE signed
  BY <1>2 DEF Sync
<1>4. b \in Seq(U) /\ b \in Seq(Order)
  BY ListedSound DEF IInv
<1>5. fee \in Fees /\ signed \in Fees /\ fee \in Nat /\ signed \in Nat
  BY ScheduleFacts, ConstantFacts DEF IInv, ClockKept
<1> HIDE DEF b, r
<1>6. ClockKept'
  <2>1. cache' \in Fees /\ (calm' = 0 \/ calm' = calm) /\ (quiet' = 0 \/ quiet' = quiet) /\ dark' = 0
    BY <1>3, <1>5
  <2>2. QED
    BY <1>2, <2>1, CycleClock DEF IInv
<1>7. StampsKept'
  <2>1. r.stamps \in Seq(0 .. Window)
    BY <1>1 DEF Passing
  <2>2. stamps' \in Seq(0 .. Window) /\ Within(stamps', spent')
    BY <1>1, <1>3, <2>1
  <2>3. QED
    BY <2>2 DEF StampsKept, Within
<1>8. r.placed \in Seq(PlacedSet(targets, signed))
  BY <1>1 DEF Passing
<1>9. \A o \in PlacedSet(targets, signed) : o \in T /\ o \in Sound'
  BY <1>5, <1>6, LadderFacts, PlacedFacts, FreshSound
<1>10. \A o \in U : o \in T
  BY DEF Sound, InTerms
<1>11. \A o \in U : ~MustGo(o, fee) => o \in Sound'
  <2> SUFFICES ASSUME NEW o \in Sound, ~MustGo(o, fee) PROVE o \in Sound'
    OBVIOUS
  <2>1. o \in Order /\ o.left > 0 /\ (o.prot => o.bad = 0) /\ o.bad <= Refresh + Poll
    BY DEF Sound, InTerms
  <2>2. CASE o.prot
    <3>1. o.bad = 0
      BY <2>1, <2>2
    <3>2. QED
      BY <2>1, <3>1, <1>6, FreshSound
  <2>3. CASE ~o.prot
    <3>1. ~StaleTerms(o, spec')
      BY <2>3, <1>2 DEF MustGo, Own
    <3>2. QED
      BY <2>1, <3>1, SoundNext
  <2>4. o.prot \in BOOLEAN
    BY <2>1, OrderFacts
  <2>5. QED
    BY <2>2, <2>3, <2>4
<1>12. CASE r.failed
  <2>1. b \in Seq(T)
    <3> HIDE DEF T, U
    <3>1. QED
      BY <1>4, <1>10, Widens
  <2>2. \A o \in T : [o EXCEPT !.bad = 0] \in Sound'
    BY <1>6, ExcusedSound
  <2> HIDE DEF T, U
  <2>3. r.placed \in Seq(T)
    BY <1>8, <1>9, Widens
  <2>4. rest \in Seq(T)
    BY <2>1, WithoutIn
  <2> HIDE DEF rest
  <2>5. rest \o r.placed \in Seq(T)
    BY <2>3, <2>4
  <2>6. Excused(rest \o r.placed) \in Seq(Sound')
    BY <2>2, <2>5, ExcusedIn
  <2>7. BookKept'
    BY <1>3, <1>12, <2>6 DEF BookKept
  <2>8. QED
    BY <1>6, <1>7, <2>7 DEF IInv
<1>13. CASE ~r.failed
  <2>1. \A i \in DOMAIN b \ r.gone : b[i] \in Sound'
    <3> HIDE DEF T, U
    <3>1. \A i \in DOMAIN b : b[i] \in U
      BY <1>4
    <3>2. \A i \in DOMAIN b \ r.gone : b[i] \in U /\ ~MustGo(b[i], fee)
      BY <3>1, <1>1, <1>13
    <3>3. QED
      BY <3>2, <1>11
  <2> HIDE DEF T, U
  <2>2. rest \in Seq(Sound')
    BY <1>4, <2>1, WithoutIn
  <2>3. r.placed \in Seq(Sound')
    BY <1>8, <1>9, Widens
  <2> HIDE DEF rest
  <2>4. rest \o r.placed \in Seq(Sound')
    BY <2>2, <2>3
  <2>5. BookKept'
    BY <1>3, <1>13, <2>4 DEF BookKept
  <2>6. QED
    BY <1>6, <1>7, <2>5 DEF IInv
<1>14. QED
  BY <1>12, <1>13

LEMMA CycleKeeps ==
  ASSUME IInv, Cycle
  PROVE  IInv'
<1>1. PICK fee \in Schedule :
        \/ FeeCancelFails(fee) \/ LoadFails(fee) \/ AgeHalts(fee) \/ Throttled(fee)
        \/ \E targets \in Ladders, end \in Endings, signed \in {fee, listed} :
             Sync(fee, targets, end.cut, end.refused, signed)
  BY DEF Cycle
<1>2. QED
  BY <1>1, FeeCancelFailsKeeps, LoadFailsKeeps, AgeHaltsKeeps, ThrottledKeeps, SyncKeeps

-----------------------------------------------------------------------------
(* Steps of startup, time and the venue.                                   *)

LEMMA AfreshClock ==
  ASSUME ClockKept, up' \in BOOLEAN, cache' = listed, spec' = listed,
         quiet' = Never, wait' = 0, calm' = 0, dark' = 0, UNCHANGED <<listed, foreign, lapsed>>
  PROVE  ClockKept'
BY ConstantFacts DEF ClockKept

LEMMA AfreshStamps ==
  ASSUME stamps' = <<>>, spent' = <<>>
  PROVE  StampsKept'
<1>1. stamps' \in Seq(0 .. Window) /\ Len(stamps') <= Budget
  BY ConstantFacts
<1>2. QED
  BY <1>1 DEF StampsKept, Within

LEMMA SoundFacts ==
  ASSUME NEW o \in Sound
  PROVE  /\ o \in Order /\ o.left > 0 /\ (o.prot => o.bad = 0) /\ o.bad <= Refresh + Poll
BY DEF Sound, InTerms

LEMMA BootKeeps ==
  ASSUME IInv, NEW targets \in Ladders, Boot(targets)
  PROVE  IInv'
<1> DEFINE doomed == OwnPlaces(book) \ Adopted(book, targets, listed)
<1>1. /\ up' \in BOOLEAN /\ cache' = listed /\ spec' = listed
      /\ quiet' = Never /\ wait' = 0 /\ calm' = 0 /\ dark' = 0 /\ UNCHANGED <<listed, foreign, lapsed>>
      /\ stamps' = <<>> /\ spent' = <<>>
  BY DEF Boot
<1>2. ClockKept'
  BY <1>1, AfreshClock DEF IInv
<1>3. StampsKept'
  BY <1>1, AfreshStamps
<1>4. \/ book' = Excused(Without(book, doomed))
      \/ up' = FALSE /\ \E gone : book' = Without(book, gone)
  BY DEF Boot
<1> HIDE DEF doomed
<1>5. book \in Seq(Sound)
  BY DEF IInv, BookKept
<1>6. CASE book' = Excused(Without(book, doomed))
  <2>1. \A o \in Sound : [o EXCEPT !.bad = 0] \in Sound'
    BY <1>2, SoundFacts, ExcusedSound
  <2>2. Excused(Without(book, doomed)) \in Seq(Sound')
    BY <1>5, <2>1, BrokenIn
  <2>3. QED
    BY <1>2, <1>3, <1>6, <2>2 DEF IInv, BookKept
<1>7. CASE up' = FALSE /\ \E gone : book' = Without(book, gone)
  <2>1. PICK gone : book' = Without(book, gone)
    BY <1>7
  <2>2. \A o \in Sound : o \in Sound'
    BY <1>7, SoundFacts, SoundNext
  <2>3. \A i \in DOMAIN book \ gone : book[i] \in Sound'
    BY <1>5, <2>2
  <2>4. Without(book, gone) \in Seq(Sound')
    BY <1>5, <2>3, WithoutIn
  <2>5. QED
    BY <1>2, <1>3, <2>1, <2>4 DEF IInv, BookKept
<1>8. QED
  BY <1>4, <1>6, <1>7

LEMMA CrashKeeps ==
  ASSUME IInv, Crash
  PROVE  IInv'
<1>1. /\ up' \in BOOLEAN /\ cache' = listed /\ spec' = listed
      /\ quiet' = Never /\ wait' = 0 /\ calm' = 0 /\ dark' = 0 /\ UNCHANGED <<listed, foreign, lapsed>>
      /\ stamps' = <<>> /\ spent' = <<>> /\ book' = Excused(book)
  BY DEF Crash
<1>2. ClockKept' /\ StampsKept'
  BY <1>1, AfreshClock, AfreshStamps DEF IInv
<1>3. \A o \in Sound : [o EXCEPT !.bad = 0] \in Sound'
  BY <1>2, SoundFacts, ExcusedSound
<1>4. Excused(book) \in Seq(Sound')
  BY <1>3, ExcusedIn DEF IInv, BookKept
<1>5. QED
  BY <1>1, <1>2, <1>4 DEF IInv, BookKept

LEMMA OlderFacts ==
  ASSUME NEW s \in Seq(0 .. Window)
  PROVE  Prune(Older(s)) \in Seq(0 .. Window) /\ Len(Prune(Older(s))) <= Len(s)
<1> DEFINE T == 0 .. Window
           old == Older(s)
<1>1. \A x \in T : x + 1 \in Nat
  BY ConstantFacts
<1>2. s \in Seq(T)
  OBVIOUS
<1> HIDE DEF T
<1>3. Len(s) \in Nat /\ DOMAIN s = 1 .. Len(s) /\ \A i \in DOMAIN s : s[i] \in T
  BY <1>2
<1>4. old \in [1 .. Len(s) -> Nat]
  BY <1>1, <1>3 DEF Older
<1> HIDE DEF old
<1>5. old \in Seq(Nat) /\ Len(old) = Len(s)
  BY <1>3, <1>4
<1>6. QED
  BY <1>5, PruneFacts DEF old

\* A second that passes for the clocks.
LEMMA TickClock ==
  ASSUME ClockKept, Tick
  PROVE  ClockKept'
<1>1. /\ up \in BOOLEAN /\ lapsed \in BOOLEAN
      /\ listed \in Fees /\ cache \in Fees /\ spec \in Fees
      /\ quiet \in 0 .. Never /\ foreign \in 0 .. MaxForeign /\ calm \in 0 .. Margin
      /\ wait \in 0 .. Poll /\ dark \in Nat /\ dark <= wait
  BY DEF ClockKept
<1>2. UNCHANGED <<up, listed, cache, spec, foreign>> /\ (up => wait < Poll)
  BY DEF Tick
<1>3. lapsed' \in BOOLEAN
  BY <1>1 DEF Tick
<1>4. quiet' \in 0 .. Never
  <2>1. quiet' = IF quiet >= Long THEN quiet ELSE quiet + 1
    BY DEF Tick
  <2>2. QED
    BY <1>1, <2>1, ConstantFacts
<1>5. wait' \in 0 .. Poll /\ wait <= wait' /\ (up => wait' = wait + 1)
  <2>1. wait' = IF up THEN wait + 1 ELSE wait
    BY DEF Tick
  <2>2. QED
    BY <1>1, <1>2, <2>1, ConstantFacts
<1>6. calm' \in 0 .. Margin
  <2>1. calm' = IF up /\ calm < Margin THEN calm + 1 ELSE calm
    BY DEF Tick
  <2>2. QED
    BY <1>1, <2>1, ConstantFacts
<1>7. dark' \in Nat /\ dark' <= wait'
  <2>1. dark' = IF up /\ book = <<>> THEN IF dark > Poll THEN dark ELSE dark + 1 ELSE 0
    BY DEF Tick
  <2>2. QED
    BY <1>1, <1>5, <2>1, ConstantFacts
<1>8. QED
  BY <1>1, <1>2, <1>3, <1>4, <1>5, <1>6, <1>7 DEF ClockKept

\* A second that passes for an order.
LEMMA AgedFacts ==
  ASSUME NEW o \in Order
  PROVE  LET e == Aged(o)
         IN  /\ e.left = o.left - 1 /\ e.prot = o.prot
             /\ e.left > 0 => e \in Order
             /\ e.bad = IF up /\ Own(o) /\ StaleTerms(o, spec) THEN o.bad + 1 ELSE 0
             /\ e.left > 0 /\ StaleTerms(e, spec) => StaleTerms(o, spec)
<1> DEFINE worse == IF up /\ Own(o) /\ StaleTerms(o, spec) THEN o.bad + 1 ELSE 0
           e == [o EXCEPT !.left = o.left - 1, !.bad = worse]
<1>1. /\ o.price \in Nat /\ o.size \in Nat /\ o.left \in Nat /\ o.post \in BOOLEAN
      /\ o.fee \in Nat /\ o.prot \in BOOLEAN /\ o.bad \in Nat
  BY OrderFacts
<1>2. Aged(o) = e
  BY DEF Aged
<1>3. worse \in Nat
  BY <1>1
<1> HIDE DEF worse
<1>4. /\ e.price = o.price /\ e.size = o.size /\ e.left = o.left - 1 /\ e.post = o.post
      /\ e.fee = o.fee /\ e.prot = o.prot /\ e.bad = worse
  BY DEF Order
<1>5. e.left > 0 => e \in Order
  <2> DEFINE left == o.left - 1
             next == [o EXCEPT !.left = left, !.bad = worse]
  <2>1. left > 0 => left \in Nat
    BY <1>1
  <2> HIDE DEF left
  <2>2. left \in Nat => next \in Order
    BY <1>3 DEF Order
  <2>3. QED
    BY <1>4, <2>1, <2>2 DEF left
<1> HIDE DEF e
<1>6. e.left > 0 /\ StaleTerms(e, spec) => StaleTerms(o, spec)
  BY <1>1, <1>4, ConstantFacts DEF StaleTerms, BeyondConfig
<1>7. QED
  BY <1>2, <1>4, <1>5, <1>6 DEF worse

LEMMA AgedSound ==
  ASSUME IInv, Tick, NEW o \in Sound, Aged(o).left > 0
  PROVE  Aged(o) \in Sound'
<1> DEFINE e == Aged(o)
<1>1. ClockKept' /\ spec' = spec /\ up' = up
  BY TickClock DEF IInv, Tick
<1>2. o \in Order /\ (o.prot => o.bad = 0)
  BY SoundFacts
<1>3. /\ e \in Order /\ e.prot = o.prot
      /\ e.bad = IF up /\ Own(o) /\ StaleTerms(o, spec) THEN o.bad + 1 ELSE 0
      /\ StaleTerms(e, spec) => StaleTerms(o, spec)
  BY <1>2, AgedFacts
<1> HIDE DEF e
<1>4. CASE up /\ Own(o) /\ StaleTerms(o, spec)
  <2>1. o.bad <= Refresh + wait /\ (quiet < Refresh => o.bad <= quiet)
    BY <1>4 DEF Sound, InTerms
  <2>2. e.bad = o.bad + 1
    BY <1>3, <1>4
  <2>3. wait' = wait + 1 /\ wait < Poll /\ quiet' = IF quiet >= Long THEN quiet ELSE quiet + 1
    BY <1>4 DEF Tick
  <2>4. wait \in Nat /\ quiet \in Nat /\ o.bad \in Nat
    BY <1>2, OrderFacts DEF IInv, ClockKept
  <2> DEFINE bad == o.bad
             worse == e.bad
  <2>5. bad \in Nat /\ worse = bad + 1 /\ bad <= Refresh + wait /\ (quiet < Refresh => bad <= quiet)
    BY <2>1, <2>2, <2>4
  <2> HIDE DEF bad, worse
  <2>6. /\ worse <= Refresh + Poll /\ worse <= Refresh + wait'
        /\ quiet' < Refresh => worse <= quiet'
    BY <2>3, <2>4, <2>5, ConstantFacts
  <2>7. ~e.prot
    BY <1>3, <1>4 DEF Own
  <2>8. e.left > 0
    BY DEF e
  <2>9. e.bad <= Refresh + Poll /\ e.bad <= Refresh + wait' /\ (quiet' < Refresh => e.bad <= quiet')
    BY <2>6 DEF worse
  <2>10. QED
    BY <1>3, <2>7, <2>8, <2>9, SoundNext DEF e
<1>5. CASE ~(up /\ Own(o) /\ StaleTerms(o, spec))
  <2>1. e.bad = 0 /\ e.left > 0
    BY <1>3, <1>5 DEF e
  <2>2. QED
    BY <1>1, <1>3, <2>1, FreshSound DEF e
<1>6. QED
  BY <1>4, <1>5

LEMMA TickKeeps ==
  ASSUME IInv, Tick
  PROVE  IInv'
<1>1. ClockKept'
  BY TickClock DEF IInv
<1>2. StampsKept'
  <2>1. stamps \in Seq(0 .. Window) /\ spent = stamps /\ (Budget > 0 => Len(stamps) <= Budget)
    BY DEF IInv, StampsKept, Within
  <2>2. stamps' = Prune(Older(stamps)) /\ spent' = Prune(Older(stamps))
    BY <2>1 DEF Tick, Prune
  <2>3. Prune(Older(stamps)) \in Seq(0 .. Window) /\ Len(Prune(Older(stamps))) <= Len(stamps)
    BY <2>1, OlderFacts
  <2> DEFINE list == Prune(Older(stamps))
  <2>4. list \in Seq(0 .. Window) /\ Len(list) <= Len(stamps) /\ stamps' = list /\ spent' = list
    BY <2>2, <2>3
  <2> HIDE DEF list
  <2>5. Len(list) \in Nat /\ Len(stamps) \in Nat
    BY <2>1, <2>4
  <2>6. Budget > 0 => Len(list) <= Budget
    BY <2>1, <2>4, <2>5, ConstantFacts
  <2>7. QED
    BY <2>4, <2>6 DEF StampsKept, Within
<1>3. BookKept'
  <2> DEFINE aged == [i \in DOMAIN book |-> Aged(book[i])]
             T == {Aged(o) : o \in Sound}
             stay == {i \in DOMAIN aged : aged[i].left > 0}
  <2>1. book \in Seq(Sound) /\ Len(book) \in Nat /\ DOMAIN book = 1 .. Len(book)
    BY DEF IInv, BookKept
  <2>2. \A i \in DOMAIN book : book[i] \in Sound
    BY <2>1
  <2>3. aged \in [1 .. Len(book) -> T]
    BY <2>1, <2>2
  <2>4. \A e \in T : e.left > 0 => e \in Sound'
    BY AgedSound
  <2>5. book' = At(aged, stay)
    BY DEF Tick
  <2> HIDE DEF T, aged
  <2>6. aged \in Seq(T)
    BY <2>1, <2>3
  <2>7. stay \in SUBSET DOMAIN aged /\ \A i \in stay : aged[i] \in Sound'
    BY <2>4, <2>6
  <2> HIDE DEF stay
  <2>8. At(aged, stay) \in Seq(Sound')
    BY <2>6, <2>7, AtTyped
  <2>9. QED
    BY <2>5, <2>8 DEF BookKept
<1>4. QED
  BY <1>1, <1>2, <1>3 DEF IInv

LEMMA VenueSound ==
  ASSUME UNCHANGED <<up, spec, wait, quiet>>
  PROVE  Sound' = Sound
BY DEF Sound, InTerms, StaleTerms

LEMMA ListFeeKeeps ==
  ASSUME IInv, NEW fee \in Fees, ListFee(fee)
  PROVE  IInv'
<1>1. UNCHANGED <<up, book, stamps, cache, spec, quiet, wait, foreign, spent, calm, dark, lapsed>> /\ listed' = fee
  BY DEF ListFee
<1>2. Sound' = Sound
  BY <1>1, VenueSound
<1>3. QED
  BY <1>1, <1>2 DEF IInv, ClockKept, StampsKept, Within, BookKept

LEMMA ArriveKeeps ==
  ASSUME IInv, NEW o \in Foreign, Arrive(o)
  PROVE  IInv'
<1>1. /\ UNCHANGED <<up, stamps, listed, cache, spec, quiet, wait, spent, calm, dark, lapsed>>
      /\ book' = Append(book, o) /\ foreign < MaxForeign /\ foreign' = foreign + 1
  BY DEF Arrive
<1>2. ClockKept'
  BY <1>1, ConstantFacts DEF IInv, ClockKept
<1>3. o \in Sound'
  BY <1>2, ForeignAssumption, FreshSound
<1>4. Sound' = Sound
  BY <1>1, VenueSound
<1>5. BookKept'
  <2>1. Append(book, o) \in Seq(Sound)
    BY <1>3, <1>4 DEF IInv, BookKept
  <2>2. QED
    BY <1>1, <1>4, <2>1 DEF BookKept
<1>6. QED
  BY <1>1, <1>2, <1>5 DEF IInv, StampsKept, Within

LEMMA DepartKeeps ==
  ASSUME IInv, NEW i, Depart(i)
  PROVE  IInv'
<1>1. /\ UNCHANGED <<up, stamps, listed, cache, spec, quiet, wait, foreign, spent, calm, dark, lapsed>>
      /\ book' = Without(book, {i})
  BY DEF Depart
<1>2. Sound' = Sound
  BY <1>1, VenueSound
<1>3. Without(book, {i}) \in Seq(Sound)
  <2>1. book \in Seq(Sound) /\ \A j \in DOMAIN book \ {i} : book[j] \in Sound
    BY DEF IInv, BookKept
  <2>2. QED
    BY <2>1, WithoutIn
<1>4. QED
  BY <1>1, <1>2, <1>3 DEF IInv, ClockKept, StampsKept, Within, BookKept

-----------------------------------------------------------------------------
(* Theorems of every ladder.                                               *)

LEMMA InitHolds == Init => IInv
<1> SUFFICES ASSUME Init PROVE IInv
  OBVIOUS
<1>1. ClockKept
  <2>1. /\ up = TRUE /\ lapsed = FALSE /\ listed \in Fees /\ cache = listed /\ spec = listed
        /\ quiet = Never /\ wait = 0 /\ foreign = 0 /\ calm = 0 /\ dark = 0
    BY DEF Init
  <2>2. Never \in 0 .. Never /\ 0 \in 0 .. MaxForeign /\ 0 \in 0 .. Margin /\ 0 \in 0 .. Poll
    BY ConstantFacts
  <2>3. /\ quiet \in 0 .. Never /\ foreign \in 0 .. MaxForeign /\ calm \in 0 .. Margin
        /\ wait \in 0 .. Poll /\ dark \in Nat /\ dark <= wait
    <3>1. dark \in Nat /\ dark <= wait
      BY <2>1
    <3>2. QED
      BY ONLY <2>1, <2>2, <3>1
  <2>4. /\ up \in BOOLEAN /\ lapsed \in BOOLEAN
        /\ listed \in Fees /\ cache \in Fees /\ spec \in Fees
    BY <2>1
  <2>5. QED
    BY <2>3, <2>4 DEF ClockKept
<1>2. StampsKept
  <2>1. stamps \in Seq(0 .. Window) /\ Len(stamps) <= Budget /\ spent = stamps
    BY ConstantFacts DEF Init
  <2>2. QED
    BY <2>1 DEF StampsKept, Within
<1>3. BookKept
  BY DEF Init, BookKept
<1>4. QED
  BY <1>1, <1>2, <1>3 DEF IInv

LEMMA StepKeeps == IInv /\ [Next]_vars => IInv'
<1> SUFFICES ASSUME IInv, [Next]_vars PROVE IInv'
  OBVIOUS
<1>1. CASE Next
  BY <1>1, CycleKeeps, BootKeeps, CrashKeeps, TickKeeps, ListFeeKeeps, ArriveKeeps, DepartKeeps DEF Next
<1>2. CASE UNCHANGED vars
  <2>1. Sound' = Sound
    BY <1>2, VenueSound DEF vars
  <2>2. QED
    BY <1>2, <2>1 DEF vars, IInv, ClockKept, StampsKept, Within, BookKept
<1>3. QED
  BY <1>1, <1>2

\* The clocks and lists stay in their ranges, the budget is counted as it is spent, and no order
\* rests longer under stale terms than the time since the last cycle explains.
THEOREM Invariant == Spec => []IInv
<1>1. QED
  BY InitHolds, StepKeeps, PTL DEF Spec

\* The types that the code's fields have.
THEOREM TypeCorrect == Spec => []TypeOK
<1>1. IInv => TypeOK
  <2> SUFFICES ASSUME IInv PROVE TypeOK
    OBVIOUS
  <2> DEFINE T == 0 .. Window
             U == 0 .. Window + 1
  <2>1. \A x \in T : x \in U
    BY ConstantFacts
  <2>2. stamps \in Seq(T) /\ spent \in Seq(T)
    BY DEF IInv, StampsKept, Within
  <2>3. book \in Seq(Order)
    <3>1. book \in Seq(Sound) /\ \A o \in Sound : o \in Order
      BY DEF IInv, BookKept, Sound
    <3>2. QED
      BY <3>1, Widens
  <2> HIDE DEF T, U
  <2>4. stamps \in Seq(U)
    BY <2>1, <2>2, Widens
  <2>5. QED
    BY <2>2, <2>3, <2>4 DEF TypeOK, IInv, ClockKept, T, U
<1>2. QED
  BY <1>1, Invariant, PTL

\* No more price and size replacements in a minute than MM_MAX_CANCELS_PER_MINUTE, whatever the
\* orders of a pass that fail or are refused (Syncer.canUseCancelSlot).
THEOREM BudgetIsKept == Spec => []BudgetKept
<1>1. IInv => BudgetKept
  BY DEF IInv, StampsKept, Within, BudgetKept
<1>2. QED
  BY <1>1, Invariant, PTL

\* An order under terms the bot would not sign is gone within a refresh interval and a poll
\* (staleTermsReason, syncFeeSchedule and the refresh throttle together).
THEOREM StaleTermsAlwaysGo == Spec => []StaleTermsGo
<1>1. IInv => StaleTermsGo
  <2> SUFFICES ASSUME IInv, NEW i \in DOMAIN book PROVE book[i].bad <= Refresh + Poll
    BY DEF StaleTermsGo
  <2>1. book[i] \in Sound
    BY DEF IInv, BookKept
  <2>2. QED
    BY <2>1, SoundFacts
<1>2. QED
  BY <1>1, Invariant, PTL

\* A side without orders is quoted by the next cycle (the throttle and the quote-age halt both ask
\* for a resting order).
THEOREM NeverLeftDark == Spec => []NeverDark
<1>1. IInv => NeverDark
  BY ConstantFacts DEF IInv, ClockKept, NeverDark
<1>2. QED
  BY <1>1, Invariant, PTL

\* Startup adopts nothing that the first cycle for the same targets replaces, but to roll it
\* (startupRejectReason and adoptionMismatchReason against evaluateCancel).
THEOREM AdoptedIsAlwaysKept == Spec => []AdoptedIsKept
<1>1. IInv => AdoptedIsKept
  <2> SUFFICES ASSUME IInv, NEW targets \in Ladders, NEW i \in Adopted(book, targets, listed)
               PROVE  Decide(book[i], targets[1], listed) \in {"keep", "expiring"}
    BY DEF AdoptedIsKept
  <2> DEFINE o == book[i]
             target == targets[1]
  <2>1. ~o.prot /\ ~StaleTerms(o, listed)
    BY DEF Adopted, Candidates, Rejected
  <2>2. targets # <<>> /\ ~(Distance(o.price, target.price) >= Tolerance) /\ ~SizeWrong(o, target)
    BY DEF Adopted, Mismatch
  <2>3. target.price \in Nat /\ target.price # 0
    <3>1. targets \in Targets
      BY LadderFacts
    <3>2. 1 \in DOMAIN targets
      <4>1. Len(targets) \in Nat /\ DOMAIN targets = 1 .. Len(targets) /\ Len(targets) # 0
        BY <3>1, <2>2, TargetFacts DEF Targets
      <4>2. QED
        BY <4>1
    <3>3. QED
      BY <3>1, <3>2, TargetFacts
  <2>4. Distance(o.price, target.price) < Tolerance
    <3>1. o.price \in Nat
      <4>1. i \in DOMAIN book
        BY DEF Adopted, Candidates
      <4>2. book[i] \in Sound
        BY <4>1 DEF IInv, BookKept
      <4>3. QED
        BY <4>2, SoundFacts, OrderFacts
    <3>2. QED
      BY <3>1, <2>2, <2>3, ConstantFacts DEF Distance
  <2> HIDE DEF o, target
  <2>5. Decide(o, target, listed) \in {"keep", "expiring"}
    BY <2>1, <2>2, <2>3, <2>4 DEF Decide
  <2>6. QED
    BY <2>5 DEF o, target
<1>2. QED
  BY <1>1, Invariant, PTL

-----------------------------------------------------------------------------
(* Quotes that are rolled before they expire.                              *)

\* In calm, an order of the bot outlasts the time to the next cycle.
Lasts(o) == Own(o) /\ up /\ calm > wait => o.left + wait > Poll
Lasting == {o \in Order : Lasts(o)}
LifeKept == ~lapsed /\ book \in Seq(Lasting)

\* What the theorem asks of the configuration, and of the orders of a draining predecessor.
Rolls == Poll <= Margin /\ \A o \in Foreign : Own(o) => o.left > Poll

\* Nothing is asked of a book once a call failed, or of a process that starts.
LEMMA RestlessLasts ==
  ASSUME BookKept', calm' = 0, wait' = 0, ~lapsed'
  PROVE  LifeKept'
<1>1. \A o \in Sound' : o \in Lasting'
  <2> SUFFICES ASSUME NEW o \in Sound' PROVE o \in Lasting'
    OBVIOUS
  <2>1. o \in Order
    BY DEF Sound
  <2>2. ~(calm' > wait')
    OBVIOUS
  <2>3. QED
    BY <2>1, <2>2 DEF Lasting, Lasts
<1>2. book' \in Seq(Lasting')
  BY <1>1, Widens DEF BookKept
<1>3. QED
  BY <1>2 DEF LifeKept

\* An order that outlasts a poll, at a cycle.
LEMMA FullLasts ==
  ASSUME NEW o \in Order, Own(o) => o.left > Poll, wait' \in Nat
  PROVE  o \in Lasting'
<1>1. o.left \in Nat /\ Poll \in Nat
  BY OrderFacts, ConstantFacts
<1>2. \A w \in Nat : o.left > Poll => o.left + w > Poll
  BY <1>1
<1>3. Own(o) => o.left + wait' > Poll
  BY <1>2
<1>4. QED
  BY <1>3 DEF Lasting, Lasts

LEMMA AgeHaltsLasts ==
  ASSUME IInv, IInv', LifeKept, NEW fee \in Schedule, AgeHalts(fee)
  PROVE  LifeKept'
<1> DEFINE b == Listed(fee)
<1>1. wait' = 0 /\ lapsed' = lapsed /\ ~lapsed
  BY DEF AgeHalts, StartCycle, LifeKept
<1>2. \/ book' = Without(b, OwnPlaces(b))
      \/ calm' = 0
  BY DEF AgeHalts, Broken
<1>3. b \in Seq(Order)
  BY ListedSound DEF IInv
<1> HIDE DEF b
<1>4. CASE book' = Without(b, OwnPlaces(b))
  <2>1. \A i \in DOMAIN b \ OwnPlaces(b) : b[i] \in Order /\ ~Own(b[i])
    BY <1>3 DEF OwnPlaces
  <2>2. \A i \in DOMAIN b \ OwnPlaces(b) : b[i] \in Lasting'
    BY <2>1 DEF Lasting, Lasts
  <2>3. Without(b, OwnPlaces(b)) \in Seq(Lasting')
    BY <1>3, <2>2, WithoutIn
  <2>4. QED
    BY <1>1, <1>4, <2>3 DEF LifeKept
<1>5. CASE calm' = 0
  BY <1>1, <1>5, RestlessLasts DEF IInv
<1>6. QED
  BY <1>2, <1>4, <1>5

LEMMA ThrottledLasts ==
  ASSUME Rolls, IInv, LifeKept, NEW fee \in Schedule, Throttled(fee)
  PROVE  LifeKept'
<1> DEFINE b == Listed(fee)
<1>1. wait' = 0 /\ lapsed' = lapsed /\ ~lapsed /\ book' = b /\ Throttles(b)
  BY DEF Throttled, StartCycle, LifeKept
<1>2. b \in Seq(Order)
  BY ListedSound DEF IInv
<1> HIDE DEF b
<1>3. \A i \in DOMAIN b : b[i] \in Order /\ ~(b[i].left <= Margin)
  BY <1>1, <1>2 DEF Throttles, Expiring
<1>4. \A o \in Order : ~(o.left <= Margin) => o \in Lasting'
  <2> SUFFICES ASSUME NEW o \in Order, ~(o.left <= Margin) PROVE o \in Lasting'
    OBVIOUS
  <2>1. o.left > Poll
    BY OrderFacts, ConstantFacts DEF Rolls
  <2>2. QED
    BY <1>1, <2>1, FullLasts
<1>5. b \in [1 .. Len(b) -> Lasting'] /\ Len(b) \in Nat
  BY <1>2, <1>3, <1>4
<1>6. b \in Seq(Lasting')
  BY <1>5
<1>7. QED
  BY <1>1, <1>6 DEF LifeKept

LEMMA SyncLasts ==
  ASSUME Rolls, IInv, IInv', LifeKept, NEW fee \in Schedule, NEW targets \in Ladders,
         NEW cut, NEW refused, NEW signed \in {fee, listed}, Sync(fee, targets, cut, refused, signed)
  PROVE  LifeKept'
<1> DEFINE b == Listed(fee)
           r == Pass(b, targets, cut, refused, fee, signed)
           rest == Without(b, r.gone)
<1>1. /\ r \in Passing(b, targets, signed)
      /\ ~r.failed => \A i \in DOMAIN b \ r.gone : ~MustGo(b[i], fee)
  BY SyncFacts
<1>2. wait' = 0 /\ lapsed' = lapsed /\ ~lapsed /\ spec' = fee
  BY DEF Sync, StartCycle, LifeKept
<1>3. IF r.failed THEN calm' = 0 ELSE book' = rest \o r.placed
  BY <1>2 DEF Sync
<1>4. b \in Seq(Order)
  BY ListedSound DEF IInv
<1>5. signed \in Nat
  BY ScheduleFacts, ConstantFacts DEF IInv, ClockKept
<1> HIDE DEF b, r
<1>6. CASE r.failed
  BY <1>2, <1>3, <1>6, RestlessLasts DEF IInv
<1>7. CASE ~r.failed
  <2>1. \A o \in Order : ~MustGo(o, fee) => o \in Lasting'
    <3> SUFFICES ASSUME NEW o \in Order, ~MustGo(o, fee) PROVE o \in Lasting'
      OBVIOUS
    <3>1. Own(o) => ~(o.left <= Margin)
      BY DEF MustGo, Expiring
    <3>2. ~(o.left <= Margin) => o.left > Poll
      BY OrderFacts, ConstantFacts DEF Rolls
    <3>3. QED
      BY <1>2, <3>1, <3>2, FullLasts
  <2>2. \A i \in DOMAIN b \ r.gone : b[i] \in Lasting'
    <3>1. \A i \in DOMAIN b : b[i] \in Order
      BY <1>4
    <3>2. QED
      BY <1>1, <1>7, <2>1, <3>1
  <2>3. rest \in Seq(Lasting')
    BY <1>4, <2>2, WithoutIn
  <2>4. \A o \in PlacedSet(targets, signed) : o \in Lasting'
    <3> SUFFICES ASSUME NEW o \in PlacedSet(targets, signed) PROVE o \in Lasting'
      OBVIOUS
    <3>1. o \in Order /\ o.left = Life
      BY <1>5, LadderFacts, PlacedFacts
    <3>2. Life > Poll
      BY ConstantFacts DEF Rolls
    <3>3. QED
      BY <1>2, <3>1, <3>2, FullLasts
  <2>5. r.placed \in Seq(Lasting')
    <3>1. r.placed \in Seq(PlacedSet(targets, signed))
      BY <1>1 DEF Passing
    <3>2. QED
      BY <3>1, <2>4, Widens
  <2> HIDE DEF rest
  <2>6. rest \o r.placed \in Seq(Lasting')
    BY <2>3, <2>5
  <2>7. QED
    BY <1>2, <1>3, <1>7, <2>6 DEF LifeKept
<1>8. QED
  BY <1>6, <1>7

LEMMA CycleLasts ==
  ASSUME Rolls, IInv, IInv', LifeKept, Cycle
  PROVE  LifeKept'
<1>1. PICK fee \in Schedule :
        \/ FeeCancelFails(fee) \/ LoadFails(fee) \/ AgeHalts(fee) \/ Throttled(fee)
        \/ \E targets \in Ladders, end \in Endings, signed \in {fee, listed} :
             Sync(fee, targets, end.cut, end.refused, signed)
  BY DEF Cycle
<1>2. CASE FeeCancelFails(fee) \/ LoadFails(fee)
  <2>1. calm' = 0 /\ wait' = 0 /\ lapsed' = lapsed
    BY <1>2 DEF FeeCancelFails, LoadFails, Broken, StartCycle
  <2>2. QED
    BY <2>1, RestlessLasts DEF IInv, LifeKept
<1>3. QED
  BY <1>1, <1>2, AgeHaltsLasts, ThrottledLasts, SyncLasts

LEMMA TickLasts ==
  ASSUME Rolls, IInv, LifeKept, Tick
  PROVE  LifeKept'
<1>1. /\ UNCHANGED <<up, spec>> /\ (up => wait < Poll)
      /\ wait' = IF up THEN wait + 1 ELSE wait
      /\ calm' = IF up /\ calm < Margin THEN calm + 1 ELSE calm
  BY DEF Tick
<1>2. /\ calm \in 0 .. Margin /\ wait \in 0 .. Poll /\ up \in BOOLEAN
      /\ Margin \in Nat /\ Poll \in Nat /\ Poll <= Margin
  BY ConstantFacts DEF IInv, ClockKept, Rolls
<1>3. up /\ calm' > wait' => calm > wait
  BY <1>1, <1>2
<1>4. \A o \in Lasting : Aged(o).left > 0 => Aged(o) \in Lasting'
  <2> SUFFICES ASSUME NEW o \in Lasting, Aged(o).left > 0 PROVE Aged(o) \in Lasting'
    OBVIOUS
  <2> DEFINE e == Aged(o)
  <2>1. o \in Order /\ (Own(o) /\ up /\ calm > wait => o.left + wait > Poll)
    BY DEF Lasting, Lasts
  <2>2. e \in Order /\ e.left = o.left - 1 /\ e.prot = o.prot
    BY <2>1, AgedFacts
  <2> HIDE DEF e
  <2>3. o.left \in Nat
    BY <2>1, OrderFacts
  <2>4. up => e.left + wait' = o.left + wait
    BY <1>1, <1>2, <2>2, <2>3
  <2>5. Own(e) /\ up' /\ calm' > wait' => e.left + wait' > Poll
    BY <1>1, <1>3, <2>1, <2>2, <2>4 DEF Own
  <2>6. QED
    BY <2>2, <2>5 DEF Lasting, Lasts, e
<1>5. book \in Seq(Lasting) /\ ~lapsed
  BY DEF LifeKept
<1>6. ~lapsed'
  <2> SUFFICES ASSUME up, calm = Margin, NEW i \in DOMAIN book, Own(book[i]), book[i].left = 1 PROVE FALSE
    BY <1>5 DEF Tick
  <2>1. book[i] \in Lasting
    BY <1>5
  <2>2. calm > wait
    BY <1>1, <1>2
  <2>3. 1 + wait > Poll
    BY <2>1, <2>2 DEF Lasting, Lasts
  <2>4. QED
    BY <1>1, <1>2, <2>3
<1>7. book' \in Seq(Lasting')
  <2> DEFINE aged == [i \in DOMAIN book |-> Aged(book[i])]
             T == {Aged(o) : o \in Lasting}
             stay == {i \in DOMAIN aged : aged[i].left > 0}
  <2>1. Len(book) \in Nat /\ DOMAIN book = 1 .. Len(book)
    BY <1>5
  <2>2. \A i \in DOMAIN book : book[i] \in Lasting
    BY <1>5
  <2>3. aged \in [1 .. Len(book) -> T]
    BY <2>1, <2>2
  <2>4. \A e \in T : e.left > 0 => e \in Lasting'
    BY <1>4
  <2>5. book' = At(aged, stay)
    BY DEF Tick
  <2> HIDE DEF T, aged
  <2>6. aged \in Seq(T)
    BY <2>1, <2>3
  <2>7. stay \in SUBSET DOMAIN aged /\ \A i \in stay : aged[i] \in Lasting'
    BY <2>4, <2>6
  <2> HIDE DEF stay
  <2>8. At(aged, stay) \in Seq(Lasting')
    BY <2>6, <2>7, AtTyped
  <2>9. QED
    BY <2>5, <2>8
<1>8. QED
  BY <1>6, <1>7 DEF LifeKept

LEMMA VenueLasts ==
  ASSUME UNCHANGED <<up, calm, wait>>
  PROVE  Lasting' = Lasting
BY DEF Lasting, Lasts, Own

LEMMA LifeStep == Rolls => (IInv /\ IInv' /\ LifeKept /\ [Next]_vars => LifeKept')
<1> SUFFICES ASSUME Rolls, IInv, IInv', LifeKept, [Next]_vars PROVE LifeKept'
  OBVIOUS
<1>1. CASE Cycle
  BY <1>1, CycleLasts
<1>2. ASSUME NEW targets \in Ladders, Boot(targets) PROVE LifeKept'
  <2>1. calm' = 0 /\ wait' = 0 /\ lapsed' = lapsed
    BY <1>2 DEF Boot
  <2>2. QED
    BY <2>1, RestlessLasts DEF IInv, LifeKept
<1>3. CASE Crash
  <2>1. calm' = 0 /\ wait' = 0 /\ lapsed' = lapsed
    BY <1>3 DEF Crash
  <2>2. QED
    BY <2>1, RestlessLasts DEF IInv, LifeKept
<1>4. CASE Tick
  BY <1>4, TickLasts
<1>5. ASSUME NEW fee \in Fees, ListFee(fee) PROVE LifeKept'
  <2>1. UNCHANGED <<up, calm, wait, book, lapsed>>
    BY <1>5 DEF ListFee
  <2>2. QED
    BY <2>1, VenueLasts DEF LifeKept
<1>6. ASSUME NEW o \in Foreign, Arrive(o) PROVE LifeKept'
  <2>1. UNCHANGED <<up, calm, wait, lapsed>> /\ book' = Append(book, o)
    BY <1>6 DEF Arrive
  <2>2. Lasting' = Lasting /\ wait' \in Nat
    BY <2>1, VenueLasts DEF IInv, ClockKept
  <2>3. o \in Lasting'
    <3>1. o \in Order /\ (Own(o) => o.left > Poll)
      BY ForeignAssumption DEF Rolls
    <3>2. QED
      BY <2>2, <3>1, FullLasts
  <2>4. Append(book, o) \in Seq(Lasting)
    BY <2>2, <2>3 DEF LifeKept
  <2>5. QED
    BY <2>1, <2>2, <2>4 DEF LifeKept
<1>7. ASSUME NEW i, Depart(i) PROVE LifeKept'
  <2>1. UNCHANGED <<up, calm, wait, lapsed>> /\ book' = Without(book, {i})
    BY <1>7 DEF Depart
  <2>2. Lasting' = Lasting
    BY <2>1, VenueLasts
  <2>3. book \in Seq(Lasting) /\ \A j \in DOMAIN book \ {i} : book[j] \in Lasting
    BY DEF LifeKept
  <2>4. Without(book, {i}) \in Seq(Lasting)
    BY <2>3, WithoutIn
  <2>5. QED
    BY <2>1, <2>2, <2>4 DEF LifeKept
<1>8. CASE UNCHANGED vars
  <2>1. UNCHANGED <<up, calm, wait, book, lapsed>>
    BY <1>8 DEF vars
  <2>2. QED
    BY <2>1, VenueLasts DEF LifeKept
<1>9. QED
  BY <1>1, <1>2, <1>3, <1>4, <1>5, <1>6, <1>7, <1>8 DEF Next

\* Where cycles are no farther apart than the margin, and a predecessor's orders have longer left
\* than that when they arrive, no order of the bot lapses on the book in calm (evaluateCancel's
\* expiring, which neither the throttle, the minimum lifetime nor the budget puts off).
THEOREM NoneEverLapses == ASSUME Rolls PROVE Spec => []NoneLapses
<1>1. Init => LifeKept
  BY DEF Init, LifeKept
<1>2. IInv /\ IInv' /\ LifeKept /\ [Next]_vars => LifeKept'
  BY LifeStep
<1>3. LifeKept => NoneLapses
  BY DEF LifeKept, NoneLapses
<1>4. QED
  BY <1>1, <1>2, <1>3, Invariant, PTL DEF Spec

-----------------------------------------------------------------------------
(* Rungs that stay.                                                        *)

\* A full pass cancels no order that is alone near its levels and quotes them: it claims one of
\* them before any leftover does, and is judged by that one (pairByPrice: 2026-10-01).
THEOREM RungsAlwaysStay == Spec => []RungsStay
<1>1. IInv => RungsStay
  <2> SUFFICES ASSUME IInv, NEW targets \in Ladders, NEW i \in DOMAIN book,
                      Own(book[i]), ~StaleTerms(book[i], spec), ~Expiring(book[i]),
                      NEW m \in DOMAIN targets, Near(book[i], targets[m]),
                      \A k \in DOMAIN targets : Near(book[i], targets[k]) => Fits(book[i], targets[k]),
                      \A j \in DOMAIN book \ {i}, k \in DOMAIN targets :
                        Near(book[i], targets[k]) => ~Near(book[j], targets[k]),
                      i \in FullPass(targets).gone
               PROVE  FALSE
    BY DEF RungsStay
  <2> DEFINE o == book[i]
             claims == Claims(book, targets)
             slots == Slots(book, targets)
             r == Pass(book, targets, NoCut, {}, spec, cache)
  <2>1. targets \in Targets /\ book \in Seq(Order) /\ o \in Order
    <3>1. book \in Seq(Sound) /\ \A x \in Sound : x \in Order
      BY DEF IInv, BookKept, Sound
    <3>2. book \in Seq(Order)
      BY <3>1, Widens
    <3>3. QED
      BY <3>2, LadderFacts
  <2>2. stamps \in Seq(0 .. Window) /\ Within(stamps, spent)
    BY DEF IInv, StampsKept
  <2>3. PICK j \in 1 .. Len(slots) :
          slots[j].order = i /\ ~Kept(Decide(o, TargetOf(targets, slots[j]), spec))
    <3>1. PassInv(book, targets, spec, cache, r, Len(slots))
      BY <2>1, <2>2, PassFacts
    <3>2. i \in r.gone
      BY DEF FullPass
    <3> HIDE DEF r, slots
    <3>3. QED
      BY <3>1, <3>2 DEF PassInv, slots
  <2>4. \A k \in DOMAIN targets : Distance(o.price, targets[k].price) \in Nat
    <3>1. o.price \in Nat /\ \A k \in DOMAIN targets : targets[k].price \in Nat
      BY <2>1, OrderFacts, TargetFacts
    <3>2. \A x, y \in Nat : Distance(x, y) \in Nat
      BY DEF Distance
    <3>3. QED
      BY <3>1, <3>2
  <2>5. Tolerance # 0
    BY <2>4, ConstantFacts DEF Near
  <2>6. /\ slots \in Seq(SlotSet(book, targets))
        /\ \A k \in DOMAIN slots : ByClaim(slots[k], claims)
    BY <2>1, <2>5, SlotsByClaimFacts
  <2>7. claims \in [1 .. Len(targets) -> Places(book)] /\ Apart(claims)
    BY <2>1, ClaimsFacts
  <2>8. PICK p \in DOMAIN targets : claims[p] = i /\ Near(o, targets[p])
    BY <2>1, ClaimsFacts
  <2>9. DOMAIN targets = 1 .. Len(targets) /\ i # 0
    BY <2>1, TargetFacts
  <2> HIDE DEF slots, claims
  <2>10. ByClaim(slots[j], claims) /\ slots[j] \in SlotSet(book, targets)
    BY <2>6
  <2>11. slots[j].level = p /\ p # 0
    <3>1. slots[j].level # 0
      <4>1. i \in Range(claims)
        BY <2>7, <2>8, <2>9 DEF Range
      <4>2. QED
        BY <4>1, <2>3, <2>10 DEF ByClaim
    <3>2. slots[j].level \in 1 .. Len(targets)
      BY <3>1, <2>1, <2>10, TargetFacts DEF SlotSet
    <3>3. claims[slots[j].level] = i
      BY <3>1, <2>3, <2>10 DEF ByClaim
    <3>4. QED
      BY <3>2, <3>3, <2>7, <2>8, <2>9 DEF Apart
  <2>12. ~Kept(Decide(o, targets[p], spec))
    BY <2>3, <2>11 DEF TargetOf
  <2>13. targets[p].price # 0 /\ ~SizeWrong(o, targets[p]) /\ Distance(o.price, targets[p].price) < Tolerance
    BY <2>1, <2>8, TargetFacts DEF Fits, Near
  <2> DEFINE target == targets[p]
  <2>14. target.price # 0 /\ ~SizeWrong(o, target) /\ Distance(o.price, target.price) < Tolerance
    BY <2>13
  <2> HIDE DEF target
  <2>15. Decide(o, target, spec) = "keep"
    BY <2>14 DEF Decide
  <2>16. QED
    BY <2>12, <2>15 DEF Kept, target
<1>2. QED
  BY <1>1, Invariant, PTL

-----------------------------------------------------------------------------
(* No more orders than levels.                                             *)

AllOwn(b) == \A i \in DOMAIN b : Own(b[i])

\* A slot takes its order off before it places another.
LEMMA SlotRoom ==
  ASSUME NEW b \in Seq(Order), NEW targets \in Targets, NEW fee, NEW known, NEW cut, NEW refused,
         NEW slot \in SlotSet(b, targets), NEW r \in Passing(b, targets, fee),
         AllOwn(b)
  PROVE  LET q == Slot(b, targets, slot, r, cut, refused, known, fee)
         IN  /\ q.gone = r.gone \/ (slot.order # 0 /\ q.gone = r.gone \cup {slot.order})
             /\ \/ q.placed = r.placed
                \/ /\ Len(q.placed) = Len(r.placed) + 1
                   /\ slot.order # 0 => q.gone = r.gone \cup {slot.order}
<1> DEFINE q == Slot(b, targets, slot, r, cut, refused, known, fee)
           target == IF slot.level = 0 THEN NoTarget ELSE targets[slot.level]
           reason == IF slot.order = 0 THEN "keep" ELSE Decide(b[slot.order], target, known)
           cancels == /\ slot.order # 0 /\ reason \notin {"keep", "suppress"}
                      /\ Budgeted(reason) => CanUseCancelSlot(r.stamps)
           sent == cancels /\ Own(b[slot.order])
           cancelFails == sent /\ r.calls = cut
           calls == r.calls + (IF sent THEN 1 ELSE 0)
           places == Frees(slot, reason, cancels) /\ slot.level # 0 /\ ~cancelFails
           gone == IF sent /\ ~cancelFails THEN r.gone \cup {slot.order} ELSE r.gone
           put == places /\ ~(places /\ calls = cut) /\ slot.level \notin refused
           placed == IF put THEN Append(r.placed, Placed(target, fee)) ELSE r.placed
<1>1. CASE r.failed
  BY <1>1 DEF Slot
<1>2. CASE ~r.failed
  <2>1. q.gone = gone /\ q.placed = placed
    BY <1>2 DEF Slot
  <2>2. slot.order # 0 => slot.order \in DOMAIN b
    BY DEF SlotSet, Places
  <2>3. cancels => sent
    BY <2>2 DEF AllOwn
  <2>4. put => slot.order = 0 \/ (sent /\ ~cancelFails)
    BY <2>3 DEF Frees
  <2>5. r.placed \in Seq(PlacedSet(targets, fee))
    BY DEF Passing
  <2>6. sent => slot.order # 0
    OBVIOUS
  <2> HIDE DEF q, put, sent, cancelFails, target
  <2>7. /\ gone = r.gone \/ (slot.order # 0 /\ gone = r.gone \cup {slot.order})
        /\ put /\ slot.order # 0 => gone = r.gone \cup {slot.order}
    BY <2>4, <2>6
  <2>8. placed = r.placed \/ (put /\ Len(placed) = Len(r.placed) + 1)
    <3>1. CASE put
      <4>1. placed = Append(r.placed, Placed(target, fee))
        BY <3>1
      <4>2. Len(placed) = Len(r.placed) + 1
        BY <4>1, <2>5
      <4>3. QED
        BY <4>2, <3>1
    <3>2. CASE ~put
      BY <3>2
    <3>3. QED
      BY <3>1, <3>2
  <2> HIDE DEF gone, placed
  <2>9. QED
    BY <2>1, <2>7, <2>8 DEF q
<1>3. QED
  BY <1>1, <1>2

\* The first k slots have placed no more than they have cancelled or found empty.
PassRoomInv(b, targets, fee, r, k) ==
  LET slots == Slots(b, targets)
  IN  /\ r \in Passing(b, targets, fee) /\ Within(r.stamps, r.spent)
      /\ \A i \in r.gone : \E j \in 1 .. k : slots[j].order = i
      /\ Len(r.placed) <= Cardinality(r.gone) + Cardinality(Empty(slots, k))

LEMMA PassStepRoom ==
  ASSUME NEW b \in Seq(Order), NEW targets \in Targets, NEW cut, NEW refused, NEW known, NEW fee,
         NEW k \in DOMAIN Slots(b, targets), NEW r, PassRoomInv(b, targets, fee, r, k - 1),
         AllOwn(b)
  PROVE  PassRoomInv(b, targets, fee,
                     Slot(b, targets, Slots(b, targets)[k], r, cut, refused, known, fee), k)
<1> DEFINE slots == Slots(b, targets)
           slot == slots[k]
           q == Slot(b, targets, slot, r, cut, refused, known, fee)
<1>1. slots \in Seq(SlotSet(b, targets)) /\ Single(slots)
  BY SlotsFacts
<1> HIDE DEF slots
<1>2. k \in 1 .. Len(slots) /\ Len(slots) \in Nat /\ DOMAIN slots = 1 .. Len(slots)
  BY <1>1 DEF slots
<1>3. slot \in SlotSet(b, targets) /\ slot.order \in Places(b)
  <2>1. slot \in SlotSet(b, targets)
    BY <1>1, <1>2
  <2>2. QED
    BY <2>1 DEF SlotSet
<1>4. /\ r \in Passing(b, targets, fee) /\ Within(r.stamps, r.spent)
      /\ \A i \in r.gone : \E j \in 1 .. k - 1 : slots[j].order = i
      /\ Len(r.placed) <= Cardinality(r.gone) + Cardinality(Empty(slots, k - 1))
  BY DEF PassRoomInv, slots
<1> HIDE DEF slot
<1>5. q \in Passing(b, targets, fee) /\ Within(q.stamps, q.spent)
  BY <1>3, <1>4, SlotKeeps
<1>6. /\ q.gone = r.gone \/ (slot.order # 0 /\ q.gone = r.gone \cup {slot.order})
      /\ \/ q.placed = r.placed
         \/ /\ Len(q.placed) = Len(r.placed) + 1
            /\ slot.order # 0 => q.gone = r.gone \cup {slot.order}
  <2>1. r \in Passing(b, targets, fee) /\ slot \in SlotSet(b, targets)
    BY <1>3, <1>4
  <2>2. QED
    BY <2>1, SlotRoom
<1> HIDE DEF q
<1>7. slots[k] = slot
  BY DEF slot
<1>8. slot.order # 0 => slot.order \notin r.gone
  <2> SUFFICES ASSUME slot.order # 0, slot.order \in r.gone PROVE FALSE
    OBVIOUS
  <2>1. PICK j \in 1 .. k - 1 : slots[j].order = slot.order
    BY <1>4
  <2>2. j \in DOMAIN slots /\ k \in DOMAIN slots /\ j # k
    BY <1>2
  <2>3. QED
    BY <2>1, <2>2, <1>1, <1>7 DEF Single
<1>9. IsFiniteSet(r.gone) /\ Cardinality(r.gone) \in Nat /\ Len(r.placed) \in Nat
  <2>1. r.gone \in SUBSET (1 .. Len(b)) /\ r.placed \in Seq(PlacedSet(targets, fee)) /\ Len(b) \in Nat
    BY <1>4 DEF Passing, OwnPlaces
  <2>2. QED
    BY <2>1, PlacesFinite
<1>10. slot.order \notin r.gone => Cardinality(r.gone \cup {slot.order}) = Cardinality(r.gone) + 1
  BY <1>9, FS_AddElement
<1> DEFINE before == Empty(slots, k - 1)
           now == Empty(slots, k)
<1>11. /\ IsFiniteSet(before) /\ Cardinality(before) \in Nat
       /\ slot.order # 0 => Cardinality(now) = Cardinality(before)
       /\ slot.order = 0 => Cardinality(now) = Cardinality(before) + 1
  <2>1. before \in SUBSET (1 .. k - 1) /\ k - 1 \in Nat
    BY <1>2 DEF Empty
  <2>2. IsFiniteSet(before) /\ Cardinality(before) \in Nat
    BY <2>1, PlacesFinite
  <2>3. k \notin before /\ 1 .. k = (1 .. k - 1) \cup {k}
    BY <1>2, <2>1
  <2>4. slot.order # 0 => now = before
    BY <2>3, <1>7 DEF Empty
  <2>5. slot.order = 0 => now = before \cup {k}
    BY <2>3, <1>7 DEF Empty
  <2> HIDE DEF before, now
  <2>6. Cardinality(before \cup {k}) = Cardinality(before) + 1
    BY <2>2, <2>3, FS_AddElement
  <2>7. QED
    BY <2>2, <2>4, <2>5, <2>6
<1> HIDE DEF before, now
<1>12. Len(q.placed) <= Cardinality(q.gone) + Cardinality(now)
  <2>1. Len(r.placed) <= Cardinality(r.gone) + Cardinality(before)
    BY <1>4 DEF before
  <2>2. CASE slot.order = 0
    <3>1. q.gone = r.gone /\ (q.placed = r.placed \/ Len(q.placed) = Len(r.placed) + 1)
      BY <2>2, <1>6
    <3>2. Len(q.placed) <= Len(r.placed) + 1
      BY <3>1, <1>9
    <3>3. QED
      BY <3>1, <3>2, <2>1, <2>2, <1>9, <1>11
  <2>3. CASE slot.order # 0
    <3>1. Cardinality(r.gone \cup {slot.order}) = Cardinality(r.gone) + 1
      BY <2>3, <1>8, <1>10
    <3>2. CASE q.gone = r.gone
      <4>1. q.gone # r.gone \cup {slot.order}
        BY <3>2, <2>3, <1>8
      <4>2. q.placed = r.placed
        BY <4>1, <2>3, <1>6
      <4>3. QED
        BY <4>2, <3>2, <2>1, <2>3, <1>11
    <3>3. CASE q.gone = r.gone \cup {slot.order}
      <4>1. Len(q.placed) <= Len(r.placed) + 1
        BY <1>6, <1>9
      <4>2. QED
        BY <4>1, <3>1, <3>3, <2>1, <2>3, <1>9, <1>11
    <3>4. QED
      BY <3>2, <3>3, <1>6
  <2>4. QED
    BY <2>2, <2>3
<1>13. \A i \in q.gone : \E j \in 1 .. k : slots[j].order = i
  <2> SUFFICES ASSUME NEW i \in q.gone PROVE \E j \in 1 .. k : slots[j].order = i
    OBVIOUS
  <2>1. CASE i \in r.gone
    <3>1. PICK j \in 1 .. k - 1 : slots[j].order = i
      BY <2>1, <1>4
    <3>2. j \in 1 .. k
      BY <1>2
    <3>3. QED
      BY <3>1, <3>2
  <2>2. CASE i \notin r.gone
    <3>1. i = slot.order /\ k \in 1 .. k
      BY <2>2, <1>2, <1>6
    <3>2. QED
      BY <3>1, <1>7
  <2>3. QED
    BY <2>1, <2>2
<1>14. PassRoomInv(b, targets, fee, q, k)
  BY <1>5, <1>12, <1>13 DEF PassRoomInv, now, slots
<1>15. QED
  BY <1>14 DEF q, slot, slots

\* A pass leaves no more orders than there were, or than there are levels.
LEMMA PassRoom ==
  ASSUME NEW b \in Seq(Order), NEW targets \in Targets, NEW cut, NEW refused, NEW known, NEW fee,
         stamps \in Seq(0 .. Window), Within(stamps, spent), AllOwn(b)
  PROVE  LET r == Pass(b, targets, cut, refused, known, fee)
         IN  /\ r \in Passing(b, targets, fee)
             /\ Len(Without(b, r.gone)) + Len(r.placed) <= Larger(Len(b), Len(targets))
<1> DEFINE slots == Slots(b, targets)
           n == Len(slots)
           r == Pass(b, targets, cut, refused, known, fee)
<1>1. slots \in Seq(SlotSet(b, targets)) /\ Room(slots, b, targets)
  BY SlotsFacts
<1>2. n \in Nat /\ DOMAIN slots = 1 .. n
  BY <1>1
<1>3. PassStart \in Passing(b, targets, fee) /\ Within(PassStart.stamps, PassStart.spent)
  BY PassRuns
<1>4. PICK done :
        /\ done[0] = PassStart
        /\ \A k \in DOMAIN slots :
             done[k] = Slot(b, targets, slots[k], done[k - 1], cut, refused, known, fee)
        /\ r = done[n]
  BY PassRuns
<1> HIDE DEF slots, n, r
<1> DEFINE P == {k \in 0 .. n : PassRoomInv(b, targets, fee, done[k], k)}
<1>5. 0 \in P
  <2>1. PassStart.gone = {} /\ PassStart.placed = <<>> /\ Empty(Slots(b, targets), 0) = {}
    BY DEF PassStart, Empty
  <2>2. Len(PassStart.placed) <= Cardinality(PassStart.gone) + Cardinality(Empty(Slots(b, targets), 0))
    <3>1. Cardinality(PassStart.gone) = 0 /\ Cardinality(Empty(Slots(b, targets), 0)) = 0
      BY <2>1, FS_EmptySet
    <3>2. Len(PassStart.placed) = 0
      BY <2>1
    <3>3. QED
      BY <3>1, <3>2
  <2>3. PassRoomInv(b, targets, fee, PassStart, 0)
    BY <1>3, <2>1, <2>2 DEF PassRoomInv
  <2>4. QED
    BY <1>2, <1>4, <2>3
<1>6. \A k \in 1 .. n : k - 1 \in P => k \in P
  <2> SUFFICES ASSUME NEW k \in 1 .. n, PassRoomInv(b, targets, fee, done[k - 1], k - 1)
               PROVE  PassRoomInv(b, targets, fee, done[k], k)
    BY <1>2
  <2>1. k \in DOMAIN Slots(b, targets)
    BY <1>2 DEF slots
  <2>2. done[k] = Slot(b, targets, Slots(b, targets)[k], done[k - 1], cut, refused, known, fee)
    BY <1>2, <1>4 DEF slots
  <2>3. QED
    BY <2>1, <2>2, PassStepRoom
<1> HIDE DEF P
<1>7. \A k \in 0 .. n : k \in P
  BY <1>2, <1>5, <1>6, Climb
<1>8. PassRoomInv(b, targets, fee, r, n)
  BY <1>2, <1>4, <1>7 DEF P
<1>9. /\ r \in Passing(b, targets, fee)
      /\ Len(r.placed) <= Cardinality(r.gone) + Cardinality(Empty(slots, n))
  BY <1>8 DEF PassRoomInv, slots
<1>10. /\ r.gone \in SUBSET DOMAIN b /\ DOMAIN b = 1 .. Len(b) /\ Len(b) \in Nat
       /\ Len(r.placed) \in Nat
  BY <1>9 DEF Passing, OwnPlaces
<1>11. IsFiniteSet(r.gone) /\ Cardinality(r.gone) \in Nat
  BY <1>10, PlacesFinite
<1>12. Len(Without(b, r.gone)) = Len(b) - Cardinality(r.gone)
  <2> DEFINE places == DOMAIN b \ r.gone
  <2>1. places \in SUBSET DOMAIN b
    OBVIOUS
  <2>2. Cardinality(places) = Len(b) - Cardinality(r.gone)
    <3>1. Cardinality(DOMAIN b) = Len(b) /\ IsFiniteSet(DOMAIN b)
      BY <1>10, UpTo
    <3>2. (DOMAIN b) \cap r.gone = r.gone
      BY <1>10
    <3>3. Cardinality(places) = Cardinality(DOMAIN b) - Cardinality((DOMAIN b) \cap r.gone)
      BY <3>1, FS_Difference
    <3>4. QED
      BY <3>1, <3>2, <3>3
  <2> HIDE DEF places
  <2>3. DOMAIN At(b, places) = 1 .. Cardinality(places) /\ Cardinality(places) \in Nat
    BY <2>1, AtFacts
  <2>4. At(b, places) \in Seq(Order)
    <3>1. \A i \in places : b[i] \in Order
      BY <2>1
    <3>2. QED
      BY <3>1, <2>1, AtTyped
  <2>5. Len(At(b, places)) = Cardinality(places)
    BY <2>3, <2>4
  <2>6. QED
    BY <2>2, <2>5 DEF Without, places
<1>13. Cardinality(Empty(slots, n)) \in Nat
  <2>1. Empty(slots, n) \in SUBSET (1 .. n)
    BY DEF Empty
  <2>2. QED
    BY <2>1, <1>2, PlacesFinite
<1>14. Len(b) + Cardinality(Empty(slots, n)) <= Larger(Len(b), Len(targets))
  BY <1>1 DEF Room, n
<1>15. Larger(Len(b), Len(targets)) \in Nat
  BY <1>10, TargetFacts DEF Larger
<1>16. Len(Without(b, r.gone)) + Len(r.placed) <= Larger(Len(b), Len(targets))
  BY <1>9, <1>10, <1>11, <1>12, <1>13, <1>14, <1>15
<1>17. QED
  BY <1>9, <1>16 DEF r

\* A book without protected orders, and what does not make one longer.
Plain == {o \in Order : Own(o)}
Shorter(c, b) == c \in Seq(Plain) /\ Len(c) <= Len(b)

LEMMA PlainFacts ==
  ASSUME NEW b \in Seq(Plain)
  PROVE  /\ Len(b) \in Nat /\ DOMAIN b = 1 .. Len(b) /\ b \in Seq(Order) /\ AllOwn(b)
         /\ \A gone : Shorter(Without(b, gone), b)
         /\ Shorter(Excused(b), b)
<1>1. Len(b) \in Nat /\ DOMAIN b = 1 .. Len(b) /\ \A i \in DOMAIN b : b[i] \in Plain
  OBVIOUS
<1>2. \A o \in Plain : o \in Order
  BY DEF Plain
<1>3. b \in Seq(Order)
  BY <1>2, Widens
<1>4. AllOwn(b)
  BY <1>1 DEF AllOwn, Plain
<1>5. ASSUME NEW gone PROVE Shorter(Without(b, gone), b)
  <2> DEFINE places == DOMAIN b \ gone
  <2>1. places \in SUBSET DOMAIN b /\ \A i \in places : b[i] \in Plain
    BY <1>1
  <2> HIDE DEF places
  <2>2. At(b, places) \in Seq(Plain) /\ Len(At(b, places)) <= Len(b)
    BY <2>1, AtTyped
  <2>3. QED
    BY <2>2 DEF Shorter, Without, places
<1>6. Shorter(Excused(b), b)
  <2>1. \A o \in Plain : [o EXCEPT !.bad = 0] \in Plain
    BY DEF Plain, Order, Own
  <2>2. Excused(b) \in Seq(Plain)
    BY <2>1, ExcusedIn
  <2>3. Len(Excused(b)) = Len(b)
    <3>1. DOMAIN Excused(b) = 1 .. Len(b)
      BY <1>1 DEF Excused
    <3>2. QED
      BY <2>2, <3>1, <1>1
  <2>4. QED
    BY <2>2, <2>3, <1>1 DEF Shorter
<1>7. QED
  BY <1>1, <1>3, <1>4, <1>5, <1>6

LEMMA ShorterIs ==
  ASSUME NEW b \in Seq(Plain), NEW c, NEW d, Shorter(c, b), Shorter(d, c)
  PROVE  Shorter(d, b)
<1>1. c \in Seq(Plain) /\ d \in Seq(Plain) /\ Len(d) <= Len(c) /\ Len(c) <= Len(b)
  BY DEF Shorter
<1>2. Len(b) \in Nat /\ Len(c) \in Nat /\ Len(d) \in Nat
  BY <1>1
<1>3. QED
  BY <1>1, <1>2 DEF Shorter

LEMMA BrokenShorter ==
  ASSUME NEW b \in Seq(Plain), NEW gone
  PROVE  Shorter(Excused(Without(b, gone)), b)
<1>1. Shorter(Without(b, gone), b)
  BY PlainFacts
<1>2. Without(b, gone) \in Seq(Plain)
  BY <1>1 DEF Shorter
<1>3. Shorter(Excused(Without(b, gone)), Without(b, gone))
  BY <1>2, PlainFacts
<1>4. QED
  BY <1>1, <1>3, ShorterIs

\* The most levels a ladder has.
Most == Max({Len(t) : t \in Ladders})
\* Some number bounds the levels (MM_LEVELS is one).
Bounded(levels) == levels \in Nat /\ \A t \in Ladders : Len(t) <= levels

LEMMA MostFacts ==
  ASSUME NEW levels, Bounded(levels)
  PROVE  Most \in Nat /\ \A t \in Ladders : Len(t) \in Nat /\ Len(t) <= Most
<1> DEFINE S == {Len(t) : t \in Ladders}
           T == {levels - n : n \in S}
<1>1. levels \in Nat /\ \A t \in Ladders : Len(t) \in Nat /\ Len(t) <= levels
  BY LadderFacts, TargetFacts DEF Bounded
<1>2. S \subseteq Nat /\ S # {} /\ \A n \in S : n <= levels
  BY <1>1, LaddersAssumption
<1> HIDE DEF S
<1>3. T \subseteq Nat /\ T # {}
  <2>1. \A n \in S : levels - n \in Nat
    BY <1>1, <1>2
  <2>2. QED
    BY <2>1, <1>2
<1>4. PICK least \in T : \A t \in T : least <= t
  BY <1>3, Least
<1>5. PICK x \in S : least = levels - x
  BY <1>4
<1>6. \A y \in S : x >= y
  <2> TAKE y \in S
  <2>1. least <= levels - y
    BY <1>4
  <2>2. x \in Nat /\ y \in Nat
    BY <1>2
  <2>3. QED
    BY <2>1, <2>2, <1>1, <1>5
<1>7. Max(S) \in S /\ \A y \in S : Max(S) >= y
  <2>1. Max(S) = CHOOSE z \in S : \A y \in S : z >= y
    BY DEF Max
  <2>2. QED
    BY <2>1, <1>6
<1>8. Most = Max(S)
  BY DEF Most, S
<1>9. \A t \in Ladders : Len(t) \in S
  BY DEF S
<1>10. \A t \in Ladders : Most >= Len(t)
  BY <1>7, <1>8, <1>9
<1>11. Most \in Nat
  BY <1>2, <1>7, <1>8
<1>12. QED
  BY <1>1, <1>10, <1>11

NoneProtected == \A o \in Foreign : ~o.prot
FewKept == book \in Seq(Plain) /\ Len(book) <= Most + foreign

\* Nothing but a pass and what others place makes a book longer.
LEMMA ShorterKeeps ==
  ASSUME FewKept, Most \in Nat, foreign \in Nat, foreign' = foreign, Shorter(book', book)
  PROVE  FewKept'
<1>1. book' \in Seq(Plain) /\ Len(book') <= Len(book) /\ Len(book) <= Most + foreign
  BY DEF Shorter, FewKept
<1>2. Len(book) \in Nat /\ Len(book') \in Nat
  BY <1>1 DEF FewKept
<1>3. Most' = Most
  BY DEF Most
<1>4. QED
  BY <1>1, <1>2, <1>3 DEF FewKept

LEMMA ListedShorter ==
  ASSUME book \in Seq(Plain), NEW fee
  PROVE  Listed(fee) \in Seq(Plain) /\ Shorter(Listed(fee), book)
<1>1. Shorter(book, book)
  BY PlainFacts DEF Shorter
<1>2. Shorter(Without(book, OwnPlaces(book)), book)
  BY PlainFacts
<1>3. QED
  BY <1>1, <1>2 DEF Listed, Shorter

LEMMA SyncFew ==
  ASSUME IInv, FewKept, Most \in Nat, \A t \in Ladders : Len(t) \in Nat /\ Len(t) <= Most,
         NEW fee \in Schedule, NEW targets \in Ladders, NEW cut, NEW refused,
         NEW signed \in {fee, listed}, Sync(fee, targets, cut, refused, signed)
  PROVE  FewKept'
<1> DEFINE b == Listed(fee)
           r == Pass(b, targets, cut, refused, fee, signed)
           rest == Without(b, r.gone)
<1>1. targets \in Targets /\ b \in Seq(Plain) /\ Shorter(b, book)
  BY ListedShorter, LadderFacts DEF FewKept
<1>2. spec' = fee /\ foreign' = foreign
  BY DEF Sync, StartCycle
<1>3. book' = rest \o r.placed \/ book' = Excused(rest \o r.placed)
  BY <1>2 DEF Sync
<1>4. foreign \in Nat /\ signed \in Nat
  BY ScheduleFacts, ConstantFacts DEF IInv, ClockKept
<1>5. stamps \in Seq(0 .. Window) /\ Within(stamps, spent)
  BY DEF IInv, StampsKept
<1> HIDE DEF b
<1>6. b \in Seq(Order) /\ AllOwn(b) /\ Len(b) \in Nat
  BY <1>1, PlainFacts
<1>7. r \in Passing(b, targets, signed) /\ Len(rest) + Len(r.placed) <= Larger(Len(b), Len(targets))
  BY <1>1, <1>5, <1>6, PassRoom
<1> HIDE DEF r
<1>8. rest \in Seq(Plain)
  BY <1>1, PlainFacts DEF Shorter
<1>9. r.placed \in Seq(Plain)
  <2>1. r.placed \in Seq(PlacedSet(targets, signed))
    BY <1>7 DEF Passing
  <2>2. \A o \in PlacedSet(targets, signed) : o \in Plain
    BY <1>1, <1>4, PlacedFacts DEF Plain
  <2>3. QED
    BY <2>1, <2>2, Widens
<1> HIDE DEF rest
<1>10. rest \o r.placed \in Seq(Plain) /\ Len(rest \o r.placed) = Len(rest) + Len(r.placed)
  BY <1>8, <1>9
<1>11. book' \in Seq(Plain) /\ Len(book') <= Len(rest) + Len(r.placed)
  <2> DEFINE all == rest \o r.placed
  <2>1. all \in Seq(Plain) /\ Len(all) = Len(rest) + Len(r.placed) /\ (book' = all \/ book' = Excused(all))
    BY <1>3, <1>10
  <2> HIDE DEF all
  <2>2. Excused(all) \in Seq(Plain) /\ Len(Excused(all)) <= Len(all) /\ Len(all) \in Nat
    BY <2>1, PlainFacts DEF Shorter
  <2>3. QED
    BY <2>1, <2>2
<1>12. Larger(Len(b), Len(targets)) <= Most + foreign
  <2>1. Len(b) <= Len(book) /\ Len(book) <= Most + foreign /\ Len(book) \in Nat
    BY <1>1 DEF Shorter, FewKept
  <2>2. Len(targets) \in Nat /\ Len(targets) <= Most
    OBVIOUS
  <2>3. Len(b) <= Most + foreign /\ Len(targets) <= Most + foreign
    BY <2>1, <2>2, <1>4, <1>6
  <2>4. QED
    BY <2>3 DEF Larger
<1>13. Len(book') <= Most + foreign'
  <2>1. Len(rest) \in Nat /\ Len(r.placed) \in Nat /\ Len(book') \in Nat
    BY <1>8, <1>9, <1>11
  <2>2. Larger(Len(b), Len(targets)) \in Nat
    BY <1>1, <1>6, TargetFacts DEF Larger
  <2>3. QED
    BY <2>1, <2>2, <1>2, <1>4, <1>7, <1>11, <1>12
<1>14. QED
  BY <1>11, <1>13 DEF FewKept, Most

LEMMA TickShorter ==
  ASSUME book \in Seq(Plain), Tick
  PROVE  Shorter(book', book)
<1> DEFINE aged == [i \in DOMAIN book |-> Aged(book[i])]
           T == {Aged(o) : o \in Plain}
           stay == {i \in DOMAIN aged : aged[i].left > 0}
<1>1. Len(book) \in Nat /\ DOMAIN book = 1 .. Len(book) /\ \A i \in DOMAIN book : book[i] \in Plain
  OBVIOUS
<1>2. aged \in [1 .. Len(book) -> T]
  BY <1>1
<1>3. \A e \in T : e.left > 0 => e \in Plain
  BY AgedFacts DEF Plain, Own
<1>4. book' = At(aged, stay)
  BY DEF Tick
<1> HIDE DEF T, aged
<1>5. aged \in Seq(T) /\ Len(aged) = Len(book)
  BY <1>1, <1>2
<1>6. stay \in SUBSET DOMAIN aged /\ \A i \in stay : aged[i] \in Plain
  BY <1>3, <1>5
<1> HIDE DEF stay
<1>7. At(aged, stay) \in Seq(Plain) /\ Len(At(aged, stay)) <= Len(aged)
  BY <1>5, <1>6, AtTyped
<1>8. QED
  BY <1>4, <1>5, <1>7 DEF Shorter

LEMMA FewStep ==
  ASSUME IInv, FewKept, NoneProtected, NEW levels, Bounded(levels), [Next]_vars
  PROVE  FewKept'
<1>1. Most \in Nat /\ \A t \in Ladders : Len(t) \in Nat /\ Len(t) <= Most
  BY MostFacts
<1>2. foreign \in Nat /\ book \in Seq(Plain)
  BY ConstantFacts DEF IInv, ClockKept, FewKept
<1>3. ASSUME foreign' = foreign, Shorter(book', book) PROVE FewKept'
  BY <1>1, <1>2, <1>3, ShorterKeeps
<1>4. Shorter(book, book)
  BY <1>2, PlainFacts DEF Shorter
<1>5. ASSUME NEW fee \in Schedule, NEW b, b = book \/ b = Listed(fee), NEW gone,
             StartCycle(fee), Broken(b, gone)
      PROVE  FewKept'
  <2>1. foreign' = foreign /\ book' = Excused(Without(b, gone))
    BY <1>5 DEF StartCycle, Broken
  <2>2. b \in Seq(Plain) /\ Shorter(b, book)
    BY <1>2, <1>4, <1>5, ListedShorter
  <2>3. Shorter(Excused(Without(b, gone)), b)
    BY <2>2, BrokenShorter
  <2>4. Shorter(book', book)
    BY <2>1, <2>2, <2>3, <1>2, ShorterIs
  <2>5. QED
    BY <2>1, <2>4, <1>3
<1>6. ASSUME NEW fee \in Schedule, FeeCancelFails(fee) PROVE FewKept'
  BY <1>5, <1>6 DEF FeeCancelFails
<1>7. ASSUME NEW fee \in Schedule, LoadFails(fee) PROVE FewKept'
  BY <1>5, <1>7 DEF LoadFails
<1>8. ASSUME NEW fee \in Schedule, AgeHalts(fee) PROVE FewKept'
  <2>1. CASE \E gone \in SUBSET OwnPlaces(Listed(fee)) : Broken(Listed(fee), gone)
    BY <2>1, <1>5, <1>8 DEF AgeHalts
  <2>2. CASE book' = Without(Listed(fee), OwnPlaces(Listed(fee)))
    <3>1. Listed(fee) \in Seq(Plain) /\ Shorter(Listed(fee), book)
      BY <1>2, ListedShorter
    <3>2. Shorter(book', Listed(fee))
      BY <2>2, <3>1, PlainFacts
    <3>3. Shorter(book', book)
      BY <3>1, <3>2, <1>2, ShorterIs
    <3>4. foreign' = foreign
      BY <1>8 DEF AgeHalts, StartCycle
    <3>5. QED
      BY <3>3, <3>4, <1>3
  <2>3. QED
    BY <2>1, <2>2, <1>8 DEF AgeHalts
<1>9. ASSUME NEW fee \in Schedule, Throttled(fee) PROVE FewKept'
  <2>1. foreign' = foreign /\ book' = Listed(fee)
    BY <1>9 DEF Throttled, StartCycle
  <2>2. QED
    BY <2>1, <1>2, <1>3, ListedShorter
<1>10. ASSUME Cycle PROVE FewKept'
  <2>1. PICK fee \in Schedule :
          \/ FeeCancelFails(fee) \/ LoadFails(fee) \/ AgeHalts(fee) \/ Throttled(fee)
          \/ \E targets \in Ladders, end \in Endings, signed \in {fee, listed} :
               Sync(fee, targets, end.cut, end.refused, signed)
    BY <1>10 DEF Cycle
  <2>2. ASSUME NEW targets \in Ladders, NEW end \in Endings, NEW signed \in {fee, listed},
               Sync(fee, targets, end.cut, end.refused, signed)
        PROVE  FewKept'
    BY <2>2, <1>1, SyncFew
  <2>3. QED
    BY <2>1, <2>2, <1>6, <1>7, <1>8, <1>9
<1>11. ASSUME NEW targets \in Ladders, Boot(targets) PROVE FewKept'
  <2>1. foreign' = foreign
    BY <1>11 DEF Boot
  <2>2. \E gone : book' = Excused(Without(book, gone)) \/ book' = Without(book, gone)
    BY <1>11 DEF Boot
  <2>3. Shorter(book', book)
    BY <2>2, <1>2, BrokenShorter, PlainFacts
  <2>4. QED
    BY <2>1, <2>3, <1>3
<1>12. ASSUME Crash PROVE FewKept'
  <2>1. foreign' = foreign /\ book' = Excused(book)
    BY <1>12 DEF Crash
  <2>2. QED
    BY <2>1, <1>2, <1>3, PlainFacts
<1>13. ASSUME Tick PROVE FewKept'
  <2>1. foreign' = foreign
    BY <1>13 DEF Tick
  <2>2. QED
    BY <2>1, <1>2, <1>3, <1>13, TickShorter
<1>14. ASSUME NEW fee \in Fees, ListFee(fee) PROVE FewKept'
  <2>1. foreign' = foreign /\ book' = book
    BY <1>14 DEF ListFee
  <2>2. QED
    BY <2>1, <1>3, <1>4
<1>15. ASSUME NEW o \in Foreign, Arrive(o) PROVE FewKept'
  <2>1. book' = Append(book, o) /\ foreign' = foreign + 1
    BY <1>15 DEF Arrive
  <2>2. o \in Plain
    BY ForeignAssumption DEF NoneProtected, Plain, Own
  <2>3. book' \in Seq(Plain) /\ Len(book') = Len(book) + 1 /\ Len(book) \in Nat
    BY <2>1, <2>2, <1>2
  <2>4. Len(book) <= Most + foreign
    BY DEF FewKept
  <2>5. Len(book') <= Most + foreign'
    BY <2>1, <2>3, <2>4, <1>1, <1>2
  <2>6. QED
    BY <2>3, <2>5 DEF FewKept, Most
<1>16. ASSUME NEW i \in DOMAIN book, Depart(i) PROVE FewKept'
  <2>1. foreign' = foreign /\ book' = Without(book, {i})
    BY <1>16 DEF Depart
  <2>2. QED
    BY <2>1, <1>2, <1>3, PlainFacts
<1>17. ASSUME UNCHANGED vars PROVE FewKept'
  <2>1. foreign' = foreign /\ book' = book
    BY <1>17 DEF vars
  <2>2. QED
    BY <2>1, <1>3, <1>4
<1>18. QED
  BY <1>10, <1>11, <1>12, <1>13, <1>14, <1>15, <1>16, <1>17 DEF Next

\* Whatever fails, is put off, refused or placed by others, a book without protected orders never
\* holds more orders than the longest ladder has levels, but for those that others placed: a slot
\* is placed only once its order is off, and no level is empty while an order is left over
\* (pairByPrice, reconcileSide).
THEOREM LadderIsBounded ==
  ASSUME NEW CONSTANT levels, Bounded(levels)
  PROVE  Spec => []LadderBound
<1> DEFINE Few == NoneProtected => FewKept
<1>1. Init => Few
  <2> SUFFICES ASSUME Init PROVE FewKept
    OBVIOUS
  <2>1. book = <<>> /\ foreign = 0
    BY DEF Init
  <2>2. Most \in Nat
    BY MostFacts
  <2>3. QED
    BY <2>1, <2>2 DEF FewKept
<1>2. IInv /\ Few /\ [Next]_vars => Few'
  <2> SUFFICES ASSUME IInv, Few, [Next]_vars, NoneProtected' PROVE FewKept'
    OBVIOUS
  <2>1. NoneProtected
    BY DEF NoneProtected
  <2>2. QED
    BY <2>1, FewStep
<1>3. Few => LadderBound
  BY DEF FewKept, LadderBound, NoneProtected, Most
<1> HIDE DEF Few
<1>4. QED
  BY <1>1, <1>2, <1>3, Invariant, PTL DEF Spec

=============================================================================
