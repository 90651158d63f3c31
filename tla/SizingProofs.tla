---------------------------- MODULE SizingProofs ----------------------------
(***************************************************************************)
(* Proofs about Sizing for any settings, indices, books and overrides.     *)
(* First sums over finite sets, then the inductive invariant IInv and what *)
(* the strategy's operators return, then one lemma per action, then the    *)
(* theorems. The fixed point of the ladder has two more invariants,        *)
(* Afresh and Settled.                                                     *)
(***************************************************************************)
EXTENDS Sizing, FiniteSetTheorems, NaturalsInduction, TLAPS

(* Naturals, and functions defined from the one before.                    *)

LEMMA Least ==
  ASSUME NEW T, T \subseteq Nat, T # {}
  PROVE  \E s \in T : \A t \in T : s <= t
<1>1. PICK s \in T : \A t \in T : ~(<<t, s>> \in OpToRel(<, Nat))
  BY NatLessThanWellFounded, WFMin
<1>2. \A t \in T : ~(t < s)
  BY <1>1 DEF OpToRel
<1>3. QED
  BY <1>2

\* Induction up to n, for the members of a set.
LEMMA Climb ==
  ASSUME NEW n \in Nat, NEW P, 0 \in P, \A k \in 1 .. n : k - 1 \in P => k \in P
  PROVE  \A k \in 0 .. n : k \in P
<1> DEFINE T == {k \in 0 .. n : k \notin P}
<1>1. CASE T = {}
  BY <1>1
<1>2. CASE T # {}
  <2>1. T \subseteq Nat
    OBVIOUS
  <2>2. PICK s \in T : \A t \in T : s <= t
    BY <1>2, <2>1, Least
  <2>3. s # 0 /\ s \in 1 .. n
    OBVIOUS
  <2>4. s - 1 \notin T /\ s - 1 \in 0 .. n
    BY <2>2, <2>3
  <2>5. QED
    BY <2>3, <2>4
<1>3. QED
  BY <1>1, <1>2

\* A function that each step takes further, from base, within D.
Stepwise(g, n, base, G) == g = [k \in 0 .. n |-> IF k = 0 THEN base ELSE G[k][g[k - 1]]]

LEMMA StepwiseExists ==
  ASSUME NEW n \in Nat, NEW D, NEW base \in D, NEW G \in [1 .. n -> [D -> D]]
  PROVE  \E g \in [0 .. n -> D] : Stepwise(g, n, base, G)
<1> DEFINE Good(g, m) == g[0] = base /\ \A k \in 1 .. m : g[k] = G[k][g[k - 1]]
           some(m) == \E g \in [0 .. m -> D] : Good(g, m)
           P == {m \in 0 .. n : some(m)}
<1>1. some(0)
  <2>1. [k \in 0 .. 0 |-> base] \in [0 .. 0 -> D] /\ Good([k \in 0 .. 0 |-> base], 0)
    OBVIOUS
  <2>2. QED
    BY <2>1
<1>2. ASSUME NEW m \in 1 .. n, some(m - 1) PROVE some(m)
  <2>1. PICK g \in [0 .. m - 1 -> D] : Good(g, m - 1)
    BY <1>2
  <2> DEFINE last == G[m][g[m - 1]]
             h == [k \in 0 .. m |-> IF k = m THEN last ELSE g[k]]
  <2>2. last \in D
    BY <2>1
  <2>3. h \in [0 .. m -> D]
    BY <2>1, <2>2
  <2>4. h[0] = base /\ h[m - 1] = g[m - 1] /\ h[m] = G[m][h[m - 1]]
    BY <2>1
  <2>5. \A k \in 1 .. m : h[k] = G[k][h[k - 1]]
    <3> TAKE k \in 1 .. m
    <3>1. CASE k = m
      BY <3>1, <2>4
    <3>2. CASE k # m
      <4>1. k \in 1 .. m - 1 /\ k - 1 \in 0 .. m - 1 /\ k - 1 # m
        BY <3>2
      <4>2. h[k] = g[k] /\ h[k - 1] = g[k - 1] /\ g[k] = G[k][g[k - 1]]
        BY <4>1, <2>1
      <4>3. QED
        BY <4>2
    <3>3. QED
      BY <3>1, <3>2
  <2>6. QED
    BY <2>3, <2>4, <2>5
<1> HIDE DEF some
<1>3. 0 \in P /\ \A m \in 1 .. n : m - 1 \in P => m \in P
  BY <1>1, <1>2
<1> HIDE DEF P
<1>4. \A k \in 0 .. n : k \in P
  BY <1>3, Climb
<1>5. n \in P
  BY <1>4
<1>6. some(n)
  BY <1>5 DEF P
<1>7. PICK g \in [0 .. n -> D] : Good(g, n)
  BY <1>6 DEF some
<1>8. \A k \in 0 .. n : g[k] = IF k = 0 THEN base ELSE G[k][g[k - 1]]
  BY <1>7
<1>9. g = [k \in 0 .. n |-> IF k = 0 THEN base ELSE G[k][g[k - 1]]]
  BY <1>8
<1>10. QED
  BY <1>9 DEF Stepwise

-----------------------------------------------------------------------------
(* Finite sets, one member after another, and sums over them.              *)

\* A collection that a finite set belongs to when all that is one member short of it does.
LEMMA SetClimb ==
  ASSUME NEW S, IsFiniteSet(S), NEW P, {} \in P,
         \A T \in SUBSET S : T # {} /\ (\A x \in T : T \ {x} \in P) => T \in P
  PROVE  \A T \in SUBSET S : T \in P
<1> DEFINE n == Cardinality(S)
           small(k) == \A T \in SUBSET S : Cardinality(T) = k => T \in P
           Q == {k \in 0 .. n : small(k)}
<1>1. \A T \in SUBSET S : IsFiniteSet(T) /\ Cardinality(T) \in 0 .. n
  BY FS_Subset, FS_CardinalityType
<1>2. n \in Nat
  BY FS_CardinalityType
<1>3. 0 \in Q
  <2>1. \A T \in SUBSET S : Cardinality(T) = 0 => T = {}
    BY <1>1, FS_EmptySet
  <2>2. small(0)
    BY <2>1
  <2>3. 0 \in 0 .. n
    BY <1>2
  <2> HIDE DEF small
  <2>4. QED
    BY <2>2, <2>3
<1>4. \A k \in 1 .. n : k - 1 \in Q => k \in Q
  <2> SUFFICES ASSUME NEW k \in 1 .. n, small(k - 1), NEW T \in SUBSET S, Cardinality(T) = k PROVE T \in P
    BY <1>2
  <2>0. Cardinality(T) # 0
    BY <1>2
  <2>1. T # {}
    BY <2>0, FS_EmptySet
  <2>2. \A x \in T : T \ {x} \in SUBSET S /\ Cardinality(T \ {x}) = k - 1
    BY <1>1, FS_RemoveElement
  <2>3. \A x \in T : T \ {x} \in P
    BY <2>2
  <2>4. QED
    BY <2>1, <2>3
<1> HIDE DEF small
<1> HIDE DEF Q
<1>5. \A k \in 0 .. n : k \in Q
  BY <1>2, <1>3, <1>4, Climb
<1>6. \A k \in 0 .. n : small(k)
  BY <1>5 DEF Q
<1>7. QED
  BY <1>1, <1>6 DEF small

\* What every subset of S sums to, whichever member is taken first.
Sums(g, f, S) ==
  /\ g \in [SUBSET S -> Int]
  /\ g[{}] = 0
  /\ \A T \in SUBSET S : \A x \in T : g[T] = f[x] + g[T \ {x}]

LEMMA SumsExist ==
  ASSUME NEW S, IsFiniteSet(S), NEW f, \A x \in S : f[x] \in Int
  PROVE  \E g : Sums(g, f, S)
<1> DEFINE P == {T \in SUBSET S : \E g : Sums(g, f, T)}
<1>1. {} \in P
  <2>1. Sums([T \in SUBSET {} |-> 0], f, {})
    BY DEF Sums
  <2>2. QED
    BY <2>1
<1>2. ASSUME NEW U \in SUBSET S, NEW e \in U, U \ {e} \in P PROVE U \in P
  <2>1. PICK g : Sums(g, f, U \ {e})
    BY <1>2
  <2> DEFINE h == [T \in SUBSET U |-> IF e \in T THEN f[e] + g[T \ {e}] ELSE g[T]]
  <2>2. /\ \A T \in SUBSET U : e \notin T => T \in SUBSET (U \ {e})
        /\ \A T \in SUBSET U : T \ {e} \in SUBSET (U \ {e})
        /\ \A T \in SUBSET U : \A x \in T : T \ {x} \in SUBSET U
        /\ {} \in SUBSET U
    OBVIOUS
  <2>3. f[e] \in Int /\ \A x \in U : f[x] \in Int
    OBVIOUS
  <2>4. h \in [SUBSET U -> Int]
    <3>1. \A T \in SUBSET U : h[T] \in Int
      BY <2>1, <2>2, <2>3 DEF Sums
    <3>2. QED
      BY <3>1
  <2>5. h[{}] = 0
    BY <2>1, <2>2 DEF Sums
  <2>6. ASSUME NEW T \in SUBSET U, NEW x \in T PROVE h[T] = f[x] + h[T \ {x}]
    <3>1. CASE e \notin T
      <4>1. T \in SUBSET (U \ {e}) /\ h[T] = g[T] /\ h[T \ {x}] = g[T \ {x}]
        BY <3>1, <2>2
      <4>2. QED
        BY <4>1, <2>1 DEF Sums
    <3>2. CASE x = e
      BY <3>2, <2>2
    <3>3. CASE e \in T /\ x # e
      <4>1. h[T] = f[e] + g[T \ {e}]
        BY <3>3
      <4>2. h[T \ {x}] = f[e] + g[(T \ {x}) \ {e}]
        BY <3>3, <2>2
      <4>3. (T \ {x}) \ {e} = (T \ {e}) \ {x}
        OBVIOUS
      <4>4. g[T \ {e}] = f[x] + g[(T \ {e}) \ {x}]
        BY <3>3, <2>1, <2>2 DEF Sums
      <4>5. g[(T \ {e}) \ {x}] \in Int /\ f[x] \in Int
        BY <2>1, <2>2, <2>3 DEF Sums
      <4> DEFINE v == g[(T \ {e}) \ {x}]
      <4>6. h[T] = f[e] + (f[x] + v) /\ h[T \ {x}] = f[e] + v /\ v \in Int
        BY <4>1, <4>2, <4>3, <4>4, <4>5
      <4> HIDE DEF v, h
      <4>7. QED
        BY <4>5, <4>6, <2>3
    <3>4. QED
      BY <3>1, <3>2, <3>3
  <2> HIDE DEF h
  <2>7. Sums(h, f, U)
    BY <2>4, <2>5, <2>6 DEF Sums
  <2>8. QED
    BY <2>7
<1> HIDE DEF P
<1>3. \A T \in SUBSET S : T \in P
  BY <1>1, <1>2, SetClimb
<1>4. QED
  BY <1>3 DEF P

Chosen(T) == CHOOSE x \in T : TRUE
IsFold(h, f, S) ==
  h = [T \in SUBSET S |-> IF T = {} THEN 0 ELSE f[Chosen(T)] + h[T \ {Chosen(T)}]]

LEMMA TotalIs ==
  ASSUME NEW S, NEW f
  PROVE  Total(S, f) = (CHOOSE h : IsFold(h, f, S))[S]
BY DEF Total, SumFunctionOnSet, FoldFunctionOnSet, MapThenFoldSet, IsFold, Chosen

LEMMA TotalSums ==
  ASSUME NEW S, IsFiniteSet(S), NEW f, \A x \in S : f[x] \in Int, NEW g, Sums(g, f, S)
  PROVE  \A T \in SUBSET S : Total(T, f) = g[T]
<1> SUFFICES ASSUME NEW T \in SUBSET S PROVE Total(T, f) = g[T]
  OBVIOUS
<1> DEFINE h == CHOOSE h : IsFold(h, f, T)
           k == [U \in SUBSET T |-> g[U]]
           P == {U \in SUBSET T : h[U] = g[U]}
<1>1. \A U \in SUBSET T : U # {} => Chosen(U) \in U
  BY DEF Chosen
<1>2. IsFold(k, f, T)
  <2>1. ASSUME NEW U \in SUBSET T PROVE k[U] = IF U = {} THEN 0 ELSE f[Chosen(U)] + k[U \ {Chosen(U)}]
    <3>1. CASE U = {}
      BY <3>1 DEF Sums
    <3>2. CASE U # {}
      <4>1. Chosen(U) \in U /\ U \in SUBSET S /\ U \ {Chosen(U)} \in SUBSET T
        BY <3>2, <1>1
      <4>2. g[U] = f[Chosen(U)] + g[U \ {Chosen(U)}]
        BY <4>1 DEF Sums
      <4>3. QED
        BY <3>2, <4>1, <4>2
    <3>3. QED
      BY <3>1, <3>2
  <2>2. k = [U \in SUBSET T |-> k[U]]
    OBVIOUS
  <2> HIDE DEF k
  <2>3. QED
    BY <2>1, <2>2 DEF IsFold
<1>3. IsFold(h, f, T)
  BY <1>2
<1> HIDE DEF h
<1>4. {} \in P
  BY <1>3 DEF IsFold, Sums
<1>5. \A U \in SUBSET T : U # {} /\ (\A x \in U : U \ {x} \in P) => U \in P
  <2> SUFFICES ASSUME NEW U \in SUBSET T, U # {}, \A x \in U : U \ {x} \in P PROVE h[U] = g[U]
    OBVIOUS
  <2>1. Chosen(U) \in U /\ U \in SUBSET S
    BY <1>1
  <2>2. h[U] = f[Chosen(U)] + h[U \ {Chosen(U)}]
    BY <1>3 DEF IsFold
  <2>3. g[U] = f[Chosen(U)] + g[U \ {Chosen(U)}]
    BY <2>1 DEF Sums
  <2>4. h[U \ {Chosen(U)}] = g[U \ {Chosen(U)}]
    BY <2>1
  <2>5. QED
    BY <2>2, <2>3, <2>4
<1> HIDE DEF P
<1>6. IsFiniteSet(T)
  BY FS_Subset
<1>7. T \in P
  BY <1>4, <1>5, <1>6, SetClimb
<1>8. QED
  BY <1>7, TotalIs DEF P, h

\* Total: nothing of nothing, and any member can be taken off first.
LEMMA TotalFacts ==
  ASSUME NEW S, IsFiniteSet(S), NEW f, \A x \in S : f[x] \in Int
  PROVE  /\ Total(S, f) \in Int
         /\ Total({}, f) = 0
         /\ \A x \in S : Total(S, f) = f[x] + Total(S \ {x}, f)
<1>1. PICK g : Sums(g, f, S)
  BY SumsExist
<1>2. \A T \in SUBSET S : Total(T, f) = g[T]
  BY <1>1, TotalSums
<1>3. S \in SUBSET S /\ {} \in SUBSET S /\ \A x \in S : S \ {x} \in SUBSET S
  OBVIOUS
<1>4. QED
  BY <1>1, <1>2, <1>3 DEF Sums

LEMMA TotalSame ==
  ASSUME NEW S, IsFiniteSet(S), NEW f, \A x \in S : f[x] \in Int, NEW h, \A x \in S : h[x] = f[x]
  PROVE  Total(S, h) = Total(S, f)
<1>1. PICK g : Sums(g, f, S)
  BY SumsExist
<1>2. Sums(g, h, S)
  BY <1>1 DEF Sums
<1>3. \A x \in S : h[x] \in Int
  OBVIOUS
<1>4. S \in SUBSET S
  OBVIOUS
<1>5. QED
  BY <1>1, <1>2, <1>3, <1>4, TotalSums

LEMMA TotalNone == \A f : Total({}, f) = 0
<1> TAKE f
<1>1. \A x \in {} : f[x] \in Int
  OBVIOUS
<1>2. QED
  BY <1>1, FS_EmptySet, TotalFacts

LEMMA TotalAdd ==
  ASSUME NEW S, IsFiniteSet(S), NEW e, e \notin S, NEW f, \A x \in S \cup {e} : f[x] \in Int
  PROVE  Total(S \cup {e}, f) = f[e] + Total(S, f)
<1>1. IsFiniteSet(S \cup {e})
  BY FS_AddElement
<1>2. (S \cup {e}) \ {e} = S
  OBVIOUS
<1>3. Total(S \cup {e}, f) = f[e] + Total((S \cup {e}) \ {e}, f)
  BY <1>1, TotalFacts
<1>4. QED
  BY <1>2, <1>3

LEMMA TotalNat ==
  ASSUME NEW S, IsFiniteSet(S), NEW f, \A x \in S : f[x] \in Nat
  PROVE  Total(S, f) \in Nat
<1> DEFINE P == {T \in SUBSET S : Total(T, f) \in Nat}
<1>1. {} \in P
  BY TotalNone
<1>2. \A T \in SUBSET S : T # {} /\ (\A x \in T : T \ {x} \in P) => T \in P
  <2> SUFFICES ASSUME NEW T \in SUBSET S, NEW x \in T, T \ {x} \in P PROVE Total(T, f) \in Nat
    OBVIOUS
  <2>1. IsFiniteSet(T) /\ \A y \in T : f[y] \in Int
    BY FS_Subset
  <2>2. Total(T, f) = f[x] + Total(T \ {x}, f)
    BY <2>1, TotalFacts
  <2>3. QED
    BY <2>2
<1> HIDE DEF P
<1>3. \A T \in SUBSET S : T \in P
  BY <1>1, <1>2, SetClimb
<1>4. QED
  BY <1>3 DEF P

LEMMA TotalSubset ==
  ASSUME NEW B, IsFiniteSet(B), NEW g, \A x \in B : g[x] \in Nat, NEW A \in SUBSET B
  PROVE  Total(A, g) <= Total(B, g)
<1> DEFINE P == {T \in SUBSET (B \ A) : Total(A, g) <= Total(A \cup T, g)}
<1>1. \A T \in SUBSET (B \ A) : IsFiniteSet(A \cup T) /\ \A x \in A \cup T : g[x] \in Int
  <2>1. \A T \in SUBSET (B \ A) : A \cup T \in SUBSET B
    OBVIOUS
  <2>2. QED
    BY <2>1, FS_Subset
<1>2. {} \in P
  <2>1. A \cup {} = A
    OBVIOUS
  <2>2. IsFiniteSet(A) /\ \A x \in A : g[x] \in Int
    BY FS_Subset
  <2>3. Total(A, g) \in Int
    BY <2>2, TotalFacts
  <2>4. QED
    BY <2>1, <2>3
<1>3. \A T \in SUBSET (B \ A) : T # {} /\ (\A x \in T : T \ {x} \in P) => T \in P
  <2> SUFFICES ASSUME NEW T \in SUBSET (B \ A), NEW x \in T, T \ {x} \in P
               PROVE  Total(A, g) <= Total(A \cup T, g)
    OBVIOUS
  <2> DEFINE U == A \cup (T \ {x})
  <2>1. (A \cup T) \ {x} = U
    OBVIOUS
  <2>2. Total(A \cup T, g) = g[x] + Total((A \cup T) \ {x}, g)
    BY <1>1, TotalFacts
  <2>3. Total(U, g) \in Int /\ Total(A, g) \in Int
    BY <1>1, <1>2, TotalFacts, FS_Subset
  <2>4. Total(A, g) <= Total(U, g) /\ g[x] \in Nat
    OBVIOUS
  <2> HIDE DEF U
  <2>5. QED
    BY <2>1, <2>2, <2>3, <2>4
<1>4. IsFiniteSet(B \ A)
  BY FS_Subset
<1> HIDE DEF P
<1>5. \A T \in SUBSET (B \ A) : T \in P
  BY <1>2, <1>3, <1>4, SetClimb
<1>6. A \cup (B \ A) = B
  OBVIOUS
<1>7. B \ A \in P
  BY <1>5
<1>8. QED
  BY <1>6, <1>7 DEF P

\* Members that go to members of their own, none of them larger than where it goes.
LEMMA TotalInto ==
  ASSUME NEW A, IsFiniteSet(A), NEW B, IsFiniteSet(B), NEW m \in [A -> B],
         \A x, y \in A : m[x] = m[y] => x = y,
         NEW f, \A x \in A : f[x] \in Int, NEW g, \A y \in B : g[y] \in Nat,
         \A x \in A : f[x] <= g[m[x]]
  PROVE  Total(A, f) <= Total(B, g)
<1> DEFINE image(T) == {m[x] : x \in T}
           P == {T \in SUBSET A : Total(T, f) <= Total(image(T), g)}
<1>1. \A T \in SUBSET A : image(T) \in SUBSET B /\ IsFiniteSet(image(T)) /\ IsFiniteSet(T)
  <2>1. \A T \in SUBSET A : image(T) \in SUBSET B
    OBVIOUS
  <2>2. QED
    BY <2>1, FS_Subset
<1>2. {} \in P
  <2>1. image({}) = {}
    OBVIOUS
  <2>2. QED
    BY <2>1, TotalNone
<1>3. \A T \in SUBSET A : T # {} /\ (\A x \in T : T \ {x} \in P) => T \in P
  <2> SUFFICES ASSUME NEW T \in SUBSET A, NEW x \in T, T \ {x} \in P PROVE Total(T, f) <= Total(image(T), g)
    OBVIOUS
  <2>1. image(T) \ {m[x]} = image(T \ {x})
    OBVIOUS
  <2>2. Total(T, f) = f[x] + Total(T \ {x}, f) /\ Total(T \ {x}, f) \in Int
    <3>1. IsFiniteSet(T) /\ IsFiniteSet(T \ {x}) /\ (\A y \in T : f[y] \in Int) /\ \A y \in T \ {x} : f[y] \in Int
      BY <1>1, FS_Subset
    <3>2. QED
      BY <3>1, TotalFacts
  <2>3. m[x] \in image(T)
    OBVIOUS
  <2>4. Total(image(T), g) = g[m[x]] + Total(image(T) \ {m[x]}, g) /\ Total(image(T \ {x}), g) \in Int
    <3>1. /\ IsFiniteSet(image(T)) /\ IsFiniteSet(image(T \ {x}))
          /\ (\A y \in image(T) : g[y] \in Int) /\ \A y \in image(T \ {x}) : g[y] \in Int
      <4>1. T \ {x} \in SUBSET A /\ \A y \in B : g[y] \in Int
        OBVIOUS
      <4> HIDE DEF image
      <4>2. QED
        BY <1>1, <4>1
    <3> HIDE DEF image
    <3>2. QED
      BY <2>3, <3>1, TotalFacts
  <2>5. Total(T \ {x}, f) <= Total(image(T \ {x}), g) /\ f[x] <= g[m[x]] /\ f[x] \in Int /\ g[m[x]] \in Int
    OBVIOUS
  <2> HIDE DEF image
  <2>6. QED
    BY <2>1, <2>2, <2>4, <2>5
<1> HIDE DEF P
<1>4. A \in P
  BY <1>2, <1>3, SetClimb
<1>5. Total(A, f) <= Total(image(A), g)
  BY <1>4 DEF P
<1>6. Total(image(A), g) <= Total(B, g)
  BY <1>1, TotalSubset
<1>7. Total(A, f) \in Int /\ Total(image(A), g) \in Int /\ Total(B, g) \in Int
  <2>1. IsFiniteSet(image(A)) /\ (\A y \in image(A) : g[y] \in Int) /\ \A y \in B : g[y] \in Int
    BY <1>1
  <2> HIDE DEF image
  <2>2. QED
    BY <2>1, TotalFacts
<1> HIDE DEF image
<1>8. QED
  BY <1>5, <1>6, <1>7

LEMMA TotalScaled ==
  ASSUME NEW S, IsFiniteSet(S), NEW f, \A x \in S : f[x] \in Int, NEW g, \A x \in S : g[x] \in Int,
         NEW M \in Int, \A x \in S : f[x] <= M * g[x]
  PROVE  Total(S, f) <= M * Total(S, g)
<1> DEFINE P == {T \in SUBSET S : Total(T, f) <= M * Total(T, g)}
<1>1. {} \in P
  BY TotalNone
<1>2. \A T \in SUBSET S : T # {} /\ (\A x \in T : T \ {x} \in P) => T \in P
  <2> SUFFICES ASSUME NEW T \in SUBSET S, NEW x \in T, T \ {x} \in P PROVE Total(T, f) <= M * Total(T, g)
    OBVIOUS
  <2> DEFINE u == Total(T \ {x}, f)
             v == Total(T \ {x}, g)
  <2>1. IsFiniteSet(T) /\ IsFiniteSet(T \ {x})
    BY FS_Subset
  <2>2. /\ (\A y \in T : f[y] \in Int) /\ \A y \in T \ {x} : f[y] \in Int
        /\ (\A y \in T : g[y] \in Int) /\ \A y \in T \ {x} : g[y] \in Int
    OBVIOUS
  <2>3. Total(T, f) = f[x] + u /\ u \in Int
    BY <2>1, <2>2, TotalFacts
  <2>4. Total(T, g) = g[x] + v /\ v \in Int
    BY <2>1, <2>2, TotalFacts
  <2>5. u <= M * v /\ f[x] <= M * g[x] /\ f[x] \in Int /\ g[x] \in Int
    OBVIOUS
  <2> HIDE DEF u, v
  <2> DEFINE a == f[x]
             b == g[x]
  <2>6. M * (b + v) = M * b + M * v /\ M * b \in Int /\ M * v \in Int
    BY <2>4, <2>5
  <2> HIDE DEF a, b
  <2>7. Total(T, f) = a + u /\ Total(T, g) = b + v /\ a <= M * b /\ a \in Int
    BY <2>3, <2>4, <2>5 DEF a, b
  <2>8. a + u <= M * b + M * v
    BY <2>3, <2>5, <2>6, <2>7
  <2>9. QED
    BY <2>6, <2>7, <2>8
<1> HIDE DEF P
<1>3. \A T \in SUBSET S : T \in P
  BY <1>1, <1>2, SetClimb
<1>4. QED
  BY <1>3 DEF P

-----------------------------------------------------------------------------
(* The inductive invariant.                                                *)

Order == [side : Sides, price : Nat \ {0}, desired : Nat \ {0}, left : Nat \ {0}]
Place == [side : Sides, price : Nat \ {0}]
Pair == [buy : Nat, sell : Nat]
Reading == [own : SUBSET (Place \cup Order), others : Pair, inv : Int, cash : Int, reserved : Pair, mine : Pair]
LimitSet == [long : Int, short : Int, opening : [buy : Int, sell : Int], bound : Int, lo : Int, hi : Int,
             late : Pair, sound : BOOLEAN]

\* One at a price, in the band, and no buy at or above a sell.
Single(S) == \A o, q \in S : o.side = q.side /\ o.price = q.price => o = q
Inside(S, limits) == kind = "engine" => \A q \in S : limits.lo <= q.price /\ q.price <= limits.hi
Uncrossed(S) == \A b, a \in S : b.side = "buy" /\ a.side = "sell" => b.price < a.price

Typed ==
  /\ kind \in DOMAIN Config /\ pc \in {"book", "positions", "exposures", "decide", "sync"}
  /\ inv \in Int /\ cash \in Int
  /\ rest \in SUBSET Order /\ IsFiniteSet(rest) /\ \A o \in rest : o.left <= o.desired
  /\ others \in Books /\ index \in Indices /\ ov \in Overrides /\ trading \in BOOLEAN
  /\ read \in Reading
  /\ IsFiniteSet(read.own)
  /\ plan \in [ref : Nat, quotes : SUBSET Quoted, limits : LimitSet] /\ IsFiniteSet(plan.quotes)
  /\ terms \in LimitSet /\ late \in Pair /\ still \in 0 .. 2 /\ events \in 0 .. MaxEvents

\* Prices, of what is planned and of what rests.
Priced ==
  /\ Single(plan.quotes) /\ Inside(plan.quotes, plan.limits) /\ Uncrossed(plan.quotes)
  /\ Single(rest) /\ Inside(rest, terms) /\ Uncrossed(rest)

\* The position that was read, and what has filled since.
Raced ==
  pc \in {"exposures", "decide", "sync"} =>
    /\ inv = read.inv + late.buy - late.sell
    /\ late = None => cash = read.cash

\* An order of the listing is there, smaller or not at all.
Listed ==
  pc = "sync" =>
    /\ read.own \subseteq Order /\ Single(read.own)
    /\ \A o \in rest : \E k \in read.own : k.side = o.side /\ k.price = o.price /\ o.left <= k.left

Reserved ==
  pc \in {"decide", "sync"} /\ kind = "spot" =>
    read.reserved.buy = read.mine.buy + c.elsewhere /\ read.reserved.sell = read.mine.sell

\* What is planned on a side, and what it costs.
Sizes(S) == [q \in S |-> q.size]
Costs(S) == [q \in S |-> q.size * q.price]
Asked(s, S) == Total(Of(s, S), Sizes(S))

\* Quotes within the limits l of a decision made on the reading r.
Within(S, l, r) ==
  /\ Asked("buy", S) > 0 => r.inv + Asked("buy", S) <= l.long
  /\ Asked("sell", S) > 0 => r.inv - Asked("sell", S) >= l.short
  /\ kind \in {"perp", "engine", "option"} /\ ~(kind = "perp" /\ c.closed) =>
       \A s \in Sides : Asked(s, S) > 0 =>
         /\ Asked(s, S) <= Closing(s, r.inv) + l.opening[s]
         /\ kind = "perp" => (IF s = "buy" THEN r.inv ELSE -r.inv) + Asked(s, S) <= l.bound
  /\ kind = "spot" /\ l.sound =>
       /\ Asked("sell", S) <= r.inv
       /\ Total(Of("buy", S), Costs(S)) + c.elsewhere <= r.cash

Decided == pc = "sync" => Within(plan.quotes, plan.limits, read)

IInv ==
  /\ Typed /\ Priced /\ Raced /\ Listed /\ Reserved /\ Decided
  /\ InventoryKept /\ MarginKept /\ SpotBacked

\* What the next cycles read while nothing happens.
Afresh ==
  still >= 1 =>
    /\ pc \in {"positions", "exposures", "decide"} =>
         read.others = others /\ read.own = {[side |-> o.side, price |-> o.price] : o \in rest}
    /\ pc \in {"exposures", "decide"} => read.inv = inv /\ read.cash = cash

\* The reading of an account with no order of its own here.
Clear == [NothingRead EXCEPT !.inv = inv, !.cash = cash, !.reserved = [buy |-> c.elsewhere, sell |-> 0]]

\* The quotes of the plan p are what this world asks for.
Stands(p) ==
  LET ref == Reference(others)
      ext == External(others)
  IN  \/ Unpriceable(ref, ext, inv)
      \/ p.limits.sound => ~OverLimit(ref, inv) /\ p.quotes = Quotes(ref, ext, Clear)

\* So were those of the last decision.
Settled == still = 2 \/ (still = 1 /\ pc \in {"sync", "book"}) => Stands(plan)

-----------------------------------------------------------------------------
(* Settings, prices and sizes.                                             *)

LEMMA SettingsFacts ==
  ASSUME kind \in DOMAIN Config
  PROVE  /\ kind \in Kinds
         /\ c.base \in Nat /\ c.cash \in Nat /\ c.elsewhere \in Nat /\ c.order \in Nat /\ c.cap \in Nat
         /\ c.net \in Nat /\ c.skew \in Nat /\ c.wide \in Nat /\ c.thin \in Nat /\ c.leverage \in Nat
         /\ c.basis \in Nat /\ c.room \in Nat /\ c.usage \in Nat /\ c.im \in Nat \ {0} /\ c.band \in Nat
         /\ c.levels \in Nat \ {0} /\ c.step \in Nat /\ c.mult \in Nat /\ c.half \in Nat
         /\ c.long \in Int /\ c.short \in Int /\ c.closed \in BOOLEAN
         /\ c.levels > 1 => c.step > 0
BY SettingsAssumption DEF c, Accepted

LEMMA WorldFacts ==
  ASSUME Typed
  PROVE  /\ kind \in DOMAIN Config /\ index \in Nat \ {0} /\ others \in Pair
         /\ ov.shift \in Int /\ ov.spread \in Int /\ ov.mult \in Nat
BY IndicesAssumption, BooksAssumption, OverridesAssumption DEF Typed, Pair

LEMMA DivFacts ==
  ASSUME NEW a \in Int, NEW b \in Nat \ {0}
  PROVE  a \div b \in Int /\ (a \div b) * b <= a /\ a < (a \div b) * b + b
OBVIOUS

LEMMA DivUnique ==
  ASSUME NEW a \in Int, NEW b \in Nat \ {0}, NEW q \in Int, q * b <= a, a < q * b + b
  PROVE  a \div b = q
OBVIOUS

\* Whole multiples of the divisor go through a division.
LEMMA DivShift ==
  ASSUME NEW a \in Int, NEW b \in Nat \ {0}, NEW m \in Int
  PROVE  (a + b * m) \div b = (a \div b) + m
<1> DEFINE q == a \div b
<1>1. q \in Int /\ q * b <= a /\ a < q * b + b
  BY DivFacts
<1> HIDE DEF q
<1>2. (q + m) * b = q * b + b * m /\ q * b \in Int /\ b * m \in Int
  BY <1>1
<1>3. q + m \in Int /\ a + b * m \in Int /\ (q + m) * b <= a + b * m /\ a + b * m < (q + m) * b + b
  BY <1>1, <1>2
<1>4. (a + b * m) \div b = q + m
  BY <1>3, DivUnique
<1>5. QED
  BY <1>4 DEF q

LEMMA UnitFacts ==
  ASSUME NEW ref \in Nat \ {0}
  PROVE  Unit(ref) \in Nat \ {0}
BY DEF Unit

LEMMA LimitFacts ==
  ASSUME kind \in DOMAIN Config, NEW ref \in Nat \ {0}
  PROVE  LongLimit(ref) \in Int /\ ShortLimit(ref) \in Int
<1>1. MaxLong \in Int /\ MaxShort \in Int /\ -MaxShort \in Int
  BY SettingsFacts DEF MaxLong, MaxShort
<1>2. MaxLong \div Unit(ref) \in Int /\ (-MaxShort) \div Unit(ref) \in Int
  BY <1>1, UnitFacts, DivFacts
<1>3. QED
  BY <1>2 DEF LongLimit, ShortLimit, Ceil

LEMMA WantedFacts ==
  ASSUME Typed, NEW times \in Nat, NEW ref \in Nat \ {0}, NEW ext \in BOOLEAN
  PROVE  Wanted(times, ref, ext) \in Int
<1> DEFINE usd == c.order * ov.mult * times
<1>1. c.order \in Nat /\ ov.mult \in Nat /\ c.thin \in Nat
  BY WorldFacts, SettingsFacts
<1>2. usd \in Nat
  BY <1>1
<1> HIDE DEF usd
<1>3. (usd * c.thin) \div 10 \in Int
  BY <1>1, <1>2
<1>4. \A u \in Int : u \div Unit(ref) \in Int
  BY UnitFacts, DivFacts
<1>5. QED
  BY <1>2, <1>3, <1>4 DEF Wanted, usd

\* PriceOf: every level is a whole number of steps outside the innermost one.
LEMMA PriceFacts ==
  ASSUME Typed, NEW k \in Nat, NEW ref \in Nat \ {0}, NEW ext \in BOOLEAN, NEW held \in Int
  PROVE  /\ PriceOf("buy", k, ref, ext, held) \in Int /\ PriceOf("sell", k, ref, ext, held) \in Int
         /\ PriceOf("buy", k, ref, ext, held) = PriceOf("buy", 0, ref, ext, held) - k * c.step
         /\ PriceOf("sell", k, ref, ext, held) = PriceOf("sell", 0, ref, ext, held) + k * c.step
<1> DEFINE full == Larger(1, Larger(LongLimit(ref), -ShortLimit(ref)))
           lean == c.skew * Clamped(held, -full, full)
           half == (IF ext THEN c.half * c.wide ELSE c.half) + ov.spread
           far == k * c.step
           low(m) == (full * (ref + ov.shift - (half + m)) - lean) \div full
           high(m) == Ceil(full * (ref + ov.shift + (half + m)) - lean, full)
           d == ref + ov.shift - half
           u == ref + ov.shift + half
<1>1. full \in Nat \ {0}
  BY WorldFacts, LimitFacts DEF Larger
<1>2. c.step \in Nat /\ c.skew \in Nat /\ c.half \in Nat /\ c.wide \in Nat /\ ov.spread \in Int /\ ov.shift \in Int
  BY WorldFacts, SettingsFacts
<1> HIDE DEF full
<1>3. lean \in Int /\ half \in Int
  <2>1. Clamped(held, -full, full) \in Int
    BY <1>1 DEF Clamped, Larger, Smaller
  <2>2. c.half * c.wide \in Int
    BY <1>2
  <2>3. QED
    BY <1>2, <2>1, <2>2
<1>4. far \in Nat /\ 0 * c.step = 0
  BY <1>2
<1>5. /\ PriceOf("buy", k, ref, ext, held) = low(far) /\ PriceOf("sell", k, ref, ext, held) = high(far)
      /\ PriceOf("buy", 0, ref, ext, held) = low(0) /\ PriceOf("sell", 0, ref, ext, held) = high(0)
  BY <1>4 DEF PriceOf, full
<1> HIDE DEF lean, half, far
<1>6. d \in Int /\ u \in Int /\ full * d \in Int /\ full * u \in Int /\ full * far \in Int
  BY <1>1, <1>2, <1>3, <1>4
<1>7. /\ ref + ov.shift - (half + far) = d - far /\ ref + ov.shift - (half + 0) = d
      /\ ref + ov.shift + (half + far) = u + far /\ ref + ov.shift + (half + 0) = u
  BY <1>2, <1>3, <1>4
<1> HIDE DEF d, u
<1>8. /\ full * (d - far) = full * d + full * (-far)
      /\ full * (u + far) = full * u + full * far /\ full * (-far) = -(full * far)
  BY <1>1, <1>4, <1>6
<1>9. /\ full * (d - far) - lean = (full * d - lean) + full * (-far)
      /\ -(full * (u + far) - lean) = -(full * u - lean) + full * (-far)
      /\ full * d - lean \in Int /\ -(full * u - lean) \in Int /\ -far \in Int
  BY <1>3, <1>4, <1>6, <1>8
<1>10. low(far) = low(0) + (-far) /\ low(0) \in Int
  <2>1. ((full * d - lean) + full * (-far)) \div full = (full * d - lean) \div full + (-far)
    BY <1>1, <1>9, DivShift
  <2>2. (full * d - lean) \div full \in Int
    BY <1>1, <1>9, DivFacts
  <2>3. low(far) = ((full * d - lean) + full * (-far)) \div full /\ low(0) = (full * d - lean) \div full
    BY <1>7, <1>9
  <2> HIDE DEF low
  <2>4. QED
    BY <2>1, <2>2, <2>3
<1>11. high(far) = -((-(full * u - lean)) \div full + (-far)) /\ high(0) = -((-(full * u - lean)) \div full)
  <2>1. (-(full * u - lean) + full * (-far)) \div full = (-(full * u - lean)) \div full + (-far)
    BY <1>1, <1>9, DivShift
  <2>2. /\ high(far) = -((-(full * u - lean) + full * (-far)) \div full)
        /\ high(0) = -((-(full * u - lean)) \div full)
    BY <1>7, <1>9 DEF Ceil
  <2>3. QED
    BY <2>1, <2>2
<1>12. (-(full * u - lean)) \div full \in Int
  BY <1>1, <1>9, DivFacts
<1> HIDE DEF low, high
<1>13. /\ low(0) \in Int /\ low(far) = low(0) - far
       /\ high(0) \in Int /\ high(far) = high(0) + far
  BY <1>4, <1>10, <1>11, <1>12
<1>14. far = k * c.step
  BY DEF far
<1>15. QED
  BY <1>4, <1>5, <1>13, <1>14

-----------------------------------------------------------------------------
(* The levels of a side.                                                   *)

LevelSet == [quotes : SUBSET Quoted, used : Nat, times : Nat, on : BOOLEAN]

\* No two levels have one price.
LEMMA PricesDiffer ==
  ASSUME Typed, NEW s \in Sides, NEW j \in 0 .. c.levels - 1, NEW k \in 0 .. c.levels - 1, j # k,
         NEW ref \in Nat \ {0}, NEW ext \in BOOLEAN, NEW held \in Int
  PROVE  PriceOf(s, j, ref, ext, held) # PriceOf(s, k, ref, ext, held)
<1>1. c.levels \in Nat \ {0} /\ c.step \in Nat /\ (c.levels > 1 => c.step > 0)
  BY WorldFacts, SettingsFacts
<1>2. j \in Nat /\ k \in Nat /\ c.step \in Nat \ {0}
  BY <1>1
<1>3. j * c.step # k * c.step /\ j * c.step \in Nat /\ k * c.step \in Nat
  <2> DEFINE step == c.step
  <2>1. step \in Nat \ {0}
    BY <1>2
  <2> HIDE DEF step
  <2>2. j * step - k * step = (j - k) * step /\ j * step \in Nat /\ k * step \in Nat
    BY <1>2, <2>1
  <2>3. (j - k) * step # 0
    <3>1. CASE j > k
      BY <3>1, <1>2, <2>1
    <3>2. CASE j < k
      BY <3>2, <1>2, <2>1
    <3>3. QED
      BY <1>2, <3>1, <3>2
  <2>4. QED
    BY <2>2, <2>3 DEF step
<1>4. \A m \in Nat :
        /\ PriceOf("buy", m, ref, ext, held) = PriceOf("buy", 0, ref, ext, held) - m * c.step
        /\ PriceOf("sell", m, ref, ext, held) = PriceOf("sell", 0, ref, ext, held) + m * c.step
        /\ PriceOf("buy", 0, ref, ext, held) \in Int /\ PriceOf("sell", 0, ref, ext, held) \in Int
  BY PriceFacts
<1>5. /\ PriceOf("buy", j, ref, ext, held) # PriceOf("buy", k, ref, ext, held)
      /\ PriceOf("sell", j, ref, ext, held) # PriceOf("sell", k, ref, ext, held)
  BY <1>2, <1>3, <1>4
<1>6. QED
  BY <1>5 DEF Sides

\* Beyond the price of the other side's innermost level, or short of it.
Clears(s, price, against) == IF s = "buy" THEN price < against ELSE price > against

\* What the first k levels come to.
Ladder(v, k, s, limit, against, ref, ext, held) ==
  /\ v \in LevelSet /\ IsFiniteSet(v.quotes)
  /\ \A q \in v.quotes :
       /\ q.side = s /\ Clears(s, q.price, against)
       /\ \E j \in 0 .. k - 1 : q.price = PriceOf(s, j, ref, ext, held)
  /\ Single(v.quotes)
  /\ Total(v.quotes, Sizes(v.quotes)) = v.used
  /\ v.used = 0 \/ v.used <= limit

\* A further level is one more quote, or none.
LEMMA FurtherIs ==
  ASSUME Typed, NEW s \in Sides, NEW k \in Nat, NEW limit \in Int, NEW against \in Int,
         NEW ref \in Nat \ {0}, NEW ext \in BOOLEAN, NEW held \in Int, NEW v \in LevelSet
  PROVE  LET w == Further(v, k, s, limit, against, ref, ext, held)
             price == PriceOf(s, k, ref, ext, held)
         IN  /\ w \in LevelSet
             /\ \/ w.quotes = v.quotes /\ w.used = v.used
                \/ \E size \in Nat \ {0} :
                     /\ price \in Nat \ {0} /\ Clears(s, price, against)
                     /\ size <= limit - v.used
                     /\ w.quotes = v.quotes \cup {[side |-> s, price |-> price, size |-> size]}
                     /\ w.used = v.used + size
<1> DEFINE w == Further(v, k, s, limit, against, ref, ext, held)
           price == PriceOf(s, k, ref, ext, held)
           size == Smaller(Wanted(v.times, ref, ext), limit - v.used)
           q == [side |-> s, price |-> price, size |-> size]
           stop == ~v.on \/ size < 1 \/ price <= 0
                   \/ (IF s = "buy" THEN price >= against ELSE price <= against)
<1>1. w = IF stop THEN [v EXCEPT !.on = FALSE]
          ELSE [quotes |-> v.quotes \cup {q}, used |-> v.used + size, times |-> v.times * c.mult, on |-> TRUE]
  BY DEF Further
<1>2. price \in Int
  BY PriceFacts DEF Sides
<1>3. v.times \in Nat /\ v.used \in Nat /\ v.quotes \in SUBSET Quoted /\ c.mult \in Nat
  BY WorldFacts, SettingsFacts DEF LevelSet
<1>4. size \in Int /\ size <= limit - v.used
  <2>1. Wanted(v.times, ref, ext) \in Int
    BY <1>3, WantedFacts
  <2>2. QED
    BY <1>3, <2>1 DEF Smaller
<1> HIDE DEF w, price, size
<1>5. CASE stop
  <2>1. w = [v EXCEPT !.on = FALSE]
    BY <1>1, <1>5
  <2>2. QED
    BY <2>1 DEF LevelSet, w
<1>6. CASE ~stop
  <2>1. w = [quotes |-> v.quotes \cup {q}, used |-> v.used + size, times |-> v.times * c.mult, on |-> TRUE]
    BY <1>1, <1>6
  <2>2. size \in Nat \ {0} /\ price \in Nat \ {0} /\ Clears(s, price, against)
    BY <1>2, <1>4, <1>6 DEF Clears
  <2>3. q \in Quoted
    BY <2>2 DEF Quoted
  <2>4. v.times * c.mult \in Nat
    BY <1>3
  <2>5. w \in LevelSet
    BY <1>3, <2>1, <2>2, <2>3, <2>4 DEF LevelSet
  <2>6. w.quotes = v.quotes \cup {q} /\ w.used = v.used + size
    BY <2>1
  <2>7. QED
    BY <1>4, <2>2, <2>5, <2>6 DEF w, price
<1>7. QED
  BY <1>5, <1>6

LEMMA FurtherKeeps ==
  ASSUME Typed, NEW s \in Sides, NEW k \in Nat, k <= c.levels - 1, NEW limit \in Int, NEW against \in Int,
         NEW ref \in Nat \ {0}, NEW ext \in BOOLEAN, NEW held \in Int,
         NEW v \in LevelSet
  PROVE  Ladder(v, k, s, limit, against, ref, ext, held)
           => Ladder(Further(v, k, s, limit, against, ref, ext, held), k + 1, s, limit, against, ref, ext, held)
<1>0. LET w == Further(v, k, s, limit, against, ref, ext, held)
          price == PriceOf(s, k, ref, ext, held)
      IN  /\ w \in LevelSet
          /\ \/ w.quotes = v.quotes /\ w.used = v.used
             \/ \E size \in Nat \ {0} :
                  /\ price \in Nat \ {0} /\ Clears(s, price, against)
                  /\ size <= limit - v.used
                  /\ w.quotes = v.quotes \cup {[side |-> s, price |-> price, size |-> size]}
                  /\ w.used = v.used + size
  BY FurtherIs
<1> SUFFICES ASSUME Ladder(v, k, s, limit, against, ref, ext, held)
             PROVE  Ladder(Further(v, k, s, limit, against, ref, ext, held), k + 1, s, limit, against, ref, ext, held)
  OBVIOUS
<1> DEFINE w == Further(v, k, s, limit, against, ref, ext, held)
           price(j) == PriceOf(s, j, ref, ext, held)
           quote(size) == [side |-> s, price |-> price(k), size |-> size]
<1>1. c.levels \in Nat
  BY WorldFacts, SettingsFacts
<1>2. \/ w.quotes = v.quotes /\ w.used = v.used
      \/ \E size \in Nat \ {0} :
           /\ price(k) \in Nat \ {0} /\ Clears(s, price(k), against)
           /\ size <= limit - v.used
           /\ w.quotes = v.quotes \cup {quote(size)}
           /\ w.used = v.used + size
  BY <1>0
<1>w. w \in LevelSet
  BY <1>0
<1> HIDE DEF w
<1>3. \A q \in v.quotes : \E j \in 0 .. k - 1 : q.price = price(j)
  BY DEF Ladder
<1>4. \A j \in 0 .. k - 1 : j \in 0 .. k + 1 - 1
  BY <1>1
<1>5. CASE w.quotes = v.quotes /\ w.used = v.used
  <2>1. \A q \in w.quotes : \E j \in 0 .. k + 1 - 1 : q.price = price(j)
    BY <1>3, <1>4, <1>5
  <2>2. QED
    BY <1>w, <1>5, <2>1 DEF Ladder, w
<1>6. ASSUME NEW size \in Nat \ {0}, price(k) \in Nat \ {0}, Clears(s, price(k), against),
             size <= limit - v.used, w.quotes = v.quotes \cup {quote(size)}, w.used = v.used + size
      PROVE  Ladder(w, k + 1, s, limit, against, ref, ext, held)
  <2> DEFINE e == quote(size)
  <2>1. e.side = s /\ e.price = price(k) /\ e.size = size
    OBVIOUS
  <2>2. \A j \in 0 .. k - 1 : price(j) # price(k)
    <3>1. k \in 0 .. c.levels - 1 /\ \A j \in 0 .. k - 1 : j \in 0 .. c.levels - 1 /\ j # k
      BY <1>1
    <3>2. QED
      BY <3>1, PricesDiffer
  <2> HIDE DEF price
  <2>3. \A q \in v.quotes : q.price # e.price
    BY <1>3, <2>1, <2>2
  <2>4. e \notin v.quotes
    BY <2>3
  <2> HIDE DEF quote
  <2> HIDE DEF e
  <2>5. w.quotes = v.quotes \cup {e}
    BY <1>6 DEF e
  <2>6. IsFiniteSet(v.quotes) /\ IsFiniteSet(w.quotes)
    BY <2>5, FS_AddElement DEF Ladder
  <2>7. \A q \in w.quotes : q.side = s /\ Clears(s, q.price, against) /\ \E j \in 0 .. k + 1 - 1 : q.price = price(j)
    <3>1. \A q \in v.quotes : q.side = s /\ Clears(s, q.price, against) /\ \E j \in 0 .. k + 1 - 1 : q.price = price(j)
      BY <1>3, <1>4 DEF Ladder
    <3>2. k \in 0 .. k + 1 - 1
      BY <1>1
    <3>3. QED
      BY <1>6, <2>1, <2>5, <3>1, <3>2
  <2>8. Single(w.quotes)
    BY <2>3, <2>5 DEF Single, Ladder
  <2>9. Total(w.quotes, Sizes(w.quotes)) = w.used
    <3>1. v.quotes \in SUBSET Quoted /\ w.quotes \in SUBSET Quoted /\ v.used \in Nat
      BY <1>1, <1>w DEF LevelSet
    <3>2. \A q \in Quoted : q.size \in Nat
      BY DEF Quoted
    <3>3. /\ \A q \in w.quotes : Sizes(w.quotes)[q] = q.size /\ Sizes(w.quotes)[q] \in Int
          /\ \A q \in v.quotes : Sizes(v.quotes)[q] = q.size /\ Sizes(v.quotes)[q] \in Int
          /\ \A q \in v.quotes : Sizes(w.quotes)[q] = Sizes(v.quotes)[q]
      BY <2>5, <3>1, <3>2 DEF Sizes
    <3>4. Total(w.quotes, Sizes(w.quotes)) = Sizes(w.quotes)[e] + Total(v.quotes, Sizes(w.quotes))
      <4> DEFINE f == Sizes(w.quotes)
      <4>1. \A q \in v.quotes \cup {e} : f[q] \in Int
        BY <2>5, <3>3
      <4> HIDE DEF f
      <4>2. Total(v.quotes \cup {e}, f) = f[e] + Total(v.quotes, f)
        BY <2>4, <2>6, <4>1, TotalAdd
      <4>3. QED
        BY <2>5, <4>2 DEF f
    <3>5. Total(v.quotes, Sizes(w.quotes)) = Total(v.quotes, Sizes(v.quotes))
      BY <2>6, <3>3, TotalSame
    <3>6. Total(v.quotes, Sizes(v.quotes)) = v.used
      BY DEF Ladder
    <3>7. Sizes(w.quotes)[e] = size
      BY <2>1, <2>5, <3>3
    <3>8. QED
      BY <1>6, <3>1, <3>4, <3>5, <3>6, <3>7
  <2>10. w.used <= limit
    BY <1>1, <1>6 DEF LevelSet
  <2>11. QED
    BY <1>w, <2>6, <2>7, <2>8, <2>9, <2>10 DEF Ladder, price
<1>7. QED
  BY <1>2, <1>5, <1>6 DEF w

\* A function as the one Levels takes its value from, over c.levels levels.
IsLadder(g, s, limit, against, ref, ext, held) ==
  g = [k \in 0 .. c.levels |->
        IF k = 0 THEN NoLevels ELSE Further(g[k - 1], k - 1, s, limit, against, ref, ext, held)]

LEMMA LevelsIs ==
  ASSUME NEW s, NEW limit, NEW against, NEW ref, NEW ext, NEW held
  PROVE  Levels(s, limit, against, ref, ext, held)
           = (CHOOSE g : IsLadder(g, s, limit, against, ref, ext, held))[c.levels].quotes
BY DEF Levels, IsLadder

\* Levels, one after another.
Climbs(g, s, limit, against, ref, ext, held) ==
  /\ g[0] = NoLevels
  /\ \A k \in 1 .. c.levels : g[k - 1] \in LevelSet
  /\ \A k \in 1 .. c.levels : g[k] = Further(g[k - 1], k - 1, s, limit, against, ref, ext, held)
  /\ Levels(s, limit, against, ref, ext, held) = g[c.levels].quotes

LEMMA LevelsRun ==
  ASSUME Typed, NEW s \in Sides, NEW limit \in Int, NEW against \in Int,
         NEW ref \in Nat \ {0}, NEW ext \in BOOLEAN, NEW held \in Int
  PROVE  \E g : Climbs(g, s, limit, against, ref, ext, held)
<1> DEFINE n == c.levels
           F(k, v) == Further(v, k - 1, s, limit, against, ref, ext, held)
           G == [k \in 1 .. n |-> [v \in LevelSet |-> F(k, v)]]
           done == CHOOSE g : IsLadder(g, s, limit, against, ref, ext, held)
<1>1. n \in Nat
  BY WorldFacts, SettingsFacts
<1>2. \A k \in Nat, v \in LevelSet : Further(v, k, s, limit, against, ref, ext, held) \in LevelSet
  BY FurtherIs
<1> HIDE DEF n
<1>3. \A k \in 1 .. n, v \in LevelSet : F(k, v) \in LevelSet
  <2>1. \A k \in 1 .. n : k - 1 \in Nat
    BY <1>1
  <2>2. QED
    BY <1>2, <2>1
<1> HIDE DEF F
<1>4. G \in [1 .. n -> [LevelSet -> LevelSet]]
  BY <1>3
<1>5. NoLevels \in LevelSet
  BY DEF NoLevels, LevelSet
<1>6. PICK g \in [0 .. n -> LevelSet] : Stepwise(g, n, NoLevels, G)
  BY <1>1, <1>4, <1>5, StepwiseExists
<1>7. g = [k \in 0 .. n |-> IF k = 0 THEN NoLevels ELSE F(k, g[k - 1])]
  <2>1. \A k \in 1 .. n : k - 1 \in 0 .. n /\ G[k][g[k - 1]] = F(k, g[k - 1])
    BY <1>1, <1>6
  <2>2. \A k \in 0 .. n : g[k] = IF k = 0 THEN NoLevels ELSE G[k][g[k - 1]]
    BY <1>6 DEF Stepwise
  <2> HIDE DEF G
  <2>3. \A k \in 0 .. n : g[k] = IF k = 0 THEN NoLevels ELSE F(k, g[k - 1])
    BY <1>1, <2>1, <2>2
  <2>4. QED
    BY <1>6, <2>3
<1>8. IsLadder(g, s, limit, against, ref, ext, held)
  BY <1>7 DEF IsLadder, F, n
<1>9. IsLadder(done, s, limit, against, ref, ext, held)
  BY <1>8
<1> HIDE DEF done
<1>10. done = [k \in 0 .. n |-> IF k = 0 THEN NoLevels ELSE F(k, done[k - 1])]
  BY <1>9 DEF IsLadder, F, n
<1>11. done[0] = NoLevels /\ \A k \in 1 .. n : done[k] = F(k, done[k - 1])
  BY <1>1, <1>10
<1>12. \A k \in 1 .. n : done[k - 1] \in LevelSet
  <2> DEFINE P == {k \in 0 .. n : done[k] \in LevelSet}
  <2>1. 0 \in P
    BY <1>1, <1>5, <1>11
  <2>2. \A k \in 1 .. n : k - 1 \in P => k \in P
    BY <1>1, <1>3, <1>11
  <2> HIDE DEF P
  <2>3. \A k \in 0 .. n : k \in P
    BY <1>1, <2>1, <2>2, Climb
  <2>4. \A k \in 1 .. n : k - 1 \in 0 .. n
    BY <1>1
  <2>5. QED
    BY <2>3, <2>4 DEF P
<1>13. Levels(s, limit, against, ref, ext, held) = done[n].quotes
  BY LevelsIs DEF done, n
<1>14. QED
  BY <1>11, <1>12, <1>13 DEF Climbs, F, n

\* buildLevels: one quote a price, all beyond the other side, and no more in all than the limit.
LEMMA LevelsFacts ==
  ASSUME Typed, NEW s \in Sides, NEW limit \in Int, NEW against \in Int,
         NEW ref \in Nat \ {0}, NEW ext \in BOOLEAN, NEW held \in Int
  PROVE  \E v : /\ v.quotes = Levels(s, limit, against, ref, ext, held)
                /\ Ladder(v, c.levels, s, limit, against, ref, ext, held)
<1>0. PICK g : Climbs(g, s, limit, against, ref, ext, held)
  BY LevelsRun
<1> DEFINE n == c.levels
<1>1. /\ g[0] = NoLevels
      /\ \A k \in 1 .. n : g[k - 1] \in LevelSet
      /\ \A k \in 1 .. n : g[k] = Further(g[k - 1], k - 1, s, limit, against, ref, ext, held)
      /\ Levels(s, limit, against, ref, ext, held) = g[n].quotes
  BY <1>0 DEF Climbs
<1>2. n \in Nat
  BY WorldFacts, SettingsFacts
<1>3. ASSUME NEW k \in Nat, k <= c.levels - 1, NEW v \in LevelSet
      PROVE  Ladder(v, k, s, limit, against, ref, ext, held)
               => Ladder(Further(v, k, s, limit, against, ref, ext, held), k + 1, s, limit, against, ref, ext, held)
  BY <1>3, FurtherKeeps
<1> HIDE DEF n
<1> DEFINE L(v, k) == Ladder(v, k, s, limit, against, ref, ext, held)
           F(v, k) == Further(v, k, s, limit, against, ref, ext, held)
           P == {k \in 0 .. n : L(g[k], k)}
<1>4. L(NoLevels, 0)
  <2> DEFINE q == NoLevels.quotes
  <2>1. q = {} /\ NoLevels.used = 0 /\ NoLevels \in LevelSet
    BY DEF NoLevels, LevelSet
  <2>2. Total({}, Sizes({})) = 0 /\ IsFiniteSet({}) /\ Single({})
    BY TotalNone, FS_EmptySet DEF Single
  <2>3. QED
    BY <2>1, <2>2 DEF Ladder
<1>5. \A k \in 1 .. n : L(g[k - 1], k - 1) => L(F(g[k - 1], k - 1), k)
  <2> TAKE k \in 1 .. n
  <2>1. k - 1 \in Nat /\ k - 1 <= n - 1 /\ k - 1 + 1 = k /\ g[k - 1] \in LevelSet
    BY <1>1, <1>2
  <2>2. QED
    BY <1>3, <2>1 DEF n
<1> HIDE DEF L
<1>6. 0 \in P
  BY <1>1, <1>2, <1>4
<1>7. \A k \in 1 .. n : k - 1 \in P => k \in P
  BY <1>1, <1>2, <1>5
<1> HIDE DEF P
<1>8. \A k \in 0 .. n : k \in P
  BY <1>2, <1>6, <1>7, Climb
<1>9. L(g[n], n)
  BY <1>2, <1>8 DEF P
<1>10. QED
  BY <1>1, <1>9 DEF L, n

-----------------------------------------------------------------------------
(* The reference.                                                          *)

LEMMA ImageFinite ==
  ASSUME NEW S, IsFiniteSet(S), NEW f
  PROVE  IsFiniteSet({f[x] : x \in S})
<1> DEFINE image(T) == {f[x] : x \in T}
           P == {T \in SUBSET S : IsFiniteSet(image(T))}
<1>1. {} \in P
  <2>1. image({}) = {}
    OBVIOUS
  <2> HIDE DEF image
  <2>2. IsFiniteSet(image({}))
    BY <2>1, FS_EmptySet
  <2>3. QED
    BY <2>2
<1>2. \A T \in SUBSET S : T # {} /\ (\A x \in T : T \ {x} \in P) => T \in P
  <2> SUFFICES ASSUME NEW T \in SUBSET S, NEW x \in T, T \ {x} \in P PROVE IsFiniteSet(image(T))
    OBVIOUS
  <2>1. image(T) = image(T \ {x}) \cup {f[x]}
    OBVIOUS
  <2>2. IsFiniteSet(image(T \ {x}))
    BY Zenon
  <2> HIDE DEF image
  <2> DEFINE e == f[x]
             U == image(T \ {x})
  <2> HIDE DEF e, U
  <2>3. IsFiniteSet(U \cup {e})
    BY <2>2, FS_AddElement DEF U
  <2>4. QED
    BY <2>1, <2>3 DEF U, e
<1> HIDE DEF P
<1>3. \A T \in SUBSET S : T \in P
  BY <1>1, <1>2, SetClimb
<1>4. QED
  BY <1>3 DEF P

\* Max and Min of FiniteSetsExt.
LEMMA Extremes ==
  ASSUME NEW S \in SUBSET Int, IsFiniteSet(S), S # {}
  PROVE  Max(S) \in S /\ (\A x \in S : Max(S) >= x) /\ Min(S) \in S /\ \A x \in S : Min(S) <= x
<1> DEFINE top(T) == \E x \in T : \A y \in T : x >= y
           low(T) == \E x \in T : \A y \in T : x <= y
           P == {T \in SUBSET S : T # {} => top(T) /\ low(T)}
<1>1. {} \in P
  OBVIOUS
<1>2. \A T \in SUBSET S : T # {} /\ (\A x \in T : T \ {x} \in P) => T \in P
  <2> SUFFICES ASSUME NEW T \in SUBSET S, NEW x \in T, T \ {x} \in P PROVE top(T) /\ low(T)
    OBVIOUS
  <2>1. CASE T = {x}
    BY <2>1
  <2>2. CASE T # {x}
    <3>1. top(T \ {x}) /\ low(T \ {x})
      BY <2>2
    <3>2. PICK h \in T \ {x} : \A y \in T \ {x} : h >= y
      BY <3>1
    <3>3. PICK l \in T \ {x} : \A y \in T \ {x} : l <= y
      BY <3>1
    <3>4. top(T)
      <4>1. CASE h >= x
        BY <4>1, <3>2
      <4>2. CASE ~(h >= x)
        <5>1. \A y \in T : x >= y
          BY <4>2, <3>2
        <5>2. QED
          BY <5>1
      <4>3. QED
        BY <4>1, <4>2
    <3>5. low(T)
      <4>1. CASE l <= x
        BY <4>1, <3>3
      <4>2. CASE ~(l <= x)
        <5>1. \A y \in T : x <= y
          BY <4>2, <3>3
        <5>2. QED
          BY <5>1
      <4>3. QED
        BY <4>1, <4>2
    <3>6. QED
      BY <3>4, <3>5
  <2>3. QED
    BY <2>1, <2>2
<1> HIDE DEF P
<1>3. S \in P
  BY <1>1, <1>2, SetClimb
<1>4. top(S) /\ low(S)
  BY <1>3 DEF P
<1>5. QED
  BY <1>4 DEF Max, Min

LEMMA OthersFacts ==
  ASSUME NEW book \in Pair, NEW own, IsFiniteSet(own), \A o \in own : o.price \in Nat, NEW open
  PROVE  OthersBest(book, own, open) \in Pair
<1> DEFINE gone(s) == {o.price : o \in {w \in own : w.side = s /\ ~\E r \in open : r.side = s /\ r.price = w.price}}
           best(s) == gone(s) \cup (IF book[s] = 0 THEN {} ELSE {book[s]})
<1>1. ASSUME NEW s \in Sides PROVE IsFiniteSet(best(s)) /\ best(s) \in SUBSET Nat
  <2> DEFINE W == {w \in own : w.side = s /\ ~\E r \in open : r.side = s /\ r.price = w.price}
             f == [o \in own |-> o.price]
  <2>1. W \in SUBSET own /\ IsFiniteSet(W)
    BY FS_Subset
  <2> HIDE DEF W
  <2>2. {o.price : o \in W} = {f[o] : o \in W}
    BY <2>1
  <2> HIDE DEF f
  <2>3. IsFiniteSet({o.price : o \in W})
    BY <2>1, <2>2, ImageFinite
  <2>4. {o.price : o \in W} \in SUBSET Nat
    BY <2>1
  <2>5. book[s] \in Nat
    BY DEF Pair, Sides
  <2>6. IsFiniteSet({}) /\ IsFiniteSet({book[s]})
    BY FS_EmptySet, FS_Singleton
  <2>7. IsFiniteSet(IF book[s] = 0 THEN {} ELSE {book[s]})
    BY <2>6
  <2>8. gone(s) = {o.price : o \in W}
    BY DEF W
  <2> HIDE DEF gone
  <2>9. IsFiniteSet(gone(s) \cup (IF book[s] = 0 THEN {} ELSE {book[s]}))
    BY <2>3, <2>7, <2>8, FS_Union
  <2>10. QED
    BY <2>4, <2>5, <2>8, <2>9
<1> HIDE DEF best
<1>2. best("buy") # {} => Max(best("buy")) \in Nat
  BY <1>1, Extremes DEF Sides
<1>3. best("sell") # {} => Min(best("sell")) \in Nat
  BY <1>1, Extremes DEF Sides
<1>4. OthersBest(book, own, open) = [buy |-> IF best("buy") = {} THEN 0 ELSE Max(best("buy")),
                                     sell |-> IF best("sell") = {} THEN 0 ELSE Min(best("sell"))]
  BY DEF OthersBest, best
<1>5. QED
  BY <1>2, <1>3, <1>4 DEF Pair

\* Every market has a positive reference.
LEMMA ReferenceFacts ==
  ASSUME Typed, NEW b \in Pair
  PROVE  Reference(b) \in Nat \ {0} /\ External(b) \in BOOLEAN
<1>1. index \in Nat \ {0} /\ c.basis \in Nat
  BY WorldFacts, SettingsFacts
<1>2. b.buy \in Nat /\ b.sell \in Nat
  BY DEF Pair
<1>3. TwoSided(b) => (b.buy + b.sell) \div 2 \in Nat \ {0}
  BY <1>2 DEF TwoSided
<1> DEFINE mid == (b.buy + b.sell) \div 2
<1> HIDE DEF mid
<1>4. TwoSided(b) => Clamped(mid, index - c.basis, index + c.basis) \in Nat \ {0}
  BY <1>1, <1>3 DEF Clamped, Larger, Smaller, mid
<1>5. Reference(b) \in Nat \ {0}
  BY <1>1, <1>3, <1>4 DEF Reference, mid
<1>6. QED
  BY <1>5 DEF External

-----------------------------------------------------------------------------
(* What a side may quote.                                                  *)

LEMMA OpeningFacts ==
  ASSUME Typed, NEW s \in Sides, NEW price \in Int
  PROVE  Opening(s, price) \in Int
<1>1. c.usage \in Nat /\ c.im \in Nat \ {0} /\ c.room \in Nat /\ inv \in Int /\ cash \in Int
  BY WorldFacts, SettingsFacts DEF Typed
<1>2. Surplus \in Int
  <2>1. \A x \in Int : c.im * x \in Int
    BY <1>1
  <2>2. Larger(inv, -inv) \in Int /\ Larger(0, -inv) \in Int
    BY <1>1 DEF Larger
  <2>3. QED
    BY <1>1, <2>1, <2>2 DEF Surplus
<1>3. Usable(Surplus) \in Int
  <2>1. Larger(0, Surplus) \in Int
    BY <1>2 DEF Larger
  <2>2. Larger(0, Surplus) * c.usage \in Int
    BY <1>1, <2>1
  <2>3. QED
    BY <2>2 DEF Usable
<1>4. Usable(Surplus) \div c.im \in Int /\ (price > 0 => Usable(Surplus) \div price \in Int)
  BY <1>1, <1>3, DivFacts
<1>5. Larger(0, c.room - Larger(inv, -inv)) \in Int
  BY <1>1 DEF Larger
<1>6. QED
  BY <1>4, <1>5 DEF Opening

LEMMA BoundFacts ==
  ASSUME Typed, NEW held \in Int, NEW ref \in Nat \ {0}
  PROVE  Bound(held, ref) \in Int
<1>1. c.leverage \in Nat /\ Larger(0, held) \in Int
  BY WorldFacts, SettingsFacts DEF Larger
<1>2. Larger(0, held) * c.leverage \in Int
  BY <1>1
<1>3. QED
  BY <1>2, DivFacts DEF Bound

LEMMA CapacityFacts ==
  ASSUME Typed, NEW s \in Sides, NEW price \in Nat \ {0}, NEW ref \in Nat \ {0}, NEW r \in Reading
  PROVE  Capacity(s, price, ref, r) \in Int
<1>1. r.inv \in Int /\ r.cash \in Int /\ r.reserved \in Pair /\ r.mine \in Pair
  BY DEF Reading
<1>2. \A x \in Int, y, z \in Nat : Budget(x, y, z) \in Int
  BY DEF Budget, Larger, Smaller
<1>3. /\ Budget(r.cash, r.reserved.buy, r.mine.buy) \in Int
      /\ Budget(r.inv, r.reserved.sell, r.mine.sell) \in Int
  BY <1>1, <1>2 DEF Pair
<1>4. \A x \in Int : x \div price \in Int
  BY DivFacts
<1>5. Opening(s, price) \in Int /\ Bound(r.cash, ref) \in Int
  BY <1>1, OpeningFacts, BoundFacts
<1>6. Closing(s, r.inv) \in Int
  BY <1>1 DEF Closing, Larger
<1>7. Larger(0, Bound(r.cash, ref) - r.inv) \in Int /\ Larger(0, Bound(r.cash, ref) - (-r.inv)) \in Int
  BY <1>1, <1>5 DEF Larger
<1>8. QED
  BY <1>1, <1>3, <1>4, <1>5, <1>6, <1>7 DEF Capacity, Smaller

LEMMA CappedFacts ==
  ASSUME Typed, NEW n \in Int, NEW price \in Nat \ {0}
  PROVE  Capped(n, price) \in Int /\ Capped(n, price) <= n
<1>1. c.cap \in Nat /\ c.cap \div price \in Int
  BY WorldFacts, SettingsFacts, DivFacts
<1>2. QED
  BY <1>1 DEF Capped, Smaller

\* Of n in all on side s, what its capacity and its room allow.
Fits(s, n, ref, ext, r) ==
  LET price == PriceOf(s, 0, ref, ext, r.inv)
      room == IF s = "buy" THEN LongLimit(ref) - r.inv ELSE r.inv - ShortLimit(ref)
  IN  /\ n \in Nat
      /\ n > 0 =>
           /\ price \in Nat \ {0}
           /\ ~(kind = "perp" /\ ~trading /\ ~c.closed)
           /\ n <= room /\ n <= Capacity(s, price, ref, r)

\* A side's quotes: beyond the innermost prices, and fitting.
Offer(s, S, ref, ext, r) ==
  LET bid == PriceOf("buy", 0, ref, ext, r.inv)
      ask == PriceOf("sell", 0, ref, ext, r.inv)
  IN  /\ S \in SUBSET Quoted /\ IsFiniteSet(S) /\ Single(S)
      /\ \A q \in S : q.side = s /\ IF s = "buy" THEN q.price <= bid /\ q.price < ask ELSE q.price >= ask
      /\ Fits(s, Total(S, Sizes(S)), ref, ext, r)

\* A side's price is the bid or the ask.
LEMMA PriceBySide ==
  ASSUME NEW s, NEW ref, NEW ext, NEW held
  PROVE  PriceOf(s, 0, ref, ext, held)
           = IF s = "buy" THEN PriceOf("buy", 0, ref, ext, held) ELSE PriceOf("sell", 0, ref, ext, held)
BY DEF PriceOf

LEMMA SideFacts ==
  ASSUME Typed, NEW s \in Sides, NEW ref \in Nat \ {0}, NEW ext \in BOOLEAN, NEW r \in Reading
  PROVE  Offer(s, SideQuotes(s, ref, ext, r), ref, ext, r)
<1> DEFINE bid == PriceOf("buy", 0, ref, ext, r.inv)
           ask == PriceOf("sell", 0, ref, ext, r.inv)
           price == IF s = "buy" THEN bid ELSE ask
           against == IF s = "buy" THEN ask ELSE bid
           room == IF s = "buy" THEN LongLimit(ref) - r.inv ELSE r.inv - ShortLimit(ref)
           most == Capacity(s, price, ref, r)
           budget == Capped(most, price)
           size == Smaller(Wanted(1, ref, ext), budget)
           limit == Smaller(budget, room)
           held == r.inv
           shut == kind = "perp" /\ ~trading /\ ~c.closed
           none == \/ s \in ov.off \/ price <= 0 \/ shut \/ size < 1 \/ (kind # "option" /\ size > room)
           S == SideQuotes(s, ref, ext, r)
<1>1. S = IF none THEN {} ELSE Levels(s, limit, against, ref, ext, held)
  BY PriceBySide DEF SideQuotes
<1>2. held \in Int
  BY DEF Reading
<1>3. \A k \in Nat :
        /\ PriceOf("buy", k, ref, ext, held) \in Int /\ PriceOf("sell", k, ref, ext, held) \in Int
        /\ PriceOf("buy", k, ref, ext, held) = PriceOf("buy", 0, ref, ext, held) - k * c.step
        /\ PriceOf("sell", k, ref, ext, held) = PriceOf("sell", 0, ref, ext, held) + k * c.step
  BY <1>2, PriceFacts
<1>4. bid \in Int /\ ask \in Int
  BY <1>3
<1>5. room \in Int
  BY <1>2, WorldFacts, LimitFacts
<1>6. c.levels \in Nat \ {0} /\ c.step \in Nat
  BY WorldFacts, SettingsFacts
<1>7. \A j \in 0 .. c.levels - 1 :
        PriceOf("buy", j, ref, ext, held) <= bid /\ PriceOf("sell", j, ref, ext, held) >= ask
  <2> TAKE j \in 0 .. c.levels - 1
  <2>1. j \in Nat /\ j * c.step \in Nat
    BY <1>6
  <2>2. QED
    BY <1>3, <1>4, <2>1
<1>8. CASE none
  <2>1. S = {}
    BY <1>1, <1>8
  <2>2. IsFiniteSet({}) /\ Total({}, Sizes({})) = 0
    BY FS_EmptySet, TotalNone
  <2>3. QED
    BY <2>1, <2>2 DEF Offer, Fits, Single
<1>9. CASE ~none
  <2>1. price \in Nat \ {0} /\ against \in Int
    BY <1>4, <1>9
  <2> HIDE DEF price
  <2>2. most \in Int
    BY <2>1, CapacityFacts
  <2> HIDE DEF most
  <2>3. budget \in Int /\ budget <= most
    BY <2>1, <2>2, CappedFacts
  <2> HIDE DEF budget
  <2>4. limit \in Int /\ limit <= most /\ limit <= room
    BY <1>5, <2>2, <2>3 DEF Smaller
  <2>5. S = Levels(s, limit, against, ref, ext, held)
    BY <1>1, <1>9
  <2>6. ~shut
    BY <1>9
  <2> HIDE DEF limit, against, room, held, S
  <2>7. PICK v : /\ v.quotes = Levels(s, limit, against, ref, ext, held)
                 /\ Ladder(v, c.levels, s, limit, against, ref, ext, held)
    BY <1>2, <2>1, <2>4, LevelsFacts
  <2>8. S \in SUBSET Quoted /\ IsFiniteSet(S) /\ Single(S)
    BY <2>5, <2>7 DEF Ladder, LevelSet
  <2>9. \A q \in S : q.side = s /\ Clears(s, q.price, against)
                     /\ \E j \in 0 .. c.levels - 1 : q.price = PriceOf(s, j, ref, ext, held)
    BY <2>5, <2>7 DEF Ladder
  <2>10. \A q \in S : IF s = "buy" THEN q.price <= bid /\ q.price < ask ELSE q.price >= ask
    <3> TAKE q \in S
    <3>1. PICK j \in 0 .. c.levels - 1 : q.price = PriceOf(s, j, ref, ext, held)
      BY <2>9
    <3> HIDE DEF bid, ask
    <3>2. CASE s = "buy"
      BY <1>7, <2>9, <3>1, <3>2 DEF Clears, against
    <3>3. CASE s = "sell"
      BY <1>7, <3>1, <3>3
    <3>4. QED
      BY <3>2, <3>3 DEF Sides
  <2>11. Total(S, Sizes(S)) = v.used /\ v.used \in Nat /\ (v.used = 0 \/ v.used <= limit)
    BY <2>5, <2>7 DEF Ladder, LevelSet
  <2> HIDE DEF bid, ask
  <2>12. Total(S, Sizes(S)) > 0 => Total(S, Sizes(S)) <= room /\ Total(S, Sizes(S)) <= most
    BY <1>5, <2>2, <2>4, <2>11
  <2>13. price = PriceOf(s, 0, ref, ext, held)
    BY DEF price, bid, ask, held, Sides
  <2>14. Fits(s, Total(S, Sizes(S)), ref, ext, r)
    BY <2>1, <2>6, <2>11, <2>12, <2>13 DEF Fits, room, most, held
  <2>15. QED
    BY <2>8, <2>9, <2>10, <2>14 DEF Offer, S, bid, ask, held
<1>10. QED
  BY <1>8, <1>9

LEMMA OfFacts ==
  ASSUME NEW S, IsFiniteSet(S), NEW s
  PROVE  Of(s, S) \in SUBSET S /\ IsFiniteSet(Of(s, S))
<1>1. Of(s, S) \in SUBSET S
  BY DEF Of
<1>2. QED
  BY <1>1, FS_Subset

LEMMA SizesFacts ==
  ASSUME NEW S \in SUBSET Quoted
  PROVE  \A q \in S : Sizes(S)[q] = q.size /\ Sizes(S)[q] \in Nat
BY DEF Sizes, Quoted

LEMMA AskedNat ==
  ASSUME NEW S \in SUBSET Quoted, IsFiniteSet(S), NEW s
  PROVE  Asked(s, S) \in Nat
<1>1. Of(s, S) \in SUBSET S /\ IsFiniteSet(Of(s, S))
  BY OfFacts
<1>2. \A q \in Of(s, S) : Sizes(S)[q] \in Nat
  BY <1>1, SizesFacts
<1>3. QED
  BY <1>1, <1>2, TotalNat DEF Asked

\* clampLevels moves no two quotes to one price, none across another, and asks for no more.
LEMMA ClampFacts ==
  ASSUME NEW all \in SUBSET Quoted, IsFiniteSet(all), Single(all), Uncrossed(all),
         NEW lo \in Int, NEW hi \in Nat \ {0}, lo <= hi
  PROVE  LET M == ClampLevels(all, lo, hi)
         IN  /\ M \in SUBSET Quoted /\ IsFiniteSet(M) /\ Single(M) /\ Uncrossed(M)
             /\ \A q \in M : lo <= q.price /\ q.price <= hi
             /\ \A s \in Sides : Asked(s, M) <= Asked(s, all)
<1> DEFINE M == ClampLevels(all, lo, hi)
           inside == {q \in all : IF q.side = "buy" THEN q.price >= lo ELSE q.price <= hi}
           moved(q) == Clamped(q.price, lo, hi)
           inner(q, r) == IF q.side = "buy" THEN q.price > r.price ELSE q.price < r.price
           kept == {r \in inside : ~\E q \in inside : q.side = r.side /\ moved(q) = moved(r) /\ inner(q, r)}
           mv(q) == [q EXCEPT !.price = moved(q)]
<1>1. M = {mv(q) : q \in kept}
  BY DEF ClampLevels
<1>2. kept \in SUBSET all /\ kept \in SUBSET inside
  OBVIOUS
<1>3. \A q \in all : q \in Quoted /\ q.side \in Sides /\ q.price \in Nat \ {0} /\ q.size \in Nat \ {0}
  BY DEF Quoted
<1>4. \A q \in inside :
        /\ moved(q) \in Nat \ {0} /\ lo <= moved(q) /\ moved(q) <= hi
        /\ q.side = "buy" => moved(q) <= q.price
        /\ q.side # "buy" => moved(q) >= q.price
  BY <1>3 DEF Clamped, Larger, Smaller
<1>5. \A q, r \in kept : q.side = r.side /\ moved(q) = moved(r) => q = r
  <2> SUFFICES ASSUME NEW q \in kept, NEW r \in kept, q.side = r.side, moved(q) = moved(r), q # r PROVE FALSE
    OBVIOUS
  <2>1. q.price # r.price
    BY <1>2 DEF Single
  <2>2. inner(q, r) \/ inner(r, q)
    BY <1>2, <1>3, <2>1
  <2>3. ~inner(q, r) /\ ~inner(r, q)
    OBVIOUS
  <2>4. QED
    BY <2>2, <2>3
<1> HIDE DEF inner, kept
<1>6. \A q \in kept : mv(q).side = q.side /\ mv(q).price = moved(q) /\ mv(q).size = q.size /\ mv(q) \in Quoted
  <2> TAKE q \in kept
  <2> DEFINE p == moved(q)
  <2>1. p \in Nat \ {0} /\ q \in Quoted
    BY <1>2, <1>3, <1>4
  <2> HIDE DEF p
  <2>2. [q EXCEPT !.price = p] \in Quoted /\ [q EXCEPT !.price = p].side = q.side
        /\ [q EXCEPT !.price = p].price = p /\ [q EXCEPT !.price = p].size = q.size
    BY <2>1 DEF Quoted
  <2>3. QED
    BY <2>2 DEF p
<1> HIDE DEF mv, M
<1>7. \A y \in M : \E q \in kept : y = mv(q) /\ y.side = q.side /\ y.price = moved(q) /\ y.size = q.size
  BY <1>1, <1>6
<1>8. M \in SUBSET Quoted
  BY <1>1, <1>6
<1>9. IsFiniteSet(M)
  <2> DEFINE f == [q \in kept |-> mv(q)]
  <2>1. M = {f[q] : q \in kept}
    BY <1>1
  <2>2. IsFiniteSet(kept)
    BY <1>2, FS_Subset
  <2> HIDE DEF f
  <2>3. QED
    BY <2>1, <2>2, ImageFinite
<1>10. Single(M)
  BY <1>5, <1>7 DEF Single
<1>11. \A y \in M : lo <= y.price /\ y.price <= hi
  BY <1>2, <1>4, <1>7
<1>12. Uncrossed(M)
  <2> SUFFICES ASSUME NEW b \in M, NEW a \in M, b.side = "buy", a.side = "sell" PROVE b.price < a.price
    BY DEF Uncrossed
  <2>1. PICK p \in kept : p.side = "buy" /\ b.price = moved(p)
    BY <1>7
  <2>2. PICK q \in kept : q.side = "sell" /\ a.price = moved(q)
    BY <1>7
  <2>3. p.price < q.price /\ p.price \in Nat /\ q.price \in Nat
    BY <1>2, <1>3, <2>1, <2>2 DEF Uncrossed
  <2>4. moved(p) <= p.price /\ moved(q) >= q.price /\ moved(p) \in Nat /\ moved(q) \in Nat
    BY <1>2, <1>4, <2>1, <2>2
  <2> HIDE DEF moved
  <2>5. QED
    BY <2>1, <2>2, <2>3, <2>4
<1>13. ASSUME NEW s \in Sides PROVE Asked(s, M) <= Asked(s, all)
  <2> DEFINE from == [y \in Of(s, M) |-> CHOOSE q \in kept : y = mv(q) /\ q.side = s /\ y.size = q.size]
  <2>1. \A y \in Of(s, M) : \E q \in kept : y = mv(q) /\ q.side = s /\ y.size = q.size
    BY <1>7 DEF Of
  <2>2. \A y \in Of(s, M) : from[y] \in kept /\ y = mv(from[y]) /\ from[y].side = s /\ y.size = from[y].size
    BY <2>1
  <2> HIDE DEF from
  <2>3. from \in [Of(s, M) -> Of(s, all)]
    <3>1. \A y \in Of(s, M) : from[y] \in Of(s, all)
      BY <1>2, <2>2 DEF Of
    <3>2. from = [y \in Of(s, M) |-> from[y]]
      BY DEF from
    <3>3. QED
      BY <3>1, <3>2
  <2>4. \A x, y \in Of(s, M) : from[x] = from[y] => x = y
    BY <2>2
  <2>5. /\ Of(s, M) \in SUBSET M /\ IsFiniteSet(Of(s, M))
        /\ Of(s, all) \in SUBSET all /\ IsFiniteSet(Of(s, all))
    BY <1>9, OfFacts
  <2>6. /\ \A y \in Of(s, M) : Sizes(M)[y] \in Int /\ Sizes(M)[y] = y.size
        /\ \A q \in Of(s, all) : Sizes(all)[q] \in Nat /\ Sizes(all)[q] = q.size
    BY <1>8, <2>5, SizesFacts
  <2>7. \A y \in Of(s, M) : Sizes(M)[y] <= Sizes(all)[from[y]]
    BY <2>2, <2>3, <2>6
  <2> DEFINE X == Of(s, M)
             Y == Of(s, all)
             f == Sizes(M)
             g == Sizes(all)
  <2>8. /\ IsFiniteSet(X) /\ IsFiniteSet(Y) /\ from \in [X -> Y]
        /\ \A x, y \in X : from[x] = from[y] => x = y
        /\ \A x \in X : f[x] \in Int
        /\ \A y \in Y : g[y] \in Nat
        /\ \A x \in X : f[x] <= g[from[x]]
    BY <2>3, <2>4, <2>5, <2>6, <2>7
  <2> HIDE DEF X, Y, f, g
  <2>9. Total(X, f) <= Total(Y, g)
    BY <2>8, TotalInto
  <2>10. QED
    BY <2>9 DEF X, Y, f, g, Asked
<1>14. QED
  BY <1>8, <1>9, <1>10, <1>11, <1>12, <1>13 DEF M

\* What the strategy asks for: in the band, uncrossed, and fitting on either side.
LEMMA QuotesFacts ==
  ASSUME Typed, NEW ref \in Nat \ {0}, NEW ext \in BOOLEAN, NEW r \in Reading
  PROVE  LET Q == Quotes(ref, ext, r)
         IN  /\ Q \in SUBSET Quoted /\ IsFiniteSet(Q) /\ Single(Q) /\ Uncrossed(Q)
             /\ kind = "engine" => \A q \in Q : index - c.band <= q.price /\ q.price <= index + c.band
             /\ \A s \in Sides : Fits(s, Asked(s, Q), ref, ext, r)
             /\ kind = "spot" => \A q \in Of("buy", Q) : q.price <= PriceOf("buy", 0, ref, ext, r.inv)
<1> DEFINE B == SideQuotes("buy", ref, ext, r)
           A == SideQuotes("sell", ref, ext, r)
           all == B \cup A
           Q == Quotes(ref, ext, r)
           bid == PriceOf("buy", 0, ref, ext, r.inv)
           ask == PriceOf("sell", 0, ref, ext, r.inv)
           lo == index - c.band
           hi == index + c.band
<1>1. Offer("buy", B, ref, ext, r) /\ Offer("sell", A, ref, ext, r)
  BY SideFacts DEF Sides
<1>2. Q = IF kind = "engine" THEN ClampLevels(all, lo, hi) ELSE all
  BY DEF Quotes, Sides
<1>3. bid \in Int /\ ask \in Int
  BY PriceFacts DEF Reading
<1> HIDE DEF B, A, Q
<1>4. /\ \A q \in B : q.side = "buy" /\ q.price <= bid /\ q.price < ask /\ q \in Quoted
      /\ \A q \in A : q.side = "sell" /\ q.price >= ask /\ q \in Quoted
      /\ IsFiniteSet(B) /\ IsFiniteSet(A) /\ Single(B) /\ Single(A)
  BY <1>1 DEF Offer
<1> HIDE DEF bid, ask
<1>5. all \in SUBSET Quoted /\ IsFiniteSet(all)
  BY <1>4, FS_Union
<1>6. Single(all)
  BY <1>4 DEF Single
<1>7. Uncrossed(all)
  <2> SUFFICES ASSUME NEW b \in all, NEW a \in all, b.side = "buy", a.side = "sell" PROVE b.price < a.price
    BY DEF Uncrossed
  <2>1. b \in B /\ a \in A
    BY <1>4
  <2>2. b.price < ask /\ a.price >= ask /\ b.price \in Nat /\ a.price \in Nat
    BY <1>4, <2>1 DEF Quoted
  <2>3. QED
    BY <1>3, <2>2
<1>8. Of("buy", all) = B /\ Of("sell", all) = A
  BY <1>4 DEF Of
<1>9. Asked("buy", all) = Total(B, Sizes(B)) /\ Asked("sell", all) = Total(A, Sizes(A))
  <2> DEFINE f == Sizes(all)
             g == Sizes(B)
             h == Sizes(A)
  <2>1. /\ \A q \in B : g[q] \in Int /\ f[q] = g[q]
        /\ \A q \in A : h[q] \in Int /\ f[q] = h[q]
    <3>1. B \in SUBSET Quoted /\ A \in SUBSET Quoted
      BY <1>4
    <3>2. QED
      BY <1>5, <3>1, SizesFacts
  <2> HIDE DEF f, g, h
  <2>2. Total(B, f) = Total(B, g) /\ Total(A, f) = Total(A, h)
    BY <1>4, <2>1, TotalSame
  <2>3. QED
    BY <1>8, <2>2 DEF Asked, f, g, h
<1>10. Fits("buy", Asked("buy", all), ref, ext, r) /\ Fits("sell", Asked("sell", all), ref, ext, r)
  BY <1>1, <1>9 DEF Offer
<1>11. CASE kind # "engine"
  <2>1. Q = all
    BY <1>2, <1>11
  <2>2. \A s \in Sides : Fits(s, Asked(s, Q), ref, ext, r)
    BY <1>10, <2>1 DEF Sides
  <2>3. \A q \in Of("buy", Q) : q.price <= bid
    BY <1>4, <1>8, <2>1
  <2> HIDE DEF all
  <2>4. QED
    BY <1>5, <1>6, <1>7, <1>11, <2>1, <2>2, <2>3 DEF Q, bid
<1>12. CASE kind = "engine"
  <2>1. lo \in Int /\ hi \in Nat \ {0} /\ lo <= hi
    BY WorldFacts, SettingsFacts
  <2>2. Q = ClampLevels(all, lo, hi)
    BY <1>2, <1>12
  <2> HIDE DEF all, lo, hi
  <2>3. /\ Q \in SUBSET Quoted /\ IsFiniteSet(Q) /\ Single(Q) /\ Uncrossed(Q)
        /\ \A q \in Q : lo <= q.price /\ q.price <= hi
        /\ \A s \in Sides : Asked(s, Q) <= Asked(s, all)
    BY <1>5, <1>6, <1>7, <2>1, <2>2, ClampFacts
  <2>4. ASSUME NEW s \in Sides PROVE Fits(s, Asked(s, Q), ref, ext, r)
    <3> DEFINE m == Asked(s, Q)
               n == Asked(s, all)
               price == PriceOf(s, 0, ref, ext, r.inv)
               room == IF s = "buy" THEN LongLimit(ref) - r.inv ELSE r.inv - ShortLimit(ref)
               most == Capacity(s, price, ref, r)
    <3>1. m \in Nat /\ n \in Nat /\ m <= n
      BY <1>5, <2>3, AskedNat
    <3>2. Fits(s, n, ref, ext, r)
      BY <1>10 DEF Sides
    <3>3. room \in Int
      BY WorldFacts, LimitFacts DEF Reading
    <3>4. n > 0 => most \in Int
      BY <3>2, CapacityFacts DEF Fits
    <3> HIDE DEF m, n
    <3>5. n > 0 => price \in Nat \ {0} /\ ~(kind = "perp" /\ ~trading /\ ~c.closed) /\ n <= room /\ n <= most
      BY <3>2 DEF Fits
    <3> HIDE DEF room, most, price
    <3>6. m > 0 => price \in Nat \ {0} /\ ~(kind = "perp" /\ ~trading /\ ~c.closed) /\ m <= room /\ m <= most
      BY <3>1, <3>3, <3>4, <3>5
    <3>7. QED
      BY <3>1, <3>6 DEF Fits, m, room, most, price
  <2>5. QED
    BY <1>12, <2>3, <2>4 DEF Q, lo, hi
<1>13. QED
  BY <1>11, <1>12

LEMMA LimitsFacts ==
  ASSUME Typed, NEW ref \in Nat \ {0}, NEW ext \in BOOLEAN, NEW r \in Reading
  PROVE  Limits(ref, ext, r) \in LimitSet
<1>1. r.inv \in Int /\ r.cash \in Int /\ r.reserved.buy \in Int /\ r.reserved.sell \in Int
  BY DEF Reading, Pair
<1>2. LongLimit(ref) \in Int /\ ShortLimit(ref) \in Int /\ Bound(r.cash, ref) \in Int
  BY <1>1, WorldFacts, LimitFacts, BoundFacts
<1>3. PriceOf("buy", 0, ref, ext, r.inv) \in Int /\ PriceOf("sell", 0, ref, ext, r.inv) \in Int
  BY <1>1, PriceFacts
<1>4. /\ Opening("buy", PriceOf("buy", 0, ref, ext, r.inv)) \in Int
      /\ Opening("sell", PriceOf("sell", 0, ref, ext, r.inv)) \in Int
  BY <1>3, OpeningFacts DEF Sides
<1>5. index - c.band \in Int /\ index + c.band \in Int
  BY WorldFacts, SettingsFacts
<1>6. Sound(r) \in BOOLEAN
  BY DEF Sound
<1>7. QED
  BY <1>2, <1>4, <1>5, <1>6 DEF Limits, LimitSet, None, Pair

\* A decision keeps to the limits it stands under.
LEMMA DecisionFacts ==
  ASSUME Typed, NEW ref \in Nat \ {0}, NEW ext \in BOOLEAN, NEW r \in Reading,
         kind = "spot" => r.reserved.buy = r.mine.buy + c.elsewhere /\ r.reserved.sell = r.mine.sell
  PROVE  Within(Quotes(ref, ext, r), Limits(ref, ext, r), r)
<1> DEFINE Q == Quotes(ref, ext, r)
           L == Limits(ref, ext, r)
           bid == PriceOf("buy", 0, ref, ext, r.inv)
           ask == PriceOf("sell", 0, ref, ext, r.inv)
           buys == Asked("buy", Q)
           sells == Asked("sell", Q)
<1>1. /\ Q \in SUBSET Quoted /\ IsFiniteSet(Q)
      /\ \A s \in Sides : Fits(s, Asked(s, Q), ref, ext, r)
      /\ kind = "spot" => \A q \in Of("buy", Q) : q.price <= bid
  BY QuotesFacts
<1>2. r.inv \in Int /\ r.cash \in Int /\ r.reserved \in Pair /\ r.mine \in Pair
  BY DEF Reading
<1>3. bid \in Int /\ ask \in Int
  BY <1>2, PriceFacts
<1>4. /\ L.long = LongLimit(ref) /\ L.short = ShortLimit(ref) /\ L.bound = Bound(r.cash, ref)
      /\ L.opening.buy = Opening("buy", bid) /\ L.opening.sell = Opening("sell", ask)
      /\ (L.sound <=> Sound(r))
  BY DEF Limits
<1>5. LongLimit(ref) \in Int /\ ShortLimit(ref) \in Int /\ Bound(r.cash, ref) \in Int
  BY <1>2, WorldFacts, LimitFacts, BoundFacts
<1> HIDE DEF Q, L
<1>6. Fits("buy", buys, ref, ext, r) /\ Fits("sell", sells, ref, ext, r)
  BY <1>1 DEF Sides
<1>7. buys \in Nat /\ sells \in Nat
  BY <1>6 DEF Fits
<1> HIDE DEF buys, sells
<1>8. buys > 0 =>
        /\ bid \in Nat \ {0} /\ ~(kind = "perp" /\ ~trading /\ ~c.closed)
        /\ buys <= LongLimit(ref) - r.inv /\ buys <= Capacity("buy", bid, ref, r)
  BY <1>6 DEF Fits
<1>9. sells > 0 =>
        /\ ask \in Nat \ {0} /\ ~(kind = "perp" /\ ~trading /\ ~c.closed)
        /\ sells <= r.inv - ShortLimit(ref) /\ sells <= Capacity("sell", ask, ref, r)
  BY <1>6 DEF Fits
<1> HIDE DEF bid, ask
<1>10. (buys > 0 => r.inv + buys <= L.long) /\ (sells > 0 => r.inv - sells >= L.short)
  BY <1>2, <1>4, <1>5, <1>7, <1>8, <1>9
<1>11. Opening("buy", bid) \in Int /\ Opening("sell", ask) \in Int
       /\ Closing("buy", r.inv) \in Int /\ Closing("sell", r.inv) \in Int
  BY <1>2, <1>3, OpeningFacts DEF Closing, Larger, Sides
<1>12. ASSUME kind \in {"perp", "engine", "option"}, ~(kind = "perp" /\ c.closed)
       PROVE  /\ buys > 0 => buys <= Closing("buy", r.inv) + L.opening.buy
                             /\ (kind = "perp" => r.inv + buys <= L.bound)
              /\ sells > 0 => sells <= Closing("sell", r.inv) + L.opening.sell
                              /\ (kind = "perp" => -r.inv + sells <= L.bound)
  <2>1. CASE kind \in {"engine", "option"}
    <3>1. /\ Capacity("buy", bid, ref, r) = Closing("buy", r.inv) + Opening("buy", bid)
          /\ Capacity("sell", ask, ref, r) = Closing("sell", r.inv) + Opening("sell", ask)
      BY <2>1 DEF Capacity
    <3>2. QED
      BY <1>4, <1>8, <1>9, <2>1, <3>1
  <2>2. CASE kind = "perp"
    <3>1. buys > 0 \/ sells > 0 => trading
      BY <1>8, <1>9, <1>12, <2>2, SettingsFacts, WorldFacts
    <3> DEFINE bought == Closing("buy", r.inv) + Opening("buy", bid)
               sold == Closing("sell", r.inv) + Opening("sell", ask)
    <3>2. trading =>
            /\ Capacity("buy", bid, ref, r) = Smaller(Larger(0, Bound(r.cash, ref) - r.inv), bought)
            /\ Capacity("sell", ask, ref, r) = Smaller(Larger(0, Bound(r.cash, ref) - (-r.inv)), sold)
      BY <2>2 DEF Capacity
    <3>3. bought \in Int /\ sold \in Int
      BY <1>11
    <3> HIDE DEF bought, sold
    <3>4. ASSUME buys > 0 PROVE buys <= bought /\ r.inv + buys <= Bound(r.cash, ref)
      BY <1>2, <1>5, <1>7, <1>8, <3>1, <3>2, <3>3, <3>4 DEF Smaller, Larger
    <3>5. ASSUME sells > 0 PROVE sells <= sold /\ -r.inv + sells <= Bound(r.cash, ref)
      BY <1>2, <1>5, <1>7, <1>9, <3>1, <3>2, <3>3, <3>5 DEF Smaller, Larger
    <3>6. QED
      BY <1>4, <3>4, <3>5 DEF bought, sold
  <2>3. QED
    BY <1>12, <2>1, <2>2
<1>13. kind \in {"perp", "engine", "option"} /\ ~(kind = "perp" /\ c.closed) =>
         \A s \in Sides : Asked(s, Q) > 0 =>
           /\ Asked(s, Q) <= Closing(s, r.inv) + L.opening[s]
           /\ kind = "perp" => (IF s = "buy" THEN r.inv ELSE -r.inv) + Asked(s, Q) <= L.bound
  BY <1>12 DEF Sides, buys, sells
<1>14. ASSUME kind = "spot", Sound(r)
       PROVE  sells <= r.inv /\ Total(Of("buy", Q), Costs(Q)) + c.elsewhere <= r.cash
  <2>1. /\ r.mine.buy \in Nat /\ r.mine.sell \in Nat /\ c.elsewhere \in Nat
        /\ r.reserved.buy = r.mine.buy + c.elsewhere /\ r.reserved.sell = r.mine.sell
        /\ r.reserved.buy <= r.cash /\ r.reserved.sell <= r.inv
    BY <1>2, <1>14, WorldFacts, SettingsFacts DEF Sound, Pair
  <2>2. /\ Budget(r.cash, r.reserved.buy, r.mine.buy) = r.cash - c.elsewhere
        /\ Budget(r.inv, r.reserved.sell, r.mine.sell) = r.inv
    BY <1>2, <2>1 DEF Budget, Larger, Smaller
  <2>3. /\ Capacity("buy", bid, ref, r) = (r.cash - c.elsewhere) \div bid
        /\ Capacity("sell", ask, ref, r) = r.inv
    BY <1>14, <2>2 DEF Capacity
  <2>4. sells <= r.inv
    BY <1>2, <1>7, <1>9, <2>1, <2>3
  <2> DEFINE B == Of("buy", Q)
  <2>5. B \in SUBSET Q /\ IsFiniteSet(B)
    BY <1>1, OfFacts
  <2>6. \A q \in B : /\ Costs(Q)[q] \in Int /\ Sizes(Q)[q] \in Int
                     /\ Costs(Q)[q] <= bid * Sizes(Q)[q]
    <3> SUFFICES ASSUME NEW q \in B
                 PROVE  Costs(Q)[q] \in Int /\ Sizes(Q)[q] \in Int /\ Costs(Q)[q] <= bid * Sizes(Q)[q]
      OBVIOUS
    <3> DEFINE n == q.size
               p == q.price
    <3>1. n \in Nat /\ p \in Nat /\ p <= bid /\ Costs(Q)[q] = n * p /\ Sizes(Q)[q] = n
      BY <1>1, <1>14, <2>5 DEF Costs, Sizes, Quoted
    <3> HIDE DEF n, p
    <3>2. n * p <= bid * n /\ n * p \in Int
      BY <1>3, <3>1
    <3>3. QED
      BY <3>1, <3>2
  <2> DEFINE f == Costs(Q)
             g == Sizes(Q)
             spent == Total(B, f)
  <2>7. Total(B, g) = buys
    BY DEF Asked, buys
  <2>8. \A q \in B : f[q] \in Int /\ g[q] \in Int /\ f[q] <= bid * g[q]
    BY <2>6
  <2> HIDE DEF f, g, B
  <2>9. spent <= bid * buys
    BY <1>3, <2>5, <2>7, <2>8, TotalScaled
  <2>10. spent \in Int
    BY <2>5, <2>8, TotalFacts
  <2> HIDE DEF spent
  <2>11. CASE buys = 0
    BY <1>2, <1>3, <2>1, <2>4, <2>9, <2>10, <2>11 DEF spent, f, B
  <2>12. CASE buys > 0
    <3> DEFINE free == r.cash - c.elsewhere
               most == free \div bid
    <3>1. free \in Int /\ bid \in Nat \ {0}
      BY <1>2, <1>8, <2>1, <2>12
    <3> HIDE DEF free
    <3>2. most \in Int /\ most * bid <= free
      BY <3>1, DivFacts
    <3>3. buys <= most
      BY <1>8, <2>3, <2>12 DEF free
    <3> HIDE DEF most
    <3>4. bid * buys <= most * bid
      BY <1>7, <3>1, <3>2, <3>3
    <3>5. bid * buys \in Int /\ most * bid \in Int
      BY <1>7, <3>1, <3>2
    <3>6. spent <= free
      BY <2>9, <2>10, <3>1, <3>2, <3>4, <3>5
    <3>7. QED
      BY <1>2, <2>1, <2>4, <2>10, <3>6 DEF free, spent, f, B
  <2>13. QED
    BY <1>7, <2>4, <2>11, <2>12 DEF spent, f, B
<1>15. QED
  BY <1>4, <1>10, <1>13, <1>14 DEF Within, Q, L, buys, sells

-----------------------------------------------------------------------------
(* What rests, and what backs it.                                          *)

Rests(s, S) == Total(Of(s, S), [o \in S |-> o.left])
Worth(S) == Total(Of("buy", S), [o \in S |-> o.left * o.price])

\* InventoryKept, MarginKept and SpotBacked of the orders S, with i held and m of cash, under the limits l.
Backed(i, m, S, l) ==
  /\ Rests("buy", S) > 0 => i + Rests("buy", S) <= l.long + l.late.buy
  /\ Rests("sell", S) > 0 => i - Rests("sell", S) >= l.short - l.late.sell
  /\ kind \in {"perp", "engine", "option"} /\ ~(kind = "perp" /\ c.closed) =>
       \A s \in Sides : Rests(s, S) > 0 =>
         /\ Rests(s, S) - Closing(s, i) <= l.opening[s] + l.late[s]
         /\ kind = "perp" => (IF s = "buy" THEN i ELSE -i) + Rests(s, S) <= l.bound + l.late[s]
  /\ kind = "spot" /\ l.sound /\ l.late = None =>
       /\ Rests("sell", S) <= i
       /\ Worth(S) + c.elsewhere <= m

LEMMA BackedIs ==
  /\ InventoryKept /\ MarginKept /\ SpotBacked <=> Backed(inv, cash, rest, terms)
  /\ kind' = kind => ((InventoryKept /\ MarginKept /\ SpotBacked)' <=> Backed(inv', cash', rest', terms'))
<1>1. \A s : Left(s) = Rests(s, rest) /\ Left(s)' = Rests(s, rest')
  BY DEF Left, Rests, Remaining, Total, Of
<1>2. /\ Total(Of("buy", rest), [o \in rest |-> o.left * o.price]) = Worth(rest)
      /\ Total(Of("buy", rest), [o \in rest |-> o.left * o.price])' = Worth(rest')
  BY DEF Worth, Total, Of
<1>3. InventoryKept /\ MarginKept /\ SpotBacked <=> Backed(inv, cash, rest, terms)
  BY <1>1, <1>2 DEF InventoryKept, MarginKept, SpotBacked, Backed
<1>4. ASSUME kind' = kind
      PROVE  (InventoryKept /\ MarginKept /\ SpotBacked)' <=> Backed(inv', cash', rest', terms')
  <2>1. c' = c
    BY <1>4 DEF c
  <2>2. \A s, i : Closing(s, i)' = Closing(s, i)
    BY DEF Closing, Larger
  <2>3. QED
    BY <1>1, <1>2, <1>4, <2>1, <2>2 DEF InventoryKept, MarginKept, SpotBacked, Backed, None
<1>5. QED
  BY <1>3, <1>4

LEMMA RestsNat ==
  ASSUME NEW S \in SUBSET Order, IsFiniteSet(S), NEW s
  PROVE  Rests(s, S) \in Nat /\ Worth(S) \in Nat
<1> DEFINE f == [o \in S |-> o.left]
           g == [o \in S |-> o.left * o.price]
<1>1. /\ Of(s, S) \in SUBSET S /\ IsFiniteSet(Of(s, S))
      /\ Of("buy", S) \in SUBSET S /\ IsFiniteSet(Of("buy", S))
  BY OfFacts
<1>2. \A o \in S : f[o] \in Nat /\ g[o] \in Nat
  BY DEF Order
<1> HIDE DEF f, g
<1>3. Total(Of(s, S), f) \in Nat /\ Total(Of("buy", S), g) \in Nat
  BY <1>1, <1>2, TotalNat
<1>4. QED
  BY <1>3 DEF Rests, Worth, f, g

\* A sum when one member is taken out, or put another in its place.
LEMMA TotalSwap ==
  ASSUME NEW T, IsFiniteSet(T), NEW o \in T, NEW f, \A x \in T : f[x] \in Int,
         NEW U, NEW g, \A x \in U : g[x] \in Int, \A x \in T \ {o} : g[x] = f[x]
  PROVE  /\ U = T \ {o} => Total(U, g) = Total(T, f) - f[o]
         /\ \A p : U = (T \ {o}) \cup {p} /\ p \notin T \ {o} => Total(U, g) = Total(T, f) - f[o] + g[p]
<1> DEFINE R == T \ {o}
<1>1. IsFiniteSet(R) /\ (\A x \in R : f[x] \in Int) /\ \A x \in R : g[x] = f[x]
  BY FS_Subset
<1>2. Total(T, f) = f[o] + Total(R, f)
  BY TotalFacts
<1> HIDE DEF R
<1>3. Total(R, g) = Total(R, f) /\ Total(R, f) \in Int /\ f[o] \in Int
  <2>1. Total(R, g) = Total(R, f)
    BY <1>1, TotalSame
  <2>2. Total(R, f) \in Int
    BY <1>1, TotalFacts
  <2>3. QED
    BY <2>1, <2>2
<1>4. \A p : U = R \cup {p} /\ p \notin R => Total(U, g) = g[p] + Total(R, g) /\ g[p] \in Int
  <2> SUFFICES ASSUME NEW p, U = R \cup {p}, p \notin R
               PROVE  Total(U, g) = g[p] + Total(R, g) /\ g[p] \in Int
    OBVIOUS
  <2>1. \A x \in R \cup {p} : g[x] \in Int
    OBVIOUS
  <2>2. Total(R \cup {p}, g) = g[p] + Total(R, g)
    BY <1>1, <2>1, TotalAdd
  <2>3. QED
    BY <2>1, <2>2
<1>5. U = R => Total(U, g) = Total(T, f) - f[o]
  BY <1>2, <1>3
<1>6. \A p : U = R \cup {p} /\ p \notin R => Total(U, g) = Total(T, f) - f[o] + g[p]
  <2> SUFFICES ASSUME NEW p, U = R \cup {p}, p \notin R PROVE Total(U, g) = Total(T, f) - f[o] + g[p]
    OBVIOUS
  <2>1. Total(U, g) = g[p] + Total(R, g) /\ g[p] \in Int
    BY <1>4
  <2>2. QED
    BY <1>2, <1>3, <2>1
<1>7. QED
  BY <1>5, <1>6 DEF R

\* A fill of n units takes them off its order's side, and their price off the side's worth.
Filled(S, o, n) == (S \ {o}) \cup (IF n = o.left THEN {} ELSE {[o EXCEPT !.left = @ - n]})

LEMMA FilledFacts ==
  ASSUME NEW S \in SUBSET Order, IsFiniteSet(S), Single(S), NEW o \in S, NEW n \in Nat \ {0}, n <= o.left
  PROVE  LET S2 == Filled(S, o, n)
         IN  /\ S2 \in SUBSET Order /\ IsFiniteSet(S2)
             /\ \A p \in S2 : \E q \in S : p.side = q.side /\ p.price = q.price
                                             /\ p.desired = q.desired /\ p.left <= q.left
             /\ Single(S2)
             /\ Rests(o.side, S2) = Rests(o.side, S) - n
             /\ \A s \in Sides : s # o.side => Rests(s, S2) = Rests(s, S)
             /\ Worth(S2) = IF o.side = "buy" THEN Worth(S) - n * o.price ELSE Worth(S)
<1> DEFINE p == [o EXCEPT !.left = @ - n]
           S2 == Filled(S, o, n)
           f == [x \in S |-> x.left]
           f2 == [x \in S2 |-> x.left]
           g == [x \in S |-> x.left * x.price]
           g2 == [x \in S2 |-> x.left * x.price]
           T(s) == Of(s, S)
           U(s) == Of(s, S2)
<1>1. o \in Order /\ o.left \in Nat \ {0} /\ o.price \in Nat \ {0} /\ o.side \in Sides
  BY DEF Order
<1>2. n # o.left => p \in Order /\ p.side = o.side /\ p.price = o.price /\ p.desired = o.desired
                    /\ p.left = o.left - n
  <2> DEFINE m == o.left - n
  <2>1. n # o.left => m \in Nat \ {0}
    BY <1>1
  <2>2. p = [o EXCEPT !.left = m]
    OBVIOUS
  <2> HIDE DEF m, p
  <2>3. n # o.left => p \in Order /\ p.side = o.side /\ p.price = o.price /\ p.desired = o.desired /\ p.left = m
    BY <1>1, <2>1, <2>2 DEF Order
  <2>4. QED
    BY <2>3 DEF m
<1> HIDE DEF p
<1>3. n # o.left => p \notin S
  <2> SUFFICES ASSUME n # o.left, p \in S PROVE FALSE
    OBVIOUS
  <2>1. p = o
    BY <1>2 DEF Single
  <2>2. QED
    BY <1>1, <1>2, <2>1
<1>4. S2 = (S \ {o}) \cup (IF n = o.left THEN {} ELSE {p})
  BY DEF Filled, p
<1> HIDE DEF S2
<1>5. S2 \in SUBSET Order /\ IsFiniteSet(S2)
  <2>1. IsFiniteSet(S \ {o})
    BY FS_Subset
  <2>2. IsFiniteSet((S \ {o}) \cup {p})
    BY <2>1, FS_AddElement
  <2>3. QED
    BY <1>2, <1>4, <2>1, <2>2
<1>6. \A x \in S2 : \E q \in S : x.side = q.side /\ x.price = q.price /\ x.desired = q.desired /\ x.left <= q.left
  <2> SUFFICES ASSUME NEW x \in S2
               PROVE  \E q \in S : x.side = q.side /\ x.price = q.price /\ x.desired = q.desired /\ x.left <= q.left
    OBVIOUS
  <2>1. CASE x \in S
    BY <2>1 DEF Order
  <2>2. CASE x \notin S
    <3>1. n # o.left /\ x = p
      BY <1>4, <2>2
    <3>2. p.left <= o.left
      BY <1>1, <1>2, <3>1
    <3>3. QED
      BY <1>2, <3>1, <3>2
  <2>3. QED
    BY <2>1, <2>2
<1>7. Single(S2)
  BY <1>2, <1>4 DEF Single
<1>8. \A s : T(s) \in SUBSET S /\ IsFiniteSet(T(s)) /\ U(s) \in SUBSET S2
  BY <1>5, OfFacts
<1>9. /\ \A x \in S : f[x] \in Int /\ g[x] \in Int
      /\ \A x \in S2 : f2[x] \in Int /\ g2[x] \in Int
      /\ \A x \in S \ {o} : x \in S2 /\ f2[x] = f[x] /\ g2[x] = g[x]
  BY <1>4, <1>5 DEF Order
<1>10. f[o] = o.left /\ g[o] = o.left * o.price
  OBVIOUS
<1>11. n # o.left => p \in S2 /\ f2[p] = o.left - n /\ g2[p] = (o.left - n) * o.price
  BY <1>2, <1>4
<1> HIDE DEF f, f2, g, g2
<1>12. U(o.side) = IF n = o.left THEN T(o.side) \ {o} ELSE (T(o.side) \ {o}) \cup {p}
  BY <1>2, <1>4 DEF Of
<1>13. o \in T(o.side) /\ (n # o.left => p \notin T(o.side) \ {o})
  BY <1>3 DEF Of
<1>14. \A s : s # o.side => U(s) = T(s)
  BY <1>2, <1>4 DEF Of
<1>15. \A s : s # o.side => Total(U(s), f2) = Total(T(s), f) /\ Total(U(s), g2) = Total(T(s), g)
  <2> SUFFICES ASSUME NEW s, s # o.side
               PROVE  Total(U(s), f2) = Total(T(s), f) /\ Total(U(s), g2) = Total(T(s), g)
    OBVIOUS
  <2> DEFINE V == T(s)
  <2>1. o \notin V /\ V \in SUBSET S /\ IsFiniteSet(V) /\ U(s) = V
    BY <1>8, <1>14 DEF Of
  <2> HIDE DEF V
  <2>2. /\ \A x \in V : f[x] \in Int /\ g[x] \in Int
        /\ \A x \in V : f2[x] = f[x] /\ g2[x] = g[x]
    BY <1>9, <2>1
  <2>3. Total(V, f2) = Total(V, f) /\ Total(V, g2) = Total(V, g)
    BY <2>1, <2>2, TotalSame
  <2>4. QED
    BY <2>1, <2>3 DEF V
<1>16. /\ Total(U(o.side), f2) = Total(T(o.side), f) - n
       /\ Total(U(o.side), g2) = Total(T(o.side), g) - n * o.price
  <2> DEFINE V == T(o.side)
             W == U(o.side)
             l == o.left
             r == o.price
  <2>1. /\ V \in SUBSET S /\ IsFiniteSet(V) /\ W \in SUBSET S2 /\ o \in V
    BY <1>8, <1>13
  <2>2. W = (IF n = l THEN V \ {o} ELSE (V \ {o}) \cup {p}) /\ (n # l => p \notin V \ {o})
    BY <1>12, <1>13
  <2> HIDE DEF V, W
  <2>3. /\ \A x \in V : f[x] \in Int /\ g[x] \in Int
        /\ \A x \in W : f2[x] \in Int /\ g2[x] \in Int
        /\ \A x \in V \ {o} : f2[x] = f[x] /\ g2[x] = g[x]
    BY <1>9, <2>1
  <2>4. /\ W = V \ {o} => Total(W, f2) = Total(V, f) - f[o]
        /\ W = (V \ {o}) \cup {p} /\ p \notin V \ {o} => Total(W, f2) = Total(V, f) - f[o] + f2[p]
    BY <2>1, <2>3, TotalSwap
  <2>5. /\ W = V \ {o} => Total(W, g2) = Total(V, g) - g[o]
        /\ W = (V \ {o}) \cup {p} /\ p \notin V \ {o} => Total(W, g2) = Total(V, g) - g[o] + g2[p]
    BY <2>1, <2>3, TotalSwap
  <2>6. Total(V, f) \in Int /\ Total(V, g) \in Int
    BY <2>1, <2>3, TotalFacts
  <2>7. l \in Nat /\ r \in Nat /\ f[o] = l /\ g[o] = l * r
        /\ (n # l => f2[p] = l - n /\ g2[p] = (l - n) * r)
    BY <1>1, <1>10, <1>11
  <2> HIDE DEF l, r
  <2>8. (l - n) * r = l * r - n * r /\ l * r \in Int /\ n * r \in Int
    BY <2>7
  <2>9. Total(W, f2) = Total(V, f) - n
    BY <2>2, <2>4, <2>6, <2>7
  <2>10. Total(W, g2) = Total(V, g) - n * r
    BY <2>2, <2>5, <2>6, <2>7, <2>8
  <2>11. QED
    BY <2>9, <2>10 DEF V, W, r
<1>17. \A s : Rests(s, S) = Total(T(s), f) /\ Rests(s, S2) = Total(U(s), f2)
  BY DEF Rests, f, f2
<1>18. Worth(S) = Total(T("buy"), g) /\ Worth(S2) = Total(U("buy"), g2)
  BY DEF Worth, g, g2
<1> HIDE DEF T, U
<1>19. Rests(o.side, S2) = Rests(o.side, S) - n /\ \A s \in Sides : s # o.side => Rests(s, S2) = Rests(s, S)
  BY <1>15, <1>16, <1>17
<1>20. Worth(S2) = IF o.side = "buy" THEN Worth(S) - n * o.price ELSE Worth(S)
  BY <1>15, <1>16, <1>18
<1>21. QED
  BY <1>5, <1>6, <1>7, <1>19, <1>20 DEF S2

LEMMA BackedFill ==
  ASSUME NEW S \in SUBSET Order, IsFiniteSet(S), Single(S), NEW o \in S, NEW n \in Nat \ {0}, n <= o.left,
         NEW l \in LimitSet, NEW i \in Int, NEW m \in Int, Backed(i, m, S, l), NEW m2 \in Int,
         kind = "spot" => m2 = IF o.side = "buy" THEN m - n * o.price ELSE m + n * o.price,
         kind \in DOMAIN Config
  PROVE  Backed(IF o.side = "buy" THEN i + n ELSE i - n, m2, Filled(S, o, n), l)
<1> DEFINE i2 == IF o.side = "buy" THEN i + n ELSE i - n
           S2 == Filled(S, o, n)
           b == Rests("buy", S)
           a == Rests("sell", S)
           b2 == Rests("buy", S2)
           a2 == Rests("sell", S2)
           w == Worth(S)
           w2 == Worth(S2)
           e == c.elsewhere
           x == n * o.price
<1>1. o.side \in Sides /\ x \in Nat
  BY DEF Order
<1>2. /\ S2 \in SUBSET Order /\ IsFiniteSet(S2)
      /\ Rests(o.side, S2) = Rests(o.side, S) - n
      /\ \A s \in Sides : s # o.side => Rests(s, S2) = Rests(s, S)
      /\ w2 = IF o.side = "buy" THEN w - x ELSE w
  BY FilledFacts
<1>3. a \in Nat /\ b \in Nat /\ w \in Nat
  BY RestsNat
<1>4. a2 \in Nat /\ b2 \in Nat
  BY <1>2, RestsNat
<1>5. /\ o.side = "buy" => b2 = b - n /\ a2 = a
      /\ o.side = "sell" => a2 = a - n /\ b2 = b
  BY <1>2 DEF Sides
<1>6. e \in Nat
  BY SettingsFacts
<1>7. /\ l.long \in Int /\ l.short \in Int /\ l.late.buy \in Int /\ l.late.sell \in Int
      /\ l.opening.buy \in Int /\ l.opening.sell \in Int /\ l.bound \in Int
  BY DEF LimitSet, Pair
<1> DEFINE margin == kind \in {"perp", "engine", "option"} /\ ~(kind = "perp" /\ c.closed)
           spot == kind = "spot" /\ l.sound /\ l.late = None
<1>8. /\ b > 0 => i + b <= l.long + l.late.buy
      /\ a > 0 => i - a >= l.short - l.late.sell
      /\ margin /\ b > 0 => b - Larger(0, -i) <= l.opening.buy + l.late.buy /\ (kind = "perp" => i + b <= l.bound + l.late.buy)
      /\ margin /\ a > 0 => a - Larger(0, i) <= l.opening.sell + l.late.sell /\ (kind = "perp" => -i + a <= l.bound + l.late.sell)
      /\ spot => a <= i /\ w + e <= m
  BY DEF Backed, Sides, Closing
<1>9. o.side = "buy" \/ o.side = "sell"
  BY <1>1 DEF Sides
<1> HIDE DEF S2, b, a, b2, a2, w, w2, e, x, margin
<1>10. /\ b2 > 0 => i2 + b2 <= l.long + l.late.buy
       /\ a2 > 0 => i2 - a2 >= l.short - l.late.sell
  BY <1>3, <1>4, <1>5, <1>7, <1>8, <1>9
<1>11. margin /\ b2 > 0 => b2 - Larger(0, -i2) <= l.opening.buy + l.late.buy
                           /\ (kind = "perp" => i2 + b2 <= l.bound + l.late.buy)
  BY <1>3, <1>4, <1>5, <1>7, <1>8, <1>9 DEF Larger
<1>12. margin /\ a2 > 0 => a2 - Larger(0, i2) <= l.opening.sell + l.late.sell
                           /\ (kind = "perp" => -i2 + a2 <= l.bound + l.late.sell)
  BY <1>3, <1>4, <1>5, <1>7, <1>8, <1>9 DEF Larger
<1>13. spot => a2 <= i2 /\ w2 + e <= m2
  <2> SUFFICES ASSUME spot PROVE a2 <= i2 /\ w2 + e <= m2
    OBVIOUS
  <2>1. m2 = IF o.side = "buy" THEN m - x ELSE m + x
    BY DEF x
  <2>2. a <= i /\ w + e <= m
    BY <1>8
  <2> HIDE DEF spot
  <2>3. QED
    BY <1>1, <1>2, <1>3, <1>4, <1>5, <1>6, <1>9, <2>1, <2>2
<1>14. QED
  BY <1>10, <1>11, <1>12, <1>13 DEF Backed, S2, b2, a2, w2, e, margin, Closing, Sides

\* Orders that each answer to a quote of their place, and are no larger, ask for no more in all.
LEMMA CoveredFacts ==
  ASSUME NEW S \in SUBSET Order, IsFiniteSet(S), Single(S), NEW Q \in SUBSET Quoted, IsFiniteSet(Q),
         \A o \in S : \E q \in Q : o.side = q.side /\ o.price = q.price /\ o.left <= q.size
  PROVE  /\ \A s \in Sides : Rests(s, S) <= Asked(s, Q)
         /\ Worth(S) <= Total(Of("buy", Q), Costs(Q))
<1> DEFINE to == [o \in S |-> CHOOSE q \in Q : o.side = q.side /\ o.price = q.price /\ o.left <= q.size]
           f == [o \in S |-> o.left]
           w == [o \in S |-> o.left * o.price]
           g == Sizes(Q)
           h == Costs(Q)
<1>1. \A o \in S : to[o] \in Q /\ o.side = to[o].side /\ o.price = to[o].price /\ o.left <= to[o].size
  OBVIOUS
<1> HIDE DEF to
<1>2. \A o, p \in S : o.side = p.side /\ to[o] = to[p] => o = p
  BY <1>1 DEF Single
<1>3. \A o \in S : o.left \in Nat /\ o.price \in Nat
  BY DEF Order
<1>4. \A q \in Q : q.size \in Nat /\ q.price \in Nat
  BY DEF Quoted
<1>5. \A o \in S : f[o] \in Int /\ f[o] <= g[to[o]] /\ w[o] \in Int /\ w[o] <= h[to[o]]
  <2> SUFFICES ASSUME NEW o \in S
               PROVE  f[o] \in Int /\ f[o] <= g[to[o]] /\ w[o] \in Int /\ w[o] <= h[to[o]]
    OBVIOUS
  <2> DEFINE n == o.left
             p == o.price
             m == to[o].size
  <2>1. to[o] \in Q /\ n \in Nat /\ p \in Nat /\ m \in Nat /\ n <= m /\ to[o].price = p
    BY <1>1, <1>3, <1>4
  <2>2. f[o] = n /\ w[o] = n * p /\ g[to[o]] = m /\ h[to[o]] = m * p
    BY <2>1 DEF Sizes, Costs
  <2> HIDE DEF n, p, m, f, w, g, h
  <2>3. n * p <= m * p /\ n * p \in Int
    BY <2>1
  <2>4. QED
    BY <2>1, <2>2, <2>3
<1>6. \A q \in Q : g[q] \in Nat /\ h[q] \in Nat
  <2> SUFFICES ASSUME NEW q \in Q PROVE g[q] \in Nat /\ h[q] \in Nat
    OBVIOUS
  <2>1. g[q] = q.size /\ h[q] = q.size * q.price
    BY DEF Sizes, Costs
  <2> HIDE DEF g, h
  <2>2. QED
    BY <1>4, <2>1
<1> HIDE DEF f, w, g, h
<1>7. ASSUME NEW s \in Sides
      PROVE  Total(Of(s, S), f) <= Total(Of(s, Q), g) /\ Total(Of(s, S), w) <= Total(Of(s, Q), h)
  <2> DEFINE X == Of(s, S)
             Y == Of(s, Q)
             m == [o \in X |-> to[o]]
  <2>1. X \in SUBSET S /\ IsFiniteSet(X) /\ Y \in SUBSET Q /\ IsFiniteSet(Y)
    BY OfFacts
  <2>2. \A o \in X : to[o] \in Y /\ o.side = s
    BY <1>1 DEF Of
  <2> HIDE DEF X, Y
  <2>3. /\ m \in [X -> Y]
        /\ \A x, y \in X : m[x] = m[y] => x = y
        /\ \A x \in X : f[x] \in Int /\ w[x] \in Int /\ f[x] <= g[m[x]] /\ w[x] <= h[m[x]]
        /\ \A y \in Y : g[y] \in Nat /\ h[y] \in Nat
    BY <1>2, <1>5, <1>6, <2>1, <2>2
  <2> HIDE DEF m
  <2>4. Total(X, f) <= Total(Y, g)
    BY <2>1, <2>3, TotalInto
  <2>5. Total(X, w) <= Total(Y, h)
    BY <2>1, <2>3, TotalInto
  <2>6. QED
    BY <2>4, <2>5 DEF X, Y
<1>8. QED
  BY <1>7 DEF Rests, Worth, Asked, f, w, g, h, Sides

-----------------------------------------------------------------------------
(* One lemma per action.                                                   *)

\* What Sync leaves.
Quoting(o, q) == o.side = q.side /\ o.price = q.price /\ o.left = q.size
Stays == {o \in read.own : \E q \in plan.quotes : Quoting(o, q)}
Lacking == {q \in plan.quotes : ~\E o \in Stays : Quoting(o, q)}
Fresh(q) == [side |-> q.side, price |-> q.price, desired |-> q.size, left |-> q.size]
Synced ==
  {o \in rest : \E k \in Stays : k.side = o.side /\ k.price = o.price} \cup {Fresh(q) : q \in Lacking}

LEMMA SyncIs ==
  ASSUME Sync
  PROVE  /\ pc = "sync" /\ rest' = Synced /\ terms' = [plan.limits EXCEPT !.late = late]
         /\ read' = NothingRead /\ pc' = "book"
         /\ UNCHANGED <<kind, inv, cash, others, index, ov, trading, events, plan, late, still>>
BY DEF Sync, Synced, Stays, Lacking, Quoting, Fresh, world

LEMMA SyncedFacts ==
  ASSUME Typed, Priced, Listed, pc = "sync"
  PROVE  /\ Synced \in SUBSET Order /\ IsFiniteSet(Synced) /\ Single(Synced)
         /\ \A o \in Synced : o.left <= o.desired
         /\ \A o \in Synced : \E q \in plan.quotes :
              o.side = q.side /\ o.price = q.price /\ o.left <= q.size
<1> DEFINE Q == plan.quotes
           old == {o \in rest : \E k \in Stays : k.side = o.side /\ k.price = o.price}
           new == {Fresh(q) : q \in Lacking}
<1>1. /\ rest \in SUBSET Order /\ IsFiniteSet(rest) /\ Single(rest) /\ \A o \in rest : o.left <= o.desired
      /\ Q \in SUBSET Quoted /\ IsFiniteSet(Q) /\ Single(Q)
  BY DEF Typed, Priced
<1>2. /\ read.own \subseteq Order /\ Single(read.own)
      /\ \A o \in rest : \E k \in read.own : k.side = o.side /\ k.price = o.price /\ o.left <= k.left
  BY DEF Listed
<1> HIDE DEF Q
<1>3. Stays \in SUBSET read.own /\ \A k \in Stays : \E q \in Q : Quoting(k, q)
  BY DEF Stays, Q
<1>4. Lacking \in SUBSET Q /\ \A q \in Lacking, k \in Stays : ~Quoting(k, q)
  BY DEF Lacking, Q
<1>5. \A q \in Q : /\ Fresh(q) \in Order /\ Fresh(q).side = q.side /\ Fresh(q).price = q.price
                   /\ Fresh(q).left = q.size /\ Fresh(q).desired = q.size /\ q.size \in Nat
  <2> TAKE q \in Q
  <2>1. q \in Quoted
    BY <1>1
  <2>2. q.side \in Sides /\ q.price \in Nat \ {0} /\ q.size \in Nat \ {0}
    BY <2>1 DEF Quoted
  <2>3. QED
    BY <2>2 DEF Fresh, Order
<1>6. Synced = old \cup new
  BY DEF Synced
<1>7. \A o \in old : \E q \in Q, k \in Stays :
        o.side = q.side /\ o.price = q.price /\ o.left <= q.size /\ Quoting(k, q)
  <2> SUFFICES ASSUME NEW o \in old
               PROVE  \E q \in Q, k \in Stays :
                        o.side = q.side /\ o.price = q.price /\ o.left <= q.size /\ Quoting(k, q)
    OBVIOUS
  <2>1. PICK k \in Stays : k.side = o.side /\ k.price = o.price
    OBVIOUS
  <2>2. PICK k2 \in read.own : k2.side = o.side /\ k2.price = o.price /\ o.left <= k2.left
    BY <1>2
  <2>3. k = k2
    BY <1>2, <1>3, <2>1, <2>2 DEF Single
  <2>4. PICK q \in Q : Quoting(k, q)
    BY <1>3
  <2>5. QED
    BY <2>1, <2>2, <2>3, <2>4 DEF Quoting
<1>8. \A o \in new : \E q \in Lacking :
        /\ q \in Q /\ o = Fresh(q) /\ o \in Order /\ o.side = q.side /\ o.price = q.price
        /\ o.left = q.size /\ o.desired = q.size /\ q.size \in Nat
  BY <1>4, <1>5
<1>9. IsFiniteSet(new) /\ IsFiniteSet(old)
  <2> DEFINE f == [q \in Lacking |-> Fresh(q)]
  <2>1. new = {f[q] : q \in Lacking}
    OBVIOUS
  <2>2. IsFiniteSet(Lacking)
    BY <1>1, <1>4, FS_Subset
  <2> HIDE DEF f, new
  <2>3. IsFiniteSet(new)
    BY <2>1, <2>2, ImageFinite
  <2>4. IsFiniteSet(old)
    BY <1>1, FS_Subset
  <2>5. QED
    BY <2>3, <2>4
<1>10. old \in SUBSET rest
  OBVIOUS
<1> HIDE DEF old, new
<1>11. Synced \in SUBSET Order /\ \A o \in Synced : o.left <= o.desired
  <2>1. \A o \in new : o \in Order /\ o.left <= o.desired
    BY <1>8
  <2>2. QED
    BY <1>1, <1>6, <1>10, <2>1
<1>12. IsFiniteSet(Synced)
  BY <1>6, <1>9, FS_Union
<1>13. \A o \in Synced : \E q \in Q : o.side = q.side /\ o.price = q.price /\ o.left <= q.size
  <2>1. \A o \in new : \E q \in Q : o.side = q.side /\ o.price = q.price /\ o.left <= q.size
    BY <1>8
  <2>2. QED
    BY <1>6, <1>7, <2>1
<1>14. Single(Synced)
  <2> SUFFICES ASSUME NEW x \in Synced, NEW y \in Synced, x.side = y.side, x.price = y.price PROVE x = y
    BY DEF Single
  <2>1. CASE x \in old /\ y \in old
    BY <1>1, <1>10, <2>1 DEF Single
  <2>2. CASE x \in new /\ y \in new
    BY <1>1, <1>8, <2>2 DEF Single
  <2>3. ASSUME NEW o \in old, NEW p \in new, o.side = p.side, o.price = p.price PROVE FALSE
    <3>1. PICK q \in Q, k \in Stays : o.side = q.side /\ o.price = q.price /\ Quoting(k, q)
      BY <1>7
    <3>2. PICK r \in Lacking : r \in Q /\ p.side = r.side /\ p.price = r.price
      BY <1>8
    <3>3. q = r
      BY <1>1, <2>3, <3>1, <3>2 DEF Single
    <3>4. QED
      BY <1>4, <3>1, <3>2, <3>3
  <2>4. QED
    BY <1>6, <2>1, <2>2, <2>3
<1>15. QED
  BY <1>11, <1>12, <1>13, <1>14 DEF Q

LEMMA PricedIs ==
  ASSUME kind' = kind
  PROVE  Priced' <=>
           /\ Single(plan'.quotes) /\ Inside(plan'.quotes, plan'.limits) /\ Uncrossed(plan'.quotes)
           /\ Single(rest') /\ Inside(rest', terms') /\ Uncrossed(rest')
BY DEF Priced, Single, Inside, Uncrossed

LEMMA SyncKeeps ==
  ASSUME IInv, Sync
  PROVE  IInv'
<1>1. /\ pc = "sync" /\ rest' = Synced /\ terms' = [plan.limits EXCEPT !.late = late]
      /\ read' = NothingRead /\ pc' = "book"
      /\ UNCHANGED <<kind, inv, cash, others, index, ov, trading, events, plan, late, still>>
  BY SyncIs
<1>2. Typed /\ Priced /\ Listed /\ Raced /\ Decided
  BY DEF IInv
<1>3. /\ Synced \in SUBSET Order /\ IsFiniteSet(Synced) /\ Single(Synced)
      /\ \A o \in Synced : o.left <= o.desired
      /\ \A o \in Synced : \E q \in plan.quotes :
           o.side = q.side /\ o.price = q.price /\ o.left <= q.size
  BY <1>1, <1>2, SyncedFacts
<1> DEFINE l == plan.limits
           t == [l EXCEPT !.late = late]
<1>4. l \in LimitSet /\ late \in Pair /\ inv \in Int /\ cash \in Int /\ read \in Reading
      /\ plan.quotes \in SUBSET Quoted /\ IsFiniteSet(plan.quotes)
  BY <1>2 DEF Typed
<1> HIDE DEF l
<1>5. /\ t \in LimitSet /\ t.late = late /\ t.long = l.long /\ t.short = l.short /\ t.opening = l.opening
      /\ t.bound = l.bound /\ t.lo = l.lo /\ t.hi = l.hi /\ t.sound = l.sound
  BY <1>4 DEF LimitSet
<1>6. terms' = t
  BY <1>1 DEF l
<1> HIDE DEF t
<1>7. NothingRead \in Reading /\ IsFiniteSet(NothingRead.own)
  <2>1. NothingRead \in Reading
    BY DEF NothingRead, Reading, None, Pair
  <2>2. NothingRead.own = {}
    BY DEF NothingRead
  <2>3. QED
    BY <2>1, <2>2, FS_EmptySet
<1>8. Typed'
  BY <1>1, <1>2, <1>3, <1>5, <1>6, <1>7 DEF Typed
<1>9. Priced'
  <2>1. Single(plan'.quotes) /\ Inside(plan'.quotes, plan'.limits) /\ Uncrossed(plan'.quotes)
    BY <1>1, <1>2 DEF Priced
  <2>2. \A q \in plan.quotes : kind = "engine" => t.lo <= q.price /\ q.price <= t.hi
    BY <1>2, <1>5 DEF Priced, Inside, l
  <2>3. Inside(rest', terms')
    BY <1>1, <1>3, <1>6, <2>2 DEF Inside
  <2>4. Uncrossed(plan.quotes)
    BY <1>2 DEF Priced
  <2>5. Uncrossed(rest')
    BY <1>1, <1>3, <2>4 DEF Uncrossed
  <2>6. Single(rest')
    BY <1>1, <1>3
  <2>7. QED
    BY <1>1, <2>1, <2>3, <2>5, <2>6, PricedIs
<1>10. Raced' /\ Listed' /\ Reserved' /\ Decided'
  BY <1>1 DEF Raced, Listed, Reserved, Decided
<1>11. Backed(inv, cash, Synced, t)
  <2> DEFINE b == Rests("buy", Synced)
             a == Rests("sell", Synced)
             w == Worth(Synced)
             B == Asked("buy", plan.quotes)
             A == Asked("sell", plan.quotes)
             W == Total(Of("buy", plan.quotes), Costs(plan.quotes))
             i == read.inv
             m == read.cash
             e == c.elsewhere
  <2>1. b \in Nat /\ a \in Nat /\ w \in Nat
    BY <1>3, RestsNat
  <2>2. B \in Nat /\ A \in Nat
    BY <1>4, AskedNat
  <2>3. b <= B /\ a <= A /\ w <= W
    BY <1>3, <1>4, CoveredFacts DEF Sides
  <2>4. W \in Int
    <3>1. \A q \in plan.quotes : Costs(plan.quotes)[q] \in Int
      <4> SUFFICES ASSUME NEW q \in plan.quotes PROVE Costs(plan.quotes)[q] \in Int
        OBVIOUS
      <4>1. q.size \in Nat /\ q.price \in Nat /\ Costs(plan.quotes)[q] = q.size * q.price
        BY <1>4 DEF Quoted, Costs
      <4>2. QED
        BY <4>1
    <3>2. Of("buy", plan.quotes) \in SUBSET plan.quotes /\ IsFiniteSet(Of("buy", plan.quotes))
      BY <1>4, OfFacts
    <3>3. QED
      BY <3>1, <3>2, TotalFacts
  <2>5. i \in Int /\ m \in Int /\ e \in Nat
    BY <1>2, <1>4, WorldFacts, SettingsFacts DEF Reading
  <2>6. inv = i + late.buy - late.sell /\ (late = None => cash = m)
    BY <1>1, <1>2 DEF Raced
  <2>7. late.buy \in Nat /\ late.sell \in Nat
    BY <1>4 DEF Pair
  <2>8. Within(plan.quotes, l, read)
    BY <1>1, <1>2 DEF Decided, l
  <2> DEFINE margin == kind \in {"perp", "engine", "option"} /\ ~(kind = "perp" /\ c.closed)
             spot == kind = "spot" /\ l.sound
  <2>9. /\ B > 0 => i + B <= l.long
        /\ A > 0 => i - A >= l.short
        /\ margin /\ B > 0 => B <= Larger(0, -i) + l.opening.buy /\ (kind = "perp" => i + B <= l.bound)
        /\ margin /\ A > 0 => A <= Larger(0, i) + l.opening.sell /\ (kind = "perp" => -i + A <= l.bound)
        /\ spot => A <= i /\ W + e <= m
    BY <2>8 DEF Within, Closing, Sides
  <2>10. /\ l.long \in Int /\ l.short \in Int /\ l.bound \in Int
         /\ l.opening.buy \in Int /\ l.opening.sell \in Int
    BY <1>4 DEF LimitSet
  <2> HIDE DEF b, a, w, B, A, W, i, m, e, margin, spot
  <2>11. /\ b > 0 => inv + b <= l.long + late.buy
         /\ a > 0 => inv - a >= l.short - late.sell
    BY <1>4, <2>1, <2>2, <2>3, <2>5, <2>6, <2>7, <2>9, <2>10
  <2>12. margin /\ b > 0 => b - Larger(0, -inv) <= l.opening.buy + late.buy
                            /\ (kind = "perp" => inv + b <= l.bound + late.buy)
    BY <1>4, <2>1, <2>2, <2>3, <2>5, <2>6, <2>7, <2>9, <2>10 DEF Larger
  <2>13. margin /\ a > 0 => a - Larger(0, inv) <= l.opening.sell + late.sell
                            /\ (kind = "perp" => -inv + a <= l.bound + late.sell)
    BY <1>4, <2>1, <2>2, <2>3, <2>5, <2>6, <2>7, <2>9, <2>10 DEF Larger
  <2>14. spot /\ late = None => a <= inv /\ w + e <= cash
    <3> SUFFICES ASSUME spot, late = None PROVE a <= inv /\ w + e <= cash
      OBVIOUS
    <3>1. late.buy = 0 /\ late.sell = 0
      BY DEF None
    <3>2. inv = i /\ cash = m
      BY <2>5, <2>6, <3>1
    <3>3. QED
      BY <2>1, <2>2, <2>3, <2>4, <2>5, <2>9, <3>2
  <2>15. QED
    BY <1>5, <2>11, <2>12, <2>13, <2>14 DEF Backed, b, a, w, e, margin, spot, Closing, Sides
<1>12. (InventoryKept /\ MarginKept /\ SpotBacked)'
  BY <1>1, <1>6, <1>11, BackedIs
<1>13. QED
  BY <1>8, <1>9, <1>10, <1>12 DEF IInv

LEMMA InitHolds == Init => IInv
<1> SUFFICES ASSUME Init PROVE IInv
  OBVIOUS
<1>1. /\ kind \in DOMAIN Config /\ pc = "book" /\ inv = c.base /\ cash = c.cash /\ rest = {}
      /\ others \in Books /\ index \in Indices /\ ov = Neutral /\ trading \in BOOLEAN
      /\ read = NothingRead /\ plan = NoPlan /\ terms = NoLimits /\ late = None /\ still = 0 /\ events = 0
  BY DEF Init
<1>2. c.base \in Nat /\ c.cash \in Nat /\ Neutral \in Overrides /\ MaxEvents \in Nat
  BY <1>1, SettingsFacts, OverridesAssumption, EventsAssumption
<1>3. None \in Pair /\ NoLimits \in LimitSet
  BY DEF None, Pair, NoLimits, LimitSet
<1>4. NothingRead \in Reading /\ NothingRead.own = {}
  BY <1>3 DEF NothingRead, Reading
<1>5. /\ NoPlan \in [ref : Nat, quotes : SUBSET Quoted, limits : LimitSet] /\ NoPlan.quotes = {}
  BY <1>3 DEF NoPlan
<1>6. IsFiniteSet({})
  BY FS_EmptySet
<1>7. Typed
  BY <1>1, <1>2, <1>3, <1>4, <1>5, <1>6 DEF Typed
<1>8. Priced
  BY <1>1, <1>5 DEF Priced, Single, Inside, Uncrossed
<1>9. Raced /\ Listed /\ Reserved /\ Decided
  BY <1>1 DEF Raced, Listed, Reserved, Decided
<1>10. Backed(inv, cash, rest, terms)
  <2>1. \A s : Of(s, {}) = {}
    BY DEF Of
  <2>2. \A s : Rests(s, {}) = 0
    BY <2>1, TotalNone DEF Rests
  <2>3. terms.sound = FALSE
    BY <1>1 DEF NoLimits
  <2>4. QED
    BY <1>1, <2>2, <2>3 DEF Backed
<1>11. QED
  BY <1>7, <1>8, <1>9, <1>10, BackedIs DEF IInv

\* What no order and no settlement is touched by.
LEMMA QuietKeeps ==
  ASSUME IInv, UNCHANGED <<kind, inv, cash, rest, terms, plan>>
  PROVE  Priced' /\ (InventoryKept /\ MarginKept /\ SpotBacked)'
<1>1. Priced'
  BY PricedIs DEF IInv, Priced
<1>2. Backed(inv, cash, rest, terms)
  BY BackedIs DEF IInv
<1>3. QED
  BY <1>1, <1>2, BackedIs

LEMMA ReadBookKeeps ==
  ASSUME IInv, ReadBook
  PROVE  IInv'
<1>1. /\ pc' = "positions"
      /\ UNCHANGED <<kind, inv, cash, others, index, ov, trading, events, rest, plan, terms, late>>
      /\ read' = [NothingRead EXCEPT !.own = {[side |-> o.side, price |-> o.price] : o \in rest}, !.others = others]
      /\ still' = Smaller(2, still + 1)
  BY DEF ReadBook, world
<1>2. Typed
  BY DEF IInv
<1> DEFINE own == {[side |-> o.side, price |-> o.price] : o \in rest}
<1>3. own \in SUBSET Place /\ IsFiniteSet(own)
  <2> DEFINE f == [o \in rest |-> [side |-> o.side, price |-> o.price]]
  <2>1. own = {f[o] : o \in rest}
    OBVIOUS
  <2>2. own \in SUBSET Place
    BY <1>2 DEF Typed, Order, Place
  <2>3. IsFiniteSet(rest)
    BY <1>2 DEF Typed
  <2> HIDE DEF f, own
  <2>4. QED
    BY <2>1, <2>2, <2>3, ImageFinite
<1> HIDE DEF own
<1>4. read' \in Reading /\ read'.own = own
  <2>1. read' = [NothingRead EXCEPT !.own = own, !.others = others]
    BY <1>1 DEF own
  <2>2. others \in Pair
    BY <1>2, WorldFacts
  <2>3. read' = [own |-> own, others |-> others, inv |-> 0, cash |-> 0, reserved |-> None, mine |-> None]
    BY <2>1 DEF NothingRead
  <2>4. None \in Pair /\ own \in SUBSET (Place \cup Order)
    BY <1>3 DEF None, Pair
  <2>5. QED
    BY <2>2, <2>3, <2>4 DEF Reading
<1>5. still' \in 0 .. 2
  BY <1>1, <1>2 DEF Typed, Smaller
<1>6. Typed'
  BY <1>1, <1>2, <1>3, <1>4, <1>5 DEF Typed
<1>7. Raced' /\ Listed' /\ Reserved' /\ Decided'
  BY <1>1 DEF Raced, Listed, Reserved, Decided
<1>8. QED
  BY <1>1, <1>6, <1>7, QuietKeeps DEF IInv

LEMMA ReadPositionsKeeps ==
  ASSUME IInv, ReadPositions
  PROVE  IInv'
<1>1. /\ pc' = IF kind \in {"spot", "dated"} THEN "exposures" ELSE "decide"
      /\ UNCHANGED <<kind, inv, cash, others, index, ov, trading, events, rest, plan, terms, still>>
      /\ read' = [read EXCEPT !.inv = inv, !.cash = cash] /\ late' = None
  BY DEF ReadPositions, world
<1>2. Typed
  BY DEF IInv
<1>3. inv \in Int /\ cash \in Int /\ read \in Reading /\ IsFiniteSet(read.own)
  BY <1>2 DEF Typed
<1>4. /\ read' \in Reading /\ read'.own = read.own /\ read'.inv = inv /\ read'.cash = cash
      /\ None \in Pair /\ None.buy = 0 /\ None.sell = 0
  BY <1>1, <1>3 DEF Reading, None, Pair
<1>5. Typed'
  BY <1>1, <1>2, <1>3, <1>4 DEF Typed
<1>6. Raced'
  BY <1>1, <1>3, <1>4 DEF Raced
<1>7. Listed' /\ Reserved' /\ Decided'
  BY <1>1 DEF Listed, Reserved, Decided
<1>8. QED
  BY <1>1, <1>5, <1>6, <1>7, QuietKeeps DEF IInv

LEMMA ReadExposuresKeeps ==
  ASSUME IInv, ReadExposures
  PROVE  IInv'
<1> DEFINE held == [o \in rest |-> Holds(o)]
           mine(s) == Total(Of(s, rest), held)
<1>1. /\ pc = "exposures" /\ pc' = "decide"
      /\ UNCHANGED <<kind, inv, cash, others, index, ov, trading, events, rest, plan, terms, late, still>>
      /\ read' = [read EXCEPT !.mine = [buy |-> mine("buy"), sell |-> mine("sell")],
                              !.reserved = [buy |-> mine("buy") + c.elsewhere, sell |-> mine("sell")]]
  BY DEF ReadExposures, world
<1>2. Typed /\ Raced
  BY DEF IInv
<1>3. rest \in SUBSET Order /\ IsFiniteSet(rest) /\ read \in Reading /\ IsFiniteSet(read.own)
  BY <1>2 DEF Typed
<1>4. ASSUME NEW s PROVE mine(s) \in Nat
  <2>1. Of(s, rest) \in SUBSET rest /\ IsFiniteSet(Of(s, rest))
    BY <1>3, OfFacts
  <2>2. \A o \in rest : held[o] \in Nat
    <3> TAKE o \in rest
    <3>1. o.desired \in Nat /\ o.price \in Nat
      BY <1>3 DEF Order
    <3>2. o.desired * o.price \in Nat
      BY <3>1
    <3>3. QED
      BY <3>1, <3>2 DEF Holds
  <2> HIDE DEF held
  <2>3. QED
    BY <2>1, <2>2, TotalNat
<1> DEFINE b == mine("buy")
           a == mine("sell")
<1>5. a \in Nat /\ b \in Nat /\ c.elsewhere \in Nat
  BY <1>2, <1>4, WorldFacts, SettingsFacts
<1> HIDE DEF a, b
<1>6. read' = [read EXCEPT !.mine = [buy |-> b, sell |-> a], !.reserved = [buy |-> b + c.elsewhere, sell |-> a]]
  BY <1>1 DEF a, b
<1>7. /\ read' \in Reading /\ read'.own = read.own /\ read'.inv = read.inv /\ read'.cash = read.cash
      /\ read'.reserved.buy = read'.mine.buy + c.elsewhere /\ read'.reserved.sell = read'.mine.sell
  <2> DEFINE m == [buy |-> b, sell |-> a]
             v == [buy |-> b + c.elsewhere, sell |-> a]
  <2>1. m \in Pair /\ v \in Pair /\ v.buy = m.buy + c.elsewhere /\ v.sell = m.sell
    BY <1>5 DEF Pair
  <2> HIDE DEF m, v
  <2>2. read' = [read EXCEPT !.mine = m, !.reserved = v]
    BY <1>6 DEF m, v
  <2>3. /\ [read EXCEPT !.mine = m, !.reserved = v] \in Reading
        /\ read'.own = read.own /\ read'.inv = read.inv /\ read'.cash = read.cash
        /\ read'.mine = m /\ read'.reserved = v
    BY <1>3, <2>1, <2>2 DEF Reading
  <2>4. QED
    BY <2>1, <2>2, <2>3
<1>8. Typed'
  BY <1>1, <1>2, <1>3, <1>7 DEF Typed
<1>9. Raced'
  BY <1>1, <1>2, <1>7 DEF Raced
<1>10. c' = c
  BY <1>1 DEF c
<1>11. Listed' /\ Reserved' /\ Decided'
  BY <1>1, <1>7, <1>10 DEF Listed, Reserved, Decided
<1>12. QED
  BY <1>1, <1>8, <1>9, <1>11, QuietKeeps DEF IInv

\* With nothing resting, what backed the orders before is still there.
LEMMA BackedNone ==
  ASSUME NEW S \in SUBSET Order, IsFiniteSet(S), NEW i \in Int, NEW m \in Int, NEW l, Backed(i, m, S, l),
         kind \in DOMAIN Config
  PROVE  Backed(i, m, {}, l)
<1>1. \A s : Of(s, {}) = {}
  BY DEF Of
<1>2. \A s : Rests(s, {}) = 0 /\ Worth({}) = 0
  BY <1>1, TotalNone DEF Rests, Worth
<1>3. Rests("sell", S) \in Nat /\ Worth(S) \in Nat /\ c.elsewhere \in Nat
  BY RestsNat, SettingsFacts
<1>4. kind = "spot" /\ l.sound /\ l.late = None => Rests("sell", S) <= i /\ Worth(S) + c.elsewhere <= m
  BY DEF Backed
<1>5. kind = "spot" /\ l.sound /\ l.late = None => 0 <= i /\ 0 + c.elsewhere <= m
  BY <1>3, <1>4
<1>6. QED
  BY <1>2, <1>5 DEF Backed

\* Decide: the error, the halt and the decision.
LEMMA DecideIs ==
  ASSUME Decide
  PROVE  LET b == OthersBest(read.others, read.own, rest)
             ref == Reference(b)
             ext == External(b)
         IN  /\ pc = "decide"
             /\ UNCHANGED <<kind, inv, cash, others, index, ov, trading, events, terms, late, still>>
             /\ \/ pc' = "book" /\ UNCHANGED <<rest, plan, read>>
                \/ pc' = "book" /\ rest' = {} /\ plan' = [NoPlan EXCEPT !.ref = ref] /\ read' = read
                \/ /\ pc' \in {"sync", "book"} /\ rest' = rest /\ read' = [read EXCEPT !.own = rest]
                   /\ plan' = [ref |-> ref, quotes |-> Quotes(ref, ext, read), limits |-> Limits(ref, ext, read)]
BY DEF Decide, world

LEMMA DecideKeeps ==
  ASSUME IInv, Decide
  PROVE  IInv'
<1> DEFINE b == OthersBest(read.others, read.own, rest)
           ref == Reference(b)
           ext == External(b)
           Q == Quotes(ref, ext, read)
           L == Limits(ref, ext, read)
<1>1. /\ pc = "decide"
      /\ UNCHANGED <<kind, inv, cash, others, index, ov, trading, events, terms, late, still>>
      /\ \/ pc' = "book" /\ UNCHANGED <<rest, plan, read>>
         \/ pc' = "book" /\ rest' = {} /\ plan' = [NoPlan EXCEPT !.ref = ref] /\ read' = read
         \/ /\ pc' \in {"sync", "book"} /\ rest' = rest /\ read' = [read EXCEPT !.own = rest]
            /\ plan' = [ref |-> ref, quotes |-> Q, limits |-> L]
  BY DecideIs
<1>2. Typed /\ Priced /\ Raced /\ Reserved
  BY DEF IInv
<1>3. /\ read \in Reading /\ IsFiniteSet(read.own) /\ rest \in SUBSET Order /\ IsFiniteSet(rest)
      /\ inv \in Int /\ cash \in Int /\ kind \in DOMAIN Config
  BY <1>2 DEF Typed
<1>4. b \in Pair
  <2>1. read.others \in Pair /\ \A o \in read.own : o.price \in Nat
    BY <1>3 DEF Reading, Place, Order
  <2>2. QED
    BY <1>3, <2>1, OthersFacts
<1> HIDE DEF b
<1>5. ref \in Nat \ {0} /\ ext \in BOOLEAN
  BY <1>2, <1>4, ReferenceFacts
<1> HIDE DEF ref, ext
<1>6. c' = c
  BY <1>1 DEF c
<1>7. Backed(inv, cash, rest, terms)
  BY BackedIs DEF IInv
<1>8. CASE pc' = "book" /\ UNCHANGED <<rest, plan, read>>
  <2>1. Typed'
    BY <1>1, <1>2, <1>8 DEF Typed
  <2>2. Raced' /\ Listed' /\ Reserved' /\ Decided'
    BY <1>8 DEF Raced, Listed, Reserved, Decided
  <2>3. QED
    BY <1>1, <1>8, <2>1, <2>2, QuietKeeps DEF IInv
<1>9. CASE pc' = "book" /\ rest' = {} /\ plan' = [NoPlan EXCEPT !.ref = ref] /\ read' = read
  <2>1. plan' = [ref |-> ref, quotes |-> {}, limits |-> NoLimits]
    BY <1>9 DEF NoPlan
  <2>2. NoLimits \in LimitSet
    BY DEF NoLimits, LimitSet, None, Pair
  <2>3. IsFiniteSet({}) /\ ref \in Nat
    BY <1>5, FS_EmptySet
  <2>4. Typed'
    <3>1. /\ plan' \in [ref : Nat, quotes : SUBSET Quoted, limits : LimitSet] /\ plan'.quotes = {}
          /\ IsFiniteSet(plan'.quotes) /\ IsFiniteSet(rest')
      <4>1. [ref |-> ref, quotes |-> {}, limits |-> NoLimits]
              \in [ref : Nat, quotes : SUBSET Quoted, limits : LimitSet]
        BY <2>2, <2>3
      <4>2. plan'.quotes = {} /\ rest' = {}
        BY <1>9, <2>1
      <4>3. QED
        BY <2>1, <2>3, <4>1, <4>2
    <3>2. rest' = {} /\ read' = read /\ pc' = "book"
      BY <1>9
    <3> HIDE DEF Q, L
    <3>3. QED
      BY <1>1, <1>2, <3>1, <3>2 DEF Typed
  <2>5. Raced' /\ Listed' /\ Reserved' /\ Decided'
    BY <1>9 DEF Raced, Listed, Reserved, Decided
  <2>6. Priced'
    BY <1>9, <2>1 DEF Priced, Single, Inside, Uncrossed
  <2>7. Backed(inv', cash', rest', terms')
    BY <1>1, <1>3, <1>7, <1>9, BackedNone
  <2>8. QED
    BY <1>1, <2>4, <2>5, <2>6, <2>7, BackedIs DEF IInv
<1>10. CASE /\ pc' \in {"sync", "book"} /\ rest' = rest /\ read' = [read EXCEPT !.own = rest]
            /\ plan' = [ref |-> ref, quotes |-> Q, limits |-> L]
  <2>1. /\ Q \in SUBSET Quoted /\ IsFiniteSet(Q) /\ Single(Q) /\ Uncrossed(Q)
        /\ kind = "engine" => \A q \in Q : index - c.band <= q.price /\ q.price <= index + c.band
    BY <1>2, <1>3, <1>5, QuotesFacts
  <2>2. L \in LimitSet
    BY <1>2, <1>3, <1>5, LimitsFacts
  <2>3. L.lo = index - c.band /\ L.hi = index + c.band
    BY DEF Limits
  <2>4. Within(Q, L, read)
    <3>1. kind = "spot" => read.reserved.buy = read.mine.buy + c.elsewhere /\ read.reserved.sell = read.mine.sell
      BY <1>1, <1>2 DEF Reserved
    <3>2. QED
      BY <1>2, <1>3, <1>5, <3>1, DecisionFacts
  <2> HIDE DEF Q, L
  <2>5. plan'.quotes = Q /\ plan'.limits = L /\ plan' \in [ref : Nat, quotes : SUBSET Quoted, limits : LimitSet]
    BY <1>5, <1>10, <2>1, <2>2
  <2>6. /\ read' \in Reading /\ read'.own = rest /\ read'.inv = read.inv /\ read'.cash = read.cash
        /\ read'.reserved = read.reserved /\ read'.mine = read.mine
    BY <1>3, <1>10 DEF Reading
  <2>7. Typed'
    BY <1>1, <1>2, <1>10, <2>1, <2>5, <2>6 DEF Typed
  <2>8. Priced'
    <3>1. Inside(Q, L)
      BY <2>1, <2>3 DEF Inside
    <3>2. QED
      BY <1>1, <1>2, <1>10, <2>1, <2>5, <3>1, PricedIs DEF Priced
  <2>9. Raced'
    BY <1>1, <1>2, <1>10, <2>6 DEF Raced
  <2>10. Listed'
    <3>1. \A o \in rest : o.left <= o.left
      BY <1>3 DEF Order
    <3>2. \A o \in rest : \E k \in rest : k.side = o.side /\ k.price = o.price /\ o.left <= k.left
      BY <3>1
    <3>3. Single(rest)
      BY <1>2 DEF Priced
    <3>4. QED
      BY <1>3, <1>10, <2>6, <3>2, <3>3 DEF Listed, Single
  <2>11. Reserved'
    BY <1>1, <1>2, <1>6, <1>10, <2>6 DEF Reserved
  <2>12. Decided'
    <3>1. Within(plan.quotes, plan.limits, read)' <=> Within(Q, L, read)
      BY <1>1, <1>6, <2>5, <2>6 DEF Within, Asked, Of, Sizes, Costs, Total, Closing, Larger
    <3>2. QED
      BY <2>4, <3>1 DEF Decided
  <2>13. Backed(inv', cash', rest', terms')
    BY <1>1, <1>7, <1>10
  <2>14. QED
    BY <1>1, <2>7, <2>8, <2>9, <2>10, <2>11, <2>12, <2>13, BackedIs DEF IInv
<1>11. QED
  BY <1>1, <1>8, <1>9, <1>10

\* A decision holds as long as the market is the one it was made for.
LEMMA DecidedLasts ==
  ASSUME Decided, kind' = kind, pc' = pc, read' = read, plan' = plan
  PROVE  Decided'
<1>1. c' = c
  BY DEF c
<1>2. Within(plan.quotes, plan.limits, read)' <=> Within(plan.quotes, plan.limits, read)
  BY <1>1 DEF Within, Asked, Of, Sizes, Costs, Total, Closing, Larger
<1>3. QED
  BY <1>2 DEF Decided

LEMMA FillKeeps ==
  ASSUME IInv, NEW o \in rest, NEW n \in {1, o.left}, Fill(o, n)
  PROVE  IInv'
<1> DEFINE i2 == IF o.side = "buy" THEN inv + n ELSE inv - n
<1>1. /\ UNCHANGED <<kind, pc, others, index, ov, trading, read, plan, terms>>
      /\ events < MaxEvents /\ events' = events + 1 /\ still' = 0
      /\ n <= o.left
      /\ inv' = i2
      /\ cash' = IF kind \notin {"spot", "option"} THEN cash
                 ELSE IF o.side = "buy" THEN cash - n * o.price ELSE cash + n * o.price
      /\ rest' = Filled(rest, o, n)
      /\ late' = IF pc \in {"book", "positions"} THEN late ELSE [late EXCEPT ![o.side] = @ + n]
  BY DEF Fill, Happens, Filled
<1>2. Typed /\ Priced /\ Raced /\ Listed /\ Reserved /\ Decided
  BY DEF IInv
<1>3. /\ rest \in SUBSET Order /\ IsFiniteSet(rest) /\ Single(rest) /\ inv \in Int /\ cash \in Int
      /\ kind \in DOMAIN Config /\ late \in Pair /\ terms \in LimitSet /\ read \in Reading
      /\ \A x \in rest : x.left <= x.desired
  BY <1>2 DEF Typed, Priced
<1>4. /\ o.side \in Sides /\ o.left \in Nat \ {0} /\ o.price \in Nat \ {0}
      /\ n \in Nat \ {0} /\ n * o.price \in Nat
  BY <1>3 DEF Order
<1> DEFINE S == Filled(rest, o, n)
           x == n * o.price
<1>5. /\ S \in SUBSET Order /\ IsFiniteSet(S) /\ Single(S)
      /\ \A p \in S : \E q \in rest : p.side = q.side /\ p.price = q.price
                                        /\ p.desired = q.desired /\ p.left <= q.left
  BY <1>1, <1>3, <1>4, FilledFacts
<1> HIDE DEF S
<1>6. rest' = S
  BY <1>1 DEF S
<1>7. inv' \in Int /\ cash' \in Int
  BY <1>1, <1>3, <1>4
<1>8. late' \in Pair /\ (pc \notin {"book", "positions"} =>
                           late' = [late EXCEPT ![o.side] = @ + n] /\ late' # None
                           /\ late'.buy - late'.sell = late.buy - late.sell
                                + (IF o.side = "buy" THEN n ELSE 0 - n))
  <2>1. CASE pc \in {"book", "positions"}
    BY <1>1, <1>3, <2>1
  <2>2. CASE pc \notin {"book", "positions"}
    <3>1. late' = [late EXCEPT ![o.side] = @ + n]
      BY <1>1, <2>2
    <3>2. CASE o.side = "buy"
      <4>1. late' = [late EXCEPT !.buy = @ + n]
        BY <3>1, <3>2
      <4>2. late' \in Pair /\ late'.buy = late.buy + n /\ late'.sell = late.sell
        BY <1>3, <1>4, <4>1 DEF Pair
      <4>3. late.buy \in Nat /\ late.sell \in Nat /\ None.buy = 0
        BY <1>3 DEF Pair, None
      <4>4. QED
        BY <1>4, <3>1, <3>2, <4>2, <4>3
    <3>3. CASE o.side = "sell"
      <4>1. late' = [late EXCEPT !.sell = @ + n]
        BY <3>1, <3>3
      <4>2. late' \in Pair /\ late'.sell = late.sell + n /\ late'.buy = late.buy
        BY <1>3, <1>4, <4>1 DEF Pair
      <4>3. late.buy \in Nat /\ late.sell \in Nat /\ None.sell = 0
        BY <1>3 DEF Pair, None
      <4>4. QED
        BY <1>4, <3>1, <3>3, <4>2, <4>3
    <3>4. QED
      BY <1>4, <3>2, <3>3 DEF Sides
  <2>3. QED
    BY <2>1, <2>2
<1>9. Typed'
  <2>1. \A p \in S : p.left <= p.desired
    <3> TAKE p \in S
    <3>1. PICK q \in rest : p.desired = q.desired /\ p.left <= q.left
      BY <1>5
    <3>2. p \in Order /\ q \in Order /\ q.left <= q.desired
      BY <1>3, <1>5
    <3>3. QED
      BY <3>1, <3>2 DEF Order
  <2>2. events' \in 0 .. MaxEvents /\ still' \in 0 .. 2
    BY <1>1, <1>2, EventsAssumption DEF Typed
  <2>3. QED
    BY <1>1, <1>2, <1>5, <1>6, <1>7, <1>8, <2>1, <2>2 DEF Typed
<1>10. Priced'
  <2>1. Inside(rest, terms) /\ Uncrossed(rest)
    BY <1>2 DEF Priced
  <2>2. Inside(S, terms)
    BY <1>5, <2>1 DEF Inside
  <2>3. Uncrossed(S)
    BY <1>5, <2>1 DEF Uncrossed
  <2>4. QED
    BY <1>1, <1>2, <1>5, <1>6, <2>2, <2>3, PricedIs DEF Priced
<1>11. Raced'
  <2> SUFFICES ASSUME pc \in {"exposures", "decide", "sync"}
               PROVE  inv' = read.inv + late'.buy - late'.sell /\ late' # None
    BY <1>1 DEF Raced
  <2>1. inv = read.inv + late.buy - late.sell
    BY <1>2 DEF Raced
  <2>2. /\ read.inv \in Int /\ late.buy \in Int /\ late.sell \in Int
        /\ late'.buy \in Int /\ late'.sell \in Int
    BY <1>3, <1>8 DEF Reading, Pair
  <2>3. /\ late' # None
        /\ late'.buy - late'.sell = late.buy - late.sell + (IF o.side = "buy" THEN n ELSE 0 - n)
    BY <1>8
  <2>4. QED
    BY <1>1, <1>3, <1>4, <2>1, <2>2, <2>3
<1>12. Listed'
  <2> SUFFICES ASSUME pc = "sync"
               PROVE  \A p \in S : \E k \in read.own : k.side = p.side /\ k.price = p.price /\ p.left <= k.left
    BY <1>1, <1>2, <1>6 DEF Listed, Single
  <2> TAKE p \in S
  <2>1. PICK q \in rest : p.side = q.side /\ p.price = q.price /\ p.left <= q.left
    BY <1>5
  <2>2. PICK k \in read.own : k.side = q.side /\ k.price = q.price /\ q.left <= k.left
    BY <1>2 DEF Listed
  <2>3. p.left \in Nat /\ q.left \in Nat /\ k.left \in Nat
    BY <1>2, <1>3, <1>5 DEF Order, Listed
  <2>4. QED
    BY <2>1, <2>2, <2>3
<1>13. c' = c
  BY <1>1 DEF c
<1>14. Reserved'
  BY <1>1, <1>2, <1>13 DEF Reserved
<1>15. Decided'
  BY <1>1, <1>2, DecidedLasts
<1>16. Backed(inv, cash, rest, terms)
  BY BackedIs DEF IInv
<1>17. Backed(inv', cash', rest', terms')
  <2>1. kind = "spot" => cash' = IF o.side = "buy" THEN cash - n * o.price ELSE cash + n * o.price
    BY <1>1
  <2> DEFINE m2 == cash'
  <2>2. m2 \in Int
    BY <1>7
  <2>3. kind = "spot" => m2 = IF o.side = "buy" THEN cash - n * o.price ELSE cash + n * o.price
    BY <2>1
  <2> HIDE DEF m2
  <2>4. Backed(IF o.side = "buy" THEN inv + n ELSE inv - n, m2, Filled(rest, o, n), terms)
    BY <1>1, <1>3, <1>4, <1>16, <2>2, <2>3, BackedFill
  <2>5. QED
    BY <1>1, <2>4 DEF m2
<1>18. QED
  BY <1>1, <1>9, <1>10, <1>11, <1>12, <1>14, <1>15, <1>17, BackedIs DEF IInv

LEMMA EventKeeps ==
  ASSUME IInv, Move \/ Adjust
  PROVE  IInv'
<1>1. /\ UNCHANGED <<kind, pc, inv, cash, rest, read, plan, terms, late>>
      /\ events < MaxEvents /\ events' = events + 1 /\ still' = 0
  BY DEF Move, Adjust, Happens
<1>2. Typed /\ Priced /\ Raced /\ Listed /\ Reserved /\ Decided
  BY DEF IInv
<1>3. others' \in Books /\ index' \in Indices /\ ov' \in Overrides /\ trading' \in BOOLEAN
  BY <1>2 DEF Move, Adjust, Typed
<1>4. events' \in 0 .. MaxEvents /\ still' \in 0 .. 2
  BY <1>1, <1>2, EventsAssumption DEF Typed
<1>5. Typed'
  BY <1>1, <1>2, <1>3, <1>4 DEF Typed
<1>6. c' = c
  BY <1>1 DEF c
<1>7. Raced' /\ Reserved'
  BY <1>1, <1>2, <1>6 DEF Raced, Reserved
<1>8. Listed'
  BY <1>1, <1>2 DEF Listed, Single
<1>9. Decided'
  BY <1>1, <1>2, DecidedLasts
<1>10. QED
  BY <1>1, <1>5, <1>7, <1>8, <1>9, QuietKeeps DEF IInv

LEMMA StepKeeps == IInv /\ [Next]_vars => IInv'
<1> SUFFICES ASSUME IInv, [Next]_vars PROVE IInv'
  OBVIOUS
<1>1. CASE ReadBook
  BY <1>1, ReadBookKeeps
<1>2. CASE ReadPositions
  BY <1>2, ReadPositionsKeeps
<1>3. CASE ReadExposures
  BY <1>3, ReadExposuresKeeps
<1>4. CASE Decide
  BY <1>4, DecideKeeps
<1>5. CASE Sync
  BY <1>5, SyncKeeps
<1>6. CASE \E o \in rest : \E n \in {1, o.left} : Fill(o, n)
  BY <1>6, FillKeeps
<1>7. CASE Move \/ Adjust
  BY <1>7, EventKeeps
<1>8. CASE UNCHANGED vars
  <2>1. UNCHANGED <<kind, pc, inv, cash, rest, others, index, ov, trading, read, plan, terms, late, still, events>>
    BY <1>8 DEF vars
  <2>2. Typed /\ Priced /\ Raced /\ Listed /\ Reserved /\ Decided
    BY DEF IInv
  <2>3. Typed'
    BY <2>1, <2>2 DEF Typed
  <2>4. c' = c
    BY <2>1 DEF c
  <2>5. Raced' /\ Reserved'
    BY <2>1, <2>2, <2>4 DEF Raced, Reserved
  <2>6. Listed'
    BY <2>1, <2>2 DEF Listed, Single
  <2>7. Decided'
    BY <2>1, <2>2, DecidedLasts
  <2>8. QED
    BY <2>1, <2>3, <2>5, <2>6, <2>7, QuietKeeps DEF IInv
<1>9. QED
  BY <1>1, <1>2, <1>3, <1>4, <1>5, <1>6, <1>7, <1>8 DEF Next

-----------------------------------------------------------------------------
(* The theorems.                                                           *)

\* The inductive invariant: what was read stays the account's but for the fills that raced it, the
\* plan fits what it was made from, and what rests fits the plan that placed it.
THEOREM Invariant == Spec => []IInv
<1>1. QED
  BY InitHolds, StepKeeps, PTL DEF Spec

\* Sizes and prices are positive, a side has one order at a price, and no order has more left than it asked for.
THEOREM TypeCorrect == Spec => []TypeOK
<1>1. IInv => TypeOK
  <2> SUFFICES ASSUME IInv PROVE TypeOK
    OBVIOUS
  <2>1. Typed /\ Priced
    BY DEF IInv
  <2>2. \A o \in rest : o.side \in Sides /\ o.price > 0 /\ o.left \in 1 .. o.desired
    BY <2>1 DEF Typed, Order
  <2>3. \A q \in plan.quotes : q.side \in Sides /\ q.price > 0 /\ q.size > 0
    BY <2>1 DEF Typed, Quoted
  <2>4. QED
    BY <2>1, <2>2, <2>3 DEF TypeOK, Typed, Priced, Single
<1>2. QED
  BY <1>1, Invariant, PTL

\* effectiveMaxLong, effectiveMaxShort: were everything resting on a side to fill, the inventory would
\* stay within the limits the decision used, but for what filled while it was being made.
THEOREM InventoryStaysInside == Spec => []InventoryKept
<1>1. IInv => InventoryKept
  BY DEF IInv
<1>2. QED
  BY <1>1, Invariant, PTL

\* buildOptionQuotes, marginEngineFutureCapacity, perpCapacity: what rests opens no more than the margin,
\* the open interest and the leverage there was, whatever sequence of fills follows.
THEOREM MarginStaysCovered == Spec => []MarginKept
<1>1. IInv => MarginKept
  BY DEF IInv
<1>2. QED
  BY <1>1, Invariant, PTL

\* Balance.Available, Balance.Reusable: a spot ladder can be delivered and paid for, other markets'
\* reservations included, unless a fill raced the reads or they found more reserved than held.
THEOREM SpotStaysBacked == Spec => []SpotBacked
<1>1. IInv => SpotBacked
  BY DEF IInv
<1>2. QED
  BY <1>1, Invariant, PTL

\* clampLevels, buildLevels: what rests is inside the fill band of its decision, every buy below every sell.
THEOREM BandHolds == Spec => []BandKept
<1>1. IInv => BandKept
  BY DEF IInv, Priced, Inside, Uncrossed, BandKept
<1>2. QED
  BY <1>1, Invariant, PTL

-----------------------------------------------------------------------------
(* The ladder is a fixed point.                                            *)

LEMMA LevelsSame ==
  ASSUME kind' = kind, ov' = ov, NEW s, NEW limit, NEW against, NEW ref, NEW ext, NEW held
  PROVE  Levels(s, limit, against, ref, ext, held)' = Levels(s, limit, against, ref, ext, held)
<1>1. c' = c
  BY DEF c
<1>2. \A k : PriceOf(s, k, ref, ext, held)' = PriceOf(s, k, ref, ext, held)
  BY <1>1 DEF PriceOf, LongLimit, ShortLimit, MaxLong, MaxShort, Unit, Larger, Smaller, Clamped, Ceil
<1>3. \A t : Wanted(t, ref, ext)' = Wanted(t, ref, ext)
  BY <1>1 DEF Wanted, Unit
<1>4. \A v, k : Further(v, k, s, limit, against, ref, ext, held)' = Further(v, k, s, limit, against, ref, ext, held)
  <2> TAKE v, k
  <2> DEFINE p == PriceOf(s, k, ref, ext, held)
             w == Wanted(v.times, ref, ext)
             m == c.mult
             F(price, want, mult) ==
               LET size == Smaller(want, limit - v.used)
               IN  IF ~v.on \/ size < 1 \/ price <= 0
                      \/ (IF s = "buy" THEN price >= against ELSE price <= against)
                   THEN [v EXCEPT !.on = FALSE]
                   ELSE [quotes |-> v.quotes \cup {[side |-> s, price |-> price, size |-> size]},
                         used |-> v.used + size, times |-> v.times * mult, on |-> TRUE]
  <2>1. Further(v, k, s, limit, against, ref, ext, held) = F(p, w, m)
    BY DEF Further
  <2>2. Further(v, k, s, limit, against, ref, ext, held)' = F(p', w', m')
    BY DEF Further, Smaller
  <2>3. p' = p /\ w' = w /\ m' = m
    BY <1>1, <1>2, <1>3
  <2> HIDE DEF p, w, m
  <2>4. F(p', w', m') = F(p, w, m)
    BY <2>3, Zenon
  <2>5. QED
    BY <2>1, <2>2, <2>4
<1>5. \A g : IsLadder(g, s, limit, against, ref, ext, held)' <=> IsLadder(g, s, limit, against, ref, ext, held)
  BY <1>1, <1>4 DEF IsLadder, NoLevels
<1>6. (CHOOSE g : IsLadder(g, s, limit, against, ref, ext, held))'
        = CHOOSE g : IsLadder(g, s, limit, against, ref, ext, held)
  BY <1>5
<1>7. QED
  BY <1>1, <1>6, LevelsIs DEF Levels, IsLadder

\* Everything the quotes depend on, but the reading.
World == <<kind, inv, cash, index, ov, trading>>

LEMMA PricesSame ==
  ASSUME UNCHANGED World, NEW s, NEW k, NEW ref, NEW ext, NEW held, NEW times
  PROVE  /\ c' = c
         /\ PriceOf(s, k, ref, ext, held)' = PriceOf(s, k, ref, ext, held)
         /\ LongLimit(ref)' = LongLimit(ref) /\ ShortLimit(ref)' = ShortLimit(ref)
         /\ Wanted(times, ref, ext)' = Wanted(times, ref, ext)
         /\ OverLimit(ref, held)' = OverLimit(ref, held)
<1>1. c' = c /\ kind' = kind /\ ov' = ov
  BY DEF World, c
<1>2. /\ PriceOf(s, k, ref, ext, held)' = PriceOf(s, k, ref, ext, held)
      /\ LongLimit(ref)' = LongLimit(ref) /\ ShortLimit(ref)' = ShortLimit(ref)
  BY <1>1 DEF PriceOf, LongLimit, ShortLimit, MaxLong, MaxShort, Unit, Larger, Smaller, Clamped, Ceil
<1>3. Wanted(times, ref, ext)' = Wanted(times, ref, ext)
  BY <1>1 DEF Wanted, Unit
<1>4. OverLimit(ref, held)' = OverLimit(ref, held)
  BY <1>1 DEF OverLimit, MaxLong, MaxShort, Unit
<1>5. QED
  BY <1>1, <1>2, <1>3, <1>4

LEMMA CapacitySame ==
  ASSUME UNCHANGED World, NEW s, NEW price, NEW ref, NEW r
  PROVE  Capacity(s, price, ref, r)' = Capacity(s, price, ref, r)
         /\ \A n : Capped(n, price)' = Capped(n, price)
<1>1. c' = c /\ UNCHANGED <<kind, inv, cash, index, ov, trading>>
  BY DEF World, c
<1>2. Opening(s, price)' = Opening(s, price)
  BY <1>1 DEF Opening, Usable, Surplus, Larger
<1>3. \A held : Bound(held, ref)' = Bound(held, ref)
  BY <1>1 DEF Bound, Larger
<1>4. Capacity(s, price, ref, r)' = Capacity(s, price, ref, r)
  BY <1>1, <1>2, <1>3 DEF Capacity, Budget, Closing, Larger, Smaller
<1>5. \A n : Capped(n, price)' = Capped(n, price)
  BY <1>1 DEF Capped, Smaller
<1>6. QED
  BY <1>4, <1>5

LEMMA QuotesSame ==
  ASSUME UNCHANGED World, NEW ref, NEW ext, NEW r
  PROVE  /\ Quotes(ref, ext, r)' = Quotes(ref, ext, r)
         /\ Unpriceable(ref, ext, r.inv)' = Unpriceable(ref, ext, r.inv)
<1> DEFINE bid == PriceOf("buy", 0, ref, ext, r.inv)
           ask == PriceOf("sell", 0, ref, ext, r.inv)
           want == Wanted(1, ref, ext)
           top == LongLimit(ref)
           low == ShortLimit(ref)
<1>1. c' = c /\ UNCHANGED <<kind, inv, cash, index, ov, trading>>
  BY DEF World, c
<1>2. bid' = bid /\ ask' = ask /\ want' = want /\ top' = top /\ low' = low
  BY PricesSame
<1>3. \A s, price : Capacity(s, price, ref, r)' = Capacity(s, price, ref, r)
  BY CapacitySame
<1>4. \A n, price : Capped(n, price)' = Capped(n, price)
  BY CapacitySame
<1>5. \A s, limit, against : Levels(s, limit, against, ref, ext, r.inv)' = Levels(s, limit, against, ref, ext, r.inv)
  BY <1>1, LevelsSame
<1>6. ASSUME NEW s PROVE SideQuotes(s, ref, ext, r)' = SideQuotes(s, ref, ext, r)
  <2> DEFINE price == IF s = "buy" THEN bid ELSE ask
             against == IF s = "buy" THEN ask ELSE bid
             room == IF s = "buy" THEN top - r.inv ELSE r.inv - low
             most == Capacity(s, price, ref, r)
             budget == Capped(most, price)
             size == Smaller(want, budget)
             limit == Smaller(budget, room)
             shut == kind = "perp" /\ ~trading /\ ~c.closed
             none == \/ s \in ov.off \/ price <= 0 \/ shut \/ size < 1 \/ (kind # "option" /\ size > room)
  <2>1. SideQuotes(s, ref, ext, r) = IF none THEN {} ELSE Levels(s, limit, against, ref, ext, r.inv)
    BY PriceBySide DEF SideQuotes
  <2>0. PriceOf(s, 0, ref, ext, r.inv)' = price'
    BY DEF PriceOf
  <2>2. SideQuotes(s, ref, ext, r)' = IF none' THEN {} ELSE Levels(s, limit, against, ref, ext, r.inv)'
    BY <2>0 DEF SideQuotes
  <2> HIDE DEF bid, ask, want, top, low
  <2>3. price' = price /\ against' = against /\ room' = room
    BY <1>2
  <2> HIDE DEF price, against, room
  <2>4. most' = most
    BY <1>3, <2>3
  <2> HIDE DEF most
  <2>5. budget' = budget
    BY <1>4, <2>3, <2>4
  <2> HIDE DEF budget
  <2>6. size' = size /\ limit' = limit
    BY <1>2, <2>3, <2>5 DEF Smaller
  <2> HIDE DEF size, limit
  <2>7. none' = none
    BY <1>1, <2>3, <2>6
  <2> HIDE DEF none
  <2>8. Levels(s, limit, against, ref, ext, r.inv)' = Levels(s, limit, against, ref, ext, r.inv)
    BY <1>5, <2>3, <2>6
  <2>9. QED
    BY <2>1, <2>2, <2>7, <2>8
<1>7. Quotes(ref, ext, r)' = Quotes(ref, ext, r)
  <2> DEFINE B == SideQuotes("buy", ref, ext, r)
             A == SideQuotes("sell", ref, ext, r)
  <2>1. B' = B /\ A' = A
    BY <1>6
  <2> HIDE DEF B, A
  <2>2. \A all, lo, hi : ClampLevels(all, lo, hi)' = ClampLevels(all, lo, hi)
    BY DEF ClampLevels, Clamped, Larger, Smaller
  <2>3. Quotes(ref, ext, r) = IF kind = "engine" THEN ClampLevels(B \cup A, index - c.band, index + c.band) ELSE B \cup A
    BY DEF Quotes, Sides, B, A
  <2>4. Quotes(ref, ext, r)' = IF kind' = "engine" THEN ClampLevels(B' \cup A', index' - c'.band, index' + c'.band)
                              ELSE B' \cup A'
    BY <2>2 DEF Quotes, Sides, B, A
  <2>5. QED
    BY <1>1, <2>1, <2>3, <2>4
<1>8. Unpriceable(ref, ext, r.inv)' = Unpriceable(ref, ext, r.inv)
  BY <1>1, <1>2 DEF Unpriceable
<1>9. QED
  BY <1>7, <1>8

\* othersBestPrices, when every order the book showed is still listed: the others' prices are theirs.
LEMMA OthersClear ==
  ASSUME NEW book \in Pair, NEW own, NEW open, \A w \in own : \E o \in open : o.side = w.side /\ o.price = w.price
  PROVE  OthersBest(book, own, open) = book
<1> DEFINE gone(s) == {o.price : o \in {w \in own : w.side = s /\ ~\E r \in open : r.side = s /\ r.price = w.price}}
           best(s) == gone(s) \cup (IF book[s] = 0 THEN {} ELSE {book[s]})
<1>1. ASSUME NEW s PROVE best(s) = IF book[s] = 0 THEN {} ELSE {book[s]}
  <2>1. {w \in own : w.side = s /\ ~\E r \in open : r.side = s /\ r.price = w.price} = {}
    OBVIOUS
  <2>2. gone(s) = {}
    BY <2>1
  <2> HIDE DEF gone
  <2>3. QED
    BY <2>2
<1>2. OthersBest(book, own, open) = [buy |-> IF best("buy") = {} THEN 0 ELSE Max(best("buy")),
                                     sell |-> IF best("sell") = {} THEN 0 ELSE Min(best("sell"))]
  BY DEF OthersBest
<1> HIDE DEF best
<1>3. \A x \in Nat : Max({x}) = x /\ Min({x}) = x
  <2> TAKE x \in Nat
  <2> DEFINE S == {x}
  <2>1. S \in SUBSET Int /\ IsFiniteSet(S) /\ S # {}
    <3>1. IsFiniteSet(S)
      BY FS_Singleton, Zenon
    <3>2. S \in SUBSET Int /\ S # {}
      OBVIOUS
    <3>3. QED
      BY <3>1, <3>2
  <2> HIDE DEF S
  <2>2. Max(S) \in S /\ Min(S) \in S
    BY <2>1, Extremes
  <2>3. QED
    BY <2>2 DEF S
<1>4. book.buy \in Nat /\ book.sell \in Nat /\ book = [buy |-> book.buy, sell |-> book.sell]
  BY DEF Pair
<1>5. (IF best("buy") = {} THEN 0 ELSE Max(best("buy"))) = book.buy
  BY <1>1, <1>3, <1>4
<1>6. (IF best("sell") = {} THEN 0 ELSE Min(best("sell"))) = book.sell
  BY <1>1, <1>3, <1>4
<1>7. QED
  BY <1>2, <1>4, <1>5, <1>6

\* Balance.Reusable gives back what Balance.Reserved took: the orders that rest do not count.
LEMMA ClearFacts ==
  ASSUME Typed, NEW r \in Reading, r.inv = inv, r.cash = cash, Sound(r),
         kind = "spot" => r.reserved.buy = r.mine.buy + c.elsewhere /\ r.reserved.sell = r.mine.sell,
         NEW ref, NEW ext
  PROVE  Quotes(ref, ext, r) = Quotes(ref, ext, Clear)
<1> DEFINE e == Clear
<1>1. /\ e.inv = inv /\ e.cash = cash /\ e.reserved = [buy |-> c.elsewhere, sell |-> 0]
      /\ e.mine = [buy |-> 0, sell |-> 0]
  BY DEF Clear, NothingRead, None
<1> HIDE DEF e
<1>2. \A s, price : Capacity(s, price, ref, r) = Capacity(s, price, ref, e)
  <2> SUFFICES ASSUME NEW s, NEW price PROVE Capacity(s, price, ref, r) = Capacity(s, price, ref, e)
    OBVIOUS
  <2>1. CASE kind # "spot"
    BY <1>1, <2>1 DEF Capacity
  <2>2. CASE kind = "spot"
    <3>1. /\ r.mine.buy \in Nat /\ r.mine.sell \in Nat /\ c.elsewhere \in Nat /\ inv \in Int /\ cash \in Int
          /\ r.reserved.buy = r.mine.buy + c.elsewhere /\ r.reserved.sell = r.mine.sell
          /\ r.reserved.buy <= cash /\ r.reserved.sell <= inv
      BY <2>2, WorldFacts, SettingsFacts DEF Sound, Pair, Reading, Typed
    <3>2. /\ Budget(r.cash, r.reserved.buy, r.mine.buy) = cash - c.elsewhere
          /\ Budget(r.inv, r.reserved.sell, r.mine.sell) = inv
      BY <3>1 DEF Budget, Larger, Smaller
    <3>3. /\ Budget(e.cash, e.reserved.buy, e.mine.buy) = cash - c.elsewhere
          /\ Budget(e.inv, e.reserved.sell, e.mine.sell) = inv
      BY <1>1, <3>1 DEF Budget, Larger, Smaller
    <3>4. QED
      BY <2>2, <3>2, <3>3 DEF Capacity
  <2>3. QED
    BY <2>1, <2>2
<1>3. ASSUME NEW s PROVE SideQuotes(s, ref, ext, r) = SideQuotes(s, ref, ext, e)
  <2> DEFINE bid == PriceOf("buy", 0, ref, ext, inv)
             ask == PriceOf("sell", 0, ref, ext, inv)
             price == IF s = "buy" THEN bid ELSE ask
             against == IF s = "buy" THEN ask ELSE bid
             room == IF s = "buy" THEN LongLimit(ref) - inv ELSE inv - ShortLimit(ref)
             most(q) == Capacity(s, price, ref, q)
             budget(q) == Capped(most(q), price)
             size(q) == Smaller(Wanted(1, ref, ext), budget(q))
             limit(q) == Smaller(budget(q), room)
             shut == kind = "perp" /\ ~trading /\ ~c.closed
             none(q) == \/ s \in ov.off \/ price <= 0 \/ shut \/ size(q) < 1 \/ (kind # "option" /\ size(q) > room)
             side(q) == IF none(q) THEN {} ELSE Levels(s, limit(q), against, ref, ext, inv)
  <2>1. SideQuotes(s, ref, ext, r) = side(r)
    BY PriceBySide DEF SideQuotes
  <2>2. SideQuotes(s, ref, ext, e) = side(e)
    BY <1>1, PriceBySide DEF SideQuotes
  <2>3. most(r) = most(e)
    BY <1>2
  <2> HIDE DEF most
  <2>4. side(r) = side(e)
    BY <2>3
  <2>5. QED
    BY <2>1, <2>2, <2>4
<1>4. QED
  BY <1>3 DEF Quotes, e

\* While nothing happens, a cycle reads the account as it is, and the last decision stands.
Fixed == Afresh /\ Settled

LEMMA FixedIs ==
  ASSUME UNCHANGED <<kind, inv, cash, index, ov, trading, others>>
  PROVE  /\ Reference(others)' = Reference(others) /\ External(others)' = External(others)
         /\ Clear' = Clear
         /\ \A ref, ext, r : Quotes(ref, ext, r)' = Quotes(ref, ext, r)
         /\ \A ref, ext : Unpriceable(ref, ext, inv)' = Unpriceable(ref, ext, inv)
         /\ \A ref : OverLimit(ref, inv)' = OverLimit(ref, inv)
<1>1. UNCHANGED World /\ c' = c /\ UNCHANGED <<kind, inv, cash, index, others>>
  BY DEF World, c
<1>2. Reference(others)' = Reference(others) /\ External(others)' = External(others)
  BY <1>1 DEF Reference, External, TwoSided, Clamped, Larger, Smaller
<1>3. Clear' = Clear
  BY <1>1 DEF Clear, NothingRead, None
<1>4. \A ref, ext, r : Quotes(ref, ext, r)' = Quotes(ref, ext, r)
  BY <1>1, QuotesSame
<1>5. \A ref, ext : Unpriceable(ref, ext, inv)' = Unpriceable(ref, ext, inv)
  <2> SUFFICES ASSUME NEW ref, NEW ext PROVE Unpriceable(ref, ext, inv)' = Unpriceable(ref, ext, inv)
    OBVIOUS
  <2>1. \A s : PriceOf(s, 0, ref, ext, inv)' = PriceOf(s, 0, ref, ext, inv)
    <3>1. c' = c /\ kind' = kind /\ ov' = ov /\ inv' = inv
      BY <1>1 DEF World
    <3>2. QED
      BY <3>1 DEF PriceOf, LongLimit, ShortLimit, MaxLong, MaxShort, Unit, Larger, Smaller, Clamped, Ceil
  <2>2. QED
    BY <1>1, <2>1 DEF Unpriceable
<1>6. \A ref : OverLimit(ref, inv)' = OverLimit(ref, inv)
  BY <1>1 DEF OverLimit, MaxLong, MaxShort, Unit
<1>7. QED
  BY <1>2, <1>3, <1>4, <1>5, <1>6

\* What Decide makes of an account that is as it was read.
LEMMA DecideAfresh ==
  ASSUME IInv, Afresh, still >= 1, Decide
  PROVE  LET ref == Reference(others)
             ext == External(others)
         IN  \/ Unpriceable(ref, ext, inv) /\ plan' = plan
             \/ ~Unpriceable(ref, ext, inv) /\ OverLimit(ref, inv) /\ plan' = [NoPlan EXCEPT !.ref = ref]
             \/ /\ ~Unpriceable(ref, ext, inv) /\ ~OverLimit(ref, inv) /\ plan'.quotes = Quotes(ref, ext, read)
                /\ (plan'.limits.sound <=> Sound(read))
                /\ (Sound(read) => Quotes(ref, ext, read) = Quotes(ref, ext, Clear))
<1> DEFINE ref == Reference(others)
           ext == External(others)
<1>1. pc = "decide"
  BY DEF Decide
<1>2. Typed /\ Reserved /\ read \in Reading /\ others \in Pair
  BY WorldFacts DEF IInv, Typed
<1>3. /\ read.others = others /\ read.own = {[side |-> o.side, price |-> o.price] : o \in rest}
      /\ read.inv = inv /\ read.cash = cash
  BY <1>1 DEF Afresh
<1>4. OthersBest(read.others, read.own, rest) = others
  <2>1. \A w \in read.own : \E o \in rest : o.side = w.side /\ o.price = w.price
    BY <1>3
  <2>2. QED
    BY <1>2, <1>3, <2>1, OthersClear
<1>5. \/ Unpriceable(ref, ext, inv) /\ plan' = plan
      \/ ~Unpriceable(ref, ext, inv) /\ OverLimit(ref, inv) /\ plan' = [NoPlan EXCEPT !.ref = ref]
      \/ /\ ~Unpriceable(ref, ext, inv) /\ ~OverLimit(ref, inv)
         /\ plan' = [ref |-> ref, quotes |-> Quotes(ref, ext, read), limits |-> Limits(ref, ext, read)]
  BY <1>3, <1>4 DEF Decide
<1>6. Limits(ref, ext, read).sound = Sound(read)
  BY DEF Limits
<1>7. Sound(read) => Quotes(ref, ext, read) = Quotes(ref, ext, Clear)
  <2>1. kind = "spot" => read.reserved.buy = read.mine.buy + c.elsewhere /\ read.reserved.sell = read.mine.sell
    BY <1>1, <1>2 DEF Reserved
  <2>2. QED
    BY <1>2, <1>3, <2>1, ClearFacts
<1> HIDE DEF ref, ext
<1>8. QED
  BY <1>5, <1>6, <1>7 DEF ref, ext


LEMMA StandsSame ==
  ASSUME UNCHANGED <<kind, inv, cash, index, ov, trading, others>>
  PROVE  Stands(plan)' <=> Stands(plan')
<1> DEFINE ref == Reference(others)
           ext == External(others)
           quotes == Quotes(ref, ext, Clear)
           bad == Unpriceable(ref, ext, inv)
           over == OverLimit(ref, inv)
<1>1. ref' = ref /\ ext' = ext
  BY FixedIs
<1>2. quotes' = quotes /\ bad' = bad /\ over' = over
  <2>1. /\ Clear' = Clear /\ inv' = inv
        /\ \A f, x, r : Quotes(f, x, r)' = Quotes(f, x, r)
        /\ \A f, x : Unpriceable(f, x, inv)' = Unpriceable(f, x, inv)
        /\ \A f : OverLimit(f, inv)' = OverLimit(f, inv)
    BY FixedIs
  <2> HIDE DEF ref, ext
  <2>2. QED
    BY <1>1, <2>1
<1>3. Stands(plan') <=> bad \/ (plan'.limits.sound => ~over /\ plan'.quotes = quotes)
  BY DEF Stands
<1>4. Stands(plan)' <=> bad' \/ (plan'.limits.sound => ~over' /\ plan'.quotes = quotes')
  BY DEF Stands
<1> HIDE DEF bad, over, quotes
<1>5. QED
  BY <1>2, <1>3, <1>4

LEMMA FixedKeeps ==
  ASSUME IInv, Fixed, [Next]_vars
  PROVE  Fixed'
<1>1. Afresh /\ Settled /\ still \in 0 .. 2
  BY DEF Fixed, IInv, Typed
<1>2. ASSUME UNCHANGED <<kind, inv, cash, index, ov, trading, others, plan>>, Stands(plan) PROVE Stands(plan)'
  BY <1>2, StandsSame
<1>3. CASE ReadBook
  <2>1. /\ pc = "book" /\ pc' = "positions" /\ still' = Smaller(2, still + 1)
        /\ UNCHANGED <<kind, inv, cash, index, ov, trading, others, plan, rest>>
        /\ read' = [NothingRead EXCEPT !.own = {[side |-> o.side, price |-> o.price] : o \in rest}, !.others = others]
    BY <1>3 DEF ReadBook, world
  <2>2. Afresh'
    BY <2>1 DEF Afresh, NothingRead
  <2>3. still' = 2 => Stands(plan)'
    BY <1>1, <1>2, <2>1 DEF Smaller, Settled
  <2>4. QED
    BY <2>1, <2>2, <2>3 DEF Fixed, Settled
<1>4. CASE ReadPositions
  <2>1. /\ pc = "positions" /\ pc' \in {"exposures", "decide"}
        /\ UNCHANGED <<kind, inv, cash, index, ov, trading, others, plan, rest, still>>
        /\ read' = [read EXCEPT !.inv = inv, !.cash = cash]
    BY <1>4 DEF ReadPositions, world
  <2>2. read \in Reading
    BY DEF IInv, Typed
  <2>3. read'.own = read.own /\ read'.others = read.others /\ read'.inv = inv /\ read'.cash = cash
    BY <2>1, <2>2 DEF Reading
  <2>4. Afresh'
    BY <1>1, <2>1, <2>3 DEF Afresh
  <2>5. still' = 2 => Stands(plan)'
    BY <1>1, <1>2, <2>1 DEF Settled
  <2>6. QED
    BY <2>1, <2>4, <2>5 DEF Fixed, Settled
<1>5. CASE ReadExposures
  <2>1. /\ pc = "exposures" /\ pc' = "decide"
        /\ UNCHANGED <<kind, inv, cash, index, ov, trading, others, plan, rest, still>>
        /\ read'.own = read.own /\ read'.others = read.others /\ read'.inv = read.inv /\ read'.cash = read.cash
    <3>1. read \in Reading
      BY DEF IInv, Typed
    <3>2. QED
      BY <1>5, <3>1 DEF ReadExposures, world, Reading
  <2>2. Afresh'
    BY <1>1, <2>1 DEF Afresh
  <2>3. still' = 2 => Stands(plan)'
    BY <1>1, <1>2, <2>1 DEF Settled
  <2>4. QED
    BY <2>1, <2>2, <2>3 DEF Fixed, Settled
<1>6. CASE Decide
  <2>1. pc' \in {"sync", "book"} /\ UNCHANGED <<kind, inv, cash, index, ov, trading, others, still>>
    BY <1>6, DecideIs
  <2>2. Afresh'
    BY <2>1 DEF Afresh
  <2>3. still >= 1 => Stands(plan')
    <3> SUFFICES ASSUME still >= 1 PROVE Stands(plan')
      OBVIOUS
    <3> DEFINE ref == Reference(others)
               ext == External(others)
    <3>1. \/ Unpriceable(ref, ext, inv)
          \/ plan' = [NoPlan EXCEPT !.ref = ref]
          \/ /\ ~OverLimit(ref, inv) /\ plan'.quotes = Quotes(ref, ext, read)
             /\ (plan'.limits.sound <=> Sound(read))
             /\ (Sound(read) => Quotes(ref, ext, read) = Quotes(ref, ext, Clear))
      BY <1>1, <1>6, DecideAfresh
    <3> HIDE DEF ref, ext
    <3>2. plan' = [NoPlan EXCEPT !.ref = ref] => ~plan'.limits.sound
      BY DEF NoPlan, NoLimits
    <3>3. Stands(plan') <=> \/ Unpriceable(ref, ext, inv)
                            \/ plan'.limits.sound => ~OverLimit(ref, inv) /\ plan'.quotes = Quotes(ref, ext, Clear)
      BY DEF Stands, ref, ext
    <3>4. QED
      BY <3>1, <3>2, <3>3
  <2>4. still' >= 1 => Stands(plan)'
    BY <2>1, <2>3, StandsSame
  <2>5. QED
    BY <1>1, <2>1, <2>2, <2>4 DEF Fixed, Settled
<1>7. CASE Sync
  <2>1. pc = "sync" /\ pc' = "book" /\ UNCHANGED <<kind, inv, cash, index, ov, trading, others, plan, still>>
    BY <1>7 DEF Sync, world
  <2>2. Afresh'
    BY <2>1 DEF Afresh
  <2>3. still' >= 1 => Stands(plan)'
    BY <1>1, <1>2, <2>1 DEF Settled
  <2>4. QED
    BY <1>1, <2>1, <2>2, <2>3 DEF Fixed, Settled
<1>8. CASE (\E o \in rest : \E n \in {1, o.left} : Fill(o, n)) \/ Move \/ Adjust
  <2>1. still' = 0
    BY <1>8 DEF Fill, Move, Adjust, Happens
  <2>2. QED
    BY <2>1 DEF Fixed, Afresh, Settled
<1>9. CASE UNCHANGED vars
  <2>1. UNCHANGED <<kind, pc, inv, cash, rest, others, index, ov, trading, read, plan, terms, late, still, events>>
    BY <1>9 DEF vars
  <2>2. Afresh'
    BY <1>1, <2>1 DEF Afresh
  <2>3. QED
    BY <1>1, <1>2, <2>1, <2>2 DEF Fixed, Settled
<1>10. QED
  BY <1>3, <1>4, <1>5, <1>6, <1>7, <1>8, <1>9 DEF Next

\* The budget's comment in strategy.go: what its own orders hold never feeds back into their size. While
\* nothing happens, a cycle wants what the last one wanted.
THEOREM LadderIsFixedPoint == Spec => StableSizing
<1>1. Init => Fixed
  BY DEF Init, Fixed, Afresh, Settled
<1>2. IInv /\ Fixed /\ [Next]_vars => Fixed'
  BY FixedKeeps
<1>3. IInv /\ Fixed => (still = 2 /\ plan.limits.sound /\ Sound(read) /\ Decide => plan'.quotes = plan.quotes)
  <2> SUFFICES ASSUME IInv, Fixed, still = 2, plan.limits.sound, Sound(read), Decide
               PROVE  plan'.quotes = plan.quotes
    OBVIOUS
  <2> DEFINE ref == Reference(others)
             ext == External(others)
  <2>1. Afresh /\ Stands(plan)
    BY DEF Fixed, Settled
  <2>2. \/ Unpriceable(ref, ext, inv) /\ plan' = plan
        \/ ~Unpriceable(ref, ext, inv) /\ OverLimit(ref, inv)
        \/ /\ ~Unpriceable(ref, ext, inv) /\ plan'.quotes = Quotes(ref, ext, read)
           /\ (Sound(read) => Quotes(ref, ext, read) = Quotes(ref, ext, Clear))
    BY <2>1, DecideAfresh
  <2>3. Unpriceable(ref, ext, inv) \/ (~OverLimit(ref, inv) /\ plan.quotes = Quotes(ref, ext, Clear))
    BY <2>1 DEF Stands
  <2> HIDE DEF ref, ext
  <2>4. QED
    BY <2>2, <2>3
<1>4. QED
  BY <1>1, <1>2, <1>3, Invariant, PTL DEF Spec, StableSizing
=============================================================================
