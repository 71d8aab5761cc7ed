-------------------------- MODULE BatchVerifyProofs --------------------------
(***************************************************************************)
(* Proofs about BatchVerify, for every prime order, every size and number  *)
(* of limbs, every size of a batch, any signatures and random numbers.     *)
(* They assume what BatchVerify says of its constants: that the order is a *)
(* prime large enough for the multiple of the last point (ShapeFits), that *)
(* the scalar functions are those of the scalars (KeepPromise) and that a  *)
(* random number has half the bits of a scalar (InputsFit).                *)
(*                                                                         *)
(* The inductive invariant, BatchInv, says how far the signatures are done *)
(* (Progress), that the heap is in order, that its scalars fit into the    *)
(* limbs still compared and those not yet taken in will (AtWork, Room),    *)
(* that the multiples add up to the sum they started with, which is zero   *)
(* if every signature opens (SumNeutral), and that what was answered is    *)
(* what opening the signatures answers (Answered).                         *)
(*                                                                         *)
(* The parts: loops, powers of two and products; numbers in limbs; sums    *)
(* and congruence modulo the order; the heap, up, down and extended; one   *)
(* scalar taken off another; the last point; what Gather makes; what each  *)
(* action does to the record; the invariant, an action at a time.          *)
(***************************************************************************)
EXTENDS BatchVerify, FiniteSetTheorems, SequenceTheorems, TLAPS

\* A nonempty set of naturals has a least element.
LEMMA LeastElement ==
  ASSUME NEW T \in SUBSET Nat, T # {}
  PROVE  \E n \in T : \A i \in T : n <= i
<1> DEFINE L == {ss \in Nat \X Nat : ss[1] < ss[2]}
<1>1. OpToRel(<, Nat) = L
  BY Zenon DEF OpToRel
<1>3. IsWellFoundedOn(L, Nat)
  BY NatLessThanWellFounded, <1>1, Zenon
<1> HIDE DEF L
<1>2. \E x \in T : \A y \in T : ~ (<<y, x>> \in L)
  BY <1>3, WFMin, Zenon
<1>4. \A x, y \in Nat : x < y => <<x, y>> \in L
  BY DEF L
<1>5. PICK n \in T : \A y \in T : <<y, n>> \notin L
  BY <1>2
<1>6. \A i \in T : ~ (i < n)
  BY <1>4, <1>5
<1>7. \A i \in T : n <= i
  <2> SUFFICES ASSUME NEW i \in T PROVE n <= i
    OBVIOUS
  <2>1. i \in Nat /\ n \in Nat /\ ~(i < n)
    BY <1>6
  <2> QED
    BY <2>1
<1> QED
  BY <1>7

\* Induction over a set of naturals.
LEMMA InductionOn ==
  ASSUME NEW S \in SUBSET Nat, 0 \in S, \A n \in S : n + 1 \in S
  PROVE  \A n \in Nat : n \in S
<1> DEFINE Bad == Nat \ S
<1>1. SUFFICES ASSUME Bad # {} PROVE FALSE
  OBVIOUS
<1>2. PICK n \in Bad : \A i \in Bad : n <= i
  BY <1>1, LeastElement
<1>3. n \in Nat /\ n # 0
  OBVIOUS
<1>4. n - 1 \in Nat /\ ~ (n <= n - 1)
  BY <1>3
<1>5. n - 1 \in S
  BY <1>2, <1>4
<1> QED
  BY <1>5, <1>3

\* Induction over an interval, ...
LEMMA InductionUp ==
  ASSUME NEW lo \in Int, NEW hi \in Int, NEW S, lo <= hi => lo \in S,
         \A n \in lo + 1 .. hi : n - 1 \in S => n \in S
  PROVE  \A n \in lo .. hi : n \in S
<1> DEFINE T == {i \in Nat : lo + i <= hi => lo + i \in S}
<1>1. 0 \in T
  OBVIOUS
<1>2. ASSUME NEW i \in T PROVE i + 1 \in T
  <2>1. i \in Nat /\ (lo + i <= hi => lo + i \in S)
    OBVIOUS
  <2>2. SUFFICES ASSUME lo + (i + 1) <= hi PROVE lo + (i + 1) \in S
    BY <2>1
  <2>3. lo + (i + 1) \in lo + 1 .. hi /\ (lo + (i + 1)) - 1 = lo + i /\ lo + i <= hi
    BY <2>1, <2>2
  <2> QED
    BY <2>1, <2>3
<1>3. \A i \in Nat : i \in T
  <2> HIDE DEF T
  <2>1. T \in SUBSET Nat
    BY DEF T
  <2> QED
    BY <1>1, <1>2, <2>1, InductionOn
<1>4. ASSUME NEW n \in lo .. hi PROVE n \in S
  <2>1. n - lo \in Nat /\ lo + (n - lo) = n /\ n <= hi
    OBVIOUS
  <2> QED
    BY <1>3, <2>1
<1> QED
  BY <1>4

\* ... and downwards.
LEMMA InductionDown ==
  ASSUME NEW lo \in Int, NEW hi \in Int, NEW S, lo <= hi => hi \in S,
         \A n \in lo .. hi - 1 : n + 1 \in S => n \in S
  PROVE  \A n \in lo .. hi : n \in S
<1> DEFINE T == {i \in lo .. hi : (lo + hi) - i \in S}
<1>1. lo <= hi => lo \in T
  OBVIOUS
<1>2. ASSUME NEW n \in lo + 1 .. hi, n - 1 \in T PROVE n \in T
  <2>1. (lo + hi) - n \in lo .. hi - 1 /\ ((lo + hi) - n) + 1 = (lo + hi) - (n - 1)
    OBVIOUS
  <2>2. (lo + hi) - (n - 1) \in S
    BY <1>2
  <2> QED
    BY <2>1, <2>2
<1> HIDE DEF T
<1>3. \A n \in lo .. hi : n \in T
  BY <1>1, <1>2, InductionUp
<1>4. ASSUME NEW n \in lo .. hi PROVE n \in S
  <2>1. (lo + hi) - n \in lo .. hi /\ (lo + hi) - ((lo + hi) - n) = n
    OBVIOUS
  <2>2. (lo + hi) - n \in T
    BY <1>3, <2>1
  <2> QED
    BY <2>1, <2>2 DEF T
<1> QED
  BY <1>4

\* A loop from lo to hi over the values V: F computes what a round leaves from the
\* number of the round and what was there before it, and g is what is there after each.
Rounds(F, V, lo, hi) ==
  /\ lo \in Int /\ hi \in Int /\ lo <= hi
  /\ F \in [(lo + 1 .. hi) \X V -> V]

Runs(g, F, V, lo, hi, a) ==
  /\ g \in [lo .. hi -> V]
  /\ g[lo] = a
  /\ \A n \in lo + 1 .. hi : g[n] = F[<<n, g[n - 1]>>]

\* A loop that keeps to V at every round has a function of its rounds.
LEMMA LoopExists ==
  ASSUME NEW F, NEW V, NEW lo, NEW hi, NEW a \in V, Rounds(F, V, lo, hi)
  PROVE  \E g : Runs(g, F, V, lo, hi, a)
<1>0. /\ lo \in Int /\ hi \in Int /\ lo <= hi
      /\ F \in [(lo + 1 .. hi) \X V -> V]
  BY DEF Rounds
<1> DEFINE UpTo(n, g) == /\ g[lo] = a
                         /\ \A j \in lo + 1 .. n : g[j] = F[<<j, g[j - 1]>>]
           T == {n \in lo .. hi : \E g \in [lo .. hi -> V] : UpTo(n, g)}
<1>1. lo \in T
  <2>1. [n \in lo .. hi |-> a] \in [lo .. hi -> V]
    OBVIOUS
  <2>2. UpTo(lo, [n \in lo .. hi |-> a])
    BY <1>0
  <2> QED
    BY <2>1, <2>2, <1>0
<1>2. ASSUME NEW n \in lo + 1 .. hi, n - 1 \in T PROVE n \in T
  <2>1. PICK g \in [lo .. hi -> V] : UpTo(n - 1, g)
    BY <1>2
  <2> DEFINE h == [g EXCEPT ![n] = F[<<n, g[n - 1]>>]]
  <2>2. n - 1 \in lo .. hi /\ n - 1 # n /\ n # lo /\ n \in lo .. hi
    BY <1>0
  <2>3. g[n - 1] \in V
    BY <2>2
  <2>4. <<n, g[n - 1]>> \in (lo + 1 .. hi) \X V
    BY <2>3
  <2>5. F[<<n, g[n - 1]>>] \in V
    BY <2>4, <1>0
  <2>6. h \in [lo .. hi -> V]
    BY <2>5, <1>0
  <2>7. h[n] = F[<<n, g[n - 1]>>] /\ \A j \in lo .. n - 1 : h[j] = g[j]
    BY <1>0
  <2> HIDE DEF h
  <2>8. h[lo] = a
    BY <2>1, <2>7, <1>0
  <2>9. ASSUME NEW j \in lo + 1 .. n PROVE h[j] = F[<<j, h[j - 1]>>]
    <3>1. j - 1 \in lo .. n - 1 /\ h[j - 1] = g[j - 1]
      BY <2>7, <1>0
    <3>2. CASE j = n
      BY <3>1, <3>2, <2>7
    <3>3. CASE j # n
      <4>1. j \in lo .. n - 1 /\ j \in lo + 1 .. n - 1
        BY <3>3, <1>0
      <4> QED
        BY <3>1, <4>1, <2>1, <2>7
    <3> QED
      BY <3>2, <3>3
  <2> QED
    BY <2>2, <2>6, <2>8, <2>9
<1>3. hi \in T
  <2> HIDE DEF T
  <2>1. \A n \in lo .. hi : n \in T
    BY <1>0, <1>1, <1>2, InductionUp
  <2> QED
    BY <2>1, <1>0
<1>4. PICK g \in [lo .. hi -> V] : UpTo(hi, g)
  BY <1>3
<1> QED
  BY <1>4 DEF Runs

\* Powers of two.  The library counts subsets with them.
LEMMA PowerZero == 2 ^ 0 = 1
OBVIOUS

\* The next power of two.
LEMMA PowerNext ==
  ASSUME NEW n \in Nat
  PROVE  2 ^ (n + 1) = 2 * 2 ^ n
<1> DEFINE A == 1 .. n
           x == n + 1
           B == {S \cup {x} : S \in SUBSET A}
           f == [S \in SUBSET A |-> S \cup {x}]
<1>1. IsFiniteSet(A) /\ Cardinality(A) = n
  BY FS_Interval
<1>2. IsFiniteSet(1 .. n + 1) /\ Cardinality(1 .. n + 1) = n + 1
  BY FS_Interval
<1>3. IsFiniteSet(SUBSET A) /\ Cardinality(SUBSET A) = 2 ^ n
  BY <1>1, FS_SUBSET
<1>4. Cardinality(SUBSET (1 .. n + 1)) = 2 ^ (n + 1)
  BY <1>2, FS_SUBSET
<1>5. x \notin A
  OBVIOUS
<1>6. f \in Bijection(SUBSET A, B)
  <2>1. f \in [SUBSET A -> B]
    OBVIOUS
  <2>2. \A S, T \in SUBSET A : S \cup {x} = T \cup {x} => S = T
    BY <1>5
  <2>3. \A t \in B : \E s \in SUBSET A : f[s] = t
    OBVIOUS
  <2> QED
    BY <2>1, <2>2, <2>3 DEF Bijection, Injection, Surjection, IsInjective
<1>7. IsFiniteSet(B) /\ Cardinality(B) = 2 ^ n
  BY <1>3, <1>6, FS_Bijection DEF ExistsBijection
<1>8. SUBSET (1 .. n + 1) = (SUBSET A) \cup B
  <2>1. 1 .. n + 1 = A \cup {x}
    OBVIOUS
  <2>2. ASSUME NEW S \in SUBSET (1 .. n + 1) PROVE S \in (SUBSET A) \cup B
    <3>1. S \ {x} \in SUBSET A
      BY <2>1
    <3>2. CASE x \in S
      <4>1. S = (S \ {x}) \cup {x}
        BY <3>2
      <4> QED
        BY <3>1, <4>1
    <3>3. CASE x \notin S
      BY <2>1, <3>3
    <3> QED
      BY <3>2, <3>3
  <2>3. ASSUME NEW S \in SUBSET A PROVE S \in SUBSET (1 .. n + 1) /\ S \cup {x} \in SUBSET (1 .. n + 1)
    BY <2>1
  <2>4. \A S \in SUBSET (1 .. n + 1) : S \in (SUBSET A) \cup B
    BY <2>2
  <2>5. \A S \in B : S \in SUBSET (1 .. n + 1)
    BY <2>3
  <2>6. \A S \in SUBSET A : S \in SUBSET (1 .. n + 1)
    BY <2>3
  <2> HIDE DEF A, B, x
  <2> QED
    BY <2>4, <2>5, <2>6, Zenon
<1>9. (SUBSET A) \cap B = {}
  BY <1>5
<1> HIDE DEF A, x, B, f
<1>10. Cardinality((SUBSET A) \cup B) = Cardinality(SUBSET A) + Cardinality(B) - 0
  <2>1. Cardinality((SUBSET A) \cap B) = 0
    BY <1>9, FS_EmptySet
  <2> QED
    BY <1>3, <1>7, <2>1, FS_Union
<1>11. 2 ^ n \in Int /\ 2 ^ (n + 1) \in Int
  OBVIOUS
<1>12. 2 ^ (n + 1) = 2 ^ n + 2 ^ n - 0
  BY <1>3, <1>4, <1>7, <1>8, <1>10
<1> DEFINE p == 2 ^ n
           q == 2 ^ (n + 1)
<1>13. p \in Int /\ q \in Int /\ q = p + p - 0
  BY <1>11, <1>12
<1> HIDE DEF p, q
<1>14. q = 2 * p
  BY <1>13
<1> QED
  BY <1>14 DEF p, q

\* A power of two is a natural number, and larger than its exponent.
LEMMA PowerPositive ==
  ASSUME NEW n \in Nat
  PROVE  2 ^ n \in Nat /\ 2 ^ n > n
<1> DEFINE T == {i \in Nat : 2 ^ i \in Nat /\ 2 ^ i > i}
<1>1. 0 \in T
  BY PowerZero
<1>2. ASSUME NEW i \in T PROVE i + 1 \in T
  <2>1. i \in Nat /\ 2 ^ i \in Nat /\ 2 ^ i > i
    OBVIOUS
  <2>2. 2 ^ (i + 1) = 2 * 2 ^ i
    BY <2>1, PowerNext
  <2> DEFINE p == 2 ^ i
  <2> HIDE DEF p
  <2>3. 2 * p \in Nat /\ 2 * p > i + 1
    BY <2>1 DEF p
  <2> QED
    BY <2>1, <2>2, <2>3 DEF p
<1> HIDE DEF T
<1>3. n \in T
  <2>1. T \in SUBSET Nat
    BY DEF T
  <2> QED
    BY <1>1, <1>2, <2>1, InductionOn
<1> QED
  BY <1>3 DEF T

\* The powers of two multiply as their exponents add.
LEMMA PowerSum ==
  ASSUME NEW a \in Nat, NEW b \in Nat
  PROVE  2 ^ (a + b) = 2 ^ a * 2 ^ b
<1> DEFINE T == {i \in Nat : 2 ^ (a + i) = 2 ^ a * 2 ^ i}
<1>0. 2 ^ a \in Nat
  BY PowerPositive
<1>1. 0 \in T
  BY PowerZero, <1>0
<1>2. ASSUME NEW i \in T PROVE i + 1 \in T
  <2>1. i \in Nat /\ 2 ^ (a + i) = 2 ^ a * 2 ^ i /\ a + (i + 1) = (a + i) + 1 /\ a + i \in Nat
    OBVIOUS
  <2>2. 2 ^ (i + 1) = 2 * 2 ^ i /\ 2 ^ ((a + i) + 1) = 2 * 2 ^ (a + i) /\ 2 ^ i \in Nat
    BY <2>1, PowerNext, PowerPositive
  <2>3. \A p, q \in Nat : 2 * (p * q) = p * (2 * q)
    OBVIOUS
  <2>4. 2 ^ (a + (i + 1)) = 2 ^ a * 2 ^ (i + 1)
    BY <2>1, <2>2, <2>3, <1>0
  <2> QED
    BY <2>1, <2>4
<1> HIDE DEF T
<1>3. b \in T
  <2>1. T \in SUBSET Nat
    BY DEF T
  <2> QED
    BY <1>1, <1>2, <2>1, InductionOn
<1> QED
  BY <1>3 DEF T

\* The powers of two are in the order of their exponents.
LEMMA PowerLess ==
  ASSUME NEW a \in Nat, NEW b \in Nat
  PROVE  /\ a <= b => 2 ^ a <= 2 ^ b
         /\ 2 ^ a <= 2 ^ b => a <= b
         /\ 2 ^ a < 2 ^ b => a < b
<1>1. ASSUME NEW c \in Nat, NEW d \in Nat, c <= d PROVE 2 ^ c <= 2 ^ d
  <2>1. d - c \in Nat /\ c + (d - c) = d
    BY <1>1
  <2>2. 2 ^ d = 2 ^ c * 2 ^ (d - c)
    BY <2>1, PowerSum
  <2>3. 2 ^ c \in Nat /\ 2 ^ (d - c) \in Nat /\ 2 ^ (d - c) > 0
    BY <2>1, PowerPositive
  <2>4. \A p, q \in Nat : q > 0 => p <= p * q
    OBVIOUS
  <2> QED
    BY <2>2, <2>3, <2>4
<1>2. ASSUME a > b PROVE 2 ^ a > 2 ^ b
  <2>1. 2 ^ (b + 1) <= 2 ^ a
    BY <1>1, <1>2
  <2>2. 2 ^ (b + 1) = 2 * 2 ^ b /\ 2 ^ b \in Nat /\ 2 ^ b > 0 /\ 2 ^ a \in Nat
    BY PowerNext, PowerPositive
  <2> QED
    BY <2>1, <2>2
<1>3. 2 ^ a \in Nat /\ 2 ^ b \in Nat
  BY PowerPositive
<1> QED
  BY <1>1, <1>2, <1>3

\* What is needed of products of naturals, stated once so that the solver
\* instantiates it instead of reasoning about products itself.
LEMMA Products ==
  /\ \A p, q \in Nat : p * q \in Nat
  /\ \A p, q, r \in Nat : q <= r => p * q <= p * r
  /\ \A p, q, r \in Nat : p * (q + r) = p * q + p * r
  /\ \A p, q, r \in Nat : (p * q) * r = p * (q * r)
  /\ \A p, q \in Nat : p * q = q * p
  /\ \A p, q \in Nat : p > 0 /\ q > 0 => p * q > 0
  /\ \A p \in Nat : p * 0 = 0 /\ p * 1 = p
OBVIOUS

\* Shapes.
LEMMA ShapeTypes ==
  ASSUME ShapeFits
  PROVE  /\ m \in Nat /\ m > 1
         /\ BPL \in Nat /\ BPL > 0 /\ HALF \in Nat
         /\ SIZE \in Nat /\ SIZE > 1
         /\ Base \in Nat /\ Base > 1
         /\ 2 ^ HALF \in Nat /\ 2 ^ HALF > 0
         /\ 2 ^ (HALF + 1) = 2 * 2 ^ HALF
         /\ 2 * 2 ^ HALF <= m
         /\ HALF < BPL * (SIZE - 1)
         /\ 0 \in Limb /\ SIZE - 1 \in Limb
<1>1. /\ m \in Nat /\ m > 1
      /\ BPL \in Nat /\ BPL > 0 /\ HALF \in Nat
      /\ SIZE \in Nat
      /\ 2 ^ (HALF + 1) <= m /\ HALF < BPL * (SIZE - 1)
  BY DEF ShapeFits
<1>2. Base \in Nat /\ Base > 1
  BY <1>1, PowerPositive DEF Base
<1>3. 2 ^ HALF \in Nat /\ 2 ^ HALF > 0 /\ 2 ^ (HALF + 1) = 2 * 2 ^ HALF
  BY <1>1, PowerPositive, PowerNext
<1>4. SIZE > 1
  <2>1. SUFFICES ASSUME SIZE = 0 \/ SIZE = 1 PROVE FALSE
    BY <1>1
  <2>2. CASE SIZE = 1
    <3>1. BPL * (SIZE - 1) = 0
      BY <1>1, <2>2
    <3> QED
      BY <1>1, <3>1
  <2>3. CASE SIZE = 0
    <3>1. BPL * (SIZE - 1) = -BPL
      BY <1>1, <2>3
    <3> QED
      BY <1>1, <3>1
  <2> QED
    BY <2>1, <2>2, <2>3
<1> QED
  BY <1>1, <1>2, <1>3, <1>4 DEF Limb

\* v[i] is the number in the limbs of x from limb i on.
IsValues(x, v) ==
  /\ v \in [0 .. SIZE -> Nat]
  /\ v[SIZE] = 0
  /\ \A i \in Limb : v[i] = x[i] + Base * v[i + 1]

\* Value is the row that it computes limb by limb, from the top one down.
LEMMA ValueRuns ==
  ASSUME ShapeFits, NEW x \in Numbers
  PROVE  \E v : IsValues(x, v) /\ Value(x) = v[0]
<1>0. SIZE \in Nat /\ SIZE > 0 /\ Base \in Nat /\ \A i \in Limb : x[i] \in Nat
  <2>1. \A i \in Limb : x[i] \in 0 .. Base - 1
    BY DEF Numbers
  <2> QED
    BY <2>1, ShapeTypes
<1> DEFINE F == [p \in (0 + 1 .. SIZE) \X Nat |-> x[SIZE - p[1]] + Base * p[2]]
<1>1. F \in [(0 + 1 .. SIZE) \X Nat -> Nat]
  <2>1. \A p \in (0 + 1 .. SIZE) \X Nat : x[SIZE - p[1]] + Base * p[2] \in Nat
    <3> TAKE p \in (0 + 1 .. SIZE) \X Nat
    <3>1. p[1] \in 0 + 1 .. SIZE /\ p[2] \in Nat
      OBVIOUS
    <3>2. SIZE - p[1] \in Limb
      BY <3>1, <1>0 DEF Limb
    <3>3. Base * p[2] \in Nat
      BY <3>1, <1>0
    <3> QED
      BY <3>2, <3>3, <1>0
  <2> QED
    BY <2>1
<1>2. PICK g : Runs(g, F, Nat, 0, SIZE, 0)
  <2> HIDE DEF F
  <2>1. Rounds(F, Nat, 0, SIZE)
    BY <1>0, <1>1 DEF Rounds
  <2> QED
    BY <2>1, LoopExists
<1>3. g \in [0 .. SIZE -> Nat] /\ g[0] = 0
      /\ \A n \in 1 .. SIZE : g[n] = x[SIZE - n] + Base * g[n - 1]
  <2>1. g \in [0 .. SIZE -> Nat] /\ g[0] = 0 /\ \A n \in 1 .. SIZE : g[n] = F[<<n, g[n - 1]>>]
    <3> HIDE DEF F
    <3> QED
      BY <1>2, <1>0 DEF Runs
  <2>2. \A n \in 1 .. SIZE : <<n, g[n - 1]>> \in (0 + 1 .. SIZE) \X Nat
    BY <2>1, <1>0
  <2> QED
    BY <2>1, <2>2
<1> HIDE DEF F
<1> DEFINE h == [i \in 0 .. SIZE |-> g[SIZE - i]]
<1>4. \A i \in 0 .. SIZE : SIZE - i \in 0 .. SIZE
  BY <1>0
<1>5. h \in [0 .. SIZE -> Nat] /\ h[SIZE] = 0
  BY <1>3, <1>4, <1>0
<1>6. ASSUME NEW i \in 0 .. SIZE, i # SIZE PROVE h[i] = x[i] + Base * h[i + 1]
  <2>1. SIZE - i \in 1 .. SIZE /\ SIZE - (SIZE - i) = i /\ i + 1 \in 0 .. SIZE
        /\ (SIZE - i) - 1 = SIZE - (i + 1)
    BY <1>6, <1>0
  <2>2. g[SIZE - i] = x[i] + Base * g[SIZE - (i + 1)]
    BY <2>1, <1>3
  <2> QED
    BY <2>1, <2>2
<1>7. h = [i \in 0 .. SIZE |-> IF i = SIZE THEN 0 ELSE x[i] + Base * h[i + 1]]
  <2> HIDE DEF h
  <2>1. h = [i \in 0 .. SIZE |-> h[i]]
    BY <1>5
  <2> QED
    BY <2>1, <1>5, <1>6
<1> HIDE DEF h
<1> DEFINE f == CHOOSE after : after = [i \in 0 .. SIZE |->
                   IF i = SIZE THEN 0 ELSE x[i] + Base * after[i + 1]]
<1>8. f = [i \in 0 .. SIZE |-> IF i = SIZE THEN 0 ELSE x[i] + Base * f[i + 1]]
  BY <1>7
<1>9. Value(x) = f[0]
  BY DEF Value
<1> HIDE DEF f
<1>10. ASSUME NEW i \in 0 .. SIZE PROVE f[i] = h[i]
  <2> DEFINE T == {n \in 0 .. SIZE : f[n] = h[n]}
  <2>1. SIZE \in T
    BY <1>5, <1>8, <1>0
  <2>2. ASSUME NEW n \in 0 .. SIZE - 1, n + 1 \in T PROVE n \in T
    <3>1. f[n + 1] = h[n + 1] /\ n \in 0 .. SIZE /\ n # SIZE
      BY <2>2, <1>0
    <3>2. f[n] = x[n] + Base * f[n + 1]
      BY <3>1, <1>8
    <3> QED
      BY <3>1, <3>2, <1>6
  <2> HIDE DEF T
  <2>3. \A n \in 0 .. SIZE : n \in T
    <3>1. 0 \in Int /\ SIZE \in Int
      BY <1>0
    <3>2. \A n \in 0 .. SIZE - 1 : n + 1 \in T => n \in T
      BY <2>2
    <3> QED
      BY <3>1, <3>2, <2>1, InductionDown
  <2> QED
    BY <2>3 DEF T
<1>11. Value(x) = h[0]
  BY <1>9, <1>10, <1>0
<1>12. IsValues(x, h)
  <2>1. \A i \in Limb : i \in 0 .. SIZE /\ i # SIZE
    BY <1>0 DEF Limb
  <2> QED
    BY <2>1, <1>5, <1>6 DEF IsValues
<1> QED
  BY <1>11, <1>12

\* The number in some limbs is a natural.
LEMMA ValueType ==
  ASSUME ShapeFits, NEW x \in Numbers
  PROVE  Value(x) \in Nat
<1>1. PICK v : IsValues(x, v) /\ Value(x) = v[0]
  BY ValueRuns
<1> QED
  BY SMTT(40), <1>1, ShapeTypes DEF IsValues

\* The number above limb i is the whole number cut off there.
LEMMA ValueFrom ==
  ASSUME ShapeFits, NEW x \in Numbers, NEW v, IsValues(x, v), NEW i \in 0 .. SIZE
  PROVE  /\ 2 ^ (BPL * i) \in Nat
         /\ 2 ^ (BPL * i) * v[i] <= v[0]
         /\ v[0] < 2 ^ (BPL * i) * (v[i] + 1)
<1>0. BPL \in Nat /\ SIZE \in Nat /\ Base \in Nat /\ Base > 1
      /\ v \in [0 .. SIZE -> Nat]
  BY ShapeTypes DEF IsValues
<1> DEFINE P(j) == 2 ^ (BPL * j)
           T == {j \in 0 .. SIZE : P(j) * v[j] <= v[0] /\ v[0] < P(j) * (v[j] + 1)}
<1>1. \A j \in 0 .. SIZE : BPL * j \in Nat /\ P(j) \in Nat /\ P(j) > 0
  BY <1>0, PowerPositive
<1>2. 0 \in T
  <2>1. BPL * 0 = 0 /\ 0 \in 0 .. SIZE
    BY <1>0
  <2>2. P(0) = 1
    BY <2>1, PowerZero
  <2> QED
    BY <2>1, <2>2, <1>0
<1>3. ASSUME NEW j \in 0 + 1 .. SIZE, j - 1 \in T PROVE j \in T
  <2>1. j - 1 \in Limb /\ (j - 1) + 1 = j /\ j \in 0 .. SIZE /\ j - 1 \in 0 .. SIZE
    BY <1>0 DEF Limb
  <2>2. v[j - 1] = x[j - 1] + Base * v[j]
    BY <2>1 DEF IsValues
  <2>3. x[j - 1] \in Nat /\ x[j - 1] < Base
    <3>1. x[j - 1] \in 0 .. Base - 1
      BY <2>1 DEF Numbers
    <3> QED
      BY <3>1, <1>0
  <2>4. P(j) = P(j - 1) * Base
    <3>1. BPL * j = BPL * (j - 1) + BPL /\ BPL * (j - 1) \in Nat
      BY <1>0, <2>1
    <3> QED
      BY <3>1, <1>0, PowerSum DEF Base
  <2> DEFINE p == P(j - 1)
             a == v[j]
             b == x[j - 1]
  <2>5. p \in Nat /\ p > 0 /\ a \in Nat /\ b \in Nat /\ b < Base /\ v[0] \in Nat
    <3>1. p \in Nat /\ p > 0
      BY <1>1, <2>1
    <3>2. v[j] \in Nat /\ v[0] \in Nat
      BY <1>0, <2>1
    <3> QED
      BY <3>1, <3>2, <2>3
  <2>6. p * (b + Base * a) <= v[0] /\ v[0] < p * ((b + Base * a) + 1)
    BY <1>3, <2>2
  <2> HIDE DEF p, a, b
  <2>7. (p * Base) * a <= v[0]
    <3>1. (p * Base) * a = p * (Base * a) /\ Base * a \in Nat
      BY <2>5, <1>0, Products
    <3>2. p * (Base * a) <= p * (b + Base * a)
      BY <2>5, <1>0, <3>1, Products
    <3>3. p * (Base * a) \in Nat /\ p * (b + Base * a) \in Nat
      BY <2>5, <1>0, <3>1, Products
    <3> QED
      BY <2>5, <2>6, <3>1, <3>2, <3>3
  <2>8. v[0] < (p * Base) * (a + 1)
    <3>1. (p * Base) * (a + 1) = p * (Base * (a + 1)) /\ Base * (a + 1) \in Nat
      BY <2>5, <1>0, Products
    <3>2. (b + Base * a) + 1 <= Base * (a + 1) /\ b + Base * a \in Nat
      <4>1. Base * (a + 1) = Base * a + Base /\ Base * a \in Nat
        BY <2>5, <1>0, Products
      <4> QED
        BY <4>1, <2>5, <1>0
    <3>3. p * ((b + Base * a) + 1) <= p * (Base * (a + 1))
      BY <2>5, <1>0, <3>1, <3>2, Products
    <3>4. p * ((b + Base * a) + 1) \in Nat /\ p * (Base * (a + 1)) \in Nat
      BY <2>5, <1>0, <3>1, <3>2, Products
    <3> QED
      BY <2>5, <2>6, <3>1, <3>3, <3>4
  <2> QED
    BY <2>1, <2>4, <2>7, <2>8 DEF p, a
<1> HIDE DEF T
<1>4. \A j \in 0 .. SIZE : j \in T
  <2>1. 0 \in Int /\ SIZE \in Int
    BY <1>0
  <2> HIDE <1>0
  <2>2. \A j \in 0 + 1 .. SIZE : j - 1 \in T => j \in T
    BY <1>3
  <2> QED
    BY <2>1, <2>2, <1>2, InductionUp
<1> QED
  BY <1>4, <1>1 DEF T

\* What is above limbsize is zero if and only if the number has no bits there.
LEMMA ZeroAboveValue ==
  ASSUME ShapeFits, NEW x \in Numbers, NEW l \in -1 .. SIZE - 1
  PROVE  /\ BPL * (l + 1) \in Nat
         /\ ZeroAbove(x, l) <=> Value(x) < 2 ^ (BPL * (l + 1))
<1>0. BPL \in Nat /\ SIZE \in Nat /\ Base \in Nat /\ Base > 1
  BY ShapeTypes
<1>1. PICK v : IsValues(x, v) /\ Value(x) = v[0]
  BY ValueRuns
<1>2. v \in [0 .. SIZE -> Nat] /\ l + 1 \in 0 .. SIZE /\ v[0] \in Nat
  BY <1>0, <1>1 DEF IsValues
<1>3. ZeroAbove(x, l) <=> v[l + 1] = 0
  <2>1. ASSUME ZeroAbove(x, l) PROVE v[l + 1] = 0
    <3> DEFINE T == {i \in l + 1 .. SIZE : v[i] = 0}
    <3>1. SIZE \in T
      BY <1>0, <1>1, <1>2 DEF IsValues
    <3>2. ASSUME NEW i \in l + 1 .. SIZE - 1, i + 1 \in T PROVE i \in T
      <4>1. i \in Limb /\ i > l /\ v[i + 1] = 0
        BY <3>2, <1>0 DEF Limb
      <4>2. x[i] = 0
        BY <4>1, <2>1 DEF ZeroAbove
      <4>3. v[i] = 0 + Base * 0
        BY <4>1, <4>2, <1>1 DEF IsValues
      <4> QED
        BY <4>1, <4>3, <1>0
    <3> HIDE DEF T
    <3>3. \A i \in l + 1 .. SIZE : i \in T
      <4>1. l + 1 \in Int /\ SIZE \in Int
        BY <1>0
      <4>2. \A i \in l + 1 .. SIZE - 1 : i + 1 \in T => i \in T
        BY <3>2
      <4> QED
        BY <4>1, <4>2, <3>1, InductionDown
    <3> QED
      BY <3>3, <1>0 DEF T
  <2>2. ASSUME v[l + 1] = 0 PROVE ZeroAbove(x, l)
    <3> DEFINE T == {i \in l + 1 .. SIZE : v[i] = 0}
    <3>0. ASSUME NEW i \in l + 1 .. SIZE - 1, v[i] = 0 PROVE x[i] = 0 /\ v[i + 1] = 0
      <4>1. i \in Limb /\ i + 1 \in 0 .. SIZE
        BY <1>0 DEF Limb
      <4>2. v[i] = x[i] + Base * v[i + 1]
        BY <4>1, <1>1 DEF IsValues
      <4>3. x[i] \in Nat /\ v[i + 1] \in Nat
        BY <4>1, <1>0, <1>2 DEF Numbers
      <4>4. \A p, q \in Nat : p + Base * q = 0 => p = 0 /\ q = 0
        BY <1>0
      <4> QED
        BY <4>2, <4>3, <4>4, <3>0
    <3>1. l + 1 \in T
      BY <2>2, <1>0
    <3>2. ASSUME NEW i \in (l + 1) + 1 .. SIZE, i - 1 \in T PROVE i \in T
      <4>1. i - 1 \in l + 1 .. SIZE - 1 /\ v[i - 1] = 0 /\ (i - 1) + 1 = i
        BY <3>2, <1>0
      <4>2. v[i] = 0
        BY <4>1, <3>0
      <4> QED
        BY <4>2, <1>0
    <3>3. \A i \in l + 1 .. SIZE : i \in T
      <4> HIDE DEF T
      <4> QED
        BY <3>1, <3>2, <1>0, InductionUp
    <3>4. ASSUME NEW i \in Limb, i > l PROVE x[i] = 0
      <4>1. i \in l + 1 .. SIZE - 1 /\ i \in l + 1 .. SIZE
        BY <3>4, <1>0 DEF Limb
      <4>2. v[i] = 0
        BY <4>1, <3>3
      <4> QED
        BY <4>1, <4>2, <3>0
    <3> QED
      BY <3>4 DEF ZeroAbove
  <2> QED
    BY <2>1, <2>2
<1> DEFINE P == 2 ^ (BPL * (l + 1))
<1>4. BPL * (l + 1) \in Nat /\ P \in Nat /\ P > 0
  BY <1>0, <1>2, PowerPositive
<1>5. P * v[l + 1] <= v[0] /\ v[0] < P * (v[l + 1] + 1)
  BY <1>1, <1>2, ValueFrom
<1> HIDE DEF P
<1>6. v[l + 1] = 0 <=> v[0] < P
  <2>1. v[l + 1] \in Nat
    BY <1>2
  <2>2. CASE v[l + 1] = 0
    <3>1. P * (v[l + 1] + 1) = P
      BY <2>2, <1>4
    <3> QED
      BY <3>1, <2>2, <1>5
  <2>3. CASE v[l + 1] # 0
    <3>1. P <= P * v[l + 1]
      <4>1. v[l + 1] >= 1 /\ P * 1 = P
        BY <2>1, <2>3, <1>4
      <4>2. P * 1 <= P * v[l + 1]
        BY <4>1, <2>1, <1>4, Products
      <4> QED
        BY <4>1, <4>2
    <3>2. P * v[l + 1] \in Nat
      BY <1>4, <2>1, Products
    <3> QED
      BY <3>1, <3>2, <2>3, <1>2, <1>4, <1>5
  <2> QED
    BY <2>2, <2>3
<1> QED
  BY <1>1, <1>3, <1>4, <1>6 DEF P

\* A function that is computed like the loop is its run.
LEMMA LoopIs ==
  ASSUME NEW F, NEW V, NEW lo, NEW hi, NEW a \in V, Rounds(F, V, lo, hi),
         NEW f, f = [n \in lo .. hi |-> f[n]], f[lo] = a,
         \A n \in lo + 1 .. hi : f[n - 1] \in V => f[n] = F[<<n, f[n - 1]>>]
  PROVE  Runs(f, F, V, lo, hi, a)
<1>0. /\ lo \in Int /\ hi \in Int /\ lo <= hi
      /\ F \in [(lo + 1 .. hi) \X V -> V]
  BY DEF Rounds
<1> DEFINE T == {n \in lo .. hi : f[n] \in V}
<1>1. lo \in T
  BY <1>0
<1>2. \A n \in lo + 1 .. hi : n - 1 \in T => n \in T
  <2> TAKE n \in lo + 1 .. hi
  <2> HAVE n - 1 \in T
  <2>1. f[n - 1] \in V
    OBVIOUS
  <2>2. <<n, f[n - 1]>> \in (lo + 1 .. hi) \X V
    BY <2>1
  <2>3. F[<<n, f[n - 1]>>] \in V
    BY <2>2, <1>0
  <2>4. f[n] \in V
    BY <2>1, <2>3
  <2> QED
    BY <2>4, <1>0
<1>3. \A n \in lo .. hi : n \in T
  <2>1. lo \in Int /\ hi \in Int
    BY <1>0
  <2> HIDE DEF T
  <2> QED
    BY <2>1, <1>1, <1>2, InductionUp
<1>4. \A n \in lo .. hi : f[n] \in V
  BY <1>3
<1>5. f \in [lo .. hi -> V]
  BY <1>4
<1>6. \A n \in lo + 1 .. hi : f[n] = F[<<n, f[n - 1]>>]
  <2> TAKE n \in lo + 1 .. hi
  <2>1. n - 1 \in lo .. hi
    BY <1>0
  <2> QED
    BY <2>1, <1>4
<1> QED
  BY <1>5, <1>6 DEF Runs

\* Sums.  g is a row of sums of f.
IsSums(g, f, last) ==
  /\ g \in [0 .. last -> Int]
  /\ g[0] = f[0]
  /\ \A n \in 1 .. last : g[n] = g[n - 1] + f[n]

\* SumUpTo is the row of sums that it computes.
LEMMA SumRuns ==
  ASSUME NEW last \in Nat, NEW f, \A i \in 0 .. last : f[i] \in Int
  PROVE  \E g : IsSums(g, f, last) /\ SumUpTo(f, last) = g[last]
<1> DEFINE F == [p \in (0 + 1 .. last) \X Int |-> p[2] + f[p[1]]]
<1>1. Rounds(F, Int, 0, last)
  <2>1. \A p \in (0 + 1 .. last) \X Int : p[2] + f[p[1]] \in Int
    <3> TAKE p \in (0 + 1 .. last) \X Int
    <3>1. p[1] \in 0 .. last /\ p[2] \in Int
      OBVIOUS
    <3> QED
      BY <3>1
  <2>2. F \in [(0 + 1 .. last) \X Int -> Int]
    BY <2>1
  <2> HIDE DEF F
  <2> QED
    BY <2>2 DEF Rounds
<1>2. \A n \in 0 + 1 .. last, v \in Int : F[<<n, v>>] = v + f[n]
  OBVIOUS
<1> HIDE DEF F
<1>3. f[0] \in Int
  OBVIOUS
<1>4. PICK h : Runs(h, F, Int, 0, last, f[0])
  BY <1>1, <1>3, LoopExists
<1>5. h = [n \in 0 .. last |-> IF n = 0 THEN f[0] ELSE h[n - 1] + f[n]]
  <2>1. /\ h \in [0 .. last -> Int] /\ h[0] = f[0]
        /\ \A n \in 0 + 1 .. last : h[n] = F[<<n, h[n - 1]>>]
    BY <1>4 DEF Runs
  <2>2. \A n \in 0 .. last : h[n] = IF n = 0 THEN f[0] ELSE h[n - 1] + f[n]
    <3> TAKE n \in 0 .. last
    <3>1. CASE n = 0
      BY <2>1, <3>1
    <3>2. CASE n # 0
      <4>1. n \in 0 + 1 .. last /\ h[n - 1] \in Int
        BY <2>1, <3>2
      <4> QED
        BY <2>1, <4>1, <1>2, <3>2
    <3> QED
      BY <3>1, <3>2
  <2> QED
    BY <2>1, <2>2
<1> DEFINE g == CHOOSE sum : sum = [n \in 0 .. last |-> IF n = 0 THEN f[0] ELSE sum[n - 1] + f[n]]
<1>6. g = [n \in 0 .. last |-> IF n = 0 THEN f[0] ELSE g[n - 1] + f[n]]
  BY <1>5
<1>7. SumUpTo(f, last) = g[last]
  BY DEF SumUpTo
<1> HIDE DEF g
<1>8. g = [n \in 0 .. last |-> g[n]] /\ g[0] = f[0]
      /\ \A n \in 0 + 1 .. last : g[n] = g[n - 1] + f[n]
  BY <1>6
<1>9. Runs(g, F, Int, 0, last, f[0])
  <2>1. \A n \in 0 + 1 .. last : g[n - 1] \in Int => g[n] = F[<<n, g[n - 1]>>]
    BY <1>2, <1>8
  <2> QED
    BY <2>1, <1>1, <1>3, <1>8, LoopIs
<1>10. IsSums(g, f, last)
  <2>1. g \in [0 .. last -> Int]
    BY <1>9 DEF Runs
  <2>2. \A n \in 1 .. last : g[n] = g[n - 1] + f[n]
    BY <1>6
  <2>3. g[0] = f[0]
    BY <1>8
  <2> QED
    BY <2>1, <2>2, <2>3 DEF IsSums
<1> QED
  BY <1>7, <1>10

\* A sum of integers is an integer.
LEMMA SumType ==
  ASSUME NEW last \in Nat, NEW f, \A i \in 0 .. last : f[i] \in Int
  PROVE  SumUpTo(f, last) \in Int
BY SumRuns DEF IsSums

\* A number is replaced by another.
Differ(f, h, a, last) ==
  /\ last \in Nat /\ a \in 0 .. last
  /\ \A i \in 0 .. last : f[i] \in Int /\ h[i] \in Int
  /\ \A i \in 0 .. last : i # a => h[i] = f[i]

\* A sum changes by as much as the one number that was replaced.
LEMMA SumChange ==
  ASSUME NEW f, NEW h, NEW a, NEW last, Differ(f, h, a, last)
  PROVE  SumUpTo(h, last) = SumUpTo(f, last) + (h[a] - f[a])
<1>0. /\ last \in Nat /\ a \in 0 .. last
      /\ \A i \in 0 .. last : f[i] \in Int
      /\ \A i \in 0 .. last : h[i] \in Int
      /\ \A i \in 0 .. last : i # a => h[i] = f[i]
  BY DEF Differ
<1>1. PICK g : IsSums(g, f, last) /\ SumUpTo(f, last) = g[last]
  BY <1>0, SumRuns
<1>2. PICK k : IsSums(k, h, last) /\ SumUpTo(h, last) = k[last]
  BY <1>0, SumRuns
<1>3. /\ \A n \in 0 .. last : g[n] \in Int /\ k[n] \in Int
      /\ g[0] = f[0] /\ k[0] = h[0]
      /\ \A n \in 1 .. last : g[n] = g[n - 1] + f[n] /\ k[n] = k[n - 1] + h[n]
  BY <1>1, <1>2 DEF IsSums
<1> DEFINE T == {n \in 0 .. last : k[n] = g[n] + (IF n < a THEN 0 ELSE h[a] - f[a])}
<1>4. 0 \in T
  <2>1. CASE a = 0
    BY <2>1, <1>0, <1>3
  <2>2. CASE a # 0
    BY <2>2, <1>0, <1>3
  <2> QED
    BY <2>1, <2>2
<1>5. \A n \in 0 + 1 .. last : n - 1 \in T => n \in T
  <2> TAKE n \in 0 + 1 .. last
  <2> HAVE n - 1 \in T
  <2>1. k[n - 1] = g[n - 1] + (IF n - 1 < a THEN 0 ELSE h[a] - f[a])
    OBVIOUS
  <2>2. g[n] = g[n - 1] + f[n] /\ k[n] = k[n - 1] + h[n] /\ n - 1 \in 0 .. last
        /\ n \in 0 .. last
    BY <1>0, <1>3
  <2>3. g[n - 1] \in Int /\ g[n] \in Int /\ f[n] \in Int /\ h[n] \in Int /\ h[a] \in Int /\ f[a] \in Int
    BY <2>2, <1>0, <1>3
  <2>4. CASE n = a
    BY <2>1, <2>2, <2>3, <2>4
  <2>5. CASE n # a
    <3>1. (n - 1 < a) <=> (n < a)
      BY <2>5, <1>0
    <3>2. h[n] = f[n]
      BY <2>2, <2>5, <1>0
    <3> QED
      BY <2>1, <2>2, <2>3, <3>1, <3>2
  <2> QED
    BY <2>4, <2>5
<1> HIDE DEF T
<1>6. \A n \in 0 .. last : n \in T
  BY <1>0, <1>4, <1>5, InductionUp
<1>7. last \in T /\ ~(last < a) /\ last \in 0 .. last
  BY <1>0, <1>6
<1> QED
  BY <1>1, <1>2, <1>7 DEF T

\* All but one are zero.
LEMMA SumOne ==
  ASSUME NEW last \in Nat, NEW f, NEW a \in 0 .. last, f[a] \in Int,
         \A i \in 0 .. last : i # a => f[i] = 0
  PROVE  SumUpTo(f, last) = f[a]
<1>0. \A i \in 0 .. last : f[i] \in Int
  OBVIOUS
<1>1. PICK g : IsSums(g, f, last) /\ SumUpTo(f, last) = g[last]
  BY <1>0, SumRuns
<1>2. /\ g[0] = f[0]
      /\ \A n \in 1 .. last : g[n] = g[n - 1] + f[n]
  BY <1>1 DEF IsSums
<1> DEFINE T == {n \in 0 .. last : g[n] = (IF n < a THEN 0 ELSE f[a])}
<1>4. 0 \in T
  BY <1>2
<1>5. \A n \in 0 + 1 .. last : n - 1 \in T => n \in T
  <2> TAKE n \in 0 + 1 .. last
  <2> HAVE n - 1 \in T
  <2>1. g[n - 1] = (IF n - 1 < a THEN 0 ELSE f[a])
    OBVIOUS
  <2>2. g[n] = g[n - 1] + f[n] /\ n \in 0 .. last
    BY <1>2
  <2>4. CASE n = a
    BY <2>1, <2>2, <2>4
  <2>5. CASE n # a
    <3>1. (n - 1 < a) <=> (n < a)
      BY <2>5
    <3>2. f[n] = 0
      BY <2>2, <2>5
    <3> QED
      BY <2>1, <2>2, <3>1, <3>2
  <2> QED
    BY <2>4, <2>5
<1> HIDE DEF T
<1>6. \A n \in 0 .. last : n \in T
  BY <1>4, <1>5, InductionUp
<1>7. last \in T /\ ~(last < a) /\ last \in 0 .. last
  BY <1>6
<1> QED
  BY <1>1, <1>7 DEF T

\* The second half is added to the first.
LEMMA SumPairs ==
  ASSUME NEW n \in Nat, NEW f, \A i \in 0 .. 2 * n : f[i] \in Int,
         NEW h, h[0] = f[0], \A i \in 1 .. n : h[i] = f[i] + f[n + i]
  PROVE  SumUpTo(f, 2 * n) = SumUpTo(h, n)
<1>0. \A i \in 0 .. n : h[i] \in Int
  <2> TAKE i \in 0 .. n
  <2>1. CASE i = 0
    BY <2>1
  <2>2. CASE i # 0
    <3>1. i \in 1 .. n /\ i \in 0 .. 2 * n /\ n + i \in 0 .. 2 * n
      BY <2>2
    <3>2. f[i] \in Int /\ f[n + i] \in Int /\ h[i] = f[i] + f[n + i]
      BY <3>1
    <3> QED
      BY <3>2
  <2> QED
    BY <2>1, <2>2
<1>1. PICK g : IsSums(g, f, 2 * n) /\ SumUpTo(f, 2 * n) = g[2 * n]
  BY SumRuns
<1>2. PICK k : IsSums(k, h, n) /\ SumUpTo(h, n) = k[n]
  BY <1>0, SumRuns
<1>3. /\ \A i \in 0 .. 2 * n : g[i] \in Int
      /\ g[0] = f[0] /\ k[0] = h[0]
      /\ \A i \in 1 .. 2 * n : g[i] = g[i - 1] + f[i]
      /\ \A i \in 1 .. n : k[i] = k[i - 1] + h[i]
  BY <1>1, <1>2 DEF IsSums
<1> DEFINE T == {i \in 0 .. n : k[i] = g[i] + (g[n + i] - g[n])}
<1>4. 0 \in T
  <2>1. g[0] \in Int /\ g[n] \in Int /\ n + 0 = n /\ k[0] = g[0]
    BY <1>3
  <2> QED
    BY <2>1
<1>5. \A i \in 0 + 1 .. n : i - 1 \in T => i \in T
  <2> TAKE i \in 0 + 1 .. n
  <2> HAVE i - 1 \in T
  <2>1. k[i - 1] = g[i - 1] + (g[n + (i - 1)] - g[n])
    OBVIOUS
  <2>2. i \in 1 .. n /\ i \in 1 .. 2 * n /\ n + i \in 1 .. 2 * n /\ n + (i - 1) = (n + i) - 1
        /\ i - 1 \in 0 .. 2 * n /\ (n + i) - 1 \in 0 .. 2 * n /\ n \in 0 .. 2 * n
        /\ i \in 0 .. 2 * n /\ n + i \in 0 .. 2 * n
    OBVIOUS
  <2>3. k[i] = k[i - 1] + (f[i] + f[n + i]) /\ g[i] = g[i - 1] + f[i]
        /\ g[n + i] = g[(n + i) - 1] + f[n + i]
    BY <2>2, <1>3
  <2>4. f[i] \in Int /\ f[n + i] \in Int /\ g[i - 1] \in Int /\ g[(n + i) - 1] \in Int /\ g[n] \in Int
    BY <2>2, <1>3
  <2>5. k[i] = g[i] + (g[n + i] - g[n])
    BY <2>1, <2>2, <2>3, <2>4
  <2> QED
    BY <2>5
<1> HIDE DEF T
<1>6. \A i \in 0 .. n : i \in T
  BY <1>4, <1>5, InductionUp
<1>7. k[n] = g[n] + (g[n + n] - g[n])
  BY <1>6 DEF T
<1>8. n + n = 2 * n /\ n \in 0 .. 2 * n /\ 2 * n \in 0 .. 2 * n
  OBVIOUS
<1>9. g[n] \in Int /\ g[2 * n] \in Int
  BY <1>3, <1>8
<1> QED
  BY <1>1, <1>2, <1>7, <1>8, <1>9

\* Numbers that differ by a multiple of the order.
Congruent(a, b) == \E k \in Int : a = b + k * m

\* Congruent is an equivalence that sums and products keep.
LEMMA Congruences ==
  ASSUME m \in Nat, m > 0
  PROVE  /\ \A a \in Int : Congruent(a, a)
         /\ \A a, b \in Int : Congruent(a, b) => Congruent(b, a)
         /\ \A a, b, c \in Int : Congruent(a, b) /\ Congruent(b, c) => Congruent(a, c)
         /\ \A a, b, c, d \in Int : Congruent(a, b) /\ Congruent(c, d) => Congruent(a + c, b + d)
         /\ \A a, b, c \in Int : Congruent(a, b) => Congruent(c * a, c * b)
<1>1. ASSUME NEW a \in Int PROVE Congruent(a, a)
  <2>1. a = a + 0 * m
    OBVIOUS
  <2> QED
    BY <2>1 DEF Congruent
<1>2. ASSUME NEW a \in Int, NEW b \in Int, Congruent(a, b) PROVE Congruent(b, a)
  <2>1. PICK k \in Int : a = b + k * m
    BY <1>2 DEF Congruent
  <2>2. -k \in Int /\ b = a + (-k) * m
    BY <2>1
  <2> QED
    BY <2>2 DEF Congruent
<1>3. ASSUME NEW a \in Int, NEW b \in Int, NEW c \in Int, Congruent(a, b), Congruent(b, c)
      PROVE Congruent(a, c)
  <2>1. PICK k \in Int : a = b + k * m
    BY <1>3 DEF Congruent
  <2>2. PICK l \in Int : b = c + l * m
    BY <1>3 DEF Congruent
  <2>3. k + l \in Int /\ a = c + (k + l) * m
    BY <2>1, <2>2
  <2> QED
    BY <2>3 DEF Congruent
<1>4. ASSUME NEW a \in Int, NEW b \in Int, NEW c \in Int, NEW d \in Int,
             Congruent(a, b), Congruent(c, d)
      PROVE Congruent(a + c, b + d)
  <2>1. PICK k \in Int : a = b + k * m
    BY <1>4 DEF Congruent
  <2>2. PICK l \in Int : c = d + l * m
    BY <1>4 DEF Congruent
  <2>3. k + l \in Int /\ a + c = (b + d) + (k + l) * m
    BY <2>1, <2>2
  <2> QED
    BY <2>3 DEF Congruent
<1>5. ASSUME NEW a \in Int, NEW b \in Int, NEW c \in Int, Congruent(a, b)
      PROVE Congruent(c * a, c * b)
  <2>1. PICK k \in Int : a = b + k * m
    BY <1>5 DEF Congruent
  <2>2. c * k \in Int /\ c * a = c * b + (c * k) * m
    BY <2>1
  <2> QED
    BY <2>2 DEF Congruent
<1> QED
  BY <1>1, <1>2, <1>3, <1>4, <1>5

\* The remainder is the one below the order.
LEMMA Remainder ==
  ASSUME m \in Nat, m > 0
  PROVE  /\ \A a \in Int : a % m \in 0 .. m - 1 /\ Congruent(a % m, a)
         /\ \A a, b \in Int : Congruent(a, b) => a % m = b % m
         /\ \A a \in 0 .. m - 1 : a % m = a
<1>1. ASSUME NEW a \in Int PROVE a % m \in 0 .. m - 1 /\ Congruent(a % m, a)
  <2>1. a \div m \in Int /\ a % m \in 0 .. m - 1 /\ a = m * (a \div m) + (a % m)
    OBVIOUS
  <2>2. -(a \div m) \in Int /\ a % m = a + (-(a \div m)) * m
    BY <2>1
  <2> QED
    BY <2>1, <2>2 DEF Congruent
<1>2. ASSUME NEW x \in 0 .. m - 1, NEW y \in 0 .. m - 1, Congruent(x, y) PROVE x = y
  <2>1. PICK k \in Int : x = y + k * m
    BY <1>2 DEF Congruent
  <2>2. CASE k = 0
    BY <2>1, <2>2
  <2>3. CASE k > 0
    <3>1. k * m >= m
      BY <2>3
    <3> QED
      BY <2>1, <3>1
  <2>4. CASE k < 0
    <3>1. k * m <= -m
      BY <2>4
    <3> QED
      BY <2>1, <3>1
  <2> QED
    BY <2>2, <2>3, <2>4
<1>3. ASSUME NEW a \in Int, NEW b \in Int, Congruent(a, b) PROVE a % m = b % m
  <2>1. a % m \in 0 .. m - 1 /\ b % m \in 0 .. m - 1 /\ Congruent(a % m, a) /\ Congruent(b % m, b)
    BY <1>1
  <2>2. a % m \in Int /\ b % m \in Int
    BY <2>1
  <2>3. Congruent(a % m, b % m)
    BY <2>1, <2>2, <1>3, Congruences
  <2> QED
    BY <2>1, <2>3, <1>2
<1>4. ASSUME NEW a \in 0 .. m - 1 PROVE a % m = a
  BY <1>1, <1>2
<1> QED
  BY <1>1, <1>3, <1>4

\* The order is prime: it divides no product of smaller numbers.
LEMMA NoZeroDivisors ==
  ASSUME ShapeFits, NEW a \in 1 .. m - 1, NEW b \in 1 .. m - 1
  PROVE  (a * b) % m # 0
<1>0. m \in Nat /\ m > 1 /\ \A d \in 2 .. m - 1 : m % d # 0
  BY DEF ShapeFits
<1> DEFINE Multiple(x) == \E k \in Int : a * x = k * m
           T == {x \in Nat : x > 0 /\ Multiple(x)}
<1>1. SUFFICES ASSUME (a * b) % m = 0 PROVE FALSE
  OBVIOUS
<1>2. b \in T
  <2>1. a * b \in Int
    BY <1>0
  <2>2. a * b = m * ((a * b) \div m) + ((a * b) % m) /\ (a * b) \div m \in Int
    BY <2>1, <1>0
  <2>3. a * b = ((a * b) \div m) * m
    BY <2>2, <1>1, <1>0
  <2>4. b \in Nat /\ b > 0
    BY <1>0
  <2> QED
    BY <2>2, <2>3, <2>4
<1>3. PICK d \in T : \A x \in T : d <= x
  <2> HIDE DEF T
  <2>1. T \in SUBSET Nat
    BY DEF T
  <2> QED
    BY <2>1, <1>2, LeastElement
<1>4. d \in Nat /\ d > 0 /\ Multiple(d) /\ d <= b
  BY <1>2, <1>3
<1>5. m % d = 0
  <2> DEFINE q == m \div d
             r == m % d
  <2>1. q \in Int /\ r \in Int /\ 0 <= r /\ r < d /\ m = d * q + r
    BY <1>0, <1>4
  <2>2. PICK k \in Int : a * d = k * m
    BY <1>4
  <2> HIDE DEF q, r
  <2>3. a * r = (a - k * q) * m
    <3>1. r = m - d * q
      BY <2>1, <1>0, <1>4
    <3>2. a * r = a * m - (a * d) * q
      BY <3>1, <2>1, <1>0, <1>4
    <3>3. (k * m) * q = (k * q) * m /\ (a - k * q) * m = a * m - (k * q) * m
      BY <2>1, <2>2, <1>0
    <3> QED
      BY <3>2, <3>3, <2>2
  <2>4. a - k * q \in Int
    BY <2>1, <2>2, <1>0
  <2>5. CASE r > 0
    <3>1. r \in Nat /\ Multiple(r)
      <4>1. r \in Nat
        BY <2>1
      <4>2. \E j \in Int : a * r = j * m
        BY <2>3, <2>4
      <4> QED
        BY <4>1, <4>2
    <3>2. r \in T
      BY <3>1, <2>5
    <3> QED
      BY <3>2, <1>3, <2>1, <1>4
  <2>6. CASE r = 0
    BY <2>6 DEF r
  <2> QED
    BY <2>1, <2>5, <2>6
<1>6. d = 1
  <2>1. d <= m - 1
    BY <1>4, <1>0
  <2>2. d \notin 2 .. m - 1
    BY <1>5, <1>0
  <2> QED
    BY <2>1, <2>2, <1>4, <1>0
<1>7. PICK k \in Int : a = k * m
  BY <1>4, <1>6, <1>0
<1>8. CASE k <= 0
  <2>1. k * m <= 0
    BY <1>8, <1>0
  <2> QED
    BY <2>1, <1>7, <1>0
<1>9. CASE k >= 1
  <2>1. k * m >= m
    BY <1>9, <1>0
  <2> QED
    BY <2>1, <1>7, <1>0
<1> QED
  BY <1>8, <1>9

\* The number of the scalar at a node.
At(heap, scalars, a) == Value(scalars[heap[a]])

\* The nodes below size hold the indices below size, each once.
HeapFits(heap, size, K) ==
  /\ K \in Nat /\ size \in 0 .. K + 1
  /\ heap \in [0 .. K -> 0 .. K]
  /\ \A a \in 0 .. size - 1 : heap[a] \in 0 .. size - 1
  /\ \A a, b \in 0 .. size - 1 : heap[a] = heap[b] => a = b
  /\ \A i \in 0 .. size - 1 : \E a \in 0 .. size - 1 : heap[a] = i

Ordered(heap, size, scalars) ==
  \A a \in 1 .. size - 1 : At(heap, scalars, a) <= At(heap, scalars, Parent(a))

\* Scalars that may be compared up to limb l.
Comparable(scalars, size, K, l) ==
  /\ scalars \in [0 .. K -> Scalars]
  /\ l \in Limb
  /\ \A i \in 0 .. size - 1 : ZeroAbove(scalars[i], l)

\* The number in a scalar is below the order.
LEMMA ScalarType ==
  ASSUME ShapeFits, NEW x \in Scalars
  PROVE  x \in Numbers /\ Value(x) \in Nat /\ Value(x) < m
BY ValueType DEF Scalars

\* The number at a node is a natural.
LEMMA AtType ==
  ASSUME ShapeFits, NEW K, NEW size, NEW heap, HeapFits(heap, size, K),
         NEW scalars \in [0 .. K -> Scalars], NEW a \in 0 .. size - 1
  PROVE  At(heap, scalars, a) \in Nat
<1>1. heap[a] \in 0 .. K
  BY DEF HeapFits
<1>2. scalars[heap[a]] \in Scalars
  BY <1>1
<1> QED
  BY <1>2, ScalarType DEF At

\* Scalars of the heap are compared as their numbers are, if the limbs not looked at
\* are zero.
LEMMA Compared ==
  ASSUME ShapeFits, KeepPromise(Scalars), NEW K, NEW size, NEW heap, HeapFits(heap, size, K),
         NEW scalars, NEW l, Comparable(scalars, size, K, l),
         NEW a \in 0 .. size - 1, NEW b \in 0 .. size - 1
  PROVE  /\ lt256(scalars[heap[a]], scalars[heap[b]], l)
              <=> At(heap, scalars, a) < At(heap, scalars, b)
         /\ lte256(scalars[heap[a]], scalars[heap[b]], l)
              <=> At(heap, scalars, a) <= At(heap, scalars, b)
<1>1. heap[a] \in 0 .. size - 1 /\ heap[b] \in 0 .. size - 1
      /\ heap[a] \in 0 .. K /\ heap[b] \in 0 .. K
  BY DEF HeapFits
<1>2. /\ scalars[heap[a]] \in Scalars /\ scalars[heap[b]] \in Scalars
      /\ ZeroAbove(scalars[heap[a]], l) /\ ZeroAbove(scalars[heap[b]], l) /\ l \in Limb
  BY <1>1 DEF Comparable
<1> QED
  BY <1>2 DEF KeepPromise, At

\* A node other than the root has one parent, before it; the children of a are 2a + 1
\* and 2a + 2.
LEMMA Parents ==
  /\ \A a \in Nat : a > 0 => Parent(a) \in Nat /\ Parent(a) < a
                             /\ (a = 2 * Parent(a) + 1 \/ a = 2 * Parent(a) + 2)
  /\ \A a \in Nat : Parent(2 * a + 1) = a /\ Parent(2 * a + 2) = a
BY DEF Parent

\* The parent of a node of the heap is in the heap.
LEMMA ParentIn ==
  ASSUME NEW size \in Nat, NEW a \in 1 .. size - 1
  PROVE  a \in 0 .. size - 1 /\ Parent(a) \in 0 .. size - 1 /\ Parent(a) < a
<1>1. a \in Nat /\ a > 0 /\ a <= size - 1
  OBVIOUS
<1>2. Parent(a) \in Nat /\ Parent(a) < a
  BY <1>1, Parents
<1> QED
  BY <1>1, <1>2

\* A swap leaves each scalar in the heap once.
LEMMA Swapped ==
  ASSUME NEW K, NEW size, NEW heap, HeapFits(heap, size, K),
         NEW a \in 0 .. size - 1, NEW b \in 0 .. size - 1, a # b, NEW scalars,
         NEW h, h = heap_swap(heap, a, b)
  PROVE  /\ HeapFits(h, size, K)
         /\ At(h, scalars, a) = At(heap, scalars, b)
         /\ At(h, scalars, b) = At(heap, scalars, a)
         /\ \A c \in 0 .. size - 1 : c # a /\ c # b => At(h, scalars, c) = At(heap, scalars, c)
<1>0. /\ K \in Nat /\ size \in 0 .. K + 1
      /\ heap \in [0 .. K -> 0 .. K]
      /\ \A c \in 0 .. size - 1 : heap[c] \in 0 .. size - 1
      /\ \A c, d \in 0 .. size - 1 : heap[c] = heap[d] => c = d
      /\ \A i \in 0 .. size - 1 : \E c \in 0 .. size - 1 : heap[c] = i
  BY DEF HeapFits
<1>1. \A c \in 0 .. size - 1 : c \in 0 .. K
  BY <1>0
<1>2. heap[a] \in 0 .. K /\ heap[b] \in 0 .. K /\ a \in 0 .. K /\ b \in 0 .. K
  BY <1>0, <1>1
<1>3. /\ h \in [0 .. K -> 0 .. K]
      /\ h[a] = heap[b] /\ h[b] = heap[a]
      /\ \A c \in 0 .. K : c # a /\ c # b => h[c] = heap[c]
  BY <1>0, <1>2 DEF heap_swap
<1>4. \A c \in 0 .. size - 1 : h[c] \in 0 .. size - 1
  BY <1>0, <1>1, <1>3
<1>5. ASSUME NEW c \in 0 .. size - 1, NEW d \in 0 .. size - 1, h[c] = h[d] PROVE c = d
  <2> DEFINE other(e) == IF e = a THEN b ELSE IF e = b THEN a ELSE e
  <2>1. \A e \in 0 .. size - 1 : other(e) \in 0 .. size - 1 /\ h[e] = heap[other(e)]
    BY <1>1, <1>3
  <2>2. other(c) = other(d)
    <3> HIDE DEF other
    <3>1. other(c) \in 0 .. size - 1 /\ other(d) \in 0 .. size - 1
      BY <2>1
    <3>2. heap[other(c)] = heap[other(d)]
      BY <2>1, <1>5
    <3> QED
      BY <3>1, <3>2, <1>0
  <2> QED
    BY <2>2
<1>6. ASSUME NEW i \in 0 .. size - 1 PROVE \E c \in 0 .. size - 1 : h[c] = i
  <2>1. PICK c \in 0 .. size - 1 : heap[c] = i
    BY <1>0
  <2>2. CASE c = a
    BY <2>1, <2>2, <1>3
  <2>3. CASE c = b
    BY <2>1, <2>3, <1>3
  <2>4. CASE c # a /\ c # b
    BY <2>1, <2>4, <1>1, <1>3
  <2> QED
    BY <2>2, <2>3, <2>4
<1>7. HeapFits(h, size, K)
  BY <1>0, <1>3, <1>4, <1>5, <1>6 DEF HeapFits
<1>8. /\ At(h, scalars, a) = At(heap, scalars, b)
      /\ At(h, scalars, b) = At(heap, scalars, a)
  BY <1>3 DEF At
<1>9. \A c \in 0 .. size - 1 : c # a /\ c # b => At(h, scalars, c) = At(heap, scalars, c)
  BY <1>1, <1>3 DEF At
<1> QED
  BY <1>7, <1>8, <1>9

\* On the way up only the node may be larger than its parent, and its parent is no
\* smaller than its children.
UpFits(at, size, K, scalars) ==
  /\ at \in [node : 0 .. size - 1, heap : [0 .. K -> 0 .. K]]
  /\ HeapFits(at.heap, size, K)
  /\ \A a \in 1 .. size - 1 :
       /\ a # at.node => At(at.heap, scalars, a) <= At(at.heap, scalars, Parent(a))
       /\ at.node > 0 /\ Parent(a) = at.node =>
            At(at.heap, scalars, a) <= At(at.heap, scalars, Parent(at.node))

\* A step up keeps what is right about the heap, and goes on until the heap is in order.
LEMMA MoveUpFits ==
  ASSUME ShapeFits, KeepPromise(Scalars), NEW K, NEW size, NEW scalars, NEW l,
         Comparable(scalars, size, K, l), NEW at, UpFits(at, size, K, scalars),
         NEW orequal \in BOOLEAN
  PROVE  LET next == MoveUp(at, scalars, l, orequal) IN
         /\ UpFits(next, size, K, scalars)
         /\ \/ at.node > 0 /\ next.node < at.node
            \/ /\ next = at
               /\ Ordered(at.heap, size, scalars)
<1> DEFINE x == at.node
           h == at.heap
           p == Parent(x)
           g == heap_swap(h, p, x)
           next == MoveUp(at, scalars, l, orequal)
<1>0. /\ at \in [node : 0 .. size - 1, heap : [0 .. K -> 0 .. K]]
      /\ HeapFits(h, size, K)
      /\ \A a \in 1 .. size - 1 :
           /\ a # x => At(h, scalars, a) <= At(h, scalars, Parent(a))
           /\ x > 0 /\ Parent(a) = x => At(h, scalars, a) <= At(h, scalars, p)
  BY DEF UpFits
<1>1. K \in Nat /\ size \in 0 .. K + 1 /\ x \in 0 .. size - 1 /\ size > 0
      /\ scalars \in [0 .. K -> Scalars]
  <2>1. K \in Nat /\ size \in 0 .. K + 1
    BY <1>0 DEF HeapFits
  <2>2. x \in 0 .. size - 1
    BY <1>0
  <2> QED
    BY <2>1, <2>2 DEF Comparable
<1>2. \A a \in 0 .. size - 1 : At(h, scalars, a) \in Nat
  BY <1>0, <1>1, AtType
<1>3. CASE x = 0
  <2>1. next = at
    BY <1>3 DEF MoveUp
  <2>2. Ordered(h, size, scalars)
    BY <1>0, <1>3 DEF Ordered
  <2> QED
    BY <2>1, <2>2
<1>4. CASE x # 0
  <2>1. x \in Nat /\ x > 0 /\ p \in 0 .. size - 1 /\ p < x /\ p \in Nat
    <3>1. x \in Nat /\ x > 0
      BY <1>1, <1>4
    <3>2. Parent(x) \in Nat /\ Parent(x) < x
      BY <3>1, Parents
    <3> QED
      BY <1>1, <3>1, <3>2
  <2>2. /\ lt256(scalars[h[p]], scalars[h[x]], l) <=> At(h, scalars, p) < At(h, scalars, x)
        /\ lte256(scalars[h[p]], scalars[h[x]], l) <=> At(h, scalars, p) <= At(h, scalars, x)
    <3> HIDE DEF p, x, h
    <3> QED
      BY <1>0, <1>1, <2>1, Compared
  <2> DEFINE moves == IF orequal THEN lte256(scalars[h[p]], scalars[h[x]], l)
                      ELSE lt256(scalars[h[p]], scalars[h[x]], l)
  <2>3. next = IF ~moves THEN at ELSE [node |-> p, heap |-> g]
    BY <1>4 DEF MoveUp
  <2>4. CASE ~moves
    <3>1. next = at
      BY <2>3, <2>4
    <3>2. At(h, scalars, x) <= At(h, scalars, p)
      <4>1. At(h, scalars, x) \in Nat /\ At(h, scalars, p) \in Nat
        BY <1>1, <1>2, <2>1
      <4>2. CASE orequal
        BY <4>1, <4>2, <2>2, <2>4
      <4>3. CASE ~orequal
        BY <4>1, <4>3, <2>2, <2>4
      <4> QED
        BY <4>2, <4>3
    <3>3. Ordered(h, size, scalars)
      BY <1>0, <3>2 DEF Ordered
    <3> QED
      BY <3>1, <3>3
  <2>5. CASE moves
    <3>1. next = [node |-> p, heap |-> g]
      BY <2>3, <2>5
    <3>2. At(h, scalars, p) <= At(h, scalars, x)
      <4>1. At(h, scalars, x) \in Nat /\ At(h, scalars, p) \in Nat
        BY <1>1, <1>2, <2>1
      <4>2. CASE orequal
        BY <4>1, <4>2, <2>2, <2>5
      <4>3. CASE ~orequal
        BY <4>1, <4>3, <2>2, <2>5
      <4> QED
        BY <4>2, <4>3
    <3>3. /\ HeapFits(g, size, K)
          /\ At(g, scalars, p) = At(h, scalars, x)
          /\ At(g, scalars, x) = At(h, scalars, p)
          /\ \A c \in 0 .. size - 1 : c # p /\ c # x => At(g, scalars, c) = At(h, scalars, c)
      <4>1. p # x
        BY <2>1
      <4>2. g = heap_swap(h, p, x)
        OBVIOUS
      <4> HIDE DEF g, p, x, h, next, moves
      <4> QED
        <5>1. HeapFits(h, size, K) /\ p \in 0 .. size - 1 /\ x \in 0 .. size - 1
          BY <1>0, <1>1, <2>1
        <5>2. HeapFits(g, size, K)
          BY <4>1, <4>2, <5>1, Swapped
        <5>3. At(g, scalars, p) = At(h, scalars, x)
          BY <4>1, <4>2, <5>1, Swapped
        <5>4. At(g, scalars, x) = At(h, scalars, p)
          BY <4>1, <4>2, <5>1, Swapped
        <5>5. \A c \in 0 .. size - 1 : c # p /\ c # x => At(g, scalars, c) = At(h, scalars, c)
          BY <4>1, <4>2, <5>1, Swapped
        <5> QED
          BY <5>2, <5>3, <5>4, <5>5
    <3> HIDE DEF g
    <3>4. ASSUME NEW a \in 1 .. size - 1, a # p
          PROVE  At(g, scalars, a) <= At(g, scalars, Parent(a))
      <4>1. a \in 0 .. size - 1 /\ Parent(a) \in 0 .. size - 1 /\ Parent(a) < a
        BY <1>1, ParentIn
      <4>2. CASE a = x
        BY <4>2, <3>2, <3>3
      <4>3. CASE a # x /\ Parent(a) = x
        <5>1. At(h, scalars, a) <= At(h, scalars, p)
          BY <4>3, <1>0, <2>1
        <5> QED
          BY <5>1, <4>1, <4>3, <3>3, <3>4
      <4>4. CASE a # x /\ Parent(a) = p
        <5>1. At(h, scalars, a) <= At(h, scalars, p)
          BY <4>4, <1>0
        <5>2. At(h, scalars, a) <= At(h, scalars, x)
          BY <5>1, <3>2, <4>1, <1>1, <1>2, <2>1
        <5> QED
          BY <5>2, <4>1, <4>4, <3>3, <3>4
      <4>5. CASE a # x /\ Parent(a) # x /\ Parent(a) # p
        BY <4>1, <4>5, <1>0, <3>3, <3>4
      <4> QED
        BY <4>2, <4>3, <4>4, <4>5
    <3>5. ASSUME NEW a \in 1 .. size - 1, p > 0, Parent(a) = p
          PROVE  At(g, scalars, a) <= At(g, scalars, Parent(p))
      <4>1. a \in 0 .. size - 1 /\ Parent(p) \in 0 .. size - 1 /\ Parent(p) < p /\ p \in 1 .. size - 1
        <5>1. p \in 1 .. size - 1 /\ size \in Nat
          BY <1>1, <2>1, <3>5
        <5> HIDE DEF p
        <5>2. Parent(p) \in 0 .. size - 1 /\ Parent(p) < p
          BY <5>1, ParentIn
        <5> QED
          BY <5>1, <5>2
      <4>2. At(g, scalars, Parent(p)) = At(h, scalars, Parent(p))
        BY <4>1, <2>1, <3>3
      <4>3. At(h, scalars, p) <= At(h, scalars, Parent(p))
        BY <4>1, <1>0, <2>1
      <4>4. CASE a = x
        BY <4>2, <4>3, <4>4, <3>3
      <4>5. CASE a # x
        <5>1. At(h, scalars, a) <= At(h, scalars, p)
          BY <4>5, <1>0, <3>5
        <5>2. a # p
          <6>1. a \in Nat /\ a > 0
            BY <1>1
          <6> QED
            BY <6>1, <3>5, Parents
        <5>3. At(g, scalars, a) = At(h, scalars, a)
          BY <4>1, <4>5, <5>2, <3>3
        <5>4. At(h, scalars, a) \in Nat /\ At(h, scalars, p) \in Nat /\ At(h, scalars, Parent(p)) \in Nat
          BY <1>2, <2>1, <4>1
        <5> QED
          BY <5>1, <5>3, <5>4, <4>2, <4>3
      <4> QED
        BY <4>4, <4>5
    <3>6. next \in [node : 0 .. size - 1, heap : [0 .. K -> 0 .. K]]
      <4>1. g \in [0 .. K -> 0 .. K]
        BY <3>3 DEF HeapFits
      <4> QED
        BY <3>1, <4>1, <2>1
    <3>7. next.node = p /\ next.heap = g
      BY <3>1
    <3> HIDE DEF next
    <3>8. UpFits(next, size, K, scalars)
      BY <3>3, <3>4, <3>5, <3>6, <3>7 DEF UpFits
    <3> QED
      BY <3>7, <3>8, <2>1 DEF next
  <2> QED
    BY <2>4, <2>5
<1> QED
  BY <1>3, <1>4

\* All the way up the heap is in order again.
LEMMA SiftUpFits ==
  ASSUME ShapeFits, KeepPromise(Scalars), NEW K, NEW size, NEW scalars, NEW l,
         Comparable(scalars, size, K, l), NEW start, UpFits(start, size, K, scalars),
         NEW orequal \in BOOLEAN
  PROVE  /\ HeapFits(SiftUp(start, scalars, l, orequal), size, K)
         /\ Ordered(SiftUp(start, scalars, l, orequal), size, scalars)
<1> DEFINE V == {at \in [node : 0 .. size - 1, heap : [0 .. K -> 0 .. K]] :
                   UpFits(at, size, K, scalars)}
           Up(at) == MoveUp(at, scalars, l, orequal)
           N == start.node
           F == [p \in (0 + 1 .. N) \X V |-> Up(p[2])]
<1>1. N \in Nat /\ start \in V /\ size \in Nat
  <2>1. start \in [node : 0 .. size - 1, heap : [0 .. K -> 0 .. K]] /\ size \in 0 .. K + 1
        /\ K \in Nat
    BY DEF UpFits, HeapFits
  <2> QED
    BY SMTT(40), <2>1
<1>2. ASSUME NEW at \in V
      PROVE  /\ Up(at) \in V
             /\ \/ at.node > 0 /\ Up(at).node < at.node
                \/ Up(at) = at /\ Ordered(at.heap, size, scalars)
  <2>1. UpFits(at, size, K, scalars)
    OBVIOUS
  <2>2. /\ UpFits(Up(at), size, K, scalars)
        /\ \/ at.node > 0 /\ Up(at).node < at.node
           \/ Up(at) = at /\ Ordered(at.heap, size, scalars)
    BY <2>1, MoveUpFits
  <2>3. Up(at) \in [node : 0 .. size - 1, heap : [0 .. K -> 0 .. K]]
    BY <2>2 DEF UpFits
  <2> HIDE DEF Up
  <2> QED
    BY <2>2, <2>3
<1>3. \A at \in V : at.node \in Nat /\ HeapFits(at.heap, size, K)
  BY <1>1 DEF UpFits
<1> HIDE DEF V, Up
<1>4. Rounds(F, V, 0, N)
  <2>1. \A p \in (0 + 1 .. N) \X V : Up(p[2]) \in V
    BY <1>2
  <2>2. F \in [(0 + 1 .. N) \X V -> V]
    BY <2>1
  <2> HIDE DEF F, N
  <2> QED
    BY <2>2, <1>1 DEF Rounds
<1>5. \A n \in 0 + 1 .. N, v \in V : F[<<n, v>>] = Up(v)
  OBVIOUS
<1> HIDE DEF F
<1>6. PICK h : Runs(h, F, V, 0, N, start)
  BY <1>1, <1>4, LoopExists
<1>7. h = [r \in 0 .. N |-> IF r = 0 THEN start ELSE Up(h[r - 1])]
  <2>1. /\ h \in [0 .. N -> V] /\ h[0] = start
        /\ \A n \in 0 + 1 .. N : h[n] = F[<<n, h[n - 1]>>]
    BY <1>6 DEF Runs
  <2> HIDE DEF N
  <2>2. \A r \in 0 .. N : h[r] = IF r = 0 THEN start ELSE Up(h[r - 1])
    <3> TAKE r \in 0 .. N
    <3>1. CASE r = 0
      BY <2>1, <3>1
    <3>2. CASE r # 0
      <4>1. r \in 0 + 1 .. N /\ h[r - 1] \in V
        BY <2>1, <3>2, <1>1
      <4> QED
        BY <2>1, <4>1, <1>5, <3>2
    <3> QED
      BY <3>1, <3>2
  <2> QED
    BY <2>1, <2>2
<1> DEFINE u == CHOOSE up : up = [r \in 0 .. N |-> IF r = 0 THEN start ELSE Up(up[r - 1])]
<1>8. u = [r \in 0 .. N |-> IF r = 0 THEN start ELSE Up(u[r - 1])]
  BY <1>7
<1>9. SiftUp(start, scalars, l, orequal) = u[N].heap
  BY DEF SiftUp, Up
<1> HIDE DEF u, N
<1>10. u = [n \in 0 .. N |-> u[n]] /\ u[0] = start
       /\ \A n \in 0 + 1 .. N : u[n] = Up(u[n - 1])
  BY <1>8, <1>1
<1>11. Runs(u, F, V, 0, N, start)
  <2>1. \A n \in 0 + 1 .. N : u[n - 1] \in V => u[n] = F[<<n, u[n - 1]>>]
    BY <1>5, <1>10
  <2> QED
    BY <2>1, <1>1, <1>4, <1>10, LoopIs
<1>12. \A n \in 0 .. N : u[n] \in V
  BY <1>11 DEF Runs
<1> DEFINE T == {r \in 0 .. N : \/ u[r].node <= N - r
                                \/ Ordered(u[r].heap, size, scalars) /\ Up(u[r]) = u[r]}
<1>13. 0 \in T
  BY <1>1, <1>10 DEF N
<1>14. \A n \in 0 + 1 .. N : n - 1 \in T => n \in T
  <2> TAKE n \in 0 + 1 .. N
  <2> HAVE n - 1 \in T
  <2>1. /\ u[n - 1] \in V /\ u[n] = Up(u[n - 1]) /\ u[n] \in V
        /\ \/ u[n - 1].node <= N - (n - 1)
           \/ Ordered(u[n - 1].heap, size, scalars) /\ Up(u[n - 1]) = u[n - 1]
    <3>1. n \in 0 .. N /\ n - 1 \in 0 .. N
      BY <1>1
    <3>2. \/ u[n - 1].node <= N - (n - 1)
          \/ Ordered(u[n - 1].heap, size, scalars) /\ Up(u[n - 1]) = u[n - 1]
      OBVIOUS
    <3> QED
      BY <3>1, <3>2, <1>10, <1>12
  <2>2. u[n - 1].node \in Nat /\ u[n].node \in Nat
    BY <2>1, <1>3
  <2>3. \/ u[n - 1].node > 0 /\ u[n].node < u[n - 1].node
        \/ u[n] = u[n - 1] /\ Ordered(u[n - 1].heap, size, scalars)
    BY <2>1, <1>2
  <2>4. CASE Up(u[n - 1]) = u[n - 1] /\ Ordered(u[n - 1].heap, size, scalars)
    <3>1. u[n] = u[n - 1]
      BY <2>1, <2>4
    <3> QED
      BY <2>4, <3>1
  <2>5. CASE ~(Up(u[n - 1]) = u[n - 1] /\ Ordered(u[n - 1].heap, size, scalars))
    <3>1. u[n - 1].node <= N - (n - 1) /\ u[n].node < u[n - 1].node
      BY <2>1, <2>3, <2>5
    <3>2. u[n].node <= N - n
      BY <3>1, <2>2, <1>1
    <3> QED
      BY <3>2
  <2> QED
    BY <2>4, <2>5
<1> HIDE DEF T
<1>15. N \in T
  <2>1. \A n \in 0 .. N : n \in T
    BY <1>1, <1>13, <1>14, InductionUp
  <2> QED
    BY <2>1, <1>1
<1>16. u[N] \in V /\ u[N].node \in Nat /\ HeapFits(u[N].heap, size, K)
  BY <1>1, <1>3, <1>12
<1>17. Ordered(u[N].heap, size, scalars)
  <2>1. CASE u[N].node <= N - N
    <3>1. ~(u[N].node > 0)
      BY <2>1, <1>1, <1>16
    <3> QED
      BY <3>1, <1>2, <1>16
  <2>2. CASE Ordered(u[N].heap, size, scalars)
    BY <2>2
  <2> QED
    BY <1>15, <2>1, <2>2 DEF T
<1> QED
  BY <1>9, <1>16, <1>17

\* On the way down only the children of the node may be larger than it, and its parent
\* is no smaller than they are.
DownFits(at, size, K, scalars) ==
  /\ at \in [node : 0 .. size - 1, heap : [0 .. K -> 0 .. K]]
  /\ HeapFits(at.heap, size, K)
  /\ \A a \in 1 .. size - 1 :
       /\ a # at.node /\ Parent(a) # at.node =>
            At(at.heap, scalars, a) <= At(at.heap, scalars, Parent(a))
       /\ at.node > 0 /\ Parent(a) = at.node =>
            At(at.heap, scalars, a) <= At(at.heap, scalars, Parent(at.node))

Larger(at, scalars, l) ==
  IF lt256(scalars[at.heap[2 * at.node + 1]], scalars[at.heap[2 * at.node + 1 + 1]], l)
  THEN 2 * at.node + 1 + 1 ELSE 2 * at.node + 1

\* The node that a step down goes to is the child that is no smaller than the other.
LEMMA LargerChild ==
  ASSUME ShapeFits, KeepPromise(Scalars), NEW K, NEW size, NEW scalars, NEW l,
         Comparable(scalars, size, K, l), NEW at, HeapFits(at.heap, size, K),
         at.node \in Nat, 2 * at.node + 2 < size
  PROVE  /\ Larger(at, scalars, l) \in 1 .. size - 1
         /\ Larger(at, scalars, l) > at.node
         /\ Parent(Larger(at, scalars, l)) = at.node
         /\ \A a \in 1 .. size - 1 : Parent(a) = at.node =>
              At(at.heap, scalars, a) <= At(at.heap, scalars, Larger(at, scalars, l))
<1> DEFINE x == at.node
           y == 2 * x + 1
           z == 2 * x + 2
           h == at.heap
           c == Larger(at, scalars, l)
<1>1. /\ x \in Nat /\ size \in Nat
      /\ y \in 0 .. size - 1 /\ z \in 0 .. size - 1 /\ 2 * x + 1 + 1 = z /\ y > x /\ z > x /\ y > 0
      /\ scalars \in [0 .. K -> Scalars]
  <2>1. size \in Nat
    BY DEF HeapFits
  <2> QED
    BY <2>1 DEF Comparable
<1>2. Parent(y) = x /\ Parent(z) = x
  BY <1>1, Parents
<1>3. \A a \in 1 .. size - 1 : Parent(a) = x => a = y \/ a = z
  <2> TAKE a \in 1 .. size - 1
  <2>1. a \in Nat /\ a > 0
    OBVIOUS
  <2>2. a = 2 * Parent(a) + 1 \/ a = 2 * Parent(a) + 2
    BY <2>1, Parents
  <2> QED
    BY <2>2
<1> HIDE DEF y, z
<1>4. c = IF lt256(scalars[h[y]], scalars[h[z]], l) THEN z ELSE y
  <2>1. 2 * at.node + 1 = y
    BY DEF y
  <2> QED
    BY <1>1, <2>1 DEF Larger
<1> HIDE DEF h, x, c
<1>5. HeapFits(h, size, K)
  BY DEF h
<1>6. lt256(scalars[h[y]], scalars[h[z]], l) <=> At(h, scalars, y) < At(h, scalars, z)
  BY <1>1, <1>5, Compared
<1>7. At(h, scalars, y) \in Nat /\ At(h, scalars, z) \in Nat
  BY <1>1, <1>5, AtType
<1>8. c \in 1 .. size - 1 /\ c > x /\ Parent(c) = x
  BY <1>1, <1>2, <1>4
<1>9. At(h, scalars, y) <= At(h, scalars, c) /\ At(h, scalars, z) <= At(h, scalars, c)
  BY <1>4, <1>6, <1>7
<1>10. \A a \in 1 .. size - 1 : Parent(a) = x => At(h, scalars, a) <= At(h, scalars, c)
  BY <1>3, <1>9
<1> QED
  BY <1>8, <1>10 DEF x, h, c

\* A step down keeps what is right about the heap, and goes on to the bottom.
LEMMA MoveDownFits ==
  ASSUME ShapeFits, KeepPromise(Scalars), NEW K, NEW size, NEW scalars, NEW l,
         Comparable(scalars, size, K, l), NEW at, DownFits(at, size, K, scalars)
  PROVE  LET next == MoveDown(at, size, scalars, l) IN
         /\ DownFits(next, size, K, scalars)
         /\ \/ next.node > at.node
            \/ next = at /\ 2 * at.node + 2 >= size
<1> DEFINE x == at.node
           h == at.heap
           c == Larger(at, scalars, l)
           g == heap_swap(h, x, c)
           next == MoveDown(at, size, scalars, l)
<1>0. /\ at \in [node : 0 .. size - 1, heap : [0 .. K -> 0 .. K]]
      /\ HeapFits(h, size, K)
      /\ \A a \in 1 .. size - 1 :
           /\ a # x /\ Parent(a) # x => At(h, scalars, a) <= At(h, scalars, Parent(a))
           /\ x > 0 /\ Parent(a) = x => At(h, scalars, a) <= At(h, scalars, Parent(x))
  BY DEF DownFits
<1>1. K \in Nat /\ size \in Nat /\ x \in 0 .. size - 1 /\ x \in Nat
      /\ scalars \in [0 .. K -> Scalars]
  <2>1. K \in Nat /\ size \in 0 .. K + 1
    BY <1>0 DEF HeapFits
  <2>2. x \in 0 .. size - 1
    BY <1>0
  <2> QED
    BY <2>1, <2>2 DEF Comparable
<1>2. \A a \in 0 .. size - 1 : At(h, scalars, a) \in Nat
  BY <1>0, <1>1, AtType
<1>3. next = IF 2 * x + 1 + 1 >= size THEN at ELSE [node |-> c, heap |-> g]
  BY DEF MoveDown, Larger
<1>4. CASE 2 * x + 2 >= size
  <2>1. next = at
    BY <1>1, <1>3, <1>4
  <2> QED
    BY <2>1, <1>4
<1>5. CASE 2 * x + 2 < size
  <2>1. next = [node |-> c, heap |-> g]
    BY <1>1, <1>3, <1>5
  <2>2. /\ c \in 1 .. size - 1 /\ c > x /\ Parent(c) = x
        /\ \A a \in 1 .. size - 1 : Parent(a) = x => At(h, scalars, a) <= At(h, scalars, c)
    <3>1. HeapFits(at.heap, size, K) /\ at.node \in Nat /\ 2 * at.node + 2 < size
      BY <1>0, <1>1, <1>5
    <3>2. Larger(at, scalars, l) \in 1 .. size - 1
      BY <3>1, LargerChild
    <3>3. Larger(at, scalars, l) > at.node
      BY <3>1, LargerChild
    <3>4. Parent(Larger(at, scalars, l)) = at.node
      BY <3>1, LargerChild
    <3>5. \A a \in 1 .. size - 1 : Parent(a) = at.node =>
            At(at.heap, scalars, a) <= At(at.heap, scalars, Larger(at, scalars, l))
      BY <3>1, LargerChild
    <3> QED
      BY <3>2, <3>3, <3>4, <3>5
  <2>3. c \in 0 .. size - 1 /\ x # c /\ c \in Nat
    BY <1>1, <2>2
  <2>4. g = heap_swap(h, x, c)
    OBVIOUS
  <2>5. next.node = c /\ next.heap = g
    BY <2>1
  <2> HIDE DEF g, c, x, h, next
  <2>5a. /\ HeapFits(h, size, K) /\ x \in 0 .. size - 1 /\ c \in 0 .. size - 1
         /\ x # c /\ g = heap_swap(h, x, c)
    BY <1>0, <1>1, <2>3, <2>4
  <2>6. HeapFits(g, size, K)
    BY <2>5a, Swapped
  <2>7. At(g, scalars, x) = At(h, scalars, c)
    BY <2>5a, Swapped
  <2>8. At(g, scalars, c) = At(h, scalars, x)
    BY <2>5a, Swapped
  <2>9. \A a \in 0 .. size - 1 : a # x /\ a # c => At(g, scalars, a) = At(h, scalars, a)
    BY <2>5a, Swapped
  <2>10. ASSUME NEW a \in 1 .. size - 1, a # c, Parent(a) # c
         PROVE  At(g, scalars, a) <= At(g, scalars, Parent(a))
    <3>1. a \in 0 .. size - 1 /\ Parent(a) \in 0 .. size - 1 /\ Parent(a) < a
      BY <1>1, ParentIn
    <3>2. CASE a = x
      <4>1. At(h, scalars, c) <= At(h, scalars, Parent(x))
        BY <3>2, <1>0, <1>1, <2>2
      <4>2. Parent(x) # x /\ Parent(x) # c
        BY <3>1, <3>2, <2>10
      <4>3. At(g, scalars, Parent(x)) = At(h, scalars, Parent(x))
        BY <4>2, <3>1, <3>2, <2>9
      <4> QED
        BY <4>1, <4>3, <2>7, <3>2
    <3>3. CASE a # x /\ Parent(a) = x
      <4>1. At(g, scalars, a) = At(h, scalars, a)
        BY <3>1, <3>3, <2>9, <2>10
      <4> QED
        BY <4>1, <3>3, <2>2, <2>7
    <3>4. CASE a # x /\ Parent(a) # x
      <4>1. /\ At(g, scalars, a) = At(h, scalars, a)
            /\ At(g, scalars, Parent(a)) = At(h, scalars, Parent(a))
        BY <3>1, <3>4, <2>9, <2>10
      <4> QED
        BY <4>1, <3>4, <1>0
    <3> QED
      BY <3>2, <3>3, <3>4
  <2>11. ASSUME NEW a \in 1 .. size - 1, Parent(a) = c
         PROVE  At(g, scalars, a) <= At(g, scalars, Parent(c))
    <3>1. a \in 0 .. size - 1 /\ Parent(a) < a
      BY <1>1, ParentIn
    <3>2. a # c /\ a # x
      BY <3>1, <2>2, <2>3, <2>11, <1>1
    <3>3. At(g, scalars, a) = At(h, scalars, a)
      BY <3>1, <3>2, <2>9
    <3>4. At(h, scalars, a) <= At(h, scalars, c)
      BY <3>2, <2>11, <2>3, <1>0
    <3> QED
      BY <3>3, <3>4, <2>2, <2>7
  <2>12. next \in [node : 0 .. size - 1, heap : [0 .. K -> 0 .. K]]
    <3>1. g \in [0 .. K -> 0 .. K]
      BY <2>6 DEF HeapFits
    <3> QED
      BY <2>1, <2>3, <3>1
  <2>13. DownFits(next, size, K, scalars)
    BY <2>5, <2>6, <2>10, <2>11, <2>12 DEF DownFits
  <2> QED
    BY <2>2, <2>5, <2>13 DEF next, x
<1> QED
  BY <1>1, <1>4, <1>5

\* At the bottom of a heap whose nodes have two children or none, the way up begins.
LEMMA BottomFits ==
  ASSUME NEW K, NEW size, NEW scalars, NEW at, DownFits(at, size, K, scalars),
         size % 2 = 1, 2 * at.node + 2 >= size
  PROVE  UpFits(at, size, K, scalars)
<1>0. /\ at \in [node : 0 .. size - 1, heap : [0 .. K -> 0 .. K]]
      /\ HeapFits(at.heap, size, K)
  BY DEF DownFits
<1>1. size \in Nat /\ at.node \in Nat
  <2>1. K \in Nat /\ size \in 0 .. K + 1
    BY <1>0 DEF HeapFits
  <2> QED
    BY <2>1, <1>0
<1>2. \A a \in 1 .. size - 1 : Parent(a) # at.node
  <2> TAKE a \in 1 .. size - 1
  <2>1. a \in Nat /\ a > 0
    OBVIOUS
  <2>2. a = 2 * Parent(a) + 1 \/ a = 2 * Parent(a) + 2
    BY <2>1, Parents
  <2>3. a <= size - 1
    OBVIOUS
  <2> QED
    BY <1>1, <2>1, <2>2, <2>3
<1>3. \A a \in 1 .. size - 1 : a # at.node =>
        At(at.heap, scalars, a) <= At(at.heap, scalars, Parent(a))
  BY <1>2 DEF DownFits
<1> QED
  BY <1>0, <1>2, <1>3 DEF UpFits

\* The way down ends with the heap in order but for the node that came down.
LEMMA SiftDownFits ==
  ASSUME ShapeFits, KeepPromise(Scalars), NEW K, NEW size, NEW scalars, NEW l,
         Comparable(scalars, size, K, l), NEW heap,
         DownFits([node |-> 0, heap |-> heap], size, K, scalars), size % 2 = 1
  PROVE  UpFits(SiftDown(heap, size, scalars, l), size, K, scalars)
<1> DEFINE V == {at \in [node : 0 .. size - 1, heap : [0 .. K -> 0 .. K]] :
                   DownFits(at, size, K, scalars)}
           start == [node |-> 0, heap |-> heap]
           Down(at) == MoveDown(at, size, scalars, l)
           F == [p \in (0 + 1 .. size) \X V |-> Down(p[2])]
<1>1. start \in V /\ size \in Nat
  <2>1. start \in [node : 0 .. size - 1, heap : [0 .. K -> 0 .. K]] /\ size \in 0 .. K + 1
        /\ K \in Nat
    BY DEF DownFits, HeapFits
  <2> QED
    BY <2>1
<1>2. ASSUME NEW at \in V
      PROVE  /\ Down(at) \in V
             /\ \/ Down(at).node > at.node
                \/ Down(at) = at /\ 2 * at.node + 2 >= size
  <2>1. DownFits(at, size, K, scalars)
    OBVIOUS
  <2>2. /\ DownFits(Down(at), size, K, scalars)
        /\ \/ Down(at).node > at.node
           \/ Down(at) = at /\ 2 * at.node + 2 >= size
    BY <2>1, MoveDownFits
  <2>3. Down(at) \in [node : 0 .. size - 1, heap : [0 .. K -> 0 .. K]]
    BY <2>2 DEF DownFits
  <2> HIDE DEF Down
  <2> QED
    BY <2>2, <2>3
<1>3. \A at \in V : at.node \in 0 .. size - 1 /\ DownFits(at, size, K, scalars)
  BY <1>1 DEF DownFits
<1> HIDE DEF V, Down
<1>4. Rounds(F, V, 0, size)
  <2>1. \A p \in (0 + 1 .. size) \X V : Down(p[2]) \in V
    BY <1>2
  <2>2. F \in [(0 + 1 .. size) \X V -> V]
    BY <2>1
  <2> HIDE DEF F
  <2> QED
    BY <2>2, <1>1 DEF Rounds
<1>5. \A n \in 0 + 1 .. size, v \in V : F[<<n, v>>] = Down(v)
  OBVIOUS
<1> HIDE DEF F
<1>6. PICK h : Runs(h, F, V, 0, size, start)
  <2> HIDE DEF start
  <2> QED
    BY <1>1, <1>4, LoopExists
<1>7. h = [r \in 0 .. size |-> IF r = 0 THEN start ELSE Down(h[r - 1])]
  <2> HIDE DEF start
  <2>1. /\ h \in [0 .. size -> V] /\ h[0] = start
        /\ \A n \in 0 + 1 .. size : h[n] = F[<<n, h[n - 1]>>]
    BY <1>6 DEF Runs
  <2>2. \A r \in 0 .. size : h[r] = IF r = 0 THEN start ELSE Down(h[r - 1])
    <3> TAKE r \in 0 .. size
    <3>1. CASE r = 0
      BY <2>1, <3>1
    <3>2. CASE r # 0
      <4>1. r \in 0 + 1 .. size /\ h[r - 1] \in V
        BY <2>1, <3>2, <1>1
      <4> QED
        BY <2>1, <4>1, <1>5, <3>2
    <3> QED
      BY <3>1, <3>2
  <2> QED
    BY <2>1, <2>2
<1> DEFINE u == CHOOSE down : down = [r \in 0 .. size |-> IF r = 0 THEN start ELSE Down(down[r - 1])]
<1>8. u = [r \in 0 .. size |-> IF r = 0 THEN start ELSE Down(u[r - 1])]
  BY <1>7
<1>9. SiftDown(heap, size, scalars, l) = u[size]
  BY DEF SiftDown, Down
<1>10. start.node = 0
  OBVIOUS
<1> HIDE DEF u, start
<1>11. u = [n \in 0 .. size |-> u[n]] /\ u[0] = start
       /\ \A n \in 0 + 1 .. size : u[n] = Down(u[n - 1])
  BY <1>8, <1>1
<1>12. Runs(u, F, V, 0, size, start)
  <2>1. \A n \in 0 + 1 .. size : u[n - 1] \in V => u[n] = F[<<n, u[n - 1]>>]
    BY <1>5, <1>11
  <2> QED
    BY <2>1, <1>1, <1>4, <1>11, LoopIs
<1>13. \A n \in 0 .. size : u[n] \in V
  BY <1>12 DEF Runs
<1> DEFINE T == {r \in 0 .. size : \/ u[r].node >= r
                                   \/ 2 * u[r].node + 2 >= size /\ Down(u[r]) = u[r]}
<1>14. 0 \in T
  BY <1>1, <1>10, <1>11
<1>15. \A n \in 0 + 1 .. size : n - 1 \in T => n \in T
  <2> TAKE n \in 0 + 1 .. size
  <2> HAVE n - 1 \in T
  <2>1. n \in 0 .. size /\ n - 1 \in 0 .. size
    BY <1>1
  <2>2. \/ u[n - 1].node >= n - 1
        \/ 2 * u[n - 1].node + 2 >= size /\ Down(u[n - 1]) = u[n - 1]
    OBVIOUS
  <2>3. u[n - 1] \in V /\ u[n] = Down(u[n - 1]) /\ u[n] \in V
    BY <2>1, <1>11, <1>13
  <2>4. u[n - 1].node \in 0 .. size - 1 /\ u[n].node \in 0 .. size - 1
    BY <2>3, <1>3
  <2>5. \/ u[n].node > u[n - 1].node
        \/ u[n] = u[n - 1] /\ 2 * u[n - 1].node + 2 >= size
    BY <2>3, <1>2
  <2>6. CASE Down(u[n - 1]) = u[n - 1] /\ 2 * u[n - 1].node + 2 >= size
    <3>1. u[n] = u[n - 1]
      BY <2>3, <2>6
    <3> QED
      BY <2>6, <3>1
  <2>7. CASE ~(Down(u[n - 1]) = u[n - 1] /\ 2 * u[n - 1].node + 2 >= size)
    <3>1. u[n - 1].node >= n - 1 /\ u[n].node > u[n - 1].node
      BY <2>2, <2>3, <2>5, <2>7
    <3>2. u[n].node >= n
      BY <3>1, <2>4, <1>1
    <3> QED
      BY <3>2
  <2> QED
    BY <2>6, <2>7
<1> HIDE DEF T
<1>16. size \in T
  <2>1. \A n \in 0 .. size : n \in T
    BY <1>1, <1>14, <1>15, InductionUp
  <2> QED
    BY <2>1, <1>1
<1>17. u[size].node \in 0 .. size - 1 /\ DownFits(u[size], size, K, scalars)
  BY <1>1, <1>3, <1>13
<1>18. 2 * u[size].node + 2 >= size
  <2>1. ~(u[size].node >= size)
    BY <1>1, <1>17
  <2> QED
    BY <1>16, <2>1 DEF T
<1> QED
  BY <1>9, <1>17, <1>18, BottomFits

\* The root's scalar has become smaller: the heap is put in order.
LEMMA UpdatedRoot ==
  ASSUME ShapeFits, KeepPromise(Scalars), NEW K, NEW size, NEW scalars, NEW l,
         Comparable(scalars, size, K, l), NEW heap, HeapFits(heap, size, K),
         size % 2 = 1,
         \A a \in 1 .. size - 1 : Parent(a) # 0 =>
           At(heap, scalars, a) <= At(heap, scalars, Parent(a))
  PROVE  /\ HeapFits(heap_updated_root(heap, size, scalars, l), size, K)
         /\ Ordered(heap_updated_root(heap, size, scalars, l), size, scalars)
<1> DEFINE at == [node |-> 0, heap |-> heap]
<1>1. size \in Nat /\ heap \in [0 .. K -> 0 .. K] /\ K \in Nat
  BY DEF HeapFits
<1>2. 0 \in 0 .. size - 1
  BY <1>1
<1>3. at.node = 0 /\ at.heap = heap /\ at \in [node : 0 .. size - 1, heap : [0 .. K -> 0 .. K]]
  BY <1>1, <1>2
<1> HIDE DEF at
<1>4. DownFits(at, size, K, scalars)
  BY <1>3 DEF DownFits
<1>5. UpFits(SiftDown(heap, size, scalars, l), size, K, scalars)
  BY <1>4, SiftDownFits DEF at
<1> QED
  BY <1>5, SiftUpFits DEF heap_updated_root

\* heap_insert_next puts the next scalar into a heap in order, and leaves it in order.
LEMMA InsertNext ==
  ASSUME ShapeFits, KeepPromise(Scalars), NEW K, NEW size, NEW scalars \in [0 .. K -> Scalars],
         NEW heap, HeapFits(heap, size, K), Ordered(heap, size, scalars), size <= K
  PROVE  /\ HeapFits(heap_insert_next(heap, size, scalars), size + 1, K)
         /\ Ordered(heap_insert_next(heap, size, scalars), size + 1, scalars)
<1> DEFINE h == [heap EXCEPT ![size] = size]
           at == [node |-> size, heap |-> h]
           l == SIZE - 1
<1>1. /\ K \in Nat /\ size \in Nat /\ size \in 0 .. K
      /\ heap \in [0 .. K -> 0 .. K]
      /\ \A a \in 0 .. size - 1 : heap[a] \in 0 .. size - 1
      /\ \A a, b \in 0 .. size - 1 : heap[a] = heap[b] => a = b
      /\ \A i \in 0 .. size - 1 : \E a \in 0 .. size - 1 : heap[a] = i
  BY DEF HeapFits
<1>2. /\ h \in [0 .. K -> 0 .. K] /\ h[size] = size
      /\ \A a \in 0 .. size - 1 : h[a] = heap[a]
  BY <1>1
<1>3. at.node = size /\ at.heap = h /\ at \in [node : 0 .. (size + 1) - 1, heap : [0 .. K -> 0 .. K]]
  BY <1>1, <1>2
<1> HIDE DEF h, at
<1>4. \A a \in 0 .. (size + 1) - 1 : a = size \/ a \in 0 .. size - 1
  BY <1>1
<1>5. HeapFits(h, size + 1, K)
  <2>1. ASSUME NEW a \in 0 .. (size + 1) - 1 PROVE h[a] \in 0 .. (size + 1) - 1
    <3>1. CASE a = size
      BY <3>1, <1>1, <1>2
    <3>2. CASE a # size
      <4>1. h[a] \in 0 .. size - 1
        BY <3>2, <1>1, <1>2, <1>4
      <4> QED
        BY SMTT(40), <4>1, <1>1
    <3> QED
      BY <3>1, <3>2
  <2>2. ASSUME NEW a \in 0 .. (size + 1) - 1, NEW b \in 0 .. (size + 1) - 1, h[a] = h[b] PROVE a = b
    <3>1. CASE a = size /\ b # size
      BY <3>1, <2>2, <1>1, <1>2, <1>4
    <3>2. CASE a # size /\ b = size
      BY <3>2, <2>2, <1>1, <1>2, <1>4
    <3>3. CASE a # size /\ b # size
      BY <3>3, <2>2, <1>1, <1>2, <1>4
    <3> QED
      BY <3>1, <3>2, <3>3
  <2>3. ASSUME NEW i \in 0 .. (size + 1) - 1 PROVE \E a \in 0 .. (size + 1) - 1 : h[a] = i
    <3>1. CASE i = size
      BY <3>1, <1>2
    <3>2. CASE i # size
      <4>1. PICK a \in 0 .. size - 1 : heap[a] = i
        BY <3>2, <1>1, <1>4
      <4>2. a \in 0 .. (size + 1) - 1 /\ h[a] = i
        BY <4>1, <1>1, <1>2
      <4> QED
        BY <4>2
    <3> QED
      BY <3>1, <3>2
  <2>4. size + 1 \in 0 .. K + 1
    BY <1>1
  <2> QED
    BY <1>1, <1>2, <2>1, <2>2, <2>3, <2>4 DEF HeapFits
<1>6. ASSUME NEW a \in 1 .. (size + 1) - 1, a # size
      PROVE  At(h, scalars, a) <= At(h, scalars, Parent(a))
  <2>1. a \in 1 .. size - 1
    BY <1>1, <1>6
  <2>2. a \in 0 .. size - 1 /\ Parent(a) \in 0 .. size - 1
    BY <2>1, <1>1, ParentIn
  <2>3. At(heap, scalars, a) <= At(heap, scalars, Parent(a))
    BY <2>1 DEF Ordered
  <2> QED
    BY <2>2, <2>3, <1>2 DEF At
<1>7. ASSUME NEW a \in 1 .. (size + 1) - 1 PROVE Parent(a) # size
  <2>1. a \in 1 .. (size + 1) - 1 /\ size + 1 \in Nat /\ a <= size
    BY <1>1
  <2>2. Parent(a) < a /\ Parent(a) \in 0 .. (size + 1) - 1
    BY <2>1, ParentIn
  <2> QED
    BY <2>1, <2>2, <1>1
<1>8. UpFits(at, size + 1, K, scalars)
  BY <1>3, <1>5, <1>6, <1>7 DEF UpFits
<1>9. Comparable(scalars, size + 1, K, l)
  <2>1. \A i \in Limb : ~(i > l)
    BY ShapeTypes DEF Limb
  <2>2. l \in Limb
    BY ShapeTypes
  <2> QED
    BY <2>1, <2>2 DEF Comparable, ZeroAbove
<1>10. /\ HeapFits(SiftUp(at, scalars, l, FALSE), size + 1, K)
       /\ Ordered(SiftUp(at, scalars, l, FALSE), size + 1, scalars)
  <2> HIDE DEF l
  <2>1. FALSE \in BOOLEAN
    OBVIOUS
  <2> QED
    BY <1>8, <1>9, <2>1, SiftUpFits
<1> QED
  BY <1>10 DEF heap_insert_next, at, h

\* heap_build and heap_extend leave the heap in order.
LEMMA HeapExtended ==
  ASSUME ShapeFits, KeepPromise(Scalars), NEW K, NEW size, NEW scalars \in [0 .. K -> Scalars],
         NEW heap, HeapFits(heap, size, K), Ordered(heap, size, scalars),
         NEW newcount \in size .. K + 1
  PROVE  /\ HeapFits(heap_extend(heap, size, newcount, scalars), newcount, K)
         /\ Ordered(heap_extend(heap, size, newcount, scalars), newcount, scalars)
<1> DEFINE V == [0 .. K -> 0 .. K]
           Fits(n, h) == HeapFits(h, n, K) /\ Ordered(h, n, scalars)
           Insert(h, n) == heap_insert_next(h, n, scalars)
           F == [p \in (size + 1 .. newcount) \X V |->
                   IF Fits(p[1] - 1, p[2]) THEN Insert(p[2], p[1] - 1) ELSE p[2]]
<1>1. /\ size \in Nat /\ newcount \in Nat /\ size <= newcount /\ K \in Nat
      /\ newcount <= K + 1 /\ heap \in V
  BY DEF HeapFits
<1>2. ASSUME NEW n \in size + 1 .. newcount, NEW h, Fits(n - 1, h) PROVE Fits(n, Insert(h, n - 1))
  <2>1. n - 1 <= K /\ (n - 1) + 1 = n
    BY <1>1
  <2>2. Fits((n - 1) + 1, Insert(h, n - 1))
    BY <1>2, <2>1, InsertNext
  <2> QED
    BY <2>1, <2>2
<1>3. \A n, h : Fits(n, h) => h \in V
  BY DEF HeapFits
<1>4. Fits(size, heap)
  OBVIOUS
<1> HIDE DEF V, Fits, Insert
<1>5. Rounds(F, V, size, newcount)
  <2>1. ASSUME NEW p \in (size + 1 .. newcount) \X V
        PROVE (IF Fits(p[1] - 1, p[2]) THEN Insert(p[2], p[1] - 1) ELSE p[2]) \in V
    <3>1. p[1] \in size + 1 .. newcount /\ p[2] \in V
      OBVIOUS
    <3>2. CASE Fits(p[1] - 1, p[2])
      <4>1. Fits(p[1], Insert(p[2], p[1] - 1))
        BY <3>1, <3>2, <1>2
      <4> QED
        BY <4>1, <3>2, <1>3
    <3> QED
      BY <3>1, <3>2
  <2>2. F \in [(size + 1 .. newcount) \X V -> V]
    BY <2>1
  <2> HIDE DEF F
  <2> QED
    BY <2>2, <1>1 DEF Rounds
<1>6. \A n \in size + 1 .. newcount, v \in V : Fits(n - 1, v) => F[<<n, v>>] = Insert(v, n - 1)
  OBVIOUS
<1> HIDE DEF F
<1>7. ASSUME NEW w, w[size] = heap,
             \A n \in size + 1 .. newcount : Fits(n - 1, w[n - 1]) => w[n] = Insert(w[n - 1], n - 1)
      PROVE  \A n \in size .. newcount : Fits(n, w[n])
  <2> DEFINE T == {n \in size .. newcount : Fits(n, w[n])}
  <2>1. size \in T
    BY <1>1, <1>4, <1>7
  <2>2. \A n \in size + 1 .. newcount : n - 1 \in T => n \in T
    <3> TAKE n \in size + 1 .. newcount
    <3> HAVE n - 1 \in T
    <3>1. n \in size .. newcount
      BY <1>1
    <3>2. Fits(n - 1, w[n - 1])
      OBVIOUS
    <3>3. w[n] = Insert(w[n - 1], n - 1)
      BY <3>2, <1>7
    <3>4. Fits(n, w[n])
      BY <3>2, <3>3, <1>2
    <3> QED
      BY <3>1, <3>4
  <2>3. \A n \in size .. newcount : n \in T
    <3> HIDE DEF T
    <3> QED
      BY <1>1, <2>1, <2>2, InductionUp
  <2> QED
    BY <2>3
<1>8. PICK g : Runs(g, F, V, size, newcount, heap)
  BY <1>1, <1>5, LoopExists
<1>9. /\ g \in [size .. newcount -> V] /\ g[size] = heap
      /\ \A n \in size + 1 .. newcount : g[n] = F[<<n, g[n - 1]>>]
  BY <1>8 DEF Runs
<1>10. \A n \in size + 1 .. newcount : Fits(n - 1, g[n - 1]) => g[n] = Insert(g[n - 1], n - 1)
  <2> TAKE n \in size + 1 .. newcount
  <2> HAVE Fits(n - 1, g[n - 1])
  <2>1. g[n - 1] \in V
    BY <1>3
  <2> QED
    BY <2>1, <1>6, <1>9
<1>11. \A n \in size .. newcount : Fits(n, g[n])
  BY <1>7, <1>9, <1>10
<1>12. g = [n \in size .. newcount |-> IF n = size THEN heap ELSE Insert(g[n - 1], n - 1)]
  <2>1. \A n \in size .. newcount : g[n] = IF n = size THEN heap ELSE Insert(g[n - 1], n - 1)
    <3> TAKE n \in size .. newcount
    <3>1. CASE n = size
      BY <3>1, <1>9
    <3>2. CASE n # size
      <4>1. n \in size + 1 .. newcount /\ n - 1 \in size .. newcount
        BY <3>2, <1>1
      <4> QED
        BY <4>1, <3>2, <1>10, <1>11
    <3> QED
      BY <3>1, <3>2
  <2> QED
    BY <2>1, <1>9
<1> DEFINE u == CHOOSE after : after = [n \in size .. newcount |->
                  IF n = size THEN heap ELSE Insert(after[n - 1], n - 1)]
<1>13. u = [n \in size .. newcount |-> IF n = size THEN heap ELSE Insert(u[n - 1], n - 1)]
  BY <1>12
<1>14. heap_extend(heap, size, newcount, scalars) = u[newcount]
  BY DEF heap_extend, Insert
<1> HIDE DEF u
<1>15. u[size] = heap /\ \A n \in size + 1 .. newcount : u[n] = Insert(u[n - 1], n - 1)
  BY <1>13, <1>1
<1>16. \A n \in size .. newcount : Fits(n, u[n])
  BY <1>7, <1>15
<1>17. Fits(newcount, u[newcount])
  BY <1>16, <1>1
<1> QED
  BY <1>14, <1>17 DEF Fits

\* The root of a heap in order is the largest.
LEMMA RootLargest ==
  ASSUME ShapeFits, NEW K, NEW size, NEW scalars \in [0 .. K -> Scalars],
         NEW heap, HeapFits(heap, size, K), Ordered(heap, size, scalars), size > 0
  PROVE  \A a \in 0 .. size - 1 : At(heap, scalars, a) <= At(heap, scalars, 0)
<1>1. size \in Nat
  BY DEF HeapFits
<1>2. \A a \in 0 .. size - 1 : At(heap, scalars, a) \in Nat
  BY AtType
<1> DEFINE T == {n \in 0 .. size - 1 : \A a \in 0 .. n : At(heap, scalars, a) <= At(heap, scalars, 0)}
<1>3. 0 \in T
  BY <1>1, <1>2
<1>4. \A n \in 0 + 1 .. size - 1 : n - 1 \in T => n \in T
  <2> TAKE n \in 0 + 1 .. size - 1
  <2> HAVE n - 1 \in T
  <2>1. n \in 1 .. size - 1 /\ n \in 0 .. size - 1
    BY <1>1
  <2>2. Parent(n) \in 0 .. size - 1 /\ Parent(n) < n
    BY <1>1, <2>1, ParentIn
  <2>3. Parent(n) \in 0 .. n - 1
    BY <2>2, <2>1, <1>1
  <2>4. At(heap, scalars, Parent(n)) <= At(heap, scalars, 0)
    BY <2>3
  <2>5. At(heap, scalars, n) <= At(heap, scalars, Parent(n))
    BY <2>1 DEF Ordered
  <2>6. At(heap, scalars, n) <= At(heap, scalars, 0)
    <3>1. At(heap, scalars, n) \in Nat /\ At(heap, scalars, Parent(n)) \in Nat /\ At(heap, scalars, 0) \in Nat
      BY <1>1, <1>2, <2>1, <2>2
    <3> QED
      BY <3>1, <2>4, <2>5
  <2>7. \A a \in 0 .. n : a = n \/ a \in 0 .. n - 1
    BY <2>1
  <2> QED
    BY <2>1, <2>6, <2>7
<1>5. \A n \in 0 .. size - 1 : n \in T
  <2>1. 0 \in Int /\ size - 1 \in Int
    BY <1>1
  <2> HIDE DEF T
  <2> QED
    BY <1>3, <1>4, <2>1, InductionUp
<1>6. size - 1 \in T
  BY <1>1, <1>5
<1> QED
  BY <1>6

\* The two largest.
LEMMA Top2 ==
  ASSUME ShapeFits, KeepPromise(Scalars), NEW K, NEW size, NEW scalars, NEW l,
         Comparable(scalars, size, K, l), NEW heap, HeapFits(heap, size, K),
         Ordered(heap, size, scalars), size >= 3
  PROVE  LET top == heap_get_top2(heap, scalars, l) IN
         /\ top[1] = heap[0] /\ top[1] \in 0 .. size - 1 /\ top[2] \in 0 .. size - 1
         /\ top[1] # top[2]
         /\ \A i \in 0 .. size - 1 : Value(scalars[i]) <= Value(scalars[top[1]])
         /\ \A i \in 0 .. size - 1 : i # top[1] => Value(scalars[i]) <= Value(scalars[top[2]])
<1> DEFINE t == IF lt256(scalars[heap[1]], scalars[heap[2]], l) THEN 2 ELSE 1
<1>1. /\ size \in Nat /\ scalars \in [0 .. K -> Scalars] /\ 0 \in 0 .. size - 1
      /\ 1 \in 0 .. size - 1 /\ 2 \in 0 .. size - 1
      /\ \A a \in 0 .. size - 1 : heap[a] \in 0 .. size - 1
      /\ \A a, b \in 0 .. size - 1 : heap[a] = heap[b] => a = b
      /\ \A i \in 0 .. size - 1 : \E a \in 0 .. size - 1 : heap[a] = i
  BY DEF Comparable, HeapFits
<1>2. heap_get_top2(heap, scalars, l) = <<heap[0], heap[t]>>
  BY DEF heap_get_top2
<1>3. \A a \in 0 .. size - 1 : At(heap, scalars, a) \in Nat
  BY <1>1, AtType
<1>4. t \in {1, 2} /\ At(heap, scalars, 1) <= At(heap, scalars, t)
      /\ At(heap, scalars, 2) <= At(heap, scalars, t)
  <2>1. lt256(scalars[heap[1]], scalars[heap[2]], l)
          <=> At(heap, scalars, 1) < At(heap, scalars, 2)
    BY <1>1, Compared
  <2>2. At(heap, scalars, 1) \in Nat /\ At(heap, scalars, 2) \in Nat
    BY <1>1, <1>3
  <2>3. CASE lt256(scalars[heap[1]], scalars[heap[2]], l)
    BY <2>1, <2>2, <2>3
  <2>4. CASE ~lt256(scalars[heap[1]], scalars[heap[2]], l)
    BY <2>1, <2>2, <2>4
  <2> QED
    BY <2>3, <2>4
<1> HIDE DEF t
<1>5. \A a \in 0 .. size - 1 : At(heap, scalars, a) <= At(heap, scalars, 0)
  <2>1. scalars \in [0 .. K -> Scalars] /\ size > 0
    BY <1>1
  <2> QED
    BY <2>1, RootLargest
<1> DEFINE T == {n \in 1 .. size - 1 : \A a \in 1 .. n : At(heap, scalars, a) <= At(heap, scalars, t)}
<1>6. 1 \in T
  BY <1>1, <1>4
<1>7. \A n \in 1 + 1 .. size - 1 : n - 1 \in T => n \in T
  <2> TAKE n \in 1 + 1 .. size - 1
  <2> HAVE n - 1 \in T
  <2>1. n \in 1 .. size - 1 /\ n \in 0 .. size - 1 /\ n \in Nat /\ n > 1
    BY <1>1
  <2>2. Parent(n) \in 0 .. size - 1 /\ Parent(n) < n /\ Parent(n) \in Nat
    BY SMTT(40), <1>1, <2>1, ParentIn
  <2>3. n = 2 * Parent(n) + 1 \/ n = 2 * Parent(n) + 2
    BY <2>1, Parents
  <2>4. At(heap, scalars, n) <= At(heap, scalars, t)
    <3>1. CASE Parent(n) = 0
      <4>1. n = 2
        BY <2>1, <2>3, <3>1
      <4> QED
        BY <4>1, <1>4
    <3>2. CASE Parent(n) # 0
      <4>1. Parent(n) \in 1 .. n - 1
        BY <2>1, <2>2, <3>2
      <4>2. At(heap, scalars, Parent(n)) <= At(heap, scalars, t)
        BY <4>1
      <4>3. At(heap, scalars, n) <= At(heap, scalars, Parent(n))
        BY <2>1 DEF Ordered
      <4>4. At(heap, scalars, n) \in Nat /\ At(heap, scalars, Parent(n)) \in Nat
            /\ At(heap, scalars, t) \in Nat
        BY <1>1, <1>3, <1>4, <2>1, <2>2
      <4> QED
        BY <4>2, <4>3, <4>4
    <3> QED
      BY <3>1, <3>2
  <2>5. \A a \in 1 .. n : a = n \/ a \in 1 .. n - 1
    BY <2>1
  <2> QED
    BY <2>1, <2>4, <2>5
<1>8. \A a \in 1 .. size - 1 : At(heap, scalars, a) <= At(heap, scalars, t)
  <2>1. 1 \in Int /\ size - 1 \in Int /\ size - 1 \in 1 .. size - 1
    BY <1>1
  <2>2. \A n \in 1 .. size - 1 : n \in T
    <3> HIDE DEF T
    <3> QED
      BY <1>6, <1>7, <2>1, InductionUp
  <2>3. size - 1 \in T
    BY <2>1, <2>2
  <2> QED
    BY <2>3
<1>9. ASSUME NEW i \in 0 .. size - 1
      PROVE  /\ Value(scalars[i]) <= Value(scalars[heap[0]])
             /\ i # heap[0] => Value(scalars[i]) <= Value(scalars[heap[t]])
  <2>1. PICK a \in 0 .. size - 1 : heap[a] = i
    BY <1>1
  <2>2. Value(scalars[i]) = At(heap, scalars, a)
    BY <2>1 DEF At
  <2>3. i # heap[0] => a \in 1 .. size - 1
    BY SMTT(40), <2>1, <1>1
  <2>4. At(heap, scalars, 0) = Value(scalars[heap[0]]) /\ At(heap, scalars, t) = Value(scalars[heap[t]])
    BY DEF At
  <2> QED
    BY <2>2, <2>3, <2>4, <1>5, <1>8
<1>10. heap[0] \in 0 .. size - 1 /\ heap[t] \in 0 .. size - 1 /\ heap[0] # heap[t]
  <2>1. t \in 0 .. size - 1 /\ t # 0
    <3>1. t = 1 \/ t = 2
      BY <1>4
    <3>2. 1 \in 0 .. size - 1 /\ 2 \in 0 .. size - 1
      BY <1>1
    <3> HIDE DEF T
    <3> QED
      BY <3>1, <3>2
  <2>2. heap[0] # heap[t]
    BY <2>1, <1>1
  <2> QED
    BY <2>1, <2>2, <1>1
<1> DEFINE top == heap_get_top2(heap, scalars, l)
<1>11. top[1] = heap[0] /\ top[2] = heap[t]
  BY <1>2
<1> HIDE DEF top
<1>12. /\ top[1] = heap[0] /\ top[1] \in 0 .. size - 1 /\ top[2] \in 0 .. size - 1
       /\ top[1] # top[2]
       /\ \A i \in 0 .. size - 1 : Value(scalars[i]) <= Value(scalars[top[1]])
       /\ \A i \in 0 .. size - 1 : i # top[1] => Value(scalars[i]) <= Value(scalars[top[2]])
  BY <1>9, <1>10, <1>11
<1> QED
  BY <1>12 DEF top

\* A scalar no larger than one that is zero above limb l is zero there too.
LEMMA ZeroAboveBelow ==
  ASSUME ShapeFits, NEW x \in Scalars, NEW y \in Scalars, NEW l \in Limb,
         ZeroAbove(x, l), Value(y) <= Value(x)
  PROVE  ZeroAbove(y, l)
<1>1. x \in Numbers /\ y \in Numbers /\ Value(x) \in Nat /\ Value(y) \in Nat
  BY ScalarType
<1>2. l \in -1 .. SIZE - 1
  BY ShapeTypes DEF Limb
<1> DEFINE P == 2 ^ (BPL * (l + 1))
<1>3. /\ BPL * (l + 1) \in Nat
      /\ ZeroAbove(x, l) <=> Value(x) < P
      /\ ZeroAbove(y, l) <=> Value(y) < P
  BY <1>1, <1>2, ZeroAboveValue
<1>4. P \in Nat
  BY <1>3, PowerPositive
<1> HIDE DEF P
<1> QED
  BY <1>1, <1>3, <1>4

\* The limbs in use after those of the largest scalar were looked at.
NextLimb(x, l) == IF x[l] = 0 THEN l - 1 ELSE l

\* A limb that is zero in the largest scalar can be left out, and there is one below it.
LEMMA NextLimbFits ==
  ASSUME ShapeFits, NEW x \in Scalars, NEW l \in Limb, ZeroAbove(x, l), Value(x) # 0
  PROVE  NextLimb(x, l) \in Limb /\ ZeroAbove(x, NextLimb(x, l))
<1>1. x \in Numbers /\ Value(x) \in Nat /\ SIZE \in Nat
  BY ScalarType, ShapeTypes
<1>2. CASE x[l] # 0
  BY <1>2 DEF NextLimb
<1>3. CASE x[l] = 0
  <2>1. NextLimb(x, l) = l - 1
    BY <1>3 DEF NextLimb
  <2>2. ZeroAbove(x, l - 1)
    <3> SUFFICES ASSUME NEW i \in Limb, i > l - 1 PROVE x[i] = 0
      BY DEF ZeroAbove
    <3>1. i = l \/ i > l
      BY <1>1 DEF Limb
    <3> QED
      BY <3>1, <1>3 DEF ZeroAbove
  <2>3. l # 0
    <3> SUFFICES ASSUME l = 0 PROVE FALSE
      OBVIOUS
    <3>1. -1 \in -1 .. SIZE - 1 /\ ZeroAbove(x, -1)
      BY <2>2, <1>1
    <3>2. Value(x) < 2 ^ (BPL * (-1 + 1))
      BY <3>1, <1>1, ZeroAboveValue
    <3>3. BPL * (-1 + 1) = 0
      BY ShapeTypes
    <3>4. Value(x) < 1
      BY <3>2, <3>3, PowerZero
    <3> QED
      BY <3>4, <1>1
  <2>4. l - 1 \in Limb
    BY <2>3, <1>1 DEF Limb
  <2> QED
    BY <2>1, <2>2, <2>4
<1> QED
  BY <1>2, <1>3

\* The scalars, points and the heap after one was taken off another.
Taken(scalars, max, l) ==
  [scalars EXCEPT ![max[1]] = sub256(scalars[max[1]], scalars[max[1]], scalars[max[2]], l)]

Given(points, max) == [points EXCEPT ![max[2]] = (@ + points[max[1]]) % m]

Takes(scalars, size, K, l, max) ==
  /\ Comparable(scalars, size, K, l) /\ K \in Nat /\ size \in 0 .. K + 1
  /\ max[1] \in 0 .. size - 1 /\ max[2] \in 0 .. size - 1 /\ max[1] # max[2]
  /\ Value(scalars[max[2]]) <= Value(scalars[max[1]])

\* The difference is a scalar, no scalar is larger than before, and all can be compared
\* as far as before.
LEMMA TakenScalars ==
  ASSUME ShapeFits, KeepPromise(Scalars), NEW K, NEW size, NEW scalars, NEW l,
         NEW max, Takes(scalars, size, K, l, max)
  PROVE  /\ Taken(scalars, max, l) \in [0 .. K -> Scalars]
         /\ \A i \in 0 .. K : i # max[1] => Taken(scalars, max, l)[i] = scalars[i]
         /\ Value(Taken(scalars, max, l)[max[1]])
              = Value(scalars[max[1]]) - Value(scalars[max[2]])
         /\ \A i \in 0 .. K : Value(Taken(scalars, max, l)[i]) <= Value(scalars[i])
         /\ Comparable(Taken(scalars, max, l), size, K, l)
<1> DEFINE a == max[1]
           b == max[2]
           x == scalars[a]
           y == scalars[b]
           d == sub256(x, x, y, l)
           S == Taken(scalars, max, l)
<1>0. /\ Comparable(scalars, size, K, l) /\ K \in Nat /\ size \in 0 .. K + 1
      /\ a \in 0 .. size - 1 /\ b \in 0 .. size - 1 /\ a # b
      /\ Value(y) <= Value(x)
  BY DEF Takes
<1>1. /\ scalars \in [0 .. K -> Scalars] /\ l \in Limb
      /\ \A i \in 0 .. size - 1 : ZeroAbove(scalars[i], l)
      /\ \A i \in 0 .. size - 1 : i \in 0 .. K
  BY <1>0 DEF Comparable
<1>2. a \in 0 .. K /\ b \in 0 .. K /\ x \in Scalars /\ y \in Scalars
      /\ ZeroAbove(x, l) /\ ZeroAbove(y, l) /\ Value(y) <= Value(x)
  BY <1>0, <1>1
<1>3. d \in Scalars /\ Value(d) = Value(x) - Value(y)
  <2> HIDE DEF x, y
  <2> QED
    BY <1>1, <1>2 DEF KeepPromise
<1>4. S = [scalars EXCEPT ![a] = d]
  BY DEF Taken
<1> HIDE DEF S, d
<1>5. S \in [0 .. K -> Scalars] /\ S[a] = d /\ \A i \in 0 .. K : i # a => S[i] = scalars[i]
  BY <1>1, <1>2, <1>3, <1>4
<1> HIDE DEF a, b, x, y
<1>6. \A i \in 0 .. K : Value(scalars[i]) \in Nat
  BY <1>1, ScalarType
<1>7. Value(x) \in Nat /\ Value(y) \in Nat /\ Value(d) <= Value(x)
  BY <1>2, <1>3, ScalarType
<1>8. \A i \in 0 .. K : Value(S[i]) <= Value(scalars[i])
  <2> TAKE i \in 0 .. K
  <2>1. CASE i = a
    BY <2>1, <1>5, <1>7 DEF x
  <2>2. CASE i # a
    BY <2>2, <1>5, <1>6
  <2> QED
    BY <2>1, <2>2
<1>9. ASSUME NEW i \in 0 .. size - 1 PROVE ZeroAbove(S[i], l)
  <2>1. S[i] \in Scalars /\ scalars[i] \in Scalars /\ ZeroAbove(scalars[i], l)
        /\ Value(S[i]) <= Value(scalars[i])
    BY <1>1, <1>5, <1>8
  <2> QED
    BY <2>1, <1>1, ZeroAboveBelow
<1>10. Comparable(S, size, K, l)
  BY <1>1, <1>5, <1>9 DEF Comparable
<1> QED
  BY <1>3, <1>5, <1>8, <1>10 DEF S, a, b, x, y

\* heap_updated_root puts the heap in order again; the new largest scalar is at least
\* half of the old one.
LEMMA TakenHeap ==
  ASSUME ShapeFits, KeepPromise(Scalars), NEW K, NEW size, NEW scalars, NEW l,
         Comparable(scalars, size, K, l), NEW heap, HeapFits(heap, size, K),
         Ordered(heap, size, scalars), size >= 3, size % 2 = 1,
         NEW max, max = heap_get_top2(heap, scalars, l),
         NEW S, S = Taken(scalars, max, l), NEW next, next = heap_updated_root(heap, size, S, l)
  PROVE  /\ max[1] \in 0 .. size - 1 /\ max[2] \in 0 .. size - 1 /\ max[1] # max[2]
         /\ Value(scalars[max[2]]) <= Value(scalars[max[1]])
         /\ S \in [0 .. K -> Scalars] /\ Comparable(S, size, K, l)
         /\ HeapFits(next, size, K)
         /\ Ordered(next, size, S)
         /\ next[0] \in 0 .. size - 1
         /\ Value(S[next[0]]) <= Value(scalars[max[1]])
         /\ Value(scalars[max[1]]) <= 2 * Value(S[next[0]])
<1>0. size \in Nat /\ K \in Nat /\ size \in 0 .. K + 1
  BY DEF HeapFits
<1>1. /\ max[1] = heap[0] /\ max[1] \in 0 .. size - 1 /\ max[2] \in 0 .. size - 1
      /\ max[1] # max[2]
      /\ \A i \in 0 .. size - 1 : Value(scalars[i]) <= Value(scalars[max[1]])
  BY Top2
<1>2. Value(scalars[max[2]]) <= Value(scalars[max[1]])
  BY <1>1
<1>3. /\ S \in [0 .. K -> Scalars]
      /\ \A i \in 0 .. K : i # max[1] => S[i] = scalars[i]
      /\ Value(S[max[1]]) = Value(scalars[max[1]]) - Value(scalars[max[2]])
      /\ \A i \in 0 .. K : Value(S[i]) <= Value(scalars[i])
      /\ Comparable(S, size, K, l)
  <2>1. Takes(scalars, size, K, l, max)
    BY <1>0, <1>1, <1>2 DEF Takes
  <2> QED
    BY <2>1, TakenScalars
<1>4. /\ \A a \in 0 .. size - 1 : heap[a] \in 0 .. size - 1
      /\ \A a, b \in 0 .. size - 1 : heap[a] = heap[b] => a = b
  BY DEF HeapFits
<1>5. ASSUME NEW a \in 1 .. size - 1, Parent(a) # 0
      PROVE  At(heap, S, a) <= At(heap, S, Parent(a))
  <2>1. a \in 0 .. size - 1 /\ Parent(a) \in 0 .. size - 1 /\ 0 \in 0 .. size - 1 /\ a # 0
    BY <1>0, ParentIn
  <2>2. heap[a] # max[1] /\ heap[Parent(a)] # max[1] /\ heap[a] \in 0 .. K /\ heap[Parent(a)] \in 0 .. K
    BY <2>1, <1>0, <1>1, <1>4, <1>5
  <2>3. At(heap, S, a) = At(heap, scalars, a) /\ At(heap, S, Parent(a)) = At(heap, scalars, Parent(a))
    BY <2>2, <1>3 DEF At
  <2>4. At(heap, scalars, a) <= At(heap, scalars, Parent(a))
    BY DEF Ordered
  <2> QED
    BY <2>3, <2>4
<1>6. HeapFits(next, size, K) /\ Ordered(next, size, S)
  BY <1>3, <1>5, UpdatedRoot
<1>7. /\ 0 \in 0 .. size - 1 /\ next[0] \in 0 .. size - 1
      /\ \A i \in 0 .. size - 1 : \E a \in 0 .. size - 1 : next[a] = i
  <2>1. 0 \in 0 .. size - 1
    BY <1>0
  <2> QED
    BY <2>1, <1>6 DEF HeapFits
<1>8. \A i \in 0 .. size - 1 : Value(S[i]) <= Value(S[next[0]])
  <2>1. size > 0
    BY <1>0
  <2>2. \A a \in 0 .. size - 1 : At(next, S, a) <= At(next, S, 0)
    BY <2>1, <1>3, <1>6, RootLargest
  <2> TAKE i \in 0 .. size - 1
  <2>3. PICK a \in 0 .. size - 1 : next[a] = i
    BY <1>7
  <2> QED
    BY <2>2, <2>3 DEF At
<1>9. \A i \in 0 .. size - 1 : i \in 0 .. K /\ Value(S[i]) \in Nat /\ Value(scalars[i]) \in Nat
  <2> TAKE i \in 0 .. size - 1
  <2>1. i \in 0 .. K
    BY <1>0
  <2>2. S[i] \in Scalars /\ scalars[i] \in Scalars
    BY <2>1, <1>3 DEF Comparable
  <2> QED
    BY <2>1, <2>2, ScalarType
<1>10. Value(S[next[0]]) <= Value(scalars[max[1]])
  <2>1. Value(S[next[0]]) <= Value(scalars[next[0]]) /\ Value(scalars[next[0]]) <= Value(scalars[max[1]])
    BY <1>1, <1>3, <1>7, <1>9
  <2>2. Value(S[next[0]]) \in Nat /\ Value(scalars[next[0]]) \in Nat /\ Value(scalars[max[1]]) \in Nat
    BY <1>1, <1>7, <1>9
  <2> QED
    BY <2>1, <2>2
<1>11. Value(scalars[max[1]]) <= 2 * Value(S[next[0]])
  <2>1. Value(S[max[1]]) <= Value(S[next[0]]) /\ Value(S[max[2]]) <= Value(S[next[0]])
        /\ S[max[2]] = scalars[max[2]]
    BY <1>1, <1>3, <1>8, <1>9
  <2>2. Value(S[next[0]]) \in Nat /\ Value(scalars[max[1]]) \in Nat /\ Value(scalars[max[2]]) \in Nat
    BY <1>1, <1>7, <1>9
  <2> QED
    BY <2>1, <2>2, <1>3
<1> QED
  BY <1>1, <1>2, <1>3, <1>6, <1>7, <1>10, <1>11

\* The multiples still add up to what they did, and the scalars to less.
SumOf(scalars, K) == SumUpTo([i \in 0 .. K |-> Value(scalars[i])], K)

\* The sum of multiples stays what it was, and the sum of scalars goes down by the second
\* largest.
LEMMA TakenSums ==
  ASSUME ShapeFits, KeepPromise(Scalars), NEW K, NEW size, NEW scalars, NEW l,
         NEW max, Takes(scalars, size, K, l, max), NEW points \in [0 .. K -> 0 .. m - 1],
         NEW S, S = Taken(scalars, max, l), NEW P, P = Given(points, max)
  PROVE  /\ P \in [0 .. K -> 0 .. m - 1]
         /\ Multiples(P, S, K) = Multiples(points, scalars, K)
         /\ SumOf(S, K) = SumOf(scalars, K) - Value(scalars[max[2]])
<1> DEFINE a == max[1]
           b == max[2]
           sa == Value(scalars[a])
           sb == Value(scalars[b])
           pa == points[a]
           pb == points[b]
           f == [i \in 0 .. K |-> Value(scalars[i]) * points[i]]
           h == [i \in 0 .. K |-> Value(S[i]) * P[i]]
           g == [f EXCEPT ![a] = h[a]]
           V == [i \in 0 .. K |-> Value(scalars[i])]
           W == [i \in 0 .. K |-> Value(S[i])]
<1>0. m \in Nat /\ m > 0 /\ m > 1
  BY ShapeTypes
<1>1. a \in 0 .. K /\ b \in 0 .. K /\ a # b /\ K \in Nat /\ Comparable(scalars, size, K, l)
  BY DEF Takes
<1>2. /\ S \in [0 .. K -> Scalars]
      /\ \A i \in 0 .. K : i # a => S[i] = scalars[i]
      /\ Value(S[a]) = sa - sb
  BY TakenScalars
<1>3. \A i \in 0 .. K : Value(scalars[i]) \in Nat /\ Value(S[i]) \in Nat /\ points[i] \in Nat
  <2> TAKE i \in 0 .. K
  <2>1. scalars[i] \in Scalars /\ S[i] \in Scalars /\ points[i] \in 0 .. m - 1
    BY <1>1, <1>2 DEF Comparable
  <2> QED
    BY <2>1, ScalarType, <1>0
<1>4. sa \in Nat /\ sb \in Nat /\ pa \in Nat /\ pb \in Nat
  BY <1>1, <1>3
<1>5. (pb + pa) % m \in 0 .. m - 1 /\ Congruent((pb + pa) % m, pb + pa)
  <2>1. pb + pa \in Int
    BY <1>4
  <2> HIDE DEF pa, pb
  <2> QED
    BY <2>1, <1>0, Remainder
<1>6. /\ P \in [0 .. K -> 0 .. m - 1]
      /\ P[b] = (pb + pa) % m
      /\ \A i \in 0 .. K : i # b => P[i] = points[i]
  <2>1. P = [points EXCEPT ![b] = (pb + pa) % m]
    BY DEF Given
  <2> DEFINE q == (pb + pa) % m
  <2>2. P = [points EXCEPT ![b] = q] /\ q \in 0 .. m - 1
    BY <2>1, <1>5
  <2> HIDE DEF q, a, b
  <2>3. P \in [0 .. K -> 0 .. m - 1] /\ P[b] = q /\ \A i \in 0 .. K : i # b => P[i] = points[i]
    BY <2>2, <1>1
  <2> QED
    BY <2>3 DEF q
<1> HIDE DEF a, b
<1>7. \A i \in 0 .. K : P[i] \in Nat
  BY <1>0, <1>6
<1>8. \A i \in 0 .. K : f[i] = Value(scalars[i]) * points[i] /\ h[i] = Value(S[i]) * P[i]
                        /\ f[i] \in Int /\ h[i] \in Int
  <2> TAKE i \in 0 .. K
  <2>1. \A p, q \in Nat : p * q \in Int
    OBVIOUS
  <2>2. Value(scalars[i]) * points[i] \in Int /\ Value(S[i]) * P[i] \in Int
    BY <2>1, <1>3, <1>7
  <2> QED
    BY <2>2
<1>9. \A i \in 0 .. K : V[i] = Value(scalars[i]) /\ W[i] = Value(S[i]) /\ V[i] \in Int /\ W[i] \in Int
  BY <1>3
<1>10. SumOf(S, K) = SumOf(scalars, K) - sb
  <2>1. \A i \in 0 .. K : i # a => W[i] = V[i]
    BY <1>2, <1>9
  <2>2. W[a] - V[a] = -sb
    BY <1>1, <1>2, <1>4, <1>9
  <2> DEFINE w == SumUpTo(W, K)
             v == SumUpTo(V, K)
  <2> HIDE DEF V, W
  <2>3. w = v + (W[a] - V[a])
    <3>1. Differ(V, W, a, K)
      BY <2>1, <1>1, <1>9 DEF Differ
    <3> QED
      BY <3>1, SumChange
  <2>4. v \in Int
    BY <1>1, <1>9, SumType
  <2> HIDE DEF v, w
  <2>5. w = v - sb
    BY <2>2, <2>3, <2>4, <1>4
  <2> QED
    BY <2>5 DEF v, w, V, W, SumOf
<1>11. f[a] = sa * pa /\ h[a] = (sa - sb) * pa
  BY <1>1, <1>2, <1>6, <1>8
<1>12. f[b] = sb * pb /\ h[b] = sb * ((pb + pa) % m)
  BY <1>1, <1>2, <1>6, <1>8
<1>13. \A i \in 0 .. K : i # a /\ i # b => h[i] = f[i]
  BY <1>2, <1>6, <1>8
<1>14. f \in [0 .. K -> Int]
  BY <1>8
<1> HIDE DEF f, h, sa, sb, pa, pb
<1>15. /\ g[a] = h[a] /\ \A i \in 0 .. K : i # a => g[i] = f[i]
       /\ \A i \in 0 .. K : g[i] \in Int
  BY <1>1, <1>8, <1>14
<1> HIDE DEF g
<1> DEFINE sf == SumUpTo(f, K)
           sg == SumUpTo(g, K)
           sh == SumUpTo(h, K)
<1>16. sg = sf + (h[a] - f[a])
  <2>1. Differ(f, g, a, K)
    BY <1>1, <1>8, <1>15 DEF Differ
  <2>2. SumUpTo(g, K) = SumUpTo(f, K) + (h[a] - f[a])
    <3>1. SumUpTo(g, K) = SumUpTo(f, K) + (g[a] - f[a])
      BY <2>1, SumChange
    <3>2. g[a] = h[a]
      BY <1>15
    <3> QED
      BY <3>1, <3>2
  <2> QED
    BY <2>2
<1>17. sh = sg + (h[b] - f[b])
  <2>1. \A i \in 0 .. K : i # b => h[i] = g[i]
    BY <1>13, <1>15
  <2>2. g[b] = f[b]
    BY <1>1, <1>15
  <2>3. sh = sg + (h[b] - g[b])
    <3>1. Differ(g, h, b, K)
      BY <2>1, <1>1, <1>8, <1>15 DEF Differ
    <3> QED
      BY <3>1, SumChange
  <2> QED
    BY <2>2, <2>3
<1>18. sf \in Int /\ sg \in Int /\ sh \in Int
  BY <1>1, <1>8, <1>15, SumType
<1> HIDE DEF sf, sg, sh
<1> DEFINE q == (pb + pa) % m
<1>19. q \in Int /\ Congruent(q, pb + pa)
  BY <1>5, <1>0
<1> HIDE DEF q
<1>20. sh = sf + ((sa - sb) * pa - sa * pa + (sb * q - sb * pb))
  <2>1. h[a] = (sa - sb) * pa /\ f[a] = sa * pa /\ h[b] = sb * q /\ f[b] = sb * pb
    BY <1>11, <1>12 DEF q
  <2>2. (sa - sb) * pa \in Int /\ sa * pa \in Int /\ sb * q \in Int /\ sb * pb \in Int
    BY <1>4, <1>19
  <2> QED
    BY <2>1, <2>2, <1>16, <1>17, <1>18
<1>21. sh = sf + sb * (q - (pb + pa))
  BY <1>4, <1>18, <1>19, <1>20
<1>22. Congruent(sh, sf)
  <2>1. PICK k \in Int : q = (pb + pa) + k * m
    BY <1>19 DEF Congruent
  <2>2. sb * k \in Int /\ sh = sf + (sb * k) * m
    <3>1. q - (pb + pa) = k * m
      BY <2>1, <1>0, <1>4, <1>19
    <3>2. sb * (k * m) = (sb * k) * m
      BY <1>0, <1>4
    <3> QED
      BY <3>1, <3>2, <1>4, <1>21
  <2> QED
    BY <2>2 DEF Congruent
<1>23. sh % m = sf % m
  BY <1>0, <1>18, <1>22, Remainder
<1>24. Multiples(P, S, K) = sh % m /\ Multiples(points, scalars, K) = sf % m
  BY DEF Multiples, sh, sf, f, h
<1> QED
  BY <1>6, <1>10, <1>23, <1>24 DEF sb, b

\* What a batch is like between turns: before the smaller half was taken in, that is
\* small, and the limbs in use leave room for it.
Room(scalars, heap, size, K, l) ==
  /\ \A i \in size .. K : Value(scalars[i]) < 2 ^ HALF
  /\ l = SIZE - 1 \/ (HALF < BPL * (l + 1) /\ 2 ^ HALF <= 2 * Value(scalars[heap[0]]))

Working(K, points, scalars, heap, size, l, extended) ==
  /\ points \in [0 .. K -> 0 .. m - 1]
  /\ HeapFits(heap, size, K)
  /\ Ordered(heap, size, scalars)
  /\ Comparable(scalars, size, K, l)
  /\ size >= 3 /\ size % 2 = 1
  /\ extended \in BOOLEAN
  /\ extended => size = K + 1 /\ Value(scalars[heap[0]]) < 2 ^ HALF
  /\ ~extended => Room(scalars, heap, size, K, l)

\* When a limb of the largest scalar turns zero and it was at least half the size of a
\* random number before, the random numbers have no more limbs than are left in use.
LEMMA RoomEnough ==
  ASSUME ShapeFits, NEW x \in Scalars, NEW l \in Limb, ZeroAbove(x, l), Value(x) # 0,
         l = SIZE - 1 \/ (HALF < BPL * (l + 1) /\ 2 ^ HALF <= 2 * Value(x)),
         NEW y \in Scalars, Value(y) < 2 ^ HALF
  PROVE  ZeroAbove(y, NextLimb(x, l))
<1> DEFINE nl == NextLimb(x, l)
<1>1. nl \in Limb /\ ZeroAbove(x, nl) /\ x \in Numbers /\ y \in Numbers
      /\ Value(x) \in Nat /\ Value(y) \in Nat
  BY NextLimbFits, ScalarType
<1>2. /\ BPL \in Nat /\ BPL > 0 /\ SIZE \in Nat /\ HALF \in Nat /\ HALF < BPL * (SIZE - 1)
      /\ l \in Nat /\ l <= SIZE - 1
  BY ShapeTypes DEF Limb
<1>3. nl = l \/ nl = l - 1
  BY DEF NextLimb
<1>4. nl \in -1 .. SIZE - 1 /\ nl \in Nat
  BY <1>1, <1>2 DEF Limb
<1> HIDE DEF nl
<1>5. /\ BPL * (nl + 1) \in Nat
      /\ ZeroAbove(x, nl) <=> Value(x) < 2 ^ (BPL * (nl + 1))
      /\ ZeroAbove(y, nl) <=> Value(y) < 2 ^ (BPL * (nl + 1))
  BY <1>1, <1>4, ZeroAboveValue
<1>6. HALF <= BPL * (nl + 1)
  <2>1. CASE l = SIZE - 1
    <3>1. SIZE - 1 \in Nat /\ nl + 1 \in Nat /\ SIZE - 1 <= nl + 1
      BY <2>1, <1>2, <1>3, <1>4
    <3>2. BPL * (SIZE - 1) <= BPL * (nl + 1)
      BY <3>1, <1>2, Products
    <3>3. BPL * (SIZE - 1) \in Nat
      BY <3>1, <1>2, Products
    <3> QED
      BY <3>2, <3>3, <1>2, <1>5
  <2>2. CASE HALF < BPL * (l + 1) /\ 2 ^ HALF <= 2 * Value(x)
    <3>1. CASE nl = l
      BY <2>2, <3>1, <1>2, <1>5
    <3>2. CASE nl # l
      <4> DEFINE e == BPL * (nl + 1)
      <4>1. e \in Nat /\ Value(x) < 2 ^ e
        BY <1>1, <1>5
      <4> HIDE DEF e
      <4>2. 2 ^ (e + 1) = 2 * 2 ^ e /\ 2 ^ e \in Nat /\ 2 ^ HALF \in Nat
        BY <4>1, <1>2, PowerNext, PowerPositive
      <4>3. 2 ^ HALF < 2 ^ (e + 1)
        BY <4>1, <4>2, <2>2, <1>1
      <4>4. HALF < e + 1
        <5>1. e + 1 \in Nat
          BY <4>1
        <5> QED
          BY <5>1, <4>3, <1>2, PowerLess
      <4>5. HALF <= e
        BY <4>1, <4>4, <1>2
      <4> QED
        BY <4>5 DEF e
    <3> QED
      BY <3>1, <3>2
  <2> QED
    BY <2>1, <2>2
<1>7. 2 ^ HALF <= 2 ^ (BPL * (nl + 1))
  BY <1>2, <1>5, <1>6, PowerLess
<1>8. 2 ^ HALF \in Nat /\ 2 ^ (BPL * (nl + 1)) \in Nat
  BY <1>2, <1>5, PowerPositive
<1>9. Value(y) < 2 ^ (BPL * (nl + 1))
  BY <1>1, <1>7, <1>8
<1> QED
  BY <1>5, <1>9 DEF nl

\* The smaller half is taken in.
LEMMA ExtendFits ==
  ASSUME ShapeFits, KeepPromise(Scalars), NEW K, NEW points, NEW scalars, NEW heap, NEW size, NEW l,
         Working(K, points, scalars, heap, size, l, FALSE),
         Value(scalars[heap[0]]) # 0, Value(scalars[heap[0]]) < 2 ^ HALF,
         NEW nl, nl = NextLimb(scalars[heap[0]], l),
         NEW next, next = heap_extend(heap, size, K + 1, scalars)
  PROVE  /\ HeapFits(next, K + 1, K)
         /\ Ordered(next, K + 1, scalars)
         /\ Comparable(scalars, K + 1, K, nl)
         /\ \A i \in 0 .. K : Value(scalars[i]) < 2 ^ HALF
<1> DEFINE x == scalars[heap[0]]
<1>1. /\ HeapFits(heap, size, K) /\ Ordered(heap, size, scalars)
      /\ scalars \in [0 .. K -> Scalars] /\ l \in Limb
      /\ \A i \in 0 .. size - 1 : ZeroAbove(scalars[i], l)
      /\ size >= 3
      /\ Room(scalars, heap, size, K, l)
  BY DEF Working, Comparable
<1>2. K \in Nat /\ size \in Nat /\ size <= K + 1 /\ heap[0] \in 0 .. size - 1
  <2>1. K \in Nat /\ size \in 0 .. K + 1 /\ \A a \in 0 .. size - 1 : heap[a] \in 0 .. size - 1
    BY <1>1 DEF HeapFits
  <2> QED
    BY <2>1, <1>1
<1>3. HeapFits(next, K + 1, K) /\ Ordered(next, K + 1, scalars)
  <2>1. K + 1 \in size .. K + 1
    BY <1>2
  <2> DEFINE N == K + 1
  <2>2. N \in size .. K + 1 /\ next = heap_extend(heap, size, N, scalars)
    BY <2>1
  <2> HIDE DEF N
  <2>3. HeapFits(next, N, K) /\ Ordered(next, N, scalars)
    BY <2>2, <1>1, HeapExtended
  <2> QED
    BY <2>3 DEF N
<1>4. x \in Scalars /\ ZeroAbove(x, l) /\ Value(x) # 0 /\ Value(x) < 2 ^ HALF
  BY <1>1, <1>2
<1>5. \A i \in 0 .. size - 1 : Value(scalars[i]) <= Value(x)
  <2>1. size > 0
    BY <1>1, <1>2
  <2>2. \A a \in 0 .. size - 1 : At(heap, scalars, a) <= At(heap, scalars, 0)
    BY <2>1, <1>1, RootLargest
  <2> TAKE i \in 0 .. size - 1
  <2>3. PICK a \in 0 .. size - 1 : heap[a] = i
    BY <1>1 DEF HeapFits
  <2> QED
    BY <2>2, <2>3 DEF At
<1>6. ASSUME NEW i \in 0 .. K PROVE Value(scalars[i]) < 2 ^ HALF
  <2>1. CASE i \in size .. K
    BY <2>1, <1>1 DEF Room
  <2>2. CASE i \in 0 .. size - 1
    <3>1. Value(scalars[i]) \in Nat /\ Value(x) \in Nat /\ 2 ^ HALF \in Nat
      BY <1>1, <1>4, ScalarType, ShapeTypes
    <3> QED
      BY <3>1, <2>2, <1>4, <1>5
  <2> QED
    BY <2>1, <2>2, <1>2
<1>7. l = SIZE - 1 \/ (HALF < BPL * (l + 1) /\ 2 ^ HALF <= 2 * Value(x))
  BY <1>1 DEF Room
<1>8. nl = NextLimb(x, l)
  OBVIOUS
<1> HIDE DEF x
<1>9. nl \in Limb
  BY <1>1, <1>4, <1>8, NextLimbFits
<1>10. ASSUME NEW i \in 0 .. K PROVE ZeroAbove(scalars[i], nl)
  <2>1. scalars[i] \in Scalars /\ Value(scalars[i]) < 2 ^ HALF
    BY <1>1, <1>6
  <2> DEFINE y == scalars[i]
  <2>2. y \in Scalars /\ Value(y) < 2 ^ HALF
    BY <2>1
  <2> HIDE DEF y
  <2>3. ZeroAbove(y, NextLimb(x, l))
    BY <2>2, <1>1, <1>4, <1>7, RoomEnough
  <2> QED
    BY <2>3, <1>8 DEF y
<1>11. Comparable(scalars, K + 1, K, nl)
  <2>1. \A i \in 0 .. (K + 1) - 1 : i \in 0 .. K
    BY <1>2
  <2> QED
    BY <2>1, <1>1, <1>9, <1>10 DEF Comparable
<1> QED
  BY <1>3, <1>6, <1>11

\* Without that, the limbs in use are those of the largest.
LEMMA NextComparable ==
  ASSUME ShapeFits, NEW K, NEW scalars, NEW heap, NEW size, NEW l,
         HeapFits(heap, size, K), Ordered(heap, size, scalars), Comparable(scalars, size, K, l),
         size >= 3, Value(scalars[heap[0]]) # 0
  PROVE  Comparable(scalars, size, K, NextLimb(scalars[heap[0]], l))
<1> DEFINE x == scalars[heap[0]]
           nl == NextLimb(x, l)
<1>1. /\ scalars \in [0 .. K -> Scalars] /\ l \in Limb
      /\ \A i \in 0 .. size - 1 : ZeroAbove(scalars[i], l)
  BY DEF Comparable
<1>2. K \in Nat /\ size \in Nat /\ size <= K + 1 /\ heap[0] \in 0 .. size - 1
  <2>1. K \in Nat /\ size \in 0 .. K + 1 /\ \A a \in 0 .. size - 1 : heap[a] \in 0 .. size - 1
    BY <1>1 DEF HeapFits
  <2> QED
    BY <2>1, <1>1
<1>3. x \in Scalars /\ ZeroAbove(x, l) /\ Value(x) # 0
  BY <1>1, <1>2
<1>4. \A i \in 0 .. size - 1 : Value(scalars[i]) <= Value(x)
  <2>1. size > 0
    BY <1>1, <1>2
  <2>2. \A a \in 0 .. size - 1 : At(heap, scalars, a) <= At(heap, scalars, 0)
    BY <2>1, <1>1, RootLargest
  <2> TAKE i \in 0 .. size - 1
  <2>3. PICK a \in 0 .. size - 1 : heap[a] = i
    BY <1>1 DEF HeapFits
  <2> QED
    BY <2>2, <2>3 DEF At
<1> HIDE DEF x
<1>5. nl \in Limb /\ ZeroAbove(x, nl)
  BY <1>1, <1>3, NextLimbFits
<1> HIDE DEF nl
<1>6. ASSUME NEW i \in 0 .. size - 1 PROVE ZeroAbove(scalars[i], nl)
  <2>1. scalars[i] \in Scalars /\ Value(scalars[i]) <= Value(x)
    BY <1>1, <1>2, <1>4
  <2> DEFINE y == scalars[i]
  <2>2. y \in Scalars /\ Value(y) <= Value(x)
    BY <2>1
  <2> HIDE DEF y
  <2>3. ZeroAbove(y, nl)
    BY <2>2, <1>3, <1>5, ZeroAboveBelow
  <2> QED
    BY <2>3 DEF y
<1>7. Comparable(scalars, size, K, nl)
  BY <1>1, <1>5, <1>6 DEF Comparable
<1> QED
  BY <1>7 DEF nl, x

\* The two largest are the same whether a zero limb is looked at or not.
LEMMA Top2Same ==
  ASSUME ShapeFits, KeepPromise(Scalars), NEW K, NEW size, NEW scalars, NEW l, NEW nl,
         Comparable(scalars, size, K, l), Comparable(scalars, size, K, nl),
         NEW heap, HeapFits(heap, size, K), size >= 3
  PROVE  heap_get_top2(heap, scalars, l) = heap_get_top2(heap, scalars, nl)
<1>1. 1 \in 0 .. size - 1 /\ 2 \in 0 .. size - 1
  BY DEF HeapFits
<1>2. lt256(scalars[heap[1]], scalars[heap[2]], l)
        <=> At(heap, scalars, 1) < At(heap, scalars, 2)
  BY <1>1, Compared
<1>3. lt256(scalars[heap[1]], scalars[heap[2]], nl)
        <=> At(heap, scalars, 1) < At(heap, scalars, 2)
  BY <1>1, Compared
<1>4. CASE At(heap, scalars, 1) < At(heap, scalars, 2)
  BY <1>2, <1>3, <1>4 DEF heap_get_top2
<1>5. CASE ~(At(heap, scalars, 1) < At(heap, scalars, 2))
  BY <1>2, <1>3, <1>5 DEF heap_get_top2
<1> QED
  BY <1>4, <1>5

\* One scalar is taken off another, in a heap that is in order.
Ready(K, points, scalars, heap, size, l) ==
  /\ points \in [0 .. K -> 0 .. m - 1]
  /\ HeapFits(heap, size, K) /\ Ordered(heap, size, scalars) /\ Comparable(scalars, size, K, l)
  /\ size >= 3 /\ size % 2 = 1

Lowered(K, points, scalars, heap, size, l, P, S, next) ==
  /\ Ready(K, P, S, next, size, l)
  /\ Multiples(P, S, K) = Multiples(points, scalars, K)
  /\ SumOf(S, K) < SumOf(scalars, K)
  /\ Value(S[next[0]]) <= Value(scalars[heap[0]])
  /\ Value(scalars[heap[0]]) <= 2 * Value(S[next[0]])
  /\ \A i \in size .. K : S[i] = scalars[i]

\* A turn keeps the heap in order and the sum of multiples, and lowers that of the scalars.
LEMMA Reduced ==
  ASSUME ShapeFits, KeepPromise(Scalars), NEW K, NEW points, NEW scalars, NEW heap, NEW size,
         NEW l, Ready(K, points, scalars, heap, size, l),
         NEW max, max = heap_get_top2(heap, scalars, l), Value(scalars[max[2]]) # 0,
         NEW S, S = Taken(scalars, max, l), NEW P, P = Given(points, max),
         NEW next, next = heap_updated_root(heap, size, S, l)
  PROVE  Lowered(K, points, scalars, heap, size, l, P, S, next)
<1>0. /\ points \in [0 .. K -> 0 .. m - 1]
      /\ HeapFits(heap, size, K) /\ Ordered(heap, size, scalars) /\ Comparable(scalars, size, K, l)
      /\ size >= 3 /\ size % 2 = 1
  BY DEF Ready
<1>1. /\ max[1] \in 0 .. size - 1 /\ max[2] \in 0 .. size - 1 /\ max[1] # max[2]
      /\ Value(scalars[max[2]]) <= Value(scalars[max[1]])
      /\ S \in [0 .. K -> Scalars] /\ Comparable(S, size, K, l)
      /\ HeapFits(next, size, K)
      /\ Ordered(next, size, S)
      /\ Value(S[next[0]]) <= Value(scalars[max[1]])
      /\ Value(scalars[max[1]]) <= 2 * Value(S[next[0]])
  BY <1>0, TakenHeap
<1>2. max[1] = heap[0]
  BY DEF heap_get_top2
<1>3. K \in Nat /\ size \in 0 .. K + 1
  BY <1>0 DEF HeapFits
<1>4. Takes(scalars, size, K, l, max)
  BY <1>0, <1>1, <1>3 DEF Takes
<1>5. P \in [0 .. K -> 0 .. m - 1]
  BY <1>0, <1>4, TakenSums
<1>6. Multiples(P, S, K) = Multiples(points, scalars, K)
  BY <1>0, <1>4, TakenSums
<1>7. SumOf(S, K) < SumOf(scalars, K)
  <2> DEFINE v == SumOf(scalars, K)
             w == SumOf(S, K)
             b == Value(scalars[max[2]])
  <2>1. v \in Int
    <3> DEFINE V == [i \in 0 .. K |-> Value(scalars[i])]
    <3>1. \A i \in 0 .. K : V[i] \in Int
      <4> TAKE i \in 0 .. K
      <4>1. scalars[i] \in Scalars
        BY <1>0 DEF Comparable
      <4> QED
        BY <4>1, ScalarType
    <3>2. v = SumUpTo(V, K)
      BY DEF SumOf
    <3> HIDE DEF V, v
    <3> QED
      BY <3>1, <3>2, <1>3, SumType
  <2>2. b \in Nat /\ b # 0
    <3>1. max[2] \in 0 .. K
      BY <1>1, <1>3
    <3>2. scalars[max[2]] \in Scalars
      BY <3>1, <1>0 DEF Comparable
    <3> QED
      BY <3>2, ScalarType
  <2>3. w = v - b
    BY <1>0, <1>4, TakenSums
  <2> HIDE DEF v, w, b
  <2>4. w < v
    BY <2>1, <2>2, <2>3
  <2> QED
    BY <2>4 DEF v, w
<1>8. \A i \in size .. K : S[i] = scalars[i]
  <2>1. \A i \in 0 .. K : i # max[1] => S[i] = scalars[i]
    BY <1>4, TakenScalars
  <2>2. \A i \in size .. K : i \in 0 .. K /\ i # max[1]
    BY <1>1, <1>3
  <2> QED
    BY <2>1, <2>2
<1> QED
  BY <1>0, <1>1, <1>2, <1>5, <1>6, <1>7, <1>8 DEF Ready, Lowered

\* What a turn starts from, and what it computes.
TurnReady(K, points, scalars, heap, size, l, extended, top, nl, extend, heap1, size1, max, S, P,
          next) ==
  /\ Working(K, points, scalars, heap, size, l, extended) /\ K % 2 = 0
  /\ top = heap_get_top2(heap, scalars, l) /\ Value(scalars[top[2]]) # 0
  /\ nl = IF scalars[top[1]][l] = 0 THEN l - 1 ELSE l
  /\ extend \in BOOLEAN
  /\ extend <=> ~extended /\ Value(scalars[top[1]]) < 2 ^ HALF
  /\ heap1 = IF extend THEN heap_extend(heap, size, K + 1, scalars) ELSE heap
  /\ size1 = IF extend THEN K + 1 ELSE size
  /\ max = IF extend THEN heap_get_top2(heap1, scalars, nl) ELSE top
  /\ S = Taken(scalars, max, nl) /\ P = Given(points, max)
  /\ next = heap_updated_root(heap1, size1, S, nl)

\* A turn keeps the heap at work and what the multiples add up to, and lowers the scalars.
LEMMA TurnWorks ==
  ASSUME ShapeFits, KeepPromise(Scalars),
         NEW K, NEW points, NEW scalars, NEW heap, NEW size, NEW l, NEW extended, NEW top,
         NEW nl, NEW extend, NEW heap1, NEW size1, NEW max, NEW S, NEW P, NEW next,
         TurnReady(K, points, scalars, heap, size, l, extended, top, nl, extend, heap1,
                    size1, max, S, P, next)
  PROVE  /\ Working(K, P, S, next, size1, nl, extended \/ extend)
         /\ Multiples(P, S, K) = Multiples(points, scalars, K)
         /\ SumOf(S, K) < SumOf(scalars, K)
<1>0. /\ Working(K, points, scalars, heap, size, l, extended) /\ K % 2 = 0
      /\ top = heap_get_top2(heap, scalars, l) /\ Value(scalars[top[2]]) # 0
      /\ nl = IF scalars[top[1]][l] = 0 THEN l - 1 ELSE l
      /\ extend \in BOOLEAN
      /\ extend <=> ~extended /\ Value(scalars[top[1]]) < 2 ^ HALF
      /\ heap1 = IF extend THEN heap_extend(heap, size, K + 1, scalars) ELSE heap
      /\ size1 = IF extend THEN K + 1 ELSE size
      /\ max = IF extend THEN heap_get_top2(heap1, scalars, nl) ELSE top
      /\ S = Taken(scalars, max, nl) /\ P = Given(points, max)
      /\ next = heap_updated_root(heap1, size1, S, nl)
  BY DEF TurnReady
<1>1. /\ points \in [0 .. K -> 0 .. m - 1]
      /\ HeapFits(heap, size, K) /\ Ordered(heap, size, scalars)
      /\ Comparable(scalars, size, K, l)
      /\ size >= 3 /\ size % 2 = 1
      /\ extended \in BOOLEAN
      /\ extended => size = K + 1 /\ Value(scalars[heap[0]]) < 2 ^ HALF
      /\ ~extended => Room(scalars, heap, size, K, l)
  BY <1>0 DEF Working
<1>2. /\ K \in Nat /\ size \in 0 .. K + 1 /\ scalars \in [0 .. K -> Scalars]
      /\ \A i \in 0 .. size - 1 : i \in 0 .. K
      /\ 0 \in 0 .. K /\ size \in Nat
  <2>1. K \in Nat /\ size \in 0 .. K + 1
    BY <1>1 DEF HeapFits
  <2>2. scalars \in [0 .. K -> Scalars]
    BY <1>1 DEF Comparable
  <2> QED
    BY <2>1, <2>2
<1>3. /\ top[1] = heap[0] /\ top[1] \in 0 .. size - 1 /\ top[2] \in 0 .. size - 1
      /\ top[1] # top[2]
      /\ \A i \in 0 .. size - 1 : Value(scalars[i]) <= Value(scalars[top[1]])
  BY <1>0, <1>1, Top2
<1> DEFINE x == scalars[heap[0]]
<1>4. x \in Scalars /\ Value(x) \in Nat /\ Value(x) # 0 /\ scalars[top[2]] \in Scalars
      /\ Value(scalars[top[2]]) \in Nat
  <2>1. scalars[heap[0]] \in Scalars /\ scalars[top[2]] \in Scalars
    BY <1>2, <1>3
  <2>2. Value(scalars[heap[0]]) \in Nat /\ Value(scalars[top[2]]) \in Nat
    BY <2>1, ScalarType
  <2>3. Value(scalars[top[2]]) <= Value(scalars[heap[0]])
    BY <1>3
  <2> QED
    BY <2>1, <2>2, <2>3, <1>0
<1>5. nl = NextLimb(scalars[heap[0]], l)
  BY <1>0, <1>3 DEF NextLimb
<1>6. 2 ^ HALF \in Nat
  BY ShapeTypes
<1>7. CASE extend
  <2>1. /\ ~extended /\ Value(x) < 2 ^ HALF
        /\ heap1 = heap_extend(heap, size, K + 1, scalars) /\ size1 = K + 1
        /\ max = heap_get_top2(heap1, scalars, nl)
    BY <1>0, <1>3, <1>7
  <2>2. extended = FALSE
    BY <2>1, <1>1
  <2>3. Working(K, points, scalars, heap, size, l, FALSE)
    BY <2>2, <1>0
  <2>4. /\ HeapFits(heap1, K + 1, K)
        /\ Ordered(heap1, K + 1, scalars)
        /\ Comparable(scalars, K + 1, K, nl)
        /\ \A i \in 0 .. K : Value(scalars[i]) < 2 ^ HALF
    BY <2>1, <2>3, <1>4, <1>5, ExtendFits
  <2>5. /\ HeapFits(heap1, size1, K)
        /\ Ordered(heap1, size1, scalars)
        /\ Comparable(scalars, size1, K, nl)
        /\ size1 >= 3 /\ size1 % 2 = 1
    <3>1. size1 >= 3 /\ size1 % 2 = 1
      BY SMTT(40), <2>1, <1>0, <1>1, <1>2
    <3> QED
      BY <2>1, <2>4, <3>1
  <2>6. Value(scalars[max[2]]) # 0
    <3> DEFINE i == IF max[1] = top[1] THEN top[2] ELSE top[1]
    <3>1. i \in 0 .. size1 - 1 /\ i # max[1]
      BY <1>2, <1>3, <2>1
    <3>2. Value(scalars[i]) \in Nat /\ Value(scalars[i]) # 0
      BY <1>0, <1>3, <1>4
    <3> HIDE DEF i
    <3>3. \A j \in 0 .. size1 - 1 : j # max[1] => Value(scalars[j]) <= Value(scalars[max[2]])
      BY <2>1, <2>5, Top2
    <3>4. Value(scalars[i]) <= Value(scalars[max[2]])
      BY SMTT(40), <3>1, <3>3
    <3> QED
      BY <3>2, <3>4
  <2>7. Lowered(K, points, scalars, heap1, size1, nl, P, S, next)
    <3>1. Ready(K, points, scalars, heap1, size1, nl)
      BY <1>1, <2>5 DEF Ready
    <3> QED
      BY <3>1, <2>1, <2>6, <1>0, Reduced
  <2>8. Value(S[next[0]]) < 2 ^ HALF
    <3>1. heap1[0] \in 0 .. K /\ next[0] \in 0 .. K
      BY <1>2, <2>5, <2>7 DEF HeapFits, Lowered, Ready
    <3>2. Value(scalars[heap1[0]]) < 2 ^ HALF
      BY <3>1, <2>4
    <3>3. Value(scalars[heap1[0]]) \in Nat /\ Value(S[next[0]]) \in Nat
      <4>1. scalars[heap1[0]] \in Scalars /\ S[next[0]] \in Scalars
        BY <3>1, <2>7, <1>2 DEF Comparable, Lowered, Ready
      <4> QED
        BY <4>1, ScalarType
    <3>4. Value(S[next[0]]) <= Value(scalars[heap1[0]])
      BY <2>7 DEF Lowered
    <3> QED
      BY <3>2, <3>3, <3>4, <1>6
  <2>9. (extended \/ extend) = TRUE
    BY <1>7
  <2>10. Working(K, P, S, next, size1, nl, TRUE)
    <3>1. TRUE \in BOOLEAN /\ size1 = K + 1
      BY <2>1
    <3> QED
      BY <3>1, <2>5, <2>7, <2>8 DEF Working, Lowered, Ready
  <2> QED
    BY <2>7, <2>9, <2>10 DEF Lowered
<1>8. CASE ~extend
  <2>1. heap1 = heap /\ size1 = size /\ max = top
    BY <1>0, <1>8
  <2>2. Comparable(scalars, size, K, nl)
    BY SMTT(40), <1>1, <1>4, <1>5, NextComparable
  <2>3. max = heap_get_top2(heap1, scalars, nl) /\ Value(scalars[max[2]]) # 0
    <3>1. heap_get_top2(heap, scalars, l) = heap_get_top2(heap, scalars, nl)
      BY <1>1, <2>2, Top2Same
    <3> QED
      BY <3>1, <2>1, <1>0
  <2>4. Lowered(K, points, scalars, heap, size, nl, P, S, next)
    <3>1. Ready(K, points, scalars, heap1, size1, nl)
      BY SMTT(40), <1>1, <2>1, <2>2 DEF Ready
    <3>2. Lowered(K, points, scalars, heap1, size1, nl, P, S, next)
      BY <3>1, <2>3, <1>0, Reduced
    <3> QED
      BY <3>2, <2>1
  <2>5. Value(S[next[0]]) \in Nat
    <3>1. next[0] \in 0 .. K
      BY <1>2, <2>4 DEF HeapFits, Lowered, Ready
    <3>2. S[next[0]] \in Scalars
      BY <3>1, <2>4 DEF Comparable, Lowered, Ready
    <3> QED
      BY <3>2, ScalarType
  <2>6. CASE extended
    <3>1. Value(S[next[0]]) < 2 ^ HALF
      <4>1. Value(S[next[0]]) <= Value(x) /\ Value(x) < 2 ^ HALF
        BY <2>4, <2>6, <1>1 DEF Lowered
      <4> QED
        BY <4>1, <2>5, <1>4, <1>6
    <3>2. (extended \/ extend) = TRUE
      BY <2>6
    <3>3. Working(K, P, S, next, size1, nl, TRUE)
      <4>1. size1 = K + 1 /\ size1 >= 3 /\ size1 % 2 = 1 /\ TRUE \in BOOLEAN
        BY <2>1, <2>6, <1>1
      <4> QED
        BY <3>1, <4>1, <2>1, <2>4 DEF Working, Lowered, Ready
    <3> QED
      BY <3>2, <3>3, <2>4 DEF Lowered
  <2>7. CASE ~extended
    <3>1. ~(Value(x) < 2 ^ HALF)
      BY <2>7, <1>0, <1>3, <1>8
    <3>2. 2 ^ HALF <= Value(x)
      BY <3>1, <1>4, <1>6
    <3>3. 2 ^ HALF <= 2 * Value(S[next[0]])
      <4>1. Value(x) <= 2 * Value(S[next[0]])
        BY <2>4 DEF Lowered
      <4> QED
        BY <4>1, <3>2, <2>5, <1>4, <1>6
    <3>4. HALF < BPL * (nl + 1)
      <4>1. nl \in Limb /\ ZeroAbove(x, nl)
        <5>1. heap[0] \in 0 .. size - 1
          BY <1>3
        <5> QED
          BY <5>1, <2>2 DEF Comparable
      <4>2. nl \in -1 .. SIZE - 1 /\ x \in Numbers
        BY <4>1, <1>4, ScalarType, ShapeTypes DEF Limb
      <4> HIDE DEF x
      <4>3. BPL * (nl + 1) \in Nat /\ Value(x) < 2 ^ (BPL * (nl + 1))
        BY <4>1, <4>2, ZeroAboveValue
      <4> DEFINE e == BPL * (nl + 1)
      <4>4. e \in Nat /\ Value(x) < 2 ^ e
        BY <4>3
      <4> HIDE DEF e
      <4>5. 2 ^ HALF < 2 ^ e
        <5>1. 2 ^ e \in Nat
          BY <4>4, PowerPositive
        <5> QED
          BY <5>1, <4>4, <3>2, <1>4, <1>6
      <4>6. HALF < e
        BY <4>4, <4>5, ShapeTypes, PowerLess
      <4> QED
        BY <4>6 DEF e
    <3>5. Room(S, next, size1, K, nl)
      <4>1. \A i \in size1 .. K : Value(S[i]) < 2 ^ HALF
        BY <2>1, <2>4, <2>7, <1>1 DEF Room, Lowered
      <4> QED
        BY <4>1, <3>3, <3>4 DEF Room
    <3>6. (extended \/ extend) = FALSE
      BY <2>7, <1>8
    <3>7. Working(K, P, S, next, size1, nl, FALSE)
      <4>1. size1 >= 3 /\ size1 % 2 = 1 /\ FALSE \in BOOLEAN
        BY <2>1, <1>1
      <4> QED
        BY <3>5, <4>1, <2>1, <2>4 DEF Working, Lowered, Ready
    <3> QED
      BY <3>6, <3>7, <2>4 DEF Lowered
  <2> QED
    BY <2>6, <2>7, <1>1
<1> QED
  BY <1>7, <1>8

\* At the end one scalar is left.
TurnLast(K, points, scalars, heap, size, l, top) ==
  /\ Working(K, points, scalars, heap, size, l, TRUE)
  /\ top = heap_get_top2(heap, scalars, l) /\ Value(scalars[top[2]]) = 0

\* When the second largest scalar is zero, the sum is a multiple of the point of the
\* largest alone, by less than half the bits.
LEMMA OneLeft ==
  ASSUME ShapeFits, KeepPromise(Scalars), NEW K, NEW points, NEW scalars, NEW heap, NEW size,
         NEW l, NEW top, TurnLast(K, points, scalars, heap, size, l, top)
  PROVE  /\ top[1] \in 0 .. K
         /\ Value(scalars[top[1]]) < 2 ^ HALF
         /\ Multiples(points, scalars, K) = (Value(scalars[top[1]]) * points[top[1]]) % m
<1> SUFFICES ASSUME Working(K, points, scalars, heap, size, l, TRUE),
                    top = heap_get_top2(heap, scalars, l), Value(scalars[top[2]]) = 0
             PROVE  /\ top[1] \in 0 .. K
                    /\ Value(scalars[top[1]]) < 2 ^ HALF
                    /\ Multiples(points, scalars, K) = (Value(scalars[top[1]]) * points[top[1]]) % m
  BY DEF TurnLast
<1>1. /\ points \in [0 .. K -> 0 .. m - 1]
      /\ HeapFits(heap, size, K) /\ Ordered(heap, size, scalars)
      /\ Comparable(scalars, size, K, l)
      /\ size >= 3 /\ size = K + 1 /\ Value(scalars[heap[0]]) < 2 ^ HALF
  BY DEF Working
<1>2. K \in Nat /\ scalars \in [0 .. K -> Scalars] /\ size - 1 = K
  BY <1>1 DEF HeapFits, Comparable
<1>3. /\ top[1] = heap[0] /\ top[1] \in 0 .. size - 1 /\ top[2] \in 0 .. size - 1
      /\ \A i \in 0 .. size - 1 : i # top[1] => Value(scalars[i]) <= Value(scalars[top[2]])
  BY <1>1, Top2
<1> DEFINE a == top[1]
           f == [i \in 0 .. K |-> Value(scalars[i]) * points[i]]
<1>4. a \in 0 .. K
  BY <1>2, <1>3
<1>5. \A i \in 0 .. K : Value(scalars[i]) \in Nat /\ points[i] \in Int
  <2> TAKE i \in 0 .. K
  <2>1. scalars[i] \in Scalars /\ points[i] \in 0 .. m - 1
    BY <1>1, <1>2
  <2> QED
    BY <2>1, ScalarType
<1>6. \A i \in 0 .. K : i # a => f[i] = 0
  <2> TAKE i \in 0 .. K
  <2> HAVE i # a
  <2>1. Value(scalars[i]) <= 0 /\ Value(scalars[i]) \in Nat /\ points[i] \in Int
    BY <1>2, <1>3, <1>5
  <2>2. Value(scalars[i]) = 0
    BY <2>1
  <2>3. Value(scalars[i]) * points[i] = 0
    BY <2>1, <2>2
  <2> QED
    BY <2>3
<1>7. f[a] = Value(scalars[a]) * points[a] /\ f[a] \in Int
  <2>1. Value(scalars[a]) \in Nat /\ points[a] \in Int
    BY <1>4, <1>5
  <2>2. Value(scalars[a]) * points[a] \in Int
    BY <2>1
  <2> QED
    BY <2>2, <1>4
<1>8. Multiples(points, scalars, K) = SumUpTo(f, K) % m
  BY DEF Multiples
<1> HIDE DEF f
<1>9. SumUpTo(f, K) = f[a]
  <2> HIDE DEF a
  <2> QED
    BY <1>2, <1>4, <1>6, <1>7, SumOne
<1>10. Multiples(points, scalars, K) = (Value(scalars[a]) * points[a]) % m
  BY <1>7, <1>8, <1>9
<1> QED
  BY <1>1, <1>3, <1>4, <1>10

\* The bit of number i in the limbs of x.
BitOf(x, i) == (x[i \div BPL] \div 2 ^ (i % BPL)) % 2

\* A quotient and a remainder are what they are.
LEMMA Quotient ==
  ASSUME NEW p \in Nat, p > 0, NEW q \in Int, NEW r \in Int, 0 <= r, r < p
  PROVE  (p * q + r) \div p = q /\ (p * q + r) % p = r
<1> DEFINE y == p * q + r
           d == y \div p
           e == y % p
<1>1. y \in Int
  OBVIOUS
<1> HIDE DEF y
<1>2. d \in Int /\ e \in Int /\ 0 <= e /\ e < p /\ y = p * d + e
  BY <1>1
<1> HIDE DEF d, e
<1>3. p * (d - q) = r - e
  BY <1>2 DEF y
<1>4. d = q
  <2> SUFFICES ASSUME d # q PROVE FALSE
    OBVIOUS
  <2>1. d - q >= 1 \/ d - q <= -1
    BY <1>2
  <2>2. CASE d - q >= 1
    <3>1. p * (d - q) >= p
      BY <2>2, <1>2
    <3> QED
      BY <3>1, <1>2, <1>3
  <2>3. CASE d - q <= -1
    <3>1. p * (d - q) <= -p
      BY <2>3, <1>2
    <3> QED
      BY <3>1, <1>2, <1>3
  <2> QED
    BY <2>1, <2>2, <2>3
<1>5. e = r
  BY <1>2, <1>3, <1>4
<1> QED
  BY <1>4, <1>5 DEF y, d, e

\* A number that is not zero has a highest bit.
LEMMA HighestBit ==
  ASSUME NEW y \in Nat, y # 0
  PROVE  \E j \in Nat : 2 ^ j <= y /\ y < 2 ^ (j + 1) /\ (y \div 2 ^ j) % 2 = 1
<1> DEFINE T == {j \in Nat : y < 2 ^ (j + 1)}
<1>1. y \in T
  <2>1. 2 ^ y \in Nat /\ 2 ^ y > y /\ 2 ^ (y + 1) = 2 * 2 ^ y
    BY PowerPositive, PowerNext
  <2> QED
    BY <2>1
<1>2. PICK j \in T : \A i \in T : j <= i
  <2> HIDE DEF T
  <2>1. T \in SUBSET Nat
    BY DEF T
  <2> QED
    BY <1>1, <2>1, LeastElement
<1>3. j \in Nat /\ y < 2 ^ (j + 1)
  OBVIOUS
<1>4. 2 ^ j \in Nat /\ 2 ^ j > 0 /\ 2 ^ (j + 1) = 2 * 2 ^ j
  BY <1>3, PowerPositive, PowerNext
<1>5. 2 ^ j <= y
  <2>1. CASE j = 0
    BY <2>1, PowerZero
  <2>2. CASE j # 0
    <3>1. j - 1 \in Nat /\ (j - 1) + 1 = j /\ ~(j <= j - 1)
      BY <2>2, <1>3
    <3>2. j - 1 \notin T
      BY <3>1, <1>2
    <3>3. ~(y < 2 ^ j)
      BY <3>1, <3>2
    <3> QED
      BY <3>3, <1>4
  <2> QED
    BY <2>1, <2>2
<1> DEFINE p == 2 ^ j
<1>6. p \in Nat /\ p > 0 /\ p <= y /\ y < 2 * p
  BY <1>3, <1>4, <1>5
<1> HIDE DEF p
<1>7. y \div p = 1
  <2>1. y - p \in Int /\ 0 <= y - p /\ y - p < p /\ p * 1 + (y - p) = y
    BY <1>6
  <2> QED
    BY <2>1, <1>6, Quotient
<1> QED
  BY <1>3, <1>4, <1>5, <1>7 DEF p

\* A bit that is set is part of the number; a number that is not zero has one.
LEMMA BitCounts ==
  ASSUME ShapeFits, NEW x \in Numbers, NEW i \in Nat, i \div BPL < SIZE, BitOf(x, i) = 1
  PROVE  2 ^ i <= Value(x)
<1> DEFINE k == i \div BPL
           e == i % BPL
           y == x[k]
<1>1. BPL \in Nat /\ BPL > 0 /\ SIZE \in Nat /\ Base \in Nat
  BY ShapeTypes
<1>2. k \in Int /\ e \in Int /\ i = BPL * k + e /\ 0 <= e /\ e < BPL
  BY <1>1
<1>3. k >= 0
  <2> HIDE DEF k, e
  <2> SUFFICES ASSUME k <= -1 PROVE FALSE
    BY <1>2
  <2>1. BPL * k <= -BPL
    BY <1>1, <1>2
  <2> QED
    BY <2>1, <1>1, <1>2
<1>4. k \in Limb /\ e \in Nat /\ k \in 0 .. SIZE /\ k \in Nat
  BY <1>1, <1>2, <1>3 DEF Limb
<1>5. y \in Nat
  BY <1>1, <1>4 DEF Numbers
<1>6. (y \div 2 ^ e) % 2 = 1
  BY DEF BitOf
<1> HIDE DEF k, e, y
<1>7. 2 ^ e <= y
  <2> DEFINE p == 2 ^ e
  <2>1. p \in Nat /\ p > 0
    BY <1>4, PowerPositive
  <2>2. (y \div p) % 2 = 1
    BY <1>6
  <2> HIDE DEF p
  <2>3. SUFFICES ASSUME y < p PROVE FALSE
    BY <2>1, <1>5 DEF p
  <2>4. y \div p = 0
    <3>1. y \in Int /\ 0 <= y /\ p * 0 + y = y
      BY <2>1, <1>5
    <3> QED
      BY <3>1, <2>1, <2>3, Quotient
  <2> QED
    BY <2>2, <2>4
<1>8. PICK v : IsValues(x, v) /\ Value(x) = v[0]
  BY ValueRuns
<1>9. 2 ^ (BPL * k) \in Nat /\ 2 ^ (BPL * k) * v[k] <= v[0]
  BY <1>4, <1>8, ValueFrom
<1>10. v[k] \in Nat /\ v[0] \in Nat /\ y <= v[k]
  <2>1. v[k] = y + Base * v[k + 1] /\ v \in [0 .. SIZE -> Nat] /\ k + 1 \in 0 .. SIZE
    BY <1>1, <1>4, <1>8 DEF IsValues, Limb, y
  <2>2. v[k + 1] \in Nat /\ v[k] \in Nat /\ v[0] \in Nat
    BY <2>1, <1>1, <1>4
  <2>3. Base * v[k + 1] \in Nat
    BY <2>2, <1>1
  <2> QED
    BY <2>1, <2>2, <2>3, <1>5
<1>11. 2 ^ i = 2 ^ (BPL * k) * 2 ^ e
  <2>1. BPL * k \in Nat
    BY <1>1, <1>4
  <2> QED
    BY <2>1, <1>2, <1>4, PowerSum
<1>12. 2 ^ (BPL * k) * 2 ^ e <= 2 ^ (BPL * k) * v[k]
  <2>1. 2 ^ e \in Nat /\ 2 ^ e <= v[k]
    BY <1>4, <1>5, <1>7, <1>10, PowerPositive
  <2> QED
    BY <2>1, <1>9, <1>10, Products
<1>13. 2 ^ (BPL * k) * 2 ^ e \in Nat /\ 2 ^ (BPL * k) * v[k] \in Nat
  <2>1. 2 ^ e \in Nat
    BY <1>4, PowerPositive
  <2> QED
    BY <2>1, <1>9, <1>10, Products
<1> QED
  BY <1>8, <1>9, <1>10, <1>11, <1>12, <1>13

\* A number other than zero has a bit that is set.
LEMMA HasBit ==
  ASSUME ShapeFits, NEW x \in Numbers, Value(x) # 0
  PROVE  \E i \in Nat : i \div BPL < SIZE /\ BitOf(x, i) = 1
<1>1. BPL \in Nat /\ BPL > 0 /\ SIZE \in Nat /\ Value(x) \in Nat
  BY ShapeTypes, ValueType
<1>2. PICK k \in Limb : x[k] # 0
  <2>1. -1 \in -1 .. SIZE - 1
    BY <1>1
  <2>2. ZeroAbove(x, -1) <=> Value(x) < 2 ^ (BPL * (-1 + 1))
    BY <2>1, ZeroAboveValue
  <2>3. BPL * (-1 + 1) = 0
    BY <1>1
  <2>4. ~ZeroAbove(x, -1)
    <3>1. 2 ^ (BPL * (-1 + 1)) = 1
      BY <2>3, PowerZero
    <3>2. ~(Value(x) < 1)
      BY <1>1
    <3> QED
      BY <3>1, <3>2, <2>2
  <2> QED
    BY <2>4 DEF ZeroAbove
<1>3. x[k] \in Nat /\ x[k] < 2 ^ BPL /\ k \in Nat /\ k < SIZE
  <2>1. x[k] \in 0 .. Base - 1 /\ Base \in Nat
    BY ShapeTypes DEF Numbers
  <2> QED
    BY <2>1, <1>1 DEF Base, Limb
<1>4. PICK j \in Nat : 2 ^ j <= x[k] /\ (x[k] \div 2 ^ j) % 2 = 1
  BY <1>2, <1>3, HighestBit
<1>5. j < BPL
  <2>1. 2 ^ j \in Nat /\ 2 ^ BPL \in Nat
    BY <1>1, PowerPositive
  <2>2. 2 ^ j < 2 ^ BPL
    BY <2>1, <1>3, <1>4
  <2> QED
    BY <2>2, <1>1, PowerLess
<1> DEFINE i == BPL * k + j
<1>6. i \in Nat
  BY <1>1, <1>3, Products
<1>7. i \div BPL = k /\ i % BPL = j
  <2>1. k \in Int /\ j \in Int /\ 0 <= j
    BY <1>3
  <2> QED
    BY <2>1, <1>1, <1>5, Quotient
<1> HIDE DEF i
<1>8. BitOf(x, i) = 1
  BY <1>4, <1>7 DEF BitOf
<1> QED
  BY <1>3, <1>6, <1>7, <1>8

\* A product with a number below the order is neutral only if the point is.
LEMMA Neutral ==
  ASSUME ShapeFits, NEW c \in 1 .. m - 1, NEW p \in 0 .. m - 1
  PROVE  (c * p) % m = 0 <=> p = 0
<1>1. m \in Nat /\ m > 1
  BY ShapeTypes
<1>2. CASE p = 0
  <2>1. c * p = 0
    BY <1>1, <1>2
  <2>2. 0 % m = 0
    BY <1>1
  <2> QED
    BY <2>1, <2>2, <1>2
<1>3. CASE p # 0
  <2>1. p \in 1 .. m - 1
    BY <1>1, <1>3
  <2> QED
    BY <2>1, <1>3, NoZeroDivisors
<1> QED
  BY <1>2, <1>3

\* What the doubling and adding comes to.
Doubles(r, N, point, bits) ==
  /\ N \in Nat /\ 2 ^ (N + 1) <= m
  /\ point \in 0 .. m - 1 /\ bits \in [0 .. N -> {0, 1}]
  /\ r[0] = point
  /\ \A i \in 1 .. N : r[i] = (2 * r[i - 1] + bits[i] * point) % m

\* What doubles and adds a point is neutral at the end only if the point is: it comes to a
\* multiple of the point by a number that the order does not divide.
LEMMA Doubling ==
  ASSUME ShapeFits, NEW N, NEW point, NEW bits, NEW r, Doubles(r, N, point, bits)
  PROVE  r[N] = 0 <=> point = 0
<1>0. m \in Nat /\ m > 1
  BY ShapeTypes
<1>a. /\ N \in Nat /\ 2 ^ (N + 1) <= m
      /\ point \in 0 .. m - 1 /\ bits \in [0 .. N -> {0, 1}]
      /\ r[0] = point
      /\ \A i \in 1 .. N : r[i] = (2 * r[i - 1] + bits[i] * point) % m
  BY DEF Doubles
<1> DEFINE T == {i \in 0 .. N : \E c \in Nat : /\ 2 ^ i <= c /\ c < 2 ^ (i + 1)
                                               /\ r[i] = (c * point) % m}
<1>1. 0 \in T
  <2>1. 2 ^ 0 = 1 /\ 2 ^ (0 + 1) = 2 * 2 ^ 0
    BY PowerZero, PowerNext
  <2>2. r[0] = (1 * point) % m
    <3>1. 1 * point = point
      BY <1>0, <1>a
    <3>2. point % m = point
      BY <1>0, <1>a, Remainder
    <3> QED
      BY <3>1, <3>2, <1>a
  <2>3. 2 ^ 0 <= 1 /\ 1 < 2 ^ (0 + 1)
    BY <2>1
  <2>4. 1 \in Nat /\ 0 \in 0 .. N
    BY <1>a
  <2>5. \E c \in Nat : 2 ^ 0 <= c /\ c < 2 ^ (0 + 1) /\ r[0] = (c * point) % m
    BY <2>2, <2>3, <2>4
  <2> QED
    BY <2>4, <2>5
<1>2. \A i \in 0 + 1 .. N : i - 1 \in T => i \in T
  <2> TAKE i \in 0 + 1 .. N
  <2> HAVE i - 1 \in T
  <2>1. PICK c \in Nat : /\ 2 ^ (i - 1) <= c /\ c < 2 ^ ((i - 1) + 1)
                         /\ r[i - 1] = (c * point) % m
    OBVIOUS
  <2>2. i \in 1 .. N /\ i \in Nat /\ i - 1 \in Nat /\ (i - 1) + 1 = i /\ i \in 0 .. N
    OBVIOUS
  <2>3. 2 ^ i = 2 * 2 ^ (i - 1) /\ 2 ^ (i + 1) = 2 * 2 ^ i /\ 2 ^ i \in Nat /\ 2 ^ (i - 1) \in Nat
    <3>1. 2 ^ ((i - 1) + 1) = 2 * 2 ^ (i - 1)
      BY <2>2, PowerNext
    <3> QED
      BY <3>1, <2>2, PowerNext, PowerPositive
  <2> DEFINE b == bits[i]
             d == 2 * c + b
             q == (c * point) % m
  <2>4. b = 0 \/ b = 1
    BY <2>2, <1>a
  <2>5. d \in Nat /\ 2 ^ i <= d /\ d < 2 ^ (i + 1)
    <3> HIDE DEF b
    <3>1. c < 2 ^ i
      BY <2>1, <2>2
    <3> QED
      BY <3>1, <2>1, <2>3, <2>4
  <2>6. q \in Int /\ Congruent(q, c * point) /\ c * point \in Int /\ d * point \in Int
    <3>1. c * point \in Int /\ d * point \in Int
      BY <2>5, <1>0, <1>a
    <3>2. q \in 0 .. m - 1 /\ Congruent(q, c * point)
      <4> DEFINE x == c * point
      <4>1. x \in Int /\ q = x % m
        BY <3>1
      <4> HIDE DEF x, q
      <4>2. q \in 0 .. m - 1 /\ Congruent(q, x)
        BY <4>1, <1>0, Remainder
      <4> QED
        BY <4>2 DEF x
    <3> QED
      BY <3>1, <3>2, <1>0
  <2>7. r[i] = (2 * q + b * point) % m
    BY <2>1, <2>2, <1>a
  <2>8. Congruent(2 * q + b * point, d * point)
    <3> HIDE DEF b, q
    <3>1. PICK k \in Int : q = c * point + k * m
      BY <2>6 DEF Congruent
    <3>2. 2 * k \in Int /\ 2 * q + b * point = d * point + (2 * k) * m
      <4>1. CASE b = 0
        BY <4>1, <3>1, <2>6, <1>0, <1>a
      <4>2. CASE b = 1
        BY <4>2, <3>1, <2>6, <1>0, <1>a
      <4> QED
        BY <4>1, <4>2, <2>4
    <3> QED
      BY <3>2 DEF Congruent
  <2>9. r[i] = (d * point) % m
    <3> HIDE DEF q, d, b
    <3>1. 2 * q + b * point \in Int
      <4>1. CASE b = 0
        BY <4>1, <2>6, <1>0, <1>a
      <4>2. CASE b = 1
        BY <4>2, <2>6, <1>0, <1>a
      <4> QED
        BY <4>1, <4>2, <2>4
    <3> QED
      BY <3>1, <2>6, <2>7, <2>8, <1>0, Remainder
  <2> HIDE DEF d
  <2> QED
    BY <2>2, <2>5, <2>9
<1> HIDE DEF T
<1>3. N \in T
  <2>1. \A i \in 0 .. N : i \in T
    <3>1. 0 \in Int /\ N \in Int
      BY <1>a
    <3> QED
      BY <3>1, <1>1, <1>2, InductionUp
  <2> QED
    BY <2>1, <1>a
<1>4. PICK c \in Nat : 2 ^ N <= c /\ c < 2 ^ (N + 1) /\ r[N] = (c * point) % m
  BY <1>3 DEF T
<1>5. c \in 1 .. m - 1
  <2>1. 2 ^ N \in Nat /\ 2 ^ N > 0 /\ 2 ^ (N + 1) \in Nat
    <3>1. N \in Nat /\ N + 1 \in Nat
      BY <1>a
    <3> QED
      BY <3>1, PowerPositive
  <2> QED
    BY <2>1, <1>0, <1>4, <1>a
<1> QED
  BY <1>4, <1>5, <1>a, Neutral

\* Quotients are in the order of what is divided.
LEMMA QuotientLess ==
  ASSUME NEW p \in Nat, p > 0, NEW e \in Nat, NEW f \in Nat, e <= f
  PROVE  e \div p \in Nat /\ e \div p <= f \div p
<1> DEFINE k == e \div p
           l == f \div p
           a == e % p
           b == f % p
<1>1. /\ k \in Int /\ a \in Int /\ 0 <= a /\ a < p /\ e = p * k + a
      /\ l \in Int /\ b \in Int /\ 0 <= b /\ b < p /\ f = p * l + b
  OBVIOUS
<1> HIDE DEF k, l, a, b
<1>2. k <= l
  <2> SUFFICES ASSUME k - l >= 1 PROVE FALSE
    BY <1>1
  <2>1. p * (k - l) >= p
    BY <1>1
  <2>2. p * (k - l) = (e - f) + (b - a)
    BY <1>1
  <2> QED
    BY <2>1, <2>2, <1>1
<1>3. k >= 0
  <2> SUFFICES ASSUME k <= -1 PROVE FALSE
    BY <1>1
  <2>1. p * k <= -p
    BY <1>1
  <2> QED
    BY <2>1, <1>1
<1> QED
  BY <1>1, <1>2, <1>3 DEF k, l

\* The multiple of the last point is neutral if and only if the multiple the scalar
\* stands for is.
LEMMA FinalNeutral ==
  ASSUME ShapeFits, KeepPromise(Scalars), NEW point \in 0 .. m - 1, NEW scalar \in Scalars,
         Value(scalar) < 2 ^ HALF
  PROVE  ge25519_multi_scalarmult_vartime_final(point, scalar) = 0
           <=> (Value(scalar) * point) % m = 0
<1>0. /\ m \in Nat /\ m > 1 /\ HALF \in Nat /\ 2 ^ HALF \in Nat /\ 2 * 2 ^ HALF <= m
      /\ 2 ^ (HALF + 1) = 2 * 2 ^ HALF
      /\ BPL \in Nat /\ BPL > 0 /\ SIZE \in Nat
  BY ShapeTypes
<1>1. scalar \in Numbers /\ Value(scalar) \in Nat /\ Value(scalar) < m
  BY ScalarType
<1>2. /\ isone256(scalar) <=> Value(scalar) = 1
      /\ iszero256(scalar) <=> Value(scalar) = 0
  <2>1. /\ isone256(scalar) = (Value(scalar) = 1)
        /\ iszero256(scalar) = (Value(scalar) = 0)
    BY DEF KeepPromise
  <2> QED
    BY <2>1
<1> DEFINE set == {i \in 0 .. BPL * (limb128bits + 1) - 1 :
                     i \div BPL < SIZE /\ (scalar[i \div BPL] \div 2 ^ (i % BPL)) % 2 = 1}
           first == CHOOSE i \in set : \A j \in set : j <= i
           bit(i) == (scalar[i \div BPL] \div 2 ^ (i % BPL)) % 2
           N == first + 1
           Eq(f) == f = [i \in 0 .. first + 1 |->
                  IF i = 0 THEN point ELSE (2 * f[i - 1] + bit(first + 1 - i) * point) % m]
           r == CHOOSE f : Eq(f)
           final == ge25519_multi_scalarmult_vartime_final(point, scalar)
<1>3. final = IF isone256(scalar) THEN point
              ELSE IF iszero256(scalar) THEN 0 ELSE r[first + 1]
  BY DEF ge25519_multi_scalarmult_vartime_final
<1> HIDE DEF final
<1>4. CASE Value(scalar) = 1
  <2>1. final = point
    BY <1>2, <1>3, <1>4
  <2>2. 1 \in 1 .. m - 1
    BY <1>0
  <2>3. (1 * point) % m = 0 <=> point = 0
    BY <2>2, Neutral
  <2> QED
    BY <2>1, <2>3, <1>4 DEF final
<1>5. CASE Value(scalar) = 0
  <2>1. final = 0
    BY <1>2, <1>3, <1>5
  <2>2. (0 * point) % m = 0
    BY <1>0
  <2> QED
    BY <2>1, <2>2, <1>5 DEF final
<1>6. CASE Value(scalar) # 1 /\ Value(scalar) # 0
  <2>1. final = r[N]
    BY <1>2, <1>3, <1>6
  <2>2. \A i \in set : i \in Nat /\ 2 ^ i <= Value(scalar)
    <3> TAKE i \in set
    <3>1. i \in Nat /\ i \div BPL < SIZE /\ BitOf(scalar, i) = 1
      BY DEF BitOf
    <3> QED
      BY <3>1, <1>1, BitCounts
  <2>3. \A i \in Nat : i \div BPL < SIZE /\ BitOf(scalar, i) = 1 => i \in set
    <3> SUFFICES ASSUME NEW i \in Nat, i \div BPL < SIZE, BitOf(scalar, i) = 1
                 PROVE  i \in 0 .. BPL * (limb128bits + 1) - 1
      BY DEF BitOf
    <3>1. 2 ^ i <= Value(scalar)
      BY <1>1, BitCounts
    <3>2. 2 ^ i \in Nat
      BY PowerPositive
    <3>3. i < HALF
      <4>1. 2 ^ i < 2 ^ HALF
        BY <3>1, <3>2, <1>0, <1>1
      <4> QED
        BY <4>1, <1>0, PowerLess
    <3>4. HALF <= BPL * (limb128bits + 1)
      <4> DEFINE y == HALF + BPL - 1
                 q == y \div BPL
                 e == y % BPL
      <4>1. y \in Int /\ limb128bits = q
        BY <1>0 DEF limb128bits
      <4>2. q \in Int /\ e \in Int /\ 0 <= e /\ e < BPL /\ y = BPL * q + e
        BY <4>1, <1>0
      <4> HIDE DEF q, e
      <4>3. BPL * (q + 1) = BPL * q + BPL
        BY <4>2, <1>0
      <4> QED
        BY <4>1, <4>2, <4>3, <1>0
    <3>5. limb128bits \in Int
      BY <1>0 DEF limb128bits
    <3> HIDE DEF limb128bits
    <3> QED
      BY <3>3, <3>4, <3>5, <1>0
  <2>4. PICK i0 \in set : TRUE
    <3>1. PICK i \in Nat : i \div BPL < SIZE /\ BitOf(scalar, i) = 1
      BY <1>1, <1>6, HasBit
    <3> QED
      BY <3>1, <2>3
  <2> HIDE DEF set
  <2>5. \A i \in set : i \in Nat /\ i < HALF
    <3> TAKE i \in set
    <3>1. i \in Nat /\ 2 ^ i <= Value(scalar)
      BY <2>2
    <3>2. 2 ^ i \in Nat
      BY <3>1, PowerPositive
    <3>3. 2 ^ i < 2 ^ HALF
      BY <3>1, <3>2, <1>0, <1>1
    <3> QED
      BY <3>1, <3>3, <1>0, PowerLess
  <2>6. \E i \in set : \A j \in set : j <= i
    <3> DEFINE T == {n \in Nat : \E i \in set : n = HALF - i}
    <3>1. HALF - i0 \in T
      BY <2>4, <2>5, <1>0
    <3>2. PICK n \in T : \A k \in T : n <= k
      <4> HIDE DEF T
      <4>1. T \in SUBSET Nat
        BY DEF T
      <4> QED
        BY <3>1, <4>1, LeastElement
    <3>3. PICK i \in set : n = HALF - i
      BY <3>2
    <3>4. \A j \in set : j <= i
      <4> TAKE j \in set
      <4>1. j \in Nat /\ i \in Nat /\ j < HALF
        BY <2>5
      <4>2. HALF - j \in T
        BY <4>1, <1>0
      <4>3. n <= HALF - j
        BY <4>2, <3>2
      <4> HIDE DEF T
      <4> QED
        BY <4>1, <4>3, <3>3, <1>0
    <3> QED
      BY <3>4
  <2>7. first \in set
    BY <2>6
  <2>8. first \in Nat /\ first < HALF
    BY <2>5, <2>7
  <2> DEFINE bits == [i \in 0 .. N |-> IF i = 0 THEN 0 ELSE bit(N - i)]
  <2>9. bits \in [0 .. N -> {0, 1}]
    <3>1. \A i \in 1 .. N : bit(N - i) \in {0, 1}
      <4> TAKE i \in 1 .. N
      <4> DEFINE e == N - i
      <4>1. e \in Nat /\ e <= first
        BY <2>8
      <4> HIDE DEF e, first
      <4>2. \A y \in Int : y % 2 \in {0, 1}
        OBVIOUS
      <4>3. e \div BPL \in Int /\ e % BPL \in Nat
        BY <4>1, <1>0
      <4>4. e \div BPL \in Limb
        <5>1. first \div BPL < SIZE /\ first \in Nat
          BY <2>7, <2>8 DEF set
        <5>2. e \div BPL \in Nat /\ e \div BPL <= first \div BPL
          BY <5>1, <4>1, <1>0, QuotientLess
        <5>3. first \div BPL \in Int
          BY <5>1, <1>0
        <5> QED
          BY <5>1, <5>2, <5>3, <1>0 DEF Limb
      <4>5. scalar[e \div BPL] \in Nat
        BY <4>4, <1>1, ShapeTypes DEF Numbers
      <4>6. 2 ^ (e % BPL) \in Nat /\ 2 ^ (e % BPL) > 0
        BY <4>3, PowerPositive
      <4> DEFINE t == scalar[e \div BPL]
                 u == 2 ^ (e % BPL)
      <4>7. t \in Nat /\ u \in Nat /\ u > 0
        BY <4>5, <4>6
      <4>8. bit(e) = (t \div u) % 2
        OBVIOUS
      <4> HIDE DEF t, u
      <4>9. t \div u \in Int
        BY <4>7
      <4>10. bit(e) \in {0, 1}
        <5> HIDE DEF bit
        <5> QED
          BY <4>2, <4>8, <4>9
      <4> QED
        BY <4>10 DEF e
    <3> HIDE DEF first, bit
    <3> QED
      BY <3>1, <2>8
  <2> HIDE DEF first, bit, r
  <2>10. N \in Nat /\ 2 ^ (N + 1) <= m
    <3>1. N + 1 <= HALF + 1 /\ N + 1 \in Nat /\ HALF + 1 \in Nat
      BY <2>8, <1>0
    <3>2. 2 ^ (N + 1) <= 2 ^ (HALF + 1)
      BY <3>1, PowerLess
    <3>3. 2 ^ (N + 1) \in Nat
      BY <3>1, PowerPositive
    <3> QED
      BY <3>2, <3>3, <2>8, <1>0
  <2>11. r = [i \in 0 .. N |-> IF i = 0 THEN point ELSE (2 * r[i - 1] + bit(N - i) * point) % m]
    <3> DEFINE V == Int
               F == [p \in (0 + 1 .. N) \X V |-> (2 * p[2] + bits[p[1]] * point) % m]
    <3>1. Rounds(F, V, 0, N)
      <4>1. \A p \in (0 + 1 .. N) \X V : (2 * p[2] + bits[p[1]] * point) % m \in Int
        <5> TAKE p \in (0 + 1 .. N) \X V
        <5>1. p[1] \in 0 .. N /\ p[2] \in Int
          BY <2>10
        <5>2. bits[p[1]] \in {0, 1}
          BY <5>1, <2>9
        <5> DEFINE b == bits[p[1]]
        <5>3. b = 0 \/ b = 1
          BY <5>2
        <5> HIDE DEF b
        <5>4. 2 * p[2] + b * point \in Int
          BY <5>1, <5>3, <1>0
        <5>5. (2 * p[2] + b * point) % m \in Int
          BY <5>4, <1>0
        <5> QED
          BY <5>5 DEF b
      <4>2. F \in [(0 + 1 .. N) \X V -> V]
        BY <4>1
      <4> HIDE DEF F, N
      <4> QED
        BY <4>2, <2>10 DEF Rounds
    <3>2. \A i \in 0 + 1 .. N, v \in V : F[<<i, v>>] = (2 * v + bit(N - i) * point) % m
      <4>1. \A i \in 0 + 1 .. N : bits[i] = bit(N - i)
        BY <2>10
      <4> HIDE DEF bits
      <4> QED
        BY <4>1
    <3> HIDE DEF F
    <3>3. PICK h : Runs(h, F, V, 0, N, point)
      <4>1. point \in V
        BY <1>0
      <4> QED
        BY <4>1, <3>1, LoopExists
    <3>4. /\ h \in [0 .. N -> V] /\ h[0] = point
          /\ \A n \in 0 + 1 .. N : h[n] = F[<<n, h[n - 1]>>]
      BY <3>3 DEF Runs
    <3>5. \A i \in 0 .. N : h[i] = IF i = 0 THEN point ELSE (2 * h[i - 1] + bit(N - i) * point) % m
      <4> TAKE i \in 0 .. N
      <4>1. CASE i = 0
        BY <3>4, <4>1
      <4>2. CASE i # 0
        <5>1. i \in 0 + 1 .. N /\ h[i - 1] \in V
          BY <3>4, <4>2, <2>8
        <5> QED
          BY <3>2, <3>4, <5>1, <4>2
      <4> QED
        BY <4>1, <4>2
    <3>6. \A i \in 0 .. N : bit(first + 1 - i) = bit(N - i)
      <4> TAKE i \in 0 .. N
      <4>1. first + 1 - i = N - i
        BY <2>8
      <4> QED
        BY <4>1 DEF bit
    <3>7. Eq(h)
      <4>1. \A i \in 0 .. N :
              h[i] = IF i = 0 THEN point ELSE (2 * h[i - 1] + bit(first + 1 - i) * point) % m
        BY <3>5, <3>6
      <4> QED
        BY <3>4, <4>1
    <3> HIDE DEF Eq
    <3>8. Eq(r)
      BY <3>7 DEF r
    <3> HIDE DEF r
    <3>9. r = [i \in 0 .. N |->
                 IF i = 0 THEN point ELSE (2 * r[i - 1] + bit(first + 1 - i) * point) % m]
      BY <3>8 DEF Eq
    <3>10. \A i \in 0 .. N :
             r[i] = IF i = 0 THEN point ELSE (2 * r[i - 1] + bit(N - i) * point) % m
      BY <3>6, <3>9
    <3> QED
      BY <3>9, <3>10
  <2>12. r[0] = point /\ \A i \in 1 .. N : r[i] = (2 * r[i - 1] + bits[i] * point) % m
    <3>1. r[0] = point
      BY <2>11, <2>10
    <3>2. \A i \in 1 .. N : i \in 0 .. N /\ i # 0 /\ bits[i] = bit(N - i)
      BY <2>10
    <3> HIDE DEF bits
    <3>3. \A i \in 1 .. N : r[i] = (2 * r[i - 1] + bits[i] * point) % m
      BY <3>2, <2>11
    <3> QED
      BY <3>1, <3>3
  <2> HIDE DEF bits, N
  <2>13. r[N] = 0 <=> point = 0
    <3>1. Doubles(r, N, point, bits)
      BY <2>9, <2>10, <2>12 DEF Doubles
    <3> QED
      BY <3>1, Doubling
  <2>14. Value(scalar) \in 1 .. m - 1
    BY <1>0, <1>1, <1>6
  <2>15. (Value(scalar) * point) % m = 0 <=> point = 0
    BY <2>14, Neutral
  <2> QED
    BY SMTT(40), <2>1, <2>13, <2>15 DEF N, final
<1> QED
  BY <1>4, <1>5, <1>6

\* What Gather makes of the signatures that are left.
SigFits(s) ==
  /\ s.unpacks \in BOOLEAN /\ s.A \in 0 .. m - 1 /\ s.R \in 0 .. m - 1
  /\ expand256(s.S) \in Scalars /\ expand256(s.hram) \in Scalars

RandomFits(random) ==
  \A i \in 1 .. max_batch_size :
    expand256(random[i]) \in Scalars /\ Value(expand256(random[i])) < 2 ^ HALF

Gathered(left, random, n, r, rS, scalars, points, size, heap) ==
  /\ n = IF Len(left) > max_batch_size THEN max_batch_size ELSE Len(left)
  /\ r = [i \in 1 .. n |-> expand256(random[i])]
  /\ rS = CHOOSE f : f = [i \in 1 .. n |->
            IF i = 1 THEN mul256(expand256(left[i].S), r[i])
            ELSE add256(f[i - 1], mul256(expand256(left[i].S), r[i]))]
  /\ scalars = [i \in 0 .. 2 * n |->
       IF i = 0 THEN rS[n]
       ELSE IF i <= n THEN mul256(expand256(left[i].hram), r[i])
       ELSE r[i - n]]
  /\ points = [i \in 0 .. 2 * n |->
       IF i = 0 THEN 1
       ELSE IF i <= n THEN (m - left[i].A) % m ELSE (m - left[i - n].R) % m]
  /\ size = IF (n + 1) % 2 = 1 THEN n + 1 ELSE n + 2
  /\ heap = heap_extend([i \in 0 .. 2 * n |-> 0], 0, size, scalars)

\* The signatures and the random numbers are as they should be.
Offered(left, random) ==
  /\ max_batch_size \in Nat /\ max_batch_size > 0
  /\ Len(left) \in Nat /\ Len(left) > 3
  /\ \A i \in 1 .. Len(left) : SigFits(left[i])
  /\ RandomFits(random)

\* The running sum of r S.
SumsFit(left, n, r, rS) ==
  /\ rS \in [1 .. n -> Scalars]
  /\ rS[1] = mul256(expand256(left[1].S), r[1])
  /\ \A i \in 2 .. n :
       rS[i] = add256(rS[i - 1], mul256(expand256(left[i].S), r[i]))

\* A batch has at least one signature, and no more than are left.
LEMMA BatchSize ==
  ASSUME NEW left, NEW random, Offered(left, random),
         NEW n, n = IF Len(left) > max_batch_size THEN max_batch_size ELSE Len(left)
  PROVE  n \in Nat /\ 1 <= n /\ n <= Len(left) /\ n <= max_batch_size
BY DEF Offered

\* The first scalar is r1 S1 + r2 S2 + ... modulo the order.
LEMMA GatheredSums ==
  ASSUME ShapeFits, KeepPromise(Scalars), NEW left, NEW n \in Nat, 1 <= n,
         \A i \in 1 .. n : SigFits(left[i]), NEW r \in [1 .. n -> Scalars],
         NEW rS, rS = CHOOSE f : f = [i \in 1 .. n |->
            IF i = 1 THEN mul256(expand256(left[i].S), r[i])
            ELSE add256(f[i - 1], mul256(expand256(left[i].S), r[i]))]
  PROVE  SumsFit(left, n, r, rS)
<1> DEFINE term(i) == mul256(expand256(left[i].S), r[i])
           F == [p \in (1 + 1 .. n) \X Scalars |-> add256(p[2], term(p[1]))]
           Eq(f) == f = [i \in 1 .. n |-> IF i = 1 THEN term(i) ELSE add256(f[i - 1], term(i))]
<1>1. \A i \in 1 .. n : term(i) \in Scalars
  BY DEF SigFits, KeepPromise
<1>2. rS = CHOOSE f : Eq(f)
  OBVIOUS
<1> HIDE DEF term
<1>3. Rounds(F, Scalars, 1, n)
  <2>1. \A p \in (1 + 1 .. n) \X Scalars : add256(p[2], term(p[1])) \in Scalars
    <3> TAKE p \in (1 + 1 .. n) \X Scalars
    <3>1. p[1] \in 1 .. n /\ p[2] \in Scalars
      OBVIOUS
    <3>2. term(p[1]) \in Scalars
      BY <3>1, <1>1
    <3> QED
      BY <3>1, <3>2 DEF KeepPromise
  <2>2. F \in [(1 + 1 .. n) \X Scalars -> Scalars]
    BY <2>1
  <2> HIDE DEF F
  <2> QED
    BY <2>2 DEF Rounds
<1>4. \A i \in 1 + 1 .. n, v \in Scalars : F[<<i, v>>] = add256(v, term(i))
  OBVIOUS
<1> HIDE DEF F
<1>5. PICK h : Runs(h, F, Scalars, 1, n, term(1))
  <2>1. 1 \in 1 .. n
    OBVIOUS
  <2>2. term(1) \in Scalars
    BY <2>1, <1>1
  <2> QED
    BY <2>2, <1>3, LoopExists
<1>6. /\ h \in [1 .. n -> Scalars] /\ h[1] = term(1)
      /\ \A i \in 1 + 1 .. n : h[i] = F[<<i, h[i - 1]>>]
  BY <1>5 DEF Runs
<1>7. \A i \in 1 .. n : h[i] = IF i = 1 THEN term(i) ELSE add256(h[i - 1], term(i))
  <2> TAKE i \in 1 .. n
  <2>1. CASE i = 1
    BY <2>1, <1>6
  <2>2. CASE i # 1
    <3>1. i \in 1 + 1 .. n /\ i - 1 \in 1 .. n
      BY <2>2
    <3>2. h[i - 1] \in Scalars
      BY <3>1, <1>6
    <3> QED
      BY <3>1, <3>2, <2>2, <1>4, <1>6
  <2> QED
    BY <2>1, <2>2
<1>8. Eq(h)
  BY <1>6, <1>7
<1> HIDE DEF Eq
<1>9. Eq(rS)
  BY <1>2, <1>8
<1>10. rS = [i \in 1 .. n |-> IF i = 1 THEN term(i) ELSE add256(rS[i - 1], term(i))]
  BY <1>9 DEF Eq
<1>11. rS[1] = term(1) /\ \A i \in 2 .. n : rS[i] = add256(rS[i - 1], term(i))
  <2>1. 1 \in 1 .. n /\ \A i \in 2 .. n : i \in 1 .. n /\ i # 1
    OBVIOUS
  <2> QED
    BY <1>10, <2>1 DEF term
<1>12. \A i \in 1 .. n : rS[i] \in Scalars
  <2> DEFINE T == {i \in 1 .. n : rS[i] \in Scalars}
  <2>1. 1 \in T
    <3>1. 1 \in 1 .. n
      OBVIOUS
    <3> QED
      BY <3>1, <1>1, <1>11
  <2>2. \A i \in 1 + 1 .. n : i - 1 \in T => i \in T
    <3> TAKE i \in 1 + 1 .. n
    <3> HAVE i - 1 \in T
    <3>1. i \in 2 .. n /\ i \in 1 .. n /\ rS[i - 1] \in Scalars
      OBVIOUS
    <3>2. rS[i] = add256(rS[i - 1], term(i)) /\ term(i) \in Scalars
      BY <3>1, <1>1, <1>11
    <3>3. rS[i] \in Scalars
      BY <3>1, <3>2 DEF KeepPromise
    <3> QED
      BY <3>1, <3>3
  <2>3. 1 \in Int /\ n \in Int
    OBVIOUS
  <2> HIDE DEF T
  <2>4. \A i \in 1 .. n : i \in T
    BY <2>1, <2>2, <2>3, InductionUp
  <2> QED
    BY <2>4 DEF T
<1>13. rS \in [1 .. n -> Scalars]
  BY <1>10, <1>12
<1> QED
  BY <1>11, <1>13 DEF SumsFit, term

\* What Gather makes of signatures and random numbers are scalars and points.
LEMMA GatheredTypes ==
  ASSUME ShapeFits, KeepPromise(Scalars), NEW left, NEW random, Offered(left, random),
         NEW n, NEW r, NEW rS, NEW scalars, NEW points, NEW size, NEW heap,
         Gathered(left, random, n, r, rS, scalars, points, size, heap)
  PROVE  /\ n \in Nat /\ 1 <= n /\ n <= Len(left) /\ n <= max_batch_size
         /\ r \in [1 .. n -> Scalars] /\ \A i \in 1 .. n : Value(r[i]) < 2 ^ HALF
         /\ SumsFit(left, n, r, rS)
         /\ scalars \in [0 .. 2 * n -> Scalars]
         /\ points \in [0 .. 2 * n -> 0 .. m - 1]
<1>1. n \in Nat /\ 1 <= n /\ n <= Len(left) /\ n <= max_batch_size
  <2>1. n = IF Len(left) > max_batch_size THEN max_batch_size ELSE Len(left)
    BY DEF Gathered
  <2> QED
    BY <2>1, BatchSize
<1>2. \A i \in 1 .. n : /\ SigFits(left[i])
                        /\ expand256(random[i]) \in Scalars
                        /\ Value(expand256(random[i])) < 2 ^ HALF
  <2>1. \A i \in 1 .. n : i \in 1 .. Len(left) /\ i \in 1 .. max_batch_size
    BY <1>1 DEF Offered
  <2> QED
    BY <2>1 DEF Offered, RandomFits
<1>3. r = [i \in 1 .. n |-> expand256(random[i])]
  BY DEF Gathered
<1>4. r \in [1 .. n -> Scalars] /\ \A i \in 1 .. n : Value(r[i]) < 2 ^ HALF
  BY <1>2, <1>3
<1>5. SumsFit(left, n, r, rS)
  <2>1. rS = CHOOSE f : f = [i \in 1 .. n |->
            IF i = 1 THEN mul256(expand256(left[i].S), r[i])
            ELSE add256(f[i - 1], mul256(expand256(left[i].S), r[i]))]
    BY DEF Gathered
  <2> QED
    BY <2>1, <1>1, <1>2, <1>4, GatheredSums
<1>6. scalars \in [0 .. 2 * n -> Scalars]
  <2>1. scalars = [i \in 0 .. 2 * n |->
       IF i = 0 THEN rS[n]
       ELSE IF i <= n THEN mul256(expand256(left[i].hram), r[i])
       ELSE r[i - n]]
    BY DEF Gathered
  <2>2. rS[n] \in Scalars
    BY <1>1, <1>5 DEF SumsFit
  <2>3. \A i \in 1 .. n : mul256(expand256(left[i].hram), r[i]) \in Scalars
    BY <1>2, <1>4 DEF KeepPromise, SigFits
  <2>4. \A i \in n + 1 .. 2 * n : r[i - n] \in Scalars
    <3> TAKE i \in n + 1 .. 2 * n
    <3>1. i - n \in 1 .. n
      BY <1>1
    <3> QED
      BY <3>1, <1>4
  <2>5. \A i \in 0 .. 2 * n : i = 0 \/ i \in 1 .. n \/ (i \in n + 1 .. 2 * n /\ ~(i <= n) /\ i # 0)
    BY <1>1
  <2> QED
    BY <2>1, <2>2, <2>3, <2>4, <2>5
<1>7. points \in [0 .. 2 * n -> 0 .. m - 1]
  <2>1. points = [i \in 0 .. 2 * n |->
       IF i = 0 THEN 1
       ELSE IF i <= n THEN (m - left[i].A) % m ELSE (m - left[i - n].R) % m]
    BY DEF Gathered
  <2>2. m \in Nat /\ m > 1
    BY ShapeTypes
  <2>3. \A a \in 0 .. m - 1 : (m - a) % m \in 0 .. m - 1
    BY <2>2
  <2>4. \A i \in 0 .. 2 * n : i # 0 => IF i <= n THEN i \in 1 .. n ELSE i - n \in 1 .. n
    BY <1>1
  <2>5. \A i \in 1 .. n : left[i].A \in 0 .. m - 1 /\ left[i].R \in 0 .. m - 1
    BY <1>2 DEF SigFits
  <2>6. 1 \in 0 .. m - 1
    BY <2>2
  <2>7. \A i \in 0 .. 2 * n : points[i] \in 0 .. m - 1
    <3> TAKE i \in 0 .. 2 * n
    <3>1. CASE i = 0
      BY <3>1, <2>1, <2>6
    <3>2. CASE i # 0 /\ i <= n
      BY <3>2, <2>1, <2>3, <2>4, <2>5
    <3>3. CASE i # 0 /\ ~(i <= n)
      BY <3>3, <2>1, <2>3, <2>4, <2>5
    <3> QED
      BY <3>1, <3>2, <3>3
  <2> QED
    BY <2>1, <2>7
<1> QED
  BY <1>1, <1>4, <1>5, <1>6, <1>7

\* The heap starts with the larger half, and the base point.
LEMMA GatheredWorks ==
  ASSUME ShapeFits, KeepPromise(Scalars), NEW left, NEW random, Offered(left, random),
         NEW n, NEW r, NEW rS, NEW scalars, NEW points, NEW size, NEW heap,
         Gathered(left, random, n, r, rS, scalars, points, size, heap)
  PROVE  Working(2 * n, points, scalars, heap, size, SIZE - 1, FALSE)
<1>1. /\ n \in Nat /\ 1 <= n
      /\ r \in [1 .. n -> Scalars] /\ \A i \in 1 .. n : Value(r[i]) < 2 ^ HALF
      /\ scalars \in [0 .. 2 * n -> Scalars]
      /\ points \in [0 .. 2 * n -> 0 .. m - 1]
  BY GatheredTypes
<1>2. size = IF (n + 1) % 2 = 1 THEN n + 1 ELSE n + 2
  BY DEF Gathered
<1>3. size \in Nat /\ n + 1 <= size /\ size >= 3 /\ size <= 2 * n + 1 /\ size % 2 = 1
  <2>1. CASE (n + 1) % 2 = 1
    BY <2>1, <1>1, <1>2
  <2>2. CASE (n + 1) % 2 # 1
    <3>1. size = n + 2
      BY <2>2, <1>2
    <3>2. (n + 2) % 2 = 1
      <4> DEFINE q == (n + 1) \div 2
                 e == (n + 1) % 2
      <4>1. q \in Int /\ e \in 0 .. 1 /\ n + 1 = 2 * q + e /\ e # 1
        BY <2>2, <1>1
      <4> HIDE DEF q, e
      <4>2. n + 2 = 2 * q + 1
        BY <4>1, <1>1
      <4>3. (2 * q + 1) % 2 = 1
        BY <4>1
      <4> QED
        BY <4>2, <4>3
    <3>3. n + 2 >= 3 /\ n + 2 <= 2 * n + 1 /\ n + 2 \in Nat /\ n + 1 <= n + 2
      BY <1>1
    <3> QED
      BY <3>1, <3>2, <3>3
  <2> QED
    BY <2>1, <2>2
<1> DEFINE K == 2 * n
           none == [i \in 0 .. K |-> 0]
<1>4. K \in Nat /\ n <= K /\ size \in 0 .. K + 1
  BY <1>1, <1>3
<1>5. heap = heap_extend(none, 0, size, scalars)
  BY DEF Gathered
<1>6. scalars \in [0 .. K -> Scalars] /\ points \in [0 .. K -> 0 .. m - 1]
  BY <1>1
<1>7. none \in [0 .. K -> 0 .. K]
  BY <1>4
<1> HIDE DEF none
<1>8. \A i \in size .. K : Value(scalars[i]) < 2 ^ HALF
  <2> TAKE i \in size .. K
  <2>1. i \in 0 .. 2 * n /\ i # 0 /\ ~(i <= n) /\ i - n \in 1 .. n
    BY <1>1, <1>3
  <2>2. scalars[i] = r[i - n]
    BY <2>1 DEF Gathered
  <2> QED
    BY <2>1, <2>2, <1>1
<1> HIDE DEF K
<1>9. HeapFits(none, 0, K) /\ Ordered(none, 0, scalars)
  BY <1>4, <1>7 DEF HeapFits, Ordered
<1>10. HeapFits(heap, size, K) /\ Ordered(heap, size, scalars)
  BY <1>4, <1>5, <1>6, <1>9, HeapExtended
<1>11. Comparable(scalars, size, K, SIZE - 1)
  <2>1. SIZE - 1 \in Limb
    BY ShapeTypes
  <2>2. \A i \in 0 .. size - 1 : ZeroAbove(scalars[i], SIZE - 1)
    BY ShapeTypes DEF ZeroAbove, Limb
  <2> QED
    BY <2>1, <2>2, <1>6 DEF Comparable
<1>12. Room(scalars, heap, size, K, SIZE - 1)
  BY <1>8 DEF Room
<1>13. Working(K, points, scalars, heap, size, SIZE - 1, FALSE)
  BY <1>3, <1>6, <1>10, <1>11, <1>12 DEF Working
<1> QED
  BY <1>13 DEF K

\* What a valid signature adds to the sum, and what it adds to the factor of the base
\* point, cancel out.
LEMMA TermNeutral ==
  ASSUME m \in Nat, m > 1, NEW S \in Nat, NEW h \in Nat, NEW r \in Nat,
         NEW A \in 0 .. m - 1, NEW R \in 0 .. m - 1, S = (R + h * A) % m,
         NEW a, a = (h * r) % m, NEW b, b = (m - A) % m, NEW c, c = (m - R) % m,
         NEW t, t = (S * r) % m
  PROVE  /\ a * b + r * c \in Int /\ t \in Int
         /\ Congruent((a * b + r * c) + t, 0)
<1>0. A \in Int /\ R \in Int /\ -A \in Int /\ -R \in Int /\ m > 0
  OBVIOUS
<1> DEFINE p == h * r
           hA == h * A
           u == S * r
<1>1. /\ p \in Int /\ hA \in Int /\ u \in Int
      /\ a = p % m /\ t = u % m /\ S = (R + hA) % m
  BY <1>0
<1> HIDE DEF p, hA, u
<1>2. /\ a \in Int /\ Congruent(a, p)
      /\ t \in Int /\ Congruent(t, u)
      /\ Congruent(S, R + hA)
  <2>1. R + hA \in Int
    BY <1>0, <1>1
  <2>2. a \in 0 .. m - 1 /\ t \in 0 .. m - 1
    BY <1>0, <1>1, Remainder
  <2>3. Congruent(a, p) /\ Congruent(t, u) /\ Congruent(S, R + hA)
    BY <2>1, <1>0, <1>1, Remainder
  <2> QED
    BY <2>2, <2>3
<1>3. /\ b \in Int /\ Congruent(b, -A) /\ c \in Int /\ Congruent(c, -R)
  <2>1. m - A \in Int /\ m - R \in Int
    BY <1>0
  <2>2. b \in 0 .. m - 1 /\ c \in 0 .. m - 1
    BY <2>1, <1>0, Remainder
  <2>3. Congruent(b, m - A) /\ Congruent(c, m - R)
    BY <2>1, <1>0, Remainder
  <2>4. PICK k \in Int, l \in Int : b = (m - A) + k * m /\ c = (m - R) + l * m
    BY <2>3 DEF Congruent
  <2>5. b = -A + (k + 1) * m /\ c = -R + (l + 1) * m /\ k + 1 \in Int /\ l + 1 \in Int
    BY <2>4, <1>0
  <2>6. b \in Int /\ c \in Int
    BY <2>2, <1>0
  <2>7. Congruent(b, -A)
    BY <2>5 DEF Congruent
  <2>8. Congruent(c, -R)
    BY <2>5 DEF Congruent
  <2> QED
    BY <2>6, <2>7, <2>8
<1>4. PICK e1 \in Int, e2 \in Int, e3 \in Int, e4 \in Int, e5 \in Int :
        /\ a = p + e1 * m /\ b = -A + e2 * m /\ c = -R + e3 * m
        /\ S = R + hA + e4 * m /\ t = u + e5 * m
  <2>1. PICK e1 \in Int : a = p + e1 * m
    BY <1>2 DEF Congruent
  <2>2. PICK e2 \in Int : b = -A + e2 * m
    BY <1>3 DEF Congruent
  <2>3. PICK e3 \in Int : c = -R + e3 * m
    BY <1>3 DEF Congruent
  <2>4. PICK e4 \in Int : S = R + hA + e4 * m
    BY <1>2 DEF Congruent
  <2>5. PICK e5 \in Int : t = u + e5 * m
    BY <1>2 DEF Congruent
  <2> QED
    BY <2>1, <2>2, <2>3, <2>4, <2>5
<1>5. a * b = -(p * A) + (a * e2 - e1 * A) * m
  <2>1. a * b = a * (-A) + a * (e2 * m)
    BY <1>2, <1>4, <1>0
  <2>2. a * (-A) = p * (-A) + (e1 * m) * (-A)
    BY <1>1, <1>4, <1>0
  <2>3. /\ a * (e2 * m) = (a * e2) * m /\ (e1 * m) * (-A) = -((e1 * A) * m)
        /\ p * (-A) = -(p * A)
    BY <1>1, <1>2, <1>0
  <2>4. (a * e2 - e1 * A) * m = (a * e2) * m - (e1 * A) * m
    BY <1>2, <1>0
  <2>5. /\ a * b \in Int /\ (a * e2) * m \in Int /\ (e1 * A) * m \in Int /\ p * A \in Int
        /\ a * (-A) \in Int
    BY <1>1, <1>2, <1>3, <1>0
  <2> QED
    BY <2>1, <2>2, <2>3, <2>4, <2>5
<1>6. r * c = -(r * R) + (r * e3) * m
  BY <1>3, <1>4, <1>0
<1>7. u = r * R + p * A + (e4 * r) * m
  <2>1. u = S * r
    BY DEF u
  <2>2. S * r = (R + hA) * r + (e4 * m) * r
    BY <1>1, <1>4, <1>0
  <2>3. (R + hA) * r = R * r + hA * r /\ (e4 * m) * r = (e4 * r) * m
    BY <1>1, <1>0
  <2>4. hA * r = p * A
    BY <1>0 DEF hA, p
  <2>5. R * r = r * R
    BY <1>0
  <2> QED
    BY <2>1, <2>2, <2>3, <2>4, <2>5
<1>8. /\ a * b \in Int /\ r * c \in Int /\ p * A \in Int /\ r * R \in Int
      /\ (a * e2 - e1 * A) \in Int /\ r * e3 \in Int /\ e4 * r \in Int
  BY <1>0, <1>1, <1>2, <1>3
<1> DEFINE y == a * e2 - e1 * A
           z == r * e3
           w == e4 * r
<1>9. (a * b + r * c) + t = 0 + (y + z + w + e5) * m /\ y + z + w + e5 \in Int
  <2> DEFINE ab == a * b
             rc == r * c
             pA == p * A
             rR == r * R
  <2>1. /\ ab = -pA + y * m /\ rc = -rR + z * m /\ u = rR + pA + w * m /\ t = u + e5 * m
        /\ ab \in Int /\ rc \in Int /\ pA \in Int /\ rR \in Int
        /\ y \in Int /\ z \in Int /\ w \in Int /\ u \in Int
    BY <1>1, <1>4, <1>5, <1>6, <1>7, <1>8
  <2> HIDE DEF ab, rc, pA, rR, y, z, w
  <2>2. (y + z + w + e5) * m = y * m + z * m + w * m + e5 * m
    BY <2>1, <1>0
  <2>3. y * m \in Int /\ z * m \in Int /\ w * m \in Int /\ e5 * m \in Int
    BY <2>1, <1>0
  <2>4. (ab + rc) + t = 0 + (y + z + w + e5) * m
    BY <2>1, <2>2, <2>3
  <2> QED
    BY <2>1, <2>4 DEF ab, rc
<1> HIDE DEF y, z, w
<1>10. Congruent((a * b + r * c) + t, 0)
  BY <1>9 DEF Congruent
<1> QED
  BY <1>2, <1>8, <1>10

\* How the multiples of the base point, of the keys and of the R cancel out.
LEMMA Cancelled ==
  ASSUME m \in Nat, m > 1, NEW g \in Int, NEW v \in Int, NEW h \in Int, NEW t \in Int,
         NEW w \in Int, NEW s \in Int,
         Congruent(g + v, s), Congruent(h + t, 0), Congruent(w, v + t)
  PROVE  Congruent((g + h) + w, s)
<1>1. PICK k \in Int, l \in Int, j \in Int :
        g + v = s + k * m /\ h + t = 0 + l * m /\ w = v + t + j * m
  BY DEF Congruent
<1>2. (g + h) + w = s + (k + l + j) * m /\ k + l + j \in Int
  BY <1>1
<1> QED
  BY <1>2 DEF Congruent

\* A batch of valid signatures adds up to the neutral point.
LEMMA GatheredNeutral ==
  ASSUME ShapeFits, KeepPromise(Scalars), NEW left, NEW random, Offered(left, random),
         NEW n, NEW r, NEW rS, NEW scalars, NEW points, NEW size, NEW heap,
         Gathered(left, random, n, r, rS, scalars, points, size, heap),
         \A i \in 1 .. n : sign_open(left[i])
  PROVE  Multiples(points, scalars, 2 * n) = 0
<1>0. m \in Nat /\ m > 1 /\ m > 0
  BY ShapeTypes
<1>1. /\ n \in Nat /\ 1 <= n /\ n <= Len(left)
      /\ r \in [1 .. n -> Scalars]
      /\ SumsFit(left, n, r, rS)
      /\ scalars \in [0 .. 2 * n -> Scalars]
      /\ points \in [0 .. 2 * n -> 0 .. m - 1]
  BY GatheredTypes
<1> DEFINE K == 2 * n
           f == [i \in 0 .. K |-> Value(scalars[i]) * points[i]]
           v(i) == Value(rS[i])
           t(i) == Value(mul256(expand256(left[i].S), r[i]))
           H == [i \in 0 .. n |-> IF i = 0 THEN f[0] ELSE f[i] + f[n + i]]
<1>2. \A i \in 0 .. K : f[i] \in Int
  <2> TAKE i \in 0 .. K
  <2>1. scalars[i] \in Scalars /\ points[i] \in 0 .. m - 1
    BY <1>1
  <2>2. Value(scalars[i]) \in Nat /\ points[i] \in Int
    BY <2>1, <1>0, ScalarType
  <2>3. Value(scalars[i]) * points[i] \in Int
    BY <2>2
  <2> QED
    BY <2>3
<1>3. \A i \in 1 .. n : SigFits(left[i])
  BY <1>1 DEF Offered
<1>4. \A i \in 1 .. n : v(i) \in Nat
  BY SMTT(40), <1>1, ScalarType DEF SumsFit
<1>5. f[0] = v(n)
  <2>1. 0 \in 0 .. K /\ n \in 1 .. n
    BY <1>1
  <2>2. scalars[0] = rS[n] /\ points[0] = 1
    BY <2>1 DEF Gathered
  <2>3. f[0] = Value(rS[n]) * 1
    BY <2>1, <2>2
  <2>4. v(n) \in Nat
    BY <2>1, <1>4
  <2> QED
    BY <2>3, <2>4
<1>6. ASSUME NEW i \in 1 .. n
      PROVE  /\ H[i] \in Int /\ t(i) \in Int
             /\ Congruent(H[i] + t(i), 0)
  <2> DEFINE S == Value(expand256(left[i].S))
             h == Value(expand256(left[i].hram))
             x == Value(r[i])
             A == left[i].A
             R == left[i].R
             a == Value(scalars[i])
             b == points[i]
             c == points[n + i]
  <2>1. /\ i \in 0 .. K /\ n + i \in 0 .. K /\ i # 0 /\ n + i # 0 /\ i <= n /\ ~(n + i <= n)
        /\ (n + i) - n = i /\ i \in 0 .. n
    BY <1>1
  <2>2. /\ expand256(left[i].S) \in Scalars /\ expand256(left[i].hram) \in Scalars
        /\ A \in 0 .. m - 1 /\ R \in 0 .. m - 1 /\ r[i] \in Scalars
    BY <1>1, <1>3 DEF SigFits
  <2>3. S \in Nat /\ h \in Nat /\ x \in Nat
    BY <2>2, ScalarType
  <2>4. S = (R + h * A) % m
    BY DEF sign_open, Number
  <2>5. scalars[i] = mul256(expand256(left[i].hram), r[i]) /\ b = (m - A) % m
    BY <2>1 DEF Gathered
  <2>6. scalars[n + i] = r[i] /\ c = (m - R) % m
    <3>1. scalars[n + i] = r[(n + i) - n] /\ c = (m - left[(n + i) - n].R) % m
      BY <2>1 DEF Gathered
    <3> QED
      BY <3>1, <2>1
  <2>7. a = (h * x) % m
    BY <2>2, <2>5 DEF KeepPromise
  <2>8. t(i) = (S * x) % m
    BY <2>2 DEF KeepPromise
  <2>9. H[i] = a * b + x * c
    <3>1. H[i] = f[i] + f[n + i]
      BY <2>1
    <3>2. f[i] = a * b
      BY <2>1
    <3>3. f[n + i] = x * c
      BY <2>1, <2>6
    <3> HIDE DEF f, H
    <3> QED
      BY <3>1, <3>2, <3>3
  <2> DEFINE y == t(i)
  <2>10. y = (S * x) % m
    BY <2>8
  <2> HIDE DEF S, h, x, A, R, a, b, c, y, H
  <2>11. /\ a * b + x * c \in Int /\ y \in Int
         /\ Congruent((a * b + x * c) + y, 0)
    BY <2>2, <2>3, <2>4, <2>5, <2>6, <2>7, <2>10, <1>0, TermNeutral
  <2> QED
    BY <2>9, <2>11 DEF y
<1>7. Multiples(points, scalars, K) = SumUpTo(f, K) % m
  BY DEF Multiples
<1>8. /\ H[0] = f[0] /\ \A i \in 1 .. n : H[i] = f[i] + f[n + i]
  <2>1. 0 \in 0 .. n /\ \A i \in 1 .. n : i \in 0 .. n /\ i # 0
    BY <1>1
  <2> HIDE DEF f
  <2> QED
    BY <2>1
<1>9. \A i \in 0 .. n : H[i] \in Int
  <2> TAKE i \in 0 .. n
  <2>1. CASE i = 0
    <3>1. 0 \in 0 .. K
      BY <1>1
    <3> HIDE DEF f, H
    <3> QED
      BY <3>1, <2>1, <1>2, <1>8
  <2>2. CASE i # 0
    <3>1. i \in 1 .. n
      BY <2>2
    <3> QED
      BY <3>1, <1>6
  <2> QED
    BY <2>1, <2>2
<1> HIDE DEF f, H, v, t
<1>10. SumUpTo(f, K) = SumUpTo(H, n)
  <2>1. \A i \in 0 .. 2 * n : f[i] \in Int
    BY <1>2 DEF K
  <2>2. SumUpTo(f, 2 * n) = SumUpTo(H, n)
    BY <2>1, <1>1, <1>8, SumPairs
  <2> QED
    BY <2>2 DEF K
<1>11. PICK g : IsSums(g, H, n) /\ SumUpTo(H, n) = g[n]
  BY <1>1, <1>9, SumRuns
<1>12. /\ g \in [0 .. n -> Int] /\ g[0] = H[0]
       /\ \A i \in 1 .. n : g[i] = g[i - 1] + H[i]
  BY <1>11 DEF IsSums
<1>13. /\ v(1) = t(1)
       /\ \A i \in 2 .. n : Congruent(v(i), v(i - 1) + t(i))
  <2>1. v(1) = t(1)
    BY <1>1 DEF SumsFit, v, t
  <2>2. ASSUME NEW i \in 2 .. n PROVE Congruent(v(i), v(i - 1) + t(i))
    <3>1. i \in 1 .. n /\ i - 1 \in 1 .. n
      BY <1>1
    <3> DEFINE e == mul256(expand256(left[i].S), r[i])
    <3>2. e \in Scalars
      <4>1. expand256(left[i].S) \in Scalars /\ r[i] \in Scalars
        BY <3>1, <1>1, <1>3 DEF SigFits
      <4> QED
        BY <4>1 DEF KeepPromise
    <3>3. rS[i] = add256(rS[i - 1], e) /\ rS[i - 1] \in Scalars
      BY <3>1, <1>1 DEF SumsFit
    <3>4. t(i) = Value(e)
      BY DEF t
    <3> HIDE DEF e
    <3>5. v(i) = (v(i - 1) + t(i)) % m
      BY <3>2, <3>3, <3>4 DEF KeepPromise, v
    <3>6. v(i - 1) + t(i) \in Int
      BY <3>1, <1>4, <1>6
    <3> DEFINE w == v(i - 1) + t(i)
    <3>7. w \in Int /\ v(i) = w % m
      BY <3>5, <3>6
    <3> HIDE DEF w
    <3>8. Congruent(w % m, w)
      BY <3>7, <1>0, Remainder
    <3> QED
      BY <3>7, <3>8 DEF w
  <2> QED
    BY <2>1, <2>2
<1> DEFINE T == {i \in 1 .. n : Congruent(g[i] + v(i), v(n))}
<1>14. 1 \in T
  <2>1. 1 \in 1 .. n /\ n \in 1 .. n
    BY <1>1
  <2>2. g[1] = v(n) + H[1]
    <3>1. g[1] = g[1 - 1] + H[1] /\ 1 - 1 = 0
      BY <2>1, <1>12
    <3> QED
      BY <3>1, <1>5, <1>8, <1>12
  <2>3. H[1] \in Int /\ t(1) \in Int /\ v(n) \in Int /\ Congruent(H[1] + t(1), 0)
    BY <2>1, <1>4, <1>6
  <2> DEFINE x == H[1]
             y == t(1)
             z == v(n)
  <2>4. x \in Int /\ y \in Int /\ z \in Int /\ Congruent(x + y, 0)
    BY <2>3
  <2> HIDE DEF x, y, z
  <2>5. PICK k \in Int : x + y = 0 + k * m
    BY <2>4 DEF Congruent
  <2>6. (z + x) + y = z + k * m
    BY <2>4, <2>5, <1>0
  <2>7. Congruent((z + x) + y, z)
    BY <2>6 DEF Congruent
  <2>8. Congruent(g[1] + v(1), v(n))
    BY <2>2, <2>7, <1>13 DEF x, y, z
  <2> QED
    BY <2>1, <2>8
<1>15. \A i \in 1 + 1 .. n : i - 1 \in T => i \in T
  <2> TAKE i \in 1 + 1 .. n
  <2> HAVE i - 1 \in T
  <2>1. i \in 2 .. n /\ i \in 1 .. n /\ i - 1 \in 1 .. n /\ i - 1 \in 0 .. n /\ n \in 1 .. n
    BY <1>1
  <2> DEFINE x == g[i - 1]
             y == v(i - 1)
             h == H[i]
             a == t(i)
             w == v(i)
             z == v(n)
  <2>2. x \in Int /\ y \in Int /\ h \in Int /\ a \in Int /\ w \in Int /\ z \in Int
    <3>1. x \in Int
      BY <2>1, <1>12
    <3>2. y \in Nat
      BY <2>1, <1>4
    <3>3. w \in Nat /\ z \in Nat
      BY <2>1, <1>4
    <3>4. h \in Int /\ a \in Int
      BY <2>1, <1>6
    <3> HIDE DEF x, y, h, a, w, z
    <3> QED
      BY <3>1, <3>2, <3>3, <3>4
  <2>3. Congruent(x + y, z)
    OBVIOUS
  <2>4. Congruent(h + a, 0)
    BY <2>1, <1>6
  <2>5. Congruent(w, y + a)
    BY <2>1, <1>13
  <2>6. g[i] = x + h
    BY <2>1, <1>12
  <2> HIDE DEF x, y, h, a, w, z
  <2>7. Congruent((x + h) + w, z)
    BY <2>2, <2>3, <2>4, <2>5, <1>0, Cancelled
  <2>8. Congruent(g[i] + v(i), v(n))
    BY <2>6, <2>7 DEF w, z
  <2> QED
    BY <2>1, <2>8
<1>16. n \in T
  <2>1. 1 \in Int /\ n \in Int /\ n \in 1 .. n
    BY <1>1
  <2> HIDE DEF T
  <2>2. \A i \in 1 .. n : i \in T
    BY <2>1, <1>14, <1>15, InductionUp
  <2> QED
    BY <2>1, <2>2
<1>17. g[n] % m = 0
  <2> DEFINE x == g[n]
             z == v(n)
  <2>1. n \in 1 .. n /\ n \in 0 .. n
    BY <1>1
  <2>2. x \in Int /\ z \in Int
    BY <2>1, <1>4, <1>12
  <2>3. Congruent(x + z, z)
    BY <1>16
  <2> HIDE DEF x, z
  <2>4. PICK k \in Int : x + z = z + k * m
    BY <2>3 DEF Congruent
  <2>5. x = 0 + k * m
    BY <2>2, <2>4, <1>0
  <2>6. Congruent(x, 0)
    BY <2>5 DEF Congruent
  <2>7. x % m = 0 % m /\ 0 % m = 0
    BY <2>2, <2>6, <1>0, Remainder
  <2> QED
    BY <2>7 DEF x
<1>18. Multiples(points, scalars, K) = 0
  BY <1>7, <1>10, <1>11, <1>17
<1> QED
  BY <1>18 DEF K

\* What the actions do to the fields of the record.
Fields == {"pc", "sigs", "left", "valid", "ret", "batchsize", "points", "scalars", "heap", "size",
           "limbsize", "extended", "max1", "sum", "unlucky"}

Shaped == batch = [f \in Fields |-> batch[f]]

Kept(changed) == \A f \in Fields : f \notin changed => batch'[f] = batch[f]

\* A call starts with a record of these fields.
LEMMA InitShaped == Init => Shaped
<1> SUFFICES ASSUME Init PROVE Shaped
  OBVIOUS
<1>1. PICK sigs \in Batches : batch = Called(sigs)
  BY DEF Init
<1> QED
  BY <1>1 DEF Called, Shaped, Fields

\* What Final does to each field.
LEMMA FinalEffect ==
  ASSUME Shaped, Final
  PROVE  LET point == ge25519_multi_scalarmult_vartime_final(
                        batch.points[batch.max1], batch.scalars[batch.max1])
             unlucky == batch.unlucky \/ ~batch.extended
         IN /\ batch.pc = "final" /\ Shaped'
            /\ \/ /\ point # 0 /\ batch'.ret = batch.ret \union {2} /\ batch'.pc = "fallback"
                  /\ batch'.unlucky = unlucky
                  /\ Kept({"ret", "pc", "unlucky"})
               \/ /\ point = 0 /\ batch'.pc = "batch" /\ batch'.left = NextBatch
                  /\ batch'.unlucky =
                       (unlucky \/ \E i \in 1 .. batch.batchsize : ~sign_open(batch.left[i]))
                  /\ Kept({"pc", "left", "unlucky"})
<1> DEFINE point == ge25519_multi_scalarmult_vartime_final(
                        batch.points[batch.max1], batch.scalars[batch.max1])
           unlucky == batch.unlucky \/ ~batch.extended
           invalid == \E i \in 1 .. batch.batchsize : ~sign_open(batch.left[i])
<1>1. CASE point # 0
  <2>1. batch' = [batch EXCEPT !.ret = @ \union {2}, !.pc = "fallback", !.unlucky = unlucky]
    BY <1>1 DEF Final
  <2> HIDE DEF point, unlucky
  <2>2. /\ batch'.ret = batch.ret \union {2} /\ batch'.pc = "fallback"
        /\ batch'.unlucky = unlucky
        /\ Kept({"ret", "pc", "unlucky"}) /\ Shaped'
    BY <2>1 DEF Shaped, Fields, Kept
  <2> QED
    BY <2>2, <1>1 DEF point, unlucky, Final
<1>2. CASE point = 0
  <2>1. batch' = [batch EXCEPT !.pc = "batch", !.left = NextBatch, !.unlucky = unlucky \/ invalid]
    BY <1>2 DEF Final
  <2> HIDE DEF point, unlucky, invalid
  <2>2. /\ batch'.pc = "batch" /\ batch'.left = NextBatch
        /\ batch'.unlucky = (unlucky \/ invalid)
        /\ Kept({"pc", "left", "unlucky"}) /\ Shaped'
    BY <2>1 DEF Shaped, Fields, Kept
  <2> QED
    BY <2>2, <1>2 DEF point, unlucky, invalid, Final
<1> QED
  BY <1>1, <1>2 DEF Final

\* What Gather does to each field.
LEMMA GatherEffect ==
  ASSUME Shaped, Gather
  PROVE  /\ batch.pc = "batch" /\ Len(batch.left) > 3 /\ Shaped'
         /\ \E random \in Randoms : \E n, r, rS, scalars, points, size, heap :
              /\ Gathered(batch.left, random, n, r, rS, scalars, points, size, heap)
              /\ batch'.batchsize = n
              /\ batch'.pc = IF \A i \in 1 .. n : batch.left[i].unpacks THEN "turn" ELSE "fallback"
              /\ batch'.points = points /\ batch'.scalars = scalars /\ batch'.heap = heap
              /\ batch'.size = size /\ batch'.limbsize = SIZE - 1 /\ batch'.extended = FALSE
              /\ batch'.sum = Multiples(points, scalars, 2 * n)
              /\ Kept({"batchsize", "pc", "points", "scalars", "heap", "size", "limbsize",
                       "extended", "sum"})
<1>1. batch.pc = "batch" /\ Len(batch.left) > 3
  BY DEF Gather
<1>2. PICK random \in Randoms :
        LET n == IF Len(batch.left) > max_batch_size THEN max_batch_size ELSE Len(batch.left)
            sig(i) == batch.left[i]
            r == [i \in 1 .. n |-> expand256(random[i])]
            rS[i \in 1 .. n] ==
              LET term == mul256(expand256(sig(i).S), r[i])
              IN  IF i = 1 THEN term ELSE add256(rS[i - 1], term)
            scalars == [i \in 0 .. 2 * n |->
              IF i = 0 THEN rS[n]
              ELSE IF i <= n THEN mul256(expand256(sig(i).hram), r[i])
              ELSE r[i - n]]
            points == [i \in 0 .. 2 * n |->
              IF i = 0 THEN 1
              ELSE IF i <= n THEN (m - sig(i).A) % m ELSE (m - sig(i - n).R) % m]
            unpacked == \A i \in 1 .. n : sig(i).unpacks
            size == IF (n + 1) % 2 = 1 THEN n + 1 ELSE n + 2
            heap == heap_extend([i \in 0 .. 2 * n |-> 0], 0, size, scalars)
        IN  batch' = [batch EXCEPT
              !.batchsize = n,
              !.pc = IF unpacked THEN "turn" ELSE "fallback",
              !.points = points, !.scalars = scalars,
              !.heap = heap, !.size = size, !.limbsize = SIZE - 1, !.extended = FALSE,
              !.sum = Multiples(points, scalars, 2 * n)]
  BY Zenon DEF Gather
<1> DEFINE left == batch.left
           n == IF Len(left) > max_batch_size THEN max_batch_size ELSE Len(left)
           r == [i \in 1 .. n |-> expand256(random[i])]
           rS == CHOOSE f : f = [i \in 1 .. n |->
                   IF i = 1 THEN mul256(expand256(left[i].S), r[i])
                   ELSE add256(f[i - 1], mul256(expand256(left[i].S), r[i]))]
           scalars == [i \in 0 .. 2 * n |->
             IF i = 0 THEN rS[n]
             ELSE IF i <= n THEN mul256(expand256(left[i].hram), r[i])
             ELSE r[i - n]]
           points == [i \in 0 .. 2 * n |->
             IF i = 0 THEN 1
             ELSE IF i <= n THEN (m - left[i].A) % m ELSE (m - left[i - n].R) % m]
           size == IF (n + 1) % 2 = 1 THEN n + 1 ELSE n + 2
           heap == heap_extend([i \in 0 .. 2 * n |-> 0], 0, size, scalars)
           pc == IF \A i \in 1 .. n : left[i].unpacks THEN "turn" ELSE "fallback"
           sum == Multiples(points, scalars, 2 * n)
<1>3. Gathered(left, random, n, r, rS, scalars, points, size, heap)
  BY Zenon DEF Gathered
<1>4. batch' = [batch EXCEPT
              !.batchsize = n, !.pc = pc, !.points = points, !.scalars = scalars,
              !.heap = heap, !.size = size, !.limbsize = SIZE - 1, !.extended = FALSE,
              !.sum = sum]
  BY <1>2, Zenon
<1> HIDE DEF n, r, rS, scalars, points, size, heap, pc, sum
<1>5. /\ batch'.batchsize = n /\ batch'.pc = pc
      /\ batch'.points = points /\ batch'.scalars = scalars /\ batch'.heap = heap
      /\ batch'.size = size /\ batch'.limbsize = SIZE - 1 /\ batch'.extended = FALSE
      /\ batch'.sum = sum
  BY <1>4 DEF Shaped, Fields
<1>6. /\ Kept({"batchsize", "pc", "points", "scalars", "heap", "size", "limbsize",
               "extended", "sum"})
      /\ Shaped'
  BY ZenonT(60), <1>4 DEF Shaped, Fields, Kept
<1>7. /\ pc = IF \A i \in 1 .. n : batch.left[i].unpacks THEN "turn" ELSE "fallback"
      /\ sum = Multiples(points, scalars, 2 * n)
  BY Zenon DEF pc, sum
<1> QED
  BY <1>1, <1>3, <1>5, <1>6, <1>7, ZenonT(60)

\* What a turn computes.
Turned(points, scalars, heap, size, l, extended, K, top, nl, extend, heap1, size1, max, S, P, next) ==
  /\ top = heap_get_top2(heap, scalars, l)
  /\ nl = IF scalars[top[1]][l] = 0 THEN l - 1 ELSE l
  /\ extend = (~extended /\ isatmost128bits256(scalars[top[1]]))
  /\ heap1 = IF extend THEN heap_extend(heap, size, K + 1, scalars) ELSE heap
  /\ size1 = IF extend THEN K + 1 ELSE size
  /\ max = IF extend THEN heap_get_top2(heap1, scalars, nl) ELSE top
  /\ S = Taken(scalars, max, nl)
  /\ P = Given(points, max)
  /\ next = heap_updated_root(heap1, size1, S, nl)

TurnEnds(top) ==
  /\ iszero256(batch.scalars[top[2]])
  /\ batch'.pc = "final" /\ batch'.max1 = top[1]
  /\ Kept({"pc", "max1"})

TurnMoves(top, nl, extend, size1, S, P, next) ==
  /\ ~iszero256(batch.scalars[top[2]])
  /\ batch'.limbsize = nl /\ batch'.extended = (batch.extended \/ extend)
  /\ batch'.size = size1 /\ batch'.scalars = S /\ batch'.points = P
  /\ batch'.heap = next
  /\ Kept({"limbsize", "extended", "size", "scalars", "points", "heap"})

\* What Turn does to each field.
LEMMA TurnEffect ==
  ASSUME Shaped, Turn
  PROVE  /\ batch.pc = "turn" /\ Shaped'
         /\ \E top, nl, extend, heap1, size1, max, S, P, next :
              /\ Turned(batch.points, batch.scalars, batch.heap, batch.size, batch.limbsize,
                        batch.extended, 2 * batch.batchsize,
                        top, nl, extend, heap1, size1, max, S, P, next)
              /\ TurnEnds(top) \/ TurnMoves(top, nl, extend, size1, S, P, next)
<1> DEFINE top == heap_get_top2(batch.heap, batch.scalars, batch.limbsize)
           nl == IF batch.scalars[top[1]][batch.limbsize] = 0
                   THEN batch.limbsize - 1 ELSE batch.limbsize
           extend == ~batch.extended /\ isatmost128bits256(batch.scalars[top[1]])
           heap1 == IF extend THEN heap_extend(batch.heap, batch.size, count, batch.scalars)
                    ELSE batch.heap
           size1 == IF extend THEN count ELSE batch.size
           max == IF extend THEN heap_get_top2(heap1, batch.scalars, nl) ELSE top
           S == [batch.scalars EXCEPT ![max[1]] =
                   sub256(batch.scalars[max[1]], batch.scalars[max[1]],
                                     batch.scalars[max[2]], nl)]
           P == [batch.points EXCEPT ![max[2]] = (@ + batch.points[max[1]]) % m]
           next == heap_updated_root(heap1, size1, S, nl)
<1>0. batch.pc = "turn"
  BY DEF Turn
<1>1. Turned(batch.points, batch.scalars, batch.heap, batch.size, batch.limbsize,
             batch.extended, 2 * batch.batchsize, top, nl, extend, heap1, size1, max, S, P, next)
  BY Zenon DEF Turned, Taken, Given, count
<1>2. CASE iszero256(batch.scalars[top[2]])
  <2>1. batch' = [batch EXCEPT !.pc = "final", !.max1 = top[1]]
    BY <1>2, Zenon DEF Turn
  <2> HIDE DEF top, nl, extend, heap1, size1, max, S, P, next
  <2>2. /\ batch'.pc = "final" /\ batch'.max1 = top[1]
        /\ Kept({"pc", "max1"}) /\ Shaped'
    BY <2>1 DEF Shaped, Fields, Kept
  <2>3. TurnEnds(top)
    BY <2>2, <1>2, Zenon DEF TurnEnds
  <2> QED
    BY <2>2, <2>3, <1>0, <1>1, Zenon
<1>3. CASE ~iszero256(batch.scalars[top[2]])
  <2>1. batch' = [batch EXCEPT
                !.limbsize = nl, !.extended = batch.extended \/ extend, !.size = size1,
                !.scalars = S,
                !.points[max[2]] = (@ + batch.points[max[1]]) % m,
                !.heap = next]
    BY <1>3, Zenon DEF Turn
  <2> HIDE DEF top, nl, extend, heap1, size1, max, S, next
  <2>2. /\ batch'.limbsize = nl /\ batch'.size = size1
        /\ batch'.extended = (batch.extended \/ extend)
        /\ batch'.scalars = S /\ batch'.points = P /\ batch'.heap = next
    BY <2>1 DEF Shaped, Fields
  <2>3. /\ Kept({"limbsize", "extended", "size", "scalars", "points", "heap"})
        /\ Shaped'
    BY <2>1 DEF Shaped, Fields, Kept
  <2> HIDE DEF P
  <2>4. /\ ~iszero256(batch.scalars[top[2]])
        /\ batch'.limbsize = nl /\ batch'.extended = (batch.extended \/ extend)
        /\ batch'.size = size1 /\ batch'.scalars = S /\ batch'.points = P
        /\ batch'.heap = next
        /\ Kept({"limbsize", "extended", "size", "scalars", "points", "heap"})
    BY <2>2, <2>3, <1>3
  <2>5. TurnMoves(top, nl, extend, size1, S, P, next)
    BY <2>4, Zenon DEF TurnMoves
  <2> QED
    BY <2>5, <2>3, <1>0, <1>1, Zenon
<1> QED
  BY <1>2, <1>3

\* What OpenEach does to each field.
LEMMA OpenEffect ==
  ASSUME Shaped, NEW n, NEW pc, OpenEach(n, pc)
  PROVE  LET answer == [i \in DOMAIN batch.sigs |->
                          IF i \in Done + 1 .. Done + n THEN sign_open(batch.sigs[i])
                          ELSE batch.valid[i]]
         IN  /\ batch'.valid = answer /\ batch'.pc = pc
             /\ batch'.left = SubSeq(batch.left, n + 1, Len(batch.left))
             /\ batch'.ret = batch.ret \union {1 : i \in {i \in Done + 1 .. Done + n : ~answer[i]}}
             /\ Kept({"valid", "pc", "left", "ret"}) /\ Shaped'
<1> DEFINE answer == [i \in DOMAIN batch.sigs |->
                        IF i \in Done + 1 .. Done + n THEN sign_open(batch.sigs[i])
                        ELSE batch.valid[i]]
           more == {1 : i \in {i \in Done + 1 .. Done + n : ~answer[i]}}
           left == SubSeq(batch.left, n + 1, Len(batch.left))
<1>1. batch' = [batch EXCEPT !.valid = answer, !.pc = pc, !.left = left,
                             !.ret = batch.ret \union more]
  BY Zenon DEF OpenEach
<1> HIDE DEF answer, more, left
<1>2. /\ batch'.valid = answer /\ batch'.pc = pc /\ batch'.left = left
      /\ batch'.ret = batch.ret \union more
      /\ Kept({"valid", "pc", "left", "ret"}) /\ Shaped'
  BY <1>1 DEF Shaped, Fields, Kept
<1> QED
  BY <1>2, Zenon DEF answer, more, left

\* The invariant.  The first d signatures are done, and the others left.
Left(left, sigs, d) ==
  /\ d \in 0 .. Len(sigs) /\ Len(left) = Len(sigs) - d
  /\ \A i \in 1 .. Len(left) : left[i] = sigs[d + i]

Progress ==
  /\ batch.sigs \in Batches /\ Left(batch.left, batch.sigs, Done)
  /\ batch.pc \in {"batch", "turn", "final", "fallback", "done"}
  /\ batch.pc \in {"turn", "final", "fallback"} => batch.batchsize \in 1 .. Len(batch.left)
  /\ batch.pc = "done" => Len(batch.left) = 0
  /\ batch.unlucky \in BOOLEAN

AtWork ==
  batch.pc = "turn" =>
    /\ Working(2 * batch.batchsize, batch.points, batch.scalars, batch.heap, batch.size,
               batch.limbsize, batch.extended)
    /\ Multiples(batch.points, batch.scalars, 2 * batch.batchsize) = batch.sum

AtEnd ==
  /\ batch.pc = "final" => batch.extended \in BOOLEAN
  /\ batch.pc = "final" /\ batch.extended =>
       LET scalar == batch.scalars[batch.max1]
           point == batch.points[batch.max1]
       IN  /\ scalar \in Scalars /\ point \in 0 .. m - 1
           /\ Value(scalar) < 2 ^ HALF
           /\ batch.sum = (Value(scalar) * point) % m

AllOpen == \A i \in 1 .. batch.batchsize : sign_open(batch.left[i])

SumNeutral == batch.pc \in {"turn", "final"} /\ AllOpen => batch.sum = 0

Answered ==
  ~batch.unlucky =>
    /\ batch.valid = [i \in DOMAIN batch.sigs |-> i <= Done => sign_open(batch.sigs[i])]
    /\ 1 \in batch.ret <=> \E i \in 1 .. Done : ~sign_open(batch.sigs[i])
    /\ 2 \in batch.ret => 1 \in batch.ret \/ (batch.pc = "fallback" /\ ~AllOpen)

BatchInv == Shaped /\ Progress /\ AtWork /\ AtEnd /\ SumNeutral /\ Answered

\* The signatures of a batch are as they should be.
LEMMA BatchFits ==
  ASSUME InputsFit, NEW sigs \in Batches
  PROVE  /\ Len(sigs) \in Nat /\ DOMAIN sigs = 1 .. Len(sigs)
         /\ \A i \in 1 .. Len(sigs) : SigFits(sigs[i])
<1> DEFINE S == {sigs[i] : i \in DOMAIN sigs}
<1>1. sigs \in Seq(S)
  BY DEF InputsFit
<1> HIDE DEF S
<1>2. Len(sigs) \in Nat /\ DOMAIN sigs = 1 .. Len(sigs)
  BY <1>1
<1>3. \A i \in DOMAIN sigs : SigFits(sigs[i])
  BY DEF InputsFit, SigFits
<1> QED
  BY <1>2, <1>3

\* So are the random strings.
LEMMA RandomsFit ==
  ASSUME InputsFit, NEW random \in Randoms
  PROVE  RandomFits(random)
BY DEF InputsFit, RandomFits

\* The next n are done.
LeftTakes(left, sigs, d, n) ==
  sigs \in Batches /\ Left(left, sigs, d) /\ n \in 0 .. Len(left)

\* What is left after the next n are done.
LEMMA LeftNext ==
  ASSUME InputsFit, NEW sigs, NEW left, NEW d, NEW n, LeftTakes(left, sigs, d, n)
  PROVE  /\ Left(SubSeq(left, n + 1, Len(left)), sigs, d + n)
         /\ Len(SubSeq(left, n + 1, Len(left))) = Len(left) - n
<1> DEFINE next == SubSeq(left, n + 1, Len(left))
<1>0. sigs \in Batches /\ Left(left, sigs, d) /\ n \in 0 .. Len(left)
  BY DEF LeftTakes
<1>1. Len(sigs) \in Nat /\ d \in 0 .. Len(sigs) /\ Len(left) = Len(sigs) - d
      /\ \A i \in 1 .. Len(left) : left[i] = sigs[d + i]
  BY <1>0, BatchFits DEF Left
<1> DEFINE len == Len(left)
           S == {left[i] : i \in 1 .. len}
           a == n + 1
<1>2. len \in Nat /\ a \in Nat /\ n \in Nat /\ a <= len + 1 /\ 1 <= a
  BY <1>0, <1>1
<1>3. \A i \in a .. len : left[i] \in S
  BY <1>2
<1>4. next = SubSeq(left, a, len)
  OBVIOUS
<1>5. d + n \in 0 .. Len(sigs)
  BY <1>0, <1>1
<1>6. \A i \in 1 .. len : left[i] = sigs[d + i]
  BY <1>1
<1>7. a = n + 1 /\ Len(sigs) - (d + n) = len - n /\ d \in Nat
  BY <1>1, <1>2
<1> HIDE DEF S, a, len, next
<1>8. /\ Len(next) = (IF a <= len THEN len - a + 1 ELSE 0)
      /\ \A i \in 1 .. len - a + 1 : next[i] = left[a + i - 1]
  <2>1. a \in Int /\ len \in Int
    BY <1>2
  <2>2. Len(SubSeq(left, a, len)) = IF a <= len THEN len - a + 1 ELSE 0
    BY <2>1, <1>3, SubSeqProperties
  <2>3. \A i \in 1 .. len - a + 1 : SubSeq(left, a, len)[i] = left[a + i - 1]
    BY <2>1, <1>3, SubSeqProperties
  <2> QED
    BY <2>2, <2>3, <1>4
<1>9. Len(next) = len - n
  BY <1>2, <1>7, <1>8
<1>10. \A i \in 1 .. Len(next) : next[i] = sigs[(d + n) + i]
  <2> TAKE i \in 1 .. Len(next)
  <2>1. i \in 1 .. len - a + 1 /\ a + i - 1 = n + i /\ n + i \in 1 .. len
        /\ d + (n + i) = (d + n) + i
    BY <1>2, <1>7, <1>9
  <2> QED
    BY <2>1, <1>6, <1>8
<1>11. Left(next, sigs, d + n) /\ Len(next) = Len(left) - n
  BY <1>5, <1>7, <1>9, <1>10 DEF Left, len
<1> QED
  BY <1>11 DEF next

\* A call starts in the invariant.
LEMMA InitInv ==
  ASSUME InputsFit, Init
  PROVE  BatchInv
<1>1. PICK sigs \in Batches : batch = Called(sigs)
  BY DEF Init
<1>2. Shaped
  BY InitShaped
<1>3. /\ batch.pc = "batch" /\ batch.sigs = sigs /\ batch.left = sigs
      /\ batch.valid = [i \in DOMAIN sigs |-> TRUE] /\ batch.ret = {} /\ batch.unlucky = FALSE
  BY <1>1 DEF Called
<1>4. Len(sigs) \in Nat /\ DOMAIN sigs = 1 .. Len(sigs)
  BY BatchFits
<1>5. Done = 0
  BY <1>3, <1>4 DEF Done
<1>6. Progress
  <2>1. Left(sigs, sigs, 0)
    BY <1>4 DEF Left
  <2> QED
    BY <2>1, <1>3, <1>5 DEF Progress
<1>7. AtWork /\ AtEnd /\ SumNeutral
  BY <1>3 DEF AtWork, AtEnd, SumNeutral
<1>8. Answered
  <2>1. \A i \in DOMAIN sigs : ~(i <= Done)
    BY <1>4, <1>5
  <2>2. batch.valid = [i \in DOMAIN batch.sigs |-> i <= Done => sign_open(batch.sigs[i])]
    BY <2>1, <1>3
  <2>3. ~(\E i \in 1 .. Done : ~sign_open(batch.sigs[i]))
    BY <1>5
  <2> QED
    BY <2>2, <2>3, <1>3 DEF Answered
<1> QED
  BY <1>2, <1>6, <1>7, <1>8 DEF BatchInv

\* What is left, and what was answered, stays.
LEMMA SameAnswers ==
  ASSUME BatchInv, Kept({"pc", "batchsize", "points", "scalars", "heap", "size", "limbsize",
                         "extended", "max1", "sum"}),
         batch.pc # "fallback"
  PROVE  Answered' /\ Done' = Done
<1>1. /\ batch'.sigs = batch.sigs /\ batch'.left = batch.left /\ batch'.valid = batch.valid
      /\ batch'.ret = batch.ret /\ batch'.unlucky = batch.unlucky
  BY DEF Kept, Fields
<1>2. Done' = Done
  BY <1>1 DEF Done
<1>3. Answered
  BY DEF BatchInv
<1> QED
  BY <1>1, <1>2, <1>3 DEF Answered

\* Gather keeps the invariant.
LEMMA GatherInv ==
  ASSUME ShapeFits, KeepPromise(Scalars), InputsFit, BatchInv, Gather
  PROVE  BatchInv'
<1>1. /\ batch.pc = "batch" /\ Len(batch.left) > 3 /\ Shaped'
      /\ \E random \in Randoms : \E n, r, rS, scalars, points, size, heap :
              /\ Gathered(batch.left, random, n, r, rS, scalars, points, size, heap)
              /\ batch'.batchsize = n
              /\ batch'.pc = IF \A i \in 1 .. n : batch.left[i].unpacks THEN "turn" ELSE "fallback"
              /\ batch'.points = points /\ batch'.scalars = scalars /\ batch'.heap = heap
              /\ batch'.size = size /\ batch'.limbsize = SIZE - 1 /\ batch'.extended = FALSE
              /\ batch'.sum = Multiples(points, scalars, 2 * n)
              /\ Kept({"batchsize", "pc", "points", "scalars", "heap", "size", "limbsize",
                       "extended", "sum"})
  BY GatherEffect DEF BatchInv
<1>1a. PICK random \in Randoms : \E n, r, rS, scalars, points, size, heap :
              /\ Gathered(batch.left, random, n, r, rS, scalars, points, size, heap)
              /\ batch'.batchsize = n
              /\ batch'.pc = IF \A i \in 1 .. n : batch.left[i].unpacks THEN "turn" ELSE "fallback"
              /\ batch'.points = points /\ batch'.scalars = scalars /\ batch'.heap = heap
              /\ batch'.size = size /\ batch'.limbsize = SIZE - 1 /\ batch'.extended = FALSE
              /\ batch'.sum = Multiples(points, scalars, 2 * n)
              /\ Kept({"batchsize", "pc", "points", "scalars", "heap", "size", "limbsize",
                       "extended", "sum"})
  BY <1>1, Zenon
<1>2. PICK n, r, rS, scalars, points, size, heap :
              /\ Gathered(batch.left, random, n, r, rS, scalars, points, size, heap)
              /\ batch'.batchsize = n
              /\ batch'.pc = IF \A i \in 1 .. n : batch.left[i].unpacks THEN "turn" ELSE "fallback"
              /\ batch'.points = points /\ batch'.scalars = scalars /\ batch'.heap = heap
              /\ batch'.size = size /\ batch'.limbsize = SIZE - 1 /\ batch'.extended = FALSE
              /\ batch'.sum = Multiples(points, scalars, 2 * n)
              /\ Kept({"batchsize", "pc", "points", "scalars", "heap", "size", "limbsize",
                       "extended", "sum"})
  BY <1>1a, Zenon
<1>3. /\ batch'.sigs = batch.sigs /\ batch'.left = batch.left /\ batch'.valid = batch.valid
      /\ batch'.ret = batch.ret /\ batch'.unlucky = batch.unlucky
  BY <1>2 DEF Kept, Fields
<1>4. /\ batch.sigs \in Batches /\ Left(batch.left, batch.sigs, Done)
      /\ batch.unlucky \in BOOLEAN
  BY DEF BatchInv, Progress
<1>5. Offered(batch.left, random)
  <2>1. max_batch_size \in Nat /\ max_batch_size > 0
    BY DEF InputsFit
  <2>2. /\ Len(batch.sigs) \in Nat
        /\ \A i \in 1 .. Len(batch.sigs) : SigFits(batch.sigs[i])
    BY <1>4, BatchFits
  <2>3. Len(batch.left) \in Nat /\ \A i \in 1 .. Len(batch.left) : SigFits(batch.left[i])
    <3>1. Done \in 0 .. Len(batch.sigs) /\ Len(batch.left) = Len(batch.sigs) - Done
          /\ \A i \in 1 .. Len(batch.left) : batch.left[i] = batch.sigs[Done + i]
      BY <1>4 DEF Left
    <3>2. Len(batch.left) \in Nat
      BY <3>1, <2>2
    <3>3. \A i \in 1 .. Len(batch.left) : Done + i \in 1 .. Len(batch.sigs)
      BY <3>1, <2>2
    <3> QED
      BY <3>1, <3>2, <3>3, <2>2
  <2> QED
    BY <2>1, <2>3, <1>1, RandomsFit DEF Offered
<1>6. /\ n \in Nat /\ 1 <= n /\ n <= Len(batch.left)
  BY <1>2, <1>5, GatheredTypes
<1>7. Working(2 * n, points, scalars, heap, size, SIZE - 1, FALSE)
  BY <1>2, <1>5, GatheredWorks
<1>8. (\A i \in 1 .. n : sign_open(batch.left[i])) => Multiples(points, scalars, 2 * n) = 0
  BY <1>2, <1>5, GatheredNeutral
<1>9. batch'.pc \in {"turn", "fallback"}
  BY <1>2
<1>10. Answered' /\ Done' = Done
  <2>1. Kept({"pc", "batchsize", "points", "scalars", "heap", "size", "limbsize",
              "extended", "max1", "sum"})
    BY <1>2 DEF Kept, Fields
  <2> QED
    BY <2>1, <1>1, SameAnswers
<1>11. Progress'
  <2>1. n \in 1 .. Len(batch.left)
    BY <1>5, <1>6 DEF Offered
  <2> QED
    BY <2>1, <1>2, <1>3, <1>4, <1>9, <1>10 DEF Progress
<1>12. AtWork'
  BY <1>2, <1>7 DEF AtWork
<1>13. AtEnd'
  BY <1>9 DEF AtEnd
<1>14. SumNeutral'
  BY <1>2, <1>3, <1>8 DEF SumNeutral, AllOpen
<1> QED
  BY <1>1, <1>10, <1>11, <1>12, <1>13, <1>14 DEF BatchInv

\* A turn of the loop: it ends, or the multiples stay and the scalars become less.
LEMMA TurnStep ==
  ASSUME ShapeFits, KeepPromise(Scalars), InputsFit, BatchInv, Turn
  PROVE  /\ BatchInv'
         /\ batch'.pc = "turn" => Total(batch'.scalars) < Total(batch.scalars)
<1> DEFINE K == 2 * batch.batchsize
           points == batch.points
           scalars == batch.scalars
           heap == batch.heap
           size == batch.size
           l == batch.limbsize
           extended == batch.extended
<1>1. /\ batch.pc = "turn" /\ Shaped'
      /\ \E top, nl, extend, heap1, size1, max, S, P, next :
           /\ Turned(points, scalars, heap, size, l, extended, K,
                     top, nl, extend, heap1, size1, max, S, P, next)
           /\ TurnEnds(top) \/ TurnMoves(top, nl, extend, size1, S, P, next)
  BY TurnEffect DEF BatchInv
<1>2. PICK top, nl, extend, heap1, size1, max, S, P, next :
           /\ Turned(points, scalars, heap, size, l, extended, K,
                     top, nl, extend, heap1, size1, max, S, P, next)
           /\ TurnEnds(top) \/ TurnMoves(top, nl, extend, size1, S, P, next)
  BY <1>1, Zenon
<1>3. /\ batch.sigs \in Batches /\ Left(batch.left, batch.sigs, Done)
      /\ batch.unlucky \in BOOLEAN /\ batch.batchsize \in 1 .. Len(batch.left)
  BY <1>1 DEF BatchInv, Progress
<1>4. /\ Working(K, points, scalars, heap, size, l, extended)
      /\ Multiples(points, scalars, K) = batch.sum
  BY <1>1 DEF BatchInv, AtWork
<1>5. batch.batchsize \in Nat /\ K \in Nat /\ K % 2 = 0
  <2>1. Len(batch.sigs) \in Nat /\ Done \in 0 .. Len(batch.sigs)
        /\ Len(batch.left) = Len(batch.sigs) - Done
    BY <1>3, BatchFits DEF Left
  <2>2. Len(batch.left) \in Int
    BY <2>1
  <2>3. batch.batchsize \in Nat
    BY SMTT(40), <2>2, <1>3
  <2> QED
    BY <2>3
<1>6. top = heap_get_top2(heap, scalars, l)
  BY <1>2 DEF Turned
<1>7. /\ top[1] \in 0 .. size - 1 /\ top[2] \in 0 .. size - 1
      /\ \A i \in 0 .. size - 1 : scalars[i] \in Scalars
      /\ points \in [0 .. K -> 0 .. m - 1] /\ extended \in BOOLEAN
  <2>1. /\ HeapFits(heap, size, K) /\ Ordered(heap, size, scalars)
        /\ Comparable(scalars, size, K, l) /\ size >= 3
        /\ points \in [0 .. K -> 0 .. m - 1] /\ extended \in BOOLEAN
    BY <1>4 DEF Working
  <2>2. top[1] \in 0 .. size - 1 /\ top[2] \in 0 .. size - 1
    BY <2>1, <1>6, Top2
  <2>3. \A i \in 0 .. size - 1 : i \in 0 .. K
    BY SMTT(40), <2>1 DEF HeapFits
  <2> QED
    BY <2>1, <2>2, <2>3 DEF Comparable
<1>8. /\ iszero256(scalars[top[2]]) <=> Value(scalars[top[2]]) = 0
      /\ isatmost128bits256(scalars[top[1]]) <=> Value(scalars[top[1]]) < 2 ^ HALF
  <2>1. scalars[top[1]] \in Scalars /\ scalars[top[2]] \in Scalars
    BY <1>7
  <2>2. /\ iszero256(scalars[top[2]]) = (Value(scalars[top[2]]) = 0)
        /\ isatmost128bits256(scalars[top[1]]) = (Value(scalars[top[1]]) < 2 ^ HALF)
    BY <2>1 DEF KeepPromise
  <2> QED
    BY <2>2
<1>9. CASE TurnEnds(top)
  <2>1. /\ iszero256(scalars[top[2]]) /\ batch'.pc = "final" /\ batch'.max1 = top[1]
        /\ Kept({"pc", "max1"})
    BY <1>9 DEF TurnEnds
  <2>2. /\ batch'.sigs = batch.sigs /\ batch'.left = batch.left
        /\ batch'.unlucky = batch.unlucky /\ batch'.batchsize = batch.batchsize
        /\ batch'.scalars = scalars /\ batch'.points = points /\ batch'.sum = batch.sum
        /\ batch'.extended = extended
    BY <2>1 DEF Kept, Fields
  <2>3. Answered' /\ Done' = Done
    <3>1. Kept({"pc", "batchsize", "points", "scalars", "heap", "size", "limbsize",
                "extended", "max1", "sum"})
      BY <2>1 DEF Kept, Fields
    <3> QED
      BY <3>1, <1>1, SameAnswers
  <2>4. Progress'
    BY <2>1, <2>2, <2>3, <1>3 DEF Progress
  <2>5. AtWork'
    BY <2>1 DEF AtWork
  <2>6. SumNeutral'
    <3>1. SumNeutral
      BY DEF BatchInv
    <3> QED
      BY <3>1, <2>1, <2>2, <1>1 DEF SumNeutral, AllOpen
  <2>7. AtEnd'
    <3>1. ASSUME extended
          PROVE  /\ scalars[top[1]] \in Scalars /\ points[top[1]] \in 0 .. m - 1
                 /\ Value(scalars[top[1]]) < 2 ^ HALF
                 /\ batch.sum = (Value(scalars[top[1]]) * points[top[1]]) % m
      <4>1. Working(K, points, scalars, heap, size, l, TRUE)
        <5>1. extended = TRUE
          BY <3>1, <1>7
        <5> QED
          BY <5>1, <1>4
      <4>2. Value(scalars[top[2]]) = 0
        BY <2>1, <1>8
      <4> HIDE DEF K, points, scalars, heap, size, l
      <4>3. /\ top[1] \in 0 .. K
            /\ Value(scalars[top[1]]) < 2 ^ HALF
            /\ Multiples(points, scalars, K) = (Value(scalars[top[1]]) * points[top[1]]) % m
        <5>1. TurnLast(K, points, scalars, heap, size, l, top)
          BY <4>1, <4>2, <1>6 DEF TurnLast
        <5> QED
          BY <5>1, OneLeft
      <4> QED
        BY <4>3, <1>4, <1>7
    <3> QED
      BY <3>1, <2>1, <2>2, <1>7 DEF AtEnd
  <2>8. BatchInv'
    BY <2>3, <2>4, <2>5, <2>6, <2>7, <1>1 DEF BatchInv
  <2> QED
    BY <2>1, <2>8
<1>10. CASE TurnMoves(top, nl, extend, size1, S, P, next)
  <2>1. /\ ~iszero256(scalars[top[2]])
        /\ batch'.limbsize = nl /\ batch'.extended = (extended \/ extend)
        /\ batch'.size = size1 /\ batch'.scalars = S /\ batch'.points = P
        /\ batch'.heap = next
        /\ Kept({"limbsize", "extended", "size", "scalars", "points", "heap"})
    BY <1>10 DEF TurnMoves
  <2>2. /\ batch'.sigs = batch.sigs /\ batch'.left = batch.left /\ batch'.pc = batch.pc
        /\ batch'.unlucky = batch.unlucky /\ batch'.batchsize = batch.batchsize
        /\ batch'.sum = batch.sum
    BY <2>1 DEF Kept, Fields
  <2>3. /\ Working(K, P, S, next, size1, nl, extended \/ extend)
        /\ Multiples(P, S, K) = Multiples(points, scalars, K)
        /\ SumOf(S, K) < SumOf(scalars, K)
    <3>1. Value(scalars[top[2]]) # 0
      BY SMTT(40), <2>1, <1>8
    <3>2. /\ nl = IF scalars[top[1]][l] = 0 THEN l - 1 ELSE l
          /\ extend = (~extended /\ isatmost128bits256(scalars[top[1]]))
          /\ heap1 = IF extend THEN heap_extend(heap, size, K + 1, scalars) ELSE heap
          /\ size1 = IF extend THEN K + 1 ELSE size
          /\ max = IF extend THEN heap_get_top2(heap1, scalars, nl) ELSE top
          /\ S = Taken(scalars, max, nl) /\ P = Given(points, max)
          /\ next = heap_updated_root(heap1, size1, S, nl)
      BY <1>2 DEF Turned
    <3>3. extend \in BOOLEAN /\ (extend <=> ~extended /\ Value(scalars[top[1]]) < 2 ^ HALF)
      BY <3>2, <1>8
    <3> HIDE DEF K, points, scalars, heap, size, l, extended
    <3>4. TurnReady(K, points, scalars, heap, size, l, extended, top, nl, extend, heap1,
                    size1, max, S, P, next)
      BY <3>1, <3>2, <3>3, <1>4, <1>5, <1>6 DEF TurnReady
    <3> QED
      BY <3>4, TurnWorks
  <2>4. Answered' /\ Done' = Done
    <3>1. Kept({"pc", "batchsize", "points", "scalars", "heap", "size", "limbsize",
                "extended", "max1", "sum"})
      BY <2>1 DEF Kept, Fields
    <3> QED
      BY <3>1, <1>1, SameAnswers
  <2>5. Progress'
    BY <2>2, <2>4, <1>1, <1>3 DEF Progress
  <2>6. AtWork'
    BY <2>1, <2>2, <2>3, <1>4 DEF AtWork
  <2>7. SumNeutral'
    <3>1. SumNeutral
      BY DEF BatchInv
    <3> QED
      BY <3>1, <2>2, <1>1 DEF SumNeutral, AllOpen
  <2>8. AtEnd'
    BY <2>2, <1>1 DEF AtEnd
  <2>9. BatchInv'
    BY <2>4, <2>5, <2>6, <2>7, <2>8, <1>1 DEF BatchInv
  <2>10. Total(batch'.scalars) < Total(batch.scalars)
    BY <2>1, <2>3 DEF Total, SumOf
  <2> QED
    BY <2>9, <2>10
<1> QED
  BY <1>2, <1>9, <1>10

\* The multiple of the last point is looked at.
LEMMA FinalStep ==
  ASSUME ShapeFits, KeepPromise(Scalars), InputsFit, BatchInv, Final
  PROVE  /\ BatchInv'
         /\ batch'.pc = "batch" => Len(batch'.left) < Len(batch.left)
<1> DEFINE scalar == batch.scalars[batch.max1]
           last == batch.points[batch.max1]
           point == ge25519_multi_scalarmult_vartime_final(last, scalar)
           n == batch.batchsize
<1>1. /\ batch.pc = "final" /\ Shaped'
      /\ \/ /\ point # 0 /\ batch'.ret = batch.ret \union {2} /\ batch'.pc = "fallback"
            /\ batch'.unlucky = (batch.unlucky \/ ~batch.extended)
            /\ Kept({"ret", "pc", "unlucky"})
         \/ /\ point = 0 /\ batch'.pc = "batch" /\ batch'.left = NextBatch
            /\ batch'.unlucky =
                 ((batch.unlucky \/ ~batch.extended) \/ \E i \in 1 .. n : ~sign_open(batch.left[i]))
            /\ Kept({"pc", "left", "unlucky"})
  BY FinalEffect DEF BatchInv
<1>2. /\ batch.sigs \in Batches /\ Left(batch.left, batch.sigs, Done)
      /\ batch.unlucky \in BOOLEAN /\ n \in 1 .. Len(batch.left)
      /\ batch.extended \in BOOLEAN
  BY <1>1 DEF BatchInv, Progress, AtEnd
<1>3. SumNeutral /\ AtEnd /\ Answered
  BY DEF BatchInv
<1>4. /\ Len(batch.sigs) \in Nat /\ DOMAIN batch.sigs = 1 .. Len(batch.sigs)
      /\ Done \in 0 .. Len(batch.sigs)
      /\ Len(batch.left) = Len(batch.sigs) - Done /\ Len(batch.left) \in Nat
      /\ \A i \in 1 .. Len(batch.left) : batch.left[i] = batch.sigs[Done + i]
  <2>1. /\ Len(batch.sigs) \in Nat /\ DOMAIN batch.sigs = 1 .. Len(batch.sigs)
    BY <1>2, BatchFits
  <2>2. /\ Done \in 0 .. Len(batch.sigs) /\ Len(batch.left) = Len(batch.sigs) - Done
        /\ \A i \in 1 .. Len(batch.left) : batch.left[i] = batch.sigs[Done + i]
    BY <1>2 DEF Left
  <2> QED
    BY <2>1, <2>2
<1>5. batch.extended => (batch.sum = 0 <=> point = 0)
  <2>1. SUFFICES ASSUME batch.extended PROVE batch.sum = 0 <=> point = 0
    OBVIOUS
  <2>2. /\ scalar \in Scalars /\ last \in 0 .. m - 1
        /\ Value(scalar) < 2 ^ HALF
        /\ batch.sum = (Value(scalar) * last) % m
    BY <2>1, <1>1, <1>3 DEF AtEnd
  <2> HIDE DEF scalar, last
  <2> QED
    BY <2>2, FinalNeutral
<1>6. CASE point # 0
  <2>1. /\ batch'.ret = batch.ret \union {2} /\ batch'.pc = "fallback"
        /\ batch'.unlucky = (batch.unlucky \/ ~batch.extended)
        /\ Kept({"ret", "pc", "unlucky"})
    BY <1>1, <1>6
  <2>2. /\ batch'.sigs = batch.sigs /\ batch'.left = batch.left /\ batch'.batchsize = n
        /\ batch'.valid = batch.valid
    BY <2>1 DEF Kept, Fields
  <2>3. Done' = Done
    BY <2>2 DEF Done
  <2>4. Progress'
    BY <2>1, <2>2, <2>3, <1>2 DEF Progress
  <2>5. AtWork' /\ AtEnd' /\ SumNeutral'
    BY <2>1 DEF AtWork, AtEnd, SumNeutral
  <2>6. Answered'
    <3>1. SUFFICES ASSUME ~batch'.unlucky
          PROVE  /\ batch'.valid = [i \in DOMAIN batch'.sigs |-> i <= Done' => sign_open(batch'.sigs[i])]
                 /\ 1 \in batch'.ret <=> \E i \in 1 .. Done' : ~sign_open(batch'.sigs[i])
                 /\ 2 \in batch'.ret => 1 \in batch'.ret \/ (batch'.pc = "fallback" /\ ~AllOpen')
      BY DEF Answered
    <3>2. ~batch.unlucky /\ batch.extended
      BY <3>1, <2>1, <1>2
    <3>3. /\ batch.valid = [i \in DOMAIN batch.sigs |-> i <= Done => sign_open(batch.sigs[i])]
          /\ 1 \in batch.ret <=> \E i \in 1 .. Done : ~sign_open(batch.sigs[i])
      BY <3>2, <1>3 DEF Answered
    <3>4. ~AllOpen
      BY <3>2, <1>1, <1>3, <1>5, <1>6 DEF SumNeutral
    <3>5. ~AllOpen'
      BY <3>4, <2>2 DEF AllOpen
    <3>6. 1 \in batch'.ret <=> 1 \in batch.ret
      BY <2>1
    <3> QED
      BY <3>3, <3>5, <3>6, <2>1, <2>2, <2>3
  <2>7. BatchInv'
    BY <2>4, <2>5, <2>6, <1>1 DEF BatchInv
  <2> QED
    BY <2>1, <2>7
<1>7. CASE point = 0
  <2>1. /\ batch'.pc = "batch" /\ batch'.left = NextBatch
        /\ batch'.unlucky =
             ((batch.unlucky \/ ~batch.extended) \/ \E i \in 1 .. n : ~sign_open(batch.left[i]))
        /\ Kept({"pc", "left", "unlucky"})
    BY <1>1, <1>7
  <2>2. /\ batch'.sigs = batch.sigs /\ batch'.ret = batch.ret
        /\ batch'.valid = batch.valid
    BY <2>1 DEF Kept, Fields
  <2>3. Left(batch'.left, batch.sigs, Done + n) /\ Len(batch'.left) = Len(batch.left) - n
    <3>1. n \in 0 .. Len(batch.left) /\ batch'.left = SubSeq(batch.left, n + 1, Len(batch.left))
      BY <2>1, <1>2, <1>4 DEF NextBatch
    <3>2. LeftTakes(batch.left, batch.sigs, Done, n)
      BY <3>1, <1>2 DEF LeftTakes
    <3> QED
      BY <3>1, <3>2, LeftNext
  <2>4. Done' = Done + n /\ n \in Nat /\ n > 0
    <3>1. Done' = Len(batch.sigs) - Len(batch'.left) /\ Done = Len(batch.sigs) - Len(batch.left)
      BY <2>2 DEF Done
    <3>2. n \in Nat /\ n > 0
      BY <1>2, <1>4
    <3>3. Len(batch'.left) = Len(batch.left) - n
      BY <2>3
    <3> HIDE DEF n
    <3>4. Done' = Done + n
      BY <3>1, <3>2, <3>3, <1>4
    <3> QED
      BY <3>2, <3>4
  <2>5. Progress'
    BY <2>1, <2>2, <2>3, <2>4, <1>2 DEF Progress
  <2>6. AtWork' /\ AtEnd' /\ SumNeutral'
    BY <2>1 DEF AtWork, AtEnd, SumNeutral
  <2>7. Answered'
    <3>1. SUFFICES ASSUME ~batch'.unlucky
          PROVE  /\ batch'.valid = [i \in DOMAIN batch'.sigs |-> i <= Done' => sign_open(batch'.sigs[i])]
                 /\ 1 \in batch'.ret <=> \E i \in 1 .. Done' : ~sign_open(batch'.sigs[i])
                 /\ 2 \in batch'.ret => 1 \in batch'.ret \/ (batch'.pc = "fallback" /\ ~AllOpen')
      BY DEF Answered
    <3>2. ~batch.unlucky /\ \A i \in 1 .. n : sign_open(batch.left[i])
      BY <3>1, <2>1, <1>2
    <3>3. /\ batch.valid = [i \in DOMAIN batch.sigs |-> i <= Done => sign_open(batch.sigs[i])]
          /\ 1 \in batch.ret <=> \E i \in 1 .. Done : ~sign_open(batch.sigs[i])
          /\ 2 \in batch.ret => 1 \in batch.ret
      BY <3>2, <1>1, <1>3 DEF Answered
    <3>4. \A i \in Done + 1 .. Done + n : sign_open(batch.sigs[i])
      <4> TAKE i \in Done + 1 .. Done + n
      <4>1. i - Done \in 1 .. n /\ i - Done \in 1 .. Len(batch.left) /\ Done + (i - Done) = i
        BY <1>2, <1>4, <2>4
      <4>2. batch.left[i - Done] = batch.sigs[i]
        BY <4>1, <1>4
      <4> QED
        BY <4>1, <4>2, <3>2
    <3>5. \A i \in Int : i <= Done' <=> i <= Done \/ i \in Done + 1 .. Done + n
      BY <2>4, <1>4
    <3>6. \A i \in DOMAIN batch.sigs :
            (i <= Done => sign_open(batch.sigs[i])) <=> (i <= Done' => sign_open(batch.sigs[i]))
      BY <3>4, <3>5, <1>4
    <3>7. batch'.valid = [i \in DOMAIN batch'.sigs |-> i <= Done' => sign_open(batch'.sigs[i])]
      BY <3>3, <3>6, <2>2
    <3>8. (\E i \in 1 .. Done' : ~sign_open(batch.sigs[i]))
            <=> \E i \in 1 .. Done : ~sign_open(batch.sigs[i])
      BY <3>4, <3>5, <1>4, <2>4
    <3> QED
      BY <3>3, <3>7, <3>8, <2>2
  <2>8. BatchInv'
    BY <2>5, <2>6, <2>7, <1>1 DEF BatchInv
  <2>9. Len(batch'.left) < Len(batch.left)
    BY <2>3, <2>4, <1>4
  <2> QED
    BY <2>8, <2>9
<1> QED
  BY <1>6, <1>7

\* The next n signatures are opened one by one: those of a batch that did not hold, or
\* the last.
LEMMA OpenStep ==
  ASSUME ShapeFits, KeepPromise(Scalars), InputsFit, BatchInv, NEW n, NEW pc, OpenEach(n, pc),
         \/ batch.pc = "fallback" /\ n = batch.batchsize /\ pc = "batch"
         \/ batch.pc = "batch" /\ n = Len(batch.left) /\ pc = "done"
  PROVE  BatchInv' /\ Len(batch'.left) = Len(batch.left) - n /\ batch'.pc = pc
<1> DEFINE sigs == batch.sigs
           answer == [i \in DOMAIN sigs |->
                        IF i \in Done + 1 .. Done + n THEN sign_open(sigs[i]) ELSE batch.valid[i]]
           more == {1 : i \in {i \in Done + 1 .. Done + n : ~answer[i]}}
<1>1. /\ batch'.valid = answer /\ batch'.pc = pc
      /\ batch'.left = SubSeq(batch.left, n + 1, Len(batch.left))
      /\ batch'.ret = batch.ret \union more
      /\ Kept({"valid", "pc", "left", "ret"}) /\ Shaped'
  BY OpenEffect DEF BatchInv
<1>2. /\ sigs \in Batches /\ Left(batch.left, sigs, Done) /\ batch.unlucky \in BOOLEAN
      /\ batch.pc = "fallback" => n \in 1 .. Len(batch.left)
  BY DEF BatchInv, Progress
<1>3. /\ batch'.sigs = sigs /\ batch'.unlucky = batch.unlucky
  BY <1>1 DEF Kept, Fields
<1>4. /\ Len(sigs) \in Nat /\ DOMAIN sigs = 1 .. Len(sigs)
      /\ Done \in 0 .. Len(sigs)
      /\ Len(batch.left) = Len(sigs) - Done /\ Len(batch.left) \in Nat
      /\ \A i \in 1 .. Len(batch.left) : batch.left[i] = sigs[Done + i]
  <2>1. /\ Len(sigs) \in Nat /\ DOMAIN sigs = 1 .. Len(sigs)
    BY <1>2, BatchFits
  <2>2. /\ Done \in 0 .. Len(sigs) /\ Len(batch.left) = Len(sigs) - Done
        /\ \A i \in 1 .. Len(batch.left) : batch.left[i] = sigs[Done + i]
    BY <1>2 DEF Left
  <2> QED
    BY <2>1, <2>2
<1>5. n \in 0 .. Len(batch.left) /\ n \in Nat
  BY <1>2, <1>4
<1>6. Left(batch'.left, sigs, Done + n) /\ Len(batch'.left) = Len(batch.left) - n
  <2>1. LeftTakes(batch.left, sigs, Done, n)
    BY <1>2, <1>5 DEF LeftTakes
  <2> DEFINE left == batch.left
             d == Done
  <2>2. /\ Left(SubSeq(left, n + 1, Len(left)), sigs, d + n)
        /\ Len(SubSeq(left, n + 1, Len(left))) = Len(left) - n
    <3>1. LeftTakes(left, sigs, d, n)
      BY <2>1
    <3> HIDE DEF sigs, left, d
    <3>2. Left(SubSeq(left, n + 1, Len(left)), sigs, d + n)
      BY <3>1, LeftNext
    <3>3. Len(SubSeq(left, n + 1, Len(left))) = Len(left) - n
      <4>1. Len(SubSeq(left, n + 1, Len(left))) = Len(sigs) - (d + n)
        BY <3>2 DEF Left
      <4> DEFINE all == Len(sigs)
                 before == Len(left)
      <4>2. all \in Nat /\ d \in 0 .. all /\ before = all - d /\ n \in Nat
        BY <1>4, <1>5 DEF sigs, left, d
      <4> HIDE DEF all, before
      <4>3. all - (d + n) = before - n
        BY <4>2
      <4> QED
        BY <4>1, <4>3 DEF all, before
    <3> QED
      BY <3>2, <3>3
  <2>3. batch'.left = SubSeq(batch.left, n + 1, Len(batch.left))
    BY <1>1
  <2> HIDE DEF sigs
  <2> QED
    BY <2>2, <2>3
<1>7. Done' = Done + n
  <2> DEFINE all == Len(sigs)
             before == Len(batch.left)
             after == Len(batch'.left)
             d == Done
             next == Done'
  <2>1. next = all - after /\ d = all - before
    BY <1>3 DEF Done
  <2>2. all \in Int /\ before \in Int /\ n \in Int /\ after = before - n
    <3>1. after = before - n
      BY <1>6
    <3>2. all \in Int /\ before \in Int
      BY <1>4
    <3> HIDE DEF all, before, after
    <3> QED
      BY <3>1, <3>2, <1>5
  <2> HIDE DEF all, before, after, d, next
  <2>3. next = d + n
    BY <2>1, <2>2
  <2> QED
    BY <2>3 DEF d, next
<1>8. Progress'
  <2>1. pc = "done" => Len(batch'.left) = 0
    <3>1. SUFFICES ASSUME pc = "done" PROVE Len(batch'.left) = 0
      OBVIOUS
    <3>2. n = Len(batch.left)
      BY <3>1
    <3>3. Len(batch.left) - Len(batch.left) = 0
      BY <1>4
    <3> QED
      BY <3>2, <3>3, <1>6
  <2>2. pc \in {"batch", "done"}
    OBVIOUS
  <2> QED
    BY <2>1, <2>2, <1>1, <1>2, <1>3, <1>6, <1>7 DEF Progress
<1>9. AtWork' /\ AtEnd' /\ SumNeutral'
  BY <1>1 DEF AtWork, AtEnd, SumNeutral
<1>10. Answered'
  <2>1. SUFFICES ASSUME ~batch'.unlucky
        PROVE  /\ batch'.valid = [i \in DOMAIN batch'.sigs |-> i <= Done' => sign_open(batch'.sigs[i])]
               /\ 1 \in batch'.ret <=> \E i \in 1 .. Done' : ~sign_open(batch'.sigs[i])
               /\ 2 \in batch'.ret => 1 \in batch'.ret \/ (batch'.pc = "fallback" /\ ~AllOpen')
    BY DEF Answered
  <2>2. /\ batch.valid = [i \in DOMAIN sigs |-> i <= Done => sign_open(sigs[i])]
        /\ 1 \in batch.ret <=> \E i \in 1 .. Done : ~sign_open(sigs[i])
        /\ 2 \in batch.ret => 1 \in batch.ret \/ (batch.pc = "fallback" /\ ~AllOpen)
    <3>1. Answered /\ ~batch.unlucky
      BY <2>1, <1>3 DEF BatchInv
    <3> QED
      BY <3>1 DEF Answered
  <2>3. \A i \in 1 .. Len(sigs) :
          i <= Done' <=> i <= Done \/ i \in Done + 1 .. Done + n
    BY <1>4, <1>5, <1>7
  <2>4. \A i \in 1 .. Len(sigs) : answer[i] <=> (i <= Done' => sign_open(sigs[i]))
    <3> TAKE i \in 1 .. Len(sigs)
    <3>1. CASE i \in Done + 1 .. Done + n
      <4>1. answer[i] = sign_open(sigs[i]) /\ i <= Done'
        BY <3>1, <2>3, <1>4
      <4> QED
        BY <4>1
    <3>2. CASE i \notin Done + 1 .. Done + n
      <4>1. answer[i] = batch.valid[i]
        BY <3>2, <1>4
      <4>2. batch.valid[i] = (i <= Done => sign_open(sigs[i]))
        BY <2>2, <1>4
      <4> HIDE DEF answer
      <4> QED
        BY <4>1, <4>2, <3>2, <2>3
    <3> QED
      BY <3>1, <3>2
  <2>5. \A i \in 1 .. Len(sigs) : answer[i] \in BOOLEAN
    <3> TAKE i \in 1 .. Len(sigs)
    <3>1. CASE i \in Done + 1 .. Done + n
      <4>1. answer[i] = sign_open(sigs[i])
        BY <3>1, <1>4
      <4> QED
        BY <4>1 DEF sign_open
    <3>2. CASE i \notin Done + 1 .. Done + n
      <4>1. answer[i] = batch.valid[i]
        BY <3>2, <1>4
      <4>2. batch.valid[i] = (i <= Done => sign_open(sigs[i]))
        BY <2>2, <1>4
      <4> HIDE DEF answer
      <4> QED
        BY <4>1, <4>2
    <3> QED
      BY <3>1, <3>2
  <2>6. answer = [i \in DOMAIN sigs |-> i <= Done' => sign_open(sigs[i])]
    <3> DEFINE known == [i \in DOMAIN sigs |-> i <= Done' => sign_open(sigs[i])]
    <3>1. \A i \in 1 .. Len(sigs) : known[i] \in BOOLEAN /\ (known[i] <=> answer[i])
      BY <2>4, <1>4
    <3>2. \A i \in 1 .. Len(sigs) : known[i] = answer[i]
      <4> HIDE DEF known, answer
      <4> QED
        BY <3>1, <2>5
    <3>3. known = [i \in 1 .. Len(sigs) |-> known[i]] /\ answer = [i \in 1 .. Len(sigs) |-> answer[i]]
      BY <1>4
    <3> HIDE DEF known, answer
    <3>4. known = answer
      BY <3>2, <3>3
    <3> QED
      BY <3>4 DEF known
  <2>7. 1 \in more <=> \E i \in Done + 1 .. Done + n : ~sign_open(sigs[i])
    <3>1. \A i \in Done + 1 .. Done + n : answer[i] = sign_open(sigs[i])
      BY <1>4, <1>5
    <3> HIDE DEF answer
    <3> QED
      BY <3>1
  <2>8. 2 \notin more
    OBVIOUS
  <2> HIDE DEF answer, more
  <2>9. 1 \in batch'.ret <=> \E i \in 1 .. Done' : ~sign_open(sigs[i])
    <3>1. 1 \in batch'.ret <=> 1 \in batch.ret \/ 1 \in more
      BY <1>1
    <3>2. \A i : i \in 1 .. Done' <=> i \in 1 .. Done \/ i \in Done + 1 .. Done + n
      BY <1>4, <1>5, <1>7
    <3> QED
      BY <3>1, <3>2, <2>2, <2>7
  <2>10. 2 \in batch'.ret => 1 \in batch'.ret
    <3>1. SUFFICES ASSUME 2 \in batch'.ret PROVE 1 \in batch'.ret
      OBVIOUS
    <3>2. 2 \in batch.ret
      BY <3>1, <1>1, <2>8
    <3>3. CASE 1 \in batch.ret
      BY <3>3, <1>1
    <3>4. CASE batch.pc = "fallback" /\ ~AllOpen
      <4>1. n = batch.batchsize
        BY <3>4
      <4>2. PICK i \in 1 .. n : ~sign_open(batch.left[i])
        BY <3>4, <4>1 DEF AllOpen
      <4>3. i \in 1 .. Len(batch.left) /\ Done + i \in Done + 1 .. Done + n
        BY <1>4, <1>5
      <4>4. ~sign_open(sigs[Done + i])
        BY <4>2, <4>3, <1>4
      <4> QED
        BY <4>3, <4>4, <2>7, <1>1
    <3> QED
      BY <3>2, <3>3, <3>4, <2>2
  <2> QED
    BY <2>6, <2>9, <2>10, <1>1, <1>3
<1> QED
  BY <1>1, <1>6, <1>8, <1>9, <1>10 DEF BatchInv

\* So does a step that changes nothing.
LEMMA StutterInv ==
  ASSUME BatchInv, UNCHANGED batch
  PROVE  BatchInv'
BY DEF BatchInv, Shaped, Progress, Done, AtWork, AtEnd, SumNeutral, AllOpen, Answered

\* Every step keeps the invariant, and is one of the chain that ends.
LEMMA StepInv ==
  ASSUME ShapeFits, KeepPromise(Scalars), InputsFit, BatchInv, [Next]_batch
  PROVE  BatchInv' /\ (Shrinks \/ UNCHANGED batch)
<1>1. CASE Gather
  <2>1. BatchInv'
    BY <1>1, GatherInv
  <2>2. batch.pc = "batch" /\ batch'.pc \in {"turn", "fallback"}
    <3>1. Shaped
      BY DEF BatchInv
    <3> QED
      BY ZenonT(60), <3>1, <1>1, GatherEffect
  <2> QED
    BY <2>1, <2>2 DEF Shrinks
<1>2. CASE Turn
  <2>1. BatchInv' /\ (batch'.pc = "turn" => Total(batch'.scalars) < Total(batch.scalars))
    BY SMTT(40), <1>2, TurnStep
  <2>2. batch.pc = "turn"
    BY <1>2 DEF Turn
  <2> QED
    BY <2>1, <2>2 DEF Shrinks
<1>3. CASE Final
  <2>1. BatchInv' /\ (batch'.pc = "batch" => Len(batch'.left) < Len(batch.left))
    BY <1>3, FinalStep
  <2>2. batch.pc = "final"
    BY <1>3 DEF Final
  <2> QED
    BY <2>1, <2>2 DEF Shrinks
<1>4. CASE Fallback
  <2>1. batch.pc = "fallback" /\ OpenEach(batch.batchsize, "batch")
    BY <1>4 DEF Fallback
  <2>2. BatchInv' /\ Len(batch'.left) = Len(batch.left) - batch.batchsize
    BY <2>1, OpenStep
  <2>3. batch.batchsize \in 1 .. Len(batch.left) /\ Len(batch.left) \in Int
    <3>1. /\ batch.sigs \in Batches /\ Left(batch.left, batch.sigs, Done)
          /\ batch.batchsize \in 1 .. Len(batch.left)
      BY <2>1 DEF BatchInv, Progress
    <3>2. Len(batch.sigs) \in Nat
      BY <3>1, BatchFits
    <3> QED
      BY <3>1, <3>2 DEF Left
  <2>4. Len(batch'.left) < Len(batch.left)
    BY <2>2, <2>3
  <2> QED
    BY <2>1, <2>2, <2>4 DEF Shrinks
<1>5. CASE Rest
  <2>1. batch.pc = "batch" /\ OpenEach(Len(batch.left), "done")
    BY <1>5 DEF Rest
  <2>2. BatchInv' /\ batch'.pc = "done"
    BY <2>1, OpenStep
  <2> QED
    BY <2>1, <2>2 DEF Shrinks
<1>6. CASE UNCHANGED batch
  BY <1>6, StutterInv
<1> QED
  BY <1>1, <1>2, <1>3, <1>4, <1>5, <1>6 DEF Next

\* The invariant holds, for any sizes of scalars, of limbs and of a batch, any signatures
\* and any random numbers.
THEOREM BatchInductive ==
  ASSUME ShapeFits, KeepPromise(Scalars), InputsFit
  PROVE  Spec => []BatchInv
<1>1. Init => BatchInv
  BY InitInv
<1>2. BatchInv /\ [Next]_batch => BatchInv'
  BY StepInv
<1> QED
  BY <1>1, <1>2, PTL DEF Spec

\* The invariant says what BatchSound does.
LEMMA InvSound ==
  ASSUME ShapeFits, KeepPromise(Scalars), BatchInv
  PROVE  BatchSound
<1> DEFINE K == 2 * batch.batchsize
           scalars == batch.scalars
           heap == batch.heap
           size == batch.size
           l == batch.limbsize
<1>1. ASSUME batch.pc = "turn"
      PROVE  /\ Multiples(batch.points, scalars, K) = batch.sum
             /\ {heap[node] : node \in 0 .. size - 1} = 0 .. size - 1
             /\ \A node \in 0 .. size - 1 :
                  LET x == scalars[heap[node]]
                      above == scalars[heap[IF node = 0 THEN 0 ELSE Parent(node)]]
                  IN  ZeroAbove(x, l) /\ Value(x) <= Value(above)
  <2>1. /\ HeapFits(heap, size, K) /\ Ordered(heap, size, scalars)
        /\ Comparable(scalars, size, K, l)
        /\ Multiples(batch.points, scalars, K) = batch.sum
    BY <1>1 DEF BatchInv, AtWork, Working
  <2> HIDE DEF K, scalars, heap, size, l
  <2>2. /\ size \in Nat
        /\ \A a \in 0 .. size - 1 : heap[a] \in 0 .. size - 1
        /\ \A i \in 0 .. size - 1 : \E a \in 0 .. size - 1 : heap[a] = i
    BY <2>1 DEF HeapFits
  <2>3. {heap[node] : node \in 0 .. size - 1} = 0 .. size - 1
    BY <2>2
  <2>4. ASSUME NEW node \in 0 .. size - 1
        PROVE  LET x == scalars[heap[node]]
                   above == scalars[heap[IF node = 0 THEN 0 ELSE Parent(node)]]
               IN  ZeroAbove(x, l) /\ Value(x) <= Value(above)
    <3>1. ZeroAbove(scalars[heap[node]], l)
      BY <2>1, <2>2 DEF Comparable
    <3>2. CASE node = 0
      <4>1. Value(scalars[heap[0]]) \in Nat
        BY <3>2, <2>1, AtType DEF Comparable, At
      <4>2. Value(scalars[heap[0]]) <= Value(scalars[heap[0]])
        BY <4>1
      <4> QED
        BY <4>2, <3>1, <3>2
    <3>3. CASE node # 0
      <4>1. node \in 1 .. size - 1
        BY <3>3, <2>2
      <4>2. Value(scalars[heap[node]]) <= Value(scalars[heap[Parent(node)]])
        BY <4>1, <2>1 DEF Ordered, At
      <4> QED
        BY <4>2, <3>1, <3>3
    <3> QED
      BY <3>2, <3>3
  <2> QED
    BY <2>1, <2>3, <2>4
<1>2. ASSUME batch.pc = "final", batch.extended
      PROVE  (batch.sum = 0) = (ge25519_multi_scalarmult_vartime_final(
                            batch.points[batch.max1], batch.scalars[batch.max1]) = 0)
  <2> DEFINE scalar == batch.scalars[batch.max1]
             last == batch.points[batch.max1]
  <2>1. /\ scalar \in Scalars /\ last \in 0 .. m - 1
        /\ Value(scalar) < 2 ^ HALF
        /\ batch.sum = (Value(scalar) * last) % m
    BY <1>2 DEF BatchInv, AtEnd
  <2>2. batch.sum = 0 <=> ge25519_multi_scalarmult_vartime_final(last, scalar) = 0
    <3> HIDE DEF scalar, last
    <3> QED
      BY <2>1, FinalNeutral
  <2> QED
    BY <2>2
<1> QED
  BY <1>1, <1>2 DEF BatchSound

\* The invariant says that the answers are right.
LEMMA InvAnswers ==
  ASSUME ShapeFits, KeepPromise(Scalars), InputsFit, BatchInv
  PROVE  BatchAnswers
<1> SUFFICES ASSUME batch.pc = "done", ~batch.unlucky
             PROVE  /\ batch.valid = [i \in DOMAIN batch.sigs |-> sign_open(batch.sigs[i])]
                    /\ (1 \in batch.ret) = (\E i \in DOMAIN batch.valid : ~batch.valid[i])
                    /\ 2 \in batch.ret => 1 \in batch.ret
  BY DEF BatchAnswers
<1>1. /\ batch.sigs \in Batches /\ Left(batch.left, batch.sigs, Done) /\ Len(batch.left) = 0
  BY DEF BatchInv, Progress
<1>2. Len(batch.sigs) \in Nat /\ DOMAIN batch.sigs = 1 .. Len(batch.sigs) /\ Done = Len(batch.sigs)
  BY <1>1, BatchFits DEF Left
<1>3. /\ batch.valid = [i \in DOMAIN batch.sigs |-> i <= Done => sign_open(batch.sigs[i])]
      /\ 1 \in batch.ret <=> \E i \in 1 .. Done : ~sign_open(batch.sigs[i])
      /\ 2 \in batch.ret => 1 \in batch.ret
  <2>1. Answered
    BY DEF BatchInv
  <2> QED
    BY <2>1 DEF Answered
<1>4. \A i \in DOMAIN batch.sigs : i <= Done
  BY <1>2
<1>5. batch.valid = [i \in DOMAIN batch.sigs |-> sign_open(batch.sigs[i])]
  BY <1>3, <1>4 DEF sign_open
<1>6. 1 \in batch.ret <=> \E i \in DOMAIN batch.valid : ~batch.valid[i]
  <2>1. DOMAIN batch.valid = 1 .. Done /\ \A i \in 1 .. Done : batch.valid[i] = sign_open(batch.sigs[i])
    BY <1>2, <1>5
  <2> QED
    BY <2>1, <1>3
<1>7. (1 \in batch.ret) = (\E i \in DOMAIN batch.valid : ~batch.valid[i])
  <2>1. CASE 1 \in batch.ret
    BY <1>6, <2>1
  <2>2. CASE 1 \notin batch.ret
    <3>1. (1 \in batch.ret) = FALSE /\ (\E i \in DOMAIN batch.valid : ~batch.valid[i]) = FALSE
      BY <1>6, <2>2
    <3> QED
      BY <3>1, Zenon
  <2> QED
    BY <2>1, <2>2
<1> QED
  BY <1>3, <1>5, <1>7, Zenon

\* While a batch is reduced the multiples add up to what they did, the heap holds
\* each scalar once and in order with zeros above limbsize, and the point at the end is
\* neutral if and only if the sum is (ge25519_multi_scalarmult_vartime).
THEOREM BatchIsSound ==
  ASSUME ShapeFits, KeepPromise(Scalars), InputsFit
  PROVE  Spec => []BatchSound
<1>1. BatchInv => BatchSound
  BY InvSound
<1> QED
  BY <1>1, BatchInductive, PTL

\* ed25519_sign_open_batch answers what opening each signature would, unless the
\* random numbers were unlucky.
THEOREM BatchAnswersRight ==
  ASSUME ShapeFits, KeepPromise(Scalars), InputsFit
  PROVE  Spec => []BatchAnswers
<1>1. BatchInv => BatchAnswers
  BY InvAnswers
<1> QED
  BY <1>1, BatchInductive, PTL

\* Every turn of the loop lowers the sum of the scalars, so that it ends.
THEOREM BatchGoesDown ==
  ASSUME ShapeFits, KeepPromise(Scalars), InputsFit
  PROVE  Spec => BatchShrinks
<1>1. BatchInv /\ [Next]_batch => [Shrinks]_batch
  BY StepInv
<1> QED
  BY <1>1, BatchInductive, PTL DEF Spec, BatchShrinks
==============================================================================
