----------------------------- MODULE Curve25519 -----------------------------
(***************************************************************************)
(* Numbers modulo p = 2^bits - C in limbs, as ED25519Donna's headers       *)
(* curve25519-donna-64bit.h (five limbs of 51 bits, C = 19) and            *)
(* curve25519-donna-32bit.h (ten limbs of 26 and 25 bits) compute with     *)
(* them.  The two headers take the same steps on other shapes.  Here are   *)
(* the steps, over any shape; the functions of the headers, each of which  *)
(* picks its steps, are in Curve25519x64 and Curve25519x32.                *)
(*                                                                         *)
(* A number is a function from the index of a limb to the limb, and a limb *)
(* may hold more than its own bits until a pass carries the excess on.     *)
(***************************************************************************)
EXTENDS Integers, Functions

CONSTANTS
  N,       \* number of limbs
  Offset,  \* limb i counts units of 2^Offset[i]; Offset[N] is the number of bits
  C,       \* 2^Offset[N] is C modulo p
  WORD,    \* number of values of the word of a limb
  DWORD,   \* ... of the word that sums products of limbs
  CARRY    \* ... of the word a carry between two columns passes through

Limb == 0 .. N - 1
Base(i) == 2 ^ (Offset[i + 1] - Offset[i])

\* What the steps below ask of a shape.
ShapeFits ==
  /\ N \in Nat \ {0, 1}
  /\ Offset[0] = 0
  /\ \A i \in Limb : Offset[i] < Offset[i + 1] /\ C < Base(i) /\ WORD % Base(i) = 0

\* A number: every limb fits its word.  (A function, so that TLC evaluates the limbs
\* once, where they are computed.)
Number == [x \in [Limb -> 0 .. WORD - 1] |-> x]

(***************************************************************************)
(* Sums, differences and carries.                                          *)
(***************************************************************************)
Sum(a, b) == [i \in Limb |-> (a[i] + b[i]) % WORD]

\* twoP and fourP: the limbs of k * p, none of them small.
Multiple(k) == [i \in Limb |-> k * Base(i) - (IF i = 0 THEN k * C ELSE k)]

\* a - b, kept from going below zero by k * p.
Difference(k, a, b) ==
  LET kp == Multiple(k) IN [i \in Limb |-> (kp[i] + a[i] - b[i]) % WORD]

\* The carry into each of the first n limbs, and out of the last of them.
CarryInto(x, n) ==
  LET c[i \in 0 .. n] ==
        IF i = 0 THEN 0 ELSE ((x[i - 1] + c[i - 1]) % WORD) \div Base(i - 1)
  IN  c

\* The first n limbs carried, the carry out of them dropped on the next one.
CarryFirst(x, n) ==
  LET c == CarryInto(x, n)
  IN  [i \in Limb |-> IF i < n THEN (x[i] + c[i]) % Base(i)
                      ELSE IF i = n THEN (x[i] + c[n]) % WORD ELSE x[i]]

\* All limbs carried, and what leaves the last one folded into the first.
CarryAll(x) ==
  Number[[CarryFirst(x, N) EXCEPT ![0] = (@ + C * CarryInto(x, N)[N]) % WORD]]

(***************************************************************************)
(* Products.  A column is the sum of the products of limbs that belong at  *)
(* its offset: Lift(i, j, k) is the factor that takes r[i] * s[j] there,   *)
(* and a product past the last limb comes back C times.                    *)
(***************************************************************************)
Wraps(i, j) == i + j >= N
Lift(i, j, k) ==
  2 ^ (Offset[i] + Offset[j] - Offset[k] - (IF Wraps(i, j) THEN Offset[N] ELSE 0))

SumOf(f) == FoldFunction(LAMBDA a, b : (a + b) % DWORD, 0, f)

ProductColumns(r, s) ==
  [k \in Limb |->
    SumOf([i \in Limb |->
             LET j == (k - i) % N
                 factor == Lift(i, j, k) * (IF Wraps(i, j) THEN C ELSE 1)
             IN  (((r[i] * factor) % WORD) * s[j]) % DWORD])]

\* The columns of a square add each pair of limbs once, doubled.  Of a pair that
\* wraps, the limb with the larger index takes C and Share(i, j) of the factor.
SquareColumns(r, Share(_, _)) ==
  [k \in Limb |->
    LET larger == {i \in Limb : (k - i) % N <= i}
    IN  SumOf([i \in larger |->
                LET j == (k - i) % N
                    factor == Lift(i, j, k) * (IF i = j THEN 1 ELSE 2)
                    share == IF Wraps(i, j) THEN Share(i, j) ELSE 1
                IN  (((r[i] * share * (IF Wraps(i, j) THEN C ELSE 1)) % WORD)
                     * ((r[j] * (factor \div share)) % WORD)) % DWORD])]

\* Carries run up the columns, around to the first limb and into the second.
ReduceColumns(t) ==
  LET carry[i \in 0 .. N] ==
        IF i = 0 THEN 0
        ELSE (((t[i - 1] + carry[i - 1]) % DWORD) \div Base(i - 1)) % CARRY
      r == [i \in Limb |-> (t[i] + carry[i]) % Base(i)]
      first == (r[0] + C * (carry[N] % WORD)) % CARRY
  IN  [r EXCEPT ![0] = first % Base(0), ![1] = (@ + first \div Base(0)) % WORD]

\* Each column hands its excess to the next one first; one pass carries the rest.
ReduceColumnsAtOnce(t) ==
  LET excess == [i \in Limb |-> (t[i] \div Base(i)) % CARRY]
  IN  CarryAll(Number[[i \in Limb |->
        ((t[i] % Base(i)) + (IF i = 0 THEN C * excess[N - 1] ELSE excess[i - 1])) % WORD]])

(***************************************************************************)
(* To and from bytes: a string of bytes is the number it spells.           *)
(***************************************************************************)
Expand(n) == [i \in Limb |-> (n \div 2 ^ Offset[i]) % Base(i)]

Collect(x) == FoldFunction(+, 0, [i \in Limb |-> x[i] * 2 ^ Offset[i]])

\* Two passes make the number less than 2^bits; adding C and carrying takes p off
\* when it is p or more, and adding 2^bits - C takes the C out again.
Contract(x) ==
  LET carried == CarryAll(CarryAll(x))
      offset == CarryAll([carried EXCEPT ![0] = (@ + C) % WORD])
      removed == [i \in Limb |-> (offset[i] + Base(i) - (IF i = 0 THEN C ELSE 1)) % WORD]
  IN  Collect(CarryFirst(removed, N))

(***************************************************************************)
(* The promise: a number modulo p, and how large the limbs may be.  A      *)
(* reduced number is what products, reducing sums and strings leave; a     *)
(* basic one is the plain sum or difference of two of those.               *)
(***************************************************************************)
p == 2 ^ Offset[N] - C

\* a * b modulo p, bit by bit of b.
Times(a, b) ==
  LET f[k \in 0 .. Offset[N]] ==
        IF k = Offset[N] THEN 0
        ELSE (((2 * f[k + 1]) % p) + a * ((b \div 2 ^ k) % 2)) % p
  IN  IF a = 0 \/ b = 0 THEN 0 ELSE f[0]

\* The number modulo p that limbs stand for.
Residue(x) ==
  LET f[i \in 0 .. N] ==
        IF i = N THEN 0 ELSE (Times(f[i + 1], Base(i)) + x[i]) % p
  IN  f[0]

Fits(x, width) ==
  \A i \in Limb :
    CASE width = "reduced" -> x[i] <= Multiple(2)[i]
      [] width = "basic" -> x[i] <= Multiple(4)[i]
      [] OTHER -> x[i] < WORD
=============================================================================
