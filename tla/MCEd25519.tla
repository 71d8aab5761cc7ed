----------------------------- MODULE MCEd25519 ------------------------------
(***************************************************************************)
(* ED25519Donna for the model checker.  A run is one job: registers of     *)
(* limbs, of scalars or of points, signed messages, or a call that opens   *)
(* batches: BatchVerify over the scalars of the 64-bit layout, or Batch32  *)
(* over those of the other.  The shapes are those of the headers, scaled   *)
(* down so that the checker's integers hold them: what makes a shape is    *)
(* how limbs, carries and words fit each other, and that is kept.          *)
(***************************************************************************)
EXTENDS BatchVerify

CONSTANTS
  MaxFieldOps, MaxScalarOps, MaxGroupOps  \* bounds on the functions called in a row

VARIABLES job, reg, other, ops

vars == <<job, reg, other, ops, batch>>

BytesOf(n, byte, len) == [i \in 1 .. len |-> (n \div byte ^ (i - 1)) % byte]

(***************************************************************************)
(* Limbs: three of nine bits modulo 2^27 - 3 in words of eighteen, for the *)
(* five of 51 in words of 64; and four of seven and eight bits modulo      *)
(* 2^30 - 3 in words of twelve, for the ten of 25 and 26 in words of 32.   *)
(***************************************************************************)
x64 == INSTANCE Curve25519x64 WITH
  N <- 3, Offset <- [i \in 0 .. 3 |-> 9 * i], C <- 3,
  WORD <- 2 ^ 18, DWORD <- 2 ^ 30, CARRY <- 2 ^ 18
x32 == INSTANCE Curve25519x32 WITH
  N <- 4, Offset <- [i \in 0 .. 4 |-> <<0, 8, 15, 23, 30>>[i + 1]], C <- 3,
  WORD <- 2 ^ 12, DWORD <- 2 ^ 23, CARRY <- 2 ^ 23, Carried <- 2

Field64 == INSTANCE FieldRegisters WITH
  add <- x64!curve25519_add, add_after_basic <- x64!curve25519_add_after_basic,
  add_reduce <- x64!curve25519_add_reduce, sub <- x64!curve25519_sub,
  sub_after_basic <- x64!curve25519_sub_after_basic,
  sub_reduce <- x64!curve25519_sub_reduce, neg <- x64!curve25519_neg,
  mul <- x64!curve25519_mul, square <- x64!curve25519_square,
  square_times <- x64!curve25519_square_times, expand <- x64!curve25519_expand,
  contract <- x64!curve25519_contract,
  move_conditional_bytes <- x64!curve25519_move_conditional_bytes,
  swap_conditional <- x64!curve25519_swap_conditional, p <- x64!p, Times <- x64!Times,
  Residue <- x64!Residue, Fits <- x64!Fits,
  Samples <- {1, 2 ^ 26 + 77, 2 ^ 27 - 4, 2 ^ 27 - 1},
  MaxOps <- MaxFieldOps
Field32 == INSTANCE FieldRegisters WITH
  add <- x32!curve25519_add, add_after_basic <- x32!curve25519_add_after_basic,
  add_reduce <- x32!curve25519_add_reduce, sub <- x32!curve25519_sub,
  sub_after_basic <- x32!curve25519_sub_after_basic,
  sub_reduce <- x32!curve25519_sub_reduce, neg <- x32!curve25519_neg,
  mul <- x32!curve25519_mul, square <- x32!curve25519_square,
  square_times <- x32!curve25519_square_times, expand <- x32!curve25519_expand,
  contract <- x32!curve25519_contract,
  move_conditional_bytes <- x32!curve25519_move_conditional_bytes,
  swap_conditional <- x32!curve25519_swap_conditional, p <- x32!p, Times <- x32!Times,
  Residue <- x32!Residue, Fits <- x32!Fits,
  Samples <- {1, 2 ^ 29 + 77, 2 ^ 30 - 4, 2 ^ 30 - 1},
  MaxOps <- MaxFieldOps

(***************************************************************************)
(* The chains of powers, by the exponents they reach, modulo primes whose  *)
(* product is larger than 2^256.                                           *)
(***************************************************************************)
Moduli == {32749, 32719, 32717, 32713, 32707, 32693, 32687, 32653, 32647, 32633,
           32621, 32611, 32609, 32603, 32587, 32579, 32573, 32569}

TwoTo(n, q) ==
  LET f[i \in 0 .. n] ==
        IF i = 0 THEN 1
        ELSE LET half == f[i \div 2] IN (((half * half) % q) * (1 + (i % 2))) % q
  IN  f[n]

\* An exponent, and what it is taken modulo.
MulExponents(a, b) == <<(a[1] + b[1]) % a[2], a[2]>>
SquareExponent(a, times) == <<(a[1] * TwoTo(times, a[2])) % a[2], a[2]>>

Powers == INSTANCE FieldPowers WITH mul <- MulExponents, square_times <- SquareExponent

PowersOf(q) ==
  [modulus |-> q, recip |-> Powers!curve25519_recip(<<1, q>>)[1],
   root |-> Powers!curve25519_pow_two252m3(<<1, q>>)[1]]

PowersExact ==
  /\ reg.recip = (TwoTo(255, reg.modulus) + reg.modulus - 21) % reg.modulus
  /\ reg.root = (TwoTo(252, reg.modulus) + reg.modulus - 3) % reg.modulus

(***************************************************************************)
(* Scalars: of twenty bits in limbs of eight, and of eighteen in limbs of  *)
(* seven, which is not a whole number of digits.                           *)
(***************************************************************************)
s64 == INSTANCE ModM64 WITH
  m <- 524591, w <- 2, k <- 10, BPL <- 8, SIZE <- 3, WORD <- 2 ^ 10, QUAD <- 2, HALF <- 10
s32 == INSTANCE ModM32 WITH
  m <- 131203, w <- 2, k <- 9, BPL <- 7, SIZE <- 3, WORD <- 2 ^ 9, QUAD <- 2, HALF <- 9

ScalarStrings(k) ==
  {[i \in 1 .. 2 * k |-> 3], [i \in 1 .. 2 * k |-> IF i % 3 = 1 THEN 2 ELSE 1],
   [i \in 1 .. k |-> 3], [i \in 1 .. k - 1 |-> 3], [i \in 1 .. k |-> IF i = k THEN 3 ELSE 0],
   <<1>>, <<>>, [i \in 1 .. k \div 2 |-> 3]}

\* Strings whose quotient comes out two too small, and m - 1.
Strings64 == ScalarStrings(10) \union
  {<<3, 2, 0, 0, 3, 3, 2, 3, 3, 3, 3, 3, 3, 2, 2, 0, 1, 2, 3, 3>>, BytesOf(524590, 4, 10)}
Strings32 == ScalarStrings(9) \union
  {<<1, 3, 0, 2, 1, 3, 3, 3, 1, 0, 0, 3, 0, 1, 2, 3, 3, 3>>, BytesOf(131202, 4, 9)}

Scalars64 == INSTANCE ScalarRegisters WITH
  expand256_modm <- s64!expand256_modm, add256_modm <- s64!add256_modm,
  mul256_modm <- s64!mul256_modm, contract256_modm <- s64!contract256_modm,
  contract256_window4_modm <- s64!contract256_window4_modm,
  contract256_slidingwindow_modm <- s64!contract256_slidingwindow_modm,
  sub256_modm_batch <- s64!sub256_modm_batch, lt256_modm_batch <- s64!lt256_modm_batch,
  lte256_modm_batch <- s64!lte256_modm_batch,
  iszero256_modm_batch <- s64!iszero256_modm_batch,
  isone256_modm_batch <- s64!isone256_modm_batch,
  isatmost128bits256_modm_batch <- s64!isatmost128bits256_modm_batch, m <- 524591,
  w <- 2, k <- 10, BPL <- 8, SIZE <- 3, QUAD <- 2, HALF <- 10, Strings <- Strings64,
  MaxOps <- MaxScalarOps
Scalars32 == INSTANCE ScalarRegisters WITH
  expand256_modm <- s32!expand256_modm, add256_modm <- s32!add256_modm,
  mul256_modm <- s32!mul256_modm, contract256_modm <- s32!contract256_modm,
  contract256_window4_modm <- s32!contract256_window4_modm,
  contract256_slidingwindow_modm <- s32!contract256_slidingwindow_modm,
  sub256_modm_batch <- s32!sub256_modm_batch, lt256_modm_batch <- s32!lt256_modm_batch,
  lte256_modm_batch <- s32!lte256_modm_batch,
  iszero256_modm_batch <- s32!iszero256_modm_batch,
  isone256_modm_batch <- s32!isone256_modm_batch,
  isatmost128bits256_modm_batch <- s32!isatmost128bits256_modm_batch, m <- 131203,
  w <- 2, k <- 9, BPL <- 7, SIZE <- 3, QUAD <- 2, HALF <- 9, Strings <- Strings32,
  MaxOps <- MaxScalarOps

(***************************************************************************)
(* A curve: p = 2^15 - 19 and d = 374, on which BasePoint has the prime    *)
(* order 4099 and the cofactor is eight.  Strings are four bytes of four   *)
(* bits, and scalars two limbs of twelve.                                  *)
(***************************************************************************)
prime == 32749
TimesPrime(a, b) == (a * b) % prime
BasePoint == <<6678, 4>>

Curve == INSTANCE Edwards WITH p <- prime, Times <- TimesPrime, d <- 374
s16 == INSTANCE ModM64 WITH
  m <- 4099, w <- 4, k <- 4, BPL <- 12, SIZE <- 2, WORD <- 2 ^ 14, QUAD <- 4, HALF <- 7

\* The tables: y - x, y + x and 2dxy of multiples of the base point.
Niels(P, factor) ==
  <<(P[2] + prime - P[1]) % prime, (P[2] + P[1]) % prime,
    (factor * TimesPrime(P[1], P[2])) % prime>>

BaseMultiples ==
  [i \in 0 .. 15 |->
    Niels(Curve!TimesPoint(((i % 8) + 1) * 256 ^ (i \div 8), BasePoint),
          IF i < 8 THEN 2 ELSE 748)]

SlidingMultiples ==
  [i \in 0 .. 31 |->
    LET n == Niels(Curve!TimesPoint(2 * i + 1, BasePoint), 748)
    IN  [ysubx |-> Curve!Small(n[1]), xaddy |-> Curve!Small(n[2]), t2d |-> Curve!Small(n[3])]]

PointStrings == {1, 2 ^ 15 + 1, 3, 4, 2 ^ 15 + 4, 5, prime - 1, 2 ^ 15 - 1}

Value16(bytes) == bytes[1] + 16 * bytes[2] + 256 * bytes[3] + 4096 * bytes[4]

Number16(bytes) ==
  LET f[i \in 1 .. Len(bytes) + 1] ==
        IF i > Len(bytes) THEN 0 ELSE (f[i + 1] * 16 + bytes[i]) % 4099
  IN  f[1]

\* Any function that mixes what it is given.
Hash(in) ==
  LET f[i \in 1 .. Len(in) + 1] ==
        IF i > Len(in) THEN 7 ELSE ((f[i + 1] * 31) + in[i]) % 65521
  IN  [i \in 1 .. 8 |-> (((f[1] * (17 + i) * 7) % 65521) \div 64) % 16]

Group == INSTANCE GroupRegisters WITH
  p <- prime, Times <- TimesPrime, d <- 374, ge25519_ecd <- 374, ge25519_ec2d <- 748,
  ge25519_sqrtneg1 <- 15645, TOP <- 2 ^ 15, basepoint <- BasePoint,
  ge25519_niels_base_multiples <- BaseMultiples,
  ge25519_niels_sliding_multiples <- SlidingMultiples,
  contract256_window4_modm <- s16!contract256_window4_modm,
  contract256_slidingwindow_modm <- s16!contract256_slidingwindow_modm,
  expand_raw256_modm <- s16!expand_raw256_modm, Strings <- PointStrings,
  Scalars <- {BytesOf(n, 16, 4) : n \in {0, 1, 1843, 4098, 2 ^ 14 + 8191}},
  ValueOf <- Value16, MaxOps <- MaxGroupOps
Messages == INSTANCE SignedMessages WITH
  p <- prime, Times <- TimesPrime, d <- 374, ge25519_ecd <- 374, ge25519_ec2d <- 748,
  ge25519_sqrtneg1 <- 15645, TOP <- 2 ^ 15, basepoint <- BasePoint,
  ge25519_niels_base_multiples <- BaseMultiples,
  ge25519_niels_sliding_multiples <- SlidingMultiples,
  contract256_window4_modm <- s16!contract256_window4_modm,
  contract256_slidingwindow_modm <- s16!contract256_slidingwindow_modm,
  expand_raw256_modm <- s16!expand_raw256_modm, expand256_modm <- s16!expand256_modm,
  contract256_modm <- s16!contract256_modm, add256_modm <- s16!add256_modm,
  mul256_modm <- s16!mul256_modm, m <- 4099, k <- 4, BYTE <- 16, ed25519_hash <- Hash,
  SecretKeys <- {BytesOf(n, 16, 4) : n \in {0, 17185, 65535}}, Messages <- {1, 300},
  OtherStrings <- PointStrings, NumberOf <- Number16

(***************************************************************************)
(* Batches: scalars of nine bits in three limbs of four, modulo 257;       *)
(* batches of up to five.                                                  *)
(***************************************************************************)
b64 == INSTANCE ModM64 WITH
  m <- 257, w <- 2, k <- 5, BPL <- 4, SIZE <- 3, WORD <- 2 ^ 6, QUAD <- 2, HALF <- 5
b32 == INSTANCE ModM32 WITH
  m <- 257, w <- 2, k <- 5, BPL <- 4, SIZE <- 3, WORD <- 2 ^ 6, QUAD <- 2, HALF <- 5

Signature(A, R, hram) ==
  [unpacks |-> TRUE, A |-> A, R |-> R, S |-> BytesOf((R + hram * A) % 257, 4, 5),
   hram |-> BytesOf(hram, 4, 10)]

Nine == <<Signature(17, 200, 3), Signature(150, 3, 1000), Signature(1, 1, 1),
          Signature(256, 256, 256), Signature(77, 78, 79), Signature(0, 5, 6),
          Signature(250, 249, 248), Signature(2, 4, 8), Signature(200, 150, 100)>>

First(n) == SubSeq(Nine, 1, n)

\* Valid ones, a wrong S, a wrong key, and a string that is no point; and one whose
\* hashes leave the larger half of the scalars a single one.
BatchSet ==
  {First(n) : n \in {3, 4, 5, 6, 9}} \union {[i \in 1 .. 4 |-> Signature(i, 5 * i, 0)]} \union
  {[First(6) EXCEPT ![2].S = BytesOf(33, 4, 5)],
   [First(9) EXCEPT ![7].unpacks = FALSE, ![1].R = 0],
   [First(9) EXCEPT ![7].unpacks = FALSE],
   [First(5) EXCEPT ![5].A = 7],
   [First(7) EXCEPT ![7].A = 7, ![6].unpacks = FALSE]}

RandomSet ==
  {[i \in 1 .. 5 |-> BytesOf((13 * i + 20) % 32, 4, 3)],
   [i \in 1 .. 5 |-> BytesOf(2 * i, 4, 3)],
   [i \in 1 .. 5 |-> BytesOf(31, 4, 3)],
   [i \in 1 .. 5 |-> BytesOf(IF i = 1 THEN 1 ELSE 0, 4, 3)]}

expand256_64(bytes) == b64!expand256_modm(bytes)
add256_64(x, y) == b64!add256_modm(x, y)
mul256_64(x, y) == b64!mul256_modm(x, y)
sub256_64(out, x, y, limbsize) == b64!sub256_modm_batch(out, x, y, limbsize)
lt256_64(x, y, limbsize) == b64!lt256_modm_batch(x, y, limbsize)
lte256_64(x, y, limbsize) == b64!lte256_modm_batch(x, y, limbsize)
iszero256_64(x) == b64!iszero256_modm_batch(x)
isone256_64(x) == b64!isone256_modm_batch(x)
isatmost128bits256_64(x) == b64!isatmost128bits256_modm_batch(x)

Batch32 == INSTANCE BatchVerify WITH
  expand256 <- b32!expand256_modm, add256 <- b32!add256_modm,
  mul256 <- b32!mul256_modm, sub256 <- b32!sub256_modm_batch,
  lt256 <- b32!lt256_modm_batch, lte256 <- b32!lte256_modm_batch,
  iszero256 <- b32!iszero256_modm_batch,
  isone256 <- b32!isone256_modm_batch,
  isatmost128bits256 <- b32!isatmost128bits256_modm_batch, batch <- reg

\* Some scalars of that shape.
SomeScalars ==
  {[i \in 0 .. 2 |-> (n \div 16 ^ i) % 16] :
     n \in {0, 1, 15, 16, 31, 32, 33, 63, 64, 127, 128, 255, 256} \union {17 * i : i \in 2 .. 14}}

ASSUME ShapesAssumption ==
  /\ x64!ShapeFits /\ x32!ShapeFits
  /\ s64!ShapeFits /\ s32!ShapeFits /\ s16!ShapeFits /\ b64!ShapeFits /\ b32!ShapeFits
  /\ ShapeFits /\ InputsFit /\ KeepPromise(SomeScalars)
  /\ Batch32!InputsFit /\ Batch32!KeepPromise(SomeScalars)

(***************************************************************************)
(* The jobs.                                                               *)
(***************************************************************************)
JobInit ==
  /\ reg = <<>> /\ other = <<>> /\ ops = 0
  /\ \/ job = "none" /\ batch = Called(<<>>)
     \/ job = "batch64" /\ Init

Start(name, first) ==
  /\ job = "none" /\ job' = name /\ ops' = 0
  /\ reg' = first /\ other' = IF name = "scalars64" THEN Scalars64!Zero ELSE
                               IF name = "scalars32" THEN Scalars32!Zero ELSE <<>>

StartField == Start("field64", Field64!Zero) \/ Start("field32", Field32!Zero)
StartPowers == \E q \in Moduli : Start("powers", PowersOf(q))
StartScalars == Start("scalars64", Scalars64!Zero) \/ Start("scalars32", Scalars32!Zero)
StartGroup == Start("group", Group!Identity)
StartMessages == Start("messages", Messages!Nothing)
StartBatch == \E sigs \in Batches : Start("batch32", Batch32!Called(sigs))

OtherJobs ==
  \/ StartField \/ StartPowers \/ StartScalars \/ StartGroup \/ StartMessages \/ StartBatch
  \/ UNCHANGED <<job, other>> /\ job = "field64" /\ Field64!Next
  \/ UNCHANGED <<job, other>> /\ job = "field32" /\ Field32!Next
  \/ UNCHANGED job /\ job = "scalars64" /\ Scalars64!Next
  \/ UNCHANGED job /\ job = "scalars32" /\ Scalars32!Next
  \/ UNCHANGED <<job, other>> /\ job = "group" /\ Group!Next
  \/ UNCHANGED <<job, other>> /\ job = "messages" /\ Messages!Next
  \/ UNCHANGED <<job, other, ops>> /\ job = "batch32" /\ Batch32!Next

JobNext ==
  \/ UNCHANGED batch /\ OtherJobs
  \/ UNCHANGED <<job, reg, other, ops>> /\ job = "batch64" /\ Next

JobSpec == JobInit /\ [][JobNext]_vars

(***************************************************************************)
(* Properties.                                                             *)
(***************************************************************************)
\* The functions of curve25519-donna-64bit.h and -32bit.h, called in any order their
\* promises allow, compute modulo p, and no limb outgrows its word on the way; the chains
\* of curve25519-donna-helpers.h reach p - 2 and (p - 5) / 8.
FieldExact ==
  /\ job = "field64" => Field64!Exact
  /\ job = "field32" => Field32!Exact
  /\ job = "powers" => PowersExact

\* The functions of modm-donna-64bit.h and -32bit.h compute modulo the order of the base
\* point, and the digits they cut a scalar into add up to it and have table entries.
ScalarExact ==
  /\ job = "scalars64" => Scalars64!Exact
  /\ job = "scalars32" => Scalars32!Exact

\* The arithmetic on limbs is exact, of the field and of the scalars.
LimbsExact == FieldExact /\ ScalarExact

\* The functions of ed25519-donna-impl-base.h compute in the group, whatever is called
\* after what, and hand no function of the field wider limbs than it allows.
GroupExact == job = "group" => Group!Exact

\* What ed25519_sign signed, ed25519_sign_open opens; what was exchanged it opens only if
\* the equation holds; the key for exchange is the right one; and a batch over the scalars
\* of the 32-bit layout is opened as BatchVerify says.
SignaturesOpen ==
  /\ job = "messages" => Messages!Exact
  /\ job = "batch32" => Batch32!BatchSound /\ Batch32!BatchAnswers
=============================================================================
