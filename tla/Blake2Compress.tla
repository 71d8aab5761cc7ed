--------------------------- MODULE Blake2Compress ---------------------------
(***************************************************************************)
(* The compression functions blake2b_compress and blake2s_compress at      *)
(* their real size, one round a step, on whole messages without a key.     *)
(* A word is a sequence of 16-bit limbs, the lowest first: four for        *)
(* blake2b, two for blake2s.                                               *)
(***************************************************************************)
EXTENDS Integers, Sequences, SequencesExt, Bitwise

CONSTANT Tests   \* records [f, outlen, msg, digest], msg and digest sequences of bytes

VARIABLES
  test,    \* NoTest, or the message being hashed
  h,       \* the chaining value, eight words
  v,       \* the working vector, sixteen words
  block,   \* number of the block in v
  round    \* rounds done

vars == <<test, h, v, block, round>>

NoTest == [f |-> "none"]

Limbs == [b |-> 4, s |-> 2]
Rounds == [b |-> 12, s |-> 10]
BlockSize(f) == 32 * Limbs[f]

blake2b_IV == <<
  <<\hc908, \hf3bc, \he667, \h6a09>>, <<\ha73b, \h84ca, \hae85, \hbb67>>,
  <<\hf82b, \hfe94, \hf372, \h3c6e>>, <<\h36f1, \h5f1d, \hf53a, \ha54f>>,
  <<\h82d1, \hade6, \h527f, \h510e>>, <<\h6c1f, \h2b3e, \h688c, \h9b05>>,
  <<\hbd6b, \hfb41, \hd9ab, \h1f83>>, <<\h2179, \h137e, \hcd19, \h5be0>> >>

blake2s_IV == <<
  <<\he667, \h6a09>>, <<\hae85, \hbb67>>, <<\hf372, \h3c6e>>, <<\hf53a, \ha54f>>,
  <<\h527f, \h510e>>, <<\h688c, \h9b05>>, <<\hd9ab, \h1f83>>, <<\hcd19, \h5be0>> >>

IV(f) == IF f = "b" THEN blake2b_IV ELSE blake2s_IV

blake2s_sigma == <<
  << 0,  1,  2,  3,  4,  5,  6,  7,  8,  9, 10, 11, 12, 13, 14, 15>>,
  <<14, 10,  4,  8,  9, 15, 13,  6,  1, 12,  0,  2, 11,  7,  5,  3>>,
  <<11,  8, 12,  0,  5,  2, 15, 13, 10, 14,  3,  6,  7,  1,  9,  4>>,
  << 7,  9,  3,  1, 13, 12, 11, 14,  2,  6,  5, 10,  4,  0, 15,  8>>,
  << 9,  0,  5,  7,  2,  4, 10, 15, 14,  1, 11, 12,  6,  8,  3, 13>>,
  << 2, 12,  6, 10,  0, 11,  8,  3,  4, 13,  7,  5, 15, 14,  1,  9>>,
  <<12,  5,  1, 15, 14, 13,  4, 10,  0,  7,  6,  3,  9,  2,  8, 11>>,
  <<13, 11,  7, 14, 12,  1,  3,  9,  5,  0, 15,  4,  8,  6,  2, 10>>,
  << 6, 15, 14,  9, 11,  3,  0,  8, 12,  2, 13,  7,  1,  4, 10,  5>>,
  <<10,  2,  8,  4,  7,  6,  1,  5, 15, 11,  9, 14,  3, 12, 13,  0>> >>

\* The last two rows of blake2b's table are its first two again.
blake2b_sigma == blake2s_sigma \o SubSeq(blake2s_sigma, 1, 2)

sigma(f, r) == IF f = "b" THEN blake2b_sigma[r] ELSE blake2s_sigma[r]
-----------------------------------------------------------------------------
(* Words *)

\* load32 and load64: two bytes a limb, the lowest byte first.
load(f, bytes) ==
  [k \in 1 .. Limbs[f] |-> bytes[2 * k - 1] + 256 * bytes[2 * k]]

\* store32 and store64 of the words of w, one after the other.
store(f, w) ==
  FlattenSeq([i \in DOMAIN w |->
    FlattenSeq([k \in 1 .. Limbs[f] |-> <<w[i][k] % 256, w[i][k] \div 256>>])])

Add(f, x, y) ==
  LET sum[k \in 0 .. Limbs[f]] ==
        IF k = 0 THEN 0 ELSE x[k] + y[k] + sum[k - 1] \div 65536
  IN  [k \in 1 .. Limbs[f] |-> sum[k] % 65536]

XorWords(f, x, y) == [k \in 1 .. Limbs[f] |-> x[k] ^^ y[k]]

\* rotr32 and rotr64
rotr(f, w, c) ==
  LET bits == 2 ^ (c % 16)
      limb(k) == w[((k + c \div 16 - 1) % Limbs[f]) + 1]
  IN  [k \in 1 .. Limbs[f] |->
         limb(k) \div bits + (limb(k + 1) % bits) * (65536 \div bits)]

Word(f, n) == [k \in 1 .. Limbs[f] |-> IF k = 1 THEN n ELSE 0]
AllOnes(f) == [k \in 1 .. Limbs[f] |-> 65535]
-----------------------------------------------------------------------------
(* The compression function *)

\* (Faulty variant: the rotations of the earlier BLAKE.)
earlier_rotations == <<32, 25, 16, 11>>

\* The four rotations of G.
blake2b_rotations == <<32, 24, 16, 63>>
blake2s_rotations == <<16, 12, 8, 7>>
Rotations(f) == IF f = "b" THEN blake2b_rotations ELSE blake2s_rotations

\* One half of G, on the words a, b, c, d of w.
HalfG(f, w, at, x, first, second) ==
  LET a == Add(f, Add(f, w[at[1]], w[at[2]]), x)
      d == rotr(f, XorWords(f, w[at[4]], a), first)
      c == Add(f, w[at[3]], d)
      b == rotr(f, XorWords(f, w[at[2]], c), second)
  IN  [w EXCEPT ![at[1]] = a, ![at[2]] = b, ![at[3]] = c, ![at[4]] = d]

G(f, w, at, x, y) ==
  LET rot == Rotations(f)
  IN  HalfG(f, HalfG(f, w, at, x, rot[1], rot[2]), at, y, rot[3], rot[4])

\* The words of v that the eight calls of G in a round mix: columns, diagonals.
ColumnsAndDiagonals == <<
  <<0, 4,  8, 12>>, <<1, 5,  9, 13>>, <<2, 6, 10, 14>>, <<3, 7, 11, 15>>,
  <<0, 5, 10, 15>>, <<1, 6, 11, 12>>, <<2, 7,  8, 13>>, <<3, 4,  9, 14>> >>

ROUND(f, r, m, w) ==
  FoldLeft(LAMBDA u, i :
             G(f, u, [k \in 1 .. 4 |-> ColumnsAndDiagonals[i][k] + 1],
               m[sigma(f, r)[2 * i - 1] + 1], m[sigma(f, r)[2 * i] + 1]),
           w, [i \in 1 .. 8 |-> i])

LastBlockOf(t) ==
  IF t.msg = <<>> THEN 1 ELSE (Len(t.msg) + BlockSize(t.f) - 1) \div BlockSize(t.f)

\* The sixteen words of block k of the message, padded with zeros.
MessageWords(t, k) ==
  LET byte(p) == IF p \in DOMAIN t.msg THEN t.msg[p] ELSE 0
      size == 2 * Limbs[t.f]
      from(i) == (k - 1) * BlockSize(t.f) + (i - 1) * size
  IN  [i \in 1 .. 16 |-> load(t.f, [j \in 1 .. size |-> byte(from(i) + j)])]

\* The vector a block starts from; the counter is below 2^16 here.
StartVector(t, chain, k) ==
  LET f == t.f
      count == IF k = LastBlockOf(t) THEN Len(t.msg) ELSE k * BlockSize(f)
      flag == IF k = LastBlockOf(t) THEN AllOnes(f) ELSE Word(f, 0)
  IN  chain \o SubSeq(IV(f), 1, 4)
        \o <<XorWords(f, IV(f)[5], Word(f, count)), IV(f)[6],
             XorWords(f, IV(f)[7], flag), IV(f)[8]>>

\* The parameters of a sequential hash without a key.
ParameterWord(t) ==
  load(t.f, [j \in 1 .. 2 * Limbs[t.f] |->
    CASE j = 1 -> t.outlen [] j \in {3, 4} -> 1 [] OTHER -> 0])

StartChain(t) == [IV(t.f) EXCEPT ![1] = XorWords(t.f, @, ParameterWord(t))]

Init == test = NoTest /\ h = <<>> /\ v = <<>> /\ block = 0 /\ round = 0

Start(t) ==
  /\ test = NoTest
  /\ test' = t /\ h' = StartChain(t) /\ v' = StartVector(t, h', 1)
  /\ block' = 1 /\ round' = 0

Round ==
  /\ test # NoTest /\ block <= LastBlockOf(test) /\ round < Rounds[test.f]
  /\ v' = ROUND(test.f, round + 1, MessageWords(test, block), v)
  /\ round' = round + 1
  /\ UNCHANGED <<test, h, block>>

FeedForward ==
  /\ test # NoTest /\ block <= LastBlockOf(test) /\ round = Rounds[test.f]
  /\ h' = [i \in 1 .. 8 |-> XorWords(test.f, h[i], XorWords(test.f, v[i], v[i + 8]))]
  /\ block' = block + 1
  /\ v' = IF block < LastBlockOf(test) THEN StartVector(test, h', block + 1) ELSE v
  /\ round' = 0
  /\ UNCHANGED test

Next == (\E t \in Tests : Start(t)) \/ Round \/ FeedForward

Spec == Init /\ [][Next]_vars

-----------------------------------------------------------------------------
(* Properties *)

\* The tables, the counters and flags, the 64-bit and 32-bit words and the order
\* of the mixing are those of BLAKE2: known messages have their known digests.
DigestMatchesTest ==
  test # NoTest /\ block > LastBlockOf(test) =>
    SubSeq(store(test.f, h), 1, test.outlen) = test.digest
=============================================================================
