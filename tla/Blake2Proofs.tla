---------------------------- MODULE Blake2Proofs ----------------------------
(***************************************************************************)
(* Proofs about Blake2Stream, for every size of block, word, output and    *)
(* key, every number of leaves and every input up to the bound on the      *)
(* counter.  The inductive invariant, HashInv, says that the C state is    *)
(* the one that the bytes put in so far determine, whatever pieces they    *)
(* came in (Absorbed for one sequential state, TreeHas and XofHas for the  *)
(* others), or a state that has answered and will refuse (Spent).  What    *)
(* the runs check follows from it: BytesAccounted, OneShotAgrees, and that *)
(* Blake2Stream implements HashPromise.                                    *)
(*                                                                         *)
(* Sequences are handled as rows, functions on 1 .. n, and parts of them   *)
(* as slices of rows.  The loops of the model are functions of the number  *)
(* of rounds, and induction over it is the least element of the set of     *)
(* rounds at which a claim fails.                                          *)
(***************************************************************************)
EXTENDS Blake2Stream, SequenceTheorems, WellFoundedInduction, TLAPS

\* A nonempty set of naturals has a least element: the library's theorem about
\* well-founded relations takes sets where its induction takes an operator.
LEMMA LeastElement ==
  ASSUME NEW T \in SUBSET Nat, T # {}
  PROVE  \E n \in T : \A m \in T : n <= m
<1> DEFINE L == {ss \in Nat \X Nat : ss[1] < ss[2]}
<1>1. OpToRel(<, Nat) = L
  BY Zenon DEF OpToRel
<1>3. IsWellFoundedOn(L, Nat)
  BY NatLessThanWellFounded, <1>1, Zenon
<1> HIDE DEF L
<1>2. \E x \in T : \A y \in T : ~ (<<y, x>> \in L)
  BY <1>3, WFMin, Zenon
<1>4. \A x, y \in Nat : x < y => <<x, y>> \in L
  BY DEF L
<1>5. PICK n \in T : \A y \in T : <<y, n>> \notin L
  BY <1>2
<1>6. \A m \in T : ~ (m < n)
  BY <1>4, <1>5
<1>7. \A m \in T : n <= m
  <2> SUFFICES ASSUME NEW m \in T PROVE n <= m
    OBVIOUS
  <2>1. m \in Nat /\ n \in Nat /\ ~(m < n)
    BY <1>6
  <2> QED
    BY <2>1
<1> QED
  BY <1>7

\* Induction over a set of naturals.
LEMMA InductionOn ==
  ASSUME NEW S \in SUBSET Nat, 0 \in S, \A n \in S : n + 1 \in S
  PROVE  \A n \in Nat : n \in S
<1> DEFINE Bad == Nat \ S
<1>1. SUFFICES ASSUME Bad # {} PROVE FALSE
  OBVIOUS
<1>2. PICK n \in Bad : \A m \in Bad : n <= m
  BY <1>1, LeastElement
<1>3. n \in Nat /\ n # 0
  OBVIOUS
<1>4. n - 1 \in Nat /\ ~ (n <= n - 1)
  BY <1>3
<1>5. n - 1 \in S
  BY <1>2, <1>4
<1> QED
  BY <1>5, <1>3

\* Quotient and remainder.
LEMMA DivMod ==
  ASSUME NEW a \in Nat, NEW b \in Nat \ {0}
  PROVE  /\ a \div b \in Nat
         /\ a % b \in Nat
         /\ a % b < b
         /\ a = (a \div b) * b + (a % b)
OBVIOUS

\* They are the only ones.
LEMMA DivUnique ==
  ASSUME NEW b \in Nat \ {0}, NEW q \in Nat, NEW r \in Nat, r < b
  PROVE  /\ (q * b + r) \div b = q
         /\ (q * b + r) % b = r
OBVIOUS

\* One more row of b.
LEMMA TimesNext ==
  ASSUME NEW b \in Nat, NEW q \in Nat
  PROVE  q * b \in Nat /\ (q + 1) * b = q * b + b
OBVIOUS

\* Adding one to a remainder.
LEMMA NextRemainder ==
  ASSUME NEW b \in Nat \ {0}, NEW q \in Nat
  PROVE  ((q % b) + 1) % b = (q + 1) % b
<1> DEFINE d == q \div b
           r == q % b
<1>1. d \in Nat /\ r \in Nat /\ r < b /\ q = d * b + r
  BY DivMod
<1> HIDE DEF d, r
<1>2. CASE r + 1 < b
  <2>1. (d * b + (r + 1)) % b = r + 1
    BY <1>1, <1>2, DivUnique
  <2>2. (0 * b + (r + 1)) % b = r + 1
    BY <1>1, <1>2, DivUnique
  <2> QED
    BY <1>1, <2>1, <2>2 DEF r
<1>3. CASE r + 1 = b
  <2>1. ((d + 1) * b + 0) % b = 0
    BY <1>1, DivUnique
  <2>2. (1 * b + 0) % b = 0
    BY DivUnique
  <2>3. q + 1 = (d + 1) * b + 0 /\ r + 1 = 1 * b + 0
    BY <1>1, <1>3, TimesNext
  <2> QED
    BY <2>1, <2>2, <2>3 DEF r
<1> QED
  BY <1>1, <1>2, <1>3

\* increment_counter adds inc to the two words as to one number: the carry shows in
\* the low word.
LEMMA CountNext ==
  ASSUME NEW W \in Nat \ {0}, NEW c \in Nat, NEW inc \in Nat, inc < W
  PROVE  LET t0 == ((c % W) + inc) % W IN
         /\ t0 = (c + inc) % W
         /\ (((c \div W) % W) + (IF t0 < inc THEN 1 ELSE 0)) % W = ((c + inc) \div W) % W
<1> DEFINE q == c \div W
           r == c % W
           t0 == (r + inc) % W
           carry == IF t0 < inc THEN 1 ELSE 0
<1>1. q \in Nat /\ r \in Nat /\ r < W /\ c = q * W + r
  BY DivMod
<1>q. q % W \in Nat /\ q % W < W
  BY <1>1, DivMod
<1> SUFFICES /\ t0 = (c + inc) % W
             /\ ((q % W) + carry) % W = ((c + inc) \div W) % W
  OBVIOUS
<1> HIDE DEF q, r
<1>2. CASE r + inc < W
  <2>1. (q * W + (r + inc)) \div W = q /\ (q * W + (r + inc)) % W = r + inc
    BY <1>1, <1>2, DivUnique
  <2>2. c + inc = q * W + (r + inc)
    BY <1>1
  <2>3. (0 * W + (r + inc)) % W = r + inc
    BY <1>1, <1>2, DivUnique
  <2>4. t0 = r + inc /\ carry = 0
    BY <2>3, <1>1
  <2>5. (0 * W + (q % W)) % W = q % W
    BY <1>q, DivUnique
  <2>6. ((q % W) + carry) % W = q % W
    BY <2>4, <2>5, <1>q
  <2> HIDE DEF t0, carry
  <2>7. (c + inc) % W = r + inc /\ (c + inc) \div W = q
    BY <2>1, <2>2
  <2> QED
    BY <2>4, <2>6, <2>7
<1>3. CASE ~(r + inc < W)
  <2> DEFINE e == (r + inc) - W
  <2>0. e \in Nat /\ e < W /\ e < inc
    BY <1>1, <1>3
  <2>1. ((q + 1) * W + e) \div W = q + 1 /\ ((q + 1) * W + e) % W = e
    <3> HIDE DEF e
    <3> QED
      BY <1>1, <2>0, DivUnique
  <2>2. c + inc = (q + 1) * W + e
    BY <1>1, TimesNext
  <2>3. (1 * W + e) % W = e
    <3> HIDE DEF e
    <3> QED
      BY <2>0, DivUnique
  <2>4. r + inc = 1 * W + e
    BY <1>1
  <2> HIDE DEF e
  <2>5. t0 = e /\ carry = 1
    BY <2>0, <2>3, <2>4
  <2>6. ((q % W) + carry) % W = (q + 1) % W
    BY <1>1, <2>5, NextRemainder
  <2> HIDE DEF t0, carry
  <2>7. (c + inc) % W = e /\ (c + inc) \div W = q + 1
    BY <2>1, <2>2
  <2> QED
    BY <2>5, <2>6, <2>7
<1> QED
  BY <1>2, <1>3

\* What the assumption says of either family.
LEMMA Constants ==
  ASSUME NEW f \in Family
  PROVE  /\ BLOCKBYTES[f] \in Nat \ {0} /\ WORD[f] \in Nat \ {0}
         /\ BLOCKBYTES[f] < WORD[f]
         /\ DEGREE[f] \in Nat \ {0} /\ OUTBYTES[f] \in Nat \ {0}
         /\ KEYBYTES[f] \in Nat /\ KEYBYTES[f] <= BLOCKBYTES[f]
         /\ XOFUNKNOWN[f] \in Nat
BY ConstantsAssumption

\* The counter after c bytes.
Low(f, c) == c % WORD[f]
High(f, c) == (c \div WORD[f]) % WORD[f]

\* Block i of the input d, compressed as one that is not the last.
WholeBlock(f, d, i) ==
  [m |-> [p \in 1 .. BLOCKBYTES[f] |-> d[(i - 1) * BLOCKBYTES[f] + p]],
   t |-> <<Low(f, i * BLOCKBYTES[f]), High(f, i * BLOCKBYTES[f])>>,
   f |-> <<FALSE, FALSE>>]

\* The parameters P and the first n blocks of d.
History(f, P, d, n) ==
  [i \in 1 .. (n + 1) |-> IF i = 1 THEN P ELSE WholeBlock(f, d, i - 1)]

\* Appending to a function on 1..n.
LEMMA AppendIs ==
  ASSUME NEW n \in Nat, NEW s, s = [i \in 1..n |-> s[i]], NEW e
  PROVE  Append(s, e) = [i \in 1..(n + 1) |-> IF i <= n THEN s[i] ELSE e]
<1> DEFINE H == {s[i] : i \in 1..n} \cup {e}
<1>1. s \in Seq(H) /\ Len(s) = n
  <2>1. \A i \in 1..n : s[i] \in H
    OBVIOUS
  <2> HIDE DEF H
  <2> QED
    BY <2>1
<1>2. e \in H
  OBVIOUS
<1> HIDE DEF H
<1>3. Append(s, e) \in Seq(H) /\ Len(Append(s, e)) = n + 1
  BY <1>1, <1>2
<1>4. \A i \in 1..(n + 1) : Append(s, e)[i] = IF i <= n THEN s[i] ELSE e
  BY <1>1, <1>2
<1> QED
  BY <1>3, <1>4

\* One more block compressed.
LEMMA HistoryGrows ==
  ASSUME NEW f \in Family, NEW P, NEW d, NEW n \in Nat
  PROVE  Append(History(f, P, d, n), WholeBlock(f, d, n + 1)) = History(f, P, d, n + 1)
<1> DEFINE s == History(f, P, d, n)
           e == WholeBlock(f, d, n + 1)
<1>1. n + 1 \in Nat /\ s = [i \in 1..(n + 1) |-> s[i]]
  BY DEF History
<1> HIDE DEF s, e
<1>2. Append(s, e) = [i \in 1..((n + 1) + 1) |-> IF i <= n + 1 THEN s[i] ELSE e]
  BY <1>1, AppendIs
<1>3. ASSUME NEW i \in 1..((n + 1) + 1)
      PROVE (IF i <= n + 1 THEN s[i] ELSE e) = IF i = 1 THEN P ELSE WholeBlock(f, d, i - 1)
  <2>1. CASE i <= n + 1
    BY <2>1 DEF s, History
  <2>2. CASE ~(i <= n + 1)
    <3>1. i = (n + 1) + 1 /\ i # 1 /\ i - 1 = n + 1
      BY <2>2
    <3> QED
      BY <2>2, <3>1 DEF e
  <2> QED
    BY <2>1, <2>2
<1> QED
  BY <1>2, <1>3 DEF History, s, e

\* s is a sequence of n elements, whatever they are.
Row(s, n) == n \in Nat /\ s = [i \in 1 .. n |-> s[i]]

\* A row is a sequence.
LEMMA RowIs ==
  ASSUME NEW s, NEW n, Row(s, n)
  PROVE  Len(s) = n /\ DOMAIN s = 1 .. n /\ s \in Seq({s[i] : i \in 1 .. n})
<1> DEFINE H == {s[i] : i \in 1..n}
<1>1. \A i \in 1..n : s[i] \in H
  OBVIOUS
<1>2. n \in Nat /\ s = [i \in 1 .. n |-> s[i]]
  BY DEF Row
<1> HIDE DEF H
<1>3. s \in [1..n -> H]
  BY <1>1, <1>2
<1>4. s \in Seq(H)
  BY <1>2, <1>3
<1>5. Len(s) = n /\ DOMAIN s = 1..n
  BY <1>2, <1>3
<1> QED
  BY <1>4, <1>5 DEF H

\* A sequence is a row.
LEMMA RowOf ==
  ASSUME NEW X, NEW s \in Seq(X)
  PROVE  Row(s, Len(s))
<1>1. Len(s) \in Nat /\ s \in [1 .. Len(s) -> X]
  OBVIOUS
<1> QED
  BY <1>1 DEF Row

\* Two rows with the same elements.
LEMMA SameRow ==
  ASSUME NEW s, NEW t, NEW n, Row(s, n), Row(t, n), \A i \in 1 .. n : s[i] = t[i]
  PROVE  s = t
BY DEF Row

\* t is the row of the n elements that follow the first a of s.
Slice(t, s, a, n) ==
  /\ Row(t, n)
  /\ \A i \in 1 .. n : t[i] = s[a + i]

\* SubSeq takes a slice.
LEMMA SliceIs ==
  ASSUME NEW s, NEW n, Row(s, n), NEW a \in Nat, NEW b \in Nat, a <= b, b <= n
  PROVE  Slice(SubSeq(s, a + 1, b), s, a, b - a)
<1> DEFINE H == {s[i] : i \in 1..n}
           t == SubSeq(s, a + 1, b)
<1>1. n \in Nat
  BY DEF Row
<1>2. \A i \in (a+1)..b : s[i] \in H
  <2>1. \A i \in (a+1)..b : i \in 1..n
    BY <1>1
  <2> QED
    BY <2>1
<1> HIDE DEF H
<1>3. a + 1 \in Int /\ b \in Int /\ b - (a+1) + 1 = b - a
  OBVIOUS
<1>4. t \in Seq(H) /\ Len(t) = (IF a+1 <= b THEN b-(a+1)+1 ELSE 0)
      /\ \A i \in 1 .. b-(a+1)+1 : t[i] = s[(a+1)+i-1]
  BY <1>2, <1>3, SubSeqProperties
<1> HIDE DEF t
<1>5. Len(t) = b - a
  BY <1>4, <1>3
<1>6. Row(t, b - a)
  BY <1>4, <1>5, RowOf
<1>7. ASSUME NEW i \in 1 .. (b - a) PROVE t[i] = s[a + i]
  <2>1. t[i] = s[(a+1)+i-1]
    BY <1>3, <1>4
  <2>2. (a+1)+i-1 = a + i
    OBVIOUS
  <2> QED
    BY <2>1, <2>2
<1> QED
  BY <1>6, <1>7 DEF t, Slice

\* A slice of a slice.
LEMMA SliceOfSlice ==
  ASSUME NEW s, NEW e, NEW x \in Nat, NEW n, Slice(s, e, x, n),
         NEW t, NEW a \in Nat, NEW m \in Nat, a + m <= n, Slice(t, s, a, m)
  PROVE  Slice(t, e, x + a, m)
<1>0. n \in Nat /\ Row(t, m)
  BY DEF Slice, Row
<1>1. ASSUME NEW i \in 1 .. m PROVE t[i] = e[(x + a) + i]
  <2>1. a + i \in 1 .. n /\ x + (a + i) = (x + a) + i
    BY <1>0
  <2>2. t[i] = s[a + i]
    BY DEF Slice
  <2>3. s[a + i] = e[x + (a + i)]
    BY <2>1 DEF Slice
  <2> QED
    BY <2>1, <2>2, <2>3
<1> QED
  BY <1>0, <1>1 DEF Slice

\* t is dst with the m elements of src written over it behind the first off.
Spliced(t, n, dst, off, src, m) ==
  /\ Row(t, n)
  /\ \A i \in 1 .. n : t[i] = IF i > off /\ i <= off + m THEN src[i - off] ELSE dst[i]

\* A row of m bytes written at off into a row of n leaves the bytes before it and its own.
LEMMA OverwriteIs ==
  ASSUME NEW dst, NEW n, Row(dst, n), NEW src, NEW m, Row(src, m),
         NEW off \in Nat
  PROVE  Spliced(Overwrite(dst, off, src), n, dst, off, src, m)
<1>1. DOMAIN dst = 1..n /\ DOMAIN src = 1..m /\ n \in Nat /\ m \in Nat
  BY RowIs DEF Row
<1> DEFINE t == Overwrite(dst, off, src)
<1>2. t = [i \in 1 .. n |-> IF i - off \in 1..m THEN src[i - off] ELSE dst[i]]
  BY <1>1 DEF Overwrite
<1> HIDE DEF t
<1>3. t = [i \in 1..n |-> t[i]]
  BY <1>2
<1>4. ASSUME NEW i \in 1..n
      PROVE t[i] = IF i > off /\ i <= off + m THEN src[i - off] ELSE dst[i]
  <2>1. (i - off \in 1..m) <=> (i > off /\ i <= off + m)
    BY <1>1
  <2> QED
    BY <1>2, <2>1
<1> QED
  BY <1>1, <1>3, <1>4 DEF t, Row, Spliced

\* The two words after one more block, or less.
LEMMA CountOnce ==
  ASSUME NEW f \in Family, NEW c \in Nat, NEW inc \in Nat, inc <= BLOCKBYTES[f]
  PROVE  /\ (Low(f, c) + inc) % WORD[f] = Low(f, c + inc)
         /\ (High(f, c) + (IF Low(f, c + inc) < inc THEN 1 ELSE 0)) % WORD[f] = High(f, c + inc)
<1> DEFINE W == WORD[f]
<1>1. W \in Nat \ {0} /\ inc < W
  BY Constants
<1> HIDE DEF W
<1>2. ((c % W) + inc) % W = (c + inc) % W
  BY <1>1, CountNext
<1>3. (((c \div W) % W) + (IF ((c % W) + inc) % W < inc THEN 1 ELSE 0)) % W = ((c + inc) \div W) % W
  BY <1>1, CountNext
<1>4. (((c \div W) % W) + (IF (c + inc) % W < inc THEN 1 ELSE 0)) % W = ((c + inc) \div W) % W
  BY <1>2, <1>3
<1> QED
  BY <1>2, <1>4 DEF Low, High, W

\* A state is a record of the nine fields init_param gives it.
IsState(S) ==
  S = [h |-> S.h, t0 |-> S.t0, t1 |-> S.t1, f0 |-> S.f0, f1 |-> S.f1,
       buf |-> S.buf, buflen |-> S.buflen, outlen |-> S.outlen, last_node |-> S.last_node]

\* increment_counter touches the counter alone.
LEMMA IncrementIs ==
  ASSUME NEW f, NEW S, IsState(S), NEW inc, NEW c0, c0 = (S.t0 + inc) % WORD[f],
         NEW c1, c1 = (S.t1 + (IF c0 < inc THEN 1 ELSE 0)) % WORD[f]
  PROVE  increment_counter(f, S, inc) =
           [h |-> S.h, t0 |-> c0, t1 |-> c1, f0 |-> S.f0, f1 |-> S.f1,
            buf |-> S.buf, buflen |-> S.buflen, outlen |-> S.outlen, last_node |-> S.last_node]
<1>1. increment_counter(f, S, inc) = [S EXCEPT !.t0 = c0, !.t1 = c1]
  BY DEF increment_counter
<1> QED
  BY <1>1 DEF IsState

\* The state with another buffer.
LEMMA BufIs ==
  ASSUME NEW S, IsState(S), NEW x
  PROVE  [S EXCEPT !.buf = x] =
           [h |-> S.h, t0 |-> S.t0, t1 |-> S.t1, f0 |-> S.f0, f1 |-> S.f1,
            buf |-> x, buflen |-> S.buflen, outlen |-> S.outlen,
            last_node |-> S.last_node]
BY DEF IsState

\* The state with another last-block flag,
LEMMA Flag0Is ==
  ASSUME NEW S, IsState(S), NEW x
  PROVE  [S EXCEPT !.f0 = x] =
           [h |-> S.h, t0 |-> S.t0, t1 |-> S.t1, f0 |-> x, f1 |-> S.f1,
            buf |-> S.buf, buflen |-> S.buflen, outlen |-> S.outlen,
            last_node |-> S.last_node]
BY DEF IsState

\* another last-node flag,
LEMMA Flag1Is ==
  ASSUME NEW S, IsState(S), NEW x
  PROVE  [S EXCEPT !.f1 = x] =
           [h |-> S.h, t0 |-> S.t0, t1 |-> S.t1, f0 |-> S.f0, f1 |-> x,
            buf |-> S.buf, buflen |-> S.buflen, outlen |-> S.outlen,
            last_node |-> S.last_node]
BY DEF IsState

\* another length of output,
LEMMA OutlenIs ==
  ASSUME NEW S, IsState(S), NEW x
  PROVE  [S EXCEPT !.outlen = x] =
           [h |-> S.h, t0 |-> S.t0, t1 |-> S.t1, f0 |-> S.f0, f1 |-> S.f1,
            buf |-> S.buf, buflen |-> S.buflen, outlen |-> x,
            last_node |-> S.last_node]
BY DEF IsState

\* another mark as last leaf,
LEMMA LastNodeIs ==
  ASSUME NEW S, IsState(S), NEW x
  PROVE  [S EXCEPT !.last_node = x] =
           [h |-> S.h, t0 |-> S.t0, t1 |-> S.t1, f0 |-> S.f0, f1 |-> S.f1,
            buf |-> S.buf, buflen |-> S.buflen, outlen |-> S.outlen,
            last_node |-> x]
BY DEF IsState

\* or another buffer and fill.
LEMMA BufferIs ==
  ASSUME NEW S, IsState(S), NEW b, NEW n
  PROVE  [S EXCEPT !.buf = b, !.buflen = n] =
           [h |-> S.h, t0 |-> S.t0, t1 |-> S.t1, f0 |-> S.f0, f1 |-> S.f1,
            buf |-> b, buflen |-> n, outlen |-> S.outlen, last_node |-> S.last_node]
<1> DEFINE R == [S EXCEPT !.buf = b]
<1>1. R = [h |-> S.h, t0 |-> S.t0, t1 |-> S.t1, f0 |-> S.f0, f1 |-> S.f1,
           buf |-> b, buflen |-> S.buflen, outlen |-> S.outlen, last_node |-> S.last_node]
  BY BufIs
<1>2. [S EXCEPT !.buf = b, !.buflen = n] = [R EXCEPT !.buflen = n]
  OBVIOUS
<1> HIDE DEF R
<1>3. [R EXCEPT !.buflen = n] =
          [h |-> S.h, t0 |-> S.t0, t1 |-> S.t1, f0 |-> S.f0, f1 |-> S.f1,
           buf |-> b, buflen |-> n, outlen |-> S.outlen, last_node |-> S.last_node]
  BY <1>1
<1> QED
  BY <1>2, <1>3

\* compress touches the history alone.
LEMMA CompressIs ==
  ASSUME NEW S, IsState(S), NEW block
  PROVE  compress(S, block) =
           [h |-> Append(S.h, [m |-> block, t |-> <<S.t0, S.t1>>, f |-> <<S.f0, S.f1>>]),
            t0 |-> S.t0, t1 |-> S.t1, f0 |-> S.f0, f1 |-> S.f1,
            buf |-> S.buf, buflen |-> S.buflen, outlen |-> S.outlen, last_node |-> S.last_node]
<1> DEFINE e == [m |-> block, t |-> <<S.t0, S.t1>>, f |-> <<S.f0, S.f1>>]
<1>1. compress(S, block) = [S EXCEPT !.h = Append(S.h, e)]
  BY DEF compress
<1> HIDE DEF e
<1>2. [S EXCEPT !.h = Append(S.h, e)] =
           [h |-> Append(S.h, e),
            t0 |-> S.t0, t1 |-> S.t1, f0 |-> S.f0, f1 |-> S.f1,
            buf |-> S.buf, buflen |-> S.buflen, outlen |-> S.outlen, last_node |-> S.last_node]
  BY DEF IsState
<1> QED
  BY <1>1, <1>2 DEF e

\* A state that has compressed n whole blocks of d; outlen and last_node are o and l.
Counted(f, S, P, d, n, o, l) ==
  /\ IsState(S)
  /\ S.h = History(f, P, d, n)
  /\ S.t0 = Low(f, n * BLOCKBYTES[f]) /\ S.t1 = High(f, n * BLOCKBYTES[f])
  /\ S.f0 = FALSE /\ S.f1 = FALSE
  /\ S.outlen = o /\ S.last_node = l

\* The block that follows the first n, compressed as a whole one.
LEMMA CompressWholeCounts ==
  ASSUME NEW f \in Family, NEW P, NEW d, NEW n \in Nat, NEW o, NEW l, NEW S,
         Counted(f, S, P, d, n, o, l),
         NEW block, Slice(block, d, n * BLOCKBYTES[f], BLOCKBYTES[f])
  PROVE  /\ Counted(f, CompressWhole(f, S, block), P, d, n + 1, o, l)
         /\ CompressWhole(f, S, block).buf = S.buf
         /\ CompressWhole(f, S, block).buflen = S.buflen
<1> DEFINE size == BLOCKBYTES[f]
           c == n * size
           t0 == (S.t0 + size) % WORD[f]
           t1 == (S.t1 + (IF t0 < size THEN 1 ELSE 0)) % WORD[f]
           R == increment_counter(f, S, size)
           T == CompressWhole(f, S, block)
           e == [m |-> block, t |-> <<t0, t1>>, f |-> <<S.f0, S.f1>>]
<1>1. size \in Nat /\ c \in Nat /\ (n + 1) * size = c + size
  BY Constants, TimesNext
<1>2. S.t0 = Low(f, c) /\ S.t1 = High(f, c) /\ S.h = History(f, P, d, n)
      /\ S.f0 = FALSE /\ S.f1 = FALSE /\ S.outlen = o /\ S.last_node = l /\ IsState(S)
  BY DEF Counted
<1>3. t0 = Low(f, (n + 1) * size) /\ t1 = High(f, (n + 1) * size)
  <2> HIDE DEF c, size
  <2>1. size <= BLOCKBYTES[f]
    BY <1>1 DEF size
  <2>2. t0 = Low(f, c + size)
    BY <1>1, <1>2, <2>1, CountOnce
  <2>3. t1 = High(f, c + size)
    BY <1>1, <1>2, <2>1, <2>2, CountOnce
  <2> QED
    BY <1>1, <2>2, <2>3
<1>4. R = [h |-> S.h, t0 |-> t0, t1 |-> t1, f0 |-> S.f0, f1 |-> S.f1,
           buf |-> S.buf, buflen |-> S.buflen, outlen |-> S.outlen, last_node |-> S.last_node]
  <2>1. t0 = (S.t0 + size) % WORD[f] /\ t1 = (S.t1 + (IF t0 < size THEN 1 ELSE 0)) % WORD[f]
    OBVIOUS
  <2> HIDE DEF t0, t1, size
  <2> QED
    BY <1>2, <2>1, IncrementIs
<1>r. T = compress(R, block)
  BY DEF CompressWhole
<1> HIDE DEF t0, t1, T, R, size, c
<1>5. IsState(R) /\ R.t0 = t0 /\ R.t1 = t1 /\ R.f0 = S.f0 /\ R.f1 = S.f1 /\ R.h = S.h
      /\ R.buf = S.buf /\ R.buflen = S.buflen /\ R.outlen = S.outlen /\ R.last_node = S.last_node
  BY <1>4 DEF IsState
<1>6. T = [h |-> Append(S.h, e),
           t0 |-> t0, t1 |-> t1, f0 |-> S.f0, f1 |-> S.f1,
           buf |-> S.buf, buflen |-> S.buflen, outlen |-> S.outlen, last_node |-> S.last_node]
  BY <1>5, <1>r, CompressIs
<1>7. e = WholeBlock(f, d, n + 1)
  <2>1. (n + 1) - 1 = n
    OBVIOUS
  <2>2. block = [p \in 1 .. BLOCKBYTES[f] |-> d[n * BLOCKBYTES[f] + p]]
    BY DEF Slice, Row
  <2> QED
    BY <1>2, <1>3, <2>1, <2>2 DEF WholeBlock, size
<1> HIDE DEF e
<1>8. T.h = History(f, P, d, n + 1)
  BY <1>2, <1>6, <1>7, HistoryGrows
<1>9. T.buf = S.buf /\ T.buflen = S.buflen /\ IsState(T) /\ T.t0 = t0 /\ T.t1 = t1
      /\ T.f0 = FALSE /\ T.f1 = FALSE /\ T.outlen = o /\ T.last_node = l
  BY <1>2, <1>6 DEF IsState
<1> QED
  BY <1>3, <1>8, <1>9 DEF Counted, T, size

\* The blocks of a input bytes that are compressed before more arrives: the last
\* one, full or not, is kept.
Wholes(f, a) == IF a = 0 THEN 0 ELSE (a - 1) \div BLOCKBYTES[f]

\* It leaves at least one byte and at most a block.
LEMMA WholesIs ==
  ASSUME NEW f \in Family, NEW a \in Nat
  PROVE  /\ Wholes(f, a) \in Nat
         /\ Wholes(f, a) * BLOCKBYTES[f] \in Nat
         /\ Wholes(f, a) * BLOCKBYTES[f] <= a
         /\ a <= Wholes(f, a) * BLOCKBYTES[f] + BLOCKBYTES[f]
         /\ a > 0 => Wholes(f, a) * BLOCKBYTES[f] < a
<1> DEFINE size == BLOCKBYTES[f]
<1>1. size \in Nat \ {0}
  BY Constants
<1> HIDE DEF size
<1>2. CASE a = 0
  <2>1. Wholes(f, a) = 0 /\ 0 * size = 0
    BY <1>1, <1>2 DEF Wholes
  <2> QED
    BY <1>1, <1>2, <2>1 DEF size
<1>3. CASE a # 0
  <2> DEFINE q == (a - 1) \div size
             r == (a - 1) % size
  <2>1. a - 1 \in Nat
    BY <1>3
  <2>2. q \in Nat /\ r \in Nat /\ r < size /\ a - 1 = q * size + r
    BY <1>1, <2>1, DivMod
  <2>3. Wholes(f, a) = q
    BY <1>3 DEF Wholes, size
  <2> HIDE DEF q, r
  <2>4. q * size \in Nat
    BY <1>1, <2>2, TimesNext
  <2>5. q * size <= a /\ a <= q * size + size /\ q * size < a
    BY <1>1, <2>2, <2>4
  <2> QED
    BY <2>2, <2>3, <2>4, <2>5 DEF size
<1> QED
  BY <1>2, <1>3

\* It is the only number that does.
LEMMA WholesUnique ==
  ASSUME NEW f \in Family, NEW a \in Nat, NEW n \in Nat,
         n * BLOCKBYTES[f] < a, a <= n * BLOCKBYTES[f] + BLOCKBYTES[f]
  PROVE  Wholes(f, a) = n
<1> DEFINE size == BLOCKBYTES[f]
           r == (a - 1) - n * size
<1>1. size \in Nat \ {0} /\ n * size \in Nat
  BY Constants, TimesNext
<1>2. r \in Nat /\ r < size /\ a - 1 = n * size + r /\ a # 0
  <2> HIDE DEF size
  <2> QED
    BY <1>1 DEF size
<1> HIDE DEF r
<1>3. (n * size + r) \div size = n
  <2> HIDE DEF size
  <2> QED
    BY <1>1, <1>2, DivUnique
<1> QED
  BY <1>2, <1>3 DEF Wholes

\* One round of the two loops of the model: CompressAll's and updates'.
Step(kind, f, S, in, j) ==
  IF kind = "blocks"
  THEN CompressWhole(f, S, SubSeq(in, (j - 1) * BLOCKBYTES[f] + 1, j * BLOCKBYTES[f]))
  ELSE update(f, S, in[j])

\* g is what the loop has left behind after each of k rounds.
IsLoop(g, kind, f, S, in, k) ==
  g = [j \in 0 .. k |-> IF j = 0 THEN S ELSE Step(kind, f, g[j - 1], in, j)]

\* A loop of k rounds goes on to one of k + 1, ...
LEMMA LoopExtends ==
  ASSUME NEW kind, NEW f, NEW S, NEW in, NEW k \in Nat, NEW g, IsLoop(g, kind, f, S, in, k)
  PROVE  \E h : IsLoop(h, kind, f, S, in, k + 1)
<1> DEFINE last == Step(kind, f, g[k], in, k + 1)
           h == [j \in 0..(k+1) |-> IF j = k + 1 THEN last ELSE g[j]]
<1>1. \A j \in 0..k : g[j] = IF j = 0 THEN S ELSE Step(kind, f, g[j-1], in, j)
  BY DEF IsLoop
<1>2. ASSUME NEW j \in 0..(k+1)
      PROVE h[j] = IF j = 0 THEN S ELSE Step(kind, f, h[j-1], in, j)
  <2>1. CASE j = k + 1
    <3>1. j # 0 /\ j - 1 = k /\ k \in 0..(k+1) /\ k # k + 1
      BY <2>1
    <3>2. h[j] = last /\ h[j-1] = g[k]
      BY <2>1, <3>1
    <3> HIDE DEF h
    <3> QED
      BY <2>1, <3>1, <3>2
  <2>2. CASE j # k + 1
    <3>1. j \in 0..k
      BY <2>2
    <3>2. h[j] = g[j]
      BY <2>2
    <3>3. CASE j = 0
      BY <3>1, <3>2, <3>3, <1>1
    <3>4. CASE j # 0
      <4>1. h[j-1] = g[j-1]
        BY <3>1, <3>4
      <4> HIDE DEF h
      <4> QED
        BY <3>1, <3>2, <3>4, <4>1, <1>1
    <3> QED
      BY <3>3, <3>4
  <2> QED
    BY <2>1, <2>2
<1>3. h = [j \in 0..(k+1) |-> h[j]]
  OBVIOUS
<1> HIDE DEF h
<1>4. h = [j \in 0..(k+1) |-> IF j = 0 THEN S ELSE Step(kind, f, h[j-1], in, j)]
  BY <1>2, <1>3
<1> QED
  BY <1>4 DEF IsLoop

\* ... so that there is one of any number of rounds.
LEMMA LoopExists ==
  ASSUME NEW kind, NEW f, NEW S, NEW in, NEW k \in Nat
  PROVE  \E g : IsLoop(g, kind, f, S, in, k)
<1> DEFINE Good == {n \in Nat : \E g : IsLoop(g, kind, f, S, in, n)}
<1>1. 0 \in Good
  <2> DEFINE g == [j \in 0..0 |-> S]
  <2>1. \A j \in 0..0 : j = 0
    OBVIOUS
  <2>2. g = [j \in 0 .. 0 |-> IF j = 0 THEN S ELSE Step(kind, f, g[j - 1], in, j)]
    BY <2>1
  <2> HIDE DEF g
  <2> QED
    BY <2>2 DEF IsLoop
<1>2. \A n \in Good : n + 1 \in Good
  BY LoopExtends
<1> HIDE DEF Good
<1>3. Good \in SUBSET Nat
  BY DEF Good
<1>4. \A n \in Nat : n \in Good
  BY <1>1, <1>2, <1>3, InductionOn
<1> QED
  BY <1>4 DEF Good

\* CompressAll is what its loop leaves in the end,
LEMMA CompressAllIsLoop ==
  ASSUME NEW f, NEW S, NEW in, NEW k \in Nat
  PROVE  \E g : /\ IsLoop(g, "blocks", f, S, in, k)
                /\ CompressAll(f, S, in, k) = g[k]
<1> DEFINE g == CHOOSE after : after = [j \in 0 .. k |->
        IF j = 0 THEN S
        ELSE CompressWhole(f, after[j - 1],
               SubSeq(in, (j - 1) * BLOCKBYTES[f] + 1, j * BLOCKBYTES[f]))]
<1>1. \E h : h = [j \in 0 .. k |->
        IF j = 0 THEN S
        ELSE CompressWhole(f, h[j - 1],
               SubSeq(in, (j - 1) * BLOCKBYTES[f] + 1, j * BLOCKBYTES[f]))]
  <2>1. PICK h : IsLoop(h, "blocks", f, S, in, k)
    BY LoopExists
  <2>2. h = [j \in 0 .. k |-> IF j = 0 THEN S
        ELSE CompressWhole(f, h[j - 1],
               SubSeq(in, (j - 1) * BLOCKBYTES[f] + 1, j * BLOCKBYTES[f]))]
    BY <2>1 DEF IsLoop, Step
  <2> QED
    BY <2>2, Zenon
<1>2. g = [j \in 0 .. k |->
        IF j = 0 THEN S
        ELSE CompressWhole(f, g[j - 1],
               SubSeq(in, (j - 1) * BLOCKBYTES[f] + 1, j * BLOCKBYTES[f]))]
  BY <1>1
<1>3. CompressAll(f, S, in, k) = g[k]
  BY DEF CompressAll
<1> HIDE DEF g
<1>4. IsLoop(g, "blocks", f, S, in, k)
  BY <1>2 DEF IsLoop, Step
<1> QED
  BY <1>3, <1>4

\* and updates is.
LEMMA UpdatesIsLoop ==
  ASSUME NEW f, NEW S, NEW in, Len(in) \in Nat
  PROVE  \E g : /\ IsLoop(g, "pieces", f, S, in, Len(in))
                /\ updates(f, S, in) = g[Len(in)]
<1> DEFINE k == Len(in)
           g == CHOOSE after : after = [j \in 0 .. Len(in) |->
                  IF j = 0 THEN S ELSE update(f, after[j - 1], in[j])]
<1>1. \E h : h = [j \in 0 .. Len(in) |-> IF j = 0 THEN S ELSE update(f, h[j - 1], in[j])]
  <2>1. \E h : IsLoop(h, "pieces", f, S, in, Len(in))
    BY LoopExists
  <2> QED
    BY <2>1 DEF IsLoop, Step
<1>2. g = [j \in 0 .. Len(in) |-> IF j = 0 THEN S ELSE update(f, g[j - 1], in[j])]
  BY <1>1
<1>3. updates(f, S, in) = g[Len(in)]
  BY DEF updates
<1> HIDE DEF g
<1>4. IsLoop(g, "pieces", f, S, in, Len(in))
  BY <1>2 DEF IsLoop, Step
<1> QED
  BY <1>3, <1>4

Runs(g, kind, f, S, in, k) ==
  /\ g[0] = S
  /\ \A j \in 0 .. (k - 1) : g[j + 1] = Step(kind, f, g[j], in, j + 1)

\* A loop, round by round.
LEMMA LoopRuns ==
  ASSUME NEW kind, NEW f, NEW S, NEW in, NEW k \in Nat, NEW g, IsLoop(g, kind, f, S, in, k)
  PROVE  Runs(g, kind, f, S, in, k)
<1>1. \A j \in 0..k : g[j] = IF j = 0 THEN S ELSE Step(kind, f, g[j-1], in, j)
  BY DEF IsLoop
<1>2. g[0] = S
  BY <1>1
<1>3. ASSUME NEW j \in 0 .. (k-1) PROVE g[j+1] = Step(kind, f, g[j], in, j + 1)
  <2>1. j + 1 \in 0..k /\ j + 1 # 0 /\ (j + 1) - 1 = j
    OBVIOUS
  <2> QED
    BY <2>1, <1>1
<1> QED
  BY <1>2, <1>3 DEF Runs


\* T has the buffer of S.
SameBuffer(T, S) == T.buf = S.buf /\ T.buflen = S.buflen

\* Blocks cut from in are counted as the next blocks of e, if that is what in is.
LEMMA CompressAllCounts ==
  ASSUME NEW f \in Family, NEW P, NEW e, NEW n \in Nat, NEW o, NEW l, NEW S,
         Counted(f, S, P, e, n, o, l),
         NEW in, NEW r, Slice(in, e, n * BLOCKBYTES[f], r),
         NEW whole \in Nat, whole * BLOCKBYTES[f] <= r
  PROVE  /\ Counted(f, CompressAll(f, S, in, whole), P, e, n + whole, o, l)
         /\ SameBuffer(CompressAll(f, S, in, whole), S)
<1> DEFINE size == BLOCKBYTES[f]
<1>0. size \in Nat \ {0} /\ n * size \in Nat /\ r \in Nat /\ Row(in, r)
  BY Constants, TimesNext DEF Row, Slice
<1>1. PICK g : /\ IsLoop(g, "blocks", f, S, in, whole)
               /\ CompressAll(f, S, in, whole) = g[whole]
  BY CompressAllIsLoop
<1>2. g[0] = S /\ \A j \in 0 .. (whole - 1) : g[j + 1] = Step("blocks", f, g[j], in, j + 1)
  <2>1. Runs(g, "blocks", f, S, in, whole)
    BY <1>1, LoopRuns
  <2> QED
    BY <2>1 DEF Runs
<1> DEFINE Fine(j) == /\ Counted(f, g[j], P, e, n + j, o, l)
                      /\ g[j].buf = S.buf /\ g[j].buflen = S.buflen
           Good == {j \in Nat : j <= whole => Fine(j)}
<1>3. 0 \in Good
  <2>1. n + 0 = n
    OBVIOUS
  <2> QED
    BY <1>2, <2>1
<1>4. ASSUME NEW j \in Good PROVE j + 1 \in Good
  <2> SUFFICES ASSUME j + 1 <= whole PROVE Fine(j + 1)
    OBVIOUS
  <2>1. j \in Nat /\ j <= whole /\ j \in 0 .. (whole - 1) /\ (j + 1) - 1 = j
        /\ n + j \in Nat /\ (n + j) + 1 = n + (j + 1)
    OBVIOUS
  <2>2. Fine(j)
    BY <2>1
  <2> DEFINE block == SubSeq(in, j * size + 1, (j + 1) * size)
             c == j * size
             w == whole * size
  <2>3. c \in Nat /\ (j + 1) * size = c + size /\ (n + j) * size = n * size + c
    BY <1>0, <2>1, TimesNext
  <2>4. (j + 1) * size <= w
    BY <1>0, <2>1
  <2>5. w <= r /\ w \in Nat
    BY <1>0, TimesNext
  <2>6. g[j + 1] = CompressWhole(f, g[j], block)
    BY <1>2, <2>1 DEF Step
  <2> HIDE DEF c, w, Fine
  <2>7. (j + 1) * size \in Nat /\ c <= (j + 1) * size /\ (j + 1) * size <= r
        /\ (j + 1) * size - c = size
    <3> HIDE DEF size
    <3> QED
      BY <1>0, <2>3, <2>4, <2>5
  <2> DEFINE b == (j + 1) * size
  <2>b. block = SubSeq(in, c + 1, b)
    BY DEF c
  <2> HIDE DEF b, block, size
  <2>8. Slice(block, in, c, b - c)
    BY <1>0, <2>3, <2>7, <2>b, SliceIs DEF b
  <2>9. Slice(block, in, c, size)
    BY <2>7, <2>8 DEF b
  <2>10. Slice(block, e, n * size + c, size)
    <3> DEFINE x == n * size
    <3>1. Slice(in, e, x, r) /\ x \in Nat /\ size \in Nat /\ c + size <= r
      BY <1>0, <2>3, <2>7 DEF size
    <3> HIDE DEF x
    <3>2. Slice(block, e, x + c, size)
      BY <2>3, <2>9, <3>1, SliceOfSlice
    <3> QED
      BY <3>2 DEF x
  <2>11. Slice(block, e, (n + j) * BLOCKBYTES[f], BLOCKBYTES[f])
    BY <2>3, <2>10 DEF size
  <2>12. /\ Counted(f, CompressWhole(f, g[j], block), P, e, (n + j) + 1, o, l)
         /\ CompressWhole(f, g[j], block).buf = g[j].buf
         /\ CompressWhole(f, g[j], block).buflen = g[j].buflen
    BY <2>1, <2>2, <2>11, CompressWholeCounts DEF Fine
  <2> QED
    BY <2>1, <2>2, <2>6, <2>12 DEF Fine
<1> HIDE DEF Good
<1>5. Good \in SUBSET Nat
  BY DEF Good
<1>6. whole \in Good
  BY <1>3, <1>4, <1>5, InductionOn
<1>7. Fine(whole)
  BY <1>6 DEF Good
<1> QED
  BY <1>1, <1>7 DEF SameBuffer

\* Both inputs have the same first a bytes.
Agree(d, e, a) == \A i \in 1 .. a : d[i] = e[i]

\* The history of n blocks depends on their bytes alone, ...
LEMMA HistorySame ==
  ASSUME NEW f \in Family, NEW P, NEW d, NEW e, NEW a \in Nat, Agree(d, e, a),
         NEW n \in Nat, n * BLOCKBYTES[f] <= a
  PROVE  History(f, P, d, n) = History(f, P, e, n)
<1> DEFINE size == BLOCKBYTES[f]
<1>1. size \in Nat \ {0}
  BY Constants
<1>2. ASSUME NEW i \in 1 .. (n + 1), i # 1
      PROVE WholeBlock(f, d, i - 1) = WholeBlock(f, e, i - 1)
  <2> DEFINE c == ((i - 1) - 1) * size
  <2>1. (i - 1) - 1 \in Nat /\ ((i - 1) - 1) + 1 <= n /\ ((i - 1) - 1) + 1 = i - 1
    BY <1>2
  <2>2. c \in Nat /\ (((i - 1) - 1) + 1) * size = c + size
    BY <1>1, <2>1, TimesNext
  <2>3. (((i - 1) - 1) + 1) * size <= n * size
    BY <1>1, <2>1
  <2> DEFINE w == n * size
  <2>4. w <= a /\ w \in Nat
    BY <1>1
  <2>5. c + size <= w
    BY <2>2, <2>3
  <2> HIDE DEF c, w
  <2>6. \A p \in 1 .. size : c + p \in 1 .. a
    <3> HIDE DEF size
    <3> QED
      BY <1>1, <2>2, <2>4, <2>5
  <2>7. \A p \in 1 .. size : d[c + p] = e[c + p]
    BY <2>6, Zenon DEF Agree
  <2> QED
    BY <2>7 DEF WholeBlock, c
<1> QED
  BY <1>2 DEF History

\* ... and so does the state that counted them.
LEMMA CountedSame ==
  ASSUME NEW f \in Family, NEW P, NEW d, NEW e, NEW a \in Nat, Agree(d, e, a),
         NEW n \in Nat, n * BLOCKBYTES[f] <= a, NEW o, NEW l, NEW S,
         Counted(f, S, P, d, n, o, l)
  PROVE  Counted(f, S, P, e, n, o, l)
<1>1. History(f, P, d, n) = History(f, P, e, n)
  BY HistorySame
<1> QED
  BY <1>1 DEF Counted

\* S has taken the first a bytes of d.
Absorbed(f, S, P, d, a, o, l) ==
  /\ Counted(f, S, P, d, Wholes(f, a), o, l)
  /\ Row(S.buf, BLOCKBYTES[f])
  /\ S.buflen = a - Wholes(f, a) * BLOCKBYTES[f]
  /\ \A p \in 1 .. S.buflen : S.buf[p] = d[Wholes(f, a) * BLOCKBYTES[f] + p]

\* Bytes that are kept in the buffer are not counted.
LEMMA KeepCounts ==
  ASSUME NEW f \in Family, NEW P, NEW d, NEW n, NEW o, NEW l, NEW S,
         Counted(f, S, P, d, n, o, l), Row(S.buf, BLOCKBYTES[f]), S.buflen \in Nat,
         NEW in, NEW k, Row(in, k)
  PROVE  /\ Counted(f, Keep(S, in), P, d, n, o, l)
         /\ Spliced(Keep(S, in).buf, BLOCKBYTES[f], S.buf, S.buflen, in, k)
         /\ Keep(S, in).buflen = S.buflen + k
<1> DEFINE b == Overwrite(S.buf, S.buflen, in)
           T == Keep(S, in)
<1>1. Spliced(b, BLOCKBYTES[f], S.buf, S.buflen, in, k)
  BY OverwriteIs
<1>2. Len(in) = k
  BY RowIs
<1>3. T = [S EXCEPT !.buf = b, !.buflen = S.buflen + k]
  BY <1>2 DEF Keep
<1> HIDE DEF b, T
<1>4. IsState(S)
  BY DEF Counted
<1>5. T = [h |-> S.h, t0 |-> S.t0, t1 |-> S.t1, f0 |-> S.f0, f1 |-> S.f1,
           buf |-> b, buflen |-> S.buflen + k, outlen |-> S.outlen, last_node |-> S.last_node]
  BY <1>3, <1>4, BufferIs
<1>6. Counted(f, T, P, d, n, o, l)
  BY <1>5 DEF Counted, IsState
<1> QED
  BY <1>1, <1>5, <1>6 DEF T

\* What update does with input that fits into the buffer ...
LEMMA UpdateKeeps ==
  ASSUME NEW f \in Family, NEW P, NEW d, NEW a \in Nat, NEW o, NEW l, NEW S,
         Absorbed(f, S, P, d, a, o, l), NEW e, Agree(d, e, a),
         NEW in, NEW k, Slice(in, e, a, k), k <= BLOCKBYTES[f] - S.buflen
  PROVE  Absorbed(f, update(f, S, in), P, e, a + k, o, l)
<1> DEFINE size == BLOCKBYTES[f]
           n == Wholes(f, a)
           c == n * size
           b == S.buflen
           T == update(f, S, in)
<1>1. size \in Nat \ {0} /\ n \in Nat /\ c \in Nat /\ c <= a /\ a <= c + size
      /\ (a > 0 => c < a) /\ k \in Nat /\ b = a - c
      /\ Row(in, k) /\ \A q \in 1 .. k : e[a + q] = in[q]
  BY Constants, WholesIs DEF Row, Absorbed, Slice
<1>2. T = Keep(S, in)
  <2>1. Len(in) = k
    BY <1>1, RowIs
  <2>2. ~(Len(in) > size - S.buflen)
    BY <1>1, <2>1
  <2> HIDE DEF size
  <2> QED
    BY <2>2 DEF update, size
<1>3. Wholes(f, a + k) = n
  <2> HIDE DEF n
  <2>1. CASE a + k = 0
    <3>1. a = 0 /\ k = 0
      BY <1>1, <2>1
    <3> QED
      BY <3>1 DEF Wholes, n
  <2>2. CASE a + k # 0
    <3>1. n * BLOCKBYTES[f] < a + k
      <4> HIDE DEF c
      <4>1. CASE a > 0
        BY <1>1, <4>1 DEF c
      <4>2. CASE a = 0
        <5>1. c = 0 /\ k > 0
          BY <1>1, <2>2, <4>2
        <5> QED
          BY <5>1, <4>2, <1>1 DEF c
      <4> QED
        BY <1>1, <4>1, <4>2
    <3>2. a + k <= n * BLOCKBYTES[f] + BLOCKBYTES[f]
      BY <1>1
    <3> QED
      BY <1>1, <3>1, <3>2, WholesUnique
  <2> QED
    BY <2>1, <2>2
<1>4. Counted(f, S, P, d, n, o, l) /\ Row(S.buf, BLOCKBYTES[f])
      /\ \A p \in 1 .. b : S.buf[p] = d[c + p]
  BY DEF Absorbed
<1> HIDE DEF n, T
<1>5. Counted(f, S, P, e, n, o, l)
  BY <1>1, <1>4, CountedSame
<1>6. b \in Nat /\ b + k <= BLOCKBYTES[f]
  BY <1>1
<1>7. /\ Counted(f, T, P, e, n, o, l)
      /\ Spliced(T.buf, BLOCKBYTES[f], S.buf, b, in, k)
      /\ T.buflen = b + k
  <2>1. Row(S.buf, BLOCKBYTES[f]) /\ S.buflen \in Nat /\ Row(in, k)
    BY <1>1, <1>4, <1>6
  <2>2. /\ Counted(f, Keep(S, in), P, e, n, o, l)
        /\ Spliced(Keep(S, in).buf, BLOCKBYTES[f], S.buf, S.buflen, in, k)
        /\ Keep(S, in).buflen = S.buflen + k
    BY <1>5, <2>1, KeepCounts
  <2> QED
    BY <1>2, <2>2
<1>s. /\ Row(T.buf, BLOCKBYTES[f])
      /\ \A p \in 1 .. BLOCKBYTES[f] : T.buf[p] =
           IF p > b /\ p <= b + k THEN in[p - b] ELSE S.buf[p]
  BY <1>7 DEF Spliced
<1> HIDE DEF c, b
<1>8. ASSUME NEW p \in 1 .. (b + k) PROVE T.buf[p] = e[c + p]
  <2>1. p \in 1 .. BLOCKBYTES[f]
    BY <1>1, <1>6
  <2>2. CASE p > b
    <3>1. p - b \in 1 .. k /\ a + (p - b) = c + p /\ p <= b + k
      BY <1>1, <1>6, <2>2
    <3> QED
      BY <1>1, <1>s, <2>1, <2>2, <3>1
  <2>3. CASE ~(p > b)
    <3>1. p \in 1 .. b /\ c + p \in 1 .. a
      BY <1>1, <1>6, <2>3
    <3>2. d[c + p] = e[c + p]
      BY <3>1, Zenon DEF Agree
    <3> QED
      BY <1>4, <1>s, <2>1, <2>3, <3>1, <3>2
  <2> QED
    BY <2>2, <2>3
<1>9. T.buflen = (a + k) - c
  BY <1>1, <1>7
<1>10. Absorbed(f, T, P, e, a + k, o, l)
  <2>1. Counted(f, T, P, e, Wholes(f, a + k), o, l) /\ Row(T.buf, BLOCKBYTES[f])
    BY <1>3, <1>7, <1>s
  <2>2. T.buflen = (a + k) - Wholes(f, a + k) * BLOCKBYTES[f]
    BY <1>3, <1>9 DEF c
  <2>3. \A p \in 1 .. T.buflen : T.buf[p] = e[Wholes(f, a + k) * BLOCKBYTES[f] + p]
    BY <1>3, <1>7, <1>8 DEF c
  <2> QED
    BY <2>1, <2>2, <2>3 DEF Absorbed
<1> QED
  BY <1>10 DEF T

\* ... and with input that does not: the buffer and all but the last block of what
\* follows are compressed.
LEMMA UpdateFlushes ==
  ASSUME NEW f \in Family, NEW P, NEW d, NEW a \in Nat, NEW o, NEW l, NEW S,
         Absorbed(f, S, P, d, a, o, l), NEW e, Agree(d, e, a),
         NEW in, NEW k, Slice(in, e, a, k), k > BLOCKBYTES[f] - S.buflen
  PROVE  Absorbed(f, update(f, S, in), P, e, a + k, o, l)
<1> DEFINE size == BLOCKBYTES[f]
           n == Wholes(f, a)
           c == n * size
           b == S.buflen
           fill == size - b
           filled == Overwrite(S.buf, b, SubSeq(in, 1, fill))
           rest == SubSeq(in, fill + 1, Len(in))
           r == k - fill
           whole == (Len(rest) - 1) \div size
           opened == [S EXCEPT !.buf = filled, !.buflen = 0]
           first == CompressWhole(f, opened, filled)
           more == CompressAll(f, first, rest, whole)
           tail == SubSeq(rest, whole * size + 1, Len(rest))
           T == update(f, S, in)
<1>1. size \in Nat \ {0} /\ n \in Nat /\ c \in Nat /\ c <= a /\ a <= c + size
      /\ (a > 0 => c < a) /\ k \in Nat /\ b = a - c
      /\ Row(in, k) /\ \A q \in 1 .. k : e[a + q] = in[q]
  BY Constants, WholesIs DEF Row, Absorbed, Slice
<1>2. Len(in) = k
  BY <1>1, RowIs
<1>3. Counted(f, S, P, d, n, o, l) /\ Row(S.buf, size)
      /\ \A p \in 1 .. b : S.buf[p] = d[c + p]
  BY DEF Absorbed
<1>4. Counted(f, S, P, e, n, o, l)
  BY <1>1, <1>3, CountedSame
<1>5. T = Keep(more, tail)
  <2>1. Len(in) > size - S.buflen
    BY <1>2
  <2> QED
    BY <2>1 DEF update
<1>k. k > fill
  OBVIOUS
<1> HIDE DEF n, T, c, b
<1>6. fill \in Nat /\ fill <= k /\ r \in Nat /\ r > 0 /\ c + size = a + fill
      /\ fill + b = size /\ fill = size - b /\ r = k - fill /\ b \in Nat
  <2> HIDE DEF size
  <2> QED
    BY <1>1, <1>k
<1> HIDE DEF fill, r
\* The first bytes of the input fill the buffer.
<1>7. Slice(SubSeq(in, 1, fill), in, 0, fill)
  <2>1. Slice(SubSeq(in, 0 + 1, fill), in, 0, fill - 0)
    BY <1>1, <1>6, SliceIs
  <2> QED
    BY <1>6, <2>1
<1> DEFINE begin == SubSeq(in, 1, fill)
<1>b. Row(begin, fill) /\ \A i \in 1 .. fill : begin[i] = in[0 + i]
  BY <1>7 DEF Slice
<1> HIDE DEF begin, size
<1>8. Spliced(filled, size, S.buf, b, begin, fill)
  BY <1>3, <1>6, <1>b, OverwriteIs DEF begin
<1> HIDE DEF filled
<1>9. ASSUME NEW p \in 1 .. size PROVE filled[p] = e[c + p]
  <2>1. filled[p] = IF p > b /\ p <= b + fill THEN begin[p - b] ELSE S.buf[p]
    BY <1>8 DEF Spliced
  <2>2. CASE p > b
    <3>1. p - b \in 1 .. fill /\ p - b \in 1 .. k /\ a + (p - b) = c + p /\ p <= b + fill
          /\ 0 + (p - b) = p - b
      BY <1>1, <1>6, <2>2
    <3>2. in[p - b] = e[c + p]
      BY <1>1, <3>1
    <3>3. begin[p - b] = in[p - b]
      BY <1>b, <3>1
    <3> QED
      BY <2>1, <2>2, <3>1, <3>2, <3>3
  <2>3. CASE ~(p > b)
    <3>1. p \in 1 .. b /\ c + p \in 1 .. a
      BY <1>1, <1>6, <2>3
    <3>2. d[c + p] = e[c + p]
      BY <3>1, Zenon DEF Agree
    <3> QED
      BY <1>3, <2>1, <2>3, <3>1, <3>2
  <2> QED
    BY <2>2, <2>3
<1>f. Slice(filled, e, c, size)
  BY <1>8, <1>9 DEF Slice, Spliced
<1>10. Slice(rest, in, fill, r)
  BY <1>1, <1>2, <1>6, SliceIs
<1>11. Len(rest) = r
  BY <1>10, RowIs DEF Slice
<1> HIDE DEF rest
<1>12. /\ Counted(f, opened, P, e, n, o, l)
       /\ opened.buf = filled /\ opened.buflen = 0
  <2>1. IsState(S)
    BY <1>4 DEF Counted
  <2>2. opened = [h |-> S.h, t0 |-> S.t0, t1 |-> S.t1, f0 |-> S.f0, f1 |-> S.f1,
           buf |-> filled, buflen |-> 0, outlen |-> S.outlen, last_node |-> S.last_node]
    BY <2>1, BufferIs
  <2> HIDE DEF opened
  <2> QED
    BY <1>4, <2>2 DEF Counted, IsState
<1> HIDE DEF opened
<1>13. /\ Counted(f, first, P, e, n + 1, o, l)
       /\ first.buf = filled /\ first.buflen = 0
  <2>1. Slice(filled, e, n * BLOCKBYTES[f], BLOCKBYTES[f])
    BY <1>f DEF c, size
  <2> QED
    BY <1>1, <1>12, <2>1, CompressWholeCounts
<1> HIDE DEF first
\* The rest continues behind block n + 1.
<1>14. (n + 1) * size = c + size
  <2> HIDE DEF size
  <2> QED
    BY <1>1, TimesNext DEF c
<1>15. Slice(rest, e, (n + 1) * size, r)
  <2>1. Slice(rest, e, a + fill, r)
    BY <1>1, <1>6, <1>10, SliceOfSlice
  <2> QED
    BY <1>6, <1>14, <2>1
<1>16. whole = Wholes(f, r)
  BY <1>6, <1>11 DEF Wholes, size
<1> HIDE DEF whole
<1> DEFINE w == whole * size
<1>17. whole \in Nat /\ w \in Nat /\ w < r /\ r <= w + size
  BY <1>6, <1>16, WholesIs DEF size
<1>18. /\ Counted(f, more, P, e, (n + 1) + whole, o, l)
       /\ more.buf = filled /\ more.buflen = 0
  <2>1. n + 1 \in Nat /\ whole * BLOCKBYTES[f] <= r
        /\ Slice(rest, e, (n + 1) * BLOCKBYTES[f], r)
    BY <1>1, <1>6, <1>15, <1>17 DEF size
  <2> DEFINE x == n + 1
  <2>x. Counted(f, first, P, e, x, o, l) /\ x \in Nat /\ Slice(rest, e, x * BLOCKBYTES[f], r)
    BY <1>13, <2>1
  <2> HIDE DEF x
  <2>4. whole \in Nat /\ whole * BLOCKBYTES[f] <= r /\ more = CompressAll(f, first, rest, whole)
    BY <1>17, <2>1
  <2> HIDE DEF more
  <2>3. Counted(f, more, P, e, x + whole, o, l) /\ SameBuffer(more, first)
    BY <2>x, <2>4, CompressAllCounts
  <2>2. /\ Counted(f, more, P, e, (n + 1) + whole, o, l)
        /\ more.buf = first.buf /\ more.buflen = first.buflen
    BY <2>3 DEF x, SameBuffer
  <2> QED
    BY <1>13, <2>2
<1> HIDE DEF more, w
\* The last block, full or not, stays in the buffer.
<1>19. tail = SubSeq(rest, w + 1, r)
  BY <1>11 DEF w
<1> HIDE DEF tail
<1>20. Slice(tail, rest, w, r - w) /\ Row(rest, r)
  <2>1. Row(rest, r) /\ w <= r
    BY <1>10, <1>6, <1>17 DEF Slice
  <2> QED
    BY SMTT(40), <1>6, <1>17, <1>19, <2>1, SliceIs
<1>21. /\ Counted(f, T, P, e, (n + 1) + whole, o, l)
       /\ Spliced(T.buf, BLOCKBYTES[f], filled, 0, tail, r - w)
       /\ T.buflen = 0 + (r - w)
  <2>1. Row(tail, r - w) /\ Row(filled, BLOCKBYTES[f])
    BY <1>20, <1>f DEF Slice, size
  <2> QED
    BY <1>5, <1>18, <2>1, KeepCounts
<1>s. /\ Row(T.buf, BLOCKBYTES[f])
      /\ \A p \in 1 .. BLOCKBYTES[f] : T.buf[p] =
            IF p > 0 /\ p <= 0 + (r - w) THEN tail[p - 0] ELSE filled[p]
  BY <1>21 DEF Spliced
<1>22. ((n + 1) + whole) * size = (c + size) + w
  <2> DEFINE x == n + 1
  <2>1. x \in Nat
    BY <1>1
  <2> HIDE DEF x, size
  <2>2. (x + whole) * size = x * size + w
    BY <1>1, <1>17, <2>1 DEF w
  <2> QED
    BY <1>14, <2>2 DEF x
<1> DEFINE m == (n + 1) + whole
<1>23. Wholes(f, a + k) = m
  <2>1. m \in Nat /\ a + k \in Nat
    BY <1>1, <1>17
  <2>2. m * size = (c + size) + w
    BY <1>22
  <2> HIDE DEF m, size
  <2>3. m * size < a + k /\ a + k <= m * size + size
    BY <1>1, <1>6, <1>17, <2>2
  <2> QED
    BY <2>1, <2>3, WholesUnique DEF size
<1>24. m * size = (c + size) + w
  BY <1>22
<1> HIDE DEF m, size
<1>25. T.buflen = (a + k) - m * size /\ T.buflen = r - w
  BY <1>1, <1>6, <1>17, <1>21, <1>24
<1>26. ASSUME NEW p \in 1 .. T.buflen PROVE T.buf[p] = e[m * size + p]
  <2>1. p \in 1 .. size /\ p \in 1 .. (r - w) /\ w + p \in 1 .. r /\ p - 0 = p
        /\ p > 0 /\ p <= 0 + (r - w)
    BY <1>1, <1>6, <1>17, <1>25
  <2>2. T.buf[p] = tail[p]
    BY <1>s, <2>1 DEF size
  <2>3. tail[p] = rest[w + p]
    BY <1>20, <2>1 DEF Slice
  <2>4. rest[w + p] = e[(n + 1) * size + (w + p)]
    BY <1>15, <2>1 DEF Slice
  <2>5. (n + 1) * size + (w + p) = m * size + p
    BY <1>1, <1>14, <1>17, <1>24
  <2> QED
    BY <2>2, <2>3, <2>4, <2>5
<1>27. Absorbed(f, T, P, e, a + k, o, l)
  BY <1>21, <1>s, <1>23, <1>25, <1>26 DEF Absorbed, m, size
<1> QED
  BY <1>27 DEF T

\* Whatever a state has taken, update has it take what follows: the length of the
\* piece, and where it ends in its block, make no difference.
LEMMA UpdateAbsorbs ==
  ASSUME NEW f \in Family, NEW P, NEW d, NEW a \in Nat, NEW o, NEW l, NEW S,
         Absorbed(f, S, P, d, a, o, l), NEW e, Agree(d, e, a),
         NEW in, NEW k, Slice(in, e, a, k)
  PROVE  Absorbed(f, update(f, S, in), P, e, a + k, o, l)
<1>1. CASE k <= BLOCKBYTES[f] - S.buflen
  BY <1>1, UpdateKeeps
<1>2. CASE ~(k <= BLOCKBYTES[f] - S.buflen)
  <2>1. k \in Nat /\ BLOCKBYTES[f] \in Nat /\ S.buflen = a - Wholes(f, a) * BLOCKBYTES[f]
        /\ Wholes(f, a) * BLOCKBYTES[f] \in Nat
    BY Constants, WholesIs DEF Absorbed, Row, Slice
  <2>2. k > BLOCKBYTES[f] - S.buflen
    BY <1>2, <2>1
  <2> QED
    BY <2>2, UpdateFlushes
<1> QED
  BY <1>1, <1>2

\* The counter has not wrapped round, and what was counted and what waits in the
\* buffer add up to everything the state was given.
LEMMA AbsorbedAccounts ==
  ASSUME NEW f \in Family, NEW P, NEW d, NEW a \in Nat, NEW o, NEW l, NEW S,
         Absorbed(f, S, P, d, a, o, l), a < WORD[f] * WORD[f]
  PROVE  Accounts(f, S, a)
<1> DEFINE size == BLOCKBYTES[f]
           W == WORD[f]
           n == Wholes(f, a)
           c == n * size
           q == c \div W
<1>1. size \in Nat \ {0} /\ W \in Nat \ {0} /\ n \in Nat /\ c \in Nat /\ c <= a /\ a <= c + size
      /\ (a > 0 => c < a)
  BY Constants, WholesIs
<1>2. S.t0 = c % W /\ S.t1 = q % W /\ S.buflen = a - c /\ S.h = History(f, P, d, n)
  BY DEF Absorbed, Counted, Low, High
<1>3. a < W * W
  OBVIOUS
<1> HIDE DEF n, c, W, size
<1>4. q \in Nat /\ c % W \in Nat /\ c % W < W /\ c = q * W + (c % W)
  BY <1>1, DivMod
<1> HIDE DEF q
<1>5. q < W
  <2>1. SUFFICES ASSUME q >= W PROVE FALSE
    BY <1>1, <1>4
  <2> DEFINE x == q * W
  <2>2. x >= W * W
    BY <1>1, <1>4, <2>1
  <2>3. x \in Nat /\ W * W \in Nat
    BY <1>1, <1>4
  <2> HIDE DEF x
  <2>4. c >= x
    BY <1>1, <1>4, <2>3 DEF x
  <2> QED
    BY <1>1, <1>3, <2>2, <2>3, <2>4
<1>6. q % W = q
  <2>1. (0 * W + q) % W = q
    BY <1>1, <1>4, <1>5, DivUnique
  <2>2. 0 * W + q = q
    BY <1>1, <1>4
  <2> QED
    BY <2>1, <2>2
<1>7. Counter(f, S) = c
  BY <1>2, <1>4, <1>6 DEF Counter, W
<1>8. InFlight(f, S) = a
  BY <1>1, <1>2, <1>7 DEF InFlight
<1>9. S.buflen \in 0 .. size /\ (a > 0 => S.buflen > 0)
  BY <1>1, <1>2
<1>10. Len(S.h) = n + 1
  <2>1. Row(S.h, n + 1)
    BY <1>1, <1>2 DEF Row, History
  <2> QED
    BY <2>1, RowIs
<1>11. (c + size - 1) \div size = n
  <2>1. (n * size + (size - 1)) \div size = n
    BY <1>1, DivUnique
  <2>2. n * size + (size - 1) = c + size - 1
    BY <1>1 DEF c
  <2> QED
    BY <2>1, <2>2
<1> QED
  BY <1>1, <1>7, <1>8, <1>9, <1>10, <1>11 DEF Accounts, size

\* What LastBlock makes of a state.
EndLow(f, S) == (S.t0 + S.buflen) % WORD[f]
EndHigh(f, S) == (S.t1 + (IF EndLow(f, S) < S.buflen THEN 1 ELSE 0)) % WORD[f]
Padded(f, S) == Overwrite(S.buf, S.buflen, Zeros(BLOCKBYTES[f] - S.buflen))
EndFlag(S) == S.f1 \/ S.last_node
EndEntry(f, S) == [m |-> Padded(f, S), t |-> <<EndLow(f, S), EndHigh(f, S)>>,
                   f |-> <<TRUE, EndFlag(S)>>]

\* LastBlock, field by field.
LEMMA LastBlockIs ==
  ASSUME NEW f, NEW S, IsState(S)
  PROVE  LastBlock(f, S) =
           [h |-> Append(S.h, EndEntry(f, S)),
            t0 |-> EndLow(f, S), t1 |-> EndHigh(f, S), f0 |-> TRUE, f1 |-> EndFlag(S),
            buf |-> Padded(f, S), buflen |-> S.buflen, outlen |-> S.outlen,
            last_node |-> S.last_node]
<1> DEFINE c0 == EndLow(f, S)
           c1 == EndHigh(f, S)
           padded == Padded(f, S)
           f1 == EndFlag(S)
           C == increment_counter(f, S, S.buflen)
           M == set_lastblock(C)
           B == [M EXCEPT !.buf = padded]
<1>1. LastBlock(f, S) = compress(B, padded)
  BY DEF LastBlock, Padded
<1>f. f1 = (S.f1 \/ S.last_node)
  BY DEF EndFlag
<1>c. c0 = (S.t0 + S.buflen) % WORD[f]
      /\ c1 = (S.t1 + (IF c0 < S.buflen THEN 1 ELSE 0)) % WORD[f]
  BY DEF EndLow, EndHigh
<1>e. EndEntry(f, S) = [m |-> padded, t |-> <<c0, c1>>, f |-> <<TRUE, f1>>]
  BY DEF EndEntry
<1> HIDE DEF c0, c1, padded, f1
<1>2. /\ IsState(C)
      /\ C.h = S.h /\ C.t0 = c0 /\ C.t1 = c1 /\ C.f0 = S.f0 /\ C.f1 = S.f1 /\ C.buf = S.buf
      /\ C.buflen = S.buflen /\ C.outlen = S.outlen /\ C.last_node = S.last_node
  <2>1. C = [h |-> S.h, t0 |-> c0, t1 |-> c1, f0 |-> S.f0, f1 |-> S.f1,
           buf |-> S.buf, buflen |-> S.buflen, outlen |-> S.outlen, last_node |-> S.last_node]
    <3> DEFINE inc == S.buflen
               all == increment_counter(f, S, inc)
    <3>1. c0 = (S.t0 + inc) % WORD[f] /\ c1 = (S.t1 + (IF c0 < inc THEN 1 ELSE 0)) % WORD[f]
      BY <1>c
    <3> HIDE DEF inc
    <3>2. all = [h |-> S.h, t0 |-> c0, t1 |-> c1, f0 |-> S.f0, f1 |-> S.f1,
             buf |-> S.buf, buflen |-> S.buflen, outlen |-> S.outlen, last_node |-> S.last_node]
      BY <3>1, IncrementIs
    <3> QED
      BY <3>2 DEF inc
  <2> HIDE DEF C
  <2> QED
    BY <2>1 DEF IsState
<1> DEFINE R == [C EXCEPT !.f0 = TRUE]
<1>3. M = [R EXCEPT !.f1 = f1]
  <2>1. M = [C EXCEPT !.f0 = TRUE, !.f1 = C.f1 \/ C.last_node]
    BY DEF set_lastblock
  <2> HIDE DEF M, C
  <2>2. (C.f1 \/ C.last_node) = f1
    BY <1>2, <1>f
  <2> QED
    BY <2>1, <2>2
<1> HIDE DEF C, M
<1>4. /\ IsState(R)
      /\ R.h = S.h /\ R.t0 = c0 /\ R.t1 = c1 /\ R.f0 = TRUE /\ R.f1 = S.f1 /\ R.buf = S.buf
      /\ R.buflen = S.buflen /\ R.outlen = S.outlen /\ R.last_node = S.last_node
  <2>1. R = [h |-> C.h, t0 |-> C.t0, t1 |-> C.t1, f0 |-> TRUE, f1 |-> C.f1, buf |-> C.buf,
             buflen |-> C.buflen, outlen |-> C.outlen, last_node |-> C.last_node]
    BY <1>2, Flag0Is
  <2> HIDE DEF R
  <2> QED
    BY <1>2, <2>1 DEF IsState
<1> HIDE DEF R
<1>5. /\ IsState(M)
      /\ M.h = S.h /\ M.t0 = c0 /\ M.t1 = c1 /\ M.f0 = TRUE /\ M.f1 = f1 /\ M.buf = S.buf
      /\ M.buflen = S.buflen /\ M.outlen = S.outlen /\ M.last_node = S.last_node
  <2>1. M = [h |-> R.h, t0 |-> R.t0, t1 |-> R.t1, f0 |-> R.f0, f1 |-> f1, buf |-> R.buf,
             buflen |-> R.buflen, outlen |-> R.outlen, last_node |-> R.last_node]
    BY <1>3, <1>4, Flag1Is
  <2> QED
    BY <1>4, <2>1 DEF IsState
<1>6. /\ IsState(B)
      /\ B.h = S.h /\ B.t0 = c0 /\ B.t1 = c1 /\ B.f0 = TRUE /\ B.f1 = f1 /\ B.buf = padded
      /\ B.buflen = S.buflen /\ B.outlen = S.outlen /\ B.last_node = S.last_node
  <2>1. B = [h |-> M.h, t0 |-> M.t0, t1 |-> M.t1, f0 |-> M.f0, f1 |-> M.f1, buf |-> padded,
             buflen |-> M.buflen, outlen |-> M.outlen, last_node |-> M.last_node]
    BY <1>5, BufIs
  <2> HIDE DEF B
  <2> QED
    BY <1>5, <2>1 DEF IsState
<1> HIDE DEF B
<1>7. compress(B, padded) =
        [h |-> Append(B.h, [m |-> padded, t |-> <<B.t0, B.t1>>, f |-> <<B.f0, B.f1>>]),
         t0 |-> B.t0, t1 |-> B.t1, f0 |-> B.f0, f1 |-> B.f1, buf |-> B.buf,
         buflen |-> B.buflen, outlen |-> B.outlen, last_node |-> B.last_node]
  BY <1>6, CompressIs
<1> QED
  BY <1>1, <1>6, <1>7, <1>e DEF c0, c1, padded, f1

\* A row with one element put before it.
LEMMA ConsIs ==
  ASSUME NEW P, NEW t, NEW m, Row(t, m)
  PROVE  <<P>> \o t = [i \in 1 .. (m + 1) |-> IF i = 1 THEN P ELSE t[i - 1]]
<1> DEFINE H == {t[i] : i \in 1 .. m} \cup {P}
           s == <<P>>
<1>1. m \in Nat /\ Len(t) = m
  BY RowIs DEF Row
<1>2. t \in Seq(H)
  <2>1. t \in Seq({t[i] : i \in 1 .. m})
    BY RowIs
  <2> QED
    BY <2>1, SeqMonotonic
<1>3. s \in Seq(H) /\ Len(s) = 1 /\ s[1] = P
  <2>1. P \in H
    OBVIOUS
  <2> HIDE DEF H
  <2> QED
    BY <2>1
<1> HIDE DEF H, s
<1> DEFINE u == s \o t
<1>4. u \in Seq(H) /\ Len(u) = Len(s) + Len(t)
      /\ \A i \in 1 .. Len(s) + Len(t) : u[i] = IF i <= Len(s) THEN s[i] ELSE t[i - Len(s)]
  BY <1>2, <1>3, ConcatProperties
<1>5. Len(s) + Len(t) = m + 1
  BY <1>1, <1>3
<1> HIDE DEF u
<1>6. Row(u, m + 1)
  <2>1. Len(u) = m + 1
    BY <1>4, <1>5
  <2> QED
    BY <1>4, <2>1, RowOf
<1>7. ASSUME NEW i \in 1 .. (m + 1) PROVE u[i] = IF i = 1 THEN P ELSE t[i - 1]
  <2>1. u[i] = IF i <= Len(s) THEN s[i] ELSE t[i - Len(s)]
    BY <1>4, <1>5
  <2>2. u[i] = IF i <= 1 THEN s[i] ELSE t[i - 1]
    BY <1>3, <2>1
  <2>3. (i <= 1) <=> (i = 1)
    BY <1>1
  <2> QED
    BY <1>3, <2>2, <2>3
<1>8. u = [i \in 1 .. (m + 1) |-> IF i = 1 THEN P ELSE t[i - 1]]
  BY <1>6, <1>7 DEF Row
<1> QED
  BY <1>8 DEF u, s

\* Entry i of what HashOf hashes, of count of them.
Entry(f, d, a, l, count, i) ==
  [m |-> [p \in 1 .. BLOCKBYTES[f] |->
            IF (i - 1) * BLOCKBYTES[f] + p \in 1 .. a
            THEN d[(i - 1) * BLOCKBYTES[f] + p] ELSE Zero],
   t |-> <<Low(f, Minimum(a, i * BLOCKBYTES[f])), High(f, Minimum(a, i * BLOCKBYTES[f]))>>,
   f |-> <<i = count, i = count /\ l>>]

\* HashOf in the terms of the states: all the whole blocks and one more.
LEMMA HashOfIs ==
  ASSUME NEW f \in Family, NEW P, NEW l, NEW d, NEW a, Row(d, a), NEW n, n = Wholes(f, a)
  PROVE  HashOf(f, P, l, d) =
           [i \in 1 .. ((n + 1) + 1) |-> IF i = 1 THEN P ELSE Entry(f, d, a, l, n + 1, i - 1)]
<1> DEFINE size == BLOCKBYTES[f]
           count == IF d = <<>> THEN 1 ELSE (Len(d) + size - 1) \div size
           byte(p) == IF p \in DOMAIN d THEN d[p] ELSE Zero
           counted(i) == Minimum(Len(d), i * size)
           e == [i \in 1 .. count |->
                  [m |-> [p \in 1 .. size |-> byte((i - 1) * size + p)],
                   t |-> <<counted(i) % WORD[f], (counted(i) \div WORD[f]) % WORD[f]>>,
                   f |-> <<i = count, i = count /\ l>>]]
<1>1. Len(d) = a /\ DOMAIN d = 1 .. a /\ a \in Nat /\ size \in Nat \ {0} /\ n \in Nat
  BY RowIs, Constants, WholesIs DEF Row
<1>2. HashOf(f, P, l, d) = <<P>> \o e
  BY DEF HashOf
<1>3. count = n + 1
  <2> HIDE DEF size
  <2>1. CASE a = 0
    <3>1. d = <<>>
      BY <2>1 DEF Row
    <3> QED
      BY <1>1, <2>1, <3>1 DEF Wholes
  <2>2. CASE a # 0
    <3>1. d # <<>>
      BY <1>1, <2>2
    <3> DEFINE q == (a - 1) \div size
               r == (a - 1) % size
    <3>2. a - 1 \in Nat
      BY <1>1, <2>2
    <3>3. q \in Nat /\ r \in Nat /\ r < size /\ a - 1 = q * size + r
      BY <1>1, <3>2, DivMod
    <3>4. n = q
      BY <2>2 DEF Wholes, size
    <3> HIDE DEF q, r
    <3>5. ((q + 1) * size + r) \div size = q + 1
      <4>1. q + 1 \in Nat
        BY <3>3
      <4> QED
        BY <1>1, <3>3, <4>1, DivUnique
    <3>6. (q + 1) * size + r = a + size - 1
      BY <1>1, <3>3, TimesNext
    <3> QED
      BY <1>1, <3>1, <3>4, <3>5, <3>6
  <2> QED
    BY <2>1, <2>2
<1>4. e = [i \in 1 .. (n + 1) |-> Entry(f, d, a, l, n + 1, i)]
  <2> HIDE DEF count
  <2> QED
    BY <1>1, <1>3 DEF Entry, Low, High
<1> HIDE DEF e
<1>5. Row(e, n + 1)
  BY <1>1, <1>4 DEF Row
<1>6. <<P>> \o e = [i \in 1 .. ((n + 1) + 1) |-> IF i = 1 THEN P ELSE e[i - 1]]
  BY <1>5, ConsIs
<1>7. ASSUME NEW i \in 1 .. ((n + 1) + 1), i # 1
      PROVE e[i - 1] = Entry(f, d, a, l, n + 1, i - 1)
  <2>1. i - 1 \in 1 .. (n + 1)
    BY <1>1, <1>7
  <2> QED
    BY <1>4, <2>1
<1> QED
  BY <1>2, <1>6, <1>7

\* T is S with the hash of d completed.
Complete(T, f, P, d, l, S) ==
  /\ IsState(T)
  /\ T.h = HashOf(f, P, l, d) /\ T.f0 = TRUE
  /\ T.buflen = S.buflen /\ Row(T.buf, BLOCKBYTES[f])

\* The last block, padded and flagged, completes the hash of everything taken.
LEMMA LastBlockHashes ==
  ASSUME NEW f \in Family, NEW P, NEW d, NEW a, Row(d, a), NEW o, NEW l \in BOOLEAN, NEW S,
         Absorbed(f, S, P, d, a, o, l)
  PROVE  Complete(LastBlock(f, S), f, P, d, l, S)
<1> DEFINE size == BLOCKBYTES[f]
           n == Wholes(f, a)
           c == n * size
           b == S.buflen
           zeros == Zeros(size - b)
           padded == Overwrite(S.buf, b, zeros)
           c0 == (S.t0 + S.buflen) % WORD[f]
           c1 == (S.t1 + (IF c0 < S.buflen THEN 1 ELSE 0)) % WORD[f]
           f1 == (S.f1 \/ S.last_node)
           last == [m |-> padded, t |-> <<c0, c1>>, f |-> <<TRUE, f1>>]
           T == LastBlock(f, S)
<1>1. /\ size \in Nat \ {0} /\ n \in Nat /\ c \in Nat /\ c <= a /\ a <= c + size
      /\ (a > 0 => c < a) /\ a \in Nat /\ b = a - c
  BY Constants, WholesIs DEF Row, Absorbed
<1>2. Counted(f, S, P, d, n, o, l) /\ Row(S.buf, BLOCKBYTES[f])
      /\ \A p \in 1 .. b : S.buf[p] = d[c + p]
  BY DEF Absorbed
<1>3. IsState(S) /\ S.h = History(f, P, d, n) /\ S.t0 = Low(f, c) /\ S.t1 = High(f, c)
      /\ S.f1 = FALSE /\ S.last_node = l
  BY <1>2 DEF Counted
<1>4. T = [h |-> Append(S.h, last),
           t0 |-> c0, t1 |-> c1, f0 |-> TRUE, f1 |-> f1,
           buf |-> padded, buflen |-> S.buflen, outlen |-> S.outlen, last_node |-> S.last_node]
  <2>1. /\ c0 = EndLow(f, S) /\ c1 = EndHigh(f, S) /\ padded = Padded(f, S)
        /\ last = EndEntry(f, S)
    BY DEF EndLow, EndHigh, Padded, EndEntry, EndFlag
  <2>2. f1 = EndFlag(S)
    BY DEF EndFlag
  <2> HIDE DEF c0, c1, padded, f1, last
  <2> QED
    BY <1>3, <2>1, <2>2, LastBlockIs
<1> HIDE DEF T, n
<1>5. c0 = Low(f, a) /\ c1 = High(f, a)
  <2> HIDE DEF c, size
  <2>1. b \in Nat /\ b <= BLOCKBYTES[f] /\ c + b = a
    BY <1>1 DEF size
  <2> HIDE DEF b
  <2>2. (Low(f, c) + b) % WORD[f] = Low(f, c + b)
    BY <1>1, <2>1, CountOnce
  <2>3. (High(f, c) + (IF Low(f, c + b) < b THEN 1 ELSE 0)) % WORD[f] = High(f, c + b)
    BY <1>1, <2>1, CountOnce
  <2>4. c0 = Low(f, c + b)
    BY <1>3, <2>2 DEF b
  <2>5. c1 = High(f, c + b)
    <3> HIDE DEF c0
    <3>1. c1 = (S.t1 + (IF c0 < b THEN 1 ELSE 0)) % WORD[f]
      BY DEF b
    <3> HIDE DEF c1
    <3> QED
      BY <1>3, <2>3, <2>4, <3>1
  <2> HIDE DEF c0, c1
  <2> QED
    BY <2>1, <2>4, <2>5
<1> HIDE DEF c0, c1
<1>6. Row(zeros, size - b) /\ \A i \in 1 .. (size - b) : zeros[i] = Zero
  <2>1. size - b \in Nat
    <3> HIDE DEF size, c
    <3> QED
      BY <1>1
  <2> HIDE DEF size, b
  <2> QED
    BY <2>1 DEF Zeros, Row
<1>7. Spliced(padded, size, S.buf, b, zeros, size - b)
  <2>1. b \in Nat
    BY <1>1
  <2> HIDE DEF zeros
  <2> QED
    BY <1>2, <1>6, <2>1, OverwriteIs
<1> HIDE DEF zeros, padded, size, c, b
<1>8. Row(padded, size)
  BY <1>7 DEF Spliced
<1>9. (n + 1) - 1 = n /\ n + 1 \in Nat /\ (n + 1) * size = c + size
  BY <1>1, TimesNext DEF c
<1>10. ASSUME NEW p \in 1 .. size
       PROVE padded[p] = IF c + p \in 1 .. a THEN d[c + p] ELSE Zero
  <2>1. padded[p] = IF p > b /\ p <= b + (size - b) THEN zeros[p - b] ELSE S.buf[p]
    BY <1>7 DEF Spliced
  <2>2. CASE p > b
    <3>1. p <= b + (size - b) /\ p - b \in 1 .. (size - b) /\ ~(c + p \in 1 .. a)
      BY <1>1, <2>2
    <3> QED
      BY <1>6, <2>1, <2>2, <3>1
  <2>3. CASE ~(p > b)
    <3>1. p \in 1 .. b /\ c + p \in 1 .. a
      BY <1>1, <2>3
    <3> QED
      BY <1>2, <2>1, <2>3, <3>1
  <2> QED
    BY <2>2, <2>3
<1>11. Minimum(a, (n + 1) * size) = a
  BY <1>1, <1>9 DEF Minimum
<1>12. last = Entry(f, d, a, l, n + 1, n + 1)
  <2>1. f1 = l
    BY <1>3
  <2>2. padded = [p \in 1 .. BLOCKBYTES[f] |->
            IF ((n + 1) - 1) * BLOCKBYTES[f] + p \in 1 .. a
            THEN d[((n + 1) - 1) * BLOCKBYTES[f] + p] ELSE Zero]
    BY <1>8, <1>9, <1>10 DEF Row, c, size
  <2> HIDE DEF f1
  <2> QED
    BY <1>5, <1>11, <2>1, <2>2 DEF Entry, size
<1> HIDE DEF last
<1>13. ASSUME NEW i \in 1 .. n PROVE WholeBlock(f, d, i) = Entry(f, d, a, l, n + 1, i)
  <2> DEFINE x == (i - 1) * size
  <2>1. x \in Nat /\ i * size = x + size
    <3>1. i - 1 \in Nat /\ (i - 1) + 1 = i
      OBVIOUS
    <3> QED
      BY <1>1, <3>1, TimesNext
  <2>2. i * size <= c
    BY <1>1 DEF c
  <2>3. Minimum(a, i * size) = i * size
    <3>1. i * size <= a /\ i * size \in Nat
      BY <1>1, <2>1, <2>2
    <3> QED
      BY <1>1, <3>1 DEF Minimum
  <2>4. (i = n + 1) = FALSE
    BY <1>1
  <2>5. \A p \in 1 .. size : x + p \in 1 .. a
    <3> HIDE DEF x
    <3> QED
      BY <1>1, <2>1, <2>2
  <2>6. [p \in 1 .. BLOCKBYTES[f] |-> d[(i - 1) * BLOCKBYTES[f] + p]] =
        [p \in 1 .. BLOCKBYTES[f] |->
            IF (i - 1) * BLOCKBYTES[f] + p \in 1 .. a
            THEN d[(i - 1) * BLOCKBYTES[f] + p] ELSE Zero]
    BY <2>5 DEF size
  <2> QED
    BY <2>3, <2>4, <2>6 DEF WholeBlock, Entry, size
<1>14. Append(S.h, last) = [i \in 1 .. ((n + 1) + 1) |-> IF i <= n + 1 THEN S.h[i] ELSE last]
  <2>1. S.h = [i \in 1 .. (n + 1) |-> S.h[i]]
    BY <1>3 DEF History
  <2> QED
    BY <1>9, <2>1, AppendIs
<1>15. ASSUME NEW i \in 1 .. ((n + 1) + 1)
       PROVE (IF i <= n + 1 THEN S.h[i] ELSE last) =
             IF i = 1 THEN P ELSE Entry(f, d, a, l, n + 1, i - 1)
  <2>1. CASE i <= n + 1
    <3>0. i \in 1 .. (n + 1)
      BY <1>1, <2>1
    <3>1. S.h[i] = IF i = 1 THEN P ELSE WholeBlock(f, d, i - 1)
      BY <1>3, <3>0 DEF History
    <3>2. i # 1 => i - 1 \in 1 .. n
      BY <1>1, <3>0
    <3>3. i # 1 => WholeBlock(f, d, i - 1) = Entry(f, d, a, l, n + 1, i - 1)
      BY <3>2, <1>13
    <3> QED
      BY <2>1, <3>1, <3>3
  <2>2. CASE ~(i <= n + 1)
    <3>1. i - 1 = n + 1 /\ i # 1
      BY <1>1, <2>2
    <3> QED
      BY <1>12, <2>2, <3>1
  <2> QED
    BY <2>1, <2>2
<1>16. Append(S.h, last) = HashOf(f, P, l, d)
  <2>1. n = Wholes(f, a)
    BY DEF n
  <2>2. HashOf(f, P, l, d) =
           [i \in 1 .. ((n + 1) + 1) |-> IF i = 1 THEN P ELSE Entry(f, d, a, l, n + 1, i - 1)]
    BY <2>1, HashOfIs
  <2> QED
    BY <1>14, <1>15, <2>2
<1> HIDE DEF f1
<1>17. T.h = HashOf(f, P, l, d) /\ T.f0 = TRUE /\ IsState(T) /\ T.buflen = S.buflen /\ T.buf = padded
  BY <1>4, <1>16 DEF IsState
<1> QED
  BY <1>8, <1>17 DEF T, size, Complete

\* Two rows joined: the first is where it was, the second follows it.
LEMMA JoinIs ==
  ASSUME NEW s, NEW n, Row(s, n), NEW t, NEW m, Row(t, m)
  PROVE  /\ Row(s \o t, n + m)
         /\ Agree(s, s \o t, n)
         /\ Slice(t, s \o t, n, m)
<1> DEFINE H == {s[i] : i \in 1 .. n} \cup {t[i] : i \in 1 .. m}
           u == s \o t
<1>1. n \in Nat /\ Len(s) = n /\ m \in Nat /\ Len(t) = m
  BY RowIs DEF Row
<1>2. s \in Seq(H)
  <2>1. s \in Seq({s[i] : i \in 1 .. n})
    BY RowIs
  <2> QED
    BY <2>1, SeqMonotonic
<1>3. t \in Seq(H)
  <2>1. t \in Seq({t[i] : i \in 1 .. m})
    BY RowIs
  <2> QED
    BY <2>1, SeqMonotonic
<1> HIDE DEF H
<1>4. u \in Seq(H) /\ Len(u) = Len(s) + Len(t)
      /\ \A i \in 1 .. Len(s) + Len(t) : u[i] = IF i <= Len(s) THEN s[i] ELSE t[i - Len(s)]
  BY <1>2, <1>3, ConcatProperties
<1> HIDE DEF u
<1>5. Len(u) = n + m
  BY <1>1, <1>4
<1>6. Row(u, n + m)
  BY <1>4, <1>5, RowOf
<1>7. ASSUME NEW i \in 1 .. (n + m) PROVE u[i] = IF i <= n THEN s[i] ELSE t[i - n]
  BY <1>1, <1>4
<1>8. ASSUME NEW i \in 1 .. n PROVE s[i] = u[i]
  <2>1. i \in 1 .. (n + m) /\ i <= n
    BY <1>1
  <2> QED
    BY <2>1, <1>7
<1>9. ASSUME NEW i \in 1 .. m PROVE t[i] = u[n + i]
  <2>1. n + i \in 1 .. (n + m) /\ ~(n + i <= n) /\ (n + i) - n = i
    BY <1>1
  <2> QED
    BY <2>1, <1>7
<1> QED
  BY <1>6, <1>8, <1>9 DEF Agree, Slice, u

\* What a state has taken depends on those bytes alone.
LEMMA AbsorbedSame ==
  ASSUME NEW f \in Family, NEW P, NEW d, NEW a \in Nat, NEW o, NEW l, NEW S,
         Absorbed(f, S, P, d, a, o, l), NEW e, Agree(d, e, a)
  PROVE  Absorbed(f, S, P, e, a, o, l)
<1> DEFINE n == Wholes(f, a)
           c == n * BLOCKBYTES[f]
<1>1. n \in Nat /\ c \in Nat /\ c <= a
  BY WholesIs
<1>2. Counted(f, S, P, d, n, o, l) /\ Row(S.buf, BLOCKBYTES[f]) /\ S.buflen = a - c
      /\ \A p \in 1 .. S.buflen : S.buf[p] = d[c + p]
  BY DEF Absorbed
<1>3. Counted(f, S, P, e, n, o, l)
  <2> HIDE DEF n
  <2> QED
    BY <1>1, <1>2, CountedSame
<1> HIDE DEF c, n
<1>4. ASSUME NEW p \in 1 .. S.buflen PROVE S.buf[p] = e[c + p]
  <2>1. c + p \in 1 .. a
    BY <1>1, <1>2
  <2>2. d[c + p] = e[c + p]
    BY <2>1, Zenon DEF Agree
  <2> QED
    BY <1>2, <2>2
<1> QED
  BY <1>2, <1>3, <1>4 DEF Absorbed, c, n

\* A state no input was given to.
LEMMA FreshAbsorbed ==
  ASSUME NEW f \in Family, NEW P, NEW S, IsState(S),
         S.h = <<P>>, S.t0 = 0, S.t1 = 0, S.f0 = FALSE, S.f1 = FALSE,
         S.buf = Zeros(BLOCKBYTES[f]), S.buflen = 0, NEW d
  PROVE  Absorbed(f, S, P, d, 0, S.outlen, S.last_node)
<1>1. Wholes(f, 0) = 0 /\ 0 * BLOCKBYTES[f] = 0 /\ BLOCKBYTES[f] \in Nat \ {0} /\ WORD[f] \in Nat \ {0}
  BY Constants DEF Wholes
<1>2. Low(f, 0) = 0 /\ High(f, 0) = 0
  <2> DEFINE W == WORD[f]
  <2>1. W \in Nat \ {0}
    BY <1>1
  <2> HIDE DEF W
  <2>2. (0 * W + 0) \div W = 0 /\ (0 * W + 0) % W = 0
    BY <2>1, DivUnique
  <2>3. 0 * W + 0 = 0
    BY <2>1
  <2> QED
    BY <2>2, <2>3 DEF Low, High, W
<1>3. <<P>> = History(f, P, d, 0)
  <2>1. \A i \in 1 .. (0 + 1) : i = 1
    OBVIOUS
  <2>2. History(f, P, d, 0) = [i \in 1 .. 1 |-> P]
    BY <2>1 DEF History
  <2> QED
    BY <2>2
<1>4. Row(S.buf, BLOCKBYTES[f])
  BY <1>1 DEF Row, Zeros
<1>5. Counted(f, S, P, d, Wholes(f, 0), S.outlen, S.last_node)
  BY <1>1, <1>2, <1>3 DEF Counted
<1>6. S.buflen = 0 - Wholes(f, 0) * BLOCKBYTES[f]
  BY <1>1
<1>7. \A p \in 1 .. S.buflen : S.buf[p] = d[Wholes(f, 0) * BLOCKBYTES[f] + p]
  OBVIOUS
<1> QED
  BY <1>4, <1>5, <1>6, <1>7 DEF Absorbed

\* init_param gives a state that has taken nothing.
LEMMA InitAbsorbed ==
  ASSUME NEW f \in Family, NEW P, NEW d
  PROVE  /\ Absorbed(f, init_param(f, P), P, d, 0, P.digest_length, FALSE)
         /\ IsState(init_param(f, P))
<1> DEFINE S == init_param(f, P)
<1>1. /\ IsState(S) /\ S.h = <<P>> /\ S.t0 = 0 /\ S.t1 = 0 /\ S.f0 = FALSE /\ S.f1 = FALSE
      /\ S.buf = Zeros(BLOCKBYTES[f]) /\ S.buflen = 0
      /\ S.outlen = P.digest_length /\ S.last_node = FALSE
  BY DEF init_param, IsState
<1> HIDE DEF S
<1>2. Absorbed(f, S, P, d, 0, S.outlen, S.last_node)
  BY <1>1, FreshAbsorbed
<1> QED
  BY <1>1, <1>2 DEF S

\* The key block, and how many bytes it puts before the input.
KeyPart(f, key) == IF key = <<>> THEN <<>> ELSE KeyBlock(f, key)
KeyLen(f, key) == IF key = <<>> THEN 0 ELSE BLOCKBYTES[f]

\* It is empty or a block.
LEMMA KeyPartIs ==
  ASSUME NEW f \in Family, NEW key, Row(key, Len(key))
  PROVE  /\ KeyLen(f, key) \in Nat
         /\ Row(KeyPart(f, key), KeyLen(f, key))
<1>1. BLOCKBYTES[f] \in Nat
  BY Constants
<1>2. CASE key = <<>>
  <2>1. Row(<<>>, 0)
    BY DEF Row
  <2> QED
    BY <1>2, <2>1 DEF KeyPart, KeyLen
<1>3. CASE key # <<>>
  <2> DEFINE size == BLOCKBYTES[f]
             z == Zeros(size)
             k == Len(key)
  <2>1. Row(z, size) /\ Row(key, k)
    BY <1>1 DEF Zeros, Row
  <2> HIDE DEF z, k, size
  <2>2. Spliced(Overwrite(z, 0, key), size, z, 0, key, k)
    BY <2>1, OverwriteIs
  <2>3. Row(KeyBlock(f, key), size)
    BY <2>2 DEF Spliced, KeyBlock, z, size
  <2> QED
    BY <1>1, <1>3, <2>3 DEF KeyPart, KeyLen, size
<1> QED
  BY <1>2, <1>3

\* The keyed input is the key's block and then the input.
LEMMA KeyedIs ==
  ASSUME NEW f \in Family, NEW key, Row(key, Len(key)), NEW msg, NEW m, Row(msg, m)
  PROVE  /\ Row(Keyed(f, key, msg), KeyLen(f, key) + m)
         /\ Agree(KeyPart(f, key), Keyed(f, key, msg), KeyLen(f, key))
         /\ Slice(msg, Keyed(f, key, msg), KeyLen(f, key), m)
<1>1. Keyed(f, key, msg) = KeyPart(f, key) \o msg
  BY DEF Keyed, KeyPart
<1> DEFINE s == KeyPart(f, key)
           n == KeyLen(f, key)
           u == s \o msg
<1>2. Row(s, n)
  BY KeyPartIs
<1> HIDE DEF s, n
<1>3. Row(u, n + m) /\ Agree(s, u, n) /\ Slice(msg, u, n, m)
  BY <1>2, JoinIs
<1> QED
  BY <1>1, <1>3 DEF s, n

\* What extends the input extends the keyed input.
LEMMA KeyedExtends ==
  ASSUME NEW f \in Family, NEW key, Row(key, Len(key)), NEW msg, NEW m, Row(msg, m),
         NEW e, NEW k \in Nat, Row(e, m + k), Agree(msg, e, m), NEW in, Slice(in, e, m, k)
  PROVE  /\ Agree(Keyed(f, key, msg), Keyed(f, key, e), KeyLen(f, key) + m)
         /\ Slice(in, Keyed(f, key, e), KeyLen(f, key) + m, k)
<1> DEFINE n == KeyLen(f, key)
           d1 == Keyed(f, key, msg)
           d2 == Keyed(f, key, e)
           s == KeyPart(f, key)
           me == m + k
<1>1. n \in Nat /\ m \in Nat /\ Row(s, n)
  BY KeyPartIs DEF Row
<1>2. Row(d1, n + m) /\ Agree(s, d1, n) /\ Slice(msg, d1, n, m)
  BY KeyedIs
<1>3. Row(e, me)
  OBVIOUS
<1> HIDE DEF me
<1>4. Row(d2, n + me) /\ Agree(s, d2, n) /\ Slice(e, d2, n, me)
  BY <1>3, KeyedIs
<1> HIDE DEF n, d1, d2, s
<1>5. ASSUME NEW i \in 1 .. (n + m) PROVE d1[i] = d2[i]
  <2>1. CASE i <= n
    <3>1. i \in 1 .. n
      BY <1>1, <2>1
    <3>2. s[i] = d1[i] /\ s[i] = d2[i]
      BY <1>2, <1>4, <3>1, Zenon DEF Agree
    <3> QED
      BY <3>2
  <2>2. CASE ~(i <= n)
    <3>1. i - n \in 1 .. m /\ i - n \in 1 .. me /\ n + (i - n) = i
      BY <1>1, <2>2 DEF me
    <3>2. msg[i - n] = d1[n + (i - n)]
      BY <1>2, <3>1 DEF Slice
    <3>3. e[i - n] = d2[n + (i - n)]
      BY <1>4, <3>1 DEF Slice
    <3>4. msg[i - n] = e[i - n]
      BY <3>1, Zenon DEF Agree
    <3> QED
      BY <3>1, <3>2, <3>3, <3>4
  <2> QED
    BY <2>1, <2>2
<1>6. Slice(in, d2, n + m, k)
  <2>1. m + k <= me
    BY <1>1 DEF me
  <2> QED
    BY <1>1, <1>4, <2>1, SliceOfSlice
<1> QED
  BY <1>5, <1>6 DEF Agree, n, d1, d2

\* A state is ready for the input once it has taken the key block, if any.
Started(f, S, key) == IF key = <<>> THEN S ELSE update(f, S, KeyBlock(f, key))

\* Such a state has taken the key block of any keyed input.
LEMMA StartedAbsorbed ==
  ASSUME NEW f \in Family, NEW P, NEW d, NEW o, NEW l, NEW S,
         Absorbed(f, S, P, d, 0, o, l), NEW key, Row(key, Len(key)), NEW msg, NEW m, Row(msg, m)
  PROVE  Absorbed(f, Started(f, S, key), P, Keyed(f, key, msg), KeyLen(f, key), o, l)
<1> DEFINE s == KeyPart(f, key)
           n == KeyLen(f, key)
           e == Keyed(f, key, msg)
<1>1. n \in Nat /\ Row(s, n)
  BY KeyPartIs
<1>2. Agree(s, e, n)
  BY KeyedIs
<1>3. Agree(d, s, 0)
  BY DEF Agree
<1>4. CASE key = <<>>
  <2>1. n = 0
    BY <1>4 DEF KeyLen
  <2>2. Started(f, S, key) = S
    BY <1>4 DEF Started
  <2>3. Agree(d, e, 0)
    BY DEF Agree
  <2> HIDE DEF n, e
  <2>4. Absorbed(f, S, P, e, 0, o, l)
    BY <2>3, AbsorbedSame
  <2> QED
    BY <2>1, <2>2, <2>4 DEF n, e
<1>5. CASE key # <<>>
  <2>1. s = KeyBlock(f, key)
    BY <1>5 DEF KeyPart
  <2>2. Started(f, S, key) = update(f, S, s)
    BY <1>5, <2>1 DEF Started
  <2> HIDE DEF n, e, s
  <2>3. Slice(s, s, 0, n)
    <3>1. \A i \in 1 .. n : 0 + i = i
      BY <1>1
    <3> QED
      BY <1>1, <3>1 DEF Slice
  <2>4. Absorbed(f, update(f, S, s), P, s, 0 + n, o, l)
    BY <1>3, <2>3, UpdateAbsorbs
  <2>5. 0 + n = n
    BY <1>1
  <2>6. Absorbed(f, update(f, S, s), P, s, n, o, l)
    BY <2>4, <2>5
  <2>7. Absorbed(f, update(f, S, s), P, e, n, o, l)
    BY <1>1, <1>2, <2>6, AbsorbedSame
  <2> QED
    BY <2>2, <2>7 DEF n, e
<1> QED
  BY <1>4, <1>5

\* Pieces of one size, in order.
Lined(pieces, n, e, a, z) ==
  \A j \in 1 .. n : Slice(pieces[j], e, a + (j - 1) * z, z)

\* Updates with pieces that lie one behind the other take them all.
LEMMA UpdatesAbsorb ==
  ASSUME NEW f \in Family, NEW P, NEW e, NEW a \in Nat, NEW o, NEW l, NEW S,
         Absorbed(f, S, P, e, a, o, l), NEW pieces, NEW n, Row(pieces, n), NEW z \in Nat,
         Lined(pieces, n, e, a, z)
  PROVE  Absorbed(f, updates(f, S, pieces), P, e, a + n * z, o, l)
<1>0. Len(pieces) = n /\ n \in Nat
  BY RowIs DEF Row
<1>1. PICK g : /\ IsLoop(g, "pieces", f, S, pieces, Len(pieces))
               /\ updates(f, S, pieces) = g[Len(pieces)]
  BY <1>0, UpdatesIsLoop
<1>2. IsLoop(g, "pieces", f, S, pieces, n) /\ updates(f, S, pieces) = g[n]
  BY <1>0, <1>1
<1>3. g[0] = S /\ \A j \in 0 .. (n - 1) : g[j + 1] = Step("pieces", f, g[j], pieces, j + 1)
  <2>1. Runs(g, "pieces", f, S, pieces, n)
    BY <1>0, <1>2, LoopRuns
  <2> QED
    BY <2>1 DEF Runs
<1> DEFINE Fine(j) == Absorbed(f, g[j], P, e, a + j * z, o, l)
           Good == {j \in Nat : j <= n => Fine(j)}
<1>4. 0 \in Good
  <2>1. a + 0 * z = a
    OBVIOUS
  <2> QED
    BY <1>3, <2>1
<1>5. ASSUME NEW j \in Good PROVE j + 1 \in Good
  <2> SUFFICES ASSUME j + 1 <= n PROVE Fine(j + 1)
    OBVIOUS
  <2>1. j \in Nat /\ j <= n /\ j \in 0 .. (n - 1) /\ (j + 1) - 1 = j /\ j + 1 \in 1 .. n
    BY <1>0
  <2> DEFINE x == j * z
             y == a + x
             in == pieces[j + 1]
  <2>2. x \in Nat /\ (j + 1) * z = x + z
    BY <2>1, TimesNext
  <2>3. y \in Nat /\ a + (j + 1) * z = y + z
    <3> HIDE DEF x
    <3> QED
      BY <2>2
  <2>4. Absorbed(f, g[j], P, e, y, o, l)
    BY <2>1
  <2>5. Slice(in, e, y, z)
    <3>1. Slice(pieces[j + 1], e, a + ((j + 1) - 1) * z, z)
      BY <2>1, Zenon DEF Lined
    <3>2. a + ((j + 1) - 1) * z = y
      BY <2>1
    <3> QED
      BY <3>1, <3>2
  <2>6. g[j + 1] = update(f, g[j], in)
    BY <1>3, <2>1 DEF Step
  <2>7. Agree(e, e, y)
    BY DEF Agree
  <2> HIDE DEF x, y, in
  <2>8. Absorbed(f, update(f, g[j], in), P, e, y + z, o, l)
    BY <2>3, <2>4, <2>5, <2>7, UpdateAbsorbs
  <2> QED
    BY <2>3, <2>6, <2>8
<1> HIDE DEF Good
<1>6. Good \in SUBSET Nat
  BY DEF Good
<1>7. n \in Good
  BY <1>0, <1>4, <1>5, <1>6, InductionOn
<1>8. Fine(n)
  BY <1>0, <1>7 DEF Good
<1> QED
  BY <1>2, <1>8

\* A state that has been finished, and whatever is put into it after that.
Spent(f, S) == IsState(S) /\ S.f0 = TRUE /\ S.buflen \in 0 .. BLOCKBYTES[f]

\* How many bytes a final writes: blake2b as many as the state was made for.
Written(f, o, outlen) == IF f = "b" THEN o ELSE outlen

\* A state that has taken d answers the digest of d, if it is asked for enough bytes,
LEMMA FinalHashes ==
  ASSUME NEW f \in Family, NEW P, NEW d, NEW a, Row(d, a), NEW o \in Nat, NEW l \in BOOLEAN, NEW S,
         Absorbed(f, S, P, d, a, o, l), NEW outlen \in Nat, outlen >= o
  PROVE  /\ final(f, S, outlen).ret = 0
         /\ Spent(f, final(f, S, outlen).S)
         /\ final(f, S, outlen).out = Digest(HashOf(f, P, l, d), Written(f, o, outlen))
<1> DEFINE T == LastBlock(f, S)
           n == Wholes(f, a)
           c == n * BLOCKBYTES[f]
<1>1. T.h = HashOf(f, P, l, d) /\ T.f0 = TRUE /\ IsState(T) /\ T.buflen = S.buflen
      /\ Row(T.buf, BLOCKBYTES[f])
  <2>1. Complete(T, f, P, d, l, S)
    BY LastBlockHashes, Zenon
  <2> HIDE DEF T
  <2> QED
    BY <2>1 DEF Complete
<1>2. S.f0 = FALSE /\ S.outlen = o
  BY DEF Absorbed, Counted
<1>3. S.buflen \in 0 .. BLOCKBYTES[f]
  <2>1. S.buflen = a - c /\ a \in Nat
    BY DEF Absorbed, Row
  <2>2. c \in Nat /\ c <= a /\ a <= c + BLOCKBYTES[f] /\ BLOCKBYTES[f] \in Nat
    BY <2>1, Constants, WholesIs
  <2> HIDE DEF c
  <2> QED
    BY <2>1, <2>2
<1>4. CanFinish(S, outlen)
  BY <1>2 DEF CanFinish, is_lastblock
<1> HIDE DEF T
<1>5. Spent(f, T)
  BY <1>1, <1>3 DEF Spent
<1>6. CASE f = "b"
  <2>1. final(f, S, outlen) = [ret |-> 0, S |-> T, out |-> Digest(T.h, S.outlen)]
    BY <1>4, <1>6 DEF final, blake2b_final, T
  <2> QED
    BY <1>1, <1>2, <1>5, <1>6, <2>1 DEF Written
<1>7. CASE f = "s"
  <2>1. final(f, S, outlen) = [ret |-> 0, S |-> T, out |-> Digest(T.h, outlen)]
    BY <1>4, <1>7 DEF final, blake2s_final, T
  <2> QED
    BY <1>1, <1>2, <1>5, <1>7, <2>1 DEF Written
<1> QED
  BY <1>6, <1>7 DEF Family

\* and is left as it is if not, or if it has answered.
LEMMA FinalRefuses ==
  ASSUME NEW f \in Family, NEW S, NEW outlen, ~CanFinish(S, outlen)
  PROVE  final(f, S, outlen) = Refused(S)
<1>1. CASE f = "b"
  BY <1>1 DEF final, blake2b_final
<1>2. CASE f = "s"
  BY <1>2 DEF final, blake2s_final
<1> QED
  BY <1>1, <1>2 DEF Family

Stripe(f) == DEGREE[f] * BLOCKBYTES[f]

\* Where byte k of leaf i's share of the input stands in the input.
Place(f, i, k) ==
  ((k - 1) \div BLOCKBYTES[f]) * Stripe(f) + (i - 1) * BLOCKBYTES[f]
    + ((k - 1) % BLOCKBYTES[f]) + 1

\* The first n bytes of that share.
Blocks(f, i, m, n) == [k \in 1 .. n |-> m[Place(f, i, k)]]

\* A leaf's block lies in the stripe.
LEMMA LeafNumbers ==
  ASSUME NEW f \in Family, NEW i \in Leaves(f)
  PROVE  /\ BLOCKBYTES[f] \in Nat \ {0}
         /\ Stripe(f) \in Nat \ {0}
         /\ (i - 1) * BLOCKBYTES[f] \in Nat
         /\ (i - 1) * BLOCKBYTES[f] + BLOCKBYTES[f] <= Stripe(f)
<1> DEFINE size == BLOCKBYTES[f]
           D == DEGREE[f]
<1>1. size \in Nat \ {0} /\ D \in Nat \ {0} /\ i \in 1 .. D
  BY Constants DEF Leaves
<1>2. Stripe(f) = D * size
  BY DEF Stripe
<1> HIDE DEF size, D
<1>3. D * size \in Nat \ {0}
  BY <1>1
<1>4. i - 1 \in Nat /\ (i - 1) + 1 = i
  BY <1>1
<1>5. (i - 1) * size \in Nat /\ i * size = (i - 1) * size + size
  BY <1>1, <1>4, TimesNext
<1>6. i * size <= D * size
  BY <1>1
<1> QED
  BY <1>1, <1>2, <1>3, <1>5, <1>6 DEF size

\* The place of byte p of block q + 1.
LEMMA PlaceOf ==
  ASSUME NEW f \in Family, NEW i \in Leaves(f), NEW q \in Nat, NEW p \in 1 .. BLOCKBYTES[f]
  PROVE  Place(f, i, q * BLOCKBYTES[f] + p) = q * Stripe(f) + (i - 1) * BLOCKBYTES[f] + p
<1> DEFINE size == BLOCKBYTES[f]
           s == Stripe(f)
           b == (i - 1) * size
           k == q * size + p
<1>1. size \in Nat \ {0} /\ s \in Nat /\ b \in Nat
  BY LeafNumbers
<1>2. p \in 1 .. size /\ q * size \in Nat /\ p - 1 \in Nat /\ p - 1 < size
  BY <1>1, TimesNext
<1>3. Place(f, i, k) = ((k - 1) \div size) * s + b + ((k - 1) % size) + 1
  BY DEF Place
<1> HIDE DEF size, s, b
<1>4. k - 1 = q * size + (p - 1)
  BY <1>1, <1>2
<1>5. (q * size + (p - 1)) \div size = q /\ (q * size + (p - 1)) % size = p - 1
  BY <1>1, <1>2, DivUnique
<1> HIDE DEF k
<1>6. Place(f, i, k) = q * s + b + (p - 1) + 1
  BY <1>3, <1>4, <1>5
<1>7. q * s \in Nat
  BY <1>1
<1>8. q * s + b + (p - 1) + 1 = q * s + b + p
  BY <1>1, <1>2, <1>7
<1> QED
  BY <1>6, <1>8 DEF k, size, s, b

\* The first q blocks of a leaf's share lie in the first q stripes.
LEMMA PlaceBound ==
  ASSUME NEW f \in Family, NEW i \in Leaves(f), NEW q \in Nat,
         NEW k \in 1 .. (q * BLOCKBYTES[f])
  PROVE  Place(f, i, k) \in 1 .. (q * Stripe(f))
<1> DEFINE size == BLOCKBYTES[f]
           s == Stripe(f)
           b == (i - 1) * size
           x == (k - 1) \div size
           y == (k - 1) % size
           w == q * size
<1>1. size \in Nat \ {0} /\ s \in Nat /\ b \in Nat /\ b + size <= s /\ w \in Nat
  BY LeafNumbers, TimesNext
<1>2. k \in 1 .. w
  OBVIOUS
<1>3. Place(f, i, k) = x * s + b + y + 1
  BY DEF Place
<1> HIDE DEF size, s, b, w
<1>4. k - 1 \in Nat
  BY <1>1, <1>2
<1>5. x \in Nat /\ y \in Nat /\ y < size /\ k - 1 = x * size + y
  BY <1>1, <1>4, DivMod
<1> HIDE DEF x, y
<1> DEFINE xs == x * size
<1>6. xs \in Nat /\ xs < w
  <2>1. xs \in Nat
    BY <1>1, <1>5
  <2> HIDE DEF xs
  <2>2. k - 1 = xs + y
    BY <1>5 DEF xs
  <2> QED
    BY <1>1, <1>2, <1>5, <2>1, <2>2
<1>7. x < q
  <2>1. SUFFICES ASSUME x >= q PROVE FALSE
    BY <1>5
  <2>2. xs >= w
    BY <1>1, <1>5, <2>1 DEF w
  <2> HIDE DEF xs
  <2> QED
    BY <1>1, <1>6, <2>2
<1>8. (x + 1) * s <= q * s /\ (x + 1) * s = x * s + s /\ x * s \in Nat /\ q * s \in Nat
  BY <1>1, <1>5, <1>7, TimesNext
<1> DEFINE xq == x * s
           qs == q * s
<1>9. xq \in Nat /\ qs \in Nat /\ xq + s <= qs
  BY <1>8
<1> HIDE DEF xq, qs
<1>10. xq + b + y + 1 \in 1 .. qs
  BY <1>1, <1>5, <1>9
<1> QED
  BY <1>3, <1>10 DEF xq, qs, s

\* Leaf i's block of stripe q + 1 stands at the end of the first q blocks of its share.
LEMMA BlocksSlice ==
  ASSUME NEW f \in Family, NEW i \in Leaves(f), NEW m, NEW q \in Nat, NEW k \in Nat,
         k <= BLOCKBYTES[f], NEW in, Slice(in, m, q * Stripe(f) + (i - 1) * BLOCKBYTES[f], k),
         NEW n \in Nat, q * BLOCKBYTES[f] + k <= n
  PROVE  Slice(in, Blocks(f, i, m, n), q * BLOCKBYTES[f], k)
<1> DEFINE size == BLOCKBYTES[f]
           c == q * size
           x == q * Stripe(f) + (i - 1) * size
<1>1. size \in Nat \ {0} /\ c \in Nat
  BY LeafNumbers, TimesNext
<1>2. ASSUME NEW p \in 1 .. k PROVE in[p] = Blocks(f, i, m, n)[c + p]
  <2>1. p \in 1 .. size
    BY <1>1
  <2>2. Place(f, i, c + p) = x + p
    BY <2>1, PlaceOf
  <2>3. in[p] = m[x + p]
    <3> HIDE DEF x
    <3>1. Slice(in, m, x, k)
      BY DEF x
    <3> QED
      BY <3>1 DEF Slice
  <2>4. c + k <= n
    OBVIOUS
  <2> HIDE DEF c, x
  <2>5. c + p \in 1 .. n
    BY <1>1, <2>4
  <2> QED
    BY <2>2, <2>3, <2>5 DEF Blocks
<1>3. Row(in, k)
  BY DEF Slice
<1> QED
  BY <1>2, <1>3 DEF Slice

\* Inputs with the same first q stripes have the same first q blocks for each leaf.
LEMMA BlocksAgree ==
  ASSUME NEW f \in Family, NEW i \in Leaves(f), NEW q \in Nat, NEW m, NEW e,
         Agree(m, e, q * Stripe(f)), NEW x \in Nat, NEW y \in Nat,
         q * BLOCKBYTES[f] <= x, q * BLOCKBYTES[f] <= y
  PROVE  Agree(Blocks(f, i, m, x), Blocks(f, i, e, y), q * BLOCKBYTES[f])
<1> DEFINE c == q * BLOCKBYTES[f]
<1>1. c \in Nat /\ c <= x /\ c <= y
  BY LeafNumbers, TimesNext
<1>2. ASSUME NEW k \in 1 .. c PROVE Blocks(f, i, m, x)[k] = Blocks(f, i, e, y)[k]
  <2>1. Place(f, i, k) \in 1 .. (q * Stripe(f))
    BY PlaceBound
  <2>2. m[Place(f, i, k)] = e[Place(f, i, k)]
    BY <2>1, Zenon DEF Agree
  <2> HIDE DEF c
  <2>3. k \in 1 .. x /\ k \in 1 .. y
    BY <1>1
  <2> QED
    BY <2>2, <2>3 DEF Blocks
<1> QED
  BY <1>2 DEF Agree

\* A share is a row.
LEMMA BlocksRow ==
  ASSUME NEW f, NEW i, NEW m, NEW n \in Nat
  PROVE  Row(Blocks(f, i, m, n), n)
BY DEF Blocks, Row

\* Leaf i has taken its key block and the first n bytes of its share of m.
LeafHas(f, S, P, key, i, m, n, o, l) ==
  Absorbed(f, S, P, Keyed(f, key, Blocks(f, i, m, n)), KeyLen(f, key) + n, o, l)

\* What a leaf has taken of q stripes depends on those stripes alone.
LEMMA LeafSame ==
  ASSUME NEW f \in Family, NEW i \in Leaves(f), NEW P, NEW key, Row(key, Len(key)),
         NEW q \in Nat, NEW m, NEW e, Agree(m, e, q * Stripe(f)), NEW o, NEW l, NEW S,
         LeafHas(f, S, P, key, i, m, q * BLOCKBYTES[f], o, l)
  PROVE  LeafHas(f, S, P, key, i, e, q * BLOCKBYTES[f], o, l)
<1> DEFINE n == q * BLOCKBYTES[f]
           B == Blocks(f, i, m, n)
           C == Blocks(f, i, e, n)
           a == KeyLen(f, key) + n
<1>1. n \in Nat /\ n <= n /\ KeyLen(f, key) \in Nat /\ BLOCKBYTES[f] \in Nat
  BY LeafNumbers, TimesNext, KeyPartIs
<1>2. Agree(B, C, n)
  BY <1>1, BlocksAgree
<1>3. Row(B, n) /\ Row(C, n + 0)
  BY <1>1, BlocksRow
<1>4. Absorbed(f, S, P, Keyed(f, key, B), a, o, l)
  BY DEF LeafHas
<1>5. Slice(<<>>, C, n, 0)
  BY DEF Slice, Row
<1> HIDE DEF B, C, n
<1>6. Agree(Keyed(f, key, B), Keyed(f, key, C), a)
  BY <1>1, <1>2, <1>3, <1>5, KeyedExtends
<1>7. a \in Nat
  BY <1>1
<1> HIDE DEF a
<1>8. Absorbed(f, S, P, Keyed(f, key, C), a, o, l)
  BY <1>4, <1>6, <1>7, AbsorbedSame
<1> QED
  BY <1>8 DEF LeafHas, a, n, C

\* A leaf takes its block, or the beginning of it, of the stripe that follows.
LEMMA LeafTakes ==
  ASSUME NEW f \in Family, NEW i \in Leaves(f), NEW P, NEW key, Row(key, Len(key)),
         NEW q \in Nat, NEW m, NEW o, NEW l, NEW S,
         LeafHas(f, S, P, key, i, m, q * BLOCKBYTES[f], o, l),
         NEW e, Agree(m, e, q * Stripe(f)), NEW k \in Nat, k <= BLOCKBYTES[f],
         NEW in, Slice(in, e, q * Stripe(f) + (i - 1) * BLOCKBYTES[f], k)
  PROVE  LeafHas(f, update(f, S, in), P, key, i, e, q * BLOCKBYTES[f] + k, o, l)
<1> DEFINE n == q * BLOCKBYTES[f]
           B == Blocks(f, i, m, n)
           C == Blocks(f, i, e, n + k)
           a == KeyLen(f, key) + n
<1>1. n \in Nat /\ n <= n /\ n <= n + k /\ n + k <= n + k /\ n + k \in Nat
      /\ KeyLen(f, key) \in Nat /\ BLOCKBYTES[f] \in Nat
  <2>1. n \in Nat /\ KeyLen(f, key) \in Nat /\ BLOCKBYTES[f] \in Nat
    BY LeafNumbers, TimesNext, KeyPartIs
  <2> HIDE DEF n
  <2> QED
    BY <2>1
<1>2. Agree(B, C, n)
  BY <1>1, BlocksAgree
<1>3. Row(B, n) /\ Row(C, n + k)
  BY <1>1, BlocksRow
<1>4. Absorbed(f, S, P, Keyed(f, key, B), a, o, l)
  BY DEF LeafHas
<1>5. Slice(in, C, n, k)
  BY <1>1, BlocksSlice
<1> HIDE DEF B, C, n
<1>6. Agree(Keyed(f, key, B), Keyed(f, key, C), a) /\ Slice(in, Keyed(f, key, C), a, k)
  BY <1>1, <1>2, <1>3, <1>5, KeyedExtends
<1>7. a \in Nat /\ a + k = KeyLen(f, key) + (n + k)
  BY <1>1
<1> HIDE DEF a
<1>8. Absorbed(f, update(f, S, in), P, Keyed(f, key, C), a + k, o, l)
  BY <1>4, <1>6, <1>7, UpdateAbsorbs
<1> QED
  BY <1>7, <1>8 DEF LeafHas, C, n

\* Block i of stripe j of in, where in stands in e behind q stripes.
LEMMA BlockOfIs ==
  ASSUME NEW f \in Family, NEW i \in Leaves(f), NEW q \in Nat, NEW e, NEW r,
         NEW in, Slice(in, e, q * Stripe(f), r), NEW w \in Nat, w * Stripe(f) <= r,
         NEW j \in 1 .. w
  PROVE  Slice(BlockOf(f, in, j, i), e,
               (q + (j - 1)) * Stripe(f) + (i - 1) * BLOCKBYTES[f], BLOCKBYTES[f])
<1> DEFINE size == BLOCKBYTES[f]
           s == Stripe(f)
           b == (i - 1) * size
           u == (j - 1) * s
           from == u + b
           qs == q * s
           ws == w * s
<1>1. size \in Nat \ {0} /\ s \in Nat /\ b \in Nat /\ b + size <= s
  BY LeafNumbers
<1>2. r \in Nat /\ Row(in, r)
  BY DEF Slice, Row
<1>3. BlockOf(f, in, j, i) = SubSeq(in, from + 1, from + size)
  BY DEF BlockOf, Stripe
<1>4. ws <= r /\ Slice(in, e, qs, r)
  OBVIOUS
<1> HIDE DEF size, s, b
<1>5. u \in Nat /\ j * s = u + s
  <2>1. j - 1 \in Nat /\ (j - 1) + 1 = j
    OBVIOUS
  <2> QED
    BY <1>1, <2>1, TimesNext
<1>6. j * s <= ws /\ ws \in Nat /\ qs \in Nat
  BY <1>1
<1>7. (q + (j - 1)) * s = qs + u
  BY <1>1, <1>5
<1> HIDE DEF u, ws, qs
<1>8. from \in Nat /\ from + size \in Nat /\ from <= from + size /\ from + size <= r
      /\ (from + size) - from = size /\ size \in Nat
  BY <1>1, <1>2, <1>4, <1>5, <1>6
<1>9. qs + from = (q + (j - 1)) * s + b
  BY <1>1, <1>5, <1>6, <1>7
<1> HIDE DEF from
<1>10. Slice(SubSeq(in, from + 1, from + size), in, from, size)
  <2> DEFINE t == from + size
  <2>1. t \in Nat /\ from <= t /\ t <= r /\ t - from = size
    BY <1>8
  <2> HIDE DEF t
  <2>2. Slice(SubSeq(in, from + 1, t), in, from, t - from)
    BY <1>2, <1>8, <2>1, SliceIs
  <2> QED
    BY <2>1, <2>2 DEF t
<1>11. Slice(SubSeq(in, from + 1, from + size), e, qs + from, size)
  BY <1>4, <1>6, <1>8, <1>10, SliceOfSlice
<1> QED
  BY <1>3, <1>9, <1>11 DEF size, s, b

\* A leaf takes its block of each of the w stripes of in.
LEMMA SpreadTakes ==
  ASSUME NEW f \in Family, NEW i \in Leaves(f), NEW P, NEW key, Row(key, Len(key)),
         NEW q \in Nat, NEW e, NEW o, NEW l, NEW S,
         LeafHas(f, S, P, key, i, e, q * BLOCKBYTES[f], o, l),
         NEW r, NEW in, Slice(in, e, q * Stripe(f), r), NEW w, w = r \div Stripe(f)
  PROVE  LeafHas(f, Spread(f, S, i, in), P, key, i, e, (q + w) * BLOCKBYTES[f], o, l)
<1> DEFINE size == BLOCKBYTES[f]
           s == Stripe(f)
           n == (q + w) * size
           K == KeyLen(f, key)
           C == Blocks(f, i, e, n)
           D == Keyed(f, key, C)
           a == K + q * size
           pieces == [j \in 1 .. w |-> BlockOf(f, in, j, i)]
<1>1. size \in Nat \ {0} /\ s \in Nat \ {0} /\ K \in Nat /\ r \in Nat /\ Row(in, r)
  BY LeafNumbers, KeyPartIs DEF Slice, Row
<1>2. w \in Nat /\ w * s <= r
  <2> DEFINE x == r % s
             ws == w * s
  <2> HIDE DEF s
  <2>1. w = r \div s
    BY DEF s
  <2>2. w \in Nat /\ x \in Nat /\ r = w * s + x
    BY <1>1, <2>1, DivMod
  <2>3. ws \in Nat
    BY <1>1, <2>2
  <2> HIDE DEF x, ws
  <2>4. r = ws + x
    BY <2>2 DEF ws
  <2>6. x \in Nat
    BY <2>2
  <2>5. ws <= r
    BY <2>3, <2>4, <2>6
  <2> QED
    BY <2>2, <2>5 DEF ws
<1>3. q * size \in Nat /\ n = q * size + w * size /\ w * size \in Nat /\ n \in Nat
  <2> HIDE DEF size
  <2> QED
    BY <1>1, <1>2
<1>4. Spread(f, S, i, in) = updates(f, S, pieces)
  <2>1. Len(in) = r
    BY <1>1, RowIs
  <2>2. w = r \div (DEGREE[f] * BLOCKBYTES[f])
    BY DEF Stripe
  <2> QED
    BY <2>1, <2>2 DEF Spread
<1>5. Absorbed(f, S, P, D, a, o, l)
  <2> DEFINE c == q * size
             B == Blocks(f, i, e, c)
  <2>1. Row(B, c)
    BY <1>3, BlocksRow
  <2>2. Agree(e, e, q * Stripe(f))
    BY DEF Agree
  <2>3. c <= c /\ c <= n /\ c \in Nat
    <3> HIDE DEF size
    <3> QED
      BY <1>1, <1>3
  <2>4. Agree(B, C, c)
    <3> HIDE DEF n
    <3> QED
      BY <1>3, <2>2, <2>3, BlocksAgree
  <2>5. Row(C, c + w * size)
    BY <1>3, BlocksRow
  <2>6. Slice(SubSeq(C, c + 1, c + w * size), C, c, w * size)
    <3> DEFINE z == w * size
               t == c + z
    <3>1. c \in Nat /\ t \in Nat /\ c <= t /\ t <= t /\ t - c = z /\ Row(C, t)
      BY <1>3, <2>5
    <3> HIDE DEF t, C, c, z
    <3>2. Slice(SubSeq(C, c + 1, t), C, c, t - c)
      BY <3>1, SliceIs
    <3> QED
      BY <3>1, <3>2 DEF t, z
  <2>7. Absorbed(f, S, P, Keyed(f, key, B), a, o, l)
    BY DEF LeafHas
  <2> HIDE DEF B, C, c, size
  <2>8. Agree(Keyed(f, key, B), D, K + c)
    BY <1>3, <2>1, <2>4, <2>5, <2>6, KeyedExtends
  <2>9. a = K + c /\ a \in Nat
    BY SMTT(40), <1>1, <1>3 DEF c
  <2> HIDE DEF a, D
  <2> QED
    BY <2>7, <2>8, <2>9, AbsorbedSame
<1>6. Row(pieces, w)
  BY <1>2 DEF Row
<1>7. ASSUME NEW j \in 1 .. w PROVE Slice(pieces[j], D, a + (j - 1) * size, size)
  <2> DEFINE piece == BlockOf(f, in, j, i)
             v == q + (j - 1)
             c == v * size
  <2>1. Slice(piece, e, v * Stripe(f) + (i - 1) * BLOCKBYTES[f], BLOCKBYTES[f])
    BY <1>2, BlockOfIs
  <2>2. v \in Nat /\ size \in Nat /\ size <= BLOCKBYTES[f] /\ v + 1 <= q + w
    BY <1>1, <1>2
  <2> HIDE DEF v, piece
  <2>3. c \in Nat /\ (v + 1) * size = c + size /\ (v + 1) * size <= n
    <3> HIDE DEF size, n
    <3>1. n = (q + w) * size /\ q + w \in Nat
      BY <1>2 DEF n
    <3> DEFINE x == q + w
    <3> HIDE DEF x
    <3>2. n = x * size /\ x \in Nat /\ v + 1 <= x
      BY <2>2, <3>1 DEF x
    <3>3. (v + 1) * size <= x * size
      BY <1>1, <2>2, <3>2
    <3> QED
      BY <1>1, <2>2, <3>2, <3>3, TimesNext
  <2>4. Slice(piece, C, c, size)
    <3>1. c + size <= n
      BY <2>3
    <3> HIDE DEF n
    <3> QED
      BY <1>3, <2>1, <2>2, <3>1, BlocksSlice
  <2>5. Row(C, n)
    BY <1>3, BlocksRow
  <2> HIDE DEF n, C, c, size
  <2>6. Slice(C, D, K, n)
    BY <2>5, KeyedIs
  <2>7. Slice(piece, D, K + c, size)
    BY <1>1, <2>2, <2>3, <2>4, <2>6, SliceOfSlice
  <2>8. K + c = a + (j - 1) * size
    <3>1. c = q * size + (j - 1) * size
      BY <1>1 DEF c, v
    <3>2. q * size \in Nat /\ (j - 1) * size \in Nat
      BY <1>1
    <3> QED
      BY <1>1, <3>1, <3>2
  <2>9. pieces[j] = piece
    BY DEF piece
  <2> QED
    BY <2>7, <2>8, <2>9
<1> HIDE DEF pieces
<1>8. Lined(pieces, w, D, a, size)
  BY <1>7 DEF Lined
<1>9. a \in Nat /\ size \in Nat
  <2> HIDE DEF size
  <2> QED
    BY SMTT(40), <1>1, <1>3
<1>10. Absorbed(f, updates(f, S, pieces), P, D, a + w * size, o, l)
  <2> HIDE DEF a, D, size
  <2> QED
    BY <1>5, <1>6, <1>8, <1>9, UpdatesAbsorb
<1>11. a + w * size = K + n
  <2> HIDE DEF size, K, n
  <2> QED
    BY <1>1, <1>3
<1> QED
  BY <1>4, <1>10, <1>11 DEF LeafHas

\* The parts of tree_update.
Flushes(f, S, in) == S.buflen > 0 /\ Len(in) >= Stripe(f) - S.buflen
FlushBuf(f, S, in) ==
  IF Flushes(f, S, in)
  THEN Overwrite(S.buf, S.buflen, SubSeq(in, 1, Stripe(f) - S.buflen)) ELSE S.buf
FlushLeft(f, S, in) == IF Flushes(f, S, in) THEN 0 ELSE S.buflen
FlushRest(f, S, in) ==
  IF Flushes(f, S, in) THEN SubSeq(in, Stripe(f) - S.buflen + 1, Len(in)) ELSE in
Flushed(f, S, in, i) ==
  IF Flushes(f, S, in) THEN update(f, S.S[i], BlockOf(f, FlushBuf(f, S, in), 1, i)) ELSE S.S[i]
TailOf(f, rest) == SubSeq(rest, Len(rest) - (Len(rest) % Stripe(f)) + 1, Len(rest))

IsTree(S) == S = [S |-> S.S, R |-> S.R, buf |-> S.buf, buflen |-> S.buflen, outlen |-> S.outlen]

\* tree_update, field by field.
LEMMA TreeUpdateIs ==
  ASSUME NEW f, NEW S, IsTree(S), NEW in
  PROVE  tree_update(f, S, in) =
           [S |-> [i \in Leaves(f) |-> Spread(f, Flushed(f, S, in, i), i, FlushRest(f, S, in))],
            R |-> S.R,
            buf |-> Overwrite(FlushBuf(f, S, in), FlushLeft(f, S, in), TailOf(f, FlushRest(f, S, in))),
            buflen |-> FlushLeft(f, S, in) + Len(TailOf(f, FlushRest(f, S, in))),
            outlen |-> S.outlen]
<1> DEFINE x == [i \in Leaves(f) |-> Spread(f, Flushed(f, S, in, i), i, FlushRest(f, S, in))]
           y == Overwrite(FlushBuf(f, S, in), FlushLeft(f, S, in), TailOf(f, FlushRest(f, S, in)))
           z == FlushLeft(f, S, in) + Len(TailOf(f, FlushRest(f, S, in)))
<1>1. tree_update(f, S, in) = [S EXCEPT !.S = x, !.buf = y, !.buflen = z]
  BY DEF tree_update, FlushBuf, FlushLeft, FlushRest, Flushed, Flushes, TailOf, Stripe
<1> HIDE DEF x, y, z
<1> DEFINE A == [S EXCEPT !.S = x]
<1>2. A = [S |-> x, R |-> S.R, buf |-> S.buf, buflen |-> S.buflen, outlen |-> S.outlen]
  BY DEF IsTree
<1>3. [S EXCEPT !.S = x, !.buf = y, !.buflen = z] = [A EXCEPT !.buf = y, !.buflen = z]
  OBVIOUS
<1> HIDE DEF A
<1> DEFINE B == [A EXCEPT !.buf = y]
<1>4. B = [S |-> x, R |-> S.R, buf |-> y, buflen |-> S.buflen, outlen |-> S.outlen]
  BY <1>2
<1>5. [A EXCEPT !.buf = y, !.buflen = z] = [B EXCEPT !.buflen = z]
  OBVIOUS
<1> HIDE DEF B
<1>6. [B EXCEPT !.buflen = z] = [S |-> x, R |-> S.R, buf |-> y, buflen |-> z, outlen |-> S.outlen]
  BY <1>4
<1> QED
  BY <1>1, <1>3, <1>5, <1>6 DEF x, y, z

\* The last leaf is marked.
IsLast(f, i) == i = DEGREE[f]

\* The leaves have taken q stripes of e.
LeavesHave(f, leaves, asked, key, e, q) ==
  \A i \in Leaves(f) :
    LeafHas(f, leaves[i], TreeParam(f, asked, Len(key), i - 1, 0), key, i, e,
            q * BLOCKBYTES[f], OUTBYTES[f], IsLast(f, i))

\* A tree has taken the first a bytes of m.
TreeHas(f, S, asked, key, m, a) ==
  /\ IsTree(S)
  /\ LeavesHave(f, S.S, asked, key, m, a \div Stripe(f))
  /\ Absorbed(f, S.R, TreeParam(f, asked, Len(key), 0, 1), <<>>, 0, asked, TRUE)
  /\ Row(S.buf, Stripe(f))
  /\ S.buflen = a % Stripe(f)
  /\ \A p \in 1 .. S.buflen : S.buf[p] = m[(a \div Stripe(f)) * Stripe(f) + p]
  /\ S.outlen = asked

\* What the leaves have taken depends on the stripes alone.
LEMMA LeavesSame ==
  ASSUME NEW f \in Family, NEW key, Row(key, Len(key)), NEW asked, NEW leaves,
         NEW q \in Nat, NEW m, NEW e, Agree(m, e, q * Stripe(f)),
         LeavesHave(f, leaves, asked, key, m, q)
  PROVE  LeavesHave(f, leaves, asked, key, e, q)
<1>1. ASSUME NEW i \in Leaves(f)
      PROVE LeafHas(f, leaves[i], TreeParam(f, asked, Len(key), i - 1, 0), key, i, e,
                    q * BLOCKBYTES[f], OUTBYTES[f], IsLast(f, i))
  <2> DEFINE P == TreeParam(f, asked, Len(key), i - 1, 0)
             l == IsLast(f, i)
             o == OUTBYTES[f]
             S == leaves[i]
  <2>1. LeafHas(f, S, P, key, i, m, q * BLOCKBYTES[f], o, l)
    BY DEF LeavesHave
  <2> HIDE DEF P, l, o, S
  <2>2. LeafHas(f, S, P, key, i, e, q * BLOCKBYTES[f], o, l)
    BY <2>1, LeafSame
  <2> QED
    BY <2>2 DEF P, l, o, S
<1> QED
  BY <1>1 DEF LeavesHave

\* Each leaf takes its blocks of all the whole stripes of in.
LEMMA LeavesSpread ==
  ASSUME NEW f \in Family, NEW key, Row(key, Len(key)), NEW asked, NEW leaves,
         NEW q \in Nat, NEW e, LeavesHave(f, leaves, asked, key, e, q),
         NEW r, NEW in, Slice(in, e, q * Stripe(f), r), NEW w, w = r \div Stripe(f)
  PROVE  LeavesHave(f, [i \in Leaves(f) |-> Spread(f, leaves[i], i, in)], asked, key, e, q + w)
<1>1. ASSUME NEW i \in Leaves(f)
      PROVE LeafHas(f, Spread(f, leaves[i], i, in), TreeParam(f, asked, Len(key), i - 1, 0), key, i, e,
                    (q + w) * BLOCKBYTES[f], OUTBYTES[f], IsLast(f, i))
  <2> DEFINE P == TreeParam(f, asked, Len(key), i - 1, 0)
             l == IsLast(f, i)
             o == OUTBYTES[f]
             S == leaves[i]
  <2>1. LeafHas(f, S, P, key, i, e, q * BLOCKBYTES[f], o, l)
    BY DEF LeavesHave
  <2> HIDE DEF P, l, o, S
  <2>2. LeafHas(f, Spread(f, S, i, in), P, key, i, e, (q + w) * BLOCKBYTES[f], o, l)
    BY <2>1, SpreadTakes
  <2> QED
    BY <2>2 DEF P, l, o, S
<1> QED
  BY <1>1 DEF LeavesHave

\* Each leaf takes its block of the stripe in buf.
LEMMA LeavesFlushed ==
  ASSUME NEW f \in Family, NEW key, Row(key, Len(key)), NEW asked, NEW leaves,
         NEW q \in Nat, NEW e, LeavesHave(f, leaves, asked, key, e, q),
         NEW buf, Slice(buf, e, q * Stripe(f), Stripe(f))
  PROVE  LeavesHave(f, [i \in Leaves(f) |-> update(f, leaves[i], BlockOf(f, buf, 1, i))],
                    asked, key, e, q + 1)
<1>1. ASSUME NEW i \in Leaves(f)
      PROVE LeafHas(f, update(f, leaves[i], BlockOf(f, buf, 1, i)),
                    TreeParam(f, asked, Len(key), i - 1, 0), key, i, e,
                    (q + 1) * BLOCKBYTES[f], OUTBYTES[f], IsLast(f, i))
  <2> DEFINE P == TreeParam(f, asked, Len(key), i - 1, 0)
             l == IsLast(f, i)
             o == OUTBYTES[f]
             S == leaves[i]
             in == BlockOf(f, buf, 1, i)
             size == BLOCKBYTES[f]
             s == Stripe(f)
  <2>1. LeafHas(f, S, P, key, i, e, q * BLOCKBYTES[f], o, l)
    BY DEF LeavesHave
  <2>2. s \in Nat /\ size \in Nat /\ 1 * s = s /\ 1 \in 1 .. 1 /\ 1 * s <= s
    BY LeafNumbers
  <2>3. Slice(in, e, (q + (1 - 1)) * Stripe(f) + (i - 1) * BLOCKBYTES[f], BLOCKBYTES[f])
    <3>1. Slice(buf, e, q * Stripe(f), s) /\ 1 * Stripe(f) <= s
      BY <2>2
    <3> HIDE DEF s
    <3>2. 1 \in Nat /\ 1 \in 1 .. 1
      OBVIOUS
    <3> QED
      BY <3>1, <3>2, BlockOfIs
  <2>4. q + (1 - 1) = q
    OBVIOUS
  <2>5. Slice(in, e, q * Stripe(f) + (i - 1) * BLOCKBYTES[f], size)
    BY <2>3, <2>4
  <2> HIDE DEF P, l, o, S, in
  <2>6. Agree(e, e, q * Stripe(f))
    BY DEF Agree
  <2>7. size <= BLOCKBYTES[f]
    BY <2>2
  <2> HIDE DEF size
  <2>8. LeafHas(f, update(f, S, in), P, key, i, e, q * BLOCKBYTES[f] + size, o, l)
    BY <2>1, <2>2, <2>5, <2>6, <2>7, LeafTakes
  <2>9. q * BLOCKBYTES[f] + size = (q + 1) * BLOCKBYTES[f]
    BY <2>2, TimesNext DEF size
  <2> QED
    BY <2>8, <2>9 DEF P, l, o, S, in
<1> QED
  BY <1>1 DEF LeavesHave

\* The tail of an input is what its whole stripes leave.
LEMMA TailIs ==
  ASSUME NEW f \in Family, NEW in, NEW r, Row(in, r)
  PROVE  Slice(TailOf(f, in), in, (r \div Stripe(f)) * Stripe(f), r % Stripe(f))
<1> DEFINE s == Stripe(f)
           w == r \div s
           x == r % s
           ws == w * s
           tail == TailOf(f, in)
<1>0. \E i : i \in Leaves(f)
  BY Constants DEF Leaves
<1>1. s \in Nat \ {0} /\ r \in Nat /\ Len(in) = r
  BY <1>0, LeafNumbers, RowIs DEF Row
<1>2. tail = SubSeq(in, r - x + 1, r)
  BY <1>1 DEF TailOf
<1> HIDE DEF s, tail
<1>3. w \in Nat /\ x \in Nat /\ x < s /\ r = ws + x
  BY <1>1, DivMod
<1> HIDE DEF w, x
<1>4. ws \in Nat
  BY <1>1, <1>3
<1> HIDE DEF ws
<1>5. r - x = ws /\ ws <= r /\ r - ws = x
  BY <1>1, <1>3, <1>4
<1>6. Slice(SubSeq(in, ws + 1, r), in, ws, r - ws)
  BY <1>1, <1>4, <1>5, SliceIs
<1> QED
  BY <1>2, <1>5, <1>6 DEF ws, w, x, s, tail

\* The state that tree_update leaves when it has nothing in its buffer: leaves and buf
\* before, and in still to be taken.
TailKept(f, T, leaves, in, buf, asked, key) ==
  /\ IsTree(T)
  /\ T.S = [i \in Leaves(f) |-> Spread(f, leaves[i], i, in)]
  /\ Absorbed(f, T.R, TreeParam(f, asked, Len(key), 0, 1), <<>>, 0, asked, TRUE)
  /\ T.buf = Overwrite(buf, 0, TailOf(f, in))
  /\ T.buflen = 0 + Len(TailOf(f, in)) /\ T.outlen = asked

\* The end of tree_update where nothing is left in the buffer: whole stripes go to the
\* leaves, the tail goes to the buffer.
LEMMA StripesTaken ==
  ASSUME NEW f \in Family, NEW key, Row(key, Len(key)), NEW asked, NEW T,
         NEW leaves, NEW q \in Nat, NEW e, LeavesHave(f, leaves, asked, key, e, q),
         NEW r, NEW in, Slice(in, e, q * Stripe(f), r), NEW buf, Row(buf, Stripe(f)),
         NEW a \in Nat, a = q * Stripe(f) + r, TailKept(f, T, leaves, in, buf, asked, key)
  PROVE  TreeHas(f, T, asked, key, e, a)
<1> DEFINE s == Stripe(f)
           w == r \div s
           x == r % s
           ws == w * s
           qs == q * s
           tail == TailOf(f, in)
<1>k. /\ IsTree(T) /\ T.S = [i \in Leaves(f) |-> Spread(f, leaves[i], i, in)]
      /\ Absorbed(f, T.R, TreeParam(f, asked, Len(key), 0, 1), <<>>, 0, asked, TRUE)
      /\ T.buf = Overwrite(buf, 0, tail) /\ T.buflen = 0 + Len(tail) /\ T.outlen = asked
  BY DEF TailKept
<1>0. \E i : i \in Leaves(f)
  BY Constants DEF Leaves
<1>1. s \in Nat \ {0} /\ r \in Nat /\ Row(in, r)
  BY <1>0, LeafNumbers DEF Slice, Row
<1>2. Len(in) = r /\ qs + r = a
  BY <1>1, RowIs
<1>5. Slice(tail, in, ws, x)
  BY <1>1, TailIs
<1>l. LeavesHave(f, T.S, asked, key, e, q + w)
  BY <1>k, LeavesSpread
<1> HIDE DEF s, tail, qs
<1>3. w \in Nat /\ x \in Nat /\ x < s /\ r = ws + x
  BY <1>1, DivMod
<1> HIDE DEF w, x
<1>4. ws \in Nat /\ qs \in Nat
  BY <1>1, <1>3 DEF qs
<1> HIDE DEF ws
<1>6. Row(tail, x) /\ \A p \in 1 .. x : tail[p] = in[ws + p]
  BY <1>5 DEF Slice
<1>7. Len(tail) = x
  BY <1>6, RowIs
<1>8. T.buflen = x
  BY <1>k, <1>3, <1>7
<1>9. (q + w) * s = qs + ws /\ q + w \in Nat
  BY <1>1, <1>3 DEF qs, ws
<1>10. a \div s = q + w /\ a % s = x
  <2>1. ((q + w) * s + x) \div s = q + w /\ ((q + w) * s + x) % s = x
    BY <1>1, <1>3, <1>9, DivUnique
  <2> DEFINE v == (q + w) * s
  <2>2. v = qs + ws
    BY <1>9
  <2> HIDE DEF v
  <2>3. a = v + x
    BY <1>2, <1>3, <1>4, <2>2
  <2> QED
    BY <2>1, <2>3 DEF v
<1>11. Spliced(T.buf, s, buf, 0, tail, x)
  <2>1. Row(buf, s) /\ 0 \in Nat /\ T.buf = Overwrite(buf, 0, tail)
    BY <1>k DEF s
  <2> QED
    BY <1>6, <2>1, OverwriteIs
<1>12. ASSUME NEW p \in 1 .. T.buflen PROVE T.buf[p] = e[(a \div s) * s + p]
  <2>1. p \in 1 .. s /\ p > 0 /\ p <= 0 + x /\ p - 0 = p /\ p \in 1 .. x
    BY <1>1, <1>3, <1>8
  <2>2. T.buf[p] = tail[p]
    BY <1>11, <2>1 DEF Spliced
  <2>3. tail[p] = in[ws + p]
    BY <1>6, <2>1
  <2>4. ws + p \in 1 .. r
    BY <1>3, <1>4, <2>1
  <2>5. in[ws + p] = e[qs + (ws + p)]
    BY <2>4 DEF Slice, qs, s
  <2>6. (a \div s) * s = qs + ws
    BY <1>9, <1>10
  <2>7. qs + (ws + p) = (qs + ws) + p
    BY <1>4
  <2> QED
    BY <2>2, <2>3, <2>5, <2>6, <2>7
<1>13. Row(T.buf, s)
  BY <1>11 DEF Spliced
<1> QED
  BY <1>k, <1>l, <1>8, <1>10, <1>12, <1>13 DEF TreeHas, s

\* Whatever a tree has taken, tree_update has it take what follows: the stripe it
\* fills up, the whole stripes and the tail.
LEMMA TreeUpdateTakes ==
  ASSUME NEW f \in Family, NEW key, Row(key, Len(key)), NEW asked, NEW S, NEW m, NEW a \in Nat,
         TreeHas(f, S, asked, key, m, a), NEW e, Agree(m, e, a),
         NEW in, NEW k, Slice(in, e, a, k)
  PROVE  TreeHas(f, tree_update(f, S, in), asked, key, e, a + k)
<1> DEFINE s == Stripe(f)
           q == a \div s
           b == a % s
           qs == q * s
           T == tree_update(f, S, in)
<1>0. \E i : i \in Leaves(f)
  BY Constants DEF Leaves
<1>1. s \in Nat \ {0} /\ k \in Nat /\ Row(in, k)
  BY <1>0, LeafNumbers DEF Slice, Row
<1>2. Len(in) = k
  BY <1>1, RowIs
<1>3. IsTree(S) /\ LeavesHave(f, S.S, asked, key, m, q) /\ Row(S.buf, s) /\ S.buflen = b
      /\ Absorbed(f, S.R, TreeParam(f, asked, Len(key), 0, 1), <<>>, 0, asked, TRUE)
      /\ S.outlen = asked
  BY DEF TreeHas
<1>p. \A p \in 1 .. b : S.buf[p] = m[qs + p]
  BY DEF TreeHas
<1> HIDE DEF s
<1>4. q \in Nat /\ b \in Nat /\ b < s /\ a = qs + b
  BY <1>1, DivMod
<1> HIDE DEF q, b
<1>5. qs \in Nat
  BY <1>1, <1>4
<1> HIDE DEF qs
<1>6. LeavesHave(f, S.S, asked, key, e, q)
  <2>1. qs <= a
    BY <1>4, <1>5
  <2>2. \A j \in 1 .. qs : j \in 1 .. a
    BY <1>5, <2>1
  <2>3. Agree(m, e, qs)
    BY <2>2, Zenon DEF Agree
  <2>4. Agree(m, e, q * Stripe(f))
    BY <2>3 DEF qs, s
  <2> QED
    BY <1>3, <1>4, <2>4, LeavesSame
<1>7. T = [S |-> [i \in Leaves(f) |-> Spread(f, Flushed(f, S, in, i), i, FlushRest(f, S, in))],
            R |-> S.R,
            buf |-> Overwrite(FlushBuf(f, S, in), FlushLeft(f, S, in), TailOf(f, FlushRest(f, S, in))),
            buflen |-> FlushLeft(f, S, in) + Len(TailOf(f, FlushRest(f, S, in))),
            outlen |-> S.outlen]
  BY <1>3, TreeUpdateIs
<1> HIDE DEF T
<1>8. /\ IsTree(T) /\ T.R = S.R /\ T.outlen = asked
      /\ T.S = [i \in Leaves(f) |-> Spread(f, Flushed(f, S, in, i), i, FlushRest(f, S, in))]
      /\ T.buf = Overwrite(FlushBuf(f, S, in), FlushLeft(f, S, in), TailOf(f, FlushRest(f, S, in)))
      /\ T.buflen = FlushLeft(f, S, in) + Len(TailOf(f, FlushRest(f, S, in)))
  BY <1>3, <1>7 DEF IsTree
<1>9. (a + k) \in Nat
  BY <1>1
<1>10. CASE b > 0 /\ k >= s - b
  <2> DEFINE fill == s - b
             begin == SubSeq(in, 1, fill)
             buf == FlushBuf(f, S, in)
             rest == SubSeq(in, fill + 1, k)
             leaves == [i \in Leaves(f) |-> update(f, S.S[i], BlockOf(f, buf, 1, i))]
  <2>1. Flushes(f, S, in)
    BY <1>2, <1>3, <1>10 DEF Flushes, s
  <2>2. buf = Overwrite(S.buf, b, begin) /\ FlushLeft(f, S, in) = 0 /\ FlushRest(f, S, in) = rest
        /\ \A i \in Leaves(f) : Flushed(f, S, in, i) = leaves[i]
    BY <1>2, <1>3, <2>1 DEF FlushBuf, FlushLeft, FlushRest, Flushed, s
  <2>3. fill \in Nat /\ fill <= k /\ b + fill = s /\ qs + s = a + fill /\ fill = s - b
    BY <1>1, <1>4, <1>5, <1>10
  <2> HIDE DEF fill, buf, rest, leaves
  <2>4. Slice(begin, in, 0, fill)
    <3>1. Slice(SubSeq(in, 0 + 1, fill), in, 0, fill - 0)
      BY <1>1, <2>3, SliceIs
    <3> QED
      BY <2>3, <3>1
  <2> HIDE DEF begin
  <2>5. Row(begin, fill) /\ \A j \in 1 .. fill : begin[j] = in[0 + j]
    BY <2>4 DEF Slice
  <2>6. Spliced(buf, s, S.buf, b, begin, fill)
    BY <1>3, <1>4, <2>2, <2>5, OverwriteIs
  <2>7. ASSUME NEW p \in 1 .. s PROVE buf[p] = e[qs + p]
    <3>1. buf[p] = IF p > b /\ p <= b + fill THEN begin[p - b] ELSE S.buf[p]
      BY <2>6 DEF Spliced
    <3>2. CASE p > b
      <4>1. p - b \in 1 .. fill /\ p - b \in 1 .. k /\ a + (p - b) = qs + p /\ p <= b + fill
            /\ 0 + (p - b) = p - b
        BY <1>1, <1>4, <1>5, <2>3, <3>2
      <4>2. in[p - b] = e[a + (p - b)]
        BY <4>1 DEF Slice
      <4>3. begin[p - b] = in[p - b]
        BY <2>5, <4>1
      <4> QED
        BY <3>1, <3>2, <4>1, <4>2, <4>3
    <3>3. CASE ~(p > b)
      <4>1. p \in 1 .. b /\ qs + p \in 1 .. a
        BY <1>1, <1>4, <1>5, <3>3
      <4>2. m[qs + p] = e[qs + p]
        BY <4>1, Zenon DEF Agree
      <4> QED
        BY <1>p, <3>1, <3>3, <4>1, <4>2
    <3> QED
      BY <3>2, <3>3
  <2>8. Row(buf, Stripe(f)) /\ Slice(buf, e, q * Stripe(f), Stripe(f))
    BY <2>6, <2>7 DEF Slice, Spliced, qs, s
  <2>9. LeavesHave(f, leaves, asked, key, e, q + 1)
    BY <1>4, <1>6, <2>8, LeavesFlushed DEF leaves
  <2>10. Slice(rest, e, (q + 1) * Stripe(f), k - fill)
    <3>1. Slice(rest, in, fill, k - fill)
      BY <1>1, <2>3, SliceIs DEF rest
    <3>2. k - fill \in Nat /\ fill + (k - fill) <= k
      BY <1>1, <2>3
    <3>3. Slice(rest, e, a + fill, k - fill)
      BY <2>3, <3>1, <3>2, SliceOfSlice
    <3>4. (q + 1) * Stripe(f) = a + fill
      BY <1>1, <1>4, <2>3, TimesNext DEF qs, s
    <3> QED
      BY <3>3, <3>4
  <2>11. T.S = [i \in Leaves(f) |-> Spread(f, leaves[i], i, rest)]
    BY <1>8, <2>2
  <2>12. a + k = (q + 1) * Stripe(f) + (k - fill)
    <3>1. (q + 1) * Stripe(f) = a + fill
      BY <1>1, <1>4, <2>3, TimesNext DEF qs, s
    <3> QED
      BY <1>1, <2>3, <3>1
  <2>13. T.buf = Overwrite(buf, 0, TailOf(f, rest)) /\ T.buflen = 0 + Len(TailOf(f, rest))
         /\ Absorbed(f, T.R, TreeParam(f, asked, Len(key), 0, 1), <<>>, 0, asked, TRUE)
    BY <1>3, <1>8, <2>2 DEF buf
  <2>14. q + 1 \in Nat
    BY <1>4
  <2> DEFINE q1 == q + 1
             r == k - fill
             c == a + k
  <2>15. LeavesHave(f, leaves, asked, key, e, q1) /\ Slice(rest, e, q1 * Stripe(f), r)
         /\ c = q1 * Stripe(f) + r /\ q1 \in Nat /\ c \in Nat
    BY <1>9, <2>9, <2>10, <2>12, <2>14
  <2> HIDE DEF q1, r, c
  <2>16. TailKept(f, T, leaves, rest, buf, asked, key)
    BY <1>8, <2>11, <2>13 DEF TailKept
  <2>17. TreeHas(f, T, asked, key, e, c)
    BY <2>8, <2>15, <2>16, StripesTaken
  <2> QED
    BY <2>17 DEF T, c
<1>11. CASE b = 0
  <2>1. ~Flushes(f, S, in)
    BY <1>3, <1>11 DEF Flushes
  <2>2. FlushBuf(f, S, in) = S.buf /\ FlushLeft(f, S, in) = 0 /\ FlushRest(f, S, in) = in
        /\ \A i \in Leaves(f) : Flushed(f, S, in, i) = S.S[i]
    BY <1>3, <1>11, <2>1 DEF FlushBuf, FlushLeft, FlushRest, Flushed
  <2>3. a = q * Stripe(f)
    BY <1>4, <1>5, <1>11 DEF qs, s
  <2> DEFINE c == a + k
  <2>4. Slice(in, e, q * Stripe(f), k) /\ c = q * Stripe(f) + k /\ c \in Nat
    BY <1>9, <2>3
  <2>5. T.S = [i \in Leaves(f) |-> Spread(f, S.S[i], i, in)]
    BY <1>8, <2>2
  <2>6. T.buf = Overwrite(S.buf, 0, TailOf(f, in)) /\ T.buflen = 0 + Len(TailOf(f, in))
        /\ Absorbed(f, T.R, TreeParam(f, asked, Len(key), 0, 1), <<>>, 0, asked, TRUE)
    BY <1>3, <1>8, <2>2
  <2>7. Row(S.buf, Stripe(f))
    BY <1>3 DEF s
  <2> HIDE DEF c
  <2>8. TailKept(f, T, S.S, in, S.buf, asked, key)
    BY <1>8, <2>5, <2>6 DEF TailKept
  <2> DEFINE leaves == S.S
             buf == S.buf
  <2>9. LeavesHave(f, leaves, asked, key, e, q) /\ TailKept(f, T, leaves, in, buf, asked, key)
        /\ Row(buf, Stripe(f))
    BY <1>6, <2>7, <2>8
  <2> HIDE DEF leaves, buf
  <2>10. TreeHas(f, T, asked, key, e, c)
    BY <1>4, <2>4, <2>9, StripesTaken
  <2> QED
    BY <2>10 DEF T, c
<1>12. CASE b > 0 /\ ~(k >= s - b)
  <2>1. ~Flushes(f, S, in)
    BY <1>2, <1>3, <1>12 DEF Flushes, s
  <2>2. FlushBuf(f, S, in) = S.buf /\ FlushLeft(f, S, in) = b /\ FlushRest(f, S, in) = in
        /\ \A i \in Leaves(f) : Flushed(f, S, in, i) = S.S[i]
    BY <1>3, <2>1 DEF FlushBuf, FlushLeft, FlushRest, Flushed
  <2>3. k < s /\ b + k < s /\ b + k \in Nat /\ b + k <= s
    BY <1>1, <1>4, <1>12
  <2>4. k \div s = 0 /\ k % s = k
    <3>1. (0 * s + k) \div s = 0 /\ (0 * s + k) % s = k
      BY <1>1, <2>3, DivUnique
    <3>2. 0 * s + k = k
      BY <1>1
    <3> QED
      BY <3>1, <3>2
  <2>5. TailOf(f, in) = in
    <3>1. TailOf(f, in) = SubSeq(in, k - k + 1, k)
      BY <1>2, <2>4 DEF TailOf, s
    <3>2. Slice(SubSeq(in, 0 + 1, k), in, 0, k - 0)
      BY <1>1, SliceIs
    <3>3. k - k + 1 = 0 + 1 /\ k - 0 = k /\ \A j \in 1 .. k : 0 + j = j
      BY <1>1
    <3> DEFINE t == SubSeq(in, 0 + 1, k)
    <3>4. TailOf(f, in) = t
      BY <3>1, <3>3
    <3>5. Row(t, k) /\ \A j \in 1 .. k : t[j] = in[j]
      BY <3>2, <3>3 DEF Slice
    <3> HIDE DEF t
    <3> QED
      BY <1>1, <3>4, <3>5, SameRow
  <2>6. ASSUME NEW i \in Leaves(f) PROVE Spread(f, S.S[i], i, in) = S.S[i]
    <3> DEFINE L == S.S[i]
               pieces == [j \in 1 .. k \div (DEGREE[f] * BLOCKBYTES[f]) |-> BlockOf(f, in, j, i)]
    <3>1. Spread(f, L, i, in) = updates(f, L, pieces)
      BY <1>2 DEF Spread
    <3>2. pieces = <<>>
      <4>1. k \div (DEGREE[f] * BLOCKBYTES[f]) = 0
        BY <2>4 DEF s, Stripe
      <4> QED
        BY <4>1
    <3>3. updates(f, L, <<>>) = L
      <4>1. Len(<<>>) = 0 /\ Len(<<>>) \in Nat
        OBVIOUS
      <4> DEFINE none == <<>>
      <4>2. Len(none) = 0 /\ Len(none) \in Nat
        BY <4>1
      <4> HIDE DEF none, L
      <4>3. PICK g : /\ IsLoop(g, "pieces", f, L, none, Len(none))
                     /\ updates(f, L, none) = g[Len(none)]
        BY <4>2, UpdatesIsLoop
      <4>4. Runs(g, "pieces", f, L, none, Len(none))
        BY <4>2, <4>3, LoopRuns
      <4> QED
        BY <4>2, <4>3, <4>4 DEF Runs, none
    <3> QED
      BY <3>1, <3>2, <3>3
  <2>7. T.S = [i \in Leaves(f) |-> S.S[i]]
    BY <1>8, <2>2, <2>6
  <2>8. LeavesHave(f, T.S, asked, key, e, q)
    BY <1>6, <2>7 DEF LeavesHave
  <2>9. T.buf = Overwrite(S.buf, b, in) /\ T.buflen = b + k
    BY <1>2, <1>8, <2>2, <2>5
  <2>10. Spliced(T.buf, s, S.buf, b, in, k)
    BY <1>1, <1>3, <1>4, <2>9, OverwriteIs
  <2>11. (a + k) \div s = q /\ (a + k) % s = b + k
    <3>1. (q * s + (b + k)) \div s = q /\ (q * s + (b + k)) % s = b + k
      <4> DEFINE x == b + k
      <4>1. x \in Nat /\ x < s
        BY <2>3
      <4> HIDE DEF x
      <4>2. (q * s + x) \div s = q /\ (q * s + x) % s = x
        BY <1>1, <1>4, <4>1, DivUnique
      <4> QED
        BY <4>2 DEF x
    <3>2. a + k = qs + (b + k)
      BY <1>1, <1>4, <1>5
    <3> QED
      BY <3>1, <3>2 DEF qs
  <2>12. ASSUME NEW p \in 1 .. T.buflen PROVE T.buf[p] = e[qs + p]
    <3>0. p \in 1 .. s /\ p <= b + k /\ p \in Nat /\ p > 0
      BY <1>1, <2>3, <2>9
    <3>1. T.buf[p] = IF p > b /\ p <= b + k THEN in[p - b] ELSE S.buf[p]
      BY <2>10, <3>0 DEF Spliced
    <3>2. CASE p > b
      <4>1. p - b \in 1 .. k /\ a + (p - b) = qs + p
        BY <1>1, <1>4, <1>5, <3>0, <3>2
      <4>2. in[p - b] = e[a + (p - b)]
        BY <4>1 DEF Slice
      <4> QED
        BY <3>0, <3>1, <3>2, <4>1, <4>2
    <3>3. CASE ~(p > b)
      <4>1. p \in 1 .. b /\ qs + p \in 1 .. a
        BY <1>1, <1>4, <1>5, <3>0, <3>3
      <4>2. m[qs + p] = e[qs + p]
        BY <4>1, Zenon DEF Agree
      <4> QED
        BY <1>p, <3>1, <3>3, <4>1, <4>2
    <3> QED
      BY <3>2, <3>3
  <2>13. Row(T.buf, s)
    BY <2>10 DEF Spliced
  <2>14. T.buflen = (a + k) % s
    BY <2>9, <2>11
  <2> DEFINE c == a + k
  <2>15. c \div s = q /\ T.buflen = c % s
    BY <2>11, <2>14
  <2> HIDE DEF c
  <2>16. \A p \in 1 .. T.buflen : T.buf[p] = e[(c \div s) * s + p]
    BY <2>12, <2>15 DEF qs
  <2>17. TreeHas(f, T, asked, key, e, c)
    BY <1>3, <1>8, <2>8, <2>13, <2>15, <2>16 DEF TreeHas, s
  <2> QED
    BY <2>17 DEF T, c
<1> QED
  BY <1>1, <1>4, <1>10, <1>11, <1>12
-----------------------------------------------------------------------------
(* The start of a tree *)

\* Leaf i as blake2bp_init_leaf and the marking of the last one leave it.
FreshLeaf(f, asked, keylen, i) == MarkLast(f, init_leaf(f, asked, keylen, i), i)
FreshRoot(f, asked, keylen) == [init_root(f, asked, keylen) EXCEPT !.last_node = TRUE]

\* A leaf begins with nothing, although it is told another length than its parameters say.
LEMMA FreshLeafAbsorbed ==
  ASSUME NEW f \in Family, NEW asked, NEW keylen, NEW i, NEW d
  PROVE  Absorbed(f, FreshLeaf(f, asked, keylen, i), TreeParam(f, asked, keylen, i - 1, 0),
                  d, 0, OUTBYTES[f], IsLast(f, i))
<1> DEFINE P == TreeParam(f, asked, keylen, i - 1, 0)
           S == init_param(f, P)
           o == OUTBYTES[f]
           l == IsLast(f, i)
           T == [S EXCEPT !.outlen = o]
           L == [T EXCEPT !.last_node = l]
<1>1. FreshLeaf(f, asked, keylen, i) = L
  BY DEF FreshLeaf, MarkLast, init_leaf, IsLast
<1>2. IsState(S) /\ S.h = <<P>> /\ S.t0 = 0 /\ S.t1 = 0 /\ S.f0 = FALSE /\ S.f1 = FALSE
      /\ S.buf = Zeros(BLOCKBYTES[f]) /\ S.buflen = 0
  BY DEF init_param, IsState
<1> HIDE DEF S, P, o, l
<1>3. T = [h |-> S.h, t0 |-> S.t0, t1 |-> S.t1, f0 |-> S.f0, f1 |-> S.f1,
           buf |-> S.buf, buflen |-> S.buflen, outlen |-> o, last_node |-> S.last_node]
  BY <1>2, OutlenIs
<1> HIDE DEF T
<1>4. IsState(T) /\ T.h = <<P>> /\ T.t0 = 0 /\ T.t1 = 0 /\ T.f0 = FALSE /\ T.f1 = FALSE
      /\ T.buf = Zeros(BLOCKBYTES[f]) /\ T.buflen = 0 /\ T.outlen = o
  BY <1>2, <1>3 DEF IsState
<1>5. L = [h |-> T.h, t0 |-> T.t0, t1 |-> T.t1, f0 |-> T.f0, f1 |-> T.f1,
           buf |-> T.buf, buflen |-> T.buflen, outlen |-> T.outlen, last_node |-> l]
  BY <1>4, LastNodeIs
<1> HIDE DEF L
<1>6. IsState(L) /\ L.h = <<P>> /\ L.t0 = 0 /\ L.t1 = 0 /\ L.f0 = FALSE /\ L.f1 = FALSE
      /\ L.buf = Zeros(BLOCKBYTES[f]) /\ L.buflen = 0 /\ L.outlen = o /\ L.last_node = l
  BY <1>4, <1>5 DEF IsState
<1>7. Absorbed(f, L, P, d, 0, L.outlen, L.last_node)
  BY <1>6, FreshAbsorbed
<1> QED
  BY <1>1, <1>6, <1>7 DEF P, o, l

\* The root begins with nothing, marked as the last node.
LEMMA FreshRootAbsorbed ==
  ASSUME NEW f \in Family, NEW asked, NEW keylen, NEW d
  PROVE  Absorbed(f, FreshRoot(f, asked, keylen), TreeParam(f, asked, keylen, 0, 1),
                  d, 0, asked, TRUE)
<1> DEFINE P == TreeParam(f, asked, keylen, 0, 1)
           S == init_param(f, P)
           L == [S EXCEPT !.last_node = TRUE]
<1>1. FreshRoot(f, asked, keylen) = L
  BY DEF FreshRoot, init_root
<1>2. IsState(S) /\ S.h = <<P>> /\ S.t0 = 0 /\ S.t1 = 0 /\ S.f0 = FALSE /\ S.f1 = FALSE
      /\ S.buf = Zeros(BLOCKBYTES[f]) /\ S.buflen = 0 /\ S.outlen = asked
  BY DEF init_param, IsState, TreeParam
<1> HIDE DEF S, P
<1>5. L = [h |-> S.h, t0 |-> S.t0, t1 |-> S.t1, f0 |-> S.f0, f1 |-> S.f1,
           buf |-> S.buf, buflen |-> S.buflen, outlen |-> S.outlen, last_node |-> TRUE]
  BY <1>2, LastNodeIs
<1> HIDE DEF L
<1>6. IsState(L) /\ L.h = <<P>> /\ L.t0 = 0 /\ L.t1 = 0 /\ L.f0 = FALSE /\ L.f1 = FALSE
      /\ L.buf = Zeros(BLOCKBYTES[f]) /\ L.buflen = 0 /\ L.outlen = asked /\ L.last_node = TRUE
  BY <1>2, <1>5 DEF IsState
<1>7. Absorbed(f, L, P, d, 0, L.outlen, L.last_node)
  BY <1>6, FreshAbsorbed
<1> QED
  BY <1>1, <1>6, <1>7 DEF P

\* The leaves before any input, with the key block in them when there is a key.
StartedLeaf(f, asked, key, i) == Started(f, FreshLeaf(f, asked, Len(key), i), key)

\* All leaves begin with the key block, if there is a key.
LEMMA StartedLeaves ==
  ASSUME NEW f \in Family, NEW asked, NEW key, Row(key, Len(key)), NEW m
  PROVE  LeavesHave(f, [i \in Leaves(f) |-> StartedLeaf(f, asked, key, i)], asked, key, m, 0)
<1>1. ASSUME NEW i \in Leaves(f)
      PROVE LeafHas(f, StartedLeaf(f, asked, key, i), TreeParam(f, asked, Len(key), i - 1, 0),
                    key, i, m, 0 * BLOCKBYTES[f], OUTBYTES[f], IsLast(f, i))
  <2> DEFINE P == TreeParam(f, asked, Len(key), i - 1, 0)
             L == FreshLeaf(f, asked, Len(key), i)
             l == IsLast(f, i)
             o == OUTBYTES[f]
             none == Blocks(f, i, m, 0)
             d == <<>>
  <2>1. Absorbed(f, L, P, d, 0, o, l)
    BY FreshLeafAbsorbed
  <2>2. 0 \in Nat /\ Row(none, 0)
    BY BlocksRow
  <2> HIDE DEF P, L, l, o, none, d
  <2>3. Absorbed(f, Started(f, L, key), P, Keyed(f, key, none), KeyLen(f, key), o, l)
    BY <2>1, <2>2, StartedAbsorbed
  <2>4. 0 * BLOCKBYTES[f] = 0
    BY Constants
  <2>5. KeyLen(f, key) + 0 = KeyLen(f, key)
    BY Constants DEF KeyLen
  <2>6. LeafHas(f, Started(f, L, key), P, key, i, m, 0, o, l)
    BY <2>3, <2>5 DEF LeafHas, none
  <2> QED
    BY <2>4, <2>6 DEF StartedLeaf, P, L, l, o
<1> QED
  BY <1>1 DEF LeavesHave

\* A tree of such leaves and such a root has taken none of the input.
LEMMA TreeStarts ==
  ASSUME NEW f \in Family, NEW asked, NEW key, Row(key, Len(key)), NEW m, NEW S, IsTree(S),
         S.S = [i \in Leaves(f) |-> StartedLeaf(f, asked, key, i)],
         S.R = FreshRoot(f, asked, Len(key)), S.buf = Zeros(Stripe(f)), S.buflen = 0,
         S.outlen = asked
  PROVE  TreeHas(f, S, asked, key, m, 0)
<1>0. \E i : i \in Leaves(f)
  BY Constants DEF Leaves
<1> DEFINE s == Stripe(f)
<1>1. s \in Nat \ {0}
  BY <1>0, LeafNumbers
<1>2. 0 \div s = 0 /\ 0 % s = 0
  <2> HIDE DEF s
  <2>1. (0 * s + 0) \div s = 0 /\ (0 * s + 0) % s = 0
    BY <1>1, DivUnique
  <2>2. 0 * s + 0 = 0
    BY <1>1
  <2> QED
    BY <2>1, <2>2
<1>3. LeavesHave(f, S.S, asked, key, m, 0)
  BY StartedLeaves
<1>4. Absorbed(f, S.R, TreeParam(f, asked, Len(key), 0, 1), <<>>, 0, asked, TRUE)
  <2> DEFINE n == Len(key)
             d == <<>>
  <2> HIDE DEF n, d
  <2>1. Absorbed(f, FreshRoot(f, asked, n), TreeParam(f, asked, n, 0, 1), d, 0, asked, TRUE)
    BY FreshRootAbsorbed
  <2> QED
    BY <2>1 DEF n, d
<1>5. Row(S.buf, s)
  <2> HIDE DEF s
  <2>1. S.buf = Zeros(s)
    BY DEF s
  <2> QED
    BY <1>1, <2>1 DEF Zeros, Row
<1>6. \A p \in 1 .. S.buflen : S.buf[p] = m[(0 \div Stripe(f)) * Stripe(f) + p]
  OBVIOUS
<1>7. LeavesHave(f, S.S, asked, key, m, 0 \div Stripe(f)) /\ S.buflen = 0 % Stripe(f)
  BY <1>2, <1>3
<1> HIDE DEF s
<1>8. Row(S.buf, Stripe(f))
  BY <1>5 DEF s
<1> QED
  BY <1>4, <1>6, <1>7, <1>8 DEF TreeHas

\* tree_init for a hash without a key, tree_init_key for one with a key.
TreeStart(f, asked, key) ==
  IF key = <<>> THEN tree_init(f, asked, 0) ELSE tree_init_key(f, asked, key)

\* The trees that the inits make are of that kind.
LEMMA TreeStartHas ==
  ASSUME NEW f \in Family, NEW asked, NEW key, Row(key, Len(key)), NEW m
  PROVE  TreeHas(f, TreeStart(f, asked, key), asked, key, m, 0)
<1> DEFINE S == TreeStart(f, asked, key)
<1>1. S = [S |-> [i \in Leaves(f) |-> StartedLeaf(f, asked, key, i)],
           R |-> FreshRoot(f, asked, Len(key)), buf |-> Zeros(Stripe(f)), buflen |-> 0,
           outlen |-> asked]
  <2>1. CASE key = <<>>
    <3>1. Len(key) = 0
      BY <2>1
    <3>2. S = tree_init(f, asked, 0)
      BY <2>1 DEF TreeStart
    <3>3. \A i \in Leaves(f) : StartedLeaf(f, asked, key, i) = FreshLeaf(f, asked, 0, i)
      BY <2>1, <3>1 DEF StartedLeaf, Started
    <3> QED
      BY <3>1, <3>2, <3>3 DEF tree_init, FreshLeaf, FreshRoot, Stripe
  <2>2. CASE key # <<>>
    <3> DEFINE n == Len(key)
               T == tree_init(f, asked, n)
    <3>1. S = [T EXCEPT !.S = [i \in Leaves(f) |-> update(f, @[i], KeyBlock(f, key))]]
      BY <2>2 DEF TreeStart, tree_init_key
    <3>2. T = [S |-> [i \in Leaves(f) |-> FreshLeaf(f, asked, n, i)],
               R |-> FreshRoot(f, asked, n), buf |-> Zeros(Stripe(f)), buflen |-> 0,
               outlen |-> asked]
      BY DEF tree_init, FreshLeaf, FreshRoot, Stripe
    <3>3. \A i \in Leaves(f) :
            StartedLeaf(f, asked, key, i) = update(f, FreshLeaf(f, asked, n, i), KeyBlock(f, key))
      BY <2>2 DEF StartedLeaf, Started
    <3> HIDE DEF T, n, S
    <3>4. \A i \in Leaves(f) : T.S[i] = FreshLeaf(f, asked, n, i)
      BY <3>2
    <3>5. S = [S |-> [i \in Leaves(f) |-> update(f, T.S[i], KeyBlock(f, key))],
               R |-> T.R, buf |-> T.buf, buflen |-> T.buflen, outlen |-> T.outlen]
      BY <3>1, <3>2
    <3> QED
      BY <3>2, <3>3, <3>4, <3>5 DEF n, S
  <2> QED
    BY <2>1, <2>2
<1> HIDE DEF S
<1>2. /\ IsTree(S) /\ S.S = [i \in Leaves(f) |-> StartedLeaf(f, asked, key, i)]
      /\ S.R = FreshRoot(f, asked, Len(key)) /\ S.buf = Zeros(Stripe(f)) /\ S.buflen = 0
      /\ S.outlen = asked
  BY <1>1 DEF IsTree
<1>3. TreeHas(f, S, asked, key, m, 0)
  BY <1>2, TreeStarts
<1> QED
  BY <1>3 DEF S
-----------------------------------------------------------------------------
(* The end of a tree *)

\* How much of x bytes, less than a stripe, is leaf i's.
PartLength(f, i, x) ==
  IF x - (i - 1) * BLOCKBYTES[f] <= 0 THEN 0
  ELSE Minimum(x - (i - 1) * BLOCKBYTES[f], BLOCKBYTES[f])

\* It is at most a block.
LEMMA PartLengthIs ==
  ASSUME NEW f \in Family, NEW i \in Leaves(f), NEW x \in Nat
  PROVE  PartLength(f, i, x) \in Nat /\ PartLength(f, i, x) <= BLOCKBYTES[f]
<1> DEFINE from == (i - 1) * BLOCKBYTES[f]
           size == BLOCKBYTES[f]
<1>1. from \in Nat /\ size \in Nat
  BY LeafNumbers
<1>2. PartLength(f, i, x) = IF x - from <= 0 THEN 0 ELSE Minimum(x - from, size)
  BY DEF PartLength
<1> HIDE DEF from
<1>3. PartLength(f, i, x) \in Nat /\ PartLength(f, i, x) <= size
  BY <1>1, <1>2 DEF Minimum
<1> QED
  BY <1>3

\* A leaf's share is its block of every whole stripe and its part of the rest.
LEMMA ShareLengthIs ==
  ASSUME NEW f \in Family, NEW i \in Leaves(f), NEW a \in Nat
  PROVE  /\ ShareLength(f, i, a)
              = (a \div Stripe(f)) * BLOCKBYTES[f] + PartLength(f, i, a % Stripe(f))
         /\ ShareLength(f, i, a) \in Nat
<1>1. ShareLength(f, i, a)
        = (a \div Stripe(f)) * BLOCKBYTES[f] + PartLength(f, i, a % Stripe(f))
  BY DEF ShareLength, PartLength, Stripe
<1> DEFINE s == Stripe(f)
           size == BLOCKBYTES[f]
           q == a \div s
           x == a % s
           n == PartLength(f, i, x)
           c == q * size
<1>2. s \in Nat \ {0} /\ size \in Nat
  BY LeafNumbers
<1> HIDE DEF s
<1>3. q \in Nat /\ x \in Nat
  BY <1>2, DivMod
<1> HIDE DEF q, x
<1>4. n \in Nat
  BY <1>3, PartLengthIs
<1>5. c \in Nat
  BY <1>2, <1>3
<1> HIDE DEF n, c
<1>6. ShareLength(f, i, a) = c + n
  BY <1>1 DEF c, n, q, x, s
<1>7. ShareLength(f, i, a) \in Nat
  BY <1>4, <1>5, <1>6
<1> QED
  BY <1>1, <1>7

\* Share is defined by the places of its bytes.
LEMMA ShareIs ==
  ASSUME NEW f, NEW i, NEW m, NEW a, Len(m) = a
  PROVE  Share(f, i, m) = Blocks(f, i, m, ShareLength(f, i, a))
BY DEF Share, Blocks, Place, Stripe

\* With its part of the rest a leaf has taken its share of the whole input.
LEMMA LastPartTakes ==
  ASSUME NEW f \in Family, NEW i \in Leaves(f), NEW P, NEW key, Row(key, Len(key)),
         NEW q \in Nat, NEW m, NEW o, NEW l, NEW S,
         LeafHas(f, S, P, key, i, m, q * BLOCKBYTES[f], o, l),
         NEW rest, NEW x \in Nat, Slice(rest, m, q * Stripe(f), x)
  PROVE  LeafHas(f, LastPart(f, S, i, rest), P, key, i, m,
                 q * BLOCKBYTES[f] + PartLength(f, i, x), o, l)
<1> DEFINE from == (i - 1) * BLOCKBYTES[f]
           size == BLOCKBYTES[f]
           qs == q * Stripe(f)
           c == q * BLOCKBYTES[f]
           n == PartLength(f, i, x)
           end == Minimum(x, from + size)
           part == SubSeq(rest, from + 1, end)
<1>1. from \in Nat /\ size \in Nat /\ Stripe(f) \in Nat
  BY LeafNumbers
<1>2. qs \in Nat /\ c \in Nat
  BY <1>1
<1>3. Row(rest, x)
  BY DEF Slice
<1>4. Len(rest) = x
  BY <1>3, RowIs
<1>5. LastPart(f, S, i, rest) = IF x > from THEN update(f, S, part) ELSE S
  BY <1>4 DEF LastPart
<1>6. n = IF x - from <= 0 THEN 0 ELSE Minimum(x - from, size)
  BY DEF PartLength
<1>7. n \in Nat /\ n <= BLOCKBYTES[f]
  BY PartLengthIs
<1> HIDE DEF from, n, c, qs
<1>8. CASE x > from
  <2>1. end \in Nat /\ from <= end /\ end <= x /\ end - from = n /\ from + n <= x
    <3>1. n = Minimum(x - from, size)
      BY <1>1, <1>6, <1>8
    <3>2. end = IF x < from + size THEN x ELSE from + size
      BY DEF Minimum
    <3>3. n = IF x - from < size THEN x - from ELSE size
      BY <3>1 DEF Minimum
    <3> HIDE DEF end, size
    <3> QED
      BY <1>1, <1>8, <3>2, <3>3
  <2> HIDE DEF end
  <2>2. Slice(part, rest, from, n)
    <3>1. Slice(part, rest, from, end - from)
      BY <1>1, <1>3, <2>1, SliceIs
    <3> QED
      BY <2>1, <3>1
  <2> HIDE DEF part
  <2>3. Slice(part, m, qs + from, n)
    BY <1>1, <1>2, <1>7, <2>1, <2>2, SliceOfSlice DEF qs
  <2>4. Slice(part, m, q * Stripe(f) + (i - 1) * BLOCKBYTES[f], n)
    BY <2>3 DEF qs, from
  <2>5. Agree(m, m, q * Stripe(f))
    BY DEF Agree
  <2>6. LeafHas(f, update(f, S, part), P, key, i, m, q * BLOCKBYTES[f] + n, o, l)
    BY <1>7, <2>4, <2>5, LeafTakes
  <2> QED
    BY <1>5, <1>8, <2>6 DEF n
<1>9. CASE ~(x > from)
  <2>1. n = 0
    BY <1>1, <1>6, <1>9
  <2>2. c + n = c
    BY <1>2, <2>1
  <2>3. LeafHas(f, S, P, key, i, m, c + n, o, l)
    BY <2>2 DEF c
  <2> QED
    BY <1>5, <1>9, <2>3 DEF c, n
<1> QED
  BY <1>8, <1>9

\* What leaf i of a tree over m ends with.
LeafDigest(f, asked, key, m, i) ==
  Digest(HashOf(f, TreeParam(f, asked, Len(key), i - 1, 0), IsLast(f, i),
                Keyed(f, key, Share(f, i, m))), OUTBYTES[f])

LeafEnded(f, end, asked, key, m, i) ==
  /\ end.ret = 0 /\ Spent(f, end.S)
  /\ end.out = LeafDigest(f, asked, key, m, i)

\* A leaf with its whole share answers its digest.
LEMMA LeafEnds ==
  ASSUME NEW f \in Family, NEW i \in Leaves(f), NEW asked, NEW key, Row(key, Len(key)),
         NEW m, NEW a, Row(m, a), NEW S,
         LeafHas(f, S, TreeParam(f, asked, Len(key), i - 1, 0), key, i, m,
                 ShareLength(f, i, a), OUTBYTES[f], IsLast(f, i))
  PROVE  LeafEnded(f, final(f, S, OUTBYTES[f]), asked, key, m, i)
<1> DEFINE n == ShareLength(f, i, a)
           P == TreeParam(f, asked, Len(key), i - 1, 0)
           o == OUTBYTES[f]
           l == IsLast(f, i)
           share == Share(f, i, m)
           d == Keyed(f, key, share)
           c == KeyLen(f, key) + n
<1>1. a \in Nat /\ Len(m) = a
  BY RowIs DEF Row
<1>2. n \in Nat
  BY <1>1, ShareLengthIs
<1>3. share = Blocks(f, i, m, n)
  BY <1>1, ShareIs
<1> HIDE DEF n, share
<1>4. Row(share, n)
  BY <1>2, <1>3, BlocksRow
<1>5. Row(d, c)
  BY <1>4, KeyedIs
<1>6. Absorbed(f, S, P, d, c, o, l)
  BY <1>3 DEF LeafHas, n
<1>7. o \in Nat /\ o >= o
  BY Constants
<1>8. l \in BOOLEAN
  BY DEF IsLast
<1> HIDE DEF d, c, P, o, l
<1>9. /\ final(f, S, o).ret = 0
      /\ Spent(f, final(f, S, o).S)
      /\ final(f, S, o).out = Digest(HashOf(f, P, l, d), Written(f, o, o))
  BY <1>5, <1>6, <1>7, <1>8, FinalHashes
<1>10. Written(f, o, o) = o
  BY DEF Written
<1> QED
  BY <1>9, <1>10 DEF LeafEnded, LeafDigest, P, o, l, d, share

\* Pieces of one length, one behind the other.
LEMMA InPiecesLined ==
  ASSUME NEW pieces, NEW n \in Nat, NEW z \in Nat \ {0},
         \A j \in 1 .. n : Row(pieces[j], z), NEW len, len = n * z
  PROVE  /\ Row(InPieces(pieces, z, len), len)
         /\ Lined(pieces, n, InPieces(pieces, z, len), 0, z)
<1> DEFINE e == InPieces(pieces, z, len)
<1>1. len \in Nat
  OBVIOUS
<1>2. Row(e, len)
  BY <1>1 DEF InPieces, Row
<1>3. ASSUME NEW j \in 1 .. n PROVE Slice(pieces[j], e, 0 + (j - 1) * z, z)
  <2>1. ASSUME NEW p \in 1 .. z PROVE pieces[j][p] = e[0 + (j - 1) * z + p]
    <3> DEFINE i == j - 1
               x == p - 1
               c == i * z
               k == c + p
    <3>1. i \in Nat /\ x \in Nat /\ x < z /\ i + 1 = j /\ x + 1 = p
      OBVIOUS
    <3>2. c \in Nat /\ (i + 1) * z = c + z
      BY <3>1, TimesNext
    <3>3. c + z <= len
      <4>1. j * z <= n * z
        <5>1. n - j \in Nat
          OBVIOUS
        <5>2. (n - j) * z \in Nat
          BY <5>1
        <5>3. n * z = j * z + (n - j) * z
          OBVIOUS
        <5> DEFINE u == j * z
                   v == (n - j) * z
                   w == n * z
        <5>4. u \in Nat /\ v \in Nat /\ w = u + v
          BY <5>2, <5>3
        <5> HIDE DEF u, v, w
        <5>5. u <= w
          BY <5>4
        <5> QED
          BY <5>5 DEF u, w
      <4> QED
        BY <3>1, <3>2, <4>1
    <3>4. (i * z + x) \div z = i /\ (i * z + x) % z = x
      BY <3>1, DivUnique
    <3> HIDE DEF i, x, c
    <3>5. k \in 1 .. len /\ k - 1 = c + x
      BY <1>1, <3>1, <3>2, <3>3
    <3>6. ((k - 1) \div z) + 1 = j /\ ((k - 1) % z) + 1 = p
      BY <3>1, <3>4, <3>5 DEF c
    <3> HIDE DEF k
    <3>7. e[k] = pieces[((k - 1) \div z) + 1][((k - 1) % z) + 1]
      BY <3>5 DEF InPieces
    <3>8. 0 + (j - 1) * z + p = k
      BY <3>2 DEF k, c, i
    <3> QED
      BY <3>6, <3>7, <3>8
  <2> QED
    BY <2>1 DEF Slice
<1> QED
  BY <1>2, <1>3 DEF Lined
\* The digests of the leaves, one behind the other: what the root is over.
LeafDigests(f, asked, key, m) == [i \in Leaves(f) |-> LeafDigest(f, asked, key, m, i)]
Joined(f, asked, key, m) ==
  InPieces(LeafDigests(f, asked, key, m), OUTBYTES[f], DEGREE[f] * OUTBYTES[f])

\* TreeDigest in the terms of the leaves' digests.
LEMMA TreeDigestIs ==
  ASSUME NEW f, NEW asked, NEW key, NEW m
  PROVE  TreeDigest(f, asked, key, m)
           = Digest(HashOf(f, TreeParam(f, asked, Len(key), 0, 1), TRUE,
                           Joined(f, asked, key, m)), asked)
BY DEF TreeDigest, Joined, LeafDigests, LeafDigest, IsLast

\* The digests lie one behind the other in what the root takes.
LEMMA JoinedLined ==
  ASSUME NEW f \in Family, NEW asked, NEW key, NEW m
  PROVE  /\ Row(Joined(f, asked, key, m), DEGREE[f] * OUTBYTES[f])
         /\ Lined(LeafDigests(f, asked, key, m), DEGREE[f], Joined(f, asked, key, m), 0, OUTBYTES[f])
         /\ Row(LeafDigests(f, asked, key, m), DEGREE[f])
<1> DEFINE d == LeafDigests(f, asked, key, m)
           n == DEGREE[f]
           z == OUTBYTES[f]
           len == n * z
<1>1. n \in Nat /\ z \in Nat \ {0}
  BY Constants
<1>2. ASSUME NEW j \in 1 .. n PROVE Row(d[j], z)
  <2>1. d[j] = LeafDigest(f, asked, key, m, j)
    BY DEF LeafDigests, Leaves
  <2>2. \A h : Row(Digest(h, z), z)
    BY <1>1 DEF Digest, Row
  <2> HIDE DEF d
  <2> QED
    BY <2>1, <2>2 DEF LeafDigest
<1>3. Row(d, n)
  BY <1>1 DEF LeafDigests, Leaves, Row
<1>4. len = n * z
  OBVIOUS
<1> HIDE DEF d, n, z, len
<1>5. /\ Row(InPieces(d, z, len), len)
      /\ Lined(d, n, InPieces(d, z, len), 0, z)
  BY <1>1, <1>2, <1>4, InPiecesLined
<1> QED
  BY <1>3, <1>5 DEF Joined, d, n, z, len

\* What the root answers over leaves that ended.
LeavesEnded(f, ends, asked, key, m) ==
  \A i \in Leaves(f) : LeafEnded(f, ends[i], asked, key, m, i)
RootReady(f, R, asked, key) ==
  Absorbed(f, R, TreeParam(f, asked, Len(key), 0, 1), <<>>, 0, asked, TRUE)
TreeAnswers(f, end, asked, key, m) ==
  end.ret = 0 /\ Spent(f, end.S) /\ end.out = TreeDigest(f, asked, key, m)

\* Over leaves that have answered, the root answers the digest of the tree.
LEMMA RootEnds ==
  ASSUME NEW f \in Family, NEW asked \in Nat, NEW key, NEW m, NEW ends, NEW R,
         LeavesEnded(f, ends, asked, key, m), RootReady(f, R, asked, key)
  PROVE  TreeAnswers(f, final(f, RootOver(f, R, ends), asked), asked, key, m)
<1> DEFINE P == TreeParam(f, asked, Len(key), 0, 1)
           d == LeafDigests(f, asked, key, m)
           e == Joined(f, asked, key, m)
           n == DEGREE[f]
           z == OUTBYTES[f]
           len == n * z
           none == <<>>
<1>1. \A i \in Leaves(f) : ends[i].ret = 0 /\ ends[i].out = LeafDigest(f, asked, key, m, i)
  BY DEF LeavesEnded, LeafEnded
<1>2. RootOver(f, R, ends) = updates(f, R, d)
  BY <1>1 DEF RootOver, LeafDigests
<1>3. Row(e, len) /\ Lined(d, n, e, 0, z) /\ Row(d, n)
  BY JoinedLined
<1>4. n \in Nat /\ z \in Nat /\ 0 \in Nat
  BY Constants
<1>5. Agree(none, e, 0)
  BY DEF Agree
<1> HIDE DEF P, d, e, n, z, none
<1>6. Absorbed(f, R, P, none, 0, asked, TRUE)
  BY DEF RootReady, P, none
<1>7. Absorbed(f, R, P, e, 0, asked, TRUE)
  BY <1>4, <1>5, <1>6, AbsorbedSame
<1>8. Absorbed(f, updates(f, R, d), P, e, 0 + n * z, asked, TRUE)
  BY <1>3, <1>4, <1>7, UpdatesAbsorb
<1>9. 0 + n * z = len
  BY <1>4
<1>10. Absorbed(f, updates(f, R, d), P, e, len, asked, TRUE)
  BY <1>8, <1>9
<1> DEFINE T == updates(f, R, d)
           l == TRUE
<1>11. asked >= asked /\ l \in BOOLEAN
  OBVIOUS
<1> HIDE DEF T, len, l
<1>12. Absorbed(f, T, P, e, len, asked, l)
  BY <1>10 DEF T, l
<1>13. /\ final(f, T, asked).ret = 0
       /\ Spent(f, final(f, T, asked).S)
       /\ final(f, T, asked).out = Digest(HashOf(f, P, l, e), Written(f, asked, asked))
  BY <1>3, <1>11, <1>12, FinalHashes
<1>14. Written(f, asked, asked) = asked
  BY DEF Written
<1> QED
  BY <1>2, <1>13, <1>14, TreeDigestIs DEF TreeAnswers, T, P, e, l
-----------------------------------------------------------------------------
(* Calls after the end *)

\* Updates neither clear the final flag nor leave the buffer in another shape.
Flagged(T, S) == IsState(T) /\ T.f0 = TRUE /\ T.buflen = S.buflen

\* A whole block keeps them,
LEMMA CompressWholeFlagged ==
  ASSUME NEW f, NEW S, IsState(S), S.f0 = TRUE, NEW block
  PROVE  Flagged(CompressWhole(f, S, block), S)
<1> DEFINE size == BLOCKBYTES[f]
           c0 == (S.t0 + size) % WORD[f]
           c1 == (S.t1 + (IF c0 < size THEN 1 ELSE 0)) % WORD[f]
           R == increment_counter(f, S, size)
           T == CompressWhole(f, S, block)
<1>1. R = [h |-> S.h, t0 |-> c0, t1 |-> c1, f0 |-> S.f0, f1 |-> S.f1,
           buf |-> S.buf, buflen |-> S.buflen, outlen |-> S.outlen, last_node |-> S.last_node]
  <2>1. c0 = (S.t0 + size) % WORD[f] /\ c1 = (S.t1 + (IF c0 < size THEN 1 ELSE 0)) % WORD[f]
    OBVIOUS
  <2> HIDE DEF c0, c1, size
  <2> QED
    BY <2>1, IncrementIs
<1>2. T = compress(R, block)
  BY DEF CompressWhole
<1> HIDE DEF R, T, c0, c1
<1>3. IsState(R) /\ R.f0 = TRUE /\ R.buflen = S.buflen
  BY <1>1 DEF IsState
<1>4. T = [h |-> Append(R.h, [m |-> block, t |-> <<R.t0, R.t1>>, f |-> <<R.f0, R.f1>>]),
           t0 |-> R.t0, t1 |-> R.t1, f0 |-> R.f0, f1 |-> R.f1,
           buf |-> R.buf, buflen |-> R.buflen, outlen |-> R.outlen, last_node |-> R.last_node]
  BY <1>2, <1>3, CompressIs
<1>5. IsState(T) /\ T.f0 = TRUE /\ T.buflen = S.buflen
  <2> DEFINE x == Append(R.h, [m |-> block, t |-> <<R.t0, R.t1>>, f |-> <<R.f0, R.f1>>])
  <2> HIDE DEF x
  <2>1. T = [h |-> x,
           t0 |-> R.t0, t1 |-> R.t1, f0 |-> R.f0, f1 |-> R.f1,
           buf |-> R.buf, buflen |-> R.buflen, outlen |-> R.outlen, last_node |-> R.last_node]
    BY <1>4 DEF x
  <2> QED
    BY <1>3, <2>1 DEF IsState
<1> QED
  BY <1>5 DEF Flagged, T

\* and so do any number of them,
LEMMA CompressAllFlagged ==
  ASSUME NEW f, NEW S, IsState(S), S.f0 = TRUE, NEW in, NEW whole \in Nat
  PROVE  Flagged(CompressAll(f, S, in, whole), S)
<1>1. PICK g : /\ IsLoop(g, "blocks", f, S, in, whole)
               /\ CompressAll(f, S, in, whole) = g[whole]
  BY CompressAllIsLoop
<1>2. g[0] = S /\ \A j \in 0 .. (whole - 1) : g[j + 1] = Step("blocks", f, g[j], in, j + 1)
  <2>1. Runs(g, "blocks", f, S, in, whole)
    BY <1>1, LoopRuns
  <2> QED
    BY <2>1 DEF Runs
<1> DEFINE Good == {j \in Nat : j <= whole => Flagged(g[j], S)}
<1>3. 0 \in Good
  BY <1>2 DEF Flagged
<1>4. ASSUME NEW j \in Good PROVE j + 1 \in Good
  <2> SUFFICES ASSUME j + 1 <= whole PROVE Flagged(g[j + 1], S)
    OBVIOUS
  <2>1. j \in 0 .. (whole - 1) /\ j <= whole
    OBVIOUS
  <2>2. Flagged(g[j], S)
    BY <2>1
  <2> DEFINE block == SubSeq(in, ((j + 1) - 1) * BLOCKBYTES[f] + 1, (j + 1) * BLOCKBYTES[f])
             T == g[j]
  <2>3. g[j + 1] = CompressWhole(f, T, block)
    BY <1>2, <2>1 DEF Step
  <2> HIDE DEF block, T
  <2>4. IsState(T) /\ T.f0 = TRUE
    BY <2>2 DEF Flagged, T
  <2>5. Flagged(CompressWhole(f, T, block), T)
    BY <2>4, CompressWholeFlagged
  <2> QED
    BY <2>2, <2>3, <2>5 DEF Flagged, T
<1> HIDE DEF Good
<1>5. Good \in SUBSET Nat
  BY DEF Good
<1>6. whole \in Good
  BY <1>3, <1>4, <1>5, InductionOn
<1> QED
  BY <1>1, <1>6 DEF Good

\* and bytes kept in the buffer.
LEMMA KeepFlagged ==
  ASSUME NEW S, IsState(S), S.f0 = TRUE, NEW in, NEW k, Row(in, k)
  PROVE  /\ IsState(Keep(S, in)) /\ Keep(S, in).f0 = TRUE
         /\ Keep(S, in).buflen = S.buflen + k
<1> DEFINE b == Overwrite(S.buf, S.buflen, in)
           T == Keep(S, in)
<1>1. Len(in) = k
  BY RowIs
<1>2. T = [S EXCEPT !.buf = b, !.buflen = S.buflen + k]
  BY <1>1 DEF Keep
<1> HIDE DEF b, T
<1>3. T = [h |-> S.h, t0 |-> S.t0, t1 |-> S.t1, f0 |-> S.f0, f1 |-> S.f1,
           buf |-> b, buflen |-> S.buflen + k, outlen |-> S.outlen, last_node |-> S.last_node]
  BY ZenonT(60), <1>2, BufferIs
<1>4. IsState(T) /\ T.f0 = TRUE /\ T.buflen = S.buflen + k
  BY <1>3 DEF IsState
<1> QED
  BY <1>4 DEF T

\* Whatever is put into a finished state, it stays one.
LEMMA UpdateSpent ==
  ASSUME NEW f \in Family, NEW S, Spent(f, S), NEW in, NEW k, Row(in, k)
  PROVE  Spent(f, update(f, S, in))
<1> DEFINE size == BLOCKBYTES[f]
           b == S.buflen
           fill == size - b
           filled == Overwrite(S.buf, b, SubSeq(in, 1, fill))
           rest == SubSeq(in, fill + 1, Len(in))
           r == k - fill
           whole == (Len(rest) - 1) \div size
           opened == [S EXCEPT !.buf = filled, !.buflen = 0]
           first == CompressWhole(f, opened, filled)
           more == CompressAll(f, first, rest, whole)
           tail == SubSeq(rest, whole * size + 1, Len(rest))
           T == update(f, S, in)
<1>1. size \in Nat \ {0} /\ b \in Nat /\ b <= size /\ fill \in Nat /\ k \in Nat /\ Len(in) = k
  <2>1. size \in Nat \ {0} /\ k \in Nat /\ Len(in) = k /\ S.buflen \in 0 .. size
    BY Constants, RowIs DEF Row, Spent
  <2> HIDE DEF size
  <2> QED
    BY <2>1
<1>2. IsState(S) /\ S.f0 = TRUE
  BY DEF Spent
<1>3. CASE ~(k > fill)
  <2>1. T = Keep(S, in)
    BY <1>1, <1>3 DEF update
  <2> HIDE DEF T, size
  <2>2. IsState(T) /\ T.f0 = TRUE /\ T.buflen = b + k
    BY <1>2, <2>1, KeepFlagged
  <2>3. b + k \in 0 .. size
    BY <1>1, <1>3
  <2> QED
    BY <2>2, <2>3 DEF Spent, size, T
<1>4. CASE k > fill
  <2>1. T = Keep(more, tail)
    BY <1>1, <1>4 DEF update
  <2> HIDE DEF T, b, filled
  <2>2. fill <= k /\ r \in Nat /\ r > 0
    <3> HIDE DEF size
    <3> QED
      BY <1>1, <1>4
  <2> HIDE DEF fill
  <2>3. Slice(rest, in, fill, r)
    BY <1>1, <2>2, SliceIs
  <2>4. Row(rest, r) /\ Len(rest) = r
    BY <2>3, RowIs DEF Slice
  <2> HIDE DEF rest, r
  <2>5. IsState(opened) /\ opened.f0 = TRUE /\ opened.buflen = 0
    <3>1. opened = [h |-> S.h, t0 |-> S.t0, t1 |-> S.t1, f0 |-> S.f0, f1 |-> S.f1,
             buf |-> filled, buflen |-> 0, outlen |-> S.outlen, last_node |-> S.last_node]
      BY <1>2, BufferIs
    <3> HIDE DEF opened
    <3> QED
      BY <1>2, <3>1 DEF IsState
  <2> HIDE DEF opened
  <2>6. IsState(first) /\ first.f0 = TRUE /\ first.buflen = 0
    <3>1. Flagged(first, opened)
      BY <2>5, CompressWholeFlagged
    <3> QED
      BY <2>5, <3>1 DEF Flagged
  <2>7. whole = Wholes(f, r)
    BY <2>2, <2>4 DEF Wholes
  <2> HIDE DEF first, whole
  <2> DEFINE w == whole * size
  <2>8. whole \in Nat /\ w \in Nat /\ w < r /\ r <= w + size
    BY <2>2, <2>7, WholesIs
  <2>9. IsState(more) /\ more.f0 = TRUE /\ more.buflen = 0
    <3>1. Flagged(more, first)
      BY <2>6, <2>8, CompressAllFlagged
    <3> QED
      BY <2>6, <3>1 DEF Flagged
  <2>10. tail = SubSeq(rest, w + 1, r)
    BY <2>4
  <2> HIDE DEF w, more, tail, size
  <2>11. Slice(tail, rest, w, r - w)
    <3>1. w <= r
      BY <2>2, <2>8
    <3> QED
      BY <2>2, <2>4, <2>8, <2>10, <3>1, SliceIs
  <2>12. IsState(T) /\ T.f0 = TRUE /\ T.buflen = 0 + (r - w)
    <3>1. Row(tail, r - w)
      BY <2>11 DEF Slice
    <3> QED
      BY <2>1, <2>9, <3>1, KeepFlagged
  <2>13. 0 + (r - w) \in 0 .. size
    BY <1>1, <2>2, <2>8
  <2> QED
    BY <2>12, <2>13 DEF Spent, size, T
<1> QED
  BY <1>3, <1>4

\* A state that has answered stays one through updates.
LEMMA UpdatesSpent ==
  ASSUME NEW f \in Family, NEW S, Spent(f, S), NEW pieces, NEW n, Row(pieces, n),
         \A j \in 1 .. n : Row(pieces[j], Len(pieces[j]))
  PROVE  Spent(f, updates(f, S, pieces))
<1>0. Len(pieces) = n /\ n \in Nat
  BY RowIs DEF Row
<1>1. PICK g : /\ IsLoop(g, "pieces", f, S, pieces, n)
               /\ updates(f, S, pieces) = g[n]
  BY <1>0, UpdatesIsLoop
<1>2. g[0] = S /\ \A j \in 0 .. (n - 1) : g[j + 1] = Step("pieces", f, g[j], pieces, j + 1)
  <2>1. Runs(g, "pieces", f, S, pieces, n)
    BY <1>0, <1>1, LoopRuns
  <2> QED
    BY <2>1 DEF Runs
<1> DEFINE Good == {j \in Nat : j <= n => Spent(f, g[j])}
<1>3. 0 \in Good
  BY <1>2
<1>4. ASSUME NEW j \in Good PROVE j + 1 \in Good
  <2> SUFFICES ASSUME j + 1 <= n PROVE Spent(f, g[j + 1])
    OBVIOUS
  <2>1. j \in 0 .. (n - 1) /\ j <= n /\ j + 1 \in 1 .. n
    BY <1>0
  <2>2. Spent(f, g[j])
    BY <2>1
  <2> DEFINE T == g[j]
             in == pieces[j + 1]
             k == Len(in)
  <2>3. g[j + 1] = update(f, T, in)
    BY <1>2, <2>1 DEF Step
  <2>4. Row(in, k) /\ Spent(f, T)
    BY <2>1, <2>2
  <2> HIDE DEF T, in, k
  <2>5. Spent(f, update(f, T, in))
    BY <2>4, UpdateSpent
  <2> QED
    BY <2>3, <2>5
<1> HIDE DEF Good
<1>5. Good \in SUBSET Nat
  BY DEF Good
<1>6. n \in Good
  BY <1>0, <1>3, <1>4, <1>5, InductionOn
<1> QED
  BY <1>0, <1>1, <1>6 DEF Good

\* A block of any stripe is a row: it may be put into a spent leaf.
LEMMA BlockOfRow ==
  ASSUME NEW f \in Family, NEW i \in Leaves(f), NEW in, NEW r, Row(in, r),
         NEW w \in Nat, w * Stripe(f) <= r, NEW j \in 1 .. w
  PROVE  Row(BlockOf(f, in, j, i), Len(BlockOf(f, in, j, i)))
<1> DEFINE t == BlockOf(f, in, j, i)
           z == BLOCKBYTES[f]
<1>1. Slice(in, in, 0 * Stripe(f), r)
  <2>1. 0 * Stripe(f) = 0
    BY LeafNumbers
  <2>2. r \in Nat /\ \A p \in 1 .. r : in[p] = in[0 + p]
    BY DEF Row
  <2> QED
    BY <2>1, <2>2 DEF Slice
<1>2. Slice(t, in, (0 + (j - 1)) * Stripe(f) + (i - 1) * BLOCKBYTES[f], z)
  <2> DEFINE q == 0
  <2>1. q \in Nat /\ Slice(in, in, q * Stripe(f), r)
    BY <1>1
  <2> HIDE DEF q, z, t
  <2>2. Slice(t, in, (q + (j - 1)) * Stripe(f) + (i - 1) * BLOCKBYTES[f], z)
    BY <2>1, BlockOfIs DEF t, z
  <2> QED
    BY <2>2 DEF q
<1> HIDE DEF t, z
<1>3. Row(t, z)
  BY <1>2 DEF Slice
<1>4. Row(t, Len(t))
  BY <1>3, RowIs
<1> QED
  BY <1>4 DEF t

\* A leaf that has answered stays one through Spread.
LEMMA SpreadSpent ==
  ASSUME NEW f \in Family, NEW i \in Leaves(f), NEW S, Spent(f, S), NEW in, NEW r, Row(in, r)
  PROVE  Spent(f, Spread(f, S, i, in))
<1> DEFINE s == Stripe(f)
           w == r \div s
           pieces == [j \in 1 .. w |-> BlockOf(f, in, j, i)]
<1>1. s \in Nat \ {0} /\ r \in Nat /\ Len(in) = r
  BY LeafNumbers, RowIs DEF Row
<1>2. Spread(f, S, i, in) = updates(f, S, pieces)
  BY <1>1 DEF Spread, Stripe
<1> HIDE DEF s
<1>3. w \in Nat /\ r % s \in Nat /\ r = w * s + (r % s)
  BY <1>1, DivMod
<1>4. w * s <= r
  <2> DEFINE c == w * s
             x == r % s
  <2>1. c \in Nat /\ x \in Nat /\ r = c + x
    BY <1>1, <1>3
  <2> HIDE DEF c, x
  <2>2. c <= r
    BY <1>1, <2>1
  <2> QED
    BY <2>2 DEF c
<1> HIDE DEF w
<1>5. ASSUME NEW j \in 1 .. w PROVE Row(pieces[j], Len(pieces[j]))
  <2>1. w * Stripe(f) <= r
    BY <1>4 DEF s
  <2>2. Row(BlockOf(f, in, j, i), Len(BlockOf(f, in, j, i)))
    BY <1>3, <2>1, BlockOfRow
  <2>3. pieces[j] = BlockOf(f, in, j, i)
    OBVIOUS
  <2> QED
    BY <2>2, <2>3
<1>6. Row(pieces, w)
  BY <1>3 DEF Row
<1> HIDE DEF pieces
<1> QED
  BY <1>2, <1>5, <1>6, UpdatesSpent

\* A finished tree, and whatever is put into it after that.
SpentTree(f, S) ==
  /\ IsTree(S)
  /\ \A i \in Leaves(f) : Spent(f, S.S[i])
  /\ Spent(f, S.R)
  /\ Row(S.buf, Stripe(f)) /\ S.buflen \in 0 .. (Stripe(f) - 1)

\* A tree that has answered stays one through tree_update.
LEMMA TreeUpdateSpent ==
  ASSUME NEW f \in Family, NEW S, SpentTree(f, S), NEW in, NEW k, Row(in, k)
  PROVE  SpentTree(f, tree_update(f, S, in))
<1> DEFINE s == Stripe(f)
           b == S.buflen
           T == tree_update(f, S, in)
           buf == FlushBuf(f, S, in)
           left == FlushLeft(f, S, in)
           rest == FlushRest(f, S, in)
           tail == TailOf(f, rest)
<1>0. \E i : i \in Leaves(f)
  BY Constants DEF Leaves
<1>1. s \in Nat \ {0} /\ k \in Nat /\ Len(in) = k
  BY <1>0, LeafNumbers, RowIs DEF Row
<1>2. IsTree(S) /\ (\A i \in Leaves(f) : Spent(f, S.S[i])) /\ Spent(f, S.R) /\ Row(S.buf, s)
      /\ b \in 0 .. (s - 1)
  BY DEF SpentTree
<1>3. T = [S |-> [i \in Leaves(f) |-> Spread(f, Flushed(f, S, in, i), i, rest)],
           R |-> S.R, buf |-> Overwrite(buf, left, tail), buflen |-> left + Len(tail),
           outlen |-> S.outlen]
  BY <1>2, TreeUpdateIs
<1> HIDE DEF T
<1>4. /\ IsTree(T) /\ T.R = S.R /\ T.buf = Overwrite(buf, left, tail)
      /\ T.buflen = left + Len(tail)
      /\ T.S = [i \in Leaves(f) |-> Spread(f, Flushed(f, S, in, i), i, rest)]
  BY <1>3 DEF IsTree
<1>5. b \in Nat /\ b < s
  BY <1>1, <1>2
<1> DEFINE flush == b > 0 /\ k >= s - b
           fill == s - b
           r == IF flush THEN k - fill ELSE k
           begin == SubSeq(in, 1, fill)
<1>6. Flushes(f, S, in) = flush
  BY <1>1 DEF Flushes
<1>7. buf = (IF flush THEN Overwrite(S.buf, b, begin) ELSE S.buf)
      /\ left = (IF flush THEN 0 ELSE b)
      /\ rest = (IF flush THEN SubSeq(in, fill + 1, k) ELSE in)
      /\ \A i \in Leaves(f) : Flushed(f, S, in, i)
            = (IF flush THEN update(f, S.S[i], BlockOf(f, buf, 1, i)) ELSE S.S[i])
  BY <1>1, <1>6 DEF FlushBuf, FlushLeft, FlushRest, Flushed
<1> HIDE DEF buf, left, rest, tail, begin
<1>8. fill \in Nat /\ fill + b = s /\ (flush => fill <= k)
  BY <1>1, <1>5
<1> HIDE DEF s, b
<1>9. Row(buf, s)
  <2>1. CASE flush
    <3>1. Slice(SubSeq(in, 0 + 1, fill), in, 0, fill - 0)
      BY <1>1, <1>8, <2>1, SliceIs
    <3>2. Row(begin, fill)
      BY <1>8, <3>1 DEF Slice, begin
    <3> HIDE DEF fill, flush
    <3>3. Spliced(Overwrite(S.buf, b, begin), s, S.buf, b, begin, fill)
      BY <1>2, <1>5, <3>2, OverwriteIs
    <3> QED
      BY <1>7, <2>1, <3>3 DEF Spliced
  <2>2. CASE ~flush
    BY <1>2, <1>7, <2>2
  <2> QED
    BY <2>1, <2>2
<1>10. Row(rest, r) /\ r \in Nat
  <2>1. CASE flush
    <3>1. k - fill \in Nat
      BY <1>1, <1>8, <2>1
    <3>2. Slice(SubSeq(in, fill + 1, k), in, fill, k - fill)
      BY <1>1, <1>8, <2>1, SliceIs
    <3> HIDE DEF fill, flush
    <3> QED
      BY <1>7, <2>1, <3>1, <3>2 DEF Slice
  <2>2. CASE ~flush
    BY <1>1, <1>7, <2>2
  <2> QED
    BY <2>1, <2>2
<1>11. Len(rest) = r
  <2> HIDE DEF r
  <2> QED
    BY <1>10, RowIs
<1> DEFINE x == r % s
           ws == (r \div s) * s
<1>12. x \in Nat /\ x < s /\ ws \in Nat /\ r = ws + x
  <2> HIDE DEF r
  <2>1. x \in Nat /\ x < s /\ r \div s \in Nat /\ r = (r \div s) * s + x
    BY <1>1, <1>10, DivMod
  <2> HIDE DEF x
  <2> QED
    BY <1>1, <2>1
<1>13. left + x \in 0 .. (s - 1)
  <2>1. CASE flush
    <3>1. left = 0
      BY <1>7, <2>1
    <3> HIDE DEF x
    <3> QED
      BY <1>1, <1>12, <3>1
  <2>2. CASE ~flush /\ b = 0
    <3>1. left = 0
      BY <1>7, <2>2
    <3> HIDE DEF x
    <3> QED
      BY <1>1, <1>12, <3>1
  <2>3. CASE ~flush /\ b # 0
    <3>1. left = b /\ r = k
      BY <1>7, <2>3
    <3>2. k < s /\ b + k < s
      BY <1>1, <1>5, <2>3
    <3>3. x = k
      <4>1. (0 * s + k) % s = k
        BY <1>1, <3>2, DivUnique
      <4>2. 0 * s + k = k
        BY <1>1
      <4> QED
        BY <3>1, <4>1, <4>2
    <3> HIDE DEF x
    <3> QED
      BY <1>1, <1>5, <3>1, <3>2, <3>3
  <2> QED
    BY <2>1, <2>2, <2>3
<1>14. Row(tail, x)
  <2>1. tail = SubSeq(rest, r - x + 1, r)
    BY <1>11 DEF tail, TailOf, s
  <2> HIDE DEF x, ws, r
  <2>2. r - x = ws /\ ws <= r /\ r - ws = x
    BY <1>10, <1>12
  <2>3. Slice(SubSeq(rest, ws + 1, r), rest, ws, r - ws)
    BY <1>10, <1>12, <2>2, SliceIs
  <2> QED
    BY <2>1, <2>2, <2>3 DEF Slice
<1>15. Len(tail) = x
  <2> HIDE DEF x
  <2> QED
    BY <1>14, RowIs
<1> HIDE DEF x, r
<1>16. T.buflen \in 0 .. (s - 1)
  BY <1>4, <1>13, <1>15
<1>17. Row(T.buf, s)
  <2>1. left \in Nat
    BY <1>5, <1>7
  <2>2. Spliced(Overwrite(buf, left, tail), s, buf, left, tail, x)
    BY <1>9, <1>14, <2>1, OverwriteIs
  <2> QED
    BY <1>4, <2>2 DEF Spliced
<1>18. ASSUME NEW i \in Leaves(f) PROVE Spent(f, T.S[i])
  <2> DEFINE L == Flushed(f, S, in, i)
  <2>1. Spent(f, L)
    <3>1. CASE flush
      <4> DEFINE block == BlockOf(f, buf, 1, i)
                 n == Len(block)
                 M == S.S[i]
      <4>1. 1 * Stripe(f) <= s /\ 1 \in Nat /\ 1 \in 1 .. 1
        BY <1>1 DEF s
      <4>2. Row(block, n)
        <5> DEFINE one == 1
        <5>1. one * Stripe(f) <= s /\ one \in Nat /\ one \in 1 .. one
          BY <4>1
        <5> HIDE DEF one, block
        <5>2. Row(BlockOf(f, buf, one, i), Len(BlockOf(f, buf, one, i)))
          BY <1>9, <5>1, BlockOfRow
        <5> QED
          BY <5>2 DEF one, block
      <4>3. L = update(f, M, block) /\ Spent(f, M)
        BY <1>2, <1>7, <3>1
      <4> HIDE DEF block, n, M, L
      <4> QED
        BY <4>2, <4>3, UpdateSpent
    <3>2. CASE ~flush
      BY <1>2, <1>7, <3>2
    <3> QED
      BY <3>1, <3>2
  <2> HIDE DEF L
  <2>2. Spent(f, Spread(f, L, i, rest))
    BY <1>10, <2>1, SpreadSpent
  <2>3. T.S[i] = Spread(f, L, i, rest)
    BY <1>4 DEF L
  <2> QED
    BY <2>2, <2>3
<1>19. Row(T.buf, Stripe(f)) /\ T.buflen \in 0 .. (Stripe(f) - 1)
  BY <1>16, <1>17 DEF s
<1> QED
  BY <1>2, <1>4, <1>18, <1>19 DEF SpentTree, T
-----------------------------------------------------------------------------
(* The final call of a tree *)

\* What is left in the buffer, and the leaves after the last part of it.
RestOf(S) == SubSeq(S.buf, 1, S.buflen)
LastLeaf(f, S, i) == LastPart(f, S.S[i], i, RestOf(S))
LeafEnd(f, S, i) == final(f, LastLeaf(f, S, i), OUTBYTES[f])
LeafEndings(f, S) == [i \in Leaves(f) |-> LeafEnd(f, S, i)]
RootEnd(f, S) == final(f, RootOver(f, S.R, LeafEndings(f, S)), S.outlen)

\* A final returns a record of three fields.
LEMMA FinalIs ==
  ASSUME NEW f, NEW S, NEW outlen
  PROVE  final(f, S, outlen) = [ret |-> final(f, S, outlen).ret, S |-> final(f, S, outlen).S,
                                out |-> final(f, S, outlen).out]
<1>1. Refused(S) = [ret |-> Refused(S).ret, S |-> Refused(S).S, out |-> Refused(S).out]
  BY DEF Refused
<1> DEFINE B == LastBlock("b", S)
           D == LastBlock("s", S)
           bout == Digest(B.h, S.outlen)
           sout == Digest(D.h, outlen)
<1>2. blake2b_final(S, outlen)
        = IF CanFinish(S, outlen) THEN [ret |-> 0, S |-> B, out |-> bout] ELSE Refused(S)
  BY DEF blake2b_final
<1>3. blake2s_final(S, outlen)
        = IF CanFinish(S, outlen) THEN [ret |-> 0, S |-> D, out |-> sout] ELSE Refused(S)
  BY DEF blake2s_final
<1> HIDE DEF B, D, bout, sout
<1> DEFINE E == final(f, S, outlen)
<1>4. E = IF f = "b" THEN blake2b_final(S, outlen) ELSE blake2s_final(S, outlen)
  BY DEF final
<1>5. E = [ret |-> 0, S |-> B, out |-> bout] \/ E = [ret |-> 0, S |-> D, out |-> sout]
      \/ E = Refused(S)
  BY <1>2, <1>3, <1>4
<1> HIDE DEF E
<1>6. E = [ret |-> E.ret, S |-> E.S, out |-> E.out]
  BY <1>1, <1>5
<1> QED
  BY <1>6 DEF E

\* tree_final that is not refused by length, field by field.
LEMMA TreeFinalIs ==
  ASSUME NEW f, NEW S, IsTree(S), NEW outlen, ~(outlen < S.outlen)
  PROVE  tree_final(f, S, outlen)
           = [ret |-> RootEnd(f, S).ret,
              S |-> [S |-> [i \in Leaves(f) |-> LeafEnd(f, S, i).S], R |-> RootEnd(f, S).S,
                     buf |-> S.buf, buflen |-> S.buflen, outlen |-> S.outlen],
              out |-> RootEnd(f, S).out]
<1> DEFINE ends == LeafEndings(f, S)
           root == RootEnd(f, S)
           leaves == [i \in Leaves(f) |-> LeafEnd(f, S, i).S]
<1>1. tree_final(f, S, outlen)
        = [root EXCEPT !.S = [S EXCEPT !.S = [i \in Leaves(f) |-> ends[i].S], !.R = root.S]]
  BY DEF tree_final, LeafEndings, LeafEnd, LastLeaf, RestOf, RootEnd
<1>2. [i \in Leaves(f) |-> ends[i].S] = leaves
  BY DEF LeafEndings
<1>3. root = [ret |-> root.ret, S |-> root.S, out |-> root.out]
  BY FinalIs DEF RootEnd
<1> HIDE DEF ends, root, leaves
<1>4. [S EXCEPT !.S = leaves, !.R = root.S]
        = [S |-> leaves, R |-> root.S, buf |-> S.buf, buflen |-> S.buflen, outlen |-> S.outlen]
  <2> DEFINE R == root.S
             T == [S EXCEPT !.S = leaves]
  <2>1. [S EXCEPT !.S = leaves, !.R = R] = [T EXCEPT !.R = R]
    OBVIOUS
  <2>2. T = [S |-> leaves, R |-> S.R, buf |-> S.buf, buflen |-> S.buflen, outlen |-> S.outlen]
    BY DEF IsTree
  <2> HIDE DEF R, T
  <2>3. [T EXCEPT !.R = R]
          = [S |-> leaves, R |-> R, buf |-> S.buf, buflen |-> S.buflen, outlen |-> S.outlen]
    BY <2>2
  <2> QED
    BY <2>1, <2>3 DEF R
<1> DEFINE T == [S |-> leaves, R |-> root.S, buf |-> S.buf, buflen |-> S.buflen,
                 outlen |-> S.outlen]
<1>5. tree_final(f, S, outlen) = [root EXCEPT !.S = T]
  BY <1>1, <1>2, <1>4
<1> HIDE DEF T
<1>6. [root EXCEPT !.S = T] = [ret |-> root.ret, S |-> T, out |-> root.out]
  BY <1>3
<1> QED
  BY <1>5, <1>6 DEF T, root, leaves

\* The rest is the filled part of the buffer.
LEMMA RestIs ==
  ASSUME NEW f \in Family, NEW S, NEW s, Row(S.buf, s), NEW x \in Nat, S.buflen = x, x <= s
  PROVE  Slice(RestOf(S), S.buf, 0, x)
<1>1. Slice(SubSeq(S.buf, 0 + 1, x), S.buf, 0, x - 0)
  BY SliceIs
<1> QED
  BY <1>1 DEF RestOf

\* The streamed and the one-shot call end their leaves alike.
LEMMA LeavesEnd ==
  ASSUME NEW f \in Family, NEW asked, NEW key, Row(key, Len(key)), NEW m, NEW a, Row(m, a),
         NEW leaves, LeavesHave(f, leaves, asked, key, m, a \div Stripe(f)),
         NEW rest, Slice(rest, m, (a \div Stripe(f)) * Stripe(f), a % Stripe(f))
  PROVE  LeavesEnded(f, [i \in Leaves(f) |-> final(f, LastPart(f, leaves[i], i, rest), OUTBYTES[f])],
                     asked, key, m)
<1> DEFINE s == Stripe(f)
           q == a \div s
           x == a % s
           ends == [i \in Leaves(f) |-> final(f, LastPart(f, leaves[i], i, rest), OUTBYTES[f])]
<1>0. \E i : i \in Leaves(f)
  BY Constants DEF Leaves
<1>1. s \in Nat \ {0} /\ a \in Nat
  BY <1>0, LeafNumbers DEF Row
<1>2. q \in Nat /\ x \in Nat /\ x < s
  BY <1>1, DivMod
<1>3. LeavesHave(f, leaves, asked, key, m, q) /\ Slice(rest, m, q * Stripe(f), x)
  OBVIOUS
<1> HIDE DEF s, q, x
<1>5. ASSUME NEW i \in Leaves(f) PROVE LeafEnded(f, ends[i], asked, key, m, i)
  <2> DEFINE P == TreeParam(f, asked, Len(key), i - 1, 0)
             o == OUTBYTES[f]
             l == IsLast(f, i)
             L == leaves[i]
             M == LastPart(f, L, i, rest)
             n == q * BLOCKBYTES[f] + PartLength(f, i, x)
  <2>1. LeafHas(f, L, P, key, i, m, q * BLOCKBYTES[f], o, l)
    BY <1>3 DEF LeavesHave
  <2> HIDE DEF P, o, l, L
  <2>2. LeafHas(f, M, P, key, i, m, n, o, l)
    BY <1>2, <1>3, <2>1, LastPartTakes
  <2>3. ShareLength(f, i, a) = n
    BY <1>1, ShareLengthIs DEF q, x, s
  <2> HIDE DEF n, M
  <2>4. LeafHas(f, M, TreeParam(f, asked, Len(key), i - 1, 0), key, i, m,
                ShareLength(f, i, a), OUTBYTES[f], IsLast(f, i))
    BY <2>2, <2>3 DEF P, o, l
  <2>5. LeafEnded(f, final(f, M, OUTBYTES[f]), asked, key, m, i)
    BY <2>4, LeafEnds
  <2>6. ends[i] = final(f, M, OUTBYTES[f])
    BY DEF M, L
  <2> QED
    BY <2>5, <2>6
<1> QED
  BY <1>5 DEF LeavesEnded

\* A tree that has taken m answers the digest of m, if it is asked for enough bytes.
LEMMA TreeFinalHashes ==
  ASSUME NEW f \in Family, NEW asked \in Nat, NEW key, Row(key, Len(key)), NEW m, NEW a, Row(m, a),
         NEW S, TreeHas(f, S, asked, key, m, a), NEW outlen \in Nat, outlen >= asked
  PROVE  /\ tree_final(f, S, outlen).ret = 0
         /\ SpentTree(f, tree_final(f, S, outlen).S)
         /\ tree_final(f, S, outlen).out = TreeDigest(f, asked, key, m)
<1> DEFINE s == Stripe(f)
           q == a \div s
           x == a % s
           rest == RestOf(S)
           ends == LeafEndings(f, S)
<1>0. \E i : i \in Leaves(f)
  BY Constants DEF Leaves
<1>1. s \in Nat \ {0} /\ a \in Nat
  BY <1>0, LeafNumbers DEF Row
<1>2. q \in Nat /\ x \in Nat /\ x < s
  BY <1>1, DivMod
<1>3. /\ IsTree(S) /\ LeavesHave(f, S.S, asked, key, m, q)
      /\ Absorbed(f, S.R, TreeParam(f, asked, Len(key), 0, 1), <<>>, 0, asked, TRUE)
      /\ Row(S.buf, s) /\ S.buflen = x /\ S.outlen = asked
      /\ \A p \in 1 .. x : S.buf[p] = m[q * s + p]
  BY DEF TreeHas
<1> HIDE DEF s, q, x, rest
<1>4. Slice(rest, m, q * Stripe(f), x)
  <2>1. x <= s
    BY <1>1, <1>2
  <2>2. Slice(rest, S.buf, 0, x)
    BY <1>2, <1>3, <2>1, RestIs DEF rest
  <2>3. \A p \in 1 .. x : 0 + p = p
    BY <1>2
  <2>4. Row(rest, x) /\ \A p \in 1 .. x : rest[p] = m[q * s + p]
    BY <1>3, <2>2, <2>3 DEF Slice
  <2> QED
    BY <2>4 DEF Slice, s
<1>5. LeavesEnded(f, ends, asked, key, m)
  <2> DEFINE leaves == S.S
  <2>1. LeavesHave(f, leaves, asked, key, m, a \div Stripe(f))
        /\ Slice(rest, m, (a \div Stripe(f)) * Stripe(f), a % Stripe(f))
    BY <1>3, <1>4 DEF q, x, s
  <2>2. ends = [i \in Leaves(f) |-> final(f, LastPart(f, leaves[i], i, rest), OUTBYTES[f])]
    BY DEF LeafEndings, LeafEnd, LastLeaf, rest
  <2> HIDE DEF leaves, ends
  <2>3. LeavesEnded(f, [i \in Leaves(f) |-> final(f, LastPart(f, leaves[i], i, rest), OUTBYTES[f])],
                    asked, key, m)
    BY <2>1, LeavesEnd
  <2> QED
    BY <2>2, <2>3
<1>6. /\ RootEnd(f, S).ret = 0
      /\ Spent(f, RootEnd(f, S).S)
      /\ RootEnd(f, S).out = TreeDigest(f, asked, key, m)
  <2> DEFINE R == S.R
  <2>1. RootReady(f, R, asked, key)
    BY <1>3 DEF RootReady
  <2>3. RootEnd(f, S) = final(f, RootOver(f, R, ends), asked)
    BY <1>3 DEF RootEnd
  <2> HIDE DEF R, ends
  <2>4. TreeAnswers(f, final(f, RootOver(f, R, ends), asked), asked, key, m)
    BY <1>5, <2>1, RootEnds
  <2> QED
    BY <2>3, <2>4 DEF TreeAnswers
<1>7. ~(outlen < S.outlen)
  BY <1>3
<1> DEFINE T == tree_final(f, S, outlen)
           root == RootEnd(f, S)
           leaves == [i \in Leaves(f) |-> LeafEnd(f, S, i).S]
<1>8. T = [ret |-> root.ret,
           S |-> [S |-> leaves, R |-> root.S, buf |-> S.buf, buflen |-> S.buflen,
                  outlen |-> S.outlen],
           out |-> root.out]
  BY <1>3, <1>7, TreeFinalIs
<1>9. \A i \in Leaves(f) : Spent(f, leaves[i])
  BY <1>5 DEF LeavesEnded, LeafEnded, LeafEndings
<1> HIDE DEF T, root, leaves
<1>10. IsTree(T.S) /\ T.S.S = leaves /\ T.S.R = root.S /\ T.S.buf = S.buf
       /\ T.S.buflen = x /\ T.ret = root.ret /\ T.out = root.out
  BY <1>3, <1>8 DEF IsTree
<1>11. T.S.buflen \in 0 .. (Stripe(f) - 1) /\ Row(T.S.buf, Stripe(f))
  BY <1>1, <1>2, <1>3, <1>10 DEF s
<1>12. SpentTree(f, T.S)
  BY <1>6, <1>9, <1>10, <1>11 DEF SpentTree, root
<1> QED
  BY <1>6, <1>10, <1>12 DEF T, root

\* A leaf that has answered stays one through LastPart.
LEMMA LastPartSpent ==
  ASSUME NEW f \in Family, NEW i \in Leaves(f), NEW S, Spent(f, S), NEW rest, NEW x, Row(rest, x)
  PROVE  Spent(f, LastPart(f, S, i, rest))
<1> DEFINE from == (i - 1) * BLOCKBYTES[f]
           size == BLOCKBYTES[f]
           end == Minimum(x, from + size)
           part == SubSeq(rest, from + 1, end)
<1>1. from \in Nat /\ size \in Nat /\ x \in Nat /\ Len(rest) = x
  BY LeafNumbers, RowIs DEF Row
<1>2. LastPart(f, S, i, rest) = IF x > from THEN update(f, S, part) ELSE S
  BY <1>1 DEF LastPart
<1> HIDE DEF from
<1>3. CASE x > from
  <2>1. end \in Nat /\ from <= end /\ end <= x
    <3>1. end = IF x < from + size THEN x ELSE from + size
      BY DEF Minimum
    <3> HIDE DEF end, size
    <3> QED
      BY <1>1, <1>3, <3>1
  <2> HIDE DEF end
  <2>2. Slice(part, rest, from, end - from)
    BY <1>1, <2>1, SliceIs
  <2>3. Row(part, end - from)
    BY <2>2 DEF Slice
  <2> HIDE DEF part
  <2>4. Spent(f, update(f, S, part))
    BY <2>3, UpdateSpent
  <2> QED
    BY <1>2, <1>3, <2>4
<1>4. CASE ~(x > from)
  BY <1>2, <1>4
<1> QED
  BY <1>3, <1>4

\* A state that has answered refuses to answer again.
LEMMA FinalSpent ==
  ASSUME NEW f \in Family, NEW S, Spent(f, S), NEW outlen
  PROVE  /\ final(f, S, outlen).ret = -1
         /\ final(f, S, outlen).S = S
<1>1. ~CanFinish(S, outlen)
  BY DEF CanFinish, is_lastblock, Spent
<1>2. final(f, S, outlen) = Refused(S)
  BY <1>1, FinalRefuses
<1> QED
  BY <1>2 DEF Refused

\* A finished tree refuses, though it reads digests that its leaves never wrote.
LEMMA TreeFinalSpent ==
  ASSUME NEW f \in Family, NEW S, SpentTree(f, S), NEW outlen
  PROVE  /\ tree_final(f, S, outlen).ret = -1
         /\ SpentTree(f, tree_final(f, S, outlen).S)
<1> DEFINE s == Stripe(f)
           rest == RestOf(S)
           ends == LeafEndings(f, S)
           R == S.R
           x == S.buflen
           T == tree_final(f, S, outlen)
           n == DEGREE[f]
           z == OUTBYTES[f]
<1>0. \E i : i \in Leaves(f)
  BY Constants DEF Leaves
<1>1. s \in Nat \ {0} /\ n \in Nat /\ z \in Nat
  BY <1>0, Constants, LeafNumbers
<1>2. IsTree(S) /\ (\A i \in Leaves(f) : Spent(f, S.S[i])) /\ Spent(f, R) /\ Row(S.buf, s)
      /\ x \in 0 .. (s - 1)
  BY DEF SpentTree
<1>3. CASE outlen < S.outlen
  <2>1. T = Refused(S)
    BY <1>3 DEF tree_final
  <2> HIDE DEF T
  <2>2. T.ret = -1 /\ T.S = S
    BY <2>1 DEF Refused
  <2> QED
    BY <2>2 DEF T
<1>4. CASE ~(outlen < S.outlen)
  <2> HIDE DEF s, rest, T, R
  <2>1. x \in Nat /\ x <= s
    BY <1>1, <1>2
  <2>2. Row(rest, x)
    <3>1. Slice(rest, S.buf, 0, x)
      BY <1>2, <2>1, RestIs DEF rest
    <3> QED
      BY <3>1 DEF Slice
  <2>3. ASSUME NEW i \in Leaves(f)
        PROVE ends[i].ret = -1 /\ Spent(f, ends[i].S) /\ LeafEnd(f, S, i) = ends[i]
    <3> DEFINE M == S.S[i]
               L == LastPart(f, M, i, rest)
    <3>1. Spent(f, M)
      BY <1>2
    <3> HIDE DEF M
    <3>2. Spent(f, L)
      BY <2>2, <3>1, LastPartSpent
    <3>3. ends[i] = final(f, L, z) /\ LeafEnd(f, S, i) = ends[i]
      BY DEF LeafEndings, LeafEnd, LastLeaf, L, M, rest
    <3> HIDE DEF L, ends, z
    <3>4. final(f, L, z).ret = -1 /\ final(f, L, z).S = L
      BY <3>2, FinalSpent
    <3> QED
      BY <3>2, <3>3, <3>4
  <2> DEFINE undefined == [b \in 1 .. z |-> <<"undefined">>]
             pieces == [i \in 1 .. n |-> undefined]
             over == RootOver(f, R, ends)
             root == final(f, over, S.outlen)
  <2>4. over = updates(f, R, pieces)
    <3>1. \A i \in Leaves(f) : ~(ends[i].ret = 0)
      BY <2>3
    <3> HIDE DEF ends
    <3> QED
      BY <3>1 DEF RootOver, Leaves
  <2>5. Row(undefined, z)
    BY <1>1 DEF Row
  <2>6. Row(pieces, n) /\ \A j \in 1 .. n : pieces[j] = undefined
    BY <1>1 DEF Row
  <2> HIDE DEF undefined, pieces, z
  <2>7. Row(undefined, Len(undefined))
    BY <2>5, RowIs
  <2>8. \A j \in 1 .. n : Row(pieces[j], Len(pieces[j]))
    BY <2>6, <2>7
  <2> HIDE DEF n, over, root
  <2>9. Spent(f, over)
    BY <1>2, <2>4, <2>6, <2>8, UpdatesSpent
  <2>10. root.ret = -1 /\ root.S = over
    BY <2>9, FinalSpent DEF root
  <2>11. RootEnd(f, S) = root
    BY DEF RootEnd, root, over, R
  <2> DEFINE leaves == [i \in Leaves(f) |-> LeafEnd(f, S, i).S]
  <2>12. \A i \in Leaves(f) : Spent(f, leaves[i])
    BY <2>3
  <2> HIDE DEF leaves
  <2>13. T = [ret |-> root.ret,
              S |-> [S |-> leaves, R |-> root.S, buf |-> S.buf, buflen |-> S.buflen,
                     outlen |-> S.outlen],
              out |-> root.out]
    BY <1>2, <1>4, <2>11, TreeFinalIs DEF T, leaves
  <2>14. IsTree(T.S) /\ T.S.S = leaves /\ T.S.R = root.S /\ T.S.buf = S.buf
         /\ T.S.buflen = S.buflen /\ T.ret = root.ret
    BY <2>13 DEF IsTree
  <2>15. SpentTree(f, T.S)
    <3>1. T.S.buflen \in 0 .. (Stripe(f) - 1) /\ Row(T.S.buf, Stripe(f))
      BY <1>2, <2>14 DEF s
    <3> QED
      BY <2>9, <2>10, <2>12, <2>14, <3>1 DEF SpentTree
  <2> QED
    BY <2>10, <2>14, <2>15 DEF T
<1> QED
  BY <1>3, <1>4
-----------------------------------------------------------------------------
(* The one-shot call of a tree *)

\* The one-shot call of a tree answers TreeDigest, with a loop, a tail and a root of
\* its own.
LEMMA TreeOnce ==
  ASSUME NEW f \in Family, NEW asked, OutlenFits(f, asked), NEW key, Row(key, Len(key)),
         Len(key) <= KEYBYTES[f], NEW in, NEW r, Row(in, r)
  PROVE  tree(f, asked, in, key) = [ret |-> 0, out |-> TreeDigest(f, asked, key, in)]
<1> DEFINE s == Stripe(f)
           w == r \div s
           rest == TailOf(f, in)
           leaves == [i \in Leaves(f) |-> StartedLeaf(f, asked, key, i)]
           spread == [i \in Leaves(f) |-> Spread(f, leaves[i], i, in)]
           ends == [i \in Leaves(f) |-> final(f, LastPart(f, spread[i], i, rest), OUTBYTES[f])]
           R == FreshRoot(f, asked, Len(key))
           end == final(f, RootOver(f, R, ends), asked)
<1>0. \E i : i \in Leaves(f)
  BY Constants DEF Leaves
<1>1. s \in Nat \ {0} /\ r \in Nat
  BY <1>0, LeafNumbers DEF Row
<1>2. asked \in Nat
  BY Constants DEF OutlenFits
<1>3. tree(f, asked, in, key) = [ret |-> end.ret, out |-> end.out]
  <2> DEFINE keyed(i) == IF key = <<>> THEN MarkLast(f, init_leaf(f, asked, Len(key), i), i)
                         ELSE update(f, MarkLast(f, init_leaf(f, asked, Len(key), i), i), KeyBlock(f, key))
             theirs == [i \in Leaves(f) |->
                          final(f, LastPart(f, Spread(f, keyed(i), i, in), i, rest), OUTBYTES[f])]
  <2>1. \A i \in Leaves(f) : leaves[i] = keyed(i)
    BY DEF StartedLeaf, Started, FreshLeaf
  <2>2. \A i \in Leaves(f) : spread[i] = Spread(f, keyed(i), i, in)
    BY <2>1
  <2> HIDE DEF leaves, spread, keyed, rest
  <2>3. theirs = ends
    BY <2>2
  <2> HIDE DEF theirs, ends
  <2>4. tree(f, asked, in, key)
          = [ret |-> final(f, RootOver(f, R, theirs), asked).ret,
             out |-> final(f, RootOver(f, R, theirs), asked).out]
    BY DEF tree, theirs, keyed, rest, TailOf, Stripe, FreshRoot
  <2> QED
    BY <2>3, <2>4
<1>4. LeavesHave(f, leaves, asked, key, in, 0)
  BY StartedLeaves
<1>5. LeavesHave(f, spread, asked, key, in, w)
  <2>1. Slice(in, in, 0 * Stripe(f), r)
    <3>1. 0 * Stripe(f) = 0
      BY <1>1
    <3>2. r \in Nat /\ \A p \in 1 .. r : in[p] = in[0 + p]
      BY DEF Row
    <3> QED
      BY <3>1, <3>2 DEF Slice
  <2>2. w = r \div Stripe(f) /\ w \in Nat
    BY <1>1, DivMod
  <2> DEFINE q == 0
  <2>3. q \in Nat /\ Slice(in, in, q * Stripe(f), r) /\ LeavesHave(f, leaves, asked, key, in, q)
    BY <1>4, <2>1
  <2> HIDE DEF q, leaves, w
  <2>4. LeavesHave(f, spread, asked, key, in, q + w)
    BY <2>2, <2>3, LeavesSpread
  <2>5. q + w = w
    BY <2>2 DEF q
  <2> QED
    BY <2>4, <2>5
<1>6. Slice(rest, in, (r \div Stripe(f)) * Stripe(f), r % Stripe(f))
  BY TailIs
<1> HIDE DEF spread, rest
<1>7. LeavesEnded(f, ends, asked, key, in)
  BY <1>5, <1>6, LeavesEnd DEF w, s
<1>8. RootReady(f, R, asked, key)
  <2> DEFINE n == Len(key)
             d == <<>>
  <2> HIDE DEF n, d
  <2>1. Absorbed(f, FreshRoot(f, asked, n), TreeParam(f, asked, n, 0, 1), d, 0, asked, TRUE)
    BY FreshRootAbsorbed
  <2> QED
    BY <2>1 DEF n, d, RootReady
<1> HIDE DEF ends, R
<1>9. TreeAnswers(f, end, asked, key, in)
  BY <1>2, <1>7, <1>8, RootEnds
<1> HIDE DEF end
<1> QED
  BY <1>3, <1>9 DEF TreeAnswers
-----------------------------------------------------------------------------
(* blake2xb and blake2xs *)

XofHas(f, S, asked, key, m, a) ==
  /\ S = [P |-> XofParam(f, asked, Len(key)), S |-> S.S]
  /\ Absorbed(f, S.S, XofParam(f, asked, Len(key)), Keyed(f, key, m), KeyLen(f, key) + a,
              OUTBYTES[f], FALSE)

SpentXof(f, S) == S = [P |-> S.P, S |-> S.S] /\ Spent(f, S.S)

\* xof_init_key gives a state that has taken none of the input.
LEMMA XofStartHas ==
  ASSUME NEW f \in Family, NEW asked, NEW key, Row(key, Len(key)), NEW m, Row(m, 0)
  PROVE  XofHas(f, xof_init_key(f, asked, key), asked, key, m, 0)
<1> DEFINE P == XofParam(f, asked, Len(key))
           S == init_param(f, P)
           T == Started(f, S, key)
           E == xof_init_key(f, asked, key)
           o == OUTBYTES[f]
           no == FALSE
           d == <<>>
<1>1. E = [P |-> P, S |-> T]
  BY DEF xof_init_key, Started
<1>2. P.digest_length = o
  BY DEF XofParam, SequentialParam
<1> HIDE DEF P, d
<1>3. Absorbed(f, S, P, d, 0, o, no)
  BY <1>2, InitAbsorbed
<1> HIDE DEF S, o, no, E
<1>4. Absorbed(f, T, P, Keyed(f, key, m), KeyLen(f, key), o, no)
  BY <1>3, StartedAbsorbed
<1>5. KeyLen(f, key) + 0 = KeyLen(f, key)
  BY Constants DEF KeyLen
<1> HIDE DEF T
<1>6. E.S = T /\ E = [P |-> P, S |-> E.S]
  BY <1>1
<1> QED
  BY <1>4, <1>5, <1>6 DEF XofHas, P, o, no, E

XofTakes(f, S, in) == [S EXCEPT !.S = update(f, @, in)]

\* Its update takes what follows.
LEMMA XofUpdateTakes ==
  ASSUME NEW f \in Family, NEW key, Row(key, Len(key)), NEW asked, NEW S, NEW m, NEW a, Row(m, a),
         XofHas(f, S, asked, key, m, a), NEW k \in Nat, NEW e, Row(e, a + k), Agree(m, e, a),
         NEW in, Slice(in, e, a, k)
  PROVE  XofHas(f, XofTakes(f, S, in), asked, key, e, a + k)
<1> DEFINE P == XofParam(f, asked, Len(key))
           T == S.S
           o == OUTBYTES[f]
           no == FALSE
           U == update(f, T, in)
           E == XofTakes(f, S, in)
           d == Keyed(f, key, m)
           g == Keyed(f, key, e)
           n == KeyLen(f, key)
           c == n + a
<1>1. S = [P |-> P, S |-> T] /\ Absorbed(f, T, P, d, c, o, no)
  BY DEF XofHas
<1>2. Agree(d, g, c) /\ Slice(in, g, c, k)
  BY KeyedExtends
<1>3. n \in Nat /\ a \in Nat
  BY KeyPartIs DEF Row
<1>n. c \in Nat /\ c + k = n + (a + k)
  <2> HIDE DEF n
  <2> QED
    BY <1>3
<1>4. E = [P |-> P, S |-> U]
  BY <1>1 DEF XofTakes
<1> HIDE DEF P, T, o, no, E, d, g, c
<1>5. Absorbed(f, U, P, g, c + k, o, no)
  BY <1>1, <1>2, <1>n, UpdateAbsorbs
<1>6. E.S = U /\ E = [P |-> P, S |-> E.S]
  BY <1>4
<1> QED
  BY <1>5, <1>6, <1>n DEF XofHas, P, o, no, g, E

\* A root that has answered stays one through updates.
LEMMA XofUpdateSpent ==
  ASSUME NEW f \in Family, NEW S, SpentXof(f, S), NEW in, NEW k, Row(in, k)
  PROVE  SpentXof(f, XofTakes(f, S, in))
<1> DEFINE T == S.S
           U == update(f, T, in)
           E == XofTakes(f, S, in)
<1>1. Spent(f, T) /\ S = [P |-> S.P, S |-> T]
  BY DEF SpentXof
<1>2. E = [P |-> S.P, S |-> U]
  BY <1>1 DEF XofTakes
<1> HIDE DEF T, E
<1>3. Spent(f, U)
  BY <1>1, UpdateSpent
<1> HIDE DEF U
<1>4. E.S = U /\ E.P = S.P
  BY <1>2
<1> QED
  BY <1>2, <1>3, <1>4 DEF SpentXof, E

\* The parameters of output block i.
XofNode(f, asked, i, size) ==
  [digest_length |-> size, key_length |-> 0, fanout |-> 0, depth |-> 0,
   leaf_length |-> OUTBYTES[f], node_offset |-> i, xof_length |-> asked, node_depth |-> 0,
   inner_length |-> OUTBYTES[f]]

\* What output block i is.
XofPiece(f, asked, root, i, size) ==
  Digest(HashOf(f, XofNode(f, asked, i, size), FALSE, root), size)

Param(digest, key, fanout, depth, leaf, node, xof, level, inner) ==
  [digest_length |-> digest, key_length |-> key, fanout |-> fanout, depth |-> depth,
   leaf_length |-> leaf, node_offset |-> node, xof_length |-> xof, node_depth |-> level,
   inner_length |-> inner]

\* One block of output: the hash of the root's digest under the block's own parameters.
LEMMA XofBlockIs ==
  ASSUME NEW f \in Family, NEW asked, NEW keylen, NEW root, Row(root, OUTBYTES[f]),
         NEW i, NEW size \in Nat
  PROVE  XofBlock(f, XofParam(f, asked, keylen), root, i, size)
           = XofPiece(f, asked, root, i, size)
<1> DEFINE P == XofParam(f, asked, keylen)
           node == [P EXCEPT !.key_length = 0, !.fanout = 0, !.depth = 0,
                             !.leaf_length = OUTBYTES[f], !.inner_length = OUTBYTES[f],
                             !.node_depth = 0, !.digest_length = size, !.node_offset = i]
           U == update(f, init_param(f, node), root)
           z == OUTBYTES[f]
           no == FALSE
           d == <<>>
<1>1. node = XofNode(f, asked, i, size)
  <2> DEFINE o == OUTBYTES[f]
             N1 == [P EXCEPT !.key_length = 0]
             N2 == [N1 EXCEPT !.fanout = 0]
             N3 == [N2 EXCEPT !.depth = 0]
             N4 == [N3 EXCEPT !.leaf_length = o]
             N5 == [N4 EXCEPT !.inner_length = o]
             N6 == [N5 EXCEPT !.node_depth = 0]
             N7 == [N6 EXCEPT !.digest_length = size]
             N8 == [N7 EXCEPT !.node_offset = i]
  <2>1. P = Param(o, keylen, 1, 1, 0, 0, asked, 0, 0)
    BY DEF XofParam, SequentialParam, Param
  <2>2. node = N8
    OBVIOUS
  <2> HIDE DEF P, o, node
  <2>3. N1 = Param(o, 0, 1, 1, 0, 0, asked, 0, 0)
    BY <2>1 DEF Param
  <2> HIDE DEF N1
  <2>4. N2 = Param(o, 0, 0, 1, 0, 0, asked, 0, 0)
    BY <2>3 DEF Param
  <2> HIDE DEF N2
  <2>5. N3 = Param(o, 0, 0, 0, 0, 0, asked, 0, 0)
    BY <2>4 DEF Param
  <2> HIDE DEF N3
  <2>6. N4 = Param(o, 0, 0, 0, o, 0, asked, 0, 0)
    BY <2>5 DEF Param
  <2> HIDE DEF N4
  <2>7. N5 = Param(o, 0, 0, 0, o, 0, asked, 0, o)
    BY <2>6 DEF Param
  <2> HIDE DEF N5
  <2>8. N6 = Param(o, 0, 0, 0, o, 0, asked, 0, o)
    BY <2>7 DEF Param
  <2> HIDE DEF N6
  <2>9. N7 = Param(size, 0, 0, 0, o, 0, asked, 0, o)
    BY <2>8 DEF Param
  <2> HIDE DEF N7
  <2>10. N8 = Param(size, 0, 0, 0, o, i, asked, 0, o)
    BY <2>9 DEF Param
  <2> HIDE DEF N8
  <2> QED
    BY <2>2, <2>10 DEF XofNode, Param, o
<1>2. XofBlock(f, P, root, i, size) = final(f, U, size).out
  BY DEF XofBlock
<1>3. node.digest_length = size
  BY <1>1 DEF XofNode
<1>4. z \in Nat
  BY Constants
<1> HIDE DEF node, d
<1>5. Absorbed(f, init_param(f, node), node, d, 0, size, no)
  BY <1>3, InitAbsorbed
<1> DEFINE S == init_param(f, node)
<1>6. Agree(d, root, 0)
  BY DEF Agree
<1>7. Slice(root, root, 0, z)
  BY <1>4 DEF Slice, Row
<1>8. 0 + z = z /\ no \in BOOLEAN /\ size >= size /\ 0 \in Nat
  BY <1>4
<1> HIDE DEF z, no, S
<1>9. Absorbed(f, S, node, d, 0, size, no)
  BY <1>5 DEF S
<1>10. Absorbed(f, update(f, S, root), node, root, 0 + z, size, no)
  BY <1>6, <1>7, <1>8, <1>9, UpdateAbsorbs
<1> HIDE DEF U
<1>11. Absorbed(f, U, node, root, z, size, no)
  BY <1>8, <1>10 DEF U, S
<1>12. Row(root, z)
  BY DEF z
<1>13. final(f, U, size).out = Digest(HashOf(f, node, no, root), Written(f, size, size))
  BY <1>8, <1>11, <1>12, FinalHashes
<1>14. Written(f, size, size) = size
  BY DEF Written
<1> QED
  BY <1>1, <1>2, <1>13, <1>14 DEF no, XofPiece

\* When xof_final accepts the length it is asked for.
XofMay(f, asked, outlen) == IF asked = XOFUNKNOWN[f] THEN outlen # 0 ELSE outlen = asked

\* A root that has answered refuses to answer again.
LEMMA XofFinalSpent ==
  ASSUME NEW f \in Family, NEW S, SpentXof(f, S), NEW outlen
  PROVE  xof_final(f, S, outlen) = Refused(S)
<1> DEFINE T == S.S
           root == final(f, T, OUTBYTES[f])
<1>1. root.ret = -1
  BY FinalSpent DEF SpentXof
<1>2. root.ret # 0
  BY <1>1
<1> HIDE DEF root
<1> QED
  BY <1>2 DEF xof_final, root

\* A length that the parameters do not allow is refused.
LEMMA XofFinalRefuses ==
  ASSUME NEW f, NEW S, NEW asked, S.P.xof_length = asked, NEW outlen, ~XofMay(f, asked, outlen)
  PROVE  xof_final(f, S, outlen) = Refused(S)
BY DEF xof_final, XofMay

\* The root digest that all output blocks hash.
XofRoot(f, asked, key, m) ==
  Digest(HashOf(f, XofParam(f, asked, Len(key)), FALSE, Keyed(f, key, m)), OUTBYTES[f])

XofSize(f, outlen, i) == Minimum(OUTBYTES[f], outlen - i * OUTBYTES[f])

\* The blocks of output, one behind the other, are XofDigest byte by byte.
LEMMA XofPieces ==
  ASSUME NEW f \in Family, NEW asked, NEW key, NEW m, NEW outlen \in Nat \ {0},
         NEW root, root = XofRoot(f, asked, key, m), NEW blocks,
         blocks = [j \in 1 .. ((outlen + OUTBYTES[f] - 1) \div OUTBYTES[f]) |->
                     XofBlock(f, XofParam(f, asked, Len(key)), root, j - 1, XofSize(f, outlen, j - 1))]
  PROVE  InPieces(blocks, OUTBYTES[f], outlen) = XofDigest(f, asked, outlen, key, m)
<1> DEFINE z == OUTBYTES[f]
           count == (outlen + z - 1) \div z
           keylen == Len(key)
           P == XofParam(f, asked, keylen)
           byte(p) == XofByte(f, asked, outlen, root, p - 1)
<1>1. z \in Nat \ {0}
  BY Constants
<1>2. XofDigest(f, asked, outlen, key, m) = [p \in 1 .. outlen |-> byte(p)]
  BY DEF XofDigest, XofRoot, XofParam
<1>3. Row(root, z)
  BY <1>1 DEF XofRoot, Digest, Row
<1>4. ASSUME NEW p \in 1 .. outlen
      PROVE blocks[((p - 1) \div z) + 1][((p - 1) % z) + 1] = byte(p)
  <2> DEFINE n == p - 1
             i == n \div z
             x == n % z
             c == i * z
             size == XofSize(f, outlen, i)
             h == HashOf(f, XofNode(f, asked, i, size), FALSE, root)
  <2>1. n \in Nat /\ n < outlen
    OBVIOUS
  <2> HIDE DEF n, z
  <2>2. i \in Nat /\ x \in Nat /\ x < z /\ n = c + x
    BY <1>1, <2>1, DivMod
  <2> HIDE DEF i, x
  <2>3. c \in Nat /\ c < outlen
    <3>1. c \in Nat
      BY <1>1, <2>2
    <3> HIDE DEF c
    <3> QED
      BY <2>1, <2>2, <3>1
  <2>4. size \in Nat
    <3>1. size = IF z < outlen - c THEN z ELSE outlen - c
      BY DEF XofSize, Minimum, z
    <3> HIDE DEF c, size
    <3> QED
      BY <1>1, <2>3, <3>1
  <2>5. i + 1 \in 1 .. count /\ (i + 1) - 1 = i
    <3> DEFINE y == n - c
               u == outlen + z - 1
    <3>1. u \in Nat /\ u >= c + z
      <4> HIDE DEF c
      <4> QED
        BY <1>1, <2>1, <2>3
    <3>2. (i + 1) * z = c + z
      BY <1>1, <2>2, TimesNext
    <3> HIDE DEF u, c
    <3> DEFINE t == u \div z
               v == t * z
               w == u % z
    <3>3. t \in Nat /\ w \in Nat /\ w < z /\ u = v + w
      BY <1>1, <3>1, DivMod
    <3> HIDE DEF t, w
    <3>4. v \in Nat
      BY <1>1, <3>3
    <3>5. i + 1 <= t
      <4> SUFFICES ASSUME t <= i PROVE FALSE
        BY <2>2, <3>3
      <4>1. v <= c
        <5>1. i - t \in Nat
          BY <2>2, <3>3
        <5>2. (i - t) * z \in Nat
          BY <1>1, <5>1
        <5>3. i * z = t * z + (i - t) * z
          BY <1>1, <2>2, <3>3
        <5> DEFINE g == (i - t) * z
        <5>4. c = v + g /\ g \in Nat
          BY <5>2, <5>3 DEF c
        <5> HIDE DEF g, v
        <5> QED
          BY <2>3, <3>4, <5>4
      <4> HIDE DEF v
      <4> QED
        BY <1>1, <2>3, <3>1, <3>3, <3>4, <4>1
    <3> QED
      BY <2>2, <3>3, <3>5 DEF t, u
  <2> HIDE DEF size, c
  <2>6. blocks[i + 1] = XofBlock(f, P, root, i, size)
    <3>1. blocks = [j \in 1 .. count |-> XofBlock(f, P, root, j - 1, XofSize(f, outlen, j - 1))]
      BY DEF z
    <3> HIDE DEF P, count
    <3> DEFINE j == i + 1
    <3>2. blocks[j] = XofBlock(f, P, root, j - 1, XofSize(f, outlen, j - 1))
      BY <2>5, <3>1
    <3> QED
      BY <2>5, <3>2 DEF size
  <2>7. XofBlock(f, P, root, i, size) = Digest(h, size)
    <3> HIDE DEF keylen, h, P
    <3>1. Row(root, OUTBYTES[f])
      BY <1>3 DEF z
    <3>2. XofBlock(f, XofParam(f, asked, keylen), root, i, size)
            = XofPiece(f, asked, root, i, size)
      BY <2>4, <3>1, XofBlockIs
    <3> QED
      BY <3>2 DEF P, h, XofPiece
  <2>8. byte(p) = Digest(h, size)[x + 1]
    BY DEF XofByte, XofNode, XofSize, n, i, x, z, size
  <2> QED
    BY <2>6, <2>7, <2>8 DEF i, x, n
<1> QED
  BY <1>2, <1>4 DEF InPieces

\* A state that has taken m answers XofDigest of m.
LEMMA XofFinalHashes ==
  ASSUME NEW f \in Family, NEW asked, NEW key, Row(key, Len(key)), NEW m, NEW a, Row(m, a),
         NEW S, XofHas(f, S, asked, key, m, a), NEW outlen \in Nat, outlen # 0,
         XofMay(f, asked, outlen)
  PROVE  /\ xof_final(f, S, outlen).ret = 0
         /\ SpentXof(f, xof_final(f, S, outlen).S)
         /\ xof_final(f, S, outlen).out = XofDigest(f, asked, outlen, key, m)
<1> DEFINE P == XofParam(f, asked, Len(key))
           T == S.S
           z == OUTBYTES[f]
           no == FALSE
           d == Keyed(f, key, m)
           c == KeyLen(f, key) + a
           root == final(f, T, z)
           out == root.out
           blocks == [j \in 1 .. ((outlen + z - 1) \div z) |->
                        XofBlock(f, P, out, j - 1, XofSize(f, outlen, j - 1))]
           E == xof_final(f, S, outlen)
           end == InPieces(blocks, z, outlen)
<1>1. S = [P |-> P, S |-> T] /\ Absorbed(f, T, P, d, c, z, no)
  BY DEF XofHas
<1>2. Row(d, c)
  BY KeyedIs
<1>3. z \in Nat /\ no \in BOOLEAN /\ z >= z
  BY Constants
<1>4. P.xof_length = asked
  BY DEF XofParam, SequentialParam
<1>r. root.ret = 0 /\ Spent(f, root.S) /\ out = Digest(HashOf(f, P, no, d), Written(f, z, z))
  <2> HIDE DEF P, T, z, no, d, c
  <2> QED
    BY <1>1, <1>2, <1>3, FinalHashes
<1>5. out = XofRoot(f, asked, key, m)
  BY <1>r DEF XofRoot, Written
<1>6. end = XofDigest(f, asked, outlen, key, m)
  <2> HIDE DEF out
  <2>1. outlen \in Nat \ {0}
    OBVIOUS
  <2> HIDE DEF blocks
  <2>2. blocks = [j \in 1 .. ((outlen + OUTBYTES[f] - 1) \div OUTBYTES[f]) |->
                    XofBlock(f, XofParam(f, asked, Len(key)), out, j - 1, XofSize(f, outlen, j - 1))]
    BY DEF blocks
  <2> QED
    BY <1>5, <2>1, <2>2, XofPieces
<1> DEFINE U == [S EXCEPT !.S = root.S]
<1>7. E = [ret |-> 0, S |-> U, out |-> end]
  <2>1. S.P = P
    BY <1>1
  <2>2. ~(\/ S.P.xof_length = XOFUNKNOWN[f] /\ outlen = 0
          \/ S.P.xof_length # XOFUNKNOWN[f] /\ outlen # S.P.xof_length
          \/ root.ret # 0)
    BY <1>4, <1>r, <2>1 DEF XofMay
  <2>3. [j \in 1 .. ((outlen + z - 1) \div z) |->
           XofBlock(f, S.P, out, j - 1, Minimum(z, outlen - (j - 1) * z))] = blocks
    BY <2>1 DEF XofSize
  <2> HIDE DEF P, blocks
  <2> QED
    BY <2>2, <2>3 DEF xof_final
<1> HIDE DEF U, end, E, root, out, T, P
<1>8. U = [P |-> P, S |-> root.S]
  BY <1>1 DEF U
<1>9. SpentXof(f, U)
  <2>1. U.S = root.S /\ U.P = P
    BY <1>8
  <2> QED
    BY <1>8, <1>r, <2>1 DEF SpentXof
<1>10. E.ret = 0 /\ E.S = U /\ E.out = end
  BY <1>7
<1> QED
  BY <1>6, <1>9, <1>10 DEF E
-----------------------------------------------------------------------------
(* blake2b and blake2s *)

FlatHas(f, S, asked, key, m, a) ==
  Absorbed(f, S, SequentialParam(asked, Len(key)), Keyed(f, key, m), KeyLen(f, key) + a,
           asked, FALSE)

FlatStart(f, asked, key) == Started(f, init_param(f, SequentialParam(asked, Len(key))), key)

\* The inits of blake2b and blake2s give states that have taken none of the input.
LEMMA FlatStartHas ==
  ASSUME NEW f \in Family, NEW asked, NEW key, Row(key, Len(key)), NEW m, Row(m, 0)
  PROVE  FlatHas(f, FlatStart(f, asked, key), asked, key, m, 0)
<1> DEFINE P == SequentialParam(asked, Len(key))
           S == init_param(f, P)
           T == Started(f, S, key)
           no == FALSE
           d == <<>>
<1>1. P.digest_length = asked
  BY DEF SequentialParam
<1> HIDE DEF P, d
<1>2. Absorbed(f, S, P, d, 0, asked, no)
  BY <1>1, InitAbsorbed
<1> HIDE DEF S, no
<1>3. Absorbed(f, T, P, Keyed(f, key, m), KeyLen(f, key), asked, no)
  BY <1>2, StartedAbsorbed
<1>4. KeyLen(f, key) + 0 = KeyLen(f, key)
  BY Constants DEF KeyLen
<1> QED
  BY <1>3, <1>4 DEF FlatHas, FlatStart, P, S, T, no

\* Their updates take what follows.
LEMMA FlatUpdateTakes ==
  ASSUME NEW f \in Family, NEW key, Row(key, Len(key)), NEW asked, NEW S, NEW m, NEW a, Row(m, a),
         FlatHas(f, S, asked, key, m, a), NEW k \in Nat, NEW e, Row(e, a + k), Agree(m, e, a),
         NEW in, Slice(in, e, a, k)
  PROVE  FlatHas(f, update(f, S, in), asked, key, e, a + k)
<1> DEFINE P == SequentialParam(asked, Len(key))
           no == FALSE
           U == update(f, S, in)
           d == Keyed(f, key, m)
           g == Keyed(f, key, e)
           n == KeyLen(f, key)
           c == n + a
<1>1. Absorbed(f, S, P, d, c, asked, no)
  BY DEF FlatHas
<1>2. Agree(d, g, c) /\ Slice(in, g, c, k)
  BY KeyedExtends
<1>3. n \in Nat /\ a \in Nat
  BY KeyPartIs DEF Row
<1>4. c \in Nat /\ c + k = n + (a + k)
  <2> HIDE DEF n
  <2> QED
    BY <1>3
<1> HIDE DEF P, no, d, g, c
<1>5. Absorbed(f, U, P, g, c + k, asked, no)
  BY <1>1, <1>2, <1>4, UpdateAbsorbs
<1> QED
  BY <1>4, <1>5 DEF FlatHas, P, no, g

\* Their finals answer FlatDigest.
LEMMA FlatFinalHashes ==
  ASSUME NEW f \in Family, NEW asked \in Nat, NEW key, Row(key, Len(key)), NEW m, NEW a, Row(m, a),
         NEW S, FlatHas(f, S, asked, key, m, a), NEW outlen \in Nat, outlen >= asked
  PROVE  /\ final(f, S, outlen).ret = 0
         /\ Spent(f, final(f, S, outlen).S)
         /\ final(f, S, outlen).out = FlatDigest(f, asked, Written(f, asked, outlen), key, m)
<1> DEFINE P == SequentialParam(asked, Len(key))
           no == FALSE
           d == Keyed(f, key, m)
           c == KeyLen(f, key) + a
           root == final(f, S, outlen)
<1>1. Absorbed(f, S, P, d, c, asked, no)
  BY DEF FlatHas
<1>2. Row(d, c)
  BY KeyedIs
<1>3. no \in BOOLEAN
  OBVIOUS
<1>4. root.ret = 0 /\ Spent(f, root.S)
      /\ root.out = Digest(HashOf(f, P, no, d), Written(f, asked, outlen))
  <2> HIDE DEF P, no, d, c
  <2> QED
    BY <1>1, <1>2, <1>3, FinalHashes
<1> QED
  BY <1>4 DEF FlatDigest

\* Before the end, only the length asked for can make a final refuse.
LEMMA FlatFinalRefuses ==
  ASSUME NEW f \in Family, NEW asked, NEW key, NEW m, NEW a,
         NEW S, FlatHas(f, S, asked, key, m, a), NEW outlen, ~(outlen >= asked)
  PROVE  final(f, S, outlen) = Refused(S)
<1>1. S.outlen = asked
  BY DEF FlatHas, Absorbed, Counted
<1>2. ~CanFinish(S, outlen)
  BY <1>1 DEF CanFinish
<1> QED
  BY <1>2, FinalRefuses
-----------------------------------------------------------------------------
(* The six hashes *)

\* The state of a hash that was given the bytes m, and one that has answered.
Has(hasher, S, asked, key, m, a) ==
  LET f == FamilyOf(hasher)
  IN  IF hasher \in Sequential THEN FlatHas(f, S, asked, key, m, a)
      ELSE IF hasher \in Xofs THEN XofHas(f, S, asked, key, m, a)
      ELSE TreeHas(f, S, asked, key, m, a)

SpentHash(hasher, S) ==
  LET f == FamilyOf(hasher)
  IN  IF hasher \in Sequential THEN Spent(f, S)
      ELSE IF hasher \in Xofs THEN SpentXof(f, S)
      ELSE SpentTree(f, S)

\* What the streaming calls are, by kind of hash.
PutInto(hasher, S, in) ==
  LET f == FamilyOf(hasher)
  IN  IF hasher \in Sequential THEN update(f, S, in)
      ELSE IF hasher \in Xofs THEN XofTakes(f, S, in)
      ELSE tree_update(f, S, in)

FinishOf(hasher, S, outlen) ==
  LET f == FamilyOf(hasher)
  IN  IF hasher \in Sequential THEN final(f, S, outlen)
      ELSE IF hasher \in Xofs THEN xof_final(f, S, outlen)
      ELSE tree_final(f, S, outlen)

StartOf(hasher, asked, key) ==
  LET f == FamilyOf(hasher)
  IN  IF hasher \in Sequential THEN FlatStart(f, asked, key)
      ELSE IF hasher \in Xofs THEN xof_init_key(f, asked, key)
      ELSE TreeStart(f, asked, key)

\* A hash is of one kind.
LEMMA Kinds ==
  ASSUME NEW hasher \in Hashers
  PROVE  /\ FamilyOf(hasher) \in Family
         /\ \/ hasher \in Sequential /\ hasher \notin Xofs /\ hasher \notin Trees
            \/ hasher \in Xofs /\ hasher \notin Sequential /\ hasher \notin Trees
            \/ hasher \in Trees /\ hasher \notin Sequential /\ hasher \notin Xofs
BY DEF Hashers, FamilyOf, Family, Sequential, Xofs, Trees

\* put is PutInto,
LEMMA PutIs ==
  ASSUME NEW hasher \in Hashers, NEW S, NEW in
  PROVE  put(hasher, S, in) = PutInto(hasher, S, in)
<1>1. CASE hasher = "b"
  BY <1>1 DEF put, blake2b_update, PutInto, FamilyOf, Sequential, Xofs
<1>2. CASE hasher = "s"
  BY <1>2 DEF put, blake2s_update, PutInto, FamilyOf, Sequential, Xofs
<1>3. CASE hasher = "bp"
  BY <1>3 DEF put, blake2bp_update, PutInto, FamilyOf, Sequential, Xofs
<1>4. CASE hasher = "sp"
  BY <1>4 DEF put, blake2sp_update, PutInto, FamilyOf, Sequential, Xofs
<1>5. CASE hasher = "xb"
  BY <1>5 DEF put, blake2xb_update, blake2b_update, XofTakes, PutInto, FamilyOf, Sequential, Xofs
<1>6. CASE hasher = "xs"
  BY <1>6 DEF put, blake2xs_update, blake2s_update, XofTakes, PutInto, FamilyOf, Sequential, Xofs
<1> QED
  BY <1>1, <1>2, <1>3, <1>4, <1>5, <1>6 DEF Hashers

\* and finish is FinishOf.
LEMMA FinishIs ==
  ASSUME NEW hasher \in Hashers, NEW S, NEW outlen
  PROVE  finish(hasher, S, outlen) = FinishOf(hasher, S, outlen)
<1>1. CASE hasher = "b"
  BY <1>1 DEF finish, final, FinishOf, FamilyOf, Sequential, Xofs
<1>2. CASE hasher = "s"
  BY <1>2 DEF finish, final, FinishOf, FamilyOf, Sequential, Xofs
<1>3. CASE hasher = "bp"
  BY <1>3 DEF finish, blake2bp_final, FinishOf, FamilyOf, Sequential, Xofs
<1>4. CASE hasher = "sp"
  BY <1>4 DEF finish, blake2sp_final, FinishOf, FamilyOf, Sequential, Xofs
<1>5. CASE hasher = "xb"
  BY <1>5 DEF finish, blake2xb_final, FinishOf, FamilyOf, Sequential, Xofs
<1>6. CASE hasher = "xs"
  BY <1>6 DEF finish, blake2xs_final, FinishOf, FamilyOf, Sequential, Xofs
<1> QED
  BY <1>1, <1>2, <1>3, <1>4, <1>5, <1>6 DEF Hashers

\* What an accepted init was asked for.
MadeFor(hasher, asked, key) ==
  asked \in 1 .. LongestOutput(hasher) /\ Len(key) <= LongestKey(hasher)

\* An init that does not refuse gives the start of its hash, within the limits.
LEMMA InitIs ==
  ASSUME NEW hasher \in Hashers, NEW asked, init(hasher, asked) # NoState
  PROVE  init(hasher, asked) = StartOf(hasher, asked, <<>>) /\ MadeFor(hasher, asked, <<>>)
<1> DEFINE none == <<>>
           S == init(hasher, asked)
<1>0. Len(none) = 0 /\ none = <<>> /\ KEYBYTES["b"] \in Nat /\ KEYBYTES["s"] \in Nat
  BY Constants DEF Family
<1>f. \A f : FlatStart(f, asked, none) = init_param(f, SequentialParam(asked, 0))
  BY DEF FlatStart, Started
<1>t. \A f : TreeStart(f, asked, none) = tree_init(f, asked, 0)
  BY DEF TreeStart
<1> HIDE DEF none
<1>1. CASE hasher = "b"
  <2>1. S = blake2b_init(asked)
    BY <1>1 DEF init
  <2>2. OutlenFits("b", asked) /\ S = init_param("b", SequentialParam(asked, 0))
    BY <2>1 DEF blake2b_init
  <2> QED
    BY <1>0, <1>1, <1>f, <2>2
       DEF OutlenFits, StartOf, MadeFor, LongestOutput, LongestKey, FamilyOf, Sequential, Xofs
<1>2. CASE hasher = "s"
  <2>1. S = blake2s_init(asked)
    BY <1>2 DEF init
  <2>2. OutlenFits("s", asked) /\ S = init_param("s", SequentialParam(asked, 0))
    BY <2>1 DEF blake2s_init
  <2> QED
    BY <1>0, <1>2, <1>f, <2>2
       DEF OutlenFits, StartOf, MadeFor, LongestOutput, LongestKey, FamilyOf, Sequential, Xofs
<1>3. CASE hasher = "bp"
  <2>1. S = blake2bp_init(asked)
    BY <1>3 DEF init
  <2>2. OutlenFits("b", asked) /\ S = tree_init("b", asked, 0)
    BY <2>1 DEF blake2bp_init
  <2> QED
    BY <1>0, <1>3, <1>t, <2>2
       DEF OutlenFits, StartOf, MadeFor, LongestOutput, LongestKey, FamilyOf, Sequential, Xofs
<1>4. CASE hasher = "sp"
  <2>1. S = blake2sp_init(asked)
    BY <1>4 DEF init
  <2>2. OutlenFits("s", asked) /\ S = tree_init("s", asked, 0)
    BY <2>1 DEF blake2sp_init
  <2> QED
    BY <1>0, <1>4, <1>t, <2>2
       DEF OutlenFits, StartOf, MadeFor, LongestOutput, LongestKey, FamilyOf, Sequential, Xofs
<1>5. CASE hasher = "xb"
  <2>1. S = blake2xb_init_key(asked, none)
    BY <1>0, <1>5 DEF init, blake2xb_init
  <2>2. asked \in 1 .. XOFUNKNOWN["b"] /\ S = xof_init_key("b", asked, none)
    BY <2>1 DEF blake2xb_init_key
  <2> QED
    BY <1>0, <1>5, <2>2
       DEF StartOf, MadeFor, LongestOutput, LongestKey, FamilyOf, Sequential, Xofs
<1>6. CASE hasher = "xs"
  <2>1. S = blake2xs_init_key(asked, none)
    BY <1>0, <1>6 DEF init, blake2xs_init
  <2>2. asked \in 1 .. XOFUNKNOWN["s"] /\ S = xof_init_key("s", asked, none)
    BY <2>1 DEF blake2xs_init_key
  <2> QED
    BY <1>0, <1>6, <2>2
       DEF StartOf, MadeFor, LongestOutput, LongestKey, FamilyOf, Sequential, Xofs
<1> QED
  BY <1>0, <1>1, <1>2, <1>3, <1>4, <1>5, <1>6 DEF Hashers

\* So does an init with a key.
LEMMA InitKeyIs ==
  ASSUME NEW hasher \in Hashers, NEW asked, NEW key, Len(key) \in Nat,
         init_key(hasher, asked, key) # NoState
  PROVE  init_key(hasher, asked, key) = StartOf(hasher, asked, key) /\ MadeFor(hasher, asked, key)
<1> DEFINE S == init_key(hasher, asked, key)
           n == Len(key)
<1>0. KEYBYTES["b"] \in Nat /\ KEYBYTES["s"] \in Nat /\ (n # 0 => key # <<>>)
  BY Constants DEF Family
<1>f. key # <<>> => \A f : FlatStart(f, asked, key)
                            = update(f, init_param(f, SequentialParam(asked, n)), KeyBlock(f, key))
  BY DEF FlatStart, Started
<1>t. key # <<>> => \A f : TreeStart(f, asked, key) = tree_init_key(f, asked, key)
  BY DEF TreeStart
<1>1. CASE hasher = "b"
  <2>1. S = blake2b_init_key(asked, key)
    BY <1>1 DEF init_key
  <2>2. /\ OutlenFits("b", asked) /\ KeyFits("b", key)
        /\ S = update("b", init_param("b", SequentialParam(asked, n)), KeyBlock("b", key))
    BY <2>1 DEF blake2b_init_key
  <2> HIDE DEF n
  <2>3. n # 0 /\ n <= KEYBYTES["b"]
    BY <1>0, <2>2 DEF KeyFits, n
  <2> QED
    BY <1>0, <1>1, <1>f, <2>2, <2>3
       DEF OutlenFits, StartOf, MadeFor, LongestOutput, LongestKey, FamilyOf, Sequential, Xofs, n
<1>2. CASE hasher = "s"
  <2>1. S = blake2s_init_key(asked, key)
    BY <1>2 DEF init_key
  <2>2. /\ OutlenFits("s", asked) /\ KeyFits("s", key)
        /\ S = update("s", init_param("s", SequentialParam(asked, n)), KeyBlock("s", key))
    BY <2>1 DEF blake2s_init_key
  <2> HIDE DEF n
  <2>3. n # 0 /\ n <= KEYBYTES["s"]
    BY <1>0, <2>2 DEF KeyFits, n
  <2> QED
    BY <1>0, <1>2, <1>f, <2>2, <2>3
       DEF OutlenFits, StartOf, MadeFor, LongestOutput, LongestKey, FamilyOf, Sequential, Xofs, n
<1>3. CASE hasher = "bp"
  <2>1. S = blake2bp_init_key(asked, key)
    BY <1>3 DEF init_key
  <2>2. OutlenFits("b", asked) /\ KeyFits("b", key) /\ S = tree_init_key("b", asked, key)
    BY <2>1 DEF blake2bp_init_key
  <2> HIDE DEF n
  <2>3. n # 0 /\ n <= KEYBYTES["b"]
    BY SMTT(40), <1>0, <2>2 DEF KeyFits, n
  <2> QED
    BY <1>0, <1>3, <1>t, <2>2, <2>3
       DEF OutlenFits, StartOf, MadeFor, LongestOutput, LongestKey, FamilyOf, Sequential, Xofs, n
<1>4. CASE hasher = "sp"
  <2>1. S = blake2sp_init_key(asked, key)
    BY <1>4 DEF init_key
  <2>2. OutlenFits("s", asked) /\ KeyFits("s", key) /\ S = tree_init_key("s", asked, key)
    BY <2>1 DEF blake2sp_init_key
  <2> HIDE DEF n
  <2>3. n # 0 /\ n <= KEYBYTES["s"]
    BY <1>0, <2>2 DEF KeyFits, n
  <2> QED
    BY <1>0, <1>4, <1>t, <2>2, <2>3
       DEF OutlenFits, StartOf, MadeFor, LongestOutput, LongestKey, FamilyOf, Sequential, Xofs, n
<1>5. CASE hasher = "xb"
  <2>1. S = blake2xb_init_key(asked, key)
    BY <1>5 DEF init_key
  <2>2. asked \in 1 .. XOFUNKNOWN["b"] /\ n <= KEYBYTES["b"] /\ S = xof_init_key("b", asked, key)
    BY <2>1 DEF blake2xb_init_key
  <2> QED
    BY <1>5, <2>2 DEF StartOf, MadeFor, LongestOutput, LongestKey, FamilyOf, Sequential, Xofs
<1>6. CASE hasher = "xs"
  <2>1. S = blake2xs_init_key(asked, key)
    BY <1>6 DEF init_key
  <2>2. asked \in 1 .. XOFUNKNOWN["s"] /\ n <= KEYBYTES["b"] /\ S = xof_init_key("s", asked, key)
    BY <2>1 DEF blake2xs_init_key
  <2> QED
    BY <1>6, <2>2 DEF StartOf, MadeFor, LongestOutput, LongestKey, FamilyOf, Sequential, Xofs
<1> QED
  BY <1>1, <1>2, <1>3, <1>4, <1>5, <1>6 DEF Hashers

\* The start of a hash has taken nothing.
LEMMA StartHas ==
  ASSUME NEW hasher \in Hashers, NEW asked, NEW key, Row(key, Len(key))
  PROVE  Has(hasher, StartOf(hasher, asked, key), asked, key, <<>>, 0)
<1> DEFINE f == FamilyOf(hasher)
           none == <<>>
<1>1. f \in Family
  BY Kinds
<1>2. Row(none, 0)
  BY DEF Row
<1> HIDE DEF f, none
<1>3. FlatHas(f, FlatStart(f, asked, key), asked, key, none, 0)
  BY <1>1, <1>2, FlatStartHas
<1>4. XofHas(f, xof_init_key(f, asked, key), asked, key, none, 0)
  BY <1>1, <1>2, XofStartHas
<1>5. TreeHas(f, TreeStart(f, asked, key), asked, key, none, 0)
  BY <1>1, TreeStartHas
<1> QED
  BY <1>3, <1>4, <1>5 DEF Has, StartOf, f, none

\* A hash that is not finished takes what it is given.
LEMMA PutTakes ==
  ASSUME NEW hasher \in Hashers, NEW key, Row(key, Len(key)), NEW asked, NEW S, NEW m, NEW a,
         Row(m, a), Has(hasher, S, asked, key, m, a), NEW k, NEW e, Row(e, a + k),
         Agree(m, e, a), NEW in, Slice(in, e, a, k)
  PROVE  Has(hasher, put(hasher, S, in), asked, key, e, a + k)
<1> DEFINE f == FamilyOf(hasher)
<1>1. f \in Family /\ k \in Nat /\ a \in Nat
  BY Kinds DEF Slice, Row
<1>2. put(hasher, S, in) = PutInto(hasher, S, in)
  BY PutIs
<1> HIDE DEF f
<1>3. CASE hasher \in Sequential
  <2>1. FlatHas(f, S, asked, key, m, a)
    BY <1>3 DEF Has, f
  <2>2. FlatHas(f, update(f, S, in), asked, key, e, a + k)
    BY <1>1, <2>1, FlatUpdateTakes
  <2> QED
    BY <1>2, <1>3, <2>2 DEF Has, PutInto, f
<1>4. CASE hasher \in Xofs
  <2>1. XofHas(f, S, asked, key, m, a) /\ hasher \notin Sequential
    BY <1>4, Kinds DEF Has, f
  <2>2. XofHas(f, XofTakes(f, S, in), asked, key, e, a + k)
    BY <1>1, <2>1, XofUpdateTakes
  <2> QED
    BY <1>2, <1>4, <2>1, <2>2 DEF Has, PutInto, f
<1>5. CASE hasher \in Trees
  <2>1. TreeHas(f, S, asked, key, m, a) /\ hasher \notin Sequential /\ hasher \notin Xofs
    BY <1>5, Kinds DEF Has, f
  <2>2. TreeHas(f, tree_update(f, S, in), asked, key, e, a + k)
    BY <1>1, <2>1, TreeUpdateTakes
  <2> QED
    BY <1>2, <1>5, <2>1, <2>2 DEF Has, PutInto, f
<1> QED
  BY <1>3, <1>4, <1>5, Kinds

\* A finished one stays finished.
LEMMA PutSpent ==
  ASSUME NEW hasher \in Hashers, NEW S, SpentHash(hasher, S), NEW in, NEW k, Row(in, k)
  PROVE  SpentHash(hasher, put(hasher, S, in))
<1> DEFINE f == FamilyOf(hasher)
<1>1. f \in Family
  BY Kinds
<1>2. put(hasher, S, in) = PutInto(hasher, S, in)
  BY PutIs
<1> HIDE DEF f
<1>3. CASE hasher \in Sequential
  <2>1. Spent(f, S)
    BY <1>3 DEF SpentHash, f
  <2>2. Spent(f, update(f, S, in))
    BY <1>1, <2>1, UpdateSpent
  <2> QED
    BY <1>2, <1>3, <2>2 DEF SpentHash, PutInto, f
<1>4. CASE hasher \in Xofs
  <2>1. SpentXof(f, S) /\ hasher \notin Sequential
    BY <1>4, Kinds DEF SpentHash, f
  <2>2. SpentXof(f, XofTakes(f, S, in))
    BY <1>1, <2>1, XofUpdateSpent
  <2> QED
    BY <1>2, <1>4, <2>1, <2>2 DEF SpentHash, PutInto, f
<1>5. CASE hasher \in Trees
  <2>1. SpentTree(f, S) /\ hasher \notin Sequential /\ hasher \notin Xofs
    BY <1>5, Kinds DEF SpentHash, f
  <2>2. SpentTree(f, tree_update(f, S, in))
    BY <1>1, <2>1, TreeUpdateSpent
  <2> QED
    BY <1>2, <1>5, <2>1, <2>2 DEF SpentHash, PutInto, f
<1> QED
  BY <1>3, <1>4, <1>5, Kinds

\* The call that is accepted, and its answer.
Answers(hasher, end, asked, outlen, key, m) ==
  /\ end.ret = 0 /\ SpentHash(hasher, end.S)
  /\ end.out = DigestOf(hasher, asked, outlen, key, m)

\* A hash answers DigestOf of what it has taken, if its caller may ask.
LEMMA FinishAnswers ==
  ASSUME NEW hasher \in Hashers, NEW key, Row(key, Len(key)), NEW asked \in Nat \ {0}, NEW S, NEW m,
         NEW a, Row(m, a), Has(hasher, S, asked, key, m, a), NEW outlen \in Nat,
         MayAsk(hasher, asked, outlen)
  PROVE  Answers(hasher, finish(hasher, S, outlen), asked, outlen, key, m)
<1> DEFINE f == FamilyOf(hasher)
           E == finish(hasher, S, outlen)
<1>1. f \in Family /\ a \in Nat /\ asked \in Nat
  BY Kinds DEF Row
<1>2. E = FinishOf(hasher, S, outlen)
  BY FinishIs
<1> HIDE DEF f, E
<1>3. CASE hasher \in Sequential
  <2>1. FlatHas(f, S, asked, key, m, a) /\ outlen >= asked
    BY <1>3 DEF Has, MayAsk, f
  <2>2. /\ final(f, S, outlen).ret = 0
        /\ Spent(f, final(f, S, outlen).S)
        /\ final(f, S, outlen).out = FlatDigest(f, asked, Written(f, asked, outlen), key, m)
    BY <1>1, <2>1, FlatFinalHashes
  <2>3. E = final(f, S, outlen)
    BY <1>2, <1>3 DEF FinishOf, f
  <2>4. SpentHash(hasher, E.S)
    BY <1>3, <2>2, <2>3 DEF SpentHash, f
  <2>5. FlatDigest(f, asked, Written(f, asked, outlen), key, m)
          = DigestOf(hasher, asked, outlen, key, m)
    <3>1. CASE hasher = "b"
      BY <3>1 DEF DigestOf, Written, FamilyOf, f
    <3>2. CASE hasher = "s"
      BY <3>2 DEF DigestOf, Written, FamilyOf, f
    <3> QED
      BY <1>3, <3>1, <3>2 DEF Sequential
  <2> QED
    BY <2>2, <2>3, <2>4, <2>5 DEF Answers, E
<1>4. CASE hasher \in Xofs
  <2>1. XofHas(f, S, asked, key, m, a) /\ hasher \notin Sequential /\ hasher \notin Trees
    BY <1>4, Kinds DEF Has, f
  <2>2. XofMay(f, asked, outlen) /\ outlen # 0
    BY <1>1, <1>4, <2>1 DEF MayAsk, XofMay, f
  <2>3. /\ xof_final(f, S, outlen).ret = 0
        /\ SpentXof(f, xof_final(f, S, outlen).S)
        /\ xof_final(f, S, outlen).out = XofDigest(f, asked, outlen, key, m)
    BY <1>1, <2>1, <2>2, XofFinalHashes
  <2>4. E = xof_final(f, S, outlen)
    BY <1>2, <1>4, <2>1 DEF FinishOf, f
  <2>5. SpentHash(hasher, E.S)
    BY <1>4, <2>1, <2>3, <2>4 DEF SpentHash, f
  <2>6. XofDigest(f, asked, outlen, key, m) = DigestOf(hasher, asked, outlen, key, m)
    <3>1. hasher # "b" /\ hasher # "s"
      BY <2>1 DEF Sequential
    <3> QED
      BY <2>1, <3>1 DEF DigestOf, f
  <2> QED
    BY <2>3, <2>4, <2>5, <2>6 DEF Answers, E
<1>5. CASE hasher \in Trees
  <2>1. TreeHas(f, S, asked, key, m, a) /\ hasher \notin Sequential /\ hasher \notin Xofs
    BY <1>5, Kinds DEF Has, f
  <2>2. outlen >= asked
    BY <1>5 DEF MayAsk
  <2>3. /\ tree_final(f, S, outlen).ret = 0
        /\ SpentTree(f, tree_final(f, S, outlen).S)
        /\ tree_final(f, S, outlen).out = TreeDigest(f, asked, key, m)
    BY <1>1, <2>1, <2>2, TreeFinalHashes
  <2>4. E = tree_final(f, S, outlen)
    BY <1>2, <2>1 DEF FinishOf, f
  <2>5. SpentHash(hasher, E.S)
    BY <2>1, <2>3, <2>4 DEF SpentHash, f
  <2>6. TreeDigest(f, asked, key, m) = DigestOf(hasher, asked, outlen, key, m)
    <3>1. hasher # "b" /\ hasher # "s"
      BY <2>1 DEF Sequential
    <3> QED
      BY <1>5, <3>1 DEF DigestOf, f
  <2> QED
    BY <2>3, <2>4, <2>5, <2>6 DEF Answers, E
<1> QED
  BY <1>3, <1>4, <1>5, Kinds

\* The call that is refused before the end changes nothing.
LEMMA FinishRefuses ==
  ASSUME NEW hasher \in Hashers, NEW key, NEW asked \in Nat, NEW S, NEW m, NEW a,
         Has(hasher, S, asked, key, m, a), NEW outlen \in Nat, ~MayAsk(hasher, asked, outlen)
  PROVE  finish(hasher, S, outlen) = Refused(S)
<1> DEFINE f == FamilyOf(hasher)
           E == finish(hasher, S, outlen)
<1>1. f \in Family
  BY Kinds
<1>2. E = FinishOf(hasher, S, outlen)
  BY FinishIs
<1> HIDE DEF f, E
<1>3. CASE hasher \in Sequential
  <2>1. FlatHas(f, S, asked, key, m, a) /\ ~(outlen >= asked)
    BY <1>3 DEF Has, MayAsk, f
  <2>2. final(f, S, outlen) = Refused(S)
    BY <1>1, <2>1, FlatFinalRefuses
  <2> QED
    BY <1>2, <1>3, <2>2 DEF FinishOf, f, E
<1>4. CASE hasher \in Xofs
  <2>1. XofHas(f, S, asked, key, m, a) /\ hasher \notin Sequential /\ hasher \notin Trees
    BY <1>4, Kinds DEF Has, f
  <2>2. ~XofMay(f, asked, outlen)
    BY <2>1 DEF MayAsk, XofMay, f
  <2>3. S.P.xof_length = asked
    <3> DEFINE n == Len(key)
               P == XofParam(f, asked, n)
    <3>1. P.xof_length = asked
      BY DEF XofParam, SequentialParam
    <3>2. S = [P |-> P, S |-> S.S]
      BY <2>1 DEF XofHas
    <3> HIDE DEF P
    <3> QED
      BY <3>1, <3>2
  <2>4. xof_final(f, S, outlen) = Refused(S)
    BY <2>2, <2>3, XofFinalRefuses
  <2> QED
    BY <1>2, <1>4, <2>1, <2>4 DEF FinishOf, f, E
<1>5. CASE hasher \in Trees
  <2>1. TreeHas(f, S, asked, key, m, a) /\ hasher \notin Sequential /\ hasher \notin Xofs
    BY <1>5, Kinds DEF Has, f
  <2>2. ~(outlen >= asked)
    BY <1>5 DEF MayAsk
  <2>3. S.outlen = asked
    BY <2>1 DEF TreeHas
  <2>4. outlen < S.outlen
    BY <2>2, <2>3
  <2>5. tree_final(f, S, outlen) = Refused(S)
    BY <2>4 DEF tree_final
  <2> QED
    BY <1>2, <2>1, <2>5 DEF FinishOf, f, E
<1> QED
  BY <1>3, <1>4, <1>5, Kinds

\* A hash that has answered refuses to answer again.
LEMMA FinishSpent ==
  ASSUME NEW hasher \in Hashers, NEW S, SpentHash(hasher, S), NEW outlen
  PROVE  /\ finish(hasher, S, outlen).ret = -1
         /\ SpentHash(hasher, finish(hasher, S, outlen).S)
<1> DEFINE f == FamilyOf(hasher)
           E == finish(hasher, S, outlen)
<1>1. f \in Family
  BY Kinds
<1>2. E = FinishOf(hasher, S, outlen)
  BY FinishIs
<1> HIDE DEF f, E
<1>3. CASE hasher \in Sequential
  <2>1. Spent(f, S)
    BY <1>3 DEF SpentHash, f
  <2>2. E = final(f, S, outlen)
    BY <1>2, <1>3 DEF FinishOf, f
  <2>3. E.ret = -1 /\ E.S = S
    BY <1>1, <2>1, <2>2, FinalSpent
  <2> QED
    BY <2>3 DEF E
<1>4. CASE hasher \in Xofs
  <2>1. SpentXof(f, S) /\ hasher \notin Sequential
    BY <1>4, Kinds DEF SpentHash, f
  <2>2. E = xof_final(f, S, outlen)
    BY <1>2, <1>4, <2>1 DEF FinishOf, f
  <2>3. E = Refused(S)
    BY <1>1, <2>1, <2>2, XofFinalSpent
  <2>4. E.ret = -1 /\ E.S = S
    BY <2>3 DEF Refused
  <2> QED
    BY <2>4 DEF E
<1>5. CASE hasher \in Trees
  <2>1. SpentTree(f, S) /\ hasher \notin Sequential /\ hasher \notin Xofs
    BY <1>5, Kinds DEF SpentHash, f
  <2>2. E = tree_final(f, S, outlen)
    BY <1>2, <2>1 DEF FinishOf, f
  <2>3. E.ret = -1 /\ SpentTree(f, E.S)
    BY <1>1, <2>1, <2>2, TreeFinalSpent
  <2> QED
    BY <2>1, <2>3 DEF SpentHash, f, E
<1> QED
  BY <1>3, <1>4, <1>5, Kinds
-----------------------------------------------------------------------------
(* The inductive invariant *)

\* A hash that is not finished has exactly the bytes its caller put in; one that is
\* finished has answered with their digest, and cannot answer again.
Answered(c, S, m, out) ==
  /\ SpentHash(c.hasher, S)
  /\ \E outlen \in Nat : /\ MayAsk(c.hasher, c.asked, outlen)
                         /\ out = DigestOf(c.hasher, c.asked, outlen, c.key, m)

CallOK(c) ==
  /\ c.hasher \in Hashers
  /\ MadeFor(c.hasher, c.asked, c.key)
  /\ Row(c.key, Len(c.key))

HashInv ==
  /\ Row(absorbed, Len(absorbed)) /\ Len(absorbed) <= MaxInput
  /\ call = NoCall => absorbed = <<>> /\ answer = <<>>
  /\ call # NoCall =>
       /\ CallOK(call)
       /\ IF Finished THEN Answered(call, state, absorbed, answer)
          ELSE Has(call.hasher, state, call.asked, call.key, absorbed, Len(absorbed))

\* A hash is made for one byte at least.
LEMMA AskedIs ==
  ASSUME NEW hasher \in Hashers, NEW asked, NEW key, MadeFor(hasher, asked, key)
  PROVE  asked \in Nat \ {0}
<1> DEFINE f == FamilyOf(hasher)
<1>1. OUTBYTES[f] \in Nat /\ XOFUNKNOWN[f] \in Nat
  BY Kinds, Constants
<1>2. LongestOutput(hasher) \in Nat
  BY <1>1 DEF LongestOutput
<1> QED
  BY <1>2 DEF MadeFor

\* The length of an answer.
AnswerLength(hasher, asked, outlen) ==
  IF hasher \in Trees \cup {"b"} THEN asked ELSE outlen

\* The answer depends on what was asked for only by its own length.
LEMMA AnswerIs ==
  ASSUME NEW hasher \in Hashers, NEW asked \in Nat \ {0}, NEW outlen \in Nat,
         MayAsk(hasher, asked, outlen), NEW key, NEW m
  PROVE  /\ Len(DigestOf(hasher, asked, outlen, key, m)) = AnswerLength(hasher, asked, outlen)
         /\ DigestOf(hasher, asked, outlen, key, m) # <<>>
         /\ MayAsk(hasher, asked, AnswerLength(hasher, asked, outlen))
         /\ DigestOf(hasher, asked, outlen, key, m)
              = DigestOf(hasher, asked, AnswerLength(hasher, asked, outlen), key, m)
<1> DEFINE f == FamilyOf(hasher)
           d == DigestOf(hasher, asked, outlen, key, m)
           n == AnswerLength(hasher, asked, outlen)
<1>1. n \in Nat \ {0} /\ MayAsk(hasher, asked, n) /\ Row(d, n)
      /\ d = DigestOf(hasher, asked, n, key, m)
  <2>0. \A h, x : x \in Nat => Row(Digest(h, x), x)
    BY DEF Digest, Row
  <2>1. CASE hasher = "b"
    <3>1. n = asked /\ d = FlatDigest("b", asked, asked, key, m)
          /\ DigestOf(hasher, asked, n, key, m) = FlatDigest("b", asked, asked, key, m)
      BY <2>1 DEF AnswerLength, DigestOf
    <3> HIDE DEF d, n
    <3>2. Row(d, n)
      BY <2>0, <3>1 DEF FlatDigest
    <3> QED
      BY <2>1, <3>1, <3>2 DEF MayAsk, Sequential
  <2>2. CASE hasher = "s"
    <3>1. n = outlen /\ d = FlatDigest("s", asked, outlen, key, m)
      BY <2>2 DEF AnswerLength, DigestOf, Trees
    <3> HIDE DEF d, n
    <3>2. Row(d, n)
      BY <2>0, <3>1 DEF FlatDigest
    <3>3. outlen >= asked
      BY <2>2 DEF MayAsk, Sequential
    <3> QED
      BY <3>1, <3>2, <3>3 DEF d
  <2>3. CASE hasher \in Trees
    <3>1. n = asked /\ d = TreeDigest(f, asked, key, m)
          /\ DigestOf(hasher, asked, n, key, m) = TreeDigest(f, asked, key, m)
      BY <2>3 DEF AnswerLength, DigestOf, Trees
    <3> HIDE DEF d, n, f
    <3>2. Row(d, n)
      BY <2>0, <3>1 DEF TreeDigest
    <3> QED
      BY <2>3, <3>1, <3>2 DEF MayAsk
  <2>4. CASE hasher \in Xofs
    <3>1. n = outlen /\ d = XofDigest(f, asked, outlen, key, m)
      BY <2>4 DEF AnswerLength, DigestOf, Trees, Xofs
    <3> HIDE DEF d, n
    <3>2. Row(d, n)
      BY <3>1 DEF XofDigest, Row
    <3>3. outlen # 0
      BY <2>4 DEF MayAsk, Sequential, Trees, Xofs
    <3> QED
      BY <3>1, <3>2, <3>3 DEF d
  <2> QED
    BY <2>1, <2>2, <2>3, <2>4, Kinds DEF Sequential
<1> HIDE DEF d, n
<1>2. Len(d) = n
  BY <1>1, RowIs
<1>3. d # <<>>
  BY <1>1, <1>2
<1> QED
  BY <1>1, <1>2, <1>3 DEF d, n

\* HashInv holds in the beginning.
LEMMA InitHolds ==
  Init => HashInv
<1> SUFFICES ASSUME Init PROVE HashInv
  OBVIOUS
<1>1. call = NoCall /\ absorbed = <<>> /\ answer = <<>>
  BY DEF Init
<1>2. Len(absorbed) = 0
  BY <1>1
<1>3. Row(absorbed, Len(absorbed))
  BY <1>1, <1>2 DEF Row
<1>4. Len(absorbed) <= MaxInput
  BY <1>2, InputsAssumption
<1> QED
  BY <1>1, <1>3, <1>4 DEF HashInv

\* Making a hash keeps HashInv.
LEMMA MadeHolds ==
  ASSUME HashInv, NEW S, NEW hasher \in Hashers, NEW asked, NEW key, Row(key, Len(key)),
         S = StartOf(hasher, asked, key), MadeFor(hasher, asked, key),
         Made(S, hasher, asked, key)
  PROVE  /\ HashInv'
         /\ call' # NoCall /\ CallOK(call') /\ call = NoCall /\ UNCHANGED <<absorbed, answer>>
         /\ call' = [hasher |-> hasher, asked |-> asked, key |-> key]
<1>1. /\ call = NoCall /\ state' = S
      /\ call' = [hasher |-> hasher, asked |-> asked, key |-> key]
      /\ absorbed' = absorbed /\ answer' = answer
  BY DEF Made
<1>2. absorbed = <<>> /\ answer = <<>> /\ Row(absorbed, Len(absorbed)) /\ Len(absorbed) <= MaxInput
  BY <1>1 DEF HashInv
<1>3. call'.hasher = hasher /\ call'.asked = asked /\ call'.key = key
  BY <1>1
<1>4. call' # NoCall
  BY <1>3 DEF NoCall, Hashers
<1>5. CallOK(call')
  BY <1>3 DEF CallOK
<1>6. Has(hasher, S, asked, key, <<>>, 0)
  BY StartHas
<1>7. Has(call'.hasher, state', call'.asked, call'.key, absorbed', Len(absorbed'))
  <2> DEFINE none == <<>>
  <2>1. absorbed' = none /\ Len(none) = 0 /\ Has(hasher, S, asked, key, none, 0)
    BY <1>1, <1>2, <1>6
  <2> HIDE DEF none
  <2> QED
    BY <1>1, <1>3, <2>1
<1>8. ~Finished'
  BY <1>1, <1>2 DEF Finished
<1>9. HashInv'
  BY <1>1, <1>2, <1>4, <1>5, <1>7, <1>8 DEF HashInv
<1> QED
  BY <1>1, <1>4, <1>5, <1>9

\* Putting bytes in keeps HashInv, and adds them to the input of a hash that is not finished.
LEMMA PutHolds ==
  ASSUME HashInv, NEW n \in Pieces, Put(n)
  PROVE  /\ HashInv'
         /\ call' = call /\ answer' = answer /\ call # NoCall
         /\ absorbed' = (IF Finished THEN absorbed ELSE absorbed \o Bytes(n))
<1> DEFINE in == Bytes(n)
           a == Len(absorbed)
           e == absorbed \o in
           c == call
<1>1. /\ call # NoCall /\ a + n <= MaxInput /\ state' = put(c.hasher, state, in)
      /\ absorbed' = (IF Finished THEN absorbed ELSE e)
      /\ call' = c /\ answer' = answer
  BY DEF Put
<1>2. /\ Row(absorbed, a) /\ a <= MaxInput /\ CallOK(c)
      /\ IF Finished THEN Answered(c, state, absorbed, answer)
         ELSE Has(c.hasher, state, c.asked, c.key, absorbed, a)
  BY <1>1 DEF HashInv
<1>3. n \in Nat /\ MaxInput \in Nat
  BY InputsAssumption
<1>4. Row(in, n)
  BY <1>3 DEF Bytes, Row
<1>5. c.hasher \in Hashers /\ Row(c.key, Len(c.key))
  BY <1>2 DEF CallOK
<1>6. Finished' = Finished
  BY <1>1 DEF Finished
<1> HIDE DEF in, c, a
<1>7. CASE Finished
  <2>1. Answered(c, state, absorbed, answer)
    BY <1>2, <1>7
  <2>2. SpentHash(c.hasher, state')
    <3> DEFINE hasher == c.hasher
               T == put(hasher, state, in)
    <3>1. hasher \in Hashers /\ SpentHash(hasher, state) /\ state' = T
      BY <1>1, <1>5, <2>1 DEF Answered
    <3> HIDE DEF hasher
    <3>2. SpentHash(hasher, T)
      BY <1>4, <3>1, PutSpent
    <3> QED
      BY <3>1, <3>2 DEF hasher
  <2>3. absorbed' = absorbed
    BY <1>1, <1>7
  <2>4. Answered(call', state', absorbed', answer')
    BY <1>1, <2>1, <2>2, <2>3 DEF Answered
  <2>5. Row(absorbed', Len(absorbed')) /\ Len(absorbed') <= MaxInput
    BY <1>2, <2>3 DEF a
  <2>6. HashInv'
    BY <1>1, <1>2, <1>6, <1>7, <2>4, <2>5 DEF HashInv, c
  <2> QED
    BY <1>1, <2>6 DEF c, in
<1>8. CASE ~Finished
  <2>1. Has(c.hasher, state, c.asked, c.key, absorbed, a)
    BY <1>2, <1>8
  <2>2. Row(e, a + n) /\ Agree(absorbed, e, a) /\ Slice(in, e, a, n)
    BY <1>2, <1>4, JoinIs
  <2>3. absorbed' = e
    BY <1>1, <1>8
  <2> HIDE DEF e
  <2>4. Len(e) = a + n
    <3> DEFINE x == a + n
    <3>1. Row(e, x)
      BY <2>2
    <3> HIDE DEF x
    <3>2. Len(e) = x
      BY <3>1, RowIs
    <3> QED
      BY <3>2 DEF x
  <2>5. Has(c.hasher, put(c.hasher, state, in), c.asked, c.key, e, a + n)
    <3> DEFINE hasher == c.hasher
               key == c.key
               asked == c.asked
    <3>1. hasher \in Hashers /\ Row(key, Len(key)) /\ Has(hasher, state, asked, key, absorbed, a)
      BY <1>5, <2>1
    <3> HIDE DEF hasher, key, asked
    <3>2. Has(hasher, put(hasher, state, in), asked, key, e, a + n)
      BY <1>2, <2>2, <3>1, PutTakes
    <3> QED
      BY <3>2 DEF hasher, key, asked
  <2>6. Has(call'.hasher, state', call'.asked, call'.key, absorbed', Len(absorbed'))
    BY <1>1, <2>3, <2>4, <2>5
  <2>7. Row(absorbed', Len(absorbed')) /\ Len(absorbed') <= MaxInput
    BY <1>1, <2>2, <2>3, <2>4
  <2>8. HashInv'
    BY <1>1, <1>2, <1>6, <1>8, <2>6, <2>7 DEF HashInv, c
  <2> QED
    BY <1>1, <2>8 DEF c, in, e
<1> QED
  BY <1>7, <1>8

\* Finishing keeps HashInv, and answers at most once.
LEMMA FinishHolds ==
  ASSUME HashInv, NEW outlen \in Lengths, Finish(outlen)
  PROVE  /\ HashInv'
         /\ call' = call /\ absorbed' = absorbed /\ call # NoCall
         /\ \/ answer' = answer
            \/ /\ answer = <<>> /\ MayAsk(call.hasher, call.asked, outlen)
               /\ answer' = DigestOf(call.hasher, call.asked, outlen, call.key, absorbed)
<1> DEFINE c == call
           hasher == c.hasher
           asked == c.asked
           key == c.key
           a == Len(absorbed)
           E == finish(hasher, state, outlen)
           d == DigestOf(hasher, asked, outlen, key, absorbed)
<1>1. /\ call # NoCall /\ state' = E.S /\ answer' = (IF E.ret = 0 THEN E.out ELSE answer)
      /\ call' = c /\ absorbed' = absorbed
  BY DEF Finish
<1>2. /\ Row(absorbed, a) /\ a <= MaxInput /\ CallOK(c)
      /\ IF Finished THEN Answered(c, state, absorbed, answer)
         ELSE Has(hasher, state, asked, key, absorbed, a)
  BY <1>1 DEF HashInv
<1>3. outlen \in Nat
  BY InputsAssumption
<1>4. hasher \in Hashers /\ Row(key, Len(key)) /\ MadeFor(hasher, asked, key)
  BY <1>2 DEF CallOK
<1>5. Row(absorbed', Len(absorbed')) /\ Len(absorbed') <= MaxInput
  BY <1>1, <1>2
<1> HIDE DEF hasher, asked, key, a, E, d
<1>6. asked \in Nat \ {0} /\ asked \in Nat
  BY <1>4, AskedIs
<1>7. CASE Finished
  <2>1. Answered(c, state, absorbed, answer)
    BY <1>2, <1>7
  <2>2. SpentHash(hasher, state)
    BY <2>1 DEF Answered, hasher
  <2>3. E.ret = -1 /\ SpentHash(hasher, E.S)
    BY <1>4, <2>2, FinishSpent DEF E
  <2>4. answer' = answer
    <3>1. E.ret # 0
      BY <2>3
    <3> QED
      BY <1>1, <3>1
  <2>5. Answered(call', state', absorbed', answer')
    BY <1>1, <2>1, <2>3, <2>4 DEF Answered, hasher
  <2>6. Finished'
    BY <1>7, <2>4 DEF Finished
  <2>7. HashInv'
    BY <1>1, <1>2, <1>5, <2>5, <2>6 DEF HashInv
  <2> QED
    BY <1>1, <2>4, <2>7
<1>8. CASE ~Finished /\ MayAsk(hasher, asked, outlen)
  <2>1. Has(hasher, state, asked, key, absorbed, a)
    BY <1>2, <1>8
  <2>2. Answers(hasher, E, asked, outlen, key, absorbed)
    BY <1>2, <1>3, <1>4, <1>6, <1>8, <2>1, FinishAnswers DEF E
  <2>3. E.ret = 0 /\ SpentHash(hasher, E.S) /\ E.out = d
    BY <2>2 DEF Answers, d
  <2>4. answer' = d
    BY <1>1, <2>3
  <2>5. d # <<>>
    BY <1>3, <1>4, <1>6, <1>8, AnswerIs DEF d
  <2>6. Finished'
    BY <2>4, <2>5 DEF Finished
  <2>7. Answered(call', state', absorbed', answer')
    BY <1>1, <1>3, <1>8, <2>3, <2>4 DEF Answered, hasher, asked, key, d
  <2>8. HashInv'
    BY <1>1, <1>2, <1>5, <2>6, <2>7 DEF HashInv
  <2>9. answer = <<>>
    BY <1>8 DEF Finished
  <2> QED
    BY <1>1, <1>8, <2>4, <2>8, <2>9 DEF d, hasher, asked, key
<1>9. CASE ~Finished /\ ~MayAsk(hasher, asked, outlen)
  <2>1. Has(hasher, state, asked, key, absorbed, a)
    BY <1>2, <1>9
  <2>2. E = Refused(state)
    BY <1>3, <1>4, <1>6, <1>9, <2>1, FinishRefuses DEF E
  <2>3. E.ret = -1 /\ E.S = state
    BY <2>2 DEF Refused
  <2>4. answer' = answer /\ state' = state
    <3>1. E.ret # 0
      BY <2>3
    <3> QED
      BY <1>1, <2>3, <3>1
  <2>5. ~Finished'
    BY <1>9, <2>4 DEF Finished
  <2>6. Has(call'.hasher, state', call'.asked, call'.key, absorbed', Len(absorbed'))
    BY <1>1, <2>1, <2>4 DEF hasher, asked, key, a
  <2>7. HashInv'
    BY <1>1, <1>2, <1>5, <2>5, <2>6 DEF HashInv
  <2> QED
    BY <1>1, <2>4, <2>7
<1> QED
  BY <1>7, <1>8, <1>9

\* An init that is accepted gives the start of its hash.
LEMMA MakeIs ==
  ASSUME NEW hasher \in Hashers, NEW asked, Make(hasher, asked)
  PROVE  /\ init(hasher, asked) = StartOf(hasher, asked, <<>>)
         /\ MadeFor(hasher, asked, <<>>)
         /\ Made(init(hasher, asked), hasher, asked, <<>>)
<1>1. Made(init(hasher, asked), hasher, asked, <<>>)
  BY DEF Make
<1>2. init(hasher, asked) # NoState
  BY DEF Make, Made
<1> QED
  BY <1>1, <1>2, InitIs

\* The same with a key.
LEMMA MakeKeyedIs ==
  ASSUME NEW hasher \in Hashers, NEW asked, NEW key \in Keys, MakeKeyed(hasher, asked, key)
  PROVE  /\ init_key(hasher, asked, key) = StartOf(hasher, asked, key)
         /\ MadeFor(hasher, asked, key) /\ Row(key, Len(key))
         /\ Made(init_key(hasher, asked, key), hasher, asked, key)
<1>1. Row(key, Len(key))
  BY KeysAssumption, RowOf
<1>2. Len(key) \in Nat
  BY <1>1 DEF Row
<1>3. Made(init_key(hasher, asked, key), hasher, asked, key)
  BY DEF MakeKeyed
<1>4. init_key(hasher, asked, key) # NoState
  BY DEF MakeKeyed, Made
<1> QED
  BY <1>1, <1>2, <1>3, <1>4, InitKeyIs

\* Make keeps HashInv.
LEMMA MadeByInit ==
  ASSUME HashInv, NEW hasher \in Hashers, NEW asked, Make(hasher, asked)
  PROVE  /\ HashInv'
         /\ call' # NoCall /\ CallOK(call') /\ call = NoCall /\ UNCHANGED <<absorbed, answer>>
         /\ call' = [hasher |-> hasher, asked |-> asked, key |-> <<>>]
<1> DEFINE none == <<>>
           S == init(hasher, asked)
<1>1. Len(none) = 0
  OBVIOUS
<1>2. Row(none, Len(none))
  BY <1>1 DEF Row
<1>3. S = StartOf(hasher, asked, none) /\ MadeFor(hasher, asked, none)
      /\ Made(S, hasher, asked, none)
  BY MakeIs
<1> HIDE DEF none, S
<1>4. /\ HashInv'
      /\ call' # NoCall /\ CallOK(call') /\ call = NoCall /\ UNCHANGED <<absorbed, answer>>
      /\ call' = [hasher |-> hasher, asked |-> asked, key |-> none]
  BY <1>2, <1>3, MadeHolds
<1> QED
  BY <1>4 DEF none

\* MakeKeyed keeps HashInv.
LEMMA MadeByInitKey ==
  ASSUME HashInv, NEW hasher \in Hashers, NEW asked, NEW key \in Keys,
         MakeKeyed(hasher, asked, key)
  PROVE  /\ HashInv'
         /\ call' # NoCall /\ CallOK(call') /\ call = NoCall /\ UNCHANGED <<absorbed, answer>>
         /\ call' = [hasher |-> hasher, asked |-> asked, key |-> key]
<1> DEFINE S == init_key(hasher, asked, key)
<1>1. S = StartOf(hasher, asked, key) /\ MadeFor(hasher, asked, key) /\ Row(key, Len(key))
      /\ Made(S, hasher, asked, key)
  BY MakeKeyedIs
<1> HIDE DEF S
<1> QED
  BY <1>1, MadeHolds

\* Every step keeps HashInv.
LEMMA NextHolds ==
  HashInv /\ [Next]_vars => HashInv'
<1> SUFFICES ASSUME HashInv, [Next]_vars PROVE HashInv'
  OBVIOUS
<1>1. ASSUME NEW hasher \in Hashers, NEW asked \in Lengths, Make(hasher, asked) PROVE HashInv'
  BY <1>1, MadeByInit
<1>2. ASSUME NEW hasher \in Hashers, NEW asked \in Lengths, NEW key \in Keys,
             MakeKeyed(hasher, asked, key)
      PROVE HashInv'
  BY <1>2, MadeByInitKey
<1>3. ASSUME NEW n \in Pieces, Put(n) PROVE HashInv'
  BY <1>3, PutHolds
<1>4. ASSUME NEW outlen \in Lengths, Finish(outlen) PROVE HashInv'
  BY <1>4, FinishHolds
<1>5. CASE UNCHANGED vars
  BY <1>5 DEF vars, HashInv, Finished, Answered
<1> QED
  BY <1>1, <1>2, <1>3, <1>4, <1>5 DEF Next

\* After any calls, the C state is the one that the input bytes alone determine, whatever
\* pieces they came in, or one that has answered the digest of them and refuses.
THEOREM HashInvHolds == Spec => []HashInv
<1> QED
  BY InitHolds, NextHolds, PTL DEF Spec
-----------------------------------------------------------------------------
(* No byte is lost *)

\* No counter wraps.
LEMMA CounterHolds ==
  ASSUME NEW f \in Family, NEW key, NEW a \in Nat, a <= MaxInput
  PROVE  KeyLen(f, key) + a \in Nat /\ KeyLen(f, key) + a < WORD[f] * WORD[f]
<1> DEFINE size == BLOCKBYTES[f]
           k == KeyLen(f, key)
           z == WORD[f] * WORD[f]
<1>1. size \in Nat /\ k \in Nat /\ k <= size
  BY Constants DEF KeyLen
<1>2. WORD[f] \in Nat /\ z \in Nat
  BY Constants
<1>3. MaxInput \in Nat /\ MaxInput + size < z
  BY InputsAssumption, CounterAssumption
<1> HIDE DEF size, k, z
<1>4. k + a \in Nat /\ k + a < z
  BY <1>1, <1>2, <1>3
<1> QED
  BY <1>4 DEF k, z

\* blake2b and blake2s count what they were given,
LEMMA FlatAccounts ==
  ASSUME NEW f \in Family, NEW S, NEW asked, NEW key, NEW m, NEW a \in Nat, a <= MaxInput,
         FlatHas(f, S, asked, key, m, a)
  PROVE  Accounts(f, S, KeyLen(f, key) + a)
<1> DEFINE P == SequentialParam(asked, Len(key))
           no == FALSE
           d == Keyed(f, key, m)
           c == KeyLen(f, key) + a
<1>1. Absorbed(f, S, P, d, c, asked, no)
  BY DEF FlatHas
<1>2. c \in Nat /\ c < WORD[f] * WORD[f]
  BY CounterHolds
<1> HIDE DEF P, no, d, c
<1>3. Accounts(f, S, c)
  BY <1>1, <1>2, AbsorbedAccounts
<1> QED
  BY <1>3 DEF c

\* and so do the roots of blake2xb and blake2xs,
LEMMA XofAccounts ==
  ASSUME NEW f \in Family, NEW S, NEW asked, NEW key, NEW m, NEW a \in Nat, a <= MaxInput,
         XofHas(f, S, asked, key, m, a)
  PROVE  Accounts(f, S.S, KeyLen(f, key) + a)
<1> DEFINE P == XofParam(f, asked, Len(key))
           no == FALSE
           d == Keyed(f, key, m)
           c == KeyLen(f, key) + a
           o == OUTBYTES[f]
           T == S.S
<1>1. Absorbed(f, T, P, d, c, o, no)
  BY DEF XofHas
<1>2. c \in Nat /\ c < WORD[f] * WORD[f]
  BY CounterHolds
<1> HIDE DEF P, no, d, c, o, T
<1>3. Accounts(f, T, c)
  BY <1>1, <1>2, AbsorbedAccounts
<1> QED
  BY <1>3 DEF c, T

\* A leaf is given no more than the whole input.
LEMMA LeafShareBound ==
  ASSUME NEW f \in Family, NEW a \in Nat
  PROVE  /\ (a \div Stripe(f)) * BLOCKBYTES[f] \in Nat
         /\ (a \div Stripe(f)) * BLOCKBYTES[f] <= a
<1> DEFINE size == BLOCKBYTES[f]
           s == Stripe(f)
           q == a \div s
           D == DEGREE[f]
<1>1. size \in Nat \ {0} /\ D \in Nat \ {0} /\ s = D * size
  BY Constants DEF Stripe
<1> HIDE DEF size, D, s
<1>2. D * size \in Nat \ {0}
  BY <1>1
<1>3. s \in Nat \ {0}
  BY <1>1, <1>2
<1>4. q \in Nat /\ a % s \in Nat /\ a = q * s + (a % s)
  BY <1>3, DivMod
<1> HIDE DEF q
<1>5. (D - 1) * size \in Nat /\ D * size = (D - 1) * size + size
  <2>1. D - 1 \in Nat /\ (D - 1) + 1 = D
    BY <1>1
  <2> QED
    BY <1>1, <2>1, TimesNext
<1>6. size <= s
  BY <1>1, <1>5
<1>7. q * size \in Nat /\ q * s \in Nat /\ q * size <= q * s
  BY <1>1, <1>3, <1>4, <1>6
<1>8. q * size <= a
  <2> DEFINE x == q * size
             y == q * s
             r == a % s
  <2>1. x \in Nat /\ y \in Nat /\ x <= y /\ r \in Nat /\ a = y + r
    BY <1>4, <1>7
  <2> HIDE DEF x, y, r
  <2>2. x <= a
    BY <2>1
  <2> QED
    BY <2>2 DEF x
<1> QED
  BY <1>7, <1>8 DEF q, s, size

\* and every leaf of a tree; the root of a tree is given nothing before the end.
LEMMA TreeAccounts ==
  ASSUME NEW f \in Family, NEW S, NEW asked, NEW key, NEW m, NEW a \in Nat, a <= MaxInput,
         TreeHas(f, S, asked, key, m, a)
  PROVE  /\ S.buflen = a % Stripe(f)
         /\ \A i \in Leaves(f) :
              Accounts(f, S.S[i], KeyLen(f, key) + (a \div Stripe(f)) * BLOCKBYTES[f])
         /\ Accounts(f, S.R, 0)
<1> DEFINE n == (a \div Stripe(f)) * BLOCKBYTES[f]
           keylen == Len(key)
           o == OUTBYTES[f]
           c == KeyLen(f, key) + n
           leaves == S.S
<1>1. n \in Nat /\ n <= a /\ MaxInput \in Nat
  BY LeafShareBound, InputsAssumption
<1>2. LeavesHave(f, leaves, asked, key, m, a \div Stripe(f))
  BY DEF TreeHas
<1>3. ASSUME NEW i \in Leaves(f)
      PROVE LeafHas(f, leaves[i], TreeParam(f, asked, keylen, i - 1, 0), key, i, m, n, o, IsLast(f, i))
  BY <1>2 DEF LeavesHave
<1> HIDE DEF n
<1>4. n <= MaxInput
  BY <1>1
<1>5. c \in Nat /\ c < WORD[f] * WORD[f]
  BY <1>1, <1>4, CounterHolds
<1> HIDE DEF leaves
<1>6. ASSUME NEW i \in Leaves(f) PROVE Accounts(f, leaves[i], c)
  <2> DEFINE P == TreeParam(f, asked, keylen, i - 1, 0)
             l == IsLast(f, i)
             d == Keyed(f, key, Blocks(f, i, m, n))
             T == leaves[i]
  <2>1. Absorbed(f, T, P, d, c, o, l)
    BY <1>3, <1>6 DEF LeafHas
  <2> HIDE DEF P, l, d, c, o, T
  <2>2. Accounts(f, T, c)
    BY <1>5, <2>1, AbsorbedAccounts
  <2> QED
    BY <2>2 DEF T
<1>7. Accounts(f, S.R, 0)
  <2> DEFINE P == TreeParam(f, asked, keylen, 0, 1)
             R == S.R
             d == <<>>
             yes == TRUE
             z == 0
  <2>1. Absorbed(f, R, P, d, z, asked, yes)
    BY DEF TreeHas
  <2>2. z \in Nat /\ z < WORD[f] * WORD[f]
    <3> DEFINE w == WORD[f] * WORD[f]
    <3>1. w \in Nat
      BY Constants
    <3> HIDE DEF c, w
    <3>2. 0 < w
      BY <1>5, <3>1 DEF w
    <3> QED
      BY <3>2 DEF w
  <2> HIDE DEF P, R, d, yes, z
  <2>3. Accounts(f, R, z)
    BY <2>1, <2>2, AbsorbedAccounts
  <2> QED
    BY <2>3 DEF R, z
<1>8. S.buflen = a % Stripe(f)
  BY DEF TreeHas
<1> HIDE DEF c
<1> QED
  BY <1>6, <1>7, <1>8 DEF c, n, leaves

\* The accounts follow from the invariant: no counter wraps.
LEMMA HashAccounts ==
  HashInv => BytesAccounted
<1> SUFFICES ASSUME HashInv, call # NoCall, ~Finished PROVE BytesAccounted
  BY DEF BytesAccounted
<1> DEFINE hasher == call.hasher
           f == FamilyOf(hasher)
           key == call.key
           asked == call.asked
           a == Len(absorbed)
<1>1. a <= MaxInput /\ Row(absorbed, a) /\ hasher \in Hashers
      /\ Has(hasher, state, asked, key, absorbed, a)
  BY DEF HashInv, CallOK
<1>2. f \in Family /\ a \in Nat
  BY <1>1, Kinds DEF Row
<1> HIDE DEF hasher, f, key, asked, a
<1>3. CASE hasher \in Sequential
  <2>1. FlatHas(f, state, asked, key, absorbed, a)
    BY <1>1, <1>3 DEF Has, f
  <2>2. Accounts(f, state, KeyLen(f, key) + a)
    BY <1>1, <1>2, <2>1, FlatAccounts
  <2> QED
    BY <1>3, <2>2 DEF BytesAccounted, KeyLen, hasher, f, key, a
<1>4. CASE hasher \in Xofs
  <2>0. hasher \notin Sequential
    BY <1>1, <1>4, Kinds
  <2>1. XofHas(f, state, asked, key, absorbed, a)
    BY <1>1, <1>4, <2>0 DEF Has, f
  <2>2. Accounts(f, state.S, KeyLen(f, key) + a)
    BY <1>1, <1>2, <2>1, XofAccounts
  <2> QED
    BY <1>4, <2>0, <2>2 DEF BytesAccounted, KeyLen, hasher, f, key, a
<1>5. CASE hasher \notin Sequential /\ hasher \notin Xofs
  <2>1. TreeHas(f, state, asked, key, absorbed, a)
    BY <1>1, <1>5 DEF Has, f
  <2>2. /\ state.buflen = a % Stripe(f)
        /\ \A i \in Leaves(f) :
              Accounts(f, state.S[i], KeyLen(f, key) + (a \div Stripe(f)) * BLOCKBYTES[f])
        /\ Accounts(f, state.R, 0)
    BY <1>1, <1>2, <2>1, TreeAccounts
  <2> QED
    BY <1>5, <2>2 DEF BytesAccounted, KeyLen, Stripe, hasher, f, key, a
<1> QED
  BY <1>3, <1>4, <1>5

\* No byte of the key or of the input is lost or counted twice on its way through the
\* buffers of update, at any fill and any length of piece, for any sizes of block and
\* stripe and up to the bound on the counter.
THEOREM BytesAreAccounted == Spec => []BytesAccounted
BY HashInvHolds, HashAccounts, PTL
-----------------------------------------------------------------------------
(* The one-shot calls *)

\* A state is not a refusal.
LEMMA NotRefused ==
  ASSUME NEW S, IsState(S)
  PROVE  S # NoState
<1>1. "h" \in DOMAIN S
  BY DEF IsState
<1>2. "h" \notin DOMAIN NoState
  BY DEF NoState
<1> QED
  BY <1>1, <1>2

\* The whole input is what follows nothing.
LEMMA WholeInput ==
  ASSUME NEW in, NEW r, Row(in, r), NEW none, none = <<>>, NEW z, z = 0
  PROVE  Row(none, z) /\ Row(in, z + r) /\ Agree(none, in, z) /\ Slice(in, in, z, r)
<1>1. r \in Nat /\ z + r = r
  BY DEF Row
<1>2. Row(none, z)
  BY DEF Row
<1>3. Row(in, z + r)
  BY <1>1
<1>4. Agree(none, in, z)
  BY DEF Agree
<1>5. \A i \in 1 .. r : z + i = i
  OBVIOUS
<1>6. Slice(in, in, z, r)
  BY <1>5 DEF Slice
<1> QED
  BY <1>2, <1>3, <1>4, <1>6

\* init, one update with everything, final: what blake2b and blake2s do.
LEMMA FlatOnce ==
  ASSUME NEW f \in Family, NEW asked \in Nat, NEW key, Row(key, Len(key)), NEW in, NEW r,
         Row(in, r)
  PROVE  /\ FlatStart(f, asked, key) # NoState
         /\ final(f, update(f, FlatStart(f, asked, key), in), asked).out
              = FlatDigest(f, asked, asked, key, in)
<1> DEFINE S == FlatStart(f, asked, key)
           T == update(f, S, in)
           none == <<>>
           z == 0
<1>1. r \in Nat /\ z \in Nat /\ z + r \in Nat
  BY DEF Row
<1> HIDE DEF none, z
<1>2. Row(none, z) /\ Row(in, z + r) /\ Agree(none, in, z) /\ Slice(in, in, z, r)
  BY WholeInput DEF none, z
<1>3. FlatHas(f, S, asked, key, none, z)
  <2> HIDE DEF S
  <2>1. Row(none, 0) /\ FlatHas(f, FlatStart(f, asked, key), asked, key, none, 0)
    BY <1>2, FlatStartHas DEF z
  <2> QED
    BY <2>1 DEF S, z
<1>4. IsState(S)
  BY <1>3 DEF FlatHas, Absorbed, Counted
<1> HIDE DEF S
<1>5. FlatHas(f, T, asked, key, in, z + r)
  BY <1>1, <1>2, <1>3, FlatUpdateTakes
<1> HIDE DEF T
<1>6. final(f, T, asked).out = FlatDigest(f, asked, Written(f, asked, asked), key, in)
  <2> DEFINE c == z + r
  <2>1. Row(in, c) /\ FlatHas(f, T, asked, key, in, c) /\ asked >= asked
    BY <1>2, <1>5
  <2> HIDE DEF c
  <2> QED
    BY <2>1, FlatFinalHashes
<1>7. S # NoState
  BY <1>4, NotRefused
<1> QED
  BY <1>6, <1>7 DEF Written, S, T

\* The same for blake2xb and blake2xs.
LEMMA XofOnce ==
  ASSUME NEW f \in Family, NEW asked \in Nat \ {0}, NEW key, Row(key, Len(key)), NEW in, NEW r,
         Row(in, r)
  PROVE  /\ xof_init_key(f, asked, key) # NoState
         /\ xof_final(f, XofTakes(f, xof_init_key(f, asked, key), in), asked).ret = 0
         /\ xof_final(f, XofTakes(f, xof_init_key(f, asked, key), in), asked).out
              = XofDigest(f, asked, asked, key, in)
<1> DEFINE S == xof_init_key(f, asked, key)
           T == XofTakes(f, S, in)
           none == <<>>
           z == 0
<1>1. r \in Nat /\ z \in Nat /\ z + r \in Nat
  BY DEF Row
<1> HIDE DEF none, z
<1>2. Row(none, z) /\ Row(in, z + r) /\ Agree(none, in, z) /\ Slice(in, in, z, r)
  BY WholeInput DEF none, z
<1>3. XofHas(f, S, asked, key, none, z)
  <2> HIDE DEF S
  <2>1. Row(none, 0) /\ XofHas(f, xof_init_key(f, asked, key), asked, key, none, 0)
    BY <1>2, XofStartHas DEF z
  <2> QED
    BY <2>1 DEF S, z
<1>4. S # NoState
  <2>1. "P" \in DOMAIN S
    BY <1>3 DEF XofHas
  <2>2. "P" \notin DOMAIN NoState
    BY DEF NoState
  <2> QED
    BY <2>1, <2>2
<1> HIDE DEF S
<1>5. XofHas(f, T, asked, key, in, z + r)
  BY <1>1, <1>2, <1>3, XofUpdateTakes
<1> HIDE DEF T
<1>6. asked \in Nat /\ asked # 0 /\ XofMay(f, asked, asked)
  BY DEF XofMay
<1>7. /\ xof_final(f, T, asked).ret = 0
      /\ xof_final(f, T, asked).out = XofDigest(f, asked, asked, key, in)
  <2> DEFINE c == z + r
  <2>1. Row(in, c) /\ XofHas(f, T, asked, key, in, c)
    BY <1>2, <1>5
  <2> HIDE DEF c
  <2> QED
    BY <1>6, <2>1, XofFinalHashes
<1> QED
  BY <1>4, <1>7 DEF S, T

\* What every one-shot call answers for the arguments that the init takes.
LEMMA OneshotIs ==
  ASSUME NEW hasher \in Hashers, NEW asked, NEW key, Row(key, Len(key)), MadeFor(hasher, asked, key),
         NEW in, NEW r, Row(in, r)
  PROVE  oneshot(hasher, asked, in, key)
           = IF hasher = "xs" /\ Len(key) > KEYBYTES["s"] THEN [ret |-> -1, out |-> <<>>]
             ELSE [ret |-> 0, out |-> DigestOf(hasher, asked, asked, key, in)]
<1> DEFINE n == Len(key)
           E == oneshot(hasher, asked, in, key)
           d == DigestOf(hasher, asked, asked, key, in)
<1>0. asked \in Nat \ {0} /\ asked \in Nat
  BY AskedIs
<1>1. /\ n \in Nat /\ (key # <<>> => n \in Nat \ {0})
  BY DEF Row
<1>2. KEYBYTES["b"] \in Nat /\ KEYBYTES["s"] \in Nat /\ "b" \in Family /\ "s" \in Family
  BY Constants DEF Family
<1>f. \A f : /\ key = <<>> => FlatStart(f, asked, key) = init_param(f, SequentialParam(asked, 0))
             /\ key # <<>> => FlatStart(f, asked, key)
                            = update(f, init_param(f, SequentialParam(asked, n)), KeyBlock(f, key))
  BY DEF FlatStart, Started
<1>3. CASE hasher = "b"
  <2> DEFINE S == FlatStart("b", asked, key)
             out == final("b", update("b", S, in), asked).out
  <2>1. asked \in 1 .. OUTBYTES["b"] /\ n <= KEYBYTES["b"]
    BY <1>3 DEF MadeFor, LongestOutput, LongestKey, FamilyOf, Xofs
  <2>2. S = IF key = <<>> THEN blake2b_init(asked) ELSE blake2b_init_key(asked, key)
    BY <1>1, <1>f, <2>1 DEF blake2b_init, blake2b_init_key, OutlenFits, KeyFits
  <2>3. S # NoState /\ out = FlatDigest("b", asked, asked, key, in)
    BY <1>0, <1>2, FlatOnce
  <2>4. E = blake2b(asked, in, key)
    BY <1>3 DEF oneshot
  <2>5. out = blake2b_final(blake2b_update(S, in), asked).out
    BY DEF final, blake2b_update
  <2> HIDE DEF S, out, E
  <2>6. E = [ret |-> 0, out |-> out]
    BY <2>2, <2>3, <2>4, <2>5 DEF blake2b
  <2>7. d = FlatDigest("b", asked, asked, key, in)
    BY <1>3 DEF DigestOf
  <2> HIDE DEF d
  <2> QED
    BY <1>3, <2>3, <2>6, <2>7 DEF E, d
<1>4. CASE hasher = "s"
  <2> DEFINE S == FlatStart("s", asked, key)
             out == final("s", update("s", S, in), asked).out
  <2>1. asked \in 1 .. OUTBYTES["s"] /\ n <= KEYBYTES["s"]
    BY <1>4 DEF MadeFor, LongestOutput, LongestKey, FamilyOf, Xofs
  <2>2. S = IF key = <<>> THEN blake2s_init(asked) ELSE blake2s_init_key(asked, key)
    BY <1>1, <1>f, <2>1 DEF blake2s_init, blake2s_init_key, OutlenFits, KeyFits
  <2>3. S # NoState /\ out = FlatDigest("s", asked, asked, key, in)
    BY <1>0, <1>2, FlatOnce
  <2>4. E = blake2s(asked, in, key)
    BY <1>4 DEF oneshot
  <2>5. out = blake2s_final(blake2s_update(S, in), asked).out
    BY DEF final, blake2s_update
  <2> HIDE DEF S, out, E
  <2>6. E = [ret |-> 0, out |-> out]
    BY <2>2, <2>3, <2>4, <2>5 DEF blake2s
  <2>7. d = FlatDigest("s", asked, asked, key, in)
    BY <1>4 DEF DigestOf
  <2> HIDE DEF d
  <2> QED
    BY <1>4, <2>3, <2>6, <2>7 DEF E, d
<1>5. CASE hasher = "bp"
  <2>1. OutlenFits("b", asked) /\ n <= KEYBYTES["b"]
    BY <1>5 DEF MadeFor, LongestOutput, LongestKey, FamilyOf, Xofs, OutlenFits
  <2>2. E = tree("b", asked, in, key)
    BY <1>5 DEF oneshot, blake2bp
  <2>3. tree("b", asked, in, key) = [ret |-> 0, out |-> TreeDigest("b", asked, key, in)]
    BY <1>2, <2>1, TreeOnce
  <2>4. d = TreeDigest("b", asked, key, in)
    BY <1>5 DEF DigestOf, FamilyOf, Trees
  <2> HIDE DEF d, E
  <2> QED
    BY <1>5, <2>2, <2>3, <2>4 DEF E, d
<1>6. CASE hasher = "sp"
  <2>1. OutlenFits("s", asked) /\ n <= KEYBYTES["s"]
    BY <1>6 DEF MadeFor, LongestOutput, LongestKey, FamilyOf, Xofs, OutlenFits
  <2>2. E = tree("s", asked, in, key)
    BY <1>6 DEF oneshot, blake2sp
  <2>3. tree("s", asked, in, key) = [ret |-> 0, out |-> TreeDigest("s", asked, key, in)]
    BY <1>2, <2>1, TreeOnce
  <2>4. d = TreeDigest("s", asked, key, in)
    BY <1>6 DEF DigestOf, FamilyOf, Trees
  <2> HIDE DEF d, E
  <2> QED
    BY <1>6, <2>2, <2>3, <2>4 DEF E, d
<1>7. CASE hasher = "xb"
  <2> DEFINE S == xof_init_key("b", asked, key)
             T == XofTakes("b", S, in)
             end == xof_final("b", T, asked)
  <2>1. asked \in 1 .. XOFUNKNOWN["b"] /\ n <= KEYBYTES["b"]
    BY <1>7 DEF MadeFor, LongestOutput, LongestKey, FamilyOf, Xofs
  <2>2. S = blake2xb_init_key(asked, key)
    BY <2>1 DEF blake2xb_init_key
  <2>3. S # NoState /\ end.ret = 0 /\ end.out = XofDigest("b", asked, asked, key, in)
    BY <1>0, <1>2, XofOnce
  <2>4. E = blake2xb(asked, in, key)
    BY <1>7 DEF oneshot
  <2>5. T = blake2xb_update(S, in)
    BY DEF XofTakes, blake2xb_update, blake2b_update
  <2>6. end = blake2xb_final(T, asked)
    BY DEF blake2xb_final
  <2>7. ~(n > KEYBYTES["b"])
    BY <1>1, <1>2, <2>1
  <2> HIDE DEF S, T, end, E
  <2>8. E = [ret |-> end.ret, out |-> end.out]
    BY <2>2, <2>3, <2>4, <2>5, <2>6, <2>7 DEF blake2xb
  <2>9. d = XofDigest("b", asked, asked, key, in)
    BY <1>7 DEF DigestOf, FamilyOf, Trees
  <2> HIDE DEF d
  <2> QED
    BY <1>7, <2>3, <2>8, <2>9 DEF E, d
<1>8. CASE hasher = "xs"
  <2> DEFINE S == xof_init_key("s", asked, key)
             T == XofTakes("s", S, in)
             end == xof_final("s", T, asked)
  <2>1. asked \in 1 .. XOFUNKNOWN["s"] /\ n <= KEYBYTES["b"]
    BY <1>8 DEF MadeFor, LongestOutput, LongestKey, FamilyOf, Xofs
  <2>2. S = blake2xs_init_key(asked, key)
    BY <2>1 DEF blake2xs_init_key
  <2>3. S # NoState /\ end.ret = 0 /\ end.out = XofDigest("s", asked, asked, key, in)
    BY <1>0, <1>2, XofOnce
  <2>4. E = blake2xs(asked, in, key)
    BY <1>8 DEF oneshot
  <2>5. T = blake2xs_update(S, in)
    BY DEF XofTakes, blake2xs_update, blake2s_update
  <2>6. end = blake2xs_final(T, asked)
    BY DEF blake2xs_final
  <2> HIDE DEF S, T, end, E
  <2>7. CASE n > KEYBYTES["s"]
    <3>1. E = [ret |-> -1, out |-> <<>>]
      BY <2>4, <2>7 DEF blake2xs
    <3> QED
      BY <1>8, <2>7, <3>1 DEF E
  <2>8. CASE ~(n > KEYBYTES["s"])
    <3>1. E = [ret |-> end.ret, out |-> end.out]
      BY <2>2, <2>3, <2>4, <2>5, <2>6, <2>8 DEF blake2xs
    <3>2. d = XofDigest("s", asked, asked, key, in)
      BY <1>8 DEF DigestOf, FamilyOf, Trees
    <3> HIDE DEF d
    <3> QED
      BY <1>8, <2>3, <2>8, <3>1, <3>2 DEF E, d
  <2> QED
    BY <2>7, <2>8
<1> QED
  BY <1>3, <1>4, <1>5, <1>6, <1>7, <1>8 DEF Hashers

\* The agreement follows from the invariant.
LEMMA OnceAgrees ==
  HashInv => OneShotAgrees
<1> SUFFICES ASSUME HashInv, Finished, Len(answer) = call.asked PROVE OneShotAgrees
  BY DEF OneShotAgrees
<1> DEFINE hasher == call.hasher
           asked == call.asked
           key == call.key
           E == oneshot(hasher, asked, absorbed, key)
           d == DigestOf(hasher, asked, asked, key, absorbed)
<1>1. call # NoCall
  BY DEF HashInv, Finished
<1>2. Row(absorbed, Len(absorbed)) /\ CallOK(call) /\ Answered(call, state, absorbed, answer)
  BY <1>1 DEF HashInv
<1>3. hasher \in Hashers /\ MadeFor(hasher, asked, key) /\ Row(key, Len(key))
  BY <1>2 DEF CallOK
<1> HIDE DEF hasher, asked, key, E, d
<1>4. asked \in Nat \ {0}
  BY <1>3, AskedIs
<1>5. PICK outlen \in Nat : /\ MayAsk(hasher, asked, outlen)
                            /\ answer = DigestOf(hasher, asked, outlen, key, absorbed)
  BY <1>2 DEF Answered, hasher, asked, key
<1>6. answer = d
  <2> DEFINE o == AnswerLength(hasher, asked, outlen)
  <2>1. Len(answer) = o /\ answer = DigestOf(hasher, asked, o, key, absorbed)
    BY <1>3, <1>4, <1>5, AnswerIs
  <2>2. o = asked
    BY <2>1 DEF asked
  <2> QED
    BY <2>1, <2>2 DEF d
<1>7. E = IF hasher = "xs" /\ Len(key) > KEYBYTES["s"] THEN [ret |-> -1, out |-> <<>>]
          ELSE [ret |-> 0, out |-> d]
  BY <1>2, <1>3, OneshotIs DEF E, d
<1> QED
  BY <1>6, <1>7 DEF OneShotAgrees, hasher, asked, key, E

\* The one-shot call answers what the streamed calls have answered for the same bytes;
\* blake2xs alone refuses keys that its init takes.
THEOREM OneShotsAgree == Spec => []OneShotAgrees
BY HashInvHolds, OnceAgrees, PTL
-----------------------------------------------------------------------------
(* The streamed hash does what HashPromise says *)

\* HashPromise brings its own copy of the operators of Blake2Hash.  They are the same:
\* the key block,
LEMMA SameKeyBlock ==
  ASSUME NEW f, NEW key
  PROVE  Promise!KeyBlock(f, key) = KeyBlock(f, key)
BY DEF Promise!KeyBlock, KeyBlock, Promise!Overwrite, Overwrite, Promise!Zeros, Zeros,
       Promise!Zero, Zero

\* the input behind it,
LEMMA SameKeyed ==
  ASSUME NEW f, NEW key, NEW m
  PROVE  Promise!Keyed(f, key, m) = Keyed(f, key, m)
BY SameKeyBlock DEF Promise!Keyed, Keyed

\* the hash of an input,
LEMMA SameHashOf ==
  ASSUME NEW f, NEW P, NEW l, NEW d
  PROVE  Promise!HashOf(f, P, l, d) = HashOf(f, P, l, d)
BY DEF Promise!HashOf, HashOf, Promise!Minimum, Minimum, Zero, Promise!Zero

\* its digest,
LEMMA SameDigest ==
  ASSUME NEW h, NEW n
  PROVE  Promise!Digest(h, n) = Digest(h, n)
BY DEF Promise!Digest, Digest

\* the parameters of a sequential hash,
LEMMA SameSequentialParam ==
  ASSUME NEW n, NEW k
  PROVE  Promise!SequentialParam(n, k) = SequentialParam(n, k)
BY DEF Promise!SequentialParam, SequentialParam

\* those of the nodes of a tree,
LEMMA SameTreeParam ==
  ASSUME NEW f, NEW n, NEW k, NEW o, NEW d
  PROVE  Promise!TreeParam(f, n, k, o, d) = TreeParam(f, n, k, o, d)
BY DEF Promise!TreeParam, TreeParam

\* pieces one behind the other,
LEMMA SameInPieces ==
  ASSUME NEW p, NEW k, NEW n
  PROVE  Promise!InPieces(p, k, n) = InPieces(p, k, n)
BY DEF Promise!InPieces, InPieces

\* a leaf's share,
LEMMA SameShare ==
  ASSUME NEW f, NEW i, NEW m
  PROVE  Promise!Share(f, i, m) = Share(f, i, m)
BY DEF Promise!Share, Share, Promise!ShareLength, ShareLength, Promise!Minimum, Minimum

\* the digest of a sequential hash,
LEMMA SameFlatDigest ==
  ASSUME NEW f, NEW n, NEW o, NEW key, NEW m
  PROVE  Promise!FlatDigest(f, n, o, key, m) = FlatDigest(f, n, o, key, m)
BY SameDigest, SameHashOf, SameKeyed, SameSequentialParam
   DEF Promise!FlatDigest, FlatDigest

\* the leaves of a tree,
LEMMA SameLeaves ==
  ASSUME NEW f
  PROVE  Promise!Leaves(f) = Leaves(f)
BY DEF Promise!Leaves, Leaves

\* its digest,
LEMMA SameTreeDigest ==
  ASSUME NEW f, NEW o, NEW key, NEW m
  PROVE  Promise!TreeDigest(f, o, key, m) = TreeDigest(f, o, key, m)
BY SameDigest, SameHashOf, SameKeyed, SameTreeParam, SameInPieces, SameShare,
   SameLeaves
   DEF Promise!TreeDigest, TreeDigest

\* a byte of an extendable output,
LEMMA SameXofByte ==
  ASSUME NEW f, NEW a, NEW o, NEW r, NEW n
  PROVE  Promise!XofByte(f, a, o, r, n) = XofByte(f, a, o, r, n)
BY SameDigest, SameHashOf DEF Promise!XofByte, XofByte, Promise!Minimum, Minimum

\* all its bytes,
LEMMA SameXofDigest ==
  ASSUME NEW f, NEW a, NEW o, NEW key, NEW m
  PROVE  Promise!XofDigest(f, a, o, key, m) = XofDigest(f, a, o, key, m)
BY SameDigest, SameHashOf, SameKeyed, SameSequentialParam, SameXofByte
   DEF Promise!XofDigest, XofDigest

\* the families,
LEMMA SameFamilyOf ==
  ASSUME NEW h
  PROVE  Promise!FamilyOf(h) = FamilyOf(h)
BY DEF Promise!FamilyOf, FamilyOf

\* the digest of any hash,
LEMMA SameDigestOf ==
  ASSUME NEW h, NEW a, NEW o, NEW key, NEW m
  PROVE  Promise!DigestOf(h, a, o, key, m) = DigestOf(h, a, o, key, m)
BY SameFamilyOf, SameFlatDigest, SameTreeDigest, SameXofDigest
   DEF Promise!DigestOf, DigestOf, Promise!Trees, Trees

\* what its caller may ask for,
LEMMA SameMayAsk ==
  ASSUME NEW h, NEW a, NEW o
  PROVE  Promise!MayAsk(h, a, o) = MayAsk(h, a, o)
BY SameFamilyOf
   DEF Promise!MayAsk, MayAsk, Promise!Sequential, Sequential, Promise!Trees, Trees

\* the limits of an init,
LEMMA SameLongest ==
  ASSUME NEW h
  PROVE  /\ Promise!LongestOutput(h) = LongestOutput(h)
         /\ Promise!LongestKey(h) = LongestKey(h)
BY SameFamilyOf
   DEF Promise!LongestOutput, LongestOutput, Promise!LongestKey, LongestKey,
       Promise!Xofs, Xofs

\* the hashes,
LEMMA SameHashers ==
  Promise!Hashers = Hashers
BY DEF Promise!Hashers, Hashers

\* and the caller that has none.
LEMMA SameNoCall ==
  Promise!NoCall = NoCall
BY DEF Promise!NoCall, NoCall

\* An accepted init is the making of the promise.
LEMMA MakeMaps ==
  ASSUME call' # NoCall, CallOK(call'), call = NoCall, UNCHANGED <<absorbed, answer>>,
         NEW hasher, NEW asked, NEW key, call' = [hasher |-> hasher, asked |-> asked, key |-> key]
  PROVE  Promise!Next
<1>1. call'.hasher = hasher /\ call'.asked = asked /\ call'.key = key
  OBVIOUS
<1>2. hasher \in Hashers /\ asked \in 1 .. LongestOutput(hasher) /\ Len(key) <= LongestKey(hasher)
  BY <1>1 DEF CallOK, MadeFor
<1>3. Promise!Make(hasher, asked, key)
  BY <1>2, SameHashers, SameLongest, SameNoCall DEF Promise!Make
<1>4. call' # Promise!NoCall /\ Promise!Make(call'.hasher, call'.asked, call'.key)
  BY <1>1, <1>3, SameNoCall
<1> QED
  BY <1>4 DEF Promise!Next

\* A piece is absorbed, unless the hash is finished.
LEMMA PutMaps ==
  ASSUME HashInv, NEW n \in Pieces, Put(n)
  PROVE  Promise!Next \/ UNCHANGED <<call, absorbed, answer>>
<1> DEFINE in == Bytes(n)
           a == Len(absorbed)
           e == absorbed \o in
<1>1. /\ call' = call /\ answer' = answer /\ call # NoCall
      /\ absorbed' = (IF Finished THEN absorbed ELSE e)
  BY PutHolds
<1>2. CASE Finished
  BY <1>1, <1>2
<1>3. CASE ~Finished
  <2>1. Row(absorbed, a) /\ n \in Nat
    BY InputsAssumption DEF HashInv
  <2>2. Row(in, n)
    BY <2>1 DEF Bytes, Row
  <2> HIDE DEF in, a
  <2>3. Row(e, a + n) /\ Slice(in, e, a, n)
    BY <2>1, <2>2, JoinIs
  <2> HIDE DEF e
  <2>4. a \in Nat /\ a + n \in Nat /\ a <= a + n /\ (a + n) - a = n
    BY <2>1 DEF Row
  <2> DEFINE b == a + n
             t == SubSeq(e, a + 1, b)
  <2>5. Row(e, b) /\ b \in Nat /\ a <= b /\ b - a = n
    BY <2>3, <2>4
  <2> HIDE DEF b
  <2>6. Len(e) = b
    BY <2>5, RowIs
  <2>7. Slice(t, e, a, n)
    <3> HIDE DEF t
    <3>1. Slice(t, e, a, b - a)
      BY <2>4, <2>5, SliceIs DEF t
    <3> QED
      BY <2>5, <3>1
  <2> HIDE DEF t
  <2>8. t = in
    BY <2>2, <2>3, <2>7, SameRow DEF Slice
  <2>9. answer = <<>> /\ absorbed' = absorbed \o t
    BY <1>1, <1>3, <2>8 DEF Finished, e
  <2>10. Promise!Absorb(t)
    BY <1>1, <2>9, SameNoCall DEF Promise!Absorb
  <2>11. t = SubSeq(absorbed', Len(absorbed) + 1, Len(absorbed'))
    BY <1>1, <1>3, <2>6 DEF t, a
  <2>12. Promise!Absorb(SubSeq(absorbed', Len(absorbed) + 1, Len(absorbed')))
    BY <2>10, <2>11
  <2> QED
    BY <2>12 DEF Promise!Next
<1> QED
  BY <1>2, <1>3

\* A final answers once, with the digest of all that was put in.
LEMMA FinishMaps ==
  ASSUME HashInv, NEW outlen \in Lengths, Finish(outlen)
  PROVE  Promise!Next \/ UNCHANGED <<call, absorbed, answer>>
<1> DEFINE hasher == call.hasher
           asked == call.asked
           key == call.key
           o == AnswerLength(hasher, asked, outlen)
           d == DigestOf(hasher, asked, o, key, absorbed)
<1>1. /\ call' = call /\ absorbed' = absorbed /\ call # NoCall
      /\ \/ answer' = answer
         \/ /\ answer = <<>> /\ MayAsk(hasher, asked, outlen)
            /\ answer' = DigestOf(hasher, asked, outlen, key, absorbed)
  BY FinishHolds
<1>2. hasher \in Hashers /\ MadeFor(hasher, asked, key) /\ outlen \in Nat
  BY <1>1, InputsAssumption DEF HashInv, CallOK
<1> HIDE DEF hasher, asked, key
<1>3. asked \in Nat \ {0}
  BY <1>2, AskedIs
<1>4. CASE answer' = answer
  BY <1>1, <1>4
<1>5. CASE /\ answer = <<>> /\ MayAsk(hasher, asked, outlen)
           /\ answer' = DigestOf(hasher, asked, outlen, key, absorbed)
  <2>1. Len(answer') = o /\ MayAsk(hasher, asked, o) /\ answer' = d
    BY <1>2, <1>3, <1>5, AnswerIs
  <2> HIDE DEF o
  <2>2. Promise!MayAsk(hasher, asked, o)
        /\ answer' = Promise!DigestOf(hasher, asked, o, key, absorbed)
    BY <2>1, SameMayAsk, SameDigestOf
  <2>3. Promise!Finish(o)
    BY <1>1, <1>5, <2>2, SameNoCall DEF Promise!Finish, hasher, asked, key
  <2>4. o \in {call.asked, Len(answer')}
    BY <2>1
  <2>5. call # Promise!NoCall /\ \E x \in {call.asked, Len(answer')} : Promise!Finish(x)
    BY <1>1, <2>3, <2>4, SameNoCall
  <2> QED
    BY <2>5 DEF Promise!Next
<1> QED
  BY <1>1, <1>4, <1>5

\* The beginnings agree.
LEMMA InitMaps ==
  Init => Promise!Init
BY SameNoCall DEF Init, Promise!Init

\* Every step is a step of HashPromise or leaves what its caller sees.
LEMMA NextMaps ==
  HashInv /\ [Next]_vars => [Promise!Next]_(Promise!vars)
<1> SUFFICES ASSUME HashInv, [Next]_vars
             PROVE Promise!Next \/ UNCHANGED <<call, absorbed, answer>>
  BY DEF Promise!vars
<1>1. ASSUME NEW hasher \in Hashers, NEW asked \in Lengths, Make(hasher, asked) PROVE Promise!Next
  <2> DEFINE none == <<>>
  <2>1. /\ call' # NoCall /\ CallOK(call') /\ call = NoCall /\ UNCHANGED <<absorbed, answer>>
        /\ call' = [hasher |-> hasher, asked |-> asked, key |-> none]
    BY <1>1, MadeByInit
  <2> HIDE DEF none
  <2> QED
    BY <2>1, MakeMaps
<1>2. ASSUME NEW hasher \in Hashers, NEW asked \in Lengths, NEW key \in Keys,
             MakeKeyed(hasher, asked, key)
      PROVE Promise!Next
  BY <1>2, MadeByInitKey, MakeMaps
<1>3. ASSUME NEW n \in Pieces, Put(n) PROVE Promise!Next \/ UNCHANGED <<call, absorbed, answer>>
  BY <1>3, PutMaps
<1>4. ASSUME NEW outlen \in Lengths, Finish(outlen)
      PROVE Promise!Next \/ UNCHANGED <<call, absorbed, answer>>
  BY <1>4, FinishMaps
<1>5. CASE UNCHANGED vars
  BY <1>5 DEF vars
<1> QED
  BY <1>1, <1>2, <1>3, <1>4, <1>5 DEF Next

\* The streaming interface of the six hashes implements HashPromise: however the input is
\* cut, and whatever is called after the end, one answer, the digest of the whole input.
THEOREM ImplementsPromise == Spec => Streams
BY InitMaps, NextMaps, HashInvHolds, PTL DEF Spec, Streams, Promise!Spec
=============================================================================
