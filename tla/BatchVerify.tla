---------------------------- MODULE BatchVerify -----------------------------
(***************************************************************************)
(* ed25519_sign_open_batch of ed25519-donna-batchverify.h: a batch of      *)
(* signatures is opened by one sum of multiples of points, which is        *)
(* neutral when all are valid.  The sum is computed by the method of Bos   *)
(* and Coster: the two largest scalars are kept at the top of a heap, the  *)
(* second is taken off the first, and the point of the first is added to   *)
(* that of the second, until one scalar is left.                           *)
(*                                                                         *)
(* A point is its logarithm to the base point, so the base point is 1 and  *)
(* the neutral one 0.  Scalars are in limbs, as they are in the code: the  *)
(* heap compares no more limbs than are in use.                            *)
(***************************************************************************)
EXTENDS Integers, Sequences

CONSTANTS
  m, BPL, SIZE, HALF,         \* order, bits of a limb, limbs, bits of a random number
  expand256(_), add256(_, _), mul256(_, _),             \* the _modm functions
  sub256(_, _, _, _), lt256(_, _, _), lte256(_, _, _),  \* the _modm_batch functions
  iszero256(_), isone256(_), isatmost128bits256(_),
  max_batch_size,
  Batches,   \* sequences of signatures, as records of what the code takes from each
  Randoms    \* sequences of max_batch_size random strings

VARIABLE batch

limb128bits == (HALF + BPL - 1) \div BPL

Limb == 0 .. SIZE - 1
Base == 2 ^ BPL

\* The number in limbs x.
Value(x) ==
  LET f[i \in 0 .. SIZE] == IF i = SIZE THEN 0 ELSE x[i] + Base * f[i + 1]
  IN  f[0]

Numbers == [Limb -> 0 .. Base - 1]
Scalars == {x \in Numbers : Value(x) < m}

ZeroAbove(x, limbsize) == \A i \in Limb : i > limbsize => x[i] = 0

(***************************************************************************)
(* What the constants must be like.  The order is prime, larger than the   *)
(* multiple of the last point can be, and a number of half its bits leaves *)
(* a limb free.                                                            *)
(***************************************************************************)
ShapeFits ==
  /\ m \in Nat /\ m > 1 /\ \A d \in 2 .. m - 1 : m % d # 0
  /\ BPL \in Nat \ {0} /\ HALF \in Nat /\ 2 ^ (HALF + 1) <= m
  /\ SIZE \in Nat /\ HALF < BPL * (SIZE - 1)

\* Among the scalars X: sums and products are those modulo m; a difference is taken,
\* and limbs are compared, where those above limbsize are zero.
KeepPromise(X) == \A x, y \in X :
  /\ add256(x, y) \in Scalars
  /\ Value(add256(x, y)) = (Value(x) + Value(y)) % m
  /\ mul256(x, y) \in Scalars
  /\ Value(mul256(x, y)) = (Value(x) * Value(y)) % m
  /\ iszero256(x) = (Value(x) = 0)
  /\ isone256(x) = (Value(x) = 1)
  /\ isatmost128bits256(x) = (Value(x) < 2 ^ HALF)
  /\ \A limbsize \in Limb :
       ZeroAbove(x, limbsize) /\ ZeroAbove(y, limbsize) =>
         /\ lt256(x, y, limbsize) = (Value(x) < Value(y))
         /\ lte256(x, y, limbsize) = (Value(x) <= Value(y))
         /\ Value(y) <= Value(x) =>
              /\ sub256(x, x, y, limbsize) \in Scalars
              /\ Value(sub256(x, x, y, limbsize)) = Value(x) - Value(y)

\* A random string has half the bits of a scalar.
InputsFit ==
  /\ max_batch_size \in Nat \ {0}
  /\ \A sigs \in Batches :
       /\ sigs \in Seq({sigs[i] : i \in DOMAIN sigs})
       /\ \A i \in DOMAIN sigs :
            /\ sigs[i].unpacks \in BOOLEAN
            /\ sigs[i].A \in 0 .. m - 1 /\ sigs[i].R \in 0 .. m - 1
            /\ expand256(sigs[i].S) \in Scalars
            /\ expand256(sigs[i].hram) \in Scalars
  /\ \A random \in Randoms : \A i \in 1 .. max_batch_size :
       LET r == expand256(random[i]) IN r \in Scalars /\ Value(r) < 2 ^ HALF

(***************************************************************************)
(* The heap: heap[n] is the index of the scalar at node n.                 *)
(***************************************************************************)
Parent(node) == (node - 1) \div 2

heap_swap(heap, a, b) == [heap EXCEPT ![a] = heap[b], ![b] = heap[a]]

\* The node moves up past a parent whose scalar is less, or, if asked, no more.
MoveUp(at, scalars, limbsize, orequal) ==
  LET parent == Parent(at.node)
      above == scalars[at.heap[parent]]
      x == scalars[at.heap[at.node]]
      moves == IF orequal THEN lte256(above, x, limbsize)
               ELSE lt256(above, x, limbsize)
  IN  IF at.node = 0 \/ ~moves THEN at
      ELSE [node |-> parent, heap |-> heap_swap(at.heap, parent, at.node)]

SiftUp(start, scalars, limbsize, orequal) ==
  LET up[r \in 0 .. start.node] ==
        IF r = 0 THEN start ELSE MoveUp(up[r - 1], scalars, limbsize, orequal)
  IN  up[start.node].heap

\* Scalar number size, not yet in the heap, goes to its bottom and up.
heap_insert_next(heap, size, scalars) ==
  SiftUp([node |-> size, heap |-> [heap EXCEPT ![size] = size]], scalars, SIZE - 1, FALSE)

\* From size scalars to newcount: both heap_build and heap_extend.
heap_extend(heap, size, newcount, scalars) ==
  LET after[n \in size .. newcount] ==
        IF n = size THEN heap ELSE heap_insert_next(after[n - 1], n - 1, scalars)
  IN  after[newcount]

\* The node moves down past the larger of its children, if it has two.
MoveDown(at, size, scalars, limbsize) ==
  LET childl == 2 * at.node + 1
      larger == IF lt256(scalars[at.heap[childl]], scalars[at.heap[childl + 1]], limbsize)
                  THEN childl + 1 ELSE childl
  IN  IF childl + 1 >= size THEN at
      ELSE [node |-> larger, heap |-> heap_swap(at.heap, at.node, larger)]

SiftDown(heap, size, scalars, limbsize) ==
  LET down[r \in 0 .. size] ==
        IF r = 0 THEN [node |-> 0, heap |-> heap]
        ELSE MoveDown(down[r - 1], size, scalars, limbsize)
  IN  down[size]

\* (Faulty variant: the way back up is left out.)
heap_updated_rootDown(heap, size, scalars, limbsize) ==
  SiftDown(heap, size, scalars, limbsize).heap

\* The root has become smaller: to the bottom along the larger children, and back up.
heap_updated_root(heap, size, scalars, limbsize) ==
  SiftUp(SiftDown(heap, size, scalars, limbsize), scalars, limbsize, TRUE)

\* The root, and the larger of its children.
heap_get_top2(heap, scalars, limbsize) ==
  <<heap[0],
    IF lt256(scalars[heap[1]], scalars[heap[2]], limbsize) THEN heap[2] ELSE heap[1]>>

(***************************************************************************)
(* The multiple of the last point.  The result starts as the point and the *)
(* first bit of the scalar adds it again, so that of n bits comes          *)
(* (2^n + scalar) * point; the caller only asks whether it is neutral.     *)
(***************************************************************************)
ge25519_multi_scalarmult_vartime_final(point, scalar) ==
  LET bit(i) == (scalar[i \div BPL] \div 2 ^ (i % BPL)) % 2
      set == {i \in 0 .. BPL * (limb128bits + 1) - 1 : i \div BPL < SIZE /\ bit(i) = 1}
      first == CHOOSE i \in set : \A j \in set : j <= i
      r[i \in 0 .. first + 1] ==
        IF i = 0 THEN point ELSE (2 * r[i - 1] + bit(first + 1 - i) * point) % m
  IN  IF isone256(scalar) THEN point
      ELSE IF iszero256(scalar) THEN 0
      ELSE r[first + 1]

(***************************************************************************)
(* The loop of ge25519_multi_scalarmult_vartime, a turn at a time.         *)
(***************************************************************************)
count == 2 * batch.batchsize + 1

Turn ==
  /\ batch.pc = "turn"
  /\ LET top == heap_get_top2(batch.heap, batch.scalars, batch.limbsize)
         limbsize == IF batch.scalars[top[1]][batch.limbsize] = 0
                       THEN batch.limbsize - 1 ELSE batch.limbsize
         extend == ~batch.extended /\ isatmost128bits256(batch.scalars[top[1]])
         heap == IF extend THEN heap_extend(batch.heap, batch.size, count, batch.scalars)
                 ELSE batch.heap
         size == IF extend THEN count ELSE batch.size
         max == IF extend THEN heap_get_top2(heap, batch.scalars, limbsize) ELSE top
         difference == sub256(batch.scalars[max[1]], batch.scalars[max[1]],
                                         batch.scalars[max[2]], limbsize)
         scalars == [batch.scalars EXCEPT ![max[1]] = difference]
     IN  IF iszero256(batch.scalars[top[2]])
           THEN batch' = [batch EXCEPT !.pc = "final", !.max1 = top[1]]
         ELSE batch' = [batch EXCEPT
                !.limbsize = limbsize, !.extended = batch.extended \/ extend, !.size = size,
                !.scalars = scalars,
                !.points[max[2]] = (@ + batch.points[max[1]]) % m,
                !.heap = heap_updated_root(heap, size, scalars, limbsize)]

(***************************************************************************)
(* The batches of a call.  A signature is what is taken from it: whether   *)
(* its key and its R are points and the logarithms of those, the bytes of  *)
(* S, and the bytes of H(R,A,m).                                           *)
(***************************************************************************)
Number(bytes) == Value(expand256(bytes))

sign_open(s) ==
  s.unpacks /\ Number(s.S) = (s.R + Number(s.hram) * s.A) % m

\* The caller has a sequence of signatures; all are marked valid.
Called(sigs) ==
  [pc |-> "batch", sigs |-> sigs, left |-> sigs, valid |-> [i \in DOMAIN sigs |-> TRUE],
   ret |-> {}, batchsize |-> 0, points |-> <<>>, scalars |-> <<>>, heap |-> <<>>, size |-> 0,
   limbsize |-> 0, extended |-> FALSE, max1 |-> 0, sum |-> 0, unlucky |-> FALSE]

Done == Len(batch.sigs) - Len(batch.left)

\* f[0] + ... + f[last]
SumUpTo(f, last) ==
  LET sum[i \in 0 .. last] == IF i = 0 THEN f[0] ELSE sum[i - 1] + f[i]
  IN  sum[last]

Multiples(points, scalars, last) ==
  SumUpTo([i \in 0 .. last |-> Value(scalars[i]) * points[i]], last) % m

\* Scalars and points of the next batch: r1 S1 + r2 S2 + ... of the base point, then
\* r H(R,A,m) of each -A, and r of each -R.
Gather == \E random \in Randoms :
  /\ batch.pc = "batch" /\ Len(batch.left) > 3
  /\ LET n == IF Len(batch.left) > max_batch_size THEN max_batch_size ELSE Len(batch.left)
         sig(i) == batch.left[i]
         r == [i \in 1 .. n |-> expand256(random[i])]
         rS[i \in 1 .. n] ==
           LET term == mul256(expand256(sig(i).S), r[i])
           IN  IF i = 1 THEN term ELSE add256(rS[i - 1], term)
         scalars == [i \in 0 .. 2 * n |->
           IF i = 0 THEN rS[n]
           ELSE IF i <= n THEN mul256(expand256(sig(i).hram), r[i])
           ELSE r[i - n]]
         points == [i \in 0 .. 2 * n |->
           IF i = 0 THEN 1
           ELSE IF i <= n THEN (m - sig(i).A) % m ELSE (m - sig(i - n).R) % m]
         unpacked == \A i \in 1 .. n : sig(i).unpacks
         size == IF (n + 1) % 2 = 1 THEN n + 1 ELSE n + 2
         heap == heap_extend([i \in 0 .. 2 * n |-> 0], 0, size, scalars)
     IN  batch' = [batch EXCEPT
           !.batchsize = n,
           !.pc = IF unpacked THEN "turn" ELSE "fallback",
           !.points = points, !.scalars = scalars,
           !.heap = heap, !.size = size, !.limbsize = SIZE - 1, !.extended = FALSE,
           !.sum = Multiples(points, scalars, 2 * n)]

\* (Faulty variant: the pointers are not moved on.)
NextBatchSame == batch.left

NextBatch == SubSeq(batch.left, batch.batchsize + 1, Len(batch.left))

\* (Faulty variant: a sum that is not neutral is reported, and no signature is opened.)
FinalReports ==
  /\ batch.pc = "final"
  /\ LET point == ge25519_multi_scalarmult_vartime_final(
                    batch.points[batch.max1], batch.scalars[batch.max1])
     IN  batch' = [batch EXCEPT !.pc = "batch", !.left = NextBatch,
                     !.ret = IF point # 0 THEN @ \union {2} ELSE @]

Final ==
  /\ batch.pc = "final"
  /\ LET point == ge25519_multi_scalarmult_vartime_final(
                    batch.points[batch.max1], batch.scalars[batch.max1])
         unlucky == batch.unlucky \/ ~batch.extended
     IN  IF point # 0
           THEN batch' = [batch EXCEPT !.ret = @ \union {2}, !.pc = "fallback",
                                       !.unlucky = unlucky]
         ELSE batch' = [batch EXCEPT !.pc = "batch", !.left = NextBatch,
                !.unlucky = unlucky \/ \E i \in 1 .. batch.batchsize : ~sign_open(batch.left[i])]

\* The next n signatures are opened one by one.
OpenEach(n, pc) ==
  LET answer == [i \in DOMAIN batch.sigs |->
                   IF i \in Done + 1 .. Done + n THEN sign_open(batch.sigs[i])
                   ELSE batch.valid[i]]
  IN  batch' = [batch EXCEPT
        !.valid = answer, !.pc = pc, !.left = SubSeq(@, n + 1, Len(@)),
        !.ret = @ \union {1 : i \in {i \in Done + 1 .. Done + n : ~answer[i]}}]

Fallback == batch.pc = "fallback" /\ OpenEach(batch.batchsize, "batch")

\* Three and fewer are not worth a batch.
Rest == batch.pc = "batch" /\ Len(batch.left) <= 3 /\ OpenEach(Len(batch.left), "done")

Init == \E sigs \in Batches : batch = Called(sigs)

Next == Gather \/ Turn \/ Final \/ Fallback \/ Rest

Spec == Init /\ [][Next]_batch

(***************************************************************************)
(* Properties.                                                             *)
(***************************************************************************)
\* While the heap works, the multiples add up to what they were; whatever is above
\* limbsize is zero in every scalar of the heap; no scalar of the heap is larger than
\* that of its parent; and the point at the end is neutral if and only if the sum is.
\* (The last is said of a heap that holds all scalars: one whose larger half comes down
\* to one scalar before that is small enough to take in the others leaves those out.)
BatchSound ==
  /\ batch.pc = "turn" =>
       /\ Multiples(batch.points, batch.scalars, 2 * batch.batchsize) = batch.sum
       /\ {batch.heap[node] : node \in 0 .. batch.size - 1} = 0 .. batch.size - 1
       /\ \A node \in 0 .. batch.size - 1 :
            LET x == batch.scalars[batch.heap[node]]
                above == batch.scalars[batch.heap[IF node = 0 THEN 0 ELSE Parent(node)]]
            IN  ZeroAbove(x, batch.limbsize) /\ Value(x) <= Value(above)
  /\ batch.pc = "final" /\ batch.extended =>
       (batch.sum = 0) = (ge25519_multi_scalarmult_vartime_final(
                            batch.points[batch.max1], batch.scalars[batch.max1]) = 0)

\* The answers are those of opening the signatures one by one, but for a batch whose
\* random numbers happen to cancel out what is wrong with it, or to leave the smaller
\* half of its scalars out.
BatchAnswers ==
  batch.pc = "done" =>
    \/ batch.unlucky
    \/ /\ batch.valid = [i \in DOMAIN batch.sigs |-> sign_open(batch.sigs[i])]
       /\ (1 \in batch.ret) = (\E i \in DOMAIN batch.valid : ~batch.valid[i])
       /\ 2 \in batch.ret => 1 \in batch.ret

\* A turn lowers the sum of the scalars; no batch is gone through twice.
Total(scalars) ==
  SumUpTo([i \in 0 .. 2 * batch.batchsize |-> Value(scalars[i])], 2 * batch.batchsize)

Shrinks ==
  /\ batch.pc = "turn" /\ batch'.pc = "turn" => Total(batch'.scalars) < Total(batch.scalars)
  /\ batch.pc \in {"batch", "final", "fallback"} /\ batch'.pc \in {"batch", "done"} =>
       Len(batch'.left) < Len(batch.left) \/ batch'.pc = "done"

BatchShrinks == [][Shrinks]_batch
=============================================================================
