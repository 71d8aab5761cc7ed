----------------------------- MODULE Blake2Trees -----------------------------
(***************************************************************************)
(* blake2bp and blake2sp: DEGREE leaves, each a blake2b or blake2s state,  *)
(* take the blocks of the input in turn, and a root hashes their digests.  *)
(* blake2xb and blake2xs: a root hash, then one hash of it per block of    *)
(* output.  The package does not enable OpenMP, so the leaves run in a     *)
(* loop.                                                                   *)
(***************************************************************************)
EXTENDS Blake2

Leaves(f) == 1 .. DEGREE[f]

\* Block i of stripe j of in, a stripe being DEGREE blocks.
BlockOf(f, in, j, i) ==
  LET from == (j - 1) * (DEGREE[f] * BLOCKBYTES[f]) + (i - 1) * BLOCKBYTES[f]
  IN  SubSeq(in, from + 1, from + BLOCKBYTES[f])

TreeParam(f, outlen, keylen, offset, depth) ==
  [digest_length |-> outlen, key_length |-> keylen, fanout |-> DEGREE[f],
   depth |-> 2, leaf_length |-> 0, node_offset |-> offset, xof_length |-> 0,
   node_depth |-> depth, inner_length |-> OUTBYTES[f]]

\* A leaf's digest is not as long as its parameters say: see the comment above
\* blake2bp_init_leaf_param.
init_leaf(f, outlen, keylen, i) ==
  [init_param(f, TreeParam(f, outlen, keylen, i - 1, 0))
     EXCEPT !.outlen = OUTBYTES[f]]

init_root(f, outlen, keylen) ==
  init_param(f, TreeParam(f, outlen, keylen, 0, 1))

\* (Faulty variant: the mark is on the first leaf.)
MarkFirst(f, leaf, i) == [leaf EXCEPT !.last_node = (i = 1)]

MarkLast(f, leaf, i) == [leaf EXCEPT !.last_node = (i = DEGREE[f])]

tree_init(f, outlen, keylen) ==
  [S |-> [i \in Leaves(f) |-> MarkLast(f, init_leaf(f, outlen, keylen, i), i)],
   R |-> [init_root(f, outlen, keylen) EXCEPT !.last_node = TRUE],
   buf |-> Zeros(DEGREE[f] * BLOCKBYTES[f]), buflen |-> 0, outlen |-> outlen]

blake2bp_init(outlen) ==
  IF OutlenFits("b", outlen) THEN tree_init("b", outlen, 0) ELSE NoState
blake2sp_init(outlen) ==
  IF OutlenFits("s", outlen) THEN tree_init("s", outlen, 0) ELSE NoState

\* Every leaf starts with the key block.
tree_init_key(f, outlen, key) ==
  [tree_init(f, outlen, Len(key))
     EXCEPT !.S = [i \in Leaves(f) |-> update(f, @[i], KeyBlock(f, key))]]

blake2bp_init_key(outlen, key) ==
  IF OutlenFits("b", outlen) /\ KeyFits("b", key)
  THEN tree_init_key("b", outlen, key) ELSE NoState
blake2sp_init_key(outlen, key) ==
  IF OutlenFits("s", outlen) /\ KeyFits("s", key)
  THEN tree_init_key("s", outlen, key) ELSE NoState

\* Leaf i takes its block of every whole stripe of in.
Spread(f, leaf, i, in) ==
  updates(f, leaf, [j \in 1 .. Len(in) \div (DEGREE[f] * BLOCKBYTES[f]) |->
                      BlockOf(f, in, j, i)])

tree_update(f, S, in) ==
  LET size == DEGREE[f] * BLOCKBYTES[f]
      fill == size - S.buflen
      flush == S.buflen > 0 /\ Len(in) >= fill
      buf == IF flush THEN Overwrite(S.buf, S.buflen, SubSeq(in, 1, fill))
                      ELSE S.buf
      left == IF flush THEN 0 ELSE S.buflen
      rest == IF flush THEN SubSeq(in, fill + 1, Len(in)) ELSE in
      tail == SubSeq(rest, Len(rest) - (Len(rest) % size) + 1, Len(rest))
      flushed(i) == IF flush THEN update(f, S.S[i], BlockOf(f, buf, 1, i))
                             ELSE S.S[i]
  IN  [S EXCEPT !.S = [i \in Leaves(f) |-> Spread(f, flushed(i), i, rest)],
                !.buf = Overwrite(buf, left, tail),
                !.buflen = left + Len(tail)]

blake2bp_update(S, in) == tree_update("b", S, in)
blake2sp_update(S, in) == tree_update("s", S, in)

Minimum(a, b) == IF a < b THEN a ELSE b

\* Leaf i with its part of what is left of the input, less than a stripe.
LastPart(f, leaf, i, rest) ==
  LET from == (i - 1) * BLOCKBYTES[f]
  IN  IF Len(rest) > from
      THEN update(f, leaf,
                  SubSeq(rest, from + 1, Minimum(Len(rest), from + BLOCKBYTES[f])))
      ELSE leaf

\* The root over the digests of the leaves.  The result of a leaf's final is not
\* looked at, and hash[i] of a leaf that refuses is never written.
RootOver(f, root, ends) ==
  updates(f, root, [i \in Leaves(f) |->
                      IF ends[i].ret = 0 THEN ends[i].out
                      ELSE [b \in 1 .. OUTBYTES[f] |-> <<"undefined">>]])

tree_final(f, S, outlen) ==
  LET rest == SubSeq(S.buf, 1, S.buflen)
      ends == [i \in Leaves(f) |->
                 final(f, LastPart(f, S.S[i], i, rest), OUTBYTES[f])]
      root == final(f, RootOver(f, S.R, ends), S.outlen)
  IN  IF outlen < S.outlen THEN Refused(S)
      ELSE [root EXCEPT !.S = [S EXCEPT !.S = [i \in Leaves(f) |-> ends[i].S],
                                        !.R = root.S]]

blake2bp_final(S, outlen) == tree_final("b", S, outlen)
blake2sp_final(S, outlen) == tree_final("s", S, outlen)

\* The one-shot call has its own loop over the whole input and its own root.
tree(f, outlen, in, key) ==
  LET size == DEGREE[f] * BLOCKBYTES[f]
      rest == SubSeq(in, Len(in) - (Len(in) % size) + 1, Len(in))
      leaf(i) == MarkLast(f, init_leaf(f, outlen, Len(key), i), i)
      keyed(i) == IF key = <<>> THEN leaf(i) ELSE update(f, leaf(i), KeyBlock(f, key))
      ends == [i \in Leaves(f) |->
                 final(f, LastPart(f, Spread(f, keyed(i), i, in), i, rest),
                       OUTBYTES[f])]
      root == [init_root(f, outlen, Len(key)) EXCEPT !.last_node = TRUE]
      end == final(f, RootOver(f, root, ends), outlen)
  IN  IF OutlenFits(f, outlen) /\ Len(key) <= KEYBYTES[f]
      THEN [ret |-> end.ret, out |-> end.out]
      ELSE [ret |-> -1, out |-> <<>>]

blake2bp(outlen, in, key) == tree("b", outlen, in, key)
\* (Faulty variant: the call of the other family.)
blake2spAsB(outlen, in, key) == tree("b", outlen, in, key)

blake2sp(outlen, in, key) == tree("s", outlen, in, key)
-----------------------------------------------------------------------------
(* blake2xb and blake2xs *)

XofParam(f, outlen, keylen) ==
  [SequentialParam(OUTBYTES[f], keylen) EXCEPT !.xof_length = outlen]

xof_init_key(f, outlen, key) ==
  LET P == XofParam(f, outlen, Len(key))
      S == init_param(f, P)
  IN  [P |-> P,
       S |-> IF key = <<>> THEN S ELSE update(f, S, KeyBlock(f, key))]

\* Both check the key against the longest key of blake2b.
blake2xb_init_key(outlen, key) ==
  IF outlen \in 1 .. XOFUNKNOWN["b"] /\ Len(key) <= KEYBYTES["b"]
  THEN xof_init_key("b", outlen, key) ELSE NoState
blake2xs_init_key(outlen, key) ==
  IF outlen \in 1 .. XOFUNKNOWN["s"] /\ Len(key) <= KEYBYTES["b"]
  THEN xof_init_key("s", outlen, key) ELSE NoState

blake2xb_init(outlen) == blake2xb_init_key(outlen, <<>>)
blake2xs_init(outlen) == blake2xs_init_key(outlen, <<>>)

blake2xb_update(S, in) == [S EXCEPT !.S = blake2b_update(@, in)]
blake2xs_update(S, in) == [S EXCEPT !.S = blake2s_update(@, in)]

\* Output block i, counted from 0, of size bytes.
XofBlock(f, P, root, i, size) ==
  LET node == [P EXCEPT !.key_length = 0, !.fanout = 0, !.depth = 0,
                        !.leaf_length = OUTBYTES[f], !.inner_length = OUTBYTES[f],
                        !.node_depth = 0, !.digest_length = size,
                        !.node_offset = i]
  IN  final(f, update(f, init_param(f, node), root), size).out

xof_final(f, S, outlen) ==
  LET root == final(f, S.S, OUTBYTES[f])
      size(i) == Minimum(OUTBYTES[f], outlen - i * OUTBYTES[f])
      count == (outlen + OUTBYTES[f] - 1) \div OUTBYTES[f]
      blocks == [j \in 1 .. count |->
                   XofBlock(f, S.P, root.out, j - 1, size(j - 1))]
  IN  IF \/ S.P.xof_length = XOFUNKNOWN[f] /\ outlen = 0
         \/ S.P.xof_length # XOFUNKNOWN[f] /\ outlen # S.P.xof_length
         \/ root.ret # 0
      THEN Refused(S)
      ELSE [ret |-> 0, S |-> [S EXCEPT !.S = root.S],
            out |-> InPieces(blocks, OUTBYTES[f], outlen)]

blake2xb_final(S, outlen) == xof_final("b", S, outlen)
blake2xs_final(S, outlen) == xof_final("s", S, outlen)

blake2xb(outlen, in, key) ==
  LET S == blake2xb_init_key(outlen, key)
      end == blake2xb_final(blake2xb_update(S, in), outlen)
  IN  IF Len(key) > KEYBYTES["b"] \/ S = NoState THEN [ret |-> -1, out |-> <<>>]
      ELSE [ret |-> end.ret, out |-> end.out]

blake2xs(outlen, in, key) ==
  LET S == blake2xs_init_key(outlen, key)
      end == blake2xs_final(blake2xs_update(S, in), outlen)
  IN  IF Len(key) > KEYBYTES["s"] \/ S = NoState THEN [ret |-> -1, out |-> <<>>]
      ELSE [ret |-> end.ret, out |-> end.out]
=============================================================================
