----------------------------- MODULE Blake2Hash -----------------------------
(***************************************************************************)
(* What the hash functions of Sources/BLAKE2 promise: the digest is a      *)
(* function of the parameters, the key and the bytes put in, whatever      *)
(* pieces they came in.  The function is defined without any buffer, by    *)
(* position in the whole input, as RFC 7693 does for the sequential        *)
(* hashes.                                                                 *)
(***************************************************************************)
EXTENDS Blake2Trees

Hashers == {"b", "s", "bp", "sp", "xb", "xs"}
FamilyOf(hasher) == IF hasher \in {"b", "bp", "xb"} THEN "b" ELSE "s"
Sequential == {"b", "s"}
Trees == {"bp", "sp"}
Xofs == {"xb", "xs"}

\* The input of a hash that starts with the key in a block of its own.
Keyed(f, key, msg) == (IF key = <<>> THEN <<>> ELSE KeyBlock(f, key)) \o msg

\* Everything that goes into a hash of the bytes in: block i, counted from 1,
\* with the number of input bytes up to its end, and the final flags on the
\* last block.  The empty input is one block of zeros.
HashOf(f, P, lastNode, in) ==
  LET size == BLOCKBYTES[f]
      count == IF in = <<>> THEN 1 ELSE (Len(in) + size - 1) \div size
      byte(p) == IF p \in DOMAIN in THEN in[p] ELSE Zero
      counted(i) == Minimum(Len(in), i * size)
  IN  <<P>> \o [i \in 1 .. count |->
        [m |-> [p \in 1 .. size |-> byte((i - 1) * size + p)],
         t |-> <<counted(i) % WORD[f], (counted(i) \div WORD[f]) % WORD[f]>>,
         f |-> <<i = count, i = count /\ lastNode>>]]

FlatDigest(f, asked, outlen, key, msg) ==
  Digest(HashOf(f, SequentialParam(asked, Len(key)), FALSE,
                Keyed(f, key, msg)), outlen)

\* The bytes of msg in the blocks that leaf i takes, every DEGREE-th, the last
\* of which may be cut short.
ShareLength(f, i, len) ==
  LET stripe == DEGREE[f] * BLOCKBYTES[f]
      left == (len % stripe) - (i - 1) * BLOCKBYTES[f]
  IN  (len \div stripe) * BLOCKBYTES[f]
        + (IF left <= 0 THEN 0 ELSE Minimum(left, BLOCKBYTES[f]))

Share(f, i, msg) ==
  LET size == BLOCKBYTES[f]
  IN  [k \in 1 .. ShareLength(f, i, Len(msg)) |->
         msg[((k - 1) \div size) * (DEGREE[f] * size) + (i - 1) * size
               + ((k - 1) % size) + 1]]

TreeDigest(f, outlen, key, msg) ==
  LET leaf(i) == HashOf(f, TreeParam(f, outlen, Len(key), i - 1, 0),
                        i = DEGREE[f], Keyed(f, key, Share(f, i, msg)))
      digests == [i \in Leaves(f) |-> Digest(leaf(i), OUTBYTES[f])]
  IN  Digest(HashOf(f, TreeParam(f, outlen, Len(key), 0, 1), TRUE,
                    InPieces(digests, OUTBYTES[f], DEGREE[f] * OUTBYTES[f])),
             outlen)

\* Byte n, counted from 0, of an extendable output of outlen bytes.
XofByte(f, asked, outlen, root, n) ==
  LET i == n \div OUTBYTES[f]
      size == Minimum(OUTBYTES[f], outlen - i * OUTBYTES[f])
      P == [digest_length |-> size, key_length |-> 0, fanout |-> 0, depth |-> 0,
            leaf_length |-> OUTBYTES[f], node_offset |-> i,
            xof_length |-> asked, node_depth |-> 0,
            inner_length |-> OUTBYTES[f]]
  IN  Digest(HashOf(f, P, FALSE, root), size)[(n % OUTBYTES[f]) + 1]

XofDigest(f, asked, outlen, key, msg) ==
  LET P == [SequentialParam(OUTBYTES[f], Len(key)) EXCEPT !.xof_length = asked]
      root == Digest(HashOf(f, P, FALSE, Keyed(f, key, msg)), OUTBYTES[f])
  IN  [n \in 1 .. outlen |-> XofByte(f, asked, outlen, root, n - 1)]

\* What a hash made for asked bytes answers when the caller wants outlen.
\* blake2s alone gives its caller more bytes than it was made for.
DigestOf(hasher, asked, outlen, key, msg) ==
  LET f == FamilyOf(hasher)
  IN  IF hasher = "b" THEN FlatDigest("b", asked, asked, key, msg)
      ELSE IF hasher = "s" THEN FlatDigest("s", asked, outlen, key, msg)
      ELSE IF hasher \in Trees THEN TreeDigest(f, asked, key, msg)
      ELSE XofDigest(f, asked, outlen, key, msg)

\* The lengths of output and key a hash may be made for.  blake2xs takes a key
\* as long as blake2b's.
LongestKey(hasher) == IF hasher \in {"s", "sp"} THEN KEYBYTES["s"] ELSE KEYBYTES["b"]
LongestOutput(hasher) ==
  IF hasher \in Xofs THEN XOFUNKNOWN[FamilyOf(hasher)] ELSE OUTBYTES[FamilyOf(hasher)]

\* What the caller may ask the finished hash for.
MayAsk(hasher, asked, outlen) ==
  IF hasher \in Sequential \cup Trees THEN outlen >= asked
  ELSE IF asked = XOFUNKNOWN[FamilyOf(hasher)] THEN outlen > 0
  ELSE outlen = asked
=============================================================================
