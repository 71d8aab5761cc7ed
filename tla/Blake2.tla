------------------------------- MODULE Blake2 -------------------------------
(***************************************************************************)
(* The six hash functions of Sources/BLAKE2: blake2b and blake2s, the      *)
(* trees blake2bp and blake2sp over them, and the extendable outputs       *)
(* blake2xb and blake2xs.  The b and the s files are the same program over *)
(* other constants; an operator that both files contain takes the family,  *)
(* "b" or "s", as its first argument.                                      *)
(*                                                                         *)
(* A byte is a symbol, and the compression function is free: h is the      *)
(* sequence of everything that went into it, so that two hashes are equal  *)
(* exactly when the same blocks were compressed with the same counters and *)
(* flags under the same parameters.  Blake2Compress has the real one.      *)
(***************************************************************************)
EXTENDS Integers, Sequences

CONSTANTS
  BLOCKBYTES,   \* bytes of a block, by family
  OUTBYTES,     \* longest digest
  KEYBYTES,     \* longest key
  DEGREE,       \* PARALLELISM_DEGREE of the tree over the family
  WORD,         \* number of values of a word of the counter
  XOFUNKNOWN    \* the xof_length that stands for "not known yet"

Family == {"b", "s"}

ASSUME ConstantsAssumption ==
  \A f \in Family :
    /\ BLOCKBYTES[f] \in Nat \ {0}
    /\ OUTBYTES[f] \in Nat \ {0}
    /\ KEYBYTES[f] \in 0 .. BLOCKBYTES[f]
    /\ DEGREE[f] \in Nat \ {0}
    /\ WORD[f] \in Nat /\ BLOCKBYTES[f] < WORD[f]
    /\ XOFUNKNOWN[f] \in Nat

Zero == <<"zero">>
Zeros(n) == [i \in 1 .. n |-> Zero]

\* dst with the bytes of src from offset on: memcpy(dst + offset, src, |src|).
Overwrite(dst, offset, src) ==
  [i \in DOMAIN dst |->
     IF i - offset \in DOMAIN src THEN src[i - offset] ELSE dst[i]]

\* Pieces of size bytes written one behind the other, up to len bytes.
InPieces(pieces, size, len) ==
  [k \in 1 .. len |-> pieces[((k - 1) \div size) + 1][((k - 1) % size) + 1]]

\* The first n bytes of the words of h, stored little-endian.
Digest(h, n) == [i \in 1 .. n |-> <<"digest", h, i>>]
-----------------------------------------------------------------------------
(* blake2b and blake2s *)

\* (Faulty variant: without the carry into the high word.)
increment_counterLow(f, S, inc) == [S EXCEPT !.t0 = (@ + inc) % WORD[f]]

increment_counter(f, S, inc) ==
  LET t0 == (S.t0 + inc) % WORD[f]
  IN  [S EXCEPT !.t0 = t0,
                !.t1 = (@ + (IF t0 < inc THEN 1 ELSE 0)) % WORD[f]]

is_lastblock(S) == S.f0

set_lastblock(S) == [S EXCEPT !.f0 = TRUE, !.f1 = @ \/ S.last_node]

compress(S, block) ==
  [S EXCEPT !.h = Append(@, [m |-> block, t |-> <<S.t0, S.t1>>,
                             f |-> <<S.f0, S.f1>>])]

init_param(f, P) ==
  [h |-> <<P>>, t0 |-> 0, t1 |-> 0, f0 |-> FALSE, f1 |-> FALSE,
   buf |-> Zeros(BLOCKBYTES[f]), buflen |-> 0,
   outlen |-> P.digest_length, last_node |-> FALSE]

\* The parameter block of a sequential hash.
SequentialParam(outlen, keylen) ==
  [digest_length |-> outlen, key_length |-> keylen, fanout |-> 1, depth |-> 1,
   leaf_length |-> 0, node_offset |-> 0, xof_length |-> 0, node_depth |-> 0,
   inner_length |-> 0]

Keep(S, in) ==
  [S EXCEPT !.buf = Overwrite(@, S.buflen, in), !.buflen = @ + Len(in)]

\* (Faulty variant: the block is counted after it is compressed.)
CompressWholeLate(f, S, block) ==
  increment_counter(f, compress(S, block), BLOCKBYTES[f])

CompressWhole(f, S, block) ==
  compress(increment_counter(f, S, BLOCKBYTES[f]), block)

\* The loop over whole blocks of in.
CompressAll(f, S, in, whole) ==
  LET size == BLOCKBYTES[f]
      after[j \in 0 .. whole] ==
        IF j = 0 THEN S
        ELSE CompressWhole(f, after[j - 1], SubSeq(in, (j - 1) * size + 1, j * size))
  IN  after[whole]

\* A full buffer is compressed only when more input follows: final needs the
\* last block to set its flags.
update(f, S, in) ==
  LET size == BLOCKBYTES[f]
      fill == size - S.buflen
      filled == Overwrite(S.buf, S.buflen, SubSeq(in, 1, fill))
      rest == SubSeq(in, fill + 1, Len(in))
      whole == (Len(rest) - 1) \div size
      first == CompressWhole(f, [S EXCEPT !.buf = filled, !.buflen = 0], filled)
  IN  IF Len(in) > fill
      THEN Keep(CompressAll(f, first, rest, whole),
                SubSeq(rest, whole * size + 1, Len(rest)))
      ELSE Keep(S, in)

\* update() called in a loop, with one piece at a time.
updates(f, S, pieces) ==
  LET after[j \in 0 .. Len(pieces)] ==
        IF j = 0 THEN S ELSE update(f, after[j - 1], pieces[j])
  IN  after[Len(pieces)]

KeyBlock(f, key) == Overwrite(Zeros(BLOCKBYTES[f]), 0, key)

\* (Faulty variant: a refused call has wiped the state.)
RefusedWiped(S) == [ret |-> -1, S |-> [ret |-> -1], out |-> <<>>]

Refused(S) == [ret |-> -1, S |-> S, out |-> <<>>]

\* What both finals do once the call is accepted.
LastBlock(f, S) ==
  LET counted == increment_counter(f, S, S.buflen)
      padded == Overwrite(S.buf, S.buflen, Zeros(BLOCKBYTES[f] - S.buflen))
  IN  compress([set_lastblock(counted) EXCEPT !.buf = padded], padded)

CanFinish(S, outlen) == outlen >= S.outlen /\ ~is_lastblock(S)

\* blake2b_final writes as many bytes as the state was made for, blake2s_final
\* as many as its caller asks for.
blake2b_final(S, outlen) ==
  LET T == LastBlock("b", S)
  IN  IF CanFinish(S, outlen)
      THEN [ret |-> 0, S |-> T, out |-> Digest(T.h, S.outlen)]
      ELSE Refused(S)

blake2s_final(S, outlen) ==
  LET T == LastBlock("s", S)
  IN  IF CanFinish(S, outlen)
      THEN [ret |-> 0, S |-> T, out |-> Digest(T.h, outlen)]
      ELSE Refused(S)

final(f, S, outlen) ==
  IF f = "b" THEN blake2b_final(S, outlen) ELSE blake2s_final(S, outlen)

\* Every init gives a state, or this.
NoState == [ret |-> -1]

OutlenFits(f, outlen) == outlen \in 1 .. OUTBYTES[f]
KeyFits(f, key) == Len(key) \in 1 .. KEYBYTES[f]

blake2b_init(outlen) ==
  IF OutlenFits("b", outlen)
  THEN init_param("b", SequentialParam(outlen, 0)) ELSE NoState

blake2s_init(outlen) ==
  IF OutlenFits("s", outlen)
  THEN init_param("s", SequentialParam(outlen, 0)) ELSE NoState

blake2b_init_key(outlen, key) ==
  IF OutlenFits("b", outlen) /\ KeyFits("b", key)
  THEN update("b", init_param("b", SequentialParam(outlen, Len(key))),
              KeyBlock("b", key))
  ELSE NoState

blake2s_init_key(outlen, key) ==
  IF OutlenFits("s", outlen) /\ KeyFits("s", key)
  THEN update("s", init_param("s", SequentialParam(outlen, Len(key))),
              KeyBlock("s", key))
  ELSE NoState

blake2b_update(S, in) == update("b", S, in)
blake2s_update(S, in) == update("s", S, in)

blake2b(outlen, in, key) ==
  LET S == IF key = <<>> THEN blake2b_init(outlen)
                         ELSE blake2b_init_key(outlen, key)
  IN  IF S = NoState THEN [ret |-> -1, out |-> <<>>]
      ELSE [ret |-> 0, out |-> blake2b_final(blake2b_update(S, in), outlen).out]

blake2s(outlen, in, key) ==
  LET S == IF key = <<>> THEN blake2s_init(outlen)
                         ELSE blake2s_init_key(outlen, key)
  IN  IF S = NoState THEN [ret |-> -1, out |-> <<>>]
      ELSE [ret |-> 0, out |-> blake2s_final(blake2s_update(S, in), outlen).out]
=============================================================================
