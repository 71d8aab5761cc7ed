---------------------------- MODULE Blake2Stream ----------------------------
(***************************************************************************)
(* A caller of the streaming interface of Sources/BLAKE2: it makes one of  *)
(* the six hashes, with or without a key, feeds it pieces of any length,   *)
(* none included, and finishes it.  It may ask for too few bytes and ask   *)
(* again, and it may go on after the hash is finished: Blake2B.swift never *)
(* forbids it, and asserts what the calls return.                          *)
(***************************************************************************)
EXTENDS Blake2Hash, Functions

CONSTANTS
  Keys,       \* the keys callers have
  Lengths,    \* the output lengths they ask for
  Pieces,     \* the lengths of the pieces they put in
  MaxInput,   \* bound on the input
  MaxLate     \* bound on the calls made after the hash is finished

ASSUME KeysAssumption == \A key \in Keys : key \in Seq(Range(key))
ASSUME InputsAssumption ==
  /\ Lengths \subseteq Nat /\ Pieces \subseteq Nat
  /\ MaxInput \in Nat /\ MaxLate \in Nat

\* The counter has two words: 128 bits for blake2b, 64 for blake2s.
ASSUME CounterAssumption ==
  \A f \in Family : MaxInput + BLOCKBYTES[f] < WORD[f] * WORD[f]

VARIABLES
  call,       \* NoCall, or the arguments of the init that was accepted
  state,      \* the C state
  absorbed,   \* the bytes put in before the hash was finished
  answer,     \* what the accepted final wrote
  late        \* calls since then

vars == <<call, state, absorbed, answer, late>>

NoCall == [hasher |-> "none"]

Init ==
  /\ call = NoCall /\ state = NoState
  /\ absorbed = <<>> /\ answer = <<>> /\ late = 0

init(hasher, asked) ==
  CASE hasher = "b" -> blake2b_init(asked)
    [] hasher = "s" -> blake2s_init(asked)
    [] hasher = "bp" -> blake2bp_init(asked)
    [] hasher = "sp" -> blake2sp_init(asked)
    [] hasher = "xb" -> blake2xb_init(asked)
    [] hasher = "xs" -> blake2xs_init(asked)

init_key(hasher, asked, key) ==
  CASE hasher = "b" -> blake2b_init_key(asked, key)
    [] hasher = "s" -> blake2s_init_key(asked, key)
    [] hasher = "bp" -> blake2bp_init_key(asked, key)
    [] hasher = "sp" -> blake2sp_init_key(asked, key)
    [] hasher = "xb" -> blake2xb_init_key(asked, key)
    [] hasher = "xs" -> blake2xs_init_key(asked, key)

put(hasher, S, in) ==
  CASE hasher = "b" -> blake2b_update(S, in)
    [] hasher = "s" -> blake2s_update(S, in)
    [] hasher = "bp" -> blake2bp_update(S, in)
    [] hasher = "sp" -> blake2sp_update(S, in)
    [] hasher = "xb" -> blake2xb_update(S, in)
    [] hasher = "xs" -> blake2xs_update(S, in)

finish(hasher, S, outlen) ==
  CASE hasher = "b" -> blake2b_final(S, outlen)
    [] hasher = "s" -> blake2s_final(S, outlen)
    [] hasher = "bp" -> blake2bp_final(S, outlen)
    [] hasher = "sp" -> blake2sp_final(S, outlen)
    [] hasher = "xb" -> blake2xb_final(S, outlen)
    [] hasher = "xs" -> blake2xs_final(S, outlen)

oneshot(hasher, outlen, in, key) ==
  CASE hasher = "b" -> blake2b(outlen, in, key)
    [] hasher = "s" -> blake2s(outlen, in, key)
    [] hasher = "bp" -> blake2bp(outlen, in, key)
    [] hasher = "sp" -> blake2sp(outlen, in, key)
    [] hasher = "xb" -> blake2xb(outlen, in, key)
    [] hasher = "xs" -> blake2xs(outlen, in, key)

\* The next n bytes of the input, told apart by where they are.
Bytes(n) == [i \in 1 .. n |-> <<"byte", Len(absorbed) + i>>]

Finished == answer # <<>>

Made(S, hasher, asked, key) ==
  /\ call = NoCall /\ S # NoState
  /\ state' = S
  /\ call' = [hasher |-> hasher, asked |-> asked, key |-> key]
  /\ UNCHANGED <<absorbed, answer, late>>

Make(hasher, asked) == Made(init(hasher, asked), hasher, asked, <<>>)

MakeKeyed(hasher, asked, key) ==
  Made(init_key(hasher, asked, key), hasher, asked, key)

Put(n) ==
  /\ call # NoCall
  /\ Len(absorbed) + n <= MaxInput
  /\ Finished => late < MaxLate
  /\ state' = put(call.hasher, state, Bytes(n))
  /\ absorbed' = IF Finished THEN absorbed ELSE absorbed \o Bytes(n)
  /\ late' = IF Finished THEN late + 1 ELSE late
  /\ UNCHANGED <<call, answer>>

\* blake2s copies outlen bytes out of OUTBYTES of them.
Finish(outlen) ==
  /\ call # NoCall
  /\ call.hasher = "s" => outlen <= OUTBYTES["s"]
  /\ Finished => late < MaxLate
  /\ LET end == finish(call.hasher, state, outlen)
     IN  /\ state' = end.S
         /\ answer' = IF end.ret = 0 THEN end.out ELSE answer
  /\ late' = IF Finished THEN late + 1 ELSE late
  /\ UNCHANGED <<call, absorbed>>

Next ==
  \/ \E hasher \in Hashers, asked \in Lengths : Make(hasher, asked)
  \/ \E hasher \in Hashers, asked \in Lengths, key \in Keys :
       MakeKeyed(hasher, asked, key)
  \/ \E n \in Pieces : Put(n)
  \/ \E outlen \in Lengths : Finish(outlen)

Spec == Init /\ [][Next]_vars
-----------------------------------------------------------------------------
(* Properties *)

\* The four variables the caller knows, and states of the shape the code gives
\* them; what they must hold is below.
TypeOK ==
  /\ call = NoCall \/ call.hasher \in Hashers
  /\ (call = NoCall) = (state = NoState)
  /\ absorbed \in Seq({<<"byte", i>> : i \in 1 .. MaxInput})
  /\ late \in 0 .. MaxLate

\* However the input is cut into pieces, around the block, stripe and counter
\* boundaries of update, the digest is that of the whole input, and a hash
\* answers once: calls of final that are refused, before or after, change nothing
\* of what it answers.
Promise == INSTANCE HashPromise
Streams == Promise!Spec

Counter(f, S) == S.t1 * WORD[f] + S.t0
InFlight(f, S) == Counter(f, S) + S.buflen

\* The bytes a sequential state took: those in its buffer and those counted.
\* The last block stays in the buffer, so that final can flag it: a state that
\* was given anything is never left with an empty buffer.
Accounts(f, S, given) ==
  /\ InFlight(f, S) = given
  /\ S.buflen \in 0 .. BLOCKBYTES[f]
  /\ given > 0 => S.buflen > 0
  /\ Len(S.h) - 1 = (Counter(f, S) + BLOCKBYTES[f] - 1) \div BLOCKBYTES[f]

\* No byte of the key or of the input is lost or counted twice on its way
\* through the buffers of a hash that is not finished, and a tree has at most
\* one stripe outside its leaves.
BytesAccounted ==
  call # NoCall /\ ~Finished =>
    LET f == FamilyOf(call.hasher)
        keyed == IF call.key = <<>> THEN 0 ELSE BLOCKBYTES[f]
        given == Len(absorbed)
        stripe == DEGREE[f] * BLOCKBYTES[f]
        Flat(S) == Accounts(f, S, keyed + given)
    IN  IF call.hasher \in Sequential THEN Flat(state)
        ELSE IF call.hasher \in Xofs THEN Flat(state.S)
        ELSE /\ state.buflen = given % stripe
             /\ \A i \in Leaves(f) :
                  Accounts(f, state.S[i],
                           keyed + (given \div stripe) * BLOCKBYTES[f])
             /\ Accounts(f, state.R, 0)

\* The one-shot functions, with loops and parameter checks of their own, answer
\* what the streamed calls do.  blake2xs alone refuses keys that its init takes.
OneShotAgrees ==
  Finished /\ Len(answer) = call.asked =>
    LET one == oneshot(call.hasher, call.asked, absorbed, call.key)
    IN  IF call.hasher = "xs" /\ Len(call.key) > KEYBYTES["s"]
        THEN one.ret = -1
        ELSE one = [ret |-> 0, out |-> answer]
=============================================================================
