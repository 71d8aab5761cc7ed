----------------------------- MODULE HashPromise -----------------------------
(***************************************************************************)
(* The streaming interface of a hash as its caller may think of it: made   *)
(* once, fed any number of pieces, and finished once with the digest of    *)
(* all of them.  Blake2Stream implements it.                               *)
(***************************************************************************)
EXTENDS Blake2Hash

VARIABLES
  call,       \* NoCall, or what the hash was made for
  absorbed,   \* the bytes put in so far
  answer      \* the digest, <<>> until the hash is finished

vars == <<call, absorbed, answer>>

NoCall == [hasher |-> "none"]

Init == call = NoCall /\ absorbed = <<>> /\ answer = <<>>

Make(hasher, asked, key) ==
  /\ call = NoCall /\ hasher \in Hashers
  /\ asked \in 1 .. LongestOutput(hasher)
  /\ Len(key) <= LongestKey(hasher)
  /\ call' = [hasher |-> hasher, asked |-> asked, key |-> key]
  /\ UNCHANGED <<absorbed, answer>>

Absorb(in) ==
  /\ call # NoCall /\ answer = <<>>
  /\ absorbed' = absorbed \o in
  /\ UNCHANGED <<call, answer>>

Finish(outlen) ==
  /\ call # NoCall /\ answer = <<>>
  /\ MayAsk(call.hasher, call.asked, outlen)
  /\ answer' = DigestOf(call.hasher, call.asked, outlen, call.key, absorbed)
  /\ UNCHANGED <<call, absorbed>>

\* The arguments of a step are read off the step.
Next ==
  \/ call' # NoCall /\ Make(call'.hasher, call'.asked, call'.key)
  \/ Absorb(SubSeq(absorbed', Len(absorbed) + 1, Len(absorbed')))
  \/ /\ call # NoCall
     /\ \E outlen \in {call.asked, Len(answer')} : Finish(outlen)

Spec == Init /\ [][Next]_vars
=============================================================================
