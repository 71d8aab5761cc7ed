------------------------------- MODULE ModM32 -------------------------------
(***************************************************************************)
(* What modm-donna-32bit.h does in its own way.                            *)
(***************************************************************************)
EXTENDS ModM

\* Two limbs together are a whole number of digits: what is left of the first limb
\* goes below the second.
contract256_window4_modm(in) ==
  LET left == BPL % QUAD
      firsts == BPL \div QUAD
      pair == (2 * BPL) \div QUAD
      digit(j) ==
        LET i == 2 * (j \div pair)
            n == j % pair
            v == IF n < firsts THEN in[i]
                 ELSE (in[i] \div 2 ^ (QUAD * firsts)) + in[i + 1] * 2 ^ left
        IN  (v \div 2 ^ (QUAD * (IF n < firsts THEN n ELSE n - firsts))) % 2 ^ QUAD
  IN  SignedQuads([j \in 1 .. Bits \div QUAD |-> digit(j - 1)])

\* The limbs are compared from limbsize down, and the first difference decides.
lt256_modm_batch(a, b, limbsize) ==
  \E i \in 0 .. limbsize : a[i] < b[i] /\ \A n \in i + 1 .. limbsize : a[n] = b[n]

lte256_modm_batch(a, b, limbsize) ==
  \/ lt256_modm_batch(a, b, limbsize)
  \/ \A i \in 0 .. limbsize : a[i] = b[i]
=============================================================================
