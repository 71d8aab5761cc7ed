------------------------------- MODULE ModM64 -------------------------------
(***************************************************************************)
(* What modm-donna-64bit.h does in its own way.                            *)
(***************************************************************************)
EXTENDS ModM

\* A limb is a whole number of digits.
contract256_window4_modm(in) ==
  SignedQuads([j \in 1 .. Bits \div QUAD |->
    LET bit == QUAD * (j - 1) IN (in[bit \div BPL] \div 2 ^ (bit % BPL)) % 2 ^ QUAD])

\* The sign of the difference of the limbs up to limbsize.
BorrowOut(a, b, limbsize) ==
  LET carry[i \in 0 .. limbsize + 1] ==
        IF i = 0 THEN 0 ELSE ((a[i - 1] - b[i - 1] - carry[i - 1]) % WORD) \div (WORD \div 2)
  IN  carry[limbsize + 1]

lt256_modm_batch(a, b, limbsize) == BorrowOut(a, b, limbsize) = 1

lte256_modm_batch(a, b, limbsize) == BorrowOut(b, a, limbsize) = 0
=============================================================================
