---------------------------- MODULE FieldPowers -----------------------------
(***************************************************************************)
(* The powers of curve25519-donna-helpers.h, as chains of products and of  *)
(* squares taken times over: square_times(a, n) is a to the 2^n.  The      *)
(* names of the numbers are the source's, and a comment gives the exponent *)
(* reached.                                                                *)
(***************************************************************************)
EXTENDS Integers

CONSTANTS mul(_, _), square_times(_, _)

\* (Faulty variant: the last step multiplies by 2^10 - 1.)
curve25519_pow_two5mtwo0_two250mtwo0Ten(b) ==
  LET b10 == mul(square_times(b, 5), b)
      c20 == mul(square_times(b10, 10), b10)
      t40 == mul(square_times(c20, 20), c20)
      b50 == mul(square_times(t40, 10), b10)
      c100 == mul(square_times(b50, 50), b50)
      t200 == mul(square_times(c100, 100), c100)
  IN  mul(square_times(t200, 50), b10)

curve25519_pow_two5mtwo0_two250mtwo0(b) ==  \* b: 2^5 - 1
  LET b10 == mul(square_times(b, 5), b)
      c20 == mul(square_times(b10, 10), b10)
      t40 == mul(square_times(c20, 20), c20)
      b50 == mul(square_times(t40, 10), b10)
      c100 == mul(square_times(b50, 50), b50)
      t200 == mul(square_times(c100, 100), c100)
  IN  mul(square_times(t200, 50), b50)

\* z^(p - 2) = z^(2^255 - 21)
curve25519_recip(z) ==
  LET two == square_times(z, 1)
      nine == mul(square_times(two, 2), z)
      eleven == mul(nine, two)
      b == mul(square_times(eleven, 1), nine)
  IN  mul(square_times(curve25519_pow_two5mtwo0_two250mtwo0(b), 5), eleven)

\* z^((p - 5) / 8) = z^(2^252 - 3)
curve25519_pow_two252m3(z) ==
  LET two == square_times(z, 1)
      nine == mul(square_times(two, 2), z)
      eleven == mul(nine, two)
      b == mul(square_times(eleven, 1), nine)
  IN  mul(square_times(curve25519_pow_two5mtwo0_two250mtwo0(b), 2), z)
=============================================================================
