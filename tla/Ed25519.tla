------------------------------ MODULE Ed25519 -------------------------------
(***************************************************************************)
(* The functions of ed25519.c: keys, signatures, and the multiples of the  *)
(* base point for key exchange.  A signature is R, the string of a point,  *)
(* and S, the bytes of a scalar.  The hash is any function, from what is   *)
(* hashed one after the other to the bytes of two scalars.                 *)
(***************************************************************************)
EXTENDS Ge25519, SequencesExt

CONSTANTS
  k,                      \* bytes of a scalar: 32
  BYTE,                   \* number of values of a byte
  ed25519_hash(_),
  expand256_modm(_), expand_raw256_modm(_), contract256_modm(_),
  add256_modm(_, _), mul256_modm(_, _)

\* The scalar of a key is a multiple of the cofactor, and its second bit from the top
\* is set: &= 248, &= 127, |= 64.
Clamped(key) ==
  [key EXCEPT ![1] = 8 * (@ \div 8), ![k] = (@ % (BYTE \div 4)) + BYTE \div 4]

\* The scalar a, and after it what makes the nonces of the key.
ed25519_extsk(sk) ==
  LET extsk == ed25519_hash(sk)
  IN  Clamped(SubSeq(extsk, 1, k)) \o SubSeq(extsk, k + 1, 2 * k)

ed25519_hram(R, pk, message) == ed25519_hash(<<R, pk, message>>)

ed25519_publickey(sk) ==
  LET a == expand256_modm(SubSeq(ed25519_extsk(sk), 1, k))
  IN  ge25519_pack(ge25519_scalarmult_base_niels(a))

ed25519_sign(message, sk, pk) ==
  LET extsk == ed25519_extsk(sk)
      r == expand256_modm(ed25519_hash(SubSeq(extsk, k + 1, 2 * k) \o <<message>>))
      R == ge25519_pack(ge25519_scalarmult_base_niels(r))
      hram == expand256_modm(ed25519_hram(R, pk, message))
      a == expand256_modm(SubSeq(extsk, 1, k))
  IN  [R |-> R, S |-> contract256_modm(add256_modm(mul256_modm(hram, a), r))]

\* (Faulty variant: two of the three top bits of S are looked at.)
ed25519_sign_openLoose(message, pk, RS) ==
  LET A == ge25519_unpack_negative_vartime(pk)
      hram == expand256_modm(ed25519_hram(RS.R, pk, message))
      S == expand256_modm(RS.S)
      checkR == ge25519_pack(ge25519_double_scalarmult_vartime(A[1], hram, S))
  IN  IF RS.S[k] >= BYTE \div 4 \/ A = <<>> THEN -1
      ELSE IF ed25519_verify(RS.R, checkR) THEN 0 ELSE -1

\* 0 when R = SB - H(R,A,m)A, -1 otherwise.
ed25519_sign_open(message, pk, RS) ==
  LET A == ge25519_unpack_negative_vartime(pk)
      hram == expand256_modm(ed25519_hram(RS.R, pk, message))
      S == expand256_modm(RS.S)
      checkR == ge25519_pack(ge25519_double_scalarmult_vartime(A[1], hram, S))
  IN  IF RS.S[k] >= BYTE \div 8 \/ A = <<>> THEN -1
      ELSE IF ed25519_verify(RS.R, checkR) THEN 0 ELSE -1

\* u = (y + z) / (z - y)
curved25519_scalarmult_basepoint(e) ==
  LET r == ge25519_scalarmult_base_niels(expand_raw256_modm(Clamped(e)))
      yplusz == curve25519_add(r.y, r.z)
      zminusy == curve25519_recip(curve25519_sub(r.z, r.y))
  IN  curve25519_contract(curve25519_mul(yplusz, zminusy))
=============================================================================
