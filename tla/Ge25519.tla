------------------------------ MODULE Ge25519 -------------------------------
(***************************************************************************)
(* The points of ed25519-donna-impl-base.h.  A point is extended           *)
(* (x, y, z and t with x y = z t); sums and doubles come out as p1p1       *)
(* (x : z, y : t) and are brought back; a niels or pniels holds what a sum *)
(* takes of its second operand.  The coordinates are what FieldPromise     *)
(* says of them, so a function that is called with limbs too wide shows.   *)
(***************************************************************************)
EXTENDS FieldPromise, Sequences

CONSTANTS
  ge25519_ecd,       \* d of the curve, 2d, and a square root of -1
  ge25519_ec2d,
  ge25519_sqrtneg1,
  TOP,               \* the sign bit of a string of a point
  ge25519_niels_base_multiples,      \* the tables, generated: [256] packed points,
  ge25519_niels_sliding_multiples,   \* and [32] points, here functions from 0
  contract256_window4_modm(_),
  contract256_slidingwindow_modm(_, _)

Points == [x : Numbers, y : Numbers, z : Numbers, t : Numbers]

\* What a function leaves unwritten must not be read.
Unwritten == [num |-> 0, width |-> "too wide"]

One == Small(1)
Two == Small(2)

(***************************************************************************)
(* Conversions.                                                            *)
(***************************************************************************)
ge25519_p1p1_to_partial(q) ==
  [x |-> curve25519_mul(q.x, q.t), y |-> curve25519_mul(q.y, q.z),
   z |-> curve25519_mul(q.z, q.t), t |-> Unwritten]

ge25519_p1p1_to_full(q) ==
  [ge25519_p1p1_to_partial(q) EXCEPT !.t = curve25519_mul(q.x, q.y)]

ge25519_full_to_pniels(r) ==
  [ysubx |-> curve25519_sub(r.y, r.x), xaddy |-> curve25519_add(r.y, r.x),
   z |-> r.z, t2d |-> curve25519_mul(r.t, Small(ge25519_ec2d))]

(***************************************************************************)
(* Sums and doubles.                                                       *)
(***************************************************************************)
ge25519_add_p1p1(r, q) ==
  LET a == curve25519_mul(curve25519_sub(r.y, r.x), curve25519_sub(q.y, q.x))
      b == curve25519_mul(curve25519_add(r.y, r.x), curve25519_add(q.y, q.x))
      c == curve25519_mul(curve25519_mul(r.t, q.t), Small(ge25519_ec2d))
      zz == curve25519_mul(r.z, q.z)
      twice == curve25519_add(zz, zz)
  IN  [x |-> curve25519_sub(b, a), y |-> curve25519_add(b, a),
       z |-> curve25519_add_after_basic(twice, c),
       t |-> curve25519_sub_after_basic(twice, c)]

ge25519_double_p1p1(r) ==
  LET a == curve25519_square(r.x)
      b == curve25519_square(r.y)
      zz == curve25519_square(r.z)
      sum == curve25519_square(curve25519_add(r.x, r.y))
      y == curve25519_add(b, a)
      z == curve25519_sub(b, a)
  IN  [x |-> curve25519_sub_after_basic(sum, y), y |-> y, z |-> z,
       t |-> curve25519_sub_after_basic(curve25519_add_reduce(zz, zz), z)]

\* r + q or r - q.  The sign bit swaps the first two coordinates of q, and z with t.
AddSigned(r, q, twice, signbit) ==
  LET front == IF signbit = 0 THEN <<q.ysubx, q.xaddy>> ELSE <<q.xaddy, q.ysubx>>
      a == curve25519_mul(curve25519_sub(r.y, r.x), front[1])
      b == curve25519_mul(curve25519_add(r.y, r.x), front[2])
      c == curve25519_mul(r.t, q.t2d)
      plus == curve25519_add(twice, c)
      minus == curve25519_sub(twice, c)
  IN  [x |-> curve25519_sub(b, a), y |-> curve25519_add(b, a),
       z |-> IF signbit = 0 THEN plus ELSE minus,
       t |-> IF signbit = 0 THEN minus ELSE plus]

ge25519_nielsadd2_p1p1(r, q, signbit) ==
  AddSigned(r, q, curve25519_add_reduce(r.z, r.z), signbit)

ge25519_pnielsadd_p1p1(r, q, signbit) ==
  LET zz == curve25519_mul(r.z, q.z)
  IN  AddSigned(r, q, curve25519_add_reduce(zz, zz), signbit)

ge25519_double_partial(r) == ge25519_p1p1_to_partial(ge25519_double_p1p1(r))

ge25519_double(r) == ge25519_p1p1_to_full(ge25519_double_p1p1(r))

ge25519_add(r, q) == ge25519_p1p1_to_full(ge25519_add_p1p1(r, q))

ge25519_nielsadd2(r, q) ==
  LET a == curve25519_mul(curve25519_sub(r.y, r.x), q.ysubx)
      b == curve25519_mul(curve25519_add(r.y, r.x), q.xaddy)
      h == curve25519_add(b, a)
      e == curve25519_sub(b, a)
      c == curve25519_mul(r.t, q.t2d)
      twice == curve25519_add(r.z, r.z)
      g == curve25519_add_after_basic(twice, c)
      f == curve25519_sub_after_basic(twice, c)
  IN  [x |-> curve25519_mul(e, f), y |-> curve25519_mul(h, g),
       z |-> curve25519_mul(g, f), t |-> curve25519_mul(e, h)]

\* (Faulty variant: the sum is taken after the difference has replaced its first term.)
ge25519_pnielsaddInPlace(r, q) ==
  LET a == curve25519_mul(curve25519_sub(r.y, r.x), q.ysubx)
      b == curve25519_mul(curve25519_add(r.y, r.x), q.xaddy)
      y == curve25519_add(b, a)
      x == curve25519_sub(b, a)
      c == curve25519_mul(r.t, q.t2d)
      zz == curve25519_mul(r.z, q.z)
      twice == curve25519_add(zz, zz)
      z == curve25519_add_after_basic(twice, c)
      t == curve25519_sub_after_basic(twice, c)
      xt == curve25519_mul(x, t)
      ysubx == curve25519_sub(curve25519_mul(y, z), xt)
  IN  [ysubx |-> ysubx, xaddy |-> curve25519_add_reduce(xt, ysubx),
       z |-> curve25519_mul(z, t),
       t2d |-> curve25519_mul(curve25519_mul(x, y), Small(ge25519_ec2d))]

ge25519_pnielsadd(r, q) ==
  LET a == curve25519_mul(curve25519_sub(r.y, r.x), q.ysubx)
      b == curve25519_mul(curve25519_add(r.y, r.x), q.xaddy)
      y == curve25519_add(b, a)
      x == curve25519_sub(b, a)
      c == curve25519_mul(r.t, q.t2d)
      zz == curve25519_mul(r.z, q.z)
      twice == curve25519_add(zz, zz)
      z == curve25519_add_after_basic(twice, c)
      t == curve25519_sub_after_basic(twice, c)
      xt == curve25519_mul(x, t)
      yz == curve25519_mul(y, z)
  IN  [ysubx |-> curve25519_sub(yz, xt), xaddy |-> curve25519_add(xt, yz),
       z |-> curve25519_mul(z, t),
       t2d |-> curve25519_mul(curve25519_mul(x, y), Small(ge25519_ec2d))]

(***************************************************************************)
(* Strings.  A string is a number: y, and the sign bit.                    *)
(***************************************************************************)
ed25519_verify(x, y) == x = y

ge25519_pack(r) ==
  LET zi == curve25519_recip(r.z)
      parity == curve25519_contract(curve25519_mul(r.x, zi)) % 2
  IN  curve25519_contract(curve25519_mul(r.y, zi)) + parity * TOP

\* The negative of the point of a string: x is the even root for the odd one.  The
\* empty sequence when the string is of no point.
ge25519_unpack_negative_vartime(string) ==
  LET y == curve25519_expand(string % TOP)
      yy == curve25519_square(y)
      num == curve25519_sub_reduce(yy, One)
      den == curve25519_add(curve25519_mul(yy, Small(ge25519_ecd)), One)
      d3 == curve25519_mul(curve25519_square(den), den)
      d7 == curve25519_mul(curve25519_square(d3), den)
      power == curve25519_pow_two252m3(curve25519_mul(d7, num))
      x == curve25519_mul(curve25519_mul(power, d3), num)
      check == curve25519_mul(curve25519_square(x), den)
      isRoot == ed25519_verify(curve25519_contract(curve25519_sub_reduce(check, num)), 0)
      isOther == ed25519_verify(curve25519_contract(curve25519_add_reduce(check, num)), 0)
      root == IF isRoot THEN x ELSE curve25519_mul(x, Small(ge25519_sqrtneg1))
      negative == IF curve25519_contract(root) % 2 = string \div TOP
                    THEN curve25519_neg(root) ELSE root
  IN  IF isRoot \/ isOther
        THEN <<[x |-> negative, y |-> y, z |-> One, t |-> curve25519_mul(negative, y)]>>
        ELSE <<>>

(***************************************************************************)
(* Multiples.                                                              *)
(***************************************************************************)
S1_SWINDOWSIZE == 5
S1_TABLE_SIZE == 2 ^ (S1_SWINDOWSIZE - 2)
S2_SWINDOWSIZE == 7

Extended(P) ==
  [x |-> Small(P[1]), y |-> Small(P[2]), z |-> One, t |-> Small(Times(P[1], P[2]))]

Neutral == [x |-> Small(0), y |-> One, z |-> One, t |-> Small(0)]

Magnitude(n) == IF n < 0 THEN -n ELSE n
SignBit(n) == IF n < 0 THEN 1 ELSE 0

\* s1 * q + s2 * basepoint: the digits of both from the first that is not zero down.
ge25519_double_scalarmult_vartime(q, s1, s2) ==
  LET slide1 == contract256_slidingwindow_modm(s1, S1_SWINDOWSIZE)
      slide2 == contract256_slidingwindow_modm(s2, S2_SWINDOWSIZE)
      d1 == ge25519_double(q)
      pre1[i \in 0 .. S1_TABLE_SIZE - 1] ==
        IF i = 0 THEN ge25519_full_to_pniels(q) ELSE ge25519_pnielsadd(d1, pre1[i - 1])
      used == {i \in DOMAIN slide1 : slide1[i] # 0 \/ slide2[i] # 0}
      add1(t, n) ==
        IF n = 0 THEN t
        ELSE ge25519_pnielsadd_p1p1(ge25519_p1p1_to_full(t), pre1[Magnitude(n) \div 2], SignBit(n))
      add2(t, n) ==
        IF n = 0 THEN t
        ELSE ge25519_nielsadd2_p1p1(ge25519_p1p1_to_full(t),
               ge25519_niels_sliding_multiples[Magnitude(n) \div 2], SignBit(n))
      f[i \in 0 .. Len(slide1), r \in Points] ==
        IF i = 0 THEN r
        ELSE f[i - 1, ge25519_p1p1_to_partial(
                        add2(add1(ge25519_double_p1p1(r), slide1[i]), slide2[i]))]
  IN  f[IF used = {} THEN 0 ELSE CHOOSE i \in used : \A j \in used : j <= i, Neutral]

ge25519_windowb_equal(b, c) == IF b = c THEN 1 ELSE 0

\* Entry |b| of a row of the table, by looking at all of them; 0 is no entry.
ge25519_scalarmult_base_choose_niels(pos, b) ==
  LET packed[i \in 0 .. 8] ==
        IF i = 0 THEN <<1, 1, 0>>
        ELSE curve25519_move_conditional_bytes(packed[i - 1],
               ge25519_niels_base_multiples[pos * 8 + i - 1],
               ge25519_windowb_equal(Magnitude(b), i))
      chosen == packed[8]
      front == curve25519_swap_conditional(curve25519_expand(chosen[1]),
                                           curve25519_expand(chosen[2]), SignBit(b))
      t2d == curve25519_expand(chosen[3])
  IN  [ysubx |-> front[1], xaddy |-> front[2],
       t2d |-> curve25519_swap_conditional(t2d, curve25519_neg(t2d), SignBit(b))[1]]

\* The odd digits, four doubles, and the even digits.  The first row holds 2xy where
\* the others hold 2dxy, which is the t of the first point.
ge25519_scalarmult_base_niels(s) ==
  LET b == contract256_window4_modm(s)
      entry(i) == ge25519_scalarmult_base_choose_niels(i \div 2, b[i + 1])
      first == entry(1)
      r0 == [x |-> curve25519_sub_reduce(first.xaddy, first.ysubx),
             y |-> curve25519_add_reduce(first.xaddy, first.ysubx),
             z |-> Two, t |-> first.t2d]
      add[i \in Nat, r \in Points] ==
        IF i >= Len(b) THEN r ELSE add[i + 2, ge25519_nielsadd2(r, entry(i))]
      odd == add[3, r0]
      doubled == ge25519_double(ge25519_double_partial(
                   ge25519_double_partial(ge25519_double_partial(odd))))
      zeroth == entry(0)
      even == ge25519_nielsadd2(doubled,
                [zeroth EXCEPT !.t2d = curve25519_mul(@, Small(ge25519_ecd))])
  IN  add[2, even]
=============================================================================
