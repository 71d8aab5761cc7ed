------------------------------ MODULE Edwards -------------------------------
(***************************************************************************)
(* The group the signatures are made in, by its definition: the points     *)
(* <<x, y>> of -x^2 + y^2 = 1 + d x^2 y^2, added by fractions.             *)
(***************************************************************************)
EXTENDS FieldPromise

CONSTANT d

NeutralPoint == <<0, 1>>

OnCurve(P) ==
  LET xx == Times(P[1], P[1])
      yy == Times(P[2], P[2])
  IN  (yy + p - xx) % p = (1 + Times(d, Times(xx, yy))) % p

Over(a, b) == Times(a, Power(b, p - 2))

PlusPoint(P, Q) ==
  LET k == Times(d, Times(Times(P[1], Q[1]), Times(P[2], Q[2])))
  IN  <<Over(Times(P[1], Q[2]) + Times(P[2], Q[1]), (1 + k) % p),
        Over(Times(P[2], Q[2]) + Times(P[1], Q[1]), (1 + p - k) % p)>>

MinusPoint(P) == <<(p - P[1]) % p, P[2]>>

\* n * P, n not negative.
TimesPoint(n, P) ==
  LET f[i \in 0 .. 31] ==
        IF n \div 2 ^ i = 0 THEN NeutralPoint
        ELSE LET rest == f[i + 1]
                 doubled == PlusPoint(rest, rest)
             IN  IF (n \div 2 ^ i) % 2 = 1 THEN PlusPoint(doubled, P) ELSE doubled
  IN  f[0]

\* A point as a string: y, and above its bits whether x is odd.
StringOf(P, top) == P[2] + top * (P[1] % 2)

\* The square of the x of a string's point, and whether it has a root.
SquareX(string, top) ==
  LET y == (string % top) % p
      yy == Times(y, y)
  IN  Over((yy + p - 1) % p, (1 + Times(d, yy)) % p)

HasPoint(string, top) == Power(SquareX(string, top), (p - 1) \div 2) \in {0, 1}

\* The point of a string that has one.
PointOf(string, top) ==
  LET xx == SquareX(string, top)
      y == (string % top) % p
      roots == {x \in 0 .. p - 1 : Times(x, x) = xx}
      parity == string \div top
  IN  <<CHOOSE x \in roots : x % 2 = parity \/ x = 0, y>>
=============================================================================
