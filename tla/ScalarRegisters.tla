-------------------------- MODULE ScalarRegisters ---------------------------
(***************************************************************************)
(* What the callers of the scalar functions rely on, whichever header      *)
(* defines them: a register on which the functions are used one after the  *)
(* other, and beside it the number modulo m it should hold.                *)
(***************************************************************************)
EXTENDS Integers, Sequences, Functions

CONSTANTS
  expand256_modm(_), add256_modm(_, _), mul256_modm(_, _), contract256_modm(_),
  contract256_window4_modm(_), contract256_slidingwindow_modm(_, _),
  sub256_modm_batch(_, _, _, _), lt256_modm_batch(_, _, _), lte256_modm_batch(_, _, _),
  iszero256_modm_batch(_), isone256_modm_batch(_), isatmost128bits256_modm_batch(_),
  m, w, k, BPL, SIZE, QUAD, HALF,
  Strings,  \* strings of up to 2k bytes that are brought in
  MaxOps    \* bound on the functions called one after the other

VARIABLES reg, other, ops

vars == <<reg, other, ops>>

\* The number a string spells, modulo m.
Number(in) ==
  LET f[j \in 1 .. Len(in) + 1] ==
        IF j > Len(in) THEN 0 ELSE (f[j + 1] * 2 ^ w + in[j]) % m
  IN  f[1]

\* a * b modulo m, a byte of b at a time.
Times(a, b) ==
  LET f[j \in 0 .. k] ==
        IF j = k THEN 0
        ELSE (f[j + 1] * 2 ^ w + a * ((b \div 2 ^ (w * j)) % 2 ^ w)) % m
  IN  IF a = 0 \/ b = 0 THEN 0 ELSE f[0]

Read(in) == [x |-> expand256_modm(in), num |-> Number(in)]

Zero == [x |-> [i \in 0 .. SIZE - 1 |-> 0], num |-> 0]

Init == ops = 0 /\ reg = Zero /\ other = Zero

\* A string is read into the register, whose scalar becomes the other operand.
Load == \E in \in Strings : reg' = Read(in) /\ other' = reg

Add == reg' = [x |-> add256_modm(reg.x, other.x), num |-> (reg.num + other.num) % m]

Mul == reg' = [x |-> mul256_modm(reg.x, other.x), num |-> Times(reg.num, other.num)]

\* The smaller scalar is taken off the larger one, over all limbs.
Sub ==
  /\ lte256_modm_batch(other.x, reg.x, SIZE - 1)
  /\ reg' = [x |-> sub256_modm_batch(reg.x, reg.x, other.x, SIZE - 1),
             num |-> reg.num - other.num]

\* Written out as a string and read again.
Copy == reg' = [x |-> expand256_modm(contract256_modm(reg.x)), num |-> reg.num]

Next ==
  /\ ops < MaxOps /\ ops' = ops + 1
  /\ \/ Load
     \/ (Add \/ Mul \/ Sub \/ Copy) /\ UNCHANGED other

(***************************************************************************)
(* The scalar is right and the smallest one; the digits the points are     *)
(* multiplied by add up to it and have entries in the tables; comparisons  *)
(* compare numbers, over as many limbs as the numbers use.                 *)
(***************************************************************************)
Limbs(n) == [i \in 0 .. SIZE - 1 |-> (n \div 2 ^ (BPL * i)) % 2 ^ BPL]

QuadsExact ==
  LET r == contract256_window4_modm(reg.x)
  IN  /\ SumFunction([i \in DOMAIN r |-> r[i] * 2 ^ (QUAD * (i - 1))]) = reg.num
      /\ \A i \in DOMAIN r : r[i] \in -2 ^ (QUAD - 1) .. 2 ^ (QUAD - 1)

WindowExact(windowsize) ==
  LET r == contract256_slidingwindow_modm(reg.x, windowsize)
      limit == 2 ^ (windowsize - 1) - 1
  IN  /\ SumFunction([i \in DOMAIN r |-> r[i] * 2 ^ (i - 1)]) = reg.num
      /\ \A i \in DOMAIN r : r[i] # 0 => r[i] % 2 = 1 /\ r[i] \in -limit .. limit

ComparisonsExact ==
  \A limbsize \in 0 .. SIZE - 1 :
    LET bound == 2 ^ (BPL * (limbsize + 1))
    IN  reg.num < bound /\ other.num < bound =>
          /\ lt256_modm_batch(reg.x, other.x, limbsize) = (reg.num < other.num)
          /\ lte256_modm_batch(reg.x, other.x, limbsize) = (reg.num <= other.num)

Exact ==
  /\ reg.x = Limbs(reg.num)
  /\ QuadsExact /\ WindowExact(5) /\ WindowExact(7) /\ ComparisonsExact
  /\ iszero256_modm_batch(reg.x) = (reg.num = 0)
  /\ isone256_modm_batch(reg.x) = (reg.num = 1)
  /\ isatmost128bits256_modm_batch(reg.x) = (reg.num < 2 ^ HALF)
=============================================================================
