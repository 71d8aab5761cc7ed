--------------------------- MODULE GroupRegisters ---------------------------
(***************************************************************************)
(* A register on which the functions on points are used one after the      *)
(* other, and beside it the point it should be, by the definition of the   *)
(* group.                                                                  *)
(***************************************************************************)
EXTENDS Ge25519, Edwards

CONSTANTS
  basepoint,
  expand_raw256_modm(_),  \* a scalar from the sequence of its bytes
  Strings,  \* strings that may or may not be of a point
  Scalars,  \* scalars, as sequences of bytes
  ValueOf(_),  \* the number a sequence of bytes spells
  MaxOps    \* bound on the functions called one after the other

VARIABLES reg, ops

\* A register: a point, and what the code makes of it; "partial" when t is not there.
Is(kind, at, is) == reg' = [kind |-> kind, at |-> at, is |-> is]

Identity == [kind |-> "full", at |-> Extended(NeutralPoint), is |-> NeutralPoint]

Full == reg.kind = "full"

\* A point from a string, or the answer that there is none.
Load == \E string \in Strings :
  LET answer == ge25519_unpack_negative_vartime(string)
  IN  IF answer = <<>> THEN Is("refused", <<>>, string)
      ELSE Is("unpacked", answer[1], string)

\* An unpacked point is put to use.
Use ==
  /\ reg.kind = "unpacked"
  /\ Is("full", reg.at, MinusPoint(PointOf(reg.is, TOP)))

Double == reg.kind \in {"full", "partial"} /\
  Is("full", ge25519_double(reg.at), PlusPoint(reg.is, reg.is))

DoublePartial == reg.kind \in {"full", "partial"} /\
  Is("partial", ge25519_double_partial(reg.at), PlusPoint(reg.is, reg.is))

\* The second operands: the register, the base point.
Others == {reg, [kind |-> "full", at |-> Extended(basepoint), is |-> basepoint]}

Add == Full /\ \E o \in Others :
  Is("full", ge25519_add(reg.at, o.at), PlusPoint(reg.is, o.is))

Signed(P, sign) == IF sign = 1 THEN MinusPoint(P) ELSE P

AddOther == Full /\ \E o \in Others, sign \in {0, 1} :
  Is("full",
     ge25519_p1p1_to_full(ge25519_pnielsadd_p1p1(reg.at, ge25519_full_to_pniels(o.at), sign)),
     PlusPoint(reg.is, Signed(o.is, sign)))

\* A pniels that is a sum.
AddSum == Full /\ \E o \in Others, sign \in {0, 1} :
  LET sum == ge25519_pnielsadd(o.at, ge25519_full_to_pniels(reg.at))
  IN  Is("partial",
         ge25519_p1p1_to_partial(ge25519_pnielsadd_p1p1(reg.at, sum, sign)),
         PlusPoint(reg.is, Signed(PlusPoint(reg.is, o.is), sign)))

\* An entry of the table of odd multiples.
AddMultiple == Full /\ \E i \in {0, 31}, sign \in {0, 1} :
  Is("full",
     ge25519_p1p1_to_full(
       ge25519_nielsadd2_p1p1(reg.at, ge25519_niels_sliding_multiples[i], sign)),
     PlusPoint(reg.is, Signed(TimesPoint(2 * i + 1, basepoint), sign)))

BaseMultiple == \E s \in Scalars :
  Is("full", ge25519_scalarmult_base_niels(expand_raw256_modm(s)),
     TimesPoint(ValueOf(s), basepoint))

DoubleMultiple == Full /\ \E s1, s2 \in Scalars :
  Is("partial",
     ge25519_double_scalarmult_vartime(reg.at, expand_raw256_modm(s1), expand_raw256_modm(s2)),
     PlusPoint(TimesPoint(ValueOf(s1), reg.is), TimesPoint(ValueOf(s2), basepoint)))

Next ==
  /\ ops < MaxOps /\ ops' = ops + 1
  /\ \/ Load \/ Use \/ Double \/ DoublePartial \/ Add \/ AddOther \/ AddSum \/ AddMultiple
     \/ BaseMultiple \/ DoubleMultiple

(***************************************************************************)
(* The register stands for its point and its limbs are reduced, the string *)
(* of a point is the one the definition gives, and a string is refused     *)
(* when no point has it.                                                   *)
(***************************************************************************)
StandsFor(at, P) ==
  /\ at.z.num # 0
  /\ at.x.num = Times(P[1], at.z.num)
  /\ at.y.num = Times(P[2], at.z.num)
  /\ \A n \in {at.x, at.y, at.z} : n.width = "reduced"

Exact ==
  CASE reg.kind = "refused" -> ~HasPoint(reg.is, TOP)
    [] reg.kind = "unpacked" ->
         /\ HasPoint(reg.is, TOP)
         /\ StandsFor(reg.at, MinusPoint(PointOf(reg.is, TOP)))
    [] OTHER ->
         /\ StandsFor(reg.at, reg.is)
         /\ ge25519_pack(reg.at) = StringOf(reg.is, TOP)
         /\ reg.kind = "full" =>
              /\ Times(reg.at.z.num, reg.at.t.num) = Times(reg.at.x.num, reg.at.y.num)
              /\ reg.at.t.width = "reduced"
=============================================================================
