--------------------------- MODULE SignedMessages ---------------------------
(***************************************************************************)
(* Accounts that sign, and one that opens what they signed: as it was, or  *)
(* with a part of it exchanged.  SecretKey.swift derives the public key    *)
(* and signs with both, AccountAddress.swift opens.                        *)
(***************************************************************************)
EXTENDS Ed25519, Edwards, TLC

CONSTANTS
  basepoint,
  m,            \* its order
  SecretKeys, Messages,
  OtherStrings, \* strings put in the place of a public key or an R
  NumberOf(_)   \* the number modulo m that a sequence of bytes spells

VARIABLES reg, ops

Nothing == [kind |-> "nothing"]

Value(bytes) ==
  LET f[i \in 1 .. Len(bytes) + 1] == IF i > Len(bytes) THEN 0 ELSE f[i + 1] * BYTE + bytes[i]
  IN  f[1]

Bytes(n) == [i \in 1 .. k |-> (n \div BYTE ^ (i - 1)) % BYTE]

Sign == \E sk \in SecretKeys, message \in Messages :
  LET pk == ed25519_publickey(sk)
  IN  /\ reg.kind = "nothing"
      /\ reg' = [kind |-> "signed", sk |-> sk, message |-> message, pk |-> pk,
                 RS |-> ed25519_sign(message, sk, pk), whole |-> TRUE]

Exchange ==
  /\ reg.kind = "signed" /\ reg.whole
  /\ \/ \E message \in Messages \ {reg.message} :
          reg' = [reg EXCEPT !.message = message, !.whole = FALSE]
     \/ \E string \in OtherStrings :
          \/ reg' = [reg EXCEPT !.pk = string, !.whole = (string = reg.pk)]
          \/ reg' = [reg EXCEPT !.RS.R = string, !.whole = (string = reg.RS.R)]
     \/ \E n \in 1 .. 3 : reg' = [reg EXCEPT !.RS.S = Bytes(Value(@) + n * m), !.whole = FALSE]
     \/ \E j \in 1 .. k :
          reg' = [reg EXCEPT !.RS.S[j] = (@ + 1) % BYTE, !.whole = FALSE]

Open ==
  /\ reg.kind = "signed"
  /\ reg' = [reg EXCEPT !.kind = "opened"]
            @@ [answer |-> ed25519_sign_open(reg.message, reg.pk, reg.RS)]

\* A key for the exchange of keys.
ExchangeKey == \E sk \in SecretKeys :
  /\ reg.kind = "nothing"
  /\ reg' = [kind |-> "key", e |-> sk, answer |-> curved25519_scalarmult_basepoint(sk)]

Next == UNCHANGED ops /\ (Sign \/ Exchange \/ Open \/ ExchangeKey)

(***************************************************************************)
(* What was signed opens; anything opens only if R = SB - H(R,A,m)A by the *)
(* definition of the group, S within its bits; and the key for exchange is *)
(* u of a multiple of the cofactor.                                        *)
(***************************************************************************)
Valid(message, pk, RS) ==
  /\ Value(RS.S) < BYTE ^ k \div 8
  /\ HasPoint(pk, TOP)
  /\ LET A == PointOf(pk, TOP)
         hA == TimesPoint(NumberOf(ed25519_hram(RS.R, pk, message)), A)
     IN  RS.R = StringOf(PlusPoint(TimesPoint(NumberOf(RS.S), basepoint), MinusPoint(hA)), TOP)

Exact ==
  CASE reg.kind = "opened" ->
         /\ reg.whole => reg.answer = 0
         /\ reg.answer = (IF Valid(reg.message, reg.pk, reg.RS) THEN 0 ELSE -1)
    [] reg.kind = "key" ->
         LET e == (((Value(reg.e) \div 8) * 8) % (BYTE ^ k \div 4)) + BYTE ^ k \div 4
             y == TimesPoint(e, basepoint)[2]
         IN  reg.answer = Over((1 + y) % p, (1 + p - y) % p)
    [] OTHER -> TRUE
=============================================================================
