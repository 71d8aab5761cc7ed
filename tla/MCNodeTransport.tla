-------------------------- MODULE MCNodeTransport --------------------------
(***************************************************************************)
(* NodeTransport on a small instance: batches of up to two entries, one of *)
(* them with two receivers.                                                *)
(***************************************************************************)
EXTENDS NodeTransport

CONSTANTS e1, e2, m1, m2

MCEntry1 == [endPoints |-> <<e1, e2>>, message |-> m1]
MCEntry2 == [endPoints |-> <<e2>>, message |-> m2]
MCBatches == {<<>>, <<MCEntry1>>, <<MCEntry2>>, <<MCEntry2, MCEntry1>>}
============================================================================
