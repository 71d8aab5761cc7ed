-------------------------- MODULE MCTCPConnection --------------------------
(***************************************************************************)
(* TCPConnection with most of the traffic in one direction, so that a      *)
(* buffer fills, and enough in the other for both slots of an end to be in *)
(* use at once.                                                            *)
(***************************************************************************)
EXTENDS TCPConnection

MCMaxBytes == [client |-> 3, server |-> 1]

============================================================================
