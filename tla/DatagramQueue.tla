--------------------------- MODULE DatagramQueue ---------------------------
(***************************************************************************)
(* What the sending side of a node promises: a FIFO queue of datagrams     *)
(* that puts them on the wire one at a time, each once and in order, and   *)
(* that loses queued datagrams only by going down as a whole.              *)
(***************************************************************************)
EXTENDS Naturals, Sequences

VARIABLES
  up,        \* whether the queue accepts and transmits
  pending,   \* the datagrams accepted and not yet transmitted
  wire       \* the datagrams transmitted so far

qvars == <<up, pending, wire>>

Init == up = FALSE /\ pending = <<>> /\ wire = <<>>

\* Any number of datagrams are added behind those pending.

Enqueue ==
  /\ up /\ up'
  /\ Len(pending') > Len(pending)
  /\ SubSeq(pending', 1, Len(pending)) = pending
  /\ UNCHANGED wire

Transmit ==
  /\ up
  /\ pending # <<>>
  /\ wire' = Append(wire, Head(pending))
  /\ pending' = Tail(pending)
  /\ UNCHANGED up

GoUp == ~up /\ up' = TRUE /\ UNCHANGED <<pending, wire>>

GoDown == up /\ up' = FALSE /\ pending' = <<>> /\ UNCHANGED wire

Next == Enqueue \/ Transmit \/ GoUp \/ GoDown

Spec == Init /\ [][Next]_qvars

\* The queue does not sit for ever on what it has accepted.

Progress == WF_qvars(Transmit \/ (pending # <<>> /\ GoDown))
============================================================================
