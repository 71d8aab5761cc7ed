--------------------------- MODULE NodeTransport ---------------------------
(***************************************************************************)
(* The part of a node that keeps it talking: NodeImpl's life cycle         *)
(* (RaiBlocksNode/NodeImpl.swift) around one UDPSocket at a time, a        *)
(* MessageSender that feeds the socket's send slot from a bounded FIFO     *)
(* buffer, a MessageReceiver that keeps the receive slot filled, and the   *)
(* PeerManager and InitialPeerResolver as the sources of messages.         *)
(*                                                                         *)
(* Every handler runs to its end on the node's serial queue, so an action  *)
(* is a whole handler with all the calls it makes.  When the transport     *)
(* fails, NodeImpl throws all of it away and builds it anew after the      *)
(* recovery interval; the variables below describe the current             *)
(* incarnation, whose objects terminate() leaves empty and unreachable.    *)
(*                                                                         *)
(* trapped is set when a precondition fails or a nil is unwrapped: the     *)
(* process dies there.                                                     *)
(***************************************************************************)
EXTENDS UDPSocket, Naturals, Sequences, SequencesExt

CONSTANTS
  Batches,       \* the message lists a PeerManager handler may send in a row
  BufferSize,    \* Config.sendingBufferSize
  MaxOffered,    \* bound: messages offered to the sender in one behaviour
  MaxFaults      \* bound: transport faults (kernel errors, failed starts)

Entry == [endPoints : Seq(EndPoint) \ {<<>>}, message : Message]

ASSUME BatchesAssumption == Batches \subseteq Seq(Entry)
ASSUME BufferSizeAssumption == BufferSize \in Nat
ASSUME BoundsAssumption == MaxOffered \in Nat /\ MaxFaults \in Nat

VARIABLES
  buffer,         \* MessageSender.buffer
  endPointIndex,  \* MessageSender.endPointIndex
  sending,        \* MessageSender.sending
  peerManager,    \* NodeImpl.peerManager # nil
  resolving,      \* PeerManager.initialPeerResolver # nil
  refreshTimer,   \* NodeImpl.refreshTimer # nil
  recoveryTimer,  \* NodeImpl.recoveryTimer # nil
  terminated,     \* NodeImpl.terminated
  wire,           \* history: the datagrams the kernel took, in order
  trapped,        \* a precondition failed
  offered,        \* counted against MaxOffered
  faults          \* counted against MaxFaults

senderVars == <<buffer, endPointIndex, sending>>
nodeVars == <<peerManager, resolving, refreshTimer, recoveryTimer, terminated>>
vars == <<udpVars, senderVars, nodeVars, wire, trapped, offered, faults>>

----------------------------------------------------------------------------
Init ==
  /\ UDPInit
  /\ buffer = <<>> /\ endPointIndex = 0 /\ sending = FALSE
  /\ peerManager = FALSE /\ resolving = FALSE
  /\ refreshTimer = FALSE /\ recoveryTimer = FALSE
  /\ terminated = FALSE
  /\ wire = <<>>
  /\ trapped = FALSE
  /\ offered = 0 /\ faults = 0

\* A precondition failure: nothing but the trap is observed.

Trap ==
  /\ trapped' = TRUE
  /\ UNCHANGED <<udpVars, senderVars, nodeVars, wire, offered, faults>>

----------------------------------------------------------------------------
(*                            MessageSender                                *)

\* The datagram update() hands to the socket from buffer b and index i.

Current(b, i) == [endPoint |-> Head(b).endPoints[i + 1], message |-> Head(b).message]

\* send(endPoints:message:) for each entry of a batch: what does not fit is discarded.
\* (AcceptedOneMore is a faulty variant: the capacity test is off by one.)

AcceptedOneMore(b, batch) ==
  LET room == BufferSize + 1 - Len(b)
  IN  b \o SubSeq(batch, 1, IF Len(batch) < room THEN Len(batch) ELSE room)

Accepted(b, batch) ==
  LET room == BufferSize - Len(b)
  IN  b \o SubSeq(batch, 1, IF Len(batch) < room THEN Len(batch) ELSE room)

\* update() with nothing in flight, the buffer being b and the index i.

Update(b, i) ==
  /\ buffer' = b
  /\ endPointIndex' = i
  /\ IF b = <<>>
       THEN sending' = FALSE /\ EndSend
       ELSE sending' = TRUE /\ Send(Current(b, i))

(***************************************************************************)
(* A run of MessageSender.send calls made by one handler.  Only the first  *)
(* accepted entry can reach the socket, and only when nothing is in        *)
(* flight; socket.send then has its preconditions.                         *)
(***************************************************************************)
SendBatch(batch) ==
  LET b == Accepted(buffer, batch)
  IN  /\ offered + Len(batch) <= MaxOffered
      /\ offered' = offered + Len(batch)
      /\ IF sending \/ b = <<>>
           THEN /\ buffer' = b
                /\ UNCHANGED <<endPointIndex, sending, sendSide, trapped>>
           ELSE /\ Update(b, endPointIndex)
                /\ trapped' = (trapped \/ ~CanSend)

\* The success handler of MessageSender.update: next end point, or next entry.
\* (Faulty variants: the handler forgets to call update(), or takes an entry
\* for done after its first end point.)

AdvanceAndStop ==
  /\ IF endPointIndex + 1 = Len(Head(buffer).endPoints)
       THEN buffer' = Tail(buffer) /\ endPointIndex' = 0
       ELSE buffer' = buffer /\ endPointIndex' = endPointIndex + 1
  /\ sending' = FALSE
  /\ EndSend

AdvanceByEntry == Update(Tail(buffer), 0)

Advance ==
  IF endPointIndex + 1 = Len(Head(buffer).endPoints)
    THEN Update(Tail(buffer), 0)
    ELSE Update(buffer, endPointIndex + 1)

----------------------------------------------------------------------------
(*                              NodeImpl                                   *)

\* PeerManager.terminate, which ends its resolver, receiver and sender.

TerminatePeerManager ==
  /\ peerManager' = FALSE
  /\ resolving' = FALSE
  /\ buffer' = <<>>
  /\ endPointIndex' = 0
  /\ sending' = FALSE

\* reset() but for the socket, and for the recovery timer its callers set or clear.

Discard ==
  /\ TerminatePeerManager
  /\ refreshTimer' = FALSE

Reset == Discard /\ Close

(***************************************************************************)
(* An error reported by the socket, which UDPSocket.postError has closed.  *)
(* The sender's or receiver's error handler passes it on unless it was     *)
(* terminated, and startRecovery() acts once only until its timer fires.   *)
(***************************************************************************)
Recover(stillSending) ==
  /\ Close
  /\ IF ~peerManager \/ recoveryTimer
       THEN /\ sending' = stillSending
            /\ UNCHANGED <<buffer, endPointIndex, peerManager, resolving,
                           refreshTimer, recoveryTimer>>
       ELSE Discard /\ recoveryTimer' = TRUE

(***************************************************************************)
(* start() with a socket that opens: a new PeerManager, whose receiver     *)
(* issues its first receive, then the first refresh().  A fresh peer map   *)
(* is empty, so that refresh starts the initial peer resolver.             *)
(***************************************************************************)
Start ==
  /\ Open
  /\ Receive
  /\ Update(<<>>, 0)
  /\ peerManager' = TRUE
  /\ resolving' = TRUE
  /\ refreshTimer' = TRUE
  /\ recoveryTimer' = FALSE
  /\ UNCHANGED <<terminated, wire, trapped, offered, faults>>

\* Node.start, called by Node.main; if it throws, the process exits.

Boot == state = "inited" /\ Start

\* The recovery timer fires and the socket opens ...

Restart == recoveryTimer /\ ~terminated /\ Start

\* ... or it does not, and startRecovery closes what start() left behind.
\* (Faulty variant: the spent timer is not cleared, so no new one is made.)

RestartFailsForGood ==
  /\ recoveryTimer /\ ~terminated
  /\ faults < MaxFaults
  /\ faults' = faults + 1
  /\ Reset
  /\ recoveryTimer' = FALSE
  /\ UNCHANGED <<terminated, wire, trapped, offered>>

RestartFails ==
  /\ recoveryTimer /\ ~terminated
  /\ faults < MaxFaults
  /\ faults' = faults + 1
  /\ Reset
  /\ recoveryTimer' = TRUE
  /\ UNCHANGED <<terminated, wire, trapped, offered>>

(***************************************************************************)
(* The refresh timer fires: PeerManager.refresh either finds its peer map  *)
(* empty and replaces the resolver, or sends keepalives; then the timer is *)
(* set again.  peerManager is unwrapped.                                   *)
(***************************************************************************)
Refresh ==
  /\ refreshTimer /\ ~terminated
  /\ IF ~peerManager
       THEN Trap
       ELSE /\ \/ /\ resolving' = TRUE
                  /\ UNCHANGED <<senderVars, sendSide, trapped, offered>>
               \/ /\ \E batch \in Batches : SendBatch(batch)
                  /\ UNCHANGED resolving
            /\ refreshTimer' = TRUE
            /\ UNCHANGED <<lifeCycle, receiveSide, peerManager, recoveryTimer,
                           terminated, wire, faults>>

\* terminate() by the owner of the node.
\* (Faulty variant: the socket is left open.)

TerminateKeepsSocket ==
  /\ state # "inited" /\ ~terminated
  /\ Discard
  /\ recoveryTimer' = FALSE
  /\ terminated' = TRUE
  /\ UNCHANGED <<udpVars, wire, trapped, offered, faults>>

Terminate ==
  /\ state # "inited" /\ ~terminated
  /\ Reset
  /\ recoveryTimer' = FALSE
  /\ terminated' = TRUE
  /\ UNCHANGED <<wire, trapped, offered, faults>>

----------------------------------------------------------------------------
(*               The initial peer resolver's callbacks                     *)

(***************************************************************************)
(* A host name was resolved: handleNotifiedEndPoints unwraps the socket's  *)
(* protocol family and sends keepalives to the new peers.  After the last  *)
(* name the resolver is dropped.                                           *)
(***************************************************************************)
PeersResolved ==
  /\ resolving
  /\ IF socket # "live"
       THEN Trap
       ELSE /\ \E batch \in Batches : SendBatch(batch)
            /\ resolving' \in BOOLEAN
            /\ UNCHANGED <<lifeCycle, receiveSide, peerManager, refreshTimer,
                           recoveryTimer, terminated, wire, faults>>

----------------------------------------------------------------------------
(*                 Write and read events of the socket                     *)

(***************************************************************************)
(* sendto took the datagram: the task is dropped and the sender's success  *)
(* handler goes on with the next one, unless the sender was terminated.    *)
(***************************************************************************)
SendSucceeds ==
  /\ WriteEventDue /\ HandlerRuns
  /\ IF sendTask = None
       THEN Trap
       ELSE /\ wire' = Append(wire, sendTask)
            /\ IF peerManager THEN Advance ELSE EndSend /\ UNCHANGED senderVars
            /\ UNCHANGED <<lifeCycle, receiveSide, nodeVars, trapped, offered, faults>>

\* sendto or recvfrom failed.

SendFails ==
  /\ WriteEventDue /\ HandlerRuns
  /\ sendTask # None
  /\ faults < MaxFaults
  /\ faults' = faults + 1
  /\ Recover(FALSE)
  /\ UNCHANGED <<terminated, wire, trapped, offered>>

ReceiveFails ==
  /\ ReadEventDue /\ HandlerRuns
  /\ receiveTask
  /\ faults < MaxFaults
  /\ faults' = faults + 1
  /\ Recover(sending)
  /\ UNCHANGED <<terminated, wire, trapped, offered>>

(***************************************************************************)
(* recvfrom returned a datagram.  A message is handled, and may make the   *)
(* PeerManager send; one that cannot be read is dropped.  Either way the   *)
(* receiver receives again before the handler ends.                        *)
(* (Faulty variant: an unreadable datagram ends the chain of receives.)    *)
(***************************************************************************)
ReceiveSucceedsOnce ==
  /\ ReadEventDue /\ HandlerRuns
  /\ receiveTask /\ peerManager
  /\ \/ (\E batch \in Batches : SendBatch(batch)) /\ Receive
     \/ EndReceive /\ UNCHANGED <<senderVars, sendSide, trapped, offered>>
  /\ UNCHANGED <<lifeCycle, nodeVars, wire, faults>>

ReceiveSucceeds ==
  /\ ReadEventDue /\ HandlerRuns
  /\ IF ~receiveTask
       THEN Trap
       ELSE /\ IF peerManager
                 THEN (\E batch \in Batches : SendBatch(batch)) /\ Receive
                 ELSE EndReceive /\ UNCHANGED <<senderVars, sendSide, trapped, offered>>
            /\ UNCHANGED <<lifeCycle, nodeVars, wire, faults>>

\* EAGAIN re-arms the source; a handler of a closed DispatchSocket returns.

SpuriousEvent ==
  /\ WriteEventDue \/ ReadEventDue
  /\ UNCHANGED vars

----------------------------------------------------------------------------
Next ==
  \/ Boot
  \/ Restart
  \/ RestartFails
  \/ Refresh
  \/ Terminate
  \/ PeersResolved
  \/ SendSucceeds
  \/ SendFails
  \/ ReceiveFails
  \/ ReceiveSucceeds
  \/ SpuriousEvent

(***************************************************************************)
(* A writable socket eventually takes a datagram, and timers fire.  Faults *)
(* are bounded by MaxFaults, so a restart eventually succeeds.             *)
(***************************************************************************)
Fairness ==
  /\ WF_vars(SendSucceeds)
  /\ WF_vars(Restart \/ RestartFails)

Spec == Init /\ [][Next]_vars
FairSpec == Spec /\ Fairness

----------------------------------------------------------------------------
(*                              Properties                                 *)

\* Types; the buffer never outgrows its configured size.

TypeOK ==
  /\ UDPTypeOK
  /\ buffer \in Seq(Entry) /\ Len(buffer) <= BufferSize
  /\ endPointIndex \in Nat
  /\ sending \in BOOLEAN
  /\ peerManager \in BOOLEAN /\ resolving \in BOOLEAN
  /\ refreshTimer \in BOOLEAN /\ recoveryTimer \in BOOLEAN
  /\ terminated \in BOOLEAN
  /\ wire \in Seq(Datagram)
  /\ trapped \in BOOLEAN
  /\ offered \in Nat /\ faults \in Nat

(***************************************************************************)
(* No handler ever meets a failed precondition of UDPSocket or of          *)
(* DispatchSocket, or unwraps a nil task, socket or PeerManager, whatever  *)
(* the order of events, failures, timers and termination.                  *)
(***************************************************************************)
NeverTrapped == ~trapped

(***************************************************************************)
(* A started node always has something left that will wake it: while it    *)
(* has a PeerManager its socket is open and listening and the refresh      *)
(* timer is set; while it has none, and was not terminated, the recovery   *)
(* timer is set.  A socket that failed without the node being told, or a   *)
(* receiver that forgot to receive again, would leave it deaf.             *)
(***************************************************************************)
NeverStranded ==
  /\ peerManager => /\ state = "opened" /\ socket = "live"
                    /\ receiveTask /\ ~readSuspended
                    /\ refreshTimer /\ ~recoveryTimer
  /\ state # "inited" /\ ~peerManager /\ ~terminated => recoveryTimer
  /\ terminated => ~peerManager /\ ~recoveryTimer

(***************************************************************************)
(* The sender and the socket agree on what is in flight: the buffer is not *)
(* empty exactly when the socket holds the datagram at its front, on a     *)
(* write source that will fire.  If they disagreed, messages would wait in *)
(* the buffer for ever, or socket.send would be called twice.              *)
(***************************************************************************)
SenderInSync ==
  /\ sending <=> buffer # <<>>
  /\ sending <=> sendTask # None
  /\ sending => /\ endPointIndex < Len(Head(buffer).endPoints)
                /\ sendTask = Current(buffer, endPointIndex)
  /\ ~sending => endPointIndex = 0
  /\ socket = "live" => (writeSuspended <=> ~sending)

(***************************************************************************)
(* After terminate() nothing more is transmitted and nothing starts again. *)
(***************************************************************************)
QuietWhenTerminated ==
  [][terminated => wire' = wire /\ ~peerManager' /\ socket' # "live"]_vars

(***************************************************************************)
(* A node whose transport failed gets a working one again, or is           *)
(* terminated first.                                                       *)
(***************************************************************************)
Recovers == recoveryTimer ~> (peerManager \/ terminated)

----------------------------------------------------------------------------
(*                 The queue that the sender implements                    *)

\* The datagrams the sender still owes, in the order in which it sends them.

Datagrams(entry) ==
  [i \in 1..Len(entry.endPoints) |->
     [endPoint |-> entry.endPoints[i], message |-> entry.message]]

AllDatagrams(b) == FlattenSeq([k \in 1..Len(b) |-> Datagrams(b[k])])

Owed(b, i) == SubSeq(AllDatagrams(b), i + 1, Len(AllDatagrams(b)))

Pending == Owed(buffer, endPointIndex)

Queue == INSTANCE DatagramQueue WITH up <- peerManager, pending <- Pending

(***************************************************************************)
(* MessageSender over UDPSocket is a FIFO queue: each accepted message     *)
(* goes once to each of its end points, in order, and none is lost unless  *)
(* the transport is torn down.                                             *)
(***************************************************************************)
FifoDelivery == Queue!Spec

(***************************************************************************)
(* The node never stops for good: a failed transport comes back, and what  *)
(* the sender has accepted does go, if the socket keeps working.           *)
(***************************************************************************)
KeepsGoing == Recovers /\ Queue!Progress

============================================================================
