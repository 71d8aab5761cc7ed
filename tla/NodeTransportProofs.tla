------------------------ MODULE NodeTransportProofs ------------------------
(***************************************************************************)
(* Proofs that the node transport keeps its invariants, and implements a   *)
(* queue of datagrams, for every set of end points, messages and batches,  *)
(* every buffer size and any number of faults and restarts.                *)
(***************************************************************************)
EXTENDS NodeTransport, SequenceTheorems, WellFoundedInduction, TLAPS

(***************************************************************************)
(* The links between the life cycles of node and socket that the           *)
(* invariants rest on: a PeerManager exists exactly while the socket is    *)
(* live, and owns everything that can still happen.                        *)
(***************************************************************************)
LifeCycles ==
  /\ peerManager <=> socket = "live"
  /\ peerManager <=> state = "opened"
  /\ peerManager <=> receiveTask
  /\ peerManager <=> refreshTimer
  /\ resolving => peerManager
  /\ socket = "live" => ~readSuspended
  /\ state = "inited" => ~recoveryTimer /\ ~terminated
  /\ sending => peerManager

IInv == TypeOK /\ NeverTrapped /\ NeverStranded /\ SenderInSync /\ LifeCycles

SenderVarsOK ==
  /\ buffer \in Seq(Entry) /\ Len(buffer) <= BufferSize
  /\ endPointIndex \in Nat
  /\ sending \in BOOLEAN
  /\ sendTask \in Datagram \cup {None}
  /\ writeSuspended \in BOOLEAN
  /\ SenderInSync

----------------------------------------------------------------------------
\* The first entry of a nonempty buffer has a datagram for each valid index.

LEMMA CurrentIsDatagram ==
  ASSUME NEW b \in Seq(Entry), b # <<>>,
         NEW i \in Nat, i < Len(Head(b).endPoints)
  PROVE  Current(b, i) \in Datagram /\ Current(b, i) # None
<1>1. Head(b) \in Entry
  OBVIOUS
<1>2. Head(b).endPoints \in Seq(EndPoint) /\ Head(b).message \in Message
  BY <1>1 DEF Entry
<1>3. Head(b).endPoints[i + 1] \in EndPoint
  BY <1>2
<1>4. Current(b, i) \in Datagram
  BY <1>2, <1>3 DEF Current, Datagram
<1> QED
  BY <1>4, NoneAssumption

\* Entries are accepted behind those buffered, within the buffer's size.

LEMMA AcceptedAppends ==
  ASSUME NEW b \in Seq(Entry), Len(b) <= BufferSize, NEW batch \in Batches
  PROVE  /\ Accepted(b, batch) \in Seq(Entry)
         /\ Len(Accepted(b, batch)) <= BufferSize
         /\ b # <<>> => /\ Accepted(b, batch) # <<>>
                        /\ Head(Accepted(b, batch)) = Head(b)
<1> DEFINE room == BufferSize - Len(b)
           taken == IF Len(batch) < room THEN Len(batch) ELSE room
           part == SubSeq(batch, 1, taken)
<1>1. batch \in Seq(Entry)
  BY BatchesAssumption
<1>2. taken \in Nat /\ taken <= Len(batch) /\ taken <= room
  BY <1>1, BufferSizeAssumption
<1>3. part \in Seq(Entry) /\ Len(part) = taken
  BY <1>1, <1>2
<1>4. Accepted(b, batch) = b \o part
  BY DEF Accepted
<1> HIDE DEF part, taken
<1>5. Len(b \o part) = Len(b) + taken
  BY <1>3
<1>6. b \o part \in Seq(Entry)
  BY <1>3
<1>7. b # <<>> => b \o part # <<>> /\ Head(b \o part) = Head(b)
  BY <1>3
<1> QED
  BY <1>2, <1>4, <1>5, <1>6, <1>7, BufferSizeAssumption DEF room

\* update() leaves the sender and the send slot of the socket in step.

LEMMA UpdateKeepsInSync ==
  ASSUME NEW b \in Seq(Entry), Len(b) <= BufferSize,
         NEW i \in Nat,
         IF b = <<>> THEN i = 0 ELSE i < Len(Head(b).endPoints),
         Update(b, i)
  PROVE  SenderVarsOK'
<1>1. CASE b = <<>>
  BY <1>1 DEF Update, EndSend, SenderVarsOK, SenderInSync
<1>2. CASE b # <<>>
  BY <1>2, CurrentIsDatagram DEF Update, Send, SenderVarsOK, SenderInSync
<1> QED
  BY <1>1, <1>2

\* A fresh entry has a first end point.

LEMMA FirstEndPoint ==
  ASSUME NEW b \in Seq(Entry), b # <<>>
  PROVE  0 < Len(Head(b).endPoints)
<1>1. Head(b) \in Entry
  OBVIOUS
<1>2. Head(b).endPoints \in Seq(EndPoint) /\ Head(b).endPoints # <<>>
  BY <1>1 DEF Entry
<1> QED
  BY <1>2

\* Messages sent by a handler leave sender and socket in step and trap nothing.

LEMMA SendBatchKeepsInSync ==
  ASSUME IInv, peerManager, NEW batch \in Batches, SendBatch(batch)
  PROVE  SenderVarsOK' /\ trapped' = FALSE
<1> DEFINE b == Accepted(buffer, batch)
<1>1. /\ b \in Seq(Entry) /\ Len(b) <= BufferSize
      /\ buffer # <<>> => b # <<>> /\ Head(b) = Head(buffer)
  BY AcceptedAppends DEF IInv, TypeOK
<1>2. SendBatch(batch) <=>
        /\ offered + Len(batch) <= MaxOffered
        /\ offered' = offered + Len(batch)
        /\ IF sending \/ b = <<>>
             THEN /\ buffer' = b
                  /\ UNCHANGED <<endPointIndex, sending, sendSide, trapped>>
             ELSE /\ Update(b, endPointIndex)
                  /\ trapped' = (trapped \/ ~CanSend)
  BY DEF SendBatch
<1> HIDE DEF b
<1>3. CASE sending
  <2>1. /\ buffer' = b
        /\ UNCHANGED <<endPointIndex, sending, sendTask, writeSuspended, trapped>>
    BY <1>2, <1>3 DEF sendSide
  <2>2. buffer # <<>> /\ b # <<>> /\ Head(b) = Head(buffer)
    BY <1>1, <1>3 DEF IInv, SenderInSync
  <2>3. socket = "live"
    BY DEF IInv, LifeCycles
  <2>4. SenderInSync'
    BY <1>3, <2>1, <2>2, <2>3 DEF IInv, SenderInSync, Current
  <2> QED
    BY <1>1, <2>1, <2>4 DEF IInv, TypeOK, UDPTypeOK, NeverTrapped, SenderVarsOK
<1>4. CASE ~sending /\ b = <<>>
  <2>1. /\ buffer' = b
        /\ UNCHANGED <<endPointIndex, sending, sendTask, writeSuspended, trapped>>
    BY <1>2, <1>4 DEF sendSide
  <2> QED
    BY <1>1, <1>4, <2>1 DEF IInv, TypeOK, UDPTypeOK, NeverTrapped, SenderVarsOK, SenderInSync, LifeCycles
<1>5. CASE ~sending /\ b # <<>>
  <2>1. Update(b, endPointIndex) /\ trapped' = (trapped \/ ~CanSend)
    BY <1>2, <1>5
  <2>2. CanSend
    BY <1>5 DEF IInv, TypeOK, UDPTypeOK, LifeCycles, SenderInSync, CanSend
  <2>3. buffer = <<>> /\ endPointIndex = 0
    BY <1>5 DEF IInv, SenderInSync
  <2>4. SenderVarsOK'
    BY <1>1, <1>5, <2>1, <2>3, FirstEndPoint, UpdateKeepsInSync
  <2> QED
    BY <2>1, <2>2, <2>4 DEF IInv, NeverTrapped
<1> QED
  BY <1>3, <1>4, <1>5 DEF IInv, TypeOK
----------------------------------------------------------------------------
\* Going on after a transmitted datagram leaves sender and socket in step.

LEMMA AdvanceKeepsInSync ==
  ASSUME IInv, sending, Advance
  PROVE  SenderVarsOK'
<1>1. /\ buffer \in Seq(Entry) /\ Len(buffer) <= BufferSize /\ buffer # <<>>
      /\ endPointIndex \in Nat
      /\ endPointIndex < Len(Head(buffer).endPoints)
  BY DEF IInv, TypeOK, SenderInSync
<1>2. Tail(buffer) \in Seq(Entry) /\ Len(Tail(buffer)) <= BufferSize
  BY <1>1, BufferSizeAssumption
<1>3. Len(Head(buffer).endPoints) \in Nat
  BY <1>1 DEF Entry
<1>4. CASE endPointIndex + 1 = Len(Head(buffer).endPoints)
  <2>1. Update(Tail(buffer), 0)
    BY <1>4 DEF Advance
  <2> QED
    BY <1>2, <2>1, FirstEndPoint, UpdateKeepsInSync
<1>5. CASE endPointIndex + 1 # Len(Head(buffer).endPoints)
  <2>1. Update(buffer, endPointIndex + 1)
    BY <1>5 DEF Advance
  <2>2. endPointIndex + 1 \in Nat /\ endPointIndex + 1 < Len(Head(buffer).endPoints)
    BY <1>1, <1>3, <1>5
  <2> QED
    BY <1>1, <2>1, <2>2, UpdateKeepsInSync
<1> QED
  BY <1>4, <1>5

\* A reset node has an empty sender, a closed socket and no PeerManager.

IsReset ==
  /\ state = "closed" /\ socket \in {"nil", "closed"}
  /\ sendTask = None /\ receiveTask = FALSE
  /\ readSuspended \in BOOLEAN /\ writeSuspended \in BOOLEAN
  /\ buffer = <<>> /\ endPointIndex = 0 /\ sending = FALSE
  /\ peerManager = FALSE /\ resolving = FALSE /\ refreshTimer = FALSE

\* Discarding the PeerManager leaves the sender empty.

LEMMA ResetEmpties ==
  ASSUME IInv, Reset
  PROVE  IsReset'
<1>1. CASE state = "closed"
  BY <1>1 DEF IInv, TypeOK, UDPTypeOK, SenderInSync, LifeCycles, Reset, Discard, TerminatePeerManager,
     Close, IsReset
<1>2. CASE state # "closed"
  BY <1>2 DEF IInv, TypeOK, UDPTypeOK, Reset, Discard, TerminatePeerManager,
     Close, Shut, IsReset
<1> QED
  BY <1>1, <1>2

\* A reset node that either waits to recover or is terminated satisfies the invariant.

LEMMA ResetKeepsInvariant ==
  ASSUME IInv, IsReset',
         recoveryTimer' \in BOOLEAN, terminated' = ~recoveryTimer',
         trapped' = trapped, wire' = wire, offered' \in Nat, faults' \in Nat
  PROVE  IInv'
<1>1. terminated' \in BOOLEAN
  OBVIOUS
<1>2. UDPTypeOK'
  BY DEF UDPTypeOK, IsReset
<1>3. buffer' \in Seq(Entry) /\ Len(buffer') <= BufferSize
  BY BufferSizeAssumption DEF IsReset
<1>4. TypeOK'
  BY <1>1, <1>2, <1>3 DEF IInv, TypeOK, IsReset
<1> QED
  BY <1>4 DEF IInv, TypeOK, NeverTrapped, NeverStranded, SenderInSync, LifeCycles, IsReset

\* A running node stays one when a handler only touches the sending side.

LEMMA SendingKeepsInvariant ==
  ASSUME IInv, peerManager, SenderVarsOK', trapped' = FALSE,
         wire' \in Seq(Datagram), offered' \in Nat, resolving' \in BOOLEAN,
         UNCHANGED <<lifeCycle, receiveSide, peerManager, refreshTimer,
                     recoveryTimer, terminated, faults>>
  PROVE  IInv'
<1>1. TypeOK'
  BY DEF IInv, TypeOK, UDPTypeOK, SenderVarsOK, lifeCycle, receiveSide
<1>2. NeverStranded' /\ LifeCycles'
  BY DEF IInv, NeverStranded, LifeCycles, lifeCycle, receiveSide
<1> QED
  BY <1>1, <1>2 DEF IInv, NeverTrapped, SenderVarsOK
----------------------------------------------------------------------------
\* A node that has not started satisfies everything.

LEMMA InitIInv == Init => IInv
<1> SUFFICES ASSUME Init PROVE IInv
  OBVIOUS
<1>1. TypeOK
  <2>1. UDPTypeOK
    BY DEF Init, UDPInit, UDPTypeOK
  <2>2. buffer \in Seq(Entry) /\ Len(buffer) <= BufferSize /\ wire \in Seq(Datagram)
    BY BufferSizeAssumption DEF Init
  <2> QED
    BY <2>1, <2>2 DEF Init, TypeOK
<1> QED
  BY <1>1 DEF Init, UDPInit, IInv, NeverTrapped, NeverStranded, SenderInSync, LifeCycles

\* A transport error resets the node, which waits to recover.

LEMMA RecoverResets ==
  ASSUME IInv, peerManager, NEW still, Recover(still)
  PROVE  IsReset' /\ recoveryTimer' = TRUE
<1>1. ~recoveryTimer
  BY DEF IInv, NeverStranded
<1>2. Reset /\ recoveryTimer' = TRUE
  BY <1>1 DEF Recover, Reset
<1> QED
  BY <1>2, ResetEmpties

\* Every handler keeps the invariant.

LEMMA StepIInv == IInv /\ [Next]_vars => IInv'
<1> SUFFICES ASSUME IInv, [Next]_vars PROVE IInv'
  OBVIOUS
<1>types. TypeOK /\ UDPTypeOK
  BY DEF IInv, TypeOK
<1>1. ASSUME Start, ~terminated PROVE IInv'
  <2>1. buffer' = <<>> /\ endPointIndex' = 0 /\ sending' = FALSE
        /\ sendTask' = None /\ writeSuspended' = TRUE
    BY <1>1 DEF Start, Update, EndSend
  <2>2. TypeOK'
    <3>1. UDPTypeOK'
      BY <1>1, <2>1 DEF UDPTypeOK, Start, Open, Receive
    <3>2. buffer' \in Seq(Entry) /\ Len(buffer') <= BufferSize
      BY <2>1, BufferSizeAssumption
    <3> QED
      BY <1>1, <1>types, <2>1, <3>1, <3>2 DEF TypeOK, Start
  <2> QED
    BY <1>1, <2>1, <2>2
    DEF IInv, NeverTrapped, NeverStranded, SenderInSync, LifeCycles, Start, Open, Receive
<1>2. CASE Boot
  BY <1>1, <1>2 DEF Boot, IInv, LifeCycles
<1>3. CASE Restart
  BY <1>1, <1>3 DEF Restart
<1>4. CASE RestartFails
  <2>1. IsReset'
    BY <1>4, ResetEmpties DEF RestartFails
  <2>2. /\ recoveryTimer' = TRUE /\ terminated' = FALSE /\ wire' = wire
        /\ trapped' = trapped /\ offered' \in Nat /\ faults' \in Nat
    BY <1>4, <1>types DEF RestartFails, TypeOK
  <2> QED
    BY <2>1, <2>2, ResetKeepsInvariant
<1>5. CASE Refresh
  <2>1. peerManager
    BY <1>5 DEF Refresh, IInv, LifeCycles
  <2>2. /\ UNCHANGED <<lifeCycle, receiveSide, peerManager, recoveryTimer,
                       terminated, wire, faults>>
        /\ refreshTimer' = refreshTimer
    BY <1>5, <2>1 DEF Refresh, IInv, LifeCycles, TypeOK
  <2>3. CASE /\ resolving' = TRUE
             /\ UNCHANGED <<senderVars, sendSide, trapped, offered>>
    <3>1. SenderVarsOK' /\ trapped' = FALSE /\ offered' \in Nat
      BY <2>2, <2>3, <1>types
      DEF IInv, SenderVarsOK, SenderInSync, Current, NeverTrapped, TypeOK,
          UDPTypeOK, senderVars, sendSide, lifeCycle
    <3> QED
      BY <2>1, <2>2, <2>3, <3>1, <1>types, SendingKeepsInvariant DEF TypeOK
  <2>4. ASSUME NEW batch \in Batches, SendBatch(batch), UNCHANGED resolving
        PROVE  IInv'
    <3>1. offered' \in Nat
      BY <2>4, <1>types, BatchesAssumption DEF SendBatch, TypeOK
    <3> QED
      BY <2>1, <2>2, <2>4, <3>1, <1>types, SendBatchKeepsInSync, SendingKeepsInvariant
      DEF TypeOK
  <2> QED
    BY <1>5, <2>1, <2>3, <2>4 DEF Refresh
<1>6. CASE Terminate
  <2>1. IsReset'
    BY <1>6, ResetEmpties DEF Terminate
  <2>2. /\ recoveryTimer' = FALSE /\ terminated' = TRUE /\ wire' = wire
        /\ trapped' = trapped /\ offered' \in Nat /\ faults' \in Nat
    BY <1>6, <1>types DEF Terminate, TypeOK
  <2> QED
    BY <2>1, <2>2, ResetKeepsInvariant
<1>7. CASE PeersResolved
  <2>1. peerManager /\ socket = "live"
    BY <1>7 DEF PeersResolved, IInv, LifeCycles
  <2>2. PICK batch \in Batches : SendBatch(batch)
    BY <1>7, <2>1 DEF PeersResolved
  <2>3. offered' \in Nat
    BY <2>2, <1>types, BatchesAssumption DEF SendBatch, TypeOK
  <2>4. resolving' \in BOOLEAN
        /\ UNCHANGED <<lifeCycle, receiveSide, peerManager, refreshTimer,
                       recoveryTimer, terminated, wire, faults>>
    BY <1>7, <2>1 DEF PeersResolved
  <2> QED
    BY <2>1, <2>2, <2>3, <2>4, <1>types, SendBatchKeepsInSync, SendingKeepsInvariant
    DEF TypeOK
<1>8. CASE SendSucceeds
  <2>1. peerManager /\ socket = "live"
    BY <1>8 DEF SendSucceeds, HandlerRuns, IInv, LifeCycles
  <2>2. sending /\ sendTask # None
    BY <1>8, <2>1 DEF SendSucceeds, WriteEventDue, IInv, SenderInSync
  <2>3. /\ wire' = Append(wire, sendTask) /\ Advance
        /\ UNCHANGED <<lifeCycle, receiveSide, nodeVars, trapped, offered, faults>>
    BY <1>8, <2>1, <2>2 DEF SendSucceeds
  <2>4. SenderVarsOK'
    BY <2>2, <2>3, AdvanceKeepsInSync
  <2>5. wire' \in Seq(Datagram)
    BY <2>2, <2>3, <1>types DEF TypeOK, UDPTypeOK
  <2> QED
    BY <2>1, <2>3, <2>4, <2>5, <1>types, SendingKeepsInvariant
    DEF TypeOK, nodeVars, IInv, NeverTrapped
<1>9. CASE SendFails
  <2>1. peerManager
    BY <1>9 DEF SendFails, HandlerRuns, IInv, LifeCycles
  <2>2. Recover(FALSE) /\ UNCHANGED <<terminated, wire, trapped, offered>>
        /\ faults' = faults + 1
    BY <1>9 DEF SendFails
  <2>3. IsReset' /\ recoveryTimer' = TRUE
    BY <2>1, <2>2, RecoverResets
  <2>4. terminated' = FALSE
    BY <2>1, <2>2, <1>types DEF IInv, NeverStranded, TypeOK
  <2> QED
    BY <2>2, <2>3, <2>4, <1>types, ResetKeepsInvariant DEF TypeOK
<1>10. CASE ReceiveFails
  <2>1. peerManager
    BY <1>10 DEF ReceiveFails, HandlerRuns, IInv, LifeCycles
  <2>2. Recover(sending) /\ UNCHANGED <<terminated, wire, trapped, offered>>
        /\ faults' = faults + 1
    BY <1>10 DEF ReceiveFails
  <2>3. IsReset' /\ recoveryTimer' = TRUE
    BY <2>1, <2>2, RecoverResets
  <2>4. terminated' = FALSE
    BY <2>1, <2>2, <1>types DEF IInv, NeverStranded, TypeOK
  <2> QED
    BY <2>2, <2>3, <2>4, <1>types, ResetKeepsInvariant DEF TypeOK
<1>11. CASE ReceiveSucceeds
  <2>1. peerManager /\ receiveTask
    BY <1>11 DEF ReceiveSucceeds, HandlerRuns, IInv, LifeCycles
  <2>2. PICK batch \in Batches : SendBatch(batch)
    BY <1>11, <2>1 DEF ReceiveSucceeds
  <2>3. /\ UNCHANGED <<lifeCycle, nodeVars, wire, faults>>
        /\ receiveTask' = TRUE /\ readSuspended' = FALSE
    BY <1>11, <2>1 DEF ReceiveSucceeds, Receive
  <2>4. UNCHANGED receiveSide
    BY <2>1, <2>3, <1>types DEF receiveSide, IInv, LifeCycles, UDPTypeOK
  <2>5. offered' \in Nat
    BY <2>2, <1>types, BatchesAssumption DEF SendBatch, TypeOK
  <2> QED
    BY <2>1, <2>2, <2>3, <2>4, <2>5, <1>types, SendBatchKeepsInSync, SendingKeepsInvariant
    DEF TypeOK, nodeVars
<1>12. CASE UNCHANGED vars
  BY <1>12 DEF vars, udpVars, senderVars, nodeVars, IInv, TypeOK, UDPTypeOK,
     NeverTrapped, NeverStranded, SenderInSync, LifeCycles, Current
<1> QED
  BY <1>2, <1>3, <1>4, <1>5, <1>6, <1>7, <1>8, <1>9, <1>10, <1>11, <1>12
  DEF Next, SpuriousEvent

\* The inductive invariant of the transport, from which the theorems below follow.

THEOREM Invariance == Spec => []IInv
BY InitIInv, StepIInv, PTL DEF Spec

----------------------------------------------------------------------------
(***************************************************************************)
(* Types of the transport: the send buffer of MessageSender never exceeds  *)
(* its configured size, and the socket's slots hold what they should.      *)
(***************************************************************************)
THEOREM TypeCorrect == Spec => []TypeOK
<1>1. IInv => TypeOK
  BY DEF IInv
<1> QED
  BY <1>1, Invariance, PTL

(***************************************************************************)
(* No precondition of UDPSocket or DispatchSocket fails, and no nil task,  *)
(* socket or PeerManager is unwrapped.                                     *)
(***************************************************************************)
THEOREM NoTrap == Spec => []NeverTrapped
<1>1. IInv => NeverTrapped
  BY DEF IInv
<1> QED
  BY <1>1, Invariance, PTL

(***************************************************************************)
(* A started node always has a pending receive and a refresh timer, or a   *)
(* recovery timer, until it is terminated.                                 *)
(***************************************************************************)
THEOREM NoNodeStranded == Spec => []NeverStranded
<1>1. IInv => NeverStranded
  BY DEF IInv
<1> QED
  BY <1>1, Invariance, PTL

(***************************************************************************)
(* MessageSender's buffer and the send slot of its socket agree on the     *)
(* datagram in flight.                                                     *)
(***************************************************************************)
THEOREM SenderMatchesSocket == Spec => []SenderInSync
<1>1. IInv => SenderInSync
  BY DEF IInv
<1> QED
  BY <1>1, Invariance, PTL

(***************************************************************************)
(* Once terminated, a node transmits nothing and opens no socket.          *)
(***************************************************************************)
THEOREM TerminationIsFinal == Spec => QuietWhenTerminated
<1>1. IInv /\ [Next]_vars
        => [terminated => wire' = wire /\ ~peerManager' /\ socket' # "live"]_vars
  <2> SUFFICES ASSUME IInv, Next, terminated
               PROVE  wire' = wire /\ ~peerManager' /\ socket' # "live"
    OBVIOUS
  <2>1. ~peerManager /\ ~recoveryTimer /\ socket # "live" /\ state # "inited"
    BY DEF IInv, NeverStranded, LifeCycles
  <2>2. ~refreshTimer /\ ~resolving /\ ~HandlerRuns
    BY <2>1 DEF IInv, LifeCycles, HandlerRuns
  <2>3. UNCHANGED vars
    BY <2>1, <2>2 DEF Next, Boot, Restart, RestartFails, Refresh, Terminate,
       PeersResolved, SendSucceeds, SendFails, ReceiveFails, ReceiveSucceeds, SpuriousEvent
  <2> QED
    BY <2>1, <2>3 DEF vars, udpVars, nodeVars
<1> QED
  BY <1>1, Invariance, PTL DEF Spec, QuietWhenTerminated

----------------------------------------------------------------------------
(*                      Induction and sequences                            *)

\* A nonempty set of naturals has a least element: the library's theorem about
\* well-founded relations takes sets where its induction takes an operator.

LEMMA LeastElement ==
  ASSUME NEW T \in SUBSET Nat, T # {}
  PROVE  \E n \in T : \A m \in T : n <= m
<1> DEFINE L == {ss \in Nat \X Nat : ss[1] < ss[2]}
<1>1. OpToRel(<, Nat) = L
  BY Zenon DEF OpToRel
<1>3. IsWellFoundedOn(L, Nat)
  BY NatLessThanWellFounded, <1>1, Zenon
<1> HIDE DEF L
<1>2. \E x \in T : \A y \in T : ~ (<<y, x>> \in L)
  BY <1>3, WFMin, Zenon
<1>4. \A x, y \in Nat : x < y => <<x, y>> \in L
  BY DEF L
<1>5. PICK n \in T : \A y \in T : <<y, n>> \notin L
  BY <1>2
<1>6. \A m \in T : ~ (m < n)
  BY <1>4, <1>5
<1>7. \A m \in T : n <= m
  <2> SUFFICES ASSUME NEW m \in T PROVE n <= m
    OBVIOUS
  <2>1. m \in Nat /\ n \in Nat /\ ~(m < n)
    BY <1>6
  <2> QED
    BY <2>1
<1> QED
  BY <1>7

\* Induction over a set of naturals.

LEMMA InductionOn ==
  ASSUME NEW S \in SUBSET Nat, 0 \in S, \A n \in S : n + 1 \in S
  PROVE  \A n \in Nat : n \in S
<1> DEFINE Bad == Nat \ S
<1>1. SUFFICES ASSUME Bad # {} PROVE FALSE
  OBVIOUS
<1>2. PICK n \in Bad : \A m \in Bad : n <= m
  BY <1>1, LeastElement
<1>3. n \in Nat /\ n # 0
  OBVIOUS
<1>4. n - 1 \in Nat /\ ~ (n <= n - 1)
  BY <1>3
<1>5. n - 1 \in S
  BY <1>2, <1>4
<1> QED
  BY <1>5, <1>3

\* Concatenation under a name of its own: the provers reason from JoinedProps.

Joined(s, t) == s \o t

\* g is the loop of FlattenSeq over the first k sequences.

IsFlatten(g, seqs, k) ==
  g = [i \in 1..k |-> IF i = 1 THEN seqs[i] ELSE Joined(g[i-1], seqs[i])]

\* The loop can be taken one step further ...

LEMMA FlattenExtends ==
  ASSUME NEW seqs, NEW k \in Nat, NEW g, IsFlatten(g, seqs, k)
  PROVE  \E h : IsFlatten(h, seqs, k + 1)
<1> DEFINE last == IF k = 0 THEN seqs[1] ELSE Joined(g[k], seqs[k+1])
           h == [i \in 1..(k+1) |-> IF i = k + 1 THEN last ELSE g[i]]
<1>1. \A i \in 1..k : g[i] = IF i = 1 THEN seqs[i] ELSE Joined(g[i-1], seqs[i])
  BY DEF IsFlatten
<1>2. ASSUME NEW i \in 1..(k+1)
      PROVE h[i] = IF i = 1 THEN seqs[i] ELSE Joined(h[i-1], seqs[i])
  <2>1. CASE i = k + 1
    BY <2>1
  <2>2. CASE i # k + 1
    <3>1. i \in 1..k
      BY <2>2
    <3>2. h[i] = g[i]
      BY <2>2
    <3>3. CASE i = 1
      BY <3>1, <3>2, <3>3, <1>1
    <3>4. CASE i # 1
      <4>1. h[i-1] = g[i-1]
        BY <3>1, <3>4
      <4> QED
        BY <3>1, <3>2, <3>4, <4>1, <1>1
    <3> QED
      BY <3>3, <3>4
  <2> QED
    BY <2>1, <2>2
<1>3. h = [i \in 1..(k+1) |-> h[i]]
  OBVIOUS
<1> HIDE DEF h
<1>4. h = [i \in 1..(k+1) |-> IF i = 1 THEN seqs[i] ELSE Joined(h[i-1], seqs[i])]
  BY <1>2, <1>3
<1> QED
  BY <1>4 DEF IsFlatten

\* ... so it exists for every length.

LEMMA FlattenExists ==
  ASSUME NEW seqs, NEW k \in Nat
  PROVE  \E g : IsFlatten(g, seqs, k)
<1> DEFINE S == {n \in Nat : \E g : IsFlatten(g, seqs, n)}
<1>1. 0 \in S
  <2>1. IsFlatten(<<>>, seqs, 0)
    BY DEF IsFlatten
  <2> QED
    BY <2>1
<1>2. \A n \in S : n + 1 \in S
  BY FlattenExtends
<1> HIDE DEF S
<1>3. \A n \in Nat : n \in S
  BY <1>1, <1>2, InductionOn DEF S
<1> QED
  BY <1>3 DEF S

\* more begins with the first k elements of seqs.

Agree(seqs, more, k) == \A j \in 1..k : more[j] = seqs[j]

\* A longer loop over a longer list begins as the shorter one.

LEMMA FlattenPrefix ==
  ASSUME NEW seqs, NEW k \in Nat \ {0}, NEW g, IsFlatten(g, seqs, k),
         NEW more, NEW h, IsFlatten(h, more, k + 1),
         Agree(seqs, more, k)
  PROVE  h[k] = g[k]
<1> DEFINE Good == {n \in Nat : n + 1 <= k => h[n+1] = g[n+1]}
<1>0. /\ \A i \in 1..k : g[i] = IF i = 1 THEN seqs[i] ELSE Joined(g[i-1], seqs[i])
      /\ \A i \in 1..k : h[i] = IF i = 1 THEN more[i] ELSE Joined(h[i-1], more[i])
  BY DEF IsFlatten
<1>1. 0 \in Good
  <2>1. 1 \in 1..k
    OBVIOUS
  <2>2. more[1] = seqs[1]
    BY <2>1, Zenon DEF Agree
  <2>3. h[1] = more[1] /\ g[1] = seqs[1]
    BY <2>1, <1>0
  <2> QED
    BY <2>2, <2>3
<1>2. ASSUME NEW n \in Good PROVE n + 1 \in Good
  <2> SUFFICES ASSUME n + 2 <= k PROVE h[n+2] = g[n+2]
    OBVIOUS
  <2>1. n \in Nat /\ n + 1 <= k /\ n + 2 \in 1..k /\ n + 2 # 1 /\ (n + 2) - 1 = n + 1
    OBVIOUS
  <2>2. h[n+1] = g[n+1]
    BY <2>1
  <2>3. g[n+2] = Joined(g[n+1], seqs[n+2])
    BY <2>1, <1>0
  <2>4. h[n+2] = Joined(h[n+1], more[n+2])
    BY <2>1, <1>0
  <2>5. more[n+2] = seqs[n+2]
    BY <2>1, Zenon DEF Agree
  <2> QED
    BY <2>2, <2>3, <2>4, <2>5
<1> HIDE DEF Good
<1>3. \A n \in Nat : n \in Good
  <2>1. Good \in SUBSET Nat
    BY DEF Good
  <2> QED
    BY <1>1, <1>2, <2>1, InductionOn
<1>4. k - 1 \in Nat /\ (k - 1) + 1 = k /\ k - 1 \in Good
  BY <1>3
<1> QED
  BY <1>4 DEF Good

\* FlattenSeq is where the loop ends.

LEMMA FlattenIs ==
  ASSUME NEW seqs, Len(seqs) \in Nat, Len(seqs) # 0
  PROVE  \E g : IsFlatten(g, seqs, Len(seqs)) /\ FlattenSeq(seqs) = g[Len(seqs)]
<1> DEFINE f == CHOOSE g : IsFlatten(g, seqs, Len(seqs))
<1>1. IsFlatten(f, seqs, Len(seqs))
  BY FlattenExists
<1>2. FlattenSeq(seqs) = f[Len(seqs)]
  BY DEF FlattenSeq, IsFlatten, Joined
<1> QED
  BY <1>1, <1>2

\* A flattened list of sequences of D is a sequence of D.

LEMMA FlattenType ==
  ASSUME NEW D, NEW seqs \in Seq(Seq(D))
  PROVE  FlattenSeq(seqs) \in Seq(D)
<1>1. CASE Len(seqs) = 0
  <2>1. seqs = <<>>
    BY <1>1
  <2>2. FlattenSeq(seqs) = <<>>
    BY <2>1, <1>1 DEF FlattenSeq
  <2> QED
    BY <2>2
<1>2. CASE Len(seqs) # 0
  <2>1. PICK g : IsFlatten(g, seqs, Len(seqs)) /\ FlattenSeq(seqs) = g[Len(seqs)]
    BY <1>2, FlattenIs
  <2> DEFINE k == Len(seqs)
             Good == {n \in Nat : n + 1 <= k => g[n+1] \in Seq(D)}
  <2>0. \A i \in 1..k : g[i] = IF i = 1 THEN seqs[i] ELSE Joined(g[i-1], seqs[i])
    BY <2>1 DEF IsFlatten
  <2>2. 0 \in Good
    BY SMTT(40), <2>0
  <2>3. ASSUME NEW n \in Good PROVE n + 1 \in Good
    <3> SUFFICES ASSUME n + 2 <= k PROVE g[n+2] \in Seq(D)
      OBVIOUS
    <3>1. n \in Nat /\ n + 1 <= k /\ n + 2 \in 1..k /\ n + 2 # 1 /\ (n + 2) - 1 = n + 1
      OBVIOUS
    <3>2. g[n+2] = Joined(g[n+1], seqs[n+2])
      BY <3>1, <2>0
    <3>3. seqs[n+2] \in Seq(D) /\ g[n+1] \in Seq(D)
      BY <3>1
    <3> QED
      BY <3>2, <3>3 DEF Joined
  <2>5. k \in Nat /\ k - 1 \in Nat /\ (k - 1) + 1 = k
    BY <1>2
  <2> HIDE DEF Good
  <2>4. \A n \in Nat : n \in Good
    <3>1. Good \in SUBSET Nat
      BY DEF Good
    <3> QED
      BY <2>2, <2>3, <3>1, InductionOn
  <2>6. (k - 1) \in Good
    BY <2>4, <2>5
  <2>7. g[(k - 1) + 1] \in Seq(D)
    BY <2>6, <2>5 DEF Good
  <2> HIDE DEF k
  <2>8. g[k] \in Seq(D)
    BY <2>5, <2>7
  <2> QED
    BY <2>1, <2>8 DEF k
<1> QED
  BY <1>1, <1>2

\* Flattening a list with one more sequence appends that sequence ...

LEMMA FlattenAppend ==
  ASSUME NEW D, NEW seqs \in Seq(Seq(D)), NEW e \in Seq(D)
  PROVE  FlattenSeq(Append(seqs, e)) = Joined(FlattenSeq(seqs), e)
<1> DEFINE k == Len(seqs)
           more == Append(seqs, e)
<1>0. /\ k \in Nat /\ more \in Seq(Seq(D)) /\ Len(more) = k + 1
      /\ \A i \in 1..k : more[i] = seqs[i]
      /\ more[k + 1] = e
  OBVIOUS
<1>m. PICK h : IsFlatten(h, more, k + 1) /\ FlattenSeq(more) = h[k + 1]
  <2> HIDE DEF more, k
  <2>1. Len(more) \in Nat /\ Len(more) # 0
    BY <1>0
  <2> QED
    BY <1>0, <2>1, FlattenIs
<1>1. CASE k = 0
  <2>1. FlattenSeq(more) = e
    BY <1>m, <1>1, <1>0 DEF IsFlatten
  <2>2. seqs = <<>>
    BY <1>1
  <2>3. FlattenSeq(seqs) = <<>>
    BY <2>2 DEF FlattenSeq
  <2> QED
    BY <2>1, <2>3 DEF Joined
<1>2. CASE k # 0
  <2>1. PICK g : IsFlatten(g, seqs, k) /\ FlattenSeq(seqs) = g[k]
    BY <1>2, FlattenIs
  <2> HIDE DEF more, k
  <2>a. k + 1 \in Nat /\ k <= k + 1 /\ k \in 1..k /\ k + 1 \in 1..(k+1) /\ k + 1 # 1 /\ (k + 1) - 1 = k
    BY <1>0, <1>2
  <2>b. IsFlatten(g, seqs, k) /\ IsFlatten(h, more, k + 1)
    BY <2>1, <1>m
  <2>2. h[k] = g[k]
    <3>1. k \in Nat \ {0} /\ Agree(seqs, more, k)
      BY <1>0, <1>2 DEF Agree
    <3> QED
      BY <2>b, <3>1, FlattenPrefix
  <2>c. h[k + 1] = IF k + 1 = 1 THEN more[k + 1] ELSE Joined(h[(k + 1) - 1], more[k + 1])
    BY <2>a, <2>b DEF IsFlatten
  <2>3. h[k + 1] = Joined(h[k], more[k + 1])
    BY <2>a, <2>c
  <2> QED
    BY <2>1, <2>2, <2>3, <1>m, <1>0 DEF more
<1> QED
  BY <1>1, <1>2

\* Length and elements of a sequence with one more element.

LEMMA AppendProps ==
  ASSUME NEW S, NEW v \in Seq(S), NEW e \in S
  PROVE  /\ Append(v, e) \in Seq(S) /\ Len(Append(v, e)) = Len(v) + 1
         /\ Append(v, e)[Len(v) + 1] = e
         /\ \A i \in 1..Len(v) : Append(v, e)[i] = v[i]
OBVIOUS

\* A sequence that is not empty is one element behind another sequence.

LEMMA LastApart ==
  ASSUME NEW S, NEW u \in Seq(S), NEW n \in Nat, Len(u) = n + 1
  PROVE  \E v \in Seq(S), e \in S : u = Append(v, e) /\ Len(v) = n
<1> DEFINE v == SubSeq(u, 1, n)
           e == u[n + 1]
<1>1. v \in Seq(S) /\ Len(v) = n /\ \A i \in 1..n : v[i] = u[i]
  OBVIOUS
<1>2. e \in S
  OBVIOUS
<1> HIDE DEF v, e
<1>3. Append(v, e) \in Seq(S) /\ Len(Append(v, e)) = n + 1
  BY <1>1, <1>2
<1>4. \A i \in 1..(n + 1) : Append(v, e)[i] = u[i]
  BY <1>1, <1>2 DEF e
<1>5. u = Append(v, e)
  BY <1>3, <1>4, SeqEqual
<1> QED
  BY <1>1, <1>2, <1>5

\* Joining is associative.

LEMMA JoinedAssociative ==
  ASSUME NEW D, NEW s \in Seq(D), NEW t \in Seq(D), NEW u \in Seq(D)
  PROVE  Joined(Joined(s, t), u) = Joined(s, Joined(t, u))
BY DEF Joined

\* Length and elements of a concatenation.

LEMMA JoinedProps ==
  ASSUME NEW D, NEW s \in Seq(D), NEW t \in Seq(D)
  PROVE  /\ Joined(s, t) \in Seq(D)
         /\ Len(Joined(s, t)) = Len(s) + Len(t)
         /\ \A k \in 1..(Len(s) + Len(t)) :
              Joined(s, t)[k] = IF k <= Len(s) THEN s[k] ELSE t[k - Len(s)]
BY DEF Joined

\* ... and flattening two lists joined joins what they flatten to.

LEMMA FlattenConcat ==
  ASSUME NEW D, NEW s \in Seq(Seq(D)), NEW t \in Seq(Seq(D))
  PROVE  FlattenSeq(Joined(s, t)) = Joined(FlattenSeq(s), FlattenSeq(t))
<1> DEFINE Good == {n \in Nat : \A u \in Seq(Seq(D)) : Len(u) = n =>
                      FlattenSeq(Joined(s, u)) = Joined(FlattenSeq(s), FlattenSeq(u))}
<1>1. 0 \in Good
  <2> SUFFICES ASSUME NEW u \in Seq(Seq(D)), Len(u) = 0
               PROVE  FlattenSeq(Joined(s, u)) = Joined(FlattenSeq(s), FlattenSeq(u))
    OBVIOUS
  <2>1. u = <<>> /\ Joined(s, u) = s
    BY DEF Joined
  <2>2. FlattenSeq(u) = <<>>
    BY <2>1 DEF FlattenSeq
  <2>3. FlattenSeq(s) \in Seq(D)
    BY FlattenType
  <2>4. Joined(FlattenSeq(s), <<>>) = FlattenSeq(s)
    BY <2>3 DEF Joined
  <2> QED
    BY <2>1, <2>2, <2>4
<1>2. ASSUME NEW n \in Good PROVE n + 1 \in Good
  <2> SUFFICES ASSUME NEW u \in Seq(Seq(D)), Len(u) = n + 1
               PROVE  FlattenSeq(Joined(s, u)) = Joined(FlattenSeq(s), FlattenSeq(u))
    OBVIOUS
  <2>1. PICK v \in Seq(Seq(D)), e \in Seq(D) : u = Append(v, e) /\ Len(v) = n
    <3>1. n \in Nat
      OBVIOUS
    <3> QED
      BY <3>1, LastApart
  <2>2. Joined(s, u) = Append(Joined(s, v), e) /\ Joined(s, v) \in Seq(Seq(D))
    BY SMTT(40), <2>1 DEF Joined
  <2>3. FlattenSeq(Joined(s, v)) = Joined(FlattenSeq(s), FlattenSeq(v))
    BY <2>1
  <2>4. FlattenSeq(Joined(s, u)) = Joined(FlattenSeq(Joined(s, v)), e)
    BY <2>1, <2>2, FlattenAppend
  <2>5. FlattenSeq(u) = Joined(FlattenSeq(v), e)
    BY <2>1, FlattenAppend
  <2>6. FlattenSeq(s) \in Seq(D) /\ FlattenSeq(v) \in Seq(D)
    BY <2>1, FlattenType
  <2>7. FlattenSeq(Joined(s, u)) = Joined(FlattenSeq(s), FlattenSeq(u))
    BY <2>3, <2>4, <2>5, <2>6, JoinedAssociative
  <2> QED
    BY <2>7
<1> HIDE DEF Good
<1>3. \A n \in Nat : n \in Good
  <2>1. Good \in SUBSET Nat
    BY DEF Good
  <2> QED
    BY <1>1, <1>2, <2>1, InductionOn
<1>4. Len(t) \in Nat
  OBVIOUS
<1> QED
  BY <1>3, <1>4 DEF Good

----------------------------------------------------------------------------
\* What a sequence has from position i + 1 on: its head, and its tail.

LEMMA SuffixMoves ==
  ASSUME NEW D, NEW s \in Seq(D), NEW i \in Nat, i < Len(s)
  PROVE  /\ SubSeq(s, i + 1, Len(s)) # <<>>
         /\ Head(SubSeq(s, i + 1, Len(s))) = s[i + 1]
         /\ Tail(SubSeq(s, i + 1, Len(s))) = SubSeq(s, (i + 1) + 1, Len(s))
<1>1. i + 1 \in 1..Len(s) /\ Len(s) \in (i + 1)..Len(s)
  OBVIOUS
<1>2. /\ Head(SubSeq(s, i + 1, Len(s))) = s[i + 1]
      /\ Tail(SubSeq(s, i + 1, Len(s))) = SubSeq(s, (i + 1) + 1, Len(s))
  BY <1>1, HeadTailOfSubSeq
<1>3. Len(SubSeq(s, i + 1, Len(s))) = Len(s) - i
  OBVIOUS
<1>4. \A r : Len(r) = Len(s) - i => r # <<>>
  OBVIOUS
<1> QED
  BY <1>2, <1>3, <1>4, Zenon

\* A suffix that starts in the first part of a concatenation.

LEMMA SuffixOfConcat ==
  ASSUME NEW D, NEW s \in Seq(D), NEW t \in Seq(D), NEW i \in Nat, i <= Len(s)
  PROVE  SubSeq(Joined(s, t), i + 1, Len(Joined(s, t))) = Joined(SubSeq(s, i + 1, Len(s)), t)
<1> DEFINE all == Joined(s, t)
           left == SubSeq(all, i + 1, Len(all))
           part == SubSeq(s, i + 1, Len(s))
           right == Joined(part, t)
<1>1. all \in Seq(D) /\ Len(all) = Len(s) + Len(t)
  BY JoinedProps
<1>2. \A k \in 1..Len(all) : all[k] = IF k <= Len(s) THEN s[k] ELSE t[k - Len(s)]
  BY JoinedProps
<1> HIDE DEF all
<1>3. left \in Seq(D) /\ Len(left) = Len(all) - i
  BY <1>1
<1>4. \A k \in 1..(Len(all) - i) : left[k] = all[k + i]
  BY <1>1
<1>5. part \in Seq(D) /\ Len(part) = Len(s) - i
  OBVIOUS
<1>6. \A k \in 1..(Len(s) - i) : part[k] = s[k + i]
  OBVIOUS
<1> HIDE DEF part, left
<1>a. /\ right \in Seq(D) /\ Len(right) = Len(part) + Len(t)
      /\ \A k \in 1..(Len(part) + Len(t)) :
           right[k] = IF k <= Len(part) THEN part[k] ELSE t[k - Len(part)]
  BY <1>5, JoinedProps
<1> HIDE DEF right
<1>b. Len(part) + Len(t) = Len(all) - i
  BY <1>1, <1>5
<1>7. right \in Seq(D) /\ Len(right) = Len(all) - i
  BY <1>a, <1>b
<1>8. \A k \in 1..(Len(all) - i) :
        right[k] = IF k <= Len(s) - i THEN part[k] ELSE t[k - (Len(s) - i)]
  BY <1>a, <1>b, <1>5
<1> HIDE DEF right
<1>9. ASSUME NEW k \in 1..Len(left) PROVE left[k] = right[k]
  <2>1. left[k] = all[k + i] /\ k + i \in 1..Len(all)
    BY <1>3, <1>4, <1>1
  <2>2. CASE k <= Len(s) - i
    <3>1. all[k + i] = s[k + i]
      BY <2>1, <2>2, <1>2
    <3>2. right[k] = part[k] /\ part[k] = s[k + i]
      BY <2>2, <1>3, <1>6, <1>8
    <3> QED
      BY <2>1, <3>1, <3>2
  <2>3. CASE ~ (k <= Len(s) - i)
    <3>1. all[k + i] = t[(k + i) - Len(s)]
      BY <2>1, <2>3, <1>2
    <3>2. right[k] = t[k - (Len(s) - i)]
      BY <2>3, <1>3, <1>8
    <3>3. (k + i) - Len(s) = k - (Len(s) - i)
      OBVIOUS
    <3> QED
      BY <2>1, <3>1, <3>2, <3>3
  <2> QED
    BY <2>2, <2>3
<1>10. Len(left) = Len(right)
  BY <1>3, <1>7
<1>11. left = right
  BY <1>3, <1>7, <1>9, <1>10, SeqEqual
<1> QED
  BY <1>11 DEF left, right, part, all

\* The first part of a concatenation is its prefix, and shorter if the rest is not empty.

LEMMA PrefixOfConcat ==
  ASSUME NEW D, NEW s \in Seq(D), NEW t \in Seq(D), t # <<>>
  PROVE  /\ Len(Joined(s, t)) > Len(s)
         /\ SubSeq(Joined(s, t), 1, Len(s)) = s
<1> DEFINE all == Joined(s, t)
           part == SubSeq(all, 1, Len(s))
<1>1. /\ all \in Seq(D) /\ Len(all) = Len(s) + Len(t)
      /\ \A k \in 1..(Len(s) + Len(t)) : all[k] = IF k <= Len(s) THEN s[k] ELSE t[k - Len(s)]
  BY JoinedProps
<1>2. Len(t) \in Nat \ {0} /\ Len(s) \in Nat
  OBVIOUS
<1> HIDE DEF all
<1>3. part \in Seq(D) /\ Len(part) = Len(s)
  BY <1>1, <1>2
<1>4. \A k \in 1..Len(s) : part[k] = all[k]
  BY <1>1, <1>2
<1> HIDE DEF part
<1>5. ASSUME NEW k \in 1..Len(s) PROVE part[k] = s[k]
  <2>1. part[k] = all[k]
    BY <1>4, Zenon
  <2>2. all[k] = s[k]
    BY <1>1, <1>2
  <2> QED
    BY <2>1, <2>2
<1>6. part = s
  BY <1>3, <1>5, SeqEqual
<1> QED
  BY <1>1, <1>2, <1>6 DEF part, all
----------------------------------------------------------------------------
\* An entry is one datagram per end point.

LEMMA DatagramsOfEntry ==
  ASSUME NEW e \in Entry
  PROVE  /\ Datagrams(e) \in Seq(Datagram)
         /\ Len(Datagrams(e)) = Len(e.endPoints)
         /\ \A i \in 1..Len(e.endPoints) :
              Datagrams(e)[i] = [endPoint |-> e.endPoints[i], message |-> e.message]
<1>1. e.endPoints \in Seq(EndPoint) /\ e.message \in Message
  BY DEF Entry
<1> QED
  BY <1>1 DEF Datagrams, Datagram

\* The datagrams of each entry of a buffer.

Lists(b) == [k \in 1..Len(b) |-> Datagrams(b[k])]

\* They are sequences of datagrams, one per entry.

LEMMA ListsTyped ==
  ASSUME NEW b \in Seq(Entry)
  PROVE  Lists(b) \in Seq(Seq(Datagram)) /\ Len(Lists(b)) = Len(b)
<1>1. \A k \in 1..Len(b) : Datagrams(b[k]) \in Seq(Datagram)
  BY DatagramsOfEntry
<1> QED
  BY <1>1 DEF Lists

\* Length and elements of two such lists joined.

LEMMA ListsJoined ==
  ASSUME NEW b \in Seq(Entry), NEW c \in Seq(Entry)
  PROVE  /\ Joined(Lists(b), Lists(c)) \in Seq(Seq(Datagram))
         /\ Len(Joined(Lists(b), Lists(c))) = Len(Lists(b)) + Len(Lists(c))
         /\ \A k \in 1..(Len(Lists(b)) + Len(Lists(c))) : Joined(Lists(b), Lists(c))[k] =
              IF k <= Len(Lists(b)) THEN Lists(b)[k] ELSE Lists(c)[k - Len(Lists(b))]
BY ListsTyped, JoinedProps

\* The datagrams of two buffers joined, by entry ...

LEMMA ListsOfConcat ==
  ASSUME NEW b \in Seq(Entry), NEW c \in Seq(Entry)
  PROVE  Lists(Joined(b, c)) = Joined(Lists(b), Lists(c))
<1>1. /\ Lists(b) \in Seq(Seq(Datagram)) /\ Len(Lists(b)) = Len(b)
      /\ Lists(c) \in Seq(Seq(Datagram)) /\ Len(Lists(c)) = Len(c)
  BY ListsTyped
<1>2. Joined(b, c) \in Seq(Entry) /\ Len(Joined(b, c)) = Len(b) + Len(c)
  BY JoinedProps
<1>3. Lists(Joined(b, c)) \in Seq(Seq(Datagram)) /\ Len(Lists(Joined(b, c))) = Len(b) + Len(c)
  BY <1>2, ListsTyped
<1>4. ASSUME NEW k \in 1..(Len(b) + Len(c))
      PROVE  Lists(Joined(b, c))[k] = Joined(Lists(b), Lists(c))[k]
  <2>1. Lists(Joined(b, c))[k] = Datagrams(Joined(b, c)[k])
    BY <1>2 DEF Lists
  <2>2. Joined(Lists(b), Lists(c))[k] = IF k <= Len(b) THEN Lists(b)[k] ELSE Lists(c)[k - Len(b)]
    <3>1. Joined(Lists(b), Lists(c))[k] =
            IF k <= Len(Lists(b)) THEN Lists(b)[k] ELSE Lists(c)[k - Len(Lists(b))]
      BY <1>1, ListsJoined
    <3> QED
      BY <1>1, <3>1
  <2>3. Joined(b, c)[k] = IF k <= Len(b) THEN b[k] ELSE c[k - Len(b)]
    BY JoinedProps
  <2>4. CASE k <= Len(b)
    BY <2>1, <2>2, <2>3, <2>4 DEF Lists
  <2>5. CASE ~(k <= Len(b))
    <3>1. k - Len(b) \in 1..Len(c)
      BY <2>5
    <3>2. Lists(c)[k - Len(b)] = Datagrams(c[k - Len(b)])
      BY <3>1 DEF Lists
    <3> QED
      BY <2>1, <2>2, <2>3, <2>5, <3>2
  <2> QED
    BY <2>4, <2>5
<1>5. Joined(Lists(b), Lists(c)) \in Seq(Seq(Datagram)) /\ Len(Joined(Lists(b), Lists(c))) = Len(b) + Len(c)
  BY <1>1, ListsJoined
<1> HIDE DEF Lists
<1> QED
  BY <1>3, <1>4, <1>5, SeqEqual

\* ... and all of them.

LEMMA AllDatagramsOfConcat ==
  ASSUME NEW b \in Seq(Entry), NEW c \in Seq(Entry)
  PROVE  /\ AllDatagrams(b) \in Seq(Datagram)
         /\ AllDatagrams(Joined(b, c)) = Joined(AllDatagrams(b), AllDatagrams(c))
<1>1. Lists(b) \in Seq(Seq(Datagram)) /\ Lists(c) \in Seq(Seq(Datagram))
  BY ListsTyped
<1>2. AllDatagrams(b) = FlattenSeq(Lists(b)) /\ AllDatagrams(c) = FlattenSeq(Lists(c))
  BY DEF AllDatagrams, Lists
<1>3. AllDatagrams(Joined(b, c)) = FlattenSeq(Lists(Joined(b, c)))
  BY Zenon DEF AllDatagrams, Lists
<1>4. FlattenSeq(Lists(Joined(b, c))) = FlattenSeq(Joined(Lists(b), Lists(c)))
  BY ListsOfConcat
<1> QED
  BY <1>1, <1>2, <1>3, <1>4, FlattenType, FlattenConcat

\* A buffer's datagrams are those of its first entry and those of the others.

LEMMA AllDatagramsOfHead ==
  ASSUME NEW b \in Seq(Entry), b # <<>>
  PROVE  AllDatagrams(b) = Joined(Datagrams(Head(b)), AllDatagrams(Tail(b)))
<1>1. /\ Head(b) \in Entry /\ Tail(b) \in Seq(Entry) /\ <<Head(b)>> \in Seq(Entry)
      /\ b = Joined(<<Head(b)>>, Tail(b))
  BY DEF Joined
<1>2. AllDatagrams(Joined(<<Head(b)>>, Tail(b))) = Joined(AllDatagrams(<<Head(b)>>), AllDatagrams(Tail(b)))
  BY <1>1, AllDatagramsOfConcat
<1>3. AllDatagrams(<<Head(b)>>) = Datagrams(Head(b))
  <2> DEFINE d == Datagrams(Head(b))
  <2>1. d \in Seq(Datagram)
    BY <1>1, DatagramsOfEntry
  <2>2. AllDatagrams(<<Head(b)>>) = FlattenSeq(<<d>>)
    BY DEF AllDatagrams
  <2> HIDE DEF d
  <2>3. FlattenSeq(<<d>>) = Joined(FlattenSeq(<<>>), d)
    <3>1. <<>> \in Seq(Seq(Datagram)) /\ <<d>> = Append(<<>>, d)
      OBVIOUS
    <3> QED
      BY <2>1, <3>1, FlattenAppend
  <2>4. FlattenSeq(<<>>) = <<>>
    BY DEF FlattenSeq
  <2>5. Joined(<<>>, d) = d
    BY <2>1 DEF Joined
  <2> QED
    BY <2>2, <2>3, <2>4, <2>5 DEF d
<1> QED
  BY <1>1, <1>2, <1>3

\* The first entry of a buffer has as many datagrams before those of the others
\* as it has end points.

LEMMA OwesTheHead ==
  ASSUME NEW b \in Seq(Entry), b # <<>>
  PROVE  /\ AllDatagrams(b) \in Seq(Datagram)
         /\ Len(Head(b).endPoints) \in Nat \ {0}
         /\ Len(Head(b).endPoints) <= Len(AllDatagrams(b))
         /\ \A i \in 1..Len(Head(b).endPoints) : AllDatagrams(b)[i] = Datagrams(Head(b))[i]
<1> DEFINE d == Datagrams(Head(b))
           others == AllDatagrams(Tail(b))
           n == Len(Head(b).endPoints)
<1>1. Head(b) \in Entry /\ Tail(b) \in Seq(Entry)
  OBVIOUS
<1>2. d \in Seq(Datagram) /\ Len(d) = n
  BY <1>1, DatagramsOfEntry
<1>3. others \in Seq(Datagram)
  BY <1>1, AllDatagramsOfConcat
<1>4. AllDatagrams(b) = Joined(d, others)
  BY AllDatagramsOfHead
<1>5. n \in Nat \ {0}
  <2>1. Head(b).endPoints \in Seq(EndPoint) /\ Head(b).endPoints # <<>>
    BY <1>1 DEF Entry
  <2> QED
    BY <2>1
<1> HIDE DEF d, others, n
<1>6. /\ Joined(d, others) \in Seq(Datagram)
      /\ Len(Joined(d, others)) = Len(d) + Len(others)
      /\ \A k \in 1..(Len(d) + Len(others)) :
           Joined(d, others)[k] = IF k <= Len(d) THEN d[k] ELSE others[k - Len(d)]
  BY <1>2, <1>3, JoinedProps
<1>7. Len(others) \in Nat
  BY <1>3
<1>8. n <= Len(Joined(d, others))
  BY <1>2, <1>5, <1>6, <1>7
<1>9. ASSUME NEW i \in 1..n PROVE Joined(d, others)[i] = d[i]
  BY <1>2, <1>5, <1>6, <1>7
<1> QED
  BY <1>4, <1>5, <1>6, <1>8, <1>9 DEF d, others, n

\* Where the index of a buffer may be.

IndexFits(b, i) ==
  /\ i \in Nat
  /\ IF b = <<>> THEN i = 0 ELSE i < Len(Head(b).endPoints)

\* Such an index points into what the buffer owes.

LEMMA IndexWithinAll ==
  ASSUME NEW b \in Seq(Entry), NEW i, IndexFits(b, i)
  PROVE  i <= Len(AllDatagrams(b)) /\ AllDatagrams(b) \in Seq(Datagram)
<1>1. AllDatagrams(b) \in Seq(Datagram)
  BY AllDatagramsOfConcat
<1>2. Len(AllDatagrams(b)) \in Nat
  BY <1>1
<1>3. CASE b = <<>>
  BY <1>1, <1>2, <1>3 DEF IndexFits
<1>4. CASE b # <<>>
  <2>1. /\ Len(Head(b).endPoints) \in Nat
        /\ Len(Head(b).endPoints) <= Len(AllDatagrams(b))
    BY <1>4, OwesTheHead
  <2>2. i \in Nat /\ i < Len(Head(b).endPoints)
    BY <1>4 DEF IndexFits
  <2> HIDE DEF IndexFits
  <2> QED
    BY <1>1, <1>2, <2>1, <2>2
<1> QED
  BY <1>3, <1>4

\* Entries accepted behind a buffer are owed after all that was owed before.

LEMMA OwedGrows ==
  ASSUME NEW b \in Seq(Entry), NEW c \in Seq(Entry), c # <<>>, NEW i, IndexFits(b, i)
  PROVE  /\ Len(Owed(Joined(b, c), i)) > Len(Owed(b, i))
         /\ SubSeq(Owed(Joined(b, c), i), 1, Len(Owed(b, i))) = Owed(b, i)
<1> DEFINE s == AllDatagrams(b)
           t == AllDatagrams(c)
           part == SubSeq(s, i + 1, Len(s))
<1>1. s \in Seq(Datagram) /\ i <= Len(s) /\ i \in Nat
  BY IndexWithinAll DEF IndexFits
<1>2. t \in Seq(Datagram) /\ AllDatagrams(Joined(b, c)) = Joined(s, t)
  BY AllDatagramsOfConcat
<1>3. t # <<>>
  <2>1. /\ Len(Head(c).endPoints) \in Nat \ {0}
        /\ Len(Head(c).endPoints) <= Len(t)
    BY OwesTheHead
  <2> HIDE DEF t
  <2>2. Len(t) # 0
    BY <1>2, <2>1
  <2> QED
    BY <2>2
<1> HIDE DEF s, t
<1>4. SubSeq(Joined(s, t), i + 1, Len(Joined(s, t))) = Joined(part, t)
  BY <1>1, <1>2, SuffixOfConcat
<1>5. part \in Seq(Datagram)
  BY <1>1
<1> HIDE DEF part
<1>6. Len(Joined(part, t)) > Len(part) /\ SubSeq(Joined(part, t), 1, Len(part)) = part
  BY <1>2, <1>3, <1>5, PrefixOfConcat
<1>7. Owed(b, i) = part /\ Owed(Joined(b, c), i) = Joined(part, t)
  BY <1>2, <1>4 DEF Owed, part, s
<1> QED
  BY <1>6, <1>7

\* The datagram in flight is the first that is owed, and the buffer and index after
\* it owe the rest.

LEMMA OwedMoves ==
  ASSUME NEW b \in Seq(Entry), b # <<>>, NEW i, IndexFits(b, i)
  PROVE  /\ Owed(b, i) # <<>>
         /\ Head(Owed(b, i)) = Current(b, i)
         /\ Tail(Owed(b, i)) = IF i + 1 = Len(Head(b).endPoints)
                                 THEN Owed(Tail(b), 0) ELSE Owed(b, i + 1)
<1> DEFINE s == AllDatagrams(b)
           n == Len(Head(b).endPoints)
<1>1. /\ s \in Seq(Datagram)
      /\ n \in Nat \ {0} /\ n <= Len(s)
      /\ \A k \in 1..n : s[k] = Datagrams(Head(b))[k]
  BY OwesTheHead
<1>2. i \in Nat /\ i < n
  BY DEF IndexFits
<1>3. Owed(b, i) = SubSeq(s, i + 1, Len(s)) /\ Owed(b, i + 1) = SubSeq(s, (i + 1) + 1, Len(s))
  BY DEF Owed
<1>4. s[i + 1] = Current(b, i)
  <2>1. i + 1 \in 1..n
    BY <1>1, <1>2
  <2>2. s[i + 1] = Datagrams(Head(b))[i + 1]
    BY <1>1, <2>1, Zenon
  <2>3. Head(b) \in Entry
    OBVIOUS
  <2>4. Datagrams(Head(b))[i + 1] = Current(b, i)
    BY <2>1, <2>3, DatagramsOfEntry DEF Current
  <2> QED
    BY <2>2, <2>4
<1> HIDE DEF s, n
<1>5. /\ Owed(b, i) # <<>>
      /\ Head(Owed(b, i)) = Current(b, i)
      /\ Tail(Owed(b, i)) = Owed(b, i + 1)
  <2>1. Len(s) \in Nat /\ i < Len(s)
    BY <1>1, <1>2
  <2> QED
    BY <1>1, <1>2, <1>3, <1>4, <2>1, SuffixMoves
<1>6. ASSUME i + 1 = n PROVE Owed(b, i + 1) = Owed(Tail(b), 0)
  <2> DEFINE d == Datagrams(Head(b))
             t == AllDatagrams(Tail(b))
  <2>1. Head(b) \in Entry /\ Tail(b) \in Seq(Entry)
    OBVIOUS
  <2>2. d \in Seq(Datagram) /\ Len(d) = n /\ t \in Seq(Datagram)
    BY <2>1, DatagramsOfEntry, AllDatagramsOfConcat DEF n
  <2>3. s = Joined(d, t)
    BY AllDatagramsOfHead DEF s
  <2>4. Owed(Tail(b), 0) = SubSeq(t, 0 + 1, Len(t))
    BY DEF Owed
  <2> HIDE DEF d, t
  <2>5. SubSeq(Joined(d, t), n + 1, Len(Joined(d, t))) = Joined(SubSeq(d, n + 1, Len(d)), t)
    BY SMTT(40), <2>2, <1>1, SuffixOfConcat
  <2>6. SubSeq(d, n + 1, Len(d)) = <<>>
    BY <2>2, <1>1
  <2>7. Joined(<<>>, t) = t /\ SubSeq(t, 0 + 1, Len(t)) = t
    BY <2>2 DEF Joined
  <2> QED
    BY <1>3, <1>6, <2>3, <2>4, <2>5, <2>6, <2>7
<1> QED
  BY <1>5, <1>6 DEF n

\* A buffer with nothing in it owes nothing.

LEMMA OwedOfNothing == Owed(<<>>, 0) = <<>>
<1>1. AllDatagrams(<<>>) = <<>>
  BY DEF AllDatagrams, FlattenSeq
<1> QED
  BY <1>1 DEF Owed

----------------------------------------------------------------------------
(*                    Every step is one of the queue's                     *)

QueueStep == [Queue!Next]_(Queue!qvars)

\* What is accepted of a batch stands behind what is buffered.

LEMMA AcceptedJoins ==
  ASSUME NEW b \in Seq(Entry), Len(b) <= BufferSize, NEW batch \in Batches
  PROVE  \E part \in Seq(Entry) : Accepted(b, batch) = Joined(b, part)
<1> DEFINE room == BufferSize - Len(b)
           taken == IF Len(batch) < room THEN Len(batch) ELSE room
           part == SubSeq(batch, 1, taken)
<1>1. batch \in Seq(Entry)
  BY BatchesAssumption
<1>2. taken \in Nat /\ taken <= Len(batch)
  BY <1>1, BufferSizeAssumption
<1>3. part \in Seq(Entry)
  BY <1>1, <1>2
<1>4. Accepted(b, batch) = Joined(b, part)
  BY DEF Accepted, Joined
<1> QED
  BY <1>3, <1>4

\* The index of a consistent sender points into the entry at the front.

LEMMA IndexInSync ==
  ASSUME IInv
  PROVE  IndexFits(buffer, endPointIndex) /\ buffer \in Seq(Entry) /\ Len(buffer) <= BufferSize
BY DEF IInv, TypeOK, SenderInSync, IndexFits

\* Messages sent by a handler are enqueued, or discarded for want of room.

LEMMA SendBatchQueues ==
  ASSUME IInv, peerManager, peerManager', wire' = wire, NEW batch \in Batches, SendBatch(batch)
  PROVE  QueueStep
<1>1. IndexFits(buffer, endPointIndex) /\ buffer \in Seq(Entry) /\ Len(buffer) <= BufferSize
  BY IndexInSync
<1>2. PICK part \in Seq(Entry) : Accepted(buffer, batch) = Joined(buffer, part)
  BY <1>1, AcceptedJoins
<1>3. buffer' = Joined(buffer, part) /\ endPointIndex' = endPointIndex
  BY <1>2 DEF SendBatch, Update
<1>4. CASE part = <<>>
  <2>1. buffer' = buffer
    BY <1>1, <1>3, <1>4 DEF Joined
  <2> QED
    BY <1>3, <2>1 DEF QueueStep, Queue!qvars, Pending
<1>5. CASE part # <<>>
  <2>1. /\ Len(Owed(Joined(buffer, part), endPointIndex)) > Len(Owed(buffer, endPointIndex))
        /\ SubSeq(Owed(Joined(buffer, part), endPointIndex), 1, Len(Owed(buffer, endPointIndex)))
             = Owed(buffer, endPointIndex)
    BY <1>1, <1>5, OwedGrows
  <2>2. Queue!Enqueue
    BY <1>3, <2>1 DEF Queue!Enqueue, Pending
  <2> QED
    BY <2>2 DEF QueueStep, Queue!Next
<1> QED
  BY <1>4, <1>5

\* A node without a PeerManager owes nothing.

LEMMA DownOwesNothing ==
  ASSUME IInv, ~peerManager
  PROVE  peerManager = FALSE /\ Pending = <<>>
<1>1. buffer = <<>> /\ endPointIndex = 0 /\ peerManager = FALSE
  BY DEF IInv, TypeOK, LifeCycles, SenderInSync
<1> QED
  BY <1>1, OwedOfNothing DEF Pending

\* Throwing the transport away takes the queue down, if it was up.

LEMMA ResetGoesDown ==
  ASSUME IInv, IsReset', wire' = wire
  PROVE  QueueStep
<1>1. peerManager' = FALSE /\ Pending' = <<>>
  BY OwedOfNothing DEF IsReset, Pending
<1>2. CASE peerManager
  BY <1>1, <1>2 DEF QueueStep, Queue!Next, Queue!GoDown
<1>3. CASE ~peerManager
  BY <1>1, <1>3, DownOwesNothing DEF QueueStep, Queue!qvars
<1> QED
  BY <1>2, <1>3

\* A new transport starts with nothing to send.

LEMMA StartGoesUp ==
  ASSUME IInv, ~peerManager, Start
  PROVE  QueueStep
<1>1. buffer' = <<>> /\ endPointIndex' = 0 /\ peerManager' = TRUE /\ wire' = wire
  BY DEF Start, Update
<1>2. Pending' = <<>>
  BY <1>1, OwedOfNothing DEF Pending
<1> QED
  BY <1>1, <1>2, DownOwesNothing DEF QueueStep, Queue!Next, Queue!GoUp

\* The datagram the kernel took was the first owed; the sender owes the rest.

LEMMA AdvanceTransmits ==
  ASSUME IInv, sending, Advance, peerManager, peerManager', wire' = Append(wire, sendTask)
  PROVE  QueueStep
<1>1. IndexFits(buffer, endPointIndex) /\ buffer \in Seq(Entry)
  BY IndexInSync
<1>2. buffer # <<>> /\ sendTask = Current(buffer, endPointIndex)
  BY DEF IInv, SenderInSync
<1>3. /\ Owed(buffer, endPointIndex) # <<>>
      /\ Head(Owed(buffer, endPointIndex)) = Current(buffer, endPointIndex)
      /\ Tail(Owed(buffer, endPointIndex)) =
           IF endPointIndex + 1 = Len(Head(buffer).endPoints)
             THEN Owed(Tail(buffer), 0) ELSE Owed(buffer, endPointIndex + 1)
  BY <1>1, <1>2, OwedMoves
<1>4. Owed(buffer', endPointIndex') =
        IF endPointIndex + 1 = Len(Head(buffer).endPoints)
          THEN Owed(Tail(buffer), 0) ELSE Owed(buffer, endPointIndex + 1)
  BY DEF Advance, Update
<1>5. Queue!Transmit
  BY <1>2, <1>3, <1>4 DEF Queue!Transmit, Pending
<1> QED
  BY <1>5 DEF QueueStep, Queue!Next

\* Every handler is a step of the queue or none.

LEMMA StepQueue == IInv /\ [Next]_vars => QueueStep
<1> SUFFICES ASSUME IInv, [Next]_vars PROVE QueueStep
  OBVIOUS
<1>1. CASE Boot
  BY <1>1, StartGoesUp DEF Boot, IInv, LifeCycles
<1>2. CASE Restart
  BY <1>2, StartGoesUp DEF Restart, IInv, NeverStranded
<1>3. CASE RestartFails
  BY <1>3, ResetEmpties, ResetGoesDown DEF RestartFails
<1>4. CASE Refresh
  <2>1. peerManager /\ peerManager' /\ wire' = wire
    BY <1>4 DEF Refresh, IInv, LifeCycles
  <2>2. CASE UNCHANGED senderVars
    BY <2>1, <2>2 DEF QueueStep, Queue!qvars, Pending, senderVars, IInv, TypeOK
  <2>3. CASE \E batch \in Batches : SendBatch(batch)
    BY <2>1, <2>3, SendBatchQueues
  <2> QED
    BY <1>4, <2>1, <2>2, <2>3 DEF Refresh
<1>5. CASE Terminate
  BY <1>5, ResetEmpties, ResetGoesDown DEF Terminate
<1>6. CASE PeersResolved
  <2>1. peerManager /\ socket = "live"
    BY <1>6 DEF PeersResolved, IInv, LifeCycles
  <2>2. PICK batch \in Batches : SendBatch(batch)
    BY <1>6, <2>1 DEF PeersResolved
  <2>3. peerManager' /\ wire' = wire
    BY <1>6, <2>1 DEF PeersResolved
  <2> QED
    BY <2>1, <2>2, <2>3, SendBatchQueues
<1>7. CASE SendSucceeds
  <2>1. peerManager
    BY <1>7 DEF SendSucceeds, HandlerRuns, IInv, LifeCycles
  <2>2. sending /\ sendTask # None
    BY <1>7, <2>1 DEF SendSucceeds, HandlerRuns, WriteEventDue, IInv, LifeCycles, SenderInSync
  <2>3. wire' = Append(wire, sendTask) /\ Advance /\ UNCHANGED nodeVars
    BY <1>7, <2>1, <2>2 DEF SendSucceeds
  <2>4. peerManager'
    BY <2>1, <2>3 DEF nodeVars
  <2> QED
    BY <2>1, <2>2, <2>3, <2>4, AdvanceTransmits
<1>8. CASE SendFails
  <2>1. peerManager
    BY <1>8 DEF SendFails, HandlerRuns, IInv, LifeCycles
  <2>2. Recover(FALSE) /\ wire' = wire
    BY <1>8 DEF SendFails
  <2> QED
    BY <2>1, <2>2, RecoverResets, ResetGoesDown
<1>9. CASE ReceiveFails
  <2>1. peerManager
    BY <1>9 DEF ReceiveFails, HandlerRuns, IInv, LifeCycles
  <2>2. Recover(sending) /\ wire' = wire
    BY <1>9 DEF ReceiveFails
  <2> QED
    BY <2>1, <2>2, RecoverResets, ResetGoesDown
<1>10. CASE ReceiveSucceeds
  <2>1. peerManager /\ receiveTask
    BY <1>10 DEF ReceiveSucceeds, HandlerRuns, IInv, LifeCycles
  <2>2. PICK batch \in Batches : SendBatch(batch)
    BY <1>10, <2>1 DEF ReceiveSucceeds
  <2>3. peerManager' /\ wire' = wire
    BY <1>10, <2>1 DEF ReceiveSucceeds, nodeVars
  <2> QED
    BY <2>1, <2>2, <2>3, SendBatchQueues
<1>11. CASE UNCHANGED vars
  BY <1>11 DEF vars, senderVars, nodeVars, QueueStep, Queue!qvars, Pending
<1> QED
  BY <1>1, <1>2, <1>3, <1>4, <1>5, <1>6, <1>7, <1>8, <1>9, <1>10, <1>11
  DEF Next, SpuriousEvent

(***************************************************************************)
(* MessageSender over UDPSocket, through failures and restarts, implements *)
(* a FIFO queue: each accepted message goes once to each of its end        *)
(* points, in order, and nothing is lost but by going down as a whole.     *)
(***************************************************************************)
THEOREM ImplementsQueue == Spec => FifoDelivery
<1>1. Init => Queue!Init
  BY OwedOfNothing DEF Init, Queue!Init, Pending
<1>2. IInv /\ [Next]_vars => [Queue!Next]_(Queue!qvars)
  BY StepQueue DEF QueueStep
<1> QED
  BY <1>1, <1>2, Invariance, PTL DEF Spec, FifoDelivery, Queue!Spec
============================================================================
