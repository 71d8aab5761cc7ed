----------------------------- MODULE UDPSocket -----------------------------
(***************************************************************************)
(* One UDPSocket.Impl (RaiBlocksSocket/UDPSocket.swift) together with the  *)
(* DispatchSocket it owns (RaiBlocksSocket/DispatchSocket.swift).          *)
(*                                                                         *)
(* The socket has one slot for a pending send and one for a pending        *)
(* receive.  Each slot is served by a dispatch source that is resumed when *)
(* the slot is filled and suspended again before its handler runs.  All of *)
(* this happens on one serial dispatch queue, so each operator below is    *)
(* the effect of one call made while that queue is held; NodeTransport     *)
(* puts them together into handlers.  A handler may empty a slot and let   *)
(* its callback fill it again before it returns: the send side, the        *)
(* receive side and the life cycle are therefore separate operators over   *)
(* separate variables, and the composing action conjoins the ones it uses. *)
(***************************************************************************)
CONSTANTS
  EndPoint,     \* where a datagram can be sent
  Message,      \* what it can say
  None          \* a nil task

\* What a SendTask carries.

Datagram == [endPoint : EndPoint, message : Message]

ASSUME NoneAssumption == None \notin Datagram

VARIABLES
  state,           \* UDPSocket.Impl._state
  socket,          \* the DispatchSocket: not made yet, live, or closed
  sendTask,        \* the pending SendTask, or None
  receiveTask,     \* whether a ReceiveTask is pending
  readSuspended,   \* DispatchSocket._readSuspended
  writeSuspended   \* DispatchSocket._writeSuspended

sendSide == <<sendTask, writeSuspended>>
receiveSide == <<receiveTask, readSuspended>>
lifeCycle == <<state, socket>>
udpVars == <<state, socket, sendTask, receiveTask, readSuspended, writeSuspended>>

UDPTypeOK ==
  /\ state \in {"inited", "opened", "closed"}
  /\ socket \in {"nil", "live", "closed"}
  /\ sendTask \in Datagram \cup {None}
  /\ receiveTask \in BOOLEAN
  /\ readSuspended \in BOOLEAN
  /\ writeSuspended \in BOOLEAN

UDPInit ==
  /\ state = "inited"
  /\ socket = "nil"
  /\ sendTask = None
  /\ receiveTask = FALSE
  /\ readSuspended = TRUE
  /\ writeSuspended = TRUE

----------------------------------------------------------------------------
\* Opening a fresh UDPSocket whose DispatchSocket could be made.

Open ==
  /\ state' = "opened"
  /\ socket' = "live"

(***************************************************************************)
(* UDPSocket.Impl._close: forget both tasks and close the DispatchSocket,  *)
(* which first resumes its suspended sources because a suspended source    *)
(* must not be released.  Neither task's callback is called.               *)
(***************************************************************************)
Shut ==
  /\ socket' = IF socket = "live" THEN "closed" ELSE socket
  /\ sendTask' = None
  /\ receiveTask' = FALSE
  /\ readSuspended' = (readSuspended /\ socket # "live")
  /\ writeSuspended' = (writeSuspended /\ socket # "live")

\* UDPSocket.Impl.close, and the end of postError: closed once and for all.

Close ==
  /\ state' = "closed"
  /\ IF state = "closed"
       THEN UNCHANGED <<socket, sendTask, receiveTask, readSuspended, writeSuspended>>
       ELSE Shut

----------------------------------------------------------------------------
\* The preconditions of send and receive.

CanSend == state = "opened" /\ socket = "live" /\ sendTask = None /\ writeSuspended
CanReceive == state = "opened" /\ socket = "live" /\ ~receiveTask /\ readSuspended

\* send: fill the slot and wait for the socket to be writable.

Send(datagram) ==
  /\ sendTask' = datagram
  /\ writeSuspended' = FALSE

\* doSend up to the callback: the slot is empty, its source suspended.

EndSend ==
  /\ sendTask' = None
  /\ writeSuspended' = TRUE

\* receive: fill the slot and wait for the socket to be readable.

Receive ==
  /\ receiveTask' = TRUE
  /\ readSuspended' = FALSE

\* doReceive up to the callback.

EndReceive ==
  /\ receiveTask' = FALSE
  /\ readSuspended' = TRUE

(***************************************************************************)
(* The kernel and libdispatch: a source that exists and is not suspended   *)
(* may call its handler at any time, and one last time after close, when   *)
(* the handler was queued already.  The handler returns at once if the     *)
(* DispatchSocket is closed.  (Faulty variant: without looking.)           *)
(***************************************************************************)
HandlerAlwaysRuns == TRUE
WriteEventDue == socket # "nil" /\ ~writeSuspended
ReadEventDue == socket # "nil" /\ ~readSuspended
HandlerRuns == socket = "live"

============================================================================
