----------------------------- MODULE TCPSocket -----------------------------
(***************************************************************************)
(* One TCPSocket.Impl (RaiBlocksSocket/TCPSocket.swift) with the           *)
(* DispatchSocket and the connection timer it owns, as a record, and the   *)
(* effect of each of its methods on that record.  TCPConnection puts three *)
(* of them on a network and adds what the kernel answers.                  *)
(*                                                                         *)
(* Everything happens on one serial dispatch queue.  A callback is the     *)
(* last thing a method does, so what a callback calls is the next step of  *)
(* the composed model and not a part of the step that called it.           *)
(***************************************************************************)
EXTENDS Integers, Sequences

CONSTANT None     \* a nil task, and the nil size of receive()

Byte == Nat
SendTask == [data : Seq(Byte), sentSize : Nat]
ReceiveTask == [size : Nat \cup {None}, data : Seq(Byte)]

ASSUME NoneAssumption == None \notin Nat \cup SendTask \cup ReceiveTask

Impl ==
  [state : {"inited", "connecting", "connected", "listening", "closed"},
   socket : {"nil", "live", "closed"},              \* its DispatchSocket
   connectTask : {"none", "resolving", "connecting"},
   timer : BOOLEAN,                                 \* of the ConnectTask
   sendTask : SendTask \cup {None},
   receiveTask : ReceiveTask \cup {None},
   acceptTask : BOOLEAN,
   readSuspended : BOOLEAN,
   writeSuspended : BOOLEAN]

NewImpl ==
  [state |-> "inited", socket |-> "nil", connectTask |-> "none", timer |-> FALSE,
   sendTask |-> None, receiveTask |-> None, acceptTask |-> FALSE,
   readSuspended |-> TRUE, writeSuspended |-> TRUE]

----------------------------------------------------------------------------
(***************************************************************************)
(* _close: cancel the connection timer, forget every task, close the       *)
(* DispatchSocket, which resumes its suspended sources on the way.  No     *)
(* callback is called.                                                     *)
(***************************************************************************)
Shut(i) ==
  [i EXCEPT !.socket = IF @ = "live" THEN "closed" ELSE @,
            !.connectTask = "none", !.timer = FALSE,
            !.sendTask = None, !.receiveTask = None, !.acceptTask = FALSE,
            !.readSuspended = @ /\ i.socket # "live",
            !.writeSuspended = @ /\ i.socket # "live"]

\* close, doError up to its callback, and a listen that fails.

Close(i) == [Shut(i) EXCEPT !.state = "closed"]

----------------------------------------------------------------------------
\* The preconditions of the operations, those of awaitReadEvent included.

CanConnect(i) == i.state = "inited" /\ i.connectTask = "none" /\ i.socket = "nil"
CanListen(i) == i.state = "inited" /\ i.socket = "nil"
CanSend(i) ==
  i.state = "connected" /\ i.sendTask = None /\ i.socket = "live" /\ i.writeSuspended
CanReceive(i) ==
  i.state = "connected" /\ i.receiveTask = None /\ i.socket = "live" /\ i.readSuspended
CanAccept(i) ==
  i.state = "listening" /\ ~i.acceptTask /\ i.socket = "live" /\ i.readSuspended

----------------------------------------------------------------------------
\* connect to a host name, as far as it goes before the name is resolved.

Resolve(i) == [i EXCEPT !.state = "connecting", !.connectTask = "resolving"]

\* (Faulty variant: without the timer.)

ConnectUntimed(i) ==
  [i EXCEPT !.state = "connecting", !.socket = "live", !.connectTask = "connecting",
            !.writeSuspended = FALSE]

\* _connect, when connect(2) says EINPROGRESS or succeeds at once.

Connect(i) ==
  [i EXCEPT !.state = "connecting", !.socket = "live", !.connectTask = "connecting",
            !.timer = TRUE, !.writeSuspended = FALSE]

\* (Faulty variant: the task is dropped and its timer is not cancelled.)

DoConnectSuccessKeepsTimer(i) ==
  [i EXCEPT !.state = "connected", !.connectTask = "none", !.writeSuspended = TRUE]

\* doConnectSuccess, after the write event that called it.

DoConnectSuccess(i) ==
  [i EXCEPT !.state = "connected", !.connectTask = "none", !.timer = FALSE,
            !.writeSuspended = TRUE]

Listen(i) == [i EXCEPT !.state = "listening", !.socket = "live"]

Send(i, data) ==
  [i EXCEPT !.sendTask = [data |-> data, sentSize |-> 0], !.writeSuspended = FALSE]

Receive(i, size) ==
  [i EXCEPT !.receiveTask = [size |-> size, data |-> <<>>], !.readSuspended = FALSE]

Accept(i) == [i EXCEPT !.acceptTask = TRUE, !.readSuspended = FALSE]

----------------------------------------------------------------------------
(***************************************************************************)
(* doSend offers the kernel data[sentSize ..< count - sentSize].  The      *)
(* upper bound is right only while sentSize is 0, which it is whenever     *)
(* doSend runs: see DoSend.                                                *)
(***************************************************************************)
Chunk(task) == SubSeq(task.data, task.sentSize + 1, Len(task.data) - task.sentSize)

\* (Faulty variant: done, however much the kernel took.)

DoSendOnce(i, n) == [i EXCEPT !.writeSuspended = TRUE, !.sendTask = None]

(***************************************************************************)
(* doSend once the kernel took n bytes of the chunk: a send that is not    *)
(* done yet returns, with its source suspended and nobody to resume it.    *)
(***************************************************************************)
DoSend(i, n) ==
  LET sent == i.sendTask.sentSize + n IN
  [i EXCEPT !.writeSuspended = TRUE,
            !.sendTask = IF sent < Len(@.data) THEN [@ EXCEPT !.sentSize = sent]
                                               ELSE None]

\* (Faulty variant: asks for the whole size again.)

WantedAgain(task, available) ==
  IF task.size = None \/ task.size > available THEN available ELSE task.size

\* doReceive asks for what is missing, or for everything there is.

Wanted(task, available) ==
  IF task.size = None \/ task.size - Len(task.data) > available
    THEN available
    ELSE task.size - Len(task.data)

\* doReceive when it met EAGAIN before a sized receive was complete.

ReceiveMore(i, data) == [i EXCEPT !.receiveTask.data = data]

\* (Faulty variant: the slot is not emptied.)

EndReceiveKeepsTask(i) == [i EXCEPT !.readSuspended = TRUE]

EndReceive(i) == [i EXCEPT !.receiveTask = None, !.readSuspended = TRUE]

EndAccept(i) == [i EXCEPT !.acceptTask = FALSE, !.readSuspended = TRUE]

\* The Impl that doAccept makes for the new connection.

Accepted(i) == [i EXCEPT !.state = "connected", !.socket = "live"]

----------------------------------------------------------------------------
\* (Faulty variant: a result that was posted is delivered.)

ResolverAlwaysHeard(i) == TRUE

(***************************************************************************)
(* invokeReadHandler and invokeWriteHandler: a source that is not          *)
(* suspended calls its handler, and the handler returns at once when the   *)
(* DispatchSocket is closed.  A timer that was cancelled on its own queue  *)
(* does not fire, and a name resolution that was terminated does not call  *)
(* back: closing drops the only reference to it.                           *)
(***************************************************************************)
ReadDue(i) == i.socket = "live" /\ ~i.readSuspended
WriteDue(i) == i.socket = "live" /\ ~i.writeSuspended
ResolverHeard(i) == i.connectTask = "resolving"

============================================================================
