--------------------------- MODULE TCPConnection ---------------------------
(***************************************************************************)
(* A TCPSocket that listens, one that connects to it, and the one that     *)
(* accepting makes, with the kernel's side of the connection: the          *)
(* handshake, a buffer of Capacity bytes toward each end, the end of the   *)
(* stream, and resets.  The callers are any that keep to the               *)
(* preconditions they can know of: they do not start an operation while    *)
(* the last one of its kind has not been answered.                         *)
(*                                                                         *)
(* The bytes an end sends are numbered 1, 2, 3, ...                        *)
(***************************************************************************)
EXTENDS TCPSocket, FiniteSets

CONSTANTS
  Capacity,     \* bytes the kernel buffers in one direction
  SendSize,     \* sizes of the data passed to send
  ReceiveSize,  \* sizes passed to receive; None is nil
  MaxBytes      \* bound: bytes each end is asked to send

End == {"client", "server"}
Socket == End \cup {"listener"}
Peer(e) == CHOOSE p \in End : p # e

ASSUME SizeAssumption ==
  /\ Capacity \in Nat \ {0}
  /\ SendSize \subseteq Nat \ {0}
  /\ ReceiveSize \subseteq (Nat \ {0}) \cup {None}
  /\ MaxBytes \in [End -> Nat]

VARIABLES
  sock,      \* the Impl of each TCPSocket; the server's is fresh until accepted
  resolve,   \* the client's name resolution on the global queue
  conn,      \* the connection, as the kernel knows it
  link,      \* what an end's next call would learn of the connection
  pipe,      \* the bytes buffered toward an end
  owed,      \* history: the operations called whose callback did not come yet
  asked,     \* history: bytes an end was asked to send
  handed,    \* history: bytes the kernel took from it
  got        \* history: bytes it was given by receive

kernel == <<conn, link, pipe>>
history == <<asked, handed, got>>
vars == <<sock, resolve, conn, link, pipe, owed, asked, handed, got>>

Init ==
  /\ sock = [s \in Socket |-> NewImpl]
  /\ resolve = "none"
  /\ conn = "none"
  /\ link = [e \in End |-> "none"]
  /\ pipe = [e \in End |-> <<>>]
  /\ owed = [s \in Socket |-> {}]
  /\ asked = [e \in End |-> 0]
  /\ handed = [e \in End |-> 0]
  /\ got = [e \in End |-> <<>>]

Becomes(s, impl) == sock' = [sock EXCEPT ![s] = impl]
Called(s, op) == owed' = [owed EXCEPT ![s] = @ \cup {op}]
Answered(s, op) == owed' = [owed EXCEPT ![s] = @ \ {op}]

\* doError with the callback of op: nothing else that is owed is answered.

Fails(s, op) == Becomes(s, Close(sock[s])) /\ Answered(s, op)

----------------------------------------------------------------------------
\* The callers.

ConnectHost ==
  /\ CanConnect(sock["client"])
  /\ Becomes("client", Resolve(sock["client"]))
  /\ resolve' = "running"
  /\ Called("client", "connect")
  /\ UNCHANGED <<kernel, history>>

\* _connect: socket(2) and connect(2) may fail.

StartConnecting ==
  /\ Becomes("client", Connect(sock["client"]))
  /\ conn' = "syn"
  /\ UNCHANGED <<link, pipe>>

\* connect to an end point; on failure its error callback comes before it returns.

ConnectEndPoint ==
  /\ CanConnect(sock["client"])
  /\ \/ StartConnecting /\ Called("client", "connect")
     \/ Becomes("client", Close(sock["client"])) /\ UNCHANGED <<kernel, owed>>
  /\ UNCHANGED <<resolve, history>>

ListenOn ==
  /\ CanListen(sock["listener"])
  /\ \/ Becomes("listener", Listen(sock["listener"]))
     \/ Becomes("listener", Close(sock["listener"]))
  /\ UNCHANGED <<resolve, kernel, owed, history>>

AcceptOn ==
  /\ sock["listener"].state = "listening" /\ "accept" \notin owed["listener"]
  /\ Becomes("listener", Accept(sock["listener"]))
  /\ Called("listener", "accept")
  /\ UNCHANGED <<resolve, kernel, history>>

SendOn(e, n) ==
  /\ sock[e].state = "connected" /\ "send" \notin owed[e]
  /\ asked[e] + n <= MaxBytes[e]
  /\ Becomes(e, Send(sock[e], [k \in 1..n |-> asked[e] + k]))
  /\ asked' = [asked EXCEPT ![e] = @ + n]
  /\ Called(e, "send")
  /\ UNCHANGED <<resolve, kernel, handed, got>>

ReceiveOn(e, size) ==
  /\ sock[e].state = "connected" /\ "receive" \notin owed[e]
  /\ Becomes(e, Receive(sock[e], size))
  /\ Called(e, "receive")
  /\ UNCHANGED <<resolve, kernel, history>>

\* close, which the deinit of a TCPSocket calls too.

CloseOn(s) ==
  /\ sock[s].state # "closed"
  /\ s = "server" => conn = "accepted"
  /\ Becomes(s, Close(sock[s]))
  /\ UNCHANGED <<resolve, kernel, owed, history>>

----------------------------------------------------------------------------
\* The name resolution: its result is posted from the global queue ...

ResolverPosts ==
  /\ resolve = "running"
  /\ resolve' = "posted"
  /\ UNCHANGED <<sock, kernel, owed, history>>

\* ... and delivered on the socket's queue, unless it was terminated meanwhile.

ResolverCalls ==
  /\ resolve = "posted"
  /\ resolve' = "none"
  /\ IF ResolverHeard(sock["client"])
       THEN \/ StartConnecting /\ UNCHANGED owed
            \/ Fails("client", "connect") /\ UNCHANGED kernel
       ELSE UNCHANGED <<sock, kernel, owed>>
  /\ UNCHANGED history

----------------------------------------------------------------------------
\* The kernel and the network.

Handshake ==
  /\ conn = "syn" /\ sock["client"].socket = "live"
  /\ \/ /\ sock["listener"].state = "listening"
        /\ conn' = "queued"
        /\ link' = [e \in End |-> "open"]
     \/ conn' = "refused" /\ UNCHANGED link
  /\ UNCHANGED <<sock, resolve, pipe, owed, history>>

\* The other end was closed, or never accepted and its listener closed.

PeerGone(e) ==
  \/ sock[Peer(e)].socket = "closed"
  \/ e = "client" /\ conn = "queued" /\ sock["listener"].socket = "closed"

FinArrives(e) ==
  /\ link[e] = "open" /\ PeerGone(e)
  /\ link' = [link EXCEPT ![e] = "eof"]
  /\ UNCHANGED <<sock, resolve, conn, pipe, owed, history>>

ResetArrives(e) ==
  /\ link[e] \in {"open", "eof"}
  /\ link' = [link EXCEPT ![e] = "reset"]
  /\ pipe' = [pipe EXCEPT ![e] = <<>>]
  /\ UNCHANGED <<sock, resolve, conn, owed, history>>

\* A call on an end that has no connection, or lost it, returns an error.

Broken(e) == link[e] = "reset" \/ (e = "client" /\ conn = "refused")

----------------------------------------------------------------------------
(***************************************************************************)
(* The write event of a connecting socket.  The code does not ask for      *)
(* SO_ERROR: a socket whose connection was refused is writable, too.       *)
(***************************************************************************)
ConnectEvent ==
  LET i == sock["client"] IN
  /\ WriteDue(i) /\ i.connectTask = "connecting"
  /\ conn \in {"queued", "accepted", "refused"}
  /\ Becomes("client", DoConnectSuccess(i))
  /\ Answered("client", "connect")
  /\ UNCHANGED <<resolve, kernel, history>>

TimerFires ==
  /\ sock["client"].timer
  /\ Fails("client", "connect")
  /\ UNCHANGED <<resolve, kernel, history>>

\* doSend: the kernel takes what it has room for.

SendEvent(e) ==
  LET i == sock[e]
      chunk == Chunk(i.sendTask)
      room == Capacity - Len(pipe[Peer(e)])
      n == IF Len(chunk) <= room THEN Len(chunk) ELSE room
  IN
  /\ WriteDue(i) /\ i.sendTask # None
  /\ ~Broken(e) /\ room > 0
  /\ Becomes(e, DoSend(i, n))
  /\ pipe' = [pipe EXCEPT ![Peer(e)] = @ \o SubSeq(chunk, 1, n)]
  /\ handed' = [handed EXCEPT ![e] = @ + n]
  /\ IF sock'[e].sendTask = None THEN Answered(e, "send") ELSE UNCHANGED owed
  /\ UNCHANGED <<resolve, conn, link, asked, got>>

SendFails(e) ==
  /\ WriteDue(sock[e]) /\ sock[e].sendTask # None
  /\ Broken(e) \/ link[e] = "eof"
  /\ Fails(e, "send")
  /\ UNCHANGED <<resolve, kernel, history>>

\* doReceive reads until it has what it wants, or until EAGAIN, the end or an error.

ReceiveEvent(e) ==
  LET i == sock[e]
      task == i.receiveTask
      n == Wanted(task, Len(pipe[e]))
      data == task.data \o SubSeq(pipe[e], 1, n)
      complete == task.size = None \/ Len(data) = task.size
  IN
  /\ ReadDue(i) /\ task # None
  /\ pipe[e] # <<>> \/ link[e] = "eof" \/ Broken(e)
  /\ IF Broken(e)
       THEN UNCHANGED pipe
       ELSE pipe' = [pipe EXCEPT ![e] = SubSeq(@, n + 1, Len(@))]
  /\ \/ /\ ~Broken(e) /\ complete
        /\ Becomes(e, EndReceive(i))
        /\ got' = [got EXCEPT ![e] = @ \o data]
        /\ Answered(e, "receive")
     \/ /\ ~Broken(e) /\ ~complete /\ link[e] = "open"
        /\ Becomes(e, ReceiveMore(i, data))
        /\ UNCHANGED <<got, owed>>
     \/ /\ Broken(e) \/ (~complete /\ link[e] = "eof")
        /\ Fails(e, "receive")
        /\ UNCHANGED got
  /\ UNCHANGED <<resolve, conn, link, asked, handed>>

\* doAccept, with a connection in the backlog.

AcceptEvent ==
  LET i == sock["listener"] IN
  /\ ReadDue(i) /\ i.acceptTask /\ conn = "queued"
  /\ \/ /\ sock' = [sock EXCEPT !["listener"] = EndAccept(i), !["server"] = Accepted(@)]
        /\ conn' = "accepted"
        /\ Answered("listener", "accept")
     \/ Fails("listener", "accept") /\ UNCHANGED conn
  /\ UNCHANGED <<resolve, link, pipe, history>>

----------------------------------------------------------------------------
Next ==
  \/ ConnectHost \/ ConnectEndPoint \/ ListenOn \/ AcceptOn
  \/ \E e \in End : \/ \E n \in SendSize : SendOn(e, n)
                    \/ \E size \in ReceiveSize : ReceiveOn(e, size)
  \/ \E s \in Socket : CloseOn(s)
  \/ ResolverPosts \/ ResolverCalls
  \/ Handshake \/ \E e \in End : FinArrives(e) \/ ResetArrives(e)
  \/ ConnectEvent \/ TimerFires \/ AcceptEvent
  \/ \E e \in End : SendEvent(e) \/ SendFails(e) \/ ReceiveEvent(e)

Spec == Init /\ [][Next]_vars

(***************************************************************************)
(* Fairness: getaddrinfo returns, the queue runs what is posted to it, the *)
(* timer fires, and events of the sockets are delivered.  The network owes *)
(* nothing.                                                                *)
(***************************************************************************)
FairSpec ==
  /\ Spec
  /\ WF_vars(ResolverPosts) /\ WF_vars(ResolverCalls)
  /\ WF_vars(ConnectEvent) /\ WF_vars(TimerFires) /\ WF_vars(AcceptEvent)
  /\ \A e \in End : WF_vars(SendEvent(e)) /\ WF_vars(SendFails(e)) /\ WF_vars(ReceiveEvent(e))

\* Both ends read on, as the tests do: each callback receives again.

ReadingSpec == FairSpec /\ \A e \in End : WF_vars(ReceiveOn(e, None))

----------------------------------------------------------------------------
\* Types; a task never holds more than it was asked for, nor a buffer more
\* than it can.

TypeOK ==
  /\ sock \in [Socket -> Impl]
  /\ resolve \in {"none", "running", "posted"}
  /\ conn \in {"none", "syn", "queued", "accepted", "refused"}
  /\ link \in [End -> {"none", "open", "eof", "reset"}]
  /\ pipe \in [End -> Seq(Byte)]
  /\ owed \in [Socket -> SUBSET {"connect", "send", "receive", "accept"}]
  /\ asked \in [End -> Nat]
  /\ handed \in [End -> Nat]
  /\ got \in [End -> Seq(Byte)]
  /\ \A e \in End :
       /\ Len(pipe[e]) <= Capacity
       /\ sock[e].receiveTask # None /\ sock[e].receiveTask.size # None =>
            Len(sock[e].receiveTask.data) < sock[e].receiveTask.size

(***************************************************************************)
(* An event that can come finds the task its handler unwraps, in the state *)
(* the handler asserts, and the connection timer is set only while         *)
(* connecting: doSend, doReceive, doAccept and doConnectSuccess unwrap     *)
(* their task, and the timer's handler closes whatever it finds.           *)
(***************************************************************************)
EventsMatchState ==
  \A s \in Socket :
    LET i == sock[s] IN
    /\ WriteDue(i) => \/ i.state = "connecting" /\ i.connectTask = "connecting"
                      \/ i.state = "connected" /\ i.sendTask # None
    /\ ReadDue(i) => \/ i.state = "connected" /\ i.receiveTask # None
                     \/ i.state = "listening" /\ i.acceptTask
    /\ i.timer => i.state = "connecting"

(***************************************************************************)
(* A caller that knows the state of the socket and which of its own calls  *)
(* were answered knows that the preconditions of the next call hold, those *)
(* about tasks and dispatch sources it cannot see included.                *)
(***************************************************************************)
CallerKnowsEnough ==
  \A s \in Socket :
    LET i == sock[s] IN
    /\ i.state = "inited" => CanConnect(i) /\ CanListen(i)
    /\ i.state = "connected" /\ "send" \notin owed[s] => CanSend(i)
    /\ i.state = "connected" /\ "receive" \notin owed[s] => CanReceive(i)
    /\ i.state = "listening" /\ "accept" \notin owed[s] => CanAccept(i)

\* The slots agree with the state, the events and what the caller was told.

SlotsSound == EventsMatchState /\ CallerKnowsEnough

(***************************************************************************)
(* The stream keeps its bytes in order, once each: what receive handed     *)
(* out, what a receive under way holds and what the kernel buffers are     *)
(* together what the kernel took from the other end.  After a reset or a   *)
(* close the tail may be lost, and never a byte in the middle.  And a send *)
(* that was answered by its success callback left nothing behind.          *)
(***************************************************************************)
Numbered(n) == [k \in 1..n |-> k]
Partial(e) == IF sock[e].receiveTask = None THEN <<>> ELSE sock[e].receiveTask.data

StreamIntact ==
  \A e \in End :
    /\ got[e] = Numbered(Len(got[e]))
    /\ Len(got[e]) <= handed[Peer(e)]
    /\ link[e] \in {"open", "eof"} /\ sock[e].socket # "closed" =>
         got[e] \o Partial(e) \o pipe[e] = Numbered(handed[Peer(e)])
    /\ sock[e].state = "connected" /\ "send" \notin owed[e] => handed[e] = asked[e]

\* The stream is intact, and no receive nor buffer holds more than it may.

StreamSound == TypeOK /\ StreamIntact

(***************************************************************************)
(* A closed socket stays closed and calls nobody back, whatever was        *)
(* pending: a name resolution, a timer, a send, a receive.                 *)
(***************************************************************************)
SilentOnceClosed ==
  [][\A s \in Socket : sock[s].state = "closed" =>
       sock'[s] = sock[s] /\ owed'[s] = owed[s] /\ (s \in End => got'[s] = got[s])]_vars

(***************************************************************************)
(* connect is answered, or the socket closed: by the write event or by the *)
(* timer.  A receive is answered once its bytes, the end of the stream or  *)
(* an error are there.                                                     *)
(***************************************************************************)
Satisfiable(e) ==
  LET task == sock[e].receiveTask IN
  /\ task # None
  /\ \/ link[e] \in {"eof", "reset"}
     \/ task.size = None /\ pipe[e] # <<>>
     \/ task.size # None /\ Len(task.data) + Len(pipe[e]) >= task.size

ConnectAndReceiveEnd ==
  /\ sock["client"].state = "connecting" ~> sock["client"].state # "connecting"
  /\ \A e \in End :
       Satisfiable(e) ~> (sock[e].state = "closed" \/ "receive" \notin owed[e])

(***************************************************************************)
(* What the tests take for granted, and the code does not keep.            *)
(* TCPSocketTests.swift:146-153 waits for one of the two callbacks of a    *)
(* send; here, of a send to an end that reads on.                          *)
(***************************************************************************)
SendEnds ==
  \A e \in End :
    "send" \in owed[e] /\ sock[Peer(e)].state = "connected" ~>
      (sock[e].state = "closed" \/ sock[Peer(e)].state = "closed" \/ "send" \notin owed[e])

(***************************************************************************)
(* TCPSocketTests.swift:17-24 takes the success callback of connect for a  *)
(* connection, and a failure for the business of the error callback.       *)
(***************************************************************************)
ConnectedIsConnected == sock["client"].state = "connected" => conn # "refused"

============================================================================
