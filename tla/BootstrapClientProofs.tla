----------------------- MODULE BootstrapClientProofs -----------------------
(***************************************************************************)
(* Theorems about BootstrapClient, for any number of entries.              *)
(***************************************************************************)
EXTENDS BootstrapClient, TLAPS

(***************************************************************************)
(* Types.                                                                  *)
(***************************************************************************)
TypeInv ==
  /\ held \in BOOLEAN /\ terminated \in BOOLEAN /\ asked \in BOOLEAN
  /\ resolve \in {"none", "running", "posted"}
  /\ next \in {"none", "more", "last"}
  /\ sock \in Impl
  /\ connects \in Nat /\ entries \in Nat /\ errors \in Nat

\* Nothing can come from a socket that was not connected yet, or closed.

Asleep(i) ==
  /\ i.connectTask = "none" /\ ~i.timer /\ i.socket # "live"
  /\ i.sendTask = None /\ i.receiveTask = None

(***************************************************************************)
(* Where the client is, by the state of its socket: not connected, looking *)
(* for its host, connecting, connected, closed.  A client that is          *)
(* connected has the request to send, or an entry to receive, or its       *)
(* caller has the next() that starts the next receive; never two of them.  *)
(***************************************************************************)
StateInv ==
  /\ sock.state \in {"inited", "connecting", "connected", "closed"}
  /\ sock.state = "inited" =>
       Asleep(sock) /\ connects = 0 /\ ~asked /\ next = "none" /\ errors = 0 /\ ~held
  /\ sock.state = "connecting" =>
       /\ connects = 0 /\ ~asked /\ next = "none"
       /\ sock.sendTask = None /\ sock.receiveTask = None /\ sock.readSuspended
       /\ \/ sock.connectTask = "resolving" /\ sock.socket = "nil" /\ ~sock.timer
          \/ sock.connectTask = "connecting" /\ sock.socket = "live"
  /\ sock.state = "connected" =>
       /\ connects > 0 /\ sock.connectTask = "none" /\ ~sock.timer /\ sock.socket = "live"
       /\ sock.sendTask = None => sock.writeSuspended
       /\ sock.receiveTask = None => sock.readSuspended
       /\ sock.sendTask # None =>
            asked /\ sock.receiveTask = None /\ sock.sendTask.data = Request
       /\ ~asked => sock.receiveTask = None
       /\ next # "none" => asked /\ sock.sendTask = None /\ sock.receiveTask = None
  /\ sock.state = "closed" =>
       Asleep(sock) /\ (terminated \/ (errors > 0 /\ asked /\ next = "none"))

\* The socket is there until the end, and an error is the end.

EndInv ==
  /\ sock.state \in {"connecting", "connected"} => held /\ ~terminated /\ errors = 0
  /\ terminated => ~held
  /\ errors <= 1

IInv == TypeInv /\ StateInv /\ EndInv
----------------------------------------------------------------------------
(*                    The methods used, on any Impl                        *)

\* What a method writes into the slots.

LEMMA NoneIsNoTask ==
  /\ None \notin SendTask /\ None \notin ReceiveTask
  /\ [data |-> Request, sentSize |-> 0] \in SendTask
  /\ [size |-> EntrySize, data |-> <<>>] \in ReceiveTask
<1>1. None \notin SendTask /\ None \notin ReceiveTask
  BY NoneAssumption
<1>2. Request \in Seq(Byte) /\ EntrySize \in Nat
  BY DEF Request, Byte, EntrySize
<1>3. <<>> \in Seq(Byte)
  OBVIOUS
<1> QED
  BY <1>1, <1>2, <1>3 DEF SendTask, ReceiveTask

\* Closing leaves a socket that nothing comes from.

LEMMA Closes ==
  ASSUME NEW i \in Impl
  PROVE  Close(i) \in Impl /\ Close(i).state = "closed" /\ Asleep(Close(i))
<1> DEFINE left == IF i.socket = "live" THEN "closed" ELSE i.socket
           reads == i.readSuspended /\ i.socket # "live"
           writes == i.writeSuspended /\ i.socket # "live"
<1>1. left \in {"nil", "closed"} /\ reads \in BOOLEAN /\ writes \in BOOLEAN
  BY DEF Impl
<1>2. Shut(i) = [i EXCEPT !.socket = left, !.connectTask = "none", !.timer = FALSE,
                          !.sendTask = None, !.receiveTask = None, !.acceptTask = FALSE,
                          !.readSuspended = reads, !.writeSuspended = writes]
  BY Zenon DEF Shut
<1> HIDE DEF left, reads, writes
<1>3. Shut(i) \in Impl /\ Asleep(Shut(i))
  BY <1>1, <1>2 DEF Impl, Asleep
<1> QED
  BY <1>3 DEF Close, Impl, Asleep

\* A new socket has done nothing yet.

LEMMA NewSocket == NewImpl \in Impl /\ NewImpl.state = "inited" /\ Asleep(NewImpl)
BY DEF NewImpl, Impl, Asleep

\* Told to connect to a host name, it resolves that first.

LEMMA Resolves ==
  Resolve(NewImpl) \in Impl /\ Resolve(NewImpl).state = "connecting"
  /\ Resolve(NewImpl).connectTask = "resolving" /\ Resolve(NewImpl).socket = "nil"
  /\ ~Resolve(NewImpl).timer /\ Resolve(NewImpl).readSuspended
  /\ Resolve(NewImpl).sendTask = None /\ Resolve(NewImpl).receiveTask = None
BY DEF Resolve, NewImpl, Impl

\* Connecting changes neither slot nor the read source.

LEMMA Connects ==
  ASSUME NEW i \in Impl
  PROVE  /\ Connect(i) \in Impl /\ Connect(i).state = "connecting"
         /\ Connect(i).connectTask = "connecting" /\ Connect(i).socket = "live"
         /\ Connect(i).sendTask = i.sendTask /\ Connect(i).receiveTask = i.receiveTask
         /\ Connect(i).readSuspended = i.readSuspended
BY DEF Connect, Impl

\* Once connected it waits for nothing.

LEMMA IsConnected ==
  ASSUME NEW i \in Impl
  PROVE  /\ DoConnectSuccess(i) \in Impl /\ DoConnectSuccess(i).state = "connected"
         /\ DoConnectSuccess(i).connectTask = "none" /\ ~DoConnectSuccess(i).timer
         /\ DoConnectSuccess(i).socket = i.socket /\ DoConnectSuccess(i).writeSuspended
         /\ DoConnectSuccess(i).readSuspended = i.readSuspended
         /\ DoConnectSuccess(i).sendTask = i.sendTask
         /\ DoConnectSuccess(i).receiveTask = i.receiveTask
BY DEF DoConnectSuccess, Impl

\* The methods of a connected socket touch their own slot and source only.

Same(i, k) ==
  /\ k.state = i.state /\ k.socket = i.socket /\ k.connectTask = i.connectTask
  /\ k.timer = i.timer

\* A send waits with the whole request.

LEMMA Sends ==
  ASSUME NEW i \in Impl
  PROVE  LET k == Send(i, Request) IN
         /\ k \in Impl /\ Same(i, k)
         /\ k.sendTask # None /\ k.sendTask.data = Request
         /\ k.receiveTask = i.receiveTask /\ k.readSuspended = i.readSuspended
BY NoneIsNoTask DEF Send, Impl, Same

\* A receive waits for a whole entry.

LEMMA Receives ==
  ASSUME NEW i \in Impl
  PROVE  LET k == Receive(i, EntrySize) IN
         /\ k \in Impl /\ Same(i, k) /\ k.receiveTask # None
         /\ k.sendTask = i.sendTask /\ k.writeSuspended = i.writeSuspended
BY NoneIsNoTask DEF Receive, Impl, Same

\* An entry that came frees the slot.

LEMMA HasReceived ==
  ASSUME NEW i \in Impl
  PROVE  LET k == EndReceive(i) IN
         /\ k \in Impl /\ Same(i, k) /\ k.receiveTask = None /\ k.readSuspended
         /\ k.sendTask = i.sendTask /\ k.writeSuspended = i.writeSuspended
BY DEF EndReceive, Impl, Same

\* A send is done when the whole of it was taken at once.

LEMMA HasSent ==
  ASSUME NEW i \in Impl, i.sendTask # None, NEW n \in Nat
  PROVE  LET k == DoSend(i, n) IN
         /\ k \in Impl /\ Same(i, k) /\ k.writeSuspended
         /\ k.sendTask # None => k.sendTask.data = i.sendTask.data
         /\ n >= Len(i.sendTask.data) => k.sendTask = None
         /\ k.receiveTask = i.receiveTask /\ k.readSuspended = i.readSuspended
<1>1. i.sendTask \in SendTask
  BY DEF Impl
<1>2. i.sendTask.sentSize + n \in Nat
  BY <1>1 DEF SendTask
<1>3. [i.sendTask EXCEPT !.sentSize = i.sendTask.sentSize + n] \in SendTask
  BY <1>1, <1>2 DEF SendTask
<1>4. Len(i.sendTask.data) \in Nat /\ i.sendTask.sentSize \in Nat
  BY <1>1 DEF SendTask
<1>5. n >= Len(i.sendTask.data) => ~(i.sendTask.sentSize + n < Len(i.sendTask.data))
  BY <1>4
<1> QED
  BY <1>1, <1>3, <1>5 DEF DoSend, Impl, Same, SendTask

----------------------------------------------------------------------------
(*                            The invariant                                *)

\* The invariant holds before the client is told to connect.

LEMMA InitInv == Init => IInv
<1> SUFFICES ASSUME Init PROVE IInv
  OBVIOUS
<1>1. sock = NewImpl
  BY DEF Init
<1>2. TypeInv
  BY <1>1, NewSocket DEF Init, TypeInv
<1>3. StateInv /\ EndInv
  BY <1>1, NewSocket DEF Init, StateInv, EndInv
<1> QED
  BY <1>2, <1>3 DEF IInv

(***************************************************************************)
(* The end of a client: its socket is closed, and it is let go or the      *)
(* caller is told of the one error.                                        *)
(***************************************************************************)
LEMMA ClosingKeeps ==
  ASSUME IInv, sock' = Close(sock),
         UNCHANGED <<asked, next, connects, entries>>,
         resolve' \in {"none", "running", "posted"}, held' \in BOOLEAN, terminated' \in BOOLEAN,
         \/ terminated' = TRUE /\ held' = FALSE
         \/ terminated' = FALSE /\ asked /\ next = "none" /\ errors' = 1,
         errors' = errors \/ (errors = 0 /\ errors' = 1)
  PROVE  IInv'
<1>1. sock' \in Impl /\ sock'.state = "closed" /\ Asleep(sock')
  BY Closes DEF IInv, TypeInv
<1>2. errors \in Nat /\ errors' \in Nat /\ errors' <= 1
  BY DEF IInv, TypeInv, EndInv
<1>3. TypeInv'
  BY <1>1, <1>2 DEF IInv, TypeInv
<1>4. StateInv'
  <2>1. Asleep(sock)'
    BY <1>1 DEF Asleep
  <2>2. terminated' \/ (errors' > 0 /\ asked' /\ next' = "none")
    <3>1. CASE terminated' = TRUE
      BY <3>1
    <3>2. CASE asked /\ next = "none" /\ errors' = 1
      BY <3>2
    <3> QED
      BY <3>1, <3>2
  <2> QED
    BY <1>1, <2>1, <2>2 DEF StateInv
<1>5. EndInv'
  BY <1>1, <1>2 DEF EndInv
<1> QED
  BY <1>3, <1>4, <1>5 DEF IInv

\* doError, in a client whose socket was told to connect.

LEMMA DoErrorKeeps ==
  ASSUME IInv, DoError, sock.state \in {"connecting", "connected"},
         UNCHANGED <<asked, next>>, resolve' \in {"none", "running", "posted"}
  PROVE  IInv'
<1>1. held /\ ~terminated /\ errors = 0
  BY DEF IInv, EndInv
<1>2. /\ held' = FALSE /\ sock' = Close(sock) /\ terminated' = TRUE /\ errors' = 1
      /\ UNCHANGED <<connects, entries>>
  BY <1>1 DEF DoError, Ends
<1> QED
  BY <1>1, <1>2, ClosingKeeps

\* An event of a socket finds it where the event belongs.

LEMMA Events ==
  ASSUME IInv
  PROVE  /\ ResolverHeard(sock) => sock.state = "connecting" /\ ~sock.timer
         /\ sock.timer => sock.state = "connecting"
         /\ WriteDue(sock) /\ sock.connectTask = "connecting" => sock.state = "connecting"
         /\ WriteDue(sock) /\ sock.sendTask # None => sock.state = "connected"
         /\ ReadDue(sock) /\ sock.receiveTask # None => sock.state = "connected"
BY DEF IInv, StateInv, Asleep, ResolverHeard, WriteDue, ReadDue

\* Every step keeps it.

LEMMA StepInv == IInv /\ [Next]_vars => IInv'
<1> SUFFICES ASSUME IInv, [Next]_vars PROVE IInv'
  OBVIOUS
<1>1. sock \in Impl /\ TypeInv /\ StateInv /\ EndInv
  BY DEF IInv, TypeInv
<1>2. CASE ConnectTo
  <2>1. /\ sock' = Resolve(NewImpl) /\ sock.state = "inited" /\ ~terminated
        /\ held' = TRUE /\ resolve' = "running"
        /\ UNCHANGED <<terminated, asked, next, connects, entries, errors>>
    BY <1>2 DEF ConnectTo, told
  <2>2. connects = 0 /\ ~asked /\ next = "none" /\ errors = 0
    BY <1>1, <2>1 DEF StateInv
  <2>3. TypeInv'
    BY <1>1, <2>1, Resolves DEF TypeInv
  <2>4. StateInv' /\ EndInv'
    BY <2>1, <2>2, Resolves DEF StateInv, EndInv
  <2> QED
    BY <2>3, <2>4 DEF IInv
<1>3. CASE RequestAccount
  <2>1. /\ connects > 0 /\ ~asked /\ ~terminated
        /\ asked' = TRUE /\ sock' = Send(sock, Request)
        /\ UNCHANGED <<held, resolve, terminated, next, connects, entries, errors>>
    BY <1>3 DEF RequestAccount, told
  <2>2. /\ sock' \in Impl /\ Same(sock, sock')
        /\ sock'.sendTask # None /\ sock'.sendTask.data = Request
        /\ sock'.receiveTask = sock.receiveTask /\ sock'.readSuspended = sock.readSuspended
    BY <1>1, <2>1, Sends
  <2>3. sock.state = "connected"
    BY <1>1, <2>1 DEF StateInv, TypeInv
  <2>4. TypeInv'
    BY <1>1, <2>1, <2>2 DEF TypeInv
  <2>5. StateInv' /\ EndInv'
    BY <1>1, <2>1, <2>2, <2>3 DEF StateInv, EndInv, Same
  <2> QED
    BY <2>4, <2>5 DEF IInv
<1>4. CASE CallNext
  <2>1. /\ next # "none" /\ ~terminated /\ next' = "none"
        /\ sock' = Receive(sock, EntrySize) \/ sock' = sock
        /\ UNCHANGED <<held, resolve, terminated, asked, connects, entries, errors>>
    BY <1>4 DEF CallNext, told
  <2>2. sock.state = "connected"
    BY <1>1, <2>1 DEF StateInv, TypeInv
  <2>3. CASE sock' = sock
    <3>1. TypeInv'
      BY <1>1, <2>1, <2>3 DEF TypeInv
    <3>2. StateInv' /\ EndInv'
      BY <1>1, <2>1, <2>2, <2>3 DEF StateInv, EndInv
    <3> QED
      BY <3>1, <3>2 DEF IInv
  <2>4. CASE sock' = Receive(sock, EntrySize)
    <3>1. /\ sock' \in Impl /\ Same(sock, sock') /\ sock'.receiveTask # None
          /\ sock'.sendTask = sock.sendTask /\ sock'.writeSuspended = sock.writeSuspended
      BY <1>1, <2>4, Receives
    <3>2. TypeInv'
      BY <1>1, <2>1, <3>1 DEF TypeInv
    <3>3. StateInv' /\ EndInv'
      BY <1>1, <2>1, <2>2, <3>1 DEF StateInv, EndInv, Same
    <3> QED
      BY <3>2, <3>3 DEF IInv
  <2> QED
    BY <2>1, <2>3, <2>4
<1>5. CASE Terminate
  <2>1. /\ held' = FALSE /\ terminated' = TRUE
        /\ sock' = IF held THEN Close(sock) ELSE sock
        /\ UNCHANGED <<resolve, asked, next, connects, entries, errors>>
    BY <1>5 DEF Terminate, Ends, told
  <2>2. CASE held
    <3>1. /\ sock' = Close(sock) /\ errors' = errors
          /\ resolve' \in {"none", "running", "posted"}
          /\ held' \in BOOLEAN /\ terminated' \in BOOLEAN
          /\ terminated' = TRUE /\ held' = FALSE
      BY <1>1, <2>1, <2>2 DEF TypeInv
    <3> QED
      BY <2>1, <3>1, ClosingKeeps
  <2>3. CASE ~held
    <3>1. TypeInv'
      BY <1>1, <2>1, <2>3 DEF TypeInv
    <3>2. sock.state \in {"inited", "closed"}
      BY <1>1, <2>3 DEF StateInv, EndInv
    <3>3. StateInv' /\ EndInv'
      BY <1>1, <2>1, <2>3, <3>2 DEF StateInv, EndInv, Asleep
    <3> QED
      BY <3>1, <3>3 DEF IInv
  <2> QED
    BY <2>2, <2>3
<1>6. CASE NamePosted
  <2>1. /\ resolve' = "posted"
        /\ UNCHANGED <<held, sock, terminated, asked, next, connects, entries, errors>>
    BY <1>6 DEF NamePosted, told
  <2>2. TypeInv'
    BY <1>1, <2>1 DEF TypeInv
  <2>3. StateInv' /\ EndInv'
    BY <1>1, <2>1 DEF StateInv, EndInv, Asleep
  <2> QED
    BY <2>2, <2>3 DEF IInv
<1>7. CASE NameResolved
  <2>1. resolve' = "none" /\ UNCHANGED <<asked, next>>
    BY <1>7 DEF NameResolved
  <2>2. ASSUME ResolverHeard(sock), sock' = Connect(sock),
               UNCHANGED <<held, terminated, connects, entries, errors>>
        PROVE  IInv'
    <3>1. sock.state = "connecting"
      BY <2>2, Events
    <3>2. /\ sock' \in Impl /\ sock'.state = "connecting"
          /\ sock'.connectTask = "connecting" /\ sock'.socket = "live"
          /\ sock'.sendTask = sock.sendTask /\ sock'.receiveTask = sock.receiveTask
          /\ sock'.readSuspended = sock.readSuspended
      BY <1>1, <2>2, Connects
    <3>3. TypeInv'
      BY <1>1, <2>1, <2>2, <3>2 DEF TypeInv
    <3>4. StateInv' /\ EndInv'
      BY <1>1, <2>1, <2>2, <3>1, <3>2 DEF StateInv, EndInv
    <3> QED
      BY <3>3, <3>4 DEF IInv
  <2>3. ASSUME ResolverHeard(sock), DoError PROVE IInv'
    BY <2>1, <2>3, Events, DoErrorKeeps
  <2>4. ASSUME UNCHANGED <<held, sock, terminated, connects, entries, errors>> PROVE IInv'
    <3>1. TypeInv'
      BY <1>1, <2>1, <2>4 DEF TypeInv
    <3>2. StateInv' /\ EndInv'
      BY <1>1, <2>1, <2>4 DEF StateInv, EndInv, Asleep
    <3> QED
      BY <3>1, <3>2 DEF IInv
  <2> QED
    BY <1>7, <2>2, <2>3, <2>4 DEF NameResolved, told
<1>8. CASE ConnectTimesOut
  BY <1>1, <1>8, Events, DoErrorKeeps DEF ConnectTimesOut, TypeInv
<1>9. CASE ConnectSucceeds
  <2>1. /\ WriteDue(sock) /\ sock.connectTask = "connecting"
        /\ sock' = DoConnectSuccess(sock) /\ connects' = connects + 1
        /\ UNCHANGED <<held, resolve, terminated, asked, next, entries, errors>>
    BY <1>9 DEF ConnectSucceeds
  <2>2. sock.state = "connecting" /\ sock.socket = "live"
    BY <2>1, Events DEF WriteDue
  <2>3. /\ sock' \in Impl /\ sock'.state = "connected"
        /\ sock'.connectTask = "none" /\ ~sock'.timer
        /\ sock'.socket = sock.socket /\ sock'.writeSuspended
        /\ sock'.readSuspended = sock.readSuspended
        /\ sock'.sendTask = sock.sendTask /\ sock'.receiveTask = sock.receiveTask
    BY <1>1, <2>1, IsConnected
  <2>4. connects' \in Nat /\ connects' > 0
    BY <1>1, <2>1 DEF TypeInv
  <2>5. TypeInv'
    BY <1>1, <2>1, <2>3, <2>4 DEF TypeInv
  <2>6. StateInv' /\ EndInv'
    BY <1>1, <2>1, <2>2, <2>3, <2>4 DEF StateInv, EndInv
  <2> QED
    BY <2>5, <2>6 DEF IInv
<1>10. ASSUME NEW n \in 1..Len(Request), RequestSent(n) PROVE IInv'
  <2> DEFINE k == DoSend(sock, n)
  <2>1. /\ WriteDue(sock) /\ sock.sendTask # None
        /\ sock' = IF n = Len(Request) THEN Receive(k, EntrySize) ELSE k
        /\ UNCHANGED <<held, resolve, terminated, asked, next, connects, entries, errors>>
    BY <1>10 DEF RequestSent, told
  <2>2. sock.state = "connected"
    BY <2>1, Events
  <2>3. n \in Nat /\ n <= Len(Request)
    BY DEF Request
  <2>4. /\ k \in Impl /\ Same(sock, k) /\ k.writeSuspended
        /\ k.sendTask # None => k.sendTask.data = sock.sendTask.data
        /\ n >= Len(sock.sendTask.data) => k.sendTask = None
        /\ k.receiveTask = sock.receiveTask /\ k.readSuspended = sock.readSuspended
    BY <1>1, <2>1, <2>3, HasSent
  <2>5. /\ sock.sendTask.data = Request /\ sock.receiveTask = None /\ asked
        /\ next = "none" /\ sock.readSuspended
    BY <1>1, <2>1, <2>2 DEF StateInv
  <2> HIDE DEF k
  <2>6. CASE n = Len(Request)
    <3>1. k.sendTask = None
      BY <2>3, <2>4, <2>5, <2>6
    <3>2. /\ sock' \in Impl /\ Same(k, sock') /\ sock'.receiveTask # None
          /\ sock'.sendTask = k.sendTask /\ sock'.writeSuspended = k.writeSuspended
      BY <2>1, <2>4, <2>6, Receives
    <3>3. TypeInv'
      BY <1>1, <2>1, <3>2 DEF TypeInv
    <3>4. StateInv' /\ EndInv'
      BY <1>1, <2>1, <2>2, <2>4, <2>5, <3>1, <3>2 DEF StateInv, EndInv, Same
    <3> QED
      BY <3>3, <3>4 DEF IInv
  <2>7. CASE n # Len(Request)
    <3>1. sock' = k
      BY <2>1, <2>7
    <3>2. TypeInv'
      BY <1>1, <2>1, <2>4, <3>1 DEF TypeInv
    <3>3. StateInv' /\ EndInv'
      BY <1>1, <2>1, <2>2, <2>4, <2>5, <3>1 DEF StateInv, EndInv, Same
    <3> QED
      BY <3>2, <3>3 DEF IInv
  <2> QED
    BY <2>6, <2>7
<1>11. CASE RequestFails
  BY <1>1, <1>11, Events, DoErrorKeeps DEF RequestFails, TypeInv
<1>12. ASSUME NEW kind \in {"more", "last"}, EntryReceived(kind) PROVE IInv'
  <2>1. /\ ReadDue(sock) /\ sock.receiveTask # None
        /\ sock' = EndReceive(sock)
        /\ UNCHANGED <<held, resolve, terminated, asked, connects, errors>>
    BY <1>12 DEF EntryReceived
  <2>2. sock.state = "connected" /\ ~terminated
    BY <1>1, <2>1, Events DEF EndInv
  <2>3. next' = kind /\ entries' = entries + 1
    BY <1>12, <2>2 DEF EntryReceived
  <2>4. /\ sock' \in Impl /\ Same(sock, sock')
        /\ sock'.receiveTask = None /\ sock'.readSuspended
        /\ sock'.sendTask = sock.sendTask /\ sock'.writeSuspended = sock.writeSuspended
    BY <1>1, <2>1, HasReceived
  <2>5. sock.sendTask = None /\ asked
    BY <1>1, <2>1, <2>2 DEF StateInv
  <2>6. TypeInv'
    BY <1>1, <2>1, <2>3, <2>4 DEF TypeInv
  <2>7. StateInv' /\ EndInv'
    BY <1>1, <2>1, <2>2, <2>3, <2>4, <2>5 DEF StateInv, EndInv, Same
  <2> QED
    BY <2>6, <2>7 DEF IInv
<1>13. CASE EntryUnreadable
  BY <1>1, <1>13, Events, DoErrorKeeps DEF EntryUnreadable, TypeInv
<1>14. CASE ReceiveFails
  <2>1. /\ ReadDue(sock) /\ sock.receiveTask # None
        /\ sock' = Close(sock) /\ errors' = errors + 1
        /\ UNCHANGED <<held, resolve, terminated, asked, next, connects, entries>>
    BY <1>14 DEF ReceiveFails
  <2>2. sock.state = "connected"
    BY <2>1, Events
  <2>3. errors = 0 /\ ~terminated /\ asked /\ next = "none"
    BY <1>1, <2>1, <2>2 DEF StateInv, EndInv
  <2>4. terminated' = FALSE /\ errors' = 1
    BY <1>1, <2>1, <2>3 DEF TypeInv
  <2>5. resolve' \in {"none", "running", "posted"} /\ held' \in BOOLEAN /\ terminated' \in BOOLEAN
    BY <1>1, <2>1 DEF TypeInv
  <2> QED
    BY <2>1, <2>3, <2>4, <2>5, ClosingKeeps
<1>15. CASE UNCHANGED vars
  <2>1. UNCHANGED <<held, resolve, sock, terminated, asked, next, connects, entries, errors>>
    BY <1>15 DEF vars
  <2>2. TypeInv'
    BY <1>1, <2>1 DEF TypeInv
  <2>3. StateInv' /\ EndInv'
    BY <1>1, <2>1 DEF StateInv, EndInv, Asleep
  <2> QED
    BY <2>2, <2>3 DEF IInv
<1> QED
  BY <1>2, <1>3, <1>4, <1>5, <1>6, <1>7, <1>8, <1>9, <1>10, <1>11, <1>12, <1>13, <1>14,
     <1>15 DEF Next

----------------------------------------------------------------------------
\* The client is where its caller's knowledge says, in every reachable state.

THEOREM Invariant == Spec => []IInv
BY InitInv, StepInv, PTL DEF Spec

(***************************************************************************)
(* A caller that was told of no error can make its next call: no           *)
(* precondition of TCPSocket fails and no nil socket is unwrapped          *)
(* (BootstrapClient.requestAccount(), its reader's next()), and at most    *)
(* one error is told.                                                      *)
(***************************************************************************)
THEOREM CallsAreAllowed == Spec => []CallerKnowsEnough
<1>1. IInv => CallerKnowsEnough
  <2> SUFFICES ASSUME IInv PROVE CallerKnowsEnough
    OBVIOUS
  <2>1. /\ sock.state = "inited" => connects = 0 /\ next = "none"
        /\ sock.state = "connecting" => connects = 0 /\ next = "none"
        /\ sock.state = "closed" => terminated \/ errors > 0
        /\ sock.state \in {"inited", "connecting", "connected", "closed"}
    BY DEF IInv, StateInv
  <2>2. errors = 0 /\ ~terminated /\ (connects > 0 \/ next # "none") => sock.state = "connected"
    BY <2>1
  <2>3. sock.state = "connected" =>
          /\ held /\ sock.socket = "live"
          /\ ~asked => sock.sendTask = None /\ sock.writeSuspended
          /\ next # "none" => sock.receiveTask = None /\ sock.readSuspended
    BY DEF IInv, StateInv, EndInv
  <2>4. errors <= 1
    BY DEF IInv, EndInv
  <2> QED
    BY <2>2, <2>3, <2>4 DEF CallerKnowsEnough, CanSend, CanReceive
<1> QED
  BY <1>1, Invariant, PTL

(***************************************************************************)
(* Once terminated, a client calls no handler and its socket stays closed, *)
(* whatever was under way (BootstrapClient.terminate(), doError()).        *)
(***************************************************************************)
THEOREM TerminationIsFinal == Spec => SilentOnceTerminated
<1>1. ASSUME IInv, [Next]_vars, terminated
      PROVE  told' = told /\ (sock.state # "inited" => sock'.state = "closed")
  <2>1. /\ ~held /\ sock.state \in {"inited", "closed"} /\ Asleep(sock)
        /\ sock.state = "inited" => connects = 0 /\ next = "none"
    BY <1>1 DEF IInv, StateInv, EndInv
  <2>2. /\ ~ResolverHeard(sock) /\ ~sock.timer /\ ~WriteDue(sock) /\ ~ReadDue(sock)
    BY <2>1 DEF Asleep, ResolverHeard, WriteDue, ReadDue
  <2>3. CASE Terminate
    BY <2>1, <2>3 DEF Terminate, Ends
  <2>4. CASE NamePosted \/ NameResolved
    BY <2>1, <2>2, <2>4 DEF NamePosted, NameResolved
  <2>5. ~ConnectTo /\ ~RequestAccount /\ ~CallNext
    BY <1>1 DEF ConnectTo, RequestAccount, CallNext
  <2>6. ~ConnectTimesOut /\ ~ConnectSucceeds /\ ~RequestFails /\ ~EntryUnreadable /\ ~ReceiveFails
    BY <2>2 DEF ConnectTimesOut, ConnectSucceeds, RequestFails, EntryUnreadable, ReceiveFails
  <2>7. /\ \A n \in 1..Len(Request) : ~RequestSent(n)
        /\ \A kind \in {"more", "last"} : ~EntryReceived(kind)
    BY <2>2 DEF RequestSent, EntryReceived
  <2>8. CASE UNCHANGED vars
    BY <2>1, <2>8 DEF vars, told
  <2> QED
    BY <1>1, <2>3, <2>4, <2>5, <2>6, <2>7, <2>8 DEF Next
<1>2. IInv /\ [Next]_vars =>
        [terminated => told' = told /\ (sock.state # "inited" => sock'.state = "closed")]_vars
  BY <1>1
<1> QED
  BY <1>2, Invariant, PTL DEF Spec, SilentOnceTerminated

=============================================================================
