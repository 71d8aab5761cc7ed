-------------------------- MODULE BootstrapClient --------------------------
(***************************************************************************)
(* BootstrapClient (RaiBlocksNode/BootstrapClient.swift) on its TCPSocket: *)
(* connect, send one request, then receive entries one by one, each        *)
(* receive started by the caller's next().  What a socket does with bytes  *)
(* is TCPConnection's subject; here a request and an entry are sent and    *)
(* received whole, fail, or get stuck half way.                            *)
(*                                                                         *)
(* The caller is one like BootstrapDriver or the test: it connects once,   *)
(* asks once when told that it is connected, calls each next() at most     *)
(* once, at any time, and may terminate at any time.  next() after         *)
(* terminate unwraps a nil socket; the code leaves that to the caller.     *)
(***************************************************************************)
EXTENDS TCPSocket

CONSTANT MaxEntries     \* bound: entries received

ASSUME MaxEntriesAssumption == MaxEntries \in Nat

VARIABLES
  held,        \* _socket is not nil
  resolve,     \* the socket's name resolution on the global queue
  sock,        \* the Impl of that socket, or of the last one
  terminated,  \* _terminated
  asked,       \* requestAccount was called
  next,        \* the next() the caller has and did not call: "none", "more", "last"
  connects,    \* history: calls of connect's success handler
  entries,     \* history: calls of entryHandler
  errors       \* history: calls of an error handler

told == <<connects, entries, errors>>
vars == <<held, resolve, sock, terminated, asked, next, connects, entries, errors>>

Request == <<1, 2>>       \* more than a byte, so that it can be sent in part
EntrySize == 64

Init ==
  /\ held = FALSE
  /\ resolve = "none"
  /\ sock = NewImpl
  /\ terminated = FALSE
  /\ asked = FALSE
  /\ next = "none"
  /\ connects = 0
  /\ entries = 0
  /\ errors = 0

\* (Faulty variant: the flag alone.)

EndsByFlag ==
  /\ terminated' = TRUE
  /\ UNCHANGED <<held, sock>>

\* _terminate, and _terminated = true.

Ends ==
  /\ held' = FALSE
  /\ sock' = IF held THEN Close(sock) ELSE sock
  /\ terminated' = TRUE

\* doError, called by the socket, which has closed itself, or by a reader.

DoError ==
  IF terminated
    THEN sock' = Close(sock) /\ UNCHANGED <<held, terminated, told>>
    ELSE Ends /\ errors' = errors + 1 /\ UNCHANGED <<connects, entries>>

----------------------------------------------------------------------------
\* The caller.

ConnectTo ==
  /\ ~held /\ ~terminated /\ sock.state = "inited"
  /\ held' = TRUE
  /\ resolve' = "running"
  /\ sock' = Resolve(NewImpl)
  /\ UNCHANGED <<terminated, asked, next, told>>

RequestAccount ==
  /\ connects > 0 /\ ~asked /\ ~terminated
  /\ asked' = TRUE
  /\ sock' = Send(sock, Request)
  /\ UNCHANGED <<held, resolve, terminated, next, told>>

\* next(): nothing after the last entry, whose account is nil.

CallNext ==
  /\ next # "none" /\ ~terminated
  /\ next' = "none"
  /\ sock' = IF next = "more" THEN Receive(sock, EntrySize) ELSE sock
  /\ UNCHANGED <<held, resolve, terminated, asked, told>>

Terminate ==
  /\ Ends
  /\ UNCHANGED <<resolve, asked, next, told>>

----------------------------------------------------------------------------
\* Events of the socket.

NamePosted ==
  /\ resolve = "running"
  /\ resolve' = "posted"
  /\ UNCHANGED <<held, sock, terminated, asked, next, told>>

\* Nothing comes of it when the socket was closed meanwhile.

NameResolved ==
  /\ resolve = "posted"
  /\ resolve' = "none"
  /\ \/ /\ ResolverHeard(sock)
        /\ sock' = Connect(sock)
        /\ UNCHANGED <<held, terminated, told>>
     \/ ResolverHeard(sock) /\ DoError
     \/ ~ResolverHeard(sock) /\ UNCHANGED <<held, sock, terminated, told>>
  /\ UNCHANGED <<asked, next>>

ConnectTimesOut ==
  /\ sock.timer
  /\ DoError
  /\ UNCHANGED <<resolve, asked, next>>

ConnectSucceeds ==
  /\ WriteDue(sock) /\ sock.connectTask = "connecting"
  /\ sock' = DoConnectSuccess(sock)
  /\ connects' = connects + 1
  /\ UNCHANGED <<held, resolve, terminated, asked, next, entries, errors>>

\* The kernel takes n bytes of the request.  Once it is sent, the success
\* handler receives the first entry.

RequestSent(n) ==
  /\ WriteDue(sock) /\ sock.sendTask # None
  /\ sock' = IF n = Len(Request) THEN Receive(DoSend(sock, n), EntrySize) ELSE DoSend(sock, n)
  /\ UNCHANGED <<held, resolve, terminated, asked, next, told>>

RequestFails ==
  /\ WriteDue(sock) /\ sock.sendTask # None
  /\ DoError
  /\ UNCHANGED <<resolve, asked, next>>

\* (Faulty variant: the next receive is started without waiting for next().)

EntryReceivedAndGoesOn(kind) ==
  /\ ReadDue(sock) /\ sock.receiveTask # None /\ entries < MaxEntries
  /\ sock' = Receive(EndReceive(sock), EntrySize)
  /\ next' = kind
  /\ entries' = entries + 1
  /\ UNCHANGED <<held, resolve, terminated, asked, connects, errors>>

\* An entry that can be read goes to the caller, with its next().

EntryReceived(kind) ==
  /\ ReadDue(sock) /\ sock.receiveTask # None /\ entries < MaxEntries
  /\ sock' = EndReceive(sock)
  /\ IF terminated
       THEN UNCHANGED <<next, entries>>
       ELSE next' = kind /\ entries' = entries + 1
  /\ UNCHANGED <<held, resolve, terminated, asked, connects, errors>>

EntryUnreadable ==
  /\ ReadDue(sock) /\ sock.receiveTask # None
  /\ DoError
  /\ UNCHANGED <<resolve, asked, next>>

\* A receive that fails calls the caller's error handler, not doError: the
\* client keeps the closed socket and does not count as terminated.

ReceiveFails ==
  /\ ReadDue(sock) /\ sock.receiveTask # None
  /\ sock' = Close(sock)
  /\ errors' = errors + 1
  /\ UNCHANGED <<held, resolve, terminated, asked, next, connects, entries>>

----------------------------------------------------------------------------
Next ==
  \/ ConnectTo \/ RequestAccount \/ CallNext \/ Terminate
  \/ NamePosted \/ NameResolved \/ ConnectTimesOut \/ ConnectSucceeds
  \/ \E n \in 1..Len(Request) : RequestSent(n)
  \/ RequestFails
  \/ \E kind \in {"more", "last"} : EntryReceived(kind)
  \/ EntryUnreadable \/ ReceiveFails

Spec == Init /\ [][Next]_vars

----------------------------------------------------------------------------
(***************************************************************************)
(* A caller that was told of no error and did not terminate knows that the *)
(* client can do what it calls next: there is a socket, it is connected,   *)
(* and the slot it needs is free.  And it is told of one error at most.    *)
(* (Nothing is promised to a caller that was told of a failing receive, or *)
(* that calls next() after it terminated, or twice.)                       *)
(***************************************************************************)
CallerKnowsEnough ==
  /\ errors = 0 /\ ~terminated /\ connects > 0 /\ ~asked => held /\ CanSend(sock)
  /\ errors = 0 /\ ~terminated /\ next # "none" => held /\ CanReceive(sock)
  /\ errors <= 1

(***************************************************************************)
(* Once the client is terminated, by its caller or by an error, the socket *)
(* is closed and no handler is called any more.                            *)
(***************************************************************************)
SilentOnceTerminated ==
  [][terminated => told' = told /\ (sock.state # "inited" => sock'.state = "closed")]_vars

============================================================================
