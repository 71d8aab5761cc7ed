------------------------- MODULE TCPConnectionProofs -------------------------
(***************************************************************************)
(* Theorems about TCPConnection, for any capacity of the kernel's buffers, *)
(* any sizes of sends and receives and any number of bytes.                *)
(***************************************************************************)
EXTENDS TCPConnection, SequenceTheorems, TLAPS

\* The n bytes that follow the first h.

Following(h, n) == [k \in 1..n |-> h + k]

(***************************************************************************)
(* A socket, and the operations o its callers are owed an answer to: what  *)
(* can be set in each state.  Nothing is before the first call, nothing    *)
(* but the connection while connecting, and after the end nothing is.      *)
(***************************************************************************)
Idle(i) == i.connectTask = "none" /\ ~i.timer

Slots(i, o) ==
  /\ i.state = "inited" => i = NewImpl
  /\ i.state = "connecting" =>
       /\ i.sendTask = None /\ i.receiveTask = None /\ ~i.acceptTask /\ i.readSuspended
       /\ \/ i.connectTask = "resolving" /\ i.socket = "nil" /\ ~i.timer
          \/ i.connectTask = "connecting" /\ i.socket = "live"
  /\ i.state = "connected" =>
       /\ Idle(i) /\ i.socket = "live" /\ ~i.acceptTask
       /\ IF i.sendTask = None THEN i.writeSuspended ELSE "send" \in o
       /\ IF i.receiveTask = None THEN i.readSuspended ELSE "receive" \in o
  /\ i.state = "listening" =>
       /\ Idle(i) /\ i.socket = "live" /\ i.sendTask = None /\ i.receiveTask = None
       /\ i.writeSuspended
       /\ IF i.acceptTask THEN "accept" \in o ELSE i.readSuspended
  /\ i.state = "closed" =>
       /\ Idle(i) /\ i.socket # "live"
       /\ i.sendTask = None /\ i.receiveTask = None /\ ~i.acceptTask

(***************************************************************************)
(* Of the a bytes an end was asked to send, the kernel took h: all of      *)
(* them, or the task has the rest.  Its event comes only before the kernel *)
(* took the first of them.                                                 *)
(***************************************************************************)
Sending(i, a, h) ==
  /\ i.state \in {"inited", "connecting"} => a = 0 /\ h = 0
  /\ i.state = "connected" /\ i.sendTask = None => a = h
  /\ i.state = "connected" /\ i.sendTask # None =>
       \E m \in Nat :
         /\ i.sendTask.sentSize <= h /\ i.sendTask.sentSize < m
         /\ i.sendTask.data = Following(h - i.sendTask.sentSize, m)
         /\ a = h - i.sendTask.sentSize + m
         /\ ~i.writeSuspended => i.sendTask.sentSize = 0

\* An end with link l and buffer p was given g of the h bytes on their way to it.

Held(i) == IF i.receiveTask = None THEN <<>> ELSE i.receiveTask.data

Flow(i, l, p, g, h) ==
  /\ g = Numbered(Len(g)) /\ Len(g) <= h
  /\ l \in {"open", "eof"} /\ i.socket # "closed" => g \o Held(i) \o p = Numbered(h)
  /\ i.receiveTask # None /\ i.receiveTask.size # None =>
       Len(i.receiveTask.data) < i.receiveTask.size

\* The stages of the connection, and what there is of it before it is made.

Stages ==
  /\ sock["client"].socket = "nil" => conn = "none"
  /\ conn \in {"none", "syn"} => sock["client"].state \in {"inited", "connecting", "closed"}
  /\ conn # "accepted" => sock["server"] = NewImpl
  /\ conn = "accepted" => sock["server"].socket # "nil"
  /\ conn \in {"queued", "accepted"} => \A e \in End : link[e] # "none"
  /\ conn \in {"none", "syn", "refused"} =>
       \A e \in End : link[e] = "none" /\ handed[e] = 0 /\ got[e] = <<>> /\ pipe[e] = <<>>

Types ==
  /\ sock \in [Socket -> Impl]
  /\ resolve \in {"none", "running", "posted"}
  /\ conn \in {"none", "syn", "queued", "accepted", "refused"}
  /\ link \in [End -> {"none", "open", "eof", "reset"}]
  /\ pipe \in [End -> Seq(Byte)]
  /\ owed \in [Socket -> SUBSET {"connect", "send", "receive", "accept"}]
  /\ asked \in [End -> Nat] /\ handed \in [End -> Nat]
  /\ got \in [End -> Seq(Byte)]
  /\ \A e \in End : Len(pipe[e]) <= Capacity

IInv ==
  /\ Types
  /\ \A s \in Socket : Slots(sock[s], owed[s])
  /\ \A e \in End : /\ Sending(sock[e], asked[e], handed[e])
                    /\ Flow(sock[e], link[e], pipe[e], got[e], handed[Peer(e)])
  /\ Stages
----------------------------------------------------------------------------
(*                               Sequences                                 *)

\* A piece of a sequence has the length asked for.

LEMMA Pieces ==
  ASSUME NEW s \in Seq(Byte), NEW n \in 0..Len(s)
  PROVE  /\ SubSeq(s, 1, n) \in Seq(Byte) /\ Len(SubSeq(s, 1, n)) = n
         /\ SubSeq(s, n + 1, Len(s)) \in Seq(Byte) /\ Len(SubSeq(s, n + 1, Len(s))) = Len(s) - n
         /\ SubSeq(s, 1, n) \o SubSeq(s, n + 1, Len(s)) = s
<1>1. Len(s) \in Nat /\ \A k \in 1..Len(s) : s[k] \in Byte
  BY ElementOfSeq, LenProperties
<1>2. SubSeq(s, 1, n) \in Seq(Byte) /\ Len(SubSeq(s, 1, n)) = n
  <2>1. \A k \in 1..n : s[k] \in Byte
    BY <1>1
  <2>2. 1 \in Int /\ n \in Int
    BY <1>1
  <2> QED
    BY <1>1, <2>1, <2>2, SubSeqProperties
<1>3. SubSeq(s, n + 1, Len(s)) \in Seq(Byte) /\ Len(SubSeq(s, n + 1, Len(s))) = Len(s) - n
  <2>1. \A k \in (n + 1)..Len(s) : s[k] \in Byte
    BY <1>1
  <2>2. n + 1 \in Int /\ Len(s) \in Int
    BY <1>1
  <2> QED
    BY <1>1, <2>1, <2>2, SubSeqProperties
<1>4. SubSeq(s, 1, n) \o SubSeq(s, n + 1, Len(s)) = SubSeq(s, 1, Len(s))
  <2>1. 1 \in 1..Len(s) + 1 /\ n \in (1 - 1)..Len(s) /\ Len(s) \in n..Len(s)
    BY <1>1
  <2> QED
    BY <2>1, ConcatAdjacentSubSeq
<1> QED
  BY <1>2, <1>3, <1>4, SubSeqFull

\* The bytes 1 to n, and the beginning of them.

LEMMA Numbers ==
  ASSUME NEW n \in Nat
  PROVE  /\ Numbered(n) \in Seq(Byte) /\ Len(Numbered(n)) = n
         /\ \A k \in 1..n : Numbered(n)[k] = k
BY DEF Numbered, Byte

\* What begins the bytes 1 to n is numbered from 1, too.

LEMMA NumbersBegin ==
  ASSUME NEW s \in Seq(Byte), NEW t \in Seq(Byte), NEW n \in Nat, s \o t = Numbered(n)
  PROVE  s = Numbered(Len(s)) /\ Len(s) <= n
<1>1. Len(s) \in Nat /\ Len(t) \in Nat
  BY LenProperties
<1>2. /\ Len(s \o t) = Len(s) + Len(t)
      /\ \A k \in 1..Len(s) + Len(t) : (s \o t)[k] = IF k <= Len(s) THEN s[k] ELSE t[k - Len(s)]
  BY ConcatProperties
<1>3. Len(s) <= n
  BY <1>1, <1>2, Numbers
<1>4. \A k \in 1..Len(s) : s[k] = k
  <2> TAKE k \in 1..Len(s)
  <2>1. k \in 1..Len(s) + Len(t) /\ k \in 1..n /\ k <= Len(s)
    BY <1>1, <1>3
  <2> QED
    BY <1>2, <2>1, Numbers
<1>5. /\ Numbered(Len(s)) \in Seq(Byte) /\ Len(Numbered(Len(s))) = Len(s)
      /\ \A k \in 1..Len(s) : Numbered(Len(s))[k] = k
  BY <1>1, Numbers
<1>6. s = Numbered(Len(s))
  <2>1. \A k \in 1..Len(s) : s[k] = Numbered(Len(s))[k]
    BY <1>4, <1>5
  <2> QED
    BY <1>5, <2>1, SeqEqual
<1> QED
  BY <1>3, <1>6

\* The bytes that follow the first h.

LEMMA NumbersGoOn ==
  ASSUME NEW h \in Nat, NEW n \in Nat
  PROVE  /\ Following(h, n) \in Seq(Byte) /\ Len(Following(h, n)) = n
         /\ \A k \in 1..n : Following(h, n)[k] = h + k
         /\ Numbered(h) \o Following(h, n) = Numbered(h + n)
<1>1. /\ Following(h, n) \in Seq(Byte) /\ Len(Following(h, n)) = n
      /\ \A k \in 1..n : Following(h, n)[k] = h + k
  BY DEF Following, Byte
<1> DEFINE s == Numbered(h)
           t == Following(h, n)
<1>2. s \in Seq(Byte) /\ Len(s) = h /\ \A k \in 1..h : s[k] = k
  BY Numbers
<1>3. t \in Seq(Byte) /\ Len(t) = n /\ \A k \in 1..n : t[k] = h + k
  BY <1>1
<1> HIDE DEF s, t
<1>4. /\ s \o t \in Seq(Byte) /\ Len(s \o t) = Len(s) + Len(t)
      /\ \A k \in 1..Len(s) + Len(t) : (s \o t)[k] = IF k <= Len(s) THEN s[k] ELSE t[k - Len(s)]
  BY <1>2, <1>3, ConcatProperties
<1>5. \A k \in 1..h + n : (s \o t)[k] = k
  <2> TAKE k \in 1..h + n
  <2>1. CASE k <= h
    <3>1. k \in 1..h /\ k \in 1..Len(s) + Len(t) /\ k <= Len(s)
      BY <1>2, <1>3, <2>1
    <3> QED
      BY <1>2, <1>4, <3>1
  <2>2. CASE ~(k <= h)
    <3>1. k - h \in 1..n /\ k \in 1..Len(s) + Len(t) /\ ~(k <= Len(s)) /\ k - Len(s) = k - h
      BY <1>2, <1>3, <2>2
    <3>2. (s \o t)[k] = t[k - h]
      BY <1>4, <3>1
    <3>3. t[k - h] = h + (k - h)
      BY <1>3, <3>1
    <3> QED
      BY <3>2, <3>3
  <2> QED
    BY <2>1, <2>2
<1>6. h + n \in Nat /\ Numbered(h + n) \in Seq(Byte) /\ Len(Numbered(h + n)) = h + n
      /\ \A k \in 1..h + n : Numbered(h + n)[k] = k
  BY Numbers
<1>7. s \o t = Numbered(h + n)
  <2>1. Len(s \o t) = h + n /\ \A k \in 1..Len(s \o t) : (s \o t)[k] = Numbered(h + n)[k]
    BY <1>2, <1>3, <1>4, <1>5, <1>6
  <2> QED
    BY <1>4, <1>6, <2>1, SeqEqual
<1> QED
  BY <1>1, <1>7 DEF s, t

\* The beginning of a send's data is that of the bytes to follow.

LEMMA FollowingBegins ==
  ASSUME NEW h \in Nat, NEW m \in Nat, NEW n \in 0..m
  PROVE  SubSeq(Following(h, m), 1, n) = Following(h, n)
<1> DEFINE s == Following(h, m)
<1>1. s \in Seq(Byte) /\ Len(s) = m /\ \A k \in 1..m : s[k] = h + k
  BY NumbersGoOn
<1> HIDE DEF s
<1>2. n \in Nat /\ n <= m
  OBVIOUS
<1>3. Following(h, n) \in Seq(Byte) /\ Len(Following(h, n)) = n
      /\ \A k \in 1..n : Following(h, n)[k] = h + k
  BY <1>2, NumbersGoOn
<1>4. /\ SubSeq(s, 1, n) \in Seq(Byte) /\ Len(SubSeq(s, 1, n)) = n
  BY <1>1, <1>2, Pieces
<1>5. \A k \in 1..n : SubSeq(s, 1, n)[k] = h + k
  <2>1. \A k \in 1..n : s[k] \in Byte
    BY <1>1, <1>2 DEF Byte
  <2>2. 1 \in Int /\ n \in Int
    BY <1>2
  <2>3. \A k \in 1..n - 1 + 1 : SubSeq(s, 1, n)[k] = s[1 + k - 1]
    BY <2>1, <2>2, SubSeqProperties
  <2> QED
    BY <1>1, <1>2, <2>3
<1> QED
  BY <1>3, <1>4, <1>5, SeqEqual DEF s
----------------------------------------------------------------------------
(*                   The methods used, on any Impl                         *)

LEMMA Ends ==
  /\ End = {"client", "server"} /\ Socket = {"client", "server", "listener"}
  /\ Peer("client") = "server" /\ Peer("server") = "client"
  /\ \A e \in End : Peer(e) \in End /\ Peer(e) # e /\ Peer(Peer(e)) = e
<1>1. End = {"client", "server"} /\ Socket = {"client", "server", "listener"}
  BY DEF End, Socket
<1>2. Peer("client") = "server"
  BY <1>1 DEF Peer
<1>3. Peer("server") = "client"
  BY <1>1 DEF Peer
<1> QED
  BY <1>1, <1>2, <1>3

\* A nil task is told from any other.

LEMMA NoneIsNoTask ==
  /\ None \notin SendTask /\ None \notin ReceiveTask /\ None \notin Nat
  /\ \A d \in Seq(Byte), n \in Nat : [data |-> d, sentSize |-> n] \in SendTask
  /\ \A d \in Seq(Byte), n \in Nat \cup {None} : [size |-> n, data |-> d] \in ReceiveTask
<1>1. None \notin SendTask /\ None \notin ReceiveTask /\ None \notin Nat
  BY NoneAssumption
<1> QED
  BY <1>1 DEF SendTask, ReceiveTask

\* Closing a socket leaves nothing in it, whatever it was.

LEMMA Closes ==
  ASSUME NEW i \in Impl
  PROVE  LET k == Close(i) IN
         /\ k \in Impl /\ k.state = "closed" /\ k.receiveTask = None
         /\ k.socket = IF i.socket = "live" THEN "closed" ELSE i.socket
         /\ \A o : Slots(k, o)
         /\ \A a, h : Sending(k, a, h)
<1>1. /\ Close(i) \in Impl /\ Close(i).state = "closed" /\ Close(i).receiveTask = None
      /\ Close(i).sendTask = None /\ ~Close(i).acceptTask
      /\ Close(i).connectTask = "none" /\ ~Close(i).timer
      /\ Close(i).socket = IF i.socket = "live" THEN "closed" ELSE i.socket
  <2> DEFINE left == IF i.socket = "live" THEN "closed" ELSE i.socket
             reads == i.readSuspended /\ i.socket # "live"
             writes == i.writeSuspended /\ i.socket # "live"
  <2>1. left \in {"nil", "closed"} /\ reads \in BOOLEAN /\ writes \in BOOLEAN
    BY DEF Impl
  <2>2. Shut(i) = [i EXCEPT !.socket = left, !.connectTask = "none", !.timer = FALSE,
                            !.sendTask = None, !.receiveTask = None, !.acceptTask = FALSE,
                            !.readSuspended = reads, !.writeSuspended = writes]
    BY Zenon DEF Shut
  <2> HIDE DEF left, reads, writes
  <2>3. /\ Shut(i) \in Impl /\ Shut(i).receiveTask = None
        /\ Shut(i).sendTask = None /\ ~Shut(i).acceptTask
        /\ Shut(i).connectTask = "none" /\ ~Shut(i).timer
        /\ Shut(i).socket = left
    BY <2>1, <2>2 DEF Impl
  <2> QED
    BY <2>3 DEF Close, Impl, left
<1>2. \A o : Slots(Close(i), o)
  BY <1>1 DEF Slots, Idle
<1>3. \A a, h : Sending(Close(i), a, h)
  BY <1>1 DEF Sending
<1> QED
  BY <1>1, <1>2, <1>3

\* What it was given stays what it was given.

LEMMA ClosedFlow ==
  ASSUME NEW i \in Impl, NEW l, NEW p, NEW q, NEW g, NEW h, Flow(i, l, p, g, h),
         i.socket = "nil" => l = "none"
  PROVE  Flow(Close(i), l, q, g, h)
<1>1. /\ Close(i).receiveTask = None
      /\ Close(i).socket = IF i.socket = "live" THEN "closed" ELSE i.socket
  BY Closes
<1>2. i.socket \in {"nil", "live", "closed"}
  BY DEF Impl
<1>3. l \in {"open", "eof"} => Close(i).socket = "closed"
  BY <1>1, <1>2
<1> QED
  BY <1>1, <1>3 DEF Flow

\* A new socket, and the first calls of one.

LEMMA NewSocket ==
  /\ NewImpl \in Impl /\ \A o : Slots(NewImpl, o)
  /\ NewImpl.state = "inited" /\ NewImpl.socket = "nil" /\ NewImpl.receiveTask = None
  /\ NewImpl.sendTask = None /\ NewImpl.connectTask = "none"
<1>1. NewImpl \in Impl /\ NewImpl.state = "inited" /\ NewImpl.socket = "nil"
  BY DEF NewImpl, Impl
<1>2. NewImpl.receiveTask = None /\ NewImpl.sendTask = None /\ NewImpl.connectTask = "none"
  BY DEF NewImpl
<1> QED
  BY <1>1, <1>2 DEF Slots

\* A new socket that resolves the name it is to connect to.

LEMMA Resolves ==
  LET k == Resolve(NewImpl) IN
  /\ k \in Impl /\ \A o : Slots(k, o)
  /\ k.state = "connecting" /\ k.socket = "nil" /\ k.receiveTask = None /\ k.sendTask = None
<1>1. /\ Resolve(NewImpl) \in Impl
      /\ Resolve(NewImpl).state = "connecting" /\ Resolve(NewImpl).socket = "nil"
      /\ Resolve(NewImpl).receiveTask = None /\ Resolve(NewImpl).sendTask = None
      /\ ~Resolve(NewImpl).acceptTask /\ Resolve(NewImpl).readSuspended
      /\ Resolve(NewImpl).connectTask = "resolving" /\ ~Resolve(NewImpl).timer
  BY DEF Resolve, NewImpl, Impl
<1> QED
  BY <1>1 DEF Slots

\* A socket that connects, with no operation under way.

LEMMA Connects ==
  ASSUME NEW i \in Impl, i.sendTask = None, i.receiveTask = None, ~i.acceptTask,
         i.readSuspended
  PROVE  LET k == Connect(i) IN
         /\ k \in Impl /\ \A o : Slots(k, o)
         /\ k.state = "connecting" /\ k.socket = "live" /\ k.receiveTask = None
<1>1. /\ Connect(i) \in Impl /\ Connect(i).state = "connecting"
      /\ Connect(i).connectTask = "connecting" /\ Connect(i).socket = "live"
      /\ Connect(i).sendTask = None /\ Connect(i).receiveTask = None
      /\ Connect(i).readSuspended /\ ~Connect(i).acceptTask
  BY DEF Connect, Impl
<1> QED
  BY <1>1 DEF Slots

\* A new socket that listens.

LEMMA Listens ==
  LET k == Listen(NewImpl) IN k \in Impl /\ \A o : Slots(k, o)
<1>1. /\ Listen(NewImpl) \in Impl
      /\ Listen(NewImpl).state = "listening" /\ Listen(NewImpl).socket = "live"
      /\ Listen(NewImpl).receiveTask = None /\ Listen(NewImpl).sendTask = None
      /\ ~Listen(NewImpl).acceptTask /\ Listen(NewImpl).readSuspended
      /\ Listen(NewImpl).writeSuspended
      /\ Listen(NewImpl).connectTask = "none" /\ ~Listen(NewImpl).timer
  BY DEF Listen, NewImpl, Impl
<1> QED
  BY <1>1 DEF Slots, Idle

\* Accepting, and the socket it makes.

LEMMA Accepts ==
  ASSUME NEW i \in Impl, NEW o, Slots(i, o), i.state = "listening"
  PROVE  /\ Accept(i) \in Impl /\ Slots(Accept(i), o \cup {"accept"})
         /\ EndAccept(i) \in Impl /\ \A q : Slots(EndAccept(i), q)
         /\ EndAccept(i).state = "listening"
<1>1. /\ Accept(i) \in Impl /\ Accept(i).state = "listening" /\ Accept(i).socket = i.socket
      /\ Accept(i).receiveTask = i.receiveTask /\ Accept(i).sendTask = i.sendTask
      /\ Accept(i).acceptTask /\ Accept(i).writeSuspended = i.writeSuspended
      /\ Accept(i).connectTask = i.connectTask /\ Accept(i).timer = i.timer
  BY DEF Accept, Impl
<1>2. /\ EndAccept(i) \in Impl /\ EndAccept(i).state = "listening"
      /\ EndAccept(i).socket = i.socket
      /\ EndAccept(i).receiveTask = i.receiveTask /\ EndAccept(i).sendTask = i.sendTask
      /\ ~EndAccept(i).acceptTask /\ EndAccept(i).writeSuspended = i.writeSuspended
      /\ EndAccept(i).readSuspended
      /\ EndAccept(i).connectTask = i.connectTask /\ EndAccept(i).timer = i.timer
  BY DEF EndAccept, Impl
<1>3. /\ Idle(i) /\ i.socket = "live" /\ i.sendTask = None /\ i.receiveTask = None
      /\ i.writeSuspended
  BY DEF Slots
<1> QED
  BY <1>1, <1>2, <1>3 DEF Slots, Idle

\* The socket that accepting makes is connected and has no task.

LEMMA IsAccepted ==
  LET k == Accepted(NewImpl) IN
  /\ k \in Impl /\ \A o : Slots(k, o)
  /\ k.state = "connected" /\ k.socket = "live" /\ k.receiveTask = None /\ k.sendTask = None
<1>1. /\ Accepted(NewImpl) \in Impl
      /\ Accepted(NewImpl).state = "connected" /\ Accepted(NewImpl).socket = "live"
      /\ Accepted(NewImpl).receiveTask = None /\ Accepted(NewImpl).sendTask = None
      /\ ~Accepted(NewImpl).acceptTask /\ Accepted(NewImpl).readSuspended
      /\ Accepted(NewImpl).writeSuspended
      /\ Accepted(NewImpl).connectTask = "none" /\ ~Accepted(NewImpl).timer
  BY DEF Accepted, NewImpl, Impl
<1> QED
  BY <1>1 DEF Slots, Idle

\* A connection that was made.

LEMMA IsConnected ==
  ASSUME NEW i \in Impl, NEW o, Slots(i, o), i.state = "connecting", i.socket = "live"
  PROVE  LET k == DoConnectSuccess(i) IN
         /\ k \in Impl /\ \A q : Slots(k, q)
         /\ k.state = "connected" /\ k.socket = "live"
         /\ k.receiveTask = None /\ k.sendTask = None
<1>1. LET k == DoConnectSuccess(i) IN
      /\ k \in Impl /\ k.state = "connected" /\ k.socket = i.socket
      /\ k.connectTask = "none" /\ ~k.timer /\ k.acceptTask = i.acceptTask
      /\ k.receiveTask = i.receiveTask /\ k.sendTask = i.sendTask
      /\ k.writeSuspended /\ k.readSuspended = i.readSuspended
  BY DEF DoConnectSuccess, Impl
<1>2. i.sendTask = None /\ i.receiveTask = None /\ ~i.acceptTask /\ i.readSuspended
  BY DEF Slots
<1> QED
  BY <1>1, <1>2 DEF Slots, Idle

(***************************************************************************)
(* The methods of a connected socket touch their own slot and source only. *)
(***************************************************************************)
Same(i, k) ==
  /\ k.state = "connected" /\ k.socket = i.socket /\ k.connectTask = i.connectTask
  /\ k.timer = i.timer /\ k.acceptTask = i.acceptTask

\* A connected socket that starts to send,

LEMMA Sends ==
  ASSUME NEW i \in Impl, NEW o, Slots(i, o), i.state = "connected", NEW d \in Seq(Byte)
  PROVE  LET k == Send(i, d) IN
         /\ k \in Impl /\ Same(i, k) /\ Slots(k, o \cup {"send"})
         /\ k.sendTask # None /\ k.sendTask.data = d /\ k.sendTask.sentSize = 0
         /\ k.receiveTask = i.receiveTask
<1>1. [data |-> d, sentSize |-> 0] \in SendTask /\ [data |-> d, sentSize |-> 0] # None
  BY NoneIsNoTask
<1>2. LET k == Send(i, d) IN
      /\ k \in Impl /\ Same(i, k) /\ k.sendTask = [data |-> d, sentSize |-> 0]
      /\ k.receiveTask = i.receiveTask /\ k.readSuspended = i.readSuspended
  BY <1>1 DEF Send, Impl, Same
<1> QED
  BY <1>1, <1>2 DEF Slots, Idle, Same

\* ... to receive,

LEMMA Receives ==
  ASSUME NEW i \in Impl, NEW o, Slots(i, o), i.state = "connected",
         NEW size \in Nat \cup {None}
  PROVE  LET k == Receive(i, size) IN
         /\ k \in Impl /\ Same(i, k) /\ Slots(k, o \cup {"receive"})
         /\ k.receiveTask # None /\ k.receiveTask.data = <<>> /\ k.receiveTask.size = size
         /\ k.sendTask = i.sendTask /\ k.writeSuspended = i.writeSuspended
<1>1. [size |-> size, data |-> <<>>] \in ReceiveTask /\ [size |-> size, data |-> <<>>] # None
  <2>1. <<>> \in Seq(Byte)
    OBVIOUS
  <2>2. [size |-> size, data |-> <<>>] \in ReceiveTask
    BY <2>1 DEF ReceiveTask
  <2> QED
    BY <2>2, NoneIsNoTask
<1>2. LET k == Receive(i, size) IN
      /\ k \in Impl /\ Same(i, k) /\ k.receiveTask = [size |-> size, data |-> <<>>]
      /\ k.sendTask = i.sendTask /\ k.writeSuspended = i.writeSuspended
  BY <1>1 DEF Receive, Impl, Same
<1> QED
  BY <1>1, <1>2 DEF Slots, Idle, Same

\* ... that has received,

LEMMA HasReceived ==
  ASSUME NEW i \in Impl, NEW o, Slots(i, o), i.state = "connected", i.receiveTask # None
  PROVE  LET k == EndReceive(i) IN
         /\ k \in Impl /\ Same(i, k) /\ Slots(k, o \ {"receive"})
         /\ k.receiveTask = None
         /\ k.sendTask = i.sendTask /\ k.writeSuspended = i.writeSuspended
<1>1. LET k == EndReceive(i) IN
      /\ k \in Impl /\ Same(i, k) /\ k.receiveTask = None /\ k.readSuspended
      /\ k.sendTask = i.sendTask /\ k.writeSuspended = i.writeSuspended
  BY DEF EndReceive, Impl, Same
<1> QED
  BY <1>1 DEF Slots, Idle, Same

\* ... and that has received a part.

LEMMA ReceivesMore ==
  ASSUME NEW i \in Impl, NEW o, Slots(i, o), i.state = "connected", i.receiveTask # None,
         NEW d \in Seq(Byte)
  PROVE  LET k == ReceiveMore(i, d) IN
         /\ k \in Impl /\ Same(i, k) /\ Slots(k, o)
         /\ k.receiveTask # None /\ k.receiveTask.data = d
         /\ k.receiveTask.size = i.receiveTask.size
         /\ k.sendTask = i.sendTask /\ k.writeSuspended = i.writeSuspended
<1>1. i.receiveTask \in ReceiveTask
  BY DEF Impl
<1>2. [i.receiveTask EXCEPT !.data = d] \in ReceiveTask
  BY <1>1 DEF ReceiveTask
<1>3. LET k == ReceiveMore(i, d) IN
      /\ k \in Impl /\ Same(i, k) /\ k.receiveTask = [i.receiveTask EXCEPT !.data = d]
      /\ k.sendTask = i.sendTask /\ k.writeSuspended = i.writeSuspended
  BY <1>2 DEF ReceiveMore, Impl, Same
<1>4. /\ [i.receiveTask EXCEPT !.data = d] # None
      /\ [i.receiveTask EXCEPT !.data = d].data = d
      /\ [i.receiveTask EXCEPT !.data = d].size = i.receiveTask.size
  BY <1>1, <1>2, NoneIsNoTask DEF ReceiveTask
<1> QED
  BY <1>3, <1>4 DEF Slots, Idle, Same

----------------------------------------------------------------------------
(*                            The invariant                                *)

\* The invariant holds before anything is called.

LEMMA InitInv == Init => IInv
<1> SUFFICES ASSUME Init PROVE IInv
  OBVIOUS
<1>1. /\ sock = [s \in Socket |-> NewImpl] /\ resolve = "none" /\ conn = "none"
      /\ link = [e \in End |-> "none"] /\ pipe = [e \in End |-> <<>>]
      /\ owed = [s \in Socket |-> {}]
      /\ asked = [e \in End |-> 0] /\ handed = [e \in End |-> 0] /\ got = [e \in End |-> <<>>]
  BY DEF Init
<1>2. <<>> \in Seq(Byte) /\ Len(<<>>) = 0 /\ Numbered(0) = <<>>
  <2>1. Numbered(0) \in Seq(Byte) /\ Len(Numbered(0)) = 0
    BY Numbers
  <2> QED
    BY <2>1, EmptySeq
<1>3. Types
  <2>1. Capacity \in Nat
    BY SizeAssumption
  <2> QED
    BY <1>1, <1>2, <2>1, NewSocket DEF Types
<1>4. \A s \in Socket : Slots(sock[s], owed[s])
  BY <1>1, NewSocket
<1>5. ASSUME NEW e \in End
      PROVE  /\ Sending(sock[e], asked[e], handed[e])
             /\ Flow(sock[e], link[e], pipe[e], got[e], handed[Peer(e)])
  <2>1. e \in Socket /\ Peer(e) \in End
    BY Ends
  <2>2. sock[e] = NewImpl /\ asked[e] = 0 /\ handed[e] = 0 /\ handed[Peer(e)] = 0
        /\ got[e] = <<>> /\ pipe[e] = <<>> /\ link[e] = "none"
    BY <1>1, <2>1
  <2>3. Sending(NewImpl, 0, 0)
    BY NewSocket DEF Sending
  <2>4. Flow(NewImpl, "none", <<>>, <<>>, 0)
    BY <1>2, NewSocket DEF Flow
  <2> QED
    BY <2>2, <2>3, <2>4
<1>6. Stages
  BY <1>1, Ends, NewSocket DEF Stages
<1> QED
  BY <1>3, <1>4, <1>5, <1>6 DEF IInv

(***************************************************************************)
(* A step of one socket s that ends as i: what it has to keep, when the    *)
(* kernel takes nothing from it and the connection stays as it is.         *)
(***************************************************************************)
LEMMA OneSocket ==
  ASSUME IInv, NEW s \in Socket, NEW i \in Impl, sock' = [sock EXCEPT ![s] = i],
         resolve' \in {"none", "running", "posted"},
         conn' = conn, link' = link, handed' = handed,
         owed' \in [Socket -> SUBSET {"connect", "send", "receive", "accept"}],
         pipe' \in [End -> Seq(Byte)], asked' \in [End -> Nat], got' \in [End -> Seq(Byte)],
         \A t \in Socket : t # s => owed'[t] = owed[t],
         \A e \in End : e # s => pipe'[e] = pipe[e] /\ asked'[e] = asked[e] /\ got'[e] = got[e],
         Slots(i, owed'[s]),
         \A e \in End : e = s =>
           /\ Len(pipe'[e]) <= Capacity
           /\ Sending(i, asked'[e], handed[e])
           /\ Flow(i, link[e], pipe'[e], got'[e], handed[Peer(e)]),
         s = "client" => /\ i.socket = "nil" => conn = "none"
                         /\ conn \in {"none", "syn"} =>
                              i.state \in {"inited", "connecting", "closed"},
         s = "server" => conn = "accepted" /\ i.socket # "nil",
         conn \in {"queued", "accepted"} \/ (pipe' = pipe /\ got' = got)
  PROVE  IInv'
<1>1. Types /\ Stages
  BY DEF IInv
<1>2. sock'[s] = i /\ \A t \in Socket : t # s => sock'[t] = sock[t]
  BY <1>1 DEF Types
<1>3. Types'
  <2>1. sock' \in [Socket -> Impl]
    BY <1>1 DEF Types
  <2>2. \A e \in End : Len(pipe'[e]) <= Capacity
    BY <1>1 DEF Types
  <2> QED
    BY <1>1, <2>1, <2>2 DEF Types
<1>4. \A t \in Socket : Slots(sock'[t], owed'[t])
  BY ZenonT(60), <1>2 DEF IInv
<1>5. ASSUME NEW e \in End
      PROVE  /\ Sending(sock'[e], asked'[e], handed'[e])
             /\ Flow(sock'[e], link'[e], pipe'[e], got'[e], handed'[Peer(e)])
  <2>1. e \in Socket
    BY Ends
  <2>2. CASE e = s
    BY <1>2, <2>2
  <2>3. CASE e # s
    <3>1. /\ Sending(sock[e], asked[e], handed[e])
          /\ Flow(sock[e], link[e], pipe[e], got[e], handed[Peer(e)])
      BY DEF IInv
    <3> QED
      BY <1>2, <2>1, <2>3, <3>1
  <2> QED
    BY <2>2, <2>3
<1>6. Stages'
  <2>1. "client" \in Socket /\ "server" \in Socket
    BY Ends
  <2>2. /\ sock'["client"].socket = "nil" => conn = "none"
        /\ conn \in {"none", "syn"} =>
             sock'["client"].state \in {"inited", "connecting", "closed"}
    BY <1>1, <1>2, <2>1 DEF Stages
  <2>3. /\ conn # "accepted" => sock'["server"] = NewImpl
        /\ conn = "accepted" => sock'["server"].socket # "nil"
    BY <1>1, <1>2, <2>1 DEF Stages
  <2>4. conn \in {"none", "syn", "refused"} => pipe' = pipe /\ got' = got
    OBVIOUS
  <2>5. conn \in {"none", "syn", "refused"} =>
          \A e \in End : link[e] = "none" /\ handed[e] = 0 /\ got'[e] = <<>> /\ pipe'[e] = <<>>
    BY <1>1, <2>4 DEF Stages
  <2>6. conn \in {"queued", "accepted"} => \A e \in End : link[e] # "none"
    BY <1>1 DEF Stages
  <2> QED
    BY <2>2, <2>3, <2>5, <2>6 DEF Stages
<1> QED
  BY <1>3, <1>4, <1>5, <1>6 DEF IInv

\* A socket that is used is there, and the connection with it.

LEMMA InUse ==
  ASSUME IInv, NEW s \in Socket
  PROVE  /\ sock[s] \in Impl /\ Slots(sock[s], owed[s])
         /\ sock[s].state \in {"inited", "connecting", "connected", "listening", "closed"}
         /\ s = "server" => (sock[s].state # "inited" => conn = "accepted")
                            /\ (conn = "accepted" => sock[s].socket # "nil")
         /\ s = "client" =>
              /\ sock[s].socket = "nil" => conn = "none"
              /\ sock[s].state = "connected" => conn \in {"queued", "accepted", "refused"}
         /\ s \in End => /\ sock[s].socket = "nil" /\ (s = "server" => conn = "accepted")
                              => link[s] = "none"
                         /\ asked[s] \in Nat /\ handed[s] \in Nat /\ got[s] \in Seq(Byte)
                         /\ pipe[s] \in Seq(Byte) /\ Len(pipe[s]) <= Capacity
                         /\ Sending(sock[s], asked[s], handed[s])
                         /\ Flow(sock[s], link[s], pipe[s], got[s], handed[Peer(s)])
                         /\ handed[Peer(s)] \in Nat
<1>1. Types /\ Stages
  BY DEF IInv
<1>2. sock[s] \in Impl /\ Slots(sock[s], owed[s])
      /\ sock[s].state \in {"inited", "connecting", "connected", "listening", "closed"}
  BY <1>1 DEF IInv, Types, Impl
<1>3. conn \in {"none", "syn", "queued", "accepted", "refused"}
  BY <1>1 DEF Types
<1>4. s = "server" => (sock[s].state # "inited" => conn = "accepted")
                      /\ (conn = "accepted" => sock[s].socket # "nil")
  BY <1>1, NewSocket DEF Stages
<1>5. s = "client" =>
        /\ sock[s].socket = "nil" => conn = "none"
        /\ sock[s].state = "connected" => conn \in {"queued", "accepted", "refused"}
  BY <1>1, <1>3 DEF Stages
<1>6. s \in End => /\ asked[s] \in Nat /\ handed[s] \in Nat /\ got[s] \in Seq(Byte)
                   /\ pipe[s] \in Seq(Byte) /\ Len(pipe[s]) <= Capacity
                   /\ Sending(sock[s], asked[s], handed[s])
                   /\ Flow(sock[s], link[s], pipe[s], got[s], handed[Peer(s)])
                   /\ handed[Peer(s)] \in Nat
  BY <1>1, Ends DEF IInv, Types
<1>7. s \in End /\ sock[s].socket = "nil" /\ (s = "server" => conn = "accepted")
        => link[s] = "none"
  BY <1>1, <1>4, <1>5, Ends DEF Stages
<1> QED
  BY <1>2, <1>4, <1>5, <1>6, <1>7

(***************************************************************************)
(* However a socket comes to be closed, and whatever was read of its       *)
(* buffer before that.                                                     *)
(***************************************************************************)
LEMMA ClosingKeeps ==
  ASSUME IInv, NEW s \in Socket, sock' = [sock EXCEPT ![s] = Close(sock[s])],
         s = "server" => conn = "accepted",
         resolve' \in {"none", "running", "posted"},
         conn' = conn, link' = link, handed' = handed, asked' = asked, got' = got,
         owed' \in [Socket -> SUBSET {"connect", "send", "receive", "accept"}],
         \A t \in Socket : t # s => owed'[t] = owed[t],
         pipe' \in [End -> Seq(Byte)],
         \A e \in End : /\ e # s => pipe'[e] = pipe[e]
                        /\ Len(pipe'[e]) <= Capacity,
         conn \in {"queued", "accepted"} \/ pipe' = pipe
  PROVE  IInv'
<1> DEFINE i == Close(sock[s])
<1>1. /\ i \in Impl /\ i.state = "closed"
      /\ i.socket = (IF sock[s].socket = "live" THEN "closed" ELSE sock[s].socket)
      /\ \A o : Slots(i, o)
      /\ \A a, h : Sending(i, a, h)
  BY InUse, Closes
<1>2. s \in End => Flow(i, link[s], pipe'[s], got[s], handed[Peer(s)])
  BY InUse, ClosedFlow
<1> HIDE DEF i
<1>3. /\ s = "client" => (i.socket = "nil" => conn = "none")
      /\ s = "server" => i.socket # "nil"
  BY <1>1, InUse
<1>4. asked' \in [End -> Nat] /\ got' \in [End -> Seq(Byte)]
  BY DEF IInv, Types
<1>5. sock' = [sock EXCEPT ![s] = i]
  BY DEF i
<1> QED
  BY <1>1, <1>2, <1>3, <1>4, <1>5, OneSocket

\* doError: the operation that failed is answered.

LEMMA FailingKeeps ==
  ASSUME IInv, NEW s \in Socket, NEW op, Fails(s, op),
         s = "server" => conn = "accepted",
         resolve' \in {"none", "running", "posted"},
         UNCHANGED <<kernel, history>>
  PROVE  IInv'
<1>1. /\ sock' = [sock EXCEPT ![s] = Close(sock[s])]
      /\ owed' = [owed EXCEPT ![s] = owed[s] \ {op}]
  BY DEF Fails, Becomes, Answered
<1>2. Types
  BY DEF IInv
<1>3. owed' \in [Socket -> SUBSET {"connect", "send", "receive", "accept"}]
      /\ \A t \in Socket : t # s => owed'[t] = owed[t]
  BY <1>1, <1>2 DEF Types
<1>4. /\ conn' = conn /\ link' = link /\ pipe' = pipe
      /\ handed' = handed /\ asked' = asked /\ got' = got
  BY DEF kernel, history
<1>5. pipe' \in [End -> Seq(Byte)] /\ \A e \in End : Len(pipe'[e]) <= Capacity
  BY <1>2, <1>4 DEF Types
<1> QED
  BY <1>1, <1>3, <1>4, <1>5, ClosingKeeps

----------------------------------------------------------------------------
(*                              The callers                                *)

LEMMA ConnectHostKeeps == IInv /\ ConnectHost => IInv'
<1> SUFFICES ASSUME IInv, ConnectHost PROVE IInv'
  OBVIOUS
<1> DEFINE i == Resolve(NewImpl)
<1>1. /\ sock["client"].state = "inited" /\ sock' = [sock EXCEPT !["client"] = Resolve(sock["client"])]
      /\ resolve' = "running" /\ owed' = [owed EXCEPT !["client"] = owed["client"] \cup {"connect"}]
      /\ conn' = conn /\ link' = link /\ pipe' = pipe
      /\ handed' = handed /\ asked' = asked /\ got' = got
  BY DEF ConnectHost, CanConnect, Becomes, Called, kernel, history
<1>2. "client" \in Socket /\ "client" \in End
  BY Ends
<1>3. Types
  BY DEF IInv
<1>4. /\ sock["client"] = NewImpl /\ conn = "none"
      /\ Sending(NewImpl, asked["client"], handed["client"])
      /\ Flow(NewImpl, link["client"], pipe["client"], got["client"], handed[Peer("client")])
      /\ Len(pipe["client"]) <= Capacity
  <2>1. sock["client"] = NewImpl
    BY <1>1, <1>2, InUse DEF Slots
  <2> QED
    BY <1>2, <2>1, InUse, NewSocket
<1>5. i \in Impl /\ i.state = "connecting" /\ i.socket = "nil" /\ i.receiveTask = None
      /\ \A o : Slots(i, o)
  BY Resolves
<1>6. sock' = [sock EXCEPT !["client"] = i]
  BY <1>1, <1>4
<1> HIDE DEF i
<1>7. Sending(i, asked["client"], handed["client"])
  BY <1>4, <1>5, NewSocket DEF Sending
<1>8. Flow(i, link["client"], pipe["client"], got["client"], handed[Peer("client")])
  BY <1>4, <1>5, NewSocket DEF Flow, Held
<1>9. owed' \in [Socket -> SUBSET {"connect", "send", "receive", "accept"}]
      /\ \A t \in Socket : t # "client" => owed'[t] = owed[t]
  BY <1>1, <1>3 DEF Types
<1>10. pipe' \in [End -> Seq(Byte)] /\ asked' \in [End -> Nat] /\ got' \in [End -> Seq(Byte)]
  BY <1>1, <1>3 DEF Types
<1> QED
  BY <1>1, <1>2, <1>4, <1>5, <1>6, <1>7, <1>8, <1>9, <1>10, OneSocket

(***************************************************************************)
(* _connect, from a client that was told of no connection: the first SYN.  *)
(***************************************************************************)
LEMMA StartKeeps ==
  ASSUME IInv, StartConnecting,
         sock["client"] = NewImpl \/ sock["client"].connectTask = "resolving",
         resolve' \in {"none", "running", "posted"},
         owed' \in [Socket -> SUBSET {"connect", "send", "receive", "accept"}],
         \A t \in Socket : t # "client" => owed'[t] = owed[t],
         UNCHANGED history
  PROVE  IInv'
<1> DEFINE i == sock["client"]
           k == Connect(i)
<1>1. /\ sock' = [sock EXCEPT !["client"] = k] /\ conn' = "syn"
      /\ link' = link /\ pipe' = pipe
      /\ handed' = handed /\ asked' = asked /\ got' = got
  BY DEF StartConnecting, Becomes, history
<1>2. "client" \in Socket /\ "client" \in End /\ "server" \in Socket
  BY Ends
<1>3. Types /\ Stages
  BY DEF IInv
<1>4. i \in Impl /\ Slots(i, owed["client"])
      /\ Flow(i, link["client"], pipe["client"], got["client"], handed[Peer("client")])
      /\ Sending(i, asked["client"], handed["client"])
      /\ i.state \in {"inited", "connecting", "connected", "listening", "closed"}
  BY <1>2, InUse
<1>5. /\ i.sendTask = None /\ i.receiveTask = None /\ ~i.acceptTask /\ i.readSuspended
      /\ i.socket = "nil" /\ i.state \in {"inited", "connecting"}
  <2>1. CASE i = NewImpl
    BY <2>1 DEF NewImpl
  <2>2. CASE i.connectTask = "resolving"
    BY <1>4, <2>2 DEF Slots, Idle, NewImpl
  <2> QED
    BY <2>1, <2>2
<1>6. conn = "none"
  BY <1>3, <1>5 DEF Stages
<1>7. k \in Impl /\ (\A o : Slots(k, o)) /\ k.state = "connecting" /\ k.socket = "live"
      /\ k.receiveTask = None
  BY <1>4, <1>5, Connects
<1> HIDE DEF k
<1>8. Sending(k, asked["client"], handed["client"])
      /\ Flow(k, link["client"], pipe["client"], got["client"], handed[Peer("client")])
  <2>1. link["client"] = "none"
    BY <1>2, <1>3, <1>6 DEF Stages
  <2>2. asked["client"] = 0 /\ handed["client"] = 0
    BY <1>4, <1>5 DEF Sending
  <2>3. Sending(k, asked["client"], handed["client"])
    BY <1>7, <2>2 DEF Sending
  <2> QED
    BY <1>4, <1>7, <2>1, <2>3 DEF Flow
<1>9. sock'["client"] = k /\ \A t \in Socket : t # "client" => sock'[t] = sock[t]
  BY <1>1, <1>2, <1>3 DEF Types
<1>10. Types'
  <2>1. sock' \in [Socket -> Impl]
    BY <1>1, <1>3, <1>7 DEF Types
  <2> QED
    BY <1>1, <1>3, <2>1 DEF Types
<1>11. \A t \in Socket : Slots(sock'[t], owed'[t])
  BY <1>7, <1>9 DEF IInv
<1>12. ASSUME NEW e \in End
       PROVE  /\ Sending(sock'[e], asked'[e], handed'[e])
              /\ Flow(sock'[e], link'[e], pipe'[e], got'[e], handed'[Peer(e)])
  <2>1. CASE e = "client"
    BY <1>1, <1>8, <1>9, <2>1
  <2>2. CASE e # "client"
    <3>1. e \in Socket /\ Sending(sock[e], asked[e], handed[e])
          /\ Flow(sock[e], link[e], pipe[e], got[e], handed[Peer(e)])
      BY Ends DEF IInv
    <3> QED
      BY <1>1, <1>9, <2>2, <3>1
  <2> QED
    BY <2>1, <2>2
<1>13. Stages'
  <2>1. /\ sock'["client"].state = "connecting" /\ sock'["client"].socket = "live"
        /\ sock'["server"] = NewImpl
    BY <1>2, <1>3, <1>6, <1>7, <1>9 DEF Stages
  <2>2. \A e \in End : link'[e] = "none" /\ handed'[e] = 0 /\ got'[e] = <<>> /\ pipe'[e] = <<>>
    BY <1>1, <1>3, <1>6 DEF Stages
  <2> QED
    BY <1>1, <2>1, <2>2 DEF Stages
<1> QED
  BY <1>10, <1>11, <1>12, <1>13 DEF IInv

\* Closing in a call, with or without an answer.

LEMMA ClosedInCall ==
  ASSUME IInv, NEW s \in Socket, Becomes(s, Close(sock[s])), s = "server" => conn = "accepted",
         UNCHANGED <<resolve, kernel, owed, history>>
  PROVE  IInv'
<1>1. /\ sock' = [sock EXCEPT ![s] = Close(sock[s])]
      /\ conn' = conn /\ link' = link /\ pipe' = pipe /\ owed' = owed /\ resolve' = resolve
      /\ handed' = handed /\ asked' = asked /\ got' = got
  BY DEF Becomes, kernel, history
<1>2. /\ owed' \in [Socket -> SUBSET {"connect", "send", "receive", "accept"}]
      /\ resolve' \in {"none", "running", "posted"}
      /\ pipe' \in [End -> Seq(Byte)] /\ \A e \in End : Len(pipe'[e]) <= Capacity
  BY <1>1 DEF IInv, Types
<1> QED
  BY <1>1, <1>2, ClosingKeeps

\* Connecting to an end point, or failing to at once.

LEMMA ConnectEndPointKeeps == IInv /\ ConnectEndPoint => IInv'
<1> SUFFICES ASSUME IInv, ConnectEndPoint PROVE IInv'
  OBVIOUS
<1>1. "client" \in Socket
  BY Ends
<1>2. sock["client"] = NewImpl
  BY <1>1, InUse DEF ConnectEndPoint, CanConnect, Slots
<1>3. CASE StartConnecting /\ Called("client", "connect")
  <2>1. owed' = [owed EXCEPT !["client"] = owed["client"] \cup {"connect"}]
        /\ resolve' = resolve /\ UNCHANGED history
    BY <1>3 DEF Called, ConnectEndPoint
  <2>2. /\ owed' \in [Socket -> SUBSET {"connect", "send", "receive", "accept"}]
        /\ \A t \in Socket : t # "client" => owed'[t] = owed[t]
        /\ resolve' \in {"none", "running", "posted"}
    BY <2>1 DEF IInv, Types
  <2> QED
    BY <1>2, <1>3, <2>1, <2>2, StartKeeps
<1>4. CASE Becomes("client", Close(sock["client"])) /\ UNCHANGED <<kernel, owed>>
  <2>1. UNCHANGED <<resolve, kernel, owed, history>>
    BY <1>4 DEF ConnectEndPoint
  <2> QED
    BY <1>1, <1>4, <2>1, ClosedInCall
<1> QED
  BY <1>3, <1>4 DEF ConnectEndPoint

(***************************************************************************)
(* The listener is no end of the connection: only its slots matter.        *)
(***************************************************************************)
LEMMA ListenerKeeps ==
  ASSUME IInv, NEW i \in Impl, sock' = [sock EXCEPT !["listener"] = i],
         owed' \in [Socket -> SUBSET {"connect", "send", "receive", "accept"}],
         \A t \in Socket : t # "listener" => owed'[t] = owed[t],
         Slots(i, owed'["listener"]),
         UNCHANGED <<resolve, kernel, history>>
  PROVE  IInv'
<1>1. /\ conn' = conn /\ link' = link /\ pipe' = pipe /\ resolve' = resolve
      /\ handed' = handed /\ asked' = asked /\ got' = got
  BY DEF kernel, history
<1>2. /\ resolve' \in {"none", "running", "posted"}
      /\ pipe' \in [End -> Seq(Byte)] /\ asked' \in [End -> Nat] /\ got' \in [End -> Seq(Byte)]
  BY <1>1 DEF IInv, Types
<1>3. "listener" \in Socket /\ "listener" \notin End
  BY Ends
<1> QED
  BY ZenonT(60), <1>1, <1>2, <1>3, OneSocket

\* Listening, and accepting.

LEMMA ListenOnKeeps == IInv /\ ListenOn => IInv'
<1> SUFFICES ASSUME IInv, ListenOn PROVE IInv'
  OBVIOUS
<1>1. "listener" \in Socket
  BY Ends
<1>2. UNCHANGED <<resolve, kernel, owed, history>> /\ sock["listener"].state = "inited"
  BY DEF ListenOn, CanListen
<1>3. sock["listener"] = NewImpl
  BY <1>1, <1>2, InUse DEF Slots
<1>4. CASE Becomes("listener", Listen(sock["listener"]))
  <2>1. sock' = [sock EXCEPT !["listener"] = Listen(NewImpl)] /\ owed' = owed
    BY <1>2, <1>3, <1>4 DEF Becomes
  <2>2. Listen(NewImpl) \in Impl /\ Slots(Listen(NewImpl), owed'["listener"])
    BY Listens
  <2>3. owed' \in [Socket -> SUBSET {"connect", "send", "receive", "accept"}]
    BY <2>1 DEF IInv, Types
  <2> QED
    BY <1>2, <2>1, <2>2, <2>3, ListenerKeeps
<1>5. CASE Becomes("listener", Close(sock["listener"]))
  BY <1>1, <1>2, <1>5, ClosedInCall
<1> QED
  BY <1>4, <1>5 DEF ListenOn

\* Accepting on a listening socket.

LEMMA AcceptOnKeeps == IInv /\ AcceptOn => IInv'
<1> SUFFICES ASSUME IInv, AcceptOn PROVE IInv'
  OBVIOUS
<1>1. "listener" \in Socket
  BY Ends
<1>2. /\ UNCHANGED <<resolve, kernel, history>> /\ sock["listener"].state = "listening"
      /\ sock' = [sock EXCEPT !["listener"] = Accept(sock["listener"])]
      /\ owed' = [owed EXCEPT !["listener"] = owed["listener"] \cup {"accept"}]
  BY DEF AcceptOn, Becomes, Called
<1>3. /\ owed' \in [Socket -> SUBSET {"connect", "send", "receive", "accept"}]
      /\ \A t \in Socket : t # "listener" => owed'[t] = owed[t]
      /\ owed'["listener"] = owed["listener"] \cup {"accept"}
  BY <1>1, <1>2 DEF IInv, Types
<1>4. Accept(sock["listener"]) \in Impl
      /\ Slots(Accept(sock["listener"]), owed["listener"] \cup {"accept"})
  BY <1>1, <1>2, InUse, Accepts
<1> QED
  BY <1>2, <1>3, <1>4, ListenerKeeps

\* Closing any socket, in any state.

LEMMA CloseOnKeeps ==
  ASSUME IInv, NEW s \in Socket, CloseOn(s)
  PROVE  IInv'
BY ClosedInCall DEF CloseOn

\* The bytes of a send follow those asked for before: nothing of them is left.

LEMMA SendOnKeeps ==
  ASSUME IInv, NEW e \in End, NEW n \in SendSize, SendOn(e, n)
  PROVE  IInv'
<1> DEFINE i == sock[e]
           d == Following(asked[e], n)
           k == Send(i, d)
<1>1. /\ i.state = "connected" /\ "send" \notin owed[e]
      /\ sock' = [sock EXCEPT ![e] = k]
      /\ asked' = [asked EXCEPT ![e] = asked[e] + n]
      /\ owed' = [owed EXCEPT ![e] = owed[e] \cup {"send"}]
      /\ conn' = conn /\ link' = link /\ pipe' = pipe /\ resolve' = resolve
      /\ handed' = handed /\ got' = got
  BY DEF SendOn, Becomes, Called, kernel, Following
<1>2. e \in Socket /\ n \in Nat /\ n > 0
  BY Ends, SizeAssumption
<1>3. /\ i \in Impl /\ Slots(i, owed[e]) /\ asked[e] \in Nat /\ handed[e] \in Nat
      /\ Sending(i, asked[e], handed[e]) /\ Len(pipe[e]) <= Capacity
      /\ Flow(i, link[e], pipe[e], got[e], handed[Peer(e)])
      /\ e = "server" => conn = "accepted" /\ i.socket # "nil"
      /\ e = "client" => (i.socket = "nil" => conn = "none") /\ conn \notin {"none", "syn"}
  BY <1>1, <1>2, InUse
<1>4. i.sendTask = None /\ asked[e] = handed[e] /\ i.socket = "live"
  BY <1>1, <1>3 DEF Slots, Sending
<1>5. d \in Seq(Byte)
  BY <1>2, <1>3, NumbersGoOn
<1>6. /\ k \in Impl /\ Same(i, k) /\ Slots(k, owed[e] \cup {"send"})
      /\ k.sendTask # None /\ k.sendTask.data = d /\ k.sendTask.sentSize = 0
      /\ k.receiveTask = i.receiveTask
  BY ZenonT(60), <1>1, <1>3, <1>5, Sends
<1> HIDE DEF k
<1>7. Sending(k, asked[e] + n, handed[e])
  <2>1. handed[e] - 0 = handed[e]
    BY <1>3
  <2>2. /\ k.sendTask.sentSize <= handed[e] /\ k.sendTask.sentSize < n
        /\ k.sendTask.data = Following(handed[e] - k.sendTask.sentSize, n)
        /\ asked[e] + n = handed[e] - k.sendTask.sentSize + n
    BY <1>2, <1>3, <1>4, <1>6, <2>1
  <2> QED
    BY <1>2, <1>6, <2>2 DEF Sending, Same
<1>8. Flow(k, link[e], pipe[e], got[e], handed[Peer(e)])
  BY <1>3, <1>6 DEF Flow, Held, Same
<1>9. /\ owed' \in [Socket -> SUBSET {"connect", "send", "receive", "accept"}]
      /\ \A t \in Socket : t # e => owed'[t] = owed[t]
      /\ owed'[e] = owed[e] \cup {"send"}
      /\ asked' \in [End -> Nat] /\ asked'[e] = asked[e] + n
      /\ \A t \in End : t # e => asked'[t] = asked[t]
      /\ resolve' \in {"none", "running", "posted"}
      /\ pipe' \in [End -> Seq(Byte)] /\ got' \in [End -> Seq(Byte)]
  BY <1>1, <1>2 DEF IInv, Types
<1>10. k.socket = "live"
  BY <1>4, <1>6 DEF Same
<1> QED
  BY <1>1, <1>2, <1>3, <1>6, <1>7, <1>8, <1>9, <1>10, OneSocket

\* A new receive holds nothing yet.

LEMMA ReceiveOnKeeps ==
  ASSUME IInv, NEW e \in End, NEW size \in ReceiveSize, ReceiveOn(e, size)
  PROVE  IInv'
<1> DEFINE i == sock[e]
           k == Receive(i, size)
<1>1. /\ i.state = "connected" /\ "receive" \notin owed[e]
      /\ sock' = [sock EXCEPT ![e] = k]
      /\ owed' = [owed EXCEPT ![e] = owed[e] \cup {"receive"}]
      /\ conn' = conn /\ link' = link /\ pipe' = pipe /\ resolve' = resolve
      /\ handed' = handed /\ got' = got /\ asked' = asked
  BY DEF ReceiveOn, Becomes, Called, kernel, history
<1>2. e \in Socket /\ size \in Nat \cup {None} /\ (size # None => size > 0)
  BY Ends, SizeAssumption
<1>3. /\ i \in Impl /\ Slots(i, owed[e])
      /\ Sending(i, asked[e], handed[e]) /\ Len(pipe[e]) <= Capacity
      /\ Flow(i, link[e], pipe[e], got[e], handed[Peer(e)])
      /\ e = "server" => conn = "accepted" /\ i.socket # "nil"
      /\ e = "client" => (i.socket = "nil" => conn = "none") /\ conn \notin {"none", "syn"}
  BY <1>1, <1>2, InUse
<1>4. i.receiveTask = None /\ i.socket = "live"
  BY <1>1, <1>3 DEF Slots
<1>5. /\ k \in Impl /\ Same(i, k) /\ Slots(k, owed[e] \cup {"receive"})
      /\ k.receiveTask # None /\ k.receiveTask.data = <<>> /\ k.receiveTask.size = size
      /\ k.sendTask = i.sendTask /\ k.writeSuspended = i.writeSuspended
  BY <1>1, <1>2, <1>3, Receives
<1> HIDE DEF k
<1>6. Sending(k, asked[e], handed[e])
  BY <1>1, <1>3, <1>5 DEF Sending, Same
<1>7. Flow(k, link[e], pipe[e], got[e], handed[Peer(e)])
  <2>1. Len(k.receiveTask.data) = 0
    BY <1>5
  <2> QED
    BY <1>2, <1>3, <1>4, <1>5, <2>1 DEF Flow, Held, Same
<1>8. /\ owed' \in [Socket -> SUBSET {"connect", "send", "receive", "accept"}]
      /\ \A t \in Socket : t # e => owed'[t] = owed[t]
      /\ owed'[e] = owed[e] \cup {"receive"}
      /\ asked' \in [End -> Nat]
      /\ resolve' \in {"none", "running", "posted"}
      /\ pipe' \in [End -> Seq(Byte)] /\ got' \in [End -> Seq(Byte)]
  BY <1>1, <1>2 DEF IInv, Types
<1>9. k.socket = "live"
  BY <1>4, <1>5 DEF Same
<1> QED
  BY <1>1, <1>2, <1>3, <1>5, <1>6, <1>7, <1>8, <1>9, OneSocket

----------------------------------------------------------------------------
(*                     The resolution and the kernel                       *)

LEMMA ResolverPostsKeeps == IInv /\ ResolverPosts => IInv'
<1> SUFFICES ASSUME IInv, ResolverPosts PROVE IInv'
  OBVIOUS
<1>1. /\ resolve' = "posted" /\ sock' = sock /\ owed' = owed
      /\ conn' = conn /\ link' = link /\ pipe' = pipe
      /\ handed' = handed /\ asked' = asked /\ got' = got
  BY DEF ResolverPosts, kernel, history
<1> QED
  BY <1>1 DEF IInv, Types, Stages

\* A name that is resolved is connected to, unless the socket was closed.

LEMMA ResolverCallsKeeps == IInv /\ ResolverCalls => IInv'
<1> SUFFICES ASSUME IInv, ResolverCalls PROVE IInv'
  OBVIOUS
<1>1. /\ resolve' = "none" /\ handed' = handed /\ asked' = asked /\ got' = got
      /\ UNCHANGED history
  BY DEF ResolverCalls, history
<1>2. "client" \in Socket /\ resolve' \in {"none", "running", "posted"}
  BY <1>1, Ends
<1>3. CASE ResolverHeard(sock["client"]) /\ StartConnecting /\ UNCHANGED owed
  <2>1. sock["client"].connectTask = "resolving" /\ owed' = owed
    BY <1>3 DEF ResolverHeard
  <2>2. owed' \in [Socket -> SUBSET {"connect", "send", "receive", "accept"}]
    BY <2>1 DEF IInv, Types
  <2> QED
    BY <1>1, <1>2, <1>3, <2>1, <2>2, StartKeeps
<1>4. CASE Fails("client", "connect") /\ UNCHANGED kernel
  <2>1. UNCHANGED <<kernel, history>> /\ "client" # "server"
    BY <1>1, <1>4
  <2> QED
    BY <1>2, <1>4, <2>1, FailingKeeps
<1>5. CASE UNCHANGED <<sock, kernel, owed>>
  <2>1. /\ sock' = sock /\ owed' = owed /\ conn' = conn /\ link' = link /\ pipe' = pipe
    BY <1>5 DEF kernel
  <2> QED
    BY <1>1, <2>1 DEF IInv, Types, Stages
<1> QED
  BY <1>3, <1>4, <1>5 DEF ResolverCalls

\* The handshake opens both directions, with nothing in them.

LEMMA HandshakeKeeps == IInv /\ Handshake => IInv'
<1> SUFFICES ASSUME IInv, Handshake PROVE IInv'
  OBVIOUS
<1>1. /\ conn = "syn" /\ sock["client"].socket = "live"
      /\ sock' = sock /\ owed' = owed /\ pipe' = pipe /\ resolve' = resolve
      /\ handed' = handed /\ asked' = asked /\ got' = got
      /\ \/ conn' = "queued" /\ link' = [e \in End |-> "open"]
         \/ conn' = "refused" /\ link' = link
  BY DEF Handshake, history
<1>2. Types /\ Stages
  BY DEF IInv
<1>3. \A e \in End : link[e] = "none" /\ handed[e] = 0 /\ got[e] = <<>> /\ pipe[e] = <<>>
  BY <1>1, <1>2 DEF Stages
<1>4. /\ sock["client"].state = "connecting" /\ sock["client"].receiveTask = None
      /\ sock["server"] = NewImpl
  <2>1. "client" \in Socket /\ Slots(sock["client"], owed["client"])
    BY Ends DEF IInv
  <2>2. sock["client"].state \in {"inited", "connecting", "closed"}
    BY <1>1, <1>2 DEF Stages
  <2>3. sock["client"].state = "connecting" /\ sock["client"].receiveTask = None
    BY <1>1, <2>1, <2>2, NewSocket DEF Slots
  <2> QED
    BY <1>1, <1>2, <2>3 DEF Stages
<1>5. link' \in [End -> {"none", "open", "eof", "reset"}]
  BY <1>1, <1>2 DEF Types
<1>6. Types'
  BY <1>1, <1>2, <1>5 DEF Types
<1>7. \A s \in Socket : Slots(sock'[s], owed'[s])
  BY <1>1 DEF IInv
<1>8. ASSUME NEW e \in End
      PROVE  /\ Sending(sock'[e], asked'[e], handed'[e])
             /\ Flow(sock'[e], link'[e], pipe'[e], got'[e], handed'[Peer(e)])
  <2>1. /\ Sending(sock[e], asked[e], handed[e]) /\ e \in Socket /\ Peer(e) \in End
        /\ Flow(sock[e], link[e], pipe[e], got[e], handed[Peer(e)])
    BY <1>8, Ends DEF IInv
  <2>2. sock[e].receiveTask = None
    BY <1>4, <1>8, Ends, NewSocket
  <2>3. got[e] = <<>> /\ pipe[e] = <<>> /\ handed[Peer(e)] = 0
    BY <1>3, <2>1
  <2>4. <<>> \o <<>> \o <<>> = Numbered(0)
    <3>1. Numbered(0) = <<>>
      BY Numbers, EmptySeq
    <3>2. <<>> \in Seq(Byte)
      BY EmptySeq
    <3> QED
      BY <3>1, <3>2, ConcatEmptySeq
  <2>5. Flow(sock[e], link'[e], <<>>, <<>>, 0)
    BY <2>1, <2>2, <2>3, <2>4 DEF Flow, Held
  <2> QED
    BY <1>1, <2>1, <2>3, <2>5
<1>9. Stages'
  BY <1>1, <1>2, <1>3, <1>4 DEF Stages
<1> QED
  BY <1>6, <1>7, <1>8, <1>9 DEF IInv

\* The end of the stream, or a reset, which takes what was buffered.

LEMMA LinkKeeps ==
  ASSUME IInv, NEW e \in End,
         link[e] \in {"open", "eof"},
         \/ link' = [link EXCEPT ![e] = "eof"] /\ pipe' = pipe /\ link[e] = "open"
         \/ link' = [link EXCEPT ![e] = "reset"] /\ pipe' = [pipe EXCEPT ![e] = <<>>],
         UNCHANGED <<sock, resolve, conn, owed, history>>
  PROVE  IInv'
<1>1. /\ sock' = sock /\ owed' = owed /\ resolve' = resolve /\ conn' = conn
      /\ handed' = handed /\ asked' = asked /\ got' = got
  BY DEF history
<1>2. Types /\ Stages
  BY DEF IInv
<1>3. <<>> \in Seq(Byte) /\ Len(<<>>) = 0 /\ Capacity \in Nat
  BY SizeAssumption
<1>4. conn \in {"queued", "accepted"}
  BY <1>2 DEF Stages, Types
<1>5. /\ link' \in [End -> {"none", "open", "eof", "reset"}] /\ pipe' \in [End -> Seq(Byte)]
      /\ \A t \in End : t # e => link'[t] = link[t] /\ pipe'[t] = pipe[t]
      /\ (link'[e] = "eof" /\ pipe'[e] = pipe[e] /\ link[e] = "open")
         \/ (link'[e] = "reset" /\ pipe'[e] = <<>>)
  BY ZenonT(60), <1>2, <1>3 DEF Types
<1>6. \A t \in End : Len(pipe'[t]) <= Capacity
  BY SMTT(40), <1>2, <1>3, <1>5 DEF Types
<1>7. Types'
  BY <1>1, <1>2, <1>5, <1>6 DEF Types
<1>8. \A s \in Socket : Slots(sock'[s], owed'[s])
  BY <1>1 DEF IInv
<1>9. ASSUME NEW t \in End
      PROVE  /\ Sending(sock'[t], asked'[t], handed'[t])
             /\ Flow(sock'[t], link'[t], pipe'[t], got'[t], handed'[Peer(t)])
  <2>1. /\ Sending(sock[t], asked[t], handed[t])
        /\ Flow(sock[t], link[t], pipe[t], got[t], handed[Peer(t)])
    BY DEF IInv
  <2>2. CASE t # e
    BY <1>1, <1>5, <2>1, <2>2
  <2>3. CASE t = e
    <3>1. Flow(sock[e], link'[e], pipe'[e], got[e], handed[Peer(e)])
      BY <1>5, <2>1, <2>3 DEF Flow
    <3> QED
      BY <1>1, <2>1, <2>3, <3>1
  <2> QED
    BY <2>2, <2>3
<1>10. Stages'
  BY <1>1, <1>2, <1>4, <1>5 DEF Stages
<1> QED
  BY <1>7, <1>8, <1>9, <1>10 DEF IInv

----------------------------------------------------------------------------
(*                               The events                                *)

LEMMA ConnectEventKeeps == IInv /\ ConnectEvent => IInv'
<1> SUFFICES ASSUME IInv, ConnectEvent PROVE IInv'
  OBVIOUS
<1> DEFINE i == sock["client"]
           k == DoConnectSuccess(i)
<1>1. /\ i.socket = "live" /\ i.connectTask = "connecting"
      /\ conn \in {"queued", "accepted", "refused"}
      /\ sock' = [sock EXCEPT !["client"] = k]
      /\ owed' = [owed EXCEPT !["client"] = owed["client"] \ {"connect"}]
      /\ conn' = conn /\ link' = link /\ pipe' = pipe /\ resolve' = resolve
      /\ handed' = handed /\ asked' = asked /\ got' = got
  BY DEF ConnectEvent, WriteDue, Becomes, Answered, kernel, history
<1>2. "client" \in Socket /\ "client" \in End
  BY Ends
<1>3. /\ i \in Impl /\ Slots(i, owed["client"]) /\ Len(pipe["client"]) <= Capacity
      /\ Sending(i, asked["client"], handed["client"])
      /\ Flow(i, link["client"], pipe["client"], got["client"], handed[Peer("client")])
      /\ i.state \in {"inited", "connecting", "connected", "listening", "closed"}
  BY <1>2, InUse
<1>4. i.state = "connecting" /\ i.receiveTask = None
  BY <1>1, <1>3, NewSocket DEF Slots, Idle
<1>5. /\ k \in Impl /\ (\A q : Slots(k, q)) /\ k.state = "connected" /\ k.socket = "live"
      /\ k.receiveTask = None /\ k.sendTask = None
  BY <1>1, <1>3, <1>4, IsConnected
<1> HIDE DEF k
<1>6. Sending(k, asked["client"], handed["client"])
  BY <1>3, <1>4, <1>5 DEF Sending
<1>7. Flow(k, link["client"], pipe["client"], got["client"], handed[Peer("client")])
  BY <1>1, <1>3, <1>4, <1>5 DEF Flow, Held
<1>8. /\ owed' \in [Socket -> SUBSET {"connect", "send", "receive", "accept"}]
      /\ \A t \in Socket : t # "client" => owed'[t] = owed[t]
      /\ asked' \in [End -> Nat]
      /\ resolve' \in {"none", "running", "posted"}
      /\ pipe' \in [End -> Seq(Byte)] /\ got' \in [End -> Seq(Byte)]
  BY <1>1 DEF IInv, Types
<1> QED
  BY <1>1, <1>2, <1>3, <1>5, <1>6, <1>7, <1>8, OneSocket

\* The timer closes a socket that is still connecting.

LEMMA TimerKeeps == IInv /\ TimerFires => IInv'
<1> SUFFICES ASSUME IInv, TimerFires PROVE IInv'
  OBVIOUS
<1>1. /\ Fails("client", "connect") /\ UNCHANGED <<kernel, history>> /\ resolve' = resolve
      /\ "client" \in Socket /\ "client" # "server"
  BY Ends DEF TimerFires
<1>2. resolve' \in {"none", "running", "posted"}
  BY <1>1 DEF IInv, Types
<1> QED
  BY <1>1, <1>2, FailingKeeps

\* A socket with a task whose event is due is connected, and so is what it is connected to.

LEMMA InConnection ==
  ASSUME IInv, NEW e \in End,
         \/ WriteDue(sock[e]) /\ sock[e].sendTask # None
         \/ ReadDue(sock[e]) /\ sock[e].receiveTask # None
  PROVE  /\ e \in Socket /\ sock[e].state = "connected" /\ sock[e].socket = "live"
         /\ conn \in {"queued", "accepted", "refused"}
         /\ e = "server" => conn = "accepted"
         /\ ~Broken(e) => conn \in {"queued", "accepted"} /\ link[e] \in {"open", "eof"}
<1>1. e \in Socket /\ sock[e].socket = "live"
  BY Ends DEF WriteDue, ReadDue
<1>2. /\ Slots(sock[e], owed[e])
      /\ sock[e].state \in {"inited", "connecting", "connected", "listening", "closed"}
  BY <1>1, InUse
<1>3. sock[e].state = "connected"
  BY <1>1, <1>2, NewSocket DEF Slots
<1>4. /\ conn \in {"queued", "accepted", "refused"} /\ (e = "server" => conn = "accepted")
  BY <1>1, <1>3, Ends, InUse
<1>5. ASSUME ~Broken(e) PROVE conn \in {"queued", "accepted"} /\ link[e] \in {"open", "eof"}
  <2>1. link[e] # "reset" /\ conn \in {"queued", "accepted"}
    BY <1>4, <1>5, Ends DEF Broken
  <2>2. link[e] # "none" /\ link[e] \in {"none", "open", "eof", "reset"}
    BY <2>1 DEF IInv, Stages, Types
  <2> QED
    BY <2>1, <2>2
<1> QED
  BY <1>1, <1>3, <1>4, <1>5

\* A send that fails closes the socket; the bytes the kernel took stay counted.

LEMMA SendFailsKeeps ==
  ASSUME IInv, NEW e \in End, SendFails(e)
  PROVE  IInv'
<1>1. /\ Fails(e, "send") /\ UNCHANGED <<kernel, history>> /\ resolve' = resolve
      /\ WriteDue(sock[e]) /\ sock[e].sendTask # None
  BY DEF SendFails
<1>2. e \in Socket /\ (e = "server" => conn = "accepted")
  BY <1>1, InConnection
<1>3. resolve' \in {"none", "running", "posted"}
  BY <1>1 DEF IInv, Types
<1> QED
  BY <1>1, <1>2, <1>3, FailingKeeps

\* doAccept: the listener's task is done, and the server's socket is there.

LEMMA AcceptEventKeeps == IInv /\ AcceptEvent => IInv'
<1> SUFFICES ASSUME IInv, AcceptEvent PROVE IInv'
  OBVIOUS
<1> DEFINE i == sock["listener"]
<1>1. /\ i.socket = "live" /\ ~i.readSuspended /\ i.acceptTask /\ conn = "queued"
      /\ link' = link /\ pipe' = pipe /\ resolve' = resolve
      /\ handed' = handed /\ asked' = asked /\ got' = got /\ UNCHANGED history
  BY DEF AcceptEvent, ReadDue, history
<1>2. /\ "listener" \in Socket /\ "server" \in Socket /\ "client" \in Socket
      /\ "listener" \notin End
  BY Ends
<1>3. Types /\ Stages
  BY DEF IInv
<1>4. CASE Fails("listener", "accept") /\ UNCHANGED conn
  <2>1. UNCHANGED <<kernel, history>> /\ resolve' \in {"none", "running", "posted"}
    BY <1>1, <1>3, <1>4 DEF kernel, Types
  <2> QED
    BY <1>2, <1>4, <2>1, FailingKeeps
<1>5. CASE /\ sock' = [sock EXCEPT !["listener"] = EndAccept(i),
                                   !["server"] = Accepted(sock["server"])]
           /\ conn' = "accepted" /\ Answered("listener", "accept")
  <2>1. sock["server"] = NewImpl
    BY <1>1, <1>3 DEF Stages
  <2>2. i \in Impl /\ Slots(i, owed["listener"])
        /\ i.state \in {"inited", "connecting", "connected", "listening", "closed"}
    BY <1>2, InUse
  <2>3. i.state = "listening"
    BY <1>1, <2>2 DEF Slots, NewImpl
  <2>4. EndAccept(i) \in Impl /\ \A q : Slots(EndAccept(i), q)
    BY <2>2, <2>3, Accepts
  <2> DEFINE k == Accepted(NewImpl)
             j == EndAccept(i)
  <2>5. /\ k \in Impl /\ (\A q : Slots(k, q)) /\ k.state = "connected" /\ k.socket = "live"
        /\ k.receiveTask = None /\ k.sendTask = None
    BY IsAccepted
  <2>6. sock' = [sock EXCEPT !["listener"] = j, !["server"] = k]
    BY <1>5, <2>1
  <2> HIDE DEF k, j
  <2>7. j \in Impl /\ \A q : Slots(j, q)
    BY <2>4 DEF j
  <2>8. /\ sock'["server"] = k /\ sock'["listener"] = j /\ sock'["client"] = sock["client"]
        /\ sock' \in [Socket -> Impl]
    BY <1>2, <1>3, <2>5, <2>6, <2>7 DEF Types
  <2>9. /\ owed' \in [Socket -> SUBSET {"connect", "send", "receive", "accept"}]
        /\ owed'["client"] = owed["client"]
    BY <1>2, <1>3, <1>5 DEF Types, Answered
  <2>10. Types'
    BY <1>1, <1>3, <1>5, <2>8, <2>9 DEF Types
  <2>11. ASSUME NEW s \in Socket PROVE Slots(sock'[s], owed'[s])
    <3>1. Slots(sock["client"], owed["client"])
      BY <1>2 DEF IInv
    <3> QED
      BY <2>5, <2>7, <2>8, <2>9, <3>1, Ends
  <2>12. ASSUME NEW e \in End
         PROVE  /\ Sending(sock'[e], asked'[e], handed'[e])
                /\ Flow(sock'[e], link'[e], pipe'[e], got'[e], handed'[Peer(e)])
    <3>1. /\ Sending(sock[e], asked[e], handed[e])
          /\ Flow(sock[e], link[e], pipe[e], got[e], handed[Peer(e)])
      BY DEF IInv
    <3>2. CASE e = "client"
      BY <1>1, <2>8, <3>1, <3>2
    <3>3. CASE e = "server"
      <4>1. asked[e] = 0 /\ handed[e] = 0
        BY <2>1, <3>1, <3>3, NewSocket DEF Sending
      <4>2. Sending(k, asked[e], handed[e])
        BY <2>5, <4>1 DEF Sending
      <4>3. Flow(k, link[e], pipe[e], got[e], handed[Peer(e)])
        BY <2>1, <2>5, <3>1, <3>3, NewSocket DEF Flow, Held
      <4> QED
        BY <1>1, <2>8, <3>3, <4>2, <4>3
    <3> QED
      BY <3>2, <3>3, Ends
  <2>13. Stages'
    <3>1. sock'["client"].socket # "nil"
      BY <1>1, <1>3, <2>8 DEF Stages
    <3>2. \A e \in End : link'[e] # "none"
      BY <1>1, <1>3 DEF Stages
    <3> QED
      BY <1>5, <2>5, <2>8, <3>1, <3>2 DEF Stages
  <2> QED
    BY <2>10, <2>11, <2>12, <2>13 DEF IInv
<1> QED
  BY <1>4, <1>5 DEF AcceptEvent

\* Reading moves bytes from the buffer to the task, and what was there does not change.

Joined(s, t) == s \o t

\* Joined bytes are bytes, and joining is associative.

LEMMA Joining ==
  ASSUME NEW s \in Seq(Byte), NEW t \in Seq(Byte), NEW u \in Seq(Byte)
  PROVE  Joined(s, t) \in Seq(Byte) /\ Joined(Joined(s, t), u) = Joined(s, Joined(t, u))
<1>1. s \o t \in Seq(Byte)
  BY ConcatProperties
<1>2. (s \o t) \o u = s \o (t \o u)
  BY ConcatAssociative
<1> QED
  BY <1>1, <1>2 DEF Joined

\* A piece moves from the buffer to what is held before it.

LEMMA Regroup ==
  ASSUME NEW g \in Seq(Byte), NEW d \in Seq(Byte), NEW s \in Seq(Byte), NEW t \in Seq(Byte)
  PROVE  Joined(Joined(g, Joined(d, s)), t) = Joined(Joined(g, d), Joined(s, t))
<1>1. Joined(g, d) \in Seq(Byte)
  BY Joining
<1>2. Joined(Joined(g, d), s) = Joined(g, Joined(d, s))
  BY Joining
<1>3. Joined(Joined(Joined(g, d), s), t) = Joined(Joined(g, d), Joined(s, t))
  BY <1>1, Joining
<1> QED
  BY <1>2, <1>3

\* A send the kernel took n bytes of waits with the rest.

LEMMA StillSending ==
  ASSUME NEW k, NEW h \in Nat, NEW n \in Nat, NEW m \in Nat, n < m,
         k.state = "connected", k.sendTask # None, k.writeSuspended,
         k.sendTask.sentSize = n, k.sendTask.data = Following(h, m)
  PROVE  Sending(k, h + m, h + n)
<1>1. /\ k.sendTask.sentSize <= h + n /\ k.sendTask.sentSize < m
      /\ h + n - k.sendTask.sentSize = h /\ h + m = h + n - k.sendTask.sentSize + m
  OBVIOUS
<1>2. k.sendTask.data = Following(h + n - k.sendTask.sentSize, m)
  BY <1>1
<1> QED
  BY <1>1, <1>2 DEF Sending

\* doSend with nothing sent yet: what the kernel takes is what goes on after h.

LEMMA SendEventKeeps ==
  ASSUME IInv, NEW e \in End, SendEvent(e)
  PROVE  IInv'
<1> DEFINE i == sock[e]
           p == Peer(e)
           h == handed[e]
           chunk == Chunk(i.sendTask)
           room == Capacity - Len(pipe[p])
           n == IF Len(chunk) <= room THEN Len(chunk) ELSE room
           k == DoSend(i, n)
<1>1. /\ WriteDue(i) /\ i.sendTask # None /\ ~Broken(e) /\ room > 0
      /\ sock' = [sock EXCEPT ![e] = k]
      /\ pipe' = [pipe EXCEPT ![p] = pipe[p] \o SubSeq(chunk, 1, n)]
      /\ handed' = [handed EXCEPT ![e] = h + n]
      /\ IF sock'[e].sendTask = None THEN owed' = [owed EXCEPT ![e] = owed[e] \ {"send"}]
                                     ELSE owed' = owed
      /\ conn' = conn /\ link' = link /\ resolve' = resolve
      /\ asked' = asked /\ got' = got
  BY DEF SendEvent, Becomes, Answered
<1>2. p \in End /\ p # e /\ Peer(p) = e /\ e \in Socket /\ p \in Socket
  BY Ends
<1>3. /\ i.state = "connected" /\ i.socket = "live" /\ conn \in {"queued", "accepted"}
      /\ e = "server" => conn = "accepted"
  BY <1>1, InConnection
<1>4. Types /\ Stages /\ ~i.writeSuspended
  BY <1>1 DEF IInv, WriteDue
<1>5. /\ i \in Impl /\ Slots(i, owed[e]) /\ asked[e] \in Nat /\ h \in Nat
      /\ Sending(i, asked[e], h)
      /\ Flow(i, link[e], pipe[e], got[e], handed[p])
  BY <1>2, InUse
<1>6. /\ sock[p] \in Impl /\ got[p] \in Seq(Byte) /\ pipe[p] \in Seq(Byte)
      /\ Len(pipe[p]) \in Nat /\ Len(pipe[p]) <= Capacity
      /\ Sending(sock[p], asked[p], handed[p])
      /\ Flow(sock[p], link[p], pipe[p], got[p], h)
  BY <1>2, InUse, LenProperties
<1>7. PICK m \in Nat : /\ i.sendTask.sentSize <= h /\ i.sendTask.sentSize < m
                       /\ i.sendTask.data = Following(h - i.sendTask.sentSize, m)
                       /\ asked[e] = h - i.sendTask.sentSize + m
                       /\ ~i.writeSuspended => i.sendTask.sentSize = 0
  BY <1>1, <1>3, <1>5 DEF Sending
<1>8. i.sendTask.sentSize = 0 /\ h - 0 = h
  BY <1>4, <1>5, <1>7
<1>9. /\ 0 < m /\ i.sendTask.data = Following(h, m) /\ asked[e] = h + m
      /\ i.sendTask.data \in Seq(Byte) /\ Len(i.sendTask.data) = m
  BY <1>5, <1>7, <1>8, NumbersGoOn
<1>10. chunk = Following(h, m) /\ Len(chunk) = m
  <2>1. chunk = SubSeq(i.sendTask.data, 0 + 1, m - 0)
    BY <1>8, <1>9 DEF Chunk
  <2>2. 0 + 1 = 1 /\ m - 0 = m
    OBVIOUS
  <2>3. chunk = SubSeq(i.sendTask.data, 1, Len(i.sendTask.data))
    BY <1>9, <2>1, <2>2
  <2> QED
    BY <1>9, <2>3, SubSeqFull
<1>11. n \in 0..m /\ n \in Nat /\ Len(pipe[p]) + n <= Capacity
  <2>1. Capacity \in Nat
    BY SizeAssumption
  <2>2. room \in Nat /\ Len(pipe[p]) + room = Capacity
    BY <1>1, <1>6, <2>1
  <2>3. n = IF m <= room THEN m ELSE room
    BY <1>10
  <2> HIDE DEF n, room, chunk
  <2>4. CASE m <= room
    BY <1>6, <2>1, <2>2, <2>3, <2>4
  <2>5. CASE ~(m <= room)
    BY <1>6, <2>1, <2>2, <2>3, <2>5
  <2> QED
    BY <2>4, <2>5
<1> HIDE DEF chunk, room, n
<1>12. SubSeq(chunk, 1, n) = Following(h, n)
  BY <1>5, <1>10, <1>11, FollowingBegins
<1>13. i.sendTask \in SendTask
  BY <1>1, <1>5 DEF Impl
<1> DEFINE rest == [i.sendTask EXCEPT !.sentSize = n]
<1>14. rest \in SendTask /\ rest # None /\ rest.sentSize = n /\ rest.data = i.sendTask.data
  BY <1>11, <1>13, NoneIsNoTask DEF SendTask
<1>15. 0 + n = n
  BY <1>11
<1>16. k = [i EXCEPT !.writeSuspended = TRUE, !.sendTask = IF n < m THEN rest ELSE None]
  BY <1>8, <1>9, <1>15 DEF DoSend
<1> HIDE DEF rest
<1>17. /\ k \in Impl /\ Same(i, k) /\ k.writeSuspended
       /\ k.sendTask = (IF n < m THEN rest ELSE None)
       /\ k.receiveTask = i.receiveTask /\ k.readSuspended = i.readSuspended
  <2>1. (IF n < m THEN rest ELSE None) \in SendTask \cup {None}
    BY <1>14
  <2> DEFINE new == IF n < m THEN rest ELSE None
  <2> HIDE DEF new
  <2>2. k = [i EXCEPT !.writeSuspended = TRUE, !.sendTask = new] /\ new \in SendTask \cup {None}
    BY <1>16, <2>1 DEF new
  <2> HIDE DEF k
  <2>3. /\ k \in Impl /\ Same(i, k) /\ k.writeSuspended /\ k.sendTask = new
        /\ k.receiveTask = i.receiveTask /\ k.readSuspended = i.readSuspended
    BY <1>3, <1>5, <2>2 DEF Impl, Same
  <2> QED
    BY <2>3 DEF new
<1> HIDE DEF k
<1>18. sock'[e] = k /\ (\A t \in Socket : t # e => sock'[t] = sock[t]) /\ sock' \in [Socket -> Impl]
  BY <1>1, <1>2, <1>4, <1>17 DEF Types
<1>19. handed'[e] = h + n /\ (\A t \in End : t # e => handed'[t] = handed[t])
       /\ handed' \in [End -> Nat]
  BY <1>1, <1>4, <1>5, <1>11 DEF Types
<1>20. /\ owed' \in [Socket -> SUBSET {"connect", "send", "receive", "accept"}]
       /\ \A t \in Socket : t # e => owed'[t] = owed[t]
       /\ owed'[e] = owed[e] \/ (k.sendTask = None /\ owed'[e] = owed[e] \ {"send"})
  <2>1. CASE k.sendTask = None
    <3>1. owed' = [owed EXCEPT ![e] = owed[e] \ {"send"}]
      BY <1>1, <1>18, <2>1
    <3> QED
      BY <1>2, <1>4, <2>1, <3>1 DEF Types
  <2>2. CASE k.sendTask # None
    <3>1. owed' = owed
      BY <1>1, <1>18, <2>2
    <3> QED
      BY <1>4, <3>1 DEF Types
  <2> QED
    BY <2>1, <2>2
<1>21. Slots(k, owed'[e])
  BY <1>1, <1>3, <1>5, <1>17, <1>20 DEF Slots, Idle, Same
<1>22. Sending(k, asked[e], h + n)
  <2>1. CASE n < m
    <3>1. k.sendTask = rest
      BY <1>17, <2>1
    <3>2. k.sendTask # None /\ k.sendTask.sentSize = n /\ k.sendTask.data = Following(h, m)
      BY <1>9, <1>14, <3>1
    <3>3. k.state = "connected" /\ k.writeSuspended
      BY <1>17 DEF Same
    <3>4. Sending(k, h + m, h + n)
      BY <1>5, <1>11, <2>1, <3>2, <3>3, StillSending
    <3> QED
      BY <1>9, <3>4
  <2>2. CASE ~(n < m)
    <3>1. n = m
      BY <1>11, <2>2
    <3>2. k.sendTask = None
      BY <1>17, <2>2
    <3> QED
      BY <1>9, <1>17, <3>1, <3>2 DEF Sending, Same
  <2> QED
    BY <2>1, <2>2
<1>23. Flow(k, link[e], pipe[e], got[e], handed[p])
  BY <1>5, <1>17 DEF Flow, Held, Same
<1>24. /\ pipe' = [pipe EXCEPT ![p] = pipe[p] \o Following(h, n)]
       /\ Following(h, n) \in Seq(Byte) /\ Len(Following(h, n)) = n
  BY <1>1, <1>5, <1>11, <1>12, NumbersGoOn
<1>25. /\ pipe[p] \o Following(h, n) \in Seq(Byte)
       /\ Len(pipe[p] \o Following(h, n)) = Len(pipe[p]) + n
  BY ZenonT(60), <1>6, <1>24, ConcatProperties
<1>26. /\ pipe' \in [End -> Seq(Byte)] /\ pipe'[p] = pipe[p] \o Following(h, n)
       /\ \A t \in End : t # p => pipe'[t] = pipe[t]
  BY <1>2, <1>4, <1>24, <1>25 DEF Types
<1>27. Flow(sock[p], link[p], pipe'[p], got[p], h + n)
  <2>1. /\ got[p] = Numbered(Len(got[p])) /\ Len(got[p]) <= h + n
    <3>1. Len(got[p]) \in Nat
      BY <1>6, LenProperties
    <3> QED
      BY <1>5, <1>6, <1>11, <3>1 DEF Flow
  <2>2. ASSUME link[p] \in {"open", "eof"}, sock[p].socket # "closed"
        PROVE  got[p] \o Held(sock[p]) \o pipe'[p] = Numbered(h + n)
    <3>1. Held(sock[p]) \in Seq(Byte)
      <4>1. CASE sock[p].receiveTask = None
        BY <4>1, EmptySeq DEF Held
      <4>2. CASE sock[p].receiveTask # None
        <5>1. sock[p].receiveTask \in ReceiveTask
          BY <1>6, <4>2 DEF Impl
        <5> QED
          BY <4>2, <5>1 DEF Held, ReceiveTask
      <4> QED
        BY <4>1, <4>2
    <3>2. got[p] \o Held(sock[p]) \in Seq(Byte)
      BY <1>6, <3>1, ConcatProperties
    <3>3. got[p] \o Held(sock[p]) \o pipe[p] = Numbered(h)
      BY <1>6, <2>2 DEF Flow
    <3>4. got[p] \o Held(sock[p]) \o pipe'[p]
            = (got[p] \o Held(sock[p]) \o pipe[p]) \o Following(h, n)
      <4> DEFINE g == got[p] \o Held(sock[p])
                 f == Following(h, n)
      <4>1. /\ g \in Seq(Byte) /\ f \in Seq(Byte) /\ pipe[p] \in Seq(Byte)
            /\ pipe'[p] = pipe[p] \o f
        BY <1>6, <1>24, <1>26, <3>2
      <4> HIDE DEF g, f
      <4>2. Joined(Joined(g, pipe[p]), f) = Joined(g, Joined(pipe[p], f))
        BY <4>1, Joining
      <4>3. g \o pipe'[p] = (g \o pipe[p]) \o f
        BY <4>1, <4>2 DEF Joined
      <4> QED
        BY <4>3 DEF g, f
    <3> QED
      BY <1>5, <1>11, <3>3, <3>4, NumbersGoOn
  <2> QED
    BY <1>6, <2>1, <2>2 DEF Flow
<1>28. Types'
  <2>1. \A t \in End : Len(pipe'[t]) <= Capacity
    BY <1>4, <1>11, <1>25, <1>26 DEF Types
  <2> QED
    BY <1>1, <1>4, <1>18, <1>19, <1>20, <1>26, <2>1 DEF Types
<1>29. \A t \in Socket : Slots(sock'[t], owed'[t])
  BY <1>18, <1>20, <1>21 DEF IInv
<1>30. ASSUME NEW t \in End
       PROVE  /\ Sending(sock'[t], asked'[t], handed'[t])
              /\ Flow(sock'[t], link'[t], pipe'[t], got'[t], handed'[Peer(t)])
  <2>1. CASE t = e
    <3>1. p # e /\ p \in End
      BY <1>2
    <3>2. pipe'[e] = pipe[e] /\ handed'[p] = handed[p]
      BY <1>19, <1>26, <3>1
    <3> QED
      BY <1>1, <1>18, <1>19, <1>22, <1>23, <2>1, <3>2
  <2>2. CASE t = p
    BY <1>1, <1>2, <1>6, <1>18, <1>19, <1>27, <2>2
  <2> QED
    BY <2>1, <2>2, Ends
<1>31. Stages'
  <2>1. /\ e = "client" => sock'["client"].socket = "live"
        /\ e # "client" => sock'["client"] = sock["client"]
        /\ e = "server" => sock'["server"].socket = "live"
        /\ e # "server" => sock'["server"] = sock["server"]
    BY SMTT(40), <1>3, <1>17, <1>18, Ends DEF Same
  <2> QED
    BY <1>1, <1>3, <1>4, <2>1 DEF Stages
<1> QED
  BY <1>28, <1>29, <1>30, <1>31 DEF IInv

\* doReceive: what was read is a prefix of what was sent, with or without its task.

LEMMA ReceiveEventKeeps ==
  ASSUME IInv, NEW e \in End, ReceiveEvent(e)
  PROVE  IInv'
<1> DEFINE i == sock[e]
           task == i.receiveTask
           n == Wanted(task, Len(pipe[e]))
           read == SubSeq(pipe[e], 1, n)
           left == SubSeq(pipe[e], n + 1, Len(pipe[e]))
           data == task.data \o read
           complete == task.size = None \/ Len(data) = task.size
<1>1. /\ ReadDue(i) /\ task # None
      /\ IF Broken(e) THEN pipe' = pipe ELSE pipe' = [pipe EXCEPT ![e] = left]
      /\ conn' = conn /\ link' = link /\ resolve' = resolve
      /\ asked' = asked /\ handed' = handed
  BY SMTT(40) DEF ReceiveEvent
<1>2. \/ /\ ~Broken(e) /\ complete
         /\ Becomes(e, EndReceive(i))
         /\ got' = [got EXCEPT ![e] = got[e] \o data]
         /\ Answered(e, "receive")
      \/ /\ ~Broken(e) /\ ~complete /\ link[e] = "open"
         /\ Becomes(e, ReceiveMore(i, data))
         /\ got' = got /\ owed' = owed
      \/ /\ Broken(e) \/ (~complete /\ link[e] = "eof")
         /\ Fails(e, "receive")
         /\ got' = got
  BY DEF ReceiveEvent
<1>3. /\ e \in Socket /\ i.state = "connected" /\ i.socket = "live"
      /\ e = "server" => conn = "accepted"
      /\ ~Broken(e) => conn \in {"queued", "accepted"} /\ link[e] \in {"open", "eof"}
  BY <1>1, InConnection
<1>4. Types
  BY DEF IInv
<1>5. /\ i \in Impl /\ Slots(i, owed[e]) /\ got[e] \in Seq(Byte) /\ pipe[e] \in Seq(Byte)
      /\ Len(pipe[e]) <= Capacity /\ handed[Peer(e)] \in Nat
      /\ Sending(i, asked[e], handed[e])
      /\ Flow(i, link[e], pipe[e], got[e], handed[Peer(e)])
  BY <1>3, InUse
<1>6. /\ task \in ReceiveTask /\ task.data \in Seq(Byte) /\ Len(task.data) \in Nat
      /\ task.size \in Nat \cup {None} /\ Len(pipe[e]) \in Nat
      /\ task.size # None => Len(task.data) < task.size
  <2>1. task \in ReceiveTask
    BY <1>1, <1>5 DEF Impl
  <2>2. task.data \in Seq(Byte) /\ task.size \in Nat \cup {None}
    BY <2>1 DEF ReceiveTask
  <2> QED
    BY <1>1, <1>5, <2>1, <2>2, LenProperties DEF Flow
<1>7. /\ n \in 0..Len(pipe[e])
      /\ task.size # None => Len(task.data) + n <= task.size
  <2>1. CASE task.size = None \/ task.size - Len(task.data) > Len(pipe[e])
    <3>1. n = Len(pipe[e])
      BY <2>1 DEF Wanted
    <3> HIDE DEF n, task
    <3>2. CASE task.size = None
      BY <1>6, <3>1, <3>2
    <3>3. CASE task.size # None
      <4>1. task.size \in Nat /\ task.size - Len(task.data) > Len(pipe[e])
        BY <1>6, <2>1, <3>3
      <4> DEFINE available == Len(pipe[e])
      <4>2. /\ Len(task.data) \in Nat /\ available \in Nat /\ n = available
            /\ task.size - Len(task.data) > available
        BY <1>6, <3>1, <4>1
      <4> HIDE DEF available
      <4>3. n \in 0..available /\ Len(task.data) + n <= task.size
        BY <4>1, <4>2
      <4> QED
        BY <4>3 DEF available
    <3> QED
      BY <3>2, <3>3
  <2>2. CASE ~(task.size = None \/ task.size - Len(task.data) > Len(pipe[e]))
    <3>1. n = task.size - Len(task.data)
      BY <2>2 DEF Wanted
    <3> QED
      BY <1>6, <2>2, <3>1
  <2> QED
    BY <2>1, <2>2
<1> HIDE DEF n
<1>8. /\ read \in Seq(Byte) /\ Len(read) = n /\ left \in Seq(Byte)
      /\ Len(left) = Len(pipe[e]) - n /\ read \o left = pipe[e]
  BY <1>5, <1>7, Pieces
<1> HIDE DEF read, left
<1>9. data \in Seq(Byte) /\ Len(data) = Len(task.data) + n
  BY <1>6, <1>8, ConcatProperties
<1>10. got[e] \o data \in Seq(Byte) /\ (got[e] \o data) \o left = (got[e] \o task.data) \o pipe[e]
  <2>1. got[e] \o data \in Seq(Byte)
    BY <1>5, <1>9, ConcatProperties
  <2>2. Joined(Joined(got[e], Joined(task.data, read)), left)
          = Joined(Joined(got[e], task.data), Joined(read, left))
    <3>1. got[e] \in Seq(Byte) /\ task.data \in Seq(Byte)
      BY <1>5, <1>6
    <3>2. read \in Seq(Byte) /\ left \in Seq(Byte)
      BY <1>8
    <3> HIDE DEF task
    <3> QED
      BY <3>1, <3>2, Regroup
  <2> QED
    BY <1>8, <2>1, <2>2 DEF Joined
<1> HIDE DEF data
<1>11. ~Broken(e) => (got[e] \o data) \o left = Numbered(handed[Peer(e)])
  BY <1>1, <1>3, <1>5, <1>10 DEF Flow, Held
<1>12. /\ pipe' \in [End -> Seq(Byte)] /\ (\A t \in End : t # e => pipe'[t] = pipe[t])
       /\ Broken(e) => pipe' = pipe
       /\ ~Broken(e) => pipe'[e] = left
  BY <1>1, <1>4, <1>8 DEF Types
<1>13. \A t \in End : Len(pipe'[t]) <= Capacity
  <2> TAKE t \in End
  <2>1. CASE t = e /\ ~Broken(e)
    <3>1. Len(pipe[e]) - n <= Len(pipe[e]) /\ Len(pipe[e]) - n \in Nat
      BY <1>6, <1>7
    <3>2. Capacity \in Nat
      BY SizeAssumption
    <3> QED
      BY <1>5, <1>6, <1>8, <1>12, <2>1, <3>1, <3>2
  <2>2. CASE ~(t = e /\ ~Broken(e))
    BY <1>4, <1>12, <2>2 DEF Types
  <2> QED
    BY <2>1, <2>2
<1>14. resolve' \in {"none", "running", "posted"} /\ asked' \in [End -> Nat]
  BY <1>1, <1>4 DEF Types
<1>15. CASE /\ ~Broken(e) /\ complete
            /\ Becomes(e, EndReceive(i))
            /\ got' = [got EXCEPT ![e] = got[e] \o data]
            /\ Answered(e, "receive")
  <2> DEFINE k == EndReceive(i)
  <2>1. sock' = [sock EXCEPT ![e] = k] /\ owed' = [owed EXCEPT ![e] = owed[e] \ {"receive"}]
    BY <1>15 DEF Becomes, Answered
  <2>2. /\ k \in Impl /\ Same(i, k) /\ Slots(k, owed[e] \ {"receive"})
        /\ k.receiveTask = None
        /\ k.sendTask = i.sendTask /\ k.writeSuspended = i.writeSuspended
    BY <1>1, <1>3, <1>5, HasReceived
  <2> HIDE DEF k
  <2>3. /\ owed' \in [Socket -> SUBSET {"connect", "send", "receive", "accept"}]
        /\ \A t \in Socket : t # e => owed'[t] = owed[t]
        /\ owed'[e] = owed[e] \ {"receive"}
    BY <1>3, <1>4, <2>1 DEF Types
  <2>4. /\ got' \in [End -> Seq(Byte)] /\ got'[e] = got[e] \o data
        /\ \A t \in End : t # e => got'[t] = got[t]
    BY <1>4, <1>10, <1>15 DEF Types
  <2>5. Flow(k, link[e], left, got[e] \o data, handed[Peer(e)])
    <3>1. got[e] \o data = Numbered(Len(got[e] \o data)) /\ Len(got[e] \o data) <= handed[Peer(e)]
      BY <1>5, <1>8, <1>10, <1>11, <1>15, NumbersBegin
    <3>2. (got[e] \o data) \o <<>> = got[e] \o data
      BY <1>10, ConcatEmptySeq
    <3> QED
      BY SMTT(40), <1>11, <1>15, <2>2, <3>1, <3>2 DEF Flow, Held
  <2>6. Sending(k, asked[e], handed[e])
    BY <1>3, <1>5, <2>2 DEF Sending, Same
  <2>7. k.socket = "live" /\ k.state = "connected"
    BY <1>3, <2>2 DEF Same
  <2>8. Flow(k, link[e], pipe'[e], got'[e], handed[Peer(e)])
    BY <1>12, <1>15, <2>4, <2>5
  <2>9. asked'[e] = asked[e] /\ \A t \in End : t # e => asked'[t] = asked[t]
    BY <1>1
  <2> QED
    BY <1>1, <1>3, <1>12, <1>13, <1>14, <1>15, <2>1, <2>2, <2>3, <2>4, <2>6, <2>7, <2>8, <2>9,
       OneSocket
<1>16. CASE /\ ~Broken(e) /\ ~complete /\ link[e] = "open"
            /\ Becomes(e, ReceiveMore(i, data))
            /\ got' = got /\ owed' = owed
  <2> DEFINE k == ReceiveMore(i, data)
  <2>1. sock' = [sock EXCEPT ![e] = k] /\ owed' = owed /\ got' = got
    BY <1>16 DEF Becomes
  <2>2. /\ k \in Impl /\ Same(i, k) /\ Slots(k, owed[e])
        /\ k.receiveTask # None /\ k.receiveTask.data = data
        /\ k.receiveTask.size = task.size
        /\ k.sendTask = i.sendTask /\ k.writeSuspended = i.writeSuspended
    BY <1>1, <1>3, <1>5, <1>9, ReceivesMore
  <2> HIDE DEF k
  <2>3. /\ owed' \in [Socket -> SUBSET {"connect", "send", "receive", "accept"}]
        /\ got' \in [End -> Seq(Byte)]
    BY <1>4, <2>1 DEF Types
  <2>4. task.size # None => Len(data) < task.size
    <3> SUFFICES ASSUME task.size # None PROVE Len(data) < task.size
      OBVIOUS
    <3>1. task.size \in Nat /\ Len(task.data) + n <= task.size /\ n \in Nat
      BY <1>6, <1>7
    <3>2. Len(data) # task.size
      BY <1>16
    <3> QED
      BY SMTT(40), <1>6, <1>9, <3>1, <3>2
  <2>5. Flow(k, link[e], left, got[e], handed[Peer(e)])
    <3>1. got[e] = Numbered(Len(got[e])) /\ Len(got[e]) <= handed[Peer(e)]
      BY <1>5 DEF Flow
    <3> QED
      BY <1>11, <1>16, <2>2, <2>4, <3>1 DEF Flow, Held
  <2>6. Sending(k, asked[e], handed[e])
    BY <1>3, <1>5, <2>2 DEF Sending, Same
  <2>7. k.socket = "live" /\ k.state = "connected"
    BY <1>3, <2>2 DEF Same
  <2>8. Flow(k, link[e], pipe'[e], got'[e], handed[Peer(e)])
    BY <1>12, <1>16, <2>1, <2>5
  <2>9. \A t \in End : asked'[t] = asked[t] /\ got'[t] = got[t]
    BY <1>1, <2>1
  <2>10. Slots(k, owed'[e]) /\ \A t \in Socket : t # e => owed'[t] = owed[t]
    BY <2>1, <2>2
  <2> QED
    BY <1>1, <1>3, <1>12, <1>13, <1>14, <1>16, <2>1, <2>2, <2>3, <2>6, <2>7, <2>8, <2>9, <2>10,
       OneSocket
<1>17. CASE /\ Broken(e) \/ (~complete /\ link[e] = "eof")
            /\ Fails(e, "receive")
            /\ got' = got
  <2>1. /\ sock' = [sock EXCEPT ![e] = Close(sock[e])]
        /\ owed' = [owed EXCEPT ![e] = owed[e] \ {"receive"}] /\ got' = got
    BY <1>17 DEF Fails, Becomes, Answered
  <2>2. /\ owed' \in [Socket -> SUBSET {"connect", "send", "receive", "accept"}]
        /\ \A t \in Socket : t # e => owed'[t] = owed[t]
    BY <1>3, <1>4, <2>1 DEF Types
  <2>3. conn \in {"queued", "accepted"} \/ pipe' = pipe
    BY <1>3, <1>12
  <2> QED
    BY <1>1, <1>3, <1>12, <1>13, <1>14, <2>1, <2>2, <2>3, ClosingKeeps
<1> QED
  BY ZenonT(60), <1>2, <1>15, <1>16, <1>17 DEF data, read, n
----------------------------------------------------------------------------
\* Every step keeps the invariant.

LEMMA StepKeeps == IInv /\ [Next]_vars => IInv'
<1> SUFFICES ASSUME IInv, [Next]_vars PROVE IInv'
  OBVIOUS
<1>1. CASE \E e \in End : \/ \E n \in SendSize : SendOn(e, n)
                          \/ \E size \in ReceiveSize : ReceiveOn(e, size)
  BY <1>1, SendOnKeeps, ReceiveOnKeeps
<1>2. CASE \E e \in End : FinArrives(e) \/ ResetArrives(e)
  <2>1. PICK e \in End : FinArrives(e) \/ ResetArrives(e)
    BY <1>2
  <2>2. CASE FinArrives(e)
    BY <2>2, LinkKeeps DEF FinArrives
  <2>3. CASE ResetArrives(e)
    BY <2>3, LinkKeeps DEF ResetArrives
  <2> QED
    BY <2>1, <2>2, <2>3
<1>3. CASE \E e \in End : SendEvent(e) \/ SendFails(e) \/ ReceiveEvent(e)
  BY <1>3, SendEventKeeps, SendFailsKeeps, ReceiveEventKeeps
<1>4. CASE \E s \in Socket : CloseOn(s)
  BY <1>4, CloseOnKeeps
<1>5. CASE UNCHANGED vars
  <2>1. UNCHANGED <<sock, resolve, conn, link, pipe, owed, asked, handed, got>>
    BY <1>5 DEF vars
  <2>2. Types' /\ Stages'
    BY <2>1 DEF IInv, Types, Stages
  <2>3. (\A s \in Socket : Slots(sock[s], owed[s]))'
    BY <2>1 DEF IInv
  <2>4. (\A e \in End : /\ Sending(sock[e], asked[e], handed[e])
                        /\ Flow(sock[e], link[e], pipe[e], got[e], handed[Peer(e)]))'
    BY <2>1 DEF IInv
  <2> QED
    BY <2>2, <2>3, <2>4 DEF IInv
<1>6. CASE ConnectHost \/ ConnectEndPoint \/ ListenOn \/ AcceptOn
  BY <1>6, ConnectHostKeeps, ConnectEndPointKeeps, ListenOnKeeps, AcceptOnKeeps
<1>7. CASE ResolverPosts \/ ResolverCalls \/ Handshake
  BY <1>7, ResolverPostsKeeps, ResolverCallsKeeps, HandshakeKeeps
<1>8. CASE ConnectEvent \/ TimerFires \/ AcceptEvent
  BY <1>8, ConnectEventKeeps, TimerKeeps, AcceptEventKeeps
<1> QED
  BY <1>1, <1>2, <1>3, <1>4, <1>5, <1>6, <1>7, <1>8 DEF Next

(***************************************************************************)
(* The strengthened invariant holds in every reachable state: what the     *)
(* slots of each TCPSocket.Impl may hold in its state, what a send and a   *)
(* receive under way have done, and the stage of the connection.           *)
(***************************************************************************)
THEOREM Invariant == Spec => []IInv
BY InitInv, StepKeeps, PTL DEF Spec

(***************************************************************************)
(* An event finds the task its handler unwraps (doSend, doReceive,         *)
(* doAccept and doConnectSuccess of TCPSocket.swift), the timer is set     *)
(* only while connecting, and no precondition fails a caller that waits    *)
(* for its answers.                                                        *)
(***************************************************************************)
THEOREM SlotsAreSound == Spec => []SlotsSound
<1>1. IInv => SlotsSound
  <2> SUFFICES ASSUME IInv PROVE SlotsSound
    OBVIOUS
  <2>1. ASSUME NEW s \in Socket
        PROVE  LET i == sock[s] IN
               /\ WriteDue(i) => \/ i.state = "connecting" /\ i.connectTask = "connecting"
                                 \/ i.state = "connected" /\ i.sendTask # None
               /\ ReadDue(i) => \/ i.state = "connected" /\ i.receiveTask # None
                                \/ i.state = "listening" /\ i.acceptTask
               /\ i.timer => i.state = "connecting"
    <3>1. /\ Slots(sock[s], owed[s])
          /\ sock[s].state \in {"inited", "connecting", "connected", "listening", "closed"}
      BY InUse
    <3>2. NewImpl.socket = "nil" /\ ~NewImpl.timer
      BY DEF NewImpl
    <3> QED
      BY <3>1, <3>2 DEF Slots, Idle, WriteDue, ReadDue
  <2>2. ASSUME NEW s \in Socket
        PROVE  LET i == sock[s] IN
               /\ i.state = "inited" => CanConnect(i) /\ CanListen(i)
               /\ i.state = "connected" /\ "send" \notin owed[s] => CanSend(i)
               /\ i.state = "connected" /\ "receive" \notin owed[s] => CanReceive(i)
               /\ i.state = "listening" /\ "accept" \notin owed[s] => CanAccept(i)
    <3>1. Slots(sock[s], owed[s])
      BY InUse
    <3>2. /\ NewImpl.socket = "nil" /\ NewImpl.state = "inited" /\ NewImpl.connectTask = "none"
      BY DEF NewImpl
    <3> QED
      BY <3>1, <3>2 DEF Slots, Idle, CanConnect, CanListen, CanSend, CanReceive, CanAccept
  <2> QED
    BY <2>1, <2>2 DEF SlotsSound, EventsMatchState, CallerKnowsEnough
<1> QED
  BY <1>1, Invariant, PTL

(***************************************************************************)
(* What receive hands out is what send was given, in order and without a   *)
(* gap; a send that was answered left nothing behind, and no receive holds *)
(* more than it asked for (doSend and doReceive of TCPSocket.swift).       *)
(***************************************************************************)
THEOREM StreamIsSound == Spec => []StreamSound
<1>1. IInv => StreamSound
  <2> SUFFICES ASSUME IInv PROVE StreamSound
    OBVIOUS
  <2>1. TypeOK
    <3>1. \A e \in End : Flow(sock[e], link[e], pipe[e], got[e], handed[Peer(e)])
      BY DEF IInv
    <3>2. ASSUME NEW e \in End, sock[e].receiveTask # None, sock[e].receiveTask.size # None
          PROVE  Len(sock[e].receiveTask.data) < sock[e].receiveTask.size
      BY <3>1, <3>2 DEF Flow
    <3> QED
      BY <3>2 DEF IInv, Types, TypeOK
  <2>2. ASSUME NEW e \in End
        PROVE  /\ got[e] = Numbered(Len(got[e]))
               /\ Len(got[e]) <= handed[Peer(e)]
               /\ link[e] \in {"open", "eof"} /\ sock[e].socket # "closed" =>
                    got[e] \o Partial(e) \o pipe[e] = Numbered(handed[Peer(e)])
    <3>1. Flow(sock[e], link[e], pipe[e], got[e], handed[Peer(e)])
      BY DEF IInv
    <3>2. Partial(e) = Held(sock[e])
      BY DEF Partial, Held
    <3> QED
      BY <3>1, <3>2 DEF Flow
  <2>3. ASSUME NEW e \in End, sock[e].state = "connected", "send" \notin owed[e]
        PROVE  handed[e] = asked[e]
    <3>1. Slots(sock[e], owed[e]) /\ Sending(sock[e], asked[e], handed[e])
      BY InUse DEF IInv, Socket
    <3>2. sock[e].sendTask = None
      BY <2>3, <3>1 DEF Slots
    <3> QED
      BY <2>3, <3>1, <3>2 DEF Sending
  <2> QED
    BY <2>1, <2>2, <2>3 DEF StreamSound, StreamIntact
<1> QED
  BY <1>1, Invariant, PTL

(***************************************************************************)
(* A closed socket stays closed and calls nobody back: not for a name that *)
(* was being resolved, a timer, a send or a receive (close and _close of   *)
(* TCPSocket.swift, invokeReadHandler and invokeWriteHandler of            *)
(* DispatchSocket.swift).                                                  *)
(***************************************************************************)
THEOREM ClosedIsSilent == Spec => SilentOnceClosed
<1>1. ASSUME IInv, [Next]_vars, NEW s \in Socket, sock[s].state = "closed"
      PROVE  sock'[s] = sock[s] /\ owed'[s] = owed[s] /\ (s \in End => got'[s] = got[s])
  <2> DEFINE Silent == sock'[s] = sock[s] /\ owed'[s] = owed[s] /\ (s \in End => got'[s] = got[s])
  <2> SUFFICES Silent
    OBVIOUS
  <2> HIDE DEF Silent
  <2>1. /\ ~WriteDue(sock[s]) /\ ~ReadDue(sock[s]) /\ ~ResolverHeard(sock[s])
        /\ ~sock[s].timer
    BY <1>1, InUse DEF Slots, Idle, WriteDue, ReadDue, ResolverHeard
  <2>2. ASSUME NEW t, t # s, NEW i, Becomes(t, i)
        PROVE  sock'[s] = sock[s]
    <3>1. sock \in [Socket -> Impl] /\ s \in Socket /\ sock' = [sock EXCEPT ![t] = i]
      BY <1>1, <2>2 DEF Becomes, IInv, Types
    <3> QED
      BY <2>2, <3>1
  <2>3. ASSUME NEW t, t # s, NEW op, Called(t, op) \/ Answered(t, op)
        PROVE  owed'[s] = owed[s]
    <3>1. owed \in [Socket -> SUBSET {"connect", "send", "receive", "accept"}] /\ s \in Socket
      BY <1>1 DEF IInv, Types
    <3>2. CASE Called(t, op)
      BY <2>3, <3>1, <3>2 DEF Called
    <3>3. CASE Answered(t, op)
      BY <2>3, <3>1, <3>3 DEF Answered
    <3> QED
      BY <2>3, <3>2, <3>3
  <2>4. ASSUME sock' = sock, owed' = owed, got' = got
        PROVE  Silent
    BY <2>4 DEF Silent
  <2>5. CASE ConnectHost
    <3>1. /\ "client" # s /\ got' = got
          /\ Becomes("client", Resolve(sock["client"])) /\ Called("client", "connect")
      BY <1>1, <2>5 DEF ConnectHost, CanConnect, history
    <3> QED
      BY <2>2, <2>3, <3>1 DEF Silent
  <2>6. CASE ConnectEndPoint
    <3>1. "client" # s /\ got' = got
      BY <1>1, <2>6 DEF ConnectEndPoint, CanConnect, history
    <3>2. CASE Becomes("client", Connect(sock["client"])) /\ Called("client", "connect")
      BY <2>2, <2>3, <3>1, <3>2 DEF Silent
    <3>3. CASE Becomes("client", Close(sock["client"])) /\ owed' = owed
      BY <2>2, <3>1, <3>3 DEF Silent
    <3> QED
      BY <2>6, <3>2, <3>3 DEF ConnectEndPoint, StartConnecting
  <2>7. CASE ListenOn
    <3>1. "listener" # s /\ got' = got /\ owed' = owed
      BY <1>1, <2>7 DEF ListenOn, CanListen, history
    <3>2. Becomes("listener", Listen(sock["listener"])) \/ Becomes("listener", Close(sock["listener"]))
      BY <2>7 DEF ListenOn
    <3>3. sock'[s] = sock[s]
      BY <2>2, <3>1, <3>2
    <3> QED
      BY <3>1, <3>3 DEF Silent
  <2>8. CASE AcceptOn
    <3>1. /\ "listener" # s /\ got' = got
          /\ Becomes("listener", Accept(sock["listener"])) /\ Called("listener", "accept")
      BY <1>1, <2>8 DEF AcceptOn, history
    <3> QED
      BY <2>2, <2>3, <3>1 DEF Silent
  <2>9. ASSUME NEW e \in End, NEW n \in SendSize, SendOn(e, n)
        PROVE  Silent
    <3>1. /\ e # s /\ got' = got /\ Called(e, "send")
          /\ Becomes(e, Send(sock[e], [k \in 1..n |-> asked[e] + k]))
      BY <1>1, <2>9 DEF SendOn
    <3> QED
      BY <2>2, <2>3, <3>1 DEF Silent
  <2>10. ASSUME NEW e \in End, NEW size \in ReceiveSize, ReceiveOn(e, size)
         PROVE  Silent
    <3>1. e # s /\ got' = got /\ Called(e, "receive") /\ Becomes(e, Receive(sock[e], size))
      BY <1>1, <2>10 DEF ReceiveOn, history
    <3> QED
      BY <2>2, <2>3, <3>1 DEF Silent
  <2>11. ASSUME NEW t \in Socket, CloseOn(t)
         PROVE  Silent
    <3>1. t # s /\ got' = got /\ owed' = owed /\ Becomes(t, Close(sock[t]))
      BY <1>1, <2>11 DEF CloseOn, history
    <3> QED
      BY <2>2, <3>1 DEF Silent
  <2>12. CASE ResolverPosts
    BY <2>4, <2>12 DEF ResolverPosts, history
  <2>13. CASE ResolverCalls
    <3>1. CASE ~ResolverHeard(sock["client"])
      BY <2>4, <2>13, <3>1 DEF ResolverCalls, history
    <3>2. CASE ResolverHeard(sock["client"])
      <4>1. "client" # s /\ got' = got
        BY <2>1, <2>13, <3>2 DEF ResolverCalls, history
      <4>2. CASE Becomes("client", Connect(sock["client"])) /\ owed' = owed
        BY <2>2, <4>1, <4>2 DEF Silent
      <4>3. CASE Fails("client", "connect")
        BY <2>2, <2>3, <4>1, <4>3 DEF Fails, Silent
      <4> QED
        BY <2>13, <3>2, <4>2, <4>3 DEF ResolverCalls, StartConnecting
    <3> QED
      BY <3>1, <3>2
  <2>14. CASE Handshake
    BY <2>4, <2>14 DEF Handshake, history
  <2>15. ASSUME NEW e \in End, FinArrives(e) \/ ResetArrives(e)
         PROVE  Silent
    BY <2>4, <2>15 DEF FinArrives, ResetArrives, history
  <2>16. CASE ConnectEvent
    <3>1. /\ "client" # s /\ got' = got
          /\ Becomes("client", DoConnectSuccess(sock["client"])) /\ Answered("client", "connect")
      BY <2>1, <2>16 DEF ConnectEvent, history
    <3> QED
      BY <2>2, <2>3, <3>1 DEF Silent
  <2>17. CASE TimerFires
    <3>1. "client" # s /\ got' = got /\ Fails("client", "connect")
      BY <2>1, <2>17 DEF TimerFires, history
    <3> QED
      BY <2>2, <2>3, <3>1 DEF Fails, Silent
  <2>18. CASE AcceptEvent
    <3>1. "listener" # s /\ got' = got
      BY <2>1, <2>18 DEF AcceptEvent, history
    <3>2. CASE Fails("listener", "accept")
      BY <2>2, <2>3, <3>1, <3>2 DEF Fails, Silent
    <3>3. CASE /\ conn = "queued" /\ Answered("listener", "accept")
               /\ sock' = [sock EXCEPT !["listener"] = EndAccept(sock["listener"]),
                                       !["server"] = Accepted(@)]
      <4>1. sock["server"].state = "inited"
        <5>1. conn # "accepted" => sock["server"] = NewImpl
          BY <1>1 DEF IInv, Stages
        <5> QED
          BY <3>3, <5>1, NewSocket
      <4>2. s # "server"
        BY <1>1, <4>1
      <4>3. sock'[s] = sock[s]
        <5>1. sock \in [Socket -> Impl] /\ s \in Socket
          BY <1>1 DEF IInv, Types
        <5> QED
          BY <3>1, <3>3, <4>2, <5>1
      <4> QED
        BY <2>3, <3>1, <3>3, <4>3 DEF Silent
    <3> QED
      BY <2>18, <3>2, <3>3 DEF AcceptEvent
  <2>19. ASSUME NEW e \in End, SendEvent(e) \/ SendFails(e) \/ ReceiveEvent(e)
         PROVE  Silent
    <3>1. e # s
      BY <2>1, <2>19 DEF SendEvent, SendFails, ReceiveEvent
    <3>2. CASE SendEvent(e)
      <4>1. \E i : Becomes(e, i)
        BY <3>2 DEF SendEvent
      <4>2. (Answered(e, "send") \/ owed' = owed) /\ got' = got
        BY <3>2 DEF SendEvent
      <4>3. sock'[s] = sock[s] /\ owed'[s] = owed[s]
        BY <2>2, <2>3, <3>1, <4>1, <4>2
      <4> QED
        BY <4>2, <4>3 DEF Silent
    <3>3. CASE SendFails(e)
      BY SMTT(40), <2>2, <2>3, <3>1, <3>3 DEF SendFails, Fails, Silent, history
    <3>4. CASE ReceiveEvent(e)
      <4>1. CASE Fails(e, "receive") /\ got' = got
        BY <2>2, <2>3, <3>1, <4>1 DEF Fails, Silent
      <4>2. CASE (\E i : Becomes(e, i)) /\ got' = got /\ owed' = owed
        BY <2>2, <3>1, <4>2 DEF Silent
      <4>3. CASE /\ \E i : Becomes(e, i)
                 /\ \E g : got' = [got EXCEPT ![e] = g]
                 /\ Answered(e, "receive")
        <5>1. sock'[s] = sock[s] /\ owed'[s] = owed[s]
          BY <2>2, <2>3, <3>1, <4>3
        <5>2. s \in End => got'[s] = got[s]
          <6>1. got \in [End -> Seq(Byte)]
            BY <1>1 DEF IInv, Types
          <6> QED
            BY <3>1, <4>3, <6>1
        <5> QED
          BY <5>1, <5>2 DEF Silent
      <4> QED
        BY <3>4, <4>1, <4>2, <4>3 DEF ReceiveEvent
    <3> QED
      BY SMTT(40), <2>19, <3>2, <3>3, <3>4
  <2>20. CASE UNCHANGED vars
    BY <2>4, <2>20 DEF vars
  <2>21. CASE \E e \in End : \/ \E n \in SendSize : SendOn(e, n)
                             \/ \E size \in ReceiveSize : ReceiveOn(e, size)
    BY <2>9, <2>10, <2>21
  <2>22. CASE \E t \in Socket : CloseOn(t)
    BY <2>11, <2>22
  <2>23. CASE \E e \in End : FinArrives(e) \/ ResetArrives(e)
    BY <2>15, <2>23
  <2>24. CASE \E e \in End : SendEvent(e) \/ SendFails(e) \/ ReceiveEvent(e)
    BY <2>19, <2>24
  <2> QED
    BY <1>1, <2>5, <2>6, <2>7, <2>8, <2>12, <2>13, <2>14, <2>16, <2>17, <2>18, <2>20,
       <2>21, <2>22, <2>23, <2>24 DEF Next
<1>2. IInv /\ [Next]_vars =>
        [\A s \in Socket : sock[s].state = "closed" =>
           sock'[s] = sock[s] /\ owed'[s] = owed[s] /\ (s \in End => got'[s] = got[s])]_vars
  BY <1>1
<1> QED
  BY <1>2, Invariant, PTL DEF Spec, SilentOnceClosed

=============================================================================
