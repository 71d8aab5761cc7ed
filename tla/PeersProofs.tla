------------------------- MODULE PeersProofs -------------------------
(***************************************************************************)
(* Theorems about PeerManager, for any set of end points, lists of them of *)
(* any length and with any repeats, any intervals and any size of a        *)
(* keepalive, and about the InitialPeers it starts when its table is empty.*)
(***************************************************************************)
EXTENDS PeerManager, InitialPeers, TLAPS

(***************************************************************************)
(* One peer of a table, with the time h since it was heard and g since it  *)
(* was pinged, when the refresh timer was set age ago.                     *)
(***************************************************************************)
Row(peer, h, g, age) ==
  /\ peer.alive < OfflineInterval + age
  /\ peer.received # Never => peer.alive = peer.received /\ peer.received = h
  /\ peer.sent = g

\* Something came from it, or went to it, not much before the last refresh.

Kept(peer, age) ==
  peer.received # Never =>
    \/ peer.received <= RefreshInterval + age
    \/ peer.sent # Never /\ peer.sent <= RefreshInterval + age

(***************************************************************************)
(* A table, between any two calls of a handler: its times are those of the *)
(* histories, and the live peers are in it.                                *)
(***************************************************************************)
Table(map, h, age) ==
  /\ DOMAIN map \subseteq EndPoint /\ map \in [DOMAIN map -> Peer]
  /\ \A e \in DOMAIN map : Row(map[e], h[e], pinged[e], age)
  /\ \A e \in EndPoint : h[e] # Never /\ h[e] < OfflineInterval =>
       e \in DOMAIN map /\ map[e].received = h[e]

\* Nobody was pinged since he was removed.

Unpinged(map) == \A e \in EndPoint : e \notin DOMAIN map => pinged[e] = Never

\* Who a keepalive names was heard from in time.

Gossip ==
  \A i \in DOMAIN outbox, e \in EndPoint : e \in outbox[i].about =>
    heard[e] # Never /\ heard[e] < OfflineInterval + RefreshInterval

IInv ==
  /\ TypeOK
  /\ Table(peerMap, heard, refreshAge) /\ Unpinged(peerMap)
  /\ \A e \in DOMAIN peerMap : Kept(peerMap[e], refreshAge)
  /\ Gossip
----------------------------------------------------------------------------
\* The intervals are positive and a nil time is no time.

LEMMA Times ==
  /\ RefreshInterval \in Nat /\ RefreshInterval > 0
  /\ OfflineInterval \in Nat /\ OfflineInterval > 0
  /\ Horizon \in Nat /\ Horizon = OfflineInterval + 2 * RefreshInterval
  /\ Age \subseteq Nat /\ 0 \in Age /\ Never \notin Nat /\ Never \notin Age
  /\ EndPoint \cap Invalid = {}
<1>1. /\ RefreshInterval \in Nat /\ RefreshInterval > 0
      /\ OfflineInterval \in Nat /\ OfflineInterval > 0
      /\ Never \notin Nat /\ EndPoint \cap Invalid = {}
  BY PeerManagerAssumption
<1>2. Horizon \in Nat /\ Horizon = OfflineInterval + 2 * RefreshInterval
  BY <1>1 DEF Horizon
<1> QED
  BY <1>1, <1>2 DEF Age

\* A time is not a nil one.

LEMMA TimeIsThere == \A n \in Nat : n # Never
<1> SUFFICES ASSUME NEW n \in Nat, n = Never PROVE FALSE
  OBVIOUS
<1>1. Never \in Nat
  BY Zenon
<1> QED
  BY <1>1, Times

\* Adding a time to another does not make it smaller.

LEMMA SumsGrow == \A i, j \in Nat : 0 <= i + j /\ i <= i + j /\ i + j \in Nat
OBVIOUS

\* Fields of a peer.

LEMMA PeerParts ==
  ASSUME NEW p \in Peer
  PROVE  /\ p.alive \in Age /\ p.received \in MaybeAge /\ p.sent \in MaybeAge
         /\ [p EXCEPT !.sent = 0] \in Peer
         /\ [p EXCEPT !.sent = 0].alive = p.alive
         /\ [p EXCEPT !.sent = 0].received = p.received
         /\ [p EXCEPT !.sent = 0].sent = 0
BY Times DEF Peer, MaybeAge

\* The keepalives of a call are one for each entry whose peer is due, to that peer.

LEMMA PingMessages ==
  ASSUME NEW map, DOMAIN map \subseteq EndPoint, NEW list, Ping(map, list)
  PROVE  /\ outbox' \in [DOMAIN outbox' -> Keepalive]
         /\ \A i : i \in DOMAIN outbox' <=>
              i \in DOMAIN list /\ list[i] \in DOMAIN map /\ ShouldSendKeepalive(map[list[i]])
         /\ \A i \in DOMAIN outbox' :
              outbox'[i].to = list[i] /\ outbox'[i].about \subseteq ActivePeers(map)
<1> DEFINE due == {i \in DOMAIN list : list[i] \in DOMAIN map /\ ShouldSendKeepalive(map[list[i]])}
<1>1. PICK about \in [due -> Samples(ActivePeers(map))] :
        outbox' = [i \in due |-> [to |-> list[i], about |-> about[i]]]
  BY DEF Ping
<1>2. ActivePeers(map) \subseteq EndPoint
  BY DEF ActivePeers
<1>3. \A i : i \in due <=>
        i \in DOMAIN list /\ list[i] \in DOMAIN map /\ ShouldSendKeepalive(map[list[i]])
  OBVIOUS
<1> HIDE DEF due
<1>4. ASSUME NEW i \in due
      PROVE  /\ outbox'[i] \in Keepalive
             /\ outbox'[i].to = list[i] /\ outbox'[i].about \subseteq ActivePeers(map)
  <2>1. outbox'[i] = [to |-> list[i], about |-> about[i]]
    BY <1>1
  <2>2. about[i] \subseteq ActivePeers(map)
    <3>1. about[i] \in Samples(ActivePeers(map))
      BY <1>1
    <3> QED
      BY <3>1 DEF Samples
  <2>3. list[i] \in EndPoint
    BY <1>3
  <2> QED
    BY <1>2, <2>1, <2>2, <2>3 DEF Keepalive
<1>5. DOMAIN outbox' = due /\ outbox' = [i \in due |-> outbox'[i]]
  BY <1>1
<1>6. outbox' \in [due -> Keepalive]
  BY <1>4, <1>5
<1> QED
  BY <1>3, <1>4, <1>5, <1>6

\* The peers a call sends to.

Reached(map, list) ==
  {list[i] : i \in {i \in DOMAIN list : list[i] \in DOMAIN map /\ ShouldSendKeepalive(map[list[i]])}}

\* What a call of sendKeepalive leaves of the table and of the history.

LEMMA PingTable ==
  ASSUME NEW map, DOMAIN map \subseteq EndPoint, map \in [DOMAIN map -> Peer],
         NEW list, pinged \in [EndPoint -> MaybeAge], Ping(map, list)
  PROVE  /\ DOMAIN peerMap' = DOMAIN map /\ peerMap' \in [DOMAIN map -> Peer]
         /\ pinged' \in [EndPoint -> MaybeAge]
         /\ \A e \in DOMAIN map :
              /\ peerMap'[e].alive = map[e].alive /\ peerMap'[e].received = map[e].received
              /\ \/ /\ e \in Range(list) /\ ShouldSendKeepalive(map[e])
                    /\ peerMap'[e].sent = 0 /\ pinged'[e] = 0
                 \/ /\ ~(e \in Range(list) /\ ShouldSendKeepalive(map[e]))
                    /\ peerMap'[e].sent = map[e].sent /\ pinged'[e] = pinged[e]
         /\ \A e \in EndPoint : e \notin DOMAIN map => pinged'[e] = Never
<1> DEFINE due == Reached(map, list)
<1>1. /\ peerMap' = [e \in DOMAIN map |->
                       IF e \in due THEN [map[e] EXCEPT !.sent = 0] ELSE map[e]]
      /\ pinged' = [e \in EndPoint |->
                      IF e \in due THEN 0
                      ELSE IF e \in DOMAIN map THEN pinged[e] ELSE Never]
  BY DEF Ping, Reached
<1>2. due \subseteq DOMAIN map
  BY DEF Reached
<1>3. \A e \in DOMAIN map : e \in due <=> e \in Range(list) /\ ShouldSendKeepalive(map[e])
  BY DEF Reached, Range
<1> HIDE DEF due
<1>4. ASSUME NEW e \in DOMAIN map
      PROVE  /\ peerMap'[e] \in Peer
             /\ peerMap'[e].alive = map[e].alive /\ peerMap'[e].received = map[e].received
             /\ e \in due => peerMap'[e].sent = 0 /\ pinged'[e] = 0
             /\ e \notin due => peerMap'[e].sent = map[e].sent /\ pinged'[e] = pinged[e]
  <2>1. map[e] \in Peer /\ e \in EndPoint
    BY <1>4
  <2>2. CASE e \in due
    <3>1. peerMap'[e] = [map[e] EXCEPT !.sent = 0] /\ pinged'[e] = 0
      BY <1>1, <2>1, <2>2
    <3> QED
      BY <2>1, <2>2, <3>1, PeerParts
  <2>3. CASE e \notin due
    BY <1>1, <2>1, <2>3
  <2> QED
    BY <2>2, <2>3
<1>5. DOMAIN peerMap' = DOMAIN map /\ peerMap' \in [DOMAIN map -> Peer]
  <2>1. peerMap' = [e \in DOMAIN map |-> peerMap'[e]]
    BY <1>1
  <2> QED
    BY <1>4, <2>1
<1>6. pinged' \in [EndPoint -> MaybeAge]
  BY <1>1, Times DEF MaybeAge
<1>7. \A e \in EndPoint : e \notin DOMAIN map => pinged'[e] = Never
  BY <1>1, <1>2
<1> QED
  BY <1>3, <1>4, <1>5, <1>6, <1>7

(***************************************************************************)
(* A call of sendKeepalive on a sound table: it stays sound, whoever was   *)
(* not pinged had been before or was heard, and nobody who is pinged was   *)
(* within the refreshInterval before the call.                             *)
(***************************************************************************)
LEMMA PingKeeps ==
  ASSUME NEW map, NEW list,
         refreshAge' \in 0..RefreshInterval, resolving' \in BOOLEAN,
         heard' \in [EndPoint -> MaybeAge], pinged \in [EndPoint -> MaybeAge],
         Table(map, heard', refreshAge'),
         \A e \in DOMAIN map : e \in Range(list) \/ Kept(map[e], refreshAge'),
         Ping(map, list)
  PROVE  IInv' /\ \A i \in DOMAIN outbox' : LongAgo(pinged[outbox'[i].to])
<1>1. /\ DOMAIN map \subseteq EndPoint /\ map \in [DOMAIN map -> Peer]
      /\ \A e \in DOMAIN map : Row(map[e], heard'[e], pinged[e], refreshAge')
      /\ \A e \in EndPoint : heard'[e] # Never /\ heard'[e] < OfflineInterval =>
           e \in DOMAIN map /\ map[e].received = heard'[e]
  BY DEF Table
<1>2. /\ DOMAIN peerMap' = DOMAIN map /\ peerMap' \in [DOMAIN map -> Peer]
      /\ pinged' \in [EndPoint -> MaybeAge]
      /\ \A e \in DOMAIN map :
           /\ peerMap'[e].alive = map[e].alive /\ peerMap'[e].received = map[e].received
           /\ \/ /\ e \in Range(list) /\ ShouldSendKeepalive(map[e])
                 /\ peerMap'[e].sent = 0 /\ pinged'[e] = 0
              \/ /\ ~(e \in Range(list) /\ ShouldSendKeepalive(map[e]))
                 /\ peerMap'[e].sent = map[e].sent /\ pinged'[e] = pinged[e]
      /\ \A e \in EndPoint : e \notin DOMAIN map => pinged'[e] = Never
  BY <1>1, PingTable
<1>3. /\ outbox' \in [DOMAIN outbox' -> Keepalive]
      /\ \A i \in DOMAIN outbox' :
           /\ list[i] \in DOMAIN map /\ ShouldSendKeepalive(map[list[i]])
           /\ outbox'[i].to = list[i] /\ outbox'[i].about \subseteq ActivePeers(map)
  BY <1>1, PingMessages
<1>4. TypeOK'
  BY <1>1, <1>2, <1>3 DEF TypeOK
<1>5. \A e \in DOMAIN map : Row(peerMap'[e], heard'[e], pinged'[e], refreshAge')
  BY <1>1, <1>2 DEF Row
<1>6. Table(peerMap, heard, refreshAge)'
  BY <1>1, <1>2, <1>5 DEF Table
<1>7. Unpinged(peerMap)'
  BY <1>2 DEF Unpinged
<1>8. refreshAge' \in Nat /\ refreshAge' <= RefreshInterval
  BY Times
<1>9. ASSUME NEW e \in DOMAIN map PROVE Kept(peerMap'[e], refreshAge')
  <2>1. map[e] \in Peer
    BY <1>1
  <2>2. /\ map[e].received \in Nat \/ map[e].received = Never
        /\ map[e].sent \in Nat \/ map[e].sent = Never
    <3>1. map[e].received \in MaybeAge /\ map[e].sent \in MaybeAge
      BY <2>1, PeerParts
    <3> QED
      BY <3>1, Times DEF MaybeAge
  <2>3. CASE peerMap'[e].sent = 0
    <3>1. RefreshInterval \in Nat
      BY Times
    <3>2. peerMap'[e].sent # Never /\ peerMap'[e].sent <= RefreshInterval + refreshAge'
      <4>1. 0 <= RefreshInterval + refreshAge'
        BY <1>8, <3>1, SumsGrow
      <4>2. peerMap'[e].sent # Never
        BY <2>3, TimeIsThere
      <4> QED
        BY <2>3, <4>1, <4>2
    <3> QED
      BY <3>2 DEF Kept
  <2>4. CASE e \notin Range(list)
    BY <1>2, <2>4 DEF Kept
  <2>5. CASE ~ShouldSendKeepalive(map[e]) /\ peerMap'[e].sent = map[e].sent
    <3>1. \/ map[e].received # Never /\ ~(map[e].received > RefreshInterval)
          \/ map[e].sent # Never /\ ~(map[e].sent > RefreshInterval)
      BY <2>5 DEF ShouldSendKeepalive, LongAgo
    <3>2. \/ map[e].received \in Nat /\ map[e].received <= RefreshInterval
          \/ map[e].sent \in Nat /\ map[e].sent # Never /\ map[e].sent <= RefreshInterval
      BY <2>2, <3>1, Times
    <3>3. \/ map[e].received <= RefreshInterval + refreshAge'
          \/ map[e].sent # Never /\ map[e].sent <= RefreshInterval + refreshAge'
      BY <1>8, <3>2, Times
    <3> QED
      BY <1>2, <2>5, <3>3 DEF Kept
  <2> QED
    BY <1>2, <2>3, <2>4, <2>5
<1>10. Gossip'
  <2> SUFFICES ASSUME NEW i \in DOMAIN outbox', NEW e \in EndPoint, e \in outbox'[i].about
               PROVE  heard'[e] # Never /\ heard'[e] < OfflineInterval + RefreshInterval
    BY DEF Gossip
  <2>1. e \in DOMAIN map /\ map[e].received # Never
    BY <1>3 DEF ActivePeers
  <2>2. map[e].alive = heard'[e] /\ map[e].received = heard'[e]
        /\ map[e].alive < OfflineInterval + refreshAge'
    BY <1>1, <2>1 DEF Row
  <2>3. map[e] \in Peer
    BY <1>1, <2>1
  <2>4. map[e].alive \in Nat
    BY <2>3, PeerParts, Times
  <2> QED
    BY <1>8, <2>1, <2>2, <2>4, Times
<1>11. \A i \in DOMAIN outbox' : LongAgo(pinged[outbox'[i].to])
  <2> TAKE i \in DOMAIN outbox'
  <2>1. outbox'[i].to \in DOMAIN map /\ LongAgo(map[outbox'[i].to].sent)
    BY <1>3 DEF ShouldSendKeepalive
  <2> QED
    BY <1>1, <2>1 DEF Row
<1>12. \A e \in DOMAIN peerMap' : Kept(peerMap'[e], refreshAge')
  BY <1>2, <1>9
<1> QED
  BY <1>4, <1>6, <1>10, <1>11, <1>12, <1>7 DEF IInv

----------------------------------------------------------------------------
\* Adding peers to a sound table leaves it sound: they are new in the history, too.

LEMMA AddsPeers ==
  ASSUME NEW map, NEW h, NEW age \in Nat, NEW list, Table(map, h, age), Unpinged(map)
  PROVE  /\ Table(WithPeers(map, list), h, age) /\ Unpinged(WithPeers(map, list))
         /\ DOMAIN WithPeers(map, list) = DOMAIN map \cup (list \cap EndPoint)
<1> DEFINE more == WithPeers(map, list)
<1>1. /\ DOMAIN map \subseteq EndPoint /\ map \in [DOMAIN map -> Peer]
      /\ \A e \in DOMAIN map : Row(map[e], h[e], pinged[e], age)
      /\ \A e \in EndPoint : h[e] # Never /\ h[e] < OfflineInterval =>
           e \in DOMAIN map /\ map[e].received = h[e]
  BY DEF Table
<1>2. more = [e \in DOMAIN map \cup (list \cap EndPoint) |->
                IF e \in DOMAIN map THEN map[e] ELSE NewPeer]
  BY DEF WithPeers
<1> HIDE DEF more
<1>3. NewPeer \in Peer
  BY Times DEF NewPeer, Peer, MaybeAge
<1>4. /\ DOMAIN more = DOMAIN map \cup (list \cap EndPoint)
      /\ more \in [DOMAIN more -> Peer] /\ DOMAIN more \subseteq EndPoint
      /\ \A e \in DOMAIN map : more[e] = map[e]
      /\ \A e \in DOMAIN more : e \notin DOMAIN map => more[e] = NewPeer
  BY <1>1, <1>2, <1>3
<1>5. \A e \in DOMAIN more : e \notin DOMAIN map => Row(NewPeer, h[e], pinged[e], age)
  <2> SUFFICES ASSUME NEW e \in DOMAIN more, e \notin DOMAIN map
               PROVE  Row(NewPeer, h[e], pinged[e], age)
    OBVIOUS
  <2>1. pinged[e] = Never
    BY <1>4 DEF Unpinged
  <2>2. NewPeer.alive = 0 /\ NewPeer.received = Never /\ NewPeer.sent = Never
    BY DEF NewPeer
  <2>3. 0 < OfflineInterval + age
    BY Times
  <2> QED
    BY <2>1, <2>2, <2>3 DEF Row
<1>6. Table(more, h, age)
  BY <1>1, <1>4, <1>5 DEF Table
<1>7. Unpinged(more)
  BY <1>4 DEF Unpinged
<1> QED
  BY <1>4, <1>6, <1>7 DEF more

\* A message puts its sender at the top of both table and history.

LEMMA HearsPeer ==
  ASSUME NEW map, NEW age \in Nat, NEW from \in DOMAIN map,
         heard \in [EndPoint -> MaybeAge], Table(map, heard, age)
  PROVE  /\ Table(Heard(map, from), [heard EXCEPT ![from] = 0], age)
         /\ DOMAIN Heard(map, from) = DOMAIN map
         /\ Heard(map, from)[from].received = 0
         /\ \A e \in DOMAIN map : e # from => Heard(map, from)[e] = map[e]
<1> DEFINE now == Heard(map, from)
           h == [heard EXCEPT ![from] = 0]
<1>1. /\ DOMAIN map \subseteq EndPoint /\ map \in [DOMAIN map -> Peer]
      /\ \A e \in DOMAIN map : Row(map[e], heard[e], pinged[e], age)
      /\ \A e \in EndPoint : heard[e] # Never /\ heard[e] < OfflineInterval =>
           e \in DOMAIN map /\ map[e].received = heard[e]
  BY DEF Table
<1>2. map[from] \in Peer
  BY <1>1
<1> DEFINE p == [[map[from] EXCEPT !.received = 0] EXCEPT !.alive = 0]
<1>3. p \in Peer /\ p.alive = 0 /\ p.received = 0 /\ p.sent = map[from].sent
  BY <1>2, Times DEF Peer, MaybeAge
<1>4. /\ DOMAIN now = DOMAIN map /\ now \in [DOMAIN map -> Peer]
      /\ now[from] = p
      /\ \A e \in DOMAIN map : e # from => now[e] = map[e]
  <2>1. now = [map EXCEPT ![from] = p]
    BY <1>1 DEF Heard
  <2> HIDE DEF now, p
  <2> QED
    BY <1>1, <1>3, <2>1
<1>5. h[from] = 0 /\ \A e \in EndPoint : e # from => h[e] = heard[e]
  BY <1>1
<1> HIDE DEF now, p, h
<1>6. \A e \in DOMAIN map : Row(now[e], h[e], pinged[e], age)
  <2> TAKE e \in DOMAIN map
  <2>1. CASE e = from
    <3>1. 0 < OfflineInterval + age
      BY Times
    <3> QED
      BY <1>1, <1>3, <1>4, <1>5, <2>1, <3>1 DEF Row
  <2>2. CASE e # from
    BY <1>1, <1>4, <1>5, <2>2
  <2> QED
    BY <2>1, <2>2
<1>7. \A e \in EndPoint : h[e] # Never /\ h[e] < OfflineInterval =>
        e \in DOMAIN now /\ now[e].received = h[e]
  BY <1>1, <1>3, <1>4, <1>5
<1>8. Table(now, h, age)
  BY <1>1, <1>4, <1>6, <1>7 DEF Table
<1> QED
  BY <1>3, <1>4, <1>8 DEF now, h

\* Removing the offline peers leaves the live ones, as if the timer had just been set.

LEMMA RemovesOffline ==
  ASSUME NEW map, NEW h, NEW age \in Nat, Table(map, h, age)
  PROVE  Table(OnlinePeers(map), h, 0)
<1> DEFINE online == OnlinePeers(map)
<1>1. /\ DOMAIN map \subseteq EndPoint /\ map \in [DOMAIN map -> Peer]
      /\ \A e \in DOMAIN map : Row(map[e], h[e], pinged[e], age)
      /\ \A e \in EndPoint : h[e] # Never /\ h[e] < OfflineInterval =>
           e \in DOMAIN map /\ map[e].received = h[e]
  BY DEF Table
<1>2. online = [e \in {e \in DOMAIN map : map[e].alive < OfflineInterval} |-> map[e]]
  BY DEF OnlinePeers, Restrict
<1> HIDE DEF online
<1>3. /\ DOMAIN online = {e \in DOMAIN map : map[e].alive < OfflineInterval}
      /\ online \in [DOMAIN online -> Peer] /\ DOMAIN online \subseteq EndPoint
      /\ \A e \in DOMAIN online : e \in DOMAIN map /\ online[e] = map[e]
  BY <1>1, <1>2
<1>4. \A e \in DOMAIN online : Row(online[e], h[e], pinged[e], 0)
  <2> TAKE e \in DOMAIN online
  <2>1. online[e].alive < OfflineInterval + 0
    BY <1>3, Times
  <2> QED
    BY <1>1, <1>3, <2>1 DEF Row
<1>5. ASSUME NEW e \in EndPoint, h[e] # Never, h[e] < OfflineInterval
      PROVE  e \in DOMAIN online /\ online[e].received = h[e]
  <2>1. e \in DOMAIN map /\ map[e].received = h[e]
    BY <1>1, <1>5
  <2>2. map[e].alive = h[e]
    BY <1>1, <1>5, <2>1 DEF Row
  <2> QED
    BY <1>3, <1>5, <2>1, <2>2
<1>6. Table(online, h, 0)
  BY <1>3, <1>4, <1>5 DEF Table
<1> QED
  BY <1>6 DEF online

----------------------------------------------------------------------------
\* The invariant holds in a new table.

LEMMA InitInv == Init => IInv
<1> SUFFICES ASSUME Init PROVE IInv
  OBVIOUS
<1>1. /\ peerMap = NoPeers /\ DOMAIN peerMap = {} /\ peerMap \in [DOMAIN peerMap -> Peer]
      /\ DOMAIN outbox = {} /\ outbox \in [DOMAIN outbox -> Keepalive]
      /\ refreshAge \in 0..RefreshInterval /\ resolving \in BOOLEAN
      /\ \A e \in EndPoint : heard[e] = Never /\ pinged[e] = Never
  <2>1. /\ peerMap = [e \in {} |-> 0] /\ refreshAge = RefreshInterval
        /\ outbox = [i \in {} |-> 0] /\ resolving = FALSE
        /\ heard = [e \in EndPoint |-> Never] /\ pinged = [e \in EndPoint |-> Never]
    BY DEF Init, NoPeers, NoKeepalives
  <2>2. /\ DOMAIN peerMap = {} /\ peerMap \in [DOMAIN peerMap -> Peer]
        /\ DOMAIN outbox = {} /\ outbox \in [DOMAIN outbox -> Keepalive]
    BY <2>1
  <2>3. refreshAge \in 0..RefreshInterval
    BY <2>1, Times
  <2> QED
    BY <2>1, <2>2, <2>3 DEF NoPeers
<1>4. heard \in [EndPoint -> MaybeAge] /\ pinged \in [EndPoint -> MaybeAge]
  BY DEF Init, MaybeAge
<1>2. TypeOK
  BY <1>1, <1>4 DEF TypeOK
<1>3. Table(peerMap, heard, refreshAge) /\ Unpinged(peerMap) /\ Gossip
  BY <1>1 DEF Table, Unpinged, Gossip
<1> QED
  BY <1>1, <1>2, <1>3 DEF IInv

(***************************************************************************)
(* The keepalives of a step go to peers that were not pinged just before,  *)
(* those of a refresh to different ones.                                   *)
(***************************************************************************)
Spaced ==
  /\ \A i \in DOMAIN outbox' : outbox'[i].to \in DOMAIN peerMap => LongAgo(pinged[outbox'[i].to])
  /\ refreshAge' < refreshAge => IsInjective([i \in DOMAIN outbox' |-> outbox'[i].to])

\* A handler that was told of end points, on a table it may have changed already.

LEMMA NotifiedKeeps ==
  ASSUME NEW map, NEW list, refreshAge \in 0..RefreshInterval, refreshAge' = refreshAge,
         resolving' \in BOOLEAN, heard' \in [EndPoint -> MaybeAge],
         pinged \in [EndPoint -> MaybeAge],
         Table(map, heard', refreshAge), Unpinged(map),
         \A e \in DOMAIN map : Kept(map[e], refreshAge),
         HandleNotifiedEndPoints(map, list)
  PROVE  IInv' /\ Spaced
<1> DEFINE more == WithPeers(map, Range(list))
<1>1. refreshAge \in Nat
  BY Times
<1>2. /\ Table(more, heard', refreshAge)
      /\ DOMAIN more = DOMAIN map \cup (Range(list) \cap EndPoint)
      /\ \A e \in DOMAIN more :
           \/ e \in DOMAIN map /\ more[e] = map[e]
           \/ more[e] = NewPeer
  <2>1. Table(map, heard', refreshAge) /\ Unpinged(map)
    OBVIOUS
  <2>2. /\ Table(more, heard', refreshAge)
        /\ DOMAIN more = DOMAIN map \cup (Range(list) \cap EndPoint)
    BY SMTT(40), <1>1, <2>1, AddsPeers
  <2>3. \A e \in DOMAIN more :
           \/ e \in DOMAIN map /\ more[e] = map[e]
           \/ more[e] = NewPeer
    BY DEF WithPeers
  <2> QED
    BY <2>2, <2>3
<1>3. Kept(NewPeer, refreshAge)
  BY DEF Kept, NewPeer
<1>4. \A e \in DOMAIN more : Kept(more[e], refreshAge')
  BY <1>2, <1>3
<1>5. Ping(more, list)
  BY DEF HandleNotifiedEndPoints
<1> HIDE DEF more
<1>6. IInv' /\ \A i \in DOMAIN outbox' : LongAgo(pinged[outbox'[i].to])
  BY <1>2, <1>4, <1>5, PingKeeps
<1>7. ~(refreshAge' < refreshAge)
  BY <1>1
<1> QED
  BY <1>6, <1>7 DEF Spaced

\* A message.

LEMMA HandleMessageKeeps ==
  ASSUME IInv, NEW from, NEW list, HandleMessage(from, list)
  PROVE  IInv' /\ Spaced
<1>1. /\ TypeOK /\ Table(peerMap, heard, refreshAge) /\ Unpinged(peerMap)
      /\ \A e \in DOMAIN peerMap : Kept(peerMap[e], refreshAge)
      /\ refreshAge \in Nat
  BY Times DEF IInv, TypeOK
<1>2. CASE from \notin EndPoint
  <2>1. /\ DOMAIN outbox' = {} /\ outbox' \in [DOMAIN outbox' -> Keepalive]
        /\ UNCHANGED <<peerMap, resolving, refreshAge, heard, pinged>>
    BY <1>2 DEF HandleMessage, NoKeepalives
  <2>2. TypeOK'
    BY <1>1, <2>1 DEF TypeOK
  <2>3. Table(peerMap, heard, refreshAge)' /\ Unpinged(peerMap)' /\ Gossip'
    BY <1>1, <2>1 DEF Table, Row, Unpinged, Gossip
  <2>4. \A e \in DOMAIN peerMap' : Kept(peerMap'[e], refreshAge')
    BY <1>1, <2>1
  <2> QED
    BY <1>1, <2>1, <2>2, <2>3, <2>4 DEF IInv, Spaced
<1>3. CASE from \in EndPoint
  <2> DEFINE more == WithPeers(peerMap, {from})
             now == Heard(more, from)
  <2>1. /\ HandleNotifiedEndPoints(now, list)
        /\ heard' = [heard EXCEPT ![from] = 0]
        /\ UNCHANGED <<resolving, refreshAge>>
    BY <1>3 DEF HandleMessage
  <2>2. /\ heard \in [EndPoint -> MaybeAge] /\ pinged \in [EndPoint -> MaybeAge]
        /\ refreshAge \in 0..RefreshInterval /\ resolving \in BOOLEAN
    BY <1>1 DEF TypeOK
  <2>3. /\ Table(more, heard, refreshAge) /\ Unpinged(more)
        /\ from \in DOMAIN more
        /\ \A e \in DOMAIN more :
             \/ e \in DOMAIN peerMap /\ more[e] = peerMap[e]
             \/ more[e] = NewPeer
    <3>1. /\ Table(more, heard, refreshAge) /\ Unpinged(more)
          /\ DOMAIN more = DOMAIN peerMap \cup ({from} \cap EndPoint)
      BY <1>1, AddsPeers
    <3>2. \A e \in DOMAIN more :
             \/ e \in DOMAIN peerMap /\ more[e] = peerMap[e]
             \/ more[e] = NewPeer
      BY DEF WithPeers
    <3> QED
      BY <1>3, <3>1, <3>2
  <2> HIDE DEF more
  <2>4. /\ Table(now, heard', refreshAge)
        /\ DOMAIN now = DOMAIN more /\ now[from].received = 0
        /\ \A e \in DOMAIN more : e # from => now[e] = more[e]
    BY <1>1, <2>1, <2>2, <2>3, HearsPeer
  <2> HIDE DEF now
  <2>5. Unpinged(now)
    BY <2>3, <2>4 DEF Unpinged
  <2>6. \A e \in DOMAIN now : Kept(now[e], refreshAge)
    <3> TAKE e \in DOMAIN now
    <3>1. CASE e = from
      <4>1. RefreshInterval \in Nat /\ 0 \in Nat
        BY Times
      <4>2. 0 <= RefreshInterval + refreshAge
        BY <1>1, <4>1, SumsGrow
      <4> QED
        BY <2>4, <3>1, <4>2 DEF Kept
    <3>2. CASE e # from
      <4>1. Kept(NewPeer, refreshAge)
        BY DEF Kept, NewPeer
      <4> QED
        BY <1>1, <2>3, <2>4, <3>2, <4>1
    <3> QED
      BY <3>1, <3>2
  <2>7. heard' \in [EndPoint -> MaybeAge]
    BY <2>1, <2>2, Times DEF MaybeAge
  <2>8. resolving' \in BOOLEAN /\ refreshAge' = refreshAge
    BY <2>1, <2>2
  <2> QED
    BY <2>1, <2>2, <2>4, <2>5, <2>6, <2>7, <2>8, NotifiedKeeps
<1> QED
  BY <1>2, <1>3

\* A host name that was resolved.

LEMMA HandleResolvedKeeps ==
  ASSUME IInv, NEW list, HandleResolved(list)
  PROVE  IInv' /\ Spaced
<1>1. /\ heard \in [EndPoint -> MaybeAge] /\ pinged \in [EndPoint -> MaybeAge]
      /\ refreshAge \in 0..RefreshInterval
  BY DEF IInv, TypeOK
<1>2. /\ HandleNotifiedEndPoints(peerMap, list) /\ resolving' \in BOOLEAN
      /\ heard' = heard /\ refreshAge' = refreshAge
  BY DEF HandleResolved
<1> QED
  BY <1>1, <1>2, NotifiedKeeps DEF IInv

\* The refresh timer: every active peer that is left is looked at.

LEMMA RefreshKeeps == IInv /\ Refresh => IInv' /\ Spaced
<1> SUFFICES ASSUME IInv, Refresh PROVE IInv' /\ Spaced
  OBVIOUS
<1> DEFINE online == OnlinePeers(peerMap)
           all == [e \in ActivePeers(online) |-> e]
<1>1. /\ heard \in [EndPoint -> MaybeAge] /\ pinged \in [EndPoint -> MaybeAge]
      /\ refreshAge \in Nat /\ Table(peerMap, heard, refreshAge)
  BY Times DEF IInv, TypeOK
<1>2. /\ refreshAge' = 0 /\ heard' = heard
      /\ Ping(online, all)
      /\ resolving' = (resolving \/ DOMAIN online = {})
  BY DEF Refresh, PingActive
<1>3. Table(online, heard, 0)
  BY <1>1, RemovesOffline
<1> HIDE DEF online
<1>4. \A e \in DOMAIN online : e \in Range(all) \/ Kept(online[e], 0)
  BY DEF ActivePeers, Kept, Range
<1>5. \A i \in DOMAIN outbox' : outbox'[i].to = i
  <2>1. DOMAIN online \subseteq EndPoint
    BY <1>3 DEF Table
  <2>2. \A i \in DOMAIN outbox' : i \in DOMAIN all /\ outbox'[i].to = all[i]
    <3> HIDE DEF all
    <3> QED
      BY <1>2, <2>1, PingMessages
  <2> QED
    BY <2>2
<1> HIDE DEF all
<1>6. refreshAge' \in 0..RefreshInterval /\ resolving' \in BOOLEAN
  BY <1>2, Times
<1>7. IInv' /\ \A i \in DOMAIN outbox' : LongAgo(pinged[outbox'[i].to])
  BY <1>1, <1>2, <1>3, <1>4, <1>6, PingKeeps
<1> QED
  BY <1>5, <1>7 DEF Spaced, IsInjective

\* Growing older keeps the order of ages below the horizon.

LEMMA Aging ==
  ASSUME NEW a \in MaybeAge
  PROVE  /\ Older(a) \in MaybeAge /\ (Older(a) = Never <=> a = Never)
         /\ a # Never => a \in Nat /\ Older(a) \in Age /\ Older(a) \in Nat
                         /\ a <= Older(a) /\ Older(a) <= a + 1
                         /\ (a < Horizon => Older(a) = a + 1)
<1>1. CASE a = Never
  BY <1>1 DEF Older
<1>2. CASE a # Never
  <2>1. a \in 0..Horizon
    BY <1>2 DEF MaybeAge, Age
  <2>2. Horizon \in Nat /\ a \in Nat /\ a <= Horizon
    BY <2>1, Times
  <2>3. CASE a = Horizon
    <3>1. Older(a) = a
      BY <2>3 DEF Older
    <3> QED
      BY <1>2, <2>1, <2>2, <2>3, <3>1 DEF MaybeAge, Age
  <2>4. CASE a # Horizon
    <3>1. Older(a) = a + 1
      BY <1>2, <2>4 DEF Older
    <3>2. a + 1 \in 0..Horizon /\ a + 1 \in Nat
      BY <2>2, <2>4
    <3>3. Older(a) # Never
      BY <3>1, <3>2, TimeIsThere
    <3> QED
      BY <1>2, <2>2, <3>1, <3>2, <3>3 DEF MaybeAge, Age
  <2> QED
    BY <2>3, <2>4
<1> QED
  BY <1>1, <1>2

\* A peer that grows older, with the history and the timer.

Aged(peer) ==
  [alive |-> Older(peer.alive), received |-> Older(peer.received), sent |-> Older(peer.sent)]

LEMMA RowAges ==
  ASSUME NEW p \in Peer, NEW h \in MaybeAge, NEW g \in MaybeAge, NEW age \in Nat,
         age < RefreshInterval, Row(p, h, g, age)
  PROVE  Aged(p) \in Peer /\ Row(Aged(p), Older(h), Older(g), age + 1)
<1>1. /\ Aged(p).alive = Older(p.alive) /\ Aged(p).received = Older(p.received)
      /\ Aged(p).sent = Older(p.sent)
  BY DEF Aged
<1>2. p.alive \in Age /\ p.received \in MaybeAge /\ p.sent \in MaybeAge
  BY PeerParts
<1>3. p.alive \in Nat /\ p.alive # Never /\ p.alive \in MaybeAge
  BY <1>2, Times DEF MaybeAge
<1>4. Older(p.alive) \in Age /\ Older(p.received) \in MaybeAge /\ Older(p.sent) \in MaybeAge
  BY <1>2, <1>3, Aging
<1>5. p.alive < OfflineInterval + age
  BY DEF Row
<1>6. p.alive < Horizon
  BY <1>3, <1>5, Times
<1>7. Older(p.alive) = p.alive + 1
  BY <1>3, <1>6, Aging
<1>8. Older(p.alive) < OfflineInterval + (age + 1)
  BY <1>3, <1>5, <1>7, Times
<1>9. p.received # Never => p.alive = p.received /\ p.received = h
  BY DEF Row
<1>10. p.sent = g
  BY DEF Row
<1>11. Older(p.received) = Never <=> p.received = Never
  BY <1>2, Aging
<1>12. Aged(p) \in Peer
  BY <1>4 DEF Aged, Peer
<1>13. Row(Aged(p), Older(h), Older(g), age + 1)
  <2>1. Aged(p).alive < OfflineInterval + (age + 1)
    BY <1>1, <1>8
  <2>2. Aged(p).received # Never =>
          Aged(p).alive = Aged(p).received /\ Aged(p).received = Older(h)
    BY <1>1, <1>9, <1>11
  <2>3. Aged(p).sent = Older(g)
    BY <1>1, <1>10
  <2> QED
    BY <2>1, <2>2, <2>3 DEF Row
<1> QED
  BY <1>12, <1>13

\* The time a peer was heard or pinged grows by no more than the timer's.

LEMMA KeptAges ==
  ASSUME NEW p \in Peer, NEW age \in Nat, Kept(p, age)
  PROVE  Kept(Aged(p), age + 1)
<1>1. Aged(p).received = Older(p.received) /\ Aged(p).sent = Older(p.sent)
  BY DEF Aged
<1>2. p.received \in MaybeAge /\ p.sent \in MaybeAge
  BY PeerParts
<1>3. /\ Older(p.received) = Never <=> p.received = Never
      /\ Older(p.sent) = Never <=> p.sent = Never
  BY <1>2, Aging
<1>4. p.received # Never =>
        p.received \in Nat /\ Older(p.received) \in Nat /\ Older(p.received) <= p.received + 1
  BY <1>2, Aging
<1>5. p.sent # Never =>
        p.sent \in Nat /\ Older(p.sent) \in Nat /\ Older(p.sent) <= p.sent + 1
  BY <1>2, Aging
<1>6. ASSUME p.received # Never
      PROVE  \/ Older(p.received) <= RefreshInterval + (age + 1)
             \/ p.sent # Never /\ Older(p.sent) <= RefreshInterval + (age + 1)
  <2>1. CASE p.received <= RefreshInterval + age
    BY <1>4, <1>6, <2>1, Times
  <2>2. CASE p.sent # Never /\ p.sent <= RefreshInterval + age
    BY <1>5, <2>2, Times
  <2> QED
    BY <1>6, <2>1, <2>2 DEF Kept
<1> QED
  BY <1>1, <1>3, <1>6 DEF Kept

\* A tick.

LEMMA TickKeeps == IInv /\ Tick => IInv' /\ Spaced
<1> SUFFICES ASSUME IInv, Tick PROVE IInv' /\ Spaced
  OBVIOUS
<1>1. /\ TypeOK /\ Table(peerMap, heard, refreshAge) /\ Unpinged(peerMap)
      /\ \A e \in DOMAIN peerMap : Kept(peerMap[e], refreshAge)
  BY DEF IInv
<1>2. /\ DOMAIN peerMap \subseteq EndPoint /\ peerMap \in [DOMAIN peerMap -> Peer]
      /\ heard \in [EndPoint -> MaybeAge] /\ pinged \in [EndPoint -> MaybeAge]
      /\ refreshAge \in Nat /\ resolving \in BOOLEAN
  BY <1>1, Times DEF TypeOK
<1>3. /\ refreshAge < RefreshInterval /\ refreshAge' = refreshAge + 1
      /\ peerMap' = [e \in DOMAIN peerMap |-> Aged(peerMap[e])]
      /\ heard' = [e \in EndPoint |-> Older(heard[e])]
      /\ pinged' = [e \in EndPoint |-> Older(pinged[e])]
      /\ DOMAIN outbox' = {} /\ outbox' \in [DOMAIN outbox' -> Keepalive]
      /\ resolving' = resolving
  BY DEF Tick, Aged, NoKeepalives
<1>4. ASSUME NEW e \in DOMAIN peerMap
      PROVE  /\ Aged(peerMap[e]) \in Peer
             /\ Row(Aged(peerMap[e]), Older(heard[e]), Older(pinged[e]), refreshAge + 1)
             /\ Kept(Aged(peerMap[e]), refreshAge + 1)
  <2>1. /\ peerMap[e] \in Peer /\ e \in EndPoint
        /\ heard[e] \in MaybeAge /\ pinged[e] \in MaybeAge
    BY <1>2, <1>4
  <2>2. Row(peerMap[e], heard[e], pinged[e], refreshAge)
    BY <1>1, <1>4 DEF Table
  <2>3. Kept(peerMap[e], refreshAge)
    BY <1>1, <1>4
  <2>4. Aged(peerMap[e]) \in Peer
        /\ Row(Aged(peerMap[e]), Older(heard[e]), Older(pinged[e]), refreshAge + 1)
    BY <1>2, <1>3, <2>1, <2>2, RowAges
  <2>5. Kept(Aged(peerMap[e]), refreshAge + 1)
    BY <1>2, <2>1, <2>3, KeptAges
  <2> QED
    BY <2>4, <2>5
<1>5. DOMAIN peerMap' = DOMAIN peerMap /\ \A e \in DOMAIN peerMap : peerMap'[e] = Aged(peerMap[e])
  BY <1>3
<1>6. \A e \in EndPoint :
        /\ heard'[e] = Older(heard[e]) /\ heard'[e] \in MaybeAge
        /\ pinged'[e] = Older(pinged[e]) /\ pinged'[e] \in MaybeAge
  <2> TAKE e \in EndPoint
  <2>1. heard[e] \in MaybeAge /\ pinged[e] \in MaybeAge
    BY <1>2
  <2>2. Older(heard[e]) \in MaybeAge /\ Older(pinged[e]) \in MaybeAge
    BY <2>1, Aging
  <2> QED
    BY <1>3, <2>2
<1>7. TypeOK'
  <2>1. peerMap' \in [DOMAIN peerMap' -> Peer] /\ DOMAIN peerMap' \subseteq EndPoint
    BY <1>2, <1>3, <1>4, <1>5
  <2>2. heard' \in [EndPoint -> MaybeAge] /\ pinged' \in [EndPoint -> MaybeAge]
    BY <1>3, <1>6
  <2>3. refreshAge' \in 0..RefreshInterval
    BY <1>2, <1>3, Times
  <2>4. outbox' \in [DOMAIN outbox' -> Keepalive] /\ resolving' \in BOOLEAN
    BY <1>2, <1>3
  <2> QED
    BY <2>1, <2>2, <2>3, <2>4 DEF TypeOK
<1>8. Table(peerMap, heard, refreshAge)'
  <2>1. peerMap' \in [DOMAIN peerMap' -> Peer] /\ DOMAIN peerMap' \subseteq EndPoint
    BY <1>7 DEF TypeOK
  <2>2. \A e \in DOMAIN peerMap' : Row(peerMap'[e], heard'[e], pinged'[e], refreshAge')
    <3> TAKE e \in DOMAIN peerMap'
    <3>1. e \in DOMAIN peerMap /\ e \in EndPoint
      BY <1>2, <1>5
    <3>2. Row(Aged(peerMap[e]), Older(heard[e]), Older(pinged[e]), refreshAge + 1)
      BY <1>4, <3>1
    <3>3. /\ peerMap'[e] = Aged(peerMap[e]) /\ heard'[e] = Older(heard[e])
          /\ pinged'[e] = Older(pinged[e])
      BY <1>5, <1>6, <3>1
    <3> QED
      BY <1>3, <3>2, <3>3
  <2>3. ASSUME NEW e \in EndPoint, heard'[e] # Never, heard'[e] < OfflineInterval
        PROVE  e \in DOMAIN peerMap' /\ peerMap'[e].received = heard'[e]
    <3>1. heard[e] \in MaybeAge /\ heard'[e] = Older(heard[e])
      BY <1>2, <1>6, <2>3
    <3>2. heard[e] # Never
      BY <2>3, <3>1, Aging
    <3>3. heard[e] \in Nat /\ heard'[e] \in Nat /\ heard[e] <= heard'[e]
      BY <3>1, <3>2, Aging
    <3>4. heard[e] < OfflineInterval
      BY <2>3, <3>3, Times
    <3>5. e \in DOMAIN peerMap /\ peerMap[e].received = heard[e]
      BY <1>1, <2>3, <3>2, <3>4 DEF Table
    <3>6. Aged(peerMap[e]).received = Older(heard[e])
      BY <3>5 DEF Aged
    <3> QED
      BY <1>5, <3>1, <3>5, <3>6
  <2> QED
    BY <2>1, <2>2, <2>3 DEF Table
<1>9. Unpinged(peerMap)'
  <2> SUFFICES ASSUME NEW e \in EndPoint, e \notin DOMAIN peerMap' PROVE pinged'[e] = Never
    BY DEF Unpinged
  <2>1. pinged[e] = Never
    BY <1>1, <1>5 DEF Unpinged
  <2>2. Older(pinged[e]) = Never
    BY <2>1 DEF Older
  <2> QED
    BY <1>6, <2>2
<1>10. \A e \in DOMAIN peerMap' : Kept(peerMap'[e], refreshAge')
  <2> TAKE e \in DOMAIN peerMap'
  <2>1. e \in DOMAIN peerMap /\ peerMap'[e] = Aged(peerMap[e])
    BY <1>5
  <2>2. Kept(Aged(peerMap[e]), refreshAge + 1)
    BY <1>4, <2>1
  <2> QED
    BY <1>3, <2>1, <2>2
<1>11. Gossip' /\ Spaced
  BY <1>2, <1>3 DEF Gossip, Spaced
<1> QED
  BY <1>7, <1>8, <1>9, <1>10, <1>11 DEF IInv

----------------------------------------------------------------------------
\* Every step keeps the invariant, and its keepalives are spaced.

LEMMA StepKeeps == IInv /\ Next => IInv' /\ Spaced
<1> SUFFICES ASSUME IInv, Next PROVE IInv' /\ Spaced
  OBVIOUS
<1>1. CASE \E from \in EndPoint \cup Invalid, list \in Lists : HandleMessage(from, list)
  BY <1>1, HandleMessageKeeps
<1>2. CASE \E list \in Lists : HandleResolved(list)
  BY <1>2, HandleResolvedKeeps
<1>3. CASE Refresh
  BY <1>3, RefreshKeeps
<1>4. CASE Tick
  BY <1>4, TickKeeps
<1> QED
  BY <1>1, <1>2, <1>3, <1>4 DEF Next

LEMMA StutterKeeps == IInv /\ UNCHANGED vars => IInv'
<1> SUFFICES ASSUME IInv, UNCHANGED vars PROVE IInv'
  OBVIOUS
<1>1. /\ peerMap' = peerMap /\ resolving' = resolving /\ refreshAge' = refreshAge
      /\ outbox' = outbox /\ heard' = heard /\ pinged' = pinged
  BY DEF vars
<1>2. /\ TypeOK /\ Table(peerMap, heard, refreshAge) /\ Unpinged(peerMap) /\ Gossip
      /\ \A e \in DOMAIN peerMap : Kept(peerMap[e], refreshAge)
  BY DEF IInv
<1>3. TypeOK'
  BY <1>1, <1>2 DEF TypeOK
<1>4. Table(peerMap, heard, refreshAge)' /\ Unpinged(peerMap)' /\ Gossip'
  BY <1>1, <1>2 DEF Table, Row, Unpinged, Gossip
<1>5. \A e \in DOMAIN peerMap' : Kept(peerMap'[e], refreshAge')
  BY <1>1, <1>2
<1> QED
  BY <1>3, <1>4, <1>5 DEF IInv

(***************************************************************************)
(* In every state the table agrees with what was heard and sent: who is in *)
(* it, since when, and how lately an active peer was heard or pinged.      *)
(***************************************************************************)
THEOREM Invariant == Spec => []IInv
<1>1. IInv /\ [Next]_vars => IInv'
  BY StepKeeps, StutterKeeps
<1> QED
  BY <1>1, InitInv, PTL DEF Spec

(***************************************************************************)
(* PeerManager never forgets a peer heard from in time, removes a silent   *)
(* one in the refresh after offlineInterval, and never names it to others  *)
(* after that, whatever the intervals are to each other.                   *)
(***************************************************************************)
THEOREM TableIsSound == Spec => []TableSound
<1>1. IInv => TableSound
  <2> SUFFICES ASSUME IInv PROVE TableSound
    OBVIOUS
  <2>1. TypeOK /\ Table(peerMap, heard, refreshAge) /\ Gossip
    BY DEF IInv
  <2>2. NeverForgetsLive
    BY <2>1 DEF Table, NeverForgetsLive
  <2>3. refreshAge \in Nat /\ refreshAge <= RefreshInterval
    BY <2>1, Times DEF TypeOK
  <2>4. ASSUME NEW e \in DOMAIN peerMap
        PROVE  peerMap[e].alive < OfflineInterval + RefreshInterval
    <3>1. peerMap[e] \in Peer /\ peerMap[e].alive < OfflineInterval + refreshAge
      BY <2>1, <2>4 DEF Table, Row
    <3>2. peerMap[e].alive \in Nat
      BY <3>1, PeerParts, Times
    <3> QED
      BY <2>3, <3>1, <3>2, Times
  <2>5. ForgetsSilent
    BY <2>1, <2>4 DEF ForgetsSilent, Gossip
  <2> QED
    BY <2>1, <2>2, <2>5 DEF TableSound
<1> QED
  BY <1>1, Invariant, PTL

(***************************************************************************)
(* An active peer hears from the node, or the node from it, every          *)
(* 2 * refreshInterval: shouldSendKeepalive skips a peer only when one of  *)
(* the two happened within the last refreshInterval.                       *)
(***************************************************************************)
THEOREM PeersAreKept == Spec => []KeepsAlive
<1>1. IInv => KeepsAlive
  <2> SUFFICES ASSUME IInv, NEW e \in ActivePeers(peerMap)
               PROVE  \/ heard[e] <= 2 * RefreshInterval
                      \/ pinged[e] # Never /\ pinged[e] <= 2 * RefreshInterval
    BY DEF KeepsAlive
  <2>1. e \in DOMAIN peerMap /\ peerMap[e].received # Never
    BY DEF ActivePeers
  <2>2. /\ TypeOK /\ Table(peerMap, heard, refreshAge) /\ Kept(peerMap[e], refreshAge)
    BY <2>1 DEF IInv
  <2>3. refreshAge \in Nat /\ refreshAge <= RefreshInterval
    BY <2>2, Times DEF TypeOK
  <2>4. peerMap[e] \in Peer /\ peerMap[e].received = heard[e] /\ peerMap[e].sent = pinged[e]
    BY <2>1, <2>2 DEF Table, Row
  <2>5. peerMap[e].received \in MaybeAge /\ peerMap[e].sent \in MaybeAge
    BY <2>4, PeerParts
  <2>6. heard[e] \in Nat /\ (pinged[e] # Never => pinged[e] \in Nat)
    BY <2>1, <2>4, <2>5, Times DEF MaybeAge
  <2>7. \/ heard[e] <= RefreshInterval + refreshAge
        \/ pinged[e] # Never /\ pinged[e] <= RefreshInterval + refreshAge
    BY <2>1, <2>2, <2>4 DEF Kept
  <2> QED
    BY <2>3, <2>6, <2>7, Times
<1> QED
  BY <1>1, Invariant, PTL

(***************************************************************************)
(* Keepalives of two steps to a peer of the table are more than            *)
(* refreshInterval apart: gossip, the resolver and the refresh timer ask   *)
(* shouldSendKeepalive of the same lastSentTime, which is the time of the  *)
(* last one.  A refresh asks each peer once; a notified list asks as often *)
(* as it names the peer, of the lastSentTime before the first is sent.     *)
(***************************************************************************)
THEOREM PingsAreSpaced == Spec => PingsSpaced
<1>1. IInv /\ [Next]_vars => [Spaced]_vars
  BY StepKeeps
<1>2. [Spaced]_vars =>
        [/\ \A i \in DOMAIN outbox' : outbox'[i].to \in DOMAIN peerMap => LongAgo(pinged[outbox'[i].to])
         /\ refreshAge' < refreshAge => IsInjective([i \in DOMAIN outbox' |-> outbox'[i].to])]_vars
  BY DEF Spaced
<1> QED
  BY <1>1, <1>2, Invariant, PTL DEF Spec, PingsSpaced

----------------------------------------------------------------------------
(***************************************************************************)
(* The resolver that an empty table starts, for any number of host names   *)
(* and faults.                                                             *)
(***************************************************************************)
USE DEF Tasks, Asking, Result

(***************************************************************************)
(* Where the main queue is in start(): the task it has created exists only *)
(* while it boots, and until that task is called back nothing else of the  *)
(* resolver exists.  Without a node that is up there is no resolver, and   *)
(* one that is not done has a host name to ask for.                        *)
(***************************************************************************)
BootInv ==
  /\ phase = "booting" <=> newTask # "none"
  /\ newTask \in Asking => live /\ task = "none" /\ ~timer /\ index = 0
  /\ phase \in {"off", "recovering", "terminated"} => ~live
  /\ phase = "off" => index = 0 /\ task = "none"
  /\ live => index < HostNum

ResolverInv == ResolverTypeOK /\ ResolverGoesOn /\ BootInv

\* There is a first host name.

LEMMA ResolverBounds == HostNum \in Nat /\ 0 < HostNum /\ MaxFaults \in Nat
BY BoundAssumption

\* The invariant holds before the boot.

LEMMA ResolverInvInit == ResolverInit => ResolverInv
<1> SUFFICES ASSUME ResolverInit PROVE ResolverInv
  OBVIOUS
<1>1. ResolverTypeOK
  <2>1. index \in 0..HostNum /\ faults \in 0..MaxFaults
    BY ResolverBounds DEF ResolverInit
  <2>2. QED
    BY <2>1 DEF ResolverInit, ResolverTypeOK
<1>2. ResolverGoesOn
  BY DEF ResolverInit, ResolverGoesOn
<1>3. BootInv
  BY DEF ResolverInit, BootInv
<1>4. QED
  BY <1>1, <1>2, <1>3 DEF ResolverInv

\* Every step keeps it.

LEMMA ResolverInvStep == ResolverInv /\ [ResolverNext]_(resolverVars) => ResolverInv'
<1> SUFFICES ASSUME ResolverInv, [ResolverNext]_(resolverVars) PROVE ResolverInv'
  OBVIOUS
<1>1. CASE BootCreates
  <2>1. ResolverTypeOK'
    BY <1>1, ResolverBounds DEF BootCreates, ResolverInv, ResolverTypeOK, BootInv
  <2>2. ResolverGoesOn'
    BY <1>1 DEF BootCreates, ResolverInv, ResolverTypeOK, ResolverGoesOn, Overtaken, BootInv
  <2>3. BootInv'
    <3>1. index' < HostNum
      BY <1>1, ResolverBounds DEF BootCreates, ResolverInv, BootInv
    <3>2. QED
      BY <1>1, <3>1 DEF BootCreates, ResolverInv, ResolverTypeOK, ResolverGoesOn, BootInv
  <2>4. QED
    BY <2>1, <2>2, <2>3 DEF ResolverInv
<1>2. CASE BootAssigns
  <2>1. ResolverTypeOK'
    BY <1>2, ResolverBounds DEF BootAssigns, ResolverInv, ResolverTypeOK, BootInv
  <2>2. ResolverGoesOn'
    BY <1>2 DEF BootAssigns, ResolverInv, ResolverTypeOK, ResolverGoesOn, Overtaken, BootInv
  <2>3. BootInv'
    BY <1>2, ResolverBounds DEF BootAssigns, ResolverInv, ResolverTypeOK, ResolverGoesOn, BootInv
  <2>4. QED
    BY <2>1, <2>2, <2>3 DEF ResolverInv
<1>3. CASE RefreshResolver
  <2>1. ResolverTypeOK'
    <3>1. index' \in 0..HostNum /\ faults' \in 0..MaxFaults
      BY <1>3, ResolverBounds DEF RefreshResolver, NewResolver, ResolverInv, ResolverTypeOK
    <3>2. QED
      BY <1>3, <3>1 DEF RefreshResolver, NewResolver, ResolverInv, ResolverTypeOK
  <2>2. ResolverGoesOn'
    BY <1>3 DEF RefreshResolver, NewResolver, ResolverInv, ResolverTypeOK, ResolverGoesOn, Overtaken, BootInv
  <2>3. BootInv'
    BY <1>3, ResolverBounds DEF RefreshResolver, NewResolver, ResolverInv, ResolverTypeOK, ResolverGoesOn, BootInv
  <2>4. QED
    BY <2>1, <2>2, <2>3 DEF ResolverInv
<1>4. CASE Fail
  <2>1. ResolverTypeOK'
    <3>1. index' \in 0..HostNum /\ faults' \in 0..MaxFaults
      BY <1>4, ResolverBounds DEF Fail, Terminated, ResolverInv, ResolverTypeOK
    <3>2. QED
      BY <1>4, <3>1 DEF Fail, Terminated, ResolverInv, ResolverTypeOK
  <2>2. ResolverGoesOn'
    BY <1>4 DEF Fail, Terminated, ResolverInv, ResolverTypeOK, ResolverGoesOn, Overtaken, BootInv
  <2>3. BootInv'
    BY <1>4, ResolverBounds DEF Fail, Terminated, ResolverInv, ResolverTypeOK, ResolverGoesOn, BootInv
  <2>4. QED
    BY <2>1, <2>2, <2>3 DEF ResolverInv
<1>5. CASE Recover
  <2>1. ResolverTypeOK'
    <3>1. index' \in 0..HostNum /\ faults' \in 0..MaxFaults
      BY <1>5, ResolverBounds DEF Recover, NewResolver, ResolverInv, ResolverTypeOK
    <3>2. QED
      BY <1>5, <3>1 DEF Recover, NewResolver, ResolverInv, ResolverTypeOK
  <2>2. ResolverGoesOn'
    BY <1>5 DEF Recover, NewResolver, ResolverInv, ResolverTypeOK, ResolverGoesOn, Overtaken, BootInv
  <2>3. BootInv'
    BY <1>5, ResolverBounds DEF Recover, NewResolver, ResolverInv, ResolverTypeOK, ResolverGoesOn, BootInv
  <2>4. QED
    BY <2>1, <2>2, <2>3 DEF ResolverInv
<1>6. CASE Terminate
  <2>1. ResolverTypeOK'
    BY <1>6, ResolverBounds DEF Terminate, Terminated, ResolverInv, ResolverTypeOK, BootInv
  <2>2. ResolverGoesOn'
    BY <1>6 DEF Terminate, Terminated, ResolverInv, ResolverTypeOK, ResolverGoesOn, Overtaken, BootInv
  <2>3. BootInv'
    BY <1>6, ResolverBounds DEF Terminate, Terminated, ResolverInv, ResolverTypeOK, ResolverGoesOn, BootInv
  <2>4. QED
    BY <2>1, <2>2, <2>3 DEF ResolverInv
<1>7. CASE PeersLost
  <2>1. ResolverTypeOK'
    BY <1>7, ResolverBounds DEF PeersLost, ResolverInv, ResolverTypeOK, BootInv
  <2>2. ResolverGoesOn'
    BY <1>7 DEF PeersLost, ResolverInv, ResolverTypeOK, ResolverGoesOn, Overtaken, BootInv
  <2>3. BootInv'
    BY <1>7, ResolverBounds DEF PeersLost, ResolverInv, ResolverTypeOK, ResolverGoesOn, BootInv
  <2>4. QED
    BY <2>1, <2>2, <2>3 DEF ResolverInv
<1>8. ASSUME NEW result \in Result, Resolves(result) PROVE ResolverInv'
  <2>1. ResolverTypeOK'
    BY <1>8, ResolverBounds DEF Resolves, ResolverInv, ResolverTypeOK, BootInv
  <2>2. ResolverGoesOn'
    BY <1>8 DEF Resolves, ResolverInv, ResolverTypeOK, ResolverGoesOn, Overtaken, BootInv
  <2>3. BootInv'
    BY <1>8, ResolverBounds DEF Resolves, ResolverInv, ResolverTypeOK, ResolverGoesOn, BootInv
  <2>4. QED
    BY <2>1, <2>2, <2>3 DEF ResolverInv
<1>9. ASSUME NEW result \in {"found", "nothing"}, Succeeds(result) PROVE ResolverInv'
  <2>1. ResolverTypeOK'
    <3>1. live
      BY <1>9 DEF Succeeds, Calls, ResolverInv, ResolverGoesOn
    <3>2. index' = index + 1 /\ index < HostNum /\ index \in Nat
      BY <1>9, <3>1, ResolverBounds DEF Succeeds, ResolverInv, ResolverTypeOK, BootInv
    <3>3. index' \in 0..HostNum /\ faults' \in 0..MaxFaults
      BY <1>9, <3>2, ResolverBounds DEF Succeeds, ResolverInv, ResolverTypeOK
    <3>4. QED
      BY <1>9, <3>3 DEF Succeeds, Calls, ResolverInv, ResolverTypeOK
  <2>2. ResolverGoesOn'
    BY <1>9 DEF Succeeds, Calls, ResolverInv, ResolverTypeOK, ResolverGoesOn, Overtaken, BootInv
  <2>3. BootInv'
    BY <1>9, ResolverBounds DEF Succeeds, Calls, ResolverInv, ResolverTypeOK, ResolverGoesOn, BootInv
  <2>4. QED
    BY <2>1, <2>2, <2>3 DEF ResolverInv
<1>10. CASE Errs
  <2>1. ResolverTypeOK'
    BY <1>10, ResolverBounds DEF Errs, Calls, ResolverInv, ResolverTypeOK, BootInv
  <2>2. ResolverGoesOn'
    BY <1>10 DEF Errs, Calls, ResolverInv, ResolverTypeOK, ResolverGoesOn, Overtaken, BootInv
  <2>3. BootInv'
    BY <1>10, ResolverBounds DEF Errs, Calls, ResolverInv, ResolverTypeOK, ResolverGoesOn, BootInv
  <2>4. QED
    BY <2>1, <2>2, <2>3 DEF ResolverInv
<1>11. CASE TimerFires
  <2>1. ResolverTypeOK'
    BY <1>11, ResolverBounds DEF TimerFires, ResolverInv, ResolverTypeOK, BootInv
  <2>2. ResolverGoesOn'
    BY <1>11 DEF TimerFires, ResolverInv, ResolverTypeOK, ResolverGoesOn, Overtaken, BootInv
  <2>3. BootInv'
    BY <1>11, ResolverBounds DEF TimerFires, ResolverInv, ResolverTypeOK, ResolverGoesOn, BootInv
  <2>4. QED
    BY <2>1, <2>2, <2>3 DEF ResolverInv
<1>12. CASE UNCHANGED resolverVars
  <2>1. ResolverTypeOK'
    BY <1>12, ResolverBounds DEF resolverVars, ResolverInv, ResolverTypeOK, BootInv
  <2>2. ResolverGoesOn'
    BY <1>12 DEF resolverVars, ResolverInv, ResolverTypeOK, ResolverGoesOn, Overtaken, BootInv
  <2>3. BootInv'
    BY <1>12, ResolverBounds DEF resolverVars, ResolverInv, ResolverTypeOK, ResolverGoesOn, BootInv
  <2>4. QED
    BY <2>1, <2>2, <2>3 DEF ResolverInv
<1>13. QED
  BY <1>1, <1>2, <1>3, <1>4, <1>5, <1>6, <1>7, <1>8, <1>9, <1>10, <1>11, <1>12 DEF ResolverNext

\* The inductive invariant.

THEOREM ResolverInvariant == ResolverSpec => []ResolverInv
<1>1. QED
  BY ResolverInvInit, ResolverInvStep, PTL DEF ResolverSpec

\* The types, with the index within the host names.

THEOREM ResolverTypes == ResolverSpec => []ResolverTypeOK
<1>1. ResolverInv => ResolverTypeOK
  BY DEF ResolverInv
<1>2. QED
  BY <1>1, ResolverInvariant, PTL

(***************************************************************************)
(* A resolver that is not done has a task or a timer to go on with, unless *)
(* the assignment of its first task was overtaken by that task's callback; *)
(* one that is done has neither.                                           *)
(***************************************************************************)
THEOREM ResolverNeverStops == ResolverSpec => []ResolverGoesOn
<1>1. ResolverInv => ResolverGoesOn
  BY DEF ResolverInv
<1>2. QED
  BY <1>1, ResolverInvariant, PTL

============================================================================
