---------------------------- MODULE PeerManager ----------------------------
(***************************************************************************)
(* RaiBlocksNode/PeerManager.swift and Peer.swift: the table of peers a    *)
(* node knows, kept alive by keepalives.  A peer is added when a message   *)
(* from it, a keepalive that names it, or a name resolved mentions its end *)
(* point; refresh() removes the peers not heard from for offlineInterval   *)
(* and pings the quiet ones; an empty table starts the name resolver.      *)
(*                                                                         *)
(* Times enter only by comparison with now, so each is kept as its age, in *)
(* ticks, up to the Horizon beyond which no comparison changes.  Handlers  *)
(* run on the node's serial queue: a step is a whole one.                  *)
(***************************************************************************)
EXTENDS Naturals, FiniteSets, Functions

CONSTANTS
  EndPoint,         \* end points of the socket's protocol family
  Invalid,          \* those isValidEndPoint or mappedV4 turn down
  ListSize,         \* bound: entries of a list a message or the resolver brings
  RefreshInterval,  \* Config.refreshInterval
  OfflineInterval,  \* Config.offlineInterval
  KeepaliveSize,    \* how many end points a keepalive names at most
  Never             \* a nil time

ASSUME PeerManagerAssumption ==
  /\ EndPoint \cap Invalid = {}
  /\ ListSize \in Nat
  /\ RefreshInterval \in Nat \ {0} /\ OfflineInterval \in Nat \ {0}
  /\ KeepaliveSize \in Nat
  /\ Never \notin Nat

Horizon == OfflineInterval + 2 * RefreshInterval
Age == 0..Horizon
MaybeAge == Age \cup {Never}

Peer == [alive : Age, received : MaybeAge, sent : MaybeAge]
Keepalive == [to : EndPoint, about : SUBSET EndPoint]

\* What a message or the resolver brings: end points in order, repeated or not.
\* (A keepalive has eight, the unused ones all EndPoint.zero.)

Lists == UNION {[1..n -> EndPoint \cup Invalid] : n \in 0..ListSize}

VARIABLES
  peerMap,     \* PeerManager.peerMap, ages for times
  resolving,   \* PeerManager.initialPeerResolver # nil
  refreshAge,  \* ticks since NodeImpl set its refresh timer
  outbox,      \* the keepalives handed to the sender in the last step, by entry
  heard,       \* history: ticks since a message came from an end point
  pinged       \* history: ticks since a keepalive went to a peer, since it was added

vars == <<peerMap, resolving, refreshAge, outbox, heard, pinged>>

TypeOK ==
  /\ DOMAIN peerMap \subseteq EndPoint /\ peerMap \in [DOMAIN peerMap -> Peer]
  /\ resolving \in BOOLEAN
  /\ refreshAge \in 0..RefreshInterval
  /\ outbox \in [DOMAIN outbox -> Keepalive]
  /\ heard \in [EndPoint -> MaybeAge]
  /\ pinged \in [EndPoint -> MaybeAge]

\* A new PeerManager, whose first refresh is called at once.

NoPeers == [e \in {} |-> 0]
NoKeepalives == [i \in {} |-> 0]

Init ==
  /\ peerMap = NoPeers
  /\ resolving = FALSE
  /\ refreshAge = RefreshInterval
  /\ outbox = NoKeepalives
  /\ heard = [e \in EndPoint |-> Never]
  /\ pinged = [e \in EndPoint |-> Never]

----------------------------------------------------------------------------
NewPeer == [alive |-> 0, received |-> Never, sent |-> Never]

\* getOrAddIfValidEndPoint for each of some end points.
\* (Faulty variant: without the validity test.)

WithAnyPeers(map, some) ==
  [e \in DOMAIN map \cup some |-> IF e \in DOMAIN map THEN map[e] ELSE NewPeer]

WithPeers(map, some) ==
  [e \in DOMAIN map \cup (some \cap EndPoint) |->
     IF e \in DOMAIN map THEN map[e] ELSE NewPeer]

\* updateReceivedTime.  (Faulty variant: lastAliveTime is not updated.)

HeardNotAlive(map, from) == [map EXCEPT ![from].received = 0]
Heard(map, from) == [map EXCEPT ![from].received = 0, ![from].alive = 0]

ActivePeers(map) == {e \in DOMAIN map : map[e].received # Never}

\* now > time + refreshInterval, or there is no time.

LongAgo(age) == age = Never \/ age > RefreshInterval

\* (Faulty variants: lastSentTime is not looked at; a nil one counts as recent.)

PingsUnheard(peer) == LongAgo(peer.received)
PingsAgain(peer) == LongAgo(peer.received) /\ peer.sent # Never /\ LongAgo(peer.sent)
ShouldSendKeepalive(peer) == LongAgo(peer.received) /\ LongAgo(peer.sent)

\* getRandomElements(num: 8).

Samples(S) ==
  {T \in SUBSET S : Cardinality(T) = IF Cardinality(S) < KeepaliveSize
                                       THEN Cardinality(S) ELSE KeepaliveSize}

(***************************************************************************)
(* sendKeepalive for those entries of a list that shouldSendKeepalive lets *)
(* through: lastSentTime is set and the message handed to the sender.  The *)
(* whole list is filtered before anything is sent, so a peer that is due   *)
(* gets a keepalive for each entry that names it.                          *)
(***************************************************************************)
Ping(map, list) ==
  LET due == {i \in DOMAIN list : list[i] \in DOMAIN map /\ ShouldSendKeepalive(map[list[i]])}
      reached == {list[i] : i \in due}
  IN  /\ peerMap' = [e \in DOMAIN map |->
                       IF e \in reached THEN [map[e] EXCEPT !.sent = 0] ELSE map[e]]
      /\ \E about \in [due -> Samples(ActivePeers(map))] :
           outbox' = [i \in due |-> [to |-> list[i], about |-> about[i]]]
      /\ pinged' = [e \in EndPoint |->
                      IF e \in reached THEN 0
                      ELSE IF e \in DOMAIN map THEN pinged[e] ELSE Never]

\* handleNotifiedEndPoints: add each, then choose, then send.

HandleNotifiedEndPoints(map, list) == Ping(WithPeers(map, Range(list)), list)

----------------------------------------------------------------------------
(***************************************************************************)
(* handleMessage, and NodeImpl.handleMessage for a keepalive; any other    *)
(* message is one that names nobody.                                       *)
(***************************************************************************)
HandleMessage(from, list) ==
  IF from \notin EndPoint
    THEN /\ outbox' = NoKeepalives
         /\ UNCHANGED <<peerMap, resolving, refreshAge, heard, pinged>>
    ELSE /\ HandleNotifiedEndPoints(Heard(WithPeers(peerMap, {from}), from), list)
         /\ heard' = [heard EXCEPT ![from] = 0]
         /\ UNCHANGED <<resolving, refreshAge>>

\* A host name was resolved; after the last one the resolver is dropped.

HandleResolved(list) ==
  /\ resolving
  /\ HandleNotifiedEndPoints(peerMap, list)
  /\ resolving' \in BOOLEAN
  /\ UNCHANGED <<refreshAge, heard>>

\* removeOfflinePeers.  (Faulty variant: the comparison is strict.)

OnlinePeersLate(map) ==
  Restrict(map, {e \in DOMAIN map : map[e].alive <= OfflineInterval})
OnlinePeers(map) ==
  Restrict(map, {e \in DOMAIN map : map[e].alive < OfflineInterval})

\* sendKeepalive for each active peer that is due.

PingActive(map) == Ping(map, [e \in ActivePeers(map) |-> e])

(***************************************************************************)
(* The refresh timer: NodeImpl.refresh and PeerManager.refresh.            *)
(* (Faulty variant: an empty table starts the resolver only in the refresh *)
(* that emptied it.)                                                       *)
(***************************************************************************)
RefreshOnce ==
  /\ refreshAge = RefreshInterval
  /\ refreshAge' = 0
  /\ PingActive(OnlinePeers(peerMap))
  /\ resolving' = (resolving \/ (DOMAIN peerMap # {} /\ DOMAIN OnlinePeers(peerMap) = {}))
  /\ UNCHANGED heard

Refresh ==
  /\ refreshAge = RefreshInterval
  /\ refreshAge' = 0
  /\ PingActive(OnlinePeers(peerMap))
  /\ resolving' = (resolving \/ DOMAIN OnlinePeers(peerMap) = {})
  /\ UNCHANGED heard

\* Time passes, but the refresh timer is never late.

Older(age) == IF age = Never \/ age = Horizon THEN age ELSE age + 1

Tick ==
  /\ refreshAge < RefreshInterval
  /\ refreshAge' = refreshAge + 1
  /\ peerMap' = [e \in DOMAIN peerMap |->
                   [alive |-> Older(peerMap[e].alive),
                    received |-> Older(peerMap[e].received),
                    sent |-> Older(peerMap[e].sent)]]
  /\ heard' = [e \in EndPoint |-> Older(heard[e])]
  /\ pinged' = [e \in EndPoint |-> Older(pinged[e])]
  /\ outbox' = NoKeepalives
  /\ UNCHANGED resolving

Next ==
  \/ \E from \in EndPoint \cup Invalid, list \in Lists : HandleMessage(from, list)
  \/ \E list \in Lists : HandleResolved(list)
  \/ Refresh
  \/ Tick

Spec == Init /\ [][Next]_vars
FairSpec == Spec /\ WF_vars(Refresh) /\ WF_vars(Tick)

----------------------------------------------------------------------------
(*                             Properties                                  *)

(***************************************************************************)
(* While a peer stays in the table, the keepalives of two steps to it are  *)
(* more than refreshInterval apart, whichever of gossip, resolver and      *)
(* refresh timer asks for them; and a refresh sends it no two at once.     *)
(* (Those that entries of one notified list ask for do leave at once:      *)
(* handleNotifiedEndPoints filters the list before it sends anything.)     *)
(***************************************************************************)
PingsSpaced ==
  [][/\ \A i \in DOMAIN outbox' : outbox'[i].to \in DOMAIN peerMap => LongAgo(pinged[outbox'[i].to])
     /\ refreshAge' < refreshAge => IsInjective([i \in DOMAIN outbox' |-> outbox'[i].to])]_vars

\* A peer heard from less than offlineInterval ago is in the table, and active.

NeverForgetsLive ==
  \A e \in EndPoint : heard[e] # Never /\ heard[e] < OfflineInterval =>
    e \in DOMAIN peerMap /\ peerMap[e].received = heard[e]

(***************************************************************************)
(* A peer that fell silent is forgotten no later than the refresh after    *)
(* offlineInterval, and no keepalive names it to others after that.        *)
(***************************************************************************)
ForgetsSilent ==
  /\ \A e \in DOMAIN peerMap : peerMap[e].alive < OfflineInterval + RefreshInterval
  /\ \A i \in DOMAIN outbox, e \in EndPoint : e \in outbox[i].about =>
       heard[e] # Never /\ heard[e] < OfflineInterval + RefreshInterval

\* The table agrees with what was heard: it has the live and not the long silent.

TableSound == TypeOK /\ NeverForgetsLive /\ ForgetsSilent

(***************************************************************************)
(* An active peer is never left alone: every 2 * refreshInterval something *)
(* comes from it or a keepalive goes to it.                                *)
(***************************************************************************)
KeepsAlive ==
  \A e \in ActivePeers(peerMap) :
    \/ heard[e] <= 2 * RefreshInterval
    \/ pinged[e] # Never /\ pinged[e] <= 2 * RefreshInterval

\* A node without peers looks for some.

Alone == DOMAIN peerMap = {} /\ ~resolving
NeverAlone == Alone ~> ~Alone
============================================================================
