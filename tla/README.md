# A verification project for RaiBlocksSwift

RaiBlocksSwift is an unfinished RaiBlocks (Nano) node in Swift: sockets on
libdispatch, a UDP gossip node that keeps a table of peers, a ledger on SQLite, a
proof-of-work finder, a bootstrap client over TCP, and under them two C libraries,
BLAKE2 and ED25519Donna, that hash and sign. This directory holds TLA+
models of its components, the TLC runs that check them on small instances, and
proofs, checked by TLAPS, of the properties that matter most.

## The system

| Component | State | Operations | Interacts with |
|---|---|---|---|
| UDPSocket, DispatchSocket | open/closed, one pending send, one pending receive, two dispatch sources that are suspended or not | open, send, receive, close; read and write events | kernel; its callbacks call its owner |
| MessageSender | bounded buffer of entries, index into the first entry's end points, `sending` | send, terminate; the socket's send callbacks | UDPSocket |
| MessageReceiver | `terminated` | receive callbacks, each of which receives again | UDPSocket, PeerManager |
| PeerManager, Peer | peer table with last alive, received and sent times; the resolver | refresh, a message, a list of end points, terminate | sender, receiver, resolver, NodeImpl |
| InitialPeerResolver, NameResolveTask | index of the host name, task under way, recovery timer | resolve, retry, terminate | global queue, PeerManager |
| NodeImpl, Node | the socket and peer manager of the moment, refresh and recovery timers, `terminated` | start, refresh, recover, terminate | all of the above |
| Ledger | block queue, `running`, recovery timer | push, terminate, run, timer | Storage; other threads |
| Storage, DB | the ledger database | migrate, transaction | SQLite, Ledger |
| WorkFinder | current task, pending tasks, best results | find, terminate; workers on the global queue | its caller's handlers |
| TCPSocket | state machine from inited to closed, connect timer, pending send/receive/accept | connect, send, receive, listen, accept, close | DispatchSocket, NameResolve |
| BootstrapClient | TCP socket, reader | connect, requestAccount, terminate | TCPSocket |
| BLAKE2 (`Blake2B.swift` calls it) | chaining value, byte counter, flags, a buffer of one block; trees: several of these and a stripe | init, update, final, one-shot functions | block hashes, account checksums, the work finder's scores |
| ED25519Donna (`SecretKey.swift`, `AccountAddress.swift` call it) | none kept; batches: a heap of scalars | keys, sign, open, open a batch | its hash is BLAKE2b |
| Addresses, amounts, blocks, messages | none | codecs and arithmetic | everywhere |

Almost everything runs on one serial dispatch queue per component: a handler is
atomic, and what is hard is the *order* of handlers (socket events, timers, results
of other queues, calls of the owner), callbacks that call back into the object that
is calling them, errors in the middle of all this, and the process dying between
two statements. In the C libraries nothing is concurrent; there it is boundaries that are
hard: the last block of a hash, the width of a limb, the last limb of a heap. Real parallelism exists between the work finder's workers, between
callers of the ledger, in name resolution, and where `Node.main` starts the node
from the main queue. `PROJECT.json` lists these hazards at their lines, with the
properties that watch them.

What makes each component correct:

- **transport** (sockets, sender, receiver, node): no precondition fails in any order
  of events; a started node always has something that will wake it; accepted
  messages go out once, in order; termination is final;
- **peer table**: live peers are never dropped and are pinged, silent ones are
  forgotten in time, keepalives to a peer are spaced (but for those
  one list asks for), a node without peers looks for
  some;
- **ledger**: one run loop, no lost wakeup, blocks in order and at most once, and a
  database that is never half made;
- **work finder**: one task at a time, answers in order and good enough, no search
  lost, silence after `terminate()`;
- **TCP socket**: the stream keeps its bytes, events find the tasks they were set for, a
  caller can know when a call is allowed, a closed socket is silent, operations end;
- **initial peers**: a resolver that is not done has something that will wake it;
- **bootstrap client**: a caller that was told of no error can go on, and is told
  nothing once it terminated;
- **BLAKE2**: the digest depends on the input and not on how it was cut into calls, no byte
  is lost or counted twice, a hash answers once;
- **ED25519**: no limb outgrows its word in any order of calls the headers allow; what is
  computed is the group law; what is signed opens and what is changed does not; a batch
  answers what its signatures would one by one.

## Modules

| Module | Models |
|---|---|
| `UDPSocket` | `UDPSocket.Impl` with its `DispatchSocket`, as operators on one side each |
| `NodeTransport` | `NodeImpl`, `MessageSender`, `MessageReceiver` around it, and the refinement mapping to `DatagramQueue`; EXTENDS `UDPSocket` |
| `DatagramQueue` | abstract: a FIFO queue of datagrams that can go down as a whole |
| `MCNodeTransport` | an instance of `NodeTransport` |
| `NodeTransportProofs` | theorems about `NodeTransport` |
| `Storage` | migration and genesis registration, with crashes |
| `Ledger` | the block queue and its run loop; EXTENDS `Storage` |
| `LedgerProofs` | theorems about `Ledger` |
| `WorkFinder` | tasks, rounds of workers, completion |
| `MCWorkFinder` | an instance of it |
| `WorkFinderProofs` | theorems about `WorkFinder` |
| `PeerManager` | the peer table and its keepalives |
| `InitialPeers` | the resolver of initial peers and its name resolutions, with the start off its queue |
| `PeersProofs` | theorems about `PeerManager` and `InitialPeers` |
| `TCPSocket` | `TCPSocket.Impl` as a record, and its methods as operators on it; no variables |
| `TCPConnection` | a listener, a client, an accepted socket and the kernel between them; EXTENDS `TCPSocket` |
| `MCTCPConnection` | an instance of it |
| `TCPConnectionProofs` | theorems about `TCPConnection` |
| `BootstrapClient` | the bootstrap client on one socket; EXTENDS `TCPSocket` |
| `BootstrapClientProofs` | theorems about `BootstrapClient` |
| `Blake2` | blake2b and blake2s on blocks of any size, the compression function left open; operators |
| `Blake2Trees` | blake2bp, blake2sp, blake2xb and blake2xs over it; EXTENDS `Blake2` |
| `Blake2Hash` | abstract: the digest of a whole input, by the definitions of BLAKE2 |
| `HashPromise` | abstract: a hash made once, fed pieces, finished once; EXTENDS `Blake2Hash` |
| `Blake2Stream` | a caller of the six hashes, which implements `HashPromise` |
| `Blake2Proofs` | theorems about `Blake2Stream` |
| `Blake2Compress` | the two compression functions at their real size |
| `MCBlake2` | an instance of `Blake2Stream`, beside runs of `Blake2Compress` |
| `Curve25519` | numbers in limbs of any shape: sums, carries, products, strings; operators |
| `Curve25519x64`, `Curve25519x32` | the functions of the two headers, each the steps its header takes |
| `FieldPromise` | abstract: numbers modulo p, and how wide the limbs of a result may be |
| `FieldRegisters` | the functions called in any order `FieldPromise` allows, compared with it |
| `FieldPowers` | the chains of `curve25519-donna-helpers.h` |
| `ModM`, `ModM64`, `ModM32` | scalars modulo the group order; what the headers share, and what they do not |
| `ScalarRegisters` | those functions called one after the other, compared with numbers |
| `Edwards` | abstract: the group of the curve, by its addition law |
| `Ge25519` | the point formulas, strings and windowed multiples |
| `GroupRegisters` | those called one after the other, compared with `Edwards` |
| `Ed25519` | `ed25519.c`: keys, signing, opening, key exchange |
| `SignedMessages` | messages signed, exchanged in part, and opened |
| `BatchVerify` | `ed25519_sign_open_batch`, a turn of its heap at a time |
| `BatchVerifyProofs` | theorems about `BatchVerify` |
| `MCEd25519` | the instances of all of these; a behaviour is one of them; EXTENDS `BatchVerify` |

### NodeTransport

`UDPSocket`'s operators each give the effect of one call on one *side* of the socket
(send slot, receive slot, life cycle), so that an action can put a whole handler
together: `ReceiveSucceeds` is the read event, the callback of `MessageReceiver`, the
`PeerManager` sending a batch of keepalives, and the next `receive()`, which is how
the code does it in one call stack. A failed precondition or an unwrapped nil sets
`trapped`. `wire` is a history variable, the datagrams `sendto` took. What the peer
manager sends is any member of `Batches`. When the socket fails, `Recover` is what
`startRecovery()` does; the objects thrown away are empty and unreachable, and only
their late events remain, which `WriteEventDue`/`ReadEventDue` still allow on a closed
socket. EAGAIN is a step that changes nothing.

`DatagramQueue` is what the sending side promises: `FifoDelivery` is its safety, `KeepsGoing` its
progress and the recovery of the node. The mapping, in `NodeTransport`, turns the buffer and
the index into the sequence of datagrams still owed (`Pending`), and the peer manager's
existence into `up`.

### Ledger and Storage

`jobs` is the serial dispatch queue: `push` and `terminate` arrive on it from other
threads (`queue.sync`), `scheduleRun` and the next `run` are put there by the ledger
itself. Taking the first block off and putting it back when the transaction fails is
one step, as in the code. Storage's `txn` is the working copy of the transaction
under way and `db` what is committed; `Die` may come between any two statements. A
send block whose previous block is known ends the process (`fatalError("TODO")`,
Ledger.swift:143): `RunHitsTodo`.

### WorkFinder

A worker is two steps, posting its result and leaving the group, because the code's
correctness rests on their order. `workerNum` is chosen in the initial state, and the
number of `find()` calls is bounded for each choice (`MaxFinds`). Each task has its own round, so that workers of a
task that `terminate()` dropped go on beside those of the next. A complete handler
may return, call `terminate()`, or call `find()` (`CompleteAndFind`) while at most
`MaxBehind` tasks are pending.

### PeerManager

Times are ages in ticks up to `Horizon`, beyond which no comparison of the code changes
its result; so the state space is finite without a bound on time. `Tick` is held back
while the refresh timer is due: timers are taken to be punctual. End points the code
turns down (loopback, multicast, another protocol family) are the set `Invalid`.
`heard` and `pinged` are history variables the properties compare the table with.

A list is a sequence in which end points may repeat, as in a keepalive, whose unused
entries are all `EndPoint.zero` and from which nothing is removed when it is read. `Ping` is
the code's filter of the whole list followed by one keepalive for each entry that passed;
`outbox` keeps them by entry. A due peer that a list names twice is so sent two.

### InitialPeers

`start()` is a step of the node queue except the first time, when `Node.main` calls it on
the main queue. `BootCreates` and `BootAssigns` are the two halves of
`task = nameResolve(...)`, and any callback may come between them. Since a
NameResolveTask is referenced from one place only, a task that is not in `task` or
`newTask` has been terminated by its `deinit`; "called" is a task whose callback was
delivered. The two accesses are a data race: the model has each order of them, and
not a corrupted reference count. That the node may fail while it boots is left out,
too.

### TCPSocket, TCPConnection, BootstrapClient

`sock[s]` is the state of one `Impl`, and each handler a function of it, so that
`TCPConnection` and `BootstrapClient` use the same methods. In each handler the callback
comes last; what the caller does in it is the next step of the model. `link`, `pipe` and `conn`
are the kernel: a buffer of `Capacity` bytes in each direction, a FIN once the other
end is gone, a reset at any time, a handshake that is refused or accepted. The bytes
of an end are numbered, so that a lost, doubled or displaced one shows. `owed` is what
the caller knows: its calls that were not answered. `BootstrapClient` leaves the
bytes to `TCPConnection`: a request is sent whole, in part or not at all, an entry is
received whole. Its caller connects once and does not call `next()` after `terminate()`, which
would unwrap a nil socket; the code leaves both to the caller.

A read event on a socket with nothing to read is not modelled: the kernel's read filter is
level-triggered and armed again by each `receive`, and a sized receive would simply wait on.

### BLAKE2

A byte is wherever it came from, and the compression function is injective by
construction: the chaining value is the list of the blocks, counters and flags it was given.
So two digests are equal only if the same bytes went the same way, and nothing about
buffers, counters, flags, parameter blocks, trees or output blocks is abstracted but the
size of a block. `Blake2Hash` says what a digest is without any buffer: the input cut into blocks,
leaves or output blocks. `Streams` is the refinement: a caller who cuts the input anywhere,
with empty pieces too, asks for too few bytes and asks again, or goes on after the end,
sees `HashPromise`. (For blake2bp, blake2sp and the xof functions as well.)

`Blake2Compress` has what that leaves out, bit for bit: sigma, the initial values, G and its
rotations, words of 64 and 32 bits in limbs of 16, a round a step. It is checked against the
digests of the repository's tests (BlockTests.swift, the work score of
testWorkScore1), one of RFC 7693 and one of two blocks.

`blake2s_final` copies as many bytes as its caller asks for (blake2s-ref.c:260), out of a
buffer of `BLAKE2S_OUTBYTES`; `blake2b_final` as many as the state was made for. The model's
caller asks blake2s for no more than the buffer holds.

### ED25519

The headers come in two layouts, five limbs of 51 bits in 64-bit words and ten of 25 and 26 in
32-bit words, whose functions take the same steps but carry at different places. `Curve25519`
has the steps with the widths of limb, word, double word and carry as constants, every
operation modulo its word. `MCEd25519` gives them small values of the same proportions:

| Layout | Real | Checked |
|---|---|---|
| 64 bit | 5 limbs of 51 bits in 64, p = 2^255 - 19 | 3 limbs of 9 bits in 18, p = 2^27 - 3 |
| 32 bit | 10 limbs of 26 and 25 bits in 32 | 4 limbs of 8 and 7 bits in 12, p = 2^30 - 3 |
| scalars, 64 bit | 5 limbs of 56 bits, 253 bits | 3 limbs of 8 bits, m = 524591 |
| scalars, 32 bit | 9 limbs of 30 bits | 3 limbs of 7 bits, m = 131203 |
| curve | p = 2^255 - 19, order about 2^252, cofactor 8 | p = 32749, d = 374, order 4099, cofactor 8 |
| batches | 64 signatures, 128-bit randoms, 253-bit scalars | 5 signatures, 5-bit randoms, 9-bit scalars in 3 limbs of 4, m = 257 |

The two layouts of the field differ in what they allow: `FieldPromise` gives each result a
width (reduced, basic, too wide), and `LimbsExact` says that whoever respects it loses no
bit; `GroupExact` runs the point formulas over that promise, so that a formula that hands a
function wider limbs than it may is found. The exponent chains need no scaling: they are run on
exponents, modulo eighteen primes whose product is larger than 2^256.

The tables of `ed25519-donna-*-tables.h` are data; the models compute the same multiples for their
curve. The hash is an arbitrary function. In `BatchVerify` a point is its logarithm to the base
point, so that points outside the subgroup of the base point are not there; the random scalars are
any of `Randoms`, and a wrong batch may pass only if they cancel out (`unlucky`), which `BatchSound`
then confirms on the sum itself. `BatchVerify` takes its scalar functions as parameters;
`ShapeFits`, `KeepPromise` and `InputsFit` say what they, the sizes and the inputs must be like, and
`MCEd25519` has TLC evaluate them for both layouts (`KeepPromise` on a sample of the scalars). The
run's `BatchSound`, `BatchAnswers` and `BatchShrinks` are about the 64-bit layout; those of the
other are part of `SignaturesOpen`. Three things the code does are as they are in the model and not
properties of it: `ge25519_multi_scalarmult_vartime_final` starts from the point instead of the
neutral point, so that it computes another multiple than its name says, neutral for the same points;
the loop may come down to one scalar before the largest of the first half is small enough for
`heap_extend`, and then leaves out the other half (`unlucky` too; it needs the random numbers to
work together); and a batch reduces S, where `ed25519_sign_open` first refuses an S with top bits
set (ed25519.c:103).

## Runs

| Run | Bounds | Shows |
|---|---|---|
| `node_transport` | 2 end points, buffer of 2, 4 messages, 2 faults, batches of up to 2 entries, one with two receivers | the safety, refinement and recovery of the transport |
| `ledger` | queue of 2, 3 pushes, 2 failing transactions, 2 crashes, 2 networks | run loop and database |
| `work_finder` | 2 workers and 2 finds, or 1 worker and 3 finds; scores and thresholds 1 and 2 | races within a round and across tasks; the order of pending tasks |
| `work_finder_reentry` | as above, threshold 1, a handler may call `find()` behind one pending task | a violation, see Findings |
| `peer_manager` | 2 peers, 1 invalid end point, refresh every 2 ticks, offline after 5, lists of up to 2 entries, the same one twice among them, keepalives that name 1 peer | the peer table |
| `tcp_connection` | buffers of 2 bytes, sends of 1 or 2, receives of 2 or any, 3 bytes from the client, 1 from the server | sockets and stream |
| `tcp_partial_send` | the same, both ends reading on | a violation, see Findings |
| `tcp_refused` | the same | a violation, see Findings |
| `initial_peers` | 3 host names, 2 socket failures | the resolver over retries, replacement and restarts |
| `bootstrap_client` | 10 entries | the client's loop under errors and termination |
| `blake2` | blocks of 2 and 3 bytes, trees of 3 and 2 leaves, keys of up to 3 bytes, 12 bytes of input in pieces of 0 to 12, a counter word of 4 values, 1 call after the end | buffers, counters, trees, output blocks; the compression functions on four messages |
| `ed25519` | the shapes above, 4 functions of the field or the scalars in a row, 3 of the group, 3 keys, 11 batches of up to 9 signatures | limbs, points, signatures, batches |

The bounds are the smallest that let the interesting cases happen: the buffer fills and
an entry has a second receiver while another waits; a restart fails and the next
succeeds; the ledger's queue is full while a block is retried and the process dies
in each phase of its start, also for the other network; a stale round meets a newer
task; a peer falls silent, is removed and comes back; more peers are active than a
keepalive names; a buffer with room for one byte meets a send of two, and a sized receive
is put together from two events; the input of a hash fills a block exactly, passes it
by a byte, spans two stripes of a tree, and wraps the low counter word; a scalar needs Barrett's second
subtraction; a batch is extended at half size, is followed by a second one, falls back, and has a rest of
three. `blake2` and `ed25519` end (a hash is used up, a register has had its calls), so they
do not check for deadlock. Faults and crashes are bounded since a system that fails for
ever recovers never; the proofs do without any of these bounds.

Each property of a passing run has a *faulty variant* of a definition in its module
(`PROJECT.json`, "mutants") under which TLC finds it violated.

### Fairness

- `NodeTransport`: a writable socket takes a datagram in the end, and the recovery
  timer fires. Nothing else: messages may stop coming.
- `Ledger`: the dispatch queue runs its jobs and a timer that is set fires. Transactions
  may fail, but only `MaxErrors` times.
- `WorkFinder`: the queue runs its jobs and the current task's workers finish (weak), and these, started
  again and again, in the end find a work that is good enough (strong): works are drawn
  uniformly at random, so this has probability 1.
- `BatchVerify` needs none: `BatchShrinks` is a variant, every turn lowers the sum of the scalars.
- `PeerManager`: time passes and the refresh timer fires.
- `TCPConnection`: `getaddrinfo` returns, posted jobs run, the connection timer fires, an event
  that stays due is delivered. The handshake, a FIN and the callers owe nothing. Only
  `tcp_partial_send` also lets both ends receive again and again.
- `InitialPeers`: queues run and timers fire (weak); resolution succeeds sometimes, and an
  answer is not for ever overtaken by the next refresh (strong): the refresh interval
  is a minute. A resolution that always takes longer never gets to answer; TLC shows it as
  soon as the strong fairness is weakened.

## Findings

- `work_finder_reentry`: `complete()` calls the handler between clearing `currentTask`
  and starting the first pending task. A handler that calls `find()` while another task is
  pending makes it start a second task, against `precondition(currentTask == nil)`
  (WorkFinder.swift:59), and the process stops. (A handler that calls `find()` twice gets
  there by itself.)

- `tcp_partial_send`: `doSend` returns without awaiting the next write event when the
  kernel took a part of the data (TCPSocket.swift:345); the send is never finished nor answered, and
  the next one fails a precondition. The tests wait for one of its callbacks (TCPSocketTests.swift:146).
  Awaiting the event is not enough, as the same run says when only that is changed: the slice
  `offset..<count - offset` (line 332) is wrong once `offset` is not 0. With both changed, `SendEnds` holds.
- `tcp_refused`: `doConnectSuccess` does not ask for `SO_ERROR`, and a refused connection is
  reported by the success callback (TCPSocketTests.swift:19 takes that for a connection). The first
  send or receive then fails.

Three more observations have no violation run of their own: if the first name resolution fails before the main
queue has assigned its task, the finished task ends up in the slot and the announced retry
(InitialPeerResolver.swift:73) does nothing; this is `Overtaken` in `InitialPeers`. `FindsPeers` says what saves
the node: the next refresh, if the table is empty, replaces the resolver. And a list
that names a due peer twice makes `handleNotifiedEndPoints` send it two keepalives at once, since the
list is filtered before anything is sent (PeerManager.swift:81-92) and no repeats are removed from
it (Message.swift:135-141). No text of the repository says otherwise, so there is no run; `PingsSpaced`
is about keepalives of different steps. The zeros that fill up a keepalive are turned down on the IPv4 socket the node
opens (NodeImpl.swift:29), as `::` is no mapped address; on an IPv6 socket `isValidEndPoint` would take them
for a peer that is named several times. Last, `blake2xs_init_key`
tests its key against the limit of blake2b (blake2xs-ref.c:36), so that it takes keys the one-shot
function refuses; `OneShotAgrees` states the exception.

## Proofs

The proofs are for all values of the constants: any buffer or queue size, any sets of end
points, messages, networks and kinds of block, and any number of messages, faults,
failures and crashes. They assume the named assumptions of the modules: that `None` is
no datagram and no network, that an entry has at least one end point, and that sizes
are natural numbers. For BLAKE2: that a key fits into a block, that a hash and its outputs have sizes
the headers could define (`ConstantsAssumption`), and that the input stays below what the two words of the
counter count, 2^128 or 2^64 bytes (`CounterAssumption`); the low word alone does wrap.

**NodeTransportProofs.** `Spec => []TypeOK`, `[]NeverTrapped`, `[]NeverStranded`, `[]SenderInSync` and
`QuietWhenTerminated`. None of the invariants is inductive alone: that no precondition fails
needs sender and socket to agree on what is in flight, and that survives failures only since
a peer manager exists exactly while the socket is live. The inductive invariant adds this
correspondence, `LifeCycles`. Lemmas take the sending side through `Update`, `SendBatch` and
`Advance` once; the step lemma has a case for each handler.

`Spec => FifoDelivery`: the transport implements `DatagramQueue`, every step of it is one of the queue or
changes nothing the queue sees. `Pending`, the mapping, runs through entries and their end points, so the work is in
lemmas on concatenation: what is pending after an append, after the index moved on, after the last end point of the
first entry. Their induction on the length takes the least length at which they would fail.

**LedgerProofs.** `Spec => []TypeOK`, `[]StorageSound`, `[]OneRunLoop`, `[]NoLostWakeup` and `[]InOrder`.
`StorageSound` speaks of what is committed and needs `StartupInv`, what the process knows of its
transaction at each statement, and that jobs and timers exist only in a ledger that is
up. `OneRunLoop` and `NoLostWakeup` are kept together: a loop that stops leaves no continuation,
and a job that does nothing because a loop is running relies on that loop's continuation.
`InOrder` needs `PushesAhead`: the pushes waiting on the dispatch queue are newer than all
that was accepted. Steps that only take away are dealt with once (`TakingKeepsOrder`).

**PeersProofs, InitialPeers.** `ResolverSpec => []ResolverTypeOK` and `[]ResolverGoesOn`. The strengthening `BootInv` says
where the main queue is: the task it has created exists only while the node boots, and
until that task is called back it is all there is of the resolver; a resolver that is not done has a host name
left, which keeps the index in range.

**WorkFinderProofs.** `Spec => []SearchSound`, `[]AnswersInOrder` and `SilentAfterTerminate`, for any number
of workers and tasks, any scores and any number of handlers that call back. No count of workers is
needed, only where things are on the queue: a task with workers has no evaluation posted, it never
has two, and until its result is there a merge is ahead of its evaluation (`RoundInv`). What was
not started yet has neither workers nor jobs (`IdleInv`), which is why a dropped task's stale round
cannot be taken for the next task's. `OrderInv` lines up answered, current and pending tasks.
`RoundsMove` takes the rounds through a job of the queue once for all six kinds.

**PeersProofs, PeerManager.** `Spec => []TableSound`, `[]KeepsAlive` and `PingsSpaced`, for any intervals, lists
of any length with any repeats, and any size of a keepalive. The strengthening says that every row of the table agrees with the histories
(`Row`: a peer that sent something was alive when it was last heard; what was sent is what was pinged),
counts from the last refresh instead of from now (`Kept`: an interval ago, not two), and that a peer
that is not in the table has no ping to remember (`Unpinged`), so that adding it again, with no `lastSentTime`, is
right. `PingKeeps` takes all the ways to send through one `Ping`, whose
filter asks for the `lastSentTime` of before the step, for each entry: this spaces the keepalives of two steps, and
leaves those of one list unspaced.

**BootstrapClientProofs.** `Spec => []CallerKnowsEnough` and `SilentOnceTerminated`, over all of `TCPSocket`, for any
number of entries. `StateInv` says for each state of the socket what can be under way:
once connected it is the request, an entry's receive or the caller's `next()`, never two of them. `EndInv`
says that the socket is held until the end and that an error is the end.

**TCPConnectionProofs.** `Spec => []SlotsSound`, `[]StreamSound` and `SilentOnceClosed`, for any capacity of the kernel's
buffers and any sizes and number of sends and receives. `IInv` has four parts beside the types. `Slots` says which tasks, timer
and sources a socket can have in each state, and that a task it has is one its caller is still owed an answer to.
`Sending` says that of the bytes asked for the kernel took a beginning, that the task has exactly the
rest, and that its write event comes only before the first byte was taken: this is why `doSend`'s wrong upper
bound does no harm (see the findings): a send the kernel took a part of stalls, and never leaves out a byte in between. `Flow` says that what was received, what a receive
holds and what the kernel buffers are together what the other end handed over, until a reset or a close cuts the
tail. `Stages` says what there is of the two ends before the connection is accepted. `OneSocket` and `ClosingKeeps` take the
steps that change one socket, and the many ways to close it, through one argument each.

**Blake2Proofs.** `Spec => []HashInv`, `[]BytesAccounted`, `[]OneShotAgrees` and `Streams`, for any sizes of
block, word, output and key, any number of leaves and any way to cut the input. `Streams` is the refinement: whoever feeds a
hash in pieces sees `HashPromise`, the digest of the whole, once. None of this is inductive as the runs state it: equal
answers do not say that the states are equal. `HashInv` does: until the hash has answered, its state is the one
its bytes determine (`Has`: `Absorbed` for one sequential state, `TreeHas` for leaves, root and stripe, `XofHas` for
the one under an output of any length); afterwards it is one that refuses (`Answered`). TLC found it to
hold on the instance of `blake2` before it was proved. Its
argument goes up through the code: `blake2b_update` keeps `Absorbed` whether the piece fits into the buffer,
fills it exactly or spans blocks; the counter's two words are the number of bytes compressed, carry included; the
stripe of a tree gives each leaf its blocks in turn; final then compresses what `Blake2Hash` calls the last block.
Sequences are *rows*, functions on `1 .. n`, and their parts *slices*, so that no lemma needs the
kind of what they hold. The loops are functions of the number of rounds; a claim about all rounds is proved from the
least round at which it fails (`LeastElement`).

**BatchVerifyProofs.** `Spec => []BatchSound`, `[]BatchAnswers` and `BatchShrinks`, for any prime
order, any size and number of limbs, any size of a batch, any signatures and random numbers. Assumed
are `ShapeFits`, `KeepPromise(Scalars)` and `InputsFit`. The code justifies the first and the third:
the order is the prime 2^252 + 277..., a limb has 56 or 30 bits and a scalar 5 or 9 of them, a
random string has 16 bytes (HALF is 128), and `expand256_modm` reduces; the second is what
`LimbsExact` checks of the scalar functions. (They are hypotheses of the theorems and not `ASSUME`s,
since for each layout the constants are other functions.)

The hard part is what the loop compares. A limb that is zero in the largest scalar is no longer
looked at, while half of the scalars are not in the heap yet. `Room` says why none of these can need
that limb: they have half the bits, and, since the largest scalar at most halves in a turn and the
turn that finds it small takes them in, the limbs still compared have more bits than that. So
`BatchInv` keeps: the heap is in order (`Ordered`; `UpFits` and `DownFits` say what is wrong with it
on the way up and down, one node), its scalars are zero above `limbsize` (`Comparable`), the
multiples add up to what they did, that sum is zero if all signatures open, and at the end one
scalar is left. That the last point is then neutral if and only if the sum is (`FinalNeutral`) needs
the order to be prime, and twice 2^128 less than it: the last function computes another multiple
than its name says, but by a number the order cannot divide. TLC finds `BatchInv` to hold on the
instance of `ed25519`. Numbers in limbs, powers of two, sums and congruence
modulo the order have their lemmas first; products go to the solver only through `Products`.

Only model-checked:

- liveness (`KeepsGoing`, `Drains`, `EveryFindAnswered`, `NeverAlone`, `FindsPeers`,
  `ConnectAndReceiveEnd`): the proof system has no support for fairness and ENABLED in proofs of this kind.
  `BatchShrinks` is the exception, a safety property that says why the loop ends;
- the two compression functions (`KnownDigests`): this is about the digests of four messages;
- ED25519 below the batches: that limbs, points and signatures are exact (`LimbsExact`, `GroupExact`,
  `SignaturesOpen`) is nonlinear arithmetic, products of limbs modulo words and primes and the associativity of
  the addition law, which the SMT solver does not decide. They hold for the shapes in the table above.

## Not modelled

- The SSE2 and assembly variants of ED25519Donna, its tables and its detection of
  compilers; the random generator and hash behind `ed25519-*-custom.c`, which the models take as any
  values and any function. The SELFTEST programs of BLAKE2 and its OpenMP loops.
- Points outside the subgroup of the base point in batches, and the real sizes of limbs,
  scalars and curve: TLC's integers have 32 bits.
- Logging, paths, statistics, the `getchar` loop: no property is about them.
- The contents of blocks and table rows: `Ledger.process` does not use them yet.
- Message formats, addresses and amounts as data: planned, see below.
- SIGPIPE, which a send on a reset connection raises and nothing ignores: a matter of the
  process's signal disposition; `TCPConnection` has the error return.
- The descriptor that leaks when `fcntl` fails (DispatchSocket.swift:13).

## Plan

In this order; what is above is done.

1. `NodeTransport` over `UDPSocket`, refining `DatagramQueue`, with proofs, the refinement's too. *Done.*
2. `Ledger` over `Storage`, with proofs. *Done.*
3. `WorkFinder`, with proofs. *Done.* `PeerManager`, with proofs. *Done.*
4. `InitialPeers`, with proofs. *Done.*
5. `TCPConnection` over `TCPSocket`, with proofs. *Done.* Left: an abstract byte stream it implements.
6. `BootstrapClient`, with proofs. *Done.*
7. BLAKE2 with its promise and proofs. *Done.* ED25519 with its promises. *Modelled and
   checked; batches with proofs.* Left: proofs about limbs and points.
8. A network of nodes: peer tables that exchange keepalives over lossy links, with
   the node's own end point among them; two nodes that know each other stay connected.
9. Pure modules: the order of addresses and ranges, unit formatting of amounts, the message
   header, each against a reference definition.
