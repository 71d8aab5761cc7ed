---------------------------- MODULE InitialPeers ----------------------------
(***************************************************************************)
(* InitialPeerResolver (RaiBlocksNode/InitialPeerResolver.swift) with the  *)
(* NameResolveTask it waits for (RaiBlocksSocket/NameResolve.swift), as    *)
(* PeerManager starts it: whenever a refresh finds the peer table empty.   *)
(*                                                                         *)
(* A refresh is a step of the node queue, but for the first one:           *)
(* Node.main calls start() on the main queue, and the node queue may run a *)
(* callback between the creation of the NameResolveTask and the assignment *)
(* task = nameResolve(...).  The two accesses race; the model has every    *)
(* order of them, and not what the race may do to a reference count.       *)
(*                                                                         *)
(* A NameResolveTask is known to nobody but the resolver and, until it is  *)
(* assigned, to the main queue: one that is dropped is terminated by its   *)
(* deinit, and its result is posted, if at all, to no effect.  So the two  *)
(* places a task can be in are the variables.                              *)
(***************************************************************************)
EXTENDS Naturals

CONSTANTS
  HostNum,      \* length of Network.initialPeerHostnames
  MaxFaults     \* bound: failures of the node's socket

ASSUME BoundAssumption == HostNum \in Nat \ {0} /\ MaxFaults \in Nat

VARIABLES
  phase,     \* of the node: booting, up, waiting for recovery, terminated
  newTask,   \* the task the main queue has created and not assigned
  live,      \* a resolver exists that neither completed nor was terminated
  index,     \* its hostnameIndex
  task,      \* its task
  timer,     \* its recoveryTimer is set and has not fired
  empty,     \* the peer table is empty
  faults

resolverVars == <<phase, newTask, live, index, task, timer, empty, faults>>

Result == {"found", "nothing", "failed"}
Asking == Result \cup {"running"}          \* its callback is to come
Tasks == Asking \cup {"none", "called"}      \* called: its callback was

ResolverInit ==
  /\ phase = "off"
  /\ newTask = "none"
  /\ live = FALSE
  /\ index = 0
  /\ task = "none"
  /\ timer = FALSE
  /\ empty = TRUE
  /\ faults = 0

----------------------------------------------------------------------------
\* start() on the main queue: update() creates the first task ...

BootCreates ==
  /\ phase = "off"
  /\ phase' = "booting"
  /\ live' = TRUE
  /\ newTask' = "running"
  /\ UNCHANGED <<index, task, timer, empty, faults>>

\* ... and assigns it, which drops, and so terminates, the task it replaces.
\* Then start() sets the refresh timer.

BootAssigns ==
  /\ phase = "booting"
  /\ phase' = "up"
  /\ task' = newTask
  /\ newTask' = "none"
  /\ UNCHANGED <<live, index, timer, empty, faults>>

----------------------------------------------------------------------------
\* A new resolver, made on the node queue, in the place of the last one.

NewResolver ==
  /\ live' = TRUE
  /\ index' = 0
  /\ task' = "running"
  /\ timer' = FALSE

\* (Faulty variant: only if there is none.)

RefreshResolverOnce ==
  /\ phase = "up"
  /\ empty /\ ~live
  /\ NewResolver
  /\ UNCHANGED <<phase, newTask, empty, faults>>

\* The refresh timer; with peers in the table it sends keepalives instead.

RefreshResolver ==
  /\ phase = "up"
  /\ empty
  /\ NewResolver
  /\ UNCHANGED <<phase, newTask, empty, faults>>

\* terminate of the resolver, by way of PeerManager.terminate.

Terminated ==
  /\ live' = FALSE
  /\ task' = "none"
  /\ timer' = FALSE
  /\ UNCHANGED <<newTask, index>>

Fail ==
  /\ phase = "up" /\ faults < MaxFaults
  /\ phase' = "recovering"
  /\ faults' = faults + 1
  /\ empty' = TRUE
  /\ Terminated

Recover ==
  /\ phase = "recovering"
  /\ phase' = "up"
  /\ NewResolver
  /\ UNCHANGED <<newTask, empty, faults>>

Terminate ==
  /\ phase \in {"up", "recovering"}
  /\ phase' = "terminated"
  /\ empty' = TRUE
  /\ Terminated
  /\ UNCHANGED faults

\* The peers went silent and removeOfflinePeers dropped them.

PeersLost ==
  /\ ~empty
  /\ empty' = TRUE
  /\ UNCHANGED <<phase, newTask, live, index, task, timer, faults>>

----------------------------------------------------------------------------
\* The global queue: getaddrinfo returns, and the task posts its result.

Resolves(result) ==
  /\ \/ task = "running" /\ task' = result /\ UNCHANGED newTask
     \/ newTask = "running" /\ newTask' = result /\ UNCHANGED task
  /\ UNCHANGED <<phase, live, index, timer, empty, faults>>

\* The callback of a task that is in one of its two places.  The handler
\* empties the resolver's slot, whatever is in it.

Calls(result) ==
  \/ newTask = result /\ newTask' = "called"
  \/ task = result /\ UNCHANGED newTask

\* (Faulty variant: asks for the next host name, whether there is one or not.)

SucceedsUnchecked(result) ==
  /\ Calls(result)
  /\ empty' = (empty /\ result = "nothing")
  /\ index' = index + 1
  /\ task' = "running"
  /\ UNCHANGED <<phase, live, timer, faults>>

\* The success handler and the update() at its end.

Succeeds(result) ==
  /\ Calls(result)
  /\ empty' = (empty /\ result = "nothing")
  /\ index' = index + 1
  /\ IF index' = HostNum
       THEN live' = FALSE /\ task' = "none" /\ timer' = FALSE
       ELSE task' = "running" /\ UNCHANGED <<live, timer>>
  /\ UNCHANGED <<phase, faults>>

\* (Faulty variant: the error is logged, and that is all.)

ErrsSilently ==
  /\ Calls("failed")
  /\ task' = "none"
  /\ UNCHANGED <<phase, live, index, timer, empty, faults>>

\* The error handler.

Errs ==
  /\ Calls("failed")
  /\ task' = "none"
  /\ timer' = TRUE
  /\ UNCHANGED <<phase, live, index, empty, faults>>

\* The recovery timer: update(), which does nothing while there is a task.

TimerFires ==
  /\ timer
  /\ timer' = FALSE
  /\ task' = IF task = "none" THEN "running" ELSE task
  /\ UNCHANGED <<phase, newTask, live, index, empty, faults>>

----------------------------------------------------------------------------
ResolverNext ==
  \/ BootCreates \/ BootAssigns
  \/ RefreshResolver \/ Fail \/ Recover \/ Terminate \/ PeersLost
  \/ \E result \in Result : Resolves(result)
  \/ \E result \in {"found", "nothing"} : Succeeds(result)
  \/ Errs \/ TimerFires

ResolverSpec == ResolverInit /\ [][ResolverNext]_resolverVars

(***************************************************************************)
(* Fairness: the queues run, timers fire, getaddrinfo returns.  It does    *)
(* not fail for ever, and not every answer comes so late that a refresh    *)
(* has replaced the resolver, the refresh interval being a minute: hence   *)
(* the strong fairness.                                                    *)
(***************************************************************************)
ResolverFairSpec ==
  /\ ResolverSpec
  /\ WF_resolverVars(BootCreates) /\ WF_resolverVars(BootAssigns)
  /\ WF_resolverVars(RefreshResolver) /\ WF_resolverVars(Recover)
  /\ WF_resolverVars(\E result \in Result : Resolves(result)) /\ SF_resolverVars(Resolves("found"))
  /\ SF_resolverVars(Succeeds("found")) /\ WF_resolverVars(Succeeds("nothing"))
  /\ WF_resolverVars(Errs) /\ WF_resolverVars(TimerFires)

----------------------------------------------------------------------------
\* Types; the index never runs past the host names.

ResolverTypeOK ==
  /\ phase \in {"off", "booting", "up", "recovering", "terminated"}
  /\ newTask \in Tasks
  /\ live \in BOOLEAN
  /\ index \in 0..HostNum
  /\ task \in Tasks
  /\ timer \in BOOLEAN
  /\ empty \in BOOLEAN
  /\ faults \in 0..MaxFaults

(***************************************************************************)
(* A resolver that is not done has a task or a timer to go on with, and    *)
(* one that is done has neither.  The exception is the resolver of the     *)
(* boot: when its first task is assigned after it was called back, that    *)
(* task stays in the slot and nothing comes any more.                      *)
(***************************************************************************)
Overtaken == task = "called" \/ newTask = "called"

ResolverGoesOn ==
  /\ live => task \in Asking \/ newTask \in Asking \/ timer \/ Overtaken
  /\ ~live => task \in {"none", "called"} /\ newTask \notin Asking /\ ~timer

(***************************************************************************)
(* A node without peers finds some in the end, or is terminated, even when *)
(* its resolver stalled: the next refresh replaces it.                     *)
(***************************************************************************)
FindsPeers == (phase # "off" /\ empty) ~> (~empty \/ phase = "terminated")

============================================================================
