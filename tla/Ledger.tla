------------------------------- MODULE Ledger ------------------------------
(***************************************************************************)
(* RaiBlocksBasic/Ledger.swift: a bounded queue of blocks drained by a     *)
(* loop that gives the serial dispatch queue back after every block, stops *)
(* when the queue is empty or a transaction fails, and is started again by *)
(* the next push or by the recovery timer.  It runs on the database of     *)
(* module Storage, which it finds again after a crash; its own queue is    *)
(* lost with the process.                                                  *)
(*                                                                         *)
(* jobs is the serial dispatch queue.  Other threads put calls of push and *)
(* terminate on it (queue.sync), the ledger puts its own continuations     *)
(* there (queue.async).  A step runs one job to its end.                   *)
(***************************************************************************)
EXTENDS Storage, Naturals, Sequences

CONSTANTS
  BlockQueueSize,  \* Ledger.blockQueueSize
  Kind,            \* the kinds of blocks pushed
  Fatal,           \* those whose processing meets fatalError("TODO")
  MaxPushed,       \* bound: calls of push
  MaxErrors,       \* bound: transactions that fail
  MaxCrashes       \* bound: deaths of the process that are not fatalError's

ASSUME LedgerAssumption ==
  /\ BlockQueueSize \in Nat
  /\ Fatal \subseteq Kind
  /\ MaxPushed \in Nat /\ MaxErrors \in Nat /\ MaxCrashes \in Nat

\* A block is told from others by the number of the call that pushed it.

Block == [id : Nat \ {0}, kind : Kind]
Job == [do : {"push"}, block : Block] \cup [do : {"terminate", "schedule", "run"}]

VARIABLES
  blockQueue,     \* Ledger.blockQueue
  running,        \* Ledger.running
  recoveryTimer,  \* whether Ledger.recoveryTimer is set and has not fired
  jobs,           \* the jobs waiting on the dispatch queue
  processed,      \* history: ids of the blocks whose transaction succeeded
  pushed, errors, crashes   \* counted against the bounds

loopVars == <<blockQueue, running, recoveryTimer, jobs>>
vars == <<storageVars, loopVars, processed, pushed, errors, crashes>>

Schedule == [do |-> "schedule"]
Run == [do |-> "run"]

TypeOK ==
  /\ StorageTypeOK
  /\ blockQueue \in Seq(Block) /\ Len(blockQueue) <= BlockQueueSize
  /\ running \in BOOLEAN
  /\ recoveryTimer \in BOOLEAN
  /\ jobs \in Seq(Job)
  /\ processed \in Seq(Nat)
  /\ pushed \in Nat /\ errors \in Nat /\ crashes \in Nat

Init ==
  /\ StorageInit
  /\ blockQueue = <<>>
  /\ running = FALSE
  /\ recoveryTimer = FALSE
  /\ jobs = <<>>
  /\ processed = <<>>
  /\ pushed = 0 /\ errors = 0 /\ crashes = 0

----------------------------------------------------------------------------
\* Calls from other threads wait for their turn on the dispatch queue.

CallPush ==
  /\ phase = "up"
  /\ pushed < MaxPushed
  /\ pushed' = pushed + 1
  /\ \E k \in Kind :
       jobs' = Append(jobs, [do |-> "push", block |-> [id |-> pushed + 1, kind |-> k]])
  /\ UNCHANGED <<storageVars, blockQueue, running, recoveryTimer, processed, errors, crashes>>

CallTerminate ==
  /\ phase = "up"
  /\ \A i \in 1..Len(jobs) : jobs[i].do # "terminate"
  /\ jobs' = Append(jobs, [do |-> "terminate"])
  /\ UNCHANGED <<storageVars, blockQueue, running, recoveryTimer, processed,
                 pushed, errors, crashes>>

----------------------------------------------------------------------------
\* A job of kind what comes up; the rest of the queue is Tail(jobs).

Due(what) == jobs # <<>> /\ Head(jobs).do = what

\* push(block:): discard when full, else append and schedule a run.
\* (Faulty variant: the size test is off by one.)

PushOverfull ==
  /\ Due("push")
  /\ IF Len(blockQueue) > BlockQueueSize
       THEN jobs' = Tail(jobs) /\ UNCHANGED blockQueue
       ELSE /\ blockQueue' = Append(blockQueue, Head(jobs).block)
            /\ jobs' = Append(Tail(jobs), Schedule)
  /\ UNCHANGED <<storageVars, running, recoveryTimer, processed, pushed, errors, crashes>>

Push ==
  /\ Due("push")
  /\ IF Len(blockQueue) = BlockQueueSize
       THEN jobs' = Tail(jobs) /\ UNCHANGED blockQueue
       ELSE /\ blockQueue' = Append(blockQueue, Head(jobs).block)
            /\ jobs' = Append(Tail(jobs), Schedule)
  /\ UNCHANGED <<storageVars, running, recoveryTimer, processed, pushed, errors, crashes>>

\* terminate(): discard the blocks and cancel the timer.

Terminate ==
  /\ Due("terminate")
  /\ jobs' = Tail(jobs)
  /\ blockQueue' = <<>>
  /\ recoveryTimer' = FALSE
  /\ UNCHANGED <<storageVars, running, processed, pushed, errors, crashes>>

(***************************************************************************)
(* run(), reached from the job at the head of the queue: cancel the timer; *)
(* with no block left, stop.                                               *)
(***************************************************************************)
RunStops ==
  /\ blockQueue = <<>>
  /\ jobs' = Tail(jobs)
  /\ running' = FALSE
  /\ recoveryTimer' = FALSE
  /\ UNCHANGED <<blockQueue, processed, errors, storageVars, crashes>>

\* The first block's transaction succeeds, and the next run is queued.

RunProcesses ==
  /\ blockQueue # <<>>
  /\ Head(blockQueue).kind \notin Fatal
  /\ blockQueue' = Tail(blockQueue)
  /\ processed' = Append(processed, Head(blockQueue).id)
  /\ jobs' = Append(Tail(jobs), Run)
  /\ running' = TRUE
  /\ recoveryTimer' = FALSE
  /\ UNCHANGED <<errors, storageVars, crashes>>

(***************************************************************************)
(* The transaction throws: the block goes back to the front of the queue   *)
(* and the loop stops until the timer, or a push, starts it again.         *)
(* (Faulty variants: the block goes back behind the others; no timer.)     *)
(***************************************************************************)
RunFailsToBack ==
  /\ blockQueue # <<>>
  /\ errors < MaxErrors
  /\ errors' = errors + 1
  /\ blockQueue' = Append(Tail(blockQueue), Head(blockQueue))
  /\ jobs' = Tail(jobs)
  /\ running' = FALSE
  /\ recoveryTimer' = TRUE
  /\ UNCHANGED <<processed, storageVars, crashes>>

RunFailsSilently ==
  /\ blockQueue # <<>>
  /\ errors < MaxErrors
  /\ errors' = errors + 1
  /\ jobs' = Tail(jobs)
  /\ running' = FALSE
  /\ recoveryTimer' = FALSE
  /\ UNCHANGED <<blockQueue, processed, storageVars, crashes>>

RunFails ==
  /\ blockQueue # <<>>
  /\ errors < MaxErrors
  /\ errors' = errors + 1
  /\ jobs' = Tail(jobs)
  /\ running' = FALSE
  /\ recoveryTimer' = TRUE
  /\ UNCHANGED <<blockQueue, processed, storageVars, crashes>>

\* The process is gone, and with it everything in memory.

LoseMemory ==
  /\ Die
  /\ blockQueue' = <<>>
  /\ running' = FALSE
  /\ recoveryTimer' = FALSE
  /\ jobs' = <<>>

\* process(sendBlock:) finds the previous block, which it cannot handle yet.

RunHitsTodo ==
  /\ blockQueue # <<>>
  /\ Head(blockQueue).kind \in Fatal
  /\ LoseMemory
  /\ UNCHANGED <<processed, errors, crashes>>

RunBody == RunStops \/ RunProcesses \/ RunFails \/ RunHitsTodo

\* The job of scheduleRun() does nothing while the loop is running.
\* (Faulty variant: it always starts one.)

ScheduledAlways == Due("schedule") /\ RunBody /\ UNCHANGED pushed

Scheduled ==
  /\ Due("schedule")
  /\ IF running
       THEN /\ jobs' = Tail(jobs)
            /\ UNCHANGED <<storageVars, blockQueue, running, recoveryTimer,
                           processed, errors, crashes>>
       ELSE RunBody
  /\ UNCHANGED pushed

Continue == Due("run") /\ RunBody /\ UNCHANGED pushed

TimerFires ==
  /\ recoveryTimer
  /\ recoveryTimer' = FALSE
  /\ jobs' = Append(jobs, Schedule)
  /\ UNCHANGED <<storageVars, blockQueue, running, processed, pushed, errors, crashes>>

Starts == Startup /\ UNCHANGED <<loopVars, processed, pushed, errors, crashes>>

Crash ==
  /\ phase # "down"
  /\ crashes < MaxCrashes
  /\ crashes' = crashes + 1
  /\ LoseMemory
  /\ UNCHANGED <<processed, pushed, errors>>

RunJob == Push \/ Terminate \/ Scheduled \/ Continue

Next ==
  \/ Starts
  \/ Crash
  \/ CallPush
  \/ CallTerminate
  \/ Push
  \/ Terminate
  \/ Scheduled
  \/ Continue
  \/ TimerFires

\* The dispatch queue runs its jobs, and a timer that is set fires.

Spec == Init /\ [][Next]_vars
FairSpec == Spec /\ WF_vars(RunJob) /\ WF_vars(TimerFires)

----------------------------------------------------------------------------
(***************************************************************************)
(* The committed database is never half made, whenever the process died: a *)
(* network's tables and genesis records come all together, it belongs to   *)
(* one network for ever, and a ledger that is up finds them.               *)
(***************************************************************************)
StorageSound ==
  /\ db.info = None => db = EmptyDatabase
  /\ db.info # None => /\ db.tables = Table
                       /\ db.genesisBlocks = db.genesisAccounts
                       /\ db.genesisBlocks \subseteq {db.info}
  /\ phase = "up" => db.info = network /\ db.genesisBlocks = {network}

(***************************************************************************)
(* At most one run loop is alive: running is set exactly when one          *)
(* continuation is on the dispatch queue.  Two loops would break the       *)
(* one-at-a-time order of the blocks.                                      *)
(***************************************************************************)
OneRunLoop ==
  /\ running => \E i \in 1..Len(jobs) : jobs[i] = Run
  /\ \A i, j \in 1..Len(jobs) : jobs[i] = Run /\ jobs[j] = Run => running /\ i = j

(***************************************************************************)
(* Blocks never wait with nobody to take them: while the queue is not      *)
(* empty a run is queued, scheduled, or due when the timer fires.          *)
(***************************************************************************)
NoLostWakeup ==
  blockQueue # <<>> =>
    recoveryTimer \/ \E i \in 1..Len(jobs) : jobs[i] \in {Run, Schedule}

(***************************************************************************)
(* Each block is processed at most once and in the order of the pushes,    *)
(* retries included, until the process dies.                               *)
(***************************************************************************)
InOrder ==
  /\ \A i, j \in 1..Len(processed) : i < j => processed[i] < processed[j]
  /\ \A i, j \in 1..Len(blockQueue) : i < j => blockQueue[i].id < blockQueue[j].id
  /\ \A i \in 1..Len(processed), j \in 1..Len(blockQueue) : processed[i] < blockQueue[j].id

(***************************************************************************)
(* The queue drains: what is in it gets processed, or is discarded by      *)
(* terminate() or with the process, if transactions fail only finitely     *)
(* often.                                                                  *)
(***************************************************************************)
Drains == blockQueue # <<>> ~> blockQueue = <<>>

============================================================================
