---------------------------- MODULE LedgerProofs ---------------------------
(***************************************************************************)
(* Proofs about the ledger's run loop and its database, for every queue    *)
(* size, every set of networks and kinds of block, and any number of       *)
(* pushes, failed transactions and crashes.                                *)
(***************************************************************************)
EXTENDS Ledger, TLAPS

(***************************************************************************)
(* What the start of the process knows at each statement: StorageSound     *)
(* speaks of committed states, and holds only because the working copy of  *)
(* each transaction is known.                                              *)
(***************************************************************************)
StartupInv ==
  /\ phase # "down" => network \in Network
  /\ phase \in {"down", "migrate", "genesisBlock", "up"} => txn = db
  /\ phase \in {"createBlocks", "createAccounts"} =>
       /\ db.info = None
       /\ txn.info = network /\ txn.genesisBlocks = {} /\ txn.genesisAccounts = {}
  /\ phase = "createAccounts" => txn.tables = {"blocks"}
  /\ phase = "createBlocks" => txn.tables = {}
  /\ phase \in {"genesisBlock", "genesisAccount"} => db.info = network
  /\ phase = "genesisAccount" =>
       /\ txn.info = network /\ txn.tables = Table
       /\ txn.genesisBlocks = {network} /\ txn.genesisAccounts = db.genesisAccounts
  /\ phase # "up" => jobs = <<>> /\ blockQueue = <<>> /\ ~recoveryTimer

(***************************************************************************)
(* Pushes that wait on the dispatch queue come after all that was accepted *)
(* before them.                                                            *)
(***************************************************************************)
PushesAhead ==
  /\ \A i \in 1..Len(processed) : processed[i] <= pushed
  /\ \A i \in 1..Len(blockQueue) : blockQueue[i].id <= pushed
  /\ \A i \in 1..Len(jobs) : jobs[i].do = "push" =>
       /\ jobs[i].block.id <= pushed
       /\ \A k \in 1..Len(processed) : processed[k] < jobs[i].block.id
       /\ \A k \in 1..Len(blockQueue) : blockQueue[k].id < jobs[i].block.id
       /\ \A k \in 1..Len(jobs) : jobs[k].do = "push" /\ i < k =>
            jobs[i].block.id < jobs[k].block.id

QueueInv == OneRunLoop /\ NoLostWakeup
OrderInv == InOrder /\ PushesAhead
IInv == TypeOK /\ StorageSound /\ StartupInv /\ QueueInv /\ OrderInv

----------------------------------------------------------------------------
\* Append leaves every element in its place and adds one at the end.

LEMMA AppendElements ==
  ASSUME NEW S, NEW s \in Seq(S), NEW e \in S
  PROVE  /\ Append(s, e) \in Seq(S)
         /\ Len(Append(s, e)) = Len(s) + 1
         /\ \A i \in 1..Len(s) : Append(s, e)[i] = s[i]
         /\ Append(s, e)[Len(s) + 1] = e
OBVIOUS

\* Tail moves every element one place to the front.

LEMMA TailElements ==
  ASSUME NEW S, NEW s \in Seq(S), s # <<>>
  PROVE  /\ Tail(s) \in Seq(S)
         /\ Len(Tail(s)) = Len(s) - 1
         /\ Len(s) \in Nat /\ Len(s) >= 1
         /\ \A i \in 1..(Len(s) - 1) : Tail(s)[i] = s[i + 1]
         /\ Head(s) = s[1] /\ Head(s) \in S
OBVIOUS

\* The ledger's own jobs, and a call of terminate, are jobs.

LEMMA OwnJobs == Schedule \in Job /\ Run \in Job /\ [do |-> "terminate"] \in Job
BY DEF Schedule, Run, Job

\* A handler of the run loop, by what happens to its first block.

LEMMA RunBodyType ==
  ASSUME TypeOK, jobs # <<>>, RunBody, pushed' = pushed
  PROVE  TypeOK'
<1>1. Tail(jobs) \in Seq(Job) /\ Append(Tail(jobs), Run) \in Seq(Job)
  BY TailElements, AppendElements, OwnJobs DEF TypeOK
<1>2. ASSUME blockQueue # <<>>
      PROVE  /\ Tail(blockQueue) \in Seq(Block)
             /\ Len(Tail(blockQueue)) <= BlockQueueSize
             /\ Head(blockQueue).id \in Nat
  <2>1. /\ Tail(blockQueue) \in Seq(Block) /\ Head(blockQueue) \in Block
        /\ Len(Tail(blockQueue)) = Len(blockQueue) - 1
    BY <1>2, TailElements DEF TypeOK
  <2>2. Len(blockQueue) \in Nat /\ Len(blockQueue) <= BlockQueueSize
    BY DEF TypeOK
  <2> QED
    BY <2>1, <2>2, LedgerAssumption DEF Block
<1>3. CASE RunStops
  BY <1>1, <1>3 DEF RunStops, TypeOK, StorageTypeOK, storageVars
<1>4. CASE RunProcesses
  <2>1. processed' \in Seq(Nat)
    BY <1>2, <1>4, AppendElements DEF RunProcesses, TypeOK
  <2> QED
    BY <1>1, <1>2, <1>4, <2>1 DEF RunProcesses, TypeOK, StorageTypeOK, storageVars
<1>5. CASE RunFails
  <2>1. StorageTypeOK' /\ errors' \in Nat
    BY <1>5 DEF RunFails, TypeOK, StorageTypeOK, storageVars
  <2> QED
    BY <1>1, <1>5, <2>1 DEF RunFails, TypeOK
<1>6. CASE RunHitsTodo
  <2>1. blockQueue' \in Seq(Block) /\ Len(blockQueue') <= BlockQueueSize /\ jobs' \in Seq(Job)
    BY <1>6, LedgerAssumption DEF RunHitsTodo, LoseMemory
  <2> QED
    BY <1>6, <2>1 DEF RunHitsTodo, LoseMemory, Die, TypeOK, StorageTypeOK
<1> QED
  BY <1>3, <1>4, <1>5, <1>6 DEF RunBody

----------------------------------------------------------------------------
(*                    The start of the process                             *)

StorageInv == StorageTypeOK /\ StorageSound /\ StartupInv

NothingQueued == jobs = <<>> /\ blockQueue = <<>> /\ ~recoveryTimer

\* Dying keeps the committed database, which is sound at any time.

LEMMA DieKeepsStorage ==
  ASSUME StorageInv, Die, NothingQueued'
  PROVE  StorageInv'
BY DEF StorageInv, StorageTypeOK, StorageSound, StartupInv, Die, NothingQueued

\* Every statement of the start keeps what is known of the database.

LEMMA StartupKeepsStorage ==
  ASSUME StorageInv, Startup, UNCHANGED loopVars
  PROVE  StorageInv'
<1>1. phase # "up" /\ NothingQueued /\ NothingQueued'
  BY DEF Startup, StartProcess, Migrate, CreateBlocks, CreateAccounts,
     RegisterBlock, RegisterAccount, StorageInv, StartupInv, NothingQueued, loopVars
<1>2. CASE StartProcess
  BY <1>1, <1>2 DEF StartProcess, StorageInv, StorageTypeOK, StorageSound, StartupInv,
     Starting, NothingQueued
<1>3. CASE Migrate
  <2>1. network \in Network /\ network # None /\ phase = "migrate" /\ txn = db
    BY <1>3, NetworkAssumption DEF Migrate, StorageInv, StartupInv
  <2>2. CASE txn.info = None
    <3>1. db = EmptyDatabase /\ db' = db /\ phase' = "createBlocks"
          /\ txn' = [txn EXCEPT !.info = network] /\ network' = network
      BY <1>3, <2>1, <2>2, NetworkAssumption
      DEF Migrate, Statement, StorageInv, StorageSound
    <3>2. /\ txn'.info = network /\ txn'.tables = {} /\ txn' \in Database
          /\ txn'.genesisBlocks = {} /\ txn'.genesisAccounts = {}
      BY <2>1, <3>1 DEF EmptyDatabase, Database
    <3> QED
      BY <1>1, <2>1, <2>2, <3>1, <3>2
      DEF StorageInv, StorageTypeOK, StorageSound, StartupInv, Starting, NothingQueued
  <2>3. CASE txn.info = network
    <3>1. phase' = "genesisBlock" /\ UNCHANGED <<network, db, txn>>
      BY <1>3, <2>1, <2>3, NetworkAssumption DEF Migrate, Commit
    <3> QED
      BY <1>1, <2>1, <2>3, <3>1
      DEF StorageInv, StorageTypeOK, StorageSound, StartupInv, Starting, NothingQueued
  <2>4. CASE txn.info \notin {None, network}
    BY <1>1, <1>3, <2>4, DieKeepsStorage DEF Migrate
  <2> QED
    BY <2>2, <2>3, <2>4
<1>4. CASE CreateBlocks
  <2>1. /\ network \in Network /\ db.info = None /\ txn \in Database
        /\ txn.info = network /\ txn.tables = {}
        /\ txn.genesisBlocks = {} /\ txn.genesisAccounts = {}
    BY <1>4 DEF CreateBlocks, StorageInv, StartupInv, StorageTypeOK
  <2>2. /\ txn' = [txn EXCEPT !.tables = @ \cup {"blocks"}]
        /\ UNCHANGED <<network, db>> /\ phase' = "createAccounts"
    BY <1>4 DEF CreateBlocks, Statement
  <2>3. /\ txn' \in Database /\ txn'.info = network /\ txn'.tables = {"blocks"}
        /\ txn'.genesisBlocks = {} /\ txn'.genesisAccounts = {}
    BY <2>1, <2>2 DEF Database, Table
  <2> QED
    BY <1>1, <2>1, <2>2, <2>3
    DEF StorageInv, StorageTypeOK, StorageSound, StartupInv, Starting, NothingQueued
<1>5. CASE CreateAccounts
  <2>1. /\ network \in Network /\ txn \in Database
        /\ txn.info = network /\ txn.tables = {"blocks"}
        /\ txn.genesisBlocks = {} /\ txn.genesisAccounts = {}
    BY <1>5 DEF CreateAccounts, StorageInv, StartupInv, StorageTypeOK
  <2>2. /\ txn' = [txn EXCEPT !.tables = @ \cup {"accounts"}] /\ db' = txn'
        /\ UNCHANGED network /\ phase' = "genesisBlock"
    BY <1>5 DEF CreateAccounts, Commit
  <2>3. /\ txn' \in Database /\ txn'.info = network /\ txn'.tables = Table
        /\ txn'.genesisBlocks = {} /\ txn'.genesisAccounts = {}
    BY <2>1, <2>2 DEF Database, Table
  <2> QED
    BY <1>1, <2>1, <2>2, <2>3, NetworkAssumption
    DEF StorageInv, StorageTypeOK, StorageSound, StartupInv, Starting, NothingQueued
<1>6. CASE RegisterBlock
  <2>1. /\ network \in Network /\ db.info = network /\ txn = db /\ db \in Database
        /\ db.tables = Table /\ db.genesisBlocks = db.genesisAccounts
        /\ db.genesisBlocks \subseteq {network}
    BY <1>6, NetworkAssumption
    DEF RegisterBlock, StorageInv, StorageSound, StartupInv, StorageTypeOK
  <2>2. /\ txn' = [txn EXCEPT !.genesisBlocks = @ \cup {network}]
        /\ UNCHANGED <<network, db>> /\ phase' = "genesisAccount"
    BY <1>6, <2>1 DEF RegisterBlock, Statement, Table
  <2>3. /\ txn' \in Database /\ txn'.info = network /\ txn'.tables = Table
        /\ txn'.genesisBlocks = {network} /\ txn'.genesisAccounts = db.genesisAccounts
    BY <2>1, <2>2 DEF Database
  <2> QED
    BY <1>1, <2>1, <2>2, <2>3, NetworkAssumption
    DEF StorageInv, StorageTypeOK, StorageSound, StartupInv, Starting, NothingQueued
<1>7. CASE RegisterAccount
  <2>1. /\ network \in Network /\ db.info = network /\ txn \in Database
        /\ txn.info = network /\ txn.tables = Table
        /\ txn.genesisBlocks = {network} /\ txn.genesisAccounts = db.genesisAccounts
        /\ db.genesisAccounts \subseteq {network}
    BY <1>7, NetworkAssumption
    DEF RegisterAccount, StorageInv, StorageSound, StartupInv, StorageTypeOK
  <2>2. /\ txn' = [txn EXCEPT !.genesisAccounts = @ \cup {network}] /\ db' = txn'
        /\ UNCHANGED network /\ phase' = "up"
    BY <1>7, <2>1 DEF RegisterAccount, Commit, Table
  <2>3. /\ txn' \in Database /\ txn'.info = network /\ txn'.tables = Table
        /\ txn'.genesisBlocks = {network} /\ txn'.genesisAccounts = {network}
    BY <2>1, <2>2 DEF Database
  <2> QED
    BY <1>1, <2>1, <2>2, <2>3, NetworkAssumption
    DEF StorageInv, StorageTypeOK, StorageSound, StartupInv, Starting, NothingQueued
<1> QED
  BY <1>2, <1>3, <1>4, <1>5, <1>6, <1>7 DEF Startup

\* While the ledger is up its handlers leave the storage alone, or die.

LEMMA StorageUntouched ==
  ASSUME StorageInv, phase = "up", UNCHANGED storageVars
  PROVE  StorageInv'
BY DEF StorageInv, StorageTypeOK, StorageSound, StartupInv, storageVars

\* Jobs and timers exist only in a ledger whose init returned.

LEMMA UpIfQueued == StorageInv /\ (jobs # <<>> \/ recoveryTimer) => phase = "up"
BY DEF StorageInv, StartupInv

\* run() leaves the storage alone, or ends the process.

LEMMA RunBodyKeepsStorage ==
  ASSUME StorageInv, phase = "up", RunBody
  PROVE  StorageInv'
<1>1. CASE RunHitsTodo
  BY <1>1, DieKeepsStorage DEF RunHitsTodo, LoseMemory, NothingQueued
<1>2. CASE RunStops \/ RunProcesses \/ RunFails
  BY <1>2, StorageUntouched DEF RunStops, RunProcesses, RunFails
<1> QED
  BY <1>1, <1>2 DEF RunBody

\* Every step keeps what is known of the database.

LEMMA StepStorage ==
  ASSUME TypeOK, StorageInv, [Next]_vars
  PROVE  StorageInv'
<1>1. CASE Starts
  BY <1>1, StartupKeepsStorage DEF Starts
<1>2. CASE Crash
  BY <1>2, DieKeepsStorage DEF Crash, LoseMemory, NothingQueued
<1>3. CASE CallPush \/ CallTerminate
  BY <1>3, StorageUntouched DEF CallPush, CallTerminate
<1>4. CASE Push \/ Terminate
  BY <1>4, StorageUntouched, UpIfQueued DEF Push, Terminate, Due
<1>5. CASE Scheduled \/ Continue
  <2>1. phase = "up"
    BY <1>5, UpIfQueued DEF Scheduled, Continue, Due
  <2>2. RunBody \/ UNCHANGED storageVars
    BY <1>5 DEF Scheduled, Continue
  <2> QED
    BY <2>1, <2>2, StorageUntouched, RunBodyKeepsStorage
<1>6. CASE TimerFires
  BY <1>6, StorageUntouched, UpIfQueued DEF TimerFires
<1>7. CASE UNCHANGED vars
  BY <1>7 DEF vars, storageVars, loopVars, StorageInv, StorageTypeOK, StorageSound, StartupInv
<1> QED
  BY <1>1, <1>2, <1>3, <1>4, <1>5, <1>6, <1>7 DEF Next

----------------------------------------------------------------------------
\* Every step keeps the types.

LEMMA StepType ==
  ASSUME TypeOK, StorageInv, [Next]_vars
  PROVE  TypeOK'
<1>0. StorageTypeOK'
  BY StepStorage DEF StorageInv
<1>1. CASE Starts
  BY <1>0, <1>1 DEF Starts, loopVars, TypeOK
<1>2. CASE Crash
  <2>1. blockQueue' \in Seq(Block) /\ Len(blockQueue') <= BlockQueueSize /\ jobs' \in Seq(Job)
    BY <1>2, LedgerAssumption DEF Crash, LoseMemory
  <2>2. running' = FALSE /\ recoveryTimer' = FALSE
    BY <1>2 DEF Crash, LoseMemory
  <2>3. /\ processed' = processed /\ pushed' = pushed /\ errors' = errors
        /\ crashes' = crashes + 1
    BY <1>2 DEF Crash
  <2>4. processed' \in Seq(Nat)
    BY <2>3 DEF TypeOK
  <2>5. pushed' \in Nat /\ errors' \in Nat
    BY <2>3 DEF TypeOK
  <2>6. crashes' \in Nat
    BY <2>3 DEF TypeOK
  <2>7. running' \in BOOLEAN /\ recoveryTimer' \in BOOLEAN
    BY <2>2
  <2> QED
    BY <1>0, <2>1, <2>4, <2>5, <2>6, <2>7 DEF TypeOK
<1>3. CASE CallPush
  <2>1. PICK k \in Kind :
          jobs' = Append(jobs, [do |-> "push", block |-> [id |-> pushed + 1, kind |-> k]])
    BY <1>3 DEF CallPush
  <2>2. [do |-> "push", block |-> [id |-> pushed + 1, kind |-> k]] \in Job
    <3>1. [id |-> pushed + 1, kind |-> k] \in Block
      BY DEF TypeOK, Block
    <3> QED
      BY <3>1 DEF Job
  <2>3. jobs' \in Seq(Job)
    BY <2>1, <2>2, AppendElements DEF TypeOK
  <2> QED
    BY <1>0, <1>3, <2>3 DEF CallPush, TypeOK
<1>4. CASE CallTerminate
  <2>1. jobs' \in Seq(Job)
    BY <1>4, OwnJobs, AppendElements DEF CallTerminate, TypeOK
  <2> QED
    BY <1>0, <1>4, <2>1 DEF CallTerminate, TypeOK
<1>5. CASE Push
  <2>1. Head(jobs) \in Job /\ Tail(jobs) \in Seq(Job) /\ Head(jobs).do = "push"
    BY <1>5, TailElements DEF Push, Due, TypeOK
  <2>2. Head(jobs).block \in Block
    BY <2>1 DEF Job
  <2>3. Append(Tail(jobs), Schedule) \in Seq(Job)
    BY <2>1, OwnJobs, AppendElements
  <2>4. jobs' \in Seq(Job)
    BY <1>5, <2>1, <2>3 DEF Push
  <2>5. blockQueue' \in Seq(Block) /\ Len(blockQueue') <= BlockQueueSize
    <3>1. CASE Len(blockQueue) = BlockQueueSize
      BY <1>5, <3>1 DEF Push, TypeOK
    <3>2. CASE Len(blockQueue) # BlockQueueSize
      <4>1. blockQueue' = Append(blockQueue, Head(jobs).block)
        BY <1>5, <3>2 DEF Push
      <4>2. Len(blockQueue) \in Nat /\ Len(blockQueue) < BlockQueueSize
        BY <3>2, LedgerAssumption DEF TypeOK
      <4> QED
        BY <2>2, <4>1, <4>2, AppendElements, LedgerAssumption DEF TypeOK
    <3> QED
      BY <3>1, <3>2
  <2> QED
    BY <1>0, <1>5, <2>4, <2>5 DEF Push, TypeOK
<1>6. CASE Terminate
  <2>1. jobs' \in Seq(Job)
    BY <1>6, TailElements DEF Terminate, Due, TypeOK
  <2>2. blockQueue' \in Seq(Block) /\ Len(blockQueue') <= BlockQueueSize
    BY <1>6, LedgerAssumption DEF Terminate
  <2> QED
    BY <1>0, <1>6, <2>1, <2>2 DEF Terminate, TypeOK
<1>7. CASE Scheduled
  <2>1. CASE running
    <3>1. jobs' \in Seq(Job)
      BY <1>7, <2>1, TailElements DEF Scheduled, Due, TypeOK
    <3> QED
      BY <1>0, <1>7, <2>1, <3>1 DEF Scheduled, TypeOK
  <2>2. CASE ~running
    BY <1>7, <2>2, RunBodyType DEF Scheduled, Due
  <2> QED
    BY <2>1, <2>2
<1>8. CASE Continue
  BY <1>8, RunBodyType DEF Continue, Due
<1>9. CASE TimerFires
  <2>1. jobs' \in Seq(Job)
    BY <1>9, OwnJobs, AppendElements DEF TimerFires, TypeOK
  <2> QED
    BY <1>0, <1>9, <2>1 DEF TimerFires, TypeOK
<1>10. CASE UNCHANGED vars
  BY <1>0, <1>10 DEF vars, loopVars, TypeOK
<1> QED
  BY <1>1, <1>2, <1>3, <1>4, <1>5, <1>6, <1>7, <1>8, <1>9, <1>10 DEF Next

----------------------------------------------------------------------------
(*                          The run loop                                   *)

\* No other job looks like Run.

LEMMA NotRun ==
  /\ Schedule # Run
  /\ [do |-> "terminate"] # Run
  /\ \A b : [do |-> "push", block |-> b] # Run
  /\ Run.do = "run" /\ Schedule.do = "schedule"
BY DEF Schedule, Run

\* An added job other than Run changes neither part of the invariant.

LEMMA AppendKeepsLoop ==
  ASSUME TypeOK, QueueInv, NEW e \in Job, e # Run,
         jobs' = Append(jobs, e), UNCHANGED <<blockQueue, running, recoveryTimer>>
  PROVE  QueueInv'
<1>1. /\ Len(jobs) \in Nat /\ Len(jobs') = Len(jobs) + 1
      /\ \A i \in 1..Len(jobs) : jobs'[i] = jobs[i]
      /\ jobs'[Len(jobs) + 1] = e
  BY AppendElements DEF TypeOK
<1>2. \A i \in 1..Len(jobs') : i \in 1..Len(jobs) \/ i = Len(jobs) + 1
  BY <1>1
<1>3. \A i \in 1..Len(jobs) : i \in 1..Len(jobs')
  BY <1>1
<1>4. OneRunLoop'
  BY <1>1, <1>2, <1>3 DEF QueueInv, OneRunLoop
<1>5. NoLostWakeup'
  BY <1>1, <1>3 DEF QueueInv, NoLostWakeup
<1> QED
  BY <1>4, <1>5 DEF QueueInv

\* A job other than Run is taken away, perhaps with a replacement behind.

LEMMA TakeKeepsOneLoop ==
  ASSUME TypeOK, OneRunLoop, jobs # <<>>, Head(jobs) # Run,
         jobs' = Tail(jobs) \/ \E e \in Job : e # Run /\ jobs' = Append(Tail(jobs), e),
         UNCHANGED running
  PROVE  OneRunLoop'
<1> DEFINE n == Len(jobs)
           t == Tail(jobs)
           m == Len(jobs')
<1>1. /\ n \in Nat /\ n >= 1 /\ jobs[1] # Run
      /\ t \in Seq(Job) /\ Len(t) = n - 1
      /\ \A i \in 1..(n - 1) : t[i] = jobs[i + 1]
  BY TailElements DEF TypeOK
<1>2. jobs' = t \/ \E e \in Job : e # Run /\ jobs' = Append(t, e)
  OBVIOUS
<1>3. OneRunLoop' <=>
        /\ running => \E i \in 1..m : jobs'[i] = Run
        /\ \A i, j \in 1..m : jobs'[i] = Run /\ jobs'[j] = Run => running /\ i = j
  BY DEF OneRunLoop
<1>4. /\ running => \E i \in 1..n : jobs[i] = Run
      /\ \A i, j \in 1..n : jobs[i] = Run /\ jobs[j] = Run => running /\ i = j
  BY DEF OneRunLoop
<1>5. m = Len(jobs')
  OBVIOUS
<1> HIDE DEF n, t, m
<1>6. /\ m = n - 1 \/ m = n
      /\ \A i \in 1..(n - 1) : jobs'[i] = jobs[i + 1]
      /\ m = n => jobs'[n] # Run
  <2>1. CASE jobs' = t
    <3>1. m = n - 1 /\ m # n
      BY <1>1, <1>5, <2>1
    <3> QED
      BY <1>1, <2>1, <3>1
  <2>2. CASE \E e \in Job : e # Run /\ jobs' = Append(t, e)
    <3>1. PICK e \in Job : e # Run /\ jobs' = Append(t, e)
      BY <2>2
    <3>2. /\ m = Len(t) + 1
          /\ \A i \in 1..Len(t) : jobs'[i] = t[i]
          /\ jobs'[Len(t) + 1] = e
      BY <1>1, <1>5, <3>1, AppendElements
    <3>3. Len(t) + 1 = n
      BY <1>1
    <3> QED
      BY <1>1, <3>1, <3>2, <3>3
  <2> QED
    BY <1>2, <2>1, <2>2
<1>7. \A i \in 1..m : jobs'[i] = Run => i + 1 \in 1..n /\ jobs[i + 1] = Run
  BY <1>1, <1>6
<1>8. ASSUME NEW i \in 1..n, jobs[i] = Run
      PROVE  \E j \in 1..m : jobs'[j] = Run
  <2>1. i # 1 /\ i - 1 \in 1..(n - 1) /\ (i - 1) + 1 = i /\ i - 1 \in 1..m
    BY <1>1, <1>6, <1>8
  <2>2. jobs'[i - 1] = jobs[(i - 1) + 1]
    BY <1>6, <2>1
  <2> QED
    BY <1>8, <2>1, <2>2
<1>9. ASSUME NEW i \in 1..m, NEW j \in 1..m, jobs'[i] = Run, jobs'[j] = Run
      PROVE  running /\ i = j
  <2>1. running /\ i + 1 = j + 1
    BY <1>4, <1>7, <1>9
  <2> QED
    BY <2>1
<1> QED
  BY <1>3, <1>4, <1>8, <1>9

\* run() either puts the one continuation back or leaves none.

LEMMA RunBodyKeepsLoop ==
  ASSUME TypeOK, QueueInv, jobs # <<>>, Head(jobs) = Run \/ ~running, RunBody
  PROVE  QueueInv'
<1>1. /\ Len(jobs) \in Nat /\ Len(jobs) >= 1 /\ Head(jobs) = jobs[1]
      /\ Tail(jobs) \in Seq(Job) /\ Len(Tail(jobs)) = Len(jobs) - 1
      /\ \A i \in 1..(Len(jobs) - 1) : Tail(jobs)[i] = jobs[i + 1]
  BY TailElements DEF TypeOK
<1>2. \A i \in 1..(Len(jobs) - 1) : Tail(jobs)[i] # Run
  <2>1. SUFFICES ASSUME NEW i \in 1..(Len(jobs) - 1), Tail(jobs)[i] = Run
                 PROVE  FALSE
    OBVIOUS
  <2>2. /\ i + 1 \in 1..Len(jobs) /\ jobs[i + 1] = Run
        /\ 1 \in 1..Len(jobs) /\ 1 # i + 1
    BY <1>1, <2>1
  <2> QED
    BY <1>1, <2>2 DEF QueueInv, OneRunLoop
<1>3. CASE RunStops \/ RunFails
  <2>1. /\ jobs' = Tail(jobs) /\ running' = FALSE
        /\ blockQueue' = <<>> \/ recoveryTimer'
    BY <1>3 DEF RunStops, RunFails
  <2> QED
    BY <1>1, <1>2, <2>1 DEF QueueInv, OneRunLoop, NoLostWakeup
<1>4. CASE RunProcesses
  <2>1. jobs' = Append(Tail(jobs), Run) /\ running' = TRUE
    BY <1>4 DEF RunProcesses
  <2> DEFINE n == Len(jobs)
             t == Tail(jobs)
             m == Len(jobs')
  <2>2. n \in Nat /\ n >= 1 /\ t \in Seq(Job) /\ Len(t) = n - 1 /\ jobs' = Append(t, Run)
    BY <1>1, <2>1
  <2>3. \A i \in 1..(n - 1) : t[i] # Run
    BY <1>2
  <2>4. OneRunLoop' /\ NoLostWakeup' <=>
          /\ running' => \E i \in 1..m : jobs'[i] = Run
          /\ \A i, j \in 1..m : jobs'[i] = Run /\ jobs'[j] = Run => running' /\ i = j
          /\ blockQueue' # <<>> =>
               recoveryTimer' \/ \E i \in 1..m : jobs'[i] \in {Run, Schedule}
    BY DEF OneRunLoop, NoLostWakeup
  <2>5. m = Len(jobs')
    OBVIOUS
  <2> HIDE DEF n, t, m
  <2>6. /\ m = Len(t) + 1
        /\ \A i \in 1..Len(t) : jobs'[i] = t[i]
        /\ jobs'[Len(t) + 1] = Run
    BY <2>2, <2>5, OwnJobs, AppendElements
  <2>7. m = n /\ jobs'[n] = Run /\ \A i \in 1..(n - 1) : jobs'[i] # Run
    BY <2>2, <2>3, <2>6
  <2>8. n \in 1..m /\ \A i \in 1..m : i = n \/ i \in 1..(n - 1)
    BY <2>2, <2>7
  <2> QED
    BY <2>1, <2>4, <2>7, <2>8 DEF QueueInv
<1>5. CASE RunHitsTodo
  BY <1>5 DEF RunHitsTodo, LoseMemory, QueueInv, OneRunLoop, NoLostWakeup
<1> QED
  BY <1>3, <1>4, <1>5 DEF RunBody

\* Every step keeps the run loop single and awake.

LEMMA StepLoop ==
  ASSUME TypeOK, StorageInv, QueueInv, [Next]_vars
  PROVE  QueueInv'
<1>1. CASE Starts
  BY <1>1 DEF Starts, loopVars, QueueInv, OneRunLoop, NoLostWakeup
<1>2. CASE Crash
  BY <1>2 DEF Crash, LoseMemory, QueueInv, OneRunLoop, NoLostWakeup
<1>3. CASE CallPush
  <2>1. PICK k \in Kind :
          jobs' = Append(jobs, [do |-> "push", block |-> [id |-> pushed + 1, kind |-> k]])
    BY <1>3 DEF CallPush
  <2>2. [do |-> "push", block |-> [id |-> pushed + 1, kind |-> k]] \in Job
    <3>1. [id |-> pushed + 1, kind |-> k] \in Block
      BY DEF TypeOK, Block
    <3> QED
      BY <3>1 DEF Job
  <2> QED
    BY <1>3, <2>1, <2>2, NotRun, AppendKeepsLoop DEF CallPush
<1>4. CASE CallTerminate
  BY <1>4, NotRun, OwnJobs, AppendKeepsLoop DEF CallTerminate
<1>5. CASE Push
  <2>1. Head(jobs) # Run /\ jobs # <<>>
    BY <1>5, NotRun DEF Push, Due
  <2>2. OneRunLoop'
    BY <1>5, <2>1, NotRun, OwnJobs, TakeKeepsOneLoop DEF Push, QueueInv
  <2>3. CASE Len(blockQueue) = BlockQueueSize
    <3>1. /\ Len(jobs) \in Nat /\ Len(jobs) >= 1 /\ Head(jobs) = jobs[1]
          /\ Len(Tail(jobs)) = Len(jobs) - 1
          /\ \A i \in 1..(Len(jobs) - 1) : Tail(jobs)[i] = jobs[i + 1]
      BY <2>1, TailElements DEF TypeOK
    <3>2. ASSUME NEW i \in 1..Len(jobs), jobs[i] \in {Run, Schedule}
          PROVE  \E j \in 1..Len(Tail(jobs)) : Tail(jobs)[j] \in {Run, Schedule}
      <4>1. i # 1
        BY <1>5, <3>1, <3>2, NotRun DEF Push, Due
      <4>2. i - 1 \in 1..(Len(jobs) - 1) /\ Tail(jobs)[i - 1] = jobs[i]
        BY <3>1, <4>1
      <4> QED
        BY <3>1, <3>2, <4>2
    <3>3. jobs' = Tail(jobs) /\ UNCHANGED <<blockQueue, recoveryTimer>>
      BY <1>5, <2>3 DEF Push
    <3>4. NoLostWakeup'
      BY <3>2, <3>3 DEF QueueInv, NoLostWakeup
    <3> QED
      BY <2>2, <3>4 DEF QueueInv
  <2>4. CASE Len(blockQueue) # BlockQueueSize
    <3>1. jobs' = Append(Tail(jobs), Schedule)
      BY <1>5, <2>4 DEF Push
    <3>2. jobs'[Len(Tail(jobs)) + 1] = Schedule
          /\ Len(Tail(jobs)) + 1 \in 1..Len(jobs')
      BY <2>1, <3>1, TailElements, AppendElements, OwnJobs DEF TypeOK
    <3> QED
      BY <2>2, <3>2 DEF QueueInv, NoLostWakeup
  <2> QED
    BY <2>3, <2>4
<1>6. CASE Terminate
  <2>1. OneRunLoop'
    BY <1>6, NotRun, TakeKeepsOneLoop DEF Terminate, Due, QueueInv
  <2> QED
    BY <1>6, <2>1 DEF Terminate, QueueInv, NoLostWakeup
<1>7. CASE Scheduled
  <2>1. CASE running
    <3>1. jobs' = Tail(jobs) /\ jobs # <<>> /\ Head(jobs) # Run /\ UNCHANGED running
      BY <1>7, <2>1, NotRun DEF Scheduled, Due
    <3>2. OneRunLoop'
      BY <3>1, TakeKeepsOneLoop DEF QueueInv
    <3>3. NoLostWakeup'
      BY <2>1, <3>1, <3>2 DEF OneRunLoop, NoLostWakeup
    <3> QED
      BY <3>2, <3>3 DEF QueueInv
  <2>2. CASE ~running
    BY <1>7, <2>2, RunBodyKeepsLoop DEF Scheduled, Due
  <2> QED
    BY <2>1, <2>2
<1>8. CASE Continue
  <2>1. Head(jobs) = Run
    <3>1. Head(jobs) \in Job /\ Head(jobs).do = "run"
      BY <1>8, TailElements DEF Continue, Due, TypeOK
    <3> QED
      BY <3>1 DEF Job, Run
  <2> QED
    BY <1>8, <2>1, RunBodyKeepsLoop DEF Continue, Due
<1>9. CASE TimerFires
  <2>1. jobs' = Append(jobs, Schedule)
    BY <1>9 DEF TimerFires
  <2>2. /\ Len(jobs) \in Nat /\ Len(jobs') = Len(jobs) + 1
        /\ \A i \in 1..Len(jobs) : jobs'[i] = jobs[i]
        /\ jobs'[Len(jobs) + 1] = Schedule
    BY <2>1, AppendElements, OwnJobs DEF TypeOK
  <2>3. \A i \in 1..Len(jobs') : jobs'[i] = Run => i \in 1..Len(jobs)
    BY <2>2, NotRun
  <2>4. OneRunLoop'
    BY <1>9, <2>2, <2>3 DEF TimerFires, QueueInv, OneRunLoop
  <2>5. NoLostWakeup'
    BY <2>2 DEF NoLostWakeup
  <2> QED
    BY <2>4, <2>5 DEF QueueInv
<1>10. CASE UNCHANGED vars
  BY <1>10 DEF vars, loopVars, QueueInv, OneRunLoop, NoLostWakeup
<1> QED
  BY <1>1, <1>2, <1>3, <1>4, <1>5, <1>6, <1>7, <1>8, <1>9, <1>10 DEF Next

----------------------------------------------------------------------------
(*                       The order of the blocks                           *)

(***************************************************************************)
(* Most handlers only take jobs and blocks from the front of a queue or    *)
(* add jobs that are no push: what is left was there before, d places on.  *)
(***************************************************************************)
JobsFrom(d) ==
  \A k \in 1..Len(jobs') : jobs'[k].do = "push" =>
    k + d \in 1..Len(jobs) /\ jobs'[k] = jobs[k + d]
BlocksFrom(d) ==
  \A k \in 1..Len(blockQueue') :
    k + d \in 1..Len(blockQueue) /\ blockQueue'[k] = blockQueue[k + d]

\* The ids the order speaks of are numbers.

LEMMA Ids ==
  ASSUME TypeOK
  PROVE  /\ Len(processed) \in Nat /\ Len(blockQueue) \in Nat /\ Len(jobs) \in Nat
         /\ pushed \in Nat
         /\ \A i \in 1..Len(processed) : processed[i] \in Nat
         /\ \A i \in 1..Len(blockQueue) : blockQueue[i].id \in Nat
         /\ \A i \in 1..Len(jobs) : jobs[i].do = "push" => jobs[i].block.id \in Nat
<1>1. \A i \in 1..Len(blockQueue) : blockQueue[i] \in Block
  BY DEF TypeOK
<1>2. \A i \in 1..Len(jobs) : jobs[i] \in Job
  BY DEF TypeOK
<1>3. \A j \in Job : j.do = "push" => j.block \in Block
  BY DEF Job
<1> QED
  BY <1>1, <1>2, <1>3 DEF TypeOK, Block

\* The job at the head goes, and perhaps a job of the ledger's own is added.

LEMMA AfterOwnJob ==
  ASSUME TypeOK, jobs # <<>>,
         jobs' = Tail(jobs) \/ jobs' = Append(Tail(jobs), Run)
  PROVE  JobsFrom(1) /\ Len(jobs') \in Nat
<1> DEFINE n == Len(jobs)
           t == Tail(jobs)
<1>1. /\ n \in Nat /\ n >= 1 /\ t \in Seq(Job) /\ Len(t) = n - 1
      /\ \A i \in 1..(n - 1) : t[i] = jobs[i + 1]
  BY TailElements DEF TypeOK
<1>2. jobs' = t \/ jobs' = Append(t, Run)
  OBVIOUS
<1>3. n = Len(jobs)
  OBVIOUS
<1> HIDE DEF n, t
<1>4. /\ Len(jobs') \in Nat
      /\ \A i \in 1..Len(jobs') :
           (i \in 1..(n - 1) /\ jobs'[i] = t[i]) \/ jobs'[i] = Run
  <2>1. CASE jobs' = t
    BY <1>1, <2>1
  <2>2. CASE jobs' = Append(t, Run)
    <3>1. /\ Len(jobs') = Len(t) + 1
          /\ \A i \in 1..Len(t) : jobs'[i] = t[i]
          /\ jobs'[Len(t) + 1] = Run
      BY <1>1, <2>2, OwnJobs, AppendElements
    <3> QED
      BY <1>1, <3>1
  <2> QED
    BY <1>2, <2>1, <2>2
<1> QED
  BY <1>1, <1>3, <1>4, NotRun DEF JobsFrom

\* A job that is no push is added behind.

LEMMA AfterOtherJob ==
  ASSUME TypeOK, NEW e \in Job, e.do # "push", jobs' = Append(jobs, e)
  PROVE  JobsFrom(0) /\ Len(jobs') \in Nat
<1>1. /\ Len(jobs) \in Nat /\ Len(jobs') = Len(jobs) + 1
      /\ \A i \in 1..Len(jobs) : jobs'[i] = jobs[i]
      /\ jobs'[Len(jobs) + 1] = e
  BY AppendElements DEF TypeOK
<1>2. \A i \in 1..Len(jobs') : i \in 1..Len(jobs) \/ jobs'[i] = e
  BY <1>1
<1> QED
  BY <1>1, <1>2 DEF JobsFrom

\* A step that only takes away keeps the order of what is left.

LEMMA TakingKeepsOrder ==
  ASSUME TypeOK, OrderInv, UNCHANGED <<processed, pushed>>,
         NEW d \in Nat, JobsFrom(d), NEW e \in Nat, BlocksFrom(e),
         Len(jobs') \in Nat, Len(blockQueue') \in Nat
  PROVE  OrderInv'
<1>1. InOrder'
  <2>1. ASSUME NEW i \in 1..Len(blockQueue'), NEW j \in 1..Len(blockQueue'), i < j
        PROVE  blockQueue'[i].id < blockQueue'[j].id
    <3>1. /\ i + e \in 1..Len(blockQueue) /\ blockQueue'[i] = blockQueue[i + e]
          /\ j + e \in 1..Len(blockQueue) /\ blockQueue'[j] = blockQueue[j + e]
          /\ i + e < j + e
      BY <2>1 DEF BlocksFrom
    <3> QED
      BY <3>1 DEF OrderInv, InOrder
  <2>2. \A i \in 1..Len(processed), j \in 1..Len(blockQueue') :
          processed[i] < blockQueue'[j].id
    BY DEF OrderInv, InOrder, BlocksFrom
  <2> QED
    BY <2>1, <2>2 DEF OrderInv, InOrder
<1>2. PushesAhead'
  <2>1. \A i \in 1..Len(blockQueue') : blockQueue'[i].id <= pushed
    BY DEF OrderInv, PushesAhead, BlocksFrom
  <2>2. ASSUME NEW i \in 1..Len(jobs'), jobs'[i].do = "push"
        PROVE  /\ jobs'[i].block.id <= pushed
               /\ \A k \in 1..Len(processed) : processed[k] < jobs'[i].block.id
               /\ \A k \in 1..Len(blockQueue') : blockQueue'[k].id < jobs'[i].block.id
               /\ \A k \in 1..Len(jobs') : jobs'[k].do = "push" /\ i < k =>
                    jobs'[i].block.id < jobs'[k].block.id
    <3>1. i + d \in 1..Len(jobs) /\ jobs'[i] = jobs[i + d]
      BY <2>2 DEF JobsFrom
    <3>2. \A k \in 1..Len(blockQueue') : blockQueue'[k].id < jobs'[i].block.id
      BY <2>2, <3>1 DEF OrderInv, PushesAhead, BlocksFrom
    <3>3. ASSUME NEW k \in 1..Len(jobs'), jobs'[k].do = "push", i < k
          PROVE  jobs'[i].block.id < jobs'[k].block.id
      <4>1. k + d \in 1..Len(jobs) /\ jobs'[k] = jobs[k + d] /\ i + d < k + d
        BY <3>3 DEF JobsFrom
      <4> QED
        BY <2>2, <3>1, <3>3, <4>1 DEF OrderInv, PushesAhead
    <3> QED
      BY <2>2, <3>1, <3>2, <3>3 DEF OrderInv, PushesAhead
  <2>3. \A i \in 1..Len(processed) : processed[i] <= pushed
    BY DEF OrderInv, PushesAhead
  <2> QED
    BY <2>1, <2>2, <2>3 DEF PushesAhead
<1> QED
  BY <1>1, <1>2 DEF OrderInv

\* A new call of push is numbered after every earlier one.

LEMMA CallKeepsOrder ==
  ASSUME TypeOK, OrderInv, CallPush
  PROVE  OrderInv'
<1>1. PICK k \in Kind :
        jobs' = Append(jobs, [do |-> "push", block |-> [id |-> pushed + 1, kind |-> k]])
  BY DEF CallPush
<1> DEFINE j == [do |-> "push", block |-> [id |-> pushed + 1, kind |-> k]]
           n == Len(jobs)
<1>2. j \in Job
  <2>1. [id |-> pushed + 1, kind |-> k] \in Block
    BY DEF TypeOK, Block
  <2> QED
    BY <2>1 DEF Job
<1>3. /\ n \in Nat /\ Len(jobs') = n + 1
      /\ \A i \in 1..n : jobs'[i] = jobs[i]
      /\ jobs'[n + 1] = j
  BY <1>1, <1>2, AppendElements DEF TypeOK
<1>4. j.block.id = pushed + 1 /\ pushed' = pushed + 1 /\ UNCHANGED <<processed, blockQueue>>
  BY DEF CallPush
<1>5. n = Len(jobs)
  OBVIOUS
<1> HIDE DEF j, n
<1>6. \A i \in 1..Len(jobs') : i \in 1..n \/ (i = n + 1 /\ jobs'[i] = j)
  BY <1>3
<1>7. InOrder'
  BY <1>4 DEF OrderInv, InOrder
<1>8. /\ \A i \in 1..Len(processed) : processed[i] <= pushed + 1 /\ processed[i] < pushed + 1
      /\ \A i \in 1..Len(blockQueue) : blockQueue[i].id <= pushed + 1 /\ blockQueue[i].id < pushed + 1
      /\ \A i \in 1..n : jobs[i].do = "push" =>
           jobs[i].block.id <= pushed + 1 /\ jobs[i].block.id < pushed + 1
  BY <1>5, Ids DEF OrderInv, PushesAhead
<1>9. ASSUME NEW i \in 1..Len(jobs'), jobs'[i].do = "push"
      PROVE  /\ jobs'[i].block.id <= pushed + 1
             /\ \A m \in 1..Len(processed) : processed[m] < jobs'[i].block.id
             /\ \A m \in 1..Len(blockQueue) : blockQueue[m].id < jobs'[i].block.id
             /\ \A m \in 1..Len(jobs') : jobs'[m].do = "push" /\ i < m =>
                  jobs'[i].block.id < jobs'[m].block.id
  <2>1. CASE i \in 1..n
    <3>1. jobs'[i] = jobs[i]
      BY <1>3, <2>1
    <3>2. \A m \in 1..Len(jobs') : jobs'[m].do = "push" /\ i < m =>
            jobs'[i].block.id < jobs'[m].block.id
      BY <1>3, <1>4, <1>5, <1>6, <1>8, <1>9, <2>1, <3>1 DEF OrderInv, PushesAhead
    <3> QED
      BY <1>5, <1>8, <1>9, <2>1, <3>1, <3>2 DEF OrderInv, PushesAhead
  <2>2. CASE i = n + 1 /\ jobs'[i] = j
    <3>1. jobs'[i].block.id = pushed + 1 /\ pushed + 1 <= pushed + 1
      BY <1>4, <2>2, Ids
    <3>2. \A m \in 1..Len(jobs') : ~(i < m)
      BY <1>3, <2>2
    <3> QED
      BY <1>8, <3>1, <3>2
  <2> QED
    BY <1>6, <2>1, <2>2
<1>10. PushesAhead'
  BY <1>4, <1>8, <1>9 DEF PushesAhead
<1> QED
  BY <1>7, <1>10 DEF OrderInv

\* A push that is accepted goes behind all accepted before it.

LEMMA PushKeepsOrder ==
  ASSUME TypeOK, OrderInv, Push, Len(blockQueue) # BlockQueueSize
  PROVE  OrderInv'
<1> DEFINE n == Len(jobs)
           q == Len(blockQueue)
           b == Head(jobs).block
<1>1. /\ n \in Nat /\ n >= 1 /\ 1 \in 1..n /\ jobs[1].do = "push" /\ b = jobs[1].block
      /\ Head(jobs) \in Job /\ Head(jobs).do = "push"
      /\ Tail(jobs) \in Seq(Job) /\ Len(Tail(jobs)) = n - 1
      /\ \A i \in 1..(n - 1) : Tail(jobs)[i] = jobs[i + 1]
  BY TailElements DEF Push, Due, TypeOK
<1>2. b \in Block
  BY <1>1 DEF Job
<1>3. /\ q \in Nat /\ Len(blockQueue') = q + 1 /\ blockQueue'[q + 1] = b
      /\ \A i \in 1..q : blockQueue'[i] = blockQueue[i]
  <2>1. blockQueue' = Append(blockQueue, b) /\ blockQueue \in Seq(Block)
    BY DEF Push, TypeOK
  <2> HIDE DEF b
  <2>2. q \in Nat
    BY <2>1
  <2> QED
    BY <1>2, <2>1, <2>2, AppendElements
<1>4. Len(jobs') = Len(Tail(jobs)) + 1
      /\ (\A i \in 1..Len(Tail(jobs)) : jobs'[i] = Tail(jobs)[i])
      /\ jobs'[Len(Tail(jobs)) + 1] = Schedule
  BY SMTT(40), <1>1, OwnJobs, AppendElements DEF Push
<1>5. Len(Tail(jobs)) + 1 = n
  BY <1>1
<1>6. /\ Len(jobs') = n /\ jobs'[n] = Schedule
      /\ \A i \in 1..(n - 1) : jobs'[i] = jobs[i + 1]
  BY <1>1, <1>4, <1>5
<1>7. \A i \in 1..n : jobs'[i].do = "push" =>
        i \in 1..(n - 1) /\ i + 1 \in 1..n /\ 1 < i + 1 /\ jobs'[i] = jobs[i + 1]
  BY <1>1, <1>6, NotRun
<1>8. n = Len(jobs) /\ q = Len(blockQueue) /\ UNCHANGED <<processed, pushed>>
  BY DEF Push
<1> HIDE DEF n, q, b
<1>9. /\ b.id <= pushed /\ b.id \in Nat
      /\ \A k \in 1..Len(processed) : processed[k] < b.id
      /\ \A k \in 1..q : blockQueue[k].id < b.id
      /\ \A k \in 1..n : jobs[k].do = "push" /\ 1 < k => b.id < jobs[k].block.id
  BY <1>1, <1>8, Ids DEF OrderInv, PushesAhead
<1>10. \A i \in 1..(q + 1) : i \in 1..q \/ i = q + 1
  BY <1>3
<1>11. InOrder'
  <2>1. ASSUME NEW i \in 1..(q + 1), NEW j \in 1..(q + 1), i < j
        PROVE  blockQueue'[i].id < blockQueue'[j].id
    <3>1. i \in 1..q
      BY <1>3, <2>1
    <3>2. CASE j \in 1..q
      BY <1>3, <1>8, <2>1, <3>1, <3>2 DEF OrderInv, InOrder
    <3>3. CASE j = q + 1
      BY <1>3, <1>9, <3>1, <3>3
    <3> QED
      BY <1>10, <3>2, <3>3
  <2>2. \A i \in 1..Len(processed), j \in 1..(q + 1) : processed[i] < blockQueue'[j].id
    BY <1>3, <1>8, <1>9, <1>10 DEF OrderInv, InOrder
  <2> QED
    BY <1>3, <1>8, <2>1, <2>2 DEF OrderInv, InOrder
<1>12. PushesAhead'
  <2>1. \A i \in 1..(q + 1) : blockQueue'[i].id <= pushed
    BY <1>3, <1>8, <1>9, <1>10 DEF OrderInv, PushesAhead
  <2>2. ASSUME NEW i \in 1..n, jobs'[i].do = "push"
        PROVE  /\ jobs'[i].block.id <= pushed
               /\ \A k \in 1..Len(processed) : processed[k] < jobs'[i].block.id
               /\ \A k \in 1..(q + 1) : blockQueue'[k].id < jobs'[i].block.id
               /\ \A k \in 1..n : jobs'[k].do = "push" /\ i < k =>
                    jobs'[i].block.id < jobs'[k].block.id
    <3>1. i + 1 \in 1..n /\ 1 < i + 1 /\ jobs'[i] = jobs[i + 1] /\ jobs[i + 1].do = "push"
      BY <1>7, <2>2
    <3>2. \A k \in 1..(q + 1) : blockQueue'[k].id < jobs'[i].block.id
      <4>1. b.id < jobs'[i].block.id
        BY <1>9, <3>1
      <4>2. \A k \in 1..q : blockQueue[k].id < jobs'[i].block.id
        BY <1>8, <3>1 DEF OrderInv, PushesAhead
      <4> QED
        BY <1>3, <1>10, <4>1, <4>2
    <3>3. ASSUME NEW k \in 1..n, jobs'[k].do = "push", i < k
          PROVE  jobs'[i].block.id < jobs'[k].block.id
      <4>1. /\ k + 1 \in 1..n /\ jobs'[k] = jobs[k + 1] /\ jobs[k + 1].do = "push"
            /\ i + 1 < k + 1
        BY <1>7, <3>3
      <4> QED
        BY <1>8, <3>1, <4>1 DEF OrderInv, PushesAhead
    <3> QED
      BY <1>8, <3>1, <3>2, <3>3 DEF OrderInv, PushesAhead
  <2>3. \A i \in 1..Len(processed) : processed[i] <= pushed
    BY DEF OrderInv, PushesAhead
  <2> QED
    BY <1>3, <1>6, <1>8, <2>1, <2>2, <2>3 DEF PushesAhead
<1> QED
  BY <1>11, <1>12 DEF OrderInv

\* The block processed is the first of the queue, and the last of processed.

LEMMA ProcessKeepsOrder ==
  ASSUME TypeOK, OrderInv, jobs # <<>>, Head(jobs).do # "push", RunProcesses, pushed' = pushed
  PROVE  OrderInv'
<1> DEFINE q == Len(blockQueue)
           p == Len(processed)
           b == Head(blockQueue).id
<1>1. /\ q \in Nat /\ q >= 1 /\ 1 \in 1..q /\ b = blockQueue[1].id
      /\ Len(blockQueue') = q - 1
      /\ \A i \in 1..(q - 1) : blockQueue'[i] = blockQueue[i + 1]
  BY TailElements DEF RunProcesses, TypeOK
<1>2. b \in Nat
  BY <1>1, Ids
<1>3. /\ p \in Nat /\ Len(processed') = p + 1 /\ processed'[p + 1] = b
      /\ \A i \in 1..p : processed'[i] = processed[i]
  <2>1. processed' = Append(processed, b) /\ processed \in Seq(Nat)
    BY DEF RunProcesses, TypeOK
  <2> HIDE DEF b
  <2>2. p \in Nat
    BY <2>1
  <2> QED
    BY <1>2, <2>1, <2>2, AppendElements
<1>4. JobsFrom(1)
  BY AfterOwnJob, NotRun DEF RunProcesses
<1>5. q = Len(blockQueue) /\ p = Len(processed)
  OBVIOUS
<1> HIDE DEF q, p, b
<1>6. /\ b <= pushed
      /\ \A k \in 1..p : processed[k] < b
      /\ \A k \in 1..(q - 1) : k + 1 \in 1..q /\ 1 < k + 1 /\ b < blockQueue[k + 1].id
      /\ \A k \in 1..Len(jobs) : jobs[k].do = "push" => b < jobs[k].block.id
  BY <1>1, <1>5 DEF OrderInv, InOrder, PushesAhead
<1>7. \A i \in 1..(p + 1) : i \in 1..p \/ i = p + 1
  BY <1>3
<1>8. InOrder'
  <2>1. ASSUME NEW i \in 1..(p + 1), NEW j \in 1..(p + 1), i < j
        PROVE  processed'[i] < processed'[j]
    <3>1. i \in 1..p
      BY <1>3, <2>1
    <3>2. CASE j \in 1..p
      BY <1>3, <1>5, <2>1, <3>1, <3>2 DEF OrderInv, InOrder
    <3>3. CASE j = p + 1
      BY <1>3, <1>6, <3>1, <3>3
    <3> QED
      BY <1>7, <3>2, <3>3
  <2>2. ASSUME NEW i \in 1..(q - 1), NEW j \in 1..(q - 1), i < j
        PROVE  blockQueue'[i].id < blockQueue'[j].id
    <3>1. i + 1 \in 1..q /\ j + 1 \in 1..q /\ i + 1 < j + 1
      BY <1>1, <2>2
    <3> QED
      BY <1>1, <1>5, <3>1 DEF OrderInv, InOrder
  <2>3. ASSUME NEW i \in 1..(p + 1), NEW j \in 1..(q - 1)
        PROVE  processed'[i] < blockQueue'[j].id
    <3>1. blockQueue'[j] = blockQueue[j + 1] /\ j + 1 \in 1..q /\ b < blockQueue[j + 1].id
      BY <1>1, <1>6
    <3>2. CASE i \in 1..p
      BY <1>3, <1>5, <3>1, <3>2 DEF OrderInv, InOrder
    <3>3. CASE i = p + 1
      BY <1>3, <3>1, <3>3
    <3> QED
      BY <1>7, <3>2, <3>3
  <2> QED
    BY <1>1, <1>3, <2>1, <2>2, <2>3 DEF InOrder
<1>9. PushesAhead'
  <2>1. \A i \in 1..(p + 1) : processed'[i] <= pushed
    BY <1>3, <1>5, <1>6, <1>7 DEF OrderInv, PushesAhead
  <2>2. \A i \in 1..(q - 1) : blockQueue'[i].id <= pushed
    BY <1>1, <1>5, <1>6 DEF OrderInv, PushesAhead
  <2>3. ASSUME NEW i \in 1..Len(jobs'), jobs'[i].do = "push"
        PROVE  /\ jobs'[i].block.id <= pushed
               /\ \A k \in 1..(p + 1) : processed'[k] < jobs'[i].block.id
               /\ \A k \in 1..(q - 1) : blockQueue'[k].id < jobs'[i].block.id
               /\ \A k \in 1..Len(jobs') : jobs'[k].do = "push" /\ i < k =>
                    jobs'[i].block.id < jobs'[k].block.id
    <3>1. i + 1 \in 1..Len(jobs) /\ jobs'[i] = jobs[i + 1] /\ jobs[i + 1].do = "push"
      BY <1>4, <2>3 DEF JobsFrom
    <3>2. \A k \in 1..(p + 1) : processed'[k] < jobs'[i].block.id
      BY <1>3, <1>5, <1>6, <1>7, <3>1 DEF OrderInv, PushesAhead
    <3>3. \A k \in 1..(q - 1) : blockQueue'[k].id < jobs'[i].block.id
      BY <1>1, <1>5, <1>6, <3>1 DEF OrderInv, PushesAhead
    <3>4. ASSUME NEW k \in 1..Len(jobs'), jobs'[k].do = "push", i < k
          PROVE  jobs'[i].block.id < jobs'[k].block.id
      <4>1. /\ k + 1 \in 1..Len(jobs) /\ jobs'[k] = jobs[k + 1] /\ i + 1 < k + 1
        BY <1>4, <3>4 DEF JobsFrom
      <4> QED
        BY <3>1, <3>4, <4>1 DEF OrderInv, PushesAhead
    <3> QED
      BY <3>1, <3>2, <3>3, <3>4 DEF OrderInv, PushesAhead
  <2> QED
    BY <1>1, <1>3, <2>1, <2>2, <2>3 DEF PushesAhead
<1> QED
  BY <1>8, <1>9 DEF OrderInv

\* run() in every case.

LEMMA RunBodyKeepsOrder ==
  ASSUME TypeOK, OrderInv, jobs # <<>>, Head(jobs).do # "push", RunBody, pushed' = pushed
  PROVE  OrderInv'
<1>1. CASE RunProcesses
  BY <1>1, ProcessKeepsOrder
<1>2. CASE RunStops \/ RunFails
  <2>1. /\ JobsFrom(1) /\ Len(jobs') \in Nat
        /\ UNCHANGED <<processed, blockQueue>>
    BY <1>2, AfterOwnJob DEF RunStops, RunFails
  <2>2. BlocksFrom(0) /\ Len(blockQueue') \in Nat
    BY <2>1, Ids DEF BlocksFrom
  <2> QED
    BY <2>1, <2>2, TakingKeepsOrder
<1>3. CASE RunHitsTodo
  <2>1. JobsFrom(0) /\ BlocksFrom(0) /\ Len(jobs') \in Nat /\ Len(blockQueue') \in Nat
    BY <1>3 DEF RunHitsTodo, LoseMemory, JobsFrom, BlocksFrom
  <2> QED
    BY <1>3, <2>1, TakingKeepsOrder DEF RunHitsTodo
<1> QED
  BY <1>1, <1>2, <1>3 DEF RunBody

\* Every step keeps the order.

LEMMA StepOrder ==
  ASSUME TypeOK, OrderInv, [Next]_vars
  PROVE  OrderInv'
<1>0. ASSUME UNCHANGED blockQueue
      PROVE  BlocksFrom(0) /\ Len(blockQueue') \in Nat
  BY <1>0, Ids DEF BlocksFrom
<1>1. CASE Starts \/ UNCHANGED vars
  <2>1. UNCHANGED <<jobs, blockQueue, processed, pushed>>
    BY <1>1 DEF Starts, vars, loopVars
  <2>2. JobsFrom(0) /\ Len(jobs') \in Nat
    BY <2>1, Ids DEF JobsFrom
  <2> QED
    BY <1>0, <2>1, <2>2, TakingKeepsOrder
<1>2. CASE Crash
  <2>1. JobsFrom(0) /\ BlocksFrom(0) /\ Len(jobs') \in Nat /\ Len(blockQueue') \in Nat
    BY <1>2 DEF Crash, LoseMemory, JobsFrom, BlocksFrom
  <2> QED
    BY <1>2, <2>1, TakingKeepsOrder DEF Crash
<1>3. CASE CallPush
  BY <1>3, CallKeepsOrder
<1>4. CASE CallTerminate \/ TimerFires
  <2>1. /\ \E e \in Job : e.do # "push" /\ jobs' = Append(jobs, e)
        /\ UNCHANGED <<blockQueue, processed, pushed>>
    BY <1>4, OwnJobs, NotRun DEF CallTerminate, TimerFires
  <2> QED
    BY <1>0, <2>1, AfterOtherJob, TakingKeepsOrder
<1>5. CASE Push
  <2>1. CASE Len(blockQueue) = BlockQueueSize
    <3>1. jobs # <<>> /\ jobs' = Tail(jobs) /\ UNCHANGED <<blockQueue, processed, pushed>>
      BY <1>5, <2>1 DEF Push, Due
    <3> QED
      BY <1>0, <3>1, AfterOwnJob, TakingKeepsOrder
  <2>2. CASE Len(blockQueue) # BlockQueueSize
    BY <1>5, <2>2, PushKeepsOrder
  <2> QED
    BY <2>1, <2>2
<1>6. CASE Terminate
  <2>1. jobs # <<>> /\ jobs' = Tail(jobs) /\ blockQueue' = <<>> /\ UNCHANGED <<processed, pushed>>
    BY <1>6 DEF Terminate, Due
  <2>2. BlocksFrom(0) /\ Len(blockQueue') \in Nat
    BY <2>1 DEF BlocksFrom
  <2> QED
    BY <2>1, <2>2, AfterOwnJob, TakingKeepsOrder
<1>7. CASE Scheduled \/ Continue
  <2>1. jobs # <<>> /\ Head(jobs).do # "push" /\ pushed' = pushed
    BY <1>7 DEF Scheduled, Continue, Due
  <2>2. CASE RunBody
    BY <2>1, <2>2, RunBodyKeepsOrder
  <2>3. CASE ~RunBody
    <3>1. jobs' = Tail(jobs) /\ UNCHANGED <<blockQueue, processed>>
      BY <1>7, <2>3 DEF Scheduled, Continue
    <3> QED
      BY <1>0, <2>1, <3>1, AfterOwnJob, TakingKeepsOrder
  <2> QED
    BY <2>2, <2>3
<1> QED
  BY <1>1, <1>2, <1>3, <1>4, <1>5, <1>6, <1>7 DEF Next

----------------------------------------------------------------------------
(*                            The theorems                                 *)

\* A ledger that has not started satisfies everything.

LEMMA InitIInv == Init => IInv
<1> SUFFICES ASSUME Init PROVE IInv
  OBVIOUS
<1>1. TypeOK
  <2>1. StorageTypeOK
    BY DEF Init, StorageInit, StorageTypeOK, EmptyDatabase, Database
  <2>2. blockQueue \in Seq(Block) /\ Len(blockQueue) <= BlockQueueSize
    BY LedgerAssumption DEF Init
  <2>3. jobs \in Seq(Job) /\ processed \in Seq(Nat)
    BY DEF Init
  <2> QED
    BY <2>1, <2>2, <2>3 DEF Init, TypeOK
<1>2. StorageSound /\ StartupInv
  BY DEF Init, StorageInit, StorageSound, StartupInv, EmptyDatabase
<1>3. QueueInv /\ OrderInv
  BY DEF Init, QueueInv, OneRunLoop, NoLostWakeup, OrderInv, InOrder, PushesAhead
<1> QED
  BY <1>1, <1>2, <1>3 DEF IInv

(***************************************************************************)
(* The inductive invariant of the ledger: what its start knows of the      *)
(* database, and what the run loop and the pushes under way know of each   *)
(* other.                                                                  *)
(***************************************************************************)
THEOREM Invariance == Spec => []IInv
<1>1. IInv /\ [Next]_vars => IInv'
  <2> SUFFICES ASSUME IInv, [Next]_vars PROVE IInv'
    OBVIOUS
  <2>1. TypeOK /\ StorageInv /\ QueueInv /\ OrderInv
    BY DEF IInv, StorageInv, TypeOK
  <2>2. TypeOK' /\ StorageInv' /\ QueueInv' /\ OrderInv'
    BY <2>1, StepType, StepStorage, StepLoop, StepOrder
  <2> QED
    BY <2>2 DEF IInv, StorageInv
<1> QED
  BY <1>1, InitIInv, PTL DEF Spec

\* The ledger's variables keep their types; its queue never exceeds its limit.

THEOREM TypeCorrect == Spec => []TypeOK
<1>1. IInv => TypeOK
  BY DEF IInv
<1> QED
  BY <1>1, Invariance, PTL

(***************************************************************************)
(* Whenever the process dies, in migration, in the registration of the     *)
(* genesis block or later, the database left on disk is empty or complete, *)
(* and belongs to one network.                                             *)
(***************************************************************************)
THEOREM DatabaseStaysSound == Spec => []StorageSound
<1>1. IInv => StorageSound
  BY DEF IInv
<1> QED
  BY <1>1, Invariance, PTL

\* Ledger.run never runs twice at a time, however pushes and timers interleave.

THEOREM SingleRunLoop == Spec => []OneRunLoop
<1>1. IInv => OneRunLoop
  BY DEF IInv, QueueInv
<1> QED
  BY <1>1, Invariance, PTL

\* A block in the ledger's queue always has a run coming for it.

THEOREM NoBlockStranded == Spec => []NoLostWakeup
<1>1. IInv => NoLostWakeup
  BY DEF IInv, QueueInv
<1> QED
  BY <1>1, Invariance, PTL

\* Blocks are processed at most once and in the order they were pushed.

THEOREM BlocksInOrder == Spec => []InOrder
<1>1. IInv => InOrder
  BY DEF IInv, OrderInv
<1> QED
  BY <1>1, Invariance, PTL

============================================================================
