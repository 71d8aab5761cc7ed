-------------------------- MODULE WorkFinderProofs --------------------------
(***************************************************************************)
(* Proofs about the work finder's search, for any number of workers and of *)
(* find() calls, any scores and thresholds, and handlers that call back.   *)
(***************************************************************************)
EXTENDS WorkFinder, TLAPS

(***************************************************************************)
(* The rounds.  The jobs of a round are on the queue in the order in which *)
(* they were posted, so that one look at the queue says how far the round  *)
(* of a task is.                                                           *)
(***************************************************************************)
Evaluates(t, i) == posted[i].do = "evaluate" /\ posted[i].task = t
Merges(t, i) == posted[i].do = "merge" /\ posted[i].task = t
Working(t) == searching[t] + leaving[t] > 0

\* A task has one round, and a result ahead of its evaluation.
RoundInv ==
  \A t \in Task :
    /\ Working(t) => \A i \in 1..Len(posted) : ~Evaluates(t, i)
    /\ \A i, j \in 1..Len(posted) : Evaluates(t, i) /\ Evaluates(t, j) => i = j
    /\ leaving[t] > 0 /\ best[t] = None => \E i \in 1..Len(posted) : Merges(t, i)
    /\ \A i \in 1..Len(posted) :
         Evaluates(t, i) /\ best[t] = None => \E j \in 1..(i - 1) : Merges(t, j)

\* The current task has a round.
CurrentInv ==
  trap = "none" /\ currentTask # None =>
    Working(currentTask) \/ \E i \in 1..Len(posted) : Evaluates(currentTask, i)

Idle(t) ==
  /\ searching[t] = 0 /\ leaving[t] = 0
  /\ \A i \in 1..Len(posted) : posted[i].task # t

\* Tasks that were not started, because they are pending or not made, have none.
IdleInv ==
  \A t \in Task : t > finds \/ (\E i \in 1..Len(pendingTasks) : pendingTasks[i] = t) => Idle(t)

(***************************************************************************)
(* The order of tasks: those answered, the current one, the pending ones.  *)
(***************************************************************************)
OrderInv ==
  /\ \A i \in 1..Len(pendingTasks) : pendingTasks[i] <= finds
  /\ \A i, j \in 1..Len(pendingTasks) : i < j => pendingTasks[i] < pendingTasks[j]
  /\ \A i \in 1..Len(found) : found[i].task <= finds
  /\ trap = "none" /\ currentTask = None => pendingTasks = <<>>
  /\ trap = "none" /\ currentTask # None =>
       /\ currentTask <= finds
       /\ \A i \in 1..Len(pendingTasks) : currentTask < pendingTasks[i]
       /\ \A i \in 1..Len(found) : found[i].task < currentTask

IInv ==
  /\ TypeOK /\ ResultThere /\ RoundInv /\ CurrentInv /\ IdleInv /\ OrderInv /\ AnswersInOrder

----------------------------------------------------------------------------
\* Append leaves every element in its place and adds one at the end.

LEMMA AppendElements ==
  ASSUME NEW S, NEW s \in Seq(S), NEW e \in S
  PROVE  /\ Append(s, e) \in Seq(S)
         /\ Len(Append(s, e)) = Len(s) + 1 /\ Len(s) \in Nat
         /\ \A i \in 1..Len(s) : Append(s, e)[i] = s[i]
         /\ Append(s, e)[Len(s) + 1] = e
OBVIOUS

\* Tail moves every element one place to the front.

LEMMA TailElements ==
  ASSUME NEW S, NEW s \in Seq(S), s # <<>>
  PROVE  /\ Tail(s) \in Seq(S)
         /\ Len(Tail(s)) = Len(s) - 1
         /\ Len(s) \in Nat /\ Len(s) >= 1
         /\ \A i \in 1..(Len(s) - 1) : Tail(s)[i] = s[i + 1]
         /\ Head(s) = s[1] /\ Head(s) \in S
OBVIOUS

\* Every number of workers has its calls of find() among the tasks.

LEMMA Tasks ==
  /\ Task \subseteq Nat
  /\ None \notin Task
  /\ \A n \in DOMAIN MaxFinds :
       n \in Nat \ {0} /\ MaxFinds[n] \in Nat /\ 1..MaxFinds[n] \subseteq Task
<1>1. MaxFinds \in Seq(Nat) /\ None \notin Nat
  BY WorkFinderAssumption
<1>2. \A n \in DOMAIN MaxFinds : n \in Nat \ {0} /\ MaxFinds[n] \in Nat
  BY <1>1
<1>3. \A n \in DOMAIN MaxFinds : 1..MaxFinds[n] \subseteq Task
  BY DEF Task
<1>4. Task \subseteq Nat
  BY <1>2 DEF Task
<1> QED
  BY <1>1, <1>2, <1>3, <1>4

\* A job is an evaluation, or a merge with a score.

LEMMA JobParts ==
  ASSUME NEW j \in Job
  PROVE  /\ j.task \in Task
         /\ j.do = "merge" => j.score \in Score
         /\ j.do = "evaluate" => j = [do |-> "evaluate", task |-> j.task]
         /\ j.do \in {"merge", "evaluate"}
BY DEF Job

LEMMA JobsMade ==
  ASSUME NEW t \in Task, NEW s \in Score
  PROVE  /\ [do |-> "merge", task |-> t, score |-> s] \in Job
         /\ [do |-> "evaluate", task |-> t] \in Job
BY DEF Job

\* The next call of find() makes a task that was not there.

LEMMA NewTaskIsTask ==
  ASSUME TypeOK, NewTask
  PROVE  /\ finds' = finds + 1 /\ finds' \in Task /\ finds \in Nat
         /\ finds' \in 0..MaxFinds[workerNum]
         /\ threshold' \in [Task -> Nat]
         /\ \A t \in Task : t <= finds => threshold'[t] = threshold[t]
<1>1. workerNum \in DOMAIN MaxFinds /\ finds \in 0..MaxFinds[workerNum]
  BY DEF TypeOK
<1>2. MaxFinds[workerNum] \in Nat /\ 1..MaxFinds[workerNum] \subseteq Task /\ Task \subseteq Nat
  BY <1>1, Tasks
<1>3. finds' = finds + 1 /\ finds < MaxFinds[workerNum]
  BY DEF NewTask
<1>4. finds' \in Task /\ finds \in Nat /\ finds' \in 0..MaxFinds[workerNum]
  BY <1>1, <1>2, <1>3
<1>5. PICK s \in Threshold : threshold' = [threshold EXCEPT ![finds + 1] = s]
  BY DEF NewTask
<1>6. s \in Nat
  BY WorkFinderAssumption
<1>7. threshold \in [Task -> Nat]
  BY DEF TypeOK
<1>8. threshold' \in [Task -> Nat]
  BY <1>5, <1>6, <1>7
<1>9. \A t \in Task : t <= finds => threshold'[t] = threshold[t]
  BY <1>2, <1>4, <1>5, <1>7
<1> QED
  BY <1>3, <1>4, <1>8, <1>9

\* A search that is under way, whether or not its parts are there.

LEMMA SearchSoundFromInv == IInv => SearchSound
<1> SUFFICES ASSUME IInv PROVE SearchSound
  OBVIOUS
<1>1. ASSUME NEW t \in Task, NEW i \in 1..Len(posted)
      PROVE  Evaluates(t, i) <=> i \in RoundsOf(t)
  BY SMTT(40), <1>1, JobParts DEF IInv, TypeOK, Evaluates, RoundsOf
<1>2. \A t \in Task : RoundsOf(t) \subseteq 1..Len(posted)
  BY DEF RoundsOf
<1>3. SearchGoesOn
  <2> SUFFICES ASSUME trap = "none" PROVE
        /\ currentTask # None =>
             IF searching[currentTask] + leaving[currentTask] > 0
               THEN RoundsOf(currentTask) = {}
               ELSE \E i \in RoundsOf(currentTask) : RoundsOf(currentTask) = {i}
        /\ pendingTasks # <<>> => currentTask # None
    BY DEF SearchGoesOn
  <2>1. ASSUME currentTask # None, Working(currentTask)
        PROVE  RoundsOf(currentTask) = {}
    BY <1>1, <1>2, <2>1 DEF IInv, TypeOK, RoundInv
  <2>2. ASSUME currentTask # None, ~Working(currentTask)
        PROVE  \E i \in RoundsOf(currentTask) : RoundsOf(currentTask) = {i}
    <3>1. PICK i \in 1..Len(posted) : Evaluates(currentTask, i)
      BY <2>2 DEF IInv, CurrentInv
    <3>2. currentTask \in Task
      BY <2>2 DEF IInv, TypeOK
    <3>3. i \in RoundsOf(currentTask)
      BY <3>1, <3>2, <1>1
    <3>4. \A j \in RoundsOf(currentTask) : j = i
      BY <3>1, <3>2, <1>1, <1>2 DEF IInv, RoundInv
    <3> QED
      BY <3>3, <3>4
  <2>3. pendingTasks # <<>> => currentTask # None
    BY DEF IInv, OrderInv
  <2> QED
    BY <2>1, <2>2, <2>3 DEF Working
<1> QED
  BY <1>3 DEF SearchSound, IInv

----------------------------------------------------------------------------
\* The queue after its first job has run: every other job one place further.

LEMMA QueueMoves ==
  ASSUME TypeOK, posted # <<>>, posted' = Tail(posted)
  PROVE  /\ posted' \in Seq(Job)
         /\ Len(posted) \in Nat /\ Len(posted) >= 1 /\ Len(posted') = Len(posted) - 1
         /\ Head(posted) = posted[1] /\ posted[1] \in Job
         /\ \A i \in 1..Len(posted') :
              /\ i + 1 \in 2..Len(posted) /\ posted'[i] = posted[i + 1]
              /\ \A t \in Task : /\ Evaluates(t, i)' <=> Evaluates(t, i + 1)
                                 /\ Merges(t, i)' <=> Merges(t, i + 1)
<1>1. posted \in Seq(Job)
  BY DEF TypeOK
<1>2. /\ posted' \in Seq(Job)
      /\ Len(posted) \in Nat /\ Len(posted) >= 1 /\ Len(posted') = Len(posted) - 1
      /\ Head(posted) = posted[1] /\ posted[1] \in Job
      /\ \A i \in 1..(Len(posted) - 1) : posted'[i] = posted[i + 1]
  BY <1>1, TailElements
<1>3. ASSUME NEW i \in 1..Len(posted')
      PROVE  i + 1 \in 2..Len(posted) /\ posted'[i] = posted[i + 1]
  BY <1>2, <1>3
<1>4. ASSUME NEW i \in 1..Len(posted'), NEW t \in Task
      PROVE  /\ Evaluates(t, i)' <=> Evaluates(t, i + 1)
             /\ Merges(t, i)' <=> Merges(t, i + 1)
  BY <1>3, <1>4 DEF Evaluates, Merges
<1> QED
  BY <1>2, <1>3, <1>4

\* The queue after a job was posted: every other job in its place.

LEMMA QueueGrows ==
  ASSUME TypeOK, NEW job \in Job, posted' = Append(posted, job)
  PROVE  /\ posted' \in Seq(Job)
         /\ Len(posted) \in Nat /\ Len(posted') = Len(posted) + 1
         /\ posted'[Len(posted')] = job
         /\ \A i \in 1..Len(posted) :
              /\ i \in 1..Len(posted') /\ posted'[i] = posted[i]
              /\ \A t \in Task : /\ Evaluates(t, i)' <=> Evaluates(t, i)
                                 /\ Merges(t, i)' <=> Merges(t, i)
<1>1. posted \in Seq(Job)
  BY DEF TypeOK
<1>2. /\ posted' \in Seq(Job)
      /\ Len(posted') = Len(posted) + 1 /\ Len(posted) \in Nat
      /\ \A i \in 1..Len(posted) : posted'[i] = posted[i]
      /\ posted'[Len(posted) + 1] = job
  BY <1>1, AppendElements
<1>3. ASSUME NEW i \in 1..Len(posted)
      PROVE  i \in 1..Len(posted') /\ posted'[i] = posted[i]
  BY <1>2, <1>3
<1>4. ASSUME NEW i \in 1..Len(posted), NEW t \in Task
      PROVE  /\ Evaluates(t, i)' <=> Evaluates(t, i)
             /\ Merges(t, i)' <=> Merges(t, i)
  BY <1>3, <1>4 DEF Evaluates, Merges
<1> QED
  BY <1>2, <1>3, <1>4

(***************************************************************************)
(* A job that runs keeps the rounds in order if it drops no result, merges *)
(* its own, and starts workers only for a task with no evaluation left.    *)
(***************************************************************************)
LEMMA RoundsMove ==
  ASSUME TypeOK, RoundInv, posted # <<>>, posted' = Tail(posted), leaving' = leaving,
         \A t \in Task : best'[t] = None => best[t] = None /\ ~Merges(t, 1),
         \A t \in Task : \/ searching'[t] = searching[t]
                         \/ \A i \in 2..Len(posted) : ~Evaluates(t, i)
  PROVE  RoundInv'
<1>1. /\ Len(posted) \in Nat /\ Len(posted) >= 1 /\ Len(posted') = Len(posted) - 1
      /\ \A i \in 1..Len(posted') :
           /\ i + 1 \in 2..Len(posted)
           /\ \A t \in Task : /\ Evaluates(t, i)' <=> Evaluates(t, i + 1)
                              /\ Merges(t, i)' <=> Merges(t, i + 1)
  BY QueueMoves
<1> SUFFICES ASSUME NEW t \in Task
             PROVE  /\ Working(t)' => \A i \in 1..Len(posted') : ~Evaluates(t, i)'
                    /\ \A i, j \in 1..Len(posted') :
                         Evaluates(t, i)' /\ Evaluates(t, j)' => i = j
                    /\ leaving'[t] > 0 /\ best'[t] = None =>
                         \E i \in 1..Len(posted') : Merges(t, i)'
                    /\ \A i \in 1..Len(posted') :
                         Evaluates(t, i)' /\ best'[t] = None =>
                           \E j \in 1..(i - 1) : Merges(t, j)'
  BY DEF RoundInv
<1>2. ASSUME NEW k \in 2..Len(posted), Merges(t, k)
      PROVE  k - 1 \in 1..Len(posted') /\ Merges(t, k - 1)'
  <2>1. k - 1 \in 1..Len(posted') /\ (k - 1) + 1 = k
    BY <1>1, <1>2
  <2> QED
    BY <1>1, <1>2, <2>1
<1>3. Working(t)' => \A i \in 1..Len(posted') : ~Evaluates(t, i)'
  <2> SUFFICES ASSUME Working(t)', NEW i \in 1..Len(posted'), Evaluates(t, i)' PROVE FALSE
    OBVIOUS
  <2>1. i + 1 \in 2..Len(posted) /\ Evaluates(t, i + 1)
    BY <1>1
  <2>2. searching'[t] = searching[t]
    BY <2>1
  <2>3. Working(t)
    BY <2>2 DEF Working
  <2>4. i + 1 \in 1..Len(posted)
    BY <2>1, <1>1
  <2> QED
    BY <2>1, <2>3, <2>4 DEF RoundInv
<1>4. ASSUME NEW i \in 1..Len(posted'), NEW j \in 1..Len(posted'),
             Evaluates(t, i)', Evaluates(t, j)'
      PROVE  i = j
  <2>1. /\ i + 1 \in 1..Len(posted) /\ Evaluates(t, i + 1)
        /\ j + 1 \in 1..Len(posted) /\ Evaluates(t, j + 1)
    BY <1>1, <1>4
  <2>2. i + 1 = j + 1
    BY <2>1 DEF RoundInv
  <2> QED
    BY <2>2, <1>1
<1>5. ASSUME leaving'[t] > 0, best'[t] = None
      PROVE  \E i \in 1..Len(posted') : Merges(t, i)'
  <2>1. PICK k \in 1..Len(posted) : Merges(t, k)
    BY <1>5 DEF RoundInv
  <2>2. k # 1
    BY <2>1, <1>5
  <2>3. k \in 2..Len(posted)
    BY <2>2, <1>1
  <2> QED
    BY <2>1, <2>3, <1>2
<1>6. ASSUME NEW i \in 1..Len(posted'), Evaluates(t, i)', best'[t] = None
      PROVE  \E j \in 1..(i - 1) : Merges(t, j)'
  <2>1. i + 1 \in 1..Len(posted) /\ Evaluates(t, i + 1) /\ best[t] = None /\ ~Merges(t, 1)
    BY <1>1, <1>6
  <2>2. PICK k \in 1..((i + 1) - 1) : Merges(t, k)
    BY <2>1 DEF RoundInv
  <2>3. k # 1
    BY <2>1, <2>2
  <2>4. k \in 2..Len(posted) /\ k - 1 \in 1..(i - 1)
    BY <2>2, <2>3, <2>1, <1>1
  <2> QED
    BY <2>2, <2>4, <1>2
<1> QED
  BY <1>3, <1>4, <1>5, <1>6

\* What is idle stays idle while only the queue moves.

LEMMA IdleMoves ==
  ASSUME TypeOK, posted # <<>>, posted' = Tail(posted), leaving' = leaving,
         NEW t \in Task, Idle(t), searching'[t] = searching[t]
  PROVE  Idle(t)'
<1>1. \A i \in 1..Len(posted') : i + 1 \in 1..Len(posted) /\ posted'[i] = posted[i + 1]
  BY QueueMoves
<1> QED
  BY <1>1 DEF Idle

(***************************************************************************)
(* At the front of the queue, an evaluation finds a result, no worker of   *)
(* its round and no other evaluation.                                      *)
(***************************************************************************)
LEMMA FrontEvaluation ==
  ASSUME TypeOK, RoundInv, Due("evaluate")
  PROVE  /\ posted # <<>> /\ Len(posted) \in Nat /\ Len(posted) >= 1
         /\ Evaluated \in Task /\ Evaluated = posted[1].task
         /\ searching[Evaluated] = 0 /\ leaving[Evaluated] = 0
         /\ best[Evaluated] \in Score
         /\ \A i \in 2..Len(posted) : ~Evaluates(Evaluated, i)
         /\ \A t \in Task : ~Merges(t, 1)
<1>1. /\ posted # <<>> /\ Head(posted).do = "evaluate" /\ posted \in Seq(Job)
  BY DEF Due, TypeOK
<1>2. /\ Len(posted) \in Nat /\ Len(posted) >= 1
      /\ Head(posted) = posted[1] /\ Head(posted) \in Job
  BY <1>1, TailElements
<1>3. Evaluated \in Task /\ Evaluated = posted[1].task
  BY <1>2, JobParts DEF Evaluated
<1>4. 1 \in 1..Len(posted) /\ Evaluates(Evaluated, 1)
  BY <1>1, <1>2, <1>3 DEF Evaluates
<1>5. ~Working(Evaluated)
  BY <1>3, <1>4 DEF RoundInv
<1>6. workerNum \in Nat /\ searching[Evaluated] \in Nat /\ leaving[Evaluated] \in Nat
  BY <1>3, Tasks DEF TypeOK
<1>7. searching[Evaluated] = 0 /\ leaving[Evaluated] = 0
  BY <1>5, <1>6 DEF Working
<1>8. best[Evaluated] # None
  <2> SUFFICES ASSUME best[Evaluated] = None PROVE FALSE
    OBVIOUS
  <2>1. PICK j \in 1..(1 - 1) : Merges(Evaluated, j)
    BY <1>3, <1>4 DEF RoundInv
  <2> QED
    BY <2>1
<1>9. best[Evaluated] \in Score
  BY <1>3, <1>8 DEF TypeOK
<1>10. \A i \in 2..Len(posted) : ~Evaluates(Evaluated, i)
  <2> SUFFICES ASSUME NEW i \in 2..Len(posted), Evaluates(Evaluated, i) PROVE FALSE
    OBVIOUS
  <2>1. i \in 1..Len(posted) /\ i # 1
    BY <1>2
  <2> QED
    BY <2>1, <1>3, <1>4 DEF RoundInv
<1>11. \A t \in Task : ~Merges(t, 1)
  BY <1>1, <1>2 DEF Merges
<1> QED
  BY <1>1, <1>2, <1>3, <1>7, <1>9, <1>10, <1>11

\* An element of a sequence over a set is a member of the set.

LEMMA Elements ==
  ASSUME NEW S, NEW s \in Seq(S), NEW i \in 1..Len(s)
  PROVE  s[i] \in S
OBVIOUS

\* The pending tasks without the first one: not started yet, and still in order.

LEMMA PendingMoves ==
  ASSUME TypeOK, IdleInv, OrderInv, pendingTasks # <<>>
  PROVE  /\ Tail(pendingTasks) \in Seq(Task)
         /\ Head(pendingTasks) \in Task /\ Head(pendingTasks) <= finds
         /\ Idle(Head(pendingTasks))
         /\ Head(pendingTasks) = pendingTasks[1] /\ 1 \in 1..Len(pendingTasks)
         /\ \A i \in 1..Len(Tail(pendingTasks)) :
              /\ i + 1 \in 1..Len(pendingTasks)
              /\ Tail(pendingTasks)[i] = pendingTasks[i + 1]
              /\ Tail(pendingTasks)[i] <= finds
              /\ Head(pendingTasks) < Tail(pendingTasks)[i]
         /\ \A i, j \in 1..Len(Tail(pendingTasks)) :
              i < j => Tail(pendingTasks)[i] < Tail(pendingTasks)[j]
<1> DEFINE rest == Tail(pendingTasks)
<1>1. pendingTasks \in Seq(Task)
  BY DEF TypeOK
<1>2. /\ rest \in Seq(Task) /\ Len(rest) = Len(pendingTasks) - 1
      /\ Len(pendingTasks) \in Nat /\ Len(pendingTasks) >= 1
      /\ \A i \in 1..(Len(pendingTasks) - 1) : rest[i] = pendingTasks[i + 1]
      /\ Head(pendingTasks) = pendingTasks[1] /\ Head(pendingTasks) \in Task
  BY <1>1, TailElements
<1>3. 1 \in 1..Len(pendingTasks)
  BY <1>2
<1>4. Head(pendingTasks) <= finds /\ Idle(Head(pendingTasks))
  BY <1>2, <1>3 DEF OrderInv, IdleInv
<1>5. ASSUME NEW i \in 1..Len(rest)
      PROVE  /\ i + 1 \in 1..Len(pendingTasks) /\ 1 < i + 1
             /\ rest[i] = pendingTasks[i + 1]
  BY <1>2, <1>5
<1>6. ASSUME NEW i \in 1..Len(rest)
      PROVE  rest[i] <= finds /\ Head(pendingTasks) < rest[i]
  BY <1>2, <1>3, <1>5, <1>6 DEF OrderInv
<1>7. ASSUME NEW i \in 1..Len(rest), NEW j \in 1..Len(rest), i < j
      PROVE  rest[i] < rest[j]
  <2>1. i + 1 < j + 1
    BY <1>2, <1>7
  <2> QED
    BY <1>5, <1>7, <2>1 DEF OrderInv
<1> QED
  BY <1>2, <1>3, <1>4, <1>5, <1>6, <1>7

\* A round is started with every worker.

LEMMA RoundStarts ==
  ASSUME TypeOK, NEW t \in Task, leaving[t] = 0,
         searching' = [searching EXCEPT ![t] = workerNum]
  PROVE  /\ searching' \in [Task -> 0..workerNum]
         /\ \A u \in Task : searching'[u] + leaving[u] <= workerNum
         /\ \A u \in Task : u # t => searching'[u] = searching[u]
         /\ searching'[t] + leaving[t] > 0
<1>1. workerNum \in Nat /\ workerNum > 0
  BY Tasks DEF TypeOK
<1>2. searching \in [Task -> 0..workerNum] /\ leaving \in [Task -> 0..workerNum]
      /\ \A u \in Task : searching[u] + leaving[u] <= workerNum
  BY DEF TypeOK
<1>3. searching'[t] = workerNum /\ \A u \in Task : u # t => searching'[u] = searching[u]
  BY <1>2
<1>4. searching' \in [Task -> 0..workerNum]
  BY <1>1, <1>2
<1> QED
  BY <1>1, <1>2, <1>3, <1>4

(***************************************************************************)
(* A task completes: whether or not its handler is called, the answers are *)
(* in order, and none is for a later task.                                 *)
(***************************************************************************)
LEMMA AnswersGrow ==
  ASSUME IInv, Completes, \A t \in Task : t <= finds => threshold'[t] = threshold[t]
  PROVE  /\ found' \in Seq([task : Task, score : Score])
         /\ AnswersInOrder'
         /\ currentTask \in Task /\ currentTask <= finds
         /\ \A i \in 1..Len(found') : found'[i].task <= currentTask
<1>1. Due("evaluate") /\ GoodEnough /\ currentTask = Evaluated /\ trap = "none"
  BY DEF Completes, Due
<1>2. currentTask \in Task /\ best[currentTask] \in Score
  BY <1>1, FrontEvaluation DEF IInv
<1>3. /\ currentTask <= finds
      /\ \A i \in 1..Len(found) : found[i].task < currentTask
  BY <1>1, <1>2, Tasks DEF IInv, OrderInv
<1>4. /\ found \in Seq([task : Task, score : Score])
      /\ \A i \in 1..Len(found) : found[i] \in [task : Task, score : Score]
  <2>1. found \in Seq([task : Task, score : Score])
    BY DEF IInv, TypeOK
  <2> QED
    BY <2>1, Elements
<1>5. Task \subseteq Nat /\ finds \in Nat /\ currentTask <= currentTask
  <2>1. workerNum \in DOMAIN MaxFinds /\ finds \in 0..MaxFinds[workerNum]
    BY DEF IInv, TypeOK
  <2> QED
    BY <1>2, <2>1, Tasks
<1>6. \A i \in 1..Len(found) :
        /\ found[i].task < currentTask
        /\ found[i].task <= currentTask
        /\ threshold'[found[i].task] = threshold[found[i].task]
        /\ found[i].score >= threshold[found[i].task]
        /\ \A j \in 1..(i - 1) : found[j].task < found[i].task
  <2> TAKE i \in 1..Len(found)
  <2>1. found[i].task \in Task /\ found[i].task < currentTask
    BY <1>3, <1>4
  <2>2. found[i].task <= finds
    BY DEF IInv, OrderInv
  <2>4. found[i].task <= currentTask
    <3>1. found[i].task \in Nat /\ currentTask \in Nat
      BY <1>2, <1>5, <2>1
    <3> QED
      BY <2>1, <3>1
  <2>3. /\ found[i].score >= threshold[found[i].task]
        /\ \A j \in 1..(i - 1) : found[j].task < found[i].task
    BY DEF IInv, AnswersInOrder
  <2> QED
    BY <2>1, <2>2, <2>3, <2>4
<1>7. CASE terminated
  <2>1. found' = found
    BY <1>7 DEF Completes
  <2>2. AnswersInOrder'
    BY <1>6, <2>1 DEF AnswersInOrder
  <2>3. \A i \in 1..Len(found') : found'[i].task <= currentTask
    BY <1>2, <1>5, <1>6, <2>1
  <2> QED
    BY <1>2, <1>3, <1>4, <2>1, <2>2, <2>3
<1>8. CASE ~terminated
  <2> DEFINE answer == [task |-> currentTask, score |-> best[currentTask]]
  <2>1. found' = Append(found, answer) /\ answer \in [task : Task, score : Score]
    BY <1>1, <1>2, <1>8 DEF Completes
  <2> HIDE DEF answer
  <2>2. /\ found' \in Seq([task : Task, score : Score])
        /\ Len(found') = Len(found) + 1 /\ Len(found) \in Nat
        /\ \A i \in 1..Len(found) : found'[i] = found[i]
        /\ found'[Len(found) + 1] = answer
    BY <2>1, <1>4, AppendElements
  <2>3. /\ found'[Len(found')].task = currentTask
        /\ found'[Len(found')].score = best[currentTask]
    BY <2>2 DEF answer
  <2>4. \A i \in 1..Len(found') : i \in 1..Len(found) \/ i = Len(found')
    BY <2>2
  <2>5. \A i \in 1..Len(found') : found'[i].task <= currentTask
    BY <1>2, <1>5, <1>6, <2>2, <2>3, <2>4
  <2>6. best[currentTask] >= threshold'[currentTask]
    BY <1>1, <1>2, <1>3 DEF GoodEnough
  <2>7. ASSUME NEW i \in 1..Len(found')
        PROVE  /\ found'[i].score >= threshold'[found'[i].task]
               /\ \A j \in 1..(i - 1) : found'[j].task < found'[i].task
    <3>1. CASE i \in 1..Len(found)
      <4>1. found'[i] = found[i]
        BY <2>2, <3>1
      <4>2. \A j \in 1..(i - 1) : j \in 1..Len(found) /\ found'[j] = found[j]
        BY <2>2, <3>1
      <4> QED
        BY <1>6, <3>1, <4>1, <4>2
    <3>2. CASE i = Len(found')
      <4>1. \A j \in 1..(i - 1) : j \in 1..Len(found) /\ found'[j] = found[j]
        BY <2>2, <3>2
      <4> QED
        BY <1>6, <2>3, <2>6, <3>2, <4>1
    <3> QED
      BY <2>4, <3>1, <3>2
  <2>8. AnswersInOrder'
    BY <2>7 DEF AnswersInOrder
  <2> QED
    BY <1>2, <1>3, <2>2, <2>5, <2>8
<1> QED
  BY <1>7, <1>8

----------------------------------------------------------------------------
\* The empty sequence is one over any set, and an answer is for a task.

LEMMA EmptyQueue == ASSUME NEW S PROVE <<>> \in Seq(S) /\ Len(<<>>) = 0
OBVIOUS

LEMMA AnsweredTasks ==
  ASSUME NEW f \in Seq([task : Task, score : Score])
  PROVE  \A i \in 1..Len(f) : f[i].task \in Task
<1> SUFFICES ASSUME NEW i \in 1..Len(f) PROVE f[i].task \in Task
  OBVIOUS
<1>1. f[i] \in [task : Task, score : Score]
  BY Elements
<1> QED
  BY <1>1

\* The invariant holds when the finder is made.

LEMMA InitInv == Init => IInv
<1> SUFFICES ASSUME Init PROVE IInv
  OBVIOUS
<1>1. workerNum \in DOMAIN MaxFinds /\ workerNum \in Nat /\ MaxFinds[workerNum] \in Nat
  BY Tasks DEF Init
<1>2. 0 \in 0..workerNum /\ 0 \in 0..MaxFinds[workerNum]
  BY <1>1
<1>3. posted = <<>> /\ Len(posted) = 0 /\ found = <<>> /\ Len(found) = 0
      /\ pendingTasks = <<>> /\ Len(pendingTasks) = 0
  BY DEF Init
<1>4. TypeOK
  <2>1. \A t \in Task : searching[t] + leaving[t] <= workerNum
    BY <1>1 DEF Init
  <2>2. /\ pendingTasks \in Seq(Task) /\ posted \in Seq(Job)
        /\ found \in Seq([task : Task, score : Score])
    BY <1>3, EmptyQueue
  <2>3. /\ threshold \in [Task -> Nat] /\ best \in [Task -> Score \cup {None}]
        /\ searching \in [Task -> 0..workerNum] /\ leaving \in [Task -> 0..workerNum]
    BY <1>2 DEF Init
  <2> QED
    BY <1>2, <2>1, <2>2, <2>3 DEF Init, TypeOK
<1>5. RoundInv
  BY <1>3 DEF Init, RoundInv, Working
<1>6. CurrentInv /\ ResultThere
  BY DEF Init, CurrentInv, ResultThere
<1>7. IdleInv
  BY <1>3 DEF Init, IdleInv, Idle
<1>8. OrderInv
  BY <1>3 DEF Init, OrderInv
<1>9. AnswersInOrder
  BY <1>3 DEF AnswersInOrder
<1> QED
  BY <1>4, <1>5, <1>6, <1>7, <1>8, <1>9 DEF IInv

\* A call of find() puts its task behind the others, or starts it.

LEMMA FindKeeps == IInv /\ Find => IInv'
<1> SUFFICES ASSUME IInv, Find PROVE IInv'
  OBVIOUS
<1>1. /\ finds' = finds + 1 /\ finds' \in Task /\ finds \in Nat
      /\ finds' \in 0..MaxFinds[workerNum]
      /\ threshold' \in [Task -> Nat]
      /\ \A t \in Task : t <= finds => threshold'[t] = threshold[t]
  BY NewTaskIsTask DEF IInv, Find
<1>2. /\ trap = "none"
      /\ UNCHANGED <<workerNum, terminated, best, leaving, posted, found>>
  BY DEF Find, finder
<1>3. Task \subseteq Nat /\ None \notin Task
  BY Tasks
<1>4. Idle(finds') /\ leaving[finds'] = 0
  BY <1>1 DEF IInv, IdleInv, Idle
<1>5. AnswersInOrder'
  <2>1. \A i \in 1..Len(found) :
          threshold'[found[i].task] = threshold[found[i].task]
    <3> TAKE i \in 1..Len(found)
    <3>1. found[i].task \in Task
      BY AnsweredTasks DEF IInv, TypeOK
    <3>2. found[i].task <= finds
      BY DEF IInv, OrderInv
    <3> QED
      BY <1>1, <3>1, <3>2
  <2> QED
    BY <1>2, <2>1 DEF IInv, AnswersInOrder
<1>6. \A i \in 1..Len(found) : found[i].task <= finds' /\ found[i].task < finds'
  <2> TAKE i \in 1..Len(found)
  <2>1. found[i].task \in Task
    BY AnsweredTasks DEF IInv, TypeOK
  <2>2. found[i].task \in Nat /\ found[i].task <= finds
    BY <1>3, <2>1 DEF IInv, OrderInv
  <2> QED
    BY <1>1, <2>2
<1>7. CASE currentTask # None
  <2>1. /\ pendingTasks' = Append(pendingTasks, finds')
        /\ UNCHANGED <<currentTask, searching, trap>>
    BY <1>7 DEF Find
  <2>2. pendingTasks \in Seq(Task)
    BY DEF IInv, TypeOK
  <2>3. /\ pendingTasks' \in Seq(Task)
        /\ Len(pendingTasks') = Len(pendingTasks) + 1 /\ Len(pendingTasks) \in Nat
        /\ \A i \in 1..Len(pendingTasks) : pendingTasks'[i] = pendingTasks[i]
        /\ pendingTasks'[Len(pendingTasks) + 1] = finds'
    BY <1>1, <2>1, <2>2, AppendElements
  <2>4. \A i \in 1..Len(pendingTasks') : i \in 1..Len(pendingTasks) \/ i = Len(pendingTasks) + 1
    BY <2>3
  <2>5. \A i \in 1..Len(pendingTasks) :
          pendingTasks[i] \in Nat /\ pendingTasks[i] <= finds /\ pendingTasks[i] < finds'
    <3> TAKE i \in 1..Len(pendingTasks)
    <3>1. pendingTasks[i] \in Nat /\ pendingTasks[i] <= finds
      BY <1>3, <2>2, Elements DEF IInv, OrderInv
    <3> QED
      BY <1>1, <3>1
  <2>6. TypeOK'
    BY <1>1, <1>2, <2>1, <2>3 DEF IInv, TypeOK
  <2>7. RoundInv' /\ CurrentInv' /\ ResultThere'
    BY <1>2, <2>1 DEF IInv, RoundInv, CurrentInv, ResultThere, Working, Evaluates, Merges
  <2>8. IdleInv'
    <3> SUFFICES ASSUME NEW t \in Task,
                        \/ t > finds'
                        \/ \E i \in 1..Len(pendingTasks') : pendingTasks'[i] = t
                 PROVE  Idle(t)'
      BY DEF IdleInv
    <3>1. t > finds \/ t = finds' \/ \E i \in 1..Len(pendingTasks) : pendingTasks[i] = t
      BY <1>1, <1>3, <2>3, <2>4
    <3>2. Idle(t)
      BY <1>4, <3>1 DEF IInv, IdleInv
    <3> QED
      BY <1>2, <2>1, <3>2 DEF Idle
  <2>9. OrderInv'
    <3>1. \A i \in 1..Len(pendingTasks') : pendingTasks'[i] <= finds'
      BY <1>1, <2>3, <2>4, <2>5
    <3>2. \A i, j \in 1..Len(pendingTasks') : i < j => pendingTasks'[i] < pendingTasks'[j]
      <4> SUFFICES ASSUME NEW i \in 1..Len(pendingTasks'),
                          NEW j \in 1..Len(pendingTasks'), i < j
                   PROVE  pendingTasks'[i] < pendingTasks'[j]
        OBVIOUS
      <4>1. i \in 1..Len(pendingTasks)
        BY <2>3
      <4>2. CASE j \in 1..Len(pendingTasks)
        BY <2>3, <4>1, <4>2 DEF IInv, OrderInv
      <4>3. CASE j = Len(pendingTasks) + 1
        BY <2>3, <2>5, <4>1, <4>3
      <4> QED
        BY <2>4, <4>2, <4>3
    <3>3. /\ currentTask <= finds /\ currentTask \in Nat
          /\ \A i \in 1..Len(pendingTasks) : currentTask < pendingTasks[i]
          /\ \A i \in 1..Len(found) : found[i].task < currentTask
      BY <1>2, <1>3, <1>7 DEF IInv, OrderInv, TypeOK
    <3>4. currentTask <= finds' /\ currentTask < finds'
      BY <1>1, <3>3
    <3>5. \A i \in 1..Len(pendingTasks') : currentTask < pendingTasks'[i]
      BY <2>3, <2>4, <3>3, <3>4
    <3> QED
      BY <1>2, <1>6, <1>7, <2>1, <3>1, <3>2, <3>3, <3>4, <3>5 DEF OrderInv
  <2> QED
    BY <1>5, <2>6, <2>7, <2>8, <2>9 DEF IInv
<1>8. CASE currentTask = None
  <2>1. /\ currentTask' = finds' /\ searching' = [searching EXCEPT ![finds'] = workerNum]
        /\ UNCHANGED <<pendingTasks, trap>>
    BY <1>8 DEF Find, StartTask
  <2>2. /\ searching' \in [Task -> 0..workerNum]
        /\ \A u \in Task : searching'[u] + leaving[u] <= workerNum
        /\ \A u \in Task : u # finds' => searching'[u] = searching[u]
        /\ searching'[finds'] + leaving[finds'] > 0
    BY <1>1, <1>4, <2>1, RoundStarts DEF IInv
  <2>3. pendingTasks = <<>> /\ Len(pendingTasks) = 0
    BY <1>2, <1>8 DEF IInv, OrderInv
  <2>4. TypeOK'
    BY <1>1, <1>2, <2>1, <2>2 DEF IInv, TypeOK
  <2>5. RoundInv'
    <3>1. \A i \in 1..Len(posted) : ~Evaluates(finds', i)
      BY <1>4 DEF Idle, Evaluates
    <3>2. \A t \in Task : Working(t)' => Working(t) \/ t = finds'
      BY <1>2, <2>2 DEF Working
    <3> QED
      BY <1>2, <3>1, <3>2 DEF IInv, RoundInv, Evaluates, Merges
  <2>6. CurrentInv' /\ ResultThere'
    BY <1>2, <2>1, <2>2 DEF CurrentInv, ResultThere, Working
  <2>7. IdleInv'
    <3> SUFFICES ASSUME NEW t \in Task, t > finds' PROVE Idle(t)'
      BY <2>1, <2>3 DEF IdleInv
    <3>1. t > finds /\ t # finds'
      BY <1>1, <1>3
    <3>2. Idle(t) /\ searching'[t] = searching[t]
      BY <2>2, <3>1 DEF IInv, IdleInv
    <3> QED
      BY <1>2, <3>2 DEF Idle
  <2>8. OrderInv'
    <3>1. finds' <= finds' /\ finds' # None
      BY <1>1, <1>3
    <3> QED
      BY <1>2, <1>6, <2>1, <2>3, <3>1 DEF OrderInv
  <2> QED
    BY <1>5, <2>4, <2>5, <2>6, <2>7, <2>8 DEF IInv
<1> QED
  BY <1>7, <1>8

\* terminate() lets go of every task; their workers and jobs go on.

LEMMA TerminateKeeps == IInv /\ Terminate => IInv'
<1> SUFFICES ASSUME IInv, Terminate PROVE IInv'
  OBVIOUS
<1>1. /\ currentTask' = None /\ pendingTasks' = <<>> /\ terminated' = TRUE
      /\ Len(pendingTasks') = 0
      /\ UNCHANGED <<workerNum, threshold, best, searching, leaving, posted, found, finds, trap>>
  BY DEF Terminate, roundVars
<1>2. TypeOK'
  BY <1>1 DEF IInv, TypeOK
<1>3. RoundInv' /\ CurrentInv' /\ ResultThere'
  BY <1>1 DEF IInv, RoundInv, CurrentInv, ResultThere, Working, Evaluates, Merges
<1>4. IdleInv'
  BY <1>1 DEF IInv, IdleInv, Idle
<1>5. OrderInv'
  BY <1>1 DEF IInv, OrderInv
<1>6. AnswersInOrder'
  BY <1>1 DEF IInv, AnswersInOrder
<1> QED
  BY <1>2, <1>3, <1>4, <1>5, <1>6 DEF IInv

\* A worker posts a result, which waits on the queue until it leaves.

LEMMA WorkerPostsKeeps ==
  ASSUME IInv, NEW t \in Task, NEW s \in Score, WorkerPosts(t, s)
  PROVE  IInv'
<1> DEFINE job == [do |-> "merge", task |-> t, score |-> s]
<1>1. /\ trap = "none" /\ searching[t] > 0
      /\ searching' = [searching EXCEPT ![t] = @ - 1]
      /\ leaving' = [leaving EXCEPT ![t] = @ + 1]
      /\ posted' = Append(posted, job)
      /\ UNCHANGED <<workerNum, terminated, currentTask, pendingTasks, threshold, best,
                     found, finds, trap>>
  BY DEF WorkerPosts, finder
<1>2. job \in Job /\ job.do = "merge" /\ job.task = t
  BY JobsMade
<1> HIDE DEF job
<1>3. TypeOK /\ workerNum \in Nat
  BY Tasks DEF IInv, TypeOK
<1>4. /\ posted' \in Seq(Job)
      /\ Len(posted) \in Nat /\ Len(posted') = Len(posted) + 1
      /\ posted'[Len(posted')] = job
      /\ \A i \in 1..Len(posted) :
           /\ i \in 1..Len(posted') /\ posted'[i] = posted[i]
           /\ \A u \in Task : /\ Evaluates(u, i)' <=> Evaluates(u, i)
                              /\ Merges(u, i)' <=> Merges(u, i)
  BY <1>1, <1>2, <1>3, QueueGrows
<1>5. \A i \in 1..Len(posted') : i \in 1..Len(posted) \/ i = Len(posted')
  BY <1>4
<1>6. /\ searching \in [Task -> 0..workerNum] /\ leaving \in [Task -> 0..workerNum]
      /\ \A u \in Task : searching[u] + leaving[u] <= workerNum
  BY <1>3 DEF TypeOK
<1>7. /\ searching'[t] = searching[t] - 1 /\ leaving'[t] = leaving[t] + 1
      /\ \A u \in Task : u # t => searching'[u] = searching[u] /\ leaving'[u] = leaving[u]
  BY <1>1, <1>6
<1>8. \A u \in Task : /\ searching'[u] \in 0..workerNum /\ leaving'[u] \in 0..workerNum
                      /\ searching'[u] + leaving'[u] = searching[u] + leaving[u]
  <2> TAKE u \in Task
  <2>1. CASE u = t
    <3>1. searching[t] \in 0..workerNum /\ leaving[t] \in 0..workerNum
          /\ searching[t] + leaving[t] <= workerNum
      BY <1>6
    <3> QED
      BY <1>1, <1>3, <1>7, <2>1, <3>1
  <2>2. CASE u # t
    BY <1>6, <1>7, <2>2
  <2> QED
    BY <2>1, <2>2
<1>9. TypeOK'
  <2>1. searching' \in [Task -> 0..workerNum] /\ leaving' \in [Task -> 0..workerNum]
    BY <1>1, <1>6, <1>8
  <2>2. \A u \in Task : searching'[u] + leaving'[u] <= workerNum
    BY <1>6, <1>8
  <2> QED
    BY <1>1, <1>3, <1>4, <2>1, <2>2 DEF TypeOK
<1>10. \A u \in Task : Working(u)' <=> Working(u)
  BY <1>8 DEF Working
<1>11. Working(t)
  <2>1. searching[t] \in 0..workerNum /\ leaving[t] \in 0..workerNum
    BY <1>6
  <2> QED
    BY <1>1, <1>3, <2>1 DEF Working
<1>12. \A i \in 1..Len(posted') : i = Len(posted') =>
         Merges(t, i)' /\ \A u \in Task : ~Evaluates(u, i)'
  BY <1>2, <1>4 DEF Merges, Evaluates
<1>13. RoundInv'
  <2> SUFFICES ASSUME NEW u \in Task
               PROVE  /\ Working(u)' => \A i \in 1..Len(posted') : ~Evaluates(u, i)'
                      /\ \A i, j \in 1..Len(posted') :
                           Evaluates(u, i)' /\ Evaluates(u, j)' => i = j
                      /\ leaving'[u] > 0 /\ best'[u] = None =>
                           \E i \in 1..Len(posted') : Merges(u, i)'
                      /\ \A i \in 1..Len(posted') :
                           Evaluates(u, i)' /\ best'[u] = None =>
                             \E j \in 1..(i - 1) : Merges(u, j)'
    BY DEF RoundInv
  <2>1. \A i \in 1..Len(posted') : Evaluates(u, i)' => i \in 1..Len(posted) /\ Evaluates(u, i)
    BY <1>4, <1>5, <1>12
  <2>2. Working(u)' => \A i \in 1..Len(posted') : ~Evaluates(u, i)'
    BY <1>10, <2>1 DEF IInv, RoundInv
  <2>3. \A i, j \in 1..Len(posted') : Evaluates(u, i)' /\ Evaluates(u, j)' => i = j
    BY <2>1 DEF IInv, RoundInv
  <2>4. ASSUME leaving'[u] > 0, best'[u] = None
        PROVE  \E i \in 1..Len(posted') : Merges(u, i)'
    <3>1. CASE u = t
      <4>1. Len(posted') \in 1..Len(posted')
        BY <1>4
      <4> QED
        BY <1>12, <3>1, <4>1
    <3>2. CASE u # t
      <4>1. PICK i \in 1..Len(posted) : Merges(u, i)
        BY <1>1, <1>7, <2>4, <3>2 DEF IInv, RoundInv
      <4> QED
        BY <1>4, <4>1
    <3> QED
      BY <3>1, <3>2
  <2>5. ASSUME NEW i \in 1..Len(posted'), Evaluates(u, i)', best'[u] = None
        PROVE  \E j \in 1..(i - 1) : Merges(u, j)'
    <3>1. i \in 1..Len(posted) /\ Evaluates(u, i) /\ best[u] = None
      BY <1>1, <2>1, <2>5
    <3>2. PICK j \in 1..(i - 1) : Merges(u, j)
      BY <3>1 DEF IInv, RoundInv
    <3>3. j \in 1..Len(posted)
      BY <1>4, <3>1
    <3> QED
      BY <1>4, <3>2, <3>3
  <2> QED
    BY <2>2, <2>3, <2>4, <2>5
<1>14. CurrentInv'
  <2> SUFFICES ASSUME trap = "none", currentTask # None
               PROVE  \/ Working(currentTask)'
                      \/ \E i \in 1..Len(posted') : Evaluates(currentTask, i)'
    BY <1>1 DEF CurrentInv
  <2>1. currentTask \in Task
    BY <1>3 DEF TypeOK
  <2>2. Working(currentTask) \/ \E i \in 1..Len(posted) : Evaluates(currentTask, i)
    BY DEF IInv, CurrentInv
  <2>3. Working(currentTask)' <=> searching'[currentTask] + leaving'[currentTask] > 0
    BY <1>1 DEF Working
  <2>4. ASSUME NEW i \in 1..Len(posted), Evaluates(currentTask, i)
        PROVE  i \in 1..Len(posted') /\ Evaluates(currentTask, i)'
    BY <1>1, <1>4, <2>4 DEF Evaluates
  <2> QED
    BY <1>8, <2>1, <2>2, <2>3, <2>4 DEF Working
<1>15. IdleInv'
  <2> SUFFICES ASSUME NEW u \in Task, Idle(u) PROVE Idle(u)'
    BY <1>1 DEF IInv, IdleInv
  <2>1. u # t
    BY <1>1 DEF Idle
  <2>2. searching'[u] = 0 /\ leaving'[u] = 0
    BY <1>7, <2>1 DEF Idle
  <2>3. \A i \in 1..Len(posted') : posted'[i].task # u
    BY <1>2, <1>4, <1>5, <2>1 DEF Idle
  <2> QED
    BY <2>2, <2>3 DEF Idle
<1>16. OrderInv' /\ AnswersInOrder' /\ ResultThere'
  BY <1>1 DEF IInv, OrderInv, AnswersInOrder, ResultThere
<1> QED
  BY <1>9, <1>13, <1>14, <1>15, <1>16 DEF IInv

\* A worker leaves; the last one posts the evaluation behind every result.

LEMMA WorkerLeavesKeeps ==
  ASSUME IInv, NEW t \in Task, WorkerLeaves(t)
  PROVE  IInv'
<1> DEFINE job == [do |-> "evaluate", task |-> t]
           last == searching[t] = 0 /\ leaving[t] = 1
<1>1. /\ trap = "none" /\ leaving[t] > 0
      /\ leaving' = [leaving EXCEPT ![t] = @ - 1]
      /\ posted' = IF last THEN Append(posted, job) ELSE posted
      /\ UNCHANGED <<workerNum, terminated, currentTask, pendingTasks, threshold, best,
                     searching, found, finds, trap>>
  BY DEF WorkerLeaves, finder
<1>2. job \in Job /\ job.do = "evaluate" /\ job.task = t
  <2>1. job.do = "evaluate" /\ job.task = t
    OBVIOUS
  <2> QED
    BY <2>1 DEF Job
<1>3. TypeOK /\ workerNum \in Nat
  BY Tasks DEF IInv, TypeOK
<1>4. /\ searching \in [Task -> 0..workerNum] /\ leaving \in [Task -> 0..workerNum]
      /\ \A u \in Task : searching[u] + leaving[u] <= workerNum
  BY <1>3 DEF TypeOK
<1>5. /\ searching[t] \in Nat /\ leaving[t] \in Nat
      /\ leaving'[t] = leaving[t] - 1 /\ leaving'[t] \in 0..workerNum
  BY <1>1, <1>3, <1>4
<1>6. \A u \in Task : u # t => leaving'[u] = leaving[u]
  BY <1>1, <1>4
<1>7. \A u \in Task : /\ leaving'[u] \in 0..workerNum
                      /\ searching'[u] + leaving'[u] <= workerNum
  <2> TAKE u \in Task
  <2>1. CASE u = t
    <3>1. searching[t] + leaving[t] <= workerNum /\ searching'[t] = searching[t]
      BY <1>1, <1>4
    <3> QED
      BY <1>3, <1>5, <2>1, <3>1
  <2>2. CASE u # t
    BY <1>1, <1>4, <1>6, <2>2
  <2> QED
    BY <2>1, <2>2
<1>8. Working(t) /\ \A i \in 1..Len(posted) : ~Evaluates(t, i)
  <2>1. Working(t)
    BY <1>1, <1>5 DEF Working
  <2> QED
    BY <2>1 DEF IInv, RoundInv
<1>9. \A u \in Task : u # t => (Working(u)' <=> Working(u))
  BY <1>1, <1>6 DEF Working
<1>10. leaving' \in [Task -> 0..workerNum]
  BY <1>1, <1>4, <1>7
<1>11. OrderInv' /\ AnswersInOrder' /\ ResultThere'
  BY <1>1 DEF IInv, OrderInv, AnswersInOrder, ResultThere
<1>12. \A u \in Task : Idle(u) => u # t
  BY <1>1 DEF Idle
<1> HIDE DEF job
<1>13. CASE last
  <2>1. /\ posted' \in Seq(Job)
        /\ Len(posted) \in Nat /\ Len(posted') = Len(posted) + 1
        /\ posted'[Len(posted')] = job
        /\ \A i \in 1..Len(posted) :
             /\ i \in 1..Len(posted') /\ posted'[i] = posted[i]
             /\ \A u \in Task : /\ Evaluates(u, i)' <=> Evaluates(u, i)
                                /\ Merges(u, i)' <=> Merges(u, i)
    BY <1>1, <1>2, <1>3, <1>13, QueueGrows
  <2>2. /\ \A i \in 1..Len(posted') : i \in 1..Len(posted) \/ i = Len(posted')
        /\ Len(posted') \in 1..Len(posted')
    BY <2>1
  <2>3. \A i \in 1..Len(posted') : i = Len(posted') =>
          \A u \in Task : Evaluates(u, i)' <=> u = t
    BY <1>2, <2>1 DEF Evaluates
  <2>4. ~Working(t)'
    <3>1. searching'[t] = 0 /\ leaving'[t] = 0
      BY <1>1, <1>5, <1>13
    <3> QED
      BY <3>1 DEF Working
  <2>5. TypeOK'
    BY <1>1, <1>3, <1>7, <1>10, <2>1 DEF TypeOK
  <2>6. RoundInv'
    <3> SUFFICES ASSUME NEW u \in Task
                 PROVE  /\ Working(u)' => \A i \in 1..Len(posted') : ~Evaluates(u, i)'
                        /\ \A i, j \in 1..Len(posted') :
                             Evaluates(u, i)' /\ Evaluates(u, j)' => i = j
                        /\ leaving'[u] > 0 /\ best'[u] = None =>
                             \E i \in 1..Len(posted') : Merges(u, i)'
                        /\ \A i \in 1..Len(posted') :
                             Evaluates(u, i)' /\ best'[u] = None =>
                               \E j \in 1..(i - 1) : Merges(u, j)'
      BY DEF RoundInv
    <3>1. \A i \in 1..Len(posted') : Evaluates(u, i)' =>
            \/ u = t /\ i = Len(posted')
            \/ u # t /\ i \in 1..Len(posted) /\ Evaluates(u, i)
      BY <1>8, <2>1, <2>2, <2>3
    <3>2. Working(u)' => \A i \in 1..Len(posted') : ~Evaluates(u, i)'
      BY <1>9, <2>4, <3>1 DEF IInv, RoundInv
    <3>3. \A i, j \in 1..Len(posted') : Evaluates(u, i)' /\ Evaluates(u, j)' => i = j
      BY <3>1 DEF IInv, RoundInv
    <3>4. ASSUME leaving'[u] > 0, best'[u] = None
          PROVE  \E i \in 1..Len(posted') : Merges(u, i)'
      <4>1. leaving[u] > 0 /\ best[u] = None
        BY <1>1, <1>6, <3>4
      <4>2. PICK i \in 1..Len(posted) : Merges(u, i)
        BY <4>1 DEF IInv, RoundInv
      <4> QED
        BY <2>1, <4>2
    <3>5. ASSUME NEW i \in 1..Len(posted'), Evaluates(u, i)', best'[u] = None
          PROVE  \E j \in 1..(i - 1) : Merges(u, j)'
      <4>1. CASE u = t /\ i = Len(posted')
        <5>1. PICK j \in 1..Len(posted) : Merges(u, j)
          BY <1>1, <3>5, <4>1 DEF IInv, RoundInv
        <5>2. j \in 1..(i - 1)
          BY <2>1, <4>1
        <5> QED
          BY <2>1, <5>1, <5>2
      <4>2. CASE i \in 1..Len(posted) /\ Evaluates(u, i)
        <5>1. PICK j \in 1..(i - 1) : Merges(u, j)
          BY <1>1, <3>5, <4>2 DEF IInv, RoundInv
        <5>2. j \in 1..Len(posted)
          BY <2>1, <4>2
        <5> QED
          BY <2>1, <5>1, <5>2
      <4> QED
        BY <3>1, <3>5, <4>1, <4>2
    <3> QED
      BY <3>2, <3>3, <3>4, <3>5
  <2>7. CurrentInv'
    <3> SUFFICES ASSUME trap = "none", currentTask # None
                 PROVE  \/ Working(currentTask)'
                        \/ \E i \in 1..Len(posted') : Evaluates(currentTask, i)'
      BY <1>1 DEF CurrentInv
    <3>1. currentTask \in Task
      BY <1>3 DEF TypeOK
    <3>2. Working(currentTask) \/ \E i \in 1..Len(posted) : Evaluates(currentTask, i)
      BY DEF IInv, CurrentInv
    <3>3. CASE currentTask = t
      <4>1. \A i \in 1..Len(posted') : i = Len(posted') => Evaluates(currentTask, i)'
        BY <1>1, <1>2, <2>1, <3>3 DEF Evaluates
      <4> QED
        BY <2>2, <4>1
    <3>4. CASE currentTask # t
      <4>1. Working(currentTask)' <=> Working(currentTask)
        BY <1>1, <1>6, <3>1, <3>4 DEF Working
      <4>2. \A i \in 1..Len(posted) : Evaluates(currentTask, i) =>
              i \in 1..Len(posted') /\ Evaluates(currentTask, i)'
        BY <1>1, <2>1 DEF Evaluates
      <4> QED
        BY <3>2, <4>1, <4>2
    <3> QED
      BY <3>3, <3>4
  <2>8. IdleInv'
    <3> SUFFICES ASSUME NEW u \in Task, Idle(u) PROVE Idle(u)'
      BY <1>1 DEF IInv, IdleInv
    <3>1. \A i \in 1..Len(posted') : posted'[i].task # u
      BY <1>2, <1>12, <2>1, <2>2 DEF Idle
    <3> QED
      BY <1>1, <1>6, <1>12, <3>1 DEF Idle
  <2> QED
    BY <1>11, <2>5, <2>6, <2>7, <2>8 DEF IInv
<1>14. CASE ~last
  <2>1. posted' = posted
    BY <1>1, <1>14
  <2>2. Working(t)'
    <3>1. searching'[t] + leaving'[t] > 0
      BY <1>1, <1>5, <1>14
    <3> QED
      BY <3>1 DEF Working
  <2>3. \A u \in Task : Working(u)' <=> Working(u)
    BY <1>8, <1>9, <2>2
  <2>4. TypeOK'
    BY <1>1, <1>3, <1>7, <1>10, <2>1 DEF TypeOK
  <2>5. RoundInv'
    <3>1. \A u \in Task : leaving'[u] > 0 => leaving[u] > 0
      BY <1>1, <1>6
    <3> QED
      BY <1>1, <2>1, <2>3, <3>1 DEF IInv, RoundInv, Evaluates, Merges
  <2>6. CurrentInv'
    <3>1. currentTask # None => currentTask \in Task
      BY <1>3 DEF TypeOK
    <3>2. currentTask # None => (Working(currentTask)' <=> Working(currentTask))
      BY <1>1, <1>6, <1>8, <2>2, <3>1 DEF Working
    <3> QED
      BY <1>1, <2>1, <3>2 DEF IInv, CurrentInv, Evaluates
  <2>7. IdleInv'
    <3> SUFFICES ASSUME NEW u \in Task, Idle(u) PROVE Idle(u)'
      BY <1>1 DEF IInv, IdleInv
    <3> QED
      BY <1>1, <1>6, <1>12, <2>1 DEF Idle
  <2> QED
    BY <1>11, <2>4, <2>5, <2>6, <2>7 DEF IInv
<1> QED
  BY <1>13, <1>14

\* A result is merged, which leaves the task with one.

LEMMA MergeKeeps == IInv /\ Merge => IInv'
<1> SUFFICES ASSUME IInv, Merge PROVE IInv'
  OBVIOUS
<1>1. /\ trap = "none" /\ posted # <<>> /\ Head(posted).do = "merge"
      /\ posted' = Tail(posted)
      /\ UNCHANGED <<workerNum, terminated, currentTask, pendingTasks, threshold,
                     searching, leaving, found, finds, trap>>
  BY DEF Merge, Due, finder, roundVars
<1>2. TypeOK
  BY DEF IInv
<1>3. /\ posted' \in Seq(Job)
      /\ Len(posted) \in Nat /\ Len(posted) >= 1 /\ Len(posted') = Len(posted) - 1
      /\ Head(posted) = posted[1] /\ posted[1] \in Job
      /\ \A i \in 1..Len(posted') : i + 1 \in 2..Len(posted) /\ posted'[i] = posted[i + 1]
  BY <1>1, <1>2, QueueMoves
<1> DEFINE r == Head(posted).task
           s == Head(posted).score
<1>4. r \in Task /\ s \in Score
  BY <1>1, <1>3, JobParts
<1>5. best \in [Task -> Score \cup {None}] /\ None \notin Score
  BY <1>2, WorkFinderAssumption DEF TypeOK
<1>6. \/ best' = [best EXCEPT ![r] = s]
      \/ best' = best /\ best[r] # None
  BY DEF Merge
<1> HIDE DEF r, s
<1>7. best' \in [Task -> Score \cup {None}]
  BY <1>4, <1>5, <1>6
<1>8. \A t \in Task : best'[t] = None => best[t] = None /\ t # r
  BY <1>4, <1>5, <1>6
<1>9. \A t \in Task : Merges(t, 1) => t = r
  BY <1>3 DEF Merges, r
<1>10. TypeOK'
  BY <1>1, <1>2, <1>3, <1>7 DEF TypeOK
<1>11. RoundInv'
  BY <1>1, <1>2, <1>8, <1>9, RoundsMove DEF IInv
<1>12. CurrentInv'
  <2> SUFFICES ASSUME currentTask # None
               PROVE  \/ Working(currentTask)'
                      \/ \E i \in 1..Len(posted') : Evaluates(currentTask, i)'
    BY <1>1 DEF CurrentInv
  <2>1. CASE Working(currentTask)
    BY <1>1, <2>1 DEF Working
  <2>2. CASE \E i \in 1..Len(posted) : Evaluates(currentTask, i)
    <3>1. PICK i \in 1..Len(posted) : Evaluates(currentTask, i)
      BY <2>2
    <3>2. i # 1
      BY <1>1, <1>3, <3>1 DEF Evaluates
    <3>3. i - 1 \in 1..Len(posted') /\ (i - 1) + 1 = i
      BY <1>3, <3>2
    <3>4. posted'[i - 1] = posted[i]
      BY <1>3, <3>3
    <3>5. Evaluates(currentTask, i - 1)'
      BY <1>1, <3>1, <3>4 DEF Evaluates
    <3> QED
      BY <3>3, <3>5
  <2> QED
    BY <1>1, <2>1, <2>2 DEF IInv, CurrentInv
<1>13. IdleInv'
  <2> SUFFICES ASSUME NEW t \in Task, Idle(t) PROVE Idle(t)'
    BY <1>1 DEF IInv, IdleInv
  <2> QED
    BY <1>1, <1>2, IdleMoves
<1>14. OrderInv' /\ AnswersInOrder' /\ ResultThere'
  BY <1>1 DEF IInv, OrderInv, AnswersInOrder, ResultThere
<1> QED
  BY <1>10, <1>11, <1>12, <1>13, <1>14 DEF IInv

\* The current task keeps its round when the round of another is evaluated.

LEMMA CurrentMoves ==
  ASSUME TypeOK, CurrentInv, RoundInv, Due("evaluate"), currentTask # Evaluated,
         posted' = Tail(posted), UNCHANGED <<currentTask, leaving, trap>>,
         currentTask \in Task => searching'[currentTask] = searching[currentTask]
  PROVE  CurrentInv'
<1>1. /\ posted # <<>> /\ Len(posted) \in Nat /\ Len(posted) >= 1
      /\ Evaluated = posted[1].task
  BY FrontEvaluation
<1>2. /\ Len(posted') = Len(posted) - 1
      /\ \A i \in 1..Len(posted') : posted'[i] = posted[i + 1]
  BY <1>1, QueueMoves
<1> SUFFICES ASSUME currentTask # None, trap = "none"
             PROVE  \/ Working(currentTask)'
                    \/ \E i \in 1..Len(posted') : Evaluates(currentTask, i)'
  BY DEF CurrentInv
<1>3. currentTask \in Task
  BY DEF TypeOK
<1>4. CASE Working(currentTask)
  BY <1>3, <1>4 DEF Working
<1>5. CASE \E i \in 1..Len(posted) : Evaluates(currentTask, i)
  <2>1. PICK i \in 1..Len(posted) : Evaluates(currentTask, i)
    BY <1>5
  <2>2. i # 1
    BY <1>1, <2>1 DEF Evaluates
  <2>3. i - 1 \in 1..Len(posted') /\ (i - 1) + 1 = i
    BY <1>1, <1>2, <2>2
  <2>4. posted'[i - 1] = posted[i]
    BY <1>2, <2>3
  <2>5. Evaluates(currentTask, i - 1)'
    BY <2>1, <2>4 DEF Evaluates
  <2> QED
    BY <2>3, <2>5
<1> QED
  BY <1>4, <1>5 DEF CurrentInv

\* A round whose result will not do is followed by another if its task is current.

LEMMA SearchOnKeeps == IInv /\ SearchOn => IInv'
<1> SUFFICES ASSUME IInv, SearchOn PROVE IInv'
  OBVIOUS
<1>1. TypeOK /\ RoundInv /\ Due("evaluate") /\ trap = "none"
  BY DEF IInv, SearchOn, Due
<1>2. /\ posted # <<>> /\ Evaluated \in Task /\ Evaluated = posted[1].task
      /\ leaving[Evaluated] = 0 /\ best[Evaluated] # None
      /\ \A i \in 2..Len(posted) : ~Evaluates(Evaluated, i)
      /\ \A t \in Task : ~Merges(t, 1)
  BY <1>1, FrontEvaluation, WorkFinderAssumption
<1>3. /\ posted' = Tail(posted)
      /\ searching' = IF currentTask = Evaluated
                        THEN [searching EXCEPT ![Evaluated] = workerNum]
                        ELSE searching
      /\ UNCHANGED <<workerNum, terminated, currentTask, pendingTasks, threshold, best,
                     leaving, found, finds, trap>>
  BY <1>2 DEF SearchOn, finder
<1>4. posted' \in Seq(Job) /\ 1 \in 1..Len(posted)
  BY <1>1, <1>2, <1>3, QueueMoves
<1>5. /\ searching' \in [Task -> 0..workerNum]
      /\ \A u \in Task : searching'[u] + leaving[u] <= workerNum
      /\ \A u \in Task : u # Evaluated => searching'[u] = searching[u]
      /\ currentTask = Evaluated => searching'[Evaluated] + leaving[Evaluated] > 0
  <2>1. CASE currentTask = Evaluated
    <3>1. searching' = [searching EXCEPT ![Evaluated] = workerNum]
      BY <1>3, <2>1
    <3> HIDE DEF Evaluated
    <3> QED
      BY <1>1, <1>2, <3>1, RoundStarts
  <2>2. CASE currentTask # Evaluated
    BY <1>1, <1>3, <2>2 DEF TypeOK
  <2> QED
    BY <2>1, <2>2
<1>6. TypeOK'
  BY <1>1, <1>3, <1>4, <1>5 DEF TypeOK
<1>7. RoundInv'
  <2>1. \A t \in Task : \/ searching'[t] = searching[t]
                        \/ \A i \in 2..Len(posted) : ~Evaluates(t, i)
    BY <1>2, <1>5
  <2>2. \A t \in Task : best'[t] = None => best[t] = None /\ ~Merges(t, 1)
    BY <1>2, <1>3
  <2> QED
    BY <1>1, <1>2, <1>3, <2>1, <2>2, RoundsMove
<1>8. CurrentInv'
  <2>1. CASE currentTask = Evaluated
    BY <1>3, <1>5, <2>1 DEF CurrentInv, Working
  <2>2. CASE currentTask # Evaluated
    BY <1>1, <1>3, <2>2, CurrentMoves DEF IInv
  <2> QED
    BY <2>1, <2>2
<1>9. IdleInv'
  <2> SUFFICES ASSUME NEW t \in Task, Idle(t) PROVE Idle(t)'
    BY <1>3 DEF IInv, IdleInv
  <2>1. t # Evaluated
    BY <1>2, <1>4 DEF Idle
  <2> QED
    BY <1>1, <1>2, <1>3, <1>5, <2>1, IdleMoves
<1>10. OrderInv' /\ AnswersInOrder' /\ ResultThere'
  BY <1>3 DEF IInv, OrderInv, AnswersInOrder, ResultThere
<1> QED
  BY <1>6, <1>7, <1>8, <1>9, <1>10 DEF IInv

\* The round of a task that is no longer current is forgotten.

LEMMA CompleteStaleKeeps == IInv /\ CompleteStale => IInv'
<1> SUFFICES ASSUME IInv, CompleteStale PROVE IInv'
  OBVIOUS
<1>1. TypeOK /\ RoundInv /\ Due("evaluate")
  BY DEF IInv, CompleteStale
<1>2. posted # <<>> /\ \A t \in Task : ~Merges(t, 1)
  BY <1>1, FrontEvaluation
<1>3. /\ posted' = Tail(posted) /\ currentTask # Evaluated
      /\ UNCHANGED <<workerNum, terminated, currentTask, pendingTasks, threshold, best,
                     searching, leaving, found, finds, trap>>
  BY DEF CompleteStale, finder, roundVars
<1>4. posted' \in Seq(Job)
  BY <1>1, <1>2, <1>3, QueueMoves
<1>5. TypeOK'
  BY <1>1, <1>3, <1>4 DEF TypeOK
<1>6. RoundInv'
  BY <1>1, <1>2, <1>3, RoundsMove
<1>7. CurrentInv'
  BY <1>1, <1>3, CurrentMoves DEF IInv
<1>8. IdleInv'
  <2> SUFFICES ASSUME NEW t \in Task, Idle(t) PROVE Idle(t)'
    BY <1>3 DEF IInv, IdleInv
  <2> QED
    BY <1>1, <1>2, <1>3, IdleMoves
<1>9. OrderInv' /\ AnswersInOrder' /\ ResultThere'
  BY <1>3 DEF IInv, OrderInv, AnswersInOrder, ResultThere
<1> QED
  BY <1>5, <1>6, <1>7, <1>8, <1>9 DEF IInv

(***************************************************************************)
(* A task completes, and nothing else is started: the search ends, or the  *)
(* process does.                                                           *)
(***************************************************************************)
LEMMA CompletionStops ==
  ASSUME IInv, Completes,
         \A t \in Task : t <= finds => threshold'[t] = threshold[t],
         threshold' \in [Task -> Nat], finds' \in 0..MaxFinds[workerNum], finds <= finds',
         workerNum' = workerNum, terminated' \in BOOLEAN, searching' = searching,
         \/ trap' = trap /\ currentTask' = None /\ pendingTasks' = <<>>
         \/ /\ pendingTasks # <<>> /\ pendingTasks' = Tail(pendingTasks)
            /\ trap' = "busy" /\ currentTask' = currentTask
  PROVE  IInv'
<1>1. TypeOK /\ RoundInv /\ Due("evaluate") /\ trap = "none"
  BY DEF IInv, Completes, Due
<1>2. posted # <<>> /\ \A t \in Task : ~Merges(t, 1)
  BY <1>1, FrontEvaluation
<1>3. posted' = Tail(posted) /\ best' = best /\ leaving' = leaving
  BY DEF Completes
<1>4. posted' \in Seq(Job)
  BY <1>1, <1>2, <1>3, QueueMoves
<1>5. /\ found' \in Seq([task : Task, score : Score])
      /\ AnswersInOrder'
      /\ currentTask \in Task /\ currentTask <= finds
      /\ \A i \in 1..Len(found') : found'[i].task <= currentTask
  BY AnswersGrow
<1>6. finds \in Nat /\ finds' \in Nat /\ Task \subseteq Nat /\ None \notin Task
  <2>1. MaxFinds[workerNum] \in Nat /\ finds \in 0..MaxFinds[workerNum]
    BY <1>1, Tasks DEF TypeOK
  <2> QED
    BY <2>1, Tasks
<1>7. /\ pendingTasks' \in Seq(Task)
      /\ \A i \in 1..Len(pendingTasks') :
           /\ pendingTasks'[i] <= finds
           /\ \E j \in 1..Len(pendingTasks) : pendingTasks[j] = pendingTasks'[i]
      /\ \A i, j \in 1..Len(pendingTasks') : i < j => pendingTasks'[i] < pendingTasks'[j]
  <2>1. CASE pendingTasks' = <<>>
    BY <2>1, EmptyQueue
  <2>2. CASE pendingTasks # <<>> /\ pendingTasks' = Tail(pendingTasks)
    BY <1>1, <2>2, PendingMoves DEF IInv
  <2> QED
    BY <2>1, <2>2
<1>8. TypeOK'
  <2>1. trap' \in {"none", "busy", "noResult"}
    BY <1>1
  <2>2. currentTask' \in Task \cup {None}
    BY <1>5
  <2> QED
    BY <1>1, <1>3, <1>4, <1>5, <1>7, <2>1, <2>2 DEF TypeOK
<1>9. RoundInv'
  BY <1>1, <1>2, <1>3, RoundsMove
<1>10. CurrentInv' /\ ResultThere'
  BY <1>1 DEF CurrentInv, ResultThere
<1>11. IdleInv'
  <2> SUFFICES ASSUME NEW t \in Task,
                      \/ t > finds'
                      \/ \E i \in 1..Len(pendingTasks') : pendingTasks'[i] = t
               PROVE  Idle(t)'
    BY DEF IdleInv
  <2>1. t > finds \/ \E i \in 1..Len(pendingTasks) : pendingTasks[i] = t
    BY <1>6, <1>7
  <2>2. Idle(t)
    BY <2>1 DEF IInv, IdleInv
  <2> QED
    BY <1>1, <1>2, <1>3, <2>2, IdleMoves
<1>12. OrderInv'
  <2>1. \A i \in 1..Len(found') : found'[i].task <= finds'
    <3> TAKE i \in 1..Len(found')
    <3>1. found'[i].task \in Task
      BY <1>5, AnsweredTasks
    <3>2. found'[i].task \in Nat /\ currentTask \in Nat /\ found'[i].task <= currentTask
      BY <1>5, <1>6, <3>1
    <3> QED
      BY <1>5, <1>6, <3>2
  <2>2. \A i \in 1..Len(pendingTasks') : pendingTasks'[i] <= finds'
    <3> TAKE i \in 1..Len(pendingTasks')
    <3>1. pendingTasks'[i] \in Nat /\ pendingTasks'[i] <= finds
      BY <1>6, <1>7, Elements
    <3> QED
      BY <1>6, <3>1
  <2> QED
    BY <1>1, <1>7, <2>1, <2>2 DEF OrderInv
<1> QED
  BY <1>5, <1>8, <1>9, <1>10, <1>11, <1>12 DEF IInv

(***************************************************************************)
(* A task completes and a later one that was not started yet is: the first *)
(* pending one, or one made by the complete handler when none is pending.  *)
(***************************************************************************)
LEMMA CompletionStarts ==
  ASSUME IInv, Completes,
         \A t \in Task : t <= finds => threshold'[t] = threshold[t],
         threshold' \in [Task -> Nat], finds' \in 0..MaxFinds[workerNum], finds <= finds',
         workerNum' = workerNum, terminated' = terminated, trap' = trap,
         NEW t \in Task, Idle(t), t <= finds', currentTask < t,
         searching' = [searching EXCEPT ![t] = workerNum], currentTask' = t,
         pendingTasks' \in Seq(Task),
         \A i \in 1..Len(pendingTasks') :
           /\ pendingTasks'[i] <= finds /\ t < pendingTasks'[i]
           /\ \E j \in 1..Len(pendingTasks) : pendingTasks[j] = pendingTasks'[i],
         \A i, j \in 1..Len(pendingTasks') : i < j => pendingTasks'[i] < pendingTasks'[j]
  PROVE  IInv'
<1>1. TypeOK /\ RoundInv /\ Due("evaluate") /\ trap = "none"
  BY DEF IInv, Completes, Due
<1>2. posted # <<>> /\ \A u \in Task : ~Merges(u, 1)
  BY <1>1, FrontEvaluation
<1>3. posted' = Tail(posted) /\ best' = best /\ leaving' = leaving
  BY DEF Completes
<1>4. posted' \in Seq(Job) /\ Len(posted) \in Nat
  BY <1>1, <1>2, <1>3, QueueMoves
<1>5. /\ found' \in Seq([task : Task, score : Score])
      /\ AnswersInOrder'
      /\ currentTask \in Task /\ currentTask <= finds
      /\ \A i \in 1..Len(found') : found'[i].task <= currentTask
  BY AnswersGrow
<1>6. finds \in Nat /\ finds' \in Nat /\ Task \subseteq Nat /\ None \notin Task
  <2>1. MaxFinds[workerNum] \in Nat /\ finds \in 0..MaxFinds[workerNum]
    BY <1>1, Tasks DEF TypeOK
  <2> QED
    BY <2>1, Tasks
<1>7. /\ searching' \in [Task -> 0..workerNum]
      /\ \A u \in Task : searching'[u] + leaving[u] <= workerNum
      /\ \A u \in Task : u # t => searching'[u] = searching[u]
      /\ searching'[t] + leaving[t] > 0
  <2>1. leaving[t] = 0
    BY DEF Idle
  <2> QED
    BY <1>1, <2>1, RoundStarts
<1>8. TypeOK'
  BY <1>1, <1>3, <1>4, <1>5, <1>7 DEF TypeOK
<1>9. RoundInv'
  <2>1. \A i \in 2..Len(posted) : ~Evaluates(t, i)
    BY <1>4 DEF Idle, Evaluates
  <2>2. \A u \in Task : \/ searching'[u] = searching[u]
                        \/ \A i \in 2..Len(posted) : ~Evaluates(u, i)
    BY <1>7, <2>1
  <2> QED
    BY <1>1, <1>2, <1>3, <2>2, RoundsMove
<1>10. CurrentInv' /\ ResultThere'
  BY <1>1, <1>3, <1>7 DEF CurrentInv, ResultThere, Working
<1>11. IdleInv'
  <2> SUFFICES ASSUME NEW u \in Task,
                      \/ u > finds'
                      \/ \E i \in 1..Len(pendingTasks') : pendingTasks'[i] = u
               PROVE  Idle(u)'
    BY DEF IdleInv
  <2>1. u > finds \/ \E i \in 1..Len(pendingTasks) : pendingTasks[i] = u
    BY <1>6
  <2>2. u # t
    <3>1. t \in Nat /\ u \in Nat
      BY <1>6
    <3> QED
      BY <1>6, <3>1
  <2>3. Idle(u)
    BY <2>1 DEF IInv, IdleInv
  <2> QED
    BY <1>1, <1>2, <1>3, <1>7, <2>2, <2>3, IdleMoves
<1>12. OrderInv'
  <2>1. \A i \in 1..Len(found') : found'[i].task <= finds' /\ found'[i].task < t
    <3> TAKE i \in 1..Len(found')
    <3>1. found'[i].task \in Task
      BY <1>5, AnsweredTasks
    <3>2. /\ found'[i].task \in Nat /\ currentTask \in Nat /\ t \in Nat
          /\ found'[i].task <= currentTask
      BY <1>5, <1>6, <3>1
    <3> QED
      BY <1>5, <1>6, <3>2
  <2>2. \A i \in 1..Len(pendingTasks') : pendingTasks'[i] <= finds'
    <3> TAKE i \in 1..Len(pendingTasks')
    <3>1. pendingTasks'[i] \in Nat /\ pendingTasks'[i] <= finds
      BY <1>6, Elements
    <3> QED
      BY <1>6, <3>1
  <2> QED
    BY <1>6, <2>1, <2>2 DEF OrderInv
<1> QED
  BY <1>5, <1>8, <1>9, <1>10, <1>11, <1>12 DEF IInv

\* complete() starts the first pending task.

LEMMA CompleteKeeps == IInv /\ Complete => IInv'
<1> SUFFICES ASSUME IInv, Complete PROVE IInv'
  OBVIOUS
<1>1. /\ Completes /\ StartNext /\ TypeOK
      /\ UNCHANGED <<workerNum, terminated, threshold, finds>>
  BY DEF Complete, finder, IInv
<1>2. /\ threshold' \in [Task -> Nat] /\ terminated' \in BOOLEAN
      /\ finds' \in 0..MaxFinds[workerNum] /\ finds <= finds'
      /\ \A t \in Task : t <= finds => threshold'[t] = threshold[t]
  <2>1. finds \in 0..MaxFinds[workerNum] /\ MaxFinds[workerNum] \in Nat
    BY <1>1, Tasks DEF TypeOK
  <2> QED
    BY <1>1, <2>1 DEF TypeOK
<1>3. CASE pendingTasks = <<>>
  <2>1. currentTask' = None /\ pendingTasks' = <<>> /\ searching' = searching /\ trap' = trap
    BY <1>1, <1>3 DEF StartNext
  <2> QED
    BY <1>1, <1>2, <2>1, CompletionStops
<1>4. CASE pendingTasks # <<>>
  <2> DEFINE t == Head(pendingTasks)
  <2>1. /\ pendingTasks' = Tail(pendingTasks)
        /\ currentTask' = t /\ searching' = [searching EXCEPT ![t] = workerNum]
        /\ trap' = trap
    BY <1>1, <1>4 DEF StartNext, StartTask
  <2>2. /\ Tail(pendingTasks) \in Seq(Task)
        /\ t \in Task /\ t <= finds /\ Idle(t)
        /\ t = pendingTasks[1] /\ 1 \in 1..Len(pendingTasks)
        /\ \A i \in 1..Len(Tail(pendingTasks)) :
             /\ i + 1 \in 1..Len(pendingTasks)
             /\ Tail(pendingTasks)[i] = pendingTasks[i + 1]
             /\ Tail(pendingTasks)[i] <= finds /\ t < Tail(pendingTasks)[i]
        /\ \A i, j \in 1..Len(Tail(pendingTasks)) :
             i < j => Tail(pendingTasks)[i] < Tail(pendingTasks)[j]
    BY <1>1, <1>4, PendingMoves DEF IInv
  <2>3. currentTask \in Task /\ trap = "none"
    BY <1>1, <1>2, AnswersGrow DEF Completes, Due
  <2>4. currentTask < t
    <3>1. currentTask # None
      BY <2>3, Tasks
    <3>2. \A i \in 1..Len(pendingTasks) : currentTask < pendingTasks[i]
      BY <2>3, <3>1 DEF IInv, OrderInv
    <3> QED
      BY <2>2, <3>2
  <2> HIDE DEF t
  <2>5. /\ pendingTasks' \in Seq(Task) /\ t <= finds'
        /\ \A i \in 1..Len(pendingTasks') :
             /\ pendingTasks'[i] <= finds /\ t < pendingTasks'[i]
             /\ \E j \in 1..Len(pendingTasks) : pendingTasks[j] = pendingTasks'[i]
        /\ \A i, j \in 1..Len(pendingTasks') : i < j => pendingTasks'[i] < pendingTasks'[j]
    BY <1>1, <2>1, <2>2
  <2> QED
    BY <1>1, <1>2, <2>1, <2>2, <2>4, <2>5, CompletionStarts
<1> QED
  BY <1>3, <1>4

\* A complete handler that terminates the finder leaves nothing to start.

LEMMA CompleteAndTerminateKeeps == IInv /\ CompleteAndTerminate => IInv'
<1> SUFFICES ASSUME IInv, CompleteAndTerminate PROVE IInv'
  OBVIOUS
<1>1. /\ Completes /\ TypeOK /\ terminated' = TRUE
      /\ currentTask' = None /\ pendingTasks' = <<>>
      /\ UNCHANGED <<workerNum, threshold, searching, finds, trap>>
  BY DEF CompleteAndTerminate, IInv
<1>2. /\ threshold' \in [Task -> Nat] /\ terminated' \in BOOLEAN
      /\ finds' \in 0..MaxFinds[workerNum] /\ finds <= finds'
      /\ \A t \in Task : t <= finds => threshold'[t] = threshold[t]
  <2>1. finds \in 0..MaxFinds[workerNum] /\ MaxFinds[workerNum] \in Nat
    BY <1>1, Tasks DEF TypeOK
  <2> QED
    BY <1>1, <2>1 DEF TypeOK
<1> QED
  BY <1>1, <1>2, CompletionStops

(***************************************************************************)
(* A complete handler that calls find() gets its task started when none is *)
(* pending; otherwise the first pending task meets it, and the process     *)
(* ends in the precondition of startTask().                                *)
(***************************************************************************)
LEMMA CompleteAndFindKeeps == IInv /\ CompleteAndFind => IInv'
<1> SUFFICES ASSUME IInv, CompleteAndFind PROVE IInv'
  OBVIOUS
<1>1. /\ Completes /\ NewTask /\ TypeOK
      /\ workerNum' = workerNum /\ terminated' = terminated
  BY DEF CompleteAndFind, finder, IInv
<1>2. /\ finds' = finds + 1 /\ finds' \in Task /\ finds \in Nat
      /\ finds' \in 0..MaxFinds[workerNum]
      /\ threshold' \in [Task -> Nat]
      /\ \A t \in Task : t <= finds => threshold'[t] = threshold[t]
  BY <1>1, NewTaskIsTask
<1>3. finds <= finds' /\ terminated' \in BOOLEAN
  BY <1>1, <1>2 DEF TypeOK
<1>4. CASE pendingTasks = <<>>
  <2>1. /\ pendingTasks' = <<>> /\ Len(pendingTasks') = 0 /\ trap' = trap
        /\ currentTask' = finds' /\ searching' = [searching EXCEPT ![finds'] = workerNum]
    BY <1>4 DEF CompleteAndFind, StartTask
  <2>2. PICK t \in Task : t = finds'
    BY <1>2
  <2>3. Idle(t) /\ t <= finds'
    BY <1>2, <2>2 DEF IInv, IdleInv
  <2>4. currentTask \in Task /\ currentTask <= finds
    BY <1>1, <1>2, AnswersGrow
  <2>5. currentTask < t
    <3>1. currentTask \in Nat
      BY <2>4, Tasks
    <3> QED
      BY <1>2, <2>2, <2>4, <3>1
  <2>6. pendingTasks' \in Seq(Task)
    BY <2>1, EmptyQueue
  <2>7. currentTask' = t /\ searching' = [searching EXCEPT ![t] = workerNum]
    BY <2>1, <2>2
  <2>8. /\ \A i \in 1..Len(pendingTasks') :
             /\ pendingTasks'[i] <= finds /\ t < pendingTasks'[i]
             /\ \E j \in 1..Len(pendingTasks) : pendingTasks[j] = pendingTasks'[i]
        /\ \A i, j \in 1..Len(pendingTasks') : i < j => pendingTasks'[i] < pendingTasks'[j]
    BY <2>1
  <2> QED
    BY <1>1, <1>2, <1>3, <2>1, <2>3, <2>5, <2>6, <2>7, <2>8, CompletionStarts
<1>5. CASE pendingTasks # <<>>
  <2>1. finds' # None
    BY <1>2, Tasks
  <2>2. /\ pendingTasks' = Tail(pendingTasks) /\ trap' = "busy"
        /\ currentTask' = currentTask /\ searching' = searching
    BY <1>5, <2>1 DEF CompleteAndFind, StartTask
  <2> QED
    BY <1>1, <1>2, <1>3, <1>5, <2>2, CompletionStops
<1> QED
  BY <1>4, <1>5

\* Every step keeps the invariant.

LEMMA StepInv == IInv /\ [Next]_vars => IInv'
<1> SUFFICES ASSUME IInv, [Next]_vars PROVE IInv'
  OBVIOUS
<1>1. CASE Find
  BY <1>1, FindKeeps
<1>2. CASE Terminate
  BY <1>2, TerminateKeeps
<1>3. ASSUME NEW t \in Task, Worker(t) PROVE IInv'
  BY <1>3, WorkerPostsKeeps, WorkerLeavesKeeps DEF Worker
<1>4. CASE RunJob
  BY <1>4, MergeKeeps, SearchOnKeeps, CompleteStaleKeeps, CompleteKeeps,
     CompleteAndTerminateKeeps, CompleteAndFindKeeps DEF RunJob
<1>5. CASE UNCHANGED vars
  <2>1. UNCHANGED <<workerNum, terminated, currentTask, pendingTasks, threshold, best,
                    searching, leaving, posted, found, finds, trap>>
    BY <1>5 DEF vars, finder
  <2>2. TypeOK' /\ ResultThere' /\ OrderInv' /\ AnswersInOrder'
    BY <2>1 DEF IInv, TypeOK, ResultThere, OrderInv, AnswersInOrder
  <2>3. RoundInv' /\ CurrentInv'
    BY <2>1 DEF IInv, RoundInv, CurrentInv, Working, Evaluates, Merges
  <2>4. IdleInv'
    BY <2>1 DEF IInv, IdleInv, Idle
  <2> QED
    BY <2>2, <2>3, <2>4 DEF IInv
<1> QED
  BY <1>1, <1>2, <1>3, <1>4, <1>5 DEF Next

----------------------------------------------------------------------------
\* Every state the finder can be in satisfies the inductive invariant.

THEOREM Invariant == Spec => []IInv
BY InitInv, StepInv, PTL DEF Spec

(***************************************************************************)
(* The search of the current task always goes on, in one round at a time,  *)
(* and no evaluation unwraps a result that is not there, however many      *)
(* workers post and leave in whatever order (WorkFinder.startWorkers()).   *)
(***************************************************************************)
THEOREM SearchIsSound == Spec => []SearchSound
BY Invariant, SearchSoundFromInv, PTL

(***************************************************************************)
(* Complete handlers are called at most once per find(), in the order of   *)
(* the calls, with a work at least as good as was asked for, also when     *)
(* they call find() or terminate() themselves (WorkFinder.complete()).     *)
(***************************************************************************)
THEOREM AnswersComeInOrder == Spec => []AnswersInOrder
<1>1. IInv => AnswersInOrder
  BY DEF IInv
<1> QED
  BY <1>1, Invariant, PTL

\* No complete handler is called once terminate() was (WorkFinder.terminate()).

THEOREM SilenceAfterTerminate == Spec => SilentAfterTerminate
<1>1. ASSUME [Next]_vars, terminated PROVE found' = found
  <2>1. ASSUME NEW t \in Task, Worker(t) PROVE found' = found
    BY <2>1 DEF Worker, WorkerPosts, WorkerLeaves
  <2>2. CASE Find \/ Terminate
    BY <2>2 DEF Find, Terminate
  <2>3. CASE RunJob
    BY <1>1, <2>3 DEF RunJob, Merge, SearchOn, CompleteStale, Complete,
                      CompleteAndTerminate, CompleteAndFind, Completes
  <2>4. CASE UNCHANGED vars
    BY <2>4 DEF vars
  <2> QED
    BY <1>1, <2>1, <2>2, <2>3, <2>4 DEF Next
<1>2. [Next]_vars => [terminated => found' = found]_vars
  BY <1>1
<1> QED
  BY <1>2, PTL DEF Spec, SilentAfterTerminate

=============================================================================
