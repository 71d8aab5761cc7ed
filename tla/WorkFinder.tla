----------------------------- MODULE WorkFinder ----------------------------
(***************************************************************************)
(* RaiBlocksBasic/WorkFinder.swift: searches for proofs of work, one task  *)
(* at a time, in rounds.  A round starts workerNum workers on the          *)
(* concurrent global queue; each tries its random works, posts its best to *)
(* the finder's serial queue and leaves the round's dispatch group.  When  *)
(* the last one has left, the group posts the evaluation of the round,     *)
(* which completes the task or starts another round.                       *)
(*                                                                         *)
(* A task is known by the number of the find() call that made it, a work   *)
(* by its score.  posted is the serial queue; a step runs one of its jobs, *)
(* a call of find() or terminate() made on it, or a piece of a worker.     *)
(***************************************************************************)
EXTENDS Naturals, Sequences

CONSTANTS
  Score,       \* what a work can score
  Threshold,   \* what a caller can ask for
  MaxFinds,    \* bound: calls of find(), for each number of workers
  MaxBehind,   \* bound: pending tasks behind which a complete handler may call find()
  None

ASSUME WorkFinderAssumption ==
  /\ Score \subseteq Nat /\ Threshold \subseteq Nat
  /\ MaxFinds \in Seq(Nat) /\ MaxBehind \in Nat
  /\ None \notin Nat

Task == UNION {1..MaxFinds[n] : n \in DOMAIN MaxFinds}
Job == [do : {"merge"}, task : Task, score : Score] \cup [do : {"evaluate"}, task : Task]

VARIABLES
  workerNum,     \* WorkFinder.workerNum
  terminated,    \* WorkFinder.terminated
  currentTask,   \* WorkFinder.currentTask
  pendingTasks,  \* WorkFinder.pendingTasks
  threshold,     \* Task.threshold
  best,          \* the score of Task.result, None for nil
  searching,     \* how many workers of a task are still trying works
  leaving,       \* how many have posted their result and not left the group
  posted,        \* the jobs on the serial queue
  found,         \* history: the complete handlers called, [task, score]
  finds,         \* how many tasks were made
  trap           \* what ended the process: "none", "busy" or "noResult"

finder == <<workerNum, terminated>>
roundVars == <<searching, leaving>>
vars == <<finder, currentTask, pendingTasks, threshold, best, searching,
          leaving, posted, found, finds, trap>>

Init ==
  /\ workerNum \in DOMAIN MaxFinds
  /\ terminated = FALSE
  /\ currentTask = None
  /\ pendingTasks = <<>>
  /\ threshold = [t \in Task |-> 0]
  /\ best = [t \in Task |-> None]
  /\ searching = [t \in Task |-> 0]
  /\ leaving = [t \in Task |-> 0]
  /\ posted = <<>>
  /\ found = <<>>
  /\ finds = 0
  /\ trap = "none"

----------------------------------------------------------------------------
(*                    Calls made on the serial queue                       *)

\* startTask(): its precondition, then the first round.

StartTask(t, current) ==
  IF current # None
    THEN trap' = "busy" /\ UNCHANGED <<currentTask, searching>>
    ELSE /\ currentTask' = t
         /\ searching' = [searching EXCEPT ![t] = workerNum]
         /\ UNCHANGED trap

\* A new task asking for any threshold.

NewTask ==
  /\ finds < MaxFinds[workerNum]
  /\ finds' = finds + 1
  /\ \E s \in Threshold : threshold' = [threshold EXCEPT ![finds + 1] = s]

Find ==
  /\ trap = "none"
  /\ NewTask
  /\ IF currentTask # None
       THEN /\ pendingTasks' = Append(pendingTasks, finds')
            /\ UNCHANGED <<currentTask, searching, trap>>
       ELSE /\ StartTask(finds', currentTask)
            /\ UNCHANGED pendingTasks
  /\ UNCHANGED <<finder, best, leaving, posted, found>>

Terminate ==
  /\ trap = "none"
  /\ currentTask' = None
  /\ pendingTasks' = <<>>
  /\ terminated' = TRUE
  /\ UNCHANGED <<workerNum, threshold, best, roundVars, posted, found, finds, trap>>

----------------------------------------------------------------------------
(*                              Workers                                    *)

\* _find() returns the best of its random works, and the worker posts it.

WorkerPosts(t, s) ==
  /\ trap = "none"
  /\ searching[t] > 0
  /\ searching' = [searching EXCEPT ![t] = @ - 1]
  /\ leaving' = [leaving EXCEPT ![t] = @ + 1]
  /\ posted' = Append(posted, [do |-> "merge", task |-> t, score |-> s])
  /\ UNCHANGED <<finder, currentTask, pendingTasks, threshold, best, found, finds, trap>>

\* The worker leaves; the last one makes the group post the evaluation.
\* (Faulty variant: every one does.)

WorkerLeavesUngrouped(t) ==
  /\ trap = "none"
  /\ leaving[t] > 0
  /\ leaving' = [leaving EXCEPT ![t] = @ - 1]
  /\ posted' = Append(posted, [do |-> "evaluate", task |-> t])
  /\ UNCHANGED <<finder, currentTask, pendingTasks, threshold, best, searching,
                 found, finds, trap>>

WorkerLeaves(t) ==
  /\ trap = "none"
  /\ leaving[t] > 0
  /\ leaving' = [leaving EXCEPT ![t] = @ - 1]
  /\ posted' = IF searching[t] = 0 /\ leaving[t] = 1
                 THEN Append(posted, [do |-> "evaluate", task |-> t])
                 ELSE posted
  /\ UNCHANGED <<finder, currentTask, pendingTasks, threshold, best, searching,
                 found, finds, trap>>

----------------------------------------------------------------------------
(*                      Jobs of the serial queue                           *)

Due(what) == trap = "none" /\ posted # <<>> /\ Head(posted).do = what

\* A worker's result replaces the task's unless that is as good.
\* (Faulty variant: only a result that is there can be replaced.)

MergeIfSet ==
  /\ Due("merge")
  /\ posted' = Tail(posted)
  /\ LET job == Head(posted)
         better == best[job.task] # None /\ best[job.task] < job.score
     IN  best' = IF better THEN [best EXCEPT ![job.task] = job.score] ELSE best
  /\ UNCHANGED <<finder, currentTask, pendingTasks, threshold, roundVars,
                 found, finds, trap>>

Merge ==
  /\ Due("merge")
  /\ posted' = Tail(posted)
  /\ LET job == Head(posted)
         better == best[job.task] = None \/ best[job.task] < job.score
     IN  best' = IF better THEN [best EXCEPT ![job.task] = job.score] ELSE best
  /\ UNCHANGED <<finder, currentTask, pendingTasks, threshold, roundVars,
                 found, finds, trap>>

\* The task whose round is evaluated next, and whether its result will do.
\* (Faulty variant: any will do.)

Evaluated == Head(posted).task
AnyGoodEnough == best[Evaluated] # None
GoodEnough == best[Evaluated] # None /\ best[Evaluated] >= threshold[Evaluated]

\* It will not do: startWorkers() again, if the task is still current.  A nil
\* result is unwrapped here.

SearchOn ==
  /\ Due("evaluate") /\ ~GoodEnough
  /\ IF best[Evaluated] = None
       THEN trap' = "noResult" /\ UNCHANGED <<posted, searching>>
       ELSE /\ posted' = Tail(posted)
            /\ searching' = IF currentTask = Evaluated
                              THEN [searching EXCEPT ![Evaluated] = workerNum]
                              ELSE searching
            /\ UNCHANGED trap
  /\ UNCHANGED <<finder, currentTask, pendingTasks, threshold, best, leaving,
                 found, finds>>

\* It will do.  A task that is no longer current is let go.
\* (Faulty variant: its handler is called all the same.)

StaleCompletes ==
  /\ Due("evaluate") /\ GoodEnough
  /\ currentTask # Evaluated
  /\ posted' = Tail(posted)
  /\ found' = Append(found, [task |-> Evaluated, score |-> best[Evaluated]])
  /\ UNCHANGED <<finder, currentTask, pendingTasks, threshold, best, roundVars,
                 finds, trap>>

CompleteStale ==
  /\ Due("evaluate") /\ GoodEnough
  /\ currentTask # Evaluated
  /\ posted' = Tail(posted)
  /\ UNCHANGED <<finder, currentTask, pendingTasks, threshold, best, roundVars,
                 found, finds, trap>>

\* complete(): no task is current any more, and the handler is called
\* unless the finder was terminated.

Completes ==
  /\ Due("evaluate") /\ GoodEnough
  /\ currentTask = Evaluated
  /\ posted' = Tail(posted)
  /\ found' = IF terminated THEN found
              ELSE Append(found, [task |-> Evaluated, score |-> best[Evaluated]])
  /\ UNCHANGED <<best, leaving>>

\* The first pending task, if any, is started when the handler has returned.
\* (Faulty variants: the last pending task; none, until the next find().)

NextIsLast ==
  IF pendingTasks = <<>>
    THEN currentTask' = None /\ UNCHANGED <<pendingTasks, searching, trap>>
    ELSE /\ pendingTasks' = SubSeq(pendingTasks, 1, Len(pendingTasks) - 1)
         /\ StartTask(pendingTasks[Len(pendingTasks)], None)

NextLeftWaiting == currentTask' = None /\ UNCHANGED <<pendingTasks, searching, trap>>

StartNext ==
  IF pendingTasks = <<>>
    THEN currentTask' = None /\ UNCHANGED <<pendingTasks, searching, trap>>
    ELSE /\ pendingTasks' = Tail(pendingTasks)
         /\ StartTask(Head(pendingTasks), None)

Complete == Completes /\ StartNext /\ UNCHANGED <<finder, threshold, finds>>

\* The handler calls terminate().

CompleteAndTerminate ==
  /\ Completes
  /\ ~terminated
  /\ terminated' = TRUE
  /\ currentTask' = None
  /\ pendingTasks' = <<>>
  /\ UNCHANGED <<workerNum, threshold, searching, finds, trap>>

(***************************************************************************)
(* The handler calls find(), which finds no task current and starts the    *)
(* new one at once; complete() then starts the first pending task.         *)
(***************************************************************************)
CompleteAndFind ==
  /\ Completes
  /\ ~terminated
  /\ NewTask
  /\ Len(pendingTasks) <= MaxBehind
  /\ IF pendingTasks = <<>>
       THEN StartTask(finds', None) /\ UNCHANGED pendingTasks
       ELSE /\ StartTask(Head(pendingTasks), finds')
            /\ pendingTasks' = Tail(pendingTasks)
  /\ UNCHANGED finder

----------------------------------------------------------------------------
RunJob ==
  \/ Merge
  \/ SearchOn
  \/ CompleteStale
  \/ Complete
  \/ CompleteAndTerminate
  \/ CompleteAndFind

Worker(t) == WorkerLeaves(t) \/ \E s \in Score : WorkerPosts(t, s)

Next == Find \/ Terminate \/ RunJob \/ \E t \in Task : Worker(t)

Spec == Init /\ [][Next]_vars

(***************************************************************************)
(* The queues run their jobs, and the workers of the current task finish.  *)
(* Works are drawn at random, so a worker that is started again and again  *)
(* in the end draws one that is good enough.  Nothing is owed to tasks     *)
(* that were dropped.                                                      *)
(***************************************************************************)
CurrentWorker == \E t \in Task : t = currentTask /\ Worker(t)
LuckyWorker ==
  \E t \in Task, s \in Score :
    t = currentTask /\ s >= threshold[t] /\ WorkerPosts(t, s)

Fairness == WF_vars(RunJob) /\ WF_vars(CurrentWorker) /\ SF_vars(LuckyWorker)

FairSpec == Spec /\ Fairness

----------------------------------------------------------------------------
(*                             Properties                                  *)

\* Types; a task never has two rounds of workers at a time.

TypeOK ==
  /\ workerNum \in DOMAIN MaxFinds
  /\ terminated \in BOOLEAN
  /\ currentTask \in Task \cup {None}
  /\ pendingTasks \in Seq(Task)
  /\ threshold \in [Task -> Nat]
  /\ best \in [Task -> Score \cup {None}]
  /\ searching \in [Task -> 0..workerNum]
  /\ leaving \in [Task -> 0..workerNum]
  /\ \A t \in Task : searching[t] + leaving[t] <= workerNum
  /\ posted \in Seq(Job)
  /\ found \in Seq([task : Task, score : Score])
  /\ finds \in 0..MaxFinds[workerNum]
  /\ trap \in {"none", "busy", "noResult"}

(***************************************************************************)
(* The last worker of a round leaves after every result was posted, so the *)
(* evaluation never finds a task without a result.                         *)
(***************************************************************************)
ResultThere == trap # "noResult"

\* The precondition of startTask(): no other task is current.

NoTaskInTheWay == trap # "busy"

(***************************************************************************)
(* The search never stalls: a current task has exactly one round under way *)
(* or waiting for its evaluation, and tasks are pending only behind a      *)
(* current one.                                                            *)
(***************************************************************************)
RoundsOf(t) ==
  {i \in 1..Len(posted) : posted[i] = [do |-> "evaluate", task |-> t]}
SearchGoesOn ==
  trap = "none" =>
    /\ currentTask # None =>
         IF searching[currentTask] + leaving[currentTask] > 0
           THEN RoundsOf(currentTask) = {}
           ELSE \E i \in RoundsOf(currentTask) : RoundsOf(currentTask) = {i}
    /\ pendingTasks # <<>> => currentTask # None

(***************************************************************************)
(* A search is sound: at most one round of each task, with a result when   *)
(* it is evaluated, and always something that carries the search on.       *)
(***************************************************************************)
SearchSound == TypeOK /\ ResultThere /\ SearchGoesOn

(***************************************************************************)
(* Complete handlers are called once per find(), in the order of the       *)
(* calls, with a work as good as was asked.                                *)
(***************************************************************************)
AnswersInOrder ==
  \A i \in 1..Len(found) :
    /\ found[i].score >= threshold[found[i].task]
    /\ \A j \in 1..(i - 1) : found[j].task < found[i].task

\* No complete handler is called after terminate().

SilentAfterTerminate == [][terminated => found' = found]_vars

\* Every find() is answered, or the finder is terminated.

Answered(t) == \E i \in 1..Len(found) : found[i].task = t
EveryFindAnswered == \A t \in Task : (finds >= t) ~> (Answered(t) \/ terminated)
============================================================================
