---------------------------- MODULE CoroExecutor ----------------------------
(***************************************************************************)
(* ServiceExecutorCoroutine with its thread groups, in the build that      *)
(* registers it as a module of the brpc workers (ELOQ_MODULE_ENABLED).     *)
(*                                                                         *)
(* A thread group has a queue of tasks and a queue of resumptions, and one *)
(* worker that runs what both hold.  Any thread enqueues.  It then looks   *)
(* at _extWorkerActive and notifies the worker if that is off: between the *)
(* two steps it is in notifying, at most one thread for a connection and a *)
(* group at a time (a bound).                                              *)
(*                                                                         *)
(* A worker is at one of these places:                                     *)
(*   poll      in or between calls of Process()                            *)
(*   coro, leaving, switched   in a task that runs a coroutine             *)
(*   ending    after ExtThdEnd(), about to look once more and to park      *)
(*   parked    asleep in the brpc scheduler                                *)
(*   quit      gone from the group after the module was unregistered       *)
(* The worker loop around Process() is brpc's and external: it goes on     *)
(* while HasTask() holds, and asks again between ExtThdEnd() and parking.  *)
(* Once the module is unregistered nothing else keeps a worker: it may     *)
(* leave the group as soon as HasTask() is off.                            *)
(***************************************************************************)
EXTENDS Integers, Sequences

CONSTANTS
    Group,          \* the thread groups
    BatchSize,      \* kTaskBatchSize
    CountMod        \* _ongoingCoroutineCnt wraps here: 2^16

ASSUME ExecutorAssumption ==
    /\ BatchSize \in Nat \ {0}
    /\ CountMod \in Nat \ {0, 1}

VARIABLES
    taskQueue,      \* taskQueue[g]: _taskQueue
    resumeQueue,    \* resumeQueue[g]: _resumeQueue
    bulk,           \* bulk[g]: what is left of the batch in _taskBulk
    turn,           \* turn[g]: what Process() does when the batch has run
    ongoing,        \* ongoing[g]: _ongoingCoroutineCnt
    worker,         \* worker[g]: where the worker is
    notifying,      \* <<g, s>>: a thread between Enqueue and the check
    running         \* _stillRunning

execVars == <<taskQueue, resumeQueue, bulk, turn, ongoing, worker, notifying,
              running>>
queueVars == <<taskQueue, resumeQueue, notifying>>

ExecInit ==
    /\ taskQueue = [g \in Group |-> <<>>]
    /\ resumeQueue = [g \in Group |-> <<>>]
    /\ bulk = [g \in Group |-> <<>>]
    /\ turn = [g \in Group |-> "resumptions"]
    /\ ongoing = [g \in Group |-> 0]
    /\ worker = [g \in Group |-> "parked"]
    /\ notifying = {}
    /\ running = TRUE

-----------------------------------------------------------------------------
\* Mutants: resumeTask, or enqueueTask, leaves a sleeping worker asleep.
resumeTaskSilently(g, task, by) ==
    /\ resumeQueue' = [resumeQueue EXCEPT ![g] = Append(@, task)]
    /\ UNCHANGED <<taskQueue, notifying>>

enqueueTaskSilently(g, task, by) ==
    /\ taskQueue' = [taskQueue EXCEPT ![g] = Append(@, task)]
    /\ UNCHANGED <<resumeQueue, notifying>>

\* The first half of ThreadGroup::enqueueTask and resumeTask, on the thread by.
\* The group's own worker finds itself active and notifies nobody.
ToNotify(g, task, by) ==
    /\ <<g, task.session>> \notin notifying
    /\ notifying' = IF by = g THEN notifying
                    ELSE notifying \cup {<<g, task.session>>}

enqueueTask(g, task, by) ==
    /\ ToNotify(g, task, by)
    /\ taskQueue' = [taskQueue EXCEPT ![g] = Append(@, task)]
    /\ UNCHANGED resumeQueue

resumeTask(g, task, by) ==
    /\ ToNotify(g, task, by)
    /\ resumeQueue' = [resumeQueue EXCEPT ![g] = Append(@, task)]
    /\ UNCHANGED taskQueue

extWorkerActive(g) == worker[g] \notin {"ending", "parked", "quit"}

\* notifyIfAsleep(): NotifyWorker wakes a parked worker, whose loop calls
\* ExtThdStart().
notifyIfAsleep(g, s) ==
    /\ <<g, s>> \in notifying
    /\ notifying' = notifying \ {<<g, s>>}
    /\ worker' = IF ~extWorkerActive(g) /\ worker[g] = "parked"
                 THEN [worker EXCEPT ![g] = "poll"] ELSE worker
    /\ UNCHANGED <<taskQueue, resumeQueue, bulk, turn, ongoing, running>>

isBusy(g) ==
    \/ ongoing[g] > 0
    \/ taskQueue[g] # <<>>
    \/ resumeQueue[g] # <<>>

CountUpdateUnbounded(g, delta) ==          \* Mutant: a wider counter type
    [ongoing EXCEPT ![g] = @ + delta]

\* ongoingCoroutineCountUpdate, as the new value of the counters.
CountUpdate(g, delta) ==
    [ongoing EXCEPT ![g] = (@ + delta) % CountMod]

-----------------------------------------------------------------------------
(***************************************************************************)
(* The worker between tasks: MongoModule::Process and the loop around it.  *)
(***************************************************************************)
Batch(queue) ==
    SubSeq(queue, 1, IF Len(queue) < BatchSize THEN Len(queue) ELSE BatchSize)

Remainder(queue) == SubSeq(queue, Len(Batch(queue)) + 1, Len(queue))

BetweenTasks(g) == worker[g] = "poll" /\ bulk[g] = <<>>

\* The resumptions come first; a batch of them that is not full leaves a turn
\* to the tasks.
DequeueResumptions(g) ==
    /\ BetweenTasks(g)
    /\ turn[g] = "resumptions"
    /\ resumeQueue[g] # <<>>
    /\ bulk' = [bulk EXCEPT ![g] = Batch(resumeQueue[g])]
    /\ resumeQueue' = [resumeQueue EXCEPT ![g] = Remainder(@)]
    /\ turn' = [turn EXCEPT ![g] = IF Len(bulk'[g]) < BatchSize
                                   THEN "tasks" ELSE "resumptions"]
    /\ UNCHANGED <<taskQueue, ongoing, worker, notifying, running>>

DequeueTasks(g) ==
    /\ BetweenTasks(g)
    /\ turn[g] = "tasks" \/ (resumeQueue[g] = <<>> /\ taskQueue[g] # <<>>)
    /\ bulk' = [bulk EXCEPT ![g] = Batch(taskQueue[g])]
    /\ taskQueue' = [taskQueue EXCEPT ![g] = Remainder(@)]
    /\ turn' = [turn EXCEPT ![g] = "resumptions"]
    /\ UNCHANGED <<resumeQueue, ongoing, worker, notifying, running>>

\* Process() has found nothing, and HasTask() is off: ExtThdEnd().
ExtThdEnd(g) ==
    /\ BetweenTasks(g)
    /\ turn[g] = "resumptions"
    /\ ~isBusy(g)
    /\ worker' = [worker EXCEPT ![g] = "ending"]
    /\ UNCHANGED <<taskQueue, resumeQueue, bulk, turn, ongoing, notifying,
                   running>>

\* External: HasTask() once more, then ExtThdStart() or sleep.
Park(g) ==
    /\ worker[g] = "ending"
    /\ worker' = [worker EXCEPT ![g] = IF isBusy(g) THEN "poll" ELSE "parked"]
    /\ UNCHANGED <<taskQueue, resumeQueue, bulk, turn, ongoing, notifying,
                   running>>

\* ServiceExecutorCoroutine::shutdown: schedule() takes no more tasks, and the
\* module is unregistered, which leaves each group its worker only while
\* HasTask() holds (Quit).  In this repository a test calls it and the server
\* does not.
Shutdown ==
    /\ running
    /\ running' = FALSE
    /\ UNCHANGED <<taskQueue, resumeQueue, bulk, turn, ongoing, worker,
                   notifying>>

\* External: a worker with nothing to do leaves a group of the unregistered
\* module, and nothing wakes it again.  It "won't quit if there are any queued
\* tasks", as the destructor of a state machine relies on.
Quit(g) ==
    /\ ~running
    /\ worker[g] = "parked"
    /\ ~isBusy(g)
    /\ worker' = [worker EXCEPT ![g] = "quit"]
    /\ UNCHANGED <<taskQueue, resumeQueue, bulk, turn, ongoing, notifying,
                   running>>
=============================================================================
