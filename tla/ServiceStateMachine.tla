------------------------ MODULE ServiceStateMachine ------------------------
(***************************************************************************)
(* The connections of a server: each has a ServiceStateMachine, which      *)
(* reads a request, runs it as a coroutine on its thread group and sends   *)
(* the reply.  The coroutine leaves the worker by a yield after it has     *)
(* arranged to be resumed: by the transaction service (resume functor), by *)
(* queueing itself behind the other tasks (long resume functor, the way    *)
(* coro::Mutex and coro::ConditionVariable wait), or on another thread     *)
(* group (_migrateThreadGroup).                                            *)
(*                                                                         *)
(* A worker whose coroutine has arranged its resumption and is about to    *)
(* yield is "leaving".  Back on its own stack it is in                     *)
(* _finishCoroutineStep: "switched" after a coroutine that migrates has    *)
(* left it, "deciding" once it has cleared _migrating and before it reads  *)
(* _coroStatus, and "returned" after the coroutine has ended.              *)
(*                                                                         *)
(* fault stands for the death of the process: an invariant() that fails,   *)
(* or a jump to a context that is not there.                               *)
(***************************************************************************)
EXTENDS CoroExecutor, FiniteSets

CONSTANTS
    Session,        \* the connections
    Homes,          \* the ways startSession spreads them over the groups
    MaxYields       \* bound: yields in a behaviour included

NoSession == "none"

ASSUME SessionAssumption ==
    /\ Homes \subseteq [Session -> Group]
    /\ MaxYields \in [Session -> Nat]
    /\ NoSession \notin Session
    /\ {"ssm", "gone"} \cap Group = {}

VARIABLES
    ssm,            \* ssm[s]: the members of the state machine
    current,        \* current[g]: the connection whose coroutine is on g
    pending,        \* connections the transaction service will resume
    yields,         \* yields[s]: yields so far
    fault

ssmVars == <<ssm, current, pending, yields, fault>>
vars == <<execVars, ssmVars>>

\* The threads that are no workers.
Network == "network"
TxService == "tx service"

(***************************************************************************)
(* The members: state (_state), status (_coroStatus), group                *)
(* (_threadGroupId), resumeTo and longTo (the groups the two resume        *)
(* functors are bound to), migrating (_migrating), client (who holds the   *)
(* Client: the state machine, a worker, or nobody any more), reply (the    *)
(* saved response: an exception, none, one reply, or one of an exhaust     *)
(* cursor) and stack (the coroutine stack's mapping).                      *)
(***************************************************************************)
NewMachine(g) ==
    [state |-> "New", status |-> "Empty", group |-> g, resumeTo |-> g,
     longTo |-> g, migrating |-> FALSE, client |-> "ssm", reply |-> "none",
     stack |-> "mapped"]

Init ==
    /\ ExecInit
    /\ \E home \in Homes : ssm = [s \in Session |-> NewMachine(home[s])]
    /\ current = [g \in Group |-> NoSession]
    /\ pending = {}
    /\ yields = [s \in Session |-> 0]
    /\ fault = FALSE

RunNext(s) == [op |-> "run", session |-> s]
ResumeTask(s) == [op |-> "resume", session |-> s]
MunmapTask(s) == [op |-> "munmap", session |-> s]

-----------------------------------------------------------------------------
(***************************************************************************)
(* The state machine on the stack of a worker or of a network thread.      *)
(***************************************************************************)

\* _cleanupSession: the session ends, and with it its Client and the response.
CleanupSession(s, m) ==
    /\ ssm' = [ssm EXCEPT ![s] = [m EXCEPT !.state = "Ended",
                                           !.client = "gone",
                                           !.reply = "none"]]
    /\ UNCHANGED queueVars

\* _scheduleNextWithGuard with the state already stored: the next step is a
\* task of the thread group; an executor that is shut down takes none, and
\* the session ends here.  (The look at _stillRunning and the queueing are one
\* step: no property speaks of a request that is not begun at a shutdown.)
ScheduleNextIgnoresRefusal(s, m, by) ==    \* Mutant: the status is not checked
    /\ ssm' = [ssm EXCEPT ![s] = m]
    /\ IF running THEN enqueueTask(m.group, RunNext(s), by)
       ELSE UNCHANGED queueVars

ScheduleNext(s, m, by) ==
    IF running
    THEN /\ ssm' = [ssm EXCEPT ![s] = m]
         /\ enqueueTask(m.group, RunNext(s), by)
    ELSE CleanupSession(s, m)

\* startSession puts the connection on a thread group and starts it.
StartSession(s) ==
    /\ ssm[s].state = "New"
    /\ ScheduleNext(s, [ssm[s] EXCEPT !.state = "Created"], Network)
    /\ UNCHANGED <<bulk, turn, ongoing, worker, running, current, pending,
                   yields, fault>>

\* _sourceCallback: a request has come, or the socket has failed.
SourceCallback(s) ==
    /\ ssm[s].state = "SourceWait"
    /\ \/ ScheduleNext(s, [ssm[s] EXCEPT !.state = "Process"], Network)
       \/ CleanupSession(s, ssm[s])
    /\ UNCHANGED <<bulk, turn, ongoing, worker, running, current, pending,
                   yields, fault>>

\* _sinkCallback: the reply is out, and an exhaust cursor goes on with the
\* next one by itself; or the socket has failed.
SinkCallback(s) ==
    /\ ssm[s].state = "SinkWait"
    /\ \/ ScheduleNext(s, [ssm[s] EXCEPT
             !.state = IF ssm[s].reply = "exhaust"
                       THEN "Process" ELSE "Source",
             !.reply = "none"], Network)
       \/ CleanupSession(s, ssm[s])
    /\ UNCHANGED <<bulk, turn, ongoing, worker, running, current, pending,
                   yields, fault>>

-----------------------------------------------------------------------------
(***************************************************************************)
(* The tasks of a worker.                                                  *)
(***************************************************************************)
NextTask(g, op, s) ==
    /\ worker[g] = "poll"
    /\ bulk[g] # <<>>
    /\ Head(bulk[g]) = [op |-> op, session |-> s]
    /\ bulk' = [bulk EXCEPT ![g] = Tail(@)]

\* _runNextInGuard with nothing to process: _sourceMessage.
SourceMessage(g, s) ==
    /\ NextTask(g, "run", s)
    /\ ssm[s].state \in {"Created", "Source"}
    /\ ssm' = [ssm EXCEPT ![s].state = "SourceWait"]
    /\ UNCHANGED <<queueVars, turn, ongoing, worker, running, current, pending,
                   yields, fault>>

BeginCoroutineUncounted(g, s) ==    \* Mutant: the group does not count it
    /\ NextTask(g, "run", s)
    /\ ssm[s].state = "Process"
    /\ ssm[s].status = "Empty"
    /\ ssm' = [ssm EXCEPT ![s] =
           [@ EXCEPT !.status = "OnGoing", !.resumeTo = ssm[s].group,
                     !.longTo = ssm[s].group, !.client = g]]
    /\ worker' = [worker EXCEPT ![g] = "coro"]
    /\ current' = [current EXCEPT ![g] = s]
    /\ UNCHANGED <<queueVars, turn, ongoing, running, pending, yields,
                   fault>>

\* _runNextInGuard with a request: bind the functors and enter the coroutine,
\* which runs _processMessage with the Client on this thread.
BeginCoroutine(g, s) ==
    /\ NextTask(g, "run", s)
    /\ ssm[s].state = "Process"
    /\ ssm[s].status = "Empty"
    /\ ssm' = [ssm EXCEPT ![s] =
           [@ EXCEPT !.status = "OnGoing", !.resumeTo = ssm[s].group,
                     !.longTo = ssm[s].group, !.client = g]]
    /\ ongoing' = CountUpdate(ssm[s].group, 1)
    /\ worker' = [worker EXCEPT ![g] = "coro"]
    /\ current' = [current EXCEPT ![g] = s]
    /\ UNCHANGED <<queueVars, turn, running, pending, yields,
                   fault>>

\* _runResumeProcess: take the Client back and continue the coroutine.  While
\* the worker that the coroutine migrates from has not cleared _migrating, the
\* task queues itself again and calls _coroYield, which is the coroutine's
\* yield and not this stack's: either the Client is not there yet
\* (releaseCurrent fails its invariant), or the context it switches to is
\* gone.  A coroutine that is not suspended cannot be continued either.
RunResumeProcess(g, s) ==
    /\ NextTask(g, "resume", s)
    /\ IF ssm[s].client = "ssm" /\ ~ssm[s].migrating
             /\ ssm[s].status = "OnGoing"
       THEN /\ ssm' = [ssm EXCEPT ![s].client = g]
            /\ worker' = [worker EXCEPT ![g] = "coro"]
            /\ current' = [current EXCEPT ![g] = s]
            /\ UNCHANGED fault
       ELSE /\ fault' = TRUE
            /\ UNCHANGED <<ssm, worker, current>>
    /\ UNCHANGED <<queueVars, turn, ongoing, running, pending, yields>>

\* The task that a destroyed state machine has left behind.
Munmap(g, s) ==
    /\ NextTask(g, "munmap", s)
    /\ ssm' = [ssm EXCEPT ![s].stack = "unmapped"]
    /\ UNCHANGED <<queueVars, turn, ongoing, worker, running, current, pending,
                   yields, fault>>

\* ~ServiceStateMachine, when the last reference goes.  The cleanup hook drops
\* the one of the session list; a task that has run keeps another until its
\* place in _taskBulk is used again, on any worker the session has been on.  A
\* worker leaves the stack to a task, another thread unmaps it at once.
Destroy(s) ==
    /\ ssm[s].state = "Ended" /\ ssm[s].stack = "mapped"
    /\ \/ \E g \in Group :
             /\ worker[g] = "poll"
             /\ ssm' = [ssm EXCEPT ![s].stack = "deferred"]
             /\ resumeTask(ssm[s].group, MunmapTask(s), g)
       \/ /\ ssm' = [ssm EXCEPT ![s].stack = "unmapped"]
          /\ UNCHANGED queueVars
    /\ UNCHANGED <<bulk, turn, ongoing, worker, running, current, pending,
                   yields, fault>>

-----------------------------------------------------------------------------
(***************************************************************************)
(* The coroutine, on the stack it brings with it.                          *)
(***************************************************************************)
InCoroutine(g) ==
    worker[g] = "coro" /\ yields[current[g]] < MaxYields[current[g]]

Leave(g, m) ==
    /\ ssm' = [ssm EXCEPT ![current[g]] = m]
    /\ yields' = [yields EXCEPT ![current[g]] = @ + 1]
    /\ worker' = [worker EXCEPT ![g] = "leaving"]

\* A request of the transaction service is under way; the service resumes the
\* coroutine, which goes on to yield.
AwaitTx(g) ==
    /\ InCoroutine(g)
    /\ Leave(g, ssm[current[g]])
    /\ pending' = pending \cup {current[g]}
    /\ UNCHANGED <<queueVars, bulk, turn, ongoing, running, current, fault>>

\* External: the answer, on a thread of the transaction service.
TxDone(s) ==
    /\ s \in pending
    /\ pending' = pending \ {s}
    /\ resumeTask(ssm[s].resumeTo, ResumeTask(s), TxService)
    /\ UNCHANGED <<bulk, turn, ongoing, worker, running, ssm, current,
                   yields, fault>>

\* coro::Mutex::lock and coro::ConditionVariable::wait: the coroutine queues
\* itself behind the tasks of the group and yields.
LongResume(g) ==
    /\ InCoroutine(g)
    /\ Leave(g, ssm[current[g]])
    /\ enqueueTask(ssm[current[g]].longTo, ResumeTask(current[g]), g)
    /\ UNCHANGED <<bulk, turn, ongoing, running, current, pending, fault>>

\* Mutant: the long resume functor stays bound to the old group.
MigrateThreadGroupHalfBound(g, h) ==
    /\ InCoroutine(g)
    /\ h # ssm[current[g]].group
    /\ Leave(g, [ssm[current[g]] EXCEPT !.group = h, !.resumeTo = h,
                                        !.migrating = TRUE])
    /\ resumeTask(h, ResumeTask(current[g]), g)
    /\ UNCHANGED <<bulk, turn, ongoing, running, current, pending, fault>>

\* _migrateThreadGroup up to its yield.
MigrateThreadGroup(g, h) ==
    /\ InCoroutine(g)
    /\ h # ssm[current[g]].group
    /\ Leave(g, [ssm[current[g]] EXCEPT !.group = h, !.resumeTo = h,
                                        !.longTo = h, !.migrating = TRUE])
    /\ resumeTask(h, ResumeTask(current[g]), g)
    /\ UNCHANGED <<bulk, turn, ongoing, running, current, pending, fault>>

BackToQueue(g) ==
    /\ worker' = [worker EXCEPT ![g] = "poll"]
    /\ current' = [current EXCEPT ![g] = NoSession]

\* _coroYield: hand the Client back and switch to the worker's stack, where
\* _finishCoroutineStep has nothing to do unless the coroutine migrates.
Yield(g) ==
    /\ worker[g] = "leaving"
    /\ ssm' = [ssm EXCEPT ![current[g]].client = "ssm"]
    /\ IF ssm[current[g]].migrating
       THEN /\ worker' = [worker EXCEPT ![g] = "switched"]
            /\ UNCHANGED current
       ELSE BackToQueue(g)
    /\ UNCHANGED <<queueVars, bulk, turn, ongoing, running, pending, yields,
                   fault>>

\* Mutant: an exception ends the session on the coroutine's own stack.
ReturnFromCoroutineCleansUp(g, reply) ==
    /\ worker[g] = "coro"
    /\ ssm' = [ssm EXCEPT ![current[g]] =
                   [@ EXCEPT !.status = "Empty", !.client = "ssm",
                             !.state = IF reply = "throw" THEN "Ended" ELSE @,
                             !.reply = reply]]
    /\ ongoing' = CountUpdate(ssm[current[g]].group, -1)
    /\ worker' = [worker EXCEPT ![g] = "returned"]
    /\ UNCHANGED <<queueVars, bulk, turn, running, current, pending, yields,
                   fault>>

\* The end of _processMessage, with the response saved or an exception caught:
\* the coroutine counts itself out and returns.
ReturnFromCoroutine(g, reply) ==
    /\ worker[g] = "coro"
    /\ ssm' = [ssm EXCEPT ![current[g]] =
                   [@ EXCEPT !.status = "Empty", !.client = "ssm",
                             !.reply = reply]]
    /\ ongoing' = CountUpdate(ssm[current[g]].group, -1)
    /\ worker' = [worker EXCEPT ![g] = "returned"]
    /\ UNCHANGED <<queueVars, bulk, turn, running, current, pending, yields,
                   fault>>

-----------------------------------------------------------------------------
(***************************************************************************)
(* _finishCoroutineStep, on the worker's stack.                            *)
(***************************************************************************)
ClearMigrating(g) ==
    /\ worker[g] = "switched"
    /\ ssm' = [ssm EXCEPT ![current[g]].migrating = FALSE]
    /\ worker' = [worker EXCEPT ![g] = "deciding"]
    /\ UNCHANGED <<queueVars, bulk, turn, ongoing, running, current, pending,
                   yields, fault>>

\* The request has yielded and goes on later.  If it has migrated and ended
\* since _migrating was cleared, this worker takes the response for its own
\* to deliver.
KeepSession(g) ==
    /\ worker[g] = "deciding"
    /\ fault' = (ssm[current[g]].status = "Empty")
    /\ BackToQueue(g)
    /\ UNCHANGED <<queueVars, bulk, turn, ongoing, running, ssm, pending,
                   yields>>

\* _processResponse: send the reply, or without one read the next request; an
\* exception, of the request or of the reply's compression, ends the session.
ProcessResponse(g) ==
    /\ worker[g] = "returned"
    /\ LET s == current[g]
           m == ssm[s]
       IN  CASE m.reply = "throw" -> CleanupSession(s, m)
             [] m.reply = "none" ->
                    ScheduleNext(s, [m EXCEPT !.state = "Source"], g)
             [] OTHER -> \/ /\ ssm' = [ssm EXCEPT ![s].state = "SinkWait"]
                            /\ UNCHANGED queueVars
                         \/ CleanupSession(s, m)
    /\ BackToQueue(g)
    /\ UNCHANGED <<bulk, turn, ongoing, running, pending, yields, fault>>

-----------------------------------------------------------------------------
ExecutorStep(g) ==
    /\ \/ DequeueResumptions(g)
       \/ DequeueTasks(g)
       \/ ExtThdEnd(g)
       \/ Park(g)
    /\ UNCHANGED ssmVars

WorkerStep(g) ==
    /\ ~fault
    /\ \/ ExecutorStep(g)
       \/ \E s \in Session : \/ SourceMessage(g, s)
                             \/ BeginCoroutine(g, s)
                             \/ RunResumeProcess(g, s)
                             \/ Munmap(g, s)
       \/ AwaitTx(g)
       \/ LongResume(g)
       \/ \E h \in Group : MigrateThreadGroup(g, h)
       \/ Yield(g)
       \/ \E reply \in {"none", "one", "exhaust", "throw"} :
              ReturnFromCoroutine(g, reply)
       \/ ClearMigrating(g)
       \/ KeepSession(g)
       \/ ProcessResponse(g)

NotifyStep(g, s) == ~fault /\ notifyIfAsleep(g, s) /\ UNCHANGED ssmVars

NetworkStep(s) == ~fault /\ (SourceCallback(s) \/ SinkCallback(s))

ShutdownStep == Shutdown \/ \E g \in Group : Quit(g)

Next ==
    \/ \E g \in Group : WorkerStep(g) \/ \E s \in Session : NotifyStep(g, s)
    \/ \E s \in Session :
          \/ NetworkStep(s)
          \/ ~fault /\ (StartSession(s) \/ TxDone(s) \/ Destroy(s))
    \/ ~fault /\ ShutdownStep /\ UNCHANGED ssmVars

Spec == Init /\ [][Next]_vars

\* The workers run, and so do the threads that are to notify one, and the
\* transaction service answers.  A client need not send anything, and a worker
\* need not quit.
LiveSpec ==
    /\ Spec
    /\ \A g \in Group : WF_vars(WorkerStep(g))
    /\ \A s \in Session :
          /\ WF_vars(\E g \in Group : NotifyStep(g, s))
          /\ WF_vars(~fault /\ TxDone(s))

-----------------------------------------------------------------------------
(***************************************************************************)
(* Properties.                                                             *)
(***************************************************************************)
Task == [op : {"run", "resume", "munmap"}, session : Session]

Machine ==
    [state : {"New", "Created", "Source", "SourceWait", "Process", "SinkWait",
              "Ended"},
     status : {"Empty", "OnGoing"}, group : Group, resumeTo : Group,
     longTo : Group, migrating : BOOLEAN, client : {"ssm", "gone"} \cup Group,
     reply : {"none", "one", "exhaust", "throw"},
     stack : {"mapped", "deferred", "unmapped"}]

\* Type correctness of the thread groups and of the connections.
TypeOK ==
    /\ taskQueue \in [Group -> Seq(Task)]
    /\ resumeQueue \in [Group -> Seq(Task)]
    /\ bulk \in [Group -> Seq(Task)]
    /\ turn \in [Group -> {"resumptions", "tasks"}]
    /\ ongoing \in [Group -> 0..CountMod - 1]
    /\ worker \in [Group -> {"poll", "coro", "leaving", "switched", "deciding",
                             "returned", "ending", "parked", "quit"}]
    /\ notifying \subseteq Group \X Session
    /\ ssm \in [Session -> Machine]
    /\ current \in [Group -> Session \cup {NoSession}]
    /\ pending \subseteq Session
    /\ {running, fault} \subseteq BOOLEAN
    /\ yields \in [Session -> Nat]
    /\ \A s \in Session : yields[s] <= MaxYields[s]

Queued(s) ==
    UNION {LET tasks == taskQueue[g] \o resumeQueue[g] \o bulk[g]
           IN  {<<g, i>> : i \in {j \in DOMAIN tasks :
                    tasks[j] \in {RunNext(s), ResumeTask(s)}}} : g \in Group}

RunBy(s) ==
    {g \in Group : current[g] = s /\ worker[g] \in {"coro", "returned"}}

InNetwork(s) == ssm[s].state \in {"SourceWait", "SinkWait"}

\* A connection that is open is driven by exactly one thing at any time: a
\* queued task, a request of the transaction service that will resume it, the
\* network, or the worker that runs it.  With none the client waits for ever;
\* with two, a second thread enters the coroutine or a resumption is left over
\* for a request, or a state machine, that is gone.
OneDriver ==
    fault \/ \A s \in Session :
        Cardinality(Queued(s)) + Cardinality(RunBy(s))
          + Cardinality({s} \cap pending) + (IF InNetwork(s) THEN 1 ELSE 0)
        = (IF ssm[s].state \in {"New", "Ended"} THEN 0 ELSE 1)

\* A coroutine runs only on the worker of its thread group, which after a
\* migration is the group that owns the cursor or the session it migrated for,
\* and whatever will resume it is queued there.
OnItsGroup ==
    /\ \A g \in Group :
          worker[g] \in {"coro", "returned"} => ssm[current[g]].group = g
    /\ \A s \in Session : \A place \in Queued(s) : place[1] = ssm[s].group

\* The stack of a coroutine is given up only when the session has been cleaned
\* up, nothing queued will run on it again, and no worker is on it or still
\* switching away from it.  (A worker that a migration has left "deciding" is
\* on its own stack; what it then reads of the state machine is NoFault's.)
StackOutlivesCoroutine ==
    \A s \in Session : ssm[s].stack # "mapped" =>
        /\ ssm[s].state = "Ended" /\ ssm[s].status = "Empty"
        /\ Queued(s) = {}
        /\ \A g \in Group :
              current[g] = s => fault \/ worker[g] = "deciding"

\* A connection that is due for a worker gets back to the network, its request
\* finished, or ends: no wake-up of a sleeping worker is lost, neither for a
\* task that is queued nor for a coroutine that is resumed, whatever the order
\* of queueing and parking.
RequestsFinish ==
    \A s \in Session :
        ssm[s].state \in {"Created", "Source", "Process"} ~>
            (fault \/ ~running \/ InNetwork(s) \/ ssm[s].state = "Ended")

NoMigration == \A s \in Session : ~ssm[s].migrating

\* A request that has begun finishes across a shutdown too: the count of
\* suspended coroutines keeps HasTask() on, and so the worker in the group,
\* until the transaction service has resumed the last of them.  (A migration
\* moves the coroutine and not the count, and its new group may lose its worker
\* while the request waits.)
ShutdownLosesNoRequest ==
    []NoMigration =>
        \A s \in Session :
            ssm[s].status = "OnGoing" ~> ssm[s].status = "Empty"

\* One thread at a time works on a state machine: no resumption meets a
\* coroutine that has not left its worker, and no worker delivers a response
\* that is another's.
NoFault == ~fault

=============================================================================
