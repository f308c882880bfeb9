--------------------------- MODULE CdcWaitObject ---------------------------
(***************************************************************************)
(* CdcWaitObject, where the callbacks of a cursor's scan calls and its     *)
(* deadline timers meet the coroutine that waits for them, with the part   *)
(* of CdcScanClient that callbacks share with it: the calls.               *)
(*                                                                         *)
(* Callbacks and timers run on threads of their own.  A thread that is to  *)
(* notify is counted in notifying until it holds the object's lock, and    *)
(* one that has unregistered the waiter in resuming until it has called    *)
(* the resume functor, which queues the coroutine.  What happens under a   *)
(* lock is one step.                                                       *)
(*                                                                         *)
(* The cursor is at one of these places (at):                              *)
(*   between   no getMore is running                                       *)
(*   look      next() goes over the groups for completed calls             *)
(*   run       it issues calls, and then returns or waits                  *)
(*   leaving   registered and unlocked, about to yield                     *)
(*   asleep    yielded                                                     *)
(*   awake     resumed, about to delete the timer                          *)
(*   blocked   a caller without coroutines, in the condition variable      *)
(*   gone      destroyed                                                   *)
(***************************************************************************)
EXTENDS Naturals

CONSTANTS
    Group,          \* the log groups
    MaxThreads      \* bound: how many threads are notifying at once

ASSUME MaxThreadsAssumption == MaxThreads \in Nat \ {0}

VARIABLES
    notified,           \* _notified
    coroutineWaiting,   \* _coroutineWaiting
    call,               \* call[g]: "none", "sent" or "completed"
    cancelled,          \* the client is gone: its calls notify nobody
    notifying,          \* threads about to take the lock in notify()
    resuming,           \* threads about to call the resume functor
    queued,             \* resumptions queued for the coroutine
    timer,              \* "none", "armed" or "fired"
    todo,               \* the groups this pass of next() has not looked at
    at

vars == <<notified, coroutineWaiting, call, cancelled, notifying, resuming,
          queued, timer, todo, at>>

Init ==
    /\ notified = FALSE
    /\ coroutineWaiting = FALSE
    /\ call = [g \in Group |-> "none"]
    /\ cancelled = FALSE
    /\ notifying = 0
    /\ resuming = 0
    /\ queued = 0
    /\ timer = "none"
    /\ todo = {}
    /\ at = "between"

-----------------------------------------------------------------------------
(***************************************************************************)
(* The threads.                                                            *)
(***************************************************************************)

\* A call's callback marks it complete, and goes on to notify the wait object
\* unless the client has cancelled the call.
Complete(g) ==
    /\ call[g] = "sent"
    /\ notifying < MaxThreads
    /\ call' = [call EXCEPT ![g] = "completed"]
    /\ notifying' = IF cancelled THEN notifying ELSE notifying + 1
    /\ UNCHANGED <<notified, coroutineWaiting, cancelled, resuming, queued,
                   timer, todo, at>>

\* The deadline timer fires; its callback notifies.
Fire ==
    /\ timer = "armed"
    /\ notifying < MaxThreads
    /\ timer' = "fired"
    /\ notifying' = notifying + 1
    /\ UNCHANGED <<notified, coroutineWaiting, call, cancelled, resuming,
                   queued, todo, at>>

\* Mutant: the waiter stays registered.
UnregisterNot == UNCHANGED coroutineWaiting

\* The waiter is unregistered before it is resumed.
Unregister == coroutineWaiting' = FALSE

\* notify(), under the lock.
Notify ==
    /\ notifying > 0
    /\ notifying' = notifying - 1
    /\ \/ /\ coroutineWaiting
          /\ Unregister
          /\ resuming' = resuming + 1
          /\ UNCHANGED notified
       \/ /\ ~coroutineWaiting
          /\ notified' = TRUE
          /\ UNCHANGED <<coroutineWaiting, resuming>>
    /\ UNCHANGED <<call, cancelled, queued, timer, todo, at>>

\* notify(), after the lock: the functor queues the coroutine.
CallResume ==
    /\ resuming > 0
    /\ resuming' = resuming - 1
    /\ queued' = queued + 1
    /\ UNCHANGED <<notified, coroutineWaiting, call, cancelled, notifying,
                   timer, todo, at>>

-----------------------------------------------------------------------------
(***************************************************************************)
(* The cursor.                                                             *)
(***************************************************************************)

\* Each pass of next() begins with the completed calls of every group.
BeginPass ==
    /\ at' = "look"
    /\ todo' = Group

\* A getMore starts, or the one that runs pulls again.
CallNext ==
    /\ at \in {"between", "run"}
    /\ BeginPass
    /\ UNCHANGED <<notified, coroutineWaiting, call, cancelled, notifying,
                   resuming, queued, timer>>

\* takeCompleted: a call that completes after its group was looked at is left
\* for the next pass.
TakeCompleted(g) ==
    /\ at = "look"
    /\ g \in todo
    /\ todo' = todo \ {g}
    /\ call' = [call EXCEPT ![g] = IF @ = "completed" THEN "none" ELSE @]
    /\ at' = IF todo' = {} THEN "run" ELSE "look"
    /\ UNCHANGED <<notified, coroutineWaiting, cancelled, notifying, resuming,
                   queued, timer>>

IssueCall(g) ==
    /\ at = "run"
    /\ call[g] = "none"
    /\ call' = [call EXCEPT ![g] = "sent"]
    /\ UNCHANGED <<notified, coroutineWaiting, cancelled, notifying, resuming,
                   queued, timer, todo, at>>

FinishGetMore ==
    /\ at = "run"
    /\ at' = "between"
    /\ UNCHANGED <<notified, coroutineWaiting, call, cancelled, notifying,
                   resuming, queued, timer, todo>>

\* waitUntil returns at once: it finds the flag and takes it, or the deadline
\* has passed, or no timer can be added.
WaitNot ==
    /\ at = "run"
    /\ notified' = FALSE
    /\ BeginPass
    /\ UNCHANGED <<coroutineWaiting, call, cancelled, notifying, resuming,
                   queued, timer>>

\* Mutant: the flag is not looked at.
MayRegisterAlways == TRUE

\* The flag is looked at under the lock the waiter registers under.
MayRegister == ~notified

\* It registers the coroutine, with a timer unless the wait is unbounded.
Register ==
    /\ at = "run"
    /\ MayRegister
    /\ coroutineWaiting' = TRUE
    /\ timer' \in {"none", "armed"}
    /\ at' = "leaving"
    /\ UNCHANGED <<notified, call, cancelled, notifying, resuming, queued, todo>>

\* It blocks the thread.
Block ==
    /\ at = "run"
    /\ MayRegister
    /\ at' = "blocked"
    /\ UNCHANGED <<notified, coroutineWaiting, call, cancelled, notifying,
                   resuming, queued, timer, todo>>

\* wait_until returns, at a notification or at the deadline.
Unblock ==
    /\ at = "blocked"
    /\ notified' = FALSE
    /\ BeginPass
    /\ UNCHANGED <<coroutineWaiting, call, cancelled, notifying, resuming,
                   queued, timer>>

Yield ==
    /\ at = "leaving"
    /\ at' = "asleep"
    /\ UNCHANGED <<notified, coroutineWaiting, call, cancelled, notifying,
                   resuming, queued, timer, todo>>

\* The thread group runs the coroutine it finds queued.
RunCoroutine ==
    /\ at = "asleep"
    /\ queued > 0
    /\ queued' = queued - 1
    /\ at' = "awake"
    /\ UNCHANGED <<notified, coroutineWaiting, call, cancelled, notifying,
                   resuming, timer, todo>>

\* The timer is deleted; one that has fired runs to its end regardless.
DeleteTimer ==
    /\ at = "awake"
    /\ timer' = "none"
    /\ BeginPass
    /\ UNCHANGED <<notified, coroutineWaiting, call, cancelled, notifying,
                   resuming, queued>>

\* The cursor is destroyed between two getMores, with calls still out.
Destroy ==
    /\ at = "between"
    /\ cancelled' = TRUE
    /\ at' = "gone"
    /\ UNCHANGED <<notified, coroutineWaiting, call, notifying, resuming,
                   queued, timer, todo>>

Threads == Notify \/ CallResume

Cursor ==
    \/ CallNext \/ FinishGetMore \/ Destroy
    \/ \E g \in Group : IssueCall(g) \/ TakeCompleted(g)
    \/ WaitNot \/ Register \/ Block \/ Unblock
    \/ Yield \/ RunCoroutine \/ DeleteTimer

Next == (\E g \in Group : Complete(g)) \/ Fire \/ Threads \/ Cursor

Spec == Init /\ [][Next]_vars

\* Threads and the coroutine scheduler make progress, and a getMore that runs
\* takes what it finds completed.  Nothing makes a timer fire: a completion
\* alone must wake the cursor.
Fairness ==
    /\ WF_vars(Threads)
    /\ WF_vars(Yield) /\ WF_vars(RunCoroutine) /\ WF_vars(DeleteTimer)
    /\ WF_vars(at = "blocked" /\ notified /\ Unblock)
    /\ WF_vars(\E g \in Group : TakeCompleted(g))

LiveSpec == Spec /\ Fairness

-----------------------------------------------------------------------------
(***************************************************************************)
(* Properties.                                                             *)
(***************************************************************************)

\* The object's variables have their types.
TypeOK ==
    /\ notified \in BOOLEAN
    /\ coroutineWaiting \in BOOLEAN
    /\ call \in [Group -> {"none", "sent", "completed"}]
    /\ cancelled \in BOOLEAN
    /\ notifying \in 0 .. MaxThreads
    /\ resuming \in 0 .. 1
    /\ queued \in 0 .. 1
    /\ timer \in {"none", "armed", "fired"}
    /\ todo \subseteq Group
    /\ at \in {"between", "look", "run", "leaving", "asleep", "awake", "blocked",
              "gone"}

\* A waiter is resumed exactly once, and only while it waits: the functor that
\* notify() calls after it has released the lock is that of a coroutine still
\* in its wait, never of a getMore that has returned.
ResumedOnce ==
    /\ resuming + queued <= 1
    /\ resuming + queued = 1 <=> at \in {"leaving", "asleep"} /\ ~coroutineWaiting
    /\ coroutineWaiting => at \in {"leaving", "asleep"}

\* No wake-up is lost: while the cursor waits with a completed call that it has
\* not taken, a notification is on its way or has arrived.
NoLostWakeup ==
    (\E g \in Group : call[g] = "completed") =>
        /\ at \in {"leaving", "asleep"} => notifying + resuming + queued > 0
        /\ at = "blocked" => notified \/ notifying > 0

\* A completed call wakes the cursor that waits for it, which takes it.
CompletionWakes ==
    \A g \in Group :
        (call[g] = "completed" /\ at \in {"leaving", "asleep", "blocked"}) ~>
            call[g] = "none"

=============================================================================
