------------------------ MODULE CdcWaitObjectProofs ------------------------
(***************************************************************************)
(* Proofs about CdcWaitObject: for any number of log groups and of threads *)
(* that notify at once, a waiting cursor is resumed exactly once, and no   *)
(* completion is lost between its look at the calls and its wait.          *)
(***************************************************************************)
EXTENDS CdcWaitObject, TLAPS

\* NoLostWakeup made inductive: a completed call that the pass in progress will
\* not come to has a notification on its way or flagged.
Announced ==
    /\ cancelled => at = "gone"
    /\ \A g \in Group : call[g] = "completed" =>
        /\ at = "look" => g \in todo \/ notified \/ notifying > 0
        /\ at \in {"run", "blocked"} => notified \/ notifying > 0
        /\ at \in {"leaving", "asleep"} => notifying + resuming + queued > 0

\* The invariant: TypeOK bounds the counters, ResumedOnce says which of them
\* may be positive where the cursor is, and Announced is NoLostWakeup together
\* with what the cursor owes to the completions it has passed over.
IndInv == TypeOK /\ ResumedOnce /\ Announced

\* The object starts without a waiter, calls or threads.
LEMMA IndInit == Init => IndInv
<1> SUFFICES ASSUME Init PROVE IndInv
  OBVIOUS
<1>1. TypeOK
  <2>1. notified \in BOOLEAN /\ coroutineWaiting \in BOOLEAN /\ cancelled \in BOOLEAN
    BY Zenon DEF Init
  <2>2. QED
    BY <2>1, MaxThreadsAssumption DEF Init, TypeOK
<1>2. ResumedOnce
  BY DEF Init, ResumedOnce
<1>3. Announced
  BY DEF Init, Announced
<1>4. QED
  BY <1>1, <1>2, <1>3 DEF IndInv

\* Steps of the callbacks' and timers' threads keep the invariant.
LEMMA ThreadStep ==
  ASSUME IndInv, \/ \E g \in Group : Complete(g)
                 \/ Fire
                 \/ Threads
  PROVE  IndInv'
<1> USE DEF IndInv, TypeOK, ResumedOnce, Announced
<1>1. ASSUME NEW g \in Group, Complete(g) PROVE IndInv'
  BY <1>1, MaxThreadsAssumption DEF Complete
<1>2. CASE Fire
  BY <1>2, MaxThreadsAssumption DEF Fire
<1>3. CASE Notify
  <2>1. CASE coroutineWaiting
    <3>1. /\ coroutineWaiting' \in BOOLEAN /\ ~coroutineWaiting'
          /\ resuming' = resuming + 1 /\ notified' = notified
      BY <1>3, <2>1, Zenon DEF Notify, Unregister
    <3>2. resuming = 0 /\ queued = 0
      BY <2>1
    <3>3. QED
      BY <1>3, <2>1, <3>1, <3>2, MaxThreadsAssumption DEF Notify
  <2>2. CASE ~coroutineWaiting
    <3>1. notified' = TRUE /\ UNCHANGED <<coroutineWaiting, resuming>>
      BY <1>3, <2>2, Zenon DEF Notify
    <3>2. QED
      BY <1>3, <2>2, <3>1, MaxThreadsAssumption DEF Notify
  <2>3. QED
    BY <2>1, <2>2
<1>4. CASE CallResume
  BY <1>4, MaxThreadsAssumption DEF CallResume
<1>5. QED
  BY <1>1, <1>2, <1>3, <1>4 DEF Threads

\* Steps of the cursor keep the invariant: a pass looks at every group, and
\* what completes behind its back is flagged or about to be when it waits.
LEMMA CursorStep ==
  ASSUME IndInv, Cursor
  PROVE  IndInv'
<1> USE DEF IndInv, TypeOK, ResumedOnce, Announced
<1>1. CASE CallNext
  BY <1>1, MaxThreadsAssumption DEF CallNext, BeginPass
<1>2. ASSUME NEW g \in Group, TakeCompleted(g) PROVE IndInv'
  BY <1>2, MaxThreadsAssumption DEF TakeCompleted
<1>3. ASSUME NEW g \in Group, IssueCall(g) PROVE IndInv'
  BY <1>3, MaxThreadsAssumption DEF IssueCall
<1>4. CASE FinishGetMore
  BY <1>4, MaxThreadsAssumption DEF FinishGetMore
<1>5. CASE WaitNot
  BY <1>5, MaxThreadsAssumption DEF WaitNot, BeginPass
<1>6. CASE Register
  BY <1>6, MaxThreadsAssumption DEF Register, MayRegister
<1>7. CASE Block
  BY <1>7, MaxThreadsAssumption DEF Block, MayRegister
<1>8. CASE Unblock
  BY <1>8, MaxThreadsAssumption DEF Unblock, BeginPass
<1>9. CASE Yield
  BY <1>9, MaxThreadsAssumption DEF Yield
<1>10. CASE RunCoroutine
  BY <1>10, MaxThreadsAssumption DEF RunCoroutine
<1>11. CASE DeleteTimer
  BY <1>11, MaxThreadsAssumption DEF DeleteTimer, BeginPass
<1>12. CASE Destroy
  BY <1>12, MaxThreadsAssumption DEF Destroy
<1>13. QED
  BY <1>1, <1>2, <1>3, <1>4, <1>5, <1>6, <1>7, <1>8, <1>9, <1>10, <1>11,
     <1>12 DEF Cursor

\* The invariant holds throughout.
LEMMA IndInvariance == Spec => []IndInv
<1>1. Init => IndInv
  BY IndInit
<1>2. IndInv /\ [Next]_vars => IndInv'
  <2> SUFFICES ASSUME IndInv, [Next]_vars PROVE IndInv'
    OBVIOUS
  <2>1. CASE (\E g \in Group : Complete(g)) \/ Fire \/ Threads
    BY <2>1, ThreadStep
  <2>2. CASE Cursor
    BY <2>2, CursorStep
  <2>3. CASE UNCHANGED vars
    BY <2>3 DEF vars, IndInv, TypeOK, ResumedOnce, Announced
  <2>4. QED
    BY <2>1, <2>2, <2>3 DEF Next
<1>3. QED
  BY <1>1, <1>2, PTL DEF Spec

\* The counters stay within their bounds: at most one thread is on its way to
\* resume the coroutine and at most one resumption is queued.
THEOREM TypeCorrect == Spec => []TypeOK
<1>1. IndInv => TypeOK
  BY DEF IndInv
<1>2. QED
  BY <1>1, IndInvariance, PTL

\* notify() resumes a waiter exactly once, and only while it is in its wait: the
\* functor it calls after it released the lock is never that of a getMore that
\* has gone on or returned.
THEOREM ResumedExactlyOnce == Spec => []ResumedOnce
<1>1. IndInv => ResumedOnce
  BY DEF IndInv
<1>2. QED
  BY <1>1, IndInvariance, PTL

\* No wake-up is lost: a cursor that waits while a completed call is not taken
\* has a notification that has reached it or is on its way.
THEOREM NoWakeupLost == Spec => []NoLostWakeup
<1>1. IndInv => NoLostWakeup
  BY DEF IndInv, Announced, NoLostWakeup
<1>2. QED
  BY <1>1, IndInvariance, PTL

=============================================================================
