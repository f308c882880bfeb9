--------------------- MODULE ServiceStateMachineProofs ---------------------
(***************************************************************************)
(* Proofs about ServiceStateMachine, for any thread groups, connections,   *)
(* batch size and number of yields: its type invariant, that an open       *)
(* connection has exactly one driver, that a coroutine runs and is queued  *)
(* only on its own group, that its stack outlives it, and that nothing but *)
(* a migration between groups can kill the process.                        *)
(***************************************************************************)
EXTENDS ServiceStateMachine, SequenceTheorems, FiniteSetTheorems, TLAPS

-----------------------------------------------------------------------------
(***************************************************************************)
(* Sequences of tasks.                                                     *)
(***************************************************************************)

\* A task that goes on with connection s, as opposed to the one that unmaps the
\* stack it has left.
Drives(t, s) == t.session = s /\ t.op # "munmap"

NoneOf(q, s) == \A i \in 1 .. Len(q) : ~Drives(q[i], s)

\* Task t is in q and no other task for s is.
OnceIn(q, s, t) ==
    \E i \in 1 .. Len(q) :
        q[i] = t /\ \A j \in 1 .. Len(q) : j # i => ~Drives(q[j], s)

In(q, t) == \E i \in 1 .. Len(q) : q[i] = t

\* The two tasks for s are those OneDriver counts.
LEMMA DrivesFacts ==
  ASSUME NEW s \in Session
  PROVE  /\ RunNext(s) \in Task /\ Drives(RunNext(s), s)
         /\ ResumeTask(s) \in Task /\ Drives(ResumeTask(s), s)
         /\ MunmapTask(s) \in Task /\ \A z : ~Drives(MunmapTask(s), z)
         /\ RunNext(s) # ResumeTask(s)
         /\ \A z \in Session : z # s =>
               ~Drives(RunNext(s), z) /\ ~Drives(ResumeTask(s), z)
         /\ \A t \in Task : t \in {RunNext(s), ResumeTask(s)} <=> Drives(t, s)
  BY DEF Task, Drives, RunNext, ResumeTask, MunmapTask

\* A task at the end of a queue.
LEMMA AppendFacts ==
  ASSUME NEW q \in Seq(Task), NEW t \in Task, NEW s
  PROVE  /\ Append(q, t) \in Seq(Task)
         /\ ~Drives(t, s) =>
              /\ NoneOf(q, s) => NoneOf(Append(q, t), s)
              /\ \A u : OnceIn(q, s, u) => OnceIn(Append(q, t), s, u)
         /\ Drives(t, s) /\ NoneOf(q, s) => OnceIn(Append(q, t), s, t)
         /\ \A u : In(Append(q, t), u) => In(q, u) \/ u = t
<1>1. /\ Append(q, t) \in Seq(Task)
      /\ Len(q) \in Nat /\ Len(Append(q, t)) = Len(q) + 1
      /\ \A i \in 1 .. Len(q) : Append(q, t)[i] = q[i]
      /\ Append(q, t)[Len(q) + 1] = t
  BY AppendProperties, LenProperties
<1> DEFINE a == Append(q, t)
<1> HIDE DEF a
<1>2. /\ a \in Seq(Task)
      /\ Len(q) \in Nat /\ Len(a) = Len(q) + 1
      /\ \A i \in 1 .. Len(q) : a[i] = q[i]
      /\ a[Len(q) + 1] = t
  BY <1>1 DEF a
<1>3. ~Drives(t, s) /\ NoneOf(q, s) => NoneOf(a, s)
  BY <1>2 DEF NoneOf
<1>4. ASSUME ~Drives(t, s), NEW u, OnceIn(q, s, u) PROVE OnceIn(a, s, u)
  BY <1>2, <1>4 DEF OnceIn
<1>5. Drives(t, s) /\ NoneOf(q, s) => OnceIn(a, s, t)
  BY <1>2 DEF NoneOf, OnceIn
<1>6. ASSUME NEW u, In(a, u) PROVE In(q, u) \/ u = t
  BY <1>2, <1>6 DEF In
<1>7. QED
  BY <1>2, <1>3, <1>4, <1>5, <1>6 DEF a

\* A task taken from the front of a batch.
LEMMA TailFacts ==
  ASSUME NEW q \in Seq(Task), q # <<>>, NEW s
  PROVE  /\ Head(q) \in Task /\ Tail(q) \in Seq(Task) /\ In(q, Head(q))
         /\ ~Drives(Head(q), s) =>
              /\ NoneOf(q, s) => NoneOf(Tail(q), s)
              /\ \A u : Drives(u, s) /\ OnceIn(q, s, u) => OnceIn(Tail(q), s, u)
         /\ Drives(Head(q), s) =>
              /\ ~NoneOf(q, s)
              /\ \A u : Drives(u, s) /\ OnceIn(q, s, u) => u = Head(q) /\ NoneOf(Tail(q), s)
         /\ \A u : In(Tail(q), u) => In(q, u)
<1>1. /\ Len(q) \in Nat \ {0}
      /\ Head(q) \in Task /\ Tail(q) \in Seq(Task)
      /\ Len(Tail(q)) = Len(q) - 1
      /\ \A i \in 1 .. Len(Tail(q)) : Tail(q)[i] = q[i + 1]
  BY HeadTailProperties, EmptySeq
<1>2. Head(q) = q[1]
  OBVIOUS
<1> DEFINE a == Tail(q)
           h == Head(q)
<1> HIDE DEF a, h
<1>3. /\ Len(q) \in Nat \ {0}
      /\ h = q[1]
      /\ Len(a) = Len(q) - 1
      /\ \A i \in 1 .. Len(a) : a[i] = q[i + 1]
      /\ \A i \in 1 .. Len(q) : i # 1 => i - 1 \in 1 .. Len(a) /\ a[i - 1] = q[i]
  <2>1. /\ Len(q) \in Nat \ {0}
        /\ h = q[1]
        /\ Len(a) = Len(q) - 1
        /\ \A i \in 1 .. Len(a) : a[i] = q[i + 1]
    BY <1>1, <1>2 DEF a, h
  <2>2. ASSUME NEW i \in 1 .. Len(q), i # 1
        PROVE  i - 1 \in 1 .. Len(a) /\ a[i - 1] = q[i]
    BY <2>1, <2>2
  <2>3. QED
    BY <2>1, <2>2
<1>4. NoneOf(q, s) => NoneOf(a, s)
  BY <1>3 DEF NoneOf
<1>5. ASSUME ~Drives(h, s), NEW u, Drives(u, s), OnceIn(q, s, u) PROVE OnceIn(a, s, u)
  <2>1. PICK i \in 1 .. Len(q) :
          q[i] = u /\ \A j \in 1 .. Len(q) : j # i => ~Drives(q[j], s)
    BY <1>5 DEF OnceIn
  <2>2. i # 1 /\ i - 1 \in 1 .. Len(a) /\ a[i - 1] = u
    BY <1>3, <1>5, <2>1
  <2>3. \A j \in 1 .. Len(a) : j # i - 1 => ~Drives(a[j], s)
    BY <1>3, <2>1
  <2>4. QED
    BY <2>2, <2>3 DEF OnceIn
<1>6. Drives(h, s) => ~NoneOf(q, s)
  BY <1>3 DEF NoneOf
<1>7. ASSUME Drives(h, s), NEW u, Drives(u, s), OnceIn(q, s, u)
      PROVE  u = h /\ NoneOf(a, s)
  <2>1. PICK i \in 1 .. Len(q) :
          q[i] = u /\ \A j \in 1 .. Len(q) : j # i => ~Drives(q[j], s)
    BY <1>7 DEF OnceIn
  <2>2. i = 1
    BY <1>3, <1>7, <2>1
  <2>3. \A j \in 1 .. Len(a) : ~Drives(a[j], s)
    BY <1>3, <2>1, <2>2
  <2>4. QED
    BY <1>3, <2>1, <2>2, <2>3 DEF NoneOf
<1>8. ASSUME NEW u, In(a, u) PROVE In(q, u)
  BY <1>3, <1>8 DEF In
<1>9. In(q, h)
  BY <1>3 DEF In
<1>10. QED
  BY <1>1, <1>4, <1>5, <1>6, <1>7, <1>8, <1>9 DEF a, h

\* A batch taken from a queue, and what it leaves there.
LEMMA SplitFacts ==
  ASSUME NEW q \in Seq(Task), NEW s
  PROVE  /\ Batch(q) \in Seq(Task) /\ Remainder(q) \in Seq(Task)
         /\ NoneOf(q, s) => NoneOf(Batch(q), s) /\ NoneOf(Remainder(q), s)
         /\ \A u : OnceIn(q, s, u) =>
              \/ OnceIn(Batch(q), s, u) /\ NoneOf(Remainder(q), s)
              \/ NoneOf(Batch(q), s) /\ OnceIn(Remainder(q), s, u)
         /\ \A u : In(Batch(q), u) \/ In(Remainder(q), u) => In(q, u)
<1> DEFINE n == IF Len(q) < BatchSize THEN Len(q) ELSE BatchSize
           a == Batch(q)
           b == Remainder(q)
<1>1. Len(q) \in Nat /\ n \in 0 .. Len(q) /\ \A i \in 1 .. Len(q) : q[i] \in Task
  BY ExecutorAssumption, LenProperties, ElementOfSeq
<1> HIDE DEF n
<1>2. /\ a \in Seq(Task) /\ Len(a) = n
      /\ \A i \in 1 .. n : a[i] = q[i]
  <2>1. a = SubSeq(q, 1, n)
    BY DEF Batch, n
  <2>2. \A i \in 1 .. n : q[i] \in Task
    BY <1>1
  <2>3. /\ SubSeq(q, 1, n) \in Seq(Task)
        /\ Len(SubSeq(q, 1, n)) = IF 1 <= n THEN n - 1 + 1 ELSE 0
        /\ \A i \in 1 .. n - 1 + 1 : SubSeq(q, 1, n)[i] = q[1 + i - 1]
    BY <1>1, <2>2, SubSeqProperties
  <2>4. QED
    BY <1>1, <2>1, <2>3
<1>3. /\ b \in Seq(Task) /\ Len(b) = Len(q) - n
      /\ \A i \in 1 .. Len(b) : b[i] = q[n + i]
  <2>1. b = SubSeq(q, n + 1, Len(q))
    BY <1>2 DEF Remainder
  <2>2. /\ SubSeq(q, n + 1, Len(q)) \in Seq(Task)
        /\ Len(SubSeq(q, n + 1, Len(q))) = IF n + 1 <= Len(q) THEN Len(q) - (n + 1) + 1 ELSE 0
        /\ \A i \in 1 .. Len(q) - (n + 1) + 1 : SubSeq(q, n + 1, Len(q))[i] = q[n + 1 + i - 1]
    BY <1>1, SubSeqProperties
  <2>3. QED
    BY <1>1, <2>1, <2>2
<1> HIDE DEF a, b
<1>4. \A i \in 1 .. Len(b) : n + i \in 1 .. Len(q)
  BY <1>1, <1>3
<1>5. ASSUME NoneOf(q, s) PROVE NoneOf(a, s) /\ NoneOf(b, s)
  <2>1. \A i \in 1 .. Len(a) : ~Drives(a[i], s)
    BY <1>1, <1>2, <1>5 DEF NoneOf
  <2>2. \A i \in 1 .. Len(b) : ~Drives(b[i], s)
    BY <1>3, <1>4, <1>5 DEF NoneOf
  <2>3. QED
    BY <2>1, <2>2 DEF NoneOf
<1>6. ASSUME NEW u, OnceIn(q, s, u)
      PROVE  \/ OnceIn(a, s, u) /\ NoneOf(b, s)
             \/ NoneOf(a, s) /\ OnceIn(b, s, u)
  <2>1. PICK i \in 1 .. Len(q) :
          q[i] = u /\ \A j \in 1 .. Len(q) : j # i => ~Drives(q[j], s)
    BY <1>6 DEF OnceIn
  <2>2. CASE i <= n
    <3>1. i \in 1 .. Len(a) /\ a[i] = u
      BY <1>1, <1>2, <2>1, <2>2
    <3>2. \A j \in 1 .. Len(a) : j # i => ~Drives(a[j], s)
      BY <1>1, <1>2, <2>1
    <3>3. \A j \in 1 .. Len(b) : ~Drives(b[j], s)
      BY <1>1, <1>3, <2>1, <2>2
    <3>4. QED
      BY <3>1, <3>2, <3>3 DEF OnceIn, NoneOf
  <2>3. CASE i > n
    <3>1. i - n \in 1 .. Len(b) /\ b[i - n] = u
      BY <1>1, <1>3, <2>1, <2>3
    <3>2. \A j \in 1 .. Len(b) : j # i - n => ~Drives(b[j], s)
      BY <1>1, <1>3, <2>1
    <3>3. \A j \in 1 .. Len(a) : ~Drives(a[j], s)
      BY <1>1, <1>2, <2>1, <2>3
    <3>4. QED
      BY <3>1, <3>2, <3>3 DEF OnceIn, NoneOf
  <2>4. QED
    BY <1>1, <2>2, <2>3
<1>7. ASSUME NEW u, In(a, u) \/ In(b, u) PROVE In(q, u)
  BY <1>1, <1>2, <1>3, <1>7 DEF In
<1>8. QED
  BY <1>2, <1>3, <1>5, <1>6, <1>7 DEF a, b

-----------------------------------------------------------------------------
(***************************************************************************)
(* The queues of the thread groups.                                        *)
(***************************************************************************)

NoneAt(g, s) ==
    NoneOf(taskQueue[g], s) /\ NoneOf(resumeQueue[g], s) /\ NoneOf(bulk[g], s)

\* No task for s is queued.
Unqueued(s) == \A g \in Group : NoneAt(g, s)

\* Task t is queued on group h, and no other task for s is queued anywhere.
QueuedOnce(s, h, t) ==
    /\ \A g \in Group \ {h} : NoneAt(g, s)
    /\ \/ /\ OnceIn(taskQueue[h], s, t)
          /\ NoneOf(resumeQueue[h], s) /\ NoneOf(bulk[h], s)
       \/ /\ OnceIn(resumeQueue[h], s, t)
          /\ NoneOf(taskQueue[h], s) /\ NoneOf(bulk[h], s)
       \/ /\ OnceIn(bulk[h], s, t)
          /\ NoneOf(taskQueue[h], s) /\ NoneOf(resumeQueue[h], s)

\* Task t is queued somewhere.
Held(t) ==
    \E g \in Group :
        In(taskQueue[g], t) \/ In(resumeQueue[g], t) \/ In(bulk[g], t)

QueuesOK ==
    /\ taskQueue \in [Group -> Seq(Task)]
    /\ resumeQueue \in [Group -> Seq(Task)]
    /\ bulk \in [Group -> Seq(Task)]

\* The tasks queued for s stay as they are.
SameQueued(s) ==
    /\ Unqueued(s) => Unqueued(s)'
    /\ \A h \in Group : \A t \in Task :
          Drives(t, s) /\ QueuedOnce(s, h, t) => QueuedOnce(s, h, t)'

\* A step that touches no queue.
LEMMA QueuesUnchanged ==
  ASSUME UNCHANGED <<taskQueue, resumeQueue, bulk>>, QueuesOK
  PROVE  /\ QueuesOK'
         /\ \A s : SameQueued(s)
         /\ \A t : Held(t)' => Held(t)
  BY DEF QueuesOK, SameQueued, Unqueued, QueuedOnce, NoneAt, Held

\* enqueueTask and resumeTask: one more task.
LEMMA EnqueueFacts ==
  ASSUME QueuesOK, NEW h \in Group, NEW t \in Task, UNCHANGED bulk,
         \/ /\ taskQueue' = [taskQueue EXCEPT ![h] = Append(@, t)]
            /\ UNCHANGED resumeQueue
         \/ /\ resumeQueue' = [resumeQueue EXCEPT ![h] = Append(@, t)]
            /\ UNCHANGED taskQueue
  PROVE  /\ QueuesOK'
         /\ \A s : ~Drives(t, s) => SameQueued(s)
         /\ \A s : Drives(t, s) /\ Unqueued(s) => QueuedOnce(s, h, t)'
         /\ \A u : Held(u)' => Held(u) \/ u = t
<1>1. /\ \A s : /\ Append(taskQueue[h], t) \in Seq(Task)
                /\ ~Drives(t, s) =>
                     /\ NoneOf(taskQueue[h], s) => NoneOf(Append(taskQueue[h], t), s)
                     /\ \A u : OnceIn(taskQueue[h], s, u) =>
                                 OnceIn(Append(taskQueue[h], t), s, u)
                /\ Drives(t, s) /\ NoneOf(taskQueue[h], s) =>
                     OnceIn(Append(taskQueue[h], t), s, t)
      /\ \A u : In(Append(taskQueue[h], t), u) => In(taskQueue[h], u) \/ u = t
  BY AppendFacts DEF QueuesOK
<1>2. /\ \A s : /\ Append(resumeQueue[h], t) \in Seq(Task)
                /\ ~Drives(t, s) =>
                     /\ NoneOf(resumeQueue[h], s) => NoneOf(Append(resumeQueue[h], t), s)
                     /\ \A u : OnceIn(resumeQueue[h], s, u) =>
                                 OnceIn(Append(resumeQueue[h], t), s, u)
                /\ Drives(t, s) /\ NoneOf(resumeQueue[h], s) =>
                     OnceIn(Append(resumeQueue[h], t), s, t)
      /\ \A u : In(Append(resumeQueue[h], t), u) => In(resumeQueue[h], u) \/ u = t
  BY AppendFacts DEF QueuesOK
<1>3. CASE taskQueue' = [taskQueue EXCEPT ![h] = Append(@, t)] /\ UNCHANGED resumeQueue
  <2>1. /\ taskQueue'[h] = Append(taskQueue[h], t)
        /\ \A g \in Group \ {h} : taskQueue'[g] = taskQueue[g]
        /\ resumeQueue' = resumeQueue /\ bulk' = bulk
    BY <1>3 DEF QueuesOK
  <2>2. QueuesOK'
    BY <1>1, <1>3, <2>1 DEF QueuesOK
  <2>3. ASSUME NEW s, ~Drives(t, s) PROVE SameQueued(s)
    <3>1. ASSUME NEW g \in Group, NoneAt(g, s) PROVE NoneAt(g, s)'
      BY <1>1, <2>1, <2>3, <3>1 DEF NoneAt
    <3>2. ASSUME NEW g \in Group, NEW u, QueuedOnce(s, g, u) PROVE QueuedOnce(s, g, u)'
      BY <1>1, <2>1, <2>3, <3>1, <3>2 DEF QueuedOnce
    <3>3. QED
      BY <3>1, <3>2 DEF SameQueued, Unqueued
  <2>4. ASSUME NEW s, Drives(t, s), Unqueued(s) PROVE QueuedOnce(s, h, t)'
    BY <1>1, <2>1, <2>4 DEF Unqueued, NoneAt, QueuedOnce
  <2>5. ASSUME NEW u, Held(u)' PROVE Held(u) \/ u = t
    BY <1>1, <2>1, <2>5 DEF Held
  <2>6. QED
    BY <2>2, <2>3, <2>4, <2>5
<1>4. CASE resumeQueue' = [resumeQueue EXCEPT ![h] = Append(@, t)] /\ UNCHANGED taskQueue
  <2>1. /\ resumeQueue'[h] = Append(resumeQueue[h], t)
        /\ \A g \in Group \ {h} : resumeQueue'[g] = resumeQueue[g]
        /\ taskQueue' = taskQueue /\ bulk' = bulk
    BY <1>4 DEF QueuesOK
  <2>2. QueuesOK'
    BY <1>2, <1>4, <2>1 DEF QueuesOK
  <2>3. ASSUME NEW s, ~Drives(t, s) PROVE SameQueued(s)
    <3>1. ASSUME NEW g \in Group, NoneAt(g, s) PROVE NoneAt(g, s)'
      BY <1>2, <2>1, <2>3, <3>1 DEF NoneAt
    <3>2. ASSUME NEW g \in Group, NEW u, QueuedOnce(s, g, u) PROVE QueuedOnce(s, g, u)'
      BY <1>2, <2>1, <2>3, <3>1, <3>2 DEF QueuedOnce
    <3>3. QED
      BY <3>1, <3>2 DEF SameQueued, Unqueued
  <2>4. ASSUME NEW s, Drives(t, s), Unqueued(s) PROVE QueuedOnce(s, h, t)'
    BY <1>2, <2>1, <2>4 DEF Unqueued, NoneAt, QueuedOnce
  <2>5. ASSUME NEW u, Held(u)' PROVE Held(u) \/ u = t
    BY <1>2, <2>1, <2>5 DEF Held
  <2>6. QED
    BY <2>2, <2>3, <2>4, <2>5
<1>5. QED
  BY <1>3, <1>4

\* Process() moves a batch from a queue to _taskBulk, which is empty then.
LEMMA DequeueFacts ==
  ASSUME QueuesOK, NEW g \in Group, DequeueResumptions(g) \/ DequeueTasks(g)
  PROVE  /\ QueuesOK'
         /\ \A s : SameQueued(s)
         /\ \A u : Held(u)' => Held(u)
<1>1. bulk[g] = <<>> /\ \A s : NoneOf(bulk[g], s)
  BY DEF DequeueResumptions, DequeueTasks, BetweenTasks, NoneOf
<1>2. CASE DequeueResumptions(g)
  <2>1. /\ \A s : /\ Batch(resumeQueue[g]) \in Seq(Task)
                  /\ Remainder(resumeQueue[g]) \in Seq(Task)
                  /\ NoneOf(resumeQueue[g], s) =>
                       NoneOf(Batch(resumeQueue[g]), s) /\ NoneOf(Remainder(resumeQueue[g]), s)
                  /\ \A u : OnceIn(resumeQueue[g], s, u) =>
                       \/ /\ OnceIn(Batch(resumeQueue[g]), s, u)
                          /\ NoneOf(Remainder(resumeQueue[g]), s)
                       \/ /\ NoneOf(Batch(resumeQueue[g]), s)
                          /\ OnceIn(Remainder(resumeQueue[g]), s, u)
        /\ \A u : In(Batch(resumeQueue[g]), u) \/ In(Remainder(resumeQueue[g]), u)
                    => In(resumeQueue[g], u)
    BY SplitFacts DEF QueuesOK
  <2>2. /\ bulk' = [bulk EXCEPT ![g] = Batch(resumeQueue[g])]
        /\ resumeQueue' = [resumeQueue EXCEPT ![g] = Remainder(@)]
        /\ taskQueue' = taskQueue
    BY <1>2 DEF DequeueResumptions
  <2>3. /\ bulk'[g] = Batch(resumeQueue[g]) /\ resumeQueue'[g] = Remainder(resumeQueue[g])
        /\ \A h \in Group \ {g} : bulk'[h] = bulk[h] /\ resumeQueue'[h] = resumeQueue[h]
    BY <2>2 DEF QueuesOK
  <2>4. QueuesOK'
    BY <2>1, <2>2 DEF QueuesOK
  <2>5. ASSUME NEW s PROVE SameQueued(s)
    <3>1. ASSUME NEW h \in Group, NoneAt(h, s) PROVE NoneAt(h, s)'
      BY <2>1, <2>2, <2>3, <3>1 DEF NoneAt
    <3>2. ASSUME NEW h \in Group, NEW u, OnceIn(bulk[h], s, u) => h # g, QueuedOnce(s, h, u)
          PROVE  QueuedOnce(s, h, u)'
      BY <1>1, <2>1, <2>2, <2>3, <3>1, <3>2 DEF QueuedOnce
    <3>3. \A u : ~OnceIn(bulk[g], s, u)
      BY <1>1 DEF OnceIn
    <3>4. QED
      BY <3>1, <3>2, <3>3 DEF SameQueued, Unqueued
  <2>6. ASSUME NEW u, Held(u)' PROVE Held(u)
    BY <2>1, <2>2, <2>3, <2>6 DEF Held
  <2>7. QED
    BY <2>4, <2>5, <2>6
<1>3. CASE DequeueTasks(g)
  <2>1. /\ \A s : /\ Batch(taskQueue[g]) \in Seq(Task)
                  /\ Remainder(taskQueue[g]) \in Seq(Task)
                  /\ NoneOf(taskQueue[g], s) =>
                       NoneOf(Batch(taskQueue[g]), s) /\ NoneOf(Remainder(taskQueue[g]), s)
                  /\ \A u : OnceIn(taskQueue[g], s, u) =>
                       \/ /\ OnceIn(Batch(taskQueue[g]), s, u)
                          /\ NoneOf(Remainder(taskQueue[g]), s)
                       \/ /\ NoneOf(Batch(taskQueue[g]), s)
                          /\ OnceIn(Remainder(taskQueue[g]), s, u)
        /\ \A u : In(Batch(taskQueue[g]), u) \/ In(Remainder(taskQueue[g]), u)
                    => In(taskQueue[g], u)
    BY SplitFacts DEF QueuesOK
  <2>2. /\ bulk' = [bulk EXCEPT ![g] = Batch(taskQueue[g])]
        /\ taskQueue' = [taskQueue EXCEPT ![g] = Remainder(@)]
        /\ resumeQueue' = resumeQueue
    BY <1>3 DEF DequeueTasks
  <2>3. /\ bulk'[g] = Batch(taskQueue[g]) /\ taskQueue'[g] = Remainder(taskQueue[g])
        /\ \A h \in Group \ {g} : bulk'[h] = bulk[h] /\ taskQueue'[h] = taskQueue[h]
    BY <2>2 DEF QueuesOK
  <2>4. QueuesOK'
    BY <2>1, <2>2 DEF QueuesOK
  <2>5. ASSUME NEW s PROVE SameQueued(s)
    <3>1. ASSUME NEW h \in Group, NoneAt(h, s) PROVE NoneAt(h, s)'
      BY <2>1, <2>2, <2>3, <3>1 DEF NoneAt
    <3>2. ASSUME NEW h \in Group, NEW u, OnceIn(bulk[h], s, u) => h # g, QueuedOnce(s, h, u)
          PROVE  QueuedOnce(s, h, u)'
      BY <1>1, <2>1, <2>2, <2>3, <3>1, <3>2 DEF QueuedOnce
    <3>3. \A u : ~OnceIn(bulk[g], s, u)
      BY <1>1 DEF OnceIn
    <3>4. QED
      BY <3>1, <3>2, <3>3 DEF SameQueued, Unqueued
  <2>6. ASSUME NEW u, Held(u)' PROVE Held(u)
    BY <2>1, <2>2, <2>3, <2>6 DEF Held
  <2>7. QED
    BY <2>4, <2>5, <2>6
<1>4. QED
  BY <1>2, <1>3

\* The worker takes the next task of its batch: it was the one queued for its
\* connection, and it was queued here.
LEMMA NextTaskFacts ==
  ASSUME QueuesOK, NEW g \in Group, NEW op, NEW z, NextTask(g, op, z),
         UNCHANGED <<taskQueue, resumeQueue>>
  PROVE  LET d == [op |-> op, session |-> z]
         IN  /\ QueuesOK'
             /\ d \in Task /\ Held(d)
             /\ \A s : ~Drives(d, s) => SameQueued(s)
             /\ \A s : Drives(d, s) =>
                  /\ ~Unqueued(s)
                  /\ \A h \in Group : \A t \in Task :
                       Drives(t, s) /\ QueuedOnce(s, h, t) =>
                         h = g /\ t = d /\ Unqueued(s)'
             /\ \A u : Held(u)' => Held(u)
<1> DEFINE d == [op |-> op, session |-> z]
<1>1. /\ bulk[g] # <<>> /\ Head(bulk[g]) = d
      /\ bulk' = [bulk EXCEPT ![g] = Tail(@)]
      /\ bulk[g] \in Seq(Task)
  BY DEF NextTask, QueuesOK
<1>2. /\ \A s :
         /\ d \in Task /\ Tail(bulk[g]) \in Seq(Task) /\ In(bulk[g], d)
         /\ ~Drives(d, s) =>
              /\ NoneOf(bulk[g], s) => NoneOf(Tail(bulk[g]), s)
              /\ \A u : Drives(u, s) /\ OnceIn(bulk[g], s, u) => OnceIn(Tail(bulk[g]), s, u)
         /\ Drives(d, s) =>
              /\ ~NoneOf(bulk[g], s)
              /\ \A u : Drives(u, s) /\ OnceIn(bulk[g], s, u) =>
                          u = d /\ NoneOf(Tail(bulk[g]), s)
      /\ \A u : In(Tail(bulk[g]), u) => In(bulk[g], u)
  BY <1>1, TailFacts
<1> HIDE DEF d
<1>3. /\ bulk'[g] = Tail(bulk[g]) /\ taskQueue' = taskQueue /\ resumeQueue' = resumeQueue
      /\ \A h \in Group \ {g} : bulk'[h] = bulk[h]
  BY <1>1 DEF QueuesOK
<1>4. QueuesOK'
  BY <1>1, <1>2, <1>3 DEF QueuesOK
<1>5. d \in Task /\ Held(d)
  BY <1>2 DEF Held
<1>6. ASSUME NEW s, ~Drives(d, s) PROVE SameQueued(s)
  <2>1. ASSUME NEW h \in Group, NoneAt(h, s) PROVE NoneAt(h, s)'
    BY <1>2, <1>3, <1>6, <2>1 DEF NoneAt
  <2>2. ASSUME NEW h \in Group, NEW u, Drives(u, s), QueuedOnce(s, h, u)
        PROVE  QueuedOnce(s, h, u)'
    BY <1>2, <1>3, <1>6, <2>1, <2>2 DEF QueuedOnce
  <2>3. QED
    BY <2>1, <2>2 DEF SameQueued, Unqueued
<1>7. ASSUME NEW s, Drives(d, s) PROVE ~Unqueued(s)
  BY <1>2, <1>7 DEF Unqueued, NoneAt
<1>8. ASSUME NEW s, Drives(d, s), NEW h \in Group, NEW t \in Task, Drives(t, s),
             QueuedOnce(s, h, t)
      PROVE  h = g /\ t = d /\ Unqueued(s)'
  <2>1. h = g /\ OnceIn(bulk[g], s, t) /\ NoneOf(taskQueue[g], s) /\ NoneOf(resumeQueue[g], s)
    BY <1>2, <1>8 DEF QueuedOnce, NoneAt
  <2>2. t = d /\ NoneOf(Tail(bulk[g]), s)
    BY <1>2, <1>8, <2>1
  <2>3. \A k \in Group : NoneAt(k, s)'
    BY <1>3, <1>8, <2>1, <2>2 DEF QueuedOnce, NoneAt
  <2>4. QED
    BY <2>1, <2>2, <2>3 DEF Unqueued
<1>9. ASSUME NEW u, Held(u)' PROVE Held(u)
  BY <1>2, <1>3, <1>9 DEF Held
<1>10. QED
  BY <1>4, <1>5, <1>6, <1>7, <1>8, <1>9 DEF d

-----------------------------------------------------------------------------
(***************************************************************************)
(* The inductive invariant: what a connection's driver is in each phase of *)
(* its life.                                                               *)
(***************************************************************************)

\* Where a worker is when a connection is its business; one that is deciding
\* after a migration has nothing to do with it any more.
Active == {"coro", "leaving", "switched", "returned"}

At(s, g, w) == current[g] = s /\ worker[g] = w

NoWorker(s) == \A g \in Group : \A w \in Active : ~At(s, g, w)

OnlyWorker(s, h, w) ==
    /\ At(s, h, w)
    /\ \A g \in Group \ {h} : \A v \in Active : ~At(s, g, v)

\* Before the start and after the end, and while the network has it.
Idle(s) ==
    /\ ssm[s].state \in {"New", "Ended", "SourceWait", "SinkWait"}
    /\ ssm[s].status = "Empty" /\ ~ssm[s].migrating
    /\ Unqueued(s) /\ s \notin pending /\ NoWorker(s)

\* Its next step is a task of its group.
Scheduled(s) ==
    /\ ssm[s].state \in {"Created", "Source", "Process"}
    /\ ssm[s].status = "Empty" /\ ~ssm[s].migrating
    /\ QueuedOnce(s, ssm[s].group, RunNext(s))
    /\ s \notin pending /\ NoWorker(s)

\* Its coroutine has the Client, and its functors lead back to its group.
Entered(s) ==
    /\ ssm[s].state = "Process" /\ ssm[s].status = "OnGoing"
    /\ ssm[s].resumeTo = ssm[s].group /\ ssm[s].longTo = ssm[s].group

\* Its coroutine runs, on its group.
Executing(s) ==
    /\ Entered(s) /\ ~ssm[s].migrating /\ ssm[s].client \in Group
    /\ Unqueued(s) /\ s \notin pending
    /\ OnlyWorker(s, ssm[s].group, "coro")

\* Its coroutine has arranged its resumption, on its group, and has left the
\* worker or is still to leave it.
Suspended(s) ==
    /\ Entered(s)
    /\ \/ QueuedOnce(s, ssm[s].group, ResumeTask(s)) /\ s \notin pending
       \/ Unqueued(s) /\ s \in pending
    /\ \/ NoWorker(s) /\ ~ssm[s].migrating /\ ssm[s].client = "ssm"
       \/ ssm[s].client \in Group /\ \E g \in Group : OnlyWorker(s, g, "leaving")
       \/ /\ ssm[s].migrating /\ ssm[s].client = "ssm"
          /\ \E g \in Group : OnlyWorker(s, g, "switched")

\* Its coroutine has ended, and the worker is about to deliver the response.
Answered(s) ==
    /\ ssm[s].state = "Process" /\ ssm[s].status = "Empty" /\ ~ssm[s].migrating
    /\ Unqueued(s) /\ s \notin pending
    /\ OnlyWorker(s, ssm[s].group, "returned")

PhaseOK(s) == Idle(s) \/ Scheduled(s) \/ Executing(s) \/ Suspended(s) \/ Answered(s)

\* A worker has a connection exactly when it is in a task that runs one.
WorkersOK ==
    \A g \in Group :
        worker[g] \in Active \cup {"deciding"} <=> current[g] # NoSession

\* The stack is given up, or about to be, only by a session that has ended.
StacksOK ==
    \A s \in Session :
        Held(MunmapTask(s)) \/ ssm[s].stack # "mapped" => ssm[s].state = "Ended"

Core == TypeOK /\ WorkersOK /\ StacksOK /\ \A s \in Session : PhaseOK(s)

\* A process that has died takes no more steps; this is still true of it.
Died ==
    /\ TypeOK
    /\ \A g \in Group :
          worker[g] \in {"coro", "returned"} => ssm[current[g]].group = g
    /\ \A s \in Session :
          /\ \/ Unqueued(s)
             \/ \E t \in {RunNext(s), ResumeTask(s)} : QueuedOnce(s, ssm[s].group, t)
          /\ ssm[s].stack # "mapped" =>
                ssm[s].state = "Ended" /\ ssm[s].status = "Empty" /\ Unqueued(s)

IndInv == Core \/ (fault /\ Died)

-----------------------------------------------------------------------------
(***************************************************************************)
(* What a step leaves alone.                                               *)
(***************************************************************************)

\* The workers that are on s stay where they are.
SameWorkers(s) ==
    \A g \in Group : \A w \in Active : At(s, g, w)' <=> At(s, g, w)

\* A connection that a step does not touch stays in its phase.
LEMMA PhaseKept ==
  ASSUME NEW s \in Session, ssm[s].group \in Group, ssm'[s] = ssm[s],
         s \in pending' <=> s \in pending, SameQueued(s), SameWorkers(s),
         PhaseOK(s)
  PROVE  PhaseOK(s)'
<1>1. Unqueued(s) => Unqueued(s)'
  BY DEF SameQueued
<1>2. /\ QueuedOnce(s, ssm[s].group, RunNext(s))
           => QueuedOnce(s, ssm[s].group, RunNext(s))'
      /\ QueuedOnce(s, ssm[s].group, ResumeTask(s))
           => QueuedOnce(s, ssm[s].group, ResumeTask(s))'
  <2>1. \A h \in Group : \A t \in Task :
          Drives(t, s) /\ QueuedOnce(s, h, t) => QueuedOnce(s, h, t)'
    BY DEF SameQueued
  <2>2. \A t \in Task : Drives(t, s) /\ QueuedOnce(s, ssm[s].group, t)
                          => QueuedOnce(s, ssm[s].group, t)'
    <3>1. ASSUME NEW h \in Group, h = ssm[s].group, NEW t \in Task, Drives(t, s),
                 QueuedOnce(s, h, t)
          PROVE  QueuedOnce(s, h, t)'
      BY <2>1, <3>1
    <3>2. QED
      BY <3>1 DEF QueuedOnce, NoneAt
  <2>3. QED
    BY <2>2, DrivesFacts
<1>3. NoWorker(s) => NoWorker(s)'
  BY DEF NoWorker, SameWorkers
<1>4. \A g \in Group : \A w \in Active : OnlyWorker(s, g, w) => OnlyWorker(s, g, w)'
  BY DEF OnlyWorker, SameWorkers
<1>5. CASE Idle(s)
  BY <1>1, <1>3, <1>5 DEF Idle, PhaseOK
<1>6. CASE Scheduled(s)
  BY <1>2, <1>3, <1>6 DEF Scheduled, PhaseOK
<1>7. CASE Executing(s)
  BY <1>1, <1>4, <1>7 DEF Executing, Entered, PhaseOK, Active
<1>8. CASE Suspended(s)
  BY <1>1, <1>2, <1>3, <1>4, <1>8 DEF Suspended, Entered, PhaseOK, Active
<1>9. CASE Answered(s)
  BY <1>1, <1>4, <1>9 DEF Answered, PhaseOK, Active
<1>10. QED
  BY <1>5, <1>6, <1>7, <1>8, <1>9 DEF PhaseOK


\* A step that changes no worker, or one worker that has connection z or none.
LEMMA WorkersKept ==
  ASSUME TypeOK, NEW z, NEW g \in Group,
         current[g] \in {z, NoSession}, current'[g] \in {z, NoSession},
         \A h \in Group \ {g} : current'[h] = current[h] /\ worker'[h] = worker[h]
  PROVE  \A s \in Session : s # z => SameWorkers(s)
  BY SessionAssumption DEF SameWorkers, At, TypeOK

\* A step that changes no worker at all.
LEMMA WorkersUnchanged ==
  ASSUME UNCHANGED <<worker, current>>
  PROVE  /\ \A s : SameWorkers(s)
         /\ \A s : NoWorker(s) => NoWorker(s)'
         /\ \A s : \A g \in Group : \A w : OnlyWorker(s, g, w) => OnlyWorker(s, g, w)'
         /\ WorkersOK => WorkersOK'
  BY DEF SameWorkers, At, NoWorker, OnlyWorker, WorkersOK

\* A worker that is done with a connection leaves it without one.
LEMMA WorkerFreed ==
  ASSUME TypeOK, WorkersOK, NEW g \in Group, BackToQueue(g), NEW z \in Session,
         current[g] = z
  PROVE  /\ \A s \in Session : s # z => SameWorkers(s)
         /\ \A w \in Active : OnlyWorker(z, g, w) => NoWorker(z)'
         /\ WorkersOK'
<1>1. /\ current'[g] = NoSession /\ worker'[g] = "poll"
      /\ \A h \in Group \ {g} : current'[h] = current[h] /\ worker'[h] = worker[h]
  BY DEF BackToQueue, TypeOK
<1>2. \A s \in Session : s # z => SameWorkers(s)
  BY <1>1, WorkersKept
<1>3. ASSUME NEW w \in Active, OnlyWorker(z, g, w) PROVE NoWorker(z)'
  <2>1. ASSUME NEW h \in Group, NEW v \in Active, current'[h] = z, worker'[h] = v
        PROVE  FALSE
    <3>1. h # g
      BY <1>1, <2>1, SessionAssumption
    <3>2. At(z, h, v)
      BY <1>1, <2>1, <3>1 DEF At
    <3>3. QED
      BY <1>3, <3>1, <3>2 DEF OnlyWorker
  <2>2. QED
    BY <2>1 DEF NoWorker, At
<1>4. WorkersOK'
  BY <1>1 DEF WorkersOK, Active
<1>5. QED
  BY <1>2, <1>3, <1>4


\* A worker comes to a connection or goes on with it.
LEMMA WorkerMoved ==
  ASSUME TypeOK, WorkersOK, NEW g \in Group, NEW z \in Session, NEW v,
         worker' = [worker EXCEPT ![g] = v], v \in Active \cup {"deciding"},
         current[g] \in {z, NoSession}, current' = [current EXCEPT ![g] = z],
         \A h \in Group \ {g} : \A w \in Active : ~At(z, h, w)
  PROVE  /\ \A s \in Session : s # z => SameWorkers(s)
         /\ v # "deciding" => OnlyWorker(z, g, v)'
         /\ v = "deciding" => NoWorker(z)'
         /\ WorkersOK'
<1>1. /\ current'[g] = z /\ worker'[g] = v
      /\ \A h \in Group \ {g} : current'[h] = current[h] /\ worker'[h] = worker[h]
  BY DEF TypeOK
<1>2. \A s \in Session : s # z => SameWorkers(s)
  BY <1>1, WorkersKept
<1>3. \A h \in Group \ {g} : \A w \in Active : ~(current'[h] = z /\ worker'[h] = w)
  BY <1>1 DEF At
<1>4. v # "deciding" => OnlyWorker(z, g, v)'
  BY <1>1, <1>3 DEF OnlyWorker, At
<1>5. v = "deciding" => NoWorker(z)'
  BY <1>1, <1>3 DEF NoWorker, At, Active
<1>6. WorkersOK'
  BY <1>1, SessionAssumption DEF WorkersOK
<1>7. QED
  BY <1>2, <1>4, <1>5, <1>6

\* A worker without a connection that gets none.
LEMMA WorkerUnused ==
  ASSUME TypeOK, WorkersOK, NEW g \in Group, NEW v, UNCHANGED current,
         worker' = [worker EXCEPT ![g] = v],
         {worker[g], v} \cap (Active \cup {"deciding"}) = {}
  PROVE  WorkersOK' /\ \A s \in Session : SameWorkers(s)
<1>1. /\ worker'[g] = v /\ current[g] = NoSession /\ current'[g] = NoSession
      /\ \A h \in Group \ {g} : current'[h] = current[h] /\ worker'[h] = worker[h]
  BY DEF TypeOK, WorkersOK
<1>2. \A s \in Session : SameWorkers(s)
  <2>1. \A s \in Session : s # NoSession
    BY SessionAssumption
  <2>2. \A s \in Session : s # NoSession => SameWorkers(s)
    BY <1>1, WorkersKept
  <2>3. QED
    BY <2>1, <2>2
<1>3. WorkersOK'
  BY <1>1 DEF WorkersOK
<1>4. QED
  BY <1>2, <1>3

-----------------------------------------------------------------------------
(***************************************************************************)
(* A step that hands the connection on, or ends the session.               *)
(***************************************************************************)

\* What the queue lemmas ask of the types.
LEMMA TypedQueues ==
  ASSUME TypeOK PROVE QueuesOK
  BY DEF TypeOK, QueuesOK

\* What one more task does to the threads that are to notify a worker.
LEMMA NotifyFacts ==
  ASSUME notifying \subseteq Group \X Session, NEW g \in Group, NEW s \in Session,
         NEW t, t.session = s, NEW by, ToNotify(g, t, by)
  PROVE  notifying' \subseteq Group \X Session
  BY DEF ToNotify

\* _scheduleNextWithGuard queues the one task of the connection, on its group, or
\* the session ends with none.
LEMMA ScheduleFacts ==
  ASSUME TypeOK, NEW s \in Session, NEW m \in Machine, NEW by, UNCHANGED bulk,
         Unqueued(s), ssm[s].state # "Ended", StacksOK, m.stack = ssm[s].stack,
         \/ m.state \in {"Created", "Source", "Process"} /\ ScheduleNext(s, m, by)
         \/ CleanupSession(s, m)
  PROVE  /\ QueuesOK' /\ StacksOK' /\ notifying' \subseteq Group \X Session
         /\ ssm' \in [Session -> Machine]
         /\ \A z \in Session : z # s => ssm'[z] = ssm[z] /\ SameQueued(z)
         /\ ssm'[s].status = m.status /\ ssm'[s].migrating = m.migrating
         /\ ssm'[s].group = m.group
         /\ \/ /\ ssm'[s].state \in {"Created", "Source", "Process"}
               /\ QueuedOnce(s, m.group, RunNext(s))'
            \/ ssm'[s].state = "Ended" /\ Unqueued(s)'
<1>1. CASE /\ m.state \in {"Created", "Source", "Process"}
           /\ ssm' = [ssm EXCEPT ![s] = m]
           /\ enqueueTask(m.group, RunNext(s), by)
  <2>1. /\ m.group \in Group
        /\ taskQueue' = [taskQueue EXCEPT ![m.group] = Append(@, RunNext(s))]
        /\ resumeQueue' = resumeQueue
    BY <1>1 DEF enqueueTask, Machine
  <2>2. QueuesOK /\ RunNext(s) \in Task /\ Drives(RunNext(s), s)
        /\ \A z \in Session : z # s => ~Drives(RunNext(s), z)
    BY DrivesFacts, TypedQueues
  <2>3. /\ QueuesOK'
        /\ \A z : ~Drives(RunNext(s), z) => SameQueued(z)
        /\ QueuedOnce(s, m.group, RunNext(s))'
        /\ \A u : Held(u)' => Held(u) \/ u = RunNext(s)
    <3> DEFINE h == m.group
               t == RunNext(s)
    <3>1. h \in Group /\ t \in Task /\ Drives(t, s)
      BY <2>1, <2>2
    <3>2. taskQueue' = [taskQueue EXCEPT ![h] = Append(@, t)] /\ resumeQueue' = resumeQueue
      BY <2>1
    <3> HIDE DEF h, t
    <3>3. /\ QueuesOK'
          /\ \A z : ~Drives(t, z) => SameQueued(z)
          /\ QueuedOnce(s, h, t)'
          /\ \A u : Held(u)' => Held(u) \/ u = t
      BY <2>2, <3>1, <3>2, EnqueueFacts
    <3>4. QED
      BY <3>3 DEF h, t
  <2>4. notifying' \subseteq Group \X Session
    <3>1. RunNext(s).session = s /\ ToNotify(m.group, RunNext(s), by)
      BY <1>1 DEF enqueueTask, RunNext
    <3>2. notifying \subseteq Group \X Session
      BY DEF TypeOK
    <3>3. QED
      BY <2>1, <3>1, <3>2, NotifyFacts
  <2>5. /\ ssm' \in [Session -> Machine] /\ ssm'[s] = m
        /\ \A z \in Session : z # s => ssm'[z] = ssm[z]
    BY <1>1 DEF TypeOK
  <2>6. StacksOK'
    <3>1. \A z \in Session : MunmapTask(z) # RunNext(s)
      BY DEF MunmapTask, RunNext
    <3>2. \A z \in Session : Held(MunmapTask(z))' => Held(MunmapTask(z))
      BY <2>3, <3>1
    <3>3. QED
      BY <2>5, <3>2 DEF StacksOK
  <2>7. QED
    BY <1>1, <2>2, <2>3, <2>4, <2>5, <2>6
<1>2. CASE CleanupSession(s, m)
  <2>1. /\ QueuesOK' /\ \A z : SameQueued(z)
        /\ \A t : Held(t)' => Held(t)
        /\ Unqueued(s)'
        /\ notifying' \subseteq Group \X Session
    BY <1>2, TypedQueues, QueuesUnchanged DEF CleanupSession, queueVars, SameQueued, TypeOK
  <2>2. [m EXCEPT !.state = "Ended", !.client = "gone", !.reply = "none"] \in Machine
    BY DEF Machine
  <2>3. /\ ssm' \in [Session -> Machine]
        /\ ssm'[s] = [m EXCEPT !.state = "Ended", !.client = "gone", !.reply = "none"]
        /\ \A z \in Session : z # s => ssm'[z] = ssm[z]
    BY <1>2, <2>2 DEF CleanupSession, TypeOK
  <2>4. /\ ssm'[s].state = "Ended" /\ ssm'[s].status = m.status
        /\ ssm'[s].migrating = m.migrating /\ ssm'[s].group = m.group
    BY <2>3 DEF Machine
  <2>5. StacksOK'
    <3>1. \A z \in Session : Held(MunmapTask(z))' => Held(MunmapTask(z))
      BY <2>1
    <3>2. \A z \in Session : ssm[z].state = "Ended" => ssm'[z].state = "Ended"
      BY <2>3, <2>4
    <3>3. \A z \in Session : z # s => ssm'[z].stack = ssm[z].stack
      BY <2>3
    <3>4. QED
      BY <2>4, <3>1, <3>2, <3>3 DEF StacksOK
  <2>6. QED
    BY <2>1, <2>3, <2>4, <2>5
<1>3. QED
  BY <1>1, <1>2 DEF ScheduleNext


\* The connection that no worker is on afterwards, and the others.
LEMMA HandedOn ==
  ASSUME Core, ~fault, NEW s \in Session, NEW m \in Machine, NEW by,
         Unqueued(s), ssm[s].state # "Ended", m.stack = ssm[s].stack,
         m.status = "Empty", ~m.migrating, s \notin pending,
         \/ m.state \in {"Created", "Source", "Process"} /\ ScheduleNext(s, m, by)
         \/ CleanupSession(s, m),
         UNCHANGED <<bulk, turn, ongoing, running, pending, yields, fault>>,
         worker' \in [Group -> {"poll", "coro", "leaving", "switched", "deciding",
                                "returned", "ending", "parked", "quit"}],
         current' \in [Group -> Session \cup {NoSession}],
         WorkersOK', NoWorker(s)', \A z \in Session : z # s => SameWorkers(z)
  PROVE  Core' /\ ~fault'
<1>1. /\ QueuesOK' /\ StacksOK' /\ notifying' \subseteq Group \X Session
      /\ ssm' \in [Session -> Machine]
      /\ \A z \in Session : z # s => ssm'[z] = ssm[z] /\ SameQueued(z)
      /\ ssm'[s].status = m.status /\ ssm'[s].migrating = m.migrating
      /\ ssm'[s].group = m.group
      /\ \/ /\ ssm'[s].state \in {"Created", "Source", "Process"}
            /\ QueuedOnce(s, m.group, RunNext(s))'
         \/ ssm'[s].state = "Ended" /\ Unqueued(s)'
  BY ScheduleFacts DEF Core
<1>2. TypeOK'
  BY <1>1 DEF Core, TypeOK, QueuesOK
<1>3. ASSUME NEW z \in Session PROVE PhaseOK(z)'
  <2>1. CASE z # s
    <3>1. ssm[z].group \in Group
      BY DEF Core, TypeOK, Machine
    <3>2. QED
      BY <1>1, <2>1, <3>1, PhaseKept DEF Core
  <2>2. CASE z = s
    <3>1. s \notin pending'
      OBVIOUS
    <3>2. CASE /\ ssm'[s].state \in {"Created", "Source", "Process"}
               /\ QueuedOnce(s, m.group, RunNext(s))'
      <4>1. QueuedOnce(s, ssm[s].group, RunNext(s))'
        BY <1>1, <3>2 DEF QueuedOnce, NoneAt
      <4>2. Scheduled(s)'
        BY <1>1, <3>1, <3>2, <4>1 DEF Scheduled
      <4>3. QED
        BY <2>2, <4>2 DEF PhaseOK
    <3>3. CASE ssm'[s].state = "Ended" /\ Unqueued(s)'
      <4>1. Idle(s)'
        BY <1>1, <3>1, <3>3 DEF Idle
      <4>2. QED
        BY <2>2, <4>1 DEF PhaseOK
    <3>4. QED
      BY <1>1, <3>2, <3>3
  <2>3. QED
    BY <2>1, <2>2
<1>4. QED
  BY <1>1, <1>2, <1>3 DEF Core

\* The three steps of a thread that is no worker.
LEMMA NetworkCore ==
  ASSUME Core, ~fault, NEW s \in Session,
         StartSession(s) \/ SourceCallback(s) \/ SinkCallback(s)
  PROVE  Core' /\ ~fault'
<1>1. /\ ssm[s] \in Machine
      /\ ssm[s].state \in {"New", "SourceWait", "SinkWait"}
      /\ PhaseOK(s)
  BY DEF Core, TypeOK, StartSession, SourceCallback, SinkCallback
<1>2. Idle(s)
  BY <1>1 DEF PhaseOK, Scheduled, Executing, Suspended, Answered, Entered
<1>3. UNCHANGED <<bulk, turn, ongoing, worker, running, current, pending, yields, fault>>
  BY DEF StartSession, SourceCallback, SinkCallback
<1>4. /\ NoWorker(s)' /\ WorkersOK' /\ \A z : SameWorkers(z)
  BY <1>2, <1>3, WorkersUnchanged DEF Idle, Core
<1>5. PICK m \in Machine :
        /\ m.stack = ssm[s].stack /\ m.status = "Empty" /\ ~m.migrating
        /\ \/ m.state \in {"Created", "Source", "Process"} /\ ScheduleNext(s, m, Network)
           \/ CleanupSession(s, m)
  <2>1. CASE StartSession(s)
    <3> DEFINE m == [ssm[s] EXCEPT !.state = "Created"]
    <3>1. /\ m \in Machine /\ m.stack = ssm[s].stack /\ m.status = "Empty" /\ ~m.migrating
          /\ m.state = "Created"
      BY <1>1, <1>2 DEF Machine, Idle
    <3>2. ScheduleNext(s, m, Network)
      BY <2>1 DEF StartSession
    <3> HIDE DEF m
    <3>3. QED
      BY <3>1, <3>2
  <2>2. CASE SourceCallback(s)
    <3> DEFINE m == [ssm[s] EXCEPT !.state = "Process"]
    <3>1. /\ m \in Machine /\ m.stack = ssm[s].stack /\ m.status = "Empty" /\ ~m.migrating
          /\ m.state = "Process"
          /\ ssm[s].status = "Empty" /\ ~ssm[s].migrating
      BY <1>1, <1>2 DEF Machine, Idle
    <3>2. ScheduleNext(s, m, Network) \/ CleanupSession(s, ssm[s])
      BY <2>2 DEF SourceCallback
    <3> HIDE DEF m
    <3>3. QED
      BY <1>1, <3>1, <3>2
  <2>3. CASE SinkCallback(s)
    <3> DEFINE m == [ssm[s] EXCEPT
                       !.state = IF ssm[s].reply = "exhaust" THEN "Process" ELSE "Source",
                       !.reply = "none"]
    <3>1. /\ m \in Machine /\ m.stack = ssm[s].stack /\ m.status = "Empty" /\ ~m.migrating
          /\ m.state \in {"Source", "Process"}
          /\ ssm[s].status = "Empty" /\ ~ssm[s].migrating
      BY <1>1, <1>2 DEF Machine, Idle
    <3>2. ScheduleNext(s, m, Network) \/ CleanupSession(s, ssm[s])
      BY <2>3 DEF SinkCallback
    <3> HIDE DEF m
    <3>3. QED
      BY <1>1, <3>1, <3>2
  <2>4. QED
    BY <2>1, <2>2, <2>3
<1>6. /\ worker' \in [Group -> {"poll", "coro", "leaving", "switched", "deciding",
                                "returned", "ending", "parked", "quit"}]
      /\ current' \in [Group -> Session \cup {NoSession}]
  BY <1>3 DEF Core, TypeOK
<1>7. Unqueued(s) /\ s \notin pending /\ ssm[s].state # "Ended"
  BY <1>1, <1>2 DEF Idle
<1>8. QED
  BY <1>3, <1>4, <1>5, <1>6, <1>7, HandedOn

\* A connection with an active worker has only that one, and is in the phase
\* that goes with it.
LEMMA ActivePhase ==
  ASSUME Core, NEW g \in Group, worker[g] \in Active
  PROVE  /\ current[g] \in Session
         /\ \A h \in Group \ {g} : \A w \in Active : ~At(current[g], h, w)
         /\ OnlyWorker(current[g], g, worker[g])
         /\ worker[g] = "coro" => Executing(current[g]) /\ ssm[current[g]].group = g
         /\ worker[g] \in {"leaving", "switched"} => Suspended(current[g])
         /\ worker[g] = "switched" =>
              ssm[current[g]].migrating /\ ssm[current[g]].client = "ssm"
         /\ worker[g] = "leaving" => ssm[current[g]].client \in Group
         /\ worker[g] = "returned" => Answered(current[g]) /\ ssm[current[g]].group = g
<1> DEFINE z == current[g]
<1>1. z \in Session /\ PhaseOK(z) /\ At(z, g, worker[g]) /\ ~NoWorker(z)
  BY DEF Core, WorkersOK, TypeOK, At, NoWorker
<1> HIDE DEF z
<1>2. ASSUME NEW h \in Group, NEW v \in Active, OnlyWorker(z, h, v)
      PROVE  h = g /\ v = worker[g]
  BY <1>1, <1>2 DEF OnlyWorker, At
<1>3. CASE Executing(z)
  <2>1. ssm[z].group \in Group /\ OnlyWorker(z, ssm[z].group, "coro")
    BY <1>1, <1>3 DEF Executing, Core, TypeOK, Machine
  <2>2. ssm[z].group = g /\ worker[g] = "coro"
    BY <1>2, <2>1 DEF Active
  <2>3. QED
    BY <1>1, <1>3, <2>1, <2>2 DEF z, OnlyWorker
<1>4. CASE Answered(z)
  <2>1. ssm[z].group \in Group /\ OnlyWorker(z, ssm[z].group, "returned")
    BY <1>1, <1>4 DEF Answered, Core, TypeOK, Machine
  <2>2. ssm[z].group = g /\ worker[g] = "returned"
    BY <1>2, <2>1 DEF Active
  <2>3. QED
    BY <1>1, <1>4, <2>1, <2>2 DEF z, OnlyWorker
<1>5. CASE Suspended(z)
  <2>1. CASE ssm[z].client \in Group /\ \E h \in Group : OnlyWorker(z, h, "leaving")
    <3>1. worker[g] = "leaving" /\ OnlyWorker(z, g, "leaving")
      BY <1>2, <2>1 DEF Active
    <3>2. QED
      BY <1>1, <1>5, <2>1, <3>1 DEF z, OnlyWorker
  <2>2. CASE /\ ssm[z].migrating /\ ssm[z].client = "ssm"
             /\ \E h \in Group : OnlyWorker(z, h, "switched")
    <3>1. worker[g] = "switched" /\ OnlyWorker(z, g, "switched")
      BY <1>2, <2>2 DEF Active
    <3>2. QED
      BY <1>1, <1>5, <2>2, <3>1 DEF z, OnlyWorker
  <2>3. QED
    BY <1>1, <1>5, <2>1, <2>2 DEF Suspended
<1>6. QED
  BY <1>1, <1>3, <1>4, <1>5 DEF PhaseOK, Idle, Scheduled


\* A step of one connection.
LEMMA CoreKept ==
  ASSUME Core, NEW z \in Session, TypeOK', WorkersOK', StacksOK', PhaseOK(z)',
         \A s \in Session : s # z =>
             /\ ssm'[s] = ssm[s] /\ (s \in pending' <=> s \in pending)
             /\ SameQueued(s) /\ SameWorkers(s)
  PROVE  Core'
<1>1. ASSUME NEW s \in Session, s # z PROVE PhaseOK(s)'
  <2>1. ssm[s].group \in Group /\ PhaseOK(s)
    BY DEF Core, TypeOK, Machine
  <2>2. QED
    BY <1>1, <2>1, PhaseKept
<1>2. QED
  BY <1>1 DEF Core

\* A step that neither gives up a stack, nor queues a task that does, nor takes
\* a session back that has ended.
LEMMA StacksKept ==
  ASSUME StacksOK, NEW z \in Session, ssm'[z].stack = ssm[z].stack,
         ssm[z].state = "Ended" => ssm'[z].state = "Ended",
         \A s \in Session : s # z => ssm'[s] = ssm[s],
         \A s \in Session : Held(MunmapTask(s))' => Held(MunmapTask(s))
  PROVE  StacksOK'
<1>1. ASSUME NEW s \in Session, Held(MunmapTask(s))' \/ ssm'[s].stack # "mapped"
      PROVE  ssm'[s].state = "Ended"
  <2>1. Held(MunmapTask(s)) \/ ssm[s].stack # "mapped"
    BY <1>1
  <2>2. ssm[s].state = "Ended"
    BY <2>1 DEF StacksOK
  <2>3. QED
    BY <2>2
<1>2. QED
  BY <1>1 DEF StacksOK

-----------------------------------------------------------------------------
(***************************************************************************)
(* The worker, back on its own stack.                                      *)
(***************************************************************************)

\* The worker that has the response hands the connection to the network, to a
\* task, or ends it.
LEMMA ProcessResponseCore ==
  ASSUME Core, ~fault, NEW g \in Group, ProcessResponse(g)
  PROVE  Core' /\ ~fault'
<1>1. worker[g] = "returned" /\ worker[g] \in Active
  BY DEF ProcessResponse, Active
<1>2. PICK z \in Session :
        z = current[g] /\ Answered(z) /\ OnlyWorker(z, g, "returned")
  BY <1>1, ActivePhase
<1>3. ssm[z] \in Machine /\ ssm[z].group \in Group
  BY <1>2 DEF Core, TypeOK, Machine
<1>4. /\ ssm[z].state = "Process" /\ ssm[z].status = "Empty" /\ ~ssm[z].migrating
      /\ Unqueued(z) /\ z \notin pending
  BY <1>2 DEF Answered
<1>5. /\ BackToQueue(g)
      /\ UNCHANGED <<bulk, turn, ongoing, running, pending, yields, fault>>
  BY DEF ProcessResponse
<1>6. /\ \A s \in Session : s # z => SameWorkers(s)
      /\ NoWorker(z)' /\ WorkersOK'
  <2>1. TypeOK /\ WorkersOK /\ "returned" \in Active
    BY DEF Core, Active
  <2>2. QED
    BY <1>2, <1>5, <2>1, WorkerFreed
<1>7. /\ worker' \in [Group -> {"poll", "coro", "leaving", "switched", "deciding",
                                "returned", "ending", "parked", "quit"}]
      /\ current' \in [Group -> Session \cup {NoSession}]
  BY <1>5 DEF BackToQueue, Core, TypeOK
<1>8. CASE CleanupSession(z, ssm[z])
  <2>1. QED
    BY <1>2, <1>3, <1>4, <1>5, <1>6, <1>7, <1>8, HandedOn
<1>9. CASE ScheduleNext(z, [ssm[z] EXCEPT !.state = "Source"], g)
  <2> DEFINE m == [ssm[z] EXCEPT !.state = "Source"]
  <2>1. /\ m \in Machine /\ m.state = "Source" /\ m.status = "Empty" /\ ~m.migrating
        /\ m.stack = ssm[z].stack /\ ScheduleNext(z, m, g)
    BY <1>3, <1>4, <1>9 DEF Machine
  <2> HIDE DEF m
  <2>2. QED
    BY <1>2, <1>3, <1>4, <1>5, <1>6, <1>7, <2>1, HandedOn
<1>10. CASE ssm' = [ssm EXCEPT ![z].state = "SinkWait"] /\ UNCHANGED queueVars
  <2>1. /\ ssm' \in [Session -> Machine]
        /\ ssm'[z] = [ssm[z] EXCEPT !.state = "SinkWait"]
        /\ \A s \in Session : s # z => ssm'[s] = ssm[s]
    <3>1. [ssm[z] EXCEPT !.state = "SinkWait"] \in Machine
      BY <1>3 DEF Machine
    <3>2. ssm \in [Session -> Machine]
      BY DEF Core, TypeOK
    <3>3. QED
      BY <1>2, <1>10, <3>1, <3>2
  <2>2. /\ ssm'[z].state = "SinkWait" /\ ssm'[z].status = "Empty" /\ ~ssm'[z].migrating
        /\ ssm'[z].stack = ssm[z].stack
    BY <1>3, <1>4, <2>1 DEF Machine
  <2>3. /\ QueuesOK' /\ \A s : SameQueued(s)
        /\ \A t : Held(t)' => Held(t)
        /\ notifying' = notifying
    BY <1>5, <1>10, TypedQueues, QueuesUnchanged DEF queueVars, Core
  <2>4. TypeOK'
    BY <1>5, <1>7, <2>1, <2>3 DEF Core, TypeOK, QueuesOK
  <2>5. StacksOK'
    BY <1>2, <1>4, <2>1, <2>2, <2>3, StacksKept DEF Core
  <2>6. Unqueued(z)'
    BY <1>4, <2>3 DEF SameQueued
  <2>7. PhaseOK(z)'
    BY <1>4, <1>5, <1>6, <2>2, <2>6 DEF PhaseOK, Idle
  <2>8. Core'
    BY <1>2, <1>5, <1>6, <2>1, <2>3, <2>4, <2>5, <2>7, CoreKept
  <2>9. QED
    BY <1>5, <2>8
<1>11. QED
  BY <1>2, <1>8, <1>9, <1>10 DEF ProcessResponse

\* The coroutine is off the worker; its resumption was arranged before.
LEMMA YieldCore ==
  ASSUME Core, ~fault, NEW g \in Group, Yield(g)
  PROVE  Core' /\ ~fault'
<1>1. worker[g] = "leaving" /\ worker[g] \in Active
  BY DEF Yield, Active
<1>2. PICK z \in Session :
        /\ z = current[g] /\ Suspended(z) /\ OnlyWorker(z, g, "leaving")
        /\ \A h \in Group \ {g} : \A w \in Active : ~At(z, h, w)
  BY <1>1, ActivePhase
<1>3. ssm[z] \in Machine /\ ssm[z].group \in Group
  BY <1>2 DEF Core, TypeOK, Machine
<1>4. /\ ssm' = [ssm EXCEPT ![z].client = "ssm"]
      /\ UNCHANGED <<queueVars, bulk, turn, ongoing, running, pending, yields, fault>>
  BY <1>2 DEF Yield
<1>5. /\ ssm[z].migrating => worker' = [worker EXCEPT ![g] = "switched"] /\ current' = current
      /\ ~ssm[z].migrating => BackToQueue(g)
  BY <1>2 DEF Yield
<1>6. /\ ssm' \in [Session -> Machine]
      /\ ssm'[z] = [ssm[z] EXCEPT !.client = "ssm"]
      /\ \A s \in Session : s # z => ssm'[s] = ssm[s]
  BY <1>2, <1>3, <1>4 DEF Core, TypeOK, Machine
<1>7. /\ ssm'[z].state = ssm[z].state /\ ssm'[z].status = ssm[z].status
      /\ ssm'[z].group = ssm[z].group /\ ssm'[z].resumeTo = ssm[z].resumeTo
      /\ ssm'[z].longTo = ssm[z].longTo /\ ssm'[z].migrating = ssm[z].migrating
      /\ ssm'[z].client = "ssm" /\ ssm'[z].stack = ssm[z].stack
  BY <1>3, <1>6 DEF Machine
<1>8. /\ QueuesOK' /\ \A s : SameQueued(s)
      /\ \A t : Held(t)' => Held(t)
      /\ notifying' = notifying
  BY <1>4, TypedQueues, QueuesUnchanged DEF queueVars, Core
<1>9. /\ worker' \in [Group -> {"poll", "coro", "leaving", "switched", "deciding",
                                 "returned", "ending", "parked", "quit"}]
       /\ current' \in [Group -> Session \cup {NoSession}]
  BY <1>5 DEF BackToQueue, Core, TypeOK
<1>10. TypeOK'
  BY <1>4, <1>6, <1>8, <1>9 DEF Core, TypeOK, QueuesOK
<1>11. StacksOK'
  <2>1. StacksOK /\ (ssm[z].state = "Ended" => ssm'[z].state = "Ended")
    BY <1>7 DEF Core
  <2>2. QED
    BY <1>2, <1>6, <1>7, <1>8, <2>1, StacksKept
<1>12. /\ WorkersOK' /\ \A s \in Session : s # z => SameWorkers(s)
       /\ ~ssm[z].migrating => NoWorker(z)'
       /\ ssm[z].migrating => OnlyWorker(z, g, "switched")'
  <2>1. TypeOK /\ WorkersOK /\ "leaving" \in Active /\ "switched" \in Active
    BY DEF Core, Active
  <2>2. CASE ssm[z].migrating
    <3>1. current' = [current EXCEPT ![g] = z]
      BY <1>2, <1>5, <2>1, <2>2 DEF TypeOK
    <3>2. QED
      BY <1>2, <1>5, <2>1, <2>2, <3>1, WorkerMoved
  <2>3. CASE ~ssm[z].migrating
    BY <1>2, <1>5, <2>1, <2>3, WorkerFreed
  <2>4. QED
    BY <2>2, <2>3
<1>13. PhaseOK(z)'
  <2>1. /\ QueuedOnce(z, ssm[z].group, ResumeTask(z)) => QueuedOnce(z, ssm[z].group, ResumeTask(z))'
        /\ Unqueued(z) => Unqueued(z)'
    BY <1>4, <1>7 DEF QueuedOnce, Unqueued, NoneAt, queueVars
  <2>2. Suspended(z)'
    BY <1>2, <1>4, <1>7, <1>12, <2>1 DEF Suspended, Entered
  <2>3. QED
    BY <2>2 DEF PhaseOK
<1>14. Core'
  BY <1>2, <1>4, <1>6, <1>8, <1>10, <1>11, <1>12, <1>13, CoreKept
<1>15. QED
  BY <1>4, <1>14


\* From here on the worker it migrated from is none of its business.
LEMMA ClearMigratingCore ==
  ASSUME Core, ~fault, NEW g \in Group, ClearMigrating(g)
  PROVE  Core' /\ ~fault'
<1>1. worker[g] = "switched" /\ worker[g] \in Active
  BY DEF ClearMigrating, Active
<1>2. PICK z \in Session :
        /\ z = current[g] /\ Suspended(z) /\ ssm[z].client = "ssm"
        /\ \A h \in Group \ {g} : \A w \in Active : ~At(z, h, w)
  BY <1>1, ActivePhase
<1>3. ssm[z] \in Machine /\ ssm[z].group \in Group
  BY <1>2 DEF Core, TypeOK, Machine
<1>4. /\ ssm' = [ssm EXCEPT ![z].migrating = FALSE]
      /\ worker' = [worker EXCEPT ![g] = "deciding"] /\ current' = current
      /\ UNCHANGED <<queueVars, bulk, turn, ongoing, running, pending, yields, fault>>
  BY <1>2 DEF ClearMigrating
<1>5. /\ ssm' \in [Session -> Machine]
      /\ ssm'[z] = [ssm[z] EXCEPT !.migrating = FALSE]
      /\ \A s \in Session : s # z => ssm'[s] = ssm[s]
  BY <1>2, <1>3, <1>4 DEF Core, TypeOK, Machine
<1>6. /\ ssm'[z].state = ssm[z].state /\ ssm'[z].status = ssm[z].status
      /\ ssm'[z].group = ssm[z].group /\ ssm'[z].resumeTo = ssm[z].resumeTo
      /\ ssm'[z].longTo = ssm[z].longTo /\ ssm'[z].migrating = FALSE
      /\ ssm'[z].client = "ssm" /\ ssm'[z].stack = ssm[z].stack
  BY <1>2, <1>3, <1>5 DEF Machine
<1>7. /\ QueuesOK' /\ \A s : SameQueued(s)
      /\ \A t : Held(t)' => Held(t)
      /\ notifying' = notifying
  BY <1>4, TypedQueues, QueuesUnchanged DEF queueVars, Core
<1>8. TypeOK'
  <2>1. worker' \in [Group -> {"poll", "coro", "leaving", "switched", "deciding",
                               "returned", "ending", "parked", "quit"}]
    BY <1>4 DEF Core, TypeOK
  <2>2. QED
    BY <1>4, <1>5, <1>7, <2>1 DEF Core, TypeOK, QueuesOK
<1>9. StacksOK'
  <2>1. /\ StacksOK /\ z \in Session /\ ssm'[z].stack = ssm[z].stack
        /\ ssm'[z].state = ssm[z].state
        /\ \A s \in Session : s # z => ssm'[s] = ssm[s]
    BY <1>2, <1>5, <1>6 DEF Core
  <2>2. \A s \in Session : Held(MunmapTask(s))' => Held(MunmapTask(s))
    BY <1>7
  <2>3. QED
    BY <2>1, <2>2, StacksKept
<1>10. WorkersOK' /\ NoWorker(z)' /\ \A s \in Session : s # z => SameWorkers(s)
  <2>1. TypeOK /\ WorkersOK
    BY DEF Core
  <2>2. current' = [current EXCEPT ![g] = z]
    BY <1>2, <1>4, <2>1 DEF TypeOK
  <2>3. QED
    BY <1>2, <1>4, <2>1, <2>2, WorkerMoved
<1>11. PhaseOK(z)'
  <2>1. /\ QueuedOnce(z, ssm[z].group, ResumeTask(z)) => QueuedOnce(z, ssm[z].group, ResumeTask(z))'
        /\ Unqueued(z) => Unqueued(z)'
    BY <1>4, <1>6 DEF QueuedOnce, Unqueued, NoneAt, queueVars
  <2>2. Suspended(z)'
    BY <1>2, <1>4, <1>6, <1>10, <2>1 DEF Suspended, Entered
  <2>3. QED
    BY <2>2 DEF PhaseOK
<1>12. Core'
  BY <1>2, <1>4, <1>5, <1>7, <1>8, <1>9, <1>10, <1>11, CoreKept
<1>13. QED
  BY <1>4, <1>12

\* The decision may be taken on a connection that is another worker's by now: the
\* invariant of a running process holds of it all the same.
LEMMA KeepSessionCore ==
  ASSUME Core, NEW g \in Group, KeepSession(g)
  PROVE  Core'
<1>1. PICK z \in Session : z = current[g]
  BY DEF KeepSession, Core, TypeOK, WorkersOK
<1>2. /\ BackToQueue(g) /\ worker[g] = "deciding" /\ fault' \in BOOLEAN
      /\ UNCHANGED <<queueVars, bulk, turn, ongoing, running, ssm, pending, yields>>
  BY DEF KeepSession
<1>3. /\ QueuesOK' /\ \A s : SameQueued(s)
      /\ \A t : Held(t)' => Held(t)
      /\ notifying' = notifying
  BY <1>2, TypedQueues, QueuesUnchanged DEF queueVars, Core
<1>4. TypeOK'
  <2>1. /\ worker' \in [Group -> {"poll", "coro", "leaving", "switched", "deciding",
                                  "returned", "ending", "parked", "quit"}]
        /\ current' \in [Group -> Session \cup {NoSession}]
    BY <1>2 DEF BackToQueue, Core, TypeOK
  <2>2. QED
    BY <1>2, <1>3, <2>1 DEF Core, TypeOK, QueuesOK
<1>5. StacksOK'
  BY <1>1, <1>2, <1>3, StacksKept DEF Core
<1>6. WorkersOK' /\ \A s \in Session : SameWorkers(s)
  <2>1. TypeOK /\ WorkersOK
    BY DEF Core
  <2>2. WorkersOK' /\ \A s \in Session : s # z => SameWorkers(s)
    BY <1>1, <1>2, <2>1, WorkerFreed
  <2>3. SameWorkers(z)
    <3>1. /\ current'[g] = NoSession /\ worker[g] = "deciding"
          /\ \A h \in Group \ {g} : current'[h] = current[h] /\ worker'[h] = worker[h]
      BY <1>2, <2>1 DEF BackToQueue, TypeOK
    <3>2. z # NoSession /\ "deciding" \notin Active
      BY SessionAssumption DEF Active
    <3>3. QED
      BY <3>1, <3>2 DEF SameWorkers, At
  <2>4. QED
    BY <2>2, <2>3
<1>7. PhaseOK(z)'
  <2>1. ssm[z].group \in Group /\ PhaseOK(z)
    BY DEF Core, TypeOK, Machine
  <2>2. QED
    BY <1>2, <1>3, <1>6, <2>1, PhaseKept
<1>8. QED
  BY <1>2, <1>3, <1>4, <1>5, <1>6, <1>7, CoreKept

-----------------------------------------------------------------------------
(***************************************************************************)
(* The coroutine.                                                          *)
(***************************************************************************)

\* _ongoingCoroutineCnt stays within its width.
LEMMA CountType ==
  ASSUME ongoing \in [Group -> 0 .. CountMod - 1], NEW g \in Group, NEW d \in {-1, 1}
  PROVE  CountUpdate(g, d) \in [Group -> 0 .. CountMod - 1]
<1>1. \A x \in 0 .. CountMod - 1 : (x + d) % CountMod \in 0 .. CountMod - 1
  <2>1. CountMod \in Nat \ {0, 1}
    BY ExecutorAssumption
  <2>2. QED
    BY <2>1
<1>2. QED
  BY <1>1 DEF CountUpdate

\* The coroutine ends on its group, with nothing queued and nothing pending.
LEMMA ReturnCore ==
  ASSUME Core, ~fault, NEW g \in Group, NEW reply \in {"none", "one", "exhaust", "throw"},
         ReturnFromCoroutine(g, reply)
  PROVE  Core' /\ ~fault'
<1>1. worker[g] = "coro" /\ worker[g] \in Active
  BY DEF ReturnFromCoroutine, Active
<1>2. PICK z \in Session :
        /\ z = current[g] /\ Executing(z) /\ ssm[z].group = g
        /\ \A h \in Group \ {g} : \A w \in Active : ~At(z, h, w)
  BY <1>1, ActivePhase
<1>3. ssm[z] \in Machine
  BY <1>2 DEF Core, TypeOK
<1>4. /\ ssm' = [ssm EXCEPT ![z] = [@ EXCEPT !.status = "Empty", !.client = "ssm",
                                             !.reply = reply]]
      /\ ongoing' = CountUpdate(g, -1)
      /\ worker' = [worker EXCEPT ![g] = "returned"] /\ current' = current
      /\ UNCHANGED <<queueVars, bulk, turn, running, pending, yields, fault>>
  BY <1>2 DEF ReturnFromCoroutine
<1>5. /\ ssm' \in [Session -> Machine]
      /\ ssm'[z] = [ssm[z] EXCEPT !.status = "Empty", !.client = "ssm", !.reply = reply]
      /\ \A s \in Session : s # z => ssm'[s] = ssm[s]
  <2>1. [ssm[z] EXCEPT !.status = "Empty", !.client = "ssm", !.reply = reply] \in Machine
    BY <1>3 DEF Machine
  <2>2. QED
    BY <1>2, <1>4, <2>1 DEF Core, TypeOK
<1>6. /\ ssm'[z].state = ssm[z].state /\ ssm'[z].status = "Empty"
      /\ ssm'[z].group = g /\ ssm'[z].migrating = ssm[z].migrating
      /\ ssm'[z].stack = ssm[z].stack
  BY <1>2, <1>3, <1>5 DEF Machine
<1>7. /\ QueuesOK' /\ \A s : SameQueued(s)
      /\ \A t : Held(t)' => Held(t)
      /\ notifying' = notifying
  BY <1>4, TypedQueues, QueuesUnchanged DEF queueVars, Core
<1>8. TypeOK'
  <2>1. worker' \in [Group -> {"poll", "coro", "leaving", "switched", "deciding",
                               "returned", "ending", "parked", "quit"}]
    BY <1>4 DEF Core, TypeOK
  <2>2. ongoing' \in [Group -> 0 .. CountMod - 1]
    BY <1>4, CountType DEF Core, TypeOK
  <2>3. QED
    BY <1>4, <1>5, <1>7, <2>1, <2>2 DEF Core, TypeOK, QueuesOK
<1>9. StacksOK'
  <2>1. /\ StacksOK /\ z \in Session /\ ssm'[z].stack = ssm[z].stack
        /\ ssm'[z].state = ssm[z].state
        /\ \A s \in Session : s # z => ssm'[s] = ssm[s]
    BY <1>2, <1>5, <1>6 DEF Core
  <2>2. \A s \in Session : Held(MunmapTask(s))' => Held(MunmapTask(s))
    BY <1>7
  <2>3. QED
    BY <2>1, <2>2, StacksKept
<1>10. WorkersOK' /\ OnlyWorker(z, g, "returned")' /\ \A s \in Session : s # z => SameWorkers(s)
  <2>1. TypeOK /\ WorkersOK /\ "returned" \in Active
    BY DEF Core, Active
  <2>2. current' = [current EXCEPT ![g] = z]
    BY <1>2, <1>4, <2>1 DEF TypeOK
  <2>3. QED
    BY <1>2, <1>4, <2>1, <2>2, WorkerMoved
<1>11. PhaseOK(z)'
  <2>1. Unqueued(z)'
    BY <1>2, <1>7 DEF Executing, SameQueued
  <2>2. OnlyWorker(z, ssm[z].group, "returned")'
    BY <1>6, <1>10 DEF OnlyWorker
  <2>3. Answered(z)'
    BY <1>2, <1>4, <1>6, <2>1, <2>2 DEF Executing, Entered, Answered
  <2>4. QED
    BY <2>3 DEF PhaseOK
<1>12. Core'
  BY <1>2, <1>4, <1>5, <1>7, <1>8, <1>9, <1>10, <1>11, CoreKept
<1>13. QED
  BY <1>4, <1>12


\* The coroutine has arranged to be resumed and is about to yield.
LEMMA LeaveCore ==
  ASSUME Core, ~fault, NEW g \in Group, NEW z \in Session, z = current[g],
         InCoroutine(g), NEW m \in Machine, Leave(g, m),
         m.state = ssm[z].state, m.status = ssm[z].status, m.client = ssm[z].client,
         m.resumeTo = m.group, m.longTo = m.group, m.stack = ssm[z].stack,
         UNCHANGED <<bulk, turn, ongoing, running, current, fault>>,
         QueuesOK', notifying' \subseteq Group \X Session,
         \A s \in Session : s # z => SameQueued(s),
         \A s \in Session : Held(MunmapTask(s))' => Held(MunmapTask(s)),
         \/ QueuedOnce(z, m.group, ResumeTask(z))' /\ pending' = pending
         \/ Unqueued(z)' /\ pending' = pending \cup {z}
  PROVE  Core' /\ ~fault'
<1>1. worker[g] = "coro" /\ worker[g] \in Active
  BY DEF InCoroutine, Active
<1>2. /\ Executing(z)
      /\ \A h \in Group \ {g} : \A w \in Active : ~At(z, h, w)
  BY <1>1, ActivePhase
<1>3. /\ ssm' = [ssm EXCEPT ![z] = m]
      /\ yields' = [yields EXCEPT ![z] = yields[z] + 1] /\ yields[z] < MaxYields[z]
      /\ worker' = [worker EXCEPT ![g] = "leaving"]
  BY DEF Leave, InCoroutine
<1>4. /\ ssm' \in [Session -> Machine] /\ ssm'[z] = m
      /\ \A s \in Session : s # z => ssm'[s] = ssm[s]
  BY <1>3 DEF Core, TypeOK
<1>5. /\ yields' \in [Session -> Nat] /\ \A s \in Session : yields'[s] <= MaxYields[s]
  <2>1. /\ yields \in [Session -> Nat] /\ \A s \in Session : yields[s] <= MaxYields[s]
        /\ MaxYields \in [Session -> Nat]
    BY SessionAssumption DEF Core, TypeOK
  <2>2. yields' \in [Session -> Nat]
    BY <1>3, <2>1
  <2>3. \A s \in Session : yields'[s] <= MaxYields[s]
    BY <1>3, <2>1
  <2>4. QED
    BY <2>2, <2>3
<1>6. TypeOK'
  <2>1. worker' \in [Group -> {"poll", "coro", "leaving", "switched", "deciding",
                               "returned", "ending", "parked", "quit"}]
    BY <1>3 DEF Core, TypeOK
  <2>2. pending' \subseteq Session /\ {running', fault'} \subseteq BOOLEAN
    BY DEF Core, TypeOK
  <2>3. QED
    BY <1>4, <1>5, <2>1, <2>2 DEF Core, TypeOK, QueuesOK
<1>7. StacksOK'
  BY <1>4, StacksKept DEF Core
<1>8. WorkersOK' /\ OnlyWorker(z, g, "leaving")' /\ \A s \in Session : s # z => SameWorkers(s)
  <2>1. TypeOK /\ WorkersOK /\ "leaving" \in Active
    BY DEF Core, Active
  <2>2. current' = [current EXCEPT ![g] = z]
    BY <2>1 DEF TypeOK
  <2>3. QED
    BY <1>2, <1>3, <2>1, <2>2, WorkerMoved
<1>9. PhaseOK(z)'
  <2>1. \/ QueuedOnce(z, ssm[z].group, ResumeTask(z))' /\ z \notin pending'
        \/ Unqueued(z)' /\ z \in pending'
    <3>1. z \notin pending /\ ssm'[z].group = m.group
      BY <1>2, <1>4 DEF Executing
    <3>2. CASE QueuedOnce(z, m.group, ResumeTask(z))' /\ pending' = pending
      <4>1. QueuedOnce(z, ssm[z].group, ResumeTask(z))'
        BY <3>1, <3>2 DEF QueuedOnce
      <4>2. QED
        BY <3>1, <3>2, <4>1
    <3>3. CASE Unqueued(z)' /\ pending' = pending \cup {z}
      BY <3>3
    <3>4. QED
      BY <3>2, <3>3
  <2>2. Suspended(z)'
    BY <1>2, <1>4, <1>8, <2>1 DEF Executing, Suspended, Entered
  <2>3. QED
    BY <2>2 DEF PhaseOK
<1>10. \A s \in Session : s # z => (s \in pending' <=> s \in pending)
  OBVIOUS
<1>11. Core'
  BY <1>4, <1>6, <1>7, <1>8, <1>9, <1>10, CoreKept
<1>12. QED
  BY <1>11

\* One more resumption of z, which has no task queued.
LEMMA ResumptionFacts ==
  ASSUME TypeOK, NEW z \in Session, Unqueued(z), NEW h \in Group, NEW by, UNCHANGED bulk,
         resumeTask(h, ResumeTask(z), by) \/ enqueueTask(h, ResumeTask(z), by)
  PROVE  /\ QueuesOK' /\ notifying' \subseteq Group \X Session
         /\ \A s \in Session : s # z => SameQueued(s)
         /\ QueuedOnce(z, h, ResumeTask(z))'
         /\ \A s \in Session : Held(MunmapTask(s))' => Held(MunmapTask(s))
<1>1. /\ QueuesOK /\ ResumeTask(z) \in Task /\ Drives(ResumeTask(z), z)
      /\ \A s \in Session : s # z => ~Drives(ResumeTask(z), s)
  BY DrivesFacts, TypedQueues
<1>2. \/ /\ taskQueue' = [taskQueue EXCEPT ![h] = Append(@, ResumeTask(z))]
         /\ UNCHANGED resumeQueue
      \/ /\ resumeQueue' = [resumeQueue EXCEPT ![h] = Append(@, ResumeTask(z))]
         /\ UNCHANGED taskQueue
  BY DEF resumeTask, enqueueTask
<1>3. /\ QueuesOK'
      /\ \A s : ~Drives(ResumeTask(z), s) => SameQueued(s)
      /\ QueuedOnce(z, h, ResumeTask(z))'
      /\ \A u : Held(u)' => Held(u) \/ u = ResumeTask(z)
  <2> DEFINE t == ResumeTask(z)
  <2>1. t \in Task /\ Drives(t, z)
    BY <1>1
  <2>2. \/ /\ taskQueue' = [taskQueue EXCEPT ![h] = Append(@, t)]
           /\ UNCHANGED resumeQueue
        \/ /\ resumeQueue' = [resumeQueue EXCEPT ![h] = Append(@, t)]
           /\ UNCHANGED taskQueue
    BY <1>2
  <2> HIDE DEF t
  <2>3. /\ QueuesOK'
        /\ \A s : ~Drives(t, s) => SameQueued(s)
        /\ QueuedOnce(z, h, t)'
        /\ \A u : Held(u)' => Held(u) \/ u = t
    BY <1>1, <2>1, <2>2, EnqueueFacts
  <2>4. QED
    BY <2>3 DEF t
<1>4. notifying' \subseteq Group \X Session
  <2>1. /\ ResumeTask(z).session = z /\ ToNotify(h, ResumeTask(z), by)
        /\ notifying \subseteq Group \X Session
    BY DEF resumeTask, enqueueTask, ResumeTask, TypeOK
  <2>2. QED
    BY <2>1, NotifyFacts
<1>5. \A s \in Session : MunmapTask(s) # ResumeTask(z)
  BY DEF MunmapTask, ResumeTask
<1>6. QED
  BY <1>1, <1>3, <1>4, <1>5

\* The three ways to arrange a resumption, each on the group the functors are
\* bound to.
LEMMA CoroutineCore ==
  ASSUME Core, ~fault, NEW g \in Group,
         AwaitTx(g) \/ LongResume(g) \/ \E h \in Group : MigrateThreadGroup(g, h)
  PROVE  Core' /\ ~fault'
<1>1. worker[g] = "coro" /\ worker[g] \in Active /\ InCoroutine(g)
  BY DEF AwaitTx, LongResume, MigrateThreadGroup, InCoroutine, Active
<1>2. PICK z \in Session : z = current[g] /\ Executing(z)
  BY <1>1, ActivePhase
<1>3. /\ ssm[z] \in Machine /\ ssm[z].group \in Group
      /\ ssm[z].resumeTo = ssm[z].group /\ ssm[z].longTo = ssm[z].group
      /\ Unqueued(z) /\ z \notin pending /\ TypeOK
  BY <1>2 DEF Core, TypeOK, Machine, Executing, Entered
<1>4. UNCHANGED <<bulk, turn, ongoing, running, current, fault>>
  BY DEF AwaitTx, LongResume, MigrateThreadGroup
<1>5. CASE AwaitTx(g)
  <2>1. Leave(g, ssm[z]) /\ pending' = pending \cup {z} /\ UNCHANGED queueVars
    BY <1>2, <1>5 DEF AwaitTx
  <2>2. /\ QueuesOK' /\ \A s : SameQueued(s)
        /\ \A t : Held(t)' => Held(t)
        /\ notifying' \subseteq Group \X Session
    BY <1>4, <2>1, TypedQueues, QueuesUnchanged DEF queueVars, Core, TypeOK
  <2>3. Unqueued(z)'
    BY <1>3, <2>2 DEF SameQueued
  <2>4. QED
    BY <1>1, <1>2, <1>3, <1>4, <2>1, <2>2, <2>3, LeaveCore
<1>6. CASE LongResume(g)
  <2>1. /\ Leave(g, ssm[z]) /\ enqueueTask(ssm[z].group, ResumeTask(z), g)
        /\ pending' = pending
    BY <1>2, <1>3, <1>6 DEF LongResume
  <2>2. /\ QueuesOK' /\ notifying' \subseteq Group \X Session
        /\ \A s \in Session : s # z => SameQueued(s)
        /\ \A s \in Session : Held(MunmapTask(s))' => Held(MunmapTask(s))
        /\ \E k \in Group : k = ssm[z].group /\ QueuedOnce(z, k, ResumeTask(z))'
    <3>1. PICK k \in Group : k = ssm[z].group
      BY <1>3
    <3>2. enqueueTask(k, ResumeTask(z), g)
      BY <2>1, <3>1
    <3>3. /\ QueuesOK' /\ notifying' \subseteq Group \X Session
          /\ \A s \in Session : s # z => SameQueued(s)
          /\ \A s \in Session : Held(MunmapTask(s))' => Held(MunmapTask(s))
          /\ QueuedOnce(z, k, ResumeTask(z))'
      BY <1>3, <1>4, <3>2, ResumptionFacts
    <3>4. QED
      BY <3>1, <3>3
  <2>3. PICK m \in Machine : m = ssm[z]
    BY <1>3
  <2>4. QueuedOnce(z, m.group, ResumeTask(z))'
    BY <2>2, <2>3
  <2>5. QED
    BY <1>1, <1>2, <1>3, <1>4, <2>1, <2>2, <2>3, <2>4, LeaveCore
<1>7. ASSUME NEW h \in Group, MigrateThreadGroup(g, h) PROVE Core' /\ ~fault'
  <2>1. PICK m \in Machine :
          /\ m = [ssm[z] EXCEPT !.group = h, !.resumeTo = h, !.longTo = h, !.migrating = TRUE]
          /\ Leave(g, m) /\ resumeTask(h, ResumeTask(z), g) /\ pending' = pending
    <3>1. [ssm[z] EXCEPT !.group = h, !.resumeTo = h, !.longTo = h, !.migrating = TRUE]
            \in Machine
      BY <1>3 DEF Machine
    <3>2. QED
      BY <1>2, <1>7, <3>1 DEF MigrateThreadGroup
  <2>2. /\ m.state = ssm[z].state /\ m.status = ssm[z].status /\ m.client = ssm[z].client
        /\ m.group = h /\ m.resumeTo = h /\ m.longTo = h /\ m.stack = ssm[z].stack
    BY <1>3, <2>1 DEF Machine
  <2>3. /\ QueuesOK' /\ notifying' \subseteq Group \X Session
        /\ \A s \in Session : s # z => SameQueued(s)
        /\ \A s \in Session : Held(MunmapTask(s))' => Held(MunmapTask(s))
        /\ QueuedOnce(z, h, ResumeTask(z))'
    BY <1>3, <1>4, <2>1, ResumptionFacts
  <2>4. QueuedOnce(z, m.group, ResumeTask(z))'
    BY <2>2, <2>3
  <2>5. QED
    BY <1>1, <1>2, <1>4, <2>1, <2>2, <2>3, <2>4, LeaveCore
<1>8. QED
  BY <1>5, <1>6, <1>7


-----------------------------------------------------------------------------
(***************************************************************************)
(* The transaction service, the end of a state machine, and the executor.  *)
(***************************************************************************)

\* The answer of the transaction service becomes the resumption.
LEMMA TxDoneCore ==
  ASSUME Core, ~fault, NEW z \in Session, TxDone(z)
  PROVE  Core' /\ ~fault'
<1>1. /\ z \in pending /\ pending' = pending \ {z}
      /\ resumeTask(ssm[z].resumeTo, ResumeTask(z), TxService)
      /\ UNCHANGED <<bulk, turn, ongoing, worker, running, ssm, current, yields, fault>>
  BY DEF TxDone
<1>2. PhaseOK(z) /\ TypeOK /\ ssm[z].group \in Group
  BY DEF Core, TypeOK, Machine
<1>3. Suspended(z) /\ Unqueued(z) /\ ssm[z].resumeTo = ssm[z].group
  BY <1>1, <1>2 DEF PhaseOK, Idle, Scheduled, Executing, Answered, Suspended, Entered
<1>4. PICK k \in Group : k = ssm[z].group
  BY <1>2
<1>5. resumeTask(k, ResumeTask(z), TxService)
  BY <1>1, <1>3, <1>4
<1>6. /\ QueuesOK' /\ notifying' \subseteq Group \X Session
      /\ \A s \in Session : s # z => SameQueued(s)
      /\ \A s \in Session : Held(MunmapTask(s))' => Held(MunmapTask(s))
      /\ QueuedOnce(z, k, ResumeTask(z))'
  BY <1>1, <1>2, <1>3, <1>5, ResumptionFacts
<1>7. TypeOK'
  BY <1>1, <1>2, <1>6 DEF TypeOK, QueuesOK
<1>8. StacksOK'
  BY <1>1, <1>6, StacksKept DEF Core
<1>9. /\ \A s : SameWorkers(s)
      /\ NoWorker(z) => NoWorker(z)'
      /\ \A g \in Group : \A w : OnlyWorker(z, g, w) => OnlyWorker(z, g, w)'
      /\ WorkersOK'
  BY <1>1, WorkersUnchanged DEF Core
<1>10. PhaseOK(z)'
  <2>1. QueuedOnce(z, ssm[z].group, ResumeTask(z))'
    BY <1>1, <1>4, <1>6 DEF QueuedOnce
  <2>2. ssm' = ssm /\ z \notin pending'
    BY <1>1
  <2>3. Suspended(z)'
    BY <1>3, <1>9, <2>1, <2>2 DEF Suspended, Entered
  <2>4. QED
    BY <2>3 DEF PhaseOK
<1>11. Core'
  BY <1>1, <1>6, <1>7, <1>8, <1>9, <1>10, CoreKept
<1>12. QED
  BY <1>1, <1>11

\* A step that touches no connection.
LEMMA CoreUntouched ==
  ASSUME Core, TypeOK', WorkersOK', UNCHANGED <<ssm, pending>>,
         \A s \in Session : SameQueued(s) /\ SameWorkers(s),
         \A s \in Session : Held(MunmapTask(s))' => Held(MunmapTask(s))
  PROVE  Core'
<1>1. ASSUME NEW s \in Session PROVE PhaseOK(s)'
  <2>1. ssm[s].group \in Group /\ PhaseOK(s)
    BY DEF Core, TypeOK, Machine
  <2>2. QED
    BY <2>1, PhaseKept
<1>2. StacksOK'
  BY DEF Core, StacksOK
<1>3. QED
  BY <1>1, <1>2 DEF Core

\* The stack is given up, at once or by a task, when the session has ended.
LEMMA DestroyCore ==
  ASSUME Core, ~fault, NEW z \in Session, Destroy(z)
  PROVE  Core' /\ ~fault'
<1>1. /\ ssm[z].state = "Ended" /\ ssm[z].stack = "mapped"
      /\ UNCHANGED <<bulk, turn, ongoing, worker, running, current, pending, yields, fault>>
  BY DEF Destroy
<1>2. PhaseOK(z) /\ TypeOK /\ ssm[z] \in Machine /\ ssm[z].group \in Group
  BY DEF Core, TypeOK, Machine
<1>3. Idle(z)
  BY <1>1, <1>2 DEF PhaseOK, Scheduled, Executing, Answered, Suspended, Entered
<1>4. /\ QueuesOK' /\ notifying' \subseteq Group \X Session
      /\ \A s : SameQueued(s)
      /\ \A s \in Session : s # z => (Held(MunmapTask(s))' => Held(MunmapTask(s)))
  <2>1. CASE UNCHANGED queueVars
    BY <1>1, <1>2, <2>1, TypedQueues, QueuesUnchanged DEF queueVars, TypeOK
  <2>2. ASSUME NEW g \in Group, resumeTask(ssm[z].group, MunmapTask(z), g)
        PROVE  /\ QueuesOK' /\ notifying' \subseteq Group \X Session
               /\ \A s : SameQueued(s)
               /\ \A s \in Session : s # z => (Held(MunmapTask(s))' => Held(MunmapTask(s)))
    <3>1. PICK k \in Group : k = ssm[z].group
      BY <1>2
    <3>2. PICK t \in Task : t = MunmapTask(z) /\ \A s : ~Drives(t, s)
      BY DrivesFacts
    <3>3. resumeTask(k, t, g)
      BY <2>2, <3>1, <3>2
    <3>4. /\ QueuesOK' /\ \A s : ~Drives(t, s) => SameQueued(s)
          /\ \A u : Held(u)' => Held(u) \/ u = t
      BY <1>1, <1>2, <3>3, TypedQueues, EnqueueFacts DEF resumeTask
    <3>5. \A s \in Session : s # z => MunmapTask(s) # t
      BY <3>2 DEF MunmapTask
    <3>6. notifying' \subseteq Group \X Session
      <4>1. /\ t.session = z /\ ToNotify(k, t, g)
            /\ notifying \subseteq Group \X Session
        BY <1>2, <3>2, <3>3 DEF resumeTask, MunmapTask, TypeOK
      <4>2. QED
        BY <4>1, NotifyFacts
    <3>7. QED
      BY <3>2, <3>4, <3>5, <3>6
  <2>3. QED
    BY <2>1, <2>2 DEF Destroy
<1>5. /\ ssm' \in [Session -> Machine]
      /\ \A s \in Session : s # z => ssm'[s] = ssm[s]
      /\ ssm'[z].state = "Ended" /\ ssm'[z].status = ssm[z].status
      /\ ssm'[z].migrating = ssm[z].migrating
  <2>1. PICK v \in {"deferred", "unmapped"} : ssm' = [ssm EXCEPT ![z].stack = v]
    BY DEF Destroy
  <2>2. /\ ssm'[z] = [ssm[z] EXCEPT !.stack = v] /\ ssm' \in [Session -> Machine]
        /\ \A s \in Session : s # z => ssm'[s] = ssm[s]
    BY <1>2, <2>1 DEF TypeOK, Machine
  <2>3. QED
    BY <1>1, <1>2, <2>2 DEF Machine
<1>6. TypeOK'
  BY <1>1, <1>2, <1>4, <1>5 DEF TypeOK, QueuesOK
<1>7. StacksOK'
  <2>1. ASSUME NEW s \in Session, Held(MunmapTask(s))' \/ ssm'[s].stack # "mapped"
        PROVE  ssm'[s].state = "Ended"
    <3>1. CASE s = z
      BY <1>5, <3>1
    <3>2. CASE s # z
      BY <1>4, <1>5, <2>1, <3>2 DEF Core, StacksOK
    <3>3. QED
      BY <3>1, <3>2
  <2>2. QED
    BY <2>1 DEF StacksOK
<1>8. (\A s : SameWorkers(s)) /\ (NoWorker(z) => NoWorker(z)') /\ WorkersOK'
  BY <1>1, WorkersUnchanged DEF Core
<1>9. PhaseOK(z)'
  <2>1. Unqueued(z)'
    BY <1>3, <1>4 DEF Idle, SameQueued
  <2>2. Idle(z)'
    BY <1>1, <1>3, <1>5, <1>8, <2>1 DEF Idle
  <2>3. QED
    BY <2>2 DEF PhaseOK
<1>10. Core'
  BY <1>1, <1>4, <1>5, <1>6, <1>7, <1>8, <1>9, CoreKept
<1>11. QED
  BY <1>1, <1>10

\* Moving tasks to a batch, parking, waking and the shutdown drive no connection.
LEMMA ExecutorCore ==
  ASSUME Core, ~fault, UNCHANGED ssmVars,
         \/ Shutdown
         \/ \E g \in Group : \/ DequeueResumptions(g) \/ DequeueTasks(g)
                             \/ ExtThdEnd(g) \/ Park(g) \/ Quit(g)
                             \/ \E s \in Session : notifyIfAsleep(g, s)
  PROVE  Core' /\ ~fault'
<1>1. /\ UNCHANGED <<ssm, current, pending, yields, fault>>
      /\ TypeOK /\ WorkersOK /\ QueuesOK
  BY TypedQueues DEF ssmVars, Core
<1>2. CASE Shutdown
  <2>1. /\ UNCHANGED <<taskQueue, resumeQueue, bulk, turn, ongoing, worker, notifying>>
        /\ running' = FALSE
    BY <1>2 DEF Shutdown
  <2>2. QueuesOK' /\ (\A s : SameQueued(s)) /\ \A t : Held(t)' => Held(t)
    BY <1>1, <2>1, QueuesUnchanged
  <2>3. (\A s : SameWorkers(s)) /\ WorkersOK'
    BY <1>1, <2>1, WorkersUnchanged
  <2>4. TypeOK'
    BY <1>1, <2>1 DEF TypeOK
  <2>5. QED
    BY <1>1, <2>2, <2>3, <2>4, CoreUntouched
<1>3. ASSUME NEW g \in Group, DequeueResumptions(g) \/ DequeueTasks(g)
      PROVE  Core' /\ ~fault'
  <2>1. /\ UNCHANGED <<ongoing, worker, notifying, running>>
        /\ \E v \in {"resumptions", "tasks"} : turn' = [turn EXCEPT ![g] = v]
    BY <1>3 DEF DequeueResumptions, DequeueTasks
  <2>2. QueuesOK' /\ (\A s : SameQueued(s)) /\ \A t : Held(t)' => Held(t)
    BY <1>1, <1>3, DequeueFacts
  <2>3. (\A s : SameWorkers(s)) /\ WorkersOK'
    BY <1>1, <2>1, WorkersUnchanged
  <2>4. TypeOK'
    <3>1. turn' \in [Group -> {"resumptions", "tasks"}]
      BY <1>1, <2>1 DEF TypeOK
    <3>2. QED
      BY <1>1, <2>1, <2>2, <3>1 DEF TypeOK, QueuesOK
  <2>5. QED
    BY <1>1, <2>2, <2>3, <2>4, CoreUntouched
<1>4. ASSUME NEW g \in Group,
             ExtThdEnd(g) \/ Park(g) \/ Quit(g) \/ \E s \in Session : notifyIfAsleep(g, s)
      PROVE  Core' /\ ~fault'
  <2>1. /\ UNCHANGED <<taskQueue, resumeQueue, bulk, turn, ongoing, running>>
        /\ notifying' \subseteq notifying
        /\ \/ worker' = worker
           \/ /\ worker[g] \in {"poll", "ending", "parked", "quit"}
              /\ \E v \in {"poll", "ending", "parked", "quit"} : worker' = [worker EXCEPT ![g] = v]
    BY <1>4 DEF ExtThdEnd, Park, Quit, notifyIfAsleep, BetweenTasks
  <2>2. QueuesOK' /\ (\A s : SameQueued(s)) /\ \A t : Held(t)' => Held(t)
    BY <1>1, <2>1, QueuesUnchanged
  <2>3. (\A s \in Session : SameWorkers(s)) /\ WorkersOK'
    <3>1. CASE worker' = worker
      BY <1>1, <3>1, WorkersUnchanged
    <3>2. ASSUME worker[g] \in {"poll", "ending", "parked", "quit"},
                 NEW v \in {"poll", "ending", "parked", "quit"}, worker' = [worker EXCEPT ![g] = v]
          PROVE  (\A s \in Session : SameWorkers(s)) /\ WorkersOK'
      <4>1. {worker[g], v} \cap (Active \cup {"deciding"}) = {}
        BY <3>2 DEF Active
      <4>2. QED
        BY <1>1, <3>2, <4>1, WorkerUnused
    <3>3. QED
      BY <2>1, <3>1, <3>2
  <2>4. TypeOK'
    <3>1. worker' \in [Group -> {"poll", "coro", "leaving", "switched", "deciding",
                                 "returned", "ending", "parked", "quit"}]
      BY <1>1, <2>1 DEF TypeOK
    <3>2. QED
      BY <1>1, <2>1, <2>2, <3>1 DEF TypeOK, QueuesOK
  <2>5. QED
    BY <1>1, <2>2, <2>3, <2>4, CoreUntouched
<1>5. QED
  BY <1>2, <1>3, <1>4


-----------------------------------------------------------------------------
(***************************************************************************)
(* The tasks of a worker.                                                  *)
(***************************************************************************)

\* The task a worker takes was the driver of its connection.
LEMMA TaskPhase ==
  ASSUME Core, NEW g \in Group, NEW op, NEW z, NextTask(g, op, z),
         UNCHANGED <<taskQueue, resumeQueue>>
  PROVE  /\ QueuesOK' /\ z \in Session /\ worker[g] = "poll" /\ current[g] = NoSession
         /\ \A s \in Session : s # z => SameQueued(s)
         /\ \A u : Held(u)' => Held(u)
         /\ op = "run" =>
              Scheduled(z) /\ ssm[z].group = g /\ Unqueued(z)'
         /\ op = "resume" =>
              /\ Suspended(z) /\ z \notin pending /\ ssm[z].group = g /\ Unqueued(z)'
         /\ op = "munmap" => Held(MunmapTask(z)) /\ \A s : SameQueued(s)
<1>1. PICK d : d = [op |-> op, session |-> z]
  OBVIOUS
<1>2. /\ QueuesOK' /\ d \in Task /\ Held(d)
      /\ \A s : ~Drives(d, s) => SameQueued(s)
      /\ \A s : Drives(d, s) =>
           /\ ~Unqueued(s)
           /\ \A h \in Group : \A t \in Task :
                Drives(t, s) /\ QueuedOnce(s, h, t) => h = g /\ t = d /\ Unqueued(s)'
      /\ \A u : Held(u)' => Held(u)
  BY <1>1, TypedQueues, NextTaskFacts DEF Core
<1>3. z \in Session /\ \A s \in Session : s # z => ~Drives(d, s)
  BY <1>1, <1>2 DEF Task, Drives
<1>4. worker[g] = "poll" /\ current[g] = NoSession
  BY DEF NextTask, Core, WorkersOK, Active
<1>5. PhaseOK(z) /\ ssm[z].group \in Group
  BY <1>3 DEF Core, TypeOK, Machine
<1>6. /\ RunNext(z) \in Task /\ Drives(RunNext(z), z)
      /\ ResumeTask(z) \in Task /\ Drives(ResumeTask(z), z)
      /\ RunNext(z) # ResumeTask(z) /\ \A s : ~Drives(MunmapTask(z), s)
  BY <1>3, DrivesFacts
<1>7. ASSUME op \in {"run", "resume"}
      PROVE  \/ Scheduled(z) /\ d = RunNext(z) /\ ssm[z].group = g /\ Unqueued(z)'
             \/ /\ Suspended(z) /\ z \notin pending
                /\ d = ResumeTask(z) /\ ssm[z].group = g /\ Unqueued(z)'
  <2>1. Drives(d, z)
    BY <1>1, <1>7 DEF Drives
  <2>2. Scheduled(z) \/ (Suspended(z) /\ ~Unqueued(z))
    BY <1>2, <1>5, <2>1 DEF PhaseOK, Idle, Executing, Answered
  <2>3. CASE Scheduled(z)
    <3>1. QueuedOnce(z, ssm[z].group, RunNext(z))
      BY <2>3 DEF Scheduled
    <3>2. QED
      BY <1>2, <1>5, <1>6, <2>1, <2>3, <3>1
  <2>4. CASE Suspended(z) /\ ~Unqueued(z)
    <3>1. QueuedOnce(z, ssm[z].group, ResumeTask(z)) /\ z \notin pending
      BY <2>4 DEF Suspended
    <3>2. QED
      BY <1>2, <1>5, <1>6, <2>1, <2>4, <3>1
  <2>5. QED
    BY <2>2, <2>3, <2>4
<1>8. /\ op = "run" => d # ResumeTask(z)
      /\ op = "resume" => d # RunNext(z)
      /\ op = "munmap" => d = MunmapTask(z)
  BY <1>1 DEF RunNext, ResumeTask, MunmapTask
<1>9. QED
  BY <1>2, <1>3, <1>4, <1>6, <1>7, <1>8

\* The task hands the connection to the network.
LEMMA SourceMessageCore ==
  ASSUME Core, ~fault, NEW g \in Group, NEW z \in Session, SourceMessage(g, z)
  PROVE  Core' /\ ~fault'
<1>1. /\ NextTask(g, "run", z) /\ ssm' = [ssm EXCEPT ![z].state = "SourceWait"]
      /\ UNCHANGED <<queueVars, turn, ongoing, worker, running, current, pending, yields, fault>>
  BY DEF SourceMessage
<1>2. /\ QueuesOK' /\ Scheduled(z) /\ Unqueued(z)'
      /\ \A s \in Session : s # z => SameQueued(s)
      /\ \A u : Held(u)' => Held(u)
  BY <1>1, TaskPhase DEF queueVars
<1>3. TypeOK /\ ssm[z] \in Machine
  BY DEF Core, TypeOK
<1>4. /\ ssm' \in [Session -> Machine] /\ ssm'[z] = [ssm[z] EXCEPT !.state = "SourceWait"]
      /\ \A s \in Session : s # z => ssm'[s] = ssm[s]
  BY <1>1, <1>3 DEF TypeOK, Machine
<1>5. /\ ssm'[z].state = "SourceWait" /\ ssm'[z].status = ssm[z].status
      /\ ssm'[z].migrating = ssm[z].migrating /\ ssm'[z].stack = ssm[z].stack
  BY <1>3, <1>4 DEF Machine
<1>6. TypeOK'
  BY <1>1, <1>2, <1>3, <1>4 DEF TypeOK, QueuesOK, queueVars
<1>7. StacksOK'
  <2>1. ssm[z].state # "Ended"
    BY <1>2 DEF Scheduled
  <2>2. QED
    BY <1>2, <1>4, <1>5, <2>1, StacksKept DEF Core
<1>8. (\A s : SameWorkers(s)) /\ (NoWorker(z) => NoWorker(z)') /\ WorkersOK'
  BY <1>1, WorkersUnchanged DEF Core
<1>9. PhaseOK(z)'
  BY <1>1, <1>2, <1>5, <1>8 DEF PhaseOK, Scheduled, Idle
<1>10. Core'
  BY <1>1, <1>2, <1>4, <1>6, <1>7, <1>8, <1>9, CoreKept
<1>11. QED
  BY <1>1, <1>10

\* The task becomes the coroutine, on its group.
LEMMA BeginCoroutineCore ==
  ASSUME Core, ~fault, NEW g \in Group, NEW z \in Session, BeginCoroutine(g, z)
  PROVE  Core' /\ ~fault'
<1>1. /\ NextTask(g, "run", z) /\ ssm[z].state = "Process"
      /\ UNCHANGED <<queueVars, turn, running, pending, yields, fault>>
  BY DEF BeginCoroutine
<1>2. /\ QueuesOK' /\ Scheduled(z) /\ Unqueued(z)' /\ ssm[z].group = g
      /\ \A s \in Session : s # z => SameQueued(s)
      /\ \A u : Held(u)' => Held(u)
      /\ current[g] = NoSession
  BY <1>1, TaskPhase DEF queueVars
<1>3. TypeOK /\ ssm[z] \in Machine
  BY DEF Core, TypeOK
<1>4. /\ ssm' = [ssm EXCEPT ![z] = [@ EXCEPT !.status = "OnGoing", !.resumeTo = g,
                                             !.longTo = g, !.client = g]]
      /\ ongoing' = CountUpdate(g, 1)
      /\ worker' = [worker EXCEPT ![g] = "coro"]
      /\ current' = [current EXCEPT ![g] = z]
  BY <1>2 DEF BeginCoroutine
<1>5. /\ ssm' \in [Session -> Machine]
      /\ ssm'[z] = [ssm[z] EXCEPT !.status = "OnGoing", !.resumeTo = g, !.longTo = g,
                                  !.client = g]
      /\ \A s \in Session : s # z => ssm'[s] = ssm[s]
  <2>1. [ssm[z] EXCEPT !.status = "OnGoing", !.resumeTo = g, !.longTo = g, !.client = g]
          \in Machine
    BY <1>3 DEF Machine
  <2>2. QED
    BY <1>3, <1>4, <2>1 DEF TypeOK
<1>6. /\ ssm'[z].state = "Process" /\ ssm'[z].status = "OnGoing" /\ ssm'[z].client = g
      /\ ssm'[z].group = g /\ ssm'[z].resumeTo = g /\ ssm'[z].longTo = g
      /\ ssm'[z].migrating = ssm[z].migrating /\ ssm'[z].stack = ssm[z].stack
  BY <1>1, <1>2, <1>3, <1>5 DEF Machine
<1>7. TypeOK'
  <2>1. worker' \in [Group -> {"poll", "coro", "leaving", "switched", "deciding",
                               "returned", "ending", "parked", "quit"}]
        /\ current' \in [Group -> Session \cup {NoSession}]
    BY <1>3, <1>4 DEF TypeOK
  <2>2. ongoing' \in [Group -> 0 .. CountMod - 1]
    BY <1>3, <1>4, CountType DEF TypeOK
  <2>3. QED
    BY <1>1, <1>2, <1>3, <1>5, <2>1, <2>2 DEF TypeOK, QueuesOK, queueVars
<1>8. StacksOK'
  BY <1>1, <1>2, <1>5, <1>6, StacksKept DEF Core
<1>9. WorkersOK' /\ OnlyWorker(z, g, "coro")' /\ \A s \in Session : s # z => SameWorkers(s)
  <2>1. WorkersOK /\ "coro" \in Active /\ \A h \in Group \ {g} : \A w \in Active : ~At(z, h, w)
    BY <1>2 DEF Core, Active, Scheduled, NoWorker
  <2>2. QED
    BY <1>2, <1>3, <1>4, <2>1, WorkerMoved
<1>10. PhaseOK(z)'
  <2>1. OnlyWorker(z, ssm[z].group, "coro")'
    BY <1>6, <1>9 DEF OnlyWorker
  <2>2. Executing(z)'
    BY <1>1, <1>2, <1>6, <2>1 DEF Executing, Entered, Scheduled
  <2>3. QED
    BY <2>2 DEF PhaseOK
<1>11. Core'
  BY <1>1, <1>2, <1>5, <1>7, <1>8, <1>9, <1>10, CoreKept
<1>12. QED
  BY <1>1, <1>11

\* The task left behind finds the session ended.
LEMMA MunmapCore ==
  ASSUME Core, ~fault, NEW g \in Group, NEW z \in Session, Munmap(g, z)
  PROVE  Core' /\ ~fault'
<1>1. /\ NextTask(g, "munmap", z) /\ ssm' = [ssm EXCEPT ![z].stack = "unmapped"]
      /\ UNCHANGED <<queueVars, turn, ongoing, worker, running, current, pending, yields, fault>>
  BY DEF Munmap
<1>2. /\ QueuesOK' /\ Held(MunmapTask(z)) /\ \A s : SameQueued(s)
      /\ \A u : Held(u)' => Held(u)
  BY <1>1, TaskPhase DEF queueVars
<1>3. TypeOK /\ ssm[z] \in Machine /\ PhaseOK(z) /\ ssm[z].state = "Ended"
  BY <1>2 DEF Core, TypeOK, StacksOK
<1>4. /\ ssm' \in [Session -> Machine] /\ ssm'[z] = [ssm[z] EXCEPT !.stack = "unmapped"]
      /\ \A s \in Session : s # z => ssm'[s] = ssm[s]
  BY <1>1, <1>3 DEF TypeOK, Machine
<1>5. /\ ssm'[z].state = "Ended" /\ ssm'[z].status = ssm[z].status
      /\ ssm'[z].migrating = ssm[z].migrating
  BY <1>3, <1>4 DEF Machine
<1>6. TypeOK'
  BY <1>1, <1>2, <1>3, <1>4 DEF TypeOK, QueuesOK, queueVars
<1>7. StacksOK'
  <2>1. ASSUME NEW s \in Session, Held(MunmapTask(s))' \/ ssm'[s].stack # "mapped"
        PROVE  ssm'[s].state = "Ended"
    <3>1. CASE s = z
      BY <1>5, <3>1
    <3>2. CASE s # z
      BY <1>2, <1>4, <2>1, <3>2 DEF Core, StacksOK
    <3>3. QED
      BY <3>1, <3>2
  <2>2. QED
    BY <2>1 DEF StacksOK
<1>8. (\A s : SameWorkers(s)) /\ (NoWorker(z) => NoWorker(z)') /\ WorkersOK'
  BY <1>1, WorkersUnchanged DEF Core
<1>9. PhaseOK(z)'
  <2>1. Idle(z)
    BY <1>3 DEF PhaseOK, Scheduled, Executing, Answered, Suspended, Entered
  <2>2. Unqueued(z)'
    BY <1>2, <2>1 DEF Idle, SameQueued
  <2>3. Idle(z)'
    BY <1>1, <1>5, <1>8, <2>1, <2>2 DEF Idle
  <2>4. QED
    BY <2>3 DEF PhaseOK
<1>10. Core'
  BY <1>1, <1>2, <1>4, <1>6, <1>7, <1>8, <1>9, CoreKept
<1>11. QED
  BY <1>1, <1>10


\* What holds of a running process holds of it when it dies.
LEMMA CoreIsDied ==
  ASSUME Core PROVE Died
<1>1. ASSUME NEW g \in Group, worker[g] \in {"coro", "returned"}
      PROVE  ssm[current[g]].group = g
  BY <1>1, ActivePhase DEF Active
<1>2. ASSUME NEW s \in Session
      PROVE  /\ \/ Unqueued(s)
                \/ \E t \in {RunNext(s), ResumeTask(s)} : QueuedOnce(s, ssm[s].group, t)
             /\ ssm[s].stack # "mapped" =>
                   ssm[s].state = "Ended" /\ ssm[s].status = "Empty" /\ Unqueued(s)
  <2>1. PhaseOK(s) /\ (ssm[s].stack # "mapped" => ssm[s].state = "Ended")
    BY DEF Core, StacksOK
  <2>2. CASE Idle(s) \/ Executing(s) \/ Answered(s)
    BY <2>1, <2>2 DEF Idle, Executing, Answered, Entered
  <2>3. CASE Scheduled(s) \/ Suspended(s)
    BY <2>1, <2>3 DEF Scheduled, Suspended, Entered
  <2>4. QED
    BY <2>1, <2>2, <2>3 DEF PhaseOK
<1>3. QED
  BY <1>1, <1>2 DEF Died, Core

\* A resumption continues the coroutine, or kills the process: it never enters
\* one that has not left its worker.
LEMMA RunResumeProcessCore ==
  ASSUME Core, ~fault, NEW g \in Group, NEW z \in Session, RunResumeProcess(g, z)
  PROVE  IF fault' THEN Died' ELSE Core'
<1>1. /\ NextTask(g, "resume", z)
      /\ UNCHANGED <<queueVars, turn, ongoing, running, pending, yields>>
  BY DEF RunResumeProcess
<1>2. /\ QueuesOK' /\ Suspended(z) /\ Unqueued(z)' /\ ssm[z].group = g
      /\ \A s \in Session : s # z => SameQueued(s)
      /\ \A u : Held(u)' => Held(u)
      /\ current[g] = NoSession /\ z \notin pending
  BY <1>1, TaskPhase DEF queueVars
<1>3. TypeOK /\ ssm[z] \in Machine
  BY DEF Core, TypeOK
<1>4. CASE ssm[z].client = "ssm" /\ ~ssm[z].migrating /\ ssm[z].status = "OnGoing"
  <2>1. /\ ssm' = [ssm EXCEPT ![z].client = g] /\ fault' = fault
        /\ worker' = [worker EXCEPT ![g] = "coro"]
        /\ current' = [current EXCEPT ![g] = z]
    BY <1>4 DEF RunResumeProcess
  <2>2. NoWorker(z)
    BY <1>2, <1>4, SessionAssumption DEF Suspended
  <2>3. /\ ssm' \in [Session -> Machine] /\ ssm'[z] = [ssm[z] EXCEPT !.client = g]
        /\ \A s \in Session : s # z => ssm'[s] = ssm[s]
    BY <1>3, <2>1 DEF TypeOK, Machine
  <2>4. /\ ssm'[z].state = ssm[z].state /\ ssm'[z].status = ssm[z].status
        /\ ssm'[z].group = g /\ ssm'[z].resumeTo = ssm[z].resumeTo
        /\ ssm'[z].longTo = ssm[z].longTo /\ ssm'[z].migrating = ssm[z].migrating
        /\ ssm'[z].client = g /\ ssm'[z].stack = ssm[z].stack
    BY <1>2, <1>3, <2>3 DEF Machine
  <2>5. TypeOK'
    <3>1. /\ worker' \in [Group -> {"poll", "coro", "leaving", "switched", "deciding",
                                    "returned", "ending", "parked", "quit"}]
          /\ current' \in [Group -> Session \cup {NoSession}]
      BY <1>3, <2>1 DEF TypeOK
    <3>2. QED
      BY <1>1, <1>2, <1>3, <2>1, <2>3, <3>1 DEF TypeOK, QueuesOK, queueVars
  <2>6. StacksOK'
    <3>1. StacksOK /\ (ssm[z].state = "Ended" => ssm'[z].state = "Ended")
      BY <2>4 DEF Core
    <3>2. QED
      BY <1>2, <2>3, <2>4, <3>1, StacksKept
  <2>7. WorkersOK' /\ OnlyWorker(z, g, "coro")' /\ \A s \in Session : s # z => SameWorkers(s)
    <3>1. /\ WorkersOK /\ "coro" \in Active
          /\ \A h \in Group \ {g} : \A w \in Active : ~At(z, h, w)
      BY <2>2 DEF Core, Active, NoWorker
    <3>2. QED
      BY <1>2, <1>3, <2>1, <3>1, WorkerMoved
  <2>8. PhaseOK(z)'
    <3>1. OnlyWorker(z, ssm[z].group, "coro")'
      BY <2>4, <2>7 DEF OnlyWorker
    <3>2. Executing(z)'
      BY <1>1, <1>2, <1>4, <2>4, <3>1 DEF Executing, Entered, Suspended
    <3>3. QED
      BY <3>2 DEF PhaseOK
  <2>9. Core'
    BY <1>1, <1>2, <2>3, <2>5, <2>6, <2>7, <2>8, CoreKept
  <2>10. QED
    BY <2>1, <2>9
<1>5. CASE ~(ssm[z].client = "ssm" /\ ~ssm[z].migrating /\ ssm[z].status = "OnGoing")
  <2>1. fault' = TRUE /\ UNCHANGED <<ssm, worker, current>>
    BY <1>5 DEF RunResumeProcess
  <2>2. Died
    BY CoreIsDied
  <2>3. TypeOK'
    BY <1>1, <1>2, <1>3, <2>1 DEF TypeOK, QueuesOK, queueVars
  <2>4. \A h \in Group : worker'[h] \in {"coro", "returned"} => ssm'[current'[h]].group = h
    BY <2>1, <2>2 DEF Died
  <2>5. ASSUME NEW s \in Session
        PROVE  /\ \/ Unqueued(s)'
                  \/ \E t \in {RunNext(s), ResumeTask(s)} : QueuedOnce(s, ssm[s].group, t)'
               /\ ssm'[s].stack # "mapped" =>
                     ssm'[s].state = "Ended" /\ ssm'[s].status = "Empty" /\ Unqueued(s)'
    <3>1. CASE s = z
      BY <1>2, <2>1, <2>2, <3>1 DEF Died
    <3>2. CASE s # z
      <4>1. SameQueued(s) /\ ssm[s].group \in Group /\ ssm' = ssm
        BY <1>2, <1>3, <2>1, <3>2 DEF TypeOK, Machine
      <4>2. /\ Unqueued(s) \/ \E t \in {RunNext(s), ResumeTask(s)} :
                                  QueuedOnce(s, ssm[s].group, t)
            /\ ssm[s].stack # "mapped" =>
                  ssm[s].state = "Ended" /\ ssm[s].status = "Empty" /\ Unqueued(s)
        BY <2>2 DEF Died
      <4>3. Unqueued(s) => Unqueued(s)'
        BY <4>1 DEF SameQueued
      <4>4. ASSUME NEW t \in {RunNext(s), ResumeTask(s)}, QueuedOnce(s, ssm[s].group, t)
            PROVE  QueuedOnce(s, ssm[s].group, t)'
        <5>1. t \in Task /\ Drives(t, s)
          BY <4>4, DrivesFacts
        <5>2. PICK k \in Group : k = ssm[s].group /\ k = ssm'[s].group
          BY <4>1
        <5>3. QueuedOnce(s, k, t)'
          BY <4>1, <4>4, <5>1, <5>2 DEF SameQueued
        <5>4. QED
          BY <5>2, <5>3 DEF QueuedOnce
      <4>5. QED
        BY <4>1, <4>2, <4>3, <4>4
    <3>3. QED
      BY <3>1, <3>2
  <2>6. Died'
    BY <2>3, <2>4, <2>5 DEF Died
  <2>7. QED
    BY <2>1, <2>6
<1>6. QED
  BY <1>4, <1>5

-----------------------------------------------------------------------------
(***************************************************************************)
(* The inductive invariant is one.                                         *)
(***************************************************************************)

\* At the start every connection is new.
LEMMA InitIndInv ==
  ASSUME Init PROVE IndInv
<1>1. PICK home \in Homes : ssm = [s \in Session |-> NewMachine(home[s])]
  BY DEF Init
<1>2. home \in [Session -> Group]
  BY SessionAssumption
<1>3. \A s \in Session : NewMachine(home[s]) \in Machine
  BY <1>2 DEF NewMachine, Machine
<1>4. /\ ssm \in [Session -> Machine]
      /\ \A s \in Session : /\ ssm[s].state = "New" /\ ssm[s].status = "Empty"
                            /\ ssm[s].migrating = FALSE /\ ssm[s].stack = "mapped"
  <2>1. \A s \in Session : ssm[s] = NewMachine(home[s])
    BY <1>1
  <2>2. ssm \in [Session -> Machine]
    BY <1>1, <1>3
  <2>3. QED
    BY <2>1, <2>2 DEF NewMachine
<1>5. \A s : NoneOf(<<>>, s)
  BY DEF NoneOf
<1>6. \A t : ~In(<<>>, t)
  BY DEF In
<1>7. /\ \A g \in Group : taskQueue[g] = <<>> /\ resumeQueue[g] = <<>> /\ bulk[g] = <<>>
      /\ \A g \in Group : current[g] = NoSession /\ worker[g] = "parked"
      /\ pending = {} /\ fault = FALSE
  BY DEF Init, ExecInit
<1>8. TypeOK
  <2>1. /\ <<>> \in Seq(Task) /\ 0 \in 0 .. CountMod - 1
        /\ \A s \in Session : MaxYields[s] \in Nat
    BY ExecutorAssumption, SessionAssumption
  <2>2. /\ taskQueue \in [Group -> Seq(Task)]
        /\ resumeQueue \in [Group -> Seq(Task)]
        /\ bulk \in [Group -> Seq(Task)]
    BY <2>1 DEF Init, ExecInit
  <2>3. /\ turn \in [Group -> {"resumptions", "tasks"}]
        /\ worker \in [Group -> {"poll", "coro", "leaving", "switched", "deciding",
                                 "returned", "ending", "parked", "quit"}]
        /\ current \in [Group -> Session \cup {NoSession}]
        /\ notifying \subseteq Group \X Session /\ pending \subseteq Session
    BY DEF Init, ExecInit
  <2>4. {running, fault} \subseteq BOOLEAN
    BY DEF Init, ExecInit
  <2>5. ongoing \in [Group -> 0 .. CountMod - 1]
    BY <2>1 DEF Init, ExecInit
  <2>6. yields \in [Session -> Nat] /\ \A s \in Session : yields[s] <= MaxYields[s]
    BY <2>1 DEF Init
  <2>7. QED
    BY <1>4, <2>2, <2>3, <2>4, <2>5, <2>6 DEF TypeOK
<1>9. WorkersOK
  BY <1>7 DEF WorkersOK, Active
<1>10. StacksOK
  BY <1>4, <1>6, <1>7 DEF StacksOK, Held
<1>11. ASSUME NEW s \in Session PROVE PhaseOK(s)
  <2>1. Unqueued(s)
    BY <1>5, <1>7 DEF Unqueued, NoneAt
  <2>2. NoWorker(s)
    BY <1>7, SessionAssumption DEF NoWorker, At
  <2>3. QED
    BY <1>4, <1>7, <2>1, <2>2 DEF PhaseOK, Idle
<1>12. QED
  BY <1>7, <1>8, <1>9, <1>10, <1>11 DEF IndInv, Core

\* A step of a worker.
LEMMA WorkerIndInv ==
  ASSUME IndInv, NEW g \in Group, WorkerStep(g)
  PROVE  IndInv'
<1>1. ~fault /\ Core
  BY DEF WorkerStep, IndInv
<1>2. CASE ExecutorStep(g)
  BY <1>1, <1>2, ExecutorCore DEF ExecutorStep, IndInv
<1>3. ASSUME NEW s \in Session,
             \/ SourceMessage(g, s) \/ BeginCoroutine(g, s)
             \/ RunResumeProcess(g, s) \/ Munmap(g, s)
      PROVE  IndInv'
  BY <1>1, <1>3, SourceMessageCore, BeginCoroutineCore, RunResumeProcessCore, MunmapCore
     DEF IndInv
<1>4. CASE AwaitTx(g) \/ LongResume(g) \/ \E h \in Group : MigrateThreadGroup(g, h)
  BY <1>1, <1>4, CoroutineCore DEF IndInv
<1>5. CASE Yield(g) \/ ClearMigrating(g) \/ ProcessResponse(g)
  BY <1>1, <1>5, YieldCore, ClearMigratingCore, ProcessResponseCore DEF IndInv
<1>6. ASSUME NEW reply \in {"none", "one", "exhaust", "throw"}, ReturnFromCoroutine(g, reply)
      PROVE  IndInv'
  BY <1>1, <1>6, ReturnCore DEF IndInv
<1>7. CASE KeepSession(g)
  BY <1>1, <1>7, KeepSessionCore DEF IndInv
<1>8. QED
  BY <1>2, <1>3, <1>4, <1>5, <1>6, <1>7 DEF WorkerStep

\* One case per kind of step.
LEMMA NextIndInv ==
  ASSUME IndInv, [Next]_vars PROVE IndInv'
<1>1. CASE UNCHANGED vars
  <2>1. /\ UNCHANGED <<taskQueue, resumeQueue, bulk, turn, ongoing, worker, notifying, running>>
        /\ UNCHANGED <<ssm, current, pending, yields, fault>>
    BY <1>1 DEF vars, execVars, ssmVars
  <2>2. TypeOK /\ TypeOK'
    BY <2>1 DEF IndInv, Core, Died, TypeOK
  <2>3. CASE Core
    <3>1. (\A s : SameQueued(s)) /\ \A t : Held(t)' => Held(t)
      BY <2>1, <2>2, TypedQueues, QueuesUnchanged
    <3>2. (\A s : SameWorkers(s)) /\ WorkersOK'
      BY <2>1, <2>3, WorkersUnchanged DEF Core
    <3>3. Core'
      BY <2>1, <2>2, <2>3, <3>1, <3>2, CoreUntouched
    <3>4. QED
      BY <3>3 DEF IndInv
  <2>4. CASE fault /\ Died
    BY <2>1, <2>2, <2>4 DEF IndInv, Died, Unqueued, QueuedOnce, NoneAt
  <2>5. QED
    BY <2>3, <2>4 DEF IndInv
<1>2. ASSUME NEW g \in Group, NEW s \in Session, NotifyStep(g, s) PROVE IndInv'
  BY <1>2, ExecutorCore DEF NotifyStep, IndInv
<1>3. ASSUME NEW s \in Session, NetworkStep(s) \/ (~fault /\ StartSession(s)) PROVE IndInv'
  BY <1>3, NetworkCore DEF NetworkStep, IndInv
<1>4. ASSUME NEW s \in Session, ~fault, TxDone(s) \/ Destroy(s) PROVE IndInv'
  BY <1>4, TxDoneCore, DestroyCore DEF IndInv
<1>5. CASE ~fault /\ ShutdownStep /\ UNCHANGED ssmVars
  BY <1>5, ExecutorCore DEF ShutdownStep, IndInv
<1>6. ASSUME NEW g \in Group, WorkerStep(g) PROVE IndInv'
  BY <1>6, WorkerIndInv
<1>7. CASE Next
  <2>1. \/ \E g \in Group : WorkerStep(g) \/ \E s \in Session : NotifyStep(g, s)
        \/ \E s \in Session : NetworkStep(s) \/ (~fault /\ StartSession(s))
        \/ \E s \in Session : ~fault /\ (TxDone(s) \/ Destroy(s))
        \/ ~fault /\ ShutdownStep /\ UNCHANGED ssmVars
    BY <1>7 DEF Next
  <2>2. QED
    BY <1>2, <1>3, <1>4, <1>5, <1>6, <2>1
<1>8. QED
  BY <1>1, <1>7

\* The inductive invariant holds of every behaviour of the server.
THEOREM Invariance == Spec => []IndInv
<1>1. Init => IndInv
  BY InitIndInv
<1>2. IndInv /\ [Next]_vars => IndInv'
  BY NextIndInv
<1>3. QED
  BY <1>1, <1>2, PTL DEF Spec


-----------------------------------------------------------------------------
(***************************************************************************)
(* The properties.                                                         *)
(***************************************************************************)

\* Two queues seen as one.
LEMMA ConcatFacts ==
  ASSUME NEW a \in Seq(Task), NEW b \in Seq(Task), NEW s, NEW t
  PROVE  /\ a \o b \in Seq(Task)
         /\ NoneOf(a, s) /\ NoneOf(b, s) => NoneOf(a \o b, s)
         /\ OnceIn(a, s, t) /\ NoneOf(b, s) => OnceIn(a \o b, s, t)
         /\ NoneOf(a, s) /\ OnceIn(b, s, t) => OnceIn(a \o b, s, t)
<1> DEFINE c == a \o b
<1>1. /\ c \in Seq(Task) /\ Len(c) = Len(a) + Len(b)
      /\ Len(a) \in Nat /\ Len(b) \in Nat
      /\ \A i \in 1 .. Len(c) : c[i] = IF i <= Len(a) THEN a[i] ELSE b[i - Len(a)]
  BY ConcatProperties, LenProperties
<1> HIDE DEF c
<1>2. /\ \A i \in 1 .. Len(a) : i \in 1 .. Len(c) /\ c[i] = a[i]
      /\ \A i \in 1 .. Len(b) : i + Len(a) \in 1 .. Len(c) /\ c[i + Len(a)] = b[i]
      /\ \A i \in 1 .. Len(c) : i \in 1 .. Len(a) \/ i - Len(a) \in 1 .. Len(b)
      /\ \A i \in 1 .. Len(c) : i \notin 1 .. Len(a) => c[i] = b[i - Len(a)]
  <2>1. \A i \in 1 .. Len(a) : i \in 1 .. Len(c) /\ c[i] = a[i]
    BY <1>1
  <2>2. ASSUME NEW i \in 1 .. Len(b)
        PROVE  i + Len(a) \in 1 .. Len(c) /\ c[i + Len(a)] = b[i]
    <3>1. i + Len(a) \in 1 .. Len(c) /\ ~(i + Len(a) <= Len(a)) /\ (i + Len(a)) - Len(a) = i
      BY <1>1
    <3>2. QED
      BY <1>1, <3>1
  <2>3. \A i \in 1 .. Len(c) : i \in 1 .. Len(a) \/ i - Len(a) \in 1 .. Len(b)
    BY <1>1
  <2>4. \A i \in 1 .. Len(c) : i \notin 1 .. Len(a) => c[i] = b[i - Len(a)]
    BY <1>1
  <2>5. QED
    BY <2>1, <2>2, <2>3, <2>4
<1>3. ASSUME NoneOf(a, s), NoneOf(b, s) PROVE NoneOf(c, s)
  BY <1>2, <1>3 DEF NoneOf
<1>4. ASSUME OnceIn(a, s, t), NoneOf(b, s) PROVE OnceIn(c, s, t)
  <2>1. PICK i \in 1 .. Len(a) :
          a[i] = t /\ \A j \in 1 .. Len(a) : j # i => ~Drives(a[j], s)
    BY <1>4 DEF OnceIn
  <2>2. \A j \in 1 .. Len(c) : j # i => ~Drives(c[j], s)
    BY <1>2, <1>4, <2>1 DEF NoneOf
  <2>3. QED
    BY <1>2, <2>1, <2>2 DEF OnceIn
<1>5. ASSUME NoneOf(a, s), OnceIn(b, s, t) PROVE OnceIn(c, s, t)
  <2>1. PICK i \in 1 .. Len(b) :
          b[i] = t /\ \A j \in 1 .. Len(b) : j # i => ~Drives(b[j], s)
    BY <1>5 DEF OnceIn
  <2>2. ASSUME NEW j \in 1 .. Len(c), j # i + Len(a) PROVE ~Drives(c[j], s)
    <3>1. CASE j \in 1 .. Len(a)
      BY <1>2, <1>5, <3>1 DEF NoneOf
    <3>2. CASE j \notin 1 .. Len(a)
      <4>1. j - Len(a) \in 1 .. Len(b) /\ j - Len(a) # i /\ c[j] = b[j - Len(a)]
        BY <1>1, <1>2, <2>2, <3>2
      <4>2. QED
        BY <2>1, <4>1
    <3>3. QED
      BY <3>1, <3>2
  <2>3. QED
    BY <1>2, <2>1, <2>2 DEF OnceIn
<1>6. QED
  BY <1>1, <1>3, <1>4, <1>5 DEF c

TasksOf(g) == taskQueue[g] \o resumeQueue[g] \o bulk[g]

\* What OneDriver counts, in terms of the invariant.
LEMMA QueuedFacts ==
  ASSUME TypeOK, NEW s \in Session
  PROVE  /\ Unqueued(s) => Queued(s) = {}
         /\ \A h \in Group : \A t \in {RunNext(s), ResumeTask(s)} :
               QueuedOnce(s, h, t) => \E i : Queued(s) = {<<h, i>>}
<1>1. QueuesOK
  BY TypedQueues
<1>2. ASSUME NEW g \in Group, NEW t
      PROVE  /\ TasksOf(g) \in Seq(Task)
             /\ NoneAt(g, s) => NoneOf(TasksOf(g), s)
             /\ \/ /\ OnceIn(taskQueue[g], s, t)
                   /\ NoneOf(resumeQueue[g], s) /\ NoneOf(bulk[g], s)
                \/ /\ OnceIn(resumeQueue[g], s, t)
                   /\ NoneOf(taskQueue[g], s) /\ NoneOf(bulk[g], s)
                \/ /\ OnceIn(bulk[g], s, t)
                   /\ NoneOf(taskQueue[g], s) /\ NoneOf(resumeQueue[g], s)
                => OnceIn(TasksOf(g), s, t)
  <2> DEFINE a == taskQueue[g]
             b == resumeQueue[g]
             c == bulk[g]
  <2>1. a \in Seq(Task) /\ b \in Seq(Task) /\ c \in Seq(Task)
    BY <1>1 DEF QueuesOK
  <2>2. TasksOf(g) = (a \o b) \o c
    BY DEF TasksOf
  <2> HIDE DEF a, b, c
  <2>3. /\ a \o b \in Seq(Task)
        /\ NoneOf(a, s) /\ NoneOf(b, s) => NoneOf(a \o b, s)
        /\ OnceIn(a, s, t) /\ NoneOf(b, s) => OnceIn(a \o b, s, t)
        /\ NoneOf(a, s) /\ OnceIn(b, s, t) => OnceIn(a \o b, s, t)
    BY <2>1, ConcatFacts
  <2>4. /\ (a \o b) \o c \in Seq(Task)
        /\ NoneOf(a \o b, s) /\ NoneOf(c, s) => NoneOf((a \o b) \o c, s)
        /\ OnceIn(a \o b, s, t) /\ NoneOf(c, s) => OnceIn((a \o b) \o c, s, t)
        /\ NoneOf(a \o b, s) /\ OnceIn(c, s, t) => OnceIn((a \o b) \o c, s, t)
    BY <2>1, <2>3, ConcatFacts
  <2>5. QED
    BY <2>2, <2>3, <2>4 DEF NoneAt, a, b, c
<1>3. /\ \A place \in Queued(s) :
            \E g \in Group : \E i \in 1 .. Len(TasksOf(g)) :
                place = <<g, i>> /\ Drives(TasksOf(g)[i], s)
      /\ \A g \in Group : \A i \in 1 .. Len(TasksOf(g)) :
            Drives(TasksOf(g)[i], s) => <<g, i>> \in Queued(s)
  <2>1. \A g \in Group : DOMAIN TasksOf(g) = 1 .. Len(TasksOf(g))
    BY <1>2, LenProperties
  <2>2. \A g \in Group : \A i \in 1 .. Len(TasksOf(g)) :
          TasksOf(g)[i] \in {RunNext(s), ResumeTask(s)} <=> Drives(TasksOf(g)[i], s)
    <3>1. \A g \in Group : \A i \in 1 .. Len(TasksOf(g)) : TasksOf(g)[i] \in Task
      BY <1>2, ElementOfSeq
    <3>2. QED
      BY <3>1, DrivesFacts
  <2>3. Queued(s) = UNION {{<<g, i>> : i \in {j \in DOMAIN TasksOf(g) :
                              TasksOf(g)[j] \in {RunNext(s), ResumeTask(s)}}} : g \in Group}
    BY DEF Queued, TasksOf
  <2>4. ASSUME NEW place \in Queued(s)
        PROVE  \E g \in Group : \E i \in 1 .. Len(TasksOf(g)) :
                   place = <<g, i>> /\ Drives(TasksOf(g)[i], s)
    BY <2>1, <2>2, <2>3
  <2>5. ASSUME NEW g \in Group, NEW i \in 1 .. Len(TasksOf(g)), Drives(TasksOf(g)[i], s)
        PROVE  <<g, i>> \in Queued(s)
    BY <2>1, <2>2, <2>3, <2>5
  <2>6. QED
    BY <2>4, <2>5
<1>4. ASSUME Unqueued(s) PROVE Queued(s) = {}
  BY <1>2, <1>3, <1>4 DEF Unqueued, NoneOf
<1>5. ASSUME NEW h \in Group, NEW t \in {RunNext(s), ResumeTask(s)}, QueuedOnce(s, h, t)
      PROVE  \E i : Queued(s) = {<<h, i>>}
  <2>1. \A g \in Group \ {h} : NoneOf(TasksOf(g), s)
    BY <1>2, <1>5 DEF QueuedOnce
  <2>2. OnceIn(TasksOf(h), s, t)
    BY <1>2, <1>5 DEF QueuedOnce
  <2>3. PICK i \in 1 .. Len(TasksOf(h)) :
          /\ TasksOf(h)[i] = t
          /\ \A j \in 1 .. Len(TasksOf(h)) : j # i => ~Drives(TasksOf(h)[j], s)
    BY <2>2 DEF OnceIn
  <2>4. <<h, i>> \in Queued(s)
    BY <1>3, <2>3, DrivesFacts
  <2>5. ASSUME NEW place \in Queued(s) PROVE place = <<h, i>>
    <3>1. PICK g \in Group : \E j \in 1 .. Len(TasksOf(g)) :
            place = <<g, j>> /\ Drives(TasksOf(g)[j], s)
      BY <1>3
    <3>2. PICK j \in 1 .. Len(TasksOf(g)) : place = <<g, j>> /\ Drives(TasksOf(g)[j], s)
      BY <3>1
    <3>3. g = h
      BY <2>1, <3>2 DEF NoneOf
    <3>4. j = i
      BY <2>3, <3>2, <3>3
    <3>5. QED
      BY <3>2, <3>3, <3>4
  <2>6. Queued(s) = {<<h, i>>}
    BY <2>4, <2>5
  <2>7. QED
    BY <2>6
<1>6. QED
  BY <1>4, <1>5

\* TypeOK: the thread groups and the connections stay well typed: the counter of
\* coroutines in its width, no connection past its bound of yields.
THEOREM TypeCorrect == Spec => []TypeOK
<1>1. IndInv => TypeOK
  BY DEF IndInv, Core, Died
<1>2. QED
  BY <1>1, Invariance, PTL

\* Of a process that runs and of one that has died.
LEMMA DiedIsOnItsGroup ==
  ASSUME Died PROVE OnItsGroup
<1>1. ASSUME NEW s \in Session, NEW place \in Queued(s) PROVE place[1] = ssm[s].group
  <2>1. TypeOK /\ ssm[s].group \in Group
    BY DEF Died, TypeOK, Machine
  <2>2. ~Unqueued(s)
    BY <1>1, <2>1, QueuedFacts
  <2>3. PICK t \in {RunNext(s), ResumeTask(s)} : QueuedOnce(s, ssm[s].group, t)
    BY <2>2 DEF Died
  <2>4. PICK i : Queued(s) = {<<ssm[s].group, i>>}
    BY <2>1, <2>3, QueuedFacts
  <2>5. QED
    BY <1>1, <2>4
<1>2. QED
  BY <1>1 DEF Died, OnItsGroup

\* OnItsGroup: a coroutine runs on the worker of its own thread group, and what
\* will resume it is queued there, through any number of migrations.
THEOREM RunsOnItsGroup == Spec => []OnItsGroup
<1>1. IndInv => OnItsGroup
  BY CoreIsDied, DiedIsOnItsGroup DEF IndInv
<1>2. QED
  BY <1>1, Invariance, PTL

\* StackOutlivesCoroutine: no stack is unmapped, or left to a task that unmaps
\* it, while anything may still run on it.
THEOREM StackIsKept == Spec => []StackOutlivesCoroutine
<1>1. ASSUME Died, NEW s \in Session, ssm[s].stack # "mapped"
      PROVE  ssm[s].state = "Ended" /\ ssm[s].status = "Empty" /\ Queued(s) = {}
  BY <1>1, QueuedFacts DEF Died
<1>2. ASSUME Core, NEW s \in Session, ssm[s].stack # "mapped",
             NEW g \in Group, current[g] = s
      PROVE  worker[g] = "deciding"
  <2>1. ssm[s].state = "Ended" /\ PhaseOK(s)
    BY <1>2 DEF Core, StacksOK
  <2>2. NoWorker(s)
    BY <2>1 DEF PhaseOK, Idle, Scheduled, Executing, Answered, Suspended, Entered
  <2>3. worker[g] \in Active \cup {"deciding"}
    BY <1>2, SessionAssumption DEF Core, WorkersOK
  <2>4. QED
    BY <1>2, <2>2, <2>3 DEF NoWorker, At
<1>3. ASSUME IndInv PROVE StackOutlivesCoroutine
  <2>1. Died
    BY <1>3, CoreIsDied DEF IndInv
  <2>2. fault \/ Core
    BY <1>3 DEF IndInv
  <2>3. QED
    BY <1>1, <1>2, <2>1, <2>2 DEF StackOutlivesCoroutine
<1>4. IndInv => StackOutlivesCoroutine
  BY <1>3
<1>5. QED
  BY <1>4, Invariance, PTL

\* OneDriver: an open connection has exactly one driver, and one that is not
\* open has none, until the process dies.
THEOREM ExactlyOneDriver == Spec => []OneDriver
<1>1. ASSUME Core, NEW s \in Session
      PROVE  Cardinality(Queued(s)) + Cardinality(RunBy(s))
               + Cardinality({s} \cap pending) + (IF InNetwork(s) THEN 1 ELSE 0)
             = (IF ssm[s].state \in {"New", "Ended"} THEN 0 ELSE 1)
  <2>1. TypeOK /\ PhaseOK(s) /\ ssm[s].group \in Group
    BY <1>1 DEF Core, TypeOK, Machine
  <2>2. /\ Cardinality({}) = 0
        /\ \A x : Cardinality({x}) = 1
    BY FS_EmptySet, FS_Singleton
  <2>3. /\ Unqueued(s) => Cardinality(Queued(s)) = 0
        /\ \A t \in {RunNext(s), ResumeTask(s)} :
              QueuedOnce(s, ssm[s].group, t) => Cardinality(Queued(s)) = 1
    <3>1. /\ Unqueued(s) => Queued(s) = {}
          /\ \A t \in {RunNext(s), ResumeTask(s)} :
               QueuedOnce(s, ssm[s].group, t) => \E i : Queued(s) = {<<ssm[s].group, i>>}
      BY <2>1, QueuedFacts
    <3>2. QED
      BY <2>2, <3>1
  <2>4. /\ s \notin pending => Cardinality({s} \cap pending) = 0
        /\ s \in pending => Cardinality({s} \cap pending) = 1
    <3>1. /\ s \notin pending => {s} \cap pending = {}
          /\ s \in pending => {s} \cap pending = {s}
      OBVIOUS
    <3>2. QED
      BY <2>2, <3>1
  <2>5. /\ NoWorker(s) => Cardinality(RunBy(s)) = 0
        /\ \A g \in Group : \A w \in {"leaving", "switched"} :
              OnlyWorker(s, g, w) => Cardinality(RunBy(s)) = 0
        /\ \A g \in Group : \A w \in {"coro", "returned"} :
              OnlyWorker(s, g, w) => Cardinality(RunBy(s)) = 1
    <3>1. NoWorker(s) => RunBy(s) = {}
      BY DEF NoWorker, RunBy, At, Active
    <3>2. ASSUME NEW g \in Group, NEW w \in {"leaving", "switched"}, OnlyWorker(s, g, w)
          PROVE  RunBy(s) = {}
      BY <3>2 DEF OnlyWorker, RunBy, At, Active
    <3>3. ASSUME NEW g \in Group, NEW w \in {"coro", "returned"}, OnlyWorker(s, g, w)
          PROVE  RunBy(s) = {g}
      BY <3>3 DEF OnlyWorker, RunBy, At, Active
    <3>4. QED
      BY <2>2, <3>1, <3>2, <3>3
  <2>6. CASE Idle(s)
    BY <2>3, <2>4, <2>5, <2>6 DEF Idle, InNetwork
  <2>7. CASE Scheduled(s)
    BY <2>3, <2>4, <2>5, <2>7 DEF Scheduled, InNetwork
  <2>8. CASE Executing(s)
    BY <2>1, <2>3, <2>4, <2>5, <2>8 DEF Executing, Entered, InNetwork
  <2>9. CASE Suspended(s)
    <3>1. Cardinality(RunBy(s)) = 0
      BY <2>5, <2>9 DEF Suspended
    <3>2. QED
      BY <2>3, <2>4, <2>9, <3>1 DEF Suspended, Entered, InNetwork
  <2>10. CASE Answered(s)
    BY <2>1, <2>3, <2>4, <2>5, <2>10 DEF Answered, InNetwork
  <2>11. QED
    BY <2>1, <2>6, <2>7, <2>8, <2>9, <2>10 DEF PhaseOK
<1>2. IndInv => OneDriver
  BY <1>1 DEF IndInv, OneDriver
<1>3. QED
  BY <1>2, Invariance, PTL


-----------------------------------------------------------------------------
(***************************************************************************)
(* Only a migration can kill the process.                                  *)
(***************************************************************************)

\* The workers of a process in which nothing has migrated.
Settled ==
    /\ ~fault
    /\ \A g \in Group :
          /\ worker[g] \notin {"switched", "deciding"}
          /\ worker[g] = "leaving" => ssm[current[g]].group = g

\* Scheduling the next step or ending the session leaves the group alone.
LEMMA GroupKept ==
  ASSUME ssm \in [Session -> Machine], NEW z \in Session, NEW m \in Machine,
         m.group = ssm[z].group, NEW by,
         \/ ScheduleNext(z, m, by) \/ CleanupSession(z, m)
         \/ ssm' = [ssm EXCEPT ![z] = m]
  PROVE  \A s \in Session : ssm'[s].group = ssm[s].group
<1>1. PICK n :
        /\ ssm' = [ssm EXCEPT ![z] = n]
        /\ \/ n = m
           \/ n = [m EXCEPT !.state = "Ended", !.client = "gone", !.reply = "none"]
  BY DEF ScheduleNext, CleanupSession
<1>2. n.group = m.group
  BY <1>1 DEF Machine
<1>3. /\ ssm'[z] = n
      /\ \A s \in Session : s # z => ssm'[s] = ssm[s]
  BY <1>1
<1>4. QED
  BY <1>2, <1>3

\* A step that moves no connection to another group, and no worker to where only
\* a migration takes it.
LEMMA SettledKept ==
  ASSUME Core, Settled, ~fault',
         \A s \in Session : ssm'[s].group = ssm[s].group,
         \A g \in Group :
            \/ worker'[g] = worker[g] /\ current'[g] = current[g]
            \/ worker'[g] \notin {"leaving", "switched", "deciding"}
            \/ worker[g] = "coro" /\ worker'[g] = "leaving" /\ current'[g] = current[g]
  PROVE  Settled'
<1>1. ASSUME NEW g \in Group
      PROVE  /\ worker'[g] \notin {"switched", "deciding"}
             /\ worker'[g] = "leaving" => ssm'[current'[g]].group = g
  <2>1. CASE worker'[g] = worker[g] /\ current'[g] = current[g]
    <3>1. worker[g] = "leaving" => current[g] \in Session
      BY ActivePhase DEF Active
    <3>2. QED
      BY <2>1, <3>1 DEF Settled
  <2>2. CASE worker'[g] \notin {"leaving", "switched", "deciding"}
    BY <2>2
  <2>3. CASE worker[g] = "coro" /\ worker'[g] = "leaving" /\ current'[g] = current[g]
    <3>1. current[g] \in Session /\ ssm[current[g]].group = g
      BY <2>3, ActivePhase DEF Active
    <3>2. QED
      BY <2>3, <3>1
  <2>4. QED
    BY <2>1, <2>2, <2>3
<1>2. QED
  BY <1>1 DEF Settled

\* The steps of a worker that has a connection.
LEMMA CoroutineSettled ==
  ASSUME Core, Settled, NoMigration, NoMigration', NEW g \in Group,
         \/ AwaitTx(g) \/ LongResume(g)
         \/ \E h \in Group : MigrateThreadGroup(g, h)
         \/ Yield(g) \/ ClearMigrating(g) \/ KeepSession(g) \/ ProcessResponse(g)
         \/ \E reply \in {"none", "one", "exhaust", "throw"} : ReturnFromCoroutine(g, reply)
  PROVE  Settled'
<1>1. worker[g] \in Active /\ worker[g] # "switched"
  BY DEF AwaitTx, LongResume, MigrateThreadGroup, InCoroutine, Yield, ClearMigrating, KeepSession,
         ProcessResponse, ReturnFromCoroutine, Settled, Active
<1>2. PICK z \in Session : z = current[g] /\ ssm[z] \in Machine /\ ~ssm[z].migrating
  BY <1>1, ActivePhase DEF Core, TypeOK, NoMigration
<1>3. TypeOK /\ ssm \in [Session -> Machine]
  BY DEF Core, TypeOK
<1>4. CASE AwaitTx(g) \/ LongResume(g)
  <2>1. /\ worker[g] = "coro" /\ worker' = [worker EXCEPT ![g] = "leaving"]
        /\ current' = current /\ fault' = fault
        /\ ssm' = [ssm EXCEPT ![z] = ssm[z]]
    BY <1>2, <1>4 DEF AwaitTx, LongResume, Leave, InCoroutine
  <2>2. \A s \in Session : ssm'[s].group = ssm[s].group
    BY <1>3, <2>1
  <2>3. QED
    BY <1>3, <2>1, <2>2, SettledKept DEF TypeOK, Settled
<1>5. ASSUME NEW h \in Group, MigrateThreadGroup(g, h) PROVE FALSE
  <2>1. ssm' = [ssm EXCEPT ![z] = [ssm[z] EXCEPT !.group = h, !.resumeTo = h, !.longTo = h,
                                                 !.migrating = TRUE]]
    BY <1>2, <1>5 DEF MigrateThreadGroup, Leave
  <2>2. ssm'[z].migrating = TRUE
    BY <1>2, <1>3, <2>1 DEF Machine
  <2>3. QED
    BY <2>2 DEF NoMigration
<1>6. CASE Yield(g)
  <2>1. /\ worker' = [worker EXCEPT ![g] = "poll"]
        /\ current' = [current EXCEPT ![g] = NoSession] /\ fault' = fault
        /\ ssm' = [ssm EXCEPT ![z].client = "ssm"]
    BY <1>2, <1>6 DEF Yield, BackToQueue
  <2>2. \A s \in Session : ssm'[s].group = ssm[s].group
    BY <1>3, <2>1 DEF Machine
  <2>3. QED
    BY <1>3, <2>1, <2>2, SettledKept DEF TypeOK, Settled
<1>7. CASE ClearMigrating(g) \/ KeepSession(g)
  BY <1>7 DEF ClearMigrating, KeepSession, Settled
<1>8. CASE ProcessResponse(g)
  <2>1. /\ worker' = [worker EXCEPT ![g] = "poll"]
        /\ current' = [current EXCEPT ![g] = NoSession] /\ fault' = fault
    BY <1>8 DEF ProcessResponse, BackToQueue
  <2>2. PICK m \in Machine :
          /\ m.group = ssm[z].group
          /\ \/ ScheduleNext(z, m, g) \/ CleanupSession(z, m)
             \/ ssm' = [ssm EXCEPT ![z] = m]
    <3>1. \/ CleanupSession(z, ssm[z])
          \/ ScheduleNext(z, [ssm[z] EXCEPT !.state = "Source"], g)
          \/ ssm' = [ssm EXCEPT ![z].state = "SinkWait"]
      BY <1>2, <1>8 DEF ProcessResponse
    <3>2. \A v \in {"Source", "SinkWait"} :
            /\ [ssm[z] EXCEPT !.state = v] \in Machine
            /\ [ssm[z] EXCEPT !.state = v].group = ssm[z].group
      BY <1>2 DEF Machine
    <3>3. CASE ssm' = [ssm EXCEPT ![z].state = "SinkWait"]
      <4>1. ssm' = [ssm EXCEPT ![z] = [ssm[z] EXCEPT !.state = "SinkWait"]]
        BY <3>3
      <4>2. QED
        BY <3>2, <4>1
    <3>4. QED
      BY <1>2, <3>1, <3>2, <3>3
  <2>3. \A s \in Session : ssm'[s].group = ssm[s].group
    BY <1>3, <2>2, GroupKept
  <2>4. QED
    BY <1>3, <2>1, <2>3, SettledKept DEF TypeOK, Settled
<1>9. ASSUME NEW reply \in {"none", "one", "exhaust", "throw"}, ReturnFromCoroutine(g, reply)
      PROVE  Settled'
  <2>1. /\ worker' = [worker EXCEPT ![g] = "returned"] /\ current' = current /\ fault' = fault
        /\ ssm' = [ssm EXCEPT ![z] = [@ EXCEPT !.status = "Empty", !.client = "ssm",
                                               !.reply = reply]]
    BY <1>2, <1>9 DEF ReturnFromCoroutine
  <2>2. \A s \in Session : ssm'[s].group = ssm[s].group
    BY <1>2, <1>3, <2>1 DEF Machine
  <2>3. QED
    BY <1>3, <2>1, <2>2, SettledKept DEF TypeOK, Settled
<1>10. QED
  BY <1>4, <1>5, <1>6, <1>7, <1>8, <1>9

\* The tasks: the one that resumes a connection finds its coroutine suspended,
\* with the Client there.
LEMMA TaskSettled ==
  ASSUME Core, Settled, NoMigration, NEW g \in Group, NEW z \in Session,
         \/ SourceMessage(g, z) \/ BeginCoroutine(g, z)
         \/ RunResumeProcess(g, z) \/ Munmap(g, z)
  PROVE  Settled'
<1>1. TypeOK /\ ssm \in [Session -> Machine] /\ ssm[z] \in Machine
  BY DEF Core, TypeOK
<1>2. CASE SourceMessage(g, z) \/ Munmap(g, z)
  <2>1. /\ UNCHANGED <<worker, current, fault>>
        /\ \/ ssm' = [ssm EXCEPT ![z].state = "SourceWait"]
           \/ ssm' = [ssm EXCEPT ![z].stack = "unmapped"]
    BY <1>2 DEF SourceMessage, Munmap
  <2>2. \A s \in Session : ssm'[s].group = ssm[s].group
    BY <1>1, <2>1 DEF Machine
  <2>3. QED
    BY <2>1, <2>2, SettledKept DEF Settled
<1>3. CASE BeginCoroutine(g, z)
  <2>1. /\ worker' = [worker EXCEPT ![g] = "coro"]
        /\ current' = [current EXCEPT ![g] = z] /\ fault' = fault
        /\ ssm' = [ssm EXCEPT ![z] =
                     [@ EXCEPT !.status = "OnGoing", !.resumeTo = ssm[z].group,
                               !.longTo = ssm[z].group, !.client = g]]
    BY <1>3 DEF BeginCoroutine
  <2>2. \A s \in Session : ssm'[s].group = ssm[s].group
    BY <1>1, <2>1 DEF Machine
  <2>3. QED
    BY <1>1, <2>1, <2>2, SettledKept DEF TypeOK, Settled
<1>4. CASE RunResumeProcess(g, z)
  <2>1. NextTask(g, "resume", z) /\ UNCHANGED <<taskQueue, resumeQueue>>
    BY <1>4 DEF RunResumeProcess, queueVars
  <2>2. Suspended(z) /\ ssm[z].group = g /\ worker[g] = "poll"
    BY <2>1, TaskPhase
  <2>3. ~\E h \in Group : OnlyWorker(z, h, "leaving")
    <3>1. ASSUME NEW h \in Group, OnlyWorker(z, h, "leaving") PROVE FALSE
      <4>1. current[h] = z /\ worker[h] = "leaving"
        BY <3>1 DEF OnlyWorker, At
      <4>2. ssm[z].group = h
        BY <4>1 DEF Settled
      <4>3. QED
        BY <2>2, <4>1, <4>2
    <3>2. QED
      BY <3>1
  <2>4. ssm[z].client = "ssm" /\ ~ssm[z].migrating /\ ssm[z].status = "OnGoing"
    BY <2>2, <2>3 DEF Suspended, Entered, NoMigration
  <2>5. /\ worker' = [worker EXCEPT ![g] = "coro"]
        /\ current' = [current EXCEPT ![g] = z] /\ fault' = fault
        /\ ssm' = [ssm EXCEPT ![z].client = g]
    BY <1>4, <2>4 DEF RunResumeProcess
  <2>6. \A s \in Session : ssm'[s].group = ssm[s].group
    BY <1>1, <2>5 DEF Machine
  <2>7. QED
    BY <1>1, <2>5, <2>6, SettledKept DEF TypeOK, Settled
<1>5. QED
  BY <1>2, <1>3, <1>4

\* The steps of the other threads and of the executor.
LEMMA OthersSettled ==
  ASSUME Core, Settled,
         \/ \E s \in Session : \/ StartSession(s) \/ SourceCallback(s) \/ SinkCallback(s)
                               \/ TxDone(s) \/ Destroy(s)
         \/ /\ UNCHANGED ssmVars
            /\ \/ Shutdown
               \/ \E g \in Group : \/ DequeueResumptions(g) \/ DequeueTasks(g)
                                   \/ ExtThdEnd(g) \/ Park(g) \/ Quit(g)
                                   \/ \E s \in Session : notifyIfAsleep(g, s)
  PROVE  Settled'
<1>1. TypeOK /\ ssm \in [Session -> Machine]
  BY DEF Core, TypeOK
<1>2. ASSUME NEW z \in Session,
             \/ StartSession(z) \/ SourceCallback(z) \/ SinkCallback(z)
             \/ TxDone(z) \/ Destroy(z)
      PROVE  Settled'
  <2>1. UNCHANGED <<worker, current, fault>> /\ ssm[z] \in Machine
    BY <1>1, <1>2 DEF StartSession, SourceCallback, SinkCallback, TxDone, Destroy
  <2>2. \A s \in Session : ssm'[s].group = ssm[s].group
    <3>1. ASSUME NEW m \in Machine, m.group = ssm[z].group, NEW by,
                 ScheduleNext(z, m, by) \/ CleanupSession(z, m)
          PROVE  \A s \in Session : ssm'[s].group = ssm[s].group
      BY <1>1, <3>1, GroupKept
    <3>2. CASE StartSession(z)
      <4>1. PICK m : m = [ssm[z] EXCEPT !.state = "Created"]
        OBVIOUS
      <4>2. m \in Machine /\ m.group = ssm[z].group
        BY <2>1, <4>1 DEF Machine
      <4>3. ScheduleNext(z, m, Network)
        BY <3>2, <4>1 DEF StartSession
      <4>4. QED
        BY <3>1, <4>2, <4>3
    <3>3. CASE SourceCallback(z)
      <4>1. PICK m : m = [ssm[z] EXCEPT !.state = "Process"]
        OBVIOUS
      <4>2. m \in Machine /\ m.group = ssm[z].group
        BY <2>1, <4>1 DEF Machine
      <4>3. ScheduleNext(z, m, Network) \/ CleanupSession(z, ssm[z])
        BY <3>3, <4>1 DEF SourceCallback
      <4>4. QED
        BY <2>1, <3>1, <4>2, <4>3
    <3>4. CASE SinkCallback(z)
      <4>1. PICK m : m = [ssm[z] EXCEPT
               !.state = IF ssm[z].reply = "exhaust" THEN "Process" ELSE "Source",
               !.reply = "none"]
        OBVIOUS
      <4>2. m \in Machine /\ m.group = ssm[z].group
        BY <2>1, <4>1 DEF Machine
      <4>3. ScheduleNext(z, m, Network) \/ CleanupSession(z, ssm[z])
        BY <3>4, <4>1 DEF SinkCallback
      <4>4. QED
        BY <2>1, <3>1, <4>2, <4>3
    <3>5. CASE TxDone(z)
      BY <3>5 DEF TxDone
    <3>6. CASE Destroy(z)
      <4>1. PICK v \in {"deferred", "unmapped"} : ssm' = [ssm EXCEPT ![z].stack = v]
        BY <3>6 DEF Destroy
      <4>2. QED
        BY <1>1, <4>1 DEF Machine
    <3>7. QED
      BY <1>2, <3>2, <3>3, <3>4, <3>5, <3>6
  <2>3. QED
    BY <2>1, <2>2, SettledKept DEF Settled
<1>3. CASE UNCHANGED ssmVars
  <2>1. UNCHANGED <<ssm, current, fault>>
    BY <1>3 DEF ssmVars
  <2>2. CASE Shutdown
    BY <2>1, <2>2, SettledKept DEF Shutdown, Settled
  <2>3. ASSUME NEW g \in Group,
               \/ DequeueResumptions(g) \/ DequeueTasks(g) \/ ExtThdEnd(g) \/ Park(g)
               \/ Quit(g) \/ \E s \in Session : notifyIfAsleep(g, s)
        PROVE  Settled'
    <3>1. \/ worker' = worker
          \/ \E v \in {"poll", "ending", "parked", "quit"} : worker' = [worker EXCEPT ![g] = v]
      BY <2>3 DEF DequeueResumptions, DequeueTasks, ExtThdEnd, Park, Quit,
                  notifyIfAsleep
    <3>2. QED
      BY <1>1, <2>1, <3>1, SettledKept DEF TypeOK, Settled
  <2>4. CASE \E s \in Session : \/ StartSession(s) \/ SourceCallback(s) \/ SinkCallback(s)
                                \/ TxDone(s) \/ Destroy(s)
    BY <1>2, <2>4
  <2>5. QED
    BY <2>2, <2>3, <2>4
<1>4. QED
  BY <1>2, <1>3

\* NoFault, as long as nothing migrates: every way to the death of the process
\* starts with _migrateThreadGroup.
THEOREM OnlyMigrationKills == Spec /\ []NoMigration => []NoFault
<1>1. Init => Settled
  BY DEF Init, ExecInit, Settled
<1>2. ASSUME IndInv, Settled, NoMigration, NoMigration', [Next]_vars PROVE Settled'
  <2>1. Core
    BY <1>2 DEF IndInv, Settled
  <2>2. CASE UNCHANGED vars
    BY <1>2, <2>2 DEF vars, execVars, ssmVars, Settled
  <2>3. ASSUME NEW g \in Group, WorkerStep(g) PROVE Settled'
    <3>1. \/ ExecutorStep(g)
          \/ \E s \in Session : \/ SourceMessage(g, s) \/ BeginCoroutine(g, s)
                                \/ RunResumeProcess(g, s) \/ Munmap(g, s)
          \/ \/ AwaitTx(g) \/ LongResume(g)
             \/ \E h \in Group : MigrateThreadGroup(g, h)
             \/ Yield(g) \/ ClearMigrating(g) \/ KeepSession(g) \/ ProcessResponse(g)
             \/ \E reply \in {"none", "one", "exhaust", "throw"} :
                    ReturnFromCoroutine(g, reply)
      BY <2>3 DEF WorkerStep
    <3>2. CASE ExecutorStep(g)
      BY <1>2, <2>1, <3>2, OthersSettled DEF ExecutorStep
    <3>3. QED
      BY <1>2, <2>1, <3>1, <3>2, TaskSettled, CoroutineSettled
  <2>4. ASSUME NEW g \in Group, NEW s \in Session, NotifyStep(g, s) PROVE Settled'
    BY <1>2, <2>1, <2>4, OthersSettled DEF NotifyStep
  <2>5. ASSUME NEW s \in Session,
               \/ NetworkStep(s) \/ StartSession(s) \/ TxDone(s) \/ Destroy(s)
        PROVE  Settled'
    BY <1>2, <2>1, <2>5, OthersSettled DEF NetworkStep
  <2>6. CASE ShutdownStep /\ UNCHANGED ssmVars
    BY <1>2, <2>1, <2>6, OthersSettled DEF ShutdownStep
  <2>7. CASE Next
    <3>1. \/ \E g \in Group : WorkerStep(g) \/ \E s \in Session : NotifyStep(g, s)
          \/ \E s \in Session : \/ NetworkStep(s) \/ StartSession(s)
                                \/ TxDone(s) \/ Destroy(s)
          \/ ShutdownStep /\ UNCHANGED ssmVars
      BY <2>7 DEF Next
    <3>2. QED
      BY <2>3, <2>4, <2>5, <2>6, <3>1
  <2>8. QED
    BY <1>2, <2>2, <2>7
<1>3. IndInv /\ Settled /\ NoMigration /\ NoMigration' /\ [Next]_vars => Settled'
  BY <1>2
<1>4. Settled => NoFault
  BY DEF Settled, NoFault
<1>5. QED
  BY <1>1, <1>3, <1>4, Invariance, PTL DEF Spec


=============================================================================
