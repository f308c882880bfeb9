--------------------------- MODULE CdcScanSource ---------------------------
(***************************************************************************)
(* CdcScanSource: fetches every log group's records through CdcScan and    *)
(* releases them one at a time, merged by timestamp.  One cursor drives    *)
(* it, one pull (a call of next()) at a time; the scans it has in flight   *)
(* are answered concurrently, and the groups keep growing meanwhile.       *)
(*                                                                         *)
(* A pull runs through these places (pc):                                  *)
(*   idle       no pull is running                                         *)
(*   collect    the first pass takes completed scans, then picks a record  *)
(*   again      a later pass does the same                                 *)
(*   issue      the pass issues scans                                      *)
(*   recollect  the second take and pick of a pass that issued scans       *)
(*   deadline   whether to give up or wait                                 *)
(*   wait       waiting on the wait object                                 *)
(*   failed     the pull threw and the cursor is gone                      *)
(* todo holds the groups the running loop of a pull has still to visit.    *)
(*                                                                         *)
(* Time is abstracted to what the code asks of it: clock says how much of  *)
(* the running pull's deadline is left ("past" between pulls), and         *)
(* deferred[g] whether the client's readyAt for the group is still ahead.  *)
(***************************************************************************)
EXTENDS CdcLog, Sequences, FiniteSets

CONSTANTS
    Start,              \* the start timestamps a stream may be opened with
    NoHistory,          \* the groups whose log state keeps no history
    MaxBytesPerScan,    \* the largest page
    BufferBytes         \* the cap on buffered bytes

ASSUME StartAssumption ==
    \A f \in Start : f \in [Group -> 1 .. MaxTs + 1]
ASSUME SizeAssumption ==
    /\ NoHistory \subseteq Group
    /\ MaxBytesPerScan \in Nat \ {0}
    /\ BufferBytes \in Nat

VARIABLES
    from,           \* from[g]: where the group's scan started
    pos,            \* pos[g]: from[g] until the first page, then its continuation
    arrival,        \* arrival[g]: arrivalCompleteTs, the latest bound reported
    scannedTs,      \* scannedTs[g]: every record at or below it has been fetched
    pages,          \* pages[g]: the fetched pages, with the records left to release
    bufferedBytes,
    drained,
    call,           \* call[g]: the client's call to the group, and its answer
    deferred,
    notified,       \* the wait object's flag
    pc, todo, clock,
    released        \* history variable: released[g] is what the pulls returned

fetchVars == <<pos, arrival, scannedTs, pages, bufferedBytes>>
clientVars == <<call, deferred, notified>>
pullVars == <<pc, todo, clock>>
srcVars == <<from, fetchVars, drained, clientVars, pullVars, released>>
vars == <<logVars, srcVars>>

RecordPage == [recs : SUBSET RecordType, bytes : 1 .. MaxBytesPerScan]

CollectPlace == {"collect", "again", "recollect"}

CallState == {"none", "sent", "page", "retry", "fatal"}

\* A call, with the fields of its answer once there is one.
Call == [state : CallState, pos : Position, recs : SUBSET RecordType,
         more : BOOLEAN, bound : 0 .. MaxTs, cont : Position]

\* The state and the types, in one predicate.
TypeOK ==
    /\ LogTypeOK
    /\ from \in [Group -> 1 .. MaxTs + 1]
    /\ pos \in [Group -> Position]
    /\ arrival \in [Group -> 0 .. MaxTs]
    /\ scannedTs \in [Group -> 0 .. MaxTs]
    /\ pages \in [Group -> Seq(RecordPage)]
    /\ bufferedBytes \in Int
    /\ drained \in BOOLEAN
    /\ call \in [Group -> Call]
    /\ deferred \in [Group -> BOOLEAN]
    /\ notified \in BOOLEAN
    /\ pc \in {"idle", "issue", "deadline", "wait", "failed"} \cup CollectPlace
    /\ todo \subseteq Group
    /\ clock \in {"ample", "short", "past"}
    /\ released \in [Group -> SUBSET RecordType]

NoCall == [state |-> "none", pos |-> FromTs(0), recs |-> {},
           more |-> FALSE, bound |-> 0, cont |-> FromTs(0)]

\* Mutant: the start itself is scanned twice over.
StartBoundaryTooLow(f) == [g \in Group |-> f[g] - 2]

\* Nothing below the start belongs to the stream, so it counts as fetched.
StartBoundary(f) == [g \in Group |-> f[g] - 1]

\* Every group has been given its start by startAllAt() or startAt().
Init ==
    /\ history \in [Group -> SUBSET UNION {Record[g] : g \in Group}]
    /\ \A g \in Group : history[g] \subseteq Record[g]
    /\ bound \in [Group -> 0 .. MaxTs]
    /\ floor = [g \in Group |-> 0]
    /\ from \in Start
    /\ pos = [g \in Group |-> FromTs(from[g])]
    /\ arrival = [g \in Group |-> 0]
    /\ scannedTs = StartBoundary(from)
    /\ pages = [g \in Group |-> <<>>]
    /\ bufferedBytes = 0
    /\ drained = FALSE
    /\ call = [g \in Group |-> NoCall]
    /\ deferred = [g \in Group |-> FALSE]
    /\ notified = FALSE
    /\ pc = "idle"
    /\ todo = {}
    /\ clock = "past"
    /\ released = [g \in Group |-> {}]

-----------------------------------------------------------------------------
(***************************************************************************)
(* The log groups and their answers.  A call is answered at any time after *)
(* it was sent, from what the group holds then; a logger that has just     *)
(* become leader may still report an older bound.  The answer sets the     *)
(* wait object's flag.                                                     *)
(***************************************************************************)

Answered(g, c) ==
    /\ call' = [call EXCEPT ![g] = c]
    /\ notified' = TRUE
    /\ UNCHANGED <<logVars, from, fetchVars, drained, deferred, pullVars,
                   released>>

\* Success: a page, and the bound b that the logger read before scanning.
AnswerPage(g, b) ==
    /\ call[g].state = "sent"
    /\ g \notin NoHistory
    /\ ~Truncated(g, call[g].pos)
    /\ LET S == Available(g, call[g].pos, b)
       IN  \E P \in Pages(S) : \E k \in Continuations(call[g].pos, P) :
              Answered(g, [call[g] EXCEPT !.state = "page", !.recs = P,
                                          !.more = (P # S), !.bound = b,
                                          !.cont = k])

\* PositionTruncated, or a log state that has no CdcScan.
AnswerFatal(g) ==
    /\ call[g].state = "sent"
    /\ g \in NoHistory \/ Truncated(g, call[g].pos)
    /\ Answered(g, [call[g] EXCEPT !.state = "fatal"])

\* The call fails, times out, or reaches a node that is not the leader.
AnswerRetry(g) ==
    /\ call[g].state = "sent"
    /\ Answered(g, [call[g] EXCEPT !.state = "retry"])

-----------------------------------------------------------------------------
(***************************************************************************)
(* A pull.                                                                 *)
(***************************************************************************)

IsFirst(g) == g \in todo /\ \A h \in todo : g <= h

\* next() is called, with any time left.
CallNext ==
    /\ pc = "idle"
    /\ pc' = "collect"
    /\ todo' = Group
    /\ clock' \in {"ample", "short", "past"}
    /\ UNCHANGED <<logVars, from, fetchVars, drained, clientVars, released>>

Collecting(g) == pc \in CollectPlace /\ IsFirst(g)

\* The call is over once it is taken.
Taken(g) ==
    /\ call' = [call EXCEPT ![g] = NoCall]
    /\ todo' = todo \ {g}

CollectNothing(g) ==
    /\ Collecting(g)
    /\ call[g].state \in {"none", "sent"}
    /\ todo' = todo \ {g}
    /\ UNCHANGED <<logVars, from, fetchVars, drained, clientVars, pc, clock,
                   released>>

\* kRetry: the client has scheduled the retry, either at once (a redirect it
\* follows) or after a backoff; the position has not moved.
CollectRetry(g) ==
    /\ Collecting(g)
    /\ call[g].state = "retry"
    /\ Taken(g)
    /\ \E d \in BOOLEAN : deferred' = [deferred EXCEPT ![g] = d]
    /\ UNCHANGED <<logVars, from, fetchVars, drained, notified, pc, clock,
                   released>>

\* ChangeStreamHistoryLost or CommandNotSupported is thrown.
CollectFatal(g) ==
    /\ Collecting(g)
    /\ call[g].state = "fatal"
    /\ Taken(g)
    /\ pc' = "failed"
    /\ UNCHANGED <<logVars, from, fetchVars, drained, deferred, notified,
                   clock, released>>

Larger(a, b) == IF a >= b THEN a ELSE b

\* The page's last timestamp, as a singleton; 0 when it has no record.
LastTs(P) ==
    IF P = {} THEN {0}
              ELSE {t \in {r.ts : r \in P} : \A r \in P : r.ts <= t}

\* Mutant: a cut page certifies its last timestamp.
ScannedAfterCutInside(s, c) ==
    IF c.more THEN {Larger(s, t) : t \in LastTs(c.recs)}
              ELSE {Larger(s, c.bound)}

\* Mutant: the boundary follows the answer, even downwards.
ScannedAfterNoMax(s, c) ==
    IF c.more THEN {t - 1 : t \in LastTs(c.recs)} ELSE {c.bound}

\* Mutant: an empty page proves nothing.
ScannedAfterIgnoresEmpty(s, c) ==
    IF c.recs = {} THEN {s}
    ELSE IF c.more THEN {Larger(s, t - 1) : t \in LastTs(c.recs)}
    ELSE {Larger(s, c.bound)}

\* The boundary after answer c, as a singleton: a page that was cut proves
\* only what lies below its last timestamp, an exhausted one the bound.
ScannedAfter(s, c) ==
    IF c.more THEN {Larger(s, t - 1) : t \in LastTs(c.recs)}
              ELSE {Larger(s, c.bound)}

\* _pauseIfIdleEarly: an empty exhausted page that leaves the bound where it
\* was is followed by a pause, unless the logger held the scan long enough.
IdlePauses(g, c) ==
    IF c.recs # {} \/ c.more \/ c.bound > arrival[g]
    THEN {deferred[g]}
    ELSE BOOLEAN

\* Mutant: the continuation is not stored.
NextPositionForgotten(g, c) == pos[g]

\* The next scan continues where the page ended.
NextPosition(g, c) == c.cont

\* kOk: _admit folds the page into its group.
CollectPage(g) ==
    LET c == call[g]
    IN  /\ Collecting(g)
        /\ c.state = "page"
        /\ Taken(g)
        /\ arrival' = [arrival EXCEPT ![g] = Larger(@, c.bound)]
        /\ pos' = [pos EXCEPT ![g] = NextPosition(g, c)]
        /\ \E s \in ScannedAfter(scannedTs[g], c) :
              scannedTs' = [scannedTs EXCEPT ![g] = s]
        /\ \/ /\ c.recs = {}
              /\ UNCHANGED <<pages, bufferedBytes>>
           \/ /\ c.recs # {}
              /\ \E n \in 1 .. MaxBytesPerScan :
                    /\ pages' = [pages EXCEPT ![g] =
                                    Append(@, [recs |-> c.recs, bytes |-> n])]
                    /\ bufferedBytes' = bufferedBytes + n
        /\ \E d \in IdlePauses(g, c) : deferred' = [deferred EXCEPT ![g] = d]
        /\ UNCHANGED <<logVars, from, drained, notified, pc, clock,
                       released>>

\* _head drops the pages at the front that have been released in full.
Exhausted(g) == pages[g] # <<>> /\ Head(pages[g]).recs = {}

DropExhausted(g) ==
    /\ pc \in CollectPlace
    /\ todo = {}
    /\ Exhausted(g)
    /\ pages' = [pages EXCEPT ![g] = Tail(@)]
    /\ bufferedBytes' = bufferedBytes - Head(pages[g]).bytes
    /\ UNCHANGED <<logVars, from, pos, arrival, scannedTs, drained, clientVars,
                   pullVars, released>>

Buffered(g) == UNION {pages[g][i].recs : i \in DOMAIN pages[g]}

\* Mutant: DDL goes first at one timestamp.
IsHeadDdlFirst(g, r) ==
    /\ pages[g] # <<>>
    /\ r \in Head(pages[g]).recs
    /\ \A s \in Head(pages[g]).recs :
          s = r \/ r.ts < s.ts \/ (r.ts = s.ts /\ r.stream = "ddl")

\* r is group g's head: the first record left in its first page.
IsHead(g, r) ==
    /\ pages[g] # <<>>
    /\ r \in Head(pages[g]).recs
    /\ \A s \in Head(pages[g]).recs : s = r \/ Before(r, s)

\* Mutant: the lowest group id wins, whatever the timestamps.
IsLowestById(g, r) ==
    \A h \in Group \ {g} : \A s \in Buffered(h) : g < h

\* No head is lower than r, group g's; a tie goes to the lower group id.
IsLowest(g, r) ==
    \A h \in Group \ {g} : \A s \in Buffered(h) :
        r.ts < s.ts \/ (r.ts = s.ts /\ g < h)

\* Mutant: off by one, a group may lag one timestamp more.
EmissionRuleOffByOne(g, ts) == \A h \in Group \ {g} : ~(scannedTs[h] + 2 < ts)

\* Every other group must have fetched everything below the timestamp.
EmissionRule(g, ts) == \A h \in Group \ {g} : ~(scannedTs[h] + 1 < ts)

Releasable(g, r) == IsHead(g, r) /\ IsLowest(g, r) /\ EmissionRule(g, r.ts)

Picking ==
    /\ pc \in CollectPlace
    /\ todo = {}
    /\ \A g \in Group : ~Exhausted(g)

\* _pickReleasable finds a record, and the pull returns it.
Release(g, r) ==
    /\ Picking
    /\ Releasable(g, r)
    /\ pages' = [pages EXCEPT ![g][1].recs = @ \ {r}]
    /\ released' = [released EXCEPT ![g] = @ \cup {r}]
    /\ drained' = FALSE
    /\ pc' = "idle"
    /\ clock' = "past"
    /\ UNCHANGED <<logVars, from, pos, arrival, scannedTs, bufferedBytes,
                   clientVars, todo>>

\* It finds none: scans go out on the first pass, and on a later one only if
\* enough time is left.
PickNone ==
    /\ Picking
    /\ \A g \in Group : \A r \in Buffered(g) : ~Releasable(g, r)
    /\ IF pc = "collect" \/ (pc = "again" /\ clock = "ample")
       THEN pc' = "issue" /\ todo' = Group
       ELSE pc' = "deadline" /\ todo' = {}
    /\ UNCHANGED <<logVars, from, fetchVars, drained, clientVars, clock,
                   released>>

InFlight == {g \in Group : call[g].state # "none"}

\* The group holds back some other group's lowest record.
Lagging(g) ==
    /\ \E h \in Group : Buffered(h) # {}
    /\ \A h \in Group : \A s \in Buffered(h) : scannedTs[g] + 1 < s.ts

\* Mutant: a group is scanned again as soon as its last scan is over.
ShouldScanWhileBuffered(g) == call[g].state = "none" /\ ~deferred[g]

\* Whether _issueScans scans the group.
ShouldScan(g) ==
    /\ call[g].state = "none"
    /\ ~deferred[g]
    /\ Buffered(g) = {} \/ Lagging(g)
    /\ \/ Lagging(g)
       \/ bufferedBytes + Cardinality(InFlight) * MaxBytesPerScan < BufferBytes

\* The calls are taken once more after the last group: a transport may have
\* completed one already.
IssueScan(g) ==
    /\ pc = "issue"
    /\ IsFirst(g)
    /\ call' = IF ShouldScan(g)
               THEN [call EXCEPT ![g].state = "sent", ![g].pos = pos[g]]
               ELSE call
    /\ IF todo = {g} THEN pc' = "recollect" /\ todo' = Group
                     ELSE pc' = "issue" /\ todo' = todo \ {g}
    /\ UNCHANGED <<logVars, from, fetchVars, drained, deferred, notified, clock,
                   released>>

\* The deadline has passed: the pull returns none, and the source is drained.
ReturnNone ==
    /\ pc = "deadline"
    /\ clock = "past"
    /\ drained' = TRUE
    /\ pc' = "idle"
    /\ UNCHANGED <<logVars, from, fetchVars, clientVars, todo, clock,
                   released>>

EnterWait ==
    /\ pc = "deadline"
    /\ clock # "past"
    /\ pc' = "wait"
    /\ UNCHANGED <<logVars, from, fetchVars, drained, clientVars, todo,
                   clock, released>>

\* waitUntil returns at a notification, taken or still to come, or at the
\* deadline; another pass begins.
Wake ==
    /\ pc = "wait"
    /\ notified \/ clock = "past"
    /\ notified' = FALSE
    /\ pc' = "again"
    /\ todo' = Group
    /\ UNCHANGED <<logVars, from, fetchVars, drained, call, deferred, clock,
                   released>>

-----------------------------------------------------------------------------
(***************************************************************************)
(* Time.                                                                   *)
(***************************************************************************)

\* The deadline comes closer while a pull runs.
Tick ==
    /\ pc \notin {"idle", "failed"}
    /\ \/ clock = "ample" /\ clock' = "short"
       \/ clock = "short" /\ clock' = "past"
    /\ UNCHANGED <<logVars, from, fetchVars, drained, clientVars, pc, todo,
                   released>>

\* A group's readyAt passes.  A pull that is waiting was armed to wake then;
\* one that has yet to compute _earliestDeferredReady was not.
BecomeReady(g) ==
    /\ deferred[g]
    /\ deferred' = [deferred EXCEPT ![g] = FALSE]
    /\ notified' = (notified \/ pc = "wait")
    /\ UNCHANGED <<logVars, from, fetchVars, drained, call, pullVars, released>>

LogStep(g) == (Arrive(g) \/ AdvanceBound(g) \/ Purge(g)) /\ UNCHANGED srcVars

Answer(g) ==
    \/ \E b \in 0 .. bound[g] : AnswerPage(g, b)
    \/ AnswerFatal(g)
    \/ AnswerRetry(g)

Collect(g) ==
    CollectNothing(g) \/ CollectRetry(g) \/ CollectFatal(g) \/ CollectPage(g)

PullStep ==
    \/ CallNext
    \/ \E g \in Group : Collect(g) \/ DropExhausted(g) \/ IssueScan(g)
    \/ \E g \in Group : \E r \in Buffered(g) : Release(g, r)
    \/ PickNone \/ ReturnNone \/ EnterWait \/ Wake

Next ==
    \/ \E g \in Group : LogStep(g) \/ Answer(g) \/ BecomeReady(g)
    \/ Tick
    \/ PullStep

Spec == Init /\ [][Next]_vars

\* The consumer keeps pulling and the server runs what it pulls; checkpoint
\* rounds complete; a call is not refused, lost or answered from an older
\* bound for ever.
Fairness ==
    /\ WF_vars(PullStep)
    /\ WF_vars(Tick)
    /\ \A g \in Group :
          /\ WF_vars(AdvanceBound(g) /\ UNCHANGED srcVars)
          /\ WF_vars(BecomeReady(g))
          /\ SF_vars(AnswerPage(g, bound[g]))

LiveSpec == Spec /\ Fairness

-----------------------------------------------------------------------------
(***************************************************************************)
(* Properties.                                                             *)
(***************************************************************************)

\* The records of group g that belong to the stream.
Wanted(g) == {r \in history[g] : r.ts >= from[g]}

\* Once a record at T has been released, every record of every group below
\* T has been released, those that had not arrived when the record at T was
\* released included: the emission rule of _pickReleasable never lets a
\* record overtake an older one.
NothingOlderFollows ==
    \A g, h \in Group : \A r \in released[g] : \A s \in Wanted(h) :
        s.ts < r.ts => s \in released[h]

\* Within one group records are released in the merged order of its two
\* streams, with none left out: what a resume token's pair of keys stands for.
GroupPrefix ==
    \A g \in Group : \A r \in released[g] : \A s \in Wanted(g) :
        Before(s, r) => s \in released[g]

\* Everything at or below emitBound(), the lowest boundary, is released.
BoundReleased ==
    \A g \in Group : \A r \in Wanted(g) :
        (\A h \in Group : r.ts <= scannedTs[h]) => r \in released[g]

\* When a pull has returned none, everything at or below emitBound() has been
\* released, whatever is still buffered: the source's word for a watermark.
EmitBoundCovers == pc = "idle" /\ drained => BoundReleased

\* A record is fetched once and released once: nothing that was released is
\* buffered, or on its way, again.
FetchedOnce ==
    \A g \in Group :
        /\ Buffered(g) \cap released[g] = {}
        /\ call[g].recs \cap (Buffered(g) \cup released[g]) = {}

\* A group never holds more than one page, nor asks for one while it holds
\* one, so that the cursor's memory is one page per group, whatever the lag
\* between the groups.
OnePagePerGroup ==
    \A g \in Group :
        /\ Len(pages[g]) <= 1
        /\ Buffered(g) # {} => call[g].state = "none"

\* The boundaries only move up.
ScannedTsMonotonic == [][\A g \in Group : scannedTs'[g] >= scannedTs[g]]_vars

\* Every record of the stream that reaches a group is released in the end:
\* neither the emission rule, nor the buffer cap, nor a backoff, nor a scan
\* left unissued stops the merge for good.
EveryRecordReleased ==
    \A g \in Group : \A r \in Record[g] :
        r \in Wanted(g) ~> r \in released[g]

-----------------------------------------------------------------------------
(***************************************************************************)
(* The inductive invariant behind them.                                    *)
(***************************************************************************)

Fetched(g) == Buffered(g) \cup released[g]
Unfetched(g) == Wanted(g) \ Fetched(g)

\* A group with a call out holds no page, and one page is all it ever holds.
\* By the time scans are issued no page is left that has been released in full.
PageInv ==
    \A g \in Group :
        /\ Len(pages[g]) <= 1
        /\ call[g].state # "none" => pages[g] = <<>>
        /\ pc = "issue" => ~Exhausted(g)

\* The fetch position splits the group's records into those fetched and those
\* that are not, also for the records that are still to arrive.
PositionInv(g, p) ==
    /\ \A s \in Stream :
          /\ from[g] <= p[s].ts
          /\ p[s].ts <= bound[g] \/ p[s] = FromTs(from[g])[s]
    /\ \A r \in Fetched(g) : ~After(p, r)
    /\ \A r \in Wanted(g) : After(p, r) => p["data"].ts <= r.ts

\* What has been fetched of a group is a prefix of its records in the merged
\* order, what has been released a prefix of that, and the boundary lies in
\* between: everything up to it is fetched, nothing beyond the next timestamp.
FetchOK(g) ==
    /\ Fetched(g) \subseteq Wanted(g)
    /\ PositionInv(g, pos[g])
    /\ \A r \in Unfetched(g) : After(pos[g], r) /\ scannedTs[g] < r.ts
    /\ \A r \in Fetched(g) : r.ts <= scannedTs[g] + 1 /\ r.ts <= bound[g]
    /\ \A r \in Fetched(g) : \A s \in Unfetched(g) : Before(r, s)
    /\ \A r \in released[g] : \A s \in Buffered(g) : s # r /\ Before(r, s)
    /\ scannedTs[g] <= bound[g] \/ scannedTs[g] = from[g] - 1

FetchInv == \A g \in Group : FetchOK(g)

\* A page on its way is the next part of what is not fetched.
AnswerOK(g, c) ==
    /\ c.state = "sent" => c.pos = pos[g]
    /\ c.state # "page" => c.recs = {}
    /\ c.state = "page" =>
         /\ c.recs \subseteq Unfetched(g)
         /\ PositionInv(g, c.cont)
         /\ \A r \in c.recs : ~After(c.cont, r) /\ r.ts <= c.bound
         /\ \A r \in Unfetched(g) \ c.recs :
               /\ After(c.cont, r)
               /\ c.more \/ c.bound < r.ts
               /\ \A q \in c.recs : Before(q, r)
         /\ c.more => c.recs # {}
         /\ c.bound <= bound[g]

AnswerInv == \A g \in Group : AnswerOK(g, call[g])

\* No record that is buffered, or still to be fetched, is older than one that
\* was released.
MergeInv ==
    \A g, h \in Group : \A r \in released[g] :
        /\ r.ts <= scannedTs[h] + 1
        /\ \A s \in Buffered(h) : r.ts <= s.ts

\* Once no record is releasable, and until the next pull fetches, everything
\* up to the lowest boundary has been released.
DrainInv == pc = "deadline" \/ (pc = "idle" /\ drained) => BoundReleased

IndInv == TypeOK /\ PageInv /\ FetchInv /\ AnswerInv /\ MergeInv /\ DrainInv

-----------------------------------------------------------------------------
(***************************************************************************)
(* The source keeps the promise that the event stream is built on.  Its    *)
(* drained flag counts between pulls only.                                 *)
(***************************************************************************)

Ordered == INSTANCE CdcOrderedSource WITH drained <- (drained /\ pc = "idle")

\* Every step of a pull, a log group or the network is a step of the ordered
\* source, or none at all.
ImplementsOrderedSource == Ordered!OrderedSpec

=============================================================================
