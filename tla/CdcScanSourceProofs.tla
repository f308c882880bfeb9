------------------------ MODULE CdcScanSourceProofs ------------------------
(***************************************************************************)
(* Proofs about CdcScanSource: its types, the inductive invariant, and     *)
(* what follows from it, the merge's safety properties and the refinement  *)
(* of CdcOrderedSource, for any number of groups, any records, bounds,     *)
(* page cuts and buffer sizes.                                             *)
(***************************************************************************)
EXTENDS CdcScanSource, SequenceTheorems, WellFoundedInduction, TLAPS

\* Every place and every type of the source is as declared.
LEMMA TypeInit == Init => TypeOK
<1> SUFFICES ASSUME Init PROVE TypeOK
  OBVIOUS
<1> USE GroupAssumption, BoundsAssumption, RecordAssumption, StartAssumption,
        SizeAssumption DEF Init
<1>1. LogTypeOK
  BY DEF LogTypeOK
<1>2. from \in [Group -> 1 .. MaxTs + 1]
  OBVIOUS
<1>3. pos \in [Group -> Position]
  BY <1>2 DEF Position, FromTs, Key
<1>4. scannedTs \in [Group -> 0 .. MaxTs]
  BY <1>2 DEF StartBoundary
<1>5. pages \in [Group -> Seq(RecordPage)]
  OBVIOUS
<1>6. call \in [Group -> Call]
  BY DEF NoCall, Call, CallState, Position, FromTs, Key
<1>7. arrival \in [Group -> 0 .. MaxTs] /\ bufferedBytes \in Int
  OBVIOUS
<1>8. drained \in BOOLEAN /\ deferred \in [Group -> BOOLEAN] /\ notified \in BOOLEAN
  BY Zenon
<1>9. pc = "idle" /\ todo = {} /\ clock = "past"
  OBVIOUS
<1>10. released \in [Group -> SUBSET RecordType]
  OBVIOUS
<1> QED
  BY ONLY <1>1, <1>2, <1>3, <1>4, <1>5, <1>6, <1>7, <1>8, <1>9, <1>10
     DEF TypeOK, CollectPlace

\* What a group's page queue looks like while it holds at most one page.
LEMMA OnePage ==
  ASSUME TypeOK, NEW g \in Group
  PROVE  /\ pages[g] \in Seq(RecordPage)
         /\ Buffered(g) \subseteq RecordType
         /\ pages[g] = <<>> => Buffered(g) = {}
         /\ pages[g] # <<>> =>
               /\ 1 \in 1 .. Len(pages[g])
               /\ Head(pages[g]) = pages[g][1]
               /\ pages[g][1] \in RecordPage
         /\ pages[g] # <<>> /\ Len(pages[g]) <= 1 =>
               Len(pages[g]) = 1 /\ Buffered(g) = pages[g][1].recs
<1>1. pages[g] \in Seq(RecordPage)
  BY DEF TypeOK
<1>2. /\ Len(pages[g]) \in Nat
      /\ DOMAIN pages[g] = 1 .. Len(pages[g])
      /\ \A i \in 1 .. Len(pages[g]) : pages[g][i] \in RecordPage
  BY <1>1, LenProperties, ElementOfSeq
<1>3. Buffered(g) \subseteq RecordType
  BY <1>2 DEF Buffered, RecordPage
<1>4. pages[g] = <<>> => Buffered(g) = {}
  BY DEF Buffered
<1>5. ASSUME pages[g] # <<>>
      PROVE  1 \in 1 .. Len(pages[g]) /\ Head(pages[g]) = pages[g][1]
  BY <1>1, <1>2, <1>5, EmptySeq
<1>6. ASSUME pages[g] # <<>>, Len(pages[g]) <= 1
      PROVE  Len(pages[g]) = 1 /\ Buffered(g) = pages[g][1].recs
  <2> DEFINE n == Len(pages[g])
  <2>0. n \in Nat /\ 1 \in 1 .. n /\ n <= 1
    BY <1>2, <1>5, <1>6
  <2>1. n = 1
    <3> HIDE DEF n
    <3> QED
      BY ONLY <2>0
  <2>2. DOMAIN pages[g] = {1}
    BY <1>2, <2>1
  <2>3. UNION {pages[g][i].recs : i \in {1}} = pages[g][1].recs
    OBVIOUS
  <2> QED
    BY ONLY <2>1, <2>2, <2>3 DEF Buffered
<1> QED
  BY <1>1, <1>2, <1>3, <1>4, <1>5, <1>6

\* Answers keep their types: the next position and boundary are well formed.
LEMMA ContinuationType ==
  ASSUME NEW p \in Position, NEW P \in SUBSET RecordType,
         NEW k \in Continuations(p, P)
  PROVE  k \in Position
<1> USE BoundsAssumption
<1>1. \A r \in RecordType : KeyOf(r) \in Key
  BY DEF RecordType, KeyOf, Key
<1>2. \A s \in Stream : LastKey(p, P, s) \subseteq Key
  BY <1>1 DEF LastKey, Position
<1> QED
  BY <1>2 DEF Continuations, Position, Stream

\* The boundary after an answer is a timestamp.
LEMMA ScannedAfterType ==
  ASSUME NEW s \in 0 .. MaxTs, NEW c \in Call, NEW t \in ScannedAfter(s, c)
  PROVE  t \in 0 .. MaxTs
  BY BoundsAssumption DEF ScannedAfter, Call, LastTs, Larger, RecordType

\* No step leaves the declared types.
LEMMA TypeStep == TypeOK /\ [Next]_vars => TypeOK'
<1> SUFFICES ASSUME TypeOK, [Next]_vars PROVE TypeOK'
  OBVIOUS
<1> USE GroupAssumption, BoundsAssumption, RecordAssumption, SizeAssumption
<1>1. ASSUME NEW g \in Group, LogStep(g) PROVE TypeOK'
  <2>1. LogTypeOK'
    <3>1. CASE Arrive(g)
      <4>1. PICK r \in Record[g] \ history[g] :
               history' = [history EXCEPT ![g] = @ \cup {r}]
        BY <3>1 DEF Arrive
      <4>2. r \in RecordType
        BY <4>1
      <4>3. history \in [Group -> SUBSET RecordType]
        BY DEF TypeOK, LogTypeOK
      <4>4. history[g] \cup {r} \in SUBSET RecordType
        BY <4>2, <4>3
      <4>5. history' \in [Group -> SUBSET RecordType]
        BY ONLY <4>1, <4>3, <4>4
      <4> QED
        BY <3>1, <4>5 DEF TypeOK, LogTypeOK, Arrive
    <3>2. CASE AdvanceBound(g)
      BY <3>2 DEF TypeOK, LogTypeOK, AdvanceBound
    <3>3. CASE Purge(g)
      BY <3>3 DEF TypeOK, LogTypeOK, Purge
    <3> QED
      BY <1>1, <3>1, <3>2, <3>3 DEF LogStep
  <2> QED
    BY <1>1, <2>1 DEF TypeOK, LogStep, srcVars, fetchVars, clientVars, pullVars
<1>2. ASSUME NEW g \in Group, Answer(g) PROVE TypeOK'
  <2>1. ASSUME NEW c \in Call, Answered(g, c) PROVE TypeOK'
    BY <2>1 DEF TypeOK, LogTypeOK, Answered, logVars, fetchVars, pullVars
  <2>2. call[g] \in Call
    BY DEF TypeOK
  <2>3. ASSUME NEW b \in 0 .. bound[g], AnswerPage(g, b) PROVE TypeOK'
    <3> DEFINE S == Available(g, call[g].pos, b)
    <3>1. PICK P \in Pages(S) : \E k \in Continuations(call[g].pos, P) :
              Answered(g, [call[g] EXCEPT !.state = "page", !.recs = P,
                                          !.more = (P # S), !.bound = b,
                                          !.cont = k])
      BY <2>3 DEF AnswerPage
    <3>2. PICK k \in Continuations(call[g].pos, P) :
              Answered(g, [call[g] EXCEPT !.state = "page", !.recs = P,
                                          !.more = (P # S), !.bound = b,
                                          !.cont = k])
      BY <3>1
    <3>3. P \in SUBSET RecordType
      BY DEF Pages, Available, TypeOK, LogTypeOK
    <3>4. k \in Position
      BY <2>2, <3>3, ContinuationType DEF Call
    <3>5. b \in 0 .. MaxTs
      <4>1. bound[g] \in 0 .. MaxTs
        BY DEF TypeOK, LogTypeOK
      <4> QED
        BY <4>1
    <3> QED
      BY <2>1, <2>2, <3>2, <3>3, <3>4, <3>5 DEF Call, CallState
  <2>4. ASSUME AnswerFatal(g) PROVE TypeOK'
    BY <2>1, <2>2, <2>4 DEF AnswerFatal, Call, CallState
  <2>5. ASSUME AnswerRetry(g) PROVE TypeOK'
    BY <2>1, <2>2, <2>5 DEF AnswerRetry, Call, CallState
  <2> QED
    BY <1>2, <2>3, <2>4, <2>5 DEF Answer
<1>3. ASSUME NEW g \in Group, BecomeReady(g) PROVE TypeOK'
  BY <1>3 DEF TypeOK, LogTypeOK, BecomeReady, logVars, fetchVars, pullVars
<1>4. CASE Tick
  BY <1>4 DEF TypeOK, LogTypeOK, Tick, logVars, fetchVars, clientVars
<1>5. CASE CallNext
  BY <1>5 DEF TypeOK, LogTypeOK, CallNext, logVars, fetchVars, clientVars,
     CollectPlace
<1>6. ASSUME NEW g \in Group, Collect(g) PROVE TypeOK'
  <2>1. NoCall \in Call
    BY DEF NoCall, Call, CallState, Position, FromTs, Key
  <2>2. CASE CollectNothing(g)
    BY <2>2 DEF TypeOK, LogTypeOK, CollectNothing, logVars, fetchVars, clientVars
  <2>3. CASE CollectRetry(g)
    BY <2>1, <2>3 DEF TypeOK, LogTypeOK, CollectRetry, Taken, logVars, fetchVars
  <2>4. CASE CollectFatal(g)
    BY <2>1, <2>4 DEF TypeOK, LogTypeOK, CollectFatal, Taken, logVars, fetchVars
  <2>5. CASE CollectPage(g)
    <3>1. call[g] \in Call
      BY DEF TypeOK
    <3>2. scannedTs' \in [Group -> 0 .. MaxTs]
      BY <2>5, <3>1, ScannedAfterType DEF TypeOK, CollectPage
    <3>3. arrival' \in [Group -> 0 .. MaxTs] /\ pos' \in [Group -> Position]
      BY <2>5, <3>1 DEF TypeOK, CollectPage, Call, Larger, NextPosition
    <3>4. pages' \in [Group -> Seq(RecordPage)] /\ bufferedBytes' \in Int
      <4>1. CASE call[g].recs = {}
        BY <2>5, <4>1 DEF TypeOK, CollectPage
      <4>2. CASE call[g].recs # {}
        <5>1. PICK n \in 1 .. MaxBytesPerScan :
                 /\ pages' = [pages EXCEPT ![g] =
                                 Append(@, [recs |-> call[g].recs, bytes |-> n])]
                 /\ bufferedBytes' = bufferedBytes + n
          BY <2>5, <4>2 DEF CollectPage
        <5>2. [recs |-> call[g].recs, bytes |-> n] \in RecordPage
          BY <3>1 DEF Call, RecordPage
        <5>3. Append(pages[g], [recs |-> call[g].recs, bytes |-> n])
                 \in Seq(RecordPage)
          BY <5>2, OnePage, AppendProperties
        <5> QED
          BY <5>1, <5>3 DEF TypeOK
      <4> QED
        BY <4>1, <4>2
    <3>5. call' \in [Group -> Call] /\ deferred' \in [Group -> BOOLEAN]
      BY <2>1, <2>5 DEF TypeOK, CollectPage, Taken, IdlePauses
    <3> QED
      BY <2>5, <3>2, <3>3, <3>4, <3>5 DEF TypeOK, LogTypeOK, CollectPage, Taken,
         logVars
  <2> QED
    BY <1>6, <2>2, <2>3, <2>4, <2>5 DEF Collect
<1>7. ASSUME NEW g \in Group, DropExhausted(g) PROVE TypeOK'
  <2>1. pages' \in [Group -> Seq(RecordPage)] /\ bufferedBytes' \in Int
    <3>1. pages[g] # <<>>
      BY <1>7 DEF DropExhausted, Exhausted
    <3>2. Tail(pages[g]) \in Seq(RecordPage) /\ Head(pages[g]) \in RecordPage
      BY <3>1, OnePage, HeadTailProperties
    <3>3. Head(pages[g]).bytes \in Int
      BY <3>2 DEF RecordPage
    <3>4. pages \in [Group -> Seq(RecordPage)] /\ bufferedBytes \in Int
      BY DEF TypeOK
    <3>5. /\ pages' = [pages EXCEPT ![g] = Tail(pages[g])]
          /\ bufferedBytes' = bufferedBytes - Head(pages[g]).bytes
      BY <1>7 DEF DropExhausted
    <3>6. pages' \in [Group -> Seq(RecordPage)]
      BY ONLY <3>2, <3>4, <3>5
    <3> QED
      BY ONLY <3>3, <3>4, <3>5, <3>6
  <2> QED
    BY <1>7, <2>1 DEF TypeOK, LogTypeOK, DropExhausted, logVars, clientVars, pullVars
<1>8. ASSUME NEW g \in Group, IssueScan(g) PROVE TypeOK'
  <2>1. call' \in [Group -> Call]
    <3>1. [call[g] EXCEPT !.state = "sent", !.pos = pos[g]] \in Call
      <4>1. call[g] \in Call /\ pos[g] \in Position
        BY DEF TypeOK
      <4> QED
        BY ONLY <4>1 DEF Call, CallState
    <3>2. call' = call \/ call' = [call EXCEPT ![g] =
                              [call[g] EXCEPT !.state = "sent", !.pos = pos[g]]]
      BY <1>8 DEF IssueScan, TypeOK
    <3> QED
      BY <3>1, <3>2 DEF TypeOK
  <2> QED
    BY <1>8, <2>1 DEF TypeOK, LogTypeOK, IssueScan, logVars, fetchVars, CollectPlace
<1>9. ASSUME NEW g \in Group, NEW r \in Buffered(g), Release(g, r) PROVE TypeOK'
  <2>1. pages' \in [Group -> Seq(RecordPage)]
    <3>1. pages[g] # <<>>
      BY <1>9 DEF Release, Releasable, IsHead
    <3>2. [pages[g][1] EXCEPT !.recs = @ \ {r}] \in RecordPage
      BY <3>1, OnePage DEF RecordPage
    <3>3. [pages[g] EXCEPT ![1] = [pages[g][1] EXCEPT !.recs = @ \ {r}]]
             \in Seq(RecordPage)
      BY <3>1, <3>2, OnePage, ExceptSeq
    <3> QED
      BY <1>9, <3>3 DEF TypeOK, Release
  <2>2. r \in RecordType
    BY OnePage
  <2> QED
    BY <1>9, <2>1, <2>2 DEF TypeOK, LogTypeOK, Release, logVars, clientVars
<1>10. CASE PickNone
  BY <1>10 DEF TypeOK, LogTypeOK, PickNone, logVars, fetchVars, clientVars
<1>11. CASE ReturnNone
  BY <1>11 DEF TypeOK, LogTypeOK, ReturnNone, logVars, fetchVars, clientVars
<1>12. CASE EnterWait
  BY <1>12 DEF TypeOK, LogTypeOK, EnterWait, logVars, fetchVars, clientVars
<1>13. CASE Wake
  BY <1>13 DEF TypeOK, LogTypeOK, Wake, logVars, fetchVars, CollectPlace
<1>14. CASE UNCHANGED vars
  BY <1>14 DEF TypeOK, LogTypeOK, vars, logVars, srcVars, fetchVars, clientVars,
     pullVars
<1> QED
  BY <1>1, <1>2, <1>3, <1>4, <1>5, <1>6, <1>7, <1>8, <1>9, <1>10, <1>11, <1>12,
     <1>13, <1>14 DEF Next, PullStep

\* The source's variables keep their types in every reachable state, for any
\* set of groups, records and bounds.
THEOREM TypeCorrect == Spec => []TypeOK
  BY TypeInit, TypeStep, PTL DEF Spec

-----------------------------------------------------------------------------
(***************************************************************************)
(* Orders.                                                                 *)
(***************************************************************************)

\* A set of natural numbers that is not empty has a least element.
LEMMA NatMin ==
  ASSUME NEW T \in SUBSET Nat, T # {}
  PROVE  \E n \in T : \A m \in T : n <= m
<1> DEFINE R == {ss \in Nat \X Nat : ss[1] < ss[2]}
<1>1. IsWellFoundedOn(R, Nat)
  BY NatLessThanWellFounded DEF OpToRel
<1>2. \E n \in T : \A m \in T : ~(<<m, n>> \in R)
  <2> HIDE DEF R
  <2> QED
    BY <1>1, WFMin
<1>3. \A n, m \in Nat : ~(<<m, n>> \in R) => n <= m
  OBVIOUS
<1> QED
  BY <1>2, <1>3

\* Two records of a group are ordered, by timestamp first.
LEMMA BeforeTotal ==
  ASSUME NEW r \in RecordType, NEW s \in RecordType
  PROVE  /\ r.ts \in 1 .. MaxTs
         /\ r = s \/ Before(r, s) \/ Before(s, r)
         /\ Before(r, s) => r.ts <= s.ts
         /\ ~Before(r, s) => s.ts <= r.ts
         /\ r.ts < s.ts => Before(r, s)
         /\ Before(r, s) => r # s /\ ~Before(s, r)
         /\ Before(r, s) /\ r.stream = s.stream => KeyLess(KeyOf(r), KeyOf(s))
<1> USE BoundsAssumption
<1>1. /\ r = [ts |-> r.ts, stream |-> r.stream, key |-> r.key]
      /\ s = [ts |-> s.ts, stream |-> s.stream, key |-> s.key]
      /\ r.ts \in 1 .. MaxTs /\ s.ts \in 1 .. MaxTs
      /\ r.key \in Nat /\ s.key \in Nat
      /\ r.stream \in {"data", "ddl"} /\ s.stream \in {"data", "ddl"}
  BY DEF RecordType, Stream
<1> QED
  BY <1>1 DEF Before, KeyLess, KeyOf

\* Storage keys are strictly ordered.
LEMMA KeyOrder ==
  ASSUME NEW a \in Key, NEW b \in Key, NEW c \in Key
  PROVE  /\ ~KeyLess(a, a)
         /\ KeyLess(a, b) => ~KeyLess(b, a)
         /\ KeyLess(a, b) /\ KeyLess(b, c) => KeyLess(a, c)
         /\ ~KeyLess(a, b) /\ KeyLess(a, c) => KeyLess(b, c)
  BY BoundsAssumption DEF Key, KeyLess

\* The continuation after page P of a scan from p lies above the page's records
\* and not below p, and each of its keys is p's or that of a record of the page.
LEMMA ContinuationFacts ==
  ASSUME NEW p \in Position, NEW P \in SUBSET RecordType,
         \A r \in P : After(p, r),
         NEW k \in Continuations(p, P)
  PROVE  /\ k \in Position
         /\ \A s \in Stream :
              \/ k[s] = p[s]
              \/ \E q \in P : q.stream = s /\ k[s] = KeyOf(q)
         /\ \A r \in P : ~After(k, r)
         /\ \A r \in RecordType : After(k, r) => After(p, r)
<1> USE BoundsAssumption
<1>1. k \in Position
  BY ContinuationType
<1>2. /\ k["data"] \in LastKey(p, P, "data")
      /\ k["ddl"] \in LastKey(p, P, "ddl")
  BY DEF Continuations, Stream
<1>3. \A s \in Stream : k[s] \in LastKey(p, P, s)
  BY <1>2 DEF Stream
<1>4. \A s \in Stream : \/ k[s] = p[s]
                        \/ \E q \in P : q.stream = s /\ k[s] = KeyOf(q)
  BY <1>3 DEF LastKey
<1>5. \A r \in P : ~After(k, r)
  <2> SUFFICES ASSUME NEW r \in P PROVE ~KeyLess(k[r.stream], KeyOf(r))
    BY DEF After
  <2>1. r.stream \in Stream
    BY DEF RecordType
  <2>2. KeyOf(r) \in {KeyOf(q) : q \in {q \in P : q.stream = r.stream}}
    OBVIOUS
  <2> QED
    BY <1>3, <2>1, <2>2 DEF LastKey
<1>6. ASSUME NEW r \in RecordType, After(k, r) PROVE After(p, r)
  <2>1. r.stream \in Stream /\ KeyOf(r) \in Key
    BY DEF RecordType, KeyOf, Key
  <2>2. CASE k[r.stream] = p[r.stream]
    BY <1>6, <2>2 DEF After
  <2>3. ASSUME NEW q \in P, q.stream = r.stream, k[r.stream] = KeyOf(q)
        PROVE  After(p, r)
    <3>1. KeyLess(p[r.stream], KeyOf(q)) /\ KeyLess(KeyOf(q), KeyOf(r))
      BY <1>6, <2>3 DEF After
    <3>2. KeyOf(q) \in Key /\ p[r.stream] \in Key
      BY <2>1 DEF RecordType, KeyOf, Key, Position
    <3> QED
      BY <2>1, <3>1, <3>2, KeyOrder DEF After
  <2> QED
    BY <1>4, <2>1, <2>2, <2>3
<1> QED
  BY <1>1, <1>4, <1>5, <1>6

-----------------------------------------------------------------------------
(***************************************************************************)
(* Answers.                                                                *)
(***************************************************************************)

\* What the types say of one group.
LEMMA GroupTypes ==
  ASSUME TypeOK, NEW g \in Group
  PROVE  /\ history[g] \subseteq RecordType /\ released[g] \subseteq RecordType
         /\ Buffered(g) \subseteq RecordType /\ Wanted(g) \subseteq RecordType
         /\ Fetched(g) \subseteq RecordType /\ Unfetched(g) \subseteq Wanted(g)
         /\ bound[g] \in 0 .. MaxTs /\ scannedTs[g] \in 0 .. MaxTs
         /\ from[g] \in 1 .. MaxTs + 1 /\ floor[g] \in Nat
         /\ pos[g] \in Position /\ call[g] \in Call
<1>1. Buffered(g) \subseteq RecordType
  BY OnePage
<1> QED
  BY <1>1, BoundsAssumption DEF TypeOK, LogTypeOK, Wanted, Fetched, Unfetched

\* A scan from the group's position, if it is not truncated, finds exactly the
\* records that are not fetched yet, up to the bound it was given.
LEMMA AvailableIsUnfetched ==
  ASSUME TypeOK, FetchInv, NEW g \in Group, NEW b \in Int,
         ~Truncated(g, pos[g])
  PROVE  Available(g, pos[g], b) = {r \in Unfetched(g) : r.ts <= b}
<1> USE GroupTypes, BoundsAssumption
<1> DEFINE p == pos[g]
<1>1. PositionInv(g, p) /\ \A r \in Unfetched(g) : After(p, r)
  BY DEF FetchInv, FetchOK
<1>2. ASSUME NEW r \in Unfetched(g) PROVE r \in history[g] /\ r.ts > floor[g]
  <2>1. r \in Wanted(g) /\ After(p, r)
    BY <1>1 DEF Unfetched
  <2>2. p["data"].ts <= r.ts
    BY <1>1, <2>1 DEF PositionInv
  <2>3. r.ts \in 1 .. MaxTs /\ p["data"].ts \in Int
    BY <2>1, BeforeTotal DEF Position, Key, Stream
  <2> QED
    BY <2>1, <2>2, <2>3 DEF Truncated, Wanted
<1>3. ASSUME NEW r \in history[g], After(p, r) PROVE r \in Unfetched(g)
  <2>1. r \in RecordType /\ r.stream \in Stream
    BY DEF RecordType
  <2>2. p[r.stream].ts <= r.ts
    BY <1>3, <2>1 DEF After, KeyLess, KeyOf, Position, Key, RecordType
  <2>3. from[g] <= p[r.stream].ts
    BY <1>1, <2>1 DEF PositionInv
  <2>4. r.ts >= from[g]
    BY <2>1, <2>2, <2>3 DEF Position, Key, RecordType
  <2>5. r \notin Fetched(g)
    BY <1>1, <1>3 DEF PositionInv
  <2> QED
    BY <2>4, <2>5 DEF Unfetched, Wanted
<1> QED
  BY <1>1, <1>2, <1>3 DEF Available

\* So a page is the next part of what is not fetched, and its continuation the
\* position after it.
LEMMA PageIsNext ==
  ASSUME TypeOK, FetchInv, NEW g \in Group, NEW b \in 0 .. bound[g],
         ~Truncated(g, pos[g]),
         NEW P \in Pages(Available(g, pos[g], b)),
         NEW k \in Continuations(pos[g], P)
  PROVE  /\ P \subseteq Unfetched(g)
         /\ PositionInv(g, k)
         /\ \A r \in P : ~After(k, r) /\ r.ts <= b
         /\ \A r \in Unfetched(g) \ P :
              /\ After(k, r)
              /\ P # Available(g, pos[g], b) \/ b < r.ts
              /\ \A q \in P : Before(q, r)
         /\ P # Available(g, pos[g], b) => P # {}
<1> USE GroupTypes, BoundsAssumption
<1> DEFINE p == pos[g]
           S == Available(g, p, b)
<1>1. S = {r \in Unfetched(g) : r.ts <= b}
  BY AvailableIsUnfetched
<1>2. /\ P \subseteq S
      /\ P = {} => S = {}
      /\ \A r \in P : \A s \in S : Before(s, r) => s \in P
  BY DEF Pages
<1> HIDE DEF S
<1>3. P \subseteq Unfetched(g) /\ \A r \in P : r.ts <= b
  BY <1>1, <1>2
<1>4. Unfetched(g) \subseteq RecordType /\ P \subseteq RecordType
  BY <1>3
<1>5. PositionInv(g, p) /\ \A r \in Unfetched(g) : After(p, r)
  BY DEF FetchInv, FetchOK
<1>6. /\ k \in Position
      /\ \A s \in Stream : \/ k[s] = p[s]
                           \/ \E q \in P : q.stream = s /\ k[s] = KeyOf(q)
      /\ \A r \in P : ~After(k, r)
      /\ \A r \in RecordType : After(k, r) => After(p, r)
  BY <1>3, <1>4, <1>5, ContinuationFacts
<1>7. ASSUME NEW r \in Unfetched(g) \ P, NEW q \in P PROVE Before(q, r)
  <2>1. r \in RecordType /\ q \in RecordType /\ r # q
    BY <1>4
  <2>2. CASE r.ts <= b
    BY <1>1, <1>2, <2>1, <2>2, BeforeTotal
  <2>3. CASE ~(r.ts <= b)
    <3>1. q.ts < r.ts
      BY <1>3, <2>1, <2>3, BeforeTotal
    <3> QED
      BY <2>1, <3>1, BeforeTotal
  <2> QED
    BY <2>2, <2>3
<1>8. ASSUME NEW r \in Unfetched(g) \ P PROVE After(k, r)
  <2>1. r \in RecordType /\ r.stream \in Stream /\ After(p, r)
    BY <1>4, <1>5 DEF RecordType
  <2>2. ASSUME NEW q \in P, q.stream = r.stream, k[r.stream] = KeyOf(q)
        PROVE  After(k, r)
    BY <1>4, <1>7, <2>1, <2>2, BeforeTotal DEF After
  <2> QED
    BY <1>6, <2>1, <2>2 DEF After
<1>9. ASSUME NEW r \in Unfetched(g) \ P PROVE P # S \/ b < r.ts
  <2>1. r.ts \in Int
    BY <1>4, BeforeTotal
  <2> QED
    BY <1>1, <2>1
<1>10. PositionInv(g, k)
  <2>1. ASSUME NEW s \in Stream
        PROVE  /\ from[g] <= k[s].ts
               /\ k[s].ts <= bound[g] \/ k[s] = FromTs(from[g])[s]
    <3>1. CASE k[s] = p[s]
      BY <1>5, <3>1 DEF PositionInv
    <3>2. ASSUME NEW q \in P, k[s] = KeyOf(q)
          PROVE  from[g] <= k[s].ts /\ k[s].ts <= bound[g]
      <4>1. q.ts >= from[g] /\ q.ts <= b /\ q.ts \in Int
        BY <1>3, <1>4, BeforeTotal DEF Wanted
      <4> QED
        BY <3>2, <4>1 DEF KeyOf
    <3> QED
      BY <1>6, <3>1, <3>2
  <2>2. \A r \in Fetched(g) : ~After(k, r)
    BY <1>5, <1>6 DEF PositionInv
  <2>3. ASSUME NEW r \in Wanted(g), After(k, r) PROVE k["data"].ts <= r.ts
    <3>1. r \in RecordType /\ After(p, r)
      BY <1>6, <2>3
    <3>2. CASE k["data"] = p["data"]
      BY <1>5, <3>1, <3>2 DEF PositionInv
    <3>3. ASSUME NEW q \in P, k["data"] = KeyOf(q) PROVE k["data"].ts <= r.ts
      <4>1. r \in Unfetched(g) \ P
        BY <1>6, <2>2, <2>3 DEF Unfetched
      <4>2. q.ts <= r.ts
        BY <1>4, <1>7, <3>1, <4>1, BeforeTotal
      <4> QED
        BY <3>3, <4>2 DEF KeyOf
    <3> QED
      BY <1>6, <3>2, <3>3 DEF Stream
  <2> QED
    BY <2>1, <2>2, <2>3 DEF PositionInv
<1>11. P # S => P # {}
  BY <1>2
<1> QED
  BY <1>3, <1>6, <1>7, <1>8, <1>9, <1>10, <1>11 DEF S

-----------------------------------------------------------------------------
(***************************************************************************)
(* Frames: what a step that leaves a group alone preserves.                *)
(***************************************************************************)

\* A group's sets of records depend on these variables alone.
LEMMA SetsFrame ==
  ASSUME NEW g \in Group, history'[g] = history[g], from'[g] = from[g],
         pages'[g] = pages[g], released'[g] = released[g]
  PROVE  /\ Buffered(g)' = Buffered(g) /\ Wanted(g)' = Wanted(g)
         /\ Fetched(g)' = Fetched(g) /\ Unfetched(g)' = Unfetched(g)
<1>1. Buffered(g)' = Buffered(g)
  BY DEF Buffered
<1>2. Wanted(g)' = Wanted(g)
  BY DEF Wanted
<1> QED
  BY <1>1, <1>2 DEF Fetched, Unfetched

\* A position stays good while the group's records and bound do.
LEMMA PositionFrame ==
  ASSUME NEW g \in Group, NEW p, PositionInv(g, p),
         Fetched(g)' = Fetched(g), Wanted(g)' = Wanted(g),
         bound'[g] = bound[g], from'[g] = from[g]
  PROVE  PositionInv(g, p)'
  BY DEF PositionInv

\* FetchOK survives a step that leaves the group alone.
LEMMA FetchFrame ==
  ASSUME NEW g \in Group, FetchOK(g),
         history'[g] = history[g], bound'[g] = bound[g], from'[g] = from[g],
         pos'[g] = pos[g], scannedTs'[g] = scannedTs[g], pages'[g] = pages[g],
         released'[g] = released[g]
  PROVE  FetchOK(g)'
<1>1. /\ Buffered(g)' = Buffered(g) /\ Wanted(g)' = Wanted(g)
      /\ Fetched(g)' = Fetched(g) /\ Unfetched(g)' = Unfetched(g)
  BY SetsFrame
<1>2. PositionInv(g, pos[g])'
  BY <1>1, PositionFrame DEF FetchOK
<1> QED
  BY <1>1, <1>2 DEF FetchOK

\* AnswerOK survives a step that leaves the group and its call alone.
LEMMA AnswerFrame ==
  ASSUME NEW g \in Group, AnswerOK(g, call[g]), call'[g] = call[g],
         history'[g] = history[g], bound'[g] = bound[g], from'[g] = from[g],
         pos'[g] = pos[g], pages'[g] = pages[g], released'[g] = released[g]
  PROVE  AnswerOK(g, call[g])'
<1>1. /\ Buffered(g)' = Buffered(g) /\ Wanted(g)' = Wanted(g)
      /\ Fetched(g)' = Fetched(g) /\ Unfetched(g)' = Unfetched(g)
  BY SetsFrame
<1>2. PositionInv(g, call[g].cont) => PositionInv(g, call[g].cont)'
  BY <1>1, PositionFrame
<1> QED
  BY <1>1, <1>2 DEF AnswerOK

\* A call without a page says nothing about the group's records.
LEMMA NoPage ==
  ASSUME NEW g \in Group, call'[g].state \in {"none", "retry", "fatal"},
         call'[g].recs = {}
  PROVE  AnswerOK(g, call[g])'
  BY DEF AnswerOK

\* A step that moves no record and no position, and only ends calls or turns
\* them into failures.
LEMMA QuietStep ==
  ASSUME IndInv, TypeOK',
         UNCHANGED <<history, bound, from, pos, scannedTs, pages, released>>,
         \A g \in Group :
            \/ call'[g] = call[g]
            \/ /\ call'[g].state \in {"none", "retry", "fatal"}
               /\ call'[g].recs = {}
               /\ call'[g].state = "none" \/ call[g].state # "none",
         pc' = "issue" => pc = "issue" \/ \A g \in Group : ~Exhausted(g),
         pc' = "deadline" \/ (pc' = "idle" /\ drained') =>
            pc = "deadline" \/ (pc = "idle" /\ drained) \/ BoundReleased
  PROVE  IndInv'
<1>1. \A g \in Group : FetchOK(g)'
  BY FetchFrame DEF IndInv, FetchInv
<1>2. \A g \in Group : AnswerOK(g, call[g])'
  BY AnswerFrame, NoPage DEF IndInv, AnswerInv
<1>3. \A g \in Group : Buffered(g)' = Buffered(g) /\ Wanted(g)' = Wanted(g)
  BY SetsFrame
<1>4. PageInv'
  BY DEF IndInv, PageInv, Exhausted
<1>5. MergeInv'
  BY <1>3 DEF IndInv, MergeInv
<1>6. DrainInv'
  BY <1>3 DEF IndInv, DrainInv, BoundReleased
<1> QED
  BY <1>1, <1>2, <1>4, <1>5, <1>6 DEF IndInv, FetchInv, AnswerInv

-----------------------------------------------------------------------------
(***************************************************************************)
(* The inductive invariant holds initially, and every action keeps it.     *)
(***************************************************************************)

\* A stream that has just been started has fetched nothing, and all it wants lies
\* after its positions.
LEMMA IndInit == Init => IndInv
<1> SUFFICES ASSUME Init PROVE IndInv
  OBVIOUS
<1> USE BoundsAssumption
<1>1. TypeOK
  BY TypeInit
<1> USE GroupTypes, <1>1
<1>2. ASSUME NEW g \in Group
      PROVE  /\ Buffered(g) = {} /\ released[g] = {} /\ pages[g] = <<>>
             /\ Len(pages[g]) = 0
             /\ Fetched(g) = {} /\ Unfetched(g) = Wanted(g)
             /\ call[g].state = "none" /\ call[g].recs = {}
             /\ pos[g] = FromTs(from[g]) /\ scannedTs[g] = from[g] - 1
  BY DEF Init, Buffered, Fetched, Unfetched, NoCall, StartBoundary
<1>3. ASSUME NEW g \in Group PROVE FetchOK(g)
  <2>1. ASSUME NEW r \in Wanted(g)
        PROVE  /\ After(FromTs(from[g]), r)
               /\ FromTs(from[g])["data"].ts <= r.ts
               /\ scannedTs[g] < r.ts
    <3>1. r \in RecordType /\ r.ts >= from[g]
      BY DEF Wanted
    <3> QED
      BY <1>2, <3>1 DEF After, FromTs, KeyLess, KeyOf, RecordType, Stream
  <2>2. PositionInv(g, FromTs(from[g]))
    BY <1>2, <2>1 DEF PositionInv, FromTs, Stream
  <2> QED
    BY <1>2, <2>1, <2>2 DEF FetchOK
<1>4. PageInv /\ AnswerInv /\ MergeInv
  BY <1>2 DEF PageInv, Exhausted, AnswerInv, AnswerOK, MergeInv
<1>5. DrainInv
  BY DEF Init, DrainInv
<1> QED
  BY <1>1, <1>3, <1>4, <1>5 DEF IndInv, FetchInv

\* A position never lies above a record that is still to arrive.
LEMMA PositionBelowArrival ==
  ASSUME TypeOK, NEW g \in Group, NEW p \in Position, PositionInv(g, p),
         NEW r \in RecordType, r.ts > bound[g], r.ts >= from[g]
  PROVE  After(p, r) /\ p["data"].ts <= r.ts
<1>1. /\ r.stream \in Stream /\ r.ts \in Int /\ r.key \in Nat
      /\ bound[g] \in Int /\ from[g] \in Int
  BY GroupTypes, BoundsAssumption DEF RecordType
<1>2. \A s \in Stream : p[s].ts \in Int
  BY BoundsAssumption DEF Position, Key
<1>3. \A s \in Stream : p[s].ts < r.ts \/ (p[s].ts <= r.ts /\ p[s].key = -1)
  BY <1>1, <1>2 DEF PositionInv, FromTs
<1> QED
  BY <1>1, <1>2, <1>3 DEF After, KeyLess, KeyOf, Stream

\* A record that arrives is beyond everything fetched, and beyond every page
\* that is on its way.
LEMMA ArriveStep ==
  ASSUME IndInv, TypeOK', NEW g \in Group, Arrive(g), UNCHANGED srcVars
  PROVE  IndInv'
<1> USE GroupTypes, BoundsAssumption
<1>1. TypeOK /\ PageInv /\ FetchInv /\ AnswerInv /\ MergeInv /\ DrainInv
  BY DEF IndInv
<1>2. PICK r \in Record[g] : /\ r.ts > bound[g]
                             /\ history' = [history EXCEPT ![g] = @ \cup {r}]
  BY DEF Arrive
<1>3. r \in RecordType
  BY RecordAssumption
<1>4. /\ bound' = bound /\ from' = from /\ pos' = pos
      /\ scannedTs' = scannedTs /\ pages' = pages /\ released' = released
      /\ call' = call /\ pc' = pc /\ drained' = drained
  BY DEF Arrive, srcVars, fetchVars, clientVars, pullVars
<1>5. ASSUME NEW h \in Group, h # g
      PROVE  /\ history'[h] = history[h] /\ Wanted(h)' = Wanted(h)
             /\ FetchOK(h)' /\ AnswerOK(h, call[h])'
  <2>1. history'[h] = history[h]
    BY <1>1, <1>2, <1>5 DEF TypeOK, LogTypeOK
  <2> QED
    BY <1>1, <1>4, <2>1, SetsFrame, FetchFrame, AnswerFrame DEF FetchInv, AnswerInv
<1>6. \A h \in Group : Buffered(h)' = Buffered(h) /\ Fetched(h)' = Fetched(h)
  BY <1>4 DEF Buffered, Fetched
<1>7. /\ history'[g] = history[g] \cup {r}
      /\ Wanted(g) \subseteq Wanted(g)'
      /\ \A s \in Wanted(g)' : s \in Wanted(g) \/ (s = r /\ r.ts >= from[g])
  <2>1. history'[g] = history[g] \cup {r}
    BY <1>1, <1>2 DEF TypeOK, LogTypeOK
  <2> QED
    BY <1>4, <2>1 DEF Wanted
<1>8. \A s \in Unfetched(g)' : s \in Unfetched(g) \/ (s = r /\ r.ts >= from[g])
  BY <1>6, <1>7 DEF Unfetched
<1>9. ASSUME NEW p \in Position, PositionInv(g, p) PROVE PositionInv(g, p)'
  <2>1. \A s \in Wanted(g)' : After(p, s) => p["data"].ts <= s.ts
    BY <1>1, <1>2, <1>3, <1>7, <1>9, PositionBelowArrival DEF PositionInv
  <2> QED
    BY <1>4, <1>6, <1>9, <2>1 DEF PositionInv
<1>10. FetchOK(g)'
  <2>1. FetchOK(g)
    BY <1>1 DEF FetchInv
  <2>2. PositionInv(g, pos[g])'
    BY <1>1, <1>4, <1>9, <2>1 DEF FetchOK
  <2>3. ASSUME r.ts >= from[g]
        PROVE  /\ After(pos[g], r) /\ scannedTs[g] < r.ts
               /\ \A q \in Fetched(g) : Before(q, r)
    <3>1. After(pos[g], r)
      BY <1>1, <1>2, <1>3, <2>1, <2>3, PositionBelowArrival DEF FetchOK
    <3>2. scannedTs[g] < r.ts
      BY <1>1, <1>2, <1>3, <2>1, <2>3, BeforeTotal DEF FetchOK
    <3>3. ASSUME NEW q \in Fetched(g) PROVE Before(q, r)
      <4>1. q \in RecordType /\ q.ts <= bound[g]
        BY <1>1, <2>1 DEF FetchOK
      <4> QED
        BY <1>1, <1>2, <1>3, <4>1, BeforeTotal
    <3> QED
      BY <3>1, <3>2, <3>3
  <2> QED
    BY <1>4, <1>6, <1>7, <1>8, <2>1, <2>2, <2>3 DEF FetchOK
<1>11. AnswerOK(g, call[g])'
  <2> DEFINE c == call[g]
  <2>1. AnswerOK(g, c) /\ call'[g] = c /\ c.cont \in Position
    BY <1>1, <1>4 DEF AnswerInv, Call
  <2>2. CASE c.state # "page"
    BY <1>4, <2>1, <2>2 DEF AnswerOK
  <2>3. CASE c.state = "page"
    <3>1. PositionInv(g, c.cont)'
      BY <1>4, <1>9, <2>1, <2>3 DEF AnswerOK
    <3>2. c.recs \subseteq Unfetched(g)'
      BY <1>6, <1>7, <2>1, <2>3 DEF AnswerOK, Unfetched
    <3>3. ASSUME r.ts >= from[g]
          PROVE  /\ After(c.cont, r)
                 /\ c.bound < r.ts
                 /\ \A q \in c.recs : Before(q, r)
      <4>1. After(c.cont, r)
        BY <1>1, <1>2, <1>3, <2>1, <2>3, <3>3, PositionBelowArrival DEF AnswerOK
      <4>2. c.bound <= bound[g] /\ c.bound \in Int
        BY <1>1, <2>1, <2>3 DEF AnswerOK, Call
      <4>3. c.bound < r.ts
        BY <1>1, <1>2, <1>3, <4>2, BeforeTotal
      <4>4. ASSUME NEW q \in c.recs PROVE Before(q, r)
        <5>1. q \in RecordType /\ q.ts <= c.bound
          BY <1>1, <2>1, <2>3 DEF AnswerOK
        <5> QED
          BY <1>3, <4>2, <4>3, <5>1, BeforeTotal
      <4> QED
        BY <4>1, <4>3, <4>4
    <3> QED
      BY <1>4, <1>8, <2>1, <2>3, <3>1, <3>2, <3>3 DEF AnswerOK
  <2> QED
    BY <2>2, <2>3
<1>12. MergeInv' /\ PageInv'
  BY <1>1, <1>4, <1>6 DEF MergeInv, PageInv, Exhausted
<1>13. DrainInv'
  <2>1. ASSUME r.ts >= from[g] PROVE ~(r.ts <= scannedTs[g])
    BY <1>1, <1>2, <1>3, <2>1, BeforeTotal DEF FetchInv, FetchOK
  <2> QED
    BY <1>1, <1>4, <1>5, <1>7, <2>1 DEF DrainInv, BoundReleased
<1> QED
  BY <1>5, <1>10, <1>11, <1>12, <1>13 DEF IndInv, FetchInv, AnswerInv

\* A bound that moves up relaxes what the invariant asks of the group.
LEMMA AdvanceStep ==
  ASSUME IndInv, TypeOK', NEW g \in Group, AdvanceBound(g), UNCHANGED srcVars
  PROVE  IndInv'
<1> USE GroupTypes, BoundsAssumption
<1>1. TypeOK /\ PageInv /\ FetchInv /\ AnswerInv /\ MergeInv /\ DrainInv
  BY DEF IndInv
<1>2. /\ history' = history /\ from' = from /\ pos' = pos
      /\ scannedTs' = scannedTs /\ pages' = pages /\ released' = released
      /\ call' = call /\ pc' = pc /\ drained' = drained
  BY DEF AdvanceBound, srcVars, fetchVars, clientVars, pullVars
<1>3. \A h \in Group : bound'[h] \in Int /\ bound[h] <= bound'[h]
  <2>1. PICK b \in (bound[g] + 1) .. MaxTs : bound' = [bound EXCEPT ![g] = b]
    BY DEF AdvanceBound
  <2>2. bound \in [Group -> 0 .. MaxTs]
    BY <1>1 DEF TypeOK, LogTypeOK
  <2> QED
    BY <2>1, <2>2
<1>4. \A h \in Group :
         /\ Buffered(h)' = Buffered(h) /\ Wanted(h)' = Wanted(h)
         /\ Fetched(h)' = Fetched(h) /\ Unfetched(h)' = Unfetched(h)
  BY <1>2, SetsFrame
<1>5. ASSUME NEW h \in Group, NEW p \in Position, PositionInv(h, p)
      PROVE  PositionInv(h, p)'
  <2>1. \A s \in Stream : p[s].ts \in Int
    BY DEF Position, Key
  <2> QED
    BY <1>1, <1>2, <1>3, <1>4, <1>5, <2>1 DEF PositionInv
<1>6. ASSUME NEW h \in Group PROVE FetchOK(h)'
  <2>1. FetchOK(h)
    BY <1>1 DEF FetchInv
  <2>2. PositionInv(h, pos[h])'
    BY <1>1, <1>2, <1>5, <2>1 DEF FetchOK
  <2>3. \A r \in Fetched(h) : r.ts \in Int
    BY <1>1, BeforeTotal
  <2> QED
    BY <1>1, <1>2, <1>3, <1>4, <2>1, <2>2, <2>3 DEF FetchOK
<1>7. ASSUME NEW h \in Group PROVE AnswerOK(h, call[h])'
  <2>1. AnswerOK(h, call[h]) /\ call[h].cont \in Position /\ call[h].bound \in Int
    BY <1>1 DEF AnswerInv, Call
  <2>2. PositionInv(h, call[h].cont) => PositionInv(h, call[h].cont)'
    BY <1>2, <1>5, <2>1
  <2> QED
    BY <1>1, <1>2, <1>3, <1>4, <2>1, <2>2 DEF AnswerOK
<1>8. MergeInv' /\ PageInv' /\ DrainInv'
  BY <1>1, <1>2, <1>4 DEF MergeInv, PageInv, Exhausted, DrainInv, BoundReleased
<1> QED
  BY <1>6, <1>7, <1>8 DEF IndInv, FetchInv, AnswerInv

\* A page is the next part of what its group has not fetched.
LEMMA AnswerPageStep ==
  ASSUME IndInv, TypeOK', NEW g \in Group, NEW b \in 0 .. bound[g],
         AnswerPage(g, b)
  PROVE  IndInv'
<1> USE GroupTypes, BoundsAssumption
<1>1. TypeOK /\ PageInv /\ FetchInv /\ AnswerInv /\ MergeInv /\ DrainInv
  BY DEF IndInv
<1>2. call[g].state = "sent" /\ ~Truncated(g, call[g].pos)
  BY DEF AnswerPage
<1>3. call[g].pos = pos[g]
  BY <1>1, <1>2 DEF AnswerInv, AnswerOK
<1> DEFINE S == Available(g, pos[g], b)
<1> DEFINE PageCall(P, k) == [call[g] EXCEPT !.state = "page", !.recs = P,
                                 !.more = (P # S), !.bound = b, !.cont = k]
<1>P. PICK P \in Pages(S) :
           \E k \in Continuations(pos[g], P) : Answered(g, PageCall(P, k))
  BY <1>3 DEF AnswerPage
<1>4. PICK k \in Continuations(pos[g], P) : Answered(g, PageCall(P, k))
  BY <1>P
<1>5. /\ history' = history /\ bound' = bound /\ from' = from /\ pos' = pos
      /\ scannedTs' = scannedTs /\ pages' = pages /\ released' = released
      /\ pc' = pc /\ drained' = drained
  BY <1>4 DEF Answered, logVars, fetchVars, pullVars
<1>6. /\ call'[g].state = "page" /\ call'[g].recs = P
      /\ call'[g].more = (P # S) /\ call'[g].bound = b /\ call'[g].cont = k
      /\ \A h \in Group : h # g => call'[h] = call[h]
  <2>1. call \in [Group -> Call] /\ call[g] \in Call
    BY <1>1 DEF TypeOK
  <2> HIDE DEF S
  <2> QED
    BY <1>4, <2>1 DEF Answered, Call
<1>7. \A h \in Group :
         /\ Buffered(h)' = Buffered(h) /\ Wanted(h)' = Wanted(h)
         /\ Fetched(h)' = Fetched(h) /\ Unfetched(h)' = Unfetched(h)
  BY <1>5, SetsFrame
<1>8. AnswerOK(g, call[g])'
  <2>1. /\ P \subseteq Unfetched(g)
        /\ PositionInv(g, k)
        /\ \A r \in P : ~After(k, r) /\ r.ts <= b
        /\ \A r \in Unfetched(g) \ P :
             /\ After(k, r)
             /\ P # S \/ b < r.ts
             /\ \A q \in P : Before(q, r)
        /\ P # S => P # {}
    BY <1>1, <1>2, <1>3, PageIsNext
  <2>2. PositionInv(g, k)'
    BY <1>5, <1>7, <2>1, PositionFrame
  <2>3. b <= bound'[g]
    BY <1>1, <1>5
  <2> HIDE DEF S
  <2> QED
    BY <1>6, <1>7, <2>1, <2>2, <2>3 DEF AnswerOK
<1>9. \A h \in Group : h # g => AnswerOK(h, call[h])'
  BY <1>1, <1>5, <1>6, AnswerFrame DEF AnswerInv
<1>10. \A h \in Group : FetchOK(h)'
  BY <1>1, <1>5, FetchFrame DEF FetchInv
<1>11. PageInv'
  BY <1>1, <1>2, <1>5, <1>6 DEF PageInv, Exhausted
<1>12. MergeInv' /\ DrainInv'
  BY <1>1, <1>5, <1>7 DEF MergeInv, DrainInv, BoundReleased
<1> QED
  BY <1>8, <1>9, <1>10, <1>11, <1>12 DEF IndInv, FetchInv, AnswerInv

\* The boundary never falls, and moves to what the page proves.
LEMMA ScannedAfterFacts ==
  ASSUME NEW s \in 0 .. MaxTs, NEW c \in Call, c.more => c.recs # {},
         NEW t \in ScannedAfter(s, c)
  PROVE  /\ t \in 0 .. MaxTs /\ s <= t
         /\ ~c.more => c.bound <= t /\ (t = s \/ t = c.bound)
         /\ c.more => \E q \in c.recs : /\ \A r \in c.recs : r.ts <= q.ts
                                        /\ q.ts - 1 <= t
                                        /\ t = s \/ t = q.ts - 1
<1> USE BoundsAssumption
<1>1. t \in 0 .. MaxTs
  BY ScannedAfterType
<1>2. c.bound \in 0 .. MaxTs /\ \A r \in c.recs : r.ts \in 1 .. MaxTs
  BY DEF Call, RecordType
<1>3. CASE ~c.more
  BY <1>1, <1>2, <1>3 DEF ScannedAfter, Larger
<1>4. CASE c.more
  <2>1. PICK m \in LastTs(c.recs) : t = Larger(s, m - 1)
    BY <1>4 DEF ScannedAfter
  <2>2. PICK q \in c.recs : m = q.ts /\ \A r \in c.recs : r.ts <= q.ts
    BY <1>4, <2>1 DEF LastTs
  <2>3. s <= t /\ q.ts - 1 <= t /\ (t = s \/ t = q.ts - 1)
    BY <1>2, <2>1, <2>2 DEF Larger
  <2> QED
    BY <1>1, <1>4, <2>2, <2>3
<1> QED
  BY <1>3, <1>4

\* What admitting a page does to its group.
LEMMA CollectPageGroup ==
  ASSUME IndInv, TypeOK', NEW g \in Group, CollectPage(g)
  PROVE  /\ Len(pages'[g]) <= 1
         /\ Buffered(g) = {} /\ Buffered(g)' = call[g].recs
         /\ Wanted(g)' = Wanted(g) /\ Fetched(g)' = Fetched(g) \cup call[g].recs
         /\ Unfetched(g)' = Unfetched(g) \ call[g].recs
<1> DEFINE c == call[g]
<1>1. TypeOK /\ PageInv /\ c.state = "page"
  BY DEF IndInv, CollectPage
<1>2. pages[g] = <<>> /\ Buffered(g) = {}
  BY <1>1, OnePage DEF PageInv
<1>3. released' = released /\ history' = history /\ from' = from
  BY DEF CollectPage, logVars
<1>4. Len(pages'[g]) <= 1 /\ Buffered(g)' = c.recs
  <2>1. CASE c.recs = {} /\ pages' = pages
    BY <1>2, <2>1 DEF Buffered
  <2>2. ASSUME NEW n \in 1 .. MaxBytesPerScan,
               pages' = [pages EXCEPT ![g] =
                            Append(@, [recs |-> c.recs, bytes |-> n])]
        PROVE  Len(pages'[g]) <= 1 /\ Buffered(g)' = c.recs
    <3> DEFINE e == [recs |-> c.recs, bytes |-> n]
    <3>1. pages'[g] = Append(<<>>, e)
      BY <1>1, <1>2, <2>2 DEF TypeOK
    <3>2. pages'[g] = <<e>>
      BY <3>1
    <3>3. Len(pages'[g]) = 1 /\ DOMAIN pages'[g] = {1} /\ pages'[g][1] = e
      BY <3>2
    <3>4. UNION {pages'[g][i].recs : i \in {1}} = e.recs
      BY <3>3
    <3> QED
      BY <3>3, <3>4 DEF Buffered
  <2> QED
    BY <2>1, <2>2 DEF CollectPage
<1>5. Wanted(g)' = Wanted(g)
  BY <1>3 DEF Wanted
<1> QED
  BY <1>2, <1>3, <1>4, <1>5 DEF Fetched, Unfetched

\* Where it moves the group's boundary.
LEMMA CollectPageBoundary ==
  ASSUME IndInv, NEW g \in Group, CollectPage(g)
  PROVE  /\ scannedTs' = [scannedTs EXCEPT ![g] = scannedTs'[g]]
         /\ scannedTs'[g] \in 0 .. MaxTs /\ scannedTs[g] <= scannedTs'[g]
         /\ scannedTs'[g] = scannedTs[g] \/ scannedTs'[g] <= bound[g]
         /\ \A r \in call[g].recs : r.ts <= scannedTs'[g] + 1
         /\ \A r \in Unfetched(g) \ call[g].recs : scannedTs'[g] < r.ts
<1> USE GroupTypes, BoundsAssumption
<1> DEFINE c == call[g]
<1>1. TypeOK /\ FetchOK(g) /\ AnswerOK(g, c) /\ c.state = "page"
  BY DEF IndInv, FetchInv, AnswerInv, CollectPage
<1>2. PICK t \in ScannedAfter(scannedTs[g], c) :
           scannedTs' = [scannedTs EXCEPT ![g] = t]
  BY DEF CollectPage
<1>3. scannedTs'[g] = t /\ scannedTs' = [scannedTs EXCEPT ![g] = scannedTs'[g]]
  BY <1>1, <1>2 DEF TypeOK
<1>4. /\ c \in Call /\ (c.more => c.recs # {}) /\ c.bound \in Int
      /\ c.bound <= bound[g] /\ bound[g] \in Int /\ scannedTs[g] \in 0 .. MaxTs
      /\ \A r \in c.recs : r \in RecordType /\ r.ts \in Int /\ r.ts <= c.bound
  <2>1. c \in Call /\ c.bound \in Int
    BY <1>1 DEF Call
  <2>2. \A r \in c.recs : r \in RecordType /\ r.ts \in Int
    BY <1>1, BeforeTotal DEF AnswerOK
  <2> QED
    BY <1>1, <2>1, <2>2 DEF AnswerOK
<1>5. \A r \in Unfetched(g) \ c.recs :
        /\ r \in RecordType /\ r.ts \in Int /\ scannedTs[g] < r.ts
        /\ c.more \/ c.bound < r.ts
        /\ \A q \in c.recs : Before(q, r)
  BY <1>1, BeforeTotal DEF AnswerOK, FetchOK
<1>6. CASE ~c.more
  <2>1. t \in 0 .. MaxTs /\ scannedTs[g] <= t /\ c.bound <= t
        /\ (t = scannedTs[g] \/ t = c.bound)
    BY <1>2, <1>4, <1>6, ScannedAfterFacts
  <2> QED
    BY <1>3, <1>4, <1>5, <1>6, <2>1
<1>7. CASE c.more
  <2>1. t \in 0 .. MaxTs /\ scannedTs[g] <= t
    BY <1>2, <1>4, ScannedAfterFacts
  <2>2. PICK q \in c.recs : /\ \A r \in c.recs : r.ts <= q.ts
                            /\ q.ts - 1 <= t
                            /\ t = scannedTs[g] \/ t = q.ts - 1
    BY <1>2, <1>4, <1>7, ScannedAfterFacts
  <2>3. \A r \in Unfetched(g) \ c.recs : q.ts <= r.ts
    BY <1>4, <1>5, BeforeTotal
  <2> QED
    BY <1>3, <1>4, <1>5, <2>1, <2>2, <2>3
<1> QED
  BY <1>6, <1>7

\* _admit keeps the invariant: the page was the next part, and is now fetched.
LEMMA CollectPageStep ==
  ASSUME IndInv, TypeOK', NEW g \in Group, CollectPage(g)
  PROVE  IndInv'
<1> USE GroupTypes, BoundsAssumption
<1> DEFINE c == call[g]
<1>1. TypeOK /\ PageInv /\ FetchInv /\ AnswerInv /\ MergeInv /\ DrainInv
  BY DEF IndInv
<1>2. /\ history' = history /\ bound' = bound /\ from' = from
      /\ released' = released /\ pc' = pc /\ pc \in CollectPlace
      /\ pos' = [pos EXCEPT ![g] = c.cont]
      /\ call' = [call EXCEPT ![g] = NoCall]
      /\ c.state = "page"
  BY DEF CollectPage, Collecting, Taken, logVars, NextPosition
<1>3. ASSUME NEW h \in Group, h # g
      PROVE  /\ pos'[h] = pos[h] /\ call'[h] = call[h]
             /\ scannedTs'[h] = scannedTs[h] /\ pages'[h] = pages[h]
  <2>1. pages'[h] = pages[h]
    BY <1>1, <1>3 DEF CollectPage, TypeOK
  <2>2. scannedTs'[h] = scannedTs[h]
    BY <1>1, <1>3, CollectPageBoundary DEF TypeOK
  <2> QED
    BY <1>1, <1>2, <1>3, <2>1, <2>2 DEF TypeOK
<1>4. pos'[g] = c.cont /\ call'[g] = NoCall
  BY <1>1, <1>2 DEF TypeOK
<1>5. /\ Len(pages'[g]) <= 1
      /\ Buffered(g) = {} /\ Buffered(g)' = c.recs
      /\ Wanted(g)' = Wanted(g) /\ Fetched(g)' = Fetched(g) \cup c.recs
      /\ Unfetched(g)' = Unfetched(g) \ c.recs
  BY CollectPageGroup
<1>6. /\ scannedTs'[g] \in Int /\ scannedTs[g] <= scannedTs'[g]
      /\ scannedTs'[g] = scannedTs[g] \/ scannedTs'[g] <= bound[g]
      /\ \A r \in c.recs : r.ts <= scannedTs'[g] + 1
      /\ \A r \in Unfetched(g) \ c.recs : scannedTs'[g] < r.ts
  BY CollectPageBoundary
<1>7. FetchOK(g) /\ AnswerOK(g, c) /\ c \in Call
  BY <1>1 DEF FetchInv, AnswerInv
<1>8. /\ c.recs \subseteq Unfetched(g) /\ c.recs \subseteq Wanted(g)
      /\ \A r \in c.recs : r \in RecordType /\ r.ts \in Int /\ r.ts <= bound[g]
  <2>1. c.recs \subseteq Unfetched(g) /\ c.recs \subseteq RecordType
        /\ c.bound <= bound[g] /\ \A r \in c.recs : r.ts <= c.bound
    BY <1>1, <1>2, <1>7 DEF AnswerOK
  <2>2. c.bound \in Int /\ bound[g] \in Int /\ \A r \in c.recs : r.ts \in Int
    BY <1>1, <2>1, BeforeTotal DEF Call
  <2> QED
    BY <1>1, <2>1, <2>2
<1>9. PositionInv(g, pos[g])'
  <2>1. PositionInv(g, c.cont) /\ \A r \in c.recs : ~After(c.cont, r)
    BY <1>2, <1>7 DEF AnswerOK
  <2> QED
    BY <1>2, <1>4, <1>5, <2>1 DEF PositionInv
<1>10. FetchOK(g)'
  <2>1. \A r \in Unfetched(g)' : After(pos'[g], r) /\ scannedTs'[g] < r.ts
    BY <1>2, <1>4, <1>5, <1>6, <1>7 DEF AnswerOK
  <2>2. \A r \in Fetched(g)' : r.ts <= scannedTs'[g] + 1 /\ r.ts <= bound'[g]
    <3>1. \A r \in Fetched(g) : /\ r.ts \in Int
                                /\ r.ts <= scannedTs[g] + 1 /\ r.ts <= bound[g]
      BY <1>1, <1>7, BeforeTotal DEF FetchOK
    <3>2. scannedTs[g] \in Int
      BY <1>1
    <3> QED
      BY <1>2, <1>5, <1>6, <1>8, <3>1, <3>2
  <2>3. \A r \in Fetched(g)' : \A s \in Unfetched(g)' : Before(r, s)
    BY <1>2, <1>5, <1>7 DEF AnswerOK, FetchOK
  <2>4. \A r \in released'[g] : \A s \in Buffered(g)' : s # r /\ Before(r, s)
    BY <1>2, <1>5, <1>7, <1>8 DEF FetchOK, Fetched, Unfetched
  <2>5. Fetched(g)' \subseteq Wanted(g)'
    BY <1>5, <1>7, <1>8 DEF FetchOK
  <2>6. scannedTs'[g] <= bound'[g] \/ scannedTs'[g] = from'[g] - 1
    BY <1>2, <1>6, <1>7 DEF FetchOK
  <2> QED
    BY <1>9, <2>1, <2>2, <2>3, <2>4, <2>5, <2>6 DEF FetchOK
<1>11. \A h \in Group : h # g => FetchOK(h)' /\ AnswerOK(h, call[h])'
  BY <1>1, <1>2, <1>3, FetchFrame, AnswerFrame DEF FetchInv, AnswerInv
<1>12. AnswerOK(g, call[g])'
  BY <1>4, NoPage DEF NoCall
<1>13. PageInv'
  BY <1>1, <1>2, <1>3, <1>4, <1>5 DEF PageInv, CollectPlace, NoCall
<1>14. MergeInv'
  <2> SUFFICES ASSUME NEW f \in Group, NEW h \in Group, NEW r \in released[f]
               PROVE  /\ r.ts <= scannedTs'[h] + 1
                      /\ \A s \in Buffered(h)' : r.ts <= s.ts
    BY <1>2 DEF MergeInv
  <2>1. r \in RecordType /\ r.ts \in Int /\ scannedTs[h] \in Int
    BY <1>1, BeforeTotal
  <2>2. r.ts <= scannedTs[h] + 1 /\ \A s \in Buffered(h) : r.ts <= s.ts
    BY <1>1 DEF MergeInv
  <2>3. CASE h # g
    BY <1>2, <1>3, <2>2, <2>3, SetsFrame
  <2>4. CASE h = g
    <3>1. \A s \in c.recs : scannedTs[g] < s.ts /\ s.ts \in Int
      BY <1>7, <1>8 DEF FetchOK
    <3> QED
      BY <1>5, <1>6, <2>1, <2>2, <2>4, <3>1
  <2> QED
    BY <2>3, <2>4
<1>15. DrainInv'
  BY <1>2 DEF DrainInv, CollectPlace
<1> QED
  BY <1>10, <1>11, <1>12, <1>13, <1>14, <1>15 DEF IndInv, FetchInv, AnswerInv

\* A page that was released in full leaves nothing behind.
LEMMA DropStep ==
  ASSUME IndInv, TypeOK', NEW g \in Group, DropExhausted(g)
  PROVE  IndInv'
<1>1. TypeOK /\ PageInv /\ FetchInv /\ AnswerInv /\ MergeInv /\ DrainInv
  BY DEF IndInv
<1>2. /\ history' = history /\ bound' = bound /\ from' = from /\ pos' = pos
      /\ scannedTs' = scannedTs /\ released' = released /\ call' = call
      /\ pc' = pc /\ drained' = drained /\ pc \in CollectPlace
      /\ pages' = [pages EXCEPT ![g] = Tail(pages[g])]
      /\ pages[g] # <<>> /\ Head(pages[g]).recs = {}
  BY DEF DropExhausted, Exhausted, logVars, clientVars, pullVars
<1>3. Buffered(g) = {} /\ Len(pages[g]) = 1
  BY <1>1, <1>2, OnePage DEF PageInv
<1>4. pages'[g] = <<>> /\ \A h \in Group : h # g => pages'[h] = pages[h]
  <2>1. Tail(pages[g]) \in Seq(RecordPage) /\ Len(Tail(pages[g])) = 0
    BY <1>1, <1>2, <1>3, HeadTailProperties, OnePage
  <2>2. Tail(pages[g]) = <<>>
    BY <2>1, EmptySeq
  <2> QED
    BY <1>1, <1>2, <2>2 DEF TypeOK
<1>5. \A h \in Group :
         /\ Buffered(h)' = Buffered(h) /\ Wanted(h)' = Wanted(h)
         /\ Fetched(h)' = Fetched(h) /\ Unfetched(h)' = Unfetched(h)
  <2>1. Buffered(g)' = {}
    BY <1>4 DEF Buffered
  <2>2. \A h \in Group : h # g => Buffered(h)' = Buffered(h)
    BY <1>2, <1>4, SetsFrame
  <2> QED
    BY <1>2, <1>3, <2>1, <2>2 DEF Wanted, Fetched, Unfetched
<1>6. ASSUME NEW h \in Group PROVE FetchOK(h)' /\ AnswerOK(h, call[h])'
  <2>1. FetchOK(h) /\ AnswerOK(h, call[h])
    BY <1>1 DEF FetchInv, AnswerInv
  <2>2. PositionInv(h, pos[h])'
    BY <1>2, <1>5, <2>1, PositionFrame DEF FetchOK
  <2>3. PositionInv(h, call[h].cont) => PositionInv(h, call[h].cont)'
    BY <1>2, <1>5, PositionFrame
  <2> QED
    BY <1>2, <1>5, <2>1, <2>2, <2>3 DEF FetchOK, AnswerOK
<1>7. PageInv'
  <2>1. Len(pages'[g]) = 0
    BY <1>4
  <2> QED
    BY <1>1, <1>2, <1>4, <2>1 DEF PageInv, CollectPlace
<1>8. MergeInv' /\ DrainInv'
  BY <1>1, <1>2, <1>5 DEF MergeInv, DrainInv, CollectPlace
<1> QED
  BY <1>6, <1>7, <1>8 DEF IndInv, FetchInv, AnswerInv

\* A group that still has a record buffered is not scanned: it cannot be
\* lagging, for what it has fetched goes no further than the next timestamp.
LEMMA ScannedGroupIsEmpty ==
  ASSUME IndInv, NEW g \in Group, ShouldScan(g), ~Exhausted(g)
  PROVE  pages[g] = <<>>
<1>1. TypeOK /\ PageInv /\ FetchOK(g)
  BY DEF IndInv, FetchInv
<1>2. Buffered(g) = {}
  <2> SUFFICES ASSUME NEW r \in Buffered(g), Lagging(g) PROVE FALSE
    BY DEF ShouldScan
  <2>1. scannedTs[g] + 1 < r.ts
    BY DEF Lagging
  <2>2. r.ts <= scannedTs[g] + 1
    BY <1>1 DEF FetchOK, Fetched
  <2>3. r.ts \in Int /\ scannedTs[g] \in Int
    BY <1>1, GroupTypes, BeforeTotal, BoundsAssumption
  <2> QED
    BY <2>1, <2>2, <2>3
<1> QED
  BY <1>1, <1>2, OnePage DEF PageInv, Exhausted

\* A scan goes out from the group's position, with no page left in the group.
LEMMA IssueStep ==
  ASSUME IndInv, TypeOK', NEW g \in Group, IssueScan(g)
  PROVE  IndInv'
<1>1. TypeOK /\ PageInv /\ FetchInv /\ AnswerInv /\ MergeInv /\ DrainInv
  BY DEF IndInv
<1>2. /\ history' = history /\ bound' = bound /\ from' = from /\ pos' = pos
      /\ scannedTs' = scannedTs /\ released' = released /\ pages' = pages
      /\ pc = "issue" /\ pc' \in {"issue", "recollect"}
  BY DEF IssueScan, logVars, fetchVars
<1>3. ~Exhausted(g)
  BY <1>1, <1>2 DEF PageInv
<1>4. \A h \in Group : h # g => call'[h] = call[h]
  BY <1>1 DEF IssueScan, TypeOK
<1>5. \/ call'[g] = call[g]
      \/ /\ pages[g] = <<>>
         /\ call'[g].state = "sent" /\ call'[g].pos = pos[g]
         /\ call'[g].recs = {}
  <2>1. CASE ~ShouldScan(g)
    BY <2>1 DEF IssueScan
  <2>2. CASE ShouldScan(g)
    <3>1. call[g].state = "none" /\ call[g].recs = {} /\ call[g] \in Call
      BY <1>1, <2>2, GroupTypes DEF ShouldScan, AnswerInv, AnswerOK
    <3>2. call'[g] = [call[g] EXCEPT !.state = "sent", !.pos = pos[g]]
      BY <1>1, <2>2 DEF IssueScan, TypeOK
    <3> QED
      BY <1>3, <2>2, <3>1, <3>2, ScannedGroupIsEmpty DEF Call
  <2> QED
    BY <2>1, <2>2
<1>6. \A h \in Group : FetchOK(h)'
  BY <1>1, <1>2, FetchFrame DEF FetchInv
<1>7. ASSUME NEW h \in Group PROVE AnswerOK(h, call[h])'
  <2>1. CASE call'[h] = call[h]
    BY <1>1, <1>2, <2>1, AnswerFrame DEF AnswerInv
  <2>2. CASE call'[h] # call[h]
    BY <1>2, <1>4, <1>5, <2>2 DEF AnswerOK
  <2> QED
    BY <2>1, <2>2
<1>8. \A h \in Group : Buffered(h)' = Buffered(h)
  BY <1>2, SetsFrame
<1>9. PageInv'
  BY <1>1, <1>2, <1>4, <1>5 DEF PageInv, Exhausted
<1>10. MergeInv' /\ DrainInv'
  BY <1>1, <1>2, <1>8 DEF MergeInv, DrainInv
<1> QED
  BY <1>6, <1>7, <1>9, <1>10 DEF IndInv, FetchInv, AnswerInv

\* What releasing record r of group g does to the group.
LEMMA ReleaseGroup ==
  ASSUME IndInv, NEW g \in Group, NEW r \in Buffered(g), Release(g, r)
  PROVE  /\ Len(pages'[g]) = 1 /\ call[g].state = "none"
         /\ released'[g] = released[g] \cup {r}
         /\ Buffered(g)' = Buffered(g) \ {r}
         /\ Wanted(g)' = Wanted(g) /\ Fetched(g)' = Fetched(g)
         /\ Unfetched(g)' = Unfetched(g)
         /\ \A s \in Buffered(g) : s = r \/ Before(r, s)
<1>1. TypeOK /\ PageInv /\ pages[g] # <<>>
  BY DEF IndInv, Release, Releasable, IsHead
<1>2. /\ Len(pages[g]) = 1 /\ Buffered(g) = pages[g][1].recs
      /\ Head(pages[g]) = pages[g][1] /\ pages[g] \in Seq(RecordPage)
      /\ pages[g][1] \in RecordPage
  BY <1>1, OnePage DEF PageInv
<1>3. /\ history' = history /\ from' = from
      /\ released' = [released EXCEPT ![g] = @ \cup {r}]
      /\ pages' = [pages EXCEPT ![g][1].recs = @ \ {r}]
  BY DEF Release, logVars
<1>4. pages'[g] = [pages[g] EXCEPT ![1] = [pages[g][1] EXCEPT !.recs = @ \ {r}]]
  BY <1>1, <1>3 DEF TypeOK
<1>5. /\ Len(pages'[g]) = 1 /\ DOMAIN pages'[g] = {1}
      /\ pages'[g][1].recs = Buffered(g) \ {r}
  BY <1>2, <1>4, LenProperties, ExceptSeq DEF RecordPage
<1>6. Buffered(g)' = Buffered(g) \ {r}
  <2>1. UNION {pages'[g][i].recs : i \in {1}} = pages'[g][1].recs
    OBVIOUS
  <2> QED
    BY <1>5, <2>1 DEF Buffered
<1>7. released'[g] = released[g] \cup {r}
  BY <1>1, <1>3 DEF TypeOK
<1>8. Wanted(g)' = Wanted(g)
  BY <1>3 DEF Wanted
<1>9. Fetched(g)' = Fetched(g)
  BY <1>6, <1>7 DEF Fetched
<1>10. Unfetched(g)' = Unfetched(g)
  BY <1>8, <1>9 DEF Unfetched
<1>11. \A s \in Buffered(g) : s = r \/ Before(r, s)
  BY <1>2 DEF Release, Releasable, IsHead
<1>12. call[g].state = "none"
  BY <1>1 DEF PageInv
<1> QED
  BY <1>5, <1>6, <1>7, <1>8, <1>9, <1>10, <1>11, <1>12

\* What _pickReleasable releases is not above anything left, in any group.
LEMMA ReleaseStep ==
  ASSUME IndInv, TypeOK', NEW g \in Group, NEW r \in Buffered(g), Release(g, r)
  PROVE  IndInv'
<1> USE GroupTypes, BoundsAssumption
<1>1. TypeOK /\ PageInv /\ FetchInv /\ AnswerInv /\ MergeInv /\ DrainInv
  BY DEF IndInv
<1>2. /\ history' = history /\ bound' = bound /\ from' = from /\ pos' = pos
      /\ scannedTs' = scannedTs /\ call' = call /\ pc' = "idle"
      /\ drained' = FALSE
  BY DEF Release, logVars, clientVars
<1>3. \A h \in Group : h # g => pages'[h] = pages[h] /\ released'[h] = released[h]
  BY <1>1 DEF Release, TypeOK
<1>4. /\ Len(pages'[g]) = 1 /\ call[g].state = "none"
      /\ released'[g] = released[g] \cup {r}
      /\ Buffered(g)' = Buffered(g) \ {r}
      /\ Wanted(g)' = Wanted(g) /\ Fetched(g)' = Fetched(g)
      /\ Unfetched(g)' = Unfetched(g)
      /\ \A s \in Buffered(g) : s = r \/ Before(r, s)
  BY ReleaseGroup
<1>5. FetchOK(g)'
  <2>1. FetchOK(g)
    BY <1>1 DEF FetchInv
  <2>2. PositionInv(g, pos[g])'
    BY <1>2, <1>4, <2>1, PositionFrame DEF FetchOK
  <2> QED
    BY <1>2, <1>4, <2>1, <2>2 DEF FetchOK
<1>6. AnswerOK(g, call[g])'
  BY <1>1, <1>2, <1>4, NoPage DEF AnswerInv, AnswerOK
<1>7. \A h \in Group : h # g => FetchOK(h)' /\ AnswerOK(h, call[h])'
  BY <1>1, <1>2, <1>3, FetchFrame, AnswerFrame DEF FetchInv, AnswerInv
<1>8. PageInv'
  <2>1. ASSUME NEW h \in Group
        PROVE  /\ Len(pages'[h]) <= 1
               /\ call'[h].state # "none" => pages'[h] = <<>>
    <3>1. CASE h = g
      <4>1. Len(pages'[g]) = 1 /\ call'[g].state = "none"
        BY <1>2, <1>4
      <4>2. \A n : n = 1 => n <= 1
        OBVIOUS
      <4> QED
        BY ONLY <3>1, <4>1, <4>2
    <3>2. CASE h # g
      BY ONLY <1>1, <1>2, <1>3, <3>2, h \in Group DEF PageInv
    <3> QED
      BY <3>1, <3>2
  <2> QED
    BY ONLY <1>2, <2>1 DEF PageInv
<1>9. \A h \in Group : Buffered(h)' \subseteq Buffered(h)
  BY <1>2, <1>3, <1>4, SetsFrame
<1>10. ASSUME NEW h \in Group
       PROVE  r.ts <= scannedTs[h] + 1 /\ \A s \in Buffered(h) : r.ts <= s.ts
  <2>1. r \in RecordType /\ r.ts \in Int /\ scannedTs[h] \in Int
    BY <1>1, BeforeTotal
  <2>2. \A s \in Buffered(h) : s \in RecordType /\ s.ts \in Int
    BY <1>1, BeforeTotal
  <2>3. CASE h = g
    <3>1. r.ts <= scannedTs[g] + 1
      BY <1>1 DEF FetchInv, FetchOK, Fetched
    <3> QED
      BY <1>4, <2>1, <2>2, <2>3, <3>1, BeforeTotal
  <2>4. CASE h # g
    <3>1. /\ ~(scannedTs[h] + 1 < r.ts)
          /\ \A s \in Buffered(h) : r.ts < s.ts \/ r.ts = s.ts
      BY <2>4 DEF Release, Releasable, IsLowest, EmissionRule
    <3> QED
      BY <2>1, <2>2, <3>1
  <2> QED
    BY <2>3, <2>4
<1>11. MergeInv'
  BY <1>1, <1>2, <1>3, <1>4, <1>9, <1>10 DEF MergeInv
<1>12. DrainInv'
  BY <1>2 DEF DrainInv
<1> QED
  BY <1>5, <1>6, <1>7, <1>8, <1>11, <1>12 DEF IndInv, FetchInv, AnswerInv

\* The first of a set of records at one timestamp: data first, then by key.
LEMMA FirstAtTimestamp ==
  ASSUME NEW S \in SUBSET RecordType, S # {}, NEW t, \A s \in S : s.ts = t
  PROVE  \E r \in S : \A s \in S : s = r \/ Before(r, s)
<1> DEFINE D(x) == {s \in S : s.stream = x}
<1>1. ASSUME NEW x \in Stream, D(x) # {}
      PROVE  \E r \in D(x) : \A s \in D(x) : s = r \/ Before(r, s)
  <2> DEFINE K == {s.key : s \in D(x)}
  <2>1. K \in SUBSET Nat /\ K # {}
    BY <1>1 DEF RecordType
  <2> HIDE DEF K
  <2>2. PICK k \in K : \A m \in K : k <= m
    BY <2>1, NatMin
  <2>3. PICK r \in D(x) : k = r.key
    BY <2>2 DEF K
  <2>4. ASSUME NEW s \in D(x) PROVE s = r \/ Before(r, s)
    <3>1. r.key <= s.key
      BY <2>2, <2>3 DEF K
    <3>2. /\ r \in RecordType /\ s \in RecordType
          /\ r.ts = s.ts /\ r.stream = s.stream
      BY <2>3
    <3>3. r.key \in Nat /\ s.key \in Nat
      BY <3>2 DEF RecordType
    <3> QED
      BY <3>1, <3>2, <3>3, BeforeTotal DEF Before
  <2> QED
    BY <2>3, <2>4
<1>2. CASE D("data") # {}
  <2>1. PICK r \in D("data") : \A s \in D("data") : s = r \/ Before(r, s)
    BY <1>1, <1>2 DEF Stream
  <2>2. ASSUME NEW s \in S \ D("data") PROVE Before(r, s)
    <3>1. s.stream = "ddl" /\ s.ts = r.ts
      BY DEF RecordType, Stream
    <3> QED
      BY <2>1, <3>1 DEF Before
  <2> QED
    BY <2>1, <2>2
<1>3. CASE D("data") = {}
  <2>1. D("ddl") = S
    BY <1>3 DEF RecordType, Stream
  <2> QED
    BY <1>1, <2>1 DEF Stream
<1> QED
  BY <1>2, <1>3

\* As long as a record that every group has scanned past is buffered, some
\* record can be released: the lowest one, of the lowest group that has it.
LEMMA SomeReleasable ==
  ASSUME IndInv, NEW f \in Group, NEW w \in Buffered(f),
         \A h \in Group : w.ts <= scannedTs[h]
  PROVE  \E g \in Group : \E r \in Buffered(g) : Releasable(g, r)
<1> USE GroupTypes, BoundsAssumption
<1>1. TypeOK /\ PageInv
  BY DEF IndInv
<1>2. \A h \in Group : \A s \in Buffered(h) :
         s \in RecordType /\ s.ts \in Nat /\ scannedTs[h] \in Int
  BY <1>1, BeforeTotal
<1> DEFINE T == UNION {{s.ts : s \in Buffered(h)} : h \in Group}
<1>3. T \in SUBSET Nat /\ w.ts \in T
  BY <1>2
<1>4. PICK t \in T : \A m \in T : t <= m
  <2> HIDE DEF T
  <2> QED
    BY <1>3, NatMin
<1>5. t \in Nat /\ t <= w.ts /\ \A h \in Group : \A s \in Buffered(h) : t <= s.ts
  BY <1>3, <1>4
<1> DEFINE H == {h \in Group : \E s \in Buffered(h) : s.ts = t}
<1>6. H \in SUBSET Nat /\ H # {}
  BY <1>4, GroupAssumption
<1>7. PICK g \in H : \A h \in H : g <= h
  <2> HIDE DEF H
  <2> QED
    BY <1>6, NatMin
<1> DEFINE C == {s \in Buffered(g) : s.ts = t}
<1>8. PICK r \in C : \A s \in C : s = r \/ Before(r, s)
  <2>1. C \in SUBSET RecordType /\ C # {} /\ \A s \in C : s.ts = t
    BY <1>2, <1>7
  <2> HIDE DEF C
  <2> QED
    BY <2>1, FirstAtTimestamp
<1>9. g \in Group /\ r \in Buffered(g) /\ r.ts = t
  BY <1>7, <1>8
<1>10. IsHead(g, r)
  <2>1. \A s \in Buffered(g) : s = r \/ Before(r, s)
    BY <1>2, <1>5, <1>8, <1>9 DEF Before
  <2>2. pages[g] # <<>>
    BY <1>1, <1>9, OnePage
  <2> QED
    BY <1>1, <1>9, <2>1, <2>2, OnePage DEF IsHead, PageInv
<1>11. IsLowest(g, r)
  <2> SUFFICES ASSUME NEW h \in Group \ {g}, NEW s \in Buffered(h)
               PROVE  t < s.ts \/ (t = s.ts /\ g < h)
    BY <1>9 DEF IsLowest
  <2>1. CASE t = s.ts
    <3>1. h \in H /\ h \in Nat /\ g \in Nat
      BY <1>9, <2>1, GroupAssumption
    <3> QED
      BY <1>7, <2>1, <3>1
  <2>2. CASE t # s.ts
    BY <1>2, <1>5, <2>2
  <2> QED
    BY <2>1, <2>2
<1>12. EmissionRule(g, r.ts)
  <2>1. ASSUME NEW h \in Group PROVE ~(scannedTs[h] + 1 < t)
    <3>1. scannedTs[h] \in Int /\ w.ts \in Int /\ w.ts <= scannedTs[h]
      BY <1>1, <1>2
    <3> QED
      BY <1>5, <3>1
  <2> QED
    BY <1>9, <2>1 DEF EmissionRule
<1> QED
  BY <1>9, <1>10, <1>11, <1>12 DEF Releasable

\* So when none can be, everything up to the lowest boundary is released.
LEMMA NothingLeftBelowBoundary ==
  ASSUME IndInv, \A g \in Group : \A r \in Buffered(g) : ~Releasable(g, r)
  PROVE  BoundReleased
<1> SUFFICES ASSUME NEW g \in Group, NEW r \in Wanted(g),
                    \A h \in Group : r.ts <= scannedTs[h], r \notin released[g]
             PROVE  FALSE
  BY DEF BoundReleased
<1>1. r \notin Buffered(g)
  BY SomeReleasable
<1>2. scannedTs[g] < r.ts
  BY <1>1 DEF IndInv, FetchInv, FetchOK, Unfetched, Fetched
<1>3. scannedTs[g] \in Int /\ r.ts \in Int
  BY GroupTypes, BeforeTotal, BoundsAssumption DEF IndInv
<1> QED
  BY <1>2, <1>3

\* A pick that finds nothing has everything up to the lowest boundary released.
LEMMA PickNoneStep ==
  ASSUME IndInv, TypeOK', PickNone
  PROVE  IndInv'
<1>1. BoundReleased /\ \A g \in Group : ~Exhausted(g)
  BY NothingLeftBelowBoundary DEF PickNone, Picking
<1>2. /\ UNCHANGED <<history, bound, from, pos, scannedTs, pages, released>>
      /\ call' = call /\ pc' # "idle"
  BY DEF PickNone, logVars, fetchVars, clientVars
<1> QED
  BY <1>1, <1>2, QuietStep

\* A call that fails brings no record.
LEMMA QuietAnswer ==
  ASSUME IndInv, TypeOK', NEW g \in Group, AnswerFatal(g) \/ AnswerRetry(g)
  PROVE  IndInv'
<1>1. call \in [Group -> Call] /\ call[g] \in Call /\ call[g].state = "sent"
      /\ call[g].recs = {}
  BY DEF IndInv, TypeOK, AnswerInv, AnswerOK, AnswerFatal, AnswerRetry
<1>2. PICK x \in {"retry", "fatal"} : Answered(g, [call[g] EXCEPT !.state = x])
  BY DEF AnswerFatal, AnswerRetry
<1>3. /\ call'[g].state = x /\ call'[g].recs = {}
      /\ \A h \in Group : h # g => call'[h] = call[h]
  BY <1>1, <1>2 DEF Answered, Call
<1>4. /\ UNCHANGED <<history, bound, from, pos, scannedTs, pages, released>>
      /\ pc' = pc /\ drained' = drained
  BY <1>2 DEF Answered, logVars, fetchVars, pullVars
<1> QED
  BY <1>1, <1>3, <1>4, QuietStep

\* Taking no answer, a failure or a refusal moves nothing.
LEMMA QuietCollect ==
  ASSUME IndInv, TypeOK', NEW g \in Group,
         CollectNothing(g) \/ CollectRetry(g) \/ CollectFatal(g)
  PROVE  IndInv'
<1>1. call' = call \/ call' = [call EXCEPT ![g] = NoCall]
  BY DEF CollectNothing, CollectRetry, CollectFatal, Taken, clientVars
<1>2. \A h \in Group : \/ call'[h] = call[h]
                       \/ call'[h].state = "none" /\ call'[h].recs = {}
  <2>1. call \in [Group -> Call]
    BY DEF IndInv, TypeOK
  <2>2. NoCall.state = "none" /\ NoCall.recs = {}
    BY DEF NoCall
  <2> QED
    BY <1>1, <2>1, <2>2
<1>3. /\ UNCHANGED <<history, bound, from, pos, scannedTs, pages, released>>
      /\ pc \in CollectPlace /\ pc' \in CollectPlace \cup {"failed"}
  <2>1. CASE CollectNothing(g)
    BY <2>1 DEF CollectNothing, Collecting, logVars, fetchVars
  <2>2. CASE CollectRetry(g)
    BY <2>2 DEF CollectRetry, Collecting, logVars, fetchVars
  <2>3. CASE CollectFatal(g)
    BY <2>3 DEF CollectFatal, Collecting, logVars, fetchVars
  <2> QED
    BY <2>1, <2>2, <2>3
<1> QED
  BY <1>2, <1>3, QuietStep DEF CollectPlace

\* Neither do the steps that start, end or suspend a pull, or pass time.
LEMMA QuietPull ==
  ASSUME IndInv, TypeOK',
         \/ CallNext \/ ReturnNone \/ EnterWait \/ Wake \/ Tick
         \/ \E g \in Group : BecomeReady(g) \/ (Purge(g) /\ UNCHANGED srcVars)
         \/ UNCHANGED vars
  PROVE  IndInv'
<1>1. /\ UNCHANGED <<history, bound, from, pos, scannedTs, pages, released>>
      /\ call' = call
  BY DEF CallNext, ReturnNone, EnterWait, Wake, Tick, BecomeReady, Purge, vars,
     srcVars, logVars, fetchVars, clientVars, pullVars
<1>2. /\ pc' = "issue" => pc = "issue"
      /\ pc' = "deadline" \/ (pc' = "idle" /\ drained') =>
            pc = "deadline" \/ (pc = "idle" /\ drained)
  BY DEF CallNext, ReturnNone, EnterWait, Wake, Tick, BecomeReady, Purge, vars,
     srcVars, logVars, fetchVars, clientVars, pullVars
<1> QED
  BY <1>1, <1>2, QuietStep

\* IndInv is inductive.
LEMMA IndStep == IndInv /\ [Next]_vars => IndInv'
<1> SUFFICES ASSUME IndInv, [Next]_vars PROVE IndInv'
  OBVIOUS
<1>1. TypeOK'
  BY TypeStep DEF IndInv
<1>2. ASSUME NEW g \in Group, LogStep(g) PROVE IndInv'
  BY <1>1, <1>2, ArriveStep, AdvanceStep, QuietPull DEF LogStep
<1>3. ASSUME NEW g \in Group, Answer(g) PROVE IndInv'
  BY <1>1, <1>3, AnswerPageStep, QuietAnswer DEF Answer
<1>4. ASSUME NEW g \in Group, Collect(g) PROVE IndInv'
  BY <1>1, <1>4, CollectPageStep, QuietCollect DEF Collect
<1>5. ASSUME NEW g \in Group, DropExhausted(g) \/ IssueScan(g) PROVE IndInv'
  BY <1>1, <1>5, DropStep, IssueStep
<1>6. ASSUME NEW g \in Group, NEW r \in Buffered(g), Release(g, r) PROVE IndInv'
  BY <1>1, <1>6, ReleaseStep
<1>7. CASE PickNone
  BY <1>1, <1>7, PickNoneStep
<1>8. CASE \/ CallNext \/ ReturnNone \/ EnterWait \/ Wake \/ Tick
           \/ \E g \in Group : BecomeReady(g)
           \/ UNCHANGED vars
  BY <1>1, <1>8, QuietPull
<1> QED
  BY <1>2, <1>3, <1>4, <1>5, <1>6, <1>7, <1>8 DEF Next, PullStep

\* The inductive invariant of the merge holds in every reachable state.
THEOREM Inductive == Spec => []IndInv
  BY IndInit, IndStep, PTL DEF Spec

-----------------------------------------------------------------------------
(***************************************************************************)
(* What follows from it.                                                   *)
(***************************************************************************)

\* A wanted record that is not released is buffered, or beyond its group's
\* boundary.
LEMMA NotReleased ==
  ASSUME IndInv, NEW g \in Group, NEW s \in Wanted(g) \ released[g]
  PROVE  /\ s \in RecordType /\ s.ts \in Int /\ scannedTs[g] \in Int
         /\ \/ s \in Buffered(g)
            \/ s \in Unfetched(g) /\ scannedTs[g] < s.ts
<1>1. s \in RecordType /\ s.ts \in Int /\ scannedTs[g] \in Int
  BY GroupTypes, BeforeTotal, BoundsAssumption DEF IndInv
<1> QED
  BY <1>1 DEF IndInv, FetchInv, FetchOK, Unfetched, Fetched

\* Once a record at T has been released, every record of every group below T
\* has been released, for any number of groups, any arrival order and any cut
\* of the pages: _pickReleasable never lets a record overtake an older one.
THEOREM MergeNeverOvertakes == Spec => []NothingOlderFollows
<1>1. IndInv => NothingOlderFollows
  <2> SUFFICES ASSUME IndInv, NEW g \in Group, NEW h \in Group,
                      NEW r \in released[g], NEW s \in Wanted(h) \ released[h],
                      s.ts < r.ts
               PROVE  FALSE
    BY DEF NothingOlderFollows
  <2>1. r.ts <= scannedTs[h] + 1 /\ \A q \in Buffered(h) : r.ts <= q.ts
    BY DEF IndInv, MergeInv
  <2>2. r.ts \in Int
    BY GroupTypes, BeforeTotal, BoundsAssumption DEF IndInv
  <2> QED
    BY <2>1, <2>2, NotReleased
<1> QED
  BY <1>1, Inductive, PTL

\* Within one group records are released in the merged order of its two
\* streams with none left out, so that a pair of keys names a position.
THEOREM GroupOrder == Spec => []GroupPrefix
<1>1. IndInv => GroupPrefix
  <2> SUFFICES ASSUME IndInv, NEW g \in Group, NEW r \in released[g],
                      NEW s \in Wanted(g) \ released[g], Before(s, r)
               PROVE  FALSE
    BY DEF GroupPrefix
  <2>1. Before(r, s)
    BY NotReleased DEF IndInv, FetchInv, FetchOK, Fetched
  <2>2. r \in RecordType /\ s \in RecordType
    BY NotReleased, GroupTypes DEF IndInv
  <2> QED
    BY <2>1, <2>2, BeforeTotal
<1> QED
  BY <1>1, Inductive, PTL

\* After a pull that returned none, everything at or below emitBound() has been
\* released: the watermark the event stream derives from it is sound.
THEOREM WatermarkSound == Spec => []EmitBoundCovers
<1>1. IndInv => EmitBoundCovers
  BY DEF IndInv, DrainInv, EmitBoundCovers
<1> QED
  BY <1>1, Inductive, PTL

\* No record is fetched twice, whatever calls fail and are retried.
THEOREM NoRecordTwice == Spec => []FetchedOnce
<1>1. IndInv => FetchedOnce
  <2> SUFFICES ASSUME IndInv, NEW g \in Group
               PROVE  /\ Buffered(g) \cap released[g] = {}
                      /\ call[g].recs \cap (Buffered(g) \cup released[g]) = {}
    BY DEF FetchedOnce
  <2>1. FetchOK(g) /\ AnswerOK(g, call[g])
    BY DEF IndInv, FetchInv, AnswerInv
  <2>2. Buffered(g) \cap released[g] = {}
    BY <2>1 DEF FetchOK
  <2>3. call[g].recs \subseteq Unfetched(g)
    BY <2>1 DEF AnswerOK
  <2> QED
    BY <2>2, <2>3 DEF Unfetched, Fetched
<1> QED
  BY <1>1, Inductive, PTL

\* A group never holds more than one page, nor asks for one while it holds one,
\* whatever the other groups' lag and whatever BufferBytes is.
THEOREM MemoryBound == Spec => []OnePagePerGroup
<1>1. IndInv => OnePagePerGroup
  <2> SUFFICES ASSUME IndInv, NEW g \in Group
               PROVE  /\ Len(pages[g]) <= 1
                      /\ Buffered(g) # {} => call[g].state = "none"
    BY DEF OnePagePerGroup
  <2>1. pages[g] = <<>> => Buffered(g) = {}
    BY OnePage DEF IndInv
  <2> QED
    BY <2>1 DEF IndInv, PageInv
<1> QED
  BY <1>1, Inductive, PTL

\* A group's boundary never moves down, whatever bounds its answers report.
THEOREM BoundariesMonotonic == Spec => ScannedTsMonotonic
<1>1. IndInv /\ [Next]_vars => [\A g \in Group : scannedTs'[g] >= scannedTs[g]]_vars
  <2> SUFFICES ASSUME IndInv, [Next]_vars, NEW g \in Group
               PROVE  scannedTs'[g] >= scannedTs[g]
    OBVIOUS
  <2>1. scannedTs \in [Group -> 0 .. MaxTs] /\ scannedTs[g] \in Int
    BY GroupTypes, BoundsAssumption DEF IndInv, TypeOK
  <2>2. CASE scannedTs' = scannedTs
    BY <2>1, <2>2
  <2>3. ASSUME NEW h \in Group, CollectPage(h) PROVE scannedTs'[g] >= scannedTs[g]
    <3>1. /\ scannedTs' = [scannedTs EXCEPT ![h] = scannedTs'[h]]
          /\ scannedTs'[h] \in 0 .. MaxTs /\ scannedTs[h] <= scannedTs'[h]
      BY <2>3, CollectPageBoundary
    <3>2. CASE g = h
      BY <2>1, <3>1, <3>2, BoundsAssumption
    <3>3. CASE g # h
      BY <2>1, <3>1, <3>3
    <3> QED
      BY <3>2, <3>3
  <2> QED
    BY <2>2, <2>3 DEF Next, PullStep, LogStep, Answer, Collect, AnswerPage,
       AnswerFatal, AnswerRetry, Answered, BecomeReady, Tick, CallNext,
       CollectNothing, CollectRetry, CollectFatal, DropExhausted, IssueScan,
       Release, PickNone, ReturnNone, EnterWait, Wake, srcVars, fetchVars, vars
<1> QED
  BY <1>1, Inductive, PTL DEF Spec, ScannedTsMonotonic

-----------------------------------------------------------------------------
(***************************************************************************)
(* Refinement of CdcOrderedSource.                                         *)
(***************************************************************************)

\* What has reached a group is among the records that may reach it.
KnownRecords == \A g \in Group : history[g] \subseteq Record[g]

\* A group only ever holds records of its own.
LEMMA KnownStep == IndInv /\ KnownRecords /\ [Next]_vars => KnownRecords'
<1> SUFFICES ASSUME IndInv, KnownRecords, [Next]_vars PROVE KnownRecords'
  OBVIOUS
<1>1. ASSUME NEW g \in Group, Arrive(g) PROVE KnownRecords'
  BY <1>1 DEF KnownRecords, Arrive, IndInv, TypeOK, LogTypeOK
<1>2. CASE history' = history
  BY <1>2 DEF KnownRecords
<1> QED
  BY <1>1, <1>2 DEF Next, PullStep, LogStep, AdvanceBound, Purge, Answer, Collect,
     AnswerPage, AnswerFatal, AnswerRetry, Answered, BecomeReady, Tick, CallNext,
     CollectNothing, CollectRetry, CollectFatal, CollectPage, DropExhausted,
     IssueScan, Release, PickNone, ReturnNone, EnterWait, Wake, logVars, vars

\* The record that a pull returns is the next one of the ordered source.
LEMMA ReleasedIsNext ==
  ASSUME IndInv, NEW g \in Group, NEW r \in Buffered(g), Release(g, r)
  PROVE  Ordered!IsNext(g, r)
<1> USE GroupTypes, BoundsAssumption
<1>1. TypeOK /\ FetchOK(g)
  BY DEF IndInv, FetchInv
<1>2. \A s \in Buffered(g) : s = r \/ Before(r, s)
  BY ReleaseGroup
<1>3. r \in Wanted(g) \ released[g] /\ r.ts <= bound[g]
  BY <1>1 DEF FetchOK, Fetched
<1>4. \A s \in Wanted(g) \ released[g] : s = r \/ Before(r, s)
  BY <1>1, <1>2, NotReleased DEF FetchOK, Fetched
<1>5. ASSUME NEW h \in Group \ {g}
      PROVE  /\ r.ts <= scannedTs[h] + 1
             /\ \A s \in Wanted(h) \ released[h] : r.ts <= s.ts
  <2>1. r.ts \in Int /\ scannedTs[h] \in Int
    BY <1>1, BeforeTotal
  <2>2. /\ ~(scannedTs[h] + 1 < r.ts)
        /\ \A s \in Buffered(h) : r.ts < s.ts \/ r.ts = s.ts
    BY DEF Release, Releasable, IsLowest, EmissionRule
  <2> QED
    BY <2>1, <2>2, NotReleased
<1> QED
  BY <1>3, <1>4, <1>5 DEF Ordered!IsNext, Ordered!Wanted, Wanted, Before,
     Ordered!Before

\* Every step is a step of the ordered source, or leaves its variables alone.
LEMMA OrderedStep ==
  ASSUME IndInv, KnownRecords, [Next]_vars
  PROVE  [Ordered!OrderedNext]_(Ordered!orderedVars)
<1> DEFINE D == drained /\ pc = "idle"
<1> USE DEF Ordered!orderedVars, Ordered!sourceVars, Ordered!logVars
<1>1. ASSUME UNCHANGED <<history, bound, floor, from, scannedTs, released>>,
             D' = D
      PROVE  UNCHANGED Ordered!orderedVars
  BY <1>1
<1>2. ASSUME NEW g \in Group, LogStep(g) PROVE Ordered!OrderedNext
  BY <1>2 DEF LogStep, Ordered!OrderedNext, Ordered!LogNext, Ordered!Arrive,
     Ordered!AdvanceBound, Ordered!Purge, Arrive, AdvanceBound, Purge, srcVars,
     pullVars, fetchVars
<1>3. CASE CallNext
  BY <1>3 DEF CallNext, Ordered!OrderedNext, Ordered!SourceNext,
     Ordered!StartPull, logVars, fetchVars
<1>4. CASE ReturnNone
  <2>1. BoundReleased
    BY <1>4 DEF ReturnNone, IndInv, DrainInv
  <2> QED
    BY <1>4, <2>1 DEF ReturnNone, Ordered!OrderedNext, Ordered!SourceNext,
       Ordered!Drain, Ordered!BoundDelivered, Ordered!Wanted, BoundReleased,
       Wanted, logVars, fetchVars
<1>5. ASSUME NEW g \in Group, NEW r \in Buffered(g), Release(g, r)
      PROVE  Ordered!OrderedNext
  <2>1. Ordered!IsNext(g, r)
    BY <1>5, ReleasedIsNext
  <2>2. r \in Record[g]
    BY <1>5 DEF IndInv, FetchInv, FetchOK, Fetched, Wanted, KnownRecords
  <2>3. Ordered!Deliver(g, r)
    BY <1>5, <2>1 DEF Release, Ordered!Deliver, logVars
  <2> QED
    BY <2>2, <2>3 DEF Ordered!OrderedNext, Ordered!SourceNext
<1>6. ASSUME NEW g \in Group, CollectPage(g)
      PROVE  [Ordered!OrderedNext]_(Ordered!orderedVars)
  <2>1. /\ scannedTs' = [scannedTs EXCEPT ![g] = scannedTs'[g]]
        /\ scannedTs'[g] \in 0 .. MaxTs /\ scannedTs[g] <= scannedTs'[g]
        /\ scannedTs'[g] = scannedTs[g] \/ scannedTs'[g] <= bound[g]
    BY <1>6, CollectPageBoundary
  <2>2. /\ UNCHANGED <<history, bound, floor, from, released>>
        /\ ~D /\ ~D'
    BY <1>6 DEF CollectPage, Collecting, CollectPlace, logVars
  <2>3. /\ scannedTs[g] \in Int /\ bound[g] \in Int /\ MaxTs \in Nat
        /\ scannedTs \in [Group -> 0 .. MaxTs]
    BY GroupTypes, BoundsAssumption DEF IndInv, TypeOK
  <2>4. CASE scannedTs'[g] = scannedTs[g]
    <3>1. scannedTs' = scannedTs
      BY <2>1, <2>3, <2>4
    <3> QED
      BY <1>1, <2>2, <3>1
  <2>5. CASE scannedTs'[g] # scannedTs[g]
    <3>1. scannedTs'[g] \in 0 .. bound[g] /\ scannedTs'[g] > scannedTs[g]
      BY <2>1, <2>3, <2>5
    <3>2. Ordered!Fetch(g)
      BY <2>1, <2>2, <3>1 DEF Ordered!Fetch
    <3> QED
      BY <3>2 DEF Ordered!OrderedNext, Ordered!SourceNext
  <2> QED
    BY <2>4, <2>5
<1>7. ASSUME NEW g \in Group, Answer(g) \/ BecomeReady(g)
      PROVE  UNCHANGED Ordered!orderedVars
  <2>1. /\ UNCHANGED <<history, bound, floor, from, scannedTs, released>>
        /\ drained' = drained /\ pc' = pc
    BY <1>7 DEF Answer, AnswerPage, AnswerFatal, AnswerRetry, Answered,
       BecomeReady, logVars, fetchVars, pullVars
  <2> QED
    BY <1>1, <2>1, Zenon
<1>8. ASSUME NEW g \in Group,
             \/ CollectNothing(g) \/ CollectRetry(g) \/ CollectFatal(g)
             \/ DropExhausted(g) \/ IssueScan(g)
      PROVE  UNCHANGED Ordered!orderedVars
  BY <1>1, <1>8 DEF CollectNothing, CollectRetry, CollectFatal, Collecting,
     CollectPlace, DropExhausted, IssueScan, logVars, fetchVars, pullVars
<1>9. CASE PickNone \/ EnterWait \/ Wake \/ Tick
  BY <1>1, <1>9 DEF PickNone, Picking, CollectPlace, EnterWait, Wake, Tick,
     logVars, fetchVars
<1>10. CASE UNCHANGED vars
  BY <1>1, <1>10 DEF vars, logVars, srcVars, pullVars, fetchVars
<1> QED
  BY <1>2, <1>3, <1>4, <1>5, <1>6, <1>7, <1>8, <1>9, <1>10 DEF Next, PullStep,
     Collect

\* The source implements the ordered source that the event stream relies on:
\* its pages, calls, retries and waits never show.
THEOREM Refinement == Spec => ImplementsOrderedSource
<1>1. Init => Ordered!OrderedInit
  BY DEF Init, Ordered!OrderedInit, Ordered!LogInit, Ordered!SourceInit,
     StartBoundary
<1>2. Init => KnownRecords
  BY DEF Init, KnownRecords
<1> QED
  BY <1>1, <1>2, Inductive, KnownStep, OrderedStep, PTL
     DEF Spec, ImplementsOrderedSource, Ordered!OrderedSpec
=============================================================================
