------------------------- MODULE CdcFixStartProofs -------------------------
(***************************************************************************)
(* Proofs about CdcFixStart, for any log groups, records and timestamps:   *)
(* its type invariant, that a start is fixed only when no probe is out,    *)
(* and that nothing that arrives afterwards lies at or below the start.    *)
(***************************************************************************)
EXTENDS CdcFixStart, TLAPS

\* A bound that a group has reported, or whose report is on its way, is one the
\* group has reached; only a page carries a bound.
ReportsOK ==
    \A g \in Group :
        /\ arrival[g] <= bound[g]
        /\ call[g].bound <= bound[g]
        /\ call[g].state # "page" => call[g].bound = 0

\* A probe is out only in a group whose bound is not known yet.
ProbesOK == \A g \in Group : call[g].state # "none" => arrival[g] = 0

\* A start that is fixed lies at or below every group's bound, and no group
\* lacks one.
StartOK ==
    pc = "started" => \A g \in Group : start <= bound[g] /\ arrival[g] # 0

\* The invariant.
IndInv == TypeOK /\ ReportsOK /\ ProbesOK /\ StartOK

\* The records that may reach a group are records.
LEMMA RecordsAreTyped == \A g \in Group : Record[g] \subseteq RecordType
  BY RecordAssumption

\* The open begins without probes and bounds.
LEMMA IndInit == Init => IndInv
<1> SUFFICES ASSUME Init PROVE IndInv
  OBVIOUS
<1>1. TypeOK
  <2>1. LogTypeOK
    <3>1. history \in [Group -> SUBSET RecordType]
      BY RecordsAreTyped DEF Init
    <3>2. QED
      BY <3>1, BoundsAssumption DEF Init, LogTypeOK
  <2>2. deferred \in [Group -> BOOLEAN] /\ notified \in BOOLEAN /\ first \in BOOLEAN
    BY Zenon DEF Init
  <2>3. QED
    BY <2>1, <2>2, BoundsAssumption DEF Init, TypeOK, NoCall
<1>2. ReportsOK /\ ProbesOK /\ StartOK
  BY BoundsAssumption DEF Init, ReportsOK, ProbesOK, StartOK, NoCall
<1>3. QED
  BY <1>1, <1>2 DEF IndInv

\* The loops over the groups stay inside Group.
LEMMA VisitFacts ==
  ASSUME NEW g \in Group, NEW place, Visit(g, place), todo \subseteq Group
  PROVE  todo' \subseteq Group /\ pc' \in {pc, place}
  BY DEF Visit

\* What the log groups, the network and time do keeps the invariant: bounds only
\* grow, and an answer carries a bound the group has had.
LEMMA WorldStep ==
  ASSUME IndInv,
         \/ \E g \in Group : LogStep(g) \/ Answer(g) \/ BecomeReady(g)
         \/ Tick
  PROVE  IndInv'
<1> USE DEF IndInv, ReportsOK, ProbesOK, StartOK
<1>1. ASSUME NEW g \in Group, Arrive(g), LogStep(g) PROVE IndInv'
  <2>1. history' \in [Group -> SUBSET RecordType]
    BY <1>1, RecordsAreTyped DEF Arrive, TypeOK, LogTypeOK
  <2>2. TypeOK'
    BY <1>1, <2>1 DEF Arrive, LogStep, probeVars, TypeOK, LogTypeOK
  <2>3. QED
    BY <1>1, <2>2 DEF Arrive, LogStep, probeVars
<1>2. ASSUME NEW g \in Group, AdvanceBound(g), LogStep(g) PROVE IndInv'
  <2>1. /\ bound' \in [Group -> 0 .. MaxTs]
        /\ \A h \in Group : bound[h] <= bound'[h]
    BY <1>2, BoundsAssumption DEF AdvanceBound, TypeOK, LogTypeOK
  <2>2. UNCHANGED <<history, floor, noHistory, arrival, call, deferred, notified,
                    pc, todo, first, clock, start>>
    BY <1>2 DEF AdvanceBound, LogStep, probeVars
  <2>3. TypeOK'
    BY <2>1, <2>2 DEF TypeOK, LogTypeOK
  <2>4. QED
    BY <2>1, <2>2, <2>3, BoundsAssumption DEF TypeOK, LogTypeOK
<1>3. ASSUME NEW g \in Group, Answer(g) PROVE IndInv'
  <2>1. UNCHANGED <<history, bound, floor, noHistory, arrival, deferred, pc, todo,
                    first, clock, start>> /\ notified' = TRUE
    BY <1>3 DEF Answer, world, logVars
  <2> DEFINE Good ==
        /\ call' \in [Group -> [state : {"none", "sent", "page", "retry", "unsupported"},
                                bound : 0 .. MaxTs]]
        /\ \A h \in Group \ {g} : call'[h] = call[h]
        /\ call'[g].bound <= bound[g]
        /\ call'[g].state # "page" => call'[g].bound = 0
  <2>2. Good
    <3>1. ASSUME NEW b \in 0 .. bound[g],
                 call' = [call EXCEPT ![g] = [state |-> "page", bound |-> b]]
          PROVE  Good
      BY <3>1, BoundsAssumption DEF TypeOK, LogTypeOK
    <3>2. ASSUME NEW s \in {"retry", "unsupported"},
                 call' = [call EXCEPT ![g].state = s]
          PROVE  Good
      BY <1>3, <3>2, BoundsAssumption DEF TypeOK, LogTypeOK, Answer
    <3>3. QED
      BY <1>3, <3>1, <3>2 DEF Answer
  <2>3. TypeOK'
    <3>1. notified' \in BOOLEAN
      BY <2>1, Zenon
    <3>2. QED
      BY <2>1, <2>2, <3>1 DEF TypeOK, LogTypeOK
  <2>4. /\ call[g].state = "sent" /\ g \in DOMAIN call
        /\ bound \in [Group -> 0 .. MaxTs] /\ bound' = bound
    BY <1>3, <2>1 DEF Answer, TypeOK, LogTypeOK
  <2>5. ReportsOK'
    BY <2>1, <2>2, <2>4
  <2>6. ProbesOK'
    BY <2>1, <2>2, <2>4
  <2>7. StartOK'
    BY <2>1, <2>2, <2>4
  <2>8. QED
    BY <2>3, <2>5, <2>6, <2>7
<1>4. ASSUME NEW g \in Group, BecomeReady(g) PROVE IndInv'
  BY <1>4 DEF BecomeReady, world, logVars, TypeOK, LogTypeOK
<1>5. CASE Tick
  BY <1>5 DEF Tick, world, logVars, probeVars, TypeOK, LogTypeOK
<1>6. QED
  BY <1>1, <1>2, <1>3, <1>4, <1>5 DEF LogStep

\* The steps of fixStart() keep the invariant: a group is probed only while its
\* bound is not known, and the start is fixed only when all bounds are.
LEMMA LoopStep ==
  ASSUME IndInv, Loop
  PROVE  IndInv'
<1> USE DEF IndInv, ReportsOK, ProbesOK, StartOK, world, logVars, probeVars
<1>1. ASSUME NEW g \in Group, Probe(g) PROVE IndInv'
  <2>1. todo' \subseteq Group /\ pc' \in {"probe", "collect"}
    BY <1>1, VisitFacts DEF Probe, TypeOK
  <2>2. QED
    BY <1>1, <2>1 DEF Probe, MustProbe, TypeOK, LogTypeOK
<1>2. ASSUME NEW g \in Group, CollectNothing(g) PROVE IndInv'
  <2>1. todo' \subseteq Group /\ pc' \in {"collect", "decide"}
    BY <1>2, VisitFacts DEF CollectNothing, TypeOK
  <2>2. CASE call[g].state = "retry"
    <3>1. /\ call' = [call EXCEPT ![g] = NoCall]
          /\ deferred' \in [Group -> BOOLEAN]
      BY <1>2, <2>2 DEF CollectNothing, TypeOK
    <3>2. UNCHANGED <<history, bound, floor, noHistory, arrival, notified, first,
                      clock, start>>
      BY <1>2 DEF CollectNothing
    <3>3. QED
      BY <2>1, <3>1, <3>2, BoundsAssumption DEF NoCall, TypeOK, LogTypeOK
  <2>3. CASE call[g].state # "retry"
    BY <1>2, <2>1, <2>3 DEF CollectNothing, TypeOK, LogTypeOK
  <2>4. QED
    BY <2>2, <2>3
<1>3. ASSUME NEW g \in Group, CollectUnsupported(g) PROVE IndInv'
  BY <1>3, BoundsAssumption DEF CollectUnsupported, NoCall, TypeOK, LogTypeOK
<1>4. ASSUME NEW g \in Group, CollectBound(g) PROVE IndInv'
  <2>1. todo' \subseteq Group /\ pc' \in {"collect", "decide"}
    BY <1>4, VisitFacts DEF CollectBound, TypeOK
  <2>2. QED
    BY <1>4, <2>1, BoundsAssumption DEF CollectBound, NoCall, TypeOK, LogTypeOK
<1>5. CASE Started
  BY <1>5, BoundsAssumption DEF Started, IsStart, TypeOK, LogTypeOK
<1>6. CASE NotStarted
  BY <1>6 DEF NotStarted, TypeOK, LogTypeOK
<1>7. CASE Wake
  BY <1>7 DEF Wake, TypeOK, LogTypeOK
<1>8. QED
  BY <1>1, <1>2, <1>3, <1>4, <1>5, <1>6, <1>7 DEF Loop

\* The invariant holds throughout.
LEMMA IndInvariance == Spec => []IndInv
<1>1. Init => IndInv
  BY IndInit
<1>2. IndInv /\ [Next]_vars => IndInv'
  <2> SUFFICES ASSUME IndInv, [Next]_vars PROVE IndInv'
    OBVIOUS
  <2>1. CASE Next
    BY <2>1, WorldStep, LoopStep DEF Next
  <2>2. CASE UNCHANGED vars
    BY <2>2 DEF vars, world, logVars, probeVars, IndInv, TypeOK, LogTypeOK,
                ReportsOK, ProbesOK, StartOK
  <2>3. QED
    BY <2>1, <2>2
<1>3. QED
  BY <1>1, <1>2, PTL DEF Spec

\* The state of an open has its type, a start is never beyond the timestamps.
THEOREM TypeCorrect == Spec => []TypeOK
<1>1. IndInv => TypeOK
  BY DEF IndInv
<1>2. QED
  BY <1>1, IndInvariance, PTL

\* fixStart() leaves no probe behind when it returns a start, so that the first
\* page next() takes is an answer to a scan of its own.
THEOREM ProbesAreBack == Spec => []NoProbeLeft
<1>1. IndInv => NoProbeLeft
  BY DEF IndInv, TypeOK, ReportsOK, ProbesOK, StartOK, NoProbeLeft, NoCall
<1>2. QED
  BY <1>1, IndInvariance, PTL

\* Whatever arrives after fixStart() has returned lies above the start, in every
\* group, although their bounds were read at different times.
THEOREM StartMissesNothing == Spec => MissesNothing
<1>1. IndInv /\ [Next]_vars =>
        [pc = "started" => \A g \in Group : \A r \in history'[g] \ history[g] :
            r.ts > start]_vars
  <2> SUFFICES ASSUME IndInv, Next, pc = "started", NEW g \in Group,
                      NEW r \in history'[g] \ history[g]
               PROVE  r.ts > start
    BY DEF vars
  <2>1. PICK h \in Group : Arrive(h)
    BY DEF Next, LogStep, AdvanceBound, Answer, BecomeReady, Tick, Loop, Probe,
           CollectNothing, CollectUnsupported, CollectBound, Started, NotStarted,
           Wake, world, logVars
  <2>2. r \in RecordType /\ r.ts > bound[g]
    BY <2>1, RecordsAreTyped DEF Arrive, IndInv, TypeOK, LogTypeOK
  <2>3. QED
    BY <2>2, BoundsAssumption DEF IndInv, StartOK, TypeOK, LogTypeOK, RecordType
<1>2. QED
  BY <1>1, IndInvariance, PTL DEF Spec, MissesNothing

=============================================================================
