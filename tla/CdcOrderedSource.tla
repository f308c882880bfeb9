-------------------------- MODULE CdcOrderedSource --------------------------
(***************************************************************************)
(* What CdcScanSource promises its caller, without pages, calls, retries   *)
(* or time: the records of the log groups one at a time, none overtaking   *)
(* an older one, each group's in the merged order of its two streams, and  *)
(* a drained flag that makes emitBound() a watermark.                      *)
(*                                                                         *)
(* CdcScanSource implements this specification (ImplementsOrderedSource    *)
(* there), and CdcEventStream is built on it.                              *)
(***************************************************************************)
EXTENDS CdcLog

CONSTANTS Start         \* the start timestamps a stream may be opened with

ASSUME StartAssumption ==
    \A f \in Start : f \in [Group -> 1 .. MaxTs + 1]

VARIABLES
    from,           \* from[g]: the first timestamp to deliver
    scannedTs,      \* scannedTs[g]: the group's completeness boundary
    released,       \* released[g]: the records delivered
    drained         \* the last pull returned none, and no pull is running

sourceVars == <<from, scannedTs, released, drained>>

\* The records of group g that belong to the stream.
Wanted(g) == {r \in history[g] : r.ts >= from[g]}

SourceInit ==
    /\ from \in Start
    /\ scannedTs = [g \in Group |-> from[g] - 1]
    /\ released = [g \in Group |-> {}]
    /\ drained = FALSE

LogInit ==
    /\ history \in [Group -> SUBSET UNION {Record[g] : g \in Group}]
    /\ \A g \in Group : history[g] \subseteq Record[g]
    /\ bound \in [Group -> 0 .. MaxTs]
    /\ floor = [g \in Group |-> 0]

\* A pull starts: what it fetches may move emitBound() past what is released.
StartPull ==
    /\ drained' = FALSE
    /\ UNCHANGED <<logVars, from, scannedTs, released>>

\* A page moves a group's boundary, never beyond the bound.
Fetch(g) ==
    /\ ~drained
    /\ \E t \in 0 .. bound[g] :
          /\ t > scannedTs[g]
          /\ scannedTs' = [scannedTs EXCEPT ![g] = t]
    /\ UNCHANGED <<logVars, from, released, drained>>

\* Record r of group g is the next one.
IsNext(g, r) ==
    /\ r \in Wanted(g) \ released[g]
    /\ r.ts <= bound[g]
    /\ \A s \in Wanted(g) \ released[g] : s = r \/ Before(r, s)
    /\ \A h \in Group \ {g} :
          /\ r.ts <= scannedTs[h] + 1
          /\ \A s \in Wanted(h) \ released[h] : r.ts <= s.ts

\* A pull returns r.
Deliver(g, r) ==
    /\ IsNext(g, r)
    /\ released' = [released EXCEPT ![g] = @ \cup {r}]
    /\ drained' = FALSE
    /\ UNCHANGED <<logVars, from, scannedTs>>

\* Everything at or below emitBound() has been delivered.
BoundDelivered ==
    \A g \in Group : \A r \in Wanted(g) :
        (\A h \in Group : r.ts <= scannedTs[h]) => r \in released[g]

\* A pull returns none.
Drain ==
    /\ BoundDelivered
    /\ drained' = TRUE
    /\ UNCHANGED <<logVars, from, scannedTs, released>>

LogNext == \E g \in Group : Arrive(g) \/ AdvanceBound(g) \/ Purge(g)

SourceNext ==
    \/ StartPull
    \/ Drain
    \/ \E g \in Group : Fetch(g) \/ \E r \in Record[g] : Deliver(g, r)

OrderedInit == LogInit /\ SourceInit
OrderedNext ==
    \/ LogNext /\ UNCHANGED sourceVars
    \/ SourceNext

orderedVars == <<logVars, sourceVars>>
OrderedSpec == OrderedInit /\ [][OrderedNext]_orderedVars
=============================================================================
