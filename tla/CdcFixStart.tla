---------------------------- MODULE CdcFixStart ----------------------------
(***************************************************************************)
(* CdcScanSource::fixStart(): where a stream opened without a token        *)
(* starts.  Every group is probed for its bound, with a scan from the      *)
(* highest timestamp that can return no record, until all of them are      *)
(* above zero; the stream starts above the lowest.                         *)
(*                                                                         *)
(* Each pass probes the groups, collects what has been answered (pc is     *)
(* probe, then collect, with the groups still to visit in todo) and        *)
(* decides: the start is fixed (started), the deadline has passed (none),  *)
(* or it waits.  Meanwhile records arrive, checkpoint rounds complete, and *)
(* leaders change: a new one may report an older bound.                    *)
(***************************************************************************)
EXTENDS CdcLog

VARIABLES
    noHistory,      \* the groups whose log state keeps no history
    arrival,        \* arrivalCompleteTs, 0 until a bound above it was reported
    call,           \* call[g]: the probe, [state, bound]
    deferred,       \* deferred[g]: the client's readyAt is ahead
    notified,       \* the wait object's flag
    pc, todo,
    first,          \* the first pass
    clock,          \* what is left until the deadline: "ample", "short", "past"
    start           \* the start timestamp fixStart() returned; 0 until then

world == <<logVars, noHistory>>
probeVars == <<arrival, call, deferred>>
vars == <<world, probeVars, notified, pc, todo, first, clock, start>>

NoCall == [state |-> "none", bound |-> 0]

Init ==
    /\ history \in [Group -> SUBSET UNION {Record[g] : g \in Group}]
    /\ \A g \in Group : history[g] \subseteq Record[g]
    /\ bound \in [Group -> 0 .. MaxTs]
    /\ floor = [g \in Group |-> 0]
    /\ noHistory \in SUBSET Group
    /\ arrival = [g \in Group |-> 0]
    /\ call = [g \in Group |-> NoCall]
    /\ deferred = [g \in Group |-> FALSE]
    /\ notified = FALSE
    /\ pc = "probe"
    /\ todo = Group
    /\ first = TRUE
    /\ clock \in {"ample", "short", "past"}
    /\ start = 0

-----------------------------------------------------------------------------
(***************************************************************************)
(* The log groups and time.                                                *)
(***************************************************************************)

LogStep(g) ==
    /\ Arrive(g) \/ AdvanceBound(g)
    /\ UNCHANGED <<noHistory, probeVars, notified, pc, todo, first, clock, start>>

\* A probe is answered with a bound the group has had, fails, or meets a log
\* state without CdcScan.
Answer(g) ==
    /\ call[g].state = "sent"
    /\ \/ /\ g \notin noHistory
          /\ \E b \in 0 .. bound[g] :
                call' = [call EXCEPT ![g] = [state |-> "page", bound |-> b]]
       \/ g \in noHistory /\ call' = [call EXCEPT ![g].state = "unsupported"]
       \/ call' = [call EXCEPT ![g].state = "retry"]
    /\ notified' = TRUE
    /\ UNCHANGED <<world, arrival, deferred, pc, todo, first, clock, start>>

Tick ==
    /\ \/ clock = "ample" /\ clock' = "short"
       \/ clock = "short" /\ clock' = "past"
    /\ UNCHANGED <<world, probeVars, notified, pc, todo, first, start>>

BecomeReady(g) ==
    /\ deferred[g]
    /\ deferred' = [deferred EXCEPT ![g] = FALSE]
    /\ UNCHANGED <<world, arrival, call, notified, pc, todo, first, clock, start>>

-----------------------------------------------------------------------------
(***************************************************************************)
(* fixStart().                                                             *)
(***************************************************************************)

\* The loop over the groups goes on, and then to the next place.
Visit(g, place) ==
    /\ g \in todo
    /\ \A h \in todo : g <= h
    /\ IF todo = {g} THEN pc' = place /\ todo' = Group
                     ELSE pc' = pc /\ todo' = todo \ {g}

\* Mutant: a group that has reported its bound is probed again.
MustProbeAlways(g) == first \/ clock = "ample"

\* A probe goes out while the group's bound is unknown, on the first pass or with
\* enough time left.
MustProbe(g) == (first \/ clock = "ample") /\ arrival[g] = 0

Probe(g) ==
    /\ pc = "probe"
    /\ Visit(g, "collect")
    /\ call' = IF MustProbe(g) /\ call[g].state = "none" /\ ~deferred[g]
               THEN [call EXCEPT ![g].state = "sent"]
               ELSE call
    /\ UNCHANGED <<world, arrival, deferred, notified, first, clock, start>>

\* takeCompleted finds nothing, or a probe the client will retry, at once or
\* after a backoff.
CollectNothing(g) ==
    /\ pc = "collect"
    /\ call[g].state \in {"none", "sent", "retry"}
    /\ Visit(g, "decide")
    /\ IF call[g].state = "retry"
       THEN /\ call' = [call EXCEPT ![g] = NoCall]
            /\ \E d \in BOOLEAN : deferred' = [deferred EXCEPT ![g] = d]
       ELSE UNCHANGED <<call, deferred>>
    /\ UNCHANGED <<world, arrival, notified, first, clock, start>>

\* CommandNotSupported is thrown.
CollectUnsupported(g) ==
    /\ pc = "collect"
    /\ call[g].state = "unsupported"
    /\ g \in todo /\ \A h \in todo : g <= h
    /\ call' = [call EXCEPT ![g] = NoCall]
    /\ pc' = "failed"
    /\ UNCHANGED <<world, arrival, deferred, notified, todo, first, clock, start>>

\* A bound; one that says nothing new may have come early, and is followed by a
\* pause then.
CollectBound(g) ==
    /\ pc = "collect"
    /\ call[g].state = "page"
    /\ Visit(g, "decide")
    /\ call' = [call EXCEPT ![g] = NoCall]
    /\ \/ /\ call[g].bound > arrival[g]
          /\ arrival' = [arrival EXCEPT ![g] = call[g].bound]
          /\ UNCHANGED deferred
       \/ /\ call[g].bound <= arrival[g]
          /\ \E d \in BOOLEAN : deferred' = [deferred EXCEPT ![g] = d]
          /\ UNCHANGED arrival
    /\ UNCHANGED <<world, notified, first, clock, start>>

\* Mutant: the groups that have not answered are left out.
IsStartOfSome(s) == s # 0 /\ \E g \in Group : arrival[g] = s

\* The lowest bound, once no group's is zero.
IsStart(s) ==
    /\ s # 0
    /\ \E g \in Group : arrival[g] = s
    /\ \A g \in Group : s <= arrival[g]

\* Mutant: the timestamp the groups were started from is returned.
StartedAbove ==
    /\ pc = "decide"
    /\ \E s \in 1 .. MaxTs : IsStart(s) /\ start' = s + 1
    /\ pc' = "started"
    /\ UNCHANGED <<world, probeVars, notified, todo, first, clock>>

\* Every group is started above the lowest bound, which is returned.
Started ==
    /\ pc = "decide"
    /\ \E s \in 1 .. MaxTs : IsStart(s) /\ start' = s
    /\ pc' = "started"
    /\ UNCHANGED <<world, probeVars, notified, todo, first, clock>>

\* Mutant: the deadline is not looked at.
GivesUpNever == FALSE

GivesUp == clock = "past"

NotStarted ==
    /\ pc = "decide"
    /\ \A s \in 1 .. MaxTs : ~IsStart(s)
    /\ pc' = IF GivesUp THEN "none" ELSE "wait"
    /\ UNCHANGED <<world, probeVars, notified, todo, first, clock, start>>

\* The wait ends at a notification, at the deadline, or when a group that has
\* to be probed is ready, which it may have been before the wait.
Wake ==
    /\ pc = "wait"
    /\ \/ notified
       \/ clock = "past"
       \/ \E g \in Group : arrival[g] = 0 /\ call[g].state = "none" /\ ~deferred[g]
    /\ notified' = FALSE
    /\ pc' = "probe"
    /\ first' = FALSE
    /\ UNCHANGED <<world, probeVars, todo, clock, start>>

Loop ==
    \/ \E g \in Group :
          Probe(g) \/ CollectNothing(g) \/ CollectUnsupported(g) \/ CollectBound(g)
    \/ Started \/ NotStarted \/ Wake

Next ==
    \/ \E g \in Group : LogStep(g) \/ Answer(g) \/ BecomeReady(g)
    \/ Tick
    \/ Loop

Spec == Init /\ [][Next]_vars

\* The server runs the open, and time passes.  Nothing is assumed of the log
\* groups: they may never answer.
LiveSpec == Spec /\ WF_vars(Loop) /\ WF_vars(Tick)

-----------------------------------------------------------------------------
(***************************************************************************)
(* Properties.                                                             *)
(***************************************************************************)

\* The state has its types.
TypeOK ==
    /\ LogTypeOK
    /\ noHistory \subseteq Group
    /\ arrival \in [Group -> 0 .. MaxTs]
    /\ call \in [Group -> [state : {"none", "sent", "page", "retry", "unsupported"},
                           bound : 0 .. MaxTs]]
    /\ deferred \in [Group -> BOOLEAN]
    /\ notified \in BOOLEAN
    /\ pc \in {"probe", "collect", "decide", "wait", "started", "none", "failed"}
    /\ todo \subseteq Group
    /\ first \in BOOLEAN
    /\ clock \in {"ample", "short", "past"}
    /\ start \in 0 .. MaxTs

\* A stream opened without a token misses nothing that happens after it was
\* opened: no record that arrives later, in any group, lies at or below its
\* start, although the groups' bounds were read at different times.
MissesNothing ==
    [][pc = "started" => \A g \in Group : \A r \in history'[g] \ history[g] :
          r.ts > start]_vars

\* No probe is out when the stream starts: next() would take its answer for the
\* first page and continue from the highest timestamp.
NoProbeLeft == pc = "started" => \A g \in Group : call[g] = NoCall

\* The open ends, with a start, without one at its deadline, or with an error,
\* even if a group never answers.
OpenEnds == <>(pc \in {"started", "none", "failed"})

=============================================================================
