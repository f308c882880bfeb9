------------------------------- MODULE CdcLog -------------------------------
(***************************************************************************)
(* The log service as a change stream sees it.  The service is a git       *)
(* submodule whose sources are not in this repository, so everything here  *)
(* is external: it is modelled from how the change stream uses CdcScan and *)
(* from CdcFakeLogService, the service's stand-in in the unit tests.       *)
(*                                                                         *)
(* A log group keeps two streams of records, data and DDL, each ordered by *)
(* its storage key: a timestamp and what follows it.  Records arrive in    *)
(* any order, but never at or below the group's bound, its                 *)
(* arrival_complete_ts.  A scan returns a prefix of the records above a    *)
(* position and at or below the bound, in the merged order of the two      *)
(* streams: by timestamp, data before DDL at one timestamp.                *)
(***************************************************************************)
EXTENDS Integers

CONSTANTS
    Group,      \* the ids of the log groups
    Record,     \* Record[g] is the set of records that may ever reach group g
    MaxTs,      \* the highest timestamp
    MaxFloor    \* the highest retention floor; 0 when nothing is ever purged

Stream == {"data", "ddl"}

RecordType == [ts : 1 .. MaxTs, stream : Stream, key : Nat]

ASSUME GroupAssumption == Group \subseteq Nat /\ Group # {}
ASSUME BoundsAssumption == MaxTs \in Nat /\ MaxFloor \in 0 .. MaxTs
ASSUME RecordAssumption ==
    /\ DOMAIN Record = Group
    /\ \A g \in Group : Record[g] \subseteq RecordType

VARIABLES
    history,    \* history[g]: every record that has reached group g
    bound,      \* bound[g]: the group's arrival_complete_ts
    floor       \* floor[g]: records at or below it have been purged

logVars == <<history, bound, floor>>

LogTypeOK ==
    /\ history \in [Group -> SUBSET RecordType]
    /\ bound \in [Group -> 0 .. MaxTs]
    /\ floor \in [Group -> 0 .. MaxFloor]

-----------------------------------------------------------------------------
(***************************************************************************)
(* Storage keys and positions.  A position names, per stream, the key a    *)
(* scan continues after; a scan from a timestamp starts at the key that is *)
(* the timestamp alone, which sorts before every record at it.             *)
(***************************************************************************)

Key == [ts : 0 .. MaxTs + 1, key : Nat \cup {-1}]
Position == [Stream -> Key]

KeyOf(r) == [ts |-> r.ts, key |-> r.key]
KeyLess(a, b) == a.ts < b.ts \/ (a.ts = b.ts /\ a.key < b.key)

FromTs(ts) == [s \in Stream |-> [ts |-> ts, key |-> -1]]

\* Whether record r lies above position p.
After(p, r) == KeyLess(p[r.stream], KeyOf(r))

\* The merged order of a group's two streams.
Before(r, s) ==
    \/ r.ts < s.ts
    \/ r.ts = s.ts /\ r.stream = "data" /\ s.stream = "ddl"
    \/ r.ts = s.ts /\ r.stream = s.stream /\ r.key < s.key

-----------------------------------------------------------------------------
(***************************************************************************)
(* What the group does on its own.                                         *)
(***************************************************************************)

\* A record arrives.  Its timestamp was chosen before it was logged, so it
\* may be below records that are already there, but never below the bound.
Arrive(g) ==
    /\ \E r \in Record[g] \ history[g] :
          /\ r.ts > bound[g]
          /\ history' = [history EXCEPT ![g] = @ \cup {r}]
    /\ UNCHANGED <<bound, floor>>

\* A checkpoint round completes.
AdvanceBound(g) ==
    /\ \E b \in (bound[g] + 1) .. MaxTs : bound' = [bound EXCEPT ![g] = b]
    /\ UNCHANGED <<history, floor>>

\* History at or below f is purged.
Purge(g) ==
    /\ \E f \in (floor[g] + 1) .. MaxFloor :
          /\ f <= bound[g]
          /\ floor' = [floor EXCEPT ![g] = f]
    /\ UNCHANGED <<history, bound>>

-----------------------------------------------------------------------------
(***************************************************************************)
(* What CdcScan answers.                                                   *)
(***************************************************************************)

\* PositionTruncated: the scan would start in purged history.
Truncated(g, p) == floor[g] # 0 /\ p["data"].ts <= floor[g]

Available(g, p, b) ==
    {r \in history[g] : r.ts > floor[g] /\ After(p, r) /\ r.ts <= b}

\* The pages that may be cut from S: a prefix of it in the merged order, as
\* long as max_bytes and the records' sizes make it, but at least one record.
Pages(S) ==
    {P \in SUBSET S : /\ P = {} => S = {}
                      /\ \A r \in P : \A s \in S : Before(s, r) => s \in P}

\* The key of page P's last record of stream s, as a singleton; the old key
\* when the page has none.
LastKey(p, P, s) ==
    LET keys == {KeyOf(r) : r \in {r \in P : r.stream = s}}
    IN  IF keys = {} THEN {p[s]}
                     ELSE {k \in keys : \A j \in keys : ~KeyLess(k, j)}

\* The continuation returned with page P of a scan from p, as a singleton.
Continuations(p, P) ==
    {[s \in Stream |-> IF s = "data" THEN d ELSE e] :
        d \in LastKey(p, P, "data"), e \in LastKey(p, P, "ddl")}

=============================================================================
