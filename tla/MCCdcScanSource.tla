-------------------------- MODULE MCCdcScanSource --------------------------
(***************************************************************************)
(* Instances of CdcScanSource for TLC.                                     *)
(***************************************************************************)
EXTENDS CdcScanSource, TLC

D(t, k) == [ts |-> t, stream |-> "data", key |-> k]
S(t, k) == [ts |-> t, stream |-> "ddl", key |-> k]

\* Group 1 has two records at timestamp 2, one in each stream, so that a page
\* can be cut inside the timestamp; group 2 has one below, which may be purged
\* under a scan that has not come to it.
MCRecord == 1 :> {D(2, 1), S(2, 1)} @@ 2 :> {D(1, 1)}

MCStart == {[g \in Group |-> 1]}

\* For liveness: group 2's record waits for group 1, which stays empty and is
\* always scanned first.
MCLiveRecord == 1 :> {} @@ 2 :> {D(2, 1)}

=============================================================================
