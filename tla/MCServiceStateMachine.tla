----------------------- MODULE MCServiceStateMachine -----------------------
(***************************************************************************)
(* Instances of ServiceStateMachine: two thread groups and one or two      *)
(* connections.                                                            *)
(***************************************************************************)
EXTENDS ServiceStateMachine

CONSTANTS g1, s1

\* All connections start on one group; a migration takes one to the other.
MCHomes == {[s \in Session |-> g1]}

\* s1's requests yield; another connection's share the queues with them.
MCMaxYields == [s \in Session |-> IF s = s1 THEN 2 ELSE 0]
=============================================================================
