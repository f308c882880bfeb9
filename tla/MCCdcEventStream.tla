-------------------------- MODULE MCCdcEventStream --------------------------
(***************************************************************************)
(* Instances of CdcEventStream for TLC.                                    *)
(***************************************************************************)
EXTENDS CdcEventStream, TLC

D(t, k) == [ts |-> t, stream |-> "data", key |-> k]
S(t, k) == [ts |-> t, stream |-> "ddl", key |-> k]

Watched == [db |-> "d", coll |-> "c"]
Other == [db |-> "d", coll |-> "o"]
Admin == [db |-> "admin", coll |-> "c"]

CollectionScope == [kind |-> "collection", db |-> "d", coll |-> "c"]
DeploymentScope == [kind |-> "deployment", db |-> "", coll |-> ""]

Section(ns, keys) == [ns |-> ns, documents |-> TRUE, keys |-> keys]
Index(ns, keys) == [ns |-> ns, documents |-> FALSE, keys |-> keys]
Op(type, rolledBack, ns) ==
    [type |-> type, rolledBack |-> rolledBack, documents |-> TRUE, ns |-> ns]

MCStart == {[g \in Group |-> 1]}

\* Documents and DDL in every database but the excluded ones.  Transaction 7 is
\* logged twice in group 1, at timestamp 2, with change 12 in both records, next
\* to an index build and a create that was rolled back, both at the same
\* timestamp.  Group 2 has two schema operations at timestamp 3, of which each is
\* an event of its own: a create, and an index build that was rolled back.
Late == [db |-> "d", coll |-> "n"]
MixedRecord == 1 :> {D(2, 1), D(2, 2), S(2, 1), S(2, 2)} @@ 2 :> {S(3, 1), S(3, 2)}
MixedBlob ==
    1 :> (D(2, 1) :> [txn |-> 7, sections |->
             <<Section(Watched, <<11, 12>>), Index(Watched, <<11>>)>>]
       @@ D(2, 2) :> [txn |-> 7, sections |->
             <<Section(Admin, <<91>>), Section(Watched, <<12>>)>>])
    @@ 2 :> <<>>
MixedSchemaOp ==
    1 :> (S(2, 1) :> Op("addIndex", FALSE, Watched)
       @@ S(2, 2) :> Op("createTable", TRUE, Late))
    @@ 2 :> (S(3, 1) :> Op("createTable", FALSE, Late)
          @@ S(3, 2) :> Op("addIndex", TRUE, Other))

\* A collection with changes at 2 in both groups, dropped at 3 and created
\* again at 4, next to a drop of another collection.
DropRecord == 1 :> {D(2, 1), S(3, 1)} @@ 2 :> {D(2, 1), S(3, 1), S(4, 1)}
DropBlob ==
    1 :> (D(2, 1) :> [txn |-> 7, sections |-> <<Section(Watched, <<11>>)>>])
    @@ 2 :> (D(2, 1) :> [txn |-> 8, sections |-> <<Section(Watched, <<21>>)>>])
DropSchemaOp ==
    1 :> (S(3, 1) :> Op("dropTable", FALSE, Watched))
    @@ 2 :> (S(3, 1) :> Op("dropTable", FALSE, Other)
          @@ S(4, 1) :> Op("createTable", FALSE, Watched))

\* For liveness, one change before the drop, and the create.
LiveRecord == 1 :> {D(2, 1), S(3, 1)} @@ 2 :> {S(4, 1)}
=============================================================================
