------------------------- MODULE EloqRecoveryUnit -------------------------
(***************************************************************************)
(* The recovery unit of one operation (eloq_recovery_unit.cpp) with the    *)
(* catalog record store that writes through it (EloqCatalogRecordStore in  *)
(* eloq_record_store.cpp), while other nodes run DDL on the same tables.   *)
(*                                                                         *)
(* The unit holds at most one transaction of the tx service (`tx'), a      *)
(* cache of the table schemas that transaction has read (`discovered'),    *)
(* the metadata of tables with an index still being built (`unready',      *)
(* which is in no catalog record and outlives the transaction), and the    *)
(* undo records of the open unit of work (`changes').  The tx service is   *)
(* external: a catalog entry a transaction has read cannot be changed by   *)
(* another one until that transaction ends, a DDL request commits at once  *)
(* and at most one is made per transaction.                                *)
(***************************************************************************)
EXTENDS Naturals, Sequences

CONSTANTS
    Table,       \* collections
    Own,         \* indexes this operation builds and drops
    Other,       \* indexes the other nodes build and drop
    None,        \* no entry
    MaxChanges   \* bound: undo records of one unit of work

ASSUME ConstantsAssumption ==
    /\ MaxChanges \in Nat
    /\ Own \cap Other = {}
    /\ None \notin [ready : SUBSET (Own \cup Other),
                    building : SUBSET Own,
                    multikey : SUBSET (Own \cup Other)]

VARIABLES
    catalog,     \* the committed catalog entry of each table
    tx,          \* the transaction (_txm, _active)
    discovered,  \* _discoveredTableMap
    unready,     \* _unreadyTableMap
    changes,     \* _changes: which entry of unready, and its earlier value
    depth,       \* WriteUnitOfWork objects alive; _inUnitOfWork is depth > 0
    raised,      \* an exception is unwinding the WriteUnitOfWork objects
    before,      \* history: unready when the unit of work began
    undone,      \* history: the last unit of work that ended was rolled back
    carried      \* history: staged entries older than this unit of work

vars == <<catalog, tx, discovered, unready, changes, depth, raised,
          before, undone, carried>>

Index == Own \cup Other

Image == [ready : SUBSET Index, building : SUBSET Own, multikey : SUBSET Index]

Fresh == [ready |-> {}, building |-> {}, multikey |-> {}]

Nothing == [t \in Table |-> None]

NoTx == [active |-> FALSE, locked |-> {}, pending |-> Nothing,
         wrote |-> FALSE, upserted |-> FALSE]

Init ==
    /\ catalog \in [Table -> {None, Fresh}]
    /\ tx = NoTx
    /\ discovered = Nothing
    /\ unready = Nothing
    /\ changes = <<>>
    /\ depth = 0
    /\ raised = FALSE
    /\ before = Nothing
    /\ undone = FALSE
    /\ carried = {}

(***************************************************************************)
(* Units of work.                                                          *)
(***************************************************************************)

Running == ~raised

\* _txnClose(commit): the scans are closed, the transaction ends either way,
\* and the schemas it had read are forgotten.
\* Mutant: an aborted transaction leaves its schemas in the cache.
TxnCloseKeepsSchemas(committed) ==
    /\ tx' = NoTx
    /\ catalog' = [t \in Table |->
                     IF committed /\ tx.pending[t] # None THEN tx.pending[t]
                                                          ELSE catalog[t]]
    /\ discovered' = IF committed THEN Nothing ELSE discovered

TxnClose(committed) ==
    /\ tx' = NoTx
    /\ catalog' = [t \in Table |->
                     IF committed /\ tx.pending[t] # None THEN tx.pending[t]
                                                          ELSE catalog[t]]
    /\ discovered' = Nothing

\* The rollback() calls of _changes, last to first: what stays of an entry is
\* what its earliest undo record holds.
IsFirst(i) == \A j \in 1 .. (i - 1) : changes[j].table # changes[i].table

\* Mutant: the undo records run first to last.
RolledBackForwards ==
    [t \in Table |->
       IF \E i \in DOMAIN changes : changes[i].table = t
       THEN changes[CHOOSE i \in DOMAIN changes :
                      /\ changes[i].table = t
                      /\ \A j \in DOMAIN changes : changes[j].table = t => j <= i].prev
       ELSE unready[t]]

RolledBack ==
    [t \in Table |->
       IF \E i \in DOMAIN changes : changes[i].table = t
       THEN changes[CHOOSE i \in DOMAIN changes : changes[i].table = t /\ IsFirst(i)].prev
       ELSE unready[t]]

Rollback ==
    /\ unready' = RolledBack
    /\ changes' = <<>>
    /\ undone' = TRUE
    /\ carried' = {t \in Table : before[t] # None}

\* WriteUnitOfWork(): only the outermost one begins a unit of work.
BeginUnitOfWork ==
    /\ Running
    /\ depth < 2
    /\ depth' = depth + 1
    /\ before' = IF depth = 0 THEN unready ELSE before
    /\ undone' = IF depth = 0 THEN FALSE ELSE undone
    /\ UNCHANGED <<catalog, tx, discovered, unready, changes, raised, carried>>

\* WriteUnitOfWork::commit() of a nested one.
CommitNested ==
    /\ Running
    /\ depth = 2
    /\ depth' = 1
    /\ UNCHANGED <<catalog, tx, discovered, unready, changes, raised,
                   before, undone, carried>>

\* ... of the outermost one: commitUnitOfWork(), _commit().  When CommitTx
\* fails the transaction is over, the changes are rolled back and the exception
\* goes on to the caller, with the unit of work closed.
CommitUnitOfWork ==
    /\ Running
    /\ depth = 1
    /\ depth' = 0
    /\ TxnClose(TRUE)
    /\ changes' = <<>>
    /\ undone' = FALSE
    /\ carried' = {t \in Table : unready[t] # None}
    /\ UNCHANGED <<unready, raised, before>>

\* Mutant: the failed commit drops the undo records without running them.
CommitFailsForgetting ==
    /\ Running
    /\ depth = 1
    /\ tx.active
    /\ depth' = 0
    /\ TxnClose(FALSE)
    /\ unready' = unready
    /\ changes' = <<>>
    /\ undone' = TRUE
    /\ carried' = {t \in Table : before[t] # None}
    /\ UNCHANGED <<raised, before>>

CommitFails ==
    /\ Running
    /\ depth = 1
    /\ tx.active
    /\ depth' = 0
    /\ TxnClose(FALSE)
    /\ Rollback
    /\ UNCHANGED <<raised, before>>

\* ~WriteUnitOfWork() without a commit: the outermost one aborts.  A caller may
\* leave a unit of work because of an exception or by an early return.
Unwind ==
    /\ depth > 0
    /\ depth' = depth - 1
    /\ IF depth = 1 THEN /\ TxnClose(FALSE)
                         /\ Rollback
                         /\ raised' = FALSE
                    ELSE /\ raised' = TRUE
                         /\ UNCHANGED <<catalog, tx, discovered, unready, changes,
                                        undone, carried>>
    /\ UNCHANGED before

\* abandonSnapshot(): before the back-off of writeConflictRetry, at a yield.
AbandonSnapshot ==
    /\ Running
    /\ depth = 0
    /\ tx.active
    /\ TxnClose(FALSE)
    /\ UNCHANGED <<unready, changes, depth, raised, before, undone, carried>>

\* reset(): the recovery unit goes to the next operation.
Reset ==
    /\ Running
    /\ depth = 0
    /\ TxnClose(FALSE)
    /\ unready' = Nothing
    /\ changes' = <<>>
    /\ before' = Nothing
    /\ undone' = FALSE
    /\ carried' = {}
    /\ UNCHANGED <<depth, raised>>

(***************************************************************************)
(* The catalog record store.                                               *)
(***************************************************************************)

\* readCatalog(): opens the transaction when there is none; the entry read is
\* locked until the transaction ends (external).
Reading(t) == [tx EXCEPT !.active = TRUE, !.locked = @ \cup {t}]

\* discoverTable(): the cached schema, else the committed one.
Discovered(t) == IF discovered[t] # None THEN discovered[t] ELSE catalog[t]

TxAfterDiscover(t) == IF discovered[t] # None THEN tx ELSE Reading(t)

\* findRecord() of an existing table: the staged metadata hides the schema.
Found(t) == IF unready[t] # None THEN unready[t] ELSE Discovered(t)

\* findRecord().
FindRecord(t) ==
    /\ Running
    /\ tx' = TxAfterDiscover(t)
    /\ discovered' = [discovered EXCEPT ![t] = Discovered(t)]
    /\ UNCHANGED <<catalog, unready, changes, depth, raised, before, undone, carried>>

\* EloqKVEngine::lockCollection(): always reads the catalog; an entry already
\* in the cache stays (try_emplace).
LockCollection(t) ==
    /\ Running
    /\ tx' = Reading(t)
    /\ discovered' = [discovered EXCEPT ![t] = Discovered(t)]
    /\ UNCHANGED <<catalog, unready, changes, depth, raised, before, undone, carried>>

\* An insert, update or delete of documents of a table the transaction has
\* discovered, inside a unit of work.
DataWrite(t) ==
    /\ Running
    /\ depth > 0
    /\ discovered[t] # None
    /\ tx' = [tx EXCEPT !.wrote = TRUE]
    /\ UNCHANGED <<catalog, discovered, unready, changes, depth, raised,
                   before, undone, carried>>

Undo(t) == [table |-> t, prev |-> unready[t]]

\* putUnreadyTable(): the undo record keeps the entry it replaces, if any.
PutUnreadyTable(t, image) ==
    /\ changes' = Append(changes, Undo(t))
    /\ unready' = [unready EXCEPT ![t] = image]

\* eraseUnreadyTable(): no undo record when there was nothing to erase.
EraseUnreadyTable(t) ==
    /\ changes' = IF unready[t] # None THEN Append(changes, Undo(t)) ELSE changes
    /\ unready' = [unready EXCEPT ![t] = None]

\* updateTable() after readCatalog(for write): nothing to do when the entry does
\* not change; a write of this transaction when it has written documents; else a
\* DDL request that commits at once.  Then updateRecord() refreshes the cache.
\* Mutant: a committed DDL leaves the old schema in the cache.
UpdateTableKeepsSchema(t, image) ==
    \/ /\ image = catalog[t]
       /\ tx' = Reading(t)
       /\ UNCHANGED <<catalog, discovered, raised>>
    \/ /\ image # catalog[t] /\ tx.wrote
       /\ tx' = [Reading(t) EXCEPT !.pending[t] = image]
       /\ discovered' = [discovered EXCEPT ![t] = image]
       /\ UNCHANGED <<catalog, raised>>
    \/ /\ image # catalog[t] /\ ~tx.wrote /\ ~tx.upserted
       /\ catalog' = [catalog EXCEPT ![t] = image]
       /\ tx' = [Reading(t) EXCEPT !.upserted = TRUE, !.locked = tx.locked \ {t}]
       /\ UNCHANGED <<discovered, raised>>

UpdateTable(t, image) ==
    \/ /\ image = catalog[t]
       /\ tx' = Reading(t)
       /\ discovered' = [discovered EXCEPT ![t] = None]
       /\ UNCHANGED <<catalog, raised>>
    \/ /\ image # catalog[t] /\ tx.wrote
       /\ tx' = [Reading(t) EXCEPT !.pending[t] = image]
       /\ discovered' = [discovered EXCEPT ![t] = image]
       /\ UNCHANGED <<catalog, raised>>
    \/ /\ image # catalog[t] /\ ~tx.wrote /\ ~tx.upserted
       /\ catalog' = [catalog EXCEPT ![t] = image]
       /\ tx' = [Reading(t) EXCEPT !.upserted = TRUE, !.locked = tx.locked \ {t}]
       /\ discovered' = [discovered EXCEPT ![t] = None]
       /\ UNCHANGED raised

\* A catalog read that conflicts, a DDL request that is refused, or one whose
\* result is not known, so that the entry may be any of `outcomes': the caller
\* leaves the unit of work.
DdlFails(t, outcomes) ==
    /\ tx' = Reading(t)
    /\ \E image \in {catalog[t]} \cup outcomes : catalog' = [catalog EXCEPT ![t] = image]
    /\ raised' = TRUE

\* updateRecord(), called by putMetaData() with an image made from findRecord().
UpdateRecord(t, image) ==
    /\ Len(changes) < MaxChanges
    /\ \/ /\ image.building # {}
          /\ PutUnreadyTable(t, image)
          /\ tx' = TxAfterDiscover(t)
          /\ discovered' = [discovered EXCEPT ![t] = Discovered(t)]
          /\ UNCHANGED <<catalog, raised, carried>>
       \/ /\ image.building = {}
          /\ EraseUnreadyTable(t)
          /\ carried' = carried \ {t}
          /\ \/ catalog[t] # None /\ UpdateTable(t, image)
             \/ /\ DdlFails(t, IF catalog[t] = None \/ tx.wrote \/ tx.upserted
                               THEN {} ELSE {image})
                /\ discovered' = [discovered EXCEPT ![t] = Discovered(t)]
    /\ UNCHANGED <<depth, before, undone>>

Writing(t) == Running /\ depth > 0 /\ Discovered(t) # None

\* Indexes are added and dropped in transactions that write no documents
\* (updateTable() asserts it), one DDL request in each.
Altering(t) == Writing(t) /\ ~tx.wrote /\ ~tx.upserted

\* KVCollectionCatalogEntry::prepareForIndexBuild().
PrepareForIndexBuild(t, i) ==
    /\ Altering(t)
    /\ i \notin Found(t).ready \cup Found(t).building
    /\ UpdateRecord(t, [Found(t) EXCEPT !.building = @ \cup {i}])

\* indexBuildSuccess().
IndexBuildSuccess(t, i) ==
    /\ Altering(t)
    /\ i \in Found(t).building
    /\ UpdateRecord(t, [Found(t) EXCEPT !.ready = @ \cup {i}, !.building = @ \ {i}])

\* removeIndex(): of a drop, and of the cleanup of a failed build.
RemoveIndex(t, i) ==
    /\ Altering(t)
    /\ i \in Found(t).ready \cup Found(t).building
    /\ UpdateRecord(t, [ready    |-> Found(t).ready \ {i},
                        building |-> Found(t).building \ {i},
                        multikey |-> Found(t).multikey \ {i}])

\* setIndexIsMultikey(): a write of documents updates the catalog.
SetIndexIsMultikey(t, i) ==
    /\ Writing(t)
    /\ tx.wrote
    /\ i \in Found(t).ready \ Found(t).multikey
    /\ UpdateRecord(t, [Found(t) EXCEPT !.multikey = @ \cup {i}])

\* insertRecord() of a new collection: it exists, it is created, or the request
\* fails.  The schema cache is not touched.  (Its branch for metadata with an
\* index still being built has no caller: newCollection() builds the metadata
\* with a ready _id index or none, and the other inserts have no indexes.)
InsertRecord(t) ==
    /\ Running
    /\ depth > 0
    /\ ~tx.wrote /\ ~tx.upserted
    /\ Len(changes) < MaxChanges
    /\ EraseUnreadyTable(t)
    /\ carried' = carried \ {t}
    /\ \/ /\ catalog[t] = None
          /\ catalog' = [catalog EXCEPT ![t] = Fresh]
          /\ tx' = [Reading(t) EXCEPT !.upserted = TRUE, !.locked = tx.locked \ {t}]
          /\ UNCHANGED raised
       \/ DdlFails(t, IF catalog[t] = None THEN {Fresh} ELSE {})
    /\ UNCHANGED <<discovered, depth, before, undone>>

\* deleteRecord(): metadata staged for the table stays.  A failed request is tried again after a new catalog read, so
\* a drop whose result was not known may be found done: then the call returns
\* without erasing the cached schema.
DeleteRecord(t) ==
    /\ Running
    /\ depth > 0
    /\ ~tx.wrote /\ ~tx.upserted
    /\ \/ /\ catalog[t] = None
          /\ tx' = Reading(t)
          /\ UNCHANGED <<catalog, discovered, raised>>
       \/ /\ catalog[t] # None
          /\ catalog' = [catalog EXCEPT ![t] = None]
          /\ \/ /\ tx' = [Reading(t) EXCEPT !.upserted = TRUE, !.locked = tx.locked \ {t}]
                /\ discovered' = [discovered EXCEPT ![t] = None]
             \/ /\ tx' = [Reading(t) EXCEPT !.upserted = TRUE]
                /\ UNCHANGED discovered
          /\ UNCHANGED raised
       \/ /\ DdlFails(t, {None})
          /\ UNCHANGED discovered
    /\ UNCHANGED <<unready, changes, depth, before, undone, carried>>

(***************************************************************************)
(* The other nodes.                                                        *)
(***************************************************************************)

\* External: a DDL of another node on an entry this transaction does not hold.
OtherDdl(t) ==
    /\ t \notin tx.locked
    /\ \/ /\ catalog[t] = None
          /\ catalog' = [catalog EXCEPT ![t] = Fresh]
       \/ /\ catalog[t] # None
          /\ catalog' = [catalog EXCEPT ![t] = None]
       \/ /\ catalog[t] # None
          /\ \E o \in Other \ catalog[t].ready :
                catalog' = [catalog EXCEPT ![t].ready = @ \cup {o}]
       \/ /\ catalog[t] # None
          /\ \E o \in Other \cap catalog[t].ready :
                catalog' = [catalog EXCEPT ![t].ready = @ \ {o}, ![t].multikey = @ \ {o}]
    /\ UNCHANGED <<tx, discovered, unready, changes, depth, raised,
                   before, undone, carried>>

Next ==
    \/ BeginUnitOfWork
    \/ CommitNested
    \/ CommitUnitOfWork
    \/ CommitFails
    \/ Unwind
    \/ AbandonSnapshot
    \/ Reset
    \/ \E t \in Table :
          \/ FindRecord(t)
          \/ LockCollection(t)
          \/ DataWrite(t)
          \/ InsertRecord(t)
          \/ DeleteRecord(t)
          \/ OtherDdl(t)
          \/ \E i \in Own : \/ PrepareForIndexBuild(t, i)
                            \/ IndexBuildSuccess(t, i)
                            \/ RemoveIndex(t, i)
          \/ \E i \in Index : SetIndexIsMultikey(t, i)

Spec == Init /\ [][Next]_vars

(***************************************************************************)
(* Properties.                                                             *)
(***************************************************************************)

Entry == [Table -> Image \cup {None}]

Transaction == [active : BOOLEAN, locked : SUBSET Table, pending : Entry,
                wrote : BOOLEAN, upserted : BOOLEAN]

Undos == Seq([table : Table, prev : Image \cup {None}])

\* Every variable has its type, there is no undo record outside a unit of work
\* and no cached schema outside a transaction (the invariant(!_active) and
\* invariant(_inUnitOfWork) of the source).
TypeOK ==
    /\ catalog \in Entry
    /\ tx \in Transaction
    /\ discovered \in Entry
    /\ unready \in Entry
    /\ changes \in Undos
    /\ depth \in 0 .. 2
    /\ raised \in BOOLEAN
    /\ before \in Entry
    /\ undone \in BOOLEAN
    /\ carried \in SUBSET Table
    /\ depth = 0 => changes = <<>> /\ ~raised
    /\ ~tx.active => tx = NoTx /\ discovered = Nothing

\* After a unit of work that was aborted, or whose commit failed, the staged
\* index metadata is what it was when the unit of work began, however often it
\* was staged, replaced and erased in between.
RollbackRestores == depth = 0 /\ undone => unready = before

\* The schema an operation works with is the committed one, or the one its own
\* transaction will commit, though other nodes run DDL: a cached schema never
\* outlives the lock under which it was read.  A drop whose result was not known
\* and that a second catalog read found done leaves its schema behind, but only
\* in the transaction that dropped the table and still holds its entry: no such
\* schema ever stands for a table that another node has created since.
CacheIsCurrent ==
    \A t \in Table : ~raised /\ discovered[t] # None =>
        IF catalog[t] = None
        THEN tx.upserted /\ t \in tx.locked
        ELSE discovered[t] = IF tx.pending[t] # None THEN tx.pending[t] ELSE catalog[t]

\* A catalog entry this operation writes keeps the indexes other nodes built or
\* dropped: no attempt starts from metadata staged by an earlier attempt that was
\* rolled back, or from a schema read in an earlier transaction.  (Metadata staged
\* by an earlier unit of work that committed is not covered: `carried'.)
NoLostUpdate ==
    [][\A t \in Table :
         /\ catalog'[t] # catalog[t]
         /\ catalog[t] # None /\ catalog'[t] # None
         /\ t \notin carried
         /\ ~OtherDdl(t)
         => catalog'[t].ready \cap Other = catalog[t].ready \cap Other]_vars
==========================================================================
