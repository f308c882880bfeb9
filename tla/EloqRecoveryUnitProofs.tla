---------------------- MODULE EloqRecoveryUnitProofs ----------------------
(***************************************************************************)
(* Proofs about EloqRecoveryUnit, for any tables, indexes and bounds: the  *)
(* type invariant, that a rollback restores the staged metadata, that the  *)
(* schema cache is current, and that no update of another node is lost.    *)
(***************************************************************************)
EXTENDS EloqRecoveryUnit, TLAPS

\* The undo records of the open unit of work: an entry without one is as it was
\* at the beginning, the first one of an entry holds what it was, and an entry
\* with one has a first one.
UndoOK ==
    depth > 0 =>
      \A t \in Table :
        /\ (\A i \in DOMAIN changes : changes[i].table # t) => unready[t] = before[t]
        /\ \A i \in DOMAIN changes :
              changes[i].table = t /\ IsFirst(i) => changes[i].prev = before[t]
        /\ (\E i \in DOMAIN changes : changes[i].table = t) =>
              \E i \in DOMAIN changes : changes[i].table = t /\ IsFirst(i)

\* A cached schema is locked, and a write of this transaction waiting for its
\* commit is cached, changes no index and only adds to the multikey ones.
LockOK ==
    \A t \in Table :
      /\ discovered[t] # None => t \in tx.locked
      /\ ~raised /\ discovered[t] # None /\ catalog[t] = None => tx.upserted
      /\ tx.pending[t] # None =>
            /\ tx.wrote
            /\ t \in tx.locked
            /\ catalog[t] # None
            /\ tx.pending[t].ready = catalog[t].ready
            /\ catalog[t].multikey \subseteq tx.pending[t].multikey
      /\ ~raised /\ tx.pending[t] # None => discovered[t] # None

\* Staged metadata has an index being built, and what was staged in this unit of
\* work agrees with the locked catalog entry on the indexes of other nodes, or the
\* transaction has made its DDL request and writes no catalog entry from it.
StagedOK ==
    \A t \in Table :
      /\ unready[t] # None => unready[t].building # {}
      /\ before[t] # None => before[t].building # {}
      /\ t \in carried => unready[t] # None
      /\ depth = 0 /\ unready[t] # None => t \in carried
      /\ ~raised /\ unready[t] # None /\ t \notin carried =>
         \/ tx.upserted
         \/ /\ t \in tx.locked
            /\ catalog[t] # None =>
                  unready[t].ready \cap Other = catalog[t].ready \cap Other

IInv == TypeOK /\ RollbackRestores /\ CacheIsCurrent /\ UndoOK /\ LockOK /\ StagedOK

-----------------------------------------------------------------------------

\* The images of Image are records of sets, and None is none of them.
LEMMA ImageFacts ==
    /\ None \notin Image
    /\ Fresh \in Image
    /\ Nothing \in Entry
    /\ NoTx \in Transaction
    /\ NoTx.pending = Nothing
    /\ <<>> \in Undos
BY ConstantsAssumption
   DEF Image, Index, Fresh, Nothing, Entry, NoTx, Transaction, Undos

\* Running the undo records last to first leaves what was there at the beginning.
LEMMA RolledBackIsBefore ==
    ASSUME TypeOK, UndoOK, depth > 0
    PROVE  RolledBack = before
<1>1. ASSUME NEW t \in Table
      PROVE  RolledBack[t] = before[t]
  <2>1. CASE \E i \in DOMAIN changes : changes[i].table = t
    <3>1. \E i \in DOMAIN changes : changes[i].table = t /\ IsFirst(i)
      BY <2>1 DEF UndoOK
    <3> DEFINE f == CHOOSE i \in DOMAIN changes : changes[i].table = t /\ IsFirst(i)
    <3>2. f \in DOMAIN changes /\ changes[f].table = t /\ IsFirst(f)
      BY <3>1
    <3>3. changes[f].prev = before[t]
      BY <3>2 DEF UndoOK
    <3>4. RolledBack[t] = changes[f].prev
      BY <2>1 DEF RolledBack
    <3> QED BY <3>3, <3>4
  <2>2. CASE ~ \E i \in DOMAIN changes : changes[i].table = t
    BY <2>2 DEF UndoOK, RolledBack
  <2> QED BY <2>1, <2>2
<1>2. before \in [Table -> Image \cup {None}]
  BY DEF TypeOK, Entry
<1>3. DOMAIN RolledBack = Table /\ RolledBack = [t \in Table |-> RolledBack[t]]
  BY DEF RolledBack
<1> QED BY <1>1, <1>2, <1>3

\* The initial states.
LEMMA InitIInv == Init => IInv
<1> SUFFICES ASSUME Init PROVE IInv
  OBVIOUS
<1>1. TypeOK
  <2>1. catalog \in Entry
    BY ImageFacts DEF Init, Entry
  <2>2. tx \in Transaction
    BY ImageFacts DEF Init
  <2>3. /\ changes \in Undos
        /\ depth = 0 => changes = <<>> /\ ~raised
    BY ImageFacts DEF Init
  <2>4. ~tx.active => tx = NoTx /\ discovered = Nothing
    BY DEF Init
  <2>5. /\ discovered \in Entry /\ unready \in Entry /\ before \in Entry
        /\ depth \in 0 .. 2 /\ carried \in SUBSET Table
    BY ImageFacts DEF Init
  <2>6. raised \in BOOLEAN /\ undone \in BOOLEAN
    BY Zenon DEF Init
  <2> QED BY <2>1, <2>2, <2>3, <2>4, <2>5, <2>6 DEF TypeOK
<1>2. RollbackRestores /\ UndoOK
  BY DEF Init, RollbackRestores, UndoOK
<1>3. CacheIsCurrent /\ LockOK /\ StagedOK
  BY DEF Init, CacheIsCurrent, LockOK, StagedOK, Nothing, NoTx
<1> QED BY <1>1, <1>2, <1>3 DEF IInv

\* The transaction ends and the schema cache is emptied.
LEMMA TxnCloseTypes ==
    ASSUME TypeOK, NEW committed \in BOOLEAN, TxnClose(committed)
    PROVE  /\ catalog' \in Entry
           /\ tx' = NoTx
           /\ tx' \in Transaction
           /\ discovered' = Nothing
           /\ discovered' \in Entry
<1>1. catalog' \in Entry
  BY DEF TypeOK, TxnClose, Entry, Transaction
<1>2. tx' = NoTx /\ discovered' = Nothing
  BY DEF TxnClose
<1> QED BY <1>1, <1>2, ImageFacts

\* With no transaction and no cached schema, only the staged metadata matters.
LEMMA ClosedLockOK ==
    ASSUME tx' = NoTx, discovered' = Nothing
    PROVE  CacheIsCurrent' /\ LockOK'
BY DEF CacheIsCurrent, LockOK, NoTx, Nothing

\* A rollback, with the transaction over.
LEMMA RollbackStep ==
    ASSUME IInv, depth = 1, TxnClose(FALSE), Rollback,
           depth' = 0, raised' = FALSE, UNCHANGED before
    PROVE  IInv'
<1> USE DEF IInv
<1>1. unready' = before
  BY RolledBackIsBefore DEF Rollback
<1>2. TypeOK'
  <2>1. /\ catalog' \in Entry /\ discovered' \in Entry
        /\ tx' = NoTx /\ discovered' = Nothing
        /\ tx' \in Transaction
    BY TxnCloseTypes
  <2>2. /\ changes' = <<>> /\ changes' \in Undos
        /\ undone' = TRUE /\ carried' \in SUBSET Table
    BY ImageFacts DEF Rollback
  <2>3. /\ raised' \in BOOLEAN /\ undone' \in BOOLEAN
        /\ depth' = 0 => changes' = <<>> /\ ~raised'
        /\ ~tx'.active => tx' = NoTx /\ discovered' = Nothing
    BY <2>1, <2>2, Zenon
  <2>4. unready' \in Entry /\ before' \in Entry /\ depth' \in 0 .. 2
    BY <1>1 DEF TypeOK
  <2> QED BY <2>1, <2>2, <2>3, <2>4 DEF TypeOK
<1>3. RollbackRestores' /\ UndoOK'
  BY <1>1 DEF RollbackRestores, UndoOK
<1>4. CacheIsCurrent' /\ LockOK'
  BY TxnCloseTypes, ClosedLockOK
<1>5. StagedOK'
  BY <1>1 DEF StagedOK, Rollback
<1> QED BY <1>2, <1>3, <1>4, <1>5

\* The steps that end the transaction or the unit of work.
LEMMA EndStep ==
    ASSUME IInv,
           CommitUnitOfWork \/ CommitFails \/ Unwind \/ AbandonSnapshot \/ Reset
    PROVE  IInv'
<1> USE DEF IInv
<1>1. CASE CommitUnitOfWork
  <2>1. /\ catalog' \in Entry /\ discovered' \in Entry
        /\ tx' = NoTx /\ discovered' = Nothing
        /\ tx' \in Transaction
    BY <1>1, TxnCloseTypes DEF CommitUnitOfWork
  <2>2. /\ changes' = <<>> /\ changes' \in Undos
        /\ depth' = 0 /\ undone' = FALSE
        /\ carried' = {t \in Table : unready[t] # None}
        /\ unready' = unready /\ raised' = FALSE /\ before' = before
    BY <1>1, ImageFacts DEF CommitUnitOfWork, Running, TypeOK
  <2>3. TypeOK'
    <3>1. /\ raised' \in BOOLEAN /\ undone' \in BOOLEAN
          /\ depth' = 0 => changes' = <<>> /\ ~raised'
          /\ ~tx'.active => tx' = NoTx /\ discovered' = Nothing
      BY <2>1, <2>2, Zenon
    <3>2. /\ unready' \in Entry /\ before' \in Entry
          /\ depth' \in 0 .. 2 /\ carried' \in SUBSET Table
      BY <2>2 DEF TypeOK
    <3> QED BY <2>1, <2>2, <3>1, <3>2 DEF TypeOK
  <2>4. RollbackRestores' /\ UndoOK' /\ CacheIsCurrent' /\ LockOK'
    BY <2>1, <2>2, ClosedLockOK DEF RollbackRestores, UndoOK
  <2>5. StagedOK'
    BY <2>2 DEF StagedOK
  <2> QED BY <2>3, <2>4, <2>5
<1>2. CASE CommitFails
  <2>1. raised' = FALSE
    BY <1>2 DEF CommitFails, Running, TypeOK
  <2> QED BY <1>2, <2>1, RollbackStep DEF CommitFails
<1>3. CASE Unwind
  <2>1. CASE depth = 1
    <3>1. TxnClose(FALSE) /\ Rollback /\ raised' = FALSE /\ before' = before
      BY <1>3, <2>1, Zenon DEF Unwind
    <3>2. depth' = 0
      BY <1>3, <2>1 DEF Unwind
    <3> QED BY <2>1, <3>1, <3>2, RollbackStep
  <2>2. CASE depth # 1
    <3>1. /\ depth = 2 /\ depth' = 1 /\ raised' = TRUE
          /\ UNCHANGED <<catalog, tx, discovered, unready, changes, before, undone, carried>>
      BY <1>3, <2>2 DEF Unwind, TypeOK
    <3>2. TypeOK' /\ RollbackRestores' /\ CacheIsCurrent'
      BY <3>1 DEF TypeOK, RollbackRestores, CacheIsCurrent
    <3>3. UndoOK'
      BY <3>1 DEF UndoOK, IsFirst
    <3>4. LockOK' /\ StagedOK'
      BY <3>1 DEF LockOK, StagedOK
    <3> QED BY <3>2, <3>3, <3>4
  <2> QED BY <2>1, <2>2
<1>4. CASE AbandonSnapshot
  <2> USE DEF AbandonSnapshot
  <2>1. /\ catalog' \in Entry /\ discovered' \in Entry
        /\ tx' = NoTx /\ discovered' = Nothing
        /\ tx' \in Transaction
    BY <1>4, TxnCloseTypes
  <2>2. TypeOK' /\ RollbackRestores'
    BY <1>4, <2>1 DEF TypeOK, RollbackRestores
  <2>3. UndoOK' /\ StagedOK'
    BY <1>4 DEF UndoOK, StagedOK
  <2> QED BY <2>1, <2>2, <2>3, ClosedLockOK
<1>5. CASE Reset
  <2> USE DEF Reset
  <2>1. /\ catalog' \in Entry /\ discovered' \in Entry
        /\ tx' = NoTx /\ discovered' = Nothing
        /\ tx' \in Transaction
    BY <1>5, TxnCloseTypes
  <2>2. changes' \in Undos
    BY <1>5, ImageFacts
  <2>3. TypeOK' /\ RollbackRestores'
    BY <1>5, <2>1, <2>2, ImageFacts DEF TypeOK, RollbackRestores
  <2>4. UndoOK' /\ StagedOK'
    BY <1>5 DEF UndoOK, StagedOK, Nothing
  <2> QED BY <2>1, <2>3, <2>4, ClosedLockOK
<1> QED BY <1>1, <1>2, <1>3, <1>4, <1>5

\* An undo record for the entry of table t, which then changes.
LEMMA UndoAppend ==
    ASSUME IInv, depth > 0, NEW t \in Table, NEW value \in Image \cup {None},
           changes' = Append(changes, Undo(t)),
           unready' = [unready EXCEPT ![t] = value],
           UNCHANGED <<depth, before>>
    PROVE  UndoOK' /\ changes' \in Undos /\ unready' \in Entry
<1> USE DEF IInv
<1>n. PICK n \in Nat : n = Len(changes)
  BY DEF TypeOK, Undos
<1>1. /\ changes \in Seq([table : Table, prev : Image \cup {None}])
      /\ Undo(t) \in [table : Table, prev : Image \cup {None}]
      /\ unready \in [Table -> Image \cup {None}]
  BY DEF TypeOK, Undo, Undos, Entry
<1>2. /\ changes' \in Undos
      /\ DOMAIN changes = 1 .. n /\ DOMAIN changes' = 1 .. (n + 1)
      /\ n \in Nat
      /\ \A i \in 1 .. n : changes'[i] = changes[i]
      /\ changes'[n + 1].table = t /\ changes'[n + 1].prev = unready[t]
  BY <1>1, <1>n DEF Undos, Undo
<1>3. /\ unready' \in Entry
      /\ \A u \in Table : u # t => unready'[u] = unready[u]
  BY <1>1 DEF Entry
<1>4. /\ \A i \in 1 .. n : IsFirst(i)' <=> IsFirst(i)
      /\ IsFirst(n + 1)' <=> \A j \in 1 .. n : changes[j].table # t
  BY <1>2 DEF IsFirst
<1>5. ASSUME NEW u \in Table
      PROVE  /\ (\A i \in DOMAIN changes' : changes'[i].table # u) =>
                    unready'[u] = before[u]
             /\ \A i \in DOMAIN changes' :
                   changes'[i].table = u /\ IsFirst(i)' => changes'[i].prev = before[u]
             /\ (\E i \in DOMAIN changes' : changes'[i].table = u) =>
                   \E i \in DOMAIN changes' : changes'[i].table = u /\ IsFirst(i)'
  <2> USE <1>2
  <2>1. /\ (\A i \in 1 .. n : changes[i].table # u) => unready[u] = before[u]
        /\ \A i \in 1 .. n :
              changes[i].table = u /\ IsFirst(i) => changes[i].prev = before[u]
        /\ (\E i \in 1 .. n : changes[i].table = u) =>
              \E i \in 1 .. n : changes[i].table = u /\ IsFirst(i)
    BY DEF UndoOK
  <2>2. (\A i \in DOMAIN changes' : changes'[i].table # u) => unready'[u] = before[u]
    BY <1>3, <2>1
  <2>3. ASSUME NEW i \in DOMAIN changes', changes'[i].table = u, IsFirst(i)'
        PROVE  changes'[i].prev = before[u]
    <3>1. CASE i \in 1 .. n
      BY <1>4, <2>1, <2>3, <3>1
    <3>2. CASE i = n + 1
      BY <1>4, <2>1, <2>3, <3>2
    <3> QED BY <3>1, <3>2
  <2>4. (\E i \in DOMAIN changes' : changes'[i].table = u) =>
          \E i \in DOMAIN changes' : changes'[i].table = u /\ IsFirst(i)'
    <3>1. CASE \E i \in 1 .. n : changes[i].table = u
      <4>1. PICK i \in 1 .. n : changes[i].table = u /\ IsFirst(i)
        BY <2>1, <3>1
      <4> QED BY <1>4, <4>1
    <3>2. CASE \A i \in 1 .. n : changes[i].table # u
      BY <1>4, <3>2
    <3> QED BY <3>1, <3>2
  <2> QED BY <2>2, <2>3, <2>4
<1>6. UndoOK'
  BY <1>5 DEF UndoOK
<1> QED BY <1>2, <1>3, <1>6

\* The undo records and what they protect are left alone.
LEMMA UndoUnchanged ==
    ASSUME IInv, UNCHANGED <<unready, changes, depth, before, undone>>
    PROVE  UndoOK' /\ RollbackRestores'
BY DEF IInv, UndoOK, RollbackRestores, IsFirst

\* What a catalog read does to the transaction.
LEMMA ReadingFacts ==
    ASSUME IInv, NEW t \in Table
    PROVE  /\ Reading(t) \in Transaction
           /\ Reading(t).active
           /\ Reading(t).locked = tx.locked \cup {t}
           /\ Reading(t).pending = tx.pending
           /\ Reading(t).wrote = tx.wrote
           /\ Reading(t).upserted = tx.upserted
BY DEF IInv, TypeOK, Transaction, Reading

\* Opening and closing nested units of work.
LEMMA NestStep ==
    ASSUME IInv, BeginUnitOfWork \/ CommitNested
    PROVE  IInv'
<1> USE DEF IInv
<1>1. CASE BeginUnitOfWork
  <2>1. /\ raised' = raised /\ depth' = depth + 1 /\ depth' \in 1 .. 2
        /\ UNCHANGED <<catalog, tx, discovered, unready, changes, carried>>
        /\ before' \in Entry
    BY <1>1 DEF BeginUnitOfWork, TypeOK
  <2>2. undone' \in BOOLEAN
    BY <1>1, Zenon DEF BeginUnitOfWork, TypeOK
  <2>5. TypeOK' /\ RollbackRestores'
    BY <2>1, <2>2 DEF TypeOK, RollbackRestores
  <2>3. CASE depth = 0
    <3>1. before' = unready /\ changes = <<>>
      BY <1>1, <2>3 DEF BeginUnitOfWork, TypeOK
    <3> QED BY <2>1, <2>5, <2>3, <3>1 DEF UndoOK, CacheIsCurrent, LockOK, StagedOK
  <2>4. CASE depth # 0
    <3>1. before' = before /\ depth > 0
      BY <1>1, <2>4 DEF BeginUnitOfWork, TypeOK
    <3> QED BY <2>1, <2>5, <3>1 DEF UndoOK, IsFirst, CacheIsCurrent, LockOK, StagedOK
  <2> QED BY <2>3, <2>4
<1>2. CASE CommitNested
  <2> USE DEF CommitNested
  <2>1. TypeOK' /\ RollbackRestores'
    BY <1>2 DEF TypeOK, RollbackRestores
  <2>2. UndoOK' /\ CacheIsCurrent'
    BY <1>2 DEF UndoOK, IsFirst, CacheIsCurrent
  <2>3. LockOK' /\ StagedOK'
    BY <1>2 DEF LockOK, StagedOK
  <2> QED BY <2>1, <2>2, <2>3
<1> QED BY <1>1, <1>2

\* The schema cache after a read of the catalog, or of the cache.
LEMMA DiscoverFacts ==
    ASSUME IInv, ~raised, NEW t \in Table,
           tx' = TxAfterDiscover(t) \/ tx' = Reading(t),
           discovered' = [discovered EXCEPT ![t] = Discovered(t)],
           UNCHANGED <<catalog, raised>>
    PROVE  /\ tx' \in Transaction /\ tx'.active
           /\ tx'.locked = tx.locked \cup {t} /\ tx'.upserted = tx.upserted
           /\ discovered' \in Entry
           /\ LockOK' /\ CacheIsCurrent'
<1> USE DEF IInv
<1>1. /\ tx' \in Transaction
      /\ tx.locked \cup {t} = tx'.locked
      /\ tx'.pending = tx.pending /\ tx'.wrote = tx.wrote /\ tx'.upserted = tx.upserted
      /\ tx'.active
  <2>1. CASE tx' = Reading(t)
    BY <2>1, ReadingFacts
  <2>2. CASE discovered[t] # None /\ tx' = tx
    <3>1. t \in tx.locked /\ tx.active
      BY <2>2 DEF LockOK, TypeOK, Nothing
    <3> QED BY <2>2, <3>1 DEF TypeOK
  <2> QED BY <2>1, <2>2 DEF TxAfterDiscover
<1>2. /\ discovered' \in Entry
      /\ \A u \in Table : u # t => discovered'[u] = discovered[u]
      /\ discovered'[t] = IF discovered[t] # None THEN discovered[t] ELSE catalog[t]
  BY DEF TypeOK, Entry, Discovered
<1>3. LockOK'
  BY <1>1, <1>2 DEF LockOK
<1>4. CacheIsCurrent'
  BY <1>1, <1>2 DEF CacheIsCurrent, LockOK
<1> QED BY <1>1, <1>2, <1>3, <1>4

\* A read of the catalog into the schema cache.
LEMMA ReadStep ==
    ASSUME IInv, NEW t \in Table, FindRecord(t) \/ LockCollection(t)
    PROVE  IInv'
<1> USE DEF IInv
<1>1. /\ ~raised
      /\ discovered' = [discovered EXCEPT ![t] = Discovered(t)]
      /\ UNCHANGED <<catalog, unready, changes, depth, raised, before, undone, carried>>
  BY DEF FindRecord, LockCollection, Running
<1>2. /\ tx' \in Transaction /\ tx'.active
      /\ tx'.locked = tx.locked \cup {t} /\ tx'.upserted = tx.upserted
      /\ discovered' \in Entry
      /\ LockOK' /\ CacheIsCurrent'
  BY <1>1, DiscoverFacts DEF FindRecord, LockCollection
<1>3. TypeOK'
  BY <1>1, <1>2 DEF TypeOK
<1>4. UndoOK' /\ RollbackRestores'
  BY <1>1, UndoUnchanged
<1>5. StagedOK'
  BY <1>1, <1>2 DEF StagedOK
<1> QED BY <1>2, <1>3, <1>4, <1>5

\* A write of documents.
LEMMA DataWriteStep ==
    ASSUME IInv, NEW t \in Table, DataWrite(t)
    PROVE  IInv'
<1> USE DEF IInv
<1>1. /\ ~raised /\ tx.active
      /\ UNCHANGED <<catalog, discovered, unready, changes, depth, raised,
                     before, undone, carried>>
  BY DEF DataWrite, Running, TypeOK, Nothing
<1>2. /\ tx' \in Transaction /\ tx'.active /\ tx'.wrote
      /\ tx'.locked = tx.locked /\ tx'.pending = tx.pending
      /\ tx'.upserted = tx.upserted
  BY <1>1 DEF DataWrite, TypeOK, Transaction
<1>3. TypeOK'
  BY <1>1, <1>2 DEF TypeOK
<1>4. UndoOK' /\ RollbackRestores'
  BY <1>1, UndoUnchanged
<1>5. LockOK' /\ CacheIsCurrent' /\ StagedOK'
  BY <1>1, <1>2 DEF LockOK, CacheIsCurrent, StagedOK
<1> QED BY <1>3, <1>4, <1>5

\* A DDL of another node: on no table the transaction has locked.
LEMMA OtherDdlStep ==
    ASSUME IInv, NEW t \in Table, OtherDdl(t)
    PROVE  IInv'
<1> USE DEF IInv
<1>1. /\ t \notin tx.locked
      /\ UNCHANGED <<tx, discovered, unready, changes, depth, raised,
                     before, undone, carried>>
  BY DEF OtherDdl
<1>2. catalog' \in Entry /\ \A u \in Table : u # t => catalog'[u] = catalog[u]
  <2>1. catalog \in [Table -> Image \cup {None}]
    BY DEF TypeOK, Entry
  <2>2. ASSUME catalog[t] # None
        PROVE  /\ catalog[t] \in Image
               /\ \A o \in Other :
                     /\ [catalog[t] EXCEPT !.ready = @ \cup {o}] \in Image
                     /\ [catalog[t] EXCEPT !.ready = @ \ {o}, !.multikey = @ \ {o}] \in Image
    BY <2>1, <2>2 DEF Image, Index
  <2>3. \E v \in Image \cup {None} : catalog' = [catalog EXCEPT ![t] = v]
    <3>1. CASE catalog' = [catalog EXCEPT ![t] = Fresh]
      BY <3>1, ImageFacts
    <3>2. CASE catalog' = [catalog EXCEPT ![t] = None]
      BY <3>2
    <3>3. CASE /\ catalog[t] # None
               /\ \E o \in Other \ catalog[t].ready :
                     catalog' = [catalog EXCEPT ![t].ready = @ \cup {o}]
      <4>1. PICK o \in Other : catalog' = [catalog EXCEPT ![t].ready = @ \cup {o}]
        BY <3>3
      <4>2. catalog' = [catalog EXCEPT ![t] = [catalog[t] EXCEPT !.ready = @ \cup {o}]]
        BY <4>1
      <4> QED BY <2>2, <3>3, <4>2
    <3>4. CASE /\ catalog[t] # None
               /\ \E o \in Other \cap catalog[t].ready :
                     catalog' = [catalog EXCEPT ![t].ready = @ \ {o},
                                                ![t].multikey = @ \ {o}]
      <4>1. PICK o \in Other :
               catalog' = [catalog EXCEPT ![t].ready = @ \ {o}, ![t].multikey = @ \ {o}]
        BY <3>4
      <4>2. catalog' = [catalog EXCEPT ![t] =
                          [catalog[t] EXCEPT !.ready = @ \ {o}, !.multikey = @ \ {o}]]
        BY <2>1, <2>2, <3>4, <4>1
      <4> QED BY <2>2, <3>4, <4>2
    <3> QED BY <3>1, <3>2, <3>3, <3>4 DEF OtherDdl
  <2> QED BY <2>1, <2>3 DEF Entry
<1>3. TypeOK'
  BY <1>1, <1>2 DEF TypeOK
<1>4. UndoOK' /\ RollbackRestores'
  BY <1>1, UndoUnchanged
<1>5. LockOK' /\ CacheIsCurrent' /\ StagedOK'
  BY <1>1, <1>2 DEF LockOK, CacheIsCurrent, StagedOK
<1> QED BY <1>3, <1>4, <1>5

\* Erasing a staged entry inside a unit of work.
LEMMA EraseFacts ==
    ASSUME IInv, depth > 0, NEW t \in Table, EraseUnreadyTable(t),
           UNCHANGED <<depth, before, undone>>
    PROVE  /\ UndoOK' /\ RollbackRestores'
           /\ changes' \in Undos
           /\ unready' \in Entry
           /\ unready'[t] = None
           /\ \A u \in Table : u # t => unready'[u] = unready[u]
<1> USE DEF IInv
<1>1. /\ unready' \in Entry /\ unready'[t] = None
      /\ \A u \in Table : u # t => unready'[u] = unready[u]
  BY DEF EraseUnreadyTable, TypeOK, Entry
<1>2. RollbackRestores'
  BY DEF RollbackRestores
<1>3. CASE unready[t] # None
  <2>1. changes' = Append(changes, Undo(t)) /\ unready' = [unready EXCEPT ![t] = None]
    BY <1>3 DEF EraseUnreadyTable
  <2>2. UndoOK' /\ changes' \in Undos
    BY <2>1, UndoAppend
  <2> QED BY <1>1, <1>2, <2>2
<1>4. CASE unready[t] = None
  <2>1. changes' = changes /\ unready' = unready
    BY <1>4, <1>1 DEF EraseUnreadyTable, TypeOK, Entry
  <2>2. UndoOK' /\ changes' \in Undos
    BY <2>1, UndoUnchanged DEF TypeOK
  <2> QED BY <1>1, <1>2, <2>2
<1> QED BY <1>3, <1>4

\* A catalog write that fails: the entry may have changed, and the exception
\* leaves the unit of work.
LEMMA FailFacts ==
    ASSUME IInv, NEW t \in Table, NEW outcomes \in SUBSET (Image \cup {None}),
           tx.wrote => outcomes = {},
           DdlFails(t, outcomes),
           discovered' = discovered \/ discovered' = [discovered EXCEPT ![t] = Discovered(t)]
    PROVE  /\ catalog' \in Entry /\ discovered' \in Entry
           /\ tx' \in Transaction /\ tx'.active
           /\ raised' = TRUE
           /\ LockOK' /\ CacheIsCurrent'
<1> USE DEF IInv
<1>1. /\ tx' = Reading(t) /\ raised' = TRUE
      /\ tx' \in Transaction /\ tx'.active
      /\ tx'.locked = tx.locked \cup {t}
      /\ tx'.pending = tx.pending /\ tx'.wrote = tx.wrote
  BY ReadingFacts DEF DdlFails
<1>2. PICK image \in {catalog[t]} \cup outcomes : catalog' = [catalog EXCEPT ![t] = image]
  BY DEF DdlFails
<1>3. /\ catalog' \in Entry /\ discovered' \in Entry
      /\ \A u \in Table : u # t => catalog'[u] = catalog[u] /\ discovered'[u] = discovered[u]
  BY <1>2 DEF TypeOK, Entry, Discovered
<1>4. tx.wrote => catalog' = catalog
  BY <1>2 DEF TypeOK, Entry
<1>5. LockOK'
  BY <1>1, <1>3, <1>4 DEF LockOK
<1>6. CacheIsCurrent'
  BY <1>1 DEF CacheIsCurrent
<1> QED BY <1>1, <1>3, <1>5, <1>6

\* A DDL request that commits at once.
LEMMA UpsertFacts ==
    ASSUME IInv, NEW t \in Table, NEW image \in Image \cup {None}, ~tx.wrote, ~raised,
           tx' = [Reading(t) EXCEPT !.upserted = TRUE, !.locked = tx.locked \ {t}],
           catalog' = [catalog EXCEPT ![t] = image],
           discovered' = [discovered EXCEPT ![t] = None],
           UNCHANGED raised
    PROVE  /\ catalog' \in Entry /\ discovered' \in Entry
           /\ tx' \in Transaction /\ tx'.active
           /\ tx'.locked = tx.locked \ {t} /\ tx'.upserted
           /\ LockOK' /\ CacheIsCurrent'
<1> USE DEF IInv
<1>1. /\ tx' \in Transaction /\ tx'.active
      /\ tx'.locked = tx.locked \ {t}
      /\ tx'.pending = tx.pending /\ tx'.wrote = tx.wrote /\ tx'.upserted
  BY ReadingFacts DEF Transaction
<1>2. /\ catalog' \in Entry /\ discovered' \in Entry
      /\ discovered'[t] = None
      /\ \A u \in Table : u # t => catalog'[u] = catalog[u] /\ discovered'[u] = discovered[u]
  BY DEF TypeOK, Entry
<1>3. LockOK' /\ CacheIsCurrent'
  BY <1>1, <1>2 DEF LockOK, CacheIsCurrent
<1> QED BY <1>1, <1>2, <1>3

\* A new collection.
LEMMA InsertRecordStep ==
    ASSUME IInv, NEW t \in Table, InsertRecord(t)
    PROVE  IInv'
<1> USE DEF IInv
<1>1. /\ ~raised /\ depth > 0 /\ ~tx.wrote /\ ~tx.upserted
      /\ EraseUnreadyTable(t)
      /\ carried' = carried \ {t}
      /\ UNCHANGED <<discovered, depth, before, undone>>
  BY DEF InsertRecord, Running
<1>2. /\ UndoOK' /\ RollbackRestores'
      /\ changes' \in Undos /\ unready' \in Entry
      /\ unready'[t] = None
      /\ \A u \in Table : u # t => unready'[u] = unready[u]
  BY <1>1, EraseFacts
<1>3. CASE /\ catalog[t] = None
           /\ catalog' = [catalog EXCEPT ![t] = Fresh]
           /\ tx' = [Reading(t) EXCEPT !.upserted = TRUE, !.locked = tx.locked \ {t}]
           /\ UNCHANGED raised
  <2>1. discovered[t] = None
    BY <1>1, <1>3 DEF LockOK
  <2>2. discovered' = [discovered EXCEPT ![t] = None]
    BY <1>1, <2>1 DEF TypeOK, Entry
  <2>3. Fresh \in Image \cup {None}
    BY ImageFacts
  <2>4. /\ catalog' \in Entry /\ discovered' \in Entry
        /\ tx' \in Transaction /\ tx'.active
        /\ tx'.locked = tx.locked \ {t} /\ tx'.upserted
        /\ LockOK' /\ CacheIsCurrent'
    BY <1>1, <1>3, <2>2, <2>3, UpsertFacts
  <2>5. TypeOK'
    BY <1>1, <1>2, <1>3, <2>4 DEF TypeOK
  <2>6. \A u \in Table : u # t => catalog'[u] = catalog[u]
    BY <1>3 DEF TypeOK, Entry
  <2>7. StagedOK'
    BY <1>1, <1>2, <1>3, <2>4, <2>6 DEF StagedOK
  <2> QED BY <1>2, <2>4, <2>5, <2>7
<1>4. CASE DdlFails(t, IF catalog[t] = None THEN {Fresh} ELSE {})
  <2>1. (IF catalog[t] = None THEN {Fresh} ELSE {}) \in SUBSET (Image \cup {None})
    BY ImageFacts
  <2>2. /\ catalog' \in Entry /\ discovered' \in Entry
        /\ tx' \in Transaction /\ tx'.active
        /\ raised' = TRUE
        /\ LockOK' /\ CacheIsCurrent'
    BY <1>1, <1>4, <2>1, FailFacts
  <2>3. raised' \in BOOLEAN
    BY <2>2, Zenon
  <2>4. TypeOK'
    BY <1>1, <1>2, <2>2, <2>3 DEF TypeOK
  <2>5. StagedOK'
    BY <1>1, <1>2, <2>2 DEF StagedOK
  <2> QED BY <1>2, <2>2, <2>4, <2>5
<1> QED BY <1>3, <1>4 DEF InsertRecord

\* A dropped collection.
LEMMA DeleteRecordStep ==
    ASSUME IInv, NEW t \in Table, DeleteRecord(t)
    PROVE  IInv'
<1> USE DEF IInv
<1>1. /\ ~raised /\ depth > 0 /\ ~tx.wrote /\ ~tx.upserted
      /\ UNCHANGED <<unready, changes, depth, before, undone, carried>>
  BY DEF DeleteRecord, Running
<1>2. UndoOK' /\ RollbackRestores'
  BY <1>1, UndoUnchanged
<1>3. tx.pending[t] = None
  BY <1>1 DEF LockOK
<1>4. CASE /\ catalog[t] = None
           /\ tx' = Reading(t)
           /\ UNCHANGED <<catalog, discovered, raised>>
  <2>1. /\ tx' \in Transaction /\ tx'.active
        /\ tx'.locked = tx.locked \cup {t}
        /\ tx'.pending = tx.pending /\ tx'.wrote = tx.wrote /\ tx'.upserted = tx.upserted
    BY <1>4, ReadingFacts
  <2>2. TypeOK'
    BY <1>1, <1>4, <2>1 DEF TypeOK
  <2>3. LockOK' /\ CacheIsCurrent' /\ StagedOK'
    BY <1>1, <1>4, <2>1 DEF LockOK, CacheIsCurrent, StagedOK
  <2> QED BY <1>2, <2>2, <2>3
<1>5. CASE /\ catalog' = [catalog EXCEPT ![t] = None]
           /\ tx' = [Reading(t) EXCEPT !.upserted = TRUE, !.locked = tx.locked \ {t}]
           /\ discovered' = [discovered EXCEPT ![t] = None]
           /\ UNCHANGED raised
  <2>1. /\ catalog' \in Entry /\ discovered' \in Entry
        /\ tx' \in Transaction /\ tx'.active
        /\ tx'.locked = tx.locked \ {t} /\ tx'.upserted
        /\ LockOK' /\ CacheIsCurrent'
    BY <1>1, <1>5, UpsertFacts
  <2>2. TypeOK'
    BY <1>1, <1>5, <2>1 DEF TypeOK
  <2>3. \A u \in Table : u # t => catalog'[u] = catalog[u]
    BY <1>5 DEF TypeOK, Entry
  <2>4. StagedOK'
    BY <1>1, <1>5, <2>1, <2>3 DEF StagedOK
  <2> QED BY <1>2, <2>1, <2>2, <2>4
<1>6. CASE /\ catalog' = [catalog EXCEPT ![t] = None]
           /\ tx' = [Reading(t) EXCEPT !.upserted = TRUE]
           /\ UNCHANGED <<discovered, raised>>
  <2>1. /\ tx' \in Transaction /\ tx'.active
        /\ tx'.locked = tx.locked \cup {t}
        /\ tx'.pending = tx.pending /\ tx'.wrote = tx.wrote /\ tx'.upserted
    BY <1>6, ReadingFacts DEF Transaction
  <2>2. /\ catalog' \in Entry /\ catalog'[t] = None
        /\ \A u \in Table : u # t => catalog'[u] = catalog[u]
    BY <1>6 DEF TypeOK, Entry
  <2>3. TypeOK'
    BY <1>1, <1>6, <2>1, <2>2 DEF TypeOK
  <2>4. LockOK' /\ CacheIsCurrent' /\ StagedOK'
    BY <1>1, <1>3, <1>6, <2>1, <2>2 DEF LockOK, CacheIsCurrent, StagedOK
  <2> QED BY <1>2, <2>3, <2>4
<1>7. CASE DdlFails(t, {None}) /\ UNCHANGED discovered
  <2>1. /\ catalog' \in Entry /\ discovered' \in Entry
        /\ tx' \in Transaction /\ tx'.active
        /\ raised' = TRUE
        /\ LockOK' /\ CacheIsCurrent'
    BY <1>1, <1>7, FailFacts
  <2>2. raised' \in BOOLEAN
    BY <2>1, Zenon
  <2>3. TypeOK'
    BY <1>1, <2>1, <2>2 DEF TypeOK
  <2>4. StagedOK'
    BY <1>1, <2>1 DEF StagedOK
  <2> QED BY <1>2, <2>1, <2>3, <2>4
<1> QED BY <1>4, <1>5, <1>6, <1>7 DEF DeleteRecord

\* What findRecord() returns, when nothing is staged, is the catalog entry up to
\* the multikey flags this transaction has added.
LEMMA FoundFacts ==
    ASSUME IInv, ~raised, NEW t \in Table, catalog[t] # None
    PROVE  /\ unready[t] = None =>
                 /\ Found(t).ready = catalog[t].ready
                 /\ catalog[t].multikey \subseteq Found(t).multikey
                 /\ tx.pending[t] # None => Found(t) = tx.pending[t]
           /\ t \notin carried /\ ~tx.upserted =>
                 Found(t).ready \cap Other = catalog[t].ready \cap Other
<1> USE DEF IInv
<1>1. CASE unready[t] # None
  BY <1>1 DEF Found, StagedOK
<1>2. CASE unready[t] = None
  <2>1. Found(t) = IF tx.pending[t] # None THEN tx.pending[t] ELSE catalog[t]
    BY <1>2 DEF Found, Discovered, CacheIsCurrent, LockOK
  <2>2. tx.pending[t] # None => /\ tx.pending[t].ready = catalog[t].ready
                                /\ catalog[t].multikey \subseteq tx.pending[t].multikey
    BY DEF LockOK
  <2> QED BY <2>1, <2>2
<1> QED BY <1>1, <1>2

\* The metadata a caller of updateRecord() may write: it leaves the indexes of
\* other nodes alone, and when the transaction has written documents it only
\* adds a multikey flag.
MayWrite(t, image) ==
    /\ Running /\ depth > 0 /\ Discovered(t) # None
    /\ image.ready \cap Other = Found(t).ready \cap Other
    /\ tx.wrote => /\ image.ready = Found(t).ready
                   /\ image.building = Found(t).building
                   /\ Found(t).multikey \subseteq image.multikey
                   /\ Found(t).multikey # image.multikey
    /\ ~tx.wrote => ~tx.upserted

\* An update that stages the metadata of an index build.
LEMMA StageStep ==
    ASSUME IInv, NEW t \in Table, NEW image \in Image,
           MayWrite(t, image), image.building # {},
           PutUnreadyTable(t, image),
           tx' = TxAfterDiscover(t),
           discovered' = [discovered EXCEPT ![t] = Discovered(t)],
           UNCHANGED <<catalog, raised, carried, depth, before, undone>>
    PROVE  IInv'
<1> USE DEF IInv
<1>1. ~raised /\ depth > 0
  BY DEF MayWrite, Running
<1>2. /\ tx' \in Transaction /\ tx'.active
      /\ tx'.locked = tx.locked \cup {t} /\ tx'.upserted = tx.upserted
      /\ discovered' \in Entry
      /\ LockOK' /\ CacheIsCurrent'
  BY <1>1, DiscoverFacts
<1>3. UndoOK' /\ changes' \in Undos /\ unready' \in Entry
  BY <1>1, UndoAppend DEF PutUnreadyTable
<1>4. TypeOK' /\ RollbackRestores'
  BY <1>1, <1>2, <1>3 DEF TypeOK, RollbackRestores
<1>5. /\ unready'[t] = image /\ image # None
      /\ \A u \in Table : u # t => unready'[u] = unready[u]
  BY ImageFacts DEF PutUnreadyTable, TypeOK, Entry
<1>6. catalog[t] # None /\ t \notin carried /\ ~tx.upserted =>
          image.ready \cap Other = catalog[t].ready \cap Other
  BY <1>1, FoundFacts DEF MayWrite
<1>7. StagedOK'
  BY <1>1, <1>2, <1>5, <1>6 DEF StagedOK
<1> QED BY <1>2, <1>3, <1>4, <1>7

\* An update of the catalog entry itself.
LEMMA UpdateTableFacts ==
    ASSUME IInv, NEW t \in Table, NEW image \in Image,
           MayWrite(t, image), image.building = {}, catalog[t] # None,
           UpdateTable(t, image)
    PROVE  /\ catalog' \in Entry /\ discovered' \in Entry
           /\ tx' \in Transaction /\ tx'.active
           /\ raised' = raised
           /\ tx.locked \ {t} \subseteq tx'.locked
           /\ tx.upserted => tx'.upserted
           /\ \A u \in Table : u # t => catalog'[u] = catalog[u]
           /\ LockOK' /\ CacheIsCurrent'
<1> USE DEF IInv
<1>1. ~raised
  BY DEF MayWrite, Running
<1>2. tx.wrote => /\ unready[t] = None
                  /\ image.ready = catalog[t].ready
                  /\ catalog[t].multikey \subseteq image.multikey
                  /\ tx.pending[t] # None => image # catalog[t]
  <2>1. tx.wrote => unready[t] = None
    BY DEF MayWrite, Found, StagedOK
  <2>2. tx.wrote => /\ image.ready = catalog[t].ready
                    /\ catalog[t].multikey \subseteq Found(t).multikey
    BY <1>1, <2>1, FoundFacts DEF MayWrite
  <2>3. tx.wrote => /\ Found(t).multikey \subseteq image.multikey
                    /\ Found(t).multikey # image.multikey
    BY DEF MayWrite
  <2> QED BY <2>1, <2>2, <2>3
<1>3. /\ Reading(t) \in Transaction
      /\ Reading(t).active
      /\ Reading(t).locked = tx.locked \cup {t}
      /\ Reading(t).pending = tx.pending
      /\ Reading(t).wrote = tx.wrote
      /\ Reading(t).upserted = tx.upserted
  BY ReadingFacts
<1>4. CASE /\ image = catalog[t]
           /\ tx' = Reading(t)
           /\ discovered' = [discovered EXCEPT ![t] = None]
           /\ UNCHANGED <<catalog, raised>>
  <2>1. /\ discovered' \in Entry /\ discovered'[t] = None
        /\ \A u \in Table : u # t => discovered'[u] = discovered[u]
    BY <1>4 DEF TypeOK, Entry
  <2>2. tx.pending[t] = None
    BY <1>2, <1>4 DEF LockOK
  <2>3. LockOK' /\ CacheIsCurrent'
    BY <1>1, <1>3, <1>4, <2>1, <2>2 DEF LockOK, CacheIsCurrent
  <2> QED BY <1>3, <1>4, <2>1, <2>3 DEF TypeOK
<1>5. CASE /\ tx.wrote
           /\ tx' = [Reading(t) EXCEPT !.pending[t] = image]
           /\ discovered' = [discovered EXCEPT ![t] = image]
           /\ UNCHANGED <<catalog, raised>>
  <2>1. /\ discovered' \in Entry /\ discovered'[t] = image
        /\ \A u \in Table : u # t => discovered'[u] = discovered[u]
        /\ image # None
    BY <1>5, ImageFacts DEF TypeOK, Entry
  <2>2. /\ tx' \in Transaction /\ tx'.active
        /\ tx'.locked = tx.locked \cup {t}
        /\ tx'.wrote = tx.wrote /\ tx'.upserted = tx.upserted
        /\ tx'.pending = [tx.pending EXCEPT ![t] = image]
    BY <1>3, <1>5 DEF Transaction, Entry
  <2>3. /\ tx'.pending[t] = image
        /\ \A u \in Table : u # t => tx'.pending[u] = tx.pending[u]
    BY <2>2 DEF TypeOK, Transaction, Entry
  <2>4. LockOK'
    <3>1. /\ t \in tx'.locked /\ tx'.wrote
          /\ catalog'[t] # None
          /\ discovered'[t] # None
          /\ tx'.pending[t].ready = catalog'[t].ready
          /\ catalog'[t].multikey \subseteq tx'.pending[t].multikey
      BY <1>2, <1>5, <2>1, <2>2, <2>3
    <3>2. ASSUME NEW u \in Table, u # t
          PROVE  /\ discovered'[u] = discovered[u] /\ tx'.pending[u] = tx.pending[u]
                 /\ catalog'[u] = catalog[u]
                 /\ u \in tx'.locked <=> u \in tx.locked
      BY <1>5, <2>1, <2>2, <2>3, <3>2
    <3> QED BY <1>1, <1>5, <2>2, <3>1, <3>2 DEF LockOK
  <2>5. CacheIsCurrent'
    BY <1>1, <1>5, <2>1, <2>2, <2>3 DEF CacheIsCurrent
  <2> QED BY <1>5, <2>1, <2>2, <2>4, <2>5 DEF TypeOK
<1>6. CASE /\ ~tx.wrote
           /\ catalog' = [catalog EXCEPT ![t] = image]
           /\ tx' = [Reading(t) EXCEPT !.upserted = TRUE, !.locked = tx.locked \ {t}]
           /\ discovered' = [discovered EXCEPT ![t] = None]
           /\ UNCHANGED raised
  <2>1. /\ catalog' \in Entry /\ discovered' \in Entry
        /\ tx' \in Transaction /\ tx'.active
        /\ tx'.locked = tx.locked \ {t} /\ tx'.upserted
        /\ LockOK' /\ CacheIsCurrent'
    BY <1>1, <1>6, UpsertFacts
  <2>2. \A u \in Table : u # t => catalog'[u] = catalog[u]
    BY <1>6 DEF TypeOK, Entry
  <2> QED BY <1>6, <2>1, <2>2
<1> QED BY <1>4, <1>5, <1>6 DEF UpdateTable

\* updateRecord() with metadata a caller may write.
LEMMA UpdateRecordStep ==
    ASSUME IInv, NEW t \in Table, NEW image \in Image,
           MayWrite(t, image), UpdateRecord(t, image)
    PROVE  IInv'
<1> USE DEF IInv
<1>1. ~raised /\ depth > 0 /\ UNCHANGED <<depth, before, undone>>
  BY DEF MayWrite, Running, UpdateRecord
<1>2. CASE /\ image.building # {}
           /\ PutUnreadyTable(t, image)
           /\ tx' = TxAfterDiscover(t)
           /\ discovered' = [discovered EXCEPT ![t] = Discovered(t)]
           /\ UNCHANGED <<catalog, raised, carried>>
  BY <1>1, <1>2, StageStep
<1>3. ASSUME image.building = {}, EraseUnreadyTable(t), carried' = carried \ {t},
             \/ catalog[t] # None /\ UpdateTable(t, image)
             \/ /\ DdlFails(t, IF catalog[t] = None \/ tx.wrote \/ tx.upserted
                               THEN {} ELSE {image})
                /\ discovered' = [discovered EXCEPT ![t] = Discovered(t)]
      PROVE  IInv'
  <2>1. /\ UndoOK' /\ RollbackRestores'
        /\ changes' \in Undos /\ unready' \in Entry
        /\ unready'[t] = None
        /\ \A u \in Table : u # t => unready'[u] = unready[u]
    BY <1>1, <1>3, EraseFacts
  <2>2. CASE catalog[t] # None /\ UpdateTable(t, image)
    <3>1. /\ catalog' \in Entry /\ discovered' \in Entry
          /\ tx' \in Transaction /\ tx'.active
          /\ raised' = raised
          /\ tx.locked \ {t} \subseteq tx'.locked
          /\ tx.upserted => tx'.upserted
          /\ \A u \in Table : u # t => catalog'[u] = catalog[u]
          /\ LockOK' /\ CacheIsCurrent'
      BY <1>3, <2>2, UpdateTableFacts
    <3>2. TypeOK'
      BY <1>1, <1>3, <2>1, <3>1 DEF TypeOK
    <3>3. StagedOK'
      BY <1>1, <1>3, <2>1, <3>1 DEF StagedOK
    <3> QED BY <2>1, <3>1, <3>2, <3>3
  <2>3. CASE /\ DdlFails(t, IF catalog[t] = None \/ tx.wrote \/ tx.upserted
                            THEN {} ELSE {image})
             /\ discovered' = [discovered EXCEPT ![t] = Discovered(t)]
    <3> DEFINE outcomes == IF catalog[t] = None \/ tx.wrote \/ tx.upserted
                           THEN {} ELSE {image}
    <3>1. outcomes \in SUBSET (Image \cup {None}) /\ (tx.wrote => outcomes = {})
      OBVIOUS
    <3>2. DdlFails(t, outcomes)
      BY <2>3
    <3> HIDE DEF outcomes
    <3>3. /\ catalog' \in Entry /\ discovered' \in Entry
          /\ tx' \in Transaction /\ tx'.active
          /\ raised' = TRUE
          /\ LockOK' /\ CacheIsCurrent'
      BY <2>3, <3>1, <3>2, FailFacts
    <3>4. raised' \in BOOLEAN
      BY <3>3, Zenon
    <3>5. TypeOK'
      BY <1>1, <1>3, <2>1, <3>3, <3>4 DEF TypeOK
    <3>6. StagedOK'
      BY <1>1, <1>3, <2>1, <3>3 DEF StagedOK
    <3> QED BY <2>1, <3>3, <3>5, <3>6
  <2> QED BY <1>3, <2>2, <2>3
<1> QED BY <1>2, <1>3 DEF UpdateRecord

\* What findRecord() returns is metadata.
LEMMA FoundType ==
    ASSUME IInv, NEW t \in Table, Discovered(t) # None
    PROVE  Found(t) \in Image
<1>1. Discovered(t) \in Image \cup {None} /\ unready[t] \in Image \cup {None}
  BY DEF IInv, TypeOK, Entry, Discovered
<1> QED BY <1>1 DEF Found

\* The four operations that write metadata.
LEMMA MetaDataStep ==
    ASSUME IInv, NEW t \in Table,
           \/ \E i \in Own : \/ PrepareForIndexBuild(t, i)
                             \/ IndexBuildSuccess(t, i)
                             \/ RemoveIndex(t, i)
           \/ \E i \in Index : SetIndexIsMultikey(t, i)
    PROVE  \E image \in Image : MayWrite(t, image) /\ UpdateRecord(t, image)
<1>1. Discovered(t) # None /\ Running /\ depth > 0
  BY DEF PrepareForIndexBuild, IndexBuildSuccess, RemoveIndex, SetIndexIsMultikey,
         Altering, Writing
<1>2. PICK found \in Image : found = Found(t)
  BY <1>1, FoundType
<1>3. /\ found.ready \subseteq Index /\ found.building \subseteq Own
      /\ found.multikey \subseteq Index
  BY DEF Image
<1>4. \A i \in Own : i \notin Other
  BY ConstantsAssumption
<1>5. ASSUME NEW i \in Own, PrepareForIndexBuild(t, i)
      PROVE  \E image \in Image : MayWrite(t, image) /\ UpdateRecord(t, image)
  <2> DEFINE image == [found EXCEPT !.building = @ \cup {i}]
  <2>1. image \in Image /\ image.ready = found.ready
    BY <1>3 DEF Image
  <2>2. UpdateRecord(t, image) /\ ~tx.wrote /\ ~tx.upserted
    BY <1>2, <1>5 DEF PrepareForIndexBuild, Altering
  <2>3. MayWrite(t, image)
    BY <1>1, <1>2, <2>1, <2>2 DEF MayWrite
  <2> QED BY <2>1, <2>2, <2>3
<1>6. ASSUME NEW i \in Own, IndexBuildSuccess(t, i)
      PROVE  \E image \in Image : MayWrite(t, image) /\ UpdateRecord(t, image)
  <2> DEFINE image == [found EXCEPT !.ready = @ \cup {i}, !.building = @ \ {i}]
  <2>1. image \in Image /\ image.ready \cap Other = found.ready \cap Other
    BY <1>3, <1>4 DEF Image, Index
  <2>2. UpdateRecord(t, image) /\ ~tx.wrote /\ ~tx.upserted
    BY <1>2, <1>6 DEF IndexBuildSuccess, Altering
  <2>3. MayWrite(t, image)
    BY <1>1, <1>2, <2>1, <2>2 DEF MayWrite
  <2> QED BY <2>1, <2>2, <2>3
<1>7. ASSUME NEW i \in Own, RemoveIndex(t, i)
      PROVE  \E image \in Image : MayWrite(t, image) /\ UpdateRecord(t, image)
  <2> DEFINE image == [ready    |-> found.ready \ {i},
                       building |-> found.building \ {i},
                       multikey |-> found.multikey \ {i}]
  <2>1. image \in Image /\ image.ready \cap Other = found.ready \cap Other
    BY <1>3, <1>4 DEF Image
  <2>2. UpdateRecord(t, image) /\ ~tx.wrote /\ ~tx.upserted
    BY <1>2, <1>7 DEF RemoveIndex, Altering
  <2>3. MayWrite(t, image)
    BY <1>1, <1>2, <2>1, <2>2 DEF MayWrite
  <2> QED BY <2>1, <2>2, <2>3
<1>8. ASSUME NEW i \in Index, SetIndexIsMultikey(t, i)
      PROVE  \E image \in Image : MayWrite(t, image) /\ UpdateRecord(t, image)
  <2> DEFINE image == [found EXCEPT !.multikey = @ \cup {i}]
  <2>1. /\ image \in Image /\ image.ready = found.ready
        /\ image.building = found.building /\ image.multikey = found.multikey \cup {i}
    BY <1>3 DEF Image
  <2>2. UpdateRecord(t, image) /\ tx.wrote /\ i \notin found.multikey
    BY <1>2, <1>8 DEF SetIndexIsMultikey
  <2>3. MayWrite(t, image)
    BY <1>1, <1>2, <2>1, <2>2 DEF MayWrite
  <2> QED BY <2>1, <2>2, <2>3
<1> QED BY <1>5, <1>6, <1>7, <1>8

\* Every step preserves the invariant.
LEMMA NextIInv == IInv /\ [Next]_vars => IInv'
<1> SUFFICES ASSUME IInv, [Next]_vars PROVE IInv'
  OBVIOUS
<1>1. CASE UNCHANGED vars
  BY <1>1 DEF vars, IInv, TypeOK, RollbackRestores, CacheIsCurrent, UndoOK, LockOK,
              StagedOK, IsFirst
<1>2. CASE BeginUnitOfWork \/ CommitNested
  BY <1>2, NestStep
<1>3. CASE CommitUnitOfWork \/ CommitFails \/ Unwind \/ AbandonSnapshot \/ Reset
  BY <1>3, EndStep
<1>4. ASSUME NEW t \in Table,
             \/ FindRecord(t) \/ LockCollection(t) \/ DataWrite(t)
             \/ InsertRecord(t) \/ DeleteRecord(t) \/ OtherDdl(t)
      PROVE  IInv'
  BY <1>4, ReadStep, DataWriteStep, InsertRecordStep, DeleteRecordStep, OtherDdlStep
<1>5. ASSUME NEW t \in Table,
             \/ \E i \in Own : \/ PrepareForIndexBuild(t, i)
                               \/ IndexBuildSuccess(t, i)
                               \/ RemoveIndex(t, i)
             \/ \E i \in Index : SetIndexIsMultikey(t, i)
      PROVE  IInv'
  <2>1. PICK image \in Image : MayWrite(t, image) /\ UpdateRecord(t, image)
    BY <1>5, MetaDataStep
  <2> QED BY <2>1, UpdateRecordStep
<1> QED BY <1>1, <1>2, <1>3, <1>4, <1>5 DEF Next

\* The invariant holds in every reachable state.
THEOREM Invariance == Spec => []IInv
BY InitIInv, NextIInv, PTL DEF Spec

\* Every variable of the recovery unit has its type: no undo record survives the
\* unit of work and no schema survives the transaction.
THEOREM TypeCorrect == Spec => []TypeOK
<1>1. IInv => TypeOK
  BY DEF IInv
<1> QED BY <1>1, Invariance, PTL

\* Abort and failed commit put the staged index metadata back: the undo records,
\* run last to first, restore _unreadyTableMap.
THEOREM RollbackCorrect == Spec => []RollbackRestores
<1>1. IInv => RollbackRestores
  BY DEF IInv
<1> QED BY <1>1, Invariance, PTL

\* _discoveredTableMap never holds a schema another node has replaced.
THEOREM CacheCorrect == Spec => []CacheIsCurrent
<1>1. IInv => CacheIsCurrent
  BY DEF IInv
<1> QED BY <1>1, Invariance, PTL

\* Which steps change a catalog entry that stays: a commit of this transaction's
\* write, another node, or an update of metadata not carried over.
LEMMA ChangeFacts ==
    ASSUME IInv, Next, NEW t \in Table,
           catalog'[t] # catalog[t], catalog[t] # None, catalog'[t] # None,
           t \notin carried, ~OtherDdl(t)
    PROVE  catalog'[t].ready \cap Other = catalog[t].ready \cap Other
<1>0. catalog \in [Table -> Image \cup {None}]
  BY DEF IInv, TypeOK, Entry
<1>1. ~ (BeginUnitOfWork \/ CommitNested \/ AbandonSnapshot \/ Reset \/ CommitFails \/ Unwind)
  BY <1>0 DEF BeginUnitOfWork, CommitNested, AbandonSnapshot, Reset, CommitFails, Unwind,
              TxnClose
<1>2. CASE CommitUnitOfWork
  <2>1. catalog'[t] = tx.pending[t] /\ tx.pending[t] # None
    BY <1>2 DEF CommitUnitOfWork, TxnClose
  <2> QED BY <2>1 DEF IInv, LockOK
<1>3. ASSUME NEW u \in Table,
             FindRecord(u) \/ LockCollection(u) \/ DataWrite(u) \/ OtherDdl(u)
      PROVE  FALSE
  <2>1. CASE u = t
    BY <1>3, <2>1 DEF FindRecord, LockCollection, DataWrite
  <2>2. CASE u # t
    BY <1>0, <1>3, <2>2 DEF FindRecord, LockCollection, DataWrite, OtherDdl
  <2> QED BY <2>1, <2>2
<1>4. ASSUME NEW u \in Table, InsertRecord(u) \/ DeleteRecord(u)
      PROVE  FALSE
  <2>1. CASE InsertRecord(u)
    BY <1>0, <2>1 DEF InsertRecord, DdlFails
  <2>2. CASE DeleteRecord(u)
    BY <1>0, <2>2 DEF DeleteRecord, DdlFails
  <2> QED BY <1>4, <2>1, <2>2
<1>5. ASSUME NEW u \in Table,
             \/ \E i \in Own : \/ PrepareForIndexBuild(u, i)
                               \/ IndexBuildSuccess(u, i)
                               \/ RemoveIndex(u, i)
             \/ \E i \in Index : SetIndexIsMultikey(u, i)
      PROVE  catalog'[t].ready \cap Other = catalog[t].ready \cap Other
  <2>1. PICK image \in Image : MayWrite(u, image) /\ UpdateRecord(u, image)
    BY <1>5, MetaDataStep
  <2>2. /\ \E value \in {catalog[u], image} : catalog' = [catalog EXCEPT ![u] = value]
        /\ tx.upserted => catalog' = catalog
    BY <1>0, <2>1 DEF UpdateRecord, UpdateTable, DdlFails
  <2>3. u = t /\ catalog'[t] = image /\ ~tx.upserted
    BY <1>0, <2>2
  <2>4. image.ready \cap Other = catalog[t].ready \cap Other
    BY <2>1, <2>3, FoundFacts DEF MayWrite, Running
  <2> QED BY <2>3, <2>4
<1> QED BY <1>1, <1>2, <1>3, <1>4, <1>5 DEF Next

\* putMetaData() never takes back an index another node has added or dropped:
\* neither a rolled-back attempt nor an ended transaction leaves metadata that a
\* later attempt would write.
THEOREM UpdatesKept == Spec => NoLostUpdate
<1>1. IInv /\ [Next]_vars =>
        [\A t \in Table :
           /\ catalog'[t] # catalog[t]
           /\ catalog[t] # None /\ catalog'[t] # None
           /\ t \notin carried
           /\ ~OtherDdl(t)
           => catalog'[t].ready \cap Other = catalog[t].ready \cap Other]_vars
  BY ChangeFacts
<1> QED BY <1>1, Invariance, PTL DEF Spec, NoLostUpdate
==========================================================================
