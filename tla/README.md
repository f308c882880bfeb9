# EloqDoc: TLA+ models and proofs

EloqDoc is MongoDB 4.0 on top of the Eloq transaction service ("data
substrate"). What the repository adds to MongoDB is of three kinds, and this
project models the part of each that has the most logic of its own:

* **Change streams** (`src/mongo/db/modules/eloq/src/cdc`): `$changeStream` is
  served from the histories of the log service. Several log groups answer
  concurrently, records arrive late, leaders change, coroutines wait, and
  consumers crash and resume from tokens. `docs/cdc-change-stream.md` is the
  design document; the models follow the code.
* **The storage engine** (`src/mongo/db/modules/eloq/src`): MongoDB's storage
  interface over requests of the transaction service. Modelled is the recovery
  unit with the catalog: units of work that nest, fail and are retried, with
  DDL that commits at once and a schema cache, while other nodes run DDL.
* **Coroutines** (`src/mongo/transport`): a request runs as a coroutine on the
  worker of a thread group, is suspended and resumed, and may move to another
  group. Modelled are the executor and the state machine of a connection.

Paths below are relative to `src/mongo/db/modules/eloq/src/` unless they start
with `docs/` or `src/`.

## 1. Inventory

| Component | State it keeps | Operations | Modelled in |
|---|---|---|---|
| `CdcScanSource` (`cdc/cdc_scan_source.cpp`) | per log group: position, pages with records left to release, `scannedTs`, `arrivalCompleteTs`; buffered bytes, `drained` | `fixStart`, `startAt`, `startAllAt`, `next`, `emitBound` | `CdcScanSource`, `CdcFixStart`; promise: `CdcOrderedSource` |
| `CdcScanClient` (`cdc/cdc_scan_client.cpp`) | per group: the call in flight, backoff, `readyAt`, `lastFollowAt` | `issue`, callbacks, `takeCompleted`, destruction | `CdcScanClient`, `CdcWaitObject` |
| `CdcWaitObject` (`cdc/cdc_wait_object.cpp`) | `_notified`, `_coroutineWaiting`, the resume functor | `notify`, `waitUntil` | `CdcWaitObject` |
| `CdcScanTransport` | none; a way to the log agent | `scan`, `cancel`, `followNode`, `requestLeaderRefresh` | effects in `CdcScanClient` (agent's cache external) |
| `CdcEventStream` (`cdc/cdc_event_stream.cpp`) | emit cursors, resume points, dedup sets, the record being decoded, the pending invalidate | `openFresh`, `openAt`, `next`, `watermark` | `CdcEventStream` |
| `$changeStream` stage (`cdc/document_source_eloq_change_stream.cpp`) | the stream, the post-batch token | `getNext`, `getPostBatchResumeToken` | tokens handed out: `CdcEventStream` |
| Resume token (`base/cdc_resume_token.cpp`) | none | encode, decode, `entryFor` | meaning: `CdcEventStream`; bytes: not modelled |
| Blob and DDL decoders, scope | decoding position | `next`, `decodeCdcDdl`, `includes` | `CdcEventStream` |
| Log service, log agent (submodule without sources) | histories, bounds, floors; leaders | `CdcScan`, leader cache | `CdcLog` and the environment of `CdcScanClient`, external |
| Batch loops (`src/mongo/db/commands/run_aggregate.cpp`, `getmore_cmd.cpp`) | the reply's token, the stashed document | first batch, getMore | `CdcEventStream` |
| `EloqRecoveryUnit` (`eloq_recovery_unit.cpp`) | transaction handle, registered changes, discovered tables, unready tables | units of work, abandon, reset, catalog reads, DDL requests, staging and its undo | `EloqRecoveryUnit` |
| Catalog record store (`eloq_record_store.cpp`), index metadata (`src/mongo/db/storage/kv/kv_collection_catalog_entry.cpp`) | none; the catalog entries are the transaction service's | `findRecord`, `insertRecord`, `updateRecord`, `deleteRecord`; the four index operations | `EloqRecoveryUnit` |
| `ServiceExecutorCoroutine` (`src/mongo/transport/service_executor_coroutine.cpp`) | per thread group: two queues, a batch, `_extWorkerActive`, `_ongoingCoroutineCnt` | enqueue, resume, notify, process, shut down | `CoroExecutor` |
| `ServiceStateMachine` (`src/mongo/transport/service_state_machine.cpp`) | per connection: state, coroutine status, group, functors, `_migrating`, the Client, the response, the stack | start, source, process, sink, end; yield, resume, migrate, destroy | `ServiceStateMachine` |
| Coroutine mutex, condition variable, sleep (`src/mongo/db/coro_sync.cpp`) | waiters | lock, wait | the way they wait: `ServiceStateMachine` |
| `CdcStreamRegistry`, cluster gate, record store, index, cursor, KV engine, codecs, options, the Python consumer, MongoDB itself | | | not modelled (section 7) |

How they interact. A getMore runs on a coroutine. The stage pulls
`CdcEventStream::next`, which pulls `CdcScanSource::next` until a record yields
an event. The source keeps at most one scan per group in flight through
`CdcScanClient`; a scan's callback runs on an RPC thread, marks the call
complete and notifies the cursor's `CdcWaitObject`, which resumes the coroutine
through the executor. The log groups answer with pages of records and a bound
(`arrival_complete_ts`): nothing that has not arrived yet will carry a
timestamp at or below it. Every event has a resume token. The batch loop of the
command puts events into a reply and reports one token with it: the last
appended event's, a watermark from `emitBound()` when the stream had no more, or
the invalidate event's when it has ended.

A request of any kind is a coroutine of its connection's state machine. It
waits by arranging its resumption and then yielding: the transaction service
calls the resume functor, a coroutine mutex puts the coroutine behind the other
tasks of its group, and `_migrateThreadGroup` queues it on another group, the
one that owns a cursor or a session. Threads that enqueue wake the group's
worker if it sleeps.

An operation that writes has a recovery unit. Catalog writes go through
`KVCollectionCatalogEntry` and `EloqCatalogRecordStore` into it: metadata with
an index still being built is only staged in the unit, metadata without one is a
DDL request, or a write of the transaction that has written documents.

What is hard, and what correctness means for each part:

* **Merge** - groups progress independently, pages are cut by size even inside
  one timestamp, a new leader reports an older bound, a retry repeats a scan.
  Nothing may be released before something older, in any group, that is still
  to come; nothing twice; and `emitBound()` must be a sound watermark.
* **Progress** - idle groups hold everyone back unless their empty pages move
  the boundary; the buffer cap must not starve a group.
* **Waiting** - completion callbacks, timers and the coroutine race; a wake-up
  may be neither lost nor delivered twice.
* **Retries** - nodes may name each other as leader, or name nobody; a client
  may neither spin nor get stuck.
* **Start** - a stream without a token starts between what has happened and
  what has not, although bounds are read at different times.
* **Resume** - a token names a point inside a record, a timestamp shared by
  several groups, or a watermark; a resumed stream may skip nothing and repeat
  nothing, and a dropped collection's stream must end with its invalidate.
  An event that did not fit a reply must not be covered by the reply's token,
  and one that a user's pipeline hid must be.
* **Units of work** - metadata is staged, replaced and erased several times in
  one unit of work, which then aborts, fails to commit, or is tried again. A
  rollback must leave what was staged before. A DDL request cannot be undone,
  and its result may be unknown.
* **Schema cache** - a schema read in one transaction must not be used in
  another, for other nodes' DDL may have come between; a write that started from
  it would undo theirs.
* **Wake-ups of workers** - enqueueing and going to sleep race without a lock.
* **One thread per connection** - a resumption may be queued, and taken by
  another worker, before the coroutine has left the one it is on.
* **Shutdown, and the end of a connection** - a task that is refused must end its
  session, and a coroutine's stack must outlive all that runs on it.

`PROJECT.json` lists the hazards line by line under `hazards`, each with the
properties that guard against it.

## 2. Modules and how they correspond to the code

| Module | What it is |
|---|---|
| `CdcLog` | The log groups: records, bounds, retention, and what a scan may answer. External. |
| `CdcOrderedSource` | The promise of the source: records in order, a boundary per group, a `drained` flag. No pages, calls or time. |
| `CdcScanSource` | `CdcScanSource::next` in full, over `CdcLog`. Implements `CdcOrderedSource`. |
| `CdcScanSourceProofs` | TLAPS proofs about it. |
| `CdcFixStart`, `CdcFixStartProofs` | `CdcScanSource::fixStart`. |
| `CdcWaitObject`, `CdcWaitObjectProofs` | The wait object and the calls whose callbacks notify it. |
| `CdcScanClient`, `CdcScanClientProofs` | The retry policy of one group. |
| `CdcEventStream`, `CdcEventStreamProofs`, `CdcEventStreamOnceProofs` | Events, tokens, opening and resuming, and the batch loops, over `CdcOrderedSource`. |
| `EloqRecoveryUnit`, `EloqRecoveryUnitProofs` | The recovery unit with the catalog record store, and the DDL of other nodes. |
| `CoroExecutor` | The thread groups: queues, batches, sleeping and waking, shutdown. No behaviour of its own. |
| `ServiceStateMachine`, `ServiceStateMachineProofs` | The connections and their coroutines, over `CoroExecutor`, which it extends. |
| `MC*.tla`, `*.cfg` | Instances for TLC. |

The `map` in `PROJECT.json` gives, for every definition that models code, the
lines it stands for. Operators commented "Mutant" are wrong variants of mapped
definitions; each property has one that violates it.

**`CdcLog`.** A record is a timestamp, a stream (`data` or `ddl`) and a key that
orders records of one timestamp within the stream. A position is a pair of
storage keys, one per stream, which is what a scan's continuation holds. `Arrive`,
`AdvanceBound` and `Purge` are the group's own steps. `Available`, `Pages` and
`Continuations` say what a scan may return: any prefix, in the merged order, of
the records above the position and at or below the bound, but at least one
record when there is one. The module is taken from the use the stream makes of
`CdcScan` and from `cdc/cdc_fake_log_service.cpp`.

**`CdcScanSource`.** `pc` names the place in `next()`:

| Code | Action |
|---|---|
| a call of `next()` | `CallNext` |
| `_collectCompletions`, group by group in id order (`todo`) | `CollectNothing`, `CollectRetry`, `CollectFatal`, `CollectPage` |
| `_admit`, `_pauseIfIdleEarly` | inside `CollectPage` (`ScannedAfter`, `NextPosition`, `IdlePauses`) |
| `_head` dropping finished pages | `DropExhausted` |
| `_pickReleasable` finds a record / none | `Release` / `PickNone` |
| `_issueScans`, group by group | `IssueScan` (`ShouldScan`, `Lagging`) |
| the deadline, the wait | `ReturnNone`, `EnterWait`, `Wake` |
| the callback of a scan | `AnswerPage`, `AnswerFatal`, `AnswerRetry` |

Each collection and each issue is a step of its own, so that answers come
between any two groups of a loop. Picking is one step: it reads only state of
the cursor's own coroutine. Dropping finished pages is a step of its own so
that it can be told apart; it is forced, for a pick waits until no page is left
that was released in full, and its order across groups does not matter. Time is
abstracted to `clock` (more than `kShortestLongPoll` left, less, none) and
`deferred[g]` (the client's `readyAt` is ahead). `released` is a history
variable.

**`CdcFixStart`.** The loop of `fixStart`: `Probe`, the collections, `Started`,
`NotStarted`, `Wake`. A probe from the highest timestamp returns no record, so
only its bound is kept.

**`CdcWaitObject`.** One action per critical section: a callback first marks
its call complete (`Complete`), then takes the lock (`Notify`), then, unlocked,
calls the functor (`CallResume`). The cursor looks at the calls, issues,
registers (`Register`), and only then yields (`Yield`); the timer may fire at
any point and is deleted after the wake-up. `Block`/`Unblock` is the path of
callers without coroutines. From the executor it takes that a resumption queued
before the yield is kept; that is what `OneDriver` and `RequestsFinish` of
`ServiceStateMachine` show.

**`CdcScanClient`.** `Issue` and the `Take...` actions are `issue` and
`takeCompleted` with the cases of its answer: a page (`TakePage`), no such
method (`TakeUnsupported`), a position that was purged (`TakePositionTruncated`),
an RPC error (`TakeError`), a redirect to another node (`TakeRedirect`), to
nobody, to the same node or to an unknown address (`TakeNotReady`), and a status
it does not know (`TakeUnknownStatus`). The agent may know no leader; a scan
then has no target node (`NoNode`). Time is relative and saturating, so the state is
finite without a cap on the clock. Elections, nodes that stop answering and
the agent's leader cache are the environment.

**`CdcEventStream`.** `OpenFresh` and `Resume` are `openFresh` and `openAt`;
`TakeRecord`, `DecodeEntry`, `DecodeEnd`, `ReturnInvalidate`, `ReturnNone`,
`ReturnEnded` are the passes of `next`. The batch loops are around them:
`BeginPull` is the loop's call of the executor; `Return` hands an event to the
user's pipeline, which drops the classes of `filter` and pulls again; an event
that gets through is appended (`PutInReply`) or stashed because the reply is
full (`SetAside`), and a stashed one is the first of the next reply
(`ReturnStash`). `token` is the reply's token: an event's when it is appended,
the watermark in `ReturnNone`, the invalidate event's in `ReturnEnded`, even if
the pipeline dropped that event. Tokens keep the timestamp, the kind and
an entry per group, in form 1 (inside a data record) or form 2 (between
records), as `_entries` builds them. A record is given by its decoded content
(`Blob`, `SchemaOp`): the section and entry structure that places, scope and
deduplication depend on, and no document text. The consumer applies what it is
given (`applied`), saves tokens (`Save`) and resumes from the last one saved,
losing what it applied later (`Resume` cuts `applied` back to what the token
covers).

**`EloqRecoveryUnit`.** One operation at a time, as a recovery unit belongs to
one. `depth` counts the `WriteUnitOfWork` objects alive.

| Code | Action |
|---|---|
| `WriteUnitOfWork`, its `commit`, its destructor | `BeginUnitOfWork`, `CommitNested` / `CommitUnitOfWork` / `CommitFails`, `Unwind` |
| `abandonSnapshot`, `reset` | `AbandonSnapshot`, `Reset` |
| `_txnClose`, `_abort`, the rollback of `_changes` | `TxnClose`, `Rollback` (inside the actions above) |
| `discoverTable`, `readCatalog`, `findRecord`, `lockCollection` | `Discovered`, `Reading`, `FindRecord`, `LockCollection` |
| `putUnreadyTable`, `eraseUnreadyTable` | `PutUnreadyTable`, `EraseUnreadyTable` |
| `updateTable`, `updateRecord`; its callers | `UpdateTable`, `UpdateRecord`; `PrepareForIndexBuild`, `IndexBuildSuccess`, `RemoveIndex`, `SetIndexIsMultikey` |
| `insertRecord`, `deleteRecord` | `InsertRecord`, `DeleteRecord` |

A catalog entry is reduced to its ready, building and multikey indexes.
`InsertRecord` has no branch for metadata with an index being built
(`eloq_record_store.cpp:287-290`): no caller reaches it, for a new collection's
indexes are ready and the other entries that are inserted have none. `raised`
says that an exception is on its way out: what a caller may do then is unwind.
A failed DDL request has either outcome when its result is not known
(`DdlFails`). The undo records are a sequence, and `RolledBack` is what running
them from last to first leaves. Of the transaction service the module takes
(external) that an entry a transaction has read is not changed by another until
that transaction ends, and that a transaction makes at most one DDL request,
which commits at once and gives up the lock on its entry.

**`CoroExecutor`.** The build in which the executor is a module of the brpc
workers. `enqueueTask` and `resumeTask` are two steps: the task is in the queue
(and the thread in `notifying`), then `notifyIfAsleep` looks at
`_extWorkerActive`. The worker takes batches in the order of
`MongoModule::Process` (`DequeueResumptions`, `DequeueTasks`), declares itself
inactive (`ExtThdEnd`), and looks once more before it sleeps (`Park`); the loop
around `Process` is brpc's and external, and that it looks once more is assumed.
`Shutdown` stops `schedule()` and takes the module from the workers
(`eloq::unregister_module`): from then on a worker is certain only while
`HasTask()` holds, and one that sleeps may leave its group for good (`Quit`). The
server does not call it for this executor; a unit test does.

**`ServiceStateMachine`.** A record per connection holds the members of the
class. `StartSession`, `SourceCallback` and `SinkCallback` are steps of network
threads; `SourceMessage`, `BeginCoroutine`, `RunResumeProcess` and `Munmap` are
the tasks of a worker; `AwaitTx`, `LongResume`, `MigrateThreadGroup` are what
makes a coroutine leave, each up to its yield, and `Yield` is `_coroYield`. The
worker is then back on its own stack in `_finishCoroutineStep`
(`ClearMigrating`, `KeepSession`), or `ProcessResponse` after the coroutine has
returned. Between arranging a resumption and the yield, and between the parts
of `_finishCoroutineStep`, other workers run: that is where the migration goes
wrong (section 6). `schedule()` is one step, its look at `_stillRunning` with
the enqueue. `fault` stands for the failed `invariant()` or the jump to a
context that is not suspended; nothing happens after it, so the safety
properties speak of the behaviours, or of their parts, without it.

## 3. Runs

| Run | Instance | What it shows |
|---|---|---|
| `scan_source` | 2 groups; group 1 with a data and a DDL record at timestamp 2, group 2 with a record at 1; one purge | `NothingOlderFollows`, `GroupPrefix`, `EmitBoundCovers`, `FetchedOnce`, `OnePagePerGroup`, `ScannedTsMonotonic`, and the refinement `ImplementsOrderedSource`: the merge is ordered and complete, and every step is a step of the ordered source |
| `scan_source_live` | a record in group 2, group 1 empty, a cap with room for both scans | `EveryRecordReleased` |
| `scan_source_small_cap` | the same, cap 1 | violated: finding 1 |
| `event_stream` | deployment scope; a transaction logged twice, index sections, an excluded database, a rolled-back create, two schema operations at one timestamp, replies that may be full, two resumes from tokens of every kind | `NothingSkipped`, `WatermarkCovers`, `NoRepeat`, `InTimestampOrder` |
| `event_stream_live` | collection scope; a change, the collection's drop, its re-creation; a plain pipeline and one that hides the drop and the invalidate; replies that may be full, dedup sets without room, one resume | `InvalidateFollowsDrop`, `EndIsPassed`, `EveryChangeApplied`, `DropEndsStream` |
| `event_stream_drop_watermark` | collection scope; changes at one timestamp in both groups, the drop, the re-creation, another collection's drop; watermark tokens saved too | violated: finding 2 |
| `wait_object` | 3 calls, 4 threads | `ResumedOnce`, `NoLostWakeup`, `CompletionWakes` |
| `scan_client` | 3 nodes or none in the leader cache, 2 changes, backoff from 2 to 5 | `Paced`, `EventuallyServed` |
| `fix_start` | 2 groups, any initial bounds and histories, any deadline | `NoProbeLeft`, `MissesNothing`, `OpenEnds` |
| `recovery_unit` | 1 table, 2 indexes of the operation, 1 of the other nodes, units of work nested twice, up to 6 undo records | `RollbackRestores`, `CacheIsCurrent`, `NoLostUpdate` |
| `service_state_machine` | 2 connections that start on one of 2 groups; one yields twice, in any way | `OneDriver`, `OnItsGroup`, `StackOutlivesCoroutine`, `RequestsFinish` (no wake-up of a task or of a resumption is lost while the executor runs), `ShutdownLosesNoRequest` (a request that has begun is finished after a shutdown too, if nothing migrates) |
| `session_migration` | 1 connection, 2 groups | `NoFault` violated: finding 3 |

Each module also has one type invariant.

**Bounds and why they suffice.** Two groups are what the merge rules compare
at a time: the emission rule, the tie-break and the starvation of section 6 are
all relations between a group and one other; the proofs cover any number. Two
records at one timestamp in the two streams of a group are the smallest page
that can be cut inside a timestamp, and a third below them in the other group
the smallest case in which the cut must hold something back. `MaxTs` is 2 to 4.
A page costs one byte of the cap; only comparisons with the cap matter.
`NoHistory` is empty in the runs, since purging reaches the same fatal path.
`MaxResumes = 2` lets a consumer resume from a token handed out by a resumed
stream. `MaxThreads = 4` admits the callbacks of all calls and the timer at
once. `MaxChanges = 2` of `CdcScanClient` lets a redirect point to a node that
has lost the lead again. `MaxFloor` is 1 in `scan_source`, where it matters, and 0 elsewhere.
In `recovery_unit`, entries of different tables do not touch each other (the
proofs cover any number), two own indexes let one be published or dropped while
the other is still being built, and `MaxChanges = 6` undo records let each be
staged, published and dropped in one unit of work; a unit of work deeper than two
behaves as one of depth two. In `service_state_machine`, `BatchSize = 2` gives
full and partial batches, `CountMod` is the code's 2^16, two yields of one
connection let it migrate and then wait on the new group, and the second
connection has requests without yields that share queues and workers with it; at
most one thread notifies for a connection and a group at a time. Deadlock
checking is off where the system may stop: a stream that has failed, an open that
has ended, a cursor that is gone, connections that have all ended.

**Fairness.** Only what the surroundings guarantee. `CdcScanSource`: the
consumer keeps sending getMores and the server runs them (weak, `PullStep`);
time passes; checkpoint rounds complete; a pause ends; and a call that keeps
being sent is answered with the current bound at some time (strong, since a call
may fail or be answered from an older bound any finite number of times).
`CdcEventStream`: pulls, pages and rounds in the same sense. `CdcWaitObject`:
threads and the scheduler run, but nothing makes a timer fire, so a completion
alone must wake the cursor. `CdcScanClient`: time passes, calls are answered or
time out, elections end. `CdcFixStart`: the open runs and time passes; the
groups may never answer. `ServiceStateMachine`: workers that are awake run,
threads that are to notify do so, and the transaction service answers. Nothing is
assumed of the network, for a client need not send anything, nor of a worker that
sleeps: it must be woken, and after a shutdown it may or may not quit. `EloqRecoveryUnit` has no liveness property, for a
caller may retry for ever.

## 4. Proofs

All proofs hold for every value of the constants, under the named assumptions
of the modules: groups are natural numbers and there is at least one
(`GroupAssumption`), records lie in the declared ranges (`RecordAssumption`,
`BoundsAssumption`), starts are at least 1 (`StartAssumption`; `startAt`
asserts it), a page has at least one byte (`SizeAssumption`), the first backoff
is positive and at most the largest (`BackoffAssumption`), and a redirect to
nowhere or to a stranger names no node of the group (`RedirectAssumption`); the
operation's indexes and the other nodes' are different, and no entry is not an
entry (`ConstantsAssumption`); a batch has at least one task and the counter of
running coroutines more than one value (`ExecutorAssumption`); each connection
starts in a group (`SessionAssumption`). The event stream's assumptions are about
the log's content: the decoder counts sections and keys from 1
(`BlobAssumption`) and a schema operation is one of the four the log has
(`SchemaOpAssumption`). Four more are what the log guarantees of one timestamp, and
are cited only where a proof needs them:

* `OneChangeAssumption`: a document changes once at a timestamp, up to an entry
  of the same transaction in the same group (`docs/cdc-change-stream.md:78`, F4:
  commit timestamps of one key strictly increase). Used by `ProducedOnce`.
* `OneDdlAssumption`: a table has one schema operation at a timestamp, logged once
  (`:298-306`: DDLs on one table "have distinct timestamps"). Used by
  `EndNeverReturns`, `ProducedOnce` and `DropIsFollowed`.
* `DropAssumption`: no write of a collection has the timestamp of its drop
  (`:1587-1589`). Used by `DropIsFollowed`.
* `ScopeAssumption`: a collection stream is not opened on an internal database
  (`src/mongo/db/pipeline/document_source_change_stream.cpp:561-567` refuses it).
  Used by `DropIsFollowed`.

TLC evaluates all of them on the logs of the three event stream runs. The bounds that keep TLC's state finite (`MaxResumes`, `MaxYields`, `MaxChanges`,
`MaxTs`, ...) may be any natural number.

| Theorem | Statement |
|---|---|
| `TypeCorrect` | `CdcScanSource!Spec => []TypeOK` |
| `MergeNeverOvertakes` | `=> []NothingOlderFollows` |
| `GroupOrder` | `=> []GroupPrefix` |
| `WatermarkSound` | `=> []EmitBoundCovers` |
| `NoRecordTwice` | `=> []FetchedOnce` |
| `MemoryBound` | `=> []OnePagePerGroup` |
| `BoundariesMonotonic` | `=> ScannedTsMonotonic` |
| `Refinement` | `=> ImplementsOrderedSource` |
| `TypeCorrect`, `ProbesAreBack`, `StartMissesNothing` (of `CdcFixStartProofs`) | `CdcFixStart!Spec => []TypeOK`, `[]NoProbeLeft`, `MissesNothing` |
| `TypeCorrect` (of `CdcEventStreamProofs`) | `CdcEventStream!Spec => []TypeOK` |
| `AppliedInOrder` | `=> []InTimestampOrder` |
| `NothingIsSkipped` | `=> []NothingSkipped` |
| `WatermarkIsSound` | `=> []WatermarkCovers` |
| `EndNeverReturns` | `=> []EndIsPassed` |
| `ProducedOnce` | `DedupHasRoom` implies `Spec => []NoRepeat` |
| `DropIsFollowed` | `"watermark" \notin SavedKinds` implies `Spec => []InvalidateFollowsDrop` |
| `TypeCorrect` (of `CdcWaitObjectProofs`) | `CdcWaitObject!Spec => []TypeOK` |
| `ResumedExactlyOnce`, `NoWakeupLost` | `CdcWaitObject!Spec => []ResumedOnce`, `[]NoLostWakeup` |
| `TypeCorrect`, `RetriesPaced` (of `CdcScanClientProofs`) | `CdcScanClient!Spec => []TypeOK`, `Paced` |
| `TypeCorrect` (of `EloqRecoveryUnitProofs`) | `EloqRecoveryUnit!Spec => []TypeOK` |
| `RollbackCorrect` | `=> []RollbackRestores` |
| `CacheCorrect` | `=> []CacheIsCurrent` |
| `UpdatesKept` | `=> NoLostUpdate` |
| `TypeCorrect` (of `ServiceStateMachineProofs`) | `ServiceStateMachine!Spec => []TypeOK` |
| `ExactlyOneDriver` | `=> []OneDriver` |
| `RunsOnItsGroup` | `=> []OnItsGroup` |
| `StackIsKept` | `=> []StackOutlivesCoroutine` |
| `OnlyMigrationKills` | `Spec /\ []NoMigration => []NoFault` |

**The merge.** None of the properties is inductive: `NothingOlderFollows` only
speaks of what was released, and says nothing of what a page on its way may
bring. The invariant `IndInv` (in `CdcScanSource.tla`) relates the four places
a record can be: in a group unfetched, in an answer, buffered, released.

* `PositionInv`: the fetch position splits the group's records into the fetched
  and the unfetched, those that are still to arrive included: it is the start,
  or no key of it lies above the bound.
* `FetchOK`: what was fetched is a prefix of the group's records in the merged
  order, what was released a prefix of that; everything up to `scannedTs` is
  fetched and nothing fetched lies beyond `scannedTs + 1`. The second half is
  what makes the `lagging` exception harmless (`ScannedGroupIsEmpty`).
* `AnswerOK`: a page on its way is the next part of what is not fetched. It is
  established by `PageIsNext` (from `AvailableIsUnfetched`: retention never
  hides a record from a scan that is not refused), and survives arrivals, for a
  record that arrives lies above every bound reported.
* `PageInv`: one page per group, and none while a call is out.
* `MergeInv`: nothing buffered or unfetched is older than something released.
* `DrainInv`: when nothing can be released, everything up to the lowest
  boundary was. Its step is `SomeReleasable`: a record below every boundary that
  is buffered implies a record that can be released, the first of the lowest
  timestamp in the lowest group that has it.

There is one lemma per action that touches what the invariant is about, and
`QuietStep` for the others. `Refinement` maps `drained` to "drained, and no pull
is running"; `CollectPage` is `Fetch` or a stutter, `Release` is `Deliver`,
`ReturnNone` is `Drain` (its guard is `DrainInv`), `CallNext` is `StartPull`,
the log's steps are the log's, and every other step is a stutter.

**The start.** A start misses nothing if it lies at or below a bound that every
group has reached, for what arrives later lies above it. `IndInv` follows the
bounds on their way: one that is carried by an answer or noted in `arrival` is
one the group has reached (`ReportsOK`; bounds only grow); a probe is out only
in a group whose bound is not known (`ProbesOK`); the start, once fixed, is at or
below every bound, and every bound is known (`StartOK`). `NoProbeLeft` is
`ProbesOK` with `StartOK`.

**The event stream.** The properties speak of what a consumer has applied over
several streams, of which each knows the earlier ones only by a token. The
invariant is therefore about positions. A cursor cuts the records of a group
into those it is past and those ahead of it, and inside one record the places
(`Past`, `Inside`; `PastIsPrefix` and the lemmas after it say how a cursor moves).

* `RecordCovered(g, r, c, f, S)`: every change of the record that the consumer
  should see is in `S` or ahead of cursor `c`, place by place when the cursor is
  inside the record. An entry that is skipped as a repeat was given before:
  the deduplication remembers only what was (`DedupOK`).
* `TokenOK(t, S)`: a consumer that was given `S` may resume from `t`. Everything
  is covered from the token's entries, or from its timestamp in a group that the
  token does not name; nothing ahead is older than `S`; and nothing that is still
  to arrive lies behind the entries (`BoundOK`). It holds of each token a consumer
  can come to hold: the reply's, the stashed event's, the saved one (for the
  changes applied when it was saved), and the one a stream will end with.
* `CursorOK` ties the cursors to the source below: past what was released, and of
  the rest past exactly what the resume points will skip. `SourceOK` is what is
  needed of the ordered source; `CdcScanSource` implements it (`Refinement`).
* `StreamOrdered`: nothing that will be produced is older than what was given.
  After a watermark the skipped records may be, which is why its clause for them
  depends on the kind of token the stream was opened from.
* `DecodeOK`: the record being decoded is the oldest that is left; its changes up
  to the decoder's place were given.

A resume is where it comes together: `TokenOK` of the saved token becomes
`StreamInv` of the new stream. `NothingSkipped` and `WatermarkCovers` are then
`StreamCovers` with the fact that nothing below an applied change, or at or below
the lowest boundary, is still ahead. The drop of the watched collection is no
exception: the stream that ends with it is past it, and `EndInv` keeps the
invalidate token's own `TokenOK`.

`EndNeverReturns` has an invariant of its own, `EndsOnce`, on top: every
invalidate token, wherever it is kept, is past the drop it reports
(`TokenPastDrop`); so a stream opened from one does not meet that drop again, and
as a drop of the collection at the same timestamp is the same drop, what such a
stream ends with is later.

**Once, and the end of a stream** (`CdcEventStreamOnceProofs`). The invariant above
says that what was not given is ahead. `ExactInv` is its converse: what was given
is behind (`IsBehind`), of the stream's cursors and of every token
(`TokenExact`, next to `TokenOK`), a change inside a record place by place. A step
keeps it because cursors only move forward: `Further` compares two cursors by what
is ahead of them, and a token made of the stream's cursors has no more ahead than
these (`TokenFurther`), although it leaves out the groups that are behind its
timestamp. What makes it inductive:

* `ResumeOK`: a cursor that is inside a record still to be read is the group's
  resume point, so the record is entered where the token says and not again from
  its beginning.
* `DecodeExact`: while a record is decoded, the decoder is at or beyond the place
  in the cursor, or will pass over what lies below it.
* The drop a stream was opened from is past its cursor, and until the stream
  meets it nothing is produced: the opening token still describes what was given.

Being behind does not yet exclude a repeat, for the log may hold an entry twice, in
two records of one timestamp. `OnceInv` adds `DedupExact`: a group's deduplication
set belongs to the last timestamp at which the group has read a change and has every
change read there. This is why `DedupHasRoom` is a hypothesis: a set that is full
forgets the rest (`cdc/cdc_event_stream.cpp:388` then lets a repeat through and counts it). It
is true of the log of `event_stream`; `event_stream_live` has sets without room,
and does not check `NoRepeat`.

`DropInv` follows the invalidate event that is due. When the last change given is
the drop of the watched collection, the next is its invalidate event
(`MayFollow`), wherever the consumer goes on: a running stream has it pending
(`EndDue`) or will meet its own drop before anything else (`StreamEnds`), and a
token is the drop's token (`TokenEnds`), from which `openAt` finds the drop again. The
last is false of a watermark, which is what finding 2 shows; the hypothesis of
`DropIsFollowed` is therefore about what the consumer saves, and not a
simplification. `event_stream_live` meets it.

**The wait object.** `NoLostWakeup` is strengthened to `Announced`: a completed
call is announced by a pending or recorded notification also while the cursor
runs past the group it belongs to, before it waits. `ResumedOnce` needs the
counters' types.

**The client.** `Paced` compares the ages of the last two scans. Its invariant
`PaceInv` says that, between two scans, either the wait and the age of the last
scan make up a backoff, or the last scan was a redirect followed at once, and
then the scan before it is old enough and the next redirect will not be followed
at once.

**The recovery unit.** `RollbackRestores` and `CacheIsCurrent` speak of the end of
a unit of work and of one moment; `IInv` (in `EloqRecoveryUnitProofs.tla`) adds
what holds on the way.

* `UndoOK`: in an open unit of work, a table without an undo record has the
  metadata it had at the beginning, and the first undo record of a table holds
  it. That is why running the records backwards restores it, whatever the
  number of stages (`RolledBack`).
* `LockOK`: a cached schema is under the transaction's lock, so no other node
  changes its entry (the schema of an entry that is gone only if this transaction
  made the drop); what the transaction will write itself is in the cache,
  and only adds multikey flags.
* `StagedOK`: what was staged in this unit of work agrees with the locked entry
  on the indexes of other nodes, unless the transaction has made its one DDL
  request. It makes `NoLostUpdate` inductive: the entry a
  build publishes was staged from one that nobody could change since.

The four callers of `updateRecord` are handled at once: `MayWrite` is what they
promise about the metadata they pass, `UpdateRecordStep` shows that `IInv`
survives any write that keeps the promise, and `MetaDataStep` that each caller
keeps it. The lemmas `DiscoverFacts`, `FoundFacts`, `StageStep` and
`UpdateTableFacts` are its parts.

**The connections.** `OneDriver` counts tasks in queues and workers, and no step
can be understood from the count. `PhaseOK` says what the driver is in each phase
of a connection: nothing but the network (`Idle`), one task of its group
(`Scheduled`), the worker on its stack (`Executing`), one resumption queued or
still to come from the transaction service (`Suspended`), the worker that has the
response (`Answered`). Each step hands the connection from one phase to the next;
`PhaseKept` covers the connections a step does not touch, and the lemmas on
queues (`QueuedOnce`, `Unqueued`: "once, there and nowhere else") the tasks that
are added, taken in batches and run. `Suspended` includes the time between the
arranging of a resumption and the yield, when the old worker is still on the
coroutine's stack. `Core` is this invariant; a process that has died keeps only
`Died`, which is enough for the properties that do not exempt it. `IndInv` is
`Core \/ (fault /\ Died)`.

`OnlyMigrationKills` adds `Settled`: while no connection is migrating, a worker
that leaves a coroutine belongs to the connection's group, so the task that
resumes it cannot be run before the worker is back. Every way to the fault of
section 6 starts with `_migrateThreadGroup`. `NoMigration` is a premise about
the behaviour, met by every execution in which no request moves to another group.

**Only model-checked.** Liveness (`EveryRecordReleased`, `EveryChangeApplied`,
`DropEndsStream`, `CompletionWakes`, `EventuallyServed`, `OpenEnds`,
`RequestsFinish`, `ShutdownLosesNoRequest`) is out of the prover's reach, for it needs
`ENABLED` and fairness. Every invariant and every action property that a passing run
checks is stated by a theorem.

## 5. What is abstracted

Names, documents and keys are model values; event documents are reduced to the
change they report, catalog entries to their indexes, a request to its yields and
the kind of its reply. Metrics (`scansIssued`, `_publishStats`) are left out. The
lengths of pauses and polls are left out in `CdcScanSource`, where only their
order against the deadline matters; in `CdcScanClient`, whose property is about
them, they are kept. `from_ts` near 2^64 is not modelled: timestamps are commit
times in microseconds.

## 6. Findings and observations

Three runs show disagreements between the code and what the repository says of it:

1. `scan_source_small_cap` / `EveryRecordReleased`
   (`cdc/cdc_scan_source.cpp:401`). `_issueScans` reserves `max_bytes` for every
   scan in flight and visits groups in id order. If the cap is at most
   (groups - 1) x `max_bytes`, idle groups with lower ids, which are sent again
   on the pass that takes their empty page, keep the cap full; nothing is
   buffered, so no group counts as lagging, and a later group is never scanned.
   `docs/cdc-change-stream.md:1672-1674` says that "the stream can always make
   progress". The defaults (64 MB, 4 MB) meet the condition with 17 log groups.
2. `event_stream_drop_watermark` / `InvalidateFollowsDrop`
   (`cdc/cdc_event_stream.cpp:130`). `openAt` looks for the stream's own drop
   only from an event token. A stream resumed from the drop's token whose first
   batch is empty hands out a watermark that names the drop in its group's
   entry; resumed from that watermark it takes the drop for produced, returns no
   invalidate and goes on into the collection's next incarnation.
   `docs/cdc-change-stream.md:1570-1573` requires the invalidate.
3. `session_migration` / `NoFault`
   (`src/mongo/transport/service_state_machine.cpp:646`). `_migrateThreadGroup`
   queues the resumption on the new group before the coroutine yields. The new
   group's worker may take it while the old one is still on the coroutine's
   stack or has not cleared `_migrating`. `_runResumeProcess` then calls
   `_coroYield`, which is the coroutine's yield and not that of the stack it is
   on: either `Client::releaseCurrent` fails its invariant
   (`src/mongo/db/client.cpp:165`) or the switch goes to a context that is not
   there. The old worker's read of `_coroStatus` (`:667`), after it has cleared
   `_migrating` (`:661`), races in the same way with a request that ends on the
   new group. The comment at `:106` says that the guard ensures "that only one
   thread is working on the SSM at once".

Observations that break no property:

* The comment at `cdc/cdc_event_stream.h:98` says that only the group of the
  record being decoded can be in form 1. After resuming from a form-1 token,
  its group is, before any record is decoded (`cdc_event_stream.cpp:160`).
* The `lagging` exception never fetches into a group with records buffered
  (`ScannedGroupIsEmpty`); it only overrides the cap.
* `_earliestDeferredReady` may miss a `readyAt` that passes between the issue of
  scans and the wait; the group is scanned at the next wake-up. Latency only.
* `fixStart` with less than `kShortestLongPoll` left may wake at a `readyAt`
  that has passed without being allowed to probe, and loop until the deadline
  (`cdc_scan_source.cpp:173-179`).
* `notifyIfAsleep` and `ExtThdEnd` use relaxed memory orders; that no wake-up is
  lost rests on the order of the enqueue and the load, which the model takes as
  the program's. x86 atomics and the queue's own operations provide it in
  practice; the language does not.
* `_ongoingCoroutineCnt` counts a coroutine in on the group it began on and out
  on the group it ends on. After a migration the first group's count stays
  one too high, the second's wraps to 65535, and `HasTask()` stays true for both:
  their workers no longer sleep. While the
  request waits on its new group, that group does not count it; after a shutdown
  the group's worker may then quit with the request unfinished, so
  `ShutdownLosesNoRequest` has the premise `NoMigration`.
* In the build with worker threads of its own, `terminate()` notifies a worker
  whose predicate in `trySleep` does not look at `_isTerminated`.
* The destructor of a state machine asserts, in debug builds, that it runs on its
  own group's thread; after a migration a slot of `_taskBulk` on another group
  may hold the last reference.
* A drop whose result was not known and that the second attempt finds done leaves
  the schema in the cache until the transaction ends. `CacheIsCurrent` shows that
  only the transaction that made the drop, and holds the entry's lock, can see it.
* Metadata staged by a unit of work that committed is published later from what
  it was, without another look at the catalog. `createIndexes` keeps
  both in one unit of work (`src/mongo/db/commands/create_indexes.cpp:468-470`);
  other users of `MultiIndexBlock` do not, and `NoLostUpdate` leaves them out
  (`carried`).

## 7. Not modelled

* Record store, index, cursor, KV engine beyond `lockCollection`: requests to the
  transaction service, whose concurrency control is in a submodule without
  sources here. The scans that `_txnClose` closes go with them.
* Of the recovery unit: the unit borrowed for the feature document
  (`kv_collection_catalog_entry.cpp:201-290`), a catalog write outside a unit of
  work, and the cluster gate's refusals, which end a request like any other
  failure.
* The executor's build with worker threads of its own, and the worker loop of
  brpc.
* Which waiter of a coroutine mutex or condition variable goes first: they wrap
  the C++ library's.
* `CdcStreamRegistry`: a list and a sum under one mutex that only serverStatus
  reads.
* Codecs of keys, records, schemas, tokens: pure conversions with unit tests.
* Cluster gate, options, initialization, test commands: single calls or
  start-up wiring.
* The Python consumer, except for its apply-save-resume loop, which is the
  consumer of `CdcEventStream`.
* MongoDB itself: the map covers a small share of the repository's lines, for
  nearly all of them are the upstream server's.

## 8. Plan

Order: what correctness rests on first. Done: the log, the source and its promise,
the start, the wait object, the client, the event stream with the batch loops,
the recovery unit with the catalog, the executor and the connections; the proofs
of section 4. Next:

* **Migration repaired**: `ServiceStateMachine` with the resumption queued by
  the old worker after the switch, to show that `NoFault` then holds.

## 9. Running it

    tlc -workers 4 -config MCCdcScanSource.cfg MCCdcScanSource
    tlc -workers 4 -config MCEloqRecoveryUnit.cfg EloqRecoveryUnit
    tlapm CdcScanSourceProofs.tla
    tlapm EloqRecoveryUnitProofs.tla
    tlapm CdcEventStreamProofs.tla
    tlapm CdcEventStreamOnceProofs.tla
    tlapm ServiceStateMachineProofs.tla

Each run's module and configuration are listed in `PROJECT.json`. The longest
run takes about two minutes; all proofs together take about ten minutes.
