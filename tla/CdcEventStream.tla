--------------------------- MODULE CdcEventStream ---------------------------
(***************************************************************************)
(* CdcEventStream: turns the records of an ordered source into change      *)
(* events, each with a resume token, and reopens a stream from a token.    *)
(* The consumer at its other end saves tokens when it likes, fails when it *)
(* likes, and resumes from the last token it saved.                        *)
(*                                                                         *)
(* Between the two are the user's pipeline, which filters events, and the  *)
(* batch loops of aggregate and getMore, which put events into replies, set*)
(* aside one that does not fit, and report a token with every reply.       *)
(*                                                                         *)
(* The source is CdcOrderedSource: what CdcScanSource was shown to provide.*)
(* Decoding a record never waits, so records are taken and decoded in      *)
(* steps of their own, between which only the log and the consumer move.   *)
(*                                                                         *)
(* mode says what the next pull goes on with:                              *)
(*   closed   no stream has been opened                                    *)
(*   source   the source's next record                                     *)
(*   decode   the rest of record current                                   *)
(*   pending  the invalidate event with token pending                      *)
(*   ended    nothing: the invalidate event has been returned              *)
(***************************************************************************)
EXTENDS CdcOrderedSource, Sequences, FiniteSets

CONSTANTS
    Scope,          \* [kind, db, coll]: the namespaces the stream covers
    Blob,           \* Blob[g][r]: a data record's transaction and sections
    SchemaOp,       \* SchemaOp[g][r]: a DDL record's operation
    Filters,        \* the classes of events a user's pipeline may drop
    MayStash,       \* whether a reply can be full
    MaxDedup,       \* the entries a dedup set has room for
    SavedKinds,     \* the kinds of token the consumer saves
    MaxResumes      \* bound: how often the consumer resumes

\* A blob's sections and their keys are counted from 1, and a schema operation
\* is one of the four that the log has.
ASSUME BlobAssumption ==
    \A g \in Group : \A r \in {r \in Record[g] : r.stream = "data"} :
        /\ DOMAIN Blob[g][r].sections \subseteq Nat \ {0}
        /\ \A i \in DOMAIN Blob[g][r].sections :
              DOMAIN Blob[g][r].sections[i].keys \subseteq Nat \ {0}
ASSUME SchemaOpAssumption ==
    \A g \in Group : \A r \in {r \in Record[g] : r.stream = "ddl"} :
        /\ {SchemaOp[g][r].documents, SchemaOp[g][r].rolledBack} \subseteq BOOLEAN
        /\ SchemaOp[g][r].type \in {"createTable", "dropTable", "addIndex", "dropIndex"}
ASSUME MaxResumesAssumption == MaxResumes \in Nat

Place == Nat \X Nat
NoPlace == <<0, 0>>
NoKey == [ts |-> 0, key |-> -1]

\* A group's emit cursor, and a token's entry for the group: the last record
\* finished in each stream or, in form 1 (partial), the data record being
\* produced and the place in it of the last change produced.
Cursor == [dataKey : Key, ddlKey : Key, partial : BOOLEAN, at : Place]
NoCursor == [dataKey |-> NoKey, ddlKey |-> NoKey, partial |-> FALSE,
             at |-> NoPlace]

TokenKind == {"event", "watermark", "invalidate"}
Token == [ts : 0 .. MaxTs, kind : TokenKind, entries : [Group -> Cursor]]
NoToken == [ts |-> 0, kind |-> "watermark", entries |-> [g \in Group |-> NoCursor]]

VARIABLES
    mode, pulling,
    cursor,         \* cursor[g]: the group's emit cursor
    skip,           \* skip[g]: the resume point of a group still to pass it
    dedup,          \* dedup[g]: the changes seen at the group's timestamp
    current,        \* the data record being decoded
    opening,        \* the token the stream was opened from
    pending,        \* the token of the invalidate event to come
    filter,         \* the classes of events the pipeline drops
    stash,          \* the event that did not fit the last reply, if any
    token,          \* the last token the consumer was given
    base,           \* where the first stream started
    applied,        \* the changes the consumer has applied, in order
    saved,          \* the last token it saved, and how many it had applied
    resumes

streamVars == <<mode, pulling, cursor, skip, dedup, current, opening, pending>>
consumerVars == <<filter, stash, token, base, applied, saved, resumes>>
vars == <<orderedVars, streamVars, consumerVars>>

NoCurrent == [group |-> 0, ts |-> 0, key |-> NoKey, at |-> NoPlace,
              through |-> NoPlace]
RecordOf(c) == [ts |-> c.ts, stream |-> "data", key |-> c.key.key]

-----------------------------------------------------------------------------
(***************************************************************************)
(* Scope and decoding.                                                     *)
(***************************************************************************)

ExcludedDb == {"local", "admin", "config"}

Includes(ns) ==
    /\ ns.db \notin ExcludedDb
    /\ \/ Scope.kind = "deployment"
       \/ Scope.kind = "database" /\ ns.db = Scope.db
       \/ Scope.kind = "collection" /\ ns = [db |-> Scope.db, coll |-> Scope.coll]

IsCollection(ns) ==
    Scope.kind = "collection" /\ ns = [db |-> Scope.db, coll |-> Scope.coll]

\* The places of a blob's changes the decoder returns: sections of documents
\* in scope, counted among all sections.
Places(blob) ==
    UNION {{<<i, j>> : j \in DOMAIN blob.sections[i].keys} :
              i \in {i \in DOMAIN blob.sections :
                        blob.sections[i].documents /\ Includes(blob.sections[i].ns)}}

PlaceLess(p, q) == p[1] < q[1] \/ (p[1] = q[1] /\ p[2] < q[2])

\* The change at place p, as the dedup set and the consumer identify it.
DedupKey(blob, p) ==
    [txn |-> blob.txn, ns |-> blob.sections[p[1]].ns,
     key |-> blob.sections[p[1]].keys[p[2]]]

DocumentChange(ts, blob, p) ==
    [ts |-> ts, class |-> "document", ns |-> blob.sections[p[1]].ns,
     key |-> blob.sections[p[1]].keys[p[2]]]

\* decodeCdcDdl: the operation type a schema operation is reported as, as a
\* singleton; none for one that is not EloqDoc's or was rolled back.
DdlTypes(op) ==
    CASE ~op.documents -> {}
      [] op.type = "createTable" -> IF op.rolledBack THEN {} ELSE {"create"}
      [] op.type = "dropTable" -> IF op.rolledBack THEN {} ELSE {"drop"}
      [] op.type = "addIndex" -> IF op.rolledBack THEN {"dropIndexes"}
                                                  ELSE {"createIndexes"}
      [] op.type = "dropIndex" -> IF op.rolledBack THEN {} ELSE {"dropIndexes"}

DdlChange(ts, op, type) == [ts |-> ts, class |-> type, ns |-> op.ns, key |-> 0]

\* The DDL changes of an operation that the stream reports.
Reported(ts, op) ==
    {DdlChange(ts, op, t) : t \in {t \in DdlTypes(op) : Includes(op.ns)}}

DropsWatchedCollection(op) == DdlTypes(op) = {"drop"} /\ IsCollection(op.ns)

\* A collection stream is not opened on an internal database.
ASSUME ScopeAssumption == Scope.kind = "collection" => Scope.db \notin ExcludedDb

\* What the log guarantees of one timestamp.  Two changes of one document never
\* share it: an entry that is logged twice is one transaction's, whose records
\* all lie in one group.
ASSUME OneChangeAssumption ==
    \A g, h \in Group : \A r \in Record[g] : \A s \in Record[h] :
        r.ts = s.ts /\ r.stream = "data" /\ s.stream = "data" =>
            \A p \in Places(Blob[g][r]) : \A q \in Places(Blob[h][s]) :
                DocumentChange(r.ts, Blob[g][r], p) = DocumentChange(s.ts, Blob[h][s], q)
                    => g = h /\ Blob[g][r].txn = Blob[h][s].txn

\* The schema operations of one table are serialized by its catalog lock, and
\* each is logged once.
ASSUME OneDdlAssumption ==
    \A g, h \in Group : \A r \in Record[g] : \A s \in Record[h] :
        /\ r.ts = s.ts /\ r.stream = "ddl" /\ s.stream = "ddl"
        /\ SchemaOp[g][r].ns = SchemaOp[h][s].ns
        => g = h /\ r = s

\* A drop takes its timestamp under the lock that excludes the table's writes.
ASSUME DropAssumption ==
    \A g, h \in Group : \A r \in Record[g] : \A s \in Record[h] :
        /\ r.ts = s.ts /\ r.stream = "ddl" /\ s.stream = "data"
        /\ DdlTypes(SchemaOp[g][r]) = {"drop"}
        => \A q \in Places(Blob[h][s]) :
              Blob[h][s].sections[q[1]].ns # SchemaOp[g][r].ns

-----------------------------------------------------------------------------
(***************************************************************************)
(* Tokens.                                                                 *)
(***************************************************************************)

\* T_K, the later of a cursor's two timestamps; 0 when there is no cursor.
LaterTs(c) == IF c.dataKey.ts >= c.ddlKey.ts THEN c.dataKey.ts ELSE c.ddlKey.ts

\* _entries: the cursors beyond what the token's timestamp covers.
Entries(cur, covered) ==
    [g \in Group |-> IF LaterTs(cur[g]) <= covered THEN NoCursor ELSE cur[g]]

EventToken(ts, cur) ==
    [ts |-> ts, kind |-> "event", entries |-> Entries(cur, ts - 1)]

InvalidateToken(t) == [t EXCEPT !.kind = "invalidate"]

WatermarkToken(b) ==
    [ts |-> b, kind |-> "watermark", entries |-> Entries(cursor, b)]

\* Mutant: a watermark's own timestamp is scanned again.
AbsentStartAtWatermark(t) == t.ts

\* Mutant: the successor is taken twice.
AbsentStartTwice(t) == IF t.kind = "watermark" THEN t.ts + 2 ELSE t.ts

\* startTimestampForAbsentGroup: records at an event's own timestamp may be
\* left in other groups, none at a watermark's.
AbsentStart(t) == IF t.kind = "watermark" THEN t.ts + 1 ELSE t.ts

\* Whether the token's entry, rather than its timestamp, says where group g
\* resumes.
Named(t, g) == LaterTs(t.entries[g]) >= AbsentStart(t)

-----------------------------------------------------------------------------
(***************************************************************************)
(* Opening.                                                                *)
(***************************************************************************)

Opened(t, f) ==
    /\ from' = f
    /\ scannedTs' = [g \in Group |-> f[g] - 1]
    /\ released' = [g \in Group |-> {}]
    /\ drained' = FALSE
    /\ mode' = "source"
    /\ pulling' = FALSE
    /\ dedup' = [g \in Group |-> [ts |-> 0, keys |-> {}]]
    /\ current' = NoCurrent
    /\ opening' = t
    /\ pending' = NoToken
    /\ stash' = <<>>
    /\ token' = t
    /\ UNCHANGED <<logVars, filter>>

\* openFresh: fixStart has taken the lowest of the bounds that the groups
\* reported, none of them 0, and every group starts above it.
OpenFresh(s) ==
    /\ mode = "closed"
    /\ s > 0
    /\ \A g \in Group : s <= bound[g]
    /\ LET t == [NoToken EXCEPT !.ts = s]
       IN  /\ Opened(t, [g \in Group |-> s + 1])
           /\ saved' = [token |-> t, n |-> 0]
    /\ cursor' = [g \in Group |-> NoCursor]
    /\ skip' = [g \in Group |-> NoCursor]
    /\ base' = s
    /\ UNCHANGED <<applied, resumes>>

\* openAt, with the token the consumer saved last: wherever the stream was, it
\* is replaced by a new one, and what was applied after the token is undone.
Resume ==
    /\ mode # "closed"
    /\ resumes < MaxResumes
    /\ LET t == saved.token
           c == [g \in Group |-> IF Named(t, g) THEN t.entries[g] ELSE NoCursor]
       IN  /\ Opened(t, [g \in Group |-> IF Named(t, g) THEN LaterTs(c[g])
                                                        ELSE AbsentStart(t)])
           /\ cursor' = c
           /\ skip' = c
    /\ applied' = SubSeq(applied, 1, saved.n)
    /\ resumes' = resumes + 1
    /\ UNCHANGED <<base, saved>>

-----------------------------------------------------------------------------
(***************************************************************************)
(* A pull.                                                                 *)
(***************************************************************************)

\* A pull of the batch loop; an event set aside comes before any other.
BeginPull ==
    /\ mode # "closed"
    /\ ~pulling
    /\ stash = <<>>
    /\ pulling' = TRUE
    /\ StartPull
    /\ UNCHANGED <<mode, cursor, skip, dedup, current, opening, pending,
                   consumerVars>>

\* The event goes into the reply, and the reply's token is its.
PutInReply(e) ==
    /\ applied' = Append(applied, e.change)
    /\ token' = e.token

\* Mutant: the reply's token is that of the last event pulled.
SetAsideAdvances(e) ==
    /\ MayStash
    /\ token.kind = "event"
    /\ stash' = <<e>>
    /\ token' = e.token
    /\ UNCHANGED applied

\* The event does not fit the reply, which has others: it is left to the next
\* reply, and does not advance this one's token.
SetAside(e) ==
    /\ MayStash
    /\ token.kind = "event"
    /\ stash' = <<e>>
    /\ UNCHANGED <<applied, token>>

GoOn == UNCHANGED <<pulling, consumerVars>>

\* The stream returns the event of change c, with token t, to the pipeline.
Return(c, t) ==
    \/ /\ c.class \in filter
       /\ GoOn
    \/ /\ c.class \notin filter
       /\ pulling' = FALSE
       /\ LET e == [change |-> c, token |-> t]
          IN  (PutInReply(e) /\ UNCHANGED stash) \/ SetAside(e)
       /\ UNCHANGED <<filter, base, saved, resumes>>

\* The next reply begins with the event set aside.
ReturnStash ==
    /\ ~pulling
    /\ \E e \in {stash[i] : i \in DOMAIN stash} : PutInReply(e)
    /\ stash' = <<>>
    /\ UNCHANGED <<orderedVars, streamVars, filter, base, saved, resumes>>

\* _seen: the dedup sets that may result from recording changes K of group g
\* at ts.  Which of them are left out of a full set depends on their sizes.
Recorded(g, ts, K) ==
    LET D == IF dedup[g].ts = ts THEN dedup[g].keys ELSE {}
    IN  {[dedup EXCEPT ![g] = [ts |-> ts, keys |-> D \cup F]] :
            F \in {F \in SUBSET (K \ D) :
                      \/ F = K \ D /\ Cardinality(D \cup F) <= MaxDedup
                      \/ F # K \ D /\ Cardinality(D \cup F) = MaxDedup}}

Seen(g, ts, k) == dedup[g].ts = ts /\ k \in dedup[g].keys

\* Whether record r of group g is at the timestamp the group resumed at.
Skipping(g, r) == LaterTs(skip[g]) = r.ts

\* Mutant: the record named by a form-1 entry counts as produced in full.
ProducedBeforePartial(g, r) ==
    /\ Skipping(g, r)
    /\ \/ skip[g].ddlKey.ts = r.ts
       \/ skip[g].dataKey.ts # r.ts
       \/ ~KeyLess(skip[g].dataKey, KeyOf(r))

\* At T_K all data records were produced before the token if the DDL key is
\* at T_K, otherwise those up to the data key.
ProducedBefore(g, r) ==
    /\ Skipping(g, r)
    /\ \/ skip[g].ddlKey.ts = r.ts
       \/ skip[g].dataKey.ts # r.ts
       \/ KeyLess(KeyOf(r), skip[g].dataKey)
       \/ KeyOf(r) = skip[g].dataKey /\ ~skip[g].partial

\* Mutant: changes that are consumed are not remembered.
ConsumeForgets(g, r) == UNCHANGED dedup

\* A record produced before the token: its changes are only remembered.
Consume(g, r) ==
    LET blob == Blob[g][r]
    IN  dedup' \in Recorded(g, r.ts, {DedupKey(blob, p) : p \in Places(blob)})

PassResumePoint(g, r) ==
    skip' = [skip EXCEPT ![g] = IF LaterTs(@) < r.ts THEN NoCursor ELSE @]

\* _begin, with a data record.
BeginData(g, r) ==
    /\ r.stream = "data"
    /\ PassResumePoint(g, r)
    /\ \/ /\ ProducedBefore(g, r)
          /\ Consume(g, r)
          /\ UNCHANGED <<mode, current>>
       \/ /\ ~ProducedBefore(g, r)
          /\ mode' = "decode"
          /\ current' = [group |-> g, ts |-> r.ts, key |-> KeyOf(r),
                         at |-> NoPlace,
                         through |-> IF Skipping(g, r) /\ KeyOf(r) = skip[g].dataKey
                                     THEN skip[g].at ELSE NoPlace]
          /\ UNCHANGED dedup
    /\ GoOn
    /\ UNCHANGED <<cursor, opening, pending>>

\* Mutant: no group is checked for the stream's own drop.
IsOwnDropNever(g, r) == FALSE

\* _ownDropKeys: r may be the drop whose token the stream was opened from.
IsOwnDrop(g, r) ==
    /\ opening.kind = "event"
    /\ ~opening.entries[g].partial
    /\ opening.entries[g].ddlKey = KeyOf(r)
    /\ r.ts = opening.ts

\* A DDL record at T_K was produced before the token if it is at or below the
\* entry's DDL key; none was if only the data key is at T_K.
OldDdl(g, r) ==
    /\ Skipping(g, r)
    /\ skip[g].ddlKey.ts = r.ts
    /\ ~KeyLess(skip[g].ddlKey, KeyOf(r))

\* _begin, with a DDL record that was produced before the token.  If it is
\* the drop whose token that was, the invalidate event is all that is left.
BeginOldDdl(g, r) ==
    /\ r.stream = "ddl"
    /\ OldDdl(g, r)
    /\ IF IsOwnDrop(g, r) /\ DropsWatchedCollection(SchemaOp[g][r])
       THEN mode' = "pending" /\ pending' = InvalidateToken(opening)
       ELSE UNCHANGED <<mode, pending>>
    /\ GoOn
    /\ UNCHANGED <<cursor, skip, dedup, current, opening>>

\* _begin and _ddlEvent, with a new one.
BeginDdl(g, r) ==
    LET op == SchemaOp[g][r]
        cur == [cursor EXCEPT ![g].ddlKey = KeyOf(r)]
        t == EventToken(r.ts, cur)
    IN  /\ r.stream = "ddl"
        /\ ~OldDdl(g, r)
        /\ skip' = [skip EXCEPT ![g] = NoCursor]
        /\ cursor' = cur
        /\ \/ Reported(r.ts, op) = {} /\ GoOn
           \/ \E c \in Reported(r.ts, op) : Return(c, t)
        /\ IF DropsWatchedCollection(op)
           THEN mode' = "pending" /\ pending' = InvalidateToken(t)
           ELSE UNCHANGED <<mode, pending>>
        /\ UNCHANGED <<dedup, current, opening>>

\* The source releases record r of group g.
TakeRecord(g, r) ==
    /\ pulling
    /\ mode = "source"
    /\ Deliver(g, r)
    /\ BeginData(g, r) \/ BeginOldDdl(g, r) \/ BeginDdl(g, r)

\* The places of the changes left in the record being decoded.
PlacesLeft ==
    {q \in Places(Blob[current.group][RecordOf(current)]) : PlaceLess(current.at, q)}

\* p is the place of the next change of the record being decoded.
IsNextPlace(p) == p \in PlacesLeft /\ \A q \in PlacesLeft : ~PlaceLess(q, p)

\* The decoder returns the change at place p: one consumed before the token
\* or seen at this timestamp is passed over, another produced.
DecodeEntry(p) ==
    LET g == current.group
        blob == Blob[g][RecordOf(current)]
        k == DedupKey(blob, p)
        old == ~PlaceLess(current.through, p)
        cur == [cursor EXCEPT ![g] = [@ EXCEPT !.dataKey = current.key,
                                               !.partial = TRUE, !.at = p]]
    IN  /\ pulling
        /\ mode = "decode"
        /\ IsNextPlace(p)
        /\ current' = [current EXCEPT !.at = p]
        /\ dedup' \in Recorded(g, current.ts, {k})
        /\ \/ /\ old \/ Seen(g, current.ts, k)
              /\ GoOn
              /\ UNCHANGED cursor
           \/ /\ ~old /\ ~Seen(g, current.ts, k)
              /\ cursor' = cur
              /\ Return(DocumentChange(current.ts, blob, p),
                        EventToken(current.ts, cur))
        /\ UNCHANGED <<orderedVars, mode, skip, opening, pending>>

\* The record is finished.
DecodeEnd ==
    /\ pulling
    /\ mode = "decode"
    /\ PlacesLeft = {}
    /\ cursor' = [cursor EXCEPT ![current.group] =
                     [@ EXCEPT !.dataKey = current.key, !.partial = FALSE,
                               !.at = NoPlace]]
    /\ mode' = "source"
    /\ current' = NoCurrent
    /\ GoOn
    /\ UNCHANGED <<orderedVars, skip, dedup, opening, pending>>

\* The invalidate event that follows the watched collection's drop.
ReturnInvalidate ==
    /\ pulling
    /\ mode = "pending"
    /\ mode' = "ended"
    /\ Return([ts |-> pending.ts, class |-> "invalidate",
               ns |-> [db |-> Scope.db, coll |-> Scope.coll], key |-> 0], pending)
    /\ UNCHANGED <<orderedVars, cursor, skip, dedup, current, opening, pending>>

\* The source has nothing to release before the deadline: the batch ends with
\* a watermark for emitBound(), its lowest boundary.
ReturnNone ==
    /\ pulling
    /\ mode = "source"
    /\ Drain
    /\ \E b \in {scannedTs[g] : g \in Group} :
          /\ \A g \in Group : b <= scannedTs[g]
          /\ token' = WatermarkToken(b)
    /\ pulling' = FALSE
    /\ UNCHANGED <<mode, cursor, skip, dedup, current, opening, pending, filter,
                   stash, base, applied, saved, resumes>>

\* Mutant: the reply keeps the token of the last event it holds.
ReturnEndedKeepsToken ==
    /\ pulling
    /\ mode = "ended"
    /\ pulling' = FALSE
    /\ UNCHANGED <<orderedVars, mode, cursor, skip, dedup, current, opening,
                   pending, consumerVars>>

\* The pull after the invalidate event closes the cursor; the reply's token is
\* the invalidate event's, though the pipeline may have dropped that event.
ReturnEnded ==
    /\ pulling
    /\ mode = "ended"
    /\ pulling' = FALSE
    /\ token' = pending
    /\ UNCHANGED <<orderedVars, mode, cursor, skip, dedup, current, opening,
                   pending, filter, stash, base, applied, saved, resumes>>

\* The consumer saves the token of what it has applied.
Save ==
    /\ mode # "closed"
    /\ ~pulling
    /\ token.kind \in SavedKinds
    /\ saved' = [token |-> token, n |-> Len(applied)]
    /\ UNCHANGED <<orderedVars, streamVars, filter, stash, token, base, applied, resumes>>

-----------------------------------------------------------------------------

Init ==
    /\ LogInit
    /\ SourceInit
    /\ mode = "closed"
    /\ pulling = FALSE
    /\ cursor = [g \in Group |-> NoCursor]
    /\ skip = [g \in Group |-> NoCursor]
    /\ dedup = [g \in Group |-> [ts |-> 0, keys |-> {}]]
    /\ current = NoCurrent
    /\ opening = NoToken
    /\ pending = NoToken
    /\ filter \in Filters
    /\ stash = <<>>
    /\ token = NoToken
    /\ base = 0
    /\ applied = <<>>
    /\ saved = [token |-> NoToken, n |-> 0]
    /\ resumes = 0

Decoding ==
    \/ \E p \in Places(Blob[current.group][RecordOf(current)]) : DecodeEntry(p)
    \/ DecodeEnd

Pull ==
    \/ BeginPull
    \/ \E g \in Group : \E r \in Record[g] : TakeRecord(g, r)
    \/ mode = "decode" /\ Decoding
    \/ ReturnInvalidate \/ ReturnNone \/ ReturnEnded \/ ReturnStash

Next ==
    \/ LogNext /\ UNCHANGED <<sourceVars, streamVars, consumerVars>>
    \/ \E g \in Group : /\ mode # "closed"
                        /\ Fetch(g)
                        /\ UNCHANGED <<streamVars, consumerVars>>
    \/ \E s \in 1 .. MaxTs : OpenFresh(s)
    \/ Resume \/ Save
    \/ Pull

Spec == Init /\ [][Next]_vars

\* The consumer keeps pulling, pages keep coming and checkpoint rounds complete.
Fairness ==
    /\ WF_vars(Pull)
    /\ WF_vars(\E s \in 1 .. MaxTs : OpenFresh(s))
    /\ \A g \in Group :
          /\ WF_vars(AdvanceBound(g) /\ UNCHANGED <<sourceVars, streamVars, consumerVars>>)
          /\ SF_vars(Fetch(g) /\ scannedTs'[g] = bound[g]
                       /\ UNCHANGED <<streamVars, consumerVars>>)
          /\ SF_vars(\E r \in Record[g] : TakeRecord(g, r))

LiveSpec == Spec /\ Fairness

-----------------------------------------------------------------------------
(***************************************************************************)
(* Properties.                                                             *)
(***************************************************************************)

\* The stream's variables have their types.
TypeOK ==
    /\ LogTypeOK
    /\ from \in [Group -> 1 .. MaxTs + 1]
    /\ scannedTs \in [Group -> 0 .. MaxTs]
    /\ released \in [Group -> SUBSET RecordType]
    /\ drained \in BOOLEAN
    /\ mode \in {"closed", "source", "decode", "pending", "ended"}
    /\ pulling \in BOOLEAN
    /\ cursor \in [Group -> Cursor]
    /\ skip \in [Group -> Cursor]
    /\ \A g \in Group : dedup[g].ts \in 0 .. MaxTs
    /\ mode = "decode" => current.group \in Group /\ current.ts \in 1 .. MaxTs
    /\ {opening, pending, token, saved.token} \subseteq Token
    /\ \A i \in DOMAIN stash : i = 1 /\ ~pulling /\ stash[i].token \in Token
    /\ base \in 0 .. MaxTs
    /\ saved.n \in 0 .. Len(applied)
    /\ resumes \in 0 .. MaxResumes

Applied == {applied[i] : i \in DOMAIN applied}

\* The changes of the scope in record r of group g.
Changes(g, r) ==
    IF r.stream = "data"
    THEN {DocumentChange(r.ts, Blob[g][r], p) : p \in Places(Blob[g][r])}
    ELSE Reported(r.ts, SchemaOp[g][r])

\* Those the consumer should see of what has reached a group, above the first
\* start.
Due ==
    {c \in UNION {UNION {Changes(g, r) : r \in {r \in history[g] : r.ts > base}} :
                     g \in Group} :
        c.class \notin filter}

DocumentChanges ==
    UNION {UNION {Changes(g, r) : r \in {r \in Record[g] : r.stream = "data"}} :
             g \in Group}

\* Once a change at T has been applied, every change of the scope below T has
\* been applied, however often the stream was resumed, and those whose record
\* had not reached its group yet included.
NothingSkipped ==
    \A i \in DOMAIN applied : \A c \in Due :
        c.ts < applied[i].ts => c \in Applied

\* A watermark token means what it says: everything of the scope at or below
\* its timestamp has been applied by the consumer that holds it.
WatermarkCovers ==
    mode # "closed" /\ token.kind = "watermark" =>
        \A c \in Due : c.ts <= token.ts => c \in Applied

\* No change is applied twice, neither a repeat of an entry logged in two
\* records of a transaction, nor an entry of a record that a resumed stream
\* reads again, as long as the dedup sets have room.
NoRepeat ==
    \A i, j \in DOMAIN applied : i # j => applied[i] # applied[j]

\* Events come in timestamp order, across resumes too, so that the changes of
\* one object are applied in the order in which they were serialized.
InTimestampOrder ==
    \A i, j \in DOMAIN applied : i < j => applied[i].ts <= applied[j].ts

\* A collection stream's drop is followed by its invalidate event and by
\* nothing else, also when the stream is resumed from the drop's token; and no
\* invalidate event comes without its drop.
InvalidateFollowsDrop ==
    \A i \in DOMAIN applied :
        /\ applied[i].class = "drop" /\ IsCollection(applied[i].ns)
              /\ "invalidate" \notin filter /\ i < Len(applied)
           => applied[i + 1] = [applied[i] EXCEPT !.class = "invalidate"]
        /\ applied[i].class = "invalidate" /\ "drop" \notin filter
           => i > 1 /\ applied[i - 1] = [applied[i] EXCEPT !.class = "drop"]

\* A consumer of a stream that has ended holds a token that is past the drop,
\* though its pipeline may have dropped the invalidate event: a stream opened
\* from it never ends with the same drop again.
EndIsPassed ==
    /\ mode = "ended" /\ ~pulling /\ stash = <<>> => token.kind = "invalidate"
    /\ mode = "ended" /\ opening.kind = "invalidate" => opening.ts < pending.ts

\* Every change of the scope is applied in the end, if the consumer resumes
\* finitely often: no token resumes behind a change for good, and no record
\* wedges the decoder.
EveryChangeApplied ==
    \A c \in DocumentChanges : (mode # "closed" /\ c \in Due) ~> c \in Applied

\* A collection stream that has returned the drop returns the invalidate event.
DropEndsStream ==
    (applied # <<>> /\ applied[Len(applied)].class = "drop"
        /\ "invalidate" \notin filter) ~>
        (applied # <<>> /\ applied[Len(applied)].class = "invalidate")

=============================================================================
