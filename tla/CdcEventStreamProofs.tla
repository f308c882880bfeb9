------------------------ MODULE CdcEventStreamProofs ------------------------
(***************************************************************************)
(* CdcEventStream: what a resume token covers.                             *)
(*                                                                         *)
(* A cursor cuts the records of its group in two, those it is past and     *)
(* those ahead of it.  The invariant says, of every token the consumer may *)
(* hold, of the stream's own cursors and of the record being decoded, that *)
(* each change the consumer should see has been given to it or is ahead,   *)
(* and that nothing ahead is older than what it was given.                 *)
(***************************************************************************)
EXTENDS CdcEventStream, SequenceTheorems, TLAPS

-----------------------------------------------------------------------------
(***************************************************************************)
(* Cursors.                                                                *)
(***************************************************************************)

\* Cursor c is past record r: every change of r was produced.
Past(c, r) ==
    \/ r.ts < LaterTs(c)
    \/ /\ r.ts = LaterTs(c)
       /\ r.stream = "data"
       /\ \/ c.ddlKey.ts = r.ts
          \/ KeyLess(KeyOf(r), c.dataKey)
          \/ KeyOf(r) = c.dataKey /\ ~c.partial
    \/ /\ r.ts = LaterTs(c)
       /\ r.stream = "ddl"
       /\ c.ddlKey.ts = r.ts
       /\ ~KeyLess(c.ddlKey, KeyOf(r))

\* Cursor c is inside record r.
Inside(c, r) == c.partial /\ r.stream = "data" /\ KeyOf(r) = c.dataKey

\* Record r is to be produced by a stream that starts at timestamp f with
\* cursor c, in full or from the cursor's place on.
Ahead(c, f, r) == r.ts >= f /\ ~Past(c, r)

\* Each change of record r of group g that the consumer should see is in S or
\* ahead of cursor c.
RecordCovered(g, r, c, f, S) ==
    /\ r.stream = "data" =>
          \A p \in Places(Blob[g][r]) :
              \/ "document" \in filter
              \/ DocumentChange(r.ts, Blob[g][r], p) \in S
              \/ Ahead(c, f, r) /\ (Inside(c, r) => PlaceLess(c.at, p))
    /\ r.stream = "ddl" =>
          \A x \in Reported(r.ts, SchemaOp[g][r]) :
              x.class \in filter \/ x \in S \/ Ahead(c, f, r)

Covered(c, f, S) ==
    \A g \in Group : \A r \in history[g] :
        r.ts > base => RecordCovered(g, r, c[g], f[g], S)

\* Nothing ahead is older than a change of S.
Ordered(c, f, S) ==
    \A g \in Group : \A r \in history[g] :
        Ahead(c[g], f[g], r) => \A x \in S : x.ts <= r.ts

\* Nothing that is still to arrive is behind the cursors.
BoundOK(c, f) ==
    \A g \in Group : LaterTs(c[g]) <= bound[g] /\ f[g] <= bound[g] + 1

-----------------------------------------------------------------------------
(***************************************************************************)
(* Tokens.                                                                 *)
(***************************************************************************)

\* Where a stream opened from t begins.
EntriesOf(t) == [g \in Group |-> IF Named(t, g) THEN t.entries[g] ELSE NoCursor]
StartsOf(t) ==
    [g \in Group |-> IF Named(t, g) THEN LaterTs(t.entries[g]) ELSE AbsentStart(t)]

\* A consumer that was given S may resume from t, as far as S and what is
\* ahead are concerned.
TokenCovers(t, S) ==
    /\ t \in Token
    /\ AbsentStart(t) >= 1
    /\ BoundOK(EntriesOf(t), StartsOf(t))
    /\ Covered(EntriesOf(t), StartsOf(t), S)

TokenOK(t, S) ==
    /\ TokenCovers(t, S)
    /\ Ordered(EntriesOf(t), StartsOf(t), S)
    /\ t.kind # "watermark" => \A x \in S : x.ts <= t.ts

-----------------------------------------------------------------------------
(***************************************************************************)
(* The consumer.                                                           *)
(***************************************************************************)

InvalidateChange(ts) ==
    [ts |-> ts, class |-> "invalidate",
     ns |-> [db |-> Scope.db, coll |-> Scope.coll], key |-> 0]

\* The changes there can be.
LoggedChange == UNION {UNION {Changes(g, r) : r \in Record[g]} : g \in Group}
Change == LoggedChange \cup {InvalidateChange(t) : t \in 1 .. MaxTs}

\* What the stream has returned and the pipeline let through.
Given == Applied \cup {stash[i].change : i \in DOMAIN stash}

\* What the consumer had applied when it saved its token.
SavedChanges == {applied[i] : i \in 1 .. saved.n}

ConsumerType ==
    /\ filter \in Filters
    /\ applied \in Seq(Change)
    /\ saved \in [token : Token, n : Nat]
    /\ saved.n <= Len(applied)
    /\ token \in Token
    /\ stash = <<>> \/ (~pulling /\ stash = <<stash[1]>>
                          /\ stash[1] \in [change : Change, token : Token])
    /\ base \in 0 .. MaxTs
    /\ resumes \in 0 .. MaxResumes

ConsumerInv ==
    /\ TokenOK(token, Applied)
    /\ TokenOK(saved.token, SavedChanges)
    /\ \A i \in DOMAIN stash :
          /\ TokenOK(stash[i].token, Given)
          /\ \A x \in Applied : x.ts <= stash[i].change.ts
    /\ InTimestampOrder
    /\ \A x \in Given : \A g \in Group : x.ts <= bound[g] + 1

-----------------------------------------------------------------------------
(***************************************************************************)
(* The stream.                                                             *)
(***************************************************************************)

DecodeRecord == RecordOf(current)
InDecode(g, r) == mode = "decode" /\ g = current.group /\ r = DecodeRecord

CurrentType ==
    [group : Group, ts : 1 .. MaxTs, key : Key, at : Place, through : Place]

StreamType ==
    /\ LogTypeOK
    /\ \A g \in Group : history[g] \subseteq Record[g]
    /\ from \in [Group -> 1 .. MaxTs + 1]
    /\ scannedTs \in [Group -> 0 .. MaxTs]
    /\ released \in [Group -> SUBSET RecordType]
    /\ drained \in BOOLEAN
    /\ mode \in {"closed", "source", "decode", "pending", "ended"}
    /\ pulling \in BOOLEAN
    /\ cursor \in [Group -> Cursor]
    /\ skip \in [Group -> Cursor]
    /\ DOMAIN dedup = Group
    /\ \A g \in Group : dedup[g].ts \in 0 .. MaxTs
    /\ mode = "decode" => current \in CurrentType
    /\ {opening, pending} \subseteq Token
    /\ mode = "closed" => ~pulling /\ stash = <<>> /\ applied = <<>>

\* The boundaries.
SourceOK ==
    /\ BoundOK(cursor, from)
    /\ \A g \in Group :
          /\ LaterTs(skip[g]) <= bound[g]
          /\ LaterTs(skip[g]) <= from[g]
          /\ LaterTs(cursor[g]) # 0 => from[g] <= LaterTs(cursor[g])
          /\ LaterTs(cursor[g]) = 0 => \A h \in Group : from[g] <= from[h]
          /\ from[g] <= scannedTs[g] + 1
          /\ scannedTs[g] <= bound[g]

\* The cursors are past what was released and, of what was not, past what the
\* resume points will skip.
CursorOK ==
    \A g \in Group :
        /\ \A r \in released[g] : Past(cursor[g], r) \/ InDecode(g, r)
        /\ \A r \in RecordType : Past(skip[g], r) => Past(cursor[g], r)
        /\ \A r \in Wanted(g) \ released[g] :
              /\ Past(cursor[g], r) => Past(skip[g], r)
              /\ r.stream = "data" /\ KeyOf(r) = skip[g].dataKey
                    => cursor[g] = skip[g]

\* Of the records that are not being decoded, each change that the consumer
\* should see was given to it or is ahead.
StreamCovers ==
    \A g \in Group : \A r \in history[g] :
        r.ts > base /\ ~InDecode(g, r) =>
            RecordCovered(g, r, cursor[g], from[g], Given)

\* Nothing the stream will produce is older than what it has.  If it was opened
\* from an event's token, neither is what it will skip.
StreamOrdered ==
    \A g \in Group : \A r \in Wanted(g) \ released[g] :
        opening.kind # "watermark" \/ ~Past(skip[g], r)
            => \A x \in Given : x.ts <= r.ts

\* The changes that are remembered were given.
DedupOK ==
    \A g \in Group : \A k \in dedup[g].keys :
        dedup[g].ts > base /\ "document" \notin filter =>
            [ts |-> dedup[g].ts, class |-> "document", ns |-> k.ns, key |-> k.key]
                \in Given

\* The record being decoded comes after what was produced and before what was
\* not released; its changes up to the decoder's place, or the resume
\* point's, were given.
DecodeOK ==
    LET g == current.group
        d == DecodeRecord
    IN  /\ d \in history[g] \cap released[g]
        /\ current.key = KeyOf(d)
        /\ from[g] <= d.ts
        /\ d.ts <= bound[g]
        /\ ~Past(cursor[g], d)
        /\ \A x \in Given : x.ts <= d.ts
        /\ \A h \in Group :
              /\ d.ts <= bound[h] + 1
              /\ \A r \in Wanted(h) \ released[h] : d.ts <= r.ts
        /\ \A r \in Wanted(g) \ released[g] : Before(d, r)
        /\ d.ts > base =>
              \A p \in Places(Blob[g][d]) :
                  ~PlaceLess(current.at, p) \/ ~PlaceLess(current.through, p)
                      => \/ "document" \in filter
                         \/ DocumentChange(d.ts, Blob[g][d], p) \in Given

StreamInv ==
    /\ SourceOK
    /\ CursorOK
    /\ StreamCovers
    /\ StreamOrdered
    /\ DedupOK
    /\ TokenCovers(opening, Given)

EndInv == pending.kind = "invalidate" /\ TokenOK(pending, Given)

IndInv ==
    /\ StreamType
    /\ ConsumerType
    /\ mode # "closed" => ConsumerInv
    /\ mode \in {"source", "decode"} => StreamInv
    /\ mode = "decode" => DecodeOK
    /\ mode \in {"pending", "ended"} => EndInv

-----------------------------------------------------------------------------
(***************************************************************************)
(* The order of a group's records, and the cut that a cursor makes in it.  *)
(***************************************************************************)

\* The merged order of a group's two streams is a strict total order.
LEMMA BeforeOrder ==
    ASSUME NEW r \in RecordType, NEW s \in RecordType
    PROVE  /\ ~Before(r, r)
           /\ ~(Before(r, s) /\ Before(s, r))
           /\ r = s \/ Before(r, s) \/ Before(s, r)
           /\ Before(r, s) => r.ts <= s.ts
<1>1. r = s <=> r.ts = s.ts /\ r.stream = s.stream /\ r.key = s.key
    BY DEF RecordType
<1>2. QED
    BY <1>1, BoundsAssumption DEF RecordType, Before, Stream

\* The empty cursor is past no record and inside none.
LEMMA NoCursorFacts ==
    /\ NoCursor \in Cursor
    /\ LaterTs(NoCursor) = 0
    /\ \A r \in RecordType : ~Past(NoCursor, r) /\ ~Inside(NoCursor, r)
BY BoundsAssumption
DEF NoCursor, NoKey, NoPlace, Cursor, Key, Place, LaterTs, Past, Inside, RecordType

\* A cursor's timestamp is a number, the later of two.
LEMMA LaterTsFacts ==
    ASSUME NEW c \in Cursor
    PROVE  /\ LaterTs(c) \in 0 .. MaxTs + 1
           /\ c.dataKey.ts \in Nat /\ c.dataKey.ts <= LaterTs(c)
           /\ c.ddlKey.ts \in Nat /\ c.ddlKey.ts <= LaterTs(c)
BY BoundsAssumption DEF Cursor, Key, LaterTs

\* What a cursor is past comes before what it is not past.
LEMMA PastIsPrefix ==
    ASSUME NEW c \in Cursor, NEW r \in RecordType, NEW s \in RecordType,
           Past(c, s), ~Past(c, r)
    PROVE  Before(s, r)
<1>1. /\ r.ts \in Nat /\ s.ts \in Nat /\ r.key \in Nat /\ s.key \in Nat
      /\ r.stream \in {"data", "ddl"} /\ s.stream \in {"data", "ddl"}
    BY DEF RecordType, Stream
<1>2. /\ c.dataKey.ts \in Nat /\ c.dataKey.key \in Int
      /\ c.ddlKey.ts \in Nat /\ c.ddlKey.key \in Int
      /\ c.dataKey = [ts |-> c.dataKey.ts, key |-> c.dataKey.key]
    BY BoundsAssumption DEF Cursor, Key
<1>3. /\ KeyOf(r).ts = r.ts /\ KeyOf(r).key = r.key
      /\ KeyOf(s).ts = s.ts /\ KeyOf(s).key = s.key
      /\ KeyOf(r) = c.dataKey <=> r.ts = c.dataKey.ts /\ r.key = c.dataKey.key
      /\ KeyOf(s) = c.dataKey <=> s.ts = c.dataKey.ts /\ s.key = c.dataKey.key
    BY <1>2 DEF KeyOf
<1>4. LaterTs(c) \in Nat /\ c.dataKey.ts <= LaterTs(c) /\ c.ddlKey.ts <= LaterTs(c)
    BY LaterTsFacts
<1>5. QED
    BY <1>1, <1>2, <1>3, <1>4 DEF Past, Before, KeyLess

\* The cursors that DecodeEnd, DecodeEntry and BeginDdl make of cursor c.
Finished(c, k) == [c EXCEPT !.dataKey = k, !.partial = FALSE, !.at = NoPlace]
Within(c, k, p) == [c EXCEPT !.dataKey = k, !.partial = TRUE, !.at = p]
DdlFinished(c, k) == [c EXCEPT !.ddlKey = k]

\* Cursor c is past exactly the records up to r, or those before r.
PastUpTo(c, r) == \A s \in RecordType : Past(c, s) <=> s = r \/ Before(s, r)
PastBefore(c, r) == \A s \in RecordType : Past(c, s) <=> Before(s, r)

\* Keys of records and of cursors are compared by their two fields.
LEMMA KeyFacts ==
    ASSUME NEW r \in RecordType
    PROVE  /\ KeyOf(r) \in Key
           /\ KeyOf(r).ts = r.ts /\ KeyOf(r).key = r.key
           /\ r.ts \in 1 .. MaxTs /\ r.ts \in Nat /\ r.ts > 0 /\ r.key \in Nat
           /\ r.stream \in {"data", "ddl"}
           /\ \A s \in RecordType :
                 /\ KeyOf(s) = KeyOf(r) <=> s.ts = r.ts /\ s.key = r.key
                 /\ s = r <=> s.ts = r.ts /\ s.stream = r.stream /\ s.key = r.key
BY BoundsAssumption DEF KeyOf, Key, RecordType, Stream

\* A data record that the cursor is not past is above its DDL key.
LEMMA AboveDdlKey ==
    ASSUME NEW c \in Cursor, NEW r \in RecordType, r.stream = "data", ~Past(c, r)
    PROVE  /\ c.ddlKey.ts < r.ts
           /\ LaterTs(c) <= r.ts
BY KeyFacts, LaterTsFacts, BoundsAssumption DEF Past

\* Past the last change of a data record, the cursor is past the records up to it.
LEMMA FinishedFacts ==
    ASSUME NEW c \in Cursor, NEW r \in RecordType, r.stream = "data", ~Past(c, r)
    PROVE  /\ Finished(c, KeyOf(r)) \in Cursor
           /\ LaterTs(Finished(c, KeyOf(r))) = r.ts
           /\ PastUpTo(Finished(c, KeyOf(r)), r)
           /\ ~Finished(c, KeyOf(r)).partial
<1> DEFINE d == Finished(c, KeyOf(r))
<1>1. /\ d \in Cursor /\ d.dataKey = KeyOf(r) /\ d.ddlKey = c.ddlKey
      /\ d.partial = FALSE
    BY KeyFacts DEF Finished, Cursor, Place, NoPlace
<1>2. LaterTs(d) = r.ts
    BY <1>1, AboveDdlKey, LaterTsFacts, KeyFacts DEF LaterTs
<1> HIDE DEF d
<1>3. ASSUME NEW s \in RecordType
      PROVE  Past(d, s) <=> s = r \/ Before(s, r)
    <2>1. d.ddlKey.ts # r.ts
        BY <1>1, AboveDdlKey, LaterTsFacts, KeyFacts
    <2>2. /\ KeyOf(s) = KeyOf(r) <=> s.ts = r.ts /\ s.key = r.key
          /\ s = r <=> s.ts = r.ts /\ s.stream = r.stream /\ s.key = r.key
          /\ KeyOf(s).ts = s.ts /\ KeyOf(s).key = s.key
          /\ KeyOf(r).ts = r.ts /\ KeyOf(r).key = r.key
          /\ r.ts \in Nat /\ s.ts \in Nat /\ r.key \in Nat /\ s.key \in Nat
          /\ s.stream \in {"data", "ddl"}
        BY KeyFacts
    <2>3. QED
        BY <1>1, <1>2, <2>1, <2>2 DEF Past, Before, KeyLess
<1>4. QED
    BY <1>1, <1>2, <1>3 DEF PastUpTo, d

\* Inside a data record, the cursor is past the records before it, and inside
\* no other.
LEMMA WithinFacts ==
    ASSUME NEW c \in Cursor, NEW r \in RecordType, r.stream = "data", ~Past(c, r),
           NEW p \in Place
    PROVE  /\ Within(c, KeyOf(r), p) \in Cursor
           /\ LaterTs(Within(c, KeyOf(r), p)) = r.ts
           /\ PastBefore(Within(c, KeyOf(r), p), r)
           /\ Within(c, KeyOf(r), p).at = p
           /\ \A s \in RecordType : Inside(Within(c, KeyOf(r), p), s) <=> s = r
<1> DEFINE d == Within(c, KeyOf(r), p)
<1>1. /\ d \in Cursor /\ d.dataKey = KeyOf(r) /\ d.ddlKey = c.ddlKey
      /\ d.partial = TRUE /\ d.at = p
    BY KeyFacts DEF Within, Cursor
<1>2. LaterTs(d) = r.ts
    BY <1>1, AboveDdlKey, LaterTsFacts, KeyFacts DEF LaterTs
<1> HIDE DEF d
<1>3. ASSUME NEW s \in RecordType
      PROVE  /\ Past(d, s) <=> Before(s, r)
             /\ Inside(d, s) <=> s = r
    <2>1. d.ddlKey.ts # r.ts
        BY <1>1, AboveDdlKey, LaterTsFacts, KeyFacts
    <2>2. /\ KeyOf(s) = KeyOf(r) <=> s.ts = r.ts /\ s.key = r.key
          /\ s = r <=> s.ts = r.ts /\ s.stream = r.stream /\ s.key = r.key
          /\ KeyOf(s).ts = s.ts /\ KeyOf(s).key = s.key
          /\ KeyOf(r).ts = r.ts /\ KeyOf(r).key = r.key
          /\ r.ts \in Nat /\ s.ts \in Nat /\ r.key \in Nat /\ s.key \in Nat
          /\ s.stream \in {"data", "ddl"}
        BY KeyFacts
    <2>3. QED
        BY <1>1, <1>2, <2>1, <2>2 DEF Past, Before, KeyLess, Inside
<1>4. QED
    BY <1>1, <1>2, <1>3 DEF PastBefore, d

\* A DDL record is finished at once.
LEMMA DdlFinishedFacts ==
    ASSUME NEW c \in Cursor, NEW r \in RecordType, r.stream = "ddl", ~Past(c, r)
    PROVE  /\ DdlFinished(c, KeyOf(r)) \in Cursor
           /\ LaterTs(DdlFinished(c, KeyOf(r))) = r.ts
           /\ PastUpTo(DdlFinished(c, KeyOf(r)), r)
<1> DEFINE d == DdlFinished(c, KeyOf(r))
<1>1. /\ d \in Cursor /\ d.dataKey = c.dataKey /\ d.ddlKey = KeyOf(r)
    BY KeyFacts DEF DdlFinished, Cursor
<1>2. LaterTs(c) <= r.ts
    BY KeyFacts, LaterTsFacts, BoundsAssumption DEF Past
<1>3. LaterTs(d) = r.ts
    BY <1>1, <1>2, LaterTsFacts, KeyFacts DEF LaterTs
<1> HIDE DEF d
<1>4. ASSUME NEW s \in RecordType
      PROVE  Past(d, s) <=> s = r \/ Before(s, r)
    <2>2. /\ s = r <=> s.ts = r.ts /\ s.stream = r.stream /\ s.key = r.key
          /\ KeyOf(s).ts = s.ts /\ KeyOf(s).key = s.key
          /\ KeyOf(r).ts = r.ts /\ KeyOf(r).key = r.key
          /\ r.ts \in Nat /\ s.ts \in Nat /\ r.key \in Nat /\ s.key \in Nat
          /\ s.stream \in {"data", "ddl"}
        BY KeyFacts
    <2>3. QED
        BY <1>1, <1>3, <2>2 DEF Past, Before, KeyLess
<1>5. QED
    BY <1>1, <1>3, <1>4 DEF PastUpTo, d

\* The resume point names a data record that is still to come: no record before
\* it is new.
LEMMA NothingNewBefore ==
    ASSUME NEW c \in Cursor, NEW r \in RecordType, NEW s \in RecordType,
           ~Past(c, r), Before(r, s), s.stream = "data"
    PROVE  KeyOf(s) # c.dataKey
<1>1. SUFFICES ASSUME KeyOf(s) = c.dataKey PROVE FALSE
    OBVIOUS
<1>2. /\ c.dataKey.ts = s.ts /\ c.dataKey.key = s.key /\ s.ts <= LaterTs(c)
      /\ LaterTs(c) \in Nat
    BY <1>1, KeyFacts, LaterTsFacts
<1>3. QED
    BY <1>2, KeyFacts DEF Past, Before, KeyLess

\* The stream's tests of the resume point, of records at or above it, are whether
\* it is past the record.
LEMMA SkipTests ==
    ASSUME NEW g, NEW r \in RecordType, skip[g] \in Cursor, LaterTs(skip[g]) <= r.ts
    PROVE  /\ r.stream = "data" => (ProducedBefore(g, r) <=> Past(skip[g], r))
           /\ r.stream = "ddl" => (OldDdl(g, r) <=> Past(skip[g], r))
<1>1. /\ LaterTs(skip[g]) \in Nat /\ r.ts \in Nat
      /\ LaterTs(skip[g]) = skip[g].dataKey.ts \/ LaterTs(skip[g]) = skip[g].ddlKey.ts
    BY LaterTsFacts, KeyFacts, BoundsAssumption DEF LaterTs
<1>2. QED
    BY <1>1 DEF ProducedBefore, OldDdl, Skipping, Past

-----------------------------------------------------------------------------
(***************************************************************************)
(* Changes and tokens.                                                     *)
(***************************************************************************)

\* A change has the timestamp of its record.
LEMMA ChangeFacts ==
    /\ \A x \in Change : x.ts \in 1 .. MaxTs /\ x.ts \in Nat
    /\ \A g \in Group : \A r \in Record[g] :
          /\ r \in RecordType
          /\ Changes(g, r) \subseteq Change
          /\ \A x \in Changes(g, r) : x.ts = r.ts
    /\ \A t \in 1 .. MaxTs : InvalidateChange(t) \in Change
<1>1. ASSUME NEW g \in Group, NEW r \in Record[g], NEW x \in Changes(g, r)
      PROVE  x.ts = r.ts
    <2>1. CASE r.stream = "data"
        BY <2>1 DEF Changes, DocumentChange
    <2>2. CASE r.stream # "data"
        BY <2>2 DEF Changes, Reported, DdlChange
    <2>3. QED
        BY <2>1, <2>2
<1>2. \A g \in Group : \A r \in Record[g] : r \in RecordType /\ r.ts \in 1 .. MaxTs
    BY RecordAssumption DEF RecordType
<1>3. ASSUME NEW x \in Change
      PROVE  x.ts \in 1 .. MaxTs
    <2>1. CASE x \in LoggedChange
        <3>1. PICK g \in Group : x \in UNION {Changes(g, r) : r \in Record[g]}
            BY <2>1 DEF LoggedChange
        <3>2. PICK r \in Record[g] : x \in Changes(g, r)
            BY <3>1
        <3>3. QED
            BY <1>1, <1>2, <3>2
    <2>2. CASE x \in {InvalidateChange(t) : t \in 1 .. MaxTs}
        BY <2>2 DEF InvalidateChange
    <2>3. QED
        BY <2>1, <2>2 DEF Change
<1>4. ASSUME NEW g \in Group, NEW r \in Record[g]
      PROVE  Changes(g, r) \subseteq LoggedChange
    BY DEF LoggedChange
<1>5. \A t \in 1 .. MaxTs : InvalidateChange(t) \in Change
    BY DEF Change
<1>6. QED
    BY <1>1, <1>2, <1>3, <1>4, <1>5, BoundsAssumption DEF Change

\* A schema operation is reported as at most one change.
LEMMA ReportedOnce ==
    ASSUME NEW g \in Group, NEW r \in Record[g], r.stream = "ddl",
           NEW x \in Reported(r.ts, SchemaOp[g][r]),
           NEW y \in Reported(r.ts, SchemaOp[g][r])
    PROVE  x = y
<1> DEFINE op == SchemaOp[g][r]
<1>1. /\ op.documents \in BOOLEAN /\ op.rolledBack \in BOOLEAN
      /\ op.type \in {"createTable", "dropTable", "addIndex", "dropIndex"}
    BY SchemaOpAssumption
<1> HIDE DEF op
<1>2. \A s, t \in DdlTypes(op) : s = t
    <2>1. CASE ~op.documents
        BY <2>1 DEF DdlTypes
    <2>2. CASE op.documents /\ op.type = "createTable"
        BY <1>1, <2>2 DEF DdlTypes
    <2>3. CASE op.documents /\ op.type = "dropTable"
        BY <1>1, <2>3 DEF DdlTypes
    <2>4. CASE op.documents /\ op.type = "addIndex"
        BY <1>1, <2>4 DEF DdlTypes
    <2>5. CASE op.documents /\ op.type = "dropIndex"
        BY <1>1, <2>5 DEF DdlTypes
    <2>6. QED
        BY <1>1, <2>1, <2>2, <2>3, <2>4, <2>5
<1>3. QED
    BY <1>2 DEF Reported, op

\* A place of a record's changes lies above the empty place.
LEMMA PlaceFacts ==
    ASSUME NEW g \in Group, NEW r \in Record[g], r.stream = "data",
           NEW p \in Places(Blob[g][r])
    PROVE  p \in Place /\ PlaceLess(NoPlace, p)
<1> DEFINE blob == Blob[g][r]
<1>1. PICK i \in DOMAIN blob.sections : p \in {<<i, j>> : j \in DOMAIN blob.sections[i].keys}
    BY DEF Places
<1>2. PICK j \in DOMAIN blob.sections[i].keys : p = <<i, j>>
    BY <1>1
<1>3. i \in Nat \ {0} /\ j \in Nat \ {0}
    BY <1>1, <1>2, BlobAssumption
<1>4. QED
    BY <1>2, <1>3 DEF Place, NoPlace, PlaceLess

\* Every entry of a token that is named lies at or above where the other groups
\* start.
LEMMA StartsAbove ==
    ASSUME NEW t \in Token, NEW g \in Group
    PROVE  /\ AbsentStart(t) \in 0 .. MaxTs + 1
           /\ StartsOf(t)[g] \in 0 .. MaxTs + 1
           /\ AbsentStart(t) <= StartsOf(t)[g]
           /\ EntriesOf(t) \in [Group -> Cursor]
           /\ t.entries[g] \in Cursor
           /\ AbsentStart(t) >= 1 => StartsOf(t)[g] >= 1
<1>1. t.ts \in 0 .. MaxTs /\ t.kind \in TokenKind /\ t.entries \in [Group -> Cursor]
    BY DEF Token
<1>2. AbsentStart(t) \in 0 .. MaxTs + 1
    BY <1>1, BoundsAssumption DEF AbsentStart
<1>3. LaterTs(t.entries[g]) \in 0 .. MaxTs + 1
    BY <1>1, LaterTsFacts
<1>4. EntriesOf(t) \in [Group -> Cursor]
    BY <1>1, NoCursorFacts DEF EntriesOf
<1>5. QED
    BY <1>1, <1>2, <1>3, <1>4, BoundsAssumption DEF StartsOf, Named

\* What a token made of cursors cur names, and where its groups start.
LEMMA EntryFacts ==
    ASSUME NEW t \in Token, NEW cur \in [Group -> Cursor],
           AbsentStart(t) >= 1,
           t.entries = Entries(cur, AbsentStart(t) - 1),
           NEW g \in Group
    PROVE  /\ LaterTs(cur[g]) >= AbsentStart(t) =>
                EntriesOf(t)[g] = cur[g] /\ StartsOf(t)[g] = LaterTs(cur[g])
           /\ ~(LaterTs(cur[g]) >= AbsentStart(t)) =>
                EntriesOf(t)[g] = NoCursor /\ StartsOf(t)[g] = AbsentStart(t)
<1>1. LaterTs(cur[g]) \in Nat /\ AbsentStart(t) \in Nat
    BY LaterTsFacts, StartsAbove, BoundsAssumption
<1>2. t.entries[g] = IF LaterTs(cur[g]) <= AbsentStart(t) - 1 THEN NoCursor ELSE cur[g]
    BY DEF Entries
<1>3. QED
    BY <1>1, <1>2, NoCursorFacts DEF EntriesOf, StartsOf, Named

\* A token made of the stream's cursors covers what they cover, if nothing ahead
\* of them lies below the token's start.
LEMMA TokenFromCursors ==
    ASSUME NEW t \in Token, NEW cur \in [Group -> Cursor], NEW f, NEW S,
           LogTypeOK,
           AbsentStart(t) >= 1,
           t.entries = Entries(cur, AbsentStart(t) - 1),
           \A g \in Group : LaterTs(cur[g]) <= bound[g] /\ AbsentStart(t) <= bound[g] + 1,
           Covered(cur, f, S),
           \A g \in Group : \A r \in history[g] :
               Ahead(cur[g], f[g], r) => AbsentStart(t) <= r.ts
    PROVE  TokenCovers(t, S)
<1> DEFINE a == AbsentStart(t)
<1>1. a \in Nat /\ \A g \in Group : LaterTs(cur[g]) \in Nat /\ bound[g] \in Nat
    <2>1. PICK h \in Group : TRUE
        BY GroupAssumption
    <2>2. a \in Nat
        BY <2>1, StartsAbove, BoundsAssumption
    <2>3. QED
        BY <2>2, LaterTsFacts, BoundsAssumption DEF LogTypeOK
<1>2. ASSUME NEW g \in Group
      PROVE  LaterTs(EntriesOf(t)[g]) <= bound[g] /\ StartsOf(t)[g] <= bound[g] + 1
    <2>1. CASE LaterTs(cur[g]) >= a
        BY <1>1, <2>1, EntryFacts
    <2>2. CASE ~(LaterTs(cur[g]) >= a)
        BY <1>1, <2>2, EntryFacts, NoCursorFacts
    <2>3. QED
        BY <2>1, <2>2
<1>3. ASSUME NEW g \in Group, NEW r \in history[g], Ahead(cur[g], f[g], r)
      PROVE  /\ Ahead(EntriesOf(t)[g], StartsOf(t)[g], r)
             /\ Inside(EntriesOf(t)[g], r) =>
                   Inside(cur[g], r) /\ EntriesOf(t)[g].at = cur[g].at
    <2>1. r \in RecordType /\ r.ts \in Nat
        BY DEF LogTypeOK, RecordType
    <2>2. ~(r.ts < LaterTs(cur[g])) /\ a <= r.ts
        BY <1>3 DEF Ahead, Past
    <2>3. CASE LaterTs(cur[g]) >= a
        <3>1. EntriesOf(t)[g] = cur[g] /\ StartsOf(t)[g] = LaterTs(cur[g])
            BY <2>3, EntryFacts
        <3>2. QED
            BY <1>1, <1>3, <2>1, <2>2, <3>1 DEF Ahead
    <2>4. CASE ~(LaterTs(cur[g]) >= a)
        <3>1. EntriesOf(t)[g] = NoCursor /\ StartsOf(t)[g] = a
            BY <2>4, EntryFacts
        <3>2. QED
            BY <1>1, <2>1, <2>2, <3>1, NoCursorFacts DEF Ahead
    <2>5. QED
        BY <2>3, <2>4
<1>4. ASSUME NEW g \in Group, NEW r \in history[g], r.ts > base
      PROVE  RecordCovered(g, r, EntriesOf(t)[g], StartsOf(t)[g], S)
    <2>1. RecordCovered(g, r, cur[g], f[g], S)
        BY <1>4 DEF Covered
    <2>2. QED
        BY <1>3, <2>1 DEF RecordCovered
<1>5. QED
    BY <1>2, <1>4 DEF TokenCovers, Covered, BoundOK

\* Nothing ahead of an event's or an invalidate's token is older than its
\* timestamp.
LEMMA OrderedByTs ==
    ASSUME NEW t \in Token, t.kind # "watermark", NEW S \in SUBSET Change,
           LogTypeOK, TokenCovers(t, S), \A x \in S : x.ts <= t.ts
    PROVE  TokenOK(t, S)
<1>1. ASSUME NEW g \in Group, NEW r \in history[g],
             Ahead(EntriesOf(t)[g], StartsOf(t)[g], r), NEW x \in S
      PROVE  x.ts <= r.ts
    <2>1. t.ts = AbsentStart(t)
        BY DEF AbsentStart
    <2>2. t.ts <= StartsOf(t)[g] /\ StartsOf(t)[g] \in Nat /\ t.ts \in Nat
        BY <2>1, StartsAbove, BoundsAssumption
    <2>3. r.ts \in Nat /\ StartsOf(t)[g] <= r.ts
        BY <1>1 DEF Ahead, LogTypeOK, RecordType
    <2>4. x.ts \in Nat /\ x.ts <= t.ts
        BY ChangeFacts
    <2>5. QED
        BY <2>2, <2>3, <2>4
<1>2. QED
    BY <1>1 DEF TokenOK, Ordered

\* The token of an event at ts, and of the invalidate event that may follow it.
LEMMA EventTokenOK ==
    ASSUME NEW cur \in [Group -> Cursor], NEW f, NEW S \in SUBSET Change,
           NEW ts \in 1 .. MaxTs, LogTypeOK,
           \A g \in Group : LaterTs(cur[g]) <= bound[g] /\ ts <= bound[g] + 1,
           Covered(cur, f, S),
           \A g \in Group : \A r \in history[g] : Ahead(cur[g], f[g], r) => ts <= r.ts,
           \A x \in S : x.ts <= ts
    PROVE  /\ TokenOK(EventToken(ts, cur), S)
           /\ TokenOK(InvalidateToken(EventToken(ts, cur)), S)
<1>1. Entries(cur, ts - 1) \in [Group -> Cursor]
    BY NoCursorFacts DEF Entries
<1>2. ASSUME NEW t, t = EventToken(ts, cur) \/ t = InvalidateToken(EventToken(ts, cur))
      PROVE  TokenOK(t, S)
    <2>1. /\ t \in Token /\ t.kind # "watermark" /\ t.ts = ts
          /\ t.entries = Entries(cur, ts - 1)
        BY <1>1, <1>2, BoundsAssumption DEF EventToken, InvalidateToken, Token, TokenKind
    <2>2. AbsentStart(t) = ts
        BY <2>1 DEF AbsentStart
    <2>3. TokenCovers(t, S)
        BY <2>1, <2>2, TokenFromCursors
    <2>4. QED
        BY <2>1, <2>3, OrderedByTs
<1>3. QED
    BY <1>2

-----------------------------------------------------------------------------
(***************************************************************************)
(* What tokens and cursors cover survives more changes given and records   *)
(* that arrive.                                                            *)
(***************************************************************************)

\* Giving more changes covers no less.
LEMMA CoveredMonotonic ==
    ASSUME NEW g, NEW r, NEW c, NEW f, NEW S, NEW T, S \subseteq T,
           RecordCovered(g, r, c, f, S)
    PROVE  RecordCovered(g, r, c, f, T)
BY DEF RecordCovered

\* A token that covers what was given covers it when more was given.
LEMMA TokenCoversMonotonic ==
    ASSUME NEW t, NEW S, NEW T, S \subseteq T, TokenCovers(t, S)
    PROVE  TokenCovers(t, T)
BY CoveredMonotonic DEF TokenCovers, Covered

\* Steps that leave the log, the start and the filter alone leave what a token
\* covers alone.
LEMMA TokenSame ==
    ASSUME UNCHANGED <<history, bound, base, filter>>, NEW t, NEW S
    PROVE  /\ TokenOK(t, S) => TokenOK(t, S)'
           /\ TokenCovers(t, S) => TokenCovers(t, S)'
<1>1. Covered(EntriesOf(t), StartsOf(t), S) => Covered(EntriesOf(t), StartsOf(t), S)'
    BY DEF Covered, RecordCovered
<1>2. BoundOK(EntriesOf(t), StartsOf(t)) => BoundOK(EntriesOf(t), StartsOf(t))'
    BY DEF BoundOK
<1>3. Ordered(EntriesOf(t), StartsOf(t), S) => Ordered(EntriesOf(t), StartsOf(t), S)'
    BY DEF Ordered
<1>4. QED
    BY <1>1, <1>2, <1>3 DEF TokenOK, TokenCovers

\* A step of the log adds records above the bound, or raises it.
LogGrows ==
    \A g \in Group :
        /\ history[g] \subseteq history'[g]
        /\ \A r \in history'[g] \ history[g] : r \in RecordType /\ r.ts > bound[g]
        /\ bound[g] <= bound'[g]

\* Every step of the log lets it grow so.
LEMMA LogStep ==
    ASSUME LogTypeOK, \A g \in Group : history[g] \subseteq Record[g], LogNext
    PROVE  /\ LogTypeOK'
           /\ \A g \in Group : history'[g] \subseteq Record[g]
           /\ LogGrows
<1>1. \A g \in Group : bound[g] \in Nat /\ Record[g] \subseteq RecordType
    <2>1. \A g \in Group : Record[g] \subseteq RecordType
        BY RecordAssumption
    <2>2. bound \in [Group -> 0 .. MaxTs]
        BY DEF LogTypeOK
    <2>3. \A g \in Group : bound[g] \in 0 .. MaxTs
        BY <2>2
    <2>4. \A b \in 0 .. MaxTs : b \in Nat
        BY BoundsAssumption
    <2>5. QED
        BY <2>1, <2>3, <2>4
<1>2. PICK g \in Group : Arrive(g) \/ AdvanceBound(g) \/ Purge(g)
    BY DEF LogNext
<1>3. CASE Arrive(g)
    BY <1>1, <1>3 DEF Arrive, LogTypeOK, LogGrows
<1>4. CASE AdvanceBound(g)
    <2>1. PICK b \in (bound[g] + 1) .. MaxTs : bound' = [bound EXCEPT ![g] = b]
        BY <1>4 DEF AdvanceBound
    <2>2. b \in 0 .. MaxTs /\ bound[g] <= b
        BY <1>1, <2>1, BoundsAssumption
    <2>3. history' = history /\ floor' = floor
        BY <1>4 DEF AdvanceBound
    <2>4. QED
        BY <1>1, <2>1, <2>2, <2>3 DEF LogTypeOK, LogGrows
<1>5. CASE Purge(g)
    <2>1. PICK f \in (floor[g] + 1) .. MaxFloor : floor' = [floor EXCEPT ![g] = f]
        BY <1>5 DEF Purge
    <2>2. f \in 0 .. MaxFloor
        BY <2>1, BoundsAssumption DEF LogTypeOK
    <2>3. history' = history /\ bound' = bound
        BY <1>5 DEF Purge
    <2>4. QED
        BY <1>1, <2>1, <2>2, <2>3 DEF LogTypeOK, LogGrows
<1>6. QED
    BY <1>2, <1>3, <1>4, <1>5

\* A record that arrives is ahead of every cursor that the bound covers.
LEMMA ArrivesAhead ==
    ASSUME NEW c \in Cursor, NEW f \in Int, NEW b \in Nat, NEW r \in RecordType,
           LaterTs(c) <= b, f <= b + 1, r.ts > b
    PROVE  Ahead(c, f, r) /\ ~Inside(c, r) /\ KeyOf(r) # c.dataKey
BY KeyFacts, LaterTsFacts, BoundsAssumption DEF Ahead, Past, Inside

\* Nor do the log's steps change what a token covers.
LEMMA TokenGrows ==
    ASSUME LogTypeOK, LogTypeOK', LogGrows, UNCHANGED <<base, filter>>,
           NEW t, NEW S \in SUBSET Change,
           \A x \in S : \A g \in Group : x.ts <= bound[g] + 1
    PROVE  /\ TokenOK(t, S) => TokenOK(t, S)'
           /\ TokenCovers(t, S) => TokenCovers(t, S)'
<1>1. SUFFICES ASSUME TokenCovers(t, S)
               PROVE  /\ TokenCovers(t, S)'
                      /\ TokenOK(t, S) => TokenOK(t, S)'
    BY DEF TokenOK
<1> DEFINE c == EntriesOf(t)
           f == StartsOf(t)
<1>2. /\ t \in Token /\ c \in [Group -> Cursor]
      /\ \A g \in Group : f[g] \in Int /\ LaterTs(c[g]) <= bound[g] /\ f[g] <= bound[g] + 1
    <2>1. t \in Token
        BY <1>1 DEF TokenCovers
    <2>2. \A g \in Group : LaterTs(c[g]) <= bound[g] /\ f[g] <= bound[g] + 1
        BY <1>1 DEF TokenCovers, BoundOK
    <2>3. PICK g \in Group : TRUE
        BY GroupAssumption
    <2>4. QED
        BY <2>1, <2>2, <2>3, StartsAbove, BoundsAssumption
<1>3. \A g \in Group : bound[g] \in Nat /\ bound'[g] \in Nat /\ LaterTs(c[g]) \in Nat
    BY <1>2, LaterTsFacts, BoundsAssumption DEF LogTypeOK
<1>4. ASSUME NEW g \in Group, NEW r \in history'[g] \ history[g]
      PROVE  /\ Ahead(c[g], f[g], r) /\ ~Inside(c[g], r)
             /\ \A x \in S : x.ts <= r.ts
    <2>1. r \in RecordType /\ r.ts > bound[g] /\ r.ts \in Nat
        BY <1>4 DEF LogGrows, RecordType
    <2>2. Ahead(c[g], f[g], r) /\ ~Inside(c[g], r)
        BY <1>2, <1>3, <2>1, ArrivesAhead
    <2>3. ASSUME NEW x \in S
          PROVE  x.ts <= r.ts
        BY <1>3, <2>1, ChangeFacts
    <2>4. QED
        BY <2>2, <2>3
<1>5. BoundOK(c, f)'
    BY <1>2, <1>3 DEF BoundOK, LogGrows
<1>6. ASSUME NEW g \in Group, NEW r \in history'[g], r.ts > base
      PROVE  RecordCovered(g, r, c[g], f[g], S)
    <2>1. CASE r \in history[g]
        BY <1>1, <1>6, <2>1 DEF TokenCovers, Covered
    <2>2. CASE r \notin history[g]
        BY <1>4, <2>2 DEF RecordCovered
    <2>3. QED
        BY <2>1, <2>2
<1>7. Covered(c, f, S)'
    BY <1>6 DEF Covered, RecordCovered
<1>8. ASSUME TokenOK(t, S)
      PROVE  Ordered(c, f, S)'
    BY <1>4, <1>8 DEF TokenOK, Ordered
<1>9. TokenCovers(t, S)'
    BY <1>1, <1>5, <1>7 DEF TokenCovers
<1>10. QED
    BY <1>8, <1>9 DEF TokenOK

\* The changes given are changes, and the saved ones are among the applied.
LEMMA GivenFacts ==
    ASSUME ConsumerType
    PROVE  /\ Given \in SUBSET Change
           /\ Applied \in SUBSET Change /\ Applied \subseteq Given
           /\ SavedChanges \in SUBSET Change /\ SavedChanges \subseteq Applied
           /\ stash = <<>> => Given = Applied
<1>1. applied \in Seq(Change) /\ saved.n \in Nat /\ saved.n <= Len(applied)
    BY DEF ConsumerType
<1>2. Applied \in SUBSET Change
    BY <1>1 DEF Applied
<1>3. SavedChanges \subseteq Applied
    BY <1>1 DEF Applied, SavedChanges
<1>4. {stash[i].change : i \in DOMAIN stash} \subseteq Change
    <2>1. CASE stash = <<>>
        BY <2>1
    <2>2. CASE stash # <<>>
        <3>1. stash = <<stash[1]>> /\ stash[1].change \in Change
            BY <2>2 DEF ConsumerType
        <3>2. DOMAIN stash = {1}
            BY <3>1
        <3>3. QED
            BY <3>1, <3>2
    <2>3. QED
        BY <2>1, <2>2
<1>5. stash = <<>> => Given = Applied
    BY DEF Given
<1>6. QED
    BY <1>2, <1>3, <1>4, <1>5 DEF Given

\* The invariant holds when the log has moved and nothing else.
LEMMA LogPreserves ==
    ASSUME IndInv, LogNext, UNCHANGED <<sourceVars, streamVars, consumerVars>>
    PROVE  IndInv'
<1> USE DEF sourceVars, streamVars, consumerVars
<1>1. /\ LogTypeOK /\ LogTypeOK' /\ LogGrows
      /\ \A g \in Group : history[g] \subseteq Record[g] /\ history'[g] \subseteq Record[g]
    BY LogStep DEF IndInv, StreamType
<1>2. StreamType' /\ ConsumerType'
    BY <1>1 DEF IndInv, StreamType, ConsumerType
<1>3. Given' = Given /\ Applied' = Applied /\ SavedChanges' = SavedChanges
    BY DEF Given, Applied, SavedChanges
<1>4. /\ Given \in SUBSET Change /\ Applied \in SUBSET Change
      /\ SavedChanges \in SUBSET Change
      /\ Applied \subseteq Given /\ SavedChanges \subseteq Given
    BY GivenFacts DEF IndInv
<1>5. \A g \in Group : bound[g] \in Nat /\ bound'[g] \in Nat /\ bound[g] <= bound'[g]
    BY <1>1, BoundsAssumption DEF LogTypeOK, LogGrows
<1>6. ASSUME mode # "closed"
      PROVE  ConsumerInv' /\ \A x \in Given : \A g \in Group : x.ts <= bound[g] + 1
    <2>1. ConsumerInv
        BY <1>6 DEF IndInv
    <2>2. \A x \in Given : \A g \in Group : x.ts <= bound[g] + 1
        BY <2>1 DEF ConsumerInv
    <2>3. TokenOK(token, Applied)'
        BY <1>1, <1>3, <1>4, <2>1, <2>2, TokenGrows DEF ConsumerInv
    <2>4. TokenOK(saved.token, SavedChanges)'
        BY <1>1, <1>3, <1>4, <2>1, <2>2, TokenGrows DEF ConsumerInv
    <2>5. ASSUME NEW i \in DOMAIN stash
          PROVE  TokenOK(stash[i].token, Given)'
        BY <1>1, <1>3, <1>4, <2>1, <2>2, TokenGrows DEF ConsumerInv
    <2>6. \A x \in Given' : \A g \in Group : x.ts <= bound'[g] + 1
        BY <1>3, <1>4, <1>5, <2>2, ChangeFacts
    <2>7. InTimestampOrder'
        BY <2>1 DEF ConsumerInv, InTimestampOrder
    <2>8. QED
        BY <1>3, <2>1, <2>2, <2>3, <2>4, <2>5, <2>6, <2>7 DEF ConsumerInv
<1>7. ASSUME mode \in {"source", "decode"}
      PROVE  StreamInv'
    <2>1. StreamInv
        BY <1>7 DEF IndInv
    <2>2. \A x \in Given : \A g \in Group : x.ts <= bound[g] + 1
        BY <1>6, <1>7
    <2>3. /\ cursor \in [Group -> Cursor] /\ skip \in [Group -> Cursor]
          /\ from \in [Group -> 1 .. MaxTs + 1] /\ scannedTs \in [Group -> 0 .. MaxTs]
        BY DEF IndInv, StreamType
    <2>4. SourceOK'
        <3>1. \A g \in Group : /\ LaterTs(cursor[g]) \in Nat /\ LaterTs(skip[g]) \in Nat
                               /\ from[g] \in Nat /\ scannedTs[g] \in Nat
            BY <2>3, LaterTsFacts, BoundsAssumption
        <3>2. BoundOK(cursor, from)'
            BY <1>5, <2>1, <3>1 DEF StreamInv, SourceOK, BoundOK
        <3>3. QED
            BY <1>5, <2>1, <3>1, <3>2 DEF StreamInv, SourceOK
    <2>5. ASSUME NEW g \in Group, NEW r \in history'[g] \ history[g]
          PROVE  /\ r \in RecordType /\ r.ts \in Nat /\ r.ts > bound[g]
                 /\ Ahead(cursor[g], from[g], r) /\ ~Inside(cursor[g], r)
                 /\ KeyOf(r) # skip[g].dataKey
        <3>1. r \in RecordType /\ r.ts \in Nat /\ r.ts > bound[g]
            BY <1>1 DEF LogGrows, RecordType
        <3>2. from[g] \in Int /\ cursor[g] \in Cursor /\ skip[g] \in Cursor
            BY <2>3
        <3>3. /\ LaterTs(cursor[g]) <= bound[g] /\ LaterTs(skip[g]) <= bound[g]
              /\ from[g] <= bound[g] + 1
            BY <2>1 DEF StreamInv, SourceOK, BoundOK
        <3>4. QED
            BY <1>5, <3>1, <3>2, <3>3, ArrivesAhead
    <2>6. CursorOK'
        <3>1. CursorOK
            BY <2>1 DEF StreamInv
        <3>2. \A g \in Group : \A r : InDecode(g, r)' <=> InDecode(g, r)
            BY DEF InDecode, DecodeRecord
        <3>3. ASSUME NEW g \in Group, NEW r \in Wanted(g)' \ released[g]
              PROVE  \/ r \in Wanted(g) \ released[g]
                     \/ ~Past(cursor[g], r) /\ KeyOf(r) # skip[g].dataKey
            BY <2>5 DEF Wanted, Ahead
        <3>4. QED
            BY <3>1, <3>2, <3>3 DEF CursorOK
    <2>7. StreamCovers'
        <3>1. ASSUME NEW g \in Group, NEW r \in history'[g], r.ts > base, ~InDecode(g, r)
              PROVE  RecordCovered(g, r, cursor[g], from[g], Given)
            <4>1. CASE r \in history[g]
                BY <2>1, <3>1, <4>1 DEF StreamInv, StreamCovers
            <4>2. CASE r \notin history[g]
                BY <2>5, <4>2 DEF RecordCovered
            <4>3. QED
                BY <4>1, <4>2
        <3>2. QED
            BY <1>3, <3>1 DEF StreamCovers, RecordCovered, InDecode, DecodeRecord
    <2>8. StreamOrdered'
        <3>1. ASSUME NEW g \in Group, NEW r \in history'[g] \ history[g], NEW x \in Given
              PROVE  x.ts <= r.ts
            BY <1>4, <1>5, <2>2, <2>5, ChangeFacts
        <3>2. QED
            BY <1>3, <2>1, <3>1 DEF StreamInv, StreamOrdered, Wanted
    <2>9. DedupOK'
        BY <1>3, <2>1 DEF StreamInv, DedupOK
    <2>10. TokenCovers(opening, Given)'
        BY <1>1, <1>3, <1>4, <2>1, <2>2, TokenGrows DEF StreamInv
    <2>11. QED
        BY <2>4, <2>6, <2>7, <2>8, <2>9, <2>10 DEF StreamInv
<1>8. ASSUME mode = "decode"
      PROVE  DecodeOK'
    <2> DEFINE g == current.group
               d == DecodeRecord
    <2>1. DecodeOK /\ current \in CurrentType
        BY <1>8 DEF IndInv, StreamType
    <2>2. g \in Group /\ d \in RecordType /\ d.ts \in Nat /\ d' = d
        BY <1>1, <2>1, RecordAssumption DEF DecodeOK, CurrentType, RecordType, DecodeRecord
    <2> HIDE DEF d
    <2>3. ASSUME NEW h \in Group, NEW r \in Wanted(h)' \ released[h]
          PROVE  d.ts <= r.ts /\ (h = g => Before(d, r))
        <3>1. CASE r \in history[h]
            BY <2>1, <3>1 DEF DecodeOK, Wanted, d
        <3>2. CASE r \notin history[h]
            <4>1. r \in RecordType /\ r.ts \in Nat /\ r.ts > bound[h]
                BY <1>1, <2>3, <3>2 DEF LogGrows, RecordType, Wanted
            <4>2. d.ts <= bound[h] + 1 /\ (h = g => d.ts <= bound[h])
                BY <2>1 DEF DecodeOK, d
            <4>3. QED
                BY <1>5, <2>2, <4>1, <4>2 DEF Before
        <3>3. QED
            BY <3>1, <3>2
    <2>4. d.ts <= bound'[g] /\ \A h \in Group : d.ts <= bound'[h] + 1
        BY <1>5, <2>1, <2>2 DEF DecodeOK, d
    <2>5. d \in history'[g]
        BY <1>1, <2>1, <2>2 DEF DecodeOK, d, LogGrows
    <2>6. QED
        BY <1>3, <2>1, <2>2, <2>3, <2>4, <2>5 DEF DecodeOK, d
<1>9. ASSUME mode \in {"pending", "ended"}
      PROVE  EndInv'
    <2>1. EndInv /\ \A x \in Given : \A g \in Group : x.ts <= bound[g] + 1
        BY <1>6, <1>9 DEF IndInv
    <2>2. TokenOK(pending, Given)'
        BY <1>1, <1>3, <1>4, <2>1, TokenGrows DEF EndInv
    <2>3. QED
        BY <2>1, <2>2 DEF EndInv
<1>10. QED
    BY <1>2, <1>6, <1>7, <1>8, <1>9 DEF IndInv

-----------------------------------------------------------------------------
(***************************************************************************)
(* Steps that leave the stream, the consumer or both alone.                *)
(***************************************************************************)

\* The stream's part of the invariant does not depend on who holds what was
\* given, nor on how far the source has scanned.
LEMMA StreamSame ==
    ASSUME UNCHANGED <<history, bound, from, released, mode, cursor, skip, dedup,
                       current, opening, pending, base, filter>>,
           Given' = Given,
           \A g \in Group : from[g] <= scannedTs'[g] + 1 /\ scannedTs'[g] <= bound[g]
    PROVE  /\ StreamInv => StreamInv'
           /\ DecodeOK => DecodeOK'
           /\ EndInv => EndInv'
<1>1. SourceOK => SourceOK'
    BY DEF SourceOK, BoundOK
<1>2. CursorOK => CursorOK'
    BY DEF CursorOK, InDecode, DecodeRecord, Wanted
<1>3. StreamCovers => StreamCovers'
    BY DEF StreamCovers, InDecode, DecodeRecord, RecordCovered
<1>4. StreamOrdered => StreamOrdered'
    BY DEF StreamOrdered, Wanted
<1>5. DedupOK => DedupOK'
    BY DEF DedupOK
<1>6. TokenCovers(opening, Given) => TokenCovers(opening, Given)'
    BY TokenSame
<1>7. TokenOK(pending, Given) => TokenOK(pending, Given)'
    BY TokenSame
<1>8. DecodeOK => DecodeOK'
    BY DEF DecodeOK, DecodeRecord, Wanted
<1>9. QED
    BY <1>1, <1>2, <1>3, <1>4, <1>5, <1>6, <1>7, <1>8 DEF StreamInv, EndInv

\* The consumer's part survives steps of the stream that return nothing.
LEMMA ConsumerSame ==
    ASSUME UNCHANGED <<history, bound, consumerVars>>
    PROVE  /\ Given' = Given
           /\ ConsumerInv => ConsumerInv'
<1> USE DEF consumerVars
<1>1. Given' = Given /\ Applied' = Applied /\ SavedChanges' = SavedChanges
    BY DEF Given, Applied, SavedChanges
<1>2. InTimestampOrder => InTimestampOrder'
    BY DEF InTimestampOrder
<1>3. ASSUME ConsumerInv
      PROVE  ConsumerInv'
    <2>1. TokenOK(token, Applied)'
        BY <1>1, <1>3, TokenSame DEF ConsumerInv
    <2>2. TokenOK(saved.token, SavedChanges)'
        BY <1>1, <1>3, TokenSame DEF ConsumerInv
    <2>3. \A i \in DOMAIN stash : TokenOK(stash[i].token, Given)'
        BY <1>1, <1>3, TokenSame DEF ConsumerInv
    <2>4. QED
        BY <1>1, <1>2, <1>3, <2>1, <2>2, <2>3 DEF ConsumerInv
<1>4. QED
    BY <1>1, <1>3

\* Fetching moves a boundary.
LEMMA FetchPreserves ==
    ASSUME IndInv, mode # "closed", NEW g \in Group, Fetch(g),
           UNCHANGED <<streamVars, consumerVars>>
    PROVE  IndInv'
<1>1. PICK t \in 0 .. bound[g] : t > scannedTs[g] /\ scannedTs' = [scannedTs EXCEPT ![g] = t]
    BY DEF Fetch
<1>2. UNCHANGED <<history, bound, floor, from, released, drained>>
    BY DEF Fetch, logVars
<1>3. \A h \in Group : bound[h] \in 0 .. MaxTs /\ bound[h] \in Nat
    BY BoundsAssumption DEF IndInv, StreamType, LogTypeOK
<1>4. t \in 0 .. MaxTs
    BY <1>1, <1>3, BoundsAssumption
<1>5. StreamType' /\ ConsumerType'
    BY <1>1, <1>2, <1>4 DEF IndInv, StreamType, ConsumerType, LogTypeOK, streamVars, consumerVars
<1>6. Given' = Given /\ ConsumerInv'
    BY <1>2, ConsumerSame DEF IndInv
<1>7. ASSUME mode \in {"source", "decode"}
      PROVE  \A h \in Group : from[h] <= scannedTs'[h] + 1 /\ scannedTs'[h] <= bound[h]
    <2>1. /\ \A h \in Group : from[h] <= scannedTs[h] + 1 /\ scannedTs[h] <= bound[h]
          /\ from \in [Group -> 1 .. MaxTs + 1] /\ scannedTs \in [Group -> 0 .. MaxTs]
        BY <1>7 DEF IndInv, StreamType, StreamInv, SourceOK
    <2>2. \A h \in Group : from[h] \in Int /\ scannedTs[h] \in Int
        BY <2>1
    <2>3. QED
        BY <1>1, <1>3, <2>1, <2>2
<1>8. ASSUME mode \in {"source", "decode"}
      PROVE  StreamInv' /\ (DecodeOK => DecodeOK')
    BY <1>2, <1>6, <1>7, <1>8, StreamSame DEF IndInv, streamVars, consumerVars
<1>9. EndInv => EndInv'
    BY <1>2, <1>6, TokenSame DEF EndInv, streamVars, consumerVars
<1>10. QED
    BY <1>5, <1>6, <1>8, <1>9 DEF IndInv, streamVars

\* A pull begins.
LEMMA BeginPullPreserves ==
    ASSUME IndInv, BeginPull
    PROVE  IndInv'
<1>1. /\ mode # "closed" /\ stash = <<>> /\ pulling' = TRUE /\ drained' = FALSE
      /\ UNCHANGED <<history, bound, floor, from, scannedTs, released, mode, cursor, skip,
                     dedup, current, opening, pending, consumerVars>>
    BY DEF BeginPull, StartPull, logVars
<1>2. StreamType' /\ ConsumerType'
    BY <1>1 DEF IndInv, StreamType, ConsumerType, LogTypeOK, consumerVars
<1>3. Given' = Given /\ ConsumerInv'
    BY <1>1, ConsumerSame DEF IndInv
<1>4. ASSUME mode \in {"source", "decode"}
      PROVE  StreamInv' /\ (DecodeOK => DecodeOK')
    BY <1>1, <1>3, <1>4, StreamSame DEF IndInv, StreamInv, SourceOK, consumerVars
<1>5. EndInv => EndInv'
    BY <1>1, <1>3, TokenSame DEF EndInv, consumerVars
<1>6. QED
    BY <1>1, <1>2, <1>3, <1>4, <1>5 DEF IndInv

\* A reply takes one more event.
LEMMA AppendFacts ==
    ASSUME ConsumerType, NEW c \in Change, applied' = Append(applied, c), saved' = saved
    PROVE  /\ applied' \in Seq(Change)
           /\ saved.n <= Len(applied')
           /\ Applied' = Applied \cup {c}
           /\ SavedChanges' = SavedChanges
           /\ InTimestampOrder /\ (\A x \in Applied : x.ts <= c.ts) => InTimestampOrder'
<1>1. /\ applied \in Seq(Change) /\ Len(applied) \in Nat
      /\ saved.n \in Nat /\ saved.n <= Len(applied)
      /\ DOMAIN applied = 1 .. Len(applied)
    BY DEF ConsumerType
<1>2. /\ applied' \in Seq(Change) /\ Len(applied') = Len(applied) + 1
      /\ DOMAIN applied' = 1 .. Len(applied) + 1
      /\ \A i \in 1 .. Len(applied) : applied'[i] = applied[i]
      /\ applied'[Len(applied) + 1] = c
    BY <1>1
<1>3. Applied' = Applied \cup {c}
    BY <1>1, <1>2 DEF Applied
<1>4. SavedChanges' = SavedChanges
    BY <1>1, <1>2 DEF SavedChanges
<1>5. ASSUME InTimestampOrder, \A x \in Applied : x.ts <= c.ts,
             NEW i \in DOMAIN applied', NEW j \in DOMAIN applied', i < j
      PROVE  applied'[i].ts <= applied'[j].ts
    <2>1. i \in DOMAIN applied /\ applied'[i] = applied[i]
        BY <1>1, <1>2, <1>5
    <2>2. CASE j \in DOMAIN applied
        BY <1>1, <1>2, <1>5, <2>1, <2>2 DEF InTimestampOrder
    <2>3. CASE j = Len(applied) + 1
        BY <1>2, <1>5, <2>1, <2>3 DEF Applied
    <2>4. QED
        BY <1>1, <1>2, <2>2, <2>3
<1>6. QED
    BY <1>1, <1>2, <1>3, <1>4, <1>5 DEF InTimestampOrder

\* The consumer saves the token of what it has applied.
LEMMA SavePreserves ==
    ASSUME IndInv, Save
    PROVE  IndInv'
<1>1. /\ mode # "closed" /\ saved' = [token |-> token, n |-> Len(applied)]
      /\ UNCHANGED <<orderedVars, streamVars, filter, stash, token, base, applied, resumes>>
    BY DEF Save
<1> USE DEF orderedVars, logVars, sourceVars, streamVars
<1>2. /\ applied \in Seq(Change) /\ Len(applied) \in Nat
      /\ DOMAIN applied = 1 .. Len(applied) /\ token \in Token
    BY DEF IndInv, ConsumerType
<1>3. StreamType' /\ ConsumerType'
    BY <1>1, <1>2 DEF IndInv, StreamType, ConsumerType, LogTypeOK
<1>4. Given' = Given /\ Applied' = Applied /\ SavedChanges' = Applied
    BY <1>1, <1>2 DEF Given, Applied, SavedChanges
<1>5. ConsumerInv
    BY <1>1 DEF IndInv
<1>6. ConsumerInv'
    <2>1. TokenOK(token, Applied)' /\ TokenOK(saved.token, SavedChanges)'
        <3>1. TokenOK(token, Applied)
            BY <1>5 DEF ConsumerInv
        <3>2. saved'.token = token /\ token' = token
            BY <1>1
        <3>3. QED
            BY <1>1, <1>4, <3>1, <3>2, TokenSame
    <2>2. \A i \in DOMAIN stash : TokenOK(stash[i].token, Given)'
        BY <1>1, <1>4, <1>5, TokenSame DEF ConsumerInv
    <2>3. InTimestampOrder'
        BY <1>1, <1>5 DEF ConsumerInv, InTimestampOrder
    <2>4. QED
        BY <1>1, <1>4, <1>5, <2>1, <2>2, <2>3 DEF ConsumerInv
<1>7. ASSUME mode \in {"source", "decode"}
      PROVE  StreamInv' /\ (DecodeOK => DecodeOK')
    BY <1>1, <1>4, <1>7, StreamSame DEF IndInv, StreamInv, SourceOK
<1>8. EndInv => EndInv'
    BY <1>1, <1>4, TokenSame DEF EndInv
<1>9. QED
    BY <1>1, <1>3, <1>6, <1>7, <1>8 DEF IndInv

\* The event set aside becomes the first of the next reply.
LEMMA ReturnStashPreserves ==
    ASSUME IndInv, ReturnStash
    PROVE  IndInv'
<1>1. /\ stash' = <<>>
      /\ UNCHANGED <<orderedVars, streamVars, filter, base, saved, resumes>>
    BY DEF ReturnStash
<1> USE DEF orderedVars, logVars, sourceVars, streamVars
<1>2. stash # <<>>
    BY DEF ReturnStash
<1>3. stash = <<stash[1]>> /\ stash[1] \in [change : Change, token : Token] /\ DOMAIN stash = {1}
    BY <1>2 DEF IndInv, ConsumerType
<1>4. applied' = Append(applied, stash[1].change) /\ token' = stash[1].token
    BY <1>3 DEF ReturnStash, PutInReply
<1>5. mode # "closed" /\ ConsumerInv
    BY <1>2 DEF IndInv, StreamType
<1>6. ConsumerType
    BY DEF IndInv
<1>7. stash[1].change \in Change /\ stash[1].token \in Token
    BY <1>3
<1>8. /\ applied' \in Seq(Change) /\ saved.n <= Len(applied')
      /\ Applied' = Applied \cup {stash[1].change}
      /\ SavedChanges' = SavedChanges
      /\ InTimestampOrder /\ (\A x \in Applied : x.ts <= stash[1].change.ts) => InTimestampOrder'
    BY <1>1, <1>4, <1>6, <1>7, AppendFacts
<1>9. Given' = Given /\ Applied' = Given
    <2>1. Given = Applied \cup {stash[1].change}
        BY <1>3 DEF Given
    <2>2. Given' = Applied'
        BY <1>1 DEF Given
    <2>3. QED
        BY <1>8, <2>1, <2>2
<1>10. StreamType' /\ ConsumerType'
    BY <1>1, <1>4, <1>5, <1>7, <1>8 DEF IndInv, StreamType, ConsumerType, LogTypeOK
<1>11. ConsumerInv'
    <2>1. TokenOK(stash[1].token, Given) /\ \A x \in Applied : x.ts <= stash[1].change.ts
        BY <1>3, <1>5 DEF ConsumerInv
    <2>2. TokenOK(token, Applied)'
        BY <1>1, <1>4, <1>9, <2>1, TokenSame
    <2>3. TokenOK(saved.token, SavedChanges)'
        BY <1>1, <1>5, <1>8, TokenSame DEF ConsumerInv
    <2>4. InTimestampOrder'
        BY <1>5, <1>8, <2>1 DEF ConsumerInv
    <2>5. DOMAIN stash' = {}
        BY <1>1
    <2>6. QED
        BY <1>1, <1>5, <1>9, <2>2, <2>3, <2>4, <2>5 DEF ConsumerInv
<1>12. ASSUME mode \in {"source", "decode"}
      PROVE  StreamInv' /\ (DecodeOK => DecodeOK')
    BY <1>1, <1>9, <1>12, StreamSame DEF IndInv, StreamInv, SourceOK
<1>13. EndInv => EndInv'
    BY <1>1, <1>9, TokenSame DEF EndInv
<1>14. QED
    BY <1>1, <1>10, <1>11, <1>12, <1>13 DEF IndInv

\* The pull after the invalidate event reports that event's token.
LEMMA ReturnEndedPreserves ==
    ASSUME IndInv, ReturnEnded
    PROVE  IndInv'
<1>1. /\ pulling /\ mode = "ended" /\ pulling' = FALSE /\ token' = pending
      /\ UNCHANGED <<orderedVars, mode, cursor, skip, dedup, current, opening,
                     pending, filter, stash, base, applied, saved, resumes>>
    BY DEF ReturnEnded
<1> USE DEF orderedVars, logVars, sourceVars
<1>2. stash = <<>> /\ ConsumerInv /\ ConsumerType /\ EndInv /\ pending \in Token
    BY <1>1 DEF IndInv, ConsumerType, StreamType
<1>3. Given = Applied /\ Given' = Given /\ Applied' = Applied /\ SavedChanges' = SavedChanges
    BY <1>1, <1>2, GivenFacts DEF Given, Applied, SavedChanges
<1>4. StreamType' /\ ConsumerType'
    BY <1>1, <1>2 DEF IndInv, StreamType, ConsumerType, LogTypeOK
<1>5. EndInv'
    BY <1>1, <1>2, <1>3, TokenSame DEF EndInv
<1>6. ConsumerInv'
    <2>1. TokenOK(token, Applied)'
        BY <1>1, <1>2, <1>3, TokenSame DEF EndInv
    <2>2. TokenOK(saved.token, SavedChanges)'
        BY <1>1, <1>2, <1>3, TokenSame DEF ConsumerInv
    <2>3. InTimestampOrder'
        BY <1>1, <1>2 DEF ConsumerInv, InTimestampOrder
    <2>4. DOMAIN stash' = {}
        BY <1>1, <1>2
    <2>5. QED
        BY <1>1, <1>2, <1>3, <2>1, <2>2, <2>3, <2>4 DEF ConsumerInv
<1>7. QED
    BY <1>1, <1>4, <1>5, <1>6 DEF IndInv

\* A batch ends with a watermark: what the cursors have ahead lies above the
\* lowest boundary, for everything up to it was delivered.
LEMMA ReturnNonePreserves ==
    ASSUME IndInv, ReturnNone
    PROVE  IndInv'
<1>1. /\ pulling /\ mode = "source" /\ pulling' = FALSE
      /\ BoundDelivered /\ drained' = TRUE
      /\ UNCHANGED <<history, bound, floor, from, scannedTs, released, mode, cursor, skip,
                     dedup, current, opening, pending, filter, stash, base, applied,
                     saved, resumes>>
    BY DEF ReturnNone, Drain, logVars
<1>2. PICK l \in Group : /\ \A g \in Group : scannedTs[l] <= scannedTs[g]
                         /\ token' = WatermarkToken(scannedTs[l])
    BY DEF ReturnNone
<1> DEFINE b == scannedTs[l]
           t == WatermarkToken(b)
<1>3. /\ StreamInv /\ ConsumerInv /\ ConsumerType /\ stash = <<>>
      /\ LogTypeOK /\ cursor \in [Group -> Cursor] /\ skip \in [Group -> Cursor]
      /\ from \in [Group -> 1 .. MaxTs + 1] /\ scannedTs \in [Group -> 0 .. MaxTs]
    BY <1>1 DEF IndInv, StreamType, ConsumerType
<1>4. /\ Given = Applied /\ Given' = Given /\ Applied' = Applied
      /\ SavedChanges' = SavedChanges /\ Given \in SUBSET Change
    BY <1>1, <1>3, GivenFacts DEF Given, Applied, SavedChanges
<1>5. \A g \in Group : /\ LaterTs(cursor[g]) \in Nat /\ from[g] \in Nat
                       /\ scannedTs[g] \in Nat /\ bound[g] \in Nat
                       /\ scannedTs[g] <= bound[g] /\ LaterTs(cursor[g]) <= bound[g]
    <2>1. \A g \in Group : LaterTs(cursor[g]) \in Nat
        BY <1>3, LaterTsFacts, BoundsAssumption
    <2>2. \A g \in Group : from[g] \in Nat /\ scannedTs[g] \in Nat /\ bound[g] \in Nat
        BY <1>3, BoundsAssumption DEF LogTypeOK
    <2>3. QED
        BY <1>3, <2>1, <2>2 DEF StreamInv, SourceOK, BoundOK
<1>6. /\ t \in Token /\ t.kind = "watermark" /\ AbsentStart(t) = b + 1
      /\ t.entries = Entries(cursor, AbsentStart(t) - 1) /\ b \in Nat
      /\ AbsentStart(t) >= 1
    <2>1. Entries(cursor, b) \in [Group -> Cursor] /\ b \in 0 .. MaxTs /\ b \in Nat
        BY <1>3, NoCursorFacts, BoundsAssumption DEF Entries
    <2>2. /\ t \in Token /\ t.kind = "watermark" /\ t.ts = b
          /\ t.entries = Entries(cursor, b)
        BY <2>1 DEF WatermarkToken, Token, TokenKind
    <2>3. (b + 1) - 1 = b
        BY <2>1
    <2>4. QED
        BY <2>1, <2>2, <2>3 DEF AbsentStart
<1> HIDE DEF t
<1>7. \A g \in Group : \A r : ~InDecode(g, r)
    BY <1>1 DEF InDecode
<1>8. ASSUME NEW g \in Group, NEW r \in history[g], Ahead(cursor[g], from[g], r)
      PROVE  /\ b + 1 <= r.ts
             /\ \A x \in Given : x.ts <= r.ts
    <2>1. r \in Wanted(g) /\ r \in RecordType /\ r.ts \in Nat
        BY <1>3, <1>8 DEF Ahead, Wanted, LogTypeOK, RecordType
    <2>2. r \notin released[g]
        BY <1>3, <1>7, <1>8 DEF StreamInv, CursorOK, Ahead
    <2>3. ~(\A h \in Group : r.ts <= scannedTs[h])
        BY <1>1, <2>1, <2>2 DEF BoundDelivered
    <2>4. b + 1 <= r.ts
        BY <1>2, <1>5, <1>6, <2>1, <2>3
    <2>5. ~Past(skip[g], r)
        BY <1>3, <1>8, <2>1 DEF StreamInv, CursorOK, Ahead
    <2>6. QED
        BY <1>3, <2>1, <2>2, <2>4, <2>5 DEF StreamInv, StreamOrdered
<1>9. Covered(cursor, from, Given)
    BY <1>3, <1>7 DEF StreamInv, StreamCovers, Covered
<1>10. TokenCovers(t, Given)
    <2>1. \A g \in Group : AbsentStart(t) <= bound[g] + 1
        BY <1>2, <1>5, <1>6
    <2>2. \A g \in Group : \A r \in history[g] :
              Ahead(cursor[g], from[g], r) => AbsentStart(t) <= r.ts
        BY <1>6, <1>8
    <2>3. QED
        BY <1>3, <1>5, <1>6, <1>9, <2>1, <2>2, TokenFromCursors
<1>11. ASSUME NEW g \in Group, NEW r \in history[g],
              Ahead(EntriesOf(t)[g], StartsOf(t)[g], r), NEW x \in Given
       PROVE  x.ts <= r.ts
    <2>1. r \in RecordType /\ r.ts \in Nat
        BY <1>3 DEF LogTypeOK, RecordType
    <2>2. CASE LaterTs(cursor[g]) >= b + 1
        <3>1. EntriesOf(t)[g] = cursor[g] /\ StartsOf(t)[g] = LaterTs(cursor[g])
            BY <1>3, <1>6, <2>2, EntryFacts
        <3>2. from[g] <= LaterTs(cursor[g])
            BY <1>3, <1>5, <1>6, <2>2 DEF StreamInv, SourceOK
        <3>3. Ahead(cursor[g], from[g], r)
            BY <1>5, <1>11, <2>1, <3>1, <3>2 DEF Ahead
        <3>4. QED
            BY <1>8, <3>3
    <2>3. CASE ~(LaterTs(cursor[g]) >= b + 1)
        <3>1. EntriesOf(t)[g] = NoCursor /\ StartsOf(t)[g] = b + 1
            BY <1>3, <1>6, <2>3, EntryFacts
        <3>2. b + 1 <= r.ts
            BY <1>6, <1>11, <2>1, <3>1 DEF Ahead
        <3>3. ~Past(cursor[g], r)
            BY <1>5, <1>6, <2>1, <2>3, <3>2 DEF Past
        <3>4. from[g] <= b + 1
            <4>1. CASE LaterTs(cursor[g]) = 0
                BY <1>3, <1>5, <4>1 DEF StreamInv, SourceOK
            <4>2. CASE LaterTs(cursor[g]) # 0
                BY <1>3, <1>5, <1>6, <2>3, <4>2 DEF StreamInv, SourceOK
            <4>3. QED
                BY <4>1, <4>2
        <3>5. Ahead(cursor[g], from[g], r)
            BY <1>5, <1>6, <2>1, <3>2, <3>3, <3>4 DEF Ahead
        <3>6. QED
            BY <1>8, <3>5
    <2>4. QED
        BY <2>2, <2>3
<1>12. TokenOK(t, Given)
    BY <1>6, <1>10, <1>11 DEF TokenOK, Ordered
<1>13. StreamType' /\ ConsumerType'
    BY <1>1, <1>2, <1>3, <1>6 DEF IndInv, StreamType, ConsumerType, LogTypeOK, t
<1>14. ConsumerInv'
    <2>1. TokenOK(token, Applied)'
        BY <1>1, <1>2, <1>4, <1>12, TokenSame DEF t
    <2>2. TokenOK(saved.token, SavedChanges)'
        BY <1>1, <1>3, <1>4, TokenSame DEF ConsumerInv
    <2>3. InTimestampOrder'
        BY <1>1, <1>3 DEF ConsumerInv, InTimestampOrder
    <2>4. DOMAIN stash' = {}
        BY <1>1, <1>3
    <2>5. QED
        BY <1>1, <1>3, <1>4, <2>1, <2>2, <2>3, <2>4 DEF ConsumerInv
<1>15. StreamInv'
    BY <1>1, <1>3, <1>4, StreamSame DEF StreamInv, SourceOK
<1>16. QED
    BY <1>1, <1>13, <1>14, <1>15 DEF IndInv

-----------------------------------------------------------------------------
(***************************************************************************)
(* Opening and resuming.                                                   *)
(***************************************************************************)

\* A stream opened from a token begins with nothing released and the token's
\* entries as its cursors and resume points.
LEMMA OpenedStream ==
    ASSUME IndInv, NEW t, Opened(t, StartsOf(t)),
           cursor' = EntriesOf(t), skip' = EntriesOf(t),
           ConsumerType', TokenOK(t, Applied)'
    PROVE  StreamType' /\ StreamInv'
<1>1. /\ from' = StartsOf(t)
      /\ scannedTs' = [g \in Group |-> from'[g] - 1]
      /\ released' = [g \in Group |-> {}]
      /\ drained' = FALSE /\ mode' = "source" /\ pulling' = FALSE
      /\ dedup' = [g \in Group |-> [ts |-> 0, keys |-> {}]]
      /\ opening' = t /\ pending' = NoToken /\ stash' = <<>>
      /\ UNCHANGED <<history, bound, floor>>
    BY DEF Opened, logVars
<1>2. /\ LogTypeOK /\ \A g \in Group : history[g] \subseteq Record[g]
      /\ \A g \in Group : bound[g] \in Nat
    BY BoundsAssumption DEF IndInv, StreamType, LogTypeOK
<1>3. /\ t \in Token /\ AbsentStart(t) >= 1
      /\ BoundOK(EntriesOf(t), StartsOf(t))'
      /\ Covered(EntriesOf(t), StartsOf(t), Applied)'
      /\ Ordered(EntriesOf(t), StartsOf(t), Applied)'
      /\ t.kind # "watermark" => \A x \in Applied' : x.ts <= t.ts
    BY DEF TokenOK, TokenCovers
<1>4. Applied' \in SUBSET Change /\ Given' = Applied'
    BY <1>1, GivenFacts DEF Given, ConsumerType, Applied
<1>5. ASSUME NEW g \in Group
      PROVE  /\ from'[g] \in 1 .. MaxTs + 1 /\ from'[g] \in Nat
             /\ AbsentStart(t) \in Nat /\ AbsentStart(t) <= from'[g]
             /\ cursor'[g] \in Cursor /\ LaterTs(cursor'[g]) \in Nat
             /\ LaterTs(cursor'[g]) # 0 => from'[g] = LaterTs(cursor'[g])
             /\ LaterTs(cursor'[g]) = 0 => from'[g] = AbsentStart(t)
             /\ skip'[g] = cursor'[g]
    <2>1. /\ AbsentStart(t) \in 0 .. MaxTs + 1 /\ StartsOf(t)[g] \in 0 .. MaxTs + 1
          /\ AbsentStart(t) <= StartsOf(t)[g] /\ StartsOf(t)[g] >= 1
          /\ EntriesOf(t) \in [Group -> Cursor]
        BY <1>3, StartsAbove
    <2>2. cursor'[g] \in Cursor /\ LaterTs(cursor'[g]) \in Nat
        BY <2>1, LaterTsFacts, BoundsAssumption
    <2>3. CASE Named(t, g)
        <3>1. cursor'[g] = t.entries[g] /\ from'[g] = LaterTs(t.entries[g])
            BY <1>1, <2>3 DEF EntriesOf, StartsOf
        <3>2. QED
            BY <1>1, <2>1, <2>2, <3>1, BoundsAssumption
    <2>4. CASE ~Named(t, g)
        <3>1. cursor'[g] = NoCursor /\ from'[g] = AbsentStart(t)
            BY <1>1, <2>4 DEF EntriesOf, StartsOf
        <3>2. QED
            BY <1>1, <2>1, <2>2, <3>1, NoCursorFacts, BoundsAssumption
    <2>5. QED
        BY <2>3, <2>4
<1>6. EntriesOf(t) \in [Group -> Cursor]
    BY <1>3, StartsAbove, GroupAssumption
<1>7. StreamType'
    <2>1. from' \in [Group -> 1 .. MaxTs + 1]
        BY <1>1, <1>5 DEF StartsOf
    <2>2. scannedTs' \in [Group -> 0 .. MaxTs]
        BY <1>1, <1>5, BoundsAssumption
    <2>3. NoToken \in Token
        BY NoCursorFacts, BoundsAssumption DEF NoToken, Token, TokenKind
    <2>4. released' \in [Group -> SUBSET RecordType]
        BY <1>1
    <2>5. DOMAIN dedup' = Group /\ \A g \in Group : dedup'[g].ts \in 0 .. MaxTs
        BY <1>1, BoundsAssumption
    <2>6. QED
        BY <1>1, <1>2, <1>3, <1>6, <2>1, <2>2, <2>3, <2>4, <2>5 DEF StreamType, LogTypeOK
<1>8. SourceOK'
    <2>1. BoundOK(cursor, from)'
        BY <1>1, <1>3 DEF BoundOK
    <2>2. ASSUME NEW g \in Group
          PROVE  /\ LaterTs(skip'[g]) <= bound'[g]
                 /\ LaterTs(skip'[g]) <= from'[g]
                 /\ LaterTs(cursor'[g]) # 0 => from'[g] <= LaterTs(cursor'[g])
                 /\ LaterTs(cursor'[g]) = 0 => \A h \in Group : from'[g] <= from'[h]
                 /\ from'[g] <= scannedTs'[g] + 1
                 /\ scannedTs'[g] <= bound'[g]
        <3>1. LaterTs(cursor'[g]) <= bound'[g] /\ from'[g] <= bound'[g] + 1
            BY <2>1 DEF BoundOK
        <3>2. scannedTs'[g] = from'[g] - 1
            BY <1>1
        <3>3. QED
            BY <1>1, <1>2, <1>5, <3>1, <3>2
    <2>3. QED
        BY <2>1, <2>2 DEF SourceOK
<1>9. CursorOK'
    BY <1>1, <1>5 DEF CursorOK
<1>10. StreamCovers'
    BY <1>1, <1>3, <1>4 DEF StreamCovers, Covered, RecordCovered
<1>11. StreamOrdered'
    <2>1. ASSUME NEW g \in Group, NEW r \in Wanted(g)', NEW x \in Applied',
                 t.kind # "watermark" \/ ~Past(skip'[g], r)
          PROVE  x.ts <= r.ts
        <3>1. r \in history'[g] /\ from'[g] <= r.ts /\ r.ts \in Nat
            BY <1>1, <1>2 DEF Wanted, LogTypeOK, RecordType
        <3>2. CASE ~Past(skip'[g], r)
            BY <1>1, <1>3, <3>1, <3>2 DEF Ordered, Ahead
        <3>3. CASE t.kind # "watermark"
            <4>1. x.ts <= t.ts /\ x.ts \in Nat /\ t.ts = AbsentStart(t)
                BY <1>3, <1>4, <3>3, ChangeFacts DEF AbsentStart
            <4>2. QED
                BY <1>5, <3>1, <4>1
        <3>4. QED
            BY <2>1, <3>2, <3>3
    <2>2. QED
        BY <1>1, <1>4, <2>1 DEF StreamOrdered
<1>12. DedupOK'
    BY <1>1 DEF DedupOK
<1>13. TokenCovers(opening, Given)'
    BY <1>1, <1>4 DEF TokenOK
<1>14. QED
    BY <1>7, <1>8, <1>9, <1>10, <1>11, <1>12, <1>13 DEF StreamInv

\* A stream without a token starts above the lowest bound, and that is where
\* the consumer's changes begin.
LEMMA OpenFreshPreserves ==
    ASSUME IndInv, NEW s \in 1 .. MaxTs, OpenFresh(s)
    PROVE  IndInv'
<1> DEFINE t == [NoToken EXCEPT !.ts = s]
<1>1. /\ mode = "closed" /\ \A g \in Group : s <= bound[g]
      /\ Opened(t, [g \in Group |-> s + 1])
      /\ saved' = [token |-> t, n |-> 0]
      /\ cursor' = [g \in Group |-> NoCursor] /\ skip' = [g \in Group |-> NoCursor]
      /\ base' = s /\ applied' = applied /\ resumes' = resumes
    BY DEF OpenFresh
<1>2. /\ mode' = "source" /\ stash' = <<>> /\ token' = t
      /\ UNCHANGED <<history, bound, filter>>
    BY <1>1 DEF Opened, logVars
<1>3. applied = <<>> /\ ConsumerType /\ LogTypeOK
    BY <1>1 DEF IndInv, StreamType
<1>4. /\ t \in Token /\ t.ts = s /\ t.kind = "watermark"
      /\ t.entries = [g \in Group |-> NoCursor] /\ AbsentStart(t) = s + 1
    BY NoCursorFacts, BoundsAssumption DEF NoToken, Token, TokenKind, AbsentStart
<1> HIDE DEF t
<1>5. ASSUME NEW g \in Group
      PROVE  ~Named(t, g)
    <2>1. t.entries[g] = NoCursor
        BY <1>4
    <2>2. LaterTs(t.entries[g]) = 0 /\ AbsentStart(t) = s + 1 /\ ~(0 >= s + 1)
        BY <1>4, <2>1, NoCursorFacts
    <2>3. QED
        BY <2>2 DEF Named
<1>6. /\ EntriesOf(t) = [g \in Group |-> NoCursor]
      /\ StartsOf(t) = [g \in Group |-> s + 1]
    BY <1>4, <1>5 DEF EntriesOf, StartsOf
<1>7. ConsumerType'
    BY <1>1, <1>2, <1>3, <1>4, BoundsAssumption DEF ConsumerType
<1>8. Applied' = {} /\ Given' = {} /\ SavedChanges' = {}
    BY <1>1, <1>2, <1>3 DEF Applied, Given, SavedChanges
<1>9. TokenOK(t, {})'
    <2>1. BoundOK(EntriesOf(t), StartsOf(t))'
        <3>1. \A g \in Group : bound[g] \in Nat
            BY <1>3, BoundsAssumption DEF LogTypeOK
        <3>2. QED
            BY <1>1, <1>2, <1>6, <3>1, NoCursorFacts DEF BoundOK
    <2>2. ASSUME NEW g \in Group, NEW r \in history[g], r.ts > s
          PROVE  /\ Ahead(EntriesOf(t)[g], StartsOf(t)[g], r)
                 /\ ~Inside(EntriesOf(t)[g], r)
        <3>1. r \in RecordType /\ r.ts \in Nat
            BY <1>3 DEF LogTypeOK, RecordType
        <3>2. QED
            BY <1>6, <2>2, <3>1, NoCursorFacts DEF Ahead
    <2>3. Covered(EntriesOf(t), StartsOf(t), {})'
        BY <1>1, <1>2, <2>2 DEF Covered, RecordCovered
    <2>4. QED
        BY <1>4, <2>1, <2>3 DEF TokenOK, TokenCovers, Ordered
<1>10. StreamType' /\ StreamInv'
    BY <1>1, <1>6, <1>7, <1>8, <1>9, OpenedStream
<1>11. ConsumerInv'
    <2>1. DOMAIN stash' = {} /\ DOMAIN applied' = {}
        BY <1>1, <1>2, <1>3
    <2>2. token' = t /\ saved'.token = t
        BY <1>1, <1>2
    <2>3. QED
        BY <1>8, <1>9, <2>1, <2>2 DEF ConsumerInv, InTimestampOrder
<1>12. QED
    BY <1>2, <1>7, <1>10, <1>11 DEF IndInv

\* A resumed consumer goes on from what it had applied when it saved the token.
LEMMA ResumePreserves ==
    ASSUME IndInv, Resume
    PROVE  IndInv'
<1> DEFINE t == saved.token
<1>1. /\ mode # "closed" /\ resumes < MaxResumes
      /\ Opened(t, StartsOf(t)) /\ cursor' = EntriesOf(t) /\ skip' = EntriesOf(t)
      /\ applied' = SubSeq(applied, 1, saved.n)
      /\ resumes' = resumes + 1 /\ base' = base /\ saved' = saved
    <2>1. [g \in Group |-> IF Named(t, g) THEN LaterTs(EntriesOf(t)[g]) ELSE AbsentStart(t)]
            = StartsOf(t)
        BY DEF StartsOf, EntriesOf
    <2>2. QED
        BY <2>1 DEF Resume, EntriesOf
<1>2. /\ mode' = "source" /\ stash' = <<>> /\ token' = t
      /\ UNCHANGED <<history, bound, filter>>
    BY <1>1 DEF Opened, logVars
<1>3. /\ ConsumerType /\ ConsumerInv
      /\ applied \in Seq(Change) /\ saved.n \in Nat /\ saved.n <= Len(applied)
      /\ saved.token \in Token
    BY <1>1 DEF IndInv, ConsumerType
<1>4. /\ applied' \in Seq(Change) /\ Len(applied') = saved.n
      /\ DOMAIN applied' = 1 .. saved.n
      /\ \A i \in 1 .. saved.n : applied'[i] = applied[i] /\ i \in DOMAIN applied
    BY <1>1, <1>3
<1>5. /\ Applied' = SavedChanges /\ SavedChanges' = SavedChanges
      /\ Given' = SavedChanges /\ SavedChanges \subseteq Given
    <2>1. Applied' = SavedChanges
        BY <1>4 DEF Applied, SavedChanges
    <2>2. SavedChanges' = SavedChanges
        BY <1>1, <1>4 DEF SavedChanges
    <2>3. Given' = Applied'
        BY <1>2 DEF Given
    <2>4. QED
        BY <1>3, <2>1, <2>2, <2>3, GivenFacts
<1>6. ConsumerType'
    <2>1. resumes' \in 0 .. MaxResumes
        BY <1>1, MaxResumesAssumption DEF IndInv, ConsumerType
    <2>2. QED
        BY <1>1, <1>2, <1>3, <1>4, <2>1 DEF ConsumerType
<1>7. TokenOK(t, Applied)'
    BY <1>1, <1>2, <1>3, <1>5, TokenSame DEF ConsumerInv
<1>8. StreamType' /\ StreamInv'
    <2>1. ASSUME NEW u, u = saved.token
          PROVE  TokenOK(u, Applied)'
        BY <1>1, <1>2, <1>3, <1>5, <2>1, TokenSame DEF ConsumerInv
    <2>2. ASSUME NEW u, u = saved.token
          PROVE  StreamType' /\ StreamInv'
        BY <1>1, <1>6, <2>1, <2>2, OpenedStream
    <2>3. QED
        BY <2>2
<1>9. ConsumerInv'
    <2>1. InTimestampOrder'
        BY <1>3, <1>4 DEF ConsumerInv, InTimestampOrder
    <2>2. TokenOK(token, Applied)'
        BY <1>1, <1>2, <1>3, <1>5, TokenSame DEF ConsumerInv
    <2>3. TokenOK(saved.token, SavedChanges)'
        BY <1>1, <1>2, <1>3, <1>5, TokenSame DEF ConsumerInv
    <2>4. DOMAIN stash' = {}
        BY <1>2
    <2>5. \A x \in Given' : \A g \in Group : x.ts <= bound'[g] + 1
        BY <1>2, <1>3, <1>5 DEF ConsumerInv
    <2>6. QED
        BY <2>1, <2>2, <2>3, <2>4, <2>5 DEF ConsumerInv
<1>10. QED
    BY <1>2, <1>6, <1>8, <1>9 DEF IndInv

-----------------------------------------------------------------------------
(***************************************************************************)
(* An event is returned.                                                   *)
(***************************************************************************)

\* What has been given after the event of change c was returned.
GivenWith(c) == IF c.class \in filter THEN Given ELSE Given \cup {c}

\* The pipeline drops the event, or it is put in the reply or set aside; its
\* token covers what has been given then.
LEMMA ReturnFacts ==
    ASSUME ConsumerType, ConsumerInv, pulling \in BOOLEAN, stash = <<>>,
           UNCHANGED <<history, bound>>,
           NEW c \in Change, NEW t \in Token, Return(c, t), pulling,
           TokenOK(t, GivenWith(c)),
           \A x \in Given : x.ts <= c.ts,
           \A g \in Group : c.ts <= bound[g] + 1
    PROVE  /\ ConsumerType' /\ ConsumerInv'
           /\ pulling' \in BOOLEAN
           /\ Given' = GivenWith(c)
           /\ UNCHANGED <<base, filter>>
<1>1. CASE c.class \in filter /\ GoOn
    <2>1. UNCHANGED <<history, bound, consumerVars>> /\ pulling' = pulling
        BY <1>1 DEF GoOn
    <2>2. Given' = Given /\ ConsumerInv'
        BY <2>1, ConsumerSame
    <2>3. ConsumerType'
        BY <2>1 DEF ConsumerType, consumerVars
    <2>4. QED
        BY <1>1, <2>1, <2>2, <2>3 DEF GivenWith, consumerVars
<1>2. CASE c.class \notin filter /\ pulling' = FALSE
    <2> DEFINE e == [change |-> c, token |-> t]
    <2>1. /\ \/ PutInReply(e) /\ UNCHANGED stash
             \/ SetAside(e)
          /\ UNCHANGED <<filter, base, saved, resumes>>
        BY <1>2 DEF Return
    <2>2. /\ GivenWith(c) = Given \cup {c} /\ Given = Applied
          /\ Given \in SUBSET Change
        BY <1>2, GivenFacts DEF GivenWith
    <2>3. TokenOK(t, Given \cup {c})
        BY <2>2
    <2>4. CASE PutInReply(e) /\ UNCHANGED stash
        <3>1. applied' = Append(applied, c) /\ token' = t /\ stash' = <<>>
            BY <2>4 DEF PutInReply
        <3>2. /\ applied' \in Seq(Change) /\ saved.n <= Len(applied')
              /\ Applied' = Applied \cup {c} /\ SavedChanges' = SavedChanges
              /\ InTimestampOrder'
            BY <2>1, <2>2, <3>1, AppendFacts DEF ConsumerInv
        <3>3. Given' = Given \cup {c} /\ Applied' = Given \cup {c}
            BY <2>2, <3>1, <3>2 DEF Given
        <3>4. ConsumerType'
            BY <2>1, <3>1, <3>2 DEF ConsumerType
        <3>5. TokenOK(token, Applied)'
            BY <2>1, <2>3, <3>1, <3>3, TokenSame
        <3>6. TokenOK(saved.token, SavedChanges)'
            BY <2>1, <3>2, TokenSame DEF ConsumerInv
        <3>7. DOMAIN stash' = {}
            BY <3>1
        <3>8. \A x \in Given' : \A g \in Group : x.ts <= bound'[g] + 1
            BY <3>3 DEF ConsumerInv
        <3>9. ConsumerInv'
            BY <3>2, <3>5, <3>6, <3>7, <3>8 DEF ConsumerInv
        <3>10. QED
            BY <1>2, <2>1, <2>2, <3>3, <3>4, <3>9
    <2>5. CASE SetAside(e)
        <3>1. stash' = <<e>> /\ applied' = applied /\ token' = token
            BY <2>5 DEF SetAside
        <3>2. /\ DOMAIN stash' = {1} /\ stash'[1] = e
              /\ stash'[1].change = c /\ stash'[1].token = t
            BY <3>1
        <3>3. Applied' = Applied /\ SavedChanges' = SavedChanges
            BY <2>1, <3>1 DEF Applied, SavedChanges
        <3>4. Given' = Given \cup {c}
            BY <2>2, <3>2, <3>3 DEF Given
        <3>5. ConsumerType'
            <4>1. stash' = <<stash'[1]>> /\ stash'[1] \in [change : Change, token : Token]
                BY <3>1, <3>2
            <4>2. QED
                BY <1>2, <2>1, <3>1, <4>1 DEF ConsumerType
        <3>6. TokenOK(token, Applied)'
            BY <2>1, <3>1, <3>3, TokenSame DEF ConsumerInv
        <3>7. TokenOK(saved.token, SavedChanges)'
            BY <2>1, <3>3, TokenSame DEF ConsumerInv
        <3>8. TokenOK(stash[1].token, Given)'
            BY <2>1, <2>3, <3>2, <3>4, TokenSame
        <3>9. InTimestampOrder'
            BY <3>1 DEF ConsumerInv, InTimestampOrder
        <3>10. \A x \in Given' : \A g \in Group : x.ts <= bound'[g] + 1
            BY <3>4 DEF ConsumerInv
        <3>11. \A x \in Applied' : x.ts <= stash'[1].change.ts
            BY <2>2, <3>2, <3>3
        <3>12. ConsumerInv'
            BY <3>2, <3>6, <3>7, <3>8, <3>9, <3>10, <3>11 DEF ConsumerInv
        <3>13. QED
            BY <1>2, <2>1, <2>2, <3>4, <3>5, <3>12
    <2>6. QED
        BY <2>1, <2>4, <2>5
<1>3. QED
    BY <1>1, <1>2 DEF Return

\* The invalidate event.
LEMMA ReturnInvalidatePreserves ==
    ASSUME IndInv, ReturnInvalidate
    PROVE  IndInv'
<1> DEFINE c == InvalidateChange(pending.ts)
<1>1. /\ pulling /\ mode = "pending" /\ mode' = "ended" /\ Return(c, pending)
      /\ UNCHANGED <<orderedVars, cursor, skip, dedup, current, opening, pending>>
    BY DEF ReturnInvalidate, InvalidateChange
<1> USE DEF orderedVars, logVars, sourceVars
<1>2. /\ ConsumerType /\ ConsumerInv /\ EndInv /\ stash = <<>> /\ LogTypeOK
      /\ pending \in Token /\ pulling \in BOOLEAN
    BY <1>1 DEF IndInv, ConsumerType, StreamType
<1>3. /\ pending.kind = "invalidate" /\ TokenOK(pending, Given)
      /\ \A x \in Given : x.ts <= pending.ts
    BY <1>2 DEF EndInv, TokenOK
<1>4. c.ts = pending.ts /\ c.class = "invalidate"
    BY DEF InvalidateChange
<1>5. pending.ts \in 1 .. MaxTs /\ \A g \in Group : pending.ts <= bound[g] + 1
    <2>1. AbsentStart(pending) = pending.ts /\ AbsentStart(pending) >= 1
        BY <1>3 DEF AbsentStart, TokenOK, TokenCovers
    <2>2. pending.ts \in 0 .. MaxTs
        BY <1>2 DEF Token
    <2>3. ASSUME NEW g \in Group
          PROVE  pending.ts <= bound[g] + 1
        <3>1. StartsOf(pending)[g] <= bound[g] + 1
            BY <1>3 DEF TokenOK, TokenCovers, BoundOK
        <3>2. pending.ts <= StartsOf(pending)[g] /\ StartsOf(pending)[g] \in 0 .. MaxTs + 1
            BY <1>2, <2>1, StartsAbove
        <3>3. bound[g] \in 0 .. MaxTs
            BY <1>2 DEF LogTypeOK
        <3>4. QED
            BY <2>2, <3>1, <3>2, <3>3, BoundsAssumption
    <2>4. QED
        BY <2>1, <2>2, <2>3, BoundsAssumption
<1>6. c \in Change
    BY <1>5, ChangeFacts
<1>7. GivenWith(c) \in SUBSET Change /\ \A x \in GivenWith(c) : x.ts <= pending.ts
    <2>1. pending.ts <= pending.ts
        BY <1>5
    <2>2. QED
        BY <1>2, <1>3, <1>4, <1>6, <2>1, GivenFacts DEF GivenWith
<1>8. TokenOK(pending, GivenWith(c))
    <2>1. Given \subseteq GivenWith(c)
        BY DEF GivenWith
    <2>2. TokenCovers(pending, GivenWith(c))
        BY <1>3, <2>1, TokenCoversMonotonic DEF TokenOK
    <2>3. QED
        BY <1>2, <1>3, <1>7, <2>2, OrderedByTs
<1> HIDE DEF c
<1>9. /\ ConsumerType' /\ ConsumerInv' /\ pulling' \in BOOLEAN
      /\ Given' = GivenWith(c) /\ UNCHANGED <<base, filter>>
    BY <1>1, <1>2, <1>3, <1>4, <1>5, <1>6, <1>8, ReturnFacts
<1>10. EndInv'
    BY <1>1, <1>3, <1>8, <1>9, TokenSame DEF EndInv
<1>11. StreamType'
    BY <1>1, <1>9 DEF IndInv, StreamType, LogTypeOK
<1>12. QED
    BY <1>1, <1>9, <1>10, <1>11 DEF IndInv

-----------------------------------------------------------------------------
(***************************************************************************)
(* A record is produced.                                                   *)
(***************************************************************************)

\* Record r of group g is the one to be produced: it comes next in its group and
\* no other group has an older one left.
Producing(g, r) ==
    /\ r \in history[g]
    /\ from[g] <= r.ts
    /\ r.ts <= bound[g]
    /\ ~Past(cursor[g], r)
    /\ \A x \in Given : x.ts <= r.ts
    /\ \A h \in Group :
          /\ r.ts <= bound[h] + 1
          /\ \A s \in Wanted(h) \ released[h] : r.ts <= s.ts
          /\ \A s \in released[h] : Past(cursor[h], s) \/ (h = g /\ s = r)
          /\ \A s \in history[h] :
                s.ts > base /\ ~(h = g /\ s = r) =>
                    RecordCovered(h, s, cursor[h], from[h], Given)
    /\ \A s \in Wanted(g) \ released[g] : s = r \/ Before(r, s)

\* Cursor d is what cursor c becomes inside record r or at its end.
Advances(c, d, r) ==
    /\ d \in Cursor
    /\ LaterTs(d) = r.ts
    /\ \A s \in RecordType :
          /\ Past(d, s) => s = r \/ Before(s, r)
          /\ Before(s, r) => Past(d, s)
          /\ Inside(d, s) /\ s # r => Inside(c, s) /\ d.at = c.at

\* The record that the source releases is to be produced, if the resume point is
\* not past it.
LEMMA TakenProducing ==
    ASSUME IndInv, mode = "source", NEW g \in Group, NEW r \in RecordType,
           IsNext(g, r), ~Past(skip[g], r)
    PROVE  Producing(g, r)
<1>1. /\ StreamInv /\ LogTypeOK /\ from \in [Group -> 1 .. MaxTs + 1]
      /\ scannedTs \in [Group -> 0 .. MaxTs]
    BY DEF IndInv, StreamType
<1>2. /\ r \in history[g] /\ from[g] <= r.ts /\ r.ts <= bound[g]
      /\ r \in Wanted(g) \ released[g]
      /\ \A s \in Wanted(g) \ released[g] : s = r \/ Before(r, s)
    BY DEF IsNext, Wanted
<1>3. ~Past(cursor[g], r) /\ \A x \in Given : x.ts <= r.ts
    BY <1>1, <1>2 DEF StreamInv, CursorOK, StreamOrdered
<1>4. \A h \in Group : \A s : ~InDecode(h, s)
    BY DEF InDecode
<1>5. r.ts \in Nat /\ \A h \in Group : bound[h] \in Nat /\ scannedTs[h] \in Nat
    BY <1>1, BoundsAssumption DEF LogTypeOK, RecordType
<1>6. ASSUME NEW h \in Group
      PROVE  /\ r.ts <= bound[h] + 1
             /\ \A s \in Wanted(h) \ released[h] : r.ts <= s.ts
    <2>1. CASE h = g
        <3>1. ASSUME NEW s \in Wanted(g) \ released[g]
              PROVE  r.ts <= s.ts
            <4>1. s \in RecordType
                BY <1>1 DEF Wanted, LogTypeOK
            <4>2. QED
                BY <1>2, <1>5, <4>1, BeforeOrder
        <3>2. QED
            BY <1>2, <1>5, <2>1, <3>1
    <2>2. CASE h # g
        <3>1. r.ts <= scannedTs[h] + 1 /\ \A s \in Wanted(h) \ released[h] : r.ts <= s.ts
            BY <2>2 DEF IsNext
        <3>2. scannedTs[h] <= bound[h]
            BY <1>1 DEF StreamInv, SourceOK
        <3>3. QED
            BY <1>5, <3>1, <3>2
    <2>3. QED
        BY <2>1, <2>2
<1>7. ASSUME NEW h \in Group
      PROVE  /\ \A s \in released[h] : Past(cursor[h], s)
             /\ \A s \in history[h] :
                   s.ts > base => RecordCovered(h, s, cursor[h], from[h], Given)
    BY <1>1, <1>4 DEF StreamInv, CursorOK, StreamCovers
<1>8. QED
    BY <1>2, <1>3, <1>6, <1>7 DEF Producing

\* So is the record being decoded, until its end.
LEMMA DecodeProducing ==
    ASSUME IndInv, mode = "decode"
    PROVE  /\ Producing(current.group, DecodeRecord)
           /\ current.group \in Group /\ DecodeRecord \in RecordType
           /\ DecodeRecord \in Record[current.group]
           /\ DecodeRecord.stream = "data" /\ DecodeRecord.ts = current.ts
           /\ current.key = KeyOf(DecodeRecord)
<1>1. DecodeOK /\ StreamInv /\ current \in CurrentType /\ LogTypeOK
    BY DEF IndInv, StreamType
<1>2. current.group \in Group /\ DecodeRecord \in history[current.group]
    BY <1>1 DEF DecodeOK, CurrentType
<1>3. DecodeRecord \in RecordType /\ DecodeRecord \in Record[current.group]
    BY <1>1, <1>2 DEF LogTypeOK, IndInv, StreamType
<1>4. DecodeRecord.stream = "data" /\ DecodeRecord.ts = current.ts
    BY DEF DecodeRecord, RecordOf
<1>5. \A h \in Group : \A s : InDecode(h, s) <=> h = current.group /\ s = DecodeRecord
    BY DEF InDecode
<1>6. Producing(current.group, DecodeRecord)
    BY <1>1, <1>2, <1>5 DEF DecodeOK, StreamInv, CursorOK, StreamCovers, Producing
<1>7. QED
    BY <1>1, <1>2, <1>3, <1>4, <1>6 DEF DecodeOK

\* When the cursor of the record's group advances, in it or past it, the cursors
\* cover what they did and the record as far as it was given, and so does the
\* token made of them.
LEMMA AdvanceCovers ==
    ASSUME StreamType, SourceOK, NEW g \in Group, NEW r \in RecordType, Producing(g, r),
           NEW d, Advances(cursor[g], d, r),
           NEW S \in SUBSET Change, Given \subseteq S, \A x \in S : x.ts <= r.ts,
           r.ts > base => RecordCovered(g, r, d, from[g], S)
    PROVE  LET cur == [cursor EXCEPT ![g] = d]
           IN  /\ Covered(cur, from, S)
               /\ TokenOK(EventToken(r.ts, cur), S)
               /\ TokenOK(InvalidateToken(EventToken(r.ts, cur)), S)
               /\ \A h \in Group : LaterTs(cur[h]) <= bound[h]
<1> DEFINE cur == [cursor EXCEPT ![g] = d]
<1>1. /\ cursor \in [Group -> Cursor] /\ d \in Cursor /\ LaterTs(d) = r.ts
      /\ cur \in [Group -> Cursor] /\ cur[g] = d
      /\ \A h \in Group \ {g} : cur[h] = cursor[h]
      /\ LogTypeOK
    BY DEF StreamType, Advances
<1> HIDE DEF cur
<1>2. \A h \in Group : \A s \in history[h] : s \in RecordType
    BY <1>1 DEF LogTypeOK
<1>3. \A s \in Wanted(g) \ released[g] : s = r \/ Before(r, s)
    BY DEF Producing
<1>4. \A h \in Group : \A s \in released[h] : Past(cursor[h], s) \/ (h = g /\ s = r)
    BY DEF Producing
<1>5. \A h \in Group : LaterTs(cur[h]) <= bound[h]
    BY <1>1 DEF SourceOK, BoundOK, Producing
<1>6. ASSUME NEW s \in history[g], s # r, Ahead(cursor[g], from[g], s)
      PROVE  Ahead(d, from[g], s) /\ (Inside(d, s) => Inside(cursor[g], s) /\ d.at = cursor[g].at)
    <2>1. s \in Wanted(g) \ released[g]
        BY <1>4, <1>6 DEF Ahead, Wanted
    <2>2. Before(r, s) /\ s \in RecordType
        BY <1>2, <1>3, <1>6, <2>1
    <2>3. ~Past(d, s)
        BY <1>6, <2>2, BeforeOrder DEF Advances
    <2>4. QED
        BY <1>6, <2>2, <2>3 DEF Ahead, Advances
<1>7. ASSUME NEW h \in Group, NEW s \in history[h], s.ts > base
      PROVE  RecordCovered(h, s, cur[h], from[h], S)
    <2>1. CASE h = g /\ s = r
        BY <1>1, <1>7, <2>1
    <2>2. CASE ~(h = g /\ s = r)
        <3>1. RecordCovered(h, s, cursor[h], from[h], S)
            BY <1>7, <2>2, CoveredMonotonic DEF Producing
        <3>2. CASE h # g
            BY <1>1, <3>1, <3>2
        <3>3. CASE h = g
            BY <1>1, <1>6, <2>2, <3>1, <3>3 DEF RecordCovered
        <3>4. QED
            BY <3>2, <3>3
    <2>3. QED
        BY <2>1, <2>2
<1>8. Covered(cur, from, S)
    BY <1>7 DEF Covered
<1>9. ASSUME NEW h \in Group, NEW s \in history[h], Ahead(cur[h], from[h], s)
      PROVE  r.ts <= s.ts
    <2>1. s \in RecordType /\ s.ts \in Nat /\ r.ts \in Nat
        BY <1>2 DEF RecordType
    <2>2. CASE h # g
        <3>1. s \in Wanted(h) \ released[h]
            BY <1>1, <1>4, <1>9, <2>2 DEF Ahead, Wanted
        <3>2. QED
            BY <3>1 DEF Producing
    <2>3. CASE h = g
        <3>1. ~Past(d, s)
            BY <1>1, <1>9, <2>3 DEF Ahead
        <3>2. s = r \/ Before(r, s)
            BY <2>1, <3>1, BeforeOrder DEF Advances
        <3>3. QED
            BY <2>1, <3>2, BeforeOrder
    <2>4. QED
        BY <2>2, <2>3
<1>10. r.ts \in 1 .. MaxTs /\ \A h \in Group : r.ts <= bound[h] + 1
    BY DEF RecordType, Producing
<1>11. TokenOK(EventToken(r.ts, cur), S) /\ TokenOK(InvalidateToken(EventToken(r.ts, cur)), S)
    BY <1>1, <1>5, <1>8, <1>9, <1>10, EventTokenOK
<1>12. QED
    BY <1>5, <1>8, <1>11 DEF cur

\* The stream's part of the invariant after the cursor has advanced.
LEMMA AdvanceStream ==
    ASSUME StreamType, StreamInv, NEW g \in Group, NEW r \in RecordType, Producing(g, r),
           NEW d, Advances(cursor[g], d, r), cursor' = [cursor EXCEPT ![g] = d],
           Given' \in SUBSET Change, Given \subseteq Given', \A x \in Given' : x.ts <= r.ts,
           r.ts > base => RecordCovered(g, r, d, from[g], Given'),
           UNCHANGED <<history, bound, from, scannedTs, opening, base, filter>>,
           released' = [released EXCEPT ![g] = @ \cup {r}],
           skip' = skip \/ skip' = [skip EXCEPT ![g] = NoCursor],
           Past(d, r) \/ InDecode(g, r)',
           DedupOK'
    PROVE  StreamInv'
<1>1. /\ cursor \in [Group -> Cursor] /\ skip \in [Group -> Cursor] /\ d \in Cursor
      /\ LaterTs(d) = r.ts /\ cursor'[g] = d
      /\ \A h \in Group \ {g} : cursor'[h] = cursor[h]
      /\ \A h \in Group : skip'[h] = skip[h] \/ (h = g /\ skip'[h] = NoCursor)
      /\ released'[g] = released[g] \cup {r}
      /\ \A h \in Group \ {g} : released'[h] = released[h]
      /\ released \in [Group -> SUBSET RecordType]
      /\ LogTypeOK
    BY DEF StreamType, Advances
<1>2. \A h \in Group : \A s \in history[h] : s \in RecordType
    BY <1>1 DEF LogTypeOK
<1>3. \A h \in Group : Wanted(h)' = Wanted(h)
    BY DEF Wanted
<1>4. SourceOK /\ CursorOK
    BY DEF StreamInv
<1>5. Covered(cursor', from, Given') /\ \A h \in Group : LaterTs(cursor'[h]) <= bound[h]
    BY <1>4, AdvanceCovers
<1>6. SourceOK'
    <2>1. BoundOK(cursor, from)'
        BY <1>4, <1>5 DEF SourceOK, BoundOK
    <2>2. ASSUME NEW h \in Group
          PROVE  /\ LaterTs(skip'[h]) <= bound[h]
                 /\ LaterTs(skip'[h]) <= from[h]
        <3>1. CASE skip'[h] = skip[h]
            BY <1>4, <3>1 DEF SourceOK
        <3>2. CASE skip'[h] = NoCursor
            <4>1. bound[h] \in 0 .. MaxTs /\ from[h] \in 1 .. MaxTs + 1
                BY <1>1 DEF LogTypeOK, StreamType
            <4>2. QED
                BY <3>2, <4>1, NoCursorFacts, BoundsAssumption
        <3>3. QED
            BY <1>1, <3>1, <3>2
    <2>3. r.ts \in Nat /\ r.ts # 0 /\ from[g] <= r.ts
        BY DEF RecordType, Producing
    <2>4. ASSUME NEW h \in Group
          PROVE  /\ LaterTs(cursor'[h]) # 0 => from[h] <= LaterTs(cursor'[h])
                 /\ LaterTs(cursor'[h]) = 0 => \A k \in Group : from[h] <= from[k]
        <3>1. CASE h = g
            BY <1>1, <2>3, <3>1
        <3>2. CASE h # g
            BY <1>1, <1>4, <3>2 DEF SourceOK
        <3>3. QED
            BY <3>1, <3>2
    <2>5. QED
        BY <1>4, <2>1, <2>2, <2>4 DEF SourceOK
<1>7. ASSUME NEW s \in RecordType, Past(cursor[g], s)
      PROVE  Past(d, s)
    BY <1>1, <1>7, PastIsPrefix DEF Producing, Advances
<1>8. ~Past(skip[g], r)
    BY <1>4 DEF CursorOK, Producing
<1>9. ASSUME NEW h \in Group
      PROVE  /\ \A s \in released'[h] : Past(cursor'[h], s) \/ InDecode(h, s)'
             /\ \A s \in RecordType : Past(skip'[h], s) => Past(cursor'[h], s)
             /\ \A s \in Wanted(h) \ released'[h] :
                   /\ Past(cursor'[h], s) => Past(skip'[h], s)
                   /\ s.stream = "data" /\ KeyOf(s) = skip'[h].dataKey
                         => cursor'[h] = skip'[h]
    <2>1. CASE h # g
        <3>1. \A s \in released[h] : Past(cursor[h], s)
            BY <2>1 DEF Producing
        <3>2. QED
            BY <1>1, <1>4, <2>1, <3>1 DEF CursorOK
    <2>2. CASE h = g
        <3>1. \A s \in released'[g] : Past(cursor'[g], s) \/ InDecode(g, s)'
            <4>1. \A s \in released[g] : Past(cursor[g], s) \/ s = r
                BY DEF Producing
            <4>2. QED
                BY <1>1, <1>7, <4>1
        <3>2. \A s \in RecordType : Past(skip'[g], s) => Past(cursor'[g], s)
            BY <1>1, <1>4, <1>7, NoCursorFacts DEF CursorOK
        <3>3. ASSUME NEW s \in Wanted(g) \ released'[g]
              PROVE  ~Past(d, s) /\ ~(s.stream = "data" /\ KeyOf(s) = skip'[g].dataKey)
            <4>1. s \in RecordType /\ s # r /\ Before(r, s)
                BY <1>1, <1>2 DEF Producing, Wanted
            <4>2. ~Past(d, s)
                BY <4>1, BeforeOrder DEF Advances
            <4>3. CASE skip'[g] = skip[g]
                BY <1>1, <1>8, <4>1, <4>2, <4>3, NothingNewBefore
            <4>4. CASE skip'[g] = NoCursor
                <5>1. KeyOf(s) # NoKey
                    BY <4>1, KeyFacts DEF NoKey
                <5>2. QED
                    BY <4>2, <4>4, <5>1 DEF NoCursor
            <4>5. QED
                BY <1>1, <4>3, <4>4
        <3>4. QED
            BY <1>1, <2>2, <3>1, <3>2, <3>3
    <2>3. QED
        BY <2>1, <2>2
<1>10. CursorOK'
    BY <1>3, <1>9 DEF CursorOK
<1>11. StreamCovers'
    BY <1>5 DEF Covered, StreamCovers, RecordCovered
<1>12. StreamOrdered'
    <2>1. ASSUME NEW h \in Group, NEW s \in Wanted(h) \ released'[h], NEW x \in Given'
          PROVE  x.ts <= s.ts
        <3>1. s \in Wanted(h) \ released[h] /\ s.ts \in Nat
            BY <1>1, <1>2 DEF Wanted, RecordType
        <3>2. r.ts <= s.ts
            BY <3>1 DEF Producing
        <3>3. x.ts \in Nat /\ r.ts \in Nat /\ x.ts <= r.ts
            BY ChangeFacts DEF RecordType
        <3>4. QED
            BY <3>1, <3>2, <3>3
    <2>2. QED
        BY <1>3, <2>1 DEF StreamOrdered
<1>13. TokenCovers(opening, Given)'
    <2>1. TokenCovers(opening, Given')
        BY TokenCoversMonotonic DEF StreamInv
    <2>2. QED
        BY <2>1, TokenSame
<1>14. QED
    BY <1>6, <1>10, <1>11, <1>12, <1>13 DEF StreamInv

\* A dedup set takes changes that have been given.
LEMMA DedupStep ==
    ASSUME StreamType, DedupOK, NEW g \in Group, NEW ts \in 0 .. MaxTs, NEW K,
           dedup' \in Recorded(g, ts, K), Given \subseteq Given', UNCHANGED <<base, filter>>,
           ts > base /\ "document" \notin filter =>
               \A k \in K : [ts |-> ts, class |-> "document", ns |-> k.ns, key |-> k.key]
                                \in Given'
    PROVE  /\ DedupOK'
           /\ DOMAIN dedup' = Group
           /\ \A h \in Group : dedup'[h].ts \in 0 .. MaxTs
<1> DEFINE D == IF dedup[g].ts = ts THEN dedup[g].keys ELSE {}
<1>1. PICK F \in SUBSET (K \ D) : dedup' = [dedup EXCEPT ![g] = [ts |-> ts, keys |-> D \cup F]]
    BY DEF Recorded
<1>2. DOMAIN dedup = Group /\ \A h \in Group : dedup[h].ts \in 0 .. MaxTs
    BY DEF StreamType
<1>3. /\ DOMAIN dedup' = Group
      /\ dedup'[g].ts = ts /\ dedup'[g].keys = D \cup F
      /\ \A h \in Group \ {g} : dedup'[h] = dedup[h]
    BY <1>1, <1>2
<1>4. ASSUME NEW h \in Group, NEW k \in dedup'[h].keys,
             dedup'[h].ts > base, "document" \notin filter
      PROVE  [ts |-> dedup'[h].ts, class |-> "document", ns |-> k.ns, key |-> k.key] \in Given'
    <2>1. CASE h # g
        BY <1>3, <1>4, <2>1 DEF DedupOK
    <2>2. CASE h = g /\ k \in K
        BY <1>3, <1>4, <2>2
    <2>3. CASE h = g /\ k \notin K
        <3>1. k \in D
            BY <1>1, <1>3, <2>3
        <3>2. dedup[g].ts = ts /\ k \in dedup[g].keys
            BY <3>1
        <3>3. QED
            BY <1>3, <1>4, <2>3, <3>2 DEF DedupOK
    <2>4. QED
        BY <2>1, <2>2, <2>3
<1>5. QED
    BY <1>2, <1>3, <1>4 DEF DedupOK

\* Places are ordered.
LEMMA PlaceOrder ==
    ASSUME NEW p \in Place, NEW q \in Place
    PROVE  /\ PlaceLess(p, q) \/ p = q \/ PlaceLess(q, p)
           /\ \A o \in Place : PlaceLess(o, p) /\ ~PlaceLess(q, p) => PlaceLess(o, q)
<1>1. /\ p = <<p[1], p[2]>> /\ q = <<q[1], q[2]>>
      /\ p[1] \in Nat /\ p[2] \in Nat /\ q[1] \in Nat /\ q[2] \in Nat
    BY DEF Place
<1>2. PlaceLess(p, q) \/ p = q \/ PlaceLess(q, p)
    BY <1>1 DEF PlaceLess
<1>3. ASSUME NEW o \in Place, PlaceLess(o, p), ~PlaceLess(q, p)
      PROVE  PlaceLess(o, q)
    <2>1. o[1] \in Nat /\ o[2] \in Nat
        BY DEF Place
    <2>2. QED
        BY <1>1, <1>3, <2>1 DEF PlaceLess
<1>4. QED
    BY <1>2, <1>3

\* The decoder passes over a change that was given before, or produces the next.
LEMMA DecodeEntryPreserves ==
    ASSUME IndInv, NEW p, DecodeEntry(p)
    PROVE  IndInv'
<1> DEFINE g == current.group
           r == DecodeRecord
           blob == Blob[g][r]
           k == DedupKey(blob, p)
           x == DocumentChange(current.ts, blob, p)
           old == ~PlaceLess(current.through, p)
           d == Within(cursor[g], current.key, p)
           cur == [cursor EXCEPT ![g] = d]
<1>1. /\ pulling /\ mode = "decode" /\ IsNextPlace(p)
      /\ current' = [current EXCEPT !.at = p]
      /\ dedup' \in Recorded(g, current.ts, {k})
      /\ UNCHANGED <<history, bound, floor, from, scannedTs, released, drained, mode, skip,
                     opening, pending>>
      /\ \/ (old \/ Seen(g, current.ts, k)) /\ GoOn /\ UNCHANGED cursor
         \/ /\ ~old /\ ~Seen(g, current.ts, k)
            /\ cursor' = cur
            /\ Return(x, EventToken(current.ts, cur))
    BY DEF DecodeEntry, Within, DecodeRecord, orderedVars, logVars, sourceVars
<1>2. /\ Producing(g, r) /\ g \in Group /\ r \in RecordType /\ r \in Record[g]
      /\ r.stream = "data" /\ r.ts = current.ts /\ current.key = KeyOf(r)
    BY <1>1, DecodeProducing
<1>3. /\ StreamType /\ StreamInv /\ ConsumerType /\ ConsumerInv /\ DecodeOK
      /\ stash = <<>> /\ current \in CurrentType /\ pulling \in BOOLEAN
      /\ cursor \in [Group -> Cursor] /\ LogTypeOK
    BY <1>1 DEF IndInv, StreamType, ConsumerType
<1>4. /\ p \in Places(blob) /\ PlaceLess(current.at, p) /\ p \in Place
      /\ \A q \in Places(blob) : PlaceLess(current.at, q) => ~PlaceLess(q, p)
    <2>1. p \in PlacesLeft /\ \A q \in PlacesLeft : ~PlaceLess(q, p)
        BY <1>1 DEF IsNextPlace
    <2>2. p \in Places(blob) /\ PlaceLess(current.at, p)
        BY <2>1 DEF PlacesLeft, DecodeRecord
    <2>3. QED
        BY <1>2, <2>1, <2>2, PlaceFacts DEF PlacesLeft, DecodeRecord
<1>5. /\ x \in Changes(g, r) /\ x.class = "document" /\ x.ts = r.ts
      /\ [ts |-> current.ts, class |-> "document", ns |-> k.ns, key |-> k.key] = x
    BY <1>2, <1>4 DEF Changes, DocumentChange, DedupKey
<1>6. x \in Change
    BY <1>2, <1>5, ChangeFacts
<1>7. /\ current'.group = g /\ current'.at = p /\ current'.through = current.through
      /\ current'.key = current.key /\ DecodeRecord' = r /\ current' \in CurrentType
    BY <1>1, <1>3, <1>4 DEF CurrentType, DecodeRecord, RecordOf
<1>8. \A h \in Group : \A s : InDecode(h, s)' <=> InDecode(h, s)
    BY <1>1, <1>7 DEF InDecode
<1>9. /\ current.at \in Place /\ current.through \in Place /\ current.ts \in 0 .. MaxTs
      /\ current.ts \in 1 .. MaxTs
    BY <1>3, BoundsAssumption DEF CurrentType
\* Up to p, everything was given once x was.
<1>10. ASSUME NEW S, Given \subseteq S, r.ts > base, "document" \notin filter,
              x \in S, NEW q \in Places(blob),
              ~PlaceLess(p, q) \/ ~PlaceLess(current.through, q)
       PROVE  DocumentChange(r.ts, blob, q) \in S
    <2>1. q \in Place
        BY <1>2, PlaceFacts
    <2>2. CASE ~PlaceLess(current.at, q) \/ ~PlaceLess(current.through, q)
        BY <1>3, <1>10, <2>2 DEF DecodeOK
    <2>3. CASE PlaceLess(current.at, q) /\ PlaceLess(current.through, q)
        <3>1. ~PlaceLess(q, p) /\ ~PlaceLess(p, q)
            BY <1>4, <1>10, <2>3
        <3>2. q = p
            BY <1>4, <2>1, <3>1, PlaceOrder
        <3>3. QED
            BY <1>2, <1>10, <3>2
    <2>4. QED
        BY <2>2, <2>3
\* What is left to show once it is known what was given.
<1>11. ASSUME UNCHANGED <<base, filter>>, Given \subseteq Given',
              Given' \subseteq Given \cup {x},
              r.ts > base /\ "document" \notin filter => x \in Given',
              cursor'[g] \in Cursor, ~Past(cursor'[g], r)
       PROVE  /\ DedupOK' /\ DOMAIN dedup' = Group
              /\ \A h \in Group : dedup'[h].ts \in 0 .. MaxTs
              /\ DecodeOK'
    <2>1. /\ DedupOK' /\ DOMAIN dedup' = Group
          /\ \A h \in Group : dedup'[h].ts \in 0 .. MaxTs
        <3>1. current.ts > base /\ "document" \notin filter =>
                 \A j \in {k} : [ts |-> current.ts, class |-> "document", ns |-> j.ns,
                                 key |-> j.key] \in Given'
            BY <1>2, <1>5, <1>11
        <3>2. DedupOK
            BY <1>3 DEF StreamInv
        <3>3. QED
            BY <1>1, <1>2, <1>3, <1>9, <1>11, <3>1, <3>2, DedupStep
    <2>2. r.ts \in Nat /\ r.ts <= r.ts
        BY <1>2 DEF RecordType
    <2>3. \A y \in Given' : y.ts <= r.ts
        BY <1>5, <1>11, <2>2, <1>3 DEF DecodeOK
    <2>4. r.ts > base =>
              \A q \in Places(blob) :
                  ~PlaceLess(p, q) \/ ~PlaceLess(current.through, q)
                      => \/ "document" \in filter
                         \/ DocumentChange(r.ts, blob, q) \in Given'
        BY <1>10, <1>11
    <2>5. \A h \in Group : Wanted(h)' = Wanted(h)
        BY <1>1 DEF Wanted
    <2>6. DecodeOK'
        BY <1>1, <1>2, <1>3, <1>7, <1>11, <2>3, <2>4, <2>5 DEF DecodeOK
    <2>7. QED
        BY <2>1, <2>6
<1> HIDE DEF k, x, old, cur, d
<1>12. CASE (old \/ Seen(g, current.ts, k)) /\ GoOn /\ UNCHANGED cursor
    <2>1. UNCHANGED <<history, bound, consumerVars>> /\ pulling' = pulling
        BY <1>1, <1>12 DEF GoOn
    <2>2. Given' = Given /\ ConsumerInv'
        BY <1>3, <2>1, ConsumerSame
    <2>3. UNCHANGED <<base, filter, stash, applied>>
        BY <2>1 DEF consumerVars
    <2>4. ASSUME r.ts > base, "document" \notin filter
          PROVE  x \in Given
        <3>1. CASE old
            BY <1>2, <1>3, <1>4, <2>4, <3>1 DEF DecodeOK, old, x
        <3>2. CASE Seen(g, current.ts, k)
            <4>1. dedup[g].ts = current.ts /\ k \in dedup[g].keys
                BY <3>2 DEF Seen
            <4>2. QED
                BY <1>2, <1>3, <1>5, <2>4, <4>1 DEF StreamInv, DedupOK
        <3>3. QED
            BY <1>12, <3>1, <3>2
    <2>5. cursor'[g] \in Cursor /\ ~Past(cursor'[g], r)
        BY <1>2, <1>3, <1>12 DEF Producing
    <2>6. /\ DedupOK' /\ DOMAIN dedup' = Group
          /\ \A h \in Group : dedup'[h].ts \in 0 .. MaxTs
          /\ DecodeOK'
        BY <1>11, <2>2, <2>3, <2>4, <2>5
    <2>7. StreamInv'
        <3>1. SourceOK'
            BY <1>1, <1>3, <1>12 DEF StreamInv, SourceOK, BoundOK
        <3>2. CursorOK'
            BY <1>1, <1>3, <1>8, <1>12 DEF StreamInv, CursorOK, Wanted
        <3>3. StreamCovers'
            BY <1>1, <1>3, <1>8, <1>12, <2>2, <2>3 DEF StreamInv, StreamCovers, RecordCovered
        <3>4. StreamOrdered'
            BY <1>1, <1>3, <2>2 DEF StreamInv, StreamOrdered, Wanted
        <3>5. TokenCovers(opening, Given)'
            BY <1>1, <1>3, <2>2, <2>3, TokenSame DEF StreamInv
        <3>6. QED
            BY <2>6, <3>1, <3>2, <3>3, <3>4, <3>5 DEF StreamInv
    <2>8. ConsumerType'
        BY <1>3, <2>1 DEF ConsumerType, consumerVars
    <2>9. StreamType'
        BY <1>1, <1>3, <1>7, <1>12, <2>1, <2>3, <2>6 DEF StreamType, LogTypeOK
    <2>10. QED
        BY <1>1, <2>2, <2>6, <2>7, <2>8, <2>9 DEF IndInv
<1>13. CASE ~old /\ cursor' = cur /\ Return(x, EventToken(current.ts, cur))
    <2>1. /\ d \in Cursor /\ LaterTs(d) = r.ts /\ PastBefore(d, r) /\ d.at = p
          /\ \A s \in RecordType : Inside(d, s) <=> s = r
        BY <1>2, <1>3, <1>4, WithinFacts DEF Producing, d
    <2>2. Advances(cursor[g], d, r)
        BY <2>1 DEF Advances, PastBefore
    <2>3. ~Past(d, r)
        BY <1>2, <2>1, BeforeOrder DEF PastBefore
    <2> DEFINE S == GivenWith(x)
    <2>4. /\ S \in SUBSET Change /\ Given \subseteq S /\ S \subseteq Given \cup {x}
          /\ "document" \notin filter => x \in S
        BY <1>3, <1>5, <1>6, GivenFacts DEF GivenWith
    <2> HIDE DEF S
    <2>5. \A y \in S : y.ts <= r.ts
        <3>1. r.ts <= r.ts
            BY <1>2 DEF RecordType
        <3>2. QED
            BY <1>2, <1>5, <2>4, <3>1 DEF Producing
    <2>6. r.ts > base => RecordCovered(g, r, d, from[g], S)
        <3>1. ASSUME r.ts > base, NEW q \in Places(blob)
              PROVE  \/ "document" \in filter
                     \/ DocumentChange(r.ts, blob, q) \in S
                     \/ Ahead(d, from[g], r) /\ PlaceLess(d.at, q)
            <4>1. Ahead(d, from[g], r)
                BY <1>2, <2>3 DEF Ahead, Producing
            <4>2. QED
                BY <1>10, <2>1, <2>4, <3>1, <4>1
        <3>2. QED
            BY <1>2, <3>1 DEF RecordCovered
    <2>7. TokenOK(EventToken(r.ts, cur), S)
        BY <1>2, <1>3, <2>2, <2>4, <2>5, <2>6, AdvanceCovers DEF StreamInv, cur
    <2>8. EventToken(r.ts, cur) \in Token
        BY <2>7 DEF TokenOK, TokenCovers
    <2>9. /\ ConsumerType' /\ ConsumerInv' /\ pulling' \in BOOLEAN
          /\ Given' = S /\ UNCHANGED <<base, filter>>
        <3>1. \A y \in Given : y.ts <= x.ts
            BY <1>2, <1>5 DEF Producing
        <3>2. \A h \in Group : x.ts <= bound[h] + 1
            BY <1>2, <1>5 DEF Producing
        <3>3. Return(x, EventToken(r.ts, cur))
            BY <1>2, <1>13
        <3>4. UNCHANGED <<history, bound>>
            BY <1>1
        <3>5. QED
            BY <1>1, <1>3, <1>6, <2>7, <2>8, <3>1, <3>2, <3>3, <3>4, ReturnFacts DEF S
    <2>10. cursor'[g] = d
        BY <1>2, <1>3, <1>13 DEF cur
    <2>11. /\ DedupOK' /\ DOMAIN dedup' = Group
           /\ \A h \in Group : dedup'[h].ts \in 0 .. MaxTs
           /\ DecodeOK'
        BY <1>11, <2>1, <2>3, <2>4, <2>9, <2>10
    <2>12. StreamInv'
        <3>1. released' = [released EXCEPT ![g] = @ \cup {r}]
            <4>1. r \in released[g] /\ released \in [Group -> SUBSET RecordType]
                BY <1>3 DEF DecodeOK, StreamType
            <4>2. released[g] \cup {r} = released[g]
                BY <4>1
            <4>3. QED
                BY <1>1, <1>2, <4>1, <4>2
        <3>2. ASSUME NEW h, h = g, NEW s, s = r
              PROVE  InDecode(h, s)'
            BY <1>1, <1>7, <3>2 DEF InDecode
        <3>3. UNCHANGED <<history, bound, from, scannedTs, opening, base, filter>> /\ skip' = skip
            BY <1>1, <2>9
        <3>4. cursor' = [cursor EXCEPT ![g] = d]
            BY <1>13 DEF cur
        <3>5. /\ Given' \in SUBSET Change /\ Given \subseteq Given'
              /\ \A y \in Given' : y.ts <= r.ts
              /\ r.ts > base => RecordCovered(g, r, d, from[g], Given')
            BY <2>4, <2>5, <2>6, <2>9
        <3>6. ASSUME NEW h, h = g, NEW s, s = r
              PROVE  StreamInv'
            <4>1. InDecode(h, s)'
                BY <3>2, <3>6
            <4>2. QED
                BY <1>2, <1>3, <2>2, <2>11, <3>1, <3>3, <3>4, <3>5, <3>6, <4>1, AdvanceStream
        <3>7. QED
            BY <3>6
    <2>13. StreamType'
        <3>1. cursor' \in [Group -> Cursor]
            BY <1>2, <1>3, <1>13, <2>1 DEF cur
        <3>2. QED
            BY <1>1, <1>3, <1>7, <2>9, <2>11, <3>1 DEF StreamType, LogTypeOK
    <2>14. QED
        BY <1>1, <2>9, <2>11, <2>12, <2>13 DEF IndInv
<1>14. QED
    BY <1>1, <1>12, <1>13

\* The record is finished: all its changes were given.
LEMMA DecodeEndPreserves ==
    ASSUME IndInv, DecodeEnd
    PROVE  IndInv'
<1> DEFINE g == current.group
           r == DecodeRecord
           blob == Blob[g][r]
           d == Finished(cursor[g], current.key)
<1>1. /\ pulling /\ mode = "decode" /\ PlacesLeft = {}
      /\ cursor' = [cursor EXCEPT ![g] = d]
      /\ mode' = "source" /\ pulling' = pulling
      /\ UNCHANGED <<history, bound, floor, from, scannedTs, released, drained, skip, dedup,
                     opening, pending, consumerVars>>
    BY DEF DecodeEnd, GoOn, Finished, orderedVars, logVars, sourceVars
<1>2. /\ Producing(g, r) /\ g \in Group /\ r \in RecordType /\ r \in Record[g]
      /\ r.stream = "data" /\ r.ts = current.ts /\ current.key = KeyOf(r)
    BY <1>1, DecodeProducing
<1>3. /\ StreamType /\ StreamInv /\ ConsumerType /\ ConsumerInv /\ DecodeOK
      /\ cursor \in [Group -> Cursor] /\ released \in [Group -> SUBSET RecordType]
    BY <1>1 DEF IndInv, StreamType
<1>4. Given' = Given /\ ConsumerInv' /\ UNCHANGED <<base, filter, stash, applied>>
    BY <1>1, <1>3, ConsumerSame DEF consumerVars
<1>5. /\ d \in Cursor /\ LaterTs(d) = r.ts /\ PastUpTo(d, r) /\ ~d.partial
    BY <1>2, <1>3, FinishedFacts DEF Producing
<1>6. Advances(cursor[g], d, r) /\ Past(d, r)
    BY <1>2, <1>5 DEF Advances, PastUpTo, Inside
<1>7. r.ts > base => RecordCovered(g, r, d, from[g], Given)
    <2>1. \A q \in Places(blob) : ~PlaceLess(current.at, q)
        BY <1>1 DEF PlacesLeft, DecodeRecord
    <2>2. QED
        BY <1>2, <1>3, <2>1 DEF DecodeOK, RecordCovered
<1>8. released' = [released EXCEPT ![g] = @ \cup {r}]
    <2>1. released[g] \cup {r} = released[g]
        BY <1>3 DEF DecodeOK
    <2>2. QED
        BY <1>1, <1>2, <1>3, <2>1
<1>9. /\ Given \in SUBSET Change /\ \A y \in Given : y.ts <= r.ts
    BY <1>2, <1>3, GivenFacts DEF Producing
<1>10. DedupOK'
    BY <1>1, <1>3, <1>4 DEF StreamInv, DedupOK
<1>11. StreamInv'
    BY <1>1, <1>2, <1>3, <1>4, <1>6, <1>7, <1>8, <1>9, <1>10, AdvanceStream
<1>12. StreamType' /\ ConsumerType'
    <2>1. cursor' \in [Group -> Cursor]
        BY <1>1, <1>2, <1>3, <1>5
    <2>2. StreamType'
        BY <1>1, <1>3, <1>4, <2>1 DEF StreamType, LogTypeOK
    <2>3. ConsumerType'
        BY <1>1, <1>3 DEF ConsumerType, consumerVars
    <2>4. QED
        BY <2>2, <2>3
<1>13. QED
    BY <1>1, <1>4, <1>11, <1>12 DEF IndInv

-----------------------------------------------------------------------------
(***************************************************************************)
(* A record is taken from the source.                                      *)
(***************************************************************************)

\* What every way of taking a record has in common.
LEMMA TakenFacts ==
    ASSUME IndInv, NEW g \in Group, NEW r \in Record[g], TakeRecord(g, r)
    PROVE  /\ pulling /\ mode = "source" /\ stash = <<>>
           /\ r \in RecordType /\ r.ts \in 1 .. MaxTs /\ r.ts \in Nat
           /\ IsNext(g, r) /\ r \in Wanted(g) \ released[g] /\ r \in history[g]
           /\ released' = [released EXCEPT ![g] = @ \cup {r}]
           /\ released' \in [Group -> SUBSET RecordType]
           /\ drained' = FALSE
           /\ UNCHANGED <<history, bound, floor, from, scannedTs>>
           /\ skip[g] \in Cursor /\ LaterTs(skip[g]) <= from[g]
           /\ from[g] <= r.ts /\ from[g] \in Nat /\ LaterTs(skip[g]) \in Nat
           /\ LaterTs(skip[g]) <= r.ts
           /\ StreamType /\ StreamInv /\ ConsumerType /\ ConsumerInv
<1>1. /\ pulling /\ mode = "source" /\ Deliver(g, r)
    BY DEF TakeRecord
<1>2. /\ IsNext(g, r) /\ released' = [released EXCEPT ![g] = @ \cup {r}] /\ drained' = FALSE
      /\ UNCHANGED <<history, bound, floor, from, scannedTs>>
    BY <1>1 DEF Deliver, logVars
<1>3. r \in Wanted(g) \ released[g] /\ r \in history[g] /\ from[g] <= r.ts
    BY <1>2 DEF IsNext, Wanted
<1>4. /\ StreamType /\ StreamInv /\ ConsumerType /\ ConsumerInv /\ stash = <<>>
      /\ skip \in [Group -> Cursor] /\ from \in [Group -> 1 .. MaxTs + 1]
      /\ released \in [Group -> SUBSET RecordType]
    BY <1>1 DEF IndInv, StreamType, ConsumerType
<1>5. r \in RecordType /\ r.ts \in 1 .. MaxTs /\ r.ts \in Nat
    BY ChangeFacts, KeyFacts
<1>6. LaterTs(skip[g]) <= from[g]
    BY <1>4 DEF StreamInv, SourceOK
<1>7. from[g] \in Nat /\ LaterTs(skip[g]) \in Nat /\ skip[g] \in Cursor
    BY <1>4, LaterTsFacts, BoundsAssumption
<1>8. released' \in [Group -> SUBSET RecordType]
    BY <1>2, <1>4, <1>5
<1>9. LaterTs(skip[g]) <= r.ts
    BY <1>3, <1>5, <1>6, <1>7
<1>10. QED
    BY <1>1, <1>2, <1>3, <1>4, <1>5, <1>6, <1>7, <1>8, <1>9

\* A new DDL record.
LEMMA BeginDdlPreserves ==
    ASSUME IndInv, NEW g \in Group, NEW r \in Record[g], TakeRecord(g, r), BeginDdl(g, r)
    PROVE  IndInv'
<1> DEFINE op == SchemaOp[g][r]
           d == DdlFinished(cursor[g], KeyOf(r))
           cur == [cursor EXCEPT ![g] = d]
           t == EventToken(r.ts, cur)
<1>1. /\ r.stream = "ddl" /\ ~OldDdl(g, r)
      /\ skip' = [skip EXCEPT ![g] = NoCursor]
      /\ cursor' = cur
      /\ \/ Reported(r.ts, op) = {} /\ GoOn
         \/ \E c \in Reported(r.ts, op) : Return(c, t)
      /\ \/ mode' = "pending" /\ pending' = InvalidateToken(t)
         \/ mode' = mode /\ pending' = pending
      /\ UNCHANGED <<dedup, current, opening>>
    <2>1. cur = [cursor EXCEPT ![g].ddlKey = KeyOf(r)]
        BY DEF DdlFinished
    <2>2. QED
        BY <2>1 DEF BeginDdl
<1>2. /\ pulling /\ mode = "source" /\ stash = <<>>
      /\ r \in RecordType /\ r.ts \in 1 .. MaxTs /\ r.ts \in Nat
      /\ IsNext(g, r)
      /\ released' = [released EXCEPT ![g] = @ \cup {r}]
      /\ released' \in [Group -> SUBSET RecordType]
      /\ drained' = FALSE
      /\ UNCHANGED <<history, bound, floor, from, scannedTs>>
      /\ skip[g] \in Cursor /\ LaterTs(skip[g]) <= r.ts
      /\ StreamType /\ StreamInv /\ ConsumerType /\ ConsumerInv
    BY TakenFacts
<1>3. ~Past(skip[g], r)
    BY <1>1, <1>2, SkipTests
<1>4. Producing(g, r)
    BY <1>2, <1>3, TakenProducing
<1>5. cursor \in [Group -> Cursor] /\ skip \in [Group -> Cursor] /\ pulling \in BOOLEAN
    BY <1>2 DEF StreamType
<1>6. d \in Cursor /\ LaterTs(d) = r.ts /\ PastUpTo(d, r)
    BY <1>1, <1>2, <1>4, <1>5, DdlFinishedFacts DEF Producing
<1>7. \A s \in RecordType : Inside(d, s) => Inside(cursor[g], s) /\ d.at = cursor[g].at
    BY <1>5 DEF DdlFinished, Inside, Cursor
<1> HIDE DEF d
<1>8. Advances(cursor[g], d, r) /\ Past(d, r)
    BY <1>2, <1>6, <1>7 DEF Advances, PastUpTo
<1>9. /\ Given \in SUBSET Change /\ \A y \in Given : y.ts <= r.ts
    BY <1>2, <1>4, GivenFacts DEF Producing
\* What is left to show once it is known what was given.
<1>10. ASSUME ConsumerType', ConsumerInv', pulling' \in BOOLEAN, UNCHANGED <<base, filter>>,
              Given \subseteq Given', Given' \in SUBSET Change,
              \A y \in Given' : y.ts <= r.ts,
              \A y \in Reported(r.ts, op) : y.class \in filter \/ y \in Given'
       PROVE  IndInv'
    <2>1. RecordCovered(g, r, d, from[g], Given')
        BY <1>1, <1>10 DEF RecordCovered
    <2>2. TokenOK(InvalidateToken(t), Given')
        BY <1>2, <1>4, <1>8, <1>10, <2>1, AdvanceCovers DEF StreamInv
    <2>3. DedupOK'
        BY <1>1, <1>2, <1>10 DEF StreamInv, DedupOK
    <2>4. StreamInv'
        BY <1>1, <1>2, <1>4, <1>8, <1>10, <2>1, <2>3, AdvanceStream
    <2>5. InvalidateToken(t) \in Token
        BY <2>2 DEF TokenOK, TokenCovers
    <2>6. StreamType'
        <3>1. cursor' \in [Group -> Cursor] /\ skip' \in [Group -> Cursor]
            BY <1>1, <1>5, <1>6, NoCursorFacts
        <3>2. pending' \in Token /\ mode' \in {"source", "pending"} /\ opening' \in Token
            BY <1>1, <1>2, <2>5 DEF StreamType
        <3>3. QED
            BY <1>1, <1>2, <1>10, <3>1, <3>2 DEF StreamType, LogTypeOK
    <2>7. CASE mode' = "pending" /\ pending' = InvalidateToken(t)
        <3>1. InvalidateToken(t).kind = "invalidate"
            BY DEF InvalidateToken, EventToken
        <3>2. TokenOK(pending, Given)'
            BY <1>2, <1>10, <2>2, <2>7, TokenSame
        <3>3. EndInv'
            BY <2>7, <3>1, <3>2 DEF EndInv
        <3>4. QED
            BY <1>10, <2>6, <2>7, <3>3 DEF IndInv
    <2>8. CASE mode' = mode
        BY <1>2, <1>10, <2>4, <2>6, <2>8 DEF IndInv
    <2>9. QED
        BY <1>1, <2>7, <2>8
<1>11. CASE Reported(r.ts, op) = {} /\ GoOn
    <2>1. UNCHANGED <<history, bound, consumerVars>> /\ pulling' = pulling
        BY <1>2, <1>11 DEF GoOn
    <2>2. Given' = Given /\ ConsumerInv'
        BY <1>2, <2>1, ConsumerSame
    <2>3. ConsumerType' /\ UNCHANGED <<base, filter>>
        BY <1>2, <2>1 DEF ConsumerType, consumerVars
    <2>4. QED
        BY <1>5, <1>9, <1>10, <1>11, <2>1, <2>2, <2>3
<1>12. ASSUME NEW c \in Reported(r.ts, op), Return(c, t)
       PROVE  IndInv'
    <2>1. c \in Changes(g, r)
        BY <1>1 DEF Changes
    <2>2. c \in Change /\ c.ts = r.ts
        BY <2>1, ChangeFacts
    <2>3. \A y \in Reported(r.ts, op) : y = c
        BY <1>1, ReportedOnce
    <2> DEFINE S == GivenWith(c)
    <2>4. /\ S \in SUBSET Change /\ Given \subseteq S /\ S \subseteq Given \cup {c}
          /\ c.class \in filter \/ c \in S
        BY <1>9, <2>2 DEF GivenWith
    <2> HIDE DEF S
    <2>5. \A y \in S : y.ts <= r.ts
        <3>1. r.ts <= r.ts
            BY <1>2
        <3>2. QED
            BY <1>9, <2>2, <2>4, <3>1
    <2>6. RecordCovered(g, r, d, from[g], S)
        BY <1>1, <2>3, <2>4 DEF RecordCovered
    <2>7. TokenOK(t, S)
        BY <1>2, <1>4, <1>8, <2>4, <2>5, <2>6, AdvanceCovers DEF StreamInv
    <2>8. t \in Token
        BY <2>7 DEF TokenOK, TokenCovers
    <2>9. /\ ConsumerType' /\ ConsumerInv' /\ pulling' \in BOOLEAN
          /\ Given' = S /\ UNCHANGED <<base, filter>>
        <3>1. \A y \in Given : y.ts <= c.ts
            BY <1>9, <2>2
        <3>2. \A h \in Group : c.ts <= bound[h] + 1
            BY <1>4, <2>2 DEF Producing
        <3>3. QED
            BY <1>2, <1>5, <1>12, <2>2, <2>7, <2>8, <3>1, <3>2, ReturnFacts DEF S
    <2>10. QED
        BY <1>10, <2>3, <2>4, <2>5, <2>9
<1>13. QED
    BY <1>1, <1>11, <1>12

\* A record that the resume point is past changes nothing but what was released.
LEMMA PassedStream ==
    ASSUME StreamType, StreamInv, mode = "source", mode' = "source",
           NEW g \in Group, NEW r \in RecordType, Past(skip[g], r),
           UNCHANGED <<history, bound, from, scannedTs, opening, base, filter, cursor, skip>>,
           Given' = Given, released' = [released EXCEPT ![g] = @ \cup {r}], DedupOK'
    PROVE  StreamInv'
<1>1. /\ released'[g] = released[g] \cup {r}
      /\ \A h \in Group \ {g} : released'[h] = released[h]
      /\ \A h \in Group : Wanted(h)' = Wanted(h)
    BY DEF StreamType, Wanted
<1>2. \A h \in Group : \A s : ~InDecode(h, s) /\ ~InDecode(h, s)'
    BY DEF InDecode
<1>3. SourceOK'
    BY DEF StreamInv, SourceOK, BoundOK
<1>4. CursorOK'
    <2>1. CursorOK
        BY DEF StreamInv
    <2>2. Past(cursor[g], r)
        BY <2>1 DEF CursorOK
    <2>3. ASSUME NEW h \in Group
          PROVE  /\ \A s \in released'[h] : Past(cursor[h], s)
                 /\ \A s \in RecordType : Past(skip[h], s) => Past(cursor[h], s)
                 /\ \A s \in Wanted(h) \ released'[h] :
                       /\ Past(cursor[h], s) => Past(skip[h], s)
                       /\ s.stream = "data" /\ KeyOf(s) = skip[h].dataKey
                             => cursor[h] = skip[h]
        BY <1>1, <1>2, <2>1, <2>2 DEF CursorOK
    <2>4. QED
        BY <1>1, <2>3 DEF CursorOK
<1>5. StreamCovers'
    BY <1>2 DEF StreamInv, StreamCovers, RecordCovered
<1>6. StreamOrdered'
    BY <1>1 DEF StreamInv, StreamOrdered
<1>7. TokenCovers(opening, Given)'
    BY TokenSame DEF StreamInv
<1>8. QED
    BY <1>3, <1>4, <1>5, <1>6, <1>7 DEF StreamInv

\* An invalidate token made of an event's resumes where the event's does.
LEMMA InvalidateCovers ==
    ASSUME NEW t, t.kind = "event", NEW S, TokenCovers(t, S)
    PROVE  /\ TokenCovers(InvalidateToken(t), S)
           /\ InvalidateToken(t).kind = "invalidate" /\ InvalidateToken(t).ts = t.ts
<1> DEFINE i == InvalidateToken(t)
<1>1. /\ t \in Token /\ i \in Token /\ i.kind = "invalidate" /\ i.ts = t.ts
      /\ i.entries = t.entries
    BY DEF TokenCovers, Token, TokenKind, InvalidateToken
<1> HIDE DEF i
<1>2. AbsentStart(i) = AbsentStart(t)
    BY <1>1 DEF AbsentStart
<1>3. \A g \in Group : Named(i, g) <=> Named(t, g)
    BY <1>1, <1>2 DEF Named
<1>4. EntriesOf(i) = EntriesOf(t) /\ StartsOf(i) = StartsOf(t)
    BY <1>1, <1>2, <1>3 DEF EntriesOf, StartsOf
<1>5. TokenCovers(i, S)
    BY <1>1, <1>2, <1>4 DEF TokenCovers
<1>6. QED
    BY <1>1, <1>5 DEF i

\* A DDL record that was produced before the token, the stream's own drop
\* included.
LEMMA BeginOldDdlPreserves ==
    ASSUME IndInv, NEW g \in Group, NEW r \in Record[g], TakeRecord(g, r), BeginOldDdl(g, r)
    PROVE  IndInv'
<1>1. /\ r.stream = "ddl" /\ OldDdl(g, r)
      /\ \/ mode' = mode /\ pending' = pending
         \/ IsOwnDrop(g, r) /\ mode' = "pending" /\ pending' = InvalidateToken(opening)
      /\ UNCHANGED <<pulling, consumerVars, cursor, skip, dedup, current, opening>>
    BY DEF BeginOldDdl, GoOn
<1>2. /\ pulling /\ mode = "source"
      /\ r \in RecordType /\ r \in Wanted(g) \ released[g]
      /\ released' = [released EXCEPT ![g] = @ \cup {r}]
      /\ released' \in [Group -> SUBSET RecordType]
      /\ drained' = FALSE
      /\ UNCHANGED <<history, bound, floor, from, scannedTs>>
      /\ skip[g] \in Cursor /\ LaterTs(skip[g]) <= r.ts
      /\ StreamType /\ StreamInv /\ ConsumerType /\ ConsumerInv
    BY TakenFacts
<1>3. Past(skip[g], r)
    BY <1>1, <1>2, SkipTests
<1>4. Given' = Given /\ ConsumerInv' /\ UNCHANGED <<base, filter, stash, applied>>
    BY <1>1, <1>2, ConsumerSame DEF consumerVars
<1>5. ConsumerType'
    BY <1>1, <1>2 DEF ConsumerType, consumerVars
<1>6. CASE mode' = mode /\ pending' = pending
    <2>1. DedupOK'
        BY <1>1, <1>2, <1>4 DEF StreamInv, DedupOK
    <2>2. StreamInv'
        BY <1>1, <1>2, <1>3, <1>4, <1>6, <2>1, PassedStream
    <2>3. StreamType'
        BY <1>1, <1>2, <1>4, <1>6 DEF StreamType, LogTypeOK
    <2>4. QED
        BY <1>2, <1>4, <1>5, <1>6, <2>2, <2>3 DEF IndInv
<1>7. CASE IsOwnDrop(g, r) /\ mode' = "pending" /\ pending' = InvalidateToken(opening)
    <2>1. opening.kind = "event" /\ r.ts = opening.ts
        BY <1>7 DEF IsOwnDrop
    <2>2. /\ TokenCovers(pending', Given)
          /\ pending'.kind = "invalidate" /\ pending'.ts = opening.ts
        BY <1>2, <1>7, <2>1, InvalidateCovers DEF StreamInv
    <2>3. \A x \in Given : x.ts <= pending'.ts
        BY <1>2, <2>1, <2>2 DEF StreamInv, StreamOrdered
    <2>4. pending' \in Token /\ LogTypeOK /\ Given \in SUBSET Change
        BY <1>2, <2>2, GivenFacts DEF TokenCovers, StreamType
    <2>5. TokenOK(pending', Given)
        BY <2>2, <2>3, <2>4, OrderedByTs
    <2>6. TokenOK(pending, Given)'
        BY <1>2, <1>4, <2>5, TokenSame
    <2>7. StreamType'
        BY <1>1, <1>2, <1>4, <1>7, <2>4 DEF StreamType, LogTypeOK
    <2>8. QED
        BY <1>4, <1>5, <1>7, <2>2, <2>6, <2>7 DEF IndInv, EndInv
<1>8. QED
    BY <1>1, <1>6, <1>7

\* A data record that was produced before the token is remembered only.
LEMMA ConsumePreserves ==
    ASSUME IndInv, NEW g \in Group, NEW r \in Record[g], TakeRecord(g, r),
           BeginData(g, r), ProducedBefore(g, r), Consume(g, r),
           UNCHANGED <<mode, current>>
    PROVE  IndInv'
<1> DEFINE blob == Blob[g][r]
           K == {DedupKey(blob, p) : p \in Places(blob)}
<1>1. /\ r.stream = "data" /\ PassResumePoint(g, r)
      /\ dedup' \in Recorded(g, r.ts, K)
      /\ UNCHANGED <<pulling, consumerVars, cursor, opening, pending>>
    BY DEF BeginData, GoOn, Consume
<1>2. /\ pulling /\ mode = "source"
      /\ r \in RecordType /\ r.ts \in 1 .. MaxTs /\ r \in history[g]
      /\ released' = [released EXCEPT ![g] = @ \cup {r}]
      /\ released' \in [Group -> SUBSET RecordType]
      /\ drained' = FALSE
      /\ UNCHANGED <<history, bound, floor, from, scannedTs>>
      /\ skip[g] \in Cursor /\ LaterTs(skip[g]) <= r.ts /\ r.ts \in Nat
      /\ StreamType /\ StreamInv /\ ConsumerType /\ ConsumerInv
    BY TakenFacts
<1>3. Past(skip[g], r)
    BY <1>1, <1>2, SkipTests
<1>4. skip' = skip
    <2>1. LaterTs(skip[g]) = r.ts
        BY DEF ProducedBefore, Skipping
    <2>2. ~(LaterTs(skip[g]) < r.ts)
        BY <1>2, <2>1
    <2>3. skip' = [skip EXCEPT ![g] = skip[g]]
        BY <1>1, <2>2 DEF PassResumePoint
    <2>4. QED
        BY <1>2, <2>3 DEF StreamType
<1>5. Given' = Given /\ ConsumerInv' /\ UNCHANGED <<base, filter, stash, applied>>
    BY <1>1, <1>2, ConsumerSame DEF consumerVars
<1>6. ASSUME r.ts > base, "document" \notin filter, NEW k \in K
      PROVE  [ts |-> r.ts, class |-> "document", ns |-> k.ns, key |-> k.key] \in Given'
    <2>1. PICK p \in Places(blob) : k = DedupKey(blob, p)
        OBVIOUS
    <2>2. [ts |-> r.ts, class |-> "document", ns |-> k.ns, key |-> k.key]
             = DocumentChange(r.ts, blob, p)
        BY <2>1 DEF DedupKey, DocumentChange
    <2>3. Past(cursor[g], r)
        BY <1>2, <1>3 DEF StreamInv, CursorOK
    <2>4. ~InDecode(g, r)
        BY <1>2 DEF InDecode
    <2>5. RecordCovered(g, r, cursor[g], from[g], Given)
        BY <1>2, <1>6, <2>4 DEF StreamInv, StreamCovers
    <2>6. DocumentChange(r.ts, blob, p) \in Given
        BY <1>1, <1>6, <2>3, <2>5 DEF RecordCovered, Ahead
    <2>7. QED
        BY <1>5, <2>2, <2>6
<1>7. /\ DedupOK' /\ DOMAIN dedup' = Group
      /\ \A h \in Group : dedup'[h].ts \in 0 .. MaxTs
    <2>1. r.ts \in 0 .. MaxTs
        BY <1>2, BoundsAssumption
    <2>2. Given \subseteq Given' /\ UNCHANGED <<base, filter>>
        BY <1>5
    <2> HIDE DEF K
    <2>3. QED
        BY <1>1, <1>2, <1>6, <2>1, <2>2, DedupStep DEF StreamInv
<1>8. StreamInv'
    BY <1>1, <1>2, <1>3, <1>4, <1>5, <1>7, PassedStream
<1>9. ConsumerType'
    BY <1>1, <1>2 DEF ConsumerType, consumerVars
<1>10. StreamType'
    BY <1>1, <1>2, <1>4, <1>5, <1>7 DEF StreamType, LogTypeOK
<1>11. QED
    BY <1>2, <1>5, <1>8, <1>9, <1>10 DEF IndInv

\* A data record that is new, in full or from the resume point's place on.
LEMMA StartDecodePreserves ==
    ASSUME IndInv, NEW g \in Group, NEW r \in Record[g], TakeRecord(g, r),
           BeginData(g, r), ~ProducedBefore(g, r), mode' = "decode",
           NEW through, through = IF Skipping(g, r) /\ KeyOf(r) = skip[g].dataKey
                                  THEN skip[g].at ELSE NoPlace,
           current' = [group |-> g, ts |-> r.ts, key |-> KeyOf(r), at |-> NoPlace,
                       through |-> through],
           UNCHANGED dedup
    PROVE  IndInv'
<1> DEFINE blob == Blob[g][r]
<1>1. /\ r.stream = "data" /\ PassResumePoint(g, r)
      /\ UNCHANGED <<pulling, consumerVars, cursor, opening, pending>>
    BY DEF BeginData, GoOn
<1>2. /\ pulling /\ mode = "source"
      /\ r \in RecordType /\ r.ts \in 1 .. MaxTs /\ r.ts \in Nat /\ IsNext(g, r)
      /\ r \in Wanted(g) \ released[g] /\ r \in history[g]
      /\ released' = [released EXCEPT ![g] = @ \cup {r}]
      /\ released' \in [Group -> SUBSET RecordType]
      /\ drained' = FALSE
      /\ UNCHANGED <<history, bound, floor, from, scannedTs>>
      /\ skip[g] \in Cursor /\ LaterTs(skip[g]) <= r.ts
      /\ StreamType /\ StreamInv /\ ConsumerType /\ ConsumerInv
    BY TakenFacts
<1>3. Producing(g, r)
    <2>1. ~Past(skip[g], r)
        BY <1>1, <1>2, SkipTests
    <2>2. QED
        BY <1>2, <2>1, TakenProducing
<1>4. Given' = Given /\ ConsumerInv' /\ UNCHANGED <<base, filter, stash, applied>>
    BY <1>1, <1>2, ConsumerSame DEF consumerVars
<1>5. /\ cursor \in [Group -> Cursor] /\ skip \in [Group -> Cursor] /\ LogTypeOK
      /\ released \in [Group -> SUBSET RecordType]
      /\ \A h \in Group : \A s \in history[h] : s \in RecordType
    BY <1>2 DEF StreamType, LogTypeOK
<1>6. /\ released'[g] = released[g] \cup {r}
      /\ \A h \in Group \ {g} : released'[h] = released[h]
      /\ \A h \in Group : Wanted(h)' = Wanted(h)
      /\ \A h \in Group : Wanted(h) \ released'[h] \subseteq Wanted(h) \ released[h]
    BY <1>2, <1>5 DEF Wanted
<1>7. /\ \A h \in Group : skip'[h] = skip[h] \/ (h = g /\ skip'[h] = NoCursor)
      /\ skip' \in [Group -> Cursor]
    <2>1. skip' = [skip EXCEPT ![g] = IF LaterTs(skip[g]) < r.ts THEN NoCursor ELSE skip[g]]
        BY <1>1 DEF PassResumePoint
    <2>2. QED
        BY <1>5, <2>1, NoCursorFacts
<1>8. /\ current'.group = g /\ current'.ts = r.ts /\ current'.key = KeyOf(r)
      /\ current'.at = NoPlace /\ current'.through = through
    OBVIOUS
<1>9. DecodeRecord' = r
    BY <1>1, <1>2, <1>8, KeyFacts DEF DecodeRecord, RecordOf, RecordType
<1>10. \A h \in Group : \A s : InDecode(h, s)' <=> h = g /\ s = r
    BY <1>8, <1>9 DEF InDecode
<1>11. current' \in CurrentType
    <2>1. NoPlace \in Place /\ skip[g].at \in Place
        BY <1>2 DEF NoPlace, Place, Cursor
    <2>2. through \in Place
        BY <2>1
    <2>3. KeyOf(r) \in Key
        BY <1>2, KeyFacts
    <2>4. QED
        BY <1>2, <2>1, <2>2, <2>3 DEF CurrentType
<1>12. SourceOK'
    <2>1. ASSUME NEW h \in Group
          PROVE  LaterTs(skip'[h]) <= bound[h] /\ LaterTs(skip'[h]) <= from[h]
        <3>1. CASE skip'[h] = skip[h]
            BY <1>2, <3>1 DEF StreamInv, SourceOK
        <3>2. CASE skip'[h] = NoCursor
            <4>1. bound[h] \in 0 .. MaxTs /\ from[h] \in 1 .. MaxTs + 1
                BY <1>2 DEF LogTypeOK, StreamType
            <4>2. QED
                BY <3>2, <4>1, NoCursorFacts, BoundsAssumption
        <3>3. QED
            BY <1>7, <3>1, <3>2
    <2>2. QED
        BY <1>1, <1>2, <2>1 DEF StreamInv, SourceOK, BoundOK
<1>13. ASSUME NEW s \in Wanted(g) \ released'[g]
       PROVE  s \in RecordType /\ Before(r, s) /\ ~Past(cursor[g], s)
    <2>1. s \in RecordType /\ s # r /\ s \in Wanted(g) \ released[g]
        BY <1>5, <1>6 DEF Wanted
    <2>2. Before(r, s)
        BY <1>3, <2>1 DEF Producing
    <2>3. QED
        BY <1>2, <1>3, <1>5, <2>1, <2>2, PastIsPrefix, BeforeOrder DEF Producing
<1>14. CursorOK'
    <2>1. ASSUME NEW h \in Group
          PROVE  /\ \A s \in released'[h] : Past(cursor[h], s) \/ InDecode(h, s)'
                 /\ \A s \in RecordType : Past(skip'[h], s) => Past(cursor[h], s)
                 /\ \A s \in Wanted(h) \ released'[h] :
                       /\ Past(cursor[h], s) => Past(skip'[h], s)
                       /\ s.stream = "data" /\ KeyOf(s) = skip'[h].dataKey
                             => cursor[h] = skip'[h]
        <3>1. \A s \in released'[h] : Past(cursor[h], s) \/ InDecode(h, s)'
            BY <1>3, <1>6, <1>10 DEF Producing
        <3>2. CASE skip'[h] = skip[h]
            <4>1. /\ \A s \in RecordType : Past(skip[h], s) => Past(cursor[h], s)
                  /\ \A s \in Wanted(h) \ released[h] :
                        /\ Past(cursor[h], s) => Past(skip[h], s)
                        /\ s.stream = "data" /\ KeyOf(s) = skip[h].dataKey
                              => cursor[h] = skip[h]
                BY <1>2 DEF StreamInv, CursorOK
            <4>2. QED
                BY <1>6, <3>1, <3>2, <4>1
        <3>3. CASE h = g /\ skip'[h] = NoCursor
            <4>1. \A s \in RecordType : KeyOf(s) # NoKey
                BY KeyFacts DEF NoKey
            <4>2. skip'[g].dataKey = NoKey /\ \A s \in RecordType : ~Past(skip'[g], s)
                <5>1. NoCursor.dataKey = NoKey
                    BY DEF NoCursor
                <5>2. QED
                    BY <3>3, <5>1, NoCursorFacts
            <4>3. \A s \in Wanted(g) \ released'[g] :
                     ~Past(cursor[g], s) /\ KeyOf(s) # skip'[g].dataKey
                BY <1>13, <4>1, <4>2
            <4>4. QED
                BY <3>1, <3>3, <4>2, <4>3
        <3>4. QED
            BY <1>7, <3>2, <3>3
    <2>2. QED
        BY <1>1, <1>6, <2>1 DEF CursorOK
<1>15. StreamCovers'
    BY <1>1, <1>2, <1>3, <1>4, <1>10 DEF StreamCovers, RecordCovered, Producing
<1>16. StreamOrdered'
    <2>1. ASSUME NEW h \in Group, NEW s \in Wanted(h) \ released'[h], NEW x \in Given
          PROVE  x.ts <= s.ts
        <3>1. s \in Wanted(h) \ released[h] /\ s.ts \in Nat
            BY <1>5, <1>6 DEF Wanted, RecordType
        <3>2. x.ts \in Nat
            BY <1>2, ChangeFacts, GivenFacts
        <3>3. r.ts <= s.ts /\ x.ts <= r.ts
            BY <1>3, <3>1 DEF Producing
        <3>4. QED
            BY <1>2, <3>1, <3>2, <3>3
    <2>2. QED
        BY <1>4, <1>6, <2>1 DEF StreamOrdered
<1>17. StreamInv'
    <2>1. DedupOK'
        BY <1>2, <1>4 DEF StreamInv, DedupOK
    <2>2. TokenCovers(opening, Given)'
        BY <1>1, <1>2, <1>4, TokenSame DEF StreamInv
    <2>3. QED
        BY <1>12, <1>14, <1>15, <1>16, <2>1, <2>2 DEF StreamInv
\* Up to the resume point's place, the changes were given.
<1>18. ASSUME r.ts > base, NEW p \in Places(blob),
              ~PlaceLess(NoPlace, p) \/ ~PlaceLess(through, p)
       PROVE  "document" \in filter \/ DocumentChange(r.ts, blob, p) \in Given
    <2>1. PlaceLess(NoPlace, p)
        BY <1>1, PlaceFacts
    <2>2. /\ Skipping(g, r) /\ KeyOf(r) = skip[g].dataKey
          /\ ~PlaceLess(skip[g].at, p)
        BY <1>18, <2>1
    <2>3. skip[g].partial
        BY <2>2 DEF ProducedBefore
    <2>4. cursor[g] = skip[g]
        BY <1>1, <1>2, <2>2 DEF StreamInv, CursorOK
    <2>5. Inside(cursor[g], r)
        BY <1>1, <2>2, <2>3, <2>4 DEF Inside
    <2>6. ~InDecode(g, r)
        BY <1>2 DEF InDecode
    <2>7. RecordCovered(g, r, cursor[g], from[g], Given)
        BY <1>2, <1>18, <2>6 DEF StreamInv, StreamCovers
    <2>8. QED
        BY <1>1, <2>2, <2>4, <2>5, <2>7 DEF RecordCovered
<1>19. DecodeOK'
    <2>1. /\ r \in history[g] \cap released'[g]
          /\ from[g] <= r.ts /\ r.ts <= bound[g] /\ ~Past(cursor[g], r)
          /\ \A x \in Given : x.ts <= r.ts
        BY <1>3, <1>6 DEF Producing
    <2>2. \A h \in Group :
             /\ r.ts <= bound[h] + 1
             /\ \A s \in Wanted(h) \ released'[h] : r.ts <= s.ts
        BY <1>3, <1>6 DEF Producing
    <2>3. \A s \in Wanted(g) \ released'[g] : Before(r, s)
        BY <1>13
    <2>4. QED
        BY <1>1, <1>2, <1>4, <1>6, <1>8, <1>9, <1>18, <2>1, <2>2, <2>3 DEF DecodeOK
<1>20. StreamType'
    BY <1>1, <1>2, <1>4, <1>7, <1>11 DEF StreamType, LogTypeOK
<1>21. ConsumerType'
    BY <1>1, <1>2 DEF ConsumerType, consumerVars
<1>22. QED
    BY <1>4, <1>17, <1>19, <1>20, <1>21 DEF IndInv

\* Whatever record the source releases.
LEMMA TakeRecordPreserves ==
    ASSUME IndInv, NEW g \in Group, NEW r \in Record[g], TakeRecord(g, r)
    PROVE  IndInv'
<1>1. CASE BeginData(g, r)
    <2>1. CASE ProducedBefore(g, r) /\ Consume(g, r) /\ UNCHANGED <<mode, current>>
        BY <1>1, <2>1, ConsumePreserves
    <2>2. CASE ~(ProducedBefore(g, r) /\ Consume(g, r) /\ UNCHANGED <<mode, current>>)
        BY <1>1, <2>2, StartDecodePreserves DEF BeginData
    <2>3. QED
        BY <2>1, <2>2
<1>2. CASE BeginOldDdl(g, r)
    BY <1>2, BeginOldDdlPreserves
<1>3. CASE BeginDdl(g, r)
    BY <1>3, BeginDdlPreserves
<1>4. QED
    BY <1>1, <1>2, <1>3 DEF TakeRecord

-----------------------------------------------------------------------------
(***************************************************************************)
(* The theorems.                                                           *)
(***************************************************************************)

\* No stream is open at first.
LEMMA InitInv ==
    Init => IndInv
<1> SUFFICES ASSUME Init PROVE IndInv
    OBVIOUS
<1>1. NoToken \in Token
    BY BoundsAssumption, NoCursorFacts DEF NoToken, Token, TokenKind
<1>2. LogTypeOK /\ \A g \in Group : history[g] \subseteq Record[g]
    BY RecordAssumption, BoundsAssumption DEF Init, LogInit, LogTypeOK
<1>3. /\ from \in [Group -> 1 .. MaxTs + 1]
      /\ scannedTs \in [Group -> 0 .. MaxTs]
      /\ released \in [Group -> SUBSET RecordType]
      /\ drained = FALSE
    BY StartAssumption, BoundsAssumption DEF Init, SourceInit
<1>4. StreamType
    <2>1. cursor \in [Group -> Cursor] /\ skip \in [Group -> Cursor]
        BY NoCursorFacts DEF Init
    <2>2. DOMAIN dedup = Group /\ \A g \in Group : dedup[g].ts \in 0 .. MaxTs
        BY BoundsAssumption DEF Init
    <2>3. QED
        BY <1>1, <1>2, <1>3, <2>1, <2>2 DEF Init, StreamType
<1>5. ConsumerType
    <2>1. <<>> \in Seq(Change) /\ Len(<<>>) = 0
        OBVIOUS
    <2>2. QED
        BY <1>1, <2>1, BoundsAssumption, MaxResumesAssumption DEF Init, ConsumerType
<1>6. QED
    BY <1>4, <1>5 DEF Init, IndInv

\* Every step keeps the invariant.
LEMMA NextPreserves ==
    IndInv /\ [Next]_vars => IndInv'
<1> SUFFICES ASSUME IndInv, [Next]_vars PROVE IndInv'
    OBVIOUS
<1>1. CASE LogNext /\ UNCHANGED <<sourceVars, streamVars, consumerVars>>
    BY <1>1, LogPreserves
<1>2. ASSUME NEW g \in Group, mode # "closed", Fetch(g), UNCHANGED <<streamVars, consumerVars>>
      PROVE  IndInv'
    BY <1>2, FetchPreserves
<1>3. ASSUME NEW s \in 1 .. MaxTs, OpenFresh(s)
      PROVE  IndInv'
    BY <1>3, OpenFreshPreserves
<1>4. CASE Resume
    BY <1>4, ResumePreserves
<1>5. CASE Save
    BY <1>5, SavePreserves
<1>6. CASE Pull
    <2>1. CASE BeginPull
        BY <2>1, BeginPullPreserves
    <2>2. ASSUME NEW g \in Group, NEW r \in Record[g], TakeRecord(g, r)
          PROVE  IndInv'
        BY <2>2, TakeRecordPreserves
    <2>3. CASE Decoding
        BY <2>3, DecodeEntryPreserves, DecodeEndPreserves DEF Decoding
    <2>4. CASE ReturnInvalidate
        BY <2>4, ReturnInvalidatePreserves
    <2>5. CASE ReturnNone
        BY <2>5, ReturnNonePreserves
    <2>6. CASE ReturnEnded
        BY <2>6, ReturnEndedPreserves
    <2>7. CASE ReturnStash
        BY <2>7, ReturnStashPreserves
    <2>8. QED
        BY <1>6, <2>1, <2>2, <2>3, <2>4, <2>5, <2>6, <2>7 DEF Pull
<1>7. CASE UNCHANGED vars
    <2>1. UNCHANGED <<history, bound, floor, from, scannedTs, released, drained, mode, pulling,
                      cursor, skip, dedup, current, opening, pending, consumerVars>>
        BY <1>7 DEF vars, orderedVars, logVars, sourceVars, streamVars
    <2>2. UNCHANGED <<filter, stash, token, base, applied, saved, resumes>>
        BY <2>1 DEF consumerVars
    <2>3. Given' = Given /\ (ConsumerInv => ConsumerInv')
        BY <2>1, ConsumerSame
    <2>4. StreamType'
        BY <2>1, <2>2 DEF IndInv, StreamType, LogTypeOK
    <2>5. ConsumerType'
        BY <2>1, <2>2 DEF IndInv, ConsumerType
    <2>6. SourceOK => \A g \in Group : from[g] <= scannedTs'[g] + 1 /\ scannedTs'[g] <= bound[g]
        BY <2>1 DEF SourceOK
    <2>7. StreamInv => StreamInv'
        BY <2>1, <2>2, <2>3, <2>6, StreamSame DEF StreamInv
    <2>8. DecodeOK => DecodeOK'
        BY <2>1, <2>2, <2>3 DEF DecodeOK, DecodeRecord, Wanted
    <2>9. EndInv => EndInv'
        BY <2>1, <2>2, <2>3, TokenSame DEF EndInv
    <2>10. QED
        BY <2>1, <2>3, <2>4, <2>5, <2>7, <2>8, <2>9 DEF IndInv
<1>8. QED
    BY <1>1, <1>2, <1>3, <1>4, <1>5, <1>6, <1>7 DEF Next

\* The invariant holds of every state of a stream, whatever its consumer, its
\* pipeline and the log do.
THEOREM Invariance == Spec => []IndInv
BY InitInv, NextPreserves, PTL DEF Spec

\* CdcEventStream's variables keep their types.
THEOREM TypeCorrect == Spec => []TypeOK
<1>1. IndInv => TypeOK
    <2> SUFFICES ASSUME IndInv PROVE TypeOK
        OBVIOUS
    <2>1. StreamType /\ ConsumerType
        BY DEF IndInv
    <2>2. \A i \in DOMAIN stash : i = 1 /\ ~pulling /\ stash[i].token \in Token
        <3>1. CASE stash = <<>>
            BY <3>1
        <3>2. CASE stash # <<>>
            <4>1. /\ ~pulling /\ stash = <<stash[1]>>
                  /\ stash[1] \in [change : Change, token : Token]
                BY <2>1, <3>2 DEF ConsumerType
            <4>2. DOMAIN stash = {1}
                BY <4>1
            <4>3. QED
                BY <4>1, <4>2
        <3>3. QED
            BY <3>1, <3>2
    <2>3. mode = "decode" => current.group \in Group /\ current.ts \in 1 .. MaxTs
        BY <2>1 DEF StreamType, CurrentType
    <2>4. saved.n \in 0 .. Len(applied) /\ saved.token \in Token
        <3>1. Len(applied) \in Nat
            BY <2>1 DEF ConsumerType
        <3>2. QED
            BY <2>1, <3>1 DEF ConsumerType
    <2>5. QED
        BY <2>1, <2>2, <2>3, <2>4 DEF TypeOK, StreamType, ConsumerType
<1>2. QED
    BY <1>1, Invariance, PTL

\* Events are applied in timestamp order, across any number of failures and
\* resumes, filters, stashed events and late pages.
THEOREM AppliedInOrder == Spec => []InTimestampOrder
<1>1. IndInv => InTimestampOrder
    <2>1. ASSUME IndInv, mode = "closed"
          PROVE  InTimestampOrder
        <3>1. applied = <<>>
            BY <2>1 DEF IndInv, StreamType
        <3>2. QED
            BY <3>1 DEF InTimestampOrder
    <2>2. ASSUME IndInv, mode # "closed"
          PROVE  InTimestampOrder
        BY <2>2 DEF IndInv, ConsumerInv
    <2>3. QED
        BY <2>1, <2>2
<1>2. QED
    BY <1>1, Invariance, PTL

\* A change that is due was applied, or is in a record ahead of the token.
LEMMA DueIsAhead ==
    ASSUME IndInv, mode # "closed", NEW c \in Due
    PROVE  \/ c \in Applied
           \/ \E g \in Group : \E r \in history[g] :
                 c.ts = r.ts /\ Ahead(EntriesOf(token)[g], StartsOf(token)[g], r)
<1>0. PICK g \in Group : \E r \in history[g] : r.ts > base /\ c \in Changes(g, r)
    BY DEF Due
<1>1. PICK r \in history[g] : r.ts > base /\ c \in Changes(g, r)
    BY <1>0
<1>2. c.class \notin filter
    BY DEF Due
<1>3. r \in Record[g] /\ r \in RecordType
    BY ChangeFacts DEF IndInv, StreamType
<1>4. c.ts = r.ts
    BY <1>1, <1>3, ChangeFacts
<1>5. RecordCovered(g, r, EntriesOf(token)[g], StartsOf(token)[g], Applied)
    BY <1>1 DEF IndInv, ConsumerInv, TokenOK, TokenCovers, Covered
<1>6. CASE r.stream = "data"
    <2>1. PICK p \in Places(Blob[g][r]) : c = DocumentChange(r.ts, Blob[g][r], p)
        BY <1>1, <1>6 DEF Changes
    <2>2. c.class = "document"
        BY <2>1 DEF DocumentChange
    <2>3. QED
        BY <1>2, <1>4, <1>5, <1>6, <2>1, <2>2 DEF RecordCovered
<1>7. CASE r.stream = "ddl"
    <2>1. c \in Reported(r.ts, SchemaOp[g][r])
        BY <1>1, <1>7 DEF Changes
    <2>2. QED
        BY <1>2, <1>4, <1>5, <1>7, <2>1 DEF RecordCovered
<1>8. QED
    BY <1>3, <1>6, <1>7, KeyFacts

\* Once a change has been applied, no older change of the scope is missing,
\* however the stream was interrupted and from whichever token it was resumed.
THEOREM NothingIsSkipped == Spec => []NothingSkipped
<1>1. ASSUME IndInv, NEW i \in DOMAIN applied, NEW c \in Due, c.ts < applied[i].ts
      PROVE  c \in Applied
    <2>1. mode # "closed"
        BY <1>1 DEF IndInv, StreamType
    <2>2. SUFFICES ASSUME c \notin Applied PROVE FALSE
        OBVIOUS
    <2>0. PICK g \in Group : \E r \in history[g] :
             c.ts = r.ts /\ Ahead(EntriesOf(token)[g], StartsOf(token)[g], r)
        BY <1>1, <2>1, <2>2, DueIsAhead
    <2>3. PICK r \in history[g] :
             c.ts = r.ts /\ Ahead(EntriesOf(token)[g], StartsOf(token)[g], r)
        BY <2>0
    <2>4. applied[i] \in Applied
        BY DEF Applied
    <2>5. applied[i].ts <= r.ts
        BY <1>1, <2>1, <2>3, <2>4 DEF IndInv, ConsumerInv, TokenOK, Ordered
    <2>6. applied[i].ts \in Nat /\ r.ts \in Nat
        <3>1. ConsumerType /\ LogTypeOK
            BY <1>1 DEF IndInv, StreamType
        <3>2. applied[i] \in Change
            BY <2>4, <3>1, GivenFacts
        <3>3. r \in RecordType
            BY <3>1 DEF LogTypeOK
        <3>4. QED
            BY <3>2, <3>3, ChangeFacts, KeyFacts
    <2>7. QED
        BY <1>1, <2>3, <2>5, <2>6
<1>2. IndInv => NothingSkipped
    BY <1>1 DEF NothingSkipped
<1>3. QED
    BY <1>2, Invariance, PTL

\* The consumer that holds a watermark token has applied everything of the scope
\* at or below its timestamp.
THEOREM WatermarkIsSound == Spec => []WatermarkCovers
<1>1. ASSUME IndInv, mode # "closed", token.kind = "watermark",
             NEW c \in Due, c.ts <= token.ts
      PROVE  c \in Applied
    <2>1. SUFFICES ASSUME c \notin Applied PROVE FALSE
        OBVIOUS
    <2>0. PICK g \in Group : \E r \in history[g] :
             c.ts = r.ts /\ Ahead(EntriesOf(token)[g], StartsOf(token)[g], r)
        BY <1>1, <2>1, DueIsAhead
    <2>2. PICK r \in history[g] :
             c.ts = r.ts /\ Ahead(EntriesOf(token)[g], StartsOf(token)[g], r)
        BY <2>0
    <2>3. token \in Token /\ LogTypeOK
        BY <1>1 DEF IndInv, StreamType, ConsumerType
    <2>4. r.ts \in Nat /\ token.ts \in Nat
        BY <2>3, BoundsAssumption DEF LogTypeOK, RecordType, Token
    <2>5. token.ts + 1 <= StartsOf(token)[g] /\ StartsOf(token)[g] \in Nat
        BY <1>1, <2>3, StartsAbove, BoundsAssumption DEF AbsentStart
    <2>6. StartsOf(token)[g] <= r.ts
        BY <2>2 DEF Ahead
    <2>7. QED
        BY <1>1, <2>2, <2>4, <2>5, <2>6
<1>2. IndInv => WatermarkCovers
    BY <1>1 DEF WatermarkCovers
<1>3. QED
    BY <1>2, Invariance, PTL


-----------------------------------------------------------------------------
(***************************************************************************)
(* The end of a collection stream.                                         *)
(***************************************************************************)

IsDrop(g, r) == r.stream = "ddl" /\ DropsWatchedCollection(SchemaOp[g][r])

\* The cursors are past a drop of the watched collection at ts.
PastDrop(c, ts) ==
    \E g \in Group : \E r \in Record[g] : IsDrop(g, r) /\ r.ts = ts /\ Past(c[g], r)

TokenPastDrop(t) == t.kind = "invalidate" => PastDrop(EntriesOf(t), t.ts)

\* Every invalidate token is past its drop, and so is the stream that was opened
\* from one; what the stream ends with is a later drop, and the consumer has its
\* token or will have it with the next reply.
EndsOnce ==
    /\ TokenPastDrop(token)
    /\ TokenPastDrop(saved.token)
    /\ TokenPastDrop(pending)
    /\ \A i \in DOMAIN stash : TokenPastDrop(stash[i].token)
    /\ mode # "closed" =>
          /\ \A g \in Group : AbsentStart(opening) <= from[g]
          /\ opening.kind = "invalidate" => PastDrop(cursor, opening.ts)
    /\ mode \in {"pending", "ended"} /\ opening.kind = "invalidate"
          => opening.ts < pending.ts
    /\ mode = "ended" /\ ~pulling =>
          IF stash = <<>> THEN token.kind = "invalidate"
                          ELSE stash[1].token.kind = "invalidate"

\* What the reply and the event set aside get from the stream.
LEMMA ReturnTokens ==
    ASSUME NEW c, NEW t, Return(c, t)
    PROVE  /\ saved' = saved
           /\ token' = token \/ token' = t
           /\ stash' = stash \/ stash' = <<[change |-> c, token |-> t]>>
BY DEF Return, GoOn, consumerVars, PutInReply, SetAside

\* The stream goes on: no new invalidate token comes about.
LEMMA GoesOn ==
    ASSUME EndsOnce, mode \in {"source", "decode"}, mode' \in {"source", "decode"},
           UNCHANGED <<from, opening, pending, saved>>,
           \A g \in Group : \A s \in RecordType : Past(cursor[g], s) => Past(cursor'[g], s),
           token' = token \/ token'.kind # "invalidate",
           \/ stash' = stash
           \/ \E e : stash' = <<e>> /\ e.token.kind # "invalidate"
    PROVE  EndsOnce'
<1>1. TokenPastDrop(token') /\ TokenPastDrop(saved'.token) /\ TokenPastDrop(pending')
    BY DEF EndsOnce, TokenPastDrop
<1>2. \A i \in DOMAIN stash' : TokenPastDrop(stash'[i].token)
    BY DEF EndsOnce, TokenPastDrop
<1>3. opening.kind = "invalidate" => PastDrop(cursor', opening.ts)
    BY ChangeFacts DEF EndsOnce, PastDrop
<1>4. QED
    BY <1>1, <1>2, <1>3 DEF EndsOnce, TokenPastDrop, PastDrop

\* The log, the pages and the consumer's own steps.
LEMMA EndsOnceBetween ==
    ASSUME IndInv, EndsOnce,
           \/ UNCHANGED <<from, mode, pulling, cursor, opening, pending, token, saved, stash>>
           \/ Save \/ BeginPull \/ ReturnStash
    PROVE  EndsOnce'
<1>1. CASE UNCHANGED <<from, mode, pulling, cursor, opening, pending, token, saved, stash>>
    BY <1>1 DEF EndsOnce, TokenPastDrop, PastDrop
<1>2. CASE Save
    <2>1. /\ saved'.token = token
          /\ UNCHANGED <<from, mode, pulling, cursor, opening, pending, token, stash>>
        BY <1>2 DEF Save, orderedVars, sourceVars, streamVars
    <2>2. QED
        BY <2>1 DEF EndsOnce, TokenPastDrop, PastDrop
<1>3. CASE BeginPull
    <2>1. /\ pulling' = TRUE
          /\ UNCHANGED <<from, mode, cursor, opening, pending, token, saved, stash>>
        BY <1>3 DEF BeginPull, StartPull, consumerVars
    <2>2. QED
        BY <2>1 DEF EndsOnce, TokenPastDrop, PastDrop
<1>4. CASE ReturnStash
    <2>1. PICK i \in DOMAIN stash : token' = stash[i].token
        BY <1>4 DEF ReturnStash, PutInReply
    <2>2. /\ stash' = <<>> /\ ~pulling
          /\ UNCHANGED <<from, mode, pulling, cursor, opening, pending, saved>>
        BY <1>4 DEF ReturnStash, orderedVars, sourceVars, streamVars
    <2>3. i = 1 /\ stash # <<>>
        <3>1. stash = <<>> \/ stash = <<stash[1]>>
            BY DEF IndInv, ConsumerType
        <3>2. QED
            BY <2>1, <3>1
    <2>4. TokenPastDrop(token') /\ (mode = "ended" => token'.kind = "invalidate")
        BY <2>1, <2>2, <2>3 DEF EndsOnce
    <2>5. QED
        BY <2>2, <2>4 DEF EndsOnce, TokenPastDrop, PastDrop
<1>5. QED
    BY <1>1, <1>2, <1>3, <1>4

\* A new stream is past the drop that its token is past.
LEMMA EndsOnceOpened ==
    ASSUME IndInv, EndsOnce, Resume \/ \E s \in 1 .. MaxTs : OpenFresh(s)
    PROVE  EndsOnce'
<1>1. CASE Resume
    <2> DEFINE t == saved.token
    <2>1. /\ from' = StartsOf(t) /\ cursor' = EntriesOf(t) /\ mode' = "source"
          /\ opening' = t /\ pending' = NoToken /\ stash' = <<>> /\ token' = t
          /\ saved' = saved
        <3>1. EntriesOf(t) = [g \in Group |-> IF Named(t, g) THEN t.entries[g] ELSE NoCursor]
            BY DEF EntriesOf
        <3>2. StartsOf(t) = [g \in Group |-> IF Named(t, g) THEN LaterTs(EntriesOf(t)[g])
                                                            ELSE AbsentStart(t)]
            BY DEF StartsOf, EntriesOf
        <3>3. QED
            BY <1>1, <3>1, <3>2 DEF Resume, Opened
    <2>2. t \in Token
        BY DEF IndInv, ConsumerType
    <2>3. \A g \in Group : AbsentStart(t) <= StartsOf(t)[g]
        BY <2>2, StartsAbove
    <2>4. TokenPastDrop(t) /\ TokenPastDrop(NoToken)
        BY DEF EndsOnce, TokenPastDrop, NoToken
    <2>5. QED
        BY <2>1, <2>3, <2>4 DEF EndsOnce, TokenPastDrop, PastDrop
<1>2. ASSUME NEW s \in 1 .. MaxTs, OpenFresh(s)
      PROVE  EndsOnce'
    <2> DEFINE t == [NoToken EXCEPT !.ts = s]
    <2>1. /\ from' = [g \in Group |-> s + 1] /\ mode' = "source"
          /\ opening' = t /\ pending' = NoToken /\ stash' = <<>> /\ token' = t
          /\ saved' = [token |-> t, n |-> 0]
        BY <1>2 DEF OpenFresh, Opened
    <2>2. t.kind = "watermark" /\ t.ts = s /\ NoToken.kind = "watermark"
        BY DEF NoToken
    <2>3. \A g \in Group : AbsentStart(t) <= from'[g]
        BY <2>1, <2>2, BoundsAssumption DEF AbsentStart
    <2> HIDE DEF t
    <2>4. QED
        BY <2>1, <2>2, <2>3 DEF EndsOnce, TokenPastDrop
<1>3. QED
    BY <1>1, <1>2

\* The invalidate event, and the replies without an event.
LEMMA EndsOnceReply ==
    ASSUME IndInv, EndsOnce, ReturnInvalidate \/ ReturnNone \/ ReturnEnded
    PROVE  EndsOnce'
<1>1. CASE ReturnInvalidate
    <2> DEFINE c == [ts |-> pending.ts, class |-> "invalidate",
                     ns |-> [db |-> Scope.db, coll |-> Scope.coll], key |-> 0]
    <2>1. /\ mode = "pending" /\ mode' = "ended" /\ Return(c, pending) /\ pulling
          /\ UNCHANGED <<from, cursor, opening, pending>>
        BY <1>1 DEF ReturnInvalidate, orderedVars, sourceVars
    <2>2. pending.kind = "invalidate" /\ stash = <<>>
        BY <2>1 DEF IndInv, EndInv, ConsumerType
    <2>3. \/ pulling' = pulling /\ UNCHANGED <<token, stash, saved>>
          \/ token' = pending /\ stash' = stash /\ saved' = saved
          \/ stash' = <<[change |-> c, token |-> pending]>> /\ UNCHANGED <<token, saved>>
        BY <2>1 DEF Return, GoOn, consumerVars, PutInReply, SetAside
    <2> HIDE DEF c
    <2>4. TokenPastDrop(pending)
        BY DEF EndsOnce
    <2>5. CASE pulling' = pulling /\ UNCHANGED <<token, stash, saved>>
        BY <2>1, <2>5 DEF EndsOnce, TokenPastDrop, PastDrop
    <2>6. CASE token' = pending /\ stash' = stash /\ saved' = saved
        BY <2>1, <2>2, <2>4, <2>6 DEF EndsOnce, TokenPastDrop, PastDrop
    <2>7. CASE stash' = <<[change |-> c, token |-> pending]>> /\ UNCHANGED <<token, saved>>
        <3>1. DOMAIN stash' = {1} /\ stash'[1].token = pending /\ stash' # <<>>
            BY <2>7
        <3>2. QED
            BY <2>1, <2>2, <2>4, <2>7, <3>1 DEF EndsOnce, TokenPastDrop, PastDrop
    <2>8. QED
        BY <2>3, <2>5, <2>6, <2>7
<1>2. CASE ReturnNone
    <2>1. mode = "source" /\ UNCHANGED <<mode, from, cursor, opening, pending, stash, saved>>
        BY <1>2 DEF ReturnNone, Drain
    <2>2. token'.kind = "watermark"
        BY <1>2 DEF ReturnNone, WatermarkToken
    <2>3. QED
        BY <2>1, <2>2, GoesOn
<1>3. CASE ReturnEnded
    <2>1. /\ mode = "ended" /\ pulling /\ token' = pending
          /\ UNCHANGED <<mode, from, cursor, opening, pending, stash, saved>>
        BY <1>3 DEF ReturnEnded, orderedVars, sourceVars
    <2>2. pending.kind = "invalidate" /\ stash = <<>>
        BY <2>1 DEF IndInv, EndInv, ConsumerType
    <2>3. QED
        BY <2>1, <2>2 DEF EndsOnce, TokenPastDrop, PastDrop
<1>4. QED
    BY <1>1, <1>2, <1>3

\* The decoder.
LEMMA EndsOnceDecoding ==
    ASSUME IndInv, EndsOnce, DecodeEnd \/ \E p : DecodeEntry(p)
    PROVE  EndsOnce'
<1> DEFINE g == current.group
           r == DecodeRecord
<1>1. mode = "decode"
    BY DEF DecodeEnd, DecodeEntry
<1>2. /\ Producing(g, r) /\ g \in Group /\ r \in RecordType /\ r \in Record[g]
      /\ r.stream = "data" /\ r.ts = current.ts /\ current.key = KeyOf(r)
      /\ ~Past(cursor[g], r)
    BY <1>1, DecodeProducing DEF Producing
<1>3. cursor \in [Group -> Cursor]
    BY DEF IndInv, StreamType
<1>4. CASE DecodeEnd
    <2> DEFINE d == Finished(cursor[g], current.key)
    <2>1. /\ cursor' = [cursor EXCEPT ![g] = d] /\ mode' = "source"
          /\ UNCHANGED <<from, opening, pending, saved, token, stash>>
        BY <1>4 DEF DecodeEnd, Finished, GoOn, consumerVars, orderedVars, sourceVars
    <2>2. d \in Cursor /\ PastUpTo(d, r)
        BY <1>2, <1>3, FinishedFacts
    <2> HIDE DEF d
    <2>3. \A s \in RecordType : Past(cursor[g], s) => Past(d, s)
        BY <1>2, <1>3, <2>2, PastIsPrefix DEF PastUpTo
    <2>4. \A h \in Group : \A s \in RecordType : Past(cursor[h], s) => Past(cursor'[h], s)
        BY <1>3, <2>1, <2>3
    <2>5. QED
        BY <1>1, <2>1, <2>4, GoesOn
<1>5. ASSUME NEW p, DecodeEntry(p)
      PROVE  EndsOnce'
    <2> DEFINE d == Within(cursor[g], current.key, p)
               cur == [cursor EXCEPT ![g] = d]
               x == DocumentChange(current.ts, Blob[g][r], p)
               t == EventToken(current.ts, cur)
    <2>1. /\ mode' = mode /\ UNCHANGED <<from, opening, pending>> /\ IsNextPlace(p)
          /\ \/ cursor' = cursor /\ GoOn
             \/ cursor' = cur /\ Return(x, t)
        BY <1>5 DEF DecodeEntry, Within, DecodeRecord, orderedVars, sourceVars
    <2>2. p \in Place
        BY <1>2, <2>1, PlaceFacts DEF IsNextPlace, PlacesLeft, DecodeRecord
    <2>3. d \in Cursor /\ PastBefore(d, r)
        BY <1>2, <1>3, <2>2, WithinFacts
    <2> HIDE DEF d
    <2>4. \A s \in RecordType : Past(cursor[g], s) => Past(d, s)
        BY <1>2, <1>3, <2>3, PastIsPrefix DEF PastBefore
    <2>5. CASE cursor' = cursor /\ GoOn
        BY <1>1, <2>1, <2>5, GoesOn DEF GoOn, consumerVars
    <2>6. CASE cursor' = cur /\ Return(x, t)
        <3>1. \A h \in Group : \A s \in RecordType : Past(cursor[h], s) => Past(cursor'[h], s)
            BY <1>3, <2>4, <2>6
        <3>2. t.kind = "event"
            BY DEF EventToken
        <3> HIDE DEF t, x, cur
        <3>3. /\ saved' = saved
              /\ token' = token \/ token'.kind # "invalidate"
              /\ stash' = stash \/ stash' = <<[change |-> x, token |-> t]>>
            BY <2>6, <3>2, ReturnTokens
        <3>4. stash' = stash \/ \E e : stash' = <<e>> /\ e.token.kind # "invalidate"
            BY <3>2, <3>3
        <3>5. QED
            BY <1>1, <2>1, <3>1, <3>3, <3>4, GoesOn
    <2>7. QED
        BY <2>1, <2>5, <2>6
<1>6. QED
    BY <1>4, <1>5

\* A record that the source releases: an invalidate token comes about with a drop
\* that the stream has not been past, or with the drop whose token it was opened
\* from.
LEMMA EndsOnceTaken ==
    ASSUME IndInv, EndsOnce, NEW g \in Group, NEW r \in Record[g], TakeRecord(g, r)
    PROVE  EndsOnce'
<1>1. /\ pulling /\ mode = "source" /\ stash = <<>>
      /\ r \in RecordType /\ r.ts \in 1 .. MaxTs /\ r.ts \in Nat
      /\ IsNext(g, r) /\ r \in history[g]
      /\ UNCHANGED <<history, bound, from>>
      /\ skip[g] \in Cursor /\ LaterTs(skip[g]) <= r.ts
      /\ from[g] <= r.ts /\ from[g] \in Nat
      /\ StreamType
    BY TakenFacts
<1>2. cursor \in [Group -> Cursor] /\ opening \in Token
    BY <1>1 DEF StreamType
<1>3. CASE BeginData(g, r)
    <2>1. /\ UNCHANGED <<cursor, opening, pending, consumerVars>>
          /\ mode' \in {"source", "decode"}
        BY <1>1, <1>3 DEF BeginData, GoOn
    <2>2. QED
        BY <1>1, <2>1, GoesOn DEF consumerVars
<1>4. CASE BeginOldDdl(g, r)
    <2>1. UNCHANGED <<cursor, opening, token, saved, stash>>
        BY <1>4 DEF BeginOldDdl, GoOn, consumerVars
    <2>2. CASE UNCHANGED <<mode, pending>>
        BY <1>1, <2>1, <2>2, GoesOn
    <2>3. CASE ~(UNCHANGED <<mode, pending>>)
        <3>1. /\ IsOwnDrop(g, r) /\ IsDrop(g, r)
              /\ mode' = "pending" /\ pending' = InvalidateToken(opening)
            BY <1>4, <2>3 DEF BeginOldDdl, IsDrop
        <3> DEFINE c == opening.entries[g]
        <3>2. opening.kind = "event" /\ c.ddlKey = KeyOf(r) /\ r.ts = opening.ts
            BY <3>1 DEF IsOwnDrop
        <3>3. /\ pending'.kind = "invalidate" /\ pending'.ts = r.ts
              /\ pending'.entries = opening.entries
            BY <1>2, <3>1, <3>2 DEF InvalidateToken, Token
        <3>4. c \in Cursor
            BY <1>2 DEF Token
        <3> HIDE DEF c
        <3>5. KeyOf(r).ts = r.ts /\ LaterTs(c) \in Nat /\ r.ts <= LaterTs(c)
            BY <1>1, <3>2, <3>4, LaterTsFacts, KeyFacts, BoundsAssumption
        <3>6. ~KeyLess(KeyOf(r), KeyOf(r))
            BY <1>1, KeyFacts DEF KeyLess
        <3>7. Past(c, r)
            BY <1>1, <3>1, <3>2, <3>5, <3>6 DEF Past, IsDrop
        <3>8. EntriesOf(pending')[g] = c
            BY <3>3, <3>5 DEF EntriesOf, Named, AbsentStart, c
        <3>9. TokenPastDrop(pending')
            BY <3>1, <3>3, <3>7, <3>8 DEF TokenPastDrop, PastDrop
        <3>10. QED
            BY <1>1, <2>1, <3>1, <3>2, <3>9 DEF EndsOnce, TokenPastDrop, PastDrop
    <2>4. QED
        BY <2>2, <2>3
<1>5. CASE BeginDdl(g, r)
    <2> DEFINE op == SchemaOp[g][r]
               d == DdlFinished(cursor[g], KeyOf(r))
               cur == [cursor EXCEPT ![g] = d]
               t == EventToken(r.ts, cur)
    <2>1. /\ r.stream = "ddl" /\ ~OldDdl(g, r) /\ cursor' = cur
          /\ GoOn \/ \E c \in Reported(r.ts, op) : Return(c, t)
          /\ \/ IsDrop(g, r) /\ mode' = "pending" /\ pending' = InvalidateToken(t)
             \/ mode' = mode /\ pending' = pending
          /\ opening' = opening
        <3>1. cur = [cursor EXCEPT ![g].ddlKey = KeyOf(r)]
            BY DEF DdlFinished
        <3>2. QED
            BY <1>5, <3>1 DEF BeginDdl, IsDrop
    <2>2. Producing(g, r)
        <3>1. ~Past(skip[g], r)
            BY <1>1, <2>1, SkipTests
        <3>2. QED
            BY <1>1, <3>1, TakenProducing
    <2>3. d \in Cursor /\ LaterTs(d) = r.ts /\ PastUpTo(d, r) /\ ~Past(cursor[g], r)
        BY <1>1, <1>2, <2>1, <2>2, DdlFinishedFacts DEF Producing
    <2> HIDE DEF d
    <2>4. /\ \A h \in Group : \A s \in RecordType : Past(cursor[h], s) => Past(cur[h], s)
          /\ Past(d, r) /\ cur[g] = d /\ cur \in [Group -> Cursor]
        <3>1. \A s \in RecordType : Past(cursor[g], s) => Past(d, s)
            BY <1>1, <1>2, <2>3, PastIsPrefix DEF PastUpTo
        <3>2. QED
            BY <1>1, <1>2, <2>3, <3>1 DEF PastUpTo
    <2>5. t.kind = "event" /\ t.ts = r.ts /\ t.entries = Entries(cur, r.ts - 1)
        BY DEF EventToken
    <2> HIDE DEF cur, t
    <2>6. /\ saved' = saved
          /\ token' = token \/ token'.kind # "invalidate"
          /\ stash' = stash \/ \E e : stash' = <<e>> /\ e.token.kind # "invalidate"
        <3>1. CASE GoOn
            BY <3>1 DEF GoOn, consumerVars
        <3>2. ASSUME NEW c \in Reported(r.ts, op), Return(c, t)
              PROVE  /\ saved' = saved
                     /\ token' = token \/ token'.kind # "invalidate"
                     /\ stash' = stash \/ \E e : stash' = <<e>> /\ e.token.kind # "invalidate"
            <4>1. /\ saved' = saved
                  /\ token' = token \/ token' = t
                  /\ stash' = stash \/ stash' = <<[change |-> c, token |-> t]>>
                BY <3>2, ReturnTokens
            <4>2. [change |-> c, token |-> t].token.kind # "invalidate"
                BY <2>5
            <4>3. QED
                BY <2>5, <4>1, <4>2
        <3>3. QED
            BY <2>1, <3>1, <3>2
    <2>7. CASE mode' = mode /\ pending' = pending
        BY <1>1, <2>1, <2>4, <2>6, <2>7, GoesOn
    <2>8. CASE IsDrop(g, r) /\ mode' = "pending" /\ pending' = InvalidateToken(t)
        <3>1. pending' = [ts |-> r.ts, kind |-> "invalidate", entries |-> Entries(cur, r.ts - 1)]
            BY <2>8 DEF InvalidateToken, EventToken, t
        <3>2. EntriesOf(pending')[g] = d
            <4>1. Entries(cur, r.ts - 1)[g] = d
                BY <1>1, <2>3, <2>4 DEF Entries
            <4>2. Named(pending', g)
                BY <1>1, <2>3, <3>1, <4>1 DEF Named, AbsentStart
            <4>3. QED
                BY <3>1, <4>1, <4>2 DEF EntriesOf
        <3>3. TokenPastDrop(pending')
            BY <2>4, <2>8, <3>1, <3>2 DEF TokenPastDrop, PastDrop
        <3>4. TokenPastDrop(token') /\ TokenPastDrop(saved'.token)
            BY <2>6 DEF EndsOnce, TokenPastDrop
        <3>5. \A i \in DOMAIN stash' : TokenPastDrop(stash'[i].token)
            BY <2>6 DEF EndsOnce, TokenPastDrop
        <3>6. opening.kind = "invalidate" => PastDrop(cursor', opening.ts)
            BY <1>1, <2>1, <2>4, ChangeFacts DEF EndsOnce, PastDrop
\* The drop is none that the stream was opened past.
        <3>7. ASSUME opening.kind = "invalidate"
              PROVE  opening.ts < r.ts
            <4>1. opening.ts <= from[g] /\ opening.ts \in Nat
                BY <1>1, <1>2, <3>7 DEF EndsOnce, AbsentStart, Token
            <4>2. opening.ts # r.ts
                <5>1. SUFFICES ASSUME opening.ts = r.ts PROVE FALSE
                    OBVIOUS
                <5>2. PICK h \in Group : \E s \in Record[h] :
                         IsDrop(h, s) /\ s.ts = r.ts /\ Past(cursor[h], s)
                    BY <1>1, <3>7, <5>1 DEF EndsOnce, PastDrop
                <5>3. PICK s \in Record[h] : IsDrop(h, s) /\ s.ts = r.ts /\ Past(cursor[h], s)
                    BY <5>2
                <5>4. h = g /\ s = r
                    BY <2>8, <5>3, OneDdlAssumption DEF IsDrop, DropsWatchedCollection, IsCollection
                <5>5. QED
                    BY <2>3, <5>3, <5>4
            <4>3. QED
                BY <1>1, <4>1, <4>2
        <3>8. QED
            BY <1>1, <2>1, <2>8, <3>1, <3>3, <3>4, <3>5, <3>6, <3>7
            DEF EndsOnce, TokenPastDrop, PastDrop
    <2>9. QED
        BY <2>1, <2>7, <2>8
<1>6. QED
    BY <1>3, <1>4, <1>5 DEF TakeRecord

\* Every step keeps EndsOnce.
LEMMA EndsOncePreserved ==
    IndInv /\ EndsOnce /\ [Next]_vars => EndsOnce'
<1> SUFFICES ASSUME IndInv, EndsOnce, [Next]_vars PROVE EndsOnce'
    OBVIOUS
<1>1. CASE LogNext /\ UNCHANGED <<sourceVars, streamVars, consumerVars>>
    BY <1>1, EndsOnceBetween DEF sourceVars, streamVars, consumerVars
<1>2. ASSUME NEW g \in Group, Fetch(g), UNCHANGED <<streamVars, consumerVars>>
      PROVE  EndsOnce'
    BY <1>2, EndsOnceBetween DEF Fetch, streamVars, consumerVars
<1>3. CASE UNCHANGED vars
    BY <1>3, EndsOnceBetween DEF vars, orderedVars, sourceVars, streamVars, consumerVars
<1>4. CASE Resume \/ \E s \in 1 .. MaxTs : OpenFresh(s)
    BY <1>4, EndsOnceOpened
<1>5. CASE Save
    BY <1>5, EndsOnceBetween
<1>6. CASE Pull
    BY <1>6, EndsOnceBetween, EndsOnceReply, EndsOnceDecoding, EndsOnceTaken DEF Pull, Decoding
<1>7. QED
    BY <1>1, <1>2, <1>3, <1>4, <1>5, <1>6 DEF Next

\* The consumer of a stream that has ended holds the invalidate token, also when
\* its pipeline has hidden the invalidate event, and a stream opened from such a
\* token ends, if it does, with a later drop.
THEOREM EndNeverReturns == Spec => []EndIsPassed
<1>1. Init => EndsOnce
    <2> SUFFICES ASSUME Init PROVE EndsOnce
        OBVIOUS
    <2>1. NoToken.kind = "watermark"
        BY DEF NoToken
    <2>2. TokenPastDrop(NoToken)
        BY <2>1 DEF TokenPastDrop
    <2>3. QED
        BY <2>2 DEF Init, EndsOnce
<1>2. EndsOnce => EndIsPassed
    BY DEF EndsOnce, EndIsPassed
<1>3. QED
    BY <1>1, <1>2, EndsOncePreserved, Invariance, PTL DEF Spec

=============================================================================
