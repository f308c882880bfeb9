---------------------- MODULE CdcEventStreamOnceProofs ----------------------
(***************************************************************************)
(* CdcEventStream: no change is applied twice, and a drop of the watched   *)
(* collection is followed by its invalidate event.                         *)
(*                                                                         *)
(* CdcEventStreamProofs shows that what was not given is ahead.  This is   *)
(* the other half: what was given is behind, of the stream's cursors and   *)
(* of every token.                                                         *)
(***************************************************************************)
EXTENDS CdcEventStreamProofs, FiniteSetTheorems

-----------------------------------------------------------------------------
(***************************************************************************)
(* What is behind.                                                         *)
(***************************************************************************)

\* The change at place p of data record r will not be produced by a stream that
\* starts at f with cursor c.
BehindAt(c, f, r, p) == ~Ahead(c, f, r) \/ (Inside(c, r) /\ ~PlaceLess(c.at, p))

\* The same of a document's change, of a DDL change and of an invalidate event,
\* which goes with the drop's record.
DocumentBehind(x, c, f) ==
    \E g \in Group : \E r \in history[g] :
        /\ r.stream = "data"
        /\ \E p \in Places(Blob[g][r]) :
              x = DocumentChange(r.ts, Blob[g][r], p) /\ BehindAt(c[g], f[g], r, p)

DdlBehind(x, c, f) ==
    \E g \in Group : \E r \in Record[g] :
        /\ r.stream = "ddl"
        /\ x \in Reported(r.ts, SchemaOp[g][r])
        /\ ~Ahead(c[g], f[g], r)

EndBehind(x, c, f) ==
    \E g \in Group : \E r \in Record[g] :
        IsDrop(g, r) /\ x = InvalidateChange(r.ts) /\ ~Ahead(c[g], f[g], r)

\* No stream that starts at f with cursors c will produce x.
IsBehind(x, c, f) ==
    DocumentBehind(x, c, f) \/ DdlBehind(x, c, f) \/ EndBehind(x, c, f)

\* A cursor inside a record is inside one that has reached the group, and is not
\* past it.
CursorIn(g, c) ==
    c.partial => \E r \in history[g] : Inside(c, r) /\ ~Past(c, r)

\* A stream opened from t repeats nothing of S.
TokenExact(t, S) ==
    /\ \A g \in Group : CursorIn(g, EntriesOf(t)[g])
    /\ \A x \in S : IsBehind(x, EntriesOf(t), StartsOf(t))
    /\ t.kind = "event" => \A x \in S : x.class = "invalidate" => x.ts < t.ts

\* Record r of group g is the drop that t is the token of.
OwnDropOf(t, g, r) ==
    /\ IsDrop(g, r)
    /\ t.kind = "event"
    /\ ~t.entries[g].partial
    /\ t.entries[g].ddlKey = KeyOf(r)
    /\ r.ts = t.ts

-----------------------------------------------------------------------------
(***************************************************************************)
(* The invariant.                                                          *)
(***************************************************************************)

\* The stream has still to come to the drop whose token it was opened from.
OwnDropAhead ==
    \E g \in Group : \E r \in Wanted(g) \ released[g] : OwnDropOf(opening, g, r)

\* A cursor inside a record still to be read is the group's resume point.
ResumeOK ==
    \A g \in Group :
        /\ CursorIn(g, cursor[g])
        /\ \A r \in Wanted(g) \ released[g] : Inside(cursor[g], r) => cursor[g] = skip[g]

\* What was given is behind the stream; the cursor is past its own drop, and
\* nothing was given yet as long as the stream is to come to that.
StreamExact ==
    /\ ResumeOK
    /\ \A x \in Given : IsBehind(x, cursor, from)
    /\ opening.kind = "event" =>
          \A x \in Given : x.class = "invalidate" => x.ts < opening.ts
    /\ \A g \in Group : \A r \in Record[g] :
          OwnDropOf(opening, g, r) => Past(cursor[g], r)
    /\ OwnDropAhead => TokenExact(opening, Given)

\* The decoder is past the cursor's place, or will pass over it.
DecodeExact ==
    LET c == cursor[current.group]
    IN  Inside(c, DecodeRecord) =>
            c.at = current.through \/ ~PlaceLess(current.at, c.at)

\* The invalidate event to come is a new one.
EndExact ==
    /\ TokenExact(pending, Given)
    /\ mode = "pending" => InvalidateChange(pending.ts) \notin Given

\* The tokens the consumer has, or is about to get, have behind them what was
\* given with them.
TokensExact ==
    /\ TokenExact(token, Applied)
    /\ TokenExact(saved.token, SavedChanges)
    /\ \A i \in DOMAIN stash : TokenExact(stash[i].token, Given)

\* What was given is behind everything a stream can be at, or be opened from.
ExactInv ==
    /\ mode # "closed" => TokensExact
    /\ mode \in {"source", "decode"} => StreamExact
    /\ mode = "decode" => DecodeExact
    /\ mode \in {"pending", "ended"} => EndExact

\* The changes at one timestamp of a group, as the dedup set identifies them.
DedupKeys(g, ts) ==
    UNION {{DedupKey(Blob[g][r], p) : p \in Places(Blob[g][r])} :
              r \in {r \in Record[g] : r.stream = "data" /\ r.ts = ts}}

\* The dedup sets have room for them.
DedupHasRoom ==
    \A g \in Group : \A ts \in 1 .. MaxTs :
        /\ IsFiniteSet(DedupKeys(g, ts))
        /\ Cardinality(DedupKeys(g, ts)) <= MaxDedup

\* The decoder has returned the change at place p of record r, or the record was
\* consumed.
Returned(g, r, p) == ~(InDecode(g, r) /\ PlaceLess(current.at, p))

\* The dedup set of a group is that of the last timestamp it has read changes
\* at, and has all of them.
DedupExact ==
    \A g \in Group :
        /\ \A s \in released[g] : \A r \in Wanted(g) \ released[g] : s.ts <= r.ts
        /\ dedup[g].ts = 0 \/ \E s \in released[g] : s.ts = dedup[g].ts
        /\ dedup[g].keys \subseteq DedupKeys(g, dedup[g].ts)
        /\ \A r \in released[g] : r.stream = "data" =>
              \A p \in Places(Blob[g][r]) : Returned(g, r, p) =>
                  /\ r.ts <= dedup[g].ts
                  /\ r.ts = dedup[g].ts => DedupKey(Blob[g][r], p) \in dedup[g].keys

\* Nothing was given twice, and nothing the stream has read will be.
OnceInv ==
    /\ NoRepeat
    /\ \A i \in DOMAIN stash : stash[i].change \notin Applied
    /\ mode \in {"source", "decode"} => DedupExact

-----------------------------------------------------------------------------
(***************************************************************************)
(* The end of a collection's stream.                                       *)
(***************************************************************************)

\* The drop of the watched collection at ts, as the stream reports it.
DropChange(ts) ==
    [ts |-> ts, class |-> "drop",
     ns |-> [db |-> Scope.db, coll |-> Scope.coll], key |-> 0]

\* The last change that was applied, that was applied when the token was saved,
\* and that was given, as a singleton; none at first.
LastApplied == {applied[i] : i \in {Len(applied)} \ {0}}
LastSaved == {applied[i] : i \in {saved.n} \ {0}}
LastGiven == IF stash = <<>> THEN LastApplied ELSE {stash[1].change}

\* The invalidate event at ts is due after last change L; the drop at ts is the
\* last change, unless the pipeline hides drops.
InvalidateDue(ts, L) ==
    Scope.kind = "collection" /\ "invalidate" \notin filter /\ DropChange(ts) \in L
DropGiven(ts, L) == "drop" \notin filter => DropChange(ts) \in L

\* Change c may follow last change L.
MayFollow(c, L) ==
    /\ \A ts \in 1 .. MaxTs : InvalidateDue(ts, L) => c = InvalidateChange(ts)
    /\ c.class = "invalidate" => DropGiven(c.ts, L)

\* A stream opened from t comes to the drop that is the last change of L, and to
\* no other.
TokenEnds(t, L) ==
    /\ \A ts \in 1 .. MaxTs : InvalidateDue(ts, L) =>
          /\ t.ts = ts
          /\ \E g \in Group : \E r \in history[g] :
                OwnDropOf(t, g, r) /\ LaterTs(t.entries[g]) = ts
    /\ \A g \in Group : \A r \in Record[g] : OwnDropOf(t, g, r) => DropGiven(t.ts, L)

\* A stream comes to the invalidate event that is due.
StreamEnds ==
    /\ \A ts \in 1 .. MaxTs : InvalidateDue(ts, LastGiven) => opening.ts = ts /\ OwnDropAhead
    /\ OwnDropAhead => DropGiven(opening.ts, LastGiven)

\* A stream that ends has only that invalidate event left.
EndDue ==
    /\ \A ts \in 1 .. MaxTs :
          InvalidateDue(ts, LastGiven) => mode = "pending" /\ pending.ts = ts
    /\ mode = "pending" => DropGiven(pending.ts, LastGiven)

\* What the consumer has, and what it will have next.
ConsumerDrop ==
    /\ InvalidateFollowsDrop
    /\ \A i \in DOMAIN stash : MayFollow(stash[i].change, LastApplied)

\* The same of the tokens, a watermark that is only handed out excepted.
TokensEnd ==
    /\ token.kind # "watermark" => TokenEnds(token, LastApplied)
    /\ TokenEnds(saved.token, LastSaved)
    /\ \A i \in DOMAIN stash : TokenEnds(stash[i].token, LastGiven)

\* The invalidate event is the next to come wherever the consumer goes on.
DropInv ==
    /\ ConsumerDrop
    /\ mode # "closed" => TokensEnd
    /\ mode \in {"source", "decode"} => StreamEnds
    /\ mode \in {"pending", "ended"} => EndDue

-----------------------------------------------------------------------------
(***************************************************************************)
(* What is behind stays behind.                                            *)
(***************************************************************************)

\* Whatever of record r is ahead of cursor d and start e is ahead of c and f.
Further(c, f, d, e, r) ==
    Ahead(d, e, r) =>
        /\ Ahead(c, f, r)
        /\ Inside(c, r) =>
              /\ Inside(d, r)
              /\ \A p \in Place : ~PlaceLess(c.at, p) => ~PlaceLess(d.at, p)

\* What is behind some cursors is behind any that have less ahead.
LEMMA FurtherBehind ==
    ASSUME \A g \in Group : history[g] \subseteq Record[g],
           NEW c, NEW f, NEW d, NEW e,
           \A g \in Group : \A r \in Record[g] : Further(c[g], f[g], d[g], e[g], r),
           NEW x, IsBehind(x, c, f)
    PROVE  IsBehind(x, d, e)
<1>1. CASE DocumentBehind(x, c, f)
    <2>1. PICK g \in Group : \E r \in history[g] :
             /\ r.stream = "data"
             /\ \E p \in Places(Blob[g][r]) :
                   x = DocumentChange(r.ts, Blob[g][r], p) /\ BehindAt(c[g], f[g], r, p)
        BY <1>1 DEF DocumentBehind
    <2>2. PICK r \in history[g] :
             /\ r.stream = "data"
             /\ \E p \in Places(Blob[g][r]) :
                   x = DocumentChange(r.ts, Blob[g][r], p) /\ BehindAt(c[g], f[g], r, p)
        BY <2>1
    <2>3. PICK p \in Places(Blob[g][r]) :
             x = DocumentChange(r.ts, Blob[g][r], p) /\ BehindAt(c[g], f[g], r, p)
        BY <2>2
    <2>4. r \in Record[g] /\ p \in Place
        BY <2>2, PlaceFacts
    <2>5. BehindAt(d[g], e[g], r, p)
        BY <2>3, <2>4 DEF BehindAt, Further
    <2>6. QED
        BY <2>2, <2>3, <2>5 DEF IsBehind, DocumentBehind
<1>2. CASE DdlBehind(x, c, f)
    BY <1>2 DEF IsBehind, DdlBehind, Further
<1>3. CASE EndBehind(x, c, f)
    BY <1>3 DEF IsBehind, EndBehind, Further
<1>4. QED
    BY <1>1, <1>2, <1>3 DEF IsBehind

\* Records that arrive change nothing of that.
LEMMA ExactGrows ==
    ASSUME \A g \in Group : history[g] \subseteq history'[g], NEW t, NEW S,
           NEW T, T \subseteq S
    PROVE  /\ TokenExact(t, S) => TokenExact(t, T)'
           /\ \A x, c, f : IsBehind(x, c, f) => IsBehind(x, c, f)'
           /\ \A g \in Group : \A c : CursorIn(g, c) => CursorIn(g, c)'
<1>1. ASSUME NEW x, NEW c, NEW f, IsBehind(x, c, f)
      PROVE  IsBehind(x, c, f)'
    <2>1. DocumentBehind(x, c, f) => DocumentBehind(x, c, f)'
        BY DEF DocumentBehind
    <2>2. QED
        BY <1>1, <2>1 DEF IsBehind, DdlBehind, EndBehind
<1>2. ASSUME NEW g \in Group, NEW c, CursorIn(g, c)
      PROVE  CursorIn(g, c)'
    BY <1>2 DEF CursorIn
<1>3. TokenExact(t, S) => TokenExact(t, T)'
    BY <1>1, <1>2 DEF TokenExact
<1>4. QED
    BY <1>1, <1>2, <1>3

\* A token made of the stream's cursors has behind it what they have.
LEMMA TokenFurther ==
    ASSUME NEW t \in Token, NEW cur \in [Group -> Cursor], NEW f \in [Group -> Nat],
           AbsentStart(t) >= 1,
           t.entries = Entries(cur, AbsentStart(t) - 1),
           \A g \in Group : /\ LaterTs(cur[g]) # 0 => f[g] <= LaterTs(cur[g])
                            /\ LaterTs(cur[g]) = 0 => f[g] <= AbsentStart(t),
           NEW g \in Group, NEW r \in RecordType
    PROVE  Further(cur[g], f[g], EntriesOf(t)[g], StartsOf(t)[g], r)
<1> DEFINE a == AbsentStart(t)
<1>1. a \in Nat /\ LaterTs(cur[g]) \in Nat /\ r.ts \in Nat /\ f[g] \in Nat
    BY StartsAbove, LaterTsFacts, BoundsAssumption, KeyFacts
<1>2. CASE LaterTs(cur[g]) >= a
    <2>1. EntriesOf(t)[g] = cur[g] /\ StartsOf(t)[g] = LaterTs(cur[g])
        BY <1>2, EntryFacts
    <2>2. f[g] <= LaterTs(cur[g])
        BY <1>1, <1>2
    <2>3. QED
        BY <1>1, <2>1, <2>2 DEF Further, Ahead
<1>3. CASE ~(LaterTs(cur[g]) >= a)
    <2>1. EntriesOf(t)[g] = NoCursor /\ StartsOf(t)[g] = a
        BY <1>3, EntryFacts
    <2>2. f[g] <= a
        BY <1>1, <1>3
    <2>3. ASSUME r.ts >= a
          PROVE  Ahead(cur[g], f[g], r) /\ ~Inside(cur[g], r)
        <3>1. LaterTs(cur[g]) < r.ts /\ f[g] <= r.ts
            BY <1>1, <1>3, <2>2, <2>3
        <3>2. KeyOf(r) # cur[g].dataKey
            BY <1>1, <3>1, KeyFacts, LaterTsFacts
        <3>3. QED
            BY <1>1, <3>1, <3>2 DEF Ahead, Past, Inside
    <2>4. QED
        BY <2>1, <2>3 DEF Further, Ahead
<1>4. QED
    BY <1>2, <1>3

\* When the cursor of the record being produced advances, it has less ahead.
LEMMA AdvanceFurther ==
    ASSUME NEW c \in Cursor, NEW f, NEW d, NEW r \in RecordType,
           ~Past(c, r), Advances(c, d, r),
           Inside(c, r) => \/ Past(d, r)
                           \/ /\ Inside(d, r)
                              /\ \A p \in Place : ~PlaceLess(c.at, p) => ~PlaceLess(d.at, p),
           NEW s \in RecordType
    PROVE  Further(c, f, d, f, s)
<1>1. SUFFICES ASSUME Ahead(d, f, s)
               PROVE  /\ Ahead(c, f, s)
                      /\ Inside(c, s) =>
                            /\ Inside(d, s)
                            /\ \A p \in Place : ~PlaceLess(c.at, p) => ~PlaceLess(d.at, p)
    BY DEF Further
<1>2. ~Before(s, r)
    BY <1>1 DEF Ahead, Advances
<1>3. s = r \/ Before(r, s)
    BY <1>2, BeforeOrder
<1>4. ~Past(c, s)
    BY <1>2, PastIsPrefix
<1>5. Inside(c, s) => s = r
    BY <1>3, NothingNewBefore DEF Inside
<1>6. QED
    BY <1>1, <1>4, <1>5 DEF Ahead

-----------------------------------------------------------------------------
(***************************************************************************)
(* The changes of a timestamp.                                             *)
(***************************************************************************)

\* A schema operation is reported as at most one type, none of them "document"
\* or "invalidate".
LEMMA DdlTypesFacts ==
    ASSUME NEW g \in Group, NEW r \in Record[g], r.stream = "ddl"
    PROVE  /\ DdlTypes(SchemaOp[g][r]) \subseteq {"create", "drop", "createIndexes", "dropIndexes"}
           /\ \A s, t \in DdlTypes(SchemaOp[g][r]) : s = t
<1> DEFINE op == SchemaOp[g][r]
<1>1. /\ op.documents \in BOOLEAN /\ op.rolledBack \in BOOLEAN
      /\ op.type \in {"createTable", "dropTable", "addIndex", "dropIndex"}
    BY SchemaOpAssumption
<1> HIDE DEF op
<1> DEFINE Ok(T) == /\ T \subseteq {"create", "drop", "createIndexes", "dropIndexes"}
                    /\ \A s, t \in T : s = t
<1>2. Ok(DdlTypes(op))
    <2>1. CASE ~op.documents
        BY <2>1 DEF DdlTypes
    <2>2. CASE op.documents /\ op.type = "createTable"
        BY <1>1, <2>2 DEF DdlTypes
    <2>3. CASE op.documents /\ op.type = "dropTable"
        BY <1>1, <2>3 DEF DdlTypes
    <2>4. CASE op.documents /\ op.type = "addIndex"
        BY <1>1, <2>4 DEF DdlTypes
    <2>5. CASE op.documents /\ op.type = "dropIndex"
        BY <1>1, <2>5 DEF DdlTypes
    <2>6. QED
        BY <1>1, <2>1, <2>2, <2>3, <2>4, <2>5
<1>3. QED
    BY <1>2 DEF op

\* What a schema operation is reported as.
LEMMA ReportedFacts ==
    ASSUME NEW g \in Group, NEW r \in Record[g], r.stream = "ddl",
           NEW x \in Reported(r.ts, SchemaOp[g][r])
    PROVE  /\ x.ts = r.ts /\ x.ns = SchemaOp[g][r].ns /\ Includes(x.ns)
           /\ x.class \notin {"document", "invalidate"}
           /\ x.class = "drop" /\ IsCollection(x.ns) => IsDrop(g, r) /\ x = DropChange(r.ts)
<1>1. PICK t \in DdlTypes(SchemaOp[g][r]) :
         Includes(SchemaOp[g][r].ns) /\ x = DdlChange(r.ts, SchemaOp[g][r], t)
    BY DEF Reported
<1>2. /\ x.ts = r.ts /\ x.ns = SchemaOp[g][r].ns /\ x.class = t
      /\ x = [ts |-> r.ts, class |-> t, ns |-> SchemaOp[g][r].ns, key |-> 0]
    BY <1>1 DEF DdlChange
<1>3. /\ t \in {"create", "drop", "createIndexes", "dropIndexes"}
      /\ \A s \in DdlTypes(SchemaOp[g][r]) : s = t
    BY <1>1, DdlTypesFacts
<1>4. ASSUME x.class = "drop", IsCollection(x.ns)
      PROVE  IsDrop(g, r) /\ x = DropChange(r.ts)
    <2>1. DdlTypes(SchemaOp[g][r]) = {"drop"}
        BY <1>1, <1>2, <1>3, <1>4
    <2>2. IsDrop(g, r)
        BY <1>2, <1>4, <2>1 DEF IsDrop, DropsWatchedCollection
    <2>3. QED
        BY <1>2, <1>4, <2>2 DEF DropChange, IsCollection
<1>5. QED
    BY <1>1, <1>2, <1>3, <1>4

\* A drop of the watched collection is reported, as such.
LEMMA DropFacts ==
    ASSUME NEW g \in Group, NEW r \in Record[g], IsDrop(g, r)
    PROVE  /\ r.stream = "ddl"
           /\ Scope.kind = "collection"
           /\ SchemaOp[g][r].ns = [db |-> Scope.db, coll |-> Scope.coll]
           /\ DdlTypes(SchemaOp[g][r]) = {"drop"}
           /\ Reported(r.ts, SchemaOp[g][r]) = {DropChange(r.ts)}
<1>1. /\ r.stream = "ddl" /\ Scope.kind = "collection"
      /\ SchemaOp[g][r].ns = [db |-> Scope.db, coll |-> Scope.coll]
      /\ DdlTypes(SchemaOp[g][r]) = {"drop"}
    BY DEF IsDrop, DropsWatchedCollection, IsCollection
<1>2. Includes(SchemaOp[g][r].ns)
    BY <1>1, ScopeAssumption DEF Includes
<1>3. Reported(r.ts, SchemaOp[g][r]) = {DdlChange(r.ts, SchemaOp[g][r], "drop")}
    BY <1>1, <1>2 DEF Reported
<1>4. DdlChange(r.ts, SchemaOp[g][r], "drop") = DropChange(r.ts)
    BY <1>1 DEF DdlChange, DropChange
<1>5. QED
    BY <1>1, <1>3, <1>4

\* Nothing else of the watched collection has its drop's timestamp.
LEMMA DropAlone ==
    ASSUME NEW g \in Group, NEW r \in Record[g], NEW h \in Group, NEW s \in Record[h],
           IsDrop(h, s), r.ts = s.ts, Changes(g, r) # {}
    PROVE  g = h /\ r = s
<1> DEFINE ns == [db |-> Scope.db, coll |-> Scope.coll]
<1>1. /\ s.stream = "ddl" /\ Scope.kind = "collection" /\ SchemaOp[h][s].ns = ns
      /\ DdlTypes(SchemaOp[h][s]) = {"drop"}
    BY DropFacts
<1>2. \A n : Includes(n) => n = ns
    BY <1>1 DEF Includes
<1> HIDE DEF ns
<1>3. CASE r.stream = "data"
    <2>1. PICK p \in Places(Blob[g][r]) : TRUE
        BY <1>3 DEF Changes
    <2>2. Includes(Blob[g][r].sections[p[1]].ns)
        <3>1. PICK i \in DOMAIN Blob[g][r].sections :
                 /\ Includes(Blob[g][r].sections[i].ns)
                 /\ p \in {<<i, j>> : j \in DOMAIN Blob[g][r].sections[i].keys}
            BY DEF Places
        <3>2. PICK j \in DOMAIN Blob[g][r].sections[i].keys : p = <<i, j>>
            BY <3>1
        <3>3. QED
            BY <3>1, <3>2
    <2>3. QED
        BY <1>1, <1>2, <1>3, <2>2, DropAssumption
<1>4. CASE r.stream # "data"
    <2>1. r.stream = "ddl"
        BY <1>4, RecordAssumption DEF RecordType, Stream
    <2>2. PICK x \in Reported(r.ts, SchemaOp[g][r]) : TRUE
        BY <1>4 DEF Changes
    <2>3. SchemaOp[g][r].ns = ns
        BY <1>2, <2>1, <2>2, ReportedFacts
    <2>4. QED
        BY <1>1, <2>1, <2>3, OneDdlAssumption
<1>5. QED
    BY <1>3, <1>4

-----------------------------------------------------------------------------
(***************************************************************************)
(* What was given is behind.                                               *)
(***************************************************************************)

\* The pipeline drops the event, or it is put in the reply, or set aside.
LEMMA ReturnOutcome ==
    ASSUME ConsumerType, stash = <<>>, NEW c \in Change, NEW t, Return(c, t)
    PROVE  /\ filter' = filter /\ saved' = saved
           /\ Given' = GivenWith(c) /\ SavedChanges' = SavedChanges /\ Given = Applied
           /\ \/ c.class \in filter /\ UNCHANGED <<stash, token, applied>>
              \/ /\ c.class \notin filter
                 /\ stash' = <<>> /\ token' = t /\ applied' = Append(applied, c)
                 /\ Applied' = GivenWith(c)
              \/ /\ c.class \notin filter
                 /\ stash' = <<[change |-> c, token |-> t]>>
                 /\ UNCHANGED <<token, applied>>
<1>1. Given = Applied
    BY GivenFacts
<1>2. CASE c.class \in filter /\ GoOn
    <2>1. UNCHANGED <<filter, saved, stash, token, applied>>
        BY <1>2 DEF GoOn, consumerVars
    <2>2. QED
        BY <1>1, <1>2, <2>1 DEF Given, Applied, SavedChanges, GivenWith
<1>3. CASE c.class \notin filter /\ UNCHANGED <<filter, saved>>
    <2> DEFINE e == [change |-> c, token |-> t]
    <2>1. GivenWith(c) = Given \cup {c}
        BY <1>3 DEF GivenWith
    <2>2. CASE PutInReply(e) /\ UNCHANGED stash
        <3>1. applied' = Append(applied, c) /\ token' = t /\ stash' = <<>>
            BY <2>2 DEF PutInReply
        <3>2. Applied' = Applied \cup {c} /\ SavedChanges' = SavedChanges
            BY <1>3, <3>1, AppendFacts
        <3>3. Given' = Given \cup {c}
            BY <1>1, <3>1, <3>2 DEF Given
        <3>4. QED
            BY <1>1, <1>3, <2>1, <3>1, <3>2, <3>3
    <2>3. CASE SetAside(e)
        <3>1. stash' = <<e>> /\ UNCHANGED <<token, applied>>
            BY <2>3 DEF SetAside
        <3>2. DOMAIN stash' = {1} /\ stash'[1].change = c
            BY <3>1
        <3>3. Given' = Given \cup {c} /\ SavedChanges' = SavedChanges
            BY <1>1, <1>3, <3>1, <3>2 DEF Given, Applied, SavedChanges
        <3>4. QED
            BY <1>1, <1>3, <2>1, <3>1, <3>3
    <2>4. QED
        BY <1>3, <2>2, <2>3 DEF Return
<1>4. QED
    BY <1>2, <1>3 DEF Return

\* Its token is exact, and so are the others still.
LEMMA ReturnExact ==
    ASSUME ConsumerType, stash = <<>>, TokensExact, history' = history,
           NEW c \in Change, NEW t, Return(c, t), TokenExact(t, GivenWith(c))
    PROVE  TokensExact'
<1>1. /\ saved' = saved /\ Given' = GivenWith(c) /\ SavedChanges' = SavedChanges
      /\ Given = Applied
      /\ \/ UNCHANGED <<stash, token, applied>>
         \/ /\ stash' = <<>> /\ token' = t
            /\ Applied' = GivenWith(c)
         \/ /\ stash' = <<[change |-> c, token |-> t]>>
            /\ UNCHANGED <<token, applied>>
    BY ReturnOutcome
<1>2. ASSUME NEW u, NEW S, TokenExact(u, S)
      PROVE  TokenExact(u, S)'
    BY <1>2, ExactGrows
<1>3. TokenExact(saved.token, SavedChanges)'
    BY <1>1, <1>2 DEF TokensExact
<1>4. CASE UNCHANGED <<stash, token, applied>>
    <2>1. Applied' = Applied /\ DOMAIN stash' = {}
        BY <1>4 DEF Applied
    <2>2. QED
        BY <1>2, <1>3, <1>4, <2>1 DEF TokensExact
<1>5. CASE stash' = <<>> /\ token' = t /\ Applied' = GivenWith(c)
    <2>1. DOMAIN stash' = {}
        BY <1>5
    <2>2. QED
        BY <1>2, <1>3, <1>5, <2>1 DEF TokensExact
<1>6. CASE stash' = <<[change |-> c, token |-> t]>> /\ UNCHANGED <<token, applied>>
    <2>1. Applied' = Applied /\ DOMAIN stash' = {1} /\ stash'[1].token = t
        BY <1>6 DEF Applied
    <2>2. QED
        BY <1>1, <1>2, <1>3, <1>6, <2>1 DEF TokensExact
<1>7. QED
    BY <1>1, <1>4, <1>5, <1>6

\* An invalidate token begins where the event's token does.
LEMMA InvalidateExact ==
    ASSUME NEW t \in Token, t.kind = "event", NEW S, TokenExact(t, S)
    PROVE  TokenExact(InvalidateToken(t), S)
<1> DEFINE i == InvalidateToken(t)
<1>1. i.kind = "invalidate" /\ i.entries = t.entries /\ i.ts = t.ts
    BY DEF InvalidateToken, Token
<1> HIDE DEF i
<1>2. AbsentStart(i) = AbsentStart(t)
    BY <1>1 DEF AbsentStart
<1>3. EntriesOf(i) = EntriesOf(t) /\ StartsOf(i) = StartsOf(t)
    BY <1>1, <1>2 DEF EntriesOf, StartsOf, Named
<1>4. TokenExact(i, S)
    BY <1>1, <1>3 DEF TokenExact
<1>5. QED
    BY <1>4 DEF i

\* An invalidate event that was given goes with a drop that is behind.
LEMMA InvalidateBehind ==
    ASSUME NEW x, x.class = "invalidate", NEW c, NEW f, IsBehind(x, c, f)
    PROVE  EndBehind(x, c, f)
<1>1. ~DocumentBehind(x, c, f)
    BY DEF DocumentBehind, DocumentChange
<1>2. ~DdlBehind(x, c, f)
    BY ReportedFacts DEF DdlBehind
<1>3. QED
    BY <1>1, <1>2 DEF IsBehind

\* A group's cursor is no longer inside a record when the group comes to a DDL
\* record.
LEMMA NotInside ==
    ASSUME IndInv, ResumeOK, mode = "source", NEW g \in Group, NEW r \in RecordType,
           r.stream = "ddl", Producing(g, r)
    PROVE  ~cursor[g].partial
<1>1. SUFFICES ASSUME cursor[g].partial PROVE FALSE
    OBVIOUS
<1>2. StreamInv /\ LogTypeOK /\ cursor[g] \in Cursor
    BY DEF IndInv, StreamType
<1>3. PICK s \in history[g] : Inside(cursor[g], s) /\ ~Past(cursor[g], s)
    BY <1>1 DEF ResumeOK, CursorIn
<1>4. s \in RecordType /\ s.stream = "data" /\ KeyOf(s) = cursor[g].dataKey
    BY <1>2, <1>3 DEF LogTypeOK, Inside
<1>5. LaterTs(cursor[g]) = s.ts /\ s.ts # 0
    BY <1>2, <1>3, <1>4, AboveDdlKey, KeyFacts, LaterTsFacts DEF LaterTs
<1>6. s \in Wanted(g)
    <2>1. from[g] <= s.ts
        BY <1>2, <1>5 DEF StreamInv, SourceOK
    <2>2. from[g] \in Int /\ s.ts \in Int
        BY <1>4, KeyFacts, BoundsAssumption DEF IndInv, StreamType
    <2>3. QED
        BY <2>1, <2>2 DEF Wanted
<1>7. s \notin released[g]
    BY <1>2, <1>3 DEF StreamInv, CursorOK, InDecode
<1>8. Before(r, s)
    BY <1>4, <1>6, <1>7 DEF Producing
<1>9. QED
    BY <1>2, <1>4, <1>8, NothingNewBefore DEF Producing

\* Cursor d of record r's group has less ahead than the group's cursor: it
\* has advanced past the record, or in it beyond the cursor's place.
CursorAdvances(g, r, d) ==
    /\ Advances(cursor[g], d, r)
    /\ CursorIn(g, d)
    /\ Inside(cursor[g], r) =>
          \/ Past(d, r)
          \/ /\ Inside(d, r)
             /\ \A p \in Place : ~PlaceLess(cursor[g].at, p) => ~PlaceLess(d.at, p)

\* When a cursor advances, what was given stays behind.
LEMMA AdvanceExact ==
    ASSUME IndInv, StreamExact, NEW g \in Group, NEW r \in RecordType, Producing(g, r),
           NEW d, CursorAdvances(g, r, d), NEW cur, cur = [cursor EXCEPT ![g] = d]
    PROVE  /\ cur \in [Group -> Cursor]
           /\ \A h \in Group : CursorIn(h, cur[h])
           /\ \A x \in Given : IsBehind(x, cur, from)
           /\ \A h \in Group : \A s \in RecordType : Past(cursor[h], s) => Past(cur[h], s)
<1>1. /\ cursor \in [Group -> Cursor] /\ d \in Cursor /\ ~Past(cursor[g], r)
      /\ \A h \in Group : history[h] \subseteq Record[h] /\ Record[h] \subseteq RecordType
    BY RecordAssumption DEF IndInv, StreamType, CursorAdvances, Advances, Producing
<1>2. /\ cur \in [Group -> Cursor] /\ cur[g] = d
      /\ \A h \in Group \ {g} : cur[h] = cursor[h]
    BY <1>1
<1>3. \A h \in Group : CursorIn(h, cur[h])
    BY <1>2 DEF StreamExact, ResumeOK, CursorAdvances
<1>4. ASSUME NEW h \in Group, NEW s \in Record[h]
      PROVE  Further(cursor[h], from[h], cur[h], from[h], s)
    <2>1. CASE h = g
        <3>1. s \in RecordType
            BY <1>1
        <3>2. Further(cursor[g], from[g], d, from[g], s)
            BY <1>1, <3>1, AdvanceFurther DEF CursorAdvances
        <3>3. QED
            BY <1>2, <2>1, <3>2
    <2>2. CASE h # g
        BY <1>2, <2>2 DEF Further
    <2>3. QED
        BY <2>1, <2>2
<1>5. \A x \in Given : IsBehind(x, cur, from)
    <2> HIDE DEF Further
    <2>1. SUFFICES ASSUME NEW x \in Given PROVE IsBehind(x, cur, from)
        OBVIOUS
    <2>2. IsBehind(x, cursor, from)
        BY DEF StreamExact
    <2>3. QED
        BY <1>1, <1>4, <2>2, FurtherBehind
<1>6. ASSUME NEW s \in RecordType, Past(cursor[g], s)
      PROVE  Past(d, s)
    BY <1>1, <1>6, PastIsPrefix DEF CursorAdvances, Advances
<1>7. QED
    BY <1>2, <1>3, <1>5, <1>6

\* The token of a change of the record repeats nothing.
LEMMA EventExact ==
    ASSUME IndInv, StreamExact, mode \in {"source", "decode"},
           NEW g \in Group, NEW r \in Record[g], Producing(g, r),
           Changes(g, r) # {},
           NEW d, CursorAdvances(g, r, d), NEW cur, cur = [cursor EXCEPT ![g] = d],
           NEW S, \A x \in S : x \in Given \/ (x \in Changes(g, r) /\ IsBehind(x, cur, from))
    PROVE  /\ TokenExact(EventToken(r.ts, cur), S)
           /\ TokenExact(InvalidateToken(EventToken(r.ts, cur)), S)
<1> DEFINE t == EventToken(r.ts, cur)
<1>1. /\ r \in RecordType /\ r.ts \in 1 .. MaxTs /\ r.ts \in Nat
      /\ from \in [Group -> Nat] /\ d \in Cursor /\ LaterTs(d) = r.ts
      /\ from[g] <= r.ts /\ ~Past(cursor[g], r)
      /\ \A h \in Group : history[h] \subseteq Record[h] /\ Record[h] \subseteq RecordType
      /\ cursor \in [Group -> Cursor] /\ SourceOK /\ ConsumerType
    <2>1. r \in RecordType
        BY RecordAssumption
    <2>2. from \in [Group -> 1 .. MaxTs + 1]
        BY DEF IndInv, StreamType
    <2>3. from \in [Group -> Nat]
        BY <2>2, BoundsAssumption
    <2>4. QED
        BY <2>1, <2>3, KeyFacts, RecordAssumption
        DEF IndInv, StreamType, StreamInv, CursorAdvances, Advances, Producing
<1>2. /\ cur \in [Group -> Cursor]
      /\ \A h \in Group : CursorIn(h, cur[h])
      /\ \A x \in S : IsBehind(x, cur, from)
    BY <1>1, AdvanceExact
<1>3. /\ t \in Token /\ t.kind = "event" /\ t.ts = r.ts
      /\ t.entries = Entries(cur, r.ts - 1) /\ AbsentStart(t) = r.ts
    <2>1. Entries(cur, r.ts - 1) \in [Group -> Cursor]
        BY <1>2, NoCursorFacts DEF Entries
    <2>2. r.ts \in 0 .. MaxTs
        BY <1>1, BoundsAssumption
    <2>3. QED
        BY <2>1, <2>2 DEF EventToken, Token, TokenKind, AbsentStart
<1> HIDE DEF t
<1>4. ASSUME NEW h \in Group
      PROVE  /\ LaterTs(cur[h]) # 0 => from[h] <= LaterTs(cur[h])
             /\ LaterTs(cur[h]) = 0 => from[h] <= AbsentStart(t)
    <2>1. CASE h = g
        <3>1. cur[h] = d
            BY <1>1, <2>1
        <3>2. QED
            BY <1>1, <1>3, <2>1, <3>1
    <2>2. CASE h # g
        <3>1. cur[h] = cursor[h]
            BY <1>1, <2>2
        <3>2. LaterTs(cursor[h]) = 0 => from[h] <= from[g]
            BY <1>1 DEF SourceOK
        <3>3. from[h] \in Nat /\ from[g] \in Nat
            BY <1>1
        <3>4. QED
            BY <1>1, <1>3, <3>1, <3>2, <3>3 DEF SourceOK
    <2>3. QED
        BY <2>1, <2>2
<1>5. ASSUME NEW h \in Group, NEW s \in Record[h]
      PROVE  Further(cur[h], from[h], EntriesOf(t)[h], StartsOf(t)[h], s)
    <2>1. s \in RecordType
        BY <1>1
    <2>2. AbsentStart(t) >= 1 /\ t.entries = Entries(cur, AbsentStart(t) - 1)
        BY <1>1, <1>3
    <2>3. QED
        BY <1>1, <1>2, <1>3, <1>4, <2>1, <2>2, TokenFurther
<1>6. \A x \in S : IsBehind(x, EntriesOf(t), StartsOf(t))
    <2> SUFFICES ASSUME NEW x \in S PROVE IsBehind(x, EntriesOf(t), StartsOf(t))
        OBVIOUS
    <2>1. IsBehind(x, cur, from)
        BY <1>2
    <2>2. QED
        BY <1>1, <1>5, <2>1, FurtherBehind
<1>7. \A h \in Group : CursorIn(h, EntriesOf(t)[h])
    <2>1. SUFFICES ASSUME NEW h \in Group PROVE CursorIn(h, EntriesOf(t)[h])
        OBVIOUS
    <2>2. AbsentStart(t) >= 1 /\ t.entries = Entries(cur, AbsentStart(t) - 1)
        BY <1>1, <1>3
    <2>3. EntriesOf(t)[h] = cur[h] \/ EntriesOf(t)[h] = NoCursor
        BY <1>2, <1>3, <2>2, EntryFacts
    <2>4. QED
        BY <1>2, <2>3 DEF CursorIn, NoCursor
\* No invalidate event was given yet at the record's timestamp: its drop would
\* be the record.
<1>8. ASSUME NEW x \in S, x.class = "invalidate"
      PROVE  x.ts < r.ts
    <2>1. x \in Given
        <3>1. \A y \in Changes(g, r) : y.class # "invalidate"
            <4>1. CASE r.stream = "data"
                <5>1. \A q : DocumentChange(r.ts, Blob[g][r], q).class = "document"
                    BY DEF DocumentChange
                <5>2. \A y \in Changes(g, r) : y.class = "document"
                    BY <4>1, <5>1 DEF Changes
                <5>3. QED
                    BY <5>2
            <4>2. CASE r.stream # "data"
                <5>1. r.stream = "ddl"
                    BY <1>1, <4>2, KeyFacts
                <5>2. QED
                    BY <4>2, <5>1, ReportedFacts DEF Changes
            <4>3. QED
                BY <4>1, <4>2
        <3>2. QED
            BY <1>8, <3>1
    <2>2. x.ts <= r.ts /\ x.ts \in Nat
        BY <1>1, <2>1, GivenFacts, ChangeFacts DEF Producing
    <2>3. ASSUME x.ts = r.ts
          PROVE  FALSE
        <3>1. EndBehind(x, cursor, from)
            BY <1>8, <2>1, InvalidateBehind DEF StreamExact
        <3>2. PICK h \in Group : \E s \in Record[h] :
                 IsDrop(h, s) /\ x = InvalidateChange(s.ts) /\ ~Ahead(cursor[h], from[h], s)
            BY <3>1 DEF EndBehind
        <3>3. PICK s \in Record[h] :
                 IsDrop(h, s) /\ x = InvalidateChange(s.ts) /\ ~Ahead(cursor[h], from[h], s)
            BY <3>2
        <3>4. s.ts = r.ts
            BY <2>3, <3>3 DEF InvalidateChange
        <3>5. g = h /\ r = s
            BY <3>3, <3>4, DropAlone
        <3>6. r.ts >= from[g]
            BY <1>1
        <3>7. QED
            BY <1>1, <3>3, <3>5, <3>6 DEF Ahead
    <2>4. QED
        BY <1>1, <2>2, <2>3
<1>9. TokenExact(t, S)
    BY <1>3, <1>6, <1>7, <1>8 DEF TokenExact
<1>10. QED
    BY <1>3, <1>9, InvalidateExact DEF t

\* A stream that is to come to its own drop produces nothing before it.
LEMMA OwnDropFirst ==
    ASSUME IndInv, EndsOnce, StreamExact, mode \in {"source", "decode"},
           NEW g \in Group, NEW r \in Record[g], Producing(g, r), Changes(g, r) # {}
    PROVE  ~OwnDropAhead
<1>1. SUFFICES ASSUME OwnDropAhead PROVE FALSE
    OBVIOUS
<1>2. PICK h \in Group : \E s \in Wanted(h) \ released[h] : OwnDropOf(opening, h, s)
    BY <1>1 DEF OwnDropAhead
<1>3. PICK s \in Wanted(h) \ released[h] : OwnDropOf(opening, h, s)
    BY <1>2
<1>4. s \in Record[h] /\ s.ts \in Nat /\ r.ts \in Nat /\ from[g] \in Nat
    BY ChangeFacts, KeyFacts, BoundsAssumption DEF Wanted, IndInv, StreamType
<1>5. r.ts <= s.ts /\ from[g] <= r.ts /\ ~Past(cursor[g], r)
    BY DEF Producing
<1>6. s.ts <= from[g]
    BY <1>3 DEF OwnDropOf, EndsOnce, AbsentStart
<1>7. r.ts = s.ts
    BY <1>4, <1>5, <1>6
<1>8. g = h /\ r = s
    BY <1>3, <1>4, <1>7, DropAlone DEF OwnDropOf
<1>9. QED
    BY <1>3, <1>4, <1>5, <1>8 DEF StreamExact

\* What is left to show of a stream that has moved on.
LEMMA StreamGoesOn ==
    ASSUME StreamExact, UNCHANGED <<history, from, opening>>,
           \A h \in Group : released[h] \subseteq released'[h],
           \A h \in Group : /\ CursorIn(h, cursor'[h])
                            /\ \A s \in Wanted(h) \ released'[h] :
                                  Inside(cursor'[h], s) => cursor'[h] = skip'[h]
                            /\ \A s \in Record[h] : Past(cursor[h], s) => Past(cursor'[h], s),
           \A x \in Given' : /\ IsBehind(x, cursor', from)
                             /\ x \in Given \/ x.class # "invalidate",
           Given' \subseteq Given \/ ~OwnDropAhead
    PROVE  StreamExact'
<1>1. \A h \in Group : Wanted(h)' = Wanted(h)
    BY DEF Wanted
<1>2. ResumeOK'
    BY <1>1 DEF ResumeOK, CursorIn
<1>3. ASSUME NEW x \in Given'
      PROVE  IsBehind(x, cursor, from)'
    <2>1. IsBehind(x, cursor', from)
        OBVIOUS
    <2>2. QED
        BY <2>1 DEF IsBehind, DocumentBehind, DdlBehind, EndBehind
<1>4. ASSUME NEW h \in Group, NEW s \in Record[h], OwnDropOf(opening', h, s)
      PROVE  Past(cursor'[h], s)
    BY <1>4 DEF StreamExact
<1>5. OwnDropAhead' => OwnDropAhead
    BY <1>1 DEF OwnDropAhead
<1>6. OwnDropAhead' => TokenExact(opening, Given)'
    <2>1. SUFFICES ASSUME OwnDropAhead' PROVE TokenExact(opening, Given)'
        OBVIOUS
    <2>2. TokenExact(opening, Given) /\ Given' \subseteq Given
        BY <1>5, <2>1 DEF StreamExact
    <2>3. ASSUME NEW t, NEW S, NEW T, t = opening, S = Given, T = Given'
          PROVE  TokenExact(t, T)'
        BY <2>2, <2>3, ExactGrows
    <2>4. QED
        BY <2>3
<1>7. opening'.kind = "event" =>
          \A x \in Given' : x.class = "invalidate" => x.ts < opening'.ts
    BY DEF StreamExact
<1>8. QED
    BY <1>2, <1>3, <1>4, <1>6, <1>7 DEF StreamExact, OwnDropOf

-----------------------------------------------------------------------------
(***************************************************************************)
(* ExactInv, step by step.                                                 *)
(***************************************************************************)

\* A token's own drop is one that the stream opened from it begins past.
LEMMA OwnDropPast ==
    ASSUME NEW t \in Token, NEW g \in Group, NEW r \in Record[g], OwnDropOf(t, g, r)
    PROVE  /\ Named(t, g) /\ EntriesOf(t)[g] = t.entries[g]
           /\ StartsOf(t)[g] = LaterTs(t.entries[g])
           /\ Past(EntriesOf(t)[g], r)
<1> DEFINE c == t.entries[g]
<1>1. /\ r \in RecordType /\ c \in Cursor /\ IsDrop(g, r) /\ t.kind = "event"
      /\ c.ddlKey = KeyOf(r) /\ r.ts = t.ts
    BY ChangeFacts DEF OwnDropOf, Token
<1> HIDE DEF c
<1>2. r.ts <= LaterTs(c) /\ c.ddlKey.ts = r.ts /\ LaterTs(c) \in Nat /\ r.ts \in Nat
    BY <1>1, LaterTsFacts, KeyFacts, BoundsAssumption
<1>3. ~KeyLess(KeyOf(r), KeyOf(r))
    BY <1>1, KeyFacts DEF KeyLess
<1>4. Past(c, r)
    BY <1>1, <1>2, <1>3 DEF Past, IsDrop
<1>5. Named(t, g)
    BY <1>1, <1>2 DEF Named, AbsentStart, c
<1>6. QED
    BY <1>4, <1>5 DEF EntriesOf, StartsOf, c

\* The stream has not moved, nor has more been given.
LEMMA StreamStays ==
    ASSUME UNCHANGED <<history, from, released, mode, cursor, skip, current, opening, pending>>,
           Given' = Given
    PROVE  /\ StreamExact => StreamExact'
           /\ DecodeExact => DecodeExact'
           /\ EndExact => EndExact'
<1>1. \A t, S : TokenExact(t, S) => TokenExact(t, S)'
    BY ExactGrows
<1>2. DecodeExact => DecodeExact'
    BY DEF DecodeExact, DecodeRecord
<1>3. EndExact => EndExact'
    BY <1>1 DEF EndExact, InvalidateChange
<1>4. ASSUME StreamExact
      PROVE  StreamExact'
    BY <1>4, StreamGoesOn DEF StreamExact, ResumeOK
<1>5. QED
    BY <1>2, <1>3, <1>4

\* Records that arrive are ahead of the stream, so none is its own drop.
LEMMA StreamGrows ==
    ASSUME IndInv, StreamExact, mode \in {"source", "decode"}, LogNext,
           UNCHANGED <<sourceVars, streamVars, consumerVars>>
    PROVE  StreamExact' /\ (OwnDropAhead' <=> OwnDropAhead)
<1>1. /\ UNCHANGED <<from, released, cursor, skip, opening, stash, applied>>
      /\ Given' = Given
    BY DEF sourceVars, streamVars, consumerVars, Given, Applied
<1>2. /\ StreamType /\ StreamInv /\ cursor \in [Group -> Cursor]
      /\ from \in [Group -> 1 .. MaxTs + 1]
    BY DEF IndInv, StreamType
<1>3. LogGrows /\ \A g \in Group : history'[g] \subseteq Record[g]
    BY <1>2, LogStep DEF StreamType
<1>4. \A g \in Group : history[g] \subseteq history'[g]
    BY <1>3 DEF LogGrows
<1>5. ASSUME NEW g \in Group, NEW r \in history'[g] \ history[g]
      PROVE  ~Inside(cursor[g], r) /\ ~Past(cursor[g], r)
    <2>1. r \in RecordType /\ r.ts > bound[g]
        BY <1>3, <1>5 DEF LogGrows
    <2>2. LaterTs(cursor[g]) <= bound[g] /\ from[g] <= bound[g] + 1
        BY <1>2 DEF StreamInv, SourceOK, BoundOK
    <2>3. bound[g] \in Nat /\ from[g] \in Int /\ cursor[g] \in Cursor
        BY <1>2, BoundsAssumption DEF StreamType, LogTypeOK
    <2>4. QED
        BY <2>1, <2>2, <2>3, ArrivesAhead DEF Ahead
<1>6. \A g \in Group : \A r \in Wanted(g)' : r \in Wanted(g) \/ r \in history'[g] \ history[g]
    BY <1>1 DEF Wanted
<1>7. ResumeOK'
    <2>1. \A g \in Group : CursorIn(g, cursor[g])'
        BY <1>1, <1>4 DEF StreamExact, ResumeOK, CursorIn
    <2>2. QED
        BY <1>1, <1>5, <1>6, <2>1 DEF StreamExact, ResumeOK
<1>8. OwnDropAhead' <=> OwnDropAhead
    <2>1. ASSUME OwnDropAhead
          PROVE  OwnDropAhead'
        <3>1. \A g \in Group : Wanted(g) \subseteq Wanted(g)'
            BY <1>1, <1>4 DEF Wanted
        <3>2. QED
            BY <1>1, <2>1, <3>1 DEF OwnDropAhead
    <2>2. ASSUME OwnDropAhead'
          PROVE  OwnDropAhead
        <3>1. PICK g \in Group : \E r \in Wanted(g)' \ released[g] : OwnDropOf(opening, g, r)
            BY <1>1, <2>2 DEF OwnDropAhead
        <3>2. PICK r \in Wanted(g)' \ released[g] : OwnDropOf(opening, g, r)
            BY <3>1
        <3>3. r \in Record[g]
            BY <1>3, <3>2 DEF Wanted
        <3>4. Past(cursor[g], r)
            BY <3>2, <3>3 DEF StreamExact
        <3>5. r \in Wanted(g)
            BY <1>5, <1>6, <3>2, <3>4
        <3>6. QED
            BY <3>2, <3>5 DEF OwnDropAhead
    <2>3. QED
        BY <2>1, <2>2
<1>9. ASSUME NEW x \in Given'
      PROVE  IsBehind(x, cursor, from)'
    <2>1. IsBehind(x, cursor, from)
        BY <1>1 DEF StreamExact
    <2>2. ASSUME NEW c, NEW f, c = cursor, f = from
          PROVE  IsBehind(x, c, f)'
        BY <1>4, <2>1, <2>2, ExactGrows
    <2>3. QED
        BY <1>1, <2>2
<1>10. ASSUME OwnDropAhead'
       PROVE  TokenExact(opening, Given)'
    <2>1. ASSUME NEW t, NEW S, t = opening, S = Given
          PROVE  TokenExact(t, S)'
        BY <1>4, <1>8, <1>10, <2>1, ExactGrows DEF StreamExact
    <2>2. QED
        BY <1>1, <2>1
<1>11. QED
    BY <1>1, <1>7, <1>8, <1>9, <1>10 DEF StreamExact, OwnDropOf

\* The log, the pages and the consumer's own steps.
LEMMA ExactBetween ==
    ASSUME IndInv, ExactInv,
           \/ LogNext /\ UNCHANGED <<sourceVars, streamVars, consumerVars>>
           \/ UNCHANGED <<history, from, released, streamVars, consumerVars>>
           \/ Save \/ BeginPull \/ ReturnStash
    PROVE  ExactInv'
<1>1. ASSUME UNCHANGED <<history, from, released, mode, cursor, skip, current, opening, pending>>,
             Given' = Given, mode # "closed" => TokensExact'
      PROVE  ExactInv'
    BY <1>1, StreamStays DEF ExactInv
<1>2. ASSUME NEW t, NEW S, TokenExact(t, S), history' = history
      PROVE  TokenExact(t, S)'
    BY <1>2, ExactGrows
<1>3. CASE LogNext /\ UNCHANGED <<sourceVars, streamVars, consumerVars>>
    <2>1. /\ UNCHANGED <<mode, cursor, current, pending, stash, token, applied, saved>>
          /\ Given' = Given /\ Applied' = Applied /\ SavedChanges' = SavedChanges
        BY <1>3 DEF sourceVars, streamVars, consumerVars, Given, Applied, SavedChanges
    <2>2. \A g \in Group : history[g] \subseteq history'[g]
        BY <1>3, LogStep DEF IndInv, StreamType, LogGrows
    <2>3. ASSUME NEW t, NEW S, TokenExact(t, S)
          PROVE  TokenExact(t, S)'
        BY <2>2, <2>3, ExactGrows
    <2>4. mode # "closed" => TokensExact'
        BY <2>1, <2>3 DEF ExactInv, TokensExact
    <2>5. mode \in {"source", "decode"} => StreamExact'
        BY <1>3, StreamGrows DEF ExactInv
    <2>6. mode = "decode" => DecodeExact'
        BY <2>1 DEF ExactInv, DecodeExact, DecodeRecord
    <2>7. mode \in {"pending", "ended"} => EndExact'
        BY <2>1, <2>3 DEF ExactInv, EndExact, InvalidateChange
    <2>8. QED
        BY <2>1, <2>4, <2>5, <2>6, <2>7 DEF ExactInv
<1>4. CASE UNCHANGED <<history, from, released, streamVars, consumerVars>> \/ BeginPull
    <2>1. /\ UNCHANGED <<history, from, released, mode, cursor, skip, current, opening, pending>>
          /\ UNCHANGED <<stash, token, applied, saved>>
        BY <1>4 DEF streamVars, consumerVars, BeginPull, StartPull, logVars
    <2>2. Given' = Given /\ Applied' = Applied /\ SavedChanges' = SavedChanges
        BY <2>1 DEF Given, Applied, SavedChanges
    <2>3. mode # "closed" => TokensExact'
        BY <1>2, <2>1, <2>2 DEF ExactInv, TokensExact
    <2>4. QED
        BY <1>1, <2>1, <2>2, <2>3
<1>5. CASE Save
    <2>1. /\ UNCHANGED <<history, from, released, mode, cursor, skip, current, opening, pending>>
          /\ UNCHANGED <<stash, token, applied>>
          /\ saved' = [token |-> token, n |-> Len(applied)] /\ mode # "closed"
        BY <1>5 DEF Save, orderedVars, logVars, sourceVars, streamVars
    <2>2. Given' = Given /\ Applied' = Applied
        BY <2>1 DEF Given, Applied
    <2>3. SavedChanges' = Applied
        <3>1. DOMAIN applied = 1 .. Len(applied)
            BY DEF IndInv, ConsumerType
        <3>2. QED
            BY <2>1, <3>1 DEF SavedChanges, Applied
    <2>4. TokensExact'
        BY <1>2, <2>1, <2>2, <2>3 DEF ExactInv, TokensExact
    <2>5. QED
        BY <1>1, <2>1, <2>2, <2>4
<1>6. CASE ReturnStash
    <2>1. PICK i \in DOMAIN stash :
             applied' = Append(applied, stash[i].change) /\ token' = stash[i].token
        BY <1>6 DEF ReturnStash, PutInReply
    <2>2. /\ UNCHANGED <<history, from, released, mode, cursor, skip, current, opening, pending>>
          /\ stash' = <<>> /\ saved' = saved
        BY <1>6 DEF ReturnStash, orderedVars, logVars, sourceVars, streamVars
    <2>3. i = 1 /\ DOMAIN stash = {1} /\ stash[1].change \in Change /\ mode # "closed"
        <3>1. /\ stash # <<>>
              /\ stash = <<>> \/ (stash = <<stash[1]>> /\ stash[1] \in [change : Change, token : Token])
            BY <2>1 DEF IndInv, ConsumerType
        <3>2. QED
            BY <2>1, <3>1 DEF IndInv, StreamType
    <2>4. Applied' = Applied \cup {stash[1].change} /\ SavedChanges' = SavedChanges
        BY <2>1, <2>2, <2>3, AppendFacts DEF IndInv
    <2>5. Given' = Given /\ Applied' = Given /\ DOMAIN stash' = {}
        BY <2>2, <2>3, <2>4 DEF Given
    <2>6. TokensExact'
        BY <1>2, <2>1, <2>2, <2>3, <2>4, <2>5 DEF ExactInv, TokensExact
    <2>7. QED
        BY <1>1, <2>2, <2>5, <2>6
<1>7. QED
    BY <1>3, <1>4, <1>5, <1>6

\* A new stream begins where its token says.
LEMMA ExactOpened ==
    ASSUME IndInv, ExactInv, Resume \/ \E s \in 1 .. MaxTs : OpenFresh(s)
    PROVE  ExactInv'
<1>1. ASSUME NEW t \in Token, NEW S, TokenExact(t, S), history' = history,
             from' = StartsOf(t), cursor' = EntriesOf(t), skip' = EntriesOf(t),
             mode' = "source", opening' = t, stash' = <<>>, token' = t, saved'.token = t,
             Applied' = S, SavedChanges' = S
      PROVE  ExactInv'
    <2>1. TokenExact(t, S)'
        BY <1>1, ExactGrows
    <2>2. Given' = S /\ DOMAIN stash' = {}
        BY <1>1 DEF Given
    <2>3. TokensExact'
        BY <1>1, <2>1, <2>2 DEF TokensExact
    <2>4. /\ \A g \in Group : CursorIn(g, EntriesOf(t)[g])'
          /\ \A x \in S : IsBehind(x, EntriesOf(t), StartsOf(t))'
          /\ t.kind = "event" => \A x \in S : x.class = "invalidate" => x.ts < t.ts
        BY <2>1 DEF TokenExact
    <2>5. ResumeOK'
        BY <1>1, <2>4 DEF ResumeOK
    <2>6. \A g \in Group : \A r \in Record[g] : OwnDropOf(t, g, r) => Past(cursor'[g], r)
        BY <1>1, OwnDropPast
    <2>7. StreamExact'
        BY <1>1, <2>1, <2>2, <2>4, <2>5, <2>6 DEF StreamExact, OwnDropOf
    <2>8. QED
        BY <1>1, <2>3, <2>7 DEF ExactInv
<1>2. CASE Resume
    <2>1. ASSUME NEW t, t = saved.token
          PROVE  /\ from' = StartsOf(t) /\ cursor' = EntriesOf(t) /\ skip' = EntriesOf(t)
                 /\ mode' = "source" /\ opening' = t /\ stash' = <<>> /\ token' = t
                 /\ saved' = saved /\ history' = history /\ mode # "closed"
                 /\ applied' = SubSeq(applied, 1, saved.n)
        <3>1. EntriesOf(t) = [g \in Group |-> IF Named(t, g) THEN t.entries[g] ELSE NoCursor]
            BY DEF EntriesOf
        <3>2. StartsOf(t) = [g \in Group |-> IF Named(t, g) THEN LaterTs(EntriesOf(t)[g])
                                                            ELSE AbsentStart(t)]
            BY DEF StartsOf, EntriesOf
        <3>3. QED
            BY <1>2, <2>1, <3>1, <3>2 DEF Resume, Opened, logVars
    <2>2. /\ applied \in Seq(Change) /\ saved.n \in Nat /\ saved.n <= Len(applied)
          /\ saved.token \in Token
        BY DEF IndInv, ConsumerType
    <2>3. applied' = SubSeq(applied, 1, saved.n) /\ saved' = saved
        BY <2>1
    <2>4. /\ DOMAIN applied' = 1 .. saved.n
          /\ \A i \in 1 .. saved.n : applied'[i] = applied[i]
        BY <2>2, <2>3
    <2>5. Applied' = SavedChanges /\ SavedChanges' = SavedChanges
        BY <2>3, <2>4 DEF Applied, SavedChanges
    <2>6. ASSUME NEW t, NEW S, t = saved.token, S = SavedChanges
          PROVE  ExactInv'
        <3>1. TokenExact(t, S)
            BY <2>1, <2>6 DEF ExactInv, TokensExact
        <3>2. QED
            BY <1>1, <2>1, <2>2, <2>5, <2>6, <3>1
    <2>7. QED
        BY <2>6
<1>3. ASSUME NEW s \in 1 .. MaxTs, OpenFresh(s)
      PROVE  ExactInv'
    <2>1. ASSUME NEW t, t = [NoToken EXCEPT !.ts = s]
          PROVE  ExactInv'
        <3>1. /\ from' = [g \in Group |-> s + 1] /\ mode' = "source" /\ history' = history
              /\ opening' = t /\ stash' = <<>> /\ token' = t /\ mode = "closed"
              /\ saved' = [token |-> t, n |-> 0] /\ applied' = applied
              /\ cursor' = [g \in Group |-> NoCursor] /\ skip' = [g \in Group |-> NoCursor]
            BY <1>3, <2>1 DEF OpenFresh, Opened, logVars
        <3>2. applied = <<>>
            BY <3>1 DEF IndInv, StreamType
        <3>3. Applied' = {} /\ SavedChanges' = {}
            BY <3>1, <3>2 DEF Applied, SavedChanges
        <3>4. /\ t \in Token /\ t.ts = s /\ t.kind = "watermark"
              /\ t.entries = [g \in Group |-> NoCursor] /\ AbsentStart(t) = s + 1
            BY <2>1, NoCursorFacts, BoundsAssumption DEF NoToken, Token, TokenKind, AbsentStart
        <3>5. ASSUME NEW g \in Group
              PROVE  ~Named(t, g)
            <4>1. t.entries[g] = NoCursor
                BY <3>4
            <4>2. LaterTs(t.entries[g]) = 0 /\ AbsentStart(t) = s + 1 /\ ~(0 >= s + 1)
                BY <3>4, <4>1, NoCursorFacts
            <4>3. QED
                BY <4>2 DEF Named
        <3>6. /\ EntriesOf(t) = [g \in Group |-> NoCursor]
              /\ StartsOf(t) = [g \in Group |-> s + 1]
            BY <3>4, <3>5 DEF EntriesOf, StartsOf
        <3>7. TokenExact(t, {})
            BY <3>6 DEF TokenExact, CursorIn, NoCursor
        <3>8. QED
            BY <1>1, <3>1, <3>3, <3>4, <3>6, <3>7
    <2>2. QED
        BY <2>1
<1>4. QED
    BY <1>2, <1>3

\* The invalidate event, and the replies without an event.
LEMMA ExactReply ==
    ASSUME IndInv, EndsOnce, ExactInv, ReturnInvalidate \/ ReturnNone \/ ReturnEnded
    PROVE  ExactInv'
<1>1. ConsumerType /\ pending \in Token /\ cursor \in [Group -> Cursor]
    BY DEF IndInv, StreamType
<1>2. CASE ReturnInvalidate
    <2>1. ASSUME NEW c, c = InvalidateChange(pending.ts), NEW t, t = pending
          PROVE  ExactInv'
        <3>1. /\ mode = "pending" /\ mode' = "ended" /\ Return(c, t) /\ pulling
              /\ pending' = pending /\ history' = history
            BY <1>2, <2>1 DEF ReturnInvalidate, InvalidateChange, orderedVars, logVars
        <3>2. /\ pending.kind = "invalidate" /\ stash = <<>> /\ TokenOK(pending, Given)
              /\ EndExact /\ TokensExact
            BY <3>1 DEF IndInv, EndInv, ConsumerType, ExactInv
        <3>3. c \in Change
            <4>1. pending.ts \in 1 .. MaxTs
                <5>1. AbsentStart(pending) >= 1
                    BY <3>2 DEF TokenOK, TokenCovers
                <5>2. QED
                    BY <1>1, <3>2, <5>1, BoundsAssumption DEF AbsentStart, Token
            <4>2. QED
                BY <2>1, <4>1, ChangeFacts
        <3>4. EndBehind(c, EntriesOf(t), StartsOf(t))
            <4>1. PastDrop(EntriesOf(pending), pending.ts)
                BY <3>2 DEF EndsOnce, TokenPastDrop
            <4>2. QED
                BY <2>1, <4>1 DEF PastDrop, EndBehind, Ahead
        <3>5. TokenExact(t, GivenWith(c))
            BY <2>1, <3>2, <3>4 DEF TokenExact, IsBehind, GivenWith, EndExact
        <3>6. TokensExact'
            BY <1>1, <3>1, <3>2, <3>3, <3>5, ReturnExact
        <3>7. Given' = GivenWith(c)
            BY <1>1, <3>1, <3>2, <3>3, ReturnOutcome
        <3>8. ASSUME NEW S, S = GivenWith(c)
              PROVE  TokenExact(t, S)'
            BY <3>1, <3>5, <3>8, ExactGrows
        <3>9. TokenExact(pending, Given)'
            BY <2>1, <3>1, <3>7, <3>8
        <3>10. QED
            BY <3>1, <3>6, <3>9 DEF ExactInv, EndExact
    <2>2. QED
        BY <2>1
<1>3. CASE ReturnNone
    <2>1. PICK h \in Group : token' = WatermarkToken(scannedTs[h])
        BY <1>3 DEF ReturnNone
    <2>2. /\ mode = "source" /\ stash = <<>>
          /\ UNCHANGED <<history, from, released, mode, cursor, skip, current, opening, pending>>
          /\ UNCHANGED <<stash, applied, saved>>
        BY <1>3 DEF ReturnNone, Drain, logVars, IndInv, ConsumerType
    <2>3. Given' = Given /\ Applied' = Applied /\ SavedChanges' = SavedChanges /\ Given = Applied
        BY <1>1, <2>2, GivenFacts DEF Given, Applied, SavedChanges
    <2>4. StreamExact /\ TokensExact /\ StreamInv
        BY <2>2 DEF ExactInv, IndInv
    <2>5. ASSUME NEW t, t = WatermarkToken(scannedTs[h])
          PROVE  TokenExact(t, Applied)
        <3>1. /\ from \in [Group -> Nat] /\ scannedTs[h] \in 0 .. MaxTs /\ scannedTs[h] \in Nat
              /\ \A g \in Group : history[g] \subseteq Record[g] /\ Record[g] \subseteq RecordType
            <4>1. from \in [Group -> 1 .. MaxTs + 1] /\ scannedTs \in [Group -> 0 .. MaxTs]
                BY DEF IndInv, StreamType
            <4>2. QED
                BY <4>1, BoundsAssumption, RecordAssumption DEF IndInv, StreamType
        <3>2. /\ t \in Token /\ t.kind = "watermark" /\ AbsentStart(t) = scannedTs[h] + 1
              /\ t.entries = Entries(cursor, scannedTs[h])
            <4>1. Entries(cursor, scannedTs[h]) \in [Group -> Cursor]
                BY <1>1, NoCursorFacts DEF Entries
            <4>2. QED
                BY <2>5, <3>1, <4>1 DEF WatermarkToken, Token, TokenKind, AbsentStart
        <3>3. AbsentStart(t) >= 1 /\ t.entries = Entries(cursor, AbsentStart(t) - 1)
            BY <3>1, <3>2
        <3>4. ASSUME NEW g \in Group
              PROVE  /\ LaterTs(cursor[g]) # 0 => from[g] <= LaterTs(cursor[g])
                     /\ LaterTs(cursor[g]) = 0 => from[g] <= AbsentStart(t)
            <4>1. /\ LaterTs(cursor[g]) # 0 => from[g] <= LaterTs(cursor[g])
                  /\ LaterTs(cursor[g]) = 0 => from[g] <= from[h]
                  /\ from[h] <= scannedTs[h] + 1
                BY <2>4 DEF StreamInv, SourceOK
            <4>2. from[g] \in Nat /\ from[h] \in Nat
                BY <3>1
            <4>3. QED
                BY <3>1, <3>2, <4>1, <4>2
        <3>5. ASSUME NEW g \in Group, NEW r \in Record[g]
              PROVE  Further(cursor[g], from[g], EntriesOf(t)[g], StartsOf(t)[g], r)
            <4>1. r \in RecordType
                BY <3>1
            <4>2. QED
                BY <1>1, <3>1, <3>2, <3>3, <3>4, <4>1, TokenFurther
        <3>6. ASSUME NEW x \in Applied
              PROVE  IsBehind(x, EntriesOf(t), StartsOf(t))
            <4>1. IsBehind(x, cursor, from)
                BY <2>3, <2>4 DEF StreamExact
            <4>2. QED
                BY <3>1, <3>5, <4>1, FurtherBehind
        <3>7. ASSUME NEW g \in Group
              PROVE  CursorIn(g, EntriesOf(t)[g])
            <4>1. EntriesOf(t)[g] = cursor[g] \/ EntriesOf(t)[g] = NoCursor
                BY <1>1, <3>2, <3>3, EntryFacts
            <4>2. QED
                BY <2>4, <4>1 DEF CursorIn, NoCursor, StreamExact, ResumeOK
        <3>8. QED
            BY <3>2, <3>6, <3>7 DEF TokenExact
    <2>6. ASSUME NEW t, NEW S, TokenExact(t, S)
          PROVE  TokenExact(t, S)'
        BY <2>2, <2>6, ExactGrows
    <2>7. DOMAIN stash' = {}
        BY <2>2
    <2>8. TokensExact'
        BY <2>1, <2>2, <2>3, <2>4, <2>5, <2>6, <2>7 DEF TokensExact
    <2>9. QED
        BY <2>2, <2>3, <2>8, StreamStays DEF ExactInv
<1>4. CASE ReturnEnded
    <2>1. /\ mode = "ended" /\ token' = pending /\ stash = <<>>
          /\ UNCHANGED <<history, from, released, mode, cursor, skip, current, opening, pending>>
          /\ UNCHANGED <<stash, applied, saved>>
        BY <1>4 DEF ReturnEnded, orderedVars, logVars, sourceVars, IndInv, ConsumerType
    <2>2. Given' = Given /\ Applied' = Applied /\ SavedChanges' = SavedChanges /\ Given = Applied
        BY <1>1, <2>1, GivenFacts DEF Given, Applied, SavedChanges
    <2>3. ASSUME NEW t, NEW S, TokenExact(t, S)
          PROVE  TokenExact(t, S)'
        BY <2>1, <2>3, ExactGrows
    <2>4. DOMAIN stash' = {}
        BY <2>1
    <2>5. TokensExact'
        BY <2>1, <2>2, <2>3, <2>4 DEF ExactInv, TokensExact, EndExact
    <2>6. QED
        BY <2>1, <2>2, <2>5, StreamStays DEF ExactInv
<1>5. QED
    BY <1>2, <1>3, <1>4

\* A record's cursor has not reached any record that is not released yet.
LEMMA BeyondRecord ==
    ASSUME IndInv, NEW g \in Group, NEW r \in RecordType, Producing(g, r),
           NEW s \in Wanted(g) \ released[g], s # r
    PROVE  s \in RecordType /\ ~Inside(cursor[g], s)
<1>1. s \in RecordType /\ cursor[g] \in Cursor
    BY DEF IndInv, StreamType, LogTypeOK, Wanted
<1>2. Before(r, s) /\ ~Past(cursor[g], r)
    BY DEF Producing
<1>3. QED
    BY <1>1, <1>2, NothingNewBefore DEF Inside

\* The stream after a cursor has advanced.
LEMMA AdvanceStreamExact ==
    ASSUME IndInv, EndsOnce, StreamExact, mode \in {"source", "decode"},
           NEW g \in Group, NEW r \in Record[g], Producing(g, r),
           NEW d, CursorAdvances(g, r, d), cursor' = [cursor EXCEPT ![g] = d],
           UNCHANGED <<history, from, opening>>,
           released' = [released EXCEPT ![g] = @ \cup {r}],
           \A h \in Group \ {g} : skip'[h] = skip[h],
           \A x \in Given' : x \in Given \/ (x \in Changes(g, r) /\ IsBehind(x, cursor', from))
    PROVE  StreamExact'
<1>1. /\ r \in RecordType /\ released \in [Group -> SUBSET RecordType]
      /\ \A h \in Group : Record[h] \subseteq RecordType
      /\ cursor \in [Group -> Cursor]
    BY RecordAssumption DEF IndInv, StreamType
<1>2. /\ cursor'[g] = d /\ \A h \in Group \ {g} : cursor'[h] = cursor[h]
      /\ released'[g] = released[g] \cup {r}
      /\ \A h \in Group \ {g} : released'[h] = released[h]
    BY <1>1
<1>3. /\ \A h \in Group : CursorIn(h, cursor'[h])
      /\ \A x \in Given : IsBehind(x, cursor', from)
      /\ \A h \in Group : \A s \in RecordType : Past(cursor[h], s) => Past(cursor'[h], s)
    BY <1>1, AdvanceExact
<1>4. ASSUME NEW h \in Group, NEW s \in Wanted(h) \ released'[h], Inside(cursor'[h], s)
      PROVE  cursor'[h] = skip'[h]
    <2>1. CASE h # g
        BY <1>2, <1>4, <2>1 DEF StreamExact, ResumeOK
    <2>2. CASE h = g
        <3>1. s \in Wanted(g) \ released[g] /\ s # r
            BY <1>2, <2>2
        <3>2. s \in RecordType /\ ~Inside(cursor[g], s)
            BY <1>1, <3>1, BeyondRecord
        <3>3. QED
            BY <1>2, <1>4, <2>2, <3>1, <3>2 DEF CursorAdvances, Advances
    <2>3. QED
        BY <2>1, <2>2
<1>5. \A x \in Changes(g, r) : x.class # "invalidate"
    <2>1. CASE r.stream = "data"
        <3>1. \A q : DocumentChange(r.ts, Blob[g][r], q).class = "document"
            BY DEF DocumentChange
        <3>2. \A x \in Changes(g, r) : x.class = "document"
            BY <2>1, <3>1 DEF Changes
        <3>3. QED
            BY <3>2
    <2>2. CASE r.stream # "data"
        <3>1. r.stream = "ddl"
            BY <1>1, <2>2, KeyFacts
        <3>2. QED
            BY <2>2, <3>1, ReportedFacts DEF Changes
    <2>3. QED
        BY <2>1, <2>2
<1>6. Given' \subseteq Given \/ ~OwnDropAhead
    BY OwnDropFirst
<1>7. \A h \in Group : released[h] \subseteq released'[h]
    BY <1>2
<1>8. QED
    BY <1>1, <1>3, <1>4, <1>5, <1>6, <1>7, StreamGoesOn

\* The decoder.
LEMMA ExactDecoding ==
    ASSUME IndInv, EndsOnce, ExactInv, DecodeEnd \/ \E p : DecodeEntry(p)
    PROVE  ExactInv'
<1>1. mode = "decode"
    BY DEF DecodeEnd, DecodeEntry
<1>2. ASSUME NEW g, g = current.group, NEW r, r = DecodeRecord
      PROVE  ExactInv'
    <2>1. /\ Producing(g, r) /\ g \in Group /\ r \in RecordType /\ r \in Record[g]
          /\ r.stream = "data" /\ r.ts = current.ts /\ current.key = KeyOf(r)
          /\ ~Past(cursor[g], r) /\ r \in history[g]
        BY <1>1, <1>2, DecodeProducing DEF Producing
    <2>2. /\ cursor \in [Group -> Cursor] /\ released \in [Group -> SUBSET RecordType]
          /\ ConsumerType /\ StreamExact /\ DecodeExact /\ TokensExact
          /\ current \in CurrentType /\ r \in released[g]
        BY <1>1, <1>2 DEF IndInv, StreamType, ExactInv, DecodeOK
    <2>3. released = [released EXCEPT ![g] = @ \cup {r}]
        <3>1. released[g] \cup {r} = released[g]
            BY <2>2
        <3>2. QED
            BY <2>1, <2>2, <3>1
    <2>4. CASE DecodeEnd
        <3> DEFINE d == Finished(cursor[g], current.key)
        <3>1. /\ cursor' = [cursor EXCEPT ![g] = d] /\ mode' = "source"
              /\ UNCHANGED <<history, from, released, skip, opening, saved, token, stash, applied>>
            BY <1>2, <2>4
            DEF DecodeEnd, Finished, GoOn, consumerVars, orderedVars, logVars, sourceVars
        <3>2. d \in Cursor /\ LaterTs(d) = r.ts /\ PastUpTo(d, r) /\ ~d.partial
            BY <2>1, <2>2, FinishedFacts
        <3> HIDE DEF d
        <3>3. CursorAdvances(g, r, d)
            BY <2>1, <3>2 DEF CursorAdvances, Advances, PastUpTo, Inside, CursorIn
        <3>4. Given' = Given /\ Applied' = Applied /\ SavedChanges' = SavedChanges
            BY <3>1 DEF Given, Applied, SavedChanges
        <3>5. StreamExact'
            BY <1>1, <2>1, <2>2, <2>3, <3>1, <3>3, <3>4, AdvanceStreamExact
        <3>6. ASSUME NEW t, NEW S, TokenExact(t, S)
              PROVE  TokenExact(t, S)'
            BY <3>1, <3>6, ExactGrows
        <3>7. TokensExact'
            BY <2>2, <3>1, <3>4, <3>6 DEF TokensExact
        <3>8. QED
            BY <3>1, <3>5, <3>7 DEF ExactInv
    <2>5. ASSUME NEW p, DecodeEntry(p)
          PROVE  ExactInv'
        <3>1. ASSUME NEW d, d = Within(cursor[g], current.key, p),
                     NEW cur, cur = [cursor EXCEPT ![g] = d],
                     NEW x, x = DocumentChange(r.ts, Blob[g][r], p),
                     NEW t, t = EventToken(r.ts, cur)
              PROVE  ExactInv'
            <4>1. /\ mode' = "decode" /\ UNCHANGED <<history, from, released, skip, opening>>
                  /\ IsNextPlace(p) /\ current' = [current EXCEPT !.at = p] /\ pulling
                  /\ \/ cursor' = cursor /\ GoOn
                     \/ PlaceLess(current.through, p) /\ cursor' = cur /\ Return(x, t)
                BY <1>1, <1>2, <2>1, <2>5, <3>1
                DEF DecodeEntry, Within, DecodeRecord, orderedVars, logVars, sourceVars
            <4>2. p \in Places(Blob[g][r]) /\ p \in Place /\ PlaceLess(current.at, p)
                BY <1>2, <2>1, <4>1, PlaceFacts DEF IsNextPlace, PlacesLeft, DecodeRecord
            <4>3. /\ current'.at = p /\ current'.through = current.through
                  /\ current'.group = g /\ DecodeRecord' = r
                  /\ current.at \in Place /\ current.through \in Place
                  /\ cursor[g] \in Cursor /\ cursor[g].at \in Place
                BY <1>2, <2>1, <2>2, <4>1 DEF CurrentType, DecodeRecord, RecordOf, Cursor
            <4>4. /\ d \in Cursor /\ LaterTs(d) = r.ts /\ PastBefore(d, r) /\ d.at = p
                  /\ \A s \in RecordType : Inside(d, s) <=> s = r
                BY <2>1, <2>2, <3>1, <4>2, WithinFacts
            <4>5. ~Past(d, r)
                BY <2>1, <4>4, BeforeOrder DEF PastBefore
            <4>6. stash = <<>> /\ x \in Changes(g, r) /\ x \in Change
                <5>1. stash = <<>>
                    BY <2>2, <4>1 DEF ConsumerType
                <5>2. x \in Changes(g, r)
                    BY <2>1, <3>1, <4>2 DEF Changes
                <5>3. QED
                    BY <2>1, <5>1, <5>2, ChangeFacts
            <4>7. CASE cursor' = cursor /\ GoOn
                <5>1. UNCHANGED <<saved, token, stash, applied>>
                    BY <4>7 DEF GoOn, consumerVars
                <5>2. Given' = Given /\ Applied' = Applied /\ SavedChanges' = SavedChanges
                    BY <5>1 DEF Given, Applied, SavedChanges
                <5>3. ASSUME NEW u, NEW S, TokenExact(u, S)
                      PROVE  TokenExact(u, S)'
                    BY <4>1, <5>3, ExactGrows
                <5>4. TokensExact'
                    BY <2>2, <5>1, <5>2, <5>3 DEF TokensExact
                <5>5. StreamExact'
                    BY <2>2, <4>1, <4>7, <5>2, StreamGoesOn DEF StreamExact, ResumeOK
                <5>6. DecodeExact'
                    <6>1. SUFFICES ASSUME Inside(cursor[g], r), cursor[g].at # current.through,
                                          PlaceLess(p, cursor[g].at)
                                   PROVE  FALSE
                        BY <4>3, <4>7 DEF DecodeExact
                    <6>2. ~PlaceLess(current.at, cursor[g].at)
                        BY <1>2, <2>2, <6>1 DEF DecodeExact
                    <6>3. QED
                        BY <4>2, <4>3, <6>1, <6>2 DEF PlaceLess, Place
                <5>7. QED
                    BY <4>1, <5>4, <5>5, <5>6 DEF ExactInv
            <4>8. CASE PlaceLess(current.through, p) /\ cursor' = cur /\ Return(x, t)
                <5>1. CursorAdvances(g, r, d)
                    <6>1. ASSUME Inside(cursor[g], r), NEW q \in Place, ~PlaceLess(cursor[g].at, q)
                          PROVE  ~PlaceLess(p, q)
                        <7>1. \/ cursor[g].at = current.through
                              \/ ~PlaceLess(current.at, cursor[g].at)
                            BY <1>2, <2>2, <6>1 DEF DecodeExact
                        <7>2. QED
                            BY <4>2, <4>3, <4>8, <6>1, <7>1 DEF PlaceLess, Place
                    <6>2. CursorIn(g, d)
                        BY <2>1, <4>4, <4>5 DEF CursorIn
                    <6>3. Advances(cursor[g], d, r)
                        BY <4>4 DEF Advances, PastBefore
                    <6>4. QED
                        BY <2>1, <4>4, <6>1, <6>2, <6>3 DEF CursorAdvances
                <5>2. IsBehind(x, cur, from)
                    <6>1. BehindAt(cur[g], from[g], r, p)
                        <7>1. cur[g] = d
                            BY <2>1, <2>2, <3>1
                        <7>2. ~PlaceLess(p, p)
                            BY <4>2 DEF PlaceLess, Place
                        <7>3. QED
                            BY <2>1, <4>4, <7>1, <7>2 DEF BehindAt
                    <6>2. QED
                        BY <2>1, <3>1, <4>2, <6>1 DEF IsBehind, DocumentBehind
                <5>3. TokenExact(t, GivenWith(x))
                    <6>1. /\ Changes(g, r) # {}
                          /\ \A y \in GivenWith(x) :
                                y \in Given \/ (y \in Changes(g, r) /\ IsBehind(y, cur, from))
                        BY <4>6, <5>2 DEF GivenWith
                    <6>2. QED
                        BY <1>1, <2>1, <2>2, <3>1, <5>1, <6>1, EventExact
                <5>4. TokensExact'
                    BY <2>2, <4>1, <4>6, <4>8, <5>3, ReturnExact
                <5>5. Given' = GivenWith(x)
                    BY <2>2, <4>6, <4>8, ReturnOutcome
                <5>6. StreamExact'
                    <6>1. \A y \in Given' : y \in Given \/ (y \in Changes(g, r) /\ IsBehind(y, cursor', from))
                        BY <4>6, <4>8, <5>2, <5>5 DEF GivenWith
                    <6>2. QED
                        BY <1>1, <2>1, <2>2, <2>3, <3>1, <4>1, <4>8, <5>1, <6>1, AdvanceStreamExact
                <5>7. DecodeExact'
                    <6>1. cursor'[g] = d
                        BY <2>1, <2>2, <3>1, <4>8
                    <6>2. ~PlaceLess(p, p)
                        BY <4>2 DEF PlaceLess, Place
                    <6>3. QED
                        BY <4>3, <4>4, <6>1, <6>2 DEF DecodeExact
                <5>8. QED
                    BY <4>1, <5>4, <5>6, <5>7 DEF ExactInv
            <4>9. QED
                BY <4>1, <4>7, <4>8
        <3>2. QED
            BY <3>1
    <2>6. QED
        BY <2>4, <2>5
<1>3. QED
    BY <1>2

\* A record that the source releases.
LEMMA ExactTaken ==
    ASSUME IndInv, EndsOnce, ExactInv, NEW g \in Group, NEW r \in Record[g], TakeRecord(g, r)
    PROVE  ExactInv'
<1>1. /\ pulling /\ mode = "source" /\ stash = <<>>
      /\ r \in RecordType /\ r.ts \in 1 .. MaxTs /\ r.ts \in Nat
      /\ IsNext(g, r) /\ r \in history[g] /\ r \in Wanted(g) \ released[g]
      /\ released' = [released EXCEPT ![g] = @ \cup {r}]
      /\ UNCHANGED <<history, bound, from>>
      /\ skip[g] \in Cursor /\ LaterTs(skip[g]) <= r.ts /\ LaterTs(skip[g]) \in Nat
      /\ StreamType /\ ConsumerType
    BY TakenFacts
<1>2. /\ cursor \in [Group -> Cursor] /\ opening \in Token /\ skip \in [Group -> Cursor]
      /\ released \in [Group -> SUBSET RecordType]
      /\ StreamExact /\ TokensExact
    BY <1>1 DEF StreamType, ExactInv
<1>3. \A h \in Group : /\ released[h] \subseteq released'[h]
                       /\ Wanted(h) \ released'[h] \subseteq Wanted(h) \ released[h]
                       /\ h = g => r \in released'[h]
    BY <1>1, <1>2
<1>4. ASSUME NEW t, NEW S, TokenExact(t, S)
      PROVE  TokenExact(t, S)'
    BY <1>1, <1>4, ExactGrows
\* The step gives nothing.
<1>5. ASSUME UNCHANGED consumerVars
      PROVE  Given' = Given /\ TokensExact'
    <2>1. UNCHANGED <<saved, token, stash, applied>>
        BY <1>5 DEF consumerVars
    <2>2. Given' = Given /\ Applied' = Applied /\ SavedChanges' = SavedChanges
        BY <2>1 DEF Given, Applied, SavedChanges
    <2>3. QED
        BY <1>2, <1>4, <2>1, <2>2 DEF TokensExact
<1>6. CASE BeginData(g, r)
    <2>1. /\ r.stream = "data" /\ UNCHANGED <<cursor, opening, consumerVars>>
          /\ skip' = [skip EXCEPT ![g] = IF LaterTs(skip[g]) < r.ts THEN NoCursor ELSE skip[g]]
        BY <1>6 DEF BeginData, GoOn, PassResumePoint
    <2>2. CASE ProducedBefore(g, r) /\ mode' = mode
        <3>1. LaterTs(skip[g]) = r.ts
            BY <2>2 DEF ProducedBefore, Skipping
        <3>2. skip' = skip
            BY <1>1, <1>2, <2>1, <3>1
        <3>3. StreamExact'
            BY <1>1, <1>2, <1>3, <1>5, <2>1, <3>2, StreamGoesOn DEF StreamExact, ResumeOK
        <3>4. QED
            BY <1>1, <1>5, <2>1, <2>2, <3>3 DEF ExactInv
    <2>3. CASE ~ProducedBefore(g, r) /\ mode' = "decode"
        <3>1. current' = [group |-> g, ts |-> r.ts, key |-> KeyOf(r), at |-> NoPlace,
                          through |-> IF Skipping(g, r) /\ KeyOf(r) = skip[g].dataKey
                                      THEN skip[g].at ELSE NoPlace]
            BY <1>6, <2>3 DEF BeginData
        <3>2. Producing(g, r)
            BY <1>1, <2>1, <2>3, SkipTests, TakenProducing
        <3>3. StreamExact'
            <4>1. ASSUME NEW h \in Group, NEW s \in Wanted(h) \ released'[h], Inside(cursor[h], s)
                  PROVE  cursor[h] = skip'[h]
                <5>1. CASE h # g
                    BY <1>2, <1>3, <2>1, <4>1, <5>1 DEF StreamExact, ResumeOK
                <5>2. CASE h = g
                    BY <1>1, <1>3, <3>2, <4>1, <5>2, BeyondRecord
                <5>3. QED
                    BY <5>1, <5>2
            <4>2. QED
                BY <1>1, <1>2, <1>3, <1>5, <2>1, <4>1, StreamGoesOn DEF StreamExact, ResumeOK
        <3>4. DecodeExact'
            <4>1. DecodeRecord' = r /\ current'.group = g
                <5>1. current'.group = g /\ current'.ts = r.ts /\ current'.key = KeyOf(r)
                    BY <3>1
                <5>2. QED
                    BY <1>1, <2>1, <5>1, KeyFacts DEF DecodeRecord, RecordOf, RecordType
            <4>2. ASSUME Inside(cursor[g], r)
                  PROVE  cursor[g].at = current'.through
                <5>1. cursor[g] = skip[g] /\ KeyOf(r) = skip[g].dataKey
                    BY <1>1, <1>2, <4>2 DEF StreamExact, ResumeOK, Inside
                <5>2. Skipping(g, r)
                    <6>1. r.ts <= LaterTs(skip[g])
                        BY <1>1, <5>1, LaterTsFacts, KeyFacts
                    <6>2. QED
                        BY <1>1, <6>1 DEF Skipping
                <5>3. QED
                    BY <3>1, <5>1, <5>2
            <4>3. QED
                BY <2>1, <4>1, <4>2 DEF DecodeExact
        <3>5. QED
            BY <1>5, <2>1, <2>3, <3>3, <3>4 DEF ExactInv
    <2>4. QED
        BY <1>6, <2>2, <2>3 DEF BeginData
<1>7. CASE BeginOldDdl(g, r)
    <2>1. UNCHANGED <<cursor, skip, opening, consumerVars>>
        BY <1>7 DEF BeginOldDdl, GoOn
    <2>2. CASE mode' = mode
        <3>1. StreamExact'
            BY <1>1, <1>2, <1>3, <1>5, <2>1, StreamGoesOn DEF StreamExact, ResumeOK
        <3>2. QED
            BY <1>1, <1>5, <2>1, <2>2, <3>1 DEF ExactInv
    <2>3. CASE mode' # mode
        <3>1. /\ OwnDropOf(opening, g, r) /\ mode' = "pending"
              /\ pending' = InvalidateToken(opening)
            BY <1>7, <2>3 DEF BeginOldDdl, IsOwnDrop, OwnDropOf, IsDrop
        <3>2. opening.kind = "event" /\ TokenExact(opening, Given)
            BY <1>1, <1>2, <3>1 DEF OwnDropOf, OwnDropAhead, StreamExact
        <3>3. TokenExact(InvalidateToken(opening), Given)
            BY <1>2, <3>2, InvalidateExact
        <3>4. ASSUME NEW t, NEW S, t = InvalidateToken(opening), S = Given
              PROVE  TokenExact(t, S)'
            BY <1>4, <3>3, <3>4
        <3>5. TokenExact(pending, Given)'
            BY <1>5, <2>1, <3>1, <3>4
        <3>6. pending'.ts = opening.ts
            BY <1>2, <3>1 DEF InvalidateToken, Token
        <3>7. InvalidateChange(pending'.ts) \notin Given'
            <4>1. \A x \in Given : x.class = "invalidate" => x.ts < opening.ts
                BY <1>2, <3>2 DEF StreamExact
            <4>2. ~(opening.ts < opening.ts)
                BY <1>2 DEF Token
            <4>3. QED
                BY <1>5, <2>1, <3>6, <4>1, <4>2 DEF InvalidateChange
        <3>8. QED
            BY <1>5, <2>1, <3>1, <3>5, <3>7 DEF ExactInv, EndExact, InvalidateChange
    <2>4. QED
        BY <2>2, <2>3
<1>8. CASE BeginDdl(g, r)
    <2>1. ASSUME NEW d, d = DdlFinished(cursor[g], KeyOf(r)),
                 NEW cur, cur = [cursor EXCEPT ![g] = d],
                 NEW t, t = EventToken(r.ts, cur)
          PROVE  ExactInv'
        <3>1. /\ r.stream = "ddl" /\ ~OldDdl(g, r) /\ cursor' = cur
              /\ \/ Reported(r.ts, SchemaOp[g][r]) = {} /\ GoOn
                 \/ \E c \in Reported(r.ts, SchemaOp[g][r]) : Return(c, t)
              /\ \/ IsDrop(g, r) /\ mode' = "pending" /\ pending' = InvalidateToken(t)
                 \/ mode' = mode /\ ~IsDrop(g, r)
              /\ opening' = opening /\ skip' = [skip EXCEPT ![g] = NoCursor]
            <4>1. cur = [cursor EXCEPT ![g].ddlKey = KeyOf(r)]
                BY <2>1 DEF DdlFinished
            <4>2. QED
                BY <1>8, <2>1, <4>1 DEF BeginDdl, IsDrop
        <3>2. Producing(g, r)
            <4>1. ~Past(skip[g], r)
                BY <1>1, <3>1, SkipTests
            <4>2. QED
                BY <1>1, <4>1, TakenProducing
        <3>3. ~cursor[g].partial
            BY <1>1, <1>2, <3>1, <3>2, NotInside DEF StreamExact
        <3>4. d \in Cursor /\ LaterTs(d) = r.ts /\ PastUpTo(d, r) /\ ~d.partial
            <4>1. d \in Cursor /\ LaterTs(d) = r.ts /\ PastUpTo(d, r)
                BY <1>1, <1>2, <2>1, <3>1, <3>2, DdlFinishedFacts DEF Producing
            <4>2. d.partial = cursor[g].partial
                BY <1>2, <2>1 DEF DdlFinished, Cursor
            <4>3. QED
                BY <3>3, <4>1, <4>2
        <3>5. CursorAdvances(g, r, d) /\ Past(d, r)
            BY <1>1, <3>4 DEF CursorAdvances, Advances, PastUpTo, Inside, CursorIn
        <3>6. \A c \in Reported(r.ts, SchemaOp[g][r]) :
                 c \in Changes(g, r) /\ c \in Change /\ IsBehind(c, cur, from)
            <4>1. cur[g] = d
                BY <1>2, <2>1
            <4>2. \A c \in Reported(r.ts, SchemaOp[g][r]) : IsBehind(c, cur, from)
                BY <3>1, <3>5, <4>1 DEF IsBehind, DdlBehind, Ahead
            <4>3. QED
                BY <3>1, <4>2, ChangeFacts DEF Changes
        <3>7. \A S : Changes(g, r) # {} /\ (\A x \in S : \/ x \in Given
                                                         \/ x \in Changes(g, r) /\ IsBehind(x, cur, from))
                 => TokenExact(t, S) /\ TokenExact(InvalidateToken(t), S)
            BY <1>1, <1>2, <2>1, <3>2, <3>5, EventExact
\* What was given by the step is behind; with it all tokens are exact.
        <3>8. /\ TokensExact'
              /\ \A x \in Given' : x \in Given \/ (x \in Changes(g, r) /\ IsBehind(x, cur, from))
            <4>1. CASE GoOn
                BY <1>5, <4>1 DEF GoOn
            <4>2. ASSUME NEW c \in Reported(r.ts, SchemaOp[g][r]), Return(c, t)
                  PROVE  /\ TokensExact'
                         /\ \A x \in Given' : \/ x \in Given
                                              \/ x \in Changes(g, r) /\ IsBehind(x, cur, from)
                <5>1. \A x \in GivenWith(c) : \/ x \in Given
                                              \/ x \in Changes(g, r) /\ IsBehind(x, cur, from)
                    BY <3>6 DEF GivenWith
                <5>2. TokenExact(t, GivenWith(c))
                    BY <3>6, <3>7, <5>1
                <5>3. TokensExact' /\ Given' = GivenWith(c)
                    BY <1>1, <1>2, <3>6, <4>2, <5>2, ReturnExact, ReturnOutcome
                <5>4. QED
                    BY <5>1, <5>3
            <4>3. QED
                BY <3>1, <4>1, <4>2
        <3>9. CASE mode' = mode /\ ~IsDrop(g, r)
            <4>1. StreamExact'
                <5>1. \A h \in Group \ {g} : skip'[h] = skip[h]
                    BY <1>2, <3>1
                <5>2. QED
                    BY <1>1, <1>2, <2>1, <3>1, <3>2, <3>5, <3>8, <5>1, AdvanceStreamExact
            <4>2. QED
                BY <1>1, <3>8, <3>9, <4>1 DEF ExactInv
        <3>10. CASE IsDrop(g, r) /\ mode' = "pending" /\ pending' = InvalidateToken(t)
            <4>1. Changes(g, r) # {}
                BY <3>1, <3>10, DropFacts DEF Changes
            <4>2. TokenExact(t, Given') /\ TokenExact(InvalidateToken(t), Given')
                BY <3>7, <3>8, <4>1
            <4>3. ASSUME NEW u, NEW S, u = InvalidateToken(t), S = Given'
                  PROVE  TokenExact(u, S)'
                BY <1>4, <4>2, <4>3
            <4>4. TokenExact(pending, Given)'
                BY <3>10, <4>3
            <4>5. t.kind = "event" /\ t.ts = r.ts /\ pending'.ts = r.ts
                BY <2>1, <3>10 DEF EventToken, InvalidateToken
            <4>6. InvalidateChange(pending'.ts) \notin Given'
                <5>1. \A x \in Given' : x.class = "invalidate" => x.ts < r.ts
                    BY <4>2, <4>5 DEF TokenExact
                <5>2. ~(r.ts < r.ts)
                    BY <1>1
                <5>3. QED
                    BY <4>5, <5>1, <5>2 DEF InvalidateChange
            <4>7. QED
                BY <3>8, <3>10, <4>4, <4>6 DEF ExactInv, EndExact, InvalidateChange
        <3>11. QED
            BY <3>1, <3>9, <3>10
    <2>2. QED
        BY <2>1
<1>9. QED
    BY <1>6, <1>7, <1>8 DEF TakeRecord

\* Every step keeps ExactInv.
LEMMA ExactPreserved ==
    IndInv /\ EndsOnce /\ ExactInv /\ [Next]_vars => ExactInv'
<1> SUFFICES ASSUME IndInv, EndsOnce, ExactInv, [Next]_vars PROVE ExactInv'
    OBVIOUS
<1>1. CASE LogNext /\ UNCHANGED <<sourceVars, streamVars, consumerVars>>
    BY <1>1, ExactBetween
<1>2. ASSUME NEW g \in Group, Fetch(g), UNCHANGED <<streamVars, consumerVars>>
      PROVE  ExactInv'
    BY <1>2, ExactBetween DEF Fetch, logVars
<1>3. CASE UNCHANGED vars
    BY <1>3, ExactBetween DEF vars, orderedVars, logVars, sourceVars
<1>4. CASE Resume \/ \E s \in 1 .. MaxTs : OpenFresh(s)
    BY <1>4, ExactOpened
<1>5. CASE Save
    BY <1>5, ExactBetween
<1>6. CASE Pull
    BY <1>6, ExactBetween, ExactReply, ExactDecoding, ExactTaken DEF Pull, Decoding
<1>7. QED
    BY <1>1, <1>2, <1>3, <1>4, <1>5, <1>6 DEF Next

\* The invariants that the rest rests on.
LEMMA ExactInvariance == Spec => [](IndInv /\ EndsOnce /\ ExactInv)
<1>1. Init => EndsOnce
    <2> SUFFICES ASSUME Init PROVE EndsOnce
        OBVIOUS
    <2>1. NoToken.kind = "watermark"
        BY DEF NoToken
    <2>2. TokenPastDrop(NoToken)
        BY <2>1 DEF TokenPastDrop
    <2>3. QED
        BY <2>2 DEF Init, EndsOnce
<1>2. Init => ExactInv
    BY DEF Init, ExactInv
<1>3. QED
    BY <1>1, <1>2, EndsOncePreserved, ExactPreserved, Invariance, PTL DEF Spec

-----------------------------------------------------------------------------
(***************************************************************************)
(* No change is given twice.                                               *)
(***************************************************************************)

\* A dedup set with room takes every change.
LEMMA RecordedAll ==
    ASSUME DedupHasRoom, NEW g \in Group, NEW ts \in 1 .. MaxTs, NEW K,
           K \subseteq DedupKeys(g, ts),
           dedup[g].keys \subseteq DedupKeys(g, dedup[g].ts),
           DOMAIN dedup = Group, dedup' \in Recorded(g, ts, K)
    PROVE  /\ dedup'[g].ts = ts
           /\ dedup'[g].keys = K \cup (IF dedup[g].ts = ts THEN dedup[g].keys ELSE {})
           /\ dedup'[g].keys \subseteq DedupKeys(g, ts)
           /\ \A h \in Group \ {g} : dedup'[h] = dedup[h]
<1> DEFINE D == IF dedup[g].ts = ts THEN dedup[g].keys ELSE {}
           A == DedupKeys(g, ts)
<1>1. PICK F \in SUBSET (K \ D) :
         /\ dedup' = [dedup EXCEPT ![g] = [ts |-> ts, keys |-> D \cup F]]
         /\ F = K \ D \/ Cardinality(D \cup F) = MaxDedup
    BY DEF Recorded
<1>2. IsFiniteSet(A) /\ Cardinality(A) <= MaxDedup
    BY DEF DedupHasRoom
<1>3. D \cup F \subseteq A /\ D \cup K \subseteq A
    <2>1. D \subseteq A
        OBVIOUS
    <2>2. QED
        BY <2>1
<1> HIDE DEF A, D
<1>4. D \cup F = D \cup K
    <2>1. CASE F = K \ D
        BY <2>1
    <2>2. CASE Cardinality(D \cup F) = MaxDedup
        <3>1. /\ IsFiniteSet(D \cup F) /\ Cardinality(D \cup F) <= Cardinality(A)
              /\ Cardinality(D \cup F) = Cardinality(A) => D \cup F = A
            BY <1>2, <1>3, FS_Subset
        <3>2. Cardinality(A) \in Nat /\ Cardinality(D \cup F) \in Nat
            BY <1>2, <3>1, FS_CardinalityType
        <3>3. D \cup F = A
            BY <1>2, <2>2, <3>1, <3>2
        <3>4. QED
            BY <1>1, <1>3, <3>3
    <2>3. QED
        BY <1>1, <2>1, <2>2
<1>5. /\ dedup'[g].ts = ts /\ dedup'[g].keys = D \cup K
      /\ \A h \in Group \ {g} : dedup'[h] = dedup[h]
    BY <1>1, <1>4
<1>6. QED
    BY <1>3, <1>5 DEF A, D

\* A group's dedup set is not ahead of the record being produced.
LEMMA DedupBelow ==
    ASSUME IndInv, mode \in {"source", "decode"}, DedupExact,
           NEW g \in Group, NEW r \in RecordType, Producing(g, r)
    PROVE  /\ dedup[g].ts <= r.ts /\ dedup[g].ts \in Nat
           /\ \A s \in released[g] : s \in RecordType /\ s.ts <= r.ts
<1>1. /\ dedup[g].ts \in Nat /\ released[g] \subseteq RecordType /\ cursor[g] \in Cursor
      /\ r.ts \in Nat
    BY KeyFacts, BoundsAssumption DEF IndInv, StreamType
<1>2. ASSUME NEW s \in released[g]
      PROVE  s.ts <= r.ts
    <2>1. CASE s = r
        BY <1>1, <2>1
    <2>2. CASE s # r
        <3>1. Past(cursor[g], s) /\ ~Past(cursor[g], r) /\ s \in RecordType
            BY <1>1, <2>2 DEF Producing
        <3>2. QED
            BY <1>1, <3>1, PastIsPrefix, BeforeOrder
    <2>3. QED
        BY <2>1, <2>2
<1>3. QED
    BY <1>1, <1>2 DEF DedupExact

\* The change that the decoder produces is a new one.
LEMMA DocumentFresh ==
    ASSUME IndInv, ExactInv, OnceInv, mode = "decode",
           NEW g, g = current.group, NEW r, r = DecodeRecord, NEW p, IsNextPlace(p),
           PlaceLess(current.through, p),
           ~Seen(g, current.ts, DedupKey(Blob[g][r], p))
    PROVE  DocumentChange(r.ts, Blob[g][r], p) \notin Given
<1> DEFINE x == DocumentChange(r.ts, Blob[g][r], p)
           c == cursor[g]
<1>1. SUFFICES ASSUME x \in Given PROVE FALSE
    OBVIOUS
<1>2. /\ Producing(g, r) /\ g \in Group /\ r \in RecordType /\ r \in Record[g]
      /\ r.stream = "data" /\ r.ts = current.ts /\ current.key = KeyOf(r)
      /\ ~Past(c, r) /\ r \in history[g] /\ from[g] <= r.ts
    BY DecodeProducing DEF Producing
<1>3. /\ c \in Cursor /\ StreamInv /\ StreamExact /\ DecodeExact /\ DedupExact /\ DecodeOK
      /\ current \in CurrentType /\ history[g] \subseteq RecordType
      /\ history[g] \subseteq Record[g]
    BY <1>2 DEF IndInv, StreamType, LogTypeOK, ExactInv, OnceInv
<1>4. /\ p \in Places(Blob[g][r]) /\ p \in Place /\ PlaceLess(current.at, p)
      /\ \A q \in Places(Blob[g][r]) : PlaceLess(current.at, q) => ~PlaceLess(q, p)
    <2>1. p \in PlacesLeft /\ \A q \in PlacesLeft : ~PlaceLess(q, p)
        BY DEF IsNextPlace
    <2>2. QED
        BY <1>2, <2>1, PlaceFacts DEF PlacesLeft, DecodeRecord
<1>5. current.at \in Place /\ current.through \in Place /\ c.at \in Place
    BY <1>3 DEF CurrentType, Cursor
\* The change was given as one of a record of the same group, which the dedup
\* set cannot tell from the one being produced.
<1>6. PICK h \in Group : \E s \in history[h] :
         /\ s.stream = "data"
         /\ \E q \in Places(Blob[h][s]) :
               x = DocumentChange(s.ts, Blob[h][s], q) /\ BehindAt(cursor[h], from[h], s, q)
    <2>1. IsBehind(x, cursor, from)
        BY <1>1, <1>3 DEF StreamExact
    <2>2. x.class = "document"
        BY DEF DocumentChange
    <2>3. ~DdlBehind(x, cursor, from)
        BY <2>2, ReportedFacts DEF DdlBehind
    <2>4. ~EndBehind(x, cursor, from)
        <3>1. \A ts : InvalidateChange(ts).class = "invalidate"
            BY DEF InvalidateChange
        <3>2. \A ts : x # InvalidateChange(ts)
            BY <2>2, <3>1
        <3>3. QED
            BY <3>2 DEF EndBehind
    <2>5. QED
        BY <2>1, <2>3, <2>4 DEF IsBehind, DocumentBehind
<1>7. PICK s \in history[h] :
         /\ s.stream = "data"
         /\ \E q \in Places(Blob[h][s]) :
               x = DocumentChange(s.ts, Blob[h][s], q) /\ BehindAt(cursor[h], from[h], s, q)
    BY <1>6
<1>8. PICK q \in Places(Blob[h][s]) :
         x = DocumentChange(s.ts, Blob[h][s], q) /\ BehindAt(cursor[h], from[h], s, q)
    BY <1>7
<1>9. s \in Record[h] /\ s.ts = r.ts
    BY <1>7, <1>8 DEF IndInv, StreamType, DocumentChange
<1>10. h = g /\ Blob[g][r].txn = Blob[h][s].txn
    <2>1. DocumentChange(r.ts, Blob[g][r], p) = DocumentChange(s.ts, Blob[h][s], q)
        BY <1>8
    <2>2. /\ g \in Group /\ r \in Record[g] /\ r.stream = "data"
          /\ s.stream = "data" /\ r.ts = s.ts /\ s \in Record[h]
        BY <1>2, <1>7, <1>9
    <2>3. g = h /\ Blob[g][r].txn = Blob[h][s].txn
        BY <1>4, <2>1, <2>2, OneChangeAssumption
    <2>4. QED
        BY <2>3
<1>11. DedupKey(Blob[g][s], q) = DedupKey(Blob[g][r], p)
    BY <1>8, <1>10 DEF DocumentChange, DedupKey
<1> HIDE DEF x, c
<1>12. s \in RecordType /\ s \in Wanted(g) /\ q \in Place
    <2>1. s \in RecordType /\ s \in history[g] /\ q \in Place
        BY <1>3, <1>7, <1>9, <1>10, PlaceFacts
    <2>2. s.ts >= from[g]
        BY <1>2, <1>9
    <2>3. QED
        BY <2>1, <2>2 DEF Wanted
\* So it was not returned before.
<1>13. ~(s \in released[g] /\ Returned(g, s, q))
    <2>1. SUFFICES ASSUME s \in released[g], Returned(g, s, q) PROVE FALSE
        OBVIOUS
    <2>2. /\ s.ts <= dedup[g].ts
          /\ s.ts = dedup[g].ts => DedupKey(Blob[g][s], q) \in dedup[g].keys
        BY <1>2, <1>3, <1>7, <1>8, <1>10, <2>1 DEF DedupExact
    <2>3. dedup[g].ts <= r.ts /\ dedup[g].ts \in Nat /\ r.ts \in Nat
        BY <1>2, <1>3, DedupBelow, KeyFacts
    <2>4. dedup[g].ts = current.ts
        BY <1>2, <1>9, <2>2, <2>3
    <2>5. QED
        BY <1>2, <1>9, <1>11, <2>2, <2>4 DEF Seen
<1>14. CASE Past(c, s)
    <2>1. s # r
        BY <1>2, <1>14
    <2>2. Before(s, r)
        BY <1>2, <1>3, <1>12, <1>14, PastIsPrefix
    <2>3. s \in released[g]
        BY <1>2, <1>3, <1>12, <2>2, BeforeOrder DEF DecodeOK
    <2>4. Returned(g, s, q)
        BY <2>1 DEF Returned, InDecode
    <2>5. QED
        BY <1>13, <2>3, <2>4
<1>15. CASE ~Past(c, s)
    <2>1. Inside(c, s) /\ ~PlaceLess(c.at, q)
        <3>1. Ahead(c, from[g], s)
            BY <1>2, <1>9, <1>15 DEF Ahead
        <3>2. QED
            BY <1>8, <1>10, <3>1 DEF BehindAt, c
    <2>2. s = r
        <3>1. ~Before(r, s)
            BY <1>2, <1>3, <1>12, <2>1, NothingNewBefore DEF Inside
        <3>2. s = r \/ s \in released[g]
            BY <1>3, <1>12, <3>1 DEF DecodeOK
        <3>3. QED
            BY <1>2, <1>15, <3>2 DEF Producing, c
    <2>3. PlaceLess(current.at, q)
        BY <1>3, <1>13, <2>2 DEF Returned, DecodeOK
    <2>4. ~PlaceLess(q, p)
        BY <1>4, <1>8, <1>10, <2>2, <2>3
    <2>5. c.at = current.through \/ ~PlaceLess(current.at, c.at)
        BY <1>3, <2>1, <2>2 DEF DecodeExact, c
    <2>6. QED
        BY <1>4, <1>5, <1>12, <2>1, <2>3, <2>4, <2>5 DEF PlaceLess, Place
<1>16. QED
    BY <1>14, <1>15

\* So is the one of a DDL record.
LEMMA DdlFresh ==
    ASSUME IndInv, StreamExact, NEW g \in Group, NEW r \in Record[g], r.stream = "ddl",
           Producing(g, r), NEW c \in Reported(r.ts, SchemaOp[g][r])
    PROVE  c \notin Given
<1>1. SUFFICES ASSUME c \in Given PROVE FALSE
    OBVIOUS
<1>2. c.ts = r.ts /\ c.ns = SchemaOp[g][r].ns /\ c.class \notin {"document", "invalidate"}
    BY ReportedFacts
<1>3. IsBehind(c, cursor, from)
    BY <1>1 DEF StreamExact
<1>4. DdlBehind(c, cursor, from)
    <2>1. ~DocumentBehind(c, cursor, from)
        BY <1>2 DEF DocumentBehind, DocumentChange
    <2>2. ~EndBehind(c, cursor, from)
        BY <1>2 DEF EndBehind, InvalidateChange
    <2>3. QED
        BY <1>3, <2>1, <2>2 DEF IsBehind
<1>5. PICK h \in Group : \E s \in Record[h] :
         s.stream = "ddl" /\ c \in Reported(s.ts, SchemaOp[h][s]) /\ ~Ahead(cursor[h], from[h], s)
    BY <1>4 DEF DdlBehind
<1>6. PICK s \in Record[h] :
         s.stream = "ddl" /\ c \in Reported(s.ts, SchemaOp[h][s]) /\ ~Ahead(cursor[h], from[h], s)
    BY <1>5
<1>7. c.ts = s.ts /\ c.ns = SchemaOp[h][s].ns
    BY <1>6, ReportedFacts
<1>8. g = h /\ r = s
    <2>1. r.ts = s.ts /\ SchemaOp[g][r].ns = SchemaOp[h][s].ns /\ s.stream = "ddl"
        BY <1>2, <1>6, <1>7
    <2>2. QED
        BY <2>1, OneDdlAssumption
<1>9. r.ts >= from[g] /\ ~Past(cursor[g], r)
    <2>1. r.ts \in Nat /\ from[g] \in Nat /\ from[g] <= r.ts
        BY ChangeFacts, KeyFacts, BoundsAssumption DEF Producing, IndInv, StreamType
    <2>2. QED
        BY <2>1 DEF Producing
<1>10. QED
    BY <1>6, <1>8, <1>9 DEF Ahead

\* A new change is appended.
LEMMA AppendOnce ==
    ASSUME ConsumerType, NoRepeat, NEW c \in Change, c \notin Applied,
           applied' = Append(applied, c)
    PROVE  NoRepeat'
<1>1. /\ applied \in Seq(Change) /\ Len(applied) \in Nat
      /\ DOMAIN applied = 1 .. Len(applied)
    BY DEF ConsumerType
<1>2. /\ DOMAIN applied' = 1 .. Len(applied) + 1
      /\ \A i \in 1 .. Len(applied) : applied'[i] = applied[i]
      /\ applied'[Len(applied) + 1] = c
    BY <1>1
<1>3. \A i \in 1 .. Len(applied) : applied[i] # c
    BY <1>1 DEF Applied
<1>4. \A i \in DOMAIN applied' : i \in 1 .. Len(applied) \/ i = Len(applied) + 1
    BY <1>1, <1>2
<1>5. QED
    BY <1>1, <1>2, <1>3, <1>4 DEF NoRepeat

\* What the consumer has and will have next is free of repeats.
ConsumerOnce ==
    /\ NoRepeat
    /\ \A i \in DOMAIN stash : stash[i].change \notin Applied

\* The stream returns a new change.
LEMMA ReturnOnce ==
    ASSUME ConsumerType, NoRepeat, stash = <<>>, NEW c \in Change, c \notin Given,
           NEW t, Return(c, t)
    PROVE  ConsumerOnce'
<1>1. /\ Given = Applied
      /\ \/ UNCHANGED <<stash, applied>>
         \/ stash' = <<>> /\ applied' = Append(applied, c)
         \/ stash' = <<[change |-> c, token |-> t]>> /\ applied' = applied
    BY ReturnOutcome
<1>2. CASE UNCHANGED <<stash, applied>>
    BY <1>2 DEF ConsumerOnce, NoRepeat
<1>3. CASE stash' = <<>> /\ applied' = Append(applied, c)
    BY <1>1, <1>3, AppendOnce DEF ConsumerOnce
<1>4. CASE stash' = <<[change |-> c, token |-> t]>> /\ applied' = applied
    <2>1. DOMAIN stash' = {1} /\ stash'[1].change = c /\ Applied' = Applied
        BY <1>4 DEF Applied
    <2>2. QED
        BY <1>1, <1>4, <2>1 DEF ConsumerOnce, NoRepeat
<1>5. QED
    BY <1>1, <1>2, <1>3, <1>4

\* A group goes on with record r: its dedup set stays, or becomes that of the
\* record's timestamp.
LEMMA DedupGoesOn ==
    ASSUME IndInv, DedupExact, UNCHANGED <<history, from>>,
           NEW g \in Group, NEW r \in RecordType,
           \A h \in Group \ {g} : released'[h] = released[h] /\ dedup'[h] = dedup[h],
           released'[g] = released[g] \cup {r},
           \A s \in released[g] : s.ts <= r.ts,
           \A s \in Wanted(g) \ released'[g] : r.ts <= s.ts,
           dedup[g].ts <= r.ts,
           \/ dedup'[g] = dedup[g]
           \/ /\ dedup'[g].ts = r.ts
              /\ dedup[g].ts = r.ts => dedup[g].keys \subseteq dedup'[g].keys
              /\ dedup'[g].keys \subseteq DedupKeys(g, r.ts),
           \A h \in Group : \A s \in released[h] : \A p :
              Returned(h, s, p)' => Returned(h, s, p) \/ (h = g /\ s = r),
           r.stream = "data" =>
              \A p \in Places(Blob[g][r]) : Returned(g, r, p)' =>
                  /\ r.ts <= dedup'[g].ts
                  /\ r.ts = dedup'[g].ts => DedupKey(Blob[g][r], p) \in dedup'[g].keys
    PROVE  DedupExact'
<1>1. /\ \A h \in Group : dedup[h].ts \in Nat /\ released[h] \subseteq RecordType
      /\ \A s \in RecordType : s.ts \in Nat
    BY KeyFacts, BoundsAssumption DEF IndInv, StreamType
<1>2. \A h \in Group : Wanted(h)' = Wanted(h)
    BY DEF Wanted
<1>3. ASSUME NEW h \in Group, NEW s \in released'[h], NEW q \in Wanted(h) \ released'[h]
      PROVE  s.ts <= q.ts
    <2>1. CASE h # g
        BY <1>3, <2>1 DEF DedupExact
    <2>2. CASE h = g
        BY <1>3, <2>2 DEF DedupExact
    <2>3. QED
        BY <2>1, <2>2
<1>4. ASSUME NEW h \in Group
      PROVE  dedup'[h].ts = 0 \/ \E s \in released'[h] : s.ts = dedup'[h].ts
    BY DEF DedupExact
<1>5. ASSUME NEW h \in Group
      PROVE  dedup'[h].keys \subseteq DedupKeys(h, dedup'[h].ts)
    BY DEF DedupExact
<1>6. ASSUME NEW h \in Group, NEW s \in released'[h], s.stream = "data",
             NEW p \in Places(Blob[h][s]), Returned(h, s, p)'
      PROVE  /\ s.ts <= dedup'[h].ts
             /\ s.ts = dedup'[h].ts => DedupKey(Blob[h][s], p) \in dedup'[h].keys
    <2>1. CASE h = g /\ s = r
        BY <1>6, <2>1
    <2>2. CASE ~(h = g /\ s = r)
        <3>1. s \in released[h] /\ Returned(h, s, p)
            BY <1>6, <2>2
        <3>2. /\ s.ts <= dedup[h].ts
              /\ s.ts = dedup[h].ts => DedupKey(Blob[h][s], p) \in dedup[h].keys
            BY <1>6, <3>1 DEF DedupExact
        <3>3. CASE h # g \/ dedup'[g] = dedup[g]
            BY <3>2, <3>3
        <3>4. CASE h = g /\ dedup'[g] # dedup[g]
            <4>1. /\ s.ts \in Nat /\ dedup[g].ts \in Nat /\ r.ts \in Nat /\ s.ts <= r.ts
                  /\ dedup'[g].ts = r.ts
                BY <1>1, <3>1, <3>4
            <4>2. s.ts = r.ts => dedup[g].ts = r.ts
                BY <3>2, <3>4, <4>1
            <4>3. QED
                BY <3>2, <3>4, <4>1, <4>2
        <3>5. QED
            BY <3>3, <3>4
    <2>3. QED
        BY <2>1, <2>2
<1>7. QED
    BY <1>2, <1>3, <1>4, <1>5, <1>6 DEF DedupExact

\* Records that arrive are later than what the group has read.
LEMMA DedupGrows ==
    ASSUME IndInv, mode \in {"source", "decode"}, DedupExact, LogNext,
           UNCHANGED <<sourceVars, streamVars>>
    PROVE  DedupExact'
<1>1. UNCHANGED <<from, released, mode, cursor, dedup, current>>
    BY DEF sourceVars, streamVars
<1>2. LogGrows /\ LogTypeOK /\ StreamInv /\ cursor \in [Group -> Cursor]
      /\ released \in [Group -> SUBSET RecordType]
    BY LogStep DEF IndInv, StreamType
<1>3. ASSUME NEW g \in Group, NEW s \in released[g], NEW r \in Wanted(g)' \ released[g]
      PROVE  s.ts <= r.ts
    <2>1. CASE r \in Wanted(g)
        BY <2>1 DEF DedupExact
    <2>2. CASE r \notin Wanted(g)
        <3>1. r.ts > bound[g] /\ r.ts \in Nat /\ bound[g] \in Nat /\ s \in RecordType /\ s.ts \in Nat
            BY <1>1, <1>2, <2>2, KeyFacts, BoundsAssumption DEF LogGrows, Wanted, LogTypeOK
        <3>2. s.ts <= bound[g]
            <4>1. CASE Past(cursor[g], s)
                <5>1. s.ts <= LaterTs(cursor[g]) /\ LaterTs(cursor[g]) \in Nat
                    BY <1>2, <3>1, <4>1, LaterTsFacts, BoundsAssumption DEF Past
                <5>2. LaterTs(cursor[g]) <= bound[g]
                    BY <1>2 DEF StreamInv, SourceOK, BoundOK
                <5>3. QED
                    BY <3>1, <5>1, <5>2
            <4>2. CASE InDecode(g, s)
                BY <4>2 DEF InDecode, IndInv, DecodeOK
            <4>3. QED
                BY <1>2, <4>1, <4>2 DEF StreamInv, CursorOK
        <3>3. QED
            BY <3>1, <3>2
    <2>3. QED
        BY <2>1, <2>2
<1>4. \A h, s, p : Returned(h, s, p)' <=> Returned(h, s, p)
    BY <1>1 DEF Returned, InDecode, DecodeRecord
<1>5. QED
    BY <1>1, <1>3, <1>4 DEF DedupExact

\* A record's changes are among those of its timestamp.
LEMMA KeysAtTs ==
    ASSUME NEW g \in Group, NEW r \in Record[g], r.stream = "data"
    PROVE  {DedupKey(Blob[g][r], p) : p \in Places(Blob[g][r])} \subseteq DedupKeys(g, r.ts)
BY DEF DedupKeys

\* The source releases a record.
LEMMA DedupTaken ==
    ASSUME IndInv, DedupHasRoom, DedupExact, NEW g \in Group, NEW r \in Record[g],
           TakeRecord(g, r), mode' \in {"source", "decode"}
    PROVE  DedupExact'
<1>1. /\ mode = "source" /\ r \in RecordType /\ r.ts \in 1 .. MaxTs /\ r.ts \in Nat
      /\ IsNext(g, r) /\ r \in Wanted(g) \ released[g]
      /\ released' = [released EXCEPT ![g] = @ \cup {r}]
      /\ UNCHANGED <<history, from>> /\ StreamType
    BY TakenFacts
<1>2. /\ released'[g] = released[g] \cup {r} /\ DOMAIN dedup = Group
      /\ \A h \in Group \ {g} : released'[h] = released[h]
    BY <1>1 DEF StreamType
<1>3. \A s \in released[g] : s.ts <= r.ts
    BY <1>1 DEF DedupExact
<1>4. ASSUME NEW s \in Wanted(g) \ released'[g]
      PROVE  r.ts <= s.ts
    <2>1. s \in Wanted(g) \ released[g] /\ s # r /\ s \in RecordType
        BY <1>1, <1>2 DEF StreamType, LogTypeOK, Wanted
    <2>2. QED
        BY <1>1, <2>1, BeforeOrder DEF IsNext
<1>5. dedup[g].ts <= r.ts
    BY <1>1, <1>3 DEF DedupExact
<1>6. \A h, s, p : Returned(h, s, p)
    BY <1>1 DEF Returned, InDecode
<1>7. CASE r.stream = "data" /\ Consume(g, r) /\ mode' = mode
    <2> DEFINE K == {DedupKey(Blob[g][r], p) : p \in Places(Blob[g][r])}
    <2>1. K \subseteq DedupKeys(g, r.ts) /\ dedup' \in Recorded(g, r.ts, K)
        BY <1>7, KeysAtTs DEF Consume
    <2>2. dedup[g].keys \subseteq DedupKeys(g, dedup[g].ts)
        BY DEF DedupExact
    <2> HIDE DEF K
    <2>3. /\ dedup'[g].ts = r.ts
          /\ dedup'[g].keys = K \cup (IF dedup[g].ts = r.ts THEN dedup[g].keys ELSE {})
          /\ dedup'[g].keys \subseteq DedupKeys(g, r.ts)
          /\ \A h \in Group \ {g} : dedup'[h] = dedup[h]
        BY <1>1, <1>2, <2>1, <2>2, RecordedAll
    <2>4. /\ dedup[g].ts = r.ts => dedup[g].keys \subseteq dedup'[g].keys
          /\ \A p \in Places(Blob[g][r]) : DedupKey(Blob[g][r], p) \in dedup'[g].keys
        BY <2>3 DEF K
    <2>5. QED
        BY <1>1, <1>2, <1>3, <1>4, <1>5, <1>6, <2>3, <2>4, DedupGoesOn
<1>8. CASE dedup' = dedup /\ r.stream = "data" /\ mode' = "decode"
            /\ current' = [group |-> g, ts |-> r.ts, key |-> KeyOf(r), at |-> NoPlace,
                           through |-> IF Skipping(g, r) /\ KeyOf(r) = skip[g].dataKey
                                       THEN skip[g].at ELSE NoPlace]
    <2>1. InDecode(g, r)' /\ current'.at = NoPlace
        <3>1. /\ current'.group = g /\ current'.ts = r.ts /\ current'.key = KeyOf(r)
              /\ current'.at = NoPlace
            BY <1>8
        <3>2. DecodeRecord' = r
            BY <1>1, <1>8, <3>1, KeyFacts DEF DecodeRecord, RecordOf, RecordType
        <3>3. QED
            BY <1>8, <3>1, <3>2 DEF InDecode
    <2>2. \A p \in Places(Blob[g][r]) : ~Returned(g, r, p)'
        BY <1>8, <2>1, PlaceFacts DEF Returned
    <2>3. QED
        BY <1>1, <1>2, <1>3, <1>4, <1>5, <1>6, <1>8, <2>2, DedupGoesOn
<1>9. CASE dedup' = dedup /\ r.stream = "ddl"
    BY <1>1, <1>2, <1>3, <1>4, <1>5, <1>6, <1>9, DedupGoesOn
<1>10. QED
    BY <1>7, <1>8, <1>9 DEF TakeRecord, BeginData, BeginOldDdl, BeginDdl

\* The decoder returns a change, or comes to the record's end.
LEMMA DedupDecoding ==
    ASSUME IndInv, DedupHasRoom, DedupExact, DecodeEnd \/ \E p : DecodeEntry(p)
    PROVE  DedupExact'
<1>1. mode = "decode"
    BY DEF DecodeEnd, DecodeEntry
<1>2. ASSUME NEW g, g = current.group, NEW r, r = DecodeRecord
      PROVE  DedupExact'
    <2>1. /\ Producing(g, r) /\ g \in Group /\ r \in RecordType /\ r \in Record[g]
          /\ r.stream = "data" /\ r.ts = current.ts /\ r.ts \in 1 .. MaxTs
        BY <1>1, <1>2, DecodeProducing, KeyFacts
    <2>2. UNCHANGED <<history, from, released>>
        BY DEF DecodeEnd, DecodeEntry, orderedVars, logVars, sourceVars
    <2>3. /\ dedup[g].ts <= r.ts /\ dedup[g].ts \in Nat
          /\ \A s \in released[g] : s \in RecordType /\ s.ts <= r.ts
        BY <1>1, <2>1, DedupBelow
    <2>4. /\ r \in released[g] /\ current \in CurrentType /\ DOMAIN dedup = Group
          /\ \A s \in Wanted(g) \ released[g] : r.ts <= s.ts
        BY <1>1, <1>2, <2>1 DEF IndInv, DecodeOK, StreamType, Producing
    <2>5. \A q \in Places(Blob[g][r]) : ~PlaceLess(current.at, q) =>
             /\ r.ts <= dedup[g].ts
             /\ r.ts = dedup[g].ts => DedupKey(Blob[g][r], q) \in dedup[g].keys
        BY <2>1, <2>4 DEF DedupExact, Returned
    <2>6. \A h, s, q : ~(h = g /\ s = r) => Returned(h, s, q)
        BY <1>2 DEF Returned, InDecode
    <2>7. CASE DecodeEnd
        <3>1. dedup' = dedup
            BY <2>7 DEF DecodeEnd
        <3>2. \A q \in Places(Blob[g][r]) : ~PlaceLess(current.at, q)
            BY <1>2, <2>7 DEF DecodeEnd, PlacesLeft, DecodeRecord
        <3>3. QED
            BY <2>1, <2>2, <2>3, <2>4, <2>5, <2>6, <3>1, <3>2, DedupGoesOn
    <2>8. ASSUME NEW p, DecodeEntry(p)
          PROVE  DedupExact'
        <3> DEFINE k == DedupKey(Blob[g][r], p)
        <3>1. /\ IsNextPlace(p) /\ current' = [current EXCEPT !.at = p] /\ mode' = mode
              /\ dedup' \in Recorded(g, r.ts, {k})
            BY <1>2, <2>1, <2>8 DEF DecodeEntry, DecodeRecord
        <3>2. /\ p \in Places(Blob[g][r]) /\ p \in Place /\ PlaceLess(current.at, p)
              /\ \A q \in Places(Blob[g][r]) : PlaceLess(current.at, q) => ~PlaceLess(q, p)
            <4>1. p \in PlacesLeft /\ \A q \in PlacesLeft : ~PlaceLess(q, p)
                BY <3>1 DEF IsNextPlace
            <4>2. QED
                BY <1>2, <2>1, <4>1, PlaceFacts DEF PlacesLeft, DecodeRecord
        <3>3. {k} \subseteq DedupKeys(g, r.ts) /\ dedup[g].keys \subseteq DedupKeys(g, dedup[g].ts)
            BY <2>1, <3>2, KeysAtTs DEF DedupExact
        <3> HIDE DEF k
        <3>4. /\ dedup'[g].ts = r.ts
              /\ dedup'[g].keys = {k} \cup (IF dedup[g].ts = r.ts THEN dedup[g].keys ELSE {})
              /\ dedup'[g].keys \subseteq DedupKeys(g, r.ts)
              /\ \A h \in Group \ {g} : dedup'[h] = dedup[h]
            BY <2>1, <2>4, <3>1, <3>3, RecordedAll
        <3>5. current'.at = p /\ current'.group = g /\ DecodeRecord' = r
            BY <1>2, <2>4, <3>1 DEF CurrentType, DecodeRecord, RecordOf
        <3>6. ASSUME NEW q \in Places(Blob[g][r]), Returned(g, r, q)'
              PROVE  DedupKey(Blob[g][r], q) \in dedup'[g].keys
            <4>1. ~PlaceLess(p, q)
                BY <1>1, <3>1, <3>5, <3>6 DEF Returned, InDecode
            <4>2. CASE ~PlaceLess(current.at, q)
                <5>1. dedup[g].ts = r.ts
                    BY <2>1, <2>3, <2>5, <4>2, KeyFacts
                <5>2. QED
                    BY <2>5, <3>4, <4>2, <5>1
            <4>3. CASE PlaceLess(current.at, q)
                <5>1. ~PlaceLess(q, p) /\ q \in Place
                    BY <2>1, <3>2, <4>3, PlaceFacts
                <5>2. q = p
                    BY <3>2, <4>1, <5>1, PlaceOrder
                <5>3. QED
                    BY <3>4, <5>2 DEF k
            <4>4. QED
                BY <4>2, <4>3
        <3>7. /\ dedup[g].ts = r.ts => dedup[g].keys \subseteq dedup'[g].keys
              /\ r.ts <= dedup'[g].ts
            BY <2>1, <3>4
        <3>8. QED
            BY <2>1, <2>2, <2>3, <2>4, <2>6, <3>4, <3>6, <3>7, DedupGoesOn
    <2>9. QED
        BY <2>7, <2>8
<1>3. QED
    BY <1>2

\* The log, the pages, the replies without an event and the consumer's own steps.
LEMMA OnceBetween ==
    ASSUME IndInv, OnceInv,
           \/ LogNext /\ UNCHANGED <<sourceVars, streamVars, consumerVars>>
           \/ UNCHANGED <<history, from, released, streamVars, consumerVars>>
           \/ Save \/ BeginPull \/ ReturnStash \/ ReturnNone \/ ReturnEnded
    PROVE  OnceInv'
<1>1. ASSUME UNCHANGED <<stash, applied>>
      PROVE  ConsumerOnce'
    BY <1>1 DEF OnceInv, ConsumerOnce, NoRepeat, Applied
<1>2. ASSUME UNCHANGED <<history, from, released, mode, dedup, current>>, ConsumerOnce'
      PROVE  OnceInv'
    <2>1. /\ \A h, s, p : Returned(h, s, p)' <=> Returned(h, s, p)
          /\ \A h \in Group : Wanted(h)' = Wanted(h)
        BY <1>2 DEF Returned, InDecode, DecodeRecord, Wanted
    <2>2. DedupExact => DedupExact'
        BY <1>2, <2>1 DEF DedupExact
    <2>3. QED
        BY <1>2, <2>2 DEF OnceInv, ConsumerOnce
<1>3. CASE LogNext /\ UNCHANGED <<sourceVars, streamVars, consumerVars>>
    <2>1. ConsumerOnce' /\ mode' = mode
        BY <1>1, <1>3 DEF consumerVars, streamVars
    <2>2. mode \in {"source", "decode"} => DedupExact'
        BY <1>3, DedupGrows DEF OnceInv
    <2>3. QED
        BY <2>1, <2>2 DEF OnceInv, ConsumerOnce
<1>4. CASE \/ UNCHANGED <<history, from, released, streamVars, consumerVars>>
           \/ Save \/ BeginPull \/ ReturnNone \/ ReturnEnded
    <2>1. /\ UNCHANGED <<history, from, released, mode, dedup, current>>
          /\ UNCHANGED <<stash, applied>>
        BY <1>4 DEF streamVars, consumerVars, Save, BeginPull, StartPull, ReturnNone, Drain,
                    ReturnEnded, orderedVars, logVars, sourceVars
    <2>2. QED
        BY <1>1, <1>2, <2>1
<1>5. CASE ReturnStash
    <2>1. PICK i \in DOMAIN stash : applied' = Append(applied, stash[i].change)
        BY <1>5 DEF ReturnStash, PutInReply
    <2>2. UNCHANGED <<history, from, released, mode, dedup, current>> /\ stash' = <<>>
        BY <1>5 DEF ReturnStash, orderedVars, logVars, sourceVars, streamVars
    <2>3. stash[i].change \in Change /\ stash[i].change \notin Applied
        <3>1. /\ stash # <<>>
              /\ stash = <<>> \/ (stash = <<stash[1]>> /\ stash[1] \in [change : Change, token : Token])
            BY <2>1 DEF IndInv, ConsumerType
        <3>2. i = 1
            BY <2>1, <3>1
        <3>3. QED
            BY <3>1, <3>2 DEF OnceInv
    <2>4. NoRepeat'
        BY <2>1, <2>3, AppendOnce DEF IndInv, OnceInv
    <2>5. ConsumerOnce'
        BY <2>2, <2>4 DEF ConsumerOnce
    <2>6. QED
        BY <1>2, <2>2, <2>5
<1>6. QED
    BY <1>3, <1>4, <1>5

\* A new stream has read nothing; the consumer goes back to what it saved.
LEMMA OnceOpened ==
    ASSUME IndInv, OnceInv, Resume \/ \E s \in 1 .. MaxTs : OpenFresh(s)
    PROVE  OnceInv'
<1>1. /\ released' = [g \in Group |-> {}] /\ stash' = <<>>
      /\ dedup' = [g \in Group |-> [ts |-> 0, keys |-> {}]]
    BY DEF Resume, OpenFresh, Opened
<1>2. DedupExact'
    BY <1>1 DEF DedupExact
<1>3. NoRepeat'
    <2>1. /\ applied \in Seq(Change) /\ saved.n \in Nat /\ saved.n <= Len(applied)
        BY DEF IndInv, ConsumerType
    <2>2. CASE applied' = applied
        BY <2>2 DEF OnceInv, NoRepeat
    <2>3. CASE applied' = SubSeq(applied, 1, saved.n)
        <3>1. /\ DOMAIN applied' = 1 .. saved.n
              /\ \A i \in 1 .. saved.n : applied'[i] = applied[i] /\ i \in DOMAIN applied
            BY <2>1, <2>3
        <3>2. QED
            BY <3>1 DEF OnceInv, NoRepeat
    <2>4. QED
        BY <2>2, <2>3 DEF Resume, OpenFresh
<1>4. QED
    BY <1>1, <1>2, <1>3 DEF OnceInv

\* The events that a stream returns.
LEMMA OnceReturned ==
    ASSUME IndInv, ExactInv, OnceInv, DedupHasRoom,
           \/ ReturnInvalidate
           \/ DecodeEnd \/ \E p : DecodeEntry(p)
           \/ \E g \in Group : \E r \in Record[g] : TakeRecord(g, r)
    PROVE  OnceInv'
<1>1. ConsumerType /\ NoRepeat
    BY DEF IndInv, OnceInv
<1>2. ASSUME UNCHANGED consumerVars
      PROVE  ConsumerOnce'
    BY <1>2 DEF consumerVars, OnceInv, ConsumerOnce, NoRepeat, Applied
<1>3. CASE ReturnInvalidate
    <2>1. ASSUME NEW c, c = InvalidateChange(pending.ts)
          PROVE  ConsumerOnce'
        <3>1. mode = "pending" /\ Return(c, pending) /\ pulling
            BY <1>3, <2>1 DEF ReturnInvalidate, InvalidateChange
        <3>2. /\ stash = <<>> /\ pending.kind = "invalidate" /\ TokenOK(pending, Given)
              /\ pending \in Token /\ c \notin Given
            BY <2>1, <3>1 DEF IndInv, EndInv, ConsumerType, StreamType, ExactInv, EndExact
        <3>3. pending.ts \in 1 .. MaxTs
            <4>1. AbsentStart(pending) >= 1
                BY <3>2 DEF TokenOK, TokenCovers
            <4>2. QED
                BY <3>2, <4>1, BoundsAssumption DEF AbsentStart, Token
        <3>4. c \in Change
            BY <2>1, <3>3, ChangeFacts
        <3>5. QED
            BY <1>1, <3>1, <3>2, <3>4, ReturnOnce
    <2>2. mode' = "ended"
        BY <1>3 DEF ReturnInvalidate
    <2>3. QED
        BY <2>1, <2>2 DEF OnceInv, ConsumerOnce
<1>4. CASE DecodeEnd \/ \E p : DecodeEntry(p)
    <2>1. mode = "decode"
        BY <1>4 DEF DecodeEnd, DecodeEntry
    <2>2. DedupExact'
        BY <1>4, <2>1, DedupDecoding DEF OnceInv
    <2>3. CASE DecodeEnd
        BY <1>2, <2>2, <2>3 DEF DecodeEnd, GoOn, OnceInv, ConsumerOnce
    <2>4. ASSUME NEW p, DecodeEntry(p)
          PROVE  ConsumerOnce'
        <3>1. ASSUME NEW g, g = current.group, NEW r, r = DecodeRecord,
                     NEW c, c = DocumentChange(r.ts, Blob[g][r], p)
              PROVE  ConsumerOnce'
            <4>1. /\ g \in Group /\ r \in Record[g] /\ r.stream = "data" /\ r.ts = current.ts
                BY <2>1, <3>1, DecodeProducing
            <4>2. CASE GoOn
                BY <1>2, <4>2 DEF GoOn
            <4>3. ASSUME NEW t, Return(c, t), PlaceLess(current.through, p),
                         ~Seen(g, current.ts, DedupKey(Blob[g][r], p))
                  PROVE  ConsumerOnce'
                <5>1. IsNextPlace(p) /\ pulling
                    BY <2>4 DEF DecodeEntry
                <5>2. c \notin Given
                    BY <2>1, <3>1, <4>3, <5>1, DocumentFresh
                <5>3. p \in Places(Blob[g][r])
                    BY <3>1, <5>1 DEF IsNextPlace, PlacesLeft, DecodeRecord
                <5>4. c \in Change
                    BY <3>1, <4>1, <5>3, ChangeFacts DEF Changes
                <5>5. stash = <<>>
                    BY <5>1 DEF IndInv, ConsumerType
                <5>6. QED
                    BY <1>1, <4>3, <5>2, <5>4, <5>5, ReturnOnce
            <4>4. QED
                BY <2>4, <3>1, <4>1, <4>2, <4>3 DEF DecodeEntry, DecodeRecord
        <3>2. QED
            BY <3>1
    <2>5. QED
        BY <1>4, <2>2, <2>3, <2>4 DEF OnceInv, ConsumerOnce
<1>5. ASSUME NEW g \in Group, NEW r \in Record[g], TakeRecord(g, r)
      PROVE  OnceInv'
    <2>1. /\ pulling /\ mode = "source" /\ stash = <<>> /\ r \in RecordType /\ IsNext(g, r)
          /\ LaterTs(skip[g]) <= r.ts
        BY <1>5, TakenFacts
    <2>2. mode' \in {"source", "decode"} => DedupExact'
        BY <1>5, <2>1, DedupTaken DEF OnceInv
    <2>3. CASE GoOn
        BY <1>2, <2>2, <2>3 DEF GoOn, OnceInv, ConsumerOnce
    <2>4. ASSUME NEW c \in Reported(r.ts, SchemaOp[g][r]), NEW t, Return(c, t),
                 r.stream = "ddl", ~OldDdl(g, r)
          PROVE  OnceInv'
        <3>1. Producing(g, r)
            <4>1. ~Past(skip[g], r)
                BY <1>5, <2>1, <2>4, SkipTests, TakenFacts
            <4>2. QED
                BY <2>1, <4>1, TakenProducing
        <3>2. c \notin Given /\ c \in Change
            BY <2>1, <2>4, <3>1, DdlFresh, ChangeFacts DEF ExactInv, Changes
        <3>3. ConsumerOnce'
            BY <1>1, <2>1, <2>4, <3>2, ReturnOnce
        <3>4. QED
            BY <2>2, <3>3 DEF OnceInv, ConsumerOnce
    <2>5. QED
        BY <1>5, <2>3, <2>4 DEF TakeRecord, BeginData, BeginOldDdl, BeginDdl
<1>6. QED
    BY <1>3, <1>4, <1>5

\* No change is applied twice, however often the consumer resumes, and though an
\* entry may be logged in several records of its transaction and a resumed
\* stream reads records again, provided that the dedup sets have room.
THEOREM ProducedOnce ==
    ASSUME DedupHasRoom
    PROVE  Spec => []NoRepeat
<1>1. Init => OnceInv
    BY DEF Init, OnceInv, NoRepeat
<1>2. IndInv /\ EndsOnce /\ ExactInv /\ OnceInv /\ [Next]_vars => OnceInv'
    <2> SUFFICES ASSUME IndInv, ExactInv, OnceInv, [Next]_vars PROVE OnceInv'
        OBVIOUS
    <2>1. CASE LogNext /\ UNCHANGED <<sourceVars, streamVars, consumerVars>>
        BY <2>1, OnceBetween
    <2>2. ASSUME NEW g \in Group, Fetch(g), UNCHANGED <<streamVars, consumerVars>>
          PROVE  OnceInv'
        BY <2>2, OnceBetween DEF Fetch, logVars
    <2>3. CASE UNCHANGED vars
        BY <2>3, OnceBetween DEF vars, orderedVars, logVars, sourceVars
    <2>4. CASE Resume \/ \E s \in 1 .. MaxTs : OpenFresh(s)
        BY <2>4, OnceOpened
    <2>5. CASE Save
        BY <2>5, OnceBetween
    <2>6. CASE Pull
        BY <2>6, OnceBetween, OnceReturned DEF Pull, Decoding
    <2>7. QED
        BY <2>1, <2>2, <2>3, <2>4, <2>5, <2>6 DEF Next
<1>3. OnceInv => NoRepeat
    BY DEF OnceInv
<1>4. QED
    BY <1>1, <1>2, <1>3, ExactInvariance, PTL DEF Spec

-----------------------------------------------------------------------------
(***************************************************************************)
(* A drop is followed by its invalidate event.                             *)
(***************************************************************************)

\* The changes that InvalidateFollowsDrop is about.
LEMMA ChangeShape ==
    ASSUME NEW x \in Change
    PROVE  /\ x.class = "invalidate" => x = InvalidateChange(x.ts)
           /\ x.class = "drop" /\ IsCollection(x.ns) => x = DropChange(x.ts)
<1>1. CASE x \in LoggedChange
    <2>1. PICK g \in Group : \E r \in Record[g] : x \in Changes(g, r)
        BY <1>1 DEF LoggedChange
    <2>2. PICK r \in Record[g] : x \in Changes(g, r)
        BY <2>1
    <2>3. CASE r.stream = "data"
        BY <2>2, <2>3 DEF Changes, DocumentChange
    <2>4. CASE r.stream # "data"
        <3>1. r.stream = "ddl" /\ x \in Reported(r.ts, SchemaOp[g][r])
            BY <2>2, <2>4, ChangeFacts, KeyFacts DEF Changes
        <3>2. QED
            BY <3>1, ReportedFacts
    <2>5. QED
        BY <2>3, <2>4
<1>2. CASE x \in {InvalidateChange(t) : t \in 1 .. MaxTs}
    BY <1>2 DEF InvalidateChange
<1>3. QED
    BY <1>1, <1>2 DEF Change

\* What may follow the last change is appended.
LEMMA AppendDrop ==
    ASSUME ConsumerType, InvalidateFollowsDrop, NEW c \in Change, MayFollow(c, LastApplied),
           applied' = Append(applied, c), UNCHANGED <<filter, saved>>
    PROVE  InvalidateFollowsDrop' /\ LastApplied' = {c} /\ LastSaved' = LastSaved
<1> DEFINE n == Len(applied)
<1>1. /\ applied \in Seq(Change) /\ n \in Nat /\ DOMAIN applied = 1 .. n
      /\ saved.n \in Nat /\ saved.n <= n
    BY DEF ConsumerType
<1>2. /\ Len(applied') = n + 1 /\ DOMAIN applied' = 1 .. n + 1
      /\ \A i \in 1 .. n : applied'[i] = applied[i]
      /\ applied'[n + 1] = c
    BY <1>1
<1>3. LastApplied = {applied[i] : i \in {n} \ {0}}
    BY DEF LastApplied
<1>4. LastApplied' = {c}
    <2>1. {Len(applied')} \ {0} = {n + 1}
        BY <1>1, <1>2
    <2>2. QED
        BY <1>2, <2>1 DEF LastApplied
<1>5. LastSaved' = LastSaved
    <2>1. \A i \in {saved.n} \ {0} : i \in 1 .. n
        BY <1>1
    <2>2. QED
        BY <1>2, <2>1 DEF LastSaved
<1> HIDE DEF n
<1>6. ASSUME NEW i \in 1 .. n + 1, applied'[i].class = "drop", IsCollection(applied'[i].ns),
             "invalidate" \notin filter, i < n + 1
      PROVE  applied'[i + 1] = [applied'[i] EXCEPT !.class = "invalidate"]
    <2>1. i \in 1 .. n /\ applied'[i] = applied[i]
        BY <1>1, <1>2, <1>6
    <2>2. CASE i < n
        <3>1. i + 1 \in 1 .. n /\ applied'[i + 1] = applied[i + 1]
            BY <1>1, <1>2, <2>1, <2>2
        <3>2. QED
            BY <1>1, <1>6, <2>1, <2>2, <3>1 DEF InvalidateFollowsDrop, n
    <2>3. CASE i = n
        <3>1. applied[n] \in LastApplied /\ applied[n] \in Change
            BY <1>1, <1>3, <2>1, <2>3
        <3>2. applied[n] = DropChange(applied[n].ts) /\ applied[n].ts \in 1 .. MaxTs
            BY <1>6, <2>1, <2>3, <3>1, ChangeShape, ChangeFacts
        <3>3. InvalidateDue(applied[n].ts, LastApplied)
            BY <1>6, <3>1, <3>2 DEF InvalidateDue, IsCollection
        <3>4. c = InvalidateChange(applied[n].ts)
            BY <3>2, <3>3 DEF MayFollow
        <3>5. c = [applied[n] EXCEPT !.class = "invalidate"]
            <4>1. \A ts : InvalidateChange(ts) = [DropChange(ts) EXCEPT !.class = "invalidate"]
                BY DEF DropChange, InvalidateChange
            <4>2. QED
                BY <3>2, <3>4, <4>1
        <3>6. QED
            BY <1>2, <2>1, <2>3, <3>5
    <2>4. QED
        BY <1>1, <2>1, <2>2, <2>3
<1>7. ASSUME NEW i \in 1 .. n + 1, applied'[i].class = "invalidate", "drop" \notin filter
      PROVE  i > 1 /\ applied'[i - 1] = [applied'[i] EXCEPT !.class = "drop"]
    <2>1. CASE i \in 1 .. n
        <3>1. i > 1 /\ applied[i - 1] = [applied[i] EXCEPT !.class = "drop"]
            BY <1>1, <1>2, <1>7, <2>1 DEF InvalidateFollowsDrop
        <3>2. i - 1 \in 1 .. n
            BY <1>1, <2>1, <3>1
        <3>3. QED
            BY <1>2, <2>1, <3>1, <3>2
    <2>2. CASE i = n + 1
        <3>1. c.class = "invalidate" /\ c = InvalidateChange(c.ts) /\ DropChange(c.ts) \in LastApplied
            BY <1>2, <1>7, <2>2, ChangeShape DEF MayFollow, DropGiven
        <3>2. n # 0 /\ applied[n] = DropChange(c.ts)
            BY <1>3, <3>1
        <3>3. DropChange(c.ts) = [c EXCEPT !.class = "drop"]
            BY <3>1 DEF DropChange, InvalidateChange
        <3>4. i > 1 /\ i - 1 = n /\ n \in 1 .. n
            BY <1>1, <2>2, <3>2
        <3>5. QED
            BY <1>2, <2>2, <3>2, <3>3, <3>4
    <2>3. i \in 1 .. n \/ i = n + 1
        BY <1>1
    <2>4. QED
        BY <2>1, <2>2, <2>3
<1>8. InvalidateFollowsDrop'
    BY <1>2, <1>6, <1>7 DEF InvalidateFollowsDrop, IsCollection
<1>9. QED
    BY <1>4, <1>5, <1>8

\* Records that arrive change nothing of where a token's stream comes to.
LEMMA EndsGrow ==
    ASSUME filter' = filter, \A g \in Group : history[g] \subseteq history'[g],
           NEW t, NEW L
    PROVE  /\ TokenEnds(t, L) => TokenEnds(t, L)'
           /\ \A c : MayFollow(c, L) => MayFollow(c, L)'
           /\ \A ts : InvalidateDue(ts, L)' <=> InvalidateDue(ts, L)
           /\ \A ts : DropGiven(ts, L)' <=> DropGiven(ts, L)
<1>1. /\ \A ts : InvalidateDue(ts, L)' <=> InvalidateDue(ts, L)
      /\ \A ts : DropGiven(ts, L)' <=> DropGiven(ts, L)
    BY DEF InvalidateDue, DropGiven
<1>2. \A c : MayFollow(c, L) => MayFollow(c, L)'
    BY <1>1 DEF MayFollow
<1>3. TokenEnds(t, L) => TokenEnds(t, L)'
    BY <1>1 DEF TokenEnds
<1>4. QED
    BY <1>1, <1>2, <1>3

\* The consumer is given nothing.
LEMMA ConsumerRests ==
    ASSUME UNCHANGED <<filter, stash, token, applied, saved>>,
           \A g \in Group : history[g] \subseteq history'[g]
    PROVE  /\ LastGiven' = LastGiven /\ LastApplied' = LastApplied
           /\ ConsumerDrop => ConsumerDrop'
           /\ TokensEnd => TokensEnd'
<1>1. LastGiven' = LastGiven /\ LastApplied' = LastApplied /\ LastSaved' = LastSaved
    BY DEF LastGiven, LastApplied, LastSaved
<1>2. ASSUME NEW t, NEW L
      PROVE  /\ TokenEnds(t, L) => TokenEnds(t, L)'
             /\ \A c : MayFollow(c, L) => MayFollow(c, L)'
    BY EndsGrow
<1>3. ConsumerDrop => ConsumerDrop'
    <2>1. InvalidateFollowsDrop => InvalidateFollowsDrop'
        BY DEF InvalidateFollowsDrop
    <2>2. QED
        BY <1>1, <1>2, <2>1 DEF ConsumerDrop
<1>4. TokensEnd => TokensEnd'
    BY <1>1, <1>2 DEF TokensEnd
<1>5. QED
    BY <1>1, <1>3, <1>4

\* The stream returns the event of change c, which may follow.
LEMMA ReturnEnds ==
    ASSUME ConsumerType, stash = <<>>, ConsumerDrop, TokensEnd, history' = history,
           NEW c \in Change, NEW t, Return(c, t), MayFollow(c, LastApplied), TokenEnds(t, {c})
    PROVE  /\ ConsumerDrop' /\ TokensEnd' /\ filter' = filter
           /\ LastGiven' = IF c.class \in filter THEN LastGiven ELSE {c}
<1>1. /\ filter' = filter /\ saved' = saved
      /\ \/ c.class \in filter /\ UNCHANGED <<stash, token, applied>>
         \/ /\ c.class \notin filter
            /\ stash' = <<>> /\ token' = t /\ applied' = Append(applied, c)
         \/ /\ c.class \notin filter
            /\ stash' = <<[change |-> c, token |-> t]>>
            /\ UNCHANGED <<token, applied>>
    BY ReturnOutcome
<1>2. ASSUME NEW u, NEW L
      PROVE  /\ TokenEnds(u, L) => TokenEnds(u, L)'
             /\ \A d : MayFollow(d, L) => MayFollow(d, L)'
    BY <1>1, EndsGrow
<1>3. CASE c.class \in filter /\ UNCHANGED <<stash, token, applied>>
    BY <1>1, <1>3, ConsumerRests
<1>4. CASE /\ c.class \notin filter
           /\ stash' = <<>> /\ token' = t /\ applied' = Append(applied, c)
    <2>1. InvalidateFollowsDrop' /\ LastApplied' = {c} /\ LastSaved' = LastSaved
        BY <1>1, <1>4, AppendDrop DEF ConsumerDrop
    <2>2. DOMAIN stash' = {} /\ LastGiven' = {c}
        BY <1>4, <2>1 DEF LastGiven
    <2>3. ConsumerDrop'
        BY <2>1, <2>2 DEF ConsumerDrop
    <2>4. TokensEnd'
        BY <1>1, <1>2, <1>4, <2>1, <2>2 DEF TokensEnd
    <2>5. QED
        BY <1>1, <1>4, <2>2, <2>3, <2>4
<1>5. CASE /\ c.class \notin filter
           /\ stash' = <<[change |-> c, token |-> t]>>
           /\ UNCHANGED <<token, applied>>
    <2>1. /\ stash' # <<>> /\ DOMAIN stash' = {1}
          /\ stash'[1].change = c /\ stash'[1].token = t
        BY <1>5
    <2>2. LastApplied' = LastApplied /\ LastSaved' = LastSaved /\ LastGiven' = {c}
        BY <1>1, <1>5, <2>1 DEF LastApplied, LastSaved, LastGiven
    <2>3. ConsumerDrop'
        <3>1. InvalidateFollowsDrop'
            BY <1>1, <1>5 DEF ConsumerDrop, InvalidateFollowsDrop
        <3>2. QED
            BY <1>2, <2>1, <2>2, <3>1 DEF ConsumerDrop
    <2>4. TokensEnd'
        BY <1>1, <1>2, <1>5, <2>1, <2>2 DEF TokensEnd
    <2>5. QED
        BY <1>1, <1>5, <2>2, <2>3, <2>4
<1>6. QED
    BY <1>1, <1>3, <1>4, <1>5

\* What is due stays due.
LEMMA DueStays ==
    ASSUME filter' = filter, LastGiven' = LastGiven
    PROVE  /\ StreamEnds /\ opening' = opening /\ (OwnDropAhead' <=> OwnDropAhead) => StreamEnds'
           /\ EndDue /\ UNCHANGED <<mode, pending>> => EndDue'
BY DEF StreamEnds, EndDue, InvalidateDue, DropGiven

\* The log, the pages, the replies without an event and the consumer's own steps.
LEMMA DropBetween ==
    ASSUME "watermark" \notin SavedKinds, IndInv, ExactInv, DropInv,
           \/ LogNext /\ UNCHANGED <<sourceVars, streamVars, consumerVars>>
           \/ UNCHANGED <<history, from, released, streamVars, consumerVars>>
           \/ Save \/ BeginPull \/ ReturnStash \/ ReturnNone \/ ReturnEnded
    PROVE  DropInv'
<1>1. ASSUME UNCHANGED <<history, from, released, opening>>
      PROVE  OwnDropAhead' <=> OwnDropAhead
    BY <1>1 DEF OwnDropAhead, Wanted
<1>2. ASSUME UNCHANGED <<filter, mode, opening, pending>>, LastGiven' = LastGiven,
             mode \in {"source", "decode"} => (OwnDropAhead' <=> OwnDropAhead),
             ConsumerDrop', mode # "closed" => TokensEnd'
      PROVE  DropInv'
    BY <1>2, DueStays DEF DropInv
<1>3. CASE LogNext /\ UNCHANGED <<sourceVars, streamVars, consumerVars>>
    <2>1. UNCHANGED <<filter, stash, token, applied, saved, mode, opening, pending>>
        BY <1>3 DEF streamVars, consumerVars
    <2>2. \A g \in Group : history[g] \subseteq history'[g]
        BY <1>3, LogStep DEF IndInv, StreamType, LogGrows
    <2>3. mode \in {"source", "decode"} => (OwnDropAhead' <=> OwnDropAhead)
        BY <1>3, StreamGrows DEF ExactInv
    <2>4. QED
        BY <1>2, <2>1, <2>2, <2>3, ConsumerRests DEF DropInv
<1>4. CASE UNCHANGED <<history, from, released, streamVars, consumerVars>> \/ BeginPull
    <2>1. /\ UNCHANGED <<filter, stash, token, applied, saved, mode, opening, pending>>
          /\ UNCHANGED <<history, from, released>>
        BY <1>4 DEF streamVars, consumerVars, BeginPull, StartPull, logVars
    <2>2. QED
        BY <1>1, <1>2, <2>1, ConsumerRests DEF DropInv
<1>5. CASE Save
    <2>1. /\ UNCHANGED <<filter, stash, token, applied, mode, opening, pending>>
          /\ UNCHANGED <<history, from, released>>
          /\ saved' = [token |-> token, n |-> Len(applied)] /\ mode # "closed"
          /\ token.kind # "watermark"
        BY <1>5 DEF Save, orderedVars, logVars, sourceVars, streamVars
    <2>2. /\ LastApplied' = LastApplied /\ LastGiven' = LastGiven /\ LastSaved' = LastApplied
          /\ saved'.token = token
        BY <2>1 DEF LastApplied, LastGiven, LastSaved
    <2>3. ASSUME NEW t, NEW L
          PROVE  /\ TokenEnds(t, L) => TokenEnds(t, L)'
                 /\ \A c : MayFollow(c, L) => MayFollow(c, L)'
        BY <2>1, EndsGrow
    <2>4. ConsumerDrop'
        <3>1. InvalidateFollowsDrop'
            BY <2>1 DEF DropInv, ConsumerDrop, InvalidateFollowsDrop
        <3>2. QED
            BY <2>1, <2>2, <2>3, <3>1 DEF DropInv, ConsumerDrop
    <2>5. TokensEnd'
        BY <2>1, <2>2, <2>3 DEF DropInv, TokensEnd
    <2>6. QED
        BY <1>1, <1>2, <2>1, <2>2, <2>4, <2>5
<1>6. CASE ReturnStash
    <2>1. PICK i \in DOMAIN stash :
             applied' = Append(applied, stash[i].change) /\ token' = stash[i].token
        BY <1>6 DEF ReturnStash, PutInReply
    <2>2. /\ UNCHANGED <<history, from, released, mode, opening, pending, filter, saved>>
          /\ stash' = <<>>
        BY <1>6 DEF ReturnStash, orderedVars, logVars, sourceVars, streamVars
    <2>3. i = 1 /\ stash[1].change \in Change /\ mode # "closed" /\ stash # <<>>
        <3>1. /\ stash # <<>>
              /\ stash = <<>> \/ (stash = <<stash[1]>> /\ stash[1] \in [change : Change, token : Token])
            BY <2>1 DEF IndInv, ConsumerType
        <3>2. QED
            BY <2>1, <3>1 DEF IndInv, StreamType
    <2>4. /\ InvalidateFollowsDrop' /\ LastApplied' = {stash[1].change}
          /\ LastSaved' = LastSaved
        <3>1. MayFollow(stash[1].change, LastApplied) /\ InvalidateFollowsDrop
            BY <2>1, <2>3 DEF DropInv, ConsumerDrop
        <3>2. QED
            BY <2>1, <2>2, <2>3, <3>1, AppendDrop DEF IndInv
    <2>5. DOMAIN stash' = {} /\ LastGiven' = LastGiven /\ LastApplied' = LastGiven
        BY <2>2, <2>3, <2>4 DEF LastGiven
    <2>6. ConsumerDrop'
        BY <2>4, <2>5 DEF ConsumerDrop
    <2>7. TokensEnd'
        <3>1. ASSUME NEW t, NEW L
              PROVE  TokenEnds(t, L) => TokenEnds(t, L)'
            BY <2>2, EndsGrow
        <3>2. TokenEnds(stash[1].token, LastGiven) /\ TokenEnds(saved.token, LastSaved)
            BY <2>1, <2>3 DEF DropInv, TokensEnd
        <3>3. QED
            BY <2>1, <2>2, <2>3, <2>4, <2>5, <3>1, <3>2 DEF TokensEnd
    <2>8. QED
        BY <1>1, <1>2, <2>2, <2>5, <2>6, <2>7
<1>7. CASE ReturnNone \/ ReturnEnded
    <2>1. /\ UNCHANGED <<filter, stash, applied, saved, mode, opening, pending>>
          /\ UNCHANGED <<history, from, released>>
          /\ mode # "closed" /\ stash = <<>>
          /\ \/ token'.kind = "watermark"
             \/ token' = pending /\ mode = "ended"
        BY <1>7 DEF ReturnNone, ReturnEnded, Drain, WatermarkToken, orderedVars, logVars, sourceVars,
                    IndInv, ConsumerType
    <2>2. /\ LastApplied' = LastApplied /\ LastGiven' = LastGiven /\ LastSaved' = LastSaved
          /\ LastGiven = LastApplied /\ DOMAIN stash' = {}
        BY <2>1 DEF LastApplied, LastGiven, LastSaved
    <2>3. ConsumerDrop'
        BY <2>1, <2>2 DEF DropInv, ConsumerDrop, InvalidateFollowsDrop
    <2>4. ASSUME NEW t, NEW L
          PROVE  TokenEnds(t, L) => TokenEnds(t, L)'
        BY <2>1, EndsGrow
    <2>5. mode = "ended" => TokenEnds(pending, LastApplied)
        BY <2>2 DEF DropInv, EndDue, TokenEnds, IndInv, EndInv, OwnDropOf
    <2>6. TokensEnd'
        BY <2>1, <2>2, <2>4, <2>5 DEF DropInv, TokensEnd
    <2>7. QED
        BY <1>1, <1>2, <2>1, <2>2, <2>3, <2>6
<1>8. QED
    BY <1>3, <1>4, <1>5, <1>6, <1>7

\* A new stream comes to the drop that the consumer saved the token of.
LEMMA DropOpened ==
    ASSUME IndInv, DropInv, Resume \/ \E s \in 1 .. MaxTs : OpenFresh(s)
    PROVE  DropInv'
<1>1. ASSUME NEW t \in Token, NEW L, TokenEnds(t, L), InvalidateFollowsDrop',
             from' = StartsOf(t), released' = [g \in Group |-> {}],
             mode' = "source", opening' = t, stash' = <<>>, token' = t, saved'.token = t,
             LastApplied' = L, LastSaved' = L, UNCHANGED <<history, filter>>
      PROVE  DropInv'
    <2>1. TokenEnds(t, L)'
        BY <1>1, EndsGrow
    <2>2. LastGiven' = L /\ DOMAIN stash' = {}
        BY <1>1 DEF LastGiven
    <2>3. ConsumerDrop' /\ TokensEnd'
        BY <1>1, <2>1, <2>2 DEF ConsumerDrop, TokensEnd
    <2>4. \A g \in Group : history[g] \subseteq Record[g]
        BY DEF IndInv, StreamType
    <2>5. ASSUME NEW ts \in 1 .. MaxTs, InvalidateDue(ts, L)
          PROVE  t.ts = ts /\ OwnDropAhead'
        <3>1. /\ t.ts = ts
              /\ \E g \in Group : \E r \in history[g] :
                    OwnDropOf(t, g, r) /\ LaterTs(t.entries[g]) = ts
            BY <1>1, <2>5 DEF TokenEnds
        <3>2. PICK g \in Group : \E r \in history[g] :
                 OwnDropOf(t, g, r) /\ LaterTs(t.entries[g]) = ts
            BY <3>1
        <3>3. PICK r \in history[g] : OwnDropOf(t, g, r) /\ LaterTs(t.entries[g]) = ts
            BY <3>2
        <3>4. r.ts = ts /\ from'[g] = ts /\ ts >= ts
            BY <1>1, <2>4, <3>1, <3>3, OwnDropPast DEF OwnDropOf
        <3>5. r \in Wanted(g)' \ released'[g]
            BY <1>1, <3>4 DEF Wanted
        <3>6. QED
            BY <1>1, <3>1, <3>3, <3>5 DEF OwnDropAhead, OwnDropOf
    <2>6. OwnDropAhead' => DropGiven(t.ts, L)
        BY <1>1, <2>4 DEF OwnDropAhead, Wanted, TokenEnds
    <2>7. StreamEnds'
        BY <1>1, <2>2, <2>5, <2>6 DEF StreamEnds, InvalidateDue, DropGiven
    <2>8. QED
        BY <1>1, <2>3, <2>7 DEF DropInv
<1>2. CASE Resume
    <2>1. ASSUME NEW t, t = saved.token
          PROVE  /\ from' = StartsOf(t) /\ released' = [g \in Group |-> {}]
                 /\ mode' = "source" /\ opening' = t /\ stash' = <<>> /\ token' = t
                 /\ saved' = saved /\ history' = history /\ mode # "closed" /\ filter' = filter
                 /\ applied' = SubSeq(applied, 1, saved.n)
        <3>1. StartsOf(t) = [g \in Group |->
                 IF Named(t, g)
                 THEN LaterTs([h \in Group |-> IF Named(t, h) THEN t.entries[h] ELSE NoCursor][g])
                 ELSE AbsentStart(t)]
            BY DEF StartsOf
        <3>2. QED
            BY <1>2, <2>1, <3>1 DEF Resume, Opened, logVars
    <2>2. /\ applied \in Seq(Change) /\ saved.n \in Nat /\ saved.n <= Len(applied)
          /\ saved.token \in Token
        BY DEF IndInv, ConsumerType
    <2>3. applied' = SubSeq(applied, 1, saved.n) /\ saved' = saved /\ filter' = filter
        BY <2>1
    <2>4. /\ DOMAIN applied' = 1 .. saved.n /\ Len(applied') = saved.n
          /\ \A i \in 1 .. saved.n : applied'[i] = applied[i]
          /\ DOMAIN applied = 1 .. Len(applied)
        BY <2>2, <2>3
    <2>5. LastApplied' = LastSaved /\ LastSaved' = LastSaved
        <3>1. \A i \in {saved.n} \ {0} : i \in 1 .. saved.n
            BY <2>2
        <3>2. QED
            BY <2>3, <2>4, <3>1 DEF LastApplied, LastSaved
    <2>6. InvalidateFollowsDrop'
        <3>1. ASSUME NEW i \in 1 .. saved.n
              PROVE  /\ applied'[i] = applied[i] /\ i \in DOMAIN applied
                     /\ i < saved.n => applied'[i + 1] = applied[i + 1] /\ i < Len(applied)
                     /\ i > 1 => applied'[i - 1] = applied[i - 1]
            <4>1. /\ i < saved.n => i + 1 \in 1 .. saved.n
                  /\ i > 1 => i - 1 \in 1 .. saved.n
                BY <2>2
            <4>2. QED
                BY <2>2, <2>4, <4>1
        <3>2. InvalidateFollowsDrop
            BY DEF DropInv, ConsumerDrop
        <3>3. ASSUME NEW i \in 1 .. saved.n, applied'[i].class = "drop",
                     IsCollection(applied'[i].ns), "invalidate" \notin filter, i < saved.n
              PROVE  applied'[i + 1] = [applied'[i] EXCEPT !.class = "invalidate"]
            <4>1. /\ applied'[i] = applied[i] /\ i \in DOMAIN applied
                  /\ applied'[i + 1] = applied[i + 1] /\ i < Len(applied)
                BY <3>1, <3>3
            <4>2. applied[i + 1] = [applied[i] EXCEPT !.class = "invalidate"]
                BY <3>2, <3>3, <4>1 DEF InvalidateFollowsDrop
            <4>3. QED
                BY <4>1, <4>2
        <3>4. ASSUME NEW i \in 1 .. saved.n, applied'[i].class = "invalidate", "drop" \notin filter
              PROVE  i > 1 /\ applied'[i - 1] = [applied'[i] EXCEPT !.class = "drop"]
            <4>1. applied'[i] = applied[i] /\ i \in DOMAIN applied
                BY <3>1
            <4>2. i > 1 /\ applied[i - 1] = [applied[i] EXCEPT !.class = "drop"]
                BY <3>2, <3>4, <4>1 DEF InvalidateFollowsDrop
            <4>3. QED
                BY <3>1, <4>1, <4>2
        <3>5. QED
            BY <2>3, <2>4, <3>3, <3>4 DEF InvalidateFollowsDrop, IsCollection
    <2>7. ASSUME NEW t, NEW L, t = saved.token, L = LastSaved
          PROVE  DropInv'
        <3>1. TokenEnds(t, L)
            BY <2>1, <2>7 DEF DropInv, TokensEnd
        <3>2. QED
            BY <1>1, <2>1, <2>2, <2>5, <2>6, <2>7, <3>1
    <2>8. QED
        BY <2>7
<1>3. ASSUME NEW s \in 1 .. MaxTs, OpenFresh(s)
      PROVE  DropInv'
    <2>1. ASSUME NEW t, t = [NoToken EXCEPT !.ts = s]
          PROVE  DropInv'
        <3>1. /\ mode' = "source" /\ opening' = t /\ stash' = <<>> /\ token' = t /\ mode = "closed"
              /\ saved' = [token |-> t, n |-> 0] /\ applied' = applied
            BY <1>3, <2>1 DEF OpenFresh, Opened
        <3>2. applied = <<>> /\ t.kind = "watermark"
            BY <2>1, <3>1 DEF IndInv, StreamType, NoToken
        <3>3. LastApplied' = {} /\ LastSaved' = {} /\ LastGiven' = {} /\ DOMAIN stash' = {}
            BY <3>1, <3>2 DEF LastApplied, LastSaved, LastGiven
        <3>4. ConsumerDrop' /\ TokensEnd'
            BY <3>1, <3>2, <3>3
            DEF ConsumerDrop, InvalidateFollowsDrop, TokensEnd, TokenEnds, InvalidateDue, OwnDropOf
        <3>5. StreamEnds'
            BY <3>1, <3>2, <3>3 DEF StreamEnds, InvalidateDue, OwnDropAhead, OwnDropOf
        <3>6. QED
            BY <3>1, <3>4, <3>5 DEF DropInv
    <2>2. QED
        BY <2>1
<1>4. QED
    BY <1>2, <1>3

\* The stream is not to come to a drop of its own, so no invalidate event is due.
LEMMA NothingDue ==
    ASSUME StreamEnds, ~OwnDropAhead, LastGiven = LastApplied,
           NEW c, c.class # "invalidate"
    PROVE  MayFollow(c, LastApplied) /\ \A ts \in 1 .. MaxTs : ~InvalidateDue(ts, LastGiven)
BY DEF StreamEnds, MayFollow

\* The token of a change that is not a drop of the watched collection leads to
\* no drop.
LEMMA PlainToken ==
    ASSUME NEW g \in Group, NEW r \in Record[g], ~IsDrop(g, r), NEW c \in Changes(g, r),
           NEW t, t.ts = r.ts
    PROVE  TokenEnds(t, {c}) /\ \A ts \in 1 .. MaxTs : ~InvalidateDue(ts, {c})
<1>1. ASSUME NEW ts \in 1 .. MaxTs, InvalidateDue(ts, {c})
      PROVE  FALSE
    <2>1. /\ c = DropChange(ts) /\ Scope.kind = "collection"
          /\ c.class = "drop" /\ c.ns = [db |-> Scope.db, coll |-> Scope.coll]
        BY <1>1 DEF InvalidateDue, DropChange
    <2>2. IsCollection(c.ns)
        BY <2>1 DEF IsCollection
    <2>3. CASE r.stream = "data"
        BY <2>1, <2>3 DEF Changes, DocumentChange
    <2>4. CASE r.stream # "data"
        <3>1. r.stream = "ddl" /\ c \in Reported(r.ts, SchemaOp[g][r])
            BY <2>4, ChangeFacts, KeyFacts DEF Changes
        <3>2. QED
            BY <2>1, <2>2, <3>1, ReportedFacts
    <2>5. QED
        BY <2>3, <2>4
<1>2. ASSUME NEW h \in Group, NEW s \in Record[h], OwnDropOf(t, h, s)
      PROVE  FALSE
    <2>1. IsDrop(h, s) /\ r.ts = s.ts
        BY <1>2 DEF OwnDropOf
    <2>2. g = h /\ r = s
        BY <2>1, DropAlone
    <2>3. QED
        BY <2>1, <2>2
<1>3. QED
    BY <1>1, <1>2 DEF TokenEnds

\* The stream has given a change of a record, and goes on.
LEMMA PlainEnds ==
    ASSUME IndInv, EndsOnce, ExactInv, DropInv, mode \in {"source", "decode"},
           pulling, mode' \in {"source", "decode"},
           NEW g \in Group, NEW r \in Record[g], Producing(g, r), ~IsDrop(g, r),
           NEW c \in Changes(g, r), NEW t, t.ts = r.ts, Return(c, t),
           UNCHANGED <<history, from, opening>>,
           \A h \in Group : released[h] \subseteq released'[h]
    PROVE  DropInv'
<1>1. /\ ConsumerType /\ stash = <<>> /\ ConsumerDrop /\ TokensEnd /\ StreamEnds /\ StreamExact
      /\ LastGiven = LastApplied
    BY DEF IndInv, ConsumerType, DropInv, ExactInv, LastGiven
<1>2. ~OwnDropAhead
    BY <1>1, OwnDropFirst
<1>3. c \in Change /\ c.class # "invalidate"
    <2>1. c \in Change /\ r \in RecordType
        BY ChangeFacts
    <2>2. CASE r.stream = "data"
        BY <2>1, <2>2 DEF Changes, DocumentChange
    <2>3. CASE r.stream # "data"
        BY <2>1, <2>3, KeyFacts, ReportedFacts DEF Changes
    <2>4. QED
        BY <2>1, <2>2, <2>3
<1>4. MayFollow(c, LastApplied) /\ \A ts \in 1 .. MaxTs : ~InvalidateDue(ts, LastGiven)
    BY <1>1, <1>2, <1>3, NothingDue
<1>5. TokenEnds(t, {c}) /\ \A ts \in 1 .. MaxTs : ~InvalidateDue(ts, {c})
    BY PlainToken
<1>6. /\ ConsumerDrop' /\ TokensEnd' /\ filter' = filter
      /\ LastGiven' = IF c.class \in filter THEN LastGiven ELSE {c}
    BY <1>1, <1>3, <1>4, <1>5, ReturnEnds
<1>7. ~OwnDropAhead'
    BY <1>2 DEF OwnDropAhead, Wanted
<1>8. StreamEnds'
    BY <1>4, <1>5, <1>6, <1>7 DEF StreamEnds, InvalidateDue
<1>9. QED
    BY <1>6, <1>8 DEF DropInv

\* The stream has passed over a record that is not its own drop.
LEMMA PassedEnds ==
    ASSUME IndInv, DropInv, mode \in {"source", "decode"}, mode' \in {"source", "decode"},
           NEW g \in Group, NEW r, ~OwnDropOf(opening, g, r),
           UNCHANGED <<history, from, opening, consumerVars>>,
           \A h \in Group \ {g} : released'[h] = released[h],
           released'[g] = released[g] \cup {r}
    PROVE  DropInv'
<1>1. UNCHANGED <<filter, stash, token, applied, saved>>
    BY DEF consumerVars
<1>2. LastGiven' = LastGiven /\ ConsumerDrop' /\ TokensEnd'
    BY <1>1, ConsumerRests DEF DropInv
<1>3. OwnDropAhead' <=> OwnDropAhead
    <2>1. \A h \in Group : Wanted(h)' = Wanted(h)
        BY DEF Wanted
    <2>2. ASSUME NEW h \in Group, NEW s \in Wanted(h), OwnDropOf(opening, h, s)
          PROVE  s \in released'[h] <=> s \in released[h]
        BY <2>2
    <2>3. QED
        BY <2>1, <2>2 DEF OwnDropAhead
<1>4. StreamEnds'
    BY <1>1, <1>2, <1>3, DueStays DEF DropInv
<1>5. QED
    BY <1>2, <1>4 DEF DropInv

\* The decoder.
LEMMA DropDecoding ==
    ASSUME IndInv, EndsOnce, ExactInv, DropInv, DecodeEnd \/ \E p : DecodeEntry(p)
    PROVE  DropInv'
<1>1. mode = "decode" /\ pulling
    BY DEF DecodeEnd, DecodeEntry
<1>2. ASSUME NEW g, g = current.group, NEW r, r = DecodeRecord
      PROVE  DropInv'
    <2>1. /\ Producing(g, r) /\ g \in Group /\ r \in RecordType /\ r \in Record[g]
          /\ r.stream = "data" /\ r.ts = current.ts /\ ~IsDrop(g, r) /\ r \in released[g]
        BY <1>1, <1>2, DecodeProducing DEF IsDrop, IndInv, DecodeOK
    <2>2. ASSUME UNCHANGED <<history, from, released, opening, consumerVars>>,
                 mode' \in {"source", "decode"}
          PROVE  DropInv'
        <3>1. ~OwnDropOf(opening, g, r)
            BY <2>1 DEF OwnDropOf
        <3>2. QED
            BY <1>1, <2>1, <2>2, <3>1, PassedEnds
    <2>3. CASE DecodeEnd
        BY <2>2, <2>3 DEF DecodeEnd, GoOn, orderedVars, logVars, sourceVars
    <2>4. ASSUME NEW p, DecodeEntry(p)
          PROVE  DropInv'
        <3>1. ASSUME NEW d, d = Within(cursor[g], current.key, p),
                     NEW cur, cur = [cursor EXCEPT ![g] = d],
                     NEW c, c = DocumentChange(r.ts, Blob[g][r], p),
                     NEW t, t = EventToken(r.ts, cur)
              PROVE  DropInv'
            <4>1. /\ UNCHANGED <<history, from, released, opening, mode>> /\ IsNextPlace(p)
                  /\ GoOn \/ Return(c, t)
                BY <1>2, <2>1, <2>4, <3>1
                DEF DecodeEntry, Within, DecodeRecord, orderedVars, logVars, sourceVars
            <4>2. CASE GoOn
                BY <1>1, <2>2, <4>1, <4>2 DEF GoOn
            <4>3. CASE Return(c, t)
                <5>1. p \in Places(Blob[g][r])
                    BY <1>2, <4>1 DEF IsNextPlace, PlacesLeft, DecodeRecord
                <5>2. c \in Changes(g, r) /\ t.ts = r.ts
                    BY <2>1, <3>1, <5>1 DEF Changes, EventToken
                <5>3. QED
                    BY <1>1, <2>1, <4>1, <4>3, <5>2, PlainEnds
            <4>4. QED
                BY <4>1, <4>2, <4>3
        <3>2. QED
            BY <3>1
    <2>5. QED
        BY <2>3, <2>4
<1>3. QED
    BY <1>2

\* The invalidate event.
LEMMA DropInvalidate ==
    ASSUME IndInv, DropInv, ReturnInvalidate
    PROVE  DropInv'
<1>1. ASSUME NEW c, c = InvalidateChange(pending.ts), NEW t, t = pending
      PROVE  DropInv'
    <2>1. /\ mode = "pending" /\ mode' = "ended" /\ Return(c, t) /\ pulling /\ history' = history
        BY <1>1 DEF ReturnInvalidate, InvalidateChange, orderedVars, logVars
    <2>2. /\ stash = <<>> /\ pending.kind = "invalidate" /\ TokenOK(pending, Given)
          /\ pending \in Token /\ ConsumerType /\ ConsumerDrop /\ TokensEnd /\ EndDue
          /\ LastGiven = LastApplied
        BY <2>1 DEF IndInv, EndInv, ConsumerType, StreamType, DropInv, LastGiven
    <2>3. pending.ts \in 1 .. MaxTs
        <3>1. AbsentStart(pending) >= 1
            BY <2>2 DEF TokenOK, TokenCovers
        <3>2. QED
            BY <2>2, <3>1, BoundsAssumption DEF AbsentStart, Token
    <2>4. c \in Change /\ c.class = "invalidate" /\ c.ts = pending.ts
        BY <1>1, <2>3, ChangeFacts DEF InvalidateChange
    <2>5. MayFollow(c, LastApplied)
        BY <1>1, <2>1, <2>2, <2>4 DEF MayFollow, EndDue
    <2>6. \A ts : ~InvalidateDue(ts, {c})
        BY <2>4 DEF InvalidateDue, DropChange
    <2>7. TokenEnds(t, {c})
        BY <1>1, <2>2, <2>6 DEF TokenEnds, OwnDropOf
    <2>8. /\ ConsumerDrop' /\ TokensEnd' /\ filter' = filter
          /\ LastGiven' = IF c.class \in filter THEN LastGiven ELSE {c}
        BY <2>1, <2>2, <2>4, <2>5, <2>7, ReturnEnds
    <2>9. EndDue'
        <3>1. CASE c.class \in filter
            BY <2>1, <2>4, <2>8, <3>1 DEF EndDue, InvalidateDue
        <3>2. CASE c.class \notin filter
            BY <2>1, <2>6, <2>8, <3>2 DEF EndDue, InvalidateDue
        <3>3. QED
            BY <3>1, <3>2
    <2>10. QED
        BY <2>1, <2>8, <2>9 DEF DropInv
<1>2. QED
    BY <1>1

\* The stream comes to a drop of the watched collection that is new to it.
LEMMA DropEnds ==
    ASSUME IndInv, EndsOnce, ExactInv, DropInv, mode = "source", pulling,
           NEW g \in Group, NEW r \in Record[g], Producing(g, r), IsDrop(g, r),
           NEW d \in Cursor, LaterTs(d) = r.ts, ~d.partial, d.ddlKey = KeyOf(r),
           NEW t, t = EventToken(r.ts, [cursor EXCEPT ![g] = d]),
           NEW c \in Changes(g, r), Return(c, t), history' = history,
           mode' = "pending", pending' = InvalidateToken(t)
    PROVE  DropInv'
<1>1. /\ ConsumerType /\ stash = <<>> /\ ConsumerDrop /\ TokensEnd /\ StreamEnds /\ StreamExact
      /\ LastGiven = LastApplied /\ cursor \in [Group -> Cursor]
    BY DEF IndInv, ConsumerType, DropInv, ExactInv, LastGiven, StreamType
<1>2. ~OwnDropAhead
    BY <1>1, OwnDropFirst
<1>3. /\ c = DropChange(r.ts) /\ c.class = "drop" /\ c \in Change
      /\ r \in history[g] /\ r.ts \in Nat /\ r.ts \in 1 .. MaxTs
    <2>1. r.stream = "ddl" /\ Reported(r.ts, SchemaOp[g][r]) = {DropChange(r.ts)}
        BY DropFacts
    <2>2. c = DropChange(r.ts)
        BY <2>1 DEF Changes
    <2>3. QED
        BY <2>2, ChangeFacts, KeyFacts DEF DropChange, Producing
<1>4. MayFollow(c, LastApplied) /\ \A ts \in 1 .. MaxTs : ~InvalidateDue(ts, LastGiven)
    BY <1>1, <1>2, <1>3, NothingDue
<1>5. \A ts : InvalidateDue(ts, {c}) => ts = r.ts
    BY <1>3 DEF InvalidateDue, DropChange
<1>6. t.kind = "event" /\ t.ts = r.ts /\ t.entries[g] = d
    <2>1. /\ t.kind = "event" /\ t.ts = r.ts
          /\ t.entries = Entries([cursor EXCEPT ![g] = d], r.ts - 1)
        BY DEF EventToken
    <2>2. [cursor EXCEPT ![g] = d][g] = d
        BY <1>1
    <2>3. ~(LaterTs(d) <= r.ts - 1)
        BY <1>3
    <2>4. QED
        BY <2>1, <2>2, <2>3 DEF Entries
<1>7. OwnDropOf(t, g, r) /\ LaterTs(t.entries[g]) = r.ts
    BY <1>6 DEF OwnDropOf
<1>8. TokenEnds(t, {c})
    <2>1. DropGiven(t.ts, {c})
        BY <1>3, <1>6 DEF DropGiven
    <2>2. QED
        BY <1>3, <1>5, <1>6, <1>7, <2>1 DEF TokenEnds
<1>9. /\ ConsumerDrop' /\ TokensEnd' /\ filter' = filter
      /\ LastGiven' = IF c.class \in filter THEN LastGiven ELSE {c}
    BY <1>1, <1>3, <1>4, <1>8, ReturnEnds
<1>10. pending'.ts = r.ts
    BY DEF EventToken, InvalidateToken
<1>11. EndDue'
    <2>1. CASE c.class \in filter
        BY <1>3, <1>4, <1>9, <2>1 DEF EndDue, InvalidateDue, DropGiven
    <2>2. CASE c.class \notin filter
        BY <1>3, <1>5, <1>9, <1>10, <2>2 DEF EndDue, InvalidateDue, DropGiven
    <2>3. QED
        BY <2>1, <2>2
<1>12. QED
    BY <1>9, <1>11 DEF DropInv

\* A record that the source releases.
LEMMA DropTaken ==
    ASSUME IndInv, EndsOnce, ExactInv, DropInv, NEW g \in Group, NEW r \in Record[g],
           TakeRecord(g, r)
    PROVE  DropInv'
<1>1. /\ pulling /\ mode = "source" /\ stash = <<>> /\ r \in RecordType
      /\ IsNext(g, r) /\ r \in Wanted(g) \ released[g]
      /\ released' = [released EXCEPT ![g] = @ \cup {r}]
      /\ UNCHANGED <<history, from>>
      /\ skip[g] \in Cursor /\ LaterTs(skip[g]) <= r.ts
      /\ StreamType
    BY TakenFacts
<1>2. /\ released'[g] = released[g] \cup {r}
      /\ \A h \in Group \ {g} : released'[h] = released[h]
      /\ \A h \in Group : released[h] \subseteq released'[h]
      /\ cursor \in [Group -> Cursor] /\ opening \in Token /\ StreamExact
    BY <1>1 DEF StreamType, ExactInv
<1>3. ASSUME GoOn, opening' = opening, ~OwnDropOf(opening, g, r), mode' \in {"source", "decode"}
      PROVE  DropInv'
    BY <1>1, <1>2, <1>3, PassedEnds DEF GoOn
<1>4. CASE BeginData(g, r)
    <2>1. /\ GoOn /\ opening' = opening /\ mode' \in {"source", "decode"} /\ r.stream = "data"
        BY <1>1, <1>4 DEF BeginData
    <2>2. QED
        BY <1>3, <2>1 DEF OwnDropOf, IsDrop
<1>5. CASE BeginOldDdl(g, r)
    <2>1. /\ GoOn /\ opening' = opening
          /\ \/ /\ OwnDropOf(opening, g, r) /\ mode' = "pending"
                /\ pending' = InvalidateToken(opening)
             \/ ~OwnDropOf(opening, g, r) /\ mode' = mode
        BY <1>5 DEF BeginOldDdl, IsOwnDrop, OwnDropOf, IsDrop
    <2>2. CASE ~OwnDropOf(opening, g, r) /\ mode' = mode
        BY <1>1, <1>3, <2>1, <2>2
    <2>3. CASE OwnDropOf(opening, g, r) /\ mode' = "pending" /\ pending' = InvalidateToken(opening)
        <3>1. OwnDropAhead
            BY <1>1, <2>3 DEF OwnDropAhead
        <3>2. UNCHANGED <<filter, stash, token, applied, saved>>
            BY <2>1 DEF GoOn, consumerVars
        <3>3. LastGiven' = LastGiven /\ ConsumerDrop' /\ TokensEnd'
            BY <1>1, <3>2, ConsumerRests DEF DropInv
        <3>4. pending'.ts = opening.ts
            BY <1>2, <2>3 DEF InvalidateToken, Token
        <3>5. EndDue'
            BY <1>1, <2>3, <3>1, <3>2, <3>3, <3>4
            DEF DropInv, StreamEnds, EndDue, InvalidateDue, DropGiven
        <3>6. QED
            BY <2>3, <3>3, <3>5 DEF DropInv
    <2>4. QED
        BY <2>1, <2>2, <2>3
<1>6. CASE BeginDdl(g, r)
    <2>1. ASSUME NEW d, d = DdlFinished(cursor[g], KeyOf(r)),
                 NEW t, t = EventToken(r.ts, [cursor EXCEPT ![g] = d])
          PROVE  DropInv'
        <3>1. /\ r.stream = "ddl" /\ ~OldDdl(g, r) /\ opening' = opening
              /\ \/ Reported(r.ts, SchemaOp[g][r]) = {} /\ GoOn
                 \/ \E c \in Reported(r.ts, SchemaOp[g][r]) : Return(c, t)
              /\ \/ IsDrop(g, r) /\ mode' = "pending" /\ pending' = InvalidateToken(t)
                 \/ mode' = mode /\ ~IsDrop(g, r)
            <4>1. [cursor EXCEPT ![g] = d] = [cursor EXCEPT ![g].ddlKey = KeyOf(r)]
                BY <2>1 DEF DdlFinished
            <4>2. QED
                BY <1>6, <2>1, <4>1 DEF BeginDdl, IsDrop
        <3>2. Producing(g, r)
            <4>1. ~Past(skip[g], r)
                BY <1>1, <3>1, SkipTests
            <4>2. QED
                BY <1>1, <4>1, TakenProducing
        <3>3. t.ts = r.ts /\ Changes(g, r) = Reported(r.ts, SchemaOp[g][r])
            BY <2>1, <3>1 DEF EventToken, Changes
        <3>4. CASE mode' = mode /\ ~IsDrop(g, r)
            <4>1. CASE GoOn
                BY <1>1, <1>3, <3>1, <3>4, <4>1 DEF OwnDropOf
            <4>2. ASSUME NEW c \in Changes(g, r), Return(c, t)
                  PROVE  DropInv'
                BY <1>1, <1>2, <3>1, <3>2, <3>3, <3>4, <4>2, PlainEnds
            <4>3. QED
                BY <3>1, <3>3, <4>1, <4>2
        <3>5. CASE IsDrop(g, r) /\ mode' = "pending" /\ pending' = InvalidateToken(t)
            <4>1. d \in Cursor /\ LaterTs(d) = r.ts /\ d.partial = cursor[g].partial
                  /\ d.ddlKey = KeyOf(r)
                <5>1. d \in Cursor /\ LaterTs(d) = r.ts
                    BY <1>1, <1>2, <2>1, <3>1, <3>2, DdlFinishedFacts DEF Producing
                <5>2. d.partial = cursor[g].partial /\ d.ddlKey = KeyOf(r)
                    BY <1>2, <2>1 DEF DdlFinished, Cursor
                <5>3. QED
                    BY <5>1, <5>2
            <4>2. ~cursor[g].partial
                BY <1>1, <1>2, <3>1, <3>2, NotInside DEF StreamExact
            <4>3. PICK c \in Changes(g, r) : Return(c, t)
                BY <3>1, <3>3, <3>5, DropFacts
            <4>4. QED
                BY <1>1, <2>1, <3>2, <3>5, <4>1, <4>2, <4>3, DropEnds
        <3>6. QED
            BY <3>1, <3>4, <3>5
    <2>2. QED
        BY <2>1
<1>7. QED
    BY <1>4, <1>5, <1>6 DEF TakeRecord

\* A drop of the watched collection is followed by its invalidate event and by
\* nothing else, also when the stream is resumed from the drop's token, and no
\* invalidate event comes without its drop, provided that the consumer saves the
\* tokens of events only, never the watermark of an empty reply.
THEOREM DropIsFollowed ==
    ASSUME "watermark" \notin SavedKinds
    PROVE  Spec => []InvalidateFollowsDrop
<1>1. Init => DropInv
    BY DEF Init, DropInv, ConsumerDrop, InvalidateFollowsDrop
<1>2. IndInv /\ EndsOnce /\ ExactInv /\ DropInv /\ [Next]_vars => DropInv'
    <2> SUFFICES ASSUME IndInv, EndsOnce, ExactInv, DropInv, [Next]_vars PROVE DropInv'
        OBVIOUS
    <2>1. CASE LogNext /\ UNCHANGED <<sourceVars, streamVars, consumerVars>>
        BY <2>1, DropBetween
    <2>2. ASSUME NEW g \in Group, Fetch(g), UNCHANGED <<streamVars, consumerVars>>
          PROVE  DropInv'
        BY <2>2, DropBetween DEF Fetch, logVars
    <2>3. CASE UNCHANGED vars
        BY <2>3, DropBetween DEF vars, orderedVars, logVars, sourceVars
    <2>4. CASE Resume \/ \E s \in 1 .. MaxTs : OpenFresh(s)
        BY <2>4, DropOpened
    <2>5. CASE Save
        BY <2>5, DropBetween
    <2>6. CASE Pull
        BY <2>6, DropBetween, DropInvalidate, DropDecoding, DropTaken DEF Pull, Decoding
    <2>7. QED
        BY <2>1, <2>2, <2>3, <2>4, <2>5, <2>6 DEF Next
<1>3. DropInv => InvalidateFollowsDrop
    BY DEF DropInv, ConsumerDrop
<1>4. QED
    BY <1>1, <1>2, <1>3, ExactInvariance, PTL DEF Spec
=============================================================================
