----------------------------- MODULE SpanQuery ------------------------------
(***************************************************************************)
(* The queries of htraced (HandleQuery and the source of datastore.go).    *)
(*                                                                         *)
(* HandleQuery reads rows from the index of the first indexed predicate:   *)
(* one LevelDB iterator per shard, merged by the value of the predicate's  *)
(* field, and filters them through the other predicates.  A client pages   *)
(* through long results: it repeats the query with prev, the last span it  *)
(* received.  Iterators are snapshots, taken shard by shard, while the     *)
(* shard goroutines go on writing; the spans behind secondary index        *)
(* entries are looked up in the live database.                             *)
(***************************************************************************)
EXTENDS SpanSchema, Sequences, FiniteSets, FiniteSetsExt

CONSTANTS
    Written,      \* the spans that may be stored, before or during a query
    Preds,        \* the lists of predicates that clients send
    BadVal,       \* a predicate value that does not parse
    Lims,         \* the limits that clients ask for
    ContainsRel,  \* pairs of texts, the second part of the first
    MaxWrites,    \* bound: writes while queries run
    MaxPages      \* bound: queries of a paging client

ASSUME WrittenAssumption == Written \subseteq Span
\* strconv parses 64-bit numbers, span ids without a sign and the others with one.
ASSUME PredsAssumption ==
    \A preds \in Preds : /\ preds \in Seq([op: STRING, field: STRING, val: {BadVal} \cup Int])
                         /\ \A i \in 1 .. Len(preds) : preds[i].val # BadVal =>
                               /\ preds[i].field = "spanid" => preds[i].val \in UnsignedRange
                               /\ preds[i].field \in {"begin", "end", "duration"}
                                     => preds[i].val \in SignedRange
ASSUME QueryBoundsAssumption == MaxWrites \in Nat /\ MaxPages \in Nat /\ Lims \subseteq Int

VARIABLES
    ldb,       \* [Shards -> DB]
    query,     \* the query at hand: predicates, limit and prev
    src,       \* the source's predicate, as createSource has adjusted it
    filters,   \* the other predicates
    iters,     \* [Shards -> iterator \cup {Nil}]
    nexts,     \* [Shards -> Span \cup {Nil}]
    numRead,   \* [Shards -> Nat]
    shardIdx,  \* the shard that the loop at hand has reached
    ret,       \* the results of the query at hand
    pc,        \* where HandleQuery stands
    pages,     \* the results of the client's earlier pages
    startDb,   \* history: ldb when the client sent its first query
    writes, pageNum   \* bound counters

sourceVars == <<src, filters, iters, nexts, numRead, shardIdx>>
clientVars == <<pages, startDb, pageNum>>
vars == <<ldb, query, src, filters, iters, nexts, numRead, shardIdx, ret, pc,
          pages, startDb, writes, pageNum>>

-----------------------------------------------------------------------------
\* Keys and iterators of LevelDB.

Invalid == Nil
NoId == -1

\* Byte order of the prefixes; the version record comes last.
TagRank == [b |-> 0, d |-> 1, e |-> 2, p |-> 3, s |-> 4, v |-> 5]

\* A 9-byte key is a prefix of the 17-byte keys with the same value, so that
\* it sorts before all of them.
makeKey(tag, val) == [tag |-> tag, fir |-> val, sec |-> NoId]

\* The keys of all kinds, and an iterator: a snapshot and its position.
Key == [tag: {"b", "d", "e", "p", "s", "v"},
        fir: NoId .. (2 * HalfRange - 1), sec: NoId .. (2 * HalfRange - 1)]
Iterator == [keys: SUBSET Key, data: [SpanIds -> Span \cup {Nil}], at: Key \cup {Invalid}]

ASSUME NilQueryAssumption == Nil \notin Key /\ Nil \notin Iterator

KeyLess(a, b) ==
    \/ TagRank[a.tag] < TagRank[b.tag]
    \/ a.tag = b.tag /\ a.fir < b.fir
    \/ a.tag = b.tag /\ a.fir = b.fir /\ a.sec < b.sec

Keys(db) ==
    {makeKey("s", id) : id \in {i \in SpanIds : db.data[i] # Nil}}
    \cup db.index \cup {makeKey("v", NoId)}

Least(keys) ==
    IF keys = {} THEN Invalid
    ELSE CHOOSE k \in keys : \A j \in keys : ~ KeyLess(j, k)
Greatest(keys) ==
    IF keys = {} THEN Invalid
    ELSE CHOOSE k \in keys : \A j \in keys : ~ KeyLess(k, j)

\* Seek moves to the key given or, if it does not exist, to the next one.
Seek(keys, key) == Least({k \in keys : ~ KeyLess(k, key)})
IterNext(keys, key) == Least({k \in keys : KeyLess(key, k)})
IterPrev(keys, key) == Greatest({k \in keys : KeyLess(k, key)})

-----------------------------------------------------------------------------
\* Predicates.

NumericFields == {"spanid", "begin", "end", "duration"}
fieldIsNumeric(pred) == pred.field \in NumericFields

\* Only numeric fields have an index.
getIndexPrefix(pred) ==
    CASE pred.field = "spanid" -> "s"
      [] pred.field = "begin" -> "b"
      [] pred.field = "end" -> "e"
      [] pred.field = "duration" -> "d"
      [] OTHER -> "none"

\* The operators that a source understands.
SourceOps == {"eq", "le", "ge", "gt"}

IsDescending(op) == op = "le"

\* loadPredicateData: the value, in the order of the index; BadVal
\* stands for what strconv cannot parse.
LoadedKey(pred) ==
    IF pred.field \in {"begin", "end", "duration"} THEN s2u64(pred.val) ELSE pred.val
\* What loadPredicateData refuses.
loadPredicateFails(pred) ==
    \/ pred.field \notin NumericFields \cup {"description", "processid"}
    \/ pred.val = BadVal
    \/ pred.op \notin {"eq", "le", "ge", "gt", "cn"}
    \/ pred.op = "cn" /\ fieldIsNumeric(pred)

extractRelevantSpanData(pred, span) ==
    CASE pred.field = "spanid" -> span.id
      [] pred.field = "begin" -> s2u64(span.begin)
      [] pred.field = "end" -> s2u64(span.end)
      [] pred.field = "duration" -> s2u64(Duration(span))
      [] pred.field = "description" -> span.desc
      [] pred.field = "processid" -> span.process

\* The predicate with its value loaded.
loaded(pred) == [op |-> pred.op, field |-> pred.field, key |-> LoadedKey(pred)]

satisfiedBy_Strict(pred, span) ==
    LET val == extractRelevantSpanData(pred, span) IN
    CASE pred.op = "eq" -> val = pred.key
      [] pred.op = "le" -> val <= pred.key
      [] pred.op \in {"ge", "gt"} -> val > pred.key
      [] pred.op = "cn" -> <<val, pred.key>> \in ContainsRel

satisfiedBy(pred, span) ==
    LET val == extractRelevantSpanData(pred, span) IN
    CASE pred.op = "eq" -> val = pred.key
      [] pred.op = "le" -> val <= pred.key
      [] pred.op = "ge" -> val >= pred.key
      [] pred.op = "gt" -> val > pred.key
      [] pred.op = "cn" -> <<val, pred.key>> \in ContainsRel

\* nil comes after everything.
spanPtrIsBefore(pred, a, b) ==
    /\ a # Nil
    /\ \/ b = Nil
       \/ LET x == extractRelevantSpanData(pred, a)
              y == extractRelevantSpanData(pred, b) IN
          IF IsDescending(pred.op) THEN x > y ELSE x < y

mayRequireOneSkip(op) == op \in {"le", "gt"}

-----------------------------------------------------------------------------
\* The source of rows.

\* The position of the first indexed predicate, 0 if there is none.
FirstIndexed(preds) ==
    LET I == {i \in 1 .. Len(preds) : getIndexPrefix(preds[i]) # "none"} IN
    IF I = {} THEN 0 ELSE Min(I)

\* Without an indexed predicate, rows are read in the order of span ids.
AllSpans == [op |-> "ge", field |-> "spanid", key |-> 0]

\* obtainSource: the predicate that feeds the source, and the others.
SourcePred(preds) ==
    LET i == FirstIndexed(preds) IN IF i = 0 THEN AllSpans ELSE loaded(preds[i])
FilterPreds(preds) ==
    {loaded(preds[j]) : j \in (1 .. Len(preds)) \ {FirstIndexed(preds)}}

\* The id that a continued query starts from.
StartId(pred, prev) ==
    CASE pred.op = "eq" ->
            IF pred.field = "spanid" THEN 0 ELSE (prev.id + 1) % (2 * HalfRange)
      [] pred.op = "le" -> (prev.id - 1) % (2 * HalfRange)
      [] pred.op \in {"ge", "gt"} -> prev.id

AdjustedPred_KeepsGreaterOrEqual(pred, prev) ==
    IF prev = Nil THEN pred
    ELSE [op |-> pred.op,
          field |-> pred.field,
          key |-> IF pred.field = "spanid" THEN StartId(pred, prev)
                  ELSE extractRelevantSpanData(pred, prev)]

\* createSource: the predicate after the adjustment for a continued query.
AdjustedPred(pred, prev) ==
    IF prev = Nil THEN pred
    ELSE [op |-> IF pred.op = "ge" THEN "gt" ELSE pred.op,
          field |-> pred.field,
          key |-> IF pred.field = "spanid" THEN StartId(pred, prev)
                  ELSE extractRelevantSpanData(pred, prev)]

\* createSource: the key to seek.
SearchKey(pred, prev) ==
    LET tag == getIndexPrefix(pred) IN
    IF prev = Nil THEN makeKey(tag, pred.key)
    ELSE IF pred.field = "spanid" THEN makeKey(tag, StartId(pred, prev))
    ELSE makeSecondaryKey(tag, extractRelevantSpanData(pred, prev),
                          StartId(pred, prev))

-----------------------------------------------------------------------------

PutAll(db, spans) ==
    [data |-> [id \in SpanIds |->
                 IF \E span \in spans : span.id = id
                   THEN CHOOSE span \in spans : span.id = id ELSE db.data[id]],
     index |-> db.index \cup UNION {IndexKeys(span) : span \in spans}]

NoPred == [op |-> "none", field |-> "none", key |-> 0]
NoSource ==
    /\ src = NoPred /\ filters = {}
    /\ iters = [s \in Shards |-> Nil]
    /\ nexts = [s \in Shards |-> Nil]
    /\ numRead = [s \in Shards |-> 0]
    /\ shardIdx = 0

\* Some spans, one for each id at most, have been written before.
StoreInit ==
    /\ \E spans \in SUBSET Written :
          /\ \A a, b \in spans : a.id = b.id => a = b
          /\ ldb = [s \in Shards |->
                PutAll(EmptyDB, {a \in spans : getShardIndex(a.id) = s})]
    /\ startDb = ldb
    /\ writes = 0

\* The client sends its first query.
QueryInit ==
    /\ \E preds \in Preds, lim \in Lims :
          query = [preds |-> preds, lim |-> lim, prev |-> Nil]
    /\ NoSource
    /\ ret = <<>> /\ pc = "load"
    /\ pages = <<>> /\ pageNum = 1

Init == StoreInit /\ QueryInit

\* The goroutine of a shard writes a span while the query runs.
Write(span) ==
    LET s == getShardIndex(span.id) IN
    /\ writes < MaxWrites /\ pc \notin {"done", "error"}
    /\ ldb' = [ldb EXCEPT ![s] = PutBatch(@, span)]
    /\ writes' = writes + 1
    /\ UNCHANGED <<query, sourceVars, ret, pc, clientVars>>

\* HandleQuery parses the predicates and obtains a source; an error ends it.
LoadPredicates ==
    /\ pc = "load"
    /\ IF \E i \in 1 .. Len(query.preds) : loadPredicateFails(query.preds[i])
         THEN pc' = "error" /\ UNCHANGED <<src, filters>>
         ELSE /\ pc' = "open"
              /\ src' = SourcePred(query.preds)
              /\ filters' = FilterPreds(query.preds)
    /\ UNCHANGED <<ldb, query, iters, nexts, numRead, shardIdx, ret,
                   clientVars, writes>>

\* createSource opens an iterator on the shard: a snapshot.
OpenIterator ==
    /\ pc = "open" /\ shardIdx < NumShards
    /\ iters' = [iters EXCEPT ![shardIdx] =
          [keys |-> Keys(ldb[shardIdx]), data |-> ldb[shardIdx].data,
           at |-> Invalid]]
    /\ shardIdx' = shardIdx + 1
    /\ UNCHANGED <<ldb, query, src, filters, nexts, numRead, ret, pc,
                   clientVars, writes>>

\* createSource adjusts the predicate to prev and seeks on every iterator.
\* A continued query with any other operator panics.
SeekIterators ==
    /\ pc = "open" /\ shardIdx = NumShards
    /\ IF query.prev # Nil /\ src.op \notin SourceOps
         THEN pc' = "panicked" /\ UNCHANGED <<src, iters, shardIdx>>
         ELSE /\ src' = AdjustedPred(src, query.prev)
              /\ iters' = [s \in Shards |-> [iters[s] EXCEPT
                    !.at = Seek(iters[s].keys, SearchKey(src, query.prev))]]
              /\ shardIdx' = 0
              /\ pc' = IF query.lim <= 0 THEN "done" ELSE "populate"
    /\ UNCHANGED <<ldb, query, filters, nexts, numRead, ret, clientVars, writes>>

\* The loops over the shards go on to the next one.
AdvanceShard ==
    IF shardIdx + 1 = NumShards THEN shardIdx' = 0 /\ pc' = "choose"
    ELSE shardIdx' = shardIdx + 1 /\ pc' = pc

\* populateNextFromShard returns at once: the shard has no more entries, or
\* its entry is still there.
AlreadyPopulated ==
    /\ pc = "populate"
    /\ iters[shardIdx] = Nil \/ nexts[shardIdx] # Nil
    /\ AdvanceShard
    /\ UNCHANGED <<ldb, query, src, filters, iters, nexts, numRead, ret,
                   clientVars, writes>>

\* The span behind an index entry: in the snapshot for the primary index,
\* looked up in the live database for a secondary one.
Rehydrate(s, key) ==
    IF key.tag = "s" THEN iters[s].data[key.fir] ELSE ldb[s].data[key.sec]

\* The iterator has left the section of its index, or a lookup fails: the
\* shard has no more entries.
EndOfShard ==
    LET it == iters[shardIdx] IN
    /\ pc = "populate" /\ it # Nil /\ nexts[shardIdx] = Nil
    /\ \/ it.at = Invalid
       \/ it.at # Invalid /\ it.at.tag # getIndexPrefix(src)
       \/ /\ it.at # Invalid /\ it.at.tag = getIndexPrefix(src)
          /\ Rehydrate(shardIdx, it.at) = Nil
    /\ iters' = [iters EXCEPT ![shardIdx] = Nil]
    /\ AdvanceShard
    /\ UNCHANGED <<ldb, query, src, filters, nexts, numRead, ret, clientVars,
                   writes>>

\* One round of the loop of populateNextFromShard that reads a span.  An
\* operator that satisfiedBy does not know for a number makes it panic.
ReadEntry ==
    LET it == iters[shardIdx] IN
    /\ pc = "populate" /\ it # Nil /\ nexts[shardIdx] = Nil
    /\ it.at # Invalid
    /\ it.at.tag = getIndexPrefix(src)
    /\ LET span == Rehydrate(shardIdx, it.at)
           moved == [it EXCEPT !.at = IF IsDescending(src.op)
                        THEN IterPrev(it.keys, it.at)
                        ELSE IterNext(it.keys, it.at)]
           skips == numRead[shardIdx] + 1 <= 1 /\ mayRequireOneSkip(src.op)
       IN
       /\ span # Nil
       /\ numRead' = [numRead EXCEPT ![shardIdx] = @ + 1]
       /\ IF src.op \notin SourceOps
            THEN pc' = "panicked" /\ UNCHANGED <<iters, nexts, shardIdx>>
            ELSE \/ /\ satisfiedBy(src, span)
                    /\ nexts' = [nexts EXCEPT ![shardIdx] = span]
                    /\ iters' = [iters EXCEPT ![shardIdx] = moved]
                    /\ AdvanceShard
                 \/ /\ ~ satisfiedBy(src, span) /\ skips
                    /\ iters' = [iters EXCEPT ![shardIdx] = moved]
                    /\ UNCHANGED <<nexts, shardIdx, pc>>
                 \/ /\ ~ satisfiedBy(src, span) /\ ~ skips
                    /\ iters' = [iters EXCEPT ![shardIdx] = Nil]
                    /\ AdvanceShard
                    /\ UNCHANGED nexts
    /\ UNCHANGED <<ldb, query, src, filters, ret, clientVars, writes>>

BestShards_AnyEntry == {s \in Shards : nexts[s] # Nil}

\* next: the first of the shards with the best entry.
BestShards ==
    {s \in Shards : /\ nexts[s] # Nil
                    /\ \A t \in Shards : ~ spanPtrIsBefore(src, nexts[t], nexts[s])}

\* next returns its best entry to HandleQuery, which filters it.
ChooseBest ==
    /\ pc = "choose"
    /\ IF BestShards = {}
         THEN pc' = "done" /\ UNCHANGED <<nexts, ret>>
         ELSE LET best == Min(BestShards)
                  span == nexts[best] IN
              /\ nexts' = [nexts EXCEPT ![best] = Nil]
              /\ ret' = IF \A pred \in filters : satisfiedBy(pred, span)
                          THEN Append(ret, span) ELSE ret
              /\ pc' = IF Len(ret') >= query.lim THEN "done" ELSE "populate"
    /\ UNCHANGED <<ldb, query, src, filters, iters, numRead, shardIdx,
                   clientVars, writes>>

\* The client asks for the next page.
NextPage ==
    /\ pc = "done" /\ ret # <<>> /\ pageNum < MaxPages
    /\ query' = [query EXCEPT !.prev = ret[Len(ret)]]
    /\ pages' = pages \o ret
    /\ pageNum' = pageNum + 1
    /\ ret' = <<>> /\ pc' = "load"
    /\ src' = NoPred /\ filters' = {}
    /\ iters' = [s \in Shards |-> Nil]
    /\ nexts' = [s \in Shards |-> Nil]
    /\ numRead' = [s \in Shards |-> 0]
    /\ shardIdx' = 0
    /\ UNCHANGED <<ldb, startDb, writes>>

Next ==
    \/ \E span \in Written : Write(span)
    \/ LoadPredicates \/ OpenIterator \/ SeekIterators
    \/ AlreadyPopulated \/ EndOfShard \/ ReadEntry
    \/ ChooseBest \/ NextPage

Spec == Init /\ [][Next]_vars

-----------------------------------------------------------------------------
\* Correctness.

\* Types.  No handler panics: createSource and satisfiedBy meet no operator that
\* "should have been caught during normalization" (datastore.go:690-691), since
\* loadPredicateData has refused the query before.
TypeOK ==
    /\ ldb \in [Shards -> DB] /\ startDb \in [Shards -> DB]
    /\ query \in [preds: Preds, lim: Lims, prev: Span \cup {Nil}]
    /\ src.op \in SourceOps \cup {"cn", "none"}
    /\ src.field \in NumericFields \cup {"none"}
    /\ src.key \in UnsignedRange
    /\ iters \in [Shards -> Iterator \cup {Nil}]
    /\ nexts \in [Shards -> Span \cup {Nil}]
    /\ numRead \in [Shards -> Nat]
    /\ shardIdx \in 0 .. NumShards
    /\ ret \in Seq(Span) /\ pages \in Seq(Span)
    /\ pc \in {"idle", "load", "open", "populate", "choose", "done", "error"}

\* What a query means (query.go:26-46): every predicate holds, where times and
\* durations are compared as the signed numbers that they are.
Value(field, span) ==
    CASE field = "spanid" -> span.id
      [] field = "begin" -> span.begin
      [] field = "end" -> span.end
      [] field = "duration" -> Duration(span)
      [] field = "description" -> span.desc
      [] field = "processid" -> span.process

Holds(pred, span) ==
    LET val == Value(pred.field, span) IN
    CASE pred.op = "eq" -> val = pred.val
      [] pred.op = "le" -> val <= pred.val
      [] pred.op = "ge" -> val >= pred.val
      [] pred.op = "gt" -> val > pred.val
      [] pred.op = "cn" -> <<val, pred.val>> \in ContainsRel

Matches(preds, span) == \A i \in 1 .. Len(preds) : Holds(preds[i], span)

\* The matching spans that were stored before the first query was sent.
Expected ==
    {span \in UNION {{startDb[s].data[id] : id \in SpanIds} : s \in Shards} :
        span # Nil /\ Matches(query.preds, span)}

Results(seq) == {seq[i] : i \in 1 .. Len(seq)}
Distinct(seq) == \A i, j \in 1 .. Len(seq) : seq[i].id = seq[j].id => i = j
Source == SourcePred(query.preds)

\* The order in which the results of the query are promised.
Earlier(a, b) ==
    IF Source.op = "le" THEN Value(Source.field, a) > Value(Source.field, b)
    ELSE Value(Source.field, a) < Value(Source.field, b)

\* A page holds at most lim spans, each satisfies every predicate of the query,
\* none occurs twice, and they come in the order of the source's field,
\* although shards are read at different times and spans keep arriving.
OrderedPage ==
    /\ Len(ret) <= (IF query.lim < 0 THEN 0 ELSE query.lim)
    /\ \A i \in 1 .. Len(ret) : Matches(query.preds, ret[i])
    /\ Distinct(ret)
    /\ \A i, j \in 1 .. Len(ret) :
          i < j => ~ Earlier(ret[j], ret[i])

\* Nothing that was stored before the query and belongs on the first page is
\* missing from it.
FirstPageComplete ==
    IF Len(ret) < query.lim THEN Expected \subseteq Results(ret)
    ELSE query.lim > 0 => \A span \in Expected \ Results(ret) :
            ~ Earlier(span, ret[Len(ret)])

\* Queries that start with an "equals" or "greater than or equal" predicate
\* have complete first pages, whatever is written meanwhile.
AscendingFirstPage ==
    pc = "done" /\ query.prev = Nil /\ Source.op \in {"eq", "ge"}
        => FirstPageComplete

\* A page is sound, and the first one of an ascending query complete.
SoundPage == OrderedPage /\ AscendingFirstPage

\* No two stored spans agree on the field of the source.
NoTies ==
    LET stored == {span \in UNION {{startDb[s].data[id] : id \in SpanIds} :
                                      s \in Shards} : span # Nil} IN
    \A a, b \in stored :
        Value(Source.field, a) = Value(Source.field, b) => a = b

\* A client that pages receives no span twice, and when it gets an empty page
\* it has received every matching span, if its query ascends by span id, or by
\* a field on which no two stored spans agree (and the largest id is not in
\* use).
PagingExact ==
    (/\ pc \notin {"load", "error"} /\ query.lim > 0 /\ writes = 0
     /\ Source.op \in {"eq", "ge", "gt"}
     /\ NoTies /\ \A span \in Results(pages) : span.id # 2 * HalfRange - 1)
    => /\ Distinct(pages \o ret)
       /\ pc = "done" /\ ret = <<>> => Results(pages) = Expected

-----------------------------------------------------------------------------
\* What the documentation says of queries and the code does not do.

\* After a seek with a "less than or equal" predicate "if we're on that 'next key'
\* it will not satisfy the predicate, but the keys previous to it might"
\* (datastore.go:824-828): a first page has every stored span up to the bound.
LessOrEqualComplete ==
    pc = "done" /\ query.prev = Nil /\ Source.op = "le" => FirstPageComplete

=============================================================================
