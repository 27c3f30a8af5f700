---------------------------- MODULE ReadsProofs -----------------------------
(***************************************************************************)
(* Machine-checked proofs about the search for the children of a span and  *)
(* about queries, for any number of shards, any spans that arrive          *)
(* meanwhile, any predicates and any limit.                                *)
(***************************************************************************)
EXTENDS ChildSearch, SequenceLemmas

\* A span is not sent twice with different contents: the hypothesis of the
\* theorems.  (A second span of the same id would leave the index entries of the
\* first one behind.)
UniqueIds == \A a, b \in Written : a.id = b.id => a = b

\* No span has the id 0: the clients do not generate it (nonZeroRandom64), and
\* createSource computes with the id of the last span as if it had a predecessor.
NonzeroIds == \A a \in Written : a.id # 0

-----------------------------------------------------------------------------
\* What is stored.

Entry(parent, id) == [tag |-> "p", fir |-> parent, sec |-> id]

\* The indices of a database have the entries of the stored spans, all of them and
\* nothing else.
IndexExact(s, db) ==
    /\ \A id \in SpanIds : db.data[id] # Nil =>
          /\ db.data[id] \in Written /\ db.data[id].id = id /\ getShardIndex(id) = s
          /\ IndexKeys(db.data[id]) \subseteq db.index
    /\ \A key \in db.index :
          /\ key.sec \in SpanIds /\ db.data[key.sec] # Nil
          /\ key \in IndexKeys(db.data[key.sec])

\* What was stored when the request came is stored still.
StoreInv ==
    /\ DOMAIN ldb = Shards
    /\ \A s \in Shards : /\ ldb[s].data \in [SpanIds -> Span \cup {Nil}]
                         /\ IndexExact(s, ldb[s]) /\ IndexExact(s, startDb[s])
    /\ \A s \in Shards : \A id \in SpanIds :
          startDb[s].data[id] # Nil => ldb[s].data[id] = startDb[s].data[id]

\* The identifiers of spans are numbers, and name a shard.
LEMMA SpanFacts ==
    /\ SpanIds \subseteq Nat /\ IsFiniteSet(SpanIds)
    /\ \A id \in SpanIds : getShardIndex(id) \in Shards
    /\ \A span \in Written : span \in Span /\ span # Nil /\ span.id \in SpanIds
    /\ \A s \in Shards : s \in Nat /\ s < NumShards
<1>1. SpanIds \subseteq Nat
  BY SpanIdsAssumption
<1>2. IsFiniteSet(SpanIds)
  <2>1. 0 \in Int /\ 2 * HalfRange - 1 \in Int
    BY HalfRangeAssumption
  <2>2. IsFiniteSet(0 .. (2 * HalfRange - 1))
    BY <2>1, FS_Interval
  <2> QED
    BY <2>2, SpanIdsAssumption, FS_Subset
<1>3. \A id \in SpanIds : getShardIndex(id) \in Shards
  BY <1>1, NumShardsAssumption DEF getShardIndex, Shards
<1>4. \A span \in Written : span \in Span /\ span # Nil /\ span.id \in SpanIds
  BY WrittenAssumption, NilAssumption DEF Span
<1>5. \A s \in Shards : s \in Nat /\ s < NumShards
  BY NumShardsAssumption DEF Shards
<1> QED
  BY <1>1, <1>2, <1>3, <1>4, <1>5

\* The keys that the batch of a span adds: they end with its id, and those of the
\* parent index begin with a parent.
LEMMA ParentKeys ==
    ASSUME NEW span \in Written
    PROVE  /\ \A key \in IndexKeys(span) : key.sec = span.id
           /\ \A parent \in span.parents : Entry(parent, span.id) \in IndexKeys(span)
           /\ \A key \in IndexKeys(span) : key.tag = "p" => key.fir \in span.parents
BY DEF IndexKeys, makeSecondaryKey, Entry

\* The first databases hold some spans, one for each id.
LEMMA StoreInitExact == UniqueIds /\ StoreInit => StoreInv
<1> SUFFICES ASSUME UniqueIds, StoreInit PROVE StoreInv
  OBVIOUS
<1>1. PICK spans \in SUBSET Written :
         ldb = [s \in Shards |-> PutAll(EmptyDB, {a \in spans : getShardIndex(a.id) = s})]
  BY DEF StoreInit
<1>2. DOMAIN ldb = Shards /\ startDb = ldb
  BY <1>1 DEF StoreInit
<1>3. ASSUME NEW s \in Shards
      PROVE  ldb[s].data \in [SpanIds -> Span \cup {Nil}] /\ IndexExact(s, ldb[s])
  <2>1. PICK mine : mine = {a \in spans : getShardIndex(a.id) = s}
    OBVIOUS
  <2>a. mine \in SUBSET Written /\ \A a \in mine : getShardIndex(a.id) = s
    BY <2>1
  <2>2. PICK db : db = PutAll(EmptyDB, mine)
    OBVIOUS
  <2>3. ldb[s] = db
    BY <1>1, <2>1, <2>2
  <2>4. /\ db.data = [id \in SpanIds |->
                        IF \E span \in mine : span.id = id
                        THEN CHOOSE span \in mine : span.id = id ELSE EmptyDB.data[id]]
        /\ db.index = EmptyDB.index \cup UNION {IndexKeys(span) : span \in mine}
    BY <2>2 DEF PutAll
  <2>5. EmptyDB.index = {} /\ \A id \in SpanIds : EmptyDB.data[id] = Nil
    BY DEF EmptyDB
  <2>6. /\ \A span \in mine : db.data[span.id] = span
        /\ \A id \in SpanIds : db.data[id] # Nil =>
              \E span \in mine : span.id = id /\ db.data[id] = span
    <3>1. ASSUME NEW span \in mine PROVE db.data[span.id] = span
      <4>1. span.id \in SpanIds
        BY <2>a, SpanFacts
      <4>2. PICK z \in mine : z.id = span.id /\ db.data[span.id] = z
        BY <2>4, <4>1
      <4> QED
        BY <2>a, <4>2 DEF UniqueIds
    <3>2. ASSUME NEW id \in SpanIds, db.data[id] # Nil
          PROVE  \E span \in mine : span.id = id /\ db.data[id] = span
      BY <2>4, <2>5, <3>2
    <3> QED
      BY <3>1, <3>2
  <2>7. \A key : key \in db.index <=> \E span \in mine : key \in IndexKeys(span)
    BY <2>4, <2>5
  <2>8. ASSUME NEW id \in SpanIds, db.data[id] # Nil
        PROVE  /\ db.data[id] \in Written /\ db.data[id].id = id /\ getShardIndex(id) = s
               /\ IndexKeys(db.data[id]) \subseteq db.index
    <3>1. PICK span \in mine : span.id = id /\ db.data[id] = span
      BY <2>6, <2>8
    <3> QED
      BY <2>a, <2>7, <3>1
  <2>9. ASSUME NEW key \in db.index
        PROVE  /\ key.sec \in SpanIds /\ db.data[key.sec] # Nil
               /\ key \in IndexKeys(db.data[key.sec])
    <3>1. PICK span \in mine : key \in IndexKeys(span)
      BY <2>7
    <3>2. key.sec = span.id
      BY <2>a, <3>1, ParentKeys
    <3> QED
      BY <2>a, <2>6, <3>1, <3>2, SpanFacts
  <2>10. db.data \in [SpanIds -> Span \cup {Nil}]
    <3>1. \A id \in SpanIds : db.data[id] \in Span \cup {Nil}
      BY <2>8, SpanFacts
    <3> QED
      BY <2>4, <3>1
  <2> QED
    BY <2>3, <2>8, <2>9, <2>10 DEF IndexExact
<1> QED
  BY <1>2, <1>3 DEF StoreInv

\* A write adds a span and takes none away.
LEMMA WriteExact ==
    ASSUME UniqueIds, StoreInv, NEW span \in Written,
           ldb' = [ldb EXCEPT ![getShardIndex(span.id)] = PutBatch(@, span)],
           startDb' = startDb
    PROVE  /\ StoreInv'
           /\ \A s \in Shards : \A id \in SpanIds :
                 ldb[s].data[id] # Nil => ldb'[s].data[id] = ldb[s].data[id]
           /\ \A s \in Shards : ldb[s].index \subseteq ldb'[s].index
<1>0. /\ span \in Span /\ span # Nil /\ span.id \in SpanIds
      /\ getShardIndex(span.id) \in Shards
  BY SpanFacts
<1>1. PICK z \in Shards : z = getShardIndex(span.id)
  BY <1>0
<1>2. /\ DOMAIN ldb' = Shards /\ ldb'[z] = PutBatch(ldb[z], span)
      /\ \A s \in Shards \ {z} : ldb'[s] = ldb[s]
  BY <1>1 DEF StoreInv
<1>3. PICK old : old = ldb[z] /\ old.data \in [SpanIds -> Span \cup {Nil}] /\ IndexExact(z, old)
  BY DEF StoreInv
<1>4. PICK db : db = PutBatch(old, span) /\ ldb'[z] = db
  BY <1>2, <1>3
<1>5. /\ db.data \in [SpanIds -> Span \cup {Nil}] /\ db.data[span.id] = span
      /\ \A id \in SpanIds \ {span.id} : db.data[id] = old.data[id]
      /\ db.index = old.index \cup IndexKeys(span)
  BY <1>0, <1>3, <1>4 DEF PutBatch
<1>6. old.data[span.id] # Nil => old.data[span.id] = span
  BY <1>0, <1>3 DEF IndexExact, UniqueIds
<1>7. \A id \in SpanIds : old.data[id] # Nil => db.data[id] = old.data[id]
  BY <1>5, <1>6
<1>8. IndexExact(z, db)
  <2>1. ASSUME NEW id \in SpanIds, db.data[id] # Nil
        PROVE  /\ db.data[id] \in Written /\ db.data[id].id = id /\ getShardIndex(id) = z
               /\ IndexKeys(db.data[id]) \subseteq db.index
    <3>1. CASE id = span.id
      BY <1>1, <1>5, <3>1
    <3>2. CASE id # span.id
      BY <1>3, <1>5, <2>1, <3>2 DEF IndexExact
    <3> QED
      BY <3>1, <3>2
  <2>2. ASSUME NEW key \in db.index
        PROVE  /\ key.sec \in SpanIds /\ db.data[key.sec] # Nil
               /\ key \in IndexKeys(db.data[key.sec])
    <3>1. CASE key \in old.index
      <4>1. /\ key.sec \in SpanIds /\ old.data[key.sec] # Nil
            /\ key \in IndexKeys(old.data[key.sec])
        BY <1>3, <3>1 DEF IndexExact
      <4> QED
        BY <1>7, <4>1
    <3>2. CASE key \in IndexKeys(span)
      <4>1. key.sec = span.id
        BY <3>2, ParentKeys
      <4> QED
        BY <1>0, <1>5, <3>2, <4>1
    <3> QED
      BY <1>5, <3>1, <3>2
  <2> QED
    BY <2>1, <2>2 DEF IndexExact
<1>9. \A s \in Shards : \A id \in SpanIds :
         ldb[s].data[id] # Nil => ldb'[s].data[id] = ldb[s].data[id]
  BY <1>2, <1>3, <1>4, <1>7
<1>10. \A s \in Shards : ldb'[s].data \in [SpanIds -> Span \cup {Nil}] /\ IndexExact(s, ldb'[s])
  BY <1>2, <1>4, <1>5, <1>8 DEF StoreInv
<1>11. \A s \in Shards : \A id \in SpanIds :
          startDb[s].data[id] # Nil => ldb'[s].data[id] = startDb[s].data[id]
  <2> SUFFICES ASSUME NEW s \in Shards, NEW id \in SpanIds, startDb[s].data[id] # Nil
               PROVE  ldb'[s].data[id] = startDb[s].data[id]
    OBVIOUS
  <2>1. ldb[s].data[id] = startDb[s].data[id]
    BY DEF StoreInv
  <2> QED
    BY <1>9, <2>1
<1>12. StoreInv'
  BY <1>2, <1>10, <1>11 DEF StoreInv
<1>13. \A s \in Shards : ldb[s].index \subseteq ldb'[s].index
  BY <1>2, <1>3, <1>4, <1>5
<1> QED
  BY <1>9, <1>12, <1>13

-----------------------------------------------------------------------------
\* The search.

\* The shards that FindChildren has visited: from the one of the parent up to
\* the one it will visit next, around the end of the list.
Visited(start, next) ==
    IF next >= start THEN {s \in Shards : start <= s /\ s < next}
    ELSE {s \in Shards : start <= s \/ s < next}

\* The children of a span that a database holds.
Kids(parent, db) == {x \in SpanIds : db.data[x] # Nil /\ parent \in db.data[x].parents}

SearchType ==
    /\ childPc \in {"none", "request", "search", "done", "badRequest"}
    /\ childPc = "request" => sid \in SpanIds /\ asked \in Int /\ childIds = <<>>
    /\ childPc \in {"search", "done"} =>
          /\ sid \in SpanIds /\ lim \in Nat /\ idx \in Shards /\ childIds \in Seq(SpanIds)

\* What has been found are children, each found once; as long as the limit is
\* not reached, the children of the visited shards are among them.
SearchInv ==
    /\ childPc \in {"search", "done"} =>
          /\ NoRepeats(childIds)
          /\ \A x \in Range(childIds) : x \in Kids(sid, ldb[getShardIndex(x)])
    /\ childPc = "search" =>
          \A x \in Range(childIds) : getShardIndex(x) \in Visited(getShardIndex(sid), idx)
    /\ childPc = "search" /\ lim > 0 =>
          \A s \in Visited(getShardIndex(sid), idx) : Kids(sid, startDb[s]) \subseteq Range(childIds)
    /\ childPc = "done" /\ lim > 0 =>
          \A s \in Shards : Kids(sid, startDb[s]) \subseteq Range(childIds)

\* The children in a database.
LEMMA ChildrenFacts ==
    ASSUME NEW s, NEW db, IndexExact(s, db)
    PROVE  /\ Children(db) = Kids(sid, db)
           /\ Kids(sid, db) = {key.sec : key \in {k \in db.index : k.tag = "p" /\ k.fir = sid}}
           /\ \A x \in Kids(sid, db) : x \in SpanIds /\ getShardIndex(x) = s
<1>1. Children(db) = Kids(sid, db)
  BY DEF Children, SpansOf, IndexExact, Kids
<1>2. ASSUME NEW x \in SpanIds, db.data[x] # Nil, sid \in db.data[x].parents
      PROVE  \E k \in db.index : k.tag = "p" /\ k.fir = sid /\ k.sec = x
  <2>1. Entry(sid, x) \in db.index
    BY <1>2, ParentKeys DEF IndexExact
  <2> QED
    BY <2>1 DEF Entry
<1>3. \A k \in db.index : k.tag = "p" /\ k.fir = sid =>
         k.sec \in SpanIds /\ db.data[k.sec] # Nil /\ sid \in db.data[k.sec].parents
  BY ParentKeys DEF IndexExact
<1>4. Kids(sid, db) = {key.sec : key \in {k \in db.index : k.tag = "p" /\ k.fir = sid}}
  BY <1>2, <1>3 DEF Kids
<1>5. \A x \in Kids(sid, db) : x \in SpanIds /\ getShardIndex(x) = s
  BY DEF IndexExact, Kids
<1> QED
  BY <1>1, <1>4, <1>5

\* shard.FindChildren answers with children of the shard, each once and not
\* more than the limit; fewer only if there are no more.
LEMMA FromShardFacts ==
    ASSUME StoreInv, NEW s \in Shards, lim \in Nat
    PROVE  \E n \in 0 .. lim :
              /\ FromShard(s) \in Seq(SpanIds) /\ Len(FromShard(s)) = n
              /\ NoRepeats(FromShard(s))
              /\ Range(FromShard(s)) \subseteq Kids(sid, ldb[s])
              /\ n < lim => Range(FromShard(s)) = Kids(sid, ldb[s])
<1>1. PICK S : S = ParentEntries(s)
  OBVIOUS
<1>2. S = Kids(sid, ldb[s]) /\ S \subseteq SpanIds
  <2>1. IndexExact(s, ldb[s])
    BY DEF StoreInv
  <2>2. /\ Kids(sid, ldb[s]) = {key.sec : key \in {k \in ldb[s].index : k.tag = "p" /\ k.fir = sid}}
        /\ \A x \in Kids(sid, ldb[s]) : x \in SpanIds
    BY <2>1, ChildrenFacts
  <2> QED
    BY <1>1, <2>2 DEF ParentEntries
<1>3. IsFiniteSet(S) /\ S \subseteq Int
  <2>1. S \in SUBSET SpanIds /\ IsFiniteSet(SpanIds) /\ SpanIds \subseteq Nat
    BY <1>2, SpanFacts
  <2>2. IsFiniteSet(S)
    BY <2>1, FS_Subset
  <2> QED
    BY <2>1, <2>2
<1>4. PICK all \in [1 .. Cardinality(S) -> S] :
         all = SortedIds(S) /\ Increasing(all, Cardinality(S))
  <2>1. \E f \in [1 .. Cardinality(S) -> S] :
           \A i, j \in 1 .. Cardinality(S) : i < j => f[i] < f[j]
    BY <1>3, SortedListing DEF Increasing
  <2>2. /\ SortedIds(S) \in [1 .. Cardinality(S) -> S]
        /\ \A i, j \in 1 .. Cardinality(S) : i < j => SortedIds(S)[i] < SortedIds(S)[j]
    BY <2>1, Zenon DEF SortedIds
  <2> QED
    BY <2>2 DEF Increasing
<1>5. /\ all \in Seq(S) /\ NoRepeats(all) /\ Range(all) = S /\ Len(all) \in Nat
  BY <1>3, <1>4, ListingFacts
<1>6. FromShard(s) = IF lim < Len(all) THEN SubSeq(all, 1, lim) ELSE all
  BY <1>1, <1>4 DEF FromShard
<1>7. \A q : q \in Seq(S) => q \in Seq(SpanIds)
  BY <1>2
<1>8. CASE lim < Len(all)
  <2>1. lim \in 0 .. Len(all)
    BY <1>5, <1>8
  <2>2. PICK u : u = SubSeq(all, 1, lim)
    OBVIOUS
  <2>3. u \in Seq(S) /\ Len(u) = lim /\ NoRepeats(u) /\ Range(u) \subseteq Range(all)
    <3>1. PICK q \in Seq(S) : q = all /\ NoRepeats(q)
      BY <1>5, Zenon
    <3>2. PICK n \in 0 .. Len(q) : n = lim
      BY <2>1, <3>1
    <3>3. /\ SubSeq(q, 1, n) \in Seq(S) /\ Len(SubSeq(q, 1, n)) = n
          /\ Range(q) = Range(SubSeq(q, 1, n)) \cup Range(SubSeq(q, n + 1, Len(q)))
      BY RangeSplit
    <3>4. NoRepeats(SubSeq(q, 1, n))
      BY <3>1, DistinctSplit
    <3>5. u = SubSeq(q, 1, n)
      BY <2>2, <3>1, <3>2, Zenon
    <3>6. u \in Seq(S) /\ Len(u) = n /\ NoRepeats(u) /\ Range(u) \subseteq Range(q)
      BY <3>3, <3>4, <3>5
    <3> QED
      BY <3>1, <3>2, <3>6
  <2>4. FromShard(s) = u
    BY <1>6, <1>8, <2>2
  <2>5. u \in Seq(SpanIds) /\ Range(u) \subseteq Kids(sid, ldb[s])
    BY <1>2, <1>5, <1>7, <2>3
  <2>6. lim \in 0 .. lim /\ ~ (lim < lim)
    OBVIOUS
  <2> QED
    BY <2>3, <2>4, <2>5, <2>6
<1>9. CASE ~ (lim < Len(all))
  <2>1. FromShard(s) = all /\ Len(all) \in 0 .. lim /\ all \in Seq(SpanIds)
    BY <1>5, <1>6, <1>7, <1>9
  <2> QED
    BY <1>2, <1>5, <2>1
<1> QED
  BY <1>8, <1>9

\* One more shard is visited, and the last one when the next is the first.
LEMMA VisitedFacts ==
    ASSUME NEW start \in Shards, NEW i \in Shards,
           NEW n, n = IF i + 1 >= NumShards THEN 0 ELSE i + 1
    PROVE  /\ n \in Shards /\ i \notin Visited(start, i)
           /\ n # start => Visited(start, n) = Visited(start, i) \cup {i}
           /\ n = start => Shards = Visited(start, i) \cup {i}
           /\ Visited(start, start) = {}
<1>1. /\ start \in Nat /\ start < NumShards /\ i \in Nat /\ i < NumShards /\ NumShards \in Nat
      /\ \A s \in Shards : s \in Nat /\ s < NumShards
  BY SpanFacts, NumShardsAssumption
<1>2. n \in Nat /\ n \in Shards
  BY <1>1 DEF Shards
<1>3. i \notin Visited(start, i)
  BY <1>1 DEF Visited
<1>a. Visited(start, start) = {}
  <2>1. start >= start /\ \A s \in Shards : ~ (start <= s /\ s < start)
    BY <1>1
  <2> QED
    BY <2>1 DEF Visited
<1>4. ASSUME n # start, NEW s \in Shards
      PROVE  s \in Visited(start, n) <=> s \in Visited(start, i) \/ s = i
  BY <1>1, <1>2, <1>4 DEF Visited
<1>5. ASSUME n = start, NEW s \in Shards
      PROVE  s \in Visited(start, i) \/ s = i
  BY <1>1, <1>2, <1>5 DEF Visited
<1>6. Visited(start, n) \subseteq Shards /\ Visited(start, i) \subseteq Shards
  BY DEF Visited
<1> QED
  BY <1>2, <1>3, <1>a, <1>4, <1>5, <1>6

\* The initial states.
LEMMA SearchInit == ReadInit => SearchType /\ SearchInv
BY LimitsAssumption DEF ReadInit, NoChildSearch, ChildInit, SearchType, SearchInv

\* A write keeps what has been found: children stay children.
LEMMA SearchWrite ==
    ASSUME UniqueIds, StoreInv, SearchType, SearchInv, NEW span \in Written,
           ldb' = [ldb EXCEPT ![getShardIndex(span.id)] = PutBatch(@, span)],
           startDb' = startDb, UNCHANGED childVars
    PROVE  SearchType' /\ SearchInv'
<1>1. /\ StoreInv'
      /\ \A s \in Shards : \A id \in SpanIds :
            ldb[s].data[id] # Nil => ldb'[s].data[id] = ldb[s].data[id]
  BY WriteExact
<1>2. UNCHANGED <<sid, asked, lim, idx, childIds, childPc>>
  BY DEF childVars
<1>3. SearchType'
  BY <1>2 DEF SearchType
<1>4. \A s \in Shards : Kids(sid, ldb[s]) \subseteq Kids(sid, ldb'[s])
  BY <1>1 DEF Kids
<1>5. childPc \in {"search", "done"} => Range(childIds) \subseteq SpanIds
  BY RangeType DEF SearchType
<1>6. ASSUME childPc \in {"search", "done"}, NEW x \in Range(childIds)
      PROVE  x \in Kids(sid, ldb'[getShardIndex(x)])
  <2>1. getShardIndex(x) \in Shards /\ x \in Kids(sid, ldb[getShardIndex(x)])
    BY <1>5, <1>6, SpanFacts DEF SearchInv
  <2> QED
    BY <1>4, <2>1
<1>7. SearchInv'
  BY <1>2, <1>6 DEF SearchInv
<1> QED
  BY <1>3, <1>7

\* The handler starts the search at the shard of the parent.
LEMMA SearchServe ==
    ASSUME SearchType, SearchInv, ServeFindChildren
    PROVE  SearchType' /\ SearchInv'
<1>1. /\ childPc = "request" /\ sid \in SpanIds /\ asked \in Int /\ childIds = <<>>
      /\ UNCHANGED <<ldb, sid, asked, childIds>>
  BY DEF SearchType, ServeFindChildren
<1>2. CASE asked < 0 \/ HexOfDecimal[asked] \notin 0 .. (LimRange - 1)
  BY <1>1, <1>2 DEF ServeFindChildren, SearchType, SearchInv
<1>3. CASE ~ (asked < 0 \/ HexOfDecimal[asked] \notin 0 .. (LimRange - 1))
  <2>1. childPc' = "search" /\ lim' = HexOfDecimal[asked] /\ idx' = getShardIndex(sid)
    BY <1>3 DEF ServeFindChildren
  <2>2. lim' \in Nat
    BY <1>3, <2>1
  <2>3. getShardIndex(sid) \in Shards
    BY <1>1, SpanFacts
  <2>4. Visited(getShardIndex(sid), getShardIndex(sid)) = {}
    BY <2>3, VisitedFacts
  <2>5. Range(childIds') = {} /\ NoRepeats(childIds') /\ childIds' \in Seq(SpanIds)
    BY <1>1, RangeEmpty DEF NoRepeats
  <2>6. SearchType'
    BY <1>1, <2>1, <2>2, <2>3, <2>5 DEF SearchType
  <2>7. SearchInv'
    BY <1>1, <2>1, <2>4, <2>5 DEF SearchInv
  <2> QED
    BY <2>6, <2>7
<1> QED
  BY <1>2, <1>3

\* One round of the loop adds what the shard has, or fills the answer.
LEMMA SearchVisit ==
    ASSUME StoreInv, SearchType, SearchInv, VisitShard, startDb' = startDb
    PROVE  SearchType' /\ SearchInv'
<1>1. /\ childPc = "search" /\ lim \in Nat \ {0} /\ UNCHANGED <<ldb, sid, asked>>
      /\ sid \in SpanIds /\ idx \in Shards /\ childIds \in Seq(SpanIds)
  BY DEF VisitShard, SearchType
<1>2. PICK start \in Shards : start = getShardIndex(sid)
  BY <1>1, SpanFacts
<1>3. PICK next \in Shards :
         /\ next = NextIdx /\ idx \notin Visited(start, idx)
         /\ next # start => Visited(start, next) = Visited(start, idx) \cup {idx}
         /\ next = start => Shards = Visited(start, idx) \cup {idx}
  BY <1>1, VisitedFacts DEF NextIdx
<1>4. PICK n \in 0 .. lim :
         /\ FromShard(idx) \in Seq(SpanIds) /\ Len(FromShard(idx)) = n
         /\ NoRepeats(FromShard(idx))
         /\ Range(FromShard(idx)) \subseteq Kids(sid, ldb[idx])
         /\ n < lim => Range(FromShard(idx)) = Kids(sid, ldb[idx])
  BY <1>1, FromShardFacts
<1>5. PICK found \in Seq(SpanIds) :
         /\ found = FromShard(idx) /\ Len(found) = n /\ NoRepeats(found)
         /\ Range(found) \subseteq Kids(sid, ldb[idx])
         /\ n < lim => Range(found) = Kids(sid, ldb[idx])
  BY <1>4, Zenon
<1>6. /\ childIds' = childIds \o found /\ lim' = lim - n /\ idx' = next
      /\ childPc' = IF next = start THEN "done" ELSE "search"
  BY <1>2, <1>3, <1>5 DEF VisitShard
<1>7. \A x \in Kids(sid, ldb[idx]) : x \in SpanIds /\ getShardIndex(x) = idx
  BY <1>1, ChildrenFacts DEF StoreInv
<1>8. /\ NoRepeats(childIds)
      /\ \A x \in Range(childIds) : /\ x \in Kids(sid, ldb[getShardIndex(x)])
                                    /\ getShardIndex(x) \in Visited(start, idx)
      /\ lim > 0 => \A s \in Visited(start, idx) : Kids(sid, startDb[s]) \subseteq Range(childIds)
  BY <1>1, <1>2 DEF SearchInv
<1>9. Range(childIds) \cap Range(found) = {}
  BY <1>3, <1>5, <1>7, <1>8
<1>10. /\ childIds' \in Seq(SpanIds) /\ NoRepeats(childIds')
       /\ Range(childIds') = Range(childIds) \cup Range(found)
  <2>1. PICK q \in Seq(SpanIds) : q = childIds
    BY <1>1
  <2>2. NoRepeats(q) /\ Range(q) \cap Range(found) = {}
    BY <1>8, <1>9, <2>1
  <2>3. /\ q \o found \in Seq(SpanIds) /\ NoRepeats(q \o found)
        /\ Range(q \o found) = Range(q) \cup Range(found)
    BY <1>5, <2>2, DistinctConcat
  <2> QED
    BY <1>6, <2>1, <2>3, Zenon
<1>11. \A x \in Range(childIds') :
          /\ x \in Kids(sid, ldb[getShardIndex(x)])
          /\ getShardIndex(x) \in Visited(start, idx) \cup {idx}
  BY <1>5, <1>7, <1>8, <1>10
<1>12. lim' \in Nat /\ (lim' > 0 => n < lim)
  BY <1>1, <1>4, <1>6
<1>13. ASSUME lim' > 0
       PROVE  \A s \in Visited(start, idx) \cup {idx} : Kids(sid, startDb[s]) \subseteq Range(childIds')
  <2>1. Range(found) = Kids(sid, ldb[idx])
    BY <1>5, <1>12, <1>13
  <2>2. Kids(sid, startDb[idx]) \subseteq Kids(sid, ldb[idx])
    BY <1>1 DEF StoreInv, Kids
  <2> QED
    BY <1>1, <1>8, <1>10, <2>1, <2>2
<1>14. SearchType'
  BY <1>1, <1>6, <1>10, <1>12 DEF SearchType
<1>15. CASE next = start
  <2>1. childPc' = "done" /\ Shards = Visited(start, idx) \cup {idx}
    BY <1>3, <1>6, <1>15
  <2>2. SearchInv'
    BY <1>1, <1>10, <1>11, <1>13, <2>1 DEF SearchInv
  <2> QED
    BY <1>14, <2>2
<1>16. CASE next # start
  <2>1. childPc' = "search" /\ Visited(start, next) = Visited(start, idx) \cup {idx}
    BY <1>3, <1>6, <1>16
  <2>2. getShardIndex(sid') = start /\ idx' = next
    BY <1>1, <1>2, <1>6
  <2>3. SearchInv'
    BY <1>1, <1>10, <1>11, <1>13, <2>1, <2>2 DEF SearchInv
  <2> QED
    BY <1>14, <2>3
<1> QED
  BY <1>15, <1>16

\* Every step of the store, of a query and of a search keeps the invariants.
LEMMA ReadStep ==
    ASSUME UniqueIds, StoreInv, SearchType, SearchInv, [ReadNext]_readVars
    PROVE  StoreInv' /\ SearchType' /\ SearchInv'
<1> DEFINE Goal == StoreInv' /\ SearchType' /\ SearchInv'
<1>1. ASSUME UNCHANGED <<ldb, startDb>> PROVE StoreInv'
  BY <1>1 DEF StoreInv
<1>2. ASSUME UNCHANGED <<ldb, startDb, childVars>> PROVE Goal
  BY <1>1, <1>2 DEF SearchType, SearchInv, childVars
<1>3. ASSUME NEW span \in Written, Write(span), UNCHANGED childVars PROVE Goal
  <2>1. /\ ldb' = [ldb EXCEPT ![getShardIndex(span.id)] = PutBatch(@, span)]
        /\ startDb' = startDb
    BY <1>3 DEF Write, clientVars
  <2> QED
    BY <1>3, <2>1, WriteExact, SearchWrite
<1>4. ASSUME Next, UNCHANGED childVars PROVE Goal
  <2>1. CASE \E span \in Written : Write(span)
    BY <1>3, <1>4, <2>1
  <2>2. CASE \/ LoadPredicates \/ OpenIterator \/ SeekIterators
             \/ AlreadyPopulated \/ EndOfShard \/ ReadEntry
             \/ ChooseBest \/ NextPage
    <3>1. UNCHANGED <<ldb, startDb>>
      BY <2>2 DEF LoadPredicates, OpenIterator, SeekIterators, AlreadyPopulated,
                  EndOfShard, ReadEntry, ChooseBest, NextPage, clientVars
    <3> QED
      BY <1>2, <1>4, <3>1
  <2> QED
    BY <1>4, <2>1, <2>2 DEF Next
<1>5. ASSUME ServeFindChildren PROVE Goal
  <2>1. UNCHANGED <<ldb, startDb>>
    BY <1>5 DEF ServeFindChildren, queryVars, clientVars
  <2> QED
    BY <1>1, <1>5, <2>1, SearchServe
<1>6. ASSUME VisitShard PROVE Goal
  <2>1. UNCHANGED <<ldb, startDb>>
    BY <1>6 DEF VisitShard, queryVars, clientVars
  <2> QED
    BY <1>1, <1>6, <2>1, SearchVisit
<1>7. ASSUME LimitReached PROVE Goal
  <2>1. /\ UNCHANGED <<ldb, startDb, sid, asked, lim, idx, childIds>>
        /\ childPc = "search" /\ childPc' = "done" /\ lim = 0
    BY <1>7 DEF LimitReached, queryVars, clientVars
  <2>2. SearchType' /\ SearchInv'
    BY <2>1 DEF SearchType, SearchInv
  <2> QED
    BY <1>1, <2>1, <2>2
<1>8. ASSUME UNCHANGED readVars PROVE Goal
  BY <1>2, <1>8 DEF readVars, vars
<1> HIDE DEF Goal
<1>9. Goal
  BY <1>4, <1>5, <1>6, <1>7, <1>8 DEF ReadNext
<1> QED
  BY <1>9 DEF Goal

\* The invariants give the answer that a client may rely on.
LEMMA AnswerFollows == StoreInv /\ SearchType /\ SearchInv => AnswerExact
<1> SUFFICES ASSUME StoreInv, SearchType, SearchInv, childPc = "done"
             PROVE  /\ Cardinality(Found) = Len(childIds)
                    /\ Found \subseteq AllChildren(ldb)
                    /\ lim > 0 => AllChildren(startDb) \subseteq Found
  BY DEF AnswerExact
<1>1. PICK q \in Seq(SpanIds) : q = childIds /\ NoRepeats(q)
  BY DEF SearchType, SearchInv
<1>2. Found = Range(q)
  <2>1. Range(q) = {q[i] : i \in 1 .. Len(q)}
    BY RangeEquality
  <2> QED
    BY <1>1, <2>1, Zenon DEF Found
<1>3. Cardinality(Found) = Len(childIds)
  BY <1>1, <1>2, DistinctCardinality
<1>4. \A s \in Shards : /\ Children(ldb[s]) = Kids(sid, ldb[s])
                        /\ Children(startDb[s]) = Kids(sid, startDb[s])
  BY ChildrenFacts DEF StoreInv
<1>5. \A x \in Range(q) : getShardIndex(x) \in Shards /\ x \in Kids(sid, ldb[getShardIndex(x)])
  <2>1. Range(q) \subseteq SpanIds
    BY RangeType
  <2> QED
    BY <1>1, <2>1, SpanFacts DEF SearchInv
<1>6. Found \subseteq AllChildren(ldb)
  BY <1>2, <1>4, <1>5 DEF AllChildren
<1>7. lim > 0 => AllChildren(startDb) \subseteq Found
  BY <1>1, <1>2, <1>4 DEF SearchInv, AllChildren
<1> QED
  BY <1>3, <1>6, <1>7

\* ChildSearch: when no id is used for two spans, the answer to a search for
\* children has no child twice, only children, and unless the limit cut it short
\* every child stored before the request, whatever is written to the shards
\* while they are visited one after the other.
THEOREM ChildrenExact ==
    ASSUME UniqueIds
    PROVE  ReadSpec => []AnswerExact
<1>1. ReadInit => StoreInv /\ SearchType /\ SearchInv
  BY StoreInitExact, SearchInit DEF ReadInit
<1>2. StoreInv /\ SearchType /\ SearchInv /\ [ReadNext]_readVars
         => (StoreInv /\ SearchType /\ SearchInv)'
  BY ReadStep
<1> QED
  BY <1>1, <1>2, AnswerFollows, PTL DEF ReadSpec


-----------------------------------------------------------------------------
\* Numbers and keys.

\* The value of a numeric field, as the index orders it, is an unsigned number,
\* and orders the spans as their signed times do.
LEMMA S2U64 ==
    /\ \A v \in SignedRange : s2u64(v) \in UnsignedRange
    /\ \A v, w \in SignedRange : (v < w <=> s2u64(v) < s2u64(w)) /\ (v = w <=> s2u64(v) = s2u64(w))
BY HalfRangeAssumption, SMT
   DEF SignedRange, UnsignedRange, s2u64, FlipHighBit, ToUnsigned

\* The times of a span are signed numbers, and so is its duration.
LEMMA SpanNumbers ==
    ASSUME NEW x \in Written
    PROVE  /\ x.id \in UnsignedRange /\ x.parents \subseteq UnsignedRange
           /\ x.begin \in SignedRange /\ x.end \in SignedRange /\ Duration(x) \in SignedRange
<1>1. x \in Span
  BY WrittenAssumption
<1>2. x.id \in UnsignedRange /\ x.parents \subseteq UnsignedRange
  BY <1>1, SpanIdsAssumption DEF Span, UnsignedRange
<1>3. x.begin \in SignedRange /\ x.end \in SignedRange
  BY <1>1, TimesAssumption DEF Span, SignedRange
<1>4. HalfRange \in Int /\ HalfRange > 0
  BY HalfRangeAssumption
<1>5. Duration(x) \in SignedRange
  BY <1>3, <1>4 DEF SignedRange, Duration
<1> QED
  BY <1>2, <1>3, <1>5

\* An unsigned number is an integer, not smaller than zero.
LEMMA UnsignedFacts ==
    /\ \A v \in UnsignedRange : v \in Int /\ v >= 0 /\ v \in NoId .. (2 * HalfRange - 1)
    /\ \A v \in SignedRange : v \in Int
    /\ 0 \in UnsignedRange /\ NoId \in NoId .. (2 * HalfRange - 1)
BY HalfRangeAssumption DEF UnsignedRange, SignedRange, NoId

\* What a source reads of a span.
LEMMA ExtractFacts ==
    ASSUME NEW p, p.field \in NumericFields, NEW x \in Written, NEW y \in Written
    PROVE  /\ extractRelevantSpanData(p, x) \in UnsignedRange
           /\ extractRelevantSpanData(p, x) < extractRelevantSpanData(p, y)
              <=> Value(p.field, x) < Value(p.field, y)
<1>1. /\ x.id \in UnsignedRange
      /\ x.begin \in SignedRange /\ x.end \in SignedRange /\ Duration(x) \in SignedRange
      /\ y.begin \in SignedRange /\ y.end \in SignedRange /\ Duration(y) \in SignedRange
  BY SpanNumbers
<1>2. CASE p.field = "spanid"
  BY <1>1, <1>2 DEF extractRelevantSpanData, Value
<1>3. CASE p.field = "begin"
  BY <1>1, <1>3, S2U64 DEF extractRelevantSpanData, Value
<1>4. CASE p.field = "end"
  BY <1>1, <1>4, S2U64 DEF extractRelevantSpanData, Value
<1>5. CASE p.field = "duration"
  BY <1>1, <1>5, S2U64 DEF extractRelevantSpanData, Value
<1> QED
  BY <1>2, <1>3, <1>4, <1>5 DEF NumericFields

\* Keys are totally ordered.
LEMMA KeyOrder ==
    ASSUME NEW a \in Key, NEW b \in Key, NEW c \in Key
    PROVE  /\ ~ KeyLess(a, a)
           /\ KeyLess(a, b) /\ KeyLess(b, c) => KeyLess(a, c)
           /\ KeyLess(a, b) \/ KeyLess(b, a) \/ a = b
           /\ ~ (KeyLess(a, b) /\ KeyLess(b, a))
<1> DEFINE N == NoId .. (2 * HalfRange - 1)
<1>1. /\ a.fir \in Int /\ a.sec \in Int /\ b.fir \in Int /\ b.sec \in Int /\ c.fir \in Int /\ c.sec \in Int
      /\ a.tag \in {"b", "d", "e", "p", "s", "v"} /\ b.tag \in {"b", "d", "e", "p", "s", "v"}
      /\ c.tag \in {"b", "d", "e", "p", "s", "v"}
  BY HalfRangeAssumption DEF Key, NoId
<1>2. \A t, u \in {"b", "d", "e", "p", "s", "v"} :
         TagRank[t] \in Int /\ (TagRank[t] = TagRank[u] => t = u)
  BY DEF TagRank
<1>3. PICK ta \in Int : ta = TagRank[a.tag]
  BY <1>1, <1>2
<1>4. PICK tb \in Int : tb = TagRank[b.tag]
  BY <1>1, <1>2
<1>5. PICK tc \in Int : tc = TagRank[c.tag]
  BY <1>1, <1>2
<1>6. /\ ta = tb <=> a.tag = b.tag
      /\ tb = tc <=> b.tag = c.tag
      /\ ta = tc <=> a.tag = c.tag
  BY <1>1, <1>2, <1>3, <1>4, <1>5
<1>7. a.tag = b.tag /\ a.fir = b.fir /\ a.sec = b.sec => a = b
  BY DEF Key
<1> QED
  BY <1>1, <1>3, <1>4, <1>5, <1>6, <1>7 DEF KeyLess

\* A set of bounded numbers has a least and a greatest element.
LEMMA BoundedExtremes ==
    ASSUME NEW lo \in Int, NEW hi \in Int, NEW S \in SUBSET (lo .. hi), S # {}
    PROVE  /\ \E m \in S : \A x \in S : m <= x
           /\ \E m \in S : \A x \in S : x <= m
<1>1. \A x \in S : x \in Int /\ lo <= x /\ x <= hi
  OBVIOUS
<1>2. ASSUME NEW T \in SUBSET (lo .. hi), T # {} PROVE \E m \in T : \A x \in T : x <= m
  <2>1. IsFiniteSet(lo .. hi)
    BY FS_Interval
  <2>2. IsFiniteSet(T)
    BY <1>2, <2>1, FS_Subset
  <2>3. T \subseteq Int
    BY <1>2
  <2> QED
    BY <1>2, <2>2, <2>3, LargestNumber
<1>3. \E m \in S : \A x \in S : m <= x
  <2>1. PICK T : T = {lo + hi - x : x \in S}
    OBVIOUS
  <2>2. T \in SUBSET (lo .. hi) /\ T # {}
    <3>1. \A x \in S : lo + hi - x \in lo .. hi
      BY <1>1
    <3>2. T # {}
      BY <2>1
    <3> QED
      BY <2>1, <3>1, <3>2
  <2>3. PICK m \in T : \A x \in T : x <= m
    BY <1>2, <2>2
  <2>4. PICK y \in S : m = lo + hi - y
    BY <2>1
  <2>5. ASSUME NEW x \in S PROVE y <= x
    <3>1. lo + hi - x <= lo + hi - y
      BY <2>1, <2>3, <2>4
    <3> QED
      BY <1>1, <3>1
  <2> QED
    BY <2>5
<1> QED
  BY <1>2, <1>3

\* A set of keys has a first and a last key.
LEMMA KeyExtremes ==
    ASSUME NEW S \in SUBSET Key, S # {}
    PROVE  /\ \E k \in S : \A j \in S : ~ KeyLess(j, k)
           /\ \E k \in S : \A j \in S : ~ KeyLess(k, j)
<1> DEFINE hi == 2 * HalfRange - 1
<1>1. hi \in Int /\ NoId \in Int
  BY HalfRangeAssumption DEF NoId
<1> HIDE DEF hi
<1>2. \A k \in S : /\ TagRank[k.tag] \in 0 .. 5
                   /\ k.fir \in NoId .. hi /\ k.sec \in NoId .. hi
  BY DEF Key, TagRank, hi
<1>3. \A t, u \in {"b", "d", "e", "p", "s", "v"} : TagRank[t] = TagRank[u] => t = u
  BY DEF TagRank
<1>4. \A j, k \in S : KeyLess(j, k) <=>
         \/ TagRank[j.tag] < TagRank[k.tag]
         \/ TagRank[j.tag] = TagRank[k.tag] /\ j.fir < k.fir
         \/ TagRank[j.tag] = TagRank[k.tag] /\ j.fir = k.fir /\ j.sec < k.sec
  BY <1>3 DEF KeyLess, Key
<1>5. PICK A : A = {TagRank[k.tag] : k \in S}
  OBVIOUS
<1>6. A \in SUBSET (0 .. 5) /\ A # {}
  BY <1>2, <1>5
<1>7. \E k \in S : \A j \in S : ~ KeyLess(j, k)
  <2>1. PICK a \in A : \A x \in A : a <= x
    BY <1>6, BoundedExtremes
  <2>2. PICK B : B = {k.fir : k \in {j \in S : TagRank[j.tag] = a}}
    OBVIOUS
  <2>3. B \in SUBSET (NoId .. hi) /\ B # {}
    BY <1>2, <1>5, <2>1, <2>2
  <2>4. PICK b \in B : \A x \in B : b <= x
    BY <1>1, <2>3, BoundedExtremes
  <2>5. PICK C : C = {k.sec : k \in {j \in S : TagRank[j.tag] = a /\ j.fir = b}}
    OBVIOUS
  <2>6. C \in SUBSET (NoId .. hi) /\ C # {}
    BY <1>2, <2>2, <2>4, <2>5
  <2>7. PICK c \in C : \A x \in C : c <= x
    BY <1>1, <2>6, BoundedExtremes
  <2>8. PICK k \in S : TagRank[k.tag] = a /\ k.fir = b /\ k.sec = c
    BY <2>5
  <2>9. ASSUME NEW j \in S PROVE ~ KeyLess(j, k)
    <3>1. a <= TagRank[j.tag]
      BY <1>5, <2>1
    <3>2. TagRank[j.tag] = a => b <= j.fir
      BY <2>2, <2>4
    <3>3. TagRank[j.tag] = a /\ j.fir = b => c <= j.sec
      BY <2>5, <2>7
    <3>4. PICK t \in 0 .. 5 : t = TagRank[j.tag]
      BY <1>2
    <3>5. a \in Int /\ b \in Int /\ c \in Int /\ j.fir \in Int /\ j.sec \in Int /\ t \in Int
      BY <1>1, <1>2, <2>8
    <3> QED
      BY <1>4, <2>8, <3>1, <3>2, <3>3, <3>4, <3>5
  <2> QED
    BY <2>9
<1>8. \E k \in S : \A j \in S : ~ KeyLess(k, j)
  <2>1. PICK a \in A : \A x \in A : x <= a
    BY <1>6, BoundedExtremes
  <2>2. PICK B : B = {k.fir : k \in {j \in S : TagRank[j.tag] = a}}
    OBVIOUS
  <2>3. B \in SUBSET (NoId .. hi) /\ B # {}
    BY <1>2, <1>5, <2>1, <2>2
  <2>4. PICK b \in B : \A x \in B : x <= b
    BY <1>1, <2>3, BoundedExtremes
  <2>5. PICK C : C = {k.sec : k \in {j \in S : TagRank[j.tag] = a /\ j.fir = b}}
    OBVIOUS
  <2>6. C \in SUBSET (NoId .. hi) /\ C # {}
    BY <1>2, <2>2, <2>4, <2>5
  <2>7. PICK c \in C : \A x \in C : x <= c
    BY <1>1, <2>6, BoundedExtremes
  <2>8. PICK k \in S : TagRank[k.tag] = a /\ k.fir = b /\ k.sec = c
    BY <2>5
  <2>9. ASSUME NEW j \in S PROVE ~ KeyLess(k, j)
    <3>1. TagRank[j.tag] <= a
      BY <1>5, <2>1
    <3>2. TagRank[j.tag] = a => j.fir <= b
      BY <2>2, <2>4
    <3>3. TagRank[j.tag] = a /\ j.fir = b => j.sec <= c
      BY <2>5, <2>7
    <3>4. PICK t \in 0 .. 5 : t = TagRank[j.tag]
      BY <1>2
    <3>5. a \in Int /\ b \in Int /\ c \in Int /\ j.fir \in Int /\ j.sec \in Int /\ t \in Int
      BY <1>1, <1>2, <2>8
    <3> QED
      BY <1>4, <2>8, <3>1, <3>2, <3>3, <3>4, <3>5
  <2> QED
    BY <2>9
<1> QED
  BY <1>7, <1>8

\* The first and the last key of a set.
LEMMA LeastFacts ==
    ASSUME NEW S \in SUBSET Key
    PROVE  /\ S = {} => Least(S) = Nil /\ Greatest(S) = Nil
           /\ S # {} => /\ Least(S) \in S /\ \A j \in S : ~ KeyLess(j, Least(S))
                        /\ Greatest(S) \in S /\ \A j \in S : ~ KeyLess(Greatest(S), j)
<1>1. S = {} => Least(S) = Nil /\ Greatest(S) = Nil
  BY DEF Least, Greatest, Invalid
<1>2. ASSUME S # {} PROVE Least(S) \in S /\ \A j \in S : ~ KeyLess(j, Least(S))
  <2>1. \E k \in S : \A j \in S : ~ KeyLess(j, k)
    BY <1>2, KeyExtremes
  <2> QED
    BY <1>2, <2>1, Zenon DEF Least
<1>3. ASSUME S # {} PROVE Greatest(S) \in S /\ \A j \in S : ~ KeyLess(Greatest(S), j)
  <2>1. \E k \in S : \A j \in S : ~ KeyLess(k, j)
    BY <1>3, KeyExtremes
  <2> QED
    BY <1>3, <2>1, Zenon DEF Greatest
<1> QED
  BY <1>1, <1>2, <1>3

\* Seek finds the first key from the one given on.
LEMMA SeekFacts ==
    ASSUME NEW keys \in SUBSET Key, NEW key \in Key, NEW at, at = Seek(keys, key)
    PROVE  /\ at = Nil \/ (at \in keys /\ ~ KeyLess(at, key))
           /\ \A k \in keys : ~ KeyLess(k, key) => at # Nil /\ ~ KeyLess(k, at)
<1>1. PICK S : S = {k \in keys : ~ KeyLess(k, key)}
  OBVIOUS
<1>2. S \in SUBSET Key /\ at = Least(S)
  BY <1>1 DEF Seek
<1> QED
  BY <1>1, <1>2, LeastFacts, NilQueryAssumption

\* The direction of a source: for values, and for keys.
Before(p, v, w) == IF IsDescending(p.op) THEN v > w ELSE v < w
Ahead(p, j, k) == IF IsDescending(p.op) THEN KeyLess(k, j) ELSE KeyLess(j, k)

\* The next position of an iterator.
Moved(p, keys, at) ==
    IF IsDescending(p.op) THEN IterPrev(keys, at) ELSE IterNext(keys, at)

\* An iterator moves in its direction, and passes no key.
LEMMA MoveFacts ==
    ASSUME NEW p, NEW keys \in SUBSET Key, NEW at \in keys, NEW to, to = Moved(p, keys, at)
    PROVE  /\ to = Nil \/ (to \in keys /\ Ahead(p, at, to))
           /\ \A k \in keys : Ahead(p, at, k) => to # Nil /\ ~ Ahead(p, k, to)
<1>1. CASE IsDescending(p.op)
  <2>1. PICK S : S = {k \in keys : KeyLess(k, at)}
    OBVIOUS
  <2>2. S \in SUBSET Key /\ to = Greatest(S)
    BY <1>1, <2>1 DEF Moved, IterPrev
  <2> QED
    BY <1>1, <2>1, <2>2, LeastFacts, NilQueryAssumption DEF Ahead
<1>2. CASE ~ IsDescending(p.op)
  <2>1. PICK S : S = {k \in keys : KeyLess(at, k)}
    OBVIOUS
  <2>2. S \in SUBSET Key /\ to = Least(S)
    BY <1>2, <2>1 DEF Moved, IterNext
  <2> QED
    BY <1>2, <2>1, <2>2, LeastFacts, NilQueryAssumption DEF Ahead
<1> QED
  BY <1>1, <1>2

-----------------------------------------------------------------------------
\* Predicates.

\* A predicate that a source can read: its field has an index.
IsSource(p) == p.op \in SourceOps /\ p.field \in NumericFields /\ p.key \in UnsignedRange

\* The key under which the source of a predicate finds a span.
KeyOf(p, x) ==
    IF p.field = "spanid" THEN makeKey("s", x.id)
    ELSE makeSecondaryKey(getIndexPrefix(p), extractRelevantSpanData(p, x), x.id)

Loads(preds) == \A i \in 1 .. Len(preds) : ~ loadPredicateFails(preds[i])

\* The key of a span in the index of a predicate.
LEMMA KeyOfFacts ==
    ASSUME NEW p, p.field \in NumericFields, NEW x \in Written, NEW y \in Written
    PROVE  /\ KeyOf(p, x) \in Key /\ KeyOf(p, x).tag = getIndexPrefix(p)
           /\ KeyOf(p, x).fir = extractRelevantSpanData(p, x)
           /\ KeyOf(p, x) = KeyOf(p, y) => x.id = y.id
<1>1. x.id \in UnsignedRange /\ extractRelevantSpanData(p, x) \in UnsignedRange
  BY SpanNumbers, ExtractFacts
<1>2. getIndexPrefix(p) \in {"b", "d", "e", "s"} /\ (p.field = "spanid" => getIndexPrefix(p) = "s")
  BY DEF NumericFields, getIndexPrefix
<1>3. CASE p.field = "spanid"
  <2>1. KeyOf(p, x) = [tag |-> "s", fir |-> x.id, sec |-> NoId] /\ KeyOf(p, y) = [tag |-> "s", fir |-> y.id, sec |-> NoId]
    BY <1>3 DEF KeyOf, makeKey
  <2>2. extractRelevantSpanData(p, x) = x.id
    BY <1>3 DEF extractRelevantSpanData
  <2>3. KeyOf(p, x) \in Key
    BY <1>1, <2>1, UnsignedFacts DEF Key
  <2> QED
    BY <1>2, <1>3, <2>1, <2>2, <2>3
<1>4. CASE p.field # "spanid"
  <2>1. /\ KeyOf(p, x) = [tag |-> getIndexPrefix(p), fir |-> extractRelevantSpanData(p, x), sec |-> x.id]
        /\ KeyOf(p, y) = [tag |-> getIndexPrefix(p), fir |-> extractRelevantSpanData(p, y), sec |-> y.id]
    BY <1>4 DEF KeyOf, makeSecondaryKey
  <2>2. KeyOf(p, x) \in Key
    BY <1>1, <1>2, <2>1, UnsignedFacts DEF Key
  <2> QED
    BY <2>1, <2>2
<1> QED
  BY <1>3, <1>4

\* What satisfiedBy decides, for each operator of a source.
LEMMA SatisfiedFacts ==
    ASSUME NEW p, NEW x, NEW v, v = extractRelevantSpanData(p, x)
    PROVE  /\ p.op = "eq" => (satisfiedBy(p, x) <=> v = p.key)
           /\ p.op = "le" => (satisfiedBy(p, x) <=> v <= p.key)
           /\ p.op = "ge" => (satisfiedBy(p, x) <=> v >= p.key)
           /\ p.op = "gt" => (satisfiedBy(p, x) <=> v > p.key)
BY DEF satisfiedBy

\* loadPredicateData keeps the meaning of a predicate.
LEMMA LoadedMeaning ==
    ASSUME NEW preds \in Preds, Loads(preds), NEW i \in 1 .. Len(preds), NEW x \in Written
    PROVE  Holds(preds[i], x) <=> satisfiedBy(loaded(preds[i]), x)
<1>1. PICK p : p = preds[i]
  OBVIOUS
<1>2. /\ p.field \in NumericFields \cup {"description", "processid"} /\ p.val # BadVal
      /\ p.op \in {"eq", "le", "ge", "gt", "cn"}
      /\ p.op = "cn" => p.field \notin NumericFields
  BY <1>1 DEF Loads, loadPredicateFails, fieldIsNumeric
<1>3. /\ p.field = "spanid" => p.val \in UnsignedRange
      /\ p.field \in {"begin", "end", "duration"} => p.val \in SignedRange
  BY <1>1, <1>2, PredsAssumption
<1>4. PICK q : q = loaded(p) /\ q.op = p.op /\ q.field = p.field /\ q.key = LoadedKey(p)
  <2>1. PICK q : q = loaded(p)
    OBVIOUS
  <2>2. q.op = p.op /\ q.field = p.field /\ q.key = LoadedKey(p)
    BY <2>1 DEF loaded
  <2> QED
    BY <2>1, <2>2
<1>5. /\ x.begin \in SignedRange /\ x.end \in SignedRange /\ Duration(x) \in SignedRange
  BY SpanNumbers
<1>6. CASE p.field \in {"spanid", "description", "processid"}
  <2>1. extractRelevantSpanData(q, x) = Value(p.field, x) /\ q.key = p.val
    BY <1>4, <1>6 DEF extractRelevantSpanData, Value, LoadedKey
  <2> QED
    BY <1>1, <1>2, <1>4, <2>1 DEF Holds, satisfiedBy
<1>7. CASE p.field \in {"begin", "end", "duration"}
  <2>1. PICK v \in SignedRange : v = Value(p.field, x)
    BY <1>5, <1>7 DEF Value
  <2>2. extractRelevantSpanData(q, x) = s2u64(v) /\ q.key = s2u64(p.val)
    BY <1>4, <1>7, <2>1 DEF extractRelevantSpanData, Value, LoadedKey
  <2>3. PICK w \in SignedRange : w = p.val
    BY <1>3, <1>7
  <2>4. /\ v \in Int /\ w \in Int /\ s2u64(v) \in Int /\ s2u64(w) \in Int
        /\ v < w <=> s2u64(v) < s2u64(w)
        /\ v = w <=> s2u64(v) = s2u64(w)
    BY S2U64, UnsignedFacts
  <2>5. p.op # "cn"
    BY <1>2, <1>7 DEF NumericFields
  <2> QED
    BY <1>1, <1>2, <1>4, <2>1, <2>2, <2>3, <2>4, <2>5 DEF Holds, satisfiedBy
<1> QED
  BY <1>2, <1>6, <1>7 DEF NumericFields

\* The position of the first indexed predicate.
LEMMA FirstIndexedFacts ==
    ASSUME NEW preds \in Preds
    PROVE  /\ FirstIndexed(preds) \in 0 .. Len(preds)
           /\ FirstIndexed(preds) # 0 => getIndexPrefix(preds[FirstIndexed(preds)]) # "none"
<1> DEFINE I == {i \in 1 .. Len(preds) : getIndexPrefix(preds[i]) # "none"}
<1>1. Len(preds) \in Nat
  BY PredsAssumption
<1>2. CASE I = {}
  <2>1. FirstIndexed(preds) = 0
    BY <1>2 DEF FirstIndexed
  <2> QED
    BY <1>1, <2>1
<1>3. CASE I # {}
  <2>1. I \in SUBSET (1 .. Len(preds))
    OBVIOUS
  <2>2. \E m \in I : \A x \in I : m <= x
    <3>1. 1 \in Int /\ Len(preds) \in Int
      BY <1>1
    <3> HIDE DEF I
    <3> QED
      BY <1>3, <2>1, <3>1, BoundedExtremes
  <2>3. FirstIndexed(preds) = Min(I)
    BY <1>3 DEF FirstIndexed
  <2>4. Min(I) \in I
    <3> HIDE DEF I
    <3> QED
      BY <2>2, Zenon DEF Min
  <2> QED
    BY <1>1, <2>3, <2>4
<1> QED
  BY <1>2, <1>3

\* The first indexed predicate and the filters together are the query, and
\* createSource and satisfiedBy meet no operator that they do not know.
LEMMA SourceMeaning ==
    ASSUME NEW preds \in Preds, Loads(preds)
    PROVE  /\ IsSource(SourcePred(preds))
           /\ \A x \in Written :
                 Matches(preds, x) <=> /\ satisfiedBy(SourcePred(preds), x)
                                       /\ \A f \in FilterPreds(preds) : satisfiedBy(f, x)
<1>1. PICK n \in 0 .. Len(preds) :
         n = FirstIndexed(preds) /\ (n # 0 => getIndexPrefix(preds[n]) # "none")
  BY FirstIndexedFacts
<1>2. PICK F : F = FilterPreds(preds)
  OBVIOUS
<1>3. F = {loaded(preds[j]) : j \in (1 .. Len(preds)) \ {n}}
  BY <1>1, <1>2 DEF FilterPreds
<1>4. Len(preds) \in Nat
  BY PredsAssumption
<1>5. CASE n = 0
  <2>1. SourcePred(preds) = AllSpans
    BY <1>1, <1>5 DEF SourcePred
  <2>2. IsSource(AllSpans)
    BY UnsignedFacts DEF IsSource, AllSpans, SourceOps, NumericFields
  <2>3. ASSUME NEW x \in Written PROVE satisfiedBy(AllSpans, x)
    <3>1. x.id \in Int /\ x.id >= 0
      BY SpanNumbers, UnsignedFacts
    <3> QED
      BY <3>1 DEF satisfiedBy, AllSpans, extractRelevantSpanData
  <2>4. \A j \in 1 .. Len(preds) : j # n
    BY <1>4, <1>5
  <2>5. \A x \in Written : Matches(preds, x) <=> \A f \in F : satisfiedBy(f, x)
    BY <1>3, <2>4, LoadedMeaning DEF Matches
  <2> QED
    BY <1>2, <2>1, <2>2, <2>3, <2>5
<1>6. CASE n # 0
  <2>1. n \in 1 .. Len(preds)
    BY <1>4, <1>6
  <2>2. SourcePred(preds) = loaded(preds[n])
    BY <1>1, <1>6 DEF SourcePred
  <2>3. PICK p : p = preds[n]
    OBVIOUS
  <2>4. p.field \in NumericFields
    BY <1>1, <1>6, <2>3 DEF getIndexPrefix, NumericFields
  <2>5. p.op \in SourceOps /\ p.val # BadVal
    BY <2>1, <2>3, <2>4 DEF Loads, loadPredicateFails, fieldIsNumeric, SourceOps
  <2>6. /\ p.field = "spanid" => p.val \in UnsignedRange
        /\ p.field \in {"begin", "end", "duration"} => p.val \in SignedRange
    BY <2>1, <2>3, <2>5, PredsAssumption
  <2>7. LoadedKey(p) \in UnsignedRange
    BY <2>4, <2>6, S2U64 DEF LoadedKey, NumericFields
  <2>8. IsSource(loaded(p))
    BY <2>4, <2>5, <2>7 DEF IsSource, loaded
  <2>9. \A x \in Written : Matches(preds, x) <=>
           satisfiedBy(loaded(preds[n]), x) /\ \A f \in F : satisfiedBy(f, x)
    BY <1>3, <2>1, LoadedMeaning DEF Matches
  <2> QED
    BY <1>2, <2>2, <2>3, <2>8, <2>9
<1> QED
  BY <1>5, <1>6

\* The id before one that is not zero.
LEMMA Decrement ==
    ASSUME NEW n \in UnsignedRange
    PROVE  /\ (n - 1) % (2 * HalfRange) \in UnsignedRange /\ (n + 1) % (2 * HalfRange) \in UnsignedRange
           /\ n # 0 => (n - 1) % (2 * HalfRange) = n - 1
BY HalfRangeAssumption, SMT DEF UnsignedRange

\* The predicate of a continued query has the field and the direction of the one
\* that was sent.
LEMMA AdjustedSource ==
    ASSUME NonzeroIds, NEW p, IsSource(p), NEW prev \in Written \cup {Nil},
           NEW q, q = AdjustedPred(p, prev)
    PROVE  /\ IsSource(q) /\ q.field = p.field
           /\ IsDescending(q.op) <=> IsDescending(p.op)
           /\ prev # Nil => /\ q.op = (IF p.op = "ge" THEN "gt" ELSE p.op)
                            /\ p.field # "spanid" => q.key = extractRelevantSpanData(p, prev)
                            /\ p.field = "spanid" =>
                                  q.key = CASE p.op = "eq" -> 0
                                            [] p.op = "le" -> prev.id - 1
                                            [] p.op \in {"ge", "gt"} -> prev.id
<1>1. CASE prev = Nil
  BY <1>1 DEF AdjustedPred
<1>2. CASE prev # Nil
  <2>1. prev \in Written /\ prev.id # 0
    BY <1>2 DEF NonzeroIds
  <2>2. /\ q.op = (IF p.op = "ge" THEN "gt" ELSE p.op) /\ q.field = p.field
        /\ q.key = IF p.field = "spanid" THEN StartId(p, prev) ELSE extractRelevantSpanData(p, prev)
    BY <1>2 DEF AdjustedPred
  <2>3. /\ extractRelevantSpanData(p, prev) \in UnsignedRange
        /\ prev.id \in UnsignedRange /\ p.field \in NumericFields /\ p.op \in SourceOps
    BY <2>1, ExtractFacts, SpanNumbers DEF IsSource
  <2>4. PICK w \in UnsignedRange : w = prev.id
    BY <2>3
  <2>5. /\ (w - 1) % (2 * HalfRange) \in UnsignedRange /\ (w - 1) % (2 * HalfRange) = w - 1
    BY <2>1, <2>4, Decrement
  <2>6. p.field = "spanid" => q.key = CASE p.op = "eq" -> 0
                                        [] p.op = "le" -> w - 1
                                        [] p.op \in {"ge", "gt"} -> w
    BY <2>2, <2>3, <2>4, <2>5 DEF StartId, SourceOps
  <2>7. q.key \in UnsignedRange
    BY <2>2, <2>3, <2>5, <2>6, UnsignedFacts DEF SourceOps
  <2>8. IsSource(q) /\ (IsDescending(q.op) <=> IsDescending(p.op))
    BY <2>2, <2>3, <2>7 DEF IsSource, SourceOps, IsDescending
  <2> QED
    BY <2>2, <2>4, <2>6, <2>8
<1> QED
  BY <1>1, <1>2

\* It implies the one that was sent: it asks for rows after the last one that was
\* received.
LEMMA AdjustedMeaning ==
    ASSUME NonzeroIds, NEW p, IsSource(p), NEW prev \in Written \cup {Nil},
           prev # Nil => satisfiedBy(p, prev), NEW q, q = AdjustedPred(p, prev),
           NEW x \in Written, satisfiedBy(q, x)
    PROVE  satisfiedBy(p, x)
<1>1. CASE prev = Nil
  BY <1>1 DEF AdjustedPred
<1>2. CASE prev # Nil
  <2>1. prev \in Written /\ satisfiedBy(p, prev) /\ x.id # 0 /\ p.op \in SourceOps
    BY <1>2 DEF NonzeroIds, IsSource
  <2>2. /\ q.field = p.field
        /\ q.op = (IF p.op = "ge" THEN "gt" ELSE p.op)
        /\ p.field # "spanid" => q.key = extractRelevantSpanData(p, prev)
        /\ p.field = "spanid" => q.key = CASE p.op = "eq" -> 0
                                          [] p.op = "le" -> prev.id - 1
                                          [] p.op \in {"ge", "gt"} -> prev.id
    BY <1>2, AdjustedSource
  <2>3. PICK v \in Int : v = extractRelevantSpanData(p, x)
    BY ExtractFacts, UnsignedFacts DEF IsSource
  <2>4. PICK w \in Int : w = extractRelevantSpanData(p, prev)
    BY <2>1, ExtractFacts, UnsignedFacts DEF IsSource
  <2>5. extractRelevantSpanData(q, x) = v /\ p.key \in Int
    BY <2>2, <2>3, UnsignedFacts DEF extractRelevantSpanData, IsSource
  <2>6. p.field = "spanid" => v = x.id /\ w = prev.id
    BY <2>3, <2>4 DEF extractRelevantSpanData
  <2>7. CASE p.op = "eq"
    BY <2>1, <2>2, <2>3, <2>4, <2>5, <2>6, <2>7 DEF satisfiedBy
  <2>8. CASE p.op = "le"
    BY <2>1, <2>2, <2>3, <2>4, <2>5, <2>6, <2>8 DEF satisfiedBy
  <2>9. CASE p.op \in {"ge", "gt"}
    <3>1. q.op = "gt" /\ q.key = w
      BY <2>2, <2>4, <2>6, <2>9
    <3>2. v > w
      BY <2>5, <3>1, SatisfiedFacts
    <3>3. w >= p.key
      BY <2>1, <2>4, <2>5, <2>9, SatisfiedFacts
    <3> QED
      BY <2>3, <2>5, <2>9, <3>2, <3>3, SatisfiedFacts
  <2> QED
    BY <2>1, <2>7, <2>8, <2>9 DEF SourceOps
<1> QED
  BY <1>1, <1>2

-----------------------------------------------------------------------------
\* Iterators.

InSection(p, at) == at # Nil /\ at.tag = getIndexPrefix(p)

\* A snapshot of a shard lies between what was stored at the start and what is
\* stored now.
Snapshot(it, db, first) ==
    /\ it \in Iterator
    /\ Keys(first) \subseteq it.keys /\ it.keys \subseteq Keys(db)
    /\ it.at \in it.keys \cup {Nil}
    /\ \A id \in SpanIds : it.data[id] # Nil => it.data[id] = db.data[id]
    /\ \A key \in it.keys : key.tag = "s" => it.data[key.fir] # Nil
SnapInv ==
    /\ DOMAIN iters = Shards
    /\ \A s \in Shards : iters[s] # Nil => Snapshot(iters[s], ldb[s], startDb[s])

\* The order of keys in the direction of a source, and of their values.
LEMMA Direction ==
    ASSUME NEW p, NEW a \in Key, NEW b \in Key, NEW c \in Key
    PROVE  /\ ~ Ahead(p, a, a) /\ ~ (Ahead(p, a, b) /\ Ahead(p, b, a))
           /\ Ahead(p, a, b) /\ Ahead(p, b, c) => Ahead(p, a, c)
           /\ Ahead(p, a, b) \/ Ahead(p, b, a) \/ a = b
           /\ a.tag = b.tag /\ Ahead(p, a, b) => ~ Before(p, b.fir, a.fir)
<1>1. a.fir \in Int /\ b.fir \in Int
  BY HalfRangeAssumption DEF Key, NoId
<1>2. a.tag = b.tag => ~ (TagRank[a.tag] < TagRank[b.tag]) /\ ~ (TagRank[b.tag] < TagRank[a.tag])
  BY DEF TagRank, Key
<1>3. a.tag = b.tag /\ Ahead(p, a, b) => ~ Before(p, b.fir, a.fir)
  BY <1>1, <1>2 DEF Ahead, Before, KeyLess
<1> QED
  BY <1>3, KeyOrder DEF Ahead

\* Values are ordered in the direction of a source.
LEMMA BeforeOrder ==
    ASSUME NEW p, NEW u \in Int, NEW v \in Int, NEW w \in Int
    PROVE  /\ ~ Before(p, u, v) /\ ~ Before(p, v, w) => ~ Before(p, u, w)
           /\ ~ Before(p, u, u)
BY DEF Before

\* The keys of a span in the secondary indices.
LEMMA IndexKeysFacts ==
    ASSUME NEW x \in Written, NEW key \in IndexKeys(x)
    PROVE  /\ key \in Key /\ key.tag \in {"p", "b", "d", "e"} /\ key.sec = x.id
           /\ \A p : p.field \in NumericFields /\ key.tag = getIndexPrefix(p) => key = KeyOf(p, x)
<1>1. /\ x.id \in UnsignedRange /\ x.parents \subseteq UnsignedRange
      /\ s2u64(x.begin) \in UnsignedRange /\ s2u64(x.end) \in UnsignedRange
      /\ s2u64(Duration(x)) \in UnsignedRange
  BY SpanNumbers, S2U64
<1>2. \A t \in {"p", "b", "d", "e"}, u, v \in UnsignedRange : makeSecondaryKey(t, u, v) \in Key
  BY UnsignedFacts DEF makeSecondaryKey, Key
<1>3. CASE \E u \in x.parents : key = makeSecondaryKey("p", u, x.id)
  BY <1>1, <1>2, <1>3 DEF makeSecondaryKey, getIndexPrefix
<1>4. CASE key = makeSecondaryKey("b", s2u64(x.begin), x.id)
  <2>1. \A p : p.field \in NumericFields /\ key.tag = getIndexPrefix(p) => key = KeyOf(p, x)
    BY <1>4 DEF makeSecondaryKey, getIndexPrefix, KeyOf, NumericFields, extractRelevantSpanData
  <2> QED
    BY <1>1, <1>2, <1>4, <2>1 DEF makeSecondaryKey
<1>5. CASE key = makeSecondaryKey("e", s2u64(x.end), x.id)
  <2>1. \A p : p.field \in NumericFields /\ key.tag = getIndexPrefix(p) => key = KeyOf(p, x)
    BY <1>5 DEF makeSecondaryKey, getIndexPrefix, KeyOf, NumericFields, extractRelevantSpanData
  <2> QED
    BY <1>1, <1>2, <1>5, <2>1 DEF makeSecondaryKey
<1>6. CASE key = makeSecondaryKey("d", s2u64(Duration(x)), x.id)
  <2>1. \A p : p.field \in NumericFields /\ key.tag = getIndexPrefix(p) => key = KeyOf(p, x)
    BY <1>6 DEF makeSecondaryKey, getIndexPrefix, KeyOf, NumericFields, extractRelevantSpanData
  <2> QED
    BY <1>1, <1>2, <1>6, <2>1 DEF makeSecondaryKey
<1> QED
  BY <1>3, <1>4, <1>5, <1>6 DEF IndexKeys

\* The keys of a database: of its spans, of its index entries and of its version.
LEMMA KeysFacts ==
    ASSUME NEW s, NEW db, IndexExact(s, db)
    PROVE  /\ \A key \in Keys(db) :
                 /\ key \in Key
                 /\ key.tag = "s" => /\ key = makeKey("s", key.fir)
                                     /\ key.fir \in SpanIds /\ db.data[key.fir] # Nil
                 /\ key.tag \in {"b", "d", "e", "p"} => key \in db.index
           /\ \A id \in SpanIds : db.data[id] # Nil => makeKey("s", id) \in Keys(db)
           /\ db.index \subseteq Keys(db)
<1>1. ASSUME NEW id \in SpanIds
      PROVE  makeKey("s", id) \in Key /\ makeKey("s", id).tag = "s" /\ makeKey("s", id).fir = id
  <2>1. id \in UnsignedRange
    BY SpanIdsAssumption DEF UnsignedRange
  <2> QED
    BY <2>1, UnsignedFacts DEF makeKey, Key
<1>2. makeKey("v", NoId) \in Key /\ makeKey("v", NoId).tag = "v"
  BY UnsignedFacts DEF makeKey, Key
<1>3. ASSUME NEW key \in db.index PROVE key \in Key /\ key.tag \in {"p", "b", "d", "e"}
  <2>1. PICK x \in Written : key \in IndexKeys(x)
    BY DEF IndexExact
  <2> QED
    BY <2>1, IndexKeysFacts
<1>4. \A key : key \in Keys(db) <=> \/ \E id \in SpanIds : db.data[id] # Nil /\ key = makeKey("s", id)
                                    \/ key \in db.index \/ key = makeKey("v", NoId)
  BY DEF Keys
<1>5. ASSUME NEW key \in Keys(db)
      PROVE  /\ key \in Key
             /\ key.tag = "s" => /\ key = makeKey("s", key.fir)
                                 /\ key.fir \in SpanIds /\ db.data[key.fir] # Nil
             /\ key.tag \in {"b", "d", "e", "p"} => key \in db.index
  BY <1>1, <1>2, <1>3, <1>4
<1> QED
  BY <1>4, <1>5

\* A stored span is found under its key in every index.
LEMMA StoredKey ==
    ASSUME NEW s, NEW db, IndexExact(s, db), NEW p, p.field \in NumericFields,
           NEW x \in SpansOf(db)
    PROVE  x \in Written /\ getShardIndex(x.id) = s /\ KeyOf(p, x) \in Keys(db)
<1>1. PICK id \in SpanIds : db.data[id] # Nil /\ x = db.data[id]
  BY DEF SpansOf
<1>2. /\ x \in Written /\ x.id = id /\ getShardIndex(id) = s /\ IndexKeys(x) \subseteq db.index
  BY <1>1 DEF IndexExact
<1>3. CASE p.field = "spanid"
  <2>1. KeyOf(p, x) = makeKey("s", id)
    BY <1>2, <1>3 DEF KeyOf
  <2> QED
    BY <1>1, <1>2, <2>1, KeysFacts
<1>4. CASE p.field # "spanid"
  <2>1. KeyOf(p, x) \in IndexKeys(x)
    BY <1>4 DEF NumericFields, KeyOf, getIndexPrefix, extractRelevantSpanData, IndexKeys
  <2> QED
    BY <1>2, <2>1, KeysFacts
<1> QED
  BY <1>3, <1>4

\* The spans stored at the start keep their keys.
LEMMA KeysGrow ==
    ASSUME NEW s, NEW first, NEW db, IndexExact(s, first), IndexExact(s, db),
           \A id \in SpanIds : first.data[id] # Nil => db.data[id] = first.data[id]
    PROVE  Keys(first) \subseteq Keys(db)
<1>1. ASSUME NEW key \in first.index PROVE key \in db.index
  <2>1. key.sec \in SpanIds /\ first.data[key.sec] # Nil /\ key \in IndexKeys(first.data[key.sec])
    BY DEF IndexExact
  <2>2. db.data[key.sec] = first.data[key.sec] /\ db.data[key.sec] # Nil
    BY <2>1
  <2> QED
    BY <2>1, <2>2 DEF IndexExact
<1> QED
  BY <1>1 DEF Keys

\* The span behind an index entry is a span of the shard, found under its key.
LEMMA Rehydrated ==
    ASSUME StoreInv, SnapInv, NEW s \in Shards, iters[s] # Nil, NEW key \in iters[s].keys,
           NEW p, p.field \in NumericFields, key.tag = getIndexPrefix(p),
           NEW x, x = Rehydrate(s, key)
    PROVE  /\ x \in Written /\ x # Nil /\ getShardIndex(x.id) = s /\ KeyOf(p, x) = key
           /\ x \in SpansOf(ldb[s])
<1>1. PICK it : it = iters[s] /\ Snapshot(it, ldb[s], startDb[s])
  BY DEF SnapInv
<1>2. PICK db : db = ldb[s] /\ IndexExact(s, db)
  BY DEF StoreInv
<1>3. key \in Keys(db)
  BY <1>1, <1>2 DEF Snapshot
<1>4. CASE key.tag = "s"
  <2>1. key = makeKey("s", key.fir) /\ key.fir \in SpanIds /\ db.data[key.fir] # Nil
    BY <1>2, <1>3, <1>4, KeysFacts
  <2>2. x = db.data[key.fir]
    <3>1. x = it.data[key.fir]
      BY <1>1, <1>4 DEF Rehydrate
    <3>2. it.data[key.fir] # Nil
      BY <1>1, <1>4 DEF Snapshot
    <3> QED
      BY <1>1, <1>2, <2>1, <3>1, <3>2 DEF Snapshot
  <2>3. x \in Written /\ x.id = key.fir /\ getShardIndex(key.fir) = s
    BY <1>2, <2>1, <2>2 DEF IndexExact
  <2>4. p.field = "spanid"
    BY <1>4 DEF getIndexPrefix, NumericFields
  <2>5. KeyOf(p, x) = key
    BY <2>1, <2>3, <2>4 DEF KeyOf
  <2>6. x \in SpansOf(ldb[s])
    BY <1>2, <2>1, <2>2 DEF SpansOf
  <2> QED
    BY <2>1, <2>2, <2>3, <2>5, <2>6
<1>5. CASE key.tag # "s"
  <2>1. key.tag \in {"b", "d", "e", "p"}
    BY <1>5 DEF getIndexPrefix, NumericFields
  <2>2. key \in db.index
    BY <1>2, <1>3, <2>1, KeysFacts
  <2>3. x = db.data[key.sec]
    BY <1>2, <1>5 DEF Rehydrate
  <2>4. /\ key.sec \in SpanIds /\ x # Nil /\ key \in IndexKeys(x)
        /\ x \in Written /\ x.id = key.sec /\ getShardIndex(key.sec) = s
    BY <1>2, <2>2, <2>3 DEF IndexExact
  <2>5. key = KeyOf(p, x)
    BY <2>4, IndexKeysFacts
  <2>6. x \in SpansOf(ldb[s])
    BY <1>2, <2>3, <2>4 DEF SpansOf
  <2> QED
    BY <2>4, <2>5, <2>6
<1> QED
  BY <1>4, <1>5

-----------------------------------------------------------------------------
\* A shard of a source.

\* The entry n that shard s offers comes after the results R; the position of
\* its iterator comes after both.
NextOK(p, s, n, R) ==
    n # Nil =>
        /\ n \in Written /\ getShardIndex(n.id) = s /\ satisfiedBy(p, n)
        /\ \A r \in R : /\ r.id # n.id
                        /\ ~ Before(p, extractRelevantSpanData(p, n), extractRelevantSpanData(p, r))
AtOK(p, s, n, at, R) ==
    InSection(p, at) =>
        /\ \A r \in R : /\ ~ Before(p, at.fir, extractRelevantSpanData(p, r))
                        /\ getShardIndex(r.id) = s => Ahead(p, KeyOf(p, r), at)
        /\ n # Nil => Ahead(p, KeyOf(p, n), at)

\* The iterator of a shard has not passed the span x.
Reaches(p, it, x) ==
    /\ it # Nil /\ InSection(p, it.at) /\ it.at.fir >= p.key
    /\ KeyOf(p, x) \in it.keys /\ ~ KeyLess(KeyOf(p, x), it.at)
\* A span x that a query must find has been returned or refused by a filter, or
\* its shard offers it, or its iterator has not passed it.
Covered(p, fs, R, n, it, x) ==
    \/ x \in R \/ \E f \in fs : ~ satisfiedBy(f, x)
    \/ n = x
    \/ Reaches(p, it, x)

\* A span that is read comes after the results.
LEMMA NextFromAt ==
    ASSUME UniqueIds, NEW p, IsSource(p), NEW s, NEW at \in Key, InSection(p, at),
           NEW R \in SUBSET Written, AtOK(p, s, Nil, at, R),
           NEW x \in Written, getShardIndex(x.id) = s, KeyOf(p, x) = at, satisfiedBy(p, x)
    PROVE  NextOK(p, s, x, R)
<1>1. ASSUME NEW r \in R
      PROVE  /\ r.id # x.id
             /\ ~ Before(p, extractRelevantSpanData(p, x), extractRelevantSpanData(p, r))
  <2>1. at.fir = extractRelevantSpanData(p, x)
    BY KeyOfFacts DEF IsSource
  <2>2. ~ Before(p, at.fir, extractRelevantSpanData(p, r))
    BY DEF AtOK
  <2>3. ASSUME r.id = x.id PROVE FALSE
    <3>1. r = x
      BY <2>3 DEF UniqueIds
    <3>2. Ahead(p, at, at)
      BY <3>1 DEF AtOK
    <3> QED
      BY <3>2, Direction
  <2> QED
    BY <2>1, <2>2, <2>3
<1> QED
  BY <1>1 DEF NextOK

\* The iterator moves on, behind the span that was read.
LEMMA AtMoves ==
    ASSUME NEW p, IsSource(p), NEW s, NEW at \in Key, InSection(p, at),
           NEW R \in SUBSET Written, AtOK(p, s, Nil, at, R),
           NEW x \in Written, KeyOf(p, x) = at, NEW n \in {Nil, x},
           NEW to \in Key \cup {Nil}, to = Nil \/ Ahead(p, at, to)
    PROVE  AtOK(p, s, n, to, R)
<1> SUFFICES ASSUME InSection(p, to)
             PROVE  /\ \A r \in R : /\ ~ Before(p, to.fir, extractRelevantSpanData(p, r))
                                    /\ getShardIndex(r.id) = s => Ahead(p, KeyOf(p, r), to)
                    /\ n # Nil => Ahead(p, KeyOf(p, n), to)
  BY DEF AtOK
<1>1. to \in Key /\ Ahead(p, at, to) /\ at.tag = to.tag
  BY DEF InSection
<1>2. ~ Before(p, to.fir, at.fir)
  BY <1>1, Direction
<1>3. ASSUME NEW r \in R
      PROVE  /\ ~ Before(p, to.fir, extractRelevantSpanData(p, r))
             /\ getShardIndex(r.id) = s => Ahead(p, KeyOf(p, r), to)
  <2>1. /\ ~ Before(p, at.fir, extractRelevantSpanData(p, r))
        /\ getShardIndex(r.id) = s => Ahead(p, KeyOf(p, r), at)
    BY DEF AtOK
  <2>2. PICK u \in Int : u = extractRelevantSpanData(p, r)
    BY ExtractFacts, UnsignedFacts DEF IsSource
  <2>3. at.fir \in Int /\ to.fir \in Int
    BY <1>1, HalfRangeAssumption DEF Key, NoId
  <2>4. ~ Before(p, to.fir, u)
    BY <1>2, <2>1, <2>2, <2>3, BeforeOrder
  <2>5. KeyOf(p, r) \in Key
    BY KeyOfFacts DEF IsSource
  <2> QED
    BY <1>1, <2>1, <2>2, <2>4, <2>5, Direction
<1> QED
  BY <1>1, <1>3

\* A span that lies ahead is still ahead after a move, unless it was read.
LEMMA ReachesOn ==
    ASSUME NEW p, IsSource(p), ~ IsDescending(p.op), NEW it \in Iterator, it.at \in it.keys,
           NEW to, to = Moved(p, it.keys, it.at),
           NEW y \in Written, Reaches(p, it, y), KeyOf(p, y) # it.at
    PROVE  Reaches(p, [it EXCEPT !.at = to], y)
<1>1. PICK k \in Key : k = KeyOf(p, y) /\ k.tag = getIndexPrefix(p)
  BY KeyOfFacts DEF IsSource
<1>2. PICK at \in Key : at = it.at
  BY DEF Iterator
<1>3. /\ k \in it.keys /\ ~ KeyLess(k, at) /\ k # at
      /\ at.tag = getIndexPrefix(p) /\ at.fir >= p.key
  BY <1>1, <1>2 DEF Reaches, InSection
<1>4. KeyLess(at, k)
  BY <1>3, KeyOrder
<1>5. it.keys \in SUBSET Key
  BY DEF Iterator
<1>6. to # Nil /\ to \in it.keys /\ to \in Key /\ KeyLess(at, to) /\ ~ KeyLess(k, to)
  BY <1>2, <1>3, <1>4, <1>5, MoveFacts DEF Ahead
<1>7. to.tag = k.tag /\ to.fir >= at.fir
  <2>1. \A t, u \in {"b", "d", "e", "p", "s", "v"} :
           TagRank[t] \in Int /\ (TagRank[t] = TagRank[u] => t = u)
    BY DEF TagRank
  <2>2. to.tag \in {"b", "d", "e", "p", "s", "v"} /\ k.tag \in {"b", "d", "e", "p", "s", "v"}
    BY <1>6 DEF Key
  <2>3. k = to \/ KeyLess(to, k)
    BY <1>6, KeyOrder
  <2>4. to.fir \in Int /\ at.fir \in Int
    BY <1>6, HalfRangeAssumption DEF Key, NoId
  <2>5. k.tag = at.tag
    BY <1>1, <1>3
  <2>6. to.tag = k.tag
    BY <1>6, <2>1, <2>2, <2>3, <2>5 DEF KeyLess
  <2> QED
    BY <1>6, <2>1, <2>2, <2>4, <2>5, <2>6 DEF KeyLess
<1>8. at.fir \in Int /\ to.fir \in Int /\ p.key \in Int
  BY <1>6, HalfRangeAssumption, UnsignedFacts DEF Key, NoId, IsSource
<1>9. PICK moved : moved = [it EXCEPT !.at = to]
  OBVIOUS
<1>10. moved.at = to /\ moved.keys = it.keys /\ moved # Nil
  <2>1. moved.at = to /\ moved.keys = it.keys
    BY <1>9 DEF Iterator
  <2>2. moved \in Iterator
    BY <1>6, <1>9 DEF Iterator
  <2> QED
    BY <2>1, <2>2, NilQueryAssumption
<1>11. Reaches(p, moved, y)
  BY <1>1, <1>3, <1>6, <1>7, <1>8, <1>10 DEF Reaches, InSection
<1> QED
  BY <1>9, <1>11

\* As long as a span lies ahead, the one at hand satisfies the predicate of an
\* ascending query.
LEMMA ReachesSatisfied ==
    ASSUME NEW p, IsSource(p), p.op \in {"eq", "ge"}, NEW it \in Iterator,
           NEW y \in Written, Reaches(p, it, y), satisfiedBy(p, y),
           NEW x \in Written, KeyOf(p, x) = it.at
    PROVE  satisfiedBy(p, x)
<1>1. PICK u \in Int : u = extractRelevantSpanData(p, x)
  BY ExtractFacts, UnsignedFacts DEF IsSource
<1>2. PICK v \in Int : v = extractRelevantSpanData(p, y)
  BY ExtractFacts, UnsignedFacts DEF IsSource
<1>3. /\ KeyOf(p, x).fir = u /\ KeyOf(p, y).fir = v /\ KeyOf(p, x).tag = KeyOf(p, y).tag
  BY <1>1, <1>2, KeyOfFacts DEF IsSource
<1>4. u >= p.key /\ ~ KeyLess(KeyOf(p, y), KeyOf(p, x))
  BY <1>3 DEF Reaches
<1>5. ~ (v < u)
  BY <1>3, <1>4 DEF KeyLess
<1>6. p.key \in Int
  BY UnsignedFacts DEF IsSource
<1>7. /\ p.op = "eq" => v = p.key
      /\ p.op = "ge" => v >= p.key
  BY <1>2, SatisfiedFacts
<1>8. /\ p.op = "eq" => u = p.key
      /\ p.op = "ge" => u >= p.key
  BY <1>4, <1>5, <1>6, <1>7
<1> QED
  BY <1>1, <1>8, SatisfiedFacts

\* Seek stops at the first key or behind it, and passes no span from there on.
LEMMA SeekReachesFrom ==
    ASSUME NEW p, IsSource(p), NEW it \in Iterator, NEW first \in Key,
           first.tag = getIndexPrefix(p), first.fir = p.key, it.at = Seek(it.keys, first),
           NEW y \in Written, KeyOf(p, y) \in it.keys, ~ KeyLess(KeyOf(p, y), first)
    PROVE  Reaches(p, it, y)
<1>1. PICK k \in Key : k = KeyOf(p, y) /\ k.tag = getIndexPrefix(p)
  BY KeyOfFacts DEF IsSource
<1>2. p.key \in Int /\ k.fir \in Int
  BY HalfRangeAssumption, UnsignedFacts DEF IsSource, Key, NoId
<1>3. \A t, u \in {"b", "d", "e", "p", "s", "v"} :
         TagRank[t] \in Int /\ (TagRank[t] = TagRank[u] => t = u)
  BY DEF TagRank
<1>4. k.tag \in {"b", "d", "e", "p", "s", "v"}
  BY DEF Key
<1>5. it.keys \in SUBSET Key /\ k \in it.keys
  BY <1>1 DEF Iterator
<1>6. it.at # Nil /\ it.at \in it.keys /\ ~ KeyLess(it.at, first) /\ ~ KeyLess(k, it.at)
  <2>1. PICK keys \in SUBSET Key : keys = it.keys
    BY <1>5
  <2>2. PICK at : at = Seek(keys, first) /\ at = it.at
    BY <2>1
  <2>3. /\ at = Nil \/ (at \in keys /\ ~ KeyLess(at, first))
        /\ \A j \in keys : ~ KeyLess(j, first) => at # Nil /\ ~ KeyLess(j, at)
    BY <2>2, SeekFacts
  <2> QED
    BY <1>1, <1>5, <2>1, <2>2, <2>3
<1>7. PICK at \in Key : at = it.at
  BY <1>5, <1>6
<1>8. (at = first \/ KeyLess(first, at)) /\ (at = k \/ KeyLess(at, k))
  BY <1>6, <1>7, KeyOrder
<1>9. at.tag \in {"b", "d", "e", "p", "s", "v"} /\ at.fir \in Int
  BY HalfRangeAssumption DEF Key, NoId
<1>10. at.tag = getIndexPrefix(p)
  BY <1>1, <1>3, <1>4, <1>8, <1>9 DEF KeyLess
<1>11. at.fir >= p.key
  BY <1>2, <1>3, <1>4, <1>1, <1>8, <1>9, <1>10 DEF KeyLess
<1>12. it # Nil
  BY NilQueryAssumption
<1> QED
  BY <1>1, <1>5, <1>6, <1>7, <1>10, <1>11, <1>12 DEF Reaches, InSection

\* The first key of an ascending query comes before the keys of the spans that
\* satisfy it.
LEMMA SeekReaches ==
    ASSUME NEW p, IsSource(p), p.op \in {"eq", "ge"}, NEW it \in Iterator,
           it.at = Seek(it.keys, makeKey(getIndexPrefix(p), p.key)),
           NEW y \in Written, satisfiedBy(p, y), KeyOf(p, y) \in it.keys
    PROVE  Reaches(p, it, y)
<1>1. PICK k \in Key : k = KeyOf(p, y) /\ k.tag = getIndexPrefix(p) /\ k.fir = extractRelevantSpanData(p, y)
  BY KeyOfFacts DEF IsSource
<1>2. PICK v \in Int : v = extractRelevantSpanData(p, y)
  BY ExtractFacts, UnsignedFacts DEF IsSource
<1>3. p.key \in Int /\ v >= p.key
  <2>1. p.key \in Int
    BY UnsignedFacts DEF IsSource
  <2>2. /\ p.op = "eq" => v = p.key
        /\ p.op = "ge" => v >= p.key
    BY <1>2, SatisfiedFacts
  <2> QED
    BY <2>1, <2>2
<1>4. PICK first \in Key : /\ first = makeKey(getIndexPrefix(p), p.key)
                           /\ first.tag = getIndexPrefix(p) /\ first.fir = p.key /\ first.sec = NoId
  <2>1. getIndexPrefix(p) \in {"b", "d", "e", "p", "s", "v"} /\ p.key \in UnsignedRange
    BY DEF IsSource, NumericFields, getIndexPrefix
  <2>2. makeKey(getIndexPrefix(p), p.key) \in Key
    BY <2>1, UnsignedFacts DEF makeKey, Key
  <2> QED
    BY <2>2 DEF makeKey
<1>5. k.sec \in Int /\ NoId \in Int /\ NoId <= k.sec
  BY HalfRangeAssumption DEF Key, NoId
<1>6. TagRank[k.tag] \in Int
  BY DEF TagRank, Key
<1>7. ~ KeyLess(k, first)
  BY <1>1, <1>2, <1>3, <1>4, <1>5, <1>6 DEF KeyLess
<1> QED
  BY <1>1, <1>4, <1>7, SeekReachesFrom

-----------------------------------------------------------------------------
\* A query.

Reading == {"populate", "choose", "done"}
Started == Reading \cup {"open"}

\* The query, its source and its filters.  The spans of a page satisfy the query,
\* and so does the last one, with which the next page begins.
QueryOK ==
    /\ pc \in Started \cup {"idle", "load", "error"}
    /\ pc = "idle" => query.lim = 0
    /\ pc # "idle" =>
          /\ query \in [preds: Preds, lim: Int, prev: Written \cup {Nil}]
          /\ query.prev # Nil => Matches(query.preds, query.prev)
    /\ pc \in Started => Loads(query.preds) /\ filters = FilterPreds(query.preds)
    /\ pc = "open" => src = SourcePred(query.preds)
    /\ pc \in Reading => src = AdjustedPred(SourcePred(query.preds), query.prev)
    /\ pc \notin Reading => ret = <<>>
    /\ pc \in {"load", "open"} => nexts = [s \in Shards |-> Nil]

\* The loops over the shards: the ones behind are opened, or populated.
LoopOK ==
    /\ pc = "load" => shardIdx = 0
    /\ pc = "open" => /\ shardIdx \in 0 .. NumShards
                      /\ \A s \in Shards : s < shardIdx => iters[s] # Nil
    /\ pc = "populate" => /\ shardIdx \in Shards
                          /\ \A s \in Shards : s < shardIdx => iters[s] = Nil \/ nexts[s] # Nil
    /\ pc = "choose" => /\ shardIdx = 0
                        /\ \A s \in Shards : iters[s] = Nil \/ nexts[s] # Nil

\* The rows that have been read.
Rows(p, fs, q) ==
    /\ \A i \in 1 .. Len(q) : satisfiedBy(p, q[i]) /\ \A f \in fs : satisfiedBy(f, q[i])
    /\ \A i, j \in 1 .. Len(q) : i < j =>
          /\ q[i].id # q[j].id
          /\ ~ Before(p, extractRelevantSpanData(p, q[j]), extractRelevantSpanData(p, q[i]))

RunInv ==
    /\ ret \in Seq(Written) /\ DOMAIN nexts = Shards
    /\ pc \in Reading =>
          /\ Rows(src, filters, ret)
          /\ \A s \in Shards : NextOK(src, s, nexts[s], Range(ret))
          /\ \A s \in Shards : iters[s] # Nil => AtOK(src, s, nexts[s], iters[s].at, Range(ret))
    /\ pc \in {"populate", "choose"} => Len(ret) < query.lim
    /\ Len(ret) > 0 => Len(ret) <= query.lim

\* The first page of an ascending query loses no span that was stored before.
CompleteInv ==
    pc \in Reading /\ query.prev = Nil /\ query.lim > 0 /\ src.op \in {"eq", "ge"} =>
        \A s \in Shards : \A x \in SpansOf(startDb[s]) :
            satisfiedBy(src, x) => Covered(src, filters, Range(ret), nexts[s], iters[s], x)

DoneInv ==
    pc = "done" => Len(ret) >= query.lim \/ \A s \in Shards : iters[s] = Nil /\ nexts[s] = Nil

QueryInv == QueryOK /\ LoopOK /\ SnapInv /\ RunInv /\ CompleteInv /\ DoneInv

\* The source of a query that has started.
LEMMA SourceOK ==
    ASSUME NonzeroIds, QueryOK
    PROVE  /\ pc = "open" => IsSource(src)
           /\ pc \in Reading =>
                 /\ IsSource(SourcePred(query.preds)) /\ IsSource(src)
                 /\ src.field = SourcePred(query.preds).field
                 /\ IsDescending(src.op) <=> IsDescending(SourcePred(query.preds).op)
<1>1. CASE pc \in Started
  <2>1. /\ query.preds \in Preds /\ query.prev \in Written \cup {Nil} /\ Loads(query.preds)
    BY <1>1 DEF QueryOK, Started, Reading
  <2>2. IsSource(SourcePred(query.preds))
    BY <2>1, SourceMeaning
  <2>3. pc = "open" => src = SourcePred(query.preds)
    BY DEF QueryOK
  <2>4. CASE pc \in Reading
    <3>1. src = AdjustedPred(SourcePred(query.preds), query.prev)
      BY <2>4 DEF QueryOK
    <3>2. PICK p : p = SourcePred(query.preds)
      OBVIOUS
    <3>3. /\ IsSource(src) /\ src.field = p.field
          /\ IsDescending(src.op) <=> IsDescending(p.op)
      BY <2>1, <2>2, <3>1, <3>2, AdjustedSource
    <3> QED
      BY <2>2, <2>4, <3>2, <3>3 DEF Reading
  <2> QED
    BY <2>2, <2>3, <2>4
<1> QED
  BY <1>1 DEF Started

\* The rows of a page satisfy every predicate of the query.
LEMMA RowsMatch ==
    ASSUME NonzeroIds, QueryOK, pc \in Reading, NEW x \in Written
    PROVE  /\ satisfiedBy(src, x) /\ (\A f \in filters : satisfiedBy(f, x)) => Matches(query.preds, x)
           /\ query.prev = Nil /\ Matches(query.preds, x)
                 => satisfiedBy(src, x) /\ \A f \in filters : satisfiedBy(f, x)
<1>1. /\ query.preds \in Preds /\ query.prev \in Written \cup {Nil} /\ Loads(query.preds)
      /\ query.prev # Nil => Matches(query.preds, query.prev)
  BY DEF QueryOK, Started, Reading
<1>2. PICK p : p = SourcePred(query.preds)
  OBVIOUS
<1>3. filters = FilterPreds(query.preds) /\ src = AdjustedPred(p, query.prev)
  BY <1>2 DEF QueryOK, Started
<1>4. /\ IsSource(p)
      /\ \A y \in Written : Matches(query.preds, y) <=>
            satisfiedBy(p, y) /\ \A f \in filters : satisfiedBy(f, y)
  BY <1>1, <1>2, <1>3, SourceMeaning
<1>5. query.prev # Nil => satisfiedBy(p, query.prev)
  BY <1>1, <1>4
<1>6. satisfiedBy(src, x) => satisfiedBy(p, x)
  BY <1>1, <1>3, <1>4, <1>5, AdjustedMeaning
<1>7. query.prev = Nil => src = p
  BY <1>3 DEF AdjustedPred
<1> QED
  BY <1>4, <1>6, <1>7

\* At first no query has been read.
LEMMA QueryStarts == ReadInit => QueryInv
<1> SUFFICES ASSUME ReadInit PROVE QueryInv
  OBVIOUS
<1>1. /\ ret = <<>> /\ iters = [s \in Shards |-> Nil] /\ nexts = [s \in Shards |-> Nil]
      /\ shardIdx = 0 /\ pc \in {"load", "idle"}
  BY DEF ReadInit, QueryInit, NoQuery, NoSource
<1>2. pc = "load" => /\ query \in [preds: Preds, lim: Int, prev: Written \cup {Nil}]
                     /\ query.prev = Nil
  <2>1. CASE pc = "load"
    <3>1. PICK preds \in Preds, limit \in Lims : query = [preds |-> preds, lim |-> limit, prev |-> Nil]
      BY <2>1 DEF ReadInit, QueryInit, NoQuery
    <3>2. limit \in Int
      BY QueryBoundsAssumption
    <3> QED
      BY <3>1, <3>2
  <2> QED
    BY <2>1
<1>3. QueryOK
  <2>1. pc = "idle" => query.lim = 0
    BY DEF ReadInit, QueryInit, NoQuery
  <2> QED
    BY <1>1, <1>2, <2>1 DEF QueryOK, Started, Reading
<1>4. LoopOK /\ SnapInv /\ CompleteInv /\ DoneInv
  BY <1>1 DEF LoopOK, SnapInv, CompleteInv, DoneInv, Reading
<1>5. ret \in Seq(Written) /\ Len(ret) = 0
  BY <1>1
<1>6. RunInv
  BY <1>1, <1>5 DEF RunInv, Reading
<1> QED
  BY <1>3, <1>4, <1>6 DEF QueryInv

\* A write leaves the snapshots as they are.
LEMMA QueryWrite ==
    ASSUME UniqueIds, StoreInv, QueryInv, NEW span \in Written, Write(span)
    PROVE  QueryInv'
<1>1. /\ ldb' = [ldb EXCEPT ![getShardIndex(span.id)] = PutBatch(@, span)]
      /\ UNCHANGED <<query, src, filters, iters, nexts, numRead, shardIdx, ret, pc, startDb>>
  BY DEF Write, sourceVars, clientVars
<1>2. /\ StoreInv'
      /\ \A s \in Shards : \A id \in SpanIds :
            ldb[s].data[id] # Nil => ldb'[s].data[id] = ldb[s].data[id]
  BY <1>1, WriteExact
<1>3. ASSUME NEW s \in Shards, iters[s] # Nil PROVE Snapshot(iters[s], ldb'[s], startDb[s])
  <2>1. Snapshot(iters[s], ldb[s], startDb[s])
    BY <1>3 DEF QueryInv, SnapInv
  <2>2. PICK db : db = ldb[s] /\ IndexExact(s, db)
    BY DEF StoreInv
  <2>3. PICK new : new = ldb'[s] /\ IndexExact(s, new)
    BY <1>2 DEF StoreInv
  <2>4. \A id \in SpanIds : db.data[id] # Nil => new.data[id] = db.data[id]
    BY <1>2, <2>2, <2>3
  <2>5. Keys(db) \subseteq Keys(new)
    BY <2>2, <2>3, <2>4, KeysGrow
  <2> QED
    BY <2>1, <2>2, <2>3, <2>4, <2>5 DEF Snapshot
<1>4. SnapInv'
  BY <1>1, <1>3 DEF QueryInv, SnapInv
<1>5. QueryOK' /\ LoopOK' /\ RunInv'
  BY <1>1 DEF QueryInv, QueryOK, LoopOK, RunInv
<1>6. CompleteInv' /\ DoneInv'
  BY <1>1 DEF QueryInv, CompleteInv, DoneInv
<1> QED
  BY <1>4, <1>5, <1>6 DEF QueryInv

\* Nothing changes for a query.
LEMMA QuerySame ==
    ASSUME QueryInv,
           UNCHANGED <<ldb, query, src, filters, iters, nexts, shardIdx, ret, pc, startDb>>
    PROVE  QueryInv'
<1>1. QueryOK' /\ LoopOK' /\ RunInv'
  BY DEF QueryInv, QueryOK, LoopOK, RunInv
<1>2. SnapInv' /\ CompleteInv' /\ DoneInv'
  BY DEF QueryInv, CompleteInv, DoneInv, SnapInv
<1> QED
  BY <1>1, <1>2 DEF QueryInv

\* The predicates are loaded.
LEMMA QueryLoads ==
    ASSUME QueryInv, LoadPredicates
    PROVE  QueryInv'
<1>1. /\ pc = "load" /\ pc' \in {"error", "open"}
      /\ UNCHANGED <<ldb, query, iters, nexts, shardIdx, ret, startDb>>
      /\ pc' = "open" => /\ Loads(query.preds) /\ src' = SourcePred(query.preds)
                         /\ filters' = FilterPreds(query.preds)
  BY DEF LoadPredicates, Loads, clientVars
<1>2. QueryOK'
  BY <1>1 DEF QueryInv, QueryOK, Started, Reading
<1>3. LoopOK'
  BY <1>1, NumShardsAssumption DEF QueryInv, LoopOK, Shards
<1>4. RunInv'
  BY <1>1 DEF QueryInv, RunInv, Reading
<1>5. SnapInv' /\ CompleteInv' /\ DoneInv'
  BY <1>1 DEF QueryInv, SnapInv, CompleteInv, DoneInv, Reading
<1> QED
  BY <1>2, <1>3, <1>4, <1>5 DEF QueryInv

\* An iterator is a snapshot of its shard.
LEMMA QueryOpens ==
    ASSUME StoreInv, QueryInv, OpenIterator
    PROVE  QueryInv'
<1>1. PICK z : z = shardIdx
  OBVIOUS
<1>2. PICK it : it = [keys |-> Keys(ldb[z]), data |-> ldb[z].data, at |-> Invalid]
  OBVIOUS
<1>3. /\ pc = "open" /\ z < NumShards /\ shardIdx' = z + 1 /\ pc' = pc
      /\ iters' = [iters EXCEPT ![z] = it]
      /\ UNCHANGED <<ldb, query, src, filters, nexts, ret, startDb>>
  BY <1>1, <1>2 DEF OpenIterator, clientVars
<1>4. z \in 0 .. NumShards /\ z \in Shards /\ NumShards \in Nat
      /\ \A s \in Shards : s < z => iters[s] # Nil
  BY <1>1, <1>3, NumShardsAssumption DEF QueryInv, LoopOK, Shards
<1>5. DOMAIN iters' = Shards /\ iters'[z] = it /\ \A s \in Shards \ {z} : iters'[s] = iters[s]
  BY <1>3, <1>4 DEF QueryInv, SnapInv
<1>6. PICK db : db = ldb[z] /\ IndexExact(z, db) /\ db.data \in [SpanIds -> Span \cup {Nil}]
  BY <1>4 DEF StoreInv
<1>7. it.keys = Keys(db) /\ it.data = db.data /\ it.at = Nil
  BY <1>2, <1>6 DEF Invalid
<1>8. it \in Iterator
  <2>1. Keys(db) \subseteq Key
    BY <1>6, KeysFacts
  <2> QED
    BY <1>2, <1>6, <2>1 DEF Iterator, Invalid
<1>9. it # Nil
  BY <1>8, NilQueryAssumption
<1>10. Snapshot(it, db, startDb[z])
  <2>1. IndexExact(z, startDb[z]) /\ \A id \in SpanIds : startDb[z].data[id] # Nil => db.data[id] = startDb[z].data[id]
    BY <1>4, <1>6 DEF StoreInv
  <2>2. Keys(startDb[z]) \subseteq Keys(db)
    BY <1>6, <2>1, KeysGrow
  <2>3. \A key \in Keys(db) : key.tag = "s" => db.data[key.fir] # Nil
    BY <1>6, KeysFacts
  <2> QED
    BY <1>7, <1>8, <2>2, <2>3 DEF Snapshot
<1>11. SnapInv'
  BY <1>3, <1>5, <1>6, <1>10 DEF QueryInv, SnapInv
<1>12. LoopOK'
  <2>1. z + 1 \in 0 .. NumShards /\ \A s \in Shards : s < z + 1 => s < z \/ s = z
    BY <1>3, <1>4 DEF Shards
  <2> QED
    BY <1>3, <1>4, <1>5, <1>9, <2>1 DEF LoopOK
<1>13. QueryOK'
  BY <1>3 DEF QueryInv, QueryOK, Started, Reading
<1>14. RunInv' /\ CompleteInv' /\ DoneInv'
  BY <1>3 DEF QueryInv, RunInv, CompleteInv, DoneInv, Reading
<1> QED
  BY <1>11, <1>12, <1>13, <1>14 DEF QueryInv

\* The key that createSource seeks.
LEMMA SearchKeyType ==
    ASSUME NEW p, IsSource(p), NEW prev \in Written \cup {Nil}
    PROVE  SearchKey(p, prev) \in Key
<1>1. /\ getIndexPrefix(p) \in {"b", "d", "e", "s"} /\ p.key \in UnsignedRange /\ p.op \in SourceOps
      /\ p.field = "spanid" => getIndexPrefix(p) = "s"
  BY DEF IsSource, NumericFields, getIndexPrefix
<1>2. \A v \in UnsignedRange : makeKey(getIndexPrefix(p), v) \in Key
  BY <1>1, UnsignedFacts DEF makeKey, Key
<1>3. CASE prev = Nil
  BY <1>1, <1>2, <1>3 DEF SearchKey
<1>4. CASE prev # Nil
  <2>1. PICK v \in UnsignedRange : v = extractRelevantSpanData(p, prev)
    BY <1>4, ExtractFacts DEF IsSource
  <2>2. PICK w \in UnsignedRange : w = prev.id
    BY <1>4, SpanNumbers
  <2>3. (w - 1) % (2 * HalfRange) \in UnsignedRange /\ (w + 1) % (2 * HalfRange) \in UnsignedRange
    BY Decrement
  <2>4. PICK u \in UnsignedRange : u = StartId(p, prev)
    BY <1>1, <2>2, <2>3, UnsignedFacts DEF StartId, SourceOps
  <2>5. makeSecondaryKey(getIndexPrefix(p), v, u) \in Key
    BY <1>1, UnsignedFacts DEF makeSecondaryKey, Key
  <2> QED
    BY <1>2, <1>4, <2>1, <2>4, <2>5 DEF SearchKey
<1> QED
  BY <1>3, <1>4

\* createSource moves every iterator to the key it seeks.
LEMMA SoughtIterators ==
    ASSUME NonzeroIds, StoreInv, QueryInv, SeekIterators
    PROVE  /\ pc = "open" /\ IsSource(src) /\ src = SourcePred(query.preds) /\ ret = <<>>
           /\ nexts = [s \in Shards |-> Nil] /\ query \in [preds: Preds, lim: Int, prev: Written \cup {Nil}]
           /\ src' = AdjustedPred(src, query.prev) /\ shardIdx' = 0 /\ DOMAIN iters' = Shards
           /\ pc' = IF query.lim <= 0 THEN "done" ELSE "populate"
           /\ UNCHANGED <<ldb, query, filters, nexts, numRead, ret, startDb, pages, writes>>
           /\ \A s \in Shards :
                 /\ iters[s] # Nil /\ Snapshot(iters[s], ldb[s], startDb[s])
                 /\ iters'[s] \in Iterator /\ iters'[s] # Nil
                 /\ iters'[s].keys = iters[s].keys /\ iters'[s].data = iters[s].data
                 /\ iters'[s].at = Seek(iters[s].keys, SearchKey(src, query.prev))
                 /\ iters'[s].at \in iters[s].keys \cup {Nil}
<1>1. /\ pc = "open" /\ shardIdx = NumShards /\ QueryOK /\ LoopOK /\ SnapInv /\ RunInv
  BY DEF SeekIterators, QueryInv
<1>2. IsSource(src) /\ src = SourcePred(query.preds) /\ ret = <<>> /\ nexts = [s \in Shards |-> Nil]
  BY <1>1, SourceOK DEF QueryOK, Reading
<1>3. query \in [preds: Preds, lim: Int, prev: Written \cup {Nil}]
  BY <1>1 DEF QueryOK
<1>4. PICK first \in Key : first = SearchKey(src, query.prev)
  BY <1>2, <1>3, SearchKeyType
<1>5. /\ src' = AdjustedPred(src, query.prev) /\ shardIdx' = 0
      /\ iters' = [s \in Shards |-> [iters[s] EXCEPT !.at = Seek(iters[s].keys, first)]]
      /\ pc' = IF query.lim <= 0 THEN "done" ELSE "populate"
      /\ UNCHANGED <<ldb, query, filters, nexts, numRead, ret, startDb, pages, writes>>
  BY <1>2, <1>4 DEF SeekIterators, IsSource, clientVars
<1>6. ASSUME NEW s \in Shards
      PROVE  /\ iters[s] # Nil /\ Snapshot(iters[s], ldb[s], startDb[s])
             /\ iters'[s] \in Iterator /\ iters'[s] # Nil
             /\ iters'[s].keys = iters[s].keys /\ iters'[s].data = iters[s].data
             /\ iters'[s].at = Seek(iters[s].keys, first)
             /\ iters'[s].at \in iters[s].keys \cup {Nil}
  <2>1. iters[s] # Nil
    BY <1>1, SpanFacts DEF LoopOK
  <2>2. PICK it : it = iters[s] /\ Snapshot(it, ldb[s], startDb[s])
    BY <1>1, <2>1 DEF SnapInv
  <2>3. it \in Iterator
    BY <2>2 DEF Snapshot
  <2>4. PICK keys \in SUBSET Key : keys = it.keys
    BY <2>3 DEF Iterator
  <2>5. PICK at : at = Seek(keys, first)
    OBVIOUS
  <2>6. at \in keys \cup {Nil}
    BY <2>5, SeekFacts
  <2>7. iters'[s] = [it EXCEPT !.at = at]
    BY <1>5, <2>2, <2>4, <2>5
  <2>8. /\ [it EXCEPT !.at = at].keys = it.keys /\ [it EXCEPT !.at = at].data = it.data
        /\ [it EXCEPT !.at = at].at = at
    BY <2>3 DEF Iterator
  <2>9. [it EXCEPT !.at = at] \in Iterator
    BY <2>3, <2>4, <2>6 DEF Iterator, Invalid
  <2> QED
    BY <2>1, <2>2, <2>4, <2>5, <2>6, <2>7, <2>8, <2>9, NilQueryAssumption
<1>7. DOMAIN iters' = Shards
  BY <1>5
<1> QED
  BY <1>1, <1>2, <1>3, <1>4, <1>5, <1>6, <1>7

\* Every iterator is moved to the first key that may satisfy the predicate.
LEMMA QuerySeeks ==
    ASSUME NonzeroIds, StoreInv, QueryInv, SeekIterators
    PROVE  QueryInv'
<1>1. QueryOK /\ RunInv
  BY DEF QueryInv
<1>2. /\ pc = "open" /\ IsSource(src) /\ src = SourcePred(query.preds) /\ ret = <<>>
      /\ nexts = [s \in Shards |-> Nil]
  BY SoughtIterators
<1>3. query \in [preds: Preds, lim: Int, prev: Written \cup {Nil}]
  BY SoughtIterators
<1>4. PICK first : first = SearchKey(src, query.prev)
  OBVIOUS
<1>5. /\ src' = AdjustedPred(src, query.prev) /\ shardIdx' = 0 /\ DOMAIN iters' = Shards
      /\ pc' = IF query.lim <= 0 THEN "done" ELSE "populate"
      /\ UNCHANGED <<ldb, query, filters, nexts, ret, startDb>>
  BY SoughtIterators
<1>6. \A s \in Shards : /\ iters[s] # Nil /\ Snapshot(iters[s], ldb[s], startDb[s])
                        /\ iters'[s] \in Iterator /\ iters'[s] # Nil
                        /\ iters'[s].keys = iters[s].keys /\ iters'[s].data = iters[s].data
                        /\ iters'[s].at = Seek(iters[s].keys, first)
                        /\ iters'[s].at \in iters[s].keys \cup {Nil}
  BY <1>4, SoughtIterators
<1>7. SnapInv'
  <2>1. ASSUME NEW s \in Shards PROVE Snapshot(iters'[s], ldb[s], startDb[s])
    BY <1>6 DEF Snapshot
  <2>2. DOMAIN iters' = Shards
    BY <1>5
  <2> QED
    BY <1>5, <2>1, <2>2 DEF SnapInv
<1>8. QueryOK'
  <2>1. pc' \in Reading /\ pc' \in Started
    BY <1>5 DEF Reading, Started
  <2>2. Loads(query.preds) /\ filters = FilterPreds(query.preds)
    BY <1>1, <1>2 DEF QueryOK, Started
  <2>3. query.prev # Nil => Matches(query.preds, query.prev)
    BY <1>1, <1>2 DEF QueryOK
  <2> QED
    BY <1>2, <1>3, <1>5, <2>1, <2>2, <2>3 DEF QueryOK, Reading
<1>9. LoopOK'
  BY <1>5, NumShardsAssumption DEF LoopOK, Shards
<1>10. \A s \in Shards : nexts[s] = Nil
  BY <1>2
<1>11. RunInv'
  <2>1. ret \in Seq(Written) /\ Len(ret) = 0 /\ Range(ret) = {} /\ DOMAIN nexts = Shards
    BY <1>2, RangeEmpty
  <2>2. \A p : Rows(p, filters, ret)
    BY <2>1 DEF Rows
  <2>3. \A p : \A s \in Shards : NextOK(p, s, nexts[s], Range(ret))
    BY <1>10 DEF NextOK
  <2>4. \A p : \A s \in Shards : AtOK(p, s, nexts[s], iters'[s].at, Range(ret))
    BY <1>10, <2>1 DEF AtOK
  <2>5. pc' \in {"populate", "choose"} => Len(ret) < query.lim
    BY <1>3, <1>5, <2>1
  <2>6. /\ Rows(src', filters', ret')
        /\ \A s \in Shards : NextOK(src', s, nexts'[s], Range(ret'))
        /\ \A s \in Shards : AtOK(src', s, nexts'[s], iters'[s].at, Range(ret'))
    BY <1>5, <2>2, <2>3, <2>4, Zenon
  <2>7. ret' \in Seq(Written) /\ Len(ret') = 0 /\ DOMAIN nexts' = Shards
    BY <1>5, <2>1
  <2>8. pc' \in {"populate", "choose"} => Len(ret') < query'.lim
    BY <1>5, <2>5
  <2> QED
    BY <2>6, <2>7, <2>8 DEF RunInv
<1>12. CompleteInv'
  <2> SUFFICES ASSUME query.prev = Nil, src'.op \in {"eq", "ge"}, NEW s \in Shards,
                      NEW x \in SpansOf(startDb[s]), satisfiedBy(src', x)
               PROVE  Reaches(src', iters'[s], x)
    BY <1>5 DEF CompleteInv, Covered
  <2>1. src' = src
    BY <1>5 DEF AdjustedPred
  <2>2. first = makeKey(getIndexPrefix(src), src.key)
    BY <1>4 DEF SearchKey
  <2>3. IndexExact(s, startDb[s]) /\ src.field \in NumericFields
    BY <1>2 DEF StoreInv, IsSource
  <2>4. x \in Written /\ KeyOf(src, x) \in Keys(startDb[s])
    BY <2>3, StoredKey
  <2>5. PICK it \in Iterator : it = iters'[s] /\ it.keys = iters[s].keys /\ it.at = Seek(it.keys, first)
    BY <1>6
  <2>6. KeyOf(src, x) \in it.keys
    BY <1>6, <2>4, <2>5 DEF Snapshot
  <2>7. PICK p : p = src
    OBVIOUS
  <2>8. Reaches(p, it, x)
    BY <1>2, <2>1, <2>2, <2>4, <2>5, <2>6, <2>7, SeekReaches
  <2> QED
    BY <2>1, <2>5, <2>7, <2>8
<1>13. DoneInv'
  <2>1. Len(ret) = 0
    BY <1>2
  <2> QED
    BY <1>3, <1>5, <2>1 DEF DoneInv
<1> QED
  BY <1>7, <1>8, <1>9, <1>11, <1>12, <1>13 DEF QueryInv

\* The loop of populateNextFromShard changes one shard only.
LEMMA ShardStep ==
    ASSUME QueryInv, pc = "populate", pc' \in {"populate", "choose"},
           UNCHANGED <<ldb, query, src, filters, ret, startDb>>,
           NEW z \in Shards, LoopOK',
           DOMAIN iters' = Shards, DOMAIN nexts' = Shards,
           \A s \in Shards \ {z} : iters'[s] = iters[s] /\ nexts'[s] = nexts[s],
           iters'[z] # Nil => /\ Snapshot(iters'[z], ldb[z], startDb[z])
                              /\ AtOK(src, z, nexts'[z], iters'[z].at, Range(ret)),
           NextOK(src, z, nexts'[z], Range(ret)),
           src.op \in {"eq", "ge"} =>
              \A x \in SpansOf(startDb[z]) :
                 /\ satisfiedBy(src, x)
                 /\ Covered(src, filters, Range(ret), nexts[z], iters[z], x)
                 => Covered(src, filters, Range(ret), nexts'[z], iters'[z], x)
    PROVE  QueryInv'
<1>1. QueryOK'
  BY DEF QueryInv, QueryOK, Started, Reading
<1>2. SnapInv'
  BY DEF QueryInv, SnapInv
<1>3. RunInv'
  <2>1. /\ \A s \in Shards : NextOK(src, s, nexts[s], Range(ret))
        /\ \A s \in Shards : iters[s] # Nil => AtOK(src, s, nexts[s], iters[s].at, Range(ret))
        /\ Rows(src, filters, ret) /\ ret \in Seq(Written)
        /\ Len(ret) < query.lim /\ (Len(ret) > 0 => Len(ret) <= query.lim)
    BY DEF QueryInv, RunInv, Reading
  <2>2. \A s \in Shards : NextOK(src, s, nexts'[s], Range(ret))
    BY <2>1
  <2>3. \A s \in Shards : iters'[s] # Nil => AtOK(src, s, nexts'[s], iters'[s].at, Range(ret))
    BY <2>1
  <2> QED
    BY <2>1, <2>2, <2>3 DEF RunInv
<1>4. CompleteInv'
  <2> SUFFICES ASSUME query.prev = Nil, query.lim > 0, src.op \in {"eq", "ge"}, NEW s \in Shards,
                      NEW x \in SpansOf(startDb[s]), satisfiedBy(src, x)
               PROVE  Covered(src, filters, Range(ret), nexts'[s], iters'[s], x)
    BY DEF CompleteInv
  <2>1. Covered(src, filters, Range(ret), nexts[s], iters[s], x)
    BY DEF QueryInv, CompleteInv, Reading
  <2> QED
    BY <2>1
<1>5. DoneInv'
  BY DEF DoneInv
<1> QED
  BY <1>1, <1>2, <1>3, <1>4, <1>5 DEF QueryInv

\* The loop over the shards goes on behind a shard that is populated.
LEMMA LoopAdvance ==
    ASSUME QueryInv, pc = "populate", AdvanceShard,
           \A s \in Shards \ {shardIdx} : iters'[s] = iters[s] /\ nexts'[s] = nexts[s],
           iters'[shardIdx] = Nil \/ nexts'[shardIdx] # Nil
    PROVE  LoopOK' /\ pc' \in {"populate", "choose"}
<1>1. PICK z \in Shards : z = shardIdx
  BY DEF QueryInv, LoopOK
<1>2. \A s \in Shards : s < z => iters[s] = Nil \/ nexts[s] # Nil
  BY <1>1 DEF QueryInv, LoopOK
<1>3. NumShards \in Nat /\ z \in Nat /\ z < NumShards
  BY NumShardsAssumption, SpanFacts
<1>4. \A s \in Shards : s < z + 1 => iters'[s] = Nil \/ nexts'[s] # Nil
  <2> SUFFICES ASSUME NEW s \in Shards, s < z + 1 PROVE iters'[s] = Nil \/ nexts'[s] # Nil
    OBVIOUS
  <2>1. s \in Nat
    BY SpanFacts
  <2>2. s < z \/ s = z
    BY <1>3, <2>1
  <2> QED
    BY <1>1, <1>2, <1>3, <2>1, <2>2
<1>5. CASE z + 1 = NumShards
  <2>1. shardIdx' = 0 /\ pc' = "choose"
    BY <1>1, <1>5 DEF AdvanceShard
  <2>2. \A s \in Shards : s < z + 1
    BY <1>5, SpanFacts
  <2> QED
    BY <1>4, <2>1, <2>2 DEF LoopOK
<1>6. CASE z + 1 # NumShards
  <2>1. shardIdx' = z + 1 /\ pc' = "populate"
    BY <1>1, <1>6 DEF AdvanceShard
  <2>2. z + 1 \in Shards
    BY <1>3, <1>6 DEF Shards
  <2> QED
    BY <1>4, <2>1, <2>2 DEF LoopOK
<1> QED
  BY <1>5, <1>6

\* A shard that needs no entry is left as it is.
LEMMA QuerySkips ==
    ASSUME QueryInv, AlreadyPopulated
    PROVE  QueryInv'
<1>1. /\ pc = "populate" /\ AdvanceShard /\ (iters[shardIdx] = Nil \/ nexts[shardIdx] # Nil)
      /\ UNCHANGED <<ldb, query, src, filters, iters, nexts, ret, startDb>>
  BY DEF AlreadyPopulated, clientVars
<1>2. LoopOK' /\ pc' \in {"populate", "choose"}
  BY <1>1, LoopAdvance
<1>3. PICK z \in Shards : z = shardIdx
  BY <1>1 DEF QueryInv, LoopOK
<1>4. /\ DOMAIN iters' = Shards /\ DOMAIN nexts' = Shards
      /\ iters'[z] = iters[z] /\ nexts'[z] = nexts[z]
      /\ iters[z] # Nil => /\ Snapshot(iters[z], ldb[z], startDb[z])
                           /\ AtOK(src, z, nexts[z], iters[z].at, Range(ret))
      /\ NextOK(src, z, nexts[z], Range(ret))
  BY <1>1 DEF QueryInv, RunInv, SnapInv, Reading
<1> QED
  BY <1>1, <1>2, <1>4, ShardStep

\* The iterator at the shard in turn, before an entry is read from it.
LEMMA ShardAtHand ==
    ASSUME NonzeroIds, StoreInv, QueryInv, pc = "populate", iters[shardIdx] # Nil, nexts[shardIdx] = Nil
    PROVE  \E z \in Shards : \E it \in Iterator :
              /\ z = shardIdx /\ it = iters[z] /\ it # Nil /\ Snapshot(it, ldb[z], startDb[z])
              /\ IsSource(src) /\ AtOK(src, z, Nil, it.at, Range(ret)) /\ Range(ret) \in SUBSET Written
              /\ \A x \in SpansOf(startDb[z]) : x \in Written /\ x # Nil
              /\ InSection(src, it.at) =>
                    LET x == Rehydrate(z, it.at) IN
                    x \in Written /\ x # Nil /\ getShardIndex(x.id) = z /\ KeyOf(src, x) = it.at
<1>1. PICK z \in Shards : z = shardIdx
  BY DEF QueryInv, LoopOK
<1>2. Snapshot(iters[z], ldb[z], startDb[z])
  BY <1>1 DEF QueryInv, SnapInv
<1>3. PICK it \in Iterator : it = iters[z]
  BY <1>2 DEF Snapshot
<1>4. IsSource(src)
  BY SourceOK DEF QueryInv, Reading
<1>5. AtOK(src, z, Nil, it.at, Range(ret))
  BY <1>1, <1>3 DEF QueryInv, RunInv, Reading
<1>6. Range(ret) \in SUBSET Written
  BY RangeType DEF QueryInv, RunInv
<1>7. \A x \in SpansOf(startDb[z]) : x \in Written /\ x # Nil
  <2>1. IndexExact(z, startDb[z])
    BY DEF StoreInv
  <2> QED
    BY <2>1 DEF SpansOf, IndexExact
<1>8. ASSUME InSection(src, it.at), NEW x, x = Rehydrate(z, it.at)
      PROVE  x \in Written /\ x # Nil /\ getShardIndex(x.id) = z /\ KeyOf(src, x) = it.at
  <2>1. it.at # Nil /\ it.at.tag = getIndexPrefix(src) /\ it.at \in iters[z].keys
    BY <1>2, <1>3, <1>8 DEF InSection, Snapshot
  <2>2. PICK p : p = src /\ p.field \in NumericFields
    BY <1>4 DEF IsSource
  <2>3. PICK key \in iters[z].keys : key = it.at
    BY <2>1
  <2>4. SnapInv /\ iters[z] # Nil /\ key.tag = getIndexPrefix(p) /\ x = Rehydrate(z, key)
    BY <1>1, <1>8, <2>1, <2>2, <2>3 DEF QueryInv
  <2>5. x \in Written /\ x # Nil /\ getShardIndex(x.id) = z /\ KeyOf(p, x) = key
    BY <2>2, <2>4, Rehydrated
  <2> QED
    BY <2>2, <2>3, <2>5
<1> QED
  BY <1>1, <1>2, <1>3, <1>4, <1>5, <1>6, <1>7, <1>8

\* A shard ends only when its iterator has left the section of the index: every
\* entry leads to a span.
LEMMA QueryEnds ==
    ASSUME NonzeroIds, StoreInv, QueryInv, EndOfShard
    PROVE  QueryInv'
<1>1. /\ pc = "populate" /\ iters[shardIdx] # Nil /\ nexts[shardIdx] = Nil /\ AdvanceShard
      /\ iters' = [iters EXCEPT ![shardIdx] = Nil]
      /\ UNCHANGED <<ldb, query, src, filters, nexts, ret, startDb>>
  BY DEF EndOfShard, clientVars
<1>2. PICK z \in Shards, it \in Iterator :
         /\ z = shardIdx /\ it = iters[z]
         /\ \A x \in SpansOf(startDb[z]) : x \in Written /\ x # Nil
         /\ InSection(src, it.at) => Rehydrate(z, it.at) # Nil
  BY <1>1, ShardAtHand
<1>3. ~ InSection(src, it.at)
  BY <1>2 DEF EndOfShard, InSection, Invalid
<1>4. /\ DOMAIN iters' = Shards /\ DOMAIN nexts' = Shards /\ iters'[z] = Nil /\ nexts'[z] = Nil
      /\ \A s \in Shards \ {z} : iters'[s] = iters[s] /\ nexts'[s] = nexts[s]
  BY <1>1, <1>2 DEF QueryInv, SnapInv, RunInv
<1>5. LoopOK' /\ pc' \in {"populate", "choose"}
  BY <1>1, <1>2, <1>4, LoopAdvance
<1>6. NextOK(src, z, nexts'[z], Range(ret))
  BY <1>4 DEF NextOK
<1>7. ASSUME NEW x \in SpansOf(startDb[z]),
             Covered(src, filters, Range(ret), nexts[z], iters[z], x)
      PROVE  Covered(src, filters, Range(ret), nexts'[z], iters'[z], x)
  BY <1>1, <1>2, <1>3, <1>7 DEF Covered, Reaches
<1> QED
  BY <1>1, <1>4, <1>5, <1>6, <1>7, ShardStep

\* populateNextFromShard reads the span behind an entry: it becomes the next one of
\* the shard, or it is skipped, or it ends the shard.
LEMMA EntryAtHand ==
    ASSUME NonzeroIds, StoreInv, QueryInv, ReadEntry
    PROVE  /\ pc = "populate" /\ IsSource(src) /\ Range(ret) \in SUBSET Written
           /\ UNCHANGED <<ldb, query, src, filters, ret, startDb, pages, writes>>
           /\ \E z \in Shards : \E it \in Iterator : \E span \in Written :
                 /\ z = shardIdx /\ it = iters[z] /\ it # Nil /\ nexts[z] = Nil
                 /\ Snapshot(it, ldb[z], startDb[z]) /\ AtOK(src, z, Nil, it.at, Range(ret))
                 /\ InSection(src, it.at) /\ it.at \in it.keys
                 /\ span = Rehydrate(z, it.at) /\ span # Nil
                 /\ getShardIndex(span.id) = z /\ KeyOf(src, span) = it.at
                 /\ numRead' = [numRead EXCEPT ![z] = numRead[z] + 1]
                 /\ LET moved == [it EXCEPT !.at = Moved(src, it.keys, it.at)]
                        skips == numRead[z] + 1 <= 1 /\ mayRequireOneSkip(src.op) IN
                    \/ /\ satisfiedBy(src, span)
                       /\ nexts' = [nexts EXCEPT ![z] = span] /\ iters' = [iters EXCEPT ![z] = moved]
                       /\ AdvanceShard
                    \/ /\ ~ satisfiedBy(src, span) /\ skips
                       /\ iters' = [iters EXCEPT ![z] = moved]
                       /\ UNCHANGED <<nexts, shardIdx, pc>>
                    \/ /\ ~ satisfiedBy(src, span) /\ ~ skips
                       /\ iters' = [iters EXCEPT ![z] = Nil]
                       /\ AdvanceShard /\ UNCHANGED nexts
<1>1. /\ pc = "populate" /\ iters[shardIdx] # Nil /\ nexts[shardIdx] = Nil
      /\ iters[shardIdx].at # Nil /\ iters[shardIdx].at.tag = getIndexPrefix(src)
      /\ UNCHANGED <<ldb, query, src, filters, ret, startDb, pages, writes>>
  BY DEF ReadEntry, clientVars, Invalid
<1>2. PICK z \in Shards, it \in Iterator :
         /\ z = shardIdx /\ it = iters[z] /\ it # Nil /\ Snapshot(it, ldb[z], startDb[z])
         /\ IsSource(src) /\ AtOK(src, z, Nil, it.at, Range(ret)) /\ Range(ret) \in SUBSET Written
         /\ InSection(src, it.at) =>
               LET x == Rehydrate(z, it.at) IN
               x \in Written /\ x # Nil /\ getShardIndex(x.id) = z /\ KeyOf(src, x) = it.at
  BY <1>1, ShardAtHand
<1>3. InSection(src, it.at) /\ it.at \in it.keys
  BY <1>1, <1>2 DEF InSection, Snapshot
<1>4. PICK span \in Written : /\ span = Rehydrate(z, it.at) /\ span # Nil
                              /\ getShardIndex(span.id) = z /\ KeyOf(src, span) = it.at
  BY <1>2, <1>3
<1>5. PICK to : to = Moved(src, it.keys, it.at)
  OBVIOUS
<1>6. PICK moved : moved = [it EXCEPT !.at = to]
  OBVIOUS
<1>7. /\ numRead' = [numRead EXCEPT ![z] = numRead[z] + 1]
      /\ \/ /\ satisfiedBy(src, span)
            /\ nexts' = [nexts EXCEPT ![z] = span] /\ iters' = [iters EXCEPT ![z] = moved]
            /\ AdvanceShard
         \/ /\ ~ satisfiedBy(src, span) /\ numRead[z] + 1 <= 1 /\ mayRequireOneSkip(src.op)
            /\ iters' = [iters EXCEPT ![z] = moved]
            /\ UNCHANGED <<nexts, shardIdx, pc>>
         \/ /\ ~ satisfiedBy(src, span) /\ ~ (numRead[z] + 1 <= 1 /\ mayRequireOneSkip(src.op))
            /\ iters' = [iters EXCEPT ![z] = Nil]
            /\ AdvanceShard /\ UNCHANGED nexts
  <2>1. src.op \in SourceOps
    BY <1>2 DEF IsSource
  <2> QED
    BY <1>2, <1>4, <1>5, <1>6, <2>1 DEF ReadEntry, Moved
<1>8. nexts[z] = Nil
  BY <1>1, <1>2
<1> QED
  BY <1>1, <1>2, <1>3, <1>4, <1>5, <1>6, <1>7, <1>8, Zenon

\* One entry is read.
LEMMA QueryReads ==
    ASSUME UniqueIds, NonzeroIds, StoreInv, QueryInv, ReadEntry
    PROVE  QueryInv'
<1>1. pc = "populate" /\ UNCHANGED <<ldb, query, src, filters, ret, startDb>>
  BY EntryAtHand
<1>2. PICK z \in Shards, it \in Iterator, span \in Written :
         /\ z = shardIdx /\ it = iters[z] /\ it # Nil /\ nexts[z] = Nil
         /\ Snapshot(it, ldb[z], startDb[z])
         /\ IsSource(src) /\ AtOK(src, z, Nil, it.at, Range(ret)) /\ Range(ret) \in SUBSET Written
         /\ InSection(src, it.at) /\ it.at \in it.keys
         /\ span # Nil /\ getShardIndex(span.id) = z /\ KeyOf(src, span) = it.at
         /\ LET moved == [it EXCEPT !.at = Moved(src, it.keys, it.at)] IN
            \/ /\ satisfiedBy(src, span)
               /\ nexts' = [nexts EXCEPT ![z] = span] /\ iters' = [iters EXCEPT ![z] = moved]
               /\ AdvanceShard
            \/ /\ ~ satisfiedBy(src, span) /\ mayRequireOneSkip(src.op)
               /\ iters' = [iters EXCEPT ![z] = moved]
               /\ UNCHANGED <<nexts, shardIdx, pc>>
            \/ /\ ~ satisfiedBy(src, span)
               /\ iters' = [iters EXCEPT ![z] = Nil]
               /\ AdvanceShard /\ UNCHANGED nexts
  BY EntryAtHand
<1>3. InSection(src, it.at)
  BY <1>2
<1>4. \A x \in SpansOf(startDb[z]) : x \in Written /\ x # Nil
  <2>1. IndexExact(z, startDb[z])
    BY DEF StoreInv
  <2> QED
    BY <2>1 DEF SpansOf, IndexExact
<1>5. PICK to : to = Moved(src, it.keys, it.at)
  OBVIOUS
<1>6. PICK moved : moved = [it EXCEPT !.at = to]
  OBVIOUS
<1>7. \/ /\ satisfiedBy(src, span)
         /\ nexts' = [nexts EXCEPT ![z] = span] /\ iters' = [iters EXCEPT ![z] = moved]
         /\ AdvanceShard
      \/ /\ ~ satisfiedBy(src, span) /\ mayRequireOneSkip(src.op)
         /\ iters' = [iters EXCEPT ![z] = moved]
         /\ UNCHANGED <<nexts, shardIdx, pc>>
      \/ /\ ~ satisfiedBy(src, span)
         /\ iters' = [iters EXCEPT ![z] = Nil]
         /\ AdvanceShard /\ UNCHANGED nexts
  BY <1>2, <1>5, <1>6, Zenon
<1>8. PICK at \in Key : at = it.at /\ at \in it.keys
  BY <1>2 DEF Iterator
<1>9. PICK keys \in SUBSET Key : keys = it.keys
  BY DEF Iterator
<1>10. to \in keys \cup {Nil} /\ (to = Nil \/ Ahead(src, at, to))
  <2>1. PICK p : p = src
    OBVIOUS
  <2>2. to = Moved(p, keys, at) /\ at \in keys
    BY <1>5, <1>8, <1>9, <2>1
  <2>3. to = Nil \/ (to \in keys /\ Ahead(p, at, to))
    BY <2>2, MoveFacts
  <2> QED
    BY <2>1, <2>3
<1>11. /\ moved.at = to /\ moved.keys = it.keys /\ moved.data = it.data
       /\ moved \in Iterator /\ moved # Nil
  <2>1. moved.at = to /\ moved.keys = it.keys /\ moved.data = it.data
    BY <1>6 DEF Iterator
  <2>2. moved \in Iterator
    BY <1>6, <1>9, <1>10 DEF Iterator, Invalid
  <2> QED
    BY <2>1, <2>2, NilQueryAssumption
<1>12. Snapshot(moved, ldb[z], startDb[z])
  BY <1>2, <1>9, <1>10, <1>11 DEF Snapshot
<1>13. ASSUME NEW n \in {Nil, span} PROVE AtOK(src, z, n, to, Range(ret))
  <2>1. PICK p : p = src
    OBVIOUS
  <2>2. PICK R \in SUBSET Written : R = Range(ret)
    BY <1>2
  <2>3. /\ IsSource(p) /\ InSection(p, at) /\ AtOK(p, z, Nil, at, R) /\ KeyOf(p, span) = at
        /\ to \in Key \cup {Nil} /\ (to = Nil \/ Ahead(p, at, to))
    BY <1>2, <1>3, <1>4, <1>8, <1>9, <1>10, <2>1, <2>2
  <2>4. AtOK(p, z, n, to, R)
    BY <2>3, AtMoves
  <2> QED
    BY <2>1, <2>2, <2>4
<1>14. DOMAIN iters = Shards /\ DOMAIN nexts = Shards
  BY DEF QueryInv, SnapInv, RunInv
<1>15. CASE /\ satisfiedBy(src, span)
            /\ nexts' = [nexts EXCEPT ![z] = span] /\ iters' = [iters EXCEPT ![z] = moved]
            /\ AdvanceShard
  <2>1. /\ DOMAIN iters' = Shards /\ DOMAIN nexts' = Shards /\ iters'[z] = moved /\ nexts'[z] = span
        /\ \A s \in Shards \ {z} : iters'[s] = iters[s] /\ nexts'[s] = nexts[s]
    BY <1>14, <1>15
  <2>2. LoopOK' /\ pc' \in {"populate", "choose"}
    BY <1>1, <1>2, <1>4, <1>15, <2>1, LoopAdvance
  <2>3. NextOK(src, z, span, Range(ret))
    BY <1>2, <1>3, <1>4, <1>8, <1>15, NextFromAt
  <2>4. ASSUME src.op \in {"eq", "ge"}, NEW x \in SpansOf(startDb[z]),
               Covered(src, filters, Range(ret), nexts[z], iters[z], x)
        PROVE  Covered(src, filters, Range(ret), span, moved, x)
    <3>1. x \in Written /\ x # Nil
      BY <1>4
    <3>2. CASE Reaches(src, it, x)
      <4>1. CASE KeyOf(src, x) = it.at
        <5>1. x.id = span.id
          BY <1>2, <1>4, <3>1, <4>1, KeyOfFacts DEF IsSource
        <5> QED
          BY <3>1, <5>1 DEF UniqueIds, Covered
      <4>2. CASE KeyOf(src, x) # it.at
        <5>1. ~ IsDescending(src.op) /\ it.at \in it.keys
          BY <1>8, <2>4 DEF IsDescending
        <5>2. Reaches(src, moved, x)
          BY <1>2, <1>5, <1>6, <3>1, <3>2, <4>2, <5>1, ReachesOn
        <5> QED
          BY <5>2 DEF Covered
      <4> QED
        BY <4>1, <4>2
    <3> QED
      BY <1>1, <1>2, <2>4, <3>1, <3>2 DEF Covered
  <2>5. AtOK(src, z, nexts'[z], iters'[z].at, Range(ret))
    BY <1>11, <1>13, <2>1
  <2> QED
    BY <1>1, <1>12, <2>1, <2>2, <2>3, <2>4, <2>5, ShardStep
<1>16. CASE /\ ~ satisfiedBy(src, span) /\ mayRequireOneSkip(src.op)
            /\ iters' = [iters EXCEPT ![z] = moved]
            /\ UNCHANGED <<nexts, shardIdx, pc>>
  <2>1. /\ DOMAIN iters' = Shards /\ DOMAIN nexts' = Shards /\ iters'[z] = moved /\ nexts'[z] = Nil
        /\ \A s \in Shards \ {z} : iters'[s] = iters[s] /\ nexts'[s] = nexts[s]
    BY <1>1, <1>2, <1>14, <1>16
  <2>2. LoopOK' /\ pc' \in {"populate", "choose"}
    <3>1. \A s \in Shards : s < z => s # z
      BY SpanFacts
    <3>2. pc = "populate" /\ pc' = "populate" /\ shardIdx' = z
      BY <1>1, <1>2, <1>16
    <3>3. \A s \in Shards : s < z => iters[s] = Nil \/ nexts[s] # Nil
      BY <1>2, <3>2 DEF QueryInv, LoopOK
    <3> QED
      BY <2>1, <3>1, <3>2, <3>3 DEF LoopOK
  <2>3. NextOK(src, z, nexts'[z], Range(ret))
    BY <2>1 DEF NextOK
  <2>4. src.op \notin {"eq", "ge"}
    BY <1>16 DEF mayRequireOneSkip
  <2>5. AtOK(src, z, nexts'[z], iters'[z].at, Range(ret))
    BY <1>11, <1>13, <2>1
  <2> QED
    BY <1>1, <1>12, <2>1, <2>2, <2>3, <2>4, <2>5, ShardStep
<1>17. CASE /\ ~ satisfiedBy(src, span)
            /\ iters' = [iters EXCEPT ![z] = Nil]
            /\ AdvanceShard /\ UNCHANGED nexts
  <2>1. /\ DOMAIN iters' = Shards /\ DOMAIN nexts' = Shards /\ iters'[z] = Nil /\ nexts'[z] = Nil
        /\ \A s \in Shards \ {z} : iters'[s] = iters[s] /\ nexts'[s] = nexts[s]
    BY <1>1, <1>2, <1>14, <1>17
  <2>2. LoopOK' /\ pc' \in {"populate", "choose"}
    BY <1>1, <1>2, <1>17, <2>1, LoopAdvance
  <2>3. NextOK(src, z, nexts'[z], Range(ret))
    BY <2>1 DEF NextOK
  <2>4. ASSUME src.op \in {"eq", "ge"}, NEW x \in SpansOf(startDb[z]), satisfiedBy(src, x),
               Covered(src, filters, Range(ret), nexts[z], iters[z], x)
        PROVE  Covered(src, filters, Range(ret), nexts'[z], iters'[z], x)
    <3>1. x \in Written /\ x # Nil
      BY <1>4
    <3>2. ~ Reaches(src, it, x)
      BY <1>2, <1>4, <1>17, <2>4, <3>1, ReachesSatisfied
    <3> QED
      BY <1>1, <1>2, <2>4, <3>1, <3>2 DEF Covered
  <2> QED
    BY <1>1, <2>1, <2>2, <2>3, <2>4, ShardStep
<1> QED
  BY <1>7, <1>15, <1>16, <1>17

\* The entries that the shards offer, and the best of them.
LEMMA BestFacts ==
    ASSUME NonzeroIds, QueryInv, pc = "choose"
    PROVE  /\ BestShards = {} => \A s \in Shards : nexts[s] = Nil
           /\ BestShards # {} => /\ Min(BestShards) \in Shards /\ nexts[Min(BestShards)] # Nil
                                 /\ \A t \in Shards : nexts[t] # Nil =>
                                       ~ Before(src, extractRelevantSpanData(src, nexts[t]),
                                                extractRelevantSpanData(src, nexts[Min(BestShards)]))
<1>1. IsSource(src)
  BY SourceOK DEF QueryInv, Reading
<1>2. \A s \in Shards : nexts[s] # Nil =>
         nexts[s] \in Written /\ extractRelevantSpanData(src, nexts[s]) \in UnsignedRange
  BY <1>1, ExtractFacts DEF QueryInv, RunInv, NextOK, Reading, IsSource
<1>3. \A s \in Shards : s \in BestShards <=>
         /\ nexts[s] # Nil
         /\ \A t \in Shards : nexts[t] # Nil =>
               ~ Before(src, extractRelevantSpanData(src, nexts[t]), extractRelevantSpanData(src, nexts[s]))
  BY DEF BestShards, spanPtrIsBefore, Before
<1>4. ASSUME NEW o \in Shards, nexts[o] # Nil PROVE BestShards # {}
  <2>1. PICK V : V = {extractRelevantSpanData(src, nexts[s]) : s \in {t \in Shards : nexts[t] # Nil}}
    OBVIOUS
  <2>2. PICK hi \in Int : hi = 2 * HalfRange - 1
    BY HalfRangeAssumption
  <2>3. 0 \in Int /\ V \in SUBSET (0 .. hi) /\ V # {}
    BY <1>2, <1>4, <2>1, <2>2 DEF UnsignedRange
  <2>4. /\ \E m \in V : \A v \in V : m <= v
        /\ \E m \in V : \A v \in V : v <= m
    BY <2>3, BoundedExtremes
  <2>5. \A v \in V : v \in Int
    BY <2>3
  <2>6. PICK m \in V : \A v \in V : ~ Before(src, v, m)
    BY <2>4, <2>5 DEF Before
  <2>7. PICK s \in Shards : nexts[s] # Nil /\ m = extractRelevantSpanData(src, nexts[s])
    BY <2>1
  <2>8. \A t \in Shards : nexts[t] # Nil => extractRelevantSpanData(src, nexts[t]) \in V
    BY <2>1
  <2> QED
    BY <1>3, <2>6, <2>7, <2>8
<1>5. ASSUME BestShards # {} PROVE Min(BestShards) \in BestShards
  <2>1. PICK B : B = BestShards
    OBVIOUS
  <2>2. PICK hi \in Int : hi = NumShards - 1
    BY NumShardsAssumption
  <2>3. 0 \in Int /\ B \in SUBSET (0 .. hi) /\ B # {}
    BY <1>5, <2>1, <2>2 DEF BestShards, Shards
  <2>4. \E m \in B : \A v \in B : m <= v
    BY <2>3, BoundedExtremes
  <2>5. Min(B) \in B
    BY <2>4, Zenon DEF Min
  <2> QED
    BY <2>1, <2>5
<1>6. BestShards \subseteq Shards
  BY DEF BestShards
<1> QED
  BY <1>3, <1>4, <1>5, <1>6

\* The page grows by a row that comes after all others.
LEMMA RowsGrow ==
    ASSUME NEW p, NEW fs, NEW q \in Seq(Written), Rows(p, fs, q), NEW s, NEW x \in Written,
           NextOK(p, s, x, Range(q)), x # Nil, \A f \in fs : satisfiedBy(f, x)
    PROVE  Rows(p, fs, Append(q, x))
<1>1. PICK r \in Seq(Written) : /\ r = Append(q, x) /\ Len(r) = Len(q) + 1 /\ r[Len(q) + 1] = x
                                /\ \A i \in 1 .. Len(q) : r[i] = q[i]
  <2>1. Append(q, x) \in Seq(Written) /\ Len(Append(q, x)) = Len(q) + 1
    OBVIOUS
  <2>2. Append(q, x)[Len(q) + 1] = x /\ \A i \in 1 .. Len(q) : Append(q, x)[i] = q[i]
    OBVIOUS
  <2> QED
    BY <2>1, <2>2, Zenon
<1>2. Len(q) \in Nat /\ \A i \in 1 .. Len(q) : q[i] \in Range(q)
  BY RangeEquality
<1>3. satisfiedBy(p, x)
  BY DEF NextOK
<1>4. \A i \in 1 .. Len(r) : i \in 1 .. Len(q) \/ i = Len(q) + 1
  BY <1>1, <1>2
<1>5. \A i \in 1 .. Len(r) : satisfiedBy(p, r[i]) /\ \A f \in fs : satisfiedBy(f, r[i])
  BY <1>1, <1>3, <1>4 DEF Rows
<1>6. ASSUME NEW i \in 1 .. Len(r), NEW j \in 1 .. Len(r), i < j
      PROVE  /\ r[i].id # r[j].id
             /\ ~ Before(p, extractRelevantSpanData(p, r[j]), extractRelevantSpanData(p, r[i]))
  <2>1. i \in 1 .. Len(q)
    BY <1>1, <1>2, <1>6
  <2>2. CASE j = Len(q) + 1
    <3>1. r[i] \in Range(q) /\ r[j] = x
      BY <1>1, <1>2, <2>1, <2>2
    <3> QED
      BY <3>1 DEF NextOK
  <2>3. CASE j \in 1 .. Len(q)
    <3>1. r[i] = q[i] /\ r[j] = q[j]
      BY <1>1, <2>1, <2>3
    <3> QED
      BY <1>6, <2>1, <2>3, <3>1 DEF Rows
  <2> QED
    BY <1>4, <2>2, <2>3
<1>7. Rows(p, fs, r)
  BY <1>5, <1>6 DEF Rows
<1> QED
  BY <1>1, <1>7

\* The other shards stay behind the row that was chosen.
LEMMA BehindRow ==
    ASSUME UniqueIds, NEW p, IsSource(p), NEW R \in SUBSET Written, NEW b \in Shards, NEW x \in Written,
           NextOK(p, b, x, R), x # Nil,
           NEW s \in Shards, NEW n, NextOK(p, s, n, R), n # Nil,
           ~ Before(p, extractRelevantSpanData(p, n), extractRelevantSpanData(p, x))
    PROVE  /\ s # b => NextOK(p, s, n, R \cup {x})
           /\ \A at \in Key : AtOK(p, s, n, at, R) =>
                 /\ s # b => AtOK(p, s, n, at, R \cup {x})
                 /\ n = x /\ s = b => AtOK(p, s, Nil, at, R \cup {x})
<1>1. n \in Written /\ getShardIndex(n.id) = s /\ getShardIndex(x.id) = b
  BY DEF NextOK
<1>2. s # b => NextOK(p, s, n, R \cup {x})
  BY <1>1 DEF NextOK
<1>3. ASSUME NEW at \in Key, AtOK(p, s, n, at, R), InSection(p, at)
      PROVE  ~ Before(p, at.fir, extractRelevantSpanData(p, x))
  <2>1. Ahead(p, KeyOf(p, n), at)
    BY <1>3 DEF AtOK
  <2>2. KeyOf(p, n) \in Key /\ KeyOf(p, n).tag = at.tag /\ KeyOf(p, n).fir = extractRelevantSpanData(p, n)
    BY <1>1, <1>3, KeyOfFacts DEF IsSource, InSection
  <2>3. ~ Before(p, at.fir, extractRelevantSpanData(p, n))
    <3>1. PICK k \in Key : k = KeyOf(p, n)
      BY <2>2
    <3>2. Ahead(p, k, at) /\ k.tag = at.tag
      BY <2>1, <2>2, <3>1
    <3>3. ~ Before(p, at.fir, k.fir)
      BY <3>2, Direction
    <3> QED
      BY <2>2, <3>1, <3>3
  <2>4. PICK u \in Int : u = extractRelevantSpanData(p, n)
    BY <1>1, ExtractFacts, UnsignedFacts DEF IsSource
  <2>5. PICK v \in Int : v = extractRelevantSpanData(p, x)
    BY ExtractFacts, UnsignedFacts DEF IsSource
  <2>6. at.fir \in Int
    BY HalfRangeAssumption DEF Key, NoId
  <2> QED
    BY <2>3, <2>4, <2>5, <2>6, BeforeOrder
<1>4. ASSUME NEW at \in Key, AtOK(p, s, n, at, R)
      PROVE  /\ s # b => AtOK(p, s, n, at, R \cup {x})
             /\ n = x /\ s = b => AtOK(p, s, Nil, at, R \cup {x})
  <2>1. CASE InSection(p, at)
    <3>1. ~ Before(p, at.fir, extractRelevantSpanData(p, x))
      BY <1>3, <1>4, <2>1
    <3>2. /\ \A r \in R : /\ ~ Before(p, at.fir, extractRelevantSpanData(p, r))
                          /\ getShardIndex(r.id) = s => Ahead(p, KeyOf(p, r), at)
          /\ Ahead(p, KeyOf(p, n), at)
      BY <1>4, <2>1 DEF AtOK
    <3> QED
      BY <1>1, <3>1, <3>2 DEF AtOK
  <2>2. CASE ~ InSection(p, at)
    BY <2>2 DEF AtOK
  <2> QED
    BY <2>1, <2>2
<1> QED
  BY <1>2, <1>4

\* The best entry becomes a row of the page, unless a filter refuses it.
LEMMA QueryChooses ==
    ASSUME UniqueIds, NonzeroIds, StoreInv, QueryInv, ChooseBest
    PROVE  QueryInv'
<1>1. /\ pc = "choose" /\ QueryOK /\ LoopOK /\ SnapInv /\ RunInv /\ CompleteInv
      /\ UNCHANGED <<ldb, query, src, filters, iters, shardIdx, startDb>>
  BY DEF ChooseBest, QueryInv, clientVars
<1>2. /\ shardIdx = 0 /\ \A s \in Shards : iters[s] = Nil \/ nexts[s] # Nil
  BY <1>1 DEF LoopOK
<1>3. SnapInv'
  BY <1>1 DEF SnapInv
<1>4. CASE BestShards = {}
  <2>1. pc' = "done" /\ UNCHANGED <<nexts, ret>>
    BY <1>4 DEF ChooseBest
  <2>2. \A s \in Shards : nexts[s] = Nil /\ iters[s] = Nil
    BY <1>1, <1>2, <1>4, BestFacts
  <2>3. QueryOK'
    BY <1>1, <2>1 DEF QueryOK, Started, Reading
  <2>4. LoopOK' /\ DoneInv'
    BY <1>1, <2>1, <2>2 DEF LoopOK, DoneInv
  <2>5. RunInv'
    BY <1>1, <2>1 DEF RunInv, Reading
  <2>6. CompleteInv'
    BY <1>1, <2>1 DEF CompleteInv, Reading
  <2> QED
    BY <1>3, <2>3, <2>4, <2>5, <2>6 DEF QueryInv
<1>5. CASE BestShards # {}
  <2>1. PICK b \in Shards : /\ b = Min(BestShards) /\ nexts[b] # Nil
                            /\ \A t \in Shards : nexts[t] # Nil =>
                                  ~ Before(src, extractRelevantSpanData(src, nexts[t]),
                                           extractRelevantSpanData(src, nexts[b]))
    BY <1>1, <1>5, BestFacts
  <2>2. PICK q \in Seq(Written) : q = ret
    BY <1>1 DEF RunInv
  <2>3. PICK R \in SUBSET Written : R = Range(q) /\ R = Range(ret)
    BY <2>2, RangeType
  <2>4. PICK p : p = src /\ IsSource(p)
    BY <1>1, SourceOK DEF Reading
  <2>5. /\ Rows(p, filters, q)
        /\ \A s \in Shards : NextOK(p, s, nexts[s], R)
        /\ \A s \in Shards : iters[s] # Nil => AtOK(p, s, nexts[s], iters[s].at, R)
        /\ Len(q) < query.lim
    BY <1>1, <2>2, <2>3, <2>4 DEF RunInv, Reading
  <2>6. PICK span \in Written : span = nexts[b] /\ span # Nil /\ NextOK(p, b, span, R)
    BY <2>1, <2>5 DEF NextOK
  <2>7. /\ nexts' = [nexts EXCEPT ![b] = Nil]
        /\ ret' = (IF \A f \in filters : satisfiedBy(f, span) THEN Append(q, span) ELSE q)
        /\ pc' = IF Len(ret') >= query.lim THEN "done" ELSE "populate"
    BY <1>5, <2>1, <2>2, <2>6 DEF ChooseBest
  <2>8. /\ DOMAIN nexts' = Shards /\ nexts'[b] = Nil
        /\ \A s \in Shards \ {b} : nexts'[s] = nexts[s]
    BY <1>1, <2>7 DEF RunInv
  <2>9. PICK new \in Seq(Written) : new = ret'
    <3>1. Append(q, span) \in Seq(Written)
      BY <2>2, <2>6
    <3>2. ret' = q \/ ret' = Append(q, span)
      BY <2>7
    <3> QED BY <2>2, <3>1, <3>2
  <2>10. /\ Len(q) \in Nat /\ Len(new) \in Nat /\ query.lim \in Int
         /\ Len(new) \in {Len(q), Len(q) + 1}
    BY <1>1, <2>7, <2>9 DEF QueryOK
  <2>11. ASSUME NEW s \in Shards, iters[s] # Nil PROVE iters[s].at \in Key \cup {Nil}
    BY <1>1, <2>11 DEF SnapInv, Snapshot, Iterator
  <2>12. \A s \in Shards : NextOK(p, s, nexts'[s], R)
    BY <2>5, <2>8 DEF NextOK
  <2>13. \A s \in Shards : iters[s] # Nil => AtOK(p, s, nexts'[s], iters[s].at, R)
    BY <2>5, <2>8 DEF AtOK
  <2>14. /\ Rows(p, filters, new)
         /\ \A s \in Shards : NextOK(p, s, nexts'[s], Range(new))
         /\ \A s \in Shards : iters[s] # Nil => AtOK(p, s, nexts'[s], iters[s].at, Range(new))
         /\ R \subseteq Range(new)
         /\ span \in Range(new) \/ \E f \in filters : ~ satisfiedBy(f, span)
    <3>1. CASE \A f \in filters : satisfiedBy(f, span)
      <4>1. new = Append(q, span)
        BY <2>7, <2>9, <3>1
      <4>2. Range(new) = R \cup {span}
        <5>1. Range(Append(q, span)) = Range(q) \cup {span}
          BY RangeAppend
        <5> QED
          BY <2>3, <4>1, <5>1, Zenon
      <4>3. Rows(p, filters, new)
        BY <2>3, <2>5, <2>6, <3>1, <4>1, RowsGrow
      <4>4. ASSUME NEW s \in Shards, nexts[s] # Nil
            PROVE  /\ s # b => NextOK(p, s, nexts[s], R \cup {span})
                   /\ \A at \in Key : AtOK(p, s, nexts[s], at, R) =>
                         /\ s # b => AtOK(p, s, nexts[s], at, R \cup {span})
                         /\ s = b => AtOK(p, s, Nil, at, R \cup {span})
        <5>1. PICK n : n = nexts[s] /\ NextOK(p, s, n, R) /\ n # Nil
          BY <2>5, <4>4
        <5>2. ~ Before(p, extractRelevantSpanData(p, n), extractRelevantSpanData(p, span))
          BY <2>1, <2>4, <2>6, <5>1
        <5>3. s = b => n = span
          BY <2>6, <5>1
        <5>4. /\ s # b => NextOK(p, s, n, R \cup {span})
              /\ \A at \in Key : AtOK(p, s, n, at, R) =>
                    /\ s # b => AtOK(p, s, n, at, R \cup {span})
                    /\ n = span /\ s = b => AtOK(p, s, Nil, at, R \cup {span})
          BY <2>4, <2>6, <5>1, <5>2, BehindRow
        <5> QED
          BY <5>1, <5>3, <5>4
      <4>5. ASSUME NEW s \in Shards PROVE NextOK(p, s, nexts'[s], R \cup {span})
        <5>1. CASE nexts'[s] = Nil
          BY <5>1 DEF NextOK
        <5>2. CASE nexts'[s] # Nil
          BY <2>8, <4>4, <5>2
        <5> QED
          BY <5>1, <5>2
      <4>6. ASSUME NEW s \in Shards, iters[s] # Nil
            PROVE  AtOK(p, s, nexts'[s], iters[s].at, R \cup {span})
        <5>1. nexts[s] # Nil
          BY <1>2, <4>6
        <5>2. CASE iters[s].at = Nil
          BY <5>2 DEF AtOK, InSection
        <5>3. CASE iters[s].at \in Key
          BY <2>5, <2>8, <4>4, <4>6, <5>1, <5>3
        <5> QED
          BY <2>11, <4>6, <5>2, <5>3
      <4> QED
        BY <4>2, <4>3, <4>5, <4>6
    <3>2. CASE ~ \A f \in filters : satisfiedBy(f, span)
      <4>1. new = q
        BY <2>7, <2>9, <3>2
      <4> QED
        BY <2>3, <2>5, <2>12, <2>13, <3>2, <4>1
    <3> QED
      BY <3>1, <3>2
  <2>15. pc' \in {"done", "populate"} /\ (pc' = "populate" <=> Len(new) < query.lim)
    BY <2>7, <2>9, <2>10
  <2>16. RunInv'
    <3>1. Len(new) > 0 => Len(new) <= query.lim
      BY <2>5, <2>10
    <3> QED
      BY <1>1, <2>4, <2>8, <2>9, <2>14, <2>15, <3>1 DEF RunInv
  <2>17. QueryOK'
    <3>1. pc' \in Reading /\ pc' \in Started /\ pc' \notin {"idle", "open", "load"}
      BY <2>15 DEF Reading, Started
    <3>2. pc \in Reading /\ pc \in Started /\ pc # "idle"
      BY <1>1 DEF Reading, Started
    <3> QED
      BY <1>1, <3>1, <3>2 DEF QueryOK
  <2>18. LoopOK'
    <3>1. 0 \in Shards /\ \A s \in Shards : ~ (s < 0)
      BY NumShardsAssumption, SpanFacts DEF Shards
    <3> QED
      BY <1>1, <1>2, <2>15, <3>1 DEF LoopOK
  <2>19. DoneInv'
    BY <1>1, <2>9, <2>10, <2>15 DEF DoneInv
  <2>20. CompleteInv'
    <3> SUFFICES ASSUME query.prev = Nil, query.lim > 0, src.op \in {"eq", "ge"}, NEW s \in Shards,
                        NEW x \in SpansOf(startDb[s]), satisfiedBy(src, x)
                 PROVE  Covered(src, filters, Range(ret'), nexts'[s], iters[s], x)
      BY <1>1 DEF CompleteInv
    <3>1. Covered(src, filters, Range(ret), nexts[s], iters[s], x)
      BY <1>1 DEF CompleteInv, Reading
    <3>2. CASE nexts[s] = x /\ s = b
      <4>1. x = span
        BY <2>6, <3>2
      <4> QED
        BY <2>9, <2>14, <4>1 DEF Covered
    <3>3. CASE ~ (nexts[s] = x /\ s = b)
      <4>1. nexts[s] = x => nexts'[s] = x
        BY <2>8, <3>3
      <4> QED
        BY <2>3, <2>9, <2>14, <3>1, <4>1 DEF Covered
    <3> QED
      BY <3>2, <3>3
  <2> QED
    BY <1>3, <2>16, <2>17, <2>18, <2>19, <2>20 DEF QueryInv
<1> QED
  BY <1>4, <1>5

\* The next page begins behind the last row of this one, which satisfies the query.
LEMMA QueryPages ==
    ASSUME NonzeroIds, QueryInv, NextPage
    PROVE  QueryInv'
<1>1. /\ pc = "done" /\ ret # <<>> /\ query' = [query EXCEPT !.prev = ret[Len(ret)]]
      /\ ret' = <<>> /\ pc' = "load" /\ shardIdx' = 0
      /\ iters' = [s \in Shards |-> Nil] /\ nexts' = [s \in Shards |-> Nil]
  BY DEF NextPage
<1>2. QueryOK /\ RunInv /\ pc \in Reading
  BY <1>1 DEF QueryInv, Reading
<1>3. query \in [preds: Preds, lim: Int, prev: Written \cup {Nil}]
  BY <1>1, <1>2 DEF QueryOK
<1>4. PICK q \in Seq(Written) : q = ret /\ q # <<>> /\ Rows(src, filters, q)
  BY <1>1, <1>2 DEF RunInv
<1>5. Len(q) \in 1 .. Len(q) /\ q[Len(q)] \in Written
  BY <1>4
<1>6. PICK last \in Written : last = ret[Len(ret)] /\ last = q[Len(q)]
  BY <1>4, <1>5
<1>7. satisfiedBy(src, last) /\ \A f \in filters : satisfiedBy(f, last)
  BY <1>4, <1>5, <1>6 DEF Rows
<1>8. Matches(query.preds, last)
  BY <1>2, <1>7, RowsMatch
<1>9. query' \in [preds: Preds, lim: Int, prev: Written \cup {Nil}] /\ query'.preds = query.preds
      /\ query'.prev = last
  BY <1>1, <1>3, <1>6
<1>10. QueryOK'
  BY <1>1, <1>8, <1>9 DEF QueryOK, Started, Reading
<1>11. LoopOK' /\ SnapInv' /\ CompleteInv' /\ DoneInv'
  BY <1>1 DEF LoopOK, SnapInv, CompleteInv, DoneInv, Reading
<1>12. ret' \in Seq(Written) /\ Len(ret') = 0
  BY <1>1
<1>13. RunInv'
  BY <1>1, <1>12 DEF RunInv, Reading
<1> QED
  BY <1>10, <1>11, <1>13 DEF QueryInv

\* Every step keeps the invariant of the query.
LEMMA QueryStep ==
    ASSUME UniqueIds, NonzeroIds, StoreInv, QueryInv, [ReadNext]_readVars
    PROVE  QueryInv'
<1>1. ASSUME UNCHANGED <<ldb, queryVars>> PROVE QueryInv'
  BY <1>1, QuerySame DEF queryVars, sourceVars, clientVars
<1>2. CASE Next
  <2>1. CASE \E span \in Written : Write(span)
    BY <2>1, QueryWrite
  <2>2. CASE LoadPredicates \/ OpenIterator \/ SeekIterators
    BY <2>2, QueryLoads, QueryOpens, QuerySeeks
  <2>3. CASE AlreadyPopulated \/ EndOfShard \/ ReadEntry
    BY <2>3, QuerySkips, QueryEnds, QueryReads
  <2>4. CASE ChooseBest \/ NextPage
    BY <2>4, QueryChooses, QueryPages
  <2> QED
    BY <1>2, <2>1, <2>2, <2>3, <2>4 DEF Next
<1>3. CASE ServeFindChildren \/ VisitShard \/ LimitReached
  BY <1>1, <1>3 DEF ServeFindChildren, VisitShard, LimitReached
<1>4. CASE UNCHANGED readVars
  BY <1>1, <1>4 DEF readVars, vars, queryVars, sourceVars, clientVars
<1> QED
  BY <1>2, <1>3, <1>4 DEF ReadNext

\* The order of the rows is the one that is promised.
LEMMA EarlierMeaning ==
    ASSUME NonzeroIds, QueryOK, pc \in Reading, NEW a \in Written, NEW b \in Written
    PROVE  Earlier(a, b) <=> Before(src, extractRelevantSpanData(src, a), extractRelevantSpanData(src, b))
<1>1. PICK p : p = SourcePred(query.preds) /\ p = Source
  BY DEF Source
<1>2. /\ IsSource(p) /\ src.field = p.field /\ (IsDescending(src.op) <=> p.op = "le")
  BY <1>1, SourceOK DEF IsDescending
<1>3. /\ extractRelevantSpanData(src, a) = extractRelevantSpanData(p, a)
      /\ extractRelevantSpanData(src, b) = extractRelevantSpanData(p, b)
  BY <1>2 DEF extractRelevantSpanData
<1>4. /\ extractRelevantSpanData(p, a) < extractRelevantSpanData(p, b) <=> Value(p.field, a) < Value(p.field, b)
      /\ extractRelevantSpanData(p, b) < extractRelevantSpanData(p, a) <=> Value(p.field, b) < Value(p.field, a)
  BY <1>2, ExtractFacts DEF IsSource
<1>5. /\ extractRelevantSpanData(p, a) \in Int /\ extractRelevantSpanData(p, b) \in Int
      /\ Value(p.field, a) \in Int /\ Value(p.field, b) \in Int
  <2>1. p.field \in NumericFields
    BY <1>2 DEF IsSource
  <2>2. ASSUME NEW x \in Written PROVE Value(p.field, x) \in Int
    <3>1. x.id \in Int /\ x.begin \in Int /\ x.end \in Int /\ Duration(x) \in Int
      BY SpanNumbers, UnsignedFacts
    <3> QED
      BY <2>1, <3>1 DEF Value, NumericFields
  <2> QED
    BY <2>1, <2>2, ExtractFacts, UnsignedFacts
<1> QED
  BY <1>1, <1>2, <1>3, <1>4, <1>5 DEF Earlier, Before

\* The invariant gives the pages that a client may rely on.
LEMMA PageFollows ==
    ASSUME NonzeroIds, StoreInv, QueryInv
    PROVE  SoundPage
<1>1. QueryOK /\ RunInv /\ CompleteInv /\ DoneInv
  BY DEF QueryInv
<1>2. PICK q \in Seq(Written) : q = ret
  BY <1>1 DEF RunInv
<1>3. \A i \in 1 .. Len(q) : q[i] \in Written
  OBVIOUS
<1>4. CASE pc \notin Reading
  <2>1. ret = <<>> /\ Len(ret) = 0 /\ pc # "done"
    BY <1>1, <1>4 DEF QueryOK, Reading
  <2>2. (IF query.lim < 0 THEN 0 ELSE query.lim) >= 0
    <3>1. query.lim \in Int
      <4>1. CASE pc # "idle"
        BY <1>1, <4>1 DEF QueryOK
      <4> QED
        BY <1>1, <4>1 DEF QueryOK
    <3> QED
      BY <3>1
  <2> QED
    BY <2>1, <2>2 DEF SoundPage, OrderedPage, AscendingFirstPage, Distinct
<1>5. CASE pc \in Reading
  <2>1. /\ Rows(src, filters, q) /\ (Len(q) > 0 => Len(q) <= query.lim)
        /\ query.lim \in Int /\ Len(q) \in Nat
    BY <1>1, <1>2, <1>5 DEF RunInv, QueryOK, Reading
  <2>2. OrderedPage
    <3>1. Len(q) <= (IF query.lim < 0 THEN 0 ELSE query.lim)
      BY <2>1
    <3>2. \A i \in 1 .. Len(q) : Matches(query.preds, q[i])
      BY <1>1, <1>3, <1>5, <2>1, RowsMatch DEF Rows
    <3>3. Distinct(q)
      <4> SUFFICES ASSUME NEW i \in 1 .. Len(q), NEW j \in 1 .. Len(q), q[i].id = q[j].id PROVE i = j
        BY DEF Distinct
      <4>1. ~ (i < j) /\ ~ (j < i)
        BY <2>1 DEF Rows
      <4> QED
        BY <4>1
    <3>4. \A i, j \in 1 .. Len(q) : i < j => ~ Earlier(q[j], q[i])
      BY <1>1, <1>3, <1>5, <2>1, EarlierMeaning DEF Rows
    <3> QED
      BY <1>2, <3>1, <3>2, <3>3, <3>4 DEF OrderedPage
  <2>3. AscendingFirstPage
    <3> SUFFICES ASSUME pc = "done", query.prev = Nil, Source.op \in {"eq", "ge"}
                 PROVE  FirstPageComplete
      BY DEF AscendingFirstPage
    <3>1. src = Source
      BY <1>1, <1>5 DEF QueryOK, AdjustedPred, Source
    <3>2. Results(ret) = Range(q)
      <4>1. Range(q) = {q[i] : i \in 1 .. Len(q)}
        BY RangeEquality
      <4> QED
        BY <1>2, <4>1, Zenon DEF Results
    <3>3. ASSUME query.lim > 0, NEW x \in Expected
          PROVE  /\ x \in Written
                 /\ \/ x \in Range(q)
                    \/ \E s \in Shards : nexts[s] = x /\ nexts[s] # Nil
                    \/ \E s \in Shards : Reaches(src, iters[s], x)
      <4>1. PICK s \in Shards : x \in SpansOf(startDb[s]) /\ x # Nil
        BY DEF Expected, SpansOf
      <4>2. x \in Written
        BY <4>1 DEF StoreInv, IndexExact, SpansOf
      <4>3. satisfiedBy(src, x) /\ \A f \in filters : satisfiedBy(f, x)
        BY <1>1, <1>5, <4>2, RowsMatch DEF Expected
      <4>4. Covered(src, filters, Range(ret), nexts[s], iters[s], x)
        BY <1>1, <1>5, <3>1, <3>3, <4>1, <4>3 DEF CompleteInv
      <4> QED
        BY <1>2, <4>1, <4>2, <4>3, <4>4 DEF Covered
    <3>4. CASE Len(q) < query.lim
      <4>1. \A s \in Shards : iters[s] = Nil /\ nexts[s] = Nil
        BY <1>1, <1>2, <2>1, <3>4 DEF DoneInv
      <4>2. query.lim > 0
        BY <2>1, <3>4
      <4>3. Expected \subseteq Range(q)
        BY <3>3, <4>1, <4>2 DEF Reaches
      <4> QED
        BY <1>2, <3>2, <3>4, <4>3 DEF FirstPageComplete
    <3>5. CASE ~ (Len(q) < query.lim)
      <4> SUFFICES ASSUME query.lim > 0, NEW x \in Expected, x \notin Range(q)
                   PROVE  ~ Earlier(x, q[Len(q)])
        BY <1>2, <3>2, <3>5 DEF FirstPageComplete
      <4>1. Len(q) \in 1 .. Len(q)
        BY <2>1, <3>5
      <4>2. PICK last \in Written : last = q[Len(q)] /\ last \in Range(q)
        BY <1>3, <4>1, RangeEquality
      <4>3. x \in Written
        BY <3>3
      <4>4. ~ Before(src, extractRelevantSpanData(src, x), extractRelevantSpanData(src, last))
        <5>1. CASE \E s \in Shards : nexts[s] = x /\ nexts[s] # Nil
          BY <1>1, <1>2, <1>5, <4>2, <5>1 DEF RunInv, NextOK
        <5>2. CASE \E s \in Shards : Reaches(src, iters[s], x)
          <6>1. PICK s \in Shards : Reaches(src, iters[s], x)
            BY <5>2
          <6>2. PICK it \in Iterator : /\ it = iters[s] /\ Reaches(src, it, x)
                                       /\ AtOK(src, s, nexts[s], it.at, Range(q))
            BY <1>1, <1>2, <1>5, <6>1 DEF RunInv, Reaches, QueryInv, SnapInv, Snapshot
          <6>3. IsSource(src) /\ ~ IsDescending(src.op)
            BY <1>1, <1>5, <3>1, SourceOK DEF IsDescending
          <6>4. InSection(src, it.at) /\ ~ KeyLess(KeyOf(src, x), it.at)
            BY <6>2 DEF Reaches
          <6>5. ~ Before(src, it.at.fir, extractRelevantSpanData(src, last))
            BY <4>2, <6>2, <6>4 DEF AtOK
          <6>6. PICK at \in Key : at = it.at
            BY <6>4 DEF InSection, Iterator, Invalid
          <6>7. PICK u \in Int : u = extractRelevantSpanData(src, x)
            BY <4>3, <6>3, ExtractFacts, UnsignedFacts DEF IsSource
          <6>8. PICK v \in Int : v = extractRelevantSpanData(src, last)
            BY <6>3, ExtractFacts, UnsignedFacts DEF IsSource
          <6>9. KeyOf(src, x).tag = at.tag /\ KeyOf(src, x).fir = u
            BY <4>3, <6>3, <6>4, <6>6, <6>7, KeyOfFacts DEF IsSource, InSection
          <6>10. ~ (u < at.fir)
            BY <6>4, <6>6, <6>9 DEF KeyLess
          <6>11. at.fir \in Int
            BY HalfRangeAssumption DEF Key, NoId
          <6> QED
            BY <6>3, <6>5, <6>6, <6>7, <6>8, <6>10, <6>11 DEF Before
        <5> QED
          BY <3>3, <5>1, <5>2
      <4> QED
        BY <1>1, <1>5, <4>2, <4>3, <4>4, EarlierMeaning
    <3> QED
      BY <3>4, <3>5
  <2> QED
    BY <2>2, <2>3 DEF SoundPage
<1> QED
  BY <1>4, <1>5

\* SpanQuery: when no id is used for two spans and none is 0, every page of a query
\* holds at most lim spans, each satisfies every predicate of the query, none
\* occurs twice, and they come in the order of the source's field; the first page
\* of a query that ascends from its bound misses nothing that was stored before.
\* This holds for any number of shards, whatever is written while they are read.
THEOREM PagesAreSound ==
    ASSUME UniqueIds, NonzeroIds
    PROVE  ReadSpec => []SoundPage
<1>1. ReadInit => StoreInv /\ SearchType /\ SearchInv /\ QueryInv
  BY StoreInitExact, SearchInit, QueryStarts DEF ReadInit
<1>2. StoreInv /\ SearchType /\ SearchInv /\ QueryInv /\ [ReadNext]_readVars
         => (StoreInv /\ SearchType /\ SearchInv /\ QueryInv)'
  BY ReadStep, QueryStep
<1>3. StoreInv /\ QueryInv => SoundPage
  BY PageFollows
<1> QED
  BY <1>1, <1>2, <1>3, PTL DEF ReadSpec

-----------------------------------------------------------------------------
\* Paging.

Stored(x) == \E s \in Shards : x \in SpansOf(startDb[s])

\* The conditions under which pages are exact.
PagingHyp ==
    /\ pc # "idle" /\ query.lim > 0 /\ writes = 0
    /\ Loads(query.preds) /\ Source.op \in {"eq", "ge", "gt"}
    /\ NoTies /\ \A span \in Results(pages) : span.id # 2 * HalfRange - 1

\* The pages P before the one at hand hold, in ascending order, the expected spans
\* E up to prev, which is the last one of them.
PagesOK(p, prev, P, E) ==
    /\ P = <<>> <=> prev = Nil
    /\ P # <<>> => prev = P[Len(P)]
    /\ \A i \in 1 .. Len(P) : P[i] \in E
    /\ \A i, j \in 1 .. Len(P) : i < j =>
          extractRelevantSpanData(p, P[i]) < extractRelevantSpanData(p, P[j])
    /\ prev # Nil => \A x \in E :
          x \in Range(P) \/ extractRelevantSpanData(p, prev) < extractRelevantSpanData(p, x)

\* An "equals" query has nothing to offer on its second page: its iterators have
\* passed prev.
EqOver(p, prev, n, it) ==
    p.op = "eq" /\ prev # Nil =>
        /\ n = Nil
        /\ p.field # "spanid" /\ it # Nil /\ InSection(p, it.at) => KeyLess(KeyOf(p, prev), it.at)

\* A span x that a "greater than" query must find is covered.  The iterator is at
\* an entry equal to the bound only before it has read one.
CoveredGt(p, fs, R, n, it, num, x) ==
    \/ x \in R \/ \E f \in fs : ~ satisfiedBy(f, x)
    \/ n = x
    \/ Reaches(p, it, x) /\ (it.at.fir > p.key \/ num = 0)

ShardRun(s, n, it, num) ==
    /\ n # Nil => Stored(n)
    /\ EqOver(src, query.prev, n, it)
    /\ src.op = "gt" => \A x \in SpansOf(startDb[s]) :
          satisfiedBy(src, x) => CoveredGt(src, filters, Range(ret), n, it, num, x)

\* A page that is read while nothing is written.
PageRun ==
    /\ \A r \in Range(ret) : Stored(r)
    /\ src.op = "eq" /\ query.prev # Nil => ret = <<>>
    /\ \A s \in Shards : ShardRun(s, nexts[s], iters[s], numRead[s])

CountInv ==
    /\ writes \in Nat /\ (writes = 0 => ldb = startDb)
    /\ pages \in Seq(Written) /\ numRead \in [Shards -> Nat]
    /\ pc \in {"load", "open"} => \A s \in Shards : numRead[s] = 0

PagesInv == PagingHyp => PagesOK(Source, query.prev, pages, Expected)
PageRunInv == PagingHyp /\ pc \in Reading => PageRun

\* A span that was stored at the start.
LEMMA StoredFacts ==
    ASSUME StoreInv
    PROVE  /\ \A s \in Shards : \A x \in SpansOf(startDb[s]) :
                 Stored(x) /\ x \in Written /\ x # Nil /\ getShardIndex(x.id) = s
           /\ \A x : Stored(x) => x \in Written /\ x # Nil
<1>1. ASSUME NEW s \in Shards, NEW x \in SpansOf(startDb[s])
      PROVE  x \in Written /\ x # Nil /\ getShardIndex(x.id) = s
  <2>1. IndexExact(s, startDb[s])
    BY DEF StoreInv
  <2> QED
    BY <2>1 DEF SpansOf, IndexExact
<1> QED
  BY <1>1 DEF Stored

\* Without ties a span is known by the field of the source.
LEMMA NoTiesMeaning ==
    ASSUME StoreInv, NoTies, NEW p, p.field \in NumericFields, p.field = Source.field,
           NEW x, NEW y, Stored(x), Stored(y),
           extractRelevantSpanData(p, x) = extractRelevantSpanData(p, y)
    PROVE  x = y
<1>1. x \in Written /\ y \in Written /\ x # Nil /\ y # Nil
  BY StoredFacts
<1>2. PICK v \in Int : v = Value(p.field, x)
  <2>1. x.id \in Int /\ x.begin \in Int /\ x.end \in Int /\ Duration(x) \in Int
    BY <1>1, SpanNumbers, UnsignedFacts
  <2> QED
    BY <2>1 DEF Value, NumericFields
<1>3. PICK w \in Int : w = Value(p.field, y)
  <2>1. y.id \in Int /\ y.begin \in Int /\ y.end \in Int /\ Duration(y) \in Int
    BY <1>1, SpanNumbers, UnsignedFacts
  <2> QED
    BY <2>1 DEF Value, NumericFields
<1>4. PICK u \in Int : u = extractRelevantSpanData(p, x) /\ u = extractRelevantSpanData(p, y)
  BY <1>1, ExtractFacts, UnsignedFacts
<1>5. ~ (v < w) /\ ~ (w < v)
  <2>1. (u < u <=> v < w) /\ (u < u <=> w < v)
    BY <1>1, <1>2, <1>3, <1>4, ExtractFacts
  <2> QED
    BY <2>1
<1>6. v = w
  BY <1>5
<1>7. \A z : Stored(z) => z \in UNION {{startDb[s].data[id] : id \in SpanIds} : s \in Shards}
  BY DEF Stored, SpansOf
<1> QED
  BY <1>1, <1>2, <1>3, <1>6, <1>7 DEF NoTies

\* The conditions held before a step after which they hold.
LEMMA HypCarries ==
    ASSUME startDb' = startDb, query'.preds = query.preds, query'.lim = query.lim,
           pc' # "idle" => pc # "idle", writes' = 0 => writes = 0,
           Results(pages) \subseteq Results(pages)'
    PROVE  /\ PagingHyp' => PagingHyp
           /\ Expected' = Expected /\ Source' = Source
<1>1. Source' = Source
  BY DEF Source
<1>2. Expected' = Expected
  BY DEF Expected
<1>3. NoTies' => NoTies
  BY <1>1 DEF NoTies
<1> QED
  BY <1>1, <1>2, <1>3 DEF PagingHyp

\* The first key of a "greater than" query.
LEMMA FirstKey ==
    ASSUME NonzeroIds, NEW p, IsSource(p), NEW prev \in Written \cup {Nil},
           NEW q, q = AdjustedPred(p, prev), q.op = "gt", NEW first, first = SearchKey(p, prev)
    PROVE  first \in Key /\ first.tag = getIndexPrefix(q) /\ first.fir = q.key
<1>1. first \in Key
  BY SearchKeyType
<1>2. CASE prev = Nil
  BY <1>1, <1>2 DEF SearchKey, AdjustedPred, makeKey
<1>3. CASE prev # Nil
  <2>1. /\ q.field = p.field /\ p.op \in {"ge", "gt"}
        /\ p.field # "spanid" => q.key = extractRelevantSpanData(p, prev)
        /\ p.field = "spanid" => q.key = prev.id
    <3>1. /\ q.field = p.field /\ q.op = (IF p.op = "ge" THEN "gt" ELSE p.op)
          /\ p.field # "spanid" => q.key = extractRelevantSpanData(p, prev)
          /\ p.field = "spanid" =>
                q.key = CASE p.op = "eq" -> 0
                          [] p.op = "le" -> prev.id - 1
                          [] p.op \in {"ge", "gt"} -> prev.id
      BY <1>3, AdjustedSource
    <3>2. p.op \in {"ge", "gt"}
      BY <3>1
    <3> QED
      BY <3>1, <3>2
  <2>2. getIndexPrefix(q) = getIndexPrefix(p)
    BY <2>1 DEF getIndexPrefix
  <2>3. StartId(p, prev) = prev.id
    BY <2>1 DEF StartId
  <2> QED
    BY <1>1, <1>3, <2>1, <2>2, <2>3 DEF SearchKey, makeKey, makeSecondaryKey
<1> QED
  BY <1>2, <1>3

\* It comes before the keys of the spans that satisfy the query.
LEMMA SeekReachesGt ==
    ASSUME NonzeroIds, NEW p, IsSource(p), NEW prev \in Written \cup {Nil},
           NEW q, q = AdjustedPred(p, prev), q.op = "gt", NEW it \in Iterator,
           it.at = Seek(it.keys, SearchKey(p, prev)),
           NEW y \in Written, satisfiedBy(q, y), KeyOf(q, y) \in it.keys
    PROVE  Reaches(q, it, y)
<1>1. IsSource(q)
  BY AdjustedSource
<1>2. PICK first \in Key : first = SearchKey(p, prev) /\ first.tag = getIndexPrefix(q) /\ first.fir = q.key
  BY FirstKey
<1>3. PICK v \in Int : v = extractRelevantSpanData(q, y)
  BY <1>1, ExtractFacts, UnsignedFacts DEF IsSource
<1>4. PICK k \in Key : k = KeyOf(q, y) /\ k.tag = getIndexPrefix(q) /\ k.fir = v
  BY <1>1, <1>3, KeyOfFacts DEF IsSource
<1>5. v > q.key /\ q.key \in Int
  BY <1>1, <1>3, SatisfiedFacts, UnsignedFacts DEF IsSource
<1>6. TagRank[k.tag] \in Int
  BY DEF TagRank, Key
<1>7. ~ KeyLess(k, first)
  BY <1>2, <1>4, <1>5, <1>6 DEF KeyLess
<1> QED
  BY <1>1, <1>2, <1>4, <1>7, SeekReachesFrom

\* The second page of an "equals" query starts behind the entry of prev, unless
\* the id after that of prev wraps around.
LEMMA EqStarts ==
    ASSUME NEW p, IsSource(p), p.op = "eq", p.field # "spanid", NEW prev \in Written, prev # Nil,
           prev.id # 2 * HalfRange - 1, NEW keys \in SUBSET Key,
           NEW at, at = Seek(keys, SearchKey(p, prev)), at # Nil
    PROVE  KeyLess(KeyOf(p, prev), at)
<1>1. PICK v \in Int : v = extractRelevantSpanData(p, prev)
  BY ExtractFacts, UnsignedFacts DEF IsSource
<1>2. PICK n \in UnsignedRange : n = prev.id
  BY SpanNumbers
<1>3. n \in Int /\ (n + 1) % (2 * HalfRange) = n + 1
  BY <1>2, HalfRangeAssumption, SMT DEF UnsignedRange
<1>4. PICK first \in Key : first = SearchKey(p, prev)
  BY SearchKeyType
<1>5. first.tag = getIndexPrefix(p) /\ first.fir = v /\ first.sec = n + 1
  BY <1>1, <1>2, <1>3, <1>4 DEF SearchKey, StartId, makeSecondaryKey
<1>6. PICK k \in Key : k = KeyOf(p, prev)
  BY KeyOfFacts DEF IsSource
<1>7. k.tag = getIndexPrefix(p) /\ k.fir = v /\ k.sec = n
  BY <1>1, <1>2, <1>6 DEF KeyOf, makeSecondaryKey
<1>8. KeyLess(k, first)
  BY <1>3, <1>5, <1>7 DEF KeyLess
<1>9. at \in Key /\ ~ KeyLess(at, first)
  BY <1>4, SeekFacts
<1> QED
  BY <1>6, <1>8, <1>9, KeyOrder

\* An ascending iterator moves on to the next entry of its section, while a span
\* lies ahead.
LEMMA MovesOn ==
    ASSUME NEW p, IsSource(p), ~ IsDescending(p.op), NEW it \in Iterator, it.at \in it.keys,
           NEW to, to = Moved(p, it.keys, it.at),
           NEW y \in Written, Reaches(p, it, y), KeyOf(p, y) # it.at
    PROVE  /\ Reaches(p, [it EXCEPT !.at = to], y)
           /\ to \in it.keys /\ to # it.at /\ InSection(p, to) /\ to.fir >= it.at.fir
<1>1. [it EXCEPT !.at = to].at = to
  BY DEF Iterator
<1>2. Reaches(p, [it EXCEPT !.at = to], y)
  BY ReachesOn
<1>3. InSection(p, to) /\ InSection(p, it.at)
  BY <1>1, <1>2 DEF Reaches
<1>4. PICK keys \in SUBSET Key : keys = it.keys
  BY DEF Iterator
<1>5. PICK at \in keys : at = it.at
  BY <1>4
<1>6. to \in keys /\ Ahead(p, at, to)
  <2>1. to = Nil \/ (to \in keys /\ Ahead(p, at, to))
    BY <1>4, <1>5, MoveFacts
  <2> QED
    BY <1>3, <2>1 DEF InSection
<1>7. ~ Ahead(p, at, at) /\ ~ Before(p, to.fir, at.fir)
  <2>1. at \in Key /\ to \in Key /\ at.tag = to.tag
    BY <1>3, <1>4, <1>5, <1>6 DEF InSection
  <2> QED
    BY <1>6, <2>1, Direction
<1>8. to.fir \in Int /\ at.fir \in Int
  BY <1>4, <1>6, HalfRangeAssumption DEF Key, NoId
<1>9. to.fir >= at.fir
  BY <1>7, <1>8 DEF Before
<1> QED
  BY <1>2, <1>3, <1>4, <1>5, <1>6, <1>7, <1>9

PagingInv == CountInv /\ PagesInv /\ PageRunInv

\* At first there are no pages.
LEMMA PagingStarts == ReadInit => PagingInv
<1> SUFFICES ASSUME ReadInit PROVE PagingInv
  OBVIOUS
<1>1. /\ pages = <<>> /\ query.prev = Nil /\ pc \in {"load", "idle"} /\ writes = 0
      /\ ldb = startDb /\ numRead = [s \in Shards |-> 0]
  BY DEF ReadInit, StoreInit, QueryInit, NoQuery, NoSource
<1>2. pages \in Seq(Written) /\ Len(pages) = 0
  BY <1>1
<1>3. CountInv
  BY <1>1, <1>2 DEF CountInv
<1>4. \A p, E : PagesOK(p, query.prev, pages, E)
  BY <1>1, <1>2 DEF PagesOK
<1> QED
  BY <1>1, <1>3, <1>4 DEF PagingInv, PagesInv, PageRunInv, Reading

\* The pages stay as they are until the client asks for the next one.
LEMMA PagesKept ==
    ASSUME PagesInv, UNCHANGED <<startDb, query, pages>>,
           pc' # "idle" => pc # "idle", writes' = 0 => writes = 0
    PROVE  PagesInv' /\ (PagingHyp' => PagingHyp) /\ Source' = Source
<1>1. Results(pages) \subseteq Results(pages)'
  BY DEF Results
<1>2. (PagingHyp' => PagingHyp) /\ Expected' = Expected /\ Source' = Source
  BY <1>1, HypCarries
<1> QED
  BY <1>2 DEF PagesInv

\* A write ends what is said of paging.
LEMMA PagingWrite ==
    ASSUME PagingInv, NEW span \in Written, Write(span)
    PROVE  PagingInv'
<1>1. /\ writes' = writes + 1 /\ UNCHANGED <<query, numRead, pc, pages, startDb>>
  BY DEF Write, sourceVars, clientVars
<1>2. writes \in Nat /\ writes' # 0 /\ writes' \in Nat
  BY <1>1 DEF PagingInv, CountInv
<1>3. CountInv'
  BY <1>1, <1>2 DEF PagingInv, CountInv
<1> QED
  BY <1>2, <1>3 DEF PagingInv, PagesInv, PageRunInv, PagingHyp

\* The predicates are loaded, and the iterators opened.
LEMMA PagingOpens ==
    ASSUME PagingInv, LoadPredicates \/ OpenIterator
    PROVE  PagingInv'
<1>1. /\ UNCHANGED <<ldb, query, numRead, pages, startDb, writes>>
      /\ pc \in {"load", "open"} /\ pc' \in {"load", "open", "error"}
  BY DEF LoadPredicates, OpenIterator, clientVars
<1>2. CountInv'
  BY <1>1 DEF PagingInv, CountInv
<1>3. PagesInv'
  BY <1>1, PagesKept DEF PagingInv
<1> QED
  BY <1>1, <1>2, <1>3 DEF PagingInv, PageRunInv, Reading

\* Nothing changes for a query.
LEMMA PagingSame ==
    ASSUME PagingInv,
           UNCHANGED <<ldb, query, src, filters, iters, nexts, numRead, ret, pages, startDb, writes>>,
           pc' = pc \/ (pc \in Reading /\ pc' \in Reading)
    PROVE  PagingInv'
<1>1. pc' # "idle" => pc # "idle"
  BY DEF Reading
<1>2. PagesInv' /\ (PagingHyp' => PagingHyp)
  BY <1>1, PagesKept DEF PagingInv
<1>3. CountInv'
  BY DEF PagingInv, CountInv, Reading
<1>4. PageRun => PageRun'
  BY DEF PageRun, ShardRun, Stored
<1>5. PageRunInv'
  BY <1>2, <1>4 DEF PagingInv, PageRunInv
<1> QED
  BY <1>2, <1>3, <1>5 DEF PagingInv

\* The last span of the earlier pages is a stored one, and its id is not the largest.
LEMMA PrevStored ==
    ASSUME StoreInv, PagingInv, PagingHyp, query.prev # Nil
    PROVE  Stored(query.prev) /\ query.prev \in Written /\ query.prev.id # 2 * HalfRange - 1
<1>1. PICK prev : prev = query.prev /\ prev # Nil
  OBVIOUS
<1>2. PagesOK(Source, prev, pages, Expected) /\ pages \in Seq(Written)
  BY <1>1 DEF PagingInv, PagesInv, CountInv
<1>3. pages # <<>> /\ prev = pages[Len(pages)]
  BY <1>1, <1>2 DEF PagesOK
<1>4. Len(pages) \in 1 .. Len(pages)
  BY <1>2, <1>3
<1>5. prev \in Results(pages) /\ prev \in Expected
  BY <1>2, <1>3, <1>4 DEF Results, PagesOK
<1>6. Stored(prev)
  BY <1>5 DEF Expected, Stored, SpansOf
<1>7. prev.id # 2 * HalfRange - 1
  BY <1>5 DEF PagingHyp
<1> QED
  BY <1>1, <1>6, <1>7, StoredFacts

\* createSource positions the iterators of the page behind prev.
LEMMA PagingSeeks ==
    ASSUME UniqueIds, NonzeroIds, StoreInv, QueryInv, PagingInv, SeekIterators
    PROVE  PagingInv'
<1>1. /\ pc = "open" /\ IsSource(src) /\ src = SourcePred(query.preds) /\ ret = <<>>
      /\ nexts = [s \in Shards |-> Nil] /\ query \in [preds: Preds, lim: Int, prev: Written \cup {Nil}]
      /\ src' = AdjustedPred(src, query.prev)
      /\ pc' \in {"done", "populate"}
      /\ UNCHANGED <<ldb, query, filters, nexts, numRead, ret, startDb, pages, writes>>
  BY SoughtIterators
<1>2. ASSUME NEW s \in Shards
      PROVE  /\ Snapshot(iters[s], ldb[s], startDb[s])
             /\ iters'[s] \in Iterator /\ iters'[s].keys = iters[s].keys
             /\ iters'[s].at = Seek(iters[s].keys, SearchKey(src, query.prev))
  BY SoughtIterators
<1>3. CountInv' /\ \A s \in Shards : numRead'[s] = 0
  BY <1>1 DEF PagingInv, CountInv
<1>4. PagesInv' /\ (PagingHyp' => PagingHyp)
  BY <1>1, PagesKept DEF PagingInv
<1>5. ASSUME PagingHyp PROVE PageRun'
  <2>1. PICK p : p = src /\ IsSource(p) /\ p = Source
    BY <1>1 DEF Source
  <2>2. PICK q : q = src' /\ q = AdjustedPred(p, query.prev)
    BY <1>1, <2>1
  <2>3. PICK prev \in Written \cup {Nil} : prev = query.prev
    BY <1>1
  <2>4. Range(ret') = {}
    BY <1>1, RangeEmpty
  <2>5. ASSUME NEW s \in Shards PROVE EqOver(q, prev, Nil, iters'[s])
    <3> SUFFICES ASSUME q.op = "eq", prev # Nil, q.field # "spanid", InSection(q, iters'[s].at)
                 PROVE  KeyLess(KeyOf(q, prev), iters'[s].at)
      BY DEF EqOver
    <3>1. p.op = "eq" /\ p.field = q.field
      BY <2>1, <2>2, <2>3, AdjustedSource
    <3>2. prev \in Written /\ prev.id # 2 * HalfRange - 1
      BY <1>5, <2>3, PrevStored
    <3>3. PICK keys \in SUBSET Key : keys = iters[s].keys
      BY <1>2 DEF Snapshot, Iterator
    <3>4. PICK at : at = Seek(keys, SearchKey(p, prev)) /\ at = iters'[s].at /\ at # Nil
      BY <1>2, <2>1, <2>3, <3>3 DEF InSection
    <3>5. KeyLess(KeyOf(p, prev), at)
      BY <2>1, <3>1, <3>2, <3>4, EqStarts
    <3>6. KeyOf(q, prev) = KeyOf(p, prev)
      BY <3>1 DEF KeyOf, extractRelevantSpanData, getIndexPrefix
    <3> QED
      BY <3>4, <3>5, <3>6
  <2>6. ASSUME NEW s \in Shards, q.op = "gt", NEW x \in SpansOf(startDb[s]), satisfiedBy(q, x)
        PROVE  Reaches(q, iters'[s], x)
    <3>1. q.field \in NumericFields
      BY <2>1, <2>2, <2>3, AdjustedSource DEF IsSource
    <3>2. IndexExact(s, startDb[s])
      BY DEF StoreInv
    <3>3. x \in Written /\ KeyOf(q, x) \in Keys(startDb[s])
      BY <3>1, <3>2, StoredKey
    <3>4. PICK it \in Iterator : it = iters'[s] /\ it.keys = iters[s].keys
                                 /\ it.at = Seek(it.keys, SearchKey(p, prev))
      BY <1>2, <2>1, <2>3
    <3>5. KeyOf(q, x) \in it.keys
      BY <1>2, <3>3, <3>4 DEF Snapshot
    <3>6. Reaches(q, it, x)
      BY <2>1, <2>2, <2>3, <2>6, <3>3, <3>4, <3>5, SeekReachesGt
    <3> QED
      BY <3>4, <3>6
  <2>7. \A s \in Shards : nexts'[s] = Nil
    BY <1>1
  <2>8. ASSUME NEW s \in Shards PROVE ShardRun(s, nexts[s], iters[s], numRead[s])'
    <3>1. EqOver(src', query'.prev, nexts'[s], iters'[s])
      BY <1>1, <2>2, <2>3, <2>5, <2>7
    <3>2. ASSUME src'.op = "gt", NEW x \in SpansOf(startDb[s]), satisfiedBy(src', x)
          PROVE  CoveredGt(src', filters', Range(ret'), nexts'[s], iters'[s], numRead'[s], x)
      BY <1>3, <2>2, <2>6, <3>2 DEF CoveredGt
    <3> QED
      BY <1>1, <2>7, <3>1, <3>2 DEF ShardRun
  <2> QED
    BY <1>1, <2>4, <2>8 DEF PageRun
<1> QED
  BY <1>3, <1>4, <1>5 DEF PagingInv, PageRunInv

\* The loop of populateNextFromShard changes one shard only.
LEMMA PagingShard ==
    ASSUME PagingInv, pc \in Reading, pc' \in Reading,
           UNCHANGED <<ldb, query, src, filters, ret, startDb, pages, writes>>,
           NEW z \in Shards, numRead' \in [Shards -> Nat],
           \A s \in Shards \ {z} :
              iters'[s] = iters[s] /\ nexts'[s] = nexts[s] /\ numRead'[s] = numRead[s],
           PagingHyp /\ ShardRun(z, nexts[z], iters[z], numRead[z])
              => ShardRun(z, nexts'[z], iters'[z], numRead'[z])
    PROVE  PagingInv'
<1>1. PagesInv' /\ (PagingHyp' => PagingHyp)
  BY PagesKept DEF PagingInv, Reading
<1>2. CountInv'
  BY DEF PagingInv, CountInv, Reading
<1>3. ASSUME PagingHyp PROVE PageRun'
  <2>1. PageRun
    BY <1>3 DEF PagingInv, PageRunInv
  <2>2. \A s \in Shards : ShardRun(s, nexts'[s], iters'[s], numRead'[s])
    BY <1>3, <2>1 DEF PageRun
  <2>3. \A s \in Shards : ShardRun(s, nexts[s], iters[s], numRead[s])'
    BY <2>2 DEF ShardRun, Stored
  <2> QED
    BY <2>1, <2>3 DEF PageRun, Stored
<1> QED
  BY <1>1, <1>2, <1>3 DEF PagingInv, PageRunInv

\* A shard that has no more entries offers none.
LEMMA PagingEnds ==
    ASSUME NonzeroIds, StoreInv, QueryInv, PagingInv, EndOfShard, pc' \in Reading
    PROVE  PagingInv'
<1>1. /\ pc = "populate" /\ iters[shardIdx] # Nil /\ nexts[shardIdx] = Nil
      /\ iters' = [iters EXCEPT ![shardIdx] = Nil]
      /\ UNCHANGED <<ldb, query, src, filters, nexts, numRead, ret, startDb, pages, writes>>
  BY DEF EndOfShard, clientVars
<1>2. PICK z \in Shards, it \in Iterator :
         /\ z = shardIdx /\ it = iters[z]
         /\ InSection(src, it.at) => Rehydrate(z, it.at) # Nil
  BY <1>1, ShardAtHand
<1>3. ~ InSection(src, it.at)
  BY <1>2 DEF EndOfShard, InSection, Invalid
<1>4. /\ iters'[z] = Nil /\ nexts'[z] = nexts[z] /\ numRead'[z] = numRead[z]
      /\ \A s \in Shards \ {z} :
            iters'[s] = iters[s] /\ nexts'[s] = nexts[s] /\ numRead'[s] = numRead[s]
  BY <1>1, <1>2 DEF QueryInv, SnapInv
<1>5. numRead' \in [Shards -> Nat] /\ pc \in Reading
  BY <1>1 DEF PagingInv, CountInv, Reading
<1>6. ASSUME ShardRun(z, nexts[z], iters[z], numRead[z])
      PROVE  ShardRun(z, nexts[z], Nil, numRead[z])
  <2>1. \A x : ~ Reaches(src, it, x)
    BY <1>3 DEF Reaches
  <2>2. EqOver(src, query.prev, nexts[z], Nil)
    BY <1>6 DEF ShardRun, EqOver
  <2> QED
    BY <1>2, <1>6, <2>1, <2>2 DEF ShardRun, CoveredGt
<1> QED
  BY <1>1, <1>4, <1>5, <1>6, PagingShard

\* The entries of a shard lead to stored spans.
LEMMA EntryStored ==
    ASSUME StoreInv, QueryInv, CountInv, writes = 0, NEW s \in Shards, iters[s] # Nil,
           NEW key \in iters[s].keys, NEW p, p.field \in NumericFields, key.tag = getIndexPrefix(p)
    PROVE  \E x \in SpansOf(startDb[s]) :
              /\ x = Rehydrate(s, key) /\ x \in Written /\ x # Nil /\ Stored(x)
              /\ KeyOf(p, x) = key /\ key.fir = extractRelevantSpanData(p, x)
<1>1. PICK x : x = Rehydrate(s, key)
  OBVIOUS
<1>2. x \in Written /\ x # Nil /\ KeyOf(p, x) = key /\ x \in SpansOf(ldb[s])
  BY <1>1, Rehydrated DEF QueryInv
<1>3. x \in SpansOf(startDb[s]) /\ Stored(x)
  BY <1>2 DEF CountInv, Stored
<1>4. key.fir = extractRelevantSpanData(p, x)
  BY <1>2, KeyOfFacts
<1> QED
  BY <1>1, <1>2, <1>3, <1>4

\* An "equals" query finds nothing on its second page.
LEMMA NothingEqual ==
    ASSUME UniqueIds, NonzeroIds, StoreInv, QueryInv, PagingInv, PagingHyp, pc \in Reading,
           src.op = "eq", query.prev # Nil, NEW s \in Shards, NEW it \in Iterator, it # Nil,
           InSection(src, it.at), it.at \in Key, EqOver(src, query.prev, Nil, it),
           NEW x, Stored(x), KeyOf(src, x) = it.at
    PROVE  ~ satisfiedBy(src, x)
<1>1. PICK p : p = Source /\ IsSource(p) /\ src = AdjustedPred(p, query.prev) /\ IsSource(src)
  BY SourceOK DEF QueryInv, QueryOK, Source
<1>2. PICK prev : prev = query.prev /\ prev # Nil
  OBVIOUS
<1>3. Stored(prev) /\ prev \in Written /\ x \in Written
  BY <1>2, PrevStored, StoredFacts
<1>4. /\ src.field = p.field /\ src.op = (IF p.op = "ge" THEN "gt" ELSE p.op)
      /\ p.field # "spanid" => src.key = extractRelevantSpanData(p, prev)
      /\ p.field = "spanid" => src.key = CASE p.op = "eq" -> 0
                                          [] p.op = "le" -> prev.id - 1
                                          [] p.op \in {"ge", "gt"} -> prev.id
  BY <1>1, <1>2, <1>3, AdjustedSource
<1>5. p.op = "eq"
  BY <1>4
<1>6. satisfiedBy(src, x) <=> extractRelevantSpanData(src, x) = src.key
  BY SatisfiedFacts
<1>7. CASE p.field = "spanid"
  <2>1. src.key = 0 /\ extractRelevantSpanData(src, x) = x.id
    BY <1>4, <1>5, <1>7 DEF extractRelevantSpanData
  <2> QED
    BY <1>3, <1>6, <2>1 DEF NonzeroIds
<1>8. CASE p.field # "spanid"
  <2>1. KeyLess(KeyOf(src, prev), it.at)
    BY <1>2, <1>4, <1>8 DEF EqOver
  <2>2. x # prev
    BY <2>1, KeyOrder
  <2>3. src.key = extractRelevantSpanData(src, prev)
    BY <1>4, <1>8 DEF extractRelevantSpanData
  <2>4. src.field \in NumericFields /\ src.field = Source.field /\ NoTies
    BY <1>1, <1>4 DEF IsSource, PagingHyp
  <2>5. extractRelevantSpanData(src, x) # extractRelevantSpanData(src, prev)
    BY <1>3, <2>2, <2>4, NoTiesMeaning
  <2> QED
    BY <1>6, <2>3, <2>5
<1> QED
  BY <1>7, <1>8

\* One entry is read.  A "greater than" query skips the one that is equal to its
\* bound; there is no other.
LEMMA PagingReads ==
    ASSUME UniqueIds, NonzeroIds, StoreInv, QueryInv, PagingInv, ReadEntry, pc' \in Reading
    PROVE  PagingInv'
<1>1. /\ pc \in Reading /\ IsSource(src)
      /\ UNCHANGED <<ldb, query, src, filters, ret, startDb, pages, writes>>
  BY EntryAtHand DEF Reading
<1>2. PICK z \in Shards, it \in Iterator, span \in Written :
         /\ it = iters[z] /\ it # Nil /\ nexts[z] = Nil /\ InSection(src, it.at) /\ it.at \in it.keys
         /\ span = Rehydrate(z, it.at) /\ span # Nil /\ KeyOf(src, span) = it.at
         /\ numRead' = [numRead EXCEPT ![z] = numRead[z] + 1]
         /\ LET moved == [it EXCEPT !.at = Moved(src, it.keys, it.at)]
                skips == numRead[z] + 1 <= 1 /\ mayRequireOneSkip(src.op) IN
            \/ /\ satisfiedBy(src, span)
               /\ nexts' = [nexts EXCEPT ![z] = span] /\ iters' = [iters EXCEPT ![z] = moved]
            \/ /\ ~ satisfiedBy(src, span) /\ skips
               /\ iters' = [iters EXCEPT ![z] = moved] /\ UNCHANGED nexts
            \/ /\ ~ satisfiedBy(src, span) /\ ~ skips
               /\ iters' = [iters EXCEPT ![z] = Nil] /\ UNCHANGED nexts
  BY EntryAtHand
<1>3. PICK to : to = Moved(src, it.keys, it.at)
  OBVIOUS
<1>4. PICK moved : moved = [it EXCEPT !.at = to]
  OBVIOUS
<1>5. PICK n \in Nat : n = numRead[z]
  BY DEF PagingInv, CountInv
<1>6. /\ moved.at = to /\ DOMAIN iters = Shards /\ DOMAIN nexts = Shards /\ numRead \in [Shards -> Nat]
  BY <1>4 DEF PagingInv, CountInv, QueryInv, SnapInv, RunInv, Iterator
<1>7. /\ numRead' \in [Shards -> Nat] /\ numRead'[z] = n + 1
      /\ \A s \in Shards \ {z} :
            iters'[s] = iters[s] /\ nexts'[s] = nexts[s] /\ numRead'[s] = numRead[s]
  BY <1>2, <1>5, <1>6
<1>8. \/ satisfiedBy(src, span) /\ nexts'[z] = span /\ iters'[z] = moved
      \/ /\ ~ satisfiedBy(src, span) /\ n = 0 /\ mayRequireOneSkip(src.op)
         /\ iters'[z] = moved /\ nexts'[z] = Nil
      \/ /\ ~ satisfiedBy(src, span) /\ ~ (n = 0 /\ mayRequireOneSkip(src.op))
         /\ iters'[z] = Nil /\ nexts'[z] = Nil
  <2>1. n + 1 <= 1 <=> n = 0
    OBVIOUS
  <2> QED
    BY <1>2, <1>3, <1>4, <1>5, <1>6, <2>1
<1>9. ASSUME PagingHyp, ShardRun(z, Nil, it, n)
      PROVE  ShardRun(z, nexts'[z], iters'[z], n + 1)
  <2>1. writes = 0 /\ NoTies
    BY <1>9 DEF PagingHyp
  <2>2. src.field \in NumericFields /\ src.field = Source.field
    BY <1>1, SourceOK DEF QueryInv, IsSource, Source
  <2>3. it.keys \in SUBSET Key /\ it.at \in Key
    BY <1>2 DEF Iterator
  <2>4. span \in SpansOf(startDb[z]) /\ Stored(span) /\ it.at.fir = extractRelevantSpanData(src, span)
    <3>1. PICK key \in iters[z].keys : key = it.at /\ key.tag = getIndexPrefix(src)
      BY <1>2 DEF InSection
    <3> QED
      BY <1>2, <2>1, <2>2, <3>1, EntryStored DEF PagingInv
  <2>5. PICK u \in Int : u = it.at.fir /\ u = extractRelevantSpanData(src, span)
    BY <2>2, <2>4, ExtractFacts, UnsignedFacts
  <2>6. src.key \in Int
    BY <1>1, UnsignedFacts DEF IsSource
  <2>7. src.op = "eq" /\ query.prev # Nil => ~ satisfiedBy(src, span)
    BY <1>1, <1>2, <1>9, <2>3, <2>4, NothingEqual DEF ShardRun
  <2>8. src.op = "gt" => (satisfiedBy(src, span) <=> u > src.key)
    BY <2>5, SatisfiedFacts
  <2>9. EqOver(src, query.prev, nexts'[z], iters'[z])
    BY <1>8, <2>7 DEF EqOver, mayRequireOneSkip
  <2>10. ASSUME src.op = "gt", NEW x \in SpansOf(startDb[z]), satisfiedBy(src, x)
         PROVE  CoveredGt(src, filters, Range(ret), nexts'[z], iters'[z], n + 1, x)
    <3>1. x \in Written /\ x # Nil
      BY StoredFacts
    <3>2. CoveredGt(src, filters, Range(ret), Nil, it, n, x)
      BY <1>9, <2>10 DEF ShardRun
    <3>3. CASE x \in Range(ret) \/ \E f \in filters : ~ satisfiedBy(f, x)
      BY <3>3 DEF CoveredGt
    <3>4. CASE Reaches(src, it, x) /\ (it.at.fir > src.key \/ n = 0)
      <4>1. u >= src.key /\ (u > src.key \/ n = 0)
        BY <2>5, <3>4 DEF Reaches
      <4>2. iters'[z] = moved
        <5>1. mayRequireOneSkip(src.op)
          BY <2>10 DEF mayRequireOneSkip
        <5> QED
          BY <1>8, <2>8, <2>10, <4>1, <5>1
      <4>3. CASE KeyOf(src, x) = it.at
        <5>1. x.id = span.id
          BY <1>2, <2>2, <3>1, <4>3, KeyOfFacts
        <5>2. x = span
          BY <3>1, <5>1 DEF UniqueIds
        <5> QED
          BY <1>8, <2>10, <5>2 DEF CoveredGt
      <4>4. CASE KeyOf(src, x) # it.at
        <5>1. /\ Reaches(src, moved, x) /\ to \in it.keys /\ to # it.at
              /\ InSection(src, to) /\ to.fir >= it.at.fir
          <6>1. ~ IsDescending(src.op)
            BY <2>10 DEF IsDescending
          <6> QED
            BY <1>1, <1>2, <1>3, <1>4, <3>1, <3>4, <4>4, <6>1, MovesOn
        <5>2. PICK y \in SpansOf(startDb[z]) :
                 /\ y \in Written /\ Stored(y) /\ KeyOf(src, y) = to
                 /\ to.fir = extractRelevantSpanData(src, y)
          <6>1. PICK key \in iters[z].keys : key = to /\ key.tag = getIndexPrefix(src)
            BY <1>2, <5>1 DEF InSection
          <6> QED
            BY <1>2, <2>1, <2>2, <6>1, EntryStored DEF PagingInv
        <5>3. PICK v \in Int : v = to.fir /\ v = extractRelevantSpanData(src, y)
          BY <2>2, <5>2, ExtractFacts, UnsignedFacts
        <5>4. v # u
          BY <1>2, <2>1, <2>2, <2>4, <2>5, <5>1, <5>2, <5>3, NoTiesMeaning
        <5>5. v > src.key
          BY <2>5, <2>6, <4>1, <5>1, <5>3, <5>4
        <5> QED
          BY <1>6, <4>2, <5>1, <5>3, <5>5 DEF CoveredGt
      <4> QED
        BY <4>3, <4>4
    <3> QED
      BY <3>1, <3>2, <3>3, <3>4 DEF CoveredGt
  <2>11. nexts'[z] # Nil => Stored(nexts'[z])
    BY <1>8, <2>4
  <2> QED
    BY <2>9, <2>10, <2>11 DEF ShardRun
<1> QED
  BY <1>1, <1>2, <1>5, <1>7, <1>9, PagingShard

\* The best entry becomes a row of the page, or is refused.
LEMMA PagingChooses ==
    ASSUME UniqueIds, NonzeroIds, StoreInv, QueryInv, PagingInv, ChooseBest, pc' \in Reading
    PROVE  PagingInv'
<1>1. /\ pc = "choose" /\ pc \in Reading
      /\ UNCHANGED <<ldb, query, src, filters, iters, numRead, pages, startDb, writes>>
  BY DEF ChooseBest, clientVars, Reading
<1>2. CASE BestShards = {}
  <2>1. UNCHANGED <<nexts, ret>>
    BY <1>2 DEF ChooseBest
  <2> QED
    BY <1>1, <2>1, PagingSame
<1>3. CASE BestShards # {}
  <2>1. PICK b \in Shards : b = Min(BestShards) /\ nexts[b] # Nil
    BY <1>1, <1>3, BestFacts
  <2>2. PICK q \in Seq(Written) : q = ret
    BY DEF QueryInv, RunInv
  <2>3. PICK span \in Written : span = nexts[b] /\ span # Nil
    BY <1>1, <2>1 DEF QueryInv, RunInv, NextOK
  <2>4. /\ nexts' = [nexts EXCEPT ![b] = Nil]
        /\ ret' = (IF \A f \in filters : satisfiedBy(f, span) THEN Append(q, span) ELSE q)
    BY <1>3, <2>1, <2>2, <2>3 DEF ChooseBest
  <2>5. nexts'[b] = Nil /\ \A s \in Shards \ {b} : nexts'[s] = nexts[s]
    BY <2>4 DEF QueryInv, RunInv
  <2>6. /\ Range(ret) \subseteq Range(ret') /\ Range(ret') \subseteq Range(ret) \cup {span}
        /\ span \in Range(ret') \/ \E f \in filters : ~ satisfiedBy(f, span)
    <3>1. Range(Append(q, span)) = Range(q) \cup {span}
      BY RangeAppend
    <3> QED
      BY <2>2, <2>4, <3>1
  <2>7. PagesInv' /\ (PagingHyp' => PagingHyp)
    BY <1>1, PagesKept DEF PagingInv, Reading
  <2>8. CountInv'
    BY <1>1 DEF PagingInv, CountInv, Reading
  <2>9. ASSUME PagingHyp PROVE PageRun'
    <3>1. PageRun
      BY <1>1, <2>9 DEF PagingInv, PageRunInv
    <3>2. Stored(span) /\ ~ (src.op = "eq" /\ query.prev # Nil)
      BY <2>1, <2>3, <3>1 DEF PageRun, ShardRun, EqOver
    <3>3. \A r \in Range(ret') : Stored(r)
      BY <2>6, <3>1, <3>2 DEF PageRun
    <3>4. ASSUME NEW s \in Shards PROVE ShardRun(s, nexts[s], iters[s], numRead[s])'
      <4>1. ShardRun(s, nexts[s], iters[s], numRead[s])
        BY <3>1 DEF PageRun
      <4>2. nexts'[s] # Nil => Stored(nexts'[s])
        BY <2>5, <4>1 DEF ShardRun
      <4>3. EqOver(src, query.prev, nexts'[s], iters[s])
        BY <3>2 DEF EqOver
      <4>4. ASSUME src.op = "gt", NEW x \in SpansOf(startDb[s]), satisfiedBy(src, x)
            PROVE  CoveredGt(src, filters, Range(ret'), nexts'[s], iters[s], numRead[s], x)
        <5>1. CoveredGt(src, filters, Range(ret), nexts[s], iters[s], numRead[s], x)
          BY <4>1, <4>4 DEF ShardRun
        <5>2. CASE nexts[s] = x /\ s = b
          BY <2>3, <2>6, <5>2 DEF CoveredGt
        <5>3. CASE ~ (nexts[s] = x /\ s = b)
          <6>1. nexts[s] = x => nexts'[s] = x
            BY <2>5, <5>3
          <6> QED
            BY <2>6, <5>1, <6>1 DEF CoveredGt
        <5> QED
          BY <5>2, <5>3
      <4> QED
        BY <1>1, <4>2, <4>3, <4>4 DEF ShardRun, Stored
    <3> QED
      BY <1>1, <3>2, <3>3, <3>4 DEF PageRun, Stored
  <2> QED
    BY <2>7, <2>8, <2>9 DEF PagingInv, PageRunInv
<1> QED
  BY <1>2, <1>3

-----------------------------------------------------------------------------
\* The pages together.

\* The fields that the source and its adjusted form read are the same.
LEMMA SameField ==
    ASSUME NonzeroIds, QueryInv, pc \in Reading
    PROVE  /\ IsSource(Source) /\ IsSource(src) /\ src.field = Source.field
           /\ src = AdjustedPred(Source, query.prev) /\ query.prev \in Written \cup {Nil}
           /\ \A x : extractRelevantSpanData(src, x) = extractRelevantSpanData(Source, x)
<1>1. /\ IsSource(Source) /\ IsSource(src) /\ src.field = Source.field
      /\ src = AdjustedPred(Source, query.prev) /\ query.prev \in Written \cup {Nil}
  BY SourceOK DEF QueryInv, QueryOK, Source, Reading
<1> QED
  BY <1>1 DEF extractRelevantSpanData

\* What a page after the first one asks for.
LEMMA Continued ==
    ASSUME NonzeroIds, QueryInv, pc \in Reading, query.prev # Nil, Source.op \in {"eq", "ge", "gt"}
    PROVE  /\ Source.op = "eq" => src.op = "eq"
           /\ Source.op # "eq" => /\ src.op = "gt"
                                  /\ src.key = extractRelevantSpanData(Source, query.prev)
<1>1. PICK p : p = Source /\ IsSource(p)
  BY SameField
<1>2. PICK prev \in Written : prev = query.prev /\ prev # Nil /\ src = AdjustedPred(p, prev)
  BY <1>1, SameField
<1>3. /\ src.op = (IF p.op = "ge" THEN "gt" ELSE p.op)
      /\ p.field # "spanid" => src.key = extractRelevantSpanData(p, prev)
      /\ p.field = "spanid" => src.key = CASE p.op = "eq" -> 0
                                          [] p.op = "le" -> prev.id - 1
                                          [] p.op \in {"ge", "gt"} -> prev.id
  BY <1>1, <1>2, AdjustedSource
<1>4. p.field = "spanid" => extractRelevantSpanData(p, prev) = prev.id
  BY DEF extractRelevantSpanData
<1> QED
  BY <1>1, <1>2, <1>3, <1>4

\* The rows of a page come after those of the pages before it.
LEMMA PageBehind ==
    ASSUME NonzeroIds, StoreInv, QueryInv, PagingInv, PagingHyp, pc \in Reading,
           NEW i \in 1 .. Len(pages), NEW r \in Range(ret)
    PROVE  extractRelevantSpanData(Source, pages[i]) < extractRelevantSpanData(Source, r)
<1>1. PICK p : p = Source /\ IsSource(p)
  BY SameField
<1>2. PICK P \in Seq(Written) : P = pages /\ PagesOK(p, query.prev, P, Expected)
  BY <1>1 DEF PagingInv, PagesInv, CountInv
<1>3. Len(P) \in Nat /\ i \in 1 .. Len(P) /\ P # <<>>
  BY <1>2
<1>4. PICK prev : prev = query.prev /\ prev = P[Len(P)] /\ prev # Nil /\ prev \in Written
  <2>1. query.prev = P[Len(P)] /\ query.prev # Nil
    BY <1>2, <1>3 DEF PagesOK
  <2> QED
    BY <1>3, <2>1
<1>5. PICK u \in Int : u = extractRelevantSpanData(p, P[i])
  BY <1>1, <1>3, ExtractFacts, UnsignedFacts DEF IsSource
<1>6. PICK v \in Int : v = extractRelevantSpanData(p, prev)
  BY <1>1, <1>4, ExtractFacts, UnsignedFacts DEF IsSource
<1>7. u <= v
  <2>1. CASE i = Len(P)
    BY <1>4, <1>5, <1>6, <2>1
  <2>2. CASE i # Len(P)
    <3>1. i < Len(P) /\ Len(P) \in 1 .. Len(P)
      BY <1>3, <2>2
    <3>2. extractRelevantSpanData(p, P[i]) < extractRelevantSpanData(p, P[Len(P)])
      BY <1>2, <1>3, <3>1 DEF PagesOK
    <3> QED
      BY <1>4, <1>5, <1>6, <3>2
  <2> QED
    BY <2>1, <2>2
<1>8. r \in Written /\ satisfiedBy(src, r)
  <2>1. PICK q \in Seq(Written) : q = ret /\ Rows(src, filters, q)
    BY DEF QueryInv, RunInv
  <2>2. PICK k \in 1 .. Len(q) : r = q[k]
    BY <2>1, RangeEquality
  <2> QED
    BY <2>1, <2>2 DEF Rows
<1>9. ret # <<>>
  BY RangeEmpty
<1>10. ~ (src.op = "eq" /\ query.prev # Nil)
  BY <1>9 DEF PagingInv, PageRunInv, PageRun
<1>11. src.op = "gt" /\ src.key = v
  BY <1>1, <1>4, <1>6, <1>10, Continued DEF PagingHyp
<1>12. PICK w \in Int : w = extractRelevantSpanData(p, r)
  BY <1>1, <1>8, ExtractFacts, UnsignedFacts DEF IsSource
<1>13. w > v
  BY <1>1, <1>8, <1>11, <1>12, SatisfiedFacts, SameField
<1> QED
  BY <1>1, <1>2, <1>5, <1>7, <1>12, <1>13

\* The spans that a client has received ascend.
LEMMA ReceivedAscend ==
    ASSUME UniqueIds, NonzeroIds, StoreInv, QueryInv, PagingInv, PagingHyp, pc \in Reading,
           NEW P, P = pages \o ret
    PROVE  /\ P \in Seq(Written) /\ Len(P) = Len(pages) + Len(ret) /\ Range(P) = Range(pages) \cup Range(ret)
           /\ \A i \in 1 .. Len(P) :
                 P[i] = IF i <= Len(pages) THEN pages[i] ELSE ret[i - Len(pages)]
           /\ \A i, j \in 1 .. Len(P) : i < j =>
                 extractRelevantSpanData(Source, P[i]) < extractRelevantSpanData(Source, P[j])
<1>1. PICK p : p = Source /\ IsSource(p)
  BY SameField
<1>2. PICK A \in Seq(Written) : A = pages /\ PagesOK(p, query.prev, A, Expected)
  BY <1>1 DEF PagingInv, PagesInv, CountInv
<1>3. PICK B \in Seq(Written) : B = ret /\ Rows(src, filters, B)
  BY DEF QueryInv, RunInv
<1>4. Len(A) \in Nat /\ Len(B) \in Nat /\ P \in Seq(Written) /\ Len(P) = Len(A) + Len(B)
  <2>1. A \o B \in Seq(Written) /\ Len(A \o B) = Len(A) + Len(B)
    OBVIOUS
  <2> QED
    BY <1>2, <1>3, <2>1
<1>5. \A i \in 1 .. Len(P) : P[i] = IF i <= Len(A) THEN A[i] ELSE B[i - Len(A)]
  <2>1. \A i \in 1 .. Len(A) + Len(B) : (A \o B)[i] = IF i <= Len(A) THEN A[i] ELSE B[i - Len(A)]
    OBVIOUS
  <2> QED
    BY <1>2, <1>3, <1>4, <2>1
<1>6. Range(P) = Range(A) \cup Range(B)
  <2>1. Range(A \o B) = Range(A) \cup Range(B)
    BY RangeConcatenation
  <2> QED
    BY <1>2, <1>3, <2>1, Zenon
<1>7. ASSUME NEW k \in 1 .. Len(B), NEW l \in 1 .. Len(B), k < l
      PROVE  extractRelevantSpanData(p, B[k]) < extractRelevantSpanData(p, B[l])
  <2>1. /\ B[k].id # B[l].id /\ B[k] \in Written /\ B[l] \in Written
        /\ ~ Before(src, extractRelevantSpanData(src, B[l]), extractRelevantSpanData(src, B[k]))
    BY <1>3, <1>7 DEF Rows
  <2>2. Stored(B[k]) /\ Stored(B[l])
    <3>1. B[k] \in Range(B) /\ B[l] \in Range(B)
      BY RangeEquality
    <3> QED
      BY <1>3, <3>1 DEF PagingInv, PageRunInv, PageRun
  <2>3. PICK u \in Int : u = extractRelevantSpanData(p, B[k]) /\ u = extractRelevantSpanData(src, B[k])
    BY <1>1, <2>1, ExtractFacts, UnsignedFacts, SameField DEF IsSource
  <2>4. PICK v \in Int : v = extractRelevantSpanData(p, B[l]) /\ v = extractRelevantSpanData(src, B[l])
    BY <1>1, <2>1, ExtractFacts, UnsignedFacts, SameField DEF IsSource
  <2>5. u # v
    <3>1. p.field \in NumericFields /\ p.field = Source.field /\ NoTies
      BY <1>1 DEF IsSource, PagingHyp
    <3> QED
      BY <2>1, <2>2, <2>3, <2>4, <3>1, NoTiesMeaning
  <2>6. ~ (v < u)
    <3>1. ~ IsDescending(src.op)
      BY <1>1, SourceOK DEF QueryInv, Source, PagingHyp, IsDescending
    <3> QED
      BY <2>1, <2>3, <2>4, <3>1 DEF Before
  <2> QED
    BY <2>3, <2>4, <2>5, <2>6
<1>8. ASSUME NEW i \in 1 .. Len(P), NEW j \in 1 .. Len(P), i < j
      PROVE  extractRelevantSpanData(p, P[i]) < extractRelevantSpanData(p, P[j])
  <2>1. CASE j <= Len(A)
    <3>1. i \in 1 .. Len(A) /\ j \in 1 .. Len(A) /\ P[i] = A[i] /\ P[j] = A[j]
      BY <1>4, <1>5, <1>8, <2>1
    <3> QED
      BY <1>2, <1>8, <3>1 DEF PagesOK
  <2>2. CASE i <= Len(A) /\ ~ (j <= Len(A))
    <3>1. i \in 1 .. Len(A) /\ j - Len(A) \in 1 .. Len(B) /\ P[i] = A[i] /\ P[j] = B[j - Len(A)]
      BY <1>4, <1>5, <1>8, <2>2
    <3>2. P[j] \in Range(B)
      BY <3>1, RangeEquality
    <3> QED
      BY <1>1, <1>2, <1>3, <3>1, <3>2, PageBehind
  <2>3. CASE ~ (i <= Len(A)) /\ ~ (j <= Len(A))
    <3>1. PICK k \in 1 .. Len(B), l \in 1 .. Len(B) : k < l /\ P[i] = B[k] /\ P[j] = B[l]
      <4>1. P[i] = B[i - Len(A)] /\ P[j] = B[j - Len(A)]
        BY <1>5, <2>3
      <4>2. /\ i - Len(A) \in 1 .. Len(B) /\ j - Len(A) \in 1 .. Len(B)
            /\ i - Len(A) < j - Len(A)
        BY <1>4, <1>8, <2>3
      <4> QED
        BY <4>1, <4>2
    <3> QED
      BY <1>7, <3>1
  <2> QED
    BY <1>4, <1>8, <2>1, <2>2, <2>3
<1> QED
  BY <1>1, <1>2, <1>3, <1>4, <1>5, <1>6, <1>8

\* What a shard still has to offer does not come before a row of the page.
LEMMA StillBehind ==
    ASSUME NonzeroIds, QueryInv, pc \in Reading, ~ IsDescending(src.op),
           NEW s \in Shards, NEW x \in Written, x # Nil,
           nexts[s] = x \/ Reaches(src, iters[s], x), NEW r \in Range(ret)
    PROVE  ~ (extractRelevantSpanData(src, x) < extractRelevantSpanData(src, r))
<1>1. RunInv /\ IsSource(src)
  BY SameField DEF QueryInv
<1>2. CASE nexts[s] = x
  BY <1>1, <1>2 DEF RunInv, NextOK, Before
<1>3. CASE Reaches(src, iters[s], x)
  <2>1. PICK it \in Iterator : /\ it = iters[s] /\ Reaches(src, it, x)
                               /\ AtOK(src, s, nexts[s], it.at, Range(ret))
    BY <1>1, <1>3 DEF RunInv, Reaches, QueryInv, SnapInv, Snapshot
  <2>2. InSection(src, it.at) /\ ~ KeyLess(KeyOf(src, x), it.at)
    BY <2>1 DEF Reaches
  <2>3. PICK at \in Key : at = it.at
    BY <2>2 DEF InSection, Iterator, Invalid
  <2>4. ~ (at.fir < extractRelevantSpanData(src, r))
    BY <2>1, <2>2, <2>3 DEF AtOK, Before
  <2>5. r \in Written
    BY <1>1, RangeType DEF RunInv
  <2>6. PICK u \in Int : u = extractRelevantSpanData(src, x)
    BY <1>1, ExtractFacts, UnsignedFacts DEF IsSource
  <2>7. PICK v \in Int : v = extractRelevantSpanData(src, r)
    BY <1>1, <2>5, ExtractFacts, UnsignedFacts DEF IsSource
  <2>8. KeyOf(src, x).tag = at.tag /\ KeyOf(src, x).fir = u
    BY <1>1, <2>2, <2>3, <2>6, KeyOfFacts DEF IsSource, InSection
  <2>9. ~ (u < at.fir)
    BY <2>2, <2>3, <2>8 DEF KeyLess
  <2>10. at.fir \in Int
    BY HalfRangeAssumption DEF Key, NoId
  <2> QED
    BY <2>4, <2>6, <2>7, <2>9, <2>10
<1> QED
  BY <1>2, <1>3

\* An expected span that was not received before is on the page, or a shard still
\* has to offer it.
LEMMA StillExpected ==
    ASSUME NonzeroIds, StoreInv, QueryInv, PagingInv, PagingHyp, pc \in Reading,
           NEW x \in Expected, x \notin Range(pages)
    PROVE  /\ Stored(x) /\ x \in Written /\ x # Nil
           /\ x \in Range(ret) \/ \E s \in Shards : nexts[s] = x \/ Reaches(src, iters[s], x)
<1>1. PICK s \in Shards : x \in SpansOf(startDb[s])
  BY DEF Expected, SpansOf
<1>2. Stored(x) /\ x \in Written /\ x # Nil
  BY <1>1, StoredFacts
<1>3. PICK p : p = Source /\ IsSource(p) /\ p.op \in {"eq", "ge", "gt"}
  BY SameField DEF PagingHyp
<1>4. \A y \in Written : Matches(query.preds, y) <=>
         satisfiedBy(p, y) /\ \A f \in filters : satisfiedBy(f, y)
  <2>1. query.preds \in Preds /\ Loads(query.preds) /\ filters = FilterPreds(query.preds)
    BY DEF QueryInv, QueryOK, Started, Reading
  <2> QED
    BY <1>3, <2>1, SourceMeaning DEF Source
<1>5. satisfiedBy(p, x) /\ \A f \in filters : satisfiedBy(f, x)
  BY <1>2, <1>4 DEF Expected
<1>6. satisfiedBy(src, x) /\ src.op \in {"eq", "ge", "gt"} /\ (query.prev # Nil => src.op = "gt")
  <2>1. CASE query.prev = Nil
    BY <1>3, <1>5, <2>1, SameField DEF AdjustedPred
  <2>2. CASE query.prev # Nil
    <3>1. PICK prev \in Written : /\ prev = query.prev /\ prev # Nil
                                  /\ PagesOK(p, prev, pages, Expected) /\ satisfiedBy(p, prev)
      BY <1>3, <1>4, <2>2, PrevStored DEF PagingInv, PagesInv, QueryInv, QueryOK, Reading
    <3>2. PICK u \in Int : u = extractRelevantSpanData(p, x) /\ u = extractRelevantSpanData(src, x)
      BY <1>2, <1>3, ExtractFacts, UnsignedFacts, SameField DEF IsSource
    <3>3. PICK v \in Int : v = extractRelevantSpanData(p, prev)
      BY <1>3, ExtractFacts, UnsignedFacts DEF IsSource
    <3>4. v < u
      BY <3>1, <3>2, <3>3 DEF PagesOK
    <3>5. p.op # "eq"
      <4>1. p.op = "eq" => u = p.key
        BY <1>5, <3>2, SatisfiedFacts
      <4>2. p.op = "eq" => v = p.key
        BY <3>1, <3>3, SatisfiedFacts
      <4> QED
        BY <3>4, <4>1, <4>2
    <3>6. src.op = "gt" /\ src.key = v
      BY <1>3, <2>2, <3>1, <3>3, <3>5, Continued
    <3> QED
      BY <3>2, <3>4, <3>6, SatisfiedFacts
  <2> QED
    BY <2>1, <2>2
<1>7. query.lim > 0 /\ PageRun /\ CompleteInv
  BY DEF PagingHyp, PagingInv, PageRunInv, QueryInv
<1>8. CASE src.op = "gt"
  <2>1. CoveredGt(src, filters, Range(ret), nexts[s], iters[s], numRead[s], x)
    BY <1>1, <1>6, <1>7, <1>8 DEF PageRun, ShardRun
  <2> QED
    BY <1>2, <1>5, <2>1 DEF CoveredGt
<1>9. CASE src.op # "gt"
  <2>1. Covered(src, filters, Range(ret), nexts[s], iters[s], x)
    BY <1>1, <1>6, <1>7, <1>9 DEF CompleteInv
  <2> QED
    BY <1>2, <1>5, <2>1 DEF Covered
<1> QED
  BY <1>8, <1>9

\* The next page begins behind the spans that were received, and nothing that is
\* expected comes before it.
LEMMA PagesGrow ==
    ASSUME UniqueIds, NonzeroIds, StoreInv, QueryInv, PagingInv, PagingHyp, pc = "done", ret # <<>>,
           NEW P, P = pages \o ret, NEW last, last = ret[Len(ret)]
    PROVE  PagesOK(Source, last, P, Expected)
<1>1. pc \in Reading
  BY DEF Reading
<1>2. PICK A \in Seq(Written) : A = pages /\ \A i \in 1 .. Len(A) : A[i] \in Expected
  BY DEF PagingInv, PagesInv, CountInv, PagesOK
<1>3. PICK B \in Seq(Written) : B = ret /\ Rows(src, filters, B) /\ B # <<>>
  BY <1>1 DEF QueryInv, RunInv
<1>4. /\ P \in Seq(Written) /\ Len(P) = Len(A) + Len(B) /\ Range(P) = Range(A) \cup Range(B)
      /\ \A i \in 1 .. Len(P) : P[i] = IF i <= Len(A) THEN A[i] ELSE B[i - Len(A)]
      /\ \A i, j \in 1 .. Len(P) : i < j =>
            extractRelevantSpanData(Source, P[i]) < extractRelevantSpanData(Source, P[j])
  BY <1>1, <1>2, <1>3, ReceivedAscend
<1>5. Len(A) \in Nat /\ Len(B) \in Nat /\ Len(B) > 0
  BY <1>3
<1>6. P # <<>> /\ last = P[Len(P)] /\ last \in Range(B) /\ last \in Written /\ last # Nil
  <2>1. Len(P) \in 1 .. Len(P) /\ ~ (Len(P) <= Len(A)) /\ Len(P) - Len(A) = Len(B) /\ Len(P) # 0
    BY <1>4, <1>5
  <2>2. P[Len(P)] = B[Len(B)]
    BY <1>4, <2>1
  <2>3. Len(B) \in 1 .. Len(B)
    BY <1>5
  <2>4. B[Len(B)] \in Range(B) /\ B[Len(B)] \in Written
    BY <2>3, RangeEquality
  <2>5. P # <<>>
    BY <2>1
  <2> QED
    BY <1>3, <2>2, <2>4, <2>5, SpanFacts
<1>7. \A r \in Range(B) : r \in Expected /\ Stored(r)
  <2> SUFFICES ASSUME NEW r \in Range(B) PROVE r \in Expected /\ Stored(r)
    OBVIOUS
  <2>1. Stored(r)
    BY <1>1, <1>3 DEF PagingInv, PageRunInv, PageRun
  <2>2. PICK k \in 1 .. Len(B) : r = B[k]
    BY RangeEquality
  <2>3. satisfiedBy(src, r) /\ \A f \in filters : satisfiedBy(f, r)
    BY <1>3, <2>2 DEF Rows
  <2>4. r \in Written /\ r # Nil
    BY <2>1, StoredFacts
  <2>5. Matches(query.preds, r)
    BY <1>1, <2>3, <2>4, RowsMatch DEF QueryInv
  <2> QED
    BY <2>1, <2>4, <2>5 DEF Expected, Stored, SpansOf
<1>8. ASSUME NEW i \in 1 .. Len(P) PROVE P[i] \in Expected
  <2>1. CASE i <= Len(A)
    <3>1. i \in 1 .. Len(A) /\ P[i] = A[i]
      BY <1>4, <1>5, <2>1
    <3> QED
      BY <1>2, <3>1
  <2>2. CASE ~ (i <= Len(A))
    <3>1. P[i] = B[i - Len(A)]
      BY <1>4, <2>2
    <3>2. i - Len(A) \in 1 .. Len(B)
      BY <1>4, <1>5, <2>2
    <3>3. P[i] \in Range(B)
      BY <3>1, <3>2, RangeEquality
    <3> QED
      BY <1>7, <3>3
  <2> QED
    BY <2>1, <2>2
<1>9. ASSUME NEW x \in Expected, x \notin Range(P)
      PROVE  extractRelevantSpanData(Source, last) < extractRelevantSpanData(Source, x)
  <2>1. x \notin Range(pages) /\ x \notin Range(ret)
    BY <1>2, <1>3, <1>4, <1>9
  <2>2. /\ Stored(x) /\ x \in Written /\ x # Nil
        /\ \E s \in Shards : nexts[s] = x \/ Reaches(src, iters[s], x)
    BY <1>1, <2>1, StillExpected
  <2>3. ~ IsDescending(src.op)
    BY <1>1, SourceOK DEF QueryInv, Source, PagingHyp, IsDescending
  <2>4. ~ (extractRelevantSpanData(src, x) < extractRelevantSpanData(src, last))
    BY <1>1, <1>3, <1>6, <2>2, <2>3, StillBehind
  <2>5. PICK p : p = Source /\ IsSource(p)
    BY <1>1, SameField
  <2>6. PICK u \in Int : u = extractRelevantSpanData(p, x) /\ u = extractRelevantSpanData(src, x)
    BY <1>1, <2>2, <2>5, ExtractFacts, UnsignedFacts, SameField DEF IsSource
  <2>7. PICK v \in Int : v = extractRelevantSpanData(p, last) /\ v = extractRelevantSpanData(src, last)
    BY <1>1, <1>6, <2>5, ExtractFacts, UnsignedFacts, SameField DEF IsSource
  <2>8. u # v
    <3>1. p.field \in NumericFields /\ p.field = Source.field /\ NoTies
      BY <2>5 DEF IsSource, PagingHyp
    <3>2. x # last /\ Stored(last)
      BY <1>3, <1>6, <1>7, <2>1
    <3> QED
      BY <2>2, <2>6, <2>7, <3>1, <3>2, NoTiesMeaning
  <2> QED
    BY <2>4, <2>5, <2>6, <2>7, <2>8
<1> QED
  BY <1>4, <1>6, <1>8, <1>9 DEF PagesOK

\* The client asks for the next page.
LEMMA PagingPages ==
    ASSUME UniqueIds, NonzeroIds, StoreInv, QueryInv, PagingInv, NextPage
    PROVE  PagingInv'
<1>1. /\ pc = "done" /\ ret # <<>> /\ query' = [query EXCEPT !.prev = ret[Len(ret)]]
      /\ pages' = pages \o ret /\ pc' = "load" /\ numRead' = [s \in Shards |-> 0]
      /\ UNCHANGED <<ldb, startDb, writes>>
  BY DEF NextPage
<1>2. query \in [preds: Preds, lim: Int, prev: Written \cup {Nil}]
  BY <1>1 DEF QueryInv, QueryOK
<1>3. query'.preds = query.preds /\ query'.lim = query.lim /\ query'.prev = ret[Len(ret)]
  BY <1>1, <1>2
<1>4. PICK A \in Seq(Written) : A = pages
  BY DEF PagingInv, CountInv
<1>5. PICK B \in Seq(Written) : B = ret
  BY DEF QueryInv, RunInv
<1>6. A \o B \in Seq(Written) /\ \A i \in 1 .. Len(A) : i \in 1 .. Len(A \o B) /\ (A \o B)[i] = A[i]
  OBVIOUS
<1>7. Results(pages) \subseteq Results(pages)'
  <2>1. Results(A) \subseteq Results(A \o B)
    BY <1>6 DEF Results
  <2>2. Results(pages)' = Results(A \o B)
    BY <1>1, <1>4, <1>5 DEF Results
  <2> QED
    BY <1>4, <2>1, <2>2
<1>8. CountInv'
  <2>1. pages' \in Seq(Written)
    BY <1>1, <1>4, <1>5, <1>6
  <2> QED
    BY <1>1, <2>1 DEF PagingInv, CountInv
<1>9. (PagingHyp' => PagingHyp) /\ Expected' = Expected /\ Source' = Source
  BY <1>1, <1>3, <1>7, HypCarries
<1>10. ASSUME PagingHyp PROVE PagesOK(Source, query'.prev, pages', Expected)
  BY <1>1, <1>3, <1>10, PagesGrow
<1>11. PagesInv'
  BY <1>9, <1>10 DEF PagesInv
<1> QED
  BY <1>1, <1>8, <1>11 DEF PagingInv, PageRunInv, Reading

\* Every step keeps the invariant of paging.
LEMMA PagingStep ==
    ASSUME UniqueIds, NonzeroIds, StoreInv, QueryInv, PagingInv, QueryInv', [ReadNext]_readVars
    PROVE  PagingInv'
<1>1. ASSUME UNCHANGED <<ldb, queryVars, writes>> PROVE PagingInv'
  BY <1>1, PagingSame DEF queryVars, sourceVars, clientVars
<1>2. CASE Next
  <2>1. CASE \E span \in Written : Write(span)
    BY <2>1, PagingWrite
  <2>2. CASE LoadPredicates \/ OpenIterator \/ SeekIterators
    BY <2>2, PagingOpens, PagingSeeks
  <2>3. CASE AlreadyPopulated
    <3>1. /\ pc = "populate" /\ pc' \in {"populate", "choose"}
          /\ UNCHANGED <<ldb, query, src, filters, iters, nexts, numRead, ret, pages, startDb, writes>>
      BY <2>3 DEF AlreadyPopulated, AdvanceShard, clientVars
    <3> QED
      BY <3>1, PagingSame DEF Reading
  <2>4. CASE EndOfShard \/ ReadEntry \/ ChooseBest
    <3>1. pc \in {"populate", "choose"} /\ pc' # pc => pc' \in {"populate", "choose", "done", "panicked"}
      BY <2>4 DEF EndOfShard, ReadEntry, ChooseBest, AdvanceShard
    <3>2. pc \in {"populate", "choose"}
      BY <2>4 DEF EndOfShard, ReadEntry, ChooseBest
    <3>3. pc' # "panicked"
      BY DEF QueryInv, QueryOK, Started, Reading
    <3>4. pc' \in Reading
      BY <3>1, <3>2, <3>3 DEF Reading
    <3> QED
      BY <2>4, <3>4, PagingEnds, PagingReads, PagingChooses
  <2>5. CASE NextPage
    BY <2>5, PagingPages
  <2> QED
    BY <1>2, <2>1, <2>2, <2>3, <2>4, <2>5 DEF Next
<1>3. CASE ServeFindChildren \/ VisitShard \/ LimitReached
  BY <1>1, <1>3 DEF ServeFindChildren, VisitShard, LimitReached
<1>4. CASE UNCHANGED readVars
  BY <1>1, <1>4 DEF readVars, vars, queryVars, sourceVars, clientVars
<1> QED
  BY <1>2, <1>3, <1>4 DEF ReadNext

\* The invariant gives what a paging client may rely on.
LEMMA PagingFollows ==
    ASSUME UniqueIds, NonzeroIds, StoreInv, QueryInv, PagingInv
    PROVE  PagingExact
<1> SUFFICES ASSUME pc \notin {"load", "error"}, query.lim > 0, writes = 0,
                    Source.op \in {"eq", "ge", "gt"}, NoTies,
                    \A span \in Results(pages) : span.id # 2 * HalfRange - 1
             PROVE  /\ Distinct(pages \o ret)
                    /\ pc = "done" /\ ret = <<>> => Results(pages) = Expected
  BY DEF PagingExact
<1>1. pc \in Started /\ Loads(query.preds)
  <2>1. pc # "idle"
    BY DEF QueryInv, QueryOK
  <2> QED
    BY <2>1 DEF QueryInv, QueryOK
<1>2. PagingHyp
  BY <1>1 DEF PagingHyp, Started, Reading
<1>3. PICK p : p = Source
  OBVIOUS
<1>4. PICK A \in Seq(Written) : A = pages /\ PagesOK(p, query.prev, A, Expected)
  BY <1>2, <1>3 DEF PagingInv, PagesInv, CountInv
<1>5. PICK B \in Seq(Written) : B = ret
  BY DEF QueryInv, RunInv
<1>6. PICK P \in Seq(Written) :
         /\ P = pages \o ret
         /\ \A i, j \in 1 .. Len(P) : i < j =>
               extractRelevantSpanData(p, P[i]) < extractRelevantSpanData(p, P[j])
  <2>1. CASE pc \in Reading
    BY <1>2, <1>3, <2>1, ReceivedAscend
  <2>2. CASE pc \notin Reading
    <3>1. ret = <<>> /\ A \o <<>> = A
      BY <2>2 DEF QueryInv, QueryOK
    <3>2. \A i, j \in 1 .. Len(A) : i < j =>
             extractRelevantSpanData(p, A[i]) < extractRelevantSpanData(p, A[j])
      BY <1>4 DEF PagesOK
    <3>3. A = pages \o ret
      BY <1>4, <3>1, Zenon
    <3> QED
      BY <3>2, <3>3, Zenon
  <2> QED
    BY <2>1, <2>2
<1>7. Distinct(P)
  <2> SUFFICES ASSUME NEW i \in 1 .. Len(P), NEW j \in 1 .. Len(P), P[i].id = P[j].id PROVE i = j
    BY DEF Distinct
  <2>1. P[i] = P[j] /\ P[i] \in Written
    BY DEF UniqueIds
  <2>2. PICK v \in Int : v = extractRelevantSpanData(p, P[i]) /\ v = extractRelevantSpanData(p, P[j])
    <3>1. p.field \in NumericFields
      BY <1>1, <1>3, SourceMeaning DEF QueryInv, QueryOK, Started, Reading, Source, IsSource
    <3> QED
      BY <2>1, <3>1, ExtractFacts, UnsignedFacts
  <2>3. ~ (v < v)
    OBVIOUS
  <2>4. ~ (i < j) /\ ~ (j < i)
    BY <1>6, <2>2, <2>3
  <2> QED
    BY <2>4
<1>8. ASSUME pc = "done", ret = <<>> PROVE Results(pages) = Expected
  <2>1. Results(pages) = Range(A) /\ Results(pages) \subseteq Expected
    <3>1. Range(A) = {A[i] : i \in 1 .. Len(A)}
      BY RangeEquality
    <3>2. \A i \in 1 .. Len(A) : A[i] \in Expected
      BY <1>4 DEF PagesOK
    <3>3. Results(pages) = {A[i] : i \in 1 .. Len(A)}
      BY <1>4 DEF Results
    <3> QED
      BY <3>1, <3>2, <3>3
  <2>2. \A s \in Shards : iters[s] = Nil /\ nexts[s] = Nil
    <3>1. Len(ret) = 0
      BY <1>8
    <3>2. query.lim \in Int
      BY <1>8 DEF QueryInv, QueryOK
    <3> QED
      BY <1>8, <3>1, <3>2 DEF QueryInv, DoneInv
  <2>3. ASSUME NEW x \in Expected, x \notin Range(pages) PROVE FALSE
    <3>1. pc \in Reading /\ Range(ret) = {}
      BY <1>8, RangeEmpty DEF Reading
    <3>2. /\ x # Nil
          /\ x \in Range(ret) \/ \E s \in Shards : nexts[s] = x \/ Reaches(src, iters[s], x)
      BY <1>2, <2>3, <3>1, StillExpected
    <3> QED
      BY <2>2, <3>1, <3>2 DEF Reaches
  <2> QED
    BY <1>4, <2>1, <2>3
<1> QED
  BY <1>6, <1>7, <1>8

\* SpanQuery: when no id is used for two spans and none is 0, a client that pages
\* through an ascending query, while nothing is written, receives no span twice, and
\* has received every matching span when a page is empty, if no two stored spans
\* agree on the field of the source and the largest id was not received.  This holds
\* for any number of shards and of pages, and any positive limit.
THEOREM PagingIsExact ==
    ASSUME UniqueIds, NonzeroIds
    PROVE  ReadSpec => []PagingExact
<1>1. ReadInit => StoreInv /\ SearchType /\ SearchInv /\ QueryInv /\ PagingInv
  BY StoreInitExact, SearchInit, QueryStarts, PagingStarts DEF ReadInit
<1>2. StoreInv /\ SearchType /\ SearchInv /\ QueryInv /\ PagingInv /\ [ReadNext]_readVars
         => (StoreInv /\ SearchType /\ SearchInv /\ QueryInv /\ PagingInv)'
  <2> SUFFICES ASSUME StoreInv, SearchType, SearchInv, QueryInv, PagingInv, [ReadNext]_readVars
               PROVE  (StoreInv /\ SearchType /\ SearchInv /\ QueryInv /\ PagingInv)'
    OBVIOUS
  <2>1. (StoreInv /\ SearchType /\ SearchInv)'
    BY ReadStep
  <2>2. QueryInv'
    BY QueryStep
  <2> QED
    BY <2>1, <2>2, PagingStep
<1>3. StoreInv /\ QueryInv /\ PagingInv => PagingExact
  BY PagingFollows
<1> QED
  BY <1>1, <1>2, <1>3, PTL DEF ReadSpec

=============================================================================
