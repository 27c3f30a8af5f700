-------------------------- MODULE DataStoreProofs --------------------------
(***************************************************************************)
(* Machine-checked proofs about the span store, for any number of shards,  *)
(* handlers, identifiers and times, any buffer size and any requests.      *)
(***************************************************************************)
EXTENDS DataStore, TLAPS

-----------------------------------------------------------------------------
\* The schema.

\* s2u64 (datastore.go:183) maps the signed range into the unsigned one.
LEMMA S2U64Type ==
    ASSUME NEW v \in SignedRange
    PROVE  s2u64(v) \in UnsignedRange
BY HalfRangeAssumption, SMT
   DEF SignedRange, UnsignedRange, s2u64, FlipHighBit, ToUnsigned

\* The order of the unsigned index keys is the order of the signed times:
\* "negative input values map to unsigned numbers which are less than
\* non-negative input values" (datastore.go:180-182).
THEOREM S2U64PreservesOrder ==
    ASSUME NEW v \in SignedRange, NEW w \in SignedRange
    PROVE  v < w <=> s2u64(v) < s2u64(w)
BY HalfRangeAssumption, SMT
   DEF SignedRange, s2u64, FlipHighBit, ToUnsigned

\* The wrapped difference of two times is an int64 again (span.go:138).
LEMMA DurationType ==
    ASSUME NEW span \in Span
    PROVE  Duration(span) \in SignedRange
<1>1. span.begin \in SignedRange /\ span.end \in SignedRange
  BY TimesAssumption DEF Span, SignedRange
<1>2. HalfRange \in Int /\ HalfRange > 0
  BY HalfRangeAssumption
<1> QED
  BY <1>1, <1>2 DEF SignedRange, Duration

\* Every key of the batch of a span is a well-formed index key for that span.
LEMMA IndexKeysType ==
    ASSUME NEW span \in Span
    PROVE  /\ IndexKeys(span) \subseteq IndexKey
           /\ \A key \in IndexKeys(span) : key.sec = span.id
<1>1. /\ span.id \in SpanIds /\ span.parents \subseteq UnsignedRange
      /\ span.begin \in SignedRange /\ span.end \in SignedRange
  BY SpanIdsAssumption, TimesAssumption DEF Span, UnsignedRange, SignedRange
<1>2. /\ s2u64(span.begin) \in UnsignedRange
      /\ s2u64(span.end) \in UnsignedRange
      /\ s2u64(Duration(span)) \in UnsignedRange
  BY <1>1, S2U64Type, DurationType
<1> QED
  BY <1>1, <1>2 DEF IndexKeys, IndexKey, IndexTag, makeSecondaryKey

\* getShardIndex names a shard.
LEMMA ShardIndexType ==
    ASSUME NEW id \in SpanIds
    PROVE  getShardIndex(id) \in Shards
BY NumShardsAssumption, SpanIdsAssumption, SMT DEF getShardIndex, Shards

\* The batch of a span turns a database into a database.
LEMMA PutBatchType ==
    ASSUME NEW db \in DB, NEW span \in Span
    PROVE  PutBatch(db, span) \in DB
BY IndexKeysType DEF PutBatch, DB, Span

\* A new LevelDB instance is a database.
LEMMA EmptyDBType == EmptyDB \in DB
BY DEF EmptyDB, DB

\* What is left of a channel after a receive.
LEMMA TailElements ==
    ASSUME NEW S, NEW q \in Seq(S), q # <<>>, NEW i \in 1 .. Len(Tail(q))
    PROVE  i + 1 \in 1 .. Len(q) /\ Tail(q)[i] = q[i + 1]
<1>1. Len(q) \in Nat /\ Len(q) # 0
  OBVIOUS
<1>2. Len(Tail(q)) = Len(q) - 1
  BY <1>1
<1> QED
  BY <1>1, <1>2

-----------------------------------------------------------------------------
\* Type correctness.

\* Every action of the store keeps its state well formed.
THEOREM TypeCorrect == Spec => []TypeOK
<1>1. Init => TypeOK
  BY EmptyDBType, NumShardsAssumption
     DEF Init, TypeOK, ProcPc, HandlerPc, ClosePc
<1>2. TypeOK /\ [Next]_vars => TypeOK'
  <2> SUFFICES ASSUME TypeOK, [Next]_vars PROVE TypeOK'
    OBVIOUS
  <2> USE DEF TypeOK
  <2>1. ASSUME NEW h \in Handlers, BeginWriteRequest(h) PROVE TypeOK'
    BY <2>1, RequestsAssumption
       DEF BeginWriteRequest, HandlerPc, dbVars, procVars, closeVars, historyVars
  <2>2. ASSUME NEW h \in Handlers, PickShard(h) PROVE TypeOK'
    BY <2>2
       DEF PickShard, HandlerPc, dbVars, procVars, closeVars, historyVars, boundVars
  <2>3. ASSUME NEW h \in Handlers, SendSpan(h) PROVE TypeOK'
    <3>1. Head(todo[h]) \in Span /\ Tail(todo[h]) \in Seq(Span)
      BY <2>3 DEF SendSpan
    <3>2. getShardIndex(Head(todo[h]).id) \in Shards /\ Head(todo[h]).id \in SpanIds
      BY <3>1, ShardIndexType DEF Span
    <3> QED
      BY <2>3, <3>1, <3>2
         DEF SendSpan, HandlerPc, dbVars, procVars, closeVars, boundVars
  <2>4. ASSUME NEW h \in Handlers, EndWriteRequest(h) PROVE TypeOK'
    BY <2>4 DEF EndWriteRequest, HandlerPc, dbVars, procVars, closeVars,
                historyVars, boundVars
  <2>5. ASSUME NEW s \in Shards, Receive(s) PROVE TypeOK'
    <3>1. /\ Head(incoming[s]) \in Span \cup {Nil}
          /\ Tail(incoming[s]) \in Seq(Span \cup {Nil})
      BY <2>5 DEF Receive
    <3> QED
      BY <2>5, <3>1 DEF Receive, ProcPc, dbVars, handlerVars, closeVars,
                        historyVars, boundVars
  <2>6. ASSUME NEW s \in Shards, WriteBatch(s) PROVE TypeOK'
    <3>1. PutBatch(ldb[s], cur[s]) \in DB
      BY <2>6, PutBatchType DEF WriteBatch
    <3> QED
      BY <2>6, <3>1 DEF WriteBatch, ProcPc, handlerVars, closeVars,
                        historyVars, boundVars
  <2>7. ASSUME NEW s \in Shards, WriteBatchFails(s) PROVE TypeOK'
    BY <2>7 DEF WriteBatchFails, ProcPc, dbVars, handlerVars, closeVars, boundVars
  <2>8. ASSUME NEW s \in Shards, IncrementWrittenSpans(s) PROVE TypeOK'
    BY <2>8 DEF IncrementWrittenSpans, ProcPc, dbVars, handlerVars, closeVars,
                historyVars, boundVars
  <2>9. ASSUME NEW s \in Shards, WriteBack(s) PROVE TypeOK'
    BY <2>9 DEF WriteBack, procVars, handlerVars, closeVars, historyVars, boundVars
  <2>10. ASSUME BeginClose PROVE TypeOK'
    BY <2>10 DEF BeginClose, ClosePc, dbVars, procVars, handlerVars,
                 historyVars, boundVars
  <2>11. ASSUME CloseSendNil PROVE TypeOK'
    <3>1. closeIdx \in Shards
      BY <2>11, NumShardsAssumption DEF CloseSendNil, Shards
    <3> QED
      BY <2>11, <3>1 DEF CloseSendNil, ClosePc, dbVars, procVars, handlerVars,
                         historyVars, boundVars
  <2>12. ASSUME CloseAwaitExit PROVE TypeOK'
    BY <2>12 DEF CloseAwaitExit, ClosePc, dbVars, procVars, handlerVars,
                 historyVars, boundVars
  <2>13. ASSUME CloseLevelDB PROVE TypeOK'
    <3>1. closeIdx \in Shards
      BY <2>13, NumShardsAssumption DEF CloseLevelDB, Shards
    <3>2. /\ closeIdx' \in 0 .. NumShards
          /\ closePc' \in ClosePc
          /\ closeIdx' = NumShards <=> closePc' = "finished"
      BY <2>13, <3>1, NumShardsAssumption DEF CloseLevelDB, ClosePc, Shards
    <3> QED
      BY <2>13, <3>1, <3>2 DEF CloseLevelDB, procVars, handlerVars,
                               historyVars, boundVars
  <2>14. ASSUME Volatile
         PROVE  /\ incoming' \in [Shards -> Seq(Span \cup {Nil})]
                /\ procPc' \in [Shards -> ProcPc]
                /\ cur' \in [Shards -> Span \cup {Nil}]
                /\ \A s \in Shards : procPc'[s] = "write" => cur'[s] \in Span
                /\ todo' \in [Handlers -> Seq(Span)]
                /\ handlerPc' \in [Handlers -> HandlerPc]
                /\ closeIdx' \in 0 .. NumShards
                /\ closePc' \in ClosePc
                /\ closeIdx' = NumShards <=> closePc' = "finished"
                /\ numSpansWritten' \in Nat
                /\ accepted' \in [SpanIds -> Span \cup {Nil}]
                /\ failed' \subseteq Span
    BY <2>14, NumShardsAssumption DEF Volatile, ProcPc, HandlerPc, ClosePc
  <2>15. ASSUME Crash PROVE TypeOK'
    BY <2>14, <2>15 DEF Crash, boundVars
  <2>16. ASSUME Restart PROVE TypeOK'
    BY <2>14, <2>16, EmptyDBType DEF Restart
  <2>17. ASSUME UNCHANGED vars PROVE TypeOK'
    BY <2>17 DEF vars
  <2> QED
    BY <2>1, <2>2, <2>3, <2>4, <2>5, <2>6, <2>7, <2>8, <2>9, <2>10, <2>11,
       <2>12, <2>13, <2>15, <2>16, <2>17
       DEF Next, Handler, ProcessIncoming, CloseStep
<1> QED
  BY <1>1, <1>2, PTL DEF Spec

-----------------------------------------------------------------------------
\* Consistency of the databases.

\* The batch of a span keeps the database of its shard consistent.
LEMMA PutBatchConsistent ==
    ASSUME NEW s \in Shards, NEW db \in DB, NEW span \in Span,
           Consistent(s, db), getShardIndex(span.id) = s
    PROVE  Consistent(s, PutBatch(db, span))
<1> DEFINE new == PutBatch(db, span)
<1>1. span.id \in SpanIds /\ span # Nil
  BY NilAssumption DEF Span
<1>2. /\ new.data = [db.data EXCEPT ![span.id] = span]
      /\ new.index = db.index \cup IndexKeys(span)
  BY DEF PutBatch
<1>3. /\ new.data[span.id] = span
      /\ \A id \in SpanIds \ {span.id} : new.data[id] = db.data[id]
  BY <1>1, <1>2 DEF DB
<1>4. ASSUME NEW id \in SpanIds, new.data[id] # Nil
      PROVE  /\ new.data[id].id = id
             /\ getShardIndex(id) = s
             /\ IndexKeys(new.data[id]) \subseteq new.index
  <2>1. CASE id = span.id
    BY <1>2, <1>3, <2>1
  <2>2. CASE id # span.id
    BY <1>2, <1>3, <1>4, <2>2 DEF Consistent
  <2> QED
    BY <2>1, <2>2
<1>5. ASSUME NEW key \in new.index PROVE new.data[key.sec] # Nil
  <2>1. CASE key \in IndexKeys(span)
    BY <1>1, <1>3, <2>1, IndexKeysType
  <2>2. CASE key \in db.index
    <3>1. key.sec \in SpanIds
      BY <2>2 DEF DB, IndexKey
    <3> QED
      BY <1>1, <1>3, <2>2, <3>1 DEF Consistent
  <2> QED
    BY <1>2, <1>5, <2>1, <2>2
<1> QED
  BY <1>4, <1>5 DEF Consistent

\* A new LevelDB instance has no index entry to be wrong.
LEMMA EmptyDBConsistent ==
    ASSUME NEW s \in Shards
    PROVE  Consistent(s, EmptyDB)
BY DEF Consistent, EmptyDB

\* What LevelDB holds, and what a machine crash would leave, is consistent in
\* every reachable state (datastore.go:189-225 writes data and index entries
\* in one batch; datastore.go:464-466 chooses the shard).  IndexMatchesData is
\* not inductive alone: the span at hand must belong to the shard that writes
\* it, and so must every span in its channel, which is RoutedToOwner.
THEOREM IndexConsistency == Spec => []IndexMatchesData
<1>1. Init => RoutedToOwner /\ IndexMatchesData
  BY EmptyDBConsistent DEF Init, RoutedToOwner, IndexMatchesData
<1>2. TypeOK /\ RoutedToOwner /\ IndexMatchesData /\ [Next]_vars
      => RoutedToOwner' /\ IndexMatchesData'
  <2> SUFFICES ASSUME TypeOK, RoutedToOwner, IndexMatchesData, [Next]_vars
               PROVE  RoutedToOwner' /\ IndexMatchesData'
    OBVIOUS
  <2>1. ASSUME UNCHANGED <<ldb, disk>> PROVE IndexMatchesData'
    BY <2>1 DEF IndexMatchesData, Consistent
  <2>2. ASSUME UNCHANGED <<incoming, cur>> PROVE RoutedToOwner'
    BY <2>2 DEF RoutedToOwner
  <2>3. ASSUME NEW h \in Handlers, SendSpan(h)
        PROVE  RoutedToOwner' /\ IndexMatchesData'
    <3> DEFINE span == Head(todo[h])
               s == getShardIndex(span.id)
    <3>1. span \in Span /\ span # Nil /\ s \in Shards
      <4>1. span \in Span
        BY <2>3 DEF SendSpan, TypeOK
      <4>2. span.id \in SpanIds
        BY <4>1 DEF Span
      <4> QED
        BY <4>1, <4>2, NilAssumption, ShardIndexType
    <3>2. /\ incoming' = [incoming EXCEPT ![s] = Append(incoming[s], span)]
          /\ cur' = cur
      BY <2>3 DEF SendSpan, procVars
    <3>3. ASSUME NEW t \in Shards, NEW i \in 1 .. Len(incoming'[t]),
                 incoming'[t][i] # Nil
          PROVE  getShardIndex(incoming'[t][i].id) = t
      BY <3>1, <3>2, <3>3 DEF RoutedToOwner, TypeOK
    <3>4. RoutedToOwner'
      BY <3>2, <3>3 DEF RoutedToOwner
    <3> QED
      BY <2>1, <2>3, <3>4 DEF SendSpan, dbVars
  <2>4. ASSUME NEW s \in Shards, Receive(s)
        PROVE  RoutedToOwner' /\ IndexMatchesData'
    <3> DEFINE q == incoming[s]
    <3>1. /\ q \in Seq(Span \cup {Nil}) /\ q # <<>>
          /\ incoming' = [incoming EXCEPT ![s] = Tail(q)]
      BY <2>4 DEF Receive, TypeOK
    <3>2. ASSUME NEW t \in Shards, NEW i \in 1 .. Len(incoming'[t]),
                 incoming'[t][i] # Nil
          PROVE  getShardIndex(incoming'[t][i].id) = t
      <4>1. CASE t = s
        <5>1. incoming'[t] = Tail(q)
          BY <3>1, <4>1 DEF TypeOK
        <5>2. i \in 1 .. Len(Tail(q))
          BY <5>1
        <5>3. i + 1 \in 1 .. Len(q) /\ Tail(q)[i] = q[i + 1]
          BY <3>1, <5>2, TailElements
        <5> QED
          BY <3>2, <4>1, <5>1, <5>3 DEF RoutedToOwner
      <4>2. CASE t # s
        BY <3>1, <3>2, <4>2 DEF RoutedToOwner, TypeOK
      <4> QED
        BY <4>1, <4>2
    <3>3. ASSUME NEW t \in Shards, cur'[t] # Nil
          PROVE  getShardIndex(cur'[t].id) = t
      <4>1. CASE cur' = cur
        BY <3>3, <4>1 DEF RoutedToOwner
      <4>2. CASE cur' = [cur EXCEPT ![s] = Head(q)]
        <5>1. 1 \in 1 .. Len(q) /\ Head(q) = q[1]
          BY <3>1
        <5> QED
          BY <3>3, <4>2, <5>1 DEF RoutedToOwner, TypeOK
      <4> QED
        BY <2>4, <4>1, <4>2 DEF Receive
    <3> QED
      BY <2>1, <2>4, <3>2, <3>3 DEF Receive, dbVars, RoutedToOwner
  <2>5. ASSUME NEW s \in Shards, WriteBatch(s)
        PROVE  RoutedToOwner' /\ IndexMatchesData'
    <3>1. cur[s] \in Span /\ ldb[s] \in DB /\ getShardIndex(cur[s].id) = s
      BY <2>5, NilAssumption DEF WriteBatch, TypeOK, RoutedToOwner
    <3>2. Consistent(s, PutBatch(ldb[s], cur[s]))
      BY <3>1, PutBatchConsistent DEF IndexMatchesData
    <3>3. /\ ldb' = [ldb EXCEPT ![s] = PutBatch(ldb[s], cur[s])]
          /\ UNCHANGED <<disk, incoming, cur>>
      BY <2>5 DEF WriteBatch
    <3>4. \A t \in Shards : Consistent(t, ldb'[t])
      BY <3>2, <3>3 DEF IndexMatchesData, TypeOK
    <3> QED
      BY <2>2, <3>3, <3>4 DEF IndexMatchesData, Consistent
  <2>6. ASSUME NEW s \in Shards, WriteBatchFails(s) \/ IncrementWrittenSpans(s)
        PROVE  RoutedToOwner' /\ IndexMatchesData'
    BY <2>1, <2>6
       DEF WriteBatchFails, IncrementWrittenSpans, dbVars, RoutedToOwner, TypeOK
  <2>7. ASSUME NEW s \in Shards, WriteBack(s)
        PROVE  RoutedToOwner' /\ IndexMatchesData'
    <3>1. \A t \in Shards : Consistent(t, disk'[t])
      BY <2>7 DEF WriteBack, IndexMatchesData, TypeOK
    <3> QED
      BY <2>2, <2>7, <3>1 DEF WriteBack, procVars, IndexMatchesData, Consistent
  <2>8. ASSUME CloseSendNil PROVE RoutedToOwner' /\ IndexMatchesData'
    <3>1. /\ incoming' = [incoming EXCEPT ![closeIdx] = Append(@, Nil)]
          /\ cur' = cur
      BY <2>8 DEF CloseSendNil, procVars
    <3>2. ASSUME NEW t \in Shards, NEW i \in 1 .. Len(incoming'[t]),
                 incoming'[t][i] # Nil
          PROVE  getShardIndex(incoming'[t][i].id) = t
      BY <3>1, <3>2 DEF RoutedToOwner, TypeOK
    <3> QED
      BY <2>1, <2>8, <3>1, <3>2 DEF CloseSendNil, dbVars, RoutedToOwner
  <2>9. ASSUME Volatile PROVE RoutedToOwner'
    BY <2>9 DEF Volatile, RoutedToOwner
  <2>10. ASSUME Crash PROVE RoutedToOwner' /\ IndexMatchesData'
    BY <2>9, <2>10 DEF Crash, IndexMatchesData, Consistent
  <2>11. ASSUME Restart PROVE RoutedToOwner' /\ IndexMatchesData'
    <3>1. CASE UNCHANGED <<ldb, disk>>
      BY <2>1, <2>9, <2>11, <3>1 DEF Restart
    <3>2. CASE /\ ldb' = [s \in Shards |-> EmptyDB]
               /\ disk' = [s \in Shards |-> EmptyDB]
      BY <2>9, <2>11, <3>2, EmptyDBConsistent DEF Restart, IndexMatchesData
    <3> QED
      BY <2>11, <3>1, <3>2 DEF Restart
  <2>12. ASSUME UNCHANGED <<ldb, disk, incoming, cur>>
         PROVE  RoutedToOwner' /\ IndexMatchesData'
    BY <2>1, <2>2, <2>12
  <2> QED
    BY <2>3, <2>4, <2>5, <2>6, <2>7, <2>8, <2>10, <2>11, <2>12
       DEF Next, Handler, ProcessIncoming, CloseStep, BeginWriteRequest,
           PickShard, EndWriteRequest, BeginClose, CloseAwaitExit,
           CloseLevelDB, dbVars, procVars, vars
<1> QED
  BY <1>1, <1>2, TypeCorrect, PTL DEF Spec

-----------------------------------------------------------------------------
\* Close and the goroutines of the shards.

\* A shard whose LevelDB instance Close has closed, or is about to close, has
\* no goroutine any more, and Close only closes the shards it has passed.
CloseInv ==
    /\ \A s \in Shards : up => (ldbOpen[s] <=> ~ShardIsNil(s))
    /\ \A s \in Shards : ShardIsNil(s) => procPc[s] = "exited"
    /\ closePc = "ldb" => procPc[closeIdx] = "exited"

\* The goroutine of a shard never writes to a closed LevelDB instance
\* (shard.Close waits for the exited channel, datastore.go:253-262).
THEOREM CloseSafety == Spec => []NoWriteAfterClose
<1>1. Init => CloseInv
  BY NumShardsAssumption DEF Init, CloseInv, ShardIsNil, Shards
<1>2. TypeOK /\ CloseInv /\ [Next]_vars => CloseInv'
  <2> SUFFICES ASSUME TypeOK, CloseInv, [Next]_vars PROVE CloseInv'
    OBVIOUS
  <2> USE DEF CloseInv, ShardIsNil
  <2>1. ASSUME UNCHANGED <<up, ldbOpen, closeIdx, closePc>>,
               \A s \in Shards : procPc[s] = "exited" => procPc'[s] = "exited"
        PROVE  CloseInv'
    <3>1. closePc = "ldb" => closeIdx \in Shards
      BY NumShardsAssumption DEF TypeOK, Shards
    <3> QED
      BY <2>1, <3>1
  <2>2. ASSUME NEW h \in Handlers, Handler(h) PROVE CloseInv'
    BY <2>1, <2>2 DEF Handler, BeginWriteRequest, PickShard, SendSpan,
                      EndWriteRequest, dbVars, procVars, closeVars
  <2>3. ASSUME NEW s \in Shards, ProcessIncoming(s) \/ WriteBack(s)
        PROVE  CloseInv'
    <3>1. \A t \in Shards : procPc[t] = "exited" => procPc'[t] = "exited"
      BY <2>3 DEF ProcessIncoming, Receive, WriteBatch, WriteBatchFails,
                  IncrementWrittenSpans, WriteBack, procVars, TypeOK
    <3> QED
      BY <2>1, <2>3, <3>1
         DEF ProcessIncoming, Receive, WriteBatch, WriteBatchFails,
             IncrementWrittenSpans, WriteBack, dbVars, closeVars
  <2>4. ASSUME BeginClose \/ CloseSendNil \/ CloseAwaitExit PROVE CloseInv'
    BY <2>4 DEF BeginClose, CloseSendNil, CloseAwaitExit, dbVars, procVars, TypeOK
  <2>5. ASSUME CloseLevelDB PROVE CloseInv'
    <3>1. closeIdx \in Shards
      BY <2>5, NumShardsAssumption DEF CloseLevelDB, TypeOK, Shards
    <3>2. \A s \in Shards : s < closeIdx' <=> s < closeIdx \/ s = closeIdx
      BY <2>5, <3>1 DEF CloseLevelDB, Shards
    <3>3. procPc' = procPc /\ up' = up /\ closePc' # "ldb"
      BY <2>5 DEF CloseLevelDB, procVars
    <3>4. \A s \in Shards : ldbOpen'[s] <=> ldbOpen[s] /\ s # closeIdx
      BY <2>5, <3>1 DEF CloseLevelDB, TypeOK
    <3>5. ~ (closeIdx < closeIdx) /\ up /\ closePc = "ldb"
      BY <2>5, <3>1 DEF CloseLevelDB, Shards
    <3> QED
      BY <3>1, <3>2, <3>3, <3>4, <3>5
  <2>6. ASSUME Crash \/ Restart PROVE CloseInv'
    <3>1. \A s \in Shards : ~ (s < 0)
      BY NumShardsAssumption DEF Shards
    <3> QED
      BY <2>6, <3>1 DEF Crash, Restart, Volatile
  <2>7. ASSUME UNCHANGED vars PROVE CloseInv'
    BY <2>1, <2>7 DEF vars
  <2> QED
    BY <2>2, <2>3, <2>4, <2>5, <2>6, <2>7 DEF Next, CloseStep
<1>3. TypeOK /\ CloseInv => NoWriteAfterClose
  BY DEF CloseInv, NoWriteAfterClose
<1> QED
  BY <1>1, <1>2, <1>3, TypeCorrect, PTL DEF Spec

-----------------------------------------------------------------------------
\* The order of the channel is the order of the database: nothing a shard accepts
\* is lost or overtaken.

\* What a channel holds.
Item == Span \cup {Nil}

\* The places of channel q whose spans a goroutine at pc will still write.
Live(q, pc) == IF pc = "exited" THEN {} ELSE Ahead(q)

\* Where the span acc, accepted last of its id, is: the last of its id in the
\* channel q; or the span c that the goroutine at pc is writing, with none of
\* the id behind it; or the stored one, with none of the id under way.
Ordered(q, pc, c, stored, acc, id) ==
    \/ \E i \in Live(q, pc) :
          /\ q[i] = acc
          /\ \A j \in Live(q, pc) : j > i => q[j].id # id
    \/ /\ \A i \in Live(q, pc) : q[i].id # id
       /\ \/ pc = "write" /\ c = acc
          \/ (pc = "write" => c.id # id) /\ stored = acc

OrderedAt(id) ==
    LET s == getShardIndex(id) IN
    Ordered(incoming[s], procPc[s], cur[s], ldb[s].data[id], accepted[id], id)

\* The inductive invariant: Ordered holds of every id with an accepted span
\* whose write has not failed.
OrderInv ==
    \A id \in SpanIds : accepted[id] # Nil =>
        /\ accepted[id].id = id
        /\ accepted[id] \notin failed => OrderedAt(id)

\* Close's nil is in the channel, or was taken from it, exactly when Close has
\* sent it.
NilInv ==
    \A s \in Shards :
        NilSent(s) <=> \/ procPc[s] = "exited"
                       \/ \E i \in 1 .. Len(incoming[s]) : incoming[s][i] = Nil

-----------------------------------------------------------------------------
\* What each step of a shard does to the place of an accepted span.

\* A send leaves the places ahead of nil alone, but for its own.
LEMMA AheadAppend ==
    ASSUME NEW q \in Seq(Item), NEW x \in Item
    PROVE  /\ \A i \in 1 .. Len(q) : Append(q, x)[i] = q[i]
           /\ Append(q, x)[Len(q) + 1] = x
           /\ Len(q) \in Nat /\ Len(Append(q, x)) = Len(q) + 1
           /\ Ahead(q) = Ahead(Append(q, x)) \ {Len(q) + 1}
           /\ Len(q) + 1 \in Ahead(Append(q, x))
              <=> x # Nil /\ \A i \in 1 .. Len(q) : q[i] # Nil
<1>1. /\ \A i \in 1 .. Len(q) : Append(q, x)[i] = q[i]
      /\ Append(q, x)[Len(q) + 1] = x
      /\ Len(q) \in Nat /\ Len(Append(q, x)) = Len(q) + 1
  OBVIOUS
<1>2. \A i \in 1 .. Len(q) : i \in Ahead(q) <=> i \in Ahead(Append(q, x))
  BY <1>1 DEF Ahead
<1>3. Ahead(q) = Ahead(Append(q, x)) \ {Len(q) + 1}
  <2>1. Ahead(q) \subseteq 1 .. Len(q)
    BY DEF Ahead
  <2>2. Ahead(Append(q, x)) \subseteq 1 .. Len(q) + 1
    BY <1>1 DEF Ahead
  <2> QED
    BY <1>1, <1>2, <2>1, <2>2
<1>4. Len(q) + 1 \in Ahead(Append(q, x))
      <=> x # Nil /\ \A i \in 1 .. Len(q) : q[i] # Nil
  BY <1>1 DEF Ahead
<1> QED
  BY <1>1, <1>3, <1>4

\* A send that nobody will read, or of another id, disturbs nothing.
LEMMA AppendOther ==
    ASSUME NEW q \in Seq(Item), NEW pc, NEW c, NEW stored, NEW acc, NEW id,
           NEW x \in Item, Ordered(q, pc, c, stored, acc, id),
           \/ x = Nil \/ pc = "exited" \/ x.id # id
           \/ \E i \in 1 .. Len(q) : q[i] = Nil
    PROVE  Ordered(Append(q, x), pc, c, stored, acc, id)
<1> DEFINE r == Append(q, x)
           n == Len(q) + 1
<1>1. /\ \A i \in Live(q, pc) : i \in Live(r, pc) /\ r[i] = q[i]
      /\ \A i \in Live(r, pc) : i \in Live(q, pc) \/ i = n
  BY AheadAppend DEF Live, Ahead
<1>2. n \in Live(r, pc) => r[n].id # id
  BY AheadAppend DEF Live
<1>3. \A j \in Live(r, pc) : j \in Live(q, pc) \/ r[j].id # id
  BY <1>1, <1>2
<1> HIDE DEF r, n
<1>4. CASE \E i \in Live(q, pc) :
              /\ q[i] = acc
              /\ \A j \in Live(q, pc) : j > i => q[j].id # id
  <2>1. PICK i \in Live(q, pc) :
              /\ q[i] = acc
              /\ \A j \in Live(q, pc) : j > i => q[j].id # id
    BY <1>4
  <2>2. i \in Live(r, pc) /\ r[i] = acc
    BY <1>1, <2>1
  <2>3. \A j \in Live(r, pc) : j > i => r[j].id # id
    BY <1>1, <1>3, <2>1
  <2>4. Ordered(r, pc, c, stored, acc, id)
    BY <2>2, <2>3 DEF Ordered
  <2> QED
    BY <2>4 DEF r
<1>5. CASE /\ \A i \in Live(q, pc) : q[i].id # id
           /\ \/ pc = "write" /\ c = acc
              \/ (pc = "write" => c.id # id) /\ stored = acc
  <2>1. \A i \in Live(r, pc) : r[i].id # id
    BY <1>1, <1>3, <1>5
  <2>2. Ordered(r, pc, c, stored, acc, id)
    BY <1>5, <2>1 DEF Ordered
  <2> QED
    BY <2>2 DEF r
<1> QED
  BY <1>4, <1>5 DEF Ordered

\* An accepted span is the last of its id in the channel.
LEMMA AppendAccepted ==
    ASSUME NEW q \in Seq(Item), NEW pc, pc # "exited", NEW c, NEW stored,
           NEW x \in Item, x # Nil,
           \A i \in 1 .. Len(q) : q[i] # Nil
    PROVE  Ordered(Append(q, x), pc, c, stored, x, x.id)
<1> DEFINE r == Append(q, x)
           n == Len(q) + 1
<1>1. n \in Live(r, pc) /\ r[n] = x
  BY AheadAppend DEF Live
<1>2. \A j \in Live(r, pc) : ~ (j > n)
  BY AheadAppend DEF Live, Ahead
<1> QED
  BY <1>1, <1>2 DEF Ordered

\* The goroutine that takes a span from the channel writes it next.
LEMMA ReceiveSpan ==
    ASSUME NEW q \in Seq(Item), q # <<>>, Head(q) # Nil,
           NEW c, NEW stored, NEW acc, NEW id,
           Ordered(q, "recv", c, stored, acc, id), acc.id = id
    PROVE  Ordered(Tail(q), "write", Head(q), stored, acc, id)
<1> DEFINE r == Tail(q)
<1>1. /\ Len(q) \in Nat /\ Len(q) > 0 /\ Len(r) = Len(q) - 1
      /\ Head(q) = q[1] /\ \A i \in 1 .. Len(r) : r[i] = q[i + 1]
  BY TailElements
<1>2. \A i \in Ahead(r) :
          i \in Nat /\ i > 0 /\ i + 1 \in Ahead(q) /\ r[i] = q[i + 1]
  <2> SUFFICES ASSUME NEW i \in Ahead(r)
               PROVE  i \in Nat /\ i > 0 /\ i + 1 \in Ahead(q) /\ r[i] = q[i + 1]
    OBVIOUS
  <2>1. i \in 1 .. Len(r) /\ \A j \in 1 .. i : r[j] # Nil
    BY DEF Ahead
  <2>2. ASSUME NEW j \in 1 .. i + 1 PROVE q[j] # Nil
    <3>1. CASE j = 1
      BY <1>1, <3>1
    <3>2. CASE j # 1
      <4>1. j - 1 \in 1 .. i /\ j - 1 \in 1 .. Len(r) /\ (j - 1) + 1 = j
        BY <1>1, <2>1, <3>2
      <4> QED
        BY <1>1, <2>1, <4>1
    <3> QED
      BY <3>1, <3>2
  <2> QED
    BY <1>1, <2>1, <2>2 DEF Ahead
<1>3. \A k \in Ahead(q) : k = 1 \/ (k - 1 \in Ahead(r) /\ k > 1 /\ r[k - 1] = q[k])
  BY <1>1 DEF Ahead
<1>4. Ahead(q) \subseteq Nat
  BY DEF Ahead
<1> SUFFICES Ordered(r, "write", Head(q), stored, acc, id)
  OBVIOUS
<1> HIDE DEF r
<1>5. CASE \E i \in Ahead(q) :
              q[i] = acc /\ \A j \in Ahead(q) : j > i => q[j].id # id
  <2>1. PICK i \in Ahead(q) :
              q[i] = acc /\ \A j \in Ahead(q) : j > i => q[j].id # id
    BY <1>5
  <2>2. CASE i = 1
    <3>1. \A j \in Ahead(r) : r[j].id # id
      BY <1>2, <2>1, <2>2
    <3> QED
      BY <1>1, <2>1, <2>2, <3>1 DEF Ordered, Live
  <2>3. CASE i # 1
    <3>1. i - 1 \in Ahead(r) /\ r[i - 1] = acc
      BY <1>3, <2>1, <2>3
    <3>2. \A j \in Ahead(r) : j > i - 1 => r[j].id # id
      BY <1>2, <1>4, <2>1
    <3> QED
      BY <3>1, <3>2 DEF Ordered, Live
  <2> QED
    BY <2>2, <2>3
<1>6. CASE (\A i \in Ahead(q) : q[i].id # id) /\ stored = acc
  <2>1. \A i \in Ahead(r) : r[i].id # id
    BY <1>2, <1>6
  <2>2. 1 \in Ahead(q)
    BY <1>1 DEF Ahead
  <2> QED
    BY <1>1, <1>6, <2>1, <2>2 DEF Ordered, Live
<1> QED
  BY <1>5, <1>6 DEF Ordered, Live

\* The goroutine that takes nil leaves nothing behind that it should write.
LEMMA ReceiveNil ==
    ASSUME NEW q \in Seq(Item), q # <<>>, Head(q) = Nil,
           NEW c, NEW stored, NEW acc, NEW id,
           Ordered(q, "recv", c, stored, acc, id)
    PROVE  Ordered(Tail(q), "exited", c, stored, acc, id)
<1>1. Ahead(q) = {}
  BY DEF Ahead
<1> QED
  BY <1>1 DEF Ordered, Live

-----------------------------------------------------------------------------
\* Close's nil.

\* A channel gets nil from Close alone (datastore.go:254), and its goroutine
\* exits on nil alone (datastore.go:166).
LEMMA NilSentOnce == Spec => []NilInv
<1>1. Init => NilInv
  BY NumShardsAssumption DEF Init, NilInv, NilSent, ShardIsNil, Shards
<1>2. TypeOK /\ NilInv /\ [Next]_vars => NilInv'
  <2> SUFFICES ASSUME TypeOK, NilInv, [Next]_vars PROVE NilInv'
    OBVIOUS
  <2>1. ASSUME UNCHANGED <<incoming, closeIdx, closePc>>,
               \A s \in Shards : procPc'[s] = "exited" <=> procPc[s] = "exited"
        PROVE  NilInv'
    BY <2>1 DEF NilInv, NilSent, ShardIsNil
  <2>2. ASSUME NEW h \in Handlers, SendSpan(h) PROVE NilInv'
    <3> DEFINE span == Head(todo[h])
               t == getShardIndex(span.id)
    <3>1. span \in Span /\ span # Nil /\ t \in Shards
      <4>1. span \in Span
        BY <2>2 DEF SendSpan, TypeOK
      <4>2. span.id \in SpanIds
        BY <4>1 DEF Span
      <4> QED
        BY <4>1, <4>2, NilAssumption, ShardIndexType
    <3>2. /\ incoming' = [incoming EXCEPT ![t] = Append(incoming[t], span)]
          /\ UNCHANGED <<procPc, closeIdx, closePc>>
      BY <2>2 DEF SendSpan, procVars, closeVars
    <3>3. ASSUME NEW s \in Shards
          PROVE  (\E i \in 1 .. Len(incoming'[s]) : incoming'[s][i] = Nil)
                 <=> \E i \in 1 .. Len(incoming[s]) : incoming[s][i] = Nil
      <4>1. incoming[s] \in Seq(Item) /\ span \in Item
        BY <3>1 DEF TypeOK, Item
      <4>2. CASE s = t
        <5>1. incoming'[s] = Append(incoming[s], span)
          BY <3>1, <3>2, <4>2 DEF TypeOK
        <5> QED
          BY <3>1, <4>1, <5>1, AheadAppend
      <4>3. CASE s # t
        BY <3>2, <4>3 DEF TypeOK
      <4> QED
        BY <4>2, <4>3
    <3> QED
      BY <3>2, <3>3 DEF NilInv, NilSent, ShardIsNil
  <2>3. ASSUME NEW s \in Shards, Receive(s) PROVE NilInv'
    <3> DEFINE q == incoming[s]
    <3>1. /\ q \in Seq(Item) /\ q # <<>> /\ procPc[s] = "recv"
          /\ incoming' = [incoming EXCEPT ![s] = Tail(q)]
          /\ procPc' = [procPc EXCEPT ![s] = IF Head(q) = Nil THEN "exited"
                                             ELSE "write"]
          /\ UNCHANGED <<closeIdx, closePc>>
      BY <2>3 DEF Receive, TypeOK, Item, closeVars
    <3>2. ASSUME NEW t \in Shards, t # s
          PROVE  incoming'[t] = incoming[t] /\ procPc'[t] = procPc[t]
      BY <3>1, <3>2 DEF TypeOK
    <3>3. /\ incoming'[s] = Tail(q)
          /\ procPc'[s] = IF Head(q) = Nil THEN "exited" ELSE "write"
      BY <3>1 DEF TypeOK
    <3>4. /\ Len(q) \in Nat /\ Len(q) > 0 /\ Len(Tail(q)) = Len(q) - 1
          /\ Head(q) = q[1] /\ \A i \in 1 .. Len(Tail(q)) : Tail(q)[i] = q[i + 1]
      BY <3>1, TailElements
    <3>5. Head(q) # Nil => ((\E i \in 1 .. Len(Tail(q)) : Tail(q)[i] = Nil)
                            <=> \E i \in 1 .. Len(q) : q[i] = Nil)
      <4> SUFFICES ASSUME Head(q) # Nil
                   PROVE  (\E i \in 1 .. Len(Tail(q)) : Tail(q)[i] = Nil)
                          <=> \E i \in 1 .. Len(q) : q[i] = Nil
        OBVIOUS
      <4>1. ASSUME NEW i \in 1 .. Len(Tail(q)), Tail(q)[i] = Nil
            PROVE  \E k \in 1 .. Len(q) : q[k] = Nil
        <5>1. i + 1 \in 1 .. Len(q) /\ q[i + 1] = Nil
          BY <3>4, <4>1
        <5> QED
          BY <5>1
      <4>2. ASSUME NEW i \in 1 .. Len(q), q[i] = Nil
            PROVE  \E k \in 1 .. Len(Tail(q)) : Tail(q)[k] = Nil
        <5>1. i - 1 \in 1 .. Len(Tail(q)) /\ (i - 1) + 1 = i
          BY <3>4, <4>2
        <5> QED
          BY <3>4, <4>2, <5>1
      <4> QED
        BY <4>1, <4>2
    <3>6. Head(q) = Nil => \E i \in 1 .. Len(q) : q[i] = Nil
      BY <3>4
    <3>7. \A t \in Shards : NilSent(t)' <=> NilSent(t)
      BY <3>1 DEF NilSent, ShardIsNil
    <3>8. NilSent(s) <=> \E i \in 1 .. Len(q) : q[i] = Nil
      BY <3>1 DEF NilInv
    <3>9. NilSent(s)' <=> \/ procPc'[s] = "exited"
                          \/ \E i \in 1 .. Len(incoming'[s]) : incoming'[s][i] = Nil
      BY <3>3, <3>5, <3>6, <3>7, <3>8
    <3> QED
      BY <3>2, <3>7, <3>9 DEF NilInv
  <2>4. ASSUME NEW s \in Shards,
               WriteBatch(s) \/ WriteBatchFails(s) \/ IncrementWrittenSpans(s)
        PROVE  NilInv'
    <3>1. \A t \in Shards : procPc'[t] = "exited" <=> procPc[t] = "exited"
      BY <2>4 DEF WriteBatch, WriteBatchFails, IncrementWrittenSpans, TypeOK
    <3> QED
      BY <2>1, <2>4, <3>1
         DEF WriteBatch, WriteBatchFails, IncrementWrittenSpans, closeVars
  <2>5. ASSUME CloseSendNil PROVE NilInv'
    <3>1. closeIdx \in Shards /\ ~ (closeIdx < closeIdx)
      BY <2>5, NumShardsAssumption DEF CloseSendNil, TypeOK, Shards
    <3>2. /\ incoming' = [incoming EXCEPT ![closeIdx] = Append(@, Nil)]
          /\ closePc = "send" /\ closePc' = "wait"
          /\ UNCHANGED <<closeIdx, procPc>>
      BY <2>5 DEF CloseSendNil, procVars
    <3>3. \A s \in Shards : s # closeIdx =>
             incoming'[s] = incoming[s] /\ (NilSent(s)' <=> NilSent(s))
      BY <3>2 DEF TypeOK, NilSent, ShardIsNil
    <3>4. incoming'[closeIdx] = Append(incoming[closeIdx], Nil)
      BY <3>1, <3>2 DEF TypeOK
    <3>5. incoming[closeIdx] \in Seq(Item) /\ Nil \in Item
      BY <3>1 DEF TypeOK, Item
    <3>6. /\ Len(incoming[closeIdx]) + 1 \in 1 .. Len(incoming'[closeIdx])
          /\ incoming'[closeIdx][Len(incoming[closeIdx]) + 1] = Nil
      BY <3>4, <3>5, AheadAppend
    <3>7. NilSent(closeIdx)'
      BY <3>2 DEF NilSent
    <3> QED
      BY <3>2, <3>3, <3>6, <3>7 DEF NilInv
  <2>6. ASSUME BeginClose \/ CloseAwaitExit \/ CloseLevelDB PROVE NilInv'
    <3>1. UNCHANGED <<incoming, procPc>>
      BY <2>6 DEF BeginClose, CloseAwaitExit, CloseLevelDB, procVars
    <3>2. \A s \in Shards : NilSent(s)' <=> NilSent(s)
      BY <2>6 DEF BeginClose, CloseAwaitExit, CloseLevelDB, NilSent, ShardIsNil,
                  TypeOK, Shards
    <3> QED
      BY <3>1, <3>2 DEF NilInv
  <2>7. ASSUME Crash \/ Restart PROVE NilInv'
    <3>1. Volatile
      BY <2>7 DEF Crash, Restart
    <3> QED
      BY <3>1, NumShardsAssumption
         DEF Volatile, NilInv, NilSent, ShardIsNil, Shards
  <2>8. ASSUME UNCHANGED <<incoming, procPc, closeIdx, closePc>> PROVE NilInv'
    BY <2>1, <2>8
  <2> QED
    BY <2>2, <2>3, <2>4, <2>5, <2>6, <2>7, <2>8
       DEF Next, Handler, ProcessIncoming, CloseStep, BeginWriteRequest,
           PickShard, EndWriteRequest, WriteBack, procVars, closeVars, vars
<1> QED
  BY <1>1, <1>2, TypeCorrect, PTL DEF Spec

-----------------------------------------------------------------------------
\* The order of the channel is the order of the database.

\* Each step keeps an accepted span in its place, or moves it one place on.
LEMMA OrderStep == TypeOK /\ NilInv /\ OrderInv /\ [Next]_vars => OrderInv'
<1> SUFFICES ASSUME TypeOK, NilInv, OrderInv, [Next]_vars PROVE OrderInv'
  OBVIOUS
<1>1. ASSUME UNCHANGED <<accepted, failed>>,
             \A id \in SpanIds : accepted[id] # Nil /\ accepted[id] \notin failed
                                 /\ accepted[id].id = id /\ OrderedAt(id)
                                 => OrderedAt(id)'
      PROVE  OrderInv'
  BY <1>1 DEF OrderInv
<1>2. ASSUME NEW h \in Handlers, SendSpan(h) PROVE OrderInv'
  <2> DEFINE span == Head(todo[h])
             t == getShardIndex(span.id)
  <2>1. span \in Span /\ span # Nil /\ span.id \in SpanIds /\ t \in Shards
    <3>1. span \in Span
      BY <1>2 DEF SendSpan, TypeOK
    <3>2. span.id \in SpanIds
      BY <3>1 DEF Span
    <3> QED
      BY <3>1, <3>2, NilAssumption, ShardIndexType
  <2>2. /\ incoming' = [incoming EXCEPT ![t] = Append(incoming[t], span)]
        /\ accepted' = IF NilSent(t) THEN accepted
                       ELSE [accepted EXCEPT ![span.id] = span]
        /\ UNCHANGED <<procPc, cur, ldb, failed>>
    BY <1>2 DEF SendSpan, procVars, dbVars
  <2> HIDE DEF span, t
  <2>3. incoming[t] \in Seq(Item) /\ span \in Item
    BY <2>1 DEF TypeOK, Item
  <2>4. ASSUME NEW id \in SpanIds, OrderedAt(id), accepted'[id] = accepted[id],
               NilSent(t) \/ span.id # id
        PROVE  OrderedAt(id)'
    <3>1. getShardIndex(id) \in Shards
      BY ShardIndexType
    <3>2. CASE getShardIndex(id) = t
      <4>1. incoming'[t] = Append(incoming[t], span)
        BY <2>1, <2>2 DEF TypeOK
      <4>2. \/ procPc[t] = "exited" \/ span.id # id
            \/ \E i \in 1 .. Len(incoming[t]) : incoming[t][i] = Nil
        BY <2>1, <2>4 DEF NilInv
      <4>3. Ordered(Append(incoming[t], span), procPc[t], cur[t],
                    ldb[t].data[id], accepted[id], id)
        BY <2>3, <2>4, <3>2, <4>2, AppendOther DEF OrderedAt
      <4> QED
        BY <2>2, <2>4, <3>2, <4>1, <4>3 DEF OrderedAt
    <3>3. CASE getShardIndex(id) # t
      <4>1. incoming'[getShardIndex(id)] = incoming[getShardIndex(id)]
        BY <2>2, <3>1, <3>3 DEF TypeOK
      <4> QED
        BY <2>2, <2>4, <4>1 DEF OrderedAt
    <3> QED
      BY <3>2, <3>3
  <2>5. CASE NilSent(t)
    BY <1>1, <2>2, <2>4, <2>5
  <2>6. CASE ~ NilSent(t)
    <3>1. accepted' = [accepted EXCEPT ![span.id] = span]
      BY <2>2, <2>6
    <3>2. ASSUME NEW id \in SpanIds, id # span.id, accepted'[id] # Nil
          PROVE  /\ accepted'[id].id = id
                 /\ accepted'[id] \notin failed' => OrderedAt(id)'
      <4>1. accepted'[id] = accepted[id]
        BY <3>1, <3>2 DEF TypeOK
      <4> QED
        BY <2>2, <2>4, <3>2, <4>1 DEF OrderInv
    <3>3. accepted'[span.id] = span
      BY <2>1, <3>1 DEF TypeOK
    <3>4. ASSUME NEW id \in SpanIds, id = span.id PROVE OrderedAt(id)'
      <4>1. incoming'[t] = Append(incoming[t], span)
        BY <2>1, <2>2 DEF TypeOK
      <4>2. /\ procPc[t] # "exited"
            /\ \A i \in 1 .. Len(incoming[t]) : incoming[t][i] # Nil
        BY <2>1, <2>6 DEF NilInv
      <4>3. Ordered(Append(incoming[t], span), procPc[t], cur[t],
                    ldb[t].data[id], span, id)
        BY <2>1, <2>3, <3>4, <4>2, AppendAccepted
      <4>4. getShardIndex(id) = t
        BY <3>4 DEF t
      <4> QED
        BY <2>2, <3>3, <3>4, <4>1, <4>3, <4>4 DEF OrderedAt
    <3>5. ASSUME NEW id \in SpanIds, accepted'[id] # Nil
          PROVE  /\ accepted'[id].id = id
                 /\ accepted'[id] \notin failed' => OrderedAt(id)'
      BY <3>2, <3>3, <3>4, <3>5
    <3> QED
      BY <3>5 DEF OrderInv
  <2> QED
    BY <2>5, <2>6
<1>3. ASSUME NEW s \in Shards, NEW id \in SpanIds,
             ProcessIncoming(s), getShardIndex(id) # s
      PROVE  OrderedAt(id) => OrderedAt(id)'
  <2> DEFINE t == getShardIndex(id)
  <2>1. t \in Shards /\ t # s
    BY <1>3, ShardIndexType
  <2> HIDE DEF t
  <2>2. /\ incoming'[t] = incoming[t] /\ procPc'[t] = procPc[t]
        /\ cur'[t] = cur[t] /\ ldb'[t] = ldb[t] /\ accepted' = accepted
    BY <1>3, <2>1 DEF ProcessIncoming, Receive, WriteBatch, WriteBatchFails,
                      IncrementWrittenSpans, dbVars, historyVars, TypeOK
  <2> QED
    BY <2>2 DEF OrderedAt, t
<1>4. ASSUME NEW s \in Shards, Receive(s) PROVE OrderInv'
  <2> DEFINE q == incoming[s]
  <2>1. /\ q \in Seq(Item) /\ q # <<>> /\ procPc[s] = "recv"
        /\ incoming'[s] = Tail(q)
        /\ UNCHANGED <<ldb, accepted, failed>>
    BY <1>4 DEF Receive, TypeOK, Item, dbVars, historyVars
  <2>2. ASSUME NEW id \in SpanIds, getShardIndex(id) = s,
               accepted[id].id = id, OrderedAt(id)
        PROVE  OrderedAt(id)'
    <3>1. Ordered(q, "recv", cur[s], ldb[s].data[id], accepted[id], id)
      BY <2>1, <2>2 DEF OrderedAt
    <3>2. CASE Head(q) = Nil
      <4>1. procPc'[s] = "exited" /\ cur' = cur
        BY <1>4, <3>2 DEF Receive, TypeOK
      <4>2. Ordered(Tail(q), "exited", cur[s], ldb[s].data[id], accepted[id], id)
        BY <2>1, <3>1, <3>2, ReceiveNil
      <4> QED
        BY <2>1, <2>2, <4>1, <4>2 DEF OrderedAt
    <3>3. CASE Head(q) # Nil
      <4>1. procPc'[s] = "write" /\ cur'[s] = Head(q)
        BY <1>4, <3>3 DEF Receive, TypeOK
      <4>2. Ordered(Tail(q), "write", Head(q), ldb[s].data[id], accepted[id], id)
        BY <2>1, <2>2, <3>1, <3>3, ReceiveSpan
      <4> QED
        BY <2>1, <2>2, <4>1, <4>2 DEF OrderedAt
    <3> QED
      BY <3>2, <3>3
  <2> QED
    BY <1>1, <1>3, <1>4, <2>1, <2>2 DEF ProcessIncoming
<1>5. ASSUME NEW s \in Shards, WriteBatch(s) PROVE OrderInv'
  <2>1. /\ cur[s] \in Span /\ procPc[s] = "write" /\ procPc'[s] = "stat"
        /\ ldb'[s] = PutBatch(ldb[s], cur[s])
        /\ UNCHANGED <<incoming, cur, accepted, failed>>
    BY <1>5 DEF WriteBatch, TypeOK, historyVars
  <2>2. ASSUME NEW id \in SpanIds, getShardIndex(id) = s, OrderedAt(id),
               accepted[id].id = id
        PROVE  OrderedAt(id)'
    <3>1. ldb[s] \in DB /\ ldb[s].data \in [SpanIds -> Span \cup {Nil}]
      BY DEF TypeOK, DB
    <3>2. ldb'[s].data[id] = IF cur[s].id = id THEN cur[s] ELSE ldb[s].data[id]
      BY <2>1, <3>1 DEF PutBatch
    <3>3. Ordered(incoming[s], "write", cur[s], ldb[s].data[id], accepted[id], id)
      BY <2>1, <2>2 DEF OrderedAt
    <3>4. Ordered(incoming[s], "stat", cur[s],
                  IF cur[s].id = id THEN cur[s] ELSE ldb[s].data[id],
                  accepted[id], id)
      BY <2>2, <3>3 DEF Ordered, Live
    <3> QED
      BY <2>1, <2>2, <3>2, <3>4 DEF OrderedAt
  <2> QED
    BY <1>1, <1>3, <1>5, <2>1, <2>2 DEF ProcessIncoming
<1>6. ASSUME NEW s \in Shards, WriteBatchFails(s) PROVE OrderInv'
  <2>1. /\ procPc[s] = "write" /\ procPc'[s] = "recv"
        /\ failed' = failed \cup {cur[s]}
        /\ UNCHANGED <<incoming, ldb, accepted>>
    BY <1>6 DEF WriteBatchFails, TypeOK, dbVars
  <2>2. ASSUME NEW id \in SpanIds, getShardIndex(id) = s, OrderedAt(id),
               accepted[id] # cur[s]
        PROVE  OrderedAt(id)'
    <3>1. Ordered(incoming[s], "write", cur[s], ldb[s].data[id], accepted[id], id)
      BY <2>1, <2>2 DEF OrderedAt
    <3>2. Ordered(incoming[s], "recv", cur'[s], ldb[s].data[id], accepted[id], id)
      BY <2>2, <3>1 DEF Ordered, Live
    <3> QED
      BY <2>1, <2>2, <3>2 DEF OrderedAt
  <2> QED
    BY <1>3, <1>6, <2>1, <2>2 DEF ProcessIncoming, OrderInv
<1>7. ASSUME NEW s \in Shards, IncrementWrittenSpans(s) PROVE OrderInv'
  <2>1. /\ procPc[s] = "stat" /\ procPc'[s] = "recv"
        /\ UNCHANGED <<incoming, ldb, accepted, failed>>
    BY <1>7 DEF IncrementWrittenSpans, TypeOK, dbVars, historyVars
  <2>2. ASSUME NEW id \in SpanIds, getShardIndex(id) = s, OrderedAt(id)
        PROVE  OrderedAt(id)'
    <3>1. Ordered(incoming[s], "stat", cur[s], ldb[s].data[id], accepted[id], id)
      BY <2>1, <2>2 DEF OrderedAt
    <3>2. Ordered(incoming[s], "recv", cur'[s], ldb[s].data[id], accepted[id], id)
      BY <3>1 DEF Ordered, Live
    <3> QED
      BY <2>1, <2>2, <3>2 DEF OrderedAt
  <2> QED
    BY <1>1, <1>3, <1>7, <2>1, <2>2 DEF ProcessIncoming
<1>8. ASSUME CloseSendNil PROVE OrderInv'
  <2>1. closeIdx \in Shards
    BY <1>8, NumShardsAssumption DEF CloseSendNil, TypeOK, Shards
  <2>2. /\ incoming' = [incoming EXCEPT ![closeIdx] = Append(@, Nil)]
        /\ UNCHANGED <<procPc, cur, ldb, accepted, failed>>
    BY <1>8 DEF CloseSendNil, procVars, dbVars, historyVars
  <2>3. ASSUME NEW id \in SpanIds, OrderedAt(id) PROVE OrderedAt(id)'
    <3> DEFINE t == getShardIndex(id)
    <3>1. t \in Shards /\ incoming[t] \in Seq(Item) /\ Nil \in Item
      BY ShardIndexType DEF TypeOK, Item
    <3> HIDE DEF t
    <3>2. incoming'[t] = incoming[t] \/ incoming'[t] = Append(incoming[t], Nil)
      BY <2>1, <2>2, <3>1 DEF TypeOK
    <3>3. Ordered(incoming[t], procPc[t], cur[t], ldb[t].data[id],
                  accepted[id], id)
      BY <2>3 DEF OrderedAt, t
    <3>4. Ordered(Append(incoming[t], Nil), procPc[t], cur[t], ldb[t].data[id],
                  accepted[id], id)
      BY <3>1, <3>3, AppendOther
    <3> QED
      BY <2>2, <3>2, <3>3, <3>4 DEF OrderedAt, t
  <2> QED
    BY <1>1, <2>2, <2>3
<1>9. ASSUME Crash \/ Restart PROVE OrderInv'
  BY <1>9 DEF Crash, Restart, Volatile, OrderInv
<1>10. ASSUME UNCHANGED <<incoming, procPc, cur, ldb, accepted, failed>>
       PROVE  OrderInv'
  BY <1>10 DEF OrderInv, OrderedAt
<1> QED
  BY <1>2, <1>4, <1>5, <1>6, <1>7, <1>8, <1>9, <1>10
     DEF Next, Handler, ProcessIncoming, CloseStep, BeginWriteRequest, PickShard,
         EndWriteRequest, WriteBack, BeginClose, CloseAwaitExit, CloseLevelDB,
         dbVars, procVars, historyVars, vars

\* Spans of one id are applied in the order in which the channel took them,
\* and none that was accepted is forgotten, while handlers, the goroutine and
\* Close run beside each other (datastore.go:161-178, 253-262, 468-471).
THEOREM ChannelOrder == Spec => []LatestAcceptedWins
<1>1. Init => OrderInv
  BY DEF Init, OrderInv
<1>2. TypeOK /\ OrderInv => LatestAcceptedWins
  <2> SUFFICES ASSUME TypeOK, OrderInv, NEW id \in SpanIds,
                      accepted[id] # Nil, accepted[id] \notin failed,
                      \A span \in Pending(getShardIndex(id)) : span.id # id
               PROVE  ldb[getShardIndex(id)].data[id] = accepted[id]
    BY DEF LatestAcceptedWins
  <2> DEFINE s == getShardIndex(id)
  <2>1. accepted[id].id = id /\ OrderedAt(id)
    BY DEF OrderInv
  <2>2. \A i \in Live(incoming[s], procPc[s]) : incoming[s][i].id # id
    BY DEF Pending, Live
  <2>3. procPc[s] = "write" => cur[s].id # id
    BY DEF Pending
  <2> QED
    BY <2>1, <2>2, <2>3 DEF OrderedAt, Ordered
<1> QED
  BY <1>1, <1>2, TypeCorrect, NilSentOnce, OrderStep, PTL DEF Spec

=============================================================================
