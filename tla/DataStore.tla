----------------------------- MODULE DataStore ------------------------------
(***************************************************************************)
(* The sharded span store of htraced (datastore.go).                       *)
(*                                                                         *)
(* Every shard owns a LevelDB instance, a buffered channel of incoming     *)
(* spans and one goroutine, processIncoming, which takes spans from the    *)
(* channel and writes each with its index entries in one batch.  Request   *)
(* handlers (REST writeSpans, HRPC WriteSpans) send spans to the channels; *)
(* Close shuts the shards down one after the other.  LevelDB is written    *)
(* without sync, so that a crash of the machine falls back to an earlier   *)
(* state of the database, while a crash of the process does not.           *)
(***************************************************************************)
EXTENDS SpanSchema, Sequences, FiniteSets

CONSTANTS
    Handlers,      \* goroutines that serve write requests
    Requests,      \* the write requests: sequences of spans
    BufferSize,    \* data.store.span.buffer.size
    MaxRequests,   \* bound: write requests over the whole behaviour
    MaxRestarts    \* bound: restarts over the whole behaviour

ASSUME RequestsAssumption == Requests \subseteq Seq(Span)
ASSUME BoundsAssumption ==
    BufferSize \in Nat /\ MaxRequests \in Nat /\ MaxRestarts \in Nat

VARIABLES
    ldb,        \* [Shards -> DB]: what LevelDB returns now
    disk,       \* [Shards -> DB]: what would survive a machine crash
    ldbOpen,    \* [Shards -> BOOLEAN]: LevelDB instance not closed yet
    incoming,   \* [Shards -> Seq(Span \cup {Nil})]: the channels
    procPc,     \* [Shards -> ...]: where processIncoming stands
    cur,        \* [Shards -> Span \cup {Nil}]: the span being written
    todo,       \* [Handlers -> Seq(Span)]: spans a handler has yet to send
    handlerPc,  \* [Handlers -> ...]: where the handler stands
    closeIdx,   \* Close: the shard being closed, NumShards when all are
    closePc,    \* Close: the step of shard.Close
    up,         \* whether the process runs
    numSpansWritten, \* Statistics.NumSpansWritten
    accepted,   \* history: the last span of an id taken by a live channel
    failed,     \* history: spans dropped by a failed write of this process
    requests, restarts   \* bound counters

dbVars == <<ldb, disk, ldbOpen>>
procVars == <<procPc, cur>>
handlerVars == <<todo, handlerPc>>
closeVars == <<closeIdx, closePc>>
historyVars == <<accepted, failed>>
boundVars == <<requests, restarts>>
vars == <<ldb, disk, ldbOpen, incoming, procPc, cur, todo, handlerPc,
          closeIdx, closePc, up, numSpansWritten, accepted, failed,
          requests, restarts>>

ProcPc == {"recv", "write", "stat", "exited"}
HandlerPc == {"idle", "pick", "send", "panicked"}
ClosePc == {"idle", "send", "wait", "ldb", "finished"}

\* store.shards[idx] is nil once Close is done with the shard.
ShardIsNil(s) == s < closeIdx

\* Close has put its nil into the channel of shard s.
NilSent(s) == ShardIsNil(s) \/ (s = closeIdx /\ closePc \in {"wait", "ldb"})

\* A send to the channel of s does not block: there is room in the buffer, or
\* the receiving goroutine is waiting.
CanSend(s) ==
    \/ Len(incoming[s]) < BufferSize
    \/ incoming[s] = <<>> /\ procPc[s] = "recv"

-----------------------------------------------------------------------------

\* CreateDataStore has opened every shard and started its goroutine.
Init ==
    /\ ldb = [s \in Shards |-> EmptyDB]
    /\ disk = [s \in Shards |-> EmptyDB]
    /\ ldbOpen = [s \in Shards |-> TRUE]
    /\ incoming = [s \in Shards |-> <<>>]
    /\ procPc = [s \in Shards |-> "recv"]
    /\ cur = [s \in Shards |-> Nil]
    /\ todo = [h \in Handlers |-> <<>>]
    /\ handlerPc = [h \in Handlers |-> "idle"]
    /\ closeIdx = 0 /\ closePc = "idle"
    /\ up = TRUE
    /\ numSpansWritten = 0
    /\ accepted = [id \in SpanIds |-> Nil]
    /\ failed = {}
    /\ requests = 0 /\ restarts = 0

-----------------------------------------------------------------------------
\* Request handlers: the loop over the spans of a write request.

\* A request whose spans were all parsed; an unparsable one writes nothing.
BeginWriteRequest(h) ==
    /\ up /\ handlerPc[h] = "idle" /\ requests < MaxRequests
    /\ \E req \in Requests : todo' = [todo EXCEPT ![h] = req]
    /\ handlerPc' = [handlerPc EXCEPT ![h] = "pick"]
    /\ requests' = requests + 1
    /\ UNCHANGED <<dbVars, incoming, procVars, closeVars, up,
                   numSpansWritten, historyVars, restarts>>

\* WriteSpan evaluates store.shards[idx].incoming: a nil shard panics.
PickShard(h) ==
    /\ up /\ handlerPc[h] = "pick" /\ todo[h] # <<>>
    /\ handlerPc' = [handlerPc EXCEPT ![h] =
          IF ShardIsNil(getShardIndex(Head(todo[h]).id))
            THEN "panicked" ELSE "send"]
    /\ UNCHANGED <<dbVars, incoming, procVars, todo, closeVars, up,
                   numSpansWritten, historyVars, boundVars>>

\* WriteSpan sends the span, once the channel has room for it.
SendSpan(h) ==
    LET span == Head(todo[h])
        s == getShardIndex(span.id) IN
    /\ up /\ handlerPc[h] = "send" /\ todo[h] # <<>>
    /\ CanSend(s)
    /\ incoming' = [incoming EXCEPT ![s] = Append(@, span)]
    /\ todo' = [todo EXCEPT ![h] = Tail(@)]
    /\ handlerPc' = [handlerPc EXCEPT ![h] = "pick"]
    /\ accepted' = IF NilSent(s) THEN accepted
                   ELSE [accepted EXCEPT ![span.id] = span]
    /\ UNCHANGED <<dbVars, procVars, closeVars, up, numSpansWritten, failed,
                   boundVars>>

EndWriteRequest(h) ==
    /\ up /\ handlerPc[h] = "pick" /\ todo[h] = <<>>
    /\ handlerPc' = [handlerPc EXCEPT ![h] = "idle"]
    /\ UNCHANGED <<dbVars, incoming, procVars, todo, closeVars, up,
                   numSpansWritten, historyVars, boundVars>>

-----------------------------------------------------------------------------
\* The goroutine of a shard.

\* The goroutine returns on nil without a word to the exited channel.
Receive_SilentExit(s) ==
    /\ up /\ procPc[s] = "recv" /\ incoming[s] # <<>>
    /\ Head(incoming[s]) # Nil
    /\ incoming' = [incoming EXCEPT ![s] = Tail(@)]
    /\ procPc' = [procPc EXCEPT ![s] = "write"]
    /\ cur' = [cur EXCEPT ![s] = Head(incoming[s])]
    /\ UNCHANGED <<dbVars, handlerVars, closeVars, up, numSpansWritten,
                   historyVars, boundVars>>

\* The nil that Close sends is taken for a span.
Receive_TakesNil(s) ==
    /\ up /\ procPc[s] = "recv" /\ incoming[s] # <<>>
    /\ incoming' = [incoming EXCEPT ![s] = Tail(@)]
    /\ procPc' = [procPc EXCEPT ![s] = "write"]
    /\ cur' = [cur EXCEPT ![s] = Head(incoming[s])]
    /\ UNCHANGED <<dbVars, handlerVars, closeVars, up, numSpansWritten,
                   historyVars, boundVars>>

\* processIncoming takes the head of the channel; nil makes it exit.
Receive(s) ==
    /\ up /\ procPc[s] = "recv" /\ incoming[s] # <<>>
    /\ incoming' = [incoming EXCEPT ![s] = Tail(@)]
    /\ IF Head(incoming[s]) = Nil
         THEN /\ procPc' = [procPc EXCEPT ![s] = "exited"]
              /\ UNCHANGED cur
         ELSE /\ procPc' = [procPc EXCEPT ![s] = "write"]
              /\ cur' = [cur EXCEPT ![s] = Head(incoming[s])]
    /\ UNCHANGED <<dbVars, handlerVars, closeVars, up, numSpansWritten,
                   historyVars, boundVars>>

\* writeSpan up to ldb.Write, which applies the batch atomically.
WriteBatch(s) ==
    /\ up /\ procPc[s] = "write"
    /\ ldb' = [ldb EXCEPT ![s] = PutBatch(@, cur[s])]
    /\ procPc' = [procPc EXCEPT ![s] = "stat"]
    /\ UNCHANGED <<disk, ldbOpen, incoming, cur, handlerVars, closeVars, up,
                   numSpansWritten, historyVars, boundVars>>

\* The encoder or LevelDB returns an error: it is logged, the span dropped.
WriteBatchFails(s) ==
    /\ up /\ procPc[s] = "write"
    /\ failed' = failed \cup {cur[s]}
    /\ procPc' = [procPc EXCEPT ![s] = "recv"]
    /\ cur' = [cur EXCEPT ![s] = Nil]
    /\ UNCHANGED <<dbVars, incoming, handlerVars, closeVars, up,
                   numSpansWritten, accepted, boundVars>>

\* Nobody drains WrittenSpans: the goroutine blocks on it for good.
IncrementWrittenSpans_Blocks(s) ==
    /\ up /\ procPc[s] = "stat" /\ numSpansWritten = 0
    /\ numSpansWritten' = numSpansWritten + 1
    /\ procPc' = [procPc EXCEPT ![s] = "recv"]
    /\ cur' = [cur EXCEPT ![s] = Nil]
    /\ UNCHANGED <<dbVars, incoming, handlerVars, closeVars, up, historyVars,
                   boundVars>>

\* writeSpan counts the span after the write.  (The test-only channel
\* WrittenSpans is nil in a server.)
IncrementWrittenSpans(s) ==
    /\ up /\ procPc[s] = "stat"
    /\ numSpansWritten' = numSpansWritten + 1
    /\ procPc' = [procPc EXCEPT ![s] = "recv"]
    /\ cur' = [cur EXCEPT ![s] = Nil]
    /\ UNCHANGED <<dbVars, incoming, handlerVars, closeVars, up, historyVars,
                   boundVars>>

-----------------------------------------------------------------------------
\* dataStore.Close, and shard.Close for the shard closeIdx.

BeginClose ==
    /\ up /\ closePc = "idle"
    /\ closePc' = "send"
    /\ UNCHANGED <<dbVars, incoming, procVars, handlerVars, closeIdx, up,
                   numSpansWritten, historyVars, boundVars>>

CloseSendNil ==
    /\ up /\ closePc = "send"
    /\ CanSend(closeIdx)
    /\ incoming' = [incoming EXCEPT ![closeIdx] = Append(@, Nil)]
    /\ closePc' = "wait"
    /\ UNCHANGED <<dbVars, procVars, handlerVars, closeIdx, up,
                   numSpansWritten, historyVars, boundVars>>

\* Close does not wait for the goroutine.
CloseAwaitExit_NoWait ==
    /\ up /\ closePc = "wait"
    /\ closePc' = "ldb"
    /\ UNCHANGED <<dbVars, incoming, procVars, handlerVars, closeIdx, up,
                   numSpansWritten, historyVars, boundVars>>

CloseAwaitExit ==
    /\ up /\ closePc = "wait" /\ procPc[closeIdx] = "exited"
    /\ closePc' = "ldb"
    /\ UNCHANGED <<dbVars, incoming, procVars, handlerVars, closeIdx, up,
                   numSpansWritten, historyVars, boundVars>>

\* ldb.Close, then store.shards[idx] = nil and on to the next shard.
CloseLevelDB ==
    /\ up /\ closePc = "ldb"
    /\ ldbOpen' = [ldbOpen EXCEPT ![closeIdx] = FALSE]
    /\ closeIdx' = closeIdx + 1
    /\ closePc' = IF closeIdx + 1 = NumShards THEN "finished" ELSE "send"
    /\ UNCHANGED <<ldb, disk, incoming, procVars, handlerVars, up,
                   numSpansWritten, historyVars, boundVars>>

-----------------------------------------------------------------------------
\* Crashes and restarts.

\* The operating system writes what LevelDB has logged so far to the disk.
WriteBack(s) ==
    /\ disk[s] # ldb[s]
    /\ disk' = [disk EXCEPT ![s] = ldb[s]]
    /\ UNCHANGED <<ldb, ldbOpen, incoming, procVars, handlerVars, closeVars,
                   up, numSpansWritten, historyVars, boundVars>>

\* Channels, goroutines and counters die with the process.
Volatile ==
    /\ incoming' = [s \in Shards |-> <<>>]
    /\ procPc' = [s \in Shards |-> "recv"]
    /\ cur' = [s \in Shards |-> Nil]
    /\ todo' = [h \in Handlers |-> <<>>]
    /\ handlerPc' = [h \in Handlers |-> "idle"]
    /\ closeIdx' = 0 /\ closePc' = "idle"
    /\ numSpansWritten' = 0
    /\ accepted' = [id \in SpanIds |-> Nil]
    /\ failed' = {}

Crash ==
    /\ up
    /\ up' = FALSE
    /\ Volatile
    /\ ldbOpen' = [s \in Shards |-> FALSE]
    /\ ldb' \in {ldb, disk}
    /\ UNCHANGED <<disk, boundVars>>

\* CreateDataStore on the same directories, after a crash or a Close,
\* possibly with data.store.clear set.
Restart ==
    /\ restarts < MaxRestarts
    /\ ~up \/ closePc = "finished"
    /\ up' = TRUE
    /\ restarts' = restarts + 1
    /\ ldbOpen' = [s \in Shards |-> TRUE]
    /\ Volatile
    /\ \/ UNCHANGED <<ldb, disk>>
       \/ /\ ldb' = [s \in Shards |-> EmptyDB]
          /\ disk' = [s \in Shards |-> EmptyDB]
    /\ UNCHANGED requests

-----------------------------------------------------------------------------

Handler(h) ==
    BeginWriteRequest(h) \/ PickShard(h) \/ SendSpan(h) \/ EndWriteRequest(h)

ProcessIncoming(s) ==
    Receive(s) \/ WriteBatch(s) \/ WriteBatchFails(s) \/ IncrementWrittenSpans(s)

CloseStep == CloseSendNil \/ CloseAwaitExit \/ CloseLevelDB

Next ==
    \/ \E h \in Handlers : Handler(h)
    \/ \E s \in Shards : ProcessIncoming(s) \/ WriteBack(s)
    \/ BeginClose \/ CloseStep
    \/ Crash \/ Restart

Spec == Init /\ [][Next]_vars

\* The Go scheduler runs every goroutine that can run, and a channel serves
\* its blocked senders in the order they arrived.
Fairness ==
    /\ \A s \in Shards : WF_vars(ProcessIncoming(s))
    /\ WF_vars(CloseAwaitExit) /\ WF_vars(CloseLevelDB)
    /\ SF_vars(CloseSendNil)

FairSpec == Spec /\ Fairness

-----------------------------------------------------------------------------
\* Correctness.

\* Types; the goroutine of a shard never goes on to write the nil of Close, and
\* Close ends with the last shard.
TypeOK ==
    /\ ldb \in [Shards -> DB]
    /\ disk \in [Shards -> DB]
    /\ ldbOpen \in [Shards -> BOOLEAN]
    /\ incoming \in [Shards -> Seq(Span \cup {Nil})]
    /\ procPc \in [Shards -> ProcPc]
    /\ cur \in [Shards -> Span \cup {Nil}]
    /\ \A s \in Shards : procPc[s] = "write" => cur[s] \in Span
    /\ todo \in [Handlers -> Seq(Span)]
    /\ handlerPc \in [Handlers -> HandlerPc]
    /\ closeIdx \in 0 .. NumShards
    /\ closePc \in ClosePc
    /\ closeIdx = NumShards <=> closePc = "finished"
    /\ up \in BOOLEAN
    /\ numSpansWritten \in Nat
    /\ accepted \in [SpanIds -> Span \cup {Nil}]
    /\ failed \subseteq Span
    /\ requests \in Nat /\ restarts \in Nat

\* Whatever handlers, writers, Close and crashes do, what LevelDB holds and
\* what a machine crash would leave of it are consistent, so that FindSpan
\* looks in the right shard and a query never fails to rehydrate an index
\* entry ("Internal error rehydrating span", datastore.go:881).
IndexMatchesData ==
    \A s \in Shards : Consistent(s, ldb[s]) /\ Consistent(s, disk[s])

\* A span under way is in the channel of the shard that will be asked for it.
RoutedToOwner ==
    \A s \in Shards :
        /\ \A i \in 1 .. Len(incoming[s]) :
              incoming[s][i] # Nil => getShardIndex(incoming[s][i].id) = s
        /\ cur[s] # Nil => getShardIndex(cur[s].id) = s

\* The goroutine of a shard never writes to a LevelDB instance that Close has
\* closed, although Close runs beside it (shard.Close waits for exited).
NoWriteAfterClose ==
    \A s \in Shards : up /\ procPc[s] = "write" => ldbOpen[s]

\* The places in a channel ahead of Close's nil.
Ahead(q) == {i \in 1 .. Len(q) : \A j \in 1 .. i : q[j] # Nil}

\* The spans of shard s that its goroutine has yet to write: what lies ahead
\* of Close's nil in the channel, and the span at hand.
Pending(s) ==
    (IF procPc[s] = "exited" THEN {}
     ELSE {incoming[s][i] : i \in Ahead(incoming[s])})
    \cup (IF procPc[s] = "write" THEN {cur[s]} ELSE {})

\* Spans of one id are applied in the order the channel took them and none is
\* forgotten: once nothing of the id is pending, the store holds the one that
\* was accepted last, unless its write failed.  Spans sent after Close's nil
\* are not accepted: nobody reads them.
LatestAcceptedWins ==
    \A id \in SpanIds :
        LET s == getShardIndex(id) IN
        (/\ accepted[id] # Nil
         /\ accepted[id] \notin failed
         /\ \A span \in Pending(s) : span.id # id)
        => ldb[s].data[id] = accepted[id]

\* A span that a live channel has taken is eventually written or its write
\* fails, unless the process goes down first.
AcceptedIsDecided ==
    \A s \in Shards : \A id \in SpanIds :
        (\E span \in Pending(s) : span.id = id)
        ~> (\A span \in Pending(s) : span.id # id) \/ ~up

\* Close returns, however the handlers keep sending, unless the process goes
\* down first.
CloseFinishes == (closePc = "send") ~> (closePc = "finished" \/ ~up)

=============================================================================
