------------------------ MODULE QueueReceiverProofs -------------------------
(***************************************************************************)
(* Machine-checked proofs about the queue receivers, for any number of     *)
(* spans and workers, any capacity and batch size, any limit on errors and *)
(* any number of failures.                                                 *)
(***************************************************************************)
EXTENDS QueueReceiver, SequenceLemmas

-----------------------------------------------------------------------------
\* Type correctness.

\* The part of a queue that Drain takes is a prefix of it.
LEMMA DrainLength ==
    ASSUME TypeOK
    PROVE  (IF Len(queue) < BatchSize - 1 THEN Len(queue) ELSE BatchSize - 1)
              \in 0 .. Len(queue)
BY QueueReceiverAssumption DEF TypeOK

\* A failed send has delivered nothing but spans of the batch.
LEMMA PartlySentType ==
    ASSUME TypeOK, NEW w \in Workers, NEW sent \in PartlySent(w)
    PROVE  sent \subseteq Range(dequeued[w])
<1>1. dequeued[w] \in Seq(Spans)
  BY DEF TypeOK
<1>2. ASSUME NEW n \in 0 .. Len(dequeued[w])
      PROVE  Range(SubSeq(dequeued[w], 1, n)) \subseteq Range(dequeued[w])
  <2>1. Range(dequeued[w]) = Range(SubSeq(dequeued[w], 1, n))
                 \cup Range(SubSeq(dequeued[w], n + 1, Len(dequeued[w])))
    BY <1>1, RangeSplit, Zenon
  <2> QED
    BY <2>1, Zenon
<1>3. CASE ~ client[w]
  BY <1>3 DEF PartlySent
<1>4. CASE client[w] /\ kind = "hbase"
  BY <1>2, <1>4 DEF PartlySent
<1>5. CASE client[w] /\ kind # "hbase"
  BY <1>5 DEF PartlySent
<1> QED
  BY <1>3, <1>4, <1>5

\* A queue with space for it takes one more span.
LEMMA AppendFits ==
    ASSUME TypeOK
    PROVE  /\ queue \in Seq(Spans) /\ Len(queue) <= Capacity
           /\ \A s \in Spans : Len(queue) < Capacity =>
                 Append(queue, s) \in Seq(Spans) /\ Len(Append(queue, s)) <= Capacity
<1>1. queue \in Seq(Spans) /\ Len(queue) <= Capacity
  BY DEF TypeOK
<1>2. ASSUME NEW s \in Spans
      PROVE  Append(queue, s) \in Seq(Spans) /\ Len(Append(queue, s)) = Len(queue) + 1
  BY <1>1, RangeAppend
<1> QED
  BY <1>1, <1>2, QueueReceiverAssumption

\* The variables have their types, and the queue never outgrows its capacity.
THEOREM TypeCorrect == Spec => []TypeOK
<1>1. Init => TypeOK
  BY QueueReceiverAssumption DEF Init, TypeOK, WorkerPcs
<1>2. TypeOK /\ [Next]_vars => TypeOK'
  <2> SUFFICES ASSUME TypeOK, [Next]_vars PROVE TypeOK'
    OBVIOUS
  <2> USE DEF workerVars
  <2>1. ASSUME NEW s \in Spans, CheckRunning(s) PROVE TypeOK'
    BY <2>1 DEF CheckRunning, TypeOK
  <2>2. ASSUME NEW s \in Spans, AddToQueue(s) PROVE TypeOK'
    <3>1. queue' \in Seq(Spans) /\ Len(queue') <= Capacity
      <4>1. \/ queue' = queue
            \/ Len(queue) < Capacity /\ queue' = Append(queue, s)
        BY <2>2 DEF AddToQueue
      <4> QED
        BY <4>1, AppendFits
    <3>2. early' \subseteq Spans
      BY <2>2 DEF AddToQueue, TypeOK
    <3> QED
      BY <2>2, <3>1, <3>2 DEF AddToQueue, TypeOK
  <2>3. ASSUME NEW w \in Workers, LoopTest(w) \/ PollTimesOut(w) \/ Idle(w) \/ IdleFails(w)
        PROVE  TypeOK'
    <3>1. CASE IdleFails(w)
      BY <3>1 DEF IdleFails, Goto, TypeOK, WorkerPcs
    <3>2. CASE LoopTest(w) \/ PollTimesOut(w) \/ Idle(w)
      BY <3>2 DEF LoopTest, PollTimesOut, Idle, Goto, TypeOK, WorkerPcs
    <3> QED
      BY <2>3, <3>1, <3>2
  <2>4. ASSUME NEW w \in Workers, Poll(w) PROVE TypeOK'
    <3>1. /\ Head(queue) \in Spans /\ Tail(queue) \in Seq(Spans)
          /\ Len(Tail(queue)) = Len(queue) - 1
      BY <2>4, RangeHeadTail DEF Poll, TypeOK
    <3> QED
      BY <2>4, <3>1, QueueReceiverAssumption DEF Poll, Goto, TypeOK, WorkerPcs
  <2>5. ASSUME NEW w \in Workers, Drain(w) PROVE TypeOK'
    <3> DEFINE n == IF Len(queue) < BatchSize - 1 THEN Len(queue) ELSE BatchSize - 1
    <3>1. n \in 0 .. Len(queue)
      BY DrainLength
    <3>2. /\ dequeued' = [dequeued EXCEPT ![w] = @ \o SubSeq(queue, 1, n)]
          /\ queue' = SubSeq(queue, n + 1, Len(queue))
      BY <2>5 DEF Drain
    <3> HIDE DEF n
    <3>3. /\ SubSeq(queue, 1, n) \in Seq(Spans)
          /\ SubSeq(queue, n + 1, Len(queue)) \in Seq(Spans)
          /\ Len(SubSeq(queue, n + 1, Len(queue))) = Len(queue) - n
      BY <3>1, RangeSplit DEF TypeOK
    <3>4. queue' \in Seq(Spans) /\ Len(queue') <= Capacity
      BY <3>1, <3>2, <3>3, QueueReceiverAssumption DEF TypeOK
    <3>5. dequeued' \in [Workers -> Seq(Spans)]
      BY <3>2, <3>3 DEF TypeOK
    <3> QED
      BY <2>5, <3>4, <3>5 DEF Drain, Goto, TypeOK, WorkerPcs
  <2>6. ASSUME NEW w \in Workers, Connect(w) \/ ConnectFails(w) PROVE TypeOK'
    <3>1. client' \in [Workers -> BOOLEAN] /\ pc' \in [Workers -> WorkerPcs]
      BY <2>6 DEF Connect, ConnectFails, Goto, TypeOK, WorkerPcs
    <3>2. fails' \in Nat
      BY <2>6 DEF Connect, ConnectFails, TypeOK
    <3> QED
      BY <2>6, <3>1, <3>2 DEF Connect, ConnectFails, TypeOK
  <2>7. ASSUME NEW w \in Workers, Send(w) PROVE TypeOK'
    <3>1. Range(dequeued[w]) \subseteq Spans
      BY RangeType DEF TypeOK
    <3> QED
      BY <2>7, <3>1 DEF Send, Goto, TypeOK, WorkerPcs
  <2>8. ASSUME NEW w \in Workers, SendFails(w) PROVE TypeOK'
    <3>1. Range(dequeued[w]) \subseteq Spans
      BY RangeType DEF TypeOK
    <3>2. delivered' \subseteq Spans
      BY <2>8, <3>1, PartlySentType DEF SendFails, TypeOK
    <3> QED
      BY <2>8, <3>2 DEF SendFails, Goto, TypeOK, WorkerPcs
  <2>9. ASSUME NEW w \in Workers, AddAll(w) PROVE TypeOK'
    <3>1. queue' \in Seq(Spans) /\ Len(queue') <= Capacity
      <4>1. addIdx[w] <= Len(dequeued[w]) => dequeued[w][addIdx[w]] \in Spans
        BY DEF TypeOK
      <4>2. \/ queue' = queue
            \/ /\ addIdx[w] <= Len(dequeued[w]) /\ Len(queue) < Capacity
               /\ queue' = Append(queue, dequeued[w][addIdx[w]])
        BY <2>9 DEF AddAll
      <4> QED
        BY <4>1, <4>2, AppendFits
    <3>2. addIdx' \in [Workers -> Nat \ {0}]
      BY <2>9 DEF AddAll, TypeOK
    <3>3. pc' \in [Workers -> WorkerPcs]
      BY <2>9 DEF AddAll, Goto, TypeOK, WorkerPcs
    <3> QED
      BY <2>9, <3>1, <3>2, <3>3 DEF AddAll, TypeOK
  <2>10. ASSUME NEW w \in Workers, CloseClient(w) PROVE TypeOK'
    BY <2>10 DEF CloseClient, Goto, TypeOK, WorkerPcs
  <2>11. ASSUME Close PROVE TypeOK'
    BY <2>11 DEF Close, StopRunning, Terminated, AwaitTimesOut, TypeOK
  <2>12. ASSUME UNCHANGED vars PROVE TypeOK'
    BY <2>12 DEF vars, TypeOK
  <2> QED
    BY <2>1, <2>2, <2>3, <2>4, <2>5, <2>6, <2>7, <2>8, <2>9, <2>10, <2>11, <2>12
       DEF Next, Receive, Worker
<1> QED
  BY <1>1, <1>2, PTL DEF Spec

-----------------------------------------------------------------------------
\* Nothing is lost while the receiver runs.

\* A span is delivered, in the queue or in the list of a worker, be the worker
\* alive or not.
Kept(s) == \/ s \in delivered \/ s \in Range(queue)
           \/ \E w \in Workers : s \in Range(dequeued[w])

\* No step loses a span that is kept: what leaves the queue is in the list of a
\* worker, and the list is cleared only when the collector has it.
LEMMA KeptStep ==
    ASSUME TypeOK, TypeOK', [Next]_vars, NEW s \in Spans, Kept(s)
    PROVE  Kept(s)'
<1> USE DEF workerVars
<1>1. ASSUME UNCHANGED <<queue, dequeued>>, delivered \subseteq delivered'
      PROVE  Kept(s)'
  BY <1>1 DEF Kept
<1>2. ASSUME NEW x \in Spans, queue' = Append(queue, x), UNCHANGED <<dequeued, delivered>>
      PROVE  Kept(s)'
  <2>1. Range(queue') = Range(queue) \cup {x}
    BY <1>2, RangeAppend DEF TypeOK
  <2> QED
    BY <1>2, <2>1 DEF Kept
<1>3. ASSUME NEW r \in Spans, CheckRunning(r) \/ AddToQueue(r) PROVE Kept(s)'
  BY <1>1, <1>2, <1>3 DEF CheckRunning, AddToQueue
<1>4. ASSUME NEW w \in Workers, Poll(w) PROVE Kept(s)'
  <2>1. Head(queue) \in Spans /\ Range(queue) = {Head(queue)} \cup Range(Tail(queue))
    BY <1>4, RangeHeadTail DEF Poll, TypeOK
  <2>2. /\ queue' = Tail(queue) /\ delivered' = delivered
        /\ dequeued'[w] = Append(dequeued[w], Head(queue))
        /\ \A v \in Workers \ {w} : dequeued'[v] = dequeued[v]
    BY <1>4 DEF Poll, TypeOK
  <2>3. dequeued[w] \in Seq(Spans)
    BY DEF TypeOK
  <2>4. Range(dequeued'[w]) = Range(dequeued[w]) \cup {Head(queue)}
    BY <2>1, <2>2, <2>3, RangeAppend
  <2> QED
    BY <2>1, <2>2, <2>4 DEF Kept
<1>5. ASSUME NEW w \in Workers, Drain(w) PROVE Kept(s)'
  <2> DEFINE n == IF Len(queue) < BatchSize - 1 THEN Len(queue) ELSE BatchSize - 1
  <2>1. n \in 0 .. Len(queue)
    BY DrainLength
  <2>2. /\ queue' = SubSeq(queue, n + 1, Len(queue)) /\ delivered' = delivered
        /\ dequeued'[w] = dequeued[w] \o SubSeq(queue, 1, n)
        /\ \A v \in Workers \ {w} : dequeued'[v] = dequeued[v]
    BY <1>5 DEF Drain, TypeOK
  <2> HIDE DEF n
  <2>3. queue \in Seq(Spans) /\ dequeued[w] \in Seq(Spans)
    BY DEF TypeOK
  <2>4. /\ SubSeq(queue, 1, n) \in Seq(Spans)
        /\ Range(queue) = Range(SubSeq(queue, 1, n)) \cup Range(queue')
    BY <2>1, <2>2, <2>3, RangeSplit
  <2>5. Range(dequeued'[w]) = Range(dequeued[w]) \cup Range(SubSeq(queue, 1, n))
    <3>1. \A t \in Seq(Spans) : Range(dequeued[w] \o t) = Range(dequeued[w]) \cup Range(t)
      BY <2>3, RangeConcatenation
    <3> QED
      BY <2>2, <2>4, <3>1, Zenon
  <2> QED
    BY <2>2, <2>4, <2>5 DEF Kept
<1>6. ASSUME NEW w \in Workers, Send(w) PROVE Kept(s)'
  <2>1. /\ queue' = queue /\ delivered' = delivered \cup Range(dequeued[w])
        /\ \A v \in Workers \ {w} : dequeued'[v] = dequeued[v]
    BY <1>6 DEF Send, TypeOK
  <2> QED
    BY <2>1 DEF Kept
<1>7. ASSUME NEW w \in Workers, AddAll(w) PROVE Kept(s)'
  <2>1. addIdx[w] <= Len(dequeued[w]) => dequeued[w][addIdx[w]] \in Spans
    BY DEF TypeOK
  <2> QED
    BY <1>1, <1>2, <1>7, <2>1 DEF AddAll
<1>8. ASSUME NEW w \in Workers,
             \/ LoopTest(w) \/ PollTimesOut(w) \/ Connect(w) \/ ConnectFails(w)
             \/ Idle(w) \/ IdleFails(w) \/ SendFails(w) \/ CloseClient(w)
      PROVE  Kept(s)'
  BY <1>1, <1>8 DEF LoopTest, PollTimesOut, Connect, ConnectFails, Idle,
                    IdleFails, SendFails, CloseClient
<1>9. ASSUME Close \/ UNCHANGED vars PROVE Kept(s)'
  BY <1>1, <1>9 DEF Close, StopRunning, Terminated, AwaitTimesOut, vars
<1> QED
  BY <1>3, <1>4, <1>5, <1>6, <1>7, <1>8, <1>9 DEF Next, Receive, Worker

\* The inductive invariant: what receiveSpan has queued is kept, for ever.
AllKept == \A s \in Spans : recvPc[s] = "queued" => Kept(s)

\* Neither a worker, nor a receive, nor close loses a queued span.
LEMMA AllKeptInvariant == Spec => []AllKept
<1>1. Init => AllKept
  BY DEF Init, AllKept
<1>2. TypeOK /\ TypeOK' /\ AllKept /\ [Next]_vars => AllKept'
  <2> SUFFICES ASSUME TypeOK, TypeOK', AllKept, [Next]_vars,
                      NEW s \in Spans, recvPc'[s] = "queued", recvPc[s] # "queued"
               PROVE  Kept(s)'
    BY KeptStep DEF AllKept
  <2>1. PICK r \in Spans : CheckRunning(r) \/ AddToQueue(r)
    BY DEF Next, Receive, Worker, Close, LoopTest, Poll, Drain, PollTimesOut,
           Connect, ConnectFails, Idle, IdleFails, Send, SendFails, AddAll, CloseClient,
           StopRunning, Terminated, AwaitTimesOut, vars
  <2>2. r = s /\ AddToQueue(r)
    BY <2>1 DEF CheckRunning, AddToQueue, TypeOK
  <2>3. queue' = Append(queue, s)
    BY <2>2 DEF AddToQueue, TypeOK
  <2>4. Range(queue') = Range(queue) \cup {s}
    BY <2>3, RangeAppend DEF TypeOK
  <2> QED
    BY <2>4 DEF Kept
<1> QED
  BY <1>1, <1>2, TypeCorrect, PTL DEF Spec

\* While the receiver runs and its workers live, a span that receiveSpan has
\* queued is delivered, in the queue or in the hands of a live worker, whatever
\* fails (ZipkinSpanReceiver.java, HBaseSpanReceiver.java, FlumeSpanReceiver.java).
THEOREM QueueLosesNothing == Spec => []NothingLost
<1>1. AllKept => NothingLost
  BY DEF AllKept, Kept, NothingLost, Queued, Held
<1> QED
  BY <1>1, AllKeptInvariant, PTL

-----------------------------------------------------------------------------
\* close leaves nothing behind.

\* Where a worker stands as long as nothing has failed: it sends only with a
\* connection, and it goes round, and ends, only with an empty list.
NoFailure(w) ==
    /\ pc[w] \notin {"addAll", "closeClient", "dead"}
    /\ pc[w] \in {"send", "idle"} => client[w]
    /\ pc[w] \in {"loop", "poll", "idle", "exited"} => dequeued[w] = <<>>

\* The inductive invariant.  A worker that has ended has seen an empty queue
\* after close was called, and what is queued later is not an early span.
CloseInv ==
    /\ \A s \in early : recvPc[s] = "queued"
    /\ fails = 0 =>
          /\ \A w \in Workers : NoFailure(w)
          /\ (\E w \in Workers : pc[w] = "exited")
                => ~ running /\ early \cap Range(queue) = {}

\* Every step keeps what close relies on.
LEMMA CloseInvStep ==
    ASSUME TypeOK, TypeOK', CloseInv, [Next]_vars
    PROVE  CloseInv'
<1> USE DEF workerVars
<1>1. CASE UNCHANGED vars
  BY <1>1 DEF vars, CloseInv, NoFailure
<1>2. ASSUME NEW s \in Spans, CheckRunning(s) PROVE CloseInv'
  <2>1. \A r \in early : recvPc'[r] = "queued"
    BY <1>2 DEF CheckRunning, CloseInv, TypeOK
  <2> QED
    BY <1>2, <2>1 DEF CheckRunning, CloseInv, NoFailure
<1>3. ASSUME NEW s \in Spans, AddToQueue(s) PROVE CloseInv'
  <2>1. s \notin early
    BY <1>3 DEF AddToQueue, CloseInv
  <2>2. \A r \in early' : recvPc'[r] = "queued"
    BY <1>3 DEF AddToQueue, CloseInv, TypeOK
  <2>3. \/ queue' = queue
        \/ queue' \in Seq(Spans) /\ Range(queue') = Range(queue) \cup {s}
    <3>1. queue' = queue \/ queue' = Append(queue, s)
      BY <1>3 DEF AddToQueue
    <3>2. queue \in Seq(Spans)
      BY DEF TypeOK
    <3>3. Append(queue, s) \in Seq(Spans) /\ Range(Append(queue, s)) = Range(queue) \cup {s}
      BY <3>2, RangeAppend
    <3> QED
      BY <3>1, <3>3, Zenon
  <2>4. /\ UNCHANGED <<pc, client, dequeued, fails, running>>
        /\ early' = early \/ running
    BY <1>3 DEF AddToQueue
  <2> QED
    BY <2>1, <2>2, <2>3, <2>4 DEF CloseInv, NoFailure
<1>4. ASSUME UNCHANGED <<recvPc, early>>,
             fails' = 0 =>
                /\ fails = 0
                /\ \A w \in Workers : NoFailure(w)'
                /\ (\E w \in Workers : pc'[w] = "exited" /\ pc[w] # "exited")
                      => ~ running /\ queue = <<>>
                /\ running' => running
                /\ Range(queue') \subseteq Range(queue)
      PROVE  CloseInv'
  BY <1>4, RangeEmpty DEF CloseInv
<1>5. ASSUME NEW w \in Workers, LoopTest(w) PROVE CloseInv'
  BY <1>4, <1>5 DEF LoopTest, Goto, CloseInv, NoFailure, TypeOK
<1>6. ASSUME NEW w \in Workers, Poll(w) PROVE CloseInv'
  <2>1. Range(queue') \subseteq Range(queue)
    BY <1>6, RangeHeadTail DEF Poll, TypeOK
  <2> QED
    BY <1>4, <1>6, <2>1 DEF Poll, Goto, CloseInv, NoFailure, TypeOK
<1>7. ASSUME NEW w \in Workers, Drain(w) PROVE CloseInv'
  <2>1. Range(queue') \subseteq Range(queue)
    <3> DEFINE n == IF Len(queue) < BatchSize - 1 THEN Len(queue) ELSE BatchSize - 1
    <3>1. n \in 0 .. Len(queue) /\ queue' = SubSeq(queue, n + 1, Len(queue))
      BY <1>7, DrainLength DEF Drain
    <3> HIDE DEF n
    <3>2. Range(queue) = Range(SubSeq(queue, 1, n)) \cup Range(queue')
      BY <3>1, RangeSplit DEF TypeOK
    <3> QED
      BY <3>2
  <2>2. pc' = [pc EXCEPT ![w] = "connect"] /\ UNCHANGED <<client, fails, running, recvPc, early>>
    BY <1>7 DEF Drain, Goto
  <2>3. \A v \in Workers \ {w} : dequeued'[v] = dequeued[v]
    BY <1>7 DEF Drain, TypeOK
  <2> QED
    BY <1>4, <2>1, <2>2, <2>3 DEF CloseInv, NoFailure, TypeOK
<1>8. ASSUME NEW w \in Workers, PollTimesOut(w) \/ Connect(w) \/ Idle(w)
      PROVE  CloseInv'
  BY <1>4, <1>8 DEF PollTimesOut, Connect, Idle, Goto, CloseInv, NoFailure, TypeOK
<1>9. ASSUME NEW w \in Workers, ConnectFails(w) \/ IdleFails(w) PROVE CloseInv'
  <2>1. fails' # 0
    BY <1>9 DEF ConnectFails, IdleFails, TypeOK
  <2> QED
    BY <1>4, <1>9, <2>1 DEF ConnectFails, IdleFails
<1>10. ASSUME NEW w \in Workers, Send(w) PROVE CloseInv'
  BY <1>4, <1>10 DEF Send, Goto, CloseInv, NoFailure, TypeOK
<1>11. ASSUME NEW w \in Workers, SendFails(w) PROVE CloseInv'
  <2>1. fails' # 0
    BY <1>11 DEF SendFails, CloseInv, NoFailure, TypeOK
  <2> QED
    BY <1>4, <1>11, <2>1 DEF SendFails
<1>12. ASSUME NEW w \in Workers, AddAll(w) \/ CloseClient(w) PROVE CloseInv'
  <2>1. fails' # 0
    BY <1>12 DEF AddAll, CloseClient, CloseInv, NoFailure
  <2> QED
    BY <1>4, <1>12, <2>1 DEF AddAll, CloseClient
<1>13. ASSUME Close PROVE CloseInv'
  BY <1>13 DEF Close, StopRunning, Terminated, AwaitTimesOut, CloseInv, NoFailure
<1> QED
  BY <1>1, <1>2, <1>3, <1>5, <1>6, <1>7, <1>8, <1>9, <1>10, <1>11, <1>12, <1>13
     DEF Next, Receive, Worker

\* If no send has failed, the workers that close waits for leave nothing behind
\* of what was queued before close was called (run goes on "while running or
\* the queue is not empty").
THEOREM CloseLeavesNothing == Spec => []CloseDelivers
<1>1. Init => CloseInv
  BY DEF Init, CloseInv, NoFailure
<1>2. TypeOK /\ AllKept /\ CloseInv => CloseDelivers
  <2> SUFFICES ASSUME TypeOK, AllKept, CloseInv, fails = 0,
                      \A w \in Workers : Ended(w), NEW s \in early
               PROVE  s \in delivered
    BY DEF CloseDelivers
  <2>1. \A w \in Workers : pc[w] = "exited" /\ dequeued[w] = <<>>
    BY DEF CloseInv, NoFailure, Ended
  <2>2. early \cap Range(queue) = {}
    BY <2>1, QueueReceiverAssumption DEF CloseInv
  <2>3. Kept(s)
    BY DEF CloseInv, AllKept, TypeOK
  <2> QED
    BY <2>1, <2>2, <2>3, RangeEmpty DEF Kept
<1> QED
  BY <1>1, <1>2, CloseInvStep, AllKeptInvariant, TypeCorrect, PTL DEF Spec

=============================================================================
