--------------------------- MODULE QueueReceiver ----------------------------
(***************************************************************************)
(* The span receivers of the Java client that send from a bounded queue:   *)
(* ZipkinSpanReceiver, HBaseSpanReceiver and FlumeSpanReceiver, which      *)
(* share one design.  receiveSpan appends to an ArrayBlockingQueue; worker *)
(* threads take a batch each, send it, and after an error put the batch    *)
(* back into the queue; close lets the workers empty the queue.            *)
(*                                                                         *)
(* The receivers differ in how they connect and in what a failed send      *)
(* leaves behind: variable kind says which one is meant.                   *)
(***************************************************************************)
EXTENDS Integers, Sequences, FiniteSets, Functions, TLC

CONSTANTS
    Kinds,        \* the receivers at hand, of "zipkin", "hbase", "flume"
    Spans,        \* spans, each received in a thread of its own
    Workers,      \* WriteSpanRunnables
    Capacity,     \* of the queue, 1000 in the code
    BatchSize,    \* MAX_SPAN_BATCH_SIZE or maxSpanBatchSize
    MAX_ERRORS,   \* errors in a row
    MaxFails      \* bound: failures of the collector

ASSUME QueueReceiverAssumption ==
    /\ Kinds \subseteq {"zipkin", "hbase", "flume"}
    /\ Workers # {}      \* newFixedThreadPool refuses a pool without threads
    /\ Capacity \in Nat \ {0} /\ BatchSize \in Nat \ {0}
    /\ MAX_ERRORS \in Nat /\ MaxFails \in Nat

VARIABLES
    kind,         \* the receiver
    queue,        \* Seq(Spans)
    running,      \* the flag
    recvPc,       \* [Spans -> ...]: where receiveSpan stands
    pc,           \* [Workers -> ...]: where run stands
    dequeued,     \* [Workers -> Seq(Spans)]: dequeuedSpans
    client,       \* [Workers -> BOOLEAN]: there is a connection
    errorCount,   \* [Workers -> Nat]
    addIdx,       \* [Workers -> Nat]: how far addAll has come
    closePc,      \* where close stands
    delivered,    \* what the collector has received: a set of spans
    early,        \* history: the spans queued before close was called
    fails         \* bound counter

workerVars == <<pc, dequeued, client, errorCount, addIdx>>
vars == <<kind, queue, running, recvPc, pc, dequeued, client, errorCount,
          addIdx, closePc, delivered, early, fails>>

Init ==
    /\ kind \in Kinds
    /\ queue = <<>> /\ running = TRUE
    /\ recvPc = [s \in Spans |-> "start"]
    /\ pc = [w \in Workers |-> "loop"]
    /\ dequeued = [w \in Workers |-> <<>>]
    /\ client = [w \in Workers |-> FALSE]
    /\ errorCount = [w \in Workers |-> 0]
    /\ addIdx = [w \in Workers |-> 1]
    /\ closePc = "start"
    /\ delivered = {} /\ early = {} /\ fails = 0

-----------------------------------------------------------------------------
\* receiveSpan.

CheckRunning(s) ==
    /\ recvPc[s] = "start"
    /\ recvPc' = [recvPc EXCEPT ![s] = IF running THEN "add" ELSE "ignored"]
    /\ UNCHANGED <<kind, queue, running, workerVars, closePc, delivered, early,
                   fails>>

\* A full queue refuses the span, which is logged and lost.
AddToQueue(s) ==
    /\ recvPc[s] = "add"
    /\ IF Len(queue) < Capacity
         THEN /\ queue' = Append(queue, s)
              /\ recvPc' = [recvPc EXCEPT ![s] = "queued"]
              /\ early' = IF running THEN early \cup {s} ELSE early
         ELSE /\ recvPc' = [recvPc EXCEPT ![s] = "refused"]
              /\ UNCHANGED <<queue, early>>
    /\ UNCHANGED <<kind, running, workerVars, closePc, delivered, fails>>

-----------------------------------------------------------------------------
\* WriteSpanRunnable.run.

Goto(w, label) == pc' = [pc EXCEPT ![w] = label]

LoopTest_RunningOnly(w) ==
    /\ pc[w] = "loop"
    /\ IF running
         THEN Goto(w, "poll") /\ UNCHANGED client
         ELSE Goto(w, "exited") /\ client' = [client EXCEPT ![w] = FALSE]
    /\ UNCHANGED <<kind, queue, running, recvPc, dequeued, errorCount, addIdx,
                   closePc, delivered, early, fails>>

\* Go on while the receiver runs or the queue is not empty; else close the
\* client and end.
LoopTest(w) ==
    /\ pc[w] = "loop"
    /\ IF running \/ queue # <<>>
         THEN Goto(w, "poll") /\ UNCHANGED client
         ELSE Goto(w, "exited") /\ client' = [client EXCEPT ![w] = FALSE]
    /\ UNCHANGED <<kind, queue, running, recvPc, dequeued, errorCount, addIdx,
                   closePc, delivered, early, fails>>

\* Take the first span ...
Poll(w) ==
    /\ pc[w] = "poll" /\ queue # <<>>
    /\ dequeued' = [dequeued EXCEPT ![w] = Append(@, Head(queue))]
    /\ queue' = Tail(queue)
    /\ Goto(w, "drain")
    /\ UNCHANGED <<kind, running, recvPc, client, errorCount, addIdx, closePc,
                   delivered, early, fails>>

\* ... and up to BatchSize - 1 more, behind what an earlier error left.
Drain(w) ==
    /\ pc[w] = "drain"
    /\ LET n == IF Len(queue) < BatchSize - 1 THEN Len(queue) ELSE BatchSize - 1 IN
       /\ dequeued' = [dequeued EXCEPT ![w] = @ \o SubSeq(queue, 1, n)]
       /\ queue' = SubSeq(queue, n + 1, Len(queue))
    /\ Goto(w, "connect")
    /\ UNCHANGED <<kind, running, recvPc, client, errorCount, addIdx, closePc,
                   delivered, early, fails>>

\* Nothing came for a second.  Zipkin's worker goes round without connecting.
PollTimesOut(w) ==
    /\ pc[w] = "poll" /\ queue = <<>>
    /\ Goto(w, IF kind = "zipkin" /\ dequeued[w] = <<>> THEN "loop" ELSE "connect")
    /\ UNCHANGED <<kind, queue, running, recvPc, dequeued, client, errorCount,
                   addIdx, closePc, delivered, early, fails>>

\* startClient, if there is no client.  Zipkin's newScribe swallows the
\* exception of open and returns a client that fails when it is used.
Connect(w) ==
    /\ pc[w] = "connect"
    /\ client' = [client EXCEPT ![w] = TRUE]
    /\ Goto(w, IF dequeued[w] = <<>> THEN "idle" ELSE "send")
    /\ UNCHANGED <<kind, queue, running, recvPc, dequeued, errorCount, addIdx,
                   closePc, delivered, early, fails>>

\* HBase's and Flume's startClient log the exception and leave no client.
\* Flume's closes a client that is no longer active before.
ConnectFails(w) ==
    /\ pc[w] = "connect" /\ fails < MaxFails
    /\ kind = "flume" \/ (kind = "hbase" /\ ~ client[w])
    /\ fails' = fails + 1
    /\ client' = [client EXCEPT ![w] = FALSE]
    /\ Goto(w, IF dequeued[w] = <<>> THEN "idle" ELSE "send")
    /\ UNCHANGED <<kind, queue, running, recvPc, dequeued, errorCount, addIdx,
                   closePc, delivered, early>>

\* There is nothing to send.  HBase's worker calls htable.flushCommits(); when
\* it is not connected, htable is null and the exception ends the worker.
Idle(w) ==
    /\ pc[w] = "idle"
    /\ Goto(w, IF kind = "hbase" /\ ~ client[w] THEN "dead" ELSE "loop")
    /\ UNCHANGED <<kind, queue, running, recvPc, dequeued, client, errorCount,
                   addIdx, closePc, delivered, early, fails>>

\* The exception of a failed flushCommits is logged and the client is closed.
IdleFails(w) ==
    /\ pc[w] = "idle" /\ kind = "hbase" /\ client[w] /\ fails < MaxFails
    /\ fails' = fails + 1
    /\ Goto(w, "closeClient")
    /\ UNCHANGED <<kind, queue, running, recvPc, dequeued, client, errorCount,
                   addIdx, closePc, delivered, early>>

Send_FirstOnly(w) ==
    /\ pc[w] = "send" /\ client[w]
    /\ delivered' = delivered \cup {dequeued[w][1]}
    /\ dequeued' = [dequeued EXCEPT ![w] = <<>>]
    /\ errorCount' = [errorCount EXCEPT ![w] = 0]
    /\ Goto(w, "loop")
    /\ UNCHANGED <<kind, queue, running, recvPc, client, addIdx, closePc,
                   early, fails>>

\* The batch is sent: the list and the error counter are reset.
Send(w) ==
    /\ pc[w] = "send" /\ client[w]
    /\ delivered' = delivered \cup Range(dequeued[w])
    /\ dequeued' = [dequeued EXCEPT ![w] = <<>>]
    /\ errorCount' = [errorCount EXCEPT ![w] = 0]
    /\ Goto(w, "loop")
    /\ UNCHANGED <<kind, queue, running, recvPc, client, addIdx, closePc,
                   early, fails>>

\* What the collector has got when a send fails: a prefix of the puts to
\* HBase; all or nothing of a request, whose answer may be what was lost.
PartlySent(w) ==
    IF ~ client[w] THEN {{}}
    ELSE IF kind = "hbase"
           THEN {Range(SubSeq(dequeued[w], 1, n)) : n \in 0 .. Len(dequeued[w])}
           ELSE {{}, Range(dequeued[w])}

SendFails_Clears(w) ==
    /\ pc[w] = "send"
    /\ ~ client[w] \/ fails < MaxFails
    /\ fails' = IF client[w] THEN fails + 1 ELSE fails
    /\ \E sent \in PartlySent(w) : delivered' = delivered \cup sent
    /\ errorCount' = [errorCount EXCEPT ![w] = @ + 1]
    /\ addIdx' = [addIdx EXCEPT ![w] = 1]
    /\ dequeued' = [dequeued EXCEPT ![w] = <<>>]
    /\ Goto(w, IF errorCount[w] + 1 < MAX_ERRORS THEN "addAll" ELSE "closeClient")
    /\ UNCHANGED <<kind, queue, running, recvPc, client, closePc, early>>

\* An exception: it is counted, and unless there have been too many in a row
\* the batch goes back into the queue.  The list itself is not cleared.
SendFails(w) ==
    /\ pc[w] = "send"
    /\ ~ client[w] \/ fails < MaxFails
    /\ fails' = IF client[w] THEN fails + 1 ELSE fails
    /\ \E sent \in PartlySent(w) : delivered' = delivered \cup sent
    /\ errorCount' = [errorCount EXCEPT ![w] = @ + 1]
    /\ addIdx' = [addIdx EXCEPT ![w] = 1]
    /\ Goto(w, IF errorCount[w] + 1 < MAX_ERRORS THEN "addAll" ELSE "closeClient")
    /\ UNCHANGED <<kind, queue, running, recvPc, dequeued, client, closePc, early>>

AddAll_Waits(w) ==
    /\ pc[w] = "addAll" /\ Len(queue) < Capacity
    /\ IF addIdx[w] <= Len(dequeued[w])
         THEN /\ queue' = Append(queue, dequeued[w][addIdx[w]])
              /\ addIdx' = [addIdx EXCEPT ![w] = @ + 1]
              /\ UNCHANGED pc
         ELSE Goto(w, "closeClient") /\ UNCHANGED <<queue, addIdx>>
    /\ UNCHANGED <<kind, running, recvPc, dequeued, client, errorCount, closePc,
                   delivered, early, fails>>

\* queue.addAll adds one span after the other, until the queue is full.
AddAll(w) ==
    /\ pc[w] = "addAll"
    /\ IF addIdx[w] <= Len(dequeued[w]) /\ Len(queue) < Capacity
         THEN /\ queue' = Append(queue, dequeued[w][addIdx[w]])
              /\ addIdx' = [addIdx EXCEPT ![w] = @ + 1]
              /\ UNCHANGED pc
         ELSE Goto(w, "closeClient") /\ UNCHANGED <<queue, addIdx>>
    /\ UNCHANGED <<kind, running, recvPc, dequeued, client, errorCount, closePc,
                   delivered, early, fails>>

\* After an error the client is closed (an HBase table whose close fails stays
\* in place), and after a failed send the worker sleeps for a moment.
CloseClient(w) ==
    /\ pc[w] = "closeClient"
    /\ \/ client' = [client EXCEPT ![w] = FALSE]
       \/ kind = "hbase" /\ UNCHANGED client
    /\ Goto(w, "loop")
    /\ UNCHANGED <<kind, queue, running, recvPc, dequeued, errorCount, addIdx,
                   closePc, delivered, early, fails>>

-----------------------------------------------------------------------------
\* close.

StopRunning ==
    /\ closePc = "start"
    /\ running' = FALSE
    /\ closePc' = "await"
    /\ UNCHANGED <<kind, queue, recvPc, workerVars, delivered, early, fails>>

Ended(w) == pc[w] \in {"exited", "dead"}

Terminated ==
    /\ closePc = "await" /\ \A w \in Workers : Ended(w)
    /\ closePc' = "terminated"
    /\ UNCHANGED <<kind, queue, running, recvPc, workerVars, delivered, early, fails>>

AwaitTimesOut ==
    /\ closePc = "await"
    /\ closePc' = "timedOut"
    /\ UNCHANGED <<kind, queue, running, recvPc, workerVars, delivered, early, fails>>

-----------------------------------------------------------------------------

Receive(s) == CheckRunning(s) \/ AddToQueue(s)
Worker(w) == \/ LoopTest(w) \/ Poll(w) \/ Drain(w) \/ PollTimesOut(w)
             \/ Connect(w) \/ ConnectFails(w) \/ Idle(w) \/ IdleFails(w)
             \/ Send(w) \/ SendFails(w) \/ AddAll(w) \/ CloseClient(w)
Close == StopRunning \/ Terminated \/ AwaitTimesOut

Next == \/ \E s \in Spans : Receive(s)
        \/ \E w \in Workers : Worker(w)
        \/ Close

Spec == Init /\ [][Next]_vars

\* Worker threads run, and a call of receiveSpan or close ends.  The collector
\* fails at most MaxFails times, so that it works in the end.
Fairness == /\ \A w \in Workers : WF_vars(Worker(w))
            /\ \A s \in Spans : WF_vars(AddToQueue(s))
            /\ WF_vars(Terminated)
FairSpec == Spec /\ Fairness

-----------------------------------------------------------------------------
\* Correctness.

WorkerPcs == {"loop", "poll", "drain", "connect", "idle", "send", "addAll",
              "closeClient", "exited", "dead"}

\* Types; the queue never outgrows its capacity.
TypeOK ==
    /\ kind \in Kinds /\ running \in BOOLEAN
    /\ queue \in Seq(Spans) /\ Len(queue) <= Capacity
    /\ recvPc \in [Spans -> {"start", "add", "queued", "refused", "ignored"}]
    /\ pc \in [Workers -> WorkerPcs]
    /\ dequeued \in [Workers -> Seq(Spans)]
    /\ client \in [Workers -> BOOLEAN]
    /\ errorCount \in [Workers -> Nat] /\ addIdx \in [Workers -> Nat \ {0}]
    /\ closePc \in {"start", "await", "terminated", "timedOut"}
    /\ delivered \subseteq Spans /\ early \subseteq Spans /\ fails \in Nat

Queued == {s \in Spans : recvPc[s] = "queued"}
Held == UNION {Range(dequeued[w]) : w \in {v \in Workers : ~ Ended(v)}}

\* While the receiver runs, a span that receiveSpan has queued is delivered, in
\* the queue or in the hands of a live worker, whatever fails: not even a full
\* queue that refuses half of a failed batch loses a span.
NothingLost ==
    (running /\ \A w \in Workers : ~ Ended(w))
        => Queued \subseteq delivered \cup Range(queue) \cup Held

\* If no send has failed, the workers that close waits for leave nothing
\* behind of what was queued before close was called.
CloseDelivers ==
    (fails = 0 /\ \A w \in Workers : Ended(w)) => early \subseteq delivered

\* A span that is queued is delivered in the end, unless the receiver is
\* closed (or, with HBase, its workers die).
QueuedIsDelivered ==
    \A s \in Spans : recvPc[s] = "queued"
        ~> s \in delivered \/ ~ running \/ \E w \in Workers : pc[w] = "dead"

\* After close every worker ends: the retries do not go on for ever.
WorkersEnd == ~ running ~> \A w \in Workers : Ended(w)

\* Spans and workers are interchangeable.
Symmetry == Permutations(Spans) \cup Permutations(Workers)

=============================================================================
