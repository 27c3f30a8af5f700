------------------------------ MODULE MCClients -----------------------------
(***************************************************************************)
(* Programs around htraced that hand spans from thread to thread, in one   *)
(* run: the Java receivers and the dumpAll command.  A behaviour exercises *)
(* one of them (part), the others keep their initial states.               *)
(***************************************************************************)
EXTENDS Integers, Sequences, FiniteSets

CONSTANTS Spans, Closers, Period, MaxFlushes, MaxDeaths,
          deque, maxToSendAtATime,
          array, WriteV, NoOne, Newline,
          Kinds, QueueSpans, Workers, Capacity, BatchSize, MAX_ERRORS, MaxFails,
          MaxId, Ids, Lim, ChanSize, MaxWrites

ASSUME ClientsAssumption ==
    /\ \A n \in {Period, deque, maxToSendAtATime, array, WriteV, Capacity,
                 BatchSize, ChanSize} : n \in Nat \ {0}
    /\ \A n \in {MaxFlushes, MAX_ERRORS, MaxFails, MaxId, Lim, MaxWrites} : n \in Nat
    /\ MaxDeaths \in 0 .. 1
    /\ NoOne \notin Spans \cup Closers /\ Newline \notin Spans /\ Spans \cap Closers = {}
    /\ Kinds \subseteq {"zipkin", "hbase", "flume"}
    /\ Ids \subseteq 0 .. MaxId

VARIABLES part,
          spans, shutdown, mustStartFlush, recv, postPc, waitNs, signalled,
          spanBuf, posts, restClose, flushes,
          bufferedSpans, arrayNull, filePc, toFlush, channelLock, open,
          newlineLeft, spanFile, accepted, failed, taken, quiet, writeFails,
          kind, queue, running, recvPc, pc, dequeued, client, errorCount,
          addIdx, closePc, delivered, early, fails,
          stored, initial, searchId, batch, dumpPc, failing, dumpErr, out,
          closed, mainPc, writeErr, file, writes

R == INSTANCE RestReceiver WITH pc <- postPc, closePc <- restClose, capacity <- deque
F == INSTANCE LocalFileReceiver WITH pc <- filePc, closed <- arrayNull, file <- spanFile,
                                     batch <- taken, fails <- writeFails, capacity <- array
Q == INSTANCE QueueReceiver WITH Spans <- QueueSpans
D == INSTANCE DumpAll

restVars == <<spans, shutdown, mustStartFlush, recv, postPc, waitNs, signalled,
              spanBuf, posts, restClose, flushes>>
fileVars == <<bufferedSpans, arrayNull, filePc, toFlush, channelLock, open,
              newlineLeft, spanFile, accepted, failed, taken, quiet, writeFails>>
queueVars == <<kind, queue, running, recvPc, pc, dequeued, client, errorCount,
               addIdx, closePc, delivered, early, fails>>
dumpVars == <<stored, initial, searchId, batch, dumpPc, failing, dumpErr, out,
              closed, mainPc, writeErr, file, writes>>
vars == <<part, restVars, fileVars, queueVars, dumpVars>>

Init == /\ part \in {"rest", "file", "queue", "dump"}
        /\ R!Init /\ F!Init /\ Q!Init /\ D!Init
        /\ part # "queue" => kind = CHOOSE k \in Kinds : TRUE
        /\ part # "dump" => stored = {}

Next == /\ part' = part
        /\ \/ part = "rest" /\ R!Next /\ UNCHANGED <<fileVars, queueVars, dumpVars>>
           \/ part = "file" /\ F!Next /\ UNCHANGED <<restVars, queueVars, dumpVars>>
           \/ part = "queue" /\ Q!Next /\ UNCHANGED <<restVars, fileVars, dumpVars>>
           \/ part = "dump" /\ D!Next /\ UNCHANGED <<restVars, fileVars, queueVars>>

(* The fairness of RestReceiver, QueueReceiver and DumpAll, asked only of *)
(* the part that runs: the others do not move.                            *)
Spec == /\ Init /\ [][Next]_vars
        /\ WF_restVars(part = "rest" /\ R!PostSpans) /\ SF_restVars(part = "rest" /\ R!Tick)
        /\ \A w \in Workers : WF_queueVars(part = "queue" /\ Q!Worker(w))
        /\ \A s \in QueueSpans : WF_queueVars(part = "queue" /\ Q!AddToQueue(s))
        /\ WF_queueVars(part = "queue" /\ Q!Terminated)
        /\ WF_dumpVars(part = "dump" /\ D!Goroutine) /\ WF_dumpVars(part = "dump" /\ D!Main)

(* RestReceiver, LocalFileReceiver: a span that was accepted is in one place *)
(* - the deque or array, a batch, the server or file - and only once.        *)
ExactlyOnePlace == R!ExactlyOnePlace /\ F!ExactlyOnePlace

(* RestReceiver, LocalFileReceiver: when close has returned, everything that *)
(* was accepted before it has been posted, once, or written - unless the     *)
(* posting thread died of a runtime exception or close gave up waiting for   *)
(* it, or a write failed or other threads were not done.                     *)
CloseCompletes == R!CloseSendsAll /\ F!QuietCloseWritesAll

(* LocalFileReceiver, DumpAll: the lines of two flushes do not mix in the   *)
(* file of spans, and a dump lists every span once and in order.            *)
FilesExact == F!NotInterleaved /\ D!DumpExact

(* RestReceiver, QueueReceiver: a span that was accepted is delivered in the *)
(* end, whatever signals get lost and whatever sends fail before.            *)
AcceptedIsDelivered == R!AddedIsPosted /\ Q!QueuedIsDelivered

(* RestReceiver, QueueReceiver, DumpAll: after close the threads end, and    *)
(* the dump ends.                                                            *)
EverythingEnds == /\ R!ThreadEnds /\ Q!WorkersEnd
                  /\ part = "dump" ~> D!Done
=============================================================================
