---------------------------- MODULE RestReceiver ----------------------------
(***************************************************************************)
(* HTracedRESTReceiver, the receiver of the Java client that posts spans   *)
(* to htraced's REST server.                                               *)
(*                                                                         *)
(* Application threads put spans into a bounded deque; the PostSpans       *)
(* thread waits on a condition variable for at most a period, moves a      *)
(* batch of spans to its own buffer and posts it without the lock.  Every  *)
(* section under the lock is one step; a signal is lost when the thread    *)
(* does not wait.                                                          *)
(***************************************************************************)
EXTENDS Integers, Sequences, FiniteSets, Functions

CONSTANTS
    Spans,              \* spans, each received in a thread of its own
    capacity,           \* of the deque
    maxToSendAtATime,   \* spans of a batch
    Period,             \* periodInNs, in steps of the clock
    MaxFlushes,         \* bound: calls of startFlushing
    MaxDeaths           \* bound: runtime exceptions in PostSpans (0 or 1)

VARIABLES
    spans,           \* Seq(Spans): the deque
    shutdown,        \* the flag
    mustStartFlush,  \* the flag
    recv,            \* [Spans -> ...]: what receiveSpan did
    pc,              \* where PostSpans.run stands
    waitNs,          \* its time left to wait
    signalled,       \* the waiting thread has been signalled
    spanBuf,         \* Seq(Spans)
    posts,           \* [Spans -> Nat]: how often a span was posted
    closePc,         \* where close stands
    flushes          \* bound counter

threadVars == <<pc, waitNs, signalled, spanBuf, posts>>
vars == <<spans, shutdown, mustStartFlush, recv, pc, waitNs, signalled,
          spanBuf, posts, closePc, flushes>>

Init ==
    /\ spans = <<>> /\ shutdown = FALSE /\ mustStartFlush = FALSE
    /\ recv = [s \in Spans |-> "start"]
    /\ pc = "top" /\ waitNs = Period /\ signalled = FALSE /\ spanBuf = <<>>
    /\ posts = [s \in Spans |-> 0]
    /\ closePc = "start" /\ flushes = 0

\* cond.signal()
Signal == signalled' = (signalled \/ pc = "wait")

-----------------------------------------------------------------------------
\* Application threads.
\* After shutdown spans are ignored; a full deque drops the span and signals.
receiveSpan(s) ==
    /\ recv[s] = "start"
    /\ \/ /\ shutdown
          /\ recv' = [recv EXCEPT ![s] = "ignored"]
          /\ UNCHANGED <<spans, signalled>>
       \/ /\ ~ shutdown /\ Len(spans) < capacity
          /\ spans' = Append(spans, s)
          /\ recv' = [recv EXCEPT ![s] = "added"]
          /\ IF Len(spans') >= maxToSendAtATime THEN Signal ELSE UNCHANGED signalled
       \/ /\ ~ shutdown /\ Len(spans) >= capacity
          /\ recv' = [recv EXCEPT ![s] = "dropped"]
          /\ Signal
          /\ UNCHANGED spans
    /\ UNCHANGED <<shutdown, mustStartFlush, pc, waitNs, spanBuf, posts,
                   closePc, flushes>>

startFlushing ==
    /\ flushes < MaxFlushes
    /\ flushes' = flushes + 1
    /\ mustStartFlush' = TRUE
    /\ Signal
    /\ UNCHANGED <<spans, shutdown, recv, pc, waitNs, spanBuf, posts, closePc>>

\* close sets the flag and signals, then joins the thread for a limited time.
BeginClose ==
    /\ closePc = "start"
    /\ shutdown' = TRUE
    /\ Signal
    /\ closePc' = "join"
    /\ UNCHANGED <<spans, mustStartFlush, recv, pc, waitNs, spanBuf, posts, flushes>>

EndClose_NoJoin ==
    /\ closePc = "join"
    /\ closePc' = "closed"
    /\ UNCHANGED <<spans, shutdown, mustStartFlush, recv, threadVars, flushes>>

\* join returns when the thread has ended, regularly or of an exception, or when
\* its time is up.
EndClose ==
    /\ closePc = "join"
    /\ closePc' \in {"timedOut"} \cup (IF pc \in {"ended", "dead"} THEN {"closed"} ELSE {})
    /\ UNCHANGED <<spans, shutdown, mustStartFlush, recv, threadVars, flushes>>

-----------------------------------------------------------------------------
\* PostSpans.run.

\* loadSpanBuf moves a batch to the thread's buffer.
BatchLen == IF Len(spans) < maxToSendAtATime THEN Len(spans) ELSE maxToSendAtATime
loadSpanBuf ==
    /\ spanBuf' = spanBuf \o SubSeq(spans, 1, BatchLen)
    /\ spans' = SubSeq(spans, BatchLen + 1, Len(spans))

\* After the lock is released: post what there is, or go round.
AfterUnlock == pc' = IF spanBuf' = <<>> THEN "top" ELSE "send"

Top_AlwaysWaits ==
    /\ pc = "top"
    /\ pc' = "wait" /\ signalled' = FALSE
    /\ UNCHANGED <<spans, spanBuf, waitNs>>
    /\ UNCHANGED <<shutdown, mustStartFlush, recv, posts, closePc, flushes>>

\* The top of the loop: after shutdown, send batches until the deque is empty,
\* then leave the loop; before, wait.
Top ==
    /\ pc = "top"
    /\ \/ /\ shutdown /\ spans = <<>>
          /\ pc' = "ending"
          /\ UNCHANGED <<spans, spanBuf, waitNs, signalled>>
       \/ /\ shutdown /\ spans # <<>>
          /\ loadSpanBuf /\ waitNs' = Period /\ AfterUnlock
          /\ UNCHANGED signalled
       \/ /\ ~ shutdown
          /\ pc' = "wait" /\ signalled' = FALSE
          /\ UNCHANGED <<spans, spanBuf, waitNs>>
    /\ UNCHANGED <<shutdown, mustStartFlush, recv, posts, closePc, flushes>>

Tick ==
    /\ pc = "wait" /\ waitNs > 0
    /\ waitNs' = waitNs - 1
    /\ UNCHANGED <<spans, shutdown, mustStartFlush, recv, pc, signalled,
                   spanBuf, posts, closePc, flushes>>

Awake_OnlyFullBatches ==
    /\ IF Len(spans) > maxToSendAtATime \/ mustStartFlush \/ shutdown
         THEN loadSpanBuf /\ waitNs' = Period
         ELSE UNCHANGED <<spans, spanBuf, waitNs>>
    /\ mustStartFlush' = FALSE
    /\ signalled' = FALSE
    /\ AfterUnlock
    /\ UNCHANGED <<shutdown, recv, posts, closePc, flushes>>

\* awaitNanos has returned with the time left: load a batch if there are more
\* spans than it holds, the time is up, or a flush or shutdown is due.
Awake ==
    /\ LET left == IF mustStartFlush THEN 0 ELSE waitNs IN
       IF Len(spans) > maxToSendAtATime \/ left <= 0 \/ shutdown
         THEN loadSpanBuf /\ waitNs' = Period
         ELSE UNCHANGED <<spans, spanBuf>> /\ waitNs' = left
    /\ mustStartFlush' = FALSE
    /\ signalled' = FALSE
    /\ AfterUnlock
    /\ UNCHANGED <<shutdown, recv, posts, closePc, flushes>>

Wake == pc = "wait" /\ (signalled \/ waitNs = 0) /\ Awake

\* A condition variable may wake up without a reason.
WakeSpuriously == pc = "wait" /\ ~ signalled /\ waitNs > 0 /\ Awake

sendSpans_KeepsBuffer ==
    /\ pc = "send"
    /\ posts' = [s \in Spans |->
                    IF s \in Range(spanBuf) THEN posts[s] + 1 ELSE posts[s]]
    /\ pc' = "top"
    /\ UNCHANGED <<spans, shutdown, mustStartFlush, recv, waitNs, signalled,
                   spanBuf, closePc, flushes>>

\* sendSpans posts the buffer, once: errors and bad answers are only logged.
sendSpans ==
    /\ pc = "send"
    /\ posts' = [s \in Spans |->
                    IF s \in Range(spanBuf) THEN posts[s] + 1 ELSE posts[s]]
    /\ spanBuf' = <<>>
    /\ pc' = "top"
    /\ UNCHANGED <<spans, shutdown, mustStartFlush, recv, waitNs, signalled,
                   closePc, flushes>>

\* A runtime exception, of toJson for one, leaves the loop.
SendThrows ==
    /\ pc = "send" /\ MaxDeaths > 0
    /\ pc' = "dying"
    /\ UNCHANGED <<spans, shutdown, mustStartFlush, recv, waitNs, signalled,
                   spanBuf, posts, closePc, flushes>>

\* The finally clause clears the deque, without the lock.
Finally ==
    /\ pc \in {"ending", "dying"}
    /\ spans' = <<>>
    /\ pc' = IF pc = "ending" THEN "ended" ELSE "dead"
    /\ UNCHANGED <<shutdown, mustStartFlush, recv, waitNs, signalled, spanBuf,
                   posts, closePc, flushes>>

-----------------------------------------------------------------------------

PostSpans == Top \/ Wake \/ sendSpans \/ Finally

Next ==
    \/ \E s \in Spans : receiveSpan(s)
    \/ startFlushing \/ BeginClose \/ EndClose
    \/ PostSpans \/ Tick \/ WakeSpuriously \/ SendThrows

Spec == Init /\ [][Next]_vars

\* The thread runs and time passes; a post ends, by an answer or by one of the
\* client's timeouts.  Nothing relies on spurious wake-ups, and they do not stop
\* the clock.
Fairness == WF_vars(PostSpans) /\ SF_vars(Tick)
FairSpec == Spec /\ Fairness

-----------------------------------------------------------------------------
\* Correctness.

\* Types, and the bounds of the deque and of a batch.
TypeOK ==
    /\ spans \in Seq(Spans) /\ Len(spans) <= capacity
    /\ spanBuf \in Seq(Spans) /\ Len(spanBuf) <= maxToSendAtATime
    /\ shutdown \in BOOLEAN /\ mustStartFlush \in BOOLEAN /\ signalled \in BOOLEAN
    /\ recv \in [Spans -> {"start", "added", "dropped", "ignored"}]
    /\ pc \in {"top", "wait", "send", "ending", "dying", "ended", "dead"}
    /\ waitNs \in 0 .. Period
    /\ posts \in [Spans -> Nat]
    /\ closePc \in {"start", "join", "closed", "timedOut"}
    /\ flushes \in Nat

Places(s) ==
    Cardinality({i \in 1 .. Len(spans) : spans[i] = s})
    + Cardinality({i \in 1 .. Len(spanBuf) : spanBuf[i] = s}) + posts[s]

\* As long as the thread lives, an added span is in exactly one place: in the
\* deque, in the buffer, or posted, once; close finds none left behind.
ExactlyOnePlace ==
    pc \notin {"dying", "dead"} =>
        \A s \in Spans : Places(s) = IF recv[s] = "added" THEN 1 ELSE 0

\* "the REST receiver blocks during shutdown until all spans are sent (or a
\* long timeout elapses)" (TestHTracedRESTReceiver): when the join of close has
\* seen the end of the thread, every span was posted at most once, and every added
\* one was, unless a runtime exception ended the thread: it leaves its batch and
\* clears the deque, and close returns as after a regular end.
CloseSendsAll ==
    closePc = "closed" =>
        \A s \in Spans : /\ posts[s] <= 1
                         /\ recv[s] = "added" /\ pc # "dead" => posts[s] = 1

\* An added span is posted in the end, by the period at the latest.
AddedIsPosted ==
    \A s \in Spans : recv[s] = "added" ~> posts[s] = 1 \/ pc = "dead"

\* After close the thread ends, although its wait may last for long and the
\* signal may come while it does not wait.
ThreadEnds == shutdown ~> pc \in {"ended", "dead"}

=============================================================================
