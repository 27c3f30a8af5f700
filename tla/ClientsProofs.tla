---------------------------- MODULE ClientsProofs ---------------------------
(***************************************************************************)
(* Machine-checked proofs about the receivers of the Java client that      *)
(* MCClients puts together, and about the dumpAll command: the REST        *)
(* receiver (R), the local file receiver (F) and DumpAll (D), for any      *)
(* number of threads and any sizes of the deque, the array, the batches    *)
(* and the pages.                                                          *)
(***************************************************************************)
EXTENDS MCClients, SequenceLemmas

-----------------------------------------------------------------------------
\* The REST receiver.

\* The buffer of the thread is used while it posts only; when the thread has left
\* the loop nothing is queued any more, and close has seen it end or die.
RestInv ==
    /\ R!TypeOK
    /\ postPc \in {"top", "wait", "ending", "ended"} => spanBuf = <<>>
    /\ postPc \in {"ending", "ended"} => shutdown /\ spans = <<>>
    /\ restClose = "closed" => postPc \in {"ended", "dead"}
    /\ \A s \in Spans : posts[s] <= 1

\* Deque and buffer hold no span twice and none in common.
RestPlaces ==
    postPc \notin {"dying", "dead"} =>
        /\ NoRepeats(spans) /\ NoRepeats(spanBuf)
        /\ Range(spans) \cap Range(spanBuf) = {}
        /\ \A s \in Spans :
              posts[s] = IF recv[s] = "added" /\ s \notin Range(spans) \cup Range(spanBuf)
                         THEN 1 ELSE 0
        /\ \A s \in Range(spans) \cup Range(spanBuf) : recv[s] = "added"

\* Loading a batch moves a prefix of the deque.
LEMMA LoadFacts ==
    ASSUME R!TypeOK, spanBuf = <<>>, R!loadSpanBuf
    PROVE  \E n \in 0 .. Len(spans) :
              /\ n <= maxToSendAtATime /\ (spans # <<>> => n > 0)
              /\ spanBuf' = SubSeq(spans, 1, n)
              /\ spans' = SubSeq(spans, n + 1, Len(spans))
<1>1. /\ spans \in Seq(Spans) /\ Len(spans) \in Nat /\ maxToSendAtATime \in Nat \ {0}
  BY ClientsAssumption DEF R!TypeOK
<1>2. PICK n \in 0 .. Len(spans) : n = R!BatchLen /\ n <= maxToSendAtATime
  BY <1>1 DEF R!BatchLen
<1>3. spans # <<>> => n > 0
  BY <1>1, <1>2 DEF R!BatchLen
<1>4. SubSeq(spans, 1, n) \in Seq(Spans)
  BY <1>1, RangeSplit
<1>5. \A q \in Seq(Spans) : <<>> \o q = q
  BY ConcatEmptySeq
<1>6. spanBuf' = SubSeq(spans, 1, n)
  BY <1>2, <1>4, <1>5 DEF R!loadSpanBuf
<1> QED
  BY <1>2, <1>3, <1>6 DEF R!loadSpanBuf

\* What a loaded batch and the rest of the deque hold.
LEMMA LoadKeeps ==
    ASSUME RestInv, RestPlaces, postPc \in {"top", "wait"}, R!loadSpanBuf,
           UNCHANGED <<recv, posts>>
    PROVE  /\ spans' \in Seq(Spans) /\ Len(spans') <= deque
           /\ spanBuf' \in Seq(Spans) /\ Len(spanBuf') <= maxToSendAtATime
           /\ RestPlaces'
<1>1. /\ R!TypeOK /\ spanBuf = <<>> /\ NoRepeats(spans)
      /\ \A s \in Spans : posts[s] = IF recv[s] = "added" /\ s \notin Range(spans)
                                     THEN 1 ELSE 0
      /\ \A s \in Range(spans) : recv[s] = "added"
  BY RangeEmpty DEF RestInv, RestPlaces
<1>2. PICK n \in 0 .. Len(spans) : /\ n <= maxToSendAtATime
                                   /\ spanBuf' = SubSeq(spans, 1, n)
                                   /\ spans' = SubSeq(spans, n + 1, Len(spans))
  BY <1>1, LoadFacts
<1>3. PICK q \in Seq(Spans) : q = spans /\ Len(q) <= deque /\ NoRepeats(q)
  BY <1>1 DEF R!TypeOK
<1>a. n \in 0 .. Len(q)
  BY <1>2, <1>3
<1>b. /\ SubSeq(q, 1, n) \in Seq(Spans) /\ Len(SubSeq(q, 1, n)) = n
      /\ SubSeq(q, n + 1, Len(q)) \in Seq(Spans)
      /\ Len(SubSeq(q, n + 1, Len(q))) = Len(q) - n
  BY <1>a, RangeSplit
<1>4. PICK u \in Seq(Spans) : u = SubSeq(q, 1, n) /\ Len(u) = n
  BY <1>b, Zenon
<1>5. PICK v \in Seq(Spans) : v = SubSeq(q, n + 1, Len(q)) /\ Len(v) = Len(q) - n
  BY <1>b, Zenon
<1>6. Range(q) = Range(u) \cup Range(v)
  BY <1>2, <1>3, <1>4, <1>5, RangeSplit
<1>7. NoRepeats(u) /\ NoRepeats(v) /\ Range(u) \cap Range(v) = {}
  <2>1. n \in 0 .. Len(q)
    BY <1>2, <1>3
  <2> QED
    BY <1>3, <1>4, <1>5, <2>1, DistinctSplit
<1>8. spanBuf' = u /\ spans' = v
  BY <1>2, <1>3, <1>4, <1>5, Zenon
<1>9. Len(v) <= deque
  <2>1. Len(v) = Len(q) - n /\ n \in 0 .. Len(q) /\ deque \in Nat /\ Len(q) \in Nat
    BY <1>2, <1>3, <1>5, ClientsAssumption
  <2> QED
    BY <1>3, <2>1
<1>10. \A s \in Spans : posts'[s] = IF recv'[s] = "added" /\ s \notin Range(v) \cup Range(u)
                                    THEN 1 ELSE 0
  BY <1>1, <1>3, <1>6
<1>11. \A s \in Range(v) \cup Range(u) : recv'[s] = "added"
  BY <1>1, <1>3, <1>6
<1>12. RestPlaces'
  BY <1>7, <1>8, <1>10, <1>11, Zenon DEF RestPlaces
<1> QED
  BY <1>2, <1>4, <1>8, <1>9, <1>12, Zenon

\* The invariants of the REST receiver hold in its initial states.
LEMMA RestInit == R!Init => RestInv /\ RestPlaces
<1> SUFFICES ASSUME R!Init PROVE RestInv /\ RestPlaces
  OBVIOUS
<1>1. R!TypeOK
  <2>1. \A n \in {Period, deque, maxToSendAtATime} : n \in Nat \ {0}
    BY ClientsAssumption
  <2>2. /\ spans \in Seq(Spans) /\ Len(spans) <= deque
        /\ spanBuf \in Seq(Spans) /\ Len(spanBuf) <= maxToSendAtATime
    BY <2>1 DEF R!Init
  <2>3. waitNs \in 0 .. Period
    BY <2>1 DEF R!Init
  <2>4. /\ recv \in [Spans -> {"start", "added", "dropped", "ignored"}]
        /\ posts \in [Spans -> Nat]
    BY DEF R!Init
  <2> QED
    BY <2>2, <2>3, <2>4 DEF R!Init, R!TypeOK
<1>2. spans = <<>> /\ spanBuf = <<>> /\ Range(spans) = {} /\ Range(spanBuf) = {}
  BY RangeEmpty DEF R!Init
<1>3. NoRepeats(spans) /\ NoRepeats(spanBuf)
  BY <1>2 DEF NoRepeats
<1>4. RestPlaces
  BY <1>2, <1>3 DEF RestPlaces, R!Init
<1> QED
  BY <1>1, <1>4 DEF RestInv, R!Init

\* Every step keeps them.  A span enters the deque in its only call of
\* receiveSpan; it moves on with its batch, and with the post of that.
LEMMA RestStep ==
    ASSUME RestInv, RestPlaces, R!Next
    PROVE  RestInv' /\ RestPlaces'
<1> DEFINE Goal == RestInv' /\ RestPlaces'
<1>0. /\ \A n \in {Period, deque, maxToSendAtATime} : n \in Nat \ {0}
      /\ R!TypeOK
  BY ClientsAssumption DEF RestInv
<1>1. ASSUME NEW s \in Spans, R!receiveSpan(s) PROVE Goal
  <2>1. CASE spans' = spans /\ UNCHANGED <<spanBuf, posts>> /\ recv'[s] # "added"
             /\ \A z \in Spans \ {s} : recv'[z] = recv[z]
    <3>1. RestInv'
      BY <1>0, <1>1, <2>1 DEF R!receiveSpan, R!Signal, RestInv, R!TypeOK
    <3>2. s \notin Range(spans) \cup Range(spanBuf) \/ postPc \in {"dying", "dead"}
      BY <1>1 DEF RestPlaces, R!receiveSpan
    <3>3. Range(spans) \subseteq Spans /\ Range(spanBuf) \subseteq Spans
      BY <1>0, RangeType DEF R!TypeOK
    <3>4. RestPlaces'
      BY <1>0, <1>1, <2>1, <3>2, <3>3 DEF R!receiveSpan, RestPlaces
    <3> QED
      BY <3>1, <3>4
  <2>2. CASE /\ ~ shutdown /\ Len(spans) < deque /\ spans' = Append(spans, s)
             /\ recv' = [recv EXCEPT ![s] = "added"]
             /\ signalled' \in BOOLEAN
    <3>1. PICK q \in Seq(Spans) : q = spans /\ Len(q) < deque
      BY <1>0, <2>2 DEF R!TypeOK
    <3>2. PICK r \in Seq(Spans) : /\ r = Append(q, s) /\ Len(r) = Len(q) + 1
                                  /\ Range(r) = Range(q) \cup {s}
      BY RangeAppend
    <3>3. spans' = r
      BY <2>2, <3>1, <3>2, Zenon
    <3>4. /\ UNCHANGED <<shutdown, mustStartFlush, postPc, waitNs, spanBuf, posts,
                         restClose, flushes>>
          /\ recv[s] = "start"
      BY <1>1 DEF R!receiveSpan
    <3>5. Len(r) <= deque
      <4>1. Len(r) = Len(q) + 1 /\ Len(q) < deque /\ Len(q) \in Nat /\ deque \in Nat
        BY <1>0, <3>1, <3>2
      <4> QED
        BY <4>1
    <3>6. RestInv'
      BY <1>0, <2>2, <3>3, <3>4, <3>5 DEF RestInv, R!TypeOK
    <3>7. ASSUME postPc \notin {"dying", "dead"} PROVE RestPlaces'
      <4>1. PICK b \in Seq(Spans) : b = spanBuf
        BY <1>0 DEF R!TypeOK
      <4>2. /\ NoRepeats(q) /\ NoRepeats(b) /\ Range(q) \cap Range(b) = {}
            /\ s \notin Range(q) \cup Range(b) /\ posts[s] = 0
            /\ \A z \in Spans : posts[z] = IF recv[z] = "added" /\ z \notin Range(q) \cup Range(b)
                                           THEN 1 ELSE 0
            /\ \A z \in Range(q) \cup Range(b) : recv[z] = "added"
        BY <3>1, <3>4, <3>7, <4>1 DEF RestPlaces
      <4>3. NoRepeats(r)
        BY <3>2, <4>2, DistinctAppend
      <4>4. Range(q) \subseteq Spans /\ Range(b) \subseteq Spans
        BY RangeType
      <4>5. recv'[s] = "added" /\ \A z \in Spans \ {s} : recv'[z] = recv[z]
        BY <1>0, <2>2 DEF R!TypeOK
      <4>6. Range(r) \cap Range(b) = {}
        BY <3>2, <4>2
      <4>7. \A z \in Spans : posts[z] = IF recv'[z] = "added" /\ z \notin Range(r) \cup Range(b)
                                        THEN 1 ELSE 0
        BY <3>2, <4>2, <4>5
      <4>8. \A z \in Range(r) \cup Range(b) : recv'[z] = "added"
        BY <3>2, <4>2, <4>4, <4>5
      <4> QED
        BY <3>3, <3>4, <4>1, <4>2, <4>3, <4>6, <4>7, <4>8, Zenon DEF RestPlaces
    <3>8. ASSUME postPc \in {"dying", "dead"} PROVE RestPlaces'
      BY <3>4, <3>8 DEF RestPlaces
    <3> QED
      BY <3>6, <3>7, <3>8
  <2>3. signalled' \in BOOLEAN
    BY <1>0, <1>1 DEF R!receiveSpan, R!Signal, R!TypeOK
  <2>4. \/ spans' = spans /\ (\/ recv' = [recv EXCEPT ![s] = "ignored"]
                              \/ recv' = [recv EXCEPT ![s] = "dropped"])
        \/ /\ ~ shutdown /\ Len(spans) < deque /\ spans' = Append(spans, s)
           /\ recv' = [recv EXCEPT ![s] = "added"]
    BY <1>1 DEF R!receiveSpan
  <2>5. UNCHANGED <<spanBuf, posts>> /\ recv \in [Spans -> {"start", "added", "dropped", "ignored"}]
    BY <1>0, <1>1 DEF R!receiveSpan, R!TypeOK
  <2> QED
    BY <2>1, <2>2, <2>3, <2>4, <2>5
<1>2. ASSUME R!startFlushing PROVE Goal
  BY <1>0, <1>2 DEF R!startFlushing, R!Signal, RestInv, R!TypeOK, RestPlaces
<1>3. ASSUME R!BeginClose PROVE Goal
  BY <1>0, <1>3 DEF R!BeginClose, R!Signal, RestInv, R!TypeOK, RestPlaces
<1>4. ASSUME R!EndClose PROVE Goal
  BY <1>0, <1>4 DEF R!EndClose, R!threadVars, RestInv, R!TypeOK, RestPlaces
<1>5. ASSUME R!loadSpanBuf, postPc \in {"top", "wait"}, R!AfterUnlock, waitNs' = Period,
             mustStartFlush' \in BOOLEAN, signalled' \in BOOLEAN,
             UNCHANGED <<shutdown, recv, posts, restClose, flushes>>
      PROVE  Goal
  <2>1. /\ spans' \in Seq(Spans) /\ Len(spans') <= deque
        /\ spanBuf' \in Seq(Spans) /\ Len(spanBuf') <= maxToSendAtATime
        /\ RestPlaces'
    BY <1>5, LoadKeeps
  <2>2. postPc' \in {"top", "send"} /\ (postPc' = "top" => spanBuf' = <<>>)
    BY <1>5 DEF R!AfterUnlock
  <2>3. restClose' # "closed"
    BY <1>5 DEF RestInv
  <2>4. waitNs' \in 0 .. Period
    BY <1>0, <1>5
  <2>5. R!TypeOK'
    BY <1>0, <1>5, <2>1, <2>2, <2>4 DEF R!TypeOK
  <2>6. RestInv'
    BY <1>5, <2>2, <2>3, <2>5 DEF RestInv
  <2> QED
    BY <2>1, <2>6
<1>6. ASSUME R!Top PROVE Goal
  <2>1. CASE shutdown /\ spans = <<>> /\ postPc' = "ending" /\ UNCHANGED <<spans, spanBuf, waitNs, signalled>>
    BY <1>0, <1>6, <2>1 DEF R!Top, RestInv, R!TypeOK, RestPlaces
  <2>2. CASE ~ shutdown /\ postPc' = "wait" /\ signalled' = FALSE /\ UNCHANGED <<spans, spanBuf, waitNs>>
    BY <1>0, <1>6, <2>2 DEF R!Top, RestInv, R!TypeOK, RestPlaces
  <2>3. CASE R!loadSpanBuf /\ waitNs' = Period /\ R!AfterUnlock /\ UNCHANGED signalled
    BY <1>0, <1>5, <1>6, <2>3 DEF R!Top, R!TypeOK
  <2> QED
    BY <1>6, <2>1, <2>2, <2>3 DEF R!Top
<1>7. ASSUME postPc = "wait", R!Awake PROVE Goal
  <2>1. CASE R!loadSpanBuf /\ waitNs' = Period
    BY <1>5, <1>7, <2>1 DEF R!Awake
  <2>2. CASE UNCHANGED <<spans, spanBuf>> /\ waitNs' \in {0, waitNs}
    <3>1. waitNs' \in 0 .. Period /\ spanBuf' = <<>> /\ postPc' = "top"
      BY <1>0, <1>7, <2>2 DEF R!Awake, R!AfterUnlock, RestInv, R!TypeOK
    <3>2. /\ mustStartFlush' = FALSE /\ signalled' = FALSE
          /\ UNCHANGED <<shutdown, recv, posts, restClose, flushes>>
      BY <1>7 DEF R!Awake
    <3>3. R!TypeOK'
      BY <1>0, <2>2, <3>1, <3>2 DEF R!TypeOK
    <3>4. RestInv'
      BY <1>7, <3>1, <3>2, <3>3 DEF RestInv
    <3>5. RestPlaces'
      BY <1>7, <2>2, <3>1, <3>2 DEF RestPlaces
    <3> QED
      BY <3>4, <3>5
  <2> QED
    BY <1>7, <2>1, <2>2 DEF R!Awake
<1>8. ASSUME R!sendSpans PROVE Goal
  <2>1. Range(spanBuf') = {} /\ NoRepeats(spanBuf')
    BY <1>8, RangeEmpty DEF R!sendSpans, NoRepeats
  <2>2. /\ UNCHANGED <<spans, recv>> /\ postPc = "send"
        /\ \A s \in Spans : posts'[s] = IF s \in Range(spanBuf) THEN posts[s] + 1 ELSE posts[s]
    BY <1>8 DEF R!sendSpans, R!Range, Range
  <2>3. RestPlaces'
    BY <2>1, <2>2 DEF RestPlaces
  <2>4. \A s \in Spans : posts'[s] <= 1
    BY <2>1, <2>2 DEF RestPlaces
  <2>5. R!TypeOK'
    BY <1>0, <1>8 DEF R!sendSpans, R!TypeOK
  <2>6. RestInv'
    BY <1>8, <2>4, <2>5 DEF R!sendSpans, RestInv
  <2> QED
    BY <2>3, <2>6
<1>9. ASSUME R!Finally PROVE Goal
  <2>1. CASE postPc = "ending"
    <3>1. spans' = spans /\ postPc' = "ended" /\ UNCHANGED <<spanBuf, posts, recv>>
      BY <1>9, <2>1 DEF R!Finally, RestInv
    <3> QED
      BY <1>0, <1>9, <2>1, <3>1 DEF R!Finally, RestInv, R!TypeOK, RestPlaces
  <2>2. CASE postPc = "dying"
    BY <1>0, <1>9, <2>2 DEF R!Finally, RestInv, R!TypeOK, RestPlaces
  <2> QED
    BY <1>9, <2>1, <2>2 DEF R!Finally
<1>10. ASSUME R!Tick PROVE Goal
  BY <1>0, <1>10 DEF R!Tick, RestInv, R!TypeOK, RestPlaces
<1>11. ASSUME R!SendThrows PROVE Goal
  BY <1>0, <1>11 DEF R!SendThrows, RestInv, R!TypeOK, RestPlaces
<1> HIDE DEF Goal
<1>12. Goal
  BY <1>1, <1>2, <1>3, <1>4, <1>6, <1>7, <1>8, <1>9, <1>10, <1>11
     DEF R!Next, R!PostSpans, R!Wake, R!WakeSpuriously
<1> QED
  BY <1>12 DEF Goal

\* They say that every added span is in one place, and that close, when it has
\* seen the thread end, leaves none behind.
LEMMA RestSafe ==
    ASSUME RestInv, RestPlaces
    PROVE  R!ExactlyOnePlace /\ R!CloseSendsAll
<1>1. R!ExactlyOnePlace
  <2> SUFFICES ASSUME postPc \notin {"dying", "dead"}, NEW s \in Spans
               PROVE  R!Places(s) = IF recv[s] = "added" THEN 1 ELSE 0
    BY DEF R!ExactlyOnePlace
  <2>1. PICK q \in Seq(Spans) : q = spans
    BY DEF RestInv, R!TypeOK
  <2>2. PICK b \in Seq(Spans) : b = spanBuf
    BY DEF RestInv, R!TypeOK
  <2>3. NoRepeats(q) /\ NoRepeats(b)
    BY <2>1, <2>2 DEF RestPlaces
  <2>4. Cardinality({i \in 1 .. Len(q) : q[i] = s}) = IF s \in Range(q) THEN 1 ELSE 0
    BY <2>3, DistinctOnce, CountOnce
  <2>5. Cardinality({i \in 1 .. Len(b) : b[i] = s}) = IF s \in Range(b) THEN 1 ELSE 0
    BY <2>3, DistinctOnce, CountOnce
  <2>6. /\ Range(q) \cap Range(b) = {}
        /\ posts[s] = IF recv[s] = "added" /\ s \notin Range(q) \cup Range(b) THEN 1 ELSE 0
        /\ s \in Range(q) \cup Range(b) => recv[s] = "added"
    BY <2>1, <2>2 DEF RestPlaces
  <2>7. R!Places(s) = Cardinality({i \in 1 .. Len(q) : q[i] = s})
                      + Cardinality({i \in 1 .. Len(b) : b[i] = s}) + posts[s]
    BY <2>1, <2>2 DEF R!Places, R!Cardinality, Cardinality
  <2> QED
    BY <2>4, <2>5, <2>6, <2>7
<1>2. R!CloseSendsAll
  BY RangeEmpty DEF R!CloseSendsAll, RestInv, RestPlaces
<1> QED
  BY <1>1, <1>2

-----------------------------------------------------------------------------
\* The local file receiver.

\* A thread holds spans between the swap of the array and the end of its flush
\* only; a span is accepted in its only call of receiveSpan.
FileInv ==
    /\ F!TypeOK
    /\ \A t \in F!Threads : toFlush[t] # <<>> => filePc[t] \in {"lock", "flush"}
    /\ \A s \in accepted : filePc[s] # "start"

\* The array, the threads, the file and the failed flushes share no span, hold
\* none twice, and together they hold the accepted ones.
FilePlaces ==
    /\ NoRepeats(bufferedSpans)
    /\ \A t \in F!Threads : NoRepeats(toFlush[t])
    /\ \A s \in Spans : AtMostOnce(spanFile, s)
    /\ \A s \in Range(bufferedSpans) :
          /\ s \in accepted /\ s \notin Range(spanFile) /\ s \notin failed
          /\ \A t \in F!Threads : s \notin Range(toFlush[t])
    /\ \A t \in F!Threads : \A s \in Range(toFlush[t]) :
          /\ s \in accepted /\ s \notin Range(spanFile) /\ s \notin failed
          /\ \A u \in F!Threads : s \in Range(toFlush[u]) => u = t
    /\ \A s \in failed : s \in accepted /\ s \notin Range(spanFile)
    /\ \A s \in Range(spanFile) : s = Newline \/ s \in accepted
    /\ \A s \in accepted :
          \/ s \in Range(bufferedSpans) \/ s \in Range(spanFile) \/ s \in failed
          \/ \E t \in F!Threads : s \in Range(toFlush[t])

\* The stream is closed by close only, which takes what is in the array first;
\* after a quiet close nobody else flushes any more.
FileClose ==
    /\ ~ open \/ quiet => arrayNull
    /\ \A c \in Closers : filePc[c] # "start" => arrayNull
    /\ arrayNull => bufferedSpans = <<>>
    /\ quiet => \E c \in Closers : \A t \in F!Threads :
                   filePc[t] \in {"start", "done"} \/ t = c
    /\ quiet /\ ~ open => \A t \in F!Threads : filePc[t] \in {"start", "done"}
    /\ writeFails = 0 /\ (open \/ quiet) => failed = {}

\* One write appends the spans of its buffers, each once, and newlines.
LEMMA LinesFacts ==
    ASSUME NEW bufs \in Seq(Spans), NoRepeats(bufs), newlineLeft \in BOOLEAN
    PROVE  /\ F!Lines(bufs) \in Seq(Spans \cup {Newline})
           /\ Range(F!Lines(bufs)) \ {Newline} = Range(bufs)
           /\ \A s \in Spans : AtMostOnce(F!Lines(bufs), s)
<1>0. Newline \notin Spans /\ Range(bufs) \subseteq Spans
  BY ClientsAssumption, RangeType
<1>1. CASE ~ newlineLeft
  <2>1. F!Lines(bufs) = bufs
    BY <1>1 DEF F!Lines
  <2>2. bufs \in Seq(Spans \cup {Newline})
    OBVIOUS
  <2>3. \A s \in Spans : AtMostOnce(bufs, s)
    BY DistinctOnce
  <2>4. Range(bufs) \ {Newline} = Range(bufs)
    BY <1>0
  <2> QED
    BY <2>1, <2>2, <2>3, <2>4, Zenon
<1>2. CASE newlineLeft
  <2>1. PICK L : L = [i \in 1 .. 2 * Len(bufs) |->
                        IF i % 2 = 1 THEN bufs[(i + 1) \div 2] ELSE Newline]
    OBVIOUS
  <2>2. Len(bufs) \in Nat /\ 2 * Len(bufs) \in Nat
    OBVIOUS
  <2>3. \A i \in 1 .. 2 * Len(bufs) :
           L[i] = IF i % 2 = 1 THEN bufs[(i + 1) \div 2] ELSE Newline
    BY <2>1
  <2>4. \A i \in 1 .. 2 * Len(bufs) : i % 2 = 1 =>
           /\ (i + 1) \div 2 \in 1 .. Len(bufs) /\ 2 * ((i + 1) \div 2) = i + 1
    BY <2>2
  <2>5. \A i \in 1 .. 2 * Len(bufs) : L[i] \in Spans \cup {Newline}
    BY <2>3, <2>4
  <2>6. L \in Seq(Spans \cup {Newline}) /\ Len(L) = 2 * Len(bufs)
    <3>1. L \in [1 .. 2 * Len(bufs) -> Spans \cup {Newline}]
      BY <2>1, <2>5
    <3> QED
      BY <2>2, <3>1, SeqDef
  <2>7. Range(bufs) = {bufs[i] : i \in 1 .. Len(bufs)}
    BY RangeEquality
  <2>8. Range(L) = {L[i] : i \in 1 .. 2 * Len(bufs)}
    BY <2>6, RangeEquality
  <2>9. \A i \in 1 .. 2 * Len(bufs) : L[i] = Newline \/ L[i] \in Range(bufs)
    BY <2>3, <2>4, <2>7
  <2>10. ASSUME NEW k \in 1 .. Len(bufs) PROVE bufs[k] \in Range(L)
    <3>1. /\ 2 * k - 1 \in 1 .. 2 * Len(bufs) /\ (2 * k - 1) % 2 = 1
          /\ ((2 * k - 1) + 1) \div 2 = k
      BY <2>2
    <3>2. L[2 * k - 1] = bufs[k]
      BY <2>3, <3>1
    <3> QED
      BY <2>8, <3>1, <3>2
  <2>11. Range(L) \ {Newline} = Range(bufs)
    BY <1>0, <2>7, <2>8, <2>9, <2>10
  <2>12. ASSUME NEW s \in Spans PROVE AtMostOnce(L, s)
    <3> SUFFICES ASSUME NEW i \in 1 .. 2 * Len(bufs), NEW j \in 1 .. 2 * Len(bufs),
                        L[i] = s, L[j] = s
                 PROVE  i = j
      BY <2>6 DEF AtMostOnce
    <3>1. i % 2 = 1 /\ j % 2 = 1
      BY <1>0, <2>3
    <3>2. bufs[(i + 1) \div 2] = bufs[(j + 1) \div 2]
      BY <2>3, <3>1
    <3>3. (i + 1) \div 2 = (j + 1) \div 2
      BY <2>4, <3>1, <3>2 DEF NoRepeats
    <3>4. i + 1 = j + 1
      BY <2>4, <3>1, <3>3
    <3> QED
      BY <3>4
  <2>13. F!Lines(bufs) = L
    BY <1>2, <2>1 DEF F!Lines
  <2> QED
    BY <2>6, <2>11, <2>12, <2>13, Zenon
<1> QED
  BY <1>1, <1>2

\* The three invariants hold in the initial states.
LEMMA FileInit == F!Init => FileInv /\ FilePlaces /\ FileClose
<1> SUFFICES ASSUME F!Init PROVE FileInv /\ FilePlaces /\ FileClose
  OBVIOUS
<1>1. F!TypeOK
  <2>1. Len(bufferedSpans) < array
    BY ClientsAssumption DEF F!Init
  <2>2. \A q : q = <<>> => q \in Seq(Spans)
    OBVIOUS
  <2>3. toFlush \in [F!Threads -> Seq(Spans)] /\ taken \in [F!Threads -> Seq(Spans)]
    BY <2>2 DEF F!Init
  <2>4. /\ bufferedSpans \in Seq(Spans) /\ spanFile \in Seq(Spans \cup {Newline})
        /\ filePc \in [F!Threads -> {"start", "lock", "flush", "done"}]
    BY DEF F!Init
  <2> QED
    BY <2>1, <2>3, <2>4 DEF F!Init, F!TypeOK
<1>2. /\ bufferedSpans = <<>> /\ spanFile = <<>> /\ failed = {} /\ accepted = {}
      /\ \A t \in F!Threads : toFlush[t] = <<>> /\ Range(toFlush[t]) = {}
  BY RangeEmpty DEF F!Init
<1>3. NoRepeats(<<>>) /\ \A s \in Spans : AtMostOnce(<<>>, s)
  BY DEF NoRepeats, AtMostOnce
<1>4. FilePlaces
  BY <1>2, <1>3, RangeEmpty DEF FilePlaces
<1>5. FileInv
  BY <1>1, <1>2 DEF FileInv
<1>6. \A c \in Closers : filePc[c] = "start"
  BY DEF F!Init, F!Threads
<1> QED
  BY <1>2, <1>4, <1>5, <1>6 DEF FileClose, F!Init

\* A write takes a prefix of what the thread holds and appends it to the file.
LEMMA WriteFacts ==
    ASSUME FileInv, FilePlaces, NEW t \in F!Threads, F!Write(t)
    PROVE  \E v \in Seq(Spans), L \in Seq(Spans \cup {Newline}) :
              /\ toFlush' = [toFlush EXCEPT ![t] = v] /\ spanFile' = spanFile \o L
              /\ NoRepeats(v) /\ \A s \in Spans : AtMostOnce(L, s)
              /\ Range(toFlush[t]) = (Range(L) \ {Newline}) \cup Range(v)
              /\ (Range(L) \ {Newline}) \cap Range(v) = {}
<1>1. WriteV \in Nat \ {0} /\ newlineLeft \in BOOLEAN
  BY ClientsAssumption DEF FileInv, F!TypeOK
<1>2. PICK q \in Seq(Spans) : q = toFlush[t] /\ NoRepeats(q)
  BY DEF FileInv, F!TypeOK, FilePlaces
<1>3. PICK n \in 0 .. Len(q) : n = F!BatchLen(t)
  BY <1>1, <1>2 DEF F!BatchLen
<1>4. PICK u \in Seq(Spans) : u = SubSeq(q, 1, n)
  BY RangeSplit
<1>5. PICK v \in Seq(Spans) : v = SubSeq(q, n + 1, Len(q))
  BY RangeSplit
<1>6. Range(q) = Range(u) \cup Range(v)
  BY <1>4, <1>5, RangeSplit
<1>7. NoRepeats(u) /\ NoRepeats(v) /\ Range(u) \cap Range(v) = {}
  BY <1>2, <1>4, <1>5, DistinctSplit
<1>8. PICK L \in Seq(Spans \cup {Newline}) :
         /\ L = F!Lines(u) /\ Range(L) \ {Newline} = Range(u)
         /\ \A s \in Spans : AtMostOnce(L, s)
  BY <1>1, <1>7, LinesFacts
<1>9. /\ spanFile' = spanFile \o F!Lines(SubSeq(toFlush[t], 1, F!BatchLen(t)))
      /\ toFlush' = [toFlush EXCEPT ![t] = SubSeq(toFlush[t], F!BatchLen(t) + 1, Len(toFlush[t]))]
  BY DEF F!Write
<1>10. spanFile' = spanFile \o L /\ toFlush' = [toFlush EXCEPT ![t] = v]
  BY <1>2, <1>3, <1>4, <1>5, <1>8, <1>9, Zenon
<1>11. /\ Range(toFlush[t]) = (Range(L) \ {Newline}) \cup Range(v)
       /\ (Range(L) \ {Newline}) \cap Range(v) = {}
  BY <1>2, <1>6, <1>7, <1>8
<1> QED
  BY <1>7, <1>8, <1>10, <1>11, Zenon

\* Every step keeps the types, and what a thread holds ends with its flush.
LEMMA FileInvStep ==
    ASSUME FileInv, FilePlaces, F!Next
    PROVE  FileInv'
<1>0. /\ array \in Nat \ {0} /\ WriteV \in Nat \ {0} /\ Spans \cap Closers = {}
      /\ NoOne \notin F!Threads
      /\ F!TypeOK /\ Spans \subseteq F!Threads /\ Closers \subseteq F!Threads
  BY ClientsAssumption DEF FileInv, F!Threads
<1>1. ASSUME NEW s \in Spans, F!Receive(s) PROVE FileInv'
  <2>1. PICK q \in Seq(Spans) : q = bufferedSpans /\ Len(q) < array
    BY <1>0 DEF F!TypeOK
  <2>2. PICK r \in Seq(Spans) : r = Append(q, s) /\ Len(r) = Len(q) + 1
    BY RangeAppend
  <2>3. /\ UNCHANGED <<arrayNull, channelLock, open, newlineLeft, spanFile, failed, quiet,
                       writeFails>>
        /\ filePc[s] = "start"
    BY <1>1 DEF F!Receive
  <2>4. CASE arrayNull
    BY <1>0, <1>1, <2>4 DEF F!Receive, F!Goto, FileInv, F!TypeOK
  <2>5. CASE ~ arrayNull /\ Len(q) + 1 = array
    <3>1. /\ toFlush' = [toFlush EXCEPT ![s] = r] /\ taken' = [taken EXCEPT ![s] = r]
          /\ bufferedSpans' = <<>> /\ accepted' = accepted \cup {s}
          /\ filePc' = [filePc EXCEPT ![s] = "lock"]
      BY <1>1, <2>1, <2>2, <2>5 DEF F!Receive, F!Goto
    <3>2. bufferedSpans' \in Seq(Spans) /\ Len(bufferedSpans') < array
      BY <1>0, <3>1
    <3>3. /\ toFlush' \in [F!Threads -> Seq(Spans)] /\ taken' \in [F!Threads -> Seq(Spans)]
          /\ filePc' \in [F!Threads -> {"start", "lock", "flush", "done"}]
      BY <1>0, <3>1 DEF F!TypeOK
    <3>4. F!TypeOK'
      BY <1>0, <2>3, <3>1, <3>2, <3>3 DEF F!TypeOK
    <3> QED
      BY <1>0, <3>1, <3>4 DEF FileInv, F!TypeOK
  <2>6. CASE ~ arrayNull /\ Len(q) + 1 # array
    <3>1. /\ bufferedSpans' = r /\ accepted' = accepted \cup {s}
          /\ filePc' = [filePc EXCEPT ![s] = "done"] /\ UNCHANGED <<toFlush, taken>>
      BY <1>1, <2>1, <2>2, <2>6 DEF F!Receive, F!Goto
    <3>2. Len(r) < array
      <4>1. Len(r) = Len(q) + 1 /\ Len(q) < array /\ Len(q) \in Nat /\ array \in Nat
        BY <1>0, <2>1, <2>2
      <4> QED
        BY <2>6, <4>1
    <3>3. F!TypeOK'
      BY <1>0, <2>3, <3>1, <3>2 DEF F!TypeOK
    <3> QED
      BY <1>0, <2>3, <3>1, <3>3 DEF FileInv, F!TypeOK
  <2> QED
    BY <2>4, <2>5, <2>6
<1>2. ASSUME NEW t \in Closers, F!BeginClose(t) PROVE FileInv'
  <2>1. CASE arrayNull
    BY <1>0, <1>2, <2>1 DEF F!BeginClose, F!Goto, FileInv, F!TypeOK
  <2>2. CASE ~ arrayNull
    <3>1. /\ toFlush' = [toFlush EXCEPT ![t] = bufferedSpans]
          /\ taken' = [taken EXCEPT ![t] = bufferedSpans]
          /\ bufferedSpans' = <<>> /\ arrayNull' = TRUE /\ quiet' \in BOOLEAN
          /\ filePc' = [filePc EXCEPT ![t] = "lock"]
          /\ UNCHANGED <<channelLock, open, newlineLeft, spanFile, accepted, failed, writeFails>>
      BY <1>2, <2>2 DEF F!BeginClose, F!Goto
    <3>2. bufferedSpans' \in Seq(Spans) /\ Len(bufferedSpans') < array
      BY <1>0, <3>1
    <3>3. /\ toFlush' \in [F!Threads -> Seq(Spans)] /\ taken' \in [F!Threads -> Seq(Spans)]
          /\ filePc' \in [F!Threads -> {"start", "lock", "flush", "done"}]
      BY <1>0, <3>1 DEF F!TypeOK
    <3>4. F!TypeOK'
      BY <1>0, <3>1, <3>2, <3>3 DEF F!TypeOK
    <3> QED
      BY <1>0, <3>1, <3>4 DEF FileInv, F!TypeOK
  <2> QED
    BY <2>1, <2>2
<1>3. ASSUME NEW t \in F!Threads, F!LockChannel(t) PROVE FileInv'
  BY <1>0, <1>3 DEF F!LockChannel, F!Goto, FileInv, F!TypeOK
<1>4. ASSUME NEW t \in F!Threads, F!Unlock(t) PROVE FileInv'
  BY <1>0, <1>4 DEF F!Unlock, F!Goto, FileInv, F!TypeOK
<1>5. ASSUME NEW t \in F!Threads, F!WriteFails(t) PROVE FileInv'
  <2>1. Range(toFlush[t]) \subseteq Spans
    BY <1>0, RangeType DEF F!TypeOK
  <2>2. failed' = failed \cup Range(toFlush[t]) /\ toFlush' = [toFlush EXCEPT ![t] = <<>>]
    BY <1>5 DEF F!WriteFails, F!Range, Range
  <2>3. toFlush' \in [F!Threads -> Seq(Spans)] /\ failed' \subseteq Spans
    BY <1>0, <2>1, <2>2 DEF F!TypeOK
  <2>4. /\ writeFails' \in Nat /\ filePc[t] = "flush"
        /\ UNCHANGED <<bufferedSpans, arrayNull, filePc, channelLock, open, newlineLeft,
                       spanFile, accepted, taken, quiet>>
    BY <1>0, <1>5 DEF F!WriteFails, F!TypeOK
  <2>5. F!TypeOK'
    BY <1>0, <2>3, <2>4 DEF F!TypeOK
  <2> QED
    BY <1>0, <2>2, <2>4, <2>5 DEF FileInv, F!TypeOK
<1>6. ASSUME NEW t \in F!Threads, F!Write(t) PROVE FileInv'
  <2>1. PICK v \in Seq(Spans), L \in Seq(Spans \cup {Newline}) :
           toFlush' = [toFlush EXCEPT ![t] = v] /\ spanFile' = spanFile \o L
    BY <1>6, WriteFacts
  <2>2. toFlush' \in [F!Threads -> Seq(Spans)] /\ spanFile' \in Seq(Spans \cup {Newline})
    BY <1>0, <2>1 DEF F!TypeOK
  <2>3. /\ newlineLeft' = FALSE /\ filePc[t] = "flush"
        /\ UNCHANGED <<bufferedSpans, arrayNull, filePc, channelLock, open, accepted,
                       failed, taken, quiet, writeFails>>
    BY <1>6 DEF F!Write
  <2>4. F!TypeOK'
    BY <1>0, <2>2, <2>3 DEF F!TypeOK
  <2> QED
    BY <1>0, <2>1, <2>3, <2>4 DEF FileInv, F!TypeOK
<1> QED
  BY <1>1, <1>2, <1>3, <1>4, <1>5, <1>6 DEF F!Next, F!Flush

\* Every step moves spans from one place to the next and leaves none behind.
LEMMA FilePlacesStep ==
    ASSUME FileInv, FilePlaces, F!Next
    PROVE  FilePlaces'
<1>0. /\ F!TypeOK /\ Spans \subseteq F!Threads /\ Closers \subseteq F!Threads
      /\ Newline \notin Spans
  BY ClientsAssumption DEF FileInv, F!Threads
<1>a. \A t \in F!Threads : toFlush[t] \in Seq(Spans) /\ Range(toFlush[t]) \subseteq Spans
  BY <1>0, RangeType DEF F!TypeOK
<1>b. \A t \in F!Threads : filePc[t] = "start" => Range(toFlush[t]) = {}
  BY RangeEmpty DEF FileInv
<1>c. NoRepeats(<<>>)
  BY DEF NoRepeats
<1>1. ASSUME NEW s \in Spans, F!Receive(s) PROVE FilePlaces'
  <2>1. PICK q \in Seq(Spans) : q = bufferedSpans /\ NoRepeats(q)
    BY <1>0 DEF F!TypeOK, FilePlaces
  <2>2. PICK r \in Seq(Spans) : r = Append(q, s) /\ Range(r) = Range(q) \cup {s}
    BY RangeAppend
  <2>3. UNCHANGED <<spanFile, failed>> /\ filePc[s] = "start" /\ s \notin accepted
    BY <1>1 DEF F!Receive, FileInv
  <2>4. NoRepeats(r)
    <3>1. s \notin Range(q)
      BY <2>1, <2>3 DEF FilePlaces
    <3> QED
      BY <2>1, <2>2, <3>1, DistinctAppend
  <2>5. CASE arrayNull
    <3>1. UNCHANGED <<bufferedSpans, toFlush, accepted>>
      BY <1>1, <2>5 DEF F!Receive
    <3> QED
      BY <2>3, <3>1 DEF FilePlaces
  <2>6. CASE ~ arrayNull /\ Len(q) + 1 = array
    <3>1. /\ toFlush' = [toFlush EXCEPT ![s] = r]
          /\ bufferedSpans' = <<>> /\ accepted' = accepted \cup {s}
      BY <1>1, <2>1, <2>2, <2>6 DEF F!Receive
    <3>2. /\ toFlush'[s] = r /\ \A u \in F!Threads \ {s} : toFlush'[u] = toFlush[u]
          /\ Range(bufferedSpans') = {} /\ NoRepeats(bufferedSpans')
      BY <1>0, <1>c, <3>1, RangeEmpty DEF F!TypeOK
    <3>3. Range(toFlush[s]) = {} /\ s \in F!Threads /\ s # Newline
      BY <1>0, <1>b, <2>3
    <3>4. s \notin Range(spanFile) /\ s \notin failed
          /\ \A u \in F!Threads : s \notin Range(toFlush[u])
      BY <2>3, <3>3 DEF FilePlaces
    <3>5. \A u \in F!Threads : NoRepeats(toFlush'[u])
      BY <2>4, <3>2 DEF FilePlaces
    <3>6. \A u \in F!Threads : \A z \in Range(toFlush'[u]) :
             z \in accepted' /\ z \notin Range(spanFile) /\ z \notin failed
      BY <2>1, <2>2, <3>1, <3>2, <3>4 DEF FilePlaces
    <3>7. \A u, w \in F!Threads : \A z \in Range(toFlush'[u]) :
             z \in Range(toFlush'[w]) => w = u
      <4>1. \A z \in Range(r) : \A w \in F!Threads : z \notin Range(toFlush[w])
        BY <2>1, <2>2, <3>4 DEF FilePlaces
      <4>2. \A u, w \in F!Threads : \A z \in Range(toFlush[u]) :
               z \in Range(toFlush[w]) => w = u
        BY DEF FilePlaces
      <4> QED
        BY <3>2, <4>1, <4>2
    <3>8. \A z \in accepted' :
             \/ z \in Range(spanFile) \/ z \in failed
             \/ \E u \in F!Threads : z \in Range(toFlush'[u])
      BY <2>1, <2>2, <3>1, <3>2, <3>3 DEF FilePlaces
    <3> QED
      BY <2>3, <3>1, <3>2, <3>5, <3>6, <3>7, <3>8 DEF FilePlaces
  <2>7. CASE ~ arrayNull /\ Len(q) + 1 # array
    <3>1. bufferedSpans' = r /\ accepted' = accepted \cup {s} /\ UNCHANGED toFlush
      BY <1>1, <2>1, <2>2, <2>7 DEF F!Receive
    <3> QED
      BY <1>0, <2>1, <2>2, <2>3, <2>4, <3>1 DEF FilePlaces
  <2> QED
    BY <2>5, <2>6, <2>7
<1>2. ASSUME NEW t \in Closers, F!BeginClose(t) PROVE FilePlaces'
  <2>1. UNCHANGED <<spanFile, accepted, failed>> /\ filePc[t] = "start"
    BY <1>2 DEF F!BeginClose
  <2>2. CASE arrayNull
    BY <1>2, <2>1, <2>2 DEF F!BeginClose, FilePlaces
  <2>3. CASE ~ arrayNull
    <3>1. toFlush' = [toFlush EXCEPT ![t] = bufferedSpans] /\ bufferedSpans' = <<>>
      BY <1>2, <2>3 DEF F!BeginClose
    <3>2. /\ toFlush'[t] = bufferedSpans
          /\ \A u \in F!Threads \ {t} : toFlush'[u] = toFlush[u]
          /\ Range(bufferedSpans') = {} /\ NoRepeats(bufferedSpans')
      BY <1>0, <1>c, <3>1, RangeEmpty DEF F!TypeOK
    <3> QED
      BY <1>0, <1>b, <2>1, <3>2 DEF FilePlaces
  <2> QED
    BY <2>2, <2>3
<1>3. ASSUME NEW t \in F!Threads, F!LockChannel(t) PROVE FilePlaces'
  BY <1>3 DEF F!LockChannel, FilePlaces
<1>4. ASSUME NEW t \in F!Threads, F!Unlock(t) PROVE FilePlaces'
  BY <1>4 DEF F!Unlock, FilePlaces
<1>5. ASSUME NEW t \in F!Threads, F!WriteFails(t) PROVE FilePlaces'
  <2>1. /\ failed' = failed \cup Range(toFlush[t]) /\ toFlush' = [toFlush EXCEPT ![t] = <<>>]
        /\ UNCHANGED <<bufferedSpans, spanFile, accepted>>
    BY <1>5 DEF F!WriteFails, F!Range, Range
  <2>2. /\ Range(toFlush'[t]) = {} /\ NoRepeats(toFlush'[t])
        /\ \A u \in F!Threads \ {t} : toFlush'[u] = toFlush[u]
    BY <1>0, <1>c, <2>1, RangeEmpty DEF F!TypeOK
  <2> QED
    BY <1>0, <2>1, <2>2 DEF FilePlaces
<1>6. ASSUME NEW t \in F!Threads, F!Write(t) PROVE FilePlaces'
  <2>1. PICK v \in Seq(Spans), L \in Seq(Spans \cup {Newline}) :
              /\ toFlush' = [toFlush EXCEPT ![t] = v] /\ spanFile' = spanFile \o L
              /\ NoRepeats(v) /\ \A s \in Spans : AtMostOnce(L, s)
              /\ Range(toFlush[t]) = (Range(L) \ {Newline}) \cup Range(v)
              /\ (Range(L) \ {Newline}) \cap Range(v) = {}
    BY <1>6, WriteFacts
  <2>2. UNCHANGED <<bufferedSpans, accepted, failed>>
    BY <1>6 DEF F!Write
  <2>3. toFlush'[t] = v /\ \A u \in F!Threads \ {t} : toFlush'[u] = toFlush[u]
    BY <1>0, <2>1 DEF F!TypeOK
  <2>4. PICK f \in Seq(Spans \cup {Newline}) : f = spanFile
    BY <1>0 DEF F!TypeOK
  <2>5. Range(f \o L) = Range(f) \cup Range(L)
    BY RangeConcatenation
  <2>6. Range(spanFile') = Range(spanFile) \cup Range(L)
    BY <2>1, <2>4, <2>5, Zenon
  <2>7. ASSUME NEW s \in Spans PROVE AtMostOnce(f \o L, s)
    <3>1. AtMostOnce(f, s) /\ AtMostOnce(L, s)
      BY <2>1, <2>4 DEF FilePlaces
    <3>2. s \notin Range(f) \cap Range(L)
      BY <1>0, <2>1, <2>4 DEF FilePlaces
    <3> QED
      BY <3>1, <3>2, OnceConcat
  <2>8. \A s \in Spans : AtMostOnce(spanFile', s)
    BY <2>1, <2>4, <2>7, Zenon
  <2>9. PICK W : W = Range(L) \ {Newline}
    OBVIOUS
  <2>10. /\ Range(spanFile') \ {Newline} = (Range(spanFile) \ {Newline}) \cup W
         /\ Range(toFlush[t]) = W \cup Range(v) /\ W \cap Range(v) = {}
    BY <2>1, <2>6, <2>9
  <2>11. \A u \in F!Threads : NoRepeats(toFlush'[u])
    BY <2>1, <2>3 DEF FilePlaces
  <2>12. /\ \A s \in Range(bufferedSpans) : s # Newline
         /\ \A s \in failed \cup accepted : s # Newline
         /\ \A u \in F!Threads : \A s \in Range(toFlush[u]) : s # Newline
    <3>1. Range(bufferedSpans) \subseteq Spans
      BY <1>0, RangeType DEF F!TypeOK
    <3> QED
      BY <1>0, <1>a, <3>1 DEF F!TypeOK
  <2>13. \A s \in Range(bufferedSpans) :
            /\ s \in accepted /\ s \notin Range(spanFile') /\ s \notin failed
            /\ \A u \in F!Threads : s \notin Range(toFlush'[u])
    BY <2>3, <2>10, <2>12 DEF FilePlaces
  <2>14. \A u \in F!Threads : \A s \in Range(toFlush'[u]) :
            /\ s \in accepted /\ s \notin Range(spanFile') /\ s \notin failed
            /\ \A w \in F!Threads : s \in Range(toFlush'[w]) => w = u
    BY <2>3, <2>10, <2>12 DEF FilePlaces
  <2>15. \A s \in failed : s \in accepted /\ s \notin Range(spanFile')
    BY <2>10, <2>12 DEF FilePlaces
  <2>16. \A s \in Range(spanFile') : s = Newline \/ s \in accepted
    BY <2>10 DEF FilePlaces
  <2>17. \A s \in accepted :
            \/ s \in Range(bufferedSpans) \/ s \in Range(spanFile') \/ s \in failed
            \/ \E u \in F!Threads : s \in Range(toFlush'[u])
    BY <2>3, <2>10, <2>12 DEF FilePlaces
  <2> QED
    BY <2>2, <2>8, <2>11, <2>13, <2>14, <2>15, <2>16, <2>17 DEF FilePlaces
<1> QED
  BY <1>1, <1>2, <1>3, <1>4, <1>5, <1>6 DEF F!Next, F!Flush

\* Every step keeps what close relies on.
LEMMA FileCloseStep ==
    ASSUME FileInv, FileClose, F!Next
    PROVE  FileClose'
<1>0. /\ F!TypeOK /\ Spans \subseteq F!Threads /\ Closers \subseteq F!Threads
      /\ Spans \cap Closers = {}
  BY ClientsAssumption DEF FileInv, F!Threads
<1>1. ASSUME NEW s \in Spans, F!Receive(s) PROVE FileClose'
  <2>1. CASE arrayNull
    BY <1>0, <1>1, <2>1 DEF F!Receive, F!Goto, FileClose, F!TypeOK
  <2>2. CASE ~ arrayNull
    <3>1. /\ \A c \in Closers : filePc'[c] = filePc[c]
          /\ UNCHANGED <<arrayNull, open, failed, quiet, writeFails>>
      BY <1>0, <1>1 DEF F!Receive, F!Goto, F!TypeOK
    <3> QED
      BY <2>2, <3>1 DEF FileClose
  <2> QED
    BY <2>1, <2>2
<1>2. ASSUME NEW t \in Closers, F!BeginClose(t) PROVE FileClose'
  <2>1. CASE arrayNull
    BY <1>0, <1>2, <2>1 DEF F!BeginClose, F!Goto, FileClose, F!TypeOK
  <2>2. CASE ~ arrayNull
    BY <1>0, <1>2, <2>2 DEF F!BeginClose, F!Goto, FileClose, F!TypeOK
  <2> QED
    BY <2>1, <2>2
<1>3. ASSUME NEW t \in F!Threads, F!LockChannel(t) PROVE FileClose'
  BY <1>0, <1>3 DEF F!LockChannel, F!Goto, FileClose, F!TypeOK
<1>4. ASSUME NEW t \in F!Threads, F!Unlock(t) PROVE FileClose'
  <2>1. /\ filePc[t] = "flush" /\ open' = (open /\ t \notin Closers)
        /\ filePc'[t] = "done" /\ \A u \in F!Threads \ {t} : filePc'[u] = filePc[u]
        /\ UNCHANGED <<bufferedSpans, arrayNull, failed, quiet, writeFails>>
    BY <1>0, <1>4 DEF F!Unlock, F!Goto, F!TypeOK
  <2>2. quiet => open /\ \A u \in F!Threads \ {t} : filePc[u] \in {"start", "done"}
    BY <2>1 DEF FileClose
  <2>3. quiet => \A u \in F!Threads : filePc'[u] \in {"start", "done"}
    BY <2>1, <2>2
  <2>4. quiet => \E c \in Closers : TRUE
    BY DEF FileClose
  <2>5. ~ open' => arrayNull
    <3>1. CASE ~ open
      BY <3>1 DEF FileClose
    <3>2. CASE t \in Closers
      BY <2>1, <3>2 DEF FileClose
    <3> QED
      BY <2>1, <3>1, <3>2
  <2>6. \A c \in Closers : filePc'[c] # "start" => arrayNull
    BY <1>0, <2>1 DEF FileClose
  <2>7. quiet => \E c \in Closers : \A u \in F!Threads :
                    filePc'[u] \in {"start", "done"} \/ u = c
    BY <2>3, <2>4
  <2>8. writeFails = 0 /\ (open' \/ quiet) => failed = {}
    BY <2>1 DEF FileClose
  <2>9. (~ open' \/ quiet => arrayNull) /\ (arrayNull => bufferedSpans = <<>>)
    BY <2>5 DEF FileClose
  <2> QED
    BY <2>1, <2>3, <2>6, <2>7, <2>8, <2>9 DEF FileClose
<1>5. ASSUME NEW t \in F!Threads, F!WriteFails(t) PROVE FileClose'
  <2>1. /\ open => writeFails' # 0
        /\ UNCHANGED <<bufferedSpans, arrayNull, filePc, open, quiet>>
    BY <1>0, <1>5 DEF F!WriteFails, F!TypeOK
  <2>2. filePc[t] = "flush" /\ (quiet => open)
    BY <1>5 DEF F!WriteFails, FileClose
  <2> QED
    BY <2>1, <2>2 DEF FileClose
<1>6. ASSUME NEW t \in F!Threads, F!Write(t) PROVE FileClose'
  BY <1>0, <1>6 DEF F!Write, FileClose, F!TypeOK
<1> QED
  BY <1>1, <1>2, <1>3, <1>4, <1>5, <1>6 DEF F!Next, F!Flush

\* They say that every accepted span is in one place, and that a quiet close
\* without failing writes leaves all of them in the file.
LEMMA FileSafe ==
    ASSUME FileInv, FilePlaces, FileClose
    PROVE  F!ExactlyOnePlace /\ F!QuietCloseWritesAll
<1>1. PICK q \in Seq(Spans) : q = bufferedSpans
  BY DEF FileInv, F!TypeOK
<1>2. PICK f \in Seq(Spans \cup {Newline}) : f = spanFile
  BY DEF FileInv, F!TypeOK
<1>3. accepted \subseteq Spans
  BY DEF FileInv, F!TypeOK
<1>4. ASSUME NEW s \in Spans
      PROVE  F!Occurrences(s) = IF s \in Range(f) THEN 1 ELSE 0
  <2>1. AtMostOnce(f, s)
    BY <1>2 DEF FilePlaces
  <2>2. Cardinality({i \in 1 .. Len(f) : f[i] = s}) = IF s \in Range(f) THEN 1 ELSE 0
    BY <2>1, CountOnce
  <2>3. F!Occurrences(s) = Cardinality({i \in 1 .. Len(f) : f[i] = s})
    BY <1>2 DEF F!Occurrences, F!Cardinality, Cardinality
  <2> QED
    BY <2>2, <2>3
<1>5. ASSUME NEW s \in Spans
      PROVE  F!Cardinality({i \in 1 .. Len(bufferedSpans) : bufferedSpans[i] = s})
                = IF s \in Range(q) THEN 1 ELSE 0
  <2>1. AtMostOnce(q, s)
    BY <1>1, DistinctOnce DEF FilePlaces
  <2>2. Cardinality({i \in 1 .. Len(q) : q[i] = s}) = IF s \in Range(q) THEN 1 ELSE 0
    BY <2>1, CountOnce
  <2>3. F!Cardinality({i \in 1 .. Len(bufferedSpans) : bufferedSpans[i] = s})
           = Cardinality({i \in 1 .. Len(q) : q[i] = s})
    BY <1>1 DEF F!Cardinality, Cardinality
  <2> QED
    BY <2>2, <2>3
<1>6. ASSUME NEW s \in Spans
      PROVE  F!Cardinality({t \in F!Threads : s \in F!Range(toFlush[t])})
                = IF \E t \in F!Threads : s \in Range(toFlush[t]) THEN 1 ELSE 0
  <2>1. PICK T : T = {t \in F!Threads : s \in F!Range(toFlush[t])}
    OBVIOUS
  <2>2. T = {t \in F!Threads : s \in Range(toFlush[t])}
    BY <2>1 DEF F!Range, Range
  <2>3. F!Cardinality(T) = Cardinality(T)
    BY DEF F!Cardinality, Cardinality
  <2>4. CASE \E t \in F!Threads : s \in Range(toFlush[t])
    <3>1. PICK t \in F!Threads : s \in Range(toFlush[t])
      BY <2>4
    <3>2. T = {t}
      BY <2>2, <3>1 DEF FilePlaces
    <3>3. Cardinality(T) = 1
      BY <3>2, FS_Singleton
    <3> QED
      BY <2>1, <2>3, <2>4, <3>3
  <2>5. CASE ~ \E t \in F!Threads : s \in Range(toFlush[t])
    <3>1. T = {}
      BY <2>2, <2>5
    <3>2. Cardinality(T) = 0
      BY <3>1, FS_EmptySet
    <3> QED
      BY <2>1, <2>3, <2>5, <3>2
  <2> QED
    BY <2>4, <2>5
<1>7. F!ExactlyOnePlace
  <2> SUFFICES ASSUME NEW s \in accepted
               PROVE  F!Cardinality({i \in 1 .. Len(bufferedSpans) : bufferedSpans[i] = s})
                      + F!Cardinality({t \in F!Threads : s \in F!Range(toFlush[t])})
                      + F!Occurrences(s) + (IF s \in failed THEN 1 ELSE 0) = 1
    BY DEF F!ExactlyOnePlace
  <2>1. s \in Spans
    BY <1>3
  <2>2. PICK a \in {0, 1} : /\ a = F!Cardinality({i \in 1 .. Len(bufferedSpans) : bufferedSpans[i] = s})
                            /\ a = IF s \in Range(q) THEN 1 ELSE 0
    BY <1>5, <2>1
  <2>3. PICK b \in {0, 1} : /\ b = F!Cardinality({t \in F!Threads : s \in F!Range(toFlush[t])})
                            /\ b = IF \E t \in F!Threads : s \in Range(toFlush[t]) THEN 1 ELSE 0
    BY <1>6, <2>1
  <2>4. PICK c \in {0, 1} : c = F!Occurrences(s) /\ c = IF s \in Range(f) THEN 1 ELSE 0
    BY <1>4, <2>1
  <2>5. /\ s \in Range(q) => /\ s \notin Range(f) /\ s \notin failed
                             /\ ~ \E t \in F!Threads : s \in Range(toFlush[t])
        /\ (\E t \in F!Threads : s \in Range(toFlush[t])) => s \notin Range(f) /\ s \notin failed
        /\ s \in failed => s \notin Range(f)
        /\ \/ s \in Range(q) \/ s \in Range(f) \/ s \in failed
           \/ \E t \in F!Threads : s \in Range(toFlush[t])
    BY <1>1, <1>2 DEF FilePlaces
  <2>6. a + b + c + (IF s \in failed THEN 1 ELSE 0) = 1
    BY <2>2, <2>3, <2>4, <2>5
  <2> QED
    BY <2>2, <2>3, <2>4, <2>6
<1>8. F!QuietCloseWritesAll
  <2> SUFFICES ASSUME ~ open, quiet, writeFails = 0, NEW s \in accepted
               PROVE  F!Occurrences(s) = 1
    BY DEF F!QuietCloseWritesAll
  <2>1. s \in Spans
    BY <1>3
  <2>2. Range(bufferedSpans) = {} /\ failed = {}
    BY RangeEmpty DEF FileClose
  <2>3. \A t \in F!Threads : toFlush[t] = <<>>
    BY DEF FileInv, FileClose
  <2>4. s \in Range(f)
    BY <1>2, <2>2, <2>3, RangeEmpty DEF FilePlaces
  <2> QED
    BY <1>4, <2>1, <2>4
<1> QED
  BY <1>7, <1>8

-----------------------------------------------------------------------------
\* The file of the local file receiver.

\* A flush: the batch as it was taken, what is left of it, where its thread
\* stands, and the file.  What is left is the end of the batch, and the rest is in
\* the file; while the thread writes, nobody else writes behind it.
OneFlush(all, left, label, lines) ==
    /\ NoRepeats(all) /\ Len(left) <= Len(all)
    /\ \A i \in 1 .. Len(left) : left[i] = all[Len(all) - Len(left) + i]
    /\ left # <<>> => \A m \in 1 .. Len(all) - Len(left) : all[m] \in Range(lines)
    /\ label = "start" => all = <<>>
    /\ label = "lock" => Range(all) \cap Range(lines) = {}
    /\ label = "flush" => \A i, k \in 1 .. Len(lines) :
          i <= k /\ lines[i] \in Range(all) => lines[k] \in Range(all) \cup {Newline}
    /\ F!Consecutive(all, lines) /\ F!InOrder(all, lines)

\* The batches share no span, neither with one another nor with the array, and
\* one thread flushes at a time.
FileFlushes ==
    \A t \in F!Threads :
        /\ OneFlush(taken[t], toFlush[t], filePc[t], spanFile)
        /\ Range(taken[t]) \subseteq accepted
        /\ Range(taken[t]) \cap Range(bufferedSpans) = {}
        /\ \A u \in F!Threads : u # t => Range(taken[t]) \cap Range(taken[u]) = {}
        /\ filePc[t] = "flush" => channelLock = t

\* One write keeps the order of its buffers.
LEMMA LinesOrder ==
    ASSUME NEW bufs \in Seq(Spans), NoRepeats(bufs), newlineLeft \in BOOLEAN
    PROVE  \A a, b \in 1 .. Len(bufs) : \A j \in 1 .. Len(F!Lines(bufs)) :
              a < b /\ F!Lines(bufs)[j] = bufs[b] =>
                  \E i \in 1 .. j - 1 : F!Lines(bufs)[i] = bufs[a]
<1>0. Newline \notin Spans /\ Len(bufs) \in Nat
  BY ClientsAssumption
<1>1. CASE ~ newlineLeft
  <2>1. F!Lines(bufs) = bufs
    BY <1>1 DEF F!Lines
  <2>2. ASSUME NEW a \in 1 .. Len(bufs), NEW b \in 1 .. Len(bufs), NEW j \in 1 .. Len(bufs),
               a < b, bufs[j] = bufs[b]
        PROVE  \E i \in 1 .. j - 1 : bufs[i] = bufs[a]
    <3>1. j = b
      BY <2>2 DEF NoRepeats
    <3>2. a \in 1 .. j - 1
      BY <1>0, <2>2, <3>1
    <3> QED
      BY <3>2
  <2> QED
    BY <2>1, <2>2
<1>2. CASE newlineLeft
  <2>1. PICK L : L = [i \in 1 .. 2 * Len(bufs) |->
                        IF i % 2 = 1 THEN bufs[(i + 1) \div 2] ELSE Newline]
    OBVIOUS
  <2>2. F!Lines(bufs) = L /\ Len(L) = 2 * Len(bufs) /\ 2 * Len(bufs) \in Nat
    BY <1>0, <1>2, <2>1 DEF F!Lines
  <2>3. \A i \in 1 .. 2 * Len(bufs) :
           L[i] = IF i % 2 = 1 THEN bufs[(i + 1) \div 2] ELSE Newline
    BY <2>1
  <2>4. ASSUME NEW a \in 1 .. Len(bufs), NEW b \in 1 .. Len(bufs),
               NEW j \in 1 .. 2 * Len(bufs), a < b, L[j] = bufs[b]
        PROVE  \E i \in 1 .. j - 1 : L[i] = bufs[a]
    <3>1. j % 2 = 1
      BY <1>0, <2>3, <2>4
    <3>2. (j + 1) \div 2 \in 1 .. Len(bufs) /\ 2 * ((j + 1) \div 2) = j + 1
      BY <1>0, <3>1
    <3>3. bufs[(j + 1) \div 2] = bufs[b]
      BY <2>3, <2>4, <3>1
    <3>4. (j + 1) \div 2 = b
      BY <3>2, <3>3 DEF NoRepeats
    <3>5. j = 2 * b - 1
      BY <3>2, <3>4
    <3>6. /\ 2 * a - 1 \in 1 .. j - 1 /\ 2 * a - 1 \in 1 .. 2 * Len(bufs)
          /\ (2 * a - 1) % 2 = 1 /\ ((2 * a - 1) + 1) \div 2 = a
      BY <1>0, <2>4, <3>5
    <3>7. L[2 * a - 1] = bufs[a]
      BY <2>3, <3>6
    <3> QED
      BY <3>6, <3>7
  <2> QED
    BY <2>2, <2>4
<1> QED
  BY <1>1, <1>2

\* What a concatenation holds, and where.
Joined(f, L, g) ==
    /\ g = f \o L /\ Range(g) = Range(f) \cup Range(L)
    /\ Len(f) \in Nat /\ Len(L) \in Nat /\ Len(g) = Len(f) + Len(L)
    /\ \A i \in 1 .. Len(f) : i \in 1 .. Len(g) /\ g[i] = f[i]
    /\ \A i \in 1 .. Len(L) : Len(f) + i \in 1 .. Len(g) /\ g[Len(f) + i] = L[i]
    /\ \A i \in 1 .. Len(g) : i \notin 1 .. Len(f) =>
          i > Len(f) /\ i - Len(f) \in 1 .. Len(L) /\ g[i] = L[i - Len(f)]

\* Every concatenation is so.
LEMMA ConcatFacts ==
    ASSUME NEW S, NEW f \in Seq(S), NEW L \in Seq(S)
    PROVE  \E g \in Seq(S) : Joined(f, L, g)
<1>1. PICK g : g = f \o L
  OBVIOUS
<1>2. /\ g \in Seq(S) /\ Len(f) \in Nat /\ Len(L) \in Nat /\ Len(g) = Len(f) + Len(L)
      /\ \A i \in 1 .. Len(f) + Len(L) : g[i] = IF i <= Len(f) THEN f[i] ELSE L[i - Len(f)]
  BY <1>1, ConcatProperties
<1>3. Range(g) = Range(f) \cup Range(L)
  BY <1>1, RangeConcatenation
<1>4. \A i \in 1 .. Len(f) : i \in 1 .. Len(g) /\ g[i] = f[i]
  BY <1>2
<1>5. ASSUME NEW i \in 1 .. Len(L)
      PROVE  Len(f) + i \in 1 .. Len(g) /\ g[Len(f) + i] = L[i]
  <2>1. Len(f) + i \in 1 .. Len(g) /\ ~ (Len(f) + i <= Len(f)) /\ (Len(f) + i) - Len(f) = i
    BY <1>2
  <2> QED
    BY <1>2, <2>1
<1>6. ASSUME NEW i \in 1 .. Len(g), i \notin 1 .. Len(f)
      PROVE  i > Len(f) /\ i - Len(f) \in 1 .. Len(L) /\ g[i] = L[i - Len(f)]
  BY <1>2, <1>6
<1> QED
  BY <1>1, <1>2, <1>3, <1>4, <1>5, <1>6 DEF Joined

\* A batch that was just taken is not in the file yet.
LEMMA NewFlush ==
    ASSUME NEW q \in Seq(Spans), NoRepeats(q), NEW f \in Seq(Spans \cup {Newline}),
           Range(q) \cap Range(f) = {}
    PROVE  OneFlush(q, q, "lock", f)
<1>1. \A g : F!Range(g) = Range(g)
  BY DEF F!Range, Range
<1>2. /\ Range(q) = {q[i] : i \in 1 .. Len(q)} /\ Range(f) = {f[i] : i \in 1 .. Len(f)}
      /\ Len(q) \in Nat
  BY RangeEquality
<1>3. F!Consecutive(q, f)
  BY <1>1, <1>2 DEF F!Consecutive
<1>4. F!InOrder(q, f)
  BY <1>2 DEF F!InOrder
<1>5. /\ Len(q) <= Len(q) /\ \A i \in 1 .. Len(q) : q[i] = q[Len(q) - Len(q) + i]
      /\ 1 .. Len(q) - Len(q) = {}
  BY <1>2
<1> QED
  BY <1>3, <1>4, <1>5 DEF OneFlush

\* The write of another flush does not touch a flush that is not writing.
LEMMA ForeignWrite ==
    ASSUME NEW all \in Seq(Spans), NEW left \in Seq(Spans), NEW label, label # "flush",
           NEW f \in Seq(Spans \cup {Newline}), NEW L \in Seq(Spans \cup {Newline}),
           OneFlush(all, left, label, f), Range(all) \cap Range(L) = {}
    PROVE  OneFlush(all, left, label, f \o L)
<1>1. \A g : F!Range(g) = Range(g)
  BY DEF F!Range, Range
<1>2. PICK g \in Seq(Spans \cup {Newline}) : Joined(f, L, g)
  BY ConcatFacts
<1>3. \A i \in 1 .. Len(g) : i \in 1 .. Len(f) \/ g[i] \in Range(L)
  <2>1. Range(L) = {L[i] : i \in 1 .. Len(L)}
    BY RangeEquality
  <2> QED
    BY <1>2, <2>1 DEF Joined
<1>4. \A i \in 1 .. Len(g) : g[i] \in Range(all) => i \in 1 .. Len(f) /\ g[i] = f[i]
  BY <1>2, <1>3 DEF Joined
<1>5. Range(all) = {all[i] : i \in 1 .. Len(all)}
  BY RangeEquality
<1>6. F!Consecutive(all, g)
  <2> SUFFICES ASSUME NEW i \in 1 .. Len(g), NEW j \in 1 .. Len(g), i < j,
                      g[i] \in Range(all), g[j] \in Range(all), NEW k \in i .. j
               PROVE  g[k] \in Range(all) \cup {Newline}
    BY <1>1 DEF F!Consecutive
  <2>1. /\ i \in 1 .. Len(f) /\ j \in 1 .. Len(f) /\ g[i] = f[i] /\ g[j] = f[j]
    BY <1>4
  <2>2. k \in 1 .. Len(f)
    BY <1>2, <2>1 DEF Joined
  <2>3. {f[i], f[j]} \subseteq F!Range(all)
    BY <1>1, <2>1
  <2>4. f[k] \in Range(all) \cup {Newline}
    BY <1>1, <2>1, <2>3 DEF OneFlush, F!Consecutive
  <2> QED
    BY <1>2, <2>2, <2>4 DEF Joined
<1>7. F!InOrder(all, g)
  <2> SUFFICES ASSUME NEW m \in 1 .. Len(all), NEW n \in 1 .. Len(all), NEW j \in 1 .. Len(g),
                      m < n, g[j] = all[n]
               PROVE  \E i \in 1 .. j - 1 : g[i] = all[m]
    BY DEF F!InOrder
  <2>1. j \in 1 .. Len(f) /\ f[j] = all[n]
    BY <1>4, <1>5
  <2>2. PICK i \in 1 .. j - 1 : f[i] = all[m]
    BY <2>1 DEF OneFlush, F!InOrder
  <2>3. i \in 1 .. Len(f)
    BY <1>2, <2>1 DEF Joined
  <2> QED
    BY <1>2, <2>2, <2>3 DEF Joined
<1> QED
  BY <1>2, <1>6, <1>7 DEF OneFlush, Joined

\* A write appends the next spans of its own batch, in their order.
LEMMA OwnWrite ==
    ASSUME NEW all \in Seq(Spans), NEW left \in Seq(Spans), NEW n \in 0 .. Len(left),
           NEW v \in Seq(Spans), Len(v) = Len(left) - n,
           \A i \in 1 .. Len(v) : v[i] = left[i + n],
           NEW f \in Seq(Spans \cup {Newline}), NEW L \in Seq(Spans \cup {Newline}),
           OneFlush(all, left, "flush", f), left # <<>>,
           \A i \in 1 .. Len(L) : L[i] = Newline \/ \E a \in 1 .. n : L[i] = left[a],
           \A a \in 1 .. n : left[a] \in Range(L),
           \A a, b \in 1 .. n : \A j \in 1 .. Len(L) :
              a < b /\ L[j] = left[b] => \E i \in 1 .. j - 1 : L[i] = left[a]
    PROVE  OneFlush(all, v, "flush", f \o L)
<1>1. \A h : F!Range(h) = Range(h)
  BY DEF F!Range, Range
<1>2. PICK p \in Nat : p = Len(all) - Len(left) /\ Len(all) \in Nat /\ Len(left) \in Nat
  <2>1. Len(all) \in Nat /\ Len(left) \in Nat
    OBVIOUS
  <2>2. Len(left) <= Len(all)
    BY DEF OneFlush
  <2>3. \A a, b \in Nat : b <= a => a - b \in Nat
    OBVIOUS
  <2>4. Len(all) - Len(left) \in Nat
    BY <2>1, <2>2, <2>3, Zenon
  <2> QED
    BY <2>1, <2>4, Zenon
<1>3. /\ NoRepeats(all) /\ \A i \in 1 .. Len(left) : left[i] = all[p + i]
      /\ \A m \in 1 .. p : all[m] \in Range(f)
      /\ \A i, k \in 1 .. Len(f) :
            i <= k /\ f[i] \in Range(all) => f[k] \in Range(all) \cup {Newline}
      /\ F!InOrder(all, f)
  BY <1>2 DEF OneFlush
<1>4. Range(all) = {all[i] : i \in 1 .. Len(all)} /\ Range(f) = {f[i] : i \in 1 .. Len(f)}
  BY RangeEquality
<1>5. PICK g \in Seq(Spans \cup {Newline}) : Joined(f, L, g)
  BY ConcatFacts
<1>6. Newline \notin Spans
  BY ClientsAssumption
<1>7. /\ n \in Nat /\ n <= Len(left) /\ Len(v) \in Nat /\ Len(all) - Len(v) = p + n
      /\ \A a \in 1 .. n : p + a \in 1 .. Len(all) /\ left[a] = all[p + a]
  BY <1>2, <1>3
<1>8. /\ Len(v) <= Len(all) /\ \A i \in 1 .. Len(v) : v[i] = all[Len(all) - Len(v) + i]
  <2>1. \A i \in 1 .. Len(v) : /\ i + n \in 1 .. Len(left)
                               /\ p + (i + n) = Len(all) - Len(v) + i
    BY <1>2, <1>7
  <2>2. Len(v) <= Len(all)
    BY <1>2, <1>7
  <2> QED
    BY <1>3, <2>1, <2>2
<1>9. \A m \in 1 .. Len(all) - Len(v) : all[m] \in Range(g)
  <2> SUFFICES ASSUME NEW m \in 1 .. p + n PROVE all[m] \in Range(f) \cup Range(L)
    BY <1>5, <1>7 DEF Joined
  <2>1. CASE m <= p
    BY <1>2, <1>3, <2>1
  <2>2. CASE m > p
    <3>1. m - p \in 1 .. n /\ p + (m - p) = m
      BY <1>2, <1>7, <2>2
    <3> QED
      BY <1>7, <3>1
  <2> QED
    BY <1>2, <1>7, <2>1, <2>2
<1>10. \A i \in 1 .. Len(L) : L[i] \in Range(all) \cup {Newline}
  <2>1. \A a \in 1 .. n : left[a] \in Range(all)
    BY <1>4, <1>7
  <2> QED
    BY <2>1
<1>11. ASSUME NEW i \in 1 .. Len(g), NEW k \in 1 .. Len(g), i <= k, g[i] \in Range(all)
       PROVE  g[k] \in Range(all) \cup {Newline}
  <2>1. CASE k \in 1 .. Len(f)
    <3>1. i \in 1 .. Len(f)
      BY <1>5, <1>11, <2>1 DEF Joined
    <3> QED
      BY <1>3, <1>5, <1>11, <2>1, <3>1 DEF Joined
  <2>2. CASE k \notin 1 .. Len(f)
    <3>1. k - Len(f) \in 1 .. Len(L) /\ g[k] = L[k - Len(f)]
      BY <1>5, <2>2 DEF Joined
    <3> QED
      BY <1>10, <3>1
  <2> QED
    BY <2>1, <2>2
<1>12. F!Consecutive(all, g)
  <2> SUFFICES ASSUME NEW i \in 1 .. Len(g), NEW j \in 1 .. Len(g), i < j,
                      g[i] \in Range(all), NEW k \in i .. j
               PROVE  g[k] \in Range(all) \cup {Newline}
    BY <1>1 DEF F!Consecutive
  <2>1. k \in 1 .. Len(g) /\ i <= k
    BY <1>5 DEF Joined
  <2> QED
    BY <1>11, <2>1
<1>13. F!InOrder(all, g)
  <2> SUFFICES ASSUME NEW m \in 1 .. Len(all), NEW o \in 1 .. Len(all), NEW j \in 1 .. Len(g),
                      m < o, g[j] = all[o]
               PROVE  \E i \in 1 .. j - 1 : g[i] = all[m]
    BY DEF F!InOrder
  <2>1. CASE j \in 1 .. Len(f)
    <3>1. PICK i \in 1 .. j - 1 : f[i] = all[m]
      BY <1>3, <1>5, <2>1 DEF F!InOrder, Joined
    <3>2. i \in 1 .. Len(f)
      BY <1>5, <2>1 DEF Joined
    <3> QED
      BY <1>5, <3>1, <3>2 DEF Joined
  <2>2. CASE j \notin 1 .. Len(f)
    <3>1. PICK k \in 1 .. Len(L) : k = j - Len(f) /\ g[j] = L[k] /\ j > Len(f)
      BY <1>5, <2>2 DEF Joined
    <3>2. all[o] \in Spans
      OBVIOUS
    <3>3. PICK b \in 1 .. n : L[k] = left[b]
      BY <1>6, <3>1, <3>2
    <3>4. o = p + b
      <4>1. p + b \in 1 .. Len(all) /\ all[o] = all[p + b]
        BY <1>7, <3>1, <3>3
      <4> QED
        BY <1>3, <4>1 DEF NoRepeats
    <3>5. CASE m <= p
      <4>1. PICK i \in 1 .. Len(f) : f[i] = all[m]
        <5>1. m \in 1 .. p
          BY <1>2, <3>5
        <5>2. all[m] \in Range(f)
          BY <1>3, <5>1
        <5> QED
          BY <1>4, <5>2
      <4>2. i \in 1 .. j - 1
        BY <1>5, <3>1 DEF Joined
      <4> QED
        BY <1>5, <4>1, <4>2 DEF Joined
    <3>6. CASE m > p
      <4>1. PICK a \in 1 .. n : a = m - p /\ a < b /\ p + a = m
        <5>1. m \in Int /\ b \in Int /\ n \in Int /\ b <= n /\ m < p + b
          BY <1>7, <3>4
        <5>2. m - p \in 1 .. n /\ m - p < b /\ p + (m - p) = m
          BY <1>2, <3>6, <5>1
        <5> QED
          BY <5>2
      <4>2. left[a] = all[m]
        BY <1>7, <4>1
      <4>3. PICK i \in 1 .. k - 1 : L[i] = left[a]
        BY <3>3, <4>1
      <4>4. i \in 1 .. Len(L) /\ Len(f) + i \in 1 .. j - 1
        BY <1>5, <3>1 DEF Joined
      <4> QED
        <5>1. g[Len(f) + i] = L[i]
          BY <1>5, <4>4 DEF Joined
        <5> QED
          BY <4>2, <4>3, <4>4, <5>1
    <3> QED
      BY <1>2, <3>5, <3>6
  <2> QED
    BY <2>1, <2>2
<1>14. OneFlush(all, v, "flush", g)
  BY <1>3, <1>8, <1>9, <1>11, <1>12, <1>13 DEF OneFlush
<1> QED
  BY <1>5, <1>14 DEF Joined

\* What is left of a batch is part of it.
LEMMA LeftOfBatch ==
    ASSUME NEW all \in Seq(Spans), NEW left \in Seq(Spans), NEW label, NEW f,
           OneFlush(all, left, label, f)
    PROVE  Range(left) \subseteq Range(all)
<1>1. /\ Range(all) = {all[i] : i \in 1 .. Len(all)} /\ Range(left) = {left[i] : i \in 1 .. Len(left)}
      /\ Len(all) \in Nat /\ Len(left) \in Nat
  BY RangeEquality
<1>2. /\ Len(left) <= Len(all)
      /\ \A i \in 1 .. Len(left) : left[i] = all[Len(all) - Len(left) + i]
  BY DEF OneFlush
<1>3. \A i \in 1 .. Len(left) : Len(all) - Len(left) + i \in 1 .. Len(all)
  BY <1>1, <1>2
<1> QED
  BY <1>1, <1>2, <1>3

\* A write of LocalFileReceiver is a write of its own batch.
LEMMA WriteOrder ==
    ASSUME FileInv, FilePlaces, NEW t \in F!Threads, F!Write(t),
           OneFlush(taken[t], toFlush[t], "flush", spanFile)
    PROVE  \E v \in Seq(Spans), L \in Seq(Spans \cup {Newline}) :
              /\ toFlush' = [toFlush EXCEPT ![t] = v] /\ spanFile' = spanFile \o L
              /\ Range(L) \ {Newline} \subseteq Range(taken[t])
              /\ OneFlush(taken[t], v, "flush", spanFile \o L)
<1>1. /\ WriteV \in Nat \ {0} /\ newlineLeft \in BOOLEAN /\ toFlush[t] # <<>>
      /\ Newline \notin Spans
  BY ClientsAssumption DEF FileInv, F!TypeOK, F!Write
<1>2. PICK q \in Seq(Spans), all \in Seq(Spans), f \in Seq(Spans \cup {Newline}) :
         q = toFlush[t] /\ NoRepeats(q) /\ all = taken[t] /\ f = spanFile
  BY DEF FileInv, F!TypeOK, FilePlaces
<1>3. PICK n \in 0 .. Len(q) : n = F!BatchLen(t)
  BY <1>1, <1>2 DEF F!BatchLen
<1>4. PICK u \in Seq(Spans) :
         u = SubSeq(q, 1, n) /\ Len(u) = n /\ \A i \in 1 .. n : u[i] = q[i]
  <2>1. SubSeq(q, 1, n) \in Seq(Spans) /\ Len(SubSeq(q, 1, n)) = n
    BY RangeSplit
  <2>2. \A i \in 1 .. n : SubSeq(q, 1, n)[i] = q[i]
    OBVIOUS
  <2> QED
    BY <2>1, <2>2, Zenon
<1>5. PICK v \in Seq(Spans) :
         /\ v = SubSeq(q, n + 1, Len(q)) /\ Len(v) = Len(q) - n
         /\ \A i \in 1 .. Len(v) : v[i] = q[i + n]
  <2>1. PICK w \in Seq(Spans) : w = SubSeq(q, n + 1, Len(q)) /\ Len(w) = Len(q) - n
    <3>1. SubSeq(q, n + 1, Len(q)) \in Seq(Spans) /\ Len(SubSeq(q, n + 1, Len(q))) = Len(q) - n
      BY RangeSplit
    <3> QED
      BY <3>1, Zenon
  <2>2. \A i \in 1 .. Len(q) - n : w[i] = q[i + n]
    BY <2>1
  <2> QED
    BY <2>1, <2>2
<1>6. Range(q) = Range(u) \cup Range(v) /\ NoRepeats(u)
  BY <1>2, <1>4, <1>5, RangeSplit, DistinctSplit
<1>7. PICK L \in Seq(Spans \cup {Newline}) :
         /\ L = F!Lines(u) /\ Range(L) \ {Newline} = Range(u)
         /\ \A a, b \in 1 .. Len(u) : \A j \in 1 .. Len(L) :
              a < b /\ L[j] = u[b] => \E i \in 1 .. j - 1 : L[i] = u[a]
  BY <1>1, <1>6, LinesFacts, LinesOrder
<1>8. /\ spanFile' = spanFile \o F!Lines(SubSeq(toFlush[t], 1, F!BatchLen(t)))
      /\ toFlush' = [toFlush EXCEPT ![t] = SubSeq(toFlush[t], F!BatchLen(t) + 1, Len(toFlush[t]))]
  BY DEF F!Write
<1>9. spanFile' = spanFile \o L /\ toFlush' = [toFlush EXCEPT ![t] = v]
  BY <1>2, <1>3, <1>4, <1>5, <1>7, <1>8, Zenon
<1>10. Range(u) = {u[i] : i \in 1 .. Len(u)} /\ Range(L) = {L[i] : i \in 1 .. Len(L)}
  BY RangeEquality
<1>11. \A i \in 1 .. Len(L) : L[i] = Newline \/ \E a \in 1 .. n : L[i] = q[a]
  <2>1. \A x \in Range(u) : \E a \in 1 .. n : x = q[a]
    BY <1>4, <1>10
  <2>2. \A i \in 1 .. Len(L) : L[i] = Newline \/ L[i] \in Range(u)
    BY <1>7, <1>10
  <2> QED
    BY <2>1, <2>2
<1>12. \A a \in 1 .. n : q[a] \in Range(L)
  BY <1>4, <1>7, <1>10
<1>13. \A a, b \in 1 .. n : \A j \in 1 .. Len(L) :
          a < b /\ L[j] = q[b] => \E i \in 1 .. j - 1 : L[i] = q[a]
  BY <1>4, <1>7
<1>14. OneFlush(all, q, "flush", f) /\ q # <<>>
  BY <1>1, <1>2
<1>15. OneFlush(all, v, "flush", f \o L)
  BY <1>5, <1>11, <1>12, <1>13, <1>14, OwnWrite
<1>16. Range(L) \ {Newline} \subseteq Range(all)
  BY <1>6, <1>7, <1>14, LeftOfBatch
<1> QED
  BY <1>2, <1>9, <1>15, <1>16, Zenon

\* The initial states.
LEMMA FlushesInit == F!Init => FileFlushes
<1> SUFFICES ASSUME F!Init, NEW t \in F!Threads
             PROVE  /\ OneFlush(taken[t], toFlush[t], filePc[t], spanFile)
                    /\ Range(taken[t]) = {} /\ filePc[t] # "flush"
  BY DEF FileFlushes
<1>1. taken[t] = <<>> /\ toFlush[t] = <<>> /\ filePc[t] = "start" /\ spanFile = <<>>
  BY DEF F!Init
<1>2. F!Consecutive(<<>>, <<>>) /\ F!InOrder(<<>>, <<>>) /\ NoRepeats(<<>>)
  BY DEF F!Consecutive, F!InOrder, NoRepeats
<1>3. OneFlush(<<>>, <<>>, "start", <<>>)
  BY <1>2 DEF OneFlush
<1> QED
  BY <1>1, <1>3, RangeEmpty

\* A thread takes the array, with or without a span of its own, as its batch.
LEMMA FlushTaken ==
    ASSUME FileInv, FilePlaces, FileFlushes, NEW t \in F!Threads, filePc[t] = "start",
           NEW q \in Seq(Spans), NoRepeats(q), Range(q) \cap Range(spanFile) = {},
           Range(q) \subseteq accepted',
           \A u \in F!Threads : Range(q) \cap Range(taken[u]) = {},
           toFlush' = [toFlush EXCEPT ![t] = q], taken' = [taken EXCEPT ![t] = q],
           filePc' = [filePc EXCEPT ![t] = "lock"], bufferedSpans' = <<>>,
           accepted \subseteq accepted', UNCHANGED <<channelLock, spanFile>>
    PROVE  FileFlushes'
<1>1. /\ toFlush'[t] = q /\ taken'[t] = q /\ filePc'[t] = "lock"
      /\ \A u \in F!Threads \ {t} : /\ toFlush'[u] = toFlush[u] /\ taken'[u] = taken[u]
                                     /\ filePc'[u] = filePc[u]
  BY DEF FileInv, F!TypeOK
<1>2. OneFlush(q, q, "lock", spanFile)
  BY NewFlush DEF FileInv, F!TypeOK
<1>3. Range(bufferedSpans') = {}
  BY RangeEmpty
<1> SUFFICES ASSUME NEW u \in F!Threads
             PROVE  /\ OneFlush(taken'[u], toFlush'[u], filePc'[u], spanFile')
                    /\ Range(taken'[u]) \subseteq accepted'
                    /\ Range(taken'[u]) \cap Range(bufferedSpans') = {}
                    /\ \A w \in F!Threads : w # u => Range(taken'[u]) \cap Range(taken'[w]) = {}
                    /\ filePc'[u] = "flush" => channelLock' = u
  BY Zenon DEF FileFlushes, F!Threads
<1>4. CASE u = t
  BY <1>1, <1>2, <1>3, <1>4
<1>5. CASE u # t
  BY <1>1, <1>3, <1>5 DEF FileFlushes
<1> QED
  BY <1>4, <1>5

\* A thread goes on without a change of its batch.
LEMMA FlushMoves ==
    ASSUME FileFlushes, NEW t \in F!Threads, NEW label,
           OneFlush(taken[t], toFlush[t], label, spanFile),
           \A u \in F!Threads : filePc'[u] = IF u = t THEN label ELSE filePc[u],
           \A u \in F!Threads : filePc'[u] = "flush" => channelLock' = u,
           \A u \in F!Threads : Range(taken[u]) \cap Range(bufferedSpans') = {},
           accepted \subseteq accepted', UNCHANGED <<toFlush, taken, spanFile>>
    PROVE  FileFlushes'
<1> SUFFICES ASSUME NEW u \in F!Threads
             PROVE  /\ OneFlush(taken'[u], toFlush'[u], filePc'[u], spanFile')
                    /\ Range(taken'[u]) \subseteq accepted'
                    /\ Range(taken'[u]) \cap Range(bufferedSpans') = {}
                    /\ \A w \in F!Threads : w # u => Range(taken'[u]) \cap Range(taken'[w]) = {}
                    /\ filePc'[u] = "flush" => channelLock' = u
  BY Zenon DEF FileFlushes, F!Threads
<1>1. /\ OneFlush(taken[u], toFlush[u], filePc[u], spanFile) /\ Range(taken[u]) \subseteq accepted
      /\ \A w \in F!Threads : w # u => Range(taken[u]) \cap Range(taken[w]) = {}
  BY DEF FileFlushes
<1>2. OneFlush(taken[u], toFlush[u], filePc'[u], spanFile)
  BY <1>1
<1> QED
  BY <1>1, <1>2

\* Every step keeps the batches apart and in order.
LEMMA FlushesStep ==
    ASSUME FileInv, FilePlaces, FileFlushes, F!Next
    PROVE  FileFlushes'
<1>0. /\ F!TypeOK /\ Spans \subseteq F!Threads /\ Closers \subseteq F!Threads
      /\ Newline \notin Spans /\ NoOne \notin F!Threads
  BY ClientsAssumption DEF FileInv, F!Threads
<1>1. \A t \in F!Threads : /\ taken[t] \in Seq(Spans) /\ toFlush[t] \in Seq(Spans)
                           /\ Range(taken[t]) \subseteq Spans
  BY <1>0, RangeType DEF F!TypeOK
<1>2. PICK q \in Seq(Spans) : q = bufferedSpans /\ NoRepeats(q)
  BY <1>0 DEF F!TypeOK, FilePlaces
<1>3. /\ Range(q) \cap Range(spanFile) = {} /\ Range(q) \subseteq accepted
      /\ \A t \in F!Threads : Range(q) \cap Range(taken[t]) = {}
  BY <1>2 DEF FilePlaces, FileFlushes
<1>4. ASSUME NEW s \in Spans, F!Receive(s) PROVE FileFlushes'
  <2>1. PICK r \in Seq(Spans) : r = Append(q, s) /\ Range(r) = Range(q) \cup {s}
    BY RangeAppend
  <2>2. UNCHANGED <<spanFile, channelLock>> /\ filePc[s] = "start" /\ s \notin accepted
    BY <1>4 DEF F!Receive, FileInv
  <2>3. /\ s \notin Range(q) /\ s \notin Range(spanFile) /\ s \in F!Threads
        /\ \A t \in F!Threads : s \notin Range(taken[t])
    BY <1>0, <1>3, <2>2 DEF FilePlaces, FileFlushes
  <2>4. NoRepeats(r)
    BY <1>2, <2>1, <2>3, DistinctAppend
  <2>a. \A label : \A u \in F!Threads :
           filePc' = [filePc EXCEPT ![s] = label] => filePc'[u] = IF u = s THEN label ELSE filePc[u]
    BY <1>0, <2>3 DEF F!TypeOK
  <2>b. OneFlush(taken[s], toFlush[s], "done", spanFile)
    <3>1. OneFlush(taken[s], toFlush[s], "start", spanFile)
      BY <2>2, <2>3 DEF FileFlushes
    <3> QED
      BY <3>1 DEF OneFlush
  <2>c. \A u \in F!Threads : filePc[u] = "flush" => channelLock = u
    BY DEF FileFlushes
  <2>5. CASE arrayNull
    <3>1. /\ UNCHANGED <<bufferedSpans, toFlush, taken, accepted>>
          /\ filePc' = [filePc EXCEPT ![s] = "done"]
      BY <1>4, <2>5 DEF F!Receive, F!Goto
    <3>2. \A u \in F!Threads : Range(taken[u]) \cap Range(bufferedSpans') = {}
      BY <1>2, <1>3, <3>1
    <3>3. \A u \in F!Threads : filePc'[u] = "flush" => channelLock' = u
      BY <2>2, <2>a, <2>c, <3>1
    <3>4. \A u \in F!Threads : filePc'[u] = IF u = s THEN "done" ELSE filePc[u]
      BY <2>a, <3>1
    <3>5. accepted \subseteq accepted' /\ UNCHANGED <<toFlush, taken, spanFile>>
      BY <2>2, <3>1
    <3> QED
      BY <2>3, <2>b, <3>2, <3>3, <3>4, <3>5, FlushMoves
  <2>6. CASE ~ arrayNull /\ Len(q) + 1 = array
    <3>1. /\ toFlush' = [toFlush EXCEPT ![s] = r] /\ taken' = [taken EXCEPT ![s] = r]
          /\ filePc' = [filePc EXCEPT ![s] = "lock"]
          /\ bufferedSpans' = <<>> /\ accepted' = accepted \cup {s}
      BY <1>2, <1>4, <2>1, <2>6 DEF F!Receive, F!Goto
    <3>2. /\ Range(r) \cap Range(spanFile) = {} /\ Range(r) \subseteq accepted'
          /\ \A u \in F!Threads : Range(r) \cap Range(taken[u]) = {}
      BY <1>3, <2>1, <2>3, <3>1
    <3> QED
      BY <2>2, <2>3, <2>4, <3>1, <3>2, FlushTaken
  <2>7. CASE ~ arrayNull /\ Len(q) + 1 # array
    <3>1. /\ bufferedSpans' = r /\ accepted' = accepted \cup {s} /\ UNCHANGED <<toFlush, taken>>
          /\ filePc' = [filePc EXCEPT ![s] = "done"]
      BY <1>2, <1>4, <2>1, <2>7 DEF F!Receive, F!Goto
    <3>2. \A u \in F!Threads : Range(taken[u]) \cap Range(bufferedSpans') = {}
      BY <1>3, <2>1, <2>3, <3>1
    <3>3. \A u \in F!Threads : filePc'[u] = "flush" => channelLock' = u
      BY <2>2, <2>a, <2>c, <3>1
    <3>4. \A u \in F!Threads : filePc'[u] = IF u = s THEN "done" ELSE filePc[u]
      BY <2>a, <3>1
    <3>5. accepted \subseteq accepted' /\ UNCHANGED <<toFlush, taken, spanFile>>
      BY <2>2, <3>1
    <3> QED
      BY <2>3, <2>b, <3>2, <3>3, <3>4, <3>5, FlushMoves
  <2> QED
    BY <2>5, <2>6, <2>7
<1>5. ASSUME NEW t \in Closers, F!BeginClose(t) PROVE FileFlushes'
  <2>1. UNCHANGED <<spanFile, channelLock, accepted>> /\ filePc[t] = "start" /\ t \in F!Threads
    BY <1>0, <1>5 DEF F!BeginClose
  <2>2. CASE arrayNull
    <3>1. UNCHANGED <<bufferedSpans, toFlush, taken>> /\ filePc' = [filePc EXCEPT ![t] = "done"]
      BY <1>5, <2>2 DEF F!BeginClose, F!Goto
    <3>2. \A u \in F!Threads : filePc'[u] = IF u = t THEN "done" ELSE filePc[u]
      BY <1>0, <2>1, <3>1 DEF F!TypeOK
    <3>3. OneFlush(taken[t], toFlush[t], "done", spanFile)
      <4>1. OneFlush(taken[t], toFlush[t], "start", spanFile)
        BY <2>1 DEF FileFlushes
      <4> QED
        BY <4>1 DEF OneFlush
    <3>4. \A u \in F!Threads : Range(taken[u]) \cap Range(bufferedSpans') = {}
      BY <1>2, <1>3, <3>1
    <3>5. \A u \in F!Threads : filePc'[u] = "flush" => channelLock' = u
      BY <2>1, <3>2 DEF FileFlushes
    <3> QED
      BY <2>1, <3>1, <3>2, <3>3, <3>4, <3>5, FlushMoves
  <2>3. CASE ~ arrayNull
    <3>1. /\ toFlush' = [toFlush EXCEPT ![t] = q] /\ taken' = [taken EXCEPT ![t] = q]
          /\ bufferedSpans' = <<>> /\ filePc' = [filePc EXCEPT ![t] = "lock"]
      BY <1>2, <1>5, <2>3 DEF F!BeginClose, F!Goto
    <3>2. Range(q) \subseteq accepted' /\ accepted \subseteq accepted'
      BY <1>3, <2>1
    <3> QED
      BY <1>2, <1>3, <2>1, <3>1, <3>2, FlushTaken
  <2> QED
    BY <2>2, <2>3
<1>6. ASSUME NEW t \in F!Threads, F!LockChannel(t) PROVE FileFlushes'
  <2>1. /\ filePc[t] = "lock" /\ channelLock = NoOne /\ channelLock' = t
        /\ filePc' = [filePc EXCEPT ![t] = "flush"]
        /\ UNCHANGED <<bufferedSpans, toFlush, taken, accepted, spanFile>>
    BY <1>6 DEF F!LockChannel, F!Goto
  <2>2. \A u \in F!Threads : filePc'[u] = IF u = t THEN "flush" ELSE filePc[u]
    BY <1>0, <2>1 DEF F!TypeOK
  <2>3. \A u \in F!Threads : filePc[u] # "flush"
    BY <1>0, <2>1 DEF FileFlushes
  <2>4. OneFlush(taken[t], toFlush[t], "flush", spanFile)
    <3>1. OneFlush(taken[t], toFlush[t], "lock", spanFile)
      BY <2>1 DEF FileFlushes
    <3>2. Range(spanFile) = {spanFile[i] : i \in 1 .. Len(spanFile)}
      BY <1>0, RangeEquality DEF F!TypeOK
    <3> QED
      BY <3>1, <3>2 DEF OneFlush
  <2> QED
    BY <2>1, <2>2, <2>3, <2>4 DEF FileFlushes
<1>7. ASSUME NEW t \in F!Threads, F!Unlock(t) PROVE FileFlushes'
  <2>1. /\ filePc[t] = "flush" /\ filePc' = [filePc EXCEPT ![t] = "done"]
        /\ UNCHANGED <<bufferedSpans, toFlush, taken, accepted, spanFile>>
    BY <1>7 DEF F!Unlock, F!Goto
  <2>2. \A u \in F!Threads : filePc'[u] = IF u = t THEN "done" ELSE filePc[u]
    BY <1>0, <2>1 DEF F!TypeOK
  <2>3. \A u \in F!Threads : filePc[u] = "flush" => u = t
    BY <2>1 DEF FileFlushes
  <2>4. OneFlush(taken[t], toFlush[t], "done", spanFile)
    <3>1. OneFlush(taken[t], toFlush[t], "flush", spanFile)
      BY <2>1 DEF FileFlushes
    <3> QED
      BY <3>1 DEF OneFlush
  <2>5. \A u \in F!Threads : Range(taken[u]) \cap Range(bufferedSpans') = {}
    BY <1>2, <1>3, <2>1
  <2>6. \A u \in F!Threads : filePc'[u] = "flush" => channelLock' = u
    BY <2>2, <2>3
  <2> QED
    BY <2>1, <2>2, <2>4, <2>5, <2>6, FlushMoves
<1>8. ASSUME NEW t \in F!Threads, F!WriteFails(t) PROVE FileFlushes'
  <2>1. /\ filePc[t] = "flush" /\ toFlush' = [toFlush EXCEPT ![t] = <<>>]
        /\ UNCHANGED <<bufferedSpans, taken, filePc, channelLock, accepted, spanFile>>
    BY <1>8 DEF F!WriteFails
  <2>2. \A u \in F!Threads : toFlush'[u] = IF u = t THEN <<>> ELSE toFlush[u]
    BY <1>0, <2>1 DEF F!TypeOK
  <2>3. OneFlush(taken[t], <<>>, "flush", spanFile)
    <3>1. OneFlush(taken[t], toFlush[t], "flush", spanFile)
      BY <2>1 DEF FileFlushes
    <3>2. Len(<<>>) = 0 /\ 1 .. Len(<<>>) = {} /\ 0 <= Len(taken[t])
      BY <1>1
    <3> QED
      BY <3>1, <3>2 DEF OneFlush
  <2> QED
    BY <2>1, <2>2, <2>3 DEF FileFlushes
<1>9. ASSUME NEW t \in F!Threads, F!Write(t) PROVE FileFlushes'
  <2>1. /\ filePc[t] = "flush" /\ channelLock = t
        /\ UNCHANGED <<bufferedSpans, taken, filePc, channelLock, accepted>>
    BY <1>9 DEF F!Write, FileFlushes
  <2>2. OneFlush(taken[t], toFlush[t], "flush", spanFile)
    BY <2>1 DEF FileFlushes
  <2>3. PICK v \in Seq(Spans), L \in Seq(Spans \cup {Newline}) :
              /\ toFlush' = [toFlush EXCEPT ![t] = v] /\ spanFile' = spanFile \o L
              /\ Range(L) \ {Newline} \subseteq Range(taken[t])
              /\ OneFlush(taken[t], v, "flush", spanFile \o L)
    BY <1>9, <2>2, WriteOrder
  <2>4. \A u \in F!Threads : toFlush'[u] = IF u = t THEN v ELSE toFlush[u]
    BY <1>0, <2>3 DEF F!TypeOK
  <2>5. OneFlush(taken'[t], toFlush'[t], filePc'[t], spanFile')
    BY <2>1, <2>3, <2>4
  <2>6. ASSUME NEW u \in F!Threads, u # t
        PROVE  OneFlush(taken'[u], toFlush'[u], filePc'[u], spanFile')
    <3>1. filePc[u] # "flush" /\ Range(taken[u]) \cap Range(taken[t]) = {}
      BY <2>1, <2>6 DEF FileFlushes
    <3>2. Range(taken[u]) \cap Range(L) = {}
      BY <1>0, <1>1, <2>3, <3>1
    <3>3. PICK all \in Seq(Spans), left \in Seq(Spans), f \in Seq(Spans \cup {Newline}),
               label \in {filePc[u]} :
             all = taken[u] /\ left = toFlush[u] /\ f = spanFile
      BY <1>0, <1>1 DEF F!TypeOK
    <3>4. OneFlush(all, left, label, f)
      BY <3>3 DEF FileFlushes
    <3>5. OneFlush(all, left, label, f \o L)
      BY <3>1, <3>2, <3>3, <3>4, ForeignWrite
    <3> QED
      BY <2>1, <2>3, <2>4, <2>6, <3>3, <3>5
  <2> QED
    BY <2>1, <2>5, <2>6 DEF FileFlushes
<1> QED
  BY <1>4, <1>5, <1>6, <1>7, <1>8, <1>9 DEF F!Next, F!Flush

-----------------------------------------------------------------------------
\* The dumpAll command.

\* Types.  What was there when the command started is still there; the channel
\* is drained before the main goroutine leaves its loop, and the page is sent
\* before the goroutine closes the channel.
DumpInv ==
    /\ stored \subseteq Ids /\ initial \subseteq stored
    /\ searchId \in Nat /\ batch \in Seq(Ids) /\ out \in Seq(Ids) /\ file \in Seq(Ids)
    /\ dumpPc \in {"query", "send", "close", "assign", "gone"}
    /\ failing \in BOOLEAN /\ writeErr \in BOOLEAN /\ closed \in BOOLEAN
    /\ batch # <<>> <=> dumpPc = "send"
    /\ closed => dumpPc \in {"assign", "gone"}
    /\ mainPc \in {"recv", "check", "ok", "failed"}
    /\ mainPc # "recv" => closed /\ out = <<>>
    /\ mainPc = "ok" => ~ writeErr

\* File, channel and page are consecutive parts of one ascending list, behind
\* which the next page starts, ...
DumpOrder ==
    /\ Increasing(file, Len(file)) /\ Increasing(out, Len(out))
    /\ Increasing(batch, Len(batch))
    /\ Range(file) \cup Range(out) \cup Range(batch) \subseteq stored
    /\ Below(Range(file), Range(out))
    /\ Below(Range(file) \cup Range(out), Range(batch))
    /\ dumpPc = "query" => Below(Range(file) \cup Range(out), {searchId})

\* ... and which misses nothing that was there from the start: up to the start of
\* the next page, up to the end of the page at hand, or in the end at all.
DumpMisses(x) == x \notin Range(file) \cup Range(out) \cup Range(batch)
DumpReach ==
    ~ writeErr => \A x \in initial : DumpMisses(x) =>
        /\ dumpPc = "query" => searchId <= x
        /\ dumpPc = "send" => \A y \in Range(batch) : y < x
        /\ dumpPc \in {"close", "assign", "gone"} => failing

DumpSafe == DumpInv /\ (MaxId \notin stored => DumpOrder /\ DumpReach)

\* A page lists ids from searchId on, in ascending order, and only larger ones
\* are left for later pages; it is empty only if there are none.
LEMMA PageFacts ==
    ASSUME stored \subseteq Ids, searchId \in Nat
    PROVE  \E page \in Seq(Ids) :
              /\ page = D!Page /\ Increasing(page, Len(page))
              /\ Range(page) \subseteq {id \in stored : id >= searchId}
              /\ Below(Range(page), {id \in stored : id >= searchId} \ Range(page))
              /\ Lim > 0 /\ page = <<>> => {id \in stored : id >= searchId} = {}
<1> DEFINE from == {id \in stored : id >= searchId}
           n == IF D!Cardinality(from) < Lim THEN D!Cardinality(from) ELSE Lim
<1>0. \A T : D!Cardinality(T) = Cardinality(T)
  BY DEF D!Cardinality, Cardinality
<1>1. from = {id \in stored : id >= searchId}
  OBVIOUS
<1>2. IsFiniteSet(from) /\ from \subseteq Int
  <2>1. Ids \subseteq 0 .. MaxId /\ MaxId \in Nat
    BY ClientsAssumption
  <2>2. IsFiniteSet(0 .. MaxId)
    BY <2>1, FS_Interval
  <2>3. from \in SUBSET (0 .. MaxId)
    BY <1>1, <2>1
  <2>4. IsFiniteSet(from)
    BY <2>2, <2>3, FS_Subset
  <2> QED
    BY <2>1, <2>3, <2>4
<1>3. Cardinality(from) \in Nat /\ Lim \in Nat
  BY <1>2, FS_CardinalityType, ClientsAssumption
<1>4. n \in 0 .. Cardinality(from) /\ (Lim > 0 /\ n = 0 => Cardinality(from) = 0)
  BY <1>0, <1>3
<1> HIDE DEF from, n
<1> DEFINE Smallest(S) == D!Cardinality(S) = n /\ \A a \in S : \A b \in from \ S : a < b
           least == CHOOSE S \in SUBSET from : Smallest(S)
<1>5. \E S \in SUBSET from : Smallest(S)
  <2>1. PICK f \in [1 .. Cardinality(from) -> from] : Increasing(f, Cardinality(from))
    BY <1>2, SortedListing
  <2>2. f \in Seq(from) /\ Len(f) = Cardinality(from) /\ NoRepeats(f) /\ Range(f) = from
    BY <1>2, <2>1, ListingFacts
  <2>3. PICK u \in Seq(from) : u = SubSeq(f, 1, n) /\ Len(u) = n
    <3>1. PICK q \in Seq(from) : q = f /\ n \in 0 .. Len(q)
      BY <1>4, <2>2
    <3>2. SubSeq(q, 1, n) \in Seq(from) /\ Len(SubSeq(q, 1, n)) = n
      BY <3>1, RangeSplit
    <3> QED
      BY <3>1, <3>2, Zenon
  <2>4. NoRepeats(u)
    BY <1>4, <2>2, <2>3, DistinctSplit
  <2>5. Cardinality(Range(u)) = n
    BY <2>3, <2>4, DistinctCardinality
  <2>6. \A i \in 1 .. n : u[i] = f[i]
    BY <2>2, <2>3
  <2>7. Range(u) = {f[i] : i \in 1 .. n}
    <3>1. Range(u) = {u[i] : i \in 1 .. Len(u)}
      BY RangeEquality
    <3> QED
      BY <2>3, <2>6, <3>1
  <2>8. from = {f[i] : i \in 1 .. Cardinality(from)}
    BY <2>2, RangeEquality
  <2>9. \A a \in Range(u) : \A b \in from \ Range(u) : a < b
    <3> SUFFICES ASSUME NEW a \in Range(u), NEW b \in from \ Range(u) PROVE a < b
      OBVIOUS
    <3>1. PICK i \in 1 .. n : a = f[i]
      BY <2>7
    <3>2. PICK j \in 1 .. Cardinality(from) : b = f[j]
      BY <2>8
    <3>3. j \notin 1 .. n
      BY <2>7, <3>2
    <3>4. i < j /\ i \in 1 .. Cardinality(from)
      BY <1>3, <1>4, <3>3
    <3> QED
      BY <2>1, <3>1, <3>2, <3>4 DEF Increasing
  <2>10. Range(u) \in SUBSET from
    BY <2>3, RangeType
  <2> QED
    BY <1>0, <2>5, <2>9, <2>10
<1>6. least \in SUBSET from /\ Smallest(least)
  BY <1>5, Zenon
<1>7. PICK S \in SUBSET from :
         S = least /\ Cardinality(S) = n /\ \A a \in S : \A b \in from \ S : a < b
  BY <1>0, <1>6
<1> HIDE DEF least
<1>8. IsFiniteSet(S) /\ S \subseteq Int
  BY <1>2, FS_Subset
<1> DEFINE page == CHOOSE seq \in [1 .. n -> least] :
                      \A i, j \in 1 .. n : i < j => seq[i] < seq[j]
<1>9. page \in [1 .. n -> S] /\ \A i, j \in 1 .. n : i < j => page[i] < page[j]
  <2>1. \E f \in [1 .. n -> S] : \A i, j \in 1 .. n : i < j => f[i] < f[j]
    BY <1>7, <1>8, SortedListing DEF Increasing
  <2> QED
    BY <1>7, <2>1, Zenon
<1>10. D!Page = page
  BY Zenon DEF D!Page, least, from, n
<1>11. PICK p \in [1 .. Cardinality(S) -> S] : p = page /\ Increasing(p, Cardinality(S))
  BY <1>7, <1>9 DEF Increasing
<1>12. p \in Seq(S) /\ Len(p) = n /\ Range(p) = S
  BY <1>7, <1>8, <1>11, ListingFacts
<1>13. p \in Seq(Ids)
  <2>1. S \subseteq Ids
    BY <1>1
  <2> QED
    BY <1>12, <2>1
<1>14. p = <<>> => n = 0
  BY <1>12
<1>15. Lim > 0 /\ p = <<>> => from = {}
  BY <1>2, <1>4, <1>14, FS_EmptySet
<1> QED
  BY <1>1, <1>7, <1>10, <1>11, <1>12, <1>13, <1>15 DEF Below

\* The initial states.
LEMMA DumpInit == D!Init => DumpSafe
<1> SUFFICES ASSUME D!Init PROVE DumpSafe
  OBVIOUS
<1>1. DumpInv
  <2>1. <<>> \in Seq(Ids)
    OBVIOUS
  <2>2. /\ stored \subseteq Ids /\ initial = stored /\ searchId = 0
        /\ batch = <<>> /\ out = <<>> /\ file = <<>> /\ dumpPc = "query"
        /\ failing = FALSE /\ writeErr = FALSE /\ closed = FALSE /\ mainPc = "recv"
    BY DEF D!Init
  <2> QED
    BY <2>1, <2>2 DEF DumpInv
<1>2. Range(file) = {} /\ Range(out) = {} /\ Range(batch) = {}
  BY RangeEmpty DEF D!Init
<1>3. Increasing(file, Len(file)) /\ Increasing(out, Len(out)) /\ Increasing(batch, Len(batch))
  BY DEF D!Init, Increasing
<1>4. \A x \in initial : 0 <= x
  BY ClientsAssumption DEF D!Init
<1> QED
  BY <1>1, <1>2, <1>3, <1>4 DEF DumpSafe, DumpOrder, DumpReach, Below, D!Init

\* The goroutine fetches a page, from behind everything it has sent.
LEMMA DumpQuery ==
    ASSUME DumpSafe, D!QueryPage, Lim > 0
    PROVE  DumpSafe'
<1>1. PICK page \in Seq(Ids) :
         /\ page = D!Page /\ Increasing(page, Len(page))
         /\ Range(page) \subseteq {id \in stored : id >= searchId}
         /\ Below(Range(page), {id \in stored : id >= searchId} \ Range(page))
         /\ Lim > 0 /\ page = <<>> => {id \in stored : id >= searchId} = {}
  BY PageFacts DEF DumpSafe, DumpInv
<1>2. /\ dumpPc = "query" /\ batch' = page
      /\ dumpPc' = IF page = <<>> THEN "close" ELSE "send"
      /\ UNCHANGED <<stored, initial, searchId, failing, out, closed, mainPc, writeErr, file>>
  BY <1>1 DEF D!QueryPage, D!mainVars
<1>3. DumpInv'
  BY <1>1, <1>2 DEF DumpSafe, DumpInv
<1>4. Ids \subseteq Nat /\ stored \subseteq Ids /\ initial \subseteq stored /\ searchId \in Nat
  <2>1. Ids \subseteq Nat
    BY ClientsAssumption
  <2>2. stored \subseteq Ids /\ initial \subseteq stored /\ searchId \in Nat
    BY DEF DumpSafe, DumpInv
  <2> QED
    BY <2>1, <2>2
<1>5. ASSUME MaxId \notin stored PROVE DumpOrder' /\ DumpReach'
  <2>1. DumpOrder /\ DumpReach
    BY <1>5 DEF DumpSafe
  <2>2. Below(Range(file) \cup Range(out), Range(page))
    <3>1. Below(Range(file) \cup Range(out), {searchId})
      BY <1>2, <2>1 DEF DumpOrder
    <3>2. Range(file) \cup Range(out) \subseteq Nat /\ Range(page) \subseteq Nat
      BY <1>1, <1>4, <2>1 DEF DumpOrder
    <3> QED
      BY <1>1, <1>4, <3>1, <3>2 DEF Below
  <2>3. DumpOrder'
    BY <1>1, <1>2, <2>1, <2>2 DEF DumpOrder
  <2>4. ASSUME ~ writeErr, NEW x \in initial, DumpMisses(x)'
        PROVE  page # <<>> /\ \A y \in Range(page) : y < x
    <3>1. x \notin Range(file) \cup Range(out) \cup Range(page)
      BY <1>2, <2>4 DEF DumpMisses
    <3>2. batch = <<>>
      BY <1>2 DEF DumpSafe, DumpInv
    <3>3. DumpMisses(x)
      BY <3>1, <3>2, RangeEmpty DEF DumpMisses
    <3>4. x \in {id \in stored : id >= searchId}
      BY <1>2, <1>4, <2>1, <2>4, <3>3 DEF DumpReach
    <3> QED
      BY <1>1, <3>1, <3>4 DEF Below
  <2>5. DumpReach'
    BY <1>2, <2>4 DEF DumpReach
  <2> QED
    BY <2>3, <2>5
<1> QED
  BY <1>2, <1>3, <1>5 DEF DumpSafe

\* The search id does not wrap below the largest id.
LEMMA ModSmall ==
    ASSUME NEW a \in Nat, NEW b \in Nat, a < b
    PROVE  a % b = a
OBVIOUS

\* The next span of the page goes down the channel.
LEMMA DumpSend ==
    ASSUME DumpSafe, D!SendToChannel
    PROVE  DumpSafe'
<1>1. /\ dumpPc = "send" /\ out' = Append(out, Head(batch)) /\ batch' = Tail(batch)
      /\ IF Len(batch) = 1
           THEN searchId' = (Head(batch) + 1) % (MaxId + 1) /\ dumpPc' = "query"
           ELSE UNCHANGED <<searchId, dumpPc>>
      /\ UNCHANGED <<stored, initial, failing, closed, mainPc, writeErr, file>>
  BY DEF D!SendToChannel, D!mainVars
<1>2. /\ stored \subseteq Ids /\ initial \subseteq stored /\ searchId \in Nat
      /\ batch \in Seq(Ids) /\ out \in Seq(Ids) /\ file \in Seq(Ids) /\ batch # <<>>
      /\ ~ closed /\ closed \in BOOLEAN /\ mainPc = "recv"
      /\ failing \in BOOLEAN /\ writeErr \in BOOLEAN
  BY <1>1 DEF DumpSafe, DumpInv
<1>3. Ids \subseteq 0 .. MaxId /\ MaxId \in Nat
  BY ClientsAssumption
<1>4. PICK page \in Seq(Ids), sent \in Seq(Ids) : page = batch /\ sent = out /\ page # <<>>
  BY <1>2
<1>5. PICK head \in Ids, tail \in Seq(Ids) :
         /\ head = Head(page) /\ tail = Tail(page) /\ Range(page) = {head} \cup Range(tail)
         /\ Len(tail) = Len(page) - 1
  BY <1>4, RangeHeadTail
<1>6. PICK grown \in Seq(Ids) : grown = Append(sent, head) /\ Range(grown) = Range(sent) \cup {head}
  BY RangeAppend
<1>7. out' = grown /\ batch' = tail /\ (Len(page) = 1 <=> tail = <<>>)
  <2>1. Len(page) \in Nat /\ (tail = <<>> <=> Len(tail) = 0)
    OBVIOUS
  <2> QED
    BY <1>1, <1>4, <1>5, <1>6, <2>1
<1>8. dumpPc' = IF tail = <<>> THEN "query" ELSE "send"
  BY <1>1, <1>4, <1>7
<1>9. searchId' \in Nat /\ (head # MaxId /\ tail = <<>> => searchId' = head + 1)
  <2>1. head \in 0 .. MaxId
    BY <1>3
  <2>2. (head + 1) % (MaxId + 1) \in Nat
    BY <1>3, <2>1
  <2>3. head # MaxId => (head + 1) % (MaxId + 1) = head + 1
    <3>1. head \in Nat /\ head <= MaxId /\ head + 1 \in Nat /\ MaxId + 1 \in Nat
      BY <1>3, <2>1
    <3>2. head # MaxId => head + 1 < MaxId + 1
      BY <1>3, <3>1
    <3> QED
      BY <3>1, <3>2, ModSmall
  <2> QED
    BY <1>1, <1>2, <1>4, <1>5, <1>7, <2>2, <2>3
<1>10. DumpInv'
  <2>1. /\ stored' \subseteq Ids /\ initial' \subseteq stored' /\ searchId' \in Nat
        /\ batch' \in Seq(Ids) /\ out' \in Seq(Ids) /\ file' \in Seq(Ids)
        /\ failing' \in BOOLEAN /\ writeErr' \in BOOLEAN /\ closed' \in BOOLEAN
        /\ ~ closed' /\ mainPc' = "recv"
    BY <1>1, <1>2, <1>7, <1>9, Zenon
  <2>2. /\ dumpPc' \in {"query", "send"}
        /\ batch' # <<>> <=> dumpPc' = "send"
    BY <1>7, <1>8
  <2> QED
    BY <2>1, <2>2 DEF DumpInv
<1>11. ASSUME MaxId \notin stored PROVE DumpOrder' /\ DumpReach'
  <2>1. /\ Increasing(file, Len(file)) /\ Increasing(sent, Len(sent))
        /\ Increasing(page, Len(page))
        /\ Range(file) \cup Range(sent) \cup Range(page) \subseteq stored
        /\ Below(Range(file), Range(sent))
        /\ Below(Range(file) \cup Range(sent), Range(page))
    BY <1>4, <1>11 DEF DumpSafe, DumpOrder
  <2>2. Increasing(tail, Len(tail)) /\ Below({head}, Range(tail))
    BY <1>4, <1>5, <2>1, IncreasingTail
  <2>3. Increasing(grown, Len(grown))
    <3>1. Below(Range(sent), {head})
      BY <1>5, <2>1 DEF Below
    <3> QED
      BY <1>6, <2>1, <3>1, IncreasingAppend
  <2>4. /\ Range(file) \cup Range(grown) \cup Range(tail) \subseteq stored
        /\ Below(Range(file), Range(grown))
        /\ Below(Range(file) \cup Range(grown), Range(tail))
    BY <1>5, <1>6, <2>1, <2>2 DEF Below
  <2>5. head \in 0 .. MaxId /\ head # MaxId /\ Range(file) \cup Range(grown) \subseteq Nat
    <3>1. head \in stored
      BY <1>5, <2>1
    <3>2. head \in Ids /\ Range(file) \cup Range(grown) \subseteq Ids
      BY <1>2, <2>4
    <3>3. Ids \subseteq Nat
      BY <1>3
    <3>4. head # MaxId
      BY <1>11, <3>1
    <3> QED
      BY <1>3, <3>2, <3>3, <3>4
  <2>6. ASSUME tail = <<>>, NEW x \in Range(file) \cup Range(grown) PROVE x < searchId'
    <3>1. x \in Nat /\ head \in Nat /\ searchId' = head + 1
      BY <1>3, <1>9, <2>5, <2>6
    <3>2. x = head \/ x \in Range(file) \cup Range(sent)
      BY <1>6, <2>6
    <3>3. x \in Range(file) \cup Range(sent) => x < head
      BY <1>5, <2>1 DEF Below
    <3> QED
      BY <3>1, <3>2, <3>3
  <2>7. DumpOrder'
    <3>1. tail = <<>> => Below(Range(file) \cup Range(grown), {searchId'})
      BY <2>6 DEF Below
    <3> QED
      BY <1>1, <1>7, <1>8, <2>1, <2>2, <2>3, <2>4, <3>1 DEF DumpOrder
  <2>8. ASSUME ~ writeErr, NEW x \in initial, DumpMisses(x)'
        PROVE  /\ tail = <<>> => searchId' <= x
               /\ \A y \in Range(tail) : y < x
    <3>1. DumpMisses(x)
      BY <1>1, <1>4, <1>5, <1>6, <1>7, <2>8 DEF DumpMisses
    <3>2. \A y \in Range(page) : y < x
      BY <1>1, <1>4, <1>11, <2>8, <3>1 DEF DumpSafe, DumpReach
    <3>3. x \in Nat
      BY <1>2, <1>3, <2>8
    <3>4. tail = <<>> => searchId' <= x
      <4>1. head < x /\ head \in Nat
        BY <1>3, <1>5, <2>5, <3>2
      <4>2. tail = <<>> => searchId' = head + 1
        BY <1>9, <2>5
      <4> QED
        BY <3>3, <4>1, <4>2
    <3> QED
      BY <1>5, <3>2, <3>4
  <2>9. DumpReach'
    BY <1>1, <1>7, <1>8, <2>8 DEF DumpReach
  <2> QED
    BY <2>7, <2>9
<1> QED
  BY <1>1, <1>10, <1>11 DEF DumpSafe

\* The main goroutine writes a span, or drops it once a write has failed.
LEMMA DumpReceive ==
    ASSUME DumpSafe, D!ReceiveSpan
    PROVE  DumpSafe'
<1>1. /\ mainPc = "recv" /\ out # <<>> /\ out' = Tail(out)
      /\ UNCHANGED <<stored, initial, searchId, batch, dumpPc, failing, closed, mainPc>>
  BY DEF D!ReceiveSpan, D!dumpVars
<1>2. PICK ok \in BOOLEAN :
         /\ file' = IF ok /\ ~ writeErr THEN Append(file, Head(out)) ELSE file
         /\ writeErr' = (writeErr \/ ~ ok)
  BY DEF D!ReceiveSpan
<1>3. /\ batch \in Seq(Ids) /\ out \in Seq(Ids) /\ file \in Seq(Ids)
      /\ failing \in BOOLEAN /\ writeErr \in BOOLEAN
  BY DEF DumpSafe, DumpInv
<1>4. PICK sent \in Seq(Ids), old \in Seq(Ids) : sent = out /\ old = file /\ sent # <<>>
  BY <1>1, <1>3
<1>5. PICK head \in Ids, tail \in Seq(Ids) :
         /\ head = Head(sent) /\ tail = Tail(sent) /\ Range(sent) = {head} \cup Range(tail)
         /\ Len(tail) = Len(sent) - 1
  BY <1>4, RangeHeadTail
<1>6. PICK new \in Seq(Ids) : new = Append(old, head) /\ Range(new) = Range(old) \cup {head}
  BY RangeAppend
<1>7. out' = tail /\ file' \in {old, new} /\ writeErr' \in BOOLEAN /\ (~ writeErr' => ~ writeErr /\ file' = new)
  BY <1>1, <1>2, <1>3, <1>4, <1>5, <1>6
<1>8. DumpInv'
  BY <1>1, <1>7 DEF DumpSafe, DumpInv
<1>9. ASSUME MaxId \notin stored PROVE DumpOrder' /\ DumpReach'
  <2>1. /\ Increasing(old, Len(old)) /\ Increasing(sent, Len(sent))
        /\ Increasing(batch, Len(batch))
        /\ Range(old) \cup Range(sent) \cup Range(batch) \subseteq stored
        /\ Below(Range(old), Range(sent))
        /\ Below(Range(old) \cup Range(sent), Range(batch))
        /\ dumpPc = "query" => Below(Range(old) \cup Range(sent), {searchId})
    BY <1>4, <1>9 DEF DumpSafe, DumpOrder
  <2>2. Increasing(tail, Len(tail)) /\ Below({head}, Range(tail))
    BY <1>4, <1>5, <2>1, IncreasingTail
  <2>3. Increasing(new, Len(new))
    <3>1. Below(Range(old), {head})
      BY <1>5, <2>1 DEF Below
    <3> QED
      BY <1>6, <2>1, <3>1, IncreasingAppend
  <2>4. ASSUME NEW f \in {old, new}
        PROVE  /\ Range(f) \cup Range(tail) \subseteq Range(old) \cup Range(sent)
               /\ Increasing(f, Len(f)) /\ Below(Range(f), Range(tail))
    BY <1>5, <1>6, <2>1, <2>2, <2>3 DEF Below
  <2>5. DumpOrder'
    <3>1. PICK f \in {old, new} : f = file'
      BY <1>7
    <3>2. /\ Range(f) \cup Range(tail) \cup Range(batch) \subseteq stored
          /\ Below(Range(f) \cup Range(tail), Range(batch))
          /\ dumpPc = "query" => Below(Range(f) \cup Range(tail), {searchId})
      BY <2>1, <2>4 DEF Below
    <3> QED
      BY <1>1, <1>7, <2>1, <2>2, <2>4, <3>1, <3>2 DEF DumpOrder
  <2>6. ASSUME ~ writeErr', NEW x \in initial, DumpMisses(x)' PROVE DumpMisses(x)
    BY <1>1, <1>4, <1>5, <1>6, <1>7, <2>6 DEF DumpMisses
  <2>7. DumpReach'
    BY <1>1, <1>7, <1>9, <2>6 DEF DumpSafe, DumpReach
  <2> QED
    BY <2>5, <2>7
<1> QED
  BY <1>1, <1>8, <1>9 DEF DumpSafe

\* Every step of the command keeps its invariant.
LEMMA DumpStep ==
    ASSUME DumpSafe, D!Next, Lim > 0
    PROVE  DumpSafe'
<1>1. CASE \E id \in Ids : D!Arrive(id)
  <2>1. PICK id \in Ids : stored' = stored \cup {id}
    BY <1>1 DEF D!Arrive
  <2>2. UNCHANGED <<initial, searchId, batch, dumpPc, failing, out, closed, mainPc, writeErr, file>>
    BY <1>1 DEF D!Arrive, D!dumpVars, D!mainVars
  <2>3. DumpInv'
    BY <2>1, <2>2 DEF DumpSafe, DumpInv
  <2>4. MaxId \notin stored' => MaxId \notin stored
    BY <2>1
  <2>5. ASSUME DumpOrder, DumpReach PROVE DumpOrder' /\ DumpReach'
    BY <2>1, <2>2, <2>5 DEF DumpOrder, DumpReach, DumpMisses
  <2> QED
    BY <2>3, <2>4, <2>5 DEF DumpSafe
<1>2. CASE D!QueryPage
  BY <1>2, DumpQuery
<1>3. CASE D!SendToChannel
  BY <1>3, DumpSend
<1>4. CASE D!ReceiveSpan
  BY <1>4, DumpReceive
<1>5. CASE D!QueryFails \/ D!CloseChannel \/ D!AssignDumpErr \/ D!SeeClosed \/ D!Finish
  <2>1. UNCHANGED <<stored, initial, searchId, batch, out, writeErr, file>>
    BY <1>5 DEF D!QueryFails, D!CloseChannel, D!AssignDumpErr, D!SeeClosed, D!Finish,
                D!dumpVars, D!mainVars
  <2>2. /\ \/ UNCHANGED <<dumpPc, failing>>
           \/ dumpPc' = "close" /\ failing'
           \/ dumpPc \in {"close", "assign"} /\ dumpPc' \in {"assign", "gone"} /\ failing' = failing
    BY <1>5 DEF D!QueryFails, D!CloseChannel, D!AssignDumpErr, D!SeeClosed, D!Finish,
                D!dumpVars, D!mainVars
  <2>3. DumpInv'
    <3>1. CASE D!QueryFails
      BY <2>1, <3>1 DEF DumpSafe, DumpInv, D!QueryFails, D!mainVars
    <3>2. CASE D!CloseChannel
      BY <2>1, <3>2 DEF DumpSafe, DumpInv, D!CloseChannel, D!mainVars
    <3>3. CASE D!AssignDumpErr
      BY <2>1, <3>3 DEF DumpSafe, DumpInv, D!AssignDumpErr, D!mainVars
    <3>4. CASE D!SeeClosed
      BY <2>1, <3>4 DEF DumpSafe, DumpInv, D!SeeClosed, D!dumpVars
    <3>5. CASE D!Finish
      BY <2>1, <3>5 DEF DumpSafe, DumpInv, D!Finish, D!dumpVars
    <3> QED
      BY <1>5, <3>1, <3>2, <3>3, <3>4, <3>5
  <2>4. ASSUME DumpOrder, DumpReach PROVE DumpOrder' /\ DumpReach'
    BY <2>1, <2>2, <2>4 DEF DumpOrder, DumpReach, DumpMisses
  <2> QED
    BY <2>1, <2>3, <2>4 DEF DumpSafe
<1> QED
  BY <1>1, <1>2, <1>3, <1>4, <1>5 DEF D!Next, D!Goroutine, D!Main

\* What the invariant says of the file.
LEMMA DumpFollows == DumpSafe => D!DumpExact
<1> SUFFICES ASSUME DumpSafe, MaxId \notin stored
             PROVE  /\ \A i, j \in 1 .. Len(file) : i < j => file[i] < file[j]
                    /\ mainPc = "ok" /\ ~ failing =>
                          initial \subseteq {file[i] : i \in 1 .. Len(file)}
  BY DEF D!DumpExact
<1>1. Increasing(file, Len(file))
  BY DEF DumpSafe, DumpOrder
<1>2. ASSUME mainPc = "ok", ~ failing PROVE initial \subseteq Range(file)
  <2>1. out = <<>> /\ batch = <<>> /\ ~ writeErr /\ dumpPc \in {"assign", "gone"}
    BY <1>2 DEF DumpSafe, DumpInv
  <2>2. \A x \in initial : ~ DumpMisses(x)
    BY <1>2, <2>1 DEF DumpSafe, DumpReach
  <2> QED
    BY <2>1, <2>2, RangeEmpty DEF DumpMisses
<1>3. Range(file) = {file[i] : i \in 1 .. Len(file)}
  BY RangeEquality DEF DumpSafe, DumpInv
<1> QED
  BY <1>1, <1>2, <1>3 DEF Increasing

-----------------------------------------------------------------------------
\* Both receivers within MCClients.

ClientsInv == RestInv /\ RestPlaces /\ FileInv /\ FilePlaces /\ FileClose

\* A step of MCClients is a step of one receiver, or leaves both alone.
LEMMA ClientsStep == ClientsInv /\ [Next]_vars => ClientsInv'
<1> SUFFICES ASSUME ClientsInv, [Next]_vars PROVE ClientsInv'
  OBVIOUS
<1>1. \/ R!Next \/ UNCHANGED restVars
  BY DEF Next, vars
<1>2. \/ F!Next \/ UNCHANGED fileVars
  BY DEF Next, vars
<1>3. RestInv' /\ RestPlaces'
  <2>1. CASE R!Next
    BY <2>1, RestStep DEF ClientsInv
  <2>2. CASE UNCHANGED restVars
    BY <2>2 DEF ClientsInv, restVars, RestInv, R!TypeOK, RestPlaces
  <2> QED
    BY <1>1, <2>1, <2>2
<1>4. FileInv' /\ FilePlaces' /\ FileClose'
  <2>1. CASE F!Next
    BY <2>1, FileInvStep, FilePlacesStep, FileCloseStep DEF ClientsInv
  <2>2. CASE UNCHANGED fileVars
    BY <2>2 DEF ClientsInv, fileVars, FileInv, F!TypeOK, FilePlaces, FileClose
  <2> QED
    BY <1>2, <2>1, <2>2
<1> QED
  BY <1>3, <1>4 DEF ClientsInv

\* The invariants of both receivers hold always.
THEOREM ClientsInvariant == Spec => []ClientsInv
<1>1. Init => ClientsInv
  BY RestInit, FileInit DEF Init, ClientsInv
<1> QED
  BY <1>1, ClientsStep, PTL DEF Spec

\* RestReceiver, LocalFileReceiver: whatever the threads, signals, spurious
\* wake-ups, flushes and failing writes do, an accepted span is in one place
\* only, until it has been posted or written once.
THEOREM AcceptedInOnePlace == Spec => []ExactlyOnePlace
<1>1. ClientsInv => ExactlyOnePlace
  BY RestSafe, FileSafe DEF ClientsInv, ExactlyOnePlace
<1> QED
  BY <1>1, ClientsInvariant, PTL

\* RestReceiver, LocalFileReceiver: a close that saw the end of its thread has posted
\* nothing twice, and everything once unless the thread died of a runtime exception;
\* and a quiet close without failing writes has written everything.
THEOREM CloseIsComplete == Spec => []CloseCompletes
<1>1. ClientsInv => CloseCompletes
  BY RestSafe, FileSafe DEF ClientsInv, CloseCompletes
<1> QED
  BY <1>1, ClientsInvariant, PTL

\* LocalFileReceiver, DumpAll: for any number of threads, sizes and failing writes
\* the lines of two flushes do not mix in the file of spans; and for any page size,
\* channel size and arrivals a dump lists every span once, in the order of the ids,
\* and all that were there at its start when it ends without an error.  A page size
\* of zero is excepted: such a dump ends with the first page.
THEOREM FilesAreExact ==
    ASSUME Lim > 0
    PROVE  Spec => []FilesExact
<1> DEFINE Inv == ClientsInv /\ FileFlushes /\ DumpSafe
<1>1. Init => Inv
  BY RestInit, FileInit, FlushesInit, DumpInit DEF Init, ClientsInv
<1>2. Inv /\ [Next]_vars => Inv'
  <2> SUFFICES ASSUME Inv, [Next]_vars PROVE Inv'
    OBVIOUS
  <2>1. ClientsInv'
    BY ClientsStep
  <2>2. FileFlushes'
    <3>1. CASE F!Next
      BY <3>1, FlushesStep DEF ClientsInv
    <3>2. CASE UNCHANGED fileVars
      BY <3>2 DEF fileVars, FileFlushes
    <3> QED
      BY <3>1, <3>2 DEF Next, vars
  <2>3. DumpSafe'
    <3>1. CASE D!Next
      BY <3>1, DumpStep
    <3>2. CASE UNCHANGED dumpVars
      BY <3>2 DEF dumpVars, DumpSafe, DumpInv, DumpOrder, DumpReach, DumpMisses
    <3> QED
      BY <3>1, <3>2 DEF Next, vars
  <2> QED
    BY <2>1, <2>2, <2>3
<1>3. Inv => FilesExact
  <2>1. FileFlushes => F!NotInterleaved
    BY DEF FileFlushes, OneFlush, F!NotInterleaved
  <2> QED
    BY <2>1, DumpFollows DEF FilesExact
<1> QED
  BY <1>1, <1>2, <1>3, PTL DEF Spec

=============================================================================
