------------------------- MODULE LocalFileReceiver --------------------------
(***************************************************************************)
(* LocalFileSpanReceiver of the Java client.                               *)
(*                                                                         *)
(* Threads put serialized spans into an array, under one lock; the thread  *)
(* that fills it swaps the array for a new one and writes the full one to  *)
(* the file, under another lock; close writes what is left and closes the  *)
(* file.  A write sends up to WriteV spans, each followed by a newline.    *)
(* All newlines come from one static ByteBuffer, which the first write     *)
(* leaves with nothing remaining.                                          *)
(***************************************************************************)
EXTENDS Integers, Sequences, FiniteSets, Functions

CONSTANTS
    Spans,       \* spans, each received in a thread of its own
    Closers,     \* threads that call close
    capacity,    \* length of the array
    WriteV,      \* WRITEV_SIZE
    MaxFails,    \* bound: failing writes
    NoOne, Newline

VARIABLES
    bufferedSpans,   \* Seq(Spans): the used part of the array
    closed,          \* the array is null
    pc,              \* [Spans \cup Closers -> ...]
    toFlush,         \* [Spans \cup Closers -> Seq(Spans)]
    channelLock,     \* its holder
    open,            \* the stream is open
    newlineLeft,     \* newlineBuf still has its byte
    file,            \* Seq(Spans \cup {Newline})
    accepted,        \* history: spans put into the array
    failed,          \* history: spans of a flush that got an IOException
    batch,           \* history: [Spans \cup Closers -> Seq(Spans)]: toFlush as
                     \*          it was taken from the array
    quiet,           \* history: no other call was under way when close began
    fails            \* bound counter

vars == <<bufferedSpans, closed, pc, toFlush, channelLock, open, newlineLeft,
          file, accepted, failed, batch, quiet, fails>>

Threads == Spans \cup Closers

Init ==
    /\ bufferedSpans = <<>> /\ closed = FALSE
    /\ pc = [t \in Threads |-> "start"]
    /\ toFlush = [t \in Threads |-> <<>>]
    /\ channelLock = NoOne /\ open = TRUE /\ newlineLeft = TRUE
    /\ file = <<>>
    /\ accepted = {} /\ failed = {} /\ fails = 0
    /\ batch = [t \in Threads |-> <<>>] /\ quiet = FALSE

Goto(t, label) == pc' = [pc EXCEPT ![t] = label]

-----------------------------------------------------------------------------
\* receiveSpan under the bufferLock: refuse after close; store; swap a full
\* array.
Receive(s) ==
    /\ pc[s] = "start"
    /\ \/ /\ closed
          /\ Goto(s, "done")
          /\ UNCHANGED <<bufferedSpans, toFlush, batch, accepted>>
       \/ /\ ~ closed
          /\ accepted' = accepted \cup {s}
          /\ IF Len(bufferedSpans) + 1 = capacity
               THEN /\ toFlush' = [toFlush EXCEPT ![s] = Append(bufferedSpans, s)]
                    /\ batch' = [batch EXCEPT ![s] = Append(bufferedSpans, s)]
                    /\ bufferedSpans' = <<>>
                    /\ Goto(s, "lock")
               ELSE /\ bufferedSpans' = Append(bufferedSpans, s)
                    /\ Goto(s, "done")
                    /\ UNCHANGED <<toFlush, batch>>
    /\ UNCHANGED <<closed, channelLock, open, newlineLeft, file, failed, quiet,
                   fails>>

\* close under the bufferLock: the first call takes what is left.
BeginClose(t) ==
    /\ pc[t] = "start"
    /\ IF closed
         THEN Goto(t, "done") /\ UNCHANGED <<bufferedSpans, closed, toFlush,
                                          batch, quiet>>
         ELSE /\ toFlush' = [toFlush EXCEPT ![t] = bufferedSpans]
              /\ bufferedSpans' = <<>>
              /\ closed' = TRUE
              /\ batch' = [batch EXCEPT ![t] = bufferedSpans]
              /\ quiet' = \A u \in Threads \ {t} : pc[u] \in {"start", "done"}
              /\ Goto(t, "lock")
    /\ UNCHANGED <<channelLock, open, newlineLeft, file, accepted, failed, fails>>

-----------------------------------------------------------------------------
\* doFlush under the channelLock.

LockChannel_NoWait(t) ==
    /\ pc[t] = "lock"
    /\ channelLock' = t
    /\ Goto(t, "flush")
    /\ UNCHANGED <<bufferedSpans, closed, toFlush, open, newlineLeft, file,
                   accepted, failed, batch, quiet, fails>>

LockChannel_ClosesFirst(t) ==
    /\ pc[t] = "lock" /\ channelLock = NoOne
    /\ channelLock' = t
    /\ open' = (open /\ t \notin Closers)
    /\ Goto(t, "flush")
    /\ UNCHANGED <<bufferedSpans, closed, toFlush, newlineLeft, file,
                   accepted, failed, batch, quiet, fails>>

LockChannel(t) ==
    /\ pc[t] = "lock" /\ channelLock = NoOne
    /\ channelLock' = t
    /\ Goto(t, "flush")
    /\ UNCHANGED <<bufferedSpans, closed, toFlush, open, newlineLeft, file,
                   accepted, failed, batch, quiet, fails>>

\* What one call of channel.write appends.  The buffers that occur in it are
\* looked at before anything is written, so that the one newline is written
\* as often as it occurs, the first time; never again later.
Lines(bufs) ==
    IF newlineLeft
      THEN [i \in 1 .. 2 * Len(bufs) |->
               IF i % 2 = 1 THEN bufs[(i + 1) \div 2] ELSE Newline]
      ELSE bufs

BatchLen(t) == IF Len(toFlush[t]) < WriteV THEN Len(toFlush[t]) ELSE WriteV

Write_DropsRest(t) ==
    /\ pc[t] = "flush" /\ open /\ toFlush[t] # <<>>
    /\ file' = file \o Lines(SubSeq(toFlush[t], 1, BatchLen(t)))
    /\ newlineLeft' = FALSE
    /\ toFlush' = [toFlush EXCEPT ![t] = <<>>]
    /\ UNCHANGED <<bufferedSpans, closed, pc, channelLock, open, accepted,
                   failed, batch, quiet, fails>>

Write(t) ==
    /\ pc[t] = "flush" /\ open /\ toFlush[t] # <<>>
    /\ file' = file \o Lines(SubSeq(toFlush[t], 1, BatchLen(t)))
    /\ newlineLeft' = FALSE
    /\ toFlush' = [toFlush EXCEPT
                     ![t] = SubSeq(@, BatchLen(t) + 1, Len(@))]
    /\ UNCHANGED <<bufferedSpans, closed, pc, channelLock, open, accepted,
                   failed, batch, quiet, fails>>

\* A write fails, on a closed channel always: the rest of the flush is logged
\* and lost.
WriteFails(t) ==
    /\ pc[t] = "flush" /\ toFlush[t] # <<>>
    /\ ~ open \/ fails < MaxFails
    /\ fails' = IF open THEN fails + 1 ELSE fails
    /\ failed' = failed \cup Range(toFlush[t])
    /\ toFlush' = [toFlush EXCEPT ![t] = <<>>]
    /\ UNCHANGED <<bufferedSpans, closed, pc, channelLock, open, newlineLeft,
                   file, accepted, batch, quiet>>

\* The end of a flush; close also closes the stream, before it unlocks.
Unlock(t) ==
    /\ pc[t] = "flush" /\ toFlush[t] = <<>>
    /\ open' = (open /\ t \notin Closers)
    /\ channelLock' = NoOne
    /\ Goto(t, "done")
    /\ UNCHANGED <<bufferedSpans, closed, toFlush, newlineLeft, file, accepted,
                   failed, batch, quiet, fails>>

-----------------------------------------------------------------------------

Flush(t) == LockChannel(t) \/ Write(t) \/ WriteFails(t) \/ Unlock(t)

Next == \/ \E s \in Spans : Receive(s)
        \/ \E t \in Closers : BeginClose(t)
        \/ \E t \in Threads : Flush(t)

Spec == Init /\ [][Next]_vars

-----------------------------------------------------------------------------
\* Correctness.

\* Types; the array is never full between two calls.
TypeOK ==
    /\ bufferedSpans \in Seq(Spans) /\ Len(bufferedSpans) < capacity
    /\ closed \in BOOLEAN /\ open \in BOOLEAN /\ newlineLeft \in BOOLEAN
    /\ pc \in [Threads -> {"start", "lock", "flush", "done"}]
    /\ toFlush \in [Threads -> Seq(Spans)]
    /\ channelLock \in Threads \cup {NoOne}
    /\ file \in Seq(Spans \cup {Newline})
    /\ accepted \subseteq Spans /\ failed \subseteq Spans
    /\ batch \in [Threads -> Seq(Spans)] /\ quiet \in BOOLEAN /\ fails \in Nat

Occurrences(s) == Cardinality({i \in 1 .. Len(file) : file[i] = s})

\* An accepted span is in exactly one place: in the array, in the hands of a
\* thread that flushes, in the file (once), or lost to a failing write.
ExactlyOnePlace ==
    \A s \in accepted :
        Cardinality({i \in 1 .. Len(bufferedSpans) : bufferedSpans[i] = s})
        + Cardinality({t \in Threads : s \in Range(toFlush[t])})
        + Occurrences(s) + (IF s \in failed THEN 1 ELSE 0) = 1

\* "If we did not do this, we might get interleaved output." (lines 180-182):
\* between two spans of a flush the file has spans of that flush and newlines only,
\* and every span of a flush comes behind those that were before it in the array.
Consecutive(spans, lines) ==
    \A i, j \in 1 .. Len(lines) : i < j /\ {lines[i], lines[j]} \subseteq Range(spans) =>
        \A k \in i .. j : lines[k] \in Range(spans) \cup {Newline}
InOrder(spans, lines) ==
    \A m, n \in 1 .. Len(spans) : \A j \in 1 .. Len(lines) :
        m < n /\ lines[j] = spans[n] => \E i \in 1 .. j - 1 : lines[i] = spans[m]
NotInterleaved ==
    \A t \in Threads : Consecutive(batch[t], file) /\ InOrder(batch[t], file)

\* If no write failed and close was called when no other call was under way,
\* the file that it closes has every span ever accepted.
QuietCloseWritesAll ==
    ~ open /\ quiet /\ fails = 0 => \A s \in accepted : Occurrences(s) = 1

=============================================================================
