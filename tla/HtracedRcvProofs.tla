-------------------------- MODULE HtracedRcvProofs --------------------------
(***************************************************************************)
(* Machine-checked proofs about the htraced receiver of the C client, for  *)
(* any number of threads, any buffer length, threshold, interval and       *)
(* number of tries.                                                        *)
(*                                                                         *)
(* The code copies a span without the lock when the buffer is full, which  *)
(* the comment after the loop of add_span denies.  The theorems about the  *)
(* buffers say what holds as long as the comment is right: they assume     *)
(* []CopiesWithLockAndSpace.  It is proved that this is so when the spans  *)
(* that are ever added fit into one buffer.                                *)
(***************************************************************************)
EXTENDS HtracedRcv, FiniteSetTheorems, TLAPS

-----------------------------------------------------------------------------
\* The inductive invariant.

Unsent == {"send", "sendLast", "resetOff", "resetOffLast"}
Sent == {"resetNum", "resetNumLast", "relock", "relockLast"}
LastPcs == {"drain", "sendLast", "resetOffLast", "resetNumLast", "relockLast", "exited"}

\* The mutex: an adder has it while it copies, publishes and until it unlocks;
\* the background thread has it while it decides.
LockInv ==
    /\ \A a \in Adders : addPc[a] \in {"copy", "publish", "unlock"} => lock = a
    /\ xmitPc \in {"should", "drain"} => lock = "xmit"

\* The two buffers: adders write to the active one, the other one is being sent
\* or empty.
BufInv ==
    /\ \A a \in Adders : addPc[a] \in {"copy", "publish"} => addBuf[a] = active
    /\ \A a \in Adders : addPc[a] = "publish" =>
          /\ addOff[a] = buf[active].off + 1
          /\ buf[active].data[addOff[a]] = a
    /\ xmitPc \in SendingPcs \cup ResettingPcs => xmitBuf = 1 - active
    /\ xmitPc \notin Unsent => buf[1 - active].off = 0

\* The spans: each one is somewhere, and a buffer that is about to be reset
\* holds nothing that was not sent or given up.
SpanInv ==
    /\ InOnePlace
    /\ xmitPc \in {"resetOff", "resetOffLast"} =>
          Contents(xmitBuf) \subseteq delivered \cup gaveUp

\* Shutting down.
FreeInv ==
    /\ shutdown <=> freePc # "start"
    /\ freePc # "start" => \A a \in Adders : addPc[a] \in {"start", "done"}
    /\ xmitPc \in LastPcs => shutdown
    /\ xmitPc = "exited" => BufsEmpty
    /\ freePc = "freed" => xmitPc = "exited"

\* Flushing: the times that are compared lie in the past, and a round that
\* began after the flush takes along whatever the flush waits for.
FlushInv ==
    /\ lastSend <= clock /\ xmitNow <= clock
    /\ \A f \in Flushers : flushPc[f] \in {"wait", "woken"} =>
          /\ mustSend[f] \subseteq Buffered \cup delivered \cup gaveUp
          /\ xmitPc \in Unsent /\ xmitNow > flushNow[f]
                => mustSend[f] \subseteq Contents(xmitBuf) \cup delivered \cup gaveUp
          /\ xmitPc \in Sent /\ xmitNow > flushNow[f]
                => mustSend[f] \subseteq delivered \cup gaveUp
          /\ lastSend > flushNow[f] => mustSend[f] \subseteq delivered \cup gaveUp

\* A buffer holds no span twice, and none that was not published.
CountInv ==
    \A b \in 0 .. 1 : \A i \in 1 .. BufLen + 1 : i <= buf[b].off =>
        /\ buf[b].data[i] \in Adders /\ Published(buf[b].data[i])
        /\ \A j \in 1 .. BufLen + 1 : j <= buf[b].off /\ buf[b].data[j] = buf[b].data[i] => j = i

-----------------------------------------------------------------------------
\* Type correctness.

Buffer == [off : 0 .. BufLen + 1, num : Nat,
           data : [1 .. BufLen + 1 -> Adders \cup {Nothing}]]

\* A span is copied: the other places and the other buffer stay as they are.
LEMMA BufferCopy ==
    ASSUME NEW old \in [0 .. 1 -> Buffer], NEW b \in 0 .. 1,
           NEW k \in 1 .. BufLen + 1, NEW a \in Adders,
           NEW new, new = [old EXCEPT ![b].data[k] = a]
    PROVE  /\ new \in [0 .. 1 -> Buffer] /\ new[1 - b] = old[1 - b]
           /\ new[b].off = old[b].off /\ new[b].data[k] = a
           /\ \A i \in 1 .. BufLen + 1 : i # k => new[b].data[i] = old[b].data[i]
<1>1. 1 - b \in 0 .. 1 /\ 1 - b # b /\ BufLen \in Nat
  BY HtracedRcvAssumption
<1> QED
  BY <1>1 DEF Buffer

\* It is published.
LEMMA BufferPublish ==
    ASSUME NEW old \in [0 .. 1 -> Buffer], NEW b \in 0 .. 1, NEW o \in 0 .. BufLen + 1,
           NEW new, new = [old EXCEPT ![b].off = o, ![b].num = @ + 1]
    PROVE  /\ new \in [0 .. 1 -> Buffer] /\ new[1 - b] = old[1 - b]
           /\ new[b].off = o /\ new[b].data = old[b].data
<1>1. 1 - b \in 0 .. 1 /\ 1 - b # b /\ BufLen \in Nat
  BY HtracedRcvAssumption
<1> QED
  BY <1>1 DEF Buffer

\* The buffer that was sent is reset.
LEMMA BufferReset ==
    ASSUME NEW old \in [0 .. 1 -> Buffer], NEW b \in 0 .. 1, NEW new,
           \/ new = [old EXCEPT ![b].off = 0]
           \/ new = [old EXCEPT ![b].num = 0]
    PROVE  /\ new \in [0 .. 1 -> Buffer] /\ new[1 - b] = old[1 - b]
           /\ new[b].off = old[b].off \/ new[b].off = 0
           /\ new = [old EXCEPT ![b].off = 0] => new[b].off = 0
           /\ new[b].data = old[b].data
           /\ new = [old EXCEPT ![b].num = 0] => new[b].off = old[b].off
<1>1. 1 - b \in 0 .. 1 /\ 1 - b # b /\ BufLen \in Nat
  BY HtracedRcvAssumption
<1> QED
  BY <1>1 DEF Buffer

\* Below the offset of a buffer, and below the one that an adder is about to
\* publish, every place holds a span.
Filled ==
    /\ \A b \in 0 .. 1 : \A i \in 1 .. BufLen + 1 :
          i <= buf[b].off => buf[b].data[i] \in Adders
    /\ \A a \in Adders : addPc[a] = "publish" =>
          \A i \in 1 .. BufLen + 1 : i <= addOff[a] => buf[addBuf[a]].data[i] \in Adders

\* Copying fills one more place, publishing moves the offset there.
LEMMA FilledStep ==
    ASSUME TypeOK, Filled, [Next]_vars
    PROVE  Filled'
<1> USE DEF addVars, xmitVars, flushVars, serverVars
<1>1. buf \in [0 .. 1 -> Buffer] /\ BufLen \in Nat
  BY HtracedRcvAssumption DEF TypeOK, Buffer
<1>2. ASSUME buf' = buf, UNCHANGED <<addOff, addBuf>>,
             \A a \in Adders : addPc'[a] = "publish" => addPc[a] = "publish"
      PROVE  Filled'
  BY <1>2 DEF Filled
<1>3. ASSUME NEW a \in Adders, AddLock(a) PROVE Filled'
  <2>1. \A c \in Adders : addPc'[c] = "publish" =>
           addPc[c] = "publish" /\ addBuf'[c] = addBuf[c]
    BY <1>3 DEF AddLock, TypeOK
  <2> QED
    BY <1>3, <2>1 DEF AddLock, Filled
<1>4. ASSUME NEW a \in Adders, AddCopy(a) PROVE Filled'
  <2>1. PICK b \in 0 .. 1, k \in 1 .. BufLen + 1 :
           /\ b = addBuf[a] /\ k = buf[b].off + 1
           /\ buf' = [buf EXCEPT ![b].data[k] = a]
    <3>1. addBuf[a] \in 0 .. 1 /\ buf[addBuf[a]].off + 1 \in 1 .. BufLen + 1
      BY <1>1, <1>4 DEF AddCopy, TypeOK
    <3> QED
      BY <1>4, <3>1 DEF AddCopy
  <2>2. /\ buf'[1 - b] = buf[1 - b] /\ buf'[b].off = buf[b].off
        /\ buf'[b].data[k] = a
        /\ \A i \in 1 .. BufLen + 1 : i # k => buf'[b].data[i] = buf[b].data[i]
    <3>1. buf'[b].data[k] = a
      BY <1>1, <2>1 DEF Buffer
    <3> QED
      BY <1>1, <2>1, <3>1, BufferCopy
  <2>3. \A d \in 0 .. 1 : \A i \in 1 .. BufLen + 1 :
           /\ buf'[d].off = buf[d].off
           /\ buf'[d].data[i] = buf[d].data[i] \/ buf'[d].data[i] \in Adders
    <3>1. \A d \in 0 .. 1 : d = b \/ d = 1 - b
      BY <2>1
    <3> QED
      BY <2>2, <3>1
  <2>4. \A c \in Adders \ {a} : addPc'[c] = addPc[c] /\ addOff'[c] = addOff[c]
    BY <1>4 DEF AddCopy, TypeOK
  <2>5. addOff'[a] = k /\ addBuf' = addBuf /\ addBuf[a] = b
    BY <1>4, <2>1 DEF AddCopy, TypeOK
  <2>6. \A i \in 1 .. BufLen + 1 : i <= k => buf'[b].data[i] \in Adders
    <3> SUFFICES ASSUME NEW i \in 1 .. BufLen + 1, i <= k, i # k
                 PROVE  buf'[b].data[i] \in Adders
      BY <2>2
    <3>1. i <= buf[b].off
      BY <1>1, <2>1 DEF Buffer
    <3> QED
      BY <2>1, <2>3, <3>1 DEF Filled
  <2>7. \A c \in Adders \ {a} : addPc'[c] = "publish" =>
           \A i \in 1 .. BufLen + 1 : i <= addOff'[c] => buf'[addBuf'[c]].data[i] \in Adders
    BY <2>3, <2>4, <2>5 DEF Filled, TypeOK
  <2>8. \A d \in 0 .. 1 : \A i \in 1 .. BufLen + 1 :
           i <= buf'[d].off => buf'[d].data[i] \in Adders
    BY <2>3 DEF Filled
  <2> QED
    BY <2>5, <2>6, <2>7, <2>8 DEF Filled
<1>5. ASSUME NEW a \in Adders, AddPublish(a) PROVE Filled'
  <2> DEFINE b == addBuf[a]
  <2>1. /\ b \in 0 .. 1 /\ addOff[a] \in 0 .. BufLen + 1
        /\ buf' = [buf EXCEPT ![b].off = addOff[a], ![b].num = @ + 1]
        /\ addPc[a] = "publish" /\ UNCHANGED <<addOff, addBuf>>
        /\ \A c \in Adders : addPc'[c] = "publish" => addPc[c] = "publish"
    BY <1>5 DEF AddPublish, TypeOK
  <2>2. /\ buf'[1 - b] = buf[1 - b] /\ buf'[b].off = addOff[a]
        /\ buf'[b].data = buf[b].data
    BY <1>1, <2>1, BufferPublish
  <2>3. \A d \in 0 .. 1 : d = b \/ d = 1 - b
    BY <2>1
  <2>4. \A d \in 0 .. 1 : /\ buf'[d].data = buf[d].data
                          /\ d # b => buf'[d].off = buf[d].off
    BY <2>2, <2>3
  <2>5. \A d \in 0 .. 1 : \A i \in 1 .. BufLen + 1 :
           i <= buf'[d].off => buf'[d].data[i] \in Adders
    BY <2>1, <2>2, <2>4 DEF Filled
  <2> QED
    BY <2>1, <2>4, <2>5 DEF Filled, TypeOK
<1>6. ASSUME NEW a \in Adders, AddUnlock(a) PROVE Filled'
  BY <1>2, <1>6 DEF AddUnlock, TypeOK
<1>7. ASSUME XmitResetOff \/ XmitResetNum PROVE Filled'
  <2>1. xmitBuf \in 0 .. 1 /\ UNCHANGED <<addPc, addOff, addBuf>>
    BY <1>7 DEF XmitResetOff, XmitResetNum, TypeOK
  <2>2. /\ buf'[1 - xmitBuf] = buf[1 - xmitBuf] /\ buf'[xmitBuf].data = buf[xmitBuf].data
        /\ buf'[xmitBuf].off = buf[xmitBuf].off \/ buf'[xmitBuf].off = 0
    BY <1>1, <1>7, <2>1, BufferReset DEF XmitResetOff, XmitResetNum
  <2>3. \A d \in 0 .. 1 : d = xmitBuf \/ d = 1 - xmitBuf
    BY <2>1
  <2>4. \A d \in 0 .. 1 : /\ buf'[d].data = buf[d].data
                          /\ buf'[d].off = buf[d].off \/ buf'[d].off = 0
    BY <2>2, <2>3
  <2>5. \A d \in 0 .. 1 : \A i \in 1 .. BufLen + 1 :
           i <= buf'[d].off => buf'[d].data[i] \in Adders
    <3>1. \A i \in 1 .. BufLen + 1 : ~ (i <= 0)
      OBVIOUS
    <3> QED
      BY <2>4, <3>1 DEF Filled
  <2> QED
    BY <2>1, <2>4, <2>5 DEF Filled, TypeOK
<1>8. ASSUME \/ Tick \/ XmitWake \/ XmitDecide \/ XmitDrain \/ XmitSucceeds
             \/ XmitFails \/ XmitRelock \/ FreeSignal \/ FreeJoin \/ UNCHANGED vars
             \/ \E f \in Flushers : Flush(f)
      PROVE  Filled'
  BY <1>2, <1>8 DEF Tick, XmitWake, XmitDecide, XmitDrain, XmitSucceeds, XmitFails,
     XmitRelock, FreeSignal, FreeJoin, Flush, FlushBegin, FlushResume, vars
<1> QED
  BY <1>3, <1>4, <1>5, <1>6, <1>7, <1>8 DEF Next, AddSpan, Xmit, Freed

\* The variables have their types: no copy goes past the end of a buffer by more
\* than the one span that the missing lock lets through.
THEOREM TypeCorrect == Spec => [](TypeOK /\ Filled)
<1>1. Init => TypeOK /\ Filled
  <2> SUFFICES ASSUME Init PROVE TypeOK /\ Filled
    OBVIOUS
  <2>1. EmptyBuf \in Buffer /\ EmptyBuf.off = 0
    BY HtracedRcvAssumption DEF EmptyBuf, Buffer, Nothing
  <2>2. buf \in [0 .. 1 -> Buffer] /\ \A b \in 0 .. 1 : buf[b].off = 0
    BY <2>1 DEF Init
  <2>3. \A i \in 1 .. BufLen + 1 : ~ (i <= 0)
    OBVIOUS
  <2>4. Filled
    BY <2>2, <2>3 DEF Init, Filled
  <2>5. clock \in Nat /\ lastSend \in Nat /\ xmitPc \in XmitPcs
    BY HtracedRcvAssumption DEF Init, XmitPcs
  <2>6. /\ addBuf \in [Adders -> 0 .. 1] /\ addOff \in [Adders -> 0 .. BufLen + 1]
        /\ mustSend \in [Flushers -> SUBSET Adders]
    BY HtracedRcvAssumption DEF Init
  <2>7. /\ addPc \in [Adders -> {"start", "copy", "publish", "unlock", "done"}]
        /\ flushPc \in [Flushers -> {"start", "wait", "woken", "done"}]
        /\ flushNow \in [Flushers -> Nat] /\ freePc \in {"start", "join", "freed"}
    BY DEF Init
  <2>8. active \in 0 .. 1 /\ xmitBuf \in 0 .. 1 /\ xmitNow \in Nat /\ tries \in Nat
    BY DEF Init
  <2>9. /\ shutdown \in BOOLEAN /\ lock \in threads \cup {NoOne}
        /\ delivered \subseteq Adders /\ gaveUp \subseteq Adders
    BY Zenon DEF Init
  <2> QED
    BY <2>2, <2>4, <2>5, <2>6, <2>7, <2>8, <2>9 DEF TypeOK, Buffer
<1>2. TypeOK /\ Filled /\ [Next]_vars => TypeOK'
  <2> SUFFICES ASSUME TypeOK, Filled, [Next]_vars PROVE TypeOK'
    OBVIOUS
  <2> USE DEF addVars, xmitVars, flushVars, serverVars
  <2>1. buf \in [0 .. 1 -> Buffer] /\ BufLen \in Nat /\ NoOne \in threads \cup {NoOne}
    BY HtracedRcvAssumption DEF TypeOK, Buffer
  <2>2. \A b \in 0 .. 1 : Contents(b) \subseteq Adders
    BY DEF Contents, Filled
  <2>3. ASSUME Tick PROVE TypeOK'
    BY <2>3 DEF Tick, TypeOK
  <2>4. ASSUME NEW a \in Adders, AddLock(a) PROVE TypeOK'
    BY <2>4 DEF AddLock, TypeOK, threads
  <2>5. ASSUME NEW a \in Adders, AddCopy(a) PROVE TypeOK'
    <3>1. /\ addBuf[a] \in 0 .. 1 /\ buf[addBuf[a]].off + 1 \in 1 .. BufLen + 1
          /\ buf' = [buf EXCEPT ![addBuf[a]].data[buf[addBuf[a]].off + 1] = a]
      BY <2>1, <2>5 DEF AddCopy, TypeOK
    <3>2. buf' \in [0 .. 1 -> Buffer]
      BY <2>1, <3>1, BufferCopy
    <3>3. addOff' \in [Adders -> 0 .. BufLen + 1]
      BY <2>5, <3>1 DEF AddCopy, TypeOK
    <3> QED
      BY <2>5, <3>2, <3>3 DEF AddCopy, TypeOK, Buffer
  <2>6. ASSUME NEW a \in Adders, AddPublish(a) PROVE TypeOK'
    <3>1. /\ addBuf[a] \in 0 .. 1 /\ addOff[a] \in 0 .. BufLen + 1
          /\ buf' = [buf EXCEPT ![addBuf[a]].off = addOff[a], ![addBuf[a]].num = @ + 1]
      BY <2>6 DEF AddPublish, TypeOK
    <3>2. buf' \in [0 .. 1 -> Buffer]
      BY <2>1, <3>1, BufferPublish
    <3> QED
      BY <2>6, <3>2 DEF AddPublish, TypeOK, Buffer
  <2>7. ASSUME NEW a \in Adders, AddUnlock(a) PROVE TypeOK'
    BY <2>7 DEF AddUnlock, TypeOK
  <2>8. ASSUME XmitWake \/ XmitRelock PROVE TypeOK'
    BY <2>8 DEF XmitWake, XmitRelock, TypeOK, threads, XmitPcs
  <2>9. ASSUME XmitDecide \/ XmitDrain PROVE TypeOK'
    <3>1. 1 - active \in 0 .. 1
      BY DEF TypeOK
    <3> QED
      BY <2>9, <3>1 DEF XmitDecide, XmitDrain, Flip, TypeOK, XmitPcs, SendingPcs
  <2>10. ASSUME XmitSucceeds \/ XmitFails PROVE TypeOK'
    <3>1. Contents(xmitBuf) \subseteq Adders
      BY <2>2 DEF TypeOK
    <3> QED
      BY <2>10, <3>1 DEF XmitSucceeds, XmitFails, ResetPc, TypeOK, XmitPcs, ResettingPcs
  <2>11. ASSUME XmitResetOff \/ XmitResetNum PROVE TypeOK'
    <3>1. buf' \in [0 .. 1 -> Buffer]
      BY <2>1, <2>11, BufferReset DEF XmitResetOff, XmitResetNum, TypeOK
    <3> QED
      BY <2>11, <3>1 DEF XmitResetOff, XmitResetNum, TypeOK, Buffer, XmitPcs, ResettingPcs
  <2>12. ASSUME NEW f \in Flushers, Flush(f) PROVE TypeOK'
    <3>1. Buffered \subseteq Adders
      BY <2>2 DEF Buffered
    <3>2. /\ flushPc' \in [Flushers -> {"start", "wait", "woken", "done"}]
          /\ lastSend' \in Nat
      <4>1. PICK now : FlushLoop(f, now)
        BY <2>12 DEF Flush, FlushBegin, FlushResume
      <4>2. \/ flushPc' = [flushPc EXCEPT ![f] = "done"] /\ lastSend' = lastSend
            \/ flushPc' = [flushPc EXCEPT ![f] = "wait"] /\ lastSend' = 0
        BY <4>1, Zenon DEF FlushLoop
      <4>3. flushPc \in [Flushers -> {"start", "wait", "woken", "done"}] /\ lastSend \in Nat
        BY DEF TypeOK
      <4>4. lastSend' \in Nat
        BY <4>2, <4>3
      <4>5. flushPc' \in [Flushers -> {"start", "wait", "woken", "done"}]
        BY <4>2, <4>3
      <4> QED
        BY <4>4, <4>5
    <3>4. flushNow' \in [Flushers -> Nat]
      BY <2>12 DEF Flush, FlushBegin, FlushResume, TypeOK
    <3>3. mustSend' \in [Flushers -> SUBSET Adders]
      BY <2>12, <3>1 DEF Flush, FlushBegin, FlushResume, TypeOK
    <3> QED
      BY <2>12, <3>2, <3>3, <3>4 DEF Flush, FlushBegin, FlushResume, TypeOK
  <2>13. ASSUME FreeSignal \/ FreeJoin PROVE TypeOK'
    BY <2>13 DEF FreeSignal, FreeJoin, TypeOK
  <2>14. ASSUME UNCHANGED vars PROVE TypeOK'
    BY <2>14 DEF vars, TypeOK
  <2> QED
    BY <2>3, <2>4, <2>5, <2>6, <2>7, <2>8, <2>9, <2>10, <2>11, <2>12, <2>13, <2>14
       DEF Next, AddSpan, Xmit, Freed
<1>3. TypeOK /\ Filled /\ [Next]_vars => Filled'
  BY FilledStep
<1> QED
  BY <1>1, <1>2, <1>3, PTL DEF Spec

-----------------------------------------------------------------------------
\* What the steps do to the contents of the buffers.

\* A step that leaves the buffers alone leaves their contents alone.
LEMMA SameContents ==
    ASSUME buf' = buf
    PROVE  /\ \A b \in 0 .. 1 : Contents(b)' = Contents(b)
           /\ Buffered' = Buffered
BY DEF Contents, Buffered

\* Copying changes neither the offsets nor the contents.
LEMMA CopyContents ==
    ASSUME TypeOK, NEW a \in Adders, AddCopy(a)
    PROVE  /\ \A b \in 0 .. 1 : buf'[b].off = buf[b].off /\ Contents(b)' = Contents(b)
           /\ addBuf[a] \in 0 .. 1 /\ addOff'[a] = buf[addBuf[a]].off + 1
           /\ addOff'[a] \in 1 .. BufLen + 1
           /\ buf'[addBuf[a]].data[addOff'[a]] = a
           /\ buf'[1 - addBuf[a]] = buf[1 - addBuf[a]]
<1>1. buf \in [0 .. 1 -> Buffer] /\ BufLen \in Nat
  BY HtracedRcvAssumption DEF TypeOK, Buffer
<1>2. PICK b \in 0 .. 1, k \in 1 .. BufLen + 1 :
         /\ b = addBuf[a] /\ k = buf[b].off + 1 /\ addOff'[a] = k
         /\ buf' = [buf EXCEPT ![b].data[k] = a]
  <2>1. addBuf[a] \in 0 .. 1 /\ buf[addBuf[a]].off + 1 \in 1 .. BufLen + 1
    BY <1>1 DEF AddCopy, TypeOK
  <2> QED
    BY <2>1 DEF AddCopy, TypeOK
<1>3. buf'[b].data[k] = a
  BY <1>1, <1>2 DEF Buffer
<1>4. /\ buf'[1 - b] = buf[1 - b] /\ buf'[b].off = buf[b].off
      /\ \A i \in 1 .. BufLen + 1 : i # k => buf'[b].data[i] = buf[b].data[i]
  BY <1>1, <1>2, BufferCopy
<1>5. Contents(b)' = Contents(b)
  <2>1. \A i \in 1 .. BufLen + 1 : i <= buf[b].off => i # k
    BY <1>1, <1>2 DEF Buffer
  <2> QED
    BY <1>4, <2>1 DEF Contents
<1>6. Contents(1 - b)' = Contents(1 - b)
  BY <1>4 DEF Contents
<1>7. \A d \in 0 .. 1 : d = b \/ d = 1 - b
  BY <1>2
<1> QED
  BY <1>2, <1>3, <1>4, <1>5, <1>6, <1>7

\* Publishing at the place behind the offset adds the span to the contents.
LEMMA PublishContents ==
    ASSUME TypeOK, NEW a \in Adders, AddPublish(a),
           addOff[a] = buf[addBuf[a]].off + 1, buf[addBuf[a]].data[addOff[a]] = a
    PROVE  /\ addBuf[a] \in 0 .. 1 /\ buf'[addBuf[a]].off = addOff[a]
           /\ buf'[addBuf[a]].data = buf[addBuf[a]].data
           /\ Contents(addBuf[a])' = Contents(addBuf[a]) \cup {a}
           /\ Contents(1 - addBuf[a])' = Contents(1 - addBuf[a])
           /\ buf'[1 - addBuf[a]] = buf[1 - addBuf[a]]
<1>1. buf \in [0 .. 1 -> Buffer] /\ BufLen \in Nat
  BY HtracedRcvAssumption DEF TypeOK, Buffer
<1>2. PICK b \in 0 .. 1, o \in 0 .. BufLen + 1 :
         /\ b = addBuf[a] /\ o = addOff[a]
         /\ buf' = [buf EXCEPT ![b].off = o, ![b].num = @ + 1]
  BY DEF AddPublish, TypeOK
<1>3. /\ buf'[1 - b] = buf[1 - b] /\ buf'[b].off = o
      /\ buf'[b].data = buf[b].data
  BY <1>1, <1>2, BufferPublish
<1>4. buf[b].off \in 0 .. BufLen + 1 /\ o = buf[b].off + 1 /\ buf[b].data[o] = a
  BY <1>1, <1>2 DEF Buffer
<1>5. \A i \in 1 .. BufLen + 1 : i <= o <=> i <= buf[b].off \/ i = o
  BY <1>4
<1>6. o \in 1 .. BufLen + 1
  BY <1>2, <1>4
<1>7. Contents(b)' = Contents(b) \cup {a}
  BY <1>3, <1>4, <1>5, <1>6 DEF Contents
<1>8. Contents(1 - b)' = Contents(1 - b)
  BY <1>3 DEF Contents
<1>9. addBuf' = addBuf
  BY DEF AddPublish
<1> QED
  BY <1>2, <1>3, <1>7, <1>8, <1>9

\* Resetting the offset empties the buffer that was sent; resetting the number
\* changes no contents.
LEMMA ResetContents ==
    ASSUME TypeOK, XmitResetOff \/ XmitResetNum
    PROVE  /\ xmitBuf \in 0 .. 1 /\ buf'[1 - xmitBuf] = buf[1 - xmitBuf]
           /\ Contents(1 - xmitBuf)' = Contents(1 - xmitBuf)
           /\ XmitResetOff => buf'[xmitBuf].off = 0 /\ Contents(xmitBuf)' = {}
           /\ XmitResetNum => /\ buf'[xmitBuf].off = buf[xmitBuf].off
                              /\ Contents(xmitBuf)' = Contents(xmitBuf)
<1>1. buf \in [0 .. 1 -> Buffer] /\ BufLen \in Nat
  BY HtracedRcvAssumption DEF TypeOK, Buffer
<1>2. PICK b \in 0 .. 1 : b = xmitBuf
  BY DEF TypeOK
<1>3. XmitResetOff => buf' = [buf EXCEPT ![b].off = 0]
  BY <1>2 DEF XmitResetOff
<1>4. XmitResetNum => buf' = [buf EXCEPT ![b].num = 0]
  BY <1>2 DEF XmitResetNum
<1>5. /\ buf'[1 - b] = buf[1 - b] /\ buf'[b].data = buf[b].data
      /\ XmitResetOff => buf'[b].off = 0
      /\ XmitResetNum => buf'[b].off = buf[b].off
  BY <1>1, <1>2, <1>3, <1>4, BufferReset
<1>6. XmitResetOff => Contents(b)' = {}
  <2>1. \A i \in 1 .. BufLen + 1 : ~ (i <= 0)
    OBVIOUS
  <2> QED
    BY <1>5, <2>1 DEF Contents
<1>7. XmitResetNum => Contents(b)' = Contents(b)
  BY <1>5 DEF Contents
<1>8. Contents(1 - b)' = Contents(1 - b)
  BY <1>5 DEF Contents
<1>9. xmitBuf' = xmitBuf
  BY DEF XmitResetOff, XmitResetNum
<1> QED
  BY <1>2, <1>5, <1>6, <1>7, <1>8, <1>9

\* A buffer whose offset is 0 holds nothing, and both make up Buffered.
LEMMA EmptyContents ==
    ASSUME TypeOK, NEW b \in 0 .. 1
    PROVE  /\ buf[b].off = 0 => Contents(b) = {}
           /\ Buffered = Contents(b) \cup Contents(1 - b)
<1>1. \A i \in 1 .. BufLen + 1 : ~ (i <= 0)
  OBVIOUS
<1>2. b = 0 \/ b = 1
  OBVIOUS
<1>3. 1 - 0 = 1 /\ 1 - 1 = 0
  OBVIOUS
<1>4. Buffered = Contents(b) \cup Contents(1 - b)
  BY <1>2, <1>3 DEF Buffered
<1> QED
  BY <1>1, <1>4 DEF Contents

-----------------------------------------------------------------------------
\* The parts of the invariant, as long as spans are copied with the lock.

\* A thread that has the mutex keeps it until it unlocks.
LEMMA LockStep ==
    ASSUME TypeOK, CopiesWithLockAndSpace', LockInv, [Next]_vars
    PROVE  LockInv'
<1> USE DEF addVars, xmitVars, flushVars, serverVars
<1>1. NoOne \notin Adders /\ "xmit" \notin Adders /\ NoOne # "xmit"
  BY HtracedRcvAssumption
<1>2. ASSUME NEW a \in Adders, AddLock(a) PROVE LockInv'
  <2>1. /\ addPc'[a] = "copy" /\ xmitPc' = xmitPc /\ lock = NoOne
        /\ \A c \in Adders \ {a} : addPc'[c] = addPc[c]
    BY <1>2 DEF AddLock, TypeOK
  <2>2. lock' = a
    BY <2>1 DEF CopiesWithLockAndSpace
  <2> QED
    BY <1>1, <2>1, <2>2 DEF LockInv
<1>3. ASSUME NEW a \in Adders, AddCopy(a) \/ AddPublish(a) PROVE LockInv'
  BY <1>3 DEF AddCopy, AddPublish, LockInv, TypeOK
<1>4. ASSUME NEW a \in Adders, AddUnlock(a) PROVE LockInv'
  <2>1. lock = a /\ lock' = NoOne
    BY <1>4 DEF AddUnlock, LockInv
  <2> QED
    BY <1>1, <1>4, <2>1 DEF AddUnlock, LockInv, TypeOK
<1>5. ASSUME XmitWake \/ XmitRelock PROVE LockInv'
  BY <1>1, <1>5 DEF XmitWake, XmitRelock, LockInv
<1>6. ASSUME XmitDecide \/ XmitDrain PROVE LockInv'
  BY <1>1, <1>6 DEF XmitDecide, XmitDrain, Flip, LockInv
<1>7. ASSUME XmitSucceeds \/ XmitFails \/ XmitResetOff \/ XmitResetNum PROVE LockInv'
  BY <1>7 DEF XmitSucceeds, XmitFails, XmitResetOff, XmitResetNum, ResetPc, LockInv
<1>8. ASSUME \/ Tick \/ FreeSignal \/ FreeJoin \/ UNCHANGED vars
             \/ \E f \in Flushers : Flush(f)
      PROVE  LockInv'
  BY <1>8 DEF Tick, FreeSignal, FreeJoin, Flush, FlushBegin, FlushResume, vars, LockInv
<1> QED
  BY <1>2, <1>3, <1>4, <1>5, <1>6, <1>7, <1>8 DEF Next, AddSpan, Xmit, Freed

\* The flip gives the background thread a buffer that no adder is writing to, and
\* the adders one that is empty.
LEMMA BufStep ==
    ASSUME TypeOK, LockInv, BufInv, [Next]_vars
    PROVE  BufInv'
<1> USE DEF addVars, xmitVars, flushVars, serverVars
<1>1. NoOne \notin Adders /\ "xmit" \notin Adders /\ NoOne # "xmit"
  BY HtracedRcvAssumption
<1>2. /\ active \in 0 .. 1 /\ xmitBuf \in 0 .. 1 /\ 1 - active \in 0 .. 1
      /\ 1 - active # active /\ 1 - (1 - active) = active
  BY DEF TypeOK
<1>3. ASSUME NEW a \in Adders, AddLock(a) PROVE BufInv'
  BY <1>1, <1>3 DEF AddLock, BufInv, LockInv, TypeOK
<1>4. ASSUME NEW a \in Adders, AddCopy(a) PROVE BufInv'
  <2>1. /\ addBuf[a] = active /\ UNCHANGED <<active, addBuf, xmitPc, xmitBuf>>
        /\ addPc'[a] = "publish"
        /\ \A c \in Adders \ {a} : addPc'[c] \notin {"copy", "publish"}
    BY <1>4 DEF AddCopy, BufInv, LockInv, TypeOK
  <2>2. /\ addOff'[a] = buf'[active].off + 1 /\ buf'[active].data[addOff'[a]] = a
        /\ buf'[1 - active].off = buf[1 - active].off
    BY <1>2, <1>4, <2>1, CopyContents
  <2> QED
    BY <2>1, <2>2 DEF BufInv
<1>5. ASSUME NEW a \in Adders, AddPublish(a) PROVE BufInv'
  <2>1. /\ addBuf[a] = active /\ UNCHANGED <<active, addBuf, xmitPc, xmitBuf>>
        /\ addOff[a] = buf[addBuf[a]].off + 1 /\ buf[addBuf[a]].data[addOff[a]] = a
        /\ \A c \in Adders : addPc'[c] \notin {"copy", "publish"}
    BY <1>5 DEF AddPublish, BufInv, LockInv, TypeOK
  <2>2. buf'[1 - active] = buf[1 - active]
    BY <1>5, <2>1, PublishContents
  <2> QED
    BY <2>1, <2>2 DEF BufInv
<1>6. ASSUME NEW a \in Adders, AddUnlock(a) PROVE BufInv'
  BY <1>6 DEF AddUnlock, BufInv, TypeOK
<1>7. ASSUME XmitDecide \/ XmitDrain PROVE BufInv'
  <2>1. /\ \A a \in Adders : addPc'[a] \notin {"copy", "publish"}
        /\ xmitPc \notin Unsent /\ buf' = buf
    BY <1>1, <1>7 DEF XmitDecide, XmitDrain, LockInv, Unsent
  <2>2. CASE xmitPc' \in {"send", "sendLast"}
    <3>1. xmitBuf' = active /\ active' = 1 - active
      BY <1>7, <2>2 DEF XmitDecide, XmitDrain, Flip
    <3> QED
      BY <1>2, <2>1, <2>2, <3>1 DEF BufInv, Unsent
  <2>3. CASE xmitPc' \notin {"send", "sendLast"}
    <3>1. active' = active /\ xmitPc' \in {"wait", "drain", "exited"}
      BY <1>7, <2>3 DEF XmitDecide, XmitDrain, Flip
    <3> QED
      BY <2>1, <3>1 DEF BufInv, SendingPcs, ResettingPcs
  <2> QED
    BY <2>2, <2>3
<1>8. ASSUME XmitResetOff \/ XmitResetNum PROVE BufInv'
  <2>1. /\ xmitBuf = 1 - active /\ UNCHANGED <<active, xmitBuf, addPc, addBuf, addOff>>
        /\ xmitPc' \notin {"send", "sendLast", "resetOff", "resetOffLast"}
        /\ XmitResetNum => xmitPc \notin Unsent
    BY <1>8 DEF XmitResetOff, XmitResetNum, BufInv, ResettingPcs, Unsent
  <2>2. buf'[active] = buf[active] /\ buf'[1 - active].off = 0
    BY <1>2, <1>8, <2>1, ResetContents DEF BufInv
  <2> QED
    BY <2>1, <2>2 DEF BufInv
<1>9. ASSUME XmitWake \/ XmitSucceeds \/ XmitFails \/ XmitRelock PROVE BufInv'
  BY <1>9 DEF XmitWake, XmitSucceeds, XmitFails, XmitRelock, ResetPc, BufInv, Unsent,
              SendingPcs, ResettingPcs
<1>10. ASSUME \/ Tick \/ FreeSignal \/ FreeJoin \/ UNCHANGED vars
              \/ \E f \in Flushers : Flush(f)
       PROVE  BufInv'
  BY <1>10 DEF Tick, FreeSignal, FreeJoin, Flush, FlushBegin, FlushResume, vars, BufInv
<1> QED
  BY <1>3, <1>4, <1>5, <1>6, <1>7, <1>8, <1>9, <1>10 DEF Next, AddSpan, Xmit, Freed

\* The spans that are in a buffer, sent or given up.
Safe == Buffered \cup delivered \cup gaveUp

\* No step loses one of them: a buffer is reset only when its contents have been
\* sent or given up.
LEMMA SafeStep ==
    ASSUME TypeOK, LockInv, BufInv, [Next]_vars,
           xmitPc \in {"resetOff", "resetOffLast"} =>
              Contents(xmitBuf) \subseteq delivered \cup gaveUp
    PROVE  Safe \subseteq Safe' /\ delivered \subseteq delivered' /\ gaveUp \subseteq gaveUp'
<1> USE DEF addVars, xmitVars, flushVars, serverVars
<1>1. active \in 0 .. 1 /\ xmitBuf \in 0 .. 1
  BY DEF TypeOK
<1>2. ASSUME NEW a \in Adders, AddCopy(a)
      PROVE  Safe \subseteq Safe' /\ delivered \subseteq delivered' /\ gaveUp \subseteq gaveUp'
  <2>1. Buffered' = Buffered
    BY <1>2, CopyContents DEF Buffered
  <2> QED
    BY <1>2, <2>1 DEF AddCopy, Safe
<1>3. ASSUME NEW a \in Adders, AddPublish(a)
      PROVE  Safe \subseteq Safe' /\ delivered \subseteq delivered' /\ gaveUp \subseteq gaveUp'
  <2>1. /\ addBuf[a] = active /\ UNCHANGED <<addBuf, delivered, gaveUp>>
        /\ addOff[a] = buf[addBuf[a]].off + 1 /\ buf[addBuf[a]].data[addOff[a]] = a
    BY <1>3 DEF AddPublish, BufInv
  <2>2. /\ Contents(active) \subseteq Contents(addBuf[a])'
        /\ Contents(1 - active) = Contents(1 - addBuf[a])'
    BY <1>3, <2>1, PublishContents
  <2>3. addBuf'[a] = active
    BY <2>1
  <2>4. active = 0 \/ active = 1
    BY <1>1
  <2>5. 1 - 0 = 1 /\ 1 - 1 = 0
    OBVIOUS
  <2>6. Buffered \subseteq Buffered'
    BY <2>2, <2>3, <2>4, <2>5 DEF Buffered
  <2> QED
    BY <2>1, <2>6 DEF Safe
<1>4. ASSUME XmitResetOff \/ XmitResetNum
      PROVE  Safe \subseteq Safe' /\ delivered \subseteq delivered' /\ gaveUp \subseteq gaveUp'
  <2>1. /\ Contents(1 - xmitBuf)' = Contents(1 - xmitBuf)
        /\ XmitResetNum => Contents(xmitBuf)' = Contents(xmitBuf)
        /\ UNCHANGED <<xmitBuf, delivered, gaveUp>>
    BY <1>4, ResetContents DEF XmitResetOff, XmitResetNum
  <2>2. XmitResetOff => Contents(xmitBuf) \subseteq delivered \cup gaveUp
    BY DEF XmitResetOff
  <2>3. xmitBuf = 0 \/ xmitBuf = 1
    BY <1>1
  <2>4. 1 - 0 = 1 /\ 1 - 1 = 0
    OBVIOUS
  <2>5. Buffered \subseteq Buffered' \cup delivered \cup gaveUp
    BY <1>4, <2>1, <2>2, <2>3, <2>4 DEF Buffered
  <2> QED
    BY <2>1, <2>5 DEF Safe
<1>5. ASSUME buf' = buf
      PROVE  Safe \subseteq Safe' /\ delivered \subseteq delivered' /\ gaveUp \subseteq gaveUp'
  <2>1. Buffered' = Buffered
    BY <1>5, SameContents
  <2>2. delivered \subseteq delivered' /\ gaveUp \subseteq gaveUp'
    BY DEF Next, AddSpan, Xmit, Freed, Flush, Tick, AddLock, AddCopy, AddPublish,
           AddUnlock, XmitWake, XmitDecide, XmitDrain, XmitSucceeds, XmitFails,
           XmitResetOff, XmitResetNum, XmitRelock, FlushBegin, FlushResume,
           FreeSignal, FreeJoin, vars
  <2> QED
    BY <2>1, <2>2 DEF Safe
<1>6. \/ buf' = buf \/ XmitResetOff \/ XmitResetNum
      \/ \E a \in Adders : AddCopy(a) \/ AddPublish(a)
  BY DEF Next, AddSpan, Xmit, Freed, Flush, Tick, AddLock, AddUnlock, XmitWake,
         XmitDecide, XmitDrain, XmitSucceeds, XmitFails, XmitRelock, FlushBegin,
         FlushResume, FreeSignal, FreeJoin, vars
<1> QED
  BY <1>2, <1>3, <1>4, <1>5, <1>6

\* While a buffer is being sent, and until it is reset, its contents stay the same.
LEMMA SentContents ==
    ASSUME TypeOK, BufInv, [Next]_vars, xmitPc \in Unsent, xmitPc' \in Unsent
    PROVE  xmitBuf' = xmitBuf /\ Contents(xmitBuf)' = Contents(xmitBuf)
<1> USE DEF addVars, xmitVars, flushVars, serverVars
<1>1. xmitBuf = 1 - active /\ active \in 0 .. 1
  BY DEF BufInv, Unsent, SendingPcs, ResettingPcs, TypeOK
<1>2. xmitBuf' = xmitBuf /\ ~ XmitResetOff /\ ~ XmitResetNum
  BY DEF Unsent, Next, AddSpan, Xmit, Freed, Flush, Tick, AddLock, AddCopy,
     AddPublish, AddUnlock, XmitWake, XmitDecide, XmitDrain, XmitSucceeds,
     XmitFails, XmitResetOff, XmitResetNum, XmitRelock, FlushBegin, FlushResume,
     FreeSignal, FreeJoin, vars
<1>3. ASSUME NEW a \in Adders, AddCopy(a) PROVE Contents(xmitBuf)' = Contents(xmitBuf)
  BY <1>2, <1>3, CopyContents DEF TypeOK
<1>4. ASSUME NEW a \in Adders, AddPublish(a) PROVE  Contents(xmitBuf)' = Contents(xmitBuf)
  <2>1. /\ addBuf[a] = active /\ addBuf' = addBuf
        /\ addOff[a] = buf[addBuf[a]].off + 1 /\ buf[addBuf[a]].data[addOff[a]] = a
    BY <1>4 DEF AddPublish, BufInv
  <2>2. Contents(1 - addBuf[a])' = Contents(1 - addBuf[a])
    BY <1>4, <2>1, PublishContents
  <2> QED
    BY <1>1, <1>2, <2>1, <2>2
<1>5. ASSUME buf' = buf PROVE Contents(xmitBuf)' = Contents(xmitBuf)
  BY <1>2, <1>5 DEF Contents
<1>6. buf' = buf \/ \E a \in Adders : AddCopy(a) \/ AddPublish(a)
  BY <1>2 DEF Next, AddSpan, Xmit, Freed, Flush, Tick, AddLock, AddUnlock,
     XmitWake, XmitDecide, XmitDrain, XmitSucceeds, XmitFails, XmitRelock,
     FlushBegin, FlushResume, FreeSignal, FreeJoin, vars
<1> QED
  BY <1>2, <1>3, <1>4, <1>5, <1>6

\* A span is in one place from the moment it is published.
LEMMA SpanStep ==
    ASSUME TypeOK, LockInv, BufInv, SpanInv, [Next]_vars
    PROVE  SpanInv'
<1> USE DEF addVars, xmitVars, flushVars, serverVars
<1>1. Safe \subseteq Safe' /\ delivered \subseteq delivered' /\ gaveUp \subseteq gaveUp'
  BY SafeStep DEF SpanInv
<1>2. InOnePlace'
  <2> SUFFICES ASSUME NEW a \in Adders, Published(a)' PROVE a \in Safe'
    BY DEF InOnePlace, Safe
  <2>1. CASE Published(a)
    BY <1>1, <2>1 DEF SpanInv, InOnePlace, Safe
  <2>2. CASE ~ Published(a)
    <3>1. PICK c \in Adders : AddSpan(c)
      BY <2>2 DEF Published, Next, Xmit, Freed, Flush, Tick, XmitWake, XmitDecide,
         XmitDrain, XmitSucceeds, XmitFails, XmitResetOff, XmitResetNum, XmitRelock,
         FlushBegin, FlushResume, FreeSignal, FreeJoin, vars
    <3>2. c = a /\ AddPublish(a)
      BY <2>2, <3>1 DEF AddSpan, AddLock, AddCopy, AddPublish, AddUnlock, Published, TypeOK
    <3>3. /\ addBuf[a] = active /\ active \in 0 .. 1 /\ addBuf' = addBuf
          /\ addOff[a] = buf[addBuf[a]].off + 1 /\ buf[addBuf[a]].data[addOff[a]] = a
      BY <3>2 DEF AddPublish, BufInv, TypeOK
    <3>4. a \in Contents(addBuf[a])'
      BY <3>2, <3>3, PublishContents
    <3>5. active = 0 \/ active = 1
      BY <3>3
    <3> QED
      BY <3>3, <3>4, <3>5 DEF Safe, Buffered
  <2> QED
    BY <2>1, <2>2
<1>3. ASSUME xmitPc' \in {"resetOff", "resetOffLast"}
      PROVE  Contents(xmitBuf)' \subseteq delivered' \cup gaveUp'
  <2>1. CASE xmitPc \in {"resetOff", "resetOffLast"}
    <3>1. Contents(xmitBuf)' = Contents(xmitBuf)
      BY <1>3, <2>1, SentContents DEF Unsent
    <3> QED
      BY <1>1, <2>1, <3>1 DEF SpanInv
  <2>2. CASE xmitPc \notin {"resetOff", "resetOffLast"}
    <3>1. XmitSucceeds \/ XmitFails
      BY <1>3, <2>2 DEF Next, AddSpan, Xmit, Freed, Flush, Tick, AddLock, AddCopy,
         AddPublish, AddUnlock, XmitWake, XmitDecide, XmitDrain, Flip,
         XmitResetOff, XmitResetNum, XmitRelock, FlushBegin, FlushResume,
         FreeSignal, FreeJoin, vars
    <3>2. buf' = buf /\ xmitBuf' = xmitBuf
      BY <3>1 DEF XmitSucceeds, XmitFails
    <3>3. Contents(xmitBuf)' = Contents(xmitBuf)
      BY <3>2 DEF Contents
    <3>4. xmitPc' # xmitPc
      BY <1>3, <2>2
    <3>5. Contents(xmitBuf) \subseteq delivered' \cup gaveUp'
      BY <3>1, <3>4 DEF XmitSucceeds, XmitFails
    <3> QED
      BY <3>3, <3>5
  <2> QED
    BY <2>1, <2>2
<1> QED
  BY <1>2, <1>3 DEF SpanInv

\* The receiver is freed when no adder runs; the background thread exits with
\* both buffers empty, and nobody fills them again.
LEMMA FreeStep ==
    ASSUME TypeOK, FreeInv, [Next]_vars
    PROVE  FreeInv'
<1> USE DEF addVars, xmitVars, flushVars, serverVars
<1>1. ASSUME NEW a \in Adders, AddSpan(a) PROVE FreeInv'
  <2>1. freePc = "start" /\ xmitPc \notin LastPcs
    BY <1>1 DEF AddSpan, AddLock, AddCopy, AddPublish, AddUnlock, FreeInv
  <2>2. UNCHANGED <<freePc, xmitPc, shutdown>>
    BY <1>1 DEF AddSpan, AddLock, AddCopy, AddPublish, AddUnlock
  <2> QED
    BY <2>1, <2>2 DEF FreeInv, LastPcs
<1>2. ASSUME XmitDecide \/ XmitDrain PROVE FreeInv'
  BY <1>2 DEF XmitDecide, XmitDrain, Flip, FreeInv, LastPcs, BufsEmpty
<1>3. ASSUME XmitWake \/ XmitSucceeds \/ XmitFails \/ XmitResetOff \/ XmitResetNum \/ XmitRelock
      PROVE  FreeInv'
  BY <1>3 DEF XmitWake, XmitSucceeds, XmitFails, XmitResetOff, XmitResetNum, XmitRelock,
              ResetPc, FreeInv, LastPcs
<1>4. ASSUME FreeSignal PROVE FreeInv'
  BY <1>4 DEF FreeSignal, Quiet, FreeInv, LastPcs, BufsEmpty
<1>5. ASSUME FreeJoin \/ Tick \/ UNCHANGED vars \/ \E f \in Flushers : Flush(f) PROVE FreeInv'
  BY <1>5 DEF FreeJoin, Tick, Flush, FlushBegin, FlushResume, vars, FreeInv, BufsEmpty
<1> QED
  BY <1>1, <1>2, <1>3, <1>4, <1>5 DEF Next, Xmit, Freed

\* A round of transmissions that begins after a flush takes along what the flush
\* waits for, and the end of a round is noted with the time of its beginning.
LEMMA FlushStep ==
    ASSUME TypeOK, LockInv, BufInv, SpanInv, FlushInv, [Next]_vars
    PROVE  FlushInv'
<1> USE DEF addVars, xmitVars, flushVars, serverVars
<1>1. Safe \subseteq Safe' /\ delivered \subseteq delivered' /\ gaveUp \subseteq gaveUp'
  BY SafeStep DEF SpanInv
<1>2. /\ clock \in Nat /\ lastSend \in Nat /\ xmitNow \in Nat
      /\ flushNow \in [Flushers -> Nat] /\ active \in 0 .. 1
      /\ flushPc \in [Flushers -> {"start", "wait", "woken", "done"}]
      /\ mustSend \in [Flushers -> SUBSET Adders]
  BY DEF TypeOK
<1>3. lastSend' <= clock' /\ xmitNow' <= clock'
  <2>1. lastSend <= clock /\ xmitNow <= clock
    BY DEF FlushInv
  <2>2. ASSUME Tick PROVE lastSend' <= clock' /\ xmitNow' <= clock'
    BY <1>2, <2>1, <2>2 DEF Tick
  <2>3. ASSUME ~ Tick PROVE lastSend' <= clock' /\ xmitNow' <= clock'
    <3>1. /\ clock' = clock /\ lastSend' \in {lastSend, xmitNow, 0}
          /\ xmitNow' \in {xmitNow, clock}
      BY <2>3 DEF Next, AddSpan, Xmit, Freed, Flush, AddLock, AddCopy,
         AddPublish, AddUnlock, XmitWake, XmitDecide, XmitDrain, XmitSucceeds,
         XmitFails, XmitResetOff, XmitResetNum, XmitRelock, FlushBegin, FlushResume,
         FlushLoop, FreeSignal, FreeJoin, vars
    <3> QED
      BY <1>2, <2>1, <3>1
  <2> QED
    BY <2>2, <2>3
<1>4. ASSUME NEW f \in Flushers, flushPc'[f] \in {"wait", "woken"}
      PROVE  /\ mustSend'[f] \subseteq Safe'
             /\ xmitPc' \in Unsent /\ xmitNow' > flushNow'[f]
                   => mustSend'[f] \subseteq Contents(xmitBuf)' \cup delivered' \cup gaveUp'
             /\ xmitPc' \in Sent /\ xmitNow' > flushNow'[f]
                   => mustSend'[f] \subseteq delivered' \cup gaveUp'
             /\ lastSend' > flushNow'[f] => mustSend'[f] \subseteq delivered' \cup gaveUp'
  <2>1. CASE FlushBegin(f)
    <3>1. flushNow'[f] = clock /\ mustSend'[f] = Buffered /\ clock' = clock
      BY <1>2, <2>1 DEF FlushBegin
    <3>2. ~ (xmitNow' > flushNow'[f]) /\ ~ (lastSend' > flushNow'[f])
      <4>1. lastSend' \in Nat /\ xmitNow' \in Nat
        BY <1>2, <2>1 DEF FlushBegin, FlushLoop
      <4> QED
        BY <1>2, <1>3, <3>1, <4>1
    <3> QED
      BY <1>1, <3>1, <3>2 DEF Safe
  <2>2. CASE ~ FlushBegin(f)
    <3>1. /\ flushPc[f] \in {"wait", "woken"}
          /\ flushNow'[f] = flushNow[f] /\ mustSend'[f] = mustSend[f]
      BY <1>2, <1>4, <2>2 DEF Next, AddSpan, Xmit, Freed, Flush, Tick, AddLock, AddCopy,
         AddPublish, AddUnlock, XmitWake, XmitDecide, XmitDrain, XmitSucceeds,
         XmitFails, XmitResetOff, XmitResetNum, XmitRelock, FlushBegin, FlushResume,
         FlushLoop, FreeSignal, FreeJoin, vars
    <3>2. /\ mustSend[f] \subseteq Safe
          /\ xmitPc \in Unsent /\ xmitNow > flushNow[f]
                => mustSend[f] \subseteq Contents(xmitBuf) \cup delivered \cup gaveUp
          /\ xmitPc \in Sent /\ xmitNow > flushNow[f]
                => mustSend[f] \subseteq delivered \cup gaveUp
          /\ lastSend > flushNow[f] => mustSend[f] \subseteq delivered \cup gaveUp
      BY <3>1 DEF FlushInv, Safe
    <3>3. ASSUME xmitPc' \in Unsent, xmitNow' > flushNow[f]
          PROVE  mustSend[f] \subseteq Contents(xmitBuf)' \cup delivered' \cup gaveUp'
      <4>1. xmitNow' = xmitNow
        BY <3>3 DEF Unsent, Next, AddSpan, Xmit, Freed, Flush, Tick, AddLock, AddCopy,
         AddPublish, AddUnlock, XmitWake, XmitDecide, XmitDrain, XmitSucceeds,
         XmitFails, XmitResetOff, XmitResetNum, XmitRelock, FlushBegin, FlushResume,
         FreeSignal, FreeJoin, vars
      <4>2. CASE xmitPc \in Unsent
        BY <1>1, <3>2, <3>3, <4>1, <4>2, SentContents
      <4>3. CASE xmitPc \notin Unsent
        <5>1. /\ xmitBuf' = active /\ UNCHANGED <<buf, delivered, gaveUp>>
          BY <3>3, <4>3 DEF Unsent, Next, AddSpan, Xmit, Freed, Flush, Tick, AddLock, AddCopy,
             AddPublish, AddUnlock, XmitWake, XmitDecide, XmitDrain, Flip, XmitSucceeds,
             XmitFails, XmitResetOff, XmitResetNum, XmitRelock, FlushBegin, FlushResume,
             FreeSignal, FreeJoin, vars
        <5>2. 1 - active \in 0 .. 1 /\ 1 - (1 - active) = active
          BY <1>2
        <5>3. Contents(1 - active) = {} /\ Buffered = Contents(1 - active) \cup Contents(active)
          BY <4>3, <5>2, EmptyContents DEF BufInv
        <5>4. Contents(xmitBuf)' = Contents(active)
          BY <5>1 DEF Contents
        <5> QED
          BY <3>2, <5>1, <5>3, <5>4 DEF Safe
      <4> QED
        BY <4>2, <4>3
    <3>4. ASSUME xmitPc' \in Sent, xmitNow' > flushNow[f]
          PROVE  mustSend[f] \subseteq delivered' \cup gaveUp'
      <4>1. xmitNow' = xmitNow
        BY <3>4 DEF Sent, Next, AddSpan, Xmit, Freed, Flush, Tick, AddLock, AddCopy,
         AddPublish, AddUnlock, XmitWake, XmitDecide, XmitDrain, XmitSucceeds,
         XmitFails, XmitResetOff, XmitResetNum, XmitRelock, FlushBegin, FlushResume,
         FreeSignal, FreeJoin, vars
      <4>2. CASE xmitPc \in Sent
        BY <1>1, <3>2, <3>4, <4>1, <4>2
      <4>3. CASE xmitPc \notin Sent
        <5>1. xmitPc \in {"resetOff", "resetOffLast"}
          BY <3>4, <4>3 DEF Sent, Next, AddSpan, Xmit, Freed, Flush, Tick, AddLock, AddCopy,
             AddPublish, AddUnlock, XmitWake, XmitDecide, XmitDrain, Flip, XmitSucceeds,
             XmitFails, ResetPc, XmitResetOff, XmitResetNum, XmitRelock, FlushBegin,
             FlushResume, FreeSignal, FreeJoin, vars
        <5>2. Contents(xmitBuf) \subseteq delivered \cup gaveUp
          BY <5>1 DEF SpanInv
        <5>3. mustSend[f] \subseteq Contents(xmitBuf) \cup delivered \cup gaveUp
          BY <3>2, <3>4, <4>1, <5>1 DEF Unsent
        <5> QED
          BY <1>1, <5>2, <5>3
      <4> QED
        BY <4>2, <4>3
    <3>5. ASSUME lastSend' > flushNow[f]
          PROVE  mustSend[f] \subseteq delivered' \cup gaveUp'
      <4>1. CASE XmitRelock
        BY <1>1, <3>2, <3>5, <4>1 DEF XmitRelock, Sent
      <4>2. CASE ~ XmitRelock
        <5>1. lastSend' = lastSend \/ lastSend' = 0
          BY <4>2 DEF Next, AddSpan, Xmit, Freed, Flush, Tick, AddLock, AddCopy,
             AddPublish, AddUnlock, XmitWake, XmitDecide, XmitDrain, XmitSucceeds,
             XmitFails, XmitResetOff, XmitResetNum, FlushBegin, FlushResume,
             FlushLoop, FreeSignal, FreeJoin, vars
        <5>2. ~ (0 > flushNow[f])
          BY <1>2
        <5> QED
          BY <1>1, <3>2, <3>5, <5>1, <5>2
      <4> QED
        BY <4>1, <4>2
    <3> QED
      BY <1>1, <3>1, <3>2, <3>3, <3>4, <3>5
  <2> QED
    BY <2>1, <2>2
<1> QED
  BY <1>3, <1>4 DEF FlushInv, Safe

\* The whole invariant.
RcvInv == LockInv /\ BufInv /\ SpanInv /\ FreeInv /\ FlushInv

\* It holds initially.
LEMMA RcvInvInit ==
    ASSUME Init PROVE RcvInv
<1>1. \A b \in 0 .. 1 : buf[b].off = 0
  BY DEF Init, EmptyBuf
<1>2. LockInv /\ BufInv /\ SpanInv
  BY <1>1 DEF Init, LockInv, BufInv, SpanInv, InOnePlace, Published, SendingPcs,
              ResettingPcs
<1>3. FreeInv
  <2>1. shutdown = FALSE /\ freePc = "start" /\ xmitPc = "begin"
    BY Zenon DEF Init
  <2> QED
    BY <2>1 DEF FreeInv, LastPcs
<1>4. FlushInv
  BY HtracedRcvAssumption DEF Init, FlushInv
<1> QED
  BY <1>2, <1>3, <1>4 DEF RcvInv

\* As long as every span is copied with the lock and into free space, the mutex
\* protects the active buffer, the flip separates the two buffers, and no span
\* falls between them.
THEOREM LockedCopiesInvariant ==
    Spec /\ []CopiesWithLockAndSpace => [](TypeOK /\ RcvInv)
<1>1. Init => RcvInv
  BY RcvInvInit
<1>2. TypeOK /\ CopiesWithLockAndSpace' /\ RcvInv /\ [Next]_vars => RcvInv'
  BY LockStep, BufStep, SpanStep, FreeStep, FlushStep DEF RcvInv
<1> QED
  BY <1>1, <1>2, TypeCorrect, PTL DEF Spec

\* Empty buffers hold nothing.
LEMMA NothingBuffered ==
    ASSUME TypeOK, BufsEmpty PROVE Buffered = {}
<1>1. 0 \in 0 .. 1 /\ 1 \in 0 .. 1
  OBVIOUS
<1>2. Contents(0) = {} /\ Contents(1) = {}
  BY <1>1, EmptyContents DEF BufsEmpty
<1> QED
  BY <1>2 DEF Buffered

\* The invariant is what NothingLost says.
LEMMA InvNothingLost ==
    ASSUME TypeOK, RcvInv PROVE NothingLost
<1>1. InOnePlace
  BY DEF RcvInv, SpanInv
<1>2. ASSUME freePc = "freed", NEW a \in Adders, addPc[a] = "done"
      PROVE  a \in delivered \cup gaveUp
  <2>1. Buffered = {}
    BY <1>2, NothingBuffered DEF RcvInv, FreeInv
  <2> QED
    BY <1>1, <1>2, <2>1 DEF InOnePlace, Published
<1> QED
  BY <1>1, <1>2 DEF NothingLost, ShutdownDrains

\* Under the invariant no thread but the background thread touches the buffer that
\* is being sent: the adders have the other one.
LEMMA PrivateStep ==
    ASSUME TypeOK, RcvInv, [Next]_vars,
           xmitPc \in SendingPcs \cup ResettingPcs, xmitPc' = xmitPc
    PROVE  buf'[xmitBuf] = buf[xmitBuf]
<1> USE DEF addVars, xmitVars, flushVars, serverVars
<1>1. xmitBuf = 1 - active /\ BufInv
  BY DEF RcvInv, BufInv
<1>2. ASSUME NEW a \in Adders, AddCopy(a) PROVE buf'[xmitBuf] = buf[xmitBuf]
  BY <1>1, <1>2, CopyContents DEF BufInv, AddCopy
<1>3. ASSUME NEW a \in Adders, AddPublish(a) PROVE buf'[xmitBuf] = buf[xmitBuf]
  <2>1. /\ addBuf[a] = active
        /\ addOff[a] = buf[addBuf[a]].off + 1 /\ buf[addBuf[a]].data[addOff[a]] = a
    BY <1>1, <1>3 DEF AddPublish, BufInv
  <2> QED
    BY <1>1, <1>3, <2>1, PublishContents
<1>4. buf' = buf \/ \E a \in Adders : AddCopy(a) \/ AddPublish(a)
  BY DEF SendingPcs, ResettingPcs, Next, AddSpan, Xmit, Freed, Flush, Tick, AddLock,
     AddUnlock, XmitWake, XmitDecide, XmitDrain, XmitSucceeds, XmitFails, XmitResetOff,
     XmitResetNum, XmitRelock, FlushBegin, FlushResume, FreeSignal, FreeJoin, vars
<1> QED
  BY <1>2, <1>3, <1>4

\* Under the invariant a flush returns with its spans sent or given up.
LEMMA FlushedStep ==
    ASSUME TypeOK, RcvInv, [Next]_vars, NEW f \in Flushers,
           flushPc[f] # "done", flushPc'[f] = "done",
           BufsEmpty \/ lastSend > flushNow'[f]
    PROVE  mustSend'[f] \subseteq delivered \cup gaveUp
<1> USE DEF addVars, xmitVars, flushVars, serverVars
<1>1. /\ clock \in Nat /\ lastSend \in Nat /\ lastSend <= clock
      /\ flushNow \in [Flushers -> Nat] /\ mustSend \in [Flushers -> SUBSET Adders]
      /\ flushPc \in [Flushers -> {"start", "wait", "woken", "done"}]
  BY DEF TypeOK, RcvInv, FlushInv
<1>2. BufsEmpty => Buffered = {}
  BY NothingBuffered
<1>3. FlushBegin(f) \/ FlushResume(f)
  BY <1>1 DEF Next, AddSpan, Xmit, Freed, Flush, Tick, AddLock, AddCopy, AddPublish,
     AddUnlock, XmitWake, XmitDecide, XmitDrain, XmitSucceeds, XmitFails, XmitResetOff,
     XmitResetNum, XmitRelock, FlushBegin, FlushResume, FlushLoop, FreeSignal, FreeJoin, vars
<1>4. ASSUME FlushBegin(f) PROVE mustSend'[f] \subseteq delivered \cup gaveUp
  <2>1. flushNow'[f] = clock /\ mustSend'[f] = Buffered
    BY <1>1, <1>4 DEF FlushBegin
  <2>2. ~ (lastSend > clock)
    BY <1>1
  <2> QED
    BY <1>2, <2>1, <2>2
<1>5. ASSUME FlushResume(f) PROVE mustSend'[f] \subseteq delivered \cup gaveUp
  <2>1. /\ flushPc[f] = "woken" /\ flushNow'[f] = flushNow[f] /\ mustSend'[f] = mustSend[f]
    BY <1>5 DEF FlushResume
  <2> QED
    BY <1>2, <2>1 DEF RcvInv, FlushInv
<1> QED
  BY <1>3, <1>4, <1>5

\* As long as every span is copied with the lock and into free space, no span is
\* lost between add_span and htraced_rcv_free.
THEOREM LockedCopiesLoseNothing ==
    Spec /\ []CopiesWithLockAndSpace => []NothingLost
BY LockedCopiesInvariant, InvNothingLost, PTL

\* ... and no thread writes to the buffer that is sent without the lock.
THEOREM LockedCopiesArePrivate ==
    Spec /\ []CopiesWithLockAndSpace => SentBufferIsPrivate
<1>1. TypeOK /\ RcvInv /\ [Next]_vars =>
        [(xmitPc \in SendingPcs \cup ResettingPcs /\ xmitPc' = xmitPc)
            => buf'[xmitBuf] = buf[xmitBuf]]_vars
  BY PrivateStep
<1> QED
  BY <1>1, LockedCopiesInvariant, PTL DEF Spec, SentBufferIsPrivate

\* ... and a flush that returns has had its spans sent or given up.
THEOREM LockedCopiesAreFlushed ==
    Spec /\ []CopiesWithLockAndSpace => FlushSends
<1>1. TypeOK /\ RcvInv /\ [Next]_vars =>
        [\A f \in Flushers :
          (/\ flushPc[f] # "done" /\ flushPc'[f] = "done"
           /\ BufsEmpty \/ lastSend > flushNow'[f])
          => mustSend'[f] \subseteq delivered \cup gaveUp]_vars
  BY FlushedStep
<1> QED
  BY <1>1, LockedCopiesInvariant, PTL DEF Spec, FlushSends

-----------------------------------------------------------------------------
\* When the comment of add_span is right.

\* The application adds no more spans than one buffer takes.
FewSpans == IsFiniteSet(Adders) /\ Cardinality(Adders) <= BufLen

\* Then a thread whose span is in no buffer finds space in both.
LEMMA SpaceLeft ==
    ASSUME FewSpans, TypeOK, CountInv, NEW a \in Adders, ~ Published(a), NEW b \in 0 .. 1
    PROVE  buf[b].off < BufLen
<1>1. buf \in [0 .. 1 -> Buffer] /\ BufLen \in Nat
  BY HtracedRcvAssumption DEF TypeOK, Buffer
<1>2. PICK o \in 0 .. BufLen + 1 : o = buf[b].off
  BY <1>1 DEF Buffer
<1>3. PICK f : f = [i \in 1 .. o |-> buf[b].data[i]]
  OBVIOUS
<1>4. \A i \in 1 .. o : i \in 1 .. BufLen + 1 /\ i <= buf[b].off
  BY <1>1, <1>2
<1>5. \A i \in 1 .. o : f[i] \in Adders \ {a}
  BY <1>3, <1>4 DEF CountInv
<1>6. \A i, j \in 1 .. o : f[i] = f[j] => i = j
  BY <1>3, <1>4 DEF CountInv
<1>7. f \in [1 .. o -> Adders \ {a}]
  BY <1>3, <1>5
<1>8. /\ IsFiniteSet(1 .. o) /\ Cardinality(1 .. o) = o
  BY FS_Interval
<1>9. /\ IsFiniteSet(Adders \ {a}) /\ Cardinality(Adders \ {a}) = Cardinality(Adders) - 1
      /\ Cardinality(Adders) \in Nat
  BY FS_RemoveElement, FS_CardinalityType DEF FewSpans
<1>10. ~ (Cardinality(Adders \ {a}) < Cardinality(1 .. o))
  <2> SUFFICES ASSUME Cardinality(Adders \ {a}) < Cardinality(1 .. o) PROVE FALSE
    OBVIOUS
  <2>1. \E x, y \in 1 .. o : x # y /\ f[x] = f[y]
    BY <1>7, <1>8, <1>9, FS_PigeonHole
  <2> QED
    BY <1>6, <2>1
<1> QED
  BY <1>1, <1>2, <1>8, <1>9, <1>10 DEF FewSpans

\* A span enters a buffer when it is published, behind all others, and once.
LEMMA CountStep ==
    ASSUME TypeOK, BufInv, CountInv, [Next]_vars
    PROVE  CountInv'
<1> USE DEF addVars, xmitVars, flushVars, serverVars
<1>1. buf \in [0 .. 1 -> Buffer] /\ BufLen \in Nat /\ active \in 0 .. 1 /\ xmitBuf \in 0 .. 1
  BY HtracedRcvAssumption DEF TypeOK, Buffer
<1> DEFINE Out == {"unlock", "done"}
<1>2. \A a \in Adders : addPc[a] \in Out => addPc'[a] \in Out
  BY DEF Next, AddSpan, Xmit, Freed, Flush, Tick, AddLock, AddCopy, AddPublish,
     AddUnlock, XmitWake, XmitDecide, XmitDrain, XmitSucceeds, XmitFails, XmitResetOff,
     XmitResetNum, XmitRelock, FlushBegin, FlushResume, FreeSignal, FreeJoin, vars, TypeOK
<1> USE DEF Published
<1>3. ASSUME NEW a \in Adders, AddCopy(a) PROVE CountInv'
  <2>1. PICK b \in 0 .. 1, k \in 1 .. BufLen + 1 :
           k = buf[b].off + 1 /\ buf' = [buf EXCEPT ![b].data[k] = a]
    <3>1. addBuf[a] \in 0 .. 1 /\ buf[addBuf[a]].off + 1 \in 1 .. BufLen + 1
      BY <1>1, <1>3 DEF AddCopy, TypeOK
    <3> QED
      BY <1>3, <3>1 DEF AddCopy
  <2>2. /\ buf'[1 - b] = buf[1 - b] /\ buf'[b].off = buf[b].off
        /\ \A i \in 1 .. BufLen + 1 : i # k => buf'[b].data[i] = buf[b].data[i]
    BY <1>1, <2>1, BufferCopy
  <2>3. \A i \in 1 .. BufLen + 1 : i <= buf[b].off => i # k
    BY <1>1, <2>1 DEF Buffer
  <2>4. \A d \in 0 .. 1 : d = b \/ d = 1 - b
    OBVIOUS
  <2>5. \A d \in 0 .. 1 : buf'[d].off = buf[d].off /\ \A i \in 1 .. BufLen + 1 :
           i <= buf[d].off => buf'[d].data[i] = buf[d].data[i]
    BY <2>2, <2>3, <2>4
  <2> QED
    BY <1>2, <2>5 DEF CountInv
<1>4. ASSUME NEW a \in Adders, AddPublish(a) PROVE CountInv'
  <2>1. PICK b \in 0 .. 1 : b = addBuf[a]
    BY DEF TypeOK
  <2>2. PICK o \in 1 .. BufLen + 1 : /\ o = addOff[a] /\ o = buf[b].off + 1
                                     /\ buf[b].data[o] = a
    <3>1. /\ addOff[a] = buf[b].off + 1 /\ buf[b].data[addOff[a]] = a
          /\ addOff[a] \in 0 .. BufLen + 1
      BY <1>4, <2>1 DEF AddPublish, BufInv, TypeOK
    <3>2. addOff[a] \in 1 .. BufLen + 1
      BY <1>1, <3>1 DEF Buffer
    <3> QED
      BY <3>1, <3>2
  <2>3. buf' = [buf EXCEPT ![b].off = o, ![b].num = @ + 1]
    BY <1>4, <2>1, <2>2 DEF AddPublish
  <2>4. /\ buf'[1 - b] = buf[1 - b] /\ buf'[b].off = o /\ buf'[b].data = buf[b].data
    BY <1>1, <2>2, <2>3, BufferPublish
  <2>5. addPc[a] \notin Out /\ addPc'[a] \in Out
    BY <1>4 DEF AddPublish, TypeOK
  <2>6. \A i \in 1 .. BufLen + 1 : i <= o <=> i <= buf[b].off \/ i = o
    BY <1>1, <2>2 DEF Buffer
  <2>7. \A i \in 1 .. BufLen + 1 : i <= buf[b].off =>
           /\ buf[b].data[i] \in Adders /\ buf[b].data[i] # a /\ addPc'[buf[b].data[i]] \in Out
           /\ \A j \in 1 .. BufLen + 1 :
                 j <= buf[b].off /\ buf[b].data[j] = buf[b].data[i] => j = i
    BY <1>2, <2>5 DEF CountInv
  <2>8. ASSUME NEW i \in 1 .. BufLen + 1, i <= buf'[b].off
        PROVE  /\ buf'[b].data[i] \in Adders /\ addPc'[buf'[b].data[i]] \in Out
               /\ \A j \in 1 .. BufLen + 1 :
                     j <= buf'[b].off /\ buf'[b].data[j] = buf'[b].data[i] => j = i
    BY <2>2, <2>4, <2>5, <2>6, <2>7, <2>8
  <2>9. ASSUME NEW i \in 1 .. BufLen + 1, i <= buf'[1 - b].off
        PROVE  /\ buf'[1 - b].data[i] \in Adders /\ addPc'[buf'[1 - b].data[i]] \in Out
               /\ \A j \in 1 .. BufLen + 1 :
                     j <= buf'[1 - b].off /\ buf'[1 - b].data[j] = buf'[1 - b].data[i] => j = i
    <3>1. 1 - b \in 0 .. 1
      OBVIOUS
    <3> QED
      BY <1>2, <2>4, <2>9, <3>1 DEF CountInv
  <2>10. \A d \in 0 .. 1 : d = b \/ d = 1 - b
    OBVIOUS
  <2> QED
    BY <2>8, <2>9, <2>10 DEF CountInv
<1>5. ASSUME XmitResetOff \/ XmitResetNum PROVE CountInv'
  <2>1. XmitResetOff => buf' = [buf EXCEPT ![xmitBuf].off = 0]
    BY DEF XmitResetOff
  <2>2. XmitResetNum => buf' = [buf EXCEPT ![xmitBuf].num = 0]
    BY DEF XmitResetNum
  <2>3. PICK b \in 0 .. 1 : b = xmitBuf
    BY <1>1
  <2>4. /\ buf'[1 - b] = buf[1 - b]
        /\ buf'[b].off = buf[b].off \/ buf'[b].off = 0
        /\ buf'[b].data = buf[b].data
    BY <1>1, <1>5, <2>1, <2>2, <2>3, BufferReset
  <2>5. \A i \in 1 .. BufLen + 1 : ~ (i <= 0)
    OBVIOUS
  <2>6. \A d \in 0 .. 1 : d = b \/ d = 1 - b
    OBVIOUS
  <2>7. \A d \in 0 .. 1 : /\ buf'[d].data = buf[d].data
                          /\ \A i \in 1 .. BufLen + 1 : i <= buf'[d].off => i <= buf[d].off
    BY <2>4, <2>5, <2>6
  <2> QED
    BY <1>2, <2>7 DEF CountInv
<1>6. ASSUME buf' = buf PROVE CountInv'
  BY <1>2, <1>6 DEF CountInv
<1>7. \/ buf' = buf \/ XmitResetOff \/ XmitResetNum
      \/ \E a \in Adders : AddCopy(a) \/ AddPublish(a)
  BY DEF Next, AddSpan, Xmit, Freed, Flush, Tick, AddLock, AddUnlock, XmitWake,
         XmitDecide, XmitDrain, XmitSucceeds, XmitFails, XmitRelock, FlushBegin,
         FlushResume, FreeSignal, FreeJoin, vars
<1> QED
  BY <1>3, <1>4, <1>5, <1>6, <1>7

\* A thread that locks finds space and keeps the lock until it has copied.
LEMMA CopiesStep ==
    ASSUME FewSpans, TypeOK, LockInv, BufInv, CountInv, CopiesWithLockAndSpace, [Next]_vars
    PROVE  CopiesWithLockAndSpace'
<1> USE DEF addVars, xmitVars, flushVars, serverVars
<1>1. buf \in [0 .. 1 -> Buffer] /\ BufLen \in Nat /\ active \in 0 .. 1 /\ xmitBuf \in 0 .. 1
  BY HtracedRcvAssumption DEF TypeOK, Buffer
<1>2. NoOne \notin Adders /\ "xmit" \notin Adders /\ NoOne # "xmit"
  BY HtracedRcvAssumption
<1> SUFFICES ASSUME NEW a \in Adders, addPc'[a] = "copy"
             PROVE  lock' = a /\ BufLen - buf'[addBuf'[a]].off >= 1
  BY DEF CopiesWithLockAndSpace
<1>3. CASE addPc[a] = "copy"
  <2>1. lock = a /\ BufLen - buf[addBuf[a]].off >= 1 /\ addBuf[a] = active
    BY <1>3 DEF CopiesWithLockAndSpace, BufInv
  <2>2. /\ \A c \in Adders : ~ AddSpan(c)
        /\ ~ XmitWake /\ ~ XmitDecide /\ ~ XmitDrain /\ ~ XmitRelock
    <3>1. ASSUME NEW c \in Adders, AddSpan(c) PROVE FALSE
      <4>1. lock = c \/ lock = NoOne
        BY <3>1 DEF AddSpan, AddLock, AddCopy, AddPublish, AddUnlock, LockInv
      <4>2. c = a
        BY <1>2, <2>1, <4>1
      <4> QED
        BY <1>3, <3>1, <4>2 DEF AddSpan, AddLock, AddCopy, AddPublish, AddUnlock, TypeOK
    <3> QED
      BY <1>2, <2>1, <3>1 DEF XmitWake, XmitDecide, XmitDrain, XmitRelock, LockInv
  <2>3. lock' = lock /\ addBuf' = addBuf
    BY <2>2 DEF Next, Xmit, Freed, Flush, Tick, XmitSucceeds, XmitFails, XmitResetOff,
       XmitResetNum, FlushBegin, FlushResume, FreeSignal, FreeJoin, vars
  <2>4. buf'[active].off = buf[active].off \/ buf'[active].off = 0
    <3>1. CASE buf' = buf
      BY <3>1
    <3>2. CASE XmitResetOff \/ XmitResetNum
      <4>1. xmitBuf = 1 - active
        BY <3>2 DEF XmitResetOff, XmitResetNum, BufInv, ResettingPcs
      <4>2. buf'[1 - xmitBuf] = buf[1 - xmitBuf] /\ 1 - xmitBuf = active
        BY <1>1, <3>2, <4>1, ResetContents
      <4> QED
        BY <4>2
    <3> QED
      BY <2>2, <3>1, <3>2 DEF Next, Xmit, Freed, Flush, Tick, XmitSucceeds, XmitFails,
         FlushBegin, FlushResume, FreeSignal, FreeJoin, vars
  <2> QED
    BY <1>1, <2>1, <2>3, <2>4 DEF Buffer
<1>4. CASE addPc[a] # "copy"
  <2>1. AddLock(a)
    BY <1>4 DEF Next, AddSpan, Xmit, Freed, Flush, Tick, AddLock, AddCopy, AddPublish,
       AddUnlock, XmitWake, XmitDecide, XmitDrain, XmitSucceeds, XmitFails, XmitResetOff,
       XmitResetNum, XmitRelock, FlushBegin, FlushResume, FreeSignal, FreeJoin, vars, TypeOK
  <2>2. ~ Published(a)
    BY <2>1 DEF AddLock, Published
  <2>3. buf[active].off < BufLen
    BY <1>1, <2>2, SpaceLeft
  <2>4. ~ (BufLen - buf[active].off < 1) /\ BufLen - buf[active].off >= 1
    BY <1>1, <2>3 DEF Buffer
  <2>5. buf' = buf /\ addBuf'[a] = active /\ lock' = a
    BY <2>1, <2>4 DEF AddLock, TypeOK
  <2> QED
    BY <2>4, <2>5
<1> QED
  BY <1>3, <1>4

\* When one buffer takes all spans that the application adds, the comment of
\* add_span is right: every span is copied with the lock and into free space.
THEOREM FewSpansCopiedWithLock ==
    ASSUME FewSpans PROVE Spec => []CopiesWithLockAndSpace
<1> DEFINE Inv == LockInv /\ BufInv /\ CountInv /\ CopiesWithLockAndSpace
<1>1. Init => Inv
  <2> SUFFICES ASSUME Init PROVE Inv
    OBVIOUS
  <2>1. \A b \in 0 .. 1 : buf[b].off = 0
    BY DEF Init, EmptyBuf
  <2>2. \A i \in 1 .. BufLen + 1 : ~ (i <= 0)
    OBVIOUS
  <2>3. CountInv
    BY <2>1, <2>2 DEF CountInv
  <2> QED
    BY <2>3, RcvInvInit DEF RcvInv, Init, CopiesWithLockAndSpace
<1>2. TypeOK /\ Inv /\ [Next]_vars => Inv'
  BY LockStep, BufStep, CountStep, CopiesStep
<1>3. Inv => CopiesWithLockAndSpace
  OBVIOUS
<1> HIDE DEF Inv
<1> QED
  BY <1>1, <1>2, <1>3, TypeCorrect, PTL DEF Spec

\* Then the three guarantees hold outright: nothing is lost, the buffer being sent
\* is private, and flush has sent what it waited for.
THEOREM FewSpansAreSafe ==
    ASSUME FewSpans PROVE Spec => []NothingLost /\ SentBufferIsPrivate /\ FlushSends
BY FewSpansCopiedWithLock, LockedCopiesLoseNothing, LockedCopiesArePrivate,
   LockedCopiesAreFlushed, PTL

=============================================================================
