----------------------------- MODULE HtracedRcv -----------------------------
(***************************************************************************)
(* The htraced span receiver of the C client (htraced.c).                  *)
(*                                                                         *)
(* Application threads append serialized spans to the active one of two    *)
(* buffers, under a lock; a background thread flips the buffers and sends  *)
(* the full one without the lock, with a bounded number of tries; flush    *)
(* waits for the buffers to be sent; free shuts the thread down after it   *)
(* has sent what is left.  A span takes one unit of a buffer.              *)
(*                                                                         *)
(* The deadline that the background thread passes to                       *)
(* pthread_cond_timedwait is a time of the monotonic clock, while the      *)
(* condition variable measures real time: it lies in the past, so that the *)
(* thread may wake up at any moment and the signals of bg_cond do not      *)
(* matter.                                                                 *)
(***************************************************************************)
EXTENDS Integers, Sequences, FiniteSets

CONSTANTS
    Adders,         \* application threads that add spans, one span each
    Flushers,       \* application threads that flush
    BufLen,         \* length of a buffer, in spans
    SendThreshold,  \* send_threshold
    FlushInterval,  \* flush_interval_ms
    MaxSendTries,   \* HTRACED_MAX_SEND_TRIES
    MaxTicks,       \* bound: steps of the clock
    NoOne           \* not a thread

ASSUME HtracedRcvAssumption ==
    /\ BufLen \in Nat \ {0} /\ SendThreshold \in 0 .. BufLen
    /\ FlushInterval \in Nat /\ MaxSendTries \in Nat \ {0} /\ MaxTicks \in Nat
    /\ NoOne \notin Adders \cup Flushers \cup {"xmit", "free"}
    /\ (Adders \cup Flushers) \cap {"xmit", "free"} = {}

VARIABLES
    buf,        \* [0..1 -> [off, num, data]]: the send buffers
    active,     \* active_buf
    lastSend,   \* last_send_ms
    shutdown,   \* the shutdown flag
    lock,       \* the holder of the mutex
    clock,      \* the monotonic clock
    addPc,      \* [Adders -> ...]: where htraced_rcv_add_span stands
    addBuf,     \* [Adders -> 0..1]: its sbuf
    addOff,     \* [Adders -> Nat]: its off
    xmitPc,     \* where the background thread stands
    xmitNow,    \* its now
    xmitBuf,    \* the buffer being sent
    tries,      \* tries of htraced_xmit
    flushPc,    \* [Flushers -> ...]: where htraced_rcv_flush stands
    flushNow,   \* [Flushers -> Nat]: its now
    freePc,     \* where htraced_rcv_free stands
    delivered,  \* what the server has received: a set of spans
    gaveUp,     \* spans that htraced_xmit has dropped
    mustSend    \* [Flushers -> SUBSET Adders]: history: what was buffered when flush began

threads == Adders \cup Flushers \cup {"xmit", "free"}
addVars == <<addPc, addBuf, addOff>>
xmitVars == <<xmitPc, xmitNow, xmitBuf, tries>>
flushVars == <<flushPc, flushNow, mustSend>>
serverVars == <<delivered, gaveUp>>
vars == <<buf, active, lastSend, shutdown, lock, clock, addPc, addBuf, addOff,
          xmitPc, xmitNow, xmitBuf, tries, flushPc, flushNow, freePc,
          delivered, gaveUp, mustSend>>

\* A span is named after the thread that adds it.
Nothing == NoOne
EmptyBuf == [off |-> 0, num |-> 0, data |-> [i \in 1 .. BufLen + 1 |-> Nothing]]

\* The spans that a buffer holds, and those of both.
Contents(b) == {buf[b].data[i] : i \in {i \in 1 .. BufLen + 1 : i <= buf[b].off}}
Buffered == Contents(0) \cup Contents(1)

BufsEmpty == \A b \in 0 .. 1 : buf[b].off = 0

\* The clock starts late enough for "last_send_ms = 0" to mean "long ago".
Init ==
    /\ buf = [b \in 0 .. 1 |-> EmptyBuf]
    /\ active = 0
    /\ clock = FlushInterval + 1 /\ lastSend = FlushInterval + 1
    /\ shutdown = FALSE /\ lock = NoOne
    /\ addPc = [a \in Adders |-> "start"]
    /\ addBuf = [a \in Adders |-> 0] /\ addOff = [a \in Adders |-> 0]
    /\ xmitPc = "begin" /\ xmitNow = 0 /\ xmitBuf = 0 /\ tries = 0
    /\ flushPc = [f \in Flushers |-> "start"]
    /\ flushNow = [f \in Flushers |-> 0]
    /\ freePc = "start"
    /\ delivered = {} /\ gaveUp = {}
    /\ mustSend = [f \in Flushers |-> {}]

Tick ==
    /\ clock < FlushInterval + 1 + MaxTicks
    /\ clock' = clock + 1
    /\ UNCHANGED <<buf, active, lastSend, shutdown, lock, addVars, xmitVars,
                   flushVars, freePc, serverVars>>

-----------------------------------------------------------------------------
\* htraced_rcv_add_span.  The application frees the receiver only when no
\* thread adds spans any more.

\* Lock and look for space.  Without enough space the thread unlocks and says
\* "continue", which leaves the do { } while (0) loop: it goes on to copy the
\* span without the lock.
AddLock(a) ==
    /\ addPc[a] = "start" /\ lock = NoOne /\ freePc = "start"
    /\ addBuf' = [addBuf EXCEPT ![a] = active]
    /\ lock' = IF BufLen - buf[active].off < 1 THEN NoOne ELSE a
    /\ addPc' = [addPc EXCEPT ![a] = "copy"]
    /\ UNCHANGED <<buf, active, lastSend, shutdown, clock, addOff, xmitVars,
                   flushVars, freePc, serverVars>>

\* Read the offset and copy the span there.
AddCopy(a) ==
    LET b == addBuf[a]
        off == buf[b].off IN
    /\ addPc[a] = "copy"
    /\ off <= BufLen
    /\ buf' = [buf EXCEPT ![b].data[off + 1] = a]
    /\ addOff' = [addOff EXCEPT ![a] = off + 1]
    /\ addPc' = [addPc EXCEPT ![a] = "publish"]
    /\ UNCHANGED <<active, lastSend, shutdown, lock, clock, addBuf, xmitVars,
                   flushVars, freePc, serverVars>>
\* Store the new offset and count the span.
AddPublish(a) ==
    LET b == addBuf[a] IN
    /\ addPc[a] = "publish"
    /\ buf' = [buf EXCEPT ![b].off = addOff[a], ![b].num = @ + 1]
    /\ addPc' = [addPc EXCEPT ![a] = "unlock"]
    /\ UNCHANGED <<active, lastSend, shutdown, lock, clock, addBuf, addOff,
                   xmitVars, flushVars, freePc, serverVars>>

\* Unlocking a mutex that the thread does not hold is undefined: it may or
\* may not take the mutex away from its holder.
AddUnlock(a) ==
    /\ addPc[a] = "unlock"
    /\ IF lock = a THEN lock' = NoOne ELSE lock' \in {lock, NoOne}
    /\ addPc' = [addPc EXCEPT ![a] = "done"]
    /\ UNCHANGED <<buf, active, lastSend, shutdown, clock, addBuf, addOff,
                   xmitVars, flushVars, freePc, serverVars>>

-----------------------------------------------------------------------------
\* run_htraced_xmit_manager, should_xmit and htraced_xmit.

\* Lock, at the start and after every wait, and read the clock.
XmitWake ==
    /\ xmitPc \in {"begin", "wait"} /\ lock = NoOne
    /\ lock' = "xmit"
    /\ xmitNow' = clock
    /\ xmitPc' = "should"
    /\ UNCHANGED <<buf, active, lastSend, shutdown, clock, addVars, xmitBuf,
                   tries, flushVars, freePc, serverVars>>

should_xmit ==
    \/ buf[active].off > SendThreshold
    \/ xmitNow - lastSend > FlushInterval /\ buf[active].off > 0

Flip_SameBuffer(next) ==
    /\ xmitBuf' = active
    /\ active' = active
    /\ tries' = 0
    /\ lock' = NoOne
    /\ xmitPc' = next
\* htraced_xmit flips the buffers and releases the lock.
Flip(next) ==
    /\ xmitBuf' = active
    /\ active' = 1 - active
    /\ tries' = 0
    /\ lock' = NoOne
    /\ xmitPc' = next

XmitDecide_OnlyWaits ==
    /\ xmitPc = "should"
    /\ \/ should_xmit /\ Flip("send")
       \/ /\ ~ should_xmit
          /\ lock' = NoOne /\ xmitPc' = "wait"
          /\ UNCHANGED <<active, xmitBuf, tries>>
    /\ UNCHANGED <<buf, lastSend, shutdown, clock, addVars, xmitNow,
                   flushVars, freePc, serverVars>>

XmitDecide ==
    /\ xmitPc = "should"
    /\ \/ should_xmit /\ Flip("send")
       \/ /\ ~ should_xmit /\ ~ shutdown
          /\ lock' = NoOne /\ xmitPc' = "wait"
          /\ UNCHANGED <<active, xmitBuf, tries>>
       \/ /\ ~ should_xmit /\ shutdown
          /\ xmitPc' = "drain"
          /\ UNCHANGED <<active, lock, xmitBuf, tries>>
    /\ UNCHANGED <<buf, lastSend, shutdown, clock, addVars, xmitNow,
                   flushVars, freePc, serverVars>>

XmitDrain_Skipped ==
    /\ xmitPc = "drain"
    /\ lock' = NoOne /\ xmitPc' = "exited"
    /\ UNCHANGED <<active, xmitBuf, tries>>
    /\ UNCHANGED <<buf, lastSend, shutdown, clock, addVars, xmitNow,
                   flushVars, freePc, serverVars>>

\* After the shutdown everything is sent, then the thread exits.
XmitDrain ==
    /\ xmitPc = "drain"
    /\ \/ ~ BufsEmpty /\ Flip("sendLast")
       \/ /\ BufsEmpty
          /\ lock' = NoOne /\ xmitPc' = "exited"
          /\ UNCHANGED <<active, xmitBuf, tries>>
    /\ UNCHANGED <<buf, lastSend, shutdown, clock, addVars, xmitNow,
                   flushVars, freePc, serverVars>>

ResetPc == IF xmitPc = "send" THEN "resetOff" ELSE "resetOffLast"

\* htraced_xmit_impl succeeds: the server has the spans and says so.
XmitSucceeds ==
    /\ xmitPc \in {"send", "sendLast"}
    /\ delivered' = delivered \cup Contents(xmitBuf)
    /\ xmitPc' = ResetPc
    /\ UNCHANGED <<buf, active, lastSend, shutdown, lock, clock, addVars,
                   xmitNow, xmitBuf, tries, flushVars, freePc, gaveUp>>

\* It fails: the request or the response was lost, or the server returned an
\* error.  The last failure gives up.
XmitFails ==
    /\ xmitPc \in {"send", "sendLast"}
    /\ delivered' \in {delivered, delivered \cup Contents(xmitBuf)}
    /\ tries' = tries + 1
    /\ IF tries + 1 < MaxSendTries THEN UNCHANGED <<xmitPc, gaveUp>>
       ELSE /\ xmitPc' = ResetPc
            /\ gaveUp' = gaveUp \cup Contents(xmitBuf)
    /\ UNCHANGED <<buf, active, lastSend, shutdown, lock, clock, addVars,
                   xmitNow, xmitBuf, flushVars, freePc>>

XmitResetOff_ActiveBuffer ==
    /\ xmitPc \in {"resetOff", "resetOffLast"}
    /\ buf' = [buf EXCEPT ![active].off = 0]
    /\ xmitPc' = IF xmitPc = "resetOff" THEN "resetNum" ELSE "resetNumLast"
    /\ UNCHANGED <<active, lastSend, shutdown, lock, clock, addVars, xmitNow,
                   xmitBuf, tries, flushVars, freePc, serverVars>>

\* The buffer is reset, still without the lock: the offset ...
XmitResetOff ==
    /\ xmitPc \in {"resetOff", "resetOffLast"}
    /\ buf' = [buf EXCEPT ![xmitBuf].off = 0]
    /\ xmitPc' = IF xmitPc = "resetOff" THEN "resetNum" ELSE "resetNumLast"
    /\ UNCHANGED <<active, lastSend, shutdown, lock, clock, addVars, xmitNow,
                   xmitBuf, tries, flushVars, freePc, serverVars>>

\* ... and the number of spans.
XmitResetNum ==
    /\ xmitPc \in {"resetNum", "resetNumLast"}
    /\ buf' = [buf EXCEPT ![xmitBuf].num = 0]
    /\ xmitPc' = IF xmitPc = "resetNum" THEN "relock" ELSE "relockLast"
    /\ UNCHANGED <<active, lastSend, shutdown, lock, clock, addVars, xmitNow,
                   xmitBuf, tries, flushVars, freePc, serverVars>>

XmitRelock_NoBroadcast ==
    /\ xmitPc \in {"relock", "relockLast"} /\ lock = NoOne
    /\ lock' = "xmit"
    /\ lastSend' = xmitNow
    /\ xmitPc' = IF xmitPc = "relock" THEN "should" ELSE "drain"
    /\ UNCHANGED <<buf, active, shutdown, clock, addVars, xmitNow, xmitBuf,
                   tries, flushVars, freePc, serverVars>>

XmitRelock_ReadsClock ==
    /\ xmitPc \in {"relock", "relockLast"} /\ lock = NoOne
    /\ lock' = "xmit"
    /\ lastSend' = clock
    /\ flushPc' = [f \in Flushers |->
                      IF flushPc[f] = "wait" THEN "woken" ELSE flushPc[f]]
    /\ xmitPc' = IF xmitPc = "relock" THEN "should" ELSE "drain"
    /\ UNCHANGED <<buf, active, shutdown, clock, addVars, xmitNow, xmitBuf,
                   tries, flushNow, mustSend, freePc, serverVars>>

\* Lock again, note the time at which the round began, wake the flushers.
XmitRelock ==
    /\ xmitPc \in {"relock", "relockLast"} /\ lock = NoOne
    /\ lock' = "xmit"
    /\ lastSend' = xmitNow
    /\ flushPc' = [f \in Flushers |->
                      IF flushPc[f] = "wait" THEN "woken" ELSE flushPc[f]]
    /\ xmitPc' = IF xmitPc = "relock" THEN "should" ELSE "drain"
    /\ UNCHANGED <<buf, active, shutdown, clock, addVars, xmitNow, xmitBuf,
                   tries, flushNow, mustSend, freePc, serverVars>>

-----------------------------------------------------------------------------
\* htraced_rcv_flush.

\* The loop of flush, with the lock held: return, or reset last_send_ms, so
\* that the background thread finds it long ago, and wait.
FlushLoop(f, now) ==
    IF lastSend >= now \/ BufsEmpty
      THEN /\ flushPc' = [flushPc EXCEPT ![f] = "done"]
           /\ UNCHANGED lastSend
      ELSE /\ lastSend' = 0
           /\ flushPc' = [flushPc EXCEPT ![f] = "wait"]

FlushBegin(f) ==
    /\ flushPc[f] = "start" /\ lock = NoOne /\ freePc = "start"
    /\ flushNow' = [flushNow EXCEPT ![f] = clock]
    /\ mustSend' = [mustSend EXCEPT ![f] = Buffered]
    /\ FlushLoop(f, clock)
    /\ UNCHANGED <<buf, active, shutdown, lock, clock, addVars, xmitVars,
                   freePc, serverVars>>

FlushResume(f) ==
    /\ flushPc[f] = "woken" /\ lock = NoOne
    /\ FlushLoop(f, flushNow[f])
    /\ UNCHANGED <<buf, active, shutdown, lock, clock, addVars, xmitVars,
                   flushNow, mustSend, freePc, serverVars>>

-----------------------------------------------------------------------------
\* htraced_rcv_free, once every other call has returned.

Quiet == /\ \A a \in Adders : addPc[a] \in {"start", "done"}
         /\ \A f \in Flushers : flushPc[f] \in {"start", "done"}

FreeSignal ==
    /\ freePc = "start" /\ lock = NoOne /\ Quiet
    /\ shutdown' = TRUE
    /\ freePc' = "join"
    /\ UNCHANGED <<buf, active, lastSend, lock, clock, addVars, xmitVars,
                   flushVars, serverVars>>

FreeJoin ==
    /\ freePc = "join" /\ xmitPc = "exited"
    /\ freePc' = "freed"
    /\ UNCHANGED <<buf, active, lastSend, shutdown, lock, clock, addVars,
                   xmitVars, flushVars, serverVars>>

-----------------------------------------------------------------------------

AddSpan(a) == AddLock(a) \/ AddCopy(a) \/ AddPublish(a) \/ AddUnlock(a)

Xmit == XmitWake \/ XmitDecide \/ XmitDrain \/ XmitSucceeds \/ XmitFails
        \/ XmitResetOff \/ XmitResetNum \/ XmitRelock

Flush(f) == FlushBegin(f) \/ FlushResume(f)

\* The receiver is gone; nothing happens any more.
Freed == freePc = "freed" /\ UNCHANGED vars

Next ==
    \/ Tick
    \/ \E a \in Adders : AddSpan(a)
    \/ Xmit
    \/ \E f \in Flushers : Flush(f)
    \/ FreeSignal \/ FreeJoin \/ Freed

Spec == Init /\ [][Next]_vars

\* Threads run when they can; a thread that keeps asking for the mutex gets it
\* eventually.  Nothing obliges the application to add, flush or free.
Fairness ==
    /\ WF_vars(Xmit) /\ SF_vars(XmitWake) /\ SF_vars(XmitRelock)
    /\ \A a \in Adders :
          WF_vars(AddCopy(a)) /\ WF_vars(AddPublish(a)) /\ WF_vars(AddUnlock(a))
    /\ \A f \in Flushers : SF_vars(FlushResume(f))
    /\ WF_vars(FreeJoin)

FairSpec == Spec /\ Fairness

-----------------------------------------------------------------------------
\* Properties.

SendingPcs == {"send", "sendLast"}
ResettingPcs == {"resetOff", "resetOffLast", "resetNum", "resetNumLast"}
XmitPcs == {"begin", "wait", "should", "drain", "relock", "relockLast",
            "exited"} \cup SendingPcs \cup ResettingPcs

\* Types.
TypeOK ==
    /\ buf \in [0 .. 1 -> [off : 0 .. BufLen + 1, num : Nat,
                           data : [1 .. BufLen + 1 -> Adders \cup {Nothing}]]]
    /\ active \in 0 .. 1 /\ xmitBuf \in 0 .. 1
    /\ clock \in Nat /\ lastSend \in Nat /\ xmitNow \in Nat /\ tries \in Nat
    /\ shutdown \in BOOLEAN /\ lock \in threads \cup {NoOne}
    /\ addPc \in [Adders -> {"start", "copy", "publish", "unlock", "done"}]
    /\ addBuf \in [Adders -> 0 .. 1] /\ addOff \in [Adders -> 0 .. BufLen + 1]
    /\ xmitPc \in XmitPcs
    /\ flushPc \in [Flushers -> {"start", "wait", "woken", "done"}]
    /\ flushNow \in [Flushers -> Nat]
    /\ freePc \in {"start", "join", "freed"}
    /\ delivered \subseteq Adders /\ gaveUp \subseteq Adders
    /\ mustSend \in [Flushers -> SUBSET Adders]

Published(a) == addPc[a] \in {"unlock", "done"}

\* A span that add_span has put into a buffer is still there, has been sent,
\* or was dropped by htraced_xmit after its last try: neither the flip of the
\* buffers nor the reset of the one sent (without the lock) loses any.
InOnePlace ==
    \A a \in Adders : Published(a) => a \in Buffered \cup delivered \cup gaveUp

\* When htraced_rcv_free returns, every span added before has been sent or
\* given up; none is freed with the buffers.
ShutdownDrains ==
    freePc = "freed" =>
        \A a \in Adders : addPc[a] = "done" => a \in delivered \cup gaveUp

\* No span is lost, neither while the receiver runs nor when it is freed.
NothingLost == InOnePlace /\ ShutdownDrains

\* While the background thread sends and resets a buffer without the lock, no
\* other thread touches that buffer: every try sends the same bytes.
SentBufferIsPrivate ==
    [][(xmitPc \in SendingPcs \cup ResettingPcs /\ xmitPc' = xmitPc)
           => buf'[xmitBuf] = buf[xmitBuf]]_vars

\* A flush that returns because a transmission round ended, which began later
\* than the flush by the clock, has sent or given up every span that was
\* buffered when it was called (receiver.h:77, "Flush all buffered spans").  A
\* round of the same millisecond may have begun before the flush, and is not
\* promised to have.
FlushSends ==
    [][\A f \in Flushers :
          (/\ flushPc[f] # "done" /\ flushPc'[f] = "done"
           /\ BufsEmpty \/ lastSend > flushNow'[f])
          => mustSend'[f] \subseteq delivered \cup gaveUp]_vars

\* A flush that waits returns, whatever the server answers: the broadcast of
\* htraced_xmit comes after the wait began (htraced.c:673).
FlushReturns ==
    \A f \in Flushers : flushPc[f] = "wait" ~> flushPc[f] = "done"

\* free returns: the background thread sees the flag, drains and exits.
FreeReturns == freePc = "join" ~> freePc = "freed"

\* Whoever waits for the background thread returns.
CallsReturn == FlushReturns /\ FreeReturns

\* What the comment after the loop of add_span says: "now we have the lock, and
\* we know that there is enough space in the current buffer".
CopiesWithLockAndSpace ==
    \A a \in Adders : addPc[a] = "copy" =>
        lock = a /\ BufLen - buf[addBuf[a]].off >= 1

=============================================================================
