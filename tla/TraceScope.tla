----------------------------- MODULE TraceScope -----------------------------
(***************************************************************************)
(* Spans, scopes and the tracer of the Java client (Trace, Tracer,         *)
(* TraceScope, MilliSpan, the wrappers).                                   *)
(*                                                                         *)
(* A thread has a current span.  A scope makes a span current, remembers   *)
(* the span that was current before, and puts it back when it is closed or *)
(* detached; closing also stops the span, and a span that is stopped for   *)
(* the first time is delivered to the receivers registered then.           *)
(*                                                                         *)
(* Threads may do anything that the API lets them do: share spans and      *)
(* scopes, close scopes in any order, stop a span twice.  A misuse that    *)
(* the code detects is a client error (an exception).                      *)
(***************************************************************************)
EXTENDS Integers, Sequences, FiniteSets, Functions, TLC

CONSTANTS
    Threads, Receivers,
    MaxSpans,     \* bound: spans that are created
    MaxScopes,    \* bound: scopes that are created
    MaxThrows,    \* bound: exceptions thrown by receivers
    Nil

ASSUME TraceScopeAssumption ==
    /\ MaxSpans \in Nat /\ MaxScopes \in Nat /\ MaxThrows \in Nat
    /\ Nil \notin 1 .. MaxSpans /\ Nil \notin Threads

VARIABLES
    current,    \* [Threads -> span or Nil]: the thread-local currentSpan
    spans,      \* Seq of [ended]: the spans created so far
    scopes,     \* Seq of [span, saved, thread, detached]
    receivers,  \* Seq(Receivers): the CopyOnWriteArrayList
    monitor,    \* [1..MaxSpans -> Threads \cup {Nil}]: of synchronized stop
    pc,         \* [Threads -> ...]: where a call of close, detach, stop stands
    scope,      \* [Threads -> Nat]: its scope, 0 for a call of stop
    span,       \* [Threads -> Nat]: the span being stopped
    todo,       \* [Threads -> Seq(Receivers)]: deliver's iterator
    got,        \* [Receivers -> [1..MaxSpans -> Nat]]: spans delivered
    erred,      \* history: threads that got an exception
    shared,     \* history: threads that used another's scope, or whose scope
                \*          another one used
    due,        \* history: [1..MaxSpans -> SUBSET Receivers]: those registered
                \*          since before the span was created
    thrown      \* history: spans at whose delivery a receiver threw

historyVars == <<erred, shared, due, thrown>>
callVars == <<pc, scope, span, todo>>
vars == <<current, spans, scopes, receivers, monitor, pc, scope, span, todo,
          got, erred, shared, due, thrown>>

SpanIds == 1 .. MaxSpans
Created == 1 .. Len(spans)
ScopeIds == 1 .. Len(scopes)

Init ==
    /\ current = [t \in Threads |-> Nil]
    /\ spans = <<>> /\ scopes = <<>> /\ receivers = <<>>
    /\ monitor = [s \in SpanIds |-> Nil]
    /\ pc = [t \in Threads |-> "ready"]
    /\ scope = [t \in Threads |-> 0] /\ span = [t \in Threads |-> 0]
    /\ todo = [t \in Threads |-> <<>>]
    /\ got = [r \in Receivers |-> [s \in SpanIds |-> 0]]
    /\ erred = {} /\ shared = {} /\ thrown = {}
    /\ due = [s \in SpanIds |-> {}]

-----------------------------------------------------------------------------
\* Creating spans and scopes.

\* Tracer.clientError, or an exception of a receiver.
Raise(t) == erred' = erred \cup {t}

\* Tracer.continueSpan
NewScope(t, s) ==
    /\ Len(scopes) < MaxScopes
    /\ scopes' = Append(scopes, [span |-> s, saved |-> current[t],
                                 thread |-> t, detached |-> FALSE])
    /\ current' = [current EXCEPT ![t] = s]

\* A new span with its scope.  (The identifiers of trace and parent are left
\* out.)
NewSpan(t) ==
    /\ Len(spans) < MaxSpans
    /\ spans' = Append(spans, [ended |-> FALSE])
    /\ due' = [due EXCEPT ![Len(spans) + 1] = Range(receivers)]
    /\ NewScope(t, Len(spans) + 1)

\* Trace.startSpan(description[, sampler]): a child of the current span; a
\* root, if the sampler says so; else the empty scope, which changes nothing.
\* Trace.startSpan(description, tinfo) looks the same from here: the parent is
\* a span of another process.
StartSpan(t) ==
    /\ pc[t] = "ready"
    /\ NewSpan(t)
    /\ UNCHANGED <<receivers, monitor, callVars, got, erred, shared, thrown>>

\* Trace.startSpan(description, parent), which the wrappers call in the thread
\* of a pool with the span that was current where the task was wrapped.
StartChild(t, parent) ==
    /\ pc[t] = "ready" /\ parent \in Created
    /\ IF current[t] # Nil /\ current[t] # parent
         THEN Raise(t) /\ UNCHANGED <<current, spans, scopes, due>>
         ELSE NewSpan(t) /\ UNCHANGED erred
    /\ UNCHANGED <<receivers, monitor, callVars, got, shared, thrown>>

\* Trace.continueSpan: pick up a span, of another thread as a rule.
ContinueSpan(t, s) ==
    /\ pc[t] = "ready" /\ s \in Created
    /\ NewScope(t, s)
    /\ UNCHANGED <<spans, receivers, monitor, callVars, got, historyVars>>

-----------------------------------------------------------------------------
\* Detaching and closing a scope, stopping a span.

Goto(t, label) == pc' = [pc EXCEPT ![t] = label]
Ready(t) == /\ pc' = [pc EXCEPT ![t] = "ready"]
            /\ scope' = [scope EXCEPT ![t] = 0] /\ span' = [span EXCEPT ![t] = 0]
Use(t, i) == shared' = IF scopes[i].thread = t THEN shared
                       ELSE shared \cup {t, scopes[i].thread}

\* close and detach read the flag ...
Close(t, i) ==
    /\ pc[t] = "ready" /\ i \in ScopeIds
    /\ Use(t, i)
    /\ IF scopes[i].detached THEN UNCHANGED <<pc, scope>>
       ELSE Goto(t, "close") /\ scope' = [scope EXCEPT ![t] = i]
    /\ UNCHANGED <<current, spans, scopes, receivers, monitor, span, todo, got,
                   erred, due, thrown>>

Detach(t, i) ==
    /\ pc[t] = "ready" /\ i \in ScopeIds
    /\ Use(t, i)
    /\ IF scopes[i].detached
         THEN Raise(t) /\ UNCHANGED <<pc, scope>>
         ELSE /\ Goto(t, "detach") /\ scope' = [scope EXCEPT ![t] = i]
              /\ UNCHANGED erred
    /\ UNCHANGED <<current, spans, scopes, receivers, monitor, span, todo, got,
                   due, thrown>>

DetachMark_NoCheck(t) ==
    LET i == scope[t] IN
    /\ pc[t] = "detach"
    /\ scopes' = [scopes EXCEPT ![i].detached = TRUE]
    /\ current' = [current EXCEPT ![t] = scopes[i].saved]
    /\ Ready(t)
    /\ UNCHANGED <<spans, receivers, monitor, todo, got, historyVars>>

\* ... and set it before they look at the current span, so that a scope that
\* is closed out of order will never be closed.
DetachMark(t) ==
    LET i == scope[t] IN
    /\ pc[t] = "detach"
    /\ scopes' = [scopes EXCEPT ![i].detached = TRUE]
    /\ IF current[t] # scopes[i].span
         THEN Raise(t) /\ UNCHANGED current
         ELSE /\ current' = [current EXCEPT ![t] = scopes[i].saved]
              /\ UNCHANGED erred
    /\ Ready(t)
    /\ UNCHANGED <<spans, receivers, monitor, todo, got, shared, due, thrown>>

CloseMark(t) ==
    LET i == scope[t] IN
    /\ pc[t] = "close"
    /\ scopes' = [scopes EXCEPT ![i].detached = TRUE]
    /\ IF current[t] # scopes[i].span
         THEN Raise(t) /\ Ready(t)
         ELSE /\ Goto(t, "stop") /\ span' = [span EXCEPT ![t] = scopes[i].span]
              /\ UNCHANGED <<scope, erred>>
    /\ UNCHANGED <<current, spans, receivers, monitor, todo, got, shared, due,
                   thrown>>

\* A thread calls stop on a span directly.
CallStop(t, s) ==
    /\ pc[t] = "ready" /\ s \in Created
    /\ Goto(t, "stop")
    /\ scope' = [scope EXCEPT ![t] = 0] /\ span' = [span EXCEPT ![t] = s]
    /\ UNCHANGED <<current, spans, scopes, receivers, monitor, todo, got, historyVars>>

Stop_DeliversAgain(t) ==
    LET s == span[t] IN
    /\ pc[t] = "stop" /\ monitor[s] = Nil
    /\ monitor' = [monitor EXCEPT ![s] = t]
    /\ spans' = [spans EXCEPT ![s].ended = TRUE]
    /\ todo' = [todo EXCEPT ![t] = receivers]
    /\ Goto(t, "deliver")
    /\ UNCHANGED <<current, scopes, receivers, scope, span, got, historyVars>>

\* MilliSpan.stop takes the monitor of the span; unless the span has ended
\* already, it ends now, and deliver starts with the receivers of the moment.
Stop(t) ==
    LET s == span[t] IN
    /\ pc[t] = "stop" /\ monitor[s] = Nil
    /\ monitor' = [monitor EXCEPT ![s] = t]
    /\ spans' = [spans EXCEPT ![s].ended = TRUE]
    /\ todo' = [todo EXCEPT ![t] = IF spans[s].ended THEN <<>> ELSE receivers]
    /\ Goto(t, "deliver")
    /\ UNCHANGED <<current, scopes, receivers, scope, span, got, historyVars>>

Deliver_FirstOnly(t) ==
    /\ pc[t] = "deliver" /\ todo[t] # <<>>
    /\ got' = [got EXCEPT ![Head(todo[t])][span[t]] = @ + 1]
    /\ todo' = [todo EXCEPT ![t] = <<>>]
    /\ UNCHANGED <<current, spans, scopes, receivers, monitor, pc, scope, span,
                   historyVars>>

Deliver(t) ==
    /\ pc[t] = "deliver" /\ todo[t] # <<>>
    /\ got' = [got EXCEPT ![Head(todo[t])][span[t]] = @ + 1]
    /\ todo' = [todo EXCEPT ![t] = Tail(@)]
    /\ UNCHANGED <<current, spans, scopes, receivers, monitor, pc, scope, span,
                   historyVars>>

\* A receiver throws: stop and close end there, and the current span stays.
DeliverThrows(t) ==
    /\ pc[t] = "deliver" /\ todo[t] # <<>>
    /\ Cardinality(thrown) < MaxThrows
    /\ thrown' = thrown \cup {span[t]}
    /\ monitor' = [monitor EXCEPT ![span[t]] = Nil]
    /\ todo' = [todo EXCEPT ![t] = <<>>]
    /\ Raise(t) /\ Ready(t)
    /\ UNCHANGED <<current, spans, scopes, receivers, got, shared, due>>
\* stop returns; close restores the span that was current before.
Stopped(t) ==
    LET i == scope[t] IN
    /\ pc[t] = "deliver" /\ todo[t] = <<>>
    /\ monitor' = [monitor EXCEPT ![span[t]] = Nil]
    /\ current' = IF i = 0 THEN current
                  ELSE [current EXCEPT ![t] = scopes[i].saved]
    /\ Ready(t)
    /\ UNCHANGED <<spans, scopes, receivers, todo, got, historyVars>>

-----------------------------------------------------------------------------
\* Receivers.

\* A receiver may come back; it is not registered twice at a time.
AddReceiver(r) ==
    /\ r \notin Range(receivers)
    /\ receivers' = Append(receivers, r)
    /\ UNCHANGED <<current, spans, scopes, monitor, callVars, got, historyVars>>

RemoveReceiver(r) ==
    /\ \E i \in 1 .. Len(receivers) :
          /\ receivers[i] = r
          /\ receivers' = SubSeq(receivers, 1, i - 1)
                          \o SubSeq(receivers, i + 1, Len(receivers))
    /\ due' = [s \in SpanIds |-> due[s] \ {r}]
    /\ UNCHANGED <<current, spans, scopes, monitor, callVars, got, erred, shared,
                   thrown>>

-----------------------------------------------------------------------------

Call(t) ==
    \/ StartSpan(t)
    \/ \E s \in SpanIds : StartChild(t, s) \/ ContinueSpan(t, s) \/ CallStop(t, s)
    \/ \E i \in 1 .. MaxScopes : Close(t, i) \/ Detach(t, i)

Return(t) == \/ DetachMark(t) \/ CloseMark(t) \/ Stop(t) \/ Deliver(t)
             \/ DeliverThrows(t) \/ Stopped(t)

Next == \/ \E t \in Threads : Call(t) \/ Return(t)
        \/ \E r \in Receivers : AddReceiver(r) \/ RemoveReceiver(r)

Spec == Init /\ [][Next]_vars

-----------------------------------------------------------------------------
\* Correctness.

SpanOrNil == SpanIds \cup {Nil}

\* Types.
TypeOK ==
    /\ current \in [Threads -> SpanOrNil]
    /\ spans \in Seq([ended : BOOLEAN]) /\ Len(spans) <= MaxSpans
    /\ scopes \in Seq([span : SpanIds, saved : SpanOrNil, thread : Threads,
                       detached : BOOLEAN])
    /\ Len(scopes) <= MaxScopes
    /\ receivers \in Seq(Receivers)
    /\ monitor \in [SpanIds -> Threads \cup {Nil}]
    /\ pc \in [Threads -> {"ready", "close", "detach", "stop", "deliver"}]
    /\ scope \in [Threads -> 0 .. MaxScopes] /\ span \in [Threads -> 0 .. MaxSpans]
    /\ todo \in [Threads -> Seq(Receivers)]
    /\ got \in [Receivers -> [SpanIds -> Nat]]
    /\ erred \subseteq Threads /\ shared \subseteq Threads
    /\ thrown \subseteq SpanIds
    /\ due \in [SpanIds -> SUBSET Receivers]

\* No receiver gets a span twice, or before it has ended, however many threads
\* close scopes of that span or stop it at the same time.
DeliveredOnce ==
    \A r \in Receivers : \A s \in Created :
        got[r][s] <= IF spans[s].ended THEN 1 ELSE 0

\* Every receiver registered from before a span was created until now has got
\* the span when stop has returned, unless a receiver threw.
DeliveredToAll ==
    \A s \in Created : spans[s].ended /\ monitor[s] = Nil /\ s \notin thrown =>
        \A r \in due[s] : got[r][s] = 1

\* A span that ends is delivered exactly once to whom it is due.
DeliveredExactly == DeliveredOnce /\ DeliveredToAll

\* The scopes of a thread that are open, in the order of their creation.  (The
\* scope that the thread is closing counts until its call returns.)
Own(t) == {i \in ScopeIds : scopes[i].thread = t}
Closing(t) == pc[t] \in {"stop", "deliver"} /\ scope[t] # 0
Open(t) == {i \in Own(t) : ~ scopes[i].detached \/ (Closing(t) /\ scope[t] = i)}
DistinctSpans(t) == \A i, j \in Own(t) : scopes[i].span = scopes[j].span => i = j

\* The checks of close and detach enforce the discipline of a stack: in a
\* thread that saw no exception, kept its scopes to itself and had no two of
\* them for one span, the current span is that of the youngest open scope, and
\* there is none when all are closed.
StackDiscipline ==
    \A t \in Threads : t \notin erred \cup shared /\ DistinctSpans(t) =>
        IF Open(t) = {} THEN current[t] = Nil
        ELSE \E i \in Open(t) : /\ \A j \in Open(t) : j <= i
                                /\ current[t] = scopes[i].span

\* Threads and receivers are interchangeable.
Symmetry == Permutations(Threads) \cup Permutations(Receivers)

=============================================================================
