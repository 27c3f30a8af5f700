-------------------------- MODULE TraceScopeProofs --------------------------
(***************************************************************************)
(* Machine-checked proofs about the spans, scopes and receivers of the     *)
(* Java client, for any number of threads, receivers, spans and scopes.    *)
(***************************************************************************)
EXTENDS TraceScope, SequenceLemmas

-----------------------------------------------------------------------------
\* The inductive invariant.

\* Scopes and calls refer to spans and scopes that exist.
RefInv ==
    /\ \A i \in ScopeIds : scopes[i].span \in Created
    /\ \A t \in Threads :
          /\ scope[t] # 0 => scope[t] \in ScopeIds
          /\ pc[t] \in {"close", "detach"} => scope[t] # 0
          /\ pc[t] \in {"stop", "deliver"} => span[t] \in Created

\* The list of receivers and the iterators over it hold none twice, and a
\* receiver to which a span is due is still in the list.
ListInv ==
    /\ NoRepeats(receivers) /\ \A t \in Threads : NoRepeats(todo[t])
    /\ \A s \in SpanIds : due[s] \subseteq Range(receivers)

\* The monitor of a span belongs to the thread that delivers the span.
Delivers(t, s) == pc[t] = "deliver" /\ span[t] = s
MonitorInv == \A t \in Threads : \A s \in SpanIds : monitor[s] = t <=> Delivers(t, s)

\* A receiver gets a span once, after its end, and not as long as it is on the
\* list of the thread that delivers the span.
Ended(s) == s \in Created /\ spans[s].ended
OnceInv ==
    \A s \in SpanIds : \A r \in Receivers :
        /\ got[r][s] \in {0, 1} /\ (got[r][s] = 1 => Ended(s))
        /\ \A t \in Threads : Delivers(t, s) =>
              Ended(s) /\ (r \in Range(todo[t]) => got[r][s] = 0)

\* It has got the span or is on that list.
AllInv ==
    \A s \in SpanIds : Ended(s) /\ s \notin thrown =>
        \A r \in due[s] : \/ got[r][s] = 1
                          \/ \E t \in Threads : Delivers(t, s) /\ r \in Range(todo[t])

\* A thread that keeps its scopes to itself is the only one that uses them; it
\* is closing a scope of its current span.
OwnInv ==
    \A t \in Threads :
        /\ scope[t] # 0 => \/ scopes[scope[t]].thread = t
                           \/ {t, scopes[scope[t]].thread} \subseteq shared
        /\ t \notin shared /\ pc[t] \in {"close", "detach"} => ~ scopes[scope[t]].detached
        /\ Closing(t) => current[t] = scopes[scope[t]].span /\ scopes[scope[t]].detached

\* The open scopes of a thread are a stack: each one remembers the span of the
\* one below it, and the current span is that of the top.
IsTop(S, v, f) ==
    IF S = {} THEN v = Nil
    ELSE \E i \in S : (\A j \in S : j <= i) /\ v = f[i].span
IsStack(S, v, f) ==
    IsTop(S, v, f) /\ \A i \in S : IsTop({j \in S : j < i}, f[i].saved, f)
StackInv ==
    \A t \in Threads : t \notin erred \cup shared /\ DistinctSpans(t) =>
        IsStack(Open(t), current[t], scopes)

-----------------------------------------------------------------------------
\* Type correctness.

SpanRec == [ended : BOOLEAN]
ScopeRec == [span : SpanIds, saved : SpanOrNil, thread : Threads, detached : BOOLEAN]

\* Marking a scope as detached changes nothing else.
LEMMA MarkScope ==
    ASSUME NEW q \in Seq(ScopeRec), NEW i \in 1 .. Len(q)
    PROVE  LET new == [q EXCEPT ![i].detached = TRUE] IN
           /\ new \in Seq(ScopeRec) /\ Len(new) = Len(q) /\ new[i].detached = TRUE
           /\ \A j \in 1 .. Len(q) :
                 /\ new[j].span = q[j].span /\ new[j].saved = q[j].saved
                 /\ new[j].thread = q[j].thread
                 /\ j # i => new[j] = q[j]
<1>1. q[i] \in ScopeRec
  OBVIOUS
<1>2. PICK e \in ScopeRec : /\ e = [q[i] EXCEPT !.detached = TRUE]
                            /\ e.span = q[i].span /\ e.saved = q[i].saved
                            /\ e.thread = q[i].thread /\ e.detached = TRUE
  <2> DEFINE d == [q[i] EXCEPT !.detached = TRUE]
  <2>1. d \in ScopeRec
    BY <1>1 DEF ScopeRec
  <2>2. d.span = q[i].span /\ d.saved = q[i].saved /\ d.thread = q[i].thread
    BY <1>1 DEF ScopeRec
  <2>3. d.detached = TRUE
    BY <1>1 DEF ScopeRec
  <2> QED
    BY <2>1, <2>2, <2>3, Zenon
<1>3. [q EXCEPT ![i].detached = TRUE] = [q EXCEPT ![i] = e]
  BY <1>2
<1>4. /\ [q EXCEPT ![i] = e] \in Seq(ScopeRec) /\ Len([q EXCEPT ![i] = e]) = Len(q)
      /\ \A j \in 1 .. Len(q) : [q EXCEPT ![i] = e][j] = IF j = i THEN e ELSE q[j]
  BY ExceptSeq
<1> QED
  BY <1>2, <1>3, <1>4

\* Neither does marking a span as ended.
LEMMA MarkSpan ==
    ASSUME NEW q \in Seq(SpanRec), NEW i \in 1 .. Len(q)
    PROVE  LET new == [q EXCEPT ![i].ended = TRUE] IN
           /\ new \in Seq(SpanRec) /\ Len(new) = Len(q) /\ new[i].ended = TRUE
           /\ \A j \in 1 .. Len(q) : j # i => new[j] = q[j]
<1>1. q[i] \in SpanRec
  OBVIOUS
<1>2. PICK e \in SpanRec : e = [q[i] EXCEPT !.ended = TRUE] /\ e.ended = TRUE
  <2> DEFINE d == [q[i] EXCEPT !.ended = TRUE]
  <2>1. d \in SpanRec
    BY <1>1 DEF SpanRec
  <2>2. d.ended = TRUE
    BY <1>1 DEF SpanRec
  <2> QED
    BY <2>1, <2>2, Zenon
<1>3. [q EXCEPT ![i].ended = TRUE] = [q EXCEPT ![i] = e]
  BY <1>2
<1>4. /\ [q EXCEPT ![i] = e] \in Seq(SpanRec) /\ Len([q EXCEPT ![i] = e]) = Len(q)
      /\ \A j \in 1 .. Len(q) : [q EXCEPT ![i] = e][j] = IF j = i THEN e ELSE q[j]
  BY ExceptSeq
<1> QED
  BY <1>2, <1>3, <1>4

\* The fields of a scope.
LEMMA ScopeFields ==
    ASSUME TypeOK, NEW i \in ScopeIds
    PROVE  /\ scopes[i].span \in SpanIds /\ scopes[i].saved \in SpanOrNil
           /\ scopes[i].thread \in Threads /\ scopes[i].detached \in BOOLEAN
<1>1. scopes \in Seq(ScopeRec) /\ i \in 1 .. Len(scopes)
  BY DEF TypeOK, ScopeRec, ScopeIds
<1>2. scopes[i] \in ScopeRec
  BY <1>1
<1> QED
  BY <1>2 DEF ScopeRec

\* The steps that create a scope, and perhaps a span before.
LEMMA NewScopeFacts ==
    ASSUME TypeOK, NEW t \in Threads, NEW s \in SpanIds, NewScope(t, s)
    PROVE  /\ scopes' \in Seq(ScopeRec) /\ Len(scopes') = Len(scopes) + 1
           /\ Len(scopes') <= MaxScopes /\ Len(scopes) \in Nat
           /\ \A i \in ScopeIds : scopes'[i] = scopes[i]
           /\ scopes'[Len(scopes) + 1] =
                 [span |-> s, saved |-> current[t], thread |-> t, detached |-> FALSE]
           /\ current' \in [Threads -> SpanOrNil] /\ current'[t] = s
           /\ \A u \in Threads \ {t} : current'[u] = current[u]
<1>1. PICK e \in ScopeRec :
         e = [span |-> s, saved |-> current[t], thread |-> t, detached |-> FALSE]
  BY DEF TypeOK, ScopeRec
<1>2. scopes \in Seq(ScopeRec) /\ MaxScopes \in Nat /\ Len(scopes) \in Nat
  BY TraceScopeAssumption DEF TypeOK, ScopeRec
<1>3. scopes' = Append(scopes, e) /\ Len(scopes) < MaxScopes
  BY <1>1 DEF NewScope
<1>4. /\ scopes' \in Seq(ScopeRec) /\ Len(scopes') = Len(scopes) + 1
      /\ \A i \in 1 .. Len(scopes) : scopes'[i] = scopes[i]
      /\ scopes'[Len(scopes) + 1] = e
  BY <1>2, <1>3, AppendProperties
<1>5. Len(scopes') <= MaxScopes
  BY <1>2, <1>3, <1>4
<1>6. /\ current' \in [Threads -> SpanOrNil] /\ current'[t] = s
      /\ \A u \in Threads \ {t} : current'[u] = current[u]
  BY DEF NewScope, TypeOK, SpanOrNil
<1> QED
  BY <1>1, <1>2, <1>4, <1>5, <1>6 DEF ScopeIds

\* ... with the new span.
LEMMA NewSpanFacts ==
    ASSUME TypeOK, NEW t \in Threads, NewSpan(t)
    PROVE  /\ spans' \in Seq(SpanRec) /\ Len(spans') = Len(spans) + 1
           /\ Len(spans') <= MaxSpans /\ Len(spans) \in Nat
           /\ Len(spans) + 1 \in SpanIds
           /\ \A i \in Created : spans'[i] = spans[i]
           /\ spans'[Len(spans) + 1].ended = FALSE
           /\ NewScope(t, Len(spans) + 1)
           /\ due' \in [SpanIds -> SUBSET Receivers]
           /\ due'[Len(spans) + 1] = Range(receivers)
           /\ \A s \in SpanIds : s # Len(spans) + 1 => due'[s] = due[s]
<1>1. PICK e \in SpanRec : e = [ended |-> FALSE] /\ e.ended = FALSE
  <2>1. [ended |-> FALSE] \in SpanRec
    BY DEF SpanRec
  <2>2. [ended |-> FALSE].ended = FALSE
    OBVIOUS
  <2> QED
    BY <2>1, <2>2, Zenon
<1>2. spans \in Seq(SpanRec) /\ MaxSpans \in Nat /\ Len(spans) \in Nat
  BY TraceScopeAssumption DEF TypeOK, SpanRec
<1>3. spans' = Append(spans, e) /\ Len(spans) < MaxSpans
  BY <1>1 DEF NewSpan
<1>4. /\ spans' \in Seq(SpanRec) /\ Len(spans') = Len(spans) + 1
      /\ \A i \in 1 .. Len(spans) : spans'[i] = spans[i]
      /\ spans'[Len(spans) + 1] = e
  BY <1>2, <1>3, AppendProperties
<1>5. Len(spans') <= MaxSpans /\ Len(spans) + 1 \in SpanIds
  BY <1>2, <1>3, <1>4 DEF SpanIds
<1>6. Range(receivers) \subseteq Receivers
  BY RangeType DEF TypeOK
<1>7. due \in [SpanIds -> SUBSET Receivers]
  BY DEF TypeOK
<1>8. due' = [due EXCEPT ![Len(spans) + 1] = Range(receivers)]
  BY DEF NewSpan
<1>9. /\ due' \in [SpanIds -> SUBSET Receivers]
      /\ due'[Len(spans) + 1] = Range(receivers)
      /\ \A s \in SpanIds : s # Len(spans) + 1 => due'[s] = due[s]
  BY <1>5, <1>6, <1>7, <1>8
<1> QED
  BY <1>1, <1>2, <1>4, <1>5, <1>9 DEF Created, NewSpan

\* A call that refers to an existing span or scope leaves the types intact.
LEMMA CallType ==
    ASSUME TypeOK, NEW t \in Threads, Call(t)
    PROVE  TypeOK'
<1> USE DEF callVars, historyVars
<1>1. scopes \in Seq(ScopeRec) /\ spans \in Seq(SpanRec)
  BY DEF TypeOK, ScopeRec, SpanRec
<1>2. ASSUME NewSpan(t), UNCHANGED <<receivers, monitor, callVars, got, erred, shared, thrown>>
      PROVE  TypeOK'
  <2>1. /\ spans' \in Seq(SpanRec) /\ Len(spans') <= MaxSpans /\ Len(spans) + 1 \in SpanIds
        /\ NewScope(t, Len(spans) + 1) /\ due' \in [SpanIds -> SUBSET Receivers]
    BY <1>2, NewSpanFacts
  <2>2. /\ scopes' \in Seq(ScopeRec) /\ Len(scopes') <= MaxScopes
        /\ current' \in [Threads -> SpanOrNil]
    BY <2>1, NewScopeFacts
  <2> QED
    BY <1>2, <2>1, <2>2 DEF TypeOK, ScopeRec, SpanRec
<1>3. ASSUME StartSpan(t) PROVE TypeOK'
  BY <1>2, <1>3 DEF StartSpan
<1>4. ASSUME NEW s \in SpanIds, StartChild(t, s) PROVE TypeOK'
  <2>1. CASE NewSpan(t) /\ UNCHANGED erred
    BY <1>2, <1>4, <2>1 DEF StartChild
  <2>2. CASE Raise(t) /\ UNCHANGED <<current, spans, scopes, due>>
    BY <1>4, <2>2 DEF StartChild, Raise, TypeOK
  <2> QED
    BY <1>4, <2>1, <2>2 DEF StartChild
<1>5. ASSUME NEW s \in SpanIds, ContinueSpan(t, s) PROVE TypeOK'
  <2>1. /\ scopes' \in Seq(ScopeRec) /\ Len(scopes') <= MaxScopes
        /\ current' \in [Threads -> SpanOrNil]
    BY <1>5, NewScopeFacts DEF ContinueSpan
  <2> QED
    BY <1>5, <2>1 DEF ContinueSpan, TypeOK, ScopeRec
<1>6. ASSUME NEW s \in SpanIds, CallStop(t, s) PROVE TypeOK'
  <2>1. MaxSpans \in Nat /\ MaxScopes \in Nat
    BY TraceScopeAssumption
  <2>2. /\ pc' \in [Threads -> {"ready", "close", "detach", "stop", "deliver"}]
        /\ scope' \in [Threads -> 0 .. MaxScopes] /\ span' \in [Threads -> 0 .. MaxSpans]
    BY <1>6, <2>1 DEF CallStop, Goto, TypeOK, SpanIds
  <2> QED
    BY <1>6, <2>2 DEF CallStop, TypeOK
<1>7. ASSUME NEW i \in 1 .. MaxScopes, Close(t, i) \/ Detach(t, i) PROVE TypeOK'
  <2>1. MaxSpans \in Nat /\ MaxScopes \in Nat
    BY TraceScopeAssumption
  <2>2. scopes[i].thread \in Threads
    BY <1>7, ScopeFields DEF Close, Detach
  <2>3. shared' \subseteq Threads /\ erred' \subseteq Threads
    BY <1>7, <2>2 DEF Close, Detach, Use, Raise, TypeOK
  <2>4. /\ pc' \in [Threads -> {"ready", "close", "detach", "stop", "deliver"}]
        /\ scope' \in [Threads -> 0 .. MaxScopes]
    <3>1. /\ pc \in [Threads -> {"ready", "close", "detach", "stop", "deliver"}]
          /\ scope \in [Threads -> 0 .. MaxScopes]
      BY DEF TypeOK
    <3>2. /\ \/ pc' = pc \/ pc' = [pc EXCEPT ![t] = "close"]
             \/ pc' = [pc EXCEPT ![t] = "detach"]
          /\ scope' = scope \/ scope' = [scope EXCEPT ![t] = i]
      BY <1>7 DEF Close, Detach, Goto
    <3>3. i \in 0 .. MaxScopes
      BY <2>1
    <3> QED
      BY <3>1, <3>2, <3>3
  <2> QED
    BY <1>7, <2>3, <2>4 DEF Close, Detach, TypeOK
<1> QED
  BY <1>3, <1>4, <1>5, <1>6, <1>7 DEF Call

\* So do the steps of a call that is under way.
LEMMA ReturnType ==
    ASSUME TypeOK, RefInv, NEW t \in Threads, Return(t)
    PROVE  TypeOK'
<1> USE DEF callVars, historyVars
<1>1. scopes \in Seq(ScopeRec) /\ spans \in Seq(SpanRec) /\ MaxSpans \in Nat /\ MaxScopes \in Nat
  BY TraceScopeAssumption DEF TypeOK, ScopeRec, SpanRec
<1>2. ASSUME DetachMark(t) \/ CloseMark(t) PROVE TypeOK'
  <2>1. PICK i \in 1 .. Len(scopes) : i = scope[t]
    BY <1>2 DEF DetachMark, CloseMark, RefInv, ScopeIds
  <2>2. scopes' = [scopes EXCEPT ![i].detached = TRUE]
    BY <1>2, <2>1 DEF DetachMark, CloseMark
  <2>3. scopes' \in Seq(ScopeRec) /\ Len(scopes') = Len(scopes)
    BY <1>1, <2>2, MarkScope
  <2>4. scopes[i].span \in SpanIds /\ scopes[i].saved \in SpanOrNil
    BY <2>1, ScopeFields DEF ScopeIds
  <2>5. current' \in [Threads -> SpanOrNil] /\ erred' \subseteq Threads
    BY <1>2, <2>1, <2>4 DEF DetachMark, CloseMark, Raise, TypeOK
  <2>6. /\ pc' \in [Threads -> {"ready", "close", "detach", "stop", "deliver"}]
        /\ scope' \in [Threads -> 0 .. MaxScopes] /\ span' \in [Threads -> 0 .. MaxSpans]
    <3>1. /\ pc \in [Threads -> {"ready", "close", "detach", "stop", "deliver"}]
          /\ scope \in [Threads -> 0 .. MaxScopes] /\ span \in [Threads -> 0 .. MaxSpans]
      BY DEF TypeOK
    <3>2. /\ pc' = [pc EXCEPT ![t] = "ready"] \/ pc' = [pc EXCEPT ![t] = "stop"]
          /\ scope' = scope \/ scope' = [scope EXCEPT ![t] = 0]
          /\ span' = [span EXCEPT ![t] = 0] \/ span' = [span EXCEPT ![t] = scopes[i].span]
      BY <1>2, <2>1 DEF DetachMark, CloseMark, Ready, Goto
    <3>3. 0 \in 0 .. MaxScopes /\ 0 \in 0 .. MaxSpans /\ scopes[i].span \in 0 .. MaxSpans
      BY <1>1, <2>4 DEF SpanIds
    <3> QED
      BY <3>1, <3>2, <3>3
  <2> QED
    BY <1>2, <2>3, <2>5, <2>6 DEF DetachMark, CloseMark, TypeOK, ScopeRec
<1>3. ASSUME Stop(t) PROVE TypeOK'
  <2>1. PICK s \in 1 .. Len(spans) : s = span[t]
    BY <1>3 DEF Stop, RefInv, Created
  <2>2. spans' = [spans EXCEPT ![s].ended = TRUE]
    BY <1>3, <2>1 DEF Stop
  <2>3. spans' \in Seq(SpanRec) /\ Len(spans') = Len(spans)
    BY <1>1, <2>2, MarkSpan
  <2>4. <<>> \in Seq(Receivers)
    OBVIOUS
  <2>5. todo' \in [Threads -> Seq(Receivers)]
    BY <1>3, <2>4 DEF Stop, TypeOK
  <2>6. /\ pc' \in [Threads -> {"ready", "close", "detach", "stop", "deliver"}]
        /\ monitor' \in [SpanIds -> Threads \cup {Nil}]
    BY <1>3 DEF Stop, Goto, TypeOK
  <2> QED
    BY <1>3, <2>3, <2>5, <2>6 DEF Stop, TypeOK, SpanRec
<1>4. ASSUME Deliver(t) PROVE TypeOK'
  <2>1. PICK q \in Seq(Receivers) : q = todo[t] /\ q # <<>>
    BY <1>4 DEF Deliver, TypeOK
  <2>2. Head(q) \in Receivers /\ Tail(q) \in Seq(Receivers)
    BY <2>1, RangeHeadTail
  <2>3. span[t] \in SpanIds
    BY <1>1, <1>4 DEF Deliver, RefInv, Created, SpanIds, TypeOK
  <2>4. todo' = [todo EXCEPT ![t] = Tail(q)]
    BY <1>4, <2>1 DEF Deliver
  <2>5. todo' \in [Threads -> Seq(Receivers)]
    BY <2>2, <2>4 DEF TypeOK
  <2>6. got' = [got EXCEPT ![Head(q)][span[t]] = @ + 1]
    BY <1>4, <2>1 DEF Deliver
  <2>7. got' \in [Receivers -> [SpanIds -> Nat]]
    BY <2>2, <2>3, <2>6 DEF TypeOK
  <2> QED
    BY <1>4, <2>5, <2>7 DEF Deliver, TypeOK
<1>5. ASSUME DeliverThrows(t) \/ Stopped(t) PROVE TypeOK'
  <2>1. span[t] \in SpanIds
    BY <1>1, <1>5 DEF DeliverThrows, Stopped, RefInv, Created, SpanIds, TypeOK
  <2>2. scope[t] # 0 => scopes[scope[t]].saved \in SpanOrNil
    BY ScopeFields DEF RefInv
  <2>3. current' \in [Threads -> SpanOrNil]
    BY <1>5, <2>2 DEF DeliverThrows, Stopped, TypeOK
  <2>4. <<>> \in Seq(Receivers)
    OBVIOUS
  <2>5. todo' \in [Threads -> Seq(Receivers)]
    BY <1>5, <2>4 DEF DeliverThrows, Stopped, TypeOK
  <2>6. /\ pc' \in [Threads -> {"ready", "close", "detach", "stop", "deliver"}]
        /\ scope' \in [Threads -> 0 .. MaxScopes] /\ span' \in [Threads -> 0 .. MaxSpans]
        /\ monitor' \in [SpanIds -> Threads \cup {Nil}]
    <3>1. /\ pc \in [Threads -> {"ready", "close", "detach", "stop", "deliver"}]
          /\ scope \in [Threads -> 0 .. MaxScopes] /\ span \in [Threads -> 0 .. MaxSpans]
          /\ monitor \in [SpanIds -> Threads \cup {Nil}]
      BY DEF TypeOK
    <3>2. /\ pc' = [pc EXCEPT ![t] = "ready"] /\ scope' = [scope EXCEPT ![t] = 0]
          /\ span' = [span EXCEPT ![t] = 0] /\ monitor' = [monitor EXCEPT ![span[t]] = Nil]
      BY <1>5 DEF DeliverThrows, Stopped, Ready
    <3>3. 0 \in 0 .. MaxScopes /\ 0 \in 0 .. MaxSpans
      BY <1>1
    <3> QED
      BY <3>1, <3>2, <3>3
  <2>7. erred' \subseteq Threads /\ thrown' \subseteq SpanIds
    BY <1>5, <2>1 DEF DeliverThrows, Stopped, Raise, TypeOK
  <2> QED
    BY <1>5, <2>3, <2>5, <2>6, <2>7 DEF DeliverThrows, Stopped, TypeOK
<1> QED
  BY <1>2, <1>3, <1>4, <1>5 DEF Return

\* Scopes and spans are only added and marked.
Grown ==
    /\ ScopeIds \subseteq ScopeIds' /\ Created \subseteq Created'
    /\ \A i \in ScopeIds :
          /\ scopes'[i].span = scopes[i].span /\ scopes'[i].saved = scopes[i].saved
          /\ scopes'[i].thread = scopes[i].thread
          /\ scopes[i].detached => scopes'[i].detached
    /\ \A s \in Created : spans'[s] = spans[s] \/ spans'[s].ended = TRUE

\* A thread creates a span, or misuses startSpan.
Starts(t) == /\ pc[t] = "ready" /\ NewSpan(t)
             /\ UNCHANGED <<receivers, monitor, callVars, got, erred, shared, thrown>>
Misuses(t) == /\ Raise(t)
              /\ UNCHANGED <<current, spans, scopes, receivers, monitor, callVars, got,
                             shared, due, thrown>>

\* The steps of the specification, with the two outcomes of startSpan apart.
LEMMA StepKinds ==
    ASSUME [Next]_vars
    PROVE  \/ \E t \in Threads : Starts(t) \/ Misuses(t)
           \/ \E t \in Threads : \E s \in SpanIds : ContinueSpan(t, s) \/ CallStop(t, s)
           \/ \E t \in Threads : \E i \in 1 .. MaxScopes : Close(t, i) \/ Detach(t, i)
           \/ \E t \in Threads : DetachMark(t) \/ CloseMark(t) \/ Stop(t)
           \/ \E t \in Threads : Deliver(t) \/ DeliverThrows(t) \/ Stopped(t)
           \/ \E r \in Receivers : AddReceiver(r) \/ RemoveReceiver(r)
           \/ UNCHANGED vars
<1>1. ASSUME NEW t \in Threads, StartSpan(t) PROVE Starts(t)
  BY <1>1 DEF StartSpan, Starts
<1>2. ASSUME NEW t \in Threads, NEW s \in SpanIds, StartChild(t, s) PROVE Starts(t) \/ Misuses(t)
  BY <1>2 DEF StartChild, Starts, Misuses, callVars
<1> QED
  BY <1>1, <1>2 DEF Next, Call, Return

\* Every step leaves what exists.
LEMMA GrownStep ==
    ASSUME TypeOK, RefInv, [Next]_vars
    PROVE  Grown
<1> USE DEF callVars, historyVars
<1>1. scopes \in Seq(ScopeRec) /\ spans \in Seq(SpanRec)
  BY DEF TypeOK, ScopeRec, SpanRec
<1>2. ASSUME NEW t \in Threads, Starts(t) PROVE Grown
  <2>1. /\ Len(spans') = Len(spans) + 1 /\ Len(spans) \in Nat /\ Len(spans) + 1 \in SpanIds
        /\ \A i \in Created : spans'[i] = spans[i]
        /\ NewScope(t, Len(spans) + 1)
    BY <1>2, NewSpanFacts DEF Starts
  <2>2. /\ Len(scopes') = Len(scopes) + 1 /\ Len(scopes) \in Nat
        /\ \A i \in ScopeIds : scopes'[i] = scopes[i]
    BY <2>1, NewScopeFacts
  <2> QED
    BY <2>1, <2>2 DEF Grown, ScopeIds, Created
<1>3. ASSUME NEW t \in Threads, NEW s \in SpanIds, ContinueSpan(t, s) PROVE Grown
  <2>1. /\ Len(scopes') = Len(scopes) + 1 /\ Len(scopes) \in Nat
        /\ \A i \in ScopeIds : scopes'[i] = scopes[i]
    BY <1>3, NewScopeFacts DEF ContinueSpan
  <2> QED
    BY <1>3, <2>1 DEF ContinueSpan, Grown, ScopeIds, Created
<1>4. ASSUME NEW t \in Threads, DetachMark(t) \/ CloseMark(t) PROVE Grown
  <2>1. PICK i \in 1 .. Len(scopes) : i = scope[t]
    BY <1>4 DEF DetachMark, CloseMark, RefInv, ScopeIds
  <2>2. scopes' = [scopes EXCEPT ![i].detached = TRUE] /\ spans' = spans
    BY <1>4, <2>1 DEF DetachMark, CloseMark
  <2>3. /\ Len(scopes') = Len(scopes)
        /\ \A j \in 1 .. Len(scopes) :
                 /\ scopes'[j].span = scopes[j].span /\ scopes'[j].saved = scopes[j].saved
                 /\ scopes'[j].thread = scopes[j].thread
                 /\ j # i => scopes'[j] = scopes[j]
        /\ scopes'[i].detached = TRUE
    BY <1>1, <2>2, MarkScope
  <2> QED
    BY <2>2, <2>3 DEF Grown, ScopeIds, Created
<1>5. ASSUME NEW t \in Threads, Stop(t) PROVE Grown
  <2>1. PICK s \in 1 .. Len(spans) : s = span[t]
    BY <1>5 DEF Stop, RefInv, Created
  <2>2. spans' = [spans EXCEPT ![s].ended = TRUE] /\ scopes' = scopes
    BY <1>5, <2>1 DEF Stop
  <2>3. /\ Len(spans') = Len(spans) /\ spans'[s].ended = TRUE
        /\ \A j \in 1 .. Len(spans) : j # s => spans'[j] = spans[j]
    BY <1>1, <2>2, MarkSpan
  <2> QED
    BY <2>2, <2>3 DEF Grown, ScopeIds, Created
<1>6. ASSUME UNCHANGED <<scopes, spans>> PROVE Grown
  BY <1>6 DEF Grown, ScopeIds, Created
<1> QED
  BY <1>2, <1>3, <1>4, <1>5, <1>6, StepKinds DEF Misuses, CallStop, Close, Detach,
     Deliver, DeliverThrows, Stopped, AddReceiver, RemoveReceiver, vars

\* References stay valid.
LEMMA RefStep ==
    ASSUME TypeOK, RefInv, [Next]_vars
    PROVE  RefInv'
<1> USE DEF callVars, historyVars
<1>1. Grown
  BY GrownStep
<1>2. \A t \in Threads :
          /\ scope[t] # 0 => scope[t] \in ScopeIds'
          /\ pc[t] \in {"stop", "deliver"} => span[t] \in Created'
  BY <1>1 DEF Grown, RefInv
<1>3. \A i \in ScopeIds : scopes'[i].span \in Created'
  BY <1>1 DEF Grown, RefInv
<1>4. ASSUME NEW t \in Threads, NEW s \in Created', NewScope(t, s), s \in SpanIds,
             UNCHANGED callVars
      PROVE  RefInv'
  <2>1. /\ Len(scopes') = Len(scopes) + 1 /\ Len(scopes) \in Nat
        /\ scopes'[Len(scopes) + 1] =
             [span |-> s, saved |-> current[t], thread |-> t, detached |-> FALSE]
    BY <1>4, NewScopeFacts
  <2>2. scopes'[Len(scopes) + 1].span = s
    BY <2>1
  <2>3. \A i \in ScopeIds' : i \in ScopeIds \/ i = Len(scopes) + 1
    BY <2>1 DEF ScopeIds
  <2> QED
    BY <1>2, <1>3, <1>4, <2>2, <2>3 DEF RefInv
<1>5. ASSUME NEW t \in Threads, Starts(t) PROVE RefInv'
  <2>1. /\ Len(spans') = Len(spans) + 1 /\ Len(spans) \in Nat /\ Len(spans) + 1 \in SpanIds
        /\ NewScope(t, Len(spans) + 1)
    BY <1>5, NewSpanFacts DEF Starts
  <2>2. Len(spans) + 1 \in Created'
    BY <2>1 DEF Created
  <2> QED
    BY <1>4, <1>5, <2>1, <2>2 DEF Starts
<1>6. ASSUME NEW t \in Threads, NEW s \in SpanIds, ContinueSpan(t, s) PROVE RefInv'
  BY <1>1, <1>4, <1>6 DEF ContinueSpan, Grown
<1>7. ASSUME NEW t \in Threads, DetachMark(t) \/ CloseMark(t) PROVE RefInv'
  <2>1. PICK i \in ScopeIds : i = scope[t]
    BY <1>7 DEF DetachMark, CloseMark, RefInv
  <2>2. ScopeIds' = ScopeIds
    <3>1. scopes' = [scopes EXCEPT ![i].detached = TRUE]
      BY <1>7, <2>1 DEF DetachMark, CloseMark
    <3>2. scopes \in Seq(ScopeRec)
      BY DEF TypeOK, ScopeRec
    <3>3. Len(scopes') = Len(scopes)
      BY <3>1, <3>2, MarkScope DEF ScopeIds
    <3> QED
      BY <3>3 DEF ScopeIds
  <2>3. scopes[i].span \in Created'
    BY <1>1 DEF RefInv, Grown
  <2>4. \A u \in Threads : u # t => pc'[u] = pc[u] /\ scope'[u] = scope[u] /\ span'[u] = span[u]
    BY <1>7 DEF DetachMark, CloseMark, Ready, Goto, TypeOK
  <2>5. \/ pc'[t] = "ready" /\ scope'[t] = 0
        \/ pc'[t] = "stop" /\ scope'[t] = scope[t] /\ span'[t] = scopes[i].span
    BY <1>7, <2>1 DEF DetachMark, CloseMark, Ready, Goto, TypeOK
  <2> QED
    BY <1>2, <1>3, <2>2, <2>3, <2>4, <2>5 DEF RefInv
<1>8. ASSUME NEW t \in Threads, NEW i \in 1 .. MaxScopes, Close(t, i) \/ Detach(t, i)
      PROVE  RefInv'
  <2>1. i \in ScopeIds /\ ScopeIds' = ScopeIds /\ Created' = Created /\ i # 0
    BY <1>8 DEF Close, Detach, ScopeIds, Created
  <2>2. \A u \in Threads : u # t => pc'[u] = pc[u] /\ scope'[u] = scope[u] /\ span'[u] = span[u]
    BY <1>8 DEF Close, Detach, Goto, TypeOK
  <2>3. \/ pc'[t] = pc[t] /\ scope'[t] = scope[t] /\ span'[t] = span[t]
        \/ pc'[t] \in {"close", "detach"} /\ scope'[t] = i
    BY <1>8 DEF Close, Detach, Goto, TypeOK
  <2> QED
    BY <1>2, <1>3, <2>1, <2>2, <2>3 DEF RefInv
<1>9. ASSUME NEW t \in Threads, NEW s \in SpanIds, CallStop(t, s) PROVE RefInv'
  BY <1>2, <1>3, <1>9 DEF CallStop, Goto, RefInv, ScopeIds, Created, TypeOK
<1>10. ASSUME NEW t \in Threads, Stop(t) \/ Deliver(t) \/ DeliverThrows(t) \/ Stopped(t)
       PROVE  RefInv'
  <2>1. ScopeIds' = ScopeIds
    BY <1>10 DEF Stop, Deliver, DeliverThrows, Stopped, ScopeIds
  <2>2. \A u \in Threads : u # t => pc'[u] = pc[u] /\ scope'[u] = scope[u] /\ span'[u] = span[u]
    BY <1>10 DEF Stop, Deliver, DeliverThrows, Stopped, Ready, Goto, TypeOK
  <2>3. \/ pc'[t] = "ready" /\ scope'[t] = 0
        \/ /\ pc[t] \in {"stop", "deliver"} /\ pc'[t] = "deliver"
           /\ scope'[t] = scope[t] /\ span'[t] = span[t]
    BY <1>10 DEF Stop, Deliver, DeliverThrows, Stopped, Ready, Goto, TypeOK
  <2> QED
    BY <1>2, <1>3, <2>1, <2>2, <2>3 DEF RefInv
<1>11. ASSUME UNCHANGED <<spans, scopes, callVars>> PROVE RefInv'
  BY <1>11 DEF RefInv, ScopeIds, Created
<1> QED
  BY <1>5, <1>6, <1>7, <1>8, <1>9, <1>10, <1>11, StepKinds
     DEF Misuses, AddReceiver, RemoveReceiver, vars

\* Registering and removing a receiver.
LEMMA ReceiverFacts ==
    ASSUME TypeOK, ListInv, NEW r \in Receivers, AddReceiver(r) \/ RemoveReceiver(r)
    PROVE  /\ receivers' \in Seq(Receivers) /\ NoRepeats(receivers')
           /\ due' \in [SpanIds -> SUBSET Receivers]
           /\ \A s \in SpanIds : due'[s] \subseteq due[s] /\ due'[s] \subseteq Range(receivers')
<1> USE DEF callVars, historyVars
<1>1. /\ receivers \in Seq(Receivers) /\ NoRepeats(receivers)
      /\ due \in [SpanIds -> SUBSET Receivers]
      /\ \A s \in SpanIds : due[s] \subseteq Range(receivers)
  BY DEF TypeOK, ListInv
<1>2. CASE AddReceiver(r)
  <2>1. r \notin Range(receivers) /\ receivers' = Append(receivers, r) /\ due' = due
    BY <1>2 DEF AddReceiver
  <2>2. receivers' \in Seq(Receivers) /\ Range(receivers') = Range(receivers) \cup {r}
    BY <1>1, <2>1, RangeAppend
  <2>3. NoRepeats(receivers')
    BY <1>1, <2>1, DistinctAppend
  <2> QED
    BY <1>1, <2>1, <2>2, <2>3
<1>3. CASE RemoveReceiver(r)
  <2>1. PICK i \in 1 .. Len(receivers) :
           /\ receivers[i] = r
           /\ receivers' = SubSeq(receivers, 1, i - 1) \o SubSeq(receivers, i + 1, Len(receivers))
    BY <1>3 DEF RemoveReceiver
  <2>2. /\ receivers' \in Seq(Receivers) /\ NoRepeats(receivers')
        /\ Range(receivers') = Range(receivers) \ {r}
    BY <1>1, <2>1, DistinctRemove
  <2>3. due' = [s \in SpanIds |-> due[s] \ {r}]
    BY <1>3 DEF RemoveReceiver
  <2> QED
    BY <1>1, <2>2, <2>3
<1> QED
  BY <1>2, <1>3

\* The lists stay free of repetition: an iterator starts as a copy of the list and
\* loses its head.
LEMMA ListStep ==
    ASSUME TypeOK, ListInv, [Next]_vars
    PROVE  ListInv'
<1> USE DEF callVars, historyVars
<1>1. /\ receivers \in Seq(Receivers) /\ NoRepeats(receivers)
      /\ todo \in [Threads -> Seq(Receivers)] /\ \A t \in Threads : NoRepeats(todo[t])
      /\ \A s \in SpanIds : due[s] \subseteq Range(receivers)
  BY DEF TypeOK, ListInv
<1>2. ASSUME NEW t \in Threads, Starts(t) PROVE ListInv'
  <2>1. /\ due'[Len(spans) + 1] = Range(receivers)
        /\ \A s \in SpanIds : s # Len(spans) + 1 => due'[s] = due[s]
    BY <1>2, NewSpanFacts DEF Starts
  <2>2. receivers' = receivers /\ todo' = todo
    BY <1>2 DEF Starts
  <2> QED
    BY <1>1, <2>1, <2>2 DEF ListInv
<1>3. ASSUME NEW t \in Threads, Stop(t) \/ Deliver(t) \/ DeliverThrows(t) PROVE ListInv'
  <2>1. NoRepeats(<<>>)
    <3>1. Len(<<>>) = 0 /\ \A i \in 1 .. 0 : FALSE
      OBVIOUS
    <3> QED
      BY <3>1 DEF NoRepeats
  <2>2. PICK q \in Seq(Receivers) : q = todo[t] /\ NoRepeats(q)
    BY <1>1
  <2>3. q # <<>> => NoRepeats(Tail(q))
    BY <2>2, DistinctTail
  <2>4. /\ receivers' = receivers /\ due' = due
        /\ \/ todo' = [todo EXCEPT ![t] = <<>>]
           \/ todo' = [todo EXCEPT ![t] = receivers]
           \/ q # <<>> /\ todo' = [todo EXCEPT ![t] = Tail(q)]
    BY <1>3, <2>2 DEF Stop, Deliver, DeliverThrows
  <2>5. \A u \in Threads : NoRepeats(todo'[u])
    <3> SUFFICES ASSUME NEW u \in Threads PROVE NoRepeats(todo'[u])
      OBVIOUS
    <3>1. CASE u # t
      BY <1>1, <2>4, <3>1
    <3>2. CASE u = t
      <4>1. todo'[t] = <<>> \/ todo'[t] = receivers \/ (q # <<>> /\ todo'[t] = Tail(q))
        BY <1>1, <2>4
      <4> QED
        BY <1>1, <2>1, <2>3, <3>2, <4>1
    <3> QED
      BY <3>1, <3>2
  <2> QED
    BY <1>1, <2>4, <2>5 DEF ListInv
<1>4. ASSUME NEW r \in Receivers, AddReceiver(r) \/ RemoveReceiver(r) PROVE ListInv'
  <2>1. todo' = todo
    BY <1>4 DEF AddReceiver, RemoveReceiver
  <2>2. NoRepeats(receivers') /\ \A s \in SpanIds : due'[s] \subseteq Range(receivers')
    BY <1>4, ReceiverFacts
  <2> QED
    BY <1>1, <2>1, <2>2 DEF ListInv
<1>5. ASSUME UNCHANGED <<receivers, todo, due>> PROVE ListInv'
  BY <1>5 DEF ListInv
<1> QED
  BY <1>2, <1>3, <1>4, <1>5, StepKinds DEF Misuses, ContinueSpan, CallStop, Close, Detach,
     DetachMark, CloseMark, Stopped, vars

\* The variables have their types, references are valid and lists without
\* repetition.
THEOREM TypeCorrect == Spec => [](TypeOK /\ RefInv /\ ListInv)
<1> USE DEF callVars, historyVars
<1>1. Init => TypeOK /\ RefInv /\ ListInv
  <2> SUFFICES ASSUME Init PROVE TypeOK /\ RefInv /\ ListInv
    OBVIOUS
  <2>1. <<>> \in Seq(SpanRec) /\ <<>> \in Seq(ScopeRec) /\ <<>> \in Seq(Receivers) /\ Len(<<>>) = 0
    OBVIOUS
  <2>2. MaxSpans \in Nat /\ MaxScopes \in Nat
    BY TraceScopeAssumption
  <2>3. /\ spans \in Seq(SpanRec) /\ Len(spans) = 0 /\ scopes \in Seq(ScopeRec) /\ Len(scopes) = 0
        /\ receivers \in Seq(Receivers) /\ Len(receivers) = 0
    BY <2>1 DEF Init
  <2>4. /\ current \in [Threads -> SpanOrNil]
        /\ monitor \in [SpanIds -> Threads \cup {Nil}]
        /\ pc \in [Threads -> {"ready", "close", "detach", "stop", "deliver"}]
        /\ todo \in [Threads -> Seq(Receivers)]
        /\ due \in [SpanIds -> SUBSET Receivers]
    BY <2>1 DEF Init, SpanOrNil
  <2>5. /\ scope \in [Threads -> 0 .. MaxScopes] /\ span \in [Threads -> 0 .. MaxSpans]
    BY <2>2 DEF Init
  <2>6. got \in [Receivers -> [SpanIds -> Nat]]
    BY DEF Init
  <2>7. erred = {} /\ shared = {} /\ thrown = {}
    BY DEF Init
  <2>8. TypeOK
    BY <2>2, <2>3, <2>4, <2>5, <2>6, <2>7 DEF TypeOK, SpanRec, ScopeRec
  <2>9. \A i \in 1 .. 0 : FALSE
    OBVIOUS
  <2>10. RefInv
    BY <2>3, <2>9 DEF Init, RefInv, ScopeIds, Created
  <2>11. ListInv
    BY <2>1, <2>9 DEF Init, ListInv, NoRepeats
  <2> QED
    BY <2>8, <2>10, <2>11
<1>2. TypeOK /\ RefInv /\ ListInv /\ [Next]_vars => TypeOK' /\ RefInv' /\ ListInv'
  <2> SUFFICES ASSUME TypeOK, RefInv, ListInv, [Next]_vars PROVE TypeOK' /\ RefInv' /\ ListInv'
    OBVIOUS
  <2>1. ASSUME NEW r \in Receivers, AddReceiver(r) \/ RemoveReceiver(r) PROVE TypeOK'
    <3>1. receivers' \in Seq(Receivers) /\ due' \in [SpanIds -> SUBSET Receivers]
      BY <2>1, ReceiverFacts
    <3> QED
      BY <2>1, <3>1 DEF AddReceiver, RemoveReceiver, TypeOK
  <2>2. ASSUME UNCHANGED vars PROVE TypeOK'
    BY <2>2 DEF vars, TypeOK
  <2>3. TypeOK'
    BY <2>1, <2>2, CallType, ReturnType DEF Next
  <2> QED
    BY <2>3, RefStep, ListStep
<1> QED
  BY <1>1, <1>2, PTL DEF Spec

-----------------------------------------------------------------------------
\* Delivery.

\* stop takes the monitor of a span that nobody delivers, and gives it back at the
\* end, also when a receiver throws.
LEMMA MonitorStep ==
    ASSUME TypeOK, RefInv, MonitorInv, [Next]_vars
    PROVE  MonitorInv'
<1> USE DEF callVars, historyVars
<1>1. /\ pc \in [Threads -> {"ready", "close", "detach", "stop", "deliver"}]
      /\ span \in [Threads -> 0 .. MaxSpans] /\ monitor \in [SpanIds -> Threads \cup {Nil}]
      /\ Nil \notin Threads
  BY TraceScopeAssumption DEF TypeOK
<1>2. ASSUME NEW t \in Threads, pc[t] # "deliver", pc'[t] # "deliver", monitor' = monitor,
             \A u \in Threads : u # t => pc'[u] = pc[u] /\ span'[u] = span[u]
      PROVE  MonitorInv'
  BY <1>2 DEF MonitorInv, Delivers
<1>3. ASSUME NEW t \in Threads, NEW s \in SpanIds, CallStop(t, s) PROVE MonitorInv'
  BY <1>1, <1>2, <1>3 DEF CallStop, Goto
<1>4. ASSUME NEW t \in Threads, NEW i \in 1 .. MaxScopes, Close(t, i) \/ Detach(t, i)
      PROVE  MonitorInv'
  BY <1>1, <1>2, <1>4 DEF Close, Detach, Goto
<1>5. ASSUME NEW t \in Threads, DetachMark(t) \/ CloseMark(t) PROVE MonitorInv'
  BY <1>1, <1>2, <1>5 DEF DetachMark, CloseMark, Ready, Goto
<1>6. ASSUME NEW t \in Threads, Stop(t) PROVE MonitorInv'
  <2>1. PICK s \in SpanIds : s = span[t]
    BY <1>1, <1>6 DEF Stop, RefInv, Created, SpanIds, TypeOK
  <2>2. /\ pc[t] = "stop" /\ monitor[s] = Nil /\ monitor' = [monitor EXCEPT ![s] = t]
        /\ span' = span /\ pc' = [pc EXCEPT ![t] = "deliver"]
    BY <1>6, <2>1 DEF Stop, Goto
  <2> QED
    BY <1>1, <2>1, <2>2 DEF MonitorInv, Delivers
<1>7. ASSUME NEW t \in Threads, DeliverThrows(t) \/ Stopped(t) PROVE MonitorInv'
  <2>1. PICK s \in SpanIds : s = span[t]
    BY <1>1, <1>7 DEF DeliverThrows, Stopped, RefInv, Created, SpanIds, TypeOK
  <2>2. /\ pc[t] = "deliver" /\ monitor' = [monitor EXCEPT ![s] = Nil]
        /\ span' = [span EXCEPT ![t] = 0] /\ pc' = [pc EXCEPT ![t] = "ready"]
    BY <1>7, <2>1 DEF DeliverThrows, Stopped, Ready
  <2> QED
    BY <1>1, <2>1, <2>2 DEF MonitorInv, Delivers
<1>8. ASSUME UNCHANGED <<pc, span, monitor>> PROVE MonitorInv'
  BY <1>8 DEF MonitorInv, Delivers
<1> QED
  BY <1>3, <1>4, <1>5, <1>6, <1>7, <1>8, StepKinds DEF Starts, Misuses, ContinueSpan, Deliver,
     AddReceiver, RemoveReceiver, vars

\* A span that has ended stays so, and only stop ends one.
LEMMA EndedStep ==
    ASSUME TypeOK, RefInv, [Next]_vars, NEW s \in SpanIds
    PROVE  /\ Ended(s) => Ended(s)'
           /\ Ended(s)' /\ ~ Ended(s) => \E t \in Threads : Stop(t) /\ span[t] = s
<1> USE DEF callVars, historyVars
<1>1. Ended(s) => Ended(s)'
  BY GrownStep DEF Grown, Ended
<1>2. ASSUME NEW t \in Threads, Starts(t), Ended(s)' PROVE Ended(s)
  <2>1. /\ Len(spans') = Len(spans) + 1 /\ Len(spans) \in Nat
        /\ \A i \in Created : spans'[i] = spans[i]
        /\ spans'[Len(spans) + 1].ended = FALSE
    BY <1>2, NewSpanFacts DEF Starts
  <2> QED
    BY <1>2, <2>1 DEF Ended, Created
<1>3. ASSUME NEW t \in Threads, Stop(t), span[t] # s, Ended(s)' PROVE Ended(s)
  <2>1. spans \in Seq(SpanRec)
    BY DEF TypeOK, SpanRec
  <2>2. PICK i \in 1 .. Len(spans) : i = span[t]
    BY <1>3 DEF Stop, RefInv, Created
  <2>3. spans' = [spans EXCEPT ![i].ended = TRUE]
    BY <1>3, <2>2 DEF Stop
  <2>4. Len(spans') = Len(spans) /\ \A j \in 1 .. Len(spans) : j # i => spans'[j] = spans[j]
    BY <2>1, <2>3, MarkSpan
  <2> QED
    BY <1>3, <2>2, <2>4 DEF Ended, Created
<1>4. ASSUME spans' = spans, Ended(s)' PROVE Ended(s)
  BY <1>4 DEF Ended, Created
<1> QED
  BY <1>1, <1>2, <1>3, <1>4, StepKinds DEF Misuses, ContinueSpan, CallStop, Close, Detach,
     DetachMark, CloseMark, Deliver, DeliverThrows, Stopped, AddReceiver, RemoveReceiver, vars

\* A span that nobody has stopped yet ends with the stop.
LEMMA StopFacts ==
    ASSUME TypeOK, RefInv, NEW t \in Threads, Stop(t)
    PROVE  /\ span[t] \in SpanIds /\ span[t] \in Created /\ Ended(span[t])' /\ span' = span
           /\ Delivers(t, span[t])' /\ pc[t] = "stop" /\ got' = got /\ due' = due
           /\ \A u \in Threads : u # t => pc'[u] = pc[u] /\ todo'[u] = todo[u]
           /\ todo'[t] = IF Ended(span[t]) THEN <<>> ELSE receivers
           /\ thrown' = thrown /\ monitor[span[t]] = Nil
<1> USE DEF callVars, historyVars
<1>1. spans \in Seq(SpanRec)
  BY DEF TypeOK, SpanRec
<1>2. PICK i \in 1 .. Len(spans) : i = span[t] /\ i \in SpanIds
  BY DEF Stop, RefInv, Created, SpanIds, TypeOK
<1>3. spans' = [spans EXCEPT ![i].ended = TRUE] /\ span' = span
  BY <1>2 DEF Stop
<1>4. Len(spans') = Len(spans) /\ spans'[i].ended = TRUE
  BY <1>1, <1>3, MarkSpan
<1>5. Ended(span[t])'
  BY <1>2, <1>3, <1>4 DEF Ended, Created
<1>6. Ended(span[t]) <=> spans[span[t]].ended
  BY <1>2 DEF Ended, Created
<1>7. /\ pc'[t] = "deliver" /\ pc[t] = "stop" /\ monitor[span[t]] = Nil
      /\ \A u \in Threads : u # t => pc'[u] = pc[u] /\ todo'[u] = todo[u]
      /\ UNCHANGED <<got, due, thrown>>
  BY DEF Stop, Goto, TypeOK
<1>8. todo'[t] = IF spans[span[t]].ended THEN <<>> ELSE receivers
  BY DEF Stop, TypeOK
<1> QED
  BY <1>2, <1>3, <1>5, <1>6, <1>7, <1>8 DEF Delivers, Created

\* One receiver after the other gets the span and leaves the list.
LEMMA DeliverFacts ==
    ASSUME TypeOK, RefInv, ListInv, NEW t \in Threads, Deliver(t)
    PROVE  \E r \in Receivers, s \in SpanIds :
             /\ Delivers(t, s) /\ r \in Range(todo[t])
             /\ Range(todo'[t]) = Range(todo[t]) \ {r}
             /\ \A u \in Threads : u # t => todo'[u] = todo[u]
             /\ got'[r][s] = got[r][s] + 1
             /\ \A q \in Receivers : \A x \in SpanIds : q # r \/ x # s => got'[q][x] = got[q][x]
             /\ UNCHANGED <<spans, pc, span, due, thrown>>
<1> USE DEF callVars, historyVars
<1>1. PICK l \in Seq(Receivers) : l = todo[t] /\ l # <<>> /\ NoRepeats(l)
  BY DEF Deliver, TypeOK, ListInv
<1>2. PICK r \in Receivers : r = Head(l)
  BY <1>1, RangeHeadTail
<1>3. PICK s \in SpanIds : s = span[t]
  BY DEF Deliver, RefInv, Created, SpanIds, TypeOK
<1>4. todo' = [todo EXCEPT ![t] = Tail(l)] /\ got' = [got EXCEPT ![r][s] = @ + 1]
  BY <1>1, <1>2, <1>3 DEF Deliver
<1>5. todo'[t] = Tail(l) /\ \A u \in Threads : u # t => todo'[u] = todo[u]
  BY <1>4 DEF TypeOK
<1>6. Range(l) = {r} \cup Range(Tail(l)) /\ r \notin Range(Tail(l))
  BY <1>1, <1>2, RangeHeadTail, DistinctTail
<1>7. got \in [Receivers -> [SpanIds -> Nat]]
  BY DEF TypeOK
<1>8. /\ got'[r][s] = got[r][s] + 1
      /\ \A q \in Receivers : \A x \in SpanIds : q # r \/ x # s => got'[q][x] = got[q][x]
  BY <1>4, <1>7
<1>9. /\ Delivers(t, s) /\ r \in Range(todo[t]) /\ Range(todo'[t]) = Range(todo[t]) \ {r}
      /\ UNCHANGED <<spans, pc, span, due, thrown>>
  BY <1>1, <1>3, <1>5, <1>6 DEF Deliver, Delivers
<1> QED
  BY <1>5, <1>8, <1>9

\* No receiver gets a span twice: the span ends once, the thread that ended it has
\* the monitor, and its list holds no receiver twice.
LEMMA OnceStep ==
    ASSUME TypeOK, RefInv, ListInv, MonitorInv, OnceInv, [Next]_vars
    PROVE  OnceInv'
<1> USE DEF callVars, historyVars
<1>1. \A s \in SpanIds : Ended(s) => Ended(s)'
  BY EndedStep
<1>2. ASSUME got' = got,
             \A t \in Threads : \A s \in SpanIds : Delivers(t, s)' =>
                Delivers(t, s) /\ Range(todo'[t]) \subseteq Range(todo[t])
      PROVE  OnceInv'
  BY <1>1, <1>2 DEF OnceInv
<1>3. ASSUME NEW t \in Threads, Stop(t) PROVE OnceInv'
  <2>1. PICK x \in SpanIds : x = span[t]
    BY <1>3, StopFacts
  <2>2. /\ Ended(x)' /\ got' = got /\ span' = span
        /\ \A u \in Threads : u # t => pc'[u] = pc[u] /\ todo'[u] = todo[u]
        /\ todo'[t] = IF Ended(x) THEN <<>> ELSE receivers
    BY <1>3, <2>1, StopFacts
  <2>3. ASSUME NEW s \in SpanIds, NEW r \in Receivers, NEW u \in Threads, Delivers(u, s)'
        PROVE  Ended(s)' /\ (r \in Range(todo'[u]) => got'[r][s] = 0)
    <3>1. CASE u # t
      <4>1. Delivers(u, s) /\ todo'[u] = todo[u]
        BY <2>2, <2>3, <3>1 DEF Delivers
      <4> QED
        BY <1>1, <2>2, <4>1 DEF OnceInv
    <3>2. CASE u = t
      <4>1. s = x
        BY <2>1, <2>2, <2>3, <3>2 DEF Delivers
      <4>2. Ended(x) => Range(todo'[t]) = {}
        BY <2>2, RangeEmpty
      <4>3. ~ Ended(x) => got[r][x] = 0
        BY DEF OnceInv
      <4> QED
        BY <2>2, <3>2, <4>1, <4>2, <4>3
    <3> QED
      BY <3>1, <3>2
  <2> QED
    BY <1>1, <2>2, <2>3 DEF OnceInv
<1>4. ASSUME NEW t \in Threads, Deliver(t) PROVE OnceInv'
  <2>1. PICK r \in Receivers, s \in SpanIds :
             /\ Delivers(t, s) /\ r \in Range(todo[t])
             /\ Range(todo'[t]) = Range(todo[t]) \ {r}
             /\ \A u \in Threads : u # t => todo'[u] = todo[u]
             /\ got'[r][s] = got[r][s] + 1
             /\ \A q \in Receivers : \A x \in SpanIds : q # r \/ x # s => got'[q][x] = got[q][x]
             /\ UNCHANGED <<spans, pc, span, due, thrown>>
    BY <1>4, DeliverFacts
  <2>2. \A u \in Threads : \A x \in SpanIds :
           /\ Delivers(u, x)' <=> Delivers(u, x)
           /\ Range(todo'[u]) \subseteq Range(todo[u])
    BY <2>1 DEF Delivers
  <2>3. got[r][s] = 0 /\ Ended(s)
    BY <2>1 DEF OnceInv
  <2>4. got'[r][s] = 1
    BY <2>1, <2>3
  <2>5. \A u \in Threads : Delivers(u, s) => u = t
    BY <2>1 DEF MonitorInv
  <2>6. ASSUME NEW q \in Receivers, NEW x \in SpanIds
        PROVE  /\ got'[q][x] \in {0, 1} /\ (got'[q][x] = 1 => Ended(x)')
               /\ \A u \in Threads : Delivers(u, x)' =>
                     Ended(x)' /\ (q \in Range(todo'[u]) => got'[q][x] = 0)
    <3>1. CASE q = r /\ x = s
      BY <1>1, <2>1, <2>2, <2>3, <2>4, <2>5, <3>1
    <3>2. CASE q # r \/ x # s
      <4>1. got'[q][x] = got[q][x]
        BY <2>1, <3>2
      <4> QED
        BY <1>1, <2>2, <4>1 DEF OnceInv
    <3> QED
      BY <3>1, <3>2
  <2> QED
    BY <2>6 DEF OnceInv
<1>5. ASSUME NEW t \in Threads, DeliverThrows(t) \/ Stopped(t) \/ DetachMark(t) \/ CloseMark(t)
      PROVE  OnceInv'
  <2>1. /\ got' = got /\ pc'[t] # "deliver"
        /\ \A u \in Threads : u # t => pc'[u] = pc[u] /\ span'[u] = span[u] /\ todo'[u] = todo[u]
    BY <1>5 DEF DeliverThrows, Stopped, DetachMark, CloseMark, Ready, Goto, TypeOK
  <2> QED
    BY <1>2, <2>1 DEF Delivers
<1>6. ASSUME NEW t \in Threads, NEW s \in SpanIds, CallStop(t, s) PROVE OnceInv'
  BY <1>2, <1>6 DEF CallStop, Goto, Delivers, TypeOK
<1>7. ASSUME NEW t \in Threads, NEW i \in 1 .. MaxScopes, Close(t, i) \/ Detach(t, i)
      PROVE  OnceInv'
  BY <1>2, <1>7 DEF Close, Detach, Goto, Delivers, TypeOK
<1>8. ASSUME UNCHANGED <<pc, span, todo, got>> PROVE OnceInv'
  BY <1>2, <1>8 DEF Delivers
<1> QED
  BY <1>3, <1>4, <1>5, <1>6, <1>7, <1>8, StepKinds DEF Starts, Misuses, ContinueSpan,
     AddReceiver, RemoveReceiver, vars

\* Every receiver registered since before the span was created is on the list of the
\* thread that ended the span until it has got the span.
LEMMA AllStep ==
    ASSUME TypeOK, RefInv, ListInv, MonitorInv, OnceInv, AllInv, [Next]_vars
    PROVE  AllInv'
<1> USE DEF callVars, historyVars
<1> SUFFICES ASSUME NEW s \in SpanIds, Ended(s)', s \notin thrown', NEW r \in due'[s]
             PROVE  \/ got'[r][s] = 1
                    \/ \E t \in Threads : Delivers(t, s)' /\ r \in Range(todo'[t])
  BY DEF AllInv
<1> DEFINE Goal == \/ got'[r][s] = 1
                   \/ \E t \in Threads : Delivers(t, s)' /\ r \in Range(todo'[t])
<1>1. s \notin thrown
  BY StepKinds DEF Starts, Misuses, ContinueSpan, CallStop, Close, Detach, DetachMark,
     CloseMark, Stop, Deliver, DeliverThrows, Stopped, AddReceiver, RemoveReceiver, vars
<1>2. CASE ~ Ended(s)
  <2>1. PICK t \in Threads : Stop(t) /\ span[t] = s
    BY <1>2, EndedStep
  <2>2. due' = due /\ todo'[t] = receivers /\ Delivers(t, s)'
    BY <1>2, <2>1, StopFacts
  <2>3. r \in Range(receivers)
    BY <2>2 DEF ListInv
  <2> QED
    BY <2>2, <2>3
<1>3. CASE Ended(s)
  <2>1. r \in due[s] /\ r \in Receivers
    <3>1. ASSUME NEW t \in Threads, Starts(t) PROVE r \in due[s]
      <4>1. Len(spans) \in Nat /\ \A x \in SpanIds : x # Len(spans) + 1 => due'[x] = due[x]
        BY <3>1, NewSpanFacts DEF Starts
      <4>2. s # Len(spans) + 1
        BY <1>3, <4>1 DEF Ended, Created
      <4> QED
        BY <4>1, <4>2
    <3>2. ASSUME NEW q \in Receivers, AddReceiver(q) \/ RemoveReceiver(q) PROVE r \in due[s]
      BY <3>2, ReceiverFacts
    <3>3. r \in due[s]
      BY <3>1, <3>2, StepKinds DEF Misuses, ContinueSpan, CallStop, Close, Detach, DetachMark,
         CloseMark, Stop, Deliver, DeliverThrows, Stopped, vars
    <3> QED
      BY <3>3 DEF TypeOK
  <2>2. \/ got[r][s] = 1
        \/ \E t \in Threads : Delivers(t, s) /\ r \in Range(todo[t])
    BY <1>1, <1>3, <2>1 DEF AllInv
  <2>3. ASSUME got' = got,
               \A t \in Threads : Delivers(t, s) => Delivers(t, s)' /\ todo'[t] = todo[t]
        PROVE  Goal
    BY <2>2, <2>3
  <2>4. ASSUME NEW t \in Threads, Stop(t) PROVE Goal
    <3>1. /\ got' = got /\ span' = span /\ pc[t] = "stop"
          /\ \A u \in Threads : u # t => pc'[u] = pc[u] /\ todo'[u] = todo[u]
      BY <2>4, StopFacts
    <3> QED
      BY <2>3, <3>1 DEF Delivers
  <2>5. ASSUME NEW t \in Threads, Deliver(t) PROVE Goal
    <3>1. PICK q \in Receivers, x \in SpanIds :
             /\ Delivers(t, x) /\ q \in Range(todo[t])
             /\ Range(todo'[t]) = Range(todo[t]) \ {q}
             /\ \A u \in Threads : u # t => todo'[u] = todo[u]
             /\ got'[q][x] = got[q][x] + 1
             /\ \A p \in Receivers : \A y \in SpanIds : p # q \/ y # x => got'[p][y] = got[p][y]
             /\ UNCHANGED <<spans, pc, span, due, thrown>>
      BY <2>5, DeliverFacts
    <3>2. got[q][x] = 0
      BY <3>1 DEF OnceInv
    <3>3. got'[q][x] = 1
      BY <3>1, <3>2
    <3>4. CASE r = q /\ s = x
      BY <3>3, <3>4
    <3>5. CASE r # q \/ s # x
      <4>1. got'[r][s] = got[r][s]
        BY <2>1, <3>1, <3>5
      <4>2. \A u \in Threads : Delivers(u, s)' <=> Delivers(u, s)
        BY <3>1 DEF Delivers
      <4>3. s # x => ~ Delivers(t, s)
        BY <3>1 DEF Delivers
      <4> QED
        BY <2>2, <3>1, <3>5, <4>1, <4>2, <4>3
    <3> QED
      BY <3>4, <3>5
  <2>6. ASSUME NEW t \in Threads, DeliverThrows(t) PROVE Goal
    <3>1. /\ got' = got /\ span[t] # s
          /\ \A u \in Threads : u # t => pc'[u] = pc[u] /\ span'[u] = span[u] /\ todo'[u] = todo[u]
      BY <2>6 DEF DeliverThrows, Ready, TypeOK
    <3> QED
      BY <2>3, <3>1 DEF Delivers
  <2>7. ASSUME NEW t \in Threads, Stopped(t) PROVE Goal
    <3>1. /\ got' = got /\ todo' = todo /\ todo[t] = <<>>
          /\ \A u \in Threads : u # t => pc'[u] = pc[u] /\ span'[u] = span[u]
      BY <2>7 DEF Stopped, Ready, TypeOK
    <3>2. Range(todo[t]) = {}
      BY <3>1, RangeEmpty
    <3> QED
      BY <2>2, <3>1, <3>2 DEF Delivers
  <2>8. ASSUME NEW t \in Threads, DetachMark(t) \/ CloseMark(t) PROVE Goal
    <3>1. /\ got' = got /\ todo' = todo /\ pc[t] # "deliver"
          /\ \A u \in Threads : u # t => pc'[u] = pc[u] /\ span'[u] = span[u]
      BY <2>8 DEF DetachMark, CloseMark, Ready, Goto, TypeOK
    <3> QED
      BY <2>3, <3>1 DEF Delivers
  <2>9. ASSUME NEW t \in Threads, NEW x \in SpanIds, CallStop(t, x) PROVE Goal
    BY <2>3, <2>9 DEF CallStop, Goto, Delivers, TypeOK
  <2>10. ASSUME NEW t \in Threads, NEW i \in 1 .. MaxScopes, Close(t, i) \/ Detach(t, i)
         PROVE  Goal
    BY <2>3, <2>10 DEF Close, Detach, Goto, Delivers, TypeOK
  <2>11. ASSUME UNCHANGED <<pc, span, todo, got>> PROVE Goal
    BY <2>3, <2>11 DEF Delivers
  <2> QED
    BY <2>4, <2>5, <2>6, <2>7, <2>8, <2>9, <2>10, <2>11, StepKinds DEF Starts, Misuses,
       ContinueSpan, AddReceiver, RemoveReceiver, vars
<1> QED
  BY <1>2, <1>3

\* A span is delivered exactly once to every receiver to which it is due, and at most
\* once to any, however many threads stop it or close its scopes at the same time.
THEOREM DeliveredExactlyOnce == Spec => []DeliveredExactly
<1> DEFINE Inv == MonitorInv /\ OnceInv /\ AllInv
<1>1. Init => Inv
  <2> SUFFICES ASSUME Init PROVE Inv
    OBVIOUS
  <2>1. /\ \A t \in Threads : pc[t] = "ready"
        /\ \A s \in SpanIds : monitor[s] = Nil
        /\ \A r \in Receivers : \A s \in SpanIds : got[r][s] = 0
        /\ spans = <<>> /\ Nil \notin Threads
    BY TraceScopeAssumption DEF Init
  <2>2. \A s \in SpanIds : ~ Ended(s)
    BY <2>1 DEF Ended, Created
  <2> QED
    BY <2>1, <2>2 DEF MonitorInv, OnceInv, AllInv, Delivers
<1>2. TypeOK /\ RefInv /\ ListInv /\ Inv /\ [Next]_vars => Inv'
  BY MonitorStep, OnceStep, AllStep
<1>3. TypeOK /\ Inv => DeliveredExactly
  <2> SUFFICES ASSUME TypeOK, Inv PROVE DeliveredExactly
    OBVIOUS
  <2>1. Created \subseteq SpanIds
    BY TraceScopeAssumption DEF TypeOK, Created, SpanIds
  <2>2. DeliveredOnce
    <3> SUFFICES ASSUME NEW r \in Receivers, NEW s \in Created
                 PROVE  got[r][s] <= IF spans[s].ended THEN 1 ELSE 0
      BY DEF DeliveredOnce
    <3>1. got[r][s] \in {0, 1} /\ (got[r][s] = 1 => spans[s].ended)
      BY <2>1 DEF OnceInv, Ended
    <3> QED
      BY <3>1
  <2>3. DeliveredToAll
    <3> SUFFICES ASSUME NEW s \in Created, spans[s].ended, monitor[s] = Nil, s \notin thrown,
                        NEW r \in due[s]
                 PROVE  got[r][s] = 1
      BY DEF DeliveredToAll
    <3>1. \A t \in Threads : ~ Delivers(t, s)
      BY <2>1, TraceScopeAssumption DEF MonitorInv
    <3> QED
      BY <2>1, <3>1 DEF AllInv, Ended
  <2> QED
    BY <2>2, <2>3 DEF DeliveredExactly
<1> HIDE DEF Inv
<1> QED
  BY <1>1, <1>2, <1>3, TypeCorrect, PTL DEF Spec

-----------------------------------------------------------------------------
\* The stack of scopes.

\* A stack depends on the spans of its scopes only.
LEMMA StackSame ==
    ASSUME NEW S, NEW v, NEW f, NEW g, IsStack(S, v, f),
           \A i \in S : g[i].span = f[i].span /\ g[i].saved = f[i].saved
    PROVE  IsStack(S, v, g)
<1>1. IsTop(S, v, g)
  BY DEF IsStack, IsTop
<1>2. ASSUME NEW i \in S PROVE IsTop({j \in S : j < i}, g[i].saved, g)
  <2>1. IsTop({j \in S : j < i}, f[i].saved, f)
    BY DEF IsStack
  <2> QED
    BY <2>1 DEF IsTop
<1> QED
  BY <1>1, <1>2 DEF IsStack

\* A new scope remembers the current span, and its own becomes current.
LEMMA StackPush ==
    ASSUME NEW S \in SUBSET Int, NEW v, NEW f, NEW g, IsStack(S, v, f),
           \A i \in S : g[i].span = f[i].span /\ g[i].saved = f[i].saved,
           NEW n \in Int, \A i \in S : i < n, g[n].saved = v
    PROVE  IsStack(S \cup {n}, g[n].span, g)
<1>1. IsTop(S \cup {n}, g[n].span, g)
  <2>1. \A j \in S \cup {n} : j <= n
    OBVIOUS
  <2> QED
    BY <2>1 DEF IsTop
<1>2. IsStack(S, v, g)
  BY StackSame
<1>3. ASSUME NEW i \in S \cup {n}
      PROVE  IsTop({j \in S \cup {n} : j < i}, g[i].saved, g)
  <2>1. CASE i = n
    <3>1. {j \in S \cup {n} : j < n} = S
      <4>1. ~ (n < n) /\ \A j \in S : j < n
        OBVIOUS
      <4> QED
        BY <4>1, Zenon
    <3> QED
      BY <1>2, <2>1, <3>1 DEF IsStack
  <2>2. CASE i \in S
    <3>1. {j \in S \cup {n} : j < i} = {j \in S : j < i}
      <4>1. ~ (n < i)
        <5>1. i \in Int /\ n \in Int /\ i < n
          BY <2>2
        <5> QED
          BY ONLY <5>1
      <4> QED
        BY <4>1, Zenon
    <3> QED
      BY <1>2, <2>2, <3>1 DEF IsStack
  <2> QED
    BY <2>1, <2>2
<1> QED
  BY <1>1, <1>3 DEF IsStack

\* The scope of the current span is the top, and what it remembers is the span of the
\* scope below.
LEMMA StackPop ==
    ASSUME NEW S \in SUBSET Int, NEW f, NEW i \in S, IsStack(S, f[i].span, f),
           \A j, k \in S : f[j].span = f[k].span => j = k
    PROVE  IsStack(S \ {i}, f[i].saved, f)
<1>1. \A j \in S : j <= i
  BY DEF IsStack, IsTop
<1>2. {j \in S : j < i} = S \ {i}
  <2>1. \A j \in S : j < i <=> j # i
    BY <1>1
  <2> QED
    BY <2>1, Zenon
<1>3. IsTop(S \ {i}, f[i].saved, f)
  BY <1>2 DEF IsStack
<1>4. ASSUME NEW k \in S \ {i} PROVE IsTop({j \in S \ {i} : j < k}, f[k].saved, f)
  <2>1. {j \in S \ {i} : j < k} = {j \in S : j < k}
    BY <1>1
  <2> QED
    BY <2>1 DEF IsStack
<1> QED
  BY <1>3, <1>4 DEF IsStack

\* close and detach mark the scope of the call.
LEMMA MarkFacts ==
    ASSUME TypeOK, RefInv, NEW t \in Threads, DetachMark(t) \/ CloseMark(t)
    PROVE  /\ scope[t] # 0 /\ scope[t] \in ScopeIds /\ ScopeIds' = ScopeIds
           /\ scopes'[scope[t]].detached = TRUE
           /\ \A j \in ScopeIds : j # scope[t] => scopes'[j] = scopes[j]
           /\ \A u \in Threads : u # t => pc'[u] = pc[u] /\ scope'[u] = scope[u]
                                          /\ current'[u] = current[u]
<1> USE DEF callVars, historyVars
<1>1. scopes \in Seq(ScopeRec)
  BY DEF TypeOK, ScopeRec
<1>2. PICK i \in 1 .. Len(scopes) : i = scope[t] /\ scope[t] # 0 /\ i \in ScopeIds
  BY DEF DetachMark, CloseMark, RefInv, ScopeIds
<1>3. scopes' = [scopes EXCEPT ![i].detached = TRUE]
  BY <1>2 DEF DetachMark, CloseMark
<1>4. /\ Len(scopes') = Len(scopes) /\ scopes'[i].detached = TRUE
      /\ \A j \in 1 .. Len(scopes) : j # i => scopes'[j] = scopes[j]
  BY <1>1, <1>3, MarkScope
<1>5. \A u \in Threads : u # t => pc'[u] = pc[u] /\ scope'[u] = scope[u]
                                  /\ current'[u] = current[u]
  BY DEF DetachMark, CloseMark, Ready, Goto, TypeOK
<1> QED
  BY <1>2, <1>4, <1>5 DEF ScopeIds

\* The histories only grow.
LEMMA HistoryStep ==
    ASSUME [Next]_vars PROVE erred \subseteq erred' /\ shared \subseteq shared'
BY StepKinds DEF Starts, Misuses, ContinueSpan, CallStop, Close, Detach, DetachMark,
   CloseMark, Stop, Deliver, DeliverThrows, Stopped, AddReceiver, RemoveReceiver, vars,
   Raise, Use, callVars, historyVars

\* Who uses a scope of another thread is noted, and so is the other thread.
LEMMA OwnStep ==
    ASSUME TypeOK, RefInv, OwnInv, [Next]_vars
    PROVE  OwnInv'
<1> USE DEF callVars, historyVars
<1>1. Grown /\ erred \subseteq erred' /\ shared \subseteq shared'
  BY GrownStep, HistoryStep
<1> SUFFICES ASSUME NEW t \in Threads
             PROVE  /\ scope'[t] # 0 => \/ scopes'[scope'[t]].thread = t
                                        \/ {t, scopes'[scope'[t]].thread} \subseteq shared'
                    /\ t \notin shared' /\ pc'[t] \in {"close", "detach"}
                          => ~ scopes'[scope'[t]].detached
                    /\ Closing(t)' => /\ current'[t] = scopes'[scope'[t]].span
                                      /\ scopes'[scope'[t]].detached
  BY DEF OwnInv
<1> DEFINE Goal == /\ scope'[t] # 0 => \/ scopes'[scope'[t]].thread = t
                                       \/ {t, scopes'[scope'[t]].thread} \subseteq shared'
                   /\ t \notin shared' /\ pc'[t] \in {"close", "detach"}
                          => ~ scopes'[scope'[t]].detached
                   /\ Closing(t)' => /\ current'[t] = scopes'[scope'[t]].span
                                     /\ scopes'[scope'[t]].detached
<1>2. /\ scope[t] # 0 => /\ scope[t] \in ScopeIds
                         /\ \/ scopes[scope[t]].thread = t
                            \/ {t, scopes[scope[t]].thread} \subseteq shared
                         /\ scopes'[scope[t]].thread = scopes[scope[t]].thread
                         /\ scopes'[scope[t]].span = scopes[scope[t]].span
                         /\ scopes[scope[t]].detached => scopes'[scope[t]].detached
      /\ t \notin shared /\ pc[t] \in {"close", "detach"} => ~ scopes[scope[t]].detached
      /\ Closing(t) => current[t] = scopes[scope[t]].span /\ scopes[scope[t]].detached
      /\ pc[t] \in {"close", "detach"} => scope[t] # 0
  BY <1>1 DEF OwnInv, RefInv, Grown
<1>3. ASSUME pc'[t] = pc[t], scope'[t] = scope[t], current'[t] = current[t],
             t \notin shared' /\ pc[t] \in {"close", "detach"}
                => scopes'[scope[t]].detached = scopes[scope[t]].detached
      PROVE  Goal
  BY <1>1, <1>2, <1>3 DEF Closing
<1>4. ASSUME scope'[t] = 0, pc'[t] \notin {"close", "detach"} PROVE Goal
  BY <1>4 DEF Closing
<1>5. ASSUME NEW u \in Threads, NEW s \in SpanIds, NewScope(u, s), pc[u] = "ready",
             UNCHANGED callVars
      PROVE  Goal
  <2>1. /\ \A i \in ScopeIds : scopes'[i] = scopes[i]
        /\ \A w \in Threads \ {u} : current'[w] = current[w]
    BY <1>5, NewScopeFacts
  <2>2. CASE t = u
    <3>1. pc'[t] = "ready" /\ scope'[t] = scope[t]
      BY <1>5, <2>2
    <3> QED
      BY <1>1, <1>2, <3>1 DEF Closing
  <2>3. CASE t # u
    BY <1>2, <1>3, <1>5, <2>1, <2>3
  <2> QED
    BY <2>2, <2>3
<1>6. ASSUME NEW u \in Threads, Starts(u) PROVE Goal
  <2>1. Len(spans) + 1 \in SpanIds /\ NewScope(u, Len(spans) + 1)
    BY <1>6, NewSpanFacts DEF Starts
  <2> QED
    BY <1>5, <1>6, <2>1 DEF Starts
<1>7. ASSUME NEW u \in Threads, NEW s \in SpanIds, ContinueSpan(u, s) PROVE Goal
  BY <1>5, <1>7 DEF ContinueSpan
<1>8. ASSUME NEW u \in Threads, NEW i \in 1 .. MaxScopes, Close(u, i) \/ Detach(u, i)
      PROVE  Goal
  <2>1. UNCHANGED <<scopes, current>> /\ i \in ScopeIds
    BY <1>8 DEF Close, Detach
  <2>2. CASE u # t
    <3>1. pc'[t] = pc[t] /\ scope'[t] = scope[t]
      BY <1>8, <2>2 DEF Close, Detach, Goto, TypeOK
    <3> QED
      BY <1>3, <2>1, <3>1
  <2>3. CASE u = t
    <3>1. \/ pc'[t] = pc[t] /\ scope'[t] = scope[t]
          \/ /\ pc'[t] \in {"close", "detach"} /\ scope'[t] = i /\ ~ scopes[i].detached
             /\ scopes[i].thread = t \/ {t, scopes[i].thread} \subseteq shared'
      BY <1>8, <2>3 DEF Close, Detach, Goto, Use, TypeOK
    <3> QED
      BY <1>3, <2>1, <3>1 DEF Closing
  <2> QED
    BY <2>2, <2>3
<1>9. ASSUME NEW u \in Threads, NEW s \in SpanIds, CallStop(u, s) PROVE Goal
  <2>1. CASE u = t
    BY <1>4, <1>9, <2>1 DEF CallStop, Goto, TypeOK
  <2>2. CASE u # t
    BY <1>3, <1>9, <2>2 DEF CallStop, Goto, TypeOK
  <2> QED
    BY <2>1, <2>2
<1>10. ASSUME NEW u \in Threads, DetachMark(u) \/ CloseMark(u) PROVE Goal
  <2>1. /\ scope[u] # 0 /\ scope[u] \in ScopeIds /\ scopes'[scope[u]].detached = TRUE
        /\ \A j \in ScopeIds : j # scope[u] => scopes'[j] = scopes[j]
        /\ \A w \in Threads : w # u => pc'[w] = pc[w] /\ scope'[w] = scope[w]
                                       /\ current'[w] = current[w]
    BY <1>10, MarkFacts
  <2>2. CASE u # t
    <3>1. ASSUME t \notin shared', pc[t] \in {"close", "detach"} PROVE scope[t] # scope[u]
      <4>1. t \notin shared /\ scopes[scope[t]].thread = t
        BY <1>1, <1>2, <3>1
      <4>2. scopes[scope[u]].thread = u \/ {u, scopes[scope[u]].thread} \subseteq shared
        BY <2>1 DEF OwnInv
      <4> QED
        BY <2>2, <4>1, <4>2
    <3>2. /\ pc'[t] = pc[t] /\ scope'[t] = scope[t] /\ current'[t] = current[t]
      BY <2>1, <2>2
    <3>3. t \notin shared' /\ pc[t] \in {"close", "detach"}
            => scopes'[scope[t]].detached = scopes[scope[t]].detached
      BY <1>2, <2>1, <3>1
    <3> QED
      BY <1>3, <3>2, <3>3
  <2>3. CASE u = t
    <3>1. \/ scope'[t] = 0 /\ pc'[t] = "ready"
          \/ /\ pc'[t] = "stop" /\ scope'[t] = scope[t] /\ current' = current
             /\ current[t] = scopes[scope[t]].span
      BY <1>10, <2>3 DEF DetachMark, CloseMark, Ready, Goto, TypeOK
    <3> QED
      BY <1>1, <1>2, <1>4, <2>1, <2>3, <3>1
  <2> QED
    BY <2>2, <2>3
<1>11. ASSUME NEW u \in Threads, Stop(u) \/ Deliver(u) \/ DeliverThrows(u) \/ Stopped(u)
       PROVE  Goal
  <2>1. scopes' = scopes
    BY <1>11 DEF Stop, Deliver, DeliverThrows, Stopped
  <2>2. CASE u # t
    <3>1. pc'[t] = pc[t] /\ scope'[t] = scope[t] /\ current'[t] = current[t]
      BY <1>11, <2>2 DEF Stop, Deliver, DeliverThrows, Stopped, Ready, Goto, TypeOK
    <3> QED
      BY <1>3, <2>1, <3>1
  <2>3. CASE u = t
    <3>1. \/ scope'[t] = 0 /\ pc'[t] = "ready"
          \/ /\ pc[t] \in {"stop", "deliver"} /\ pc'[t] = "deliver" /\ scope'[t] = scope[t]
             /\ current' = current
      BY <1>11, <2>3 DEF Stop, Deliver, DeliverThrows, Stopped, Ready, Goto, TypeOK
    <3> QED
      BY <1>1, <1>2, <1>4, <2>1, <3>1 DEF Closing
  <2> QED
    BY <2>2, <2>3
<1>12. ASSUME UNCHANGED <<scopes, current, pc, scope>> PROVE Goal
  BY <1>3, <1>12
<1> QED
  BY <1>6, <1>7, <1>8, <1>9, <1>10, <1>11, <1>12, StepKinds DEF Misuses, AddReceiver,
     RemoveReceiver, vars

\* The checks of close and detach let only the top of the stack go.
LEMMA StackStep ==
    ASSUME TypeOK, RefInv, OwnInv, StackInv, [Next]_vars
    PROVE  StackInv'
<1> USE DEF callVars, historyVars
<1>1. Grown /\ erred \subseteq erred' /\ shared \subseteq shared'
  BY GrownStep, HistoryStep
<1> SUFFICES ASSUME NEW t \in Threads, t \notin erred', t \notin shared', DistinctSpans(t)'
             PROVE  IsStack(Open(t)', current'[t], scopes')
  BY DEF StackInv
<1> DEFINE Goal == IsStack(Open(t)', current'[t], scopes')
<1>2. t \notin erred /\ t \notin shared
  BY <1>1
<1>3. Own(t) \subseteq Own(t)'
  BY <1>1 DEF Own, Grown
<1>4. DistinctSpans(t)
  <2> SUFFICES ASSUME NEW i \in Own(t), NEW j \in Own(t), scopes[i].span = scopes[j].span
               PROVE  i = j
    BY DEF DistinctSpans
  <2>1. scopes'[i].span = scopes'[j].span
    BY <1>1 DEF Own, Grown
  <2> QED
    BY <1>3, <2>1 DEF DistinctSpans
<1>5. IsStack(Open(t), current[t], scopes)
  BY <1>2, <1>4 DEF StackInv
<1>6. /\ Open(t) \subseteq ScopeIds /\ ScopeIds \subseteq Int /\ Open(t) \subseteq Own(t)
      /\ \A i \in ScopeIds : scopes'[i].span = scopes[i].span /\ scopes'[i].saved = scopes[i].saved
  BY <1>1 DEF Open, Own, ScopeIds, Grown
<1>7. ASSUME Open(t)' = Open(t), current'[t] = current[t] PROVE Goal
  BY <1>5, <1>6, <1>7, StackSame
<1>8. ASSUME scope[t] \in Open(t), current[t] = scopes[scope[t]].span,
             Open(t)' = Open(t) \ {scope[t]}, current'[t] = scopes[scope[t]].saved
      PROVE  Goal
  <2>1. Open(t) \in SUBSET Int
    BY <1>6
  <2>2. \A j, k \in Open(t) : scopes[j].span = scopes[k].span => j = k
    BY <1>4, <1>6 DEF DistinctSpans
  <2>3. IsStack(Open(t) \ {scope[t]}, scopes[scope[t]].saved, scopes)
    BY <1>5, <1>8, <2>1, <2>2, StackPop
  <2>4. \A i \in Open(t) \ {scope[t]} :
           scopes'[i].span = scopes[i].span /\ scopes'[i].saved = scopes[i].saved
    BY <1>6
  <2>5. IsStack(Open(t) \ {scope[t]}, scopes[scope[t]].saved, scopes')
    BY <2>3, <2>4, StackSame
  <2> QED
    BY <1>8, <2>5
<1>9. ASSUME NEW u \in Threads, NEW s \in SpanIds, NewScope(u, s), pc[u] = "ready",
             UNCHANGED callVars
      PROVE  Goal
  <2>1. PICK n \in Int : n = Len(scopes) + 1
    BY DEF TypeOK
  <2>2. /\ ScopeIds' = ScopeIds \cup {n} /\ n \notin ScopeIds /\ \A i \in ScopeIds : i < n
        /\ \A i \in ScopeIds : scopes'[i] = scopes[i]
        /\ scopes'[n] = [span |-> s, saved |-> current[u], thread |-> u, detached |-> FALSE]
        /\ current'[u] = s
        /\ \A w \in Threads \ {u} : current'[w] = current[w]
    <3>1. Len(scopes') = Len(scopes) + 1 /\ Len(scopes) \in Nat
      BY <1>9, NewScopeFacts
    <3>2. ScopeIds' = ScopeIds \cup {n} /\ n \notin ScopeIds /\ \A i \in ScopeIds : i < n
      BY <2>1, <3>1 DEF ScopeIds
    <3> QED
      BY <1>9, <2>1, <3>2, NewScopeFacts
  <2>3. /\ scopes'[n].span = s /\ scopes'[n].saved = current[u] /\ scopes'[n].thread = u
        /\ ~ scopes'[n].detached
    BY <2>2
  <2>4. CASE u # t
    <3>1. Own(t)' = Own(t)
      BY <2>2, <2>3, <2>4 DEF Own
    <3>2. Open(t)' = Open(t)
      BY <1>6, <1>9, <2>2, <3>1 DEF Open, Own, Closing
    <3> QED
      BY <1>7, <2>2, <2>4, <3>2
  <2>5. CASE u = t
    <3>1. Own(t)' = Own(t) \cup {n}
      BY <2>2, <2>3, <2>5 DEF Own
    <3>2. Open(t)' = Open(t) \cup {n}
      BY <1>6, <1>9, <2>2, <2>3, <2>5, <3>1 DEF Open, Own, Closing
    <3>3. Open(t) \in SUBSET Int /\ \A i \in Open(t) : i < n
      BY <1>6, <2>2
    <3>4. IsStack(Open(t) \cup {n}, scopes'[n].span, scopes')
      BY <1>5, <1>6, <2>3, <2>5, <3>3, StackPush
    <3> QED
      BY <2>2, <2>3, <2>5, <3>2, <3>4
  <2> QED
    BY <2>4, <2>5
<1>10. ASSUME NEW u \in Threads, Starts(u) PROVE Goal
  <2>1. Len(spans) + 1 \in SpanIds /\ NewScope(u, Len(spans) + 1)
    BY <1>10, NewSpanFacts DEF Starts
  <2> QED
    BY <1>9, <1>10, <2>1 DEF Starts
<1>11. ASSUME NEW u \in Threads, NEW s \in SpanIds, ContinueSpan(u, s) PROVE Goal
  BY <1>9, <1>11 DEF ContinueSpan
<1>12. ASSUME scopes' = scopes, current'[t] = current[t], Closing(t)' = Closing(t),
              Closing(t) => scope'[t] = scope[t]
       PROVE  Goal
  <2>1. Open(t)' = Open(t)
    BY <1>12 DEF Open, Own, ScopeIds
  <2> QED
    BY <1>7, <1>12, <2>1
<1>13. ASSUME NEW u \in Threads, NEW i \in 1 .. MaxScopes, Close(u, i) \/ Detach(u, i)
       PROVE  Goal
  <2>1. /\ UNCHANGED <<scopes, current>>
        /\ \/ pc'[t] = pc[t] /\ scope'[t] = scope[t]
           \/ pc[t] = "ready" /\ pc'[t] \in {"close", "detach"}
    BY <1>13 DEF Close, Detach, Goto, TypeOK
  <2> QED
    BY <1>12, <2>1 DEF Closing
<1>14. ASSUME NEW u \in Threads, NEW s \in SpanIds, CallStop(u, s) PROVE Goal
  <2>1. /\ UNCHANGED <<scopes, current>>
        /\ \/ pc'[t] = pc[t] /\ scope'[t] = scope[t]
           \/ pc[t] = "ready" /\ scope'[t] = 0
    BY <1>14 DEF CallStop, Goto, TypeOK
  <2> QED
    BY <1>12, <2>1 DEF Closing
<1>15. ASSUME NEW u \in Threads, Stop(u) \/ Deliver(u) PROVE Goal
  <2>1. /\ UNCHANGED <<scopes, current, scope>>
        /\ pc'[t] = pc[t] \/ (pc[t] = "stop" /\ pc'[t] = "deliver")
    BY <1>15 DEF Stop, Deliver, Goto, TypeOK
  <2> QED
    BY <1>12, <2>1 DEF Closing
<1>16. ASSUME NEW u \in Threads, u # t, DeliverThrows(u) \/ Stopped(u) PROVE Goal
  <2>1. scopes' = scopes /\ pc'[t] = pc[t] /\ scope'[t] = scope[t] /\ current'[t] = current[t]
    BY <1>16 DEF DeliverThrows, Stopped, Ready, TypeOK
  <2> QED
    BY <1>12, <2>1 DEF Closing
<1>17. ~ DeliverThrows(t)
  BY DEF DeliverThrows, Raise
<1>18. ASSUME Stopped(t) PROVE Goal
  <2>1. /\ scopes' = scopes /\ pc[t] = "deliver" /\ pc'[t] = "ready"
        /\ scope[t] = 0 => current'[t] = current[t]
        /\ scope[t] # 0 => current'[t] = scopes[scope[t]].saved
    BY <1>18 DEF Stopped, Ready, TypeOK
  <2>2. CASE scope[t] = 0
    BY <1>12, <2>1, <2>2 DEF Closing
  <2>3. CASE scope[t] # 0
    <3>1. scope[t] \in Own(t) /\ current[t] = scopes[scope[t]].span
      BY <1>2, <2>1, <2>3 DEF OwnInv, RefInv, Own, Closing
    <3>2. scope[t] \in Open(t)
      BY <2>1, <2>3, <3>1 DEF Open, Closing
    <3>3. scopes[scope[t]].detached
      BY <2>1, <2>3 DEF OwnInv, Closing
    <3>4. Open(t)' = Open(t) \ {scope[t]}
      BY <2>1, <3>3 DEF Open, Own, ScopeIds, Closing
    <3> QED
      BY <1>8, <2>1, <2>3, <3>1, <3>2, <3>4
  <2> QED
    BY <2>2, <2>3
<1>19. ASSUME NEW u \in Threads, u # t, DetachMark(u) \/ CloseMark(u) PROVE Goal
  <2>1. /\ scope[u] # 0 /\ scope[u] \in ScopeIds /\ ScopeIds' = ScopeIds
        /\ \A j \in ScopeIds : j # scope[u] => scopes'[j] = scopes[j]
        /\ pc'[t] = pc[t] /\ scope'[t] = scope[t] /\ current'[t] = current[t]
    BY <1>19, MarkFacts
  <2>2. scopes[scope[u]].thread # t
    BY <1>2, <1>19, <2>1 DEF OwnInv
  <2>3. Own(t)' = Own(t) /\ \A j \in Own(t) : scopes'[j] = scopes[j]
    BY <1>1, <2>1, <2>2 DEF Own, Grown
  <2>4. Open(t)' = Open(t)
    BY <2>1, <2>3 DEF Open, Closing
  <2> QED
    BY <1>7, <2>1, <2>4
<1>20. ASSUME DetachMark(t) \/ CloseMark(t) PROVE Goal
  <2>1. /\ scope[t] # 0 /\ scope[t] \in ScopeIds /\ ScopeIds' = ScopeIds
        /\ scopes'[scope[t]].detached = TRUE
        /\ \A j \in ScopeIds : j # scope[t] => scopes'[j] = scopes[j]
    BY <1>20, MarkFacts
  <2>2. /\ pc[t] \in {"close", "detach"} /\ current[t] = scopes[scope[t]].span
        /\ DetachMark(t) => pc'[t] = "ready" /\ current'[t] = scopes[scope[t]].saved
        /\ CloseMark(t) => pc'[t] = "stop" /\ scope'[t] = scope[t] /\ current'[t] = current[t]
    BY <1>20 DEF DetachMark, CloseMark, Raise, Ready, Goto, TypeOK
  <2>3. scope[t] \in Own(t) /\ ~ scopes[scope[t]].detached
    BY <1>2, <2>1, <2>2 DEF OwnInv, Own
  <2>4. Own(t)' = Own(t)
    BY <1>1, <2>1 DEF Own, Grown
  <2>5. scope[t] \in Open(t) /\ ~ Closing(t)
    BY <2>2, <2>3 DEF Open, Closing
  <2>6. CASE DetachMark(t)
    <3>1. Open(t)' = Open(t) \ {scope[t]}
      BY <1>6, <2>1, <2>2, <2>4, <2>5, <2>6 DEF Open, Own, Closing
    <3> QED
      BY <1>8, <2>2, <2>5, <2>6, <3>1
  <2>7. CASE CloseMark(t)
    <3>1. Open(t)' = Open(t)
      BY <1>6, <2>1, <2>2, <2>3, <2>4, <2>5, <2>7 DEF Open, Own, Closing
    <3> QED
      BY <1>7, <2>2, <2>7, <3>1
  <2> QED
    BY <1>20, <2>6, <2>7
<1>21. ASSUME UNCHANGED <<scopes, current, pc, scope>> PROVE Goal
  BY <1>12, <1>21 DEF Closing
<1> QED
  BY <1>10, <1>11, <1>13, <1>14, <1>15, <1>16, <1>17, <1>18, <1>19, <1>20, <1>21, StepKinds
     DEF Misuses, AddReceiver, RemoveReceiver, vars

\* In a thread that saw no exception, kept its scopes to itself and had no two of them
\* for one span, the current span is that of the youngest open scope.
THEOREM ScopesAreStacks == Spec => []StackDiscipline
<1> DEFINE Inv == OwnInv /\ StackInv
<1>1. Init => Inv
  <2> SUFFICES ASSUME Init PROVE Inv
    OBVIOUS
  <2>1. /\ \A t \in Threads : scope[t] = 0 /\ pc[t] = "ready" /\ current[t] = Nil
        /\ ScopeIds = {}
    <3>1. \A i \in 1 .. 0 : FALSE
      OBVIOUS
    <3> QED
      BY <3>1 DEF Init, ScopeIds
  <2>2. \A t \in Threads : Open(t) = {}
    BY <2>1 DEF Open, Own
  <2> QED
    BY <2>1, <2>2 DEF OwnInv, StackInv, IsStack, IsTop, Closing
<1>2. TypeOK /\ RefInv /\ Inv /\ [Next]_vars => Inv'
  BY OwnStep, StackStep
<1>3. Inv => StackDiscipline
  BY DEF StackInv, IsStack, IsTop, StackDiscipline
<1> HIDE DEF Inv
<1> QED
  BY <1>1, <1>2, <1>3, TypeCorrect, PTL DEF Spec

=============================================================================
