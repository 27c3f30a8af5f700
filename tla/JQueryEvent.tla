----------------------------- MODULE JQueryEvent -----------------------------
(***************************************************************************)
(* jQuery.event (jquery-2.1.4.js): handlers bound to elements, directly or *)
(* delegated, with namespaces; events that bubble up the document; and     *)
(* handlers that bind, unbind, remove elements and trigger while an event  *)
(* is on its way.  Elements 1..Root are a path of the document, 1 the      *)
(* innermost; 0 is a copy that clone(true) makes.                          *)
(***************************************************************************)
EXTENDS Integers, Sequences, FiniteSets

CONSTANTS Root,        \* the document
          Guids,       \* handler functions
          Namespaces,  \* of the handlers; "" is none
          MaxOps,      \* API calls in one behaviour
          MaxDepth     \* events triggered from handlers of events

VARIABLES cached,      \* elements with an entry in data_priv
          handlers,    \* per element and type: the list of handleObjs
          delegates,   \* per element and type: handlers.delegateCount
          native,      \* per element: the types its handle listens to
          linked,      \* elements that have a parent
          events,      \* the events being dispatched, innermost first
          ops

vars == <<cached, handlers, delegates, native, linked, events, ops>>

Elements == 0..Root
OrigTypes == {"click", "mouseover", "mouseenter"}

(* bindType and delegateType of the special events. *)
TypeOf(orig) == IF orig = "mouseenter" THEN "mouseover" ELSE orig
Types == {TypeOf(o) : o \in OrigTypes}

None == -1   \* no selector

Init == /\ cached = {} /\ linked = 1..(Root - 1) /\ events = <<>> /\ ops = 0
        /\ handlers = [e \in Elements |-> [t \in Types |-> <<>>]]
        /\ delegates = [e \in Elements |-> [t \in Types |-> 0]]
        /\ native = [e \in Elements |-> {}]

HandleObj(orig, ns, g, sel, one) ==
  [orig |-> orig, ns |-> ns, guid |-> g, sel |-> sel, one |-> one]

(* The outermost element that is above e now, and all that is below it. *)
Outermost(e) == IF e = 0 THEN 0 ELSE CHOOSE k \in e..Root : k \notin linked /\ e..(k-1) \subseteq linked
Below(e) == {x \in 1..e : x..(e-1) \subseteq linked}

(* add: the first handler of a type installs the listener; delegated       *)
(* handlers go in front of the direct ones.                                *)
Insert(list, count, h) ==
  IF h.sel = None THEN Append(list, h)
  ELSE SubSeq(list, 1, count) \o <<h>> \o SubSeq(list, count + 1, Len(list))

add(e, h) ==
  LET t == TypeOf(h.orig) IN
  /\ cached' = cached \cup {e}
  /\ native' = [native EXCEPT ![e] = @ \cup {t}]
  /\ handlers' = [handlers EXCEPT ![e][t] = Insert(@, delegates[e][t], h)]
  /\ delegates' = [delegates EXCEPT ![e][t] = IF h.sel = None THEN @ ELSE @ + 1]

(* Mutant: the count of delegated handlers is not kept. *)
remove_NotCounted(e, orig, ns, g, sel) ==
  LET ts == IF orig = "" THEN Types ELSE {TypeOf(orig)}
      hit(h) == /\ orig \in {"", h.orig} /\ g \in {None, h.guid}
                /\ ns \in {"", h.ns} /\ sel \in {None, h.sel}
      kept(t) == SelectSeq(handlers[e][t], LAMBDA h : ~hit(h))
  IN /\ handlers' = [handlers EXCEPT ![e] =
                       [t \in Types |-> IF t \in ts THEN kept(t) ELSE @[t]]]
     /\ native' = [native EXCEPT ![e] =
                       @ \ {t \in ts : handlers[e][t] # <<>> /\ kept(t) = <<>>}]
     /\ UNCHANGED delegates

(* remove: orig "" unbinds every type, g None every function, ns "" every  *)
(* namespace, sel None every selector and no selector.                     *)
Matches(h, orig, ns, g, sel) == /\ orig \in {"", h.orig}
                                /\ g \in {None, h.guid}
                                /\ ns \in {"", h.ns}
                                /\ sel \in {None, h.sel}

remove(e, orig, ns, g, sel) ==
  LET ts == IF orig = "" THEN Types ELSE {TypeOf(orig)}
      kept(t) == SelectSeq(handlers[e][t], LAMBDA h : ~Matches(h, orig, ns, g, sel))
      gone(t) == SelectSeq(handlers[e][t], LAMBDA h : Matches(h, orig, ns, g, sel) /\ h.sel # None)
  IN /\ handlers' = [handlers EXCEPT ![e] =
                       [t \in Types |-> IF t \in ts THEN kept(t) ELSE @[t]]]
     /\ delegates' = [delegates EXCEPT ![e] =
                       [t \in Types |-> IF t \in ts THEN @[t] - Len(gone(t)) ELSE @[t]]]
     /\ native' = [native EXCEPT ![e] =
                       @ \ {t \in ts : handlers[e][t] # <<>> /\ kept(t) = <<>>}]

(* handlers(): the calls one element makes for an event at target: the     *)
(* delegated ones from the target up to the element (by the links of now), *)
(* then the direct ones.                                                   *)
Selected(e, t, target) ==
  LET all == handlers[e][t]
      n == delegates[e][t]
      for(cur) == [i \in DOMAIN SelectSeq(SubSeq(all, 1, n), LAMBDA h : h.sel = cur) |->
                     [cur |-> cur, h |-> SelectSeq(SubSeq(all, 1, n), LAMBDA h : h.sel = cur)[i]]]
      up[k \in (target - 1)..(e - 1)] ==
        IF k = target - 1 THEN <<>>
        ELSE up[k - 1] \o (IF k <= Outermost(target) THEN for(k) ELSE <<>>)
  IN (IF e = 0 THEN <<>> ELSE up[e - 1])
       \o [i \in 1..(Len(all) - n) |-> [cur |-> e, h |-> all[n + i]]]

Top == Head(events)
SetTop(ev) == <<ev>> \o Tail(events)

(* Scripts run from the event loop and inside handlers. *)
Script == (IF events = <<>> THEN TRUE ELSE Top.running) /\ ops < MaxOps /\ ops' = ops + 1

On(e, h) == Script /\ add(e, h) /\ UNCHANGED <<linked, events>>

Off(e, orig, ns, g, sel) == /\ Script
                            /\ remove(e, orig, ns, g, sel)
                            /\ UNCHANGED <<cached, linked, events>>

(* $(e).remove(): cleanData for the element and all below it. *)
RemoveElement(e) ==
  LET below == Below(e) IN
  /\ Script /\ e \in 1..(Root - 1)
  /\ linked' = linked \ {e}
  /\ cached' = cached \ below
  /\ handlers' = [x \in Elements |-> IF x \in below THEN [t \in Types |-> <<>>] ELSE handlers[x]]
  /\ delegates' = [x \in Elements |-> IF x \in below THEN [t \in Types |-> 0] ELSE delegates[x]]
  /\ native' = [x \in Elements |-> IF x \in below THEN {} ELSE native[x]]
  /\ UNCHANGED events

(* clone(true): cloneCopyEvent adds every handler of e to the copy. *)
Clone(e) == /\ Script /\ 0 \notin cached /\ \E t \in Types : handlers[e][t] # <<>>
            /\ cached' = cached \cup {0}
            /\ handlers' = [handlers EXCEPT ![0] = handlers[e]]
            /\ delegates' = [delegates EXCEPT ![0] = delegates[e]]
            /\ native' = [native EXCEPT ![0] = {t \in Types : handlers[e][t] # <<>>}]
            /\ UNCHANGED <<linked, events>>

(* An event starts at an element, natively or by trigger; its path is the  *)
(* elements above it now.                                                  *)
Trigger(e, t) == /\ Script /\ Len(events) < MaxDepth
                 /\ events' = <<[type |-> t, target |-> e, at |-> e, last |-> Outermost(e), queue |-> <<>>, entered |-> FALSE,
                                 running |-> FALSE, stopped |-> None]>> \o events
                 /\ UNCHANGED <<cached, handlers, delegates, native, linked>>

Idle == UNCHANGED <<cached, handlers, delegates, native, linked, ops>>

(* dispatch: the element's handlers are fixed when the event reaches it. *)
Dispatch == /\ events # <<>> /\ ~Top.running /\ ~Top.entered
            /\ events' = SetTop([Top EXCEPT !.entered = TRUE,
                            !.queue = IF Top.type \in native[Top.at]
                                      THEN Selected(Top.at, Top.type, Top.target) ELSE <<>>])
            /\ Idle

(* The next handler runs; one that was bound by one() first unbinds itself *)
(* at the element that dispatches.                                         *)
Run == /\ events # <<>> /\ ~Top.running /\ Top.entered /\ Top.queue # <<>>
       /\ events' = SetTop([Top EXCEPT !.running = TRUE])
       /\ LET h == Head(Top.queue).h IN
          IF h.one THEN remove(Top.at, h.orig, h.ns, h.guid, h.sel)
          ELSE UNCHANGED <<handlers, delegates, native>>
       /\ UNCHANGED <<cached, linked, ops>>

(* mouseenter: not when the mouse came from inside the element. *)
SkipEnter == /\ events # <<>> /\ ~Top.running /\ Top.entered /\ Top.queue # <<>>
             /\ Head(Top.queue).h.orig = "mouseenter"
             /\ events' = SetTop([Top EXCEPT !.queue = Tail(@)])
             /\ Idle

(* Mutant: the loop over the elements does not ask whether the event was stopped. *)
Returns_GoesOn(how) ==
  /\ events # <<>> /\ Top.running
  /\ events' = SetTop([Top EXCEPT !.running = FALSE, 
                     !.stopped = IF how = "go on" \/ @ # None THEN @ ELSE Head(Top.queue).cur,
                     !.queue = IF how = "stop now" THEN <<>> ELSE Tail(@)])
  /\ Idle

(* It returns: nothing, or it stopped the propagation (or returned false), *)
(* or stopped it at once.                                                  *)
Returns(how) ==
  /\ events # <<>> /\ Top.running
  /\ LET cur == Head(Top.queue).cur
         rest == Tail(Top.queue)
     IN events' = SetTop([Top EXCEPT !.running = FALSE, 
                     !.stopped = IF how = "go on" \/ @ # None THEN @ ELSE cur,
                     !.queue = CASE how = "go on" /\ Top.stopped = None -> rest
                                 [] how = "stop now" -> <<>>
                                 [] OTHER -> SelectSeq(rest, LAMBDA x : x.cur = cur)])
  /\ Idle

(* The event bubbles to the parent, or ends. *)
Bubble == /\ events # <<>> /\ ~Top.running /\ Top.entered /\ Top.queue = <<>>
          /\ events' = IF Top.stopped # None \/ Top.at = Top.last
                       THEN Tail(events)
                       ELSE SetTop([Top EXCEPT !.at = @ + 1, !.entered = FALSE])
          /\ Idle

Next == \/ \E e \in 0..Root, o \in OrigTypes, ns \in Namespaces, g \in Guids, sel \in {None} \cup 1..Root,
              one \in BOOLEAN :
             /\ sel # None => sel < e
             /\ On(e, HandleObj(o, ns, g, sel, one))
        \/ \E e \in cached, o \in OrigTypes \cup {""}, ns \in Namespaces, g \in Guids \cup {None},
              sel \in {None} \cup 1..Root : Off(e, o, ns, g, sel)
        \/ \E e \in Elements : RemoveElement(e) \/ Clone(e)
        \/ \E e \in Elements, t \in Types : Trigger(e, t)
        \/ Dispatch \/ Run \/ SkipEnter \/ Bubble
        \/ \E how \in {"go on", "stop", "stop now"} : Returns(how)

Spec == Init /\ [][Next]_vars

(* The bookkeeping of the handler lists survives every sequence of on, off, *)
(* remove and clone, also from inside handlers: delegateCount is the length *)
(* of the delegated prefix, the browser's listener is installed exactly     *)
(* while the list is not empty, and a cleaned element keeps nothing.        *)
Bookkeeping ==
  \A e \in Elements, t \in Types :
    /\ \A i \in DOMAIN handlers[e][t] : (handlers[e][t][i].sel # None) <=> (i <= delegates[e][t])
    /\ (t \in native[e]) <=> (handlers[e][t] # <<>>)
    /\ handlers[e][t] # <<>> => e \in cached

(* Handlers run innermost element first, delegated before direct ones, and *)
(* none of an element further out once one stopped the propagation.        *)
InnerFirst ==
  \A k \in DOMAIN events :
    LET q == events[k].queue IN
    /\ \A i \in DOMAIN q, j \in DOMAIN q : i < j => q[i].cur <= q[j].cur
    /\ events[k].stopped # None => \A i \in DOMAIN q : q[i].cur = events[k].stopped
=============================================================================
