--------------------------- MODULE BackboneEvents ---------------------------
(***************************************************************************)
(* Backbone.Events (backbone-1.1.2.js): callbacks bound to named events of *)
(* objects, triggers that run inside callbacks of other triggers, and      *)
(* listeners that keep track of what they listen to.  The arrays of        *)
(* callbacks are shared between an object and the triggers that iterate    *)
(* over them, so they live in a heap.                                      *)
(***************************************************************************)
EXTENDS Integers, Sequences, FiniteSets

CONSTANTS Objs,        \* objects that trigger events
          Listeners,   \* objects that listen to them
          Fns,         \* callback functions
          None,        \* an argument that is not passed
          MaxOps,      \* API calls in one behaviour
          MaxDepth     \* triggers inside callbacks of triggers

VARIABLES heap,         \* the arrays of callbacks
          _events,      \* per object and name: its array, 0 is none
          _listeningTo, \* per listener: objects
          frames,       \* the triggers that run, innermost first
          spent,        \* the wrappers of once that were called
          ran,          \* history: how often each wrapper ran its callback
          ops

vars == <<heap, _events, _listeningTo, frames, spent, ran, ops>>

Names == {"change", "all"}

Init == /\ heap = <<>> /\ frames = <<>> /\ spent = {} /\ ran = <<>> /\ ops = 0
        /\ _events = [o \in Objs |-> [n \in Names |-> 0]]
        /\ _listeningTo = [l \in Listeners |-> {}]

(* once: 0, or the number of the wrapper that _.once made. *)
Entry(f, once, ctx) == [callback |-> f, once |-> once, context |-> ctx]

Bound(o, n) == IF _events[o][n] = 0 THEN <<>> ELSE heap[_events[o][n]]

(* on: pushes to the array of the name, which is created if need be. *)
on(o, n, e) ==
  IF _events[o][n] = 0
  THEN /\ heap' = Append(heap, <<e>>)
       /\ _events' = [_events EXCEPT ![o][n] = Len(heap) + 1]
  ELSE /\ heap' = [heap EXCEPT ![_events[o][n]] = Append(@, e)]
       /\ UNCHANGED _events

(* What off(name, callback, context) keeps; w is the wrapper to remove, if *)
(* once calls it.                                                          *)
Kept(e, f, ctx, w) == IF w # 0 THEN e.once # w
                      ELSE (f # None /\ f # e.callback) \/ (ctx # None /\ ctx # e.context)

(* The elements of a sequence at some of its indexes, in their order. *)
InOrder(I) == CHOOSE f \in [1..Cardinality(I) -> I] : \A i, j \in DOMAIN f : i < j => f[i] < f[j]
At(s, I) == [k \in 1..Cardinality(I) |-> s[InOrder(I)[k]]]

(* off: every name gets a new array of what is kept, or none. *)
Order == <<"change", "all">>
touched(o, n) == {x \in Names : n \in {None, x} /\ _events[o][x] # 0}
retain(o, x, f, ctx, w) ==
  At(Bound(o, x), {i \in DOMAIN Bound(o, x) : Kept(Bound(o, x)[i], f, ctx, w)})
full(o, n, f, ctx, w) ==
  At(Order, {i \in DOMAIN Order : Order[i] \in touched(o, n) /\ retain(o, Order[i], f, ctx, w) # <<>>})
place(xs, x) == CHOOSE i \in DOMAIN xs : xs[i] = x

off(o, n, f, ctx, w) ==
  LET xs == full(o, n, f, ctx, w)
  IN /\ heap' = heap \o [i \in DOMAIN xs |-> retain(o, xs[i], f, ctx, w)]
     /\ _events' = [_events EXCEPT ![o] =
          [x \in Names |-> IF x \notin touched(o, n) THEN @[x]
                           ELSE IF retain(o, x, f, ctx, w) = <<>> THEN 0 ELSE Len(heap) + place(xs, x)]]

Top == Head(frames)
SetTop(f) == <<f>> \o Tail(frames)

(* Scripts run from the event loop and inside callbacks. *)
Script == (IF frames = <<>> THEN TRUE ELSE Top.calling) /\ ops < MaxOps /\ ops' = ops + 1

On(o, n, f, ctx) == /\ Script /\ on(o, n, Entry(f, 0, ctx))
                    /\ UNCHANGED <<_listeningTo, frames, spent, ran>>

Once(o, n, f, ctx) == /\ Script /\ on(o, n, Entry(f, Len(ran) + 1, ctx))
                      /\ ran' = Append(ran, 0)
                      /\ UNCHANGED <<_listeningTo, frames, spent>>

Off(o, n, f, ctx) == /\ Script /\ off(o, n, f, ctx, 0)
                     /\ UNCHANGED <<_listeningTo, frames, spent, ran>>

(* listenTo and listenToOnce *)
ListenTo(l, o, n, f, once) ==
  /\ Script
  /\ _listeningTo' = [_listeningTo EXCEPT ![l] = @ \cup {o}]
  /\ IF once THEN on(o, n, Entry(f, Len(ran) + 1, l)) /\ ran' = Append(ran, 0)
     ELSE on(o, n, Entry(f, 0, l)) /\ UNCHANGED ran
  /\ UNCHANGED <<frames, spent>>

(* Mutant: the object is forgotten although other callbacks of it remain. *)
StopListening_ForgetsObject(l, o, n, f) ==
  /\ Script /\ o \in _listeningTo[l]
  /\ off(o, n, f, l, 0)
  /\ _listeningTo' = [_listeningTo EXCEPT ![l] = @ \ {o}]
  /\ UNCHANGED <<frames, spent, ran>>

(* stopListening of one object: the entry goes with the last callback, or  *)
(* if neither name nor callback was given.                                 *)
StopListening(l, o, n, f) ==
  /\ Script /\ o \in _listeningTo[l]
  /\ off(o, n, f, l, 0)
  /\ _listeningTo' = IF (n = None /\ f = None) \/ \A x \in Names : _events'[o][x] = 0
                     THEN [_listeningTo EXCEPT ![l] = @ \ {o}] ELSE _listeningTo
  /\ UNCHANGED <<frames, spent, ran>>

(* trigger: both arrays are looked up before the first callback runs. *)
lookup(o, n) == LET as == << <<n, _events[o][n]>>, <<"all", _events[o]["all"]>> >>
                IN At(as, {i \in DOMAIN as : as[i][2] # 0})
Trigger(o, n) ==
  /\ Script /\ Len(frames) < MaxDepth
  /\ frames' = <<[o |-> o, calling |-> FALSE, i |-> 0, l |-> -1, due |-> <<>>,
                  arrays |-> lookup(o, n)]>> \o frames
  /\ UNCHANGED <<heap, _events, _listeningTo, spent, ran>>

(* triggerEvents: the length is read once per array. *)
Enter == /\ frames # <<>> /\ ~Top.calling /\ Top.arrays # <<>> /\ Top.l = -1
         /\ frames' = SetTop([Top EXCEPT !.l = Len(heap[Head(Top.arrays)[2]]), !.i = 0,
                                         !.due = heap[Head(Top.arrays)[2]]])
         /\ UNCHANGED <<heap, _events, _listeningTo, spent, ran, ops>>

(* Mutant: once relies on off alone. *)
Call_OnceWithoutMemo ==
  /\ frames # <<>> /\ ~Top.calling /\ Top.l > Top.i
  /\ LET e == heap[Head(Top.arrays)[2]][Top.i + 1] IN
     /\ frames' = SetTop([Top EXCEPT !.i = @ + 1, !.calling = TRUE])
     /\ IF e.once = 0 THEN UNCHANGED <<heap, _events, spent, ran>>
        ELSE /\ ran' = [ran EXCEPT ![e.once] = @ + 1]
             /\ off(Top.o, Head(Top.arrays)[1], None, None, e.once)
             /\ UNCHANGED spent
  /\ UNCHANGED <<_listeningTo, ops>>

(* The next callback; the wrapper of once unbinds itself (by name) and     *)
(* calls at most one time.                                                 *)
Call ==
  /\ frames # <<>> /\ ~Top.calling /\ Top.l > Top.i
  /\ LET e == heap[Head(Top.arrays)[2]][Top.i + 1] IN
     /\ frames' = SetTop([Top EXCEPT !.i = @ + 1, !.calling = e.once \notin spent])
     /\ IF e.once = 0 \/ e.once \in spent THEN UNCHANGED <<heap, _events, spent, ran>>
        ELSE /\ spent' = spent \cup {e.once}
             /\ ran' = [ran EXCEPT ![e.once] = @ + 1]
             /\ off(Top.o, Head(Top.arrays)[1], None, None, e.once)
  /\ UNCHANGED <<_listeningTo, ops>>

Return == /\ frames # <<>> /\ Top.calling
          /\ frames' = SetTop([Top EXCEPT !.calling = FALSE])
          /\ UNCHANGED <<heap, _events, _listeningTo, spent, ran, ops>>

Leave == /\ frames # <<>> /\ ~Top.calling
         /\ \/ Top.arrays = <<>> /\ frames' = Tail(frames)
            \/ /\ Top.arrays # <<>> /\ Top.l = Top.i
               /\ frames' = SetTop([Top EXCEPT !.arrays = Tail(@), !.l = -1])
         /\ UNCHANGED <<heap, _events, _listeningTo, spent, ran, ops>>

Next == \/ \E o \in Objs, n \in Names, f \in Fns : On(o, n, f, None) \/ Once(o, n, f, None)
        \/ \E o \in Objs, n \in Names \cup {None}, f \in Fns \cup {None}, c \in Listeners \cup {None} :
             Off(o, n, f, c)
        \/ \E l \in Listeners, o \in Objs, n \in Names, f \in Fns, once \in BOOLEAN :
             ListenTo(l, o, n, f, once)
        \/ \E l \in Listeners, o \in Objs, n \in Names \cup {None}, f \in Fns \cup {None} :
             StopListening(l, o, n, f)
        \/ \E o \in Objs : Trigger(o, "change")
        \/ Enter \/ Call \/ Return \/ Leave

Spec == Init /\ [][Next]_vars

(* A trigger calls, in order, every callback that was bound when it came   *)
(* to its name, whatever the callbacks bind and unbind meanwhile, and a    *)
(* callback bound by once runs one time, however triggers are nested.      *)
Delivery ==
  /\ \A k \in DOMAIN frames :
       frames[k].l >= 0 => SubSeq(heap[Head(frames[k].arrays)[2]], 1, frames[k].l) = frames[k].due
  /\ \A w \in DOMAIN ran : ran[w] <= 1

(* A listener knows every object that still holds a callback of it, so     *)
(* that stopListening() (and View.remove) leaves none behind.              *)
ListeningComplete ==
  \A o \in Objs, n \in Names :
    \A i \in DOMAIN Bound(o, n) :
      Bound(o, n)[i].context # None => o \in _listeningTo[Bound(o, n)[i].context]
=============================================================================
