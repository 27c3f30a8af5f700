----------------------------- MODULE JQueryQueue -----------------------------
(***************************************************************************)
(* The fx queues of jQuery 2.1.4: queue, dequeue, clearQueue, promise, and *)
(* the private data of the elements in which they are kept.                *)
(*                                                                         *)
(* A function in a queue is known by its number; it calls next when it is  *)
(* done, from inside (even numbers) or later.  Nobody else calls dequeue.  *)
(***************************************************************************)
EXTENDS Integers, Sequences, FiniteSets, SequencesExt

CONSTANTS Animated,    \* elements
          MaxQueueOps       \* bound: calls of queue, clearQueue and promise

VARIABLES data,        \* data_priv: per element, [key -> value] for the keys that are set
          waits,       \* the hooks that were made: what their empty will resolve
          running,     \* <<element, function>> that will call next
          counts,      \* the promises: what is still missing
          before,      \* history: per promise, the functions not done when it was made
          started, done,  \* history: per element, the functions in their order; all that are done
          cleared,     \* history: elements whose queue was cleared while a function ran
          added, ops

vars == <<data, waits, running, counts, before, started, done, cleared, added, ops>>

Inprogress == 0
NoKeys == [k \in {} |-> 0]

Init == /\ data = [e \in Animated |-> NoKeys] /\ waits = <<>>
        /\ running = {} /\ counts = <<>> /\ before = <<>>
        /\ started = [e \in Animated |-> <<>>] /\ done = {} /\ cleared = {}
        /\ added = [e \in Animated |-> <<>>] /\ ops = 0

-----------------------------------------------------------------------------
(* What the operations change, as a record x. *)
State == [data |-> data, waits |-> waits, running |-> running, counts |-> counts,
          started |-> started, done |-> done]
Becomes(x) == /\ data' = x.data /\ waits' = x.waits /\ running' = x.running
              /\ counts' = x.counts /\ started' = x.started /\ done' = x.done

(* Data.get, set (by access) and remove *)
has(x, e, key) == key \in DOMAIN x.data[e]
set(x, e, key, value) == [x EXCEPT !.data[e] = [k \in DOMAIN @ \cup {key} |-> IF k = key THEN value ELSE @[k]]]
remove(x, e, keys) == [x EXCEPT !.data[e] = [k \in DOMAIN @ \ keys |-> @[k]]]

queueOf(x, e) == IF has(x, e, "fxqueue") THEN x.data[e]["fxqueue"] ELSE <<>>

(* _queueHooks: made if there are none. *)
_queueHooks(x, e) == IF has(x, e, "fxqueueHooks") THEN x
                     ELSE set([x EXCEPT !.waits = Append(@, <<>>)], e, "fxqueueHooks", Len(x.waits) + 1)

(* resolve of a promise *)
resolve(x, p) == [x EXCEPT !.counts[p] = @ - 1]

(* hooks.empty.fire: the queue and the hooks go, then the promises. *)
fireEmpty(x, e, h) == FoldLeft(resolve, [remove(x, e, {"fxqueue", "fxqueueHooks"}) EXCEPT !.waits[h] = <<>>],
                               x.waits[h])

RECURSIVE dequeue_CountsSentinel(_, _)
dequeue_CountsSentinel(x, e) ==
  LET y == _queueHooks(x, e)
      q0 == queueOf(x, e)
      q == IF q0 # <<>> /\ Head(q0) = Inprogress THEN Tail(q0) ELSE q0
      z == IF has(x, e, "fxqueue") THEN set(y, e, "fxqueue", IF q = <<>> THEN <<>> ELSE <<Inprogress>> \o Tail(q)) ELSE y
      begun == [z EXCEPT !.started[e] = Append(@, Head(q))]
  IN IF q0 = <<>> THEN fireEmpty(z, e, y.data[e]["fxqueueHooks"])
     ELSE IF q = <<>> THEN z
     ELSE IF Head(q) % 2 = 0 THEN dequeue_CountsSentinel([begun EXCEPT !.done = @ \cup {<<e, Head(q)>>}], e)
     ELSE [begun EXCEPT !.running = @ \cup {<<e, Head(q)>>}]

(* dequeue: the next function runs behind a sentinel; one that is done at  *)
(* once calls dequeue from inside, and then there is nothing left to do.   *)
RECURSIVE dequeue(_, _)
dequeue(x, e) ==
  LET y == _queueHooks(x, e)
      q0 == queueOf(x, e)
      q == IF q0 # <<>> /\ Head(q0) = Inprogress THEN Tail(q0) ELSE q0
      z == IF has(x, e, "fxqueue") THEN set(y, e, "fxqueue", IF q = <<>> THEN <<>> ELSE <<Inprogress>> \o Tail(q)) ELSE y
      begun == [z EXCEPT !.started[e] = Append(@, Head(q))]
  IN IF q = <<>> THEN fireEmpty(z, e, y.data[e]["fxqueueHooks"])
     ELSE IF Head(q) % 2 = 0 THEN dequeue([begun EXCEPT !.done = @ \cup {<<e, Head(q)>>}], e)
     ELSE [begun EXCEPT !.running = @ \cup {<<e, Head(q)>>}]

(* jQuery.fn.queue with a function (<<f>>) or an array in place of the old. *)
queue(x, e, q) ==
  LET y == _queueHooks(set(x, e, "fxqueue", q), e)
  IN IF q # <<>> /\ Head(q) = Inprogress THEN y ELSE dequeue(y, e)

-----------------------------------------------------------------------------
Step == ops < MaxQueueOps /\ ops' = ops + 1

Add(e, f) == /\ Step /\ f \notin ToSet(added[e])
             /\ Becomes(queue(State, e, Append(queueOf(State, e), f)))
             /\ added' = [added EXCEPT ![e] = Append(@, f)]
             /\ UNCHANGED <<before, cleared>>

clearQueue(e) == /\ Step
                 /\ Becomes(queue(State, e, <<>>))
                 /\ cleared' = IF \E r \in running : r[1] = e THEN cleared \cup {e} ELSE cleared
                 /\ UNCHANGED <<before, added>>

(* promise: one for itself and one for every element with a queue. *)
promise == LET with == {e \in Animated : has(State, e, "fxqueueHooks")}
               p == Len(counts) + 1
           IN /\ Step
              /\ counts' = Append(counts, Cardinality(with))
              /\ waits' = [h \in DOMAIN waits |-> IF \E e \in with : data[e]["fxqueueHooks"] = h
                                                  THEN Append(waits[h], p) ELSE waits[h]]
              /\ before' = Append(before, {<<e, f>> \in Animated \X (1..MaxQueueOps) :
                                             f \in ToSet(added[e]) /\ <<e, f>> \notin done /\ e \notin cleared})
              /\ UNCHANGED <<data, running, started, done, cleared, added>>

(* A function calls next. *)
next(e, f) == /\ <<e, f>> \in running
              /\ Becomes(dequeue([State EXCEPT !.running = @ \ {<<e, f>>}, !.done = @ \cup {<<e, f>>}], e))
              /\ UNCHANGED <<before, cleared, added, ops>>

Next == \/ \E e \in Animated : clearQueue(e) \/ \E f \in 1..MaxQueueOps : Add(e, f)
        \/ promise
        \/ \E r \in running : next(r[1], r[2])

Spec == Init /\ [][Next]_vars

-----------------------------------------------------------------------------
(* One after the other: unless its queue was cleared meanwhile, an element *)
(* runs one function at a time, in the order they were queued, and a queue *)
(* with nothing running has nothing waiting and leaves no data behind; a   *)
(* promise is resolved when the functions queued before it are done, not   *)
(* earlier, and at the latest when all queues are empty.                   *)
QueuesInOrder ==
  /\ \A e \in Animated \ cleared :
       LET mine == {r \in running : r[1] = e} IN
       /\ Cardinality(mine) <= 1 /\ IsPrefix(started[e], added[e])
       /\ mine = {} <=> data[e] = NoKeys
  /\ \A p \in DOMAIN counts :
       /\ counts[p] >= 0
       /\ counts[p] = 0 => \A r \in before[p] : r[1] \in cleared \/ r \in done
       /\ (\A e \in Animated : data[e] = NoKeys) => counts[p] = 0
=============================================================================
