--------------------------- MODULE JQueryCallbacks ---------------------------
(***************************************************************************)
(* The callback list of jQuery.Callbacks (jquery-2.1.4.js) as a data type: *)
(* a list is a record, an operation of its API is an operator on it.       *)
(* Firing is a loop that runs user code between its iterations, so it is   *)
(* cut into Fire (the prologue), Returned (what follows one callback) and  *)
(* EndFire (the epilogue); a state machine that uses a list runs user code *)
(* in between, with every operation open to it.  Indices start at 1.       *)
(***************************************************************************)
EXTENDS Integers, Sequences

CONSTANT NoData   \* no remembered value: the closure variable memory is falsy

(* FoldLeft over the occurrences to remove. *)
LOCAL INSTANCE SequencesExt

Flags == {"once", "memory", "unique", "stopOnFalse"}

(* The closure variables of a new list with the flags o.  on: list is      *)
(* defined; more: stack is defined, so the list may fire again; cur: the   *)
(* argument of the fire call that is running.                              *)
New(o) == [o |-> o, on |-> TRUE, list |-> <<>>, memory |-> NoData,
           fired |-> FALSE, firing |-> FALSE, start |-> 1, length |-> 0,
           index |-> 1, more |-> "once" \notin o, stack |-> <<>>,
           cur |-> NoData]

(* The inner function fire(data), down to its loop. *)
Fire(c, data) ==
  [c EXCEPT !.memory = IF "memory" \in c.o THEN data ELSE NoData,
            !.fired = TRUE, !.index = c.start, !.start = 1,
            !.length = Len(c.list), !.firing = TRUE, !.cur = data]

(* The condition of the loop, and the callback it calls next. *)
HasNext(c) == c.on /\ c.index <= c.length
Callee(c) == c.list[c.index]

disable(c) == [c EXCEPT !.on = FALSE, !.list = <<>>, !.more = FALSE,
                        !.stack = <<>>, !.memory = NoData]

(* After the loop: the next queued call of a repeatable list, else the     *)
(* list is emptied (memory) or disabled.                                   *)
EndFire(c) ==
  LET d == [c EXCEPT !.firing = FALSE, !.cur = NoData] IN
  IF ~d.on THEN d
  ELSE IF d.more
       THEN IF d.stack = <<>> THEN d
            ELSE Fire([d EXCEPT !.stack = Tail(@)], Head(d.stack))
  ELSE IF d.memory # NoData THEN [d EXCEPT !.list = <<>>]
  ELSE disable(d)

(* The callback returned; stop: it returned false. *)
Returned(c, stop) ==
  IF stop /\ "stopOnFalse" \in c.o
  THEN EndFire([c EXCEPT !.memory = NoData])
  ELSE [c EXCEPT !.index = @ + 1]

has(c, fn) == \E i \in DOMAIN c.list : c.list[i] = fn

(* One callback is pushed unless the list is unique and has it. *)
Push(c, fn) ==
  IF "unique" \in c.o /\ has(c, fn) THEN c
  ELSE [c EXCEPT !.list = Append(@, fn)]

(* add: extends the batch that is firing, or fires at once with the memory. *)
add(c, fns) ==
  IF ~c.on THEN c
  ELSE LET d == FoldLeft(Push, c, fns) IN
       IF c.firing THEN [d EXCEPT !.length = Len(d.list)]
       ELSE IF c.memory # NoData
            THEN Fire([d EXCEPT !.start = Len(c.list) + 1], c.memory)
       ELSE d

(* Mutant: the loop that is firing keeps its index. *)
DropFirst_KeepsIndex(c, fn) ==
  LET i == CHOOSE j \in DOMAIN c.list :
             c.list[j] = fn /\ \A k \in 1..(j-1) : c.list[k] # fn
  IN [c EXCEPT !.list = RemoveAt(@, i),
               !.length = IF c.firing /\ i <= @ + 1 THEN @ - 1 ELSE @]

(* One round of remove's while loop: the first occurrence goes, and the    *)
(* indices of the loop that is firing move with it.                        *)
DropFirst(c, fn) ==
  LET i == CHOOSE j \in DOMAIN c.list :
             c.list[j] = fn /\ \A k \in 1..(j-1) : c.list[k] # fn
  IN [c EXCEPT !.list = RemoveAt(@, i),
               !.length = IF c.firing /\ i <= @ + 1 THEN @ - 1 ELSE @,
               !.index = IF c.firing /\ i <= @ THEN @ - 1 ELSE @]

remove(c, fn) ==
  IF ~c.on THEN c
  ELSE FoldLeft(DropFirst, c, SelectSeq(c.list, LAMBDA g : g = fn))

(* empty gives even a disabled list a new array. *)
empty(c) == [c EXCEPT !.on = TRUE, !.list = <<>>, !.length = 0]

lock(c) == LET d == [c EXCEPT !.more = FALSE, !.stack = <<>>]
           IN IF d.memory = NoData THEN disable(d) ELSE d

(* fireWith: ignored by a list that is disabled, or was fired and cannot   *)
(* fire again; queued while the list is firing.                            *)
fireWith(c, data) ==
  IF ~c.on \/ (c.fired /\ ~c.more) THEN c
  ELSE IF c.firing THEN [c EXCEPT !.stack = Append(@, data)]
  ELSE Fire(c, data)
=============================================================================
