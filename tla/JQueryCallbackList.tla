------------------------- MODULE JQueryCallbackList -------------------------
(***************************************************************************)
(* One list of jQuery.Callbacks used by scripts that call its API at any   *)
(* time, also from a callback that the list itself is running.             *)
(***************************************************************************)
EXTENDS JQueryCallbacks, FiniteSets

CONSTANTS Fns,       \* the functions scripts register
          Values,    \* the arguments they fire
          MaxOps     \* API calls in one behaviour

VARIABLES c,         \* the list
          calling,   \* a callback of the running batch is executing
          ops,       \* API calls made
          owed,      \* history: how often the running batch still has to call each function
          emptied    \* history: empty() was called during the running batch

vars == <<c, calling, ops, owed, emptied>>

Occurs(s) == [f \in Fns |-> Cardinality({i \in DOMAIN s : s[i] = f})]
Nothing == [f \in Fns |-> 0]

Init == /\ \E o \in SUBSET Flags : c = New(o)
        /\ calling = FALSE /\ ops = 0 /\ owed = Nothing /\ emptied = FALSE

(* Scripts run when no batch does, or inside a callback. *)
Script == (calling \/ ~c.firing) /\ ops < MaxOps /\ ops' = ops + 1

(* A batch that starts owes one call to every member of the list. *)
Begun(d) == /\ owed' = IF d.firing THEN Occurs(d.list) ELSE Nothing
            /\ emptied' = FALSE

CallAdd(f) ==
  /\ Script
  /\ c' = add(c, <<f>>)
  /\ owed' = IF c'.firing
             THEN [g \in Fns |-> owed[g] + Occurs(c'.list)[g] - Occurs(c.list)[g]]
             ELSE owed
  /\ emptied' = (emptied /\ c.firing)
  /\ UNCHANGED calling

CallRemove(f) == /\ Script
                 /\ c' = remove(c, f)
                 /\ owed' = [owed EXCEPT ![f] = 0]
                 /\ UNCHANGED <<calling, emptied>>

CallEmpty == /\ Script
             /\ c' = empty(c)
             /\ owed' = Nothing /\ emptied' = c.firing
             /\ UNCHANGED calling

CallDisable == /\ Script
               /\ c' = disable(c)
               /\ owed' = Nothing
               /\ UNCHANGED <<calling, emptied>>

CallLock == /\ Script
            /\ c' = lock(c)
            /\ owed' = IF c'.on THEN owed ELSE Nothing
            /\ UNCHANGED <<calling, emptied>>

CallFire(v) == /\ Script
               /\ c' = fireWith(c, v)
               /\ IF c.firing THEN UNCHANGED <<owed, emptied>> ELSE Begun(c')
               /\ UNCHANGED calling

(* The loop of fire: call, return, leave. *)
Call == /\ c.firing /\ ~calling /\ HasNext(c)
        /\ calling' = TRUE
        /\ owed' = [owed EXCEPT ![Callee(c)] = @ - 1]
        /\ UNCHANGED <<c, ops, emptied>>

Return(stop) == /\ calling
                /\ calling' = FALSE
                /\ c' = Returned(c, stop)
                /\ IF stop /\ "stopOnFalse" \in c.o
                   THEN Begun(c') ELSE UNCHANGED <<owed, emptied>>
                /\ UNCHANGED ops

Leave == /\ c.firing /\ ~calling /\ ~HasNext(c)
         /\ c' = EndFire(c)
         /\ Begun(c')
         /\ UNCHANGED <<calling, ops>>

Next == \/ \E f \in Fns : CallAdd(f) \/ CallRemove(f)
        \/ CallEmpty \/ CallDisable \/ CallLock
        \/ \E v \in Values : CallFire(v)
        \/ Call \/ Leave
        \/ \E stop \in BOOLEAN : Return(stop)

Spec == Init /\ [][Next]_vars

(* A batch calls every callback that is in the list while it runs exactly  *)
(* once: what the loop of fire will still reach is what the batch owes,    *)
(* whatever callbacks were added, removed or disabled by its own calls.    *)
(* (After empty() inside a callback the loop keeps its old index.)         *)
BatchExact ==
  ~emptied =>
    owed = IF c.firing /\ c.on
           THEN Occurs(SubSeq(c.list, c.index + (IF calling THEN 1 ELSE 0), c.length))
           ELSE Nothing
=============================================================================
