---------------------------- MODULE MCLibraries ----------------------------
(***************************************************************************)
(* The mechanisms of jQuery, underscore and moment that the web            *)
(* application rests on, in one run: a behaviour exercises one of them     *)
(* (library), the others keep their initial states.                           *)
(***************************************************************************)
EXTENDS LibraryParts

CONSTANTS Root, Guids, Namespaces, MaxSteps, MaxDepth,
          Animated, MaxQueueOps,
          Numbers, Size, Nodes, Hole,
          ParseYears, DayYears

VARIABLES cached, handlers, delegates, native, linked, events, steps,
          data, waits, running, counts, before, started, done, cleared, added, queueOps,
          xs, ys, graph,
          input, mom

E == INSTANCE JQueryEvent WITH ops <- steps, MaxOps <- MaxSteps
Q == INSTANCE JQueryQueue WITH ops <- queueOps
U == INSTANCE Underscore
M == INSTANCE MomentDates

eventVars == <<cached, handlers, delegates, native, linked, events, steps>>
queueVars == <<data, waits, running, counts, before, started, done, cleared, added, queueOps>>
arrayVars == <<xs, ys, graph>>
dateVars == <<input, mom>>
jQueryVars == <<listVars, deferredVars, ajaxVars, eventVars, queueVars>>
vars == <<library, jQueryVars, arrayVars, dateVars, timerVars>>

Init == /\ library \in {"callbacks", "deferred", "ajax", "event", "queue", "arrays", "dates", "timers"}
        /\ L!Init /\ (library # "callbacks" => c.o = {})
        /\ D!Init /\ A!Init /\ E!Init /\ Q!Init
        /\ IF library = "arrays" THEN U!Init ELSE xs = <<>> /\ ys = <<>> /\ graph = U!Plain
        /\ IF library = "dates" THEN M!Init ELSE input = M!Plain /\ mom = M!Noon
        /\ T!Init /\ (library # "timers" => how = [kind |-> "throttle", leading |-> TRUE, trailing |-> TRUE])

JQuery == \/ library = "callbacks" /\ L!Next /\ UNCHANGED <<deferredVars, ajaxVars, eventVars, queueVars>>
          \/ library = "deferred" /\ D!Next /\ UNCHANGED <<listVars, ajaxVars, eventVars, queueVars>>
          \/ library = "ajax" /\ A!Next /\ UNCHANGED <<listVars, deferredVars, eventVars, queueVars>>
          \/ library = "event" /\ E!Next /\ UNCHANGED <<listVars, deferredVars, ajaxVars, queueVars>>
          \/ library = "queue" /\ Q!Next /\ UNCHANGED <<listVars, deferredVars, ajaxVars, eventVars>>

(* The functions on arrays, objects and dates are about initial states only. *)
Next == /\ library' = library
        /\ UNCHANGED <<arrayVars, dateVars>>
        /\ \/ JQuery /\ UNCHANGED timerVars
           \/ library = "timers" /\ T!Next /\ UNCHANGED jQueryVars

Spec == Init /\ [][Next]_vars /\ A!Fairness

(* The books of the event handlers agree, and handlers run from the        *)
(* innermost element outwards.                                             *)
Bookkeeping == E!Bookkeeping /\ E!InnerFirst

(* The functions in the queue of an element run one after the other, and   *)
(* promises wait for them.                                                 *)
QueuesInOrder == Q!QueuesInOrder

(* underscore's functions on arrays, objects and text and moment's         *)
(* functions on dates agree with each other and with their definitions, at *)
(* every edge.                                                             *)
Algorithms == /\ library = "arrays" => U!Algorithms /\ U!TextAlgorithms
              /\ library = "dates" => M!Dates
=============================================================================
