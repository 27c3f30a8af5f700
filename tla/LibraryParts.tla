---------------------------- MODULE LibraryParts ----------------------------
(***************************************************************************)
(* Callback lists, promises and requests of jQuery and the timers of       *)
(* underscore, side by side: their constants and variables under different *)
(* names, and what each of them promises.                                  *)
(***************************************************************************)
EXTENDS Integers, Sequences, FiniteSets

CONSTANTS NoData, Fns, Values, MaxOps,
          Roots, Derived, Users, Results, NoFn, MaxCalls,
          Requests, MaxThrows,
          Wait, Jump, MaxTimed, MaxTime

VARIABLES library,    \* the part that is exercised
          c, calling, ops, owed, emptied,
          state, lists, frames, calls, links, left, values, ran,
          stack, phase, opts, timer, xhr, isSuccess, active, busy, got, sent, ended, lost, again, twice,
          how, real, now, timeout, previous, timestamp, args, timed, lastCall, ranAt, ranArgs, early, skewed

L == INSTANCE JQueryCallbackList
D == INSTANCE JQueryDeferred
A == INSTANCE JQueryAjax WITH state <- phase
T == INSTANCE UnderscoreTimers WITH calls <- timed, MaxCalls <- MaxTimed, excuse <- skewed

listVars == <<c, calling, ops, owed, emptied>>
deferredVars == <<state, lists, frames, calls, links, left, values, ran>>
ajaxVars == <<stack, phase, opts, timer, xhr, isSuccess, active, busy, got, sent, ended, lost, again, twice>>
timerVars == <<how, real, now, timeout, previous, timestamp, args, timed, lastCall, ranAt, ranArgs, early, skewed>>

-----------------------------------------------------------------------------
(* A batch of a callback list calls what is in the list exactly once. *)
BatchExact == L!BatchExact

(* The deferreds implement promises (D!IsPromise, and only they act on them). *)
IsPromise == D!P!Init /\ [][library = "deferred" /\ D!P!Next]_(D!P!vars)

(* What then and when return follows what it was derived from. *)
Derivation == D!Derivation

(* A request is answered once, and ajaxStart and ajaxStop bracket the      *)
(* requests in flight as long as no handler of ajaxSend aborts a request.  *)
OneAnswer == A!OneAnswer /\ A!Bracket

(* A request that was sent is answered in the end. *)
Answered == A!Answered

(* throttle and debounce run neither too often nor too seldom. *)
TimersExact == T!TimersExact
=============================================================================
