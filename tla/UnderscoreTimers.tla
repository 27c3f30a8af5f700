-------------------------- MODULE UnderscoreTimers --------------------------
(***************************************************************************)
(* _.throttle and _.debounce of underscore-1.7.0.js; the results view      *)
(* draws the canvas from a debounced function when the window is resized.  *)
(*                                                                         *)
(* A behaviour is about one function that was wrapped by one of them.      *)
(* setTimeout runs a function when its time has come or later, by a clock  *)
(* that only goes forward; Date.now may be set back or forth.  The wrapped *)
(* function may call its wrapper.                                          *)
(***************************************************************************)
EXTENDS Integers

CONSTANTS Wait,        \* milliseconds
          Jump,        \* by what Date.now may be set back or forth
          MaxCalls, MaxTime   \* bounds

VARIABLES how,         \* the wrapper and its options: [kind, leading, trailing]
          real, now,   \* the time; Date.now
          timeout,     \* 0, or when the timeout is due
          previous,    \* of throttle
          timestamp,   \* of debounce
          args,        \* those kept for the function: the number of a call, 0 for null
          calls,       \* calls of the wrapper
          lastCall,    \* history: when the last one was
          ranAt, ranArgs,  \* history: the last call of the function
          early,       \* history: a call of the function came too early
          excuse       \* history: Date.now was set, or a call and a timeout coincided

vars == <<how, real, now, timeout, previous, timestamp, args, calls, lastCall, ranAt, ranArgs, early, excuse>>

Null == 0
(* immediate of debounce is leading here *)
Options == [kind : {"throttle"}, leading : BOOLEAN, trailing : BOOLEAN]
             \cup [kind : {"debounce"}, leading : BOOLEAN, trailing : {TRUE}]

Init == /\ how \in Options
        /\ real = 10 /\ now = 10
        /\ timeout = Null /\ previous = 0 /\ timestamp = 0 /\ args = Null
        /\ calls = 0 /\ lastCall = 0 /\ ranAt = 0 /\ ranArgs = 0 /\ early = FALSE /\ excuse = FALSE

Time == UNCHANGED <<how, real, now>>

(* The function runs with the arguments of call a, and perhaps calls its   *)
(* wrapper; at: when the timeout is due that is armed then.  The arguments *)
(* are kept for that timeout.                                              *)
Run(a, nested, at, tooEarly) ==
  /\ ranAt' = real /\ ranArgs' = a /\ early' = (early \/ tooEarly)
  /\ calls' <= MaxCalls
  /\ timeout' = at

Keep(a, nested) == args' = IF timeout' = Null THEN Null ELSE IF nested THEN calls' ELSE a

-----------------------------------------------------------------------------
Remaining(prev) == Wait - (now - prev)
Prev == IF previous = 0 /\ ~how.leading THEN now ELSE previous
Close == ranAt > 0 /\ real - ranAt < Wait

throttled_ForgetsTimeout(nested) ==
  /\ calls < MaxCalls /\ calls' = calls + (IF nested THEN 2 ELSE 1) /\ lastCall' = real
  /\ IF Remaining(Prev) <= 0 \/ Remaining(Prev) > Wait
     THEN /\ previous' = now
          /\ Run(calls + 1, nested, IF nested /\ how.trailing THEN real + Wait ELSE timeout, Close) /\ Keep(calls + 1, nested)
     ELSE /\ ~nested /\ previous' = Prev /\ args' = calls + 1
          /\ timeout' = IF timeout = Null /\ how.trailing THEN real + Remaining(Prev) ELSE timeout
          /\ UNCHANGED <<ranAt, ranArgs, early>>
  /\ UNCHANGED <<timestamp, excuse>> /\ Time

(* The function that throttle returns: run now, if the time is over (or    *)
(* the clock was set back), else later.                                    *)
throttled(nested) ==
  /\ calls < MaxCalls /\ calls' = calls + (IF nested THEN 2 ELSE 1) /\ lastCall' = real
  /\ IF Remaining(Prev) <= 0 \/ Remaining(Prev) > Wait
     THEN /\ previous' = now
          /\ Run(calls + 1, nested, IF nested /\ how.trailing THEN real + Wait ELSE Null, Close) /\ Keep(calls + 1, nested)
     ELSE /\ ~nested /\ previous' = Prev /\ args' = calls + 1
          /\ timeout' = IF timeout = Null /\ how.trailing THEN real + Remaining(Prev) ELSE timeout
          /\ UNCHANGED <<ranAt, ranArgs, early>>
  /\ UNCHANGED <<timestamp, excuse>> /\ Time

(* later of throttle *)
throttleLater(nested) ==
  /\ timeout # Null /\ real >= timeout
  /\ calls' = calls + (IF nested THEN 1 ELSE 0) /\ lastCall' = IF nested THEN real ELSE lastCall
  /\ previous' = IF how.leading \/ nested THEN now ELSE 0
  /\ Run(args, nested, IF nested THEN real + Wait ELSE Null, Close) /\ Keep(args, nested)
  /\ UNCHANGED <<timestamp, excuse>> /\ Time

-----------------------------------------------------------------------------
(* The function that debounce returns. *)
Busy == calls > 0 /\ real - lastCall < Wait

debounced(nested) ==
  /\ calls < MaxCalls /\ calls' = calls + (IF nested THEN 2 ELSE 1) /\ lastCall' = real
  /\ timestamp' = now
  /\ IF how.leading /\ timeout = Null
     THEN /\ Run(calls + 1, nested, real + Wait, Busy) /\ args' = Null
     ELSE /\ ~nested /\ args' = calls + 1
          /\ timeout' = IF timeout = Null THEN real + Wait ELSE timeout
          /\ UNCHANGED <<ranAt, ranArgs, early>>
  /\ UNCHANGED <<previous, excuse>> /\ Time

debounceLater_NoRearm(nested) ==
  /\ timeout # Null /\ real >= timeout
  /\ calls' = calls + (IF nested THEN 1 ELSE 0) /\ lastCall' = IF nested THEN real ELSE lastCall
  /\ excuse' = (excuse \/ now = timestamp)
  /\ IF how.leading THEN ~nested /\ timeout' = Null /\ UNCHANGED <<args, timestamp, ranAt, ranArgs, early>>
     ELSE /\ timestamp' = IF nested THEN now ELSE timestamp
          /\ Run(args, nested, IF nested THEN real + Wait ELSE Null, Busy) /\ Keep(args, nested)
  /\ UNCHANGED previous /\ Time

(* later of debounce: it waits again if there was a call meanwhile. *)
debounceLater(nested) ==
  LET past == now - timestamp IN
  /\ timeout # Null /\ real >= timeout
  /\ calls' = calls + (IF nested THEN 1 ELSE 0) /\ lastCall' = IF nested THEN real ELSE lastCall
  /\ excuse' = (excuse \/ past = 0)
  /\ IF past < Wait /\ past > 0
     THEN ~nested /\ timeout' = real + Wait - past /\ UNCHANGED <<args, timestamp, ranAt, ranArgs, early>>
     ELSE IF how.leading
     THEN ~nested /\ timeout' = Null /\ UNCHANGED <<args, timestamp, ranAt, ranArgs, early>>
     ELSE /\ timestamp' = IF nested THEN now ELSE timestamp
          /\ Run(args, nested, IF nested THEN real + Wait ELSE Null, Busy) /\ Keep(args, nested)
  /\ UNCHANGED previous /\ Time

-----------------------------------------------------------------------------
Call == \E nested \in BOOLEAN : IF how.kind = "throttle" THEN throttled(nested) ELSE debounced(nested)
Timeout == \E nested \in BOOLEAN : IF how.kind = "throttle" THEN throttleLater(nested) ELSE debounceLater(nested)

Rest == UNCHANGED <<how, timeout, previous, timestamp, args, calls, lastCall, ranAt, ranArgs, early>>
Tick == /\ real < 10 + MaxTime /\ real' = real + 1 /\ now' = now + 1
        /\ Rest /\ UNCHANGED excuse
SetClock == /\ now = real
            /\ \E j \in {0 - Jump, Jump} : now' = now + j
            /\ excuse' = TRUE /\ Rest /\ UNCHANGED real

Next == Call \/ Timeout \/ Tick \/ SetClock

Spec == Init /\ [][Next]_vars

-----------------------------------------------------------------------------
(* Not too often, and nothing lost: throttle lets Wait pass between two    *)
(* calls of the function and debounce is quiet for Wait before one (unless *)
(* Date.now is set, or a timeout comes in the millisecond of a call);      *)
(* the function never runs without arguments; and once no timeout is left, *)
(* it has run with those of the last call (if the trailing edge is wanted  *)
(* and debounce is not immediate).                                         *)
TimersExact ==
  /\ excuse \/ ~early
  /\ timeout # Null /\ ~(how.kind = "debounce" /\ how.leading) => args # Null
  /\ timeout = Null /\ how.trailing /\ ~(how.kind = "debounce" /\ how.leading) => ranArgs = calls
=============================================================================
