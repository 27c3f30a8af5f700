----------------------------- MODULE JQueryAjax -----------------------------
(***************************************************************************)
(* jQuery.ajax and its XMLHttpRequest transport (jquery-2.1.4.js).  A      *)
(* request runs user code at many points (global event handlers,           *)
(* beforeSend, success, error, complete), and that code may start and      *)
(* abort requests: stack is the JavaScript call stack, one frame [r, at]   *)
(* per activation of ajax() or done(), top first, and at is the point      *)
(* whose user code is running.  The transport and the timer act from the   *)
(* event loop, when the stack is empty.                                    *)
(***************************************************************************)
EXTENDS Integers, Sequences, FiniteSets

CONSTANTS Requests,    \* the requests of one page
          MaxThrows    \* user callbacks that throw

VARIABLES stack,       \* the call stack
          state,       \* per request: Unused, or the closure variable state (0, 1, 2)
          opts,        \* its settings: global, timeout
          timer,       \* its timeoutTimer runs
          xhr,         \* the callback of its transport is set
          isSuccess,   \* what done() found out
          active,      \* jQuery.active
          busy,        \* history: ajaxStart was triggered last, not ajaxStop
          got,         \* history: the settings' callbacks each request called
          sent,        \* history: requests whose settings' callbacks were installed
          ended,       \* history: requests whose done() ran to its end
          lost,        \* history: requests whose done() or ajax() was cut short by a throw
          again,       \* history: requests that ajax() answers though they were aborted in ajaxSend
          twice        \* history: those that were counted down twice

vars == <<stack, state, opts, timer, xhr, isSuccess, active, busy, got, sent, ended, lost, again, twice>>

Unused == -1

Top == Head(stack)
At(r, p) == [r |-> r, at |-> p]
Replace(f) == <<f>> \o Tail(stack)

Init == /\ stack = <<>> /\ active = 0 /\ busy = FALSE /\ sent = {}
        /\ ended = {} /\ lost = {} /\ again = {} /\ twice = {}
        /\ state = [r \in Requests |-> Unused]
        /\ opts = [r \in Requests |-> [global |-> TRUE, timeout |-> FALSE]]
        /\ timer = [r \in Requests |-> FALSE] /\ xhr = [r \in Requests |-> FALSE]
        /\ isSuccess = [r \in Requests |-> FALSE]
        /\ got = [r \in Requests |-> <<>>]

(* ajax(): options, headers and the URL are set up, the request is counted, *)
(* and the first of a set of requests announces it.                         *)
ajax(r, o) ==
  /\ state[r] = Unused
  /\ state' = [state EXCEPT ![r] = 0]
  /\ opts' = [opts EXCEPT ![r] = o]
  /\ active' = IF o.global THEN active + 1 ELSE active
  /\ busy' = (busy \/ (o.global /\ active = 0))
  /\ stack' = <<At(r, IF o.global /\ active = 0 THEN "ajaxStart" ELSE "beforeSend")>> \o stack
  /\ UNCHANGED <<timer, xhr, isSuccess, got, sent, ended, lost, again, twice>>

Started == /\ stack # <<>> /\ Top.at = "ajaxStart"
           /\ stack' = Replace(At(Top.r, "beforeSend"))
           /\ UNCHANGED <<state, opts, timer, xhr, isSuccess, active, busy, got, sent, ended, lost, again, twice>>

(* The body of done(), up to its first point. *)
answer(r, ok, below) ==
  /\ state' = [state EXCEPT ![r] = 2]
  /\ timer' = [timer EXCEPT ![r] = FALSE]
  /\ isSuccess' = [isSuccess EXCEPT ![r] = ok]
  /\ stack' = <<At(r, "settle")>> \o below

(* Mutant: a late answer or a second abort settles the request again. *)
done_NotOnce(r, ok, below) == answer(r, ok, below)

(* done(): only while the request is not settled.  The frames below it are *)
(* below.                                                                  *)
done(r, ok, below) ==
  IF state[r] = 2
  THEN stack' = below /\ UNCHANGED <<state, timer, isSuccess>>
  ELSE answer(r, ok, below)

(* Mutant: a request that beforeSend cancels stays counted. *)
Cancel_NoAbort == /\ stack # <<>> /\ Top.at = "beforeSend"
                  /\ stack' = Tail(stack)
                  /\ UNCHANGED <<state, opts, timer, xhr, isSuccess, active, busy, got, sent, ended, lost, again, twice>>

(* beforeSend returned false, or aborted the request: ajax() gives up, and *)
(* the callbacks of the settings were never installed.                     *)
Cancel == /\ stack # <<>> /\ Top.at = "beforeSend"
          /\ done(Top.r, FALSE, Tail(stack))
          /\ UNCHANGED <<opts, xhr, active, busy, got, sent, ended, lost, again, twice>>

(* The callbacks are installed, and a global request announces that it is  *)
(* about to be sent.                                                       *)
AjaxSend == /\ stack # <<>> /\ Top.at = "beforeSend" /\ state[Top.r] # 2 /\ opts[Top.r].global
            /\ sent' = sent \cup {Top.r}
            /\ stack' = Replace(At(Top.r, "ajaxSend"))
            /\ UNCHANGED <<state, opts, timer, xhr, isSuccess, active, busy, got, ended, lost, again, twice>>

(* No user code is left between this point and the transport. *)
Ready == /\ stack # <<>>
         /\ \/ Top.at = "ajaxSend"
            \/ Top.at = "beforeSend" /\ state[Top.r] # 2 /\ ~opts[Top.r].global

(* The timer starts, the transport sends. *)
Send == /\ Ready /\ state[Top.r] # 2
        /\ state' = [state EXCEPT ![Top.r] = 1]
        /\ timer' = [timer EXCEPT ![Top.r] = opts[Top.r].timeout]
        /\ xhr' = [xhr EXCEPT ![Top.r] = TRUE]
        /\ sent' = sent \cup {Top.r}
        /\ stack' = Tail(stack)
        /\ UNCHANGED <<opts, isSuccess, active, busy, got, ended, lost, again, twice>>

(* Mutant: the exception is swallowed. *)
SendFails_Swallowed ==
  /\ Ready
  /\ sent' = sent \cup {Top.r}
  /\ stack' = Tail(stack)
  /\ UNCHANGED <<state, opts, timer, xhr, isSuccess, active, busy, got, ended, lost, again, twice>>

(* send() raised an exception: it becomes an error answer.  The state was  *)
(* set to 1 before the call, so a request that a handler of ajaxSend       *)
(* aborted, whose transport done() has dropped, is answered here again.    *)
SendFails == /\ Ready
             /\ sent' = sent \cup {Top.r}
             /\ again' = IF state[Top.r] = 2 THEN again \cup {Top.r} ELSE again
             /\ answer(Top.r, FALSE, Tail(stack))
             /\ UNCHANGED <<opts, xhr, active, busy, got, ended, lost, twice>>

(* A deferred of the request calls back, once, and only if ajax() got as   *)
(* far as to install the callbacks; kinds are the callbacks of the deferred. *)
Call(r, what, kinds) ==
  got' = IF r \in sent /\ \A i \in DOMAIN got[r] : got[r][i] \notin kinds
         THEN [got EXCEPT ![r] = Append(@, what)] ELSE got

(* done() goes from one point that runs user code to the next. *)
Settle == /\ stack # <<>> /\ Top.at = "settle"
          /\ Call(Top.r, IF isSuccess[Top.r] THEN "success" ELSE "error", {"success", "error"})
          /\ stack' = Replace(At(Top.r, "settled"))
          /\ UNCHANGED <<state, opts, timer, xhr, isSuccess, active, busy, sent, ended, lost, again, twice>>

Complete == /\ stack # <<>> /\ Top.at = "settled"
            /\ Call(Top.r, "complete", {"complete"})
            /\ stack' = Replace(At(Top.r, "completed"))
            /\ UNCHANGED <<state, opts, timer, xhr, isSuccess, active, busy, sent, ended, lost, again, twice>>

(* The end of done(): the last request of a set announces it. *)
Uncount == /\ stack # <<>> /\ Top.at = "completed"
           /\ active' = IF opts[Top.r].global THEN active - 1 ELSE active
           /\ busy' = (busy /\ ~(opts[Top.r].global /\ active' = 0))
           /\ stack' = IF opts[Top.r].global /\ active' = 0
                       THEN Replace(At(Top.r, "ajaxStop")) ELSE Tail(stack)
           /\ ended' = ended \cup {Top.r}
           /\ twice' = IF Top.r \in again THEN twice \cup {Top.r} ELSE twice
           /\ UNCHANGED <<state, opts, timer, xhr, isSuccess, got, sent, lost, again>>

Stopped == /\ stack # <<>> /\ Top.at = "ajaxStop"
           /\ stack' = Tail(stack)
           /\ UNCHANGED <<state, opts, timer, xhr, isSuccess, active, busy, got, sent, ended, lost, again, twice>>

(* abort(): the transport forgets its callbacks, then done(). *)
abort(r, below) ==
  /\ xhr' = [xhr EXCEPT ![r] = FALSE]
  /\ done(r, FALSE, below)

(* User code: at a point of the top frame, or started by the event loop.   *)
(* It has the jqXHR of a request from beforeSend on.                       *)
Script == \/ \E r \in Requests, g, t \in BOOLEAN : ajax(r, [global |-> g, timeout |-> t])
          \/ \E r \in Requests :
               /\ state[r] \in {0, 1, 2}
               /\ \A i \in DOMAIN stack : stack[i] # At(r, "ajaxStart")
               /\ abort(r, stack)
               /\ lost' = IF state[r] = 2 THEN lost ELSE lost \ {r}
               /\ UNCHANGED <<opts, active, busy, got, sent, ended, again, twice>>

(* User code throws: every activation on the stack is left where it is. *)
Throw == /\ stack # <<>> /\ Top.at # "settle" /\ Cardinality(lost) < MaxThrows
         /\ lost' = lost \cup ({stack[i].r : i \in DOMAIN stack} \ ended)
         /\ stack' = <<>>
         /\ UNCHANGED <<state, opts, timer, xhr, isSuccess, active, busy, got, sent, ended, again, twice>>

(* onload and onerror of the transport; what done() makes of the status:   *)
(* 2xx and 304 are successes unless the text cannot be converted.          *)
Answers == {"ok", "notmodified", "nocontent", "parsererror", "http error", "network error"}
Answer(r, a) == /\ stack = <<>> /\ xhr[r]
                /\ xhr' = [xhr EXCEPT ![r] = FALSE]
                /\ done(r, a \in {"ok", "notmodified", "nocontent"}, <<>>)
                /\ UNCHANGED <<opts, active, busy, got, sent, ended, lost, again, twice>>

Timeout(r) == /\ stack = <<>> /\ timer[r]
              /\ abort(r, <<>>)
              /\ UNCHANGED <<opts, active, busy, got, sent, ended, lost, again, twice>>

Running == Started \/ Cancel \/ AjaxSend \/ Send \/ SendFails \/ Settle \/ Complete \/ Uncount \/ Stopped

Next == \/ Running \/ Script \/ Throw
        \/ \E r \in Requests : Timeout(r) \/ \E a \in Answers : Answer(r, a)

(* The engine runs the code on the stack to its end, and the server        *)
(* answers a request it got, or the connection fails.                      *)
Fairness == /\ WF_vars(Running)
            /\ \A r \in Requests : WF_vars(\E a \in Answers : Answer(r, a))

Spec == Init /\ [][Next]_vars /\ Fairness

-----------------------------------------------------------------------------
InFlight == {r \in Requests : xhr[r]}

(* When no code runs, ajaxStart and ajaxStop bracket the requests in       *)
(* flight: jQuery.active counts them and the ones a throw left uncounted.  *)
(* Only a request that a handler of ajaxSend aborted is counted down twice, *)
(* and leaves the count one too low, and the bracket broken, for good.     *)
Bracket ==
  stack = <<>> =>
    LET on == {r \in InFlight \cup lost : opts[r].global}
    IN /\ active = Cardinality(on) - Cardinality(twice)
       /\ twice = {} => (busy <=> on # {})

(* A request calls success or error once, then complete once, whatever     *)
(* aborts, timeouts and late answers race for it; one that was cancelled   *)
(* before it was sent calls nothing; and one that is settled has given up  *)
(* its timer and its transport.                                            *)
OneAnswer ==
  \A r \in Requests \ lost :
    /\ got[r] \in {<<>>, <<"success">>, <<"error">>, <<"success", "complete">>, <<"error", "complete">>}
    /\ state[r] = 2 => ~timer[r] /\ ~xhr[r]
    /\ stack = <<>> /\ state[r] = 2 =>
         Len(got[r]) = IF r \in sent THEN 2 ELSE 0

(* Every request that was sent is answered in the end. *)
Answered == \A r \in Requests : (r \in sent) ~> (r \in lost \/ Len(got[r]) = 2)
=============================================================================
