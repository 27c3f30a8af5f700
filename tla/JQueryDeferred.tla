--------------------------- MODULE JQueryDeferred ---------------------------
(***************************************************************************)
(* jQuery.Deferred, then, always and jQuery.when (jquery-2.1.4.js), with   *)
(* scripts that call them from the event loop and from callbacks.  The     *)
(* JavaScript call stack is explicit: a "fire" frame is the loop of a      *)
(* callback list, a "code" frame a running function with the calls it has  *)
(* still to make.                                                          *)
(***************************************************************************)
EXTENDS JQueryCallbacks, FiniteSets

CONSTANTS Roots,      \* deferreds that scripts create and settle
          Derived,    \* deferreds that then and when create
          Users,      \* user callbacks
          Values,     \* values scripts settle with
          Results,    \* values that handlers of then return, among Values
          NoFn,       \* a handler that was not passed to then
          MaxCalls    \* API calls in one behaviour

VARIABLES state,      \* the closure variable state of every deferred
          lists,      \* its three callback lists
          frames,     \* the call stack, top first
          calls,      \* API calls made
          links,      \* the uses of then and when
          left,       \* when: the counter remaining
          values,     \* when: resolveValues
          ran         \* history: the user callbacks that ran, each with its value

vars == <<state, lists, frames, calls, links, left, values, ran>>

D == Roots \cup Derived
ListNames == {"done", "fail", "progress"}
Final == [done |-> "resolved", fail |-> "rejected"]
Other == [done |-> "fail", fail |-> "done"]

(* Mutant: settling one way leaves the other way open. *)
Deferred_NotExclusive(d) ==
  [l \in ListNames |->
     IF l = "progress" THEN New({"memory"})
     ELSE add(New({"once", "memory"}),
              << <<"op", <<"state", d, Final[l]>> >>, <<"op", <<"lock", d, "progress">> >> >>)]

(* jQuery.Deferred(): the settling lists begin with the functions that set *)
(* the state, disable the other list and lock the progress list.           *)
Deferred(d) ==
  [l \in ListNames |->
     IF l = "progress" THEN New({"memory"})
     ELSE add(New({"once", "memory"}),
              << <<"op", <<"state", d, Final[l]>> >>,
                 <<"op", <<"disable", d, Other[l]>> >>,
                 <<"op", <<"lock", d, "progress">> >> >>)]

Init == /\ state = [d \in D |-> "pending"]
        /\ lists = [d \in D |-> Deferred(d)]
        /\ frames = <<>> /\ calls = 0 /\ links = <<>> /\ ran = <<>>
        /\ left = [d \in Derived |-> 0] /\ values = [d \in Derived |-> <<>>]

Top == Head(frames)
Code(todo) == [kind |-> "code", todo |-> todo, user |-> FALSE]
Loop(d, l) == [kind |-> "fire", d |-> d, l |-> l]

(* The calls a callback makes when a list calls it with the value v: the   *)
(* functions built by Deferred, by then (line 3255) and by when (3332).    *)
Body(cb, v) ==
  CASE cb[1] = "op"      -> <<cb[2]>>
    [] cb[1] = "forward" -> << <<"fire", cb[2], cb[3], v>> >>
    [] cb[1] = "update"  -> << <<"count", cb[2], cb[3], v>> >>
    [] cb[1] = "then" /\ cb[4] \in D ->
         << <<"add", cb[4], "done", <<"forward", cb[2], "done">> >>,
            <<"add", cb[4], "fail", <<"forward", cb[2], "fail">> >>,
            <<"add", cb[4], "progress", <<"forward", cb[2], "progress">> >> >>
    [] cb[1] = "then" /\ cb[4] \notin D ->
         << <<"fire", cb[2], cb[3], IF cb[4] = NoFn THEN v ELSE cb[4]>> >>
    [] cb[1] = "user"    -> <<>>

(* An operation on a list; if it makes the list fire, the loop runs before *)
(* the caller goes on.                                                     *)
OnList(d, l, c, rest) ==
  /\ lists' = [lists EXCEPT ![d][l] = c]
  /\ frames' = IF c.firing /\ ~lists[d][l].firing
               THEN <<Loop(d, l)>> \o rest ELSE rest

(* The function on top of the stack makes its next call. *)
Do ==
  /\ frames # <<>> /\ Top.kind = "code" /\ Top.todo # <<>>
  /\ LET op == Head(Top.todo)
         d == op[2]
         rest == <<[Top EXCEPT !.todo = Tail(@)]>> \o Tail(frames)
         c == lists[d][op[3]]
     IN \/ /\ op[1] = "state"
           /\ state' = [state EXCEPT ![d] = op[3]]
           /\ frames' = rest
           /\ UNCHANGED <<lists, left, values>>
        \/ /\ op[1] = "disable" /\ OnList(d, op[3], disable(c), rest)
           /\ UNCHANGED <<state, left, values>>
        \/ /\ op[1] = "lock" /\ OnList(d, op[3], lock(c), rest)
           /\ UNCHANGED <<state, left, values>>
        \/ /\ op[1] = "add" /\ OnList(d, op[3], add(c, <<op[4]>>), rest)
           /\ UNCHANGED <<state, left, values>>
        \/ /\ op[1] = "fire" /\ OnList(d, op[3], fireWith(c, op[4]), rest)
           /\ UNCHANGED <<state, left, values>>
        \/ /\ op[1] = "count"
           /\ values' = [values EXCEPT ![d][op[3]] = op[4]]
           /\ left' = [left EXCEPT ![d] = @ - 1]
           /\ frames' = IF left'[d] # 0 THEN rest
                        ELSE <<Code(<< <<"fire", d, "done", values'[d]>> >>)>> \o rest
           /\ UNCHANGED <<state, lists>>
  /\ UNCHANGED <<calls, links, ran>>

(* A function returns; the loop that called it moves on. *)
Return ==
  /\ frames # <<>> /\ Top.kind = "code" /\ Top.todo = <<>>
  /\ frames' = Tail(frames)
  /\ lists' = IF Len(frames) > 1 /\ frames[2].kind = "fire"
              THEN [lists EXCEPT ![frames[2].d][frames[2].l] = Returned(@, FALSE)]
              ELSE lists
  /\ UNCHANGED <<state, calls, links, left, values, ran>>

(* The loop of fire calls the next callback, or ends. *)
Fired ==
  /\ frames # <<>> /\ Top.kind = "fire"
  /\ LET c == lists[Top.d][Top.l] IN
     IF HasNext(c)
     THEN /\ frames' = <<[Code(Body(Callee(c), c.cur)) EXCEPT !.user = (Callee(c)[1] = "user")]>>
                       \o frames
          /\ ran' = IF Callee(c)[1] = "user" THEN Append(ran, <<Callee(c), c.cur>>) ELSE ran
          /\ UNCHANGED lists
     ELSE /\ lists' = [lists EXCEPT ![Top.d][Top.l] = EndFire(c)]
          /\ frames' = IF EndFire(c).firing THEN frames ELSE Tail(frames)
          /\ UNCHANGED ran
  /\ UNCHANGED <<state, calls, links, left, values>>

(* A script makes an API call: from the event loop or from a user callback. *)
Calls(todo) ==
  /\ calls < MaxCalls /\ calls' = calls + 1
  /\ \/ frames = <<>> /\ frames' = <<Code(todo)>>
     \/ /\ frames # <<>> /\ Top.kind = "code" /\ Top.user /\ Top.todo = <<>>
        /\ frames' = <<[Top EXCEPT !.todo = todo]>> \o Tail(frames)
  /\ UNCHANGED <<state, lists, ran>>

(* resolve, reject, notify *)
Settle(d, l, v) == /\ d \in Roots
                   /\ Calls(<< <<"fire", d, l, v>> >>)
                   /\ UNCHANGED <<links, left, values>>

(* done, fail; always is both *)
Register(d, ls, u) ==
  /\ \A i \in DOMAIN ran : ran[i][1][2] # u
  /\ \A e \in D, l \in ListNames : ~has(lists[e][l], <<"user", u>>)
  /\ Calls([i \in DOMAIN ls |-> <<"add", d, ls[i], <<"user", u>> >>])
  /\ UNCHANGED <<links, left, values>>

Unused(n) == \A i \in DOMAIN links : links[i].n # n

(* then(fnDone, fnFail): a new deferred, and one forwarder per list. *)
Then(d, n, fd, ff) ==
  /\ Unused(n)
  /\ links' = Append(links, [n |-> n, how |-> "then", d |-> d, fd |-> fd, ff |-> ff])
  /\ Calls(<< <<"add", d, "done", <<"then", n, "done", fd>> >>,
              <<"add", d, "fail", <<"then", n, "fail", ff>> >>,
              <<"add", d, "progress", <<"then", n, "progress", NoFn>> >> >>)
  /\ UNCHANGED <<left, values>>

(* Mutant: the master does not listen to the failure of its last part. *)
When_LastFailureLost(d, e, n) ==
  /\ Unused(n)
  /\ links' = Append(links, [n |-> n, how |-> "when", d |-> d, e |-> e])
  /\ left' = [left EXCEPT ![n] = 2]
  /\ values' = [values EXCEPT ![n] = <<d, e>>]
  /\ Calls(<< <<"add", d, "done", <<"update", n, 1>> >>,
              <<"add", d, "fail", <<"forward", n, "fail">> >>,
              <<"add", d, "progress", <<"forward", n, "progress">> >>,
              <<"add", e, "done", <<"update", n, 2>> >>,
              <<"add", e, "progress", <<"forward", n, "progress">> >> >>)

(* when(d, e): the master listens to both. *)
When(d, e, n) ==
  /\ Unused(n)
  /\ links' = Append(links, [n |-> n, how |-> "when", d |-> d, e |-> e])
  /\ left' = [left EXCEPT ![n] = 2]
  /\ values' = [values EXCEPT ![n] = <<d, e>>]
  /\ Calls(<< <<"add", d, "done", <<"update", n, 1>> >>,
              <<"add", d, "fail", <<"forward", n, "fail">> >>,
              <<"add", d, "progress", <<"forward", n, "progress">> >>,
              <<"add", e, "done", <<"update", n, 2>> >>,
              <<"add", e, "fail", <<"forward", n, "fail">> >>,
              <<"add", e, "progress", <<"forward", n, "progress">> >> >>)

Handlers == {NoFn} \cup Results \cup Roots

Script == \/ \E d \in D, l \in ListNames, v \in Values : Settle(d, l, v)
          \/ \E d \in D, u \in Users, ls \in {<<"done">>, <<"fail">>, <<"done", "fail">>} :
               Register(d, ls, u)
          \/ \E d \in D, n \in Derived, fd \in Handlers, ff \in {NoFn} \cup Results :
               (d \in Derived => ~Unused(d)) /\ d # n /\ Then(d, n, fd, ff)
          \/ \E d, e \in Roots, n \in Derived : When(d, e, n)

Next == Do \/ Return \/ Fired \/ Script

Spec == Init /\ [][Next]_vars

-----------------------------------------------------------------------------
(* The promises the deferreds implement. *)
Outcome(d) == IF state[d] = "pending" THEN NoData
              ELSE LET l == IF state[d] = "resolved" THEN "done" ELSE "fail"
                   IN <<l, lists[d][l].memory>>

(* The user callbacks that a list has still to call. *)
InCall(d, l) == \E i \in 2..Len(frames) : frames[i] = Loop(d, l)
Waiting(d, l) ==
  LET c == lists[d][l]
      from == IF c.firing THEN c.index + (IF InCall(d, l) THEN 1 ELSE 0) ELSE 1
  IN IF state[d] \in {"pending", Final[l]} /\ c.on
     THEN SelectSeq(SubSeq(c.list, from, Len(c.list)), LAMBDA cb : cb[1] = "user")
     ELSE <<>>

P == INSTANCE Promises WITH
       Promise <- D, Pending <- NoData, ran <- ran,
       Value <- Values \cup (Values \X Values), Callback <- {"user"} \X Users,
       outcome <- [d \in D |-> Outcome(d)],
       waiting <- [d \in D |-> [w \in {"done", "fail"} |-> Waiting(d, w)]]

(* Deferreds keep the promises' contract under every reentrant use: each   *)
(* step of their lists is a step of Promises, or none.                     *)
IsPromise == P!Spec

(* When no script runs, a promise made by then has followed the one it was *)
(* derived from, and one made by when is settled as soon as its parts      *)
(* decide it (jquery-2.1.4.js:3247, 3317).                                 *)
Follows(k) ==
  LET dst == Outcome(k.n)
      src == Outcome(k.d)
  IN IF k.how = "when"
     THEN LET parts == {src, Outcome(k.e)} IN
          /\ (\E p \in parts : p # NoData /\ p[1] = "fail") => dst # NoData /\ dst \in parts
          /\ NoData \in parts /\ ~(\E p \in parts : p # NoData /\ p[1] = "fail") => dst = NoData
          /\ src # NoData /\ src[1] = "done" /\ Outcome(k.e) # NoData /\ Outcome(k.e)[1] = "done"
               => dst = <<"done", <<src[2], Outcome(k.e)[2]>> >>
     ELSE IF src = NoData THEN dst = NoData
     ELSE LET fn == IF src[1] = "done" THEN k.fd ELSE k.ff IN
          dst = IF fn \in D THEN Outcome(fn)
                ELSE IF fn = NoFn THEN src ELSE <<src[1], fn>>
Derivation == frames = <<>> => \A i \in DOMAIN links : Follows(links[i])
=============================================================================
