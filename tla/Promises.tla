------------------------------ MODULE Promises ------------------------------
(***************************************************************************)
(* What a set of promises owes its users: a promise is settled once, by    *)
(* one value; a callback runs at most once, only after its promise was     *)
(* settled its way, with that value, in the order of registration.         *)
(***************************************************************************)
EXTENDS Sequences

CONSTANTS Promise,   \* the promises
          Value,     \* what they are settled with
          Callback,  \* what users register
          Pending    \* the outcome of a promise that is not settled

VARIABLES outcome,   \* per promise: Pending, or the list that runs and the value
          waiting,   \* per promise and list ("done", "fail"): callbacks to run
          ran        \* the callbacks that ran, each with the value it got

vars == <<outcome, waiting, ran>>

Ways == {"done", "fail"}

Init == /\ outcome = [p \in Promise |-> Pending]
        /\ waiting = [p \in Promise |-> [w \in Ways |-> <<>>]]
        /\ ran = <<>>

(* Settling drops the callbacks of the other list. *)
Settle(p, w, v) ==
  /\ outcome[p] = Pending
  /\ outcome' = [outcome EXCEPT ![p] = <<w, v>>]
  /\ waiting' = [waiting EXCEPT ![p] = [x \in Ways |-> IF x = w THEN @[x] ELSE <<>>]]
  /\ UNCHANGED ran

Register(p, w, cb) ==
  /\ outcome[p] = Pending \/ outcome[p][1] = w
  /\ waiting' = [waiting EXCEPT ![p][w] = Append(@, cb)]
  /\ UNCHANGED <<outcome, ran>>

Run(p, w) == /\ outcome[p] # Pending /\ outcome[p][1] = w
             /\ waiting[p][w] # <<>>
             /\ ran' = Append(ran, <<Head(waiting[p][w]), outcome[p][2]>>)
             /\ waiting' = [waiting EXCEPT ![p][w] = Tail(@)]
             /\ UNCHANGED outcome

Next == \E p \in Promise, w \in Ways : \/ \E v \in Value : Settle(p, w, v)
                                       \/ \E cb \in Callback : Register(p, w, cb)
                                       \/ Run(p, w)

Spec == Init /\ [][Next]_vars
=============================================================================
