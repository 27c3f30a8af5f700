---------------------------- MODULE BackboneModel ----------------------------
(***************************************************************************)
(* One Backbone.Model (backbone-1.1.2.js): set and its change events, with *)
(* handlers that set again, and fetch, save and destroy with answers that  *)
(* arrive later.  The call stack is explicit: a frame is an activation     *)
(* with the steps it has still to do; in a frame with user = TRUE a        *)
(* handler runs, which may call the model.                                 *)
(*                                                                         *)
(* save with wait: true puts other attributes into the model while the     *)
(* request is built and takes them out again; no handler runs in between   *)
(* that touches the model, so the swap is left out.                        *)
(***************************************************************************)
EXTENDS Integers, Sequences, FiniteSets

CONSTANTS Attrs,       \* names of attributes, "id" is one
          Values,      \* their values
          Absent,      \* an attribute that is not there (undefined)
          Rejected,    \* what validate refuses
          MaxOps       \* calls of the API

VARIABLES attributes, _previousAttributes, changed, id,
          _changing, _pending,
          frames,      \* the call stack, top first
          requests,    \* requests that are not answered
          dirty,       \* history: a change that was not silent waits for a change event
          calls        \* calls made

vars == <<attributes, _previousAttributes, changed, id, _changing, _pending, frames, requests, dirty, calls>>

Hash == UNION {[S -> Values \cup {Absent}] : S \in SUBSET Attrs}   \* partial sets of attributes
Empty == [a \in {} |-> Absent]
All == [Attrs -> Values \cup {Absent}]

(* _.extend({}, attributes, attrs) *)
Extend(at, attrs) == [a \in DOMAIN at \cup DOMAIN attrs |->
                        IF a \in DOMAIN attrs THEN attrs[a] ELSE at[a]]

(* A model that was created without attributes. *)
Init == /\ attributes = [a \in Attrs |-> Absent] /\ _previousAttributes = attributes
        /\ changed = Empty /\ id = Absent
        /\ _changing = FALSE /\ _pending = FALSE
        /\ frames = <<>> /\ requests = {} /\ dirty = FALSE /\ calls = 0

Top == Head(frames)
User == <<"user">>
Goto(todo) == frames' = <<[Top EXCEPT !.todo = todo]>> \o Tail(frames)
Times(n, op) == [i \in 1..n |-> op]

(* _validate: only when asked to. *)
Invalid(attrs, opts) == opts.validate /\ Extend(attributes, attrs) \in Rejected

(* Mutant: only the outermost set asks for a change event. *)
ToNotify_OutermostOnly(opts, changes) == ~opts.silent /\ changes # {} /\ ~_changing

(* A set that is not silent and changes something asks for a change event. *)
ToNotify(opts, changes) == ~opts.silent /\ changes # {}

(* set(attrs, opts) as the next step of the top frame, rest its later ones. *)
set(attrs, opts, rest) ==
  IF Invalid(attrs, opts)
  THEN /\ Goto(<<User>>)                              \* "invalid", and false to the caller
       /\ UNCHANGED <<attributes, _previousAttributes, changed, id, _changing, _pending, dirty>>
  ELSE LET prev == IF _changing THEN _previousAttributes ELSE attributes
           old == IF _changing THEN changed ELSE Empty
           changes == {a \in DOMAIN attrs : attributes[a] # attrs[a]}
           differs == {a \in DOMAIN attrs : prev[a] # attrs[a]}
           keys == (DOMAIN old \ DOMAIN attrs) \cup differs
       IN /\ _changing' = TRUE
          /\ _previousAttributes' = prev
          /\ changed' = [a \in keys |-> IF a \in DOMAIN attrs THEN attrs[a] ELSE old[a]]
          /\ id' = IF "id" \in DOMAIN attrs THEN attrs["id"] ELSE id
          /\ attributes' = Extend(attributes, attrs)
          /\ _pending' = (_pending \/ ToNotify(opts, changes))
          /\ dirty' = (dirty \/ (~opts.silent /\ changes # {}))
          /\ Goto((IF opts.silent THEN <<>> ELSE Times(Cardinality(changes), User))
                  \o (IF _changing THEN <<>> ELSE << <<"flush", opts.silent>> >>) \o rest)

(* The loop at the end of the outermost set: change events as long as      *)
(* their handlers change something.                                        *)
flush(silent, rest) ==
  IF ~silent /\ _pending
  THEN /\ _pending' = FALSE /\ dirty' = FALSE
       /\ Goto(<<User, <<"flush", silent>> >> \o rest)
       /\ UNCHANGED _changing
  ELSE /\ _pending' = FALSE /\ _changing' = FALSE
       /\ Goto(rest)
       /\ UNCHANGED dirty

Data == <<attributes, _previousAttributes, changed, id, _changing, _pending, dirty>>

(* The top frame does its next step. *)
Set == /\ frames # <<>> /\ Top.todo # <<>> /\ Head(Top.todo)[1] = "set"
       /\ set(Head(Top.todo)[2], Head(Top.todo)[3], Tail(Top.todo))
       /\ UNCHANGED <<requests, calls>>

Flush == /\ frames # <<>> /\ Top.todo # <<>> /\ Head(Top.todo)[1] = "flush"
         /\ flush(Head(Top.todo)[2], Tail(Top.todo))
         /\ UNCHANGED <<attributes, _previousAttributes, changed, id, requests, calls>>

(* save: nothing is sent if the attributes would be invalid. *)
Validate == /\ frames # <<>> /\ Top.todo # <<>> /\ Head(Top.todo)[1] = "validate"
            /\ Goto(IF Invalid(Head(Top.todo)[2], [silent |-> FALSE, validate |-> TRUE])
                    THEN <<User>> ELSE Tail(Top.todo))
            /\ UNCHANGED <<Data, requests, calls>>

(* sync: the request goes out, then the event "request". *)
Sync == /\ frames # <<>> /\ Top.todo # <<>> /\ Head(Top.todo)[1] = "sync"
        /\ requests' = requests \cup {Head(Top.todo)[2]}
        /\ Goto(<<User>> \o Tail(Top.todo))
        /\ UNCHANGED <<Data, calls>>

(* A handler begins; a handler or an activation ends. *)
Handler == /\ frames # <<>> /\ Top.todo # <<>> /\ Head(Top.todo) = User
           /\ frames' = <<[todo |-> <<>>, user |-> TRUE], [Top EXCEPT !.todo = Tail(@)]>> \o Tail(frames)
           /\ UNCHANGED <<Data, requests, calls>>

Return == /\ frames # <<>> /\ Top.todo = <<>>
          /\ frames' = Tail(frames)
          /\ UNCHANGED <<Data, requests, calls>>

(* A script calls the model, from the event loop or from a handler. *)
Calls(todo) == /\ calls < MaxOps /\ calls' = calls + 1
               /\ \/ frames = <<>> /\ frames' = <<[todo |-> todo, user |-> FALSE]>>
                  \/ /\ frames # <<>> /\ Top.user /\ Top.todo = <<>>
                     /\ frames' = <<[Top EXCEPT !.todo = todo]>> \o Tail(frames)
               /\ UNCHANGED <<Data, requests>>

CallSet(attrs, opts) == Calls(<< <<"set", attrs, opts>> >>)

Loud == [silent |-> FALSE, validate |-> FALSE]

(* unset, clear *)
CallUnset(as) == Calls(<< <<"set", [a \in as |-> Absent], Loud>> >>)
CallClear == CallUnset({a \in Attrs : attributes[a] # Absent})

CallFetch == Calls(<< <<"sync", [kind |-> "fetch"]>> >>)

CallSave(attrs, wait) ==
  Calls(<<IF wait THEN <<"validate", attrs>> ELSE <<"set", attrs, [Loud EXCEPT !.validate = TRUE]>>,
          <<"sync", [kind |-> "save", wait |-> wait, attrs |-> attrs]>> >>)

isNew == attributes["id"] = Absent

(* destroy: at once for a new model, else a request, and the event unless  *)
(* it waits.                                                               *)
CallDestroy(wait) ==
  Calls(IF isNew THEN <<User>>
        ELSE << <<"sync", [kind |-> "destroy", wait |-> wait]>> >> \o (IF wait THEN <<>> ELSE <<User>>))

(* The server answers: the success function of fetch, save, destroy. *)
Success(r, resp) ==
  /\ frames = <<>> /\ r \in requests
  /\ requests' = requests \ {r}
  /\ frames' = <<[user |-> FALSE, todo |->
       CASE r.kind = "fetch" -> << <<"set", resp, Loud>>, User, User>>
         [] r.kind = "save" ->
              << <<"set", IF r.wait THEN Extend(r.attrs, resp) ELSE resp, [Loud EXCEPT !.validate = TRUE]>>,
                 User, User>>
         [] r.kind = "destroy" ->
              (IF r.wait \/ isNew THEN <<User>> ELSE <<>>) \o (IF isNew THEN <<>> ELSE <<User>>)]>>
  /\ UNCHANGED <<Data, calls>>

(* wrapError: the error callback and the event "error". *)
Error(r) == /\ frames = <<>> /\ r \in requests
            /\ requests' = requests \ {r}
            /\ frames' = <<[user |-> FALSE, todo |-> <<User, User>>]>>
            /\ UNCHANGED <<Data, calls>>

Next == \/ Set \/ Flush \/ Validate \/ Sync \/ Handler \/ Return
        \/ \E h \in Hash, s \in BOOLEAN : (\A a \in DOMAIN h : h[a] # Absent)
              /\ (CallSet(h, [silent |-> s, validate |-> FALSE]) \/ CallSave(h, s))
        \/ \E a \in Attrs : CallUnset({a})
        \/ CallClear \/ CallFetch
        \/ \E w \in BOOLEAN : CallDestroy(w)
        \/ \E r \in requests : Error(r) \/ \E h \in Hash : Success(r, h)

Spec == Init /\ [][Next]_vars

(* The model's books are right at every point where a handler can look:    *)
(* changed is the difference between the attributes and the previous ones, *)
(* id is the attribute id; and when all code has returned, every change    *)
(* that was not silent has been followed by a change event, and the model  *)
(* is ready for the next one.                                              *)
ChangeTracking ==
  /\ changed = [a \in {b \in Attrs : attributes[b] # _previousAttributes[b]} |-> attributes[a]]
  /\ id = attributes["id"]
  /\ frames = <<>> => ~dirty /\ ~_changing /\ ~_pending
=============================================================================
