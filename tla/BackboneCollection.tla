------------------------- MODULE BackboneCollection -------------------------
(***************************************************************************)
(* One Backbone.Collection (backbone-1.1.2.js): its list of models, the    *)
(* index _byId and the ties to the models, under add, set, remove, reset,  *)
(* fetch, create, changes of ids and destroyed models.                     *)
(*                                                                         *)
(* The structure is changed before the events add, sort and reset fire, so *)
(* what their handlers do is a later call.  remove fires inside its loop:  *)
(* removing is the stack of the remove calls whose handlers are running,   *)
(* and handlers may call the collection, except to add the model that is   *)
(* being removed.  While set removes or merges models, handlers leave the  *)
(* collection alone; ids do not change silently, and not to taken ones.    *)
(***************************************************************************)
EXTENDS Integers, Sequences, FiniteSets, SequencesExt

CONSTANTS Models,      \* model objects
          Ids,         \* ids of models; NoId is a new model
          NoId,
          MaxOps

VARIABLES comparator,  \* models are sorted by id
          models,      \* the list
          length,
          _byId,       \* set of <<key, model>>, key = <<"cid", m>> or <<"id", i>>
          id,          \* per model: its id
          listeners,   \* per model: how often _onModelEvent is bound to it
          collection,  \* per model: model.collection is this one
          removing,    \* the remove calls that run handlers, innermost first
          requests,    \* fetches not answered: TRUE if with reset
          doubled,     \* history: set has met a new model twice in a list that it orders by
          ops

vars == <<comparator, models, length, _byId, id, listeners, collection, removing, requests, doubled, ops>>

Init == /\ comparator \in BOOLEAN
        /\ models = <<>> /\ length = 0 /\ _byId = {} /\ removing = <<>> /\ requests = {} /\ doubled = FALSE /\ ops = 0
        /\ id \in [Models -> Ids \cup {NoId}]
        /\ listeners = [m \in Models |-> 0]
        /\ collection = [m \in Models |-> FALSE]

(* The state as a record, so that the operations can be composed. *)
State == [models |-> models, length |-> length, byId |-> _byId,
          listeners |-> listeners, collection |-> collection]
Becomes(s) == /\ models' = s.models /\ length' = s.length /\ _byId' = s.byId
              /\ listeners' = s.listeners /\ collection' = s.collection

Keys(m) == {<<"cid", m>>} \cup (IF id[m] = NoId THEN {} ELSE {<<"id", id[m]>>})

(* get: by id first, then by cid.  {} or the model found. *)
get(s, m) == LET by(k) == {e[2] : e \in {x \in s.byId : x[1] = k}}
             IN IF id[m] # NoId /\ by(<<"id", id[m]>>) # {} THEN by(<<"id", id[m]>>)
                ELSE by(<<"cid", m>>)

Put(index, keys, m) == {e \in index : e[1] \notin keys} \cup {<<k, m>> : k \in keys}

_addReference(s, m) ==
  [s EXCEPT !.byId = Put(@, Keys(m), m), !.collection[m] = TRUE, !.listeners[m] = @ + 1]

_removeReference(s, m) == [s EXCEPT !.collection[m] = FALSE, !.listeners[m] = 0]

(* One round of remove, down to its event. *)
Unlink(s, m) == [s EXCEPT !.byId = {e \in @ : e[1] \notin Keys(m)},
                          !.models = Remove(@, m), !.length = @ - 1]

(* remove() with handlers that leave the collection alone. *)
removeAll(s, ms) == FoldLeft(LAMBDA t, m : _removeReference(Unlink(t, m), m), s, ms)

Sorted(ms) == LET rank(m) == IF id[m] = NoId THEN 99 ELSE id[m]
              IN SortSeq(ms, LAMBDA x, y : rank(x) < rank(y))

(* The first loop of set: w is the state, what to add, the order of the    *)
(* new list, and the models that stay.                                     *)
Step(w, m, add) ==
  LET found == get(w.s, m) IN
  IF found # {}
  THEN LET e == CHOOSE x \in found : TRUE IN
       [w EXCEPT !.stay = @ \cup {e},
                 !.order = IF id[e] = NoId \/ id[e] \notin w.seen THEN Append(@, e) ELSE @,
                 !.seen = @ \cup {id[e]}]
  ELSE IF ~add THEN w
  ELSE [w EXCEPT !.s = _addReference(@, m), !.toAdd = Append(@, m),
                 !.order = IF id[m] = NoId \/ id[m] \notin w.seen THEN Append(@, m) ELSE @,
                 !.seen = @ \cup {id[m]}]

(* Mutant: models that are not in the new list stay in the index. *)
set_KeepsIndex(s, ms, o) ==
  LET w == FoldLeft(LAMBDA v, m : Step(v, m, o.add),
                    [s |-> s, toAdd |-> <<>>, order |-> <<>>, stay |-> {}, seen |-> {}], ms)
      gone == IF o.remove THEN SelectSeq(s.models, LAMBDA m : m \notin w.stay) ELSE <<>>
      t == [w.s EXCEPT !.models = SelectSeq(@, LAMBDA m : ~Contains(gone, m)), !.length = @ - Len(gone)]
  IN [t EXCEPT !.length = @ + Len(w.toAdd), !.models = @ \o w.toAdd]

(* set(ms, o): o.at is 0 (none) or a position. *)
set(s, ms, o) ==
  LET sortable == comparator /\ o.at = 0
      w == FoldLeft(LAMBDA v, m : Step(v, m, o.add),
                    [s |-> s, toAdd |-> <<>>, order |-> <<>>, stay |-> {}, seen |-> {}], ms)
      gone == IF o.remove THEN SelectSeq(s.models, LAMBDA m : m \notin w.stay) ELSE <<>>
      t == removeAll(w.s, gone)
      ordered == ~sortable /\ o.add /\ o.remove
      grown == IF w.toAdd = <<>> /\ ~(ordered /\ w.order # <<>>) THEN t
               ELSE [t EXCEPT !.length = @ + Len(w.toAdd),
                              !.models = IF o.at # 0
                                         THEN SubSeq(@, 1, o.at - 1) \o w.toAdd \o SubSeq(@, o.at, Len(@))
                                         ELSE IF ordered THEN w.order ELSE @ \o w.toAdd]
  IN IF sortable /\ w.toAdd # <<>> THEN [grown EXCEPT !.models = Sorted(@)] ELSE grown

Cleared == [models |-> <<>>, length |-> 0, byId |-> {}, listeners |-> listeners, collection |-> collection]

(* reset: the ties are cut, then add. *)
reset(ms) == set(FoldLeft(_removeReference, Cleared, models), ms, [add |-> TRUE, remove |-> FALSE, at |-> 0])

Busy == {removing[i].m : i \in DOMAIN removing}   \* models being removed
Script == ops < MaxOps /\ ops' = ops + 1
Rest == UNCHANGED <<comparator, id>>

(* Bound: only a list of two has a model twice. *)
Lists == {s \in UNION {[1..n -> Models] : n \in 0..Cardinality(Models)} : IsInjective(s) \/ Len(s) = 2}

(* A new model that is twice in a list is twice in the order of set, but   *)
(* once in what it adds.                                                   *)
Doubles(ms, o) == /\ o.add /\ o.remove /\ ~(comparator /\ o.at = 0)
                  /\ \E i, j \in DOMAIN ms : i # j /\ ms[i] = ms[j] /\ id[ms[i]] = NoId

(* set, add, push, unshift; create without wait adds too. *)
CallSet(ms, o) == /\ Script /\ Range(ms) \cap Busy = {}
                  /\ o.at <= Len(models) + 1
                  /\ Becomes(set(State, ms, o))
                  /\ doubled' = Doubles(ms, o)
                  /\ Rest /\ UNCHANGED <<removing, requests>>

CallReset(ms) == /\ Script /\ Range(ms) \cap Busy = {}
                 /\ Becomes(reset(ms))
                 /\ Rest /\ UNCHANGED <<removing, requests, doubled>>

(* remove: the list is a copy; a model is looked up when its turn comes. *)
CallRemove(ms) == /\ Script
                  /\ removing' = <<[todo |-> ms, m |-> NoId]>> \o removing
                  /\ Rest /\ UNCHANGED <<models, length, _byId, listeners, collection, requests, doubled>>

Frame == Head(removing)

Idle == removing # <<>> => Frame.m # NoId   \* handlers or the event loop run

RemoveNext ==
  /\ removing # <<>> /\ Frame.m = NoId /\ Frame.todo # <<>>
  /\ LET found == get(State, Head(Frame.todo)) IN
     IF found = {} THEN /\ removing' = <<[Frame EXCEPT !.todo = Tail(@)]>> \o Tail(removing)
                        /\ UNCHANGED <<models, length, _byId, listeners, collection>>
     ELSE LET m == CHOOSE x \in found : TRUE IN
          /\ Becomes(Unlink(State, m))
          /\ removing' = <<[todo |-> Tail(Frame.todo), m |-> m]>> \o Tail(removing)
  /\ Rest /\ UNCHANGED <<requests, doubled, ops>>

RemoveReturn ==
  /\ removing # <<>> /\ Frame.m # NoId
  /\ Becomes(_removeReference(State, Frame.m))
  /\ removing' = <<[Frame EXCEPT !.m = NoId]>> \o Tail(removing)
  /\ Rest /\ UNCHANGED <<requests, doubled, ops>>

RemoveEnd == /\ removing # <<>> /\ Frame.m = NoId /\ Frame.todo = <<>>
             /\ removing' = Tail(removing)
             /\ Rest /\ UNCHANGED <<models, length, _byId, listeners, collection, requests, doubled, ops>>

(* _onModelEvent: change:id, if the collection listens to the model. *)
ChangeId(m, i) ==
  /\ Script /\ i # id[m] /\ m \notin Busy
  /\ i # NoId => \A x \in Models : id[x] # i
  /\ id' = [id EXCEPT ![m] = i]
  /\ _byId' = IF listeners[m] = 0 THEN _byId
              ELSE Put({e \in _byId : e[1] # <<"id", id[m]>>},
                       IF i = NoId THEN {} ELSE {<<"id", i>>}, m)
  /\ UNCHANGED <<comparator, models, length, listeners, collection, removing, requests, doubled>>

(* _onModelEvent: destroy. *)
Destroy(m) == listeners[m] > 0 /\ m \notin Busy /\ CallRemove(<<m>>)

(* fetch, and its answer; the models are made of the data, so that one     *)
(* without an id is another one.                                           *)
Fetch(r) == /\ Script /\ requests' = requests \cup {r}
            /\ Rest /\ UNCHANGED <<models, length, _byId, listeners, collection, removing, doubled>>

Success(r, ms) == /\ removing = <<>> /\ r \in requests
                  /\ \A i \in DOMAIN ms : id[ms[i]] = NoId =>
                       ms[i] \notin Range(models) /\ \A j \in DOMAIN ms : ms[j] = ms[i] => i = j
                  /\ requests' = requests \ {r}
                  /\ Becomes(IF r THEN reset(ms) ELSE set(State, ms, [add |-> TRUE, remove |-> TRUE, at |-> 0]))
                  /\ Rest /\ UNCHANGED <<removing, doubled, ops>>

(* After a list was doubled, what is called is not modelled. *)
Next == /\ ~doubled
        /\ \/ /\ Idle
              /\ \/ \E ms \in Lists, add, rem \in BOOLEAN, at \in 0..2 :
                      (rem => at = 0) /\ CallSet(ms, [add |-> add, remove |-> rem, at |-> at])
                 \/ \E ms \in Lists : CallReset(ms) \/ CallRemove(ms)
                 \/ \E m \in Models : Destroy(m) \/ \E i \in Ids \cup {NoId} : ChangeId(m, i)
                 \/ \E r \in BOOLEAN : Fetch(r)
           \/ \E r \in requests, ms \in Lists : Success(r, ms)
           \/ RemoveNext \/ RemoveReturn \/ RemoveEnd

Spec == Init /\ [][Next]_vars

(* The list, its length, the index and the ties to the models agree: each  *)
(* model is in the list once, can be found by its cid and by its id and    *)
(* not otherwise, and is listened to once.  (A model that is being removed *)
(* keeps its ties until its handlers have returned.  If set meets a new    *)
(* model twice in one list, the list has it twice, and length counts it    *)
(* once.)                                                                  *)
Indexed ==
  /\ length = Cardinality(Range(models)) /\ (doubled \/ IsInjective(models))
  /\ _byId = UNION {{<<k, m>> : k \in Keys(m)} : m \in Range(models)}
  /\ \A m \in Models : listeners[m] = IF m \in Range(models) \cup Busy THEN 1 ELSE 0
=============================================================================
