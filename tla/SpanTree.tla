------------------------------ MODULE SpanTree ------------------------------
(***************************************************************************)
(* The results of a search on the page: the spans with the parents and     *)
(* children fetched for them ("reified"), the rows of the canvas, the      *)
(* selection and the range of time shown (span.js, tree.js,                *)
(* span_group_widget.js, span_widget.js, search_results_view.js).          *)
(*                                                                         *)
(* A span model is known by its index in nodes; every answer of the server *)
(* makes new models, so that one span of the server may have several.      *)
(***************************************************************************)
EXTENDS Integers, Sequences, FiniteSets, FiniteSetsExt, SequencesExt

CONSTANTS Ids,          \* the spans of the server
          Found,        \* what searches find: sequences of ids
          ParentsOf,    \* [Ids -> sequence of ids]: the parents in a span
          ChildrenOf,   \* [Ids -> sequence of ids]: what the children query returns
          Begin, End,   \* [Ids -> time]
          Times,        \* what the user enters as a time
          MINIMUM_TIME_SPAN,
          MaxNodes,     \* bound: models
          MaxOps,       \* bound: operations of the user
          MaxTimeOps    \* bound: of these, the ones in which the range of time may be changed

VARIABLES nodes,        \* sequence of [id, up, down, sel]; up, down: Null or models
          results,      \* searchResults
          rows,         \* the canvas: [node, indent, up, down], up and down: has the button
          jobs,         \* calls of reify that are not resolved: [node, dir, stage, calls, answers]
          begin, end,   \* the range of time of the view; end may be Undefined
          unresolved,   \* history: the promise of some call of reify will never be resolved
          stale,        \* history: the results were reset and the canvas not drawn
          ops

reifying == <<jobs, unresolved>>
vars == <<nodes, results, rows, reifying, begin, end, stale, ops>>

Null == <<0>>           \* no model has the number 0
Undefined == -1

-----------------------------------------------------------------------------
(* getReifiedParents and getReifiedChildren: a list that was not fetched   *)
(* is empty.                                                               *)
Reified(ns, n, dir) == LET l == IF dir = "up" THEN ns[n].up ELSE ns[n].down
                       IN IF l = Null THEN <<>> ELSE l

RECURSIVE treeHeight(_, _, _)
treeHeight(ns, n, dir) ==
  LET ds == Reified(ns, n, dir)
  IN Max({0} \cup {1 + treeHeight(ns, ds[i], dir) : i \in DOMAIN ds})

(* Traversals give pairs <<model, depth>>. *)
RECURSIVE treePost(_, _, _, _)
treePost(ns, n, dir, depth) ==
  LET ds == Reified(ns, n, dir)
  IN FlattenSeq([i \in DOMAIN ds |-> treePost(ns, ds[i], dir, depth + 1)]) \o <<<<n, depth>>>>

RECURSIVE treePre(_, _, _, _)
treePre(ns, n, dir, depth) ==
  LET ds == Reified(ns, n, dir)
  IN <<<<n, depth>>>> \o FlattenSeq([i \in DOMAIN ds |-> treePre(ns, ds[i], dir, depth + 1)])

Models(pairs) == {pairs[i][1] : i \in DOMAIN pairs}
Kin(ns, n) == Models(treePre(ns, n, "up", 0)) \cup Models(treePre(ns, n, "down", 0))

(* applyToAllSpans: every result, what hangs below it, then what is above. *)
AllSpans(ns, rs) ==
  FlattenSeq([i \in DOMAIN rs |->
    [j \in DOMAIN treePre(ns, rs[i], "down", 0) |-> treePre(ns, rs[i], "down", 0)[j][1]]
      \o [j \in 1..Len(treePre(ns, rs[i], "up", 0)) - 1 |-> treePre(ns, rs[i], "up", 0)[j + 1][1]]])

(* A row, with a button for what is not fetched yet. *)
Row(ns, n, indent, allowUp, allowDown) ==
  [node |-> n, indent |-> indent,
   up |-> allowUp /\ ns[n].up = Null, down |-> allowDown /\ ns[n].down = Null]

(* SpanGroupWidget: the parents, the result, its children. *)
Group(ns, n) ==
  LET h == treeHeight(ns, n, "up")
      above == Front(treePost(ns, n, "up", 0))
      below == Tail(treePre(ns, n, "down", 0))
  IN [i \in DOMAIN above |-> Row(ns, above[i][1], h - above[i][2], TRUE, FALSE)]
     \o <<Row(ns, n, h, TRUE, TRUE)>>
     \o [i \in DOMAIN below |-> Row(ns, below[i][1], h + below[i][2], FALSE, TRUE)]

(* setupWidgets: a group for every result. *)
Layout(ns, rs) == FlattenSeq([i \in DOMAIN rs |-> Group(ns, rs[i])])

render == rows' = Layout(nodes', results') /\ stale' = FALSE

-----------------------------------------------------------------------------
Init == /\ nodes = <<>> /\ results = <<>> /\ rows = <<>> /\ jobs = <<>>
        /\ unresolved = FALSE /\ begin = 0 /\ end = Undefined /\ stale = FALSE /\ ops = 0

Step == ops < MaxOps /\ ops' = ops + 1

(* Span.parse: a span without parents needs none fetched. *)
Parsed(id) == [id |-> id, up |-> IF ParentsOf[id] = <<>> THEN <<>> ELSE Null,
               down |-> Null, sel |-> FALSE]

setTimes_NoSwap(b, e) ==
  LET delta == e - b
      needed == IF delta < MINIMUM_TIME_SPAN THEN MINIMUM_TIME_SPAN - delta ELSE 0
  IN begin' = b - needed \div 2 /\ end' = e + needed \div 2

(* setTimes, after the values were taken from the arguments: exchanged if  *)
(* they are the wrong way round, and moved apart if they are too close.    *)
(* No comparison holds for an undefined end.                               *)
setTimes(b, e) ==
  IF e = Undefined THEN begin' = b /\ end' = e
  ELSE LET lo == IF e < b THEN e ELSE b
           hi == IF e < b THEN b ELSE e
           needed == IF hi - lo < MINIMUM_TIME_SPAN THEN MINIMUM_TIME_SPAN - (hi - lo) ELSE 0
       IN begin' = lo - needed \div 2 /\ end' = hi + needed \div 2

(* A time that is 0 counts as not given. *)
Given(new, old) == IF new = 0 THEN old ELSE new

(* getSelectedSpansOrAllSpans *)
Chosen(ns, rs) ==
  LET all == ToSet(AllSpans(ns, rs))
      sel == {n \in all : ns[n].sel}
  IN IF sel = {} THEN all ELSE sel

(* zoomHandler: the range of what is chosen and all their kin. *)
Zoomed(ns, rs) ==
  LET kin == UNION {Kin(ns, n) : n \in Chosen(ns, rs)}
  IN IF kin = {} THEN setTimes(begin, MINIMUM_TIME_SPAN)
     ELSE setTimes(Given(Min({Begin[ns[n].id] : n \in kin}), begin),
                   Given(Max({End[ns[n].id] : n \in kin}), end))

zoomHandler == /\ Step /\ ops < MaxTimeOps /\ Zoomed(nodes, results)
               /\ UNCHANGED <<nodes, results, reifying>> /\ render

(* handleBeginOrEndChange *)
ChangeTime(which, t) ==
  /\ Step /\ ops < MaxTimeOps
  /\ IF which = "begin" THEN setTimes(Given(t, begin), end) ELSE setTimes(begin, Given(t, end))
  /\ UNCHANGED <<nodes, results, reifying>> /\ render

(* The answer of a search: the spans are added, and the first ones zoomed  *)
(* to; or it failed, and the results are reset behind a canvas that is not *)
(* drawn again.                                                            *)
SearchSuccess(ids) ==
  LET ns == nodes \o [i \in DOMAIN ids |-> Parsed(ids[i])]
      rs == results \o [i \in DOMAIN ids |-> Len(nodes) + i]
  IN /\ Step /\ Len(ns) <= MaxNodes
     /\ nodes' = ns /\ results' = rs
     /\ IF results = <<>> THEN Zoomed(ns, rs) ELSE UNCHANGED <<begin, end>>
     /\ UNCHANGED reifying /\ render
SearchError == /\ Step /\ results' = <<>> /\ stale' = TRUE
               /\ UNCHANGED <<nodes, rows, reifying, begin, end>>

(* A mouse click on a row: the selection is its span alone; with the       *)
(* control key, it is toggled.                                             *)
Select(r, ctrl) ==
  LET n == rows[r].node
      all == ToSet(AllSpans(nodes, results))
  IN /\ Step
     /\ nodes' = IF ctrl THEN [nodes EXCEPT ![n].sel = ~@]
                 ELSE [m \in DOMAIN nodes |->
                         IF m \in all THEN [nodes[m] EXCEPT !.sel = (m = n)] ELSE nodes[m]]
     /\ UNCHANGED <<results, rows, reifying, begin, end, stale>>

(* clearHandler: the results that hold a selected span.  A selected child  *)
(* counts only while no result before its own was found selected.          *)
IsSelected(rs, i, first) ==
  \/ \E n \in Models(treePre(nodes, rs[i], "up", 0)) : nodes[n].sel
  \/ i <= first /\ \E n \in Models(treePre(nodes, rs[i], "down", 0)) : nodes[n].sel
FirstSelected == LET held == {i \in DOMAIN results : \E n \in Kin(nodes, results[i]) : nodes[n].sel}
                 IN IF held = {} THEN 0 ELSE Min(held)

clearHandler_KeepsEarlier(all) ==
  LET toDelete == {results[i] : i \in {j \in DOMAIN results :
                     j < FirstSelected \/ IsSelected(results, j, FirstSelected)}}
  IN /\ Step /\ (FirstSelected # 0 \/ all)
     /\ results' = SelectSeq(results, LAMBDA n : n \notin toDelete)
     /\ UNCHANGED <<nodes, reifying, begin, end>> /\ render

clearHandler(all) ==
  LET toDelete == IF FirstSelected = 0 THEN ToSet(results)
                  ELSE {results[i] : i \in {j \in DOMAIN results :
                                            IsSelected(results, j, FirstSelected)}}
  IN /\ Step /\ (FirstSelected # 0 \/ all)
     /\ results' = SelectSeq(results, LAMBDA n : n \notin toDelete)
     /\ UNCHANGED <<nodes, reifying, begin, end>> /\ render

-----------------------------------------------------------------------------
(* reifyParents and reifyChildren: one request for each span, after the    *)
(* one for the children.                                                   *)
Press(r, dir) ==
  LET n == rows[r].node
      ids == ParentsOf[nodes[n].id]
  IN /\ Step
     /\ IF dir = "up" THEN rows[r].up ELSE rows[r].down
     /\ jobs' = Append(jobs,
          IF dir = "up" THEN [node |-> n, dir |-> dir, stage |-> "spans", calls |-> ids,
                              answers |-> [i \in DOMAIN ids |-> "none"]]
          ELSE [node |-> n, dir |-> dir, stage |-> "children", calls |-> <<>>, answers |-> <<>>])
     /\ UNCHANGED <<nodes, results, rows, unresolved, begin, end, stale>>

(* The spans are sorted by their begin; a sort may leave equal ones in any *)
(* order, here in the order of the answers.                                *)
sortSpansByBeginTime(ids) == SortSeq(ids, LAMBDA a, b : Begin[a] < Begin[b])

reify_Unsorted(j, job) ==
  LET fresh == [i \in DOMAIN job.calls |-> Len(nodes) + i]
  IN /\ nodes' = [n \in 1..Len(nodes) + Len(fresh) |->
                    IF n > Len(nodes)
                    THEN IF job.dir = "up" THEN [Parsed(job.calls[n - Len(nodes)]) EXCEPT !.down = <<job.node>>]
                         ELSE [Parsed(job.calls[n - Len(nodes)]) EXCEPT !.up = <<job.node>>]
                    ELSE IF n # job.node THEN nodes[n]
                    ELSE IF job.dir = "up" THEN [nodes[n] EXCEPT !.up = fresh]
                    ELSE [nodes[n] EXCEPT !.down = fresh]]
     /\ jobs' = RemoveAt(jobs, j)
     /\ UNCHANGED results /\ render

(* All spans came: new models, whose only child (parent) is the span they  *)
(* were fetched for, replace what the span had; the page is drawn again.   *)
reify(j, job) ==
  LET ids == sortSpansByBeginTime(job.calls)
      fresh == [i \in DOMAIN ids |-> Len(nodes) + i]
  IN /\ Len(nodes) + Len(ids) <= MaxNodes
     /\ nodes' = [n \in 1..Len(nodes) + Len(ids) |->
                    IF n > Len(nodes)
                    THEN IF job.dir = "up" THEN [Parsed(ids[n - Len(nodes)]) EXCEPT !.down = <<job.node>>]
                         ELSE [Parsed(ids[n - Len(nodes)]) EXCEPT !.up = <<job.node>>]
                    ELSE IF n # job.node THEN nodes[n]
                    ELSE IF job.dir = "up" THEN [nodes[n] EXCEPT !.up = fresh]
                    ELSE [nodes[n] EXCEPT !.down = fresh]]
     /\ jobs' = RemoveAt(jobs, j)
     /\ UNCHANGED results /\ render

Still == UNCHANGED <<nodes, results, rows, stale>>

(* $.when waits for all requests, but one that fails rejects it at once,   *)
(* and then nothing is called, whatever the others bring; one that         *)
(* parseMultiSpanAjaxQueryResults cannot read makes the promise an error.  *)
Settle(j, job) ==
  /\ unresolved' = (unresolved \/ Contains(job.answers, "fail"))
  /\ CASE Contains(job.answers, "fail") -> jobs' = RemoveAt(jobs, j) /\ Still
       [] Contains(job.answers, "none") -> jobs' = [jobs EXCEPT ![j] = job] /\ Still
       [] Contains(job.answers, "unreadable") -> jobs' = RemoveAt(jobs, j) /\ Still
       [] OTHER -> reify(j, job)

(* The answer to the query for the children; a failure is an error. *)
ChildrenAnswer(j, ok) ==
  LET ids == ChildrenOf[nodes[jobs[j].node].id]
  IN /\ jobs[j].stage = "children"
     /\ IF ok THEN Settle(j, [jobs[j] EXCEPT !.stage = "spans", !.calls = ids,
                                             !.answers = [i \in DOMAIN ids |-> "none"]])
        ELSE jobs' = RemoveAt(jobs, j) /\ Still /\ UNCHANGED unresolved
     /\ UNCHANGED <<begin, end, ops>>

(* The answer to the request for one span. *)
SpanAnswer(j, i, how) ==
  /\ jobs[j].stage = "spans" /\ jobs[j].answers[i] = "none"
  /\ Settle(j, [jobs[j] EXCEPT !.answers[i] = how])
  /\ UNCHANGED <<begin, end, ops>>

Next == \/ zoomHandler \/ SearchError
        \/ \E t \in Times, which \in {"begin", "end"} : ChangeTime(which, t)
        \/ \E ids \in Found : SearchSuccess(ids)
        \/ \E a \in BOOLEAN : clearHandler(a)
        \/ \E r \in DOMAIN rows : \/ \E ctrl \in BOOLEAN : Select(r, ctrl)
                                  \/ \E dir \in {"up", "down"} : Press(r, dir)
        \/ \E j \in DOMAIN jobs :
             \/ \E ok \in BOOLEAN : ChildrenAnswer(j, ok)
             \/ \E i \in DOMAIN jobs[j].calls, how \in {"ok", "fail", "unreadable"} : SpanAnswer(j, i, how)

Spec == Init /\ [][Next]_vars

-----------------------------------------------------------------------------
(* The canvas shows the tree: whatever answers came in whatever order, the *)
(* rows are those of the current models (unless a search failed, after     *)
(* which nothing is drawn), each model has one row, and the rows fetched   *)
(* for a span are all its parents (children), by the time they began.      *)
Fetched(n, ids, ms) ==
  ms # Null => /\ {nodes[ms[i]].id : i \in DOMAIN ms} = ToSet(ids)
               /\ \A i, k \in DOMAIN ms : i < k => Begin[nodes[ms[i]].id] <= Begin[nodes[ms[k]].id]
Canvas ==
  /\ stale \/ rows = Layout(nodes, results)
  /\ \A i, k \in DOMAIN rows : rows[i].node = rows[k].node => i = k
  /\ \A i \in DOMAIN results :
       /\ \A m \in Models(treePre(nodes, results[i], "up", 0)) :
            Fetched(m, ParentsOf[nodes[m].id], nodes[m].up)
       /\ \A m \in Models(treePre(nodes, results[i], "down", 0)) :
            Fetched(m, ChildrenOf[nodes[m].id], nodes[m].down)

(* What the user chose is what changes: clearing removes all results if    *)
(* nothing is selected on the canvas, and else the results that hold a     *)
(* selected span, as themselves, above or below, and no others (a result   *)
(* that holds it below stays if one before it held one); and the range     *)
(* shown is never shorter than the minimum.                                *)
Holds(n) == \E m \in Kin(nodes, n) : nodes[m].sel
HoldsAbove(n) == \E m \in Models(treePre(nodes, n, "up", 0)) : nodes[m].sel
ToClear(i) == \/ \A k \in DOMAIN results : ~Holds(results[k])
              \/ Holds(results[i]) /\ (HoldsAbove(results[i]) \/ \A k \in 1..i - 1 : ~Holds(results[k]))
ChosenOnly ==
  /\ [](end # Undefined => end - begin >= MINIMUM_TIME_SPAN)
  /\ [][~stale' /\ Len(results') < Len(results) =>
          \A i \in DOMAIN results : results[i] \in ToSet(results') <=> ~ToClear(i)]_vars

(* The promise of reifyParents and reifyChildren "returns the empty string *)
(* on success, or an error string on failure": no call leaves it pending   *)
(* for ever.                                                               *)
ReifyAnswers == ~unresolved
=============================================================================
