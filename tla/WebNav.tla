------------------------------- MODULE WebNav -------------------------------
(***************************************************************************)
(* Backbone.History and Backbone.Router (backbone-1.1.2.js), in a browser  *)
(* with hashchange events and without pushState, and the pages of the web  *)
(* application on top of them: the router with its routes, the about page  *)
(* that waits for the server, and the search page with its predicates and  *)
(* the paging of results (router.js, about_view.js, search_view.js,        *)
(* predicate_view.js and Backbone.View).                                   *)
(*                                                                         *)
(* The browser changes the hash at once and delivers the event later, when *)
(* other events, clicks on links and calls of navigate may have come in    *)
(* between; answers of the server come at any time, also for pages that    *)
(* were left.  HistorySpec is the history by itself, Spec the application. *)
(*                                                                         *)
(* A search view is known by its number.  Spans are the numbers 1..Spans,  *)
(* in the order of their span ids.  What the server answers depends on the *)
(* criteria: the first one on an indexed field says where the spans come   *)
(* from and in which order, the others filter them; and the last result,   *)
(* if there is one, takes the place of the bound of the first one.         *)
(***************************************************************************)
EXTENDS Integers, Sequences, FiniteSets, SequencesExt

CONSTANTS Hashes,      \* what may stand behind the # of the location
          Strip,       \* getFragment: [Hashes -> Hashes], without leading # or / and trailing blanks
          Routes,      \* the routes of the router, in the order of its definition
          Tests,       \* the pairs <<route, fragment>> that match
          MaxMoves     \* bound: moves of the user and calls of navigate

VARIABLES entries, pos, \* the session history of the browser; its current entry
          pending,     \* hashchange events not yet delivered
          started,     \* History.started
          fragment,    \* history.fragment
          handlers,    \* history.handlers
          shown,       \* history: the fragment of the last loadUrl
          quiet,       \* history: history.fragment was last set without loading it
          moves

historyVars == <<entries, pos, pending, started, fragment, handlers, shown, quiet, moves>>

Nowhere == "nowhere"   \* no fragment yet

(* _bindRoutes: the last route is popped first, and route() puts it in      *)
(* front of the others.                                                    *)
Bound(hs) == FoldRight(LAMBDA r, acc : <<r>> \o acc, Routes, hs)

HistoryInit == /\ \E h \in Hashes : entries = <<h>>
               /\ pos = 1 /\ pending = 0 /\ started = FALSE /\ fragment = Nowhere
               /\ handlers = Bound(<<>>)
               /\ shown = Nowhere /\ quiet = FALSE /\ moves = 0

location == entries[pos]
Strip0 == Strip[location]

(* The route of the first handler that tests true. *)
Matching(hs, f) == {i \in DOMAIN hs : <<hs[i], f>> \in Tests}
RouteOf(hs, f) == hs[CHOOSE i \in Matching(hs, f) : \A j \in Matching(hs, f) : i <= j]

loadUrl_NotRecorded(f) == /\ shown' = f /\ quiet' = FALSE
                          /\ UNCHANGED fragment

(* loadUrl: the fragment becomes the current one, and its handler is called. *)
loadUrl(f) == fragment' = f /\ shown' = f /\ quiet' = FALSE

Moves == moves < MaxMoves /\ moves' = moves + 1

(* start() reads the location and, unless it is silent, loads it. *)
start(silent) == /\ ~started
                 /\ started' = TRUE
                 /\ IF silent
                    THEN fragment' = Strip0 /\ quiet' = TRUE /\ UNCHANGED shown
                    ELSE loadUrl(Strip0)
                 /\ UNCHANGED <<entries, pos, pending, handlers, moves>>

(* stop() takes the listener off; an event on its way finds none. *)
stop == /\ started /\ Moves
        /\ started' = FALSE
        /\ UNCHANGED <<entries, pos, pending, fragment, handlers, shown, quiet>>

(* The hash is set: a new entry behind the current one, or in its place.    *)
(* The browser announces a hash that differs.                              *)
_updateHash(h, replace) ==
  IF h = location THEN UNCHANGED <<entries, pos, pending>>
  ELSE /\ entries' = IF replace THEN [entries EXCEPT ![pos] = h]
                     ELSE Append(SubSeq(entries, 1, pos), h)
       /\ pos' = IF replace THEN pos ELSE pos + 1
       /\ pending' = pending + 1

(* navigate() does nothing if the fragment is the current one. *)
navigate(f, trigger, replace) ==
  /\ Moves
  /\ IF ~started \/ fragment = Strip[f]
     THEN UNCHANGED <<entries, pos, pending, fragment, shown, quiet>>
     ELSE /\ _updateHash(Strip[f], replace)
          /\ IF trigger THEN loadUrl(Strip[f])
             ELSE fragment' = Strip[f] /\ quiet' = TRUE /\ UNCHANGED shown
  /\ UNCHANGED <<started, handlers>>

(* The user follows a link or edits the address. *)
Follow(h) == /\ Moves
             /\ _updateHash(h, FALSE)
             /\ UNCHANGED <<started, fragment, handlers, shown, quiet>>

(* Back and forward. *)
Traverse(to) == /\ Moves /\ to \in DOMAIN entries \ {pos}
                /\ pos' = to
                /\ pending' = IF entries[to] = location THEN pending ELSE pending + 1
                /\ UNCHANGED <<entries, started, fragment, handlers, shown, quiet>>

(* A hashchange event: checkUrl loads the location if the fragment changed. *)
checkUrl == /\ pending > 0 /\ pending' = pending - 1
            /\ IF started /\ Strip0 # fragment THEN loadUrl(Strip0)
               ELSE UNCHANGED <<fragment, shown, quiet>>
            /\ UNCHANGED <<entries, pos, started, handlers, moves>>

HistoryNext == \/ \E b \in BOOLEAN : start(b)
               \/ stop \/ checkUrl
               \/ \E f \in Hashes : \/ Follow(f)
                                    \/ \E t, r \in BOOLEAN : navigate(f, t, r)
               \/ \E to \in 1..Len(entries) : Traverse(to)

HistorySpec == HistoryInit /\ [][HistoryNext]_historyVars

-----------------------------------------------------------------------------
(* Once the events of the browser are delivered, the router has followed    *)
(* the address bar: its fragment is that of the location, however clicks,   *)
(* back, forward and navigate raced with the events, and the last fragment  *)
(* loaded is that one, unless it was set without a trigger.                 *)
Synced == started /\ pending = 0 =>
            fragment = Strip0 /\ (shown = fragment \/ quiet)

-----------------------------------------------------------------------------
CONSTANTS Spans,       \* spans of the server
          Lim,         \* results of one query, 20 in the code
          Preds,       \* the criteria that a reader can enter
          PredOp,      \* "gt", "le" or "eq" if the field is indexed, else "filter"
          PredValue,   \* the spans' values of the field of a criterion
          PredSpans,   \* the spans that satisfy a criterion
          MaxViews,    \* bound: search views
          MaxClicks    \* bound: clicks on the search page and moves together

VARIABLES view,        \* router.view: None, About or the number of a search view
          nav,         \* the active entry of the navigation bar
          fetches,     \* requests for the server's information in flight
          views,       \* the search views: [live, preds, busy, results], and as history
                       \* under, the criteria that all results are for (<<>>: none)
          delegated,   \* the views with handlers delegated on #app
          resize,      \* the views with a handler for the size of the window
          queries,     \* queries in flight: sequence of [v, preds, prev, under]
          excuse,      \* history: the about page came too late, or did not come
          clicks

appVars == <<view, nav, fetches, views, delegated, resize, queries, excuse, clicks>>
vars == <<historyVars, appVars>>

None == -1
About == 0

Init == /\ HistoryInit
        /\ view = None /\ nav = "none" /\ fetches = 0 /\ views = <<>>
        /\ delegated = {} /\ resize = {} /\ queries = <<>> /\ excuse = FALSE /\ clicks = 0

NewSearchView == [live |-> TRUE, preds |-> <<>>, busy |-> FALSE, results |-> <<>>, under |-> <<>>]

(* Backbone.View: the events of view v on #app, which the views share, are *)
(* known by its cid.                                                       *)
undelegateEvents(del, v) == del \ {v}
delegateEvents(del, v) == undelegateEvents(del, v) \cup {v}

(* SearchView.close: the predicates and the results view are removed (with *)
(* every handler for the size of the window), and the events undelegated.  *)
Closed(vs) == IF view \in DOMAIN vs
              THEN [vs EXCEPT ![view].live = FALSE, ![view].preds = <<>>] ELSE vs

switchView_KeepsOld(v, vs, del, res) ==
  /\ view' = v /\ views' = vs /\ delegated' = del /\ resize' = res

(* switchView: the old view is closed after the new one was made. *)
switchView(v, vs, del, res) ==
  /\ view' = v
  /\ views' = Closed(vs)
  /\ delegated' = undelegateEvents(del, view)
  /\ resize' = IF view \in DOMAIN views THEN {} ELSE res

(* The routes.  A new search view delegates its events and listens to the  *)
(* window when it is made.                                                 *)
search == LET v == Len(views) + 1 IN
          /\ v <= MaxViews
          /\ switchView(v, Append(views, NewSearchView), delegateEvents(delegated, v), resize \cup {v})
          /\ nav' = "search" /\ excuse' = FALSE
          /\ UNCHANGED <<fetches, queries, clicks>>

about == /\ fetches' = fetches + 1
         /\ UNCHANGED <<view, nav, views, delegated, resize, queries, excuse, clicks>>

unknown == UNCHANGED appVars

(* The callback of the handler that loadUrl found. *)
Callback(f) == CASE RouteOf(handlers, f) \in {"", "about"} -> about
                 [] RouteOf(handlers, f) = "search" -> search
                 [] OTHER -> unknown

(* empty: the route "" is replaced by "about", from inside loadUrl. *)
LoadRoute(f) ==
  IF RouteOf(handlers, f) = "" THEN _updateHash("about", TRUE) /\ loadUrl("about")
  ELSE loadUrl(f) /\ UNCHANGED <<entries, pos>>

Start == /\ ~started
         /\ started' = TRUE
         /\ LoadRoute(Strip0) /\ Callback(Strip0)
         /\ pending' = IF RouteOf(handlers, Strip0) = "" THEN pending + 1 ELSE pending
         /\ UNCHANGED <<handlers, moves>>

(* A hashchange event. *)
HashChange ==
  /\ pending > 0 /\ started
  /\ IF Strip0 = fragment
     THEN /\ pending' = pending - 1
          /\ UNCHANGED <<entries, pos, fragment, shown, quiet, appVars>>
     ELSE /\ IF RouteOf(handlers, Strip0) = ""
             THEN /\ entries' = [entries EXCEPT ![pos] = "about"]
                  /\ loadUrl("about") /\ UNCHANGED <<pos, pending>>
             ELSE /\ loadUrl(Strip0) /\ pending' = pending - 1
                  /\ UNCHANGED <<entries, pos>>
          /\ Callback(Strip0)
  /\ UNCHANGED <<started, handlers, moves>>

UserMoves == /\ started /\ moves + clicks < MaxClicks
             /\ \/ \E h \in Hashes : Follow(h)
                \/ \E to \in 1..Len(entries) : Traverse(to)
             /\ UNCHANGED appVars

(* The server's information arrives: the about page is shown, whatever     *)
(* page the user is on by now; or an alert.                                *)
AboutArrives ==
  /\ fetches > 0 /\ fetches' = fetches - 1
  /\ switchView(About, views, delegated, resize)
  /\ nav' = "about" /\ excuse' = (fragment # "about")
  /\ UNCHANGED <<historyVars, queries, clicks>>

AboutFails == /\ fetches > 0 /\ fetches' = fetches - 1
              /\ excuse' = TRUE
              /\ UNCHANGED <<historyVars, view, nav, views, delegated, resize, queries, clicks>>

-----------------------------------------------------------------------------
(* The search page: a click reaches the views delegated on #app. *)
Click(v) == v \in delegated /\ moves + clicks < MaxClicks /\ clicks' = clicks + 1

Elsewhere == UNCHANGED <<historyVars, view, nav, fetches, delegated, resize, excuse>>

(* dropdownHandler, the close button of a predicate, and its text field.   *)
(* The results stay what they were.                                        *)
AddPredicate(v, c) == /\ Click(v)
                      /\ views' = [views EXCEPT ![v].preds = Append(@, c)]
                      /\ Elsewhere /\ UNCHANGED queries
RemovePredicate(v, k) == /\ Click(v)
                         /\ views' = [views EXCEPT ![v].preds = RemoveAt(@, k)]
                         /\ Elsewhere /\ UNCHANGED queries
EditPredicate(v, k, c) == /\ Click(v)
                          /\ views' = [views EXCEPT ![v].preds = [@ EXCEPT ![k] = c]]
                          /\ Elsewhere /\ UNCHANGED queries

Prev_OfFirst(v) == IF views[v].results = <<>> THEN 0 ELSE Head(views[v].results)

(* prev: the last span of the results; 0 stands for none. *)
Prev(v) == IF views[v].results = <<>> THEN 0 ELSE Last(views[v].results)

(* The query continues results for the same criteria, or starts new ones. *)
Under(v) == IF views[v].results = <<>> \/ views[v].under = views[v].preds
            THEN views[v].preds ELSE <<>>
QueryOf(v) == [v |-> v, preds |-> views[v].preds, prev |-> Prev(v), under |-> Under(v)]

doSearch_WhileBusy(v) ==
  /\ Click(v) /\ views[v].preds # <<>>
  /\ views' = [views EXCEPT ![v].busy = TRUE]
  /\ queries' = Append(queries, QueryOf(v))
  /\ Elsewhere

(* doSearch: not while another search runs, nor without predicates; else   *)
(* what comes after the last result, whatever criteria that one is from.   *)
(* (A predicate that does not parse is a warning, too: nothing changes.)   *)
doSearch(v) ==
  /\ Click(v)
  /\ IF views[v].busy \/ views[v].preds = <<>> THEN UNCHANGED <<views, queries>>
     ELSE /\ views' = [views EXCEPT ![v].busy = TRUE]
          /\ queries' = Append(queries, QueryOf(v))
  /\ Elsewhere

(* The elements of a sequence at some of its indexes, in their order. *)
InOrder(I) == CHOOSE f \in [1..Cardinality(I) -> I] : \A i, j \in DOMAIN f : i < j => f[i] < f[j]
At(s, I) == [k \in 1..Cardinality(I) |-> s[InOrder(I)[k]]]

(* clearHandler removes the selected results, or all. *)
Clear(v, gone) == /\ Click(v) /\ (gone = {} => views[v].results = <<>>)
                  /\ views' = [views EXCEPT ![v].results = At(@, DOMAIN @ \ gone)]
                  /\ Elsewhere /\ UNCHANGED queries

(* The source of a query: the first criterion on an indexed field, else    *)
(* the span ids from the first one on.                                     *)
Sources(q) == {k \in DOMAIN q : PredOp[q[k]] # "filter"}
SourceAt(q) == IF Sources(q) = {} THEN 0 ELSE CHOOSE k \in Sources(q) : \A j \in Sources(q) : k <= j
SourceOp(q) == IF SourceAt(q) = 0 THEN "gt" ELSE PredOp[q[SourceAt(q)]]
ValueOf(q, s) == IF SourceAt(q) = 0 THEN s ELSE PredValue[q[SourceAt(q)]][s]

Matches(q, s) == \A k \in DOMAIN q : s \in PredSpans[q[k]]

(* What the source reads.  After the last result, it is no longer bounded  *)
(* by its own value but by the one of that result, which an at-most source *)
(* reads again; and there is nothing after a span id.                      *)
Reads(q, prev, s) ==
  IF prev = 0 THEN Matches(q, s)
  ELSE /\ \A k \in DOMAIN q : k = SourceAt(q) \/ s \in PredSpans[q[k]]
       /\ \/ SourceOp(q) = "le" /\ ValueOf(q, s) <= ValueOf(q, prev)
          \/ SourceOp(q) = "gt" /\ ValueOf(q, s) > ValueOf(q, prev)

Sorted(q, r) == \A i, j \in DOMAIN r : i < j =>
  IF SourceOp(q) = "le" THEN ValueOf(q, r[i]) >= ValueOf(q, r[j]) ELSE ValueOf(q, r[i]) <= ValueOf(q, r[j])
Once(r) == \A i, j \in DOMAIN r : r[i] = r[j] => i = j

(* The answers of the server: each span once, in the order of the source.  *)
(* (Which of them come depends on what is stored by now; see SpanQuery.)   *)
Pages(q, prev) ==
  {r \in UNION {[1..n -> {s \in 1..Spans : Reads(q, prev, s)}] : n \in 0..Lim} : Sorted(q, r) /\ Once(r)}

(* success: the results are added.  A view that was closed has no results  *)
(* view any more: the exception comes before searchInProgress is reset if  *)
(* these are its first results, else after it.                             *)
SearchArrives(i, page) ==
  LET q == queries[i] IN
  /\ views' = [views EXCEPT ![q.v].results = @ \o page, ![q.v].under = q.under,
                            ![q.v].busy = ~views[q.v].live /\ views[q.v].results = <<>>]
  /\ queries' = RemoveAt(queries, i)
  /\ Elsewhere /\ UNCHANGED clicks

(* error: the results are reset. *)
SearchFails(i) ==
  LET q == queries[i] IN
  /\ views' = [views EXCEPT ![q.v].results = <<>>, ![q.v].busy = FALSE]
  /\ queries' = RemoveAt(queries, i)
  /\ Elsewhere /\ UNCHANGED clicks

Next == \/ Start \/ HashChange \/ UserMoves \/ AboutArrives \/ AboutFails
        \/ \E v \in DOMAIN views :
             \/ doSearch(v)
             \/ \E c \in Preds : AddPredicate(v, c)
             \/ \E k \in DOMAIN views[v].preds :
                  RemovePredicate(v, k) \/ \E c \in Preds : EditPredicate(v, k, c)
             \/ \E gone \in SUBSET DOMAIN views[v].results : Clear(v, gone)
        \/ \E i \in DOMAIN queries :
             \/ SearchFails(i)
             \/ \E page \in Pages(queries[i].preds, queries[i].prev) : SearchArrives(i, page)

Spec == Init /\ [][Next]_vars

-----------------------------------------------------------------------------
(* The routes of router.js: each fragment finds one, and about finds its own. *)
RoutesFit == /\ Strip \in [Hashes -> Hashes] /\ "about" \in Hashes /\ Strip["about"] = "about"
             /\ RouteOf(Bound(<<>>), "about") = "about"
             /\ \A h \in Hashes :
                  RouteOf(Bound(<<>>), Strip[h]) \in {"", "about", "search", "*unknown"}

(* The criteria: a longer value satisfies "more than" if a shorter one     *)
(* does, a shorter one "at most" if a longer one does, and a span id is    *)
(* one span's.                                                             *)
PredsFit ==
  /\ PredOp \in [Preds -> {"gt", "le", "eq", "filter"}]
  /\ PredValue \in [Preds -> [1..Spans -> Int]] /\ PredSpans \in [Preds -> SUBSET (1..Spans)]
  /\ \A c \in Preds : \A s, u \in 1..Spans :
       /\ PredOp[c] = "gt" /\ s \in PredSpans[c] /\ PredValue[c][u] > PredValue[c][s] => u \in PredSpans[c]
       /\ PredOp[c] = "le" /\ s \in PredSpans[c] /\ PredValue[c][u] <= PredValue[c][s] => u \in PredSpans[c]
       /\ PredOp[c] = "eq" /\ s \in PredSpans[c] /\ u \in PredSpans[c] => s = u

(* A fragment has nothing left to strip. *)
StripOnce == Strip \in [Hashes -> Hashes] /\ \A h \in Hashes : Strip[Strip[h]] = Strip[h]

Live == {v \in DOMAIN views : views[v].live}
Kind == IF view \in DOMAIN views THEN "search" ELSE IF view = About THEN "about" ELSE "none"

(* One view at a time has the page: only the router's view is live, has    *)
(* its events delegated and may listen to the window, and the navigation   *)
(* bar shows it; and when all events and answers have come, it is the one  *)
(* of the address, unless the about page was late or failed.               *)
RightView ==
  /\ Live = {view} \ {None, About} /\ delegated = Live /\ resize \subseteq Live
  /\ nav = Kind
  /\ started /\ pending = 0 /\ fetches = 0 /\ ~excuse =>
       RouteOf(handlers, fragment) \in {Kind, "*unknown"}

(* The router follows the address bar, and its view has the page. *)
RightPage == Synced /\ RightView

(* The pages of a search fit together: results that were all asked for     *)
(* with the same criteria match these and come in the order of their       *)
(* source, each once unless the source is an at-most criterion, although   *)
(* predicates are changed and results cleared while queries are in flight; *)
(* and a view is busy exactly while a query of it is in flight, so that no *)
(* search blocks the next ones for ever.  (After a change of the criteria  *)
(* the results that stay are continued in the new order, and spans come    *)
(* again, or before others, or that do not match.)                         *)
SearchPages ==
  \A v \in DOMAIN views :
    LET r == views[v].results
        q == views[v].under
    IN /\ q # <<>> => /\ \A i \in DOMAIN r : Matches(q, r[i])
                      /\ Sorted(q, r)
                      /\ SourceOp(q) = "le" \/ Once(r)
       /\ views[v].live => (views[v].busy <=> \E i \in DOMAIN queries : queries[i].v = v)
=============================================================================
