------------------------------ MODULE WebParts ------------------------------
(***************************************************************************)
(* Events, models and the history of Backbone and the pages and search     *)
(* criteria of the web application, side by side: their constants and      *)
(* variables under different names, and what each of them promises.        *)
(***************************************************************************)
EXTENDS Integers, Sequences, FiniteSets

CONSTANTS Objs, Listeners, Handlers, NoArg, MaxEventOps, MaxDepth,
          Attrs, AttrValues, Unset, Rejected, MaxModelOps,
          Hashes, Strip, Routes, Tests, MaxMoves, Spans, Lim, Preds, PredOp, PredValue, PredSpans, MaxViews, MaxClicks,
          LastDate, MaxInt64

VARIABLES part,    \* the part that is exercised
          heap, _events, _listeningTo, triggers, spent, onceRan, eventOps,
          attributes, _previousAttributes, changed, id, _changing, _pending, modelStack, modelRequests, dirty, modelCalls,
          entries, pos, pending, started, fragment, handlers, shown, quiet, moves,
          view, nav, fetches, views, delegated, resize, queries, excuse, clicks,
          name, text

Events == INSTANCE BackboneEvents WITH
  Fns <- Handlers, None <- NoArg, MaxOps <- MaxEventOps,
  frames <- triggers, ran <- onceRan, ops <- eventOps
Model == INSTANCE BackboneModel WITH
  Values <- AttrValues, Absent <- Unset, MaxOps <- MaxModelOps,
  frames <- modelStack, requests <- modelRequests, calls <- modelCalls
Nav == INSTANCE WebNav
Criteria == INSTANCE Predicates

eventVars == <<heap, _events, _listeningTo, triggers, spent, onceRan, eventOps>>
modelVars == <<attributes, _previousAttributes, changed, id, _changing, _pending, modelStack, modelRequests, dirty, modelCalls>>
historyVars == <<entries, pos, pending, started, fragment, handlers, shown, quiet, moves>>
appVars == <<view, nav, fetches, views, delegated, resize, queries, excuse, clicks>>

-----------------------------------------------------------------------------
(* A trigger calls what was bound, in order; once is once; and a listener  *)
(* can still stop listening to whatever calls it.                          *)
Delivery == Events!Delivery /\ Events!ListeningComplete

(* A model knows what changed, and every change is told. *)
ChangeTracking == Model!ChangeTracking

(* The router follows the address bar, and its view is the only one that   *)
(* has the page.                                                           *)
RightPage == IF part = "pages" THEN Nav!RightPage ELSE Nav!Synced

(* The results for the same criteria match them and come in the order of   *)
(* their source, each once if it ascends; and the criteria are what was    *)
(* entered, in a form that htraced reads.                                  *)
SearchPages == Nav!SearchPages /\ (part = "criteria" => Criteria!Normalized)
=============================================================================
