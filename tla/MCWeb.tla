------------------------------- MODULE MCWeb -------------------------------
(***************************************************************************)
(* The web application of htraced and the parts of Backbone and Bootstrap  *)
(* under it, in one run: a behaviour exercises one of them (part), the     *)
(* others keep their initial states.                                       *)
(***************************************************************************)
EXTENDS WebParts, TLC

CONSTANTS Parts,                          \* the parts to be exercised
          Members, MemberIds, NewModel, MaxSetOps,
          SpanIds, AskedTimes, MINIMUM_TIME_SPAN, MaxNodes, MaxTreeOps, MaxTimeOps,
          Buttons, Here, Far, Outside, MaxMouse,
          MaxModals, MaxTips, Panels, N, MaxCalls, Tabs, First, Radios, Menus, MaxWidgetClicks,
          Height, MaxScrolls,
          LastTime, Width

VARIABLES comparator, models, length, _byId, ids, listeners, collection, removing, requests, doubled, setOps,
          nodes, results, rows, jobs, unresolved, begin, end, stale, treeOps,
          widgets, selected, box, time, pointer, held, armed, fired, released, count,
          s, keys, overlap, opened,
          trigger, delay, t, over, events,
          class, transitioning, collapsed, panelPend, panelClicks,
          active, indicator, sliding, paused, interval, timers, slide, slid, waiting, asked, made, calls,
          li, panes, in, tabPend, tabShown, overtaken, tabClicks,
          closing, removed, closed, queue, isLoading, disabled, loadAsked, pressed, checked,
          open, expanded, focus, buttonClicks,
          page, scrollTop, offsets, scrollHeight, activeTarget, spyStale, affixed, scrolls,
          spans

-----------------------------------------------------------------------------
(* The routes of router.js and the fragments they match. *)
mcRoutes == <<"", "about", "search", "*unknown">>
mcTests == {<<f, f>> : f \in {"", "about", "search"}} \cup {<<"*unknown", f>> : f \in Hashes}
mcRejected == {[a \in Attrs |-> 1]}
mcStrip == [h \in Hashes |-> IF h = "/about" THEN "about" ELSE h]

(* Criteria of the search page: a begin after the first span's, a duration *)
(* at most (the later the span, the shorter it is), the id of the second   *)
(* span, and a description.                                                *)
mcPredOp == ("begin" :> "gt") @@ ("duration" :> "le") @@ ("spanid" :> "eq") @@ ("description" :> "filter")
mcPredValue == [c \in Preds |-> IF c = "duration" THEN <<3, 2, 1>> ELSE <<1, 2, 3>>]
mcPredSpans == ("begin" :> {2, 3}) @@ ("duration" :> {1, 2, 3}) @@ ("spanid" :> {2}) @@ ("description" :> {1, 3})

(* Span 3 has the parents 1 and 2, span 2 the parent 1. *)
mcFound == {<<1>>, <<3>>, <<1, 3>>}
mcParents == <<<<>>, <<1>>, <<1, 2>>>>
mcChildren == <<<<2, 3>>, <<3>>, <<>>>>
mcBegin == <<32, 96, 64>>
mcEnd == <<64, 96, 160>>

(* Three sections of a page of two heights. *)
mcLayouts == (12 :> <<1, 4, 7>>) @@ (14 :> <<2, 5, 9>>)

Collection == INSTANCE BackboneCollection WITH
  Models <- Members, Ids <- MemberIds, NoId <- NewModel, MaxOps <- MaxSetOps, id <- ids, ops <- setOps
Tree == INSTANCE SpanTree WITH
  Ids <- SpanIds, Found <- mcFound, ParentsOf <- mcParents, ChildrenOf <- mcChildren, Begin <- mcBegin, End <- mcEnd,
  Times <- AskedTimes, MaxOps <- MaxTreeOps, ops <- treeOps
Canvas0 == INSTANCE CanvasWidgets WITH Home <- Here, MaxEvents <- MaxMouse, listeners <- widgets
Overlay == INSTANCE BsOverlays WITH MaxEvents <- MaxTips
Moving == INSTANCE BsPanels WITH MaxClicks <- MaxWidgetClicks
Control == INSTANCE BsControls WITH
  Items <- 2, None <- NoArg, MaxClicks <- MaxWidgetClicks, asked <- loadAsked, clicks <- buttonClicks,
  Layouts <- mcLayouts, ElementTop <- 2, ElementHeight <- 2, OffsetTop <- 2, OffsetBottom <- 2,
  stale <- spyStale

Viewer == INSTANCE HBaseViewer

(* What the proofs assume of the constants holds of these. *)
ASSUME ConstantsFit == /\ Nav!RoutesFit /\ Nav!StripOnce /\ Nav!PredsFit
                       /\ Spans \in Nat /\ Lim \in Nat
                       /\ IsFiniteSet(Attrs) /\ "id" \in Attrs
                       /\ LastDate \in Nat /\ MaxInt64 \in Nat /\ LastDate < MaxInt64

collectionVars == <<comparator, models, length, _byId, ids, listeners, collection, removing, requests, doubled, setOps>>
backboneVars == <<eventVars, modelVars, collectionVars>>
treeVars == <<nodes, results, rows, jobs, unresolved, begin, end, stale, treeOps>>
canvasVars == <<widgets, selected, box, time, pointer, held, armed, fired, released, count>>
pageVars == <<historyVars, appVars, treeVars, canvasVars>>
modalVars == <<s, keys, overlap, opened>>
tooltipVars == <<trigger, delay, t, over, events>>
collapseVars == <<class, transitioning, collapsed, panelPend, panelClicks>>
carouselVars == <<active, indicator, sliding, paused, interval, timers, slide, slid, waiting, asked, made, calls>>
tabVars == <<li, panes, in, tabPend, tabShown, overtaken, tabClicks>>
buttonVars == <<closing, removed, closed, queue, isLoading, disabled, loadAsked, pressed, checked,
                open, expanded, focus, buttonClicks>>
scrollVars == <<page, scrollTop, offsets, scrollHeight, activeTarget, spyStale, affixed, scrolls>>
overlayVars == <<modalVars, tooltipVars, scrollVars>>
panelVars == <<collapseVars, carouselVars, tabVars, buttonVars>>
bootstrapVars == <<overlayVars, panelVars>>
inputVars == <<name, text, spans>>
vars == <<part, backboneVars, pageVars, bootstrapVars, inputVars>>

(* A part with several initial states has one of them while another part   *)
(* is exercised.                                                           *)
Init ==
  /\ part \in Parts
  /\ Events!Init /\ Model!Init /\ Collection!Init
  /\ part # "collection" => ~comparator /\ ids = [m \in Members |-> NewModel]
  /\ Nav!Init /\ (part \notin {"history", "pages"} => entries = <<"">>)
  /\ Tree!Init /\ Canvas0!Init
  /\ Overlay!ModalInit
  /\ Overlay!TooltipInit /\ (part # "tooltip" => trigger = "click" /\ ~delay)
  /\ Moving!Init /\ Control!ButtonInit
  /\ Control!ScrollInit /\ (part # "scroll" => page = 12 /\ scrollTop = 0)
  /\ IF part = "criteria" THEN Criteria!Init ELSE name = "Span ID is" /\ text = Criteria!Empty
  /\ IF part = "viewer" THEN Viewer!Init ELSE spans = <<>>

Backbone == \/ part = "events" /\ Events!Next /\ UNCHANGED <<modelVars, collectionVars>>
            \/ part = "model" /\ Model!Next /\ UNCHANGED <<eventVars, collectionVars>>
            \/ part = "collection" /\ Collection!Next /\ UNCHANGED <<eventVars, modelVars>>

Page == \/ part = "history" /\ Nav!HistoryNext /\ UNCHANGED <<appVars, treeVars, canvasVars>>
        \/ part = "pages" /\ Nav!Next /\ UNCHANGED <<treeVars, canvasVars>>
        \/ part = "tree" /\ Tree!Next /\ UNCHANGED <<historyVars, appVars, canvasVars>>
        \/ part = "canvas" /\ Canvas0!Next /\ UNCHANGED <<historyVars, appVars, treeVars>>

Overlaid == \/ part = "modal" /\ Overlay!ModalNext /\ UNCHANGED <<tooltipVars, scrollVars>>
            \/ part = "tooltip" /\ Overlay!TooltipNext /\ UNCHANGED <<modalVars, scrollVars>>
            \/ part = "scroll" /\ Control!ScrollNext /\ UNCHANGED <<modalVars, tooltipVars>>

Panel == \/ part = "collapse" /\ Moving!CollapseNext /\ UNCHANGED <<carouselVars, tabVars, buttonVars>>
         \/ part = "carousel" /\ Moving!CarouselNext /\ UNCHANGED <<collapseVars, tabVars, buttonVars>>
         \/ part = "tab" /\ Moving!TabNext /\ UNCHANGED <<collapseVars, carouselVars, buttonVars>>
         \/ part = "buttons" /\ Control!ButtonNext /\ UNCHANGED <<collapseVars, carouselVars, tabVars>>

(* The criteria and the viewer are functions of their inputs. *)
Next == /\ part' = part
        /\ UNCHANGED inputVars
        /\ \/ Backbone /\ UNCHANGED <<pageVars, bootstrapVars>>
           \/ Page /\ UNCHANGED <<backboneVars, bootstrapVars>>
           \/ Overlaid /\ UNCHANGED <<backboneVars, pageVars, panelVars>>
           \/ Panel /\ UNCHANGED <<backboneVars, pageVars, overlayVars>>

Spec == Init /\ [][Next]_vars

-----------------------------------------------------------------------------
(* The list, the index and the ties of a collection agree. *)
Indexed == Collection!Indexed

(* The canvas shows the tree, and so does the picture of the HBase viewer. *)
Canvas == Tree!Canvas /\ (part = "viewer" => Viewer!TreeDrawn)

(* clear leaves what the reader chose, and the times are in order. *)
ChosenOnly == Tree!ChosenOnly

(* The promise of reifyChildren and reifyParents is resolved once the      *)
(* requests are answered, as their comments say.                           *)
ReifyAnswers == Tree!ReifyAnswers

(* A click on the canvas counts once. *)
ClickOnce == Canvas0!ClickOnce

(* Once their transitions and timeouts have ended, the widgets of the page *)
(* are in the state that was last asked for.                               *)
WidgetsSettle == /\ Overlay!ModalSettles
                 /\ Overlay!NoTipLeft
                 /\ Moving!OnePanel
                 /\ Moving!OneItem
                 /\ Moving!PaneOfTab
                 /\ Control!ClicksAddUp
                 /\ Control!Marked /\ Control!Placed
=============================================================================
