------------------------------ MODULE BsPanels ------------------------------
(***************************************************************************)
(* The plugins of bootstrap.js that move one thing out of the way for      *)
(* another, in transitions that take time.                                 *)
(*                                                                         *)
(* Collapse: the panels of an accordion, in their order in the document,   *)
(* each with one trigger.  Opening one closes the others; both take a      *)
(* transition.  All panels are closed when the page is loaded, and get     *)
(* their Collapse with the first click on their trigger.                   *)
(*                                                                         *)
(* Carousel, with transitions: items 0..N-1 of which one is active, a      *)
(* slide that takes time, an interval that calls next, and positions that  *)
(* were asked for during a slide and wait for its end.                     *)
(*                                                                         *)
(* Tab: tabs whose panes fade.  The tab changes at once, its pane when the *)
(* pane before it has faded.                                               *)
(***************************************************************************)
EXTENDS Integers, Sequences, FiniteSets, FiniteSetsExt, SequencesExt

CONSTANTS Panels,      \* 1..n
          N,           \* items, at least 2
          Tabs, First, \* First is active when the page is loaded
          MaxClicks,   \* bound: clicks and calls on panels, and on tabs
          MaxCalls     \* bound: calls and events of the mouse on the carousel

VARIABLES class,       \* [Panels -> {"collapse", "in", "collapsing"}]
          transitioning,
          collapsed,   \* the triggers with the class collapsed
          panelPend,   \* [Panels -> {"none", "shown", "hidden"}]: what waits for the transition
          panelClicks

VARIABLES active,      \* the items with the class active
          indicator,   \* the active indicator
          sliding, paused,
          interval,    \* this.interval: 0 or the number of a timer
          timers,      \* the timers that run
          slide,       \* what waits for the transition: <<>> or <<[from, to]>>
          slid,        \* events slid.bs.carousel to come
          waiting,     \* positions that wait for that event
          asked,       \* history: positions asked for and not yet reached or given up
          made, calls

VARIABLES li,          \* the tabs that are active
          panes,       \* the panes that are active
          in,          \* the panes with the class in
          tabPend,     \* [Tabs -> sequence]: what waits for the end of the transition
                       \* of a pane: [to, active], the pane to activate and the old ones
          tabShown,    \* the tab of the last event shown.bs.tab
          overtaken,   \* history: a tab was chosen while a pane faded
          tabClicks

collapseVars == <<class, transitioning, collapsed, panelPend, panelClicks>>
carouselVars == <<active, indicator, sliding, paused, interval, timers, slide, slid,
                  waiting, asked, made, calls>>
tabVars == <<li, panes, in, tabPend, tabShown, overtaken, tabClicks>>
vars == <<collapseVars, carouselVars, tabVars>>

-----------------------------------------------------------------------------
(* Collapse. *)

CollapseInit ==
  /\ class = [p \in Panels |-> "collapse"]
  /\ transitioning = {} /\ collapsed = Panels
  /\ panelPend = [p \in Panels |-> "none"] /\ panelClicks = 0

Actives == {p \in Panels : class[p] # "collapse"}

(* show, unless the first of the others that are open or moving moves; it  *)
(* hides all of them that do not move (hide returns for the others).       *)
show_IgnoresActives(p) ==
  LET hidden == {q \in Actives : class[q] = "in" /\ q \notin transitioning}
  IN /\ p \notin transitioning /\ class[p] # "in"
     /\ class' = [q \in Panels |-> IF q \in hidden \cup {p} THEN "collapsing" ELSE class[q]]
     /\ transitioning' = transitioning \cup hidden \cup {p}
     /\ collapsed' = (collapsed \cup hidden) \ {p}
     /\ panelPend' = [q \in Panels |-> IF q = p THEN "shown" ELSE IF q \in hidden THEN "hidden" ELSE panelPend[q]]

show(p) ==
  LET hidden == {q \in Actives : class[q] = "in" /\ q \notin transitioning}
  IN /\ p \notin transitioning /\ class[p] # "in"
     /\ Actives # {} => Min(Actives) \notin transitioning
     /\ class' = [q \in Panels |-> IF q \in hidden \cup {p} THEN "collapsing" ELSE class[q]]
     /\ transitioning' = transitioning \cup hidden \cup {p}
     /\ collapsed' = (collapsed \cup hidden) \ {p}
     /\ panelPend' = [q \in Panels |-> IF q = p THEN "shown" ELSE IF q \in hidden THEN "hidden" ELSE panelPend[q]]

hide(p) ==
  /\ p \notin transitioning /\ class[p] = "in"
  /\ class' = [class EXCEPT ![p] = "collapsing"]
  /\ transitioning' = transitioning \cup {p}
  /\ collapsed' = collapsed \cup {p}
  /\ panelPend' = [panelPend EXCEPT ![p] = "hidden"]

(* A click on the trigger; show and hide are also called on their own. *)
Toggle(p) == /\ panelClicks < MaxClicks /\ panelClicks' = panelClicks + 1
             /\ IF class[p] = "in" THEN hide(p) ELSE show(p)

(* complete, at the end of the transition. *)
Complete(p) ==
  /\ panelPend[p] # "none"
  /\ class' = [class EXCEPT ![p] = IF panelPend[p] = "shown" THEN "in" ELSE "collapse"]
  /\ transitioning' = transitioning \ {p}
  /\ panelPend' = [panelPend EXCEPT ![p] = "none"]
  /\ UNCHANGED <<collapsed, panelClicks>>

CollapseNext == \E p \in Panels : Toggle(p) \/ Complete(p)

-----------------------------------------------------------------------------
(* Carousel. *)

Items == 0..N - 1

(* What the operations change; x is a record of it. *)
State == [sliding |-> sliding, paused |-> paused, interval |-> interval, timers |-> timers,
          slide |-> slide, indicator |-> indicator, waiting |-> waiting, made |-> made]

CarouselInit ==
  /\ active = {0} /\ indicator = 0 /\ sliding = FALSE /\ paused = FALSE
  /\ interval = 0 /\ timers = {} /\ slide = <<>> /\ slid = 0 /\ waiting = <<>>
  /\ asked = {} /\ made = 0 /\ calls = 0

cycle_NoClear(x, e) ==
  LET y == [x EXCEPT !.paused = e /\ @]
  IN IF y.paused THEN y
     ELSE [y EXCEPT !.made = @ + 1, !.interval = y.made + 1, !.timers = @ \cup {y.made + 1}]

(* cycle and pause; e: called with an event (or true).  clearInterval      *)
(* leaves the number of the timer in cycle, not in pause.                  *)
cycle(x, e) ==
  LET y == [x EXCEPT !.paused = e /\ @, !.timers = @ \ {x.interval}]
  IN IF y.paused THEN y
     ELSE [y EXCEPT !.made = @ + 1, !.interval = y.made + 1, !.timers = @ \cup {y.made + 1}]
pause(x, e) ==
  LET y == [x EXCEPT !.paused = ~e \/ @]
      z == IF y.slide # <<>> THEN cycle(y, TRUE) ELSE y
  IN [z EXCEPT !.timers = @ \ {z.interval}, !.interval = 0]

(* slide from the active item; the interval stands still meanwhile. *)
Slide(x, to) ==
  LET from == CHOOSE i \in active : TRUE
      y == [x EXCEPT !.sliding = TRUE]
      z == IF x.interval # 0 THEN pause(y, FALSE) ELSE y
      w == [z EXCEPT !.indicator = to, !.slide = <<[from |-> from, to |-> to]>>]
  IN IF to \in active THEN [x EXCEPT !.sliding = FALSE]
     ELSE IF x.interval # 0 THEN cycle(w, FALSE) ELSE w

(* getItemForDirection: beyond the last item is the first one; before the  *)
(* first, eq(-1) is the last.                                              *)
Step(x, delta) == IF x.sliding THEN x
                  ELSE Slide(x, ((CHOOSE i \in active : TRUE) + delta + N) % N)

to(x, pos) == IF x.sliding THEN [x EXCEPT !.waiting = Append(@, pos)]
              ELSE IF pos \in active THEN cycle(pause(x, FALSE), FALSE)
              ELSE Slide(x, pos)

Set(x) == /\ sliding' = x.sliding /\ paused' = x.paused /\ interval' = x.interval
          /\ timers' = x.timers /\ slide' = x.slide /\ indicator' = x.indicator
          /\ waiting' = x.waiting /\ made' = x.made

Call(x) == calls < MaxCalls /\ calls' = calls + 1 /\ Set(x) /\ UNCHANGED <<active, slid>>

Cycle(e) == Call(cycle(State, e)) /\ UNCHANGED asked
Pause(e) == Call(pause(State, e)) /\ UNCHANGED asked
Move(delta) == Call(Step(State, delta)) /\ UNCHANGED asked
To(pos) == Call(to(State, pos)) /\ asked' = IF sliding THEN asked \cup {pos} ELSE asked
Interval(i) == i \in timers /\ Call(Step(State, 1)) /\ UNCHANGED asked

(* The end of the transition; the event slid comes later. *)
SlideEnd ==
  /\ slide # <<>>
  /\ active' = (active \cup {slide[1].to}) \ {slide[1].from}
  /\ sliding' = FALSE /\ slide' = <<>> /\ slid' = slid + 1
  /\ asked' = asked \ {slide[1].to}
  /\ UNCHANGED <<indicator, paused, interval, timers, waiting, made, calls>>

(* The event slid: the positions that wait are tried in turn; those that   *)
(* find a slide going on wait for the next event.                          *)
RECURSIVE TryAll(_, _)
TryAll(x, ps) == IF ps = <<>> THEN x ELSE TryAll(to(x, Head(ps)), Tail(ps))

Slid == /\ slid > 0 /\ slid' = slid - 1
        /\ Set(TryAll([State EXCEPT !.waiting = <<>>], waiting))
        /\ asked' = IF sliding THEN asked ELSE asked \ active
        /\ UNCHANGED <<active, calls>>

CarouselNext ==
  \/ \E e \in BOOLEAN : Cycle(e) \/ Pause(e)
  \/ \E delta \in {-1, 1} : Move(delta)
  \/ \E pos \in Items : To(pos)
  \/ \E i \in timers : Interval(i)
  \/ SlideEnd \/ Slid

-----------------------------------------------------------------------------
(* Tab. *)

TabInit ==
  /\ li = {First} /\ panes = {First} /\ in = {First} /\ tabShown = First
  /\ tabPend = [t \in Tabs |-> <<>>] /\ overtaken = FALSE /\ tabClicks = 0

(* What next of activate does to the panes; old: the panes that were       *)
(* active when activate was called.                                        *)
NextPanes_KeepsOld(ps, old, t) == ps \cup {t}
NextPanes(ps, old, t) == (ps \ old) \cup {t}

(* show, by a click: nothing for the tab that is active.  Without an       *)
(* active pane there is nothing to wait for.                               *)
showTab(t) ==
  /\ tabClicks < MaxClicks /\ tabClicks' = tabClicks + 1
  /\ t \notin li
  /\ li' = {t}
  /\ tabPend' = [p \in Tabs |-> IF p \in panes THEN Append(tabPend[p], [to |-> t, active |-> panes]) ELSE tabPend[p]]
  /\ in' = in \ panes
  /\ overtaken' = (overtaken \/ \E p \in Tabs : tabPend[p] # <<>> \/ Cardinality(panes) > 1)
  /\ UNCHANGED <<panes, tabShown>>

(* The end of the transition of a pane: all that waits for it. *)
PaneEnd(p) ==
  /\ tabPend[p] # <<>>
  /\ panes' = FoldLeft(LAMBDA ps, n : NextPanes(ps, n.active, n.to), panes, tabPend[p])
  /\ in' = in \cup {tabPend[p][i].to : i \in DOMAIN tabPend[p]}
  /\ tabShown' = Last(tabPend[p]).to
  /\ tabPend' = [tabPend EXCEPT ![p] = <<>>]
  /\ UNCHANGED <<li, overtaken, tabClicks>>

TabNext == \E t \in Tabs : showTab(t) \/ PaneEnd(t)

-----------------------------------------------------------------------------
(* The plugins know nothing of one another. *)
Init == CollapseInit /\ CarouselInit /\ TabInit

Next == \/ CollapseNext /\ UNCHANGED <<carouselVars, tabVars>>
        \/ CarouselNext /\ UNCHANGED <<collapseVars, tabVars>>
        \/ TabNext /\ UNCHANGED <<collapseVars, carouselVars>>

Spec == Init /\ [][Next]_vars

-----------------------------------------------------------------------------
(* One panel at a time: no two panels are open or opening, in whatever     *)
(* order the transitions end; and when none is left, no panel is stuck     *)
(* half way and the triggers look like their panels.                       *)
OnePanel ==
  /\ Cardinality({p \in Panels : class[p] = "in" \/ panelPend[p] = "shown"}) <= 1
  /\ (\A p \in Panels : panelPend[p] = "none") =>
       /\ transitioning = {}
       /\ \A p \in Panels : class[p] = IF p \in collapsed THEN "collapse" ELSE "in"

(* One item and one timer: exactly one item is active whatever is called   *)
(* during a slide, the indicator shows where it goes, at most one interval *)
(* runs and it is the one the carousel knows (so that pause stops it), and *)
(* no position that was asked for is forgotten.                            *)
OneItem ==
  /\ Cardinality(active) = 1
  /\ sliding <=> slide # <<>>
  /\ indicator = IF slide = <<>> THEN CHOOSE i \in active : TRUE ELSE slide[1].to
  /\ timers \subseteq {interval} /\ (paused => timers = {})
  /\ \A p \in asked : (\E i \in DOMAIN waiting : waiting[i] = p) \/ (slide # <<>> /\ slide[1].to = p)
  /\ waiting # <<>> => sliding \/ slid > 0

(* The pane of the tab: one tab is active, and when no transition is left  *)
(* its pane is the only one to be seen and the event named it; unless a    *)
(* tab was chosen while a pane was fading (next then runs twice for the    *)
(* pane that was left, and two panes stay active).                         *)
PaneOfTab ==
  /\ Cardinality(li) = 1
  /\ (\A p \in Tabs : tabPend[p] = <<>>) /\ ~overtaken => panes = li /\ in = li /\ tabShown \in li
=============================================================================
