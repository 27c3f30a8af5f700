----------------------------- MODULE BsOverlays -----------------------------
(***************************************************************************)
(* What bootstrap.js lays over the page.                                   *)
(*                                                                         *)
(* Modal, the dialog of the page, with showModal of modal.js on top: the   *)
(* element #modal fades, so that showing and hiding go on after the calls  *)
(* return, in handlers of the end of a transition; the timers of           *)
(* emulateTransitionEnd call them when the browser does not, one unit of   *)
(* time (150 ms) after a backdrop and two after a dialog.  A dialog may be *)
(* asked for at any time: many are warnings about answers of the server.   *)
(*                                                                         *)
(* Tooltip and Popover: a tip that comes and goes with the mouse and the   *)
(* focus (a popover: with clicks), after delays and with transitions, any  *)
(* of which may be overtaken by the next event.                            *)
(***************************************************************************)
EXTENDS Integers, Sequences, FiniteSets, SequencesExt

CONSTANTS MaxModals,   \* bound: calls of showModal
          MaxEvents    \* bound: events and calls of a tip

VARIABLES s,           \* the Modal and its elements, see New
          keys,        \* keypress handlers on the document
          overlap,     \* history: a dialog was asked for while one faded
          opened       \* history: number of calls of showModal

VARIABLES trigger,     \* options.trigger: "hover focus" or "click"
          delay,       \* options.delay is set
          t,           \* the Tooltip and its tip, see New
          over,        \* what is on the element: subset of {"mouse", "focus"}
          events

modalVars == <<s, keys, overlap, opened>>
tooltipVars == <<trigger, delay, t, over, events>>
vars == <<modalVars, tooltipVars>>

-----------------------------------------------------------------------------
(* Modal. *)

None == 0              \* no backdrop; the others are numbered
Element == -1          \* #modal
Dialog == -2           \* .modal-dialog

(* listens: the handlers of escape, resize and click.dismiss are there.    *)
(* pend: what waits for the end of a transition, [el, what, left].         *)
New == [isShown |-> FALSE, displayed |-> FALSE, modalOpen |-> FALSE, listens |-> FALSE,
        focusin |-> FALSE, backdrop |-> None, made |-> 0, pend |-> <<>>]

ModalInit == s = New /\ keys = 0 /\ overlap = FALSE /\ opened = 0

Later(m, el, what, left) ==
  [m EXCEPT !.pend = Append(@, [el |-> el, what |-> what, left |-> left])]

(* What show waits for with the backdrop; enforceFocus included. *)
Open(m) == Later([m EXCEPT !.displayed = TRUE, !.focusin = TRUE], Dialog, "shown", 2)
Close(m) == [m EXCEPT !.modalOpen = FALSE]
(* callbackRemove: the backdrop that the Modal has now is removed, with    *)
(* what waits for it.                                                      *)
removeBackdrop(m) == [m EXCEPT !.backdrop = None,
                               !.pend = SelectSeq(@, LAMBDA p : p.el # m.backdrop)]

(* backdrop(callback): what tells which. *)
Backdrop(m, what) ==
  IF m.isShown
  THEN Later([m EXCEPT !.made = @ + 1, !.backdrop = m.made + 1], m.made + 1, what, 1)
  ELSE IF m.backdrop # None THEN Later(m, m.backdrop, "remove", 1)
  ELSE IF what = "open" THEN Open(m) ELSE Close(m)

hideModal_LeavesBackdrop(m) == Close([m EXCEPT !.displayed = FALSE])
hideModal(m) == Backdrop([m EXCEPT !.displayed = FALSE], "close")

show(m) == IF m.isShown THEN m
           ELSE Backdrop([m EXCEPT !.isShown = TRUE, !.modalOpen = TRUE, !.listens = TRUE], "open")

hide(m) == IF ~m.isShown THEN m
           ELSE Later([m EXCEPT !.isShown = FALSE, !.listens = FALSE, !.focusin = FALSE],
                      Element, "hideModal", 2)

Complete(m, what) == CASE what = "open" -> Open(m)
                       [] what = "close" -> Close(m)
                       [] what = "remove" -> Close(removeBackdrop(m))
                       [] what = "hideModal" -> hideModal(m)
                       [] OTHER -> m

(* html(): the children of #modal go, the backdrop and the dialog among    *)
(* them, with the handlers on them.                                        *)
Refill(m) == [m EXCEPT !.pend = SelectSeq(@, LAMBDA p : p.el = Element)]

showModal ==
  /\ opened < MaxModals /\ opened' = opened + 1
  /\ keys' = keys + 1
  /\ s' = show(Refill(s))
  /\ overlap' = IF s.pend = <<>> THEN overlap /\ s.isShown ELSE TRUE

(* Enter: all handlers are taken off, and the button is clicked. *)
Enter == /\ keys > 0 /\ keys' = 0
         /\ s' = IF s.listens THEN hide(s) ELSE s
         /\ UNCHANGED <<overlap, opened>>

(* The buttons, the escape key and the backdrop of a dialog one can see. *)
Dismiss == /\ s.displayed /\ s.listens
           /\ s' = hide(s)
           /\ UNCHANGED <<keys, overlap, opened>>

(* The end of a transition of an element calls all that waits for it; no   *)
(* later than its timer.                                                   *)
TransitionEnd(el) ==
  LET due == SelectSeq(s.pend, LAMBDA p : p.el = el)
      rest == [s EXCEPT !.pend = SelectSeq(@, LAMBDA p : p.el # el)]
  IN /\ \E i \in DOMAIN due : due[i].left = 0
     /\ s' = FoldLeft(LAMBDA m, p : Complete(m, p.what), rest, due)
     /\ UNCHANGED <<keys, overlap, opened>>

Tick == /\ s.pend # <<>> /\ \A i \in DOMAIN s.pend : s.pend[i].left > 0
        /\ s' = [s EXCEPT !.pend = [i \in DOMAIN @ |-> [@[i] EXCEPT !.left = @ - 1]]]
        /\ UNCHANGED <<keys, overlap, opened>>

ModalNext == showModal \/ Enter \/ Dismiss \/ Tick
             \/ \E i \in DOMAIN s.pend : TransitionEnd(s.pend[i].el)

-----------------------------------------------------------------------------
(* Tooltip. *)

(* timer: none, or what the timeout does; pend: what waits for the end of  *)
(* the tip's transition; on: it is in the document; visible: class in;     *)
(* fade: the tip has the class, from its first show on.                    *)
NewTip == [enabled |-> TRUE, alive |-> TRUE, hoverState |-> "null", timer |-> "none",
        on |-> FALSE, visible |-> FALSE, fade |-> FALSE, pend |-> <<>>]

TooltipInit == /\ trigger \in {"hover focus", "click"} /\ delay \in BOOLEAN
        /\ t = NewTip /\ over = {} /\ events = 0

(* show: the tip is put into the document, and its classes set anew. *)
Tooltip_show(x) ==
  IF ~x.enabled THEN x
  ELSE [x EXCEPT !.on = TRUE, !.visible = TRUE, !.fade = TRUE, !.pend = Append(@, "shown")]

(* complete of hide, for destroy with the callback that ends it. *)
Hidden(x, last) == [x EXCEPT !.on = (@ /\ x.hoverState = "in"), !.alive = (@ /\ ~last)]

Tooltip_hide(x, last) ==
  LET y == [x EXCEPT !.visible = FALSE]
  IN [(IF y.fade THEN [y EXCEPT !.pend = Append(@, IF last THEN "destroyed" ELSE "hidden")]
                 ELSE Hidden(y, last)) EXCEPT !.hoverState = "null"]

(* enter: nothing to do while the tip is in the document. *)
enter(x) ==
  IF x.on THEN [x EXCEPT !.hoverState = "in"]
  ELSE IF delay THEN [x EXCEPT !.hoverState = "in", !.timer = "show"]
  ELSE Tooltip_show([x EXCEPT !.hoverState = "in", !.timer = "none"])

leave(x) ==
  IF delay THEN [x EXCEPT !.hoverState = "out", !.timer = "hide"]
  ELSE Tooltip_hide([x EXCEPT !.hoverState = "out", !.timer = "none"], FALSE)

toggle(x) == IF x.visible THEN leave(x) ELSE enter(x)

(* complete of show: who left meanwhile leaves now. *)
Shown_ForgetsLeave(x) == [x EXCEPT !.hoverState = "null"]
Shown(x) == LET y == [x EXCEPT !.hoverState = "null"]
            IN IF x.hoverState = "out" THEN leave(y) ELSE y

Tooltip_complete(x, what) == CASE what = "shown" -> Shown(x)
                               [] what = "hidden" -> Hidden(x, FALSE)
                               [] OTHER -> Hidden(x, TRUE)

-----------------------------------------------------------------------------
Event(x) == events < MaxEvents /\ events' = events + 1 /\ t' = x /\ UNCHANGED <<trigger, delay>>

(* The handlers of the events; off() of destroy takes them away. *)
TipEnter(what) == /\ what \notin over /\ over' = over \cup {what}
                  /\ Event(IF t.alive /\ trigger = "hover focus" THEN enter(t) ELSE t)
TipLeave(what) == /\ what \in over /\ over' = over \ {what}
                  /\ Event(IF t.alive /\ trigger = "hover focus" THEN leave(t) ELSE t)
TipClick == /\ t.alive /\ trigger = "click" /\ Event(toggle(t)) /\ UNCHANGED over

toggleEnabled == t.alive /\ Event([t EXCEPT !.enabled = ~@]) /\ UNCHANGED over
destroy == /\ t.alive /\ Event(Tooltip_hide([t EXCEPT !.timer = "none"], TRUE)) /\ UNCHANGED over

(* The timeout of enter and of leave. *)
TipTimeout ==
  /\ t.timer # "none"
  /\ LET x == [t EXCEPT !.timer = "none"]
     IN t' = CASE t.timer = "show" /\ t.hoverState = "in" -> Tooltip_show(x)
               [] t.timer = "hide" /\ t.hoverState = "out" -> Tooltip_hide(x, FALSE)
               [] OTHER -> x
  /\ UNCHANGED <<trigger, delay, over, events>>

(* The end of a transition calls all that waits for it. *)
TipTransitionEnd ==
  /\ t.pend # <<>>
  /\ t' = FoldLeft(LAMBDA x, what : Tooltip_complete(x, what), [t EXCEPT !.pend = <<>>], t.pend)
  /\ UNCHANGED <<trigger, delay, over, events>>

TooltipNext == \/ \E what \in {"mouse", "focus"} : TipEnter(what) \/ TipLeave(what)
               \/ TipClick \/ toggleEnabled \/ destroy \/ TipTimeout \/ TipTransitionEnd

-----------------------------------------------------------------------------
Init == ModalInit /\ TooltipInit

Next == \/ ModalNext /\ UNCHANGED tooltipVars
        \/ TooltipNext /\ UNCHANGED modalVars

Spec == Init /\ [][Next]_vars

-----------------------------------------------------------------------------
(* The page comes back: when all transitions have ended after a dialog was *)
(* dismissed, the page is not locked any more and backdrop and handlers    *)
(* are gone; and, unless a dialog was asked for while another one faded,   *)
(* it is to be seen just if it was not dismissed.                          *)
ModalSettles ==
  /\ s.listens = s.isShown /\ (s.isShown => s.backdrop # None)
  /\ s.pend = <<>> => /\ ~s.isShown => ~s.modalOpen /\ s.backdrop = None
                      /\ overlap \/ (s.isShown = s.displayed /\ s.isShown = s.modalOpen)

(* No tip stays behind: when no timeout and no transition is left and      *)
(* neither the mouse nor the focus is on the element, its tip is not in    *)
(* the document; and a tip that is to be seen is in it.                    *)
NoTipLeft ==
  t.timer = "none" /\ t.pend = <<>> =>
    /\ t.visible => t.on
    /\ trigger = "hover focus" /\ over = {} /\ t.alive => ~t.on
=============================================================================
