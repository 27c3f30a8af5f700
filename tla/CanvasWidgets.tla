---------------------------- MODULE CanvasWidgets ----------------------------
(***************************************************************************)
(* The widgets on the canvas and the mouse: widget_manager.js,             *)
(* triangle_button.js, partition_widget.js, time_cursor.js, and the mouse  *)
(* handlers of search_results_view.js.  The mouse may be pressed and       *)
(* released outside the canvas, which only hears of what happens on it,    *)
(* and the page may be drawn again at any time, with new widgets.          *)
(*                                                                         *)
(* The canvas is a set of places: one for each button, Home where the      *)
(* partition is drawn, and Far, on the axis of time beyond the limit of    *)
(* the partition; all of them lie on the row of some span.                 *)
(***************************************************************************)
EXTENDS Integers, Sequences, FiniteSets, SequencesExt

CONSTANTS Buttons, Home, Far, Outside,
          MaxEvents    \* bound

VARIABLES listeners,   \* WidgetManager.listeners: [type -> sequence of widgets]
          selected,    \* the widgets that are selected
          box,         \* where the partition is
          time,        \* TimeCursor.selectedTime: the place it was computed from
          pointer, held, \* the mouse; its button is down
          armed,       \* history: buttons that got a mouseDown since they were made
          fired,       \* history: the callbacks of the last mouseUp
          released,    \* history: the last event was a mouseUp, or the page was drawn
          count

vars == <<listeners, selected, box, time, pointer, held, armed, fired, released, count>>

Partition == "partition"
Cursor == "cursor"
Row == "row"
Places == Buttons \cup {Home, Far}

(* PartitionWidget.mouseMove keeps the partition within its limits. *)
Clamp(p) == IF p = Far THEN Home ELSE p

(* setupWidgets: the buttons register before their row, the partition then *)
(* and the time cursor last.                                               *)
Fresh == [mouseDown |-> SetToSeq(Buttons) \o <<Row, Partition>>, mouseUp |-> <<>>,
          mouseMove |-> <<Cursor>>, mouseOut |-> <<>>]

Init == /\ listeners = Fresh /\ selected = {} /\ box = Home /\ time = Outside
        /\ pointer = Outside /\ held = FALSE
        /\ armed = {} /\ fired = <<>> /\ released = TRUE /\ count = 0

register(ls, types, w) ==
  [t \in DOMAIN ls |-> IF t \in types THEN Append(ls[t], w) ELSE ls[t]]
registerHighPriority(ls, types, w) ==
  [t \in DOMAIN ls |-> IF t \in types THEN <<w>> \o ls[t] ELSE ls[t]]
(* _.without removes all of them. *)
unregister(ls, types, w) ==
  [t \in DOMAIN ls |-> IF t \in types THEN SelectSeq(ls[t], LAMBDA x : x # w) ELSE ls[t]]

(* What the handlers change: the state of an event, go while it goes on. *)
State == [ls |-> listeners, sel |-> selected, box |-> box, time |-> time,
          fired |-> <<>>, armed |-> armed, go |-> TRUE]

(* The page is drawn: a new manager, and new widgets. *)
Drawn(s) == [s EXCEPT !.ls = Fresh, !.sel = {}, !.box = Home, !.armed = {}]

buttonUp_StaysSelected(s, w) ==
  [s EXCEPT !.fired = IF w \in s.sel THEN Append(@, w) ELSE @,
            !.ls = unregister(@, {"mouseUp", "mouseMove", "mouseOut"}, w)]
buttonUp(s, w) ==
  [s EXCEPT !.fired = IF w \in s.sel THEN Append(@, w) ELSE @, !.sel = @ \ {w},
            !.ls = unregister(@, {"mouseUp", "mouseMove", "mouseOut"}, w)]

(* TriangleButton.handle *)
handleButton(s, w, type, p) ==
  CASE type = "mouseDown" ->
         IF p # w THEN s
         ELSE [s EXCEPT !.ls = register(@, {"mouseUp", "mouseMove", "mouseOut"}, w),
                        !.sel = @ \cup {w}, !.armed = @ \cup {w}, !.go = FALSE]
    [] type = "mouseUp" -> buttonUp(s, w)
    [] type = "mouseMove" -> [s EXCEPT !.sel = IF p = w THEN @ \cup {w} ELSE @ \ {w}]
    [] OTHER -> [s EXCEPT !.sel = @ \ {w}]

(* PartitionWidget.handle; its releaseHandler draws the page. *)
handlePartition(s, type, p) ==
  CASE type = "mouseDown" ->
         IF p # s.box THEN s
         ELSE [s EXCEPT !.ls = registerHighPriority(@, {"mouseUp", "mouseMove"}, Partition),
                        !.sel = @ \cup {Partition}, !.go = FALSE]
    [] type = "mouseMove" -> [s EXCEPT !.box = Clamp(p), !.go = FALSE]
    [] OTHER -> Drawn([s EXCEPT !.go = FALSE])

(* TimeCursor.handle, and the rows, which take a mouseDown and let it pass. *)
handleWidget(s, w, type, p) ==
  CASE w \in Buttons -> handleButton(s, w, type, p)
    [] w = Partition -> handlePartition(s, type, p)
    [] w = Cursor -> [s EXCEPT !.time = IF p = Far THEN p ELSE @]
    [] OTHER -> s

(* WidgetManager.handle: a copy of the listeners, until one returns false. *)
handle(type, p) ==
  FoldLeft(LAMBDA s, w : IF s.go THEN handleWidget(s, w, type, p) ELSE s, State, listeners[type])

Apply(s) == /\ listeners' = s.ls /\ selected' = s.sel /\ box' = s.box /\ time' = s.time
            /\ fired' = s.fired /\ armed' = s.armed
            /\ count < MaxEvents /\ count' = count + 1

-----------------------------------------------------------------------------
handleMouseDown == /\ pointer # Outside /\ ~held
                   /\ Apply(handle("mouseDown", pointer)) /\ held' = TRUE
                   /\ released' = FALSE /\ UNCHANGED pointer
handleMouseUp == /\ pointer # Outside /\ held
                 /\ Apply(handle("mouseUp", pointer)) /\ held' = FALSE
                 /\ released' = TRUE /\ UNCHANGED pointer
handleMouseMove(p) == /\ p # pointer
                      /\ Apply(handle("mouseMove", p)) /\ pointer' = p
                      /\ released' = FALSE /\ UNCHANGED held
handleMouseOut == /\ pointer # Outside
                  /\ Apply(handle("mouseOut", pointer)) /\ pointer' = Outside
                  /\ released' = FALSE /\ UNCHANGED held

(* What the canvas does not hear. *)
Elsewhere == /\ pointer = Outside /\ held' = ~held
             /\ UNCHANGED <<listeners, selected, box, time, pointer, armed, fired, released, count>>

(* The page is drawn again, for an answer of the server or a new size. *)
render == /\ Apply(Drawn(State)) /\ released' = TRUE /\ UNCHANGED <<pointer, held>>

Next == \/ handleMouseDown \/ handleMouseUp \/ handleMouseOut \/ Elsewhere \/ render
        \/ \E p \in Places : handleMouseMove(p)

Spec == Init /\ [][Next]_vars

-----------------------------------------------------------------------------
(* A click counts once, for the button it is on: a mouseUp runs at most    *)
(* one callback, of the button under the mouse, which was pressed since it *)
(* was drawn; and no widget holds the mouse after it was released on the   *)
(* canvas, even if it was also released outside before.                    *)
ClickOnce ==
  /\ Len(fired) <= 1 /\ ToSet(fired) \subseteq {pointer}
  /\ selected \cap Buttons \subseteq armed
  /\ released => /\ listeners = Fresh /\ selected = {}
=============================================================================
