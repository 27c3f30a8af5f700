----------------------------- MODULE BsControls -----------------------------
(***************************************************************************)
(* The plugins of bootstrap.js that answer to clicks and to scrolling.     *)
(*                                                                         *)
(* Alert, Button and Dropdown: an alert fades before it is removed; the    *)
(* state of a button changes in a timeout; of the menus, opening one       *)
(* clears the others.                                                      *)
(*                                                                         *)
(* ScrollSpy and Affix, on one page that is scrolled and whose height may  *)
(* change: which of the sections is marked in the navigation, and whether  *)
(* an element is fixed at the top, moves with the page or rests at its     *)
(* bottom.                                                                 *)
(***************************************************************************)
EXTENDS Integers, Sequences, FiniteSets, SequencesExt

CONSTANTS Radios,      \* the buttons of a group of radio buttons
          Menus, Items,  \* the dropdowns; a menu has the items 0..Items-1
          None,
          MaxClicks    \* bound: clicks, keys and calls

CONSTANTS Layouts,     \* [scrollHeight -> offsets of the sections, ascending, less
                       \* the option offset]
          Height,      \* height of the window
          ElementTop, ElementHeight, \* where Affix's element stands, and its height
          OffsetTop, OffsetBottom,   \* Affix's options
          MaxScrolls   \* bound

VARIABLES closing,     \* calls of removeElement that wait for the alert's transition
          removed, closed, \* the alert is out of the document; its closed events that were heard
          queue,       \* timeouts of setState, in order: TRUE for loading
          isLoading, disabled, asked,  \* asked: history, the state last asked for
          pressed, checked,  \* the radio buttons with the class active; their inputs that are checked
          open, expanded,    \* the menus that are open; those with aria-expanded
          focus,       \* <<menu, item>> with the focus, item -1 for its toggle; or None
          clicks

VARIABLES page,        \* the height of the page: an element of DOMAIN Layouts
          scrollTop,
          offsets, scrollHeight, \* ScrollSpy: what refresh saw
          activeTarget,          \* the index of the section that is marked, 0 for none
          stale,       \* history: the last process found another height
          affixed,     \* Affix.affixed: "null", "top", "bottom" or "false"
          scrolls

buttonVars == <<closing, removed, closed, queue, isLoading, disabled, asked, pressed, checked,
                open, expanded, focus, clicks>>
scrollVars == <<page, scrollTop, offsets, scrollHeight, activeTarget, stale, affixed, scrolls>>
vars == <<buttonVars, scrollVars>>
alertVars == <<closing, removed, closed>>
stateVars == <<queue, isLoading, disabled, asked>>
radioVars == <<pressed, checked>>
menuVars == <<open, expanded, focus>>

Toggle == -1

ButtonInit ==
  /\ closing = 0 /\ removed = FALSE /\ closed = 0
  /\ queue = <<>> /\ isLoading = FALSE /\ disabled = FALSE /\ asked = FALSE
  /\ pressed = {} /\ checked = {}
  /\ open = {} /\ expanded = {} /\ focus = None /\ clicks = 0

Click == clicks < MaxClicks /\ clicks' = clicks + 1

-----------------------------------------------------------------------------
(* Alert.close, perhaps several times before the alert has faded. *)
close == /\ Click /\ ~removed /\ closing' = closing + 1
         /\ UNCHANGED <<removed, closed, stateVars, radioVars, menuVars>>

(* removeElement, for every call of close: after the first one remove()    *)
(* has taken the handlers off that would hear the event again.             *)
removeElement_KeepsHandlers == removed' = TRUE /\ closed' = closed + closing
removeElement == removed' = TRUE /\ closed' = IF removed THEN closed ELSE closed + 1

AlertEnd == /\ closing > 0 /\ closing' = 0
            /\ removeElement
            /\ UNCHANGED <<stateVars, radioVars, menuVars, clicks>>

-----------------------------------------------------------------------------
(* Button.setState: loading, or another state. *)
setState(loading) == /\ Click /\ queue' = Append(queue, loading) /\ asked' = loading
                     /\ UNCHANGED <<alertVars, isLoading, disabled, radioVars, menuVars>>
StateTimeout ==
  /\ queue # <<>> /\ queue' = Tail(queue)
  /\ isLoading' = Head(queue)
  /\ disabled' = IF Head(queue) THEN TRUE ELSE IF isLoading THEN FALSE ELSE disabled
  /\ UNCHANGED <<alertVars, asked, radioVars, menuVars, clicks>>

(* Button.toggle of a radio button; the browser lets one input be checked. *)
toggle_KeepsOthers(b) ==
  /\ Click /\ ~(b \in checked /\ b \in pressed)
  /\ checked' = {b} /\ pressed' = pressed \cup {b}
  /\ UNCHANGED <<alertVars, stateVars, menuVars>>
toggle(b) ==
  /\ Click /\ ~(b \in checked /\ b \in pressed)
  /\ checked' = {b} /\ pressed' = {b}
  /\ UNCHANGED <<alertVars, stateVars, menuVars>>

-----------------------------------------------------------------------------
(* Dropdown.toggle: all menus are cleared, and this one opened unless it   *)
(* was open.                                                               *)
Toggled(m) == /\ open' = IF m \in open THEN {} ELSE {m}
              /\ expanded' = (expanded \ open) \cup open'
MenuClick(m) == /\ Click /\ Toggled(m)
                /\ focus' = <<m, Toggle>>
                /\ UNCHANGED <<alertVars, stateVars, radioVars>>

(* clearMenus, by a click elsewhere. *)
clearMenus == /\ Click /\ open' = {} /\ expanded' = expanded \ open
              /\ UNCHANGED <<focus, alertVars, stateVars, radioVars>>

(* keydown on the toggle or on an item of a menu. *)
keydown(m, i, key) ==
  /\ Click
  /\ IF (m \notin open /\ key # "escape") \/ (m \in open /\ key = "escape")
     THEN Toggled(m) /\ focus' = <<m, Toggle>>
     ELSE /\ focus' = CASE m \notin open -> focus
                        [] key = "up" /\ i > 0 -> <<m, i - 1>>
                        [] key = "down" /\ i < Items - 1 -> <<m, i + 1>>
                        [] i = Toggle -> <<m, 0>>
                        [] OTHER -> focus
          /\ UNCHANGED <<open, expanded>>
  /\ UNCHANGED <<alertVars, stateVars, radioVars>>

ButtonNext ==
  \/ close \/ AlertEnd \/ StateTimeout \/ clearMenus
  \/ \E loading \in BOOLEAN : setState(loading)
  \/ \E b \in Radios : toggle(b)
  \/ \E m \in Menus : MenuClick(m)
  \/ /\ focus # None
     /\ \E key \in {"up", "down", "escape"} : keydown(focus[1], focus[2], key)

-----------------------------------------------------------------------------
MaxScroll(h) == h - Height

-----------------------------------------------------------------------------
(* ScrollSpy.process, with the old offsets even if it refreshes them.  The *)
(* loop goes from the last section to the first and looks at the target    *)
(* that was active before: of two that match at a border, the first one    *)
(* stays unless it was active.                                             *)
Matching(os, st) == {i \in DOMAIN os : /\ st >= os[i]
                                       /\ i = Len(os) \/ os[i + 1] = 0 \/ st <= os[i + 1]}
process_FirstBelow(os, st, h, old) ==
  IF st >= MaxScroll(h) THEN Len(os)
  ELSE IF old # 0 /\ st < os[1] THEN 0
  ELSE LET hits == {i \in DOMAIN os : st >= os[i]} \ {old}
       IN IF hits = {} THEN old ELSE Min(hits)
process(os, st, h, old) ==
  IF st >= MaxScroll(h) THEN Len(os)
  ELSE IF old # 0 /\ st < os[1] THEN 0
  ELSE LET hits == Matching(os, st) \ {old}
       IN IF hits = {} THEN old ELSE Min(hits)

-----------------------------------------------------------------------------
(* Affix: where the element is, for the state it is in. *)
Position(a, h, st) == CASE a = "false" -> st
                        [] a = "bottom" -> h - ElementHeight - OffsetBottom
                        [] OTHER -> ElementTop

(* unpin: the distance from the top of the window of the fixed element is  *)
(* 0 here.                                                                 *)
getState_NeverUnpins(a, h, st) ==
  CASE a \in {"top", "bottom"} -> a
    [] Position(a, h, st) <= OffsetTop -> "top"
    [] Position(a, h, st) + ElementHeight >= h - OffsetBottom -> "bottom"
    [] OTHER -> "false"
getState(a, h, st) ==
  LET pos == Position(a, h, st)
      top == IF a = "null" THEN st ELSE pos
      height == IF a = "null" THEN Height ELSE ElementHeight
  IN CASE a = "top" -> IF st < OffsetTop THEN "top" ELSE "false"
       [] a = "bottom" -> IF st <= pos THEN "false" ELSE "bottom"
       [] top <= OffsetTop -> "top"
       [] top + height >= h - OffsetBottom -> "bottom"
       [] OTHER -> "false"

checkPosition(a, h, st) == getState(a, h, st)

-----------------------------------------------------------------------------
ScrollInit ==
  /\ page \in DOMAIN Layouts /\ scrollTop \in 0..MaxScroll(page)
  /\ offsets = Layouts[page] /\ scrollHeight = page
  /\ activeTarget = process(Layouts[page], scrollTop, page, 0)
  /\ affixed = checkPosition("null", page, scrollTop)
  /\ stale = FALSE /\ scrolls = 0

(* A scroll event goes to both. *)
Scrolled(st) ==
  /\ activeTarget' = process(offsets, st, page, activeTarget)
  /\ stale' = (scrollHeight # page)
  /\ offsets' = Layouts[page] /\ scrollHeight' = page
  /\ affixed' = checkPosition(affixed, page, st)
  /\ scrollTop' = st

Scroll(st) == /\ scrolls < MaxScrolls /\ scrolls' = scrolls + 1
              /\ st # scrollTop /\ Scrolled(st) /\ UNCHANGED page

(* The page gets longer or shorter, which neither of them hears. *)
Resize(h) == /\ scrolls < MaxScrolls /\ scrolls' = scrolls + 1
             /\ h # page /\ scrollTop <= MaxScroll(h) /\ page' = h
             /\ stale' = TRUE
             /\ UNCHANGED <<scrollTop, offsets, scrollHeight, activeTarget, affixed>>

(* checkPositionWithEventLoop, after a click. *)
Affix_click ==
         /\ scrolls < MaxScrolls /\ scrolls' = scrolls + 1
         /\ affixed' = checkPosition(affixed, page, scrollTop)
         /\ UNCHANGED <<page, scrollTop, offsets, scrollHeight, activeTarget, stale>>

ScrollNext ==
  \/ \E st \in 0..MaxScroll(page) : Scroll(st)
  \/ \E h \in DOMAIN Layouts : Resize(h)
  \/ Affix_click

Init == ButtonInit /\ ScrollInit

Next == \/ ButtonNext /\ UNCHANGED scrollVars
        \/ ScrollNext /\ UNCHANGED buttonVars

Spec == Init /\ [][Next]_vars

-----------------------------------------------------------------------------
(* Clicks in a row: an alert closed several times is removed and reported  *)
(* once; a button is disabled just if it loads, which is what was last     *)
(* asked for once the timeouts ran; at most one radio button is pressed,   *)
(* the one that is checked; at most one menu is open, and said to be.      *)
ClicksAddUp ==
  /\ closed = IF removed THEN 1 ELSE 0
  /\ disabled = isLoading /\ (queue = <<>> => isLoading = asked)
  /\ Cardinality(pressed) <= 1 /\ pressed = checked
  /\ Cardinality(open) <= 1 /\ expanded = open

(* The right section is marked, wherever the reader came from: the last    *)
(* one that begins above, or the last one at the end of the page, unless   *)
(* the page changed its height before the last scroll; on the border of    *)
(* two sections it may be either.                                          *)
Marked ==
  LET above == {i \in DOMAIN offsets : offsets[i] <= scrollTop}
      last == IF above = {} THEN 0 ELSE Max(above)
  IN ~stale => IF scrollTop >= MaxScroll(page) THEN activeTarget = Len(offsets)
               ELSE \/ activeTarget = last
                    \/ last > 0 /\ offsets[last] = scrollTop /\ activeTarget = last - 1

(* The element rests at the top or at the bottom only there: it is not     *)
(* left at the top below its offset, nor at the bottom where it would fit  *)
(* above it, except before the first event and after a change of height.   *)
Placed ==
  ~stale /\ scrolls > 0 =>
    /\ affixed = "top" => scrollTop <= OffsetTop
    /\ affixed = "bottom" => scrollTop + ElementHeight >= page - OffsetBottom
=============================================================================
