------------------------------ MODULE LobbyNav ------------------------------
(***************************************************************************)
(* The site nav over the cave: a bar that slides out of the wall's way on  *)
(* a desktop and comes back for the pointer, the keyboard or an open panel *)
(* of its own; a menu button on a phone; a plain bar without the wall.     *)
(* The lobby publishes its state and the window changes size as they like; *)
(* the pointer and the focus are the visitor's.                            *)
(***************************************************************************)
EXTENDS Naturals

\* publishLobbyState's words; without a wall the page is a normal page (isFallback).
LobbyStates == {"loading", "ready", "unsupported", "lost", "off", "flat"}
IsFallback(s) == s \in {"flat", "off", "unsupported", "lost"}

Pointers == {"strip", "bar", "outside"}
Focuses == {"page", "bar", "button"}

VARIABLES
  lobby,     \* the published state
  compact,   \* a touch screen or a narrow window
  pointer,   \* where the pointer is
  focus,     \* where keyboard focus is
  hold,      \* what the bar remembers: overStrip, overBar, focusIn, panelOpen, linger
  menuOpen

vars == <<lobby, compact, pointer, focus, hold, menuOpen>>

ModeOf(s, c) ==
  IF IsFallback(s) THEN "bar" ELSE IF c THEN "menu" ELSE IF s = "ready" THEN "slide" ELSE "arrival"
Mode == ModeOf(lobby, compact)

HeldBy(h, mode) == (mode = "slide" /\ h.overStrip) \/ h.overBar \/ h.focusIn \/ h.panelOpen

\* shown, and with it everything that is not inert.
ShownWith(h, mode, opened) ==
  CASE mode = "slide" -> HeldBy(h, mode) \/ h.linger
    [] mode = "menu" -> opened
    [] OTHER -> TRUE
Shown == ShownWith(hold, Mode, menuOpen)

\* A hold keeps it lingering; letting go starts the delay.
Lingering(h, mode) == [h EXCEPT !.linger = @ \/ HeldBy(h, mode)]

\* What is gone takes focus with it, and the browser says so (onBlur).
Focusable(f, h, mode, opened) ==
  CASE f = "bar" -> ShownWith(h, mode, opened)
    [] f = "button" -> mode = "menu"
    [] OTHER -> TRUE

\* A change of mode: its effects, and focus off what went with it.
Becomes(s, c) ==
  LET mode == ModeOf(s, c)
      opened == menuOpen /\ mode = "menu"
      h == [hold EXCEPT !.overStrip = @ /\ mode = "slide"]
      kept == Focusable(focus, h, mode, opened)
  IN  /\ menuOpen' = opened
      /\ focus' = IF kept THEN focus ELSE "page"
      /\ hold' = Lingering([h EXCEPT !.focusIn = @ /\ kept], mode)

-----------------------------------------------------------------------------
\* publishLobbyState
Publish(s) ==
  /\ s # lobby
  /\ lobby' = s
  /\ Becomes(s, compact)
  /\ UNCHANGED <<compact, pointer>>

\* The window narrows or widens (COMPACT_QUERY).
Resize ==
  /\ compact' = ~compact
  /\ Becomes(lobby, ~compact)
  /\ UNCHANGED <<lobby, pointer>>

\* Mutant of PointerMoves: leaving the bar through the strip counts as leaving both.
PointerMovesOff(p) ==
  /\ p # pointer
  /\ p = "bar" => Shown
  /\ p = "strip" => Mode = "slide"
  /\ pointer' = p
  /\ hold' = Lingering([hold EXCEPT !.overBar = FALSE, !.overStrip = (p = "strip")], Mode)
  /\ UNCHANGED <<lobby, compact, focus, menuOpen>>

\* onPointerEnter and onPointerLeave of the strip and of the header.
PointerMoves(p) ==
  /\ p # pointer
  /\ p = "bar" => Shown
  /\ p = "strip" => Mode = "slide"
  /\ pointer' = p
  /\ hold' = Lingering([hold EXCEPT !.overBar = (p = "bar"), !.overStrip = (p = "strip")], Mode)
  /\ UNCHANGED <<lobby, compact, focus, menuOpen>>

\* onFocus and onBlur of the header, for a stop that can take focus.
FocusMoves(f) ==
  /\ f # focus
  /\ Focusable(f, hold, Mode, menuOpen)
  /\ focus' = f
  /\ hold' = Lingering([hold EXCEPT !.focusIn = f # "page"], Mode)
  /\ UNCHANGED <<lobby, compact, pointer, menuOpen>>

\* reveal: Tab into the strip, or a press on it, brings the bar down with focus in it.
Reveal ==
  /\ Mode = "slide"
  /\ ~Shown \/ pointer = "strip"
  /\ focus' = "bar"
  /\ hold' = Lingering([hold EXCEPT !.focusIn = TRUE], Mode)
  /\ UNCHANGED <<lobby, compact, pointer, menuOpen>>

\* The account menu or the bell opens or closes inside the bar (the MutationObserver's word).
PanelToggles ==
  /\ Shown
  /\ hold.panelOpen \/ pointer = "bar" \/ focus = "bar" \/ Mode = "menu"
  /\ hold' = Lingering([hold EXCEPT !.panelOpen = ~@], Mode)
  /\ UNCHANGED <<lobby, compact, pointer, focus, menuOpen>>

\* HIDE_DELAY_MS after the last hold lets go.
LingerOver ==
  /\ hold.linger
  /\ ~HeldBy(hold, Mode)
  /\ hold' = [hold EXCEPT !.linger = FALSE]
  /\ UNCHANGED <<lobby, compact, pointer, focus, menuOpen>>

\* The Menu button; a link or a tap outside closes the panel.
MenuPressed ==
  /\ Mode = "menu"
  /\ menuOpen' = ~menuOpen
  /\ focus' = "button"
  /\ hold' = Lingering([hold EXCEPT !.focusIn = TRUE, !.panelOpen = @ /\ ~menuOpen], Mode)
  /\ UNCHANGED <<lobby, compact, pointer>>

MenuClosed ==
  /\ Mode = "menu" /\ menuOpen
  /\ menuOpen' = FALSE
  /\ focus' = IF focus = "bar" THEN "page" ELSE focus
  /\ hold' = Lingering([hold EXCEPT !.focusIn = focus = "button", !.panelOpen = FALSE], Mode)
  /\ UNCHANGED <<lobby, compact, pointer>>

\* Escape: a panel open inside closes first; then the menu, focus back to its button.
Escape ==
  /\ Mode = "menu" /\ menuOpen /\ ~hold.panelOpen
  /\ menuOpen' = FALSE
  /\ focus' = "button"
  /\ hold' = Lingering([hold EXCEPT !.focusIn = TRUE], Mode)
  /\ UNCHANGED <<lobby, compact, pointer>>

-----------------------------------------------------------------------------
Init ==
  /\ lobby = "loading"
  /\ compact \in BOOLEAN
  /\ pointer = "outside" /\ focus = "page"
  /\ hold = [overStrip |-> FALSE, overBar |-> FALSE, focusIn |-> FALSE, panelOpen |-> FALSE, linger |-> TRUE]
  /\ menuOpen = FALSE

Next ==
  \/ \E s \in LobbyStates : Publish(s)
  \/ Resize
  \/ \E p \in Pointers : PointerMoves(p)
  \/ \E f \in Focuses : FocusMoves(f)
  \/ Reveal \/ PanelToggles \/ LingerOver
  \/ MenuPressed \/ MenuClosed \/ Escape

Fairness == WF_vars(LingerOver)

Spec == Init /\ [][Next]_vars /\ Fairness

-----------------------------------------------------------------------------
TypeOK ==
  /\ lobby \in LobbyStates /\ compact \in BOOLEAN
  /\ pointer \in Pointers /\ focus \in Focuses
  /\ hold \in [overStrip : BOOLEAN, overBar : BOOLEAN, focusIn : BOOLEAN, panelOpen : BOOLEAN, linger : BOOLEAN]
  /\ menuOpen \in BOOLEAN

\* The bar never slides from under the visitor's pointer, focus or open panel, and
\* while it is away the way back is there.
InUse == pointer = "bar" \/ focus = "bar" \/ hold.panelOpen
BarStays == Mode = "slide" /\ InUse => Shown

\* With nobody in it the bar leaves the wall alone, whatever held it before and
\* however the page and the window changed.
LeftAlone == Mode = "slide" /\ ~InUse /\ pointer = "outside" /\ focus = "page"

BarGoes == <>[]LeftAlone => <>[]~Shown
=============================================================================
