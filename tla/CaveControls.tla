---------------------------- MODULE CaveControls ----------------------------
(***************************************************************************)
(* The hands on the lobby's cave: keys, the drag that looks round, the     *)
(* touch stick and the rise button, and what the mouse or a tap shows of   *)
(* an empty slot. A finger or a key may be let go where nobody hears it.   *)
(***************************************************************************)
EXTENDS Naturals, FiniteSets

CONSTANTS Fingers,   \* pointers that can be down at once: fingers, and the mouse if there is one
          Mouse,     \* the one of them that is a mouse
          Slots,     \* empty slots: 1 .. n; 0 stands for a lit app
          Keys       \* the keys that move the camera, Space among them

VARIABLES
  hands,    \* what is really so: keys held, where fingers are, and whether the window has focus
  input,    \* keys, joy, stick (its pointer), drag (its pointer, or "none") and looking
  view,     \* the pose, as far as it tells slots apart, and whether it is still easing
  hover,    \* what waits for a frame: "none", "moved" or "left"; and where the mouse is
  readout   \* hoverSlot, tapSlot, target, drawn, placed, fade, and whether the face has settled

vars == <<hands, input, view, hover, readout>>

-----------------------------------------------------------------------------
Nobody == "none"
Nowhere == 1000

\* picker.pick: what is there in this view: an empty slot, or a lit app, or nothing.
Pick(at) == IF at = Nowhere THEN Nowhere ELSE (at + view.pose) % (Cardinality(Slots) + 1)
Empty(hit) == IF hit \in Slots THEN hit ELSE Nowhere

\* A key, down or repeated, with the focus in the page; into a field it is not the camera's,
\* and Space is a focused button's own.
Held(held) == [input EXCEPT !.keys = @ \cup held]

KeyDown ==
  /\ \E k \in Keys, theirs \in BOOLEAN :
       /\ hands' = [hands EXCEPT !.held = @ \cup {k}]
       /\ input' = IF theirs \/ ~hands.focus THEN input ELSE Held({k})
  /\ UNCHANGED <<view, hover, readout>>

KeyUp ==
  /\ \E k \in hands.held :
       /\ hands' = [hands EXCEPT !.held = @ \ {k}]
       /\ input' = IF hands.focus THEN [input EXCEPT !.keys = @ \ {k}] ELSE input
  /\ UNCHANGED <<view, hover, readout>>

\* A key held while the window loses focus never sends its keyup: everything is let go.
BlurKeepsKeys == [input EXCEPT !.joy = 0, !.drag = Nobody, !.looking = FALSE]

Blurred == [input EXCEPT !.keys = {}, !.joy = 0, !.drag = Nobody, !.looking = FALSE]

Blur ==
  /\ hands.focus
  /\ hands' = [hands EXCEPT !.focus = FALSE]
  /\ input' = Blurred
  /\ UNCHANGED <<view, hover, readout>>

Focus ==
  /\ ~hands.focus
  /\ hands' = [hands EXCEPT !.focus = TRUE]
  /\ UNCHANGED <<input, view, hover, readout>>

-----------------------------------------------------------------------------
\* The first pointer on the canvas drags; the last on the stick has it; rise holds Space.
PointerDown ==
  /\ \E p \in Fingers, el \in {"canvas", "stick", "rise"} :
       /\ hands.at[p] = Nobody
       /\ hands' = [hands EXCEPT !.at[p] = el]
       /\ input' = CASE el = "canvas" /\ input.drag = Nobody -> [input EXCEPT !.drag = p]
                     [] el = "stick" -> [input EXCEPT !.stick = p]
                     [] el = "rise" -> Held({"Space"})
                     [] OTHER -> input
  /\ UNCHANGED <<view, hover, readout>>

\* The drag turns the view, which eases after it; the stick leans.
PointerMove ==
  /\ \E p \in Fingers :
       /\ hands.at[p] # Nobody
       /\ input' = IF hands.at[p] = "canvas" /\ p = input.drag THEN [input EXCEPT !.looking = TRUE]
                   ELSE IF hands.at[p] = "stick" /\ p = input.stick THEN [input EXCEPT !.joy = 1]
                   ELSE input
       /\ view' = IF hands.at[p] = "canvas" /\ p = input.drag THEN [view EXCEPT !.easing = TRUE] ELSE view
       /\ hover' = IF p = Mouse /\ hands.at[p] = "canvas" THEN [hover EXCEPT !.waits = "moved"] ELSE hover
  /\ UNCHANGED <<hands, readout>>

MouseMoves ==
  /\ Mouse \in Fingers /\ hands.at[Mouse] = Nobody
  /\ \E at \in Slots \cup {0, Nowhere} :
       hover' = [at |-> at, waits |-> IF at = Nowhere THEN "left" ELSE "moved"]
  /\ UNCHANGED <<hands, input, view, readout>>

LetGo(p) ==
  CASE hands.at[p] = "canvas" /\ p = input.drag -> [input EXCEPT !.drag = Nobody, !.looking = FALSE]
    [] hands.at[p] = "stick" /\ p = input.stick -> [input EXCEPT !.stick = Nobody, !.joy = 0]
    [] hands.at[p] = "rise" -> [input EXCEPT !.keys = @ \ {"Space"}]
    [] OTHER -> input

\* Let go without having looked round: a tap. A finger's on an empty slot shows it a while.
PointerUp ==
  /\ \E p \in Fingers, at \in Slots \cup {0} :
       LET ended == hands.at[p] = "canvas" /\ p = input.drag
           tap == ended /\ ~input.looking IN
       /\ hands.at[p] # Nobody
       /\ hands' = [hands EXCEPT !.at[p] = Nobody]
       /\ input' = LetGo(p)
       /\ hover' = IF ended /\ p = Mouse THEN [hover EXCEPT !.waits = "moved"] ELSE hover
       /\ readout' = IF tap /\ p # Mouse /\ Pick(at) \in Slots THEN [readout EXCEPT !.tapSlot = Pick(at)] ELSE readout
  /\ UNCHANGED view

\* pointercancel, lostpointercapture: no tap, and nothing new for the mouse.
PointerLost ==
  /\ \E p \in Fingers :
       /\ hands.at[p] # Nobody
       /\ hands' = [hands EXCEPT !.at[p] = Nobody]
       /\ input' = LetGo(p)
  /\ UNCHANGED <<view, hover, readout>>

-----------------------------------------------------------------------------
\* controls.step: keys, the stick and an easing look move the view.
ViewMoves ==
  /\ input.keys # {} \/ input.joy # 0 \/ view.easing
  /\ view' = [pose |-> 1 - view.pose, easing |-> FALSE]
  /\ UNCHANGED <<hands, input, hover, readout>>

\* pickHover: nothing while the mouse drags to look. The readout's show: its slot is drawn
\* once the face has settled, and placed at once.
Hovered == IF input.looking THEN Nowhere ELSE Empty(Pick(hover.at))

ShowsAnyway(r, slot) ==
  IF slot = r.target THEN r
  ELSE IF slot = Nowhere THEN [r EXCEPT !.target = slot]
  ELSE [r EXCEPT !.target = slot, !.placed = slot, !.drawn = IF r.settled /\ @ = Nowhere THEN slot ELSE @]

Shows(r, slot) ==
  IF slot = r.target THEN r
  ELSE IF slot = Nowhere THEN [r EXCEPT !.target = slot]
  ELSE [r EXCEPT !.target = slot, !.placed = slot, !.drawn = IF r.settled THEN slot ELSE @]

Steps(r, reduced) ==
  LET goal == IF r.target # Nowhere /\ r.drawn = r.target THEN 2 ELSE 0 IN
  [r EXCEPT !.fade = IF reduced THEN goal ELSE IF @ < goal THEN @ + 1 ELSE IF @ > goal THEN @ - 1 ELSE @]

\* A frame: the mouse's news, or what moved under it (a tenth of a second apart), and the readout.
Frame ==
  /\ \E hud, tapOver, reduced \in BOOLEAN :
       LET r == [readout EXCEPT !.hoverSlot = IF hover.waits # Nobody \/ (hud /\ hover.at # Nowhere) THEN Hovered ELSE @,
                                !.tapSlot = IF tapOver THEN Nowhere ELSE @] IN
       readout' = Steps(Shows(r, IF r.hoverSlot # Nowhere THEN r.hoverSlot ELSE r.tapSlot), reduced)
  /\ hover' = [hover EXCEPT !.waits = Nobody]
  /\ UNCHANGED <<hands, input, view>>

\* The face has loaded, or the wait for it is over: perhaps one after the other.
Settle ==
  /\ readout' = [readout EXCEPT !.settled = TRUE, !.drawn = IF readout.target # Nowhere THEN readout.target ELSE @]
  /\ UNCHANGED <<hands, input, view, hover>>

-----------------------------------------------------------------------------
Init ==
  /\ hands = [held |-> {}, at |-> [p \in Fingers |-> Nobody], focus |-> TRUE]
  /\ input = [keys |-> {}, joy |-> 0, stick |-> Nobody, drag |-> Nobody, looking |-> FALSE]
  /\ view = [pose |-> 0, easing |-> FALSE]
  /\ hover = [at |-> Nowhere, waits |-> Nobody]
  /\ readout = [hoverSlot |-> Nowhere, tapSlot |-> Nowhere, target |-> Nowhere, drawn |-> Nowhere,
                placed |-> Nowhere, fade |-> 0, settled |-> FALSE]

Next ==
  \/ KeyDown \/ KeyUp \/ Blur \/ Focus
  \/ PointerDown \/ PointerMove \/ MouseMoves \/ PointerUp \/ PointerLost
  \/ ViewMoves \/ Frame \/ Settle

Spec == Init /\ [][Next]_vars

-----------------------------------------------------------------------------
\* The shapes of its state.
Views == [pose : {0, 1}, easing : BOOLEAN]
Hovers == [at : Slots \cup {0, Nowhere}, waits : {Nobody, "moved", "left"}]
Readouts == LET S == Slots \cup {Nowhere} IN
  [hoverSlot : S, tapSlot : S, target : S, drawn : S, placed : S, fade : 0 .. 2, settled : BOOLEAN]

TypeOK ==
  /\ hands \in [held : SUBSET Keys, at : [Fingers -> {"none", "canvas", "stick", "rise"}], focus : BOOLEAN]
  /\ input \in [keys : SUBSET Keys, joy : {0, 1}, stick : Fingers \cup {Nobody}, drag : Fingers \cup {Nobody}, looking : BOOLEAN]
  /\ view \in Views /\ hover \in Hovers /\ readout \in Readouts

\* Whatever was pressed, dragged, lost or let go out of hearing: with no key held and no finger
\* down, nothing moves the camera but its own easing.
LetsGo ==
  hands.held = {} /\ (\A p \in Fingers : hands.at[p] = Nobody) =>
    input.keys = {} /\ input.joy = 0 /\ input.drag = Nobody

\* The readout that can be seen stands in the slot it tells of.
ReadoutInPlace == readout.fade > 0 => readout.placed = readout.drawn
=============================================================================
