------------------------------- MODULE Controls -------------------------------
(***************************************************************************)
(* The controls of the interface kit that do more than pass a press on.    *)
(* Three run an action for the member and follow it: hold to confirm,      *)
(* slide to confirm, and the button with a slow notice and a time limit;   *)
(* a control knows its phase as of the last frame it drew, and what it     *)
(* keeps in refs it knows at once.  Two pick: the search box over answers  *)
(* that come while the member types, and the menu over a list whose        *)
(* options may be barred while it is open. One takes a number: typed,      *)
(* nudged, or dragged on its label, and sent to its owner once.            *)
(***************************************************************************)
EXTENDS Integers, Sequences, SequencesExt, FiniteSetsExt

CONSTANTS
  MaxRuns,    \* bound: actions one control starts
  Options,    \* what a search may find
  MinChars,   \* a shorter query is not searched
  Items,      \* the menu's options, 1..Items
  Most        \* the number field's bounds are 1 and Most

VARIABLES
  which,   \* the control the member has before them
  hold,    \* HoldToConfirm
  slide,   \* SlideToConfirm
  button,  \* AsyncButton
  box,     \* SearchableSelect
  menu,    \* Select
  field    \* NumberField

vars == <<which, hold, slide, button, box, menu, field>>

Shown == {"hold", "slide", "button", "box", "menu", "field"}

Settled == {"success", "error"}
Runs == 1..MaxRuns
Under(c) == {r \in Runs : c.runs[r] \in {"out", "aborted"}}
NextRun(c) == CHOOSE r \in Runs : c.runs[r] = "new" /\ \A q \in Runs : q < r => c.runs[q] # "new"
HasRun(c) == \E r \in Runs : c.runs[r] = "new"
New == [r \in Runs |-> "new"]

-----------------------------------------------------------------------------
\* HoldToConfirm.  run: the action, once the hold is complete, or on Retry.
Started(c) == [c.runs EXCEPT ![NextRun(c)] = "out"]

CanStart == ~hold.disabled /\ hold.phase \in {"idle", "error"}

Hold ==
  /\ CanStart
  /\ hold' = [hold EXCEPT !.held = "short", !.phase = "holding"]

HoldsOn ==
  /\ hold.held = "short"
  /\ hold' = [hold EXCEPT !.held = "long"]

\* tick: held to the end; what disables the control meanwhile is not looked at again.
HoldCompletes ==
  /\ hold.held = "long" /\ HasRun(hold)
  /\ hold' = [hold EXCEPT !.held = "no", !.phase = "pending", !.runs = Started(hold)]

\* cancel: let go, left, or Escape; a short press asks the other way.
LetGo ==
  /\ hold.held # "no"
  /\ hold' = [hold EXCEPT !.held = "no", !.phase = "idle", !.asked = hold.held = "short"]

\* Enter, where there is the other way to ask.
HoldEnter ==
  /\ CanStart /\ ~hold.asked
  /\ hold' = [hold EXCEPT !.asked = TRUE]

Answered ==
  /\ hold.asked
  /\ hold' = [hold EXCEPT !.asked = FALSE]

HoldRetry ==
  /\ hold.phase = "error" /\ HasRun(hold)
  /\ hold' = [hold EXCEPT !.phase = "pending", !.runs = Started(hold)]

HoldSettles ==
  /\ \E r \in Under(hold), how \in Settled :
        hold' = [hold EXCEPT !.runs[r] = how, !.phase = how]

HoldRests ==
  /\ hold.phase = "success"
  /\ hold' = [hold EXCEPT !.phase = "idle"]

\* The owner says why it may not be used, or that it may.
HoldAllowed ==
  /\ hold' = [hold EXCEPT !.disabled = ~@]

-----------------------------------------------------------------------------
\* SlideToConfirm.  commit: in any phase but under way or done, and never twice in one frame.
Commits == slide.seen \in {"idle", "error"} /\ ~slide.inFlight

Committed == [slide EXCEPT !.at = "end", !.inFlight = TRUE, !.inner = "pending", !.runs = Started(slide)]

Inert == slide.disabled \/ slide.seen \in {"pending", "success"}

Commit ==
  /\ ~Inert /\ Commits /\ HasRun(slide)
  /\ slide' = Committed

\* The knob is there while nothing is under way; a drag whose knob goes is never let go of.
Knob == slide.seen \in {"idle", "error"}

KnobDown ==
  /\ Knob /\ ~slide.disabled /\ ~slide.drag
  /\ slide' = [slide EXCEPT !.drag = TRUE]

KnobMoves ==
  /\ Knob /\ slide.drag
  /\ \E at \in {"start", "part", "end"} : at # slide.at /\ slide' = [slide EXCEPT !.at = at]

KnobUp ==
  /\ Knob /\ slide.drag
  /\ \/ slide.at = "end" /\ Commits /\ HasRun(slide) /\ slide' = [Committed EXCEPT !.drag = FALSE]
     \/ slide.at = "end" /\ ~Commits /\ slide' = [slide EXCEPT !.drag = FALSE]
     \/ slide.at # "end" /\ slide' = [slide EXCEPT !.drag = FALSE, !.at = "start"]

\* The arrows nudge; Home and Escape reset.
Nudge ==
  /\ ~Inert
  /\ \E at \in {"start", "part", "end"} : at # slide.at /\ slide' = [slide EXCEPT !.at = at]

\* A frame is drawn with the phase as it stands; an answer comes after the frame of its action.
SlideDraws ==
  /\ slide.seen # slide.inner
  /\ slide' = [slide EXCEPT !.seen = slide.inner]

SlideSettles ==
  /\ slide.seen = "pending"
  /\ \E r \in Under(slide), how \in Settled :
        slide' = [slide EXCEPT !.runs[r] = how, !.inner = how, !.inFlight = FALSE,
                               !.at = IF how = "error" THEN "start" ELSE @]

SlideRetry ==
  /\ slide.seen = "error"
  /\ slide' = [slide EXCEPT !.inner = "idle"]

SlideAllowed ==
  /\ slide' = [slide EXCEPT !.disabled = ~@]

-----------------------------------------------------------------------------
\* AsyncButton.  Its state: locked or disabled by its owner, or its own.
State == IF button.barred = "no" THEN button.inner ELSE button.barred

Busy == State \in {"pending", "slow"}

\* What is drawn: the face with its mark, the hint its owner gave, the notice and the way to retry.
Drawn ==
  [mark   |-> CASE Busy -> "spinner" [] State = "success" -> "check" [] State = "error" -> "alert"
                [] State = "locked" -> "lock" [] OTHER -> "icon",
   label  |-> CASE Busy -> "pending" [] State = "success" -> "done" [] OTHER -> "label",
   hint   |-> IF State \in {"disabled", "locked"} THEN button.barred ELSE "none",
   notice |-> State = "slow",
   retry  |-> State = "error"]

RunsUnlessBarred == State # "disabled" /\ HasRun(button)

RunsNow == State \in {"idle", "error"} /\ HasRun(button)

\* run: what a press does unless the button is locked, which offers a plan instead, or inert; and
\* what Retry does. An answer that ends the wait, or a new run, stops the clocks of the last.
Press ==
  /\ RunsNow
  /\ button' = [button EXCEPT !.inner = "pending", !.of = NextRun(button), !.runs = Started(button)]

Slow ==
  /\ button.inner = "pending"
  /\ button' = [button EXCEPT !.inner = "slow"]

\* 20 s: the signal asks the action to stop, and the button stops waiting for it.
TimesOut ==
  /\ button.inner \in {"pending", "slow"} /\ button.runs[button.of] = "out"
  /\ button' = [button EXCEPT !.inner = "error", !.runs[button.of] = "aborted"]

\* The race was lost long ago for an action that was told to stop.
Wins(r) == button.runs[r] = "out"

ActionSettles ==
  /\ \E r \in Under(button), how \in Settled :
        button' = [button EXCEPT !.runs[r] = how, !.inner = IF Wins(r) THEN how ELSE @]

ButtonRests ==
  /\ button.inner = "success"
  /\ button' = [button EXCEPT !.inner = "idle"]

ButtonBarred ==
  /\ \E why \in {"no", "disabled", "locked"} : why # button.barred /\ button' = [button EXCEPT !.barred = why]

-----------------------------------------------------------------------------
Lists == UNION {{s \in [1..n -> Options] : IsInjective(s)} : n \in 0..2}

-----------------------------------------------------------------------------
\* What the box shows: the options only once they answer the query, as its owner says.
Mode ==
  CASE box.chars < MinChars /\ box.status # "results" -> "hint"
    [] box.status \in {"loading", "error"} -> box.status
    [] box.status = "empty" \/ (box.status = "results" /\ box.list = <<>>) -> "empty"
    [] OTHER -> "list"

Act == Max({0, Min({box.active, Len(box.list) - 1})})

NavigableHidden == box.list # <<>>

\* Options are pickable only while they are on screen.
Navigable == Mode = "list" /\ box.list # <<>>

ActiveItems == IF box.open /\ Navigable THEN {box.list[Act + 1]} ELSE {}

\* pick: one, and the box closes; or one more, or one fewer, of many.
Picked(o) ==
  IF ~box.multi THEN [box EXCEPT !.value = <<o>>, !.open = FALSE, !.chars = 0]
  ELSE [box EXCEPT !.value = IF Contains(@, o) THEN Remove(@, o) ELSE Append(@, o)]

Focus ==
  /\ ~box.open
  /\ box' = [box EXCEPT !.open = TRUE]

\* The owner starts a search, or waits for more; the last answers stay with it meanwhile.
Type ==
  \E n \in 0..MinChars, status \in {"idle", "loading"} :
     box' = [box EXCEPT !.chars = n, !.open = TRUE, !.active = 0, !.status = status]

Found ==
  /\ box.status = "loading"
  /\ \/ \E list \in Lists : box' = [box EXCEPT !.status = "results", !.list = list]
     \/ \E status \in {"empty", "error"} : box' = [box EXCEPT !.status = status]

Retry ==
  /\ box.open /\ Mode = "error"
  /\ box' = [box EXCEPT !.status = "loading"]

Arrow ==
  \/ ~box.open /\ box' = [box EXCEPT !.open = TRUE, !.active = 0]
  \/ /\ box.open
     /\ \E d \in {-1, 1} : box' = [box EXCEPT !.active = Max({0, Min({Len(box.list) - 1, Act + d})})]

Enter == \E o \in ActiveItems : box' = Picked(o)

Hover ==
  /\ box.open /\ Navigable
  /\ \E i \in 1..Len(box.list) : box' = [box EXCEPT !.active = i - 1]

Click ==
  /\ box.open /\ Mode = "list"
  /\ \E i \in 1..Len(box.list) : box' = Picked(box.list[i])

Backspace ==
  /\ box.multi /\ box.chars = 0 /\ box.value # <<>>
  /\ box' = Picked(Last(box.value))

TakesOff ==
  /\ box.multi
  /\ \E o \in Options : Contains(box.value, o) /\ box' = Picked(o)

Clear ==
  /\ box.status # "loading"
  /\ box' = [box EXCEPT !.chars = 0, !.value = IF box.multi THEN @ ELSE <<>>]

Closes ==
  /\ box.open
  /\ box' = [box EXCEPT !.open = FALSE]

-----------------------------------------------------------------------------
Enabled == (1..Items) \ menu.inert
IsOpen == menu.open /\ ~menu.disabled

\* seek: of the options that may be chosen that way, the first one met, or where it is.
Seek(S, dir) == IF S = {} THEN menu.active ELSE IF dir = "down" THEN Min(S) ELSE Max(S)

PicksAny(i) == i \in 1..Items
Picks(i) == i \in Enabled

\* pick: never an option that is barred or locked.
Chosen(i) == IF Picks(i) THEN [menu EXCEPT !.value = i, !.open = FALSE] ELSE menu

Show ==
  /\ ~menu.disabled /\ ~menu.open
  /\ menu' = [menu EXCEPT !.open = TRUE, !.active = menu.value]

Move ==
  /\ IsOpen
  /\ \/ menu' = [menu EXCEPT !.active = Seek({i \in Enabled : i > @}, "down")]
     \/ menu' = [menu EXCEPT !.active = Seek({i \in Enabled : i < @}, "up")]
     \/ menu' = [menu EXCEPT !.active = Seek(Enabled, "down")]
     \/ menu' = [menu EXCEPT !.active = Seek(Enabled, "up")]

\* A letter finds the next enabled option with it; on a closed menu it chooses.
LetterTyped ==
  /\ ~menu.disabled
  /\ \E i \in Enabled : menu' = [(IF menu.open THEN menu ELSE Chosen(i)) EXCEPT !.active = i]

MenuEnter ==
  /\ IsOpen /\ menu.active > 0
  /\ menu' = Chosen(menu.active)

PointAt ==
  /\ IsOpen
  /\ \E i \in 1..Items : menu' = [menu EXCEPT !.active = i]

MenuClick ==
  /\ IsOpen
  /\ \E i \in 1..Items : menu' = Chosen(i)

MenuCloses ==
  /\ menu.open
  /\ menu' = [menu EXCEPT !.open = FALSE]

\* The owner bars the field, or an option, or lets them be used again.
OwnerBars ==
  \/ menu' = [menu EXCEPT !.disabled = ~@]
  \/ \E i \in 1..Items : menu' = [menu EXCEPT !.inert = IF i \in @ THEN @ \ {i} ELSE @ \cup {i}]

-----------------------------------------------------------------------------
\* NumberField.  The text is no bound, a number, or what is no number.
NoBound == -1
Junk == -2
Numbers == 0 .. Most + 1
Entries == {NoBound, Junk} \cup Numbers
Bounds == {NoBound} \cup 1 .. Most

Invalid(t) == t # NoBound /\ t \notin 1 .. Most
Clamp(v) == Max({1, Min({Most, v})})
From(t) == IF t \in Numbers THEN t ELSE 1

\* commit, of what the last frame showed: only a valid bound, and only another than the one in force.
CommittedBound(t) == IF Invalid(t) \/ t = field.value THEN <<>> ELSE <<t>>

\* An event leaves a text, drawn or not, and what it sent; the owner takes what it is sent, and the
\* text follows a bound that changes. A frame follows every event but a drag's moves.
After(f, text, seen, sends) ==
  IF sends = <<>> \/ Last(sends) = f.value
  THEN [f EXCEPT !.sent = sends, !.text = text, !.seen = seen, !.unheard = text # seen]
  ELSE [f EXCEPT !.sent = sends, !.text = Last(sends), !.seen = Last(sends), !.value = Last(sends),
                 !.unheard = FALSE]

FieldFocus ==
  /\ ~field.focus
  /\ field' = [field EXCEPT !.focus = TRUE, !.sent = <<>>]

FieldTyped ==
  /\ field.focus /\ ~field.off
  /\ \E t \in Entries : t # field.text /\ field' = After(field, t, t, <<>>)

\* Mutant of FieldBlur: only Enter commits.
FieldBlurLeaves ==
  /\ field.focus
  /\ field' = [field EXCEPT !.focus = FALSE, !.sent = <<>>]

FieldBlur ==
  /\ field.focus
  /\ field' = After([field EXCEPT !.focus = FALSE], field.text, field.seen, CommittedBound(field.seen))

\* Mutant of FieldEnter: the blur it causes commits too.
FieldEnterTwice ==
  /\ field.focus
  /\ LET sends == CommittedBound(field.seen)
     IN  field' = After([field EXCEPT !.focus = FALSE], field.text, field.seen, sends \o sends)

\* Enter commits and leaves the field; the blur it causes does not commit again.
FieldEnter ==
  /\ field.focus
  /\ field' = After([field EXCEPT !.focus = FALSE], field.text, field.seen, CommittedBound(field.seen))

FieldNudge ==
  /\ field.focus /\ ~field.off
  /\ \E d \in {-Most, -1, 1, Most} :
       LET v == Clamp(From(field.seen) + d)
       IN  field' = After(field, v, v, IF v = field.value THEN <<>> ELSE <<v>>)

FieldEscape ==
  /\ field.focus /\ ~field.off
  /\ field' = After(field, field.value, field.value, <<>>)

\* The label is a scrubber.
DragStarts ==
  /\ ~field.drag /\ ~field.off
  /\ field' = [field EXCEPT !.drag = TRUE, !.sent = <<>>]

DragMoves ==
  /\ field.drag
  /\ \E v \in 1 .. Most : v # field.text /\ field' = [field EXCEPT !.text = v, !.sent = <<>>]

FieldDraws ==
  /\ field.text # field.seen
  /\ field' = [field EXCEPT !.seen = field.text, !.sent = <<>>]

\* Let go before the frame of its last move, the commit is of the frame before.
DragEnds ==
  /\ field.drag
  /\ field' = After([field EXCEPT !.drag = FALSE], field.text, field.seen, CommittedBound(field.seen))

FieldBarred == field' = [field EXCEPT !.off = ~@, !.sent = <<>>]

\* The filters change underneath, and the text with them.
FieldReset ==
  /\ \E v \in Bounds : v # field.value /\ field' = [After(field, v, v, <<>>) EXCEPT !.value = v]

-----------------------------------------------------------------------------
Init ==
  /\ which \in Shown
  /\ hold = [phase |-> "idle", held |-> "no", asked |-> FALSE, disabled |-> FALSE, runs |-> New]
  /\ slide = [inner |-> "idle", seen |-> "idle", at |-> "start", drag |-> FALSE, inFlight |-> FALSE, disabled |-> FALSE, runs |-> New]
  /\ button = [inner |-> "idle", barred |-> "no", of |-> 1, runs |-> New]
  /\ box \in [open : {FALSE}, chars : {0}, status : {"idle"}, list : {<<>>}, active : {0}, value : {<<>>}, multi : {which = "box", FALSE}]
  /\ menu \in [open : {FALSE}, active : {0}, value : IF which = "menu" THEN 0..Items ELSE {0}, inert : {{}}, disabled : {FALSE}]
  /\ field = [text |-> NoBound, seen |-> NoBound, value |-> NoBound, focus |-> FALSE, drag |-> FALSE, off |-> FALSE,
              sent |-> <<>>, unheard |-> FALSE]

HoldSteps == Hold \/ HoldsOn \/ HoldCompletes \/ LetGo \/ HoldEnter \/ Answered \/ HoldRetry \/ HoldSettles \/ HoldRests \/ HoldAllowed
SlideSteps == Commit \/ KnobDown \/ KnobMoves \/ KnobUp \/ Nudge \/ SlideDraws \/ SlideSettles \/ SlideRetry \/ SlideAllowed
ButtonSteps == Press \/ Slow \/ TimesOut \/ ActionSettles \/ ButtonRests \/ ButtonBarred
BoxSteps == Focus \/ Type \/ Found \/ Retry \/ Arrow \/ Enter \/ Hover \/ Click \/ Backspace \/ TakesOff \/ Clear \/ Closes
MenuSteps == Show \/ Move \/ LetterTyped \/ MenuEnter \/ PointAt \/ MenuClick \/ MenuCloses \/ OwnerBars
FieldSteps ==
  \/ FieldFocus \/ FieldTyped \/ FieldBlur \/ FieldEnter \/ FieldNudge \/ FieldEscape \/ DragStarts
  \/ DragMoves \/ FieldDraws \/ DragEnds \/ FieldBarred \/ FieldReset

Next ==
  \/ which = "hold" /\ HoldSteps /\ UNCHANGED <<which, slide, button, box, menu, field>>
  \/ which = "slide" /\ SlideSteps /\ UNCHANGED <<which, hold, button, box, menu, field>>
  \/ which = "button" /\ ButtonSteps /\ UNCHANGED <<which, hold, slide, box, menu, field>>
  \/ which = "box" /\ BoxSteps /\ UNCHANGED <<which, hold, slide, button, menu, field>>
  \/ which = "menu" /\ MenuSteps /\ UNCHANGED <<which, hold, slide, button, box, field>>
  \/ which = "field" /\ FieldSteps /\ UNCHANGED <<which, hold, slide, button, box, menu>>

Spec == Init /\ [][Next]_vars

-----------------------------------------------------------------------------
\* The shapes of its state.
RunStates == [Runs -> {"new", "out", "aborted"} \cup Settled]
Holds == [phase : {"idle", "holding", "pending", "success", "error"}, held : {"no", "short", "long"},
          asked : BOOLEAN, disabled : BOOLEAN, runs : RunStates]
Slides == [inner : {"idle", "pending", "success", "error"}, seen : {"idle", "pending", "success", "error"},
           at : {"start", "part", "end"}, drag : BOOLEAN, inFlight : BOOLEAN, disabled : BOOLEAN, runs : RunStates]
Buttons == [inner : {"idle", "pending", "slow", "success", "error"}, barred : {"no", "disabled", "locked"}, of : Runs, runs : RunStates]
Menus == [open : BOOLEAN, active : 0..Items, value : 0..Items, inert : SUBSET (1..Items), disabled : BOOLEAN]
Fields == [text : Entries, seen : Entries, value : Bounds, focus : BOOLEAN, drag : BOOLEAN, off : BOOLEAN,
           sent : UNION {[1..n -> Entries] : n \in 0..2}, unheard : BOOLEAN]

\* Every variable has its type.
TypeOK ==
  /\ which \in Shown /\ hold \in Holds /\ slide \in Slides /\ button \in Buttons /\ menu \in Menus /\ field \in Fields
  /\ box.chars \in 0..MinChars /\ box.status \in {"idle", "loading", "results", "empty", "error"}
  /\ box.list \in Lists /\ box.active \in 0..1
  /\ ToSet(box.value) \subseteq Options /\ IsInjective(box.value) /\ (box.multi \/ Len(box.value) <= 1)

\* No control runs its action twice: one at most is under way that was not told to stop, and a
\* slide that went through starts no other (SlideToConfirm.tsx: "it can't submit twice"). And one
\* event of the number field sends its owner one bound at most (NumberField.tsx: "the blur must
\* not commit a second time").
NeverTwice ==
  /\ \A c \in {hold.runs, slide.runs, button.runs} : Cardinality({r \in Runs : c[r] = "out"}) <= 1
  /\ \A r \in Runs : slide.runs[r] = "success" => \A q \in Runs : q > r => slide.runs[q] = "new"
  /\ Len(field.sent) <= 1

\* A control says of its action what is so of the one the last press began, never of one it gave up
\* on whose answer came late: that it works, that it is slow, that it worked; and it may be
\* tried again only once it ended or was told to stop. And a number field that is left shows the bound in force, but
\* for an entry it marks as wrong, and a drag let go before its last move was drawn.
SaysItsOwn ==
  /\ hold.phase = "success" => \E r \in Runs : hold.runs[r] = "success"
  /\ Drawn.mark = "check" => button.runs[button.of] = "success"
  /\ Drawn.mark = "spinner" \/ Drawn.label = "pending" \/ Drawn.notice => button.runs[button.of] = "out"
  /\ Drawn.retry => button.runs[button.of] # "out" /\ Drawn.hint = "none"
  /\ ~field.focus /\ ~field.drag => field.text = field.value \/ Invalid(field.text) \/ field.unheard

\* A value is taken only from what is on screen: never an answer to an older query behind the
\* hint, the spinner or the error, nor an option barred by then (SearchableSelect.tsx: "Options
\* are only pickable while they are on screen").
TakesWhatShowsStep ==
  /\ \A o \in ToSet(box'.value) \ ToSet(box.value) : box.open /\ Mode = "list" /\ Contains(box.list, o)
  /\ menu'.value # menu.value => menu'.value \notin menu.inert /\ ~menu.disabled

TakesWhatShows == [][TakesWhatShowsStep]_vars

=============================================================================
