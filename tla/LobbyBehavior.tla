---------------------------- MODULE LobbyBehavior ----------------------------
(***************************************************************************)
(* What the dock says became of your latest throw or wave: the catalog's   *)
(* states, from the press to the outcome.  Presses come from the buttons   *)
(* and from the F and G keys, which go straight to the scene; the shell    *)
(* sees the scene a render late, its sends as they go, the catcher's word  *)
(* when it comes, and a clock that gives every press an outcome.           *)
(***************************************************************************)
EXTENDS Naturals

\* BEHAVIOR_STATES that today's two entries reach; nothing is contested or paused yet.
States == {"requested", "confirmed", "rejected", "outOfRange"}
Entries == {"wave", "catch"}

VARIABLES
  scene,    \* the room is there, someone is ahead, others in it; the ball; waving
  view,     \* the scene's state as last rendered (latest.current)
  shown,    \* the entry shown and its state, or none
  refs,     \* pressed.wave, pressed.ball, waveWent, awaitingCatch
  word      \* the catcher's word on the latest throw, as it reached this client

vars == <<scene, view, shown, refs, word>>

Nothing == [entry |-> "none", state |-> "none"]
Show(e, s) == [entry |-> e, state |-> s]
Advance(e, from, to) == IF shown = Show(e, from) THEN Show(e, to) ELSE shown

\* sent: an action the scene sent, and whether it went.
SentWave(went, sh, r) ==
  /\ refs' = [r EXCEPT !.wave = FALSE, !.waveWent = went]
  /\ shown' = IF ~went THEN Show("wave", "rejected")
              ELSE IF r.wave THEN sh
              ELSE Show("wave", IF view.others THEN "requested" ELSE "outOfRange")

ThrowState(went, to) == IF ~went THEN "rejected" ELSE IF to THEN "requested" ELSE "outOfRange"

SentThrow(went, to) ==
  /\ refs' = [refs EXCEPT !.ball = FALSE, !.awaiting = went /\ to]
  /\ shown' = Show("catch", ThrowState(went, to))

-----------------------------------------------------------------------------
\* wave: nothing while one plays or there is no room.
CanWave == scene.room /\ ~scene.waving

\* The button: pressWave, then the scene's own; a press it refuses has no send.
PressWave ==
  /\ view.room /\ ~view.waving
  /\ LET sh == Show("wave", IF view.others THEN "requested" ELSE "outOfRange")
         r == [refs EXCEPT !.wave = TRUE, !.waveWent = FALSE]
     IN  IF CanWave
         THEN \E went \in BOOLEAN :
                SentWave(went, sh, r) /\ scene' = [scene EXCEPT !.waving = went]
         ELSE shown' = sh /\ refs' = r /\ UNCHANGED scene
  /\ UNCHANGED <<view, word>>

KeyG ==
  /\ CanWave
  /\ \E went \in BOOLEAN : SentWave(went, shown, refs) /\ scene' = [scene EXCEPT !.waving = went]
  /\ UNCHANGED <<view, word>>

\* ball, without the tracker: a ball taken up, or the wind-up.
SceneBall(s) ==
  CASE ~s.room -> s
    [] s.ball = "none" -> [s EXCEPT !.ball = "holding"]
    [] s.ball = "holding" -> [s EXCEPT !.ball = "throwing"]
    [] OTHER -> s

KeyF ==
  /\ scene.room
  /\ scene' = SceneBall(scene)
  /\ UNCHANGED <<view, shown, refs, word>>

\* The button: pressBall, which counts a throw only, then the scene's own.
PressBall ==
  /\ view.room /\ view.ball \in {"none", "holding"}
  /\ IF view.ball = "holding"
     THEN /\ refs' = [refs EXCEPT !.ball = TRUE, !.awaiting = FALSE]
          /\ shown' = Show("catch", IF view.ahead THEN "requested" ELSE "outOfRange")
     ELSE UNCHANGED <<refs, shown>>
  /\ scene' = SceneBall(scene)
  /\ UNCHANGED <<view, word>>

\* release: the throw goes, at whoever is ahead now, or the ball stays in hand.
Release ==
  /\ scene.ball = "throwing"
  /\ SentThrow(scene.room, scene.ahead)
  /\ scene' = [scene EXCEPT !.ball = IF scene.room THEN "in-flight" ELSE "holding"]
  /\ word' = [to |-> scene.room /\ scene.ahead, said |-> "none"]
  /\ UNCHANGED view

\* The catcher's own word on this throw, late ones included, while the room is there.
Word(w) ==
  /\ scene.room
  /\ word.to /\ word.said = "none"
  /\ word' = [word EXCEPT !.said = w]
  /\ IF refs.awaiting
     THEN /\ refs' = [refs EXCEPT !.awaiting = FALSE]
          /\ shown' = Show("catch", IF w = "caught" THEN "confirmed" ELSE "rejected")
     ELSE UNCHANGED <<refs, shown>>
  /\ scene' = [scene EXCEPT !.ball = IF @ = "in-flight" THEN "none" ELSE @]
  /\ UNCHANGED view

\* The ball is down and picked up, by them or by you.
PickedUp ==
  /\ scene.ball = "in-flight"
  /\ \E b \in {"none", "holding"} : scene' = [scene EXCEPT !.ball = b]
  /\ UNCHANGED <<view, shown, refs, word>>

\* The wave has played out.
WaveOver ==
  /\ scene.waving
  /\ scene' = [scene EXCEPT !.waving = FALSE]
  /\ UNCHANGED <<view, shown, refs, word>>

\* The room comes and goes, and people in it and ahead of you.
Around ==
  /\ \E r, o, a \in BOOLEAN :
       /\ (a => o) /\ (o => r)
       /\ scene' = [scene EXCEPT !.room = r, !.others = o, !.ahead = a]
  /\ UNCHANGED <<view, shown, refs, word>>

\* A frame's onState and the render after it; a wave under way is confirmed.
Renders ==
  /\ view # scene
  /\ view' = scene
  /\ shown' = IF scene.waving /\ scene.room /\ ~(view.waving /\ view.room)
              THEN Advance("wave", "requested", "confirmed") ELSE shown
  /\ UNCHANGED <<scene, refs, word>>

\* Mutant of TimesUp: once told, nobody waits for the catcher's word any more.
TimesUpForgets ==
  /\ shown.state = "requested"
  /\ shown' = [shown EXCEPT !.state = IF shown.entry = "wave" /\ refs.waveWent THEN "confirmed" ELSE "rejected"]
  /\ refs' = [refs EXCEPT !.awaiting = FALSE]
  /\ UNCHANGED <<scene, view, word>>

\* confirmWithinMs over: a wave that went out is confirmed, anything else rejected.
TimesUp ==
  /\ shown.state = "requested"
  /\ shown' = [shown EXCEPT !.state = IF shown.entry = "wave" /\ refs.waveWent THEN "confirmed" ELSE "rejected"]
  /\ UNCHANGED <<scene, view, refs, word>>

-----------------------------------------------------------------------------
Init ==
  /\ scene = [room |-> FALSE, others |-> FALSE, ahead |-> FALSE, ball |-> "none", waving |-> FALSE]
  /\ view = scene
  /\ shown = Nothing
  /\ refs = [wave |-> FALSE, ball |-> FALSE, waveWent |-> FALSE, awaiting |-> FALSE]
  /\ word = [to |-> FALSE, said |-> "none"]

Next ==
  \/ PressWave \/ KeyG \/ KeyF \/ PressBall
  \/ Release \/ \E w \in {"caught", "missed"} : Word(w)
  \/ PickedUp \/ WaveOver \/ Around \/ Renders \/ TimesUp

Fairness == WF_vars(TimesUp)

Spec == Init /\ [][Next]_vars /\ Fairness

-----------------------------------------------------------------------------
Scenes == [room : BOOLEAN, others : BOOLEAN, ahead : BOOLEAN,
           ball : {"none", "holding", "throwing", "in-flight"}, waving : BOOLEAN]

TypeOK ==
  /\ scene \in Scenes /\ view \in Scenes
  /\ shown = Nothing \/ shown \in [entry : Entries, state : States]
  /\ refs \in [wave : BOOLEAN, ball : BOOLEAN, waveWent : BOOLEAN, awaiting : BOOLEAN]
  /\ word \in [to : BOOLEAN, said : {"none", "caught", "missed"}]

\* The outcome shown is the right one: a throw the catcher spoke of shows what they said,
\* however late, unless you have pressed again since; nothing is shown caught that nobody
\* said they caught.
OutcomeTrue ==
  /\ shown.entry = "catch" /\ word.said # "none" /\ ~refs.ball =>
       shown.state = IF word.said = "caught" THEN "confirmed" ELSE "rejected"
  /\ shown = Show("catch", "confirmed") => word.said = "caught"

\* Every press has an outcome.
OutcomeShown == shown.state # "requested"

OutcomeTold == []<>OutcomeShown
=============================================================================
