------------------------------ MODULE CaveScene ------------------------------
(***************************************************************************)
(* The cave a page draws: built a step per frame, then drawn frame by      *)
(* frame until it is disposed, its graphics context goes or a frame        *)
(* throws. Everyone is an orb until the shared robot body is in, then the  *)
(* robot the directory says; one's own shows once the camera is out. A lit *)
(* app's screen: embers until its image, or its clip's poster and then the *)
(* clip, arrive in whatever order; played while the camera is near or has  *)
(* it in view, and only then.                                              *)
(***************************************************************************)
EXTENDS Naturals, FiniteSets

CONSTANTS People,      \* others who may be in the room
          MaxLooks,    \* bound: changes of the directory
          MaxViews,    \* bound: switches of the view
          MaxMoves     \* bound: changes of who is in the room

VARIABLES
  which,   \* what is looked at: the "people" of the cave, or one "screen"
  cave,    \* build: steps left; running, disposed; avatars; view, blend and how often it switched
  told,    \* what the shell heard: ready, lost, error; self and peers
  room,    \* who is there, whether the room knows us, and the directory's version; and how often it changed
  body,    \* the shared body: whether it is in, its state, and loads on their way
  drawn,   \* per person: none, an orb, or a robot: the version it wears and its handover
  mine,    \* one's own robot, the same, and whether everything it wears is in
  media,   \* what the app has: "embers", "image" or "video"
  panel,   \* the screen's started, wanted, near, disposed; videoReady; playing; and what it shows
  files,   \* the poster and the clip: "none", "loading", "in" or "failed"
  allows   \* whether the browser lets the clip play

scene == <<cave, told, room, body, drawn, mine>>
screen == <<media, panel, files, allows>>
vars == <<which, cave, told, room, body, drawn, mine, media, panel, files, allows>>

-----------------------------------------------------------------------------
Gone == [is |-> "none", look |-> 0, handover |-> 0]
Orb == [Gone EXCEPT !.is = "orb"]
NoRobot == [is |-> "none", look |-> 0, known |-> FALSE, dressed |-> FALSE]

Stopped == ~cave.running

\* stop: whatever ends the loop.
StopTelling(what) ==
  /\ cave' = [cave EXCEPT !.running = FALSE]
  /\ told' = [told EXCEPT ![what] = TRUE]

\* The heavy parts, one step per frame.
BuildStep ==
  /\ cave.running /\ cave.build > 0
  /\ cave' = [cave EXCEPT !.build = @ - 1]
  /\ UNCHANGED <<told, room, body, drawn, mine>>

\* peers.update: an orb at first; a robot once the body is in, as the directory says now; the
\* orb fades as the robot grows. Who left is taken out.
Draws(p) ==
  IF p \notin room.here THEN Gone
  ELSE IF drawn[p].is = "robot" THEN [is |-> "robot", look |-> room.version, handover |-> 1]
  ELSE IF body.in THEN [is |-> "robot", look |-> room.version, handover |-> 0]
  ELSE Orb

Avatars == cave.avatars

\* updateSelf: off in first person; your look once the room knows you, and whenever it changes.
Restyled(m) == m.look # room.version \/ m.known # room.known
RestyledWhenKnown(m) == m.known # room.known

OwnLook(m) == Restyled(m)

Own(blend) ==
  IF ~Avatars \/ blend = 0 \/ body.state = "failed" \/ ~body.in THEN mine
  ELSE IF mine.is = "none" \/ OwnLook(mine)
  THEN [is |-> "robot", look |-> room.version, known |-> room.known, dressed |-> FALSE]
  ELSE mine

SelfState(blend) ==
  IF ~Avatars \/ blend = 0 THEN "off"
  ELSE IF body.state = "failed" THEN "failed"
  ELSE IF ~body.in \/ ~Own(blend).dressed THEN "loading"
  ELSE "ready"

\* A frame: the camera glides to its view, the room is drawn, the shell is told what changed.
Frame ==
  /\ cave.running /\ cave.build = 0
  /\ \E reduced \in BOOLEAN :
       LET goal == IF cave.view = "first" THEN 0 ELSE 2
           blend == IF reduced THEN goal
                    ELSE IF goal > cave.blend THEN cave.blend + 1
                    ELSE IF goal < cave.blend THEN cave.blend - 1 ELSE goal IN
       /\ cave' = [cave EXCEPT !.blend = blend]
       /\ drawn' = [p \in People |-> Draws(p)]
       /\ mine' = Own(blend)
       /\ told' = [told EXCEPT !.ready = TRUE, !.self = SelfState(blend), !.peers = Cardinality(room.here)]
  /\ UNCHANGED <<room, body>>

FrameThrows ==
  /\ cave.running /\ StopTelling("error")
  /\ UNCHANGED <<room, body, drawn, mine>>

ContextLost ==
  /\ ~cave.disposed /\ cave.running
  /\ StopTelling("lost")
  /\ UNCHANGED <<room, body, drawn, mine>>

-----------------------------------------------------------------------------
\* takeBody: loaded, or failed; nobody's any more once disposed.
Takes(b) == [b EXCEPT !.state = "loading", !.loads = @ + 1]

BodyLoads ==
  /\ body.loads > 0
  /\ body' = IF cave.disposed THEN [body EXCEPT !.loads = @ - 1]
             ELSE [body EXCEPT !.loads = @ - 1, !.in = TRUE, !.state = "ready"]
  /\ UNCHANGED <<cave, told, room, drawn, mine>>

BodyFails ==
  /\ body.loads > 0
  /\ body' = IF cave.disposed THEN [body EXCEPT !.loads = @ - 1]
             ELSE [body EXCEPT !.loads = @ - 1, !.state = "failed"]
  /\ UNCHANGED <<cave, told, room, drawn, mine>>

\* retryBody: only once it failed, so that one load at a time says how it went.
MayRetry == body.state = "failed"
MayRetryUnlessIn == ~body.in /\ body.loads < 2

Retries == MayRetry

RetrySelf ==
  /\ ~cave.disposed /\ Avatars /\ Retries
  /\ body' = Takes(body)
  /\ UNCHANGED <<cave, told, room, drawn, mine>>

\* setView: third person and front need avatars.
SetView ==
  /\ ~cave.disposed /\ cave.views < MaxViews
  /\ \E v \in {"first", "third", "front"} :
       /\ v # cave.view
       /\ cave' = [cave EXCEPT !.views = @ + 1, !.view = IF Avatars THEN v ELSE "first"]
  /\ UNCHANGED <<told, room, body, drawn, mine>>

\* The room and the directory, as others change them; one's robot puts on what it was given.
RoomChanges ==
  /\ room.moves < MaxMoves
  /\ \E here \in SUBSET People, known \in BOOLEAN :
       /\ here # room.here \/ known # room.known
       /\ room' = [room EXCEPT !.here = here, !.known = known, !.moves = @ + 1]
  /\ UNCHANGED <<cave, told, body, drawn, mine>>

DirectoryChanges ==
  /\ ~cave.disposed /\ room.version < MaxLooks
  /\ room' = [room EXCEPT !.version = @ + 1]
  /\ UNCHANGED <<cave, told, body, drawn, mine>>

Dressed ==
  /\ mine.is = "robot" /\ ~mine.dressed
  /\ mine' = [mine EXCEPT !.dressed = TRUE]
  /\ UNCHANGED <<cave, told, room, body, drawn>>

Dispose ==
  /\ ~cave.disposed
  /\ cave' = [cave EXCEPT !.disposed = TRUE, !.running = FALSE]
  /\ drawn' = [p \in People |-> Gone] /\ mine' = NoRobot
  /\ UNCHANGED <<told, room, body>>

-----------------------------------------------------------------------------
\* play: a browser that refuses leaves it paused; each gesture tries again.
Play(p) == [p EXCEPT !.playing = @ \/ (p.videoReady /\ p.wanted /\ allows)]

\* updateScreens, four times a second: in range or in view; the first time, its media start.
SetWanted ==
  /\ ~panel.disposed
  /\ \E wanted, near \in BOOLEAN :
       LET p == [panel EXCEPT !.wanted = wanted, !.near = @ \/ near, !.started = @ \/ wanted] IN
       /\ near => wanted
       /\ panel' = IF wanted THEN Play(p) ELSE [p EXCEPT !.playing = FALSE]
       /\ files' = IF p.started /\ ~panel.started
                   THEN [poster |-> IF media = "embers" THEN "none" ELSE "loading",
                         clip |-> IF media = "video" THEN "loading" ELSE "none"]
                   ELSE files
  /\ UNCHANGED <<media, allows>>

\* The image, or the poster: never over the clip. Nothing once disposed.
OverTheClip(p) == ~p.disposed
BeforeTheClip(p) == ~p.disposed /\ ~p.videoReady

ShowsPoster(p) == BeforeTheClip(p)

PosterLoads ==
  /\ files.poster = "loading"
  /\ files' = [files EXCEPT !.poster = "in"]
  /\ panel' = IF ShowsPoster(panel) THEN [panel EXCEPT !.shows = "poster"] ELSE panel
  /\ UNCHANGED <<media, allows>>

\* loadeddata, once; it plays at once if wanted.
ClipLoads ==
  /\ files.clip = "loading"
  /\ files' = [files EXCEPT !.clip = "in"]
  /\ panel' = IF panel.disposed \/ panel.videoReady THEN panel
              ELSE Play([panel EXCEPT !.videoReady = TRUE, !.shows = "clip"])
  /\ UNCHANGED <<media, allows>>

FileFails ==
  /\ \E f \in {"poster", "clip"} : files[f] = "loading" /\ files' = [files EXCEPT ![f] = "failed"]
  /\ UNCHANGED <<media, panel, allows>>

\* A gesture anywhere: the browser allows what it refused.
Kick ==
  /\ ~panel.disposed
  /\ allows' = TRUE
  /\ panel' = [panel EXCEPT !.playing = @ \/ (panel.videoReady /\ panel.wanted)]
  /\ UNCHANGED <<media, files>>

DisposeScreen ==
  /\ ~panel.disposed
  /\ panel' = [panel EXCEPT !.disposed = TRUE, !.playing = FALSE]
  /\ files' = [files EXCEPT !.clip = IF @ = "loading" THEN "none" ELSE @]
  /\ UNCHANGED <<media, allows>>

-----------------------------------------------------------------------------
Init ==
  /\ which \in {"people", "screen"}
  /\ \E on \in BOOLEAN, v \in {"first", "third", "front"} :
       /\ which = "screen" => ~on /\ v = "first"
       /\ cave = [build |-> 2, running |-> TRUE, disposed |-> FALSE, avatars |-> on,
                  view |-> IF on THEN v ELSE "first", blend |-> IF on /\ v # "first" THEN 2 ELSE 0, views |-> 0]
       /\ body = [in |-> FALSE, state |-> "loading", loads |-> IF on THEN 1 ELSE 0]
  /\ told = [ready |-> FALSE, lost |-> FALSE, error |-> FALSE, self |-> "none", peers |-> 0]
  /\ room = [here |-> {}, known |-> FALSE, version |-> 0, moves |-> 0]
  /\ drawn = [p \in People |-> Gone] /\ mine = NoRobot
  /\ media \in (IF which = "screen" THEN {"embers", "image", "video"} ELSE {"embers"})
  /\ allows \in {FALSE, which = "screen"}
  /\ panel = [started |-> FALSE, wanted |-> FALSE, near |-> FALSE, disposed |-> FALSE,
              videoReady |-> FALSE, playing |-> FALSE, shows |-> "embers"]
  /\ files = [poster |-> "none", clip |-> "none"]

PeopleSteps ==
  \/ BuildStep \/ Frame \/ FrameThrows \/ ContextLost
  \/ BodyLoads \/ BodyFails \/ RetrySelf \/ SetView
  \/ RoomChanges \/ DirectoryChanges \/ Dressed \/ Dispose

ScreenSteps == SetWanted \/ PosterLoads \/ ClipLoads \/ FileFails \/ Kick \/ DisposeScreen

Next ==
  \/ which = "people" /\ PeopleSteps /\ UNCHANGED <<which, screen>>
  \/ which = "screen" /\ ScreenSteps /\ UNCHANGED <<which, scene>>

\* Frames come while the page is seen; loads end; a robot's files come in (RobotView).
FrameComes == which = "people" /\ (BuildStep \/ Frame) /\ UNCHANGED <<which, screen>>
BodyEnds == which = "people" /\ (BodyLoads \/ BodyFails) /\ UNCHANGED <<which, screen>>
Dresses == which = "people" /\ Dressed /\ UNCHANGED <<which, screen>>

Fairness == WF_vars(FrameComes) /\ WF_vars(BodyEnds) /\ WF_vars(Dresses)

Spec == Init /\ [][Next]_vars /\ Fairness

-----------------------------------------------------------------------------
\* The shapes of its state.
Caves == [build : 0..2, running : BOOLEAN, disposed : BOOLEAN, avatars : BOOLEAN,
          view : {"first", "third", "front"}, blend : 0..2, views : Nat]
Tellings == [ready : BOOLEAN, lost : BOOLEAN, error : BOOLEAN,
             self : {"none", "off", "loading", "ready", "failed"}, peers : 0..Cardinality(People)]
Rooms == [here : SUBSET People, known : BOOLEAN, version : Nat, moves : Nat]
Figures == [is : {"none", "orb", "robot"}, look : Nat, handover : 0..2]
Selves == [is : {"none", "robot"}, look : Nat, known : BOOLEAN, dressed : BOOLEAN]
Bodies == [in : BOOLEAN, state : {"loading", "ready", "failed"}, loads : 0..2]
Panels == [started : BOOLEAN, wanted : BOOLEAN, near : BOOLEAN, disposed : BOOLEAN, videoReady : BOOLEAN,
           playing : BOOLEAN, shows : {"embers", "poster", "clip"}]

\* Every variable has its type.
TypeOK ==
  /\ cave \in Caves /\ told \in Tellings /\ room \in Rooms /\ body \in Bodies
  /\ drawn \in [People -> Figures] /\ mine \in Selves
  /\ panel \in Panels /\ files \in [{"poster", "clip"} -> {"none", "loading", "in", "failed"}]

\* The body's state is the body's: never "failed" over one that is in, whatever was tried again;
\* and the shell is never told of the loss and of an error both.
BodyAsItIs ==
  /\ body.in <=> body.state = "ready"
  /\ ~(told.lost /\ told.error)

\* Once stopped for whatever reason, the shell hears nothing more, whatever still arrives.
QuietOnceStoppedStep == Stopped => told' = told

QuietOnceStopped == [][QuietOnceStoppedStep]_vars

\* While it runs, everyone comes to be the robot the directory says, fully there; and whoever
\* looks at himself comes to see himself as it says, unless the body failed.
AsTheyLook ==
  \/ which = "screen" \/ Stopped \/ ~Avatars \/ body.state = "failed"
  \/ /\ \A p \in room.here : drawn[p] = [is |-> "robot", look |-> room.version, handover |-> 1]
     /\ cave.view # "first" => told.self = "ready" /\ mine.look = room.version

SeenAsTheyLook == []<>AsTheyLook

\* However poster and clip arrive, a screen whose clip is in shows the clip; and it plays only
\* while someone looks, never after it is gone.
ClipStays ==
  /\ panel.videoReady => panel.shows = "clip"
  /\ panel.playing => panel.wanted /\ ~panel.disposed
=============================================================================
