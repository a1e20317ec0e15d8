----------------------------- MODULE LobbyShell -----------------------------
(***************************************************************************)
(* The Apps lobby's shell: the flag, the WebGL2 probe, the 3D view that    *)
(* loads, builds, comes up or breaks, the Enter gate over it, the presence *)
(* feed of the visit with its one retry, the camera kept for the tab, and  *)
(* the ways in and out (an app, Exit, the 2D lobby, the back button).      *)
(* React's effects run with the render that calls for them.                *)
(***************************************************************************)
EXTENDS Naturals

CONSTANT MaxFeeds   \* presence feeds made in the session

VARIABLES
  page,     \* Lobby's own state, and whether it is mounted at all
  gl,       \* whether this browser has WebGL2
  once,     \* enteredThisLoad
  login,    \* the session's login, one of two
  scene,    \* LobbyScene: "none", "loading" its code, "building" the cave, "up"
  feed,     \* the visit's feed: its number, whose, its join, joins asked of it by itself
  camera,   \* a camera is kept in session storage
  said      \* the state published to the chrome around the lobby

vars == <<page, gl, once, login, scene, feed, camera, said>>

Fresh == [on |-> TRUE, flag |-> "loading", flat |-> FALSE, webgl |-> "unknown", broken |-> FALSE,
          ready |-> FALSE, entered |-> once, retried |-> 0]
Away == [on |-> FALSE, flag |-> "loading", flat |-> FALSE, webgl |-> "unknown", broken |-> FALSE,
         ready |-> FALSE, entered |-> FALSE, retried |-> 0]

Enabled(pg) == pg.on /\ pg.flag = "on" /\ ~pg.flat
Live(pg) == Enabled(pg) /\ pg.webgl = "yes" /\ ~pg.broken

\* The gate's phase, while the view is the page.
Gate(pg) == IF ~pg.entered THEN "open" ELSE IF pg.ready THEN "gone" ELSE "entering"

\* data-lobby-state
StateOf(pg) ==
  CASE ~pg.on -> "none"
    [] pg.flat -> "flat"
    [] pg.flag = "loading" -> "loading"
    [] pg.flag = "off" -> "off"
    [] pg.webgl = "no" -> "unsupported"
    [] pg.broken -> "lost"
    [] pg.ready /\ pg.webgl = "yes" -> "ready"
    [] OTHER -> "loading"

Fallback(pg) == StateOf(pg) \in {"flat", "off", "unsupported", "lost"}

\* The feed's effect: one feed while the view is up, under the name signed in.
NewFeed(l) == [n |-> feed.n + 1, open |-> TRUE, login |-> l, join |-> "connecting", auto |-> 0]
\* Mutant of FeedFor: a feed that is open stays, whoever it speaks for.
FeedForWhoever(pg, l) ==
  IF ~Live(pg) THEN [feed EXCEPT !.open = FALSE]
  ELSE IF feed.open THEN feed ELSE NewFeed(l)

FeedFor(pg, l) ==
  IF ~Live(pg) THEN [feed EXCEPT !.open = FALSE]
  ELSE IF feed.open /\ feed.login = l THEN feed ELSE NewFeed(l)

\* The scene's: mounted with the view, its camera kept as it goes.
SceneFor(pg) == IF ~Live(pg) THEN "none" ELSE IF scene = "none" THEN "loading" ELSE scene

\* A render with its effects.
Renders(pg, l) ==
  /\ Live(pg) /\ (~feed.open \/ feed.login # l) => feed.n < MaxFeeds
  /\ page' = pg
  /\ feed' = FeedFor(pg, l)
  /\ scene' = SceneFor(pg)
  /\ camera' = (camera \/ (scene \in {"building", "up"} /\ ~Live(pg)))
  /\ said' = StateOf(pg)

-----------------------------------------------------------------------------
\* useFlags: asked once, and read again later.
FlagsAnswer(v) ==
  /\ page.on /\ page.flag # v
  /\ Renders([page EXCEPT !.flag = v], login)
  /\ UNCHANGED <<gl, once, login>>

\* supportsWebGL2, the first time the view is wanted.
Probe ==
  /\ Enabled(page) /\ page.webgl = "unknown"
  /\ Renders([page EXCEPT !.webgl = IF gl THEN "yes" ELSE "no"], login)
  /\ UNCHANGED <<gl, once, login>>

\* ?view=2d comes and goes: the gate's link, the 2D page's way back, the back button.
ViewParam ==
  /\ page.on
  /\ Renders([page EXCEPT !.flat = ~@], login)
  /\ UNCHANGED <<gl, once, login>>

\* LobbyScene's code arrives and builds the cave.
SceneLoads ==
  /\ scene = "loading"
  /\ scene' = "building"
  /\ UNCHANGED <<page, gl, once, login, feed, camera, said>>

\* Mutant of SceneReady: the chrome around the lobby is not told.
SceneReadyUntold ==
  /\ scene = "building"
  /\ page' = [page EXCEPT !.ready = TRUE]
  /\ scene' = "up"
  /\ UNCHANGED <<gl, once, login, feed, camera, said>>

\* onReady
SceneReady ==
  /\ scene = "building"
  /\ LET pg == [page EXCEPT !.ready = TRUE] IN
       /\ page' = pg
       /\ said' = StateOf(pg)
  /\ scene' = "up"
  /\ UNCHANGED <<gl, once, login, feed, camera>>

\* onLost, onError and the boundary: a lost context, a throw while building or in a frame.
SceneBreaks ==
  /\ scene # "none"
  /\ Renders([page EXCEPT !.broken = TRUE], login)
  /\ UNCHANGED <<gl, once, login>>

\* The gate's Enter: once per page load.
Enter ==
  /\ Live(page) /\ ~page.entered
  /\ once' = TRUE
  /\ Renders([page EXCEPT !.entered = TRUE], login)
  /\ UNCHANGED <<gl, login>>

\* The feed's join, as it turns out.
JoinSettles(j) ==
  /\ feed.open /\ feed.join = "connecting"
  /\ feed' = [feed EXCEPT !.join = j]
  /\ UNCHANGED <<page, gl, once, login, scene, camera, said>>

\* Mutant of AutoRetry: every failure is worth another go.
AutoRetryAlways ==
  /\ page.ready /\ feed.open /\ feed.join = "failed"
  /\ page' = [page EXCEPT !.retried = feed.n]
  /\ feed' = [feed EXCEPT !.join = "connecting", !.auto = IF @ < 2 THEN @ + 1 ELSE 2]
  /\ UNCHANGED <<gl, once, login, scene, camera, said>>

\* A join that failed in this browser gets one more go by itself, once the scene is up.
AutoRetry ==
  /\ page.ready /\ feed.open /\ feed.join = "failed"
  /\ page.retried # feed.n
  /\ page' = [page EXCEPT !.retried = feed.n]
  /\ feed' = [feed EXCEPT !.join = "connecting", !.auto = IF @ < 2 THEN @ + 1 ELSE 2]
  /\ UNCHANGED <<gl, once, login, scene, camera, said>>

\* rejoin: the panel's Try again.
Rejoin ==
  /\ feed.open /\ feed.join = "failed"
  /\ feed' = [feed EXCEPT !.join = "connecting"]
  /\ UNCHANGED <<page, gl, once, login, scene, camera, said>>

\* The member signs in or out elsewhere in the page.
SessionChanges ==
  /\ login' = 1 - login
  /\ Renders(page, 1 - login)
  /\ UNCHANGED <<gl, once>>

\* Exit, a link, or a lit panel (open: the camera first, then the app's route).
Leave ==
  /\ page.on
  /\ Renders(Away, login)
  /\ UNCHANGED <<gl, once, login>>

PageHide ==
  /\ scene \in {"building", "up"}
  /\ camera' = TRUE
  /\ UNCHANGED <<page, gl, once, login, scene, feed, said>>

Arrive ==
  /\ ~page.on
  /\ Renders(Fresh, login)
  /\ UNCHANGED <<gl, once, login>>

\* The page is loaded again: nothing entered, the tab's camera kept.
Reload ==
  /\ page.on
  /\ page' = [Fresh EXCEPT !.entered = FALSE]
  /\ once' = FALSE
  /\ scene' = "none" /\ feed' = [feed EXCEPT !.open = FALSE]
  /\ camera' = (camera \/ scene \in {"building", "up"})
  /\ said' = "loading"
  /\ UNCHANGED <<gl, login>>

-----------------------------------------------------------------------------
Init ==
  /\ once = FALSE
  /\ page = Fresh
  /\ gl \in BOOLEAN
  /\ login = 0
  /\ scene = "none"
  /\ feed = [n |-> 0, open |-> FALSE, login |-> 0, join |-> "connecting", auto |-> 0]
  /\ camera = FALSE
  /\ said = "loading"

Next ==
  \/ \E v \in {"on", "off"} : FlagsAnswer(v)
  \/ Probe \/ ViewParam
  \/ SceneLoads \/ SceneReady \/ SceneBreaks
  \/ Enter
  \/ \E j \in {"joined", "failed", "gone"} : JoinSettles(j)
  \/ AutoRetry \/ Rejoin \/ SessionChanges
  \/ Leave \/ PageHide \/ Arrive \/ Reload

\* The browser runs what was asked of it: the probe's effect, the code it fetches, a
\* build (that ends, or breaks), the effect that retries.
Fairness == WF_vars(Probe) /\ WF_vars(SceneLoads) /\ WF_vars(SceneReady) /\ WF_vars(AutoRetry)

Spec == Init /\ [][Next]_vars /\ Fairness

-----------------------------------------------------------------------------
\* The shapes of its state.
Scenes == {"none", "loading", "building", "up"}
Feeds ==
  [n : 0..MaxFeeds, open : BOOLEAN, login : 0..1, join : {"connecting", "joined", "failed", "gone"}, auto : 0..2]

TypeOK ==
  /\ page \in [on : BOOLEAN, flag : {"loading", "on", "off"}, flat : BOOLEAN, webgl : {"unknown", "yes", "no"},
               broken : BOOLEAN, ready : BOOLEAN, entered : BOOLEAN, retried : 0..MaxFeeds]
  /\ scene \in Scenes /\ feed \in Feeds /\ said = StateOf(page)

\* One feed speaks for the visit, and always for whoever is signed in; and a join that
\* failed is tried once more by itself, never twice.
OneFeed ==
  /\ feed.open = Live(page)
  /\ feed.open => feed.login = login
  /\ feed.auto <= 1

\* Whoever enters gets in or is told why not, whatever happens to the view, the session
\* and the flag meanwhile; and a join that failed in a view that is up is tried again.
Entering == Live(page) /\ Gate(page) = "entering"
Entered == Gate(page) = "gone" \/ ~Live(page)
JoinFailed == Live(page) /\ scene = "up" /\ feed.join = "failed"
TriedAgain == feed.join # "failed" \/ feed.auto = 1 \/ ~feed.open

LobbyComesUp ==
  /\ Entering ~> Entered
  /\ JoinFailed ~> TriedAgain

\* "Pressed before the view is up, the button says it is entering, and the gate fades
\* once the view is there": while the gate is gone, the view is up.
GateWaits == Live(page) /\ Gate(page) = "gone" => scene = "up"
=============================================================================
