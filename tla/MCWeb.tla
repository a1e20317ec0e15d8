------------------------------- MODULE MCWeb --------------------------------
(***************************************************************************)
(* The web, part by part: the cave a member stands in (CaveSpec), what the *)
(* lobby keeps in step with others (LobbySpec), the pages that keep in     *)
(* step with what others do (PagesSpec), and the screens that answer to    *)
(* one person (ScreensSpec). A behaviour is of one part.                   *)
(***************************************************************************)
EXTENDS Integers, Sequences, TLC

VARIABLES
  part,   \* which of them this behaviour is of
  s1, s2, s3, s4, s5, s6, s7, s8, s9, s10, s11   \* its variables; the rest stay 0

vars == <<part, s1, s2, s3, s4, s5, s6, s7, s8, s9, s10, s11>>

-----------------------------------------------------------------------------
\* The cave a member stands in.

Voice == INSTANCE VoiceSession WITH MaxJoins <- 2, MaxRooms <- 2, MaxMic <- 1, MaxReverb <- 1,
    feed <- s1, engine <- s2, calls <- s3, leaving <- s4, link <- s5, capture <- s6, mic <- s7,
    micOps <- s8, audio <- s9, renders <- s10, page <- s11

VoiceInit == part = "voice" /\ Voice!Init

VoiceStep == part = "voice" /\ Voice!Next /\ UNCHANGED <<part>>

VoiceWeakly(i) ==
  /\ part = "voice"
  /\ \/ i = 1 /\ Voice!GrantAnswered
     \/ i = 2 /\ Voice!EngineLoaded
     \/ i = 3 /\ (\E c \in s3 : Voice!TokenAnswered(c))
     \/ i = 4 /\ (\E c \in s3 : Voice!ConnectSettled(c))
     \/ i = 5 /\ (\E m \in s8 : Voice!MicSettled(m))
     \/ i = 6 /\ Voice!LeaveRoom
     \/ i = 7 /\ Voice!LeaveAudio
  /\ UNCHANGED <<part>>

Peers == INSTANCE VoicePeers WITH MaxSids <- 2, MaxMics <- 1, link <- s1, rm <- s2, p <- s3,
    me <- s4, muted <- s5, crowd <- s6, told <- s7, said <- s8

PeersInit == part = "peers" /\ Peers!Init /\ s9 = 0 /\ s10 = 0 /\ s11 = 0

PeersStep == part = "peers" /\ Peers!Next /\ UNCHANGED <<part, s9, s10, s11>>

PeersWeakly(i) ==
  /\ part = "peers"
  /\ \/ i = 1 /\ Peers!Tick
     \/ i = 2 /\ Peers!Dwelt
     \/ i = 3 /\ Peers!BackedOff
     \/ i = 4 /\ Peers!IntervalOver
     \/ i = 5 /\ Peers!ServerSends
     \/ i = 6 /\ Peers!TrackSubscribed
     \/ i = 7 /\ Peers!TrackUnsubscribed
  /\ UNCHANGED <<part, s9, s10, s11>>

Scene == INSTANCE CaveScene WITH People <- {"p"}, MaxLooks <- 1, MaxViews <- 1, MaxMoves <- 2,
    which <- s1, cave <- s2, told <- s3, room <- s4, body <- s5, drawn <- s6, mine <- s7,
    media <- s8, panel <- s9, files <- s10, allows <- s11

SceneInit == part = "scene" /\ Scene!Init

SceneStep == part = "scene" /\ Scene!Next /\ UNCHANGED <<part>>

SceneWeakly(i) ==
  /\ part = "scene"
  /\ \/ i = 1 /\ Scene!FrameComes
     \/ i = 2 /\ Scene!BodyEnds
     \/ i = 3 /\ Scene!Dresses
  /\ UNCHANGED <<part>>

Robot == INSTANCE RobotView WITH Files <- {"f", "g"}, Flat <- {"g"},
    Slots <- {"head", "accessory"}, MaxLooks <- 2, look <- s1, changes <- s2, robot <- s3,
    calls <- s4, cache <- s5

RobotInit ==
    part = "robot" /\ Robot!Init /\ s6 = 0 /\ s7 = 0 /\ s8 = 0 /\ s9 = 0 /\ s10 = 0 /\ s11 = 0

RobotStep == part = "robot" /\ Robot!Next /\ UNCHANGED <<part, s6, s7, s8, s9, s10, s11>>

RobotWeakly(i) ==
  /\ part = "robot"
  /\ \/ i = 1 /\ Robot!Continues
     \/ i = 2 /\ Robot!FailureExpires
  /\ UNCHANGED <<part, s6, s7, s8, s9, s10, s11>>

RobotStrongly(i) ==
  /\ part = "robot"
  /\ \/ i = 1 /\ Robot!FileArrives
     \/ i = 2 /\ Robot!Retry
  /\ UNCHANGED <<part, s6, s7, s8, s9, s10, s11>>

CaveInit ==
  \/ VoiceInit
  \/ PeersInit
  \/ SceneInit
  \/ RobotInit

CaveNext ==
  \/ VoiceStep
  \/ PeersStep
  \/ SceneStep
  \/ RobotStep

CaveWeakly(i) == VoiceWeakly(i) \/ PeersWeakly(i) \/ SceneWeakly(i) \/ RobotWeakly(i)

CaveStrongly(i) == RobotStrongly(i)

\* Each part's own fairness: its n-th condition is the n-th of all.
CaveFairness ==
  /\ \A i \in 1..7 : WF_vars(CaveWeakly(i))
  /\ \A i \in 1..2 : SF_vars(CaveStrongly(i))

CaveSpec == CaveInit /\ [][CaveNext]_vars /\ CaveFairness

-----------------------------------------------------------------------------
\* What the lobby keeps in step with others.

Feed == INSTANCE LocalFeed WITH Tabs <- {"t1", "t2"}, MaxIds <- 3, MaxWire <- 1, tab <- s1,
    seen <- s2, old <- s3, wire <- s4, ids <- s5

FeedInit == part = "feed" /\ Feed!Init /\ s6 = 0 /\ s7 = 0 /\ s8 = 0 /\ s9 = 0 /\ s10 = 0 /\ s11 = 0

FeedStep == part = "feed" /\ Feed!Next /\ UNCHANGED <<part, s6, s7, s8, s9, s10, s11>>

FeedWeakly(i) ==
  /\ part = "feed"
  /\ \/ i = 1 /\ Feed!Receive("t1")
     \/ i = 2 /\ Feed!Receive("t2")
     \/ i = 3 /\ (\E t \in {"t1", "t2"} : Feed!Sweep(t))
     \/ i = 4 /\ (\E t \in {"t1", "t2"} : Feed!Silence(t, 1))
     \/ i = 5 /\ (\E t \in {"t1", "t2"} : Feed!Silence(t, 2))
     \/ i = 6 /\ (\E t \in {"t1", "t2"} : Feed!Silence(t, 3))
  /\ UNCHANGED <<part, s6, s7, s8, s9, s10, s11>>

Nav == INSTANCE LobbyNav WITH lobby <- s1, compact <- s2, pointer <- s3, focus <- s4,
    hold <- s5, menuOpen <- s6

NavInit == part = "nav" /\ Nav!Init /\ s7 = 0 /\ s8 = 0 /\ s9 = 0 /\ s10 = 0 /\ s11 = 0

NavStep == part = "nav" /\ Nav!Next /\ UNCHANGED <<part, s7, s8, s9, s10, s11>>

NavWeakly(i) ==
  /\ part = "nav"
  /\ \/ i = 1 /\ Nav!LingerOver
  /\ UNCHANGED <<part, s7, s8, s9, s10, s11>>

Shell == INSTANCE LobbyShell WITH MaxFeeds <- 3, page <- s1, gl <- s2, once <- s3, login <- s4,
    scene <- s5, feed <- s6, camera <- s7, said <- s8

ShellInit == part = "shell" /\ Shell!Init /\ s9 = 0 /\ s10 = 0 /\ s11 = 0

ShellStep == part = "shell" /\ Shell!Next /\ UNCHANGED <<part, s9, s10, s11>>

ShellWeakly(i) ==
  /\ part = "shell"
  /\ \/ i = 1 /\ Shell!Probe
     \/ i = 2 /\ Shell!SceneLoads
     \/ i = 3 /\ Shell!SceneReady
     \/ i = 4 /\ Shell!AutoRetry
  /\ UNCHANGED <<part, s9, s10, s11>>

Play == INSTANCE LobbyPlay WITH Members <- {"a", "b"}, MaxThrows <- 1, MaxWire <- 2,
    room <- s1, hand <- s2, flights <- s3, wire <- s4, throws <- s5

PlayInit == part = "play" /\ Play!Init /\ s6 = 0 /\ s7 = 0 /\ s8 = 0 /\ s9 = 0 /\ s10 = 0 /\ s11 = 0

PlayStep == part = "play" /\ Play!Next /\ UNCHANGED <<part, s6, s7, s8, s9, s10, s11>>

PlayWeakly(i) ==
  /\ part = "play"
  /\ \/ i = 1 /\ Play!Hear("a")
     \/ i = 2 /\ Play!Hear("b")
     \/ i = 3 /\ Play!Lapsed("a")
     \/ i = 4 /\ Play!Lapsed("b")
  /\ UNCHANGED <<part, s6, s7, s8, s9, s10, s11>>

PlayStrongly(i) ==
  /\ part = "play"
  /\ \/ i = 1 /\ Play!Flies("a")
     \/ i = 2 /\ Play!Flies("b")
     \/ i = 3 /\ Play!Announce("a")
     \/ i = 4 /\ Play!Announce("b")
  /\ UNCHANGED <<part, s6, s7, s8, s9, s10, s11>>

\* A plate, and a plate across the end of it.
BrickPlan ==
  LET plate(y, rot) == [shape |-> "plate-1x2", x |-> 0, y |-> y, z |-> 0, rot |-> rot]
  IN  <<plate(0, 0), plate(1, 1)>>

Bricks == INSTANCE LobbyBricks WITH Me <- "me", Others <- {"lego", "guest"},
    Makers <- {"me", "lego"}, Bricks <- {1, 2}, MaxRev <- 3, Reach <- 2, MaxPlates <- 2, Rings <- 2,
    Kinds <- {"plate-1x2"}, Rots <- {0, 1}, Columns <- {<<-1, -1>>, <<-1, 0>>}, Plan <- BrickPlan, api <- s1, aged <- s2, copy <- s3,
    op <- s4, read <- s5

BricksInit ==
    part = "bricks" /\ Bricks!Init /\ s6 = 0 /\ s7 = 0 /\ s8 = 0 /\ s9 = 0 /\ s10 = 0 /\ s11 = 0

BricksStep == part = "bricks" /\ Bricks!Next /\ UNCHANGED <<part, s6, s7, s8, s9, s10, s11>>

BricksWeakly(i) ==
  /\ part = "bricks"
  /\ \/ i = 1 /\ Bricks!AskList
  /\ UNCHANGED <<part, s6, s7, s8, s9, s10, s11>>

BricksStrongly(i) ==
  /\ part = "bricks"
  /\ \/ i = 1 /\ Bricks!Apply
     \/ i = 2 /\ Bricks!ServeList
  /\ UNCHANGED <<part, s6, s7, s8, s9, s10, s11>>

Machines == INSTANCE LobbyMachines WITH Machines <- {1, 2}, MaxRev <- 3, api <- s1, page <- s2,
    shown <- s3, read <- s4, busy <- s5

MachinesInit ==
    part = "machines" /\ Machines!Init /\ s6 = 0 /\ s7 = 0 /\ s8 = 0 /\ s9 = 0 /\ s10 = 0 /\ s11 = 0

MachinesStep == part = "machines" /\ Machines!Next /\ UNCHANGED <<part, s6, s7, s8, s9, s10, s11>>

MachinesWeakly(i) ==
  /\ part = "machines"
  /\ \/ i = 1 /\ Machines!AskList
     \/ i = 2 /\ Machines!ModelAges
  /\ UNCHANGED <<part, s6, s7, s8, s9, s10, s11>>

MachinesStrongly(i) ==
  /\ part = "machines"
  /\ \/ i = 1 /\ Machines!ServeList
     \/ i = 2 /\ Machines!Apply
     \/ i = 3 /\ Machines!AskModel
     \/ i = 4 /\ Machines!ModelArrives
  /\ UNCHANGED <<part, s6, s7, s8, s9, s10, s11>>

LobbyInit ==
  \/ FeedInit
  \/ NavInit
  \/ ShellInit
  \/ PlayInit
  \/ BricksInit
  \/ MachinesInit

LobbyNext ==
  \/ FeedStep
  \/ NavStep
  \/ ShellStep
  \/ PlayStep
  \/ BricksStep
  \/ MachinesStep

LobbyWeakly(i) == FeedWeakly(i) \/ NavWeakly(i) \/ ShellWeakly(i) \/ PlayWeakly(i) \/ BricksWeakly(i) \/
    MachinesWeakly(i)

LobbyStrongly(i) == PlayStrongly(i) \/ BricksStrongly(i) \/ MachinesStrongly(i)

\* Each part's own fairness: its n-th condition is the n-th of all.
LobbyFairness ==
  /\ \A i \in 1..6 : WF_vars(LobbyWeakly(i))
  /\ \A i \in 1..4 : SF_vars(LobbyStrongly(i))

LobbySpec == LobbyInit /\ [][LobbyNext]_vars /\ LobbyFairness

-----------------------------------------------------------------------------
\* One seat in the voice room, and no microphone capturing outside it, whatever answer comes
\* late (VoiceSession).
SeatHeld ==
  /\ part = "voice" => Voice!OneSeat /\ Voice!NoHotMic

\* What the panel says of the microphone and of the sound is so, and who is in range is who is
\* heard (VoiceSession, VoicePeers).
VoiceToldTrue ==
  /\ part = "voice" => Voice!MicTold /\ Voice!SoundTold
  /\ part = "peers" => Peers!HeardRight

\* What is drawn is what there is: the shared body, an app's clip, a robot's look and what
\* flies over it (CaveScene, RobotView).
DrawnTrue ==
  /\ part = "scene" => Scene!BodyAsItIs /\ Scene!ClipStays
  /\ part = "robot" => Robot!WearsItsLook /\ Robot!FlyerWhereItBelongs

\* Our voice is permitted only to who is in the room and near, by what their present session
\* says; and a cave that stopped tells the page nothing more (VoicePeers, CaveScene).
NothingOutOfTurn ==
  [][/\ part = "peers" => Peers!PermitsSoundStep
     /\ part = "scene" => Scene!QuietOnceStoppedStep]_vars

\* What must not last in each part, or, where something follows, only with what follows.
CaveLasts(i) ==
  \/ part = "voice" /\ IF i = 1 THEN Voice!Joining ELSE ~s1.open /\ ~Voice!NothingKept
  \/ part = "peers" /\ IF i = 1 THEN Peers!WithinReach ELSE Peers!WithinMine
  \/ part = "scene" /\ i = 1 /\ ~Scene!AsTheyLook
  \/ part = "robot" /\ ~Robot!Dressed(IF i = 1 THEN "head" ELSE "accessory")

CaveFollows(i) == part = "peers" /\ IF i = 1 THEN Peers!IsHeard ELSE s4.list

\* A join settles, and a page that has gone, which stays gone, lets go of everything
\* (VoiceSession.JoinSettles, ClosedLetsGo); who is there comes to be drawn, and dressed
\* (CaveScene.SeenAsTheyLook, RobotView.DressedAtLast): none of these lasts for good.
\* Who stays near comes to be heard, and to be let hear us (VoicePeers.HeardAtLast).
CaveSettles == \A i \in 1..2 : <>[]CaveLasts(i) => <>[]CaveFollows(i)

-----------------------------------------------------------------------------
\* The bar stays while it is used, one feed speaks for the visit, a browser at the cave's
\* revision shows others' bricks as they are, and a refused take-down comes back (LobbyNav,
\* LobbyShell, LobbyBricks, LobbyMachines).
LobbyInStep ==
  /\ part = "nav" => Nav!BarStays
  /\ part = "shell" => Shell!OneFeed
  /\ part = "bricks" => Bricks!SeesTheBuild /\ Bricks!TurnsWhole
  /\ part = "machines" => Machines!RefusedTakeDownComesBack

\* What must not last in each part, or, where something follows, only with what follows.
LobbyLasts(i) ==
  \/ part = "feed" /\ IF i = 1 THEN ~Feed!NoGhosts("t1") ELSE ~Feed!NoGhosts("t2")
  \/ part = "nav" /\ i = 1 /\ Nav!LeftAlone
  \/ part = "shell" /\ IF i = 1 THEN Shell!Entering /\ ~Shell!Entered
                       ELSE Shell!JoinFailed /\ ~Shell!TriedAgain
  \/ part = "play" /\ ~Play!Agrees(IF i = 1 THEN "a" ELSE "b")
  \/ part = "bricks" /\ i = 1 /\ ~Bricks!UpToDate
  \/ part = "machines" /\ i = 1 /\ ~Machines!Drawn

LobbyFollows(i) == part = "nav" /\ i = 1 /\ ~Nav!Shown

\* No tab that has gone stays in another's list (LocalFeed.GhostsGo); whoever enters the lobby
\* gets in, and a join that failed is tried again (LobbyShell.LobbyComesUp); hands agree
\* (LobbyPlay.HandsAgree), bricks and machines are shown as they are (EveryoneSeesTheBuild,
\* MachinesDrawn): nothing to the contrary goes on for good. The bar, left alone, goes and
\* stays away (LobbyNav.BarGoes).
LobbyCatchesUp == \A i \in 1..2 : <>[]LobbyLasts(i) => <>[]LobbyFollows(i)

\* The library's heads: one of each fit.
LibraryFits == [h \in {"h", "k"} |-> IF h = "h" THEN "replace" ELSE "accessory"]

-----------------------------------------------------------------------------
\* The screens that answer to one person.

Sign == INSTANCE SignInFlow WITH Accounts <- {"a", "b"},
    Kinds <- {"signin", "google", "start", "copy"}, Calls <- {"p"}, MaxAttempts <- 2,
    jar <- s1, asked <- s2, back <- s3, call <- s4, token <- s5, done <- s6, on <- s7

SignInit == part = "sign" /\ Sign!Init /\ s8 = 0 /\ s9 = 0 /\ s10 = 0 /\ s11 = 0

SignStep == part = "sign" /\ Sign!Next /\ UNCHANGED <<part, s8, s9, s10, s11>>

Bff == INSTANCE BffForward WITH server <- s1, who <- s2, req <- s3, api <- s4, page <- s5

BffInit == part = "bff" /\ Bff!Init /\ s6 = 0 /\ s7 = 0 /\ s8 = 0 /\ s9 = 0 /\ s10 = 0 /\ s11 = 0

BffStep == part = "bff" /\ Bff!Next /\ UNCHANGED <<part, s6, s7, s8, s9, s10, s11>>

Agents == INSTANCE Connector WITH MaxCodes <- 1, MaxTokens <- 3, MaxLive <- 2, flag <- s1,
    session <- s2, page <- s3, codes <- s4, grants <- s5, tokens <- s6, agent <- s7, me <- s8

AgentsInit == part = "agents" /\ Agents!Init /\ s9 = 0 /\ s10 = 0 /\ s11 = 0

AgentsStep == part = "agents" /\ Agents!Next /\ UNCHANGED <<part, s9, s10, s11>>

\* Every way a read may end, one or two of them a key.
ScreenYields(k) ==
  CASE k.sort = "asc" /\ k.off = 0 -> {"rows", "refused"}
    [] k.sort = "asc" /\ k.off = 1 -> {"rows", "none"}
    [] k.sort = "desc" /\ k.off = 0 -> {"rows", "denied", "failed"}
    [] OTHER -> {"rows"}

ScreenFinds(text) == IF text = "abc" THEN {0, 2} ELSE {1, -1}

Screen == INSTANCE LedgerScreen WITH Filters <- {"f"}, LastPage <- 1, Yields <- ScreenYields,
    Finds <- ScreenFinds, Kept <- 2, at <- s1, url <- s2, draft <- s3, paging <- s4, query <- s5,
    press <- s6, last <- s7, online <- s8, bar <- s9, hits <- s10

ScreenInit == part = "screen" /\ Screen!Init /\ s11 = 0

ScreenStep == part = "screen" /\ Screen!Next /\ UNCHANGED <<part, s11>>

Buttons == INSTANCE Controls WITH MaxRuns <- 3, Options <- {"o1", "o2"}, MinChars <- 2,
    Items <- 3, Most <- 2, which <- s1, hold <- s2, slide <- s3, button <- s4, box <- s5, menu <- s6,
    field <- s7

ButtonsInit == part = "buttons" /\ Buttons!Init /\ s8 = 0 /\ s9 = 0 /\ s10 = 0 /\ s11 = 0

ButtonsStep == part = "buttons" /\ Buttons!Next /\ UNCHANGED <<part, s8, s9, s10, s11>>

Library == INSTANCE MachineLibrary WITH Blueprints <- {1, 2}, Files <- {"f"}, MaxRoles <- 0,
    api <- s1, page <- s2, busy <- s3, up <- s4, wire <- s5

LibraryInit ==
    part = "library" /\ Library!Init /\ s6 = 0 /\ s7 = 0 /\ s8 = 0 /\ s9 = 0 /\ s10 = 0 /\ s11 = 0

LibraryStep == part = "library" /\ Library!Next /\ UNCHANGED <<part, s6, s7, s8, s9, s10, s11>>

Mechanic == INSTANCE MachineLibrary WITH Blueprints <- {1}, Files <- {"f"}, MaxRoles <- 1,
    api <- s1, page <- s2, busy <- s3, up <- s4, wire <- s5

MechanicInit ==
    part = "mechanic" /\ Mechanic!Init /\ s6 = 0 /\ s7 = 0 /\ s8 = 0 /\ s9 = 0 /\ s10 = 0 /\ s11 = 0

MechanicStep == part = "mechanic" /\ Mechanic!Next /\ UNCHANGED <<part, s6, s7, s8, s9, s10, s11>>

Editor == INSTANCE RobotEditor WITH Members <- {"a", "b"}, Looks <- {"d", "x"}, Default <- "d",
    MaxWire <- 1, api <- s1, list <- s2, load <- s3, ed <- s4, wire <- s5

EditorInit ==
    part = "editor" /\ Editor!Init /\ s6 = 0 /\ s7 = 0 /\ s8 = 0 /\ s9 = 0 /\ s10 = 0 /\ s11 = 0

EditorStep == part = "editor" /\ Editor!Next /\ UNCHANGED <<part, s6, s7, s8, s9, s10, s11>>

Heads == INSTANCE HeadFitting WITH Files <- {"f"}, Heads <- {"h", "k"},
    Fits <- {"replace", "accessory"}, FitOf <- LibraryFits, page <- s1, lib <- s2, tool <- s3,
    loads <- s4, sent <- s5

HeadsInit ==
    part = "heads" /\ Heads!Init /\ s6 = 0 /\ s7 = 0 /\ s8 = 0 /\ s9 = 0 /\ s10 = 0 /\ s11 = 0

HeadsStep == part = "heads" /\ Heads!Next /\ UNCHANGED <<part, s6, s7, s8, s9, s10, s11>>

Comment == INSTANCE ProposalPage WITH Kinds <- {"comment", "object"}, MaxV <- 2, MaxReads <- 1,
    api <- s1, page <- s2, reads <- s3, op <- s4, late <- s5

CommentInit ==
    part = "comment" /\ Comment!Init /\ s6 = 0 /\ s7 = 0 /\ s8 = 0 /\ s9 = 0 /\ s10 = 0 /\ s11 = 0

CommentStep == part = "comment" /\ Comment!Next /\ UNCHANGED <<part, s6, s7, s8, s9, s10, s11>>

Panel == INSTANCE PeoplePanel WITH People <- {"a", "b"}, SearchFrom <- 3, voice <- s1, group <- s2,
    drawer <- s3, busy <- s4, focus <- s5, which <- s6, want <- s7, list <- s8, reverb <- s9

PanelInit ==
    part = "panel" /\ Panel!Init /\ s10 = 0 /\ s11 = 0

PanelStep == part = "panel" /\ Panel!Next /\ UNCHANGED <<part, s10, s11>>

Desk == INSTANCE DraftDesk WITH Specs <- {"h1"}, Mine <- {"a"}, Theirs <- {"o"}, MaxJobs <- 1,
    api <- s1, seen <- s2, desk <- s3, op <- s4, ghost <- s5

DeskInit == part = "desk" /\ Desk!Init /\ s6 = 0 /\ s7 = 0 /\ s8 = 0 /\ s9 = 0 /\ s10 = 0 /\ s11 = 0

DeskStep == part = "desk" /\ Desk!Next /\ UNCHANGED <<part, s6, s7, s8, s9, s10, s11>>

List == INSTANCE FloorList WITH MaxId <- 2, DecidedPage <- 1, Second <- 2, MaxTime <- 4,
    Offsets <- {0, 1, 3}, Within <- 2, which <- s1, api <- s2, floor <- s3, me <- s4,
    reads <- s5, older <- s6, now <- s7, off <- s8, clock <- s9, ask <- s10, card <- s11

ListInit == part = "list" /\ List!Init

ListStep == part = "list" /\ List!Next /\ UNCHANGED <<part>>

Practice == INSTANCE PracticeApp WITH Me <- "me", Members <- {"me", "maya", "sam", "jo"},
    MaxComments <- 2, MaxTime <- 4, MaxEvents <- 4, which <- s1, floor <- s2, now <- s3,
    task <- s4, answer <- s5

PracticeInit ==
    part = "practice" /\ Practice!Init /\ s6 = 0 /\ s7 = 0 /\ s8 = 0 /\ s9 = 0 /\ s10 = 0 /\ s11 = 0

PracticeStep == part = "practice" /\ Practice!Next /\ UNCHANGED <<part, s6, s7, s8, s9, s10, s11>>

Bring == INSTANCE BringProposal WITH MaxTries <- 2, api <- s1, form <- s2, me <- s3,
    send <- s4, late <- s5

BringInit ==
    part = "bring" /\ Bring!Init /\ s6 = 0 /\ s7 = 0 /\ s8 = 0 /\ s9 = 0 /\ s10 = 0 /\ s11 = 0

BringStep == part = "bring" /\ Bring!Next /\ UNCHANGED <<part, s6, s7, s8, s9, s10, s11>>

Steps == INSTANCE TaskSteps WITH MaxPulls <- 2, world <- s1, page <- s2, poll <- s3,
    trip <- s4, steps <- s5

StepsInit ==
    part = "steps" /\ Steps!Init /\ s6 = 0 /\ s7 = 0 /\ s8 = 0 /\ s9 = 0 /\ s10 = 0 /\ s11 = 0

StepsStep == part = "steps" /\ Steps!Next /\ UNCHANGED <<part, s6, s7, s8, s9, s10, s11>>

Agent == INSTANCE AgentStart WITH Rails <- {"jules"}, Relays <- {"jules"}, MaxTime <- 1,
    api <- s1, now <- s2, panel <- s3, start <- s4, notes <- s5

AgentInit ==
    part = "agent" /\ Agent!Init /\ s6 = 0 /\ s7 = 0 /\ s8 = 0 /\ s9 = 0 /\ s10 = 0 /\ s11 = 0

AgentStep == part = "agent" /\ Agent!Next /\ UNCHANGED <<part, s6, s7, s8, s9, s10, s11>>

Outcome == INSTANCE LobbyBehavior WITH scene <- s1, view <- s2, shown <- s3, refs <- s4,
    word <- s5

OutcomeInit ==
    part = "outcome" /\ Outcome!Init /\ s6 = 0 /\ s7 = 0 /\ s8 = 0 /\ s9 = 0 /\ s10 = 0 /\ s11 = 0

OutcomeStep == part = "outcome" /\ Outcome!Next /\ UNCHANGED <<part, s6, s7, s8, s9, s10, s11>>

Touch == INSTANCE CaveControls WITH Fingers <- {"g", "f"}, Mouse <- "mouse", Slots <- {1},
    Keys <- {"Space"}, hands <- s1, input <- s2, view <- s3, hover <- s4, readout <- s5

TouchInit ==
    part = "touch" /\ Touch!Init /\ s6 = 0 /\ s7 = 0 /\ s8 = 0 /\ s9 = 0 /\ s10 = 0 /\ s11 = 0

TouchStep == part = "touch" /\ Touch!Next /\ UNCHANGED <<part, s6, s7, s8, s9, s10, s11>>

Pointer == INSTANCE CaveControls WITH Fingers <- {"mouse"}, Mouse <- "mouse", Slots <- {1, 2},
    Keys <- {"Space"}, hands <- s1, input <- s2, view <- s3, hover <- s4, readout <- s5

PointerInit ==
    part = "pointer" /\ Pointer!Init /\ s6 = 0 /\ s7 = 0 /\ s8 = 0 /\ s9 = 0 /\ s10 = 0 /\ s11 = 0

PointerStep == part = "pointer" /\ Pointer!Next /\ UNCHANGED <<part, s6, s7, s8, s9, s10, s11>>

Switches == INSTANCE NotificationBell WITH MaxId <- 1, Screens <- {"floor", "connector", "layout"},
    MaxEdits <- 1, api <- s1, bell <- s2, read <- s3, marks <- s4, said <- s5, flag <- s6, reader <- s7

SwitchesInit == part = "switches" /\ Switches!Init /\ s8 = 0 /\ s9 = 0 /\ s10 = 0 /\ s11 = 0

SwitchesStep == part = "switches" /\ Switches!Switch /\ UNCHANGED <<part, s8, s9, s10, s11>>

ScreensInit ==
  \/ SignInit
  \/ BffInit
  \/ AgentsInit
  \/ ScreenInit
  \/ ButtonsInit
  \/ LibraryInit
  \/ MechanicInit
  \/ EditorInit
  \/ HeadsInit
  \/ CommentInit
  \/ PanelInit
  \/ DeskInit
  \/ ListInit
  \/ PracticeInit
  \/ BringInit
  \/ StepsInit
  \/ AgentInit
  \/ OutcomeInit
  \/ TouchInit
  \/ PointerInit
  \/ SwitchesInit

ScreensNext ==
  \/ SignStep
  \/ BffStep
  \/ AgentsStep
  \/ ScreenStep
  \/ ButtonsStep
  \/ LibraryStep
  \/ MechanicStep
  \/ EditorStep
  \/ HeadsStep
  \/ CommentStep
  \/ PanelStep
  \/ DeskStep
  \/ ListStep
  \/ PracticeStep
  \/ BringStep
  \/ StepsStep
  \/ AgentStep
  \/ OutcomeStep
  \/ TouchStep
  \/ PointerStep
  \/ SwitchesStep

ScreensSpec == ScreensInit /\ [][ScreensNext]_vars

-----------------------------------------------------------------------------
\* The pages that keep in step with what others do.

Proposal == INSTANCE ProposalPage WITH Kinds <- {"consent", "object", "comment"}, MaxV <- 2,
    MaxReads <- 1, api <- s1, page <- s2, reads <- s3, op <- s4, late <- s5

ProposalInit ==
    part = "proposal" /\ Proposal!Init /\ s6 = 0 /\ s7 = 0 /\ s8 = 0 /\ s9 = 0 /\ s10 = 0 /\ s11 = 0

ProposalStep == part = "proposal" /\ Proposal!Next /\ UNCHANGED <<part, s6, s7, s8, s9, s10, s11>>

ProposalWeakly(i) ==
  /\ part = "proposal"
  /\ \/ i = 1 /\ (\E r \in 1..Len(s3) : Proposal!ReadServed(r) \/ Proposal!Lands(r))
     \/ i = 2 /\ Proposal!GivesUp
     \/ i = 3 /\ (\/ Proposal!PostReason \/ Proposal!WriteAnswered
                 \/ Proposal!WriteRefused \/ Proposal!WriteUnclear)
  /\ UNCHANGED <<part, s6, s7, s8, s9, s10, s11>>

ProposalStrongly(i) ==
  /\ part = "proposal"
  /\ \/ i = 1 /\ (\E r \in 1..Len(s3) : Proposal!ReadServed(r) /\ s3'[r].got.you = (s3[r].how = "you"))
     \/ i = 2 /\ (\E r \in 1..Len(s3) : Proposal!YouLands(r) \/ Proposal!PublicLands(r))
     \/ i = 3 /\ Proposal!Poll
  /\ UNCHANGED <<part, s6, s7, s8, s9, s10, s11>>

Bell == INSTANCE NotificationBell WITH MaxId <- 2, Screens <- {"bell"}, MaxEdits <- 0, api <- s1, bell <- s2, read <- s3,
    marks <- s4, said <- s5, flag <- s6, reader <- s7

BellInit == part = "bell" /\ Bell!Init /\ s8 = 0 /\ s9 = 0 /\ s10 = 0 /\ s11 = 0

BellStep == part = "bell" /\ Bell!Next /\ UNCHANGED <<part, s8, s9, s10, s11>>

BellWeakly(i) ==
  /\ part = "bell"
  /\ \/ i = 1 /\ (Bell!Visibility /\ ~s2.visible)
     \/ i = 2 /\ Bell!NoAnswer
  /\ UNCHANGED <<part, s8, s9, s10, s11>>

BellStrongly(i) ==
  /\ part = "bell"
  /\ \/ i = 1 /\ Bell!Tick
     \/ i = 2 /\ Bell!Serve
     \/ i = 3 /\ Bell!Lands
  /\ UNCHANGED <<part, s8, s9, s10, s11>>

Task == INSTANCE TaskPage WITH MaxPushes <- 1, api <- s1, page <- s2, load <- s3, quiet <- s4,
    poll <- s5, checks <- s6, write <- s7

TaskInit == part = "task" /\ Task!Init /\ s8 = 0 /\ s9 = 0 /\ s10 = 0 /\ s11 = 0

TaskStep == part = "task" /\ Task!Next /\ UNCHANGED <<part, s8, s9, s10, s11>>

TaskWeakly(i) ==
  /\ part = "task"
  /\ \/ i = 1 /\ (Task!Visibility /\ ~s2.visible)
  /\ UNCHANGED <<part, s8, s9, s10, s11>>

TaskStrongly(i) ==
  /\ part = "task"
  /\ \/ i = 1 /\ Task!Tick
     \/ i = 2 /\ Task!ServeStatus
     \/ i = 3 /\ (Task!LeaseLost \/ Task!StatusLands)
  /\ UNCHANGED <<part, s8, s9, s10, s11>>

Ledger == INSTANCE LedgerReads WITH Regions <- {"overview", "rates", "list"},
    Heavy <- {"overview", "rates"}, Answers <- {"data", "busy"}, Slots <- 1, MaxReads <- 3,
    MaxKey <- 4, Limit <- 2, MaxPages <- 4, which <- s1, reads <- s2, waiting <- s3,
    running <- s4, current <- s5, view <- s6, rows <- s7, walk <- s8

LedgerInit == part = "ledger" /\ Ledger!Init /\ s9 = 0 /\ s10 = 0 /\ s11 = 0

LedgerStep == part = "ledger" /\ Ledger!Next /\ UNCHANGED <<part, s9, s10, s11>>

LedgerWeakly(i) ==
  /\ part = "ledger"
  /\ \/ i = 1 /\ Ledger!ReadOver
  /\ UNCHANGED <<part, s9, s10, s11>>

PagesInit ==
  \/ ProposalInit
  \/ BellInit
  \/ TaskInit
  \/ LedgerInit

PagesNext ==
  \/ ProposalStep
  \/ BellStep
  \/ TaskStep
  \/ LedgerStep

PagesWeakly(i) == ProposalWeakly(i) \/ BellWeakly(i) \/ TaskWeakly(i) \/ LedgerWeakly(i)

PagesStrongly(i) == ProposalStrongly(i) \/ BellStrongly(i) \/ TaskStrongly(i)

\* Each part's own fairness: its n-th condition is the n-th of all.
PagesFairness ==
  /\ \A i \in 1..3 : WF_vars(PagesWeakly(i))
  /\ \A i \in 1..3 : SF_vars(PagesStrongly(i))

PagesSpec == PagesInit /\ [][PagesNext]_vars /\ PagesFairness

-----------------------------------------------------------------------------
\* Nothing acts for a person but as they asked, and no longer: one-time tokens, vouched calls,
\* revoked agents; and what they are told of it is so (SignInFlow, BffForward, Connector).
ActsForThem ==
  /\ part = "sign" => Sign!ActsAsAsked /\ Sign!TokensReturned
  /\ part = "bff" => Bff!VouchedOnly /\ Bff!ToldTrue
  /\ part = "agents" => Agents!RevokedIsOver /\ Agents!SaidIsDone

\* What a screen shows, a tool fits and a control takes is of what was asked for last, whatever
\* answers late; and nothing let go of out of hearing moves the camera on, nor is a readout
\* left in another slot (LedgerScreen, HeadFitting, Controls, CaveControls).
ShownIsAsked ==
  /\ part = "screen" => Screen!ShownIsAsked
  /\ part = "heads" => Heads!FitIsItsOwn /\ Heads!AimIsCurrent
  /\ part = "buttons" => Buttons!NeverTwice
  /\ part = "touch" => Touch!LetsGo /\ Touch!ReadoutInPlace
  /\ part = "pointer" => Pointer!LetsGo /\ Pointer!ReadoutInPlace

\* What a screen says happened, did: a write, a copy, a review, a start, a relay, an action, a
\* catch, a deadline that is over, a section that is empty (ProposalPage, TaskSteps, AgentStart,
\* Controls, LobbyBehavior, FloorList); a screen opens only where a valid flag says so (NotificationBell).
SaidIsSo ==
  /\ part = "comment" => Comment!ToldTrue
  /\ part = "steps" => Steps!SaidOnlyIfSo /\ Steps!NoSecondOffer
  /\ part = "agent" => Agent!StartTold
  /\ part = "buttons" => Buttons!SaysItsOwn
  /\ part = "outcome" => Outcome!OutcomeTrue
  /\ part = "list" => List!ClockTrue /\ List!SectionsTrue /\ List!NothingHidden
  /\ part = "switches" => Switches!SwitchTrue

\* Machines keep their files, and a failed upload leaves none behind (MachineLibrary).
FilesKept ==
  /\ part = "library" => Library!FilesStand /\ Library!FailedUploadLeavesNothing
  /\ part = "mechanic" => Mechanic!FilesStand /\ Mechanic!FailedUploadLeavesNothing

\* The form's text stands, what is published was read, and the practice floor ends as it says
\* it will (DraftDesk, PracticeApp).
WorkKept ==
  /\ part = "desk" => Desk!FormKept /\ Desk!PublishedRead
  /\ part = "practice" => Practice!WalkThrough

\* No step does what was not asked, and none takes back what is there: signs in, drops a draft,
\* takes a value not shown, puts a proposal back, takes a list back, drops what is typed, sets a
\* practice run back, takes the keyboard's place (SignInFlow, RobotEditor, Controls,
\* ProposalPage, FloorList, BringProposal, PracticeApp, PeoplePanel).
NothingUnasked ==
  [][/\ part = "sign" => Sign!SignedInByAskingStep
     /\ part = "editor" => Editor!DraftKeptStep
     /\ part = "buttons" => Buttons!TakesWhatShowsStep
     /\ part = "comment" => Comment!NeverBackStep
     /\ part = "list" => List!KeepsStep
     /\ part = "bring" => Bring!TypedKeptStep
     /\ part = "practice" => Practice!RunMovesOnStep
     /\ part = "panel" => Panel!KeepsStep
     /\ part = "switches" => Switches!SettledStep]_vars

-----------------------------------------------------------------------------
\* What a proposal's page says went through did, and a region of the ledger is told its own
\* read's outcome (ProposalPage, LedgerReads).
ToldAsItIs ==
  /\ part = "proposal" => Proposal!ToldTrue
  /\ part = "ledger" => Ledger!ToldItsOwn

\* Reads take turns, and a walk of a list that moves misses nothing (LedgerReads).
ReadsInTurn ==
  /\ part = "ledger" => Ledger!TurnsTaken /\ Ledger!NothingMissed

\* A proposal is never put back by an answer older than a write, and a lease is let go only
\* when its claim has ended (ProposalPage, TaskPage).
NothingTakenBack ==
  [][/\ part = "proposal" => Proposal!NeverBackStep
     /\ part = "task" => Task!LossIsTrueStep]_vars

\* What must not last in each part.
PagesLasts(i) ==
  \/ part = "proposal" /\ IF i = 1 THEN Proposal!Working ELSE ~Proposal!Writing /\ ~Proposal!CaughtUp
  \/ part = "bell" /\ i = 1 /\ ~Bell!CountTrue
  \/ part = "task" /\ i = 1 /\ ~Task!LeaseShown
  \/ part = "ledger" /\ i = 1 /\ ~Ledger!AllOver

\* No write is busy for good, and the proposal, the bell's count and the lease shown come back
\* to what FORGE has (ProposalPage.PageCatchesUp, NotificationBell.BellTrue, TaskPage.LeaseTrue);
\* no read of the ledger waits for ever (LedgerReads.ReadsEnd).
PagesCatchUp == \A i \in 1..2 : ~<>[]PagesLasts(i)

-----------------------------------------------------------------------------
\* Every part's variables have their types.
TypesHold ==
  /\ part = "voice" => Voice!TypeOK
  /\ part = "peers" => Peers!TypeOK
  /\ part = "scene" => Scene!TypeOK
  /\ part = "robot" => Robot!TypeOK
  /\ part = "feed" => Feed!TypeOK
  /\ part = "nav" => Nav!TypeOK
  /\ part = "shell" => Shell!TypeOK
  /\ part = "play" => Play!TypeOK
  /\ part = "bricks" => Bricks!TypeOK
  /\ part = "machines" => Machines!TypeOK
  /\ part = "sign" => Sign!TypeOK
  /\ part = "bff" => Bff!TypeOK
  /\ part = "agents" => Agents!TypeOK
  /\ part = "screen" => Screen!TypeOK
  /\ part = "buttons" => Buttons!TypeOK
  /\ part = "library" => Library!TypeOK
  /\ part = "mechanic" => Mechanic!TypeOK
  /\ part = "editor" => Editor!TypeOK
  /\ part = "heads" => Heads!TypeOK
  /\ part = "comment" => Comment!TypeOK
  /\ part = "panel" => Panel!TypeOK
  /\ part = "desk" => Desk!TypeOK
  /\ part = "list" => List!TypeOK
  /\ part = "practice" => Practice!TypeOK
  /\ part = "bring" => Bring!TypeOK
  /\ part = "steps" => Steps!TypeOK
  /\ part = "agent" => Agent!TypeOK
  /\ part = "outcome" => Outcome!TypeOK
  /\ part = "touch" => Touch!TypeOK
  /\ part = "pointer" => Pointer!TypeOK
  /\ part = "proposal" => Proposal!TypeOK
  /\ part = "bell" => Bell!TypeOK
  /\ part = "switches" => Switches!TypeOK
  /\ part = "task" => Task!TypeOK
  /\ part = "ledger" => Ledger!TypeOK

=============================================================================
