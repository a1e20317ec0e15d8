---------------------------- MODULE VoiceSession ----------------------------
(***************************************************************************)
(* One member's seat in the lobby's LiveKit room, from the page that opens *)
(* a presence feed to the page that closes it: the feed's own token and    *)
(* import, the voice engine's join, its leave, the room's connection as    *)
(* LiveKit reports it, the microphone, the audio context with its reverb,  *)
(* and the panel that asks for all of them.  Every await of the code is a  *)
(* step boundary: an answer is a separate action that finds whatever the   *)
(* others have done meanwhile.                                             *)
(***************************************************************************)
EXTENDS Naturals, FiniteSets

CONSTANTS MaxJoins,   \* joins the engine is asked for
          MaxRooms,   \* LiveKit Room objects it may come to make
          MaxMic,     \* changes of the microphone asked for
          MaxReverb   \* reverb loads started

Rooms == 1..MaxRooms
NoRoom == 0

\* Why the token route gave none, and why there is no room.
RouteRefusals == {"signed-out", "practice", "unavailable", "error"}
NoneReasons == RouteRefusals \cup {"failed", "elsewhere"}
EngineStatus == {"idle", "fetching-token", "connecting", "connected",
                 "reconnecting", "disconnected", "error"}
MicProblems == {"none", "denied", "no-device", "failed"}

VARIABLES
  feed,      \* livekitFeed: whether it is open, its first token and import, what it says before the engine exists
  engine,    \* ProximityVoiceEngine: the fields that say which room it is in
  calls,     \* joins waiting for a promise: their number, and their room once they have one
  leaving,   \* how far leave() has got
  link,      \* what LiveKit knows of each Room (its ConnectionState)
  capture,   \* whether a Room's microphone is capturing (isMicrophoneEnabled)
  mic,       \* what the engine says of the microphone
  micOps,    \* setMicrophoneEnabled calls that have not settled
  audio,     \* the audio context, its unlock listeners and the reverb
  renders,   \* reverb renders that have not finished
  page       \* the lobby page and its panel

roomVars == <<feed, engine, calls, leaving>>
micVars == <<capture, mic, micOps>>
audioVars == <<audio, renders>>
vars == <<roomVars, link, micVars, audioVars, page>>

-----------------------------------------------------------------------------
\* What the panel reads of the engine.

InRoomStatus == {"connected", "reconnecting"}

\* connectionOf: the connection the panel names, "none" when there is no room.
Connection ==
  CASE engine.status \in InRoomStatus -> engine.status
    [] engine.status = "disconnected" /\ engine.refusal = "none" -> "closed"
    [] engine.status \in {"disconnected", "error"} -> "none"
    [] OTHER -> "connecting"

\* statusOf: the reason the shell shows, "none" while there is a room or one on its way.
Refusal ==
  CASE ~engine.made -> IF feed.said = "connecting" THEN "none" ELSE feed.said
    [] engine.status = "error" -> IF engine.refusal = "none" THEN "error" ELSE engine.refusal
    [] engine.status = "disconnected" -> engine.refusal
    [] OTHER -> "none"

InRoom == engine.made /\ Connection \in InRoomStatus \cup {"connecting"}
Available == engine.made /\ Connection \in InRoomStatus

\* The feed's own promise of a join, which connect() hands to a second caller.
Joining == feed.boot # "none" \/ \E c \in calls : c.seq = engine.seq

-----------------------------------------------------------------------------
\* The engine's parts.

\* Mutant of ResetMic: a change asked for in a room that is gone stays pending.
ResetMicPending == [mic EXCEPT !.muted = TRUE, !.call = @ + 1, !.problem = "none"]

\* resetRoomState: what a room leaves behind, its pending microphone call included.
ResetMic == [muted |-> TRUE, pending |-> FALSE, call |-> mic.call + 1, problem |-> "none"]

\* refreshMic: the button takes the room's word, unless a change is in flight.
RefreshMic(m, on) == IF m.pending THEN m ELSE [m EXCEPT !.muted = ~on]

\* Mutant of Silenced: the capture outlives its room.
SilencedNot(r) == capture

\* stopLocalTrack, and LiveKit's own stop of a room it has let go of.
Silenced(r) == [capture EXCEPT ![r] = FALSE]

\* Mutant of OpenedContext: nothing listens for the gesture that would start it.
OpenedContextDeaf(s) ==
  IF audio.ctx # "none" THEN audio
  ELSE [audio EXCEPT !.ctx = s, !.blocked = s # "running", !.reverb = "generating", !.reverbSeq = @ + 1]

\* ensureAudioContext: a context in state s, the unlock listeners while it is held back.
OpenedContext(s) ==
  IF audio.ctx # "none" THEN audio
  ELSE [audio EXCEPT !.ctx = s, !.blocked = s # "running", !.unlock = @ \/ s # "running",
                     !.reverb = "generating", !.reverbSeq = @ + 1]

\* loadReverb, when a context is there to render for.
ReverbStarted == renders \cup {audio.reverbSeq + 1}

\* roomForJoin: this engine's own Room again when it is free, or a new one.
SpareFree == /\ engine.spare # NoRoom
             /\ engine.spare # engine.connecting
             /\ link[engine.spare] = "down"

RoomForJoin == IF SpareFree THEN engine.spare ELSE engine.spare + 1

\* Mutant of Unseated: the room that is gone still counts as joined.
UnseatedJoined == [engine EXCEPT !.room = NoRoom]

\* The room is gone, and with it the word that it was joined.
Unseated == [engine EXCEPT !.room = NoRoom, !.joined = FALSE]

\* dropRoom: lets go of a room that failed to join.
Dropped(r, why) ==
  [engine EXCEPT !.room = IF @ = r THEN NoRoom ELSE @, !.joined = FALSE,
                 !.status = "error", !.refusal = why,
                 !.connecting = IF @ = r THEN NoRoom ELSE @]

-----------------------------------------------------------------------------
\* Joining.

\* The first half of join(), up to its first await: with no room there is nothing to leave.
EngineJoins(e) ==
  /\ e.seq < MaxJoins
  /\ engine' = [e EXCEPT !.seq = @ + 1, !.refusal = "none", !.status = "fetching-token"]
  /\ calls' = calls \cup {[seq |-> e.seq + 1, room |-> NoRoom]}

\* connect(): a join still on its way is the one to wait for, a room is kept,
\* and anything else starts afresh.
Connect ==
  /\ feed.open
  /\ ~(Joining /\ (~engine.made \/ InRoom))
  /\ ~InRoom
  /\ IF engine.made
     THEN EngineJoins(engine) /\ UNCHANGED feed
     ELSE feed' = [feed EXCEPT !.boot = "grant", !.said = "connecting"] /\ UNCHANGED <<engine, calls>>
  /\ UNCHANGED <<leaving, link, micVars, audioVars>>

\* The page opens its feed and joins at once.
Mount == ~engine.made /\ feed.said = "connecting" /\ Connect /\ UNCHANGED page

\* "Rejoin here", "Rejoin" and "Try again".
Rejoin ==
  /\ engine.made => engine.seq < MaxJoins
  /\ Refusal \in {"elsewhere", "failed"} \/ (engine.made /\ Connection = "closed")
  /\ Connect /\ UNCHANGED page

\* One more go by itself, once the scene is up.
AutoRetry ==
  /\ page.ready /\ ~page.retried /\ Refusal = "failed"
  /\ page' = [page EXCEPT !.retried = TRUE]
  /\ Connect

\* Mutant of Granted: a refusal leaves the promise every connect() waits for.
GrantedUnsettled(answer) ==
  CASE ~feed.open -> [feed EXCEPT !.boot = "none"]
    [] feed.open /\ answer = "token" -> [feed EXCEPT !.boot = "import"]
    [] OTHER -> [feed EXCEPT !.said = answer]

\* The feed after the route's answer to its own first request: a closed feed hears none.
Granted(answer) ==
  CASE ~feed.open -> [feed EXCEPT !.boot = "none"]
    [] feed.open /\ answer = "token" -> [feed EXCEPT !.boot = "import"]
    [] OTHER -> [feed EXCEPT !.boot = "none", !.said = answer]

GrantAnswered ==
  /\ feed.boot = "grant"
  /\ \E answer \in RouteRefusals \cup {"token"} : feed' = Granted(answer)
  /\ UNCHANGED <<engine, calls, leaving, link, micVars, audioVars, page>>

\* import() of the engine: it fails, or the engine is made, holding that token,
\* and joins; a page that has gone makes none.
EngineLoaded ==
  /\ feed.boot = "import"
  /\ \/ /\ feed' = [feed EXCEPT !.boot = "none", !.said = IF feed.open THEN "failed" ELSE @]
        /\ UNCHANGED <<engine, calls>>
     \/ /\ feed.open
        /\ feed' = [feed EXCEPT !.boot = "none"]
        /\ EngineJoins([engine EXCEPT !.made = TRUE, !.held = TRUE])
  /\ UNCHANGED <<leaving, link, micVars, audioVars, page>>

\* join() after its token: overtaken, refused, no audio in this browser, or on to LiveKit.
TokenOvertaken(c) ==
  /\ c \in calls /\ c.room = NoRoom
  /\ c.seq # engine.seq
  /\ calls' = calls \ {c}
  /\ UNCHANGED <<feed, engine, leaving, link, micVars, audioVars, page>>

TokenRefused(c) ==
  /\ c \in calls /\ c.room = NoRoom
  /\ c.seq = engine.seq /\ ~engine.held
  /\ \E why \in RouteRefusals :
       engine' = [engine EXCEPT !.refusal = why, !.status = "error"]
  /\ calls' = calls \ {c}
  /\ UNCHANGED <<feed, leaving, link, micVars, audioVars, page>>

NoAudio(c) ==
  /\ c \in calls /\ c.room = NoRoom
  /\ c.seq = engine.seq /\ audio.ctx = "none"
  /\ engine' = [engine EXCEPT !.held = FALSE, !.refusal = "failed", !.status = "error"]
  /\ calls' = calls \ {c}
  /\ UNCHANGED <<feed, leaving, link, micVars, audioVars, page>>

TokenTaken(c) ==
  /\ c \in calls /\ c.room = NoRoom
  /\ c.seq = engine.seq
  /\ RoomForJoin \in Rooms
  /\ \E s \in {"suspended", "running"} : audio' = OpenedContext(s)
  /\ renders' = IF audio.ctx = "none" THEN ReverbStarted ELSE renders
  /\ LET r == RoomForJoin IN
       /\ engine' = [engine EXCEPT !.held = FALSE, !.status = "connecting", !.room = r,
                                   !.spare = r, !.connecting = r]
       /\ link' = [link EXCEPT ![r] = "connecting"]
       /\ calls' = (calls \ {c}) \cup {[c EXCEPT !.room = r]}
  /\ UNCHANGED <<feed, leaving, micVars, page>>

\* Mutant of LinkHeld: an overtaken join keeps the seat it was given.
LinkHeldAnyway(r) == "up"

\* connect() resolves: the seat is ours, or the join was overtaken and the
\* connection is let go of again.
LinkHeld(r) == IF engine.room = r THEN "up" ELSE "down"

Connected(c) ==
  /\ c \in calls /\ c.room # NoRoom
  /\ link[c.room] = "connecting"
  /\ calls' = calls \ {c}
  /\ link' = [link EXCEPT ![c.room] = LinkHeld(c.room)]
  /\ IF engine.room = c.room
     THEN /\ engine' = [engine EXCEPT !.connecting = IF @ = c.room THEN NoRoom ELSE @,
                                      !.joined = TRUE, !.status = "connected"]
          /\ mic' = RefreshMic(mic, capture[c.room])
     ELSE /\ engine' = [engine EXCEPT !.connecting = IF @ = c.room THEN NoRoom ELSE @]
          /\ UNCHANGED mic
  /\ UNCHANGED <<feed, leaving, capture, micOps, audioVars, page>>

\* connect() throws: a join that failed here, unless somebody has already said why.
ConnectFailed(c) ==
  /\ c \in calls /\ c.room # NoRoom
  /\ calls' = calls \ {c}
  /\ link' = [link EXCEPT ![c.room] = IF @ = "connecting" THEN "down" ELSE @]
  /\ IF engine.room = c.room
     THEN engine' = Dropped(c.room, "failed") /\ mic' = ResetMic /\ capture' = Silenced(c.room)
     ELSE /\ engine' = [engine EXCEPT !.connecting = IF @ = c.room THEN NoRoom ELSE @]
          /\ UNCHANGED <<mic, capture>>
  /\ UNCHANGED <<feed, leaving, micOps, audioVars, page>>

-----------------------------------------------------------------------------
\* What LiveKit says of the room the engine is in; it no longer listens to another.

\* Disconnected: another tab took the seat, the join never finished, or the room closed.
\* LiveKit's own connect() may still be waiting behind it.
Disconnected ==
  /\ engine.room # NoRoom
  /\ \E elsewhere \in BOOLEAN, after \in {"down", link[engine.room]} \ {"up", "re"} :
       /\ link' = [link EXCEPT ![engine.room] = after]
       /\ engine' = [Unseated EXCEPT
            !.refusal = IF elsewhere THEN "elsewhere" ELSE IF ~engine.joined THEN "failed" ELSE @,
            !.status = IF ~elsewhere /\ ~engine.joined THEN "error" ELSE "disconnected"]
  /\ capture' = Silenced(engine.room)
  /\ mic' = ResetMic
  /\ UNCHANGED <<feed, calls, leaving, micOps, audioVars, page>>

\* ConnectionStateChanged and Reconnecting.
Reconnecting ==
  /\ engine.room # NoRoom /\ link[engine.room] = "up" /\ engine.joined
  /\ link' = [link EXCEPT ![engine.room] = "re"]
  /\ engine' = [engine EXCEPT !.status = "reconnecting"]
  /\ UNCHANGED <<feed, calls, leaving, micVars, audioVars, page>>

\* Reconnected: the microphone is as the room has it.
Reconnected ==
  /\ engine.room # NoRoom /\ link[engine.room] = "re"
  /\ link' = [link EXCEPT ![engine.room] = "up"]
  /\ engine' = [engine EXCEPT !.status = "connected"]
  /\ mic' = RefreshMic(mic, capture[engine.room])
  /\ UNCHANGED <<feed, calls, leaving, capture, micOps, audioVars, page>>

\* TrackMuted and LocalTrackUnpublished of our own microphone: its device went.
MicLost ==
  /\ engine.room # NoRoom /\ capture[engine.room]
  /\ capture' = Silenced(engine.room)
  /\ mic' = RefreshMic(mic, FALSE)
  /\ UNCHANGED <<roomVars, link, micOps, audioVars, page>>

-----------------------------------------------------------------------------
\* The microphone.

\* setMicMuted, its first half: one change at a time, in a room, under this call's own number.
SetMic(on) ==
  IF Available /\ ~mic.pending
  THEN /\ mic.call < MaxMic
       /\ mic' = [mic EXCEPT !.muted = ~on, !.pending = TRUE, !.call = @ + 1,
                             !.problem = IF on THEN "none" ELSE @]
       /\ micOps' = micOps \cup {[call |-> mic.call + 1, room |-> engine.room, on |-> on]}
  ELSE UNCHANGED <<mic, micOps>>

\* The browser's and LiveKit's answer: only the latest call, in the room it was
\* made in, settles the button; the room's own event tells the rest.
MicSettled(o) ==
  /\ o \in micOps
  /\ micOps' = micOps \ {o}
  /\ \E outcome \in {"done"} \cup (MicProblems \ {"none"}) :
       /\ outcome = "done" => link[o.room] \in {"up", "re"}
       /\ capture' = IF outcome = "done" THEN [capture EXCEPT ![o.room] = o.on] ELSE capture
       /\ LET mine == o.call = mic.call
              told == IF mine /\ outcome # "done" /\ o.on THEN [mic EXCEPT !.problem = outcome] ELSE mic
          IN mic' = IF o.room # engine.room THEN told
                    ELSE RefreshMic(IF mine THEN [told EXCEPT !.pending = FALSE] ELSE told, capture'[o.room])
  /\ UNCHANGED <<roomVars, link, audioVars, page>>

-----------------------------------------------------------------------------
\* Sound.

\* The context in state s: the panel's word for it and the unlock listeners follow.
Heard(s) == [audio EXCEPT !.ctx = s, !.blocked = s # "running", !.unlock = s # "running"]

\* The context changes by itself, by iOS, or because resume() was asked of it.
ContextChanges ==
  /\ audio.ctx # "none"
  /\ \E s \in {"suspended", "running"} : audio' = Heard(s)
  /\ UNCHANGED <<roomVars, link, micVars, renders, page>>

\* A tap or a key while sound is held back, or "Turn on sound".
TurnOnSound ==
  /\ feed.open /\ (audio.unlock \/ (Available /\ audio.blocked))
  /\ audio.ctx # "none"
  /\ audio' = Heard("running")
  /\ UNCHANGED <<roomVars, link, micVars, renders, page>>

\* loadReverb after its yield: only the latest load says anything.
ReverbRendered(s) ==
  /\ s \in renders
  /\ renders' = renders \ {s}
  /\ \E result \in {"ready", "failed"} :
       audio' = IF s = audio.reverbSeq /\ audio.ctx # "none" THEN [audio EXCEPT !.reverb = result] ELSE audio
  /\ UNCHANGED <<roomVars, link, micVars, page>>

\* The panel's "Try again" under a reverb that did not load.
ReloadReverb ==
  /\ feed.open /\ Available /\ audio.reverb = "failed" /\ audio.ctx # "none"
  /\ audio.reverbSeq < MaxReverb
  /\ audio' = [audio EXCEPT !.reverb = "generating", !.reverbSeq = @ + 1]
  /\ renders' = ReverbStarted
  /\ UNCHANGED <<roomVars, link, micVars, page>>

\* rebuildAudio, at a quiet tick once too many sources sit idle: a new context
\* takes the place of the old, and the reverb is rendered again.
RebuildAudio ==
  /\ engine.joined /\ link[engine.room] = "up" /\ audio.ctx # "none"
  /\ audio.reverbSeq < MaxReverb
  /\ \E s \in {"suspended", "running"} :
       audio' = [audio EXCEPT !.ctx = s, !.blocked = s # "running", !.unlock = @ \/ s # "running",
                              !.reverb = "generating", !.reverbSeq = @ + 1]
  /\ renders' = ReverbStarted
  /\ UNCHANGED <<roomVars, link, micVars, page>>

-----------------------------------------------------------------------------
\* The page.

SceneReady ==
  /\ feed.open /\ ~page.ready
  /\ page' = [page EXCEPT !.ready = TRUE]
  /\ UNCHANGED <<roomVars, link, micVars, audioVars>>

\* The gate's Enter: the browser's gesture for sound, and the wish for the microphone.
Enter ==
  /\ feed.open /\ ~page.entered
  /\ page' = [page EXCEPT !.entered = TRUE, !.wanted = TRUE]
  /\ UNCHANGED <<roomVars, link, micVars, audioVars>>

\* The panel turns the microphone on once per feed, when voice comes up.
MicOnEntry ==
  /\ feed.open /\ ~page.asked /\ page.wanted
  /\ Available /\ Connection = "connected" /\ mic.muted /\ ~mic.pending /\ mic.problem = "none"
  /\ page' = [page EXCEPT !.asked = TRUE]
  /\ SetMic(TRUE)
  /\ UNCHANGED <<roomVars, link, capture, audioVars>>

\* The Mic button: yes or no from then on.
ToggleMic ==
  /\ feed.open /\ Available /\ ~mic.pending
  /\ page' = [page EXCEPT !.wanted = mic.muted, !.asked = TRUE]
  /\ SetMic(mic.muted)
  /\ UNCHANGED <<roomVars, link, capture, audioVars>>

\* Mutant of AudioLetGo: the gesture listeners stay on the document.
AudioLetGoListening(from) == [from EXCEPT !.ctx = "none"]

\* leave(), once its room is gone: the microphone, the gesture listeners, the context.
AudioLetGo(from) == [from EXCEPT !.unlock = FALSE, !.ctx = "none"]

LetGo(from) ==
  /\ audio' = AudioLetGo(from)
  /\ leaving' = [leaving EXCEPT !.at = "close", !.room = NoRoom]

\* The page unmounts: the feed closes and the engine leaves, overtaking any join.
Close ==
  /\ feed.open
  /\ feed' = [feed EXCEPT !.open = FALSE]
  /\ IF ~engine.made
     THEN leaving' = [leaving EXCEPT !.at = "done"] /\ UNCHANGED <<engine, audio>>
     ELSE /\ engine' = [Unseated EXCEPT !.seq = @ + 1]
          /\ LET superseded == [audio EXCEPT !.reverbSeq = @ + 1] IN
             IF engine.room = NoRoom THEN LetGo(superseded)
             ELSE /\ leaving' = [at |-> "disconnect", room |-> engine.room]
                  /\ audio' = superseded
  /\ UNCHANGED <<calls, link, micVars, renders, page>>

\* leave() after room.disconnect().
LeaveRoom ==
  /\ leaving.at = "disconnect"
  /\ link' = [link EXCEPT ![leaving.room] = "down"]
  /\ capture' = Silenced(leaving.room)
  /\ LetGo(audio)
  /\ UNCHANGED <<feed, engine, calls, mic, micOps, renders, page>>

\* leave() after ctx.close().
LeaveAudio ==
  /\ leaving.at = "close"
  /\ leaving' = [leaving EXCEPT !.at = "done"]
  /\ engine' = [engine EXCEPT !.status = "idle"]
  /\ audio' = [audio EXCEPT !.blocked = FALSE, !.reverb = "off"]
  /\ UNCHANGED <<feed, calls, link, micVars, renders, page>>

-----------------------------------------------------------------------------
Init ==
  /\ feed = [open |-> TRUE, boot |-> "none", said |-> "connecting"]
  /\ engine = [made |-> FALSE, held |-> FALSE, status |-> "idle", refusal |-> "none", seq |-> 0,
               room |-> NoRoom, spare |-> NoRoom, connecting |-> NoRoom, joined |-> FALSE]
  /\ calls = {}
  /\ leaving = [at |-> "no", room |-> NoRoom]
  /\ link = [r \in Rooms |-> "down"]
  /\ capture = [r \in Rooms |-> FALSE]
  /\ mic = [muted |-> TRUE, pending |-> FALSE, call |-> 0, problem |-> "none"]
  /\ micOps = {}
  /\ audio = [ctx |-> "none", blocked |-> FALSE, unlock |-> FALSE,
              reverb |-> "off", reverbSeq |-> 0]
  /\ renders = {}
  /\ page = [ready |-> FALSE, retried |-> FALSE, entered |-> FALSE, wanted |-> FALSE, asked |-> FALSE]

TokenAnswered(c) == TokenOvertaken(c) \/ TokenRefused(c) \/ NoAudio(c) \/ TokenTaken(c)
ConnectSettled(c) == Connected(c) \/ ConnectFailed(c)

Next ==
  \/ Mount \/ Rejoin \/ AutoRetry
  \/ GrantAnswered \/ EngineLoaded
  \/ \E c \in calls : TokenAnswered(c) \/ ConnectSettled(c)
  \/ Disconnected \/ Reconnecting \/ Reconnected \/ MicLost
  \/ \E o \in micOps : MicSettled(o)
  \/ ContextChanges \/ TurnOnSound
  \/ \E s \in renders : ReverbRendered(s)
  \/ ReloadReverb \/ RebuildAudio
  \/ SceneReady \/ Enter \/ MicOnEntry \/ ToggleMic
  \/ Close \/ LeaveRoom \/ LeaveAudio

\* Every promise the code awaits settles: the fetch, the import, LiveKit's
\* connect() (which has its own timeout) and the calls of a leave.
Fairness ==
  /\ WF_vars(GrantAnswered)
  /\ WF_vars(EngineLoaded)
  /\ WF_vars(\E c \in calls : TokenAnswered(c))
  /\ WF_vars(\E c \in calls : ConnectSettled(c))
  /\ WF_vars(\E o \in micOps : MicSettled(o))
  /\ WF_vars(LeaveRoom)
  /\ WF_vars(LeaveAudio)

Spec == Init /\ [][Next]_vars

FairSpec == Spec /\ Fairness

-----------------------------------------------------------------------------
\* The shapes of its state.
Feeds == [open : BOOLEAN, boot : {"none", "grant", "import"}, said : {"connecting"} \cup NoneReasons]
Leavings == [at : {"no", "close", "disconnect", "done"}, room : 0..MaxRooms]

\* The types of the state; a room counts as joined only while the engine is in it.
TypeOK ==
  /\ feed \in Feeds
  /\ engine.status \in EngineStatus
  /\ engine.refusal \in {"none"} \cup NoneReasons
  /\ {engine.room, engine.spare, engine.connecting} \subseteq 0..MaxRooms /\ leaving \in Leavings
  /\ calls \subseteq [seq : 1..MaxJoins, room : 0..MaxRooms]
  /\ link \in [Rooms -> {"down", "connecting", "up", "re"}]
  /\ capture \in [Rooms -> BOOLEAN]
  /\ mic.problem \in MicProblems
  /\ engine.joined => engine.room # NoRoom

\* One member takes one seat: a Room is connected only while it is the one the
\* engine is in, or the one leave() is letting go of.  A join overtaken by an
\* eviction, a rejoin or the page's unmount must not leave a connection behind.
OneSeat ==
  \A r \in Rooms : link[r] \in {"up", "re"} => r \in {engine.room, leaving.room}

\* Nobody's microphone captures outside the room they are shown to be in: not
\* after another tab took the seat, not after a join failed, not after leaving.
NoHotMic ==
  \A r \in Rooms : capture[r] => r \in {engine.room, leaving.room}

\* The Mic button says what the room says whenever no change is in flight, and
\* a change in flight always has an answer coming that will settle it.
MicTold ==
  engine.room # NoRoom /\ engine.status \in InRoomStatus =>
    IF mic.pending
    THEN \E o \in micOps : o.call = mic.call /\ o.room = engine.room
    ELSE mic.muted = ~capture[engine.room]

\* The panel's "loading" for the cave's echo ends: the load it waits for is
\* under way; and sound held back always has a gesture listener to start it.
SoundTold ==
  leaving.at = "no" =>
    /\ audio.reverb = "generating" => audio.reverbSeq \in renders
    /\ audio.ctx = "suspended" => audio.unlock

\* A join the page waits for settles, whatever overtakes it.
JoinSettles == Joining ~> ~Joining

\* A page that has gone lets go of everything: no connection, no capture, no
\* audio context and no gesture listener outlives it.
NothingKept ==
  /\ \A r \in Rooms : link[r] = "down" /\ ~capture[r]
  /\ audio.ctx = "none" /\ ~audio.unlock
  /\ calls = {} /\ leaving.at = "done"

ClosedLetsGo == ~feed.open ~> NothingKept
=============================================================================
