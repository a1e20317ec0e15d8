----------------------------- MODULE VoicePeers -----------------------------
(***************************************************************************)
(* Proximity voice between me and one other member of the room, as the     *)
(* voice engine works it: where they said they are, whether to receive     *)
(* their voice (distance, cap, dwell and backoff), the audio chain that     *)
(* plays it, and whether they may receive mine.  The room keeps a record    *)
(* of the member, which a rejoin replaces or, in a blink, speaks for a new  *)
(* session; the engine finds out with its next event or tick.  LiveKit's   *)
(* server takes and answers subscriptions whenever it likes.  The other    *)
(* members are one bit, `crowd`: as many as the cap allows are nearer.     *)
(***************************************************************************)
EXTENDS Naturals

CONSTANTS MaxSids,   \* sessions the member joins with
          MaxMics    \* microphones the member publishes

\* How far: within 40 m (a voice is taken), 45 m (kept), 50 m (may hear me), past it.
Near == 1
Band == 2
Permit == 3
Far == 4
Zones == Near..Far
Unknown == 0

Subscriptions == {"out-of-range", "subscribing", "in-range", "unsubscribing"}

VARIABLES
  link,     \* the room's connection: "up", resuming its signal, or a full reconnect
  rm,       \* the room's record of the member: session, microphone and its subscription
  p,        \* the engine's PeerInternal for them
  me,       \* localKnown, lastSent, permittedAt and permittedList
  muted,    \* mutedIdentities holds them
  crowd,    \* the cap is filled by people nearer
  told,     \* the session that has been sent our position since it came
  said      \* the session whose word p.pos is

peerVars == <<p, said>>
vars == <<link, rm, p, me, muted, crowd, told, said>>

NoOne == [there |-> FALSE, sid |-> 0, pos |-> Unknown, sub |-> "out-of-range", chain |-> 0, settled |-> TRUE,
          waits |-> FALSE, muted |-> FALSE, gain |-> FALSE, speaking |-> FALSE]

NoRecord == [there |-> FALSE, sid |-> rm.sid, mic |-> 0, mics |-> rm.mics, asked |-> FALSE,
             coming |-> FALSE, got |-> FALSE, grants |-> TRUE]

-----------------------------------------------------------------------------
\* The engine's parts, each from the peer as it stands to the peer after.

\* addPeer: nothing known of them but that they are here; muted before, muted again.
NewPeer(sid) == [NoOne EXCEPT !.there = TRUE, !.sid = sid, !.muted = muted]

\* teardownPeerAudio
Silent(q) == [q EXCEPT !.chain = 0, !.speaking = FALSE]

\* checkSession: the record speaks for a new session, so nothing of the old one carries over.
NewSession(q, r) == q.there /\ q.sid # r.sid

OtherSession(q, r) == [NoOne EXCEPT !.there = TRUE, !.sid = r.sid, !.muted = q.muted, !.gain = q.gain]

\* Mutant of CheckedSession: a new session keeps the place the old one said.
CheckedSessionKept(q, r) == IF NewSession(q, r) THEN [OtherSession(q, r) EXCEPT !.pos = q.pos] ELSE q

CheckedSession(q, r) == IF NewSession(q, r) THEN OtherSession(q, r) ELSE q

Subscribed(q) == q.sub \in {"in-range", "subscribing"}
Placed(q, m) == q.pos # Unknown /\ m.known

\* shouldSubscribe, with its hysteresis, and then the cap.
Reach(q, r, m) ==
  /\ r.mic # 0
  /\ Placed(q, m)
  /\ q.pos = Near \/ (q.pos = Band /\ Subscribed(q))
Want(q, r, m) == Reach(q, r, m) /\ (~crowd \/ q.speaking)

Takes(q, r, m) == r.mic # 0 /\ Want(q, r, m) /\ q.sub = "out-of-range" /\ q.settled /\ ~q.waits
LetsGo(q, r, m) == r.mic # 0 /\ ~Want(q, r, m) /\ q.sub = "in-range" /\ q.settled
Withdraws(q, r, m) == r.mic # 0 /\ ~Want(q, r, m) /\ q.sub = "subscribing" /\ ~r.got /\ q.settled
MicWent(q, r) == r.mic = 0 /\ q.sub # "out-of-range" /\ q.chain = 0

\* What is left audible of them: nothing once muted, or while either place is unknown.
Gain(q, m) == ~q.muted /\ Placed(q, m)

\* evaluate: a change of mind is kept for the dwell.
Evaluated(q, r, m) ==
  LET sub == CASE Takes(q, r, m) -> "subscribing"
               [] LetsGo(q, r, m) -> "unsubscribing"
               [] Withdraws(q, r, m) \/ MicWent(q, r) -> "out-of-range"
               [] OTHER -> q.sub
      asks == Takes(q, r, m) \/ LetsGo(q, r, m) \/ Withdraws(q, r, m)
  IN  [q EXCEPT !.sub = sub, !.settled = @ /\ ~asks, !.gain = Gain(q, m)]

\* What evaluate asks of LiveKit (setSubscribed).
Asked(q, r, m) ==
  IF Takes(q, r, m) THEN TRUE
  ELSE IF LetsGo(q, r, m) \/ Withdraws(q, r, m) THEN FALSE ELSE r.asked

\* permitted, of a place this very session said.
Allowed(q, r, m) == m.known /\ q.there /\ q.pos \in Near..Permit /\ q.sid = r.sid
\* updatePermissions: additions wait out the interval, removals never do.
Listed(q, r, m) == Allowed(q, r, m) /\ (m.list \/ ~m.fresh)

\* The list after it; adding anyone, them or somebody else, starts the interval over.
Permissions(q, r, m) ==
  LET listed == Listed(q, r, m)
  IN  {[m EXCEPT !.list = listed, !.fresh = f] :
         f \in IF listed /\ ~m.list THEN {TRUE} ELSE {m.fresh, TRUE}}

\* checkSession on the engine's side: our place goes out again, the list is worked out anew.
AfterSession(q, r, m) ==
  IF NewSession(q, r) THEN Permissions(CheckedSession(q, r), r, [m EXCEPT !.sent = FALSE]) ELSE {m}

\* A peer, evaluated: what the engine holds and what it has asked of the room.
Settle(q, r, m) ==
  /\ p' = Evaluated(q, r, m)
  /\ rm' = [r EXCEPT !.asked = Asked(q, r, m), !.coming = @ /\ r.mic # 0]

-----------------------------------------------------------------------------
\* The room's events.

\* ParticipantConnected: somebody new, so our place goes out on the next tick.
ParticipantConnected ==
  /\ link = "up"
  /\ ~rm.there
  /\ rm.sid < MaxSids
  /\ rm' = [rm EXCEPT !.there = TRUE, !.sid = @ + 1]
  /\ p' = NewPeer(rm.sid + 1)
  /\ me' = [me EXCEPT !.sent = FALSE]
  /\ UNCHANGED <<link, muted, crowd, told, said>>

\* ParticipantDisconnected: they leave the list of who may receive our mic at once.
ParticipantDisconnected ==
  /\ link = "up"
  /\ rm.there
  /\ rm' = NoRecord
  /\ p' = NoOne
  /\ me' \in Permissions(NoOne, NoRecord, me)
  /\ UNCHANGED <<link, muted, crowd, told, said>>

\* TrackUnsubscribed, of the publication the chain plays.
Unsubscribed(q) == [Silent(q) EXCEPT !.sub = "out-of-range"]

\* The record comes to speak for a new session of the same member: LiveKit takes
\* the old microphone down with it, and says nothing else.
SessionSwaps ==
  /\ link = "up"
  /\ rm.there
  /\ rm.sid < MaxSids
  /\ rm' = [NoRecord EXCEPT !.there = TRUE, !.sid = rm.sid + 1]
  /\ p' = IF rm.got /\ p.chain \in {0, rm.mic} THEN Unsubscribed(p) ELSE p
  /\ UNCHANGED <<link, me, muted, crowd, told, said>>

\* TrackPublished: a new mic starts the refusals' backoff over.  Between two
\* microphones of one session the engine has looked at the room at least once.
TrackPublished ==
  /\ link = "up"
  /\ rm.there
  /\ rm.mic = 0 /\ rm.mics < MaxMics
  /\ p.sub = "out-of-range" \/ NewSession(p, rm)
  /\ \E g \in BOOLEAN, m \in AfterSession(p, rm, me) :
       LET r == [rm EXCEPT !.mic = rm.mics + 1, !.mics = @ + 1, !.grants = g]
           q == [CheckedSession(p, rm) EXCEPT !.waits = FALSE]
       IN  /\ me' = m
           /\ Settle(q, r, m)
  /\ UNCHANGED <<link, muted, crowd, told, said>>

\* Their microphone is taken down: TrackUnsubscribed if we were receiving it.
TrackUnpublished ==
  /\ link = "up"
  /\ rm.mic # 0
  /\ rm' = [rm EXCEPT !.mic = 0, !.asked = FALSE, !.coming = FALSE, !.got = FALSE]
  /\ p' = IF rm.got /\ p.chain \in {0, rm.mic} THEN Unsubscribed(p) ELSE p
  /\ UNCHANGED <<link, me, muted, crowd, told, said>>

\* The server starts sending what was asked for and the sender permits.
ServerSends ==
  /\ link = "up"
  /\ rm.mic # 0 /\ rm.asked /\ rm.grants /\ ~rm.coming /\ ~rm.got
  /\ rm' = [rm EXCEPT !.coming = TRUE]
  /\ UNCHANGED <<link, p, me, muted, crowd, told, said>>

\* TrackSubscribed: the chain is built, though the request may be withdrawn by now.
TrackSubscribed ==
  /\ link = "up"
  /\ rm.coming
  /\ \E m \in AfterSession(p, rm, me) :
       LET r == [rm EXCEPT !.coming = FALSE, !.got = TRUE]
           q == [Silent(CheckedSession(p, rm)) EXCEPT !.chain = rm.mic, !.sub = "in-range", !.waits = FALSE]
       IN  /\ me' = m
           /\ Settle(q, r, m)
  /\ UNCHANGED <<link, muted, crowd, told, said>>

\* Mutant of TrackUnsubscribed: the chain plays on.
TrackUnsubscribedOn ==
  /\ link = "up"
  /\ rm.got /\ ~rm.asked
  /\ rm' = [rm EXCEPT !.got = FALSE]
  /\ p' = [p EXCEPT !.sub = "out-of-range"]
  /\ UNCHANGED <<link, me, muted, crowd, told, said>>

\* TrackUnsubscribed, once the server has let go of what was given up.
TrackUnsubscribed ==
  /\ link = "up"
  /\ rm.got /\ ~rm.asked
  /\ rm' = [rm EXCEPT !.got = FALSE]
  /\ p' = IF p.chain \in {0, rm.mic} THEN Unsubscribed(p) ELSE p
  /\ UNCHANGED <<link, me, muted, crowd, told, said>>

\* Mutant of SubscriptionFailed: the row goes on saying it is tuning in.
SubscriptionFailedTuning ==
  /\ link = "up"
  /\ rm.mic # 0 /\ rm.asked /\ ~rm.coming /\ ~rm.got
  /\ rm' = [rm EXCEPT !.asked = FALSE]
  /\ p' = [p EXCEPT !.waits = TRUE]
  /\ UNCHANGED <<link, me, muted, crowd, told, said>>

\* TrackSubscriptionFailed: not again for a while, until a new mic.
SubscriptionFailed ==
  /\ link = "up"
  /\ rm.mic # 0 /\ rm.asked /\ ~rm.coming /\ ~rm.got
  /\ rm' = [rm EXCEPT !.asked = FALSE]
  /\ p' = [p EXCEPT !.sub = "out-of-range", !.waits = TRUE]
  /\ UNCHANGED <<link, me, muted, crowd, told, said>>

\* The member lets us receive their microphone, or no longer does (their own range check).
TheyPermit ==
  /\ rm.mic # 0
  /\ rm' = [rm EXCEPT !.grants = ~@]
  /\ UNCHANGED <<link, p, me, muted, crowd, told, said>>

\* DataReceived on the position topic: a step they could have walked is taken, and
\* one that takes them out of range takes them off the list in the same task.
PositionReceived ==
  /\ link # "full"
  /\ rm.there
  /\ \E z \in Zones, m \in AfterSession(p, rm, me) :
       LET q == [CheckedSession(p, rm) EXCEPT !.pos = z]
       IN  /\ p' = q
           /\ said' = rm.sid
           /\ me' \in IF m.known /\ m.list /\ z = Far THEN Permissions(q, rm, m) ELSE {m}
  /\ UNCHANGED <<link, rm, muted, crowd, told>>

\* The signal drops and comes back: participants stay, no tick runs meanwhile.
SignalReconnecting ==
  /\ link = "up"
  /\ link' = "signal"
  /\ UNCHANGED <<rm, p, me, muted, crowd, told, said>>

\* A full reconnect: LiveKit drops everyone, and what it would send again is nobody.
Reconnecting ==
  /\ link \in {"up", "signal"}
  /\ link' = "full"
  /\ rm' = NoRecord
  /\ p' = NoOne
  /\ me' = [me EXCEPT !.list = FALSE]
  /\ UNCHANGED <<muted, crowd, told, said>>

\* Reconnected: our place goes out again.
Reconnected ==
  /\ link # "up"
  /\ link' = "up"
  /\ me' = [me EXCEPT !.sent = FALSE]
  /\ UNCHANGED <<rm, p, muted, crowd, told, said>>

-----------------------------------------------------------------------------
\* The engine's own steps, and mine.

\* listen: speaking is read from what is heard, so a muted voice falls silent.
Heard(q) == IF q.chain = 0 THEN {q.speaking} ELSE IF q.gain THEN BOOLEAN ELSE {q.speaking, FALSE}

\* tick: sessions first, then who may hear me, then my place, then what is heard and wanted.
Tick ==
  /\ link = "up"
  /\ \E m \in AfterSession(p, rm, me) : \E listed \in Permissions(CheckedSession(p, rm), rm, m) :
       \E s \in Heard(CheckedSession(p, rm)) :
         LET sends == listed.known /\ rm.there
             n == [listed EXCEPT !.sent = @ \/ listed.known]
             q == [CheckedSession(p, rm) EXCEPT !.speaking = s]
         IN  /\ me' = n
             /\ told' = IF sends /\ ~listed.sent THEN rm.sid ELSE told
             /\ IF q.there THEN Settle(q, rm, n) ELSE UNCHANGED <<p, rm>>
  /\ UNCHANGED <<link, muted, crowd, said>>

\* setLocalPosition: the scene says where we are, every frame.
Place ==
  /\ me' = [me EXCEPT !.known = TRUE]
  /\ IF p.there /\ p.pos # Unknown
     THEN \E z \in {x \in Zones : x + 1 >= p.pos /\ x <= p.pos + 1} : p' = [p EXCEPT !.pos = z]
     ELSE UNCHANGED p
  /\ UNCHANGED <<link, rm, muted, crowd, told, said>>

\* setPeerLocalMuted: remembered by identity.
MuteThem ==
  /\ muted' = ~muted
  /\ IF p.there THEN Settle([p EXCEPT !.muted = ~muted], rm, me) ELSE UNCHANGED <<p, rm>>
  /\ UNCHANGED <<link, me, crowd, told, said>>

\* People come nearer than them, as many as are received at once, or go.
CrowdMoves ==
  /\ crowd' = ~crowd
  /\ UNCHANGED <<link, rm, p, me, muted, told, said>>

\* The dwell, the backoff and the permission interval run out.
Dwelt ==
  /\ ~p.settled
  /\ p' = [p EXCEPT !.settled = TRUE]
  /\ UNCHANGED <<link, rm, me, muted, crowd, told, said>>

BackedOff ==
  /\ p.waits
  /\ p' = [p EXCEPT !.waits = FALSE]
  /\ UNCHANGED <<link, rm, me, muted, crowd, told, said>>

IntervalOver ==
  /\ me.fresh
  /\ me' = [me EXCEPT !.fresh = FALSE]
  /\ UNCHANGED <<link, rm, p, muted, crowd, told, said>>

-----------------------------------------------------------------------------
Init ==
  /\ link = "up"
  /\ rm = [there |-> FALSE, sid |-> 0, mic |-> 0, mics |-> 0, asked |-> FALSE,
           coming |-> FALSE, got |-> FALSE, grants |-> TRUE]
  /\ p = NoOne
  /\ me = [known |-> FALSE, sent |-> FALSE, fresh |-> FALSE, list |-> FALSE]
  /\ muted = FALSE /\ crowd = FALSE
  /\ told = 0 /\ said = 0

Next ==
  \/ ParticipantConnected \/ ParticipantDisconnected \/ SessionSwaps
  \/ TrackPublished \/ TrackUnpublished \/ ServerSends
  \/ TrackSubscribed \/ TrackUnsubscribed \/ SubscriptionFailed
  \/ TheyPermit \/ PositionReceived
  \/ SignalReconnecting \/ Reconnecting \/ Reconnected
  \/ Tick \/ Place \/ MuteThem \/ CrowdMoves
  \/ Dwelt \/ BackedOff \/ IntervalOver

\* The tick's timer and the clocks run; the server serves what it is asked for.
Fairness ==
  /\ WF_vars(Tick)
  /\ WF_vars(Dwelt) /\ WF_vars(BackedOff) /\ WF_vars(IntervalOver)
  /\ WF_vars(ServerSends) /\ WF_vars(TrackSubscribed) /\ WF_vars(TrackUnsubscribed)

Spec == Init /\ [][Next]_vars /\ Fairness

-----------------------------------------------------------------------------
\* The shapes of its state.
Peers == [there : BOOLEAN, sid : 0..MaxSids, pos : 0..Far, sub : Subscriptions, chain : 0..MaxMics,
          settled : BOOLEAN, waits : BOOLEAN, muted : BOOLEAN, gain : BOOLEAN, speaking : BOOLEAN]

TypeOK ==
  /\ link \in {"up", "signal", "full"}
  /\ rm \in [there : BOOLEAN, sid : 0..MaxSids, mic : 0..MaxMics, mics : 0..MaxMics,
             asked : BOOLEAN, coming : BOOLEAN, got : BOOLEAN, grants : BOOLEAN]
  /\ p \in Peers
  /\ me \in [known : BOOLEAN, sent : BOOLEAN, fresh : BOOLEAN, list : BOOLEAN]
  /\ p.there = rm.there

\* audiblySpeaking, as the people panel and the name tags show it.
AudiblySpeaking == p.speaking /\ p.sub = "in-range" /\ p.gain /\ ~p.muted

\* A chain plays exactly while their own microphone is received: never a session
\* that left, never a mic that was taken down, never someone muted, however they
\* rejoin; and speaking is never shown of someone who is not heard.
HeardRight ==
  /\ p.there => p.muted = muted
  /\ p.chain # 0 <=> p.sub \in {"in-range", "unsubscribing"}
  /\ p.chain # 0 => p.chain = rm.mic /\ rm.got
  /\ p.chain # 0 /\ p.gain => ~muted
  /\ AudiblySpeaking => p.chain # 0

\* Who may receive my microphone: after a tick, or a packet of theirs, only a
\* session that has said itself where it is and is within range; through a full
\* reconnect nobody; and a session that came is told where I am by the next tick.
PermitsSoundStep ==
  /\ Tick \/ PositionReceived =>
       (me'.list => rm'.there /\ said' = rm'.sid /\ p'.sid = rm'.sid /\ p'.pos # Unknown)
  /\ Tick => (me'.list => p'.pos # Far)
  /\ link' = "full" => ~me'.list
  /\ Tick /\ me.known /\ rm.there => told' = rm.sid

PermitsSound == [][PermitsSoundStep]_vars

\* Both ways, in the end: someone who stays within reach, with a microphone we are
\* let to receive and room under the cap, is heard; and someone who stays in range
\* of me is let to hear me.  No dwell, refusal, cap or reconnect is the last word.
WithinReach ==
  link = "up" /\ rm.there /\ rm.mic # 0 /\ rm.grants /\ p.pos = Near /\ me.known /\ ~crowd /\ ~p.waits
IsHeard == p.sub = "in-range"

WithinMine == link = "up" /\ Allowed(p, rm, me)

HeardAtLast ==
  /\ <>[]WithinReach => <>[]IsHeard
  /\ <>[]WithinMine => <>[]me.list
=============================================================================
