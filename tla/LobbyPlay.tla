------------------------------ MODULE LobbyPlay ------------------------------
(***************************************************************************)
(* Playing catch between two clients of one room.  Each keeps who it       *)
(* thinks has a ball and the flights it is drawing; a throw, a hold and    *)
(* the catcher's word go over the feed's action channel, in order, to      *)
(* whoever is in the room just then.  Links drop and come back, a client   *)
(* may hear someone it does not see yet, and words come late.              *)
(***************************************************************************)
EXTENDS Naturals, Sequences

CONSTANTS Members,     \* two clients
          MaxThrows,   \* throws in the session
          MaxWire      \* actions on their way to one client

VARIABLES
  room,      \* for each client: in (actionsAvailable), sees (the other is in its peers)
  hand,      \* for each client: its own ball, its wind-up, the other's ball as it believes
  flights,   \* for each client: the balls it draws in the air or on the floor
  wire,      \* actions on their way to each client
  throws

vars == <<room, hand, flights, wire, throws>>

Other(c) == CHOOSE o \in Members : o # c

\* sendAction: it goes when the room takes it, and reaches whoever is there.
Sends(c) == room[c].in
Reaches(c) == Sends(c) /\ room[Other(c)].in
CanSend(c) == Reaches(c) => Len(wire[Other(c)]) < MaxWire
Sent(c, m) == IF Reaches(c) THEN [wire EXCEPT ![Other(c)] = Append(@, m)] ELSE wire

Ball(h) == [kind |-> "ball", holding |-> h, to |-> "nobody", caught |-> FALSE]
Throw(to) == [kind |-> "throw", holding |-> FALSE, to |-> to, caught |-> FALSE]
Catch(ok) == [kind |-> "catch", holding |-> FALSE, to |-> "nobody", caught |-> ok]

\* throwTarget: whoever of the peers is ahead, or nobody.
ThrowTargets(c) == {"nobody"} \cup (IF room[c].sees THEN {"them"} ELSE {})

\* A flight on its arc, and one that has bounced out of a miss.
InAir(f) == f.stage = "air"
Missed(f) == f.stage = "missed"

\* newFlight: thrower and catcher as this client knows them.
NewFlight(by, to) == [by |-> by, to |-> to, stage |-> "air"]
Without(s, n) == SubSeq(s, 1, n - 1) \o SubSeq(s, n + 1, Len(s))

MyFlights(c) == {n \in 1..Len(flights[c]) : flights[c][n].by = "me"}
Incoming(c) == \E n \in 1..Len(flights[c]) : flights[c][n].to = "me" /\ InAir(flights[c][n])

\* state: what the dock says of your game.
Phase(c) ==
  CASE ~room[c].in -> "unavailable"
    [] Incoming(c) -> "incoming"
    [] hand[c].wind -> "throwing"
    [] MyFlights(c) # {} -> "in-flight"
    [] hand[c].holding -> "holding"
    [] OTHER -> "none"

-----------------------------------------------------------------------------
\* F: a ball of your own, said to everyone; with one in hand, the wind-up.
GetBall(c) ==
  /\ Sends(c) /\ CanSend(c)
  /\ ~hand[c].wind /\ ~Incoming(c) /\ ~hand[c].holding /\ MyFlights(c) = {}
  /\ wire' = Sent(c, Ball(TRUE))
  /\ hand' = [hand EXCEPT ![c].holding = TRUE]
  /\ UNCHANGED <<room, flights, throws>>

WindUp(c) ==
  /\ Sends(c)
  /\ ~hand[c].wind /\ ~Incoming(c) /\ hand[c].holding
  /\ hand' = [hand EXCEPT ![c].wind = TRUE]
  /\ UNCHANGED <<room, flights, wire, throws>>

\* release: at whoever is ahead, or at nobody; a throw that does not go keeps the ball.
Release(c) ==
  /\ hand[c].wind
  /\ \/ /\ Sends(c) /\ CanSend(c) /\ throws < MaxThrows
        /\ \E to \in ThrowTargets(c) :
             /\ wire' = Sent(c, Throw(IF to = "them" THEN "me" ELSE to))
             /\ flights' = [flights EXCEPT ![c] = Append(@, NewFlight("me", to))]
        /\ hand' = [hand EXCEPT ![c].wind = FALSE, ![c].holding = FALSE]
        /\ throws' = throws + 1
     \/ /\ ~Sends(c)
        /\ hand' = [hand EXCEPT ![c].wind = FALSE]
        /\ UNCHANGED <<flights, wire, throws>>
  /\ UNCHANGED room

\* While you hold one, it is said again every HOLD_REPEAT, for anyone who joined since.
Announce(c) ==
  /\ hand[c].holding /\ Reaches(c) /\ CanSend(c)
  /\ wire' = Sent(c, Ball(TRUE))
  /\ UNCHANGED <<room, hand, flights, throws>>

-----------------------------------------------------------------------------
\* stepFlight, the ball coming down.  Yours to catch: your own call, and your word on it.
MyCall(c, n) ==
  /\ flights[c][n].to = "me" /\ InAir(flights[c][n])
  /\ CanSend(c)
  /\ \E caught \in BOOLEAN :
       /\ wire' = Sent(c, Catch(caught))
       /\ flights' = [flights EXCEPT ![c] = IF caught THEN Without(@, n) ELSE [@ EXCEPT ![n].stage = "missed"]]
       /\ hand' = [hand EXCEPT ![c].holding = @ \/ caught]
  /\ UNCHANGED <<room, throws>>

\* At nobody, or at someone who is gone: a miss at once; at someone here, their word is waited for.
ComesDown(c, n) ==
  /\ flights[c][n].to # "me" /\ InAir(flights[c][n])
  /\ flights' = [flights EXCEPT ![c][n].stage = IF flights[c][n].to = "nobody" \/ ~room[c].sees THEN "missed" ELSE "down"]
  /\ UNCHANGED <<room, hand, wire, throws>>

\* VERDICT_WAIT over, or they went meanwhile.
NoWord(c, n) ==
  /\ flights[c][n].stage = "down"
  /\ flights' = [flights EXCEPT ![c][n].stage = "missed"]
  /\ UNCHANGED <<room, hand, wire, throws>>

\* A missed ball at rest is picked up by whoever it was for, if they are here, else by its thrower.
Picker(c, f) ==
  IF f.to = "me" \/ (f.to = "them" /\ room[c].sees) THEN f.to ELSE f.by

PickUp(c, n) ==
  /\ Missed(flights[c][n])
  /\ flights' = [flights EXCEPT ![c] = Without(@, n)]
  /\ IF Picker(c, flights[c][n]) = "me"
     THEN CanSend(c) /\ hand' = [hand EXCEPT ![c].holding = TRUE] /\ wire' = Sent(c, Ball(TRUE))
     ELSE UNCHANGED <<hand, wire>>
  /\ UNCHANGED <<room, throws>>

-----------------------------------------------------------------------------
\* hear.  Someone not among the peers is forgotten again by the next frame.
Believes(c, h) == [hand EXCEPT ![c].theirs = h /\ room[c].sees]

Calls(c) == {n \in 1..Len(flights[c]) : flights[c][n].by = "me" /\ flights[c][n].to = "them"}

Hear(c) ==
  /\ wire[c] # <<>>
  /\ wire' = [wire EXCEPT ![c] = Tail(@)]
  /\ LET m == Head(wire[c]) IN
       CASE m.kind = "ball" -> hand' = Believes(c, m.holding) /\ UNCHANGED flights
         [] m.kind = "throw" ->
              /\ hand' = Believes(c, FALSE)
              /\ flights' = [flights EXCEPT ![c] = Append(@, NewFlight("them", m.to))]
         [] m.kind = "catch" /\ Calls(c) = {} -> UNCHANGED <<hand, flights>>
         [] OTHER ->
              LET n == CHOOSE k \in Calls(c) : \A j \in Calls(c) : k <= j IN
              IF m.caught
              THEN /\ hand' = Believes(c, TRUE)
                   /\ flights' = [flights EXCEPT ![c] = Without(@, n)]
              ELSE /\ flights' = [flights EXCEPT ![c][n].stage = "missed"]
                   /\ UNCHANGED hand
  /\ UNCHANGED <<room, throws>>

\* Mutant of Lapsed: a hold is believed until its end is heard.
LapsedNever(c) == FALSE /\ UNCHANGED vars

\* HOLD_LAPSE without a word of it: they left, or put it down unannounced.
Lapsed(c) ==
  /\ hand[c].theirs
  /\ ~(hand[Other(c)].holding /\ Reaches(Other(c)))
  /\ wire[c] = <<>>
  /\ hand' = [hand EXCEPT ![c].theirs = FALSE]
  /\ UNCHANGED <<room, flights, wire, throws>>

-----------------------------------------------------------------------------
\* The room.  Whoever drops out of it loses what was on its way, and stays in the
\* other's list until the feed says they left.
Enters(c) ==
  /\ ~room[c].in
  /\ room' = [room EXCEPT ![c].in = TRUE]
  /\ UNCHANGED <<hand, flights, wire, throws>>

Drops(c) ==
  /\ room[c].in
  /\ room' = [room EXCEPT ![c] = [in |-> FALSE, sees |-> FALSE]]
  /\ hand' = [hand EXCEPT ![c].theirs = FALSE]
  /\ wire' = [wire EXCEPT ![c] = <<>>]
  /\ UNCHANGED <<flights, throws>>

SeesThem(c) ==
  /\ Reaches(c) /\ ~room[c].sees
  /\ room' = [room EXCEPT ![c].sees = TRUE]
  /\ UNCHANGED <<hand, flights, wire, throws>>

TheyWent(c) ==
  /\ room[c].sees /\ ~room[Other(c)].in
  /\ room' = [room EXCEPT ![c].sees = FALSE]
  /\ hand' = [hand EXCEPT ![c].theirs = FALSE]
  /\ UNCHANGED <<flights, wire, throws>>

\* dispose, and a scene made anew: nothing is said, and the room goes with it.
Leaves(c) ==
  /\ room' = [room EXCEPT ![c] = [in |-> FALSE, sees |-> FALSE]]
  /\ hand' = [hand EXCEPT ![c] = [holding |-> FALSE, wind |-> FALSE, theirs |-> FALSE]]
  /\ flights' = [flights EXCEPT ![c] = <<>>]
  /\ wire' = [wire EXCEPT ![c] = <<>>]
  /\ UNCHANGED throws

-----------------------------------------------------------------------------
Init ==
  /\ room = [c \in Members |-> [in |-> FALSE, sees |-> FALSE]]
  /\ hand = [c \in Members |-> [holding |-> FALSE, wind |-> FALSE, theirs |-> FALSE]]
  /\ flights = [c \in Members |-> <<>>]
  /\ wire = [c \in Members |-> <<>>]
  /\ throws = 0

\* One frame's work on the balls of a client.
Flies(c) ==
  \E n \in 1..Len(flights[c]) : MyCall(c, n) \/ ComesDown(c, n) \/ NoWord(c, n) \/ PickUp(c, n)

Next ==
  \E c \in Members :
    \/ GetBall(c) \/ WindUp(c) \/ Release(c) \/ Announce(c)
    \/ Flies(c) \/ Hear(c) \/ Lapsed(c)
    \/ Enters(c) \/ Drops(c) \/ SeesThem(c) \/ TheyWent(c) \/ Leaves(c)

\* A drawn scene draws on, says its hold again and reads what reached it; the room
\* tells who is in it.
Fairness ==
  \A c \in Members :
    /\ WF_vars(Hear(c)) /\ WF_vars(Lapsed(c))
    /\ SF_vars(Flies(c)) /\ SF_vars(Announce(c))

Spec == Init /\ [][Next]_vars /\ Fairness

-----------------------------------------------------------------------------
\* The shapes of its state.
Flight == [by : {"me", "them"}, to : {"me", "them", "nobody"}, stage : {"air", "down", "missed"}]
Frames == [in : BOOLEAN, sees : BOOLEAN]
Hands == [holding : BOOLEAN, wind : BOOLEAN, theirs : BOOLEAN]

TypeOK ==
  /\ room \in [Members -> Frames] /\ hand \in [Members -> Hands]
  /\ \A c \in Members : \A n \in 1..Len(flights[c]) : flights[c][n] \in Flight /\ flights[c][n].by # flights[c][n].to
  /\ \A c \in Members : Len(wire[c]) <= MaxWire
  /\ throws \in 0..MaxThrows

\* Two clients that see each other never go on disagreeing about who has a ball,
\* whatever was lost, late or heard before its sender was seen, and no ball stays in
\* the air or on the floor for good.
Together(c) == Reaches(c) /\ room[c].sees
Agrees(c) ==
  /\ flights[c] = <<>>
  /\ Together(c) => hand[c].theirs = hand[Other(c)].holding

HandsAgree == \A c \in Members : []<>Agrees(c)

=============================================================================
