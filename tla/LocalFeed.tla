------------------------------ MODULE LocalFeed ------------------------------
(***************************************************************************)
(* The practice build's presence feed: tabs of one browser that see each   *)
(* other over a BroadcastChannel.  A tab posts its place under the send    *)
(* policy, a `hello` every second and a `bye` when it closes or its page   *)
(* is hidden; one that says nothing for three seconds is dropped.  Tabs    *)
(* close, crash, are put away and come back, and a channel delivers what   *)
(* was posted, in order, whenever it likes.                                *)
(***************************************************************************)
EXTENDS Naturals, Sequences

CONSTANTS Tabs,
          MaxIds,    \* ids taken (connect takes a new one every time)
          MaxWire    \* messages on their way to one tab

Ids == 1..MaxIds
NoId == 0

VARIABLES
  tab,    \* each tab's channel, page, id, latest and lastSent
  seen,   \* each tab's list: who is placed, who is still joining
  old,    \* entries nothing has refreshed for PEER_TIMEOUT_MS
  wire,   \* messages posted and not yet received
  ids     \* ids taken so far

vars == <<tab, seen, old, wire, ids>>

Open(t) == tab[t].at \in {"open", "away"}   \* the channel is there
Running(t) == tab[t].at = "open"            \* its timers run too

NobodySeen == [i \in Ids |-> "none"]
Seen(t, i) == seen[t][i] # "none"

\* post: to every other tab with a channel.
Heard(t) == {u \in Tabs \ {t} : Open(u)}
CanPost(t) == \A u \in Heard(t) : Len(wire[u]) < MaxWire
Posted(t, m) == [u \in Tabs |-> IF u \in Heard(t) THEN Append(wire[u], m) ELSE wire[u]]

Hello(t) == [type |-> "hello", id |-> tab[t].id, pos |-> tab[t].latest]

\* drop
Dropped(t, gone) == [seen EXCEPT ![t] = [i \in Ids |-> IF i \in gone THEN "none" ELSE @[i]]]

\* Mutant of Expired: the sweep forgets nobody.
ExpiredNot(t) == {}

\* expire: everyone silent for too long.
Expired(t) == {i \in Ids : Seen(t, i) /\ i \in old[t]}

-----------------------------------------------------------------------------
\* connect: a new id, a channel, and a hello at once.
Connect(t) ==
  /\ tab[t].at \in {"closed", "new"}
  /\ ids < MaxIds
  /\ CanPost(t)
  /\ ids' = ids + 1
  /\ tab' = [tab EXCEPT ![t] = [at |-> "open", id |-> ids + 1, latest |-> FALSE, sent |-> FALSE]]
  /\ wire' = Posted(t, [type |-> "hello", id |-> ids + 1, pos |-> FALSE])
  /\ UNCHANGED <<seen, old>>

\* hello: once a second, and whoever is silent goes.
SayHello(t) ==
  /\ Running(t) /\ CanPost(t)
  /\ wire' = Posted(t, Hello(t))
  /\ seen' = Dropped(t, Expired(t))
  /\ old' = [old EXCEPT ![t] = @ \ Expired(t)]
  /\ UNCHANGED <<tab, ids>>

\* sendPolicy: at once while nothing is sent, and else after a move or a while.
SendPolicy(t) == {~tab[t].sent, TRUE}

\* publish: the scene's frame, sent when the send policy says so.
Publish(t) ==
  /\ Running(t)
  /\ \E due \in SendPolicy(t) :
       /\ due => CanPost(t)
       /\ wire' = IF due THEN Posted(t, [type |-> "pos", id |-> tab[t].id, pos |-> TRUE]) ELSE wire
       /\ tab' = [tab EXCEPT ![t].latest = TRUE, ![t].sent = @ \/ due]
  /\ UNCHANGED <<seen, old, ids>>

\* refreshVoice, peers: the list is swept five times a second and every frame.
Sweep(t) ==
  /\ Running(t)
  /\ Expired(t) # {}
  /\ seen' = Dropped(t, Expired(t))
  /\ old' = [old EXCEPT ![t] = @ \ Expired(t)]
  /\ UNCHANGED <<tab, wire, ids>>

\* onMessage: a bye drops its sender; somebody new has our place on the next frame.
Receive(t) ==
  /\ Running(t)
  /\ wire[t] # <<>>
  /\ wire' = [wire EXCEPT ![t] = Tail(@)]
  /\ LET m == Head(wire[t]) IN
       IF m.type = "bye"
       THEN /\ seen' = Dropped(t, {m.id})
            /\ old' = [old EXCEPT ![t] = @ \ {m.id}]
            /\ UNCHANGED tab
       ELSE /\ seen' = [seen EXCEPT ![t][m.id] = IF m.pos \/ @ = "placed" THEN "placed" ELSE "joining"]
            /\ old' = [old EXCEPT ![t] = @ \ {m.id}]
            /\ tab' = [tab EXCEPT ![t].sent = @ /\ Seen(t, m.id)]
  /\ UNCHANGED ids

\* onPageHide: bye, though the channel stays for a page that may come back.
PageHide(t) ==
  /\ Running(t) /\ CanPost(t)
  /\ wire' = Posted(t, [type |-> "bye", id |-> tab[t].id, pos |-> FALSE])
  /\ tab' = [tab EXCEPT ![t].at = "away"]
  /\ UNCHANGED <<seen, old, ids>>

PageShow(t) ==
  /\ tab[t].at = "away"
  /\ tab' = [tab EXCEPT ![t].at = "open"]
  /\ UNCHANGED <<seen, old, wire, ids>>

\* close: bye, and nothing is kept of anyone.
Close(t) ==
  /\ Running(t) /\ CanPost(t)
  /\ wire' = [Posted(t, [type |-> "bye", id |-> tab[t].id, pos |-> FALSE]) EXCEPT ![t] = <<>>]
  /\ tab' = [tab EXCEPT ![t] = [at |-> "closed", id |-> @.id, latest |-> FALSE, sent |-> FALSE]]
  /\ seen' = [seen EXCEPT ![t] = NobodySeen]
  /\ old' = [old EXCEPT ![t] = {}]
  /\ UNCHANGED ids

\* The tab crashes, or the browser discards it while it is away: no bye.
Crash(t) ==
  /\ Open(t)
  /\ tab' = [tab EXCEPT ![t].at = "dead"]
  /\ wire' = [wire EXCEPT ![t] = <<>>]
  /\ seen' = [seen EXCEPT ![t] = NobodySeen]
  /\ old' = [old EXCEPT ![t] = {}]
  /\ UNCHANGED ids

\* Three seconds without a word: the sender is not running, or its timers are held back.
Silence(t, i) ==
  /\ Running(t)
  /\ Seen(t, i) /\ i \notin old[t]
  /\ \A n \in 1..Len(wire[t]) : wire[t][n].id # i
  /\ old' = [old EXCEPT ![t] = @ \cup {i}]
  /\ UNCHANGED <<tab, seen, wire, ids>>

-----------------------------------------------------------------------------
Init ==
  /\ tab = [t \in Tabs |-> [at |-> "new", id |-> NoId, latest |-> FALSE, sent |-> FALSE]]
  /\ seen = [t \in Tabs |-> NobodySeen]
  /\ old = [t \in Tabs |-> {}]
  /\ wire = [t \in Tabs |-> <<>>]
  /\ ids = 0

Next ==
  \E t \in Tabs :
    \/ Connect(t) \/ SayHello(t) \/ Publish(t) \/ Sweep(t) \/ Receive(t)
    \/ PageHide(t) \/ PageShow(t) \/ Close(t) \/ Crash(t)
    \/ \E i \in Ids : Silence(t, i)

Fairness ==
  /\ \A t \in Tabs : WF_vars(Receive(t))
  /\ WF_vars(\E t \in Tabs : Sweep(t))
  /\ \A i \in Ids : WF_vars(\E t \in Tabs : Silence(t, i))

Spec == Init /\ [][Next]_vars /\ Fairness

-----------------------------------------------------------------------------
TypeOK ==
  /\ tab \in [Tabs -> [at : {"new", "open", "away", "closed", "dead"}, id : 0..MaxIds,
                       latest : BOOLEAN, sent : BOOLEAN]]
  /\ seen \in [Tabs -> [Ids -> {"none", "joining", "placed"}]]
  /\ old \in [Tabs -> SUBSET Ids]
  /\ \A t \in Tabs : Len(wire[t]) <= MaxWire

\* However a tab went (closed, crashed, discarded while away), time and again nobody
\* who still reads a list has it there: nothing posted before it went brings it back.
Ghosts(t) == {i \in Ids : Seen(t, i) /\ \A u \in Tabs : Open(u) => tab[u].id # i}
NoGhosts(t) == Running(t) => Ghosts(t) = {}

GhostsGo == \A t \in Tabs : []<>NoGhosts(t)
=============================================================================
