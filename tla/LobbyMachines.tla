---------------------------- MODULE LobbyMachines ----------------------------
(***************************************************************************)
(* The machines that stand in the cave: the API's rows, revisions and      *)
(* tombstones, and one mechanic's browser while another mechanic works.    *)
(* It aims a chosen blueprint's ghost, builds, takes down in two presses,  *)
(* reads what changed and fetches what it draws; answers come in any order *)
(* or not at all. (The blueprints themselves are MachineLibrary.)          *)
(***************************************************************************)
EXTENDS Naturals, FiniteSets

CONSTANTS Machines,  \* ids the API gives out: 1..n
          MaxRev     \* bound: revisions of the cave

VARIABLES
  api,    \* rows, revs, rev, floor: lobby_machines and its meta
  page,   \* the mechanic's hands: a blueprint chosen, the ghost's aim, a machine armed
  shown,  \* the machines it shows, its rev, and their blueprint's file (one for all)
  read,   \* its list read: asked, its answer, again
  busy    \* its write, from the press to the answer

vars == <<api, page, shown, read, busy>>

-----------------------------------------------------------------------------
Spots == {"here", "there"}
NoRow == [st |-> "none", at |-> "here"]
Standing(rows) == {m \in Machines : rows[m].st = "up"}

\* machineProblem: overlapping another (bricks, and the cave's edge, are the API's to refuse).
Fits(at, rows) == \A m \in Standing(rows) : rows[m].at # at

Fresh(a) == {m \in Machines : a.rows[m].st = "none"}
Bumped(a, m, row) == [a EXCEPT !.rows[m] = row, !.revs[m] = a.rev + 1, !.rev = @ + 1]
NextMachine(a) == CHOOSE m \in Fresh(a) : \A x \in Fresh(a) : m <= x

\* build and take_down.
CanBuild(a, at) == Fresh(a) # {} /\ Fits(at, a.rows) /\ a.rev < MaxRev
Built(a, at) == Bumped(a, NextMachine(a), [st |-> "up", at |-> at])
CanTakeDown(a, m) == a.rows[m].st = "up" /\ a.rev < MaxRev
TakenDown(a, m) == Bumped(a, m, [a.rows[m] EXCEPT !.st = "gone"])

Idle == [kind |-> "none", m |-> 1, at |-> "here", st |-> "none", rev |-> 0]
ReadIdle == [st |-> "none", since |-> 0, rows |-> [m \in Machines |-> NoRow], revs |-> [m \in Machines |-> 0],
             rev |-> 0, full |-> FALSE, again |-> FALSE]
EmptyHands == [chosen |-> FALSE, aim |-> "nowhere", fits |-> FALSE, armed |-> 0]

Ready == busy = Idle /\ shown.rev > 0
Again(asks, since) ==
  IF ~asks THEN read
  ELSE IF read.st # "none" THEN [read EXCEPT !.again = TRUE]
  ELSE [ReadIdle EXCEPT !.st = "out", !.since = since]

-----------------------------------------------------------------------------
\* choose; put-away, by the key, another role or another session (putAway).
Choose ==
  /\ busy = Idle /\ ~page.chosen
  /\ page' = [EmptyHands EXCEPT !.chosen = TRUE]
  /\ UNCHANGED <<api, shown, read, busy>>

PutAway ==
  /\ page.chosen
  /\ page' = [EmptyHands EXCEPT !.armed = page.armed]
  /\ UNCHANGED <<api, shown, read, busy>>

\* look: where the ghost stands, and whether it fits among the machines shown.
Look ==
  /\ page.chosen /\ busy = Idle
  /\ \E at \in Spots : page' = [page EXCEPT !.aim = at, !.fits = Fits(at, shown.rows)]
  /\ UNCHANGED <<api, shown, read, busy>>

PressBuild ==
  /\ Ready /\ page.chosen /\ page.aim \in Spots /\ page.fits /\ shown.file = "ready"
  /\ busy' = [Idle EXCEPT !.kind = "building", !.at = page.aim, !.st = "out"]
  /\ UNCHANGED <<api, page, shown, read>>

\* Shift+X at a machine; again to confirm; update forgets it with the machine, or in time.
Arm ==
  /\ Ready /\ ~page.chosen /\ page.armed = 0
  /\ \E m \in Standing(shown.rows) : page' = [page EXCEPT !.armed = m]
  /\ UNCHANGED <<api, shown, read, busy>>

Disarm ==
  /\ page.armed # 0
  /\ page' = [page EXCEPT !.armed = 0]
  /\ UNCHANGED <<api, shown, read, busy>>

PressTakeDown ==
  /\ Ready /\ page.armed \in Standing(shown.rows)
  /\ busy' = [Idle EXCEPT !.kind = "taking-down", !.m = page.armed, !.at = shown.rows[page.armed].at, !.st = "out"]
  /\ shown' = [shown EXCEPT !.rows[page.armed] = NoRow]
  /\ page' = [page EXCEPT !.armed = 0]
  /\ UNCHANGED <<api, read>>

\* The API takes the write, or refuses it (the role, the blueprint, a brick, the machine gone).
Serve ==
  /\ busy.st = "out"
  /\ \/ /\ busy.kind = "building" /\ CanBuild(api, busy.at)
        /\ api' = Built(api, busy.at)
        /\ busy' = [busy EXCEPT !.st = "ok", !.m = NextMachine(api), !.rev = api.rev + 1]
     \/ /\ busy.kind = "taking-down" /\ CanTakeDown(api, busy.m)
        /\ api' = TakenDown(api, busy.m)
        /\ busy' = [busy EXCEPT !.st = "ok"]
     \/ busy' = [busy EXCEPT !.st = "no"] /\ UNCHANGED api
  /\ UNCHANGED <<page, shown, read>>

Lost ==
  /\ busy.st \in {"out", "ok"}
  /\ busy' = [busy EXCEPT !.st = "lost", !.rev = 0, !.m = IF busy.kind = "building" THEN 1 ELSE @]
  /\ UNCHANGED <<api, page, shown, read>>

\* build's then and catch: the machine and its revision are taken over, then a read.
AnswerBuild ==
  /\ busy.kind = "building" /\ busy.st \in {"ok", "no", "lost"}
  /\ LET rev == IF busy.st = "ok" /\ busy.rev > shown.rev THEN busy.rev ELSE shown.rev
     IN  /\ shown' = IF busy.st = "ok"
                     THEN [shown EXCEPT !.rows[busy.m] = [st |-> "up", at |-> busy.at], !.rev = rev]
                     ELSE shown
         /\ read' = Again(busy.st # "lost", rev)
  /\ page' = IF busy.st = "ok" THEN [EmptyHands EXCEPT !.armed = page.armed] ELSE page
  /\ busy' = Idle
  /\ UNCHANGED api

\* take-down's: what was taken off the floor comes back when it was refused.
NotRestored(rows) == rows

Restored(rows) ==
  IF busy.st = "ok" THEN rows ELSE [rows EXCEPT ![busy.m] = [st |-> "up", at |-> busy.at]]

AnswerTakeDown ==
  /\ busy.kind = "taking-down" /\ busy.st \in {"ok", "no", "lost"}
  /\ shown' = [shown EXCEPT !.rows = Restored(@)]
  /\ read' = Again(TRUE, shown.rev)
  /\ busy' = Idle
  /\ UNCHANGED <<api, page>>

\* Another mechanic, as the API takes it.
OtherWrites ==
  /\ \/ \E at \in Spots : CanBuild(api, at) /\ api' = Built(api, at)
     \/ \E m \in Machines : CanTakeDown(api, m) /\ api' = TakenDown(api, m)
  /\ UNCHANGED <<page, shown, read, busy>>

-----------------------------------------------------------------------------
\* read: the refresh, a ping about a newer revision, a retry; one at a time.
AskList ==
  /\ read.st = "none" \/ (~read.again /\ api.rev > shown.rev)
  /\ read' = Again(TRUE, shown.rev)
  /\ UNCHANGED <<api, page, shown, busy>>

\* _purge: yesterday's tombstones go, and the floor moves up to them.
Purged(a, old) ==
  LET dead == {m \in Machines : a.rows[m].st = "gone" /\ a.revs[m] <= old}
  IN  [a EXCEPT !.rows = [m \in Machines |-> IF m \in dead THEN [@[m] EXCEPT !.st = "purged"] ELSE @[m]],
                !.floor = IF dead = {} \/ old < @ THEN @ ELSE old]

ServeList ==
  /\ read.st = "out"
  /\ \E old \in {0} \cup {api.revs[m] : m \in {x \in Machines : api.rows[x].st = "gone"}} :
       LET a == Purged(api, old)
       IN  /\ api' = a
           /\ read' = [read EXCEPT !.st = "got", !.rows = a.rows, !.revs = a.revs, !.rev = a.rev,
                                   !.full = read.since = 0 \/ read.since < a.floor]
  /\ UNCHANGED <<page, shown, busy>>

\* apply: everything anew, or the machines that changed and those that went.
Applied(rows, l) ==
  [m \in Machines |->
     LET now == IF l.rows[m].st = "up" THEN l.rows[m] ELSE NoRow
     IN  IF l.full \/ (l.revs[m] > l.since /\ l.rows[m].st # "purged") THEN now ELSE rows[m]]

Settled(since) == IF read.again THEN [ReadIdle EXCEPT !.st = "out", !.since = since] ELSE ReadIdle

Apply ==
  /\ read.st = "got"
  /\ shown' = [shown EXCEPT !.rows = Applied(@, read), !.rev = read.rev]
  /\ read' = Settled(read.rev)
  /\ page' = IF page.armed \in Machines \ Standing(shown'.rows) THEN [page EXCEPT !.armed = 0] ELSE page
  /\ UNCHANGED <<api, busy>>

ReadFails ==
  /\ read.st \in {"out", "got"}
  /\ read' = Settled(shown.rev)
  /\ UNCHANGED <<api, page, shown, busy>>

\* The file of what is shown or chosen: fetched once, and again MODEL_RETRY_MS after a
\* failure ("Try again" at once, under the chosen blueprint).
Wanted == page.chosen \/ Standing(shown.rows) # {}

AskedOnce(st) == st = "none"

Asked(st) == st \in {"none", "stale"}

AskModel ==
  /\ Wanted /\ Asked(shown.file)
  /\ shown' = [shown EXCEPT !.file = "loading"]
  /\ UNCHANGED <<api, page, read, busy>>

ModelArrives ==
  /\ shown.file = "loading"
  /\ shown' = [shown EXCEPT !.file = "ready"]
  /\ UNCHANGED <<api, page, read, busy>>

ModelFails ==
  /\ shown.file = "loading"
  /\ shown' = [shown EXCEPT !.file = "error"]
  /\ UNCHANGED <<api, page, read, busy>>

ModelAges ==
  /\ shown.file = "error"
  /\ shown' = [shown EXCEPT !.file = "stale"]
  /\ UNCHANGED <<api, page, read, busy>>

-----------------------------------------------------------------------------
Init ==
  /\ api = [rows |-> [m \in Machines |-> NoRow], revs |-> [m \in Machines |-> 0], rev |-> 1, floor |-> 0]
  /\ page = EmptyHands
  /\ shown = [rows |-> [m \in Machines |-> NoRow], rev |-> 0, file |-> "none"]
  /\ read = [ReadIdle EXCEPT !.st = "out"]
  /\ busy = Idle

Hands == Choose \/ PutAway \/ Look \/ Arm \/ Disarm \/ PressBuild \/ PressTakeDown
Writes == Serve \/ Lost \/ AnswerBuild \/ AnswerTakeDown \/ OtherWrites
Lists == AskList \/ ServeList \/ Apply \/ ReadFails
Models == AskModel \/ ModelArrives \/ ModelFails \/ ModelAges

Next == Hands \/ Writes \/ Lists \/ Models

\* The page's frames and timers, and a server that answers often enough.
Fairness ==
  /\ WF_vars(AskList) /\ SF_vars(ServeList) /\ SF_vars(Apply)
  /\ SF_vars(AskModel) /\ SF_vars(ModelArrives) /\ WF_vars(ModelAges)

Spec == Init /\ [][Next]_vars /\ Fairness

-----------------------------------------------------------------------------
\* The shapes of its state.
Writing == [kind : {"none", "building", "taking-down"}, m : Machines, at : Spots,
            st : {"none", "out", "ok", "no", "lost"}, rev : 0..MaxRev]
Tables == [rows : [Machines -> [st : {"none", "up", "gone", "purged"}, at : Spots]],
           revs : [Machines -> 0..MaxRev], rev : 1..MaxRev, floor : 0..MaxRev]

TypeOK ==
  /\ api \in Tables /\ \A m \in Machines : api.revs[m] <= api.rev
  /\ page.armed \in {0} \cup Machines /\ page.aim \in Spots \cup {"nowhere"}
  /\ shown.rev \in 0..MaxRev /\ shown.file \in {"none", "loading", "ready", "error", "stale"}
  /\ read.st \in {"none", "out", "got"} /\ busy \in Writing

\* A take-down that did not happen takes nothing away: a machine the cave still has, at the
\* revision shown, is on show once the write that hid it is answered. And in the cave itself
\* no two machines stand on each other.
RefusedTakeDownComesBack ==
  /\ \A m \in Machines :
       m \in Standing(api.rows) /\ api.revs[m] = shown.rev /\ (busy.kind = "taking-down" => busy.m # m)
         => shown.rows[m].st = "up"
  /\ \A m, x \in Standing(api.rows) : m # x => api.rows[m].at # api.rows[x].at

\* Every failed fetch of a machine's file is made again for as long as one that is shown
\* waits for it, so in the end it is drawn, or none is shown any more.
Drawn == shown.file = "ready" \/ ~Wanted

MachinesDrawn == []<>Drawn

\* "After one the others hear a ping and ask for what changed; every 20 s everyone asks
\* anyway": with nothing under way and the revision up to date, the cave's machines are shown.
MachinesTrue ==
  shown.rev = api.rev /\ busy = Idle /\ read = ReadIdle =>
    Standing(shown.rows) = Standing(api.rows)
=============================================================================
