------------------------------- MODULE TaskSteps ------------------------------
(***************************************************************************)
(* The steps around the agent on a task's page: "Your copy", which GitHub  *)
(* has to allow, "Send for review", which opens the pull request, and the  *)
(* hand-in of one FORGE cannot find.  Each button takes the browser away   *)
(* and back with an outcome in the query, which any link can carry.  The   *)
(* practice app does the steps in the tab.                                 *)
(***************************************************************************)
EXTENDS Naturals

CONSTANT MaxPulls   \* pull requests opened for the task

VARIABLES
  world,   \* the copy FORGE set up, the agent's work, the task's pull request
  page,    \* the task and the status as last read, and what the query said
  poll,    \* the status read under way
  trip,    \* the browser away at GitHub for one of the buttons
  steps    \* the practice buttons, the quiet check, and the hand-in

vars == <<world, page, poll, trip, steps>>

\* What the query says: nothing, a copy made, work sent (0: no pull request named), or an error.
Outcomes == {[kind |-> "none", pr |-> 0], [kind |-> "copied", pr |-> 0], [kind |-> "error", pr |-> 0]}
              \cup [kind : {"sent"}, pr : 0..MaxPulls]
Said(kind, pr) == [kind |-> kind, pr |-> pr]

Unread == [read |-> FALSE, copy |-> FALSE, send |-> FALSE]
NoStatus == [read |-> FALSE, pr |-> 0, open |-> FALSE, pushed |-> FALSE]
StatusNow == [read |-> TRUE, pr |-> world.pr, open |-> world.open, pushed |-> world.told]
Idle == [st |-> "idle", got |-> NoStatus]
Asked == [Idle EXCEPT !.st = "out"]

\* The page opens: its reads begin, and the query is read once and wiped.
Opened(outcome) == [practice |-> page.practice, detail |-> Unread, status |-> NoStatus,
                    outcome |-> outcome, since |-> world.opens]
Quiet == [busy |-> {}, checking |-> FALSE, handIn |-> "idle"]

-----------------------------------------------------------------------------
\* upstreamPullRequest, reviewSentBy: whether the status backs "sent".
SentBy(pr) == page.status.pr > 0 /\ pr \in {0, page.status.pr}

\* A success is said only when the task, or its status, shows it; an error always.
Backed == CASE page.outcome.kind = "copied" -> page.detail.copy
            [] page.outcome.kind = "sent" -> SentBy(page.outcome.pr)
            [] OTHER -> TRUE

Shown == IF page.detail.read /\ Backed THEN page.outcome.kind ELSE "none"

\* Step 3's state.
Sent == page.status.pr > 0 /\ page.status.open
ReviewStateByWord == IF page.detail.send \/ page.status.pushed THEN "ready" ELSE IF Sent THEN "sent" ELSE "waiting"

ReviewState ==
  IF ~page.status.read THEN "waiting"
  ELSE IF Sent THEN "sent"
  ELSE IF page.detail.send \/ page.status.pushed THEN "ready" ELSE "waiting"

OnPage == trip.for = "none" /\ page.detail.read
OffersReview == OnPage /\ page.detail.copy /\ ReviewState = "ready"

-----------------------------------------------------------------------------
\* The task read: what can be sent comes from a reading of GitHub up to a minute old.
ReadDetail ==
  /\ trip.for = "none"
  /\ \E ahead \in {FALSE, world.ahead} :
        page' = [page EXCEPT !.detail = [read |-> TRUE, copy |-> world.copy, send |-> world.copy /\ ahead /\ ~world.open]]
  /\ steps' = [steps EXCEPT !.checking = FALSE]
  /\ UNCHANGED <<world, poll, trip>>

Poll ==
  /\ trip.for = "none" /\ poll.st = "idle"
  /\ poll' = Asked
  /\ UNCHANGED <<world, page, trip, steps>>

ServeStatus ==
  /\ poll.st = "out"
  /\ poll' = [st |-> "ok", got |-> StatusNow]
  /\ UNCHANGED <<world, page, trip, steps>>

StatusLands ==
  /\ poll.st = "ok"
  /\ page' = [page EXCEPT !.status = poll.got]
  /\ poll' = Idle
  /\ UNCHANGED <<world, trip, steps>>

StatusFails ==
  /\ poll.st = "out"
  /\ poll' = Idle
  /\ UNCHANGED <<world, page, trip, steps>>

\* "Check again": the task and its status, both now.
CheckAgain ==
  /\ OnPage /\ page.detail.copy /\ ReviewState = "waiting" /\ ~page.practice /\ ~steps.checking
  /\ steps' = [steps EXCEPT !.checking = TRUE]
  /\ poll' = Asked
  /\ UNCHANGED <<world, page, trip>>

-----------------------------------------------------------------------------
\* The buttons, live: a form post to GitHub's approval; the page goes.
Leave(for) ==
  /\ trip' = [for |-> for, outcome |-> Said("none", 0)]
  /\ poll' = Idle /\ steps' = Quiet
  /\ UNCHANGED <<world, page>>

PressCopy == OnPage /\ ~page.practice /\ Leave("copy")

PressReview == OffersReview /\ ~page.practice /\ Leave("review")

\* FORGE spends the one approval on the one job; it may stop with an error, before or after the job.
MakesCopy == world' = [world EXCEPT !.copy = TRUE]
OpensPull == world' = [world EXCEPT !.pr = IF world.open THEN @ ELSE @ + 1, !.open = TRUE,
                                    !.opens = IF world.open THEN @ ELSE @ + 1]

ServeTrip ==
  /\ trip.for # "none" /\ trip.outcome.kind = "none"
  /\ \/ /\ trip.for = "copy" /\ MakesCopy
        /\ \E kind \in {"copied", "error"} : trip' = [trip EXCEPT !.outcome = Said(kind, 0)]
     \/ /\ trip.for = "review" /\ world.copy /\ world.ahead /\ (world.open \/ world.pr < MaxPulls)
        /\ OpensPull
        /\ \E o \in {Said("sent", world'.pr), Said("sent", 0), Said("error", 0)} : trip' = [trip EXCEPT !.outcome = o]
     \/ UNCHANGED world /\ trip' = [trip EXCEPT !.outcome = Said("error", 0)]
  /\ UNCHANGED <<page, poll, steps>>

Return ==
  /\ trip.outcome.kind # "none"
  /\ page' = Opened(trip.outcome)
  /\ trip' = [for |-> "none", outcome |-> Said("none", 0)]
  /\ poll' = Asked
  /\ UNCHANGED <<world, steps>>

\* A link to the page, with whatever query; or a reload, whose query was wiped.
Visit ==
  /\ trip.for = "none"
  /\ \E o \in Outcomes : page' = Opened(o)
  /\ poll' = Asked /\ steps' = Quiet
  /\ UNCHANGED <<world, trip>>

-----------------------------------------------------------------------------
\* The practice app's copy and review: one press at a time of each.
Practise(step) ==
  /\ OnPage /\ page.practice /\ step \notin steps.busy
  /\ step = "review" => OffersReview
  /\ steps' = [steps EXCEPT !.busy = @ \cup {step}]
  /\ UNCHANGED <<world, page, poll, trip>>

\* The answer: the copy is on the page at once, the review in the next status; or a refusal.
Practised(step) ==
  /\ step \in steps.busy
  /\ steps' = [steps EXCEPT !.busy = @ \ {step}]
  /\ \/ /\ step = "copy" /\ MakesCopy
        /\ page' = [page EXCEPT !.detail.copy = TRUE]
        /\ poll' = Asked
     \/ /\ step = "review" /\ world.copy /\ world.ahead /\ (world.open \/ world.pr < MaxPulls)
        /\ OpensPull
        /\ poll' = Asked /\ UNCHANGED page
     \/ UNCHANGED <<world, page, poll>>
  /\ UNCHANGED trip

\* Hand in a pull request by its link: for one FORGE cannot find by itself.
HandIn ==
  /\ OnPage /\ ~page.practice /\ page.status.read /\ page.status.pr = 0 /\ steps.handIn # "busy"
  /\ steps' = [steps EXCEPT !.handIn = "busy"]
  /\ UNCHANGED <<world, page, poll, trip>>

\* Taken, and heard or not: the status is read again either way.  Or refused.
HandedIn ==
  /\ steps.handIn = "busy"
  /\ \/ /\ world.loose /\ (world.open \/ world.pr < MaxPulls) /\ OpensPull
        /\ \E said \in {"has it", "alert"} : steps' = [steps EXCEPT !.handIn = said]
        /\ poll' = Asked
     \/ /\ steps' = [steps EXCEPT !.handIn = "alert"]
        /\ UNCHANGED <<world, poll>>
  /\ UNCHANGED <<page, trip>>

-----------------------------------------------------------------------------
\* The agent pushes, with a word through the connector or without one, or opens one elsewhere;
\* the pull request is closed; the work is sent from another tab.
AgentPushes ==
  /\ world.copy /\ ~world.ahead
  /\ \E told \in BOOLEAN : world' = [world EXCEPT !.ahead = TRUE, !.told = told]
  /\ UNCHANGED <<page, poll, trip, steps>>

AgentOpens ==
  /\ ~world.loose
  /\ world' = [world EXCEPT !.loose = TRUE]
  /\ UNCHANGED <<page, poll, trip, steps>>

PullCloses ==
  /\ world.open
  /\ world' = [world EXCEPT !.open = FALSE]
  /\ UNCHANGED <<page, poll, trip, steps>>

SentElsewhere ==
  /\ world.copy /\ world.ahead /\ ~world.open /\ world.pr < MaxPulls
  /\ OpensPull
  /\ UNCHANGED <<page, poll, trip, steps>>

Init ==
  /\ world = [copy |-> FALSE, ahead |-> FALSE, told |-> FALSE, loose |-> FALSE, pr |-> 0, open |-> FALSE, opens |-> 0]
  /\ page \in [practice : BOOLEAN, detail : {Unread}, status : {NoStatus}, outcome : Outcomes, since : {0}]
  /\ poll = Asked
  /\ trip = [for |-> "none", outcome |-> Said("none", 0)]
  /\ steps = Quiet

Next ==
  \/ ReadDetail \/ Poll \/ ServeStatus \/ StatusLands \/ StatusFails \/ CheckAgain
  \/ PressCopy \/ PressReview \/ ServeTrip \/ Return \/ Visit
  \/ \E step \in {"copy", "review"} : Practise(step) \/ Practised(step)
  \/ HandIn \/ HandedIn
  \/ AgentPushes \/ AgentOpens \/ PullCloses \/ SentElsewhere

Spec == Init /\ [][Next]_vars

-----------------------------------------------------------------------------
\* The shapes of its state.
Copies == [copy : BOOLEAN, ahead : BOOLEAN, told : BOOLEAN, loose : BOOLEAN, pr : 0..MaxPulls, open : BOOLEAN, opens : 0..MaxPulls]
Practising == [busy : SUBSET {"copy", "review"}, checking : BOOLEAN, handIn : {"idle", "busy", "has it", "alert"}]

\* Every variable has its type.
TypeOK ==
  /\ world \in Copies
  /\ page \in [practice : BOOLEAN, detail : [read : BOOLEAN, copy : BOOLEAN, send : BOOLEAN],
               status : [read : BOOLEAN, pr : 0..MaxPulls, open : BOOLEAN, pushed : BOOLEAN], outcome : Outcomes, since : 0..MaxPulls]
  /\ poll.st \in {"idle", "out", "ok"}
  /\ trip.for \in {"none", "copy", "review"} /\ trip.outcome \in Outcomes
  /\ steps \in Practising

\* A success any link can carry is said only when it happened: no copy, no "copy is ready"; no
\* pull request, no "sent for review"; and a named pull request is one there has been.
SaidOnlyIfSo ==
  /\ Shown = "copied" => world.copy
  /\ Shown = "sent" => world.pr > 0 /\ page.outcome.pr <= world.pr

\* What the page last heard never offers a second pull request: a page opened once FORGE had one
\* offers no other while that one is open, whatever the agent said before (handoff.ts, reviewState).
NoSecondOffer == OffersReview /\ world.open => page.since < world.opens

=============================================================================
