------------------------------ MODULE PracticeApp -----------------------------
(***************************************************************************)
(* The practice app, which keeps in the tab what the API would keep.  Its  *)
(* floor: three samples, the practice account's answers to them, and the   *)
(* refusals the API would give; nothing but this account moves it.  Its    *)
(* task: the hand-off, the pretend copy and review, the notes, and a run   *)
(* that moves on by the clock, one stage a tick; its status, timeline and  *)
(* checks are worked out at each read.                                     *)
(***************************************************************************)
EXTENDS Naturals, Sequences, FiniteSets

CONSTANTS Me, Members, \* the practice account and the sample members
          MaxComments, \* bound: comments on a sample
          MaxTime,     \* bound: stages' worth of time
          MaxEvents    \* bound: FORGE's own lines

VARIABLES
  which,   \* what the account practises: "floor" or "task"
  floor,   \* id -> the sample
  now,     \* the clock
  task,    \* what the practice app remembers of the task it holds
  answer   \* what the last write was answered

vars == <<which, floor, now, task, answer>>

Ids == 1..3
Others == Members \ {Me}
One == CHOOSE m \in Others : TRUE
Active(p) == p.state \in {"submitted", "debate", "voting"}

\* practiceFloor: one passed by a vote, one in debate, one that needs a second.
Sample(state, mover, eligible, consented, objected, quick, house) ==
  [state |-> state, mover |-> mover, seconder |-> IF eligible = {} THEN "none" ELSE mover, eligible |-> eligible,
   consented |-> consented, objected |-> objected, votes |-> {}, comments |-> 0, quick |-> quick, house |-> house]

Samples == <<Sample("passed", One, Others, {One}, Others \ {One}, {}, TRUE),
             Sample("debate", One, Members, {One}, {}, {}, FALSE),
             Sample("submitted", One, {}, {}, {}, Others \ {One}, FALSE)>>

-----------------------------------------------------------------------------
\* change: the sample as it would now be, or the refusal.
Refused(code) == answer' = code /\ UNCHANGED <<which, floor, now, task>>
Changed(id, p) == floor' = [floor EXCEPT ![id] = p] /\ answer' = "ok" /\ UNCHANGED <<which, now, task>>
WrongState(p) == p.state # "debate"

\* Mutant of Second: the quick members are left to answer for themselves.
SecondAlone(id) ==
  LET p == floor[id]
  IN  IF p.state # "submitted" THEN Refused(IF p.seconder = "none" THEN "wrong_state" ELSE "already_seconded")
      ELSE IF p.mover = Me THEN Refused("own_proposal")
      ELSE Changed(id, [p EXCEPT !.state = "debate", !.seconder = Me, !.eligible = Members, !.consented = {p.mover}])

\* practiceSecond: debate opens, the electorate freezes, the quick members consent.
Second(id) ==
  LET p == floor[id]
      quick == (p.quick \cap Members) \ {p.mover}
  IN  IF p.state # "submitted" THEN Refused(IF p.seconder = "none" THEN "wrong_state" ELSE "already_seconded")
      ELSE IF p.mover = Me THEN Refused("own_proposal")
      ELSE Changed(id, [p EXCEPT !.state = "debate", !.seconder = Me, !.eligible = Members,
                                 !.consented = {p.mover} \cup quick])

\* practiceConsent: both answers are final.
Answered(p) == Me \in p.consented \cup p.objected

\* The fast path: no objection, and everyone counted at the second has consented.
Everyone(p, consented) == p.objected = {} /\ p.eligible \subseteq consented

Consent(id) ==
  LET p == floor[id]
      consented == p.consented \cup {Me}
  IN  IF WrongState(p) THEN Refused("wrong_state")
      ELSE IF Me \notin p.eligible THEN Refused("not_eligible")
      ELSE IF Answered(p) THEN Refused("already_decided_consent")
      ELSE IF Everyone(p, consented)
      THEN Changed(id, [p EXCEPT !.state = "passed", !.consented = consented, !.house = TRUE])
      ELSE Changed(id, [p EXCEPT !.consented = consented])

Object(id) ==
  LET p == floor[id]
  IN  IF WrongState(p) THEN Refused("wrong_state")
      ELSE IF Me \notin p.eligible THEN Refused("not_eligible")
      ELSE IF Answered(p) THEN Refused("already_decided_consent")
      ELSE Changed(id, [p EXCEPT !.objected = @ \cup {Me}])

\* practiceComment, practiceVote.
Comment(id) ==
  LET p == floor[id]
  IN  IF p.state \notin {"debate", "voting"} THEN Refused("wrong_state")
      ELSE p.comments < MaxComments /\ Changed(id, [p EXCEPT !.comments = @ + 1])

Vote(id) ==
  LET p == floor[id]
  IN  IF p.state # "voting" THEN Refused("wrong_state")
      ELSE IF Me \notin p.eligible THEN Refused("not_eligible")
      ELSE Changed(id, [p EXCEPT !.votes = @ \cup {Me}])

\* youOf: what the page offers this account.
You(p) ==
  [canSecond |-> p.state = "submitted" /\ p.mover # Me,
   canConsent |-> p.state = "debate" /\ Me \in p.eligible /\ ~Answered(p),
   canComment |-> p.state \in {"debate", "voting"},
   canVote |-> p.state = "voting" /\ Me \in p.eligible]

-----------------------------------------------------------------------------
Never == MaxTime + 1
Stages == <<"claimed", "agent_working", "ready_to_submit", "in_checks", "in_review", "shipping", "shipped">>
Ready == 3
NotHeld == [held |-> FALSE, handedOff |-> Never, copied |-> Never, synced |-> Never, reviewed |-> Never, started |-> "none", events |-> <<>>]
Event(kind) == [at |-> now, kind |-> kind]
Smaller(a, b) == IF a < b THEN a ELSE b

-----------------------------------------------------------------------------
\* Mutant of WorksInCopy: a copy made after the hand-off counts too.
HasCopy(t) == t.copied # Never /\ t.handedOff # Never

\* worksInCopy: the copy was there when the task went to an agent.
WorksInCopy(t) == t.copied # Never /\ t.handedOff # Never /\ t.copied <= t.handedOff

\* stageFor: one stage a tick from the hand-off; in the copy, held until it is sent for review.
StageAt(t, time) ==
  IF t.handedOff = Never THEN 1
  ELSE Smaller(Len(Stages),
         IF ~WorksInCopy(t) THEN 2 + (time - t.handedOff)
         ELSE IF t.reviewed = Never THEN Smaller(2 + (time - t.handedOff), Ready)
         ELSE Ready + 1 + (time - t.reviewed))
Stage == StageAt(task, now)

\* agentEvents: a line as each stage arrives; in the copy the agent opens no pull request.
AgentEvents(t) ==
  IF t.handedOff = Never THEN {}
  ELSE {[at |-> t.handedOff + (s - 2), kind |-> Stages[s]] :
          s \in {n \in (IF WorksInCopy(t) THEN {2, Ready} ELSE {2, Ready, Ready + 1}) : n <= StageAt(t, now)}}

\* localStatus, localChecks
Timeline == AgentEvents(task) \cup {task.events[i] : i \in 1..Len(task.events)}
Checks == IF Stage < Ready + 1 THEN "no_pr" ELSE IF Stage = Ready + 1 THEN "failed" ELSE "passed"
CanRelay == task.started = "jules"

\* reviewState, in the practice app: sent once the review went out, or the agent opened one.
ReviewState ==
  IF task.reviewed # Never \/ [at |-> task.handedOff + (Ready - 1), kind |-> Stages[Ready + 1]] \in AgentEvents(task) THEN "sent"
  ELSE IF Stage >= Ready THEN "ready" ELSE "waiting"

-----------------------------------------------------------------------------
Says(t, kind) == [t EXCEPT !.events = Append(@, Event(kind))]
Room == Len(task.events) < MaxEvents
Holding == task.held /\ Room

Claim ==
  /\ ~task.held
  /\ task' = Says([NotHeld EXCEPT !.held = TRUE], "claimed")
  /\ answer' = "ok"
  /\ UNCHANGED <<which, floor, now>>

\* localDispatch: a start rail, or an open one; the first hand-off is the one that counts.
Dispatch ==
  /\ Holding
  /\ \E rail \in {"jules", "copilot", "open"} :
       task' = Says([task EXCEPT !.handedOff = IF @ = Never THEN now ELSE @, !.started = IF rail = "open" THEN @ ELSE rail],
                    IF rail = "open" THEN "opened" ELSE "dispatched")
  /\ answer' = "ok"
  /\ UNCHANGED <<which, floor, now>>

\* localCopy: the first one makes it; each brings it up to date.
Copy ==
  /\ Holding
  /\ task' = Says([task EXCEPT !.copied = IF @ = Never THEN now ELSE @, !.synced = now], "copy_ready")
  /\ answer' = "ok"
  /\ UNCHANGED <<which, floor, now>>

\* localReview
Review ==
  /\ Holding
  /\ IF task.copied = Never THEN answer' = "no_copy" /\ UNCHANGED task
     ELSE IF task.reviewed = Never /\ Stage < Ready THEN answer' = "no_changes" /\ UNCHANGED task
     ELSE answer' = "ok" /\ task' = Says([task EXCEPT !.reviewed = IF @ = Never THEN now ELSE @], "review_sent")
  /\ UNCHANGED <<which, floor, now>>

\* localFeedback: only a vendor that takes follow-ups would get the notes.
Feedback ==
  /\ Holding /\ Checks = "failed"
  /\ IF CanRelay THEN answer' = "relayed" /\ task' = Says(task, "relayed") ELSE answer' = "not_relayed" /\ UNCHANGED task
  /\ UNCHANGED <<which, floor, now>>

Release ==
  /\ task.held
  /\ task' = NotHeld
  /\ answer' = "ok"
  /\ UNCHANGED <<which, floor, now>>

\* Anything pressed on a task that is not held.
NotTheHolder ==
  /\ ~task.held
  /\ answer' = "not_holder"
  /\ UNCHANGED <<which, floor, now, task>>

Passes ==
  /\ now < MaxTime
  /\ now' = now + 1
  /\ UNCHANGED <<which, floor, task, answer>>

-----------------------------------------------------------------------------
Init ==
  /\ which \in {"floor", "task"}
  /\ floor = Samples
  /\ now = 0 /\ task = NotHeld
  /\ answer = "none"

\* The page offers a write, or a stale page sends it all the same.
FloorSteps == \E id \in Ids : Second(id) \/ Consent(id) \/ Object(id) \/ Comment(id) \/ Vote(id)
RunSteps == Claim \/ Dispatch \/ Copy \/ Review \/ Feedback \/ Release \/ NotTheHolder \/ Passes

Next ==
  \/ which = "floor" /\ FloorSteps
  \/ which = "task" /\ RunSteps

Spec == Init /\ [][Next]_vars

-----------------------------------------------------------------------------
\* Every variable has its type.
TypeOK ==
  /\ \A id \in Ids : /\ floor[id].eligible \subseteq Members
                     /\ floor[id].consented \cup floor[id].objected \subseteq floor[id].eligible
                     /\ floor[id].consented \cap floor[id].objected = {}
  /\ now \in 0..MaxTime /\ Len(task.events) <= MaxEvents /\ Stage \in 1..Len(Stages)
  /\ \A t \in {task.handedOff, task.copied, task.synced, task.reviewed} : t <= now \/ t = Never
  /\ ReviewState \in {"sent", "ready", "waiting"}

\* "Second it and debate opens; the other sample members consent at once, so your consent is
\* the one that passes it": whatever else was pressed before, in any order.
WalkThrough ==
  LET p == floor[3] IN
    /\ p.state = "submitted" => You(p).canSecond
    /\ You(p).canConsent => Everyone(p, p.consented \cup {Me})
    /\ p.state = "passed" <=> p.house

\* A practice run never moves back, whatever is pressed in whatever order while it is held, and
\* never tells of what has not come yet.
RunMovesOnStep ==
  /\ task.held /\ task'.held => StageAt(task', now') >= StageAt(task, now)
  /\ \A e \in Timeline : e.at <= now

RunMovesOn == [][RunMovesOnStep]_vars
=============================================================================
