------------------------------- MODULE TaskPage -------------------------------
(***************************************************************************)
(* A member's page of one Contribute task, live: the task read in full or  *)
(* quietly, the claim, the status watched while it is held, the checks     *)
(* once a pull request exists, and the release.  Answers come in any       *)
(* order; an answer that is lost may have done its work.                   *)
(***************************************************************************)
EXTENDS Naturals

CONSTANT MaxPushes   \* times the agent moves the task on

VARIABLES
  api,    \* who holds the task, its stage, whether my last claim has since ended
  page,   \* what the screen is and says
  load,   \* the read behind the loading screen
  quiet,  \* the quiet read of the task
  poll,   \* the status loop's read; a loop that ended lets go of its read
  checks, \* the checks' read
  write   \* the claim or the release under way

vars == <<api, page, load, quiet, poll, checks, write>>

Holders == {"me", "other", "none"}
Idle == [st |-> "idle", got |-> "none", stage |-> 0]
Out == [Idle EXCEPT !.st = "out"]
Answer == [st |-> "ok", got |-> api.holder, stage |-> api.stage]
Holding == page.lease

\* CHECKED_STAGES: a pull request exists.
HasChecks(stage) == stage >= 2

-----------------------------------------------------------------------------
\* The effects that run when the lease comes, or goes: the loop, the rails, the checks start
\* or are let go of.
StartsWatching == poll' = (IF page.visible THEN Out ELSE Idle) /\ UNCHANGED checks
StopsWatching == poll' = Idle /\ checks' = Idle

Cleared == [page EXCEPT !.lease = FALSE, !.status = 0, !.statusFailed = FALSE, !.rails = "none", !.checks = FALSE, !.confirming = FALSE]
Leased == [page EXCEPT !.lease = TRUE, !.takenBy = "none", !.rails = "out"]

\* attempt: the task, its criteria, and who holds it.
Reload == [page EXCEPT !.view = "loading"]

ServeLoad ==
  /\ load.st = "out"
  /\ load' = Answer
  /\ UNCHANGED <<api, page, quiet, poll, checks, write>>

LoadLands ==
  /\ load.st = "ok"
  /\ LET mine == load.got = "me"
         read == [page EXCEPT !.view = "task", !.takenBy = IF load.got = "other" THEN "other" ELSE "none"]
     IN  IF mine /\ ~page.lease
         THEN /\ page' = [read EXCEPT !.lease = TRUE, !.rails = "out"]
              /\ StartsWatching
         ELSE page' = read /\ UNCHANGED <<poll, checks>>
  /\ load' = Idle
  /\ UNCHANGED <<api, quiet, write>>

LoadFails ==
  /\ load.st = "out"
  /\ \E view \in {"failed", "gone"} : page' = [page EXCEPT !.view = view]
  /\ load' = Idle
  /\ UNCHANGED <<api, quiet, poll, checks, write>>

Retry ==
  /\ page.view = "failed"
  /\ page' = Reload
  /\ load' = Out
  /\ UNCHANGED <<api, quiet, poll, checks, write>>

\* detailCheck: read again quietly; the newest request is the one whose answer counts.
ReadQuietly ==
  /\ page.view = "task" /\ Holding /\ page.visible /\ quiet.st = "idle"
  /\ quiet' = Out
  /\ UNCHANGED <<api, page, load, poll, checks, write>>

QuietEnds ==
  /\ quiet.st = "out"
  /\ quiet' = Idle
  /\ UNCHANGED <<api, page, load, poll, checks, write>>

-----------------------------------------------------------------------------
\* tick: every 15 s while the tab is visible, less often while it fails.
Tick ==
  /\ Holding /\ page.visible /\ poll.st = "idle"
  /\ poll' = Out
  /\ UNCHANGED <<api, page, load, quiet, checks, write>>

ServeStatus ==
  /\ poll.st = "out"
  /\ poll' = Answer
  /\ UNCHANGED <<api, page, load, quiet, checks, write>>

\* Not yours any more: back to "Take it on".
LeaseLost ==
  /\ poll.st = "ok" /\ poll.got # "me"
  /\ page' = [Cleared EXCEPT !.takenBy = poll.got, !.lost = TRUE]
  /\ StopsWatching
  /\ UNCHANGED <<api, load, quiet, write>>

\* A new stage: the task's own answer may have moved too.
StatusLands ==
  /\ poll.st = "ok" /\ poll.got = "me"
  /\ page' = [page EXCEPT !.status = poll.stage + 1, !.statusFailed = FALSE]
  /\ quiet' = IF page.status \notin {0, poll.stage + 1} THEN Out ELSE quiet
  /\ checks' = IF HasChecks(poll.stage) THEN Out ELSE checks
  /\ poll' = Idle
  /\ UNCHANGED <<api, load, write>>

StatusMisses ==
  /\ poll.st = "out"
  /\ page' = [page EXCEPT !.statusFailed = TRUE]
  /\ poll' = Idle
  /\ UNCHANGED <<api, load, quiet, checks, write>>

ChecksEnd ==
  /\ checks.st = "out"
  /\ \E read \in BOOLEAN : page' = [page EXCEPT !.checks = @ \/ read]
  /\ checks' = Idle
  /\ UNCHANGED <<api, load, quiet, poll, write>>

RailsEnd ==
  /\ page.rails = "out"
  /\ \E r \in {"listed", "failed"} : page' = [page EXCEPT !.rails = r]
  /\ UNCHANGED <<api, load, quiet, poll, checks, write>>

\* readStatusNow: after a start, a link opened, a pull request handed in: a new loop, a new read.
ReadStatusNow ==
  /\ page.view = "task" /\ Holding /\ poll.st = "ok"
  /\ StartsWatching
  /\ UNCHANGED <<api, page, load, quiet, write>>

Visibility ==
  /\ page' = [page EXCEPT !.visible = ~@]
  /\ poll' = IF Holding /\ ~page.visible /\ poll.st = "idle" THEN Out ELSE poll
  /\ UNCHANGED <<api, load, quiet, checks, write>>

-----------------------------------------------------------------------------
\* "Claim this": offered to a member while nobody is known to hold it.
OffersClaim == page.view = "task" /\ ~Holding /\ page.takenBy = "none"

Claim ==
  /\ OffersClaim /\ write.st = "idle"
  /\ write' = [of |-> "claim", st |-> "out"]
  /\ UNCHANGED <<api, page, load, quiet, poll, checks>>

\* "Release this task", behind its question.
AskRelease ==
  /\ page.view = "task" /\ Holding /\ write.st = "idle"
  /\ page' = [page EXCEPT !.confirming = ~@]
  /\ UNCHANGED <<api, load, quiet, poll, checks, write>>

Release ==
  /\ page.view = "task" /\ Holding /\ page.confirming /\ write.st = "idle"
  /\ write' = [of |-> "release", st |-> "out"]
  /\ UNCHANGED <<api, page, load, quiet, poll, checks>>

Claims == [api EXCEPT !.holder = "me", !.ended = FALSE, !.stage = 0, !.granted = TRUE]
Frees(h) == [api EXCEPT !.holder = h, !.ended = TRUE]

\* The API does it, or refuses it; the answer may be lost on the way.
ServeWrite ==
  /\ write.st = "out"
  /\ IF write.of = "claim"
     THEN IF api.holder = "none" THEN api' = Claims /\ write' \in {[write EXCEPT !.st = "ok"], [write EXCEPT !.st = "lost"]}
          ELSE UNCHANGED api /\ write' \in {[write EXCEPT !.st = "taken"], [write EXCEPT !.st = "lost"]}
     ELSE IF api.holder = "me" THEN api' = Frees("none") /\ write' \in {[write EXCEPT !.st = "ok"], [write EXCEPT !.st = "lost"]}
          ELSE UNCHANGED api /\ write' \in {[write EXCEPT !.st = "refused"], [write EXCEPT !.st = "lost"]}
  /\ UNCHANGED <<page, load, quiet, poll, checks>>

\* Refused for another reason, or never reached.
WriteStops ==
  /\ write.st = "out"
  /\ write' \in {[write EXCEPT !.st = "refused"], [write EXCEPT !.st = "lost"]}
  /\ UNCHANGED <<api, page, load, quiet, poll, checks>>

Ends == write' = [of |-> "none", st |-> "idle"]

ClaimLands ==
  /\ write.of = "claim" /\ write.st = "ok"
  /\ page' = [Leased EXCEPT !.lost = FALSE]
  /\ StartsWatching
  /\ Ends
  /\ UNCHANGED <<api, load, quiet>>

ClaimTaken ==
  /\ write.st = "taken"
  /\ page' = [page EXCEPT !.takenBy = "other"]
  /\ Ends
  /\ UNCHANGED <<api, load, quiet, poll, checks>>

\* No answer is not a "no": the task, read again, says whether it is yours.
ClaimUnheard ==
  /\ write.of = "claim" /\ write.st = "lost"
  /\ page' = Reload /\ load' = Out
  /\ Ends
  /\ UNCHANGED <<api, quiet, poll, checks>>

Refused ==
  /\ write.st = "refused"
  /\ Ends
  /\ UNCHANGED <<api, page, load, quiet, poll, checks>>

ReleaseLands ==
  /\ write.of = "release" /\ write.st = "ok"
  /\ page' = [Cleared EXCEPT !.view = "loading"]
  /\ load' = Out
  /\ StopsWatching
  /\ Ends
  /\ UNCHANGED <<api, quiet>>

\* Mutant of ReleaseUnheard: no answer is taken for a release.
ReleaseAssumed ==
  /\ write.of = "release" /\ write.st = "lost"
  /\ page' = Cleared
  /\ StopsWatching
  /\ Ends
  /\ UNCHANGED <<api, load, quiet>>

\* No answer is not a "no": the status, read again now.
ReleaseUnheard ==
  /\ write.of = "release" /\ write.st = "lost"
  /\ IF Holding THEN StartsWatching ELSE UNCHANGED <<poll, checks>>
  /\ Ends
  /\ UNCHANGED <<api, page, load, quiet>>

-----------------------------------------------------------------------------
\* Elsewhere: the lease runs out or is released, another member claims, the agent gets on.
LeaseEnds ==
  /\ api.holder # "none"
  /\ api' = IF api.holder = "me" THEN Frees("none") ELSE [api EXCEPT !.holder = "none"]
  /\ UNCHANGED <<page, load, quiet, poll, checks, write>>

OtherClaims ==
  /\ api.holder = "none"
  /\ api' = [api EXCEPT !.holder = "other"]
  /\ UNCHANGED <<page, load, quiet, poll, checks, write>>

AgentMoves ==
  /\ api.holder = "me" /\ api.stage < MaxPushes
  /\ api' = [api EXCEPT !.stage = @ + 1]
  /\ UNCHANGED <<page, load, quiet, poll, checks, write>>

Init ==
  /\ \E h \in Holders : api = [holder |-> h, stage |-> 0, ended |-> FALSE, granted |-> h = "me"]
  /\ page = [view |-> "loading", lease |-> FALSE, takenBy |-> "none", lost |-> FALSE, status |-> 0,
             statusFailed |-> FALSE, rails |-> "none", checks |-> FALSE, confirming |-> FALSE, visible |-> TRUE]
  /\ load = Out /\ quiet = Idle /\ poll = Idle /\ checks = Idle
  /\ write = [of |-> "none", st |-> "idle"]

Next ==
  \/ ServeLoad \/ LoadLands \/ LoadFails \/ Retry \/ ReadQuietly \/ QuietEnds
  \/ Tick \/ ServeStatus \/ LeaseLost \/ StatusLands \/ StatusMisses \/ ChecksEnd \/ RailsEnd \/ ReadStatusNow \/ Visibility
  \/ Claim \/ AskRelease \/ Release \/ ServeWrite \/ WriteStops
  \/ ClaimLands \/ ClaimTaken \/ ClaimUnheard \/ Refused \/ ReleaseLands \/ ReleaseUnheard
  \/ LeaseEnds \/ OtherClaims \/ AgentMoves

\* The tab is looked at now and then; a status is answered now and then.
Fairness ==
  /\ SF_vars(Tick) /\ SF_vars(ServeStatus) /\ SF_vars(LeaseLost \/ StatusLands)
  /\ WF_vars(Visibility /\ ~page.visible)

Spec == Init /\ [][Next]_vars /\ Fairness

-----------------------------------------------------------------------------
\* The shapes of its state.
Tasks == [holder : Holders, stage : 0..MaxPushes, ended : BOOLEAN, granted : BOOLEAN]

TypeOK ==
  /\ api \in Tasks
  /\ page.view \in {"loading", "task", "failed", "gone"} /\ page.takenBy \in Holders \ {"me"}
  /\ page.rails \in {"none", "out", "listed", "failed"} /\ page.status \in 0..MaxPushes + 1
  /\ \A r \in {load, quiet, poll, checks} : r.st \in {"idle", "out", "ok"}
  /\ write.st \in {"idle", "out", "ok", "lost", "taken", "refused"}

\* The page lets go of a lease only when the claim behind it did end: a release that got no
\* answer is not taken for one, nor an answer about an earlier claim for one about this.
LossIsTrueStep == Holding /\ ~page'.lease => api.ended

LossIsTrue == [][LossIsTrueStep]_vars

\* The lease on screen is one FORGE granted, and does not outlast it for good: a page that is
\* looked at comes back to what FORGE has.
LeaseShown == Holding => api.holder = "me"

LeaseTrue == []<>LeaseShown
=============================================================================
