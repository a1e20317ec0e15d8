---------------------------- MODULE ProposeFloor ----------------------------
(***************************************************************************)
(* The Propose floor: class Proposals of services/proposals.py, one action *)
(* per method that changes state, over the tables proposal_motions,        *)
(* proposal_eligible, proposal_consents, proposal_votes, proposal_drafts,  *)
(* proposal_settings and proposal_floor.                                   *)
(*                                                                         *)
(* A method's transaction holds the state database's one lock, so each is  *)
(* one step.  What is not atomic is kept apart:                            *)
(*   - a request reads the clock and passes the two flags before it waits  *)
(*     for the lock, so it writes with a time up to Lag slots old (admit); *)
(*   - a beat of the ticker, a list or a detail works out floor_open in    *)
(*     one transaction and applies each motion's steps in others, with the *)
(*     answer and the time it began with (sweep).                          *)
(*                                                                         *)
(* A refused write raises inside its transaction, which rolls back the     *)
(* transitions it had applied: it is not a step.  Rate limits are such     *)
(* refusals, and so need no state here.  Comments, notifications and the   *)
(* words of the timeline are left out, and so is the house model's job     *)
(* queue, which is a component of its own.                                 *)
(*                                                                         *)
(* Definitions marked Slip are the mutants of the definition that follows. *)
(***************************************************************************)
EXTENDS Integers, FiniteSets

CONSTANTS
    Members,    \* the people who sign in
    Ids,        \* proposal numbers
    NoOne,      \* no seconder yet
    Ticker,     \* the ticker's beat, among the sweeps
    Readers,    \* the other sweeps: list and detail reads in flight
    Timers,     \* PILOT_TIMERS and TEST_TIMERS, in clock slots
    MaxEdits,   \* MAX_EDITS
    Lag,        \* the longest a request or a sweep is in flight, in slots
    Punctual,   \* TRUE: the ticker beats in every clock slot
    MaxClock,   \* bound: the clock stops here
    MaxDeadline \* bound: the flags stay on while a deadline is past this

Never == -1
Kinds == {"pilot", "test"}
Periods == {"lapse", "debate", "vote"}

ASSUME FloorAssumption ==
    /\ NoOne \notin Members
    /\ Ticker \notin Readers
    /\ Timers \in [Kinds -> [Periods -> Nat \ {0}]]
    /\ MaxEdits \in Nat /\ Lag \in Nat /\ MaxClock \in Nat /\ MaxDeadline \in Nat
    /\ Punctual \in BOOLEAN
    /\ IsFiniteSet(Members)

Sweepers == Readers \cup {Ticker}
Time == Nat \cup {Never}

ActiveStates == {"submitted", "debate", "voting"}
States == ActiveStates \cup
    {"none", "passed", "failed", "lapsed", "withdrawn", "building", "shipped"}

(***************************************************************************)
(* A motion's row, with the rows that hang on it.  Two fields record what  *)
(* the timeline keeps: cut, the periods an admin ended, and agreed, the    *)
(* revision its seconder had read.                                         *)
(***************************************************************************)
Motion == [
    state       : States,
    mover       : Members \cup {NoOne},
    seconder    : Members \cup {NoOne},
    revision    : Nat,
    agreed      : Nat,
    deadline    : Time,
    eligible    : SUBSET Members,
    consents    : [Members -> {"none", "consented", "objected"}],
    ballots     : [Members -> {"none", "yes", "no", "abstain"}],
    secondedAt  : Time,
    debateEnded : Time,
    voteClosed  : Time,
    decided     : Time,
    cut         : SUBSET {"debate", "vote"},
    draft       : {"none", "plain", "house", "saved"}]

NoMotion == [
    state |-> "none", mover |-> NoOne, seconder |-> NoOne, revision |-> 0,
    agreed |-> 0, deadline |-> Never, eligible |-> {},
    consents |-> [x \in Members |-> "none"],
    ballots |-> [x \in Members |-> "none"],
    secondedAt |-> Never, debateEnded |-> Never, voteClosed |-> Never,
    decided |-> Never, cut |-> {}, draft |-> "none"]

VARIABLES
    clock,        \* wall-clock slot
    canAct,       \* members_can_act(): both flags on
    admit,        \* times a request in flight may carry, its gate passed
    closedSince,  \* proposal_floor.closed_since
    timers,       \* "test" while proposal_settings has test_timers on
    motions,      \* Ids -> Motion
    merged,       \* ids whose published task has been merged (the Bridge)
    sweep         \* Sweepers -> the time an open sweep began with, or Never

vars == <<clock, canAct, admit, closedSince, timers, motions, merged, sweep>>

(* The times a request that gets the lock at c may have started with. *)
Window(c) == {t \in 0 .. c : t >= c - Lag}

Init ==
    /\ clock = 0
    /\ canAct = TRUE
    /\ admit = Window(0)
    /\ closedSince = Never
    /\ timers = "pilot"
    /\ motions = [p \in Ids |-> NoMotion]
    /\ merged = {}
    /\ sweep = [s \in Sweepers |-> Never]

-----------------------------------------------------------------------------
(* The rules, as a pure function. *)

Active(m) == m.state \in ActiveStates
Choosers(votes, choice) == {x \in Members : votes[x] = choice}
Objectors(m) == Choosers(m.consents, "objected")
Ballots(m) == {x \in Members : m.ballots[x] # "none"}

QuorumMet(m) == Cardinality(Ballots(m)) * 2 > Cardinality(m.eligible)
Carried(m) ==
    /\ QuorumMet(m)
    /\ Cardinality(Choosers(m.ballots, "yes"))
           > Cardinality(Choosers(m.ballots, "no"))

(* Eligible members and consents are counted apart in the code; a consent  *)
(* row is only ever written for an eligible member.                        *)
Unanimous(m) ==
    /\ Objectors(m) = {}
    /\ m.eligible # {}
    /\ Cardinality(m.eligible)
           <= Cardinality(Choosers(m.consents, "consented"))

(* Slip: a deadline counts as passed one slot early. *)
OverdueEarly(m, now) == m.deadline # Never /\ m.deadline <= now + 1

Overdue(m, now) == m.deadline # Never /\ m.deadline <= now

(* The passed step drafts the task as well (_draft_task). *)
PassAt(m, at) ==
    [m EXCEPT !.state = "passed", !.deadline = Never, !.decided = at,
              !.draft = "plain"]

LapseOf(m) ==
    [m EXCEPT !.state = "lapsed", !.deadline = Never, !.decided = m.deadline]

OpenVoteOf(m, kind) ==
    [m EXCEPT !.state = "voting", !.debateEnded = m.deadline,
              !.deadline = m.deadline + Timers[kind]["vote"]]

CloseVoteOf(m) ==
    LET closed == [m EXCEPT !.voteClosed = m.deadline]
    IN  IF Carried(m)
        THEN PassAt(closed, m.deadline)
        ELSE [closed EXCEPT !.state = "failed", !.deadline = Never,
                            !.decided = m.deadline]

TallyOf(m, now) ==
    IF m.state = "voting" /\ Overdue(m, now) THEN CloseVoteOf(m) ELSE m

(* Slip: debate's end forgets the objections. *)
EndDebateDeaf(m, now, kind) ==
    PassAt([m EXCEPT !.debateEnded = m.deadline], m.deadline)

EndDebateOf(m, now, kind) ==
    IF Objectors(m) = {}
    THEN PassAt([m EXCEPT !.debateEnded = m.deadline], m.deadline)
    ELSE TallyOf(OpenVoteOf(m, kind), now)

(* Slip: nothing lapses. *)
AdvanceNoLapse(m, now, kind) ==
    CASE m.state = "debate" /\ Overdue(m, now) -> EndDebateOf(m, now, kind)
      [] m.state = "debate" /\ ~Overdue(m, now) /\ Unanimous(m) -> PassAt(m, now)
      [] OTHER -> TallyOf(m, now)

Advance(m, now, kind) ==
    CASE m.state = "submitted" /\ Overdue(m, now) -> LapseOf(m)
      [] m.state = "debate" /\ Overdue(m, now) -> EndDebateOf(m, now, kind)
      [] m.state = "debate" /\ ~Overdue(m, now) /\ Unanimous(m) -> PassAt(m, now)
      [] OTHER -> TallyOf(m, now)

-----------------------------------------------------------------------------
(* The pause.  floor_open() first brings it up to date, at the caller's    *)
(* now: closing keeps the time; opening again moves every deadline that    *)
(* was still running when it closed.                                       *)

(* Slip: a late `now` moves deadlines back. *)
ClosedForRaw(now) == now - closedSince

ClosedFor(now) == IF now > closedSince THEN now - closedSince ELSE 0

(* Slip: a vote running when the floor closed is not given its time back. *)
ResumedDebates(m, now) ==
    IF m.state \in {"submitted", "debate"} /\ m.deadline > closedSince
    THEN [m EXCEPT !.deadline = @ + ClosedFor(now)]
    ELSE m

Resumed(m, now) ==
    IF Active(m) /\ m.deadline > closedSince
    THEN [m EXCEPT !.deadline = @ + ClosedFor(now)]
    ELSE m

Synced(now) ==
    IF canAct /\ closedSince # Never
    THEN [p \in Ids |-> Resumed(motions[p], now)]
    ELSE motions

SyncFloor(now) ==
    closedSince' = IF canAct THEN Never
                   ELSE IF closedSince = Never THEN now ELSE closedSince

(* Every motion after the sync, with the steps due applied to those in S.  *)
Applied(S, now) ==
    [p \in Ids |-> IF p \in S /\ canAct
                   THEN Advance(Synced(now)[p], now, timers)
                   ELSE Synced(now)[p]]

Current(p, now) == Applied({p}, now)[p]

(* A write on p: the pause and p's due steps first, then its own change.   *)
Write(p, now, m) ==
    /\ motions' = [Applied({p}, now) EXCEPT ![p] = m]
    /\ SyncFloor(now)
    /\ UNCHANGED <<clock, canAct, admit, timers, merged, sweep>>

-----------------------------------------------------------------------------
(* Time and the flags. *)

(* With a punctual ticker, a slot never ends with a closure unrecorded or  *)
(* a due step unapplied.                                                   *)
BeatInTime ==
    /\ canAct <=> closedSince = Never
    /\ canAct => \A p \in Ids : Active(motions[p]) => ~Overdue(motions[p], clock)

(* The clock is bounded by MaxClock, and stops when every number is taken   *)
(* and decided: no deadline is left to read it.                            *)
MayTick ==
    /\ clock < MaxClock
    /\ \E p \in Ids : motions[p].state \in ActiveStates \cup {"none"}

Tick ==
    /\ MayTick
    /\ Punctual => BeatInTime
    /\ \A s \in Sweepers : sweep[s] # Never => clock + 1 - sweep[s] <= Lag
    /\ clock' = clock + 1
    /\ admit' = IF canAct THEN Window(clock + 1)
                ELSE admit \cap Window(clock + 1)
    /\ UNCHANGED <<canAct, closedSince, timers, motions, merged, sweep>>

(* Late requests can record the same slot as closed again and again; the   *)
(* guard on deadlines is the bound that stops it.                          *)
FlagsOff ==
    /\ canAct
    /\ \A p \in Ids : motions[p].deadline <= MaxDeadline
    /\ canAct' = FALSE
    /\ UNCHANGED <<clock, admit, closedSince, timers, motions, merged, sweep>>

FlagsOn ==
    /\ ~canAct
    /\ canAct' = TRUE
    /\ admit' = Window(clock)
    /\ UNCHANGED <<clock, closedSince, timers, motions, merged, sweep>>

-----------------------------------------------------------------------------
(* A member's writes. *)

NewMotion(x, now) ==
    [NoMotion EXCEPT !.state = "submitted", !.mover = x, !.revision = 1,
                     !.deadline = now + Timers[timers]["lapse"]]

(* Slip: only a motion without a second counts as on the floor. *)
MoveAgain(x, p, now) ==
    LET mine == {q \in Ids : motions[q].mover = x /\ motions[q].state = "submitted"}
        floor == Applied(mine, now)
    IN  /\ motions[p].state = "none"
        /\ \A q \in mine : ~Active(floor[q])
        /\ motions' = [floor EXCEPT ![p] = NewMotion(x, now)]
        /\ SyncFloor(now)
        /\ UNCHANGED <<clock, canAct, admit, timers, merged, sweep>>

Move(x, p, now) ==
    LET mine == {q \in Ids : motions[q].mover = x /\ Active(motions[q])}
        floor == Applied(mine, now)
    IN  /\ motions[p].state = "none"
        /\ \A q \in mine : ~Active(floor[q])
        /\ motions' = [floor EXCEPT ![p] = NewMotion(x, now)]
        /\ SyncFloor(now)
        /\ UNCHANGED <<clock, canAct, admit, timers, merged, sweep>>

Edit(x, p, now) ==
    LET m == Current(p, now)
    IN  /\ m.mover = x
        /\ m.state = "submitted"
        /\ m.revision <= MaxEdits
        /\ Write(p, now, [m EXCEPT !.revision = @ + 1])

(* Slip: withdrawing forgets to look at the state. *)
WithdrawLate(x, p, now) ==
    LET m == Current(p, now)
    IN  /\ m.mover = x
        /\ Write(p, now, [m EXCEPT !.state = "withdrawn", !.deadline = Never,
                                   !.decided = now])

Withdraw(x, p, now) ==
    LET m == Current(p, now)
    IN  /\ m.mover = x
        /\ Active(m)
        /\ Write(p, now, [m EXCEPT !.state = "withdrawn", !.deadline = Never,
                                   !.decided = now])

(* x seconds the revision on their page; recent is recent_members: whoever *)
(* the activity window happens to hold.                                    *)
SecondedBy(m, x, page, recent, now) ==
    [m EXCEPT !.state = "debate", !.seconder = x, !.agreed = page,
              !.secondedAt = now,
              !.deadline = now + Timers[timers]["debate"],
              !.eligible = recent \cup {m.mover, x},
              !.consents = [@ EXCEPT ![m.mover] = "consented"]]

(* Slip: the revision read is not compared with the text as it stands. *)
SecondUnread(x, p, page, recent, now) ==
    LET m == Current(p, now)
    IN  /\ m.state = "submitted"
        /\ m.mover # x
        /\ Write(p, now, SecondedBy(m, x, page, recent, now))

(* Slip: the mover may second their own proposal. *)
SecondOwn(x, p, page, recent, now) ==
    LET m == Current(p, now)
    IN  /\ m.state = "submitted"
        /\ page = m.revision
        /\ Write(p, now, SecondedBy(m, x, page, recent, now))

Second(x, p, page, recent, now) ==
    LET m == Current(p, now)
    IN  /\ m.state = "submitted"
        /\ m.mover # x
        /\ page = m.revision
        /\ Write(p, now, SecondedBy(m, x, page, recent, now))

(* Slip: an objection can be taken back. *)
ConsentAgain(x, p, choice, now) ==
    LET m == Current(p, now)
        said == [m EXCEPT !.consents = [@ EXCEPT ![x] = choice]]
    IN  /\ m.state = "debate"
        /\ x \in m.eligible
        /\ Write(p, now, IF canAct THEN Advance(said, now, timers) ELSE said)

(* Consent or object, once; then the steps due (the last consent passes).  *)
Consent(x, p, choice, now) ==
    LET m == Current(p, now)
        said == [m EXCEPT !.consents = [@ EXCEPT ![x] = choice]]
    IN  /\ m.state = "debate"
        /\ x \in m.eligible
        /\ m.consents[x] = "none"
        /\ Write(p, now, IF canAct THEN Advance(said, now, timers) ELSE said)

Vote(x, p, choice, now) ==
    LET m == Current(p, now)
    IN  /\ m.state = "voting"
        /\ x \in m.eligible
        /\ Write(p, now, [m EXCEPT !.ballots = [@ EXCEPT ![x] = choice]])

-----------------------------------------------------------------------------
(* An admin's writes. *)

(* Slip: a state the floor does not know. *)
ShipUnknown(m) == [m EXCEPT !.state = "merged"]

ShipOf(m) == [m EXCEPT !.state = "shipped"]

(* advance_all inside the switch's transaction, then the other timers. *)
SetTestTimers(now) ==
    LET due == {p \in Ids : Active(motions[p]) /\ Overdue(Synced(now)[p], now)}
        floor == Applied(due, now)
    IN  /\ timers' = IF timers = "test" THEN "pilot" ELSE "test"
        /\ motions' = [p \in Ids |->
                IF canAct /\ p \in merged /\ floor[p].state = "building"
                THEN ShipOf(floor[p]) ELSE floor[p]]
        /\ SyncFloor(now)
        /\ UNCHANGED <<clock, canAct, admit, merged, sweep>>

(* "End debate now" and "Close the vote now": as if the deadline were now. *)
EndDebate(p, now) ==
    LET m == Current(p, now)
    IN  /\ timers = "test"
        /\ m.state = "debate"
        /\ Write(p, now, Advance([m EXCEPT !.deadline = now,
                                           !.cut = @ \cup {"debate"}], now, timers))

CloseVote(p, now) ==
    LET m == Current(p, now)
    IN  /\ timers = "test"
        /\ m.state = "voting"
        /\ Write(p, now, Advance([m EXCEPT !.deadline = now,
                                           !.cut = @ \cup {"vote"}], now, timers))

PutDraft(p, now) ==
    LET m == Current(p, now)
    IN  /\ m.state = "passed"
        /\ Write(p, now, [m EXCEPT !.draft = "saved"])

(* A draft nobody finished has no criteria yet, and is refused. *)
Publish(p, now) ==
    LET m == Current(p, now)
    IN  /\ m.state = "passed"
        /\ m.draft \in {"house", "saved"}
        /\ Write(p, now, [m EXCEPT !.state = "building"])

-----------------------------------------------------------------------------
(* The house model's spec lands, and the Bridge's word. *)

(* Slip: the house's spec fills a draft an admin has saved. *)
ApplyHouseSpecOver(p) ==
    /\ motions[p].state = "passed"
    /\ motions' = [motions EXCEPT ![p].draft = "house"]
    /\ UNCHANGED <<clock, canAct, admit, closedSince, timers, merged, sweep>>

(* apply_house_spec runs in the worker's transaction, with no sync. *)
ApplyHouseSpec(p) ==
    /\ motions[p].state = "passed"
    /\ motions[p].draft # "saved"
    /\ motions' = [motions EXCEPT ![p].draft = "house"]
    /\ UNCHANGED <<clock, canAct, admit, closedSince, timers, merged, sweep>>

(* The task is merged on GitHub; the hook that ships it may not run. *)
Merge(p) ==
    /\ motions[p].state = "building"
    /\ p \notin merged
    /\ merged' = merged \cup {p}
    /\ \/ motions' = [motions EXCEPT ![p] = ShipOf(@)]
       \/ UNCHANGED motions
    /\ UNCHANGED <<clock, canAct, admit, closedSince, timers, sweep>>

-----------------------------------------------------------------------------
(* The ticker, and the reads that apply what is due. *)

BeginSweep(s, now) ==
    /\ sweep[s] = Never
    /\ sweep' = [sweep EXCEPT ![s] = IF canAct THEN now ELSE Never]
    /\ motions' = Synced(now)
    /\ SyncFloor(now)
    /\ UNCHANGED <<clock, canAct, admit, timers, merged>>

(* advance_one with the sweep's own time and answer: the floor is not      *)
(* looked at again.  A beat only visits deadlines that have passed.        *)
SweepApply(s, p) ==
    LET m == motions[p]
        after == Advance(m, sweep[s], timers)
    IN  /\ sweep[s] # Never
        /\ s = Ticker => Overdue(m, sweep[s])
        /\ after # m
        /\ motions' = [motions EXCEPT ![p] = after]
        /\ UNCHANGED <<clock, canAct, admit, closedSince, timers, merged, sweep>>

(* Slip: the catch-up looks for tasks in the wrong state. *)
SweepShipPassed(s, p) ==
    /\ sweep[s] # Never
    /\ p \in merged
    /\ motions[p].state = "passed"
    /\ motions' = [motions EXCEPT ![p] = ShipOf(@)]
    /\ UNCHANGED <<clock, canAct, admit, closedSince, timers, merged, sweep>>

(* A beat ships what was merged while its hook did not run. *)
SweepShip(s, p) ==
    /\ sweep[s] # Never
    /\ p \in merged
    /\ motions[p].state = "building"
    /\ motions' = [motions EXCEPT ![p] = ShipOf(@)]
    /\ UNCHANGED <<clock, canAct, admit, closedSince, timers, merged, sweep>>

(* A beat visits every deadline passed and every merged task before it ends. *)
EndSweep(s) ==
    /\ sweep[s] # Never
    /\ s = Ticker => \A p \in Ids :
           /\ Active(motions[p]) => ~Overdue(motions[p], sweep[s])
           /\ p \in merged => motions[p].state # "building"
    /\ sweep' = [sweep EXCEPT ![s] = Never]
    /\ UNCHANGED <<clock, canAct, admit, closedSince, timers, motions, merged>>

-----------------------------------------------------------------------------
MemberWrite(x, p, now) ==
    \/ Move(x, p, now)
    \/ Edit(x, p, now)
    \/ Withdraw(x, p, now)
    \/ \E page \in 1 .. MaxEdits + 1, recent \in SUBSET Members :
           Second(x, p, page, recent, now)
    \/ \E choice \in {"consented", "objected"} : Consent(x, p, choice, now)
    \/ \E choice \in {"yes", "no", "abstain"} : Vote(x, p, choice, now)

AdminWrite(p, now) ==
    \/ EndDebate(p, now)
    \/ CloseVote(p, now)
    \/ PutDraft(p, now)
    \/ Publish(p, now)

Sweeping(s) ==
    \/ \E now \in Window(clock) : BeginSweep(s, now)
    \/ \E p \in Ids : SweepApply(s, p) \/ SweepShip(s, p)
    \/ EndSweep(s)

Next ==
    \/ Tick
    \/ FlagsOff
    \/ FlagsOn
    \/ \E now \in admit : SetTestTimers(now)
    \/ \E p \in Ids, now \in admit : AdminWrite(p, now)
    \/ \E x \in Members, p \in Ids, now \in admit : MemberWrite(x, p, now)
    \/ \E p \in Ids : ApplyHouseSpec(p) \/ Merge(p)
    \/ \E s \in Sweepers : Sweeping(s)

Spec == Init /\ [][Next]_vars

(***************************************************************************)
(* Time passes, however busy the floor is, and the ticker never stops:     *)
(* run_ticker logs a failing beat and goes on.  Members, admins, readers   *)
(* and the flags owe nothing.                                              *)
(***************************************************************************)
Fairness ==
    /\ SF_vars(Tick)
    /\ WF_vars(\E now \in Window(clock) : BeginSweep(Ticker, now))
    /\ \A p \in Ids : WF_vars(SweepApply(Ticker, p))
    /\ \A p \in Ids : WF_vars(SweepShip(Ticker, p))
    /\ WF_vars(EndSweep(Ticker))

FairSpec == Spec /\ Fairness

-----------------------------------------------------------------------------
(* Properties. *)

(* Every table column and every request in flight keeps its type.          *)
TypeOK ==
    /\ clock \in Nat
    /\ canAct \in BOOLEAN
    /\ admit \subseteq Nat
    /\ closedSince \in Time
    /\ timers \in Kinds
    /\ motions \in [Ids -> Motion]
    /\ merged \subseteq Ids
    /\ sweep \in [Sweepers -> Time]

PassedStates == {"passed", "building", "shipped"}

(* What may be said of one motion at any moment: a proposal is decided by  *)
(* the rules and by nobody else's word.  One that passed had no objection  *)
(* and no vote, or it had both and the vote was carried with a quorum; one *)
(* that failed or is being voted on was objected to; one that failed was   *)
(* not carried.                                                            *)
SoundlyDecided(m) ==
    /\ m.state \in PassedStates =>
           \/ Objectors(m) = {} /\ m.voteClosed = Never
           \/ Objectors(m) # {} /\ m.voteClosed # Never /\ Carried(m)
    /\ m.state = "failed" => m.voteClosed # Never /\ ~Carried(m)
    /\ m.state \in {"voting", "failed"} => Objectors(m) # {}

(* Every decision on the floor is the one its final consents and ballots   *)
(* call for, however the writes, sweeps, pauses and buttons interleave.    *)
DecisionSound == \A p \in Ids : SoundlyDecided(motions[p])

ElectorateSound(m) ==
    /\ \A x \in Members :
           m.consents[x] # "none" \/ m.ballots[x] # "none" => x \in m.eligible
    /\ m.seconder # NoOne =>
           /\ m.seconder # m.mover
           /\ {m.seconder, m.mover} \subseteq m.eligible
           /\ m.agreed = m.revision

(* Only the frozen electorate speaks: whoever consented, objected or voted *)
(* is in the set frozen by the second, the mover and seconder are two      *)
(* different members of it, and its text is the one the seconder had read, *)
(* however edits, seconds and late requests cross.                         *)
Electorate == \A p \in Ids : ElectorateSound(motions[p])

(* A member has at most one proposal on the floor (move's 409              *)
(* one_active_proposal), whatever lapsed, passed or resumed meanwhile.     *)
OneActive ==
    \A p, q \in Ids :
        Active(motions[p]) /\ Active(motions[q]) /\ motions[p].mover = motions[q].mover
            => p = q

(* The timeline is dated in order, up to the lag of the requests that      *)
(* wrote it, and never in the future: a step applied late is dated at its  *)
(* deadline, a closed floor never pushes one past the clock.               *)
TimelineInOrder ==
    \A p \in Ids :
        LET m == motions[p]
        IN  /\ m.decided <= clock /\ m.debateEnded <= clock /\ m.voteClosed <= clock
            /\ m.debateEnded # Never => m.secondedAt <= m.debateEnded + Lag
            /\ m.voteClosed # Never => m.debateEnded <= m.voteClosed + Lag
            /\ m.decided # Never => m.secondedAt <= m.decided + Lag

(* What members said stays said: the electorate is frozen by the second,   *)
(* a consent or an objection is final, ballots change only while voting is *)
(* open, and once a motion is decided nothing about the decision changes.  *)
KeepsWord(m, n) ==
    /\ m.seconder # NoOne => n.eligible = m.eligible /\ n.revision = m.revision
    /\ \A x \in Members : m.consents[x] # "none" => n.consents[x] = m.consents[x]
    /\ n.ballots # m.ballots => n.state = "voting"
    /\ m.decided # Never =>
           /\ n.consents = m.consents
           /\ n.decided = m.decided
           /\ n.state = m.state \/ <<m.state, n.state>> \in
                  {<<"passed", "building">>, <<"building", "shipped">>}

WordKeptStep == \A p \in Ids : KeepsWord(motions[p], motions'[p])

WordKept == [][WordKeptStep]_vars

(* A deadline only moves when a pause ends, only later, and by no more     *)
(* than the floor has been closed: "a closed floor's deadlines wait".      *)
DeadlineWaitsStep ==
    \A p \in Ids :
        LET m == motions[p]
            n == motions'[p]
        IN  m.deadline # n.deadline /\ m.state = n.state =>
                /\ closedSince # Never /\ closedSince' = Never
                /\ m.deadline < n.deadline
                /\ n.deadline - m.deadline <= clock - closedSince

DeadlineWaits == [][DeadlineWaitsStep]_vars

(* A draft an admin saved is never replaced by the house model's, and only *)
(* a finished draft is published.                                          *)
SavedDraftKept ==
    [][\A p \in Ids :
        /\ motions[p].draft = "saved" => motions'[p].draft = "saved"
        /\ motions[p].state # "building" /\ motions'[p].state = "building"
               => motions'[p].draft \in {"house", "saved"}]_vars

Lifecycle == INSTANCE MotionLifecycle WITH
    state <- [p \in Ids |-> motions[p].state],
    objected <- [p \in Ids |-> Objectors(motions[p]) # {}]

(* The floor implements the lifecycle drawn at the head of proposals.py:   *)
(* every transition follows its arrows, and one objection closes the way   *)
(* to passing without a vote for good.                                     *)
FollowsLifecycle == Lifecycle!Spec

-----------------------------------------------------------------------------
(* Liveness, under Fairness. *)

FloorStaysOpen == <>[](canAct)

(* The bound on the clock leaves room for every deadline that is set.      *)
InHorizon == \A p \in Ids : motions[p].deadline <= MaxClock

(* Once the floor stays open, every motion brought is decided: the ticker  *)
(* lapses, passes or fails it even if nobody ever acts on it or reads it.  *)
EveryMotionDecided ==
    FloorStaysOpen /\ []InHorizon =>
        \A p \in Ids : Active(motions[p]) ~> motions[p].decided # Never

(* A merged task ships its proposal, even when the Bridge's hook did not   *)
(* run: the ticker's beat catches it up.                                   *)
MergedShips ==
    FloorStaysOpen => \A p \in Ids : p \in merged ~> motions[p].state = "shipped"

-----------------------------------------------------------------------------
(***************************************************************************)
(* Two history variables that measure each motion's periods (to find a     *)
(* second, debate, the vote): what a page showed when the period opened,   *)
(* and how long the floor has been open to members since.  Neither is read *)
(* by the floor, and Spec says nothing of them: PeriodSpec does.           *)
(***************************************************************************)
VARIABLES
    owed,      \* Ids -> slots left to the deadline when the period opened
    served     \* Ids -> slots the floor has been open since

periodVars == <<vars, owed, served>>

PeriodInit ==
    /\ Init
    /\ owed = [p \in Ids |-> 0]
    /\ served = [p \in Ids |-> 0]

Opens(p) == motions[p].state # motions'[p].state /\ Active(motions'[p])
SlotPassed == clock' # clock /\ canAct

PeriodNext ==
    /\ Next
    /\ owed' = [p \in Ids |->
           IF Opens(p) THEN motions'[p].deadline - clock' ELSE owed[p]]
    /\ served' = [p \in Ids |->
           IF Opens(p) THEN 0
           ELSE IF SlotPassed /\ Active(motions[p]) THEN served[p] + 1
           ELSE served[p]]

PeriodSpec == PeriodInit /\ [][PeriodNext]_periodVars

-----------------------------------------------------------------------------
(* A period ends by its own deadline: nobody withdrew, no admin button, no *)
(* unanimous consent.                                                      *)
Lapsed(m, n) == m.state = "submitted" /\ n.state = "lapsed"
DebateRanOut(m, n) ==
    /\ m.state = "debate" /\ n.state # "debate"
    /\ n.debateEnded # Never /\ "debate" \notin n.cut
VoteRanOut(m, n) ==
    /\ m.state = "voting" /\ n.voteClosed # Never /\ "vote" \notin n.cut

(* Members get, on an open floor, every slot the page promised them when   *)
(* the period opened: closures are given back in full, so a kill switch    *)
(* never lapses, passes by silence or fails a motion that was running.     *)
PeriodsServedStep ==
    \A p \in Ids :
        LET m == motions[p]
            n == motions'[p]
        IN  Lapsed(m, n) \/ DebateRanOut(m, n) \/ VoteRanOut(m, n)
                => served[p] >= owed[p]

PeriodsServed == [][PeriodsServedStep]_periodVars

(* What ADR-006 says the pause is for: no vote fails that nobody could     *)
(* cast a ballot in (but for one an admin closed with the test button).    *)
NoUnheardVote ==
    [][\A p \in Ids :
        motions[p].state = "debate" /\ motions'[p].state = "failed"
            => "vote" \in motions'[p].cut]_periodVars

=============================================================================
