------------------------- MODULE ProposeFloorProofs -------------------------
(***************************************************************************)
(* What holds of ProposeFloor for all members, numbers, timers, lags and   *)
(* bounds: TypeOK, DecisionSound, Electorate, OneActive, TimelineInOrder,  *)
(* WordKept, DeadlineWaits, SavedDraftKept, and that it implements         *)
(* MotionLifecycle; and that every period is served, where nothing is    *)
(* late.                                                                   *)
(*                                                                         *)
(* None is inductive.  Four invariants carry them:                         *)
(*   - GoodFloor adds to the types and the decisions what they rest on:    *)
(*     whoever moved an existing motion is a member (a second makes the    *)
(*     mover eligible), an active motion has a deadline, and no vote has   *)
(*     closed on one that is still active;                                 *)
(*   - FrozenFloor, that nobody speaks before the second, and that a draft *)
(*     and the time of a decision come with the decision;                  *)
(*   - TimedFloor, that a deadline is no older than the lag before what    *)
(*     has happened to its motion, and that no time in flight is;          *)
(*   - PacedFloor, that a period's deadline leaves the slots it still owes *)
(*     its members, counted from when the floor was found closed, if it is.*)
(*                                                                         *)
(* NextAlters says once, for every action, what a step may do to each      *)
(* motion (Alters, or a Move): who may speak, what is said, the drafts,    *)
(* the lifecycle and OneActive follow from those cases and look at no      *)
(* action again.  The dates and the deadlines have a pass of their own.    *)
(***************************************************************************)
EXTENDS ProposeFloor, TLAPS

UndecidedStates == ActiveStates \cup {"none"}

GoodMotion(m) ==
    /\ m \in Motion
    /\ m.state # "none" => m.mover \in Members
    /\ Active(m) => m.deadline \in Nat
    /\ m.state \in UndecidedStates => m.voteClosed = Never
    /\ SoundlyDecided(m)

GoodMotions(floor) ==
    /\ floor \in [Ids -> Motion]
    /\ \A p \in Ids : GoodMotion(floor[p])

GoodFloor ==
    /\ clock \in Nat
    /\ canAct \in BOOLEAN
    /\ admit \subseteq Nat
    /\ closedSince \in Time
    /\ timers \in Kinds
    /\ merged \subseteq Ids
    /\ sweep \in [Sweepers -> Time]
    /\ GoodMotions(motions)

-----------------------------------------------------------------------------
(* The timers are positive numbers of slots. *)
LEMMA TimersPositive ==
    ASSUME NEW kind \in Kinds, NEW period \in Periods
    PROVE  Timers[kind][period] \in Nat
BY FloorAssumption DEF Kinds, Periods

(* A motion not yet moved is good. *)
LEMMA NoMotionGood == GoodMotion(NoMotion)
<1>1. NoMotion \in Motion
  BY DEF NoMotion, Motion, States, ActiveStates, Time, Never, Kinds
<1>2. NoMotion.state = "none" /\ NoMotion.voteClosed = Never
  BY DEF NoMotion
<1>3. QED
  BY <1>1, <1>2 DEF GoodMotion, Active, ActiveStates, SoundlyDecided, PassedStates

(* Lapsing keeps a motion good. *)
LEMMA LapseGood ==
    ASSUME NEW m, GoodMotion(m), m.state = "submitted"
    PROVE  GoodMotion(LapseOf(m))
<1> USE DEF GoodMotion
<1>1. LapseOf(m) \in Motion
  BY DEF LapseOf, Motion, States, ActiveStates, Time, Never
<1>2. LapseOf(m).state = "lapsed" /\ LapseOf(m).mover = m.mover
  BY DEF LapseOf, Motion
<1>3. QED
  BY <1>1, <1>2
  DEF Active, ActiveStates, SoundlyDecided, PassedStates, UndecidedStates

(* Passing keeps what everyone said, and no vote closes.                   *)
LEMMA PassFacts ==
    ASSUME NEW m \in Motion, NEW at \in Time
    PROVE  /\ PassAt(m, at) \in Motion
           /\ PassAt(m, at).state = "passed"
           /\ PassAt(m, at).mover = m.mover
           /\ PassAt(m, at).voteClosed = m.voteClosed
           /\ Objectors(PassAt(m, at)) = Objectors(m)
           /\ Carried(PassAt(m, at)) <=> Carried(m)
<1>1. PassAt(m, at) \in Motion
  BY DEF PassAt, Motion, States, ActiveStates, Time, Never
<1>2. /\ PassAt(m, at).state = "passed"
      /\ PassAt(m, at).mover = m.mover
      /\ PassAt(m, at).voteClosed = m.voteClosed
      /\ PassAt(m, at).consents = m.consents
      /\ PassAt(m, at).ballots = m.ballots
      /\ PassAt(m, at).eligible = m.eligible
  BY DEF PassAt, Motion
<1>3. QED
  BY <1>1, <1>2 DEF Objectors, Carried, QuorumMet, Ballots

(* Passing without a vote is sound when nobody has objected. *)
LEMMA PassGood ==
    ASSUME NEW m, GoodMotion(m), m.state = "debate", Objectors(m) = {},
           NEW at \in Time
    PROVE  GoodMotion(PassAt(m, at))
BY PassFacts
DEF GoodMotion, Active, ActiveStates, SoundlyDecided, PassedStates, UndecidedStates

(* Opening the vote is sound when somebody has. *)
LEMMA OpenVoteGood ==
    ASSUME NEW m, GoodMotion(m), m.state = "debate", Objectors(m) # {},
           NEW kind \in Kinds
    PROVE  /\ GoodMotion(OpenVoteOf(m, kind))
           /\ OpenVoteOf(m, kind).state = "voting"
<1> DEFINE n == OpenVoteOf(m, kind)
<1>1. m \in Motion /\ m.deadline \in Nat /\ m.mover \in Members /\ m.voteClosed = Never
  BY DEF GoodMotion, Active, ActiveStates, UndecidedStates
<1>2. m.deadline + Timers[kind]["vote"] \in Nat
  BY <1>1, TimersPositive DEF Periods
<1>3. n \in Motion
  <2>1. m.deadline \in Time /\ m.deadline + Timers[kind]["vote"] \in Time
    BY <1>1, <1>2 DEF Time
  <2>2. "voting" \in States
    BY DEF States, ActiveStates
  <2>3. QED
    BY <1>1, <2>1, <2>2 DEF OpenVoteOf, Motion
<1>4. /\ n.state = "voting" /\ n.mover = m.mover /\ n.voteClosed = Never
      /\ n.deadline \in Nat /\ n.consents = m.consents
  BY <1>1, <1>2 DEF OpenVoteOf, Motion
<1>5. Objectors(n) = Objectors(m)
  BY <1>4 DEF Objectors
<1>6. QED
  BY <1>1, <1>3, <1>4, <1>5
  DEF GoodMotion, SoundlyDecided, PassedStates, UndecidedStates

(* The tally decides as the ballots say. *)
LEMMA CloseVoteGood ==
    ASSUME NEW m, GoodMotion(m), m.state = "voting"
    PROVE  GoodMotion(CloseVoteOf(m))
<1> DEFINE closed == [m EXCEPT !.voteClosed = m.deadline]
<1>1. /\ m \in Motion /\ m.deadline \in Nat /\ m.mover \in Members
      /\ Objectors(m) # {}
  BY DEF GoodMotion, Active, ActiveStates, SoundlyDecided
<1>2. m.deadline \in Time /\ m.deadline # Never
  BY <1>1 DEF Time, Never
<1>3. closed \in Motion
  BY <1>1, <1>2 DEF Motion
<1>4. /\ closed.voteClosed = m.deadline /\ closed.mover = m.mover
      /\ closed.consents = m.consents /\ closed.ballots = m.ballots
      /\ closed.eligible = m.eligible
  BY <1>1 DEF Motion
<1>5. Objectors(closed) = Objectors(m) /\ (Carried(closed) <=> Carried(m))
  BY <1>4 DEF Objectors, Carried, QuorumMet, Ballots
<1>6. CASE Carried(m)
  <2>1. CloseVoteOf(m) = PassAt(closed, m.deadline)
    BY <1>6 DEF CloseVoteOf
  <2> DEFINE won == PassAt(closed, m.deadline)
  <2>2. /\ won \in Motion /\ won.state = "passed"
        /\ won.mover = m.mover /\ won.voteClosed = m.deadline
        /\ Objectors(won) = Objectors(m) /\ (Carried(won) <=> Carried(m))
    <3> HIDE DEF closed
    <3>1. QED
      BY <1>2, <1>3, <1>4, <1>5, PassFacts
  <2> HIDE DEF won
  <2>3. GoodMotion(won)
    BY <1>1, <1>2, <1>6, <2>2
    DEF GoodMotion, Active, ActiveStates, SoundlyDecided, PassedStates,
        UndecidedStates
  <2>4. QED
    BY <2>1, <2>3 DEF won
<1>7. CASE ~Carried(m)
  <2> DEFINE lost == [closed EXCEPT !.state = "failed", !.deadline = Never,
                                    !.decided = m.deadline]
  <2>1. CloseVoteOf(m) = lost
    BY <1>7 DEF CloseVoteOf
  <2>2. lost \in Motion
    BY <1>2, <1>3 DEF Motion, States, ActiveStates, Time
  <2>3. /\ lost.state = "failed" /\ lost.mover = m.mover
        /\ lost.voteClosed = m.deadline /\ lost.consents = m.consents
        /\ lost.ballots = m.ballots /\ lost.eligible = m.eligible
    BY <1>3, <1>4 DEF Motion
  <2>4. Objectors(lost) = Objectors(m) /\ (Carried(lost) <=> Carried(m))
    BY <2>3 DEF Objectors, Carried, QuorumMet, Ballots
  <2>5. QED
    BY <1>1, <1>2, <1>7, <2>1, <2>2, <2>3, <2>4
    DEF GoodMotion, Active, ActiveStates, SoundlyDecided, PassedStates,
        UndecidedStates
<1>8. QED
  BY <1>6, <1>7

LEMMA TallyGood ==
    ASSUME NEW m, GoodMotion(m), NEW now
    PROVE  GoodMotion(TallyOf(m, now))
BY CloseVoteGood DEF TallyOf

(* Whatever is due, applying it keeps a motion good. *)
LEMMA AdvanceGood ==
    ASSUME NEW m, GoodMotion(m), NEW now \in Nat, NEW kind \in Kinds
    PROVE  GoodMotion(Advance(m, now, kind))
<1>1. CASE m.state = "submitted" /\ Overdue(m, now)
  BY <1>1, LapseGood DEF Advance
<1>2. CASE m.state = "debate" /\ Overdue(m, now)
  <2>1. Advance(m, now, kind) = EndDebateOf(m, now, kind)
    BY <1>2 DEF Advance
  <2>2. CASE Objectors(m) = {}
    <3> DEFINE ended == [m EXCEPT !.debateEnded = m.deadline]
    <3>1. m \in Motion /\ m.deadline \in Time
      BY DEF GoodMotion, Motion
    <3>2. ended \in Motion
      BY <3>1 DEF Motion
    <3>3. /\ ended.state = "debate" /\ ended.mover = m.mover
          /\ ended.deadline = m.deadline /\ ended.voteClosed = m.voteClosed
          /\ ended.consents = m.consents
      BY <1>2, <3>1 DEF Motion
    <3>4. Objectors(ended) = {}
      BY <2>2, <3>3 DEF Objectors
    <3>5. GoodMotion(ended)
      BY <1>2, <3>2, <3>3, <3>4 DEF GoodMotion, Active, ActiveStates,
         SoundlyDecided, PassedStates, UndecidedStates
    <3>6. QED
      BY <2>1, <2>2, <3>1, <3>3, <3>4, <3>5, PassGood DEF EndDebateOf
  <2>3. CASE Objectors(m) # {}
    BY <1>2, <2>1, <2>3, OpenVoteGood, TallyGood DEF EndDebateOf
  <2>4. QED
    BY <2>2, <2>3
<1>3. CASE m.state = "debate" /\ ~Overdue(m, now) /\ Unanimous(m)
  BY <1>3, PassGood DEF Advance, Unanimous, Time
<1>4. CASE /\ ~(m.state = "submitted" /\ Overdue(m, now))
           /\ ~(m.state = "debate" /\ Overdue(m, now))
           /\ ~(m.state = "debate" /\ ~Overdue(m, now) /\ Unanimous(m))
  BY <1>4, TallyGood DEF Advance
<1>5. QED
  BY <1>1, <1>2, <1>3, <1>4

-----------------------------------------------------------------------------
(* A change that leaves what everyone said, and the decision, as they were *)
(* keeps a motion good.                                                    *)
LEMMA SameWordGood ==
    ASSUME NEW m, GoodMotion(m), NEW n \in Motion,
           n.mover = m.mover, n.voteClosed = m.voteClosed,
           n.consents = m.consents, n.ballots = m.ballots,
           n.eligible = m.eligible,
           n.state = m.state \/ {m.state, n.state} \subseteq PassedStates,
           Active(n) => n.deadline \in Nat
    PROVE  GoodMotion(n)
<1>1. Objectors(n) = Objectors(m) /\ (Carried(n) <=> Carried(m))
  BY DEF Objectors, Carried, QuorumMet, Ballots
<1>2. QED
  BY <1>1 DEF GoodMotion, Active, ActiveStates, SoundlyDecided, PassedStates,
              UndecidedStates

(* A pause ending keeps a motion good. *)
LEMMA ResumedGood ==
    ASSUME NEW m, GoodMotion(m), NEW now \in Nat, closedSince \in Nat
    PROVE  GoodMotion(Resumed(m, now))
<1>1. CASE Active(m) /\ m.deadline > closedSince
  <2> DEFINE n == [m EXCEPT !.deadline = @ + ClosedFor(now)]
  <2>1. m \in Motion /\ m.deadline \in Nat
    BY <1>1 DEF GoodMotion
  <2>2. ClosedFor(now) \in Nat
    BY DEF ClosedFor
  <2>3. m.deadline + ClosedFor(now) \in Nat
    BY <2>1, <2>2
  <2>4. m.deadline + ClosedFor(now) \in Time
    BY <2>3 DEF Time
  <2>5. n \in Motion
    BY <2>1, <2>4 DEF Motion
  <2>6. /\ n.state = m.state /\ n.mover = m.mover /\ n.voteClosed = m.voteClosed
        /\ n.consents = m.consents /\ n.ballots = m.ballots
        /\ n.eligible = m.eligible /\ n.deadline \in Nat
    BY <2>1, <2>3 DEF Motion
  <2> HIDE DEF n
  <2>7. GoodMotion(n)
    BY <2>5, <2>6, SameWordGood
  <2>8. QED
    BY <1>1, <2>7 DEF Resumed, n
<1>2. CASE ~(Active(m) /\ m.deadline > closedSince)
  BY <1>2 DEF Resumed
<1>3. QED
  BY <1>1, <1>2

LEMMA SyncedGood ==
    ASSUME GoodFloor, NEW now \in Nat
    PROVE  GoodMotions(Synced(now))
<1>1. CASE canAct /\ closedSince # Never
  <2>1. closedSince \in Nat
    BY <1>1 DEF GoodFloor, Time
  <2>2. \A p \in Ids : GoodMotion(Resumed(motions[p], now))
    BY <2>1, ResumedGood DEF GoodFloor, GoodMotions
  <2>3. QED
    BY <1>1, <2>2 DEF Synced, GoodMotions, GoodMotion
<1>2. CASE ~(canAct /\ closedSince # Never)
  BY <1>2 DEF Synced, GoodFloor
<1>3. QED
  BY <1>1, <1>2

(* A floor is good after its due steps, whichever motions they are applied *)
(* to.                                                                     *)
LEMMA AppliedGood ==
    ASSUME GoodFloor, NEW S, NEW now \in Nat
    PROVE  GoodMotions(Applied(S, now))
<1>1. GoodMotions(Synced(now))
  BY SyncedGood
<1>2. timers \in Kinds
  BY DEF GoodFloor
<1>3. \A p \in Ids : GoodMotion(Applied(S, now)[p])
  <2> TAKE p \in Ids
  <2>1. GoodMotion(Synced(now)[p])
    BY <1>1 DEF GoodMotions
  <2>2. GoodMotion(Advance(Synced(now)[p], now, timers))
    BY <1>2, <2>1, AdvanceGood
  <2>3. QED
    BY <2>1, <2>2 DEF Applied
<1>4. QED
  BY <1>3 DEF Applied, GoodMotions, GoodMotion

LEMMA CurrentGood ==
    ASSUME GoodFloor, NEW p \in Ids, NEW now \in Nat
    PROVE  GoodMotion(Current(p, now))
BY AppliedGood DEF Current, GoodMotions

LEMMA SyncFloorTime ==
    ASSUME GoodFloor, NEW now \in Nat, SyncFloor(now)
    PROVE  closedSince' \in Time
BY DEF GoodFloor, SyncFloor, Time, Never

LEMMA WindowTimes ==
    ASSUME NEW c \in Nat
    PROVE  Window(c) \subseteq Nat
BY DEF Window

(* Replacing motions by good ones is all a write has to answer for. *)
LEMMA MotionsStep ==
    ASSUME GoodFloor, GoodMotions(motions'), closedSince' \in Time,
           timers' \in Kinds, merged' \subseteq Ids,
           sweep' \in [Sweepers -> Time],
           UNCHANGED <<clock, canAct, admit>>
    PROVE  GoodFloor'
BY DEF GoodFloor, GoodMotions

LEMMA WriteGood ==
    ASSUME GoodFloor, NEW p \in Ids, NEW now \in Nat,
           NEW m, GoodMotion(m), Write(p, now, m)
    PROVE  GoodFloor'
<1>1. GoodMotions(Applied({p}, now))
  BY AppliedGood
<1>2. motions' = [Applied({p}, now) EXCEPT ![p] = m] /\ m \in Motion
  BY DEF Write, GoodMotion
<1>3. GoodMotions(motions')
  BY <1>1, <1>2 DEF GoodMotions
<1>4. closedSince' \in Time
  BY SyncFloorTime DEF Write
<1>5. QED
  BY <1>3, <1>4, MotionsStep DEF Write, GoodFloor

-----------------------------------------------------------------------------
(* Each kind of step keeps the floor good. *)

LEMMA MoveGood ==
    ASSUME GoodFloor, NEW x \in Members, NEW p \in Ids, NEW now \in Nat,
           Move(x, p, now)
    PROVE  GoodFloor'
<1> DEFINE mine == {q \in Ids : motions[q].mover = x /\ Active(motions[q])}
           n == NewMotion(x, now)
<1>1. GoodMotions(Applied(mine, now))
  BY AppliedGood
<1>2. timers \in Kinds /\ Timers[timers]["lapse"] \in Nat
  BY TimersPositive DEF GoodFloor, Periods
<1>3. now + Timers[timers]["lapse"] \in Nat
  BY <1>2
<1>4. now + Timers[timers]["lapse"] \in Time
  BY <1>3 DEF Time
<1>5. NoMotion \in Motion
  BY NoMotionGood DEF GoodMotion
<1>6. n \in Motion
  BY <1>2, <1>4, <1>5 DEF NewMotion, Motion, States, ActiveStates
<1>7. /\ n.state = "submitted" /\ n.mover = x /\ n.voteClosed = Never
      /\ n.deadline \in Nat
  BY <1>3 DEF NewMotion, NoMotion
<1> HIDE DEF n
<1>8. GoodMotion(n)
  BY <1>6, <1>7 DEF GoodMotion, Active, ActiveStates, SoundlyDecided,
     PassedStates, UndecidedStates
<1>9. motions' = [Applied(mine, now) EXCEPT ![p] = n] /\ n \in Motion
  BY <1>6 DEF Move, n
<1>10. GoodMotions(motions')
  BY <1>1, <1>8, <1>9 DEF GoodMotions
<1>11. closedSince' \in Time
  BY SyncFloorTime DEF Move
<1>12. QED
  BY <1>10, <1>11, MotionsStep DEF Move, GoodFloor

LEMMA EditGood ==
    ASSUME GoodFloor, NEW x \in Members, NEW p \in Ids, NEW now \in Nat,
           Edit(x, p, now)
    PROVE  GoodFloor'
<1> DEFINE m == Current(p, now)
           n == [m EXCEPT !.revision = @ + 1]
<1>1. GoodMotion(m) /\ m \in Motion
  BY CurrentGood DEF GoodMotion
<1>2. m.revision + 1 \in Nat
  BY <1>1 DEF Motion
<1>3. n \in Motion
  BY <1>1, <1>2 DEF Motion
<1>4. /\ n.state = m.state /\ n.mover = m.mover /\ n.voteClosed = m.voteClosed
      /\ n.consents = m.consents /\ n.ballots = m.ballots
      /\ n.eligible = m.eligible /\ n.deadline = m.deadline
  BY <1>1 DEF Motion
<1>5. Write(p, now, n)
  BY DEF Edit
<1> HIDE DEF m, n
<1>6. GoodMotion(n)
  BY <1>1, <1>3, <1>4, SameWordGood DEF GoodMotion, Active
<1>7. QED
  BY <1>5, <1>6, WriteGood

LEMMA WithdrawGood ==
    ASSUME GoodFloor, NEW x \in Members, NEW p \in Ids, NEW now \in Nat,
           Withdraw(x, p, now)
    PROVE  GoodFloor'
<1> DEFINE m == Current(p, now)
           n == [m EXCEPT !.state = "withdrawn", !.deadline = Never,
                          !.decided = now]
<1>1. GoodMotion(m) /\ m \in Motion
  BY CurrentGood DEF GoodMotion
<1>2. n \in Motion
  BY <1>1 DEF Motion, States, Time
<1>3. n.state = "withdrawn" /\ n.mover = m.mover
  BY <1>1 DEF Motion
<1>4. Active(m) /\ Write(p, now, n)
  BY DEF Withdraw
<1> HIDE DEF m, n
<1>5. GoodMotion(n)
  BY <1>1, <1>2, <1>3, <1>4 DEF GoodMotion, Active, ActiveStates,
     SoundlyDecided, PassedStates, UndecidedStates
<1>6. QED
  BY <1>4, <1>5, WriteGood

LEMMA SecondGood ==
    ASSUME GoodFloor, NEW x \in Members, NEW p \in Ids, NEW now \in Nat,
           NEW page \in Nat, NEW recent \in SUBSET Members,
           Second(x, p, page, recent, now)
    PROVE  GoodFloor'
<1> DEFINE m == Current(p, now)
           n == SecondedBy(m, x, page, recent, now)
<1>1. GoodMotion(m) /\ m.state = "submitted" /\ Write(p, now, n)
  BY CurrentGood DEF Second
<1> HIDE DEF m
<1>2. m \in Motion /\ m.mover \in Members /\ m.voteClosed = Never
  BY <1>1 DEF GoodMotion, ActiveStates, UndecidedStates
<1>3. timers \in Kinds /\ now + Timers[timers]["debate"] \in Nat
  BY TimersPositive DEF GoodFloor, Periods
<1>4. /\ recent \cup {m.mover, x} \in SUBSET Members
      /\ now \in Time /\ now + Timers[timers]["debate"] \in Time
      /\ "debate" \in States
  BY <1>2, <1>3 DEF Time, States, ActiveStates
<1>5. [m.consents EXCEPT ![m.mover] = "consented"]
          \in [Members -> {"none", "consented", "objected"}]
  BY <1>2 DEF Motion
<1>6. n \in Motion
  BY <1>2, <1>3, <1>4, <1>5 DEF SecondedBy, Motion
<1>7. /\ n.state = "debate" /\ n.mover = m.mover /\ n.voteClosed = Never
      /\ n.deadline \in Nat
  BY <1>2, <1>3 DEF SecondedBy, Motion
<1> HIDE DEF n
<1>8. GoodMotion(n)
  BY <1>2, <1>6, <1>7 DEF GoodMotion, Active, ActiveStates, SoundlyDecided,
     PassedStates, UndecidedStates
<1>9. QED
  BY <1>1, <1>8, WriteGood

LEMMA ConsentGood ==
    ASSUME GoodFloor, NEW x \in Members, NEW p \in Ids, NEW now \in Nat,
           NEW choice \in {"consented", "objected"},
           Consent(x, p, choice, now)
    PROVE  GoodFloor'
<1> DEFINE m == Current(p, now)
           said == [m EXCEPT !.consents = [@ EXCEPT ![x] = choice]]
           n == IF canAct THEN Advance(said, now, timers) ELSE said
<1>1. GoodMotion(m) /\ m.state = "debate" /\ Write(p, now, n)
  BY CurrentGood DEF Consent
<1>2. m \in Motion /\ m.mover \in Members /\ m.deadline \in Nat
      /\ m.voteClosed = Never
  BY <1>1 DEF GoodMotion, Active, ActiveStates, UndecidedStates
<1>3. [m.consents EXCEPT ![x] = choice]
          \in [Members -> {"none", "consented", "objected"}]
  BY <1>2 DEF Motion
<1>4. said \in Motion
  BY <1>2, <1>3 DEF Motion
<1>5. /\ said.state = "debate" /\ said.mover = m.mover
      /\ said.deadline = m.deadline /\ said.voteClosed = Never
  BY <1>1, <1>2 DEF Motion
<1> HIDE DEF m, said
<1>6. GoodMotion(said)
  BY <1>2, <1>4, <1>5 DEF GoodMotion, Active, ActiveStates, SoundlyDecided,
     PassedStates, UndecidedStates
<1>7. GoodMotion(n)
  BY <1>6, AdvanceGood DEF GoodFloor
<1>8. QED
  BY <1>1, <1>7, WriteGood

(* A ballot is only cast before the vote closes, so it cannot unmake one.  *)
LEMMA VoteGood ==
    ASSUME GoodFloor, NEW x \in Members, NEW p \in Ids, NEW now \in Nat,
           NEW choice \in {"yes", "no", "abstain"},
           Vote(x, p, choice, now)
    PROVE  GoodFloor'
<1> DEFINE m == Current(p, now)
           n == [m EXCEPT !.ballots = [@ EXCEPT ![x] = choice]]
<1>1. GoodMotion(m) /\ m.state = "voting" /\ Write(p, now, n)
  BY CurrentGood DEF Vote
<1>2. m \in Motion /\ m.mover \in Members /\ m.deadline \in Nat
      /\ m.voteClosed = Never /\ Objectors(m) # {}
  BY <1>1 DEF GoodMotion, Active, ActiveStates, UndecidedStates, SoundlyDecided
<1>3. [m.ballots EXCEPT ![x] = choice]
          \in [Members -> {"none", "yes", "no", "abstain"}]
  BY <1>2 DEF Motion
<1>4. n \in Motion
  BY <1>2, <1>3 DEF Motion
<1>5. /\ n.state = "voting" /\ n.mover = m.mover /\ n.deadline = m.deadline
      /\ n.voteClosed = Never /\ n.consents = m.consents
  BY <1>1, <1>2 DEF Motion
<1> HIDE DEF m, n
<1>6. Objectors(n) # {}
  BY <1>2, <1>5 DEF Objectors
<1>7. GoodMotion(n)
  BY <1>2, <1>4, <1>5, <1>6 DEF GoodMotion, Active, ActiveStates,
     SoundlyDecided, PassedStates, UndecidedStates
<1>8. QED
  BY <1>1, <1>7, WriteGood

(* A task that ships moves on from building, which changes no decision. *)
LEMMA ShipGood ==
    ASSUME NEW m, GoodMotion(m), m.state = "building"
    PROVE  GoodMotion(ShipOf(m))
<1>1. m \in Motion
  BY DEF GoodMotion
<1>2. ShipOf(m) \in Motion
  BY <1>1 DEF ShipOf, Motion, States
<1>3. /\ ShipOf(m).state = "shipped" /\ ShipOf(m).mover = m.mover
      /\ ShipOf(m).voteClosed = m.voteClosed
      /\ ShipOf(m).consents = m.consents /\ ShipOf(m).ballots = m.ballots
      /\ ShipOf(m).eligible = m.eligible
  BY <1>1 DEF ShipOf, Motion
<1>4. ~Active(ShipOf(m)) /\ {m.state, ShipOf(m).state} \subseteq PassedStates
  BY <1>3 DEF Active, ActiveStates, PassedStates
<1>5. QED
  BY <1>2, <1>3, <1>4, SameWordGood

LEMMA SetTestTimersGood ==
    ASSUME GoodFloor, NEW now \in Nat, SetTestTimers(now)
    PROVE  GoodFloor'
<1> DEFINE due == {p \in Ids : Active(motions[p]) /\ Overdue(Synced(now)[p], now)}
           floor == Applied(due, now)
           ships(p) == canAct /\ p \in merged /\ floor[p].state = "building"
<1>1. GoodMotions(floor)
  BY AppliedGood
<1>2. motions' = [p \in Ids |-> IF ships(p) THEN ShipOf(floor[p]) ELSE floor[p]]
  BY DEF SetTestTimers
<1> HIDE DEF floor
<1>3. \A p \in Ids : GoodMotion(motions'[p])
  BY <1>1, <1>2, ShipGood DEF GoodMotions
<1>4. GoodMotions(motions')
  BY <1>2, <1>3 DEF GoodMotions, GoodMotion
<1>5. closedSince' \in Time /\ timers' \in Kinds
  BY SyncFloorTime DEF SetTestTimers, Kinds
<1>6. QED
  BY <1>4, <1>5, MotionsStep DEF SetTestTimers, GoodFloor

(* Both buttons bring the deadline to now and let the rules decide. *)
LEMMA DueNowGood ==
    ASSUME NEW m, GoodMotion(m), NEW now \in Nat,
           NEW period \in {"debate", "vote"}
    PROVE  GoodMotion([m EXCEPT !.deadline = now, !.cut = @ \cup {period}])
<1> DEFINE n == [m EXCEPT !.deadline = now, !.cut = @ \cup {period}]
<1>1. m \in Motion /\ now \in Time
  BY DEF GoodMotion, Time
<1>2. m.cut \cup {period} \in SUBSET {"debate", "vote"}
  BY <1>1 DEF Motion
<1>3. n \in Motion
  BY <1>1, <1>2 DEF Motion
<1>4. /\ n.state = m.state /\ n.mover = m.mover /\ n.voteClosed = m.voteClosed
      /\ n.consents = m.consents /\ n.ballots = m.ballots
      /\ n.eligible = m.eligible /\ n.deadline = now
  BY <1>1 DEF Motion
<1> HIDE DEF n
<1>5. GoodMotion(n)
  BY <1>3, <1>4, SameWordGood
<1>6. QED
  BY <1>5 DEF n

LEMMA AdminWriteGood ==
    ASSUME GoodFloor, NEW p \in Ids, NEW now \in Nat, AdminWrite(p, now)
    PROVE  GoodFloor'
<1> DEFINE m == Current(p, now)
<1>1. GoodMotion(m) /\ m \in Motion /\ timers \in Kinds
  BY CurrentGood DEF GoodMotion, GoodFloor
<1>2. CASE EndDebate(p, now)
  <2> DEFINE n == Advance([m EXCEPT !.deadline = now, !.cut = @ \cup {"debate"}],
                          now, timers)
  <2>1. Write(p, now, n)
    BY <1>2 DEF EndDebate
  <2>2. GoodMotion(n)
    BY <1>1, DueNowGood, AdvanceGood
  <2> HIDE DEF n
  <2>3. QED
    BY <2>1, <2>2, WriteGood
<1>3. CASE CloseVote(p, now)
  <2> DEFINE n == Advance([m EXCEPT !.deadline = now, !.cut = @ \cup {"vote"}],
                          now, timers)
  <2>1. Write(p, now, n)
    BY <1>3 DEF CloseVote
  <2>2. GoodMotion(n)
    BY <1>1, DueNowGood, AdvanceGood
  <2> HIDE DEF n
  <2>3. QED
    BY <2>1, <2>2, WriteGood
<1>4. CASE PutDraft(p, now)
  <2> DEFINE n == [m EXCEPT !.draft = "saved"]
  <2>1. Write(p, now, n) /\ m.state = "passed"
    BY <1>4 DEF PutDraft
  <2>2. n \in Motion
    BY <1>1 DEF Motion
  <2>3. /\ n.state = m.state /\ n.mover = m.mover /\ n.voteClosed = m.voteClosed
        /\ n.consents = m.consents /\ n.ballots = m.ballots
        /\ n.eligible = m.eligible
    BY <1>1 DEF Motion
  <2> HIDE DEF m, n
  <2>4. GoodMotion(n)
    BY <1>1, <2>1, <2>2, <2>3, SameWordGood DEF Active, ActiveStates
  <2>5. QED
    BY <2>1, <2>4, WriteGood
<1>5. CASE Publish(p, now)
  <2> DEFINE n == [m EXCEPT !.state = "building"]
  <2>1. Write(p, now, n) /\ m.state = "passed"
    BY <1>5 DEF Publish
  <2>2. n \in Motion
    BY <1>1 DEF Motion, States
  <2>3. /\ n.state = "building" /\ n.mover = m.mover /\ n.voteClosed = m.voteClosed
        /\ n.consents = m.consents /\ n.ballots = m.ballots
        /\ n.eligible = m.eligible
    BY <1>1 DEF Motion
  <2> HIDE DEF m, n
  <2>4. ~Active(n) /\ {m.state, n.state} \subseteq PassedStates
    BY <2>1, <2>3 DEF Active, ActiveStates, PassedStates
  <2>5. GoodMotion(n)
    BY <1>1, <2>2, <2>3, <2>4, SameWordGood
  <2>6. QED
    BY <2>1, <2>5, WriteGood
<1>6. QED
  BY <1>2, <1>3, <1>4, <1>5 DEF AdminWrite

LEMMA MemberWriteGood ==
    ASSUME GoodFloor, NEW x \in Members, NEW p \in Ids, NEW now \in Nat,
           MemberWrite(x, p, now)
    PROVE  GoodFloor'
<1>1. ASSUME NEW page \in 1 .. MaxEdits + 1, NEW recent \in SUBSET Members,
             Second(x, p, page, recent, now)
      PROVE  GoodFloor'
  <2>1. page \in Nat
    BY FloorAssumption
  <2>2. QED
    BY <1>1, <2>1, SecondGood
<1>2. QED
  BY <1>1, MoveGood, EditGood, WithdrawGood, ConsentGood, VoteGood
  DEF MemberWrite

LEMMA HouseSpecGood ==
    ASSUME GoodFloor, NEW p \in Ids, ApplyHouseSpec(p)
    PROVE  GoodFloor'
<1> DEFINE m == motions[p]
           n == [m EXCEPT !.draft = "house"]
<1>1. GoodMotion(m) /\ m \in Motion /\ m.state = "passed"
  BY DEF GoodFloor, GoodMotions, GoodMotion, ApplyHouseSpec
<1>2. motions' = [motions EXCEPT ![p] = n]
  BY DEF ApplyHouseSpec
<1>3. n \in Motion
  BY <1>1 DEF Motion
<1>4. /\ n.state = m.state /\ n.mover = m.mover /\ n.voteClosed = m.voteClosed
      /\ n.consents = m.consents /\ n.ballots = m.ballots
      /\ n.eligible = m.eligible
  BY <1>1 DEF Motion
<1> HIDE DEF m, n
<1>5. GoodMotion(n)
  BY <1>1, <1>3, <1>4, SameWordGood DEF Active, ActiveStates
<1>6. GoodMotions(motions')
  BY <1>2, <1>3, <1>5 DEF GoodFloor, GoodMotions
<1>7. QED
  BY <1>6, MotionsStep DEF ApplyHouseSpec, GoodFloor

LEMMA MergeGood ==
    ASSUME GoodFloor, NEW p \in Ids, Merge(p)
    PROVE  GoodFloor'
<1>1. GoodMotion(ShipOf(motions[p])) /\ ShipOf(motions[p]) \in Motion
  BY ShipGood DEF GoodFloor, GoodMotions, GoodMotion, Merge
<1>2. GoodMotions(motions')
  BY <1>1 DEF GoodFloor, GoodMotions, Merge
<1>3. QED
  BY <1>2, MotionsStep DEF Merge, GoodFloor

LEMMA SweepingGood ==
    ASSUME GoodFloor, NEW s \in Sweepers, Sweeping(s)
    PROVE  GoodFloor'
<1>1. ASSUME NEW now \in Window(clock), BeginSweep(s, now)
      PROVE  GoodFloor'
  <2>1. now \in Nat /\ now \in Time
    BY WindowTimes DEF GoodFloor, Time
  <2>2. GoodMotions(motions') /\ closedSince' \in Time
    BY <1>1, <2>1, SyncedGood, SyncFloorTime DEF BeginSweep
  <2>3. sweep' \in [Sweepers -> Time]
    BY <1>1, <2>1 DEF BeginSweep, GoodFloor, Time
  <2>4. QED
    BY <1>1, <2>2, <2>3, MotionsStep DEF BeginSweep, GoodFloor
<1>2. ASSUME NEW p \in Ids, SweepApply(s, p)
      PROVE  GoodFloor'
  <2> DEFINE after == Advance(motions[p], sweep[s], timers)
  <2>1. sweep[s] \in Nat /\ timers \in Kinds /\ GoodMotion(motions[p])
    BY <1>2 DEF SweepApply, GoodFloor, GoodMotions, Time
  <2>2. GoodMotion(after) /\ after \in Motion
    BY <2>1, AdvanceGood DEF GoodMotion
  <2>3. motions' = [motions EXCEPT ![p] = after]
    BY <1>2 DEF SweepApply
  <2> HIDE DEF after
  <2>4. GoodMotions(motions')
    BY <2>2, <2>3 DEF GoodFloor, GoodMotions
  <2>5. QED
    BY <1>2, <2>4, MotionsStep DEF SweepApply, GoodFloor
<1>3. ASSUME NEW p \in Ids, SweepShip(s, p)
      PROVE  GoodFloor'
  <2>1. GoodMotion(ShipOf(motions[p])) /\ ShipOf(motions[p]) \in Motion
    BY <1>3, ShipGood DEF GoodFloor, GoodMotions, GoodMotion, SweepShip
  <2>2. GoodMotions(motions')
    BY <1>3, <2>1 DEF GoodFloor, GoodMotions, SweepShip
  <2>3. QED
    BY <1>3, <2>2, MotionsStep DEF SweepShip, GoodFloor
<1>4. CASE EndSweep(s)
  BY <1>4, MotionsStep DEF EndSweep, GoodFloor, Time
<1>5. QED
  BY <1>1, <1>2, <1>3, <1>4 DEF Sweeping

-----------------------------------------------------------------------------
LEMMA InitGood == Init => GoodFloor
<1> SUFFICES ASSUME Init PROVE GoodFloor
  OBVIOUS
<1>1. GoodMotions(motions)
  BY NoMotionGood DEF Init, GoodMotions, GoodMotion
<1>2. admit \subseteq Nat
  BY WindowTimes DEF Init
<1>3. QED
  BY <1>1, <1>2 DEF Init, GoodFloor, Time, Kinds

(* Every step of the floor keeps it good. *)
LEMMA NextGood == GoodFloor /\ [Next]_vars => GoodFloor'
<1> SUFFICES ASSUME GoodFloor, [Next]_vars PROVE GoodFloor'
  OBVIOUS
<1>1. \A now \in admit : now \in Nat
  BY DEF GoodFloor
<1>2. CASE Tick
  <2>1. clock + 1 \in Nat /\ Window(clock + 1) \subseteq Nat
    BY WindowTimes DEF GoodFloor
  <2>2. clock' \in Nat /\ admit' \subseteq Nat
    BY <1>2, <2>1 DEF Tick, GoodFloor
  <2>3. QED
    BY <1>2, <2>2 DEF Tick, GoodFloor, GoodMotions
<1>3. CASE FlagsOff
  BY <1>3 DEF FlagsOff, GoodFloor, GoodMotions
<1>4. CASE FlagsOn
  BY <1>4, WindowTimes DEF FlagsOn, GoodFloor, GoodMotions
<1>5. CASE \E now \in admit : SetTestTimers(now)
  BY <1>1, <1>5, SetTestTimersGood
<1>6. CASE \E p \in Ids, now \in admit : AdminWrite(p, now)
  BY <1>1, <1>6, AdminWriteGood
<1>7. CASE \E x \in Members, p \in Ids, now \in admit : MemberWrite(x, p, now)
  BY <1>1, <1>7, MemberWriteGood
<1>8. CASE \E p \in Ids : ApplyHouseSpec(p) \/ Merge(p)
  BY <1>8, HouseSpecGood, MergeGood
<1>9. CASE \E s \in Sweepers : Sweeping(s)
  BY <1>9, SweepingGood
<1>10. CASE UNCHANGED vars
  BY <1>10 DEF vars, GoodFloor, GoodMotions
<1>11. QED
  BY <1>2, <1>3, <1>4, <1>5, <1>6, <1>7, <1>8, <1>9, <1>10 DEF Next

LEMMA AlwaysGood == Spec => []GoodFloor
BY InitGood, NextGood, PTL DEF Spec

(* Every variable of the floor keeps its type: in particular a deadline is *)
(* never moved to a time that is not one, however late the requests that   *)
(* record a pause, and only members ever enter a frozen electorate.        *)
THEOREM FloorTypes == Spec => []TypeOK
<1>1. GoodFloor => TypeOK
  BY DEF GoodFloor, GoodMotions, TypeOK
<1>2. QED
  BY <1>1, AlwaysGood, PTL

(* A proposal is only ever passed with no objection, or by a carried vote  *)
(* after one, and only failed by a vote that was not carried: for every    *)
(* set of members, however writes, late requests, sweeps, pauses, timers   *)
(* and admin buttons interleave.                                           *)
THEOREM DecisionsSound == Spec => []DecisionSound
<1>1. GoodFloor => DecisionSound
  BY DEF GoodFloor, GoodMotions, GoodMotion, DecisionSound
<1>2. QED
  BY <1>1, AlwaysGood, PTL

-----------------------------------------------------------------------------
(* What one step may do to a motion.  The theorems about single motions    *)
(* below follow from these cases and from nothing else of the actions.     *)

(* Nobody said anything, and the text is the same.                         *)
Kept(m, n) ==
    /\ n.mover = m.mover /\ n.seconder = m.seconder
    /\ n.eligible = m.eligible /\ n.consents = m.consents
    /\ n.ballots = m.ballots
    /\ n.agreed = m.agreed /\ n.revision = m.revision

(* The steps due: none, or a lapse, or the end of a debate or of a vote    *)
(* (or of both).                                                           *)
Still(m, n) == n.state = m.state /\ n.draft = m.draft /\ n.decided = m.decided

Decides(m, n) ==
    \/ m.state = "submitted" /\ n.state = "lapsed" /\ n.draft = m.draft
    \/ m.state = "debate" /\ Objectors(m) = {} /\ n.state = "passed" /\ n.draft = "plain"
    \/ /\ m.state \in {"debate", "voting"} /\ Objectors(m) # {}
       /\ \/ n.state = "passed" /\ n.draft = "plain"
          \/ n.state = "failed" /\ n.draft = m.draft

OpensVote(m, n) ==
    /\ m.state = "debate" /\ Objectors(m) # {} /\ n.state = "voting"
    /\ n.draft = m.draft /\ n.decided = m.decided

Due(m, n) == Kept(m, n) /\ (Still(m, n) \/ Decides(m, n) \/ OpensVote(m, n))

Moved(m, n) ==
    /\ m.state = "none" /\ n.state = "submitted"
    /\ n.mover \in Members /\ n.seconder = NoOne
    /\ n.consents = NoMotion.consents /\ n.ballots = NoMotion.ballots
    /\ n.draft = "none" /\ n.decided = Never

Edited(m, n) ==
    /\ m.state = "submitted" /\ Still(m, n)
    /\ n.mover = m.mover /\ n.seconder = m.seconder
    /\ n.eligible = m.eligible /\ n.consents = m.consents
    /\ n.ballots = m.ballots

Withdrawn(m, n) ==
    /\ Active(m) /\ n.state = "withdrawn" /\ Kept(m, n) /\ n.draft = m.draft

Seconded(m, n) ==
    /\ m.state = "submitted" /\ n.state = "debate"
    /\ n.draft = m.draft /\ n.decided = m.decided
    /\ n.mover = m.mover /\ n.seconder \in Members \ {n.mover}
    /\ {n.seconder, n.mover} \subseteq n.eligible
    /\ n.agreed = n.revision
    /\ n.consents = [m.consents EXCEPT ![m.mover] = "consented"]
    /\ n.ballots = m.ballots

(* x speaks once; the last consent may pass the motion there and then. *)
Spoke(m, n, x) ==
    /\ m.state = "debate" /\ x \in m.eligible /\ m.consents[x] = "none"
    /\ n.mover = m.mover /\ n.seconder = m.seconder
    /\ n.eligible = m.eligible /\ n.ballots = m.ballots
    /\ n.agreed = m.agreed /\ n.revision = m.revision
    /\ \/ n.consents = [m.consents EXCEPT ![x] = "objected"] /\ Still(m, n)
       \/ /\ n.consents = [m.consents EXCEPT ![x] = "consented"]
          /\ Still(m, n) \/ (Objectors(m) = {} /\ n.state = "passed" /\ n.draft = "plain")

(* x votes, perhaps in a vote that opens in the same step. *)
Voted(m, n, x) ==
    /\ m.state \in {"debate", "voting"} /\ n.state = "voting" /\ Objectors(m) # {}
    /\ x \in m.eligible
    /\ \E choice \in {"yes", "no", "abstain"} :
           n.ballots = [m.ballots EXCEPT ![x] = choice]
    /\ n.mover = m.mover /\ n.seconder = m.seconder
    /\ n.eligible = m.eligible /\ n.consents = m.consents
    /\ n.agreed = m.agreed /\ n.revision = m.revision
    /\ n.draft = m.draft /\ n.decided = m.decided

(* An admin saves the draft of a proposal, perhaps one just passed. *)
DraftSaved(m, n) ==
    /\ Kept(m, n) /\ n.state = "passed" /\ n.draft = "saved"
    /\ \/ m.state = "passed" /\ n.decided = m.decided
       \/ m.state = "debate" /\ Objectors(m) = {}
       \/ m.state \in {"debate", "voting"} /\ Objectors(m) # {}

Filled(m, n) ==
    /\ m.state = "passed" /\ m.draft # "saved" /\ n.state = "passed"
    /\ n.draft = "house" /\ Kept(m, n) /\ n.decided = m.decided

Published(m, n) ==
    /\ m.state = "passed" /\ m.draft \in {"house", "saved"} /\ n.state = "building"
    /\ n.draft = m.draft /\ Kept(m, n) /\ n.decided = m.decided

Shipped(m, n) ==
    /\ m.state = "building" /\ n.state = "shipped"
    /\ n.draft = m.draft /\ Kept(m, n) /\ n.decided = m.decided

(* What may become of a motion that has been moved. *)
Alters(m, n) ==
    \/ Due(m, n) \/ Edited(m, n) \/ Withdrawn(m, n) \/ Seconded(m, n)
    \/ \E x \in Members : Spoke(m, n, x) \/ Voted(m, n, x)
    \/ DraftSaved(m, n) \/ Filled(m, n) \/ Published(m, n) \/ Shipped(m, n)

Change(m, n) == Moved(m, n) \/ Alters(m, n)


-----------------------------------------------------------------------------
(* The steps due are among these, however many of them. *)

LEMMA SameObjectors ==
    ASSUME NEW m, NEW n, Kept(m, n)
    PROVE  Objectors(n) = Objectors(m)
BY DEF Kept, Objectors

LEMMA StillDue ==
    ASSUME NEW m, NEW n, Kept(m, n), Still(m, n)
    PROVE  Due(m, n)
BY DEF Due

LEMMA DueThen ==
    ASSUME NEW m, NEW k, NEW n, Due(m, k), Due(k, n)
    PROVE  Due(m, n)
<1>1. Kept(m, n) /\ Objectors(k) = Objectors(m)
  BY SameObjectors DEF Due, Kept
<1>2. CASE Still(m, k)
  BY <1>1, <1>2 DEF Due, Still, Decides, OpensVote
<1>3. CASE Decides(m, k)
  BY <1>1, <1>3 DEF Due, Still, Decides, OpensVote
<1>4. CASE OpensVote(m, k)
  BY <1>1, <1>4 DEF Due, Still, Decides, OpensVote
<1>5. QED
  BY <1>2, <1>3, <1>4 DEF Due

LEMMA PassDue ==
    ASSUME NEW m \in Motion, NEW at
    PROVE  /\ Kept(m, PassAt(m, at))
           /\ PassAt(m, at).state = "passed" /\ PassAt(m, at).draft = "plain"
BY DEF PassAt, Kept, Motion

LEMMA CloseVoteDue ==
    ASSUME NEW m, GoodMotion(m), m.state = "voting"
    PROVE  Due(m, CloseVoteOf(m))
<1> DEFINE closed == [m EXCEPT !.voteClosed = m.deadline]
           lost == [closed EXCEPT !.state = "failed", !.deadline = Never,
                                  !.decided = m.deadline]
<1>1. m \in Motion /\ m.deadline \in Time /\ Objectors(m) # {}
  BY DEF GoodMotion, SoundlyDecided, Motion
<1>2. closed \in Motion /\ Kept(m, closed) /\ Still(m, closed)
  BY <1>1 DEF Motion, Kept, Still
<1>3. CASE Carried(m)
  <2>1. CloseVoteOf(m) = PassAt(closed, m.deadline)
    BY <1>3 DEF CloseVoteOf
  <2> HIDE DEF closed
  <2>2. Kept(closed, PassAt(closed, m.deadline))
    BY <1>2, PassDue
  <2>3. QED
    BY <1>1, <1>2, <2>1, <2>2, PassDue DEF Due, Decides, Kept
<1>4. CASE ~Carried(m)
  <2>1. CloseVoteOf(m) = lost
    BY <1>4 DEF CloseVoteOf
  <2>2. lost.state = "failed" /\ Kept(m, lost) /\ lost.draft = m.draft
    BY <1>1 DEF Motion, Kept
  <2>3. QED
    BY <1>1, <2>1, <2>2 DEF Due, Decides
<1>5. QED
  BY <1>3, <1>4

LEMMA TallyDue ==
    ASSUME NEW m, GoodMotion(m), NEW now
    PROVE  Due(m, TallyOf(m, now))
<1>1. Kept(m, m) /\ Still(m, m)
  BY DEF Kept, Still
<1>2. QED
  BY <1>1, CloseVoteDue DEF TallyOf, Due

LEMMA EndDebateDue ==
    ASSUME NEW m, GoodMotion(m), m.state = "debate", NEW now \in Nat, NEW kind \in Kinds
    PROVE  Due(m, EndDebateOf(m, now, kind))
<1> DEFINE ended == [m EXCEPT !.debateEnded = m.deadline]
           open == OpenVoteOf(m, kind)
<1>1. m \in Motion /\ m.deadline \in Time
  BY DEF GoodMotion, Motion
<1>2. CASE Objectors(m) = {}
  <2>1. ended \in Motion /\ Kept(m, ended) /\ Still(m, ended)
    BY <1>1 DEF Motion, Kept, Still
  <2>2. EndDebateOf(m, now, kind) = PassAt(ended, m.deadline)
    BY <1>2 DEF EndDebateOf
  <2> HIDE DEF ended
  <2>3. QED
    BY <1>2, <2>1, <2>2, PassDue DEF Due, Decides, Kept
<1>3. CASE Objectors(m) # {}
  <2>1. GoodMotion(open)
    BY <1>3, OpenVoteGood
  <2>2. Kept(m, open) /\ OpensVote(m, open)
    BY <1>1, <1>3 DEF OpenVoteOf, Motion, Kept, OpensVote
  <2>3. EndDebateOf(m, now, kind) = TallyOf(open, now)
    BY <1>3 DEF EndDebateOf
  <2> HIDE DEF open
  <2>4. Due(m, open) /\ Due(open, TallyOf(open, now))
    BY <2>1, <2>2, TallyDue DEF Due
  <2>5. QED
    BY <2>3, <2>4, DueThen
<1>4. QED
  BY <1>2, <1>3

LEMMA AdvanceDue ==
    ASSUME NEW m, GoodMotion(m), NEW now \in Nat, NEW kind \in Kinds
    PROVE  Due(m, Advance(m, now, kind))
<1>1. CASE m.state = "submitted" /\ Overdue(m, now)
  <2>1. Kept(m, LapseOf(m)) /\ LapseOf(m).state = "lapsed" /\ LapseOf(m).draft = m.draft
    BY DEF GoodMotion, LapseOf, Motion, Kept
  <2>2. QED
    BY <1>1, <2>1 DEF Advance, Due, Decides
<1>2. CASE m.state = "debate" /\ Overdue(m, now)
  BY <1>2, EndDebateDue DEF Advance
<1>3. CASE m.state = "debate" /\ ~Overdue(m, now) /\ Unanimous(m)
  <2>1. Advance(m, now, kind) = PassAt(m, now)
    BY <1>3 DEF Advance
  <2>2. QED
    BY <1>3, <2>1, PassDue DEF Due, Decides, Unanimous, GoodMotion
<1>4. CASE /\ ~(m.state = "submitted" /\ Overdue(m, now))
           /\ ~(m.state = "debate" /\ Overdue(m, now))
           /\ ~(m.state = "debate" /\ ~Overdue(m, now) /\ Unanimous(m))
  BY <1>4, TallyDue DEF Advance
<1>5. QED
  BY <1>1, <1>2, <1>3, <1>4

(* A debate that goes on is not over. *)
LEMMA DebateGoesOn ==
    ASSUME NEW m, GoodMotion(m), NEW now \in Nat, NEW kind \in Kinds,
           Advance(m, now, kind).state = "debate"
    PROVE  Advance(m, now, kind) = m /\ m.state = "debate" /\ ~Overdue(m, now)
<1>1. CASE m.state = "submitted" /\ Overdue(m, now)
  BY <1>1 DEF Advance, LapseOf, GoodMotion, Motion
<1>2. CASE m.state = "debate" /\ Overdue(m, now)
  <2>1. Due(m, Advance(m, now, kind))
    BY AdvanceDue
  <2>2. Advance(m, now, kind) = EndDebateOf(m, now, kind)
    BY <1>2 DEF Advance
  <2>3. CASE Objectors(m) = {}
    <3> DEFINE ended == [m EXCEPT !.debateEnded = m.deadline]
    <3>1. ended \in Motion /\ EndDebateOf(m, now, kind) = PassAt(ended, m.deadline)
      BY <2>3 DEF EndDebateOf, GoodMotion, Motion
    <3>2. QED
      BY <2>2, <3>1, PassDue
  <2>4. CASE Objectors(m) # {}
    <3> DEFINE open == OpenVoteOf(m, kind)
    <3>1. open.state = "voting" /\ GoodMotion(open)
      BY <1>2, <2>4, OpenVoteGood
    <3>2. EndDebateOf(m, now, kind) = TallyOf(open, now)
      BY <2>4 DEF EndDebateOf
    <3> HIDE DEF open
    <3>3. Due(open, TallyOf(open, now))
      BY <3>1, TallyDue
    <3>4. QED
      BY <2>2, <3>1, <3>2, <3>3 DEF Due, Still, Decides, OpensVote
  <2>5. QED
    BY <2>3, <2>4
<1>3. CASE m.state = "debate" /\ ~Overdue(m, now) /\ Unanimous(m)
  BY <1>3, PassDue DEF Advance, GoodMotion
<1>4. CASE /\ ~(m.state = "submitted" /\ Overdue(m, now))
           /\ ~(m.state = "debate" /\ Overdue(m, now))
           /\ ~(m.state = "debate" /\ ~Overdue(m, now) /\ Unanimous(m))
  <2>1. Advance(m, now, kind) = TallyOf(m, now)
    BY <1>4 DEF Advance
  <2>2. CASE m.state = "voting"
    BY <2>1, <2>2, TallyDue DEF Due, Still, Decides, OpensVote
  <2>3. CASE m.state # "voting"
    BY <1>4, <2>1, <2>3 DEF TallyOf
  <2>4. QED
    BY <2>2, <2>3
<1>5. QED
  BY <1>1, <1>2, <1>3, <1>4
(* A pause ending changes no more than a deadline. *)
LEMMA ResumedDue ==
    ASSUME NEW m \in Motion, NEW now
    PROVE  Kept(m, Resumed(m, now)) /\ Still(m, Resumed(m, now))
BY DEF Resumed, Motion, Kept, Still

LEMMA SyncedDue ==
    ASSUME GoodFloor, NEW p \in Ids, NEW now \in Nat
    PROVE  Kept(motions[p], Synced(now)[p]) /\ Still(motions[p], Synced(now)[p])
<1>1. motions[p] \in Motion
  BY DEF GoodFloor, GoodMotions
<1>2. Kept(motions[p], motions[p]) /\ Still(motions[p], motions[p])
  BY DEF Kept, Still
<1>3. CASE canAct /\ closedSince # Never
  BY <1>1, <1>3, ResumedDue DEF Synced
<1>4. CASE ~(canAct /\ closedSince # Never)
  BY <1>2, <1>4 DEF Synced
<1>5. QED
  BY <1>3, <1>4

LEMMA AppliedDue ==
    ASSUME GoodFloor, NEW S, NEW p \in Ids, NEW now \in Nat
    PROVE  Due(motions[p], Applied(S, now)[p])
<1> DEFINE m == Synced(now)[p]
<1>1. Due(motions[p], m) /\ GoodMotion(m) /\ timers \in Kinds
  BY SyncedDue, StillDue, SyncedGood DEF GoodMotions, GoodFloor
<1>2. Due(m, Advance(m, now, timers))
  BY <1>1, AdvanceDue
<1>3. Applied(S, now)[p] \in {m, Advance(m, now, timers)}
  BY DEF Applied
<1> HIDE DEF m
<1>4. QED
  BY <1>1, <1>2, <1>3, DueThen

LEMMA CurrentDue ==
    ASSUME GoodFloor, NEW p \in Ids, NEW now \in Nat
    PROVE  Due(motions[p], Current(p, now))
BY AppliedDue DEF Current

(* A debate a member finds going on is not over, if the floor is open. *)
LEMMA CurrentDebate ==
    ASSUME GoodFloor, NEW p \in Ids, NEW now \in Nat, canAct,
           Current(p, now).state = "debate"
    PROVE  ~Overdue(Current(p, now), now)
<1> DEFINE m == Synced(now)[p]
<1>1. GoodMotion(m) /\ timers \in Kinds
  BY SyncedGood DEF GoodMotions, GoodFloor
<1>2. Current(p, now) = Advance(m, now, timers)
  BY DEF Current, Applied
<1>3. QED
  BY <1>1, <1>2, DebateGoesOn

(* A write changes its motion as it says, and the others by what is due.   *)
LEMMA WriteChanges ==
    ASSUME GoodFloor, NEW p \in Ids, NEW now \in Nat, NEW n, Write(p, now, n),
           Alters(motions[p], n)
    PROVE  \A q \in Ids : Alters(motions[q], motions'[q])
<1>1. motions' = [Applied({p}, now) EXCEPT ![p] = n]
  BY DEF Write
<1>2. DOMAIN Applied({p}, now) = Ids
  BY DEF Applied
<1>3. \A q \in Ids : q # p => motions'[q] = Applied({p}, now)[q]
  BY <1>1, <1>2
<1>4. motions'[p] = n
  BY <1>1, <1>2
<1>5. QED
  BY <1>3, <1>4, AppliedDue DEF Alters

-----------------------------------------------------------------------------
(* Each kind of step changes motions in one of these ways. *)

LEMMA MoveChanges ==
    ASSUME GoodFloor, NEW x \in Members, NEW p \in Ids, NEW now \in Nat,
           Move(x, p, now)
    PROVE  \A q \in Ids : Change(motions[q], motions'[q])
<1> DEFINE mine == {q \in Ids : motions[q].mover = x /\ Active(motions[q])}
           n == NewMotion(x, now)
<1>1. motions' = [Applied(mine, now) EXCEPT ![p] = n] /\ motions[p].state = "none"
  BY DEF Move
<1>2. DOMAIN Applied(mine, now) = Ids
  BY DEF Applied
<1>3. Moved(motions[p], n)
  BY <1>1 DEF Moved, NewMotion, NoMotion
<1> HIDE DEF mine, n
<1>4. motions'[p] = n /\ \A q \in Ids : q # p => motions'[q] = Applied(mine, now)[q]
  BY <1>1, <1>2
<1>5. QED
  BY <1>3, <1>4, AppliedDue DEF Change, Alters

LEMMA EditChanges ==
    ASSUME GoodFloor, NEW x \in Members, NEW p \in Ids, NEW now \in Nat,
           Edit(x, p, now)
    PROVE  \A q \in Ids : Alters(motions[q], motions'[q])
<1> DEFINE m == Current(p, now)
           n == [m EXCEPT !.revision = @ + 1]
<1>1. m \in Motion /\ Due(motions[p], m)
  BY CurrentGood, CurrentDue DEF GoodMotion
<1>2. m.state = "submitted" /\ Write(p, now, n)
  BY DEF Edit
<1>3. /\ Still(m, n) /\ n.mover = m.mover /\ n.seconder = m.seconder
      /\ n.eligible = m.eligible /\ n.consents = m.consents /\ n.ballots = m.ballots
  BY <1>1 DEF Motion, Still
<1> HIDE DEF m, n
<1>4. Edited(motions[p], n)
  BY <1>1, <1>2, <1>3 DEF Edited, Due, Kept, Still, Decides, OpensVote
<1>5. QED
  BY <1>2, <1>4, WriteChanges DEF Alters

LEMMA WithdrawChanges ==
    ASSUME GoodFloor, NEW x \in Members, NEW p \in Ids, NEW now \in Nat,
           Withdraw(x, p, now)
    PROVE  \A q \in Ids : Alters(motions[q], motions'[q])
<1> DEFINE m == Current(p, now)
           n == [m EXCEPT !.state = "withdrawn", !.deadline = Never,
                          !.decided = now]
<1>1. m \in Motion /\ Due(motions[p], m)
  BY CurrentGood, CurrentDue DEF GoodMotion
<1>2. Active(m) /\ Write(p, now, n)
  BY DEF Withdraw
<1>3. Kept(m, n) /\ n.state = "withdrawn" /\ n.draft = m.draft
  BY <1>1 DEF Motion, Kept
<1> HIDE DEF m, n
<1>4. Withdrawn(motions[p], n)
  BY <1>1, <1>2, <1>3
  DEF Withdrawn, Due, Kept, Still, Decides, OpensVote, Active, ActiveStates
<1>5. QED
  BY <1>2, <1>4, WriteChanges DEF Alters

LEMMA SecondChanges ==
    ASSUME GoodFloor, NEW x \in Members, NEW p \in Ids, NEW now \in Nat,
           NEW page \in Nat, NEW recent \in SUBSET Members,
           Second(x, p, page, recent, now)
    PROVE  \A q \in Ids : Alters(motions[q], motions'[q])
<1> DEFINE m == Current(p, now)
           n == SecondedBy(m, x, page, recent, now)
<1>1. m \in Motion /\ Due(motions[p], m)
  BY CurrentGood, CurrentDue DEF GoodMotion
<1>2. m.state = "submitted" /\ m.mover # x /\ page = m.revision /\ Write(p, now, n)
  BY DEF Second
<1>3. /\ n.state = "debate" /\ n.draft = m.draft /\ n.decided = m.decided
      /\ n.mover = m.mover /\ n.seconder = x
      /\ n.eligible = recent \cup {m.mover, x}
      /\ n.agreed = page /\ n.revision = m.revision /\ n.ballots = m.ballots
      /\ n.consents = [m.consents EXCEPT ![m.mover] = "consented"]
  BY <1>1 DEF SecondedBy, Motion
<1> HIDE DEF m, n
<1>4. Still(motions[p], m) /\ Kept(motions[p], m)
  BY <1>1, <1>2 DEF Due, Decides, OpensVote
<1>5. Seconded(motions[p], n)
  BY <1>2, <1>3, <1>4 DEF Seconded, Kept, Still
<1>6. QED
  BY <1>2, <1>5, WriteChanges DEF Alters

LEMMA ConsentChanges ==
    ASSUME GoodFloor, NEW x \in Members, NEW p \in Ids, NEW now \in Nat,
           NEW choice \in {"consented", "objected"},
           Consent(x, p, choice, now)
    PROVE  \A q \in Ids : Alters(motions[q], motions'[q])
<1> DEFINE m == Current(p, now)
           said == [m EXCEPT !.consents = [@ EXCEPT ![x] = choice]]
           n == IF canAct THEN Advance(said, now, timers) ELSE said
<1>1. m \in Motion /\ Due(motions[p], m)
  BY CurrentGood, CurrentDue DEF GoodMotion
<1>2. /\ m.state = "debate" /\ x \in m.eligible /\ m.consents[x] = "none"
      /\ Write(p, now, n)
  BY DEF Consent
<1>3. /\ Still(m, said) /\ said.mover = m.mover /\ said.seconder = m.seconder
      /\ said.eligible = m.eligible /\ said.ballots = m.ballots
      /\ said.agreed = m.agreed /\ said.revision = m.revision
      /\ said.deadline = m.deadline
      /\ said.consents = [m.consents EXCEPT ![x] = choice]
  BY <1>1 DEF Motion, Still
<1>4. canAct => ~Overdue(said, now)
  BY <1>2, <1>3, CurrentDebate DEF Overdue
<1>5. Still(motions[p], m) /\ Kept(motions[p], m)
  BY <1>1, <1>2 DEF Due, Decides, OpensVote
<1>6. m.consents \in [Members -> {"none", "consented", "objected"}]
  BY <1>1 DEF Motion
<1>7. said \in Motion
  <2>1. [m.consents EXCEPT ![x] = choice] \in [Members -> {"none", "consented", "objected"}]
    BY <1>6
  <2>2. QED
    BY <1>1, <2>1 DEF Motion
<1> DEFINE passes == canAct /\ Unanimous(said)
<1>8. CASE ~passes
  <2>1. n = said
    BY <1>2, <1>3, <1>4, <1>8 DEF Advance, TallyOf, Still
  <2> HIDE DEF m, said, n
  <2>2. Spoke(motions[p], n, x)
    BY <1>2, <1>3, <1>5, <2>1 DEF Spoke, Kept, Still
  <2>3. QED
    BY <1>2, <2>2, WriteChanges DEF Alters
<1>9. CASE passes
  <2>1. n = PassAt(said, now)
    BY <1>2, <1>3, <1>4, <1>9 DEF Advance, Still
  <2>2. said.consents[x] = choice /\ \A y \in Members \ {x} : said.consents[y] = m.consents[y]
    BY <1>3, <1>6
  <2>3. choice = "consented" /\ Objectors(m) = {}
    BY <1>2, <1>9, <2>2 DEF Unanimous, Objectors, Choosers
  <2> HIDE DEF m, said, n
  <2>4. Kept(said, n) /\ n.state = "passed" /\ n.draft = "plain"
    BY <1>7, <2>1, PassDue
  <2>5. Objectors(motions[p]) = {}
    BY <1>5, <2>3, SameObjectors
  <2>6. Spoke(motions[p], n, x)
    BY <1>2, <1>3, <1>5, <2>3, <2>4, <2>5 DEF Spoke, Kept, Still
  <2>7. QED
    BY <1>2, <2>6, WriteChanges DEF Alters
<1>10. QED
  BY <1>8, <1>9

LEMMA VoteChanges ==
    ASSUME GoodFloor, NEW x \in Members, NEW p \in Ids, NEW now \in Nat,
           NEW choice \in {"yes", "no", "abstain"},
           Vote(x, p, choice, now)
    PROVE  \A q \in Ids : Alters(motions[q], motions'[q])
<1> DEFINE m == Current(p, now)
           n == [m EXCEPT !.ballots = [@ EXCEPT ![x] = choice]]
<1>1. m \in Motion /\ Due(motions[p], m) /\ GoodMotion(m)
  BY CurrentGood, CurrentDue DEF GoodMotion
<1>2. m.state = "voting" /\ x \in m.eligible /\ Write(p, now, n)
  BY DEF Vote
<1>3. /\ Still(m, n) /\ n.mover = m.mover /\ n.seconder = m.seconder
      /\ n.eligible = m.eligible /\ n.consents = m.consents
      /\ n.agreed = m.agreed /\ n.revision = m.revision
      /\ n.ballots = [m.ballots EXCEPT ![x] = choice]
  BY <1>1 DEF Motion, Still
<1>4. Objectors(m) # {}
  BY <1>1, <1>2 DEF GoodMotion, SoundlyDecided
<1> HIDE DEF m, n
<1>5. Objectors(motions[p]) = Objectors(m) /\ Kept(motions[p], m)
  BY <1>1, SameObjectors DEF Due
<1>6. /\ motions[p].state \in {"debate", "voting"}
      /\ m.draft = motions[p].draft /\ m.decided = motions[p].decided
  BY <1>1, <1>2 DEF Due, Still, Decides, OpensVote
<1>7. Voted(motions[p], n, x)
  BY <1>2, <1>3, <1>4, <1>5, <1>6 DEF Voted, Kept, Still
<1>8. QED
  BY <1>2, <1>7, WriteChanges DEF Alters

(* Bringing a deadline to now decides nothing by itself. *)
LEMMA DueNowDue ==
    ASSUME NEW m, GoodMotion(m), NEW now \in Nat, NEW kind \in Kinds,
           NEW period \in {"debate", "vote"}
    PROVE  Due(m, Advance([m EXCEPT !.deadline = now, !.cut = @ \cup {period}], now, kind))
<1> DEFINE n == [m EXCEPT !.deadline = now, !.cut = @ \cup {period}]
<1>1. GoodMotion(n)
  BY DueNowGood
<1>2. Kept(m, n) /\ Still(m, n)
  BY DEF GoodMotion, Motion, Kept, Still
<1> HIDE DEF n
<1>3. Due(n, Advance(n, now, kind))
  BY <1>1, AdvanceDue
<1>4. Due(m, Advance(n, now, kind))
  BY <1>2, <1>3, StillDue, DueThen
<1>5. QED
  BY <1>4 DEF n

LEMMA AdminWriteChanges ==
    ASSUME GoodFloor, NEW p \in Ids, NEW now \in Nat, AdminWrite(p, now)
    PROVE  \A q \in Ids : Alters(motions[q], motions'[q])
<1> DEFINE m == Current(p, now)
<1>1. GoodMotion(m) /\ m \in Motion /\ timers \in Kinds /\ Due(motions[p], m)
  BY CurrentGood, CurrentDue DEF GoodMotion, GoodFloor
<1>2. ASSUME NEW period \in {"debate", "vote"},
             Write(p, now, Advance([m EXCEPT !.deadline = now, !.cut = @ \cup {period}],
                                   now, timers))
      PROVE  \A q \in Ids : Alters(motions[q], motions'[q])
  <2> DEFINE n == Advance([m EXCEPT !.deadline = now, !.cut = @ \cup {period}],
                          now, timers)
  <2>1. Due(motions[p], n)
    BY <1>1, DueNowDue, DueThen
  <2> HIDE DEF n
  <2>2. Write(p, now, n)
    BY <1>2 DEF n
  <2>3. QED
    BY <2>1, <2>2, WriteChanges DEF Alters
<1>3. CASE EndDebate(p, now)
  BY <1>2, <1>3 DEF EndDebate
<1>4. CASE CloseVote(p, now)
  BY <1>2, <1>4 DEF CloseVote
<1>5. CASE PutDraft(p, now)
  <2> DEFINE n == [m EXCEPT !.draft = "saved"]
  <2>1. Write(p, now, n) /\ m.state = "passed"
    BY <1>5 DEF PutDraft
  <2>2. Kept(m, n) /\ n.state = "passed" /\ n.draft = "saved" /\ n.decided = m.decided
    BY <1>1, <2>1 DEF Motion, Kept
  <2> HIDE DEF m, n
  <2>3. DraftSaved(motions[p], n)
    BY <1>1, <2>1, <2>2 DEF DraftSaved, Due, Kept, Still, Decides, OpensVote
  <2>4. QED
    BY <2>1, <2>3, WriteChanges DEF Alters
<1>6. CASE Publish(p, now)
  <2> DEFINE n == [m EXCEPT !.state = "building"]
  <2>1. Write(p, now, n) /\ m.state = "passed" /\ m.draft \in {"house", "saved"}
    BY <1>6 DEF Publish
  <2>2. Kept(m, n) /\ n.state = "building" /\ n.draft = m.draft /\ n.decided = m.decided
    BY <1>1 DEF Motion, Kept
  <2> HIDE DEF m, n
  <2>3. Published(motions[p], n)
    BY <1>1, <2>1, <2>2 DEF Published, Due, Kept, Still, Decides, OpensVote
  <2>4. QED
    BY <2>1, <2>3, WriteChanges DEF Alters
<1>7. QED
  BY <1>3, <1>4, <1>5, <1>6 DEF AdminWrite

LEMMA ShipDue ==
    ASSUME NEW m, NEW k \in Motion, Due(m, k), k.state = "building"
    PROVE  Shipped(m, ShipOf(k))
<1>1. Still(m, k) /\ Kept(m, k)
  BY DEF Due, Decides, OpensVote
<1>2. /\ ShipOf(k).state = "shipped" /\ ShipOf(k).draft = k.draft
      /\ ShipOf(k).decided = k.decided /\ Kept(k, ShipOf(k))
  BY DEF ShipOf, Motion, Kept
<1>3. QED
  BY <1>1, <1>2 DEF Shipped, Still, Kept

LEMMA SetTestTimersChanges ==
    ASSUME GoodFloor, NEW now \in Nat, SetTestTimers(now)
    PROVE  \A q \in Ids : Alters(motions[q], motions'[q])
<1> DEFINE due == {p \in Ids : Active(motions[p]) /\ Overdue(Synced(now)[p], now)}
           floor == Applied(due, now)
           ships(p) == canAct /\ p \in merged /\ floor[p].state = "building"
<1>1. \A p \in Ids : Due(motions[p], floor[p]) /\ floor[p] \in Motion
  BY AppliedDue, AppliedGood DEF GoodMotions
<1>2. motions' = [p \in Ids |-> IF ships(p) THEN ShipOf(floor[p]) ELSE floor[p]]
  BY DEF SetTestTimers
<1> HIDE DEF floor
<1>3. TAKE q \in Ids
<1>4. CASE ships(q)
  BY <1>1, <1>2, <1>4, ShipDue DEF Alters
<1>5. CASE ~ships(q)
  BY <1>1, <1>2, <1>5 DEF Alters
<1>6. QED
  BY <1>4, <1>5

LEMMA OthersStay ==
    ASSUME GoodFloor, NEW p \in Ids, NEW n, Alters(motions[p], n),
           motions' = [motions EXCEPT ![p] = n]
    PROVE  \A q \in Ids : Alters(motions[q], motions'[q])
<1>1. \A q \in Ids : Due(motions[q], motions[q])
  BY DEF Due, Kept, Still
<1>2. motions \in [Ids -> Motion]
  BY DEF GoodFloor, GoodMotions
<1>3. motions'[p] = n /\ \A q \in Ids : q # p => motions'[q] = motions[q]
  BY <1>2
<1>4. QED
  BY <1>1, <1>3 DEF Alters

LEMMA NobodyChanges ==
    ASSUME GoodFloor, UNCHANGED motions
    PROVE  \A q \in Ids : Alters(motions[q], motions'[q])
BY DEF Alters, Due, Kept, Still

LEMMA HouseSpecChanges ==
    ASSUME GoodFloor, NEW p \in Ids, ApplyHouseSpec(p)
    PROVE  \A q \in Ids : Alters(motions[q], motions'[q])
<1> DEFINE m == motions[p]
           n == [m EXCEPT !.draft = "house"]
<1>1. m \in Motion /\ m.state = "passed" /\ m.draft # "saved"
  BY DEF GoodFloor, GoodMotions, ApplyHouseSpec
<1>2. motions' = [motions EXCEPT ![p] = n]
  BY DEF ApplyHouseSpec
<1>3. Filled(m, n)
  BY <1>1 DEF Filled, Motion, Kept
<1> HIDE DEF n
<1>4. QED
  BY <1>2, <1>3, OthersStay DEF Alters

LEMMA ShipChanges ==
    ASSUME GoodFloor, NEW p \in Ids, motions[p].state = "building",
           motions' = [motions EXCEPT ![p] = ShipOf(@)]
    PROVE  \A q \in Ids : Alters(motions[q], motions'[q])
<1>1. motions[p] \in Motion /\ Due(motions[p], motions[p])
  BY DEF GoodFloor, GoodMotions, Due, Kept, Still
<1>2. Shipped(motions[p], ShipOf(motions[p]))
  BY <1>1, ShipDue
<1>3. QED
  BY <1>2, OthersStay DEF Alters

LEMMA SweepingChanges ==
    ASSUME GoodFloor, NEW s \in Sweepers, Sweeping(s)
    PROVE  \A q \in Ids : Alters(motions[q], motions'[q])
<1>1. ASSUME NEW now \in Window(clock), BeginSweep(s, now)
      PROVE  \A q \in Ids : Alters(motions[q], motions'[q])
  <2>1. now \in Nat
    BY WindowTimes DEF GoodFloor
  <2>2. QED
    BY <1>1, <2>1, SyncedDue, StillDue DEF BeginSweep, Alters
<1>2. ASSUME NEW p \in Ids, SweepApply(s, p)
      PROVE  \A q \in Ids : Alters(motions[q], motions'[q])
  <2> DEFINE n == Advance(motions[p], sweep[s], timers)
  <2>1. sweep[s] \in Nat /\ timers \in Kinds /\ GoodMotion(motions[p])
    BY <1>2 DEF SweepApply, GoodFloor, GoodMotions, Time
  <2>2. Due(motions[p], n) /\ motions' = [motions EXCEPT ![p] = n]
    BY <1>2, <2>1, AdvanceDue DEF SweepApply
  <2> HIDE DEF n
  <2>3. QED
    BY <2>2, OthersStay DEF Alters
<1>3. ASSUME NEW p \in Ids, SweepShip(s, p)
      PROVE  \A q \in Ids : Alters(motions[q], motions'[q])
  BY <1>3, ShipChanges DEF SweepShip
<1>4. CASE EndSweep(s)
  BY <1>4, NobodyChanges DEF EndSweep
<1>5. QED
  BY <1>1, <1>2, <1>3, <1>4 DEF Sweeping

(* Every step of the floor, of any actor, either moves a motion or alters  *)
(* each in one of these ways, or not at all.                               *)
SomeMove == \E x \in Members, p \in Ids, now \in admit : Move(x, p, now)

LEMMA NextAlters ==
    ASSUME GoodFloor, [Next]_vars
    PROVE  SomeMove \/ \A q \in Ids : Alters(motions[q], motions'[q])
<1>1. \A now \in admit : now \in Nat
  BY DEF GoodFloor
<1>2. CASE Tick \/ FlagsOff \/ FlagsOn \/ UNCHANGED vars
  BY <1>2, NobodyChanges DEF Tick, FlagsOff, FlagsOn, vars
<1>3. CASE \E now \in admit : SetTestTimers(now)
  BY <1>1, <1>3, SetTestTimersChanges
<1>4. CASE \E p \in Ids, now \in admit : AdminWrite(p, now)
  BY <1>1, <1>4, AdminWriteChanges
<1>5. ASSUME NEW x \in Members, NEW p \in Ids, NEW now \in admit, MemberWrite(x, p, now)
      PROVE  SomeMove \/ \A q \in Ids : Alters(motions[q], motions'[q])
  <2>1. ASSUME NEW page \in 1 .. MaxEdits + 1, NEW recent \in SUBSET Members,
               Second(x, p, page, recent, now)
        PROVE  \A q \in Ids : Alters(motions[q], motions'[q])
    <3>1. page \in Nat
      BY FloorAssumption
    <3>2. QED
      BY <1>1, <2>1, <3>1, SecondChanges
  <2>2. QED
    BY <1>1, <1>5, <2>1, EditChanges, WithdrawChanges, ConsentChanges,
       VoteChanges DEF MemberWrite, SomeMove
<1>6. ASSUME NEW p \in Ids, ApplyHouseSpec(p) \/ Merge(p)
      PROVE  \A q \in Ids : Alters(motions[q], motions'[q])
  BY <1>6, HouseSpecChanges, ShipChanges, NobodyChanges DEF Merge
<1>7. CASE \E s \in Sweepers : Sweeping(s)
  BY <1>7, SweepingChanges
<1>8. QED
  BY <1>2, <1>3, <1>4, <1>5, <1>6, <1>7 DEF Next


LEMMA NextChanges ==
    ASSUME GoodFloor, [Next]_vars
    PROVE  \A q \in Ids : Change(motions[q], motions'[q])
<1>1. CASE SomeMove
  BY <1>1, MoveChanges DEF SomeMove, GoodFloor
<1>2. CASE \A q \in Ids : Alters(motions[q], motions'[q])
  BY <1>2 DEF Change
<1>3. QED
  BY <1>1, <1>2, NextAlters
-----------------------------------------------------------------------------
(* Who may speak, and what is said. *)

(* What Electorate, WordKept and SavedDraftKept rest on: nobody speaks     *)
(* before the second, which comes before debate and stays; a draft and the *)
(* time of a decision come with the decision.                              *)
FrozenMotion(m) ==
    /\ ElectorateSound(m)
    /\ m.seconder = NoOne =>
           \A x \in Members : m.consents[x] = "none" /\ m.ballots[x] = "none"
    /\ m.state \in {"none", "submitted"} => m.seconder = NoOne
    /\ m.state \in {"debate", "voting"} => m.seconder \in Members
    /\ m.draft # "none" => m.state \in PassedStates
    /\ m.state \in UndecidedStates => m.decided = Never

FrozenFloor == \A p \in Ids : FrozenMotion(motions[p])

(* Nobody's word changes when the steps due are applied. *)
LEMMA KeptSound ==
    ASSUME NEW m, NEW n, ElectorateSound(m),
           n.mover = m.mover, n.seconder = m.seconder, n.eligible = m.eligible,
           n.consents = m.consents, n.ballots = m.ballots,
           n.seconder # NoOne => n.agreed = m.agreed /\ n.revision = m.revision
    PROVE  ElectorateSound(n)
BY DEF ElectorateSound

LEMMA ChangeFrozen ==
    ASSUME NEW m \in Motion, NEW n \in Motion, GoodMotion(m), FrozenMotion(m),
           Change(m, n)
    PROVE  FrozenMotion(n)
<1> USE DEF FrozenMotion
<1>1. /\ m.consents \in [Members -> {"none", "consented", "objected"}]
      /\ m.ballots \in [Members -> {"none", "yes", "no", "abstain"}]
  BY DEF Motion
<1>2. CASE Due(m, n)
  <2>1. ElectorateSound(n)
    BY <1>2, KeptSound DEF Due, Kept
  <2>2. QED
    BY <1>2, <2>1 DEF Due, Kept, Still, Decides, OpensVote, PassedStates,
       UndecidedStates, ActiveStates
<1>3. CASE Moved(m, n)
  <2>1. \A x \in Members : n.consents[x] = "none" /\ n.ballots[x] = "none"
    BY <1>3 DEF Moved, NoMotion
  <2>2. QED
    BY <1>3, <2>1 DEF Moved, ElectorateSound
<1>4. CASE Edited(m, n)
  <2>1. ElectorateSound(n)
    BY <1>4, KeptSound DEF Edited
  <2>2. QED
    BY <1>4, <2>1 DEF Edited, Still, PassedStates
<1>5. CASE Withdrawn(m, n)
  <2>1. ElectorateSound(n)
    BY <1>5, KeptSound DEF Withdrawn, Kept
  <2>2. QED
    BY <1>5, <2>1 DEF Withdrawn, Kept, Active, PassedStates, UndecidedStates,
       ActiveStates
<1>6. CASE Seconded(m, n)
  <2>1. \A x \in Members : m.consents[x] = "none" /\ m.ballots[x] = "none"
    BY <1>6 DEF Seconded
  <2>2. \A x \in Members : n.consents[x] # "none" => x = n.mover
    BY <1>1, <1>6, <2>1 DEF Seconded
  <2>3. ElectorateSound(n) /\ n.seconder # NoOne
    BY <1>6, <2>1, <2>2, FloorAssumption DEF Seconded, ElectorateSound
  <2>4. QED
    BY <1>6, <2>3 DEF Seconded, PassedStates, UndecidedStates, ActiveStates
<1>7. ASSUME NEW x \in Members, Spoke(m, n, x)
      PROVE  FrozenMotion(n)
  <2>1. m.seconder \in Members /\ m.seconder # NoOne
    BY <1>7, FloorAssumption DEF Spoke
  <2>2. \A y \in Members : y # x => n.consents[y] = m.consents[y]
    BY <1>1, <1>7 DEF Spoke
  <2>3. ElectorateSound(n)
    BY <1>7, <2>2 DEF Spoke, ElectorateSound
  <2>4. QED
    BY <1>7, <2>1, <2>3 DEF Spoke, Still, PassedStates, UndecidedStates, ActiveStates
<1>8. ASSUME NEW x \in Members, Voted(m, n, x)
      PROVE  FrozenMotion(n)
  <2>1. m.seconder \in Members /\ m.seconder # NoOne
    BY <1>8, FloorAssumption DEF Voted
  <2>2. \A y \in Members : y # x => n.ballots[y] = m.ballots[y]
    BY <1>1, <1>8 DEF Voted
  <2>3. ElectorateSound(n)
    BY <1>8, <2>2 DEF Voted, ElectorateSound
  <2>4. QED
    BY <1>8, <2>1, <2>3 DEF Voted, PassedStates, UndecidedStates, ActiveStates
<1>9. CASE DraftSaved(m, n) \/ Filled(m, n) \/ Published(m, n) \/ Shipped(m, n)
  <2>1. Kept(m, n) /\ n.state \in PassedStates
    BY <1>9 DEF DraftSaved, Filled, Published, Shipped, PassedStates
  <2>2. ElectorateSound(n)
    BY <2>1, KeptSound DEF Kept
  <2>3. QED
    BY <2>1, <2>2 DEF Kept, PassedStates, UndecidedStates, ActiveStates
<1>10. QED
  BY <1>2, <1>3, <1>4, <1>5, <1>6, <1>7, <1>8, <1>9 DEF Change, Alters

LEMMA NoMotionFrozen == FrozenMotion(NoMotion)
BY DEF FrozenMotion, ElectorateSound, NoMotion

LEMMA NextFrozen ==
    ASSUME GoodFloor, GoodFloor', FrozenFloor, [Next]_vars
    PROVE  FrozenFloor'
BY NextChanges, ChangeFrozen DEF GoodFloor, GoodMotions, FrozenFloor

LEMMA AlwaysFrozen == Spec => []FrozenFloor
<1>1. Init => FrozenFloor
  BY NoMotionFrozen DEF Init, FrozenFloor
<1>2. GoodFloor /\ GoodFloor' /\ FrozenFloor /\ [Next]_vars => FrozenFloor'
  BY NextFrozen
<1>3. QED
  BY <1>1, <1>2, AlwaysGood, PTL DEF Spec

(* Nobody outside the electorate the second froze ever consents, objects   *)
(* or votes; the mover and the seconder are two different members of it,   *)
(* and the text debated is the one that was seconded: for every set of     *)
(* members, whatever edits, seconds, votes and late requests cross.        *)
THEOREM ElectorateFrozen == Spec => []Electorate
<1>1. FrozenFloor => Electorate
  BY DEF FrozenFloor, FrozenMotion, Electorate
<1>2. QED
  BY <1>1, AlwaysFrozen, PTL

LEMMA ChangeKeepsWord ==
    ASSUME NEW m \in Motion, NEW n \in Motion, FrozenMotion(m), Change(m, n)
    PROVE  KeepsWord(m, n)
<1> USE DEF FrozenMotion
<1>1. /\ m.consents \in [Members -> {"none", "consented", "objected"}]
      /\ m.ballots \in [Members -> {"none", "yes", "no", "abstain"}]
      /\ n.ballots \in [Members -> {"none", "yes", "no", "abstain"}]
  BY DEF Motion
<1>2. CASE \/ Due(m, n) \/ Withdrawn(m, n)
           \/ DraftSaved(m, n) \/ Filled(m, n) \/ Published(m, n) \/ Shipped(m, n)
  BY <1>2
  DEF KeepsWord, Due, Kept, Still, Decides, OpensVote, Withdrawn, DraftSaved, Filled,
      Published, Shipped, Active, UndecidedStates, ActiveStates
<1>3. CASE Moved(m, n)
  <2>1. \A x \in Members : m.consents[x] = "none" /\ m.ballots[x] = "none"
    BY <1>3 DEF Moved
  <2>2. n.ballots = m.ballots
    BY <1>1, <1>3, <2>1 DEF Moved, NoMotion
  <2>3. QED
    BY <1>3, <2>1, <2>2 DEF KeepsWord, Moved, UndecidedStates
<1>4. CASE Edited(m, n)
  BY <1>4 DEF KeepsWord, Edited, Still, UndecidedStates, ActiveStates
<1>5. CASE Seconded(m, n)
  <2>1. \A x \in Members : m.consents[x] = "none"
    BY <1>5 DEF Seconded
  <2>2. QED
    BY <1>5, <2>1 DEF KeepsWord, Seconded, UndecidedStates, ActiveStates
<1>6. ASSUME NEW x \in Members, Spoke(m, n, x)
      PROVE  KeepsWord(m, n)
  <2>1. \A y \in Members : y # x => n.consents[y] = m.consents[y]
    BY <1>1, <1>6 DEF Spoke
  <2>2. QED
    BY <1>6, <2>1 DEF KeepsWord, Spoke, UndecidedStates, ActiveStates
<1>7. ASSUME NEW x \in Members, Voted(m, n, x)
      PROVE  KeepsWord(m, n)
  BY <1>7 DEF KeepsWord, Voted, UndecidedStates, ActiveStates
<1>8. QED
  BY <1>2, <1>3, <1>4, <1>5, <1>6, <1>7 DEF Change, Alters

(* No step of anybody's takes back what a member said: consents and        *)
(* objections are final, the electorate and the text stay as seconded,     *)
(* ballots change only in an open vote, and a decision stands.             *)
THEOREM WordsKept == Spec => WordKept
<1>1. GoodFloor /\ GoodFloor' /\ FrozenFloor /\ [Next]_vars => [WordKeptStep]_vars
  BY NextChanges, ChangeKeepsWord
  DEF GoodFloor, GoodMotions, FrozenFloor, WordKeptStep
<1>2. QED
  BY <1>1, AlwaysGood, AlwaysFrozen, PTL DEF Spec, WordKept

LEMMA ChangeKeepsDraft ==
    ASSUME NEW m, NEW n, FrozenMotion(m), Change(m, n)
    PROVE  /\ m.draft = "saved" => n.draft = "saved"
           /\ m.state # "building" /\ n.state = "building"
                  => n.draft \in {"house", "saved"}
BY DEF FrozenMotion, Change, Alters, Due, Kept, Still, Decides, OpensVote, Moved, Edited, Withdrawn,
       Seconded, Spoke, Voted, DraftSaved, Filled, Published, Shipped, Active, PassedStates,
       ActiveStates

(* What an admin saved is never written over by the house model's spec,    *)
(* and nothing is published from a draft that was never finished.          *)
THEOREM DraftsKept == Spec => SavedDraftKept
<1>1. GoodFloor /\ FrozenFloor /\ [Next]_vars =>
          [\A p \in Ids :
              /\ motions[p].draft = "saved" => motions'[p].draft = "saved"
              /\ motions[p].state # "building" /\ motions'[p].state = "building"
                     => motions'[p].draft \in {"house", "saved"}]_vars
  BY NextChanges, ChangeKeepsDraft DEF FrozenFloor
<1>2. QED
  BY <1>1, AlwaysGood, AlwaysFrozen, PTL DEF Spec, SavedDraftKept

-----------------------------------------------------------------------------
(* The refinement of MotionLifecycle: what a change does to a motion's     *)
(* state and to whether anybody objected is one of its steps.              *)

LEMMA Hops ==
    ASSUME NEW o \in BOOLEAN
    PROVE  /\ {<<"none", "submitted">>, <<"submitted", "debate">>,
               <<"submitted", "lapsed">>, <<"submitted", "withdrawn">>,
               <<"debate", "withdrawn">>, <<"passed", "building">>,
               <<"building", "shipped">>} \subseteq Lifecycle!Paths(o)
           /\ o => {<<"debate", "voting">>, <<"debate", "passed">>,
                    <<"debate", "failed">>, <<"voting", "withdrawn">>,
                    <<"voting", "passed">>, <<"voting", "failed">>}
                       \subseteq Lifecycle!Paths(o)
           /\ ~o => <<"debate", "passed">> \in Lifecycle!Paths(o)
<1>1. /\ {<<"none", "submitted">>, <<"submitted", "debate">>,
          <<"submitted", "lapsed">>, <<"submitted", "withdrawn">>,
          <<"debate", "withdrawn">>, <<"passed", "building">>,
          <<"building", "shipped">>} \subseteq Lifecycle!Arrows(o)
      /\ o => {<<"debate", "voting">>, <<"voting", "withdrawn">>,
               <<"voting", "passed">>, <<"voting", "failed">>}
                  \subseteq Lifecycle!Arrows(o)
      /\ ~o => <<"debate", "passed">> \in Lifecycle!Arrows(o)
  BY DEF Lifecycle!Arrows
<1>2. ASSUME o, NEW end \in {"passed", "failed"}
      PROVE  <<"debate", end>> \in Lifecycle!Then(Lifecycle!Arrows(o), Lifecycle!Arrows(o))
  <2>1. <<"debate", "voting">> \in Lifecycle!Arrows(o) /\ <<"voting", end>> \in Lifecycle!Arrows(o)
    BY <1>1, <1>2
  <2>2. "debate" \in Lifecycle!States /\ end \in Lifecycle!States /\ "voting" \in Lifecycle!States
    BY DEF Lifecycle!States
  <2>3. QED
    BY <2>1, <2>2 DEF Lifecycle!Then
<1>3. QED
  BY <1>1, <1>2 DEF Lifecycle!Paths

(* What one motion may do, in the lifecycle's words. *)
Stays(m, n) == n.state = m.state /\ (Objectors(n) = {} <=> Objectors(m) = {})

Hopped(m, n) ==
    /\ <<m.state, n.state>> \in Lifecycle!Paths(Objectors(m) # {})
    /\ Objectors(n) = {} <=> Objectors(m) = {}

FirstObjection(m, n) ==
    /\ m.state = "debate" /\ n.state = "debate"
    /\ Objectors(m) = {} /\ Objectors(n) # {}

LEMMA SilentBefore ==
    ASSUME NEW m, FrozenMotion(m), m.state \in {"none", "submitted"}
    PROVE  Objectors(m) = {} /\ \A x \in Members : m.consents[x] = "none"
BY DEF FrozenMotion, Objectors, Choosers

LEMMA ChangeFollows ==
    ASSUME NEW m \in Motion, NEW n \in Motion, GoodMotion(m), FrozenMotion(m),
           Change(m, n)
    PROVE  Stays(m, n) \/ Hopped(m, n) \/ FirstObjection(m, n)
<1> DEFINE o == Objectors(m) # {}
<1>1. m.state = "voting" => o
  BY DEF GoodMotion, SoundlyDecided
<1>2. m.consents \in [Members -> {"none", "consented", "objected"}]
  BY DEF Motion
<1>3. CASE \/ Due(m, n) \/ Edited(m, n) \/ Withdrawn(m, n)
           \/ DraftSaved(m, n) \/ Filled(m, n) \/ Published(m, n) \/ Shipped(m, n)
  <2>1. Objectors(n) = Objectors(m)
    BY <1>3 DEF Objectors, Due, Edited, Withdrawn, DraftSaved, Filled, Published,
       Shipped, Kept
  <2>2. n.state = m.state \/ <<m.state, n.state>> \in Lifecycle!Paths(o)
    <3>1. CASE Due(m, n)
      BY <3>1, Hops DEF Due, Still, Decides, OpensVote
    <3>2. CASE Withdrawn(m, n)
      BY <1>1, <3>2, Hops DEF Withdrawn, Active, ActiveStates
    <3>3. CASE DraftSaved(m, n)
      BY <3>3, Hops DEF DraftSaved
    <3>4. CASE Edited(m, n) \/ Filled(m, n) \/ Published(m, n) \/ Shipped(m, n)
      BY <3>4, Hops DEF Edited, Still, Filled, Published, Shipped
    <3>5. QED
      BY <1>3, <3>1, <3>2, <3>3, <3>4
  <2>3. QED
    BY <2>1, <2>2 DEF Stays, Hopped
<1>4. CASE Moved(m, n)
  <2>1. Objectors(m) = {} /\ Objectors(n) = {}
    BY <1>4, SilentBefore DEF Moved, NoMotion, Objectors, Choosers
  <2>2. <<m.state, n.state>> \in Lifecycle!Paths(o)
    BY <1>4, Hops DEF Moved
  <2>3. QED
    BY <2>1, <2>2 DEF Hopped
<1>5. CASE Seconded(m, n)
  <2>1. Objectors(m) = {} /\ \A x \in Members : m.consents[x] = "none"
    BY <1>5, SilentBefore DEF Seconded
  <2>2. Objectors(n) = {}
    BY <1>2, <1>5, <2>1 DEF Seconded, Objectors, Choosers
  <2>3. <<m.state, n.state>> \in Lifecycle!Paths(o)
    BY <1>5, Hops DEF Seconded
  <2>4. QED
    BY <2>1, <2>2, <2>3 DEF Hopped
<1>6. ASSUME NEW x \in Members, Spoke(m, n, x)
      PROVE  Stays(m, n) \/ Hopped(m, n) \/ FirstObjection(m, n)
  <2>1. CASE n.consents = [m.consents EXCEPT ![x] = "objected"] /\ Still(m, n)
    <3>1. x \in Objectors(n)
      BY <1>2, <2>1 DEF Objectors, Choosers
    <3>2. QED
      BY <1>6, <2>1, <3>1 DEF Spoke, Still, Stays, FirstObjection
  <2>2. CASE n.consents = [m.consents EXCEPT ![x] = "consented"]
    <3>1. Objectors(n) = Objectors(m)
      BY <1>2, <1>6, <2>2 DEF Spoke, Objectors, Choosers
    <3>2. n.state = m.state \/ <<m.state, n.state>> \in Lifecycle!Paths(o)
      <4>1. n.state = m.state \/ (~o /\ m.state = "debate" /\ n.state = "passed")
        <5>1. \A y \in Members : n.consents[y] = "objected" <=> m.consents[y] = "objected"
          BY <1>2, <1>6, <2>2 DEF Spoke
        <5>2. n.consents[x] = "consented"
          BY <1>2, <2>2
        <5>3. Still(m, n) \/ (Objectors(m) = {} /\ n.state = "passed")
          BY <1>2, <1>6, <5>2 DEF Spoke
        <5>4. QED
          BY <1>6, <5>3 DEF Spoke, Still
      <4>2. QED
        BY <4>1, Hops
    <3>3. QED
      BY <3>1, <3>2 DEF Stays, Hopped
  <2>3. QED
    BY <1>6, <2>1, <2>2 DEF Spoke
<1>7. ASSUME NEW x \in Members, Voted(m, n, x)
      PROVE  Stays(m, n) \/ Hopped(m, n)
  <2>1. Objectors(n) = Objectors(m)
    BY <1>7 DEF Voted, Objectors
  <2>2. n.state = m.state \/ <<m.state, n.state>> \in Lifecycle!Paths(o)
    BY <1>7, Hops DEF Voted
  <2>3. QED
    BY <2>1, <2>2 DEF Stays, Hopped
<1>8. QED
  BY <1>3, <1>4, <1>5, <1>6, <1>7 DEF Change, Alters

LEMMA InitFollows == Init => Lifecycle!Init
<1>1. Objectors(NoMotion) = {} /\ NoMotion.state = "none"
  BY DEF NoMotion, Objectors, Choosers
<1>2. QED
  BY <1>1 DEF Init, Lifecycle!Init

LEMMA StepFollows ==
    ASSUME GoodFloor, GoodFloor', FrozenFloor, [Next]_vars
    PROVE  [Lifecycle!Next]_Lifecycle!vars
<1>1. /\ motions \in [Ids -> Motion] /\ motions' \in [Ids -> Motion]
      /\ \A p \in Ids : GoodMotion(motions[p]) /\ FrozenMotion(motions[p])
                            /\ Change(motions[p], motions'[p])
  BY NextChanges DEF GoodFloor, GoodMotions, FrozenFloor
<1>2. \A p \in Ids : \/ Stays(motions[p], motions'[p])
                     \/ Hopped(motions[p], motions'[p])
                     \/ FirstObjection(motions[p], motions'[p])
  BY <1>1, ChangeFollows
<1>3. \A p \in Ids : Lifecycle!Stay(p) \/ Lifecycle!Follow(p) \/ Lifecycle!Object(p)
  <2> TAKE p \in Ids
  <2>1. CASE Stays(motions[p], motions'[p])
    BY <2>1 DEF Stays, Lifecycle!Stay, Objectors
  <2>2. CASE Hopped(motions[p], motions'[p])
    BY <2>2 DEF Hopped, Lifecycle!Follow, Objectors
  <2>3. CASE FirstObjection(motions[p], motions'[p])
    BY <2>3 DEF FirstObjection, Lifecycle!Object, Objectors
  <2>4. QED
    BY <1>2, <2>1, <2>2, <2>3
<1>4. \A p \in Ids : motions'[p].state \in Lifecycle!States
  BY <1>1 DEF Motion, States, ActiveStates, Lifecycle!States
<1>5. [p \in Ids |-> motions'[p].state] \in [Ids -> Lifecycle!States]
  BY <1>4
<1>6. QED
  BY <1>3, <1>5 DEF Lifecycle!Next

(* The floor implements the lifecycle drawn at the head of proposals.py,   *)
(* for any members, numbers, timers and lags: no pause, button, sweep,     *)
(* late request or chain of overdue steps takes a proposal along an arrow  *)
(* that is not drawn, none is decided against an objection without a vote, *)
(* and an objection is never forgotten.                                    *)
THEOREM LifecycleFollowed == Spec => FollowsLifecycle
<1>1. Init => Lifecycle!Init
  BY InitFollows
<1>2. GoodFloor /\ GoodFloor' /\ FrozenFloor /\ [Next]_vars
          => [Lifecycle!Next]_Lifecycle!vars
  BY StepFollows
<1>3. QED
  BY <1>1, <1>2, AlwaysGood, AlwaysFrozen, PTL DEF Spec, FollowsLifecycle, Lifecycle!Spec

-----------------------------------------------------------------------------
(* One proposal of a mover's at a time. *)

(* Whatever is on the floor after a step was there before, of the same     *)
(* mover, unless the step moved it.                                        *)
LEMMA AltersActive ==
    ASSUME NEW m, NEW n, Alters(m, n), Active(n)
    PROVE  Active(m) /\ n.mover = m.mover
BY DEF Alters, Due, Kept, Still, Decides, OpensVote, Edited, Withdrawn, Seconded, Spoke,
       Voted, DraftSaved, Filled, Published, Shipped, Active, ActiveStates

(* A motion is moved onto a floor that holds no other of its mover's.      *)
LEMMA MoveAlone ==
    ASSUME GoodFloor, NEW x \in Members, NEW p \in Ids, NEW now \in Nat,
           Move(x, p, now)
    PROVE  /\ motions'[p].mover = x
           /\ \A q \in Ids : q # p /\ Active(motions'[q]) =>
                  /\ Active(motions[q]) /\ motions'[q].mover = motions[q].mover
                  /\ motions'[q].mover # x
<1> DEFINE mine == {q \in Ids : motions[q].mover = x /\ Active(motions[q])}
<1>1. /\ motions' = [Applied(mine, now) EXCEPT ![p] = NewMotion(x, now)]
      /\ \A q \in mine : ~Active(Applied(mine, now)[q])
  BY DEF Move
<1>2. DOMAIN Applied(mine, now) = Ids
  BY DEF Applied
<1>3. \A q \in Ids : Alters(motions[q], Applied(mine, now)[q])
  BY AppliedDue DEF Alters
<1>4. motions'[p] = NewMotion(x, now)
      /\ \A q \in Ids : q # p => motions'[q] = Applied(mine, now)[q]
  BY <1>1, <1>2
<1>5. motions'[p].mover = x
  BY <1>4 DEF NewMotion, NoMotion
<1>6. \A q \in Ids : q \in mine <=> motions[q].mover = x /\ Active(motions[q])
  OBVIOUS
<1> HIDE DEF mine
<1>7. ASSUME NEW q \in Ids, q # p, Active(motions'[q])
      PROVE  /\ Active(motions[q]) /\ motions'[q].mover = motions[q].mover
             /\ motions'[q].mover # x
  <2>1. Active(motions[q]) /\ motions'[q].mover = motions[q].mover
    BY <1>3, <1>4, <1>7, AltersActive
  <2>2. q \notin mine
    BY <1>1, <1>4, <1>7
  <2>3. QED
    BY <1>6, <2>1, <2>2
<1>8. QED
  BY <1>5, <1>7

(* However withdrawals, lapses, pauses and late requests cross, no member  *)
(* ever has two proposals on the floor.                                    *)
THEOREM NeverTwoActive == Spec => []OneActive
<1>1. Init => OneActive
  BY DEF Init, OneActive, NoMotion, Active, ActiveStates
<1>2. GoodFloor /\ OneActive /\ [Next]_vars => OneActive'
  <2> SUFFICES ASSUME GoodFloor, OneActive, [Next]_vars
               PROVE  OneActive'
    OBVIOUS
  <2>1. CASE \A q \in Ids : Alters(motions[q], motions'[q])
    <3>1. \A q \in Ids : Active(motions'[q]) =>
              Active(motions[q]) /\ motions'[q].mover = motions[q].mover
      BY <2>1, AltersActive
    <3>2. QED
      BY <3>1 DEF OneActive, Active
  <2>2. CASE SomeMove
    <3>1. PICK x \in Members, p \in Ids, now \in admit : Move(x, p, now)
      BY <2>2 DEF SomeMove
    <3>2. /\ motions'[p].mover = x
          /\ \A q \in Ids : q # p /\ Active(motions'[q]) =>
                 /\ Active(motions[q]) /\ motions'[q].mover = motions[q].mover
                 /\ motions'[q].mover # x
      BY <3>1, MoveAlone DEF GoodFloor
    <3>3. QED
      BY <3>2 DEF OneActive, Active
  <2>3. QED
    BY <2>1, <2>2, NextAlters
<1>3. QED
  BY <1>1, <1>2, AlwaysGood, PTL DEF Spec

-----------------------------------------------------------------------------
(* The timeline.                                                           *)

(* A time a request or a sweep may write at c with. *)
Prompt(now, c) == now \in Nat /\ now <= c /\ c <= now + Lag

(* What TimelineInOrder rests on: an active motion's deadline is no older  *)
(* than the lag before what has happened to it, and its debate's end and   *)
(* its decision are still to come.                                         *)
Timed(m, c) ==
    /\ m.secondedAt <= c /\ m.debateEnded <= c
    /\ m.voteClosed <= c /\ m.decided <= c
    /\ m.debateEnded # Never => m.secondedAt <= m.debateEnded + Lag
    /\ m.voteClosed # Never => m.debateEnded <= m.voteClosed + Lag
    /\ m.decided # Never => m.secondedAt <= m.decided + Lag
    /\ Active(m) =>
           /\ m.secondedAt <= m.deadline + Lag
           /\ m.debateEnded <= m.deadline + Lag
           /\ m.decided = Never
    /\ m.state \in {"none", "submitted", "debate"} => m.debateEnded = Never
    /\ m.state \in {"none", "submitted"} => m.secondedAt = Never
    /\ m.state = "none" => m.decided = Never

Punctually ==
    /\ \A now \in admit : Prompt(now, clock)
    /\ \A s \in Sweepers : sweep[s] # Never => Prompt(sweep[s], clock)

TimedFloor ==
    /\ Punctually
    /\ \A p \in Ids : Timed(motions[p], clock)

LEMMA MotionTimes ==
    ASSUME NEW m \in Motion
    PROVE  /\ m.secondedAt \in Int /\ m.secondedAt >= -1
           /\ m.debateEnded \in Int /\ m.debateEnded >= -1
           /\ m.voteClosed \in Int /\ m.voteClosed >= -1
           /\ m.decided \in Int /\ m.decided >= -1
           /\ m.deadline \in Int /\ m.deadline >= -1
BY DEF Motion, Time, Never

LEMMA PassTimed ==
    ASSUME NEW m \in Motion, NEW c \in Nat, NEW at \in Nat, at <= c,
           m.secondedAt <= at + Lag, m.debateEnded <= c, m.voteClosed <= c,
           m.secondedAt <= c,
           m.debateEnded # Never => m.secondedAt <= m.debateEnded + Lag,
           m.voteClosed # Never => m.debateEnded <= m.voteClosed + Lag
    PROVE  Timed(PassAt(m, at), c)
<1> DEFINE n == PassAt(m, at)
<1>1. /\ n.state = "passed" /\ n.decided = at /\ n.secondedAt = m.secondedAt
      /\ n.debateEnded = m.debateEnded /\ n.voteClosed = m.voteClosed
  BY DEF PassAt, Motion
<1> HIDE DEF n
<1>2. Timed(n, c)
  BY <1>1 DEF Timed, Active, ActiveStates
<1>3. QED
  BY <1>2 DEF n

LEMMA CloseVoteTimed ==
    ASSUME NEW m, NEW c \in Nat, GoodMotion(m), Timed(m, c), m.state = "voting",
           m.deadline <= c
    PROVE  Timed(CloseVoteOf(m), c)
<1> DEFINE closed == [m EXCEPT !.voteClosed = m.deadline]
           lost == [closed EXCEPT !.state = "failed", !.deadline = Never,
                                  !.decided = m.deadline]
<1>1. m \in Motion /\ m.deadline \in Nat /\ Active(m) /\ Lag \in Nat
  BY FloorAssumption DEF GoodMotion, Active, ActiveStates
<1>2. /\ closed \in Motion /\ closed.voteClosed = m.deadline
      /\ closed.secondedAt = m.secondedAt /\ closed.debateEnded = m.debateEnded
  BY <1>1 DEF Motion, Time
<1>3. CASE Carried(m)
  <2>1. CloseVoteOf(m) = PassAt(closed, m.deadline)
    BY <1>3 DEF CloseVoteOf
  <2> HIDE DEF closed
  <2>2. Timed(PassAt(closed, m.deadline), c)
    BY <1>1, <1>2, PassTimed, MotionTimes DEF Timed
  <2>3. QED
    BY <2>1, <2>2
<1>4. CASE ~Carried(m)
  <2>1. CloseVoteOf(m) = lost
    BY <1>4 DEF CloseVoteOf
  <2>2. /\ lost.state = "failed" /\ lost.decided = m.deadline
        /\ lost.voteClosed = m.deadline
        /\ lost.secondedAt = m.secondedAt /\ lost.debateEnded = m.debateEnded
    BY <1>1 DEF Motion
  <2> HIDE DEF lost
  <2>3. Timed(lost, c)
    BY <1>1, <2>2, MotionTimes DEF Timed, Active, ActiveStates
  <2>4. QED
    BY <2>1, <2>3
<1>5. QED
  BY <1>3, <1>4

LEMMA LapseTimed ==
    ASSUME NEW m, NEW c \in Nat, GoodMotion(m), Timed(m, c), m.state = "submitted",
           m.deadline <= c
    PROVE  Timed(LapseOf(m), c)
<1> DEFINE n == LapseOf(m)
<1>1. m \in Motion /\ m.deadline \in Nat /\ Active(m) /\ Lag \in Nat
  BY FloorAssumption DEF GoodMotion, Active, ActiveStates
<1>2. /\ n.state = "lapsed" /\ n.decided = m.deadline /\ n.secondedAt = m.secondedAt
      /\ n.debateEnded = m.debateEnded /\ n.voteClosed = m.voteClosed
  BY <1>1 DEF LapseOf, Motion
<1> HIDE DEF n
<1>3. Timed(n, c)
  BY <1>1, <1>2, MotionTimes DEF Timed, Active, ActiveStates
<1>4. QED
  BY <1>3 DEF n

LEMMA OpenVoteTimed ==
    ASSUME NEW m, NEW c \in Nat, GoodMotion(m), Timed(m, c), m.state = "debate",
           m.deadline <= c, NEW kind \in Kinds
    PROVE  Timed(OpenVoteOf(m, kind), c)
<1> DEFINE n == OpenVoteOf(m, kind)
<1>1. m \in Motion /\ m.deadline \in Nat /\ Active(m) /\ Lag \in Nat
  BY FloorAssumption DEF GoodMotion, Active, ActiveStates
<1>2. Timers[kind]["vote"] \in Nat
  BY TimersPositive DEF Periods
<1>3. /\ n.state = "voting" /\ n.decided = m.decided /\ n.secondedAt = m.secondedAt
      /\ n.debateEnded = m.deadline /\ n.voteClosed = m.voteClosed
      /\ n.deadline = m.deadline + Timers[kind]["vote"]
  BY <1>1 DEF OpenVoteOf, Motion
<1>4. m.voteClosed = Never
  BY <1>1 DEF GoodMotion, Active, UndecidedStates
<1> HIDE DEF n
<1>5. Timed(n, c)
  BY <1>1, <1>2, <1>3, <1>4, MotionTimes DEF Timed, Active, ActiveStates
<1>6. QED
  BY <1>5 DEF n

LEMMA TallyTimed ==
    ASSUME NEW m, NEW c \in Nat, GoodMotion(m), Timed(m, c),
           NEW now \in Nat, now <= c
    PROVE  Timed(TallyOf(m, now), c)
<1>1. m.deadline \in Int
  BY MotionTimes DEF GoodMotion
<1>2. QED
  BY <1>1, CloseVoteTimed DEF TallyOf, Overdue

LEMMA EndDebateTimed ==
    ASSUME NEW m, NEW c \in Nat, GoodMotion(m), Timed(m, c), m.state = "debate",
           NEW now \in Nat, now <= c, m.deadline <= now, NEW kind \in Kinds
    PROVE  Timed(EndDebateOf(m, now, kind), c)
<1>1. m \in Motion /\ m.deadline \in Nat /\ Active(m) /\ Lag \in Nat
      /\ m.voteClosed = Never /\ m.deadline <= c
  BY FloorAssumption DEF GoodMotion, Active, ActiveStates, UndecidedStates
<1>2. CASE Objectors(m) = {}
  <2> DEFINE n == [m EXCEPT !.debateEnded = m.deadline]
  <2>1. /\ n \in Motion /\ n.debateEnded = m.deadline
        /\ n.secondedAt = m.secondedAt /\ n.voteClosed = m.voteClosed
    BY <1>1 DEF Motion, Time
  <2>2. EndDebateOf(m, now, kind) = PassAt(n, m.deadline)
    BY <1>2 DEF EndDebateOf
  <2> HIDE DEF n
  <2>3. m.secondedAt <= c /\ m.voteClosed <= c /\ m.secondedAt <= m.deadline + Lag
    BY <1>1 DEF Timed
  <2>4. Timed(PassAt(n, m.deadline), c)
    BY <1>1, <2>1, <2>3, PassTimed, MotionTimes
  <2>5. QED
    BY <2>2, <2>4
<1>3. CASE Objectors(m) # {}
  <2>1. EndDebateOf(m, now, kind) = TallyOf(OpenVoteOf(m, kind), now)
    BY <1>3 DEF EndDebateOf
  <2>2. GoodMotion(OpenVoteOf(m, kind)) /\ Timed(OpenVoteOf(m, kind), c)
    BY <1>1, <1>3, OpenVoteGood, OpenVoteTimed
  <2>3. QED
    BY <2>1, <2>2, TallyTimed
<1>4. QED
  BY <1>2, <1>3

LEMMA AdvanceTimed ==
    ASSUME NEW m, NEW c \in Nat, GoodMotion(m), Timed(m, c),
           NEW now, Prompt(now, c), NEW kind \in Kinds
    PROVE  Timed(Advance(m, now, kind), c)
<1>1. m \in Motion /\ m.deadline \in Int /\ Lag \in Nat /\ now \in Nat /\ now <= c
  BY MotionTimes, FloorAssumption DEF GoodMotion, Prompt
<1>2. CASE m.state = "submitted" /\ Overdue(m, now)
  <2>1. Advance(m, now, kind) = LapseOf(m)
    BY <1>2 DEF Advance
  <2>2. QED
    BY <1>1, <1>2, <2>1, LapseTimed DEF Overdue
<1>3. CASE m.state = "debate" /\ Overdue(m, now)
  <2>1. Advance(m, now, kind) = EndDebateOf(m, now, kind)
    BY <1>3 DEF Advance
  <2>2. QED
    BY <1>1, <1>3, <2>1, EndDebateTimed DEF Overdue
<1>4. CASE m.state = "debate" /\ ~Overdue(m, now) /\ Unanimous(m)
  <2>1. Advance(m, now, kind) = PassAt(m, now)
    BY <1>4 DEF Advance
  <2>2. m.secondedAt <= now + Lag
    BY <1>1, MotionTimes DEF Timed, Prompt
  <2>3. QED
    BY <1>1, <2>1, <2>2, PassTimed DEF Timed
<1>5. CASE ~(m.state \in {"submitted", "debate"} /\ Overdue(m, now))
           /\ ~(m.state = "debate" /\ ~Overdue(m, now) /\ Unanimous(m))
  <2>1. Advance(m, now, kind) = TallyOf(m, now)
    BY <1>5 DEF Advance
  <2>2. QED
    BY <1>1, <2>1, TallyTimed
<1>6. QED
  BY <1>2, <1>3, <1>4, <1>5

(* A change that dates nothing, and moves a deadline no further back than  *)
(* the lag, keeps the timeline in order.                                   *)
LEMMA SameTimes ==
    ASSUME NEW m \in Motion, NEW n \in Motion, NEW c \in Nat, Timed(m, c),
           n.secondedAt = m.secondedAt, n.debateEnded = m.debateEnded,
           n.voteClosed = m.voteClosed, n.decided = m.decided,
           n.state \in UndecidedStates =>
               /\ n.state = m.state
               /\ n.deadline >= m.deadline \/ c <= n.deadline + Lag
    PROVE  Timed(n, c)
<1>1. Lag \in Nat
  BY FloorAssumption
<1>2. QED
  BY <1>1, MotionTimes DEF Timed, Active, ActiveStates, UndecidedStates

LEMMA ResumedTimed ==
    ASSUME NEW m \in Motion, NEW c \in Nat, Timed(m, c), NEW now \in Nat,
           Resumed(m, now) \in Motion, closedSince \in Int
    PROVE  Timed(Resumed(m, now), c)
<1> DEFINE n == Resumed(m, now)
<1>1. m.deadline \in Int /\ ClosedFor(now) \in Nat
  BY MotionTimes DEF ClosedFor
<1>2. /\ n.state = m.state /\ n.secondedAt = m.secondedAt
      /\ n.debateEnded = m.debateEnded /\ n.voteClosed = m.voteClosed
      /\ n.decided = m.decided
      /\ n.deadline = m.deadline \/ n.deadline = m.deadline + ClosedFor(now)
  BY DEF Resumed, Motion
<1> HIDE DEF n
<1>3. n \in Motion
  BY DEF n
<1>4. n.deadline >= m.deadline
  BY <1>1, <1>2
<1>5. Timed(n, c)
  BY <1>2, <1>3, <1>4, SameTimes
<1>6. QED
  BY <1>5 DEF n

LEMMA AppliedTimed ==
    ASSUME GoodFloor, TimedFloor, NEW S, NEW p \in Ids, NEW now, Prompt(now, clock)
    PROVE  /\ Timed(Synced(now)[p], clock)
           /\ Timed(Applied(S, now)[p], clock)
<1> DEFINE m == Synced(now)[p]
<1>1. /\ clock \in Nat /\ timers \in Kinds /\ now \in Nat /\ closedSince \in Int
      /\ motions[p] \in Motion /\ Timed(motions[p], clock)
  BY DEF GoodFloor, GoodMotions, TimedFloor, Prompt, Time, Never
<1>2. GoodMotion(m) /\ m \in Motion
  BY <1>1, SyncedGood DEF GoodMotions, GoodMotion
<1>3. Timed(m, clock)
  <2>1. CASE canAct /\ closedSince # Never
    <3>1. m = Resumed(motions[p], now)
      BY <2>1 DEF Synced
    <3>2. QED
      BY <1>1, <1>2, <3>1, ResumedTimed
  <2>2. CASE ~(canAct /\ closedSince # Never)
    BY <1>1, <2>2 DEF Synced
  <2>3. QED
    BY <2>1, <2>2
<1>4. Timed(Advance(m, now, timers), clock)
  BY <1>1, <1>2, <1>3, AdvanceTimed
<1>5. Applied(S, now)[p] \in {m, Advance(m, now, timers)}
  BY DEF Applied
<1> HIDE DEF m
<1>6. QED
  BY <1>3, <1>4, <1>5 DEF m

LEMMA WriteTimed ==
    ASSUME GoodFloor, TimedFloor, NEW p \in Ids, NEW now, Prompt(now, clock),
           NEW n, Timed(n, clock), Write(p, now, n)
    PROVE  TimedFloor'
<1>1. motions' = [Applied({p}, now) EXCEPT ![p] = n]
      /\ UNCHANGED <<clock, admit, sweep>>
  BY DEF Write
<1>2. DOMAIN Applied({p}, now) = Ids
  BY DEF Applied
<1>3. motions'[p] = n /\ \A q \in Ids : q # p => motions'[q] = Applied({p}, now)[q]
  BY <1>1, <1>2
<1>4. \A q \in Ids : Timed(motions'[q], clock)
  BY <1>3, AppliedTimed
<1>5. QED
  BY <1>1, <1>4 DEF TimedFloor, Punctually

(* What a write starts from: the motion brought up to date. *)
LEMMA CurrentTimed ==
    ASSUME GoodFloor, TimedFloor, NEW p \in Ids, NEW now, Prompt(now, clock)
    PROVE  /\ Timed(Current(p, now), clock) /\ GoodMotion(Current(p, now))
           /\ Current(p, now) \in Motion
           /\ clock \in Nat /\ now \in Nat /\ timers \in Kinds
<1>1. now \in Nat
  BY DEF Prompt
<1>2. QED
  BY <1>1, AppliedTimed, CurrentGood DEF Current, GoodFloor, GoodMotion

LEMMA MoveTimed ==
    ASSUME GoodFloor, TimedFloor, NEW x \in Members, NEW p \in Ids,
           NEW now, Prompt(now, clock), Move(x, p, now)
    PROVE  TimedFloor'
<1> DEFINE mine == {q \in Ids : motions[q].mover = x /\ Active(motions[q])}
           n == NewMotion(x, now)
<1>1. motions' = [Applied(mine, now) EXCEPT ![p] = n] /\ UNCHANGED <<clock, admit, sweep>>
  BY DEF Move
<1>2. DOMAIN Applied(mine, now) = Ids
  BY DEF Applied
<1>3. now \in Nat /\ Timers[timers]["lapse"] \in Nat /\ clock \in Nat /\ Lag \in Nat
  BY TimersPositive, FloorAssumption DEF Prompt, GoodFloor, Periods
<1>4. /\ n.secondedAt = -1 /\ n.debateEnded = -1 /\ n.voteClosed = -1
      /\ n.decided = -1 /\ n.state = "submitted"
      /\ n.deadline = now + Timers[timers]["lapse"]
  BY DEF NewMotion, NoMotion, Never
<1> HIDE DEF mine, n
<1>5. Timed(n, clock)
  BY <1>3, <1>4 DEF Timed, Never
<1>6. motions'[p] = n /\ \A q \in Ids : q # p => motions'[q] = Applied(mine, now)[q]
  BY <1>1, <1>2
<1>7. \A q \in Ids : Timed(motions'[q], clock)
  BY <1>5, <1>6, AppliedTimed
<1>8. QED
  BY <1>1, <1>7 DEF TimedFloor, Punctually

LEMMA EditTimed ==
    ASSUME GoodFloor, TimedFloor, NEW x \in Members, NEW p \in Ids,
           NEW now, Prompt(now, clock), Edit(x, p, now)
    PROVE  TimedFloor'
<1> DEFINE m == Current(p, now)
           n == [m EXCEPT !.revision = @ + 1]
<1>1. Timed(m, clock) /\ m \in Motion /\ clock \in Nat
  BY CurrentTimed
<1>2. Write(p, now, n)
  BY DEF Edit
<1>3. n \in Motion
  BY <1>1 DEF Motion
<1>4. /\ n.state = m.state /\ n.secondedAt = m.secondedAt
      /\ n.debateEnded = m.debateEnded /\ n.voteClosed = m.voteClosed
      /\ n.decided = m.decided /\ n.deadline = m.deadline
  BY <1>1 DEF Motion
<1> HIDE DEF m, n
<1>5. Timed(n, clock)
  BY <1>1, <1>3, <1>4, SameTimes, MotionTimes
<1>6. QED
  BY <1>2, <1>5, WriteTimed

LEMMA WithdrawTimed ==
    ASSUME GoodFloor, TimedFloor, NEW x \in Members, NEW p \in Ids,
           NEW now, Prompt(now, clock), Withdraw(x, p, now)
    PROVE  TimedFloor'
<1> DEFINE m == Current(p, now)
           n == [m EXCEPT !.state = "withdrawn", !.deadline = Never, !.decided = now]
<1>1. Timed(m, clock) /\ m \in Motion /\ clock \in Nat /\ now \in Nat
  BY CurrentTimed
<1>2. Active(m) /\ Write(p, now, n)
  BY DEF Withdraw
<1>3. /\ n.state = "withdrawn" /\ n.secondedAt = m.secondedAt
      /\ n.debateEnded = m.debateEnded /\ n.voteClosed = m.voteClosed
      /\ n.decided = now
  BY <1>1 DEF Motion
<1>4. Lag \in Nat /\ now <= clock /\ clock <= now + Lag
  BY FloorAssumption DEF Prompt
<1> HIDE DEF m, n
<1>5. Timed(n, clock)
  BY <1>1, <1>3, <1>4, MotionTimes DEF Timed, Active, ActiveStates
<1>6. QED
  BY <1>2, <1>5, WriteTimed

LEMMA SecondTimed ==
    ASSUME GoodFloor, TimedFloor, NEW x \in Members, NEW p \in Ids,
           NEW page, NEW recent,
           NEW now, Prompt(now, clock), Second(x, p, page, recent, now)
    PROVE  TimedFloor'
<1> DEFINE m == Current(p, now)
           n == SecondedBy(m, x, page, recent, now)
<1>1. /\ Timed(m, clock) /\ m \in Motion /\ GoodMotion(m)
      /\ clock \in Nat /\ now \in Nat /\ timers \in Kinds
  BY CurrentTimed
<1>2. m.state = "submitted" /\ Write(p, now, n)
  BY DEF Second
<1>3. Lag \in Nat /\ now <= clock /\ clock <= now + Lag /\ Timers[timers]["debate"] \in Nat
  BY <1>1, TimersPositive, FloorAssumption DEF Prompt, Periods
<1>4. /\ n.state = "debate" /\ n.secondedAt = now
      /\ n.debateEnded = m.debateEnded /\ n.voteClosed = m.voteClosed
      /\ n.decided = m.decided /\ n.deadline = now + Timers[timers]["debate"]
  BY <1>1 DEF SecondedBy, Motion
<1>5. m.debateEnded = Never /\ m.decided = Never /\ m.voteClosed = Never
  BY <1>1, <1>2 DEF Timed, Active, ActiveStates, GoodMotion, UndecidedStates
<1> HIDE DEF m, n
<1>6. Timed(n, clock)
  BY <1>1, <1>3, <1>4, <1>5 DEF Timed, Never
<1>7. QED
  BY <1>2, <1>6, WriteTimed

LEMMA ConsentTimed ==
    ASSUME GoodFloor, TimedFloor, NEW x \in Members, NEW p \in Ids,
           NEW choice \in {"consented", "objected"},
           NEW now, Prompt(now, clock), Consent(x, p, choice, now)
    PROVE  TimedFloor'
<1> DEFINE m == Current(p, now)
           said == [m EXCEPT !.consents = [@ EXCEPT ![x] = choice]]
           n == IF canAct THEN Advance(said, now, timers) ELSE said
<1>1. /\ Timed(m, clock) /\ m \in Motion /\ GoodMotion(m)
      /\ clock \in Nat /\ now \in Nat /\ timers \in Kinds
  BY CurrentTimed
<1>2. m.state = "debate" /\ Write(p, now, n)
  BY DEF Consent
<1>3. said \in Motion
  <2>1. [m.consents EXCEPT ![x] = choice] \in [Members -> {"none", "consented", "objected"}]
    BY <1>1 DEF Motion
  <2>2. QED
    BY <1>1, <2>1 DEF Motion
<1>4. /\ said.state = m.state /\ said.secondedAt = m.secondedAt
      /\ said.debateEnded = m.debateEnded /\ said.voteClosed = m.voteClosed
      /\ said.decided = m.decided /\ said.deadline = m.deadline /\ said.mover = m.mover
  BY <1>1 DEF Motion
<1> HIDE DEF m, said
<1>5. Timed(said, clock)
  BY <1>1, <1>3, <1>4, SameTimes, MotionTimes
<1>6. GoodMotion(said)
  BY <1>1, <1>2, <1>3, <1>4
  DEF GoodMotion, Active, ActiveStates, UndecidedStates, SoundlyDecided, PassedStates
<1>7. Timed(n, clock)
  BY <1>1, <1>5, <1>6, AdvanceTimed
<1>8. QED
  BY <1>2, <1>7, WriteTimed DEF said, m

LEMMA VoteTimed ==
    ASSUME GoodFloor, TimedFloor, NEW x \in Members, NEW p \in Ids,
           NEW choice \in {"yes", "no", "abstain"},
           NEW now, Prompt(now, clock), Vote(x, p, choice, now)
    PROVE  TimedFloor'
<1> DEFINE m == Current(p, now)
           n == [m EXCEPT !.ballots = [@ EXCEPT ![x] = choice]]
<1>1. Timed(m, clock) /\ m \in Motion /\ clock \in Nat
  BY CurrentTimed
<1>2. Write(p, now, n)
  BY DEF Vote
<1>3. n \in Motion
  <2>1. [m.ballots EXCEPT ![x] = choice] \in [Members -> {"none", "yes", "no", "abstain"}]
    BY <1>1 DEF Motion
  <2>2. QED
    BY <1>1, <2>1 DEF Motion
<1>4. /\ n.state = m.state /\ n.secondedAt = m.secondedAt
      /\ n.debateEnded = m.debateEnded /\ n.voteClosed = m.voteClosed
      /\ n.decided = m.decided /\ n.deadline = m.deadline
  BY <1>1 DEF Motion
<1> HIDE DEF m, n
<1>5. Timed(n, clock)
  BY <1>1, <1>3, <1>4, SameTimes, MotionTimes
<1>6. QED
  BY <1>2, <1>5, WriteTimed

LEMMA AdminWriteTimed ==
    ASSUME GoodFloor, TimedFloor, NEW p \in Ids, NEW now, Prompt(now, clock),
           AdminWrite(p, now)
    PROVE  TimedFloor'
<1> DEFINE m == Current(p, now)
<1>1. /\ Timed(m, clock) /\ m \in Motion /\ GoodMotion(m)
      /\ clock \in Nat /\ now \in Nat /\ timers \in Kinds
  BY CurrentTimed
<1>2. ASSUME NEW period \in {"debate", "vote"},
             Write(p, now, Advance([m EXCEPT !.deadline = now, !.cut = @ \cup {period}],
                                   now, timers))
      PROVE  TimedFloor'
  <2> DEFINE k == [m EXCEPT !.deadline = now, !.cut = @ \cup {period}]
  <2>1. GoodMotion(k) /\ k \in Motion
    BY <1>1, DueNowGood DEF GoodMotion
  <2>2. /\ k.state = m.state /\ k.secondedAt = m.secondedAt
        /\ k.debateEnded = m.debateEnded /\ k.voteClosed = m.voteClosed
        /\ k.decided = m.decided /\ k.deadline = now
    BY <1>1 DEF Motion
  <2>3. clock <= now + Lag
    BY DEF Prompt
  <2> HIDE DEF m, k
  <2>4. Timed(k, clock)
    BY <1>1, <2>1, <2>2, <2>3, SameTimes
  <2>5. Timed(Advance(k, now, timers), clock)
    BY <1>1, <2>1, <2>4, AdvanceTimed
  <2>6. Write(p, now, Advance(k, now, timers))
    BY <1>2 DEF k
  <2>7. QED
    BY <2>5, <2>6, WriteTimed
<1>3. ASSUME NEW n \in Motion, Write(p, now, n), n.state \notin UndecidedStates,
             n.secondedAt = m.secondedAt, n.debateEnded = m.debateEnded,
             n.voteClosed = m.voteClosed, n.decided = m.decided
      PROVE  TimedFloor'
  BY <1>1, <1>3, SameTimes, WriteTimed
<1>4. CASE EndDebate(p, now)
  BY <1>2, <1>4 DEF EndDebate
<1>5. CASE CloseVote(p, now)
  BY <1>2, <1>5 DEF CloseVote
<1>6. CASE PutDraft(p, now)
  BY <1>1, <1>3, <1>6 DEF PutDraft, Motion, UndecidedStates, ActiveStates
<1>7. CASE Publish(p, now)
  <2> DEFINE n == [m EXCEPT !.state = "building"]
  <2>1. n \in Motion
    BY <1>1 DEF Motion, States
  <2>2. /\ n.state = "building"
        /\ n.secondedAt = m.secondedAt /\ n.debateEnded = m.debateEnded
        /\ n.voteClosed = m.voteClosed /\ n.decided = m.decided
    BY <1>1 DEF Motion
  <2>3. Write(p, now, n)
    BY <1>7 DEF Publish
  <2> HIDE DEF n
  <2>4. QED
    BY <1>3, <2>1, <2>2, <2>3 DEF UndecidedStates, ActiveStates
<1>8. QED
  BY <1>4, <1>5, <1>6, <1>7 DEF AdminWrite

LEMMA ShipTimed ==
    ASSUME NEW m \in Motion, NEW c \in Nat, Timed(m, c), m.state = "building"
    PROVE  Timed(ShipOf(m), c)
<1> DEFINE n == ShipOf(m)
<1>1. n \in Motion
  BY DEF ShipOf, Motion, States
<1>2. /\ n.state = "shipped"
      /\ n.secondedAt = m.secondedAt /\ n.debateEnded = m.debateEnded
      /\ n.voteClosed = m.voteClosed /\ n.decided = m.decided
  BY DEF ShipOf, Motion
<1> HIDE DEF n
<1>3. Timed(n, c)
  BY <1>1, <1>2, SameTimes DEF UndecidedStates, ActiveStates
<1>4. QED
  BY <1>3 DEF n

LEMMA SetTestTimersTimed ==
    ASSUME GoodFloor, TimedFloor, NEW now, Prompt(now, clock), SetTestTimers(now)
    PROVE  TimedFloor'
<1> DEFINE due == {p \in Ids : Active(motions[p]) /\ Overdue(Synced(now)[p], now)}
           floor == Applied(due, now)
           ships(p) == canAct /\ p \in merged /\ floor[p].state = "building"
<1>1. now \in Nat /\ clock \in Nat
  BY DEF Prompt, GoodFloor
<1>2. \A p \in Ids : Timed(floor[p], clock) /\ floor[p] \in Motion
  BY <1>1, AppliedTimed, AppliedGood DEF GoodMotions
<1>3. /\ motions' = [p \in Ids |-> IF ships(p) THEN ShipOf(floor[p]) ELSE floor[p]]
      /\ UNCHANGED <<clock, admit, sweep>>
  BY DEF SetTestTimers
<1> HIDE DEF floor
<1>4. \A p \in Ids : Timed(motions'[p], clock)
  BY <1>1, <1>2, <1>3, ShipTimed
<1>5. QED
  BY <1>3, <1>4 DEF TimedFloor, Punctually

LEMMA OneTimed ==
    ASSUME GoodFloor, TimedFloor, NEW p \in Ids, NEW n, Timed(n, clock),
           motions' = [motions EXCEPT ![p] = n], UNCHANGED <<clock, admit, sweep>>
    PROVE  TimedFloor'
<1>1. motions \in [Ids -> Motion]
  BY DEF GoodFloor, GoodMotions
<1>2. motions'[p] = n /\ \A q \in Ids : q # p => motions'[q] = motions[q]
  BY <1>1
<1>3. QED
  BY <1>2 DEF TimedFloor, Punctually

LEMMA HouseSpecTimed ==
    ASSUME GoodFloor, TimedFloor, NEW p \in Ids, ApplyHouseSpec(p)
    PROVE  TimedFloor'
<1> DEFINE m == motions[p]
           n == [m EXCEPT !.draft = "house"]
<1>1. m \in Motion /\ Timed(m, clock) /\ clock \in Nat /\ m.state = "passed"
  BY DEF GoodFloor, GoodMotions, TimedFloor, ApplyHouseSpec
<1>2. motions' = [motions EXCEPT ![p] = n] /\ UNCHANGED <<clock, admit, sweep>>
  BY DEF ApplyHouseSpec
<1>3. /\ n \in Motion /\ n.state = "passed"
      /\ n.secondedAt = m.secondedAt /\ n.debateEnded = m.debateEnded
      /\ n.voteClosed = m.voteClosed /\ n.decided = m.decided
  BY <1>1 DEF Motion
<1> HIDE DEF n
<1>4. Timed(n, clock)
  BY <1>1, <1>3, SameTimes DEF UndecidedStates, ActiveStates
<1>5. QED
  BY <1>2, <1>4, OneTimed

LEMMA ShippedTimed ==
    ASSUME GoodFloor, TimedFloor, NEW p \in Ids, motions[p].state = "building",
           motions' = [motions EXCEPT ![p] = ShipOf(@)], UNCHANGED <<clock, admit, sweep>>
    PROVE  TimedFloor'
<1>1. Timed(ShipOf(motions[p]), clock)
  BY ShipTimed DEF GoodFloor, GoodMotions, TimedFloor
<1>2. QED
  BY <1>1, OneTimed

LEMMA SweepingTimed ==
    ASSUME GoodFloor, TimedFloor, NEW s \in Sweepers, Sweeping(s)
    PROVE  TimedFloor'
<1>1. ASSUME NEW now \in Window(clock), BeginSweep(s, now)
      PROVE  TimedFloor'
  <2>1. Prompt(now, clock) /\ clock \in Nat /\ Lag \in Nat
    BY FloorAssumption DEF Window, Prompt, GoodFloor
  <2>2. \A p \in Ids : Timed(motions'[p], clock)
    BY <1>1, <2>1, AppliedTimed DEF BeginSweep
  <2>3. sweep' = [sweep EXCEPT ![s] = IF canAct THEN now ELSE Never]
        /\ UNCHANGED <<clock, admit>>
    BY <1>1 DEF BeginSweep
  <2>4. sweep \in [Sweepers -> Time]
    BY DEF GoodFloor
  <2>5. \A r \in Sweepers : sweep'[r] # Never => Prompt(sweep'[r], clock)
    BY <2>1, <2>3, <2>4 DEF TimedFloor, Punctually
  <2>6. QED
    BY <2>2, <2>3, <2>5 DEF TimedFloor, Punctually
<1>2. ASSUME NEW p \in Ids, SweepApply(s, p)
      PROVE  TimedFloor'
  <2> DEFINE n == Advance(motions[p], sweep[s], timers)
  <2>1. /\ Prompt(sweep[s], clock) /\ timers \in Kinds /\ GoodMotion(motions[p])
        /\ Timed(motions[p], clock) /\ clock \in Nat
    BY <1>2 DEF SweepApply, GoodFloor, GoodMotions, TimedFloor, Punctually
  <2>2. Timed(n, clock)
    BY <2>1, AdvanceTimed
  <2>3. motions' = [motions EXCEPT ![p] = n] /\ UNCHANGED <<clock, admit, sweep>>
    BY <1>2 DEF SweepApply
  <2> HIDE DEF n
  <2>4. QED
    BY <2>2, <2>3, OneTimed
<1>3. ASSUME NEW p \in Ids, SweepShip(s, p)
      PROVE  TimedFloor'
  BY <1>3, ShippedTimed DEF SweepShip
<1>4. CASE EndSweep(s)
  <2>1. sweep \in [Sweepers -> Time]
    BY DEF GoodFloor
  <2>2. sweep' = [sweep EXCEPT ![s] = Never] /\ UNCHANGED <<clock, admit, motions>>
    BY <1>4 DEF EndSweep
  <2>3. \A r \in Sweepers : sweep'[r] # Never => Prompt(sweep'[r], clock)
    BY <2>1, <2>2 DEF TimedFloor, Punctually
  <2>4. QED
    BY <2>2, <2>3 DEF TimedFloor, Punctually
<1>5. QED
  BY <1>1, <1>2, <1>3, <1>4 DEF Sweeping

LEMMA LaterTimed ==
    ASSUME NEW m \in Motion, NEW c \in Nat, Timed(m, c)
    PROVE  Timed(m, c + 1)
BY MotionTimes DEF Timed

LEMMA TickTimed ==
    ASSUME GoodFloor, TimedFloor, Tick
    PROVE  TimedFloor'
<1>1. clock \in Nat /\ clock' = clock + 1 /\ Lag \in Nat /\ UNCHANGED <<motions, sweep>>
  BY FloorAssumption DEF GoodFloor, Tick
<1>2. admit' \subseteq Window(clock + 1)
  BY DEF Tick
<1>3. \A now \in admit' : Prompt(now, clock + 1)
  BY <1>1, <1>2 DEF Window, Prompt
<1>4. \A s \in Sweepers : sweep[s] # Never => Prompt(sweep[s], clock + 1)
  BY <1>1 DEF Tick, TimedFloor, Punctually, Prompt
<1>5. \A p \in Ids : Timed(motions[p], clock + 1)
  BY <1>1, LaterTimed DEF GoodFloor, GoodMotions, TimedFloor
<1>6. QED
  BY <1>1, <1>3, <1>4, <1>5 DEF TimedFloor, Punctually

LEMMA NextTimed ==
    ASSUME GoodFloor, TimedFloor, [Next]_vars
    PROVE  TimedFloor'
<1>1. \A now \in admit : Prompt(now, clock)
  BY DEF TimedFloor, Punctually
<1>2. CASE Tick
  BY <1>2, TickTimed
<1>3. CASE FlagsOff \/ UNCHANGED vars
  BY <1>3 DEF FlagsOff, vars, TimedFloor, Punctually
<1>4. CASE FlagsOn
  <2>1. \A now \in admit' : Prompt(now, clock)
    BY <1>4, FloorAssumption DEF FlagsOn, Window, Prompt, GoodFloor
  <2>2. QED
    BY <1>4, <2>1 DEF FlagsOn, TimedFloor, Punctually
<1>5. CASE \E now \in admit : SetTestTimers(now)
  BY <1>1, <1>5, SetTestTimersTimed
<1>6. CASE \E p \in Ids, now \in admit : AdminWrite(p, now)
  BY <1>1, <1>6, AdminWriteTimed
<1>7. CASE \E x \in Members, p \in Ids, now \in admit : MemberWrite(x, p, now)
  BY <1>1, <1>7, MoveTimed, EditTimed, WithdrawTimed, SecondTimed, ConsentTimed, VoteTimed
  DEF MemberWrite
<1>8. CASE \E p \in Ids : ApplyHouseSpec(p) \/ Merge(p)
  <2>1. PICK p \in Ids : ApplyHouseSpec(p) \/ Merge(p)
    BY <1>8
  <2>2. CASE Merge(p)
    <3>1. motions[p].state = "building" /\ UNCHANGED <<clock, admit, sweep>>
      BY <2>2 DEF Merge
    <3>2. CASE motions' = [motions EXCEPT ![p] = ShipOf(@)]
      BY <3>1, <3>2, ShippedTimed
    <3>3. CASE UNCHANGED motions
      BY <3>1, <3>3 DEF TimedFloor, Punctually
    <3>4. QED
      BY <2>2, <3>2, <3>3 DEF Merge
  <2>3. QED
    BY <2>1, <2>2, HouseSpecTimed
<1>9. CASE \E s \in Sweepers : Sweeping(s)
  BY <1>9, SweepingTimed
<1>10. QED
  BY <1>2, <1>3, <1>4, <1>5, <1>6, <1>7, <1>8, <1>9 DEF Next

LEMMA InitTimed == Init => TimedFloor
<1> SUFFICES ASSUME Init
             PROVE  TimedFloor
  OBVIOUS
<1>1. Lag \in Nat /\ clock = 0 /\ \A now \in admit : Prompt(now, clock)
  BY FloorAssumption DEF Init, Window, Prompt
<1>2. /\ NoMotion.secondedAt = -1 /\ NoMotion.debateEnded = -1
      /\ NoMotion.voteClosed = -1 /\ NoMotion.decided = -1
      /\ NoMotion.state = "none"
  BY DEF NoMotion, Never
<1>3. Timed(NoMotion, 0)
  BY <1>1, <1>2 DEF Timed, Never, Active, ActiveStates
<1>4. QED
  BY <1>1, <1>3 DEF Init, TimedFloor, Punctually

(* The timeline is dated in order up to the lag, and never in the future,  *)
(* whatever the timers and the lag, and however often the floor is closed  *)
(* and opened, its deadlines brought forward, or its steps applied late.   *)
THEOREM TimelineDated == Spec => []TimelineInOrder
<1>1. TimedFloor => TimelineInOrder
  BY DEF TimedFloor, Timed, TimelineInOrder
<1>2. GoodFloor /\ TimedFloor /\ [Next]_vars => TimedFloor'
  BY NextTimed
<1>3. QED
  BY <1>1, <1>2, InitTimed, AlwaysGood, PTL DEF Spec

-----------------------------------------------------------------------------
(* Deadlines wait. *)

(* A motion that stays in its state keeps its deadline, or has the one the *)
(* end of the pause gives it.                                              *)
Waits(m, n, now) ==
    n.state = m.state =>
        \/ n.deadline = m.deadline
        \/ canAct /\ closedSince # Never /\ n.deadline = Resumed(m, now).deadline

LEMMA ResumedLater ==
    ASSUME NEW m \in Motion, NEW now \in Nat, NEW c \in Nat, now <= c,
           closedSince \in Nat, Resumed(m, now).deadline # m.deadline
    PROVE  /\ m.deadline < Resumed(m, now).deadline
           /\ Resumed(m, now).deadline - m.deadline <= c - closedSince
<1>1. m.deadline \in Int
  BY MotionTimes
<1>2. Resumed(m, now).deadline = m.deadline + ClosedFor(now)
  BY DEF Resumed, Motion
<1>3. QED
  BY <1>1, <1>2 DEF ClosedFor

(* A step that was due leaves the state it was due in. *)
LEMMA AdvanceLeaves ==
    ASSUME NEW m, GoodMotion(m), NEW now \in Nat, NEW kind \in Kinds
    PROVE  /\ Advance(m, now, kind).state = m.state => Advance(m, now, kind) = m
           /\ m.state \in {"debate", "voting"} /\ Overdue(m, now)
                  => Advance(m, now, kind).state # m.state
<1> DEFINE n == Advance(m, now, kind)
<1>1. m \in Motion
  BY DEF GoodMotion
<1>2. CASE m.state = "submitted" /\ Overdue(m, now)
  BY <1>1, <1>2 DEF Advance, LapseOf, Motion
<1>3. CASE m.state = "debate" /\ Overdue(m, now)
  <2>1. n = EndDebateOf(m, now, kind)
    BY <1>3 DEF Advance
  <2>2. CASE Objectors(m) = {}
    <3>1. [m EXCEPT !.debateEnded = m.deadline] \in Motion
      BY <1>1 DEF Motion
    <3>2. n = PassAt([m EXCEPT !.debateEnded = m.deadline], m.deadline)
      BY <2>1, <2>2 DEF EndDebateOf
    <3>3. n.state = "passed"
      BY <3>1, <3>2, PassDue
    <3>4. QED
      BY <1>3, <3>3
  <2>3. CASE Objectors(m) # {}
    <3>1. n = TallyOf(OpenVoteOf(m, kind), now)
      BY <2>1, <2>3 DEF EndDebateOf
    <3>2. GoodMotion(OpenVoteOf(m, kind)) /\ OpenVoteOf(m, kind).state = "voting"
      BY <1>3, <2>3, OpenVoteGood
    <3>3. Due(OpenVoteOf(m, kind), n)
      BY <3>1, <3>2, TallyDue
    <3>4. n.state # "debate"
      BY <3>2, <3>3 DEF Due, Still, Decides, OpensVote
    <3>5. QED
      BY <1>3, <3>4
  <2>4. QED
    BY <2>2, <2>3
<1>4. CASE m.state = "debate" /\ ~Overdue(m, now) /\ Unanimous(m)
  <2>1. n = PassAt(m, now)
    BY <1>4 DEF Advance
  <2>2. n.state = "passed"
    BY <1>1, <2>1, PassDue
  <2>3. QED
    BY <1>4, <2>2
<1>5. CASE m.state = "voting" /\ Overdue(m, now)
  <2>1. n = CloseVoteOf(m)
    BY <1>5 DEF Advance, TallyOf
  <2>2. Due(m, n) /\ n.state # "voting"
    <3>1. CASE Carried(m)
      <4>1. n = PassAt([m EXCEPT !.voteClosed = m.deadline], m.deadline)
        BY <2>1, <3>1 DEF CloseVoteOf
      <4>2. [m EXCEPT !.voteClosed = m.deadline] \in Motion
        BY <1>1 DEF Motion
      <4>3. n.state = "passed"
        BY <4>1, <4>2, PassDue
      <4>4. QED
        BY <1>5, <2>1, <4>3, CloseVoteDue
    <3>2. CASE ~Carried(m)
      <4>1. n.state = "failed"
        BY <1>1, <2>1, <3>2 DEF CloseVoteOf, Motion
      <4>2. QED
        BY <1>5, <2>1, <4>1, CloseVoteDue
    <3>3. QED
      BY <3>1, <3>2
  <2>3. QED
    BY <1>5, <2>2
<1>6. CASE /\ ~(m.state \in {"submitted", "debate", "voting"} /\ Overdue(m, now))
           /\ ~(m.state = "debate" /\ ~Overdue(m, now) /\ Unanimous(m))
  BY <1>6 DEF Advance, TallyOf
<1>7. QED
  BY <1>2, <1>3, <1>4, <1>5, <1>6

LEMMA AppliedWaits ==
    ASSUME GoodFloor, NEW S, NEW p \in Ids, NEW now \in Nat
    PROVE  Waits(motions[p], Applied(S, now)[p], now)
<1> DEFINE m == Synced(now)[p]
<1>1. GoodMotion(m) /\ timers \in Kinds /\ m.state = motions[p].state
  BY SyncedGood, SyncedDue DEF GoodMotions, GoodFloor, Still
<1>2. Waits(motions[p], m, now)
  BY DEF Waits, Synced
<1>3. Applied(S, now)[p] \in {m, Advance(m, now, timers)}
  BY DEF Applied
<1>4. Applied(S, now)[p].state = m.state => Applied(S, now)[p] = m
  BY <1>1, <1>3, AdvanceLeaves
<1> HIDE DEF m
<1>5. QED
  BY <1>1, <1>2, <1>4 DEF Waits

(* A write changes its motion's deadline only as it changes its state. *)
LEMMA WriteWaits ==
    ASSUME GoodFloor, NEW p \in Ids, NEW now \in Nat, NEW n, Write(p, now, n),
           n.state = motions[p].state =>
               n.state = Current(p, now).state /\ n.deadline = Current(p, now).deadline
    PROVE  \A q \in Ids : Waits(motions[q], motions'[q], now)
<1>1. motions' = [Applied({p}, now) EXCEPT ![p] = n]
  BY DEF Write
<1>2. DOMAIN Applied({p}, now) = Ids
  BY DEF Applied
<1>3. motions'[p] = n /\ \A q \in Ids : q # p => motions'[q] = Applied({p}, now)[q]
  BY <1>1, <1>2
<1>4. Waits(motions[p], n, now)
  BY AppliedWaits DEF Current, Waits
<1>5. QED
  BY <1>3, <1>4, AppliedWaits

LEMMA MoveWaits ==
    ASSUME GoodFloor, NEW x \in Members, NEW p \in Ids, NEW now \in Nat,
           Move(x, p, now)
    PROVE  \A q \in Ids : Waits(motions[q], motions'[q], now)
<1> DEFINE mine == {q \in Ids : motions[q].mover = x /\ Active(motions[q])}
           n == NewMotion(x, now)
<1>1. motions' = [Applied(mine, now) EXCEPT ![p] = n] /\ motions[p].state = "none"
  BY DEF Move
<1>2. DOMAIN Applied(mine, now) = Ids
  BY DEF Applied
<1>3. n.state = "submitted"
  BY DEF NewMotion, NoMotion
<1> HIDE DEF mine, n
<1>4. motions'[p] = n /\ \A q \in Ids : q # p => motions'[q] = Applied(mine, now)[q]
  BY <1>1, <1>2
<1>5. Waits(motions[p], n, now)
  BY <1>1, <1>3 DEF Waits
<1>6. QED
  BY <1>4, <1>5, AppliedWaits

(* Where a motion that a write finds in a state may have come from. *)
LEMMA CurrentFrom ==
    ASSUME GoodFloor, NEW p \in Ids, NEW now \in Nat
    PROVE  LET m == Current(p, now)
           IN  /\ m \in Motion /\ GoodMotion(m) /\ timers \in Kinds
               /\ m.state = "submitted" => motions[p].state = "submitted"
               /\ m.state = "debate" => motions[p].state = "debate"
               /\ m.state = "voting" => motions[p].state \in {"debate", "voting"}
               /\ m.state = "passed" =>
                      motions[p].state \in {"debate", "voting", "passed"}
BY CurrentDue, CurrentGood
DEF GoodMotion, GoodFloor, Due, Still, Decides, OpensVote

LEMMA MemberWriteWaits ==
    ASSUME GoodFloor, NEW x \in Members, NEW p \in Ids, NEW now \in Nat,
           MemberWrite(x, p, now)
    PROVE  \A q \in Ids : Waits(motions[q], motions'[q], now)
<1> DEFINE m == Current(p, now)
<1>1. /\ m \in Motion /\ GoodMotion(m) /\ timers \in Kinds
      /\ m.state = "submitted" => motions[p].state = "submitted"
      /\ m.state = "debate" => motions[p].state = "debate"
      /\ m.state = "voting" => motions[p].state \in {"debate", "voting"}
  BY CurrentFrom
<1>2. CASE Move(x, p, now)
  BY <1>2, MoveWaits
<1>3. CASE Edit(x, p, now)
  <2> DEFINE n == [m EXCEPT !.revision = @ + 1]
  <2>1. Write(p, now, n) /\ n.state = m.state /\ n.deadline = m.deadline
    BY <1>1, <1>3 DEF Edit, Motion
  <2> HIDE DEF n
  <2>2. QED
    BY <2>1, WriteWaits
<1>4. CASE Withdraw(x, p, now)
  <2> DEFINE n == [m EXCEPT !.state = "withdrawn", !.deadline = Never, !.decided = now]
  <2>1. Write(p, now, n) /\ n.state = "withdrawn" /\ m.state \in ActiveStates
    BY <1>1, <1>4 DEF Withdraw, Motion, Active
  <2> HIDE DEF n
  <2>2. motions[p].state # "withdrawn"
    BY <1>1, <2>1 DEF ActiveStates
  <2>3. QED
    BY <2>1, <2>2, WriteWaits
<1>5. ASSUME NEW page \in 1 .. MaxEdits + 1, NEW recent \in SUBSET Members,
             Second(x, p, page, recent, now)
      PROVE  \A q \in Ids : Waits(motions[q], motions'[q], now)
  <2> DEFINE n == SecondedBy(m, x, page, recent, now)
  <2>1. Write(p, now, n) /\ n.state = "debate" /\ m.state = "submitted"
    BY <1>1, <1>5 DEF Second, SecondedBy, Motion
  <2> HIDE DEF n
  <2>2. QED
    BY <1>1, <2>1, WriteWaits
<1>6. ASSUME NEW choice \in {"consented", "objected"}, Consent(x, p, choice, now)
      PROVE  \A q \in Ids : Waits(motions[q], motions'[q], now)
  <2> DEFINE said == [m EXCEPT !.consents = [@ EXCEPT ![x] = choice]]
             n == IF canAct THEN Advance(said, now, timers) ELSE said
  <2>1. Write(p, now, n) /\ m.state = "debate"
    BY <1>6 DEF Consent
  <2>2. /\ said \in Motion /\ said.state = m.state /\ said.deadline = m.deadline
        /\ said.mover = m.mover /\ said.voteClosed = m.voteClosed
    <3>1. [m.consents EXCEPT ![x] = choice] \in [Members -> {"none", "consented", "objected"}]
      BY <1>1 DEF Motion
    <3>2. QED
      BY <1>1, <3>1 DEF Motion
  <2> HIDE DEF m, said
  <2>3. GoodMotion(said)
    BY <1>1, <2>1, <2>2
    DEF GoodMotion, Active, ActiveStates, UndecidedStates, SoundlyDecided, PassedStates
  <2>4. n.state = "debate" => n = said
    BY <1>1, <2>1, <2>2, <2>3, AdvanceLeaves
  <2> HIDE DEF n
  <2>5. n.state = motions[p].state => n.state = m.state /\ n.deadline = m.deadline
    BY <1>1, <2>1, <2>2, <2>4
  <2>6. Write(p, now, n)
    BY <2>1
  <2>7. QED
    BY <2>5, <2>6, WriteWaits DEF m
<1>7. ASSUME NEW choice \in {"yes", "no", "abstain"}, Vote(x, p, choice, now)
      PROVE  \A q \in Ids : Waits(motions[q], motions'[q], now)
  <2> DEFINE n == [m EXCEPT !.ballots = [@ EXCEPT ![x] = choice]]
  <2>1. Write(p, now, n) /\ n.state = m.state /\ n.deadline = m.deadline
    BY <1>1, <1>7 DEF Vote, Motion
  <2> HIDE DEF n
  <2>2. QED
    BY <2>1, WriteWaits
<1>8. QED
  BY <1>2, <1>3, <1>4, <1>5, <1>6, <1>7 DEF MemberWrite

LEMMA AdminWriteWaits ==
    ASSUME GoodFloor, NEW p \in Ids, NEW now \in Nat, AdminWrite(p, now)
    PROVE  \A q \in Ids : Waits(motions[q], motions'[q], now)
<1> DEFINE m == Current(p, now)
<1>1. /\ m \in Motion /\ GoodMotion(m) /\ timers \in Kinds
      /\ m.state = "debate" => motions[p].state = "debate"
      /\ m.state = "voting" => motions[p].state \in {"debate", "voting"}
      /\ m.state = "passed" => motions[p].state \in {"debate", "voting", "passed"}
  BY CurrentFrom
<1>2. ASSUME NEW period \in {"debate", "vote"}, m.state \in {"debate", "voting"},
             Write(p, now, Advance([m EXCEPT !.deadline = now, !.cut = @ \cup {period}],
                                   now, timers))
      PROVE  \A q \in Ids : Waits(motions[q], motions'[q], now)
  <2> DEFINE k == [m EXCEPT !.deadline = now, !.cut = @ \cup {period}]
             n == Advance(k, now, timers)
  <2>1. GoodMotion(k)
    BY <1>1, DueNowGood
  <2>2. k.state = m.state /\ k.deadline = now
    BY <1>1 DEF Motion
  <2>3. Overdue(k, now)
    BY <2>2 DEF Overdue, Never
  <2> HIDE DEF m, k
  <2>4. n.state # m.state /\ Due(k, n)
    BY <1>1, <1>2, <2>1, <2>2, <2>3, AdvanceLeaves, AdvanceDue
  <2>5. n.state # motions[p].state
    BY <1>1, <1>2, <2>2, <2>4 DEF Due, Still, Decides, OpensVote
  <2> HIDE DEF n
  <2>6. Write(p, now, n)
    BY <1>2 DEF n, k
  <2>7. QED
    BY <2>5, <2>6, WriteWaits
<1>3. CASE EndDebate(p, now)
  BY <1>2, <1>3 DEF EndDebate
<1>4. CASE CloseVote(p, now)
  BY <1>2, <1>4 DEF CloseVote
<1>5. CASE PutDraft(p, now)
  <2> DEFINE n == [m EXCEPT !.draft = "saved"]
  <2>1. Write(p, now, n) /\ n.state = m.state /\ n.deadline = m.deadline
    BY <1>1, <1>5 DEF PutDraft, Motion
  <2> HIDE DEF n
  <2>2. QED
    BY <2>1, WriteWaits
<1>6. CASE Publish(p, now)
  <2> DEFINE n == [m EXCEPT !.state = "building"]
  <2>1. Write(p, now, n) /\ n.state = "building" /\ m.state = "passed"
    BY <1>1, <1>6 DEF Publish, Motion
  <2> HIDE DEF n
  <2>2. QED
    BY <1>1, <2>1, WriteWaits
<1>7. QED
  BY <1>3, <1>4, <1>5, <1>6 DEF AdminWrite

LEMMA SetTestTimersWaits ==
    ASSUME GoodFloor, NEW now \in Nat, SetTestTimers(now)
    PROVE  \A q \in Ids : Waits(motions[q], motions'[q], now)
<1> DEFINE due == {p \in Ids : Active(motions[p]) /\ Overdue(Synced(now)[p], now)}
           floor == Applied(due, now)
           ships(p) == canAct /\ p \in merged /\ floor[p].state = "building"
<1>1. \A p \in Ids : /\ Waits(motions[p], floor[p], now) /\ Due(motions[p], floor[p])
                     /\ floor[p] \in Motion
  BY AppliedWaits, AppliedDue, AppliedGood DEF GoodMotions
<1>2. motions' = [p \in Ids |-> IF ships(p) THEN ShipOf(floor[p]) ELSE floor[p]]
  BY DEF SetTestTimers
<1> HIDE DEF floor
<1>3. TAKE q \in Ids
<1>4. CASE ships(q)
  <2>1. ShipOf(floor[q]).state = "shipped"
    BY <1>1 DEF ShipOf, Motion
  <2>2. motions[q].state = "building"
    BY <1>1, <1>4 DEF Due, Still, Decides, OpensVote
  <2>3. QED
    BY <1>2, <1>4, <2>1, <2>2 DEF Waits
<1>5. CASE ~ships(q)
  BY <1>1, <1>2, <1>5
<1>6. QED
  BY <1>4, <1>5

(* With no sync in the step, no deadline moves but with its state. *)
LEMMA OneWaits ==
    ASSUME GoodFloor, NEW p \in Ids, NEW n, motions' = [motions EXCEPT ![p] = n],
           n.state = motions[p].state => n.deadline = motions[p].deadline
    PROVE  \A q \in Ids : motions'[q].state = motions[q].state
               => motions'[q].deadline = motions[q].deadline
<1>1. motions \in [Ids -> Motion]
  BY DEF GoodFloor, GoodMotions
<1>2. motions'[p] = n /\ \A q \in Ids : q # p => motions'[q] = motions[q]
  BY <1>1
<1>3. QED
  BY <1>2

LEMMA UnsyncedWaits ==
    ASSUME GoodFloor,
           \/ \E p \in Ids : ApplyHouseSpec(p) \/ Merge(p)
           \/ \E s \in Sweepers, p \in Ids : SweepApply(s, p) \/ SweepShip(s, p)
           \/ \E s \in Sweepers : EndSweep(s)
           \/ Tick \/ FlagsOff \/ FlagsOn \/ UNCHANGED vars
    PROVE  \A q \in Ids : motions'[q].state = motions[q].state
               => motions'[q].deadline = motions[q].deadline
<1>1. motions \in [Ids -> Motion] /\ timers \in Kinds /\ sweep \in [Sweepers -> Time]
      /\ \A q \in Ids : GoodMotion(motions[q])
  BY DEF GoodFloor, GoodMotions
<1>2. CASE UNCHANGED motions
  BY <1>2
<1>3. ASSUME NEW p \in Ids, ApplyHouseSpec(p)
      PROVE  \A q \in Ids : motions'[q].state = motions[q].state
                 => motions'[q].deadline = motions[q].deadline
  <2>1. [motions[p] EXCEPT !.draft = "house"].deadline = motions[p].deadline
    BY <1>1 DEF Motion
  <2>2. motions' = [motions EXCEPT ![p] = [motions[p] EXCEPT !.draft = "house"]]
    BY <1>3 DEF ApplyHouseSpec
  <2>3. QED
    BY <2>1, <2>2, OneWaits
<1>4. ASSUME NEW p \in Ids, motions' = [motions EXCEPT ![p] = ShipOf(@)]
      PROVE  \A q \in Ids : motions'[q].state = motions[q].state
                 => motions'[q].deadline = motions[q].deadline
  <2>1. ShipOf(motions[p]).deadline = motions[p].deadline
    BY <1>1 DEF ShipOf, Motion
  <2>2. motions' = [motions EXCEPT ![p] = ShipOf(motions[p])]
    BY <1>4
  <2>3. QED
    BY <2>1, <2>2, OneWaits
<1>5. ASSUME NEW s \in Sweepers, NEW p \in Ids, SweepApply(s, p)
      PROVE  \A q \in Ids : motions'[q].state = motions[q].state
                 => motions'[q].deadline = motions[q].deadline
  <2> DEFINE n == Advance(motions[p], sweep[s], timers)
  <2>1. sweep[s] \in Nat
    BY <1>1, <1>5 DEF SweepApply, Time
  <2>2. n.state = motions[p].state => n.deadline = motions[p].deadline
    BY <1>1, <2>1, AdvanceLeaves
  <2>3. motions' = [motions EXCEPT ![p] = n]
    BY <1>5 DEF SweepApply
  <2> HIDE DEF n
  <2>4. QED
    BY <2>2, <2>3, OneWaits
<1>6. QED
  BY <1>2, <1>3, <1>4, <1>5
  DEF Merge, SweepShip, EndSweep, Tick, FlagsOff, FlagsOn, vars

LEMMA SyncedWaits ==
    ASSUME GoodFloor, NEW now \in Nat, now <= clock, SyncFloor(now),
           \A q \in Ids : Waits(motions[q], motions'[q], now)
    PROVE  DeadlineWaitsStep
<1>1. clock \in Nat /\ closedSince \in Time /\ \A q \in Ids : motions[q] \in Motion
  BY DEF GoodFloor, GoodMotions
<1>2. ASSUME NEW q \in Ids, motions[q].deadline # motions'[q].deadline,
             motions[q].state = motions'[q].state
      PROVE  /\ closedSince # Never /\ closedSince' = Never
             /\ motions[q].deadline < motions'[q].deadline
             /\ motions'[q].deadline - motions[q].deadline <= clock - closedSince
  <2>1. /\ canAct /\ closedSince # Never
        /\ motions'[q].deadline = Resumed(motions[q], now).deadline
    BY <1>2 DEF Waits
  <2>2. closedSince \in Nat
    BY <1>1, <2>1 DEF Time
  <2>3. closedSince' = Never
    BY <2>1 DEF SyncFloor
  <2>4. QED
    BY <1>1, <1>2, <2>1, <2>2, <2>3, ResumedLater
<1>3. QED
  BY <1>2 DEF DeadlineWaitsStep

LEMMA NextWaits ==
    ASSUME GoodFloor, TimedFloor, [Next]_vars
    PROVE  DeadlineWaitsStep
<1>1. \A now \in admit : now \in Nat /\ now <= clock
  BY DEF TimedFloor, Punctually, Prompt
<1>2. CASE \/ \E p \in Ids : ApplyHouseSpec(p) \/ Merge(p)
           \/ \E s \in Sweepers, p \in Ids : SweepApply(s, p) \/ SweepShip(s, p)
           \/ \E s \in Sweepers : EndSweep(s)
           \/ Tick \/ FlagsOff \/ FlagsOn \/ UNCHANGED vars
  BY <1>2, UnsyncedWaits DEF DeadlineWaitsStep
<1>3. ASSUME NEW now \in admit, SetTestTimers(now)
      PROVE  DeadlineWaitsStep
  BY <1>1, <1>3, SetTestTimersWaits, SyncedWaits DEF SetTestTimers
<1>4. ASSUME NEW p \in Ids, NEW now \in admit, AdminWrite(p, now)
      PROVE  DeadlineWaitsStep
  <2>1. SyncFloor(now)
    BY <1>4 DEF AdminWrite, EndDebate, CloseVote, PutDraft, Publish, Write
  <2>2. QED
    BY <1>1, <1>4, <2>1, AdminWriteWaits, SyncedWaits
<1>5. ASSUME NEW x \in Members, NEW p \in Ids, NEW now \in admit, MemberWrite(x, p, now)
      PROVE  DeadlineWaitsStep
  <2>1. SyncFloor(now)
    BY <1>5 DEF MemberWrite, Move, Edit, Withdraw, Second, Consent, Vote, Write
  <2>2. QED
    BY <1>1, <1>5, <2>1, MemberWriteWaits, SyncedWaits
<1>6. ASSUME NEW s \in Sweepers, NEW now \in Window(clock), BeginSweep(s, now)
      PROVE  DeadlineWaitsStep
  <2>1. now \in Nat /\ now <= clock
    BY DEF Window, GoodFloor
  <2>2. \A q \in Ids : Waits(motions[q], motions'[q], now)
    BY <1>6 DEF BeginSweep, Synced, Waits
  <2>3. QED
    BY <1>6, <2>1, <2>2, SyncedWaits DEF BeginSweep
<1>7. QED
  BY <1>2, <1>3, <1>4, <1>5, <1>6 DEF Next, Sweeping

(* A deadline only moves when a pause ends, only later, and by no more     *)
(* than the floor has been closed: on any floor, whichever request, beat   *)
(* or read brings the pause up to date, with a time however late.          *)
THEOREM DeadlinesWait == Spec => DeadlineWaits
<1>1. GoodFloor /\ TimedFloor /\ [Next]_vars => [DeadlineWaitsStep]_vars
  BY NextWaits
<1>2. GoodFloor /\ TimedFloor /\ [Next]_vars => TimedFloor'
  BY NextTimed
<1>3. QED
  BY <1>1, <1>2, InitTimed, AlwaysGood, PTL DEF Spec, DeadlineWaits

-----------------------------------------------------------------------------
(* Periods are served.                                                     *)

(* A period of m ends in n by its own deadline.                            *)
RanOut(m, n) == Lapsed(m, n) \/ DebateRanOut(m, n) \/ VoteRanOut(m, n)

(* An active motion has none of the marks of the ends still to come.       *)
Fresh(m) ==
    /\ GoodMotion(m)
    /\ m.state \in {"none", "submitted", "debate"} => m.debateEnded = Never

(* What a step that brings the pause up to date at `now` may make of p:    *)
(* the deadline is moved by the pause, and a period that ends is over.     *)
Paced(p, n, now) ==
    /\ Active(motions[p]) /\ n.state = motions[p].state =>
           n.deadline = Synced(now)[p].deadline
    /\ RanOut(motions[p], n) => canAct /\ Synced(now)[p].deadline <= now

(* What a write makes of a motion c, none of whose periods it ends by time. *)
Quiet(c, n) ==
    /\ n.state # "lapsed"
    /\ n.debateEnded = c.debateEnded \/ "debate" \in n.cut
    /\ n.voteClosed = c.voteClosed \/ "vote" \in n.cut \/ c.state # "voting"

LEMMA FreshFloor ==
    ASSUME GoodFloor, TimedFloor, NEW p \in Ids
    PROVE  Fresh(motions[p])
BY DEF GoodFloor, GoodMotions, TimedFloor, Timed, Fresh

(* Passing ends no period by its deadline but where it is told to.         *)
LEMMA PassEnds ==
    ASSUME NEW m \in Motion, NEW at
    PROVE  /\ PassAt(m, at).state = "passed" /\ PassAt(m, at).cut = m.cut
           /\ PassAt(m, at).debateEnded = m.debateEnded
           /\ PassAt(m, at).voteClosed = m.voteClosed
BY DEF PassAt, Motion

(* Before its deadline, a motion only passes by unanimous consent.         *)
LEMMA AdvanceEarly ==
    ASSUME NEW m, NEW now \in Nat, NEW kind \in Kinds, ~Overdue(m, now)
    PROVE  \/ Advance(m, now, kind) = m
           \/ m.state = "debate" /\ Advance(m, now, kind) = PassAt(m, now)
BY DEF Advance, TallyOf

(* What the pause moves is the deadline alone.                             *)
LEMMA SyncedSame ==
    ASSUME GoodFloor, NEW p \in Ids, NEW now \in Nat
    PROVE  LET m == motions[p]
               k == Synced(now)[p]
           IN  /\ k \in Motion /\ GoodMotion(k)
               /\ k.state = m.state /\ k.debateEnded = m.debateEnded
               /\ k.voteClosed = m.voteClosed /\ k.cut = m.cut
<1>1. motions[p] \in Motion
  BY DEF GoodFloor, GoodMotions
<1>2. Synced(now)[p] \in {motions[p], Resumed(motions[p], now)}
  BY DEF Synced
<1>3. GoodMotion(Synced(now)[p])
  BY SyncedGood DEF GoodMotions
<1>4. LET r == Resumed(motions[p], now)
      IN  /\ r.state = motions[p].state /\ r.debateEnded = motions[p].debateEnded
          /\ r.voteClosed = motions[p].voteClosed /\ r.cut = motions[p].cut
  BY <1>1 DEF Resumed, Motion
<1>5. QED
  BY <1>2, <1>3, <1>4 DEF GoodMotion

(* Unless p's own deadline is over, the floor finds p as it was, or passed *)
(* by unanimous consent.                                                   *)
LEMMA CurrentEarly ==
    ASSUME GoodFloor, NEW S, NEW p \in Ids, NEW now \in Nat,
           ~(canAct /\ Synced(now)[p].deadline <= now), Active(motions[p])
    PROVE  LET k == Synced(now)[p]
               c == Applied(S, now)[p]
           IN  c = k \/ (k.state = "debate" /\ c = PassAt(k, now))
<1> DEFINE k == Synced(now)[p]
<1>1. timers \in Kinds
  BY DEF GoodFloor
<1>2. canAct => ~Overdue(k, now)
  BY DEF Overdue
<1>3. Applied(S, now)[p] = IF p \in S /\ canAct THEN Advance(k, now, timers) ELSE k
  BY DEF Applied
<1> HIDE DEF k
<1>4. QED
  BY <1>1, <1>2, <1>3, AdvanceEarly DEF k

(* Then a write that is quiet of what it finds ends no period.             *)
LEMMA QuietPaced ==
    ASSUME GoodFloor, TimedFloor, NEW S, NEW p \in Ids, NEW now \in Nat, NEW n,
           Quiet(Applied(S, now)[p], n)
    PROVE  RanOut(motions[p], n) => canAct /\ Synced(now)[p].deadline <= now
<1> DEFINE m == motions[p]
           k == Synced(now)[p]
           c == Applied(S, now)[p]
<1> SUFFICES ASSUME ~(canAct /\ k.deadline <= now), RanOut(m, n)
             PROVE  FALSE
  OBVIOUS
<1>1. Fresh(m)
  BY FreshFloor
<1>2. /\ k \in Motion /\ k.state = m.state /\ k.debateEnded = m.debateEnded
      /\ k.voteClosed = m.voteClosed
  BY SyncedSame
<1>3. Active(m)
  BY DEF RanOut, Lapsed, DebateRanOut, VoteRanOut, Active, ActiveStates
<1>4. c = k \/ (k.state = "debate" /\ c = PassAt(k, now))
  BY <1>3, CurrentEarly
<1>5. /\ c.debateEnded = m.debateEnded /\ c.voteClosed = m.voteClosed
      /\ m.state = "voting" => c.state = "voting"
  BY <1>2, <1>4, PassEnds
<1>6. Quiet(c, n)
  OBVIOUS
<1> HIDE DEF m, k, c
<1>7. QED
  BY <1>1, <1>3, <1>5, <1>6
  DEF Fresh, GoodMotion, Quiet, RanOut, Lapsed, DebateRanOut, VoteRanOut, Active, ActiveStates,
      UndecidedStates

(* Whatever the floor finds of p is paced.                                 *)
LEMMA AppliedPaced ==
    ASSUME GoodFloor, TimedFloor, NEW S, NEW p \in Ids, NEW now \in Nat
    PROVE  Paced(p, Applied(S, now)[p], now)
<1> DEFINE m == motions[p]
           k == Synced(now)[p]
           c == Applied(S, now)[p]
<1>1. Fresh(m) /\ timers \in Kinds
  BY FreshFloor DEF GoodFloor
<1>2. /\ k \in Motion /\ GoodMotion(k) /\ k.state = m.state /\ k.debateEnded = m.debateEnded
      /\ k.voteClosed = m.voteClosed
  BY SyncedSame
<1>3. c \in {k, Advance(k, now, timers)}
  BY DEF Applied
<1>4. c.state = m.state => c = k
  BY <1>1, <1>2, <1>3, AdvanceLeaves
<1>5. ASSUME ~(canAct /\ k.deadline <= now), RanOut(m, c)
      PROVE  FALSE
  <2>1. Active(m)
    BY <1>5 DEF RanOut, Lapsed, DebateRanOut, VoteRanOut, Active, ActiveStates
  <2>2. c = k \/ (k.state = "debate" /\ c = PassAt(k, now))
    BY <1>5, <2>1, CurrentEarly
  <2>3. /\ c.debateEnded = m.debateEnded /\ c.voteClosed = m.voteClosed
        /\ c.state = m.state \/ c.state = "passed"
    BY <1>2, <2>2, PassEnds
  <2> HIDE DEF m, k, c
  <2>4. QED
    BY <1>1, <1>5, <2>1, <2>3
    DEF Fresh, GoodMotion, RanOut, Lapsed, DebateRanOut, VoteRanOut, Active, ActiveStates,
        UndecidedStates
<1>6. QED
  BY <1>4, <1>5 DEF Paced

(* A write is paced when it leaves a motion its deadline with its state,   *)
(* and ends none of its periods.                                           *)
LEMMA WritePaced ==
    ASSUME GoodFloor, TimedFloor, NEW p \in Ids, NEW now \in Nat, NEW n, Write(p, now, n),
           Quiet(Current(p, now), n),
           n.state = motions[p].state =>
               n.state = Current(p, now).state /\ n.deadline = Current(p, now).deadline
    PROVE  \A q \in Ids : Paced(q, motions'[q], now)
<1>1. motions' = [Applied({p}, now) EXCEPT ![p] = n]
  BY DEF Write
<1>2. DOMAIN Applied({p}, now) = Ids
  BY DEF Applied
<1>3. motions'[p] = n /\ \A q \in Ids : q # p => motions'[q] = Applied({p}, now)[q]
  BY <1>1, <1>2
<1>4. Paced(p, n, now)
  BY AppliedPaced, QuietPaced DEF Current, Paced
<1>5. QED
  BY <1>3, <1>4, AppliedPaced

LEMMA MovePaced ==
    ASSUME GoodFloor, TimedFloor, NEW x \in Members, NEW p \in Ids, NEW now \in Nat,
           Move(x, p, now)
    PROVE  \A q \in Ids : Paced(q, motions'[q], now)
<1> DEFINE mine == {q \in Ids : motions[q].mover = x /\ Active(motions[q])}
           n == NewMotion(x, now)
<1>1. motions' = [Applied(mine, now) EXCEPT ![p] = n] /\ motions[p].state = "none"
  BY DEF Move
<1>2. DOMAIN Applied(mine, now) = Ids
  BY DEF Applied
<1> HIDE DEF mine, n
<1>3. motions'[p] = n /\ \A q \in Ids : q # p => motions'[q] = Applied(mine, now)[q]
  BY <1>1, <1>2
<1>4. Paced(p, n, now)
  BY <1>1 DEF Paced, RanOut, Lapsed, DebateRanOut, VoteRanOut, Active, ActiveStates
<1>5. QED
  BY <1>3, <1>4, AppliedPaced

LEMMA MemberWritePaced ==
    ASSUME GoodFloor, TimedFloor, NEW x \in Members, NEW p \in Ids, NEW now \in Nat,
           MemberWrite(x, p, now)
    PROVE  \A q \in Ids : Paced(q, motions'[q], now)
<1> DEFINE m == Current(p, now)
<1>1. /\ m \in Motion /\ GoodMotion(m) /\ timers \in Kinds
      /\ m.state = "submitted" => motions[p].state = "submitted"
      /\ m.state = "debate" => motions[p].state = "debate"
      /\ m.state = "voting" => motions[p].state \in {"debate", "voting"}
  BY CurrentFrom
<1>2. CASE Move(x, p, now)
  BY <1>2, MovePaced
<1>3. CASE Edit(x, p, now)
  <2> DEFINE n == [m EXCEPT !.revision = @ + 1]
  <2>1. /\ Write(p, now, n) /\ n.state = m.state /\ n.deadline = m.deadline
        /\ n.debateEnded = m.debateEnded /\ n.voteClosed = m.voteClosed
        /\ m.state = "submitted"
    BY <1>1, <1>3 DEF Edit, Motion
  <2> HIDE DEF n
  <2>2. Quiet(m, n)
    BY <2>1 DEF Quiet
  <2>3. QED
    BY <2>1, <2>2, WritePaced DEF Current
<1>4. CASE Withdraw(x, p, now)
  <2> DEFINE n == [m EXCEPT !.state = "withdrawn", !.deadline = Never, !.decided = now]
  <2>1. /\ Write(p, now, n) /\ n.state = "withdrawn" /\ m.state \in ActiveStates
        /\ n.debateEnded = m.debateEnded /\ n.voteClosed = m.voteClosed
    BY <1>1, <1>4 DEF Withdraw, Motion, Active
  <2> HIDE DEF n
  <2>2. motions[p].state # "withdrawn"
    BY <1>1, <2>1 DEF ActiveStates
  <2>3. Quiet(m, n)
    BY <2>1 DEF Quiet
  <2>4. QED
    BY <2>1, <2>2, <2>3, WritePaced DEF Current
<1>5. ASSUME NEW page \in 1 .. MaxEdits + 1, NEW recent \in SUBSET Members,
             Second(x, p, page, recent, now)
      PROVE  \A q \in Ids : Paced(q, motions'[q], now)
  <2> DEFINE n == SecondedBy(m, x, page, recent, now)
  <2>1. /\ Write(p, now, n) /\ n.state = "debate" /\ m.state = "submitted"
        /\ n.debateEnded = m.debateEnded /\ n.voteClosed = m.voteClosed
    BY <1>1, <1>5 DEF Second, SecondedBy, Motion
  <2> HIDE DEF n
  <2>2. Quiet(m, n)
    BY <2>1 DEF Quiet
  <2>3. QED
    BY <1>1, <2>1, <2>2, WritePaced DEF Current
<1>6. ASSUME NEW choice \in {"consented", "objected"}, Consent(x, p, choice, now)
      PROVE  \A q \in Ids : Paced(q, motions'[q], now)
  <2> DEFINE said == [m EXCEPT !.consents = [@ EXCEPT ![x] = choice]]
             n == IF canAct THEN Advance(said, now, timers) ELSE said
  <2>1. Write(p, now, n) /\ m.state = "debate"
    BY <1>6 DEF Consent
  <2>2. /\ said \in Motion /\ said.state = m.state /\ said.deadline = m.deadline
        /\ said.debateEnded = m.debateEnded /\ said.voteClosed = m.voteClosed
    <3>1. [m.consents EXCEPT ![x] = choice] \in [Members -> {"none", "consented", "objected"}]
      BY <1>1 DEF Motion
    <3>2. QED
      BY <1>1, <3>1 DEF Motion
  <2>3. canAct => ~Overdue(m, now)
    BY <2>1, CurrentDebate
  <2> HIDE DEF m, said
  <2>4. canAct => ~Overdue(said, now)
    BY <2>2, <2>3 DEF Overdue
  <2>5. n = said \/ n = PassAt(said, now)
    BY <1>1, <2>4, AdvanceEarly
  <2> HIDE DEF n
  <2>6. Quiet(m, n) /\ (n.state = "debate" => n.deadline = m.deadline)
    BY <2>1, <2>2, <2>5, PassEnds DEF Quiet
  <2>7. n.state = motions[p].state => n.state = m.state /\ n.deadline = m.deadline
    BY <1>1, <2>1, <2>6
  <2>8. Write(p, now, n)
    BY <2>1
  <2>9. QED
    BY <2>6, <2>7, <2>8, WritePaced DEF m, Current
<1>7. ASSUME NEW choice \in {"yes", "no", "abstain"}, Vote(x, p, choice, now)
      PROVE  \A q \in Ids : Paced(q, motions'[q], now)
  <2> DEFINE n == [m EXCEPT !.ballots = [@ EXCEPT ![x] = choice]]
  <2>1. /\ Write(p, now, n) /\ n.state = m.state /\ n.deadline = m.deadline
        /\ n.debateEnded = m.debateEnded /\ n.voteClosed = m.voteClosed
        /\ m.state = "voting"
    BY <1>1, <1>7 DEF Vote, Motion
  <2> HIDE DEF n
  <2>2. Quiet(m, n)
    BY <2>1 DEF Quiet
  <2>3. QED
    BY <2>1, <2>2, WritePaced DEF Current
<1>8. QED
  BY <1>2, <1>3, <1>4, <1>5, <1>6, <1>7 DEF MemberWrite

(* What an admin cut stays cut, and the tally leaves a debate's end alone. *)
LEMMA AdvanceCuts ==
    ASSUME NEW m, GoodMotion(m), NEW now \in Nat, NEW kind \in Kinds
    PROVE  /\ Advance(m, now, kind).cut = m.cut
           /\ m.state = "voting" => Advance(m, now, kind).debateEnded = m.debateEnded
<1>1. m \in Motion
  BY DEF GoodMotion
<1>2. ASSUME NEW k \in Motion
      PROVE  CloseVoteOf(k).cut = k.cut /\ CloseVoteOf(k).debateEnded = k.debateEnded
  <2> DEFINE closed == [k EXCEPT !.voteClosed = k.deadline]
  <2>1. closed \in Motion /\ closed.cut = k.cut /\ closed.debateEnded = k.debateEnded
    BY <1>2 DEF Motion
  <2>2. CASE Carried(k)
    <3>1. CloseVoteOf(k) = PassAt(closed, k.deadline)
      BY <2>2 DEF CloseVoteOf
    <3> HIDE DEF closed
    <3>2. QED
      BY <2>1, <3>1, PassEnds
  <2>3. CASE ~Carried(k)
    BY <2>3 DEF CloseVoteOf, Motion
  <2>4. QED
    BY <2>2, <2>3
<1>3. ASSUME NEW k \in Motion
      PROVE  TallyOf(k, now).cut = k.cut /\ TallyOf(k, now).debateEnded = k.debateEnded
  BY <1>2 DEF TallyOf
<1>4. CASE m.state = "submitted" /\ Overdue(m, now)
  BY <1>1, <1>4 DEF Advance, LapseOf, Motion
<1>5. CASE m.state = "debate" /\ Overdue(m, now)
  <2>1. Advance(m, now, kind) = EndDebateOf(m, now, kind)
    BY <1>5 DEF Advance
  <2>2. CASE Objectors(m) = {}
    <3> DEFINE ended == [m EXCEPT !.debateEnded = m.deadline]
    <3>1. ended \in Motion /\ ended.cut = m.cut
      BY <1>1 DEF Motion
    <3>2. EndDebateOf(m, now, kind) = PassAt(ended, m.deadline)
      BY <2>2 DEF EndDebateOf
    <3> HIDE DEF ended
    <3>3. QED
      BY <1>5, <2>1, <3>1, <3>2, PassEnds
  <2>3. CASE Objectors(m) # {}
    <3> DEFINE open == OpenVoteOf(m, kind)
    <3>1. open \in Motion /\ open.cut = m.cut
      BY <1>1, <1>5, <2>3, OpenVoteGood DEF GoodMotion, OpenVoteOf, Motion
    <3>2. EndDebateOf(m, now, kind) = TallyOf(open, now)
      BY <2>3 DEF EndDebateOf
    <3> HIDE DEF open
    <3>3. QED
      BY <1>3, <1>5, <2>1, <3>1, <3>2
  <2>4. QED
    BY <2>2, <2>3
<1>6. CASE m.state = "debate" /\ ~Overdue(m, now) /\ Unanimous(m)
  <2>1. Advance(m, now, kind) = PassAt(m, now)
    BY <1>6 DEF Advance
  <2>2. QED
    BY <1>1, <1>6, <2>1, PassEnds
<1>7. CASE /\ ~(m.state \in {"submitted", "debate"} /\ Overdue(m, now))
           /\ ~(m.state = "debate" /\ ~Overdue(m, now) /\ Unanimous(m))
  <2>1. Advance(m, now, kind) = TallyOf(m, now)
    BY <1>7 DEF Advance
  <2>2. QED
    BY <1>1, <1>3, <2>1
<1>8. QED
  BY <1>4, <1>5, <1>6, <1>7

LEMMA AdminWritePaced ==
    ASSUME GoodFloor, TimedFloor, NEW p \in Ids, NEW now \in Nat, AdminWrite(p, now)
    PROVE  \A q \in Ids : Paced(q, motions'[q], now)
<1> DEFINE m == Current(p, now)
<1>1. /\ m \in Motion /\ GoodMotion(m) /\ timers \in Kinds
      /\ m.state = "debate" => motions[p].state = "debate"
      /\ m.state = "voting" => motions[p].state \in {"debate", "voting"}
      /\ m.state = "passed" => motions[p].state \in {"debate", "voting", "passed"}
  BY CurrentFrom
<1>2. ASSUME NEW period \in {"debate", "vote"},
             m.state = IF period = "debate" THEN "debate" ELSE "voting",
             Write(p, now, Advance([m EXCEPT !.deadline = now, !.cut = @ \cup {period}],
                                   now, timers))
      PROVE  \A q \in Ids : Paced(q, motions'[q], now)
  <2> DEFINE k == [m EXCEPT !.deadline = now, !.cut = @ \cup {period}]
             n == Advance(k, now, timers)
  <2>1. GoodMotion(k)
    BY <1>1, DueNowGood
  <2>2. /\ k.state = m.state /\ k.deadline = now /\ period \in k.cut
        /\ k.debateEnded = m.debateEnded
    BY <1>1 DEF Motion
  <2>3. Overdue(k, now)
    BY <2>2 DEF Overdue, Never
  <2> HIDE DEF m, k
  <2>4. /\ n.state # m.state /\ Due(k, n)
        /\ n.cut = k.cut
        /\ k.state = "voting" => n.debateEnded = k.debateEnded
    BY <1>1, <1>2, <2>1, <2>2, <2>3, AdvanceLeaves, AdvanceDue, AdvanceCuts
  <2> HIDE DEF n
  <2>5. n.state # motions[p].state
    BY <1>1, <1>2, <2>2, <2>4 DEF Due, Still, Decides, OpensVote
  <2>6. n.state # "lapsed"
    BY <1>2, <2>2, <2>4 DEF Due, Still, Decides, OpensVote
  <2>7. Quiet(m, n)
    BY <1>2, <2>2, <2>4, <2>6 DEF Quiet
  <2>8. Write(p, now, n)
    BY <1>2 DEF n, k
  <2>9. QED
    BY <2>5, <2>7, <2>8, WritePaced DEF m, Current
<1>3. CASE EndDebate(p, now)
  BY <1>2, <1>3 DEF EndDebate
<1>4. CASE CloseVote(p, now)
  BY <1>2, <1>4 DEF CloseVote
<1>5. CASE PutDraft(p, now)
  <2> DEFINE n == [m EXCEPT !.draft = "saved"]
  <2>1. /\ Write(p, now, n) /\ n.state = m.state /\ n.deadline = m.deadline
        /\ n.debateEnded = m.debateEnded /\ n.voteClosed = m.voteClosed
        /\ m.state = "passed"
    BY <1>1, <1>5 DEF PutDraft, Motion
  <2> HIDE DEF n
  <2>2. Quiet(m, n)
    BY <2>1 DEF Quiet
  <2>3. QED
    BY <2>1, <2>2, WritePaced DEF Current
<1>6. CASE Publish(p, now)
  <2> DEFINE n == [m EXCEPT !.state = "building"]
  <2>1. /\ Write(p, now, n) /\ n.state = "building" /\ m.state = "passed"
        /\ n.debateEnded = m.debateEnded /\ n.voteClosed = m.voteClosed
    BY <1>1, <1>6 DEF Publish, Motion
  <2> HIDE DEF n
  <2>2. Quiet(m, n)
    BY <2>1 DEF Quiet
  <2>3. QED
    BY <1>1, <2>1, <2>2, WritePaced DEF Current
<1>7. QED
  BY <1>3, <1>4, <1>5, <1>6 DEF AdminWrite

LEMMA SetTestTimersPaced ==
    ASSUME GoodFloor, TimedFloor, NEW now \in Nat, SetTestTimers(now)
    PROVE  \A q \in Ids : Paced(q, motions'[q], now)
<1> DEFINE due == {p \in Ids : Active(motions[p]) /\ Overdue(Synced(now)[p], now)}
           floor == Applied(due, now)
           ships(p) == canAct /\ p \in merged /\ floor[p].state = "building"
<1>1. \A p \in Ids : /\ Paced(p, floor[p], now) /\ Due(motions[p], floor[p])
  BY AppliedPaced, AppliedDue
<1>2. motions' = [p \in Ids |-> IF ships(p) THEN ShipOf(floor[p]) ELSE floor[p]]
  BY DEF SetTestTimers
<1> HIDE DEF floor
<1>3. TAKE q \in Ids
<1>4. CASE ships(q)
  <2>1. motions[q].state = "building"
    BY <1>1, <1>4 DEF Due, Still, Decides, OpensVote
  <2>2. QED
    BY <2>1 DEF Paced, RanOut, Lapsed, DebateRanOut, VoteRanOut, Active, ActiveStates
<1>5. CASE ~ships(q)
  BY <1>1, <1>2, <1>5
<1>6. QED
  BY <1>4, <1>5

(* Where members' time stands: now, or when the floor was found closed.    *)
Reached == IF closedSince = Never THEN clock ELSE closedSince

(* The slots a period still owes are slots its deadline still leaves.      *)
Ahead(p) ==
    Active(motions[p]) =>
        \/ served[p] >= owed[p]
        \/ served[p] + motions[p].deadline >= owed[p] + Reached

PacedFloor ==
    /\ owed \in [Ids -> Int] /\ served \in [Ids -> Int]
    /\ closedSince <= clock
    /\ \A s \in Sweepers : sweep[s] # Never => closedSince \in {Never, clock}
    /\ \A p \in Ids : Ahead(p)

(* With nothing late, a request or an open sweep has the time on the clock. *)
LEMMA OnTheClock ==
    ASSUME GoodFloor, TimedFloor, Lag = 0
    PROVE  /\ \A now \in admit : now = clock
           /\ \A now \in Window(clock) : now = clock
           /\ \A s \in Sweepers : sweep[s] # Never => sweep[s] = clock
BY DEF GoodFloor, TimedFloor, Punctually, Prompt, Window

(* The history follows each motion: a period that opens starts with what   *)
(* its page shows, and one that goes on gains the slot that passed.        *)
LEMMA HistorySteps ==
    ASSUME GoodFloor, GoodFloor', PacedFloor, PeriodNext
    PROVE  /\ owed' \in [Ids -> Int] /\ served' \in [Ids -> Int]
           /\ \A p \in Ids : Active(motions'[p]) =>
                  \/ /\ motions'[p].state # motions[p].state
                     /\ owed'[p] = motions'[p].deadline - clock' /\ served'[p] = 0
                  \/ /\ motions'[p].state = motions[p].state /\ Active(motions[p])
                     /\ owed'[p] = owed[p]
                     /\ served'[p] = IF SlotPassed THEN served[p] + 1 ELSE served[p]
<1>1. clock' \in Nat /\ \A p \in Ids : motions'[p].deadline \in Int
  BY MotionTimes DEF GoodFloor, GoodMotions
<1>2. owed \in [Ids -> Int] /\ served \in [Ids -> Int]
  BY DEF PacedFloor
<1>3. /\ owed' = [p \in Ids |->
             IF Opens(p) THEN motions'[p].deadline - clock' ELSE owed[p]]
      /\ served' = [p \in Ids |->
             IF Opens(p) THEN 0
             ELSE IF SlotPassed /\ Active(motions[p]) THEN served[p] + 1
             ELSE served[p]]
  BY DEF PeriodNext
<1>4. \A p \in Ids : owed'[p] \in Int /\ served'[p] \in Int
  BY <1>1, <1>2, <1>3
<1>5. \A p \in Ids : Active(motions'[p]) /\ motions'[p].state = motions[p].state
          => Active(motions[p])
  BY DEF Active
<1>6. \A p \in Ids : Opens(p) <=> motions[p].state # motions'[p].state /\ Active(motions'[p])
  BY DEF Opens
<1>7. QED
  BY <1>3, <1>4, <1>5, <1>6

(* A period that opens is ahead, and one whose deadline and measure stand  *)
(* as they were stays so while time does.                                  *)
LEMMA StandsAhead ==
    ASSUME GoodFloor, GoodFloor', PacedFloor, PeriodNext, UNCHANGED <<clock, closedSince>>,
           \A q \in Ids : motions'[q].state = motions[q].state
               => motions'[q].deadline = motions[q].deadline
    PROVE  \A q \in Ids : Ahead(q)'
<1> TAKE q \in Ids
<1>1. SUFFICES ASSUME Active(motions'[q])
               PROVE  \/ served'[q] >= owed'[q]
                      \/ served'[q] + motions'[q].deadline >= owed'[q] + Reached'
  BY DEF Ahead
<1>2. /\ clock \in Nat /\ closedSince \in Int /\ closedSince <= clock
      /\ motions'[q].deadline \in Int
      /\ owed[q] \in Int /\ served[q] \in Int
  BY MotionTimes DEF GoodFloor, GoodMotions, PacedFloor, Time, Never
<1>3. Reached' = Reached /\ Reached \in Int /\ Reached <= clock /\ ~SlotPassed
  BY <1>2 DEF Reached, SlotPassed, Never
<1>4. CASE /\ motions'[q].state # motions[q].state
           /\ owed'[q] = motions'[q].deadline - clock' /\ served'[q] = 0
  BY <1>2, <1>3, <1>4
<1>5. CASE /\ motions'[q].state = motions[q].state /\ Active(motions[q])
           /\ owed'[q] = owed[q]
           /\ served'[q] = IF SlotPassed THEN served[q] + 1 ELSE served[q]
  <2>1. motions'[q].deadline = motions[q].deadline
    BY <1>5
  <2>2. served[q] >= owed[q] \/ served[q] + motions[q].deadline >= owed[q] + Reached
    BY <1>5 DEF PacedFloor, Ahead
  <2>3. QED
    BY <1>3, <1>5, <2>1, <2>2
<1>6. QED
  BY <1>1, <1>4, <1>5, HistorySteps

(* What the pause leaves of a deadline, at the time on the clock.          *)
LEMMA SyncedAhead ==
    ASSUME GoodFloor, PacedFloor, NEW p \in Ids, Active(motions[p])
    PROVE  LET D == Synced(clock)[p].deadline
           IN  /\ D \in Int
               /\ \/ served[p] >= owed[p]
                  \/ served[p] + D >= owed[p] + IF canAct THEN clock ELSE Reached
<1> DEFINE m == motions[p]
<1>1. /\ clock \in Nat /\ closedSince \in Int /\ closedSince <= clock
      /\ m \in Motion /\ m.deadline \in Int
      /\ owed[p] \in Int /\ served[p] \in Int
  BY MotionTimes DEF GoodFloor, GoodMotions, PacedFloor, Time, Never
<1>2. served[p] >= owed[p] \/ served[p] + m.deadline >= owed[p] + Reached
  BY DEF PacedFloor, Ahead
<1>3. CASE canAct /\ closedSince # Never
  <2>1. Synced(clock)[p] = Resumed(m, clock) /\ Reached = closedSince
    BY <1>3 DEF Synced, Reached
  <2>2. CASE m.deadline > closedSince
    <3>1. ClosedFor(clock) = clock - closedSince
      BY <1>1 DEF ClosedFor
    <3>2. Resumed(m, clock) = [m EXCEPT !.deadline = m.deadline + ClosedFor(clock)]
      BY <2>2 DEF Resumed
    <3>3. Resumed(m, clock).deadline = m.deadline + (clock - closedSince)
      BY <1>1, <3>1, <3>2 DEF Motion
    <3> HIDE DEF m
    <3>4. QED
      BY <1>1, <1>2, <1>3, <2>1, <3>3
  <2>3. CASE ~(m.deadline > closedSince)
    <3>1. Resumed(m, clock) = m
      BY <2>3 DEF Resumed
    <3>2. served[p] >= owed[p]
      BY <1>1, <1>2, <2>1, <2>3
    <3>3. QED
      BY <1>1, <2>1, <3>1, <3>2
  <2>4. QED
    BY <2>2, <2>3
<1>4. CASE ~(canAct /\ closedSince # Never)
  <2>1. Synced(clock)[p] = m
    BY <1>4 DEF Synced
  <2>2. canAct => Reached = clock
    BY <1>4 DEF Reached
  <2>3. QED
    BY <1>1, <1>2, <2>1, <2>2
<1>5. QED
  BY <1>3, <1>4

(* A step that brings the pause up to date, with the time on the clock.    *)
LEMMA SyncServes ==
    ASSUME GoodFloor, GoodFloor', TimedFloor, PacedFloor, PeriodNext,
           SyncFloor(clock), UNCHANGED <<clock, canAct>>,
           \A s \in Sweepers : sweep'[s] = sweep[s] \/ sweep'[s] = Never \/ canAct,
           \A q \in Ids : Paced(q, motions'[q], clock)
    PROVE  PacedFloor' /\ PeriodsServedStep
<1>1. clock \in Nat /\ closedSince \in Time /\ closedSince <= clock
  BY DEF GoodFloor, PacedFloor
<1>2. /\ closedSince' = IF canAct THEN Never
                        ELSE IF closedSince = Never THEN clock ELSE closedSince
      /\ clock' = clock /\ canAct' = canAct /\ ~SlotPassed
  BY DEF SyncFloor, SlotPassed
<1>3. closedSince' <= clock'
  BY <1>1, <1>2 DEF Never
<1>4. \A s \in Sweepers : sweep'[s] # Never => closedSince' \in {Never, clock'}
  BY <1>2 DEF PacedFloor
<1>5. Reached' = IF canAct THEN clock ELSE Reached
  BY <1>1, <1>2 DEF Reached, Never, Time
<1>6. Reached \in Int /\ Reached <= clock
  BY <1>1 DEF Reached, Never, Time
<1>7. ASSUME NEW q \in Ids
      PROVE  Ahead(q)'
  <2>1. SUFFICES ASSUME Active(motions'[q])
                 PROVE  \/ served'[q] >= owed'[q]
                        \/ served'[q] + motions'[q].deadline >= owed'[q] + Reached'
    BY DEF Ahead
  <2>2. motions'[q].deadline \in Int /\ owed[q] \in Int /\ served[q] \in Int
    BY MotionTimes DEF GoodFloor, GoodMotions, PacedFloor
  <2>3. CASE /\ motions'[q].state # motions[q].state
             /\ owed'[q] = motions'[q].deadline - clock' /\ served'[q] = 0
    BY <1>1, <1>2, <1>5, <1>6, <2>2, <2>3
  <2>4. CASE /\ motions'[q].state = motions[q].state /\ Active(motions[q])
             /\ owed'[q] = owed[q]
             /\ served'[q] = IF SlotPassed THEN served[q] + 1 ELSE served[q]
    <3>1. motions'[q].deadline = Synced(clock)[q].deadline
      BY <2>4 DEF Paced
    <3>2. \/ served[q] >= owed[q]
          \/ served[q] + Synced(clock)[q].deadline
                 >= owed[q] + IF canAct THEN clock ELSE Reached
      BY <2>4, SyncedAhead
    <3>3. QED
      BY <1>2, <1>5, <2>4, <3>1, <3>2
  <2>5. QED
    BY <2>1, <2>3, <2>4, HistorySteps
<1>8. ASSUME NEW q \in Ids, RanOut(motions[q], motions'[q])
      PROVE  served[q] >= owed[q]
  <2>1. Active(motions[q])
    BY <1>8 DEF RanOut, Lapsed, DebateRanOut, VoteRanOut, Active, ActiveStates
  <2>2. canAct /\ Synced(clock)[q].deadline <= clock
    BY <1>8 DEF Paced
  <2>3. /\ Synced(clock)[q].deadline \in Int
        /\ \/ served[q] >= owed[q]
           \/ served[q] + Synced(clock)[q].deadline >= owed[q] + clock
    BY <2>1, <2>2, SyncedAhead
  <2>4. owed[q] \in Int /\ served[q] \in Int
    BY DEF PacedFloor
  <2>5. QED
    BY <1>1, <2>2, <2>3, <2>4
<1>9. PeriodsServedStep
  BY <1>8 DEF PeriodsServedStep, RanOut
<1>10. QED
  BY <1>3, <1>4, <1>7, <1>9, HistorySteps DEF PacedFloor

(* A slot passes: open, it is served; closed, the closure goes on.         *)
LEMMA TickServes ==
    ASSUME GoodFloor, GoodFloor', TimedFloor, PacedFloor, PeriodNext, Tick, Punctual, Lag = 0
    PROVE  PacedFloor' /\ PeriodsServedStep
<1>1. /\ clock \in Nat /\ closedSince \in Time /\ closedSince <= clock
      /\ clock' = clock + 1 /\ closedSince' = closedSince /\ canAct' = canAct
      /\ motions' = motions /\ sweep' = sweep
  BY DEF GoodFloor, PacedFloor, Tick
<1>2. canAct <=> closedSince = Never
  BY DEF Tick, BeatInTime
<1>3. \A s \in Sweepers : sweep[s] = Never
  BY <1>1, OnTheClock DEF Tick
<1>4. ASSUME NEW q \in Ids
      PROVE  Ahead(q)'
  <2>1. SUFFICES ASSUME Active(motions'[q])
                 PROVE  \/ served'[q] >= owed'[q]
                        \/ served'[q] + motions'[q].deadline >= owed'[q] + Reached'
    BY DEF Ahead
  <2>2. motions[q].deadline \in Int /\ owed[q] \in Int /\ served[q] \in Int
    BY MotionTimes DEF GoodFloor, GoodMotions, PacedFloor
  <2>3. /\ owed'[q] = owed[q]
        /\ served'[q] = IF canAct THEN served[q] + 1 ELSE served[q]
    BY <1>1, <2>1, HistorySteps DEF SlotPassed
  <2>4. served[q] >= owed[q] \/ served[q] + motions[q].deadline >= owed[q] + Reached
    BY <1>1, <2>1 DEF PacedFloor, Ahead
  <2>5. Reached' = IF canAct THEN Reached + 1 ELSE Reached
    BY <1>1, <1>2 DEF Reached
  <2>6. Reached \in Int
    BY <1>1 DEF Reached, Time, Never
  <2>7. QED
    BY <1>1, <2>2, <2>3, <2>4, <2>5, <2>6
<1>5. PeriodsServedStep
  BY <1>1 DEF PeriodsServedStep, Lapsed, DebateRanOut, VoteRanOut, GoodFloor, GoodMotions,
     GoodMotion, Active, ActiveStates, UndecidedStates
<1>6. closedSince' <= clock'
  BY <1>1 DEF Time, Never
<1>7. QED
  BY <1>1, <1>3, <1>4, <1>5, <1>6, HistorySteps DEF PacedFloor

(* A step that applies, with the time on the clock, what is due of one     *)
(* motion.                                                                 *)
LEMMA SweepEnds ==
    ASSUME GoodFloor, TimedFloor, NEW s \in Sweepers, NEW p \in Ids, SweepApply(s, p),
           RanOut(motions[p], motions'[p])
    PROVE  Active(motions[p]) /\ motions[p].deadline <= sweep[s]
<1> DEFINE m == motions[p]
           n == Advance(m, sweep[s], timers)
<1>1. /\ m \in Motion /\ Fresh(m) /\ timers \in Kinds /\ sweep[s] \in Nat
      /\ motions \in [Ids -> Motion]
  BY FreshFloor DEF GoodFloor, GoodMotions, SweepApply, Time
<1>2. motions'[p] = n
  BY <1>1 DEF SweepApply
<1>3. Active(m)
  BY DEF RanOut, Lapsed, DebateRanOut, VoteRanOut, Active, ActiveStates
<1>4. Overdue(m, sweep[s])
  <2>1. SUFFICES ASSUME ~Overdue(m, sweep[s])
                 PROVE  FALSE
    OBVIOUS
  <2>2. n = m \/ (m.state = "debate" /\ n = PassAt(m, sweep[s]))
    BY <1>1, <2>1, AdvanceEarly
  <2> HIDE DEF n
  <2>3. /\ n.debateEnded = m.debateEnded /\ n.voteClosed = m.voteClosed
        /\ n.state = m.state \/ n.state = "passed"
    BY <1>1, <2>2, PassEnds
  <2>4. RanOut(m, n)
    BY <1>2
  <2> HIDE DEF m
  <2>5. QED
    BY <1>1, <1>3, <2>3, <2>4
    DEF Fresh, GoodMotion, RanOut, Lapsed, DebateRanOut, VoteRanOut, Active, ActiveStates,
        UndecidedStates
<1>5. QED
  BY <1>3, <1>4 DEF Overdue

LEMMA UnsyncedServes ==
    ASSUME GoodFloor, GoodFloor', TimedFloor, PacedFloor, PeriodNext, Lag = 0,
           \/ \E p \in Ids : ApplyHouseSpec(p) \/ Merge(p)
           \/ \E s \in Sweepers, p \in Ids : SweepApply(s, p) \/ SweepShip(s, p)
           \/ \E s \in Sweepers : EndSweep(s)
           \/ FlagsOff \/ FlagsOn
    PROVE  PacedFloor' /\ PeriodsServedStep
<1>1. /\ clock' = clock /\ closedSince' = closedSince
      /\ \A s \in Sweepers : sweep'[s] = sweep[s] \/ sweep'[s] = Never
  BY DEF ApplyHouseSpec, Merge, SweepApply, SweepShip, EndSweep, FlagsOff, FlagsOn, GoodFloor
<1>2. \A q \in Ids : Ahead(q)'
  BY <1>1, UnsyncedWaits, StandsAhead
<1>3. ASSUME NEW q \in Ids, RanOut(motions[q], motions'[q])
      PROVE  served[q] >= owed[q]
  <2>1. /\ motions \in [Ids -> Motion] /\ GoodMotion(motions[q])
        /\ motions[q].state \in ActiveStates /\ motions'[q] # motions[q]
    BY <1>3 DEF GoodFloor, GoodMotions, GoodMotion, RanOut, Lapsed, DebateRanOut, VoteRanOut,
       ActiveStates, UndecidedStates
  <2>2. PICK s \in Sweepers : SweepApply(s, q)
    BY <2>1 DEF ApplyHouseSpec, Merge, SweepApply, SweepShip, EndSweep, FlagsOff, FlagsOn,
       ActiveStates
  <2>3. Active(motions[q]) /\ motions[q].deadline <= clock /\ closedSince \in {Never, clock}
    BY <1>3, <2>2, SweepEnds, OnTheClock DEF SweepApply, PacedFloor
  <2>4. /\ clock \in Nat /\ motions[q].deadline \in Int
        /\ owed[q] \in Int /\ served[q] \in Int
    BY <2>1, MotionTimes DEF GoodFloor, PacedFloor
  <2>5. served[q] >= owed[q] \/ served[q] + motions[q].deadline >= owed[q] + clock
    BY <2>3 DEF PacedFloor, Ahead, Reached
  <2>6. QED
    BY <2>3, <2>4, <2>5
<1>4. PeriodsServedStep
  BY <1>3 DEF PeriodsServedStep, RanOut
<1>5. closedSince' <= clock' /\ \A s \in Sweepers : sweep'[s] # Never => closedSince' \in {Never, clock'}
  BY <1>1 DEF PacedFloor
<1>6. QED
  BY <1>2, <1>4, <1>5, HistorySteps DEF PacedFloor

LEMMA PeriodNextServes ==
    ASSUME GoodFloor, GoodFloor', TimedFloor, PacedFloor, PeriodNext, Punctual, Lag = 0
    PROVE  PacedFloor' /\ PeriodsServedStep
<1>1. Next
  BY DEF PeriodNext
<1>2. clock \in Nat
  BY DEF GoodFloor
<1>3. CASE Tick
  BY <1>3, TickServes
<1>4. CASE \/ \E p \in Ids : ApplyHouseSpec(p) \/ Merge(p)
           \/ \E s \in Sweepers, p \in Ids : SweepApply(s, p) \/ SweepShip(s, p)
           \/ \E s \in Sweepers : EndSweep(s)
           \/ FlagsOff \/ FlagsOn
  BY <1>4, UnsyncedServes
<1>5. ASSUME NEW now \in admit, SetTestTimers(now)
      PROVE  PacedFloor' /\ PeriodsServedStep
  <2>1. now = clock /\ SyncFloor(clock) /\ UNCHANGED <<clock, canAct, sweep>>
    BY <1>5, OnTheClock DEF SetTestTimers
  <2>2. QED
    BY <1>2, <1>5, <2>1, SetTestTimersPaced, SyncServes
<1>6. ASSUME NEW p \in Ids, NEW now \in admit, AdminWrite(p, now)
      PROVE  PacedFloor' /\ PeriodsServedStep
  <2>1. now = clock /\ SyncFloor(clock) /\ UNCHANGED <<clock, canAct, sweep>>
    BY <1>6, OnTheClock DEF AdminWrite, EndDebate, CloseVote, PutDraft, Publish, Write
  <2>2. QED
    BY <1>2, <1>6, <2>1, AdminWritePaced, SyncServes
<1>7. ASSUME NEW x \in Members, NEW p \in Ids, NEW now \in admit, MemberWrite(x, p, now)
      PROVE  PacedFloor' /\ PeriodsServedStep
  <2>1. now = clock /\ SyncFloor(clock) /\ UNCHANGED <<clock, canAct, sweep>>
    BY <1>7, OnTheClock DEF MemberWrite, Move, Edit, Withdraw, Second, Consent, Vote, Write
  <2>2. QED
    BY <1>2, <1>7, <2>1, MemberWritePaced, SyncServes
<1>8. ASSUME NEW s \in Sweepers, NEW now \in Window(clock), BeginSweep(s, now)
      PROVE  PacedFloor' /\ PeriodsServedStep
  <2>1. now = clock
    BY OnTheClock
  <2>2. /\ motions' = Synced(clock) /\ SyncFloor(clock) /\ UNCHANGED <<clock, canAct>>
        /\ sweep' = [sweep EXCEPT ![s] = IF canAct THEN clock ELSE Never]
    BY <1>8, <2>1 DEF BeginSweep
  <2>3. \A r \in Sweepers : sweep'[r] = sweep[r] \/ sweep'[r] = Never \/ canAct
    BY <2>2 DEF GoodFloor
  <2>4. ASSUME NEW q \in Ids
        PROVE  Paced(q, motions'[q], clock)
    BY <1>2, <2>2, SyncedSame
    DEF Paced, RanOut, Lapsed, DebateRanOut, VoteRanOut, GoodMotion, Active, ActiveStates,
        UndecidedStates
  <2>5. QED
    BY <2>2, <2>3, <2>4, SyncServes
<1>9. QED
  BY <1>1, <1>3, <1>4, <1>5, <1>6, <1>7, <1>8 DEF Next, Sweeping

(* Members get every slot the page promised them when a period opened, on  *)
(* an open floor, before it ends by its deadline: with the ticker's beat   *)
(* in every slot and nothing in flight past its slot, for all timers, and  *)
(* however often and long the floor is closed meanwhile.  (A late request  *)
(* can cost a period a slot: it brings the pause up to date with the time  *)
(* it began with.)                                                         *)
THEOREM PeriodsAreServed ==
    Punctual /\ Lag = 0 => (PeriodSpec => PeriodsServed)
<1> SUFFICES ASSUME Punctual, Lag = 0
             PROVE  PeriodSpec => PeriodsServed
  OBVIOUS
<1>1. PeriodSpec => Spec
  <2>1. PeriodInit => Init
    BY DEF PeriodInit
  <2>2. [PeriodNext]_periodVars => [Next]_vars
    BY DEF PeriodNext, periodVars
  <2>3. QED
    BY <2>1, <2>2, PTL DEF PeriodSpec, Spec
<1>2. PeriodInit => PacedFloor
  <2>1. Active(NoMotion) = FALSE
    BY DEF Active, ActiveStates, NoMotion
  <2>2. QED
    BY <2>1 DEF PeriodInit, Init, PacedFloor, Ahead, Never
<1>3. GoodFloor /\ GoodFloor' /\ TimedFloor /\ PacedFloor /\ [PeriodNext]_periodVars
          => PacedFloor' /\ [PeriodsServedStep]_periodVars
  <2>1. CASE PeriodNext
    BY <2>1, PeriodNextServes
  <2>2. CASE UNCHANGED periodVars
    BY <2>2 DEF periodVars, vars, PacedFloor, Ahead, Reached, Active
  <2>3. QED
    BY <2>1, <2>2
<1>4. GoodFloor /\ TimedFloor /\ [Next]_vars => TimedFloor'
  BY NextTimed
<1>5. Spec => []TimedFloor
  BY <1>4, InitTimed, AlwaysGood, PTL DEF Spec
<1>6. QED
  BY <1>1, <1>2, <1>3, <1>5, AlwaysGood, PTL DEF PeriodSpec, PeriodsServed

=============================================================================
