------------------------------ MODULE MCFloor ------------------------------
(***************************************************************************)
(* Small instances of the floor for TLC.  AllSpec is the whole of the      *)
(* floor, with its fairness, on the instance the .cfg gives; PartsSpec is  *)
(* four others, each of which takes some of it further: a behaviour is of  *)
(* one of them.                                                            *)
(***************************************************************************)
EXTENDS ProposalWords, FiniteSetTheorems, TLAPS, TLC

CONSTANTS a1, a2, a3, b1, b2, q1, p1, p2, r1

ASSUME PeopleAssumption == NoOne \notin {a1, a2, a3, b1, b2} /\ Ticker # r1

VARIABLE part   \* which instance this behaviour is of

allVars == <<periodVars, part>>

(* Pilot periods outlast test ones; a test period is one slot.             *)
MCTimers ==
    [pilot |-> [lapse |-> 2, debate |-> 2, vote |-> 1],
     test  |-> [lapse |-> 1, debate |-> 1, vote |-> 1]]

LongVotes == [MCTimers EXCEPT !.pilot.vote = 2]

Symmetry ==
    Permutations({a1, a2, a3}) \cup Permutations({b1, b2}) \cup Permutations({p1, p2})

NoPeriods == owed = 0 /\ served = 0

-----------------------------------------------------------------------------
(* Every action, under the fairness of the ticker.                         *)
AllInit == part = "all" /\ Init /\ NoPeriods
AllNext == Next /\ UNCHANGED <<owed, served, part>>
AllSpec == AllInit /\ [][AllNext]_allVars /\ Fairness

-----------------------------------------------------------------------------
(* ProposeFloor under a name of its own: TLC computes the constants of a   *)
(* module once for all unless the module is instantiated.                  *)
Floor == INSTANCE ProposeFloor

(* Three members and the ticker: elections, with requests a slot late.     *)
Votes == INSTANCE ProposeFloorProofs WITH
    Members <- {a1, a2, a3}, Ids <- {q1}, Readers <- {}, Timers <- MCTimers,
    MaxEdits <- 1, Lag <- 1, Punctual <- FALSE, MaxClock <- 4, MaxDeadline <- 4

VotesStep ==
    \/ Votes!Tick
    \/ \E x \in {a1, a2, a3}, now \in admit : Votes!MemberWrite(x, q1, now)
    \/ Votes!Sweeping(Ticker)

(* Two members, the ticker, a reader and the kill switches: pauses, with   *)
(* requests a slot late.                                                   *)
Pauses == INSTANCE ProposeFloorProofs WITH
    Members <- {b1, b2}, Ids <- {q1}, Readers <- {r1}, Timers <- MCTimers,
    MaxEdits <- 0, Lag <- 1, Punctual <- FALSE, MaxClock <- 4, MaxDeadline <- 5

PausesStep ==
    \/ Pauses!Tick \/ Pauses!FlagsOff \/ Pauses!FlagsOn
    \/ \E x \in {b1, b2}, now \in admit : Pauses!MemberWrite(x, q1, now)
    \/ \E s \in {Ticker, r1} : Pauses!Sweeping(s)

(* Two proposals of two members, and the kill switches.                    *)
Two == INSTANCE ProposeFloorProofs WITH
    Members <- {b1, b2}, Ids <- {p1, p2}, Readers <- {}, Timers <- MCTimers,
    MaxEdits <- 0, Lag <- 0, Punctual <- FALSE, MaxClock <- 3, MaxDeadline <- 3

TwoStep ==
    \/ Two!Tick \/ Two!FlagsOff \/ Two!FlagsOn
    \/ \E x \in {b1, b2}, p \in {p1, p2}, now \in admit : Two!MemberWrite(x, p, now)
    \/ Two!Sweeping(Ticker)

(* Every action, a beat in every slot: the periods against the pauses.     *)
Periods2 == INSTANCE ProposeFloorProofs WITH
    Members <- {b1, b2}, Ids <- {q1}, Readers <- {}, Timers <- LongVotes,
    MaxEdits <- 0, Lag <- 0, Punctual <- TRUE, MaxClock <- 4, MaxDeadline <- 4

PartsInit ==
    \/ part = "votes" /\ Votes!Init /\ NoPeriods
    \/ part = "pauses" /\ Pauses!Init /\ NoPeriods
    \/ part = "two" /\ Two!Init /\ NoPeriods
    \/ part = "periods" /\ Periods2!PeriodInit

PartsNext ==
    /\ UNCHANGED part
    /\ \/ part = "votes" /\ VotesStep /\ UNCHANGED <<owed, served>>
       \/ part = "pauses" /\ PausesStep /\ UNCHANGED <<owed, served>>
       \/ part = "two" /\ TwoStep /\ UNCHANGED <<owed, served>>
       \/ part = "periods" /\ Periods2!PeriodNext

PartsSpec == PartsInit /\ [][PartsNext]_allVars

(* What is on the floor is as the rules have it, in the instances that     *)
(* take each rule furthest (DecisionSound, Electorate, TimelineInOrder,    *)
(* OneActive): elections of three, late requests across a pause, two       *)
(* proposals of one mover.                                                 *)
FloorSound ==
    /\ part = "votes" => Votes!DecisionSound /\ Votes!Electorate
    /\ part = "pauses" => Pauses!TimelineInOrder
    /\ part = "two" => Two!OneActive

(* What was said stays said, a deadline moves only by as long as the floor *)
(* was closed, and no period ends before members had all its slots on an   *)
(* open floor (WordKept, DeadlineWaits, PeriodsServed).                    *)
NothingCutShort ==
    [][/\ part = "votes" => Votes!WordKeptStep
       /\ part = "pauses" => Pauses!DeadlineWaitsStep
       /\ part = "periods" => Periods2!PeriodsServedStep]_allVars

-----------------------------------------------------------------------------
(* The floor with its periods, on the instance the .cfg gives.             *)
AloneSpec == part = "alone" /\ PeriodInit /\ [][PeriodNext /\ UNCHANGED part]_allVars

-----------------------------------------------------------------------------
(* The two properties of PartsSpec, for however long the floor runs: each  *)
(* instance is of ProposeFloorProofs, its constants fit, a behaviour is    *)
(* of one instance throughout, and what the theorems say of each is what   *)
(* the properties ask of it.                                               *)

LEMMA TimersFit ==
    ASSUME NEW T \in {MCTimers, LongVotes}
    PROVE  T \in [{"pilot", "test"} -> [{"lapse", "debate", "vote"} -> Nat \ {0}]]
BY DEF MCTimers, LongVotes

LEMMA FewAreFinite ==
    ASSUME NEW a, NEW b, NEW c
    PROVE  IsFiniteSet({a, b}) /\ IsFiniteSet({a, b, c})
<1>1. IsFiniteSet({a})
  BY FS_Singleton
<1>2. IsFiniteSet({a} \cup {b})
  BY <1>1, FS_AddElement
<1>3. IsFiniteSet(({a} \cup {b}) \cup {c})
  BY <1>2, FS_AddElement
<1>4. /\ {a, b} = {a} \cup {b}
      /\ {a, b, c} = ({a} \cup {b}) \cup {c}
  OBVIOUS
<1> QED
  BY ONLY <1>2, <1>3, <1>4

LEMMA VotesFit == Votes!FloorAssumption
<1>1. Votes!IsFiniteSet({a1, a2, a3}) <=> IsFiniteSet({a1, a2, a3})
  BY DEF Votes!IsFiniteSet, IsFiniteSet
<1> QED
  BY <1>1, FewAreFinite, TimersFit, PeopleAssumption
  DEF Votes!FloorAssumption, Votes!Kinds, Votes!Periods

LEMMA PausesFit == Pauses!FloorAssumption
<1>1. Pauses!IsFiniteSet({b1, b2}) <=> IsFiniteSet({b1, b2})
  BY DEF Pauses!IsFiniteSet, IsFiniteSet
<1> QED
  BY <1>1, FewAreFinite, TimersFit, PeopleAssumption
  DEF Pauses!FloorAssumption, Pauses!Kinds, Pauses!Periods

LEMMA TwoFit == Two!FloorAssumption
<1>1. Two!IsFiniteSet({b1, b2}) <=> IsFiniteSet({b1, b2})
  BY DEF Two!IsFiniteSet, IsFiniteSet
<1> QED
  BY <1>1, FewAreFinite, TimersFit, PeopleAssumption
  DEF Two!FloorAssumption, Two!Kinds, Two!Periods

LEMMA PeriodsFit == Periods2!FloorAssumption
<1>1. Periods2!IsFiniteSet({b1, b2}) <=> IsFiniteSet({b1, b2})
  BY DEF Periods2!IsFiniteSet, IsFiniteSet
<1> QED
  BY <1>1, FewAreFinite, TimersFit, PeopleAssumption
  DEF Periods2!FloorAssumption, Periods2!Kinds, Periods2!Periods

(* A behaviour of PartsSpec is one of its instance.                        *)
LEMMA VotesParts == PartsSpec /\ part = "votes" => [](part = "votes") /\ Votes!Spec
<1>1. PartsInit /\ part = "votes" => Votes!Init
  BY DEF PartsInit
<1>2. part = "votes" /\ [PartsNext]_allVars => [Votes!Next]_(Votes!vars) /\ (part = "votes")'
  <2> SUFFICES ASSUME part = "votes", [PartsNext]_allVars
               PROVE  [Votes!Next]_(Votes!vars) /\ (part = "votes")'
    OBVIOUS
  <2>1. CASE UNCHANGED allVars
    BY <2>1 DEF allVars, periodVars, vars, Votes!vars
  <2>2. CASE PartsNext
    <3>1. VotesStep /\ part' = part
      BY <2>2 DEF PartsNext
    <3>2. Ticker \in Votes!Sweepers /\ q1 \in {q1}
      BY DEF Votes!Sweepers
    <3>3. Votes!Next
      BY <3>1, <3>2 DEF VotesStep, Votes!Next
    <3> QED
      BY <3>3, <3>1
  <2> QED
    BY <2>1, <2>2
<1> QED
  BY <1>1, <1>2, PTL DEF Votes!Spec, PartsSpec

LEMMA PausesParts == PartsSpec /\ part = "pauses" => [](part = "pauses") /\ Pauses!Spec
<1>1. PartsInit /\ part = "pauses" => Pauses!Init
  BY DEF PartsInit
<1>2. part = "pauses" /\ [PartsNext]_allVars => [Pauses!Next]_(Pauses!vars) /\ (part = "pauses")'
  <2> SUFFICES ASSUME part = "pauses", [PartsNext]_allVars
               PROVE  [Pauses!Next]_(Pauses!vars) /\ (part = "pauses")'
    OBVIOUS
  <2>1. CASE UNCHANGED allVars
    BY <2>1 DEF allVars, periodVars, vars, Pauses!vars
  <2>2. CASE PartsNext
    <3>1. PausesStep /\ part' = part
      BY <2>2 DEF PartsNext
    <3>2. {Ticker, r1} \subseteq Pauses!Sweepers /\ q1 \in {q1}
      BY DEF Pauses!Sweepers
    <3>3. Pauses!Next
      BY <3>1, <3>2 DEF PausesStep, Pauses!Next
    <3> QED
      BY <3>3, <3>1
  <2> QED
    BY <2>1, <2>2
<1> QED
  BY <1>1, <1>2, PTL DEF Pauses!Spec, PartsSpec

LEMMA TwoParts == PartsSpec /\ part = "two" => [](part = "two") /\ Two!Spec
<1>1. PartsInit /\ part = "two" => Two!Init
  BY DEF PartsInit
<1>2. part = "two" /\ [PartsNext]_allVars => [Two!Next]_(Two!vars) /\ (part = "two")'
  <2> SUFFICES ASSUME part = "two", [PartsNext]_allVars
               PROVE  [Two!Next]_(Two!vars) /\ (part = "two")'
    OBVIOUS
  <2>1. CASE UNCHANGED allVars
    BY <2>1 DEF allVars, periodVars, vars, Two!vars
  <2>2. CASE PartsNext
    <3>1. TwoStep /\ part' = part
      BY <2>2 DEF PartsNext
    <3>2. Ticker \in Two!Sweepers
      BY DEF Two!Sweepers
    <3>3. Two!Next
      BY <3>1, <3>2 DEF TwoStep, Two!Next
    <3> QED
      BY <3>3, <3>1
  <2> QED
    BY <2>1, <2>2
<1> QED
  BY <1>1, <1>2, PTL DEF Two!Spec, PartsSpec

LEMMA PeriodParts ==
    PartsSpec /\ part = "periods" => [](part = "periods") /\ Periods2!PeriodSpec
<1>1. PartsInit /\ part = "periods" => Periods2!PeriodInit
  BY DEF PartsInit
<1>2. part = "periods" /\ [PartsNext]_allVars
          => [Periods2!PeriodNext]_(Periods2!periodVars) /\ (part = "periods")'
  <2> SUFFICES ASSUME part = "periods", [PartsNext]_allVars
               PROVE  [Periods2!PeriodNext]_(Periods2!periodVars) /\ (part = "periods")'
    OBVIOUS
  <2>1. CASE UNCHANGED allVars
    BY <2>1 DEF allVars, periodVars, vars, Periods2!periodVars, Periods2!vars
  <2>2. CASE PartsNext
    BY <2>2 DEF PartsNext
  <2> QED
    BY <2>1, <2>2
<1> QED
  BY <1>1, <1>2, PTL DEF Periods2!PeriodSpec, PartsSpec

LEMMA OnePart ==
    PartsSpec => \/ part = "votes"
                 \/ part = "pauses"
                 \/ part = "two"
                 \/ part = "periods"
BY DEF PartsSpec, PartsInit

THEOREM PartsSound == PartsSpec => []FloorSound
<1>1. PartsSpec /\ part = "votes" => [](part = "votes" /\ Votes!DecisionSound /\ Votes!Electorate)
  BY VotesParts, VotesFit, Votes!DecisionsSound, Votes!ElectorateFrozen, PTL
<1>2. PartsSpec /\ part = "pauses" => [](part = "pauses" /\ Pauses!TimelineInOrder)
  BY PausesParts, PausesFit, Pauses!TimelineDated, PTL
<1>3. PartsSpec /\ part = "two" => [](part = "two" /\ Two!OneActive)
  BY TwoParts, TwoFit, Two!NeverTwoActive, PTL
<1>4. PartsSpec /\ part = "periods" => [](part = "periods")
  BY PeriodParts, PTL
<1>5. \/ part = "votes" /\ Votes!DecisionSound /\ Votes!Electorate
      \/ part = "pauses" /\ Pauses!TimelineInOrder
      \/ part = "two" /\ Two!OneActive
      \/ part = "periods"
      => FloorSound
  BY DEF FloorSound
<1> QED
  BY <1>1, <1>2, <1>3, <1>4, <1>5, OnePart, PTL

LEMMA VotesCutNothing ==
    [PartsNext]_allVars /\ part = "votes" /\ [Votes!WordKeptStep]_(Votes!vars)
        => [/\ part = "votes" => Votes!WordKeptStep
            /\ part = "pauses" => Pauses!DeadlineWaitsStep
            /\ part = "periods" => Periods2!PeriodsServedStep]_allVars
BY DEF PartsNext, allVars, periodVars, vars, Votes!vars

LEMMA PausesCutNothing ==
    [PartsNext]_allVars /\ part = "pauses" /\ [Pauses!DeadlineWaitsStep]_(Pauses!vars)
        => [/\ part = "votes" => Votes!WordKeptStep
            /\ part = "pauses" => Pauses!DeadlineWaitsStep
            /\ part = "periods" => Periods2!PeriodsServedStep]_allVars
BY DEF PartsNext, allVars, periodVars, vars, Pauses!vars

LEMMA PeriodsCutNothing ==
    [PartsNext]_allVars /\ part = "periods"
    /\ [Periods2!PeriodsServedStep]_(Periods2!periodVars)
        => [/\ part = "votes" => Votes!WordKeptStep
            /\ part = "pauses" => Pauses!DeadlineWaitsStep
            /\ part = "periods" => Periods2!PeriodsServedStep]_allVars
BY DEF PartsNext, allVars, periodVars, vars, Periods2!periodVars, Periods2!vars

THEOREM PartsCutNothingShort == PartsSpec => NothingCutShort
<1>1. PartsSpec /\ part = "votes" => [](part = "votes") /\ Votes!WordKept
  BY VotesParts, VotesFit, Votes!WordsKept, PTL
<1>2. PartsSpec /\ part = "pauses" => [](part = "pauses") /\ Pauses!DeadlineWaits
  BY PausesParts, PausesFit, Pauses!DeadlinesWait, PTL
<1>3. PartsSpec /\ part = "two" => [](part = "two")
  BY TwoParts, PTL
<1>4. PartsSpec /\ part = "periods" => [](part = "periods") /\ Periods2!PeriodsServed
  <2>1. 0 = 0
    OBVIOUS
  <2>2. TRUE /\ 0 = 0 => (Periods2!PeriodSpec => Periods2!PeriodsServed)
    BY PeriodsFit, Periods2!PeriodsAreServed
  <2>3. Periods2!PeriodSpec => Periods2!PeriodsServed
    BY <2>1, <2>2, PTL
  <2> QED
    BY <2>3, PeriodParts, PTL
<1>5. part = "two"
        => [/\ part = "votes" => Votes!WordKeptStep
            /\ part = "pauses" => Pauses!DeadlineWaitsStep
            /\ part = "periods" => Periods2!PeriodsServedStep]_allVars
  OBVIOUS
<1> QED
  BY <1>1, <1>2, <1>3, <1>4, <1>5, OnePart, VotesCutNothing, PausesCutNothing,
     PeriodsCutNothing, PTL
  DEF PartsSpec, NothingCutShort, Votes!WordKept, Pauses!DeadlineWaits, Periods2!PeriodsServed

=============================================================================
