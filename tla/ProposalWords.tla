---------------------------- MODULE ProposalWords ----------------------------
(***************************************************************************)
(* What a proposal's page says of a motion and offers a member to do about *)
(* it, worked out from what the API tells of it: lib/proposals-format.ts,  *)
(* propose/Countdown.tsx and the panels of propose/[id], over the floor.   *)
(* A sentence is named by what it says; what it says is stated again, of   *)
(* the motion itself, by the properties.                                   *)
(*                                                                         *)
(* Definitions marked Slip are the mutants of the definition that follows. *)
(***************************************************************************)
EXTENDS ProposeFloor

NotTold == -1   \* a number the API leaves out

(***************************************************************************)
(* detail, _card and _you: what the API tells a signed-in member x of m.   *)
(* A tally is told once the vote has closed.                               *)
(***************************************************************************)
TallyOfVote(m) == [
    yes      |-> Cardinality(Choosers(m.ballots, "yes")),
    no       |-> Cardinality(Choosers(m.ballots, "no")),
    abstain  |-> Cardinality(Choosers(m.ballots, "abstain")),
    eligible |-> Cardinality(m.eligible),
    met      |-> QuorumMet(m)]

You(m, x) == [
    canEdit     |-> m.mover = x /\ m.state = "submitted",
    canWithdraw |-> m.mover = x /\ Active(m),
    canSecond   |-> m.mover # x /\ m.state = "submitted",
    canConsent  |-> m.state = "debate" /\ x \in m.eligible /\ m.consents[x] = "none",
    canVote     |-> m.state = "voting" /\ x \in m.eligible,
    consent     |-> m.consents[x],
    vote        |-> m.ballots[x]]

Detail(m, x) == [
    state      |-> m.state,
    deadline   |-> m.deadline,
    mover      |-> m.mover,
    seconder   |-> m.seconder,
    objections |-> Cardinality(Objectors(m)),
    eligible   |-> IF m.secondedAt = Never THEN NotTold ELSE Cardinality(m.eligible),
    consents   |-> IF m.secondedAt = Never THEN NotTold
                   ELSE Cardinality(Choosers(m.consents, "consented")),
    turnout    |-> IF m.state = "voting" THEN Cardinality(Ballots(m)) ELSE NotTold,
    tally      |-> IF m.voteClosed = Never THEN {} ELSE {TallyOfVote(m)},
    task       |-> m.state \in {"building", "shipped"},
    you        |-> You(m, x)]

-----------------------------------------------------------------------------
(* Where it is listed and where it stands. *)

SectionOf(state) ==
    CASE state = "submitted" -> "needs a second"
      [] state \in {"debate", "voting"} -> state
      [] OTHER -> "decided"

isActive(state) == state \in {"submitted", "debate", "voting"}

standingLine(d) ==
    CASE d.state = "submitted" -> "needs another member to second it"
      [] d.state = "debate" -> "every member counted can consent or object"
      [] d.state = "voting" -> "someone objected, so they are voting"
      [] d.state = "passed" -> IF d.tally = {} THEN "passed, nobody objected"
                               ELSE "passed the vote"
      [] d.state = "failed" -> IF d.tally = {} THEN "failed" ELSE "failed the vote"
      [] d.state = "lapsed" -> "nobody seconded it in time"
      [] d.state = "withdrawn" -> "its mover withdrew it"
      [] OTHER -> "it passed, and it is a task"

(* The deadline of an active motion, by the page's clock.                  *)
deadlineLabel(d, now, paused) ==
    CASE ~isActive(d.state) \/ d.deadline = Never -> "nothing"
      [] isActive(d.state) /\ d.deadline # Never /\ paused -> "paused"
      [] isActive(d.state) /\ d.deadline # Never /\ ~paused ->
             IF d.deadline - now <= 0 THEN "time is up" ELSE "ends in"

-----------------------------------------------------------------------------
(* Consent, turnout and tally. *)

consentLine(d) ==
    CASE d.state # "debate" -> <<"nothing">>
      [] d.state = "debate" /\ d.objections > 0 -> <<"goes to a vote after debate">>
      [] d.state = "debate" /\ d.objections = 0 ->
             IF NotTold \in {d.consents, d.eligible} THEN <<"nothing">>
             ELSE <<"have consented", d.consents, d.eligible>>

yourConsentLine(d, x) ==
    CASE d.you.consent = "objected" -> "you objected"
      [] d.you.consent = "consented" /\ d.mover # x -> "you consented"
      [] d.you.consent = "consented" /\ d.mover = x ->
             IF d.state = "debate" THEN "you count as consenting" ELSE "nothing"
      [] OTHER -> "nothing"

quorumNeeded(eligible) == eligible \div 2 + 1

\* Slip: a tie counts as passed.
ResultOfTie(tally) ==
    CASE ~tally.met -> "without quorum, it failed"
      [] tally.met /\ tally.yes >= tally.no -> "it passed"
      [] OTHER -> "more No than Yes, so it failed"

ResultLine(tally) ==
    CASE ~tally.met -> "without quorum, it failed"
      [] tally.met /\ tally.yes > tally.no -> "it passed"
      [] tally.met /\ tally.yes = tally.no -> "a tie, so it failed"
      [] OTHER -> "more No than Yes, so it failed"

-----------------------------------------------------------------------------
(* What the panels offer: a member's part, and an admin's.                 *)

Buttons(d) ==
    {b \in {"edit", "withdraw", "second", "consent", "vote"} :
        CASE b = "edit" -> d.you.canEdit
          [] b = "withdraw" -> d.you.canWithdraw
          [] b = "second" -> d.you.canSecond
          [] b = "consent" -> d.you.canConsent
          [] b = "vote" -> d.you.canVote}

AdminButtons(d, testTimers) ==
    {b \in {"end debate", "close vote", "draft"} :
        CASE b = "end debate" -> d.state = "debate" /\ testTimers
          [] b = "close vote" -> d.state = "voting" /\ testTimers
          [] b = "draft" -> d.state = "passed" /\ ~d.task}

(* The panel with nothing in it says why.                                  *)
nothing(d, x) ==
    /\ Buttons(d) = {}
    /\ yourConsentLine(d, x) = "nothing"
    /\ d.you.vote = "none"

NothingLine(d) ==
    CASE d.state \in {"debate", "voting"} -> "only members counted at the second"
      [] d.state = "submitted" -> "until someone seconds it"
      [] OTHER -> "it has been decided"

(* What the page says when a write was answered.                           *)
ConsentedLine(d) ==
    IF d.state = "passed" THEN "with that everyone has: it passed" ELSE "you consented"

DebateEndedLine(d) ==
    CASE d.state = "voting" -> "voting is open"
      [] d.state = "passed" -> "with no objection, so it passed"
      [] OTHER -> "debate ended"

(* wentThrough, of the writes that leave no copy of their text: whether    *)
(* the proposal read back shows that x's write of kind w was done.         *)
wentThrough(w, d, x) ==
    CASE w = "second" -> d.seconder = x
      [] w = "consent" -> d.you.consent = "consented"
      [] w = "object" -> d.you.consent = "objected"
      [] w = "withdraw" -> d.state = "withdrawn"
      [] w = "end_debate" -> d.state # "debate"
      [] w = "close_vote" -> d.state # "voting"
      [] w = "publish" -> d.task

-----------------------------------------------------------------------------
(* Properties. *)

(* What a detail read now is worked out from: _current applies what is due *)
(* first.                                                                  *)
Read(p) == Current(p, clock)

(* Where the page says a motion stands, and how it says a vote came out,   *)
(* is how the floor decided it and why: the page counts again what the     *)
(* floor counted, and words for a decision without a vote and for one with *)
(* a vote go by the tally alone.                                           *)
OutcomeTrue(m, d) ==
    /\ SectionOf(m.state) = "decided" <=> m.decided # Never
    /\ CASE standingLine(d) = "someone objected, so they are voting" -> Objectors(m) # {}
         [] standingLine(d) = "passed, nobody objected" -> Objectors(m) = {}
         [] standingLine(d) = "passed the vote" -> Objectors(m) # {} /\ Carried(m)
         [] standingLine(d) = "failed the vote" -> Objectors(m) # {} /\ ~Carried(m)
         [] standingLine(d) = "failed" -> FALSE
         [] standingLine(d) = "nobody seconded it in time" -> m.seconder = NoOne
         [] OTHER -> TRUE
    /\ \A tally \in d.tally :
           /\ ResultLine(tally) = "it passed" <=> m.state \in PassedStates
           /\ tally.met <=> Cardinality(Ballots(m)) >= quorumNeeded(tally.eligible)
    /\ d.turnout # NotTold => d.turnout <= d.eligible

(* While it is open, the page never says that time is up, nor that all     *)
(* have consented and it is still being debated: the read that told it so  *)
(* moved the motion on.                                                    *)
CountdownTrue(d) ==
    canAct =>
        /\ deadlineLabel(d, clock, FALSE) # "time is up"
        /\ consentLine(d) # <<"have consented", d.eligible, d.eligible>>

(* A button is there if the floor takes what it sends, and only then: but  *)
(* for "Edit", which is also there after the last edit the floor takes.    *)
OffersTrue(p, m, d, x) ==
    canAct =>
        /\ "edit" \in Buttons(d) <=> ENABLED Edit(x, p, clock) \/
               (m.mover = x /\ m.state = "submitted" /\ m.revision > MaxEdits)
        /\ "withdraw" \in Buttons(d) <=> ENABLED Withdraw(x, p, clock)
        /\ "second" \in Buttons(d) <=> ENABLED Second(x, p, m.revision, {}, clock)
        /\ \A choice \in {"consented", "objected"} :
               "consent" \in Buttons(d) <=> ENABLED Consent(x, p, choice, clock)
        /\ "vote" \in Buttons(d) <=> ENABLED Vote(x, p, "abstain", clock)
        /\ "end debate" \in AdminButtons(d, timers = "test") <=> ENABLED EndDebate(p, clock)
        /\ "close vote" \in AdminButtons(d, timers = "test") <=> ENABLED CloseVote(p, clock)
        /\ "draft" \in AdminButtons(d, timers = "test") <=> ENABLED PutDraft(p, clock)

(* A panel with nothing to do in it gives the reason there is nothing.     *)
NothingTrue(m, d, x) ==
    nothing(d, x) =>
        CASE NothingLine(d) = "only members counted at the second" -> x \notin m.eligible
          [] NothingLine(d) = "until someone seconds it" -> FALSE
          [] NothingLine(d) = "it has been decided" -> m.decided # Never

(* A page that has just read a proposal says of it what is so, counts down *)
(* only time that is left, and offers each member what the floor would     *)
(* take from them at that moment and nothing else, whatever was applied,   *)
(* paused or decided since anyone last looked.                             *)
PageTrue ==
    \A p \in Ids :
        LET m == Read(p)
        IN  m.state # "none" => \A x \in Members :
                LET d == Detail(m, x)
                IN  /\ OutcomeTrue(m, d)
                    /\ CountdownTrue(d)
                    /\ OffersTrue(p, m, d, x)
                    /\ NothingTrue(m, d, x)

(* The writes that could have been made of m before it came to where it is. *)
Asked(m) ==
    {"second", "withdraw"}
    \cup (IF m.secondedAt = Never THEN {} ELSE {"consent", "object", "end_debate"})
    \cup (IF m.debateEnded = Never THEN {} ELSE {"close_vote"})
    \cup (IF m.decided = Never THEN {} ELSE {"publish"})

(* What the page told x of m, against what it tells of n later.            *)
KeepsWordTo(x, m, n) ==
    LET d == Detail(m, x)
        e == Detail(n, x)
    IN  /\ consentLine(d) = <<"goes to a vote after debate">> =>
               n.state \in {"debate", "voting", "withdrawn"} \/ n.voteClosed # Never
        /\ \A w \in Asked(m) : wentThrough(w, d, x) => wentThrough(w, e, x)
        /\ m.state = "debate" /\ m.consents[x] = "none" /\ n.consents[x] = "consented" =>
               (ConsentedLine(e) = "with that everyone has: it passed"
                   <=> canAct /\ \A y \in n.eligible : n.consents[y] = "consented")
        /\ "debate" \notin m.cut /\ "debate" \in n.cut =>
               CASE DebateEndedLine(e) = "voting is open" -> Objectors(n) # {}
                 [] DebateEndedLine(e) = "with no objection, so it passed" -> Objectors(n) = {}
                 [] OTHER -> FALSE

PageKeepsWordStep ==
    \A p \in Ids : motions'[p] # motions[p] =>
        \A x \in Members : KeepsWordTo(x, motions[p], motions'[p])

(* "Goes to a vote after debate" comes true or the mover takes it back;    *)
(* what the page has once found to have gone through it will find so       *)
(* whenever it reads again; a consent is told to be the last one when it   *)
(* is, and passes it at once; and a debate an admin ends with no objection *)
(* is told to pass for that reason.                                        *)
PageKeepsWord == [][PageKeepsWordStep]_vars

=============================================================================
