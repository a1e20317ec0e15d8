---------------------------- MODULE ProposalPage ----------------------------
(***************************************************************************)
(* One proposal's page, in a member's browser: reads that leave at any     *)
(* time and land in any order (in public from the API, and through the BFF *)
(* with what this member may do), one write at a time, and the words that  *)
(* say what it came to.  A write's answer may be lost, and the write itself *)
(* may still be under way when the page has given up on it.                *)
(***************************************************************************)
EXTENDS Naturals, Sequences

CONSTANTS Kinds,      \* what this member does: "consent", "object", "comment"
          MaxV,       \* versions of the proposal
          MaxReads    \* reads out at once

VARIABLES
  api,     \* the proposal: v, its state, this member's consent and comments
  page,    \* the session, the view, the detail on screen, the open step, the words said
  reads,   \* reads out, in the order they left
  op,      \* the write: its kind, how far it is, what its answer was
  late     \* a request nobody waits for any more

vars == <<api, page, reads, op, late>>

-----------------------------------------------------------------------------
\* What an answer holds: the proposal as it stood, and whether it came with `you`.
Detail(you) == [v |-> api.v, state |-> api.state, you |-> you, mine |-> api.mine, said |-> api.said]
NoDetail == [v |-> 0, state |-> "debate", you |-> FALSE, mine |-> "none", said |-> 0]
NoOp == [kind |-> "none", st |-> "none", step |-> 1, got |-> NoDetail, before |-> 0]

Writing == op.st \in {"out", "ok", "null", "stale", "no", "lost"}   \* Freshness.writing
Working == op.st # "none"                                           \* working.current

\* A read leaves: `lands` is whether its ticket may still be shown.
NewRead(for, how) == [for |-> for, how |-> how, st |-> "out", got |-> NoDetail, lands |-> TRUE]
Room == Len(reads) < MaxReads
Rest(i) == SubSeq(reads, 1, i - 1) \o SubSeq(reads, i + 1, Len(reads))

\* Mutant of Verdict: a write whose answer was lost is taken to have gone through.
VerdictHopes(d) == "ok"

\* Mutant of Barred: a read that left before the write may still be shown.
BarredNot(rs) == rs

\* writeStarted, writeEnded: every read already out is stale from now on.
Barred(rs) == [n \in 1..Len(rs) |-> [rs[n] EXCEPT !.lands = FALSE]]

\* accept: not while a write is out, not across one, and not behind a newer answer.
Accepted(i) == reads[i].lands /\ ~Writing
Overtaken(i, rs) == [n \in 1..Len(rs) |-> IF n < i THEN [rs[n] EXCEPT !.lands = FALSE] ELSE rs[n]]
Landed(i) == IF Accepted(i) THEN Overtaken(i, Rest(i)) ELSE Rest(i)
Shown(pg, d) == [pg EXCEPT !.detail = d, !.step = IF d.state # pg.detail.state THEN "none" ELSE @]
Shows(pg, i) == IF Accepted(i) THEN Shown(pg, reads[i].got) ELSE pg

-----------------------------------------------------------------------------
\* wentThrough: what the proposal read back says of the write; "?" when it cannot say.
Went(d) ==
  CASE op.kind = "comment" -> IF d.said > op.before THEN "yes" ELSE "no"
    [] ~d.you -> "?"
    [] op.kind = "consent" -> IF d.mine = "consented" THEN "yes" ELSE "no"
    [] OTHER -> IF d.mine = "objected" THEN "yes" ELSE "no"

\* say, and what the form does with the answer: closed only by a write that went.
Told(pg, word) ==
  [pg EXCEPT !.told = [kind |-> op.kind, word |-> word],
             !.step = IF word \in {"ok", "reason"} /\ op.kind # "comment" THEN "none" ELSE @]

\* The read that follows a write is over: with an answer, or with none.
Verdict(d) ==
  CASE op.st = "after-null" -> "ok"
    [] op.st = "after-lost" /\ d = NoDetail -> "unread"
    [] op.st = "after-lost" -> IF Went(d) = "yes" THEN "ok" ELSE IF Went(d) = "no" THEN "not" ELSE "unsure"
    [] OTHER -> IF d # NoDetail /\ Went(d) = "yes" THEN "ok" ELSE "no"

\* How a read ends: its answer (or none) concludes the write that waited for it.
Ends(i, pg, rs, d) ==
  /\ IF reads[i].for = "after" THEN page' = Told(pg, Verdict(d)) /\ op' = NoOp
     ELSE page' = pg /\ UNCHANGED op
  /\ reads' = rs
  /\ UNCHANGED <<api, late>>

-----------------------------------------------------------------------------
\* The API and the BFF answer a read; the BFF cannot always vouch for the member.
ReadServed(i) ==
  /\ reads[i].st = "out"
  /\ \E you \in (IF reads[i].how = "you" THEN BOOLEAN ELSE {FALSE}) :
       reads' = [reads EXCEPT ![i].st = "ok", ![i].got = Detail(you)]
  /\ UNCHANGED <<api, page, op, late>>

\* readYou failed: no answer, or one without `you` while the member's own view is shown.
YouFailed(i) == reads[i].st = "out" \/ (~reads[i].got.you /\ page.detail.you)
YouLands(i) ==
  /\ reads[i].how = "you" /\ reads[i].st = "ok" /\ ~YouFailed(i)
  /\ LET d == reads[i].got
         pg == [Shows(page, i) EXCEPT !.view = IF reads[i].for = "load" THEN "ready" ELSE @]
     IN  Ends(i, pg, Landed(i), d)

YouMisses(i) ==
  /\ reads[i].how = "you" /\ YouFailed(i)
  /\ CASE reads[i].for = "load" ->
            Ends(i, [page EXCEPT !.view = "failed", !.detail = NoDetail], Rest(i), NoDetail)
       [] reads[i].for \in {"refresh", "after"} /\ ~page.detail.you ->
            /\ reads' = Append(Rest(i), NewRead(reads[i].for, "public"))
            /\ UNCHANGED <<api, page, op, late>>
       [] OTHER -> Ends(i, page, Rest(i), NoDetail)

\* The public read, of the page's first load and of a refresh.
PublicLands(i) ==
  /\ reads[i].how = "public" /\ reads[i].st = "ok"
  /\ LET shows == Shows(page, i) IN
       IF reads[i].for = "load"
       THEN Ends(i, [shows EXCEPT !.view = "ready"],
                 IF page.in THEN Append(Landed(i), NewRead("you", "you")) ELSE Landed(i), NoDetail)
       ELSE Ends(i, shows, Landed(i), reads[i].got)

PublicMisses(i) ==
  /\ reads[i].how = "public" /\ reads[i].st = "out"
  /\ IF reads[i].for # "load" THEN Ends(i, page, Rest(i), NoDetail)
     ELSE IF page.in THEN Ends(i, page, Append(Rest(i), NewRead("load", "you")), NoDetail)
     ELSE Ends(i, [page EXCEPT !.view = "failed", !.detail = NoDetail], Rest(i), NoDetail)

\* refresh
Refresh(for) == Append(reads, NewRead(for, IF page.in THEN "you" ELSE "public"))
Reading == \E n \in 1..Len(reads) : reads[n].for \in {"refresh", "after", "house"}

\* Mutant of Poll: never under a message.
PollQuiet ==
  /\ page.view = "ready" /\ ~Working /\ ~Reading /\ Room /\ page.told.word = "none"
  /\ reads' = Refresh("refresh")
  /\ UNCHANGED <<api, page, op, late>>

\* Every 60 s and on coming back to the tab: never on top of a write or another read.
Poll ==
  /\ page.view = "ready" /\ ~Working /\ ~Reading /\ Room
  /\ reads' = Refresh("refresh")
  /\ UNCHANGED <<api, page, op, late>>

\* While the house model drafts, every 5 s, on an admin's page: through the BFF only.
HousePoll ==
  /\ page.view = "ready" /\ page.in /\ page.detail.you
  /\ ~Working /\ ~Reading /\ Room
  /\ reads' = Append(reads, NewRead("house", "you"))
  /\ UNCHANGED <<api, page, op, late>>

\* Right after a deadline, whatever else is out.
DeadlineRead ==
  /\ page.detail # NoDetail /\ page.detail.state = "debate" /\ Room
  /\ reads' = Refresh("refresh")
  /\ UNCHANGED <<api, page, op, late>>

\* "Try again": for the whole page, and for your part of it.
TryAgain ==
  /\ page.view = "failed" /\ Room
  /\ page' = [page EXCEPT !.view = "loading"]
  /\ reads' = Append(reads, NewRead("load", "public"))
  /\ UNCHANGED <<api, op, late>>

RetryYou ==
  /\ page.view = "ready" /\ page.in /\ ~page.detail.you /\ Room
  /\ \A n \in 1..Len(reads) : reads[n].for # "you"
  /\ reads' = Append(reads, NewRead("you", "you"))
  /\ UNCHANGED <<api, page, op, late>>

\* The session is found while the page is open: it loads again, and the load under way (one at
\* most ever is) is let go of.
SessionFound ==
  /\ ~page.in /\ ~Working /\ Room
  /\ LET loads == {n \in 1..Len(reads) : reads[n].for = "load"}
         kept == IF loads = {} THEN reads ELSE Rest(CHOOSE n \in loads : TRUE)
     IN  reads' = Append(kept, NewRead("load", "public"))
  /\ page' = [page EXCEPT !.in = TRUE, !.view = "loading"]
  /\ UNCHANGED <<api, op, late>>

-----------------------------------------------------------------------------
\* The panel: a step opens, with nothing under way, and closes.
Can == page.detail.you /\ page.view = "ready"
CanConsent == Can /\ page.detail.state = "debate" /\ page.detail.mine = "none"

OpenStep ==
  /\ CanConsent /\ ~Working /\ page.step = "none"
  /\ \E s \in Kinds \ {"comment"} : page' = [page EXCEPT !.step = s]
  /\ UNCHANGED <<api, reads, op, late>>

CancelStep ==
  /\ page.step # "none" /\ ~Working
  /\ page' = [page EXCEPT !.step = "none"]
  /\ UNCHANGED <<api, reads, op, late>>

\* act: one write at a time; every read already out is stale from now on.
Act(kind) ==
  /\ ~Working
  /\ op' = [NoOp EXCEPT !.kind = kind, !.st = "out", !.before = page.detail.said]
  /\ page' = [page EXCEPT !.told = [kind |-> "none", word |-> "none"]]
  /\ reads' = Barred(reads)
  /\ UNCHANGED <<api, late>>

PressConsent == CanConsent /\ page.step = "consent" /\ Act("consent")
PressObject == CanConsent /\ page.step = "object" /\ Act("object")
PressComment == "comment" \in Kinds /\ Can /\ Act("comment")

\* What the API does with a request: a final answer once, a comment every time.
Deed(kind, step) == IF kind = "object" /\ step = 2 THEN "comment" ELSE kind
Takes(deed) == deed = "comment" \/ (api.state = "debate" /\ api.mine = "none")
Does(deed) ==
  [api EXCEPT !.v = @ + 1,
              !.mine = CASE deed = "consent" -> "consented" [] deed = "object" -> "objected" [] OTHER -> @,
              !.said = IF deed = "comment" THEN @ + 1 ELSE @]
RoomFor(deed) == api.v < MaxV /\ (deed = "comment" => api.said < 2)

Serve ==
  /\ op.st = "out"
  /\ LET deed == Deed(op.kind, op.step) IN
       \/ /\ Takes(deed) /\ RoomFor(deed)
          /\ api' = Does(deed)
          /\ \/ op' = [op EXCEPT !.st = "ok", !.got = [Detail(TRUE) EXCEPT !.v = api'.v, !.mine = api'.mine, !.said = api'.said]]
             \/ \E st \in {"null", "lost"} : op' = [op EXCEPT !.st = st]
       \/ /\ ~Takes(deed)
          /\ op' = [op EXCEPT !.st = "stale"]
          /\ UNCHANGED api
       \/ /\ op' = [op EXCEPT !.st = "no"]
          /\ UNCHANGED api
  /\ UNCHANGED <<page, reads, late>>

\* No answer in 30 s: the request never got there, or is still on its way.
GivesUp ==
  /\ op.st = "out"
  /\ \E l \in {late, Deed(op.kind, op.step)} : late' = l
  /\ op' = [op EXCEPT !.st = "lost"]
  /\ UNCHANGED <<api, page, reads>>

ServeLate ==
  /\ late # "none"
  /\ IF Takes(late) /\ RoomFor(late) THEN api' = Does(late) ELSE UNCHANGED api
  /\ late' = "none"
  /\ UNCHANGED <<page, reads, op>>

-----------------------------------------------------------------------------
\* An objection is answered: its reason is posted next, within the same write.
PostReason ==
  /\ op.kind = "object" /\ op.step = 1 /\ op.st \in {"ok", "null"}
  /\ op' = [op EXCEPT !.st = "out", !.step = 2]
  /\ UNCHANGED <<api, page, reads, late>>

\* writeEnded, and what is done with the answer.
Finishes == op.kind # "object" \/ op.step = 2 \/ op.st \in {"stale", "no", "lost"}
Answer == IF op.kind = "object" /\ op.step = 2 /\ op.got = NoDetail THEN "null"
          ELSE IF op.kind = "object" /\ op.step = 2 THEN "ok" ELSE op.st

\* An answer is shown at once, under the newest ticket there is.
WriteAnswered ==
  /\ Writing /\ op.st # "out" /\ Finishes /\ Answer = "ok"
  /\ page' = Told(Shown([page EXCEPT !.ack = op.got.v], op.got),
                  IF op.step = 2 /\ op.st \in {"no", "lost"} THEN "reason" ELSE "ok")
  /\ reads' = Barred(reads)
  /\ op' = NoOp
  /\ UNCHANGED <<api, late>>

WriteRefused ==
  /\ Writing /\ op.st # "out" /\ Finishes /\ Answer = "no"
  /\ page' = Told(page, "no")
  /\ reads' = Barred(reads)
  /\ op' = NoOp
  /\ UNCHANGED <<api, late>>

\* Otherwise the proposal is read again before anything is said.
WriteUnclear ==
  /\ Writing /\ op.st # "out" /\ Finishes /\ Answer \in {"null", "stale", "lost"}
  /\ reads' = Append(Barred(reads), NewRead("after", IF page.in THEN "you" ELSE "public"))
  /\ op' = [op EXCEPT !.st = CASE Answer = "null" -> "after-null" [] Answer = "lost" -> "after-lost" [] OTHER -> "after-stale"]
  /\ UNCHANGED <<api, page, late>>

-----------------------------------------------------------------------------
\* The proposal moves without this page: others, the deadline, this member's other tab.
Others ==
  /\ api.v < MaxV
  /\ \/ api' = [api EXCEPT !.v = @ + 1]
     \/ api.state = "debate" /\ api' = [api EXCEPT !.v = @ + 1, !.state = "voting"]
     \/ Takes("consent") /\ api' = Does("consent")
  /\ UNCHANGED <<page, reads, op, late>>

Init ==
  /\ api = [v |-> 1, state |-> "debate", mine |-> "none", said |-> 0]
  /\ \E in \in BOOLEAN :
       page = [in |-> in, view |-> "loading", detail |-> NoDetail,
               step |-> "none", told |-> [kind |-> "none", word |-> "none"], ack |-> 0]
  /\ reads = <<NewRead("load", "public")>>
  /\ op = NoOp
  /\ late = "none"

Lands(i) == YouLands(i) \/ YouMisses(i) \/ PublicLands(i) \/ PublicMisses(i)

Next ==
  \/ \E i \in 1..Len(reads) : ReadServed(i) \/ Lands(i)
  \/ Poll \/ HousePoll \/ DeadlineRead \/ TryAgain \/ RetryYou \/ SessionFound
  \/ OpenStep \/ CancelStep
  \/ PressConsent \/ PressObject \/ PressComment
  \/ Serve \/ GivesUp \/ ServeLate
  \/ PostReason \/ WriteAnswered \/ WriteRefused \/ WriteUnclear
  \/ Others

\* A visible tab polls, and the BFF can vouch for the member now and then; requests are answered or given up, and answers are dealt with.
Fairness ==
  /\ SF_vars(\E i \in 1..Len(reads) : ReadServed(i) /\ reads'[i].got.you = (reads[i].how = "you"))
  /\ SF_vars(\E i \in 1..Len(reads) : YouLands(i) \/ PublicLands(i))
  /\ WF_vars(\E i \in 1..Len(reads) : ReadServed(i) \/ Lands(i))
  /\ SF_vars(Poll) /\ WF_vars(GivesUp)
  /\ WF_vars(PostReason \/ WriteAnswered \/ WriteRefused \/ WriteUnclear)

Spec == Init /\ [][Next]_vars /\ Fairness

-----------------------------------------------------------------------------
\* The shapes of its state.
Choices == {"none", "consented", "objected"}
Writes == {"none", "consent", "object", "comment"}
Proposals == [v : 1..MaxV, state : {"debate", "voting"}, mine : Choices, said : 0..2]

TypeOK ==
  /\ api \in Proposals
  /\ page.view \in {"loading", "ready", "failed"}
  /\ page.ack \in 0..MaxV /\ page.detail.v \in 0..MaxV
  /\ Len(reads) <= MaxReads + 1
  /\ op.kind \in Writes
  /\ page.view = "ready" => page.detail # NoDetail

\* What the page says went through, did, whichever answer was lost and whatever else
\* happened to the proposal meanwhile.
ToldTrue ==
  page.told.word \in {"ok", "reason"} =>
    CASE page.told.kind = "consent" -> api.mine = "consented"
      [] page.told.kind = "object" -> api.mine = "objected"
      [] OTHER -> api.said > 0

\* No answer that left before a write was over puts the proposal back: whatever comes on
\* screen is at least as new as the last write the page was answered.
NeverBackStep ==
  page'.detail # page.detail /\ page'.detail # NoDetail => page'.detail.v >= page'.ack

NeverBack == [][NeverBackStep]_vars

\* However many answers are lost, a write is never busy for good, and an open page whose
\* member does not keep writing comes to show the proposal as it is.
CaughtUp == page.view = "ready" => page.detail.v = api.v
PageCatchesUp == []<>~Working /\ []<>(Writing \/ CaughtUp)

\* "the page reads the proposal again rather than saying that nothing changed": when it
\* says an objection's reason was not posted, it was not.
ReasonToldTrue == page.told.word = "reason" => api.said = 0
=============================================================================
