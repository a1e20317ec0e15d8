------------------------------- MODULE FloorList -------------------------------
(***************************************************************************)
(* The floor, as an open page lists it: every active proposal and the      *)
(* newest decided ones, read again every 30 s, on coming back and after a  *)
(* deadline, with answers in any order; "Show earlier" pages back through  *)
(* the decided ones; the floor switched off at a read; what a member is    *)
(* offered; an admin's test-timers switch.  And the countdowns on it,      *)
(* which run on the server's time as its answers' `Date` brackets it.      *)
(***************************************************************************)
EXTENDS Integers, Sequences, FiniteSets

CONSTANTS MaxId,      \* proposals ever
          DecidedPage, \* decided proposals on a page
          Second,     \* a second of the `Date` header, in ticks
          MaxTime, Offsets, Within

VARIABLES
  which,    \* the list to a visitor, to a member (who shows no earlier ones), or the clock
  api,      \* every proposal's state, whether the switch is on
  floor,    \* the first page, the earlier ones, whether older ones exist; the list's state; a failed update
  me,       \* who looks; what is known of their own proposal and of the switch, its read and its write
  reads,    \* reads of the first page, in the order they left
  older,    \* the read of an earlier page
  now,      \* the server's time
  off,      \* how far the visitor's clock is behind it; a clock may be set once
  clock,    \* the bracket known, or that none is
  ask,      \* a request under way: when it left, and the Date it was answered with
  card      \* the deadline shown, whether it was read for, whether the API has moved on

listVars == <<api, floor, me, reads, older>>
clockVars == <<now, off, clock, ask, card>>
vars == <<which, api, floor, me, reads, older, now, off, clock, ask, card>>

Ids == 1..MaxId
Nothing == [i \in Ids |-> "none"]
Of(cards, s) == {i \in Ids : cards[i] = s}

\* The one this member may bring meanwhile, from another tab.
Own == MaxId

-----------------------------------------------------------------------------
\* What the API lists: the active ones and the newest decided, or the decided below a cursor.
Newest(ids) == {i \in ids : Cardinality({j \in ids : j > i}) < DecidedPage}
Listed(ids) == [i \in Ids |-> IF i \in ids THEN api.state[i] ELSE "none"]
FirstPage ==
  LET decided == Of(api.state, "decided")
  IN  [cards |-> Listed(Of(api.state, "active") \cup Newest(decided)), more |-> Newest(decided) # decided]
EarlierPage(cursor) ==
  LET decided == {i \in Of(api.state, "decided") : i < cursor}
  IN  [cards |-> Listed(Newest(decided)), more |-> Newest(decided) # decided]

\* mergeCards: each proposal once, the fresher list's copy.
MergeCards(fresher, past) == [i \in Ids |-> IF fresher[i] # "none" THEN fresher[i] ELSE past[i]]
DecidedOf(cards) == [i \in Ids |-> IF cards[i] = "decided" THEN cards[i] ELSE "none"]

\* Mutant of FoldFirst: the page that was first is let go of.
FoldFirstOnly(f, page) == [f EXCEPT !.first = page]

\* foldFloor: a new first page; once earlier pages are open, the decided cards already shown stay.
FoldFirst(f, page) ==
  IF f.olderMore = "unopened" THEN [f EXCEPT !.first = page]
  ELSE [f EXCEPT !.first = page, !.older = MergeCards(DecidedOf(f.first.cards), f.older)]

FoldOlder(f, page) ==
  [f EXCEPT !.older = MergeCards(page.cards, f.older), !.olderMore = IF page.more THEN "more" ELSE "none"]

\* floorCards, floorHasMore, decidedCursor.
Cards(f) == MergeCards(f.first.cards, f.older)
HasMore == IF floor.olderMore = "unopened" THEN floor.first.more ELSE floor.olderMore = "more"
Cursor == LET ids == Of(Cards(floor), "decided") IN IF ids = {} THEN 0 ELSE CHOOSE i \in ids : \A j \in ids : i <= j

-----------------------------------------------------------------------------
\* readFloor: in any number, each with its ticket.
NewRead == [st |-> "out", page |-> [cards |-> Nothing, more |-> FALSE], shown |-> TRUE, crossed |-> FALSE]
Room == Len(reads) < 2
Leaves == reads' = Append(reads, NewRead)

PollOrDeadline ==
  /\ floor.list = "ready" /\ Room
  /\ which = "member" => reads = <<>>
  /\ Leaves
  /\ UNCHANGED <<api, floor, me, older>>

\* The effect of a new attempt: the page is read again, and the member with it.
Unseen == [known |-> "none", timers |-> FALSE]
Afresh ==
  IF me.who = "visitor" THEN me
  ELSE [me EXCEPT !.known = IF @ = "failed" THEN "unread" ELSE @, !.saw = Unseen, !.read = "out"]

TryAgain ==
  /\ floor.list = "failed" /\ Room
  /\ floor' = [floor EXCEPT !.list = "loading"]
  /\ Leaves
  /\ me' = Afresh
  /\ UNCHANGED <<api, older>>

\* The API may serve them in any order; one served after a later read crosses it.
Serve(i) ==
  /\ reads[i].st = "out"
  /\ reads' = [n \in 1..Len(reads) |->
       IF n = i THEN [reads[n] EXCEPT !.st = "ok", !.page = FirstPage]
       ELSE [reads[n] EXCEPT !.crossed = @ \/ (n > i /\ reads[n].st = "ok")]]
  /\ UNCHANGED <<api, floor, me, older>>

Without(i) == SubSeq(reads, 1, i - 1) \o SubSeq(reads, i + 1, Len(reads))
\* A read that left before one already shown is dropped.
Overtakes(i) == [n \in 1..Len(Without(i)) |-> IF n < i THEN [reads[n] EXCEPT !.shown = FALSE] ELSE Without(i)[n]]

Lands(i) ==
  /\ reads[i].st = "ok"
  /\ IF reads[i].shown
     THEN /\ floor' = [FoldFirst(floor, reads[i].page) EXCEPT !.list = "ready", !.stale = FALSE]
          /\ reads' = Overtakes(i)
     ELSE reads' = Without(i) /\ UNCHANGED floor
  /\ UNCHANGED <<api, me, older>>

\* Mutant of Unread: whatever failed, the page shows what it has.
UnreadShows(why) == IF why = "disabled" THEN "disabled" ELSE "ready"

\* What a read that failed leaves of the list: the first one says so.
Unread(why) == IF why = "disabled" THEN "disabled" ELSE IF floor.list = "ready" THEN "ready" ELSE "failed"

\* No answer, or the floor is switched off.
Misses(i) ==
  /\ reads[i].st = "out"
  /\ \E why \in {"no answer", "disabled"} : floor' = [floor EXCEPT !.list = Unread(why), !.stale = TRUE]
  /\ reads' = Without(i)
  /\ UNCHANGED <<api, me, older>>

-----------------------------------------------------------------------------
\* "Show earlier": one at a time, from the lowest decided card shown.
ShowEarlier ==
  /\ floor.list = "ready" /\ HasMore /\ older.st = "none" /\ Cursor # 0
  /\ older' = [st |-> "out", cursor |-> Cursor, page |-> [cards |-> Nothing, more |-> FALSE]]
  /\ UNCHANGED <<api, floor, me, reads>>

ServeEarlier ==
  /\ older.st = "out"
  /\ older' = [older EXCEPT !.st = "ok", !.page = EarlierPage(older.cursor)]
  /\ UNCHANGED <<api, floor, me, reads>>

EarlierLands ==
  /\ older.st = "ok"
  /\ floor' = FoldOlder(floor, older.page)
  /\ older' = [older EXCEPT !.st = "none"]
  /\ UNCHANGED <<api, me, reads>>

EarlierMisses ==
  /\ older.st = "out"
  /\ older' = [older EXCEPT !.st = "none"]
  /\ UNCHANGED <<api, floor, me, reads>>

-----------------------------------------------------------------------------
\* The member is read with the page, and with each attempt after it.
Mine == IF api.state[Own] = "active" THEN "mine" ELSE "none"

ServeMe ==
  /\ me.read = "out"
  /\ me' = [me EXCEPT !.read = "ok", !.saw = [known |-> Mine, timers |-> api.timers]]
  /\ UNCHANGED <<api, floor, reads, older>>

MeLands ==
  /\ me.read = "ok"
  /\ me' = [me EXCEPT !.read = "no", !.known = me.saw.known, !.timers = me.saw.timers, !.saw = Unseen]
  /\ UNCHANGED <<api, floor, reads, older>>

\* Mutant of Unknown: a read that fails forgets what the one before it said.
UnknownAgain(known) == "failed"

\* What a failed read leaves of what is known.
Unknown(known) == IF known = "unread" THEN "failed" ELSE known

MeMisses ==
  /\ me.read = "out"
  /\ me' = [me EXCEPT !.read = "no", !.known = Unknown(@)]
  /\ UNCHANGED <<api, floor, reads, older>>

-----------------------------------------------------------------------------
\* What the page shows, and what it offers whoever looks at it.
Shows ==
  CASE floor.list = "disabled" -> "switched off"
    [] floor.list = "loading" -> "loading"
    [] floor.list = "failed" -> "try again"
    [] floor.list = "ready" -> "list"

Offer ==
  CASE me.who = "visitor" -> "sign in"
    [] me.known = "unread" -> "nothing"
    [] me.known = "mine" -> "yours"
    [] OTHER -> "bring"

\* The proposals a section of the list names; where it names none it says that it is empty.
Section(s) == IF Shows = "list" THEN Of(Cards(floor), s) ELSE {}
SaysEmpty(s) == Shows = "list" /\ Section(s) = {}

-----------------------------------------------------------------------------
\* An admin's switch: what it was asked for, what the API has; the list is read again.
Toggle ==
  /\ me.switch = "idle" /\ Shows # "switched off" /\ me.known \in {"none", "mine"}
  /\ me' = [me EXCEPT !.switch = IF me.timers THEN "off" ELSE "on"]
  /\ UNCHANGED <<api, floor, reads, older>>

Switches(on) == on = (me.switch = "on")
ToggleAnswered ==
  /\ me.switch # "idle" /\ Room
  /\ \E on \in BOOLEAN :
       /\ Switches(on)
       /\ api' = [api EXCEPT !.timers = on]
       /\ me' = [me EXCEPT !.timers = on, !.switch = "idle"]
  /\ Leaves
  /\ UNCHANGED <<floor, older>>

\* Refused, or no answer: the page loads again, the switch with it.
ToggleFails ==
  /\ me.switch # "idle" /\ Room
  /\ \E on \in BOOLEAN : Switches(on) /\ api' \in {api, [api EXCEPT !.timers = on]}
  /\ floor' = [floor EXCEPT !.list = "loading"]
  /\ me' = [Afresh EXCEPT !.switch = "idle"]
  /\ Leaves
  /\ UNCHANGED older

-----------------------------------------------------------------------------
\* Proposals are brought and decided meanwhile.
Brought ==
  /\ \E i \in Ids : /\ api.state[i] = "none" /\ \A j \in Ids : j < i => api.state[j] # "none"
                    /\ api' = [api EXCEPT !.state[i] = "active"]
  /\ UNCHANGED <<floor, me, reads, older>>

Decided ==
  /\ \E i \in Ids : api.state[i] = "active" /\ api' = [api EXCEPT !.state[i] = "decided"]
  /\ UNCHANGED <<floor, me, reads, older>>

-----------------------------------------------------------------------------
Local == now - off.by
Biggest(a, b) == IF a > b THEN a ELSE b
Smallest(a, b) == IF a < b THEN a ELSE b

-----------------------------------------------------------------------------
\* One answer's bracket, and what is known after it.
Bracket(date, sent, received) == [known |-> TRUE, lo |-> date - received, hi |-> date + Second - sent]

\* Mutant of Noted: the newest bracket's upper end is taken for a whole number of seconds.
NotedShort(b) ==
  LET next == [b EXCEPT !.hi = b.hi - Second]
      lo == Biggest(clock.lo, next.lo)
      hi == Smallest(clock.hi, next.hi)
  IN  IF ~clock.known THEN next ELSE IF lo <= hi THEN [next EXCEPT !.lo = lo, !.hi = hi] ELSE next

Noted(b) ==
  LET lo == Biggest(clock.lo, b.lo)
      hi == Smallest(clock.hi, b.hi)
  IN  IF ~clock.known THEN b ELSE IF lo <= hi THEN [b EXCEPT !.lo = lo, !.hi = hi] ELSE b

\* offset: the point of the bracket closest to zero.
Offset == IF ~clock.known THEN 0 ELSE IF clock.lo > 0 THEN clock.lo ELSE IF clock.hi < 0 THEN clock.hi ELSE 0
ServerNow == Local + Offset

-----------------------------------------------------------------------------
Passes ==
  /\ now < MaxTime
  /\ now' = now + 1
  /\ UNCHANGED <<off, clock, ask, card>>

\* The visitor sets the clock while nothing is under way.
ClockSet ==
  /\ ~off.set /\ ask.st = "idle"
  /\ \E by \in Offsets : off' = [by |-> by, set |-> TRUE]
  /\ UNCHANGED <<now, clock, ask, card>>

Send ==
  /\ ask.st = "idle"
  /\ ask' = [st |-> "out", sent |-> Local, date |-> 0, card |-> card.api]
  /\ UNCHANGED <<now, off, clock, card>>

\* The API moves a proposal on at its deadline, on its next read.
Answer ==
  /\ ask.st = "out"
  /\ LET moved == card.api = "running" /\ card.deadline <= now IN
       /\ card' = [card EXCEPT !.api = IF moved THEN "moved" ELSE @]
       /\ ask' = [ask EXCEPT !.st = "ok", !.date = (now \div Second) * Second, !.card = IF moved THEN "moved" ELSE card.api]
  /\ UNCHANGED <<now, off, clock>>

Receive ==
  /\ ask.st = "ok"
  /\ clock' = Noted(Bracket(ask.date, ask.sent, Local))
  /\ card' = [card EXCEPT !.shown = ask.card]
  /\ ask' = [ask EXCEPT !.st = "idle"]
  /\ UNCHANGED <<now, off>>

Lost ==
  /\ ask.st # "idle"
  /\ ask' = [ask EXCEPT !.st = "idle"]
  /\ UNCHANGED <<now, off, clock, card>>

\* nextDeadlineRead: a deadline passed not long ago and not read for yet.
DeadlineRead ==
  /\ card.shown = "running" /\ ~card.read /\ ask.st = "idle"
  /\ card.deadline <= ServerNow /\ ServerNow - card.deadline <= Within
  /\ card' = [card EXCEPT !.read = TRUE]
  /\ ask' = [st |-> "out", sent |-> Local, date |-> 0, card |-> card.api]
  /\ UNCHANGED <<now, off, clock>>

ListInit ==
  /\ \E s \in {"active", "decided"} :
       api = [state |-> [Nothing EXCEPT ![1] = s], timers |-> FALSE]
  /\ floor = [first |-> [cards |-> Nothing, more |-> FALSE], older |-> Nothing, olderMore |-> "unopened",
              list |-> "loading", stale |-> FALSE]
  /\ me = [who |-> IF which = "member" THEN "member" ELSE "visitor", known |-> "unread", timers |-> FALSE,
           read |-> IF which = "member" THEN "out" ELSE "no", saw |-> Unseen, switch |-> "idle"]
  /\ reads = <<NewRead>>
  /\ older = [st |-> "none", cursor |-> 0, page |-> [cards |-> Nothing, more |-> FALSE]]

ClockInit ==
  /\ now = 0
  /\ \E by \in Offsets : off = [by |-> by, set |-> FALSE]
  /\ clock = [known |-> FALSE, lo |-> 0, hi |-> 0]
  /\ ask = [st |-> "idle", sent |-> 0, date |-> 0, card |-> "running"]
  /\ \E d \in 1..MaxTime : card = [deadline |-> d, read |-> FALSE, api |-> "running", shown |-> "running"]

\* Where the other stays all along.
Rests ==
  /\ now = 0 /\ off = [by |-> 0, set |-> FALSE] /\ clock = [known |-> FALSE, lo |-> 0, hi |-> 0]
  /\ ask = [st |-> "idle", sent |-> 0, date |-> 0, card |-> "running"]
  /\ card = [deadline |-> 1, read |-> FALSE, api |-> "running", shown |-> "running"]

Init ==
  \/ which = "list" /\ ListInit /\ Rests
  \/ which = "member" /\ ListInit /\ api.state[1] = "decided" /\ Rests
  \/ which = "clock" /\ ListInit /\ api.state[1] = "active" /\ ClockInit

ListSteps ==
  \/ PollOrDeadline \/ TryAgain
  \/ \E i \in 1..Len(reads) : Serve(i) \/ Lands(i) \/ Misses(i)
  \/ Brought \/ Decided

EarlierSteps == ShowEarlier \/ ServeEarlier \/ EarlierLands \/ EarlierMisses
MemberSteps == ServeMe \/ MeLands \/ MeMisses \/ Toggle \/ ToggleAnswered \/ ToggleFails

ClockSteps == Passes \/ ClockSet \/ Send \/ Answer \/ Receive \/ Lost \/ DeadlineRead

Next ==
  \/ which = "list" /\ (ListSteps \/ EarlierSteps) /\ UNCHANGED <<which, clockVars>>
  \/ which = "member" /\ (ListSteps \/ MemberSteps) /\ UNCHANGED <<which, clockVars>>
  \/ which = "clock" /\ ClockSteps /\ UNCHANGED <<which, listVars>>

Spec == Init /\ [][Next]_vars

-----------------------------------------------------------------------------
States == {"none", "active", "decided"}
\* The shapes of its state.
Floors == [state : [Ids -> States], timers : BOOLEAN]
Loaded == [first : [cards : [Ids -> States], more : BOOLEAN], older : [Ids -> States],
           olderMore : {"unopened", "more", "none"},
           list : {"loading", "ready", "failed", "disabled"}, stale : BOOLEAN]
Brackets == [known : BOOLEAN, lo : Int, hi : Int]

TypeOK ==
  /\ api \in Floors /\ floor \in Loaded
  /\ me.switch \in {"idle", "on", "off"} /\ me.known \in {"unread", "failed", "none", "mine"} /\ me.read \in {"no", "out", "ok"}
  /\ Len(reads) <= 2 /\ older.st \in {"none", "out", "ok"}
  /\ now \in 0..MaxTime /\ off.by \in Offsets /\ clock \in Brackets
  /\ ask.st \in {"idle", "out", "ok"} /\ card.shown \in {"running", "moved"}
  /\ card.shown = "moved" => card.api = "moved"

\* Once earlier pages are open, every decided card already shown stays listed, however far the
\* first page moves on and whatever order the answers come in.
DecidedStayStep ==
  floor.olderMore # "unopened" =>
    \A i \in Of(Cards(floor), "decided") : Cards(floor')[i] # "none"

DecidedStay == [][DecidedStayStep]_vars

\* No answer that comes late takes the floor back: a proposal listed as decided is not listed as
\* active after it, unless the API served two reads in the other order than they left.
NeverBackStep ==
  (\E i \in Ids : Cards(floor)[i] = "decided" /\ Cards(floor')[i] = "active") => \E n \in 1..Len(reads) : reads[n].crossed

\* A member told that theirs is on the floor is not offered to bring another until it is decided,
\* whatever fails or is read in between.
OfferStep == Offer = "yours" /\ Offer' = "bring" => api.state[Own] = "decided"

\* What an open floor keeps.
KeepsStep == DecidedStayStep /\ NeverBackStep /\ OfferStep

\* A floor that has proposals is never shown as one that has none: not before its first page has
\* come, not when a read fails, nor while the switch is turned and the page loads again.
SectionsTrue == which # "clock" => ~(SaysEmpty("active") /\ SaysEmpty("decided"))

\* "Show earlier decided proposals pages back through the rest": when nothing more is offered
\* and the first page is the API's, the page lists every proposal.
NothingHidden ==
  floor.list = "ready" /\ ~HasMore /\ floor.first = FirstPage => \A i \in Ids : api.state[i] # "none" => Cards(floor)[i] # "none"

\* While the visitor leaves the clock alone, the bracket always holds the true offset, however
\* the answers are delayed: a deadline is never said to be over more than the bracket's width
\* early or late, and a clock that agrees with the server is left alone.
ClockTrue ==
  ~off.set /\ clock.known =>
    /\ clock.lo <= off.by /\ off.by <= clock.hi
    /\ off.by = 0 => Offset = 0
    /\ (off.by > 0 => Offset <= off.by) /\ (off.by < 0 => Offset >= off.by)

=============================================================================
