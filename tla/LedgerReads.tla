------------------------------ MODULE LedgerReads -----------------------------
(***************************************************************************)
(* What a tab reads of the ledger.  The reads of a screen: analytics,      *)
(* market and signals share a slot, so that the rest wait their turn, and  *)
(* one whose screen is left gives its place back; what a failed read means *)
(* is told to its own region.  The walks over a paginated list while the   *)
(* ledger goes on ingesting newer rows, and older ones a backfill brings:  *)
(* a keyset walk follows cursors, an offset walk counts the rows it got,   *)
(* and any page may fail, where the walk stops.                            *)
(***************************************************************************)
EXTENDS Naturals, Sequences, SequencesExt, FiniteSetsExt

CONSTANTS Regions,     \* what reads on the screen
          Heavy,       \* those of them that read analytics, the market or signals
          Slots,       \* heavy reads in flight at most
          Answers,     \* what is answered here, of what may be
          MaxReads,    \* bound: reads of one session
          MaxKey,      \* bound: the rows there can be, newest the greatest
          Limit,       \* rows asked for in a page; the ledger may give fewer
          MaxPages     \* pages after which a caller stops

VARIABLES
  which,     \* "screen" or "walk"
  reads,     \* the reads so far, in the order they were asked for: by whom, where, and what came
  waiting,   \* heavy reads waiting, in order
  running,   \* the slot's count
  current,   \* per region: its read, 0 when it is not on the screen
  view,      \* per region: "loading", "data", or what a failure was told as
  rows,      \* the list, as the ledger has it
  walk       \* the iterator: what it began with, where it is, what it yielded

vars == <<which, reads, waiting, running, current, view, rows, walk>>

\* What the gateway answers a read with before anything goes up, or when nothing comes down.
GatewayAnswers == {"route-blocked", "not-configured", "unauthenticated", "slow", "down"}

\* The ledger's own answers: the data, a refusal, or something this page does not understand.
LedgerAnswers == {"data", "not-found", "invalid-input", "busy", "contract"}

\* What a region may be told: describeError's kinds, and "other" for anything else.
Kinds == GatewayAnswers \cup LedgerAnswers \cup {"offline", "other"}

InFlight == {i \in DOMAIN reads : reads[i].where \in {"sent", "leaving"}}
Taken == {i \in InFlight : reads[i].by \in Heavy}

\* A read that left says so, which no kind is about.
Told(what) == IF what = "aborted" THEN "other" ELSE what

\* A place is free: the next that waits starts. Nothing that left still waits.
Next1(rs, queue, n) ==
  IF n < Slots /\ queue # <<>>
  THEN [reads |-> [rs EXCEPT ![Head(queue)].where = "sent"], waiting |-> Tail(queue), running |-> n + 1]
  ELSE [reads |-> rs, waiting |-> queue, running |-> n]

\* HeavySlot: what is over gives its place back and the next starts, however it ended.
FreedWhenAnswered(i, what) ==
  LET rs == [reads EXCEPT ![i].where = "over", ![i].what = what]
  IN IF reads[i].by \in Heavy /\ what # "aborted"
     THEN Next1(rs, waiting, running - 1)
     ELSE [reads |-> rs, waiting |-> waiting, running |-> running]

Freed(i, what) ==
  LET rs == [reads EXCEPT ![i].where = "over", ![i].what = what]
  IN IF reads[i].by \in Heavy
     THEN Next1(rs, waiting, running - 1)
     ELSE [reads |-> rs, waiting |-> waiting, running |-> running]

\* The read's signal: one that waits leaves the queue at once, one in flight is cut.
Left(i) ==
  IF i = 0 \/ reads[i].where = "over" THEN [reads |-> reads, waiting |-> waiting, running |-> running]
  ELSE IF reads[i].where = "waiting"
  THEN [reads |-> [reads EXCEPT ![i].where = "over", ![i].what = "aborted"],
        waiting |-> RemoveFirst(waiting, i), running |-> running]
  ELSE [reads |-> [reads EXCEPT ![i].where = "leaving"], waiting |-> waiting, running |-> running]

\* run: right away when there is a place, else at the end of the queue.
Runs(s, r) ==
  LET i == Len(s.reads) + 1
      now == r \notin Heavy \/ s.running < Slots
  IN [reads   |-> Append(s.reads, [by |-> r, where |-> IF now THEN "sent" ELSE "waiting", what |-> "nothing"]),
      waiting |-> IF now THEN s.waiting ELSE Append(s.waiting, i),
      running |-> IF r \in Heavy /\ now THEN s.running + 1 ELSE s.running]

Becomes(s) == reads' = s.reads /\ waiting' = s.waiting /\ running' = s.running

-----------------------------------------------------------------------------
\* A region comes up, its key changes, or Retry: what it was reading is left and the new read runs.
Ask(r) ==
  /\ Len(reads) < MaxReads
  /\ Becomes(Runs(Left(current[r]), r))
  /\ current' = [current EXCEPT ![r] = Len(reads) + 1]
  /\ view' = [view EXCEPT ![r] = "loading"]

Leave(r) ==
  /\ current[r] # 0
  /\ Becomes(Left(current[r]))
  /\ current' = [current EXCEPT ![r] = 0]
  /\ view' = [view EXCEPT ![r] = "loading"]

\* An outcome is the region's when it is of the read it is waiting for.
Ends(i, what) ==
  /\ Becomes(Freed(i, what))
  /\ view' = IF current[reads[i].by] = i THEN [view EXCEPT ![reads[i].by] = Told(what)] ELSE view
  /\ UNCHANGED current

Answered(i) ==
  /\ reads[i].where = "sent"
  /\ \E what \in Answers \cap Kinds : Ends(i, what)

Unreachable(i) == reads[i].where = "sent" /\ Ends(i, "offline")

\* The client's own thirty seconds, counted from when the read is sent.
TimesOut(i) == reads[i].where = "sent" /\ Ends(i, "slow")

\* The fetch that was cut throws.
Cut(i) == reads[i].where = "leaving" /\ Ends(i, "aborted")

-----------------------------------------------------------------------------
Keys == 1..MaxKey
NoPage == [data |-> {}, more |-> FALSE]

\* The greatest n of S.
Newest(S, n) == {k \in S : Cardinality({j \in S : j > k}) < n}

-----------------------------------------------------------------------------
\* get: the page's query; the answer is checked whole or refused whole.
AskPage ==
  /\ walk.st = "next"
  /\ walk' = [walk EXCEPT !.st = "out"]
  /\ UNCHANGED rows

Rest == IF walk.by = "cursor" THEN {k \in rows : k < walk.cursor}
        ELSE rows \ Newest(rows, walk.offset)

ServePage ==
  /\ walk.st = "out"
  /\ \E given \in 1..Limit :
        walk' = [walk EXCEPT !.st = "page", !.page = [data |-> Newest(Rest, given), more |-> Cardinality(Rest) > given]]
  /\ UNCHANGED rows

\* A timeout, an abort, no network, a status or a body that is not the contract's.
PageFails ==
  /\ walk.st = "out"
  /\ walk' = [walk EXCEPT !.st = "failed"]
  /\ UNCHANGED rows

\* The next page: after the last row of this one, or past the rows got so far.
OffsetByLimit == walk.offset + Limit
NextOffset == walk.offset + Cardinality(walk.page.data)

Yield ==
  /\ walk.st = "page"
  /\ LET data == walk.page.data
         last == ~walk.page.more \/ data = {}
     IN  walk' = [walk EXCEPT
            !.got = [k \in Keys |-> @[k] + IF k \in data THEN 1 ELSE 0],
            !.n = @ + 1,
            !.cursor = IF data = {} THEN @ ELSE Min(data),
            !.offset = NextOffset,
            !.page = NoPage,
            !.st = IF last THEN "done" ELSE IF walk.n + 1 = MaxPages THEN "capped" ELSE "next"]
  /\ UNCHANGED rows

\* The ledger ingests: a newer row, or one a backfill brings.
Ingest ==
  /\ walk.st \notin {"done", "failed", "capped"}
  /\ \E k \in Keys \ rows : rows' = rows \cup {k}
  /\ UNCHANGED walk

-----------------------------------------------------------------------------
Init ==
  /\ which \in {"screen", "walk"}
  /\ reads = <<>> /\ waiting = <<>> /\ running = 0
  /\ current = [r \in Regions |-> 0] /\ view = [r \in Regions |-> "loading"]
  /\ rows \in (IF which = "walk" THEN SUBSET Keys ELSE {{}})
  /\ \E by \in (IF which = "walk" THEN {"cursor", "offset"} ELSE {"cursor"}) :
        walk = [by |-> by, st |-> "next", began |-> rows, cursor |-> MaxKey + 1, offset |-> 0,
                page |-> NoPage, got |-> [k \in Keys |-> 0], n |-> 0]

ScreenSteps ==
  \/ \E r \in Regions : Ask(r) \/ Leave(r)
  \/ \E i \in DOMAIN reads : Answered(i) \/ Unreachable(i) \/ TimesOut(i) \/ Cut(i)
WalkSteps == AskPage \/ ServePage \/ PageFails \/ Yield \/ Ingest

Next ==
  \/ which = "screen" /\ ScreenSteps /\ UNCHANGED <<which, rows, walk>>
  \/ which = "walk" /\ WalkSteps /\ UNCHANGED <<which, reads, waiting, running, current, view>>

\* A fetch has its own time limit, and one that is cut throws.
ReadOver == which = "screen" /\ (\E i \in DOMAIN reads : TimesOut(i) \/ Cut(i)) /\ UNCHANGED <<which, rows, walk>>

Fairness == WF_vars(ReadOver)

Spec == Init /\ [][Next]_vars /\ Fairness

-----------------------------------------------------------------------------
\* The shapes of its state.
Views == Kinds \cup {"loading"}

\* Every variable has its type.
TypeOK ==
  /\ reads \in Seq([by : Regions, where : {"waiting", "sent", "leaving", "over"},
                    what : Kinds \cup {"nothing", "aborted"}])
  /\ waiting \in Seq(DOMAIN reads) /\ running \in 0 .. Slots
  /\ current \in [Regions -> 0 .. Len(reads)] /\ view \in [Regions -> Views]
  /\ rows \subseteq Keys
  /\ walk.st \in {"next", "out", "page", "done", "failed", "capped"} /\ walk.by \in {"cursor", "offset"}
  /\ walk.cursor \in 1..MaxKey + 1 /\ walk.offset \in 0..MaxPages * Limit /\ walk.n \in 0..MaxPages
  /\ walk.began \subseteq Keys /\ walk.page.data \subseteq Keys /\ walk.got \in [Keys -> 0..MaxPages]

\* The slot's count is what is really in flight, never more than it may hold; a place is never
\* free while a read waits; those that wait are of regions still on the screen, in their order.
TurnsTaken ==
  /\ running = Cardinality(Taken) /\ running <= Slots
  /\ waiting # <<>> => running = Slots
  /\ \A n \in DOMAIN waiting : current[reads[waiting[n]].by] = waiting[n]
  /\ \A n \in DOMAIN waiting : n > 1 => waiting[n - 1] < waiting[n]

\* A region is told the outcome of the read it is waiting for, and of no other: a read that was
\* left is never told, and what another key answered never stands for this one.
ToldItsOwn ==
  \A r \in Regions :
    view[r] # "loading" =>
      /\ current[r] # 0 /\ reads[current[r]].where = "over"
      /\ reads[current[r]].what = view[r]

\* No read waits, loads or is cut for ever: its turn comes, whatever those before it do.
AllOver == \A i \in DOMAIN reads : reads[i].where = "over"

ReadsEnd == <>[]AllOver

\* A walk that came to its end yielded every row it began with, whatever was ingested meanwhile;
\* by cursor none of them, nor any other, twice.
NothingMissed ==
  /\ walk.st = "done" => \A k \in walk.began : walk.got[k] > 0
  /\ walk.by = "cursor" => \A k \in Keys : walk.got[k] <= 1

=============================================================================
