--------------------------- MODULE HouseDeskProofs ---------------------------
(***************************************************************************)
(* What holds of HouseDesk for all proposals, start times, delays, days    *)
(* and limits: TypeOK, CapsKept, DraftStands, RunsCounted, and that it     *)
(* implements HouseJobs.                                                   *)
(*                                                                         *)
(* GoodDesk is the invariant that carries them: a queued job that has not  *)
(* been logged still has room under the draft limit, a running one has     *)
(* been logged, nothing has happened to a proposal before it passes, and   *)
(* the thread works for one that has, which it only calls moved on when it *)
(* is.  Each action has a lemma for what it does to the jobs (Kept), to    *)
(* the thread (WorkerTidy) and to the log (CountsTidy).                    *)
(***************************************************************************)
EXTENDS HouseDesk, FiniteSetTheorems, TLAPS, TLC

(* What a job rests on: a run is logged before it starts, one still to be  *)
(* logged has room for it, and there is none before its proposal passes.   *)
JobTidy(p) ==
    /\ Running(p) => jobs[p].logged
    /\ Queued(p) /\ ~jobs[p].logged => Cardinality(RunsOf(p)) < DraftLimit
    /\ floor[p] = "open" =>
           jobs[p].status = "none" /\ draft[p] = "none" /\ RunsOf(p) = {}

Working == {"claimed", "asking", "calling", "off", "moved_on", "broken",
            "failing", "drafted", "storing"}

WorkerTidy ==
    /\ worker.step \in Working => worker.p \in Ids /\ floor[worker.p] # "open"
    /\ worker.step = "moved_on" => floor[worker.p] = "building"
    /\ stop.state = "giving" => stop.p \in Ids

NewRuns(p) == {run \in RunsOf(p) : run.age = 0}
Numbers(rows) == {run.no : run \in rows}

CountsTidy ==
    /\ IsFiniteSet(runs)
    /\ CapsKept
    /\ \A p \in Ids : Numbers(NewRuns(p)) = 0 .. Cardinality(NewRuns(p)) - 1

GoodDesk ==
    /\ TypeOK
    /\ \A p \in Ids : JobTidy(p)
    /\ WorkerTidy
    /\ CountsTidy

-----------------------------------------------------------------------------
(* Finite sets. *)

LEMMA ImageSmaller ==
    ASSUME NEW S, IsFiniteSet(S), NEW f, NEW T, T \subseteq {f[x] : x \in S}
    PROVE  IsFiniteSet(T) /\ Cardinality(T) <= Cardinality(S)
<1> DEFINE g == [x \in S |-> f[x]]
<1> DEFINE R == {f[x] : x \in S}
<1>1. g \in Surjection(S, R)
  BY DEF Surjection
<1> HIDE DEF g
<1>2. IsFiniteSet(R) /\ Cardinality(R) <= Cardinality(S)
  BY <1>1, FS_Surjection
<1>3. IsFiniteSet(T) /\ Cardinality(T) <= Cardinality(R)
  BY <1>2, FS_Subset
<1> HIDE DEF R
<1>4. Cardinality(T) \in Nat /\ Cardinality(R) \in Nat /\ Cardinality(S) \in Nat
  BY <1>2, <1>3, FS_CardinalityType
<1>5. QED
  BY <1>2, <1>3, <1>4

LEMMA OneMore ==
    ASSUME NEW S, IsFiniteSet(S), NEW x
    PROVE  /\ Cardinality(S) \in Nat /\ Cardinality(S \cup {x}) \in Nat
           /\ Cardinality(S \cup {x}) <= Cardinality(S) + 1
<1>1. Cardinality(S) \in Nat /\ IsFiniteSet(S \cup {x})
  BY FS_AddElement, FS_CardinalityType
<1>2. Cardinality(S \cup {x}) = IF x \in S THEN Cardinality(S) ELSE Cardinality(S) + 1
  BY FS_AddElement
<1>3. QED
  BY <1>1, <1>2

(* There is always a start time that nobody has.                           *)
LEMMA FreshStamp ==
    ASSUME TypeOK
    PROVE  /\ Fresh \in Stamps
           /\ Fresh # worker.stamp
           /\ \A p \in Ids : jobs[p].stamp # Fresh
<1> DEFINE S == Ids \cup {NoId}
<1> DEFINE f == [x \in S |-> IF x = NoId THEN worker.stamp ELSE jobs[x].stamp]
<1> DEFINE used == {f[x] : x \in S}
<1>1. IsFiniteSet(S) /\ Cardinality(S) = Cardinality(Ids) + 1
  BY FS_AddElement, DeskAssumption
<1>2. Cardinality(used) <= Cardinality(S) /\ IsFiniteSet(used)
  BY <1>1, ImageSmaller
<1>3. worker.stamp \in used /\ \A p \in Ids : jobs[p].stamp \in used
  BY DeskAssumption
<1> HIDE DEF used, f, S
<1>4. ~(Stamps \subseteq used)
  <2>1. SUFFICES ASSUME Stamps \subseteq used PROVE FALSE
    OBVIOUS
  <2>2. Cardinality(Stamps) <= Cardinality(used)
    BY <1>2, <2>1, FS_Subset
  <2>3. /\ Cardinality(used) \in Nat /\ Cardinality(Stamps) \in Nat
        /\ Cardinality(Ids) \in Nat
    BY <1>2, FS_CardinalityType, DeskAssumption
  <2>4. QED
    BY <2>2, <2>3, <1>1, <1>2, DeskAssumption
<1>5. \E stamp \in Stamps :
          stamp # worker.stamp /\ \A p \in Ids : jobs[p].stamp # stamp
  BY <1>3, <1>4
<1>6. QED
  BY <1>5 DEF Fresh

-----------------------------------------------------------------------------
(* The log. *)

(* Its parts are finite and counted. *)
LEMMA RunsFinite ==
    ASSUME IsFiniteSet(runs)
    PROVE  /\ RunsToday \in Nat
           /\ \A p : /\ IsFiniteSet(RunsOf(p)) /\ Cardinality(RunsOf(p)) \in Nat
                     /\ IsFiniteSet(NewRuns(p)) /\ Cardinality(NewRuns(p)) \in Nat
<1> DEFINE today == {run \in runs : run.age <= hour}
<1>1. IsFiniteSet(today)
  BY FS_Subset
<1>2. RunsToday \in Nat
  BY <1>1, FS_CardinalityType DEF RunsToday
<1>3. ASSUME NEW p
      PROVE  /\ IsFiniteSet(RunsOf(p)) /\ Cardinality(RunsOf(p)) \in Nat
             /\ IsFiniteSet(NewRuns(p)) /\ Cardinality(NewRuns(p)) \in Nat
  <2>1. RunsOf(p) \subseteq runs /\ NewRuns(p) \subseteq runs
    BY DEF RunsOf, NewRuns
  <2>2. IsFiniteSet(RunsOf(p)) /\ IsFiniteSet(NewRuns(p))
    BY <2>1, FS_Subset
  <2>3. QED
    BY <2>2, FS_CardinalityType
<1>4. QED
  BY <1>2, <1>3

(* The row of a claim is a new one. *)
LEMMA InsertedNew ==
    ASSUME IsFiniteSet(runs), NEW p \in Ids,
           Numbers(NewRuns(p)) = 0 .. Cardinality(NewRuns(p)) - 1
    PROVE  /\ Inserted(p) \in LoggedRun /\ Inserted(p) \notin runs
           /\ Inserted(p).p = p /\ Inserted(p).age = 0
           /\ Inserted(p).no = Cardinality(NewRuns(p))
<1> DEFINE c == Cardinality(NewRuns(p))
<1>1. c \in Nat
  BY RunsFinite
<1>2. Inserted(p) = [p |-> p, age |-> 0, no |-> c]
  BY DEF Inserted, NewRuns
<1> HIDE DEF c
<1>3. ASSUME Inserted(p) \in runs PROVE FALSE
  <2>1. Inserted(p) \in NewRuns(p)
    BY <1>2, <1>3 DEF NewRuns, RunsOf
  <2>2. c \in Numbers(NewRuns(p))
    BY <2>1, <1>2 DEF Numbers
  <2>3. QED
    BY <2>2, <1>1 DEF c
<1>4. Inserted(p) \in LoggedRun
  BY <1>1, <1>2 DEF LoggedRun
<1>5. QED
  BY <1>2, <1>3, <1>4 DEF c

(* A claim's row counts once, for its proposal and for today. *)
LEMMA InsertCounts ==
    ASSUME TypeOK, CountsTidy, NEW p \in Ids,
           runs' = runs \cup {Inserted(p)}, hour' = hour,
           Cardinality(RunsOf(p)) < DraftLimit, RunsToday < DailyLimit
    PROVE  /\ CountsTidy'
           /\ runs' \subseteq LoggedRun
           /\ Cardinality(runs') = Cardinality(runs) + 1
           /\ \A q \in Ids : q # p => RunsOf(q)' = RunsOf(q)
<1> DEFINE row == Inserted(p)
<1>1. /\ row \in LoggedRun /\ row \notin runs /\ row.p = p /\ row.age = 0
      /\ row.no = Cardinality(NewRuns(p))
  BY InsertedNew DEF CountsTidy
<1>2. IsFiniteSet(runs)
  BY DEF CountsTidy
<1>3. hour \in Nat /\ DraftLimit \in Nat /\ DailyLimit \in Nat
  BY DeskAssumption DEF TypeOK
<1>4. runs' = runs \cup {row}
  OBVIOUS
<1> HIDE DEF row
<1>5. IsFiniteSet(runs') /\ Cardinality(runs') = Cardinality(runs) + 1
  BY <1>1, <1>2, <1>4, FS_AddElement
<1>6. \A q : q # p => RunsOf(q)' = RunsOf(q) /\ NewRuns(q)' = NewRuns(q)
  BY <1>1, <1>4 DEF RunsOf, NewRuns
<1>7. RunsOf(p)' = RunsOf(p) \cup {row} /\ NewRuns(p)' = NewRuns(p) \cup {row}
  BY <1>1, <1>4 DEF RunsOf, NewRuns
<1>8. Cardinality(RunsOf(p)') <= DraftLimit
  <2>1. IsFiniteSet(RunsOf(p)) /\ Cardinality(RunsOf(p)) \in Nat
    BY <1>2, RunsFinite
  <2>2. /\ Cardinality(RunsOf(p) \cup {row}) <= Cardinality(RunsOf(p)) + 1
        /\ Cardinality(RunsOf(p) \cup {row}) \in Nat
    BY <2>1, OneMore
  <2>3. QED
    BY <2>1, <2>2, <1>3, <1>7
<1>9. RunsToday' <= DailyLimit
  <2> DEFINE today == {run \in runs : run.age <= hour}
  <2>1. {run \in runs' : run.age <= hour'} = today \cup {row}
    BY <1>1, <1>3, <1>4
  <2>2. IsFiniteSet(today)
    BY <1>2, FS_Subset
  <2>3. RunsToday = Cardinality(today) /\ RunsToday' = Cardinality(today \cup {row})
    BY <2>1 DEF RunsToday
  <2> HIDE DEF today
  <2>4. /\ Cardinality(today \cup {row}) <= Cardinality(today) + 1
        /\ Cardinality(today) \in Nat /\ Cardinality(today \cup {row}) \in Nat
    BY <2>2, OneMore
  <2>5. QED
    BY <2>3, <2>4, <1>3
<1>10. Numbers(NewRuns(p)') = 0 .. Cardinality(NewRuns(p)') - 1
  <2> DEFINE c == Cardinality(NewRuns(p))
  <2>1. IsFiniteSet(NewRuns(p)) /\ c \in Nat
    BY <1>2, RunsFinite
  <2>2. row \notin NewRuns(p)
    BY <1>1 DEF NewRuns, RunsOf
  <2>3. Cardinality(NewRuns(p) \cup {row}) = c + 1
    BY <2>1, <2>2, FS_AddElement
  <2>4. Numbers(NewRuns(p) \cup {row}) = Numbers(NewRuns(p)) \cup {c}
    BY <1>1 DEF Numbers
  <2>5. Numbers(NewRuns(p)) = 0 .. c - 1
    BY DEF CountsTidy
  <2> HIDE DEF c
  <2>6. Numbers(NewRuns(p) \cup {row}) = 0 .. (c + 1) - 1
    <3>1. (0 .. c - 1) \cup {c} = 0 .. c /\ (c + 1) - 1 = c
      BY <2>1
    <3>2. QED
      BY <2>4, <2>5, <3>1
  <2>7. QED
    BY <1>7, <2>3, <2>6
<1>11. CapsKept'
  <2>1. \A q \in Ids : Cardinality(RunsOf(q)') <= DraftLimit
    BY <1>6, <1>8 DEF CountsTidy, CapsKept
  <2>2. QED
    BY <2>1, <1>9 DEF CapsKept
<1>12. \A q \in Ids : Numbers(NewRuns(q)') = 0 .. Cardinality(NewRuns(q)') - 1
  BY <1>6, <1>10 DEF CountsTidy
<1>13. runs' \subseteq LoggedRun
  BY <1>1, <1>4 DEF TypeOK
<1>14. CountsTidy'
  BY <1>5, <1>11, <1>12 DEF CountsTidy
<1>15. QED
  BY <1>5, <1>6, <1>13, <1>14

(* A slot older, no proposal has more runs, and today no more than before. *)
LEMMA AgedCounts ==
    ASSUME TypeOK, CountsTidy,
           hour' = (hour + 1) % Day,
           runs' = {[run EXCEPT !.age = @ + 1] : run \in {run \in runs : run.age + 1 < Day}}
    PROVE  /\ CountsTidy'
           /\ runs' \subseteq LoggedRun
           /\ \A p \in Ids : Cardinality(RunsOf(p)') <= Cardinality(RunsOf(p))
           /\ \A p \in Ids : RunsOf(p) = {} => RunsOf(p)' = {}
<1> DEFINE f == [run \in runs |-> [run EXCEPT !.age = @ + 1]]
<1>1. /\ IsFiniteSet(runs) /\ runs \subseteq LoggedRun
      /\ hour \in 0 .. Day - 1 /\ Day \in Nat \ {0} /\ DailyLimit \in Nat /\ DraftLimit \in Nat
  BY DeskAssumption DEF CountsTidy, TypeOK
<1>2. \A run \in runs : /\ f[run] \in LoggedRun
                        /\ f[run].p = run.p /\ f[run].age = run.age + 1
                        /\ run.age \in Nat
  BY <1>1 DEF LoggedRun
<1>3. \A new \in runs' : \E run \in runs : new = f[run] /\ run.age + 1 < Day
  OBVIOUS
<1> HIDE DEF f
<1>4. runs' \subseteq LoggedRun
  BY <1>2, <1>3
<1>5. IsFiniteSet(runs')
  <2>1. runs' \subseteq {f[run] : run \in runs}
    BY <1>3
  <2>2. QED
    BY <2>1, <1>1, ImageSmaller
<1>6. ASSUME NEW p
      PROVE  /\ Cardinality(RunsOf(p)') <= Cardinality(RunsOf(p))
             /\ RunsOf(p) = {} => RunsOf(p)' = {}
             /\ NewRuns(p)' = {}
  <2>1. RunsOf(p)' \subseteq {f[run] : run \in RunsOf(p)}
    BY <1>2, <1>3 DEF RunsOf
  <2>2. IsFiniteSet(RunsOf(p))
    BY <1>1, RunsFinite
  <2>3. Cardinality(RunsOf(p)') <= Cardinality(RunsOf(p))
    BY <2>1, <2>2, ImageSmaller
  <2>4. NewRuns(p)' = {}
    BY <1>2, <1>3 DEF NewRuns, RunsOf
  <2>5. QED
    BY <2>1, <2>3, <2>4
<1>7. RunsToday' <= RunsToday
  <2> DEFINE today == {run \in runs : run.age <= hour}
  <2> DEFINE next == {run \in runs' : run.age <= hour'}
  <2>1. IsFiniteSet(today)
    BY <1>1, FS_Subset
  <2>2. RunsToday = Cardinality(today) /\ RunsToday' = Cardinality(next)
    BY DEF RunsToday
  <2>3. CASE hour + 1 < Day
    <3>1. hour' = hour + 1
      BY <1>1, <2>3
    <3>2. next \subseteq {f[run] : run \in today}
      BY <1>1, <1>2, <1>3, <3>1
    <3> HIDE DEF today, next
    <3>3. QED
      BY <2>1, <2>2, <3>2, ImageSmaller
  <2>4. CASE hour + 1 = Day
    <3>1. hour' = 0
      BY <1>1, <2>4
    <3>2. next = {}
      BY <1>1, <1>2, <1>3, <3>1
    <3>3. Cardinality(next) = 0 /\ Cardinality(today) \in Nat
      BY <2>1, <3>2, FS_EmptySet, FS_CardinalityType
    <3>4. QED
      BY <2>2, <3>3
  <2>5. QED
    BY <1>1, <2>3, <2>4
<1>8. RunsToday' \in Nat /\ RunsToday \in Nat
  <2>1. RunsToday \in Nat
    BY <1>1, RunsFinite
  <2>2. IsFiniteSet({run \in runs' : run.age <= hour'})
    BY <1>5, FS_Subset
  <2>3. RunsToday' \in Nat
    BY <2>2, FS_CardinalityType DEF RunsToday
  <2>4. QED
    BY <2>1, <2>3
<1>9. \A p : Cardinality(RunsOf(p)') \in Nat /\ Cardinality(RunsOf(p)) \in Nat
  <2>1. \A p : RunsOf(p)' \subseteq runs' /\ RunsOf(p) \subseteq runs
    BY DEF RunsOf
  <2>2. QED
    BY <2>1, <1>1, <1>5, FS_Subset, FS_CardinalityType
<1>10. CapsKept'
  <2>1. \A p \in Ids : Cardinality(RunsOf(p)') <= DraftLimit
    BY <1>1, <1>6, <1>9 DEF CountsTidy, CapsKept
  <2>2. RunsToday' <= DailyLimit
    BY <1>1, <1>7, <1>8 DEF CountsTidy, CapsKept
  <2>3. QED
    BY <2>1, <2>2 DEF CapsKept
<1>11. \A p \in Ids : Numbers(NewRuns(p)') = 0 .. Cardinality(NewRuns(p)') - 1
  <2>1. Numbers({}) = {} /\ Cardinality({}) = 0
    BY FS_EmptySet DEF Numbers
  <2>2. 0 .. Cardinality({}) - 1 = {}
    BY <2>1
  <2>3. QED
    BY <1>6, <2>1, <2>2
<1>12. CountsTidy'
  BY <1>5, <1>10, <1>11 DEF CountsTidy
<1>13. QED
  BY <1>4, <1>6, <1>12

(* A step that leaves the log and the hour alone leaves the counts alone. *)
LEMMA SameCounts ==
    ASSUME CountsTidy, UNCHANGED <<runs, hour>>
    PROVE  CountsTidy' /\ \A p \in Ids : RunsOf(p)' = RunsOf(p)
BY DEF CountsTidy, CapsKept, RunsToday, RunsOf, NewRuns, Numbers

-----------------------------------------------------------------------------
(* What becomes of one job. *)

LEMMA NoJobTyped == NoJob \in Job /\ NoJob.status = "none" /\ ~NoJob.logged
BY DEF NoJob, Job, Statuses, Errors

LEMMA RequeuedTyped ==
    ASSUME NEW job \in Job, NEW wait \in Nat
    PROVE  /\ Requeued(job, wait) \in Job
           /\ Requeued(job, wait).status = "queued"
           /\ Requeued(job, wait).logged = job.logged
BY DEF Requeued, Job, Statuses

LEMMA EndedTyped ==
    ASSUME NEW job \in Job, NEW status \in Statuses, NEW error \in Errors
    PROVE  /\ Ended(job, status, error) \in Job
           /\ Ended(job, status, error).status = status
           /\ Ended(job, status, error).logged = job.logged
BY DEF Ended, Job

LEMMA AfterFailedRunTyped ==
    ASSUME NEW job \in Job, NEW attempts \in Nat
    PROVE  /\ AfterFailedRun(job, attempts) \in Job
           /\ AfterFailedRun(job, attempts).status \in {"queued", "failed"}
           /\ AfterFailedRun(job, attempts).logged = job.logged
<1> DEFINE failed == attempts + 1
<1> DEFINE ended == Ended(job, "failed", "unavailable")
<1>1. failed \in Nat \ {0}
  OBVIOUS
<1>2. CASE failed > Len(Delays)
  <2>1. AfterFailedRun(job, attempts) = [ended EXCEPT !.attempts = failed]
    BY <1>2 DEF AfterFailedRun
  <2>2. ended \in Job /\ ended.status = "failed" /\ ended.logged = job.logged
    BY EndedTyped DEF Statuses, Errors
  <2> HIDE DEF ended
  <2>3. QED
    BY <1>1, <2>1, <2>2 DEF Job
<1>3. CASE ~(failed > Len(Delays))
  <2> DEFINE queued == Requeued(job, Delays[failed])
  <2>1. AfterFailedRun(job, attempts) =
            [queued EXCEPT !.attempts = failed, !.error = "unavailable"]
    BY <1>3 DEF AfterFailedRun
  <2>2. Delays[failed] \in Nat
    BY <1>1, <1>3, DeskAssumption
  <2>3. queued \in Job /\ queued.status = "queued" /\ queued.logged = job.logged
    BY <2>2, RequeuedTyped
  <2> HIDE DEF queued
  <2>4. QED
    BY <1>1, <2>1, <2>3 DEF Job, Errors
<1>4. QED
  BY <1>2, <1>3

LEMMA AgedTyped ==
    ASSUME NEW job \in Job
    PROVE  /\ Aged(job) \in Job
           /\ Aged(job).status = job.status /\ Aged(job).logged = job.logged
<1>1. StaleAfter \in Nat
  BY DeskAssumption
<1>2. QED
  BY <1>1 DEF Aged, Job

LEMMA OneJob ==
    ASSUME jobs \in [Ids -> Job], NEW p \in Ids, NEW job \in Job,
           jobs' = [jobs EXCEPT ![p] = job]
    PROVE  /\ jobs' \in [Ids -> Job]
           /\ jobs'[p] = job
           /\ \A q \in Ids : q # p => jobs'[q] = jobs[q]
OBVIOUS

(* A job whose status, logging and proposal stay keeps tidy... *)
LEMMA TidyStays ==
    ASSUME NEW p \in Ids, JobTidy(p), UNCHANGED runs,
           floor'[p] = floor[p], draft'[p] = draft[p],
           jobs'[p].status = jobs[p].status, jobs'[p].logged = jobs[p].logged
    PROVE  JobTidy(p)'
BY DEF JobTidy, Queued, Running, RunsOf

(* ... and so does one that is given up, or closed, by a run.              *)
LEMMA TidyLeaves ==
    ASSUME NEW p \in Ids, JobTidy(p), UNCHANGED runs, Running(p),
           floor'[p] = floor[p],
           \/ jobs'[p].status = "queued" /\ jobs'[p].logged = jobs[p].logged
           \/ jobs'[p].status \in {"none", "done", "failed"}
    PROVE  JobTidy(p)'
BY DEF JobTidy, Queued, Running, RunsOf

-----------------------------------------------------------------------------
(* What becomes of the jobs and the drafts in a step, as HouseJobs says it. *)
Moved(p) ==
    \/ jobs'[p].status = jobs[p].status
    \/ <<jobs[p].status, jobs'[p].status>> \in Jobs!Arrows(floor'[p] = "passed")

Begins(p) == Queued(p) /\ Running(p)'

DraftKept(p) ==
    draft[p] = "saved" \/ floor[p] = "building" => draft'[p] = draft[p]

Follows ==
    /\ \A p \in Ids : Moved(p) /\ DraftKept(p)
    /\ \A p, q \in Ids : Begins(p) /\ Begins(q) => p = q

(* What a claim logs. *)
Logged ==
    \A p \in Ids : Begins(p) /\ ~jobs[p].logged => Cardinality(runs') = Cardinality(runs) + 1

Kept == GoodDesk' /\ Follows /\ Logged

(* A step that changes no job, run, draft or proposal keeps them.          *)
LEMMA ThoughtKept ==
    ASSUME GoodDesk, UNCHANGED <<floor, draft, jobs, line, runs, hour>>,
           TypeOK', WorkerTidy'
    PROVE  Kept
<1>1. CountsTidy'
  BY SameCounts DEF GoodDesk
<1>2. \A p \in Ids : JobTidy(p)'
  BY TidyStays DEF GoodDesk
<1>3. Follows /\ Logged
  BY DEF Follows, Moved, DraftKept, Begins, Queued, Running, Logged
<1>4. QED
  BY <1>1, <1>2, <1>3 DEF Kept, GoodDesk

(* Floor calls. *)
LEMMA JoinedTyped ==
    ASSUME NEW p \in Ids, NEW later \in SUBSET Ids, line \subseteq Ids \X Ids
    PROVE  Joined(p, later) \subseteq Ids \X Ids
BY DEF Joined, Without, HaveJobs

LEMMA PassKept ==
    ASSUME GoodDesk, NEW p \in Ids, Pass(p)
    PROVE  Kept
<1> DEFINE job == [NoJob EXCEPT !.status = "queued"]
<1> USE DEF GoodDesk
<1>1. job \in Job /\ job.status = "queued" /\ ~job.logged
  BY NoJobTyped DEF Job, Statuses
<1>2. /\ floor[p] = "open" /\ jobs[p].status = "none" /\ RunsOf(p) = {}
      /\ draft[p] = "none"
  BY DEF Pass, JobTidy
<1>3. /\ floor' \in [Ids -> {"open", "passed", "building"}]
      /\ floor'[p] = "passed" /\ \A q \in Ids \ {p} : floor'[q] = floor[q]
      /\ draft' \in [Ids -> {"none", "plain", "house", "saved"}]
      /\ \A q \in Ids \ {p} : draft'[q] = draft[q]
  BY DEF Pass, TypeOK
<1>4. UNCHANGED <<on, runs, hour, worker, stop>>
  BY DEF Pass
<1>5. /\ jobs' \in [Ids -> Job]
      /\ jobs'[p] = job \/ jobs'[p] = jobs[p]
      /\ \A q \in Ids \ {p} : jobs'[q] = jobs[q]
  <2>1. CASE on
    <3>1. jobs' = [jobs EXCEPT ![p] = job]
      BY <2>1 DEF Pass
    <3> HIDE DEF job
    <3>2. QED
      BY <3>1, <1>1 DEF TypeOK
  <2>2. CASE ~on
    BY <2>2 DEF Pass, TypeOK
  <2>3. QED
    BY <2>1, <2>2
<1>6. line' \subseteq Ids \X Ids
  <2>1. HaveJobs \subseteq Ids
    BY DEF HaveJobs
  <2>2. QED
    BY <2>1, JoinedTyped DEF Pass, TypeOK
<1> HIDE DEF job
<1>7. TypeOK'
  BY <1>3, <1>4, <1>5, <1>6 DEF TypeOK
<1>8. CountsTidy' /\ \A q \in Ids : RunsOf(q)' = RunsOf(q)
  BY <1>4, SameCounts
<1>9. \A q \in Ids : JobTidy(q)'
  <2>1. JobTidy(p)'
    <3>1. Cardinality(RunsOf(p)) = 0 /\ DraftLimit > 0
      BY <1>2, FS_EmptySet, DeskAssumption
    <3>2. QED
      BY <1>1, <1>2, <1>3, <1>5, <1>8, <3>1 DEF JobTidy, Queued, Running
  <2>2. ASSUME NEW q \in Ids, q # p PROVE JobTidy(q)'
    BY <1>3, <1>4, <1>5, <2>2, TidyStays
  <2>3. QED
    BY <2>1, <2>2
<1>10. WorkerTidy'
  BY <1>2, <1>3, <1>4 DEF WorkerTidy, Working
<1>11. Follows /\ Logged
  BY <1>1, <1>2, <1>3, <1>5
  DEF Follows, Moved, DraftKept, Begins, Queued, Running, Logged, Jobs!Arrows
<1>12. QED
  BY <1>7, <1>8, <1>9, <1>10, <1>11 DEF Kept

LEMMA RequestDraftKept ==
    ASSUME GoodDesk, NEW p \in Ids, RequestDraft(p)
    PROVE  Kept
<1> DEFINE job == [NoJob EXCEPT !.status = "queued"]
<1> USE DEF GoodDesk
<1>1. job \in Job /\ job.status = "queued" /\ ~job.logged
  BY NoJobTyped DEF Job, Statuses
<1>2. /\ floor[p] = "passed" /\ Cardinality(RunsOf(p)) < DraftLimit
      /\ jobs[p].status \in {"none", "done", "failed"}
  BY DEF RequestDraft, TypeOK, Job, Statuses, Queued, Running
<1>3. UNCHANGED <<on, floor, draft, runs, hour, worker, stop>>
  BY DEF RequestDraft
<1>4. jobs' = [jobs EXCEPT ![p] = job]
  BY DEF RequestDraft
<1> HIDE DEF job
<1>5. /\ jobs' \in [Ids -> Job] /\ jobs'[p] = job
      /\ \A q \in Ids : q # p => jobs'[q] = jobs[q]
  BY <1>1, <1>4, OneJob DEF TypeOK
<1>6. line' \subseteq Ids \X Ids
  BY JoinedTyped DEF RequestDraft, TypeOK
<1>7. TypeOK'
  BY <1>3, <1>5, <1>6 DEF TypeOK
<1>8. CountsTidy' /\ \A q \in Ids : RunsOf(q)' = RunsOf(q)
  BY <1>3, SameCounts
<1>9. ASSUME NEW q \in Ids PROVE JobTidy(q)'
  <2>1. CASE q = p
    BY <2>1, <1>1, <1>2, <1>3, <1>5, <1>8 DEF JobTidy, Queued, Running
  <2>2. CASE q # p
    BY <2>2, <1>3, <1>5, TidyStays
  <2>3. QED
    BY <2>1, <2>2
<1>10. WorkerTidy'
  BY <1>3 DEF WorkerTidy
<1>11. Follows /\ Logged
  BY <1>1, <1>2, <1>3, <1>5
  DEF Follows, Moved, DraftKept, Begins, Queued, Running, Logged, Jobs!Arrows
<1>12. QED
  BY <1>7, <1>8, <1>9, <1>10, <1>11 DEF Kept

LEMMA PutDraftKept ==
    ASSUME GoodDesk, NEW p \in Ids, PutDraft(p)
    PROVE  Kept
<1> USE DEF GoodDesk
<1>1. UNCHANGED <<on, floor, jobs, line, runs, hour, worker, stop>>
  BY DEF PutDraft
<1>2. /\ floor[p] = "passed" /\ draft'[p] = "saved"
      /\ draft' \in [Ids -> {"none", "plain", "house", "saved"}]
      /\ \A q \in Ids : q # p => draft'[q] = draft[q]
  BY DEF PutDraft, TypeOK
<1>3. TypeOK' /\ WorkerTidy'
  BY <1>1, <1>2 DEF TypeOK, WorkerTidy
<1>4. CountsTidy' /\ \A q \in Ids : RunsOf(q)' = RunsOf(q)
  BY <1>1, SameCounts
<1>5. \A q \in Ids : JobTidy(q)'
  BY <1>1, <1>2, <1>4 DEF JobTidy, Queued, Running
<1>6. Follows /\ Logged
  BY <1>1, <1>2 DEF Follows, Moved, DraftKept, Begins, Queued, Running, Logged
<1>7. QED
  BY <1>3, <1>4, <1>5, <1>6 DEF Kept

LEMMA PublishKept ==
    ASSUME GoodDesk, NEW p \in Ids, Publish(p)
    PROVE  Kept
<1> USE DEF GoodDesk
<1>1. UNCHANGED <<on, draft, runs, hour, worker, stop>>
  BY DEF Publish
<1>2. /\ floor[p] = "passed" /\ floor'[p] = "building"
      /\ floor' \in [Ids -> {"open", "passed", "building"}]
      /\ \A q \in Ids : q # p => floor'[q] = floor[q]
  BY DEF Publish, TypeOK
<1>3. /\ jobs' \in [Ids -> Job]
      /\ \/ Queued(p) /\ jobs'[p].status = "none"
         \/ ~Queued(p) /\ jobs'[p] = jobs[p]
      /\ \A q \in Ids : q # p => jobs'[q] = jobs[q]
  <2>1. CASE Queued(p)
    BY <2>1, NoJobTyped, OneJob DEF Publish, TypeOK
  <2>2. CASE ~Queued(p)
    BY <2>2 DEF Publish, TypeOK
  <2>3. QED
    BY <2>1, <2>2
<1>4. line' \subseteq Ids \X Ids
  BY DEF Publish, TypeOK, Without
<1>5. TypeOK' /\ WorkerTidy'
  BY <1>1, <1>2, <1>3, <1>4 DEF TypeOK, WorkerTidy, Working
<1>6. CountsTidy' /\ \A q \in Ids : RunsOf(q)' = RunsOf(q)
  BY <1>1, SameCounts
<1>7. ASSUME NEW q \in Ids PROVE JobTidy(q)'
  <2>1. CASE q = p
    BY <2>1, <1>1, <1>2, <1>3, <1>6 DEF JobTidy, Queued, Running
  <2>2. CASE q # p
    BY <2>2, <1>1, <1>2, <1>3, TidyStays
  <2>3. QED
    BY <2>1, <2>2
<1>8. Follows /\ Logged
  BY <1>1, <1>2, <1>3
  DEF Follows, Moved, DraftKept, Begins, Queued, Running, Logged, Jobs!Arrows
<1>9. QED
  BY <1>5, <1>6, <1>7, <1>8 DEF Kept

LEMMA SwitchKept ==
    ASSUME GoodDesk, Switch
    PROVE  Kept
<1>1. TypeOK' /\ WorkerTidy'
  BY DEF Switch, TypeOK, WorkerTidy, GoodDesk
<1>2. QED
  BY <1>1, ThoughtKept DEF Switch

LEMMA TickKept ==
    ASSUME GoodDesk, Tick
    PROVE  Kept
<1> USE DEF GoodDesk
<1>1. UNCHANGED <<on, floor, draft, line, worker, stop>>
  BY DEF Tick
<1>2. hour' \in 0 .. Day - 1
  BY DeskAssumption DEF Tick, TypeOK
<1>3. /\ CountsTidy'
      /\ runs' \subseteq LoggedRun
      /\ \A p \in Ids : Cardinality(RunsOf(p)') <= Cardinality(RunsOf(p))
      /\ \A p \in Ids : RunsOf(p) = {} => RunsOf(p)' = {}
  BY AgedCounts DEF Tick
<1>4. /\ jobs' \in [Ids -> Job]
      /\ \A p \in Ids : /\ jobs'[p].status = jobs[p].status
                        /\ jobs'[p].logged = jobs[p].logged
  BY AgedTyped DEF Tick, TypeOK
<1>5. TypeOK' /\ WorkerTidy'
  BY <1>1, <1>2, <1>3, <1>4 DEF TypeOK, WorkerTidy
<1>6. ASSUME NEW p \in Ids PROVE JobTidy(p)'
  <2>1. /\ Cardinality(RunsOf(p)') \in Nat /\ Cardinality(RunsOf(p)) \in Nat
        /\ DraftLimit \in Nat
    <3>1. RunsOf(p)' \subseteq runs'
      BY DEF RunsOf
    <3>2. IsFiniteSet(runs') /\ IsFiniteSet(runs)
      BY <1>3 DEF CountsTidy
    <3>3. QED
      BY <3>1, <3>2, RunsFinite, FS_Subset, FS_CardinalityType, DeskAssumption
  <2>2. JobTidy(p)
    OBVIOUS
  <2>3. Cardinality(RunsOf(p)) < DraftLimit => Cardinality(RunsOf(p)') < DraftLimit
    BY <1>3, <2>1
  <2>4. QED
    BY <1>1, <1>3, <1>4, <2>2, <2>3 DEF JobTidy, Queued, Running
<1>7. Follows /\ Logged
  BY <1>1, <1>4 DEF Follows, Moved, DraftKept, Begins, Queued, Running, Logged
<1>8. QED
  BY <1>3, <1>5, <1>6, <1>7 DEF Kept

-----------------------------------------------------------------------------
(* The worker's thread. *)

LEMMA IdleTyped ==
    ASSUME TypeOK, NEW step \in Steps
    PROVE  /\ NoWork(step) \in [step : Steps, p : Ids \cup {NoId},
                   stamp : Stamps \cup {NoStamp}, attempts : Nat,
                   stage : {"pick", "spec"}, again : BOOLEAN, on : BOOLEAN]
           /\ NoWork(step).step = step
BY DEF NoWork

LEMMA GoesTyped ==
    ASSUME TypeOK, NEW step \in Steps, Goes(step)
    PROVE  /\ worker' \in [step : Steps, p : Ids \cup {NoId},
                   stamp : Stamps \cup {NoStamp}, attempts : Nat,
                   stage : {"pick", "spec"}, again : BOOLEAN, on : BOOLEAN]
           /\ worker'.step = step /\ worker'.p = worker.p
BY DEF TypeOK, Goes

(* A step that ends the beat, or the process. *)
LEMMA NoWorkTidy ==
    ASSUME GoodDesk, UNCHANGED <<on, floor, draft, jobs, line, runs, hour>>,
           NEW step \in {"idle", "down"}, worker' = NoWork(step),
           stop' = stop \/ stop' = NotStopped
    PROVE  Kept
<1>1. NotStopped \in [state : {"no", "giving", "given"}, p : Ids \cup {NoId},
                      stamp : Stamps \cup {NoStamp}] /\ NotStopped.state = "no"
  BY DEF NotStopped, Stopped
<1>2. step \in Steps
  BY DEF Steps
<1>3. TypeOK' /\ WorkerTidy'
  BY <1>1, <1>2, IdleTyped DEF GoodDesk, TypeOK, WorkerTidy, Working
<1>4. QED
  BY <1>3, ThoughtKept

(* A step that only takes the thread on. *)
LEMMA GoesTidy ==
    ASSUME GoodDesk, UNCHANGED <<on, floor, draft, jobs, line, runs, hour, stop>>,
           NEW step \in Steps, Goes(step),
           step \in Working => worker.step \in Working,
           step = "moved_on" => floor[worker.p] = "building"
    PROVE  Kept
<1>1. TypeOK' /\ WorkerTidy'
  BY GoesTyped DEF GoodDesk, TypeOK, WorkerTidy
<1>2. QED
  BY <1>1, ThoughtKept

LEMMA BeginBeatKept == ASSUME GoodDesk, BeginBeat PROVE Kept
BY GoesTidy DEF BeginBeat, DeskUnchanged, Steps, Working

LEMMA NoteKept == ASSUME GoodDesk, Note PROVE Kept
BY GoesTidy DEF Note, DeskUnchanged, Steps, Working, At

LEMMA AskKept == ASSUME GoodDesk, Ask PROVE Kept
<1>1. UNCHANGED <<on, floor, draft, jobs, line, runs, hour, stop>>
  BY DEF Ask, DeskUnchanged
<1>2. /\ worker.step \in Working
      /\ floor[worker.p] \in {"passed", "building"}
  BY DEF Ask, At, Working, GoodDesk, WorkerTidy, TypeOK
<1>3. \/ Goes("off") \/ Goes("calling") \/ worker' = NoWork("idle")
      \/ Goes("moved_on") /\ floor[worker.p] # "passed"
  BY DEF Ask, BeatEnds
<1>4. QED
  BY <1>1, <1>2, <1>3, GoesTidy, NoWorkTidy DEF Steps

LEMMA CallAnswersKept == ASSUME GoodDesk, CallAnswers PROVE Kept
<1>1. UNCHANGED <<on, floor, draft, jobs, line, runs, hour, stop>>
  BY DEF CallAnswers, DeskUnchanged
<1>2. worker.step \in Working
  BY DEF CallAnswers, At, Working
<1>3. CASE \E step \in {"drafted", "broken"} : Goes(step)
  BY <1>1, <1>2, <1>3, GoesTidy DEF Steps
<1>4. CASE \/ worker' = [worker EXCEPT !.step = "asking", !.stage = "spec", !.again = FALSE]
           \/ worker' = [worker EXCEPT !.step = "asking", !.again = TRUE]
  <2>1. /\ worker' \in [step : Steps, p : Ids \cup {NoId},
                   stamp : Stamps \cup {NoStamp}, attempts : Nat,
                   stage : {"pick", "spec"}, again : BOOLEAN, on : BOOLEAN]
        /\ worker'.step = "asking" /\ worker'.p = worker.p
    BY <1>4 DEF GoodDesk, TypeOK, Steps
  <2>2. TypeOK' /\ WorkerTidy'
    BY <1>1, <1>2, <2>1 DEF GoodDesk, TypeOK, WorkerTidy
  <2>3. QED
    BY <1>1, <2>2, ThoughtKept
<1>5. QED
  BY <1>3, <1>4 DEF CallAnswers

LEMMA CallUnavailableKept == ASSUME GoodDesk, CallUnavailable PROVE Kept
BY GoesTidy DEF CallUnavailable, DeskUnchanged, Steps, Working, At

LEMMA ReadOnKept == ASSUME GoodDesk, ReadOn PROVE Kept
<1>1. UNCHANGED <<on, floor, draft, jobs, line, runs, hour, stop>>
  BY DEF ReadOn, DeskUnchanged
<1>2. TypeOK' /\ WorkerTidy'
  BY <1>1 DEF ReadOn, At, GoodDesk, TypeOK, WorkerTidy, Working, Steps
<1>3. QED
  BY <1>1, <1>2, ThoughtKept

LEMMA StoreFailsKept == ASSUME GoodDesk, StoreFails PROVE Kept
BY GoesTidy DEF StoreFails, DeskUnchanged, Steps, Working, At

LEMMA LoseKept == ASSUME GoodDesk, Lose PROVE Kept
BY NoWorkTidy DEF Lose, DeskUnchanged, BeatEnds

LEMMA CrashKept == ASSUME GoodDesk, Crash PROVE Kept
BY NoWorkTidy DEF Crash

LEMMA StartKept == ASSUME GoodDesk, Start PROVE Kept
BY NoWorkTidy DEF Start, DeskUnchanged, BeatEnds

LEMMA ExitKept == ASSUME GoodDesk, Exit PROVE Kept
BY NoWorkTidy DEF Exit

LEMMA StopKept == ASSUME GoodDesk, Stop PROVE Kept
<1>1. UNCHANGED <<on, floor, draft, jobs, line, runs, hour, worker>>
  BY DEF Stop
<1>2. Noted => worker.p \in Ids
  BY DEF Noted, GoodDesk, TypeOK, WorkerTidy, Working, Steps
<1>3. TypeOK' /\ WorkerTidy'
  BY <1>1, <1>2 DEF Stop, Stopped, GoodDesk, TypeOK, WorkerTidy
<1>4. QED
  BY <1>1, <1>3, ThoughtKept

(* The thread recovers the jobs left running. *)
LEMMA RecoverKept == ASSUME GoodDesk, Recover PROVE Kept
<1> USE DEF GoodDesk
<1>1. UNCHANGED <<on, floor, draft, line, runs, hour, stop>>
  BY DEF Recover, DeskUnchanged
<1>2. /\ jobs' \in [Ids -> Job]
      /\ \A p \in Ids :
             \/ jobs'[p] = jobs[p]
             \/ /\ Running(p)
                /\ jobs'[p].status \in {"queued", "failed"}
                /\ jobs'[p].logged = jobs[p].logged
  <2> DEFINE again(p) == AfterFailedRun(jobs[p], jobs[p].attempts)
  <2>1. \A p \in Ids : /\ again(p) \in Job /\ again(p).status \in {"queued", "failed"}
                      /\ again(p).logged = jobs[p].logged
    <3>1. \A p \in Ids : jobs[p] \in Job /\ jobs[p].attempts \in Nat
      BY DEF TypeOK, Job
    <3>2. QED
      BY <3>1, AfterFailedRunTyped
  <2>2. \A p \in Ids : jobs[p] \in Job /\ (Stale(p) => Running(p))
    BY DEF TypeOK, Stale
  <2>3. jobs' = [p \in Ids |-> IF Stale(p) THEN again(p) ELSE jobs[p]]
    BY DEF Recover
  <2> HIDE DEF again
  <2>4. QED
    BY <2>1, <2>2, <2>3
<1>3. /\ TypeOK' /\ WorkerTidy'
  <2>1. Goes("recovered")
    BY DEF Recover
  <2>2. QED
    BY <1>1, <1>2, <2>1, GoesTyped DEF TypeOK, WorkerTidy, Steps, Working
<1>4. CountsTidy' /\ \A q \in Ids : RunsOf(q)' = RunsOf(q)
  BY <1>1, SameCounts
<1>5. ASSUME NEW p \in Ids PROVE JobTidy(p)'
  BY <1>1, <1>2, TidyStays, TidyLeaves
<1>6. Follows /\ Logged
  BY <1>1, <1>2
  DEF Follows, Moved, DraftKept, Begins, Queued, Running, Logged, Jobs!Arrows
<1>7. QED
  BY <1>3, <1>4, <1>5, <1>6 DEF Kept

(* A compare-and-set gives a running job back, or ends it. *)
LEMMA SetKept ==
    ASSUME GoodDesk, UNCHANGED <<on, floor, runs, hour>>, TypeOK', WorkerTidy',
           NEW p \in Ids, Running(p), NEW job \in Job,
           jobs' = [jobs EXCEPT ![p] = job],
           \/ job.status = "queued" /\ job.logged = jobs[p].logged
           \/ job.status \in {"done", "failed"}
           \/ job.status = "none" /\ floor[p] # "passed",
           \A q \in Ids : q # p => draft'[q] = draft[q],
           DraftKept(p)
    PROVE  Kept
<1> USE DEF GoodDesk
<1>1. /\ jobs'[p] = job /\ \A q \in Ids : q # p => jobs'[q] = jobs[q]
  BY OneJob DEF TypeOK
<1>2. CountsTidy'
  BY SameCounts
<1>3. ASSUME NEW q \in Ids PROVE JobTidy(q)'
  <2>1. CASE q = p
    BY <2>1, <1>1, TidyLeaves
  <2>2. CASE q # p
    BY <2>2, <1>1, TidyStays
  <2>3. QED
    BY <2>1, <2>2
<1>4. Follows /\ Logged
  BY <1>1 DEF Follows, Moved, DraftKept, Begins, Queued, Running, Logged, Jobs!Arrows
<1>5. QED
  BY <1>2, <1>3, <1>4 DEF Kept

(* The thread's own job is one of the table's. *)
LEMMA MineTyped ==
    ASSUME TypeOK, Mine
    PROVE  worker.p \in Ids /\ Running(worker.p) /\ jobs[worker.p] \in Job
BY DEF TypeOK, Mine, Owns

LEMMA NotWantedKept == ASSUME GoodDesk, NotWanted PROVE Kept
<1> USE DEF GoodDesk
<1>1. UNCHANGED <<on, floor, draft, runs, hour, stop>> /\ worker' = NoWork("idle")
  BY DEF NotWanted, DeskUnchanged, BeatEnds
<1>2. CASE ~Mine
  BY <1>1, <1>2, NoWorkTidy DEF NotWanted
<1>3. CASE Mine
  <2>1. worker.p \in Ids /\ Running(worker.p) /\ jobs[worker.p] \in Job
    BY <1>3, MineTyped
  <2>2. \E job \in Job :
           /\ jobs' = [jobs EXCEPT ![worker.p] = job]
           /\ \/ job.status = "queued" /\ job.logged = jobs[worker.p].logged
              \/ job.status = "none" /\ floor[worker.p] # "passed"
    <3>1. CASE At("off")
      BY <1>3, <2>1, <3>1, RequeuedTyped DEF NotWanted
    <3>2. CASE ~At("off")
      BY <1>3, <2>1, <3>2, NoJobTyped DEF NotWanted, At, WorkerTidy
    <3>3. QED
      BY <3>1, <3>2
  <2>3. PICK job \in Job :
           /\ jobs' = [jobs EXCEPT ![worker.p] = job]
           /\ \/ job.status = "queued" /\ job.logged = jobs[worker.p].logged
              \/ job.status = "none" /\ floor[worker.p] # "passed"
    BY <2>2
  <2>4. line' \subseteq Ids \X Ids
    BY DEF NotWanted, TypeOK, Without
  <2>5. jobs' \in [Ids -> Job]
    BY <2>1, <2>3 DEF TypeOK
  <2>6. TypeOK' /\ WorkerTidy'
    BY <1>1, <2>4, <2>5, IdleTyped DEF TypeOK, WorkerTidy, Working, Steps
  <2>7. QED
    BY <1>1, <2>1, <2>3, <2>6, SetKept DEF DraftKept
<1>4. QED
  BY <1>2, <1>3

LEMMA RunFailsKept == ASSUME GoodDesk, RunFails PROVE Kept
<1> USE DEF GoodDesk
<1>1. UNCHANGED <<on, floor, draft, line, runs, hour, stop>> /\ worker' = NoWork("idle")
  BY DEF RunFails, DeskUnchanged, BeatEnds
<1>2. CASE ~Mine
  BY <1>1, <1>2, NoWorkTidy DEF RunFails
<1>3. CASE Mine
  <2>1. worker.p \in Ids /\ Running(worker.p) /\ jobs[worker.p] \in Job
    BY <1>3, MineTyped
  <2>2. worker.attempts \in Nat
    BY DEF TypeOK
  <2> DEFINE ended == Ended(jobs[worker.p], "failed", "permanent")
  <2> DEFINE again == AfterFailedRun(jobs[worker.p], worker.attempts)
  <2>3. ended \in Job /\ ended.status = "failed"
    BY <2>1, EndedTyped DEF Statuses, Errors
  <2>4. /\ again \in Job /\ again.status \in {"queued", "failed"}
        /\ again.logged = jobs[worker.p].logged
    BY <2>1, <2>2, AfterFailedRunTyped
  <2>5. \/ jobs' = [jobs EXCEPT ![worker.p] = ended]
        \/ jobs' = [jobs EXCEPT ![worker.p] = again]
    BY <1>3 DEF RunFails
  <2> HIDE DEF ended, again
  <2>6. jobs' \in [Ids -> Job]
    BY <2>1, <2>3, <2>4, <2>5 DEF TypeOK
  <2>7. TypeOK' /\ WorkerTidy'
    BY <1>1, <2>6, IdleTyped DEF TypeOK, WorkerTidy, Working, Steps
  <2>8. CASE jobs' = [jobs EXCEPT ![worker.p] = ended]
    BY <1>1, <2>1, <2>3, <2>7, <2>8, SetKept DEF DraftKept
  <2>9. CASE jobs' = [jobs EXCEPT ![worker.p] = again]
    BY <1>1, <2>1, <2>4, <2>7, <2>9, SetKept DEF DraftKept
  <2>10. QED
    BY <2>5, <2>8, <2>9
<1>4. QED
  BY <1>2, <1>3

LEMMA StoreKept == ASSUME GoodDesk, Store PROVE Kept
<1> USE DEF GoodDesk
<1>1. UNCHANGED <<on, floor, line, runs, hour, stop>> /\ worker' = NoWork("idle")
  BY DEF Store, BeatEnds
<1>2. CASE ~Mine
  BY <1>1, <1>2, NoWorkTidy DEF Store
<1>3. CASE Mine
  <2>1. worker.p \in Ids /\ Running(worker.p) /\ jobs[worker.p] \in Job
    BY <1>3, MineTyped
  <2> DEFINE ended == Ended(jobs[worker.p], "done", "none")
  <2>2. ended \in Job /\ ended.status = "done"
    BY <2>1, EndedTyped DEF Statuses, Errors
  <2>3. jobs' = [jobs EXCEPT ![worker.p] = ended]
    BY <1>3 DEF Store
  <2> HIDE DEF ended
  <2>4. /\ draft' \in [Ids -> {"none", "plain", "house", "saved"}]
        /\ DraftKept(worker.p)
        /\ \A q \in Ids : q # worker.p => draft'[q] = draft[q]
    BY <1>3, <2>1 DEF Store, TypeOK, Fillable, DraftKept
  <2>5. jobs' \in [Ids -> Job]
    BY <2>1, <2>2, <2>3 DEF TypeOK
  <2>6. TypeOK' /\ WorkerTidy'
    BY <1>1, <2>4, <2>5, IdleTyped DEF TypeOK, WorkerTidy, Working, Steps
  <2>7. QED
    BY <1>1, <2>1, <2>2, <2>3, <2>4, <2>6, SetKept
<1>4. QED
  BY <1>2, <1>3

LEMMA GiveBackKept == ASSUME GoodDesk, GiveBack PROVE Kept
<1> USE DEF GoodDesk
<1>1. UNCHANGED <<on, floor, draft, line, runs, hour, worker>>
  BY DEF GiveBack
<1>2. stop.p \in Ids
  BY DEF GiveBack, WorkerTidy
<1>3. jobs[stop.p] \in Job
  BY <1>2 DEF TypeOK
<1> DEFINE job == Requeued(jobs[stop.p], 0)
<1>4. job \in Job /\ job.status = "queued" /\ job.logged = jobs[stop.p].logged
  BY <1>3, RequeuedTyped
<1>5. \/ jobs' = jobs
      \/ Running(stop.p) /\ jobs' = [jobs EXCEPT ![stop.p] = job]
  BY DEF GiveBack, Owns
<1> HIDE DEF job
<1>6. jobs' \in [Ids -> Job]
  BY <1>2, <1>4, <1>5 DEF TypeOK
<1>7. TypeOK' /\ WorkerTidy'
  BY <1>1, <1>6 DEF GiveBack, Stopped, TypeOK, WorkerTidy
<1>8. CASE jobs' = jobs
  BY <1>1, <1>7, <1>8, ThoughtKept
<1>9. CASE Running(stop.p) /\ jobs' = [jobs EXCEPT ![stop.p] = job]
  BY <1>1, <1>2, <1>4, <1>7, <1>9, SetKept DEF DraftKept
<1>10. QED
  BY <1>5, <1>8, <1>9

-----------------------------------------------------------------------------
(* The claim. *)

LEMMA ClosedTyped ==
    ASSUME GoodDesk
    PROVE  /\ Closed \in [Ids -> Job]
           /\ \A p \in Ids :
                 \/ Closed[p] = jobs[p] /\ p \notin MovedOn
                 \/ /\ Closed[p].status = "none"
                    /\ Queued(p) /\ floor[p] # "passed"
BY NoJobTyped DEF Closed, MovedOn, GoodDesk, TypeOK

(* Closing what has moved on leaves every job tidy. *)
LEMMA ClosedTidy ==
    ASSUME GoodDesk, NEW p \in Ids, floor'[p] = floor[p], draft'[p] = draft[p],
           RunsOf(p)' = RunsOf(p), jobs'[p] = Closed[p]
    PROVE  JobTidy(p)' /\ Moved(p) /\ ~Begins(p)
<1>1. JobTidy(p)
  BY DEF GoodDesk
<1>2. \/ Closed[p] = jobs[p]
      \/ Closed[p].status = "none" /\ Queued(p) /\ floor[p] # "passed"
  BY ClosedTyped
<1>3. QED
  BY <1>1, <1>2 DEF JobTidy, Moved, Begins, Queued, Running, Jobs!Arrows

LEMMA NothingDueKept ==
    ASSUME GoodDesk, Claim, NothingDue
    PROVE  Kept
<1> USE DEF GoodDesk
<1>1. /\ UNCHANGED <<on, floor, draft, runs, hour, stop>>
      /\ worker' = NoWork("idle") /\ jobs' = Closed
  BY DEF Claim, NothingDue, DeskUnchanged, BeatEnds
<1>2. line' \subseteq Ids \X Ids
  BY DEF Claim, TypeOK, Without
<1>3. TypeOK' /\ WorkerTidy'
  BY <1>1, <1>2, ClosedTyped, IdleTyped DEF TypeOK, WorkerTidy, Working, Steps
<1>4. CountsTidy' /\ \A q \in Ids : RunsOf(q)' = RunsOf(q)
  BY <1>1, SameCounts
<1>5. \A q \in Ids : JobTidy(q)' /\ Moved(q) /\ ~Begins(q)
  BY <1>1, <1>4, ClosedTidy
<1>6. QED
  BY <1>1, <1>3, <1>4, <1>5 DEF Kept, Follows, Logged, DraftKept

LEMMA RefusedKept ==
    ASSUME GoodDesk, Claim, NEW p \in Due, Refused(p)
    PROVE  Kept
<1> USE DEF GoodDesk
<1>1. /\ UNCHANGED <<on, floor, draft, runs, hour, stop>>
      /\ worker' = NoWork("idle")
  BY DEF Claim, Refused, DeskUnchanged, BeatEnds
<1>2. p \in Ids /\ Queued(p) /\ floor[p] = "passed" /\ jobs[p] \in Job
  BY DEF Due, TypeOK
<1>3. Closed \in [Ids -> Job] /\ Closed[p] = jobs[p]
  BY <1>2, ClosedTyped
<1> DEFINE ended == Ended(jobs[p], "failed", "daily_limit")
<1>4. ended \in Job /\ ended.status = "failed" /\ ended.logged = jobs[p].logged
  BY <1>2, EndedTyped DEF Statuses, Errors
<1>5. jobs' = [Closed EXCEPT ![p] = ended]
  BY <1>3 DEF Refused
<1> HIDE DEF ended
<1>6. /\ jobs' \in [Ids -> Job] /\ jobs'[p] = ended
      /\ \A q \in Ids : q # p => jobs'[q] = Closed[q]
  BY <1>2, <1>3, <1>4, <1>5
<1>7. line' \subseteq Ids \X Ids
  BY DEF Claim, TypeOK, Without
<1>8. TypeOK' /\ WorkerTidy'
  BY <1>1, <1>6, <1>7, IdleTyped DEF TypeOK, WorkerTidy, Working, Steps
<1>9. CountsTidy' /\ \A q \in Ids : RunsOf(q)' = RunsOf(q)
  BY <1>1, SameCounts
<1>10. ASSUME NEW q \in Ids PROVE JobTidy(q)' /\ Moved(q) /\ ~Begins(q)
  <2>1. CASE q # p
    BY <2>1, <1>1, <1>6, <1>9, ClosedTidy
  <2>2. CASE q = p
    BY <2>2, <1>1, <1>2, <1>4, <1>6
    DEF JobTidy, Moved, Begins, Queued, Running, Jobs!Arrows
  <2>3. QED
    BY <2>1, <2>2
<1>11. QED
  BY <1>1, <1>8, <1>9, <1>10 DEF Kept, Follows, Logged, DraftKept

LEMMA ClaimedKept ==
    ASSUME GoodDesk, Claim, NEW p \in Due, ~PastDailyLimit(p), Claimed(p)
    PROVE  Kept
<1> USE DEF GoodDesk
<1>1. UNCHANGED <<on, floor, draft, hour, stop>>
  BY DEF Claim, DeskUnchanged
<1>2. p \in Ids /\ Queued(p) /\ floor[p] = "passed" /\ jobs[p] \in Job
  BY DEF Due, TypeOK
<1>3. Closed \in [Ids -> Job] /\ Closed[p] = jobs[p]
  BY <1>2, ClosedTyped
<1>4. Fresh \in Stamps
  BY FreshStamp
<1> DEFINE job == [jobs[p] EXCEPT !.status = "running", !.age = 0,
                                  !.stamp = Fresh, !.logged = TRUE]
<1>5. job \in Job /\ job.status = "running" /\ job.logged
  BY <1>2, <1>4 DEF Job, Statuses
<1>6. jobs' = [Closed EXCEPT ![p] = job]
  BY <1>3 DEF Claimed
<1> HIDE DEF job
<1>7. /\ jobs' \in [Ids -> Job] /\ jobs'[p] = job
      /\ \A q \in Ids : q # p => jobs'[q] = Closed[q]
  BY <1>2, <1>3, <1>5, <1>6
<1>8. line' \subseteq Ids \X Ids
  BY DEF Claim, TypeOK, Without
<1>9. /\ worker' \in [step : Steps, p : Ids \cup {NoId}, stamp : Stamps \cup {NoStamp},
                      attempts : Nat, stage : {"pick", "spec"}, again : BOOLEAN,
                      on : BOOLEAN]
      /\ worker'.step = "claimed" /\ worker'.p = p
  <2>1. jobs[p].attempts \in Nat
    BY <1>2 DEF Job
  <2>2. QED
    BY <2>1, <1>2, <1>4 DEF Claimed, NoWork, Steps
<1>10. /\ CountsTidy' /\ runs' \subseteq LoggedRun
       /\ \A q \in Ids : q # p => RunsOf(q)' = RunsOf(q)
       /\ ~jobs[p].logged => Cardinality(runs') = Cardinality(runs) + 1
  <2>1. CASE jobs[p].logged
    <3>1. UNCHANGED runs
      BY <2>1 DEF Claimed
    <3>2. QED
      BY <3>1, <2>1, <1>1, SameCounts DEF TypeOK
  <2>2. CASE ~jobs[p].logged
    <3>1. runs' = runs \cup {Inserted(p)}
      BY <2>2 DEF Claimed
    <3>2. Cardinality(RunsOf(p)) < DraftLimit
      BY <2>2, <1>2 DEF JobTidy
    <3>3. RunsToday < DailyLimit
      <4>1. RunsToday \in Nat /\ DailyLimit \in Nat
        BY RunsFinite, DeskAssumption DEF CountsTidy
      <4>2. ~(RunsToday >= DailyLimit)
        BY <2>2 DEF PastDailyLimit
      <4>3. QED
        BY <4>1, <4>2
    <3>4. QED
      BY <1>1, <1>2, <3>1, <3>2, <3>3, InsertCounts
  <2>3. QED
    BY <2>1, <2>2
<1>11. TypeOK'
  BY <1>1, <1>7, <1>8, <1>9, <1>10 DEF TypeOK
<1>12. WorkerTidy'
  BY <1>1, <1>2, <1>9 DEF WorkerTidy
<1>13. ASSUME NEW q \in Ids, q # p PROVE JobTidy(q)' /\ Moved(q) /\ ~Begins(q)
  BY <1>13, <1>1, <1>7, <1>10, ClosedTidy
<1>14. JobTidy(p)' /\ Moved(p)
  BY <1>1, <1>2, <1>5, <1>7 DEF JobTidy, Moved, Queued, Running, Jobs!Arrows
<1>15. Follows /\ Logged
  BY <1>1, <1>10, <1>13, <1>14 DEF Follows, Logged, DraftKept
<1>16. QED
  BY <1>10, <1>11, <1>12, <1>13, <1>14, <1>15 DEF Kept

LEMMA ClaimKept == ASSUME GoodDesk, Claim PROVE Kept
<1>1. \/ NothingDue
      \/ \E p \in Due : IF PastDailyLimit(p) THEN Refused(p) ELSE Claimed(p)
  BY DEF Claim
<1>2. CASE NothingDue
  BY <1>2, NothingDueKept
<1>3. ASSUME NEW p \in Due, PastDailyLimit(p), Refused(p) PROVE Kept
  BY <1>3, RefusedKept
<1>4. ASSUME NEW p \in Due, ~PastDailyLimit(p), Claimed(p) PROVE Kept
  BY <1>4, ClaimedKept
<1>5. QED
  BY <1>1, <1>2, <1>3, <1>4

-----------------------------------------------------------------------------
(* Every step. *)

LEMMA InitGood == Init => GoodDesk
<1> SUFFICES ASSUME Init PROVE GoodDesk
  OBVIOUS
<1>1. runs = {} /\ hour = 0
  BY DEF Init
<1>2. /\ RunsToday = 0
      /\ \A p : /\ RunsOf(p) = {} /\ NewRuns(p) = {}
                /\ Cardinality(RunsOf(p)) = 0 /\ Cardinality(NewRuns(p)) = 0
  <2>1. {run \in runs : run.age <= hour} = {}
    BY <1>1
  <2>2. \A p : RunsOf(p) = {} /\ NewRuns(p) = {}
    BY <1>1 DEF RunsOf, NewRuns
  <2>3. QED
    BY <2>1, <2>2, FS_EmptySet DEF RunsToday
<1>3. TypeOK
  <2>1. NoJob \in Job
    BY NoJobTyped
  <2>2. 0 \in 0 .. Day - 1
    BY DeskAssumption
  <2>3. QED
    BY <2>1, <2>2
    DEF Init, TypeOK, NoWork, NotStopped, Stopped, Steps
<1>4. CountsTidy
  <2>1. Numbers({}) = {} /\ 0 .. 0 - 1 = {}
    BY DEF Numbers
  <2>2. IsFiniteSet(runs)
    BY <1>1, FS_EmptySet
  <2>3. CapsKept
    BY <1>2, DeskAssumption DEF CapsKept
  <2>4. QED
    BY <1>2, <2>1, <2>2, <2>3 DEF CountsTidy
<1>5. \A p \in Ids : JobTidy(p)
  BY <1>2, NoJobTyped DEF Init, JobTidy, Queued, Running
<1>6. WorkerTidy
  BY DEF Init, NoWork, NotStopped, Stopped, WorkerTidy, Working
<1>7. QED
  BY <1>3, <1>4, <1>5, <1>6 DEF GoodDesk

LEMMA NextKept ==
    ASSUME GoodDesk, [Next]_vars
    PROVE  Kept
<1>1. CASE Tick
  BY <1>1, TickKept
<1>2. CASE Switch
  BY <1>2, SwitchKept
<1>3. ASSUME NEW p \in Ids, FloorCall(p) PROVE Kept
  BY <1>3, PassKept, RequestDraftKept, PutDraftKept, PublishKept DEF FloorCall
<1>4. CASE Run
  BY <1>4, BeginBeatKept, RecoverKept, ClaimKept, NoteKept, AskKept, CallAnswersKept,
     CallUnavailableKept, NotWantedKept, RunFailsKept, ReadOnKept, StoreKept,
     StoreFailsKept DEF Run
<1>5. CASE Process
  BY <1>5, CrashKept, LoseKept, StartKept, StopKept, GiveBackKept, ExitKept DEF Process
<1>6. CASE UNCHANGED vars
  <2>1. UNCHANGED <<on, floor, draft, jobs, line, runs, hour, worker, stop>>
    BY <1>6 DEF vars
  <2>2. TypeOK' /\ WorkerTidy'
    BY <2>1 DEF GoodDesk, TypeOK, WorkerTidy
  <2>3. QED
    BY <2>1, <2>2, ThoughtKept
<1>7. QED
  BY <1>1, <1>2, <1>3, <1>4, <1>5, <1>6 DEF Next

(* GoodDesk holds throughout.                                              *)
THEOREM GoodDeskHolds == Spec => []GoodDesk
<1>1. GoodDesk /\ [Next]_vars => GoodDesk'
  BY NextKept DEF Kept
<1>2. QED
  BY InitGood, <1>1, PTL DEF Spec

(* Every row, and the thread, keep their types, whatever the desk's limits *)
(* and however many proposals share it.                                    *)
THEOREM DeskTypes == Spec => []TypeOK
<1>1. GoodDesk => TypeOK
  BY DEF GoodDesk
<1>2. QED
  BY GoodDeskHolds, <1>1, PTL

(* No proposal is ever drafted more than DraftLimit times in a day's       *)
(* window, nor the floor more than DailyLimit times in a day.              *)
THEOREM CapsAreKept == Spec => []CapsKept
<1>1. GoodDesk => CapsKept
  BY DEF GoodDesk, CountsTidy
<1>2. QED
  BY GoodDeskHolds, <1>1, PTL

(* The caps count every run: whoever claims a job that has not been logged *)
(* adds a row to the log.                                                  *)
RunsCounted ==
    [][\A p \in Ids : Begins(p) /\ ~jobs[p].logged =>
           Cardinality(runs') = Cardinality(runs) + 1]_vars

THEOREM EveryRunCounted == Spec => RunsCounted
<1>1. GoodDesk /\ [Next]_vars =>
          [\A p \in Ids : Begins(p) /\ ~jobs[p].logged =>
               Cardinality(runs') = Cardinality(runs) + 1]_vars
  BY NextKept DEF Kept, Logged
<1>2. QED
  BY GoodDeskHolds, <1>1, PTL DEF Spec, RunsCounted

(* What an admin saved, and what was published, no late spec overwrites.   *)
THEOREM DraftsStand == Spec => DraftStands
<1>1. GoodDesk /\ [Next]_vars =>
          [\A p \in Ids :
              draft[p] = "saved" \/ floor[p] = "building" => draft'[p] = draft[p]]_vars
  BY NextKept DEF Kept, Follows, DraftKept
<1>2. QED
  BY GoodDeskHolds, <1>1, PTL DEF Spec, DraftStands

(* The desk implements HouseJobs, for every set of proposals.              *)
THEOREM JobsFollowed == Spec => FollowsJobs
<1>1. Init => Jobs!Init
  BY NoJobTyped DEF Init, Jobs!Init
<1>2. ASSUME GoodDesk, [Next]_vars PROVE [Jobs!Next]_(Jobs!vars)
  <2>1. GoodDesk' /\ Follows
    BY <1>2, NextKept DEF Kept
  <2>2. \A p \in Ids : jobs'[p].status \in Jobs!States
    BY <2>1 DEF GoodDesk, TypeOK, Job, Statuses, Jobs!States
  <2>3. \A p \in Ids : Jobs!Moves(p)
    BY <2>1 DEF Follows, Moved, Jobs!Moves
  <2>4. \A p, q \in Ids : Begins(p) /\ Begins(q) => p = q
    BY <2>1 DEF Follows
  <2>5. Jobs!Next
    BY <2>2, <2>3, <2>4 DEF Jobs!Next, Begins, Queued, Running
  <2>6. QED
    BY <2>5
<1>3. QED
  BY <1>1, <1>2, GoodDeskHolds, PTL DEF Spec, FollowsJobs, Jobs!Spec

-----------------------------------------------------------------------------
(* The small instances TLC checks. *)

(* One retry, and the second failed run is the last.                       *)
OneRetry == <<1>>

Symmetry == Permutations(Ids)

(* A house that stays on, with a process that crashes, and lost writes:    *)
(* whose turn is it?                                                       *)
LiveNext ==
    \/ Tick
    \/ \E p \in Ids : FloorCall(p)
    \/ Run \/ Lose \/ Crash \/ Start

LiveInit == Init /\ on

LiveSpec == LiveInit /\ [][LiveNext]_vars /\ Fairness

=============================================================================
