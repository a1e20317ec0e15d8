----------------------------- MODULE HouseDesk ------------------------------
(***************************************************************************)
(* The house model's desk: the job queue and the worker of                 *)
(* services/house.py, with the calls the floor makes on them in its own    *)
(* transactions.  One transaction is one step; a call to the model is none *)
(* of them, so everything else can happen between its start and its end.   *)
(*                                                                         *)
(* The worker is one daemon thread per beat, and one at a time.  The       *)
(* process may die at any moment (Crash), or be stopped on purpose, which  *)
(* hands the job back while the thread runs on (Stop, GiveBack, Exit).     *)
(*                                                                         *)
(* Times are ages and waits, counted in slots: nothing here reads a date.  *)
(* What the model reads and writes, the specs' text and the log of calls   *)
(* are left out.  Definitions marked Slip are the mutants of the           *)
(* definition that follows.                                                *)
(***************************************************************************)
EXTENDS Integers, Sequences, FiniteSets

CONSTANTS
    Ids,         \* proposal numbers
    Stamps,      \* start times, each given once: more than Ids and the thread hold
    NoStamp,     \* no start time
    NoId,        \* no proposal
    Delays,      \* RETRY_DELAYS, in slots
    StaleAfter,  \* STALE_AFTER, in slots
    Day,         \* a UTC day and DRAFT_WINDOW, in slots
    DraftLimit,  \* DRAFT_LIMIT
    DailyLimit   \* daily_limit()

ASSUME DeskAssumption ==
    /\ Delays \in Seq(Nat)
    /\ {StaleAfter, DailyLimit} \subseteq Nat
    /\ {Day, DraftLimit} \subseteq Nat \ {0}
    /\ IsFiniteSet(Ids) /\ IsFiniteSet(Stamps)
    /\ Cardinality(Stamps) > Cardinality(Ids) + 1
    /\ NoStamp \notin Stamps /\ NoId \notin Ids

Statuses == {"none", "queued", "running", "done", "failed"}
Errors == {"none", "unavailable", "daily_limit", "permanent"}

(* A row of house_jobs.  stamp is started_at, which only a running job's   *)
(* readers look at; logged says whether run_id is set.                     *)
Job == [status : Statuses, attempts : Nat, wait : Nat, age : Nat,
        stamp : Stamps \cup {NoStamp}, logged : BOOLEAN, error : Errors]

NoJob == [status |-> "none", attempts |-> 0, wait |-> 0, age |-> 0,
          stamp |-> NoStamp, logged |-> FALSE, error |-> "none"]

(* A row of house_runs, of the last Day slots; no tells apart the runs of  *)
(* one proposal that were logged in the same slot.                         *)
LoggedRun == [p : Ids, age : Nat, no : Nat]

(* Where the worker's thread stands: no process, between two beats, about  *)
(* to recover, to claim, to note its claim, to ask for a call, in one, or  *)
(* with its run's end to record.                                           *)
Steps == {"down", "idle", "beat", "recovered", "claimed", "asking", "calling",
          "off", "moved_on", "broken", "failing", "drafted", "storing"}

VARIABLES
    on,       \* off_reason() is None
    floor,    \* Ids -> the proposal's state: open, passed or building
    draft,    \* Ids -> what the draft task holds
    jobs,     \* Ids -> Job
    line,     \* the order of requested_at: <<p, q>> when p's job is the older
    runs,     \* the rows of house_runs
    hour,     \* slots since midnight, UTC
    worker,   \* the thread: its step, its _Job, the stage of its draft
    stop      \* the worker's task: running, giving a job back, or cancelled

vars == <<on, floor, draft, jobs, line, runs, hour, worker, stop>>

NoWork(step) ==
    [step |-> step, p |-> NoId, stamp |-> NoStamp, attempts |-> 0,
     stage |-> "pick", again |-> FALSE, on |-> FALSE]

Stopped(state, p, stamp) == [state |-> state, p |-> p, stamp |-> stamp]
NotStopped == Stopped("no", NoId, NoStamp)
Stopping == stop.state # "no"

Init ==
    /\ on \in BOOLEAN
    /\ floor = [p \in Ids |-> "open"]
    /\ draft = [p \in Ids |-> "none"]
    /\ jobs = [p \in Ids |-> NoJob]
    /\ line = {}
    /\ runs = {}
    /\ hour = 0
    /\ worker = NoWork("idle")
    /\ stop = NotStopped

-----------------------------------------------------------------------------
Queued(p) == jobs[p].status = "queued"
Running(p) == jobs[p].status = "running"

(* Today's house_runs, across the floor, and those of one proposal. *)
RunsToday == Cardinality({run \in runs : run.age <= hour})
RunsOf(p) == {run \in runs : run.p = p}

Inserted(p) ==
    [p |-> p, age |-> 0, no |-> Cardinality({run \in RunsOf(p) : run.age = 0})]

Without(gone) == {pair \in line : pair[1] \notin gone /\ pair[2] \notin gone}

HaveJobs == {p \in Ids : jobs[p].status # "none"}

(* The line with p ahead of later, which is all there is behind one of it. *)
Behind(p) == {q \in Ids : <<p, q>> \in line}
Joined(p, later) ==
    Without({p}) \cup ((HaveJobs \ (later \cup {p})) \X {p}) \cup ({p} \X later)

(* The compare-and-set of _cas: the job still runs under the thread's own  *)
(* start time.                                                             *)
Owns(p, stamp) == Running(p) /\ jobs[p].stamp = stamp
Mine == worker.p \in Ids /\ Owns(worker.p, worker.stamp)

Requeued(job, wait) ==
    [job EXCEPT !.status = "queued", !.wait = wait, !.age = 0, !.stamp = NoStamp]
(* Slip: a failure is recorded as the error. *)
EndedOdd(job, status, error) ==
    [job EXCEPT !.status = status, !.error = status, !.age = 0, !.stamp = NoStamp]

Ended(job, status, error) ==
    [job EXCEPT !.status = status, !.error = error, !.age = 0, !.stamp = NoStamp]

(* attempts is what the run (or recover) read when it took the job.        *)
AfterFailedRun(job, attempts) ==
    LET failed == attempts + 1
    IN  IF failed > Len(Delays)
        THEN [Ended(job, "failed", "unavailable") EXCEPT !.attempts = failed]
        ELSE [Requeued(job, Delays[failed]) EXCEPT
                 !.attempts = failed, !.error = "unavailable"]

-----------------------------------------------------------------------------
(* The floor's transactions, and the switch. *)

(* A proposal passes: its draft is written, and while the house is on its  *)
(* first job queued, dated at the pass, which may be earlier than others'. *)
Pass(p) ==
    /\ floor[p] = "open"
    /\ floor' = [floor EXCEPT ![p] = "passed"]
    /\ draft' = [draft EXCEPT ![p] = "plain"]
    /\ IF on
       THEN /\ jobs' = [jobs EXCEPT ![p] = [NoJob EXCEPT !.status = "queued"]]
            /\ \E later \in SUBSET HaveJobs :
                   /\ \A q \in later : Behind(q) \subseteq later
                   /\ line' = Joined(p, later)
       ELSE UNCHANGED <<jobs, line>>
    /\ UNCHANGED <<on, runs, hour, worker, stop>>

RequestDraft(p) ==
    /\ floor[p] = "passed" /\ on
    /\ ~Queued(p) /\ ~Running(p)
    /\ Cardinality(RunsOf(p)) < DraftLimit
    /\ RunsToday < DailyLimit
    /\ jobs' = [jobs EXCEPT ![p] = [NoJob EXCEPT !.status = "queued"]]
    /\ line' = Joined(p, {})
    /\ UNCHANGED <<on, floor, draft, runs, hour, worker, stop>>

PutDraft(p) ==
    /\ floor[p] = "passed"
    /\ draft' = [draft EXCEPT ![p] = "saved"]
    /\ UNCHANGED <<on, floor, jobs, line, runs, hour, worker, stop>>

(* Publishing closes a job still queued (cancel_queued). *)
Publish(p) ==
    /\ floor[p] = "passed" /\ draft[p] # "plain"
    /\ floor' = [floor EXCEPT ![p] = "building"]
    /\ IF Queued(p)
       THEN /\ jobs' = [jobs EXCEPT ![p] = NoJob]
            /\ line' = Without({p})
       ELSE UNCHANGED <<jobs, line>>
    /\ UNCHANGED <<on, draft, runs, hour, worker, stop>>

Switch ==
    /\ on' = ~on
    /\ UNCHANGED <<floor, draft, jobs, line, runs, hour, worker, stop>>

-----------------------------------------------------------------------------
(* Time. *)

Aged(job) ==
    CASE job.status = "queued" -> [job EXCEPT !.wait = IF @ = 0 THEN 0 ELSE @ - 1]
      [] job.status = "running" ->
             [job EXCEPT !.age = IF @ > StaleAfter THEN @ ELSE @ + 1]
      [] OTHER -> job

Tick ==
    /\ hour' = (hour + 1) % Day
    /\ jobs' = [p \in Ids |-> Aged(jobs[p])]
    /\ runs' = {[run EXCEPT !.age = @ + 1] : run \in {run \in runs : run.age + 1 < Day}}
    /\ UNCHANGED <<on, floor, draft, line, worker, stop>>

-----------------------------------------------------------------------------
(* A beat (work): recover, claim, note. *)

At(step) == worker.step = step
Goes(step) == worker' = [worker EXCEPT !.step = step]
BeatEnds == worker' = NoWork("idle")
DeskUnchanged == UNCHANGED <<on, floor, draft, hour, stop>>

BeginBeat ==
    /\ At("idle") /\ ~Stopping
    /\ on
    /\ Goes("beat")
    /\ DeskUnchanged /\ UNCHANGED <<jobs, line, runs>>

Stale(p) == Running(p) /\ jobs[p].age > StaleAfter

(* One transaction per stale job; nobody else changes one in between.      *)
Recover ==
    /\ At("beat")
    /\ Goes("recovered")
    /\ jobs' = [p \in Ids |->
           IF Stale(p) THEN AfterFailedRun(jobs[p], jobs[p].attempts) ELSE jobs[p]]
    /\ DeskUnchanged /\ UNCHANGED <<line, runs>>

MovedOn == {p \in Ids : Queued(p) /\ floor[p] # "passed"}

(* The due jobs of proposals still passed. *)
Due == {p \in Ids : Queued(p) /\ jobs[p].wait = 0 /\ floor[p] = "passed"}

(* Slip: the newest request comes first. *)
Newest(p) == \A q \in Due \ {p} : <<q, p>> \in line

(* The oldest request comes first. *)
Oldest(p) == \A q \in Due \ {p} : <<p, q>> \in line

Fresh == CHOOSE stamp \in Stamps :
    stamp # worker.stamp /\ \A p \in Ids : jobs[p].stamp # stamp

Closed == [p \in Ids |-> IF p \in MovedOn THEN NoJob ELSE jobs[p]]

(* The thread's claim of p, which logs the job's first run. *)
Claimed(p) ==
    /\ jobs' = [Closed EXCEPT ![p] = [@ EXCEPT !.status = "running", !.age = 0,
                                              !.stamp = Fresh, !.logged = TRUE]]
    /\ runs' = IF jobs[p].logged THEN runs
               ELSE runs \cup {Inserted(p)}
    /\ worker' = [NoWork("claimed") EXCEPT !.p = p, !.stamp = Fresh,
                                           !.attempts = jobs[p].attempts]

\* Slip: the limit was looked at when the job was asked for.
PastDailyLimitAsked(p) == FALSE

(* Counted again at the claim, of the runs logged in this UTC day.         *)
PastDailyLimit(p) == ~jobs[p].logged /\ RunsToday >= DailyLimit

(* The daily limit is reached, for a job whose run is not logged yet.      *)
Refused(p) ==
    /\ jobs' = [Closed EXCEPT ![p] = Ended(@, "failed", "daily_limit")]
    /\ BeatEnds
    /\ UNCHANGED runs

NothingDue ==
    /\ jobs' = Closed
    /\ BeatEnds
    /\ UNCHANGED runs

Claim ==
    /\ At("recovered")
    /\ line' = Without(MovedOn)
    /\ \/ Due = {} /\ NothingDue
       \/ \E p \in Due :
              /\ Oldest(p)
              /\ IF PastDailyLimit(p) THEN Refused(p) ELSE Claimed(p)
    /\ DeskUnchanged

(* claimed.append: only now can a stop hand the job back.  Reading the     *)
(* repository may fail before the first call (bad_request).                *)
Note ==
    /\ At("claimed")
    /\ Goes("asking") \/ Goes("broken")
    /\ DeskUnchanged /\ UNCHANGED <<jobs, line, runs>>

-----------------------------------------------------------------------------
(* The run: what each call is asked first, the calls, their ends. *)

(* _still_wanted, then the call or the stop it calls for. *)
Ask ==
    /\ At("asking")
    /\ CASE ~on -> Goes("off")
         [] on /\ floor[worker.p] # "passed" -> Goes("moved_on")
         [] on /\ floor[worker.p] = "passed" /\ ~Mine -> BeatEnds
         [] OTHER -> Goes("calling")
    /\ DeskUnchanged /\ UNCHANGED <<jobs, line, runs>>

(* A usable answer leads to the next stage; an unusable one is asked for   *)
(* once more, then permanent (_twice).                                     *)
CallAnswers ==
    /\ At("calling")
    /\ \/ /\ worker.stage = "pick"
          /\ worker' = [worker EXCEPT !.step = "asking", !.stage = "spec", !.again = FALSE]
       \/ /\ worker.stage = "spec"
          /\ Goes("drafted")
       \/ /\ ~worker.again
          /\ worker' = [worker EXCEPT !.step = "asking", !.again = TRUE]
       \/ Goes("broken")
    /\ DeskUnchanged /\ UNCHANGED <<jobs, line, runs>>

(* A call that is unavailable, or any other error on the way.              *)
CallUnavailable ==
    /\ At("asking") \/ At("calling")
    /\ Goes("failing")
    /\ DeskUnchanged /\ UNCHANGED <<jobs, line, runs>>

(* Slip: a job the switch stopped is closed like one that moved on. *)
NotWantedCloses ==
    /\ At("off") \/ At("moved_on")
    /\ IF Mine
       THEN jobs' = [jobs EXCEPT ![worker.p] = NoJob] /\ line' = Without({worker.p})
       ELSE UNCHANGED <<jobs, line>>
    /\ BeatEnds
    /\ DeskUnchanged /\ UNCHANGED <<runs>>

(* _not_wanted: the compare-and-set fails for a job taken back. *)
NotWanted ==
    /\ At("off") \/ At("moved_on")
    /\ IF ~Mine
       THEN UNCHANGED <<jobs, line>>
       ELSE IF At("off")
       THEN jobs' = [jobs EXCEPT ![worker.p] = Requeued(@, 0)] /\ UNCHANGED line
       ELSE jobs' = [jobs EXCEPT ![worker.p] = NoJob] /\ line' = Without({worker.p})
    /\ BeatEnds
    /\ DeskUnchanged /\ UNCHANGED <<runs>>

(* A run that failed, for good or for now. *)
RunFails ==
    /\ At("broken") \/ At("failing")
    /\ jobs' = IF ~Mine THEN jobs
               ELSE [jobs EXCEPT ![worker.p] =
                        IF At("broken") THEN Ended(@, "failed", "permanent")
                                        ELSE AfterFailedRun(@, worker.attempts)]
    /\ BeatEnds
    /\ DeskUnchanged /\ UNCHANGED <<line, runs>>

ReadOn ==
    /\ At("drafted")
    /\ worker' = [worker EXCEPT !.step = "storing", !.on = on]
    /\ DeskUnchanged /\ UNCHANGED <<jobs, line, runs>>

(* Slip: the spec fills the draft whoever has saved it. *)
FillableSaved(p) == floor[p] = "passed"

(* apply_house_spec: an unsaved draft of a proposal still passed. *)
Fillable(p) == floor[p] = "passed" /\ draft[p] # "saved"

Store ==
    LET p == worker.p
    IN  /\ At("storing")
        /\ IF Mine
           THEN /\ jobs' = [jobs EXCEPT ![p] = Ended(@, "done", "none")]
                /\ draft' = IF worker.on /\ Fillable(p)
                            THEN [draft EXCEPT ![p] = "house"] ELSE draft
           ELSE UNCHANGED <<jobs, draft>>
        /\ BeatEnds
        /\ UNCHANGED <<on, floor, line, runs, hour, stop>>

StoreFails ==
    /\ At("storing")
    /\ Goes("failing")
    /\ DeskUnchanged /\ UNCHANGED <<jobs, line, runs>>

(* The database refuses a beat's first steps, or a run's last word:        *)
(* run_worker logs it and goes on, and a job may be left running.          *)
Lose ==
    /\ worker.step \in {"beat", "recovered", "off", "moved_on", "broken",
                       "failing"}
    /\ BeatEnds
    /\ DeskUnchanged /\ UNCHANGED <<jobs, line, runs>>

-----------------------------------------------------------------------------
(* The process. *)

Crash ==
    /\ ~At("down") /\ stop.state # "given"
    /\ worker' = NoWork("down")
    /\ stop' = NotStopped
    /\ UNCHANGED <<on, floor, draft, jobs, line, runs, hour>>

Start ==
    /\ At("down")
    /\ BeatEnds
    /\ DeskUnchanged /\ UNCHANGED <<jobs, line, runs>>

(* The worker's task is cancelled: a job its beat has noted is given back. *)
Noted == worker.step \notin {"down", "idle", "beat", "recovered", "claimed"}

Stop ==
    /\ ~At("down") /\ ~Stopping
    /\ stop' = IF Noted THEN Stopped("giving", worker.p, worker.stamp)
               ELSE Stopped("given", NoId, NoStamp)
    /\ UNCHANGED <<on, floor, draft, jobs, line, runs, hour, worker>>

(* Slip: giving a job back forgets that its run was logged. *)
GiveBackUnlogged ==
    /\ stop.state = "giving"
    /\ stop' = Stopped("given", NoId, NoStamp)
    /\ jobs' = IF Owns(stop.p, stop.stamp)
               THEN [jobs EXCEPT ![stop.p] = [Requeued(@, 0) EXCEPT !.logged = FALSE]]
               ELSE jobs
    /\ UNCHANGED <<on, floor, draft, line, runs, hour, worker>>

GiveBack ==
    /\ stop.state = "giving"
    /\ stop' = Stopped("given", NoId, NoStamp)
    /\ jobs' = IF Owns(stop.p, stop.stamp)
               THEN [jobs EXCEPT ![stop.p] = Requeued(@, 0)] ELSE jobs
    /\ UNCHANGED <<on, floor, draft, line, runs, hour, worker>>

(* The daemon thread is dropped with the process. *)
Exit ==
    /\ stop.state = "given"
    /\ worker' = NoWork("down")
    /\ stop' = NotStopped
    /\ UNCHANGED <<on, floor, draft, jobs, line, runs, hour>>

-----------------------------------------------------------------------------
Run ==
    \/ BeginBeat \/ Recover \/ Claim \/ Note
    \/ Ask \/ CallAnswers \/ CallUnavailable
    \/ NotWanted \/ RunFails \/ ReadOn \/ Store \/ StoreFails

Process == Crash \/ Lose \/ Start \/ Stop \/ GiveBack \/ Exit

FloorCall(p) == Pass(p) \/ RequestDraft(p) \/ PutDraft(p) \/ Publish(p)

Next ==
    \/ Tick \/ Switch
    \/ \E p \in Ids : FloorCall(p)
    \/ Run
    \/ Process

Spec == Init /\ [][Next]_vars

(***************************************************************************)
(* Time passes, the worker beats and its calls end (each is cut at         *)
(* TOTAL_SECONDS), a process that stopped is started again and a stop      *)
(* ends; the database does not refuse every beat's first steps.  Nobody    *)
(* owes a crash, a stop, a failure, or a visit to the floor.               *)
(***************************************************************************)
Fairness ==
    /\ WF_vars(Tick)
    /\ WF_vars(Run)
    /\ SF_vars(Recover) /\ SF_vars(Claim)
    /\ WF_vars(Start)
    /\ WF_vars(GiveBack \/ Exit)

FairSpec == Spec /\ Fairness

-----------------------------------------------------------------------------
(* Properties. *)

(* Every row of the desk, and the worker's thread, keep their types.       *)
TypeOK ==
    /\ on \in BOOLEAN
    /\ floor \in [Ids -> {"open", "passed", "building"}]
    /\ draft \in [Ids -> {"none", "plain", "house", "saved"}]
    /\ jobs \in [Ids -> Job]
    /\ line \subseteq Ids \X Ids
    /\ runs \subseteq LoggedRun
    /\ hour \in 0 .. Day - 1
    /\ worker \in [step : Steps, p : Ids \cup {NoId}, stamp : Stamps \cup {NoStamp},
                   attempts : Nat, stage : {"pick", "spec"}, again : BOOLEAN,
                   on : BOOLEAN]
    /\ stop \in [state : {"no", "giving", "given"}, p : Ids \cup {NoId},
                 stamp : Stamps \cup {NoStamp}]

(* Both caps of the log hold at every moment, although a request checks    *)
(* them long before its job is claimed, and jobs are retried, given back,  *)
(* paused and recovered in between: at most DraftLimit drafts of one       *)
(* proposal in 24 hours, and DailyLimit jobs in a UTC day.                 *)
CapsKept ==
    /\ \A p \in Ids : Cardinality(RunsOf(p)) <= DraftLimit
    /\ RunsToday <= DailyLimit

(* What an admin saved, and what was published, is never overwritten by a  *)
(* spec that lands late.                                                   *)
DraftStands ==
    [][\A p \in Ids :
        draft[p] = "saved" \/ floor[p] = "building" => draft'[p] = draft[p]]_vars

Jobs == INSTANCE HouseJobs WITH
    job <- [p \in Ids |-> jobs[p].status],
    passed <- [p \in Ids |-> floor[p] = "passed"]

(* The desk implements the jobs' promise: through crashes, stops, retries  *)
(* and the switch no wanted job is lost, a job given back or recovered is  *)
(* never finished by the run that lost it, and no published proposal's job *)
(* is run.                                                                 *)
FollowsJobs == Jobs!Spec

(* "A job running when the API stops on purpose goes back with no failed   *)
(* run counted" (the head of house.py): once the process is gone, no job   *)
(* of its thread is left running, to be counted as failed later.           *)
StopGivesBack ==
    [][stop.state = "given" /\ stop'.state = "no" => ~Mine]_vars

(* Under Fairness, once the house stays on and its process stays up, every *)
(* job ends: with a spec, a failure an admin sees, or because its proposal *)
(* moved on; no retry, no lost word and no other job keeps it waiting.     *)
JobSettles ==
    <>[](on /\ ~At("down") /\ ~Stopping) =>
        \A p \in Ids : Queued(p) \/ Running(p) ~> ~Queued(p) /\ ~Running(p)

=============================================================================
