---------------------------- MODULE BridgeLeases ----------------------------
(***************************************************************************)
(* The Bridge's claims: the leases of services/bridge.py, each kept in     *)
(* step with its holder's pull request on GitHub.                          *)
(*                                                                         *)
(* A request is not one step.  It reads the lease and GitHub, whose answer *)
(* may be cached or missing, and only then records what it saw, in a       *)
(* transaction that reads the lease again; a claim, or a member's act on   *)
(* their claim, is one more transaction.  Other requests, and the clock,   *)
(* run in between.  A transaction and the read of GitHub after it are one  *)
(* step: what GitHub does in between it could have done before.            *)
(*                                                                         *)
(* Times are slots of a day or so, beside which the minute an answer is    *)
(* cached for is short.  Dispatches, events, copies and limits on visits   *)
(* are left out, and every pull request here is one on upstream from its   *)
(* author's own fork.  Definitions marked Slip are mutants.                *)
(***************************************************************************)
EXTENDS Integers, Sequences, FiniteSets

CONSTANTS
    Members,
    Tasks,
    Pulls,        \* pull request numbers
    Shapes,       \* how a pull request may name tasks: its branch's, its text's
    Nobody,
    NoTask,
    LeaseSlots,   \* LEASE_HOURS_BY_SIZE
    Day,          \* CLAIM_COOLDOWN, CLAIM_WINDOW and PULL_GRACE, 24 hours each
    ClaimRate,    \* CLAIM_RATE_LIMIT
    MaxActive,    \* max_active_claims()
    MaxRequests,  \* bound: requests in flight
    MaxLeases,    \* bound: claims made
    MaxClock      \* bound: the clock

ASSUME BridgeAssumption ==
    /\ Pulls \subseteq Nat \ {0} /\ IsFiniteSet(Pulls)
    /\ {LeaseSlots, Day, ClaimRate, MaxActive, MaxRequests, MaxLeases, MaxClock}
           \subseteq Nat \ {0}
    /\ Shapes \subseteq [branch : Tasks \cup {NoTask}, text : SUBSET Tasks]
    /\ Nobody \notin Members /\ NoTask \notin Tasks

Never == -1
NoPull == 0
Time == Nat \cup {Never}

(* A row of bridge_leases. *)
Lease == [task : Tasks, holder : Members, claimed : Nat, ends : Nat,
          released : Time, pull : Pulls \cup {NoPull},
          pullState : {"none", "open", "closed"}, merged : BOOLEAN]

(* A pull request as GitHub has it, and when it was closed, if it is.       *)
Seen == [state : {"none", "open", "closed", "merged"}, closed : Time]
Unseen == [state |-> "none", closed |-> Never]

(* A request in flight: the lease and the pull request it saw for it and   *)
(* has yet to record, if any; what it does then, and for a claim, for whom *)
(* and of which task; and when it began.                                   *)
Request == [lease : Nat, pull : Pulls \cup {NoPull}, seen : Seen,
            then : {"done", "status", "submit", "release", "take"},
            who : Members \cup {Nobody}, task : Tasks \cup {NoTask}, at : Nat]

VARIABLES
    clock,
    leases,     \* bridge_leases, in the order of their ids
    merges,     \* bridge_merges: <<task, pull>>
    github,     \* Pulls -> Seen
    opened,     \* Pulls -> who opened it, when, and the tasks it names
    lately,     \* Pulls -> what a cached answer may still say of it
    requests    \* the requests in flight

vars == <<clock, leases, merges, github, opened, lately, requests>>
bridge == <<leases, merges>>
outside == <<clock, github, opened, lately>>

Init ==
    /\ clock = 0
    /\ leases = <<>>
    /\ merges = {}
    /\ github = [p \in Pulls |-> Unseen]
    /\ opened = [p \in Pulls |-> [by |-> Nobody, at |-> Never, branch |-> NoTask, text |-> {}]]
    /\ lately = [p \in Pulls |-> {Unseen}]
    /\ requests = {}

-----------------------------------------------------------------------------
PullOpen(l) == l.pull # NoPull /\ l.pullState = "open" /\ ~l.merged

Active(l, now) == l.released = Never /\ (l.merged \/ PullOpen(l) \/ now < l.ends)

Settled(l) == l.released # Never \/ l.merged

Newest(ids) == IF ids = {} THEN 0 ELSE CHOOSE i \in ids : \A j \in ids : j <= i
LeasesOf(t) == {i \in DOMAIN leases : leases[i].task = t}
Latest(t) == Newest(LeasesOf(t))

(* Their time ran out, and nobody let them go or merged them. *)
RanOut(i) == ~Settled(leases[i]) /\ clock >= leases[i].ends

HeldBy(m) == {i \in DOMAIN leases :
    LET l == leases[i]
    IN  l.holder = m /\ ~Settled(l) /\ (l.ends > clock \/ l.pullState = "open")}

Taken(p, i) == \E j \in DOMAIN leases \ {i} : leases[j].pull = p

(* pull_counts: p is the work of lease i. *)
Counts(p, i) ==
    LET l == leases[i]
    IN  /\ opened[p].by = l.holder
        /\ opened[p].at >= l.claimed
        /\ Active(l, clock) \/ opened[p].at < l.ends
        /\ opened[p].branch = l.task \/ l.task \in opened[p].text

-----------------------------------------------------------------------------
(* GitHub's answers. *)

Views == {v \in [Pulls -> UNION {lately[p] : p \in Pulls}] :
              \A p \in Pulls : v[p] \in lately[p]}

Stands(seen) == seen.state \in {"open", "merged"}

(* best_pull: an open one first, then a merged one, the newest of them. *)
Best(ids, v) ==
    LET of(state) == {p \in ids : v[p].state = state}
    IN  CASE of("open") # {} -> Newest(of("open"))
          [] of("open") = {} /\ of("merged") # {} -> Newest(of("merged"))
          [] OTHER -> Newest(ids)

(* _find_pull: from the task's branch, else through the search. *)
Found(i, v) ==
    LET usable == {p \in Pulls : /\ v[p].state # "none"
                                 /\ Counts(p, i)
                                 /\ p = leases[i].pull \/ ~Taken(p, i)}
        branch == {p \in usable : opened[p].branch = leases[i].task}
    IN  IF branch # {} THEN Best(branch, v)
        ELSE Best({p \in usable : leases[i].task \in opened[p].text}, v)

(* _track's choice: the recorded one while it stands, else a newer one. *)
Tracked(i, v) ==
    LET own == leases[i].pull
        found == Found(i, v)
    IN  IF own # NoPull /\ Stands(v[own]) THEN own
        ELSE IF found # NoPull /\ (own = NoPull \/ Stands(v[found])) THEN found
        ELSE own

-----------------------------------------------------------------------------
(* Requests. *)

NewRequest(then, i) ==
    [lease |-> i, pull |-> NoPull, seen |-> Unseen, then |-> then,
     who |-> Nobody, task |-> NoTask, at |-> clock]

NewClaim(m, t, i) == [NewRequest("take", i) EXCEPT !.who = m, !.task = t]

(* The requests that come of reading GitHub for r's lease: none when there *)
(* is nothing to record.                                                   *)
Asked(r) ==
    LET answers == {<<Tracked(r.lease, v), v>> : v \in Views}
    IN  {[r EXCEPT !.pull = a[1], !.seen = a[2][a[1]]] : a \in {b \in answers : b[1] # NoPull}}

Status(r) == IF Settled(leases[r.lease]) THEN {} ELSE Asked([r EXCEPT !.then = "done"])

(* What a member's act on a claim that holds goes on with: letting it go,  *)
(* or recording a pull request handed in or named that counts, or, after a *)
(* report, the status it answers with.                                     *)
Acts(r) ==
    IF r.then = "release" THEN {r}
    ELSE LET i == r.lease
             handed == {p \in Pulls : Counts(p, i) /\ (p = leases[i].pull \/ ~Taken(p, i))}
         IN  Status(r) \cup
             UNION {{[r EXCEPT !.then = "status", !.pull = p, !.seen = seen] :
                         seen \in lately[p] \ {Unseen}} : p \in handed}

Begin(rs) ==
    /\ Cardinality(requests) < MaxRequests
    /\ \E r \in rs : requests' = requests \cup {r}
    /\ UNCHANGED <<outside, bridge>>

Ends(r) == requests' = requests \ {r}

(* A visit that reads the task's status or its checks, or a profile.       *)
Look(i) ==
    /\ ~Settled(leases[i])
    /\ \/ i = Latest(leases[i].task)
       \/ i \in HeldBy(leases[i].holder) /\ leases[i].pull # NoPull
    /\ Begin(Asked(NewRequest("done", i)))

(* A claim asks GitHub first about a lease that ran out.  No claim is asked *)
(* for past the bound on those made.                                       *)
AskClaim(m, t) ==
    LET i == Latest(t)
    IN  /\ Len(leases) < MaxLeases
        /\ i # 0 /\ RanOut(i)
        /\ Begin(Asked(NewClaim(m, t, i)))

(* held_lease: m acts on their own claim; GitHub is asked if it ran out.   *)
AskHeld(m, t, then) ==
    LET i == Latest(t)
        request == NewRequest(then, i)
    IN  /\ i # 0
        /\ leases[i].holder = m /\ ~Settled(leases[i])
        /\ Begin(IF Active(leases[i], clock) THEN Acts(request)
                 ELSE Asked(request))

-----------------------------------------------------------------------------
(* Transactions. *)

LaterOf(a, b) == IF a >= b THEN a ELSE b

(* Slip: the state is kept as GitHub says it. *)
InStepAsSaid(l, p, seen) ==
    [l EXCEPT !.pull = p, !.pullState = seen.state, !.merged = (seen.state = "merged")]

(* A row that isn't settled, after what was seen of p, nobody else's.      *)
InStep(l, p, seen) ==
    CASE seen.state = "merged" ->
             [l EXCEPT !.pull = p, !.pullState = "closed", !.merged = TRUE]
      [] seen.state = "open" ->
             [l EXCEPT !.pull = p, !.pullState = "open"]
      [] seen.state = "closed"
         /\ (l.pull = NoPull \/ (l.pull = p /\ l.pullState = "open")) ->
             [l EXCEPT !.pull = p, !.pullState = "closed",
                       !.ends = LaterOf(l.ends, seen.closed + Day)]
      [] OTHER -> l

(* Slip: a pull request recorded on another lease is taken. *)
RecordedTaken(i, p, seen) ==
    IF Settled(leases[i]) THEN leases[i] ELSE InStep(leases[i], p, seen)

(* record_pull: the row of lease i, read again, after what was seen of p.  *)
Recorded(i, p, seen) ==
    LET l == leases[i]
    IN  IF Settled(l) \/ (l.pull # p /\ Taken(p, i)) THEN l ELSE InStep(l, p, seen)

(* What r goes on with once it has recorded, if it does go on.  held_lease *)
(* looks again at the claim it recorded for, by the time it began at.      *)
GoesOn(r) ==
    LET l == leases[r.lease]
        held == Active(l, r.at) /\ ~l.merged
        next == [r EXCEPT !.pull = NoPull, !.seen = Unseen,
                          !.lease = IF r.then = "take" THEN 0 ELSE @]
    IN  CASE r.then = "done" -> {}
          [] r.then = "take" -> {next}
          [] r.then = "status" -> Status(next)
          [] OTHER -> IF held THEN Acts(next) ELSE {}

(* record_pull: the transaction, and the request's next read.              *)
Record(r) ==
    LET row == Recorded(r.lease, r.pull, r.seen)
    IN  /\ r.pull # NoPull
        /\ leases' = [leases EXCEPT ![r.lease] = row]
        /\ merges' = IF row.merged THEN merges \cup {<<row.task, row.pull>>} ELSE merges
        /\ UNCHANGED outside
        /\ LET nexts == GoesOn(r)'
           IN  \/ \E next \in nexts : requests' = (requests \ {r}) \cup {next}
               \/ (r.then \in {"status", "submit"} \/ nexts = {}) /\ Ends(r)

(* When the member's newest claim of t stopped holding it, or Never. *)
EndedAt(i) ==
    CASE i = 0 -> Never
      [] i # 0 /\ leases[i].released # Never -> leases[i].released
      [] OTHER -> IF Active(leases[i], clock) THEN Never ELSE leases[i].ends

(* Slip: a merged lease that was let go does not keep the task. *)
MayTakeLetGo(m, t) ==
    LET i == Latest(t)
    IN  /\ i # 0 => ~Active(leases[i], clock)
        /\ Cardinality(HeldBy(m)) < MaxActive

MayTake(m, t) ==
    LET i == Latest(t)
        ended == EndedAt(Newest({j \in LeasesOf(t) : leases[j].holder = m}))
    IN  /\ i # 0 => ~Active(leases[i], clock) /\ ~leases[i].merged
        /\ ended # Never => clock >= ended + Day
        /\ Cardinality({j \in DOMAIN leases :
               leases[j].holder = m /\ leases[j].claimed > clock - Day}) < ClaimRate
        /\ Cardinality(HeldBy(m)) < MaxActive

NewLease(m, t) ==
    [task |-> t, holder |-> m, claimed |-> clock, ends |-> clock + LeaseSlots,
     released |-> Never, pull |-> NoPull, pullState |-> "none", merged |-> FALSE]

(* LeaseStore.claim: the task is taken, or the claim refused. *)
MayClaim(m, t) == MayTake(m, t) /\ Len(leases) < MaxLeases

Claimed(m, t) == IF MayClaim(m, t) THEN Append(leases, NewLease(m, t)) ELSE leases

(* A claim for which GitHub wasn't asked, didn't answer or had nothing.    *)
Claim(m, t) ==
    /\ MayClaim(m, t)
    /\ leases' = Claimed(m, t)
    /\ UNCHANGED <<outside, merges, requests>>

(* One that recorded what GitHub answered. *)
Take(r) ==
    /\ r.then = "take" /\ r.pull = NoPull
    /\ leases' = Claimed(r.who, r.task)
    /\ Ends(r)
    /\ UNCHANGED <<outside, merges>>

(* LeaseStore.release: nothing is read again but whether it was let go. *)
Release(r) ==
    /\ r.then = "release" /\ r.pull = NoPull
    /\ leases' = [leases EXCEPT ![r.lease].released = IF @ = Never THEN clock ELSE @]
    /\ Ends(r)
    /\ UNCHANGED <<outside, merges>>

-----------------------------------------------------------------------------
(* GitHub, and time. *)

Becomes(p, state) ==
    LET now == [state |-> state, closed |-> IF state = "closed" THEN clock ELSE Never]
    IN  /\ github' = [github EXCEPT ![p] = now]
        /\ lately' = [lately EXCEPT ![p] = @ \cup {now}]
        /\ UNCHANGED <<clock, bridge, requests>>

(* Numbers are given in order. *)
OpenPull(m, p) ==
    /\ github[p].state = "none"
    /\ \A q \in Pulls : q < p => github[q].state # "none"
    /\ \E shape \in Shapes :
           opened' = [opened EXCEPT ![p] = [by |-> m, at |-> clock,
                          branch |-> shape.branch, text |-> shape.text]]
    /\ Becomes(p, "open")

ClosePull(p) == github[p].state = "open" /\ Becomes(p, "closed") /\ UNCHANGED opened
ReopenPull(p) == github[p].state = "closed" /\ Becomes(p, "open") /\ UNCHANGED opened
MergePull(p) == github[p].state = "open" /\ Becomes(p, "merged") /\ UNCHANGED opened

(* A request may see one slot end; no answer stays cached through one.    *)
Tick ==
    /\ clock < MaxClock
    /\ \A r \in requests : r.at = clock
    /\ clock' = clock + 1
    /\ lately' = [p \in Pulls |-> {github[p]}]
    /\ UNCHANGED <<bridge, github, opened, requests>>

-----------------------------------------------------------------------------
Member(m) ==
    \/ \E t \in Tasks : AskClaim(m, t) \/ Claim(m, t)
    \/ \E t \in Tasks : AskHeld(m, t, "release") \/ AskHeld(m, t, "submit")
    \/ \E p \in Pulls : OpenPull(m, p)

GoOn(r) == Record(r) \/ Take(r) \/ Release(r)

Maintainers == \E p \in Pulls : ClosePull(p) \/ ReopenPull(p) \/ MergePull(p)

Next ==
    \/ Tick
    \/ Maintainers
    \/ \E m \in Members : Member(m)
    \/ \E i \in DOMAIN leases : Look(i)
    \/ \E r \in requests : GoOn(r)

Spec == Init /\ [][Next]_vars

-----------------------------------------------------------------------------
(* Properties. *)

(* Every row of the Bridge, GitHub's state and every request keep types.   *)
TypeOK ==
    /\ clock \in 0 .. MaxClock
    /\ leases \in Seq(Lease)
    /\ merges \subseteq Tasks \X Pulls
    /\ github \in [Pulls -> Seen]
    /\ opened \in [Pulls -> [by : Members \cup {Nobody}, at : Time,
                             branch : Tasks \cup {NoTask}, text : SUBSET Tasks]]
    /\ lately \in [Pulls -> SUBSET Seen]
    /\ requests \subseteq Request

(* A pull request "counts for one task at most", and "counts once, however *)
(* often it is read": however many requests record it at the same time, it *)
(* stands on one lease, and the merges are those of the merged leases.     *)
MergedOnce ==
    /\ \A i, j \in DOMAIN leases :
           leases[i].pull = leases[j].pull /\ i # j => leases[i].pull = NoPull
    /\ merges = {<<leases[i].task, leases[i].pull>> :
                     i \in {j \in DOMAIN leases : leases[j].merged}}

Entry(t) ==
    LET i == Latest(t)
    IN  IF i = 0 THEN [holder |-> Nobody, settled |-> FALSE]
        ELSE [holder |-> IF Active(leases[i], clock) THEN leases[i].holder ELSE Nobody,
              settled |-> leases[i].merged]

Board == INSTANCE TaskBoard WITH board <- [t \in Tasks |-> Entry(t)]

(* The leases implement the board: whatever late answers are recorded, on  *)
(* the newest claim of a task or an older one, the task passes from one    *)
(* member to another only by way of nobody's, and never once the claim the *)
(* board shows is merged.                                                  *)
FollowsBoard == Board!Spec

(* "One person may hold FORGE_MAX_ACTIVE_CLAIMS tasks at once" (default 2; *)
(* a shipped task doesn't count), docs/architecture.md.  It is violated: a *)
(* claim whose time ran out is not counted, and comes back when its pull   *)
(* request, opened in time, is found at last.                              *)
ClaimLimitKept ==
    \A m \in Members :
        Cardinality({i \in DOMAIN leases :
            leases[i].holder = m /\ Active(leases[i], clock) /\ ~leases[i].merged})
            <= MaxActive

=============================================================================
