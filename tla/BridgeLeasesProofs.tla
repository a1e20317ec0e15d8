------------------------- MODULE BridgeLeasesProofs -------------------------
(***************************************************************************)
(* What holds of BridgeLeases for all members, tasks, pull requests,       *)
(* limits and bounds: TypeOK, MergedOnce, and that it implements TaskBoard.*)
(*                                                                         *)
(* GoodBridge is the invariant that carries them: a request in flight is   *)
(* about a lease there is, but for a claim that has recorded what it saw,  *)
(* and a claim says for whom and of what.  What GitHub answered never      *)
(* enters: any pull request may be recorded, as long as the transaction    *)
(* that does it looks again whether another lease has it.                  *)
(***************************************************************************)
EXTENDS BridgeLeases, FiniteSetTheorems, TLAPS, TLC

(* The tables, and what is outside the Bridge, have their types.           *)
TablesOK ==
    /\ clock \in 0 .. MaxClock
    /\ leases \in Seq(Lease)
    /\ merges \subseteq Tasks \X Pulls
    /\ github \in [Pulls -> Seen]
    /\ opened \in [Pulls -> [by : Members \cup {Nobody}, at : Time,
                             branch : Tasks \cup {NoTask}, text : SUBSET Tasks]]
    /\ lately \in [Pulls -> SUBSET Seen]

(* The lease a request is about, and the claim it is to make. *)
Fit(r) ==
    /\ r \in Request
    /\ \/ r.lease \in DOMAIN leases
       \/ r.lease = 0 /\ r.then = "take" /\ r.pull = NoPull
    /\ r.then = "take" => r.who \in Members /\ r.task \in Tasks

GoodBridge ==
    /\ TablesOK
    /\ MergedOnce
    /\ \A r \in requests : Fit(r)

-----------------------------------------------------------------------------
(* The newest of some numbers. *)

LEMMA LargestIn ==
    ASSUME NEW S, S \subseteq Nat, IsFiniteSet(S), S # {}
    PROVE  \E n \in S : \A m \in S : m <= n
<1> DEFINE Top(A) == \E n \in A : \A m \in A : m <= n
<1> DEFINE bad == {A \in SUBSET S : A # {} /\ ~Top(A)}
<1> DEFINE R == StrictSubsetOrdering(S)
<1>1. SUFFICES ASSUME bad # {} PROVE FALSE
  OBVIOUS
<1>2. IsWellFoundedOn(R, FiniteSubsetsOf(S))
  BY FS_StrictSubsetOrderingWellFounded
<1>3. bad \subseteq FiniteSubsetsOf(S)
  BY FS_Subset DEF FiniteSubsetsOf
<1>4. \A A, B \in SUBSET S : A \subseteq B /\ A # B => <<A, B>> \in R
  BY DEF StrictSubsetOrdering
<1>5. \A A \in bad : A \subseteq S /\ A # {} /\ ~Top(A)
  OBVIOUS
<1>6. \A A \in SUBSET S : A # {} /\ A \notin bad => Top(A)
  OBVIOUS
<1> HIDE DEF R, bad
<1>7. PICK A \in bad : \A B \in bad : <<B, A>> \notin R
  BY <1>1, <1>2, <1>3, WFMin
<1>8. PICK x \in A : TRUE
  BY <1>5
<1>9. A \ {x} = {} \/ Top(A \ {x})
  <2> DEFINE B == A \ {x}
  <2>1. B \in SUBSET S /\ A \in SUBSET S /\ B \subseteq A /\ B # A
    BY <1>5, <1>8
  <2> HIDE DEF B
  <2>2. B \notin bad
    BY <1>4, <1>7, <2>1
  <2>3. B = {} \/ Top(B)
    BY <1>6, <2>1, <2>2
  <2>4. QED
    BY <2>3 DEF B
<1>10. A \subseteq Nat
  BY <1>5
<1>11. CASE A \ {x} = {}
  BY <1>5, <1>8, <1>10, <1>11
<1>12. CASE Top(A \ {x})
  <2>1. PICK y \in A \ {x} : \A z \in A \ {x} : z <= y
    BY <1>12
  <2>2. CASE x <= y
    BY <1>5, <1>8, <2>1, <2>2
  <2>3. CASE y < x
    BY <1>5, <1>8, <1>10, <2>1, <2>3
  <2>4. QED
    BY <1>8, <1>10, <2>1, <2>2, <2>3
<1>13. QED
  BY <1>9, <1>11, <1>12

LEMMA NewestIs ==
    ASSUME NEW S, S \subseteq Nat, IsFiniteSet(S)
    PROVE  /\ S = {} => Newest(S) = 0
           /\ S # {} => Newest(S) \in S /\ \A n \in S : n <= Newest(S)
<1>1. CASE S = {}
  BY <1>1 DEF Newest
<1>2. CASE S # {}
  <2>1. \E n \in S : \A m \in S : m <= n
    BY <1>2, LargestIn
  <2>2. QED
    BY <1>2, <2>1 DEF Newest
<1>3. QED
  BY <1>1, <1>2

(* The newest lease of a task, if it has one. *)
LEMMA LatestIs ==
    ASSUME leases \in Seq(Lease), NEW t
    PROVE  /\ LeasesOf(t) \subseteq DOMAIN leases
           /\ LeasesOf(t) = {} => Latest(t) = 0
           /\ LeasesOf(t) # {} => /\ Latest(t) \in LeasesOf(t)
                                  /\ \A i \in LeasesOf(t) : i <= Latest(t)
<1>1. DOMAIN leases = 1 .. Len(leases) /\ Len(leases) \in Nat
  OBVIOUS
<1>2. LeasesOf(t) \subseteq 1 .. Len(leases)
  BY <1>1 DEF LeasesOf
<1>3. IsFiniteSet(1 .. Len(leases))
  BY <1>1, FS_Interval
<1>4. IsFiniteSet(LeasesOf(t)) /\ LeasesOf(t) \subseteq Nat
  BY <1>2, <1>3, FS_Subset
<1>5. QED
  BY <1>1, <1>2, <1>4, NewestIs DEF Latest

(* A pull request chosen among some is one of them, or none.               *)
LEMMA BestIs ==
    ASSUME NEW S \in SUBSET Pulls, NEW v
    PROVE  Best(S, v) \in Pulls \cup {NoPull}
<1> DEFINE of(state) == {p \in S : v[p].state = state}
<1>1. IsFiniteSet(Pulls) /\ Pulls \subseteq Nat
  BY BridgeAssumption
<1>2. \A T \in SUBSET Pulls : Newest(T) \in Pulls \cup {NoPull}
  <2>1. ASSUME NEW T \in SUBSET Pulls PROVE Newest(T) \in Pulls \cup {NoPull}
    <3>1. IsFiniteSet(T) /\ T \subseteq Nat
      BY <1>1, FS_Subset
    <3>2. QED
      BY <3>1, NewestIs DEF NoPull
  <2>2. QED
    BY <2>1
<1>3. of("open") \in SUBSET Pulls /\ of("merged") \in SUBSET Pulls
  OBVIOUS
<1>4. Best(S, v) \in {Newest(of("open")), Newest(of("merged")), Newest(S)}
  BY DEF Best
<1>5. QED
  BY <1>2, <1>3, <1>4

LEMMA FoundIs ==
    ASSUME NEW i, NEW v
    PROVE  Found(i, v) \in Pulls \cup {NoPull}
<1> DEFINE usable == {p \in Pulls : /\ v[p].state # "none"
                                    /\ Counts(p, i)
                                    /\ p = leases[i].pull \/ ~Taken(p, i)}
<1> DEFINE branch == {p \in usable : opened[p].branch = leases[i].task}
<1> DEFINE text == {p \in usable : leases[i].task \in opened[p].text}
<1>1. branch \in SUBSET Pulls /\ text \in SUBSET Pulls
  OBVIOUS
<1>2. Found(i, v) = IF branch # {} THEN Best(branch, v) ELSE Best(text, v)
  BY DEF Found
<1> HIDE DEF branch, text
<1>3. QED
  BY <1>1, <1>2, BestIs

-----------------------------------------------------------------------------
(* Requests. *)

(* A request goes on about its lease, as what it was, with what it saw. *)
SameErrand(r, s) ==
    s.lease = r.lease /\ s.then = r.then /\ s.who = r.who /\ s.task = r.task

LEMMA AskedFits ==
    ASSUME TablesOK, NEW r, Fit(r), r.lease \in DOMAIN leases, NEW s \in Asked(r)
    PROVE  Fit(s)
<1> DEFINE answers == {<<Tracked(r.lease, v), v>> : v \in Views}
<1>1. PICK a \in answers : a[1] # NoPull /\ s = [r EXCEPT !.pull = a[1], !.seen = a[2][a[1]]]
  BY DEF Asked
<1>2. PICK v \in Views : a = <<Tracked(r.lease, v), v>>
  BY <1>1
<1> DEFINE p == Tracked(r.lease, v)
<1>3. p # NoPull /\ s = [r EXCEPT !.pull = p, !.seen = v[p]]
  BY <1>1, <1>2
<1>4. leases[r.lease] \in Lease
  BY DEF TablesOK
<1>5. p \in Pulls
  <2>1. leases[r.lease].pull \in Pulls \cup {NoPull}
    BY <1>4 DEF Lease
  <2>2. Tracked(r.lease, v) \in {leases[r.lease].pull, Found(r.lease, v)}
    BY DEF Tracked
  <2>3. QED
    BY <1>3, <2>1, <2>2, FoundIs
<1> HIDE DEF p
<1>6. v[p] \in Seen
  BY <1>5 DEF Views, TablesOK
<1>7. QED
  BY <1>3, <1>5, <1>6 DEF Fit, Request

LEMMA StatusFits ==
    ASSUME TablesOK, NEW r, Fit(r), r.lease \in DOMAIN leases, NEW s \in Status(r)
    PROVE  Fit(s)
<1> DEFINE q == [r EXCEPT !.then = "done"]
<1>1. Fit(q) /\ q.lease = r.lease
  BY DEF Fit, Request
<1>2. s \in Asked(q)
  BY DEF Status
<1> HIDE DEF q
<1>3. QED
  BY <1>1, <1>2, AskedFits

LEMMA ActsFit ==
    ASSUME TablesOK, NEW r, Fit(r), r.lease \in DOMAIN leases, NEW s \in Acts(r)
    PROVE  Fit(s)
<1>1. CASE r.then = "release"
  BY <1>1 DEF Acts
<1>2. CASE s \in Status(r)
  BY <1>2, StatusFits
<1>3. CASE \E p \in Pulls : \E seen \in lately[p] :
               s = [r EXCEPT !.then = "status", !.pull = p, !.seen = seen]
  <2>1. PICK p \in Pulls : \E seen \in lately[p] :
            s = [r EXCEPT !.then = "status", !.pull = p, !.seen = seen]
    BY <1>3
  <2>2. PICK seen \in lately[p] :
            s = [r EXCEPT !.then = "status", !.pull = p, !.seen = seen]
    BY <2>1
  <2>3. seen \in Seen
    BY DEF TablesOK
  <2>4. QED
    BY <2>2, <2>3 DEF Fit, Request
<1>4. CASE r.then # "release"
  <2> DEFINE handed == {p \in Pulls : /\ Counts(p, r.lease)
                                      /\ p = leases[r.lease].pull \/ ~Taken(p, r.lease)}
  <2> DEFINE handedIn(p) == {[r EXCEPT !.then = "status", !.pull = p, !.seen = seen] :
                                 seen \in lately[p] \ {Unseen}}
  <2> DEFINE answers == {handedIn(p) : p \in handed}
  <2>1. Acts(r) = Status(r) \cup UNION answers
    BY <1>4, Zenon DEF Acts
  <2>2. \A h \in answers : \E p \in Pulls : h = handedIn(p)
    OBVIOUS
  <2> HIDE DEF answers, handed
  <2>3. s \in Status(r) \/ \E h \in answers : s \in h
    BY <2>1
  <2>4. s \in Status(r) \/ \E p \in Pulls : s \in handedIn(p)
    BY <2>2, <2>3
  <2>5. QED
    BY <2>4, <1>2, <1>3
<1>5. QED
  BY <1>1, <1>4

LEMMA GoesOnFits ==
    TablesOK => \A r \in Request : Fit(r) /\ r.lease \in DOMAIN leases =>
        \A s \in GoesOn(r) : Fit(s)
<1> SUFFICES ASSUME TablesOK, NEW r \in Request, Fit(r), r.lease \in DOMAIN leases,
                    NEW s \in GoesOn(r)
             PROVE  Fit(s)
  OBVIOUS
<1> DEFINE next == [r EXCEPT !.pull = NoPull, !.seen = Unseen,
                             !.lease = IF r.then = "take" THEN 0 ELSE @]
<1>1. Unseen \in Seen
  BY DEF Unseen, Seen, Time, Never
<1>2. Fit(next)
  BY <1>1 DEF Fit, Request, NoPull
<1>3. r.then # "take" => next.lease \in DOMAIN leases
  BY DEF Request
<1>4. r.then # "done" /\ (\/ s = next /\ r.then = "take"
                          \/ r.then # "take" /\ s \in Status(next)
                          \/ r.then # "take" /\ s \in Acts(next))
  BY DEF GoesOn
<1> HIDE DEF next
<1>5. QED
  BY <1>2, <1>3, <1>4, StatusFits, ActsFit

LEMMA GoesOnFitsNext ==
    (TablesOK => \A r \in Request : Fit(r) /\ r.lease \in DOMAIN leases =>
        \A s \in GoesOn(r) : Fit(s))'
BY GoesOnFits, PTL

(* A request stays fit while no lease is dropped. *)
LEMMA FitStays ==
    ASSUME NEW r, Fit(r), DOMAIN leases \subseteq DOMAIN leases'
    PROVE  Fit(r)'
BY DEF Fit

-----------------------------------------------------------------------------
(* A row after what was seen of a pull request. *)

LEMMA InStepIs ==
    ASSUME NEW l \in Lease, NEW p \in Pulls, NEW seen \in Seen, ~Settled(l)
    PROVE  LET row == InStep(l, p, seen)
           IN  /\ row \in Lease
               /\ row.task = l.task /\ row.holder = l.holder /\ row.released = l.released
               /\ row = l \/ row.pull = p
               /\ row.merged => row.pull = p
<1>1. ~l.merged /\ Day \in Nat \ {0} /\ l.ends \in Nat
  BY BridgeAssumption DEF Settled, Lease
<1>2. CASE seen.state = "merged"
  BY <1>1, <1>2 DEF InStep, Lease
<1>3. CASE seen.state = "open"
  BY <1>1, <1>3 DEF InStep, Lease
<1>4. CASE /\ seen.state = "closed"
           /\ l.pull = NoPull \/ (l.pull = p /\ l.pullState = "open")
  <2> DEFINE ends == LaterOf(l.ends, seen.closed + Day)
  <2>1. seen.closed \in Nat \cup {-1}
    BY DEF Seen, Time, Never
  <2>2. ends \in Nat
    BY <1>1, <2>1 DEF LaterOf
  <2>3. InStep(l, p, seen) = [l EXCEPT !.pull = p, !.pullState = "closed", !.ends = ends]
    BY <1>4 DEF InStep
  <2> HIDE DEF ends
  <2>4. QED
    BY <1>1, <2>2, <2>3 DEF Lease
<1>5. CASE /\ seen.state \notin {"merged", "open"}
           /\ ~(/\ seen.state = "closed"
                /\ l.pull = NoPull \/ (l.pull = p /\ l.pullState = "open"))
  <2>1. InStep(l, p, seen) = l
    BY <1>5 DEF InStep
  <2>2. QED
    BY <1>1, <2>1
<1>6. QED
  BY <1>2, <1>3, <1>4, <1>5

LEMMA RecordedIs ==
    ASSUME leases \in Seq(Lease), NEW i \in DOMAIN leases,
           NEW p \in Pulls, NEW seen \in Seen
    PROVE  LET l == leases[i]
               row == Recorded(i, p, seen)
           IN  /\ row \in Lease
               /\ row.task = l.task /\ row.holder = l.holder /\ row.released = l.released
               /\ Settled(l) => row = l
               /\ row.pull = l.pull \/ (row.pull = p /\ ~Taken(p, i))
               /\ row.merged => l.merged \/ row.pull = p
<1> DEFINE l == leases[i]
<1>1. l \in Lease
  OBVIOUS
<1>2. CASE Settled(l) \/ (l.pull # p /\ Taken(p, i))
  <2>1. Recorded(i, p, seen) = l
    BY <1>2 DEF Recorded
  <2>2. QED
    BY <1>1, <2>1
<1>3. CASE ~(Settled(l) \/ (l.pull # p /\ Taken(p, i)))
  <2>1. Recorded(i, p, seen) = InStep(l, p, seen)
    BY <1>3 DEF Recorded
  <2>2. QED
    BY <1>1, <1>3, <2>1, InStepIs
<1>4. QED
  BY <1>2, <1>3

-----------------------------------------------------------------------------
(* The board. *)

(* A task's entry turns on its newest lease alone. *)
EntryOf(l, now) ==
    [holder |-> IF Active(l, now) THEN l.holder ELSE Nobody, settled |-> l.merged]

LEMMA EntryIs ==
    ASSUME leases \in Seq(Lease), NEW t
    PROVE  /\ LeasesOf(t) = {} => Entry(t) = Board!Open
           /\ LeasesOf(t) # {} => /\ Latest(t) \in DOMAIN leases
                                  /\ Entry(t) = EntryOf(leases[Latest(t)], clock)
<1>1. DOMAIN leases = 1 .. Len(leases)
  OBVIOUS
<1>2. CASE LeasesOf(t) = {}
  BY <1>2, LatestIs DEF Entry, Board!Open
<1>3. CASE LeasesOf(t) # {}
  <2>1. Latest(t) \in DOMAIN leases /\ Latest(t) # 0
    BY <1>1, <1>3, LatestIs
  <2>2. QED
    BY <1>3, <2>1 DEF Entry, EntryOf
<1>4. QED
  BY <1>2, <1>3

LEMMA EntryIsNext ==
    (leases \in Seq(Lease) => \A t :
        /\ LeasesOf(t) = {} => Entry(t) = Board!Open
        /\ LeasesOf(t) # {} => /\ Latest(t) \in DOMAIN leases
                               /\ Entry(t) = EntryOf(leases[Latest(t)], clock))'
<1>1. leases \in Seq(Lease) => \A t :
        /\ LeasesOf(t) = {} => Entry(t) = Board!Open
        /\ LeasesOf(t) # {} => /\ Latest(t) \in DOMAIN leases
                               /\ Entry(t) = EntryOf(leases[Latest(t)], clock)
  BY EntryIs
<1>2. QED
  BY <1>1, PTL

LEMMA LatestIsNext ==
    (leases \in Seq(Lease) => \A t :
        /\ LeasesOf(t) \subseteq DOMAIN leases
        /\ LeasesOf(t) # {} => /\ Latest(t) \in LeasesOf(t)
                               /\ \A i \in LeasesOf(t) : i <= Latest(t))'
<1>1. leases \in Seq(Lease) => \A t :
        /\ LeasesOf(t) \subseteq DOMAIN leases
        /\ LeasesOf(t) # {} => /\ Latest(t) \in LeasesOf(t)
                               /\ \A i \in LeasesOf(t) : i <= Latest(t)
  BY LatestIs
<1>2. QED
  BY <1>1, PTL

(* How an entry may change, and what a step keeps. *)
Turns(t) == Entry(t)' \in Board!Entries /\ Board!Moves(Entry(t), Entry(t)')

Kept == GoodBridge' /\ \A t \in Tasks : Turns(t)

(* While the rows keep their tasks, an entry turns as its row does.        *)
LEMMA RowsTurn ==
    ASSUME leases \in Seq(Lease), leases' \in Seq(Lease),
           DOMAIN leases' = DOMAIN leases,
           \A i \in DOMAIN leases :
               /\ leases'[i].task = leases[i].task
               /\ Board!Moves(EntryOf(leases[i], clock), EntryOf(leases'[i], clock')),
           NEW t \in Tasks
    PROVE  Turns(t)
<1>1. LeasesOf(t)' = LeasesOf(t)
  BY DEF LeasesOf
<1>2. Latest(t)' = Latest(t)
  BY <1>1 DEF Latest, Newest
<1>3. CASE LeasesOf(t) = {}
  <2>1. Entry(t) = Board!Open /\ Entry(t)' = Board!Open
    BY <1>1, <1>3, EntryIs, EntryIsNext
  <2>2. QED
    BY <2>1 DEF Turns, Board!Moves, Board!Open, Board!Entries
<1>4. CASE LeasesOf(t) # {}
  <2> DEFINE i == Latest(t)
  <2>1. /\ i \in DOMAIN leases
        /\ Entry(t) = EntryOf(leases[i], clock) /\ Entry(t)' = EntryOf(leases'[i], clock')
    BY <1>1, <1>2, <1>4, EntryIs, EntryIsNext
  <2>2. leases'[i] \in Lease
    BY <2>1
  <2>3. EntryOf(leases'[i], clock') \in Board!Entries
    BY <2>2 DEF EntryOf, Lease, Board!Entries
  <2> HIDE DEF i
  <2>4. QED
    BY <2>1, <2>3 DEF Turns
<1>5. QED
  BY <1>3, <1>4

LEMMA SameRow ==
    ASSUME NEW l, NEW now
    PROVE  Board!Moves(EntryOf(l, now), EntryOf(l, now))
BY DEF Board!Moves, EntryOf

-----------------------------------------------------------------------------
(* A step that leaves the rows and the clock alone. *)
LEMMA BridgeUnchangedKept ==
    ASSUME GoodBridge, UNCHANGED <<clock, leases, merges>>,
           TablesOK', \A r \in requests' : Fit(r)
    PROVE  Kept
<1>1. MergedOnce'
  BY DEF GoodBridge, MergedOnce
<1>2. \A r \in requests' : Fit(r)'
  BY FitStays
<1>3. \A t \in Tasks : Turns(t)
  BY RowsTurn, SameRow DEF GoodBridge, TablesOK
<1>4. QED
  BY <1>1, <1>2, <1>3 DEF Kept, GoodBridge

(* Requests that begin fit. *)
LEMMA NewRequestFits ==
    ASSUME TablesOK, NEW i \in DOMAIN leases,
           NEW then \in {"done", "status", "submit", "release", "take"}
    PROVE  /\ then # "take" => Fit(NewRequest(then, i))
           /\ NewRequest(then, i).lease = i
           /\ \A m \in Members, t \in Tasks :
                 Fit(NewClaim(m, t, i)) /\ NewClaim(m, t, i).lease = i
<1> DEFINE request == NewRequest(then, i)
<1>1. i \in Nat /\ clock \in Nat
  BY BridgeAssumption DEF TablesOK
<1>2. Unseen \in Seen
  BY DEF Unseen, Seen, Time, Never
<1>3. request \in Request /\ request.lease = i /\ request.then = then
  BY <1>1, <1>2 DEF NewRequest, Request
<1>4. ASSUME NEW m \in Members, NEW t \in Tasks
      PROVE  Fit(NewClaim(m, t, i)) /\ NewClaim(m, t, i).lease = i
  BY <1>1, <1>2 DEF NewClaim, NewRequest, Request, Fit
<1>5. QED
  BY <1>3, <1>4 DEF Fit

LEMMA BeginKept ==
    ASSUME GoodBridge, NEW rs, Begin(rs), \A r \in rs : Fit(r)
    PROVE  Kept
<1>1. UNCHANGED <<clock, github, opened, lately, leases, merges>>
  BY DEF Begin, outside, bridge
<1>2. \A r \in requests' : Fit(r)
  BY DEF Begin, GoodBridge
<1>3. TablesOK'
  BY <1>1 DEF GoodBridge, TablesOK
<1>4. QED
  BY <1>1, <1>2, <1>3, BridgeUnchangedKept

LEMMA LookKept ==
    ASSUME GoodBridge, NEW i \in DOMAIN leases, Look(i)
    PROVE  Kept
<1>1. Fit(NewRequest("done", i)) /\ NewRequest("done", i).lease = i
  BY NewRequestFits DEF GoodBridge
<1>2. \A r \in Asked(NewRequest("done", i)) : Fit(r)
  BY <1>1, AskedFits DEF GoodBridge
<1>3. QED
  BY <1>2, BeginKept DEF Look

LEMMA LatestInDomain ==
    ASSUME TablesOK, NEW t, Latest(t) # 0
    PROVE  Latest(t) \in DOMAIN leases
BY LatestIs DEF TablesOK

LEMMA AskClaimKept ==
    ASSUME GoodBridge, NEW m \in Members, NEW t \in Tasks, AskClaim(m, t)
    PROVE  Kept
<1> DEFINE r == NewClaim(m, t, Latest(t))
<1>1. Latest(t) \in DOMAIN leases
  BY LatestInDomain DEF AskClaim, GoodBridge
<1>2. Fit(r) /\ r.lease = Latest(t)
  BY <1>1, NewRequestFits DEF GoodBridge
<1>3. Begin(Asked(r))
  BY DEF AskClaim
<1> HIDE DEF r
<1>4. \A s \in Asked(r) : Fit(s)
  BY <1>1, <1>2, AskedFits DEF GoodBridge
<1>5. QED
  BY <1>3, <1>4, BeginKept

LEMMA AskHeldKept ==
    ASSUME GoodBridge, NEW m \in Members, NEW t \in Tasks,
           NEW then \in {"release", "submit"}, AskHeld(m, t, then)
    PROVE  Kept
<1> DEFINE r == NewRequest(then, Latest(t))
<1>1. Latest(t) \in DOMAIN leases
  BY LatestInDomain DEF AskHeld, GoodBridge
<1>2. Fit(r) /\ r.lease = Latest(t)
  BY <1>1, NewRequestFits DEF GoodBridge
<1>3. Begin(Acts(r)) \/ Begin(Asked(r))
  BY DEF AskHeld
<1> HIDE DEF r
<1>4. (\A s \in Asked(r) : Fit(s)) /\ (\A s \in Acts(r) : Fit(s))
  BY <1>1, <1>2, AskedFits, ActsFit DEF GoodBridge
<1>5. QED
  BY <1>3, <1>4, BeginKept

-----------------------------------------------------------------------------
(* The transactions. *)

(* One row written over, by what it was seen to be or as it was let go.    *)
LEMMA RowKept ==
    ASSUME GoodBridge, UNCHANGED <<clock, github, opened, lately>>,
           NEW i \in DOMAIN leases, NEW row \in Lease, NEW p,
           leases' = [leases EXCEPT ![i] = row],
           merges' = IF row.merged THEN merges \cup {<<row.task, row.pull>>} ELSE merges,
           row.task = leases[i].task,
           leases[i].merged => row.merged /\ row.pull = leases[i].pull,
           row.pull = leases[i].pull \/ (row.pull = p /\ ~Taken(p, i)),
           row.merged => leases[i].merged \/ (row.pull = p /\ p \in Pulls),
           Board!Moves(EntryOf(leases[i], clock), EntryOf(row, clock)),
           \A r \in requests' : Fit(r)'
    PROVE  Kept
<1>1. leases \in Seq(Lease)
  BY DEF GoodBridge, TablesOK
<1>2. /\ leases' \in Seq(Lease) /\ DOMAIN leases' = DOMAIN leases
      /\ leases'[i] = row
      /\ \A j \in DOMAIN leases : j # i => leases'[j] = leases[j]
  BY <1>1
<1>3. \A j \in DOMAIN leases : leases[j].merged => <<leases[j].task, leases[j].pull>> \in merges
  BY DEF GoodBridge, MergedOnce
<1>4. merges' \subseteq Tasks \X Pulls
  <2>1. row.merged => row.task \in Tasks /\ row.pull \in Pulls
    <3>1. CASE row.merged /\ leases[i].merged
      BY <3>1, <1>3 DEF GoodBridge, TablesOK
    <3>2. CASE row.merged /\ ~leases[i].merged
      BY <3>2 DEF Lease
    <3>3. QED
      BY <3>1, <3>2
  <2>2. QED
    BY <2>1 DEF GoodBridge, TablesOK
<1>5. TablesOK'
  BY <1>2, <1>4 DEF GoodBridge, TablesOK
<1>6. MergedOnce'
  <2>1. ASSUME NEW j \in DOMAIN leases', NEW k \in DOMAIN leases',
               leases'[j].pull = leases'[k].pull, j # k
        PROVE  leases'[j].pull = NoPull
    <3>1. \A a, b \in DOMAIN leases :
             leases[a].pull = leases[b].pull /\ a # b => leases[a].pull = NoPull
      BY DEF GoodBridge, MergedOnce
    <3>2. \A a \in DOMAIN leases \ {i} : ~Taken(p, i) => leases[a].pull # p
      BY DEF Taken
    <3>3. QED
      BY <1>2, <2>1, <3>1, <3>2
  <2>2. merges' = {<<leases'[j].task, leases'[j].pull>> :
                       j \in {k \in DOMAIN leases' : leases'[k].merged}}
    <3> DEFINE pair(j) == <<leases[j].task, leases[j].pull>>
    <3> DEFINE next(j) == <<leases'[j].task, leases'[j].pull>>
    <3>1. merges = {pair(j) : j \in {k \in DOMAIN leases : leases[k].merged}}
      BY DEF GoodBridge, MergedOnce
    <3>2. \A j \in DOMAIN leases : leases[j].merged =>
              leases'[j].merged /\ next(j) = pair(j)
      BY <1>2
    <3>3. \A j \in DOMAIN leases : leases'[j].merged =>
              (leases[j].merged /\ next(j) = pair(j)) \/ (j = i /\ row.merged)
      BY <1>2
    <3>4. next(i) = <<row.task, row.pull>>
      BY <1>2
    <3>5. row.merged <=> leases'[i].merged
      BY <1>2
    <3>6. ASSUME NEW x \in merges' PROVE \E j \in DOMAIN leases' : leases'[j].merged /\ x = next(j)
      <4>1. CASE x \in merges
        BY <1>2, <3>1, <3>2, <4>1
      <4>2. CASE row.merged /\ x = <<row.task, row.pull>>
        BY <1>2, <3>4, <3>5, <4>2
      <4>3. QED
        BY <4>1, <4>2, <3>6
    <3>7. ASSUME NEW j \in DOMAIN leases', leases'[j].merged PROVE next(j) \in merges'
      BY <1>2, <3>1, <3>3, <3>4, <3>7
    <3>8. QED
      BY <3>6, <3>7
  <2>3. QED
    BY <2>1, <2>2 DEF MergedOnce
<1>7. ASSUME NEW t \in Tasks PROVE Turns(t)
  <2>1. \A j \in DOMAIN leases :
            /\ leases'[j].task = leases[j].task
            /\ Board!Moves(EntryOf(leases[j], clock), EntryOf(leases'[j], clock'))
    BY <1>2, SameRow
  <2>2. QED
    BY <1>1, <1>2, <2>1, RowsTurn
<1>8. QED
  BY <1>5, <1>6, <1>7 DEF Kept, GoodBridge

(* What a record does to a row's entry. *)
LEMMA RecordedTurns ==
    ASSUME NEW l \in Lease, NEW row \in Lease, NEW now,
           row.holder = l.holder, row.released = l.released, Settled(l) => row = l
    PROVE  Board!Moves(EntryOf(l, now), EntryOf(row, now))
<1>1. CASE Settled(l)
  BY <1>1, SameRow
<1>2. CASE ~Settled(l) /\ Active(l, now)
  BY <1>2 DEF Settled, EntryOf, Board!Moves, Lease
<1>3. CASE ~Settled(l) /\ ~Active(l, now)
  BY <1>3 DEF Settled, EntryOf, Board!Moves, Board!Open, Lease
<1>4. QED
  BY <1>1, <1>2, <1>3

LEMMA RecordKept ==
    ASSUME GoodBridge, NEW r \in requests, Record(r)
    PROVE  Kept
<1> DEFINE i == r.lease
<1> DEFINE p == r.pull
<1> DEFINE row == Recorded(i, p, r.seen)
<1>1. UNCHANGED <<clock, github, opened, lately>>
  BY DEF Record, outside
<1>2. Fit(r) /\ r.pull # NoPull
  BY DEF GoodBridge, Record
<1>3. i \in DOMAIN leases /\ p \in Pulls /\ r.seen \in Seen
  BY <1>2 DEF Fit, Request
<1>4. leases \in Seq(Lease) /\ leases[i] \in Lease
  BY <1>3 DEF GoodBridge, TablesOK
<1>5. /\ row \in Lease
      /\ row.task = leases[i].task /\ row.holder = leases[i].holder
      /\ row.released = leases[i].released
      /\ Settled(leases[i]) => row = leases[i]
      /\ row.pull = leases[i].pull \/ (row.pull = p /\ ~Taken(p, i))
      /\ row.merged => leases[i].merged \/ row.pull = p
  BY <1>3, <1>4, RecordedIs
<1>6. /\ leases' = [leases EXCEPT ![i] = row]
      /\ merges' = IF row.merged THEN merges \cup {<<row.task, row.pull>>} ELSE merges
  BY DEF Record
<1>7. \A s \in requests' : s \in requests \/ s \in GoesOn(r)'
  BY DEF Record, Ends
<1> HIDE DEF row
<1>8. DOMAIN leases' = DOMAIN leases /\ leases' \in Seq(Lease)
  BY <1>3, <1>4, <1>5, <1>6
<1>9. leases[i].merged => row.merged /\ row.pull = leases[i].pull
  BY <1>5 DEF Settled
<1>10. Board!Moves(EntryOf(leases[i], clock), EntryOf(row, clock))
  BY <1>4, <1>5, RecordedTurns
<1>11. TablesOK'
  <2>1. merges' \subseteq Tasks \X Pulls
    <3>1. leases[i].merged => <<leases[i].task, leases[i].pull>> \in merges
      BY <1>3 DEF GoodBridge, MergedOnce
    <3>2. row.merged => <<row.task, row.pull>> \in merges \/ (row.task \in Tasks /\ row.pull \in Pulls)
      BY <1>3, <1>5, <1>9, <3>1 DEF Lease
    <3>3. QED
      BY <1>6, <3>2 DEF GoodBridge, TablesOK
  <2>2. QED
    BY <1>1, <1>8, <2>1 DEF GoodBridge, TablesOK
<1>12. \A s \in requests' : Fit(s)'
  <2>1. \A s \in requests : Fit(s)'
    BY <1>8, FitStays DEF GoodBridge
  <2>2. r \in Request /\ Fit(r)' /\ r.lease \in DOMAIN leases'
    BY <1>3, <1>8, <2>1 DEF Fit
  <2>3. \A s \in GoesOn(r)' : Fit(s)'
    BY <1>11, <2>2, GoesOnFitsNext
  <2>4. QED
    BY <1>7, <2>1, <2>3
<1>13. QED
  BY <1>1, <1>3, <1>5, <1>6, <1>9, <1>10, <1>12, RowKept

LEMMA ReleaseKept ==
    ASSUME GoodBridge, NEW r \in requests, Release(r)
    PROVE  Kept
<1> DEFINE i == r.lease
<1> DEFINE l == leases[i]
<1> DEFINE released == IF l.released = Never THEN clock ELSE l.released
<1> DEFINE row == [l EXCEPT !.released = released]
<1>1. UNCHANGED <<clock, github, opened, lately, merges>>
  BY DEF Release, outside
<1>2. Fit(r) /\ r.then = "release"
  BY DEF GoodBridge, Release
<1>3. i \in DOMAIN leases
  BY <1>2 DEF Fit
<1>4. l \in Lease /\ leases \in Seq(Lease)
  BY <1>3 DEF GoodBridge, TablesOK
<1>5. clock \in Nat
  BY BridgeAssumption DEF GoodBridge, TablesOK
<1>6. /\ row \in Lease /\ row.task = l.task /\ row.merged = l.merged
      /\ row.pull = l.pull /\ row.holder = l.holder /\ row.released # Never
  <2>1. released \in Nat /\ released # Never
    BY <1>4, <1>5 DEF Lease, Time, Never
  <2> HIDE DEF released
  <2>2. QED
    BY <1>4, <2>1 DEF Lease, Time
<1>7. leases' = [leases EXCEPT ![i] = row]
  BY <1>3, <1>4 DEF Release
<1> HIDE DEF row
<1>8. l.merged => <<l.task, l.pull>> \in merges
  BY <1>3 DEF GoodBridge, MergedOnce
<1>9. merges' = IF row.merged THEN merges \cup {<<row.task, row.pull>>} ELSE merges
  BY <1>1, <1>6, <1>8
<1>10. Board!Moves(EntryOf(l, clock), EntryOf(row, clock))
  BY <1>6 DEF Board!Moves, EntryOf, Active
<1>11. \A s \in requests' : Fit(s)'
  <2>1. DOMAIN leases' = DOMAIN leases /\ requests' \subseteq requests
    BY <1>4, <1>7 DEF Release, Ends
  <2>2. QED
    BY <2>1, FitStays DEF GoodBridge
<1>12. QED
  BY <1>1, <1>3, <1>6, <1>7, <1>9, <1>10, <1>11, RowKept

(* A lease is added: what the board shows of other tasks stays. *)
LEMMA AppendKept ==
    ASSUME GoodBridge, NEW m \in Members, NEW t \in Tasks,
           UNCHANGED <<clock, github, opened, lately, merges>>,
           leases' = Append(leases, NewLease(m, t)), requests' \subseteq requests,
           LeasesOf(t) # {} => ~Active(leases[Latest(t)], clock) /\ ~leases[Latest(t)].merged
    PROVE  Kept
<1> DEFINE n == Len(leases) + 1
<1> DEFINE row == NewLease(m, t)
<1>1. leases \in Seq(Lease) /\ clock \in Nat
  BY BridgeAssumption DEF GoodBridge, TablesOK
<1>2. /\ row \in Lease /\ row.task = t /\ row.holder = m /\ row.pull = NoPull
      /\ ~row.merged /\ Active(row, clock)
  BY <1>1, BridgeAssumption DEF NewLease, Lease, Time, Never, Active, PullOpen
<1> HIDE DEF row
<1>3. /\ leases' \in Seq(Lease)
      /\ DOMAIN leases = 1 .. Len(leases) /\ DOMAIN leases' = 1 .. n
      /\ n \in Nat /\ n \notin DOMAIN leases
      /\ leases'[n] = row /\ \A i \in DOMAIN leases : leases'[i] = leases[i]
  BY <1>1, <1>2 DEF row
<1>4. DOMAIN leases' = DOMAIN leases \cup {n}
  BY <1>1, <1>3
<1> HIDE DEF n
<1>5. TablesOK'
  BY <1>3 DEF GoodBridge, TablesOK
<1>6. MergedOnce'
  <2>1. \A i, j \in DOMAIN leases' :
           leases'[i].pull = leases'[j].pull /\ i # j => leases'[i].pull = NoPull
    BY <1>2, <1>3, <1>4 DEF GoodBridge, MergedOnce
  <2>2. {i \in DOMAIN leases' : leases'[i].merged} = {i \in DOMAIN leases : leases[i].merged}
    BY <1>2, <1>3, <1>4
  <2>3. {<<leases'[i].task, leases'[i].pull>> : i \in {j \in DOMAIN leases : leases[j].merged}}
        = {<<leases[i].task, leases[i].pull>> : i \in {j \in DOMAIN leases : leases[j].merged}}
    BY <1>3
  <2>4. QED
    BY <2>1, <2>2, <2>3 DEF GoodBridge, MergedOnce
<1>7. \A r \in requests' : Fit(r)'
  BY <1>4, FitStays DEF GoodBridge
<1>8. Turns(t)
  <2>1. n \in LeasesOf(t)'
    BY <1>2, <1>3, <1>4 DEF LeasesOf
  <2>2. Latest(t)' \in LeasesOf(t)' /\ n <= Latest(t)' /\ LeasesOf(t)' \subseteq DOMAIN leases'
    BY <1>3, <2>1, LatestIsNext
  <2>3. Latest(t)' = n
    BY <1>3, <2>2
  <2>4. Entry(t)' = EntryOf(row, clock)
    BY <1>3, <2>1, <2>3, EntryIsNext
  <2>5. Entry(t) = Board!Open
    <3>1. CASE LeasesOf(t) = {}
      BY <1>1, <3>1, EntryIs
    <3>2. CASE LeasesOf(t) # {}
      <4>1. /\ Latest(t) \in DOMAIN leases
            /\ Entry(t) = EntryOf(leases[Latest(t)], clock)
        BY <1>1, <3>2, EntryIs
      <4>2. leases[Latest(t)] \in Lease
        BY <1>1, <4>1
      <4>3. QED
        BY <3>2, <4>1, <4>2 DEF EntryOf, Board!Open, Lease
    <3>3. QED
      BY <3>1, <3>2
  <2>6. Entry(t)' = [holder |-> m, settled |-> FALSE]
    BY <1>2, <2>4 DEF EntryOf, Lease
  <2>7. QED
    BY <2>5, <2>6 DEF Turns, Board!Moves, Board!Open, Board!Entries
<1>9. ASSUME NEW u \in Tasks, u # t PROVE Turns(u)
  <2>1. LeasesOf(u)' = LeasesOf(u)
    BY <1>2, <1>3, <1>4, <1>9 DEF LeasesOf
  <2>2. Latest(u)' = Latest(u)
    BY <2>1 DEF Latest, Newest
  <2>3. CASE LeasesOf(u) = {}
    <3>1. Entry(u) = Board!Open /\ Entry(u)' = Board!Open
      BY <1>1, <1>3, <2>1, <2>3, EntryIs, EntryIsNext
    <3>2. QED
      BY <3>1 DEF Turns, Board!Moves, Board!Open, Board!Entries
  <2>4. CASE LeasesOf(u) # {}
    <3> DEFINE l == leases[Latest(u)]
    <3>1. Latest(u) \in DOMAIN leases /\ Entry(u) = EntryOf(l, clock)
      BY <1>1, <2>4, EntryIs
    <3>2. Entry(u)' = EntryOf(l, clock)
      BY <1>3, <2>1, <2>2, <2>4, <3>1, EntryIsNext
    <3>3. l \in Lease
      BY <1>1, <3>1
    <3> HIDE DEF l
    <3>4. EntryOf(l, clock) \in Board!Entries
      BY <3>3 DEF EntryOf, Lease, Board!Entries
    <3>5. QED
      BY <3>1, <3>2, <3>4, SameRow DEF Turns
  <2>5. QED
    BY <2>3, <2>4
<1>10. QED
  BY <1>5, <1>6, <1>7, <1>8, <1>9 DEF Kept, GoodBridge

LEMMA ClaimedKept ==
    ASSUME GoodBridge, NEW m \in Members, NEW t \in Tasks,
           UNCHANGED <<clock, github, opened, lately, merges>>,
           leases' = Claimed(m, t), requests' \subseteq requests
    PROVE  Kept
<1>1. CASE MayClaim(m, t)
  <2>1. leases' = Append(leases, NewLease(m, t))
    BY <1>1 DEF Claimed
  <2>2. Latest(t) # 0 => ~Active(leases[Latest(t)], clock) /\ ~leases[Latest(t)].merged
    BY <1>1 DEF MayClaim, MayTake
  <2>3. leases \in Seq(Lease) /\ 0 \notin DOMAIN leases
    BY DEF GoodBridge, TablesOK
  <2>4. LeasesOf(t) # {} => Latest(t) # 0
    BY <2>3, LatestIs
  <2>5. QED
    BY <2>1, <2>2, <2>4, AppendKept
<1>2. CASE ~MayClaim(m, t)
  <2>1. leases' = leases
    BY <1>2 DEF Claimed
  <2>2. TablesOK'
    BY <2>1 DEF GoodBridge, TablesOK
  <2>3. QED
    BY <2>1, <2>2, BridgeUnchangedKept DEF GoodBridge
<1>3. QED
  BY <1>1, <1>2

LEMMA ClaimKept ==
    ASSUME GoodBridge, NEW m \in Members, NEW t \in Tasks, Claim(m, t)
    PROVE  Kept
BY ClaimedKept DEF Claim, outside

LEMMA TakeKept ==
    ASSUME GoodBridge, NEW r \in requests, Take(r)
    PROVE  Kept
<1>1. r.who \in Members /\ r.task \in Tasks
  BY DEF GoodBridge, Fit, Take
<1>2. QED
  BY <1>1, ClaimedKept DEF Take, Ends, outside

-----------------------------------------------------------------------------
(* GitHub and the clock. *)

LEMMA BecomesKept ==
    ASSUME GoodBridge, NEW p \in Pulls, NEW state \in {"open", "closed", "merged"},
           Becomes(p, state),
           opened' \in [Pulls -> [by : Members \cup {Nobody}, at : Time,
                                  branch : Tasks \cup {NoTask}, text : SUBSET Tasks]]
    PROVE  Kept
<1> DEFINE now == [state |-> state, closed |-> IF state = "closed" THEN clock ELSE Never]
<1>1. now \in Seen
  BY BridgeAssumption DEF GoodBridge, TablesOK, Seen, Time, Never
<1>2. UNCHANGED <<clock, leases, merges, requests>>
  BY DEF Becomes, bridge
<1>3. /\ github' = [github EXCEPT ![p] = now]
      /\ lately' = [lately EXCEPT ![p] = @ \cup {now}]
  BY DEF Becomes
<1> HIDE DEF now
<1>4. TablesOK'
  BY <1>1, <1>2, <1>3 DEF GoodBridge, TablesOK
<1>5. QED
  BY <1>2, <1>4, BridgeUnchangedKept DEF GoodBridge

LEMMA OpenPullKept ==
    ASSUME GoodBridge, NEW m \in Members, NEW p \in Pulls, OpenPull(m, p)
    PROVE  Kept
<1>1. clock \in Nat
  BY BridgeAssumption DEF GoodBridge, TablesOK
<1>2. PICK shape \in Shapes :
          opened' = [opened EXCEPT ![p] = [by |-> m, at |-> clock,
                         branch |-> shape.branch, text |-> shape.text]]
  BY DEF OpenPull
<1>3. shape.branch \in Tasks \cup {NoTask} /\ shape.text \in SUBSET Tasks
  BY BridgeAssumption
<1>4. opened' \in [Pulls -> [by : Members \cup {Nobody}, at : Time,
                             branch : Tasks \cup {NoTask}, text : SUBSET Tasks]]
  BY <1>1, <1>2, <1>3 DEF GoodBridge, TablesOK, Time
<1>5. QED
  BY <1>4, BecomesKept DEF OpenPull

LEMMA MaintainersKept ==
    ASSUME GoodBridge, Maintainers
    PROVE  Kept
<1>1. PICK p \in Pulls : ClosePull(p) \/ ReopenPull(p) \/ MergePull(p)
  BY DEF Maintainers
<1>2. opened' = opened /\ \E state \in {"open", "closed", "merged"} : Becomes(p, state)
  BY <1>1 DEF ClosePull, ReopenPull, MergePull
<1>3. QED
  BY <1>2, BecomesKept DEF GoodBridge, TablesOK

LEMMA TickKept ==
    ASSUME GoodBridge, Tick
    PROVE  Kept
<1>1. /\ UNCHANGED <<leases, merges, github, opened, requests>>
      /\ clock' = clock + 1 /\ clock < MaxClock
      /\ lately' = [p \in Pulls |-> {github[p]}]
  BY DEF Tick, bridge
<1>2. clock \in 0 .. MaxClock /\ MaxClock \in Nat /\ leases \in Seq(Lease)
  BY BridgeAssumption DEF GoodBridge, TablesOK
<1>3. lately' \in [Pulls -> SUBSET Seen]
  BY <1>1 DEF GoodBridge, TablesOK
<1>4. TablesOK'
  BY <1>1, <1>2, <1>3 DEF GoodBridge, TablesOK
<1>5. MergedOnce'
  BY <1>1 DEF GoodBridge, MergedOnce
<1>6. \A r \in requests' : Fit(r)'
  BY <1>1, FitStays DEF GoodBridge
<1>7. ASSUME NEW i \in DOMAIN leases
      PROVE  Board!Moves(EntryOf(leases[i], clock), EntryOf(leases'[i], clock'))
  <2> DEFINE l == leases[i]
  <2>1. l.ends \in Nat /\ leases'[i] = l
    <3>1. l \in Lease
      BY <1>2
    <3>2. QED
      BY <1>1, <3>1 DEF Lease
  <2>2. Active(l, clock') => Active(l, clock)
    BY <1>1, <1>2, <2>1 DEF Active
  <2> HIDE DEF l
  <2>3. QED
    BY <2>1, <2>2 DEF EntryOf, Board!Moves, l
<1>8. \A t \in Tasks : Turns(t)
  BY <1>1, <1>2, <1>7, RowsTurn
<1>9. QED
  BY <1>4, <1>5, <1>6, <1>8 DEF Kept, GoodBridge

-----------------------------------------------------------------------------
(* Every step. *)

LEMMA InitGood == Init => GoodBridge
<1> SUFFICES ASSUME Init PROVE GoodBridge
  OBVIOUS
<1>1. TablesOK
  BY BridgeAssumption
  DEF Init, TablesOK, Lease, Seen, Unseen, Time, Never
<1>2. DOMAIN leases = {} /\ merges = {} /\ requests = {}
  BY DEF Init
<1>3. QED
  BY <1>1, <1>2 DEF GoodBridge, MergedOnce

LEMMA NextKept ==
    ASSUME GoodBridge, [Next]_vars
    PROVE  Kept
<1>1. CASE Tick
  BY <1>1, TickKept
<1>2. CASE Maintainers
  BY <1>2, MaintainersKept
<1>3. ASSUME NEW m \in Members, Member(m) PROVE Kept
  BY <1>3, AskClaimKept, ClaimKept, AskHeldKept, OpenPullKept DEF Member
<1>4. ASSUME NEW i \in DOMAIN leases, Look(i) PROVE Kept
  BY <1>4, LookKept
<1>5. ASSUME NEW r \in requests, GoOn(r) PROVE Kept
  BY <1>5, RecordKept, TakeKept, ReleaseKept DEF GoOn
<1>6. CASE UNCHANGED vars
  <2>1. UNCHANGED <<clock, leases, merges, github, opened, lately, requests>>
    BY <1>6 DEF vars
  <2>2. TablesOK'
    BY <2>1 DEF GoodBridge, TablesOK
  <2>3. QED
    BY <2>1, <2>2, BridgeUnchangedKept DEF GoodBridge
<1>7. QED
  BY <1>1, <1>2, <1>3, <1>4, <1>5, <1>6 DEF Next

(* GoodBridge holds throughout.                                            *)
THEOREM GoodBridgeHolds == Spec => []GoodBridge
<1>1. GoodBridge /\ [Next]_vars => GoodBridge'
  BY NextKept DEF Kept
<1>2. QED
  BY InitGood, <1>1, PTL DEF Spec

(* Every row, what GitHub has and every request in flight keep types, for  *)
(* any number of members, tasks, pull requests and requests at once.       *)
THEOREM BridgeTypes == Spec => []TypeOK
<1>1. GoodBridge => TypeOK
  BY DEF GoodBridge, TablesOK, TypeOK, Fit
<1>2. QED
  BY GoodBridgeHolds, <1>1, PTL

(* Whatever is answered late, and however many requests record it, a pull  *)
(* request stands on one lease, and the merges are those of the merged.    *)
THEOREM MergesOnce == Spec => []MergedOnce
<1>1. GoodBridge => MergedOnce
  BY DEF GoodBridge
<1>2. QED
  BY GoodBridgeHolds, <1>1, PTL

(* The leases implement TaskBoard, for every set of members and tasks.     *)
THEOREM BoardFollowed == Spec => FollowsBoard
<1>1. Init => Board!Init
  <2> SUFFICES ASSUME Init PROVE Board!Init
    OBVIOUS
  <2>1. leases = <<>> /\ leases \in Seq(Lease)
    BY DEF Init
  <2>2. \A t : LeasesOf(t) = {}
    BY <2>1 DEF LeasesOf
  <2>3. \A t \in Tasks : Entry(t) = Board!Open
    BY <2>1, <2>2, EntryIs
  <2>4. QED
    BY <2>3 DEF Board!Init
<1>2. ASSUME GoodBridge, [Next]_vars
      PROVE  Board!Next
  <2>1. \A t \in Tasks : Turns(t)
    BY <1>2, NextKept DEF Kept
  <2>2. QED
    BY <2>1 DEF Turns, Board!Next
<1>3. QED
  BY <1>1, <1>2, GoodBridgeHolds, PTL DEF Spec, FollowsBoard, Board!Spec

-----------------------------------------------------------------------------
(* The small instances TLC checks. *)

CONSTANTS m1, m2, t1, t2

(* Naming every task in its text, and on one task's branch besides.        *)
MCText == {[branch |-> NoTask, text |-> Tasks]}
MCBranch == {[branch |-> t1, text |-> Tasks]}

Symmetry == Permutations(Members) \cup Permutations(Tasks)

=============================================================================
