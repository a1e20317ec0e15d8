----------------------------- MODULE PageProofs -----------------------------
(***************************************************************************)
(* What holds, for all values of the constants, of what a page keeps in    *)
(* step with others: of the reads of the ledger (LedgerReads) TurnsTaken,  *)
(* ToldItsOwn, NothingMissed and TypeOK; of proximity voice between two    *)
(* members (VoicePeers) HeardRight and PermitsSound; of a proposal's page  *)
(* (ProposalPage) ToldTrue and NeverBack; of a task's page (TaskPage)      *)
(* LossIsTrue; of the cave a page draws (CaveScene) BodyAsItIs, ClipStays  *)
(* and QuietOnceStopped; of a robot (RobotView) WearsItsLook and           *)
(* FlyerWhereItBelongs; of the admin's draft (DraftDesk) FormKept and      *)
(* PublishedRead; and of the practice floor (PracticeApp) WalkThrough.     *)
(*                                                                         *)
(* The names of LedgerReads are its own; the others' are prefixed.  Each   *)
(* part has an invariant of its own (ScreenHolds and WalkHolds, Good...    *)
(* for the rest), said where the part begins.                              *)
(***************************************************************************)
EXTENDS LedgerReads, FiniteSetTheorems, SequenceTheorems, WellFoundedInduction, NaturalsInduction, TLAPS

CONSTANTS MaxSids, MaxMics, Writes, MaxV, MaxLoads, MaxPushes, People, MaxLooks, MaxViews,
          MaxMoves, Files, Flat, Spots, RobotLooks, Specs, Mine, Theirs, MaxJobs, Me, Members,
          MaxComments, MaxTime, MaxEvents
VARIABLES link, rm, p, me, muted, crowd, told, said, api, page, loads, op, late,
          load, quiet, poll, checks, write, cave, heard, room, body, drawn, own, media,
          panel, files, allows, look, changes, robot, calls, cache, seen, desk, ghost, floor,
          now, task, answer

Peers == INSTANCE VoicePeers
Page == INSTANCE ProposalPage WITH Kinds <- Writes, MaxReads <- MaxLoads, reads <- loads
Task == INSTANCE TaskPage
Scene == INSTANCE CaveScene WITH told <- heard, mine <- own
Robot == INSTANCE RobotView WITH Slots <- Spots, MaxLooks <- RobotLooks
Desk == INSTANCE DraftDesk
Practice == INSTANCE PracticeApp

-----------------------------------------------------------------------------
(* The reads of the ledger.  ScreenHolds: the slot counts what is in       *)
(* flight and is full while anything waits, the queue is in order, and a   *)
(* read that waits or is on its way is the one its region waits for.       *)
(* WalkHolds: what a walk has got of the rows it began with, so far (by    *)
(* cursor, everything from the cursor on; by offset, every row that fewer  *)
(* than offset rows stand before), and what the page in hand adds to it.   *)

LedgerAssumption ==
    /\ Slots \in Nat \ {0} /\ MaxReads \in Nat
    /\ MaxKey \in Nat /\ Limit \in Nat \ {0} /\ MaxPages \in Nat \ {0}

LEMMA LeastOf ==
    ASSUME NEW T, T \subseteq Nat, T # {}
    PROVE  \E k \in T : \A m \in T : ~(m < k)
<1>1. PICK k \in T : \A m \in T : <<m, k>> \notin OpToRel(<, Nat)
  BY NatLessThanWellFounded, WFMin, Zenon
<1> QED
  BY <1>1, Zenon DEF OpToRel

ReadRows ==
    [by : Regions, where : {"waiting", "sent", "leaving", "over"},
     what : Kinds \cup {"nothing", "aborted"}]

TakenOf(rs) == {i \in DOMAIN rs : rs[i].where \in {"sent", "leaving"} /\ rs[i].by \in Heavy}

(* The slot counts what is in flight, and is full while anything waits; in *)
(* the queue are heavy reads that wait, in the order they were asked for.  *)
Queued(rs, queue, n) ==
    /\ rs \in Seq(ReadRows)
    /\ queue \in Seq(1 .. Len(rs))
    /\ n \in 0 .. Slots
    /\ n = Cardinality(TakenOf(rs))
    /\ queue # <<>> => n = Slots
    /\ \A k \in 1 .. Len(queue) : rs[queue[k]].where = "waiting" /\ rs[queue[k]].by \in Heavy
    /\ \A k, m \in 1 .. Len(queue) : k < m => queue[k] < queue[m]

LEMMA TakenFinite ==
    ASSUME NEW rs \in Seq(ReadRows)
    PROVE  IsFiniteSet(TakenOf(rs)) /\ DOMAIN rs = 1 .. Len(rs) /\ Len(rs) \in Nat
<1>1. Len(rs) \in Nat /\ DOMAIN rs = 1 .. Len(rs)
  BY LenProperties
<1>2. TakenOf(rs) \subseteq 1 .. Len(rs)
  BY <1>1 DEF TakenOf
<1>3. IsFiniteSet(1 .. Len(rs))
  BY <1>1, FS_Interval
<1> QED
  BY <1>1, <1>2, <1>3, FS_Subset

(* What one read becomes, as the slot counts it.                           *)
LEMMA TakenWhenChanged ==
    ASSUME NEW rs \in Seq(ReadRows), NEW i \in 1 .. Len(rs), NEW r \in ReadRows,
           r.by = rs[i].by
    PROVE  /\ [rs EXCEPT ![i] = r] \in Seq(ReadRows)
           /\ Len([rs EXCEPT ![i] = r]) = Len(rs)
           /\ \A j \in 1 .. Len(rs) : [rs EXCEPT ![i] = r][j] = IF j = i THEN r ELSE rs[j]
           /\ r.by \in Heavy /\ r.where \in {"sent", "leaving"}
                => TakenOf([rs EXCEPT ![i] = r]) = TakenOf(rs) \cup {i}
           /\ ~(r.by \in Heavy /\ r.where \in {"sent", "leaving"})
                => TakenOf([rs EXCEPT ![i] = r]) = TakenOf(rs) \ {i}
<1> DEFINE ns == [rs EXCEPT ![i] = r]
<1>1. /\ ns \in Seq(ReadRows) /\ Len(ns) = Len(rs)
      /\ \A j \in 1 .. Len(rs) : ns[j] = IF j = i THEN r ELSE rs[j]
  BY ExceptSeq
<1> HIDE DEF ns
<1>2. DOMAIN ns = 1 .. Len(rs) /\ DOMAIN rs = 1 .. Len(rs)
  BY <1>1, LenProperties
<1>3. CASE r.by \in Heavy /\ r.where \in {"sent", "leaving"}
  <2>1. TakenOf(ns) = TakenOf(rs) \cup {i}
    BY <1>1, <1>2, <1>3 DEF TakenOf
  <2> QED
    BY <1>1, <1>3, <2>1 DEF ns
<1>4. CASE ~(r.by \in Heavy /\ r.where \in {"sent", "leaving"})
  <2>1. TakenOf(ns) = TakenOf(rs) \ {i}
    BY <1>1, <1>2, <1>4 DEF TakenOf
  <2> QED
    BY <1>1, <1>4, <2>1 DEF ns
<1> QED
  BY <1>3, <1>4

Without(left, queue, at) ==
    /\ Len(left) = Len(queue) - 1
    /\ \A k \in 1 .. Len(left) : left[k] = IF k < at THEN queue[k] ELSE queue[k + 1]

(* A read taken off the queue: the others keep their order.                *)
LEMMA TakenOff ==
    ASSUME NEW S, S \subseteq Nat, NEW queue \in Seq(S), NEW at \in 1 .. Len(queue),
           \A k, m \in 1 .. Len(queue) : k < m => queue[k] < queue[m],
           NEW left, left = RemoveFirst(queue, queue[at])
    PROVE  left \in Seq(S) /\ Without(left, queue, at)
<1> DEFINE e == queue[at]
           n == Len(queue)
           before == SubSeq(queue, 1, at - 1)
           after == SubSeq(queue, at + 1, n)
<1>1. n \in Nat /\ \A k \in 1 .. n : queue[k] \in S /\ queue[k] \in Nat
  BY LenProperties, ElementOfSeq
<1>2. \A k \in 1 .. n : queue[k] = e => k = at
  <2> SUFFICES ASSUME NEW k \in 1 .. n, queue[k] = e PROVE k = at
    OBVIOUS
  <2>1. ~(queue[k] < queue[at]) /\ ~(queue[at] < queue[k])
    BY <1>1
  <2> QED
    BY <1>1, <2>1
<1>3. RemoveFirst(queue, e) = before \o after
  <2>1. {k \in 1 .. n : queue[k] = e} = {at}
    BY <1>2
  <2>2. (CHOOSE x \in {at} : \A y \in {at} : x <= y) = at
    BY <1>1
  <2> QED
    BY <2>1, <2>2 DEF RemoveFirst, RemoveAt, SelectInSeq, Min
<1> HIDE DEF e, n, before, after
<1>4. n \in Nat /\ at \in 1 .. n
  BY <1>1 DEF n
<1>5. /\ before \in Seq(S)
      /\ Len(before) = at - 1
      /\ \A k \in 1 .. at - 1 : before[k] = queue[k]
  <2>1. \A k \in 1 .. at - 1 : queue[k] \in S
    BY <1>1, <1>4
  <2>2. /\ before \in Seq(S)
        /\ Len(before) = IF 1 <= at - 1 THEN at - 1 - 1 + 1 ELSE 0
        /\ \A k \in 1 .. at - 1 - 1 + 1 : before[k] = queue[1 + k - 1]
    BY <1>4, <2>1, SubSeqProperties DEF before
  <2> QED
    BY <1>4, <2>2
<1>6. /\ after \in Seq(S)
      /\ Len(after) = n - at
      /\ \A k \in 1 .. n - at : after[k] = queue[at + k]
  <2>1. \A k \in at + 1 .. n : queue[k] \in S
    BY <1>1, <1>4
  <2>2. /\ after \in Seq(S)
        /\ Len(after) = IF at + 1 <= n THEN n - (at + 1) + 1 ELSE 0
        /\ \A k \in 1 .. n - (at + 1) + 1 : after[k] = queue[at + 1 + k - 1]
    BY <1>4, <2>1, SubSeqProperties DEF after
  <2> QED
    BY <1>4, <2>2
<1>7. /\ before \o after \in Seq(S)
      /\ Len(before \o after) = n - 1
      /\ \A k \in 1 .. n - 1 :
             (before \o after)[k] = IF k < at THEN queue[k] ELSE queue[k + 1]
  <2>1. /\ before \o after \in Seq(S)
        /\ Len(before \o after) = Len(before) + Len(after)
        /\ \A k \in 1 .. Len(before) + Len(after) :
               (before \o after)[k] = IF k <= Len(before) THEN before[k] ELSE after[k - Len(before)]
    BY <1>5, <1>6, ConcatProperties
  <2>2. Len(before) + Len(after) = n - 1
    BY <1>4, <1>5, <1>6
  <2>3. ASSUME NEW k \in 1 .. n - 1
        PROVE  (before \o after)[k] = IF k < at THEN queue[k] ELSE queue[k + 1]
    <3>1. CASE k < at
      <4>1. k <= Len(before) /\ k \in 1 .. at - 1
        BY <1>4, <1>5, <3>1
      <4> QED
        BY <1>5, <2>1, <2>2, <3>1, <4>1
    <3>2. CASE ~(k < at)
      <4>1. ~(k <= Len(before)) /\ k - Len(before) \in 1 .. n - at /\ at + (k - Len(before)) = k + 1
        BY <1>4, <1>5, <3>2
      <4>2. (before \o after)[k] = after[k - Len(before)]
        BY <2>1, <2>2, <4>1
      <4>3. after[k - Len(before)] = queue[at + (k - Len(before))]
        BY <1>6, <4>1
      <4> QED
        BY <3>2, <4>1, <4>2, <4>3
    <3> QED
      BY <3>1, <3>2
  <2> QED
    BY <2>1, <2>2, <2>3
<1> QED
  BY <1>3, <1>7 DEF e, n, Without

NextTaken(s, rs) ==
    /\ Queued(s.reads, s.waiting, s.running)
    /\ Len(s.reads) = Len(rs)
    /\ \A i \in 1 .. Len(rs) :
           \/ s.reads[i] = rs[i]
           \/ /\ rs[i].where = "waiting"
              /\ s.reads[i].where = "sent" /\ s.reads[i].by = rs[i].by

(* A place is free: the first that waits starts.                           *)
LEMMA NextStarts ==
    ASSUME NEW rs \in Seq(ReadRows), NEW queue \in Seq(1 .. Len(rs)), NEW n \in Nat,
           n < Slots, Slots \in Nat,
           n = Cardinality(TakenOf(rs)),
           queue # <<>> => n + 1 = Slots,
           \A k \in 1 .. Len(queue) : rs[queue[k]].where = "waiting" /\ rs[queue[k]].by \in Heavy,
           \A k, m \in 1 .. Len(queue) : k < m => queue[k] < queue[m]
    PROVE  NextTaken(Next1(rs, queue, n), rs)
<1> DEFINE s == Next1(rs, queue, n)
<1>1. CASE queue = <<>>
  <2>1. s = [reads |-> rs, waiting |-> queue, running |-> n]
    BY <1>1 DEF Next1
  <2>2. Len(queue) = 0
    BY <1>1, EmptySeq
  <2>3. Queued(rs, queue, n)
    BY <1>1, <2>2 DEF Queued
  <2>4. s.reads = rs /\ s.waiting = queue /\ s.running = n
    BY <2>1
  <2> HIDE DEF s
  <2>5. Queued(s.reads, s.waiting, s.running)
    BY <2>3, <2>4
  <2> QED
    BY <2>2, <2>4, <2>5 DEF s, NextTaken
<1>2. CASE queue # <<>>
  <2> DEFINE h == Head(queue)
             q == Tail(queue)
             r == [by |-> rs[h].by, where |-> "sent", what |-> rs[h].what]
             ns == [rs EXCEPT ![h] = r]
  <2>1. /\ h \in 1 .. Len(rs) /\ q \in Seq(1 .. Len(rs))
        /\ Len(q) = Len(queue) - 1 /\ Len(queue) \in Nat /\ Len(queue) # 0
        /\ \A k \in 1 .. Len(q) : q[k] = queue[k + 1]
        /\ h = queue[1]
    <3>1. /\ h \in 1 .. Len(rs) /\ q \in Seq(1 .. Len(rs)) /\ Len(q) = Len(queue) - 1
          /\ \A k \in 1 .. Len(q) : q[k] = queue[k + 1]
      BY <1>2, HeadTailProperties
    <3>2. Len(queue) \in Nat \ {0}
      BY <1>2, EmptySeq
    <3>3. h = queue[1]
      BY <1>2
    <3> QED
      BY <3>1, <3>2, <3>3
  <2> HIDE DEF h, q
  <2>2. rs[h] \in ReadRows /\ rs[h].where = "waiting" /\ rs[h].by \in Heavy
    BY <2>1, ElementOfSeq
  <2>3. s = [reads |-> ns, waiting |-> q, running |-> n + 1]
    <3>1. [rs[h] EXCEPT !.where = "sent"] = r
      BY <2>2 DEF ReadRows
    <3>2. s = [reads |-> [rs EXCEPT ![h] = [rs[h] EXCEPT !.where = "sent"]], waiting |-> q,
               running |-> n + 1]
      BY <1>2 DEF Next1, h, q
    <3> HIDE DEF s, r
    <3> QED
      BY <3>1, <3>2
  <2>4. r \in ReadRows /\ r.by = rs[h].by /\ r.where = "sent"
    BY <2>2 DEF ReadRows
  <2> HIDE DEF s, r
  <2>5. /\ ns \in Seq(ReadRows) /\ Len(ns) = Len(rs)
        /\ \A j \in 1 .. Len(rs) : ns[j] = IF j = h THEN r ELSE rs[j]
        /\ TakenOf(ns) = TakenOf(rs) \cup {h}
    <3>1. h \in 1 .. Len(rs) /\ r \in ReadRows /\ r.by = rs[h].by
      BY <2>1, <2>4
    <3>2. r.by \in Heavy /\ r.where \in {"sent", "leaving"}
      BY <2>2, <2>4
    <3>3. /\ ns \in Seq(ReadRows)
          /\ Len(ns) = Len(rs)
          /\ \A j \in 1 .. Len(rs) : ns[j] = IF j = h THEN r ELSE rs[j]
          /\ r.by \in Heavy /\ r.where \in {"sent", "leaving"}
               => TakenOf(ns) = TakenOf(rs) \cup {h}
      BY <3>1, TakenWhenChanged
    <3> HIDE DEF ns
    <3> QED
      BY <3>2, <3>3
  <2> HIDE DEF ns
  <2>6. h \notin TakenOf(rs)
    BY <2>2 DEF TakenOf
  <2>7. Cardinality(TakenOf(ns)) = n + 1
    BY <2>5, <2>6, TakenFinite, FS_AddElement
  <2>8. ASSUME NEW k \in 1 .. Len(q)
        PROVE  /\ k + 1 \in 1 .. Len(queue) /\ q[k] = queue[k + 1] /\ q[k] # h
               /\ q[k] \in 1 .. Len(rs)
    <3>0. Len(queue) \in Nat /\ Len(queue) # 0 /\ k \in Nat /\ 1 <= k /\ k <= Len(queue) - 1
      BY <2>1
    <3>1. k + 1 \in 1 .. Len(queue) /\ 1 \in 1 .. Len(queue) /\ 1 < k + 1
      BY <3>0
    <3>2. queue[1] < queue[k + 1]
      BY <3>1
    <3>3. queue[1] \in 1 .. Len(rs) /\ queue[k + 1] \in 1 .. Len(rs) /\ Len(rs) \in Nat
      BY <3>1, ElementOfSeq, TakenFinite
    <3>4. q[k] = queue[k + 1] /\ h = queue[1]
      BY <2>1
    <3>5. queue[k + 1] # queue[1]
      BY <3>2, <3>3
    <3> QED
      BY <3>1, <3>3, <3>4, <3>5
  <2>9. \A k \in 1 .. Len(q) : ns[q[k]].where = "waiting" /\ ns[q[k]].by \in Heavy
    <3> SUFFICES ASSUME NEW k \in 1 .. Len(q)
                 PROVE  ns[q[k]].where = "waiting" /\ ns[q[k]].by \in Heavy
      OBVIOUS
    <3>1. ns[q[k]] = rs[q[k]]
      BY <2>5, <2>8
    <3>2. q[k] = queue[k + 1] /\ k + 1 \in 1 .. Len(queue)
      BY <2>8
    <3>3. rs[queue[k + 1]].where = "waiting" /\ rs[queue[k + 1]].by \in Heavy
      BY <3>2
    <3> QED
      BY <3>1, <3>2, <3>3
  <2>10. \A k, m \in 1 .. Len(q) : k < m => q[k] < q[m]
    <3> SUFFICES ASSUME NEW k \in 1 .. Len(q), NEW m \in 1 .. Len(q), k < m
                 PROVE  q[k] < q[m]
      OBVIOUS
    <3>1. k + 1 < m + 1
      OBVIOUS
    <3> QED
      BY <2>8, <3>1
  <2>11. Queued(ns, q, n + 1)
    BY <1>2, <2>1, <2>5, <2>7, <2>9, <2>10 DEF Queued
  <2>12. s.reads = ns /\ s.waiting = q /\ s.running = n + 1
    BY <2>3
  <2>13. Queued(s.reads, s.waiting, s.running)
    BY <2>11, <2>12
  <2>14. /\ Len(s.reads) = Len(rs)
         /\ \A i \in 1 .. Len(rs) :
                \/ s.reads[i] = rs[i]
                \/ /\ rs[i].where = "waiting"
                   /\ s.reads[i].where = "sent" /\ s.reads[i].by = rs[i].by
    BY <2>2, <2>4, <2>5, <2>12
  <2> QED
    BY <2>13, <2>14 DEF s, NextTaken
<1> QED
  BY <1>1, <1>2

LEMMA SeqOver ==
    ASSUME NEW S, NEW T, NEW q \in Seq(S), \A k \in 1 .. Len(q) : q[k] \in T
    PROVE  q \in Seq(T)
<1>1. Len(q) \in Nat /\ q \in [1 .. Len(q) -> S]
  BY LenProperties
<1>2. q \in [1 .. Len(q) -> T]
  BY <1>1
<1> QED
  BY <1>1, <1>2, SeqDef

(* A read is left: one that waits is off the queue, one in flight is cut.  *)
LEMMA LeftQueue ==
    ASSUME Queued(reads, waiting, running), NEW i \in 0 .. Len(reads)
    PROVE  LET s == Left(i)
           IN  /\ Queued(s.reads, s.waiting, s.running)
               /\ Len(s.reads) = Len(reads)
               /\ \A j \in 1 .. Len(reads) :
                      /\ s.reads[j].by = reads[j].by
                      /\ j # i => s.reads[j] = reads[j]
                      /\ j = i => s.reads[j].where \in {"over", "leaving"}
<1> DEFINE s == Left(i)
<1>1. /\ reads \in Seq(ReadRows) /\ waiting \in Seq(1 .. Len(reads)) /\ running \in 0 .. Slots
      /\ Len(reads) \in Nat /\ DOMAIN reads = 1 .. Len(reads)
  BY TakenFinite DEF Queued
<1>2. CASE i = 0 \/ reads[i].where = "over"
  <2>1. s = [reads |-> reads, waiting |-> waiting, running |-> running]
    BY <1>2 DEF Left
  <2>2. s.reads = reads /\ s.waiting = waiting /\ s.running = running
    BY <2>1
  <2> HIDE DEF s
  <2>3. Queued(s.reads, s.waiting, s.running)
    BY <2>2
  <2>4. \A j \in 1 .. Len(reads) :
            /\ s.reads[j].by = reads[j].by
            /\ j # i => s.reads[j] = reads[j]
            /\ j = i => s.reads[j].where \in {"over", "leaving"}
    BY <1>2, <2>2
  <2> QED
    BY <2>2, <2>3, <2>4 DEF s
<1>3. CASE i # 0 /\ reads[i].where = "waiting"
  <2> DEFINE r == [by |-> reads[i].by, where |-> "over", what |-> "aborted"]
             ns == [reads EXCEPT ![i] = r]
             q == RemoveFirst(waiting, i)
  <2>1. i \in 1 .. Len(reads)
    BY <1>1, <1>3
  <2>2. reads[i] \in ReadRows
    BY <1>1, <2>1, ElementOfSeq
  <2>3. r \in ReadRows /\ r.by = reads[i].by /\ r.where = "over"
    BY <2>2 DEF ReadRows
  <2>4. s = [reads |-> ns, waiting |-> q, running |-> running]
    <3>1. [[reads[i] EXCEPT !.where = "over"] EXCEPT !.what = "aborted"] = r
      <4>1. [reads[i] EXCEPT !.where = "over"]
              = [by |-> reads[i].by, where |-> "over", what |-> reads[i].what]
        BY <2>2 DEF ReadRows
      <4>2. [[by |-> reads[i].by, where |-> "over", what |-> reads[i].what] EXCEPT !.what = "aborted"] = r
        OBVIOUS
      <4> QED
        BY <4>1, <4>2
    <3>2. [[reads EXCEPT ![i].where = "over"] EXCEPT ![i].what = "aborted"]
            = [reads EXCEPT ![i] = [[reads[i] EXCEPT !.where = "over"] EXCEPT !.what = "aborted"]]
      BY <1>1, <2>1
    <3>3. s = [reads |-> [[reads EXCEPT ![i].where = "over"] EXCEPT ![i].what = "aborted"],
               waiting |-> q, running |-> running]
      BY <1>3 DEF Left
    <3> HIDE DEF s, r, q
    <3> QED
      BY <3>1, <3>2, <3>3
  <2> HIDE DEF r, s
  <2>5. /\ ns \in Seq(ReadRows) /\ Len(ns) = Len(reads)
        /\ \A j \in 1 .. Len(reads) : ns[j] = IF j = i THEN r ELSE reads[j]
        /\ TakenOf(ns) = TakenOf(reads)
    <3>1. /\ ns \in Seq(ReadRows)
          /\ Len(ns) = Len(reads)
          /\ \A j \in 1 .. Len(reads) : ns[j] = IF j = i THEN r ELSE reads[j]
          /\ ~(r.by \in Heavy /\ r.where \in {"sent", "leaving"}) => TakenOf(ns) = TakenOf(reads) \ {i}
      BY <1>1, <2>1, <2>3, TakenWhenChanged
    <3>2. i \notin TakenOf(reads)
      BY <1>3 DEF TakenOf
    <3> HIDE DEF ns
    <3> QED
      BY <2>3, <3>1, <3>2
  <2> HIDE DEF ns
  <2>6. /\ q \in Seq(1 .. Len(reads)) /\ (q # <<>> => waiting # <<>>)
        /\ \A k \in 1 .. Len(q) : ns[q[k]].where = "waiting" /\ ns[q[k]].by \in Heavy
        /\ \A k, m \in 1 .. Len(q) : k < m => q[k] < q[m]
    <3>1. /\ \A k \in 1 .. Len(waiting) : reads[waiting[k]].where = "waiting" /\ reads[waiting[k]].by \in Heavy
          /\ \A k, m \in 1 .. Len(waiting) : k < m => waiting[k] < waiting[m]
          /\ \A k \in 1 .. Len(waiting) : waiting[k] \in 1 .. Len(reads)
          /\ Len(waiting) \in Nat
      BY <1>1, ElementOfSeq, LenProperties DEF Queued
    <3>2. CASE \E at \in 1 .. Len(waiting) : waiting[at] = i
      <4>1. PICK at \in 1 .. Len(waiting) : waiting[at] = i
        BY <3>2
      <4>2. /\ q \in Seq(1 .. Len(reads))
            /\ Len(q) = Len(waiting) - 1
            /\ \A k \in 1 .. Len(q) : q[k] = IF k < at THEN waiting[k] ELSE waiting[k + 1]
        <5> DEFINE S == 1 .. Len(reads)
                   w == waiting
        <5>1. /\ S \subseteq Nat /\ w \in Seq(S) /\ at \in 1 .. Len(w)
              /\ q = RemoveFirst(w, w[at])
              /\ \A k, m \in 1 .. Len(w) : k < m => w[k] < w[m]
          BY <1>1, <3>1, <4>1
        <5> HIDE DEF q, S, w
        <5>2. q \in Seq(S) /\ Without(q, w, at)
          BY <5>1, TakenOff
        <5> QED
          BY <5>2 DEF S, w, Without
      <4> HIDE DEF q
      <4>3. waiting # <<>>
        BY <4>1, EmptySeq
      <4>4. ASSUME NEW k \in 1 .. Len(q)
            PROVE  \E m \in 1 .. Len(waiting) :
                       m # at /\ q[k] = waiting[m] /\ m = IF k < at THEN k ELSE k + 1
        <5>1. k \in Nat /\ 1 <= k /\ k <= Len(waiting) - 1 /\ at \in Nat /\ at <= Len(waiting)
          BY <3>1, <4>2
        <5> QED
          BY <3>1, <4>2, <5>1
      <4>5. \A k \in 1 .. Len(q) : ns[q[k]].where = "waiting" /\ ns[q[k]].by \in Heavy
        <5> SUFFICES ASSUME NEW k \in 1 .. Len(q)
                     PROVE  ns[q[k]].where = "waiting" /\ ns[q[k]].by \in Heavy
          OBVIOUS
        <5>1. PICK m \in 1 .. Len(waiting) : m # at /\ q[k] = waiting[m]
          BY <4>4
        <5>2. waiting[m] # waiting[at]
          <6>1. m < at \/ at < m
            BY <3>1, <5>1
          <6>2. waiting[m] < waiting[at] \/ waiting[at] < waiting[m]
            BY <3>1, <6>1
          <6>3. waiting[m] \in Nat /\ waiting[at] \in Nat
            BY <3>1
          <6> QED
            BY <6>2, <6>3
        <5>3. ns[q[k]] = reads[waiting[m]]
          BY <2>5, <3>1, <4>1, <5>1, <5>2
        <5> QED
          BY <3>1, <5>3
      <4>6. \A k, m \in 1 .. Len(q) : k < m => q[k] < q[m]
        <5> SUFFICES ASSUME NEW k \in 1 .. Len(q), NEW m \in 1 .. Len(q), k < m
                     PROVE  q[k] < q[m]
          OBVIOUS
        <5>1. PICK k2 \in 1 .. Len(waiting) : q[k] = waiting[k2] /\ k2 = IF k < at THEN k ELSE k + 1
          BY <4>4
        <5>2. PICK m2 \in 1 .. Len(waiting) : q[m] = waiting[m2] /\ m2 = IF m < at THEN m ELSE m + 1
          BY <4>4
        <5>3. k2 < m2
          <6>1. k \in Nat /\ m \in Nat /\ at \in Nat
            OBVIOUS
          <6>2. CASE m < at
            BY <5>1, <5>2, <6>1, <6>2
          <6>3. CASE ~(m < at) /\ k < at
            BY <5>1, <5>2, <6>1, <6>3
          <6>4. CASE ~(k < at)
            BY <5>1, <5>2, <6>1, <6>4
          <6> QED
            BY <6>1, <6>2, <6>3, <6>4
        <5> QED
          BY <3>1, <5>1, <5>2, <5>3
      <4> QED
        BY <4>2, <4>3, <4>5, <4>6
    <3>3. CASE ~\E at \in 1 .. Len(waiting) : waiting[at] = i
      <4>1. q = waiting
        BY <3>3 DEF RemoveFirst
      <4> HIDE DEF q
      <4>2. \A k \in 1 .. Len(waiting) : ns[waiting[k]] = reads[waiting[k]]
        BY <2>5, <3>1, <3>3
      <4> QED
        BY <1>1, <3>1, <4>1, <4>2
    <3> QED
      BY <3>2, <3>3
  <2> HIDE DEF q
  <2>7. Queued(ns, q, running)
    BY <2>5, <2>6 DEF Queued
  <2>8. s.reads = ns /\ s.waiting = q /\ s.running = running
    BY <2>4
  <2>9. Queued(s.reads, s.waiting, s.running)
    BY <2>7, <2>8
  <2>10. \A j \in 1 .. Len(reads) :
             /\ s.reads[j].by = reads[j].by
             /\ j # i => s.reads[j] = reads[j]
             /\ j = i => s.reads[j].where \in {"over", "leaving"}
    BY <2>3, <2>5, <2>8
  <2> QED
    BY <2>5, <2>8, <2>9, <2>10 DEF s
<1>4. CASE i # 0 /\ reads[i].where \notin {"over", "waiting"}
  <2> DEFINE r == [by |-> reads[i].by, where |-> "leaving", what |-> reads[i].what]
             ns == [reads EXCEPT ![i] = r]
  <2>1. i \in 1 .. Len(reads)
    BY <1>1, <1>4
  <2>2. reads[i] \in ReadRows
    BY <1>1, <2>1, ElementOfSeq
  <2>3. r \in ReadRows /\ r.by = reads[i].by /\ r.where = "leaving" /\ reads[i].where \in {"sent", "leaving"}
    BY <1>4, <2>2 DEF ReadRows
  <2>4. s = [reads |-> ns, waiting |-> waiting, running |-> running]
    <3>1. [reads[i] EXCEPT !.where = "leaving"] = r
      BY <2>2 DEF ReadRows
    <3>2. s = [reads |-> [reads EXCEPT ![i] = [reads[i] EXCEPT !.where = "leaving"]],
               waiting |-> waiting, running |-> running]
      BY <1>4 DEF Left
    <3> HIDE DEF s, r
    <3> QED
      BY <3>1, <3>2
  <2> HIDE DEF r, s
  <2>5. /\ ns \in Seq(ReadRows) /\ Len(ns) = Len(reads)
        /\ \A j \in 1 .. Len(reads) : ns[j] = IF j = i THEN r ELSE reads[j]
        /\ TakenOf(ns) = TakenOf(reads)
    <3>1. /\ ns \in Seq(ReadRows)
          /\ Len(ns) = Len(reads)
          /\ \A j \in 1 .. Len(reads) : ns[j] = IF j = i THEN r ELSE reads[j]
          /\ r.by \in Heavy /\ r.where \in {"sent", "leaving"} => TakenOf(ns) = TakenOf(reads) \cup {i}
          /\ ~(r.by \in Heavy /\ r.where \in {"sent", "leaving"}) => TakenOf(ns) = TakenOf(reads) \ {i}
      BY <1>1, <2>1, <2>3, TakenWhenChanged
    <3>2. i \in TakenOf(reads) <=> reads[i].by \in Heavy
      BY <1>1, <2>1, <2>3 DEF TakenOf
    <3> HIDE DEF ns
    <3> QED
      BY <2>3, <3>1, <3>2
  <2> HIDE DEF ns
  <2>6. Queued(ns, waiting, running)
    <3>1. /\ \A k \in 1 .. Len(waiting) : reads[waiting[k]].where = "waiting" /\ reads[waiting[k]].by \in Heavy
          /\ \A k \in 1 .. Len(waiting) : waiting[k] \in 1 .. Len(reads)
      BY <1>1, ElementOfSeq DEF Queued
    <3>2. \A k \in 1 .. Len(waiting) : ns[waiting[k]] = reads[waiting[k]]
      BY <2>3, <2>5, <3>1
    <3> QED
      BY <2>5, <3>1, <3>2 DEF Queued
  <2>8. s.reads = ns /\ s.waiting = waiting /\ s.running = running
    BY <2>4
  <2>9. Queued(s.reads, s.waiting, s.running)
    BY <2>6, <2>8
  <2>10. \A j \in 1 .. Len(reads) :
             /\ s.reads[j].by = reads[j].by
             /\ j # i => s.reads[j] = reads[j]
             /\ j = i => s.reads[j].where \in {"over", "leaving"}
    BY <2>3, <2>5, <2>8
  <2> QED
    BY <2>5, <2>8, <2>9, <2>10 DEF s
<1> QED
  BY <1>2, <1>3, <1>4

(* A read joins: in flight when there is a place or it takes none, else at *)
(* the end of the queue.                                                   *)
LEMMA RunsQueue ==
    ASSUME NEW s, Queued(s.reads, s.waiting, s.running), NEW r \in Regions, Slots \in Nat
    PROVE  LET t == Runs(s, r)
           IN  /\ Queued(t.reads, t.waiting, t.running)
               /\ Len(t.reads) = Len(s.reads) + 1
               /\ \A j \in 1 .. Len(s.reads) : t.reads[j] = s.reads[j]
               /\ t.reads[Len(s.reads) + 1].by = r
               /\ t.reads[Len(s.reads) + 1].where \in {"sent", "waiting"}
<1> DEFINE rs == s.reads
           queue == s.waiting
           n == s.running
           i == Len(rs) + 1
           atOnce == r \notin Heavy \/ n < Slots
           new == [by |-> r, where |-> IF atOnce THEN "sent" ELSE "waiting", what |-> "nothing"]
           ns == Append(rs, new)
           q == IF atOnce THEN queue ELSE Append(queue, i)
           m == IF r \in Heavy /\ atOnce THEN n + 1 ELSE n
           t == Runs(s, r)
<1>1. t.reads = ns /\ t.waiting = q /\ t.running = m
  BY DEF Runs
<1> HIDE DEF t
<1>2. new \in ReadRows /\ new.by = r /\ new.where = IF atOnce THEN "sent" ELSE "waiting"
  BY DEF ReadRows
<1> HIDE DEF new
<1>3. /\ rs \in Seq(ReadRows) /\ queue \in Seq(1 .. Len(rs)) /\ n \in 0 .. Slots
      /\ n = Cardinality(TakenOf(rs)) /\ (queue # <<>> => n = Slots)
      /\ \A k \in 1 .. Len(queue) : rs[queue[k]].where = "waiting" /\ rs[queue[k]].by \in Heavy
      /\ \A k, l \in 1 .. Len(queue) : k < l => queue[k] < queue[l]
  BY DEF Queued
<1> HIDE DEF rs, queue, n
<1>4. /\ ns \in Seq(ReadRows) /\ Len(ns) = Len(rs) + 1 /\ ns[Len(rs) + 1] = new
      /\ \A j \in 1 .. Len(rs) : ns[j] = rs[j]
  BY <1>2, <1>3, AppendProperties
<1>5. Len(rs) \in Nat /\ DOMAIN rs = 1 .. Len(rs) /\ DOMAIN ns = 1 .. Len(rs) + 1
      /\ Len(queue) \in Nat /\ \A k \in 1 .. Len(queue) : queue[k] \in 1 .. Len(rs)
  BY <1>3, <1>4, TakenFinite, LenProperties, ElementOfSeq
<1> HIDE DEF ns
<1>6. i \in Nat /\ i \in 1 .. Len(ns) /\ i \notin 1 .. Len(rs) /\ 1 .. Len(rs) \subseteq 1 .. Len(ns)
  BY <1>4, <1>5
<1>7. m = Cardinality(TakenOf(ns)) /\ m \in 0 .. Slots
  <2>1. CASE r \in Heavy /\ atOnce
    <3>1. TakenOf(ns) = TakenOf(rs) \cup {i}
      BY <1>2, <1>4, <1>5, <2>1 DEF TakenOf
    <3>2. i \notin TakenOf(rs)
      BY <1>5, <1>6 DEF TakenOf
    <3>3. Cardinality(TakenOf(ns)) = n + 1
      BY <1>3, <3>1, <3>2, TakenFinite, FS_AddElement
    <3> QED
      BY <1>3, <2>1, <3>3
  <2>2. CASE ~(r \in Heavy /\ atOnce)
    <3>1. TakenOf(ns) = TakenOf(rs)
      BY <1>2, <1>4, <1>5, <2>2 DEF TakenOf
    <3> QED
      BY <1>3, <2>2, <3>1
  <2> QED
    BY <2>1, <2>2
<1>8. CASE atOnce
  <2>1. q = queue /\ (queue # <<>> => m = Slots)
    BY <1>3, <1>8
  <2>2. queue \in Seq(1 .. Len(ns))
    <3>1. queue \in Seq(1 .. Len(rs)) /\ 1 .. Len(rs) \subseteq 1 .. Len(ns)
      BY <1>3, <1>6
    <3>2. \A k \in 1 .. Len(queue) : queue[k] \in 1 .. Len(ns)
      BY <1>5, <1>6
    <3> QED
      BY <1>3, <3>2, SeqOver
  <2>3. \A k \in 1 .. Len(queue) : ns[queue[k]].where = "waiting" /\ ns[queue[k]].by \in Heavy
    BY <1>3, <1>4, <1>5
  <2>4. Queued(ns, q, m)
    BY <1>3, <1>4, <1>7, <2>1, <2>2, <2>3 DEF Queued
  <2>5. Queued(t.reads, t.waiting, t.running)
    BY <1>1, <2>4
  <2> QED
    BY <1>1, <1>2, <1>4, <1>8, <2>5 DEF t, rs
<1>9. CASE ~atOnce
  <2>1. q = Append(queue, i) /\ m = Slots /\ r \in Heavy
    BY <1>3, <1>9
  <2>2. /\ q \in Seq(1 .. Len(ns)) /\ Len(q) = Len(queue) + 1 /\ q[Len(queue) + 1] = i
        /\ \A k \in 1 .. Len(queue) : q[k] = queue[k]
    <3>1. queue \in Seq(1 .. Len(ns))
      <4>1. \A k \in 1 .. Len(queue) : queue[k] \in 1 .. Len(ns)
        BY <1>5, <1>6
      <4> QED
        BY <1>3, <4>1, SeqOver
    <3> HIDE DEF q, i
    <3> QED
      BY <1>6, <2>1, <3>1, AppendProperties
  <2> HIDE DEF q
  <2>3. \A k \in 1 .. Len(q) : ns[q[k]].where = "waiting" /\ ns[q[k]].by \in Heavy
    <3> SUFFICES ASSUME NEW k \in 1 .. Len(q)
                 PROVE  ns[q[k]].where = "waiting" /\ ns[q[k]].by \in Heavy
      OBVIOUS
    <3>1. k \in 1 .. Len(queue) \/ k = Len(queue) + 1
      BY <1>5, <2>2
    <3>2. CASE k \in 1 .. Len(queue)
      BY <1>3, <1>4, <1>5, <2>2, <3>2
    <3>3. CASE k = Len(queue) + 1
      BY <1>2, <1>4, <1>9, <2>1, <2>2, <3>3
    <3> QED
      BY <3>1, <3>2, <3>3
  <2>4. \A k, l \in 1 .. Len(q) : k < l => q[k] < q[l]
    <3> SUFFICES ASSUME NEW k \in 1 .. Len(q), NEW l \in 1 .. Len(q), k < l
                 PROVE  q[k] < q[l]
      OBVIOUS
    <3>0. Len(queue) \in Nat /\ Len(q) = Len(queue) + 1
      BY <1>5, <2>2
    <3>1. k \in 1 .. Len(queue) /\ (l \in 1 .. Len(queue) \/ l = Len(queue) + 1)
      BY <3>0
    <3>2. CASE l \in 1 .. Len(queue)
      BY <1>3, <2>2, <3>1, <3>2
    <3>3. CASE l = Len(queue) + 1
      <4>1. q[k] \in 1 .. Len(rs) /\ q[l] = Len(rs) + 1
        BY <1>5, <2>2, <3>1, <3>3
      <4> QED
        BY <1>5, <4>1
    <3> QED
      BY <3>1, <3>2, <3>3
  <2>5. Queued(ns, q, m)
    BY <1>4, <1>7, <2>1, <2>2, <2>3, <2>4 DEF Queued
  <2>6. Queued(t.reads, t.waiting, t.running)
    BY <1>1, <2>5
  <2> QED
    BY <1>1, <1>2, <1>4, <1>9, <2>6 DEF t, rs
<1> QED
  BY <1>8, <1>9

(* A read in flight ends: its place goes to the first that waits.          *)
LEMMA FreedQueue ==
    ASSUME Slots \in Nat, Queued(reads, waiting, running),
           NEW i \in 1 .. Len(reads), reads[i].where \in {"sent", "leaving"},
           NEW what \in Kinds \cup {"aborted"}
    PROVE  LET s == Freed(i, what)
           IN  /\ Queued(s.reads, s.waiting, s.running)
               /\ Len(s.reads) = Len(reads)
               /\ s.reads[i].by = reads[i].by /\ s.reads[i].where = "over" /\ s.reads[i].what = what
               /\ \A j \in 1 .. Len(reads) : j # i =>
                      \/ s.reads[j] = reads[j]
                      \/ /\ reads[j].where = "waiting"
                         /\ s.reads[j].where = "sent" /\ s.reads[j].by = reads[j].by
<1> DEFINE r == [by |-> reads[i].by, where |-> "over", what |-> what]
           ns == [reads EXCEPT ![i] = r]
           s == Freed(i, what)
<1>1. /\ reads \in Seq(ReadRows) /\ waiting \in Seq(1 .. Len(reads)) /\ running \in 0 .. Slots
      /\ Len(reads) \in Nat /\ DOMAIN reads = 1 .. Len(reads)
      /\ running = Cardinality(TakenOf(reads)) /\ IsFiniteSet(TakenOf(reads))
      /\ (waiting # <<>> => running = Slots)
      /\ \A k \in 1 .. Len(waiting) : reads[waiting[k]].where = "waiting" /\ reads[waiting[k]].by \in Heavy
      /\ \A k, m \in 1 .. Len(waiting) : k < m => waiting[k] < waiting[m]
      /\ \A k \in 1 .. Len(waiting) : waiting[k] \in 1 .. Len(reads)
  BY TakenFinite, ElementOfSeq DEF Queued
<1>2. reads[i] \in ReadRows
  BY <1>1, ElementOfSeq
<1>3. r \in ReadRows /\ r.by = reads[i].by /\ r.where = "over" /\ r.what = what
  BY <1>2 DEF ReadRows
<1>4. s = IF reads[i].by \in Heavy THEN Next1(ns, waiting, running - 1)
          ELSE [reads |-> ns, waiting |-> waiting, running |-> running]
  <2>1. [[reads[i] EXCEPT !.where = "over"] EXCEPT !.what = what] = r
    <3>1. [reads[i] EXCEPT !.where = "over"]
            = [by |-> reads[i].by, where |-> "over", what |-> reads[i].what]
      BY <1>2 DEF ReadRows
    <3>2. [[by |-> reads[i].by, where |-> "over", what |-> reads[i].what] EXCEPT !.what = what] = r
      OBVIOUS
    <3> QED
      BY <3>1, <3>2
  <2> DEFINE rs == [[reads EXCEPT ![i].where = "over"] EXCEPT ![i].what = what]
  <2>2. rs = [reads EXCEPT ![i] = [[reads[i] EXCEPT !.where = "over"] EXCEPT !.what = what]]
    BY <1>1
  <2>3. rs = ns
    <3> HIDE DEF r, rs
    <3> QED
      BY <2>1, <2>2
  <2> HIDE DEF ns, r
  <2>4. s = IF reads[i].by \in Heavy THEN Next1(rs, waiting, running - 1)
            ELSE [reads |-> rs, waiting |-> waiting, running |-> running]
    BY DEF Freed
  <2> HIDE DEF s, rs
  <2> QED
    BY <2>3, <2>4
<1> HIDE DEF r, s
<1>5. /\ ns \in Seq(ReadRows) /\ Len(ns) = Len(reads)
      /\ \A j \in 1 .. Len(reads) : ns[j] = IF j = i THEN r ELSE reads[j]
      /\ TakenOf(ns) = TakenOf(reads) \ {i}
  <2>1. /\ ns \in Seq(ReadRows)
        /\ Len(ns) = Len(reads)
        /\ \A j \in 1 .. Len(reads) : ns[j] = IF j = i THEN r ELSE reads[j]
        /\ ~(r.by \in Heavy /\ r.where \in {"sent", "leaving"}) => TakenOf(ns) = TakenOf(reads) \ {i}
    BY <1>1, <1>3, TakenWhenChanged
  <2> HIDE DEF ns
  <2> QED
    BY <1>3, <2>1
<1> HIDE DEF ns
<1>6. \A k \in 1 .. Len(waiting) : ns[waiting[k]].where = "waiting" /\ ns[waiting[k]].by \in Heavy
  <2>1. \A k \in 1 .. Len(waiting) : ns[waiting[k]] = reads[waiting[k]]
    BY <1>1, <1>5
  <2> QED
    BY <1>1, <2>1
<1>7. ns[i].by = reads[i].by /\ ns[i].where = "over" /\ ns[i].what = what
  BY <1>3, <1>5
<1>8. CASE reads[i].by \in Heavy
  <2> DEFINE n == running - 1
  <2>1. i \in TakenOf(reads)
    BY <1>1, <1>8 DEF TakenOf
  <2>2. n = Cardinality(TakenOf(ns)) /\ n \in Nat /\ n < Slots /\ (waiting # <<>> => n + 1 = Slots)
    <3>1. Cardinality(TakenOf(reads) \ {i}) = Cardinality(TakenOf(reads)) - 1
      BY <1>1, <2>1, FS_RemoveElement
    <3>2. Cardinality(TakenOf(ns)) \in Nat
      BY <1>5, TakenFinite, FS_CardinalityType
    <3> QED
      BY <1>1, <1>5, <3>1, <3>2
  <2>3. s = Next1(ns, waiting, n)
    BY <1>4, <1>8
  <2> HIDE DEF n
  <2>4. NextTaken(Next1(ns, waiting, n), ns)
    <3>1. waiting \in Seq(1 .. Len(ns))
      BY <1>1, <1>5
    <3> QED
      BY <1>1, <1>5, <1>6, <2>2, <3>1, NextStarts
  <2>5. /\ Queued(s.reads, s.waiting, s.running)
        /\ Len(s.reads) = Len(ns)
        /\ \A j \in 1 .. Len(ns) :
               \/ s.reads[j] = ns[j]
               \/ /\ ns[j].where = "waiting"
                  /\ s.reads[j].where = "sent" /\ s.reads[j].by = ns[j].by
    BY <2>3, <2>4 DEF NextTaken
  <2> QED
    BY <1>5, <1>7, <2>5 DEF s
<1>9. CASE reads[i].by \notin Heavy
  <2>1. s.reads = ns /\ s.waiting = waiting /\ s.running = running
    BY <1>4, <1>9
  <2>2. i \notin TakenOf(reads)
    BY <1>9 DEF TakenOf
  <2>3. Queued(ns, waiting, running)
    BY <1>1, <1>5, <1>6, <2>2 DEF Queued
  <2>4. Queued(s.reads, s.waiting, s.running)
    BY <2>1, <2>3
  <2> QED
    BY <1>5, <1>7, <2>1, <2>4 DEF s
<1> QED
  BY <1>8, <1>9

(* The screen: a read that waits or is on its way is the one its region    *)
(* waits for, one being cut is not, and what a region is told came to the  *)
(* read it waits for.                                                      *)
ScreenHolds ==
    /\ Queued(reads, waiting, running)
    /\ current \in [Regions -> 0 .. Len(reads)]
    /\ view \in [Regions -> Views]
    /\ \A r \in Regions : current[r] # 0 => reads[current[r]].by = r
    /\ \A i \in 1 .. Len(reads) :
           /\ reads[i].where \in {"waiting", "sent"} => current[reads[i].by] = i
           /\ reads[i].where = "leaving" => current[reads[i].by] # i
    /\ \A r \in Regions :
           view[r] # "loading" =>
             /\ current[r] # 0 /\ reads[current[r]].where = "over"
             /\ reads[current[r]].what = view[r]

LEMMA ScreenStarts == LedgerAssumption /\ Init => ScreenHolds
<1> SUFFICES ASSUME LedgerAssumption, Init PROVE ScreenHolds
  OBVIOUS
<1>1. /\ reads = <<>> /\ waiting = <<>> /\ running = 0 /\ Slots \in Nat
      /\ current = [r \in Regions |-> 0] /\ view = [r \in Regions |-> "loading"]
  BY DEF LedgerAssumption, Init
<1>2. Len(reads) = 0 /\ Len(waiting) = 0
  BY <1>1, EmptySeq
<1>3. reads \in Seq(ReadRows) /\ waiting \in Seq(1 .. Len(reads))
  BY <1>1, EmptySeq
<1>4. TakenOf(reads) = {}
  BY <1>2, <1>3, TakenFinite DEF TakenOf
<1>5. Cardinality(TakenOf(reads)) = 0
  BY <1>4, FS_EmptySet
<1>6. Queued(reads, waiting, running)
  BY <1>1, <1>2, <1>3, <1>5 DEF Queued
<1> QED
  BY <1>1, <1>2, <1>6 DEF ScreenHolds, Views

LEMMA ScreenShapes ==
    ASSUME ScreenHolds
    PROVE  /\ Len(reads) \in Nat /\ DOMAIN reads = 1 .. Len(reads)
           /\ \A i \in 1 .. Len(reads) :
                  /\ reads[i] \in ReadRows /\ reads[i].by \in Regions
                  /\ reads[i].where \in {"waiting", "sent", "leaving", "over"}
<1>1. reads \in Seq(ReadRows)
  BY DEF ScreenHolds, Queued
<1>2. \A i \in 1 .. Len(reads) : reads[i] \in ReadRows
  BY <1>1, ElementOfSeq
<1> QED
  BY <1>1, <1>2, TakenFinite DEF ReadRows

LEMMA AskHolds ==
    ASSUME LedgerAssumption, ScreenHolds, NEW r \in Regions, Ask(r)
    PROVE  ScreenHolds'
<1> DEFINE s == Left(current[r])
           t == Runs(s, r)
<1>1. reads' = t.reads /\ waiting' = t.waiting /\ running' = t.running
  BY DEF Ask, Becomes
<1>2. /\ current' = [current EXCEPT ![r] = Len(reads) + 1]
      /\ view' = [view EXCEPT ![r] = "loading"]
  BY DEF Ask
<1> HIDE DEF t, s
<1>3. /\ Queued(s.reads, s.waiting, s.running)
      /\ Len(s.reads) = Len(reads)
      /\ \A j \in 1 .. Len(reads) :
             /\ s.reads[j].by = reads[j].by
             /\ j # current[r] => s.reads[j] = reads[j]
             /\ j = current[r] => s.reads[j].where \in {"over", "leaving"}
  <2>1. Queued(reads, waiting, running) /\ current[r] \in 0 .. Len(reads)
    BY DEF ScreenHolds
  <2> QED
    BY <2>1, LeftQueue DEF s
<1>4. /\ Queued(t.reads, t.waiting, t.running)
      /\ Len(t.reads) = Len(s.reads) + 1
      /\ \A j \in 1 .. Len(s.reads) : t.reads[j] = s.reads[j]
      /\ t.reads[Len(s.reads) + 1].by = r
      /\ t.reads[Len(s.reads) + 1].where \in {"sent", "waiting"}
  BY <1>3, RunsQueue DEF t, LedgerAssumption
<1>5. Len(reads) \in Nat /\ \A i \in 1 .. Len(reads) : reads[i].by \in Regions
  BY ScreenShapes
<1>6. Queued(reads', waiting', running')
  BY <1>1, <1>4
<1>7. Len(reads') = Len(reads) + 1 /\ \A j \in 1 .. Len(reads) : reads'[j] = s.reads[j]
  BY <1>1, <1>3, <1>4
<1>8. reads'[Len(reads) + 1].by = r /\ reads'[Len(reads) + 1].where \in {"sent", "waiting"}
  BY <1>1, <1>3, <1>4
<1>9. current' \in [Regions -> 0 .. Len(reads')] /\ view' \in [Regions -> Views]
  BY <1>2, <1>5, <1>7 DEF ScreenHolds, Views
<1>10. \A j \in 1 .. Len(reads) : reads[j].by = r /\ j # current[r] => reads[j].where \in {"over", "leaving"}
  BY ScreenShapes DEF ScreenHolds
<1>11. \A pg \in Regions : current'[pg] # 0 => reads'[current'[pg]].by = pg
  <2> SUFFICES ASSUME NEW pg \in Regions, current'[pg] # 0 PROVE reads'[current'[pg]].by = pg
    OBVIOUS
  <2>1. CASE pg = r
    BY <1>2, <1>8, <2>1 DEF ScreenHolds
  <2>2. CASE pg # r
    <3>1. current'[pg] = current[pg] /\ current[pg] \in 1 .. Len(reads) /\ reads[current[pg]].by = pg
      BY <1>2, <1>5, <2>2 DEF ScreenHolds
    <3> QED
      BY <1>3, <1>7, <3>1
  <2> QED
    BY <2>1, <2>2
<1>12. ASSUME NEW i \in 1 .. Len(reads')
       PROVE  /\ reads'[i].where \in {"waiting", "sent"} => current'[reads'[i].by] = i
              /\ reads'[i].where = "leaving" => current'[reads'[i].by] # i
  <2>1. i \in 1 .. Len(reads) \/ i = Len(reads) + 1
    BY <1>5, <1>7
  <2>2. CASE i = Len(reads) + 1
    BY <1>2, <1>8, <2>2 DEF ScreenHolds
  <2>3. CASE i \in 1 .. Len(reads)
    <3>1. reads'[i].by = reads[i].by /\ reads[i].by \in Regions /\ i # Len(reads) + 1
      BY <1>3, <1>5, <1>7, <2>3
    <3>2. CASE reads[i].by = r
      <4>1. reads'[i].where \in {"over", "leaving"}
        BY <1>3, <1>7, <1>10, <2>3, <3>2
      <4>2. current'[r] = Len(reads) + 1
        BY <1>2 DEF ScreenHolds
      <4> QED
        BY <3>1, <3>2, <4>1, <4>2
    <3>3. CASE reads[i].by # r
      <4>1. i # current[r]
        BY <1>5, <2>3, <3>3 DEF ScreenHolds
      <4>2. reads'[i] = reads[i] /\ current'[reads[i].by] = current[reads[i].by]
        BY <1>2, <1>3, <1>7, <2>3, <3>1, <3>3, <4>1 DEF ScreenHolds
      <4> QED
        BY <2>3, <3>1, <4>2 DEF ScreenHolds
    <3> QED
      BY <3>2, <3>3
  <2> QED
    BY <2>1, <2>2, <2>3
<1>13. ASSUME NEW pg \in Regions, view'[pg] # "loading"
       PROVE  /\ current'[pg] # 0 /\ reads'[current'[pg]].where = "over"
              /\ reads'[current'[pg]].what = view'[pg]
  <2>1. pg # r
    BY <1>2, <1>13 DEF ScreenHolds
  <2>2. view'[pg] = view[pg] /\ current'[pg] = current[pg]
    BY <1>2, <2>1 DEF ScreenHolds
  <2>3. /\ current[pg] # 0 /\ reads[current[pg]].where = "over" /\ reads[current[pg]].what = view[pg]
        /\ current[pg] \in 1 .. Len(reads) /\ reads[current[pg]].by = pg
    BY <1>5, <1>13, <2>2 DEF ScreenHolds
  <2>4. current[pg] # current[r]
    <3>1. current[r] # 0 => reads[current[r]].by = r
      BY DEF ScreenHolds
    <3> QED
      BY <2>1, <2>3, <3>1
  <2> QED
    BY <1>3, <1>7, <2>2, <2>3, <2>4
<1> QED
  BY <1>6, <1>9, <1>11, <1>12, <1>13 DEF ScreenHolds

LEMMA LeaveHolds ==
    ASSUME LedgerAssumption, ScreenHolds, NEW r \in Regions, Leave(r)
    PROVE  ScreenHolds'
<1> DEFINE s == Left(current[r])
<1>1. reads' = s.reads /\ waiting' = s.waiting /\ running' = s.running
  BY DEF Leave, Becomes
<1>2. /\ current' = [current EXCEPT ![r] = 0] /\ view' = [view EXCEPT ![r] = "loading"]
  BY DEF Leave
<1> HIDE DEF s
<1>3. /\ Queued(s.reads, s.waiting, s.running)
      /\ Len(s.reads) = Len(reads)
      /\ \A j \in 1 .. Len(reads) :
             /\ s.reads[j].by = reads[j].by
             /\ j # current[r] => s.reads[j] = reads[j]
             /\ j = current[r] => s.reads[j].where \in {"over", "leaving"}
  <2>1. Queued(reads, waiting, running) /\ current[r] \in 0 .. Len(reads)
    BY DEF ScreenHolds
  <2> QED
    BY <2>1, LeftQueue DEF s
<1>5. Len(reads) \in Nat /\ \A i \in 1 .. Len(reads) : reads[i].by \in Regions
  BY ScreenShapes
<1>6. Queued(reads', waiting', running')
  BY <1>1, <1>3
<1>7. Len(reads') = Len(reads) /\ \A j \in 1 .. Len(reads) : reads'[j] = s.reads[j]
  BY <1>1, <1>3
<1>9. current' \in [Regions -> 0 .. Len(reads')] /\ view' \in [Regions -> Views]
  BY <1>2, <1>5, <1>7 DEF ScreenHolds, Views
<1>10. \A j \in 1 .. Len(reads) : reads[j].by = r /\ j # current[r] => reads[j].where \in {"over", "leaving"}
  BY ScreenShapes DEF ScreenHolds
<1>11. \A pg \in Regions : current'[pg] # 0 => reads'[current'[pg]].by = pg
  <2> SUFFICES ASSUME NEW pg \in Regions, current'[pg] # 0 PROVE reads'[current'[pg]].by = pg
    OBVIOUS
  <2>1. pg # r
    BY <1>2 DEF ScreenHolds
  <2>2. current'[pg] = current[pg] /\ current[pg] \in 1 .. Len(reads) /\ reads[current[pg]].by = pg
    BY <1>2, <1>5, <2>1 DEF ScreenHolds
  <2> QED
    BY <1>3, <1>7, <2>2
<1>12. ASSUME NEW i \in 1 .. Len(reads')
       PROVE  /\ reads'[i].where \in {"waiting", "sent"} => current'[reads'[i].by] = i
              /\ reads'[i].where = "leaving" => current'[reads'[i].by] # i
  <2>1. i \in 1 .. Len(reads) /\ reads'[i].by = reads[i].by /\ reads[i].by \in Regions /\ i # 0
    BY <1>3, <1>5, <1>7
  <2>2. CASE reads[i].by = r
    <3>1. reads'[i].where \in {"over", "leaving"}
      BY <1>3, <1>7, <1>10, <2>1, <2>2
    <3>2. current'[r] = 0
      BY <1>2 DEF ScreenHolds
    <3> QED
      BY <2>1, <2>2, <3>1, <3>2
  <2>3. CASE reads[i].by # r
    <3>1. i # current[r]
      BY <1>5, <2>1, <2>3 DEF ScreenHolds
    <3>2. reads'[i] = reads[i] /\ current'[reads[i].by] = current[reads[i].by]
      BY <1>2, <1>3, <1>7, <2>1, <2>3, <3>1 DEF ScreenHolds
    <3> QED
      BY <2>1, <3>2 DEF ScreenHolds
  <2> QED
    BY <2>2, <2>3
<1>13. ASSUME NEW pg \in Regions, view'[pg] # "loading"
       PROVE  /\ current'[pg] # 0 /\ reads'[current'[pg]].where = "over"
              /\ reads'[current'[pg]].what = view'[pg]
  <2>1. pg # r
    BY <1>2, <1>13 DEF ScreenHolds
  <2>2. view'[pg] = view[pg] /\ current'[pg] = current[pg]
    BY <1>2, <2>1 DEF ScreenHolds
  <2>3. /\ current[pg] # 0 /\ reads[current[pg]].where = "over" /\ reads[current[pg]].what = view[pg]
        /\ current[pg] \in 1 .. Len(reads) /\ reads[current[pg]].by = pg
    BY <1>5, <1>13, <2>2 DEF ScreenHolds
  <2>4. current[pg] # current[r]
    <3>1. current[r] # 0 => reads[current[r]].by = r
      BY DEF ScreenHolds
    <3> QED
      BY <2>1, <2>3, <3>1
  <2> QED
    BY <1>3, <1>7, <2>2, <2>3, <2>4
<1> QED
  BY <1>6, <1>9, <1>11, <1>12, <1>13 DEF ScreenHolds

(* One that is cut ends as aborted, and is no region's; the others end as  *)
(* something a region can be told.                                         *)
LEMMA EndsHolds ==
    ASSUME LedgerAssumption, ScreenHolds, NEW i \in 1 .. Len(reads),
           NEW what \in Kinds \cup {"aborted"}, Ends(i, what),
           \/ reads[i].where = "sent" /\ what \in Kinds
           \/ reads[i].where = "leaving"
    PROVE  ScreenHolds'
<1> DEFINE s == Freed(i, what)
           pg == reads[i].by
<1>1. reads' = s.reads /\ waiting' = s.waiting /\ running' = s.running
  BY DEF Ends, Becomes
<1>2. /\ current' = current
      /\ view' = IF current[pg] = i THEN [view EXCEPT ![pg] = Told(what)] ELSE view
  BY DEF Ends
<1> HIDE DEF s
<1>3. /\ Queued(s.reads, s.waiting, s.running)
      /\ Len(s.reads) = Len(reads)
      /\ s.reads[i].by = reads[i].by /\ s.reads[i].where = "over" /\ s.reads[i].what = what
      /\ \A j \in 1 .. Len(reads) : j # i =>
             \/ s.reads[j] = reads[j]
             \/ /\ reads[j].where = "waiting"
                /\ s.reads[j].where = "sent" /\ s.reads[j].by = reads[j].by
  BY FreedQueue DEF s, ScreenHolds, LedgerAssumption
<1>4. /\ Len(reads) \in Nat
      /\ \A j \in 1 .. Len(reads) : reads[j].by \in Regions
      /\ pg \in Regions
  BY ScreenShapes
<1>7. Queued(reads', waiting', running') /\ current' \in [Regions -> 0 .. Len(reads')]
  <2>1. Len(reads') = Len(reads)
    BY <1>1, <1>3
  <2> QED
    BY <1>1, <1>2, <1>3, <2>1 DEF ScreenHolds
<1>8. \A j \in 1 .. Len(reads) : reads'[j].by = reads[j].by
  BY <1>1, <1>3
<1>9. /\ \A r \in Regions : current'[r] # 0 => reads'[current'[r]].by = r
      /\ \A j \in 1 .. Len(reads') :
             /\ reads'[j].where \in {"waiting", "sent"} => current'[reads'[j].by] = j
             /\ reads'[j].where = "leaving" => current'[reads'[j].by] # j
  <2>1. ASSUME NEW r \in Regions, current'[r] # 0 PROVE reads'[current'[r]].by = r
    <3>1. current[r] \in 1 .. Len(reads) /\ current'[r] = current[r] /\ reads[current[r]].by = r
      BY <1>2, <1>4, <2>1 DEF ScreenHolds
    <3> QED
      BY <1>8, <3>1
  <2>2. ASSUME NEW j \in 1 .. Len(reads')
        PROVE  /\ reads'[j].where \in {"waiting", "sent"} => current'[reads'[j].by] = j
               /\ reads'[j].where = "leaving" => current'[reads'[j].by] # j
    <3>1. j \in 1 .. Len(reads) /\ reads'[j].by = reads[j].by /\ current' = current
      BY <1>1, <1>2, <1>3, <1>8
    <3>2. CASE j = i
      BY <1>1, <1>3, <3>2
    <3>3. CASE j # i /\ reads'[j] = reads[j]
      BY <3>1, <3>3 DEF ScreenHolds
    <3>4. CASE j # i /\ reads'[j] # reads[j]
      <4>1. reads[j].where = "waiting" /\ reads'[j].where = "sent"
        BY <1>1, <1>3, <3>1, <3>4
      <4> QED
        BY <3>1, <4>1 DEF ScreenHolds
    <3> QED
      BY <3>2, <3>3, <3>4
  <2> QED
    BY <2>1, <2>2
<1>5. CASE current[pg] = i
  <2>1. what \in Kinds /\ Told(what) = what
    BY <1>5 DEF ScreenHolds, Told, Kinds, GatewayAnswers, LedgerAnswers
  <2>2. view' = [view EXCEPT ![pg] = what]
    BY <1>2, <1>5, <2>1
  <2>3. view' \in [Regions -> Views]
    BY <2>1, <2>2 DEF ScreenHolds, Views
  <2>4. ASSUME NEW r \in Regions, view'[r] # "loading"
        PROVE  /\ current'[r] # 0 /\ reads'[current'[r]].where = "over"
               /\ reads'[current'[r]].what = view'[r]
    <3>1. CASE r = pg
      BY <1>1, <1>2, <1>3, <1>4, <1>5, <2>2, <3>1 DEF ScreenHolds
    <3>2. CASE r # pg
      <4>1. /\ view[r] = view'[r] /\ current[r] # 0 /\ current[r] \in 1 .. Len(reads)
            /\ reads[current[r]].where = "over" /\ reads[current[r]].what = view[r]
            /\ reads[current[r]].by = r
        BY <1>4, <2>2, <2>4, <3>2 DEF ScreenHolds
      <4>2. current[r] # i
        BY <3>2, <4>1
      <4>3. reads'[current[r]] = reads[current[r]]
        BY <1>1, <1>3, <4>1, <4>2
      <4> QED
        BY <1>2, <4>1, <4>3
    <3> QED
      BY <3>1, <3>2
  <2> QED
    BY <1>7, <1>8, <1>9, <2>3, <2>4 DEF ScreenHolds
<1>6. CASE current[pg] # i
  <2>1. view' = view
    BY <1>2, <1>6
  <2>2. ASSUME NEW r \in Regions, view'[r] # "loading"
        PROVE  /\ current'[r] # 0 /\ reads'[current'[r]].where = "over"
               /\ reads'[current'[r]].what = view'[r]
    <3>1. /\ current[r] # 0 /\ current[r] \in 1 .. Len(reads)
          /\ reads[current[r]].where = "over" /\ reads[current[r]].what = view[r]
          /\ reads[current[r]].by = r
      BY <1>4, <2>1, <2>2 DEF ScreenHolds
    <3>2. current[r] # i
      BY <1>6, <3>1
    <3>3. reads'[current[r]] = reads[current[r]]
      BY <1>1, <1>3, <3>1, <3>2
    <3> QED
      BY <1>2, <2>1, <3>1, <3>3
  <2>3. view' \in [Regions -> Views]
    BY <2>1 DEF ScreenHolds
  <2> QED
    BY <1>7, <1>8, <1>9, <2>2, <2>3 DEF ScreenHolds
<1> QED
  BY <1>5, <1>6

LEMMA ScreenKept ==
    LedgerAssumption /\ ScreenHolds /\ [Next]_(vars) => ScreenHolds'
<1> SUFFICES ASSUME LedgerAssumption, ScreenHolds, [Next]_(vars)
             PROVE  ScreenHolds'
  OBVIOUS
<1>1. ASSUME NEW r \in Regions, Ask(r)
      PROVE  ScreenHolds'
  BY <1>1, AskHolds
<1>2. ASSUME NEW r \in Regions, Leave(r)
      PROVE  ScreenHolds'
  BY <1>2, LeaveHolds
<1>3. ASSUME NEW i \in DOMAIN reads,
             Answered(i) \/ Unreachable(i) \/ TimesOut(i)
      PROVE  ScreenHolds'
  <2>1. i \in 1 .. Len(reads)
    BY ScreenShapes
  <2>2. \E what \in Kinds : Ends(i, what)
    BY <1>3 DEF Answered, Unreachable, TimesOut, Kinds, GatewayAnswers
  <2>3. reads[i].where = "sent"
    BY <1>3 DEF Answered, Unreachable, TimesOut
  <2> QED
    BY <2>1, <2>2, <2>3, EndsHolds
<1>4. ASSUME NEW i \in DOMAIN reads, Cut(i)
      PROVE  ScreenHolds'
  <2>1. i \in 1 .. Len(reads)
    BY ScreenShapes
  <2>2. reads[i].where = "leaving" /\ Ends(i, "aborted")
    BY <1>4 DEF Cut
  <2> QED
    BY <2>1, <2>2, EndsHolds
<1>5. CASE UNCHANGED <<reads, waiting, running, current, view>>
  BY <1>5 DEF ScreenHolds, Queued, TakenOf
<1> QED
  BY <1>1, <1>2, <1>3, <1>4, <1>5 DEF Next, ScreenSteps, vars

LEMMA TurnsHold == LedgerAssumption /\ ScreenHolds => TurnsTaken
<1> SUFFICES ASSUME LedgerAssumption, ScreenHolds PROVE TurnsTaken
  OBVIOUS
<1>1. /\ reads \in Seq(ReadRows) /\ waiting \in Seq(1 .. Len(reads)) /\ running \in 0 .. Slots
      /\ running = Cardinality(TakenOf(reads)) /\ (waiting # <<>> => running = Slots)
      /\ \A k \in 1 .. Len(waiting) : reads[waiting[k]].where = "waiting"
      /\ \A k, m \in 1 .. Len(waiting) : k < m => waiting[k] < waiting[m]
  BY DEF ScreenHolds, Queued
<1>2. Taken = TakenOf(reads)
  BY DEF Taken, InFlight, TakenOf
<1>3. running = Cardinality(Taken)
  BY <1>1, <1>2
<1>4. running <= Slots
  BY <1>1 DEF LedgerAssumption
<1>5. DOMAIN waiting = 1 .. Len(waiting) /\ Len(waiting) \in Nat
      /\ \A n \in 1 .. Len(waiting) : waiting[n] \in 1 .. Len(reads)
  BY <1>1, LenProperties, ElementOfSeq
<1>6. ASSUME NEW n \in DOMAIN waiting
      PROVE  current[reads[waiting[n]].by] = waiting[n] /\ (n > 1 => waiting[n - 1] < waiting[n])
  <2>1. current[reads[waiting[n]].by] = waiting[n]
    BY <1>1, <1>5 DEF ScreenHolds
  <2>2. n \in Nat /\ (n > 1 => n - 1 \in 1 .. Len(waiting) /\ n - 1 < n)
    BY <1>5
  <2> QED
    BY <1>1, <1>5, <2>1, <2>2
<1> QED
  BY <1>1, <1>3, <1>4, <1>6 DEF TurnsTaken

(* The heavy reads take turns, lib/ledger/requests.ts:HeavySlot: the count *)
(* is what is in flight, a place is never free while a read waits, and     *)
(* what waits is for a screen that still stands.                           *)
THEOREM TurnsAreTaken ==
    ASSUME LedgerAssumption
    PROVE  Spec => []TurnsTaken
<1>1. Init => ScreenHolds
  BY ScreenStarts
<1>2. ScreenHolds /\ [Next]_(vars) => ScreenHolds'
  BY ScreenKept
<1>3. ScreenHolds => TurnsTaken
  BY TurnsHold
<1> QED
  BY <1>1, <1>2, <1>3, PTL DEF Spec

(* What a region shows is the outcome of the read it waits for.            *)
THEOREM RegionsToldTheirOwn ==
    ASSUME LedgerAssumption
    PROVE  Spec => []ToldItsOwn
<1>1. Init => ScreenHolds
  BY ScreenStarts
<1>2. ScreenHolds /\ [Next]_(vars) => ScreenHolds'
  BY ScreenKept
<1>3. ScreenHolds => ToldItsOwn
  BY DEF ScreenHolds, ToldItsOwn
<1> QED
  BY <1>1, <1>2, <1>3, PTL DEF Spec

-----------------------------------------------------------------------------
(* The walks.                                                              *)

Above(S, k) == {j \in S : j > k}

LEMMA GreatestOf ==
    ASSUME MaxKey \in Nat, NEW T, T \subseteq Keys, T # {}
    PROVE  \E k \in T : \A m \in T : ~(m > k)
<1> DEFINE D == {MaxKey - k : k \in T}
<1>1. \A k \in T : k \in Nat /\ k <= MaxKey
  BY DEF Keys
<1>2. D \subseteq Nat /\ D # {}
  BY <1>1
<1> HIDE DEF D
<1>3. PICK d \in D : \A e \in D : ~(e < d)
  BY <1>2, LeastOf
<1>4. PICK k \in T : d = MaxKey - k
  BY <1>3 DEF D
<1>5. \A m \in T : ~(m > k)
  <2> SUFFICES ASSUME NEW m \in T, m > k PROVE FALSE
    OBVIOUS
  <2>1. MaxKey - m \in D
    BY DEF D
  <2>2. ~(MaxKey - m < MaxKey - k)
    BY <1>3, <1>4, <2>1
  <2> QED
    BY <1>1, <2>2
<1> QED
  BY <1>5

LEMMA KeysFinite ==
    ASSUME MaxKey \in Nat, NEW S, S \subseteq Keys
    PROVE  /\ IsFiniteSet(S) /\ Cardinality(S) \in Nat
           /\ \A T : T \subseteq S => IsFiniteSet(T) /\ Cardinality(T) \in Nat
                                       /\ Cardinality(T) <= Cardinality(S)
           /\ \A k \in S : k \in Nat
<1>1. IsFiniteSet(1 .. MaxKey)
  BY FS_Interval
<1>2. IsFiniteSet(S)
  BY <1>1, FS_Subset DEF Keys
<1>3. \A T : T \subseteq S => IsFiniteSet(T) /\ Cardinality(T) <= Cardinality(S)
  BY <1>2, FS_Subset
<1> QED
  BY <1>2, <1>3, FS_CardinalityType DEF Keys

(* The n newest of a list: with each, what is newer; never more than n,    *)
(* and n unless that is all.                                               *)
AreNewest(N, S, n) ==
    /\ N \subseteq S
    /\ \A d \in N, k \in S : k > d => k \in N
    /\ Cardinality(S) <= n => N = S
    /\ n >= 1 /\ S # {} => N # {}
    /\ Cardinality(N) <= n
    /\ N # S => Cardinality(N) >= n
    /\ \A k \in S \ N : Cardinality(Above(S, k)) >= n

LEMMA TheNewest ==
    ASSUME MaxKey \in Nat, NEW S, S \subseteq Keys, NEW n \in Nat,
           NEW N, N = Newest(S, n)
    PROVE  AreNewest(N, S, n)
<1>1. N = {k \in S : Cardinality(Above(S, k)) < n}
  BY DEF Newest, Above
<1>2. /\ IsFiniteSet(S) /\ Cardinality(S) \in Nat
      /\ \A T : T \subseteq S => IsFiniteSet(T) /\ Cardinality(T) \in Nat
                                  /\ Cardinality(T) <= Cardinality(S)
      /\ \A k \in S : k \in Nat
  BY KeysFinite
<1>3. \A k : Above(S, k) \subseteq S /\ IsFiniteSet(Above(S, k)) /\ Cardinality(Above(S, k)) \in Nat
  <2>1. \A k : Above(S, k) \subseteq S
    BY DEF Above
  <2> QED
    BY <1>2, <2>1
<1>4. N \subseteq S /\ \A k \in S \ N : Cardinality(Above(S, k)) >= n
  BY <1>1, <1>3
<1>5. ASSUME NEW d \in N, NEW k \in S, k > d
      PROVE  k \in N
  <2>1. Above(S, k) \subseteq Above(S, d)
    BY <1>2, <1>4, <1>5 DEF Above
  <2>2. Cardinality(Above(S, k)) <= Cardinality(Above(S, d))
    BY <1>3, <2>1, FS_Subset
  <2>3. Cardinality(Above(S, d)) < n
    BY <1>1
  <2> QED
    BY <1>1, <1>3, <2>2, <2>3
<1>6. ASSUME Cardinality(S) <= n PROVE N = S
  <2> SUFFICES ASSUME NEW k \in S PROVE Cardinality(Above(S, k)) < n
    BY <1>1
  <2>1. Above(S, k) \subseteq S \ {k}
    BY <1>2 DEF Above
  <2>2. IsFiniteSet(S \ {k}) /\ Cardinality(S \ {k}) = Cardinality(S) - 1
    BY <1>2, FS_RemoveElement
  <2>3. Cardinality(Above(S, k)) <= Cardinality(S \ {k})
    BY <2>1, <2>2, FS_Subset
  <2> QED
    BY <1>2, <1>3, <1>6, <2>2, <2>3
<1>7. ASSUME n >= 1, S # {} PROVE N # {}
  <2>1. PICK k \in S : \A m \in S : ~(m > k)
    BY <1>7, GreatestOf
  <2>2. Above(S, k) = {}
    BY <2>1 DEF Above
  <2>3. Cardinality(Above(S, k)) = 0
    BY <2>2, FS_EmptySet
  <2> QED
    BY <1>1, <1>7, <2>3
<1>8. Cardinality(N) <= n
  <2>1. CASE N = {}
    BY <2>1, FS_EmptySet
  <2>2. CASE N # {}
    <3>1. PICK m \in N : \A k \in N : ~(k < m)
      <4>1. N \subseteq Nat
        BY <1>2, <1>4
      <4> QED
        BY <2>2, <4>1, LeastOf
    <3>2. N \ {m} \subseteq Above(S, m)
      BY <1>2, <1>4, <3>1 DEF Above
    <3>3. Cardinality(N \ {m}) <= Cardinality(Above(S, m)) /\ Cardinality(Above(S, m)) < n
      BY <1>1, <1>3, <3>2, FS_Subset
    <3>4. Cardinality(N \ {m}) = Cardinality(N) - 1
      BY <1>2, <1>4, FS_RemoveElement
    <3> QED
      BY <1>2, <1>3, <1>4, <3>3, <3>4
  <2> QED
    BY <2>1, <2>2
<1>9. ASSUME N # S PROVE Cardinality(N) >= n
  <2>1. S \ N # {} /\ S \ N \subseteq Keys
    BY <1>4, <1>9
  <2>2. PICK pg \in S \ N : \A m \in S \ N : ~(m > pg)
    BY <2>1, GreatestOf
  <2>3. Above(S, pg) \subseteq N
    BY <2>2 DEF Above
  <2>4. Cardinality(Above(S, pg)) <= Cardinality(N)
    BY <1>2, <1>4, <2>3, FS_Subset
  <2> QED
    BY <1>2, <1>3, <1>4, <2>2, <2>4
<1> QED
  BY <1>4, <1>5, <1>6, <1>7, <1>8, <1>9 DEF AreNewest

(* A walk: what it got of the rows it began with, so far, and what the     *)
(* page in hand adds.  By cursor, everything from the cursor on, once; by  *)
(* offset, every row that fewer than offset rows stand before.             *)
WalkTyped ==
    /\ walk = [by |-> walk.by, st |-> walk.st, began |-> walk.began, cursor |-> walk.cursor,
               offset |-> walk.offset, page |-> walk.page, got |-> walk.got, n |-> walk.n]
    /\ rows \subseteq Keys /\ walk.began \subseteq rows
    /\ walk.by \in {"cursor", "offset"}
    /\ walk.st \in {"next", "out", "page", "done", "failed", "capped"}
    /\ walk.cursor \in 1 .. MaxKey + 1 /\ walk.offset \in Nat
    /\ walk.got \in [Keys -> Nat] /\ walk.n \in Nat
    /\ walk.page.data \subseteq Keys

Bounded ==
    /\ walk.n <= MaxPages
    /\ walk.st \in {"next", "out", "page"} => walk.n < MaxPages
    /\ walk.offset <= walk.n * Limit
    /\ walk.st = "page" => Cardinality(walk.page.data) <= Limit
    /\ \A k \in Keys : walk.got[k] <= walk.n

ByCursor ==
    /\ \A k \in Keys :
           /\ k < walk.cursor => walk.got[k] = 0
           /\ walk.got[k] <= 1
           /\ k \in walk.began /\ ~(k < walk.cursor) => walk.got[k] = 1
    /\ walk.st = "page" =>
           /\ \A k \in walk.page.data : k < walk.cursor
           /\ \A k \in walk.began, d \in walk.page.data : k < walk.cursor /\ k > d => k \in walk.page.data

ByOffset ==
    /\ \A k \in walk.began : Cardinality(Above(rows, k)) < walk.offset => walk.got[k] > 0
    /\ walk.st = "page" =>
           \A k \in walk.began :
               Cardinality(Above(rows, k)) < walk.offset + Cardinality(walk.page.data)
                 => walk.got[k] > 0 \/ k \in walk.page.data

WalkHolds ==
    /\ WalkTyped /\ Bounded
    /\ walk.by = "cursor" => ByCursor
    /\ walk.by = "offset" => ByOffset
    /\ walk.st = "page" /\ (~walk.page.more \/ walk.page.data = {}) =>
           \A k \in walk.began : walk.got[k] > 0 \/ k \in walk.page.data
    /\ walk.st = "done" => \A k \in walk.began : walk.got[k] > 0

LEMMA WalkStarts == LedgerAssumption /\ Init => WalkHolds
<1> SUFFICES ASSUME LedgerAssumption, Init PROVE WalkHolds
  OBVIOUS
<1>1. PICK by \in {"cursor", "offset"} :
          walk = [by |-> by, st |-> "next", began |-> rows, cursor |-> MaxKey + 1, offset |-> 0,
                  page |-> NoPage, got |-> [k \in Keys |-> 0], n |-> 0]
  BY DEF Init
<1>2. rows \subseteq Keys /\ MaxKey \in Nat /\ MaxPages \in Nat \ {0} /\ Limit \in Nat
  BY DEF Init, LedgerAssumption
<1>3. WalkTyped
  BY <1>1, <1>2 DEF WalkTyped, NoPage
<1>4. Bounded
  <2>1. 0 * Limit = 0
    BY <1>2
  <2> QED
    BY <1>1, <1>2, <2>1 DEF Bounded
<1>5. ByCursor
  BY <1>1, <1>2 DEF ByCursor, Keys
<1>6. ByOffset
  <2>1. \A k \in rows : Cardinality(Above(rows, k)) \in Nat
    <3>1. \A k : Above(rows, k) \subseteq rows
      BY DEF Above
    <3> QED
      BY <1>2, <3>1, KeysFinite
  <2> QED
    BY <1>1, <2>1 DEF ByOffset
<1> QED
  BY <1>1, <1>3, <1>4, <1>5, <1>6 DEF WalkHolds

LEMMA AskPageHolds ==
    ASSUME LedgerAssumption, WalkHolds, AskPage
    PROVE  WalkHolds'
<1>1. /\ walk.st = "next" /\ rows' = rows
      /\ walk' = [by |-> walk.by, st |-> "out", began |-> walk.began, cursor |-> walk.cursor,
                  offset |-> walk.offset, page |-> walk.page, got |-> walk.got, n |-> walk.n]
  BY DEF AskPage, WalkHolds, WalkTyped
<1> QED
  BY <1>1 DEF WalkHolds, WalkTyped, Bounded, ByCursor, ByOffset

LEMMA PageFailsHolds ==
    ASSUME LedgerAssumption, WalkHolds, PageFails
    PROVE  WalkHolds'
<1>1. /\ walk.st = "out" /\ rows' = rows
      /\ walk' = [by |-> walk.by, st |-> "failed", began |-> walk.began, cursor |-> walk.cursor,
                  offset |-> walk.offset, page |-> walk.page, got |-> walk.got, n |-> walk.n]
  BY DEF PageFails, WalkHolds, WalkTyped
<1> QED
  BY <1>1 DEF WalkHolds, WalkTyped, Bounded, ByCursor, ByOffset

LEMMA IngestHolds ==
    ASSUME LedgerAssumption, WalkHolds, Ingest
    PROVE  WalkHolds'
<1>1. PICK k \in Keys \ rows : rows' = rows \cup {k}
  BY DEF Ingest
<1>2. walk' = walk
  BY DEF Ingest
<1>3. WalkTyped' /\ Bounded'
  BY <1>1, <1>2 DEF WalkHolds, WalkTyped, Bounded
<1>4. \A j : Cardinality(Above(rows, j)) <= Cardinality(Above(rows', j))
             /\ Cardinality(Above(rows, j)) \in Nat /\ Cardinality(Above(rows', j)) \in Nat
  <2> SUFFICES ASSUME NEW j
               PROVE  /\ Cardinality(Above(rows, j)) <= Cardinality(Above(rows', j))
                      /\ Cardinality(Above(rows, j)) \in Nat /\ Cardinality(Above(rows', j)) \in Nat
    OBVIOUS
  <2>1. Above(rows, j) \subseteq Above(rows', j) /\ Above(rows', j) \subseteq Keys
        /\ Above(rows, j) \subseteq Keys
    BY <1>1 DEF Above, WalkHolds, WalkTyped
  <2> QED
    BY <2>1, KeysFinite DEF LedgerAssumption
<1>5. walk.by = "cursor" => ByCursor'
  BY <1>2 DEF WalkHolds, ByCursor
<1>6. walk.by = "offset" => ByOffset'
  <2> SUFFICES ASSUME walk.by = "offset" PROVE ByOffset'
    OBVIOUS
  <2>1. ASSUME NEW j \in walk.began, Cardinality(Above(rows', j)) < walk.offset
        PROVE  walk.got[j] > 0
    <3>1. Cardinality(Above(rows, j)) < walk.offset
      BY <1>4, <2>1 DEF WalkHolds, WalkTyped
    <3> QED
      BY <3>1 DEF WalkHolds, ByOffset
  <2>2. ASSUME walk.st = "page", NEW j \in walk.began,
               Cardinality(Above(rows', j)) < walk.offset + Cardinality(walk.page.data)
        PROVE  walk.got[j] > 0 \/ j \in walk.page.data
    <3>0. Cardinality(walk.page.data) \in Nat /\ walk.offset \in Nat
      BY KeysFinite DEF WalkHolds, WalkTyped, LedgerAssumption
    <3>1. Cardinality(Above(rows, j)) < walk.offset + Cardinality(walk.page.data)
      BY <1>4, <2>2, <3>0
    <3> QED
      BY <2>2, <3>1 DEF WalkHolds, ByOffset
  <2> QED
    BY <1>2, <2>1, <2>2 DEF ByOffset
<1> QED
  BY <1>2, <1>3, <1>5, <1>6 DEF WalkHolds

LEMMA ServePageHolds ==
    ASSUME LedgerAssumption, WalkHolds, ServePage
    PROVE  WalkHolds'
<1>1. PICK given \in 1 .. Limit :
          walk' = [walk EXCEPT !.st = "page",
                     !.page = [data |-> Newest(Rest, given),
                               more |-> Cardinality(Rest) > given]]
  BY DEF ServePage
<1>2. walk.st = "out" /\ rows' = rows
  BY DEF ServePage
<1> DEFINE rest == Rest
           data == Newest(rest, given)
<1>3. /\ walk' = [by |-> walk.by, st |-> "page", began |-> walk.began, cursor |-> walk.cursor,
                  offset |-> walk.offset, page |-> walk'.page, got |-> walk.got, n |-> walk.n]
      /\ walk'.page.data = data
      /\ walk'.page.more <=> Cardinality(rest) > given
  <2> DEFINE sheet == [data |-> data, more |-> Cardinality(rest) > given]
  <2>1. walk' = [walk EXCEPT !.st = "page", !.page = sheet]
    BY <1>1
  <2>2. sheet.data = data /\ (sheet.more <=> Cardinality(rest) > given)
    BY Zenon
  <2> HIDE DEF sheet, data, rest
  <2>3. walk' = [by |-> walk.by, st |-> "page", began |-> walk.began, cursor |-> walk.cursor,
                 offset |-> walk.offset, page |-> sheet, got |-> walk.got, n |-> walk.n]
    BY <2>1 DEF WalkHolds, WalkTyped
  <2>4. walk'.page = sheet
    BY <2>3
  <2> QED
    BY <2>2, <2>3, <2>4
<1>4. /\ MaxKey \in Nat /\ Limit \in Nat /\ given \in Nat /\ given >= 1 /\ given <= Limit
      /\ rows \subseteq Keys /\ walk.offset \in Nat
  BY DEF LedgerAssumption, WalkHolds, WalkTyped
<1>5. rest \subseteq rows /\ rest \subseteq Keys
  BY <1>4 DEF Rest
<1>6. rest = IF walk.by = "cursor" THEN {k \in rows : k < walk.cursor}
             ELSE rows \ Newest(rows, walk.offset)
  BY DEF Rest
<1> HIDE DEF rest
<1>7. data = Newest(rest, given)
  OBVIOUS
<1> HIDE DEF data
<1>8. /\ data \subseteq rest
      /\ \A d \in data, k \in rest : k > d => k \in data
      /\ Cardinality(rest) <= given => data = rest
      /\ rest # {} => data # {}
      /\ Cardinality(data) <= given
      /\ \A k \in rest \ data : Cardinality(Above(rest, k)) >= given
  <2>1. AreNewest(data, rest, given)
    BY <1>4, <1>5, <1>7, TheNewest
  <2> QED
    BY <1>4, <2>1 DEF AreNewest
<1>9. Cardinality(data) \in Nat /\ Cardinality(rest) \in Nat
  BY <1>4, <1>5, <1>8, KeysFinite
<1>10. ~walk'.page.more \/ data = {} => data = rest
  BY <1>3, <1>4, <1>8, <1>9
<1>11. WalkTyped' /\ Bounded'
  BY <1>2, <1>3, <1>4, <1>5, <1>8, <1>9 DEF WalkHolds, WalkTyped, Bounded
<1>12. CASE walk.by = "cursor"
  <2>1. rest = {k \in rows : k < walk.cursor}
    BY <1>6, <1>12
  <2>2. walk.began \subseteq rows /\ ByCursor
    BY <1>12 DEF WalkHolds, WalkTyped
  <2>3. ByCursor'
    BY <1>3, <1>8, <2>1, <2>2 DEF ByCursor
  <2>4. data = rest => \A k \in walk.began : walk.got[k] > 0 \/ k \in data
    BY <1>4, <2>1, <2>2 DEF ByCursor
  <2> QED
    BY <1>3, <1>10, <1>11, <1>12, <2>3, <2>4 DEF WalkHolds
<1>13. CASE walk.by = "offset"
  <2> DEFINE before == Newest(rows, walk.offset)
  <2>1. rest = rows \ before
    BY <1>6, <1>13
  <2>2. walk.began \subseteq rows /\ ByOffset
    BY <1>13 DEF WalkHolds, WalkTyped
  <2>3. before = Newest(rows, walk.offset)
    OBVIOUS
  <2>a. before = {k \in rows : Cardinality(Above(rows, k)) < walk.offset}
    BY DEF Newest, Above
  <2> HIDE DEF before
  <2>4. /\ before \subseteq rows
        /\ \A d \in before, k \in rows : k > d => k \in before
        /\ before # rows => Cardinality(before) >= walk.offset
    <3>1. AreNewest(before, rows, walk.offset)
      BY <1>4, <2>3, TheNewest
    <3> QED
      BY <3>1 DEF AreNewest
  <2>5. \A k \in walk.began : k \in before => walk.got[k] > 0
    BY <2>2, <2>a DEF ByOffset
  <2>6. ASSUME NEW k \in walk.began,
               Cardinality(Above(rows, k)) < walk.offset + Cardinality(data),
               ~(walk.got[k] > 0), k \notin data
        PROVE  FALSE
    <3>1. k \in rest \ data /\ k \in Nat
      <4>1. k \in rows /\ k \notin before
        BY <2>2, <2>5, <2>6
      <4>2. k \in Nat
        <5>1. rows \subseteq Keys
          BY <1>4
        <5> QED
          BY <4>1, <5>1 DEF Keys
      <4> QED
        BY <2>1, <2>6, <4>1, <4>2
    <3>2. Cardinality(Above(rest, k)) >= given
      BY <1>8, <3>1
    <3>3. before \subseteq Above(rows, k)
      <4> SUFFICES ASSUME NEW d \in before PROVE d > k
        BY <2>4 DEF Above
      <4>1. d \in Nat /\ d # k /\ ~(k > d)
        BY <1>4, <2>1, <2>4, <3>1 DEF Keys
      <4> QED
        BY <3>1, <4>1
    <3>4. Above(rows, k) = before \cup Above(rest, k) /\ before \cap Above(rest, k) = {}
      BY <2>1, <3>3 DEF Above
    <3>5. /\ IsFiniteSet(before) /\ IsFiniteSet(Above(rest, k))
          /\ Cardinality(before) \in Nat /\ Cardinality(Above(rest, k)) \in Nat
      <4>1. before \subseteq Keys /\ Above(rest, k) \subseteq Keys
        BY <1>4, <1>5, <2>4 DEF Above
      <4> QED
        BY <1>4, <4>1, KeysFinite
    <3>6. Cardinality(Above(rows, k)) = Cardinality(before) + Cardinality(Above(rest, k))
      <4>1. Cardinality({}) = 0
        BY FS_EmptySet
      <4>2. Cardinality(before \cup Above(rest, k))
              = Cardinality(before) + Cardinality(Above(rest, k)) - Cardinality(before \cap Above(rest, k))
        BY <3>5, FS_Union
      <4> QED
        BY <3>4, <3>5, <4>1, <4>2
    <3>7. Cardinality(before) >= walk.offset
      BY <2>1, <2>4, <3>1
    <3> QED
      BY <1>4, <1>8, <1>9, <2>6, <3>2, <3>5, <3>6, <3>7
  <2>7. ByOffset'
    BY <1>2, <1>3, <2>2, <2>6 DEF ByOffset
  <2>8. data = rest => \A k \in walk.began : walk.got[k] > 0 \/ k \in data
    BY <2>1, <2>2, <2>5
  <2> QED
    BY <1>3, <1>10, <1>11, <1>13, <2>7, <2>8 DEF WalkHolds
<1> QED
  BY <1>12, <1>13 DEF WalkHolds, WalkTyped

LEMMA YieldHolds ==
    ASSUME LedgerAssumption, WalkHolds, Yield
    PROVE  WalkHolds'
<1> DEFINE data == walk.page.data
           last == ~walk.page.more \/ data = {}
           got == [k \in Keys |-> walk.got[k] + IF k \in data THEN 1 ELSE 0]
           cursor == IF data = {} THEN walk.cursor ELSE Min(data)
           st == IF last THEN "done" ELSE IF walk.n + 1 = MaxPages THEN "capped" ELSE "next"
           offset == walk.offset + Cardinality(data)
<1>1. /\ walk.st = "page" /\ rows' = rows
      /\ walk' = [by |-> walk.by, st |-> st, began |-> walk.began, cursor |-> cursor,
                  offset |-> offset, page |-> NoPage, got |-> got, n |-> walk.n + 1]
  <2>1. walk' = [walk EXCEPT
            !.got = [k \in Keys |-> @[k] + IF k \in data THEN 1 ELSE 0],
            !.n = @ + 1,
            !.cursor = IF data = {} THEN @ ELSE Min(data),
            !.offset = NextOffset,
            !.page = NoPage,
            !.st = IF last THEN "done" ELSE IF walk.n + 1 = MaxPages THEN "capped" ELSE "next"]
    BY DEF Yield
  <2>2. NextOffset = offset
    BY DEF NextOffset
  <2>3. walk' = [walk EXCEPT !.got = got, !.n = walk.n + 1, !.cursor = cursor, !.offset = offset,
                             !.page = NoPage, !.st = st]
    BY <2>1, <2>2
  <2> HIDE DEF got, cursor, offset, st
  <2>4. walk' = [by |-> walk.by, st |-> st, began |-> walk.began, cursor |-> cursor,
                 offset |-> offset, page |-> NoPage, got |-> got, n |-> walk.n + 1]
    BY <2>3 DEF WalkHolds, WalkTyped
  <2> QED
    BY <2>4 DEF Yield
<1>2. /\ walk'.by = walk.by /\ walk'.st = st /\ walk'.began = walk.began /\ walk'.cursor = cursor
      /\ walk'.offset = offset /\ walk'.page = NoPage /\ walk'.got = got /\ walk'.n = walk.n + 1
  <2> HIDE DEF got, cursor, offset, st
  <2> QED
    BY <1>1
<1>3. /\ MaxKey \in Nat /\ Limit \in Nat /\ MaxPages \in Nat
      /\ rows \subseteq Keys /\ walk.began \subseteq rows /\ data \subseteq Keys
      /\ walk.offset \in Nat /\ walk.n \in Nat /\ walk.n < MaxPages /\ walk.cursor \in 1 .. MaxKey + 1
      /\ walk.got \in [Keys -> Nat] /\ walk.by \in {"cursor", "offset"}
  BY <1>1 DEF LedgerAssumption, WalkHolds, WalkTyped, Bounded
<1>4. Cardinality(data) \in Nat /\ Cardinality(data) <= Limit
  BY <1>1, <1>3, KeysFinite DEF WalkHolds, Bounded
<1>5. got \in [Keys -> Nat]
      /\ \A k \in Keys : got[k] = IF k \in data THEN walk.got[k] + 1 ELSE walk.got[k]
  BY <1>3
<1>6. /\ data = {} => cursor = walk.cursor
      /\ data # {} => cursor \in data /\ \A k \in data : cursor <= k
  <2>1. CASE data # {}
    <3>1. data \subseteq Nat
      BY <1>3 DEF Keys
    <3> HIDE DEF data
    <3>2. PICK m \in data : \A k \in data : ~(k < m)
      BY <2>1, <3>1, LeastOf
    <3>3. m \in data /\ \A k \in data : m <= k
      BY <3>1, <3>2
    <3>4. Min(data) \in data /\ \A k \in data : Min(data) <= k
      BY <3>3 DEF Min
    <3> QED
      BY <2>1, <3>4
  <2> QED
    BY <2>1
<1>7. st \in {"next", "done", "capped"} /\ (st = "next" => walk.n + 1 # MaxPages) /\ (st = "done" => last)
  BY Zenon
<1> HIDE DEF got, cursor, st
<1>8. cursor \in 1 .. MaxKey + 1
  BY <1>3, <1>6 DEF Keys
<1>9. WalkTyped'
  BY <1>1, <1>2, <1>3, <1>4, <1>5, <1>7, <1>8 DEF WalkTyped, NoPage
<1>10. Bounded'
  <2>1. offset <= (walk.n + 1) * Limit
    <3>1. (walk.n + 1) * Limit = walk.n * Limit + Limit
      BY <1>3
    <3>2. walk.offset <= walk.n * Limit /\ walk.n * Limit \in Nat
      BY <1>3 DEF WalkHolds, Bounded
    <3> QED
      BY <1>3, <1>4, <3>1, <3>2
  <2>2. \A k \in Keys : got[k] <= walk.n + 1
    <3>1. \A k \in Keys : walk.got[k] <= walk.n /\ walk.got[k] \in Nat
      BY <1>3 DEF WalkHolds, Bounded
    <3> QED
      BY <1>3, <1>5, <3>1
  <2> QED
    BY <1>2, <1>3, <1>7, <2>1, <2>2 DEF Bounded
<1>11. walk.by = "cursor" => ByCursor'
  <2> SUFFICES ASSUME walk.by = "cursor" PROVE ByCursor'
    OBVIOUS
  <2>1. /\ ByCursor
        /\ \A k \in data : k < walk.cursor
        /\ \A k \in walk.began, d \in data : k < walk.cursor /\ k > d => k \in data
        /\ \A k \in Keys : k \in Nat /\ walk.got[k] \in Nat
    BY <1>1, <1>3 DEF WalkHolds, ByCursor, Keys
  <2> HIDE DEF data
  <2>2. cursor <= walk.cursor /\ cursor \in Nat /\ walk.cursor \in Nat
    BY <1>3, <1>6, <1>8, <2>1
  <2>3. ASSUME NEW k \in Keys
        PROVE  /\ k < cursor => got[k] = 0
               /\ got[k] <= 1
               /\ k \in walk.began /\ ~(k < cursor) => got[k] = 1
    <3>1. CASE k \in data
      <4>1. k < walk.cursor /\ walk.got[k] = 0 /\ got[k] = 1 /\ ~(k < cursor)
        BY <1>5, <1>6, <2>1, <2>2, <3>1 DEF ByCursor
      <4> QED
        BY <4>1
    <3>2. CASE k \notin data
      <4>1. got[k] = walk.got[k]
        BY <1>5, <3>2
      <4>2. k \in walk.began /\ ~(k < cursor) => ~(k < walk.cursor)
        BY <1>6, <2>1, <2>2, <3>2
      <4>3. k < cursor => k < walk.cursor
        BY <2>1, <2>2
      <4> QED
        BY <2>1, <4>1, <4>2, <4>3 DEF ByCursor
    <3> QED
      BY <3>1, <3>2
  <2> QED
    BY <1>2, <1>7, <2>3 DEF ByCursor
<1>12. walk.by = "offset" => ByOffset'
  <2> SUFFICES ASSUME walk.by = "offset" PROVE ByOffset'
    OBVIOUS
  <2>1. \A k \in walk.began :
            Cardinality(Above(rows, k)) < offset => walk.got[k] > 0 \/ k \in data
    BY <1>1 DEF WalkHolds, ByOffset
  <2>2. \A k \in walk.began : (walk.got[k] > 0 \/ k \in data) => got[k] > 0
    BY <1>3, <1>5
  <2> HIDE DEF offset
  <2> QED
    BY <1>1, <1>2, <1>7, <2>1, <2>2 DEF ByOffset
<1>13. st = "done" => \A k \in walk.began : got[k] > 0
  <2>1. last => \A k \in walk.began : walk.got[k] > 0 \/ k \in data
    BY <1>1 DEF WalkHolds
  <2> QED
    BY <1>3, <1>5, <1>7, <2>1
<1> QED
  BY <1>2, <1>7, <1>9, <1>10, <1>11, <1>12, <1>13 DEF WalkHolds

LEMMA WalkKept ==
    LedgerAssumption /\ WalkHolds /\ [Next]_(vars) => WalkHolds'
<1> SUFFICES ASSUME LedgerAssumption, WalkHolds, [Next]_(vars)
             PROVE  WalkHolds'
  OBVIOUS
<1>1. CASE UNCHANGED <<rows, walk>>
  BY <1>1 DEF WalkHolds, WalkTyped, Bounded, ByCursor, ByOffset
<1> QED
  BY <1>1, AskPageHolds, ServePageHolds, PageFailsHolds, YieldHolds, IngestHolds
  DEF Next, WalkSteps, vars

(* A walk that came to its end yielded every row it began with, whatever   *)
(* was ingested meanwhile; by cursor, nothing twice.                       *)
THEOREM WalksMissNothing ==
    ASSUME LedgerAssumption
    PROVE  Spec => []NothingMissed
<1>1. Init => WalkHolds
  BY WalkStarts
<1>2. WalkHolds /\ [Next]_(vars) => WalkHolds'
  BY WalkKept
<1>3. WalkHolds => NothingMissed
  BY DEF WalkHolds, ByCursor, NothingMissed
<1> QED
  BY <1>1, <1>2, <1>3, PTL DEF Spec

(* Every variable has its type; the bounds of the offset are the pages     *)
(* yielded, each within the limit.                                         *)
THEOREM LedgerTypes ==
    ASSUME LedgerAssumption
    PROVE  Spec => []TypeOK
<1>1. Init => ScreenHolds /\ WalkHolds
  BY ScreenStarts, WalkStarts
<1>2. ScreenHolds /\ WalkHolds /\ [Next]_(vars) => (ScreenHolds /\ WalkHolds)'
  BY ScreenKept, WalkKept
<1>3. ScreenHolds /\ WalkHolds => TypeOK
  <2> SUFFICES ASSUME ScreenHolds, WalkHolds PROVE TypeOK
    OBVIOUS
  <2>1. reads \in Seq(ReadRows) /\ waiting \in Seq(1 .. Len(reads)) /\ running \in 0 .. Slots
    BY DEF ScreenHolds, Queued
  <2>2. DOMAIN reads = 1 .. Len(reads)
    BY ScreenShapes
  <2>3. walk.offset \in 0 .. MaxPages * Limit
    <3>1. walk.offset \in Nat /\ walk.n \in Nat /\ walk.n <= MaxPages /\ walk.offset <= walk.n * Limit
          /\ MaxPages \in Nat /\ Limit \in Nat
      BY DEF WalkHolds, WalkTyped, Bounded, LedgerAssumption
    <3>2. walk.n * Limit <= MaxPages * Limit /\ MaxPages * Limit \in Nat
          /\ walk.n * Limit \in Nat
      BY <3>1
    <3> QED
      BY <3>1, <3>2
  <2>4. walk.got \in [Keys -> 0 .. MaxPages] /\ walk.n \in 0 .. MaxPages
    <3>1. \A k \in Keys : walk.got[k] \in 0 .. MaxPages
      BY DEF WalkHolds, WalkTyped, Bounded, LedgerAssumption
    <3> QED
      BY <3>1 DEF WalkHolds, WalkTyped, Bounded, LedgerAssumption
  <2>5. reads \in Seq([by : Regions, where : {"waiting", "sent", "leaving", "over"},
                       what : Kinds \cup {"nothing", "aborted"}])
    BY <2>1 DEF ReadRows
  <2> QED
    BY <2>1, <2>2, <2>3, <2>4, <2>5 DEF TypeOK, ScreenHolds, WalkHolds, WalkTyped
<1> QED
  BY <1>1, <1>2, <1>3, PTL DEF Spec

-----------------------------------------------------------------------------
(* Voices near by. *)

PeersAssumption == MaxSids \in Nat /\ MaxMics \in Nat

PeerRows == [there : BOOLEAN, sid : 0 .. MaxSids, pos : 0 .. 4, sub : Peers!Subscriptions,
             chain : 0 .. MaxMics, settled : BOOLEAN, waits : BOOLEAN, muted : BOOLEAN,
             gain : BOOLEAN, speaking : BOOLEAN]
RoomRows == [there : BOOLEAN, sid : 0 .. MaxSids, mic : 0 .. MaxMics, mics : 0 .. MaxMics,
             asked : BOOLEAN, coming : BOOLEAN, got : BOOLEAN, grants : BOOLEAN]
MyRows == [known : BOOLEAN, sent : BOOLEAN, fresh : BOOLEAN, list : BOOLEAN]

(* What the room has of the member.                                        *)
RoomFits(r) ==
    /\ r \in RoomRows
    /\ r.mic # 0 => r.there
    /\ r.coming \/ r.got => r.mic # 0
    /\ ~(r.coming /\ r.got)

(* The engine's peer q beside the room's record r: the chain is of the     *)
(* microphone that is received; and nobody muted is left audible.          *)
PeerBut(q, r, mute) ==
    /\ q \in PeerRows
    /\ q.there = r.there
    /\ q.there => q.muted = mute
    /\ q.chain # 0 <=> q.sub \in {"in-range", "unsubscribing"}
    /\ q.chain # 0 => q.there /\ q.chain = r.mic /\ r.got

PeerFits(q, r, mute) == PeerBut(q, r, mute) /\ (q.gain => ~q.muted)

(* What has been said and told is of the session the engine has looked at. *)
WordsFit(q, m, t, s) ==
    /\ m \in MyRows
    /\ q.there /\ q.pos # 0 => s = q.sid
    /\ q.there /\ m.sent => t = q.sid

GoodPeers ==
    /\ link \in {"up", "signal", "full"}
    /\ RoomFits(rm)
    /\ PeerFits(p, rm, muted)
    /\ WordsFit(p, me, told, said)
    /\ link = "full" => ~me.list
    /\ muted \in BOOLEAN

LEMMA CheckedFits ==
    ASSUME PeersAssumption, GoodPeers, rm.there
    PROVE  LET q == Peers!CheckedSession(p, rm)
           IN  /\ PeerFits(q, rm, muted) /\ q.there /\ q.sid = rm.sid
               /\ q.pos # 0 => said = rm.sid
               /\ Peers!NewSession(p, rm) => q.pos = 0
               /\ ~Peers!NewSession(p, rm) => q = p
<1>1. /\ p \in PeerRows /\ rm \in RoomRows /\ p.there /\ (p.pos # 0 => said = p.sid)
      /\ PeerFits(p, rm, muted)
  BY DEF GoodPeers, PeerFits, PeerBut, RoomFits, WordsFit
<1>2. CASE Peers!NewSession(p, rm)
  <2>1. Peers!CheckedSession(p, rm)
          = [there |-> TRUE, sid |-> rm.sid, pos |-> 0, sub |-> "out-of-range", chain |-> 0,
             settled |-> TRUE, waits |-> FALSE, muted |-> p.muted, gain |-> p.gain, speaking |-> FALSE]
    BY <1>2 DEF Peers!CheckedSession, Peers!OtherSession, Peers!NoOne, Peers!Unknown
  <2>2. /\ p.muted \in BOOLEAN /\ p.gain \in BOOLEAN /\ rm.sid \in 0 .. MaxSids
        /\ 0 \in 0 .. 4 /\ 0 \in 0 .. MaxMics /\ "out-of-range" \in Peers!Subscriptions
        /\ TRUE \in BOOLEAN /\ FALSE \in BOOLEAN
    BY <1>1 DEF PeerRows, RoomRows, Peers!Subscriptions, PeersAssumption
  <2>3. Peers!CheckedSession(p, rm) \in PeerRows
    <3>1. [there |-> TRUE, sid |-> rm.sid, pos |-> 0, sub |-> "out-of-range", chain |-> 0,
           settled |-> TRUE, waits |-> FALSE, muted |-> p.muted, gain |-> p.gain, speaking |-> FALSE]
            \in PeerRows
      BY <2>2, Zenon DEF PeerRows
    <3> QED
      BY <2>1, <3>1, Zenon
  <2>4. LET q == Peers!CheckedSession(p, rm)
        IN  /\ q.there /\ q.sid = rm.sid /\ q.pos = 0 /\ q.sub = "out-of-range" /\ q.chain = 0
            /\ q.muted = p.muted /\ q.gain = p.gain
    BY <2>1
  <2> QED
    BY <1>1, <1>2, <2>3, <2>4 DEF PeerFits, PeerBut
<1>3. CASE ~Peers!NewSession(p, rm)
  <2>1. Peers!CheckedSession(p, rm) = p /\ p.sid = rm.sid
    BY <1>1, <1>3 DEF Peers!CheckedSession, Peers!NewSession
  <2> QED
    BY <1>1, <1>3, <2>1
<1> QED
  BY <1>2, <1>3

PeerSet(e, q, s, t, g) ==
    /\ e \in PeerRows
    /\ e.there = q.there /\ e.sid = q.sid /\ e.pos = q.pos /\ e.chain = q.chain
    /\ e.muted = q.muted /\ e.sub = s /\ e.gain = g

LEMMA PeerWith ==
    ASSUME NEW q \in PeerRows, NEW s \in Peers!Subscriptions, NEW t \in BOOLEAN, NEW g \in BOOLEAN
    PROVE  PeerSet([q EXCEPT !.sub = s, !.settled = t, !.gain = g], q, s, t, g)
BY DEF PeerRows, PeerSet

RoomSet(n, r, a, c) ==
    /\ n \in RoomRows
    /\ n.there = r.there /\ n.sid = r.sid /\ n.mic = r.mic /\ n.coming = c /\ n.got = r.got

LEMMA RoomWith ==
    ASSUME NEW r \in RoomRows, NEW a \in BOOLEAN, NEW c \in BOOLEAN
    PROVE  RoomSet([r EXCEPT !.asked = a, !.coming = c], r, a, c)
BY DEF RoomRows, RoomSet

Settled(e, n, q, r, mute) ==
    /\ PeerFits(e, n, mute) /\ RoomFits(n)
    /\ e.there = q.there /\ e.sid = q.sid /\ e.pos = q.pos
    /\ n.there = r.there /\ n.sid = r.sid

(* evaluate, whatever it comes to.                                         *)
LEMMA EvaluatedFits ==
    ASSUME PeersAssumption, NEW q, NEW r, NEW m, NEW mute \in BOOLEAN,
           RoomFits(r), PeerBut(q, r, mute)
    PROVE  Settled(Peers!Evaluated(q, r, m),
                   [r EXCEPT !.asked = Peers!Asked(q, r, m), !.coming = @ /\ r.mic # 0], q, r, mute)
<1> DEFINE sub == CASE Peers!Takes(q, r, m) -> "subscribing"
                    [] Peers!LetsGo(q, r, m) -> "unsubscribing"
                    [] Peers!Withdraws(q, r, m) \/ Peers!MicWent(q, r) -> "out-of-range"
                    [] OTHER -> q.sub
           asks == Peers!Takes(q, r, m) \/ Peers!LetsGo(q, r, m) \/ Peers!Withdraws(q, r, m)
           set == q.settled /\ ~asks
           gain == Peers!Gain(q, m)
           asked == Peers!Asked(q, r, m)
           e == Peers!Evaluated(q, r, m)
           n == [r EXCEPT !.asked = asked, !.coming = @ /\ r.mic # 0]
<1>1. q \in PeerRows /\ r \in RoomRows
  BY DEF PeerBut, RoomFits
<1>2. /\ q.chain # 0 <=> sub \in {"in-range", "unsubscribing"}
      /\ sub \in Peers!Subscriptions
  BY <1>1 DEF PeerBut, Peers!Takes, Peers!LetsGo, Peers!Withdraws, Peers!MicWent, PeerRows,
         Peers!Subscriptions
<1>3. set \in BOOLEAN /\ gain \in BOOLEAN /\ asked \in BOOLEAN /\ (gain => ~q.muted)
  <2>1. r.asked \in BOOLEAN
    BY <1>1 DEF RoomRows
  <2> QED
    BY <2>1 DEF Peers!Gain, Peers!Asked
<1>4. PeerSet(e, q, sub, set, gain)
  <2>1. e = [q EXCEPT !.sub = sub, !.settled = set, !.gain = gain]
    BY DEF Peers!Evaluated
  <2> HIDE DEF sub, set, gain, e
  <2> QED
    BY <1>1, <1>2, <1>3, <2>1, PeerWith, Zenon
<1>5. RoomSet(n, r, asked, r.coming)
  <2> DEFINE c == r.coming /\ r.mic # 0
  <2>1. c = r.coming /\ c \in BOOLEAN
    BY <1>1 DEF RoomRows, RoomFits
  <2>2. n = [r EXCEPT !.asked = asked, !.coming = c]
    BY DEF n
  <2> HIDE DEF asked, n, c
  <2>3. RoomSet(n, r, asked, c)
    BY <1>1, <1>3, <2>1, <2>2, RoomWith, Zenon
  <2> QED
    BY <2>1, <2>3
<1> HIDE DEF sub, set, gain, e, asked, n
<1>10. PeerFits(e, n, mute) /\ RoomFits(n)
  BY <1>2, <1>3, <1>4, <1>5 DEF PeerFits, PeerBut, RoomFits, PeerSet, RoomSet
<1> QED
  <2>1. Settled(e, n, q, r, mute)
    BY <1>4, <1>5, <1>10 DEF PeerSet, RoomSet, Settled
  <2> QED
    BY <2>1 DEF e, n, asked

(* The list of who may receive my microphone, worked out.                  *)
ListSet(x, m, listed) ==
    x \in MyRows /\ x.known = m.known /\ x.sent = m.sent /\ (x.list <=> listed)

LEMMA PermitsFit ==
    ASSUME NEW q, NEW r, NEW m \in MyRows, NEW x \in Peers!Permissions(q, r, m)
    PROVE  ListSet(x, m, Peers!Listed(q, r, m))
<1> DEFINE listed == Peers!Listed(q, r, m)
<1>1. listed \in BOOLEAN
  BY DEF Peers!Listed
<1>2. PICK f \in BOOLEAN : x = [m EXCEPT !.list = listed, !.fresh = f]
  <2>1. m.fresh \in BOOLEAN
    BY DEF MyRows
  <2> QED
    BY <2>1, Zenon DEF Peers!Permissions
<1> HIDE DEF listed
<1>3. \A l, y \in BOOLEAN : ListSet([m EXCEPT !.list = l, !.fresh = y], m, l)
  BY DEF ListSet, MyRows
<1>4. ListSet(x, m, listed)
  BY <1>1, <1>2, <1>3, Zenon
<1> QED
  BY <1>4 DEF listed

LEMMA SessionFits ==
    ASSUME PeersAssumption, GoodPeers, rm.there, NEW m \in Peers!AfterSession(p, rm, me)
    PROVE  /\ m \in MyRows /\ m.known = me.known
           /\ Peers!NewSession(p, rm) => ~m.sent /\ ~m.list
           /\ ~Peers!NewSession(p, rm) => m = me
<1>1. me \in MyRows
  BY DEF GoodPeers, WordsFit
<1>2. CASE Peers!NewSession(p, rm)
  <2> DEFINE n == [me EXCEPT !.sent = FALSE]
             q == Peers!CheckedSession(p, rm)
  <2>1. n \in MyRows /\ n.known = me.known /\ n.sent = FALSE
    BY <1>1 DEF MyRows
  <2>2. m \in Peers!Permissions(q, rm, n)
    BY <1>2 DEF Peers!AfterSession
  <2>3. q.pos = 0
    BY <1>2, CheckedFits
  <2> HIDE DEF n, q
  <2>4. ListSet(m, n, Peers!Listed(q, rm, n))
    BY <2>1, <2>2, PermitsFit, Zenon
  <2>5. ~Peers!Listed(q, rm, n)
    BY <2>3 DEF Peers!Listed, Peers!Allowed, Peers!Near, Peers!Permit
  <2> QED
    BY <1>2, <2>1, <2>4, <2>5 DEF ListSet
<1>3. CASE ~Peers!NewSession(p, rm)
  BY <1>1, <1>3 DEF Peers!AfterSession
<1> QED
  BY <1>2, <1>3

(* The chain is let go of. *)
SilentSet(e, q) ==
    /\ e \in PeerRows /\ e.there = q.there /\ e.sid = q.sid /\ e.pos = q.pos /\ e.muted = q.muted
    /\ e.gain = q.gain /\ e.chain = 0 /\ e.sub = "out-of-range"

LEMMA UnsubscribedFits ==
    ASSUME PeersAssumption, NEW q \in PeerRows
    PROVE  SilentSet(Peers!Unsubscribed(q), q)
<1>1. 0 \in 0 .. MaxMics /\ "out-of-range" \in Peers!Subscriptions
  BY DEF PeersAssumption, Peers!Subscriptions
<1> DEFINE h == [q EXCEPT !.chain = 0, !.speaking = FALSE]
<1>2. /\ h \in PeerRows /\ h.there = q.there /\ h.sid = q.sid /\ h.pos = q.pos
      /\ h.muted = q.muted /\ h.gain = q.gain /\ h.chain = 0
  BY <1>1 DEF PeerRows
<1>3. Peers!Unsubscribed(q) = [h EXCEPT !.sub = "out-of-range"]
  BY DEF Peers!Unsubscribed, Peers!Silent
<1> HIDE DEF h
<1>4. SilentSet([h EXCEPT !.sub = "out-of-range"], q)
  BY <1>1, <1>2 DEF PeerRows, SilentSet
<1> QED
  BY <1>3, <1>4

LEMMA NoOneFits ==
    ASSUME PeersAssumption
    PROVE  /\ Peers!NoOne \in PeerRows /\ Peers!NoOne.there = FALSE /\ Peers!NoOne.gain = FALSE
           /\ Peers!NoOne.chain = 0 /\ Peers!NoOne.sub = "out-of-range" /\ Peers!NoOne.pos = 0
<1>1. /\ 0 \in 0 .. MaxSids /\ 0 \in 0 .. 4 /\ "out-of-range" \in Peers!Subscriptions
      /\ 0 \in 0 .. MaxMics /\ TRUE \in BOOLEAN /\ FALSE \in BOOLEAN
  BY DEF PeersAssumption, Peers!Subscriptions
<1>2. Peers!NoOne \in PeerRows
  BY <1>1, Zenon DEF Peers!NoOne, PeerRows, Peers!Unknown
<1> QED
  BY <1>2 DEF Peers!NoOne, Peers!Unknown

LEMMA NoRecordFits ==
    ASSUME PeersAssumption, GoodPeers
    PROVE  /\ RoomFits(Peers!NoRecord) /\ Peers!NoRecord.there = FALSE /\ Peers!NoRecord.mic = 0
           /\ ~Peers!NoRecord.got /\ Peers!NoRecord.sid = rm.sid
<1>1. /\ rm.sid \in 0 .. MaxSids /\ rm.mics \in 0 .. MaxMics /\ 0 \in 0 .. MaxMics
      /\ TRUE \in BOOLEAN /\ FALSE \in BOOLEAN
  BY DEF GoodPeers, RoomFits, RoomRows, PeersAssumption
<1>2. Peers!NoRecord \in RoomRows
  BY <1>1, Zenon DEF Peers!NoRecord, RoomRows
<1>3. /\ Peers!NoRecord.there = FALSE /\ Peers!NoRecord.mic = 0 /\ ~Peers!NoRecord.coming
      /\ ~Peers!NoRecord.got /\ Peers!NoRecord.sid = rm.sid
  BY DEF Peers!NoRecord
<1> QED
  BY <1>2, <1>3 DEF RoomFits

LEMMA ConnectedFits ==
    ASSUME PeersAssumption, GoodPeers, Peers!ParticipantConnected
    PROVE  GoodPeers'
<1>1. /\ rm \in RoomRows /\ ~rm.there /\ rm.mic = 0 /\ ~rm.coming /\ ~rm.got /\ me \in MyRows
      /\ rm.sid + 1 \in 0 .. MaxSids /\ muted \in BOOLEAN /\ muted' = muted /\ link' = "up"
  BY DEF GoodPeers, RoomFits, WordsFit, RoomRows, PeersAssumption, Peers!ParticipantConnected
<1>2. RoomFits(rm') /\ rm'.there /\ rm'.sid = rm.sid + 1
  BY <1>1 DEF RoomFits, RoomRows, Peers!ParticipantConnected
<1>3. p' = [there |-> TRUE, sid |-> rm.sid + 1, pos |-> 0, sub |-> "out-of-range", chain |-> 0,
            settled |-> TRUE, waits |-> FALSE, muted |-> muted, gain |-> FALSE, speaking |-> FALSE]
  BY DEF Peers!ParticipantConnected, Peers!NewPeer, Peers!NoOne, Peers!Unknown
<1>4. /\ 0 \in 0 .. 4 /\ "out-of-range" \in Peers!Subscriptions /\ 0 \in 0 .. MaxMics
      /\ TRUE \in BOOLEAN /\ FALSE \in BOOLEAN
  BY DEF PeersAssumption, Peers!Subscriptions
<1>5. p' \in PeerRows
  <2>1. [there |-> TRUE, sid |-> rm.sid + 1, pos |-> 0, sub |-> "out-of-range", chain |-> 0,
         settled |-> TRUE, waits |-> FALSE, muted |-> muted, gain |-> FALSE, speaking |-> FALSE]
          \in PeerRows
    BY <1>1, <1>4, Zenon DEF PeerRows
  <2> QED
    BY <1>3, <2>1
<1>6. /\ p'.there /\ p'.muted = muted /\ ~p'.gain /\ p'.chain = 0 /\ p'.sub = "out-of-range"
      /\ p'.pos = 0
  BY <1>3
<1>7. me' \in MyRows /\ ~me'.sent
  BY <1>1 DEF Peers!ParticipantConnected, MyRows
<1> QED
  BY <1>1, <1>2, <1>5, <1>6, <1>7 DEF GoodPeers, PeerFits, PeerBut, WordsFit

LEMMA DisconnectedFits ==
    ASSUME PeersAssumption, GoodPeers, Peers!ParticipantDisconnected
    PROVE  GoodPeers'
<1>1. me' \in MyRows
  BY PermitsFit DEF Peers!ParticipantDisconnected, GoodPeers, WordsFit, ListSet
<1>2. /\ p' = Peers!NoOne /\ rm' = Peers!NoRecord /\ link' = "up" /\ muted' = muted
      /\ muted \in BOOLEAN
  BY DEF Peers!ParticipantDisconnected, GoodPeers
<1> QED
  BY <1>1, <1>2, NoOneFits, NoRecordFits DEF GoodPeers, PeerFits, PeerBut, WordsFit

LEMMA ReconnectingFits ==
    ASSUME PeersAssumption, GoodPeers, Peers!Reconnecting
    PROVE  GoodPeers'
<1>1. me' \in MyRows /\ ~me'.list
  BY DEF Peers!Reconnecting, GoodPeers, WordsFit, MyRows
<1>2. /\ p' = Peers!NoOne /\ rm' = Peers!NoRecord /\ link' = "full" /\ muted' = muted
      /\ muted \in BOOLEAN
  BY DEF Peers!Reconnecting, GoodPeers
<1> QED
  BY <1>1, <1>2, NoOneFits, NoRecordFits DEF GoodPeers, PeerFits, PeerBut, WordsFit

(* Where the track that played ends, or does not. *)
LEMMA TrackOverFits ==
    ASSUME PeersAssumption, GoodPeers, NEW r, RoomFits(r), ~r.got, r.there = rm.there,
           rm.got \/ p.chain = 0,
           NEW q, q = IF rm.got /\ p.chain \in {0, rm.mic} THEN Peers!Unsubscribed(p) ELSE p
    PROVE  PeerFits(q, r, muted) /\ q.there = p.there /\ q.sid = p.sid /\ q.pos = p.pos
<1>1. PeerFits(p, rm, muted) /\ p \in PeerRows
  BY DEF GoodPeers, PeerFits, PeerBut
<1>2. CASE rm.got
  <2>1. p.chain \in {0, rm.mic} /\ q = Peers!Unsubscribed(p)
    BY <1>1, <1>2 DEF PeerFits, PeerBut
  <2>2. SilentSet(q, p)
    BY <1>1, <2>1, UnsubscribedFits
  <2> QED
    BY <1>1, <2>2 DEF PeerFits, PeerBut, SilentSet
<1>3. CASE ~rm.got
  BY <1>1, <1>3 DEF PeerFits, PeerBut
<1> QED
  BY <1>2, <1>3

LEMMA ChainReceived == ASSUME GoodPeers PROVE rm.got \/ p.chain = 0
BY DEF GoodPeers, PeerFits, PeerBut

LEMMA SwapFits ==
    ASSUME PeersAssumption, GoodPeers, Peers!SessionSwaps
    PROVE  GoodPeers'
<1>1. /\ rm \in RoomRows /\ rm.there /\ rm.sid + 1 \in 0 .. MaxSids
      /\ link' = "up" /\ me' = me /\ muted' = muted /\ told' = told /\ said' = said
  BY DEF GoodPeers, RoomFits, RoomRows, PeersAssumption, Peers!SessionSwaps
<1>2. RoomFits(rm') /\ ~rm'.got /\ rm'.there
  <2> DEFINE n == Peers!NoRecord
  <2>1. n \in RoomRows /\ n.mic = 0 /\ ~n.got /\ ~n.coming
    BY NoRecordFits DEF RoomFits
  <2>2. rm' = [n EXCEPT !.there = TRUE, !.sid = rm.sid + 1]
    BY DEF Peers!SessionSwaps
  <2> HIDE DEF n
  <2> QED
    BY <1>1, <2>1, <2>2 DEF RoomFits, RoomRows
<1>3. p' = IF rm.got /\ p.chain \in {0, rm.mic} THEN Peers!Unsubscribed(p) ELSE p
  BY DEF Peers!SessionSwaps
<1>4. PeerFits(p', rm', muted) /\ p'.there = p.there /\ p'.sid = p.sid /\ p'.pos = p.pos
  BY <1>1, <1>2, <1>3, TrackOverFits, ChainReceived
<1> QED
  BY <1>1, <1>2, <1>4 DEF GoodPeers, WordsFit

LEMMA UnpublishedFits ==
    ASSUME PeersAssumption, GoodPeers, Peers!TrackUnpublished
    PROVE  GoodPeers'
<1>1. /\ rm \in RoomRows /\ rm.mic # 0 /\ RoomFits(rm)
      /\ link' = "up" /\ me' = me /\ muted' = muted /\ told' = told /\ said' = said
  BY DEF GoodPeers, RoomFits, Peers!TrackUnpublished
<1>2. RoomFits(rm') /\ ~rm'.got /\ rm'.there = rm.there
  <2> DEFINE h == [rm EXCEPT !.mic = 0, !.asked = FALSE]
  <2>1. /\ h \in RoomRows /\ h.mic = 0 /\ h.there = rm.there
    <3>1. 0 \in 0 .. MaxMics
      BY DEF PeersAssumption
    <3> QED
      BY <1>1, <3>1 DEF RoomRows
  <2>2. rm' = [h EXCEPT !.coming = FALSE, !.got = FALSE]
    BY DEF Peers!TrackUnpublished
  <2> HIDE DEF h
  <2> QED
    BY <2>1, <2>2 DEF RoomFits, RoomRows
<1>3. p' = IF rm.got /\ p.chain \in {0, rm.mic} THEN Peers!Unsubscribed(p) ELSE p
  BY DEF Peers!TrackUnpublished
<1>4. PeerFits(p', rm', muted) /\ p'.there = p.there /\ p'.sid = p.sid /\ p'.pos = p.pos
  BY <1>1, <1>2, <1>3, TrackOverFits, ChainReceived
<1> QED
  BY <1>1, <1>2, <1>4 DEF GoodPeers, WordsFit

LEMMA UnsubscribedKeeps ==
    ASSUME PeersAssumption, GoodPeers, Peers!TrackUnsubscribed
    PROVE  GoodPeers'
<1>1. /\ rm \in RoomRows /\ rm.got /\ RoomFits(rm)
      /\ link' = "up" /\ me' = me /\ muted' = muted /\ told' = told /\ said' = said
  BY DEF GoodPeers, RoomFits, Peers!TrackUnsubscribed
<1>2. RoomFits(rm') /\ ~rm'.got /\ rm'.there = rm.there
  BY <1>1 DEF RoomFits, RoomRows, Peers!TrackUnsubscribed
<1>3. p' = IF rm.got /\ p.chain \in {0, rm.mic} THEN Peers!Unsubscribed(p) ELSE p
  BY <1>1 DEF Peers!TrackUnsubscribed
<1>4. PeerFits(p', rm', muted) /\ p'.there = p.there /\ p'.sid = p.sid /\ p'.pos = p.pos
  BY <1>1, <1>2, <1>3, TrackOverFits, ChainReceived
<1> QED
  BY <1>1, <1>2, <1>4 DEF GoodPeers, WordsFit

(* A track that is let go of, or asked for, in the room alone. *)
LEMMA RoomAloneFits ==
    ASSUME PeersAssumption, GoodPeers, Peers!ServerSends \/ Peers!TheyPermit
    PROVE  GoodPeers'
<1>1. /\ rm \in RoomRows /\ RoomFits(rm) /\ PeerFits(p, rm, muted)
      /\ UNCHANGED <<link, p, me, muted, told, said>>
  BY DEF GoodPeers, RoomFits, Peers!ServerSends, Peers!TheyPermit
<1>2. /\ RoomFits(rm') /\ rm'.there = rm.there /\ rm'.mic = rm.mic /\ rm'.got = rm.got
  <2>1. CASE Peers!ServerSends
    BY <1>1, <2>1 DEF RoomFits, RoomRows, Peers!ServerSends
  <2>2. CASE Peers!TheyPermit
    <3>1. PICK g \in BOOLEAN : rm' = [rm EXCEPT !.grants = g]
      BY <2>2 DEF Peers!TheyPermit
    <3> QED
      BY <1>1, <3>1 DEF RoomFits, RoomRows
  <2> QED
    BY <2>1, <2>2
<1>3. PeerFits(p', rm', muted')
  BY <1>1, <1>2 DEF PeerFits, PeerBut
<1> QED
  BY <1>1, <1>2, <1>3 DEF GoodPeers, WordsFit

LEMMA RefusedFits ==
    ASSUME PeersAssumption, GoodPeers, Peers!SubscriptionFailed
    PROVE  GoodPeers'
<1>1. /\ rm \in RoomRows /\ RoomFits(rm) /\ PeerFits(p, rm, muted) /\ ~rm.got /\ p \in PeerRows
      /\ UNCHANGED <<link, me, muted, told, said>>
  BY DEF GoodPeers, RoomFits, PeerFits, PeerBut, Peers!SubscriptionFailed
<1>2. RoomFits(rm') /\ rm'.there = rm.there /\ rm'.mic = rm.mic /\ rm'.got = rm.got
  BY <1>1 DEF RoomFits, RoomRows, Peers!SubscriptionFailed
<1>3. p' = [p EXCEPT !.sub = "out-of-range", !.waits = TRUE]
  BY DEF Peers!SubscriptionFailed
<1>4. /\ p' \in PeerRows /\ p'.there = p.there /\ p'.sid = p.sid /\ p'.pos = p.pos
      /\ p'.muted = p.muted /\ p'.gain = p.gain /\ p'.chain = p.chain /\ p'.sub = "out-of-range"
  BY <1>1, <1>3 DEF PeerRows, Peers!Subscriptions
<1>5. p.chain = 0
  BY <1>1 DEF PeerFits, PeerBut
<1>6. PeerFits(p', rm', muted')
  BY <1>1, <1>2, <1>4, <1>5 DEF PeerFits, PeerBut
<1> QED
  BY <1>1, <1>2, <1>4, <1>6 DEF GoodPeers, WordsFit

LEMMA SettleFits ==
    ASSUME PeersAssumption, NEW q, NEW r, NEW m, muted' \in BOOLEAN,
           RoomFits(r), PeerBut(q, r, muted'), Peers!Settle(q, r, m)
    PROVE  /\ PeerFits(p', rm', muted') /\ RoomFits(rm')
           /\ p'.there = q.there /\ p'.sid = q.sid /\ p'.pos = q.pos
           /\ rm'.there = r.there /\ rm'.sid = r.sid
<1> DEFINE e == Peers!Evaluated(q, r, m)
           n == [r EXCEPT !.asked = Peers!Asked(q, r, m), !.coming = @ /\ r.mic # 0]
<1>1. Settled(e, n, q, r, muted')
  BY EvaluatedFits
<1>2. p' = e /\ rm' = n
  BY DEF Peers!Settle
<1> HIDE DEF e, n
<1> QED
  BY <1>1, <1>2 DEF Settled

(* After checkSession, the engine has looked at the session there is.      *)
LEMMA LookedFits ==
    ASSUME PeersAssumption, GoodPeers, rm.there, NEW m \in Peers!AfterSession(p, rm, me)
    PROVE  m \in MyRows /\ (m.sent => told = rm.sid)
<1>1. p.there /\ (me.sent => told = p.sid)
  BY DEF GoodPeers, PeerFits, PeerBut, WordsFit
<1>2. ~Peers!NewSession(p, rm) => p.sid = rm.sid
  BY <1>1 DEF Peers!NewSession
<1> QED
  BY <1>1, <1>2, SessionFits

LEMMA PublishedFits ==
    ASSUME PeersAssumption, GoodPeers, Peers!TrackPublished
    PROVE  GoodPeers'
<1>1. PICK g \in BOOLEAN, m \in Peers!AfterSession(p, rm, me) :
        /\ me' = m
        /\ Peers!Settle([Peers!CheckedSession(p, rm) EXCEPT !.waits = FALSE],
                        [rm EXCEPT !.mic = rm.mics + 1, !.mics = @ + 1, !.grants = g], m)
  BY DEF Peers!TrackPublished
<1> DEFINE c == Peers!CheckedSession(p, rm)
           q == [c EXCEPT !.waits = FALSE]
           r == [rm EXCEPT !.mic = rm.mics + 1, !.mics = rm.mics + 1, !.grants = g]
<1>2. /\ rm.there /\ rm.mic = 0 /\ rm \in RoomRows /\ RoomFits(rm) /\ rm.mics + 1 \in 0 .. MaxMics
      /\ rm.mics + 1 # 0 /\ ~rm.coming /\ ~rm.got
      /\ UNCHANGED <<link, muted, told, said>> /\ muted \in BOOLEAN /\ link = "up"
  BY DEF Peers!TrackPublished, GoodPeers, RoomFits, RoomRows, PeersAssumption
<1>3. PeerFits(c, rm, muted) /\ c.there /\ c.sid = rm.sid /\ (c.pos # 0 => said = rm.sid)
  BY <1>2, CheckedFits
<1>4. Peers!Settle(q, r, m)
  BY <1>1, <1>2
<1> HIDE DEF c
<1>5. RoomFits(r) /\ r.there = rm.there /\ r.sid = rm.sid
  <2> DEFINE h == [rm EXCEPT !.mic = rm.mics + 1, !.mics = rm.mics + 1]
  <2>1. h \in RoomRows /\ h.mic = rm.mics + 1 /\ h.there = rm.there /\ h.sid = rm.sid /\ ~h.coming /\ ~h.got
    BY <1>2 DEF RoomRows
  <2>2. r = [h EXCEPT !.grants = g]
    OBVIOUS
  <2> HIDE DEF h
  <2> QED
    BY <1>2, <2>1, <2>2 DEF RoomFits, RoomRows
<1>6. PeerBut(q, r, muted) /\ q.there /\ q.sid = rm.sid /\ q.pos = c.pos
  <2>1. c \in PeerRows /\ c.chain = 0 /\ c.muted = muted
    BY <1>2, <1>3 DEF PeerFits, PeerBut
  <2>2. /\ q \in PeerRows /\ q.there = c.there /\ q.sid = c.sid /\ q.pos = c.pos /\ q.chain = c.chain
        /\ q.sub = c.sub /\ q.muted = c.muted
    BY <2>1 DEF PeerRows
  <2> HIDE DEF q, r
  <2>3. q.there = r.there
    BY <1>3, <1>5, <2>2 DEF PeerFits, PeerBut
  <2> QED
    BY <1>3, <2>1, <2>2, <2>3 DEF PeerFits, PeerBut
<1> HIDE DEF q, r
<1>7. m \in MyRows /\ (m.sent => told = rm.sid)
  BY <1>2, LookedFits
<1>8. PeerFits(p', rm', muted') /\ RoomFits(rm') /\ p'.sid = rm.sid /\ p'.pos = c.pos
  BY <1>2, <1>4, <1>5, <1>6, SettleFits
<1> QED
  BY <1>1, <1>2, <1>3, <1>7, <1>8 DEF GoodPeers, WordsFit

LEMMA ReceivedFits ==
    ASSUME PeersAssumption, GoodPeers, Peers!TrackSubscribed
    PROVE  GoodPeers'
<1> DEFINE c == Peers!CheckedSession(p, rm)
           h == [c EXCEPT !.chain = 0, !.speaking = FALSE]
           q == [h EXCEPT !.chain = rm.mic, !.sub = "in-range", !.waits = FALSE]
           r == [rm EXCEPT !.coming = FALSE, !.got = TRUE]
<1>1. PICK m \in Peers!AfterSession(p, rm, me) : me' = m /\ Peers!Settle(q, r, m)
  BY DEF Peers!TrackSubscribed, Peers!Silent
<1>2. /\ rm.there /\ rm.mic # 0 /\ rm \in RoomRows /\ RoomFits(rm)
      /\ UNCHANGED <<link, muted, told, said>> /\ muted \in BOOLEAN /\ link = "up"
  BY DEF Peers!TrackSubscribed, GoodPeers, RoomFits
<1>3. PeerFits(c, rm, muted) /\ c.there /\ c.sid = rm.sid /\ (c.pos # 0 => said = rm.sid)
  BY <1>2, CheckedFits
<1> HIDE DEF c
<1>4. RoomFits(r) /\ r.there = rm.there /\ r.sid = rm.sid /\ r.mic = rm.mic /\ r.got
  BY <1>2 DEF RoomFits, RoomRows
<1>5. PeerBut(q, r, muted) /\ q.there /\ q.sid = rm.sid /\ q.pos = c.pos
  <2>1. /\ c \in PeerRows /\ 0 \in 0 .. MaxMics /\ "in-range" \in Peers!Subscriptions
        /\ rm.mic \in 0 .. MaxMics /\ c.there = rm.there /\ c.muted = muted
    BY <1>2, <1>3 DEF PeerFits, PeerBut, PeersAssumption, Peers!Subscriptions, RoomRows
  <2>2. /\ h \in PeerRows /\ h.there = c.there /\ h.sid = c.sid /\ h.pos = c.pos /\ h.muted = c.muted
    BY <2>1 DEF PeerRows
  <2> HIDE DEF h
  <2>3. /\ q \in PeerRows /\ q.there = h.there /\ q.sid = h.sid /\ q.pos = h.pos /\ q.muted = h.muted
        /\ q.chain = rm.mic /\ q.sub = "in-range"
    BY <2>1, <2>2 DEF PeerRows
  <2> HIDE DEF q, r
  <2> QED
    BY <1>2, <1>3, <1>4, <2>1, <2>2, <2>3 DEF PeerBut
<1> HIDE DEF q, r
<1>6. m \in MyRows /\ (m.sent => told = rm.sid)
  BY <1>2, LookedFits
<1>7. PeerFits(p', rm', muted') /\ RoomFits(rm') /\ p'.sid = rm.sid /\ p'.pos = c.pos
  BY <1>1, <1>2, <1>4, <1>5, SettleFits
<1> QED
  BY <1>1, <1>2, <1>3, <1>6, <1>7 DEF GoodPeers, WordsFit

LEMMA PositionFits ==
    ASSUME PeersAssumption, GoodPeers, Peers!PositionReceived
    PROVE  /\ GoodPeers'
           /\ me'.list => rm'.there /\ said' = rm'.sid /\ p'.sid = rm'.sid /\ p'.pos # 0
<1> DEFINE c == Peers!CheckedSession(p, rm)
<1>1. PICK z \in Peers!Zones, m \in Peers!AfterSession(p, rm, me) :
        /\ p' = [c EXCEPT !.pos = z]
        /\ me' \in IF m.known /\ m.list /\ z = 4 THEN Peers!Permissions([c EXCEPT !.pos = z], rm, m) ELSE {m}
  BY DEF Peers!PositionReceived, Peers!Far
<1>2. /\ rm.there /\ rm \in RoomRows /\ RoomFits(rm) /\ said' = rm.sid /\ link # "full"
      /\ UNCHANGED <<link, rm, muted, told>> /\ muted \in BOOLEAN
      /\ link \in {"up", "signal", "full"}
  BY DEF Peers!PositionReceived, GoodPeers, RoomFits
<1>3. PeerFits(c, rm, muted) /\ c.there /\ c.sid = rm.sid
  BY <1>2, CheckedFits
<1> HIDE DEF c
<1>4. z \in 0 .. 4 /\ z # 0
  BY DEF Peers!Zones, Peers!Near, Peers!Far
<1>5. /\ p' \in PeerRows /\ p'.there = c.there /\ p'.sid = rm.sid /\ p'.pos = z /\ p'.chain = c.chain
      /\ p'.sub = c.sub /\ p'.muted = c.muted /\ p'.gain = c.gain
  <2>1. c \in PeerRows
    BY <1>3 DEF PeerFits, PeerBut
  <2> QED
    BY <1>1, <1>3, <1>4, <2>1 DEF PeerRows
<1>6. PeerFits(p', rm', muted')
  BY <1>2, <1>3, <1>5 DEF PeerFits, PeerBut
<1>7. m \in MyRows /\ (m.sent => told = rm.sid)
  BY <1>2, LookedFits
<1>8. me' \in MyRows /\ me'.sent = m.sent
  <2>1. ASSUME me' \in Peers!Permissions([c EXCEPT !.pos = z], rm, m)
        PROVE  ListSet(me', m, Peers!Listed([c EXCEPT !.pos = z], rm, m))
    BY <1>7, <2>1, PermitsFit
  <2> QED
    BY <1>1, <1>7, <2>1 DEF ListSet
<1> QED
  BY <1>2, <1>4, <1>5, <1>6, <1>7, <1>8 DEF GoodPeers, WordsFit

TickTells ==
    /\ me'.list => rm'.there /\ said' = rm'.sid /\ p'.sid = rm'.sid /\ p'.pos # 0 /\ p'.pos # 4
    /\ me.known /\ rm.there => told' = rm.sid

LEMMA TickFits ==
    ASSUME PeersAssumption, GoodPeers, Peers!Tick
    PROVE  GoodPeers' /\ TickTells
<1> DEFINE c == Peers!CheckedSession(p, rm)
<1>1. PICK m \in Peers!AfterSession(p, rm, me) :
        \E x \in Peers!Permissions(c, rm, m) : \E s \in Peers!Heard(c) :
          LET sends == x.known /\ rm.there
              n == [x EXCEPT !.sent = x.sent \/ x.known]
              q == [c EXCEPT !.speaking = s]
          IN  /\ me' = n
              /\ told' = IF sends /\ ~x.sent THEN rm.sid ELSE told
              /\ IF q.there THEN Peers!Settle(q, rm, n) ELSE UNCHANGED <<p, rm>>
  BY DEF Peers!Tick
<1>2. PICK x \in Peers!Permissions(c, rm, m) : \E s \in Peers!Heard(c) :
        /\ me' = [x EXCEPT !.sent = x.sent \/ x.known]
        /\ told' = IF x.known /\ rm.there /\ ~x.sent THEN rm.sid ELSE told
        /\ IF [c EXCEPT !.speaking = s].there THEN Peers!Settle([c EXCEPT !.speaking = s], rm, me')
           ELSE UNCHANGED <<p, rm>>
  <2> HIDE DEF c
  <2> QED
    BY <1>1
<1>3. /\ me' = [x EXCEPT !.sent = x.sent \/ x.known]
      /\ told' = IF x.known /\ rm.there /\ ~x.sent THEN rm.sid ELSE told
  BY <1>2
<1>4. PICK s \in Peers!Heard(c) :
        IF c.there THEN Peers!Settle([c EXCEPT !.speaking = s], rm, me') ELSE UNCHANGED <<p, rm>>
  <2>1. p \in PeerRows /\ rm \in RoomRows
    BY DEF GoodPeers, PeerFits, PeerBut, RoomFits
  <2>2. \A s \in Peers!Heard(c) : [c EXCEPT !.speaking = s].there = c.there
    BY <2>1 DEF Peers!CheckedSession, Peers!OtherSession, Peers!NoOne, PeerRows
  <2> HIDE DEF c
  <2> QED
    BY <1>2, <2>2
<1>5. /\ rm \in RoomRows /\ RoomFits(rm) /\ link = "up" /\ me \in MyRows
      /\ UNCHANGED <<link, muted, said>> /\ muted \in BOOLEAN
      /\ PeerFits(p, rm, muted) /\ p.there = rm.there /\ p \in PeerRows
  BY DEF Peers!Tick, GoodPeers, RoomFits, WordsFit, PeerFits, PeerBut
<1>6. CASE ~rm.there
  <2>1. ~Peers!NewSession(p, rm)
    BY <1>5, <1>6 DEF Peers!NewSession
  <2>2. c = p /\ m = me /\ ~c.there
    BY <1>5, <1>6, <2>1 DEF Peers!CheckedSession, Peers!AfterSession
  <2> HIDE DEF c
  <2>3. x \in MyRows /\ ~x.list
    <3>1. ListSet(x, m, Peers!Listed(c, rm, m))
      BY <1>5, <2>2, PermitsFit
    <3> QED
      BY <2>2, <3>1 DEF ListSet, Peers!Listed, Peers!Allowed
  <2>4. me' \in MyRows /\ ~me'.list
    <3>1. \A o \in BOOLEAN : [x EXCEPT !.sent = o] \in MyRows /\ ~[x EXCEPT !.sent = o].list
      BY <2>3 DEF MyRows
    <3>2. (x.sent \/ x.known) \in BOOLEAN
      OBVIOUS
    <3> QED
      BY <1>3, <3>1, <3>2, Zenon
  <2>5. UNCHANGED <<p, rm>>
    BY <1>4, <2>2
  <2> QED
    BY <1>5, <1>6, <2>4, <2>5 DEF GoodPeers, WordsFit, TickTells
<1>7. CASE rm.there
  <2>1. PeerFits(c, rm, muted) /\ c.there /\ c.sid = rm.sid /\ (c.pos # 0 => said = rm.sid)
    BY <1>7, CheckedFits
  <2>2. m \in MyRows /\ (m.sent => told = rm.sid) /\ m.known = me.known
    BY <1>7, LookedFits, SessionFits
  <2> HIDE DEF c
  <2>3. ListSet(x, m, Peers!Listed(c, rm, m))
    BY <2>2, PermitsFit
  <2>4. x.list => c.pos # 0 /\ c.pos # 4
    BY <2>3 DEF ListSet, Peers!Listed, Peers!Allowed, Peers!Near, Peers!Permit
  <2>5. /\ me' \in MyRows /\ (me'.sent <=> x.sent \/ x.known) /\ me'.list = x.list
        /\ me'.known = x.known
    <3>1. x \in MyRows
      BY <2>3 DEF ListSet
    <3>2. \A o \in BOOLEAN : LET y == [x EXCEPT !.sent = o]
                             IN  y \in MyRows /\ y.sent = o /\ y.list = x.list /\ y.known = x.known
      BY <3>1 DEF MyRows
    <3>3. (x.sent \/ x.known) \in BOOLEAN
      OBVIOUS
    <3>4. me' \in MyRows /\ me'.sent = (x.sent \/ x.known) /\ me'.list = x.list /\ me'.known = x.known
      BY <1>3, <3>2, <3>3, Zenon
    <3> QED
      BY <3>4
  <2>6. /\ me'.sent => told' = rm.sid
        /\ me.known => told' = rm.sid
    <3>1. (x.sent <=> m.sent) /\ (x.known <=> m.known)
      BY <2>3 DEF ListSet
    <3>2. told' = IF x.known /\ rm.there /\ ~x.sent THEN rm.sid ELSE told
      BY <1>3
    <3> QED
      BY <1>7, <2>2, <2>5, <3>1, <3>2
  <2> DEFINE q == [c EXCEPT !.speaking = s]
  <2>7. PeerBut(q, rm, muted) /\ q.there = c.there /\ q.sid = c.sid /\ q.pos = c.pos
    <3>1. c \in PeerRows /\ s \in BOOLEAN
      BY <2>1 DEF PeerFits, PeerBut, PeerRows, Peers!Heard
    <3>2. /\ q \in PeerRows /\ q.there = c.there /\ q.sid = c.sid /\ q.pos = c.pos /\ q.chain = c.chain
          /\ q.sub = c.sub /\ q.muted = c.muted
      BY <3>1 DEF PeerRows
    <3> HIDE DEF q
    <3> QED
      BY <2>1, <3>2 DEF PeerFits, PeerBut
  <2>8. Peers!Settle(q, rm, me')
    BY <1>4, <2>1
  <2> HIDE DEF q
  <2>9. /\ PeerFits(p', rm', muted') /\ RoomFits(rm')
        /\ p'.there = q.there /\ p'.sid = q.sid /\ p'.pos = q.pos
        /\ rm'.there = rm.there /\ rm'.sid = rm.sid
    BY <1>5, <2>7, <2>8, SettleFits
  <2> QED
    BY <1>5, <1>7, <2>1, <2>4, <2>5, <2>6, <2>7, <2>9 DEF GoodPeers, WordsFit, TickTells
<1> QED
  BY <1>6, <1>7

LEMMA MuteFits ==
    ASSUME PeersAssumption, GoodPeers, Peers!MuteThem
    PROVE  GoodPeers'
<1>1. /\ rm \in RoomRows /\ RoomFits(rm) /\ me' = me /\ WordsFit(p, me, told, said)
      /\ UNCHANGED <<link, told, said>> /\ muted \in BOOLEAN /\ muted' = ~muted
      /\ PeerFits(p, rm, muted) /\ p \in PeerRows /\ link' \in {"up", "signal", "full"}
      /\ (link' = "full" => ~me'.list)
  BY DEF Peers!MuteThem, GoodPeers, RoomFits, PeerFits, PeerBut
<1>2. CASE p.there
  <2> DEFINE q == [p EXCEPT !.muted = ~muted]
  <2>1. Peers!Settle(q, rm, me)
    BY <1>2 DEF Peers!MuteThem
  <2>2. muted' \in BOOLEAN
    BY <1>1
  <2>3. PeerBut(q, rm, muted') /\ q.there = p.there /\ q.sid = p.sid /\ q.pos = p.pos
    <3>1. q = [p EXCEPT !.muted = muted']
      BY <1>1
    <3>2. \A o \in BOOLEAN : LET y == [p EXCEPT !.muted = o]
                             IN  /\ y \in PeerRows /\ y.there = p.there /\ y.sid = p.sid /\ y.pos = p.pos
                                 /\ y.chain = p.chain /\ y.sub = p.sub /\ y.muted = o
      BY <1>1 DEF PeerRows
    <3>3. /\ q \in PeerRows /\ q.there = p.there /\ q.sid = p.sid /\ q.pos = p.pos
          /\ q.chain = p.chain /\ q.sub = p.sub /\ q.muted = muted'
      BY <2>2, <3>1, <3>2, Zenon
    <3> HIDE DEF q
    <3> QED
      BY <1>1, <3>3 DEF PeerFits, PeerBut
  <2> HIDE DEF q
  <2>4. /\ PeerFits(p', rm', muted') /\ RoomFits(rm') /\ p'.there = q.there /\ p'.sid = q.sid
        /\ p'.pos = q.pos
    BY <1>1, <2>1, <2>2, <2>3, SettleFits
  <2> QED
    BY <1>1, <2>2, <2>3, <2>4 DEF GoodPeers, WordsFit
<1>3. CASE ~p.there
  <2>1. UNCHANGED <<p, rm>>
    BY <1>3 DEF Peers!MuteThem
  <2> QED
    BY <1>1, <1>3, <2>1 DEF GoodPeers, PeerFits, PeerBut
<1> QED
  BY <1>2, <1>3

(* What changes none of what is said here of the peer. *)
LEMMA PlainFits ==
    ASSUME PeersAssumption, GoodPeers,
           Peers!Place \/ Peers!CrowdMoves \/ Peers!Dwelt \/ Peers!BackedOff \/ Peers!IntervalOver
             \/ Peers!SignalReconnecting \/ Peers!Reconnected \/ UNCHANGED Peers!vars
    PROVE  GoodPeers'
<1>1. /\ rm \in RoomRows /\ RoomFits(rm) /\ me \in MyRows /\ WordsFit(p, me, told, said)
      /\ muted \in BOOLEAN /\ PeerFits(p, rm, muted) /\ p \in PeerRows
      /\ link \in {"up", "signal", "full"} /\ (link = "full" => ~me.list)
  BY DEF GoodPeers, RoomFits, PeerFits, PeerBut, WordsFit
<1>2. CASE Peers!Place
  <2>1. me' \in MyRows /\ me'.sent = me.sent /\ me'.list = me.list
    BY <1>1, <1>2 DEF Peers!Place, MyRows
  <2>2. /\ p' \in PeerRows /\ p'.there = p.there /\ p'.sid = p.sid /\ p'.chain = p.chain
        /\ p'.sub = p.sub /\ p'.muted = p.muted /\ p'.gain = p.gain
        /\ (p'.pos # 0 => p.pos # 0)
    <3>1. CASE p.there /\ p.pos # 0
      <4>1. PICK z \in Peers!Zones : p' = [p EXCEPT !.pos = z]
        BY <1>2, <3>1 DEF Peers!Place, Peers!Unknown
      <4>2. z \in 0 .. 4
        BY DEF Peers!Zones, Peers!Near, Peers!Far
      <4> QED
        BY <1>1, <3>1, <4>1, <4>2 DEF PeerRows
    <3>2. CASE ~(p.there /\ p.pos # 0)
      BY <1>1, <1>2, <3>2 DEF Peers!Place, Peers!Unknown
    <3> QED
      BY <3>1, <3>2
  <2>3. UNCHANGED <<link, rm, muted, told, said>>
    BY <1>2 DEF Peers!Place
  <2>4. PeerFits(p', rm', muted')
    BY <1>1, <2>2, <2>3 DEF PeerFits, PeerBut
  <2> QED
    BY <1>1, <2>1, <2>2, <2>3, <2>4 DEF GoodPeers, WordsFit
<1>3. CASE Peers!Dwelt \/ Peers!BackedOff
  <2>1. /\ p' \in PeerRows /\ p'.there = p.there /\ p'.sid = p.sid /\ p'.chain = p.chain
        /\ p'.sub = p.sub /\ p'.muted = p.muted /\ p'.gain = p.gain /\ p'.pos = p.pos
    BY <1>1, <1>3 DEF Peers!Dwelt, Peers!BackedOff, PeerRows
  <2>2. UNCHANGED <<link, rm, me, muted, told, said>>
    BY <1>3 DEF Peers!Dwelt, Peers!BackedOff
  <2>3. PeerFits(p', rm', muted')
    BY <1>1, <2>1, <2>2 DEF PeerFits, PeerBut
  <2> QED
    BY <1>1, <2>1, <2>2, <2>3 DEF GoodPeers, WordsFit
<1>4. CASE Peers!IntervalOver \/ Peers!Reconnected \/ Peers!SignalReconnecting
  <2>1. /\ me' \in MyRows /\ me'.list = me.list /\ (me'.sent => me.sent)
    BY <1>1, <1>4 DEF Peers!IntervalOver, Peers!Reconnected, Peers!SignalReconnecting, MyRows
  <2>2. UNCHANGED <<rm, p, muted, told, said>> /\ (link' = link \/ link' \in {"up", "signal"})
    BY <1>4 DEF Peers!IntervalOver, Peers!Reconnected, Peers!SignalReconnecting
  <2> QED
    BY <1>1, <2>1, <2>2 DEF GoodPeers, WordsFit
<1>5. CASE Peers!CrowdMoves \/ UNCHANGED Peers!vars
  BY <1>1, <1>5 DEF Peers!CrowdMoves, Peers!vars, GoodPeers
<1> QED
  BY <1>2, <1>3, <1>4, <1>5

LEMMA PeersStart == PeersAssumption /\ Peers!Init => GoodPeers
<1> SUFFICES ASSUME PeersAssumption, Peers!Init PROVE GoodPeers
  OBVIOUS
<1>1. 0 \in 0 .. MaxSids /\ 0 \in 0 .. MaxMics /\ TRUE \in BOOLEAN /\ FALSE \in BOOLEAN
  BY DEF PeersAssumption
<1>2. rm \in RoomRows /\ me \in MyRows
  BY <1>1, Zenon DEF Peers!Init, RoomRows, MyRows
<1>3. rm.there = FALSE /\ rm.mic = 0 /\ ~rm.coming /\ ~rm.got /\ muted = FALSE /\ p = Peers!NoOne /\ link = "up"
  BY DEF Peers!Init
<1> QED
  BY <1>2, <1>3, NoOneFits DEF GoodPeers, RoomFits, PeerFits, PeerBut, WordsFit

LEMMA PeersStay == PeersAssumption /\ GoodPeers /\ [Peers!Next]_(Peers!vars) => GoodPeers'
BY ConnectedFits, DisconnectedFits, ReconnectingFits, SwapFits, PublishedFits, UnpublishedFits,
   RoomAloneFits, ReceivedFits, UnsubscribedKeeps, RefusedFits, PositionFits, TickFits, MuteFits,
   PlainFits DEF Peers!Next

LEMMA HearsRight == GoodPeers => Peers!HeardRight
BY DEF GoodPeers, PeerFits, PeerBut, Peers!HeardRight, Peers!AudiblySpeaking

LEMMA FullIsOver == GoodPeers /\ link = "full" => ~me.list
BY DEF GoodPeers

LEMMA PermitsTrue ==
    ASSUME PeersAssumption, GoodPeers, [Peers!Next]_(Peers!vars)
    PROVE  Peers!PermitsSoundStep
<1>1. ASSUME link' = "full" PROVE ~me'.list
  BY <1>1, PeersStay DEF GoodPeers
<1>2. CASE Peers!Tick
  BY <1>1, <1>2, TickFits DEF TickTells, Peers!PermitsSoundStep, Peers!Unknown, Peers!Far,
     Peers!Tick, Peers!PositionReceived
<1>3. CASE Peers!PositionReceived /\ ~Peers!Tick
  BY <1>1, <1>3, PositionFits DEF Peers!PermitsSoundStep, Peers!Unknown
<1>4. CASE ~Peers!PositionReceived /\ ~Peers!Tick
  BY <1>1, <1>4 DEF Peers!PermitsSoundStep
<1> QED
  BY <1>2, <1>3, <1>4

LEMMA PeersAlways == PeersAssumption => (Peers!Spec => []GoodPeers)
<1> SUFFICES ASSUME PeersAssumption PROVE Peers!Spec => []GoodPeers
  OBVIOUS
<1>1. Peers!Init => GoodPeers
  BY PeersStart
<1>2. GoodPeers /\ [Peers!Next]_(Peers!vars) => GoodPeers'
  BY PeersStay
<1> QED
  BY <1>1, <1>2, PTL DEF Peers!Spec

(* A chain plays exactly while the member's own microphone is received:    *)
(* never a session that left nor a microphone taken down, never anybody    *)
(* muted; and nobody is shown speaking who is not heard.                   *)
THEOREM VoicesHeardRight ==
    ASSUME PeersAssumption
    PROVE  Peers!Spec => []Peers!HeardRight
<1>1. GoodPeers => Peers!HeardRight
  BY HearsRight
<1> QED
  BY <1>1, PeersAlways, PTL

(* My microphone is permitted only to a session that has itself said where *)
(* it is, within range; to nobody through a full reconnect; and whoever    *)
(* came is told where I am by the next tick.                               *)
THEOREM VoicePermittedRight ==
    ASSUME PeersAssumption
    PROVE  Peers!Spec => Peers!PermitsSound
<1>1. GoodPeers /\ [Peers!Next]_(Peers!vars) => [Peers!PermitsSoundStep]_(Peers!vars)
  BY PermitsTrue
<1> QED
  BY <1>1, PeersAlways, PTL DEF Peers!Spec, Peers!PermitsSound

(* VoicePeers' variables have their types.                                 *)
THEOREM VoicePeersTypes ==
    ASSUME PeersAssumption
    PROVE  Peers!Spec => []Peers!TypeOK
<1>1. GoodPeers => Peers!TypeOK
  BY DEF GoodPeers, PeerFits, PeerBut, RoomFits, WordsFit, PeerRows, RoomRows, MyRows, Peers!TypeOK,
         Peers!Peers, Peers!Far
<1> QED
  BY <1>1, PeersAlways, PTL

-----------------------------------------------------------------------------
(* A proposal's page.                                                      *)

States == {"debate", "voting"}
Apis == [v : Nat, state : States, mine : Page!Choices, said : Nat]
PageAnswers == [v : Nat, state : States, you : BOOLEAN, mine : Page!Choices, said : Nat]
Words == {"none", "ok", "reason", "no", "not", "unsure", "unread"}
ToldRows == [kind : Page!Writes, word : Words]
PageRows == [in : BOOLEAN, view : {"loading", "ready", "failed"}, detail : PageAnswers,
             step : Writes \cup {"none"}, told : ToldRows, ack : Nat]
LoadRows == [for : {"load", "you", "refresh", "after", "house"}, how : {"you", "public"},
             st : {"out", "ok"}, got : PageAnswers, lands : BOOLEAN]
After == {"after-null", "after-lost", "after-stale"}
OpRows == [kind : Page!Writes, st : {"none", "out", "ok", "null", "stale", "no", "lost"} \cup After,
           step : {1, 2}, got : PageAnswers, before : Nat]

(* What the API has done of a write.                                       *)
DoneOf(kind, a) ==
    CASE kind = "consent" -> a.mine = "consented"
      [] kind = "object" -> a.mine = "objected"
      [] OTHER -> a.said > 0

(* An answer d of what the API, now a, once was: it only moves on.         *)
OnceSo(d, a) ==
    /\ d \in PageAnswers
    /\ d.v <= a.v /\ d.said <= a.said
    /\ d.mine # "none" => a.mine = d.mine

(* A read: what may still be shown is no older than the last write's answer. *)
ReadFits(r, a, ack) ==
    /\ r \in LoadRows
    /\ OnceSo(r.got, a)
    /\ r.lands /\ r.st = "ok" => r.got.v >= ack

ReadsFit(rs, a, ack) ==
    /\ rs \in Seq(LoadRows)
    /\ \A n \in 1 .. Len(rs) : ReadFits(rs[n], a, ack)
    /\ \A m, n \in 1 .. Len(rs) : rs[m].for = "after" /\ rs[n].for = "after" => m = n

(* No read is out to settle a write; there is none but for a write that waits. *)
NoneAfter(rs) == \A n \in 1 .. Len(rs) : rs[n].for # "after"

PageFits(pg, a) ==
    /\ pg \in PageRows
    /\ pg.ack <= a.v
    /\ pg.told.word \in {"ok", "reason"} => DoneOf(pg.told.kind, a)

(* A write answered as done was done; an objection's reason comes after the objection. *)
OpFits(o, a) ==
    /\ o \in OpRows
    /\ OnceSo(o.got, a)
    /\ o.kind = "none" => o.st = "none"
    /\ o.st \in {"ok", "null"} /\ o.step = 1 => DoneOf(o.kind, a)
    /\ o.step = 2 => o.kind = "object" /\ a.mine = "objected"
    /\ o.st = "after-null" => DoneOf(o.kind, a)

GoodPage ==
    /\ api \in Apis
    /\ PageFits(page, api)
    /\ ReadsFit(loads, api, page.ack)
    /\ op.st \in After \/ NoneAfter(loads)
    /\ OpFits(op, api)
    /\ late \in Page!Writes

LEMMA NoDetailSo ==
    ASSUME NEW a \in Apis
    PROVE  OnceSo(Page!NoDetail, a) /\ Page!NoDetail \in PageAnswers
<1>1. /\ 0 \in Nat /\ "debate" \in States /\ FALSE \in BOOLEAN /\ "none" \in Page!Choices
  BY DEF States, Page!Choices
<1>2. Page!NoDetail \in PageAnswers
  BY <1>1, Zenon DEF PageAnswers, Page!NoDetail
<1>3. a.v \in Nat /\ a.said \in Nat
  BY DEF Apis
<1> QED
  BY <1>2, <1>3 DEF OnceSo, Page!NoDetail

LEMMA DetailSo ==
    ASSUME api \in Apis, NEW you \in BOOLEAN
    PROVE  OnceSo(Page!Detail(you), api) /\ Page!Detail(you).v = api.v
<1>1. /\ api.v \in Nat /\ api.state \in States /\ api.mine \in Page!Choices /\ api.said \in Nat
  BY DEF Apis
<1>2. Page!Detail(you) \in PageAnswers
  BY <1>1, Zenon DEF PageAnswers, Page!Detail
<1> QED
  BY <1>1, <1>2 DEF OnceSo, Page!Detail

(* What was so stays once so as the API moves on. *)
MovesOn(a, b) ==
    /\ b \in Apis
    /\ b.v >= a.v /\ b.said >= a.said
    /\ a.mine # "none" => b.mine = a.mine

LEMMA StillSo ==
    ASSUME NEW a \in Apis, NEW b, MovesOn(a, b)
    PROVE  /\ \A d : OnceSo(d, a) => OnceSo(d, b)
           /\ \A k : DoneOf(k, a) => DoneOf(k, b)
<1>1. /\ a.v \in Nat /\ a.said \in Nat /\ b.v \in Nat /\ b.said \in Nat
      /\ b.v >= a.v /\ b.said >= a.said /\ (a.mine # "none" => b.mine = a.mine)
  BY DEF MovesOn, Apis
<1>2. ASSUME NEW d, OnceSo(d, a) PROVE OnceSo(d, b)
  <2>1. d \in PageAnswers /\ d.v \in Nat /\ d.said \in Nat
    BY <1>2 DEF OnceSo, PageAnswers
  <2> QED
    BY <1>1, <1>2, <2>1 DEF OnceSo
<1>3. ASSUME NEW k, DoneOf(k, a) PROVE DoneOf(k, b)
  BY <1>1, <1>3 DEF DoneOf
<1> QED
  BY <1>2, <1>3

LEMMA MovedFits ==
    ASSUME NEW a \in Apis, NEW b, MovesOn(a, b)
    PROVE  /\ \A pg : PageFits(pg, a) => PageFits(pg, b)
           /\ \A o : OpFits(o, a) => OpFits(o, b)
           /\ \A rs, ack : ReadsFit(rs, a, ack) => ReadsFit(rs, b, ack)
<1>1. /\ a.v \in Nat /\ b.v \in Nat /\ b.v >= a.v /\ (a.mine = "objected" => b.mine = "objected")
  BY DEF MovesOn, Apis
<1>2. ASSUME NEW pg, PageFits(pg, a) PROVE PageFits(pg, b)
  <2>1. pg.ack \in Nat
    BY <1>2 DEF PageFits, PageRows
  <2> QED
    BY <1>1, <1>2, <2>1, StillSo DEF PageFits
<1>3. ASSUME NEW o, OpFits(o, a) PROVE OpFits(o, b)
  BY <1>1, <1>3, StillSo DEF OpFits
<1>4. ASSUME NEW rs, NEW ack, ReadsFit(rs, a, ack) PROVE ReadsFit(rs, b, ack)
  BY <1>4, StillSo DEF ReadsFit, ReadFits
<1> QED
  BY <1>2, <1>3, <1>4

(* The list of reads: one goes, one comes, all are marked. *)
LEMMA RestFits ==
    ASSUME NEW a, NEW ack, ReadsFit(loads, a, ack), NEW i \in 1 .. Len(loads)
    PROVE  /\ ReadsFit(Page!Rest(i), a, ack)
           /\ NoneAfter(loads) \/ loads[i].for = "after" => NoneAfter(Page!Rest(i))
<1>1. loads \in Seq(LoadRows) /\ Len(loads) \in Nat /\ i \in Nat /\ 1 <= i /\ i <= Len(loads)
  BY DEF ReadsFit
<1>2. /\ Page!Rest(i) \in Seq(LoadRows)
      /\ Len(Page!Rest(i)) = Len(loads) - 1
      /\ \A n \in 1 .. Len(loads) - 1 : Page!Rest(i)[n] = loads[IF n < i THEN n ELSE n + 1]
  <2> DEFINE before == SubSeq(loads, 1, i - 1)
             behind == SubSeq(loads, i + 1, Len(loads))
  <2>1. /\ before \in Seq(LoadRows) /\ Len(before) = i - 1
        /\ \A n \in 1 .. i - 1 : before[n] = loads[n]
    BY <1>1
  <2>2. /\ behind \in Seq(LoadRows) /\ Len(behind) = Len(loads) - i
        /\ \A n \in 1 .. Len(loads) - i : behind[n] = loads[i + n]
    BY <1>1
  <2>3. Page!Rest(i) = before \o behind
    BY DEF Page!Rest
  <2> HIDE DEF before, behind
  <2>4. /\ before \o behind \in Seq(LoadRows) /\ Len(before \o behind) = Len(loads) - 1
        /\ \A n \in 1 .. Len(loads) - 1 :
             (before \o behind)[n] = IF n <= i - 1 THEN before[n] ELSE behind[n - (i - 1)]
    <3>1. /\ before \o behind \in Seq(LoadRows)
          /\ Len(before \o behind) = Len(before) + Len(behind)
          /\ \A n \in 1 .. Len(before) + Len(behind) :
               (before \o behind)[n] =
                 IF n <= Len(before) THEN before[n] ELSE behind[n - Len(before)]
      BY <2>1, <2>2, ConcatProperties
    <3>2. Len(before) + Len(behind) = Len(loads) - 1
      BY <1>1, <2>1, <2>2
    <3> QED
      BY <2>1, <3>1, <3>2
  <2>5. ASSUME NEW n \in 1 .. Len(loads) - 1
        PROVE  (before \o behind)[n] = loads[IF n < i THEN n ELSE n + 1]
    <3>1. CASE n < i
      BY <1>1, <2>1, <2>4, <3>1
    <3>2. CASE ~(n < i)
      <4>1. n - (i - 1) \in 1 .. Len(loads) - i /\ i + (n - (i - 1)) = n + 1 /\ ~(n <= i - 1)
        BY <1>1, <3>2
      <4>2. behind[n - (i - 1)] = loads[n + 1]
        BY <2>2, <4>1
      <4> QED
        BY <2>4, <3>2, <4>1, <4>2
    <3> QED
      BY <3>1, <3>2
  <2> QED
    BY <2>3, <2>4, <2>5
<1> DEFINE from(n) == IF n < i THEN n ELSE n + 1
<1>3. \A n \in 1 .. Len(loads) - 1 :
        from(n) \in 1 .. Len(loads) /\ from(n) # i /\ Page!Rest(i)[n] = loads[from(n)]
  BY <1>1, <1>2
<1>4. \A m, n \in 1 .. Len(loads) - 1 : from(m) = from(n) => m = n
  BY <1>1
<1> HIDE DEF from
<1>5. ReadsFit(Page!Rest(i), a, ack)
  BY <1>2, <1>3, <1>4 DEF ReadsFit
<1>6. ASSUME NoneAfter(loads) \/ loads[i].for = "after" PROVE NoneAfter(Page!Rest(i))
  BY <1>2, <1>3, <1>6 DEF ReadsFit, NoneAfter
<1> QED
  BY <1>5, <1>6

(* One read of a list that may not be shown any more. *)
LEMMA BarredFit ==
    ASSUME NEW r, NEW a, NEW ack, ReadFits(r, a, ack), NEW later
    PROVE  ReadFits([r EXCEPT !.lands = FALSE], a, later) /\ [r EXCEPT !.lands = FALSE].for = r.for
<1>1. r \in LoadRows
  BY DEF ReadFits
<1> DEFINE s == [r EXCEPT !.lands = FALSE]
<1>2. s \in LoadRows /\ s.got = r.got /\ s.lands = FALSE /\ s.for = r.for
  BY <1>1 DEF LoadRows
<1> HIDE DEF s
<1>3. ReadFits(s, a, later) /\ s.for = r.for
  BY <1>2 DEF ReadFits
<1> QED
  BY <1>3 DEF s

LEMMA MarkedFits ==
    ASSUME NEW rs, NEW a, NEW ack, NEW later, ReadsFit(rs, a, ack), NEW marked,
           marked = [n \in 1 .. Len(rs) |-> marked[n]],
           \A n \in 1 .. Len(rs) : ReadFits(marked[n], a, later) /\ marked[n].for = rs[n].for
    PROVE  ReadsFit(marked, a, later) /\ (NoneAfter(rs) => NoneAfter(marked))
<1>1. rs \in Seq(LoadRows) /\ Len(rs) \in Nat
  BY DEF ReadsFit
<1>2. \A n \in 1 .. Len(rs) : marked[n] \in LoadRows
  BY DEF ReadFits
<1>3. marked \in Seq(LoadRows) /\ Len(marked) = Len(rs)
  BY <1>1, <1>2
<1> QED
  BY <1>3 DEF ReadsFit, NoneAfter

LEMMA AllBarred ==
    ASSUME NEW a, NEW ack, NEW later, NEW rs, ReadsFit(rs, a, ack)
    PROVE  ReadsFit(Page!Barred(rs), a, later) /\ (NoneAfter(rs) => NoneAfter(Page!Barred(rs)))
<1> DEFINE marked == Page!Barred(rs)
<1>1. /\ marked = [n \in 1 .. Len(rs) |-> marked[n]]
      /\ \A n \in 1 .. Len(rs) : marked[n] = [rs[n] EXCEPT !.lands = FALSE]
  BY DEF Page!Barred
<1> HIDE DEF marked
<1>2. ASSUME NEW n \in 1 .. Len(rs)
      PROVE  ReadFits(marked[n], a, later) /\ marked[n].for = rs[n].for
  <2>1. ReadFits(rs[n], a, ack)
    BY DEF ReadsFit
  <2>2. ReadFits([rs[n] EXCEPT !.lands = FALSE], a, later) /\ [rs[n] EXCEPT !.lands = FALSE].for = rs[n].for
    BY <2>1, BarredFit
  <2> QED
    BY <1>1, <2>2
<1>3. ReadsFit(marked, a, later) /\ (NoneAfter(rs) => NoneAfter(marked))
  BY <1>1, <1>2, MarkedFits
<1> QED
  BY <1>3 DEF marked

LEMMA OvertakenFits ==
    ASSUME NEW a, NEW ack, NEW rs, ReadsFit(rs, a, ack), NEW i
    PROVE  /\ ReadsFit(Page!Overtaken(i, rs), a, ack)
           /\ NoneAfter(rs) => NoneAfter(Page!Overtaken(i, rs))
<1> DEFINE marked == Page!Overtaken(i, rs)
<1>1. /\ marked = [n \in 1 .. Len(rs) |-> marked[n]]
      /\ \A n \in 1 .. Len(rs) : marked[n] = IF n < i THEN [rs[n] EXCEPT !.lands = FALSE] ELSE rs[n]
  BY DEF Page!Overtaken
<1> HIDE DEF marked
<1>2. ASSUME NEW n \in 1 .. Len(rs)
      PROVE  ReadFits(marked[n], a, ack) /\ marked[n].for = rs[n].for
  <2>1. ReadFits(rs[n], a, ack)
    BY DEF ReadsFit
  <2>2. ReadFits([rs[n] EXCEPT !.lands = FALSE], a, ack) /\ [rs[n] EXCEPT !.lands = FALSE].for = rs[n].for
    BY <2>1, BarredFit
  <2> QED
    BY <1>1, <2>1, <2>2
<1>3. ReadsFit(marked, a, ack) /\ (NoneAfter(rs) => NoneAfter(marked))
  BY <1>1, <1>2, MarkedFits
<1> QED
  BY <1>3 DEF marked

LEMMA LandedFits ==
    ASSUME NEW a, NEW ack, ReadsFit(loads, a, ack), NEW i \in 1 .. Len(loads)
    PROVE  /\ ReadsFit(Page!Landed(i), a, ack)
           /\ NoneAfter(loads) \/ loads[i].for = "after" => NoneAfter(Page!Landed(i))
BY RestFits, OvertakenFits DEF Page!Landed

Fors == {"load", "you", "refresh", "after", "house"}

LEMMA NewReadFits ==
    ASSUME NEW a \in Apis, NEW ack, NEW for \in Fors, NEW how \in {"you", "public"}
    PROVE  ReadFits(Page!NewRead(for, how), a, ack) /\ Page!NewRead(for, how).for = for
<1>1. OnceSo(Page!NoDetail, a) /\ Page!NoDetail \in PageAnswers
  BY NoDetailSo
<1>2. "out" \in {"out", "ok"} /\ TRUE \in BOOLEAN
  OBVIOUS
<1>3. Page!NewRead(for, how) \in LoadRows
  BY <1>1, <1>2, Zenon DEF LoadRows, Page!NewRead, Fors
<1>4. /\ Page!NewRead(for, how).got = Page!NoDetail /\ Page!NewRead(for, how).st = "out"
      /\ Page!NewRead(for, how).for = for
  BY DEF Page!NewRead
<1> QED
  BY <1>1, <1>3, <1>4 DEF ReadFits

LEMMA AppendedFits ==
    ASSUME NEW a \in Apis, NEW ack, NEW rs, ReadsFit(rs, a, ack),
           NEW for \in Fors, NEW how \in {"you", "public"}, for = "after" => NoneAfter(rs)
    PROVE  /\ ReadsFit(Append(rs, Page!NewRead(for, how)), a, ack)
           /\ for # "after" /\ NoneAfter(rs) => NoneAfter(Append(rs, Page!NewRead(for, how)))
<1> DEFINE r == Page!NewRead(for, how)
<1>1. ReadFits(r, a, ack) /\ r.for = for /\ r \in LoadRows
  BY NewReadFits DEF ReadFits
<1>2. rs \in Seq(LoadRows) /\ Len(rs) \in Nat
  BY DEF ReadsFit
<1> HIDE DEF r
<1>3. /\ Append(rs, r) \in Seq(LoadRows) /\ Len(Append(rs, r)) = Len(rs) + 1
      /\ \A n \in 1 .. Len(rs) : Append(rs, r)[n] = rs[n]
      /\ Append(rs, r)[Len(rs) + 1] = r
  BY <1>1, <1>2
<1>4. \A n \in 1 .. Len(rs) + 1 : n \in 1 .. Len(rs) \/ n = Len(rs) + 1
  BY <1>2
<1>5. ReadsFit(Append(rs, r), a, ack) /\ (for # "after" /\ NoneAfter(rs) => NoneAfter(Append(rs, r)))
  BY <1>1, <1>3, <1>4 DEF ReadsFit, NoneAfter
<1> QED
  BY <1>5 DEF r

(* What is put on the page, and what it says. *)
LEMMA ShownFits ==
    ASSUME NEW pg \in PageRows, NEW d \in PageAnswers
    PROVE  /\ Page!Shown(pg, d) \in PageRows
           /\ Page!Shown(pg, d).told = pg.told /\ Page!Shown(pg, d).ack = pg.ack
           /\ Page!Shown(pg, d).detail = d
<1>1. PICK s \in Writes \cup {"none"} : Page!Shown(pg, d) = [pg EXCEPT !.detail = d, !.step = s]
  <2>1. pg.step \in Writes \cup {"none"}
    BY DEF PageRows
  <2> QED
    BY <2>1 DEF Page!Shown
<1> QED
  BY <1>1 DEF PageRows

LEMMA ToldFits ==
    ASSUME NEW pg \in PageRows, op \in OpRows, NEW word \in Words
    PROVE  /\ Page!Told(pg, word) \in PageRows
           /\ Page!Told(pg, word).told.word = word /\ Page!Told(pg, word).told.kind = op.kind
           /\ Page!Told(pg, word).ack = pg.ack /\ Page!Told(pg, word).detail = pg.detail
<1> DEFINE t == [kind |-> op.kind, word |-> word]
<1>1. op.kind \in Page!Writes
  BY DEF OpRows
<1>2. t \in ToldRows
  BY <1>1, Zenon DEF ToldRows
<1>3. t.word = word /\ t.kind = op.kind
  OBVIOUS
<1>4. PICK s \in Writes \cup {"none"} : Page!Told(pg, word) = [pg EXCEPT !.told = t, !.step = s]
  <2>1. pg.step \in Writes \cup {"none"}
    BY DEF PageRows
  <2> QED
    BY <2>1 DEF Page!Told
<1> HIDE DEF t
<1>5. /\ [pg EXCEPT !.told = t, !.step = s] \in PageRows
      /\ [pg EXCEPT !.told = t, !.step = s].told = t
      /\ [pg EXCEPT !.told = t, !.step = s].ack = pg.ack
      /\ [pg EXCEPT !.told = t, !.step = s].detail = pg.detail
  BY <1>2 DEF PageRows
<1> QED
  BY <1>3, <1>4, <1>5

LEMMA ViewFits ==
    ASSUME NEW pg \in PageRows, NEW v \in {"loading", "ready", "failed"}
    PROVE  /\ [pg EXCEPT !.view = v] \in PageRows
           /\ [pg EXCEPT !.view = v].told = pg.told /\ [pg EXCEPT !.view = v].ack = pg.ack
           /\ [pg EXCEPT !.view = v].detail = pg.detail
BY DEF PageRows

(* The page after a read: told what it was told, and never an older answer. *)
Same(pg) ==
    /\ pg \in PageRows
    /\ pg.told = page.told /\ pg.ack = page.ack

LEMMA ShowsFit ==
    ASSUME GoodPage, NEW i \in 1 .. Len(loads), loads[i].st = "ok"
    PROVE  /\ Same(Page!Shows(page, i))
           /\ Page!Shows(page, i).detail # page.detail => Page!Shows(page, i).detail.v >= page.ack
<1>1. page \in PageRows /\ ReadFits(loads[i], api, page.ack) /\ loads[i].got \in PageAnswers
  BY DEF GoodPage, PageFits, ReadsFit, ReadFits, OnceSo
<1>2. CASE Page!Accepted(i)
  <2>1. loads[i].got.v >= page.ack
    BY <1>1, <1>2 DEF Page!Accepted, ReadFits
  <2>2. Page!Shows(page, i) = Page!Shown(page, loads[i].got)
    BY <1>2 DEF Page!Shows
  <2> QED
    BY <1>1, <2>1, <2>2, ShownFits DEF Same
<1>3. CASE ~Page!Accepted(i)
  BY <1>1, <1>3 DEF Page!Shows, Same
<1> QED
  BY <1>2, <1>3

LEMMA FailedFits ==
    ASSUME GoodPage
    PROVE  LET pg == [page EXCEPT !.view = "failed", !.detail = Page!NoDetail]
           IN  Same(pg) /\ pg.detail = Page!NoDetail
<1>1. page \in PageRows /\ Page!NoDetail \in PageAnswers
  BY NoDetailSo DEF GoodPage, PageFits
<1> QED
  BY <1>1 DEF PageRows, Same

(* What the page says of a write once the proposal was read again is so. *)
LEMMA VerdictSo ==
    ASSUME GoodPage, op.st \in After, NEW d, OnceSo(d, api)
    PROVE  /\ Page!Verdict(d) \in Words
           /\ Page!Verdict(d) \in {"ok", "reason"} => DoneOf(op.kind, api)
<1>1. /\ op \in OpRows /\ op.kind \in {"consent", "object", "comment"}
      /\ (op.st = "after-null" => DoneOf(op.kind, api))
  BY DEF GoodPage, OpFits, OpRows, Page!Writes, After
<1>2. Page!Went(d) = "yes" => DoneOf(op.kind, api)
  <2>1. d.said \in Nat /\ api.said \in Nat /\ op.before \in Nat /\ d.said <= api.said
    BY <1>1 DEF OnceSo, PageAnswers, GoodPage, Apis, OpRows
  <2>2. d.mine # "none" => api.mine = d.mine
    BY DEF OnceSo
  <2> QED
    BY <1>1, <2>1, <2>2 DEF Page!Went, DoneOf
<1>3. Page!Verdict(d) \in {"ok", "unread", "not", "unsure", "no"}
  BY DEF Page!Verdict
<1>4. Page!Verdict(d) = "ok" => op.st = "after-null" \/ Page!Went(d) = "yes"
  BY DEF Page!Verdict
<1> QED
  BY <1>1, <1>2, <1>3, <1>4 DEF Words

LEMMA NoOpFits ==
    ASSUME NEW a \in Apis
    PROVE  OpFits(Page!NoOp, a) /\ Page!NoOp \in OpRows
<1>1. OnceSo(Page!NoDetail, a) /\ Page!NoDetail \in PageAnswers
  BY NoDetailSo
<1>2. /\ "none" \in Page!Writes /\ 1 \in {1, 2} /\ 0 \in Nat
      /\ "none" \in {"none", "out", "ok", "null", "stale", "no", "lost"} \cup After
  BY DEF Page!Writes
<1>3. Page!NoOp \in OpRows
  BY <1>1, <1>2, Zenon DEF OpRows, Page!NoOp
<1>4. Page!NoOp.got = Page!NoDetail /\ Page!NoOp.st = "none" /\ Page!NoOp.step = 1
  BY DEF Page!NoOp
<1> QED
  BY <1>1, <1>3, <1>4 DEF OpFits

(* How a read ends. *)
LEMMA EndsFit ==
    ASSUME GoodPage, NEW i \in 1 .. Len(loads), NEW pg, Same(pg),
           NEW rs, ReadsFit(rs, api, page.ack),
           loads[i].for = "after" => NoneAfter(rs),
           loads[i].for # "after" => op.st \in After \/ NoneAfter(rs),
           NEW d, OnceSo(d, api), Page!Ends(i, pg, rs, d)
    PROVE  GoodPage' /\ page'.detail = pg.detail /\ page'.ack = page.ack
<1>1. /\ api' = api /\ late' = late /\ loads' = rs /\ api \in Apis
      /\ PageFits(page, api) /\ pg \in PageRows /\ op \in OpRows
  BY DEF Page!Ends, GoodPage, Same, OpFits
<1>2. CASE loads[i].for = "after"
  <2>1. page' = Page!Told(pg, Page!Verdict(d)) /\ op' = Page!NoOp
    BY <1>2 DEF Page!Ends
  <2>2. op.st \in After
    BY <1>2 DEF GoodPage, NoneAfter
  <2>3. Page!Verdict(d) \in Words /\ (Page!Verdict(d) \in {"ok", "reason"} => DoneOf(op.kind, api))
    BY <2>2, VerdictSo
  <2>4. /\ page' \in PageRows /\ page'.ack = pg.ack /\ page'.detail = pg.detail
        /\ page'.told.word = Page!Verdict(d) /\ page'.told.kind = op.kind
    BY <1>1, <2>1, <2>3, ToldFits
  <2>5. PageFits(page', api')
    BY <1>1, <2>3, <2>4 DEF PageFits, Same
  <2>6. OpFits(op', api')
    BY <1>1, <2>1, NoOpFits
  <2> QED
    BY <1>1, <1>2, <2>4, <2>5, <2>6 DEF GoodPage, Same
<1>3. CASE loads[i].for # "after"
  <2>1. page' = pg /\ op' = op
    BY <1>3 DEF Page!Ends
  <2>2. PageFits(page', api')
    BY <1>1, <2>1 DEF PageFits, Same
  <2> QED
    BY <1>1, <1>3, <2>1, <2>2 DEF GoodPage, Same
<1> QED
  BY <1>2, <1>3

-----------------------------------------------------------------------------
(* Each action of the page keeps it so; and none puts the proposal back.   *)

PageKept == GoodPage' /\ Page!NeverBackStep

LEMMA WhatFits ==
    ASSUME GoodPage
    PROVE  /\ api \in Apis /\ page \in PageRows /\ op \in OpRows /\ loads \in Seq(LoadRows)
           /\ page.ack \in Nat /\ api.v \in Nat /\ page.ack <= api.v
           /\ \A n \in 1 .. Len(loads) : loads[n] \in LoadRows /\ ReadFits(loads[n], api, page.ack)
BY DEF GoodPage, PageFits, OpFits, ReadsFit, ReadFits, Apis, PageRows

LEMMA ServedFits ==
    ASSUME GoodPage, NEW i \in 1 .. Len(loads), Page!ReadServed(i)
    PROVE  PageKept
<1>1. PICK you \in BOOLEAN :
        loads' = [loads EXCEPT ![i] = [loads[i] EXCEPT !.st = "ok", !.got = Page!Detail(you)]]
  BY DEF Page!ReadServed
<1>2. UNCHANGED <<api, page, op, late>>
  BY DEF Page!ReadServed
<1> DEFINE r == [loads[i] EXCEPT !.st = "ok", !.got = Page!Detail(you)]
<1>3. ReadFits(r, api, page.ack) /\ r.for = loads[i].for /\ r \in LoadRows
  <2>1. loads[i] \in LoadRows
    BY WhatFits
  <2>2. OnceSo(Page!Detail(you), api) /\ Page!Detail(you).v = api.v /\ Page!Detail(you) \in PageAnswers
    BY WhatFits, DetailSo DEF OnceSo
  <2>3. r \in LoadRows /\ r.got = Page!Detail(you) /\ r.for = loads[i].for
    BY <2>1, <2>2 DEF LoadRows
  <2> HIDE DEF r
  <2> QED
    BY <2>2, <2>3, WhatFits DEF ReadFits
<1> HIDE DEF r
<1>4. /\ loads' \in Seq(LoadRows) /\ Len(loads') = Len(loads)
      /\ \A n \in 1 .. Len(loads) : loads'[n] = IF n = i THEN r ELSE loads[n]
  BY <1>1, <1>3, WhatFits DEF r
<1>5. /\ \A n \in 1 .. Len(loads) : ReadFits(loads'[n], api, page.ack) /\ loads'[n].for = loads[n].for
  BY <1>3, <1>4, WhatFits
<1>6. ReadsFit(loads', api, page.ack) /\ (NoneAfter(loads) => NoneAfter(loads'))
  BY <1>4, <1>5 DEF GoodPage, ReadsFit, NoneAfter
<1> QED
  BY <1>2, <1>6 DEF GoodPage, PageKept, Page!NeverBackStep

(* A read's answer lands, or it ends without one. *)
LEMMA EndsKept ==
    ASSUME GoodPage, NEW i \in 1 .. Len(loads), NEW pg, Same(pg),
           pg.detail # page.detail => pg.detail = Page!NoDetail \/ pg.detail.v >= page.ack,
           NEW rs, rs \in {Page!Rest(i), Page!Landed(i)}, NEW d, OnceSo(d, api),
           Page!Ends(i, pg, rs, d)
    PROVE  PageKept
<1>1. ReadsFit(loads, api, page.ack) /\ (op.st \in After \/ NoneAfter(loads))
  BY DEF GoodPage
<1>2. /\ ReadsFit(rs, api, page.ack)
      /\ (NoneAfter(loads) \/ loads[i].for = "after" => NoneAfter(rs))
  BY <1>1, RestFits, LandedFits
<1>3. GoodPage' /\ page'.detail = pg.detail /\ page'.ack = page.ack
  BY <1>1, <1>2, EndsFit
<1> QED
  BY <1>3 DEF PageKept, Page!NeverBackStep

LEMMA AgainFits ==
    ASSUME GoodPage, NEW i \in 1 .. Len(loads), NEW pg, Same(pg),
           pg.detail # page.detail => pg.detail = Page!NoDetail \/ pg.detail.v >= page.ack,
           NEW rs, rs \in {Page!Rest(i), Page!Landed(i)}, NEW for \in {"load", "you"},
           loads[i].for # "after",
           Page!Ends(i, pg, Append(rs, Page!NewRead(for, "you")), Page!NoDetail)
    PROVE  PageKept
<1>1. ReadsFit(loads, api, page.ack) /\ (op.st \in After \/ NoneAfter(loads))
  BY DEF GoodPage
<1>2. ReadsFit(rs, api, page.ack) /\ (NoneAfter(loads) => NoneAfter(rs))
  BY <1>1, RestFits, LandedFits
<1>3. for \in Fors /\ for # "after" /\ "you" \in {"you", "public"} /\ api \in Apis
  BY WhatFits DEF Fors
<1> DEFINE more == Append(rs, Page!NewRead(for, "you"))
<1>4. ReadsFit(more, api, page.ack) /\ (NoneAfter(rs) => NoneAfter(more))
  BY <1>2, <1>3, AppendedFits
<1>5. OnceSo(Page!NoDetail, api)
  BY <1>3, NoDetailSo
<1>6. Page!Ends(i, pg, more, Page!NoDetail)
  OBVIOUS
<1> HIDE DEF more
<1>7. GoodPage' /\ page'.detail = pg.detail /\ page'.ack = page.ack
  BY <1>1, <1>2, <1>4, <1>5, <1>6, EndsFit
<1> QED
  BY <1>7 DEF PageKept, Page!NeverBackStep

LEMMA YouLandsFits ==
    ASSUME GoodPage, NEW i \in 1 .. Len(loads), Page!YouLands(i)
    PROVE  PageKept
<1> DEFINE shows == Page!Shows(page, i)
           pg == [shows EXCEPT !.view = IF loads[i].for = "load" THEN "ready" ELSE shows.view]
<1>1. loads[i].st = "ok" /\ Page!Ends(i, pg, Page!Landed(i), loads[i].got)
  BY DEF Page!YouLands
<1>2. Same(shows) /\ (shows.detail # page.detail => shows.detail.v >= page.ack)
  BY <1>1, ShowsFit
<1>3. (IF loads[i].for = "load" THEN "ready" ELSE shows.view) \in {"loading", "ready", "failed"}
  BY <1>2 DEF Same, PageRows
<1>4. OnceSo(loads[i].got, api)
  BY WhatFits DEF ReadFits
<1> HIDE DEF shows
<1>5. Same(pg) /\ pg.detail = shows.detail
  BY <1>2, <1>3, ViewFits DEF Same
<1> HIDE DEF pg
<1> QED
  BY <1>1, <1>2, <1>4, <1>5, EndsKept

LEMMA YouMissesFits ==
    ASSUME GoodPage, NEW i \in 1 .. Len(loads), Page!YouMisses(i)
    PROVE  PageKept
<1>1. OnceSo(Page!NoDetail, api)
  BY WhatFits, NoDetailSo
<1>2. CASE loads[i].for = "load"
  <2> DEFINE pg == [page EXCEPT !.view = "failed", !.detail = Page!NoDetail]
  <2>1. Page!Ends(i, pg, Page!Rest(i), Page!NoDetail)
    BY <1>2 DEF Page!YouMisses
  <2>2. Same(pg) /\ pg.detail = Page!NoDetail
    BY FailedFits
  <2> HIDE DEF pg
  <2> QED
    BY <1>1, <2>1, <2>2, EndsKept
<1>3. CASE loads[i].for \in {"refresh", "after"} /\ ~page.detail.you
  <2>1. /\ loads' = Append(Page!Rest(i), Page!NewRead(loads[i].for, "public"))
        /\ UNCHANGED <<api, page, op, late>>
    BY <1>3 DEF Page!YouMisses
  <2>2. ReadsFit(loads, api, page.ack) /\ (op.st \in After \/ NoneAfter(loads)) /\ api \in Apis
    BY WhatFits DEF GoodPage
  <2>3. /\ ReadsFit(Page!Rest(i), api, page.ack)
        /\ (NoneAfter(loads) \/ loads[i].for = "after" => NoneAfter(Page!Rest(i)))
    BY <2>2, RestFits
  <2>4. loads[i].for \in Fors /\ "public" \in {"you", "public"}
    BY <1>3 DEF Fors
  <2>5. /\ ReadsFit(loads', api, page.ack)
        /\ (loads[i].for # "after" /\ NoneAfter(Page!Rest(i)) => NoneAfter(loads'))
    BY <2>1, <2>2, <2>3, <2>4, AppendedFits
  <2>6. loads[i].for = "after" => ~NoneAfter(loads)
    BY DEF NoneAfter
  <2> QED
    BY <2>1, <2>2, <2>3, <2>5, <2>6 DEF GoodPage, PageKept, Page!NeverBackStep
<1>4. CASE ~(loads[i].for = "load") /\ ~(loads[i].for \in {"refresh", "after"} /\ ~page.detail.you)
  <2>1. Page!Ends(i, page, Page!Rest(i), Page!NoDetail)
    BY <1>4 DEF Page!YouMisses
  <2> QED
    BY <1>1, <2>1, WhatFits, EndsKept DEF Same
<1> QED
  BY <1>2, <1>3, <1>4

LEMMA PublicLandsFits ==
    ASSUME GoodPage, NEW i \in 1 .. Len(loads), Page!PublicLands(i)
    PROVE  PageKept
<1> DEFINE shows == Page!Shows(page, i)
<1>1. loads[i].st = "ok"
  BY DEF Page!PublicLands
<1>2. Same(shows) /\ (shows.detail # page.detail => shows.detail.v >= page.ack)
  BY <1>1, ShowsFit
<1>3. OnceSo(loads[i].got, api) /\ OnceSo(Page!NoDetail, api)
  BY WhatFits, NoDetailSo DEF ReadFits
<1>4. CASE loads[i].for = "load"
  <2> DEFINE pg == [shows EXCEPT !.view = "ready"]
  <2>1. Page!Ends(i, pg, IF page.in THEN Append(Page!Landed(i), Page!NewRead("you", "you"))
                         ELSE Page!Landed(i), Page!NoDetail)
    BY <1>4 DEF Page!PublicLands
  <2> HIDE DEF shows
  <2>2. Same(pg) /\ pg.detail = shows.detail
    BY <1>2, ViewFits DEF Same
  <2> HIDE DEF pg
  <2>3. CASE page.in
    BY <1>2, <1>4, <2>1, <2>2, <2>3, AgainFits
  <2>4. CASE ~page.in
    BY <1>2, <1>3, <2>1, <2>2, <2>4, EndsKept
  <2> QED
    BY <2>3, <2>4
<1>5. CASE loads[i].for # "load"
  <2>1. Page!Ends(i, shows, Page!Landed(i), loads[i].got)
    BY <1>5 DEF Page!PublicLands
  <2> HIDE DEF shows
  <2> QED
    BY <1>2, <1>3, <2>1, EndsKept
<1> QED
  BY <1>4, <1>5

LEMMA PublicMissesFits ==
    ASSUME GoodPage, NEW i \in 1 .. Len(loads), Page!PublicMisses(i)
    PROVE  PageKept
<1>1. OnceSo(Page!NoDetail, api) /\ Same(page)
  BY WhatFits, NoDetailSo DEF Same
<1>2. CASE loads[i].for # "load"
  <2>1. Page!Ends(i, page, Page!Rest(i), Page!NoDetail)
    BY <1>2 DEF Page!PublicMisses
  <2> QED
    BY <1>1, <2>1, EndsKept
<1>3. CASE loads[i].for = "load" /\ page.in
  <2>1. Page!Ends(i, page, Append(Page!Rest(i), Page!NewRead("load", "you")), Page!NoDetail)
    BY <1>3 DEF Page!PublicMisses
  <2> QED
    BY <1>1, <1>3, <2>1, AgainFits
<1>4. CASE loads[i].for = "load" /\ ~page.in
  <2> DEFINE pg == [page EXCEPT !.view = "failed", !.detail = Page!NoDetail]
  <2>1. Page!Ends(i, pg, Page!Rest(i), Page!NoDetail)
    BY <1>4 DEF Page!PublicMisses
  <2>2. Same(pg) /\ pg.detail = Page!NoDetail
    BY FailedFits
  <2> HIDE DEF pg
  <2> QED
    BY <1>1, <2>1, <2>2, EndsKept
<1> QED
  BY <1>2, <1>3, <1>4

(* A read leaves. *)
LEMMA LeavesFit ==
    ASSUME GoodPage, NEW pg, Same(pg), pg.detail = page.detail, page' = pg,
           NEW rs, ReadsFit(rs, api, page.ack), NoneAfter(loads) => NoneAfter(rs),
           NEW for \in Fors \ {"after"}, NEW how \in {"you", "public"},
           loads' = Append(rs, Page!NewRead(for, how)), UNCHANGED <<api, op, late>>
    PROVE  PageKept
<1>1. ReadsFit(loads', api, page.ack) /\ (NoneAfter(rs) => NoneAfter(loads'))
  BY WhatFits, AppendedFits
<1>2. PageFits(page', api)
  BY DEF GoodPage, PageFits, Same
<1> QED
  BY <1>1, <1>2 DEF GoodPage, PageKept, Page!NeverBackStep, Same

LEMMA ReadsLeaveFit ==
    ASSUME GoodPage,
           Page!Poll \/ Page!HousePoll \/ Page!DeadlineRead \/ Page!TryAgain \/ Page!RetryYou
    PROVE  PageKept
<1>1. Same(page) /\ ReadsFit(loads, api, page.ack)
  BY WhatFits DEF Same, GoodPage
<1>2. /\ "refresh" \in Fors \ {"after"} /\ "house" \in Fors \ {"after"} /\ "load" \in Fors \ {"after"}
      /\ "you" \in Fors \ {"after"} /\ "you" \in {"you", "public"} /\ "public" \in {"you", "public"}
  BY DEF Fors
<1>3. CASE Page!Poll \/ Page!DeadlineRead
  <2>1. /\ loads' = Append(loads, Page!NewRead("refresh", IF page.in THEN "you" ELSE "public"))
        /\ UNCHANGED <<api, page, op, late>>
    BY <1>3 DEF Page!Poll, Page!DeadlineRead, Page!Refresh
  <2>2. (IF page.in THEN "you" ELSE "public") \in {"you", "public"}
    OBVIOUS
  <2> QED
    BY <1>1, <1>2, <2>1, <2>2, LeavesFit
<1>4. CASE Page!HousePoll
  BY <1>1, <1>2, <1>4, LeavesFit DEF Page!HousePoll
<1>5. CASE Page!RetryYou
  BY <1>1, <1>2, <1>5, LeavesFit DEF Page!RetryYou
<1>6. CASE Page!TryAgain
  <2> DEFINE pg == [page EXCEPT !.view = "loading"]
  <2>1. Same(pg) /\ pg.detail = page.detail
    BY WhatFits, ViewFits DEF Same
  <2>2. /\ page' = pg /\ loads' = Append(loads, Page!NewRead("load", "public"))
        /\ UNCHANGED <<api, op, late>>
    BY <1>6 DEF Page!TryAgain
  <2> HIDE DEF pg
  <2> QED
    BY <1>1, <1>2, <2>1, <2>2, LeavesFit
<1> QED
  BY <1>3, <1>4, <1>5, <1>6

LEMMA FoundFits ==
    ASSUME GoodPage, Page!SessionFound
    PROVE  PageKept
<1> DEFINE opening == {n \in 1 .. Len(loads) : loads[n].for = "load"}
           kept == IF opening = {} THEN loads ELSE Page!Rest(CHOOSE n \in opening : TRUE)
           pg == [page EXCEPT !.in = TRUE, !.view = "loading"]
<1>1. /\ loads' = Append(kept, Page!NewRead("load", "public")) /\ page' = pg
      /\ UNCHANGED <<api, op, late>>
  BY DEF Page!SessionFound
<1>2. ReadsFit(loads, api, page.ack)
  BY DEF GoodPage
<1>3. ReadsFit(kept, api, page.ack) /\ (NoneAfter(loads) => NoneAfter(kept))
  <2>1. CASE opening = {}
    BY <1>2, <2>1
  <2>2. CASE opening # {}
    <3>1. (CHOOSE n \in opening : TRUE) \in opening
      BY <2>2, Zenon
    <3>2. (CHOOSE n \in opening : TRUE) \in 1 .. Len(loads)
      BY <3>1
    <3> QED
      BY <1>2, <2>2, <3>2, RestFits
  <2> QED
    BY <2>1, <2>2
<1>4. Same(pg) /\ pg.detail = page.detail
  BY WhatFits DEF PageRows, Same
<1>5. "load" \in Fors \ {"after"} /\ "public" \in {"you", "public"}
  BY DEF Fors
<1> HIDE DEF kept, pg
<1> QED
  BY <1>1, <1>3, <1>4, <1>5, LeavesFit

LEMMA PanelFits ==
    ASSUME GoodPage, Page!OpenStep \/ Page!CancelStep
    PROVE  PageKept
<1>1. PICK s \in Writes \cup {"none"} : page' = [page EXCEPT !.step = s]
  BY DEF Page!OpenStep, Page!CancelStep
<1>2. Same(page') /\ page'.detail = page.detail
  BY <1>1, WhatFits DEF Same, PageRows
<1>3. UNCHANGED <<api, loads, op, late>>
  BY DEF Page!OpenStep, Page!CancelStep
<1>4. PageFits(page', api)
  BY <1>2 DEF GoodPage, PageFits, Same
<1> QED
  BY <1>2, <1>3, <1>4 DEF GoodPage, PageKept, Page!NeverBackStep, Same

LEMMA ActFits ==
    ASSUME GoodPage, NEW kind \in {"consent", "object", "comment"}, Page!Act(kind)
    PROVE  PageKept
<1>1. /\ ~Page!Working /\ loads' = Page!Barred(loads) /\ UNCHANGED <<api, late>>
      /\ op' = [Page!NoOp EXCEPT !.kind = kind, !.st = "out", !.before = page.detail.said]
      /\ page' = [page EXCEPT !.told = [kind |-> "none", word |-> "none"]]
  BY DEF Page!Act
<1>2. NoneAfter(loads) /\ ReadsFit(loads, api, page.ack)
  BY <1>1 DEF GoodPage, Page!Working, After
<1>3. ReadsFit(loads', api, page.ack) /\ NoneAfter(loads')
  BY <1>1, <1>2, AllBarred
<1>4. PageFits(page', api) /\ page'.detail = page.detail /\ page'.ack = page.ack
  <2> DEFINE t == [kind |-> "none", word |-> "none"]
  <2>1. "none" \in Page!Writes /\ "none" \in Words
    BY DEF Page!Writes, Words
  <2>2. t \in ToldRows
    BY <2>1, Zenon DEF ToldRows
  <2>3. t.word = "none"
    OBVIOUS
  <2>4. page' = [page EXCEPT !.told = t]
    BY <1>1
  <2> HIDE DEF t
  <2>5. page' \in PageRows /\ page'.told = t /\ page'.ack = page.ack /\ page'.detail = page.detail
    BY <2>2, <2>4, WhatFits DEF PageRows
  <2> QED
    BY <2>3, <2>5, WhatFits DEF PageFits
<1>5. OpFits(op', api)
  <2>1. Page!NoOp \in OpRows /\ OpFits(Page!NoOp, api)
    BY WhatFits, NoOpFits
  <2>2. page.detail.said \in Nat /\ kind \in Page!Writes
    BY WhatFits DEF PageRows, PageAnswers, Page!Writes
  <2>3. Page!NoOp.step = 1
    BY DEF Page!NoOp
  <2> DEFINE o == [Page!NoOp EXCEPT !.kind = kind, !.st = "out"]
             b == page.detail.said
  <2>4. /\ o \in OpRows /\ o.kind = kind /\ o.st = "out" /\ o.got = Page!NoOp.got
        /\ o.step = Page!NoOp.step
    BY <2>1, <2>2 DEF OpRows
  <2>5. op' = [o EXCEPT !.before = b]
    BY <1>1
  <2> HIDE DEF o, b
  <2>6. b \in Nat
    BY <2>2 DEF b
  <2>7. /\ op' \in OpRows /\ op'.kind = kind /\ op'.st = "out" /\ op'.got = Page!NoOp.got
        /\ op'.step = 1
    BY <2>3, <2>4, <2>5, <2>6 DEF OpRows
  <2> QED
    BY <2>1, <2>7 DEF OpFits
<1> QED
  BY <1>1, <1>3, <1>4, <1>5 DEF GoodPage, PageKept, Page!NeverBackStep

LEMMA PressFits ==
    ASSUME GoodPage, Page!PressConsent \/ Page!PressObject \/ Page!PressComment
    PROVE  PageKept
BY ActFits DEF Page!PressConsent, Page!PressObject, Page!PressComment

-----------------------------------------------------------------------------
(* The API, and the write that is out.                                     *)

LEMMA DoesMoveOn ==
    ASSUME api \in Apis, NEW deed, Page!Takes(deed)
    PROVE  /\ MovesOn(api, Page!Does(deed))
           /\ deed \in {"consent", "object", "comment"} => DoneOf(deed, Page!Does(deed))
<1>1. /\ api.v \in Nat /\ api.said \in Nat /\ api.mine \in Page!Choices
      /\ "consented" \in Page!Choices /\ "objected" \in Page!Choices
  BY DEF Apis, Page!Choices
<1> DEFINE mine == CASE deed = "consent" -> "consented" [] deed = "object" -> "objected" [] OTHER -> api.mine
           count == IF deed = "comment" THEN api.said + 1 ELSE api.said
           more == api.v + 1
<1>2. mine \in Page!Choices /\ count \in Nat /\ more \in Nat
  BY <1>1
<1>3. Page!Does(deed) = [api EXCEPT !.v = more, !.mine = mine, !.said = count]
  BY DEF Page!Does
<1>4. more >= api.v /\ count >= api.said
  BY <1>1
<1>5. api.mine # "none" => mine = api.mine
  BY DEF Page!Takes
<1>6. /\ deed = "consent" => mine = "consented"
      /\ deed = "object" => mine = "objected"
      /\ deed = "comment" => count > 0
  BY <1>1
<1> HIDE DEF mine, count, more
<1> DEFINE b == [api EXCEPT !.v = more, !.mine = mine, !.said = count]
<1>7. b \in Apis /\ b.v = more /\ b.mine = mine /\ b.said = count
  BY <1>2 DEF Apis
<1>8. Page!Does(deed) = b
  BY <1>3
<1> HIDE DEF b
<1> QED
  BY <1>4, <1>5, <1>6, <1>7, <1>8 DEF MovesOn, DoneOf

(* The API moves on, and nothing of the page's with it. *)
LEMMA MovedKept ==
    ASSUME GoodPage, MovesOn(api, api'), UNCHANGED <<page, loads, op>>, late' \in Page!Writes
    PROVE  PageKept
<1>1. /\ PageFits(page, api') /\ OpFits(op, api') /\ ReadsFit(loads, api', page.ack)
      /\ api' \in Apis
  BY MovedFits DEF GoodPage, MovesOn
<1> QED
  BY <1>1 DEF GoodPage, PageKept, Page!NeverBackStep

LEMMA AloneFits ==
    ASSUME GoodPage, Page!ServeLate \/ Page!Others
    PROVE  PageKept
<1>1. api \in Apis /\ api.v \in Nat /\ late \in Page!Writes /\ "none" \in Page!Writes
  BY DEF GoodPage, Apis, Page!Writes
<1>2. MovesOn(api, api)
  BY <1>1 DEF MovesOn, Apis
<1>3. MovesOn(api, api')
  <2>1. CASE Page!ServeLate
    BY <1>1, <1>2, <2>1, DoesMoveOn DEF Page!ServeLate
  <2>2. CASE Page!Others
    <3>1. CASE api' = [api EXCEPT !.v = api.v + 1]
      BY <1>1, <3>1 DEF MovesOn, Apis
    <3>2. CASE api' = [api EXCEPT !.v = api.v + 1, !.state = "voting"]
      <4>1. api.v + 1 \in Nat /\ "voting" \in States /\ api.v + 1 >= api.v
        BY <1>1 DEF States
      <4>2. /\ api' \in Apis /\ api'.v = api.v + 1 /\ api'.mine = api.mine
            /\ api'.said = api.said
        BY <1>1, <3>2, <4>1 DEF Apis
      <4>3. api.said \in Nat
        BY <1>1 DEF Apis
      <4> QED
        BY <4>1, <4>2, <4>3 DEF MovesOn
    <3>3. CASE Page!Takes("consent") /\ api' = Page!Does("consent")
      BY <1>1, <3>3, DoesMoveOn
    <3> QED
      BY <2>2, <3>1, <3>2, <3>3 DEF Page!Others
  <2> QED
    BY <2>1, <2>2
<1>4. UNCHANGED <<page, loads, op>> /\ late' \in Page!Writes
  BY <1>1 DEF Page!ServeLate, Page!Others
<1> QED
  BY <1>3, <1>4, MovedKept

(* The write's own record moves; the page and its reads do not. *)
LEMMA OpMoves ==
    ASSUME GoodPage, MovesOn(api, api') \/ api' = api, UNCHANGED <<page, loads>>,
           late' \in Page!Writes, NoneAfter(loads), OpFits(op', api')
    PROVE  PageKept
<1>1. /\ PageFits(page, api') /\ ReadsFit(loads, api', page.ack) /\ api' \in Apis
  BY MovedFits DEF GoodPage, MovesOn
<1> QED
  BY <1>1 DEF GoodPage, PageKept, Page!NeverBackStep

LEMMA StFits ==
    ASSUME NEW o \in OpRows, NEW s \in {"none", "out", "ok", "null", "stale", "no", "lost"} \cup After
    PROVE  LET x == [o EXCEPT !.st = s]
           IN  /\ x \in OpRows /\ x.st = s /\ x.kind = o.kind /\ x.step = o.step /\ x.got = o.got
               /\ x.before = o.before
BY DEF OpRows

LEMMA ServeFits ==
    ASSUME GoodPage, Page!Serve
    PROVE  PageKept
<1> DEFINE deed == Page!Deed(op.kind, op.step)
<1>1. /\ op \in OpRows /\ OpFits(op, api) /\ op.st = "out" /\ UNCHANGED <<page, loads, late>>
      /\ late \in Page!Writes /\ api \in Apis
  BY DEF Page!Serve, GoodPage, OpFits
<1>2. NoneAfter(loads)
  BY <1>1 DEF GoodPage, After
<1>3. /\ op.kind \in {"consent", "object", "comment"} /\ op.step \in {1, 2}
      /\ deed \in {"consent", "object", "comment"} /\ (op.step = 1 => deed = op.kind)
  BY <1>1 DEF OpFits, OpRows, Page!Writes, Page!Deed
<1>4. CASE Page!Takes(deed) /\ api' = Page!Does(deed)
             /\ (\/ op' = [op EXCEPT !.st = "ok",
                             !.got = [Page!Detail(TRUE) EXCEPT !.v = api'.v, !.mine = api'.mine,
                                                               !.said = api'.said]]
                 \/ \E st \in {"null", "lost"} : op' = [op EXCEPT !.st = st])
  <2> HIDE DEF deed
  <2>1. MovesOn(api, api') /\ DoneOf(deed, api') /\ api' \in Apis
    BY <1>1, <1>3, <1>4, DoesMoveOn DEF MovesOn
  <2>2. OnceSo(op.got, api') /\ (op.step = 2 => op.kind = "object" /\ api'.mine = "objected")
    BY <1>1, <2>1, StillSo DEF OpFits, MovesOn
  <2>3. CASE op' = [op EXCEPT !.st = "ok",
                      !.got = [Page!Detail(TRUE) EXCEPT !.v = api'.v, !.mine = api'.mine,
                                                        !.said = api'.said]]
    <3> DEFINE a == Page!Detail(TRUE)
               d == [a EXCEPT !.v = api'.v, !.mine = api'.mine, !.said = api'.said]
    <3>1. a \in PageAnswers
      BY <1>1, DetailSo DEF OnceSo
    <3>2. api'.v \in Nat /\ api'.said \in Nat /\ api'.mine \in Page!Choices
      BY <2>1 DEF Apis
    <3>3. op' = [op EXCEPT !.st = "ok", !.got = d]
      BY <2>3
    <3> HIDE DEF a
    <3>4. d \in PageAnswers /\ d.v = api'.v /\ d.mine = api'.mine /\ d.said = api'.said
      BY <3>1, <3>2 DEF PageAnswers
    <3> HIDE DEF d
    <3>5. OnceSo(d, api')
      BY <3>2, <3>4 DEF OnceSo
    <3>6. /\ op' \in OpRows /\ op'.st = "ok" /\ op'.got = d /\ op'.kind = op.kind
          /\ op'.step = op.step
      BY <1>1, <3>3, <3>4 DEF OpRows
    <3>7. OpFits(op', api')
      BY <1>3, <2>1, <2>2, <3>5, <3>6 DEF OpFits
    <3> QED
      BY <1>1, <1>2, <2>1, <3>7, OpMoves
  <2>4. CASE \E st \in {"null", "lost"} : op' = [op EXCEPT !.st = st]
    <3>1. PICK st \in {"null", "lost"} : op' = [op EXCEPT !.st = st]
      BY <2>4
    <3>2. /\ op' \in OpRows /\ op'.st \in {"null", "lost"} /\ op'.got = op.got
          /\ op'.kind = op.kind /\ op'.step = op.step
      BY <1>1, <3>1, StFits
    <3>3. OpFits(op', api')
      BY <1>3, <2>1, <2>2, <3>2 DEF OpFits
    <3> QED
      BY <1>1, <1>2, <2>1, <3>3, OpMoves
  <2> QED
    BY <1>4, <2>3, <2>4
<1>5. CASE api' = api /\ (op' = [op EXCEPT !.st = "stale"] \/ op' = [op EXCEPT !.st = "no"])
  <2>1. PICK st \in {"stale", "no"} : op' = [op EXCEPT !.st = st]
    BY <1>5
  <2>2. /\ op' \in OpRows /\ op'.st \in {"stale", "no"} /\ op'.got = op.got
        /\ op'.kind = op.kind /\ op'.step = op.step
    BY <1>1, <2>1, StFits
  <2>3. OpFits(op', api')
    BY <1>1, <1>3, <1>5, <2>2 DEF OpFits
  <2> QED
    BY <1>1, <1>2, <1>5, <2>3, OpMoves
<1> QED
  BY <1>4, <1>5 DEF Page!Serve

LEMMA GivesUpFits ==
    ASSUME GoodPage, Page!GivesUp
    PROVE  PageKept
<1>1. /\ op \in OpRows /\ OpFits(op, api) /\ op.st = "out" /\ UNCHANGED <<api, page, loads>>
      /\ op' = [op EXCEPT !.st = "lost"] /\ late \in Page!Writes
  BY DEF Page!GivesUp, GoodPage, OpFits
<1>2. NoneAfter(loads)
  BY <1>1 DEF GoodPage, After
<1>3. late' \in Page!Writes
  BY <1>1 DEF Page!GivesUp, Page!Deed, OpRows, Page!Writes
<1>4. /\ op' \in OpRows /\ op'.st = "lost" /\ op'.got = op.got
      /\ op'.kind = op.kind /\ op'.step = op.step
  BY <1>1, StFits
<1>5. OpFits(op', api')
  BY <1>1, <1>4 DEF OpFits
<1> QED
  BY <1>1, <1>2, <1>3, <1>5, OpMoves

LEMMA PostReasonFits ==
    ASSUME GoodPage, Page!PostReason
    PROVE  PageKept
<1>1. /\ op \in OpRows /\ OpFits(op, api) /\ op.st \in {"ok", "null"} /\ op.kind = "object"
      /\ op.step = 1 /\ UNCHANGED <<api, page, loads, late>>
      /\ op' = [op EXCEPT !.st = "out", !.step = 2] /\ late \in Page!Writes
  BY DEF Page!PostReason, GoodPage, OpFits
<1>2. NoneAfter(loads)
  BY <1>1 DEF GoodPage, After
<1>3. /\ op' \in OpRows /\ op'.st = "out" /\ op'.got = op.got
      /\ op'.kind = op.kind /\ op'.step = 2
  BY <1>1 DEF OpRows
<1>4. api.mine = "objected"
  BY <1>1 DEF OpFits, DoneOf
<1>5. OpFits(op', api')
  BY <1>1, <1>3, <1>4 DEF OpFits
<1> QED
  BY <1>1, <1>2, <1>5, OpMoves

(* The write is over: what was read before it may not be shown. *)
LEMMA OverFits ==
    ASSUME GoodPage, op.st \notin After, api' = api, late' = late, op' = Page!NoOp,
           loads' = Page!Barred(loads), NEW pg \in PageRows, NEW word \in Words,
           pg.ack <= api.v, pg.ack = page.ack \/ pg.ack = pg.detail.v,
           pg.detail = page.detail \/ pg.detail.v >= pg.ack,
           word \in {"ok", "reason"} => DoneOf(op.kind, api), page' = Page!Told(pg, word)
    PROVE  PageKept
<1>1. /\ page' \in PageRows /\ page'.ack = pg.ack /\ page'.detail = pg.detail
      /\ page'.told.word = word /\ page'.told.kind = op.kind
  BY WhatFits, ToldFits
<1>2. PageFits(page', api')
  BY <1>1 DEF PageFits
<1>3. ReadsFit(loads, api, page.ack) /\ NoneAfter(loads)
  BY DEF GoodPage
<1>4. ReadsFit(loads', api', page'.ack) /\ NoneAfter(loads')
  BY <1>3, AllBarred
<1>5. OpFits(op', api')
  BY WhatFits, NoOpFits
<1> QED
  BY <1>1, <1>2, <1>4, <1>5 DEF GoodPage, PageKept, Page!NeverBackStep

LEMMA AnsweredFits ==
    ASSUME GoodPage, Page!WriteAnswered
    PROVE  PageKept
<1> DEFINE a == [page EXCEPT !.ack = op.got.v]
           pg == Page!Shown(a, op.got)
           word == IF op.step = 2 /\ op.st \in {"no", "lost"} THEN "reason" ELSE "ok"
<1>1. /\ Page!Writing /\ op.st # "out" /\ Page!Finishes /\ Page!Answer = "ok"
      /\ page' = Page!Told(pg, word) /\ loads' = Page!Barred(loads)
      /\ op' = Page!NoOp /\ UNCHANGED <<api, late>>
  BY DEF Page!WriteAnswered
<1>2. op \in OpRows /\ OpFits(op, api) /\ OnceSo(op.got, api) /\ op.st \notin After
  BY <1>1 DEF GoodPage, OpFits, Page!Writing, After
<1>3. op.got \in PageAnswers /\ op.got.v \in Nat /\ op.got.v <= api.v
  BY <1>2 DEF OnceSo, PageAnswers
<1>4. a \in PageRows /\ a.ack = op.got.v
  BY <1>3, WhatFits DEF PageRows
<1> HIDE DEF a
<1>5. pg \in PageRows /\ pg.ack = op.got.v /\ pg.detail = op.got
  BY <1>3, <1>4, ShownFits
<1>6. DoneOf(op.kind, api)
  <2>1. op.step = 1 \/ op.step = 2
    BY <1>2 DEF OpRows
  <2>2. CASE op.step = 2
    BY <1>2, <2>2 DEF OpFits, DoneOf
  <2>3. CASE op.step = 1
    <3>1. Page!Answer = op.st
      BY <2>3 DEF Page!Answer
    <3> QED
      BY <1>1, <1>2, <2>3, <3>1 DEF OpFits
  <2> QED
    BY <2>1, <2>2, <2>3
<1>7. word \in Words
  BY DEF Words
<1> HIDE DEF pg, word
<1>8. pg.detail.v >= pg.ack
  BY <1>3, <1>5
<1> QED
  BY <1>1, <1>2, <1>3, <1>5, <1>6, <1>7, <1>8, OverFits

LEMMA RefusedOver ==
    ASSUME GoodPage, Page!WriteRefused
    PROVE  PageKept
<1>1. /\ page' = Page!Told(page, "no") /\ loads' = Page!Barred(loads) /\ op' = Page!NoOp
      /\ UNCHANGED <<api, late>> /\ op.st \notin After /\ "no" \in Words
  BY DEF Page!WriteRefused, Page!Writing, After, Words
<1> QED
  BY <1>1, WhatFits, OverFits

LEMMA UnclearFits ==
    ASSUME GoodPage, Page!WriteUnclear
    PROVE  PageKept
<1> DEFINE s == CASE Page!Answer = "null" -> "after-null"
                  [] Page!Answer = "lost" -> "after-lost" [] OTHER -> "after-stale"
           how == IF page.in THEN "you" ELSE "public"
<1>1. /\ Page!Writing /\ op.st # "out" /\ Page!Finishes
      /\ loads' = Append(Page!Barred(loads), Page!NewRead("after", how))
      /\ op' = [op EXCEPT !.st = s] /\ UNCHANGED <<api, page, late>>
  BY DEF Page!WriteUnclear
<1>2. s \in After /\ how \in {"you", "public"} /\ "after" \in Fors /\ (s = "after-null" => Page!Answer = "null")
  BY DEF After, Fors
<1> HIDE DEF s, how
<1>3. op \in OpRows /\ OpFits(op, api) /\ op.st \notin After
  BY <1>1 DEF GoodPage, OpFits, Page!Writing, After
<1>4. NoneAfter(loads) /\ ReadsFit(loads, api, page.ack)
  BY <1>3 DEF GoodPage
<1>5. ReadsFit(Page!Barred(loads), api, page.ack) /\ NoneAfter(Page!Barred(loads))
  BY <1>4, AllBarred
<1>6. ReadsFit(loads', api, page.ack)
  BY <1>1, <1>2, <1>5, WhatFits, AppendedFits
<1>7. /\ op' \in OpRows /\ op'.st \in After /\ op'.got = op.got
      /\ op'.kind = op.kind /\ op'.step = op.step /\ (op'.st = "after-null" => Page!Answer = "null")
  BY <1>1, <1>2, <1>3, StFits
<1>8. Page!Answer = "null" => DoneOf(op.kind, api)
  <2>1. op.step = 1 \/ op.step = 2
    BY <1>3 DEF OpRows
  <2>2. CASE op.step = 2
    BY <1>3, <2>2 DEF OpFits, DoneOf
  <2>3. CASE op.step = 1
    BY <1>3, <2>3 DEF Page!Answer, OpFits
  <2> QED
    BY <2>1, <2>2, <2>3
<1>9. op.kind # "none"
  BY <1>1, <1>3 DEF OpFits, Page!Writing
<1>10. OpFits(op', api')
  BY <1>1, <1>3, <1>7, <1>8, <1>9 DEF OpFits, After
<1> QED
  BY <1>1, <1>6, <1>7, <1>10 DEF GoodPage, PageKept, Page!NeverBackStep

-----------------------------------------------------------------------------
LEMMA PageStarts == Page!Init => GoodPage
<1> SUFFICES ASSUME Page!Init PROVE GoodPage
  OBVIOUS
<1>1. /\ 1 \in Nat /\ 0 \in Nat /\ "debate" \in States /\ "none" \in Page!Choices
      /\ "none" \in Page!Writes /\ "none" \in Words /\ "none" \in Writes \cup {"none"}
      /\ "loading" \in {"loading", "ready", "failed"}
  BY DEF States, Page!Choices, Page!Writes, Words
<1>2. api \in Apis /\ api.v = 1
  BY <1>1, Zenon DEF Page!Init, Apis
<1>3. OnceSo(Page!NoDetail, api) /\ Page!NoDetail \in PageAnswers
  BY <1>2, NoDetailSo
<1> DEFINE t == [kind |-> "none", word |-> "none"]
<1>4. t \in ToldRows
  BY <1>1, Zenon DEF ToldRows
<1>5. t.word = "none"
  OBVIOUS
<1>6. PICK in \in BOOLEAN :
        page = [in |-> in, view |-> "loading", detail |-> Page!NoDetail, step |-> "none",
                told |-> t, ack |-> 0]
  BY DEF Page!Init
<1> HIDE DEF t
<1>7. page \in PageRows
  BY <1>1, <1>3, <1>4, <1>6, Zenon DEF PageRows
<1>8. page.ack = 0 /\ page.told.word = "none"
  BY <1>5, <1>6
<1>9. PageFits(page, api)
  BY <1>2, <1>7, <1>8 DEF PageFits
<1> DEFINE r == Page!NewRead("load", "public")
<1>10. ReadFits(r, api, page.ack) /\ r.for = "load" /\ r \in LoadRows
  <2>1. "load" \in Fors /\ "public" \in {"you", "public"}
    BY DEF Fors
  <2> QED
    BY <1>2, <2>1, NewReadFits DEF ReadFits
<1> HIDE DEF r
<1>11. loads = <<r>>
  BY DEF Page!Init, r
<1>12. loads \in Seq(LoadRows) /\ Len(loads) = 1 /\ loads[1] = r
  BY <1>10, <1>11
<1>13. \A n \in 1 .. Len(loads) : n = 1
  BY <1>12
<1>14. ReadsFit(loads, api, page.ack) /\ NoneAfter(loads)
  BY <1>10, <1>12, <1>13 DEF ReadsFit, NoneAfter
<1>15. OpFits(op, api)
  BY <1>2, NoOpFits DEF Page!Init
<1> QED
  BY <1>1, <1>2, <1>9, <1>14, <1>15 DEF GoodPage, Page!Init

LEMMA PageStays == GoodPage /\ [Page!Next]_(Page!vars) => PageKept
<1> SUFFICES ASSUME GoodPage, [Page!Next]_(Page!vars) PROVE PageKept
  OBVIOUS
<1>1. CASE UNCHANGED Page!vars
  BY <1>1 DEF Page!vars, GoodPage, PageKept, Page!NeverBackStep
<1>2. CASE \E i \in 1 .. Len(loads) : Page!ReadServed(i) \/ Page!Lands(i)
  BY <1>2, ServedFits, YouLandsFits, YouMissesFits, PublicLandsFits, PublicMissesFits DEF Page!Lands
<1>3. CASE Page!Poll \/ Page!HousePoll \/ Page!DeadlineRead \/ Page!TryAgain \/ Page!RetryYou
             \/ Page!SessionFound \/ Page!OpenStep \/ Page!CancelStep \/ Page!PressConsent
             \/ Page!PressObject \/ Page!PressComment
  BY <1>3, ReadsLeaveFit, FoundFits, PanelFits, PressFits
<1>4. CASE Page!Serve \/ Page!GivesUp \/ Page!ServeLate \/ Page!PostReason \/ Page!WriteAnswered
             \/ Page!WriteRefused \/ Page!WriteUnclear \/ Page!Others
  BY <1>4, ServeFits, GivesUpFits, AloneFits, PostReasonFits, AnsweredFits, RefusedOver, UnclearFits
<1> QED
  BY <1>1, <1>2, <1>3, <1>4 DEF Page!Next

LEMMA PageTells == GoodPage => Page!ToldTrue
BY DEF GoodPage, PageFits, DoneOf, Page!ToldTrue

LEMMA PageAlways == Page!Spec => []GoodPage
<1>1. GoodPage /\ [Page!Next]_(Page!vars) => GoodPage'
  BY PageStays DEF PageKept
<1> QED
  BY <1>1, PageStarts, PTL DEF Page!Spec

(* What a proposal's page says went through did, whichever answer was lost *)
(* and whatever else happened to the proposal meanwhile.                   *)
THEOREM WritesToldTrue == Page!Spec => []Page!ToldTrue
BY PageAlways, PageTells, PTL

(* Whatever comes on a proposal's page is at least as new as the last      *)
(* write it was answered: no answer that left before puts it back.         *)
THEOREM ProposalNeverBack == Page!Spec => Page!NeverBack
<1>1. GoodPage /\ [Page!Next]_(Page!vars) => [Page!NeverBackStep]_(Page!vars)
  BY PageStays DEF PageKept
<1> QED
  BY <1>1, PageAlways, PTL DEF Page!Spec, Page!NeverBack

-----------------------------------------------------------------------------
(* A task's page.                                                          *)

ReadsOut == [st : {"idle", "out", "ok"}, got : Task!Holders, stage : Nat]
TaskRows == [holder : Task!Holders, stage : Nat, ended : BOOLEAN, granted : BOOLEAN]
ScreenRows == [view : {"loading", "task", "failed", "gone"}, lease : BOOLEAN,
               takenBy : Task!Holders, lost : BOOLEAN, status : Nat, statusFailed : BOOLEAN,
               rails : {"none", "out", "listed", "failed"}, checks : BOOLEAN, confirming : BOOLEAN,
               visible : BOOLEAN]
WriteRows == [of : {"none", "claim", "release"}, st : {"idle", "out", "ok", "lost", "taken", "refused"}]

(* What was once granted to me is mine, or over.                           *)
MineOrOver(a) == a.holder = "me" \/ a.ended

(* A write is under way only beside the task, and a claim only where no    *)
(* lease is shown.                                                         *)
WriteFits(w, pg) ==
    /\ w \in WriteRows
    /\ w.of = "none" <=> w.st = "idle"
    /\ w.st # "idle" => pg.view = "task"
    /\ w.of = "claim" => ~pg.lease
    /\ w.of = "release" => w.st # "taken"

(* What each answer says of the claim that is shown. *)
LeaseFits(a, pg, l, q, w) ==
    /\ pg.lease => MineOrOver(a)
    /\ l.st = "ok" /\ l.got = "me" => MineOrOver(a)
    /\ w.of = "claim" /\ w.st = "ok" => MineOrOver(a)
    /\ pg.lease /\ q.st = "ok" /\ q.got # "me" => a.ended
    /\ w.of = "release" /\ w.st = "ok" => a.ended

GoodTask ==
    /\ api \in TaskRows /\ page \in ScreenRows /\ load \in ReadsOut /\ poll \in ReadsOut
    /\ page.view = "task" => load.st = "idle"
    /\ WriteFits(write, page)
    /\ LeaseFits(api, page, load, poll, write)

TaskKept == GoodTask' /\ Task!LossIsTrueStep

LEMMA IdleFits == Task!Idle \in ReadsOut /\ Task!Idle.st = "idle"
<1>1. "idle" \in {"idle", "out", "ok"} /\ "none" \in Task!Holders /\ 0 \in Nat
  BY DEF Task!Holders
<1>2. Task!Idle \in ReadsOut
  BY <1>1, Zenon DEF ReadsOut, Task!Idle
<1> QED
  BY <1>2 DEF Task!Idle

LEMMA OutFits == Task!Out \in ReadsOut /\ Task!Out.st = "out"
BY IdleFits DEF Task!Out, ReadsOut

LEMMA AnswerFits ==
    ASSUME api \in TaskRows
    PROVE  /\ Task!Answer \in ReadsOut
           /\ Task!Answer.st = "ok" /\ Task!Answer.got = api.holder
<1>1. "ok" \in {"idle", "out", "ok"} /\ api.holder \in Task!Holders /\ api.stage \in Nat
  BY DEF TaskRows
<1>2. Task!Answer \in ReadsOut
  BY <1>1, Zenon DEF ReadsOut, Task!Answer
<1> QED
  BY <1>2 DEF Task!Answer

LEMMA WatchingFits ==
    ASSUME Task!StartsWatching
    PROVE  poll' \in ReadsOut /\ poll'.st # "ok"
BY IdleFits, OutFits DEF Task!StartsWatching

LEMMA ClearedFits ==
    ASSUME page \in ScreenRows
    PROVE  /\ Task!Cleared \in ScreenRows /\ Task!Cleared.lease = FALSE
           /\ Task!Cleared.view = page.view
<1>1. 0 \in Nat /\ "none" \in {"none", "out", "listed", "failed"}
  OBVIOUS
<1> DEFINE a == [page EXCEPT !.lease = FALSE, !.status = 0]
           b == [a EXCEPT !.statusFailed = FALSE, !.rails = "none"]
           c == [b EXCEPT !.checks = FALSE, !.confirming = FALSE]
<1>2. a \in ScreenRows /\ a.lease = FALSE /\ a.view = page.view
  BY <1>1 DEF ScreenRows
<1>3. Task!Cleared = c
  BY DEF Task!Cleared
<1> HIDE DEF a
<1>4. b \in ScreenRows /\ b.lease = FALSE /\ b.view = page.view
  BY <1>1, <1>2 DEF ScreenRows
<1> HIDE DEF b
<1>5. c \in ScreenRows /\ c.lease = FALSE /\ c.view = page.view
  BY <1>4 DEF ScreenRows
<1> QED
  BY <1>3, <1>5

(* The page's reads that change nothing said here. *)
LEMMA TaskBits ==
    ASSUME GoodTask, NEW pg \in ScreenRows, pg.view = page.view, pg.lease = page.lease, page' = pg,
           UNCHANGED <<api, load, write>>, poll' \in ReadsOut,
           poll'.st = "ok" => poll' = poll
    PROVE  TaskKept
BY DEF GoodTask, TaskKept, WriteFits, LeaseFits, Task!LossIsTrueStep, Task!Holding

LEMMA TaskShape ==
    ASSUME GoodTask
    PROVE  /\ api \in TaskRows /\ page \in ScreenRows /\ load \in ReadsOut /\ poll \in ReadsOut
           /\ write \in WriteRows
           /\ api.ended \in BOOLEAN /\ page.lease \in BOOLEAN /\ api.stage \in Nat
BY DEF GoodTask, WriteFits, TaskRows, ScreenRows

LEMMA LoadsFit ==
    ASSUME GoodTask, Task!ServeLoad \/ Task!LoadLands \/ Task!LoadFails \/ Task!Retry
    PROVE  TaskKept
<1>1. CASE Task!ServeLoad
  <2>1. /\ load' = Task!Answer /\ load.st = "out" /\ UNCHANGED <<api, page, poll, write>>
    BY <1>1 DEF Task!ServeLoad
  <2>2. load' \in ReadsOut /\ load'.st = "ok" /\ load'.got = api.holder
    BY <2>1, TaskShape, AnswerFits
  <2> QED
    BY <2>1, <2>2 DEF GoodTask, TaskKept, WriteFits, LeaseFits, MineOrOver, Task!LossIsTrueStep,
                           Task!Holding
<1>2. CASE Task!LoadLands
  <2> DEFINE taker == IF load.got = "other" THEN "other" ELSE "none"
             read == [page EXCEPT !.view = "task", !.takenBy = taker]
  <2>1. /\ load.st = "ok" /\ load' = Task!Idle /\ UNCHANGED <<api, write>>
        /\ IF load.got = "me" /\ ~page.lease
           THEN page' = [read EXCEPT !.lease = TRUE, !.rails = "out"] /\ Task!StartsWatching
           ELSE page' = read /\ UNCHANGED <<poll, checks>>
    BY <1>2 DEF Task!LoadLands
  <2>2. taker \in Task!Holders
    BY DEF Task!Holders
  <2> HIDE DEF taker
  <2>3. read \in ScreenRows /\ read.view = "task" /\ read.lease = page.lease
    BY <2>2, TaskShape DEF ScreenRows
  <2> HIDE DEF read
  <2>4. load' \in ReadsOut /\ load'.st = "idle"
    BY <2>1, IdleFits
  <2>5. write.st = "idle" /\ write.of = "none"
    BY <2>1 DEF GoodTask, WriteFits
  <2>6. CASE load.got = "me" /\ ~page.lease
    <3>1. page' \in ScreenRows /\ page'.view = "task" /\ page'.lease = TRUE
      BY <2>1, <2>3, <2>6 DEF ScreenRows
    <3>2. poll' \in ReadsOut /\ poll'.st # "ok"
      BY <2>1, <2>6, WatchingFits
    <3>3. MineOrOver(api)
      BY <2>1, <2>6 DEF GoodTask, LeaseFits
    <3> QED
      BY <2>1, <2>4, <2>5, <2>6, <3>1, <3>2, <3>3
         DEF GoodTask, TaskKept, WriteFits, LeaseFits, MineOrOver, Task!LossIsTrueStep, Task!Holding
  <2>7. CASE ~(load.got = "me" /\ ~page.lease)
    BY <2>1, <2>3, <2>4, <2>5, <2>7
       DEF GoodTask, TaskKept, WriteFits, LeaseFits, MineOrOver, Task!LossIsTrueStep, Task!Holding
  <2> QED
    BY <2>6, <2>7
<1>3. CASE Task!LoadFails \/ Task!Retry
  <2>1. PICK v \in {"loading", "failed", "gone"} : page' = [page EXCEPT !.view = v]
    BY <1>3 DEF Task!LoadFails, Task!Retry, Task!Reload
  <2>2. page' \in ScreenRows /\ page'.view # "task" /\ page'.lease = page.lease
    BY <2>1, TaskShape DEF ScreenRows
  <2>3. load' \in ReadsOut /\ load'.st # "ok" /\ UNCHANGED <<api, poll, write>>
    BY <1>3, IdleFits, OutFits DEF Task!LoadFails, Task!Retry
  <2>4. page.view # "task"
    BY <1>3 DEF Task!LoadFails, Task!Retry, GoodTask
  <2>5. write.st = "idle" /\ write.of = "none"
    BY <2>4 DEF GoodTask, WriteFits
  <2> QED
    BY <2>2, <2>3, <2>5
       DEF GoodTask, TaskKept, WriteFits, LeaseFits, MineOrOver, Task!LossIsTrueStep, Task!Holding
<1> QED
  BY <1>1, <1>2, <1>3

LEMMA WatchFits ==
    ASSUME GoodTask,
           Task!ReadQuietly \/ Task!QuietEnds \/ Task!Tick \/ Task!StatusLands \/ Task!StatusMisses
             \/ Task!ChecksEnd \/ Task!RailsEnd \/ Task!ReadStatusNow \/ Task!Visibility
             \/ Task!AskRelease \/ UNCHANGED Task!vars
    PROVE  TaskKept
<1>1. /\ UNCHANGED <<api, load, write>> /\ page \in ScreenRows /\ poll \in ReadsOut
      /\ Task!Idle \in ReadsOut /\ Task!Idle.st = "idle" /\ Task!Out \in ReadsOut /\ Task!Out.st = "out"
  BY IdleFits, OutFits, TaskShape
     DEF Task!ReadQuietly, Task!QuietEnds, Task!Tick, Task!StatusLands, Task!StatusMisses,
         Task!ChecksEnd, Task!RailsEnd, Task!ReadStatusNow, Task!Visibility, Task!AskRelease, Task!vars
<1>2. poll' \in ReadsOut /\ (poll'.st = "ok" => poll' = poll)
  BY <1>1
     DEF Task!ReadQuietly, Task!QuietEnds, Task!Tick, Task!StatusLands, Task!StatusMisses,
         Task!ChecksEnd, Task!RailsEnd, Task!ReadStatusNow, Task!Visibility, Task!AskRelease, Task!vars,
         Task!StartsWatching
<1>3. page' \in ScreenRows /\ page'.view = page.view /\ page'.lease = page.lease
  <2>1. CASE Task!StatusLands
    <3>1. poll.stage + 1 \in Nat
      BY TaskShape DEF ReadsOut
    <3> QED
      BY <1>1, <2>1, <3>1 DEF Task!StatusLands, ScreenRows
  <2>2. CASE Task!StatusMisses \/ Task!Visibility \/ Task!AskRelease
    BY <1>1, <2>2 DEF Task!StatusMisses, Task!Visibility, Task!AskRelease, ScreenRows
  <2>3. CASE Task!ChecksEnd
    <3>1. PICK read \in BOOLEAN : page' = [page EXCEPT !.checks = page.checks \/ read]
      BY <2>3 DEF Task!ChecksEnd
    <3>2. (page.checks \/ read) \in BOOLEAN
      OBVIOUS
    <3>3. \A o \in BOOLEAN : LET y == [page EXCEPT !.checks = o]
                             IN  y \in ScreenRows /\ y.view = page.view /\ y.lease = page.lease
      BY <1>1 DEF ScreenRows
    <3> QED
      BY <3>1, <3>2, <3>3, Zenon
  <2>4. CASE Task!RailsEnd
    BY <1>1, <2>4 DEF Task!RailsEnd, ScreenRows
  <2>5. CASE Task!ReadQuietly \/ Task!QuietEnds \/ Task!Tick \/ Task!ReadStatusNow \/ UNCHANGED Task!vars
    BY <1>1, <2>5 DEF Task!ReadQuietly, Task!QuietEnds, Task!Tick, Task!ReadStatusNow, Task!vars
  <2> QED
    BY <2>1, <2>2, <2>3, <2>4, <2>5
<1> QED
  BY <1>1, <1>2, <1>3, TaskBits

LEMMA LostFits ==
    ASSUME GoodTask, Task!LeaseLost
    PROVE  TaskKept
<1>1. /\ poll.st = "ok" /\ poll.got # "me" /\ poll' = Task!Idle /\ UNCHANGED <<api, load, write>>
      /\ page' = [Task!Cleared EXCEPT !.takenBy = poll.got, !.lost = TRUE]
  BY DEF Task!LeaseLost, Task!StopsWatching
<1>2. poll.got \in Task!Holders
  BY TaskShape DEF ReadsOut
<1>3. page' \in ScreenRows /\ page'.lease = FALSE /\ page'.view = page.view
  BY <1>1, <1>2, TaskShape, ClearedFits DEF ScreenRows
<1>4. page.lease => api.ended
  BY <1>1 DEF GoodTask, LeaseFits
<1> QED
  BY <1>1, <1>3, <1>4, IdleFits
     DEF GoodTask, TaskKept, WriteFits, LeaseFits, Task!LossIsTrueStep, Task!Holding

(* A write begins, or its record moves. *)
LEMMA WriteMoves ==
    ASSUME GoodTask, NEW of \in {"claim", "release"},
           NEW st \in {"out", "ok", "lost", "taken", "refused"},
           write' \in WriteRows, write'.of = of, write'.st = st, UNCHANGED <<page, load, poll>>,
           page.view = "task", of = "claim" => ~page.lease, of = "release" => st # "taken",
           api' \in TaskRows, MineOrOver(api) => MineOrOver(api'),
           page.lease /\ api.ended => api'.ended,
           of = "claim" /\ st = "ok" => MineOrOver(api'),
           of = "release" /\ st = "ok" => api'.ended
    PROVE  TaskKept
BY DEF GoodTask, TaskKept, WriteFits, LeaseFits, Task!LossIsTrueStep, Task!Holding

LEMMA WritesLeaveFit ==
    ASSUME GoodTask, Task!Claim \/ Task!Release
    PROVE  TaskKept
<1>1. PICK of \in {"claim", "release"} : write' = [of |-> of, st |-> "out"]
  BY DEF Task!Claim, Task!Release
<1>2. write' \in WriteRows /\ write'.of = of /\ write'.st = "out"
  <2>1. of \in {"none", "claim", "release"}
        /\ "out" \in {"idle", "out", "ok", "lost", "taken", "refused"}
    OBVIOUS
  <2>2. write' \in WriteRows
    BY <1>1, <2>1, Zenon DEF WriteRows
  <2> QED
    BY <1>1, <2>2
<1>3. page.view = "task" /\ UNCHANGED <<api, page, load, poll>> /\ (of = "claim" => ~page.lease)
  BY <1>1, <1>2 DEF Task!Claim, Task!Release, Task!OffersClaim, Task!Holding
<1> QED
  BY <1>2, <1>3, TaskShape, WriteMoves

LEMMA StMoves ==
    ASSUME NEW w \in WriteRows, NEW s \in {"idle", "out", "ok", "lost", "taken", "refused"}
    PROVE  [w EXCEPT !.st = s] \in WriteRows /\ [w EXCEPT !.st = s].of = w.of
           /\ [w EXCEPT !.st = s].st = s
BY DEF WriteRows

LEMMA ClaimsFit ==
    ASSUME api \in TaskRows
    PROVE  Task!Claims \in TaskRows /\ Task!Claims.holder = "me"
<1> DEFINE a == [api EXCEPT !.holder = "me", !.ended = FALSE]
<1>1. a \in TaskRows /\ a.holder = "me"
  BY DEF TaskRows, Task!Holders
<1>2. Task!Claims = [a EXCEPT !.stage = 0, !.granted = TRUE]
  BY DEF Task!Claims
<1> HIDE DEF a
<1>3. 0 \in Nat
  OBVIOUS
<1> QED
  BY <1>1, <1>2, <1>3 DEF TaskRows

LEMMA FreesFit ==
    ASSUME api \in TaskRows, NEW h \in Task!Holders
    PROVE  Task!Frees(h) \in TaskRows /\ Task!Frees(h).ended = TRUE
BY DEF TaskRows, Task!Frees

LEMMA ServeWriteFits ==
    ASSUME GoodTask, Task!ServeWrite \/ Task!WriteStops
    PROVE  TaskKept
<1>1. /\ write.st = "out" /\ UNCHANGED <<page, load, poll>> /\ write \in WriteRows
      /\ write.of \in {"claim", "release"} /\ page.view = "task" /\ (write.of = "claim" => ~page.lease)
      /\ api \in TaskRows
  BY DEF Task!ServeWrite, Task!WriteStops, GoodTask, WriteFits, WriteRows
<1>2. PICK s \in {"ok", "lost", "taken", "refused"} :
        /\ write' = [write EXCEPT !.st = s]
        /\ s = "ok" => \/ write.of = "claim" /\ api' = Task!Claims
                       \/ write.of = "release" /\ api' = Task!Frees("none")
        /\ s = "taken" => write.of = "claim"
        /\ \/ api' = api
           \/ write.of = "claim" /\ api' = Task!Claims
           \/ write.of = "release" /\ api' = Task!Frees("none")
  <2>1. CASE Task!WriteStops
    BY <2>1 DEF Task!WriteStops
  <2>2. CASE Task!ServeWrite
    BY <1>1, <2>2 DEF Task!ServeWrite
  <2> QED
    BY <2>1, <2>2
<1>3. write' \in WriteRows /\ write'.of = write.of /\ write'.st = s
  <2>1. s \in {"idle", "out", "ok", "lost", "taken", "refused"} /\ write' = [write EXCEPT !.st = s]
    BY <1>2
  <2> QED
    BY <1>1, <2>1, StMoves
<1>4. /\ Task!Claims \in TaskRows /\ Task!Claims.holder = "me"
      /\ Task!Frees("none") \in TaskRows /\ Task!Frees("none").ended = TRUE
  <2>1. "none" \in Task!Holders
    BY DEF Task!Holders
  <2> QED
    BY <1>1, <2>1, ClaimsFit, FreesFit
<1>5. /\ api' \in TaskRows /\ (MineOrOver(api) => MineOrOver(api'))
      /\ (page.lease /\ api.ended => api'.ended)
      /\ (write.of = "claim" /\ s = "ok" => MineOrOver(api'))
      /\ (write.of = "release" /\ s = "ok" => api'.ended)
  BY <1>1, <1>2, <1>4 DEF MineOrOver
<1> QED
  BY <1>1, <1>2, <1>3, <1>5, WriteMoves

LEMMA EndsFits ==
    ASSUME Task!Ends
    PROVE  write' \in WriteRows /\ write'.of = "none" /\ write'.st = "idle"
<1>1. "none" \in {"none", "claim", "release"}
      /\ "idle" \in {"idle", "out", "ok", "lost", "taken", "refused"}
  OBVIOUS
<1>2. write' \in WriteRows
  BY <1>1, Zenon DEF WriteRows, Task!Ends
<1> QED
  BY <1>2 DEF Task!Ends

(* The claim is answered: a lease is shown where one was granted. *)
LEMMA ClaimAnswersFit ==
    ASSUME GoodTask, Task!ClaimLands \/ Task!ClaimTaken \/ Task!ClaimUnheard \/ Task!Refused
    PROVE  TaskKept
<1>1. /\ write' \in WriteRows /\ write'.of = "none" /\ write'.st = "idle" /\ api' = api
      /\ page \in ScreenRows /\ api \in TaskRows
  BY EndsFits, TaskShape DEF Task!ClaimLands, Task!ClaimTaken, Task!ClaimUnheard, Task!Refused
<1>2. CASE Task!ClaimLands
  <2> DEFINE a == [page EXCEPT !.lease = TRUE, !.takenBy = "none"]
  <2>1. a \in ScreenRows /\ a.lease = TRUE /\ a.view = page.view
    BY <1>1 DEF ScreenRows, Task!Holders
  <2>2. page' = [a EXCEPT !.rails = "out", !.lost = FALSE]
    BY <1>2 DEF Task!ClaimLands, Task!Leased
  <2> HIDE DEF a
  <2>3. page' \in ScreenRows /\ page'.lease = TRUE /\ page'.view = page.view
    BY <2>1, <2>2 DEF ScreenRows
  <2>4. poll' \in ReadsOut /\ poll'.st # "ok" /\ load' = load /\ MineOrOver(api)
    BY <1>2, WatchingFits DEF Task!ClaimLands, GoodTask, LeaseFits
  <2> QED
    BY <1>1, <2>3, <2>4
       DEF GoodTask, TaskKept, WriteFits, LeaseFits, Task!LossIsTrueStep, Task!Holding
<1>3. CASE Task!ClaimTaken
  <2>1. page' \in ScreenRows /\ page'.lease = page.lease /\ page'.view = page.view
    BY <1>1, <1>3 DEF Task!ClaimTaken, ScreenRows, Task!Holders
  <2>2. UNCHANGED <<load, poll>>
    BY <1>3 DEF Task!ClaimTaken
  <2> QED
    BY <1>1, <2>1, <2>2
       DEF GoodTask, TaskKept, WriteFits, LeaseFits, Task!LossIsTrueStep, Task!Holding
<1>4. CASE Task!ClaimUnheard
  <2>1. page' \in ScreenRows /\ page'.lease = page.lease /\ page'.view = "loading"
    BY <1>1, <1>4 DEF Task!ClaimUnheard, Task!Reload, ScreenRows
  <2>2. poll' = poll /\ load' = Task!Out
    BY <1>4 DEF Task!ClaimUnheard
  <2> QED
    BY <1>1, <2>1, <2>2, OutFits
       DEF GoodTask, TaskKept, WriteFits, LeaseFits, Task!LossIsTrueStep, Task!Holding
<1>5. CASE Task!Refused
  <2>1. UNCHANGED <<page, load, poll>>
    BY <1>5 DEF Task!Refused
  <2> QED
    BY <1>1, <2>1
       DEF GoodTask, TaskKept, WriteFits, LeaseFits, Task!LossIsTrueStep, Task!Holding
<1> QED
  BY <1>2, <1>3, <1>4, <1>5

(* The release is answered: the lease goes only if the claim is over. *)
LEMMA ReleaseAnswersFit ==
    ASSUME GoodTask, Task!ReleaseLands \/ Task!ReleaseUnheard
    PROVE  TaskKept
<1>1. /\ write' \in WriteRows /\ write'.of = "none" /\ write'.st = "idle" /\ api' = api
      /\ page \in ScreenRows /\ api \in TaskRows
  BY EndsFits, TaskShape DEF Task!ReleaseLands, Task!ReleaseUnheard
<1>2. CASE Task!ReleaseLands
  <2>1. page' = [Task!Cleared EXCEPT !.view = "loading"] /\ load' = Task!Out /\ poll' = Task!Idle
    BY <1>2 DEF Task!ReleaseLands, Task!StopsWatching
  <2>2. page' \in ScreenRows /\ page'.lease = FALSE /\ page'.view = "loading"
    BY <1>1, <2>1, ClearedFits DEF ScreenRows
  <2>3. api.ended
    BY <1>2 DEF Task!ReleaseLands, GoodTask, LeaseFits
  <2> QED
    BY <1>1, <2>1, <2>2, <2>3, IdleFits, OutFits
       DEF GoodTask, TaskKept, WriteFits, LeaseFits, Task!LossIsTrueStep, Task!Holding
<1>3. CASE Task!ReleaseUnheard
  <2>1. /\ UNCHANGED <<page, load>>
        /\ poll' = poll \/ (poll' \in ReadsOut /\ poll'.st # "ok")
    BY <1>3, WatchingFits DEF Task!ReleaseUnheard
  <2> QED
    BY <1>1, <2>1
       DEF GoodTask, TaskKept, WriteFits, LeaseFits, Task!LossIsTrueStep, Task!Holding
<1> QED
  BY <1>2, <1>3

(* Elsewhere. *)
LEMMA ElsewhereFits ==
    ASSUME GoodTask, Task!LeaseEnds \/ Task!OtherClaims \/ Task!AgentMoves
    PROVE  TaskKept
<1>1. UNCHANGED <<page, load, poll, write>> /\ api \in TaskRows /\ api.stage + 1 \in Nat
  BY TaskShape DEF Task!LeaseEnds, Task!OtherClaims, Task!AgentMoves
<1>2. /\ api' \in TaskRows /\ (MineOrOver(api) => MineOrOver(api')) /\ (api.ended => api'.ended)
  <2>1. CASE Task!LeaseEnds
    <3>1. "none" \in Task!Holders
      BY DEF Task!Holders
    <3>2. CASE api.holder = "me"
      BY <1>1, <2>1, <3>1, <3>2, FreesFit DEF Task!LeaseEnds, MineOrOver
    <3>3. CASE api.holder # "me"
      <4>1. api' = [api EXCEPT !.holder = "none"]
        BY <2>1, <3>3 DEF Task!LeaseEnds
      <4>2. api' \in TaskRows /\ api'.ended = api.ended
        BY <1>1, <3>1, <4>1 DEF TaskRows
      <4> QED
        BY <3>3, <4>2 DEF MineOrOver
    <3> QED
      BY <3>2, <3>3
  <2>2. CASE Task!OtherClaims
    <3>1. api' \in TaskRows /\ api'.ended = api.ended
      BY <1>1, <2>2 DEF Task!OtherClaims, TaskRows, Task!Holders
    <3> QED
      BY <2>2, <3>1 DEF Task!OtherClaims, MineOrOver
  <2>3. CASE Task!AgentMoves
    <3>1. api' \in TaskRows /\ api'.ended = api.ended /\ api'.holder = api.holder
      BY <1>1, <2>3 DEF Task!AgentMoves, TaskRows
    <3> QED
      BY <3>1 DEF MineOrOver
  <2> QED
    BY <2>1, <2>2, <2>3
<1> QED
  BY <1>1, <1>2 DEF GoodTask, TaskKept, WriteFits, LeaseFits, Task!LossIsTrueStep, Task!Holding

LEMMA StatusFits ==
    ASSUME GoodTask, Task!ServeStatus
    PROVE  TaskKept
<1>1. poll' = Task!Answer /\ UNCHANGED <<api, page, load, write>>
  BY DEF Task!ServeStatus
<1>2. poll' \in ReadsOut /\ poll'.st = "ok" /\ poll'.got = api.holder
  BY <1>1, TaskShape, AnswerFits
<1> QED
  BY <1>1, <1>2
     DEF GoodTask, TaskKept, WriteFits, LeaseFits, MineOrOver, Task!LossIsTrueStep, Task!Holding

LEMMA TaskStarts == Task!Init => GoodTask
<1> SUFFICES ASSUME Task!Init PROVE GoodTask
  OBVIOUS
<1>1. PICK h \in Task!Holders :
        api = [holder |-> h, stage |-> 0, ended |-> FALSE, granted |-> h = "me"]
  BY DEF Task!Init
<1>2. api \in TaskRows
  <2>1. h \in Task!Holders /\ 0 \in Nat /\ FALSE \in BOOLEAN /\ (h = "me") \in BOOLEAN
    OBVIOUS
  <2> QED
    BY <1>1, <2>1, Zenon DEF TaskRows
<1>3. page \in ScreenRows
  <2>1. /\ "loading" \in {"loading", "task", "failed", "gone"} /\ "none" \in Task!Holders
        /\ FALSE \in BOOLEAN /\ TRUE \in BOOLEAN /\ 0 \in Nat
        /\ "none" \in {"none", "out", "listed", "failed"}
    BY DEF Task!Holders
  <2> QED
    BY <2>1, Zenon DEF Task!Init, ScreenRows
<1>4. page.view = "loading" /\ ~page.lease
  BY DEF Task!Init
<1>5. write \in WriteRows /\ write.of = "none" /\ write.st = "idle"
  <2>1. "none" \in {"none", "claim", "release"}
        /\ "idle" \in {"idle", "out", "ok", "lost", "taken", "refused"}
    OBVIOUS
  <2>2. write \in WriteRows
    BY <2>1, Zenon DEF Task!Init, WriteRows
  <2> QED
    BY <2>2 DEF Task!Init
<1>6. load = Task!Out /\ poll = Task!Idle
  BY DEF Task!Init
<1> QED
  BY <1>2, <1>3, <1>4, <1>5, <1>6, IdleFits, OutFits DEF GoodTask, WriteFits, LeaseFits

LEMMA TaskStays == GoodTask /\ [Task!Next]_(Task!vars) => TaskKept
<1> SUFFICES ASSUME GoodTask, [Task!Next]_(Task!vars) PROVE TaskKept
  OBVIOUS
<1>1. CASE Task!ServeLoad \/ Task!LoadLands \/ Task!LoadFails \/ Task!Retry \/ Task!ServeStatus
             \/ Task!LeaseLost
  BY <1>1, LoadsFit, StatusFits, LostFits
<1>2. CASE Task!ReadQuietly \/ Task!QuietEnds \/ Task!Tick \/ Task!StatusLands \/ Task!StatusMisses
             \/ Task!ChecksEnd \/ Task!RailsEnd \/ Task!ReadStatusNow \/ Task!Visibility
             \/ Task!AskRelease \/ UNCHANGED Task!vars
  BY <1>2, WatchFits
<1>3. CASE Task!Claim \/ Task!Release \/ Task!ServeWrite \/ Task!WriteStops
  BY <1>3, WritesLeaveFit, ServeWriteFits
<1>4. CASE Task!ClaimLands \/ Task!ClaimTaken \/ Task!ClaimUnheard \/ Task!Refused
             \/ Task!ReleaseLands \/ Task!ReleaseUnheard
  BY <1>4, ClaimAnswersFit, ReleaseAnswersFit
<1>5. CASE Task!LeaseEnds \/ Task!OtherClaims \/ Task!AgentMoves
  BY <1>5, ElsewhereFits
<1> QED
  BY <1>1, <1>2, <1>3, <1>4, <1>5 DEF Task!Next

(* A task's page lets go of a lease only when the claim behind it did end: *)
(* neither a release without an answer nor an answer about an earlier      *)
(* claim is taken for the end of this one.                                 *)
THEOREM LeaseLossIsTrue == Task!Spec => Task!LossIsTrue
<1>1. GoodTask /\ [Task!Next]_(Task!vars) => GoodTask'
  BY TaskStays DEF TaskKept
<1>2. GoodTask /\ [Task!Next]_(Task!vars) => [Task!LossIsTrueStep]_(Task!vars)
  BY TaskStays DEF TaskKept
<1> QED
  BY <1>1, <1>2, TaskStarts, PTL DEF Task!Spec, Task!LossIsTrue

-----------------------------------------------------------------------------
(* The cave a page draws. *)

CaveRows == [build : 0 .. 2, running : BOOLEAN, disposed : BOOLEAN, avatars : BOOLEAN,
             view : {"first", "third", "front"}, blend : 0 .. 2, views : Nat]
HeardRows == [ready : BOOLEAN, lost : BOOLEAN, error : BOOLEAN,
              self : {"none", "off", "loading", "ready", "failed"},
              peers : {0} \cup {Scene!Cardinality(h) : h \in SUBSET People}]
BodyRows == [in : BOOLEAN, state : {"loading", "ready", "failed"}, loads : {0, 1}]
PanelRows == [started : BOOLEAN, wanted : BOOLEAN, near : BOOLEAN, disposed : BOOLEAN,
              videoReady : BOOLEAN, playing : BOOLEAN, shows : {"embers", "poster", "clip"}]

(* One load of the body is ever out, and only while the body is loading:   *)
(* so that the load which says how it went says it of the last try.        *)
BodyFits == body \in BodyRows /\ (body.in <=> body.state = "ready")
            /\ (body.loads = 1 => body.state = "loading")

(* While it runs, neither the loss nor an error was told.                  *)
WordFits == /\ heard \in HeardRows
            /\ cave.running => ~heard.lost /\ ~heard.error
            /\ ~(heard.lost /\ heard.error)

ClipFits(q) == q \in PanelRows /\ (q.videoReady => q.shows = "clip")
                /\ (q.playing => q.wanted /\ ~q.disposed)

GoodScene == /\ cave \in CaveRows /\ WordFits /\ BodyFits
             /\ room.here \in SUBSET People
             /\ DOMAIN room = {"here", "known", "version", "moves"}
             /\ ClipFits(panel) /\ allows \in BOOLEAN

SceneKept == GoodScene' /\ Scene!QuietOnceStoppedStep

LEMMA SceneStarts == Scene!Init => GoodScene
<1> SUFFICES ASSUME Scene!Init PROVE GoodScene
  OBVIOUS
<1>1. PICK on \in BOOLEAN, v \in {"first", "third", "front"} :
        /\ cave = [build |-> 2, running |-> TRUE, disposed |-> FALSE, avatars |-> on,
                   view |-> IF on THEN v ELSE "first",
                   blend |-> IF on /\ v # "first" THEN 2 ELSE 0, views |-> 0]
        /\ body = [in |-> FALSE, state |-> "loading", loads |-> IF on THEN 1 ELSE 0]
  BY DEF Scene!Init
<1>2. cave \in CaveRows
  <2>1. 2 \in 0 .. 2 /\ 0 \in 0 .. 2 /\ 0 \in Nat /\ TRUE \in BOOLEAN /\ FALSE \in BOOLEAN
    OBVIOUS
  <2>2. /\ (IF on THEN v ELSE "first") \in {"first", "third", "front"}
        /\ (IF on /\ v # "first" THEN 2 ELSE 0) \in 0 .. 2
    OBVIOUS
  <2> QED
    BY <1>1, <2>1, <2>2, Zenon DEF CaveRows
<1>3. BodyFits
  <2>1. /\ FALSE \in BOOLEAN /\ "loading" \in {"loading", "ready", "failed"}
        /\ (IF on THEN 1 ELSE 0) \in {0, 1}
    OBVIOUS
  <2>2. body \in BodyRows
    BY <1>1, <2>1, Zenon DEF BodyRows
  <2> QED
    BY <1>1, <2>2 DEF BodyFits
<1>4. heard \in HeardRows /\ ~heard.lost /\ ~heard.error
  <2>1. /\ FALSE \in BOOLEAN /\ "none" \in {"none", "off", "loading", "ready", "failed"}
        /\ 0 \in {0} \cup {Scene!Cardinality(h) : h \in SUBSET People}
    OBVIOUS
  <2>2. heard = [ready |-> FALSE, lost |-> FALSE, error |-> FALSE, self |-> "none", peers |-> 0]
    BY DEF Scene!Init
  <2>3. heard \in HeardRows
    BY <2>1, <2>2, Zenon DEF HeardRows
  <2> QED
    BY <2>2, <2>3
<1>5. ClipFits(panel)
  <2>1. FALSE \in BOOLEAN /\ "embers" \in {"embers", "poster", "clip"}
    OBVIOUS
  <2>2. panel = [started |-> FALSE, wanted |-> FALSE, near |-> FALSE, disposed |-> FALSE,
                 videoReady |-> FALSE, playing |-> FALSE, shows |-> "embers"]
    BY DEF Scene!Init
  <2>3. panel \in PanelRows
    BY <2>1, <2>2, Zenon DEF PanelRows
  <2> QED
    BY <2>2, <2>3 DEF ClipFits
<1>6. /\ room.here \in SUBSET People /\ DOMAIN room = {"here", "known", "version", "moves"}
      /\ allows \in BOOLEAN
  BY DEF Scene!Init
<1> QED
  BY <1>2, <1>3, <1>4, <1>5, <1>6 DEF GoodScene, WordFits

(* Whatever ends the loop ends it running, and says so once.               *)
LEMMA StopFits ==
    ASSUME GoodScene, NEW what \in {"lost", "error"}, cave.running, Scene!StopTelling(what)
    PROVE  cave' \in CaveRows /\ ~cave'.running /\ WordFits'
<1>1. cave' \in CaveRows /\ ~cave'.running
  BY DEF GoodScene, Scene!StopTelling, CaveRows
<1>2. heard' \in HeardRows
  BY DEF GoodScene, WordFits, Scene!StopTelling, HeardRows
<1>3. ~(heard'.lost /\ heard'.error)
  BY DEF GoodScene, WordFits, Scene!StopTelling, HeardRows
<1> QED
  BY <1>1, <1>2, <1>3 DEF WordFits

LEMMA FrameFits ==
    ASSUME GoodScene, Scene!Frame
    PROVE  cave' \in CaveRows /\ cave.running /\ cave'.running = cave.running /\ WordFits'
<1>1. PICK reduced \in BOOLEAN, blend \in 0 .. 2 :
        /\ cave' = [cave EXCEPT !.blend = blend]
        /\ heard' = [heard EXCEPT !.ready = TRUE, !.self = Scene!SelfState(blend),
                                  !.peers = Scene!Cardinality(room.here)]
  <2>1. PICK reduced \in BOOLEAN :
          LET goal == IF cave.view = "first" THEN 0 ELSE 2
              blend == IF reduced THEN goal
                       ELSE IF goal > cave.blend THEN cave.blend + 1
                       ELSE IF goal < cave.blend THEN cave.blend - 1 ELSE goal IN
          /\ cave' = [cave EXCEPT !.blend = blend]
          /\ heard' = [heard EXCEPT !.ready = TRUE, !.self = Scene!SelfState(blend),
                                    !.peers = Scene!Cardinality(room.here)]
    BY DEF Scene!Frame
  <2> DEFINE goal == IF cave.view = "first" THEN 0 ELSE 2
             blend == IF reduced THEN goal
                      ELSE IF goal > cave.blend THEN cave.blend + 1
                      ELSE IF goal < cave.blend THEN cave.blend - 1 ELSE goal
  <2>2. cave.blend \in 0 .. 2
    BY DEF GoodScene, CaveRows
  <2>3. goal \in {0, 2}
    OBVIOUS
  <2>4. blend \in 0 .. 2
    <3> HIDE DEF goal
    <3> QED
      BY <2>2, <2>3
  <2>5. /\ cave' = [cave EXCEPT !.blend = blend]
        /\ heard' = [heard EXCEPT !.ready = TRUE, !.self = Scene!SelfState(blend),
                                  !.peers = Scene!Cardinality(room.here)]
    BY <2>1
  <2> HIDE DEF blend
  <2> QED
    BY <2>4, <2>5
<1>2. cave' \in CaveRows /\ cave.running /\ cave'.running = cave.running
  BY <1>1 DEF GoodScene, CaveRows, Scene!Frame
<1>3. /\ Scene!SelfState(blend) \in {"none", "off", "loading", "ready", "failed"}
      /\ Scene!Cardinality(room.here) \in {0} \cup {Scene!Cardinality(h) : h \in SUBSET People}
  BY DEF Scene!SelfState, GoodScene
<1>4. heard' \in HeardRows /\ heard'.lost = heard.lost /\ heard'.error = heard.error
  <2> DEFINE state == Scene!SelfState(blend)
             n == Scene!Cardinality(room.here)
  <2>1. heard' = [heard EXCEPT !.ready = TRUE, !.self = state, !.peers = n]
    BY <1>1
  <2>2. /\ state \in {"none", "off", "loading", "ready", "failed"}
        /\ n \in {0} \cup {Scene!Cardinality(h) : h \in SUBSET People}
    BY <1>3
  <2> HIDE DEF state, n
  <2> QED
    BY <2>1, <2>2 DEF GoodScene, WordFits, HeardRows
<1> QED
  BY <1>2, <1>4 DEF GoodScene, WordFits

LEMMA PeopleFit ==
    ASSUME GoodScene, Scene!PeopleSteps, UNCHANGED <<panel, allows>>
    PROVE  SceneKept
<1>1. ClipFits(panel)' /\ allows' \in BOOLEAN
  BY DEF GoodScene
<1>2. CASE Scene!BuildStep
  <2>1. PICK n \in 0 .. 2 : cave' = [cave EXCEPT !.build = n]
    <3>1. cave.build \in 0 .. 2 /\ cave.build > 0
      BY <1>2 DEF GoodScene, CaveRows, Scene!BuildStep
    <3>2. cave.build - 1 \in 0 .. 2
      BY <3>1
    <3> QED
      BY <1>2, <3>2, Zenon DEF Scene!BuildStep
  <2>2. cave' \in CaveRows /\ cave'.running = cave.running
    BY <2>1 DEF GoodScene, CaveRows
  <2> QED
    BY <1>1, <1>2, <2>2
       DEF SceneKept, GoodScene, WordFits, BodyFits, Scene!BuildStep, Scene!QuietOnceStoppedStep
<1>3. CASE Scene!Frame
  BY <1>1, <1>3, FrameFits
     DEF SceneKept, GoodScene, BodyFits, Scene!Frame, Scene!QuietOnceStoppedStep, Scene!Stopped
<1>4. CASE Scene!FrameThrows
  BY <1>1, <1>4, StopFits
     DEF SceneKept, GoodScene, BodyFits, Scene!FrameThrows, Scene!QuietOnceStoppedStep,
         Scene!Stopped
<1>5. CASE Scene!ContextLost
  BY <1>1, <1>5, StopFits
     DEF SceneKept, GoodScene, BodyFits, Scene!ContextLost, Scene!QuietOnceStoppedStep,
         Scene!Stopped
<1>6. CASE Scene!BodyLoads \/ Scene!BodyFails \/ Scene!RetrySelf
  <2>1. BodyFits'
    <3>1. /\ body \in BodyRows /\ body.loads \in {0, 1}
          /\ (body.in <=> body.state = "ready") /\ (body.loads = 1 => body.state = "loading")
      BY DEF GoodScene, BodyFits, BodyRows
    <3>2. CASE Scene!BodyLoads
      <4>1. body.loads = 1 /\ body.loads - 1 = 0
        BY <3>1, <3>2 DEF Scene!BodyLoads
      <4>2. \/ body' = [body EXCEPT !.loads = 0]
            \/ body' = [body EXCEPT !.loads = 0, !.in = TRUE, !.state = "ready"]
        BY <3>2, <4>1 DEF Scene!BodyLoads
      <4>3. body' \in BodyRows
        BY <3>1, <4>2 DEF BodyRows
      <4>4. /\ body'.loads = 0
            /\ \/ body'.in = body.in /\ body'.state = body.state
               \/ body'.in = TRUE /\ body'.state = "ready"
        BY <3>1, <4>2 DEF BodyRows
      <4> QED
        BY <3>1, <4>1, <4>3, <4>4 DEF BodyFits
    <3>3. CASE Scene!BodyFails
      <4>1. body.loads = 1 /\ body.loads - 1 = 0
        BY <3>1, <3>3 DEF Scene!BodyFails
      <4>2. \/ body' = [body EXCEPT !.loads = 0]
            \/ body' = [body EXCEPT !.loads = 0, !.state = "failed"]
        BY <3>3, <4>1 DEF Scene!BodyFails
      <4>3. body' \in BodyRows
        BY <3>1, <4>2 DEF BodyRows
      <4>4. /\ body'.loads = 0 /\ body'.in = body.in
            /\ body'.state = body.state \/ body'.state = "failed"
        BY <3>1, <4>2 DEF BodyRows
      <4> QED
        BY <3>1, <4>1, <4>3, <4>4 DEF BodyFits
    <3>4. CASE Scene!RetrySelf
      <4>1. body.state = "failed" /\ body.loads = 0 /\ body.loads + 1 = 1 /\ ~body.in
        BY <3>1, <3>4 DEF Scene!RetrySelf, Scene!Retries, Scene!MayRetry
      <4>2. body' = [body EXCEPT !.state = "loading", !.loads = 1]
        BY <3>4, <4>1 DEF Scene!RetrySelf, Scene!Takes
      <4>3. body' \in BodyRows
        BY <3>1, <4>2 DEF BodyRows
      <4> QED
        BY <3>1, <4>1, <4>2, <4>3 DEF BodyFits, BodyRows
    <3> QED
      BY <1>6, <3>2, <3>3, <3>4
  <2> QED
    BY <1>1, <1>6, <2>1
       DEF SceneKept, GoodScene, WordFits, Scene!BodyLoads, Scene!BodyFails, Scene!RetrySelf,
           Scene!QuietOnceStoppedStep
<1>7. CASE Scene!SetView
  <2>1. PICK v \in {"first", "third", "front"} :
          cave' = [cave EXCEPT !.views = @ + 1, !.view = IF Scene!Avatars THEN v ELSE "first"]
    BY <1>7 DEF Scene!SetView
  <2>2. PICK w \in {"first", "third", "front"}, n \in Nat :
          cave' = [cave EXCEPT !.views = n, !.view = w]
    <3>1. (IF Scene!Avatars THEN v ELSE "first") \in {"first", "third", "front"}
      OBVIOUS
    <3>2. cave.views + 1 \in Nat
      BY DEF GoodScene, CaveRows
    <3> QED
      BY <2>1, <3>1, <3>2, Zenon
  <2>3. cave' \in CaveRows /\ cave'.running = cave.running
    BY <2>2 DEF GoodScene, CaveRows
  <2> QED
    BY <1>1, <1>7, <2>3
       DEF SceneKept, GoodScene, WordFits, BodyFits, Scene!SetView, Scene!QuietOnceStoppedStep
<1>8. CASE Scene!RoomChanges \/ Scene!DirectoryChanges
  <2>1. /\ room'.here \in SUBSET People
        /\ DOMAIN room' = {"here", "known", "version", "moves"}
    BY <1>8 DEF GoodScene, Scene!RoomChanges, Scene!DirectoryChanges
  <2> QED
    BY <1>1, <1>8, <2>1
       DEF SceneKept, GoodScene, WordFits, BodyFits, Scene!RoomChanges, Scene!DirectoryChanges,
           Scene!QuietOnceStoppedStep
<1>9. CASE Scene!Dressed
  BY <1>1, <1>9
     DEF SceneKept, GoodScene, WordFits, BodyFits, Scene!Dressed, Scene!QuietOnceStoppedStep
<1>10. CASE Scene!Dispose
  <2>1. cave' \in CaveRows /\ ~cave'.running
    BY <1>10 DEF GoodScene, Scene!Dispose, CaveRows
  <2> QED
    BY <1>1, <1>10, <2>1
       DEF SceneKept, GoodScene, WordFits, BodyFits, Scene!Dispose, Scene!QuietOnceStoppedStep
<1> QED
  BY <1>2, <1>3, <1>4, <1>5, <1>6, <1>7, <1>8, <1>9, <1>10 DEF Scene!PeopleSteps

(* A screen plays on only if it is looked at and not gone.                 *)
LEMMA PlayFits ==
    ASSUME allows \in BOOLEAN, NEW q, ClipFits(q), ~q.disposed
    PROVE  ClipFits(Scene!Play(q))
BY DEF ClipFits, PanelRows, Scene!Play

LEMMA ScreensFit ==
    ASSUME GoodScene, Scene!ScreenSteps
    PROVE  ClipFits(panel') /\ allows' \in BOOLEAN
<1>1. ClipFits(panel) /\ allows \in BOOLEAN
  BY DEF GoodScene
<1>2. CASE Scene!SetWanted
  <2>1. PICK wanted \in BOOLEAN, near \in BOOLEAN :
          LET q == [panel EXCEPT !.wanted = wanted, !.near = @ \/ near, !.started = @ \/ wanted]
          IN  panel' = IF wanted THEN Scene!Play(q) ELSE [q EXCEPT !.playing = FALSE]
    BY <1>2 DEF Scene!SetWanted
  <2> DEFINE q == [panel EXCEPT !.wanted = wanted, !.near = @ \/ near, !.started = @ \/ wanted]
  <2>2. /\ q \in PanelRows /\ q.wanted = wanted /\ q.disposed = panel.disposed
        /\ q.videoReady = panel.videoReady /\ q.shows = panel.shows /\ q.playing = panel.playing
    BY <1>1 DEF ClipFits, PanelRows
  <2>3. panel' = IF wanted THEN Scene!Play(q) ELSE [q EXCEPT !.playing = FALSE]
    BY <2>1
  <2>4. ~panel.disposed /\ allows' = allows
    BY <1>2 DEF Scene!SetWanted
  <2> HIDE DEF q
  <2>5. CASE wanted
    <3>1. ClipFits(q)
      BY <1>1, <2>2, <2>4, <2>5 DEF ClipFits
    <3> QED
      BY <1>1, <2>2, <2>3, <2>4, <2>5, <3>1, PlayFits
  <2>6. CASE ~wanted
    BY <1>1, <2>2, <2>3, <2>4, <2>6 DEF ClipFits, PanelRows
  <2> QED
    BY <2>5, <2>6
<1>3. CASE Scene!PosterLoads
  BY <1>1, <1>3 DEF ClipFits, PanelRows, Scene!PosterLoads, Scene!ShowsPoster, Scene!BeforeTheClip
<1>4. CASE Scene!ClipLoads
  <2>1. CASE panel.disposed \/ panel.videoReady
    BY <1>1, <1>4, <2>1 DEF Scene!ClipLoads
  <2>2. CASE ~(panel.disposed \/ panel.videoReady)
    <3> DEFINE q == [panel EXCEPT !.videoReady = TRUE, !.shows = "clip"]
    <3>1. ClipFits(q) /\ ~q.disposed
      BY <1>1, <2>2 DEF ClipFits, PanelRows
    <3>2. panel' = Scene!Play(q) /\ allows' = allows
      BY <1>4, <2>2 DEF Scene!ClipLoads
    <3> HIDE DEF q
    <3> QED
      BY <1>1, <3>1, <3>2, PlayFits
  <2> QED
    BY <2>1, <2>2
<1>5. CASE Scene!FileFails
  BY <1>1, <1>5 DEF Scene!FileFails
<1>6. CASE Scene!Kick
  BY <1>1, <1>6 DEF ClipFits, PanelRows, Scene!Kick
<1>7. CASE Scene!DisposeScreen
  BY <1>1, <1>7 DEF ClipFits, PanelRows, Scene!DisposeScreen
<1> QED
  BY <1>2, <1>3, <1>4, <1>5, <1>6, <1>7 DEF Scene!ScreenSteps

LEMMA SceneStays == GoodScene /\ [Scene!Next]_(Scene!vars) => SceneKept
<1> SUFFICES ASSUME GoodScene, [Scene!Next]_(Scene!vars) PROVE SceneKept
  OBVIOUS
<1>1. CASE Scene!PeopleSteps /\ UNCHANGED <<which, media, panel, files, allows>>
  BY <1>1, PeopleFit
<1>2. CASE Scene!ScreenSteps /\ UNCHANGED <<which, cave, heard, room, body, drawn, own>>
  BY <1>2, ScreensFit
     DEF SceneKept, GoodScene, WordFits, BodyFits, Scene!QuietOnceStoppedStep
<1>3. CASE UNCHANGED Scene!vars
  BY <1>3
     DEF SceneKept, GoodScene, WordFits, BodyFits, Scene!vars, Scene!QuietOnceStoppedStep
<1> QED
  BY <1>1, <1>2, <1>3 DEF Scene!Next, Scene!screen, Scene!scene

LEMMA SceneShows == GoodScene => Scene!BodyAsItIs /\ Scene!ClipStays
BY DEF GoodScene, BodyFits, WordFits, ClipFits, Scene!BodyAsItIs, Scene!ClipStays

(* The shared body is as it says, an app's clip stays over its poster and  *)
(* plays only while it is looked at, in whatever order files come.         *)
THEOREM SceneIsTrue == Scene!Spec => [](Scene!BodyAsItIs /\ Scene!ClipStays)
<1>1. GoodScene /\ [Scene!Next]_(Scene!vars) => GoodScene'
  BY SceneStays DEF SceneKept
<1> QED
  BY <1>1, SceneShows, SceneStarts, PTL DEF Scene!Spec

(* Once the drawing has stopped, for whatever reason, the page is told     *)
(* nothing more.                                                           *)
THEOREM StoppedIsQuiet == Scene!Spec => Scene!QuietOnceStopped
<1>1. GoodScene /\ [Scene!Next]_(Scene!vars) => GoodScene'
  BY SceneStays DEF SceneKept
<1>2. GoodScene /\ [Scene!Next]_(Scene!vars) => [Scene!QuietOnceStoppedStep]_(Scene!vars)
  BY SceneStays DEF SceneKept
<1> QED
  BY <1>1, <1>2, SceneStarts, PTL DEF Scene!Spec, Scene!QuietOnceStopped

-----------------------------------------------------------------------------
(* What a robot wears. *)

RobotAssumption == "none" \notin Files /\ Spots \subseteq {"head", "accessory", "back", "chest"}

CallRows == [slot : Spots, w : Robot!Worn, res : {"none", "ok", "failed"}]

(* One slot of the robot r, by the look l: what is worn is what the look   *)
(* says; what is waited for is the look's; and what is neither waited for  *)
(* nor to be tried again is worn.                                          *)
SlotFits(r, s, l) ==
    /\ r.worn[s] # Robot!None => r.worn[s] = l[s] /\ r.pending[s] = "none" /\ ~r.retry[s]
    /\ r.pending[s] # "none" => r.pending[s] = l[s].file /\ ~r.retry[s]
    /\ r.retry[s] => l[s] # Robot!None
    /\ r.pending[s] = "none" /\ ~r.retry[s] => r.worn[s] = l[s]

(* What may be flown over in the slot s.                                   *)
Can(r, s) == s \in Spots /\ Robot!Flies(r, s, r.worn[s])

FlyerFits(r) ==
    r.over = IF Can(r, "head") THEN "head" ELSE IF Can(r, "accessory") THEN "accessory" ELSE "none"

(* Between the head and the accessory: the flyer is over the head if it    *)
(* may be, over an accessory only if there is one; and where the accessory *)
(* asks for nothing new, it is right already.                              *)
HeadOver(r, from, l) ==
    /\ r.over = "head" <=> Can(r, "head")
    /\ r.over = "accessory" => "accessory" \in Spots /\ r.worn["accessory"] # Robot!None
    /\ "accessory" \in Spots /\ l["accessory"] = from["accessory"] => FlyerFits(r)
    /\ "accessory" \notin Spots => FlyerFits(r)

GoodRobot ==
    /\ look \in Robot!Asking /\ robot \in Robot!Wearing /\ calls \subseteq CallRows
    /\ ~robot.gone => \A s \in Spots : SlotFits(robot, s, look)
    /\ FlyerFits(robot)

(* The two differ in what the flyer is over at most.                       *)
SameBut(x, r) ==
    /\ x \in Robot!Wearing
    /\ x.worn = r.worn /\ x.pending = r.pending /\ x.retry = r.retry /\ x.gone = r.gone

(* The two differ in the slot s and in what the flyer is over at most.     *)
SameElse(x, r, s) ==
    /\ x \in Robot!Wearing /\ x.gone = r.gone
    /\ \A t \in Spots : t # s => /\ x.worn[t] = r.worn[t] /\ x.pending[t] = r.pending[t]
                                 /\ x.retry[t] = r.retry[t]

LEMMA NoneIs ==
    ASSUME RobotAssumption
    PROVE  /\ Robot!None.file = "none" /\ Robot!None.flyer = FALSE /\ Robot!None \notin Robot!Worn
           /\ \A w \in Robot!Worn : w.file \in Files /\ w.file # "none" /\ w.flyer \in BOOLEAN
<1>1. Robot!None.file = "none" /\ Robot!None.flyer = FALSE
  BY DEF Robot!None
<1>2. \A w \in Robot!Worn : w.file \in Files /\ w.file # "none" /\ w.flyer \in BOOLEAN
  BY DEF RobotAssumption, Robot!Worn
<1> QED
  BY <1>1, <1>2

LEMMA OneLook ==
    ASSUME NEW v \in Robot!Worn, NEW w \in Robot!Worn, v.file = w.file, v.flyer = w.flyer
    PROVE  v = w
BY DEF Robot!Worn

LEMMA AskedFor ==
    ASSUME NEW l \in Robot!Asking, NEW s \in Spots
    PROVE  l[s] \in {Robot!None} \cup Robot!Worn
BY DEF Robot!Asking

LEMMA WornIs ==
    ASSUME NEW r \in Robot!Wearing
    PROVE  /\ r.worn \in [Spots -> {Robot!None} \cup Robot!Worn]
           /\ r.pending \in [Spots -> Files \cup {"none"}] /\ r.retry \in [Spots -> BOOLEAN]
           /\ r.over \in {"none", "head", "accessory"} /\ r.gone \in BOOLEAN
BY DEF Robot!Wearing

(* placeFlyer over an accessory.                                           *)
OverAcc(r, w) ==
    IF "accessory" \notin Spots \/ r.over = "head" THEN r.over
    ELSE IF Robot!Flies(r, "accessory", w) THEN "accessory"
    ELSE IF r.over = "accessory" THEN "none" ELSE r.over

LEMMA OverChanged ==
    ASSUME NEW r \in Robot!Wearing, NEW o \in {"none", "head", "accessory"}
    PROVE  SameBut([r EXCEPT !.over = o], r) /\ [r EXCEPT !.over = o].over = o
BY DEF SameBut, Robot!Wearing

LEMMA AccessoryFlown ==
    ASSUME NEW r \in Robot!Wearing, NEW w
    PROVE  /\ SameBut(Robot!FlyerOverAccessory(r, w), r)
           /\ Robot!FlyerOverAccessory(r, w).over = OverAcc(r, w)
<1>1. SameBut(r, r)
  BY DEF SameBut
<1>2. /\ SameBut([r EXCEPT !.over = "accessory"], r)
      /\ [r EXCEPT !.over = "accessory"].over = "accessory"
      /\ SameBut([r EXCEPT !.over = "none"], r) /\ [r EXCEPT !.over = "none"].over = "none"
  BY OverChanged
<1> QED
  BY <1>1, <1>2 DEF Robot!FlyerOverAccessory, OverAcc

OverHead(r, w, l) ==
    IF Robot!Flies(r, "head", w) THEN "head"
    ELSE IF r.over = "head"
         THEN IF "accessory" \in Spots /\ Robot!Flies(r, "accessory", l["accessory"])
              THEN "accessory" ELSE "none"
    ELSE r.over

LEMMA HeadFlown ==
    ASSUME NEW r \in Robot!Wearing, NEW w, NEW l
    PROVE  /\ SameBut(Robot!FlyerOverHead(r, w, l), r)
           /\ Robot!FlyerOverHead(r, w, l).over = OverHead(r, w, l)
<1>1. SameBut(r, r)
  BY DEF SameBut
<1> DEFINE h == [r EXCEPT !.over = "head"]
           n == [r EXCEPT !.over = "none"]
           a == Robot!FlyerOverAccessory(n, Robot!Accessory(l))
<1>2. SameBut(h, r) /\ h.over = "head" /\ SameBut(n, r) /\ n.over = "none" /\ n \in Robot!Wearing
  BY OverChanged DEF SameBut
<1> HIDE DEF h, n
<1>3. SameBut(a, n) /\ a.over = OverAcc(n, Robot!Accessory(l))
  BY <1>2, AccessoryFlown
<1>4. a.over = IF "accessory" \in Spots /\ Robot!Flies(r, "accessory", l["accessory"])
               THEN "accessory" ELSE "none"
  BY <1>2, <1>3 DEF OverAcc, Robot!Accessory, Robot!Flies, SameBut
<1>5. SameBut(a, r)
  BY <1>2, <1>3 DEF SameBut
<1> HIDE DEF a
<1>6. Robot!FlyerOverHead(r, w, l) =
        IF Robot!Flies(r, "head", w) THEN h ELSE IF r.over = "head" THEN a ELSE r
  BY DEF h, n, a, Robot!FlyerOverHead
<1> QED
  BY <1>1, <1>2, <1>4, <1>5, <1>6 DEF OverHead

(* What the flyer is over after the slot s is emptied, or placed anew.     *)
DropOver(r, s, l) ==
    IF r.over # s THEN r.over
    ELSE IF s = "head" /\ "accessory" \in Spots /\ Robot!Flies(r, "accessory", l["accessory"])
    THEN "accessory" ELSE "none"

PlaceOver(x, o, s, w, l) ==
    IF s = "head"
    THEN IF Robot!Flies(x, "head", w) THEN "head"
         ELSE IF o # "head" THEN o
         ELSE IF "accessory" \in Spots /\ Robot!Flies(x, "accessory", l["accessory"])
         THEN "accessory" ELSE "none"
    ELSE IF s # "accessory" \/ o = "head" THEN o
    ELSE IF Robot!Flies(x, "accessory", w) THEN "accessory"
    ELSE IF o = "accessory" THEN "none" ELSE o

Dropped(x, r, s, l) ==
    /\ SameElse(x, r, s)
    /\ x.worn[s] = Robot!None /\ x.pending[s] = r.pending[s] /\ x.retry[s] = r.retry[s]
    /\ x.over = DropOver(r, s, l)

Placed(x, r, s, w, l) ==
    /\ SameElse(x, r, s)
    /\ x.worn[s] \in Robot!Worn /\ x.worn[s].file = r.worn[s].file
    /\ x.worn[s].flyer = w.flyer
    /\ x.pending[s] = r.pending[s] /\ x.retry[s] = r.retry[s]
    /\ x.over = PlaceOver(x, r.over, s, w, l)

LEMMA PutOn ==
    ASSUME NEW r \in Robot!Wearing, NEW s \in Spots, NEW v \in {Robot!None} \cup Robot!Worn
    PROVE  /\ SameElse([r EXCEPT !.worn[s] = v], r, s) /\ [r EXCEPT !.worn[s] = v].worn[s] = v
           /\ [r EXCEPT !.worn[s] = v].worn = [r.worn EXCEPT ![s] = v]
           /\ [r EXCEPT !.worn[s] = v].pending = r.pending
           /\ [r EXCEPT !.worn[s] = v].retry = r.retry /\ [r EXCEPT !.worn[s] = v].over = r.over
<1> DEFINE f == [r.worn EXCEPT ![s] = v]
           x == [r EXCEPT !.worn = f]
<1>1. f \in [Spots -> {Robot!None} \cup Robot!Worn] /\ f[s] = v /\ \A t \in Spots : t # s => f[t] = r.worn[t]
  BY WornIs
<1>2. [r EXCEPT !.worn[s] = v] = x
  OBVIOUS
<1>3. /\ x \in Robot!Wearing /\ x.worn = f /\ x.pending = r.pending /\ x.retry = r.retry
      /\ x.over = r.over /\ x.gone = r.gone
  <2> HIDE DEF f
  <2> QED
    BY <1>1 DEF Robot!Wearing
<1> HIDE DEF x
<1> QED
  BY <1>1, <1>2, <1>3 DEF SameElse

LEMMA Drops ==
    ASSUME NEW r \in Robot!Wearing, NEW s \in Spots, NEW l
    PROVE  Dropped(Robot!Drop(r, s, l), r, s, l)
<1> DEFINE o == IF r.over = s THEN "none" ELSE r.over
           e == [r EXCEPT !.worn[s] = Robot!None]
           d == [e EXCEPT !.over = o]
           a == Robot!FlyerOverAccessory(d, Robot!Accessory(l))
<1>1. o \in {"none", "head", "accessory"}
  BY WornIs
<1>2. /\ SameElse(e, r, s) /\ e.worn[s] = Robot!None /\ e.pending = r.pending
      /\ e.retry = r.retry /\ e.over = r.over
  BY PutOn
<1>3. e \in Robot!Wearing
  BY <1>2 DEF SameElse
<1> HIDE DEF e
<1>4. SameBut(d, e) /\ d.over = o
  <2> HIDE DEF o
  <2> QED
    BY <1>1, <1>3, OverChanged
<1>5. Robot!Drop(r, s, l) = IF s = "head" /\ r.over = "head" THEN a ELSE d
  <2>1. [r EXCEPT !.worn[s] = Robot!None, !.over = IF @ = s THEN "none" ELSE @] = d
    <3>1. [r EXCEPT !.worn[s] = Robot!None, !.over = IF r.over = s THEN "none" ELSE r.over]
            = [[r EXCEPT !.worn[s] = Robot!None] EXCEPT !.over = IF r.over = s THEN "none" ELSE r.over]
      OBVIOUS
    <3>2. e.over = r.over
      BY <1>2
    <3> QED
      BY <3>1, <3>2 DEF e
  <2> QED
    BY <2>1 DEF Robot!Drop
<1>6. d \in Robot!Wearing
  BY <1>4 DEF SameBut
<1> HIDE DEF d
<1>7. SameElse(d, r, s) /\ d.worn[s] = Robot!None /\ d.pending[s] = r.pending[s] /\ d.retry[s] = r.retry[s]
  BY <1>2, <1>4 DEF SameElse, SameBut
<1>8. CASE s = "head" /\ r.over = "head"
  <2>1. SameBut(a, d) /\ a.over = OverAcc(d, Robot!Accessory(l))
    BY <1>6, AccessoryFlown
  <2>2. "accessory" \in Spots => d.worn["accessory"] = r.worn["accessory"]
    BY <1>7, <1>8 DEF SameElse
  <2>3. a.over = DropOver(r, s, l)
    BY <1>4, <1>8, <2>1, <2>2 DEF OverAcc, DropOver, Robot!Accessory, Robot!Flies
  <2>4. /\ SameElse(a, r, s) /\ a.worn[s] = Robot!None /\ a.pending[s] = r.pending[s]
        /\ a.retry[s] = r.retry[s]
    BY <1>7, <2>1 DEF SameElse, SameBut
  <2> HIDE DEF a
  <2> QED
    BY <1>5, <1>8, <2>3, <2>4 DEF Dropped
<1>9. CASE ~(s = "head" /\ r.over = "head")
  <2>1. d.over = DropOver(r, s, l)
    BY <1>4, <1>9 DEF DropOver
  <2> HIDE DEF a
  <2> QED
    BY <1>5, <1>7, <1>9, <2>1 DEF Dropped
<1> QED
  BY <1>8, <1>9

LEMMA Places ==
    ASSUME RobotAssumption, NEW r \in Robot!Wearing, NEW s \in Spots,
           NEW w \in {Robot!None} \cup Robot!Worn, NEW l, r.worn[s] # Robot!None
    PROVE  Placed(Robot!Place(r, s, w, l), r, s, w, l)
<1>1. r.worn[s] \in Robot!Worn /\ w.flyer \in BOOLEAN
  BY WornIs, NoneIs
<1> DEFINE v == [r.worn[s] EXCEPT !.flyer = w.flyer]
           q == [r EXCEPT !.worn[s] = v]
           x == Robot!PlaceFlyer(q, s, w, l)
<1>2. v \in Robot!Worn /\ v.file = r.worn[s].file /\ v.flyer = w.flyer
  BY <1>1 DEF Robot!Worn
<1>3. [r EXCEPT !.worn[s].flyer = w.flyer] = q
  OBVIOUS
<1> HIDE DEF v
<1>4. /\ SameElse(q, r, s) /\ q.worn[s] = v /\ q.pending = r.pending /\ q.retry = r.retry
      /\ q.over = r.over
  BY <1>2, PutOn
<1>5. q \in Robot!Wearing
  BY <1>4 DEF SameElse
<1> HIDE DEF q
<1>6. SameBut(q, q)
  BY <1>5 DEF SameBut
<1>7. SameBut(x, q)
  BY <1>5, <1>6, HeadFlown, AccessoryFlown DEF Robot!PlaceFlyer
<1>8. x.over = PlaceOver(x, r.over, s, w, l)
  <2>1. x.worn = q.worn
    BY <1>7 DEF SameBut
  <2>2. CASE s = "head"
    <3>1. x.over = OverHead(q, w, l)
      BY <1>5, <2>2, HeadFlown DEF Robot!PlaceFlyer
    <3> HIDE DEF x
    <3> QED
      BY <1>4, <2>1, <2>2, <3>1 DEF OverHead, PlaceOver, Robot!Flies
  <2>3. CASE s = "accessory"
    <3>1. x.over = OverAcc(q, w)
      BY <1>5, <2>3, AccessoryFlown DEF Robot!PlaceFlyer
    <3> HIDE DEF x
    <3> QED
      BY <1>4, <2>1, <2>3, <3>1 DEF OverAcc, PlaceOver, Robot!Flies
  <2>4. CASE s \notin {"head", "accessory"}
    BY <1>4, <2>4 DEF Robot!PlaceFlyer, PlaceOver
  <2> QED
    BY <2>2, <2>3, <2>4
<1>9. Robot!Place(r, s, w, l) = x
  BY <1>3 DEF Robot!Place
<1> HIDE DEF x
<1>10. SameElse(x, r, s)
  BY <1>4, <1>7 DEF SameElse, SameBut
<1>11. x.worn[s] = v /\ x.pending[s] = r.pending[s] /\ x.retry[s] = r.retry[s]
  BY <1>4, <1>7 DEF SameBut
<1> QED
  BY <1>2, <1>8, <1>9, <1>10, <1>11 DEF Placed

(* A slot of the look that is set.                                         *)
SlotSet(x, r, s, from, l) ==
    /\ SameElse(x, r, s) /\ SlotFits(x, s, l)
    /\ \/ x = r /\ (from[s] = l[s] \/ r.worn[s] = Robot!None)
       \/ x.worn[s] = Robot!None /\ x.over = DropOver(r, s, l) /\ from[s] # l[s]
       \/ /\ r.worn[s] # Robot!None /\ x.worn[s] = l[s] /\ from[s] # l[s]
          /\ x.worn[s] # Robot!None /\ x.over = PlaceOver(x, r.over, s, l[s], l)

LEMMA SetsSlot ==
    ASSUME RobotAssumption, NEW r \in Robot!Wearing, NEW s \in Spots,
           NEW from \in Robot!Asking, NEW l \in Robot!Asking, SlotFits(r, s, from)
    PROVE  SlotSet(Robot!Sets(r, s, from, l), r, s, from, l)
<1>1. from[s] \in {Robot!None} \cup Robot!Worn /\ l[s] \in {Robot!None} \cup Robot!Worn
  BY AskedFor
<1>2. SameElse(r, r, s)
  BY DEF SameElse
<1>3. CASE from[s].file # l[s].file
  <2> DEFINE f == [r.pending EXCEPT ![s] = l[s].file]
             g == [r.retry EXCEPT ![s] = FALSE]
             z == [r EXCEPT !.pending = f, !.retry = g]
             x == Robot!Drop(z, s, l)
  <2>1. /\ f \in [Spots -> Files \cup {"none"}] /\ f[s] = l[s].file
        /\ \A t \in Spots : t # s => f[t] = r.pending[t]
    BY <1>1, WornIs, NoneIs
  <2>2. g \in [Spots -> BOOLEAN] /\ g[s] = FALSE /\ \A t \in Spots : t # s => g[t] = r.retry[t]
    BY WornIs
  <2>3. [r EXCEPT !.pending[s] = l[s].file, !.retry[s] = FALSE] = z
    OBVIOUS
  <2> HIDE DEF f, g
  <2>4. /\ z \in Robot!Wearing /\ z.worn = r.worn /\ z.pending = f /\ z.retry = g
        /\ z.over = r.over /\ z.gone = r.gone
    BY <2>1, <2>2 DEF Robot!Wearing
  <2> HIDE DEF z
  <2>5. Dropped(x, z, s, l)
    BY <2>4, Drops
  <2>6. Robot!Sets(r, s, from, l) = x
    BY <1>3, <2>3 DEF Robot!Sets
  <2> HIDE DEF x
  <2>7. SameElse(x, r, s) /\ x.worn[s] = Robot!None /\ x.pending[s] = l[s].file /\ ~x.retry[s]
    BY <2>1, <2>2, <2>4, <2>5 DEF Dropped, SameElse
  <2>8. x.over = DropOver(r, s, l)
    BY <2>4, <2>5 DEF Dropped, DropOver, Robot!Flies
  <2>9. SlotFits(x, s, l)
    BY <1>1, <2>7, NoneIs DEF SlotFits
  <2> QED
    BY <1>3, <2>6, <2>7, <2>8, <2>9 DEF SlotSet
<1>4. CASE from[s] = l[s]
  <2>1. Robot!Sets(r, s, from, l) = r /\ SlotFits(r, s, l)
    BY <1>4 DEF Robot!Sets, SlotFits
  <2> QED
    BY <1>2, <1>4, <2>1 DEF SlotSet
<1>5. CASE from[s].file = l[s].file /\ from[s] # l[s] /\ r.worn[s] = Robot!None
  <2>1. Robot!Sets(r, s, from, l) = r
    BY <1>5 DEF Robot!Sets, Robot!Place
  <2>2. SlotFits(r, s, l)
    BY <1>1, <1>5, NoneIs DEF SlotFits
  <2> QED
    BY <1>2, <1>5, <2>1, <2>2 DEF SlotSet
<1>6. CASE from[s].file = l[s].file /\ from[s] # l[s] /\ r.worn[s] # Robot!None
  <2> DEFINE x == Robot!Place(r, s, l[s], l)
  <2>1. Placed(x, r, s, l[s], l)
    BY <1>1, <1>6, Places
  <2>2. Robot!Sets(r, s, from, l) = x
    BY <1>6 DEF Robot!Sets
  <2> HIDE DEF x
  <2>3. r.worn[s] = from[s] /\ r.pending[s] = "none" /\ ~r.retry[s] /\ l[s] \in Robot!Worn
    BY <1>1, <1>6, NoneIs DEF SlotFits
  <2>4. x.worn[s] = l[s]
    BY <1>6, <2>1, <2>3, OneLook DEF Placed
  <2>5. SlotFits(x, s, l) /\ x.worn[s] # Robot!None
    BY <2>1, <2>3, <2>4, NoneIs DEF SlotFits, Placed
  <2> QED
    BY <1>6, <2>1, <2>2, <2>4, <2>5 DEF SlotSet, Placed
<1> QED
  BY <1>3, <1>4, <1>5, <1>6

(* The head first: the flyer leaves it, or comes over it.                  *)
LEMMA HeadFirst ==
    ASSUME RobotAssumption, NEW r \in Robot!Wearing, NEW x, NEW from, NEW l,
           "head" \in Spots, SlotSet(x, r, "head", from, l), FlyerFits(r),
           "accessory" \in Spots => SlotFits(r, "accessory", from)
    PROVE  HeadOver(x, from, l)
<1>1. "accessory" \in Spots => x.worn["accessory"] = r.worn["accessory"]
  BY DEF SlotSet, SameElse
<1>2. Can(r, "accessory") <=> Can(x, "accessory")
  BY <1>1 DEF Can, Robot!Flies
<1>3. "accessory" \in Spots /\ l["accessory"] = from["accessory"] =>
        (Robot!Flies(r, "accessory", l["accessory"]) <=> Can(r, "accessory"))
  BY DEF SlotFits, Can, Robot!Flies
<1>4. CASE x = r
  BY <1>4 DEF HeadOver, FlyerFits, Can, Robot!Flies
<1>5. CASE x.worn["head"] = Robot!None /\ x.over = DropOver(r, "head", l)
  <2>1. ~Can(x, "head")
    BY <1>5 DEF Can, Robot!Flies
  <2>2. x.over = IF r.over # "head" THEN r.over
                 ELSE IF "accessory" \in Spots /\ Robot!Flies(r, "accessory", l["accessory"])
                 THEN "accessory" ELSE "none"
    BY <1>5 DEF DropOver
  <2>3. x.over # "head"
    BY <2>2
  <2>4. x.over = "accessory" => "accessory" \in Spots /\ x.worn["accessory"] # Robot!None
    BY <1>1, <2>2 DEF FlyerFits, Can, Robot!Flies
  <2>5. "accessory" \in Spots /\ l["accessory"] = from["accessory"] => FlyerFits(x)
    BY <1>2, <1>3, <2>1, <2>2 DEF FlyerFits
  <2>6. "accessory" \notin Spots => FlyerFits(x)
    BY <2>1, <2>2 DEF FlyerFits, Can
  <2> QED
    BY <2>1, <2>3, <2>4, <2>5, <2>6 DEF HeadOver
<1>6. CASE /\ x.worn["head"] = l["head"] /\ x.worn["head"] # Robot!None
           /\ x.over = PlaceOver(x, r.over, "head", l["head"], l)
  <2>1. Can(x, "head") <=> Robot!Flies(x, "head", l["head"])
    BY <1>6 DEF Can
  <2>2. x.over = IF Can(x, "head") THEN "head" ELSE IF r.over # "head" THEN r.over
                 ELSE IF "accessory" \in Spots /\ Robot!Flies(x, "accessory", l["accessory"])
                 THEN "accessory" ELSE "none"
    BY <1>6, <2>1 DEF PlaceOver
  <2>3. "accessory" \in Spots =>
          (Robot!Flies(x, "accessory", l["accessory"]) <=> Robot!Flies(r, "accessory", l["accessory"]))
    BY <1>1 DEF Robot!Flies
  <2>4. x.over = "accessory" => "accessory" \in Spots /\ x.worn["accessory"] # Robot!None
    BY <1>1, <2>2 DEF FlyerFits, Can, Robot!Flies
  <2>5. "accessory" \in Spots /\ l["accessory"] = from["accessory"] => FlyerFits(x)
    BY <1>2, <1>3, <2>2, <2>3 DEF FlyerFits
  <2>6. "accessory" \notin Spots => FlyerFits(x)
    BY <2>2 DEF FlyerFits, Can
  <2>7. x.over = "head" <=> Can(x, "head")
    BY <2>2
  <2> QED
    BY <2>4, <2>5, <2>6, <2>7 DEF HeadOver
<1> QED
  BY <1>4, <1>5, <1>6 DEF SlotSet

(* Then the accessory: it is as it belongs.                                *)
LEMMA ThenAccessory ==
    ASSUME RobotAssumption, NEW r \in Robot!Wearing, NEW x, NEW from, NEW l,
           "accessory" \in Spots, SlotSet(x, r, "accessory", from, l), HeadOver(r, from, l)
    PROVE  FlyerFits(x)
<1>1. "head" \in Spots => x.worn["head"] = r.worn["head"]
  BY DEF SlotSet, SameElse
<1>2. Can(r, "head") <=> Can(x, "head")
  BY <1>1 DEF Can, Robot!Flies
<1>3. CASE x = r /\ from["accessory"] = l["accessory"]
  BY <1>3 DEF HeadOver
<1>4. CASE x = r /\ r.worn["accessory"] = Robot!None
  <2>1. ~Can(r, "accessory") /\ r.over # "accessory"
    BY <1>4 DEF HeadOver, Can, Robot!Flies
  <2> QED
    BY <1>4, <2>1, WornIs DEF HeadOver, FlyerFits
<1>5. CASE x.worn["accessory"] = Robot!None /\ x.over = DropOver(r, "accessory", l)
  <2>1. ~Can(x, "accessory")
    BY <1>5 DEF Can, Robot!Flies
  <2>2. x.over = IF r.over # "accessory" THEN r.over ELSE "none"
    BY <1>5 DEF DropOver
  <2> QED
    BY <1>2, <2>1, <2>2, WornIs DEF HeadOver, FlyerFits
<1>6. CASE /\ x.worn["accessory"] = l["accessory"] /\ x.worn["accessory"] # Robot!None
           /\ x.over = PlaceOver(x, r.over, "accessory", l["accessory"], l)
  <2>1. Can(x, "accessory") <=> Robot!Flies(x, "accessory", l["accessory"])
    BY <1>6 DEF Can
  <2>2. x.over = IF r.over = "head" THEN r.over
                 ELSE IF Can(x, "accessory") THEN "accessory"
                 ELSE IF r.over = "accessory" THEN "none" ELSE r.over
    BY <1>6, <2>1 DEF PlaceOver
  <2> QED
    BY <1>2, <2>2, WornIs DEF HeadOver, FlyerFits
<1> QED
  BY <1>3, <1>4, <1>5, <1>6 DEF SlotSet

(* The back and the chest have nothing that flies.                         *)
LEMMA RestIsStill ==
    ASSUME RobotAssumption, NEW r \in Robot!Wearing, NEW x, NEW from, NEW l, NEW s \in Spots,
           s \in {"back", "chest"}, SlotSet(x, r, s, from, l), FlyerFits(r)
    PROVE  FlyerFits(x)
<1>1. /\ "head" \in Spots => x.worn["head"] = r.worn["head"]
      /\ "accessory" \in Spots => x.worn["accessory"] = r.worn["accessory"]
  BY DEF SlotSet, SameElse
<1>2. (Can(r, "head") <=> Can(x, "head")) /\ (Can(r, "accessory") <=> Can(x, "accessory"))
  BY <1>1 DEF Can, Robot!Flies
<1>3. x.over = r.over
  BY WornIs DEF SlotSet, DropOver, PlaceOver
<1> QED
  BY <1>2, <1>3 DEF FlyerFits

(* The slots of done set to l, the others still by the look before.        *)
Midway(r, done, from, l) ==
    /\ r \in Robot!Wearing /\ ~r.gone
    /\ \A s \in Spots : SlotFits(r, s, IF s \in done THEN l ELSE from)

LEMMA SetsOne ==
    ASSUME RobotAssumption, NEW r, NEW done, NEW from \in Robot!Asking, NEW l \in Robot!Asking,
           Midway(r, done, from, l), NEW s, s \notin done
    PROVE  /\ Midway(Robot!SetsIf(r, s, from, l), done \cup {s}, from, l)
           /\ s \in Spots => SlotSet(Robot!SetsIf(r, s, from, l), r, s, from, l)
           /\ s \notin Spots => Robot!SetsIf(r, s, from, l) = r
<1>1. CASE s \notin Spots
  <2>1. Robot!SetsIf(r, s, from, l) = r
    BY <1>1 DEF Robot!SetsIf
  <2>2. Midway(r, done \cup {s}, from, l)
    <3>1. \A t \in Spots : t \in done \cup {s} <=> t \in done
      BY <1>1
    <3> QED
      BY <3>1 DEF Midway
  <2> QED
    BY <1>1, <2>1, <2>2
<1>2. CASE s \in Spots
  <2> DEFINE x == Robot!Sets(r, s, from, l)
  <2>1. SlotFits(r, s, from) /\ r \in Robot!Wearing
    BY <1>2 DEF Midway
  <2>2. SlotSet(x, r, s, from, l)
    BY <1>2, <2>1, SetsSlot
  <2>3. Robot!SetsIf(r, s, from, l) = x
    BY <1>2 DEF Robot!SetsIf
  <2> HIDE DEF x
  <2>4. x \in Robot!Wearing /\ ~x.gone
    BY <2>2 DEF SlotSet, SameElse, Midway
  <2>5. ASSUME NEW t \in Spots
        PROVE  SlotFits(x, t, IF t \in done \cup {s} THEN l ELSE from)
    <3>1. CASE t = s
      BY <2>2, <3>1 DEF SlotSet
    <3>2. CASE t # s
      <4>1. SlotFits(r, t, IF t \in done THEN l ELSE from)
        BY DEF Midway
      <4>2. x.worn[t] = r.worn[t] /\ x.pending[t] = r.pending[t] /\ x.retry[t] = r.retry[t]
        BY <2>2, <3>2 DEF SlotSet, SameElse
      <4>3. CASE t \in done
        <5>1. SlotFits(r, t, l)
          BY <4>1, <4>3
        <5>2. SlotFits(x, t, l)
          BY <4>2, <5>1 DEF SlotFits
        <5> QED
          BY <4>3, <5>2
      <4>4. CASE t \notin done
        <5>1. SlotFits(r, t, from)
          BY <4>1, <4>4
        <5>2. SlotFits(x, t, from)
          BY <4>2, <5>1 DEF SlotFits
        <5> QED
          BY <3>2, <4>4, <5>2
      <4> QED
        BY <4>3, <4>4
    <3> QED
      BY <3>1, <3>2
  <2> QED
    BY <1>2, <2>2, <2>3, <2>4, <2>5 DEF Midway
<1> QED
  BY <1>1, <1>2

LEMMA CallFits ==
    ASSUME NEW s \in Spots, NEW w \in Robot!Worn
    PROVE  Robot!Call(s, w) \in CallRows
BY DEF Robot!Call, CallRows

LEMMA LookSets ==
    ASSUME RobotAssumption, GoodRobot, Robot!SetLook
    PROVE  GoodRobot'
<1>1. PICK l \in Robot!Asking :
        /\ look' = l
        /\ robot' = Robot!SetsIf(Robot!SetsIf(Robot!SetsIf(Robot!SetsIf(robot, "head", look, l),
                      "accessory", look, l), "back", look, l), "chest", look, l)
        /\ calls' = calls \cup {Robot!Call(s, l[s]) : s \in
                                  {t \in Spots : look[t].file # l[t].file /\ l[t] # Robot!None}}
  BY DEF Robot!SetLook, Robot!Asking
<1> DEFINE r1 == Robot!SetsIf(robot, "head", look, l)
           r2 == Robot!SetsIf(r1, "accessory", look, l)
           r3 == Robot!SetsIf(r2, "back", look, l)
           r4 == Robot!SetsIf(r3, "chest", look, l)
<1>2. look \in Robot!Asking /\ robot \in Robot!Wearing /\ ~robot.gone /\ FlyerFits(robot)
  BY DEF GoodRobot, Robot!SetLook
<1>3. Midway(robot, {}, look, l)
  BY <1>2 DEF Midway, GoodRobot
<1>4. robot' = r4
  BY <1>1
<1>5. /\ Midway(r1, {} \cup {"head"}, look, l)
      /\ "head" \in Spots => SlotSet(r1, robot, "head", look, l)
      /\ "head" \notin Spots => r1 = robot
  BY <1>2, <1>3, SetsOne
<1> HIDE DEF r1
<1>6. /\ Midway(r2, {} \cup {"head"} \cup {"accessory"}, look, l)
      /\ "accessory" \in Spots => SlotSet(r2, r1, "accessory", look, l)
      /\ "accessory" \notin Spots => r2 = r1
  <2>1. "accessory" \notin {} \cup {"head"}
    OBVIOUS
  <2> QED
    BY <1>2, <1>5, <2>1, SetsOne
<1> HIDE DEF r2
<1>7. /\ Midway(r3, {} \cup {"head"} \cup {"accessory"} \cup {"back"}, look, l)
      /\ "back" \in Spots => SlotSet(r3, r2, "back", look, l)
      /\ "back" \notin Spots => r3 = r2
  <2> DEFINE done == {} \cup {"head"} \cup {"accessory"}
  <2>1. "back" \notin done
    OBVIOUS
  <2>2. Midway(r2, done, look, l)
    BY <1>6
  <2> HIDE DEF done
  <2>3. /\ Midway(r3, done \cup {"back"}, look, l)
        /\ "back" \in Spots => SlotSet(r3, r2, "back", look, l)
        /\ "back" \notin Spots => r3 = r2
    BY <1>2, <2>1, <2>2, SetsOne
  <2> QED
    BY <2>3 DEF done
<1> HIDE DEF r3
<1>8. /\ Midway(r4, {} \cup {"head"} \cup {"accessory"} \cup {"back"} \cup {"chest"}, look, l)
      /\ "chest" \in Spots => SlotSet(r4, r3, "chest", look, l)
      /\ "chest" \notin Spots => r4 = r3
  <2> DEFINE done == {} \cup {"head"} \cup {"accessory"} \cup {"back"}
  <2>1. "chest" \notin done
    OBVIOUS
  <2>2. Midway(r3, done, look, l)
    BY <1>7
  <2> HIDE DEF done
  <2>3. /\ Midway(r4, done \cup {"chest"}, look, l)
        /\ "chest" \in Spots => SlotSet(r4, r3, "chest", look, l)
        /\ "chest" \notin Spots => r4 = r3
    BY <1>2, <2>1, <2>2, SetsOne
  <2> QED
    BY <2>3 DEF done
<1> HIDE DEF r4
<1>9. r1 \in Robot!Wearing /\ r2 \in Robot!Wearing /\ r3 \in Robot!Wearing /\ r4 \in Robot!Wearing
  BY <1>5, <1>6, <1>7, <1>8 DEF Midway
<1>10. HeadOver(r1, look, l)
  <2>1. CASE "head" \in Spots
    <3>1. "accessory" \in Spots => SlotFits(robot, "accessory", look)
      BY <1>2 DEF GoodRobot
    <3> QED
      BY <1>2, <1>5, <2>1, <3>1, HeadFirst
  <2>2. CASE "head" \notin Spots
    <3>1. r1 = robot /\ ~Can(robot, "head")
      BY <1>5, <2>2 DEF Can
    <3> QED
      BY <1>2, <3>1 DEF HeadOver, FlyerFits, Can, Robot!Flies
  <2> QED
    BY <2>1, <2>2
<1>11. FlyerFits(r2)
  <2>1. CASE "accessory" \in Spots
    BY <1>6, <1>9, <1>10, <2>1, ThenAccessory
  <2>2. CASE "accessory" \notin Spots
    BY <1>6, <1>10, <2>2 DEF HeadOver
  <2> QED
    BY <2>1, <2>2
<1>12. FlyerFits(r3)
  BY <1>7, <1>9, <1>11, RestIsStill
<1>13. FlyerFits(r4)
  BY <1>8, <1>9, <1>12, RestIsStill
<1>14. calls' \subseteq CallRows
  <2>1. ASSUME NEW s \in Spots, l[s] # Robot!None
        PROVE  Robot!Call(s, l[s]) \in CallRows
    <3>1. l[s] \in Robot!Worn
      BY <2>1, AskedFor
    <3> QED
      BY <3>1, CallFits
  <2> QED
    BY <1>1, <2>1 DEF GoodRobot
<1>15. \A s \in Spots : SlotFits(r4, s, l)
  <2>1. \A s \in Spots : s \in {} \cup {"head"} \cup {"accessory"} \cup {"back"} \cup {"chest"}
    BY DEF RobotAssumption
  <2> QED
    BY <1>8, <2>1 DEF Midway
<1> QED
  BY <1>1, <1>4, <1>9, <1>13, <1>14, <1>15 DEF GoodRobot

(* A file arrives, or fails: only what the continuations were answered.    *)
LEMMA ArrivalsFit ==
    ASSUME GoodRobot, NEW f, NEW res \in {"ok", "failed"}, Robot!Arrives(f, res)
    PROVE  GoodRobot'
<1>1. ASSUME NEW c \in calls
      PROVE  [c EXCEPT !.res = IF c.w.file = f THEN res ELSE @] \in CallRows
  <2>1. c \in CallRows
    BY DEF GoodRobot
  <2>2. (IF c.w.file = f THEN res ELSE c.res) \in {"none", "ok", "failed"}
    BY <2>1 DEF CallRows
  <2> QED
    BY <2>1, <2>2 DEF CallRows
<1>2. calls' \subseteq CallRows
  BY <1>1 DEF Robot!Arrives
<1> QED
  BY <1>2 DEF GoodRobot, Robot!Arrives, FlyerFits, Can, SlotFits, Robot!Flies

LEMMA RetriesFit ==
    ASSUME RobotAssumption, GoodRobot, Robot!Retry
    PROVE  GoodRobot'
<1>1. PICK s \in Spots :
        /\ robot.retry[s]
        /\ robot' = [robot EXCEPT !.retry[s] = FALSE, !.pending[s] = look[s].file]
        /\ calls' = calls \cup {Robot!Call(s, look[s])}
  BY DEF Robot!Retry
<1>2. SlotFits(robot, s, look) /\ ~robot.gone
  BY DEF GoodRobot, Robot!Retry
<1>3. look[s] \in Robot!Worn /\ look[s].file \in Files /\ look[s].file # "none"
  BY <1>1, <1>2, AskedFor, NoneIs DEF SlotFits, GoodRobot
<1> DEFINE f == [robot.pending EXCEPT ![s] = look[s].file]
           g == [robot.retry EXCEPT ![s] = FALSE]
           z == [robot EXCEPT !.retry = g, !.pending = f]
<1>4. /\ f \in [Spots -> Files \cup {"none"}] /\ f[s] = look[s].file
      /\ \A t \in Spots : t # s => f[t] = robot.pending[t]
  BY <1>3, WornIs DEF GoodRobot
<1>5. g \in [Spots -> BOOLEAN] /\ g[s] = FALSE /\ \A t \in Spots : t # s => g[t] = robot.retry[t]
  BY WornIs DEF GoodRobot
<1>6. robot' = z
  BY <1>1
<1> HIDE DEF f, g
<1>7. /\ z \in Robot!Wearing /\ z.worn = robot.worn /\ z.pending = f /\ z.retry = g
      /\ z.over = robot.over /\ z.gone = robot.gone
  BY <1>4, <1>5 DEF GoodRobot, Robot!Wearing
<1> HIDE DEF z
<1>8. ASSUME NEW t \in Spots
      PROVE  SlotFits(z, t, look)
  <2>1. SlotFits(robot, t, look)
    BY <1>2 DEF GoodRobot
  <2>2. CASE t = s
    BY <1>1, <1>2, <1>4, <1>5, <1>7, <2>2, <1>3 DEF SlotFits
  <2>3. CASE t # s
    BY <1>4, <1>5, <1>7, <2>1, <2>3 DEF SlotFits
  <2> QED
    BY <2>2, <2>3
<1>9. FlyerFits(z)
  BY <1>7 DEF GoodRobot, FlyerFits, Can, Robot!Flies
<1>10. calls' \subseteq CallRows
  BY <1>1, <1>3, CallFits DEF GoodRobot
<1>11. look' = look
  BY DEF Robot!Retry
<1> QED
  BY <1>6, <1>7, <1>8, <1>9, <1>10, <1>11 DEF GoodRobot

(* A continuation that is still waited for, with its file in.              *)
LEMMA WearingFits ==
    ASSUME RobotAssumption, GoodRobot, ~robot.gone, NEW c \in calls,
           robot.pending[c.slot] = c.w.file,
           NEW r, r = [robot EXCEPT !.pending[c.slot] = "none"],
           robot' = Robot!Place([Robot!Drop(r, c.slot, look) EXCEPT !.worn[c.slot] = c.w], c.slot,
                                IF look[c.slot].file = c.w.file THEN look[c.slot] ELSE c.w, look)
    PROVE  /\ robot' \in Robot!Wearing /\ FlyerFits(robot)'
           /\ \A s \in Spots : SlotFits(robot', s, look)
<1>1. c \in CallRows /\ c.slot \in Spots /\ c.w \in Robot!Worn /\ c.w.file # "none"
  BY NoneIs DEF GoodRobot, CallRows
<1> DEFINE s == c.slot
           f == [robot.pending EXCEPT ![s] = "none"]
           d == Robot!Drop(r, s, look)
           e == [d EXCEPT !.worn[s] = c.w]
           x == Robot!Place(e, s, look[s], look)
<1>2. robot \in Robot!Wearing /\ look \in Robot!Asking /\ SlotFits(robot, s, look) /\ FlyerFits(robot)
  BY <1>1 DEF GoodRobot
<1>3. look[s].file = c.w.file /\ robot.worn[s] = Robot!None /\ ~robot.retry[s]
  BY <1>1, <1>2 DEF SlotFits
<1>4. look[s] \in Robot!Worn
  BY <1>1, <1>2, <1>3, AskedFor, NoneIs
<1>5. /\ f \in [Spots -> Files \cup {"none"}] /\ f[s] = "none"
      /\ \A t \in Spots : t # s => f[t] = robot.pending[t]
  BY <1>1, <1>2, WornIs
<1>6. /\ r \in Robot!Wearing /\ r.worn = robot.worn /\ r.pending = f /\ r.retry = robot.retry
      /\ r.over = robot.over /\ r.gone = robot.gone
  <2>1. r = [robot EXCEPT !.pending = f]
    OBVIOUS
  <2> HIDE DEF f
  <2> QED
    BY <1>2, <1>5, <2>1 DEF Robot!Wearing
<1>7. Dropped(d, r, s, look)
  BY <1>1, <1>6, Drops
<1>8. ~Can(robot, s)
  BY <1>3 DEF Can, Robot!Flies
<1>9. robot.over # s
  BY <1>8, <1>1 DEF GoodRobot, FlyerFits, RobotAssumption
<1>10. d \in Robot!Wearing /\ d.over = robot.over
  BY <1>6, <1>7, <1>9 DEF Dropped, DropOver, SameElse
<1> HIDE DEF d
<1>11. SameElse(e, d, s) /\ e.worn[s] = c.w /\ e.pending = d.pending /\ e.retry = d.retry /\ e.over = d.over
  BY <1>1, <1>10, PutOn
<1>12. e \in Robot!Wearing /\ e.worn[s] # Robot!None
  BY <1>1, <1>11, NoneIs DEF SameElse
<1> HIDE DEF e
<1>13. Placed(x, e, s, look[s], look)
  BY <1>1, <1>4, <1>12, Places
<1>14. robot' = x
  BY <1>3 DEF d, e, x
<1> HIDE DEF x
<1>15. x.worn[s] = look[s]
  BY <1>3, <1>4, <1>11, <1>13, OneLook DEF Placed
<1>16. x.pending[s] = "none" /\ ~x.retry[s] /\ x.over = PlaceOver(x, robot.over, s, look[s], look)
  BY <1>3, <1>5, <1>6, <1>7, <1>10, <1>11, <1>13 DEF Placed, Dropped
<1>17. /\ x \in Robot!Wearing
       /\ \A t \in Spots : t # s => /\ x.worn[t] = robot.worn[t]
                                    /\ x.pending[t] = robot.pending[t] /\ x.retry[t] = robot.retry[t]
  BY <1>5, <1>6, <1>7, <1>11, <1>13 DEF Placed, Dropped, SameElse
<1>18. ASSUME NEW t \in Spots
       PROVE  SlotFits(x, t, look)
  <2>1. CASE t = s
    BY <1>4, <1>15, <1>16, <2>1, NoneIs DEF SlotFits
  <2>2. CASE t # s
    <3>1. SlotFits(robot, t, look)
      BY DEF GoodRobot
    <3> QED
      BY <1>17, <2>2, <3>1 DEF SlotFits
  <2> QED
    BY <2>1, <2>2
<1>19. FlyerFits(x)
  <2>1. \A t \in Spots : t # s => (Can(x, t) <=> Can(robot, t))
    BY <1>17 DEF Can, Robot!Flies
  <2>2. Can(x, s) <=> Robot!Flies(x, s, look[s])
    BY <1>1, <1>15 DEF Can
  <2>3. CASE s = "head"
    <3>1. x.over = IF Can(x, "head") THEN "head" ELSE robot.over
      BY <1>9, <1>16, <2>2, <2>3 DEF PlaceOver
    <3>2. Can(x, "accessory") <=> Can(robot, "accessory")
      BY <2>1, <2>3 DEF Can
    <3> QED
      BY <1>2, <1>8, <2>3, <3>1, <3>2 DEF FlyerFits
  <2>4. CASE s = "accessory"
    <3>1. Can(x, "head") <=> Can(robot, "head")
      BY <2>1, <2>4 DEF Can
    <3>2. x.over = IF robot.over = "head" THEN robot.over
                   ELSE IF Can(x, "accessory") THEN "accessory" ELSE robot.over
      BY <1>9, <1>16, <2>2, <2>4 DEF PlaceOver
    <3> QED
      BY <1>2, <1>8, <2>4, <3>1, <3>2 DEF FlyerFits
  <2>5. CASE s \notin {"head", "accessory"}
    <3>1. (Can(x, "head") <=> Can(robot, "head")) /\ (Can(x, "accessory") <=> Can(robot, "accessory"))
      BY <2>1, <2>5 DEF Can
    <3>2. x.over = robot.over
      BY <1>16, <2>5 DEF PlaceOver
    <3> QED
      BY <1>2, <3>1, <3>2 DEF FlyerFits
  <2> QED
    BY <2>3, <2>4, <2>5
<1> QED
  BY <1>14, <1>17, <1>18, <1>19 DEF FlyerFits, Can, Robot!Flies

LEMMA ContinuesFit ==
    ASSUME RobotAssumption, GoodRobot, Robot!Continues
    PROVE  GoodRobot'
<1>1. PICK c \in calls :
        /\ c.res # "none" /\ calls' = calls \ {c}
        /\ robot' =
             IF ~Robot!Wears(c) THEN robot
             ELSE LET r == [robot EXCEPT !.pending[c.slot] = "none"]
                      w == IF look[c.slot].file = c.w.file THEN look[c.slot] ELSE c.w IN
                  IF c.res = "ok"
                  THEN Robot!Place([Robot!Drop(r, c.slot, look) EXCEPT !.worn[c.slot] = c.w],
                                   c.slot, w, look)
                  ELSE [r EXCEPT !.retry[c.slot] = TRUE]
  BY DEF Robot!Continues
<1>2. look' = look /\ calls' \subseteq CallRows
  BY <1>1 DEF GoodRobot, Robot!Continues
<1>3. CASE ~Robot!Wears(c)
  BY <1>1, <1>2, <1>3 DEF GoodRobot, FlyerFits, Can, Robot!Flies
<1> DEFINE r == [robot EXCEPT !.pending[c.slot] = "none"]
<1>4. CASE Robot!Wears(c) /\ c.res = "ok"
  <2>1. robot' = Robot!Place([Robot!Drop(r, c.slot, look) EXCEPT !.worn[c.slot] = c.w], c.slot,
                             IF look[c.slot].file = c.w.file THEN look[c.slot] ELSE c.w, look)
    BY <1>1, <1>4
  <2>2. ~robot.gone /\ robot.pending[c.slot] = c.w.file
    BY <1>4 DEF Robot!Wears, Robot!Waited
  <2>3. robot' \in Robot!Wearing /\ FlyerFits(robot)' /\ \A s \in Spots : SlotFits(robot', s, look)
    BY <2>1, <2>2, WearingFits
  <2> QED
    BY <1>2, <2>3 DEF GoodRobot
<1>5. CASE Robot!Wears(c) /\ c.res # "ok"
  <2> DEFINE s == c.slot
             f == [robot.pending EXCEPT ![s] = "none"]
             g == [robot.retry EXCEPT ![s] = TRUE]
             z == [robot EXCEPT !.pending = f, !.retry = g]
  <2>1. robot' = [r EXCEPT !.retry[s] = TRUE]
    BY <1>1, <1>5
  <2>2. robot \in Robot!Wearing /\ s \in Spots /\ c.w \in Robot!Worn /\ c.w.file # "none"
    BY NoneIs DEF GoodRobot, CallRows
  <2>3. ~robot.gone /\ robot.pending[s] = c.w.file /\ SlotFits(robot, s, look)
    BY <1>5, <2>2 DEF Robot!Wears, Robot!Waited, GoodRobot
  <2>4. /\ f \in [Spots -> Files \cup {"none"}] /\ f[s] = "none"
        /\ \A t \in Spots : t # s => f[t] = robot.pending[t]
    BY <2>2, WornIs
  <2>5. g \in [Spots -> BOOLEAN] /\ g[s] = TRUE /\ \A t \in Spots : t # s => g[t] = robot.retry[t]
    BY <2>2, WornIs
  <2>6. robot' = z
    BY <2>1, <2>2 DEF Robot!Wearing
  <2> HIDE DEF f, g
  <2>7. /\ z \in Robot!Wearing /\ z.worn = robot.worn /\ z.pending = f /\ z.retry = g
        /\ z.over = robot.over /\ z.gone = robot.gone
    BY <2>2, <2>4, <2>5 DEF Robot!Wearing
  <2> HIDE DEF z
  <2>8. ASSUME NEW t \in Spots
        PROVE  SlotFits(z, t, look)
    <3>1. SlotFits(robot, t, look)
      BY <2>3 DEF GoodRobot
    <3>2. CASE t = s
      <4>1. robot.worn[s] = Robot!None /\ look[s].file = c.w.file
        BY <2>2, <2>3 DEF SlotFits
      <4>2. look[s] # Robot!None
        BY <2>2, <4>1, NoneIs
      <4> QED
        BY <2>4, <2>5, <2>7, <3>2, <4>1, <4>2 DEF SlotFits
    <3>3. CASE t # s
      BY <2>4, <2>5, <2>7, <3>1, <3>3 DEF SlotFits
    <3> QED
      BY <3>2, <3>3
  <2>9. FlyerFits(z)
    BY <2>7 DEF GoodRobot, FlyerFits, Can, Robot!Flies
  <2> QED
    BY <1>2, <2>6, <2>7, <2>8, <2>9 DEF GoodRobot
<1> QED
  BY <1>3, <1>4, <1>5

LEMMA DisposeFits ==
    ASSUME RobotAssumption, GoodRobot, Robot!Dispose
    PROVE  GoodRobot'
<1> DEFINE f == [s \in Spots |-> Robot!None]
<1>1. f \in [Spots -> {Robot!None} \cup Robot!Worn] /\ \A s \in Spots : f[s] = Robot!None
  OBVIOUS
<1>2. robot' = [robot EXCEPT !.worn = f, !.over = "none", !.gone = TRUE]
  BY DEF Robot!Dispose
<1> HIDE DEF f
<1>3. robot' \in Robot!Wearing /\ robot'.worn = f /\ robot'.over = "none" /\ robot'.gone
  BY <1>1, <1>2 DEF GoodRobot, Robot!Wearing
<1>4. FlyerFits(robot')
  BY <1>1, <1>3 DEF FlyerFits, Can, Robot!Flies
<1> QED
  BY <1>3, <1>4 DEF GoodRobot, Robot!Dispose

LEMMA RobotStarts == RobotAssumption /\ Robot!Init => GoodRobot
<1> SUFFICES ASSUME RobotAssumption, Robot!Init PROVE GoodRobot
  OBVIOUS
<1> DEFINE f == [s \in Spots |-> Robot!None]
           g == [s \in Spots |-> "none"]
           h == [s \in Spots |-> FALSE]
<1>1. /\ f \in [Spots -> {Robot!None} \cup Robot!Worn] /\ \A s \in Spots : f[s] = Robot!None
      /\ g \in [Spots -> Files \cup {"none"}] /\ \A s \in Spots : g[s] = "none"
      /\ h \in [Spots -> BOOLEAN] /\ \A s \in Spots : h[s] = FALSE
  OBVIOUS
<1>2. look = f /\ calls = {}
      /\ robot = [worn |-> f, pending |-> g, retry |-> h, over |-> "none", gone |-> FALSE]
  BY DEF Robot!Init
<1> HIDE DEF f, g, h
<1>3. robot \in Robot!Wearing
  <2>1. "none" \in {"none", "head", "accessory"} /\ FALSE \in BOOLEAN
    OBVIOUS
  <2> QED
    BY <1>1, <1>2, <2>1, Zenon DEF Robot!Wearing
<1>4. robot.worn = f /\ robot.pending = g /\ robot.retry = h /\ robot.over = "none"
  BY <1>2
<1>5. look \in Robot!Asking
  BY <1>1, <1>2 DEF Robot!Asking, Robot!Looks
<1>6. \A s \in Spots : SlotFits(robot, s, look)
  BY <1>1, <1>2, <1>4 DEF SlotFits
<1>7. FlyerFits(robot)
  BY <1>1, <1>4 DEF FlyerFits, Can, Robot!Flies
<1> QED
  BY <1>2, <1>3, <1>5, <1>6, <1>7 DEF GoodRobot

LEMMA RobotStays == RobotAssumption /\ GoodRobot /\ [Robot!Next]_(Robot!vars) => GoodRobot'
<1> SUFFICES ASSUME RobotAssumption, GoodRobot, [Robot!Next]_(Robot!vars) PROVE GoodRobot'
  OBVIOUS
<1>1. CASE Robot!SetLook \/ Robot!Continues \/ Robot!Retry \/ Robot!Dispose
  BY <1>1, LookSets, ContinuesFit, RetriesFit, DisposeFits
<1>2. CASE Robot!FileArrives \/ Robot!FileFails
  <2>1. \E f \in Files, res \in {"ok", "failed"} : Robot!Arrives(f, res)
    BY <1>2 DEF Robot!FileArrives, Robot!FileFails
  <2> QED
    BY <2>1, ArrivalsFit
<1>3. CASE Robot!FailureExpires \/ UNCHANGED Robot!vars
  BY <1>3 DEF Robot!FailureExpires, Robot!vars, GoodRobot, FlyerFits, Can, SlotFits, Robot!Flies
<1> QED
  BY <1>1, <1>2, <1>3 DEF Robot!Next

LEMMA RobotIsDressed == GoodRobot => Robot!WearsItsLook /\ Robot!FlyerWhereItBelongs
BY DEF GoodRobot, SlotFits, FlyerFits, Can, Robot!WearsItsLook, Robot!FlyerWhereItBelongs

(* However files come, fail and are asked for again while the look         *)
(* changes, a robot wears nothing but its look, placed as it says now; and *)
(* what flies is over the head where it asks for it, else over the         *)
(* accessory.                                                              *)
THEOREM LooksAreWorn ==
    RobotAssumption => (Robot!Spec => [](Robot!WearsItsLook /\ Robot!FlyerWhereItBelongs))
<1> SUFFICES ASSUME RobotAssumption
             PROVE  Robot!Spec => [](Robot!WearsItsLook /\ Robot!FlyerWhereItBelongs)
  OBVIOUS
<1>1. Robot!Init => GoodRobot
  BY RobotStarts
<1>2. GoodRobot /\ [Robot!Next]_(Robot!vars) => GoodRobot'
  BY RobotStays
<1> QED
  BY <1>1, <1>2, RobotIsDressed, PTL DEF Robot!Spec

-----------------------------------------------------------------------------
(* The admin's draft of a passed proposal's task. *)

FormRows == [form : Desk!Drafts, followed : Desk!Drafts, replaced : Desk!Drafts,
             filled : Desk!Drafts, step : {"none", "end", "close", "again"}]
DraftOps == [kind : {"none", "end", "close", "again", "save", "save-publish", "publish"},
             st : {"none", "out", "ok", "no", "lost"}, text : Desk!Drafts]
Traces == [put : Desk!Drafts, saved : SUBSET Desk!Drafts, jobs : Nat]

(* FORGE's copy q: a draft marked saved is one an admin saved, the house   *)
(* never writes over it, and what is published was saved.                  *)
DraftFits(q, g) ==
    /\ q \in Desk!Details
    /\ q.saved => q.state \in {"passed", "building"} /\ q.draft \in g.saved
    /\ q.task # "none" => q.task \in g.saved

(* A publish leaves only after its save was taken.                         *)
PublishFits(o, q) ==
    /\ o \in DraftOps /\ (o.st # "none" => o.kind # "none")
    /\ o.kind = "publish" => q.saved
    /\ o.kind = "save-publish" /\ o.st = "ok" => q.saved

GoodDesk ==
    /\ DraftFits(api, ghost) /\ PublishFits(op, api)
    /\ seen \in Desk!Details /\ desk \in FormRows /\ ghost \in Traces
    /\ Desk!FormKept

LEMMA DraftWords ==
    /\ "none" \in Desk!Drafts /\ "plain" \in Desk!Drafts
    /\ Specs \subseteq Desk!Drafts /\ Mine \subseteq Desk!Drafts /\ Theirs \subseteq Desk!Drafts
BY DEF Desk!Drafts, Desk!Texts

LEMMA DetailsHave ==
    ASSUME NEW q \in Desk!Details
    PROVE  /\ q.draft \in Desk!Drafts /\ q.task \in Desk!Drafts /\ q.saved \in BOOLEAN
           /\ q.house \in Desk!Houses /\ q.house.spec \in Desk!Drafts
           /\ q.state \in {"debate", "voting", "failed", "passed", "building"}
BY DEF Desk!Details, Desk!Houses

(* A render leaves alone whatever the admin put in the form.               *)
LEMMA RenderFits ==
    ASSUME NEW d \in FormRows, NEW q \in Desk!Details
    PROVE  /\ Desk!Rendered(d, q) \in FormRows
           /\ d.form \notin {"none", "plain"} => Desk!Rendered(d, q).form = d.form
<1>1. q.draft \in Desk!Drafts /\ "none" \in Desk!Drafts
  BY DetailsHave, DraftWords
<1> DEFINE t == q.draft
           a == [d EXCEPT !.form = t, !.followed = t]
           b == [d EXCEPT !.form = t, !.followed = t, !.replaced = "none"]
           c == [d EXCEPT !.followed = t]
<1>2. Desk!Rendered(d, q) =
        IF ~Desk!Drafting(q) THEN d ELSE IF d.form = "none" THEN a
        ELSE IF Desk!Follows(d, t) THEN b ELSE c
  BY DEF Desk!Rendered
<1>3. Desk!Follows(d, t) => d.form = "plain"
  BY DEF Desk!Follows, Desk!Plain
<1>4. a \in FormRows /\ b \in FormRows /\ c \in FormRows /\ c.form = d.form
  <2>1. t \in Desk!Drafts
    BY <1>1
  <2> HIDE DEF t
  <2> QED
    BY <1>1, <2>1 DEF FormRows
<1> HIDE DEF a, b, c
<1> QED
  BY <1>2, <1>3, <1>4

LEMMA ReadKeepsForm ==
    ASSUME NEW d \in FormRows, NEW q \in Desk!Details, d.form = desk.form, GoodDesk,
           desk' = Desk!Rendered(d, q), ghost' = ghost
    PROVE  desk' \in FormRows /\ Desk!FormKept'
<1>1. desk' \in FormRows /\ (d.form \notin {"none", "plain"} => desk'.form = d.form)
  BY RenderFits
<1> QED
  BY <1>1 DEF GoodDesk, Desk!FormKept

LEMMA PagesFit ==
    ASSUME GoodDesk, Desk!Poll \/ Desk!OpenStep \/ Desk!NotYet \/ Desk!Answered
    PROVE  GoodDesk'
<1>1. /\ DraftFits(api, ghost) /\ PublishFits(op, api) /\ seen \in Desk!Details
      /\ desk \in FormRows /\ ghost \in Traces /\ Desk!FormKept /\ api \in Desk!Details
  BY DEF GoodDesk, DraftFits
<1>2. UNCHANGED <<api, ghost>>
  BY DEF Desk!Poll, Desk!OpenStep, Desk!NotYet, Desk!Answered
<1>3. PublishFits(op, api)'
  <2>1. CASE Desk!Answered
    <3>1. op' = [kind |-> "none", st |-> "none", text |-> "none"]
      BY <2>1 DEF Desk!Answered, Desk!NoOp
    <3>2. /\ "none" \in {"none", "end", "close", "again", "save", "save-publish", "publish"}
          /\ "none" \in {"none", "out", "ok", "no", "lost"} /\ "none" \in Desk!Drafts
      BY DraftWords
    <3>3. op' \in DraftOps
      BY <3>1, <3>2, Zenon DEF DraftOps
    <3> QED
      BY <3>1, <3>3 DEF PublishFits
  <2>2. CASE Desk!Poll \/ Desk!OpenStep \/ Desk!NotYet
    BY <1>1, <1>2, <2>2 DEF Desk!Poll, Desk!OpenStep, Desk!NotYet, PublishFits
  <2> QED
    BY <2>1, <2>2
<1>4. seen' \in Desk!Details /\ desk' \in FormRows /\ Desk!FormKept'
  <2>1. CASE Desk!Poll
    <3>1. seen' = api /\ desk' = Desk!Rendered(desk, api)
      BY <2>1 DEF Desk!Poll, Desk!Reads
    <3> QED
      BY <1>1, <1>2, <3>1, ReadKeepsForm
  <2>2. CASE Desk!OpenStep \/ Desk!NotYet
    <3>1. PICK s \in {"none", "end", "close", "again"} : desk' = [desk EXCEPT !.step = s]
      BY <2>2 DEF Desk!OpenStep, Desk!NotYet
    <3>2. desk' \in FormRows /\ desk'.form = desk.form
      BY <1>1, <3>1 DEF FormRows
    <3> QED
      BY <1>1, <1>2, <2>2, <3>2 DEF Desk!OpenStep, Desk!NotYet, Desk!FormKept
  <2>3. CASE Desk!Answered
    <3>1. \A went \in BOOLEAN : Desk!Closes(went) \in FormRows /\ Desk!Closes(went).form = desk.form
      <4> TAKE went \in BOOLEAN
      <4>1. PICK s \in {"none", "end", "close", "again"} : Desk!Closes(went) = [desk EXCEPT !.step = s]
        <5>1. (IF went /\ op.kind = desk.step THEN "none" ELSE desk.step)
                \in {"none", "end", "close", "again"}
          BY <1>1 DEF FormRows
        <5> QED
          BY <5>1 DEF Desk!Closes
      <4> QED
        BY <1>1, <4>1 DEF FormRows
    <3>2. CASE Desk!Reads(api, Desk!Closes(op.st = "ok"))
      <4>1. seen' = api /\ desk' = Desk!Rendered(Desk!Closes(op.st = "ok"), api)
        BY <3>2 DEF Desk!Reads
      <4>2. (op.st = "ok") \in BOOLEAN
        OBVIOUS
      <4>3. Desk!Closes(op.st = "ok") \in FormRows /\ Desk!Closes(op.st = "ok").form = desk.form
        BY <3>1, <4>2
      <4> QED
        BY <1>1, <1>2, <4>1, <4>3, ReadKeepsForm
    <3>3. CASE seen' = seen /\ desk' = Desk!Closes(FALSE)
      <4>1. desk' \in FormRows /\ desk'.form = desk.form
        BY <3>1, <3>3
      <4> QED
        BY <1>1, <1>2, <3>3, <4>1 DEF Desk!FormKept
    <3> QED
      BY <2>3, <3>2, <3>3 DEF Desk!Answered
  <2> QED
    BY <2>1, <2>2, <2>3
<1>5. DraftFits(api, ghost)' /\ ghost' \in Traces
  BY <1>1, <1>2 DEF DraftFits
<1> QED
  BY <1>3, <1>4, <1>5 DEF GoodDesk

(* The form's own changes.                                                 *)
LEMMA PutFits ==
    ASSUME NEW g \in Traces, NEW t \in Desk!Drafts
    PROVE  [g EXCEPT !.put = t] \in Traces /\ [g EXCEPT !.put = t].saved = g.saved
           /\ [g EXCEPT !.put = t].put = t
BY DEF Traces

LEMMA FormsFit ==
    ASSUME GoodDesk, Desk!Edit \/ Desk!UseHouse \/ Desk!Undo
    PROVE  GoodDesk'
<1>1. /\ DraftFits(api, ghost) /\ PublishFits(op, api) /\ seen \in Desk!Details
      /\ desk \in FormRows /\ ghost \in Traces
  BY DEF GoodDesk
<1>2. UNCHANGED <<api, seen, op>>
  BY DEF Desk!Edit, Desk!UseHouse, Desk!Undo
<1>3. desk.form \in Desk!Drafts /\ desk.replaced \in Desk!Drafts /\ "none" \in Desk!Drafts
      /\ seen.house.spec \in Desk!Drafts
  BY <1>1, DraftWords, DetailsHave DEF FormRows
<1>4. PICK t \in Desk!Drafts :
        /\ ghost' = [ghost EXCEPT !.put = t]
        /\ desk' \in FormRows /\ desk'.form = t
  <2>1. CASE Desk!Edit
    <3>1. PICK t \in Mine \cup {"plain"} :
            desk' = [desk EXCEPT !.form = t, !.replaced = "none"] /\ ghost' = [ghost EXCEPT !.put = t]
      BY <2>1 DEF Desk!Edit
    <3>2. t \in Desk!Drafts
      BY <3>1, DraftWords
    <3>3. desk' \in FormRows /\ desk'.form = t
      BY <1>1, <1>3, <3>1, <3>2 DEF FormRows
    <3> QED
      BY <3>1, <3>2, <3>3
  <2>2. CASE Desk!UseHouse
    <3> DEFINE t == seen.house.spec
               r == IF desk.form = seen.draft THEN "none" ELSE desk.form
    <3>1. /\ desk' = [desk EXCEPT !.replaced = r, !.form = t, !.filled = t]
          /\ ghost' = [ghost EXCEPT !.put = t]
      BY <2>2 DEF Desk!UseHouse
    <3>2. r \in Desk!Drafts /\ t \in Desk!Drafts
      BY <1>3
    <3> HIDE DEF r, t
    <3>3. desk' \in FormRows /\ desk'.form = t
      BY <1>1, <3>1, <3>2 DEF FormRows
    <3> QED
      BY <3>1, <3>2, <3>3
  <2>3. CASE Desk!Undo
    <3> DEFINE t == desk.replaced
    <3>1. desk' = [desk EXCEPT !.form = t, !.replaced = "none"] /\ ghost' = [ghost EXCEPT !.put = t]
      BY <2>3 DEF Desk!Undo
    <3>2. t \in Desk!Drafts
      BY <1>3
    <3> HIDE DEF t
    <3>3. desk' \in FormRows /\ desk'.form = t
      BY <1>1, <1>3, <3>1, <3>2 DEF FormRows
    <3> QED
      BY <3>1, <3>2, <3>3
  <2> QED
    BY <2>1, <2>2, <2>3
<1>5. ghost' \in Traces /\ ghost'.saved = ghost.saved /\ ghost'.put = t
  BY <1>1, <1>4, PutFits
<1>6. DraftFits(api, ghost)'
  BY <1>1, <1>2, <1>5 DEF DraftFits
<1>7. PublishFits(op, api)'
  BY <1>1, <1>2 DEF PublishFits
<1> QED
  BY <1>1, <1>2, <1>4, <1>5, <1>6, <1>7 DEF GoodDesk, Desk!FormKept

(* FORGE's copy q, with the trace g, may follow the one it has.            *)
MayFollow(q, g) ==
    /\ DraftFits(q, g) /\ (api.saved => q.saved)
    /\ g \in Traces /\ g.put = ghost.put

LEMMA DraftMoves ==
    ASSUME GoodDesk, MayFollow(api', ghost'), PublishFits(op', api'), UNCHANGED <<seen, desk>>
    PROVE  GoodDesk'
BY DEF GoodDesk, MayFollow, Desk!FormKept

LEMMA DraftIs ==
    ASSUME GoodDesk
    PROVE  /\ api \in Desk!Details /\ ghost \in Traces /\ desk \in FormRows /\ op \in DraftOps
           /\ ghost.saved \in SUBSET Desk!Drafts /\ ghost.jobs \in Nat
           /\ api.saved => api.state \in {"passed", "building"} /\ api.draft \in ghost.saved
           /\ api.task # "none" => api.task \in ghost.saved
BY DEF GoodDesk, DraftFits, PublishFits, Traces

LEMMA HousesAre ==
    ASSUME GoodDesk, NEW st \in {"off", "queued", "running", "done", "failed"}, NEW s \in Desk!Drafts
    PROVE  /\ [api.house EXCEPT !.status = st] \in Desk!Houses
           /\ [api.house EXCEPT !.status = st, !.spec = s] \in Desk!Houses
BY DraftIs, DetailsHave DEF Desk!Houses

(* The house's draft moves: the saved one, the state and the task do not.  *)
LEMMA HouseMoves ==
    ASSUME GoodDesk, NEW h \in Desk!Houses, NEW t \in Desk!Drafts, NEW q,
           q = [api EXCEPT !.house = h, !.draft = t], api.saved => t = api.draft
    PROVE  DraftFits(q, ghost) /\ (api.saved => q.saved)
<1>1. /\ q \in Desk!Details /\ q.saved = api.saved /\ q.draft = t /\ q.state = api.state
      /\ q.task = api.task
  BY DraftIs DEF Desk!Details
<1> QED
  BY <1>1, DraftIs DEF DraftFits

LEMMA JobsCount ==
    ASSUME NEW g \in Traces
    PROVE  /\ [g EXCEPT !.jobs = @ + 1] \in Traces
           /\ [g EXCEPT !.jobs = @ + 1].saved = g.saved /\ [g EXCEPT !.jobs = @ + 1].put = g.put
<1>1. g.jobs + 1 \in Nat
  BY DEF Traces
<1> QED
  BY <1>1 DEF Traces

LEMMA AsksAgain ==
    ASSUME GoodDesk, Desk!Asked
    PROVE  MayFollow(api', ghost')
<1> DEFINE h == [api.house EXCEPT !.status = "queued"]
           t == api.draft
<1>1. api' = [api EXCEPT !.house = h] /\ ghost' = [ghost EXCEPT !.jobs = @ + 1]
  BY DEF Desk!Asked
<1>2. h \in Desk!Houses /\ t \in Desk!Drafts
  BY HousesAre, DraftIs, DraftWords, DetailsHave
<1>3. api' = [api EXCEPT !.house = h, !.draft = t]
  <2> HIDE DEF h
  <2> QED
    BY <1>1, DraftIs DEF Desk!Details
<1> HIDE DEF h
<1>4. DraftFits(api', ghost) /\ (api.saved => api'.saved)
  BY <1>2, <1>3, HouseMoves
<1> QED
  BY <1>1, <1>4, JobsCount, DraftIs DEF MayFollow, DraftFits

(* An admin's draft is saved.                                              *)
LEMMA SaveFits ==
    ASSUME GoodDesk, NEW t \in Desk!Drafts, api.state = "passed",
           api' = Desk!Saved(t), ghost' = [ghost EXCEPT !.saved = @ \cup {t}]
    PROVE  MayFollow(api', ghost') /\ api'.saved
<1> DEFINE S == ghost.saved \cup {t}
<1>1. S \in SUBSET Desk!Drafts /\ t \in S /\ ghost.saved \subseteq S
  BY DraftIs
<1>2. ghost' = [ghost EXCEPT !.saved = S]
  OBVIOUS
<1> HIDE DEF S
<1>3. ghost' \in Traces /\ ghost'.saved = S /\ ghost'.put = ghost.put
  BY <1>1, <1>2, DraftIs DEF Traces
<1>4. /\ api' \in Desk!Details /\ api'.saved = TRUE /\ api'.draft = t /\ api'.state = api.state
      /\ api'.task = api.task
  BY DraftIs DEF Desk!Saved, Desk!Details
<1> QED
  BY <1>1, <1>3, <1>4, DraftIs DEF MayFollow, DraftFits

(* A draft that was saved is published.                                    *)
LEMMA PublicFits ==
    ASSUME GoodDesk, api.saved, api' = [api EXCEPT !.state = "building", !.task = api.draft],
           ghost' = ghost
    PROVE  MayFollow(api', ghost')
<1>1. api.draft \in Desk!Drafts
  BY DraftIs, DetailsHave
<1>2. /\ api' \in Desk!Details /\ api'.saved = api.saved /\ api'.draft = api.draft
      /\ api'.state = "building" /\ api'.task = api.draft
  BY <1>1, DraftIs DEF Desk!Details
<1> QED
  BY <1>2, DraftIs DEF MayFollow, DraftFits

(* A period ends, by a button or by itself.                                *)
LEMMA PeriodFits ==
    ASSUME GoodDesk, api.state \in {"debate", "voting"}, ghost' = ghost,
           \/ api' = Desk!Passed
           \/ \E s \in {"voting", "failed"} : api' = [api EXCEPT !.state = s]
           \/ api' = [api EXCEPT !.test = FALSE]
    PROVE  MayFollow(api', ghost')
<1>1. ~api.saved
  BY DraftIs
<1>2. api' \in Desk!Details /\ api'.saved = api.saved /\ api'.task = api.task
  <2>1. CASE api' = Desk!Passed
    <3> DEFINE h == Desk!NoHouse
    <3>1. h \in Desk!Houses /\ "plain" \in Desk!Drafts
      <4>1. "queued" \in {"off", "queued", "running", "done", "failed"} /\ "none" \in Desk!Drafts
        BY DraftWords
      <4> QED
        BY <4>1, DraftWords, Zenon DEF Desk!NoHouse, Desk!Houses
    <3>2. api' = [api EXCEPT !.state = "passed", !.draft = "plain", !.house = h]
      BY <2>1 DEF Desk!Passed
    <3> HIDE DEF h
    <3> QED
      BY <3>1, <3>2, DraftIs DEF Desk!Details
  <2>2. CASE \E s \in {"voting", "failed"} : api' = [api EXCEPT !.state = s]
    BY <2>2, DraftIs DEF Desk!Details
  <2>3. CASE api' = [api EXCEPT !.test = FALSE]
    BY <2>3, DraftIs DEF Desk!Details
  <2> QED
    BY <2>1, <2>2, <2>3
<1> QED
  BY <1>1, <1>2, DraftIs DEF MayFollow, DraftFits

LEMMA NothingMoves ==
    ASSUME GoodDesk, UNCHANGED <<api, ghost>>
    PROVE  MayFollow(api', ghost')
BY DraftIs DEF GoodDesk, MayFollow, DraftFits

(* Requests leave.                                                         *)
LEMMA AsksFit ==
    ASSUME GoodDesk, Desk!Confirm \/ Desk!SaveDraft \/ Desk!Publish \/ Desk!ThenPublish
    PROVE  GoodDesk'
<1>1. UNCHANGED <<api, seen, desk, ghost>>
  BY DEF Desk!Confirm, Desk!SaveDraft, Desk!Publish, Desk!ThenPublish
<1>2. CASE Desk!ThenPublish
  <2>1. op' = [op EXCEPT !.kind = "publish", !.st = "out"] /\ api.saved
    BY <1>2 DEF Desk!ThenPublish, GoodDesk, PublishFits
  <2>2. op' \in DraftOps /\ op'.st = "out" /\ op'.kind = "publish"
    BY <2>1, DraftIs DEF DraftOps
  <2>3. PublishFits(op', api')
    BY <1>1, <2>1, <2>2 DEF PublishFits
  <2> QED
    BY <1>1, <2>3, DraftMoves, NothingMoves
<1>3. CASE Desk!Confirm \/ Desk!SaveDraft \/ Desk!Publish
  <2>1. PICK k \in {"end", "close", "again", "save", "save-publish"}, t \in Desk!Drafts :
          op' = [kind |-> k, st |-> "out", text |-> t]
    <3>1. desk.form \in Desk!Drafts /\ "none" \in Desk!Drafts
      BY DraftIs, DraftWords DEF FormRows
    <3>2. CASE Desk!Confirm
      <4>1. op' = [kind |-> desk.step, st |-> "out", text |-> "none"]
        BY <3>2 DEF Desk!Confirm, Desk!NoOp
      <4>2. desk.step \in {"end", "close", "again"}
        BY <3>2, DraftIs DEF Desk!Confirm, FormRows
      <4> QED
        BY <3>1, <4>1, <4>2
    <3>3. CASE Desk!SaveDraft
      <4>1. op' = [kind |-> "save", st |-> "out", text |-> desk.form]
        BY <3>3 DEF Desk!SaveDraft, Desk!NoOp
      <4> QED
        BY <3>1, <4>1
    <3>4. CASE Desk!Publish
      <4>1. op' = [kind |-> "save-publish", st |-> "out", text |-> desk.form]
        BY <3>4 DEF Desk!Publish, Desk!NoOp
      <4> QED
        BY <3>1, <4>1
    <3> QED
      BY <1>3, <3>2, <3>3, <3>4
  <2>2. op' \in DraftOps
    <3>1. /\ k \in {"none", "end", "close", "again", "save", "save-publish", "publish"}
          /\ "out" \in {"none", "out", "ok", "no", "lost"}
      OBVIOUS
    <3> QED
      BY <2>1, <3>1, Zenon DEF DraftOps
  <2>3. op'.kind \notin {"publish", "none"} /\ op'.st = "out"
    BY <2>1
  <2> QED
    BY <1>1, <2>2, <2>3, DraftMoves, NothingMoves DEF PublishFits
<1> QED
  BY <1>2, <1>3

(* FORGE answers.                                                          *)
LEMMA DeskServes ==
    ASSUME GoodDesk, Desk!Serve
    PROVE  GoodDesk'
<1>1. op.st = "out" /\ UNCHANGED <<seen, desk>> /\ op \in DraftOps /\ op.text \in Desk!Drafts
  BY DraftIs DEF Desk!Serve, DraftOps
<1>2. op.kind # "none"
  BY <1>1 DEF GoodDesk, PublishFits
<1>3. CASE \E st \in {"no", "lost"} : op' = [op EXCEPT !.st = st] /\ UNCHANGED <<api, ghost>>
  <2>1. op' \in DraftOps /\ op'.kind = op.kind /\ op'.st # "ok"
    BY <1>1, <1>3 DEF DraftOps
  <2>2. PublishFits(op', api')
    BY <1>2, <1>3, <2>1 DEF GoodDesk, PublishFits
  <2> QED
    BY <1>1, <1>3, <2>2, DraftMoves, NothingMoves
<1>4. CASE \E st \in {"ok", "lost"} : Desk!Took(st) /\ op' = [op EXCEPT !.st = st]
  <2>1. PICK st \in {"ok", "lost"} : Desk!Took(st) /\ op' = [op EXCEPT !.st = st]
    BY <1>4
  <2>2. op' \in DraftOps /\ op'.kind = op.kind
    BY <1>1, <2>1 DEF DraftOps
  <2>3. CASE op.kind \in {"end", "close"}
    <3>1. /\ api.state \in {"debate", "voting"} /\ ghost' = ghost
          /\ \/ api' = Desk!Passed
             \/ \E s \in {"voting", "failed"} : api' = [api EXCEPT !.state = s]
      BY <2>1, <2>3 DEF Desk!Took
    <3>2. MayFollow(api', ghost')
      BY <3>1, PeriodFits
    <3> QED
      BY <1>1, <1>2, <2>2, <2>3, <3>2, DraftMoves DEF PublishFits
  <2>4. CASE op.kind = "again"
    <3>1. MayFollow(api', ghost')
      BY <2>1, <2>4, AsksAgain DEF Desk!Took
    <3> QED
      BY <1>1, <1>2, <2>2, <2>4, <3>1, DraftMoves DEF PublishFits
  <2>5. CASE op.kind \in {"save", "save-publish"}
    <3>1. /\ api.state = "passed" /\ api' = Desk!Saved(op.text)
          /\ ghost' = [ghost EXCEPT !.saved = @ \cup {op.text}]
      BY <2>1, <2>5 DEF Desk!Took, Desk!Drafting
    <3>2. MayFollow(api', ghost') /\ api'.saved
      BY <1>1, <3>1, SaveFits
    <3> QED
      BY <1>1, <1>2, <2>2, <2>5, <3>2, DraftMoves DEF PublishFits
  <2>6. CASE op.kind = "publish"
    <3>1. api.saved
      BY <2>6 DEF GoodDesk, PublishFits
    <3>2. api' = [api EXCEPT !.state = "building", !.task = api.draft] /\ ghost' = ghost
      BY <2>1, <2>6 DEF Desk!Took
    <3>3. MayFollow(api', ghost')
      BY <3>1, <3>2, PublicFits
    <3> QED
      BY <1>1, <1>2, <2>2, <3>1, <3>3, DraftMoves DEF PublishFits, MayFollow
  <2>7. op.kind \in {"end", "close", "again", "save", "save-publish", "publish"}
    BY <1>1, <1>2 DEF DraftOps
  <2> QED
    BY <2>3, <2>4, <2>5, <2>6, <2>7
<1> QED
  BY <1>3, <1>4 DEF Desk!Serve

(* The house model, another admin, the clock.                              *)
LEMMA ElsewhereMoves ==
    ASSUME GoodDesk,
           \/ Desk!HouseStarts \/ Desk!HouseLands \/ Desk!HouseFails
           \/ Desk!OtherSaves \/ Desk!OtherAsks \/ Desk!OtherPublishes \/ Desk!TimeOrSwitch
    PROVE  GoodDesk'
<1>1. UNCHANGED <<seen, desk, op>>
  BY DEF Desk!HouseStarts, Desk!HouseLands, Desk!HouseFails, Desk!OtherSaves, Desk!OtherAsks,
         Desk!OtherPublishes, Desk!TimeOrSwitch
<1>2. ASSUME MayFollow(api', ghost') PROVE GoodDesk'
  <2>1. PublishFits(op', api')
    BY <1>1, <1>2 DEF GoodDesk, PublishFits, MayFollow
  <2> QED
    BY <1>1, <1>2, <2>1, DraftMoves
<1>3. CASE Desk!HouseStarts \/ Desk!HouseFails
  <2>1. PICK st \in {"running", "failed"} : api' = [api EXCEPT !.house.status = st]
    BY <1>3 DEF Desk!HouseStarts, Desk!HouseFails
  <2> DEFINE h == [api.house EXCEPT !.status = st]
             t == api.draft
  <2>2. h \in Desk!Houses /\ t \in Desk!Drafts
    BY HousesAre, DraftIs, DraftWords, DetailsHave
  <2>3. api' = [api EXCEPT !.house = h, !.draft = t]
    <3>1. api' = [api EXCEPT !.house = h]
      BY <2>1
    <3> HIDE DEF h
    <3> QED
      BY <3>1, DraftIs DEF Desk!Details
  <2> HIDE DEF h
  <2>4. DraftFits(api', ghost) /\ (api.saved => api'.saved)
    BY <2>2, <2>3, HouseMoves
  <2> QED
    BY <1>2, <1>3, <2>4, DraftIs DEF MayFollow, Desk!HouseStarts, Desk!HouseFails, DraftFits
<1>4. CASE Desk!HouseLands
  <2>1. PICK s \in Specs :
          api' = [api EXCEPT !.house.status = "done", !.house.spec = s,
                             !.draft = IF api.saved THEN @ ELSE s]
    BY <1>4 DEF Desk!HouseLands
  <2> DEFINE h == [api.house EXCEPT !.status = "done", !.spec = s]
             t == IF api.saved THEN api.draft ELSE s
  <2>2. h \in Desk!Houses /\ t \in Desk!Drafts /\ (api.saved => t = api.draft)
    BY HousesAre, DraftIs, DraftWords, DetailsHave
  <2>3. api' = [api EXCEPT !.house = h, !.draft = t]
    BY <2>1, DraftIs DEF Desk!Details, Desk!Houses
  <2> HIDE DEF h, t
  <2>4. DraftFits(api', ghost) /\ (api.saved => api'.saved)
    BY <2>2, <2>3, HouseMoves
  <2> QED
    BY <1>2, <1>4, <2>4, DraftIs DEF MayFollow, Desk!HouseLands, DraftFits
<1>5. CASE Desk!OtherSaves
  <2>1. PICK t \in Theirs \cup (Specs \cap {api.house.spec}) :
          api' = Desk!Saved(t) /\ ghost' = [ghost EXCEPT !.saved = @ \cup {t}]
    BY <1>5 DEF Desk!OtherSaves
  <2>2. t \in Desk!Drafts /\ api.state = "passed"
    BY <1>5, DraftWords DEF Desk!OtherSaves, Desk!Drafting
  <2> QED
    BY <1>2, <2>1, <2>2, SaveFits
<1>6. CASE Desk!OtherAsks
  BY <1>2, <1>6, AsksAgain DEF Desk!OtherAsks
<1>7. CASE Desk!OtherPublishes
  BY <1>2, <1>7, PublicFits DEF Desk!OtherPublishes
<1>8. CASE Desk!TimeOrSwitch
  <2>1. /\ api.state \in {"debate", "voting"} /\ ghost' = ghost
        /\ \/ api' = Desk!Passed
           \/ \E s \in {"voting", "failed"} : api' = [api EXCEPT !.state = s]
           \/ api' = [api EXCEPT !.test = FALSE]
    BY <1>8 DEF Desk!TimeOrSwitch
  <2> QED
    BY <1>2, <2>1, PeriodFits
<1> QED
  BY <1>3, <1>4, <1>5, <1>6, <1>7, <1>8

LEMMA DeskStarts == Desk!Init => GoodDesk
<1> SUFFICES ASSUME Desk!Init PROVE GoodDesk
  OBVIOUS
<1> DEFINE h == [Desk!NoHouse EXCEPT !.status = "off"]
<1>1. h \in Desk!Houses
  <2>1. h = [status |-> "off", spec |-> "none"]
    BY DEF Desk!NoHouse
  <2>2. "off" \in {"off", "queued", "running", "done", "failed"} /\ "none" \in Desk!Drafts
    BY DraftWords
  <2> QED
    BY <2>1, <2>2, Zenon DEF Desk!Houses
<1>2. api = [state |-> "debate", draft |-> "none", saved |-> FALSE, test |-> TRUE, task |-> "none",
             house |-> h]
  BY DEF Desk!Init
<1> HIDE DEF h
<1>3. api \in Desk!Details
  <2>1. /\ "debate" \in {"debate", "voting", "failed", "passed", "building"}
        /\ "none" \in Desk!Drafts /\ FALSE \in BOOLEAN /\ TRUE \in BOOLEAN
    BY DraftWords
  <2> QED
    BY <1>1, <1>2, <2>1, Zenon DEF Desk!Details
<1>4. ~api.saved /\ api.task = "none"
  BY <1>2
<1>5. op \in DraftOps /\ op.kind = "none" /\ op.st = "none"
  <2>1. op = [kind |-> "none", st |-> "none", text |-> "none"]
    BY DEF Desk!Init, Desk!NoOp
  <2>2. /\ "none" \in {"none", "end", "close", "again", "save", "save-publish", "publish"}
        /\ "none" \in {"none", "out", "ok", "no", "lost"} /\ "none" \in Desk!Drafts
    BY DraftWords
  <2>3. op \in DraftOps
    BY <2>1, <2>2, Zenon DEF DraftOps
  <2> QED
    BY <2>1, <2>3
<1>6. desk \in FormRows
  <2>1. "none" \in {"none", "end", "close", "again"} /\ "none" \in Desk!Drafts
    BY DraftWords
  <2>2. desk = [form |-> "none", followed |-> "none", replaced |-> "none", filled |-> "none",
                step |-> "none"]
    BY DEF Desk!Init
  <2> QED
    BY <2>1, <2>2, Zenon DEF FormRows
<1>7. ghost \in Traces /\ ghost.put = "none"
  <2>1. "none" \in Desk!Drafts /\ {} \in SUBSET Desk!Drafts /\ 1 \in Nat
    BY DraftWords
  <2>2. ghost = [put |-> "none", saved |-> {}, jobs |-> 1]
    BY DEF Desk!Init
  <2>3. ghost \in Traces
    BY <2>1, <2>2, Zenon DEF Traces
  <2> QED
    BY <2>2, <2>3
<1>8. seen = api
  BY DEF Desk!Init
<1> QED
  BY <1>3, <1>4, <1>5, <1>6, <1>7, <1>8 DEF GoodDesk, DraftFits, PublishFits, Desk!FormKept

LEMMA DeskStays == GoodDesk /\ [Desk!Next]_(Desk!vars) => GoodDesk'
<1> SUFFICES ASSUME GoodDesk, [Desk!Next]_(Desk!vars) PROVE GoodDesk'
  OBVIOUS
<1>1. CASE Desk!Poll \/ Desk!OpenStep \/ Desk!NotYet \/ Desk!Answered
  BY <1>1, PagesFit
<1>2. CASE Desk!Edit \/ Desk!UseHouse \/ Desk!Undo
  BY <1>2, FormsFit
<1>3. CASE Desk!Confirm \/ Desk!SaveDraft \/ Desk!Publish \/ Desk!ThenPublish
  BY <1>3, AsksFit
<1>4. CASE Desk!Serve
  BY <1>4, DeskServes
<1>5. CASE \/ Desk!HouseStarts \/ Desk!HouseLands \/ Desk!HouseFails
           \/ Desk!OtherSaves \/ Desk!OtherAsks \/ Desk!OtherPublishes \/ Desk!TimeOrSwitch
  BY <1>5, ElsewhereMoves
<1>6. CASE UNCHANGED Desk!vars
  BY <1>6 DEF Desk!vars, GoodDesk, DraftFits, PublishFits, Desk!FormKept
<1> QED
  BY <1>1, <1>2, <1>3, <1>4, <1>5, <1>6 DEF Desk!Next

LEMMA DeskIsKept == GoodDesk => Desk!FormKept /\ Desk!PublishedRead
BY DEF GoodDesk, DraftFits, Desk!PublishedRead

(* What an admin last put in the form is what it holds, and what goes on   *)
(* the board is a text an admin saved, whoever else saves, publishes or    *)
(* has the task drafted again meanwhile.                                   *)
THEOREM DraftsAreKept == Desk!Spec => [](Desk!FormKept /\ Desk!PublishedRead)
<1> QED
  BY DeskStarts, DeskStays, DeskIsKept, PTL DEF Desk!Spec

-----------------------------------------------------------------------------
(* The practice floor. *)

PracticeAssumption == Me \in Members /\ Members \ {Me} # {}

SampleRows == [state : {"submitted", "debate", "voting", "passed"}, mover : Members,
               seconder : Members \cup {"none"}, eligible : SUBSET Members,
               consented : SUBSET Members, objected : SUBSET Members, votes : SUBSET Members,
               comments : Nat, quick : SUBSET Members, house : BOOLEAN]

(* The sample that needs a second: the others consent at once to be        *)
(* counted, so that while it is in debate only this account's answer is    *)
(* missing, and nothing else stands against it.                            *)
ThirdFits(q) ==
    /\ q \in SampleRows
    /\ q.mover \in Practice!Others
    /\ q.state = "submitted" =>
         q.quick = Practice!Others \ {q.mover} /\ q.objected = {}
    /\ q.state = "debate" =>
         /\ q.eligible = Members /\ Practice!Others \subseteq q.consented
         /\ q.objected \subseteq {Me}
    /\ q.state = "passed" <=> q.house

GoodFloor == DOMAIN floor = {1, 2, 3} /\ ThirdFits(floor[3])

LEMMA SomeOther ==
    ASSUME PracticeAssumption
    PROVE  /\ Practice!One \in Practice!Others /\ Practice!Others \subseteq Members
           /\ Practice!One \in Members /\ Practice!One # Me
           /\ Members = Practice!Others \cup {Me}
<1>1. \E m \in Practice!Others : TRUE
  BY DEF PracticeAssumption, Practice!Others
<1>2. Practice!One \in Practice!Others
  BY <1>1 DEF Practice!One
<1> QED
  BY <1>2 DEF Practice!Others, PracticeAssumption

(* What a step makes of the sample q.                                      *)
LEMMA SecondFits ==
    ASSUME PracticeAssumption, NEW q, ThirdFits(q), q.state = "submitted", q.mover # Me, NEW r,
           r = [q EXCEPT !.state = "debate", !.seconder = Me, !.eligible = Members,
                         !.consented = {q.mover} \cup ((q.quick \cap Members) \ {q.mover})]
    PROVE  ThirdFits(r)
<1> DEFINE C == {q.mover} \cup ((q.quick \cap Members) \ {q.mover})
<1>1. C \in SUBSET Members /\ Practice!Others \subseteq C
  BY SomeOther DEF ThirdFits, SampleRows
<1>2. r = [q EXCEPT !.state = "debate", !.seconder = Me, !.eligible = Members, !.consented = C]
  OBVIOUS
<1>3. Me \in Members /\ Members \in SUBSET Members
  BY DEF PracticeAssumption
<1> HIDE DEF C
<1> DEFINE h == [q EXCEPT !.state = "debate", !.seconder = Me]
<1>4. /\ h \in SampleRows /\ h.state = "debate" /\ h.mover = q.mover /\ h.objected = q.objected
      /\ h.house = q.house
  BY <1>3 DEF ThirdFits, SampleRows
<1>5. r = [h EXCEPT !.eligible = Members, !.consented = C]
  BY <1>2
<1> HIDE DEF h
<1>6. /\ r \in SampleRows /\ r.state = "debate" /\ r.mover = q.mover /\ r.objected = q.objected
      /\ r.house = q.house /\ r.eligible = Members /\ r.consented = C
  BY <1>1, <1>3, <1>4, <1>5 DEF SampleRows
<1> QED
  BY <1>1, <1>6 DEF ThirdFits

LEMMA ConsentFits ==
    ASSUME PracticeAssumption, NEW q, ThirdFits(q), q.state = "debate", NEW r,
           \/ /\ r = [q EXCEPT !.state = "passed", !.consented = q.consented \cup {Me}, !.house = TRUE]
           \/ /\ r = [q EXCEPT !.consented = q.consented \cup {Me}]
    PROVE  ThirdFits(r)
<1> DEFINE C == q.consented \cup {Me}
<1>1. C \in SUBSET Members /\ (Practice!Others \subseteq q.consented => Practice!Others \subseteq C)
  BY SomeOther DEF ThirdFits, SampleRows, PracticeAssumption
<1>2. CASE r = [q EXCEPT !.state = "passed", !.consented = C, !.house = TRUE]
  <2> HIDE DEF C
  <2>1. r \in SampleRows /\ r.state = "passed" /\ r.mover = q.mover /\ r.house = TRUE
    BY <1>1, <1>2 DEF ThirdFits, SampleRows
  <2> QED
    BY <2>1 DEF ThirdFits
<1>3. CASE r = [q EXCEPT !.consented = C]
  <2> HIDE DEF C
  <2>1. /\ r \in SampleRows /\ r.state = q.state /\ r.mover = q.mover /\ r.objected = q.objected
        /\ r.house = q.house /\ r.eligible = q.eligible /\ r.consented = C
    BY <1>1, <1>3 DEF ThirdFits, SampleRows
  <2> QED
    BY <1>1, <2>1 DEF ThirdFits
<1> QED
  BY <1>2, <1>3

LEMMA ObjectFits ==
    ASSUME PracticeAssumption, NEW q, ThirdFits(q), q.state = "debate", NEW r,
           r = [q EXCEPT !.objected = q.objected \cup {Me}]
    PROVE  ThirdFits(r)
<1> DEFINE O == q.objected \cup {Me}
<1>1. O \in SUBSET Members /\ (q.objected \subseteq {Me} => O \subseteq {Me})
  BY DEF ThirdFits, SampleRows, PracticeAssumption
<1>2. r = [q EXCEPT !.objected = O]
  OBVIOUS
<1> HIDE DEF O
<1>3. /\ r \in SampleRows /\ r.state = q.state /\ r.mover = q.mover /\ r.objected = O
      /\ r.house = q.house /\ r.eligible = q.eligible /\ r.consented = q.consented
  BY <1>1, <1>2 DEF ThirdFits, SampleRows
<1> QED
  BY <1>1, <1>3 DEF ThirdFits

LEMMA TalkFits ==
    ASSUME PracticeAssumption, NEW q, ThirdFits(q), NEW r,
           \/ r = [q EXCEPT !.comments = q.comments + 1]
           \/ r = [q EXCEPT !.votes = q.votes \cup {Me}]
    PROVE  ThirdFits(r)
<1>1. q \in SampleRows /\ q.comments + 1 \in Nat /\ q.votes \cup {Me} \in SUBSET Members
  BY DEF ThirdFits, SampleRows, PracticeAssumption
<1> DEFINE n == q.comments + 1
           V == q.votes \cup {Me}
<1>2. r = [q EXCEPT !.comments = n] \/ r = [q EXCEPT !.votes = V]
  OBVIOUS
<1>3. n \in Nat /\ V \in SUBSET Members
  BY <1>1
<1> HIDE DEF n, V
<1>4. /\ r \in SampleRows /\ r.state = q.state /\ r.mover = q.mover /\ r.objected = q.objected
      /\ r.house = q.house /\ r.eligible = q.eligible /\ r.consented = q.consented
      /\ r.quick = q.quick
  BY <1>1, <1>2, <1>3 DEF SampleRows
<1> QED
  BY <1>4 DEF ThirdFits

(* Any write is refused, or changes one sample.                            *)
LEMMA OneSample ==
    ASSUME GoodFloor, NEW id \in {1, 2, 3}, NEW r, Practice!Changed(id, r),
           id = 3 => ThirdFits(r)
    PROVE  GoodFloor'
<1>1. floor' = [floor EXCEPT ![id] = r]
  BY DEF Practice!Changed
<1>2. DOMAIN floor' = {1, 2, 3} /\ floor'[3] = IF id = 3 THEN r ELSE floor[3]
  BY <1>1 DEF GoodFloor
<1> QED
  BY <1>2 DEF GoodFloor

LEMMA FloorKept ==
    ASSUME PracticeAssumption, GoodFloor, NEW id \in {1, 2, 3},
           \/ Practice!Second(id) \/ Practice!Consent(id) \/ Practice!Object(id)
           \/ Practice!Comment(id) \/ Practice!Vote(id)
    PROVE  GoodFloor'
<1> DEFINE q == floor[id]
<1>1. id = 3 => ThirdFits(q)
  BY DEF GoodFloor
<1>2. CASE UNCHANGED floor
  BY <1>2 DEF GoodFloor
<1>3. CASE Practice!Second(id) /\ ~UNCHANGED floor
  <2> DEFINE r == [q EXCEPT !.state = "debate", !.seconder = Me, !.eligible = Members,
                            !.consented = {q.mover} \cup ((q.quick \cap Members) \ {q.mover})]
  <2>1. q.state = "submitted" /\ q.mover # Me /\ Practice!Changed(id, r)
    BY <1>3 DEF Practice!Second, Practice!Refused
  <2>2. id = 3 => ThirdFits(r)
    <3>1. ASSUME id = 3 PROVE ThirdFits(r)
      <4>1. ThirdFits(q)
        BY <1>1, <3>1
      <4> HIDE DEF q
      <4> QED
        BY <2>1, <4>1, SecondFits
    <3> QED
      BY <3>1
  <2> HIDE DEF r
  <2> QED
    BY <2>1, <2>2, OneSample
<1>4. CASE Practice!Consent(id) /\ ~UNCHANGED floor
  <2> DEFINE r == [q EXCEPT !.state = "passed", !.consented = q.consented \cup {Me}, !.house = TRUE]
             s == [q EXCEPT !.consented = q.consented \cup {Me}]
  <2>1. q.state = "debate" /\ (Practice!Changed(id, r) \/ Practice!Changed(id, s))
    BY <1>4 DEF Practice!Consent, Practice!Refused, Practice!WrongState
  <2>2. id = 3 => ThirdFits(r) /\ ThirdFits(s)
    <3>1. ASSUME id = 3 PROVE ThirdFits(r) /\ ThirdFits(s)
      <4>1. ThirdFits(q)
        BY <1>1, <3>1
      <4> HIDE DEF q
      <4> QED
        BY <2>1, <4>1, ConsentFits
    <3> QED
      BY <3>1
  <2> HIDE DEF r, s
  <2> QED
    BY <2>1, <2>2, OneSample
<1>5. CASE Practice!Object(id) /\ ~UNCHANGED floor
  <2> DEFINE r == [q EXCEPT !.objected = q.objected \cup {Me}]
  <2>1. q.state = "debate" /\ Practice!Changed(id, r)
    BY <1>5 DEF Practice!Object, Practice!Refused, Practice!WrongState
  <2>2. id = 3 => ThirdFits(r)
    <3>1. ASSUME id = 3 PROVE ThirdFits(r)
      <4>1. ThirdFits(q)
        BY <1>1, <3>1
      <4> HIDE DEF q
      <4> QED
        BY <2>1, <4>1, ObjectFits
    <3> QED
      BY <3>1
  <2> HIDE DEF r
  <2> QED
    BY <2>1, <2>2, OneSample
<1>6. CASE (Practice!Comment(id) \/ Practice!Vote(id)) /\ ~UNCHANGED floor
  <2> DEFINE r == [q EXCEPT !.comments = q.comments + 1]
             s == [q EXCEPT !.votes = q.votes \cup {Me}]
  <2>1. Practice!Changed(id, r) \/ Practice!Changed(id, s)
    BY <1>6 DEF Practice!Comment, Practice!Vote, Practice!Refused
  <2>2. id = 3 => ThirdFits(r) /\ ThirdFits(s)
    <3>1. ASSUME id = 3 PROVE ThirdFits(r) /\ ThirdFits(s)
      <4>1. ThirdFits(q)
        BY <1>1, <3>1
      <4> HIDE DEF q
      <4> QED
        BY <4>1, TalkFits
    <3> QED
      BY <3>1
  <2> HIDE DEF r, s
  <2> QED
    BY <2>1, <2>2, OneSample
<1> QED
  BY <1>2, <1>3, <1>4, <1>5, <1>6

LEMMA FloorOpens == PracticeAssumption /\ Practice!Init => GoodFloor
<1> SUFFICES ASSUME PracticeAssumption, Practice!Init PROVE GoodFloor
  OBVIOUS
<1> DEFINE q == Practice!Sample("submitted", Practice!One, {}, {}, {},
                                Practice!Others \ {Practice!One}, FALSE)
           a == Practice!Sample("passed", Practice!One, Practice!Others, {Practice!One},
                                Practice!Others \ {Practice!One}, {}, TRUE)
           b == Practice!Sample("debate", Practice!One, Members, {Practice!One}, {}, {}, FALSE)
<1>1. floor = <<a, b, q>>
  BY DEF Practice!Init, Practice!Samples
<1>2. q = [state |-> "submitted", mover |-> Practice!One, seconder |-> "none", eligible |-> {},
           consented |-> {}, objected |-> {}, votes |-> {}, comments |-> 0,
           quick |-> Practice!Others \ {Practice!One}, house |-> FALSE]
  BY DEF Practice!Sample
<1> HIDE DEF q, a, b
<1>3. DOMAIN floor = {1, 2, 3} /\ floor[3] = q
  BY <1>1
<1>4. q \in SampleRows
  <2>1. /\ "submitted" \in {"submitted", "debate", "voting", "passed"} /\ Practice!One \in Members
        /\ "none" \in Members \cup {"none"} /\ {} \in SUBSET Members /\ 0 \in Nat
        /\ Practice!Others \ {Practice!One} \in SUBSET Members /\ FALSE \in BOOLEAN
    BY SomeOther
  <2> QED
    BY <1>2, <2>1, Zenon DEF SampleRows
<1>5. /\ q.state = "submitted" /\ q.mover = Practice!One /\ q.objected = {} /\ q.house = FALSE
      /\ q.quick = Practice!Others \ {Practice!One}
  BY <1>2
<1> QED
  BY <1>3, <1>4, <1>5, SomeOther DEF GoodFloor, ThirdFits

LEMMA FloorStays ==
    PracticeAssumption /\ GoodFloor /\ [Practice!Next]_(Practice!vars) => GoodFloor'
<1> SUFFICES ASSUME PracticeAssumption, GoodFloor, [Practice!Next]_(Practice!vars)
             PROVE  GoodFloor'
  OBVIOUS
<1>1. CASE Practice!FloorSteps
  <2>1. Practice!Ids = {1, 2, 3}
    BY DEF Practice!Ids
  <2> QED
    BY <1>1, <2>1, FloorKept DEF Practice!FloorSteps
<1>2. CASE Practice!RunSteps
  <2>1. floor' = floor
    BY <1>2 DEF Practice!RunSteps, Practice!Claim, Practice!Dispatch, Practice!Copy,
                Practice!Review, Practice!Feedback, Practice!Release, Practice!NotTheHolder,
                Practice!Passes
  <2> QED
    BY <2>1 DEF GoodFloor
<1>3. CASE UNCHANGED Practice!vars
  BY <1>3 DEF Practice!vars, GoodFloor
<1> QED
  BY <1>1, <1>2, <1>3 DEF Practice!Next

LEMMA FloorIsWalked == PracticeAssumption /\ GoodFloor => Practice!WalkThrough
<1> SUFFICES ASSUME PracticeAssumption, GoodFloor PROVE Practice!WalkThrough
  OBVIOUS
<1> DEFINE q == floor[3]
<1>1. ThirdFits(q) /\ Members = Practice!Others \cup {Me}
  BY SomeOther DEF GoodFloor
<1>2. q.state = "submitted" => Practice!You(q).canSecond
  BY <1>1 DEF ThirdFits, Practice!You, Practice!Others
<1>3. Practice!You(q).canConsent => Practice!Everyone(q, q.consented \cup {Me})
  <2> SUFFICES ASSUME Practice!You(q).canConsent PROVE Practice!Everyone(q, q.consented \cup {Me})
    OBVIOUS
  <2>1. q.state = "debate" /\ Me \in q.eligible /\ ~Practice!Answered(q)
    BY DEF Practice!You
  <2>2. q.objected = {} /\ q.eligible \subseteq q.consented \cup {Me}
    BY <1>1, <2>1 DEF ThirdFits, Practice!Answered
  <2> QED
    BY <2>2 DEF Practice!Everyone
<1>4. q.state = "passed" <=> q.house
  BY <1>1 DEF ThirdFits
<1> HIDE DEF q
<1>5. q = floor[3]
  BY DEF q
<1> QED
  BY <1>2, <1>3, <1>4, <1>5 DEF Practice!WalkThrough

(* Whatever else is pressed, in any order: the practice proposal that      *)
(* needs a second can be seconded, and in debate lacks only this account's *)
(* consent, which passes it.                                               *)
THEOREM WalkIsAsTold == PracticeAssumption => (Practice!Spec => []Practice!WalkThrough)
<1> SUFFICES ASSUME PracticeAssumption PROVE Practice!Spec => []Practice!WalkThrough
  OBVIOUS
<1>1. Practice!Init => GoodFloor
  BY FloorOpens
<1>2. GoodFloor /\ [Practice!Next]_(Practice!vars) => GoodFloor'
  BY FloorStays
<1>3. GoodFloor => Practice!WalkThrough
  BY FloorIsWalked
<1> QED
  BY <1>1, <1>2, <1>3, PTL DEF Practice!Spec

=============================================================================
