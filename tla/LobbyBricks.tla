----------------------------- MODULE LobbyBricks -----------------------------
(***************************************************************************)
(* Building with bricks in the cave: the API's rows, revisions and         *)
(* tombstones, and one browser's copy of them while other members write.   *)
(* It reads what changed since the revision it has, shows its own writes   *)
(* before they are answered and takes them back when they are refused.     *)
(* Reads and writes are out at the same time, answers come in any order or *)
(* not at all, a hold lapses, and a tombstone is forgotten after a day.    *)
(***************************************************************************)
EXTENDS Integers, FiniteSets, Sequences, SequencesExt

CONSTANTS Me,         \* the member whose browser this is
          Others,     \* members who build from browsers of their own
          Makers,     \* those of them who make bricks (the Lego bot, a stand-in)
          Bricks,     \* ids the API gives out: 1..n
          MaxRev,     \* revisions of the cave
          Reach,      \* BRICK.radius, in studs
          MaxPlates,  \* BRICK.maxPlates
          Rings,      \* how far floorSpot looks
          Kinds,      \* the shapes the Lego bot picks
          Rots,       \* the turns bricks are left at
          Columns,    \* the columns of studs members stand before
          Plan        \* the blueprint's bricks, one per id it takes

VARIABLES
  api,   \* rows, rev and floor: lobby_bricks and its meta
  aged,  \* bricks held longer than HOLD_LAPSE
  copy,  \* the browser's bricks, its rev, and those it has written to itself
  op,    \* its write (busy), from the press to the answer
  read   \* its read: asked, its answer, again

vars == <<api, aged, copy, op, read>>

-----------------------------------------------------------------------------
\* The stud grid: where bricks sit, [shape, x, y, z, rot], and what of it they take up.
brickShape(id) ==
  LET S(sx, sz, h) == [sx |-> sx, sz |-> sz, h |-> h, slope |-> id = "slope-2x2"]
  IN  CASE id = "brick-1x1" -> S(1, 1, 3)
        [] id = "brick-1x2" -> S(2, 1, 3)
        [] id = "brick-1x4" -> S(4, 1, 3)
        [] id \in {"brick-2x2", "slope-2x2"} -> S(2, 2, 3)
        [] id = "brick-2x4" -> S(4, 2, 3)
        [] id = "plate-1x2" -> S(2, 1, 1)
        [] id = "plate-2x2" -> S(2, 2, 1)
        [] id = "plate-2x4" -> S(4, 2, 1)

\* A shape's own cell, rot quarter turns on.
turned(s, rot, i, j) ==
  CASE rot = 0 -> <<i, j>>
    [] rot = 1 -> <<s.sz - 1 - j, i>>
    [] rot = 2 -> <<s.sx - 1 - i, s.sz - 1 - j>>
    [] rot = 3 -> <<j, s.sx - 1 - i>>

\* The columns under the first rows of a brick: all of them, or those that have studs.
RowsOf(k, rows) ==
  LET s == brickShape(k.shape)
      cells == {turned(s, k.rot, i, j) : i \in 0..(s.sx - 1), j \in 0..(rows - 1)}
  IN  {<<k.x + c[1], k.z + c[2]>> : c \in cells}
brickCells(k) == RowsOf(k, brickShape(k.shape).sz)
brickStuds(k) == RowsOf(k, IF brickShape(k.shape).slope THEN 1 ELSE brickShape(k.shape).sz)
brickHeight(k) == brickShape(k.shape).h
Top(k) == k.y + brickHeight(k)

bricksOverlap(a, b) ==
  a.y < Top(b) /\ b.y < Top(a) /\ brickCells(a) \cap brickCells(b) # {}

\* One sits right on the other's studs.
SitsOn(b, a) == Top(a) = b.y /\ brickStuds(a) \cap brickCells(b) # {}
bricksConnected(a, b) == SitsOn(b, a) \/ SitsOn(a, b)

\* A corner of a cell it covers is beyond the build circle, or it is too high.
Outside(k) ==
  \/ k.y < 0 \/ Top(k) > MaxPlates
  \/ \E c \in brickCells(k), dx, dz \in 0..1 :
       (c[1] + dx) * (c[1] + dx) + (c[2] + dz) * (c[2] + dz) > Reach * Reach

brickProblem(k, placed) ==
  CASE Outside(k) -> "outside"
    [] ~Outside(k) /\ (\E o \in placed : bricksOverlap(k, o)) -> "overlap"
    [] ~Outside(k) /\ ~(\E o \in placed : bricksOverlap(k, o)) ->
         IF k.y > 0 /\ ~\E o \in placed : bricksConnected(k, o) THEN "floating" ELSE "none"
Fits(k, placed) == brickProblem(k, placed) = "none"

\* Another brick is fastened to it.
brickFrozen(k, placed) == \E o \in placed : bricksConnected(k, o)

\* The nearest free spot on the floor, ring by ring, or none.
Ring(d) == Max({d[1], -d[1], d[2], -d[2]})
Sooner(d, e) ==
  \/ Ring(d) < Ring(e)
  \/ Ring(d) = Ring(e) /\ (d[1] < e[1] \/ (d[1] = e[1] /\ d[2] < e[2]))
floorSpot(shape, rot, at, placed) ==
  LET spot(d) == [shape |-> shape, x |-> at[1] + d[1], y |-> 0, z |-> at[2] + d[2], rot |-> rot]
      free == {d \in (-Rings..Rings) \X (-Rings..Rings) : Fits(spot(d), placed)}
  IN  {spot(d) : d \in {e \in free : \A q \in free \ {e} : Sooner(e, q)}}

\* What a ray may meet: the floor before one, or a brick's top, its underside or, beside it,
\* one of its faces; and where a held brick goes for it, centred on the column.
Hits(shape, placed) ==
  {[y |-> 0, col |-> c] : c \in Columns} \cup
  UNION {LET box == brickCells(o)
             beside == {<<c[1] + d[1], c[2] + d[2]>> :
                          c \in box, d \in {<<1, 0>>, <<-1, 0>>, <<0, 1>>, <<0, -1>>}} \ box
         IN  {[y |-> y, col |-> c] : y \in {Top(o), o.y - brickShape(shape).h}, c \in box}
             \cup {[y |-> o.y, col |-> c] : c \in beside} : o \in placed}
aimBrick(hit, shape, rot) ==
  LET s == brickShape(shape)
      turnedX == IF rot % 2 = 0 THEN s.sx ELSE s.sz
      turnedZ == IF rot % 2 = 0 THEN s.sz ELSE s.sx
  IN  [shape |-> shape, x |-> hit.col[1] - (turnedX - 1) \div 2,
       y |-> IF hit.y < 0 THEN 0 ELSE hit.y, z |-> hit.col[2] - (turnedZ - 1) \div 2, rot |-> rot]

\* A blueprint: its bricks from corner (0, 0, 0), turned a quarter as R turns it, and placed.
Moved(plan, dx, dy, dz) ==
  [i \in DOMAIN plan |-> [plan[i] EXCEPT !.x = @ + dx, !.y = @ + dy, !.z = @ + dz]]
Side(plan, d) == UNION {{c[d] : c \in brickCells(plan[i])} : i \in DOMAIN plan}
Size(plan, d) == 1 + Max(Side(plan, d)) - Min(Side(plan, d))
normalise(plan) ==
  Moved(plan, -Min(Side(plan, 1)), -Min({plan[i].y : i \in DOMAIN plan}), -Min(Side(plan, 2)))

\* The first turn of a shape that covers these cells with studs on those.
fitBrick(shape, cells, studs, y) ==
  LET at(rot) == [shape |-> shape, x |-> Min({c[1] : c \in cells}), y |-> y,
                  z |-> Min({c[2] : c \in cells}), rot |-> rot]
      fits == {rot \in 0..3 : brickCells(at(rot)) = cells /\ brickStuds(at(rot)) = studs}
  IN  at(Min(fits))

turnBlueprint(plan) ==
  LET turn(cells) == {<<-c[2] - 1, c[1]>> : c \in cells}
  IN  normalise([i \in DOMAIN plan |->
        fitBrick(plan[i].shape, turn(brickCells(plan[i])), turn(brickStuds(plan[i])), plan[i].y)])

\* Its middle where the aim meets the floor.
placeBlueprint(plan, at) ==
  Moved(plan, at[1] - Size(plan, 1) \div 2, 0, at[2] - Size(plan, 2) \div 2)

\* A blueprint needs no support; its bricks may not overlap each other either.
blueprintProblems(pieces, placed) ==
  {i \in DOMAIN pieces :
     \/ Outside(pieces[i])
     \/ \E o \in placed \cup {pieces[j] : j \in DOMAIN pieces \ {i}} : bricksOverlap(pieces[i], o)}

-----------------------------------------------------------------------------
Nowhere == [shape |-> CHOOSE s \in Kinds : TRUE, x |-> 0, y |-> 0, z |-> 0, rot |-> 0]
NoBrick == [st |-> "none", at |-> Nowhere, by |-> "nobody", build |-> FALSE]
IsPlaced(k) == k.st = "placed"
Placed(rows, but) == {rows[b].at : b \in {x \in Bricks \ but : IsPlaced(rows[x])}}
Live(rows) == {b \in Bricks : rows[b].st \in {"placed", "held"}}
Held(rows, c) == {b \in Bricks : rows[b].st = "held" /\ rows[b].by = c}
Shown == [b \in Bricks |-> api.rows[b]]

-----------------------------------------------------------------------------
\* _lapse: every brick held too long, the longest first, goes back where it was, if it still
\* fits, else to a free floor spot, else out of the cave.
Lapsed(a, b) ==
  LET placed == Placed(a.rows, {b})
      k == a.rows[b]
      spots == IF Fits(k.at, placed) THEN {k.at}
               ELSE floorSpot(k.at.shape, k.at.rot, <<k.at.x, k.at.z>>, placed)
      back == IF spots = {} THEN [k EXCEPT !.st = "gone", !.by = "nobody"]
              ELSE [k EXCEPT !.st = "placed", !.by = "nobody", !.at = CHOOSE s \in spots : TRUE]
  IN  [a EXCEPT !.rows[b] = back, !.revs[b] = a.rev + 1, !.rev = @ + 1]
LapseAll ==
  LET stale == SetToSortSeq(aged \cap Live(api.rows), LAMBDA b, c : api.revs[b] < api.revs[c])
  IN  FoldLeft(Lapsed, api, stale)

\* A change of some rows under one new revision (_bump).
Changed(a, f) ==
  [a EXCEPT !.rows = [b \in Bricks |-> IF b \in DOMAIN f THEN f[b] ELSE @[b]],
            !.revs = [b \in Bricks |-> IF b \in DOMAIN f THEN a.rev + 1 ELSE @[b]],
            !.rev = @ + 1]
One(b, k) == [x \in {b} |-> k]

Fresh(a) == {b \in Bricks : a.rows[b].st = "none"}
NextId(a) == CHOOSE b \in Fresh(a) : \A x \in Fresh(a) : b <= x

\* The API's handlers: what each write does to the rows, or {} for a refusal.
Make(a, c, at) ==
  IF c \in Makers /\ Fresh(a) # {} /\ Fits(at, Placed(a.rows, {}))
  THEN {One(NextId(a), [NoBrick EXCEPT !.st = "placed", !.at = at])} ELSE {}

Build(a, c, pieces) ==
  LET ids == {b \in Fresh(a) : Cardinality({x \in Fresh(a) : x < b}) < Len(pieces)}
      nth(b) == 1 + Cardinality({x \in ids : x < b})
  IN  IF /\ c \in Makers /\ Cardinality(ids) = Len(pieces)
         /\ blueprintProblems(pieces, Placed(a.rows, {})) = {}
      THEN {[b \in ids |-> [NoBrick EXCEPT !.st = "placed", !.build = TRUE, !.at = pieces[nth(b)]]]}
      ELSE {}

\* Who has it in hand already is told so, and nothing changes.
Pick(a, c, b) ==
  CASE b \in Held(a.rows, c) -> {One(b, a.rows[b])}
    [] /\ IsPlaced(a.rows[b]) /\ Held(a.rows, c) = {}
       /\ c \in Makers \/ ~brickFrozen(a.rows[b].at, Placed(a.rows, {b})) ->
         {One(b, [a.rows[b] EXCEPT !.st = "held", !.by = c])}
    [] OTHER -> {}

Place(a, c, b, at) ==
  IF b \in Held(a.rows, c) /\ Fits(at, Placed(a.rows, {b}))
  THEN {One(b, [a.rows[b] EXCEPT !.st = "placed", !.at = at, !.by = "nobody"])} ELSE {}

Gone(k) == [k EXCEPT !.st = "gone", !.by = "nobody"]
RemoveBrick(a, c, b) == IF c \in Makers /\ b \in Live(a.rows) THEN {One(b, Gone(a.rows[b]))} ELSE {}

TakeDown(a, c) ==
  LET of == {b \in Live(a.rows) : a.rows[b].build}
  IN  IF c \in Makers /\ of # {} THEN {[b \in of |-> Gone(a.rows[b])]} ELSE {}

Handled(a, c, w) ==
  CASE w.kind = "making" -> Make(a, c, w.at)
    [] w.kind = "building" -> Build(a, c, w.pieces)
    [] w.kind = "picking" -> Pick(a, c, w.b)
    [] w.kind \in {"placing", "dropping"} -> Place(a, c, w.b, w.at)
    [] w.kind = "removing" -> RemoveBrick(a, c, w.b)
    [] OTHER -> TakeDown(a, c)

\* Old holds lapse first, but for what takes bricks away; a refusal undoes that too.
Before(w) == IF w.kind \in {"removing", "taking-down"} THEN api ELSE LapseAll
Written(a, f) == IF \A b \in DOMAIN f : f[b] = a.rows[b] THEN a ELSE Changed(a, f)

\* The answer names the brick, where the handler's answer does (_change).
Names(w, f) ==
  IF w.kind \in {"making", "picking", "placing", "dropping"} THEN f ELSE [x \in {} |-> NoBrick]

-----------------------------------------------------------------------------
\* What a browser shows.
Idle == [kind |-> "none", b |-> 1, at |-> Nowhere, pieces |-> <<>>, before |-> [x \in {} |-> NoBrick],
         st |-> "none", brick |-> [x \in {} |-> NoBrick]]
Write(kind, b, at) == [Idle EXCEPT !.kind = kind, !.b = b, !.at = at, !.st = "out"]
ReadIdle == [st |-> "none", since |-> 0, rows |-> [b \in Bricks |-> NoBrick], revs |-> [b \in Bricks |-> 0],
             rev |-> 0, full |-> FALSE, again |-> FALSE]

Mine == Held(copy.bricks, Me)
Ready == op = Idle /\ copy.rev > 0
Standing(but) == Placed(copy.bricks, but)
Over(bricks, f) == [b \in Bricks |-> IF b \in DOMAIN f THEN f[b] ELSE bricks[b]]

\* The bricks a write may come to name; what it makes has no id yet.
Touched(w) ==
  CASE w.kind \in {"making", "building"} -> Fresh(api)
    [] w.kind = "taking-down" -> DOMAIN w.before
    [] OTHER -> {w.b}

Asks(w, bricks) ==
  /\ op' = w
  /\ copy' = [copy EXCEPT !.bricks = bricks, !.wrote = @ \cup Touched(w)]
  /\ UNCHANGED <<api, aged, read>>

\* run: B, E, Q, X, Shift+X (confirmed), and E with a blueprint out. What is behind a
\* member, ahead of them or under their aim is any of the columns they stand before.
PressMake ==
  /\ Ready /\ Me \in Makers /\ Mine = {}
  /\ \E made \in Kinds, land \in Columns : \E spot \in floorSpot(made, 0, land, Standing({})) :
       Asks(Write("making", 1, spot), copy.bricks)

PressBuild ==
  /\ Ready /\ Me \in Makers
  /\ \E blueprint \in {Plan, turnBlueprint(Plan)}, at \in Columns :
       LET pieces == placeBlueprint(blueprint, at)
       IN  /\ blueprintProblems(pieces, Standing({})) = {}
           /\ Asks([Write("building", 1, Nowhere) EXCEPT !.pieces = pieces], copy.bricks)

PressPick ==
  /\ Ready /\ Mine = {}
  /\ \E b \in Bricks :
       /\ IsPlaced(copy.bricks[b])
       /\ Me \in Makers \/ ~brickFrozen(copy.bricks[b].at, Standing({b}))
       /\ Asks(Write("picking", b, Nowhere), copy.bricks)

\* Where the ghost shows, if it fits, or on the floor ahead.
Puts(kind, shape, rot) ==
  IF kind = "placing"
  THEN {at \in {aimBrick(hit, shape, rot) : hit \in Hits(shape, Standing({}))} : Fits(at, Standing({}))}
  ELSE UNION {floorSpot(shape, rot, ahead, Standing({})) : ahead \in Columns}

PressPlace ==
  /\ Ready
  /\ \E b \in Mine, kind \in {"placing", "dropping"}, rot \in Rots :
       \E at \in Puts(kind, copy.bricks[b].at.shape, rot) :
          LET k == copy.bricks[b]
              moved == [k EXCEPT !.st = "placed", !.by = "nobody", !.at = at]
          IN  Asks([Write(kind, b, at) EXCEPT !.before = One(b, k)], Over(copy.bricks, One(b, moved)))

PressRemove ==
  /\ Ready /\ Me \in Makers
  /\ \E b \in Bricks :
       /\ IF Mine # {} THEN b \in Mine ELSE IsPlaced(copy.bricks[b])
       /\ Asks([Write("removing", b, Nowhere) EXCEPT !.before = One(b, copy.bricks[b])],
               Over(copy.bricks, One(b, NoBrick)))

PressTakeDown ==
  /\ Ready /\ Me \in Makers
  /\ LET of == {b \in Live(copy.bricks) : copy.bricks[b].build}
         before == [b \in of |-> copy.bricks[b]]
     IN  /\ of # {}
         /\ Asks([Write("taking-down", 1, Nowhere) EXCEPT !.before = before], Over(copy.bricks, [b \in of |-> NoBrick]))

\* The API takes the write; its answer may not come back, nor the request get there.
Takes(w, f) ==
  /\ api' = Written(Before(w), f)
  /\ aged' = IF w.kind \in {"removing", "taking-down"} THEN aged \ DOMAIN f ELSE {}
  /\ api'.rev + Cardinality(aged') <= MaxRev

Serve ==
  /\ op.st = "out"
  /\ LET does == Handled(Before(op), Me, op)
     IN  IF does = {}
         THEN op' = [op EXCEPT !.st = "no"] /\ UNCHANGED <<api, aged>>
         ELSE \E f \in does : Takes(op, f) /\ op' = [op EXCEPT !.st = "ok", !.brick = Names(op, f)]
  /\ UNCHANGED <<copy, read>>

Lost ==
  /\ op.st \in {"out", "ok"}
  /\ op' = [op EXCEPT !.st = "lost", !.brick = Idle.before]
  /\ UNCHANGED <<api, aged, copy, read>>

\* read: one at a time; a call while one is out is made again after it.
Again(asks) ==
  IF ~asks THEN read
  ELSE IF read.st # "none" THEN [read EXCEPT !.again = TRUE]
  ELSE [ReadIdle EXCEPT !.st = "out", !.since = copy.rev]

\* write's answer: the brick it names, then a read for the rest; a refusal puts back
\* what was shown before, and reads too unless the server was never reached.  Taking a build
\* down always reads, building one only when it is built.
ReadsAfter ==
  \/ op.kind = "taking-down"
  \/ op.st = "ok"
  \/ op.st = "no" /\ op.kind # "building"

Answer ==
  /\ op.st \in {"ok", "no", "lost"}
  /\ copy' = [copy EXCEPT !.bricks =
                Over(@, IF op.st = "ok" THEN op.brick ELSE op.before)]
  /\ read' = Again(ReadsAfter)
  /\ op' = Idle
  /\ UNCHANGED <<api, aged>>

\* The refresh, a ping about a newer revision, a retry.
AskList ==
  /\ read.st = "none" \/ (~read.again /\ api.rev > copy.rev)
  /\ read' = Again(TRUE)
  /\ UNCHANGED <<api, aged, copy, op>>

\* Mutant of List: a delta from before the forgotten tombstones is still a delta.
ListDelta(a, since, rows) ==
  [st |-> "got", since |-> since, rows |-> rows, revs |-> a.revs, rev |-> a.rev,
   full |-> since = 0, again |-> FALSE]

\* list_bricks: what changed since then, or everything when it cannot say.
List(a, since, rows) ==
  [st |-> "got", since |-> since, rows |-> rows, revs |-> a.revs, rev |-> a.rev,
   full |-> since = 0 \/ since < a.floor, again |-> FALSE]

\* _purge: tombstones older than a day are deleted, and the floor moves up to them.
Purged(a, old) ==
  LET dead == {b \in Bricks : a.rows[b].st = "gone" /\ a.revs[b] <= old}
  IN  [a EXCEPT !.rows = [b \in Bricks |-> IF b \in dead THEN [@[b] EXCEPT !.st = "purged"] ELSE @[b]],
                !.floor = IF dead = {} THEN @ ELSE LET r == {a.revs[b] : b \in dead} \cup {@} IN CHOOSE x \in r : \A y \in r : y <= x]

ServeList ==
  /\ read.st = "out"
  /\ \E old \in {0} \cup {api.revs[b] : b \in {x \in Bricks : api.rows[x].st = "gone"}} :
       LET a == Purged(LapseAll, old)
       IN  /\ api' = a
           /\ read' = [List(a, read.since, a.rows) EXCEPT !.again = read.again]
  /\ aged' = {}
  /\ UNCHANGED <<copy, op>>

\* apply: everything anew, or the bricks that changed and those that went.
Applied(bricks, l) ==
  [b \in Bricks |->
     LET k == l.rows[b] IN
     IF l.full THEN IF k.st \in {"placed", "held"} THEN k ELSE NoBrick
     ELSE IF l.revs[b] <= l.since \/ k.st = "purged" THEN bricks[b]
     ELSE IF k.st \in {"placed", "held"} THEN k ELSE NoBrick]

ReadNext(since) == IF read.again THEN [ReadIdle EXCEPT !.st = "out", !.since = since] ELSE ReadIdle

Apply ==
  /\ read.st = "got"
  /\ copy' = [bricks |-> Applied(copy.bricks, read), rev |-> read.rev,
              wrote |-> IF read.full /\ op = Idle THEN {} ELSE copy.wrote]
  /\ read' = ReadNext(read.rev)
  /\ UNCHANGED <<api, aged, op>>

\* A read that failed: what is shown is kept, and it is asked again later.
ReadFails ==
  /\ read.st \in {"out", "got"}
  /\ read' = ReadNext(copy.rev)
  /\ UNCHANGED <<api, aged, copy, op>>

\* What another member does, as the API takes it: they aim at the cave as it was once.
Spots == {at \in [shape : Kinds, x : -Reach..(Reach - 1), y : 0..(MaxPlates - 1),
                  z : -Reach..(Reach - 1), rot : Rots] : ~Outside(at)}
Theirs ==
  {Write(kind, b, Nowhere) : kind \in {"picking", "removing", "taking-down"}, b \in Bricks}
  \cup {Write("placing", b, at) : b \in Bricks, at \in Spots}
  \cup {Write("making", 1, at) : at \in {at \in Spots : at.y = 0 /\ at.rot = 0}}
  \cup {[Write("building", 1, Nowhere) EXCEPT !.pieces = placeBlueprint(Plan, at)] : at \in Columns}

OtherWrites(c) ==
  /\ api.rev < MaxRev
  /\ \E w \in Theirs : \E f \in Handled(Before(w), c, w) : Takes(w, f)
  /\ UNCHANGED <<copy, op, read>>

\* HOLD_LAPSE goes by.
HoldAges(b) ==
  /\ api.rows[b].st = "held" /\ b \notin aged
  /\ api.rev + Cardinality(aged) < MaxRev
  /\ aged' = aged \cup {b}
  /\ UNCHANGED <<api, copy, op, read>>

-----------------------------------------------------------------------------
Init ==
  /\ api = [rows |-> [b \in Bricks |-> NoBrick], revs |-> [b \in Bricks |-> 0], rev |-> 1, floor |-> 0]
  /\ aged = {}
  /\ copy = [bricks |-> [b \in Bricks |-> NoBrick], rev |-> 0, wrote |-> {}]
  /\ op = Idle
  /\ read = [ReadIdle EXCEPT !.st = "out"]

Press == PressMake \/ PressBuild \/ PressPick \/ PressPlace \/ PressRemove \/ PressTakeDown

Next ==
  \/ Press \/ Serve \/ Lost \/ Answer
  \/ AskList \/ ServeList \/ Apply \/ ReadFails
  \/ \E c \in Others : OtherWrites(c)
  \/ \E b \in Bricks : HoldAges(b)

\* The refresh timer, and a server that answers often enough.
Fairness ==
  SF_vars(Apply) /\ WF_vars(AskList) /\ SF_vars(ServeList)

Spec == Init /\ [][Next]_vars /\ Fairness

-----------------------------------------------------------------------------
\* The shapes of its state.
Tables == [rows : [Bricks -> [st : {"none", "placed", "held", "gone", "purged"}, at : Spots \cup {Nowhere},
                            by : {Me, "nobody"} \cup Others, build : BOOLEAN]],
           revs : [Bricks -> 0..MaxRev], rev : 1..MaxRev, floor : 0..MaxRev]
Writes == [kind : {"none", "making", "building", "picking", "placing", "dropping", "removing", "taking-down"},
           st : {"none", "out", "ok", "no", "lost"}]

TypeOK ==
  /\ api \in Tables /\ \A b \in Bricks : api.revs[b] <= api.rev
  /\ aged \subseteq Bricks /\ copy.rev \in 0..MaxRev
  /\ [kind |-> op.kind, st |-> op.st] \in Writes
  /\ read.st \in {"none", "out", "got"}

As(k) == IF k.st \in {"placed", "held"} THEN k ELSE NoBrick

\* A browser at the cave's revision shows every brick it has not itself written to as the
\* API has it, deltas, lapses and forgotten tombstones included; and in the cave itself no
\* two bricks are in one place and no hand holds two.
SeesTheBuild ==
  /\ copy.rev = api.rev => \A b \in Bricks \ copy.wrote : copy.bricks[b] = As(api.rows[b])
  /\ \A b, x \in Live(api.rows) : b # x =>
       /\ IsPlaced(api.rows[b]) /\ IsPlaced(api.rows[x]) => ~bricksOverlap(api.rows[b].at, api.rows[x].at)
       /\ api.rows[b].st = "held" /\ api.rows[x].st = "held" => api.rows[b].by # api.rows[x].by

\* A blueprint goes together as its file says whichever way it is turned: two of its bricks
\* overlap or are fastened as before, its sides change places, and four turns bring back
\* every cell and every stud. In any two places a blueprint's bricks may have there.
Corner == {at \in [shape : Kinds \cup {"slope-2x2"}, x : 0..1, y : {0, 1}, z : 0..1, rot : 0..3] :
             at.x = 0 \/ at.z = 0}
Again4(plan) == turnBlueprint(turnBlueprint(turnBlueprint(turnBlueprint(plan))))
TakesUp(plan) == [i \in DOMAIN plan |-> <<brickCells(plan[i]), brickStuds(plan[i]), plan[i].y>>]
TurnsWhole ==
  \A a \in {at \in Corner : at.y = 0}, b \in Corner :
    LET plan == normalise(<<a, b>>)
        t == turnBlueprint(plan)
    IN  /\ bricksOverlap(t[1], t[2]) = bricksOverlap(a, b)
        /\ bricksConnected(t[1], t[2]) = bricksConnected(a, b)
        /\ Size(t, 1) = Size(plan, 2) /\ Size(t, 2) = Size(plan, 1)
        /\ TakesUp(Again4(plan)) = TakesUp(plan)

\* What others do reaches everyone: time and again a browser is at the cave's revision.
UpToDate == copy.rev = api.rev

EveryoneSeesTheBuild == []<>UpToDate

\* "ask for what changed since the revision they have; every 20 s everyone asks anyway, so
\* a ping lost on the way costs no more than that": with nothing under way and the
\* revision up to date, the bricks are the cave's, the browser's own included.
OwnBricksTrue ==
  copy.rev = api.rev /\ op = Idle /\ read = ReadIdle =>
    \A b \in Bricks : copy.bricks[b] = As(api.rows[b])
=============================================================================
