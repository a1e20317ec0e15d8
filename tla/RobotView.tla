------------------------------ MODULE RobotView ------------------------------
(***************************************************************************)
(* One robot of the lobby and what it wears: a head, a face accessory, a   *)
(* model on its back, each fitted by a placement, and a chestplate image.  *)
(* Files come late from a cache every robot shares, or fail and are tried  *)
(* again; looks change meanwhile. What flies over the robot goes over its  *)
(* head, or else over its accessory.                                       *)
(***************************************************************************)
EXTENDS Naturals, FiniteSets

CONSTANTS Files,     \* stored files, by content
          Flat,      \* the models among them with no room for anything to fly over
          Slots,     \* of "head", "accessory", "back" and "chest": those the looks use
          MaxLooks   \* bound: changes of look

VARIABLES
  look,    \* per slot what it should wear: a file and how it is placed, or nothing
  changes, \* how often the look changed
  robot,   \* per slot worn, pending and retry; over: what the flyer is over; gone: disposed
  calls,   \* continuations waiting for a file
  cache    \* per file: the promise everyone shares

vars == <<look, changes, robot, calls, cache>>

-----------------------------------------------------------------------------
None == [file |-> "none", flyer |-> FALSE]
Worn == [file : Files, flyer : BOOLEAN]

\* What may be asked of a slot: only heads and accessories carry a flyer.
Looks(s) == {None} \cup {w \in Worn : w.flyer => s \in {"head", "accessory"}}

Flies(r, s, w) == w.flyer /\ r.worn[s] # None /\ r.worn[s].file \notin Flat

\* placeFlyer: the head's wins; with the head's gone, the accessory's takes over.
FlyerOverAccessory(r, w) ==
  IF "accessory" \notin Slots \/ r.over = "head" THEN r
  ELSE IF Flies(r, "accessory", w) THEN [r EXCEPT !.over = "accessory"]
  ELSE IF r.over = "accessory" THEN [r EXCEPT !.over = "none"]
  ELSE r

Accessory(l) == IF "accessory" \in Slots THEN l["accessory"] ELSE None

FlyerOverHead(r, w, l) ==
  IF Flies(r, "head", w) THEN [r EXCEPT !.over = "head"]
  ELSE IF r.over = "head" THEN FlyerOverAccessory([r EXCEPT !.over = "none"], Accessory(l))
  ELSE r

PlaceFlyer(r, s, w, l) ==
  CASE s = "head" -> FlyerOverHead(r, w, l) [] s = "accessory" -> FlyerOverAccessory(r, w) [] OTHER -> r

\* placeHead, placeAccessory, placeBack: only what is there is placed.
Place(r, s, w, l) ==
  IF r.worn[s] = None THEN r
  ELSE PlaceFlyer([r EXCEPT !.worn[s].flyer = w.flyer], s, w, l)

\* dropHead, dropAccessory, dropBack, dropClip.
Drop(r, s, l) ==
  LET d == [r EXCEPT !.worn[s] = None, !.over = IF @ = s THEN "none" ELSE @]
  IN  IF s = "head" /\ r.over = "head" THEN FlyerOverAccessory(d, Accessory(l)) ELSE d

-----------------------------------------------------------------------------
\* wearHead, wearAccessory, wearBack, wearChest: asked of the cache; a failure it still
\* holds answers at once.
Asked(c, f) == [c EXCEPT ![f] = IF @ = "none" THEN "loading" ELSE @]
Call(s, w) == [slot |-> s, w |-> w, res |-> IF cache[w.file] \in {"ok", "failed"} THEN cache[w.file] ELSE "none"]

\* setLook, slot by slot in the code's order: the head, the accessory, the back, the chest.
Sets(r, s, from, l) ==
  IF from[s].file # l[s].file
  THEN Drop([r EXCEPT !.pending[s] = l[s].file, !.retry[s] = FALSE], s, l)
  ELSE IF from[s] # l[s] THEN Place(r, s, l[s], l) ELSE r

SetsIf(r, s, from, l) == IF s \in Slots THEN Sets(r, s, from, l) ELSE r

SetLook ==
  /\ ~robot.gone /\ changes < MaxLooks
  /\ changes' = changes + 1
  /\ \E l \in {m \in [Slots -> {None} \cup Worn] : \A s \in Slots : m[s] \in Looks(s)} :
       LET new == {s \in Slots : look[s].file # l[s].file /\ l[s] # None} IN
       /\ l # look
       /\ look' = l
       /\ robot' = SetsIf(SetsIf(SetsIf(SetsIf(robot, "head", look, l), "accessory", look, l), "back", look, l),
                          "chest", look, l)
       /\ calls' = calls \cup {Call(s, l[s]) : s \in new}
       /\ cache' = [f \in Files |-> IF \E s \in new : l[s].file = f THEN Asked(cache, f)[f] ELSE cache[f]]

\* The file arrives, or doesn't, for everyone who waits for it.
Arrives(f, res) ==
  /\ cache[f] = "loading"
  /\ cache' = [cache EXCEPT ![f] = res]
  /\ calls' = {[c EXCEPT !.res = IF c.w.file = f THEN res ELSE @] : c \in calls}
  /\ UNCHANGED <<look, changes, robot>>

FileArrives == \E f \in Files : Arrives(f, "ok")
FileFails == \E f \in Files : Arrives(f, "failed")

\* A failure is forgotten in a while.
FailureExpires ==
  /\ \E f \in Files : cache[f] = "failed" /\ cache' = [cache EXCEPT ![f] = "none"]
  /\ UNCHANGED <<look, changes, robot, calls>>

\* A continuation: nobody's, when the robot is gone or waits for another file by now. The
\* placement is the look's as it is now: it may have changed while the file loaded.
Waited(c) == ~robot.gone /\ robot.pending[c.slot] = c.w.file
WaitedStanding(c) == ~robot.gone /\ robot.pending[c.slot] # "none"

Wears(c) == Waited(c)

Continues ==
  /\ \E c \in calls :
       /\ c.res # "none"
       /\ calls' = calls \ {c}
       /\ robot' =
            IF ~Wears(c) THEN robot
            ELSE LET r == [robot EXCEPT !.pending[c.slot] = "none"]
                     w == IF look[c.slot].file = c.w.file THEN look[c.slot] ELSE c.w IN
                 IF c.res = "ok"
                 THEN Place([Drop(r, c.slot, look) EXCEPT !.worn[c.slot] = c.w], c.slot, w, look)
                 ELSE [r EXCEPT !.retry[c.slot] = TRUE]
  /\ UNCHANGED <<look, changes, cache>>

\* update: a file that failed is tried again while the look still asks for it.
Retry ==
  /\ ~robot.gone
  /\ \E s \in Slots :
       /\ robot.retry[s]
       /\ robot' = [robot EXCEPT !.retry[s] = FALSE, !.pending[s] = look[s].file]
       /\ calls' = calls \cup {Call(s, look[s])}
       /\ cache' = Asked(cache, look[s].file)
  /\ UNCHANGED <<look, changes>>

Dispose ==
  /\ ~robot.gone
  /\ robot' = [robot EXCEPT !.worn = [s \in Slots |-> None], !.over = "none", !.gone = TRUE]
  /\ UNCHANGED <<look, changes, calls, cache>>

-----------------------------------------------------------------------------
Init ==
  /\ look = [s \in Slots |-> None]
  /\ robot = [worn |-> [s \in Slots |-> None], pending |-> [s \in Slots |-> "none"],
              retry |-> [s \in Slots |-> FALSE], over |-> "none", gone |-> FALSE]
  /\ changes = 0 /\ calls = {} /\ cache = [f \in Files |-> "none"]

Next ==
  \/ SetLook \/ FileArrives \/ FileFails \/ FailureExpires
  \/ Continues \/ Retry \/ Dispose

\* A file that is asked for often enough arrives; continuations and frames run.
Fairness == SF_vars(FileArrives) /\ WF_vars(Continues) /\ WF_vars(FailureExpires) /\ SF_vars(Retry)

Spec == Init /\ [][Next]_vars /\ Fairness

-----------------------------------------------------------------------------
\* The shapes of its state.
Wearing == [worn : [Slots -> {None} \cup Worn], pending : [Slots -> Files \cup {"none"}],
            retry : [Slots -> BOOLEAN], over : {"none", "head", "accessory"}, gone : BOOLEAN]
Promises == [Files -> {"none", "loading", "ok", "failed"}]
Asking == {l \in [Slots -> {None} \cup Worn] : \A s \in Slots : l[s] \in Looks(s)}

TypeOK ==
  /\ look \in Asking /\ robot \in Wearing /\ cache \in Promises
  /\ \A c \in calls : c.res \in {"none", "ok", "failed"}

\* A robot that waits for nothing wears its look, placed as the look says now; and never, late
\* file or not, something else.
WearsItsLook ==
  ~robot.gone =>
    \A s \in Slots :
      /\ robot.worn[s] # None => robot.worn[s] = look[s]
      /\ robot.pending[s] = "none" /\ ~robot.retry[s] => robot.worn[s] = look[s]

\* What flies is over the head when the head asks for it and has room, else over an accessory
\* that does; however head and accessory come, change, fail and go.
FlyerWhereItBelongs ==
  LET can(s) == s \in Slots /\ Flies(robot, s, robot.worn[s])
  IN  robot.over = IF can("head") THEN "head" ELSE IF can("accessory") THEN "accessory" ELSE "none"

\* While files can be had, a robot whose look holds still comes to wear it.
Dressed(s) == robot.gone \/ robot.worn[s] = look[s]

DressedAtLast == \A s \in Slots : []<>Dressed(s)
=============================================================================
