----------------------------- MODULE RobotEditor -----------------------------
(***************************************************************************)
(* The avatar editor: one admin dresses members' robots. A draft per       *)
(* chosen member, saved whole; the chestplate uploaded onto a saved robot; *)
(* Reset. Requests outlive the editor that sent them, are served and       *)
(* answered in any order, and may be lost on the way there or back.        *)
(* (The heads and their fitting are HeadFitting.)                          *)
(***************************************************************************)
EXTENDS Naturals, FiniteSets

CONSTANTS Members,   \* whose robots there are
          Looks,     \* what a robot can be painted, the default among them
          Default,   \* the look nobody saved
          MaxWire    \* bound: requests on their way at once

VARIABLES
  api,    \* per member: dressed (saved at all), its look, its chestplate
  list,   \* the same, as the page loaded and patched it
  load,   \* the page: loading, error or ready
  ed,     \* the chosen member's editor: draft, busy, retry, timer, chest, removing
  wire    \* requests on their way, and whether the editor that sent one still stands

vars == <<api, list, load, ed, wire>>

-----------------------------------------------------------------------------
Bare == [dressed |-> FALSE, look |-> Default, chest |-> FALSE]

\* A request's own fields; id tells two alike apart.
Request(kind, look) ==
  [kind |-> kind, who |-> ed.who, look |-> look, st |-> "out", own |-> TRUE,
   id |-> CHOOSE i \in 1..(MaxWire + 1) : \A r \in wire : r.id # i]

Room == Cardinality(wire) < MaxWire

\* draftFor, as an editor that mounts takes it.
Mounted(who) ==
  [who |-> who, draft |-> list[who].look, busy |-> "idle", retry |-> Default, timer |-> FALSE,
   chest |-> "idle", removing |-> FALSE, asked |-> FALSE]

Changed == ed.draft # list[ed.who].look
Dirty == ~list[ed.who].dressed \/ Changed
Working == ed.busy \in {"saving", "resetting"} \/ ed.chest \in {"preparing", "uploading"} \/ ed.removing

-----------------------------------------------------------------------------
\* The members and the avatars, fetched together; Try again after an error.
Loads ==
  /\ load = "loading"
  /\ load' = "ready" /\ list' = api
  /\ ed' = [ed EXCEPT !.draft = api[ed.who].look]
  /\ UNCHANGED <<api, wire>>

LoadFails ==
  /\ load = "loading" /\ load' = "error"
  /\ UNCHANGED <<api, list, ed, wire>>

TryLoadAgain ==
  /\ load = "error" /\ load' = "loading"
  /\ UNCHANGED <<api, list, ed, wire>>

\* choose: unsaved changes are left only when the admin says so. The next editor mounts
\* fresh; what the last one sent stays on its way.
Leaves(who, asked) ==
  /\ ed' = [Mounted(who) EXCEPT !.asked = asked]
  /\ wire' = {[r EXCEPT !.own = FALSE] : r \in wire}

ChooseUnasked(who) == Leaves(who, FALSE)
Choose(who) == Leaves(who, Changed)

PressMember ==
  /\ load = "ready"
  /\ \E who \in Members \ {ed.who} : Choose(who)
  /\ UNCHANGED <<api, list, load>>

\* A head, a colour, a finish, the back, the blend: never disabled, save by what they show.
Edit ==
  /\ load = "ready"
  /\ \E look \in Looks \ {ed.draft} : ed' = [ed EXCEPT !.draft = look, !.asked = FALSE]
  /\ UNCHANGED <<api, list, load, wire>>

\* Discard changes.
Discard ==
  /\ load = "ready" /\ Changed /\ ~Working
  /\ ed' = [ed EXCEPT !.draft = list[ed.who].look, !.asked = TRUE]
  /\ UNCHANGED <<api, list, load, wire>>

\* save: the whole draft.
Sends(look) ==
  /\ Room
  /\ ed' = [ed EXCEPT !.busy = "saving", !.retry = Default, !.timer = FALSE, !.asked = FALSE]
  /\ wire' = wire \cup {Request("save", look)}

PressSave ==
  /\ load = "ready" /\ ~Working /\ (Dirty \/ ed.busy \in {"error", "resetFailed"})
  /\ Sends(ed.draft)
  /\ UNCHANGED <<api, list, load>>

\* Try again: the closure that failed, the draft it held and all.
PressRetry ==
  /\ load = "ready" /\ ed.busy = "error"
  /\ Sends(ed.retry)
  /\ UNCHANGED <<api, list, load>>

\* The "Saved" mark's two seconds are over.
SavedTimer ==
  /\ ed.timer
  /\ ed' = [ed EXCEPT !.timer = FALSE, !.busy = "idle", !.asked = FALSE]
  /\ UNCHANGED <<api, list, load, wire>>

\* reset, after its own question.
PressReset ==
  /\ load = "ready" /\ list[ed.who].dressed /\ ~Working /\ Room
  /\ ed' = [ed EXCEPT !.busy = "resetting", !.asked = FALSE]
  /\ wire' = wire \cup {Request("reset", Default)}
  /\ UNCHANGED <<api, list, load>>

\* onChestFile: checked here (type, size, pixels, a clip's length), which may refuse it.
\* A chestplate goes on a saved robot: the draft as it was when the file was picked is saved
\* first, if it isn't. It goes on when the editor that picked it is left.
PickChest ==
  /\ load = "ready" /\ ~Working /\ Room
  /\ ed' = [ed EXCEPT !.chest = "preparing", !.asked = FALSE]
  /\ wire' = wire \cup {[Request(IF Dirty THEN "first" ELSE "chest", ed.draft) EXCEPT !.st = "checking"]}
  /\ UNCHANGED <<api, list, load>>

ChestChecked ==
  /\ \E r \in wire, fine \in BOOLEAN :
       /\ r.st = "checking"
       /\ wire' = (wire \ {r}) \cup (IF fine THEN {[r EXCEPT !.st = "out"]} ELSE {})
       /\ ed' = IF ~r.own THEN ed
                ELSE [ed EXCEPT !.asked = FALSE, !.chest = IF ~fine THEN "error"
                                                           ELSE IF r.kind = "first" THEN @ ELSE "uploading"]
  /\ UNCHANGED <<api, list, load>>

\* dropChest.
DropChest ==
  /\ load = "ready" /\ list[ed.who].chest /\ ~Working /\ Room
  /\ ed' = [ed EXCEPT !.removing = TRUE, !.asked = FALSE]
  /\ wire' = wire \cup {Request("unchest", ed.draft)}
  /\ UNCHANGED <<api, list, load>>

-----------------------------------------------------------------------------
\* The API: set_avatar keeps the chestplate, reset_avatar takes it too, and a chestplate
\* is refused for an undressed robot.
Stored(r, robot) ==
  CASE r.kind \in {"save", "first"} -> [robot EXCEPT !.dressed = TRUE, !.look = r.look]
    [] r.kind = "reset" -> Bare
    [] OTHER -> [robot EXCEPT !.chest = r.kind = "chest"]

Serve ==
  /\ \E r \in wire :
       LET ok == r.kind \in {"save", "first", "reset"} \/ api[r.who].dressed IN
       /\ r.st = "out"
       /\ api' = IF ok THEN [api EXCEPT ![r.who] = Stored(r, @)] ELSE api
       /\ wire' = (wire \ {r}) \cup {[r EXCEPT !.st = IF ok THEN "ok" ELSE "refused"]}
  /\ UNCHANGED <<list, load, ed>>

\* What an answer does to the list (always) ...
Patched(r) ==
  IF r.st # "ok" THEN list
  ELSE [list EXCEPT ![r.who] = IF r.kind = "reset" THEN Bare
                               ELSE [Stored(r, @) EXCEPT !.dressed = TRUE]]

\* ... and to the editor that asked, when it still stands; timeouts and losses are errors.
Told(r) ==
  LET ok == r.st = "ok" IN
  CASE r.kind = "save" ->
         [ed EXCEPT !.busy = IF ok THEN "saved" ELSE "error", !.timer = IF ok THEN TRUE ELSE @,
                    !.retry = IF ok THEN Default ELSE r.look, !.asked = FALSE]
    [] r.kind = "reset" ->
         [ed EXCEPT !.busy = IF ok THEN "idle" ELSE "resetFailed", !.asked = ok,
                    !.draft = IF ok THEN Default ELSE @]
    [] r.kind = "first" -> [ed EXCEPT !.chest = IF ok THEN "uploading" ELSE "error", !.asked = FALSE]
    [] r.kind = "chest" -> [ed EXCEPT !.chest = IF ok THEN "idle" ELSE "error", !.asked = FALSE]
    [] OTHER -> [ed EXCEPT !.removing = FALSE, !.chest = IF ok THEN @ ELSE "error", !.asked = FALSE]

Lands(r, lost) ==
  LET a == IF lost THEN [r EXCEPT !.st = "lost"] ELSE r
      next == r.kind = "first" /\ a.st = "ok" IN
  /\ list' = Patched(a)
  /\ ed' = IF r.own THEN Told(a) ELSE ed
  /\ wire' = (wire \ {r}) \cup (IF next THEN {[r EXCEPT !.kind = "chest", !.st = "out"]} ELSE {})

Answer ==
  /\ \E r \in wire : r.st \in {"ok", "refused"} /\ Lands(r, FALSE)
  /\ UNCHANGED <<api, load>>

Lost ==
  /\ \E r \in wire : r.st # "checking" /\ Lands(r, TRUE)
  /\ UNCHANGED <<api, load>>

\* Try again after a reset that failed: it asks again.
RetryReset ==
  /\ load = "ready" /\ ed.busy = "resetFailed" /\ Room
  /\ ed' = [ed EXCEPT !.busy = "resetting", !.asked = FALSE]
  /\ wire' = wire \cup {Request("reset", Default)}
  /\ UNCHANGED <<api, list, load>>

-----------------------------------------------------------------------------
Init ==
  /\ api \in [Members -> {Bare, [Bare EXCEPT !.dressed = TRUE]}]
  /\ list = [m \in Members |-> Bare]
  /\ load = "loading" /\ wire = {}
  /\ ed = Mounted(CHOOSE m \in Members : TRUE)

Next ==
  \/ Loads \/ LoadFails \/ TryLoadAgain
  \/ PressMember \/ Edit \/ Discard \/ PressSave \/ PressRetry \/ SavedTimer \/ PressReset \/ RetryReset
  \/ PickChest \/ ChestChecked \/ DropChest
  \/ Serve \/ Answer \/ Lost

Spec == Init /\ [][Next]_vars

-----------------------------------------------------------------------------
Robots == [dressed : BOOLEAN, look : Looks, chest : BOOLEAN]
\* The shapes of its state.
Busies == {"idle", "saving", "saved", "resetting", "error", "resetFailed"}
Avatars == [Members -> Robots]

TypeOK ==
  /\ api \in Avatars /\ list \in Avatars
  /\ load \in {"loading", "error", "ready"}
  /\ ed.who \in Members /\ ed.draft \in Looks /\ ed.chest \in {"idle", "preparing", "uploading", "error"}
  /\ ed.busy \in Busies
  /\ Cardinality(wire) <= MaxWire

\* Changes nobody saved are never dropped without a question (or Discard, or a further edit
\* of the admin's own): not by an answer that arrives, not by a timer, not by leaving.
DraftKeptStep ==
  load = "ready" /\ Changed /\ ed'.draft # ed.draft => ed'.asked \/ (ed'.who = ed.who /\ Edit)

DraftKept == [][DraftKeptStep]_vars
=============================================================================
