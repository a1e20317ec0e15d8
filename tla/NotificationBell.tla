--------------------------- MODULE NotificationBell ---------------------------
(***************************************************************************)
(* The bell: the list read on mount, every minute while the tab is visible *)
(* (less often while it fails) and on opening; one item or all of them     *)
(* marked read, with the answers in any order.                             *)
(*                                                                         *)
(* It hangs on a kill switch, as other screens do: a flag is put together  *)
(* from three layers, read one after the other while they may be edited;   *)
(* the page asks the API for it once, waits for 8 seconds at most, and     *)
(* each screen makes its own of the answer or of none.                     *)
(***************************************************************************)
EXTENDS Naturals, FiniteSets, Sequences, FiniteSetsExt

CONSTANTS
  MaxId,
  Screens,   \* of "bell", "floor", "connector" and "layout", those a run looks at
  MaxEdits   \* edits of the flags' files while they are read

VARIABLES
  api,    \* notifications there are, those unread
  bell,   \* what is shown, whether the panel is open, the tab visible, the last read failed
  read,   \* the loop's read; a read of an earlier loop is let go of
  marks,  \* writes out: sets of ids to mark read, "all" as every id
  said,   \* the unread last said, how many were said, how many were ever new
  flag,   \* the screen that asks, the practice build or not, the layers, the asking, its outcome
  reader  \* the resolution under way: where it is, what it has, what it found

bellVars == <<api, bell, read, marks, said>>
vars == <<api, bell, read, marks, said, flag, reader>>

Ids == 1..MaxId
Nobody == [ids |-> {}, unread |-> {}]
Answer == [ids |-> api.ids, unread |-> api.unread]
Idle == [st |-> "idle", got |-> Nobody]

-----------------------------------------------------------------------------
\* One flag.  A layer is absent, bad (not JSON, not an object, a known flag that is no
\* boolean, a file named but not there), silent on this flag, or says it is on or off:
\* config/flags.json, the file of FORGE_FLAGS_PATH, and FORGE_FLAGS_JSON.
Layers == <<"file", "path", "env">>
Says3 == {"absent", "bad", "silent", "on", "off"}

Over(acc, x) == IF x \in {"on", "off"} THEN x = "on" ELSE acc   \* coerceLayer, merged

\* A layer that is there and bad closes everything at once.
\* Mutant of Fails: what the layers before had said stays.
FailsOpen(x) == reader' = [reader EXCEPT !.at = "done", !.found = Append(@, x)]

Fails(x) == reader' = [reader EXCEPT !.at = "done", !.acc = FALSE, !.found = Append(@, x)]

After(at) == CASE at = "file" -> "path" [] at = "path" -> "env" [] OTHER -> "done"

Takes(at, x) ==
  IF x = "bad" \/ (x = "absent" /\ at = "file") THEN Fails(x)
  ELSE reader' = [reader EXCEPT !.at = After(at), !.acc = Over(@, x), !.found = Append(@, x)]

\* The walk up to config/flags.json; a file that goes between the look and the read is bad.
FindFile ==
  /\ reader.at = "find"
  /\ IF flag.layers.file = "absent"
     THEN reader' = [reader EXCEPT !.at = "path", !.found = Append(@, "absent")]
     ELSE reader' = [reader EXCEPT !.at = "file"]
  /\ UNCHANGED <<bellVars, flag>>

ReadLayer ==
  /\ reader.at \in {"file", "path", "env"}
  /\ Takes(reader.at, flag.layers[reader.at])
  /\ UNCHANGED <<bellVars, flag>>

\* Somebody edits one of the files, or takes it away.
EditFile ==
  /\ flag.edits < MaxEdits /\ reader.at # "done"
  /\ \E at \in {"file", "path"}, x \in Says3 :
       /\ at = "path" => flag.layers.path # "absent" /\ x # "absent"
       /\ flag' = [flag EXCEPT !.layers[at] = x, !.edits = @ + 1]
  /\ UNCHANGED <<bellVars, reader>>

-----------------------------------------------------------------------------
\* useFlags asks once, on mount; until then and for want of an answer, the fallback: off,
\* or everything on in the practice build (demoFlagFallback).
Asks == flag.ask = "out"

Starts(on) == read' = IF on /\ flag.screen = "bell" /\ bell.visible THEN [Idle EXCEPT !.st = "out"] ELSE read

\* Mutant of AnswerLands: an answer after the 8 seconds is taken too.
AnswerLandsLate ==
  /\ flag.ask \in {"out", "none"} /\ reader.at = "done"
  /\ flag' = [flag EXCEPT !.ask = "answered", !.on = reader.acc]
  /\ Starts(reader.acc)
  /\ UNCHANGED <<api, bell, marks, said, reader>>

AnswerLands ==
  /\ Asks /\ reader.at = "done"
  /\ flag' = [flag EXCEPT !.ask = "answered", !.on = reader.acc]
  /\ Starts(reader.acc)
  /\ UNCHANGED <<api, bell, marks, said, reader>>

\* A body that parses and says nothing of flags is an answer with all of them off.
GarbageLands ==
  /\ Asks
  /\ flag' = [flag EXCEPT !.ask = "answered", !.on = FALSE]
  /\ UNCHANGED <<bellVars, reader>>

\* Out of reach, not 2xx, no JSON, or 8 seconds gone by.
NoAnswer ==
  /\ Asks
  /\ flag' = [flag EXCEPT !.ask = "none", !.on = flag.demo]
  /\ UNCHANGED <<bellVars, reader>>

\* The page goes first: an answer finds nobody (cancelled).
Unmounts ==
  /\ Asks
  /\ flag' = [flag EXCEPT !.ask = "gone"]
  /\ UNCHANGED <<bellVars, reader>>

\* What each screen makes of it: the floor's gate shows what is on even while it asks, the
\* connector's and the two layouts' wait outside the practice build, where the layouts
\* are open whatever is answered.
FloorGate == IF flag.on THEN "open" ELSE IF Asks THEN "loading" ELSE "off"

ConnectorGate == IF Asks /\ ~flag.demo THEN "loading" ELSE IF flag.on THEN "open" ELSE "off"

LayoutGate ==
  IF Asks /\ ~flag.demo THEN "loading" ELSE IF flag.on \/ flag.demo THEN "open" ELSE "off"

Gate ==
  CASE flag.screen = "connector" -> ConnectorGate
    [] flag.screen = "layout" -> LayoutGate
    [] OTHER -> FloorGate

On == flag.screen = "bell" /\ flag.on

-----------------------------------------------------------------------------
\* Mutant of Tick: a read that failed leaves no timer behind.
TickOnce ==
  /\ On /\ bell.visible /\ read.st = "idle" /\ ~bell.failed
  /\ read' = [read EXCEPT !.st = "out"]
  /\ UNCHANGED <<api, bell, marks, said, flag, reader>>

\* tick: one read at a time, only while the tab is visible; then the next is due.
Tick ==
  /\ On /\ bell.visible /\ read.st = "idle"
  /\ read' = [read EXCEPT !.st = "out"]
  /\ UNCHANGED <<api, bell, marks, said, flag, reader>>

Serve ==
  /\ read.st = "out"
  /\ read' = [st |-> "ok", got |-> Answer]
  /\ UNCHANGED <<api, bell, marks, said, flag, reader>>

\* Mutant of Says: only a count that rose is kept.
SaysOnlyMore(list) ==
  LET more == Cardinality(list.unread) > said.last
  IN  said' = [last |-> IF more THEN Cardinality(list.unread) ELSE said.last, first |-> FALSE,
               told |-> ~said.first /\ more]

\* New ones are said out loud, once.
Says(list) ==
  said' = [last |-> Cardinality(list.unread), first |-> FALSE,
           told |-> ~said.first /\ Cardinality(list.unread) > said.last]

Shows(list) == bell' = [bell EXCEPT !.list = list, !.known = TRUE, !.failed = FALSE]

Lands ==
  /\ read.st = "ok"
  /\ Shows(read.got) /\ Says(read.got)
  /\ read' = Idle
  /\ UNCHANGED <<api, marks, flag, reader>>

Misses ==
  /\ read.st = "out"
  /\ bell' = [bell EXCEPT !.failed = TRUE]
  /\ read' = Idle
  /\ UNCHANGED <<api, marks, said, flag, reader>>

\* toggle: opening starts the loop again, with a read at once; the one under way is let go of.
Open ==
  /\ On /\ ~bell.open
  /\ bell' = [bell EXCEPT !.open = TRUE]
  /\ read' = IF bell.visible THEN [Idle EXCEPT !.st = "out"] ELSE Idle
  /\ UNCHANGED <<api, marks, said, flag, reader>>

Close ==
  /\ bell.open
  /\ bell' = [bell EXCEPT !.open = FALSE]
  /\ UNCHANGED <<api, read, marks, said, flag, reader>>

Visibility ==
  /\ flag.screen = "bell"
  /\ bell' = [bell EXCEPT !.visible = ~@]
  /\ read' = IF On /\ ~bell.visible /\ read.st = "idle" THEN [read EXCEPT !.st = "out"] ELSE read
  /\ UNCHANGED <<api, marks, said, flag, reader>>

\* What the panel says, and whether it says that the last update failed.
Note ==
  CASE ~bell.known /\ bell.failed -> "could not load"
    [] ~bell.known /\ ~bell.failed -> "loading"
    [] bell.known /\ bell.list.ids = {} -> "nothing yet"
    [] OTHER -> "list"

Warned == bell.known /\ bell.failed

-----------------------------------------------------------------------------
\* oneRead, allRead: what the bell shows before the API has answered.
OneRead(list, ids) == [list EXCEPT !.unread = @ \ ids]

\* An item opened: shown read at once, told to the API, whose answer is not waited for.
OpenItem ==
  /\ bell.open /\ Cardinality(marks) < 1
  /\ \E i \in bell.list.unread :
       /\ bell' = [bell EXCEPT !.list = OneRead(@, {i}), !.open = FALSE]
       /\ marks' = marks \cup {{i}}
       /\ said' = [said EXCEPT !.last = Cardinality(OneRead(bell.list, {i}).unread), !.told = FALSE]
  /\ UNCHANGED <<api, read, flag, reader>>

MarkServed ==
  /\ \E ids \in marks : marks' = marks \ {ids} /\ api' = [api EXCEPT !.unread = @ \ ids]
  /\ UNCHANGED <<bell, read, said, flag, reader>>

MarkLost ==
  /\ \E ids \in marks : marks' = marks \ {ids}
  /\ UNCHANGED <<api, bell, read, said, flag, reader>>

\* "Mark all read": busy until it is answered, with the new list or without one.
MarkAll ==
  /\ bell.open /\ bell.list.unread # {} /\ bell.marking = "idle"
  /\ bell' = [bell EXCEPT !.marking = "out"]
  /\ UNCHANGED <<api, read, marks, said, flag, reader>>

MarkAllServed ==
  /\ bell.marking = "out"
  /\ api' = [api EXCEPT !.unread = {}]
  /\ bell' = [bell EXCEPT !.marking = "ok"]
  /\ UNCHANGED <<read, marks, said, flag, reader>>

MarkAllLands ==
  /\ bell.marking = "ok"
  /\ LET list == IF bell.withList THEN Answer ELSE OneRead(bell.list, Ids) IN
       /\ bell' = [bell EXCEPT !.list = list, !.marking = "idle"]
       /\ Says(list)
  /\ UNCHANGED <<api, read, marks, flag, reader>>

MarkAllFails ==
  /\ bell.marking = "out"
  /\ \/ api' = [api EXCEPT !.unread = {}]
     \/ UNCHANGED api
  /\ bell' = [bell EXCEPT !.marking = "idle"]
  /\ UNCHANGED <<read, marks, said, flag, reader>>

\* The floor tells this member something.
Happens ==
  /\ flag.screen = "bell"
  /\ \E i \in Ids : /\ \A j \in Ids : j < i => j \in api.ids
                    /\ i \notin api.ids
                    /\ api' = [ids |-> api.ids \cup {i}, unread |-> api.unread \cup {i}]
  /\ UNCHANGED <<bell, read, marks, said, flag, reader>>

Init ==
  /\ api = [ids |-> {1}, unread |-> {1}]
  /\ \E withList \in BOOLEAN :
       bell = [list |-> Nobody, known |-> FALSE, open |-> FALSE, visible |-> TRUE, failed |-> FALSE, marking |-> "idle", withList |-> withList]
  /\ read = Idle
  /\ marks = {}
  /\ said = [last |-> 0, first |-> TRUE, told |-> FALSE]
  /\ \E screen \in Screens, demo \in BOOLEAN,
        l \in [{"file", "path", "env"} -> Says3] :
       /\ screen = "bell" => ~demo /\ l.path = "absent" /\ l.env = "absent" /\ l.file \in {"on", "off"}
       /\ flag = [screen |-> screen, demo |-> demo, layers |-> l, ask |-> "out", on |-> demo, edits |-> 0]
  /\ reader = [at |-> "find", acc |-> FALSE, found |-> <<>>]

Switch ==
  \/ FindFile \/ ReadLayer \/ EditFile
  \/ AnswerLands \/ GarbageLands \/ NoAnswer \/ Unmounts

Next ==
  \/ Switch
  \/ Tick \/ Serve \/ Lands \/ Misses
  \/ Open \/ Close \/ Visibility
  \/ OpenItem \/ MarkServed \/ MarkLost
  \/ MarkAll \/ MarkAllServed \/ MarkAllLands \/ MarkAllFails
  \/ Happens

\* The tab is looked at now and then, and a read is answered now and then.
Fairness ==
  /\ SF_vars(Tick) /\ SF_vars(Serve) /\ SF_vars(Lands)
  /\ WF_vars(Visibility /\ ~bell.visible) /\ WF_vars(NoAnswer)

Spec == Init /\ [][Next]_vars /\ Fairness

-----------------------------------------------------------------------------
\* The shapes of its state.
Lists == {l \in [ids : SUBSET Ids, unread : SUBSET Ids] : l.unread \subseteq l.ids}
Bells == [list : Lists, known : BOOLEAN, open : BOOLEAN, visible : BOOLEAN, failed : BOOLEAN,
          marking : {"idle", "out", "ok"}, withList : BOOLEAN]

TypeOK ==
  /\ api \in Lists /\ bell \in Bells
  /\ read.st \in {"idle", "out", "ok"}
  /\ flag.ask \in {"out", "answered", "none", "gone"} /\ reader.at \in {"find", "file", "path", "env", "done"}
  /\ said.last \in 0..MaxId
  /\ ~said.first => said.last = Cardinality(bell.list.unread)

\* Whatever the marks and reads crossed, the bell comes to show what the API has, again and
\* again, and not as a list that may be out of date: a mark shown read that the API never heard
\* of comes back unread.  And no screen waits on its switch for good.
CountTrue ==
  /\ ~Asks
  /\ On => \/ Note = "list" /\ ~Warned /\ bell.list = Answer
           \/ marks # {} \/ bell.marking # "idle"

BellTrue == []<>CountTrue

\* What the layers say that were found: all of them valid, and the last to name it says on.
SaysOn(found) ==
  LET named == {i \in DOMAIN found : found[i] \in {"on", "off"}}
  IN  (\A i \in DOMAIN found : found[i] # "bad") /\ named # {} /\ found[Max(named)] = "on"

\* However the layers are edited while they are read, a live screen is open only after an
\* answer put together from valid layers of which the last to name the flag says on; none is
\* closed while the answer is out; and in the practice build an answer of off closes the
\* floor and the connector.
SwitchTrue ==
  /\ ~flag.demo /\ Gate = "open" => flag.ask = "answered" /\ reader.at = "done" /\ SaysOn(reader.found)
  /\ Gate = "off" => ~Asks
  /\ (flag.screen \in {"floor", "connector"} /\ flag.ask = "answered" /\ ~flag.on) => Gate = "off"
  /\ reader.at = "done" => (reader.acc <=> Len(reader.found) = 3 /\ SaysOn(reader.found))
  /\ ~On => read = Idle

\* Once a page has its answer, or has gone without, the screen neither opens nor closes again.
SettledStep == ~Asks => Gate' = Gate
=============================================================================
