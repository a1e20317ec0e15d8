------------------------------ MODULE AgentStart ------------------------------
(***************************************************************************)
(* "Start it for me" and the notes: the panels of the start rails, a saved *)
(* or pasted key, a start whose answer may be lost and is then looked for  *)
(* in the task's status, and the checks' notes relayed to the agent that   *)
(* was started last.  Time goes by in windows of two minutes.              *)
(***************************************************************************)
EXTENDS Naturals, FiniteSets

CONSTANTS Rails,    \* start rails the API lists
          Relays,   \* those whose vendor takes the notes
          MaxTime   \* two-minute windows

VARIABLES
  api,    \* rail -> window of its last start and relay, keys kept, vendors that refuse a key
  now,    \* the window
  panel,  \* the open rail, the message under it, keys as the page knows them
  start,  \* the start under way
  notes   \* the notes: what is said, the relay under way

vars == <<api, now, panel, start, notes>>

Never == MaxTime + 1
None == "none"
NoStart == [rail |-> None, saved |-> FALSE, at |-> 0, st |-> "idle"]
Before(t) == IF t = 0 THEN 0 ELSE t - 1

\* startedSince, relayedSince: the status records one from a window before the press, or later.
StartedSince(r, t) == api.started[r] # Never /\ api.started[r] >= Before(t)
RelayedSince(r, t) == api.relayed[r] # Never /\ api.relayed[r] >= Before(t)

\* lastStartRail: whichever was started last.
LastStarted == {r \in Rails : /\ api.started[r] # Never
                              /\ \A q \in Rails : api.started[q] # Never => api.started[q] <= api.started[r]}
CanRelay(r) == r \in LastStarted \cap Relays /\ r \in api.keys

-----------------------------------------------------------------------------
\* choose: another panel, or none; what was said goes.
Choose ==
  /\ \E r \in Rails : panel' = [panel EXCEPT !.open = IF @ = r THEN None ELSE r, !.said = None, !.of = None, !.different = FALSE]
  /\ UNCHANGED <<api, now, start, notes>>

KnowsSaved(r) == r \in panel.saved
UseDifferentKey ==
  /\ panel.open # None /\ KnowsSaved(panel.open) /\ start.st = "idle"
  /\ panel' = [panel EXCEPT !.different = ~@, !.said = IF panel.different THEN @ ELSE None, !.of = IF panel.different THEN @ ELSE None]
  /\ UNCHANGED <<api, now, start, notes>>

\* submit: with the saved key, or one pasted (and remembered, or not); the form is cleared.
Submit ==
  /\ panel.open # None /\ start.st = "idle"
  /\ start' = [rail |-> panel.open, saved |-> KnowsSaved(panel.open) /\ ~panel.different, at |-> now, st |-> "out"]
  /\ panel' = [panel EXCEPT !.said = None, !.of = None, !.busy = TRUE]
  /\ UNCHANGED <<api, now, notes>>

\* The API starts it; a second start within a window is refused, and so is a bad key.
Recent(r) == StartedSince(r, now)
ServeStart ==
  /\ start.st = "out"
  /\ IF Recent(start.rail) THEN UNCHANGED api /\ start' \in {[start EXCEPT !.st = "already"], [start EXCEPT !.st = "lost"]}
     ELSE IF start.saved /\ start.rail \notin api.keys
     THEN UNCHANGED api /\ start' \in {[start EXCEPT !.st = "refused"], [start EXCEPT !.st = "lost"]}
     ELSE \/ /\ api' = [api EXCEPT !.started[start.rail] = now]
             /\ start' \in {[start EXCEPT !.st = "ok"], [start EXCEPT !.st = "lost"]}
          \/ /\ ~start.saved
             /\ api' = [api EXCEPT !.started[start.rail] = now, !.keys = @ \cup {start.rail}]
             /\ start' \in {[start EXCEPT !.st = "kept"], [start EXCEPT !.st = "lost"]}
          \/ /\ start.saved
             /\ api' = [api EXCEPT !.keys = @ \ {start.rail}]
             /\ start' \in {[start EXCEPT !.st = "rejected"], [start EXCEPT !.st = "lost"]}
  /\ UNCHANGED <<now, panel, notes>>

\* Refused for another reason, never reached, or given up on before it was served.
StartStops ==
  /\ start.st = "out"
  /\ start' \in {[start EXCEPT !.st = "refused"], [start EXCEPT !.st = "lost"]}
  /\ UNCHANGED <<api, now, panel, notes>>

Says(text) == [panel EXCEPT !.said = text, !.of = start.rail, !.busy = FALSE]

StartLands ==
  /\ start.st \in {"ok", "kept", "already"}
  /\ panel' = [Says("ok") EXCEPT !.saved = IF start.st = "kept" THEN @ \cup {start.rail} ELSE @,
                                 !.different = IF start.st = "kept" THEN FALSE ELSE @]
  /\ start' = NoStart
  /\ UNCHANGED <<api, now, notes>>

\* A saved key the vendor refused is gone.
StartRefused ==
  /\ start.st \in {"refused", "rejected"}
  /\ panel' = [Says("no") EXCEPT !.saved = IF start.st = "rejected" THEN @ \ {start.rail} ELSE @]
  /\ start' = NoStart
  /\ UNCHANGED <<api, now, notes>>

\* "It may have started. Checking...": whatever panel is open by now.
StartUnheard ==
  /\ start.st = "lost"
  /\ panel' = [panel EXCEPT !.said = "checking", !.of = start.rail]
  /\ start' = [start EXCEPT !.st = "checking"]
  /\ UNCHANGED <<api, now, notes>>

\* Mutant of Checked: a status that cannot be read leaves the words as they are.
CheckedOnlyRead ==
  /\ start.st = "checking"
  /\ \/ panel' = Says(IF StartedSince(start.rail, start.at) THEN "ok" ELSE "unclear")
     \/ panel' = [panel EXCEPT !.busy = FALSE]
  /\ start' = NoStart
  /\ UNCHANGED <<api, now, notes>>

\* checkStart: the status shows it, or it does not, or cannot be read.
Checked ==
  /\ start.st = "checking"
  /\ \/ panel' = Says(IF StartedSince(start.rail, start.at) THEN "ok" ELSE "unclear")
     \/ panel' = Says("unclear")
  /\ start' = NoStart
  /\ UNCHANGED <<api, now, notes>>

-----------------------------------------------------------------------------
\* "Send the notes": offered when the status says a relay would really happen.
SendNotes ==
  /\ notes.st = "idle"
  /\ \E r \in Rails : /\ CanRelay(r)
                      /\ notes' = [st |-> "out", rail |-> r, at |-> now, said |-> None]
  /\ UNCHANGED <<api, now, panel, start>>

ServeNotes ==
  /\ notes.st = "out"
  /\ \/ /\ api' = [api EXCEPT !.relayed[notes.rail] = now]
        /\ notes' \in {[notes EXCEPT !.st = "ok"], [notes EXCEPT !.st = "lost"]}
     \/ /\ UNCHANGED api
        /\ notes' \in {[notes EXCEPT !.st = "not_relayed"], [notes EXCEPT !.st = "refused"], [notes EXCEPT !.st = "lost"]}
  /\ UNCHANGED <<now, panel, start>>

NotesLand ==
  /\ notes.st \in {"ok", "not_relayed", "refused"}
  /\ notes' = [notes EXCEPT !.st = "idle", !.said = IF notes.st = "ok" THEN "sent" ELSE "not_sent"]
  /\ UNCHANGED <<api, now, panel, start>>

NotesUnheard ==
  /\ notes.st = "lost"
  /\ notes' = [notes EXCEPT !.st = "checking", !.said = "checking"]
  /\ UNCHANGED <<api, now, panel, start>>

\* checkRelay
NotesChecked ==
  /\ notes.st = "checking"
  /\ \/ notes' = [notes EXCEPT !.st = "idle", !.said = IF RelayedSince(notes.rail, notes.at) THEN "sent" ELSE "unclear"]
     \/ notes' = [notes EXCEPT !.st = "idle", !.said = "unclear"]
  /\ UNCHANGED <<api, now, panel, start>>

-----------------------------------------------------------------------------
\* A window goes by; a key is removed on another page.
Passes ==
  /\ now < MaxTime
  /\ now' = now + 1
  /\ UNCHANGED <<api, panel, start, notes>>

KeyRemoved ==
  /\ \E r \in api.keys : api' = [api EXCEPT !.keys = @ \ {r}]
  /\ UNCHANGED <<now, panel, start, notes>>

Init ==
  /\ now = 0
  /\ \E keys \in SUBSET Rails :
       /\ api = [started |-> [r \in Rails |-> Never], relayed |-> [r \in Rails |-> Never], keys |-> keys]
       /\ panel = [open |-> None, said |-> None, of |-> None, busy |-> FALSE, different |-> FALSE, saved |-> keys]
  /\ start = NoStart
  /\ notes = [st |-> "idle", rail |-> None, at |-> 0, said |-> None]

Next ==
  \/ Choose \/ UseDifferentKey \/ Submit \/ ServeStart \/ StartStops
  \/ StartLands \/ StartRefused \/ StartUnheard \/ Checked
  \/ SendNotes \/ ServeNotes \/ NotesLand \/ NotesUnheard \/ NotesChecked
  \/ Passes \/ KeyRemoved

Spec == Init /\ [][Next]_vars

-----------------------------------------------------------------------------
\* The shapes of its state.
Records == [started : [Rails -> 0..Never], relayed : [Rails -> 0..Never], keys : SUBSET Rails]
Panels == [open : Rails \cup {None}, said : {None, "ok", "no", "checking", "unclear"}, of : Rails \cup {None},
           busy : BOOLEAN, different : BOOLEAN, saved : SUBSET Rails]

TypeOK ==
  /\ now \in 0..MaxTime /\ api \in Records /\ panel \in Panels
  /\ panel.busy <=> start.st # "idle"
  /\ notes.said \in {None, "sent", "not_sent", "checking", "unclear"}

\* "Started" and "sent" are said of a rail only when its status has one no older than the press
\* allows, whatever panel was opened meanwhile; "checking" is never the last word.
StartTold ==
  /\ panel.said = "ok" => api.started[panel.of] # Never
  /\ panel.said = "checking" => start.st = "checking"
  /\ notes.said = "checking" => notes.st = "checking"
  /\ notes.said = "sent" => api.relayed[notes.rail] # Never
=============================================================================
