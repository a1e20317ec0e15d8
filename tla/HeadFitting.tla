----------------------------- MODULE HeadFitting -----------------------------
(***************************************************************************)
(* The head library under the avatar editor, and its fitting tool: a file  *)
(* to add or to replace a head with, or a library head to adjust, is read, *)
(* measured and fitted; the page holds the placement the tool last told it *)
(* and sends it along. A handler runs with the effects React runs after it,*)
(* before the next one: Renders is those effects.                          *)
(***************************************************************************)
EXTENDS Naturals

CONSTANTS Files, Heads,   \* sources: files picked, heads of the chosen member
          Fits,           \* replace, accessory, back
          FitOf           \* the fit each library head has

VARIABLES
  page,    \* HeadLibrary: file, adj, rep, fit, over, place, up, refit, retry
  lib,     \* the heads in the library the page shows
  tool,    \* HeadFitter: src, fit, read, reading, place, aim, preview
  loads,   \* files and heads being read, and whether the effect that asked still stands
  sent     \* the last placement on its way: for what, made for what, with a preview or not

vars == <<page, lib, tool, loads, sent>>

-----------------------------------------------------------------------------
None == "none"
NoPlace == [of |-> None, fit |-> None]
NoAim == [src |-> None, fit |-> None, over |-> None]
NoRetry == [head |-> None, place |-> NoPlace, preview |-> FALSE]
NoSend == [for |-> None, fit |-> None, place |-> NoPlace, preview |-> TRUE]
NoTool == [src |-> None, fit |-> None, over |-> None, read |-> None, reading |-> "off", place |-> NoPlace,
           aim |-> NoAim, preview |-> FALSE]

Busy == page.up = "sending"
Refitting == page.refit = "saving"

\* fitSource: the file, else the head being adjusted; each has a place of its own on the page.
Source(p) == IF p.file # None THEN p.file ELSE p.adj
FitShown(p) == IF p.file # None THEN p.fit ELSE IF p.adj # None THEN FitOf[p.adj] ELSE None
SamePlace(a, b) == (a \in Files /\ b \in Files) \/ (a \in Heads /\ b \in Heads)
Held(p) == p.up = "sending" \/ p.refit = "saving"

\* The effect on a new source: read it, forget the placement, the aim, and tell the page.
StartsOver(t) == [t EXCEPT !.reading = "reading", !.place = NoPlace, !.aim = NoAim]
StartsOverKeeping(t) == [t EXCEPT !.reading = "reading", !.aim = NoAim]

Starts(t) == StartsOver(t)

\* The effects of fit, worn and disabled on a tool that goes on.
Goes(t, p) ==
  LET refit == t.reading = "ready" /\ t.fit # FitShown(p)
      drop == refit \/ t.over # p.over \/ Held(p) IN
  [t EXCEPT !.fit = FitShown(p), !.over = p.over,
            !.place = IF refit THEN [of |-> t.read, fit |-> FitShown(p)] ELSE @,
            !.aim = IF drop THEN NoAim ELSE @]

\* The effect's clean-up, after which nobody waits for what was being read, whatever it was;
\* and what it reads when there is a preview to read it.
NoRead == [of |-> None, live |-> FALSE]

Reading(src, built) ==
  {NoRead : l \in loads} \cup (IF built THEN {[of |-> src, live |-> TRUE]} ELSE {})

\* onChange: the page hears every change, and a change clears what the last save said.
Hears(p, place) ==
  LET said == p.file = None /\ p.refit \in {"saved", "error"} IN
  [p EXCEPT !.place = place, !.refit = IF said THEN "idle" ELSE @, !.retry = IF said THEN NoRetry ELSE @]

\* What a change of the page does: the tool goes, comes (its preview built or not), starts
\* over on a new source, or goes on. again is Try again, or a head that came back changed.
Renders(p, again) ==
  LET src == Source(p)
      stays == SamePlace(tool.src, src)
      new == ~stays \/ tool.src # src \/ again IN
  \E built \in IF stays THEN {tool.preview} ELSE BOOLEAN :
    LET base == IF stays THEN [tool EXCEPT !.src = src]
                ELSE [NoTool EXCEPT !.src = src, !.fit = FitShown(p), !.over = p.over, !.reading = "reading",
                                    !.preview = built]
        t == Goes(IF new /\ built THEN Starts(base) ELSE base, p)
    IN  IF src = None
        THEN page' = p /\ tool' = NoTool /\ loads' = Reading(src, FALSE)
        ELSE /\ tool' = t
             /\ page' = IF t.place # tool.place \/ new THEN Hears(p, t.place) ELSE p
             /\ loads' = IF new THEN Reading(src, built) ELSE loads

-----------------------------------------------------------------------------
\* onFile: a .glb small enough, or one refused (no file then).
PickFile ==
  /\ ~Busy
  /\ \E f \in Files \cup {None} : Renders([page EXCEPT !.file = f, !.adj = None, !.up = "idle"], f # None)
  /\ UNCHANGED <<lib, sent>>

SetFit ==
  /\ ~Busy
  /\ \E fit \in Fits \ {page.fit} : Renders([page EXCEPT !.fit = fit], FALSE)
  /\ UNCHANGED <<lib, sent>>

\* Fitted over: another of the member's heads, or the robot's own.
SetOver ==
  /\ ~Busy /\ ~Refitting /\ FitShown(page) = "accessory"
  /\ \E over \in {"own", "other"} \ {page.over} : Renders([page EXCEPT !.over = over], FALSE)
  /\ UNCHANGED <<lib, sent>>

StartAdjust ==
  /\ ~Busy /\ ~Refitting
  /\ \E h \in lib : Renders([page EXCEPT !.rep = FALSE, !.file = None, !.up = "idle", !.refit = "idle", !.retry = NoRetry,
                                        !.adj = h], FALSE)
  /\ UNCHANGED <<lib, sent>>

CloseAdjust ==
  /\ page.adj # None /\ page.file = None /\ ~Refitting
  /\ Renders([page EXCEPT !.adj = None], FALSE)
  /\ UNCHANGED <<lib, sent>>

StartReplace ==
  /\ ~Busy /\ ~Refitting
  /\ \E h \in lib : Renders([page EXCEPT !.adj = None, !.rep = TRUE, !.fit = FitOf[h], !.file = None, !.up = "idle"], FALSE)
  /\ UNCHANGED <<lib, sent>>

CancelReplace ==
  /\ page.rep /\ ~Busy
  /\ Renders([page EXCEPT !.rep = FALSE, !.fit = "replace", !.file = None], FALSE)
  /\ UNCHANGED <<lib, sent>>

\* remove, answered: the head is gone from the page, and so is its fitting.
Remove ==
  /\ ~Busy /\ ~Refitting
  /\ \E h \in lib :
       /\ lib' = lib \ {h}
       /\ Renders([page EXCEPT !.adj = IF @ = h THEN None ELSE @], FALSE)
  /\ UNCHANGED sent

-----------------------------------------------------------------------------
\* A source read: measured and guessed for the fit it lands with (a library head's saved
\* placement is for its own fit); one nobody waits for is dropped; one that fails is told.
ReadLands ==
  /\ \E l \in loads :
       /\ loads' = loads \ {l}
       /\ IF l.live
          THEN LET place == [of |-> l.of, fit |-> tool.fit]
               IN  tool' = [tool EXCEPT !.reading = "ready", !.read = l.of, !.place = place] /\ page' = Hears(page, place)
          ELSE UNCHANGED <<tool, page>>
  /\ UNCHANGED <<lib, sent>>

ReadFails ==
  /\ \E l \in loads :
       /\ loads' = loads \ {l}
       /\ tool' = IF l.live THEN [tool EXCEPT !.reading = "error"] ELSE tool
  /\ UNCHANGED <<page, lib, sent>>

\* Try again: a new preview, which may not be had; without one nothing starts over.
TryAgain ==
  /\ tool.src # None
  /\ \E built \in BOOLEAN :
       LET t == [tool EXCEPT !.preview = built] IN
       /\ tool' = IF built THEN Starts(t) ELSE t
       /\ page' = IF built THEN Hears(page, tool'.place) ELSE page
       /\ loads' = Reading(tool.src, built)
  /\ UNCHANGED <<lib, sent>>

\* Size, Move, the angles, Reset to auto-fit: a placement of the same head.
Locked == tool.reading # "ready" \/ tool.place = NoPlace \/ Held(page)

Nudge ==
  /\ ~Locked
  /\ tool' = [tool EXCEPT !.place = [of |-> tool.read, fit |-> tool.fit]]
  /\ page' = Hears(page, tool'.place)
  /\ UNCHANGED <<lib, loads, sent>>

\* Place left eye, line up an eye hole, mark the mouth.
TakeAim ==
  /\ ~Locked /\ tool.preview
  /\ tool' = [tool EXCEPT !.aim = [src |-> tool.src, fit |-> tool.fit, over |-> tool.over]]
  /\ UNCHANGED <<page, lib, loads, sent>>

\* The aim is over, or goes on to the other eye (after the mouth: to its eyes again, when the
\* fit had put them in it). An eye hole is one click.
Hit ==
  /\ tool.aim # NoAim /\ tool.place # NoPlace
  /\ tool' = [tool EXCEPT !.aim = NoAim] \/ (tool.fit # "accessory" /\ UNCHANGED tool)
  /\ page' = Hears(page, tool.place)
  /\ UNCHANGED <<lib, loads, sent>>

StopAiming ==
  /\ tool.aim # NoAim
  /\ tool' = [tool EXCEPT !.aim = NoAim]
  /\ UNCHANGED <<page, lib, loads, sent>>

-----------------------------------------------------------------------------
\* submit: the file, its fit and the placement, under a new id or the replaced head's.
Submit ==
  /\ ~Busy /\ page.file # None /\ page.place # NoPlace
  /\ sent' = [for |-> page.file, fit |-> page.fit, place |-> page.place, preview |-> tool.preview]
  /\ Renders([page EXCEPT !.up = "sending"], FALSE)
  /\ UNCHANGED lib

Uploaded ==
  /\ Busy
  /\ Renders([page EXCEPT !.up = "idle", !.rep = FALSE, !.file = None], FALSE)
  /\ sent' = NoSend /\ UNCHANGED lib

UploadFails ==
  /\ Busy
  /\ Renders([page EXCEPT !.up = "error"], FALSE)
  /\ sent' = NoSend /\ UNCHANGED lib

\* saveFit; its Try again holds the head and the placement that failed.
Saves(r) ==
  /\ sent' = [for |-> r.head, fit |-> FitOf[r.head], place |-> r.place, preview |-> r.preview]
  /\ Renders([page EXCEPT !.refit = "saving", !.retry = r], FALSE)
  /\ UNCHANGED lib

SaveFit ==
  /\ page.adj # None /\ page.file = None /\ ~Refitting /\ page.place # NoPlace
  /\ Saves([head |-> page.adj, place |-> page.place, preview |-> tool.preview])

RetryFit ==
  /\ page.adj # None /\ page.file = None /\ page.refit = "error"
  /\ Saves(page.retry)

\* Its answer opens the fitting of that head (again), whatever was opened meanwhile.
FitSaved ==
  /\ Refitting
  /\ Renders([page EXCEPT !.refit = "saved", !.adj = page.retry.head, !.retry = NoRetry], FALSE)
  /\ sent' = NoSend /\ UNCHANGED lib

FitFails ==
  /\ Refitting
  /\ Renders([page EXCEPT !.refit = "error"], FALSE)
  /\ sent' = NoSend /\ UNCHANGED lib

-----------------------------------------------------------------------------
Init ==
  /\ page = [file |-> None, adj |-> None, rep |-> FALSE, fit |-> "replace", over |-> "own", place |-> NoPlace,
             up |-> "idle", refit |-> "idle", retry |-> NoRetry]
  /\ lib = Heads /\ tool = NoTool /\ loads = {}
  /\ sent = NoSend

Page == PickFile \/ SetFit \/ SetOver \/ StartAdjust \/ CloseAdjust \/ StartReplace \/ CancelReplace \/ Remove
Tool == ReadLands \/ ReadFails \/ TryAgain \/ Nudge \/ TakeAim \/ Hit \/ StopAiming
Saving == Submit \/ Uploaded \/ UploadFails \/ SaveFit \/ RetryFit \/ FitSaved \/ FitFails

Next == Page \/ Tool \/ Saving

Spec == Init /\ [][Next]_vars

-----------------------------------------------------------------------------
\* The shapes of its state.
Readings == {"off", "reading", "ready", "error"}
Loads == [of : Files \cup Heads, live : {TRUE}] \cup {NoRead}

TypeOK ==
  /\ page.file \in Files \cup {None} /\ page.adj \in Heads \cup {None} /\ page.rep \in BOOLEAN
  /\ page.fit \in Fits /\ page.up \in {"idle", "sending", "error"}
  /\ page.refit \in {"idle", "saving", "saved", "error"}
  /\ lib \subseteq Heads /\ loads \subseteq Loads
  /\ tool.src = Source(page) /\ tool.reading \in Readings

\* A placement that is sent was made on the very file or head it is sent for, and for the
\* fit it is sent with: however files, heads and fits were changed while they were being read,
\* and whichever save is tried again. (Where no preview could be built, nothing starts over.)
FitIsItsOwn == sent.preview /\ sent.for # None => sent.place = [of |-> sent.for, fit |-> sent.fit]

\* A click being aimed is aimed at what the tool fits now, over the head it is fitted over now.
AimIsCurrent ==
  tool.aim # NoAim /\ tool.preview =>
    tool.aim.src = tool.src /\ tool.aim.fit = tool.fit /\ tool.aim.over = tool.over
=============================================================================
