--------------------------- MODULE MachineLibrary ---------------------------
(***************************************************************************)
(* The mechanic's library: blueprints uploaded in steps, kept by the API   *)
(* as files by content, deleted while machines built from them stand; who  *)
(* is the mechanic, and one browser's idea of both. Any answer may be lost,*)
(* and an aborted request may still be served, before or after what the    *)
(* browser sends next. (Where they stand is LobbyMachines.)                *)
(***************************************************************************)
EXTENDS Naturals, FiniteSets

CONSTANTS Blueprints,  \* ids the API gives out: 1..n
          Files,       \* files by content: two blueprints may share one
          MaxRoles     \* bound: times who is the mechanic, or who is signed in, changes

VARIABLES
  api,    \* lib, files, the blueprints of standing machines, and mine: our member is the mechanic
  page,   \* who the browser takes itself for, and its library
  busy,   \* its switch of roles or its deletion under way
  up,     \* its upload, and what became of the last one
  wire    \* upload requests on their way: one aborted is served all the same, or lost

vars == <<api, page, busy, up, wire>>

-----------------------------------------------------------------------------
\* _drop_unused: a file goes once no blueprint in the library and no standing machine uses it.
KeepsFileInLibrary(a, b) == a.lib[b].st \in {"ready", "started"}

KeepsFile(a, b) == a.lib[b].st \in {"ready", "started"} \/ (a.lib[b].st = "gone" /\ b \in a.standing)

Library(a) == {b \in Blueprints : a.lib[b].st = "ready"}
FileOf(b) == api.lib[b].file

DropUnused(a, f) ==
  [a EXCEPT !.files = IF \E b \in Blueprints : KeepsFile(a, b) /\ a.lib[b].file = f THEN @ ELSE @ \ {f}]

RoomInLibrary(a) == \E b \in Blueprints : a.lib[b].st = "none"
NextBlueprint(a) == CHOOSE b \in Blueprints : a.lib[b].st = "none" /\ \A x \in 1..(b - 1) : a.lib[x].st # "none"

\* start_upload, then finish_upload: refused unless the upload is still there.
Started(a, f) == [a EXCEPT !.lib[NextBlueprint(a)] = [st |-> "started", file |-> f]]
Finished(a, b) ==
  IF a.lib[b].st = "started"
  THEN [a EXCEPT !.lib[b].st = "ready", !.files = @ \cup {a.lib[b].file}] ELSE a

\* delete_blueprint: an unfinished upload is dropped, a blueprint leaves the library.
DeletedOnlyUnfinished(a, b) ==
  IF a.lib[b].st = "started" THEN [a EXCEPT !.lib[b].st = "dropped"] ELSE a

Deleted(a, b) ==
  IF a.lib[b].st = "started" THEN [a EXCEPT !.lib[b].st = "dropped"]
  ELSE IF a.lib[b].st = "ready" THEN DropUnused([a EXCEPT !.lib[b].st = "gone"], a.lib[b].file)
  ELSE a

-----------------------------------------------------------------------------
Idle == [kind |-> "none", b |-> 1, st |-> "none", on |-> FALSE]
NoUpload == [st |-> "none", b |-> 0, file |-> CHOOSE f \in Files : TRUE, told |-> "nothing", clean |-> "none"]
Mechanic == page.access = "member" /\ page.mechanic

\* setBuilder: signed in, or out; nothing of the mechanic's is kept.
SetBuilder ==
  /\ page.role < MaxRoles
  /\ page' = [page EXCEPT !.access = IF @ = "out" THEN "checking" ELSE "out", !.mechanic = FALSE,
                          !.role = @ + 1, !.who = IF page.access = "out" THEN "out" ELSE @]
  /\ UNCHANGED <<api, busy, up, wire>>

\* recheck, after a role changed in the bricks' own panel. Bound: whoAmI is asked one at a time.
Recheck ==
  /\ page.access # "out" /\ page.who = "none" /\ page.role > 0
  /\ page' = [page EXCEPT !.who = "out"]
  /\ UNCHANGED <<api, busy, up, wire>>

ServeWho ==
  /\ page.who = "out"
  /\ page' = [page EXCEPT !.who = IF api.mine THEN "yes" ELSE "no"]
  /\ UNCHANGED <<api, busy, up, wire>>

\* whoAmI: an answer no one waits for is dropped; a mechanic's library is loaded.
Learns(p, yes) == [p EXCEPT !.mechanic = yes, !.lib = IF yes /\ @ = "idle" THEN "loading" ELSE @]

WhoLands ==
  /\ page.who # "none"
  /\ page' = LET p == [page EXCEPT !.who = "none"]
             IN  IF page.access = "out" THEN p
                 ELSE IF page.who = "out" THEN [p EXCEPT !.access = "unavailable", !.mechanic = FALSE]
                 ELSE Learns([p EXCEPT !.access = "member"], page.who = "yes")
  /\ UNCHANGED <<api, busy, up, wire>>

\* Another tab's avatar editor, or being the Lego bot.
RoleMoves ==
  /\ page.role < MaxRoles
  /\ api' = [api EXCEPT !.mine = ~@]
  /\ page' = [page EXCEPT !.role = @ + 1]
  /\ UNCHANGED <<busy, up, wire>>

\* loadLibrary: asked, read by the API, answered or not.
LoadLibrary ==
  /\ Mechanic /\ page.lib \in {"idle", "ready", "error"}
  /\ page' = [page EXCEPT !.lib = "loading"]
  /\ UNCHANGED <<api, busy, up, wire>>

ServeLibrary ==
  /\ page.lib = "loading"
  /\ page' = [page EXCEPT !.lib = "got", !.list = Library(api)]
  /\ UNCHANGED <<api, busy, up, wire>>

LibraryLands ==
  /\ page.lib = "got"
  /\ page' = [page EXCEPT !.lib = "ready", !.items = page.list, !.list = {}]
  /\ UNCHANGED <<api, busy, up, wire>>

LibraryFails ==
  /\ page.lib \in {"loading", "got"}
  /\ page' = [page EXCEPT !.lib = "error", !.list = {}]
  /\ UNCHANGED <<api, busy, up, wire>>

-----------------------------------------------------------------------------
\* startUpload: the file is read (a STEP file meshed first), the upload started, its chunks
\* sent, then finished. Bound: the next upload waits for the last one's requests.
StartUpload ==
  /\ Mechanic /\ up.st = "none" /\ wire = {}
  /\ \E f \in Files : up' = [NoUpload EXCEPT !.st = "reading", !.file = f]
  /\ UNCHANGED <<api, page, busy, wire>>

\* The start's answer, or its loss: then there is no id to clean up by.
UploadStarts ==
  /\ up.st = "reading" /\ api.mine /\ RoomInLibrary(api)
  /\ api' = Started(api, up.file)
  /\ \/ up' = [up EXCEPT !.st = "sending", !.b = NextBlueprint(api)]
     \/ up' = [up EXCEPT !.st = "none", !.told = "failed"]
  /\ UNCHANGED <<page, busy, wire>>

FinishUpload ==
  /\ up.st = "sending"
  /\ up' = [up EXCEPT !.st = "finishing"]
  /\ wire' = wire \cup {"finish"}
  /\ UNCHANGED <<api, page, busy>>

ServeFinish ==
  /\ "finish" \in wire
  /\ wire' = wire \ {"finish"}
  /\ api' = IF api.mine THEN Finished(api, up.b) ELSE api
  /\ UNCHANGED <<page, busy, up>>

\* The finish answer: the new blueprint joins the library shown.
UploadAdded ==
  /\ up.st = "finishing" /\ "finish" \notin wire /\ api.lib[up.b].st \in {"ready", "gone"}
  /\ up' = NoUpload
  /\ page' = [page EXCEPT !.items = @ \cup {up.b}, !.lib = IF @ \in {"loading", "got"} THEN @ ELSE "ready"]
  /\ UNCHANGED <<api, busy, wire>>

\* Cancelled, refused, or an answer lost: told so, and what was started is deleted.
UploadFails ==
  /\ up.st # "none"
  /\ up' = [up EXCEPT !.st = "none", !.told = "failed", !.clean = IF up.b = 0 THEN "none" ELSE "out"]
  /\ wire' = IF up.b = 0 THEN wire ELSE wire \cup {"delete"}
  /\ UNCHANGED <<api, page, busy>>

ServeCleanUp ==
  /\ "delete" \in wire
  /\ wire' = wire \ {"delete"}
  /\ api' = IF api.mine THEN Deleted(api, up.b) ELSE api
  /\ up' = [up EXCEPT !.clean = IF api.mine THEN "served" ELSE "refused"]
  /\ UNCHANGED <<page, busy>>

UploadLost ==
  /\ \E r \in wire :
       /\ wire' = wire \ {r}
       /\ up' = [up EXCEPT !.clean = IF r = "delete" THEN "refused" ELSE @]
  /\ UNCHANGED <<api, page, busy>>

\* _purge: an upload left for an hour.
UploadForgotten ==
  /\ up.st = "none" /\ wire = {}
  /\ \E b \in Blueprints :
       /\ api.lib[b].st = "started"
       /\ api' = [api EXCEPT !.lib[b].st = "dropped"]
  /\ UNCHANGED <<page, busy, up, wire>>

\* stand-in: an admin takes the mechanic over to test, or gives him back.
PressStandIn ==
  /\ page.access = "member" /\ busy = Idle /\ page.role < MaxRoles
  /\ page' = [page EXCEPT !.role = @ + 1]
  /\ \E on \in BOOLEAN : busy' = [Idle EXCEPT !.kind = "switching", !.on = on, !.st = "out"]
  /\ UNCHANGED <<api, up, wire>>

\* delete-blueprint (deleting; one at a time, and so is a switch: bound).
PressDelete ==
  /\ Mechanic /\ busy = Idle
  /\ \E b \in page.items : busy' = [Idle EXCEPT !.kind = "deleting", !.b = b, !.st = "out"]
  /\ UNCHANGED <<api, page, up, wire>>

Serve ==
  /\ busy.st = "out"
  /\ \/ busy.kind = "switching" /\ api' = [api EXCEPT !.mine = busy.on] /\ busy' = [busy EXCEPT !.st = "ok"]
     \/ /\ busy.kind = "deleting" /\ api.mine /\ busy.b \in Library(api)
        /\ api' = Deleted(api, busy.b)
        /\ busy' = [busy EXCEPT !.st = "ok"]
     \/ /\ busy.kind = "deleting" /\ ~(api.mine /\ busy.b \in Library(api))
        /\ busy' = [busy EXCEPT !.st = IF api.mine THEN "gone" ELSE "lost"]
        /\ UNCHANGED api
  /\ UNCHANGED <<page, up, wire>>

Lost ==
  /\ busy.st \in {"out", "ok"}
  /\ busy' = [busy EXCEPT !.st = "lost"]
  /\ UNCHANGED <<api, page, up, wire>>

Answer ==
  /\ busy.st \in {"ok", "gone", "lost"}
  /\ page' = CASE busy.st = "gone" -> [page EXCEPT !.lib = IF @ = "got" THEN @ ELSE "loading"]
               [] busy.st = "ok" /\ busy.kind = "switching" ->
                    Learns(page, busy.on)
               [] busy.st = "ok" /\ busy.kind = "deleting" ->
                    [page EXCEPT !.items = @ \ {busy.b}]
               [] OTHER -> page
  /\ busy' = Idle
  /\ UNCHANGED <<api, up, wire>>

\* Machines going up and coming down, and another mechanic's uploads and deletions.
Stands ==
  /\ \E b \in Library(api) \ api.standing : api' = [api EXCEPT !.standing = @ \cup {b}]
  /\ UNCHANGED <<page, busy, up, wire>>

ComesDown ==
  /\ \E b \in api.standing : api' = DropUnused([api EXCEPT !.standing = @ \ {b}], FileOf(b))
  /\ UNCHANGED <<page, busy, up, wire>>

OtherUploads ==
  /\ RoomInLibrary(api)
  /\ \E f \in Files : api' = Finished(Started(api, f), NextBlueprint(api))
  /\ UNCHANGED <<page, busy, up, wire>>

OtherDeletes ==
  /\ \E b \in Library(api) : api' = Deleted(api, b)
  /\ UNCHANGED <<page, busy, up, wire>>

-----------------------------------------------------------------------------
Init ==
  /\ api = [lib |-> [b \in Blueprints |-> [st |-> "none", file |-> NoUpload.file]], files |-> {},
            standing |-> {}, mine |-> TRUE]
  /\ page = [access |-> "checking", mechanic |-> FALSE, who |-> "out", role |-> 0, lib |-> "idle",
             list |-> {}, items |-> {}]
  /\ busy = Idle /\ up = NoUpload /\ wire = {}

Who == SetBuilder \/ Recheck \/ ServeWho \/ WhoLands \/ RoleMoves
LibraryReads == LoadLibrary \/ ServeLibrary \/ LibraryLands \/ LibraryFails
Uploads ==
  \/ StartUpload \/ UploadStarts \/ FinishUpload \/ ServeFinish \/ UploadAdded
  \/ UploadFails \/ ServeCleanUp \/ UploadLost \/ UploadForgotten
Writes == PressStandIn \/ PressDelete \/ Serve \/ Lost \/ Answer
Others == Stands \/ ComesDown \/ OtherUploads \/ OtherDeletes

Next == Who \/ LibraryReads \/ Uploads \/ Writes \/ Others

Spec == Init /\ [][Next]_vars

-----------------------------------------------------------------------------
\* The shapes of its state.
Libraries == [lib : [Blueprints -> [st : {"none", "started", "ready", "gone", "dropped"}, file : Files]],
              files : SUBSET Files, standing : SUBSET Blueprints, mine : BOOLEAN]

TypeOK ==
  /\ api \in Libraries
  /\ page.lib \in {"idle", "loading", "got", "ready", "error"} /\ page.items \subseteq Blueprints
  /\ busy.st \in {"none", "out", "ok", "gone", "lost"}
  /\ up.st \in {"none", "reading", "sending", "finishing"} /\ wire \subseteq {"finish", "delete"}

\* A blueprint in the library and a machine that stands always have their file, however
\* uploads, deletions and take-downs of blueprints that share it follow each other.
FilesStand == \A b \in Library(api) \cup api.standing : FileOf(b) \in api.files

\* An upload that was told cancelled or failed leaves nothing in the library once its
\* clean-up was served: before or after the finish request it gave up on.
FailedUploadLeavesNothing ==
  up.told = "failed" /\ up.clean = "served" => api.lib[up.b].st # "ready"
=============================================================================
