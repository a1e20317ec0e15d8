------------------------------- MODULE DraftDesk -------------------------------
(***************************************************************************)
(* The admin panel of one proposal: the test buttons that end a period,    *)
(* and, once it has passed, the draft task's form beside the house model's *)
(* draft.  The form's text lives in the page; the saved draft, the house's *)
(* draft and the task belong to the API, and another admin works on them   *)
(* too.                                                                    *)
(***************************************************************************)
EXTENDS Naturals, FiniteSets

CONSTANTS Specs,     \* what the house model may draft
          Mine,      \* what this admin may write in the form
          Theirs,    \* what another admin may save
          MaxJobs    \* drafts asked of the house model

VARIABLES
  api,    \* the proposal's state, its draft and who saved it, the house's, the published text
  seen,   \* the proposal as this page last read it
  desk,   \* the form, what it last followed, what "Undo" would put back, the open step
  op,     \* the write under way, with the text it carries
  ghost   \* the text this admin last put in the form, every text an admin saved, the drafts asked for

vars == <<api, seen, desk, op, ghost>>

-----------------------------------------------------------------------------
Texts == {"plain"} \cup Specs \cup Mine \cup Theirs
NoOp == [kind |-> "none", st |-> "none", text |-> "none"]
NoHouse == [status |-> "queued", spec |-> "none"]
HouseWorking(h) == h.status \in {"queued", "running"}
Drafting(p) == p.state = "passed" /\ p.task = "none"
Busy == op.st # "none"

\* A draft with no criteria is the plain one the pass made; it can't be saved or published.
Plain(text) == text = "plain"
Checked(text) == ~Plain(text)

\* housePlace and what the house block offers.
InForm == seen.house.spec # "none" /\ desk.form = seen.house.spec
InSaved == seen.house.spec # "none" /\ seen.draft = seen.house.spec
OffersUse == Drafting(seen) /\ ~HouseWorking(seen.house) /\ seen.house.spec # "none" /\ ~InForm
OffersUndo == desk.replaced # "none" /\ InForm /\ ~InSaved /\ desk.form = desk.filled

\* Mutant of Follows: whatever the form holds.
FollowsAnyway(d, draft) == d.followed # draft /\ Plain(d.followed)

\* When the saved draft changes under the form, the form follows only from the plain draft.
Follows(d, draft) == d.followed # draft /\ Plain(d.followed) /\ d.form = d.followed

\* Mutant of Rendered: the form is filled, and what it follows forgotten.
RenderedUnfollowed(d, p) ==
  IF ~Drafting(p) THEN d
  ELSE IF d.form = "none" THEN [d EXCEPT !.form = p.draft]
  ELSE IF Follows(d, p.draft)
       THEN [d EXCEPT !.form = p.draft, !.followed = p.draft, !.replaced = "none"]
       ELSE [d EXCEPT !.followed = p.draft]

\* A render with the proposal as read: the form is there from the moment it passed.
Rendered(d, p) ==
  IF ~Drafting(p) THEN d
  ELSE IF d.form = "none" THEN [d EXCEPT !.form = p.draft, !.followed = p.draft]
  ELSE IF Follows(d, p.draft)
       THEN [d EXCEPT !.form = p.draft, !.followed = p.draft, !.replaced = "none"]
       ELSE [d EXCEPT !.followed = p.draft]

Reads(p, d) == seen' = p /\ desk' = Rendered(d, p)

-----------------------------------------------------------------------------
\* The page reads the proposal again: on its polls, and every 5 s while the house works.
Poll ==
  /\ ~Busy /\ seen # api
  /\ Reads(api, desk)
  /\ UNCHANGED <<api, op, ghost>>

\* The steps behind a confirm: the test buttons, and "Draft it again".
CanOpen(step) ==
  CASE step = "end" -> seen.state = "debate" /\ seen.test
    [] step = "close" -> seen.state = "voting" /\ seen.test
    [] step = "again" -> Drafting(seen) /\ seen.house.status \in {"done", "failed"}

OpenStep ==
  /\ ~Busy
  /\ \E s \in {"end", "close", "again"} : CanOpen(s) /\ desk' = [desk EXCEPT !.step = s]
  /\ UNCHANGED <<api, seen, op, ghost>>

NotYet ==
  /\ ~Busy /\ desk.step # "none"
  /\ desk' = [desk EXCEPT !.step = "none"]
  /\ UNCHANGED <<api, seen, op, ghost>>

Confirm ==
  /\ ~Busy /\ desk.step # "none" /\ CanOpen(desk.step)
  /\ op' = [NoOp EXCEPT !.kind = desk.step, !.st = "out"]
  /\ UNCHANGED <<api, seen, desk, ghost>>

-----------------------------------------------------------------------------
\* The form: the admin's own changes; "Use the house draft"; "Undo".
HasForm == desk.form # "none" /\ Drafting(seen) /\ seen.draft # "none"
Edit ==
  /\ HasForm /\ ~Busy
  /\ \E t \in Mine \cup {"plain"} :
       /\ t # desk.form
       /\ desk' = [desk EXCEPT !.form = t, !.replaced = "none"]
       /\ ghost' = [ghost EXCEPT !.put = t]
  /\ UNCHANGED <<api, seen, op>>

UseHouse ==
  /\ HasForm /\ ~Busy /\ OffersUse
  /\ desk' = [desk EXCEPT !.replaced = IF desk.form = seen.draft THEN "none" ELSE desk.form,
                          !.form = seen.house.spec, !.filled = seen.house.spec]
  /\ ghost' = [ghost EXCEPT !.put = seen.house.spec]
  /\ UNCHANGED <<api, seen, op>>

Undo ==
  /\ HasForm /\ ~Busy /\ OffersUndo
  /\ desk' = [desk EXCEPT !.form = desk.replaced, !.replaced = "none"]
  /\ ghost' = [ghost EXCEPT !.put = desk.replaced]
  /\ UNCHANGED <<api, seen, op>>

SaveDraft ==
  /\ HasForm /\ ~Busy /\ Checked(desk.form)
  /\ op' = [NoOp EXCEPT !.kind = "save", !.st = "out", !.text = desk.form]
  /\ UNCHANGED <<api, seen, desk, ghost>>

\* Mutant of Publish: the draft is not saved first.
PublishUnsaved ==
  /\ HasForm /\ ~Busy /\ Checked(desk.form)
  /\ op' = [NoOp EXCEPT !.kind = "publish", !.st = "out", !.text = desk.form]
  /\ UNCHANGED <<api, seen, desk, ghost>>

\* What is on screen is saved first, then published, within one write.
Publish ==
  /\ HasForm /\ ~Busy /\ Checked(desk.form)
  /\ op' = [NoOp EXCEPT !.kind = "save-publish", !.st = "out", !.text = desk.form]
  /\ UNCHANGED <<api, seen, desk, ghost>>

-----------------------------------------------------------------------------
\* What the API does with each request.
Passed == [api EXCEPT !.state = "passed", !.draft = "plain", !.house = NoHouse]
Saved(text) == [api EXCEPT !.draft = text, !.saved = TRUE]
Asked == api' = [api EXCEPT !.house.status = "queued"] /\ ghost' = [ghost EXCEPT !.jobs = @ + 1]
CanAsk == Drafting(api) /\ api.house.status \in {"done", "failed"} /\ ghost.jobs < MaxJobs

Took(st) ==
  CASE op.kind = "end" -> /\ api.state = "debate" /\ api.test
                          /\ api' \in {Passed, [api EXCEPT !.state = "voting"]} /\ UNCHANGED ghost
    [] op.kind = "close" -> /\ api.state = "voting" /\ api.test
                            /\ api' \in {Passed, [api EXCEPT !.state = "failed"]} /\ UNCHANGED ghost
    [] op.kind = "again" -> CanAsk /\ Asked
    [] op.kind \in {"save", "save-publish"} ->
         Drafting(api) /\ api' = Saved(op.text) /\ ghost' = [ghost EXCEPT !.saved = @ \cup {op.text}]
    [] op.kind = "publish" ->
         Drafting(api) /\ Checked(api.draft) /\ api' = [api EXCEPT !.state = "building", !.task = api.draft] /\ UNCHANGED ghost

\* Taken, and the answer comes or is lost; or refused; or never there.
Serve ==
  /\ op.st = "out"
  /\ \/ \E st \in {"ok", "lost"} : Took(st) /\ op' = [op EXCEPT !.st = st]
     \/ \E st \in {"no", "lost"} : op' = [op EXCEPT !.st = st] /\ UNCHANGED <<api, ghost>>
  /\ UNCHANGED <<seen, desk>>

\* The first half of a publish is answered: the second leaves.
ThenPublish ==
  /\ op.kind = "save-publish" /\ op.st = "ok"
  /\ op' = [op EXCEPT !.kind = "publish", !.st = "out"]
  /\ UNCHANGED <<api, seen, desk, ghost>>

\* The write is over: its answer is shown, or the proposal is read again, or that fails too.
Closes(went) == [desk EXCEPT !.step = IF went /\ op.kind = desk.step THEN "none" ELSE @]
Answered ==
  /\ op.st \in {"ok", "no", "lost"} /\ ~(op.kind = "save-publish" /\ op.st = "ok")
  /\ \/ Reads(api, Closes(op.st = "ok"))
     \/ op.st # "ok" /\ seen' = seen /\ desk' = Closes(FALSE)
  /\ op' = NoOp
  /\ UNCHANGED <<api, ghost>>

-----------------------------------------------------------------------------
\* The house model: its job starts, fails, or lands a draft; a saved draft is never replaced.
HouseStarts ==
  /\ api.house.status = "queued" /\ Drafting(api)
  /\ api' = [api EXCEPT !.house.status = "running"]
  /\ UNCHANGED <<seen, desk, op, ghost>>

HouseLands ==
  /\ api.house.status = "running" /\ Drafting(api)
  /\ \E s \in Specs :
       api' = [api EXCEPT !.house.status = "done", !.house.spec = s,
                          !.draft = IF api.saved THEN @ ELSE s]
  /\ UNCHANGED <<seen, desk, op, ghost>>

HouseFails ==
  /\ api.house.status = "running"
  /\ api' = [api EXCEPT !.house.status = "failed"]
  /\ UNCHANGED <<seen, desk, op, ghost>>

\* Another admin: saves, asks for another draft, publishes, switches Test timers off; or the
\* period ends by itself.
OtherSaves ==
  /\ Drafting(api)
  /\ \E t \in Theirs \cup (Specs \cap {api.house.spec}) :
       t # api.draft /\ api' = Saved(t) /\ ghost' = [ghost EXCEPT !.saved = @ \cup {t}]
  /\ UNCHANGED <<seen, desk, op>>

OtherAsks == CanAsk /\ Asked /\ UNCHANGED <<seen, desk, op>>

OtherPublishes ==
  /\ Drafting(api) /\ api.saved
  /\ api' = [api EXCEPT !.state = "building", !.task = api.draft]
  /\ UNCHANGED <<seen, desk, op, ghost>>

TimeOrSwitch ==
  /\ \/ api.state = "debate" /\ api' \in {Passed, [api EXCEPT !.state = "voting"]}
     \/ api.state = "voting" /\ api' \in {Passed, [api EXCEPT !.state = "failed"]}
     \/ api.test /\ api.state \in {"debate", "voting"} /\ api' = [api EXCEPT !.test = FALSE]
  /\ UNCHANGED <<seen, desk, op, ghost>>

Init ==
  /\ api = [state |-> "debate", draft |-> "none", saved |-> FALSE, test |-> TRUE, task |-> "none",
            house |-> [NoHouse EXCEPT !.status = "off"]]
  /\ seen = api
  /\ desk = [form |-> "none", followed |-> "none", replaced |-> "none", filled |-> "none", step |-> "none"]
  /\ op = NoOp
  /\ ghost = [put |-> "none", saved |-> {}, jobs |-> 1]

Next ==
  \/ Poll \/ OpenStep \/ NotYet \/ Confirm
  \/ Edit \/ UseHouse \/ Undo \/ SaveDraft \/ Publish
  \/ Serve \/ ThenPublish \/ Answered
  \/ HouseStarts \/ HouseLands \/ HouseFails
  \/ OtherSaves \/ OtherAsks \/ OtherPublishes \/ TimeOrSwitch

Spec == Init /\ [][Next]_vars

-----------------------------------------------------------------------------
\* The shapes of its state.
Drafts == Texts \cup {"none"}
Houses == [status : {"off", "queued", "running", "done", "failed"}, spec : Drafts]
Details == [state : {"debate", "voting", "failed", "passed", "building"}, draft : Drafts, saved : BOOLEAN,
            test : BOOLEAN, task : Drafts, house : Houses]

TypeOK ==
  /\ api \in Details /\ seen \in Details /\ ghost.jobs \in 1..MaxJobs
  /\ desk.form \in Drafts /\ desk.step \in {"none", "end", "close", "again"}
  /\ op.st \in {"none", "out", "ok", "no", "lost"}
  /\ desk.form = "none" <=> desk.followed = "none"

\* The form's text never changes under the admin: what they last put in it is what it holds,
\* whoever saves, publishes or has the task drafted again meanwhile.
FormKept == ghost.put \notin {"none", "plain"} => desk.form = ghost.put

\* What goes on the board is a text an admin saved, never a model's that nobody has read.
PublishedRead == api.task # "none" => api.task \in ghost.saved

\* "Any other change to the saved draft (a re-draft, another admin's save) leaves the form as
\* it is": a form on the page only becomes a draft of the house's, or this admin's own.
OnlyHouseFills == [][desk.form # "none" /\ desk'.form # desk.form => desk'.form \in {"plain"} \cup Specs \cup Mine]_vars

\* "What is on screen is what gets published".
PublishesScreen == [][api.task = "none" /\ api'.task # "none" /\ op.kind = "publish" /\ op'.st # op.st => api'.task = op.text]_vars
=============================================================================
