----------------------------- MODULE BringProposal -----------------------------
(***************************************************************************)
(* The form that brings a proposal.  The page asks who the member is       *)
(* first; what is typed then stays typed until a proposal of theirs is on  *)
(* the floor, whatever fails: the read, the request, or only its answer.   *)
(***************************************************************************)
EXTENDS Naturals

CONSTANT MaxTries

VARIABLES
  api,    \* the member's proposal on the floor: none, theirs from elsewhere, or this form's
  form,   \* which screen, what is typed, the refusal shown, reads of `me` failed
  me,     \* the read of `me`: on mount, or "Try again"
  send,   \* the request: under way, answered, lost
  late    \* a request nobody waits for any more

vars == <<api, form, me, send, late>>

OnFloor == {"none", "elsewhere", "this"}

\* A text against its limits: too short, within a member's, or within an admin's only.
Typings == {"none", "short", "fits", "long"}

-----------------------------------------------------------------------------
\* On mount: the form waits for it, and shows either way.
MeLands ==
  /\ me = "mount"
  /\ form' = [form EXCEPT !.screen = IF api = "none" THEN "form" ELSE "yours"]
  /\ me' = "idle"
  /\ UNCHANGED <<api, send, late>>

MeFails ==
  /\ me = "mount"
  /\ form' = [form EXCEPT !.screen = "form", !.failures = 1]
  /\ me' = "idle"
  /\ UNCHANGED <<api, send, late>>

\* checkAgain
CheckAgain ==
  /\ form.screen = "form" /\ form.failures > 0 /\ me = "idle"
  /\ me' = "again"
  /\ UNCHANGED <<api, form, send, late>>

\* Mutant of AgainLands: the proposal found is swapped in for the form.
AgainSwaps ==
  /\ me = "again"
  /\ form' = [form EXCEPT !.failures = 0, !.screen = IF api = "none" THEN @ ELSE "yours"]
  /\ me' = "idle"
  /\ UNCHANGED <<api, send, late>>

\* A proposal found on the floor is pointed at; the form stays as it is.
AgainLands ==
  /\ me = "again"
  /\ form' = [form EXCEPT !.failures = 0, !.problem = IF api = "none" THEN @ ELSE "yours"]
  /\ me' = "idle"
  /\ UNCHANGED <<api, send, late>>

AgainFails ==
  /\ me = "again"
  /\ form' = [form EXCEPT !.failures = 2]
  /\ me' = "idle"
  /\ UNCHANGED <<api, send, late>>

-----------------------------------------------------------------------------
\* Typing, within the limits or past them (a member's, until the API has said who they are).
Type ==
  /\ form.screen = "form" /\ send = "idle"
  /\ \E t \in Typings \ {"none"} : form' = [form EXCEPT !.typed = t]
  /\ UNCHANGED <<api, me, send, late>>

Checked == form.typed = "fits" \/ (form.typed = "long" /\ form.admin /\ form.failures = 0)

Submit ==
  /\ form.screen = "form" /\ send = "idle" /\ form.typed # "none" /\ form.tries < MaxTries
  /\ IF Checked THEN send' = "out" /\ form' = [form EXCEPT !.problem = "none", !.tries = @ + 1]
     ELSE send' = send /\ form' = [form EXCEPT !.problem = "fields"]
  /\ UNCHANGED <<api, me, late>>

\* createProposal: the API takes one at a time, and may say which it is or not.
Serve ==
  /\ send = "out"
  /\ IF api = "none" THEN api' = "this" /\ send' \in {"ok", "unnamed", "lost"}
     ELSE UNCHANGED api /\ send' \in {"one_active", "lost"}
  /\ UNCHANGED <<form, me, late>>

\* Other refusals: the fields, the floor closed, too many; or the answer never comes.
Refuses ==
  /\ send = "out"
  /\ send' \in {"refused", "lost"}
  /\ IF send' = "lost" THEN late' \in {late, TRUE} ELSE UNCHANGED late
  /\ UNCHANGED <<api, form, me>>

ServeLate ==
  /\ late
  /\ api' = IF api = "none" THEN "this" ELSE api
  /\ late' = FALSE
  /\ UNCHANGED <<form, me, send>>

-----------------------------------------------------------------------------
\* Answered with its id, or found as the member's own: its page opens.
Opens == send' = "idle" /\ form' = [form EXCEPT !.screen = "opened", !.typed = "none"] /\ UNCHANGED <<api, me, late>>
Stays(problem) == send' = "idle" /\ form' = [form EXCEPT !.problem = problem] /\ UNCHANGED <<api, me, late>>

Answered == send = "ok" /\ Opens
Unnamed == send = "unnamed" /\ ((api # "none" /\ Opens) \/ Stays("unsure"))
OneActive == send = "one_active" /\ Stays("yours")
Refused == send = "refused" /\ Stays("no")

\* No answer is not a "no": `me` is read, and a proposal found there is pointed at.
NoAnswer ==
  /\ send = "lost"
  /\ \/ api # "none" /\ Stays("yours")
     \/ Stays("unsure")

\* The member's other tab, and the floor, meanwhile.
Elsewhere ==
  /\ \/ api = "none" /\ api' = "elsewhere"
     \/ api # "none" /\ send = "idle" /\ api' = "none"
  /\ UNCHANGED <<form, me, send, late>>

Init ==
  /\ api \in {"none", "elsewhere"}
  /\ \E admin \in BOOLEAN :
       form = [screen |-> "loading", typed |-> "none", problem |-> "none", failures |-> 0, tries |-> 0, admin |-> admin]
  /\ me = "mount" /\ send = "idle" /\ late = FALSE

Next ==
  \/ MeLands \/ MeFails \/ CheckAgain \/ AgainLands \/ AgainFails
  \/ Type \/ Submit \/ Serve \/ Refuses \/ ServeLate
  \/ Answered \/ Unnamed \/ OneActive \/ Refused \/ NoAnswer
  \/ Elsewhere

Spec == Init /\ [][Next]_vars

-----------------------------------------------------------------------------
TypeOK ==
  /\ api \in OnFloor /\ late \in BOOLEAN
  /\ form.screen \in {"loading", "form", "yours", "opened"} /\ form.typed \in Typings /\ form.failures \in 0..2
  /\ form.problem \in {"none", "fields", "no", "unsure", "yours"}
  /\ send \in {"idle", "out", "ok", "unnamed", "lost", "one_active", "refused"}

\* What is typed stays in the form until a proposal of this member's is on the floor, whatever
\* failed or was lost: only its page takes the form away.
TypedKeptStep ==
  form.typed # "none" /\ (form'.screen # "form" \/ form'.typed = "none") => form'.screen = "opened" /\ api # "none"

TypedKept == [][TypedKeptStep]_vars
=============================================================================
