------------------------------ MODULE BffForward ------------------------------
(***************************************************************************)
(* One browser request through this origin's BFF: the route's table, the   *)
(* checks in their order, the assertion, the call to the API with its      *)
(* deadline, and what the page makes of the answer or of none.  Proposals, *)
(* the Bridge and the rest share one forward; the ledger, UPLAND and the   *)
(* public files have their own.                                            *)
(***************************************************************************)
EXTENDS Naturals, Sequences

VARIABLES
  server, \* what this server is set up with: [keys, url, secret]
  who,    \* the visitor's session
  req,    \* the request under way and where it is
  api,    \* what the API did for it
  page    \* what the page says

vars == <<server, who, req, api, page>>

Keys == {"none", "dev", "real"}
Sessions == {"none", "demo", "github", "odd"}   \* odd: a session nobody can mint for
Nobody == {"none", "demo"}
R(by, method, identity) == [by |-> by, method |-> method, identity |-> identity]

\* The tables: what each file lets through, and for whom.
BridgeRoutes == {R("forward", "GET", "optional"), R("forward", "GET", "required"), R("forward", "DELETE", "required"), R("forward", "POST", "required")}
ProposalRoutes == {R("forward", "GET", "optional"), R("forward", "GET", "required"), R("forward", "POST", "required"), R("forward", "PUT", "required"), R("forward", "PATCH", "required")}
NotificationRoutes == {R("forward", "GET", "required"), R("forward", "POST", "required")}
GrantRoutes == {R("forward", "GET", "required"), R("forward", "DELETE", "required")}
BrickRoutes == {R("forward", m, "required") : m \in {"GET", "PUT", "POST", "DELETE"}} \cup {R("forward", "GET", "none")}
MachineRoutes == BrickRoutes
AvatarRoutes == {R("forward", "GET", "optional"), R("forward", "GET", "required"), R("forward", "PUT", "required"), R("forward", "DELETE", "required")}
LedgerRoutes == {R("ledger", m, "required") : m \in {"GET", "POST"}}
UplandRoutes == {R("upland", m, "required") : m \in {"GET", "POST"}}
FileRoutes == {R("files", "GET", "none")}
Routes == BridgeRoutes \cup ProposalRoutes \cup NotificationRoutes \cup GrantRoutes \cup BrickRoutes \cup MachineRoutes
            \cup AvatarRoutes \cup LedgerRoutes \cup UplandRoutes \cup FileRoutes

Writes(route) == route.method # "GET"
WithBody(route) == route.method \in {"POST", "PATCH", "PUT"}

-----------------------------------------------------------------------------
\* isTrustedOrigin, isSameOrigin: an Origin that is ours, or the browser's own word for it.
SameOrigin(r) == r.origin \in {"ours", "sec-fetch"}
TrustedOrigin(r) == r.origin = "ours"

\* readBody: what is over the limit is never read to its end.
TooLarge(r) == WithBody(r.route) /\ r.body = "large"
WrongType(r) == WithBody(r.route) /\ r.body = "other"

Anonymous(route) == route.identity = "none" /\ route.method = "GET"

\* getSession, visitorSession: no keys, no session; keys good for practice only count a practice one.
Session == IF server.keys = "none" \/ (server.keys = "dev" /\ who # "demo") THEN "none" ELSE who
CanMint(session) == server.secret /\ session = "github"

\* The checks of the shared forward, of the ledger's, of UPLAND's and of the files', each in its order.
ForwardChecks(r) ==
  LET session == IF Anonymous(r.route) THEN "none" ELSE Session IN
  << <<~r.listed, "not_found">>, <<Writes(r.route) /\ ~SameOrigin(r), "bad_origin">>,
     <<~Anonymous(r.route) /\ server.keys = "dev", "not_configured">>, <<~server.url, "not_configured">>,
     <<session = "demo", "practice_session">>, <<session = "none" /\ r.route.identity = "required", "unauthenticated">>,
     <<TooLarge(r), "too_large">>, <<WrongType(r), "unsupported_media_type">>,
     <<session # "none" /\ ~CanMint(session), "not_configured">> >>

LedgerChecks(r) ==
  << <<~r.listed, "not_found">>, <<server.keys = "dev", "not_configured">>, <<Session \in Nobody, "unauthenticated">>,
     <<Writes(r.route) /\ ~TrustedOrigin(r), "bad_origin">>, <<WrongType(r), "unsupported_media_type">>, <<TooLarge(r), "too_large">>,
     <<~server.url \/ ~CanMint(Session), "not_configured">> >>

UplandChecks(r) ==
  << <<~r.listed, "not_found">>, <<server.keys = "dev", "not_configured">>, <<Session \in Nobody, "unauthenticated">>,
     <<Writes(r.route) /\ ~TrustedOrigin(r), "bad_origin">>, <<TooLarge(r), "too_large">>,
     <<~server.url \/ ~server.secret, "not_configured">>, <<~CanMint(Session), "host_error">> >>

FileChecks(r) == << <<~r.listed, "not_found">>, <<~server.url, "not_configured">> >>

ChecksOf(r) ==
  CASE r.route.by = "forward" -> ForwardChecks(r)
    [] r.route.by = "ledger" -> LedgerChecks(r)
    [] r.route.by = "upland" -> UplandChecks(r)
    [] r.route.by = "files" -> FileChecks(r)

\* The first check that fails answers; none, and the call goes to the API.
FailsAt(checks, i) == checks[i][1] /\ \A j \in 1..i - 1 : ~checks[j][1]
Verdict(r) ==
  LET checks == ChecksOf(r) IN
  IF \A i \in DOMAIN checks : ~checks[i][1] THEN "forward"
  ELSE checks[CHOOSE i \in DOMAIN checks : FailsAt(checks, i)][2]

\* Mutant of Vouches: whoever seems to be asking.
VouchesAnyway(r) == IF Anonymous(r.route) \/ r.route.by = "files" THEN "none" ELSE who

\* assertionFor: the API is told who asks, when this server can vouch for them.
Vouches(r) == IF Anonymous(r.route) \/ r.route.by = "files" THEN "none" ELSE Session

-----------------------------------------------------------------------------
Bodies(route) == IF WithBody(route) THEN {"json", "other", "large"} ELSE {"none"}
NoRequest == [st |-> "idle", answer |-> "none"]

\* request: the page asks; a page of another site may, too, and an address not listed may be asked for.
Ask ==
  /\ req.st = "idle"
  /\ \E route \in Routes, origin \in {"ours", "sec-fetch", "other"}, listed \in BOOLEAN : \E body \in Bodies(route) :
       req' = [st |-> "asked", answer |-> "none", route |-> route, origin |-> origin, listed |-> listed, body |-> body, as |-> "none"]
  /\ api' = [did |-> FALSE, cut |-> FALSE, by |-> req'.route.by]
  /\ page' = "waits"
  /\ UNCHANGED <<server, who>>

\* forward: check and vouch; the call goes out, or this server answers by itself.
Handle ==
  /\ req.st = "asked"
  /\ req' = IF Verdict(req) = "forward" THEN [req EXCEPT !.st = "sent", !.as = Vouches(req)]
            ELSE [req EXCEPT !.st = "answered", !.answer = Verdict(req)]
  /\ UNCHANGED <<server, who, api, page>>

\* The API serves it: it does it, or refuses with a code, or crashes after.
Serve ==
  /\ req.st = "sent" /\ ~api.did
  /\ \/ api' = [api EXCEPT !.did = TRUE] /\ req' = [req EXCEPT !.st = "served", !.answer = "ok"]
     \/ api' = [api EXCEPT !.did = TRUE] /\ req' = [req EXCEPT !.st = "served", !.answer = "5xx"]
     \/ UNCHANGED api /\ req' \in {[req EXCEPT !.st = "served", !.answer = a] : a \in {"5xx", "refused"}}
  /\ UNCHANGED <<server, who, page>>

\* The answer's headers reach this server in time, and it passes them on.
PassOn ==
  /\ req.st = "served"
  /\ req' = [req EXCEPT !.st = "answered"]
  /\ UNCHANGED <<server, who, api, page>>

TimedOut(route) == IF route.by = "upland" THEN "service_unreachable" ELSE "upstream_timeout"

\* The deadline: the API has the request, and may have done it or do it yet.
Deadline ==
  /\ req.st \in {"sent", "served"}
  /\ req' = [req EXCEPT !.st = IF req.st = "sent" THEN "late" ELSE "answered", !.answer = TimedOut(req.route)]
  /\ UNCHANGED <<server, who, api, page>>

ServeLate ==
  /\ req.st = "late"
  /\ api' \in {api, [api EXCEPT !.did = TRUE]}
  /\ req' = [req EXCEPT !.st = "answered"]
  /\ UNCHANGED <<server, who, page>>

\* The call is refused, or cut off before its answer: the two are told alike.
Reset ==
  /\ req.st \in {"sent", "served"}
  /\ api' = [api EXCEPT !.cut = api.did]
  /\ req' = [req EXCEPT !.st = "answered", !.answer = "service_unreachable"]
  /\ UNCHANGED <<server, who, page>>

-----------------------------------------------------------------------------
\* Mutant of MayHaveHappened: only a deadline leaves it open.
OnlyDeadline(answer) == answer \in {"upstream_timeout", "nothing"}

\* mayHaveHappened: no answer, the BFF's 504, or a 5xx without a code.
MayHaveHappened(answer) == answer \in {"upstream_timeout", "5xx", "host_error", "nothing"}

Says(answer) == IF answer = "ok" THEN "done" ELSE IF MayHaveHappened(answer) THEN "maybe" ELSE "nothing changed"

Hears ==
  /\ req.st = "answered"
  /\ page' = Says(req.answer)
  /\ req' = NoRequest
  /\ UNCHANGED <<server, who, api>>

\* The network drops, the answer is not one the contract knows, or the page gives up waiting.
HearsNothing ==
  /\ req.st # "idle"
  /\ page' = Says("nothing")
  /\ req' = NoRequest
  /\ UNCHANGED <<server, who, api>>

\* The visitor signs in or out, in this tab or another.
SessionChanges ==
  /\ who' \in Sessions \ {who}
  /\ UNCHANGED <<server, req, api, page>>

Init ==
  /\ server \in [keys : Keys, url : BOOLEAN, secret : BOOLEAN]
  /\ who \in Sessions
  /\ req = NoRequest
  /\ api = [did |-> FALSE, cut |-> FALSE, by |-> "none"]
  /\ page = "waits"

Next ==
  \/ Ask \/ Handle \/ Serve \/ PassOn \/ Deadline \/ ServeLate \/ Reset
  \/ Hears \/ HearsNothing \/ SessionChanges

Spec == Init /\ [][Next]_vars

-----------------------------------------------------------------------------
\* The shapes of its state.
Servers == [keys : Keys, url : BOOLEAN, secret : BOOLEAN]
Words == {"waits", "done", "maybe", "nothing changed"}

TypeOK ==
  /\ server \in Servers /\ who \in Sessions
  /\ req.st \in {"idle", "asked", "sent", "served", "late", "answered"}
  /\ api.did \in BOOLEAN /\ page \in Words

\* The API acts for nobody but a GitHub member whose session this server may count, and a
\* write reaches it only from a page of this origin: whatever the route, in whatever order it
\* checks.
VouchedOnly ==
  req.st \in {"sent", "served", "late"} =>
    /\ req.as \in {"none", "github"}
    /\ Writes(req.route) => req.as = "github" /\ req.origin # "other"
    /\ req.as = "github" => server.keys = "real" /\ server.secret

\* What a page of the shared forward says of a write is true: done, then it is done; nothing changed, then the API
\* did nothing.  Only a call cut off after the API acted is told wrong.
ToldTrue ==
  api.by = "forward" => /\ page = "done" => api.did
                        /\ page = "nothing changed" => ~api.did \/ api.cut

\* The module's own rule: nobody may be told that nothing changed when it did.
NobodyMisled == api.by = "forward" /\ page = "nothing changed" => ~api.did
=============================================================================
