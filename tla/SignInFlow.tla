------------------------------ MODULE SignInFlow ------------------------------
(***************************************************************************)
(* The web's authorizations: signing in with GitHub or Google, and the     *)
(* one-time authorizations that start Copilot, make a copy or send it for  *)
(* review.  Each attempt is sealed into one cookie, spent by the callback  *)
(* the provider comes back to; two attempts share that cookie, a callback  *)
(* may be called twice, and a browser may leave while one runs.            *)
(***************************************************************************)
EXTENDS Naturals, FiniteSets

CONSTANTS Accounts,    \* GitHub accounts of this person
          Kinds,       \* what is asked for: signin, google, start, copy, review
          Calls,       \* callbacks running at once
          MaxAttempts  \* attempts started

VARIABLES
  jar,    \* the browser's cookies: the session, the sealed attempt
  asked,  \* attempt -> what was asked for
  back,   \* the provider's way back: [id, as, ok]
  call,   \* the callbacks under way
  token,  \* attempt -> the one-time token: "none", "live", "tried", "revoked"
  done,   \* what the API did with one: [id, what, as, whose]
  on      \* signing in and the OAuth App are set up and switched on

vars == <<jar, asked, back, call, token, done, on>>

Ids == 1..MaxAttempts
Nobody == "nobody"
NoTx == 0

\* An attempt's fields belong to its kind alone: a sign-in, a start, or one action on the copy.
Purpose(kind) == IF kind \in {"copy", "review"} THEN "repo" ELSE IF kind = "start" THEN "agent" ELSE kind
Callback(kind) == CASE Purpose(kind) = "google" -> "google" [] Purpose(kind) = "repo" -> "repo" [] OTHER -> "github"
OneTime(kind) == Purpose(kind) \in {"agent", "repo"}
Started == {i \in Ids : asked[i] # "none"}
Idle == [st |-> "idle", id |-> NoTx, as |-> Nobody, session |-> Nobody, spent |-> 0]

\* memberId, isGitHubSession: a Google member is nobody on GitHub.
Google == "google"
IsGitHub(session) == session \in Accounts

-----------------------------------------------------------------------------
\* /auth/signin, /auth/google: a fresh state and verifier, sealed over whatever the cookie held.
\* /auth/github/agent, /auth/github/repo: the same, for a GitHub session only.
Start ==
  /\ on
  /\ \E i \in Ids, kind \in Kinds :
       /\ i = Cardinality(Started) + 1
       /\ OneTime(kind) => IsGitHub(jar.session)
       /\ asked' = [asked EXCEPT ![i] = kind]
       /\ jar' = [jar EXCEPT !.tx = i]
  /\ UNCHANGED <<back, call, token, done, on>>

\* The person approves, as any account the provider has them signed in with, or declines.
Approve ==
  /\ \E i \in Started :
       /\ \A b \in back : b.id # i
       /\ \E as \in IF asked[i] = "google" THEN {Google} ELSE Accounts, ok \in BOOLEAN :
            back' = back \cup {[id |-> i, as |-> as, ok |-> ok]}
  /\ UNCHANGED <<jar, asked, call, token, done, on>>

\* openTransaction: sealed under a key this server still opens, for ten minutes.
CookieExpires ==
  /\ jar.tx # NoTx
  /\ jar' = [jar EXCEPT !.tx = NoTx]
  /\ UNCHANGED <<asked, back, call, token, done, on>>

\* Which callback takes which attempt; another's is refused.
Takes(route, tx) ==
  IF route = "github" THEN (IF Purpose(asked[tx]) \in {"signin", "agent"} THEN Purpose(asked[tx]) ELSE "refuse")
  ELSE IF Purpose(asked[tx]) = route THEN route ELSE "refuse"

\* Mutant of Declined: an error that came back is not looked at.
DeclinedNever(b) == FALSE

Declined(b) == ~b.ok

\* The callback's checks, in order; the cookie as the request carried it.
Refusal(b) ==
  LET takes == Takes(Callback(asked[b.id]), jar.tx) IN
  IF jar.tx = NoTx THEN "expired"
  ELSE IF takes = "refuse" \/ b.id # jar.tx THEN "state"
  ELSE IF Declined(b) THEN "denied"
  ELSE IF ~on THEN "unavailable"
  ELSE IF takes \in {"agent", "repo"} /\ jar.session = Nobody THEN "signed_out"
  ELSE IF takes = "repo" /\ ~IsGitHub(jar.session) THEN "github_required"
  ELSE "none"

Arrive(c) ==
  /\ call[c].st = "idle"
  /\ \E b \in back :
       call' = [call EXCEPT ![c] = [st |-> IF Refusal(b) = "none" THEN "exchange" ELSE "refused",
                                    id |-> b.id, as |-> b.as, session |-> jar.session, spent |-> 0]]
  /\ UNCHANGED <<jar, asked, back, token, done, on>>

To(c, st, secs) == call' = [call EXCEPT ![c].st = st, ![c].spent = @ + secs]

\* A call to GitHub takes up to ten seconds; only the repo callback counts them.
CallTimeout == 10
Waits(c) == IF Purpose(asked[call[c].id]) = "repo" THEN {0, CallTimeout} ELSE {0}

\* exchangeCode: a code is good once, with its own verifier.
Exchange(c) ==
  /\ call[c].st = "exchange"
  /\ \E s \in Waits(c) :
       \/ /\ token[call[c].id] = "none"
          /\ token' = [token EXCEPT ![call[c].id] = "live"]
          /\ To(c, "user", s)
       \/ UNCHANGED token /\ To(c, "refused", s)
  /\ UNCHANGED <<jar, asked, back, done, on>>

\* A one-time token is checked against the session.
\* Mutant of Belongs: whoever approved it.
BelongsAnyone(c) == TRUE

Belongs(c) == call[c].as = call[c].session

\* fetchGitHubUser: whose the one-time token is; a failure to read it throws.
ReadUser(c) ==
  /\ call[c].st = "user" /\ OneTime(asked[call[c].id])
  /\ \E s \in Waits(c) : To(c, "revoke", s) \/ To(c, IF Belongs(c) THEN "act" ELSE "revoke", s)
  /\ UNCHANGED <<jar, asked, back, token, done, on>>

\* fetchGitHubUser, fetchGoogleUser: whoever approved is the member.
SignsIn(c) ==
  /\ call[c].st = "user" /\ ~OneTime(asked[call[c].id])
  /\ To(c, "signs in", 0) \/ To(c, "refused", 0)
  /\ UNCHANGED <<jar, asked, back, token, done, on>>

\* Mutant of ActionTimeout: the action's own limit, whatever was spent before.
OwnLimit(spent) == 45

\* actionTimeoutMs: cut so that the revocation still fits.
Limit == 60
Reserve == 12
ActionTimeout(spent) == IF spent + 45 > Limit - Reserve THEN Limit - Reserve - spent ELSE 45

\* The one action, through the API: done, refused, or no answer in time.
Act(c) ==
  /\ call[c].st = "act"
  /\ To(c, "revoke", IF Waits(c) = {0} THEN 0 ELSE ActionTimeout(call[c].spent))
  /\ done' \in {done, done \cup {[id |-> call[c].id, what |-> asked[call[c].id], as |-> call[c].session, whose |-> call[c].as]}}
  /\ UNCHANGED <<jar, asked, back, token, on>>

\* Mutant of Revoke: a token is revoked when its action was done.
RevokeDone(c) ==
  /\ call[c].st = "revoke"
  /\ token' = IF \E d \in done : d.id = call[c].id THEN [token EXCEPT ![call[c].id] = "revoked"] ELSE token
  /\ To(c, "refused", 0)
  /\ UNCHANGED <<jar, asked, back, done, on>>

\* revokeNow, whatever happened, even for a browser that left; GitHub may not confirm it.
Revoke(c) ==
  /\ call[c].st = "revoke"
  /\ \E as \in {"revoked", "tried"} : token' = [token EXCEPT ![call[c].id] = as]
  /\ \E s \in Waits(c) : To(c, "refused", s)
  /\ UNCHANGED <<jar, asked, back, done, on>>

\* The answer: the attempt's cookie cleared, whichever it holds by now, and the session set.
Respond(c) ==
  /\ call[c].st \in {"refused", "signs in"}
  /\ jar' = [tx |-> NoTx, session |-> IF call[c].st = "signs in" THEN call[c].as ELSE jar.session]
  /\ call' = [call EXCEPT ![c] = Idle]
  /\ UNCHANGED <<asked, back, token, done, on>>

\* The browser left: nothing reaches its cookies.
Leaves(c) ==
  /\ call[c].st \in {"refused", "signs in"}
  /\ call' = [call EXCEPT ![c] = Idle]
  /\ UNCHANGED <<jar, asked, back, token, done, on>>

SignOut ==
  /\ jar.session # Nobody
  /\ jar' = [jar EXCEPT !.session = Nobody]
  /\ UNCHANGED <<asked, back, call, token, done, on>>

\* The flag, or the settings, are switched off.
Switch ==
  /\ on /\ on' = FALSE
  /\ UNCHANGED <<jar, asked, back, call, token, done>>

Init ==
  /\ \E s \in Accounts \cup {Nobody} : jar = [session |-> s, tx |-> NoTx]
  /\ asked = [i \in Ids |-> "none"] /\ token = [i \in Ids |-> "none"]
  /\ back = {} /\ done = {}
  /\ call = [c \in Calls |-> Idle]
  /\ on = TRUE

Next ==
  \/ Start \/ Approve \/ CookieExpires \/ SignOut \/ Switch
  \/ \E c \in Calls : Arrive(c) \/ Exchange(c) \/ ReadUser(c) \/ SignsIn(c) \/ Act(c) \/ Revoke(c) \/ Respond(c) \/ Leaves(c)

Spec == Init /\ [][Next]_vars

-----------------------------------------------------------------------------
\* The shapes of its state.
Jars == [session : Accounts \cup {Nobody, Google}, tx : Ids \cup {NoTx}]
Tokens == {"none", "live", "tried", "revoked"}

TypeOK ==
  /\ jar \in Jars
  /\ \A i \in Ids : asked[i] \in Kinds \cup {"none"} /\ token[i] \in Tokens
  /\ \A c \in Calls : call[c].st \in {"idle", "exchange", "user", "act", "revoke", "signs in", "refused"}

\* A one-time authorization does the one thing it was asked for, at most once, and only for the
\* GitHub account that is signed in here, whoever approved it: FORGE never acts with another's.
ActsAsAsked ==
  /\ \A d \in done : OneTime(d.what) /\ d.as = d.whose /\ IsGitHub(d.whose)
  /\ \A d, e \in done : d.id = e.id => d = e

\* Nobody is signed in by anything but a sign-in they approved: never by an authorization for
\* one action, nor as another account than the one that approved.
SignedInByAskingStep ==
  \A a \in Accounts \cup {Google} :
    jar'.session = a /\ jar.session # a =>
      \E b \in back : asked[b.id] \in {"signin", "google"} /\ b.as = a /\ b.ok

SignedInByAsking == [][SignedInByAskingStep]_vars

\* No one-time token outlives its callback without FORGE having tried to revoke it, and a
\* copy's or a review's callback ends within the time its host gives it.
TokensReturned ==
  /\ \A i \in Ids : token[i] = "live" /\ asked[i] # "none" /\ OneTime(asked[i]) =>
       \E c \in Calls : call[c].id = i /\ call[c].st \in {"user", "act", "revoke"}
  /\ \A c \in Calls : call[c].id # NoTx /\ Purpose(asked[call[c].id]) = "repo" => call[c].spent <= Limit
=============================================================================
