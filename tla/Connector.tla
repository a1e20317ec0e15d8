------------------------------ MODULE Connector -----------------------------
(***************************************************************************)
(* One person, one agent, and the connector between them: the consent       *)
(* screen and its Allow, the code and the tokens it buys, refreshed and     *)
(* retried when an answer is lost, and Disconnect on the account page.      *)
(***************************************************************************)
EXTENDS Naturals, FiniteSets

CONSTANTS MaxCodes,    \* bound: how often Allow is recorded
          MaxTokens,   \* bound: pairs of tokens issued
          MaxLive      \* refresh tokens of a grant that may be live

VARIABLES
  flag,      \* the connector is on
  session,   \* who is signed in in the browser
  page,      \* what the browser shows, why, and whether the consent screen is one step back
  codes,     \* the API's codes: their state, the grant each went into, and whether the agent has it
  grants,    \* the API's grants, each numbered by the code that made it
  tokens,    \* the API's pairs of tokens, in the order they were issued
  agent,     \* the refresh token the agent holds, 0 when none
  me         \* the account page: the list, the one being disconnected, and what was said

vars == <<flag, session, page, codes, grants, tokens, agent, me>>

-----------------------------------------------------------------------------
Codes == 1 .. MaxCodes
Tokens == 1 .. MaxTokens
Nobody == 0
Unread == {0}

\* The requests an agent's browser may bring: a good one, one with no parameters or with one
\* given twice, one the API refuses with a way back, one whose client it does not know.
Requests == {"good", "empty", "repeated", "refusable", "unknown"}

At(where) == [at |-> where, why |-> "", form |-> where = "consent"]
Notice(why) == [at |-> "notice", why |-> why, form |-> FALSE]

\* What asking the API comes to: reached or not, and the connector's flag.
Checked(kind, reached) ==
  CASE ~reached -> Notice("unavailable")
    [] reached /\ ~flag -> Notice("off")
    [] reached /\ flag /\ kind = "good" -> At("consent")
    [] reached /\ flag /\ kind = "refusable" -> At("return")
    [] reached /\ flag /\ kind = "unknown" -> Notice("invalid")

\* The page, in its order: who is signed in, what the query holds, then the API's check.
Shown(who, kind, reached) ==
  CASE who = "out" -> At("signin")
    [] who \in {"practice", "google"} -> Notice(who)
    [] who = "github" /\ kind = "empty" -> Notice("empty")
    [] who = "github" /\ kind = "repeated" -> Notice("invalid")
    [] OTHER -> Checked(kind, reached)

-----------------------------------------------------------------------------
Issued == {t \in Tokens : tokens[t].grant # Nobody}
Live(toks, g) == {t \in Tokens : toks[t].grant = g /\ toks[t].used = "no" /\ ~toks[t].refreshDead}
Newer(toks, g, t) == {u \in Live(toks, g) : u > t}

\* _issue_tokens: a new pair; past the most a grant may have live, the oldest go.
IssuesTo(toks, g) ==
  LET n == Cardinality(Issued) + 1
      more == [toks EXCEPT ![n] = [grant |-> g, used |-> "no", grace |-> FALSE, refreshDead |-> FALSE, accessDead |-> FALSE]]
  IN [t \in Tokens |->
        IF t \in Live(more, g) /\ Cardinality(Newer(more, g, t)) >= MaxLive
        THEN [more[t] EXCEPT !.refreshDead = TRUE] ELSE more[t]]

NextToken == Cardinality(Issued) + 1

\* _revoke_grant: the grant, and every token in it.
Revoke(g) ==
  /\ grants' = [grants EXCEPT ![g] = "revoked"]
  /\ tokens' = [t \in Tokens |-> IF tokens[t].grant = g
                                 THEN [tokens[t] EXCEPT !.refreshDead = TRUE, !.accessDead = TRUE] ELSE tokens[t]]

LiveGrants == {g \in Codes : grants[g] = "live"}

\* _grant_for: the person's live grant for this client, or a new one.
GrantFor(c) == IF LiveGrants # {} THEN CHOOSE g \in LiveGrants : TRUE ELSE c

-----------------------------------------------------------------------------
\* The agent opens the consent page in the person's browser.
Open ==
  /\ \E kind \in Requests, reached \in BOOLEAN : page' = Shown(session, kind, reached)
  /\ UNCHANGED <<flag, session, codes, grants, tokens, agent, me>>

\* Signing in comes back to the same screen, or bare when its query was too long.
SignIn ==
  /\ page.at = "signin" \/ page.why = "signedOut"
  /\ session' \in {"github", "google", "practice"}
  /\ \E kind \in {"good", "empty"}, reached \in BOOLEAN : page' = Shown(session', kind, reached)
  /\ UNCHANGED <<flag, codes, grants, tokens, agent, me>>

\* Another tab signs the browser out, or in as somebody else.
OtherTab ==
  /\ session' \in {"out", "practice"} /\ session' # session
  /\ UNCHANGED <<flag, page, codes, grants, tokens, agent, me>>

\* The way back to the screen that was sent: its form can be posted again.
Back ==
  /\ page.form /\ page.at # "consent" /\ page' = At("consent")
  /\ UNCHANGED <<flag, session, codes, grants, tokens, agent, me>>

Refused(why) == page' = [at |-> "notice", why |-> why, form |-> TRUE] /\ UNCHANGED codes

\* Allow or Cancel, as the person signed in now. A recorded choice whose answer is lost is
\* told as unavailable; the agent never hears of that code.
Decide(allow) ==
  /\ page.at = "consent"
  /\ \/ session = "out" /\ Refused("signedOut")
     \/ session = "practice" /\ Refused("practice")
     \/ session = "google" /\ Refused("unavailable")
     \/ session = "github" /\ Refused("unavailable")
     \/ session = "github" /\ ~flag /\ Refused("off")
     \/ /\ session = "github" /\ flag
        /\ \E heard \in BOOLEAN :
             /\ page' = IF heard THEN [at |-> "client", why |-> "", form |-> TRUE]
                        ELSE [at |-> "notice", why |-> "unavailable", form |-> TRUE]
             /\ IF allow
                THEN \E c \in Codes :
                       /\ codes[c].state = "none" /\ \A d \in 1 .. c - 1 : codes[d].state # "none"
                       /\ codes' = [codes EXCEPT ![c] = [state |-> "issued", made |-> Nobody, held |-> heard]]
                ELSE UNCHANGED codes
  /\ UNCHANGED <<flag, session, grants, tokens, agent, me>>

-----------------------------------------------------------------------------
Drops(c) == codes' = [codes EXCEPT ![c].held = FALSE]

\* A code that was used before: what it bought is revoked.
Replayed(c) ==
  /\ codes[c].state \in {"used", "replayed"}
  /\ codes' = [codes EXCEPT ![c].held = FALSE, ![c].state = "replayed"]
  /\ Revoke(codes[c].made)
  /\ agent' = IF agent # Nobody /\ tokens[agent].grant = codes[c].made THEN Nobody ELSE agent

\* The agent's answer may be lost: it still has the code, and tries it again.
Bought(c) ==
  /\ codes[c].state = "issued" /\ NextToken \in Tokens
  /\ \E heard \in BOOLEAN :
       /\ codes' = [codes EXCEPT ![c] = [state |-> "used", made |-> GrantFor(c), held |-> ~heard]]
       /\ agent' = IF heard THEN NextToken ELSE agent
  /\ grants' = [grants EXCEPT ![GrantFor(c)] = "live"]
  /\ tokens' = IssuesTo(tokens, GrantFor(c))

Redeem(c) ==
  /\ codes[c].held /\ flag
  /\ \/ codes[c].state = "expired" /\ Drops(c) /\ UNCHANGED <<grants, tokens, agent>>
     \/ Replayed(c)
     \/ Bought(c)
  /\ UNCHANGED <<flag, session, page, me>>

\* Whether presenting this token again is its one retry: soon after it was first used.
Retry(t) == tokens[t].used = "once" /\ tokens[t].grace

\* A first use or a retry: neither in a grant that was revoked any other way.
RefreshableAnyway(t) == (tokens[t].used = "no" /\ ~tokens[t].refreshDead) \/ Retry(t)

Refreshable(t) == (tokens[t].used = "no" \/ Retry(t)) /\ ~tokens[t].refreshDead

Refresh ==
  /\ agent # Nobody /\ flag
  /\ LET t == agent IN
     \/ /\ tokens[t].used # "no" /\ ~Retry(t)
        /\ Revoke(tokens[t].grant) /\ agent' = Nobody
     \/ /\ tokens[t].used = "no" \/ Retry(t)
        /\ ~Refreshable(t)
        /\ agent' = Nobody /\ UNCHANGED <<grants, tokens>>
     \/ /\ Refreshable(t) /\ NextToken \in Tokens
        /\ tokens' = IssuesTo([tokens EXCEPT ![t].grace = ~Retry(t), ![t].used = IF Retry(t) THEN "retried" ELSE "once"],
                              tokens[t].grant)
        /\ agent' \in {t, NextToken}
        /\ UNCHANGED grants
  /\ UNCHANGED <<flag, session, page, codes, me>>

\* The agent disconnects: /oauth/revoke with its refresh token.
AgentLeaves ==
  /\ agent # Nobody /\ flag
  /\ Revoke(tokens[agent].grant) /\ agent' = Nobody
  /\ UNCHANGED <<flag, session, page, codes, me>>

\* Five minutes, thirty seconds, an hour.
TimePasses ==
  \/ /\ \E c \in Codes : codes[c].state = "issued" /\ codes' = [codes EXCEPT ![c].state = "expired"]
     /\ UNCHANGED <<flag, session, page, grants, tokens, agent, me>>
  \/ /\ \E t \in Tokens : tokens[t].grace /\ tokens' = [tokens EXCEPT ![t].grace = FALSE]
     /\ UNCHANGED <<flag, session, page, codes, grants, agent, me>>
  \/ /\ \E t \in Issued : ~tokens[t].accessDead /\ tokens' = [tokens EXCEPT ![t].accessDead = TRUE]
     /\ UNCHANGED <<flag, session, page, codes, grants, agent, me>>

FlagTurns == flag' = ~flag /\ UNCHANGED <<session, page, codes, grants, tokens, agent, me>>

-----------------------------------------------------------------------------
\* The account page reads the list: shown, failed, or hidden while the connector is off.
MeReads ==
  /\ me.list = Unread
  /\ me' = [me EXCEPT !.list = IF flag THEN LiveGrants ELSE Unread, !.hidden = ~flag]
  /\ ~me.hidden
  /\ UNCHANGED <<flag, session, page, codes, grants, tokens, agent>>

Disconnect(g) ==
  /\ g \in me.list /\ g # Nobody /\ me.removing = Nobody /\ ~me.hidden
  /\ me' = [me EXCEPT !.removing = g, !.said = "nothing"]
  /\ UNCHANGED <<flag, session, page, codes, grants, tokens, agent>>

\* The API's answer lists what is left; a refusal or no answer leaves the list as it was.
Disconnected ==
  /\ me.removing # Nobody
  /\ \/ /\ flag /\ Revoke(me.removing)
        /\ \E heard \in BOOLEAN :
             me' = [me EXCEPT !.list = IF heard THEN LiveGrants \ {me.removing} ELSE @, !.removing = Nobody,
                              !.of = IF heard THEN me.removing ELSE @, !.said = IF heard THEN "disconnected" ELSE "error"]
     \/ /\ flag /\ me' = [me EXCEPT !.removing = Nobody, !.said = "error"]
        /\ UNCHANGED <<grants, tokens>>
     \/ /\ ~flag /\ me' = [me EXCEPT !.removing = Nobody, !.hidden = TRUE]
        /\ UNCHANGED <<grants, tokens>>
  /\ UNCHANGED <<flag, session, page, codes, agent>>

MeOpens ==
  /\ me.list # Unread \/ me.hidden \/ me.said # "nothing"
  /\ me' = [list |-> Unread, removing |-> Nobody, of |-> Nobody, said |-> "nothing", hidden |-> FALSE]
  /\ UNCHANGED <<flag, session, page, codes, grants, tokens, agent>>

-----------------------------------------------------------------------------
NoToken == [grant |-> Nobody, used |-> "no", grace |-> FALSE, refreshDead |-> FALSE, accessDead |-> FALSE]

Init ==
  /\ flag = TRUE /\ session \in {"github", "out"} /\ page = At("elsewhere")
  /\ codes = [c \in Codes |-> [state |-> "none", made |-> Nobody, held |-> FALSE]]
  /\ grants = [c \in Codes |-> "none"] /\ tokens = [t \in Tokens |-> NoToken] /\ agent = Nobody
  /\ me = [list |-> Unread, removing |-> Nobody, of |-> Nobody, said |-> "nothing", hidden |-> FALSE]

Next ==
  \/ Open \/ SignIn \/ OtherTab \/ Back \/ \E allow \in BOOLEAN : Decide(allow)
  \/ \E c \in Codes : Redeem(c) \/ Disconnect(c)
  \/ Refresh \/ AgentLeaves \/ TimePasses \/ FlagTurns
  \/ MeReads \/ Disconnected \/ MeOpens

Spec == Init /\ [][Next]_vars

-----------------------------------------------------------------------------
\* The shapes of its state.
Screens == [at : {"elsewhere", "signin", "consent", "return", "notice", "client"}, form : BOOLEAN,
            why : {"", "signedOut", "practice", "google", "empty", "invalid", "off", "unavailable"}]
CodeRows == [state : {"none", "issued", "used", "replayed", "expired"}, made : 0 .. MaxCodes, held : BOOLEAN]
TokenRows == [grant : 0 .. MaxCodes, used : {"no", "once", "retried"}, grace : BOOLEAN,
              refreshDead : BOOLEAN, accessDead : BOOLEAN]
AgentLists == [list : SUBSET (0 .. MaxCodes), removing : 0 .. MaxCodes, of : 0 .. MaxCodes,
               said : {"nothing", "disconnected", "error"}, hidden : BOOLEAN]

TypeOK ==
  /\ flag \in BOOLEAN /\ session \in {"github", "google", "practice", "out"} /\ page \in Screens
  /\ codes \in [Codes -> CodeRows] /\ tokens \in [Tokens -> TokenRows]
  /\ grants \in [Codes -> {"none", "live", "revoked"}] /\ agent \in 0 .. MaxTokens
  /\ me \in AgentLists

\* A grant that was revoked, by Disconnect, by its agent, by a code or a token presented once too
\* often, stays revoked: nothing in it works and nothing is issued into it again. A code redeemed
\* twice leaves no live grant behind, and a person never has two with the same agent.
RevokedIsOver ==
  /\ \A t \in Tokens : tokens[t].grant # Nobody /\ grants[tokens[t].grant] # "live" => tokens[t].refreshDead /\ tokens[t].accessDead
  /\ \A c \in Codes : codes[c].state = "replayed" => grants[codes[c].made] = "revoked"
  /\ \A g, h \in LiveGrants : g = h

\* "Disconnected": only of a grant that is over.
SaidIsDone == me.said = "disconnected" => grants[me.of] = "revoked"
=============================================================================
