------------------------------ MODULE WebProofs ------------------------------
(***************************************************************************)
(* What holds of the web's authorizations (SignInFlow), of the connector   *)
(* (Connector), of the seat in the voice room (VoiceSession), of a call    *)
(* through this origin's server (BffForward) and of the mechanic's library *)
(* (MachineLibrary), for all accounts, kinds, calls, codes, tokens, joins, *)
(* rooms, blueprints and files.  Each has an invariant that carries its    *)
(* theorems: GoodSign, GoodGrants, GoodVoice, GoodCall, GoodLibrary.       *)
(***************************************************************************)
EXTENDS SignInFlow, FiniteSetTheorems, WellFoundedInduction, NaturalsInduction, TLAPS

CONSTANTS MaxCodes, MaxTokens, MaxLive
VARIABLES flag, session, page, codes, grants, tokens, agent, me

Agents == INSTANCE Connector

CONSTANTS MaxJoins, MaxRooms, MaxMic, MaxReverb
VARIABLES feed, engine, calls, leaving, link, capture, mic, micOps, audio, renders, tab

Voice == INSTANCE VoiceSession WITH page <- tab

-----------------------------------------------------------------------------
(* Signing in, and one-time authorizations. *)

People == Accounts \cup {Nobody, Google}
Stages == {"idle", "exchange", "user", "act", "revoke", "signs in", "refused"}

(* A callback that has passed its checks, and one that holds a token.      *)
Passed == {"exchange", "user", "act", "revoke", "signs in"}
Holding == {"user", "act", "revoke"}

CallRows == [st : Stages, id : Ids \cup {NoTx}, as : People, session : People, spent : Nat]

SignShape ==
    /\ jar \in Jars
    /\ asked \in [Ids -> Kinds \cup {"none"}]
    /\ token \in [Ids -> Tokens]
    /\ back \subseteq [id : Ids, as : People, ok : BOOLEAN]
    /\ call \in [Calls -> CallRows]

(* Attempts are numbered as they start, and only a started one comes back, *)
(* with an account of its own provider.                                    *)
Attempts ==
    /\ \E n \in Nat : Started = 1 .. n
    /\ \A b \in back :
           /\ asked[b.id] # "none"
           /\ b.as \in IF asked[b.id] = "google" THEN {Google} ELSE Accounts
    /\ \A i \in Ids : token[i] # "none" => asked[i] # "none"

(* What a repo callback may have spent by each stage, of the time its host *)
(* gives it.                                                               *)
SpentBy(st) ==
    CASE st = "exchange" -> 0
      [] st = "user" -> 10
      [] st = "act" -> 20
      [] st = "revoke" -> 48
      [] OTHER -> 60

(* A callback is about an approval that came back; one past its checks has *)
(* an attempt of a kind it takes, and acts only for whose token it holds.  *)
CallFit(c) ==
    /\ call[c].st = "idle" => call[c] = Idle
    /\ call[c].st # "idle" => call[c].id \in Ids /\ asked[call[c].id] # "none"
    /\ call[c].st \in Passed =>
           /\ \E b \in back : b.id = call[c].id /\ b.as = call[c].as /\ b.ok
           /\ OneTime(asked[call[c].id]) \/ asked[call[c].id] \in {"signin", "google"}
    /\ call[c].st \in {"act", "revoke"} => OneTime(asked[call[c].id])
    /\ call[c].st = "signs in" => ~OneTime(asked[call[c].id])
    /\ call[c].st = "act" => call[c].as = call[c].session
    /\ call[c].st \in Holding => token[call[c].id] # "none"
    /\ call[c].id # NoTx /\ Purpose(asked[call[c].id]) = "repo" =>
           call[c].spent <= SpentBy(call[c].st)

(* A code buys one token: one callback at a time holds it.                 *)
OneHolder ==
    \A c, d \in Calls :
        call[c].st \in Holding /\ call[d].st \in Holding /\ call[c].id = call[d].id => c = d

LiveHeld ==
    \A i \in Ids : token[i] = "live" /\ OneTime(asked[i]) =>
        \E c \in Calls : call[c].id = i /\ call[c].st \in Holding

(* What was done was done with a token, which nobody may act with again.   *)
DoneFit ==
    /\ ActsAsAsked
    /\ \A d \in done : d.id \in Ids /\ token[d.id] # "none"
    /\ \A d \in done, c \in Calls : call[c].st \in {"user", "act"} => call[c].id # d.id

GoodSign ==
    /\ SignShape
    /\ Attempts
    /\ \A c \in Calls : CallFit(c)
    /\ OneHolder
    /\ LiveHeld
    /\ DoneFit

-----------------------------------------------------------------------------
(* What steps keep. *)

SignKept ==
    /\ \A i \in Ids : asked[i] # "none" => asked'[i] = asked[i]
    /\ back \subseteq back'
    /\ \A i \in Ids : token[i] # "none" => token'[i] # "none"

LEMMA FitStays ==
    ASSUME SignShape, NEW d \in Calls, CallFit(d), SignKept, call'[d] = call[d]
    PROVE  CallFit(d)'
<1>1. call[d].id \in Ids => asked'[call[d].id] = asked[call[d].id] \/ call[d].st = "idle"
  BY DEF SignKept, CallFit
<1>2. call[d].st = "idle" => call[d].id = NoTx
  BY DEF CallFit, Idle
<1>3. CASE call[d].st = "idle"
  BY <1>2, <1>3 DEF CallFit, Passed, Holding
<1>4. CASE call[d].st # "idle"
  <2>1. call[d].id \in Ids /\ asked'[call[d].id] = asked[call[d].id]
    BY <1>1, <1>4 DEF CallFit
  <2>2. QED
    BY <1>4, <2>1 DEF CallFit, SignKept, Passed, Holding
<1>5. QED
  BY <1>3, <1>4

(* What becomes of the call that moves, and of the others.                 *)
LEMMA CallMoves ==
    ASSUME SignShape, NEW c \in Calls, NEW st \in Stages, NEW s \in Nat, To(c, st, s)
    PROVE  /\ call' \in [Calls -> CallRows]
           /\ \A d \in Calls : d # c => call'[d] = call[d]
           /\ call'[c].st = st /\ call'[c].spent = call[c].spent + s
           /\ call'[c].id = call[c].id /\ call'[c].as = call[c].as
           /\ call'[c].session = call[c].session
<1>1. call[c] \in CallRows
  BY DEF SignShape
<1>2. call' = [call EXCEPT ![c] = [call[c] EXCEPT !.st = st, !.spent = call[c].spent + s]]
  BY DEF To, SignShape
<1>3. [call[c] EXCEPT !.st = st, !.spent = call[c].spent + s] \in CallRows
  <2>1. [call[c] EXCEPT !.st = st] \in CallRows
    BY <1>1 DEF CallRows
  <2>2. call[c].spent + s \in Nat
    BY <1>1 DEF CallRows
  <2>3. \A r \in CallRows, n \in Nat : [r EXCEPT !.spent = n] \in CallRows
    BY DEF CallRows
  <2>4. QED
    BY <2>1, <2>2, <2>3
<1>4. QED
  BY <1>1, <1>2, <1>3 DEF SignShape, CallRows

LEMMA WaitsAre ==
    ASSUME NEW c \in Calls, NEW s \in Waits(c)
    PROVE  s \in Nat /\ s <= 10
BY DEF Waits, CallTimeout

-----------------------------------------------------------------------------
(* One lemma per action. *)

LEMMA StartGood == ASSUME GoodSign, Start PROVE GoodSign'
<1>1. PICK i \in Ids, kind \in Kinds :
          /\ i = Cardinality(Started) + 1
          /\ asked' = [asked EXCEPT ![i] = kind]
          /\ jar' = [jar EXCEPT !.tx = i]
  BY DEF Start
<1>2. UNCHANGED <<back, call, token, done>>
  BY DEF Start
<1>3. PICK n \in Nat : Started = 1 .. n
  BY DEF GoodSign, Attempts
<1>4. i = n + 1
  <2>1. Cardinality(1 .. n) = n
    BY FS_Interval
  <2>2. QED
    BY <1>1, <1>3, <2>1
<1>5. asked[i] = "none" /\ token[i] = "none"
  BY <1>3, <1>4 DEF GoodSign, SignShape, Attempts, Started
<1>6. SignKept
  BY <1>1, <1>2, <1>5 DEF GoodSign, SignShape, SignKept
<1>7. SignShape'
  BY <1>1, <1>2 DEF GoodSign, SignShape, Jars
<1>8. Attempts'
  <2>1. kind = "none" => asked' = asked
    BY <1>1, <1>5 DEF GoodSign, SignShape
  <2>2. kind # "none" => Started' = 1 .. n + 1
    BY <1>1, <1>3, <1>4 DEF Started, GoodSign, SignShape
  <2>3. \E m \in Nat : Started' = 1 .. m
    BY <1>3, <2>1, <2>2 DEF Started
  <2>4. QED
    BY <1>1, <1>2, <1>5, <1>6, <2>3 DEF Attempts, SignKept, GoodSign, SignShape
<1>9. \A d \in Calls : CallFit(d)'
  BY <1>2, <1>6, FitStays DEF GoodSign
<1>10. OneHolder' /\ LiveHeld' /\ DoneFit'
  BY <1>1, <1>2, <1>5, <1>6
  DEF GoodSign, OneHolder, LiveHeld, DoneFit, ActsAsAsked, SignKept, SignShape, Holding
<1>11. QED
  BY <1>7, <1>8, <1>9, <1>10 DEF GoodSign

LEMMA ApproveGood == ASSUME GoodSign, Approve PROVE GoodSign'
<1>0. PICK i \in Started :
          \E as \in IF asked[i] = "google" THEN {Google} ELSE Accounts, ok \in BOOLEAN :
              back' = back \cup {[id |-> i, as |-> as, ok |-> ok]}
  BY DEF Approve
<1>1. PICK as \in IF asked[i] = "google" THEN {Google} ELSE Accounts, ok \in BOOLEAN :
          back' = back \cup {[id |-> i, as |-> as, ok |-> ok]}
  BY <1>0
<1>2. UNCHANGED <<jar, asked, call, token, done>>
  BY DEF Approve
<1>3. SignKept
  BY <1>1, <1>2 DEF SignKept
<1>4. i \in Ids /\ asked[i] # "none" /\ as \in People
  BY DEF Started, People
<1>5. SignShape'
  <2>1. [id |-> i, as |-> as, ok |-> ok] \in [id : Ids, as : People, ok : BOOLEAN]
    BY <1>4
  <2>2. QED
    BY <1>1, <1>2, <2>1 DEF GoodSign, SignShape
<1>6. Attempts'
  <2>1. Started' = Started
    BY <1>2 DEF Started
  <2>2. \A b \in back' : b \in back \/ (b.id = i /\ b.as = as)
    <3>1. \A b \in back' : b \in back \/ b = [id |-> i, as |-> as, ok |-> ok]
      BY <1>1
    <3>2. [id |-> i, as |-> as, ok |-> ok].id = i /\ [id |-> i, as |-> as, ok |-> ok].as = as
      OBVIOUS
    <3>3. QED
      BY <3>1, <3>2, Zenon
  <2>3. \A b \in back' :
            /\ asked[b.id] # "none"
            /\ b.as \in IF asked[b.id] = "google" THEN {Google} ELSE Accounts
    BY <1>4, <2>2 DEF GoodSign, Attempts
  <2>4. QED
    BY <1>2, <2>1, <2>3 DEF GoodSign, Attempts
<1>7. \A d \in Calls : CallFit(d)'
  BY <1>2, <1>3, FitStays DEF GoodSign
<1>8. QED
  BY <1>2, <1>5, <1>6, <1>7 DEF GoodSign, OneHolder, LiveHeld, DoneFit, ActsAsAsked

(* The cookie and the switch are nobody's callback.                        *)
LEMMA JarGood ==
    ASSUME GoodSign, jar' \in Jars, UNCHANGED <<asked, back, call, token, done>>
    PROVE  GoodSign'
<1>1. SignKept
  BY DEF SignKept
<1>2. \A d \in Calls : CallFit(d)'
  BY <1>1, FitStays DEF GoodSign
<1>3. Started' = Started
  BY DEF Started
<1>4. SignShape' /\ Attempts'
  BY <1>3 DEF GoodSign, SignShape, Attempts
<1>5. QED
  BY <1>2, <1>4 DEF GoodSign, OneHolder, LiveHeld, DoneFit, ActsAsAsked
(* A step of the callback c, once what it disturbs is known to be kept.    *)
LEMMA StepGood ==
    ASSUME GoodSign, NEW c \in Calls, SignKept, UNCHANGED <<asked, back>>, jar' \in Jars,
           token' \in [Ids -> Tokens], \A i \in Ids : token'[i] # "none" => asked[i] # "none",
           call' \in [Calls -> CallRows], \A d \in Calls : d # c => call'[d] = call[d],
           CallFit(c)', OneHolder', LiveHeld', DoneFit'
    PROVE  GoodSign'
<1>1. \A d \in Calls : CallFit(d)'
  BY FitStays DEF GoodSign
<1>2. SignShape'
  BY DEF GoodSign, SignShape
<1>3. Started' = Started
  BY DEF Started
<1>4. Attempts'
  BY <1>3 DEF GoodSign, Attempts
<1>5. QED
  BY <1>1, <1>2, <1>4 DEF GoodSign

(* A callback that neither gets a token nor lets go of a one-time one.     *)
LEMMA HoldersStay ==
    ASSUME GoodSign, NEW c \in Calls, UNCHANGED <<asked, token, done>>,
           \A d \in Calls : d # c => call'[d] = call[d],
           call'[c].st \in Holding => call[c].st \in Holding /\ call'[c].id = call[c].id,
           call'[c].st = "user" => call[c].st = "user",
           call'[c].st = "act" => call[c].st \in {"user", "act"},
           call[c].st \in Holding /\ OneTime(asked[call[c].id]) =>
               call'[c].st \in Holding /\ call'[c].id = call[c].id
    PROVE  OneHolder' /\ LiveHeld' /\ DoneFit'
<1>1. OneHolder'
  BY DEF GoodSign, OneHolder, Holding
<1>2. LiveHeld'
  <2> SUFFICES ASSUME NEW i \in Ids, token[i] = "live", OneTime(asked[i])
               PROVE  \E d \in Calls : call'[d].id = i /\ call'[d].st \in Holding
    BY DEF LiveHeld, Holding, OneTime, Purpose
  <2>1. PICK d \in Calls : call[d].id = i /\ call[d].st \in Holding
    BY DEF GoodSign, LiveHeld
  <2>2. QED
    BY <2>1
<1>3. DoneFit'
  BY DEF GoodSign, DoneFit, ActsAsAsked, OneTime, Purpose, IsGitHub, Holding
<1>4. QED
  BY <1>1, <1>2, <1>3

LEMMA ArriveGood == ASSUME GoodSign, NEW c \in Calls, Arrive(c) PROVE GoodSign'
<1>1. PICK b \in back :
          call' = [call EXCEPT ![c] = [st |-> IF Refusal(b) = "none" THEN "exchange" ELSE "refused",
                                       id |-> b.id, as |-> b.as, session |-> jar.session, spent |-> 0]]
  BY DEF Arrive
<1>2. call[c].st = "idle" /\ UNCHANGED <<jar, asked, back, token, done>>
  BY DEF Arrive
<1>3. b \in [id : Ids, as : People, ok : BOOLEAN] /\ asked[b.id] # "none"
  BY DEF GoodSign, SignShape, Attempts
<1>4. jar.session \in People /\ jar \in Jars
  BY DEF GoodSign, SignShape, Jars, People
<1> DEFINE r == [st |-> IF Refusal(b) = "none" THEN "exchange" ELSE "refused",
                 id |-> b.id, as |-> b.as, session |-> jar.session, spent |-> 0]
<1>5. r \in CallRows
  BY <1>3, <1>4 DEF CallRows, Stages
<1>6. call' = [call EXCEPT ![c] = r]
  BY <1>1
<1>7. call' \in [Calls -> CallRows] /\ call'[c] = r /\ \A d \in Calls : d # c => call'[d] = call[d]
  BY <1>5, <1>6 DEF GoodSign, SignShape
<1>8. Refusal(b) = "none" => b.ok /\ (OneTime(asked[b.id]) \/ asked[b.id] \in {"signin", "google"})
  <2> SUFFICES ASSUME Refusal(b) = "none"
               PROVE  b.ok /\ (OneTime(asked[b.id]) \/ asked[b.id] \in {"signin", "google"})
    OBVIOUS
  <2>1. b.ok /\ b.id = jar.tx /\ Takes(Callback(asked[b.id]), b.id) # "refuse"
    BY DEF Refusal, Declined
  <2>2. Purpose(asked[b.id]) \in {"google", "repo", "signin", "agent"}
    BY <2>1 DEF Takes, Callback
  <2>3. QED
    BY <2>1, <2>2 DEF OneTime, Purpose
<1>9. CallFit(c)'
  <2>1. r.st \in {"exchange", "refused"} /\ (r.st = "exchange" => Refusal(b) = "none")
    OBVIOUS
  <2>2. r.id = b.id /\ r.as = b.as /\ r.spent = 0
    OBVIOUS
  <2> HIDE DEF r
  <2>3. /\ call'[c].st \in {"exchange", "refused"} /\ (call'[c].st = "exchange" => Refusal(b) = "none")
        /\ call'[c].id = b.id /\ call'[c].as = b.as /\ call'[c].spent = 0
    BY <1>7, <2>1, <2>2
  <2>4. b \in back' /\ asked' = asked /\ b.id \in Ids
    BY <1>2, <1>3
  <2>5. call'[c].st \in Passed =>
           /\ \E x \in back' : x.id = call'[c].id /\ x.as = call'[c].as /\ x.ok
           /\ OneTime(asked'[call'[c].id]) \/ asked'[call'[c].id] \in {"signin", "google"}
    BY <1>8, <2>3, <2>4 DEF Passed
  <2>6. call'[c].spent <= SpentBy(call'[c].st)
    BY <2>3 DEF SpentBy
  <2>7. QED
    BY <1>3, <2>3, <2>4, <2>5, <2>6 DEF CallFit, Holding
<1>10. SignKept
  BY <1>2 DEF SignKept
<1>11. r.st \in {"exchange", "refused"}
  OBVIOUS
<1>12. OneHolder' /\ LiveHeld' /\ DoneFit'
  <2> HIDE DEF r
  <2>1. QED
    BY <1>2, <1>7, <1>11, HoldersStay DEF Holding
<1>13. QED
  BY <1>2, <1>4, <1>7, <1>9, <1>10, <1>12, StepGood DEF GoodSign, SignShape, Attempts

LEMMA LeavesGood ==
    ASSUME GoodSign, NEW c \in Calls, call[c].st \in {"refused", "signs in"}, jar' \in Jars,
           call' = [call EXCEPT ![c] = Idle], UNCHANGED <<asked, back, token, done>>
    PROVE  GoodSign'
<1>1. Idle \in CallRows
  BY DEF Idle, CallRows, Stages, People
<1>2. call' \in [Calls -> CallRows] /\ call'[c] = Idle /\ \A d \in Calls : d # c => call'[d] = call[d]
  BY <1>1 DEF GoodSign, SignShape
<1>3. Idle.st = "idle" /\ Idle.id = NoTx
  BY DEF Idle
<1>4. CallFit(c)'
  BY <1>2, <1>3 DEF CallFit, Passed, Holding, Idle
<1>5. OneHolder' /\ LiveHeld' /\ DoneFit'
  BY <1>2, <1>3, HoldersStay DEF Holding
<1>6. SignKept
  BY DEF SignKept
<1>7. QED
  BY <1>2, <1>4, <1>5, <1>6, StepGood DEF GoodSign, SignShape, Attempts

LEMMA RespondGood == ASSUME GoodSign, NEW c \in Calls, Respond(c) PROVE GoodSign'
<1>1. CASE call[c].st = "signs in"
  <2>1. PICK b \in back : b.as = call[c].as
    BY <1>1 DEF GoodSign, CallFit, Passed
  <2>2. call[c].as \in Accounts \cup {Google}
    BY <2>1 DEF GoodSign, Attempts
  <2>3. jar' \in Jars
    BY <1>1, <2>2 DEF Respond, Jars
  <2>4. QED
    BY <2>3, LeavesGood DEF Respond
<1>2. CASE call[c].st # "signs in"
  <2>1. jar' \in Jars
    BY <1>2 DEF Respond, GoodSign, SignShape, Jars
  <2>2. QED
    BY <2>1, LeavesGood DEF Respond
<1>3. QED
  BY <1>1, <1>2

LEMMA TimeSpent ==
    ASSUME GoodSign, NEW c \in Calls, call[c].id \in Ids
    PROVE  /\ call[c].spent \in Nat /\ call[c].st \in Stages
           /\ Purpose(asked[call[c].id]) = "repo" => call[c].spent <= SpentBy(call[c].st)
<1>1. call[c] \in CallRows /\ call[c].id # NoTx
  BY DEF GoodSign, SignShape, Ids, NoTx
<1>2. CallFit(c)
  BY DEF GoodSign
<1>3. QED
  BY <1>1, <1>2 DEF CallRows, CallFit

LEMMA ExchangeGood == ASSUME GoodSign, NEW c \in Calls, Exchange(c) PROVE GoodSign'
<1>1. PICK s \in Waits(c) :
          \/ /\ token[call[c].id] = "none"
             /\ token' = [token EXCEPT ![call[c].id] = "live"]
             /\ To(c, "user", s)
          \/ UNCHANGED token /\ To(c, "refused", s)
  BY DEF Exchange
<1>2. call[c].st = "exchange" /\ UNCHANGED <<jar, asked, back, done, on>>
  BY DEF Exchange
<1>3. /\ call[c].id \in Ids /\ asked[call[c].id] # "none"
      /\ \E b \in back : b.id = call[c].id /\ b.as = call[c].as /\ b.ok
      /\ OneTime(asked[call[c].id]) \/ asked[call[c].id] \in {"signin", "google"}
  BY <1>2 DEF GoodSign, CallFit, Passed
<1>4. s \in Nat /\ s <= 10
  BY WaitsAre
<1>5. SignShape /\ jar' \in Jars
  BY <1>2 DEF GoodSign, SignShape
<1>6. Purpose(asked[call[c].id]) = "repo" => call[c].spent + s <= 10
  BY <1>2, <1>3, <1>4, TimeSpent DEF SpentBy
<1>7. CASE token[call[c].id] = "none" /\ token' = [token EXCEPT ![call[c].id] = "live"] /\ To(c, "user", s)
  <2>1. /\ call' \in [Calls -> CallRows] /\ \A d \in Calls : d # c => call'[d] = call[d]
        /\ call'[c].st = "user" /\ call'[c].spent = call[c].spent + s
        /\ call'[c].id = call[c].id /\ call'[c].as = call[c].as
    BY <1>4, <1>5, <1>7, CallMoves DEF Stages
  <2>2. /\ token' \in [Ids -> Tokens] /\ token'[call[c].id] = "live"
        /\ \A i \in Ids : i # call[c].id => token'[i] = token[i]
    BY <1>3, <1>5, <1>7 DEF SignShape, Tokens
  <2>3. SignKept
    BY <1>2, <2>2 DEF SignKept
  <2>4. \A i \in Ids : token'[i] # "none" => asked[i] # "none"
    BY <1>3, <2>2 DEF GoodSign, Attempts
  <2>5. SpentBy("user") = 10
    BY DEF SpentBy
  <2>6. CallFit(c)'
    BY <1>2, <1>3, <1>6, <2>1, <2>2, <2>5 DEF CallFit, Passed, Holding
  <2>7. \A d \in Calls : d # c /\ call[d].st \in Holding => call[d].id # call[c].id
    BY <1>7 DEF GoodSign, CallFit
  <2>8. OneHolder'
    BY <2>1, <2>7 DEF GoodSign, OneHolder, Holding
  <2>9. LiveHeld'
    <3> SUFFICES ASSUME NEW i \in Ids, token'[i] = "live", OneTime(asked[i])
                 PROVE  \E d \in Calls : call'[d].id = i /\ call'[d].st \in Holding
      BY <1>2 DEF LiveHeld, Holding, OneTime, Purpose
    <3>1. CASE i = call[c].id
      BY <2>1, <3>1 DEF Holding
    <3>2. CASE i # call[c].id
      <4>1. PICK d \in Calls : call[d].id = i /\ call[d].st \in Holding
        BY <2>2, <3>2 DEF GoodSign, LiveHeld
      <4>2. QED
        BY <2>1, <3>2, <4>1
    <3>3. QED
      BY <3>1, <3>2
  <2>10. \A d \in done : d.id # call[c].id
    BY <1>7 DEF GoodSign, DoneFit
  <2>11. DoneFit'
    BY <1>2, <2>1, <2>2, <2>10 DEF GoodSign, DoneFit, ActsAsAsked, OneTime, Purpose, IsGitHub
  <2>12. QED
    BY <1>2, <1>5, <2>1, <2>2, <2>3, <2>4, <2>6, <2>8, <2>9, <2>11, StepGood
<1>8. CASE UNCHANGED token /\ To(c, "refused", s)
  <2>1. /\ call' \in [Calls -> CallRows] /\ \A d \in Calls : d # c => call'[d] = call[d]
        /\ call'[c].st = "refused" /\ call'[c].spent = call[c].spent + s
        /\ call'[c].id = call[c].id
    BY <1>4, <1>5, <1>8, CallMoves DEF Stages
  <2>2. SpentBy("refused") = 60
    BY DEF SpentBy
  <2>3. call'[c].spent \in Nat
    BY <2>1 DEF CallRows
  <2>4. CallFit(c)'
    BY <1>2, <1>3, <1>6, <2>1, <2>2, <2>3 DEF CallFit, Passed, Holding
  <2>5. OneHolder' /\ LiveHeld' /\ DoneFit'
    BY <1>2, <1>8, <2>1, HoldersStay DEF Holding
  <2>6. SignKept
    BY <1>2, <1>8 DEF SignKept
  <2>7. QED
    BY <1>2, <1>5, <1>8, <2>1, <2>4, <2>5, <2>6, StepGood DEF GoodSign, SignShape, Attempts
<1>9. QED
  BY <1>1, <1>7, <1>8

LEMMA TwoCalls == \A m, n \in Nat : m <= 10 /\ n <= 10 => m + n <= 20 /\ m + n <= 48
OBVIOUS

(* A callback that goes on to a stage it may go on to, its token kept.     *)
LEMMA GoesOn ==
    ASSUME GoodSign, NEW c \in Calls, NEW st \in Stages, NEW s \in Nat, To(c, st, s),
           UNCHANGED <<jar, asked, back, token, done>>,
           call[c].st = "user",
           \/ OneTime(asked[call[c].id]) /\ st \in {"act", "revoke"}
           \/ ~OneTime(asked[call[c].id]) /\ st \in {"signs in", "refused"},
           st = "act" => Belongs(c), s <= 10
    PROVE  GoodSign'
<1>1. /\ call[c].id \in Ids /\ asked[call[c].id] # "none" /\ token[call[c].id] # "none"
      /\ \E b \in back : b.id = call[c].id /\ b.as = call[c].as /\ b.ok
      /\ OneTime(asked[call[c].id]) \/ asked[call[c].id] \in {"signin", "google"}
  BY DEF GoodSign, CallFit, Passed, Holding
<1>2. SignShape
  BY DEF GoodSign
<1>3. /\ call' \in [Calls -> CallRows] /\ \A d \in Calls : d # c => call'[d] = call[d]
      /\ call'[c].st = st /\ call'[c].spent = call[c].spent + s
      /\ call'[c].id = call[c].id /\ call'[c].as = call[c].as /\ call'[c].session = call[c].session
  BY <1>2, CallMoves
<1>4. Purpose(asked[call[c].id]) = "repo" => OneTime(asked[call[c].id]) /\ call[c].spent <= 10
  BY <1>1, TimeSpent DEF SpentBy, OneTime
<1>5. SpentBy("act") = 20 /\ SpentBy("revoke") = 48
  BY DEF SpentBy
<1>6. call[c].spent \in Nat
  BY <1>1, TimeSpent
<1>7. call'[c].id # NoTx /\ Purpose(asked'[call'[c].id]) = "repo" => call'[c].spent <= SpentBy(call'[c].st)
  <2> SUFFICES ASSUME Purpose(asked[call[c].id]) = "repo"
               PROVE  call[c].spent + s <= SpentBy(st)
    BY <1>3
  <2>1. st = "act" \/ st = "revoke"
    BY <1>4
  <2>2. call[c].spent + s <= 20 /\ call[c].spent + s <= 48
    BY <1>4, <1>6, TwoCalls, Zenon
  <2>3. QED
    BY <1>5, <2>1, <2>2, Zenon
<1>8. CallFit(c)'
  <2>1. asked'[call'[c].id] = asked[call[c].id]
    BY <1>3
  <2>2. \E b \in back' : b.id = call'[c].id /\ b.as = call'[c].as /\ b.ok
    BY <1>1, <1>3
  <2>3. st \in {"act", "revoke", "signs in", "refused"}
    OBVIOUS
  <2>4. st = "act" => call'[c].as = call'[c].session
    BY <1>3 DEF Belongs
  <2>5. QED
    BY <1>1, <1>3, <1>7, <2>1, <2>2, <2>3, <2>4 DEF CallFit, Passed, Holding
<1>9. OneHolder' /\ LiveHeld' /\ DoneFit'
  BY <1>3, HoldersStay DEF Holding
<1>10. SignKept
  BY DEF SignKept
<1>11. QED
  BY <1>2, <1>3, <1>8, <1>9, <1>10, StepGood DEF GoodSign, SignShape, Attempts

LEMMA ReadUserGood == ASSUME GoodSign, NEW c \in Calls, ReadUser(c) PROVE GoodSign'
<1>1. PICK s \in Waits(c) : To(c, "revoke", s) \/ To(c, IF Belongs(c) THEN "act" ELSE "revoke", s)
  BY DEF ReadUser
<1>2. s \in Nat /\ s <= 10
  BY WaitsAre
<1>3. To(c, "revoke", s) \/ (To(c, "act", s) /\ Belongs(c))
  BY <1>1
<1>4. QED
  BY <1>2, <1>3, GoesOn DEF ReadUser, Stages

LEMMA SignsInGood == ASSUME GoodSign, NEW c \in Calls, SignsIn(c) PROVE GoodSign'
<1>1. To(c, "signs in", 0) \/ To(c, "refused", 0)
  BY DEF SignsIn
<1>2. call[c].st = "user" /\ ~OneTime(asked[call[c].id]) /\ UNCHANGED <<jar, asked, back, token, done>>
  BY DEF SignsIn
<1>3. "signs in" \in Stages /\ "refused" \in Stages /\ 0 \in Nat /\ 0 <= 10
  BY DEF Stages
<1>4. CASE To(c, "signs in", 0)
  BY <1>2, <1>3, <1>4, GoesOn
<1>5. CASE To(c, "refused", 0)
  BY <1>2, <1>3, <1>5, GoesOn
<1>6. QED
  BY <1>1, <1>4, <1>5

LEMMA ActGood == ASSUME GoodSign, NEW c \in Calls, Act(c) PROVE GoodSign'
<1> DEFINE i == call[c].id
           k == [id |-> i, what |-> asked[i], as |-> call[c].session, whose |-> call[c].as]
           s == IF Waits(c) = {0} THEN 0 ELSE ActionTimeout(call[c].spent)
<1>1. call[c].st = "act" /\ To(c, "revoke", s) /\ UNCHANGED <<jar, asked, back, token, on>>
  BY DEF Act
<1>2. done' = done \/ done' = done \cup {k}
  BY DEF Act
<1>3. /\ i \in Ids /\ asked[i] # "none" /\ token[i] # "none" /\ OneTime(asked[i])
      /\ call[c].as = call[c].session
      /\ \E b \in back : b.id = i /\ b.as = call[c].as /\ b.ok
  BY <1>1 DEF GoodSign, CallFit, Passed, Holding
<1>4. call[c].spent \in Nat /\ (Purpose(asked[i]) = "repo" => call[c].spent <= 20)
  BY <1>1, <1>3, TimeSpent DEF SpentBy
<1>5. Purpose(asked[i]) # "repo" => s = 0
  BY DEF Waits
<1>6. Purpose(asked[i]) = "repo" => s \in Nat /\ call[c].spent + s <= 48
  <2>1. ASSUME Purpose(asked[i]) = "repo" PROVE s = ActionTimeout(call[c].spent)
    <3>1. Waits(c) = {0, 10} /\ 10 \in {0, 10} /\ 10 \notin {0}
      BY <2>1 DEF Waits, CallTimeout
    <3>2. Waits(c) # {0}
      BY <3>1
    <3>3. QED
      BY <3>2
  <2>2. call[c].spent <= 20 =>
            ActionTimeout(call[c].spent) \in Nat /\ call[c].spent + ActionTimeout(call[c].spent) <= 48
    BY <1>4 DEF ActionTimeout, Limit, Reserve
  <2> HIDE DEF s
  <2>3. QED
    BY <1>4, <2>1, <2>2
<1>7. SignShape /\ jar' \in Jars
  BY <1>1 DEF GoodSign, SignShape
<1> HIDE DEF s
<1>8. s \in Nat
  BY <1>5, <1>6
<1>9. /\ call' \in [Calls -> CallRows] /\ \A d \in Calls : d # c => call'[d] = call[d]
      /\ call'[c].st = "revoke" /\ call'[c].spent = call[c].spent + s
      /\ call'[c].id = i /\ call'[c].as = call[c].as /\ call'[c].session = call[c].session
  BY <1>1, <1>7, <1>8, CallMoves DEF Stages
<1>10. SpentBy("revoke") = 48
  BY DEF SpentBy
<1>11. CallFit(c)'
  <2>1. asked'[call'[c].id] = asked[i] /\ token'[call'[c].id] # "none"
    BY <1>1, <1>3, <1>9
  <2>2. \E b \in back' : b.id = call'[c].id /\ b.as = call'[c].as /\ b.ok
    BY <1>1, <1>3, <1>9
  <2>3. Purpose(asked'[call'[c].id]) = "repo" => call'[c].spent <= SpentBy(call'[c].st)
    BY <1>6, <1>9, <1>10, <2>1
  <2>4. QED
    BY <1>3, <1>9, <2>1, <2>2, <2>3 DEF CallFit, Passed, Holding
<1>12. OneHolder'
  BY <1>1, <1>9 DEF GoodSign, OneHolder, Holding
<1>13. LiveHeld'
  <2> SUFFICES ASSUME NEW j \in Ids, token[j] = "live", OneTime(asked[j])
               PROVE  \E d \in Calls : call'[d].id = j /\ call'[d].st \in Holding
    BY <1>1 DEF LiveHeld, Holding, OneTime, Purpose
  <2>1. PICK d \in Calls : call[d].id = j /\ call[d].st \in Holding
    BY DEF GoodSign, LiveHeld
  <2>2. QED
    BY <1>9, <2>1 DEF Holding
<1>14. /\ k.id = i /\ OneTime(k.what) /\ k.as = k.whose /\ IsGitHub(k.whose)
  <2>1. PICK b \in back : b.id = i /\ b.as = call[c].as
    BY <1>3
  <2>2. asked[i] # "google"
    BY <1>3 DEF OneTime, Purpose
  <2>3. call[c].as \in Accounts
    BY <2>1, <2>2 DEF GoodSign, Attempts
  <2>4. QED
    BY <1>3, <2>3 DEF IsGitHub
<1>15. \A d \in done : d.id # i
  BY <1>1 DEF GoodSign, DoneFit
<1>16. \A d \in Calls : call'[d].st \in {"user", "act"} => call'[d].id # i /\ call'[d] = call[d]
  BY <1>1, <1>9 DEF GoodSign, OneHolder, Holding
<1> HIDE DEF k, i
<1>17. DoneFit'
  <2>1. \A d \in done' : d \in done \/ d = k
    BY <1>2
  <2>2. ActsAsAsked'
    <3>1. \A d \in done' : OneTime(d.what) /\ d.as = d.whose /\ IsGitHub(d.whose)
      BY <1>14, <2>1 DEF GoodSign, DoneFit, ActsAsAsked
    <3>2. \A d, e \in done' : d.id = e.id => d = e
      BY <1>14, <1>15, <2>1 DEF GoodSign, DoneFit, ActsAsAsked
    <3>3. QED
      BY <3>1, <3>2 DEF ActsAsAsked
  <2>3. \A d \in done' : d.id \in Ids /\ token'[d.id] # "none"
    BY <1>1, <1>3, <1>14, <2>1 DEF GoodSign, DoneFit
  <2>4. \A d \in done', e \in Calls : call'[e].st \in {"user", "act"} => call'[e].id # d.id
    BY <1>14, <1>16, <2>1 DEF GoodSign, DoneFit
  <2>5. QED
    BY <2>2, <2>3, <2>4 DEF DoneFit
<1>18. SignKept
  BY <1>1 DEF SignKept
<1>19. QED
  BY <1>1, <1>7, <1>9, <1>11, <1>12, <1>13, <1>17, <1>18, StepGood DEF GoodSign, SignShape, Attempts

LEMMA RevokeGood == ASSUME GoodSign, NEW c \in Calls, Revoke(c) PROVE GoodSign'
<1>1. PICK as \in {"revoked", "tried"} : token' = [token EXCEPT ![call[c].id] = as]
  BY DEF Revoke
<1>2. PICK s \in Waits(c) : To(c, "refused", s)
  BY DEF Revoke
<1>3. call[c].st = "revoke" /\ UNCHANGED <<jar, asked, back, done, on>>
  BY DEF Revoke
<1>4. call[c].id \in Ids /\ asked[call[c].id] # "none" /\ token[call[c].id] # "none"
  BY <1>3 DEF GoodSign, CallFit, Holding
<1>5. SignShape /\ jar' \in Jars
  BY <1>3 DEF GoodSign, SignShape
<1>6. /\ token' \in [Ids -> Tokens] /\ token'[call[c].id] = as
      /\ \A i \in Ids : i # call[c].id => token'[i] = token[i]
  BY <1>1, <1>4, <1>5 DEF SignShape, Tokens
<1>7. s \in Nat /\ s <= 10
  BY WaitsAre
<1>8. /\ call' \in [Calls -> CallRows] /\ \A d \in Calls : d # c => call'[d] = call[d]
      /\ call'[c].st = "refused" /\ call'[c].spent = call[c].spent + s /\ call'[c].id = call[c].id
  BY <1>2, <1>5, <1>7, CallMoves DEF Stages
<1>9. SpentBy("revoke") = 48 /\ SpentBy("refused") = 60
  BY DEF SpentBy
<1>10. call[c].spent \in Nat /\ (Purpose(asked[call[c].id]) = "repo" => call[c].spent <= 48)
  BY <1>3, <1>4, <1>9, TimeSpent
<1>11. CallFit(c)'
  <2>1. Purpose(asked'[call'[c].id]) = "repo" => call'[c].spent <= SpentBy(call'[c].st)
    BY <1>3, <1>7, <1>8, <1>9, <1>10
  <2>2. QED
    BY <1>3, <1>4, <1>8, <2>1 DEF CallFit, Passed, Holding
<1>12. OneHolder'
  BY <1>8 DEF GoodSign, OneHolder, Holding
<1>13. LiveHeld'
  <2> SUFFICES ASSUME NEW i \in Ids, token'[i] = "live", OneTime(asked[i])
               PROVE  \E d \in Calls : call'[d].id = i /\ call'[d].st \in Holding
    BY <1>3 DEF LiveHeld, Holding, OneTime, Purpose
  <2>1. i # call[c].id
    BY <1>6
  <2>2. PICK d \in Calls : call[d].id = i /\ call[d].st \in Holding
    BY <1>6, <2>1 DEF GoodSign, LiveHeld
  <2>3. QED
    BY <1>8, <2>1, <2>2
<1>14. DoneFit'
  <2>1. ActsAsAsked'
    BY <1>3 DEF GoodSign, DoneFit, ActsAsAsked, OneTime, Purpose, IsGitHub
  <2>2. \A d \in done' : d.id \in Ids /\ token'[d.id] # "none"
    BY <1>3, <1>6 DEF GoodSign, DoneFit
  <2>3. \A d \in done', e \in Calls : call'[e].st \in {"user", "act"} => call'[e].id # d.id
    BY <1>3, <1>8 DEF GoodSign, DoneFit
  <2>4. QED
    BY <2>1, <2>2, <2>3 DEF DoneFit
<1>15. SignKept
  BY <1>3, <1>6 DEF SignKept
<1>16. \A i \in Ids : token'[i] # "none" => asked[i] # "none"
  BY <1>4, <1>6 DEF GoodSign, Attempts
<1>17. QED
  BY <1>3, <1>5, <1>6, <1>8, <1>11, <1>12, <1>13, <1>14, <1>15, <1>16, StepGood

-----------------------------------------------------------------------------
(* What follows, in every reachable state. *)

LEMMA SignStarts == Init => GoodSign
<1> SUFFICES ASSUME Init PROVE GoodSign
  OBVIOUS
<1>1. PICK s \in Accounts \cup {Nobody} : jar = [session |-> s, tx |-> NoTx]
  BY DEF Init
<1>2. Idle \in CallRows /\ Idle.st = "idle" /\ Idle.id = NoTx
  BY DEF Idle, CallRows, Stages, People
<1>3. /\ asked = [i \in Ids |-> "none"] /\ token = [i \in Ids |-> "none"]
      /\ back = {} /\ done = {} /\ call = [c \in Calls |-> Idle]
  BY DEF Init
<1>4. SignShape
  BY <1>1, <1>2, <1>3 DEF SignShape, Jars, Tokens
<1>5. Started = 1 .. 0 /\ 0 \in Nat
  BY <1>3 DEF Started
<1>6. Attempts
  BY <1>3, <1>5 DEF Attempts
<1>7. \A c \in Calls : CallFit(c)
  BY <1>2, <1>3 DEF CallFit, Passed, Holding
<1>8. OneHolder /\ LiveHeld /\ DoneFit
  BY <1>2, <1>3 DEF OneHolder, LiveHeld, DoneFit, ActsAsAsked, Holding
<1>9. QED
  BY <1>4, <1>6, <1>7, <1>8 DEF GoodSign

LEMMA SignStays == GoodSign /\ [Next]_vars => GoodSign'
<1> SUFFICES ASSUME GoodSign, [Next]_vars PROVE GoodSign'
  OBVIOUS
<1>1. CASE CookieExpires \/ SignOut
  <2>1. jar \in Jars
    BY DEF GoodSign, SignShape
  <2>2. jar' \in Jars
    BY <1>1, <2>1 DEF CookieExpires, SignOut, Jars
  <2>3. QED
    BY <1>1, <2>2, JarGood DEF CookieExpires, SignOut
<1>2. CASE Switch
  BY <1>2, JarGood DEF Switch, GoodSign, SignShape
<1>3. CASE UNCHANGED vars
  BY <1>3, JarGood DEF vars, GoodSign, SignShape
<1>4. ASSUME NEW c \in Calls, Leaves(c) PROVE GoodSign'
  BY <1>4, LeavesGood DEF Leaves, GoodSign, SignShape
<1>5. QED
  BY <1>1, <1>2, <1>3, <1>4, StartGood, ApproveGood, ArriveGood, ExchangeGood, ReadUserGood,
     SignsInGood, ActGood, RevokeGood, RespondGood DEF Next

LEMMA SignInvariant == Spec => []GoodSign
BY SignStarts, SignStays, PTL DEF Spec

(* Every reachable state is well typed.                                    *)
THEOREM SignTypes == Spec => []TypeOK
<1>1. GoodSign => TypeOK
  BY DEF GoodSign, SignShape, CallRows, Stages, TypeOK
<1>2. QED
  BY <1>1, SignInvariant, PTL

(* A one-time authorization does the one thing it was asked for, at most   *)
(* once, and only for the GitHub account signed in here, however many      *)
(* attempts share the cookie and callbacks run at once.                    *)
THEOREM OnlyAsAsked == Spec => []ActsAsAsked
<1>1. GoodSign => ActsAsAsked
  BY DEF GoodSign, DoneFit
<1>2. QED
  BY <1>1, SignInvariant, PTL

LEMMA TokensSettled == GoodSign => TokensReturned
<1> SUFFICES ASSUME GoodSign PROVE TokensReturned
  OBVIOUS
<1>1. ASSUME NEW c \in Calls, call[c].id # NoTx, Purpose(asked[call[c].id]) = "repo"
      PROVE  call[c].spent <= Limit
  <2>1. call[c].id \in Ids
    BY <1>1 DEF GoodSign, SignShape, CallRows
  <2>2. call[c].spent <= SpentBy(call[c].st) /\ call[c].spent \in Nat
    BY <1>1, <2>1, TimeSpent
  <2>3. SpentBy(call[c].st) \in {0, 10, 20, 48, 60}
    BY DEF SpentBy
  <2>4. QED
    BY <2>2, <2>3 DEF Limit
<1>2. QED
  BY <1>1 DEF GoodSign, LiveHeld, TokensReturned, Holding

(* No one-time token outlives its callback without FORGE having tried to   *)
(* revoke it, and a repo callback ends within its host's time.             *)
THEOREM TokensGoBack == Spec => []TokensReturned
BY TokensSettled, SignInvariant, PTL

(* Nobody is signed in by anything but a sign-in they approved: never by   *)
(* an authorization for one action, nor as another account; given that     *)
(* "nobody" is not the name of an account.                                 *)
THEOREM SignedInAsApproved ==
    ASSUME Nobody \notin Accounts
    PROVE  Spec => SignedInByAsking
<1>1. GoodSign /\ [Next]_vars => SignedInByAskingStep \/ UNCHANGED vars
  <2> SUFFICES ASSUME GoodSign, [Next]_vars,
                      NEW a \in Accounts \cup {Google}, jar'.session = a, jar.session # a
               PROVE  \E b \in back : asked[b.id] \in {"signin", "google"} /\ b.as = a /\ b.ok
    BY DEF SignedInByAskingStep
  <2>1. jar \in Jars /\ a # Nobody
    BY DEF GoodSign, SignShape, Nobody, Google
  <2>2. CASE \E c \in Calls : Respond(c)
    <3>1. PICK c \in Calls : Respond(c)
      BY <2>2
    <3>2. call[c].st = "signs in" /\ call[c].as = a
      BY <3>1 DEF Respond
    <3>3. QED
      BY <3>2 DEF GoodSign, CallFit, Passed
  <2>3. CASE Start \/ CookieExpires \/ SignOut
    BY <2>1, <2>3 DEF Start, CookieExpires, SignOut, Jars
  <2>4. CASE UNCHANGED jar
    BY <2>4
  <2>5. QED
    BY <2>2, <2>3, <2>4 DEF Next, vars, Approve, Switch, Arrive, Exchange, ReadUser, SignsIn, Act, Revoke, Leaves
<1>2. QED
  BY <1>1, SignInvariant, PTL DEF Spec, SignedInByAsking

-----------------------------------------------------------------------------
(* The connector: one agent's codes, grants and tokens. *)

GrantShape ==
    /\ flag \in BOOLEAN
    /\ session \in {"github", "google", "practice", "out"}
    /\ page \in Agents!Screens
    /\ codes \in [Agents!Codes -> Agents!CodeRows]
    /\ grants \in [Agents!Codes -> {"none", "live", "revoked"}]
    /\ tokens \in [Agents!Tokens -> Agents!TokenRows]
    /\ agent \in 0 .. MaxTokens
    /\ me \in Agents!AgentLists

OneLive == \A g, h \in Agents!LiveGrants : g = h

(* A code makes its own grant, or goes into the one there is; one that was *)
(* never redeemed made none, one redeemed twice left none.                 *)
CodesFit ==
    \A c \in Agents!Codes :
        /\ codes[c].state \in {"none", "issued", "expired"} => grants[c] = "none"
        /\ codes[c].state \in {"used", "replayed"} => codes[c].made \in Agents!Codes /\ grants[codes[c].made] # "none"
        /\ codes[c].state = "replayed" => grants[codes[c].made] = "revoked"

(* Every token is in a grant that was made, and dead once that is over;    *)
(* the agent holds a token that was issued.                                *)
TokensFit ==
    /\ \A t \in Agents!Tokens : tokens[t].grant # 0 =>
           /\ tokens[t].grant \in Agents!Codes /\ grants[tokens[t].grant] # "none"
           /\ grants[tokens[t].grant] # "live" => tokens[t].refreshDead /\ tokens[t].accessDead
    /\ agent # 0 => tokens[agent].grant # 0

(* The account page names grants that were made.                           *)
ListFit ==
    /\ \A g \in me.list : g # 0 => grants[g] # "none"
    /\ me.removing # 0 => grants[me.removing] # "none"
    /\ me.said = "disconnected" => me.of \in Agents!Codes /\ grants[me.of] = "revoked"

GoodGrants == GrantShape /\ OneLive /\ CodesFit /\ TokensFit /\ ListFit

(* What is never taken back: a grant is made once, and once over stays so. *)
GrantsOnward ==
    \A g \in Agents!Codes :
        /\ grants[g] # "none" => grants'[g] # "none"
        /\ grants[g] = "revoked" => grants'[g] = "revoked"

LEMMA RevokeKeeps ==
    ASSUME GoodGrants, NEW g \in Agents!Codes, grants[g] # "none", Agents!Revoke(g)
    PROVE  /\ grants' \in [Agents!Codes -> {"none", "live", "revoked"}] /\ OneLive'
           /\ tokens' \in [Agents!Tokens -> Agents!TokenRows]
           /\ GrantsOnward /\ grants'[g] = "revoked"
           /\ \A h \in Agents!Codes : grants[h] = "none" => grants'[h] = "none"
           /\ \A t \in Agents!Tokens : tokens'[t].grant = tokens[t].grant
           /\ \A t \in Agents!Tokens : tokens'[t].grant # 0 =>
                  /\ tokens'[t].grant \in Agents!Codes /\ grants'[tokens'[t].grant] # "none"
                  /\ grants'[tokens'[t].grant] # "live" => tokens'[t].refreshDead /\ tokens'[t].accessDead
<1>1. /\ grants' = [grants EXCEPT ![g] = "revoked"]
      /\ tokens' = [t \in Agents!Tokens |-> IF tokens[t].grant = g
                                           THEN [tokens[t] EXCEPT !.refreshDead = TRUE, !.accessDead = TRUE]
                                           ELSE tokens[t]]
  BY DEF Agents!Revoke
<1>2. /\ grants \in [Agents!Codes -> {"none", "live", "revoked"}]
      /\ tokens \in [Agents!Tokens -> Agents!TokenRows]
  BY DEF GoodGrants, GrantShape
<1>3. \A h \in Agents!Codes : grants'[h] = IF h = g THEN "revoked" ELSE grants[h]
  BY <1>1, <1>2
<1>4. grants' \in [Agents!Codes -> {"none", "live", "revoked"}]
  BY <1>1, <1>2
<1>5. OneLive'
  BY <1>3, <1>4 DEF GoodGrants, OneLive, Agents!LiveGrants
<1>6. \A r \in Agents!TokenRows :
          LET dead == [r EXCEPT !.refreshDead = TRUE, !.accessDead = TRUE] IN
          /\ dead \in Agents!TokenRows /\ dead.grant = r.grant
          /\ dead.refreshDead /\ dead.accessDead
  <2> TAKE r \in Agents!TokenRows
  <2> DEFINE half == [r EXCEPT !.refreshDead = TRUE]
  <2>1. half \in Agents!TokenRows /\ half.grant = r.grant /\ half.refreshDead
    BY DEF Agents!TokenRows
  <2> HIDE DEF half
  <2>2. LET dead == [half EXCEPT !.accessDead = TRUE] IN
        dead \in Agents!TokenRows /\ dead.grant = half.grant /\ dead.refreshDead = half.refreshDead /\ dead.accessDead
    BY <2>1 DEF Agents!TokenRows
  <2>3. QED
    BY <2>1, <2>2 DEF half
<1>7. \A t \in Agents!Tokens :
          /\ tokens'[t] \in Agents!TokenRows /\ tokens'[t].grant = tokens[t].grant
          /\ tokens[t].grant = g => tokens'[t].refreshDead /\ tokens'[t].accessDead
          /\ tokens[t].grant # g => tokens'[t] = tokens[t]
  <2> TAKE t \in Agents!Tokens
  <2>1. tokens[t] \in Agents!TokenRows
    BY <1>2
  <2>2. QED
    BY <1>1, <1>6, <2>1
<1>8. tokens' \in [Agents!Tokens -> Agents!TokenRows]
  BY <1>1, <1>7
<1>9. GrantsOnward
  BY <1>3 DEF GrantsOnward
<1>10. QED
  BY <1>3, <1>4, <1>5, <1>7, <1>8, <1>9 DEF GoodGrants, TokensFit

(* A new pair in the grant g: every other token stays in its own, and      *)
(* none comes back to life.                                                *)
LEMMA IssueKeeps ==
    ASSUME NEW toks \in [Agents!Tokens -> Agents!TokenRows], NEW g \in Agents!Codes,
           Agents!NextToken \in Agents!Tokens, MaxCodes \in Nat
    PROVE  /\ Agents!IssuesTo(toks, g) \in [Agents!Tokens -> Agents!TokenRows]
           /\ Agents!IssuesTo(toks, g)[Agents!NextToken].grant = g
           /\ \A t \in Agents!Tokens : t # Agents!NextToken =>
                  /\ Agents!IssuesTo(toks, g)[t].grant = toks[t].grant
                  /\ toks[t].refreshDead => Agents!IssuesTo(toks, g)[t].refreshDead
                  /\ Agents!IssuesTo(toks, g)[t].accessDead = toks[t].accessDead
<1> DEFINE n == Agents!NextToken
           new == [grant |-> g, used |-> "no", grace |-> FALSE, refreshDead |-> FALSE, accessDead |-> FALSE]
           more == [toks EXCEPT ![n] = new]
           all == Agents!IssuesTo(toks, g)
<1>1. new \in Agents!TokenRows /\ new.grant = g
  BY DEF Agents!TokenRows, Agents!Codes
<1>2. more \in [Agents!Tokens -> Agents!TokenRows] /\ more[n] = new
      /\ \A t \in Agents!Tokens : t # n => more[t] = toks[t]
  <2> HIDE DEF new, n
  <2>1. n \in Agents!Tokens
    BY DEF n
  <2>2. QED
    BY <1>1, <2>1
<1>3. all = [t \in Agents!Tokens |->
               IF t \in Agents!Live(more, g) /\ Agents!Cardinality(Agents!Newer(more, g, t)) >= MaxLive
               THEN [more[t] EXCEPT !.refreshDead = TRUE] ELSE more[t]]
  BY DEF Agents!IssuesTo, Agents!NextToken
<1>4. \A r \in Agents!TokenRows :
          LET dead == [r EXCEPT !.refreshDead = TRUE] IN
          dead \in Agents!TokenRows /\ dead.grant = r.grant /\ dead.refreshDead /\ dead.accessDead = r.accessDead
  BY DEF Agents!TokenRows
<1> HIDE DEF more, all
<1>5. \A t \in Agents!Tokens :
          /\ all[t] \in Agents!TokenRows /\ all[t].grant = more[t].grant
          /\ more[t].refreshDead => all[t].refreshDead
          /\ all[t].accessDead = more[t].accessDead
  <2> TAKE t \in Agents!Tokens
  <2>1. more[t] \in Agents!TokenRows
    BY <1>2
  <2>2. all[t] = more[t] \/ all[t] = [more[t] EXCEPT !.refreshDead = TRUE]
    BY <1>3
  <2>3. QED
    BY <1>4, <2>1, <2>2
<1>6. all \in [Agents!Tokens -> Agents!TokenRows]
  BY <1>3, <1>5
<1>7. QED
  BY <1>1, <1>2, <1>5, <1>6 DEF all

(* Steps that leave the grants and the tokens alone.                       *)
LEMMA GrantsRest ==
    ASSUME GoodGrants, UNCHANGED <<grants, tokens, agent>>, GrantShape', CodesFit', ListFit'
    PROVE  GoodGrants' /\ GrantsOnward
BY DEF GoodGrants, OneLive, Agents!LiveGrants, TokensFit, GrantsOnward

(* Steps that revoke one grant.                                            *)
LEMMA GrantEnds ==
    ASSUME GoodGrants, NEW g \in Agents!Codes, grants[g] # "none", Agents!Revoke(g), agent' \in {0, agent},
           GrantShape', CodesFit', ListFit'
    PROVE  GoodGrants' /\ GrantsOnward
<1>1. agent' # 0 => tokens'[agent'].grant # 0
  BY RevokeKeeps DEF GoodGrants, GrantShape, TokensFit, Agents!Tokens
<1>2. TokensFit'
  BY <1>1, RevokeKeeps DEF TokensFit
<1>3. QED
  BY <1>2, RevokeKeeps DEF GoodGrants

(* Of a revocation, what was redeemed and what is listed stay as they fit. *)
LEMMA OthersStayFit ==
    ASSUME GoodGrants, GrantsOnward, \A g \in Agents!Codes : grants[g] = "none" => grants'[g] = "none"
    PROVE  /\ codes' = codes => CodesFit'
           /\ me' = me => ListFit'
<1>1. ASSUME codes' = codes PROVE CodesFit'
  BY <1>1 DEF GoodGrants, CodesFit, GrantsOnward
<1>2. ASSUME me' = me PROVE ListFit'
  <2>1. me \in Agents!AgentLists
    BY DEF GoodGrants, GrantShape
  <2>2. \A g \in me.list \cup {me.removing} : g # 0 => g \in Agents!Codes
    BY <2>1 DEF Agents!AgentLists, Agents!Codes
  <2>3. QED
    BY <1>2, <2>2 DEF GoodGrants, ListFit, GrantsOnward
<1>3. QED
  BY <1>1, <1>2

LEMMA ShownIsScreen ==
    ASSUME flag \in BOOLEAN, NEW who \in {"github", "google", "practice", "out"},
           NEW kind \in Agents!Requests, NEW reached \in BOOLEAN
    PROVE  Agents!Shown(who, kind, reached) \in Agents!Screens
<1>1. \A x \in {"consent", "return", "signin"} : Agents!At(x) \in Agents!Screens
  BY DEF Agents!At, Agents!Screens
<1>2. \A x \in {"practice", "google", "empty", "invalid", "off", "unavailable"} :
          Agents!Notice(x) \in Agents!Screens
  BY DEF Agents!Notice, Agents!Screens
<1>3. kind \in {"good", "refusable", "unknown"} => Agents!Checked(kind, reached) \in Agents!Screens
  BY <1>1, <1>2 DEF Agents!Checked
<1>4. QED
  BY <1>1, <1>2, <1>3 DEF Agents!Shown, Agents!Requests

LEMMA ScreensGood ==
    ASSUME GoodGrants, flag' \in BOOLEAN, session' \in {"github", "google", "practice", "out"},
           page' \in Agents!Screens, UNCHANGED <<codes, grants, tokens, agent, me>>
    PROVE  GoodGrants' /\ GrantsOnward
<1>1. GrantShape' /\ GrantsOnward
  BY DEF GoodGrants, GrantShape, GrantsOnward
<1>2. CodesFit' /\ ListFit'
  BY <1>1, OthersStayFit
<1>3. QED
  BY <1>1, <1>2, GrantsRest

LEMMA DecideGood ==
    ASSUME GoodGrants, MaxCodes \in Nat, NEW allow \in BOOLEAN, Agents!Decide(allow)
    PROVE  GoodGrants' /\ GrantsOnward
<1>1. page' \in Agents!Screens
  <2>1. \A x \in {"signedOut", "practice", "unavailable", "off"}, f \in BOOLEAN :
            [at |-> "notice", why |-> x, form |-> f] \in Agents!Screens
    BY DEF Agents!Screens
  <2>2. [at |-> "client", why |-> "", form |-> TRUE] \in Agents!Screens
    BY DEF Agents!Screens
  <2>3. QED
    BY <2>1, <2>2 DEF Agents!Decide, Agents!Refused
<1>2. UNCHANGED <<flag, session, grants, tokens, agent, me>>
  BY DEF Agents!Decide
<1>3. CASE UNCHANGED codes
  BY <1>1, <1>2, <1>3, ScreensGood DEF GoodGrants, GrantShape
<1>4. CASE \E heard \in BOOLEAN, c \in Agents!Codes :
             /\ codes[c].state = "none"
             /\ codes' = [codes EXCEPT ![c] = [state |-> "issued", made |-> 0, held |-> heard]]
  <2>1. PICK heard \in BOOLEAN, c \in Agents!Codes :
             /\ codes[c].state = "none"
             /\ codes' = [codes EXCEPT ![c] = [state |-> "issued", made |-> 0, held |-> heard]]
    BY <1>4
  <2> DEFINE r == [state |-> "issued", made |-> 0, held |-> heard]
  <2>2. r \in Agents!CodeRows /\ r.state = "issued"
    BY DEF Agents!CodeRows
  <2> HIDE DEF r
  <2>3. /\ codes' \in [Agents!Codes -> Agents!CodeRows] /\ codes'[c] = r
        /\ \A d \in Agents!Codes : d # c => codes'[d] = codes[d]
    BY <2>1, <2>2 DEF GoodGrants, GrantShape, r
  <2>4. GrantShape' /\ GrantsOnward
    BY <1>1, <1>2, <2>3 DEF GoodGrants, GrantShape, GrantsOnward
  <2>5. CodesFit'
    BY <1>2, <2>1, <2>2, <2>3 DEF GoodGrants, CodesFit
  <2>6. ListFit'
    BY <1>2, <2>4, OthersStayFit
  <2>7. QED
    BY <1>2, <2>4, <2>5, <2>6, GrantsRest
<1>5. QED
  BY <1>3, <1>4 DEF Agents!Decide, Agents!Refused, Agents!Nobody

(* A code whose row alone changes, and how.                                *)
LEMMA CodeMoves ==
    ASSUME GoodGrants, NEW c \in Agents!Codes, NEW st \in {"none", "issued", "used", "replayed", "expired"},
           NEW h \in BOOLEAN, codes' = [codes EXCEPT ![c].held = h, ![c].state = st]
    PROVE  /\ codes' \in [Agents!Codes -> Agents!CodeRows]
           /\ codes'[c].state = st /\ codes'[c].made = codes[c].made
           /\ \A d \in Agents!Codes : d # c => codes'[d] = codes[d]
<1>1. codes[c] \in Agents!CodeRows /\ codes \in [Agents!Codes -> Agents!CodeRows]
  BY DEF GoodGrants, GrantShape
<1>2. \A r \in Agents!CodeRows : [r EXCEPT !.held = h] \in Agents!CodeRows /\ [r EXCEPT !.held = h].made = r.made
  BY DEF Agents!CodeRows
<1>3. \A r \in Agents!CodeRows :
          LET x == [r EXCEPT !.state = st] IN x \in Agents!CodeRows /\ x.made = r.made /\ x.state = st
  BY DEF Agents!CodeRows
<1> DEFINE one == [codes EXCEPT ![c].held = h]
<1>4. one \in [Agents!Codes -> Agents!CodeRows] /\ one[c].made = codes[c].made
      /\ \A d \in Agents!Codes : d # c => one[d] = codes[d]
  BY <1>1, <1>2
<1>5. codes' = [one EXCEPT ![c].state = st]
  OBVIOUS
<1> HIDE DEF one
<1>6. codes'[c] = [one[c] EXCEPT !.state = st] /\ \A d \in Agents!Codes : d # c => codes'[d] = one[d]
  BY <1>4, <1>5
<1>7. one[c] \in Agents!CodeRows
  BY <1>4
<1>8. codes'[c] \in Agents!CodeRows /\ codes'[c].made = one[c].made /\ codes'[c].state = st
  BY <1>3, <1>6, <1>7
<1>9. codes' \in [Agents!Codes -> Agents!CodeRows]
  BY <1>4, <1>5, <1>6, <1>8
<1>10. QED
  BY <1>4, <1>6, <1>8, <1>9

LEMMA ReplayedGood ==
    ASSUME GoodGrants, MaxTokens \in Nat, NEW c \in Agents!Codes, Agents!Replayed(c),
           UNCHANGED <<flag, session, page, me>>
    PROVE  GoodGrants' /\ GrantsOnward
<1> DEFINE g == codes[c].made
<1>1. codes[c].state \in {"used", "replayed"} /\ Agents!Revoke(g)
  BY DEF Agents!Replayed
<1>2. g \in Agents!Codes /\ grants[g] # "none"
  BY <1>1 DEF GoodGrants, CodesFit
<1>3. codes' = [codes EXCEPT ![c].held = FALSE, ![c].state = "replayed"]
  BY DEF Agents!Replayed
<1>4. /\ codes' \in [Agents!Codes -> Agents!CodeRows]
      /\ codes'[c].state = "replayed" /\ codes'[c].made = g
      /\ \A d \in Agents!Codes : d # c => codes'[d] = codes[d]
  BY <1>3, CodeMoves
<1>5. agent' \in {0, agent}
  <2>1. \/ agent' = Agents!Nobody
        \/ agent' = agent
    BY DEF Agents!Replayed
  <2>2. QED
    BY <2>1 DEF Agents!Nobody
<1> HIDE DEF g
<1>6. /\ grants' \in [Agents!Codes -> {"none", "live", "revoked"}] /\ grants'[g] = "revoked" /\ GrantsOnward
      /\ tokens' \in [Agents!Tokens -> Agents!TokenRows]
      /\ \A h \in Agents!Codes : grants[h] = "none" => grants'[h] = "none"
  BY <1>1, <1>2, RevokeKeeps
<1>7. agent' \in 0 .. MaxTokens
  BY <1>5 DEF GoodGrants, GrantShape
<1>8. GrantShape'
  BY <1>4, <1>6, <1>7 DEF GoodGrants, GrantShape
<1>9. CodesFit'
  BY <1>1, <1>2, <1>4, <1>6 DEF GoodGrants, CodesFit, GrantsOnward
<1>10. ListFit'
  BY <1>6, OthersStayFit
<1>11. QED
  BY <1>1, <1>2, <1>5, <1>8, <1>9, <1>10, GrantEnds

(* Where a pair is issued: into a grant that is live from now on.          *)
LEMMA TokensIssued ==
    ASSUME GoodGrants, MaxCodes \in Nat, NEW toks \in [Agents!Tokens -> Agents!TokenRows],
           NEW g \in Agents!Codes, Agents!NextToken \in Agents!Tokens,
           \A t \in Agents!Tokens :
               /\ toks[t].grant = tokens[t].grant
               /\ toks[t].refreshDead = tokens[t].refreshDead /\ toks[t].accessDead = tokens[t].accessDead,
           tokens' = Agents!IssuesTo(toks, g), grants' = [grants EXCEPT ![g] = "live"],
           agent' \in {agent, Agents!NextToken}
    PROVE  tokens' \in [Agents!Tokens -> Agents!TokenRows] /\ agent' \in 0 .. MaxTokens /\ TokensFit'
<1>1. /\ tokens' \in [Agents!Tokens -> Agents!TokenRows]
      /\ tokens'[Agents!NextToken].grant = g
      /\ \A t \in Agents!Tokens : t # Agents!NextToken =>
             /\ tokens'[t].grant = tokens[t].grant
             /\ tokens[t].refreshDead => tokens'[t].refreshDead
             /\ tokens'[t].accessDead = tokens[t].accessDead
  BY IssueKeeps
<1>2. \A h \in Agents!Codes : grants'[h] = IF h = g THEN "live" ELSE grants[h]
  BY DEF GoodGrants, GrantShape
<1>3. g # 0
  BY DEF Agents!Codes
<1>4. agent' \in 0 .. MaxTokens
  BY DEF GoodGrants, GrantShape, Agents!Tokens
<1>5. agent' # 0 => tokens'[agent'].grant # 0
  BY <1>1, <1>3 DEF GoodGrants, GrantShape, TokensFit, Agents!Tokens
<1>6. ASSUME NEW t \in Agents!Tokens, tokens'[t].grant # 0
      PROVE  /\ tokens'[t].grant \in Agents!Codes /\ grants'[tokens'[t].grant] # "none"
             /\ grants'[tokens'[t].grant] # "live" => tokens'[t].refreshDead /\ tokens'[t].accessDead
  <2>1. CASE t = Agents!NextToken
    BY <1>1, <1>2, <2>1
  <2>2. CASE t # Agents!NextToken
    BY <1>1, <1>2, <1>6, <2>2 DEF GoodGrants, TokensFit
  <2>3. QED
    BY <2>1, <2>2
<1>7. QED
  BY <1>1, <1>4, <1>5, <1>6 DEF TokensFit

LEMMA BoughtGood ==
    ASSUME GoodGrants, MaxCodes \in Nat, NEW c \in Agents!Codes, Agents!Bought(c),
           UNCHANGED <<flag, session, page, me>>
    PROVE  GoodGrants' /\ GrantsOnward
<1> DEFINE g == Agents!GrantFor(c)
<1>1. /\ codes[c].state = "issued" /\ Agents!NextToken \in Agents!Tokens
      /\ grants' = [grants EXCEPT ![g] = "live"] /\ tokens' = Agents!IssuesTo(tokens, g)
      /\ agent' \in {agent, Agents!NextToken}
  BY DEF Agents!Bought
<1>2. PICK heard \in BOOLEAN : codes' = [codes EXCEPT ![c] = [state |-> "used", made |-> g, held |-> ~heard]]
  BY DEF Agents!Bought
<1>3. g = c \/ g \in Agents!LiveGrants
  <2>1. Agents!LiveGrants # {} => (CHOOSE h \in Agents!LiveGrants : TRUE) \in Agents!LiveGrants
    OBVIOUS
  <2>2. QED
    BY <2>1 DEF Agents!GrantFor
<1>4. Agents!LiveGrants # {} => g \in Agents!LiveGrants
  BY DEF Agents!GrantFor
<1> HIDE DEF g
<1>5. g \in Agents!Codes /\ (grants[g] = "live" \/ (g = c /\ grants[g] = "none" /\ Agents!LiveGrants = {}))
  BY <1>1, <1>3, <1>4 DEF GoodGrants, CodesFit, Agents!LiveGrants
<1>6. tokens \in [Agents!Tokens -> Agents!TokenRows]
  BY DEF GoodGrants, GrantShape
<1>7. tokens' \in [Agents!Tokens -> Agents!TokenRows] /\ agent' \in 0 .. MaxTokens /\ TokensFit'
  BY <1>1, <1>5, <1>6, TokensIssued
<1>8. /\ grants' \in [Agents!Codes -> {"none", "live", "revoked"}] /\ grants'[g] = "live"
      /\ \A h \in Agents!Codes : h # g => grants'[h] = grants[h]
  BY <1>1, <1>5 DEF GoodGrants, GrantShape
<1>9. GrantsOnward
  BY <1>5, <1>8 DEF GrantsOnward
<1>10. OneLive'
  BY <1>5, <1>8 DEF GoodGrants, OneLive, Agents!LiveGrants
<1> DEFINE r == [state |-> "used", made |-> g, held |-> ~heard]
<1>11. r \in Agents!CodeRows /\ r.state = "used" /\ r.made = g
  BY <1>5 DEF Agents!CodeRows, Agents!Codes
<1>12. codes' = [codes EXCEPT ![c] = r]
  BY <1>2
<1> HIDE DEF r
<1>13. /\ codes' \in [Agents!Codes -> Agents!CodeRows] /\ codes'[c] = r
       /\ \A d \in Agents!Codes : d # c => codes'[d] = codes[d]
  BY <1>11, <1>12 DEF GoodGrants, GrantShape
<1>14. CodesFit'
  <2> SUFFICES ASSUME NEW d \in Agents!Codes
               PROVE  /\ codes'[d].state \in {"none", "issued", "expired"} => grants'[d] = "none"
                      /\ codes'[d].state \in {"used", "replayed"} =>
                             codes'[d].made \in Agents!Codes /\ grants'[codes'[d].made] # "none"
                      /\ codes'[d].state = "replayed" => grants'[codes'[d].made] = "revoked"
    BY DEF CodesFit
  <2>1. CASE d = c
    BY <1>5, <1>8, <1>11, <1>13, <2>1
  <2>2. CASE d # c
    BY <1>5, <1>8, <1>9, <1>13, <2>2 DEF GoodGrants, CodesFit, GrantsOnward
  <2>3. QED
    BY <2>1, <2>2
<1>15. ListFit'
  <2>1. me \in Agents!AgentLists
    BY DEF GoodGrants, GrantShape
  <2>2. \A h \in me.list \cup {me.removing} : h # 0 => h \in Agents!Codes
    BY <2>1 DEF Agents!AgentLists, Agents!Codes
  <2>3. QED
    BY <1>9, <2>2 DEF GoodGrants, ListFit, GrantsOnward
<1>16. GrantShape'
  BY <1>7, <1>8, <1>13 DEF GoodGrants, GrantShape
<1>17. QED
  BY <1>7, <1>9, <1>10, <1>14, <1>15, <1>16 DEF GoodGrants

LEMMA RedeemGood ==
    ASSUME GoodGrants, MaxCodes \in Nat, MaxTokens \in Nat, NEW c \in Agents!Codes, Agents!Redeem(c)
    PROVE  GoodGrants' /\ GrantsOnward
<1>1. CASE codes[c].state = "expired" /\ Agents!Drops(c) /\ UNCHANGED <<grants, tokens, agent>>
  <2>1. UNCHANGED <<flag, session, page, me>>
    BY DEF Agents!Redeem
  <2>2. codes \in [Agents!Codes -> Agents!CodeRows] /\ codes' = [codes EXCEPT ![c].held = FALSE]
    BY <1>1 DEF Agents!Drops, GoodGrants, GrantShape
  <2>3. \A r \in Agents!CodeRows :
            LET x == [r EXCEPT !.held = FALSE] IN x \in Agents!CodeRows /\ x.state = r.state /\ x.made = r.made
    BY DEF Agents!CodeRows
  <2>4. codes'[c] = [codes[c] EXCEPT !.held = FALSE] /\ \A d \in Agents!Codes : d # c => codes'[d] = codes[d]
    BY <2>2
  <2>5. codes[c] \in Agents!CodeRows
    BY <2>2
  <2>6. \A d \in Agents!Codes :
            codes'[d] \in Agents!CodeRows /\ codes'[d].state = codes[d].state /\ codes'[d].made = codes[d].made
    BY <2>2, <2>3, <2>4, <2>5
  <2>7. codes' \in [Agents!Codes -> Agents!CodeRows]
    BY <2>2, <2>6
  <2>8. GrantShape' /\ GrantsOnward
    BY <1>1, <2>1, <2>7 DEF GoodGrants, GrantShape, GrantsOnward
  <2>9. CodesFit'
    BY <1>1, <2>6 DEF GoodGrants, CodesFit
  <2>10. ListFit'
    BY <1>1, <2>1, <2>8, OthersStayFit
  <2>11. QED
    BY <1>1, <2>8, <2>9, <2>10, GrantsRest
<1>2. QED
  BY <1>1, ReplayedGood, BoughtGood DEF Agents!Redeem

LEMMA RefreshGood ==
    ASSUME GoodGrants, MaxCodes \in Nat, MaxTokens \in Nat, Agents!Refresh
    PROVE  GoodGrants' /\ GrantsOnward
<1>1. /\ agent # 0 /\ agent \in Agents!Tokens
      /\ UNCHANGED <<flag, session, page, codes, me>>
  BY DEF Agents!Refresh, Agents!Nobody, GoodGrants, GrantShape, Agents!Tokens
<1> DEFINE g == tokens[agent].grant
<1>2. g \in Agents!Codes /\ grants[g] # "none"
  BY <1>1 DEF GoodGrants, TokensFit
<1>3. ASSUME agent' = 0, UNCHANGED <<grants, tokens>> PROVE GoodGrants' /\ GrantsOnward
  <2>1. GrantShape' /\ GrantsOnward /\ TokensFit' /\ OneLive'
    BY <1>1, <1>3 DEF GoodGrants, GrantShape, GrantsOnward, TokensFit, OneLive, Agents!LiveGrants
  <2>2. CodesFit' /\ ListFit'
    BY <1>1, <1>3, <2>1, OthersStayFit
  <2>3. QED
    BY <2>1, <2>2 DEF GoodGrants
<1>4. ASSUME Agents!Revoke(g), agent' = 0 PROVE GoodGrants' /\ GrantsOnward
  <2>1. /\ grants' \in [Agents!Codes -> {"none", "live", "revoked"}] /\ GrantsOnward
        /\ tokens' \in [Agents!Tokens -> Agents!TokenRows]
        /\ \A h \in Agents!Codes : grants[h] = "none" => grants'[h] = "none"
    BY <1>2, <1>4, RevokeKeeps
  <2>2. CodesFit' /\ ListFit'
    BY <1>1, <2>1, OthersStayFit
  <2>3. GrantShape'
    BY <1>1, <1>4, <2>1 DEF GoodGrants, GrantShape
  <2>4. QED
    BY <1>2, <1>4, <2>2, <2>3, GrantEnds
<1>5. ASSUME Agents!Refreshable(agent), Agents!NextToken \in Agents!Tokens, agent' \in {agent, Agents!NextToken},
             UNCHANGED grants, NEW b \in BOOLEAN, NEW u \in {"once", "retried"},
             tokens' = Agents!IssuesTo([tokens EXCEPT ![agent].grace = b, ![agent].used = u], g)
      PROVE  GoodGrants' /\ GrantsOnward
  <2>1. grants[g] = "live"
    BY <1>1, <1>2, <1>5 DEF Agents!Refreshable, GoodGrants, TokensFit, Agents!Codes
  <2>2. grants' = [grants EXCEPT ![g] = "live"]
    BY <1>2, <1>5, <2>1 DEF GoodGrants, GrantShape
  <2> DEFINE one == [tokens EXCEPT ![agent].grace = b]
             toks == [one EXCEPT ![agent].used = u]
  <2>3. \A r \in Agents!TokenRows :
            LET x == [r EXCEPT !.grace = b] IN
            x \in Agents!TokenRows /\ x.grant = r.grant /\ x.refreshDead = r.refreshDead /\ x.accessDead = r.accessDead
    BY DEF Agents!TokenRows
  <2>4. \A r \in Agents!TokenRows :
            LET x == [r EXCEPT !.used = u] IN
            x \in Agents!TokenRows /\ x.grant = r.grant /\ x.refreshDead = r.refreshDead /\ x.accessDead = r.accessDead
    BY DEF Agents!TokenRows
  <2>5. tokens \in [Agents!Tokens -> Agents!TokenRows]
    BY DEF GoodGrants, GrantShape
  <2>6. /\ one \in [Agents!Tokens -> Agents!TokenRows]
        /\ \A t \in Agents!Tokens :
               /\ one[t].grant = tokens[t].grant
               /\ one[t].refreshDead = tokens[t].refreshDead /\ one[t].accessDead = tokens[t].accessDead
    BY <1>1, <2>3, <2>5
  <2>7. tokens' = Agents!IssuesTo(toks, g)
    BY <1>5
  <2> HIDE DEF one
  <2>8. /\ toks \in [Agents!Tokens -> Agents!TokenRows]
        /\ \A t \in Agents!Tokens :
               /\ toks[t].grant = tokens[t].grant
               /\ toks[t].refreshDead = tokens[t].refreshDead /\ toks[t].accessDead = tokens[t].accessDead
    BY <1>1, <2>4, <2>6
  <2> HIDE DEF toks
  <2>9. tokens' \in [Agents!Tokens -> Agents!TokenRows] /\ agent' \in 0 .. MaxTokens /\ TokensFit'
    BY <1>2, <1>5, <2>2, <2>7, <2>8, TokensIssued
  <2>10. GrantShape' /\ GrantsOnward /\ OneLive'
    BY <1>1, <1>5, <2>9 DEF GoodGrants, GrantShape, GrantsOnward, OneLive, Agents!LiveGrants
  <2>11. CodesFit' /\ ListFit'
    BY <1>1, <1>5, <2>10, OthersStayFit
  <2>12. QED
    BY <2>9, <2>10, <2>11 DEF GoodGrants
<1>6. \/ Agents!Revoke(g) /\ agent' = 0
      \/ agent' = 0 /\ UNCHANGED <<grants, tokens>>
      \/ /\ Agents!Refreshable(agent) /\ Agents!NextToken \in Agents!Tokens /\ UNCHANGED grants
         /\ agent' \in {agent, Agents!NextToken}
         /\ tokens' = Agents!IssuesTo([tokens EXCEPT ![agent].grace = ~Agents!Retry(agent),
                                                     ![agent].used = IF Agents!Retry(agent) THEN "retried" ELSE "once"], g)
  BY DEF Agents!Refresh, Agents!Nobody
<1>7. (~Agents!Retry(agent)) \in BOOLEAN
      /\ (IF Agents!Retry(agent) THEN "retried" ELSE "once") \in {"once", "retried"}
  BY DEF Agents!Retry
<1> HIDE DEF g
<1>8. QED
  BY <1>3, <1>4, <1>5, <1>6, <1>7

LEMMA AgentLeavesGood ==
    ASSUME GoodGrants, MaxTokens \in Nat, Agents!AgentLeaves
    PROVE  GoodGrants' /\ GrantsOnward
<1> DEFINE g == tokens[agent].grant
<1>1. /\ agent # 0 /\ agent \in Agents!Tokens /\ agent' = 0 /\ Agents!Revoke(g)
      /\ UNCHANGED <<flag, session, page, codes, me>>
  BY DEF Agents!AgentLeaves, Agents!Nobody, GoodGrants, GrantShape, Agents!Tokens
<1>2. g \in Agents!Codes /\ grants[g] # "none"
  BY <1>1 DEF GoodGrants, TokensFit
<1> HIDE DEF g
<1>3. /\ grants' \in [Agents!Codes -> {"none", "live", "revoked"}] /\ GrantsOnward
      /\ tokens' \in [Agents!Tokens -> Agents!TokenRows]
      /\ \A h \in Agents!Codes : grants[h] = "none" => grants'[h] = "none"
  BY <1>1, <1>2, RevokeKeeps
<1>4. CodesFit' /\ ListFit'
  BY <1>1, <1>3, OthersStayFit
<1>5. GrantShape'
  BY <1>1, <1>3 DEF GoodGrants, GrantShape
<1>6. QED
  BY <1>1, <1>2, <1>4, <1>5, GrantEnds

(* A change of one token's row that neither moves it nor brings it back.   *)
LEMMA TokenAges ==
    ASSUME GoodGrants, NEW t \in Agents!Tokens, NEW r \in Agents!TokenRows,
           tokens' = [tokens EXCEPT ![t] = r], r.grant = tokens[t].grant,
           r.refreshDead = tokens[t].refreshDead, tokens[t].accessDead => r.accessDead,
           UNCHANGED <<flag, session, page, codes, grants, agent, me>>
    PROVE  GoodGrants' /\ GrantsOnward
<1>1. /\ tokens' \in [Agents!Tokens -> Agents!TokenRows] /\ tokens'[t] = r
      /\ \A u \in Agents!Tokens : u # t => tokens'[u] = tokens[u]
  BY DEF GoodGrants, GrantShape
<1>2. GrantShape' /\ GrantsOnward /\ OneLive'
  BY <1>1 DEF GoodGrants, GrantShape, GrantsOnward, OneLive, Agents!LiveGrants
<1>3. agent \in 0 .. MaxTokens
  BY DEF GoodGrants, GrantShape
<1>4. \A u \in Agents!Tokens :
          /\ tokens'[u].grant = tokens[u].grant /\ tokens'[u].refreshDead = tokens[u].refreshDead
          /\ tokens[u].accessDead => tokens'[u].accessDead
  BY <1>1
<1>5. TokensFit'
  BY <1>3, <1>4 DEF GoodGrants, TokensFit, Agents!Tokens
<1>6. CodesFit' /\ ListFit'
  BY <1>2, OthersStayFit
<1>7. QED
  BY <1>2, <1>5, <1>6 DEF GoodGrants

LEMMA TimePassesGood == ASSUME GoodGrants, Agents!TimePasses PROVE GoodGrants' /\ GrantsOnward
<1>1. ASSUME NEW c \in Agents!Codes, codes[c].state = "issued", codes' = [codes EXCEPT ![c].state = "expired"],
             UNCHANGED <<flag, session, page, grants, tokens, agent, me>>
      PROVE  GoodGrants' /\ GrantsOnward
  <2>1. codes \in [Agents!Codes -> Agents!CodeRows] /\ codes[c] \in Agents!CodeRows
    BY DEF GoodGrants, GrantShape
  <2>2. \A r \in Agents!CodeRows :
            [r EXCEPT !.state = "expired"] \in Agents!CodeRows /\ [r EXCEPT !.state = "expired"].state = "expired"
    BY DEF Agents!CodeRows
  <2>3. codes'[c] = [codes[c] EXCEPT !.state = "expired"] /\ \A d \in Agents!Codes : d # c => codes'[d] = codes[d]
    BY <1>1, <2>1
  <2>4. /\ codes' \in [Agents!Codes -> Agents!CodeRows] /\ codes'[c].state = "expired"
        /\ \A d \in Agents!Codes : d # c => codes'[d] = codes[d]
    BY <1>1, <2>1, <2>2, <2>3
  <2>5. GrantShape' /\ GrantsOnward
    BY <1>1, <2>4 DEF GoodGrants, GrantShape, GrantsOnward
  <2>6. CodesFit'
    BY <1>1, <2>4 DEF GoodGrants, CodesFit
  <2>7. ListFit'
    BY <1>1, <2>5, OthersStayFit
  <2>8. QED
    BY <1>1, <2>5, <2>6, <2>7, GrantsRest
<1>2. tokens \in [Agents!Tokens -> Agents!TokenRows]
  BY DEF GoodGrants, GrantShape
<1>3. ASSUME NEW t \in Agents!Tokens, tokens' = [tokens EXCEPT ![t].grace = FALSE],
             UNCHANGED <<flag, session, page, codes, grants, agent, me>>
      PROVE  GoodGrants' /\ GrantsOnward
  <2>1. \A r \in Agents!TokenRows :
            LET x == [r EXCEPT !.grace = FALSE] IN
            x \in Agents!TokenRows /\ x.grant = r.grant /\ x.refreshDead = r.refreshDead /\ x.accessDead = r.accessDead
    BY DEF Agents!TokenRows
  <2> DEFINE x == [tokens[t] EXCEPT !.grace = FALSE]
  <2>2. tokens' = [tokens EXCEPT ![t] = x]
    BY <1>2, <1>3
  <2>3. x \in Agents!TokenRows /\ x.grant = tokens[t].grant /\ x.refreshDead = tokens[t].refreshDead
        /\ x.accessDead = tokens[t].accessDead
    BY <1>2, <2>1
  <2> HIDE DEF x
  <2>4. QED
    BY <1>3, <2>2, <2>3, TokenAges
<1>4. ASSUME NEW t \in Agents!Tokens, tokens' = [tokens EXCEPT ![t].accessDead = TRUE],
             UNCHANGED <<flag, session, page, codes, grants, agent, me>>
      PROVE  GoodGrants' /\ GrantsOnward
  <2>1. \A r \in Agents!TokenRows :
            LET x == [r EXCEPT !.accessDead = TRUE] IN
            x \in Agents!TokenRows /\ x.grant = r.grant /\ x.refreshDead = r.refreshDead /\ x.accessDead
    BY DEF Agents!TokenRows
  <2> DEFINE x == [tokens[t] EXCEPT !.accessDead = TRUE]
  <2>2. tokens' = [tokens EXCEPT ![t] = x]
    BY <1>2, <1>4
  <2>3. x \in Agents!TokenRows /\ x.grant = tokens[t].grant /\ x.refreshDead = tokens[t].refreshDead /\ x.accessDead
    BY <1>2, <2>1
  <2> HIDE DEF x
  <2>4. QED
    BY <1>4, <2>2, <2>3, TokenAges
<1>5. QED
  BY <1>1, <1>3, <1>4 DEF Agents!TimePasses, Agents!Issued

(* The account page's own steps: what it may say and show.                 *)
LEMMA PageGood ==
    ASSUME GoodGrants, UNCHANGED <<flag, session, page, codes, grants, tokens, agent>>,
           me' \in Agents!AgentLists, me'.said = "disconnected" => me'.of = me.of /\ me.said = "disconnected",
           me'.list \subseteq me.list \cup Agents!LiveGrants \cup {0},
           me'.removing \in me.list \cup {0, me.removing}
    PROVE  GoodGrants' /\ GrantsOnward
<1>1. GrantShape' /\ GrantsOnward
  BY DEF GoodGrants, GrantShape, GrantsOnward
<1>2. CodesFit'
  BY <1>1, OthersStayFit
<1>3. ListFit'
  BY DEF GoodGrants, ListFit, Agents!LiveGrants
<1>4. QED
  BY <1>1, <1>2, <1>3, GrantsRest

(* The account page's state with one field changed.                        *)
LEMMA MeRemoving ==
    ASSUME NEW r \in Agents!AgentLists, NEW x \in 0 .. MaxCodes, NEW y, y = [r EXCEPT !.removing = x]
    PROVE  /\ y \in Agents!AgentLists /\ y.removing = x
           /\ y.list = r.list /\ y.of = r.of /\ y.said = r.said
BY DEF Agents!AgentLists

LEMMA MeOf ==
    ASSUME NEW r \in Agents!AgentLists, NEW x \in 0 .. MaxCodes, NEW y, y = [r EXCEPT !.of = x]
    PROVE  /\ y \in Agents!AgentLists /\ y.of = x
           /\ y.list = r.list /\ y.removing = r.removing /\ y.said = r.said
BY DEF Agents!AgentLists

LEMMA MeSaid ==
    ASSUME NEW r \in Agents!AgentLists, NEW x \in {"nothing", "disconnected", "error"}, NEW y, y = [r EXCEPT !.said = x]
    PROVE  /\ y \in Agents!AgentLists /\ y.said = x
           /\ y.list = r.list /\ y.removing = r.removing /\ y.of = r.of
BY DEF Agents!AgentLists

LEMMA MeHidden ==
    ASSUME NEW r \in Agents!AgentLists, NEW x \in BOOLEAN, NEW y, y = [r EXCEPT !.hidden = x]
    PROVE  /\ y \in Agents!AgentLists
           /\ y.list = r.list /\ y.removing = r.removing /\ y.of = r.of /\ y.said = r.said
BY DEF Agents!AgentLists

LEMMA MeIs == GoodGrants => me \in Agents!AgentLists /\ flag \in BOOLEAN
                            /\ Agents!LiveGrants \subseteq 0 .. MaxCodes
BY DEF GoodGrants, GrantShape, Agents!LiveGrants, Agents!Codes

LEMMA MeReadsGood == ASSUME GoodGrants, MaxCodes \in Nat, Agents!MeReads PROVE GoodGrants' /\ GrantsOnward
<1> DEFINE l == IF flag THEN Agents!LiveGrants ELSE {0}
           a == [me EXCEPT !.list = l]
<1>1. me' = [a EXCEPT !.hidden = ~flag] /\ UNCHANGED <<flag, session, page, codes, grants, tokens, agent>>
  BY DEF Agents!MeReads, Agents!Unread
<1>2. l \subseteq 0 .. MaxCodes /\ l \subseteq Agents!LiveGrants \cup {0} /\ me \in Agents!AgentLists
  BY MeIs
<1> HIDE DEF l
<1>3. a \in Agents!AgentLists /\ a.list = l /\ a.removing = me.removing /\ a.of = me.of /\ a.said = me.said
  BY <1>2 DEF Agents!AgentLists
<1> HIDE DEF a
<1>4. (~flag) \in BOOLEAN
  BY MeIs
<1>5. me' \in Agents!AgentLists /\ me'.list = l /\ me'.removing = me.removing /\ me'.of = me.of /\ me'.said = me.said
  BY <1>1, <1>3, <1>4, MeHidden
<1>6. QED
  BY <1>1, <1>2, <1>5, PageGood

LEMMA DisconnectGood ==
    ASSUME GoodGrants, NEW g \in Agents!Codes, Agents!Disconnect(g)
    PROVE  GoodGrants' /\ GrantsOnward
<1> DEFINE a == [me EXCEPT !.removing = g]
<1>1. me' = [a EXCEPT !.said = "nothing"] /\ g \in me.list
      /\ UNCHANGED <<flag, session, page, codes, grants, tokens, agent>>
  BY DEF Agents!Disconnect
<1>2. g \in 0 .. MaxCodes /\ me \in Agents!AgentLists
  BY MeIs DEF Agents!Codes
<1>3. a \in Agents!AgentLists /\ a.list = me.list /\ a.removing = g
  BY <1>2, MeRemoving
<1> HIDE DEF a
<1>4. me' \in Agents!AgentLists /\ me'.list = me.list /\ me'.removing = g /\ me'.said = "nothing"
  BY <1>1, <1>3, MeSaid
<1>5. QED
  BY <1>1, <1>4, PageGood

LEMMA DisconnectedGood ==
    ASSUME GoodGrants, MaxCodes \in Nat, Agents!Disconnected
    PROVE  GoodGrants' /\ GrantsOnward
<1>1. me.removing # 0 /\ UNCHANGED <<flag, session, page, codes, agent>>
  BY DEF Agents!Disconnected, Agents!Nobody
<1>2. me \in Agents!AgentLists /\ 0 \in 0 .. MaxCodes
  BY MeIs
<1> DEFINE g == me.removing
           a == [me EXCEPT !.removing = 0]
<1>3. g \in 0 .. MaxCodes /\ g \in Agents!Codes /\ grants[g] # "none"
  BY <1>1, <1>2 DEF Agents!AgentLists, Agents!Codes, GoodGrants, ListFit
<1>4. /\ a \in Agents!AgentLists /\ a.list = me.list /\ a.removing = 0
      /\ a.of = me.of /\ a.said = me.said
  BY <1>2, MeRemoving
<1>5. ASSUME me' = [a EXCEPT !.said = "error"], UNCHANGED <<grants, tokens>>
      PROVE  GoodGrants' /\ GrantsOnward
  <2> HIDE DEF a
  <2>1. me' \in Agents!AgentLists /\ me'.list = me.list /\ me'.removing = 0 /\ me'.said = "error"
    BY <1>4, <1>5, MeSaid
  <2>2. QED
    BY <1>1, <1>5, <2>1, PageGood
<1>6. ASSUME me' = [a EXCEPT !.hidden = TRUE], UNCHANGED <<grants, tokens>>
      PROVE  GoodGrants' /\ GrantsOnward
  <2> HIDE DEF a
  <2>1. me' \in Agents!AgentLists /\ me'.list = me.list /\ me'.removing = 0 /\ me'.of = me.of /\ me'.said = me.said
    BY <1>4, <1>6, MeHidden
  <2>2. QED
    BY <1>1, <1>6, <2>1, PageGood
<1>7. ASSUME Agents!Revoke(g), me' \in Agents!AgentLists, me'.removing = 0,
             \/ me'.list = me.list /\ me'.said = "error"
             \/ me'.list = Agents!LiveGrants \ {g} /\ me'.of = g
      PROVE  GoodGrants' /\ GrantsOnward
  <2>1. /\ grants' \in [Agents!Codes -> {"none", "live", "revoked"}] /\ grants'[g] = "revoked" /\ GrantsOnward
        /\ tokens' \in [Agents!Tokens -> Agents!TokenRows]
        /\ \A h \in Agents!Codes : grants[h] = "none" => grants'[h] = "none"
    BY <1>3, <1>7, RevokeKeeps
  <2>2. CodesFit'
    BY <1>1, <2>1, OthersStayFit
  <2>3. GrantShape'
    BY <1>1, <1>7, <2>1 DEF GoodGrants, GrantShape
  <2>4. \A h \in me.list : h # 0 => h \in Agents!Codes /\ grants[h] # "none"
    BY <1>2 DEF GoodGrants, ListFit, Agents!AgentLists, Agents!Codes
  <2>5. ListFit'
    BY <1>3, <1>7, <2>1, <2>4 DEF ListFit, GrantsOnward, Agents!LiveGrants
  <2>6. QED
    BY <1>1, <1>3, <1>7, <2>2, <2>3, <2>5, GrantEnds
<1>8. ASSUME NEW heard \in BOOLEAN, Agents!Revoke(g),
             me' = [me EXCEPT !.list = IF heard THEN Agents!LiveGrants \ {g} ELSE @, !.removing = 0,
                              !.of = IF heard THEN g ELSE @, !.said = IF heard THEN "disconnected" ELSE "error"]
      PROVE  GoodGrants' /\ GrantsOnward
  <2> DEFINE l == IF heard THEN Agents!LiveGrants \ {g} ELSE me.list
             o == IF heard THEN g ELSE me.of
             b == [me EXCEPT !.list = l]
             d == [b EXCEPT !.removing = 0]
             e == [d EXCEPT !.of = o]
             w == IF heard THEN "disconnected" ELSE "error"
  <2>1. l \subseteq 0 .. MaxCodes /\ o \in 0 .. MaxCodes /\ w \in {"nothing", "disconnected", "error"}
    BY <1>2, <1>3, MeIs DEF Agents!AgentLists
  <2>2. b \in Agents!AgentLists /\ b.list = l /\ b.removing = me.removing /\ b.of = me.of
    <3> HIDE DEF l
    <3>1. QED
      BY <1>2, <2>1 DEF Agents!AgentLists
  <2>3. me' = [e EXCEPT !.said = w]
    BY <1>8, <2>2
  <2> HIDE DEF b
  <2>4. d \in Agents!AgentLists /\ d.list = l /\ d.removing = 0 /\ d.of = me.of
    <3> HIDE DEF l
    <3>1. QED
      BY <1>2, <2>2, MeRemoving
  <2> HIDE DEF d
  <2>5. e \in Agents!AgentLists /\ e.list = l /\ e.removing = 0 /\ e.of = o
    <3> HIDE DEF l, o
    <3>1. QED
      BY <2>1, <2>4, MeOf
  <2> HIDE DEF e
  <2>6. me' \in Agents!AgentLists /\ me'.list = l /\ me'.removing = 0 /\ me'.of = o /\ me'.said = w
    <3> HIDE DEF l, o, w
    <3>1. QED
      BY <2>1, <2>3, <2>5, MeSaid
  <2>7. QED
    BY <1>7, <1>8, <2>6
<1>9. QED
  BY <1>5, <1>6, <1>8 DEF Agents!Disconnected, Agents!Nobody

LEMMA MeOpensGood == ASSUME GoodGrants, MaxCodes \in Nat, Agents!MeOpens PROVE GoodGrants' /\ GrantsOnward
<1> DEFINE r == [list |-> {0}, removing |-> 0, of |-> 0, said |-> "nothing", hidden |-> FALSE]
<1>1. me' = r /\ UNCHANGED <<flag, session, page, codes, grants, tokens, agent>>
  BY DEF Agents!MeOpens, Agents!Unread, Agents!Nobody
<1>2. r \in Agents!AgentLists /\ r.list = {0} /\ r.removing = 0 /\ r.said = "nothing"
  BY DEF Agents!AgentLists
<1> HIDE DEF r
<1>3. QED
  BY <1>1, <1>2, PageGood

-----------------------------------------------------------------------------
(* What follows for the connector, in every reachable state. *)

LEMMA GrantsStart == ASSUME MaxCodes \in Nat, MaxTokens \in Nat, Agents!Init PROVE GoodGrants
<1> DEFINE r == [state |-> "none", made |-> 0, held |-> FALSE]
           t0 == [grant |-> 0, used |-> "no", grace |-> FALSE, refreshDead |-> FALSE, accessDead |-> FALSE]
           m0 == [list |-> {0}, removing |-> 0, of |-> 0, said |-> "nothing", hidden |-> FALSE]
<1>1. /\ flag = TRUE /\ session \in {"github", "out"} /\ page = Agents!At("elsewhere")
      /\ codes = [c \in Agents!Codes |-> r] /\ grants = [c \in Agents!Codes |-> "none"]
      /\ tokens = [t \in Agents!Tokens |-> t0] /\ agent = 0 /\ me = m0
  BY DEF Agents!Init, Agents!NoToken, Agents!Nobody, Agents!Unread
<1>2. /\ r \in Agents!CodeRows /\ r.state = "none" /\ t0 \in Agents!TokenRows /\ t0.grant = 0
      /\ m0 \in Agents!AgentLists /\ m0.list = {0} /\ m0.removing = 0 /\ m0.said = "nothing"
  BY DEF Agents!CodeRows, Agents!TokenRows, Agents!AgentLists
<1>3. Agents!At("elsewhere") \in Agents!Screens
  BY DEF Agents!At, Agents!Screens
<1> HIDE DEF r, t0, m0
<1>4. GrantShape
  BY <1>1, <1>2, <1>3 DEF GrantShape
<1>5. QED
  BY <1>1, <1>2, <1>4 DEF GoodGrants, OneLive, CodesFit, TokensFit, ListFit, Agents!LiveGrants

LEMMA GrantsStay ==
    ASSUME MaxCodes \in Nat, MaxTokens \in Nat, GoodGrants, [Agents!Next]_(Agents!vars)
    PROVE  GoodGrants' /\ GrantsOnward
<1>1. CASE Agents!Open \/ Agents!SignIn \/ Agents!OtherTab \/ Agents!Back \/ Agents!FlagTurns \/ UNCHANGED Agents!vars
  <2>1. /\ flag \in BOOLEAN /\ session \in {"github", "google", "practice", "out"} /\ page \in Agents!Screens
    BY DEF GoodGrants, GrantShape
  <2>2. CASE Agents!Open
    BY <2>1, <2>2, ShownIsScreen, ScreensGood DEF Agents!Open
  <2>3. CASE Agents!SignIn
    <3>1. PICK kind \in Agents!Requests, reached \in BOOLEAN : page' = Agents!Shown(session', kind, reached)
      BY <2>3 DEF Agents!SignIn, Agents!Requests
    <3>2. session' \in {"github", "google", "practice", "out"} /\ UNCHANGED <<flag, codes, grants, tokens, agent, me>>
      BY <2>3 DEF Agents!SignIn
    <3>3. page' \in Agents!Screens
      BY <2>1, <3>1, <3>2, ShownIsScreen
    <3>4. QED
      BY <2>1, <3>2, <3>3, ScreensGood
  <2>4. CASE Agents!OtherTab
    BY <2>1, <2>4, ScreensGood DEF Agents!OtherTab
  <2>5. CASE Agents!Back
    BY <2>1, <2>5, ScreensGood DEF Agents!Back, Agents!At, Agents!Screens
  <2>6. CASE Agents!FlagTurns
    BY <2>1, <2>6, ScreensGood DEF Agents!FlagTurns
  <2>7. CASE UNCHANGED Agents!vars
    BY <2>1, <2>7, ScreensGood DEF Agents!vars
  <2>8. QED
    BY <1>1, <2>2, <2>3, <2>4, <2>5, <2>6, <2>7
<1>2. QED
  BY <1>1, DecideGood, RedeemGood, DisconnectGood, RefreshGood, AgentLeavesGood, TimePassesGood,
     MeReadsGood, DisconnectedGood, MeOpensGood DEF Agents!Next

LEMMA GrantsInvariant ==
    ASSUME MaxCodes \in Nat, MaxTokens \in Nat
    PROVE  Agents!Spec => []GoodGrants
<1>1. Agents!Init => GoodGrants
  BY GrantsStart
<1>2. GoodGrants /\ [Agents!Next]_(Agents!vars) => GoodGrants'
  BY GrantsStay
<1>3. QED
  BY <1>1, <1>2, PTL DEF Agents!Spec

(* Every reachable state of the connector is well typed.                   *)
THEOREM ConnectorTypes ==
    ASSUME MaxCodes \in Nat, MaxTokens \in Nat
    PROVE  Agents!Spec => []Agents!TypeOK
<1>1. GoodGrants => Agents!TypeOK
  BY DEF GoodGrants, GrantShape, Agents!TypeOK
<1>2. QED
  BY <1>1, GrantsInvariant, PTL

LEMMA RevokedFit == GoodGrants => Agents!RevokedIsOver
BY DEF GoodGrants, OneLive, CodesFit, TokensFit, Agents!RevokedIsOver, Agents!Nobody

(* A grant that was revoked, by Disconnect, by its agent, by a code or a   *)
(* token presented once too often, is over: everything issued in it is     *)
(* dead, and a person never has two live grants with the same agent.       *)
THEOREM RevokedGrantsAreOver ==
    ASSUME MaxCodes \in Nat, MaxTokens \in Nat
    PROVE  Agents!Spec => []Agents!RevokedIsOver
BY RevokedFit, GrantsInvariant, PTL

(* No step brings a revoked grant back, or unmakes one.                    *)
THEOREM GrantsNeverBack ==
    ASSUME MaxCodes \in Nat, MaxTokens \in Nat
    PROVE  Agents!Spec => [][GrantsOnward]_(Agents!vars)
<1>1. GoodGrants /\ [Agents!Next]_(Agents!vars) => GrantsOnward \/ UNCHANGED Agents!vars
  BY GrantsStay
<1>2. QED
  BY <1>1, GrantsInvariant, PTL DEF Agents!Spec

(* The account page says "disconnected" only of a grant that is over.      *)
THEOREM DisconnectedIsOver ==
    ASSUME MaxCodes \in Nat, MaxTokens \in Nat
    PROVE  Agents!Spec => []Agents!SaidIsDone
<1>1. GoodGrants => Agents!SaidIsDone
  BY DEF GoodGrants, ListFit, Agents!SaidIsDone
<1>2. QED
  BY <1>1, GrantsInvariant, PTL

-----------------------------------------------------------------------------
(* The seat in the voice room. *)

EngineRows == [made : BOOLEAN, held : BOOLEAN, status : Voice!EngineStatus,
               refusal : {"none"} \cup Voice!NoneReasons, seq : Nat, room : 0 .. MaxRooms,
               spare : 0 .. MaxRooms, connecting : 0 .. MaxRooms, joined : BOOLEAN]
Joins == [seq : 1 .. MaxJoins, room : 0 .. MaxRooms]
Mics == [muted : BOOLEAN, pending : BOOLEAN, call : Nat, problem : Voice!MicProblems]
MicCalls == [call : Nat, room : Voice!Rooms, on : BOOLEAN]
Sounds == [ctx : {"none", "suspended", "running"}, blocked : BOOLEAN, unlock : BOOLEAN,
           reverb : {"off", "generating", "ready", "failed"}, reverbSeq : Nat]

VoiceShape ==
    /\ feed \in Voice!Feeds
    /\ engine \in EngineRows
    /\ calls \subseteq Joins
    /\ leaving \in Voice!Leavings
    /\ link \in [Voice!Rooms -> {"down", "connecting", "up", "re"}]
    /\ capture \in [Voice!Rooms -> BOOLEAN]
    /\ mic \in Mics
    /\ micOps \subseteq MicCalls
    /\ audio \in Sounds
    /\ renders \subseteq Nat

Seated == {"connecting", "connected", "reconnecting"}

(* The engine's word for where it is: in a room while it says so, as long  *)
(* as the page is there.                                                   *)
EngineFit ==
    /\ feed.boot # "none" => ~engine.made
    /\ ~engine.made => engine.room = Voice!NoRoom /\ engine.status = "idle" /\ calls = {}
    /\ engine.room # Voice!NoRoom => engine.status \in Seated /\ engine.made
    /\ engine.room <= engine.spare
    /\ engine.joined => engine.room # Voice!NoRoom /\ engine.status \in Voice!InRoomStatus
    /\ feed.open => leaving = [at |-> "no", room |-> Voice!NoRoom]
    /\ feed.open /\ engine.status \in Seated => engine.room # Voice!NoRoom
    /\ ~feed.open => engine.room = Voice!NoRoom /\ leaving.at # "no"

(* What each join still on its way may find: it is the present one only if *)
(* the page is there, and no other join has its room.                      *)
JoinFit(c) ==
    /\ c.seq <= engine.seq
    /\ ~feed.open => c.seq # engine.seq
    /\ c.seq = engine.seq /\ c.room = Voice!NoRoom => engine.status = "fetching-token"
    /\ c.room # Voice!NoRoom =>
           /\ link[c.room] \in {"connecting", "down"}
           /\ c.room <= engine.spare
           /\ c.room = engine.spare => engine.connecting = c.room

JoinsFit ==
    /\ \A c \in calls : JoinFit(c)
    /\ \A c, d \in calls : c.seq = d.seq => c = d
    /\ \A c, d \in calls : c.room = d.room /\ c.room # Voice!NoRoom => c = d

RoomFit == EngineFit /\ JoinsFit /\ Voice!OneSeat /\ Voice!NoHotMic

(* A change of the microphone that the button waits for is under way, in   *)
(* the room the engine is in.                                              *)
MicFit ==
    /\ feed.open /\ mic.pending => \E o \in micOps : o.call = mic.call /\ o.room = engine.room
    /\ Voice!MicTold

SoundFit ==
    /\ leaving.at = "no" /\ audio.ctx = "none" => audio.reverb # "generating"
    /\ Voice!SoundTold

GoodVoice == VoiceShape /\ RoomFit /\ MicFit /\ SoundFit

-----------------------------------------------------------------------------
(* What a step leaves alone keeps what rests on it. *)

LEMMA RoomUntouched ==
    ASSUME RoomFit, UNCHANGED <<feed, engine, calls, leaving, link, capture>>
    PROVE  RoomFit'
BY DEF RoomFit, EngineFit, JoinsFit, JoinFit, Voice!OneSeat, Voice!NoHotMic, Voice!Rooms, Voice!NoRoom,
       Voice!InRoomStatus, Seated

LEMMA MicUntouched ==
    ASSUME MicFit, UNCHANGED <<feed, engine, capture, mic, micOps>>
    PROVE  MicFit'
BY DEF MicFit, Voice!MicTold, Voice!NoRoom, Voice!InRoomStatus

LEMMA SoundUntouched ==
    ASSUME SoundFit, UNCHANGED <<audio, renders>>, leaving'.at = "no" => leaving.at = "no"
    PROVE  SoundFit'
BY DEF SoundFit, Voice!SoundTold

-----------------------------------------------------------------------------
(* Sound, and the page's own buttons. *)

LEMMA HeardFits ==
    ASSUME audio \in Sounds, NEW s \in {"suspended", "running"}
    PROVE  /\ Voice!Heard(s) \in Sounds
           /\ Voice!Heard(s).ctx = s /\ Voice!Heard(s).reverb = audio.reverb
           /\ Voice!Heard(s).reverbSeq = audio.reverbSeq
           /\ s = "suspended" => Voice!Heard(s).unlock
<1>1. CASE s = "running"
  <2>1. Voice!Heard(s) = [audio EXCEPT !.ctx = "running", !.blocked = FALSE, !.unlock = FALSE]
    BY <1>1 DEF Voice!Heard, Sounds
  <2>2. QED
    BY <1>1, <2>1 DEF Sounds
<1>2. CASE s = "suspended"
  <2>1. Voice!Heard(s) = [audio EXCEPT !.ctx = "suspended", !.blocked = TRUE, !.unlock = TRUE]
    BY <1>2 DEF Voice!Heard, Sounds
  <2>2. QED
    BY <1>2, <2>1 DEF Sounds
<1>3. QED
  BY <1>1, <1>2

LEMMA OpenedFits ==
    ASSUME audio \in Sounds, NEW s \in {"suspended", "running"}, NEW x,
           x = [audio EXCEPT !.ctx = s, !.blocked = s # "running", !.unlock = @ \/ s # "running",
                             !.reverb = "generating", !.reverbSeq = @ + 1]
    PROVE  /\ x \in Sounds /\ x.ctx = s
           /\ x.reverb = "generating" /\ x.reverbSeq = audio.reverbSeq + 1
           /\ s = "suspended" => x.unlock
<1>1. audio.unlock \in BOOLEAN /\ audio.reverbSeq + 1 \in Nat
  BY DEF Sounds
<1>2. CASE s = "suspended"
  <2>1. x = [ctx |-> "suspended", blocked |-> TRUE, unlock |-> TRUE, reverb |-> "generating",
             reverbSeq |-> audio.reverbSeq + 1]
    BY <1>2 DEF Sounds
  <2>2. QED
    BY <1>1, <1>2, <2>1 DEF Sounds
<1>3. CASE s = "running" /\ audio.unlock
  <2>1. x = [ctx |-> "running", blocked |-> FALSE, unlock |-> TRUE, reverb |-> "generating",
             reverbSeq |-> audio.reverbSeq + 1]
    BY <1>3 DEF Sounds
  <2>2. QED
    BY <1>1, <1>3, <2>1 DEF Sounds
<1>4. CASE s = "running" /\ ~audio.unlock
  <2>1. x = [ctx |-> "running", blocked |-> FALSE, unlock |-> FALSE, reverb |-> "generating",
             reverbSeq |-> audio.reverbSeq + 1]
    BY <1>4 DEF Sounds
  <2>2. QED
    BY <1>1, <1>4, <2>1 DEF Sounds
<1>5. QED
  BY <1>2, <1>3, <1>4

LEMMA SoundStepKeeps ==
    ASSUME GoodVoice,
           Voice!ContextChanges \/ Voice!TurnOnSound \/ (\E s \in renders : Voice!ReverbRendered(s))
               \/ Voice!ReloadReverb \/ Voice!RebuildAudio
    PROVE  GoodVoice'
<1>1. UNCHANGED <<feed, engine, calls, leaving, link, capture, mic, micOps>>
  BY DEF Voice!ContextChanges, Voice!TurnOnSound, Voice!ReverbRendered, Voice!ReloadReverb, Voice!RebuildAudio,
         Voice!roomVars, Voice!micVars
<1>2. audio \in Sounds /\ renders \subseteq Nat /\ SoundFit
  BY DEF GoodVoice, VoiceShape
<1>3. audio' \in Sounds /\ renders' \subseteq Nat /\ SoundFit'
  <2>1. CASE Voice!ContextChanges
    <3>1. PICK s \in {"suspended", "running"} : audio' = Voice!Heard(s)
      BY <2>1 DEF Voice!ContextChanges
    <3>2. QED
      BY <1>1, <1>2, <2>1, <3>1, HeardFits DEF Voice!ContextChanges, SoundFit, Voice!SoundTold
  <2>2. CASE Voice!TurnOnSound
    BY <1>1, <1>2, <2>2, HeardFits DEF Voice!TurnOnSound, SoundFit, Voice!SoundTold
  <2>3. CASE \E s \in renders : Voice!ReverbRendered(s)
    BY <1>1, <1>2, <2>3 DEF Voice!ReverbRendered, Sounds, SoundFit, Voice!SoundTold
  <2>4. CASE Voice!ReloadReverb
    <3>1. /\ audio' = [audio EXCEPT !.reverb = "generating", !.reverbSeq = @ + 1]
          /\ renders' = renders \cup {audio.reverbSeq + 1} /\ audio.ctx # "none"
      BY <2>4 DEF Voice!ReloadReverb, Voice!ReverbStarted
    <3>2. audio.reverbSeq + 1 \in Nat
      BY <1>2 DEF Sounds
    <3>3. /\ audio' \in Sounds /\ audio'.ctx = audio.ctx /\ audio'.unlock = audio.unlock
          /\ audio'.reverbSeq = audio.reverbSeq + 1
      BY <1>2, <3>1, <3>2 DEF Sounds
    <3>4. renders' \subseteq Nat /\ audio'.reverbSeq \in renders'
      BY <1>2, <3>1, <3>2, <3>3
    <3>5. QED
      BY <1>1, <1>2, <3>1, <3>3, <3>4 DEF SoundFit, Voice!SoundTold
  <2>5. CASE Voice!RebuildAudio
    <3>1. PICK s \in {"suspended", "running"} :
            audio' = [audio EXCEPT !.ctx = s, !.blocked = s # "running", !.unlock = @ \/ s # "running",
                                   !.reverb = "generating", !.reverbSeq = @ + 1]
      BY <2>5 DEF Voice!RebuildAudio
    <3>2. /\ audio' \in Sounds /\ audio'.ctx = s /\ audio'.reverbSeq = audio.reverbSeq + 1
          /\ s = "suspended" => audio'.unlock
      BY <1>2, <3>1, OpenedFits
    <3>3. /\ renders' = renders \cup {audio.reverbSeq + 1} /\ audio.reverbSeq + 1 \in Nat /\ audio.ctx # "none"
      BY <1>2, <2>5 DEF Voice!RebuildAudio, Voice!ReverbStarted, Sounds
    <3>4. renders' \subseteq Nat /\ audio'.reverbSeq \in renders'
      BY <1>2, <3>2, <3>3
    <3>5. QED
      BY <1>1, <1>2, <3>2, <3>3, <3>4 DEF SoundFit, Voice!SoundTold
  <2>6. QED
    BY <2>1, <2>2, <2>3, <2>4, <2>5
<1>4. QED
  BY <1>1, <1>3, RoomUntouched, MicUntouched DEF GoodVoice, VoiceShape, Voice!Rooms

-----------------------------------------------------------------------------
(* The microphone. *)

LEMMA SetMicKeeps ==
    ASSUME GoodVoice, feed.open, Voice!Available, NEW live \in BOOLEAN, mic.muted = live, ~mic.pending,
           Voice!SetMic(live), UNCHANGED <<feed, engine, calls, leaving, link, capture, audio, renders>>
    PROVE  GoodVoice'
<1>1. engine.room \in Voice!Rooms
  BY DEF GoodVoice, VoiceShape, RoomFit, EngineFit, EngineRows, Voice!Available, Voice!Connection, Voice!InRoomStatus,
         Seated, Voice!Rooms, Voice!NoRoom
<1>2. /\ mic' = [mic EXCEPT !.muted = ~live, !.pending = TRUE, !.call = @ + 1,
                            !.problem = IF live THEN "none" ELSE @]
      /\ micOps' = micOps \cup {[call |-> mic.call + 1, room |-> engine.room, on |-> live]}
  BY DEF Voice!SetMic
<1>3. mic \in Mics /\ micOps \subseteq MicCalls
  BY DEF GoodVoice, VoiceShape
<1> DEFINE change == [call |-> mic.call + 1, room |-> engine.room, on |-> live]
<1>4. mic' \in Mics /\ mic'.call = mic.call + 1 /\ mic'.pending
  <2>1. mic.problem \in Voice!MicProblems /\ "none" \in Voice!MicProblems
    BY <1>3 DEF Mics, Voice!MicProblems
  <2>2. mic' \in Mics /\ mic'.call = mic.call + 1 /\ mic'.pending = TRUE
    <3>1. CASE live
      <4>1. mic' = [muted |-> FALSE, pending |-> TRUE, call |-> mic.call + 1, problem |-> "none"]
        BY <1>2, <1>3, <3>1 DEF Mics
      <4>2. QED
        BY <1>3, <2>1, <4>1 DEF Mics
    <3>2. CASE ~live
      <4>1. mic' = [muted |-> TRUE, pending |-> TRUE, call |-> mic.call + 1, problem |-> mic.problem]
        BY <1>2, <1>3, <3>2 DEF Mics
      <4>2. QED
        BY <1>3, <2>1, <4>1 DEF Mics
    <3>3. QED
      BY <3>1, <3>2
  <2>3. QED
    BY <2>2
<1>5. change \in MicCalls /\ change.call = mic.call + 1 /\ change.room = engine.room
  BY <1>1, <1>3 DEF MicCalls, Mics
<1>9. micOps' \subseteq MicCalls /\ change \in micOps'
  BY <1>2, <1>3, <1>5
<1> HIDE DEF change
<1>7. MicFit'
  BY <1>4, <1>5, <1>9 DEF MicFit, Voice!MicTold
<1>10. QED
  BY <1>4, <1>9, <1>7, RoomUntouched, SoundUntouched DEF GoodVoice, VoiceShape, Voice!Rooms

LEMMA MicSettles ==
    ASSUME GoodVoice, NEW o \in micOps, Voice!MicSettled(o)
    PROVE  GoodVoice'
<1>1. UNCHANGED <<feed, engine, calls, leaving, link, audio, renders>> /\ micOps' = micOps \ {o}
  BY DEF Voice!MicSettled, Voice!roomVars, Voice!audioVars
<1>2. o \in MicCalls /\ mic \in Mics /\ capture \in [Voice!Rooms -> BOOLEAN]
  BY DEF GoodVoice, VoiceShape
<1>3. PICK outcome \in {"done"} \cup (Voice!MicProblems \ {"none"}) :
        /\ outcome = "done" => link[o.room] \in {"up", "re"}
        /\ capture' = IF outcome = "done" THEN [capture EXCEPT ![o.room] = o.on] ELSE capture
        /\ LET mine == o.call = mic.call
               told == IF mine /\ outcome # "done" /\ o.on THEN [mic EXCEPT !.problem = outcome] ELSE mic
           IN mic' = IF o.room # engine.room THEN told
                     ELSE Voice!RefreshMic(IF mine THEN [told EXCEPT !.pending = FALSE] ELSE told, capture'[o.room])
  BY DEF Voice!MicSettled
<1>4. capture' \in [Voice!Rooms -> BOOLEAN]
  BY <1>2, <1>3 DEF MicCalls
<1>5. /\ mic' \in Mics /\ mic'.call = mic.call
      /\ mic'.pending <=> mic.pending /\ ~(o.call = mic.call /\ o.room = engine.room)
      /\ o.room # engine.room => mic'.muted = mic.muted
      /\ o.room = engine.room /\ ~mic'.pending => mic'.muted = ~capture'[o.room]
  <2> DEFINE mine == o.call = mic.call
             told == IF mine /\ outcome # "done" /\ o.on THEN [mic EXCEPT !.problem = outcome] ELSE mic
             next == IF mine THEN [told EXCEPT !.pending = FALSE] ELSE told
  <2>1. told \in Mics /\ told.call = mic.call /\ told.pending = mic.pending /\ told.muted = mic.muted
    BY <1>2 DEF Mics, Voice!MicProblems
  <2>2. next \in Mics /\ next.call = mic.call /\ next.pending = (mic.pending /\ ~mine)
    BY <2>1 DEF Mics
  <2>3. capture'[o.room] \in BOOLEAN
    BY <1>2, <1>4 DEF MicCalls
  <2>4. mic' = IF o.room # engine.room THEN told ELSE Voice!RefreshMic(next, capture'[o.room])
    BY <1>3
  <2>5. CASE o.room # engine.room
    BY <2>1, <2>4, <2>5
  <2>6. CASE o.room = engine.room
    <3>1. mic' = IF next.pending THEN next ELSE [next EXCEPT !.muted = ~capture'[o.room]]
      BY <2>4, <2>6 DEF Voice!RefreshMic
    <3> HIDE DEF next, told
    <3>2. QED
      BY <2>2, <2>3, <2>6, <3>1 DEF Mics
  <2>7. QED
    BY <2>5, <2>6
<1>6. RoomFit'
  <2>1. \A r \in Voice!Rooms : capture'[r] => capture[r] \/ link[r] \in {"up", "re"}
    BY <1>2, <1>3 DEF MicCalls
  <2>2. Voice!NoHotMic'
    BY <1>1, <2>1 DEF GoodVoice, RoomFit, Voice!NoHotMic, Voice!OneSeat
  <2>3. QED
    BY <1>1, <2>2 DEF GoodVoice, RoomFit, EngineFit, JoinsFit, JoinFit, Voice!OneSeat, Voice!Rooms, Voice!NoRoom,
         Voice!InRoomStatus, Seated
<1>7. MicFit'
  <2>1. \A x \in micOps : x.call = mic.call /\ x.room = engine.room /\ mic'.pending => x \in micOps'
    BY <1>1, <1>5
  <2>2. ASSUME engine.room # Voice!NoRoom, engine.status \in Voice!InRoomStatus, ~mic'.pending
        PROVE  mic'.muted = ~capture'[engine.room]
    <3>1. CASE o.room = engine.room
      BY <1>5, <2>2, <3>1
    <3>2. CASE o.room # engine.room
      <4>1. ~mic.pending /\ mic'.muted = mic.muted
        BY <1>5, <2>2, <3>2
      <4>2. capture'[engine.room] = capture[engine.room]
        BY <1>2, <1>3, <3>2 DEF MicCalls
      <4>3. QED
        BY <2>2, <4>1, <4>2 DEF GoodVoice, MicFit, Voice!MicTold
    <3>3. QED
      BY <3>1, <3>2
  <2>3. QED
    BY <1>1, <1>5, <2>1, <2>2 DEF GoodVoice, MicFit, Voice!MicTold
<1>8. micOps' \subseteq MicCalls
  BY <1>1 DEF GoodVoice, VoiceShape
<1>9. QED
  BY <1>1, <1>4, <1>5, <1>6, <1>7, <1>8, SoundUntouched DEF GoodVoice, VoiceShape, Voice!Rooms

-----------------------------------------------------------------------------
(* Joining, up to the token. *)

LEMMA FeedMoves ==
    ASSUME GoodVoice, feed' \in Voice!Feeds, feed'.open = feed.open, feed'.boot # "none" => ~engine.made,
           UNCHANGED <<engine, calls, leaving, link, capture, mic, micOps, audio, renders>>
    PROVE  GoodVoice'
<1>1. VoiceShape'
  BY DEF GoodVoice, VoiceShape, Voice!Rooms
<1>2. RoomFit'
  BY DEF GoodVoice, RoomFit, EngineFit, JoinsFit, JoinFit, Voice!OneSeat, Voice!NoHotMic, Voice!Rooms, Voice!NoRoom,
         Voice!InRoomStatus, Seated
<1>3. MicFit'
  BY DEF GoodVoice, MicFit, Voice!MicTold, Voice!NoRoom, Voice!InRoomStatus
<1>4. QED
  BY <1>1, <1>2, <1>3, SoundUntouched DEF GoodVoice

LEMMA JoinStarts ==
    ASSUME GoodVoice, MaxJoins \in Nat, feed' \in Voice!Feeds, feed'.open, feed'.boot = "none", feed.open,
           NEW e \in EngineRows, e.made, ~e.joined, e.room = Voice!NoRoom, engine.room = Voice!NoRoom,
           e.seq = engine.seq, e.spare = engine.spare, e.connecting = engine.connecting,
           Voice!EngineJoins(e), UNCHANGED <<leaving, link, capture, mic, micOps, audio, renders>>
    PROVE  GoodVoice'
<1> DEFINE new == [seq |-> e.seq + 1, room |-> Voice!NoRoom]
<1>1. engine' = [e EXCEPT !.seq = @ + 1, !.refusal = "none", !.status = "fetching-token"]
      /\ calls' = calls \cup {new} /\ e.seq < MaxJoins
  BY DEF Voice!EngineJoins
<1>2. e.seq \in Nat /\ e.seq + 1 \in Nat
  BY DEF EngineRows
<1>3. engine' = [made |-> e.made, held |-> e.held, status |-> "fetching-token", refusal |-> "none",
                 seq |-> e.seq + 1, room |-> e.room, spare |-> e.spare, connecting |-> e.connecting,
                 joined |-> e.joined]
  BY <1>1 DEF EngineRows
<1>4. /\ engine'.status = "fetching-token" /\ engine'.made /\ ~engine'.joined
      /\ engine'.room = Voice!NoRoom /\ engine'.seq = engine.seq + 1
      /\ engine'.spare = engine.spare /\ engine'.connecting = engine.connecting
  BY <1>3
<1>5. engine' \in EngineRows
  <2>1. engine' = [e EXCEPT !.seq = @ + 1, !.refusal = "none", !.status = "fetching-token"]
    BY <1>1
  <2>2. "fetching-token" \in Voice!EngineStatus
    BY DEF Voice!EngineStatus
  <2>3. QED
    BY <1>2, <2>1, <2>2 DEF EngineRows
<1>6. new \in Joins /\ new.seq = engine.seq + 1 /\ new.room = Voice!NoRoom
  <2>1. e.seq + 1 \in 1 .. MaxJoins
    BY <1>1, <1>2
  <2>2. Voice!NoRoom \in 0 .. MaxRooms
    BY DEF EngineRows
  <2>3. QED
    BY <2>1, <2>2 DEF Joins
<1> HIDE DEF new
<1>7. VoiceShape'
  BY <1>1, <1>5, <1>6 DEF GoodVoice, VoiceShape, Voice!Rooms
<1>8. engine.seq \in Nat /\ engine.spare \in Nat
  BY DEF GoodVoice, VoiceShape, EngineRows
<1>9. EngineFit'
  BY <1>4, <1>8 DEF GoodVoice, RoomFit, EngineFit, Voice!NoRoom, Voice!InRoomStatus, Seated
<1>10. \A c \in calls : JoinFit(c)' /\ c.seq # new.seq
  <2> SUFFICES ASSUME NEW c \in calls PROVE JoinFit(c)' /\ c.seq # new.seq
    OBVIOUS
  <2>1. c.seq \in Nat /\ c.room \in Nat
    BY DEF GoodVoice, VoiceShape, Joins
  <2>2. JoinFit(c)
    BY DEF GoodVoice, RoomFit, JoinsFit
  <2>3. QED
    BY <1>4, <1>6, <1>8, <2>1, <2>2 DEF JoinFit
<1>11. JoinFit(new)'
  BY <1>4, <1>6, <1>8 DEF JoinFit
<1>12. JoinsFit'
  BY <1>1, <1>6, <1>10, <1>11 DEF GoodVoice, RoomFit, JoinsFit
<1>13. Voice!OneSeat' /\ Voice!NoHotMic'
  BY <1>4 DEF GoodVoice, RoomFit, Voice!OneSeat, Voice!NoHotMic, Voice!Rooms
<1>14. MicFit'
  BY <1>4 DEF GoodVoice, MicFit, Voice!MicTold
<1>15. QED
  BY <1>7, <1>9, <1>12, <1>13, <1>14, SoundUntouched DEF GoodVoice, RoomFit

LEMMA ConnectKeeps ==
    ASSUME GoodVoice, MaxJoins \in Nat, Voice!Connect
    PROVE  GoodVoice'
<1>1. feed.open /\ feed \in Voice!Feeds /\ engine \in EngineRows /\ EngineFit
  BY DEF Voice!Connect, GoodVoice, VoiceShape, RoomFit
<1>2. UNCHANGED <<leaving, link, capture, mic, micOps, audio, renders>>
  BY DEF Voice!Connect, Voice!micVars, Voice!audioVars
<1>3. CASE engine.made
  <2>1. Voice!EngineJoins(engine) /\ UNCHANGED feed
    BY <1>3 DEF Voice!Connect
  <2>2. engine.room = Voice!NoRoom
    BY <1>1, <1>3 DEF Voice!Connect, Voice!InRoom, Voice!Connection, Voice!InRoomStatus, EngineFit, Seated
  <2>3. ~engine.joined
    BY <1>1, <2>2 DEF EngineFit
  <2>4. feed.boot = "none"
    BY <1>1, <1>3 DEF EngineFit
  <2>5. QED
    BY <1>1, <1>2, <1>3, <2>1, <2>2, <2>3, <2>4, JoinStarts
<1>4. CASE ~engine.made
  <2>1. feed' = [feed EXCEPT !.boot = "grant", !.said = "connecting"] /\ UNCHANGED <<engine, calls>>
    BY <1>4 DEF Voice!Connect
  <2>2. feed' \in Voice!Feeds /\ feed'.open = feed.open
    BY <1>1, <2>1 DEF Voice!Feeds
  <2>3. QED
    BY <1>2, <1>4, <2>1, <2>2, FeedMoves
<1>5. QED
  BY <1>3, <1>4

LEMMA GrantKeeps ==
    ASSUME GoodVoice, Voice!GrantAnswered
    PROVE  GoodVoice'
<1>1. PICK answer \in Voice!RouteRefusals \cup {"token"} : feed' = Voice!Granted(answer)
  BY DEF Voice!GrantAnswered
<1>2. UNCHANGED <<engine, calls, leaving, link, capture, mic, micOps, audio, renders>>
  BY DEF Voice!GrantAnswered, Voice!micVars, Voice!audioVars
<1>3. feed \in Voice!Feeds /\ ~engine.made
  BY DEF GoodVoice, VoiceShape, RoomFit, EngineFit, Voice!GrantAnswered
<1>4. feed' \in Voice!Feeds /\ feed'.open = feed.open
  <2>1. \/ feed' = [feed EXCEPT !.boot = "none"]
        \/ feed' = [feed EXCEPT !.boot = "import"]
        \/ answer \in Voice!RouteRefusals /\ feed' = [feed EXCEPT !.boot = "none", !.said = answer]
    BY <1>1, <1>3 DEF Voice!Granted, Voice!Feeds
  <2>2. QED
    BY <1>3, <2>1 DEF Voice!Feeds, Voice!NoneReasons
<1>5. QED
  BY <1>2, <1>3, <1>4, FeedMoves

LEMMA LoadKeeps ==
    ASSUME GoodVoice, MaxJoins \in Nat, Voice!EngineLoaded
    PROVE  GoodVoice'
<1>1. feed \in Voice!Feeds /\ engine \in EngineRows /\ EngineFit /\ ~engine.made
  BY DEF GoodVoice, VoiceShape, RoomFit, EngineFit, Voice!EngineLoaded
<1>2. UNCHANGED <<leaving, link, capture, mic, micOps, audio, renders>>
  BY DEF Voice!EngineLoaded, Voice!micVars, Voice!audioVars
<1>3. CASE feed' = [feed EXCEPT !.boot = "none", !.said = IF feed.open THEN "failed" ELSE @]
             /\ UNCHANGED <<engine, calls>>
  <2>1. \E w \in {"connecting"} \cup Voice!NoneReasons : feed' = [feed EXCEPT !.boot = "none", !.said = w]
    <3>1. CASE feed.open
      BY <1>3, <3>1 DEF Voice!NoneReasons
    <3>2. CASE ~feed.open
      BY <1>1, <1>3, <3>2 DEF Voice!Feeds
    <3>3. QED
      BY <3>1, <3>2
  <2>2. feed' \in Voice!Feeds /\ feed'.open = feed.open
    BY <1>1, <2>1 DEF Voice!Feeds
  <2>3. QED
    BY <1>1, <1>2, <1>3, <2>2, FeedMoves
<1>4. CASE /\ feed.open
           /\ feed' = [feed EXCEPT !.boot = "none"]
           /\ Voice!EngineJoins([engine EXCEPT !.made = TRUE, !.held = TRUE])
  <2> DEFINE e == [engine EXCEPT !.made = TRUE, !.held = TRUE]
  <2>1. feed' \in Voice!Feeds /\ feed'.open /\ feed'.boot = "none"
    BY <1>1, <1>4 DEF Voice!Feeds
  <2>2. /\ e \in EngineRows /\ e.made /\ e.joined = engine.joined /\ e.room = engine.room
        /\ e.seq = engine.seq /\ e.spare = engine.spare /\ e.connecting = engine.connecting
    BY <1>1 DEF EngineRows
  <2>3. engine.room = Voice!NoRoom /\ ~engine.joined
    BY <1>1 DEF EngineFit
  <2>4. Voice!EngineJoins(e)
    BY <1>4
  <2> HIDE DEF e
  <2>5. QED
    BY <1>2, <1>4, <2>1, <2>2, <2>3, <2>4, JoinStarts
<1>5. QED
  BY <1>3, <1>4 DEF Voice!EngineLoaded

-----------------------------------------------------------------------------
(* What a token's answer finds. *)

(* The present join, before it has a room: the page is there, the engine is *)
(* in no room and nothing waits for its microphone.                         *)
LEMMA PresentJoin ==
    ASSUME GoodVoice, NEW c \in calls, c.room = Voice!NoRoom, c.seq = engine.seq
    PROVE  /\ feed.open /\ engine.made /\ engine.status = "fetching-token"
           /\ engine.room = Voice!NoRoom /\ ~engine.joined /\ ~mic.pending
           /\ leaving.at = "no" /\ leaving.room = Voice!NoRoom
           /\ \A d \in calls : d.seq = engine.seq => d = c
<1>1. RoomFit /\ EngineFit /\ JoinFit(c)
  BY DEF GoodVoice, RoomFit, JoinsFit
<1>2. feed.open /\ engine.made /\ engine.status = "fetching-token"
  BY <1>1 DEF EngineFit, JoinFit
<1>3. engine.room = Voice!NoRoom /\ ~engine.joined
  BY <1>1, <1>2 DEF EngineFit, Seated
<1>4. leaving.at = "no" /\ leaving.room = Voice!NoRoom
  BY <1>1, <1>2 DEF EngineFit
<1>5. ~mic.pending
  <2>1. \A o \in micOps : o.room # engine.room
    BY <1>3 DEF GoodVoice, VoiceShape, MicCalls, Voice!Rooms, Voice!NoRoom
  <2>2. QED
    BY <1>2, <2>1 DEF GoodVoice, MicFit
<1>6. \A d \in calls : d.seq = engine.seq => d = c
  BY <1>1 DEF RoomFit, JoinsFit
<1>7. QED
  BY <1>2, <1>3, <1>4, <1>5, <1>6

(* A join that ends with a word for why there is no room. *)
LEMMA JoinGivenUp ==
    ASSUME GoodVoice, NEW c \in calls, c.room = Voice!NoRoom, c.seq = engine.seq, calls' = calls \ {c},
           engine' \in EngineRows, engine'.status = "error", engine'.made = engine.made, engine'.seq = engine.seq,
           engine'.room = engine.room, engine'.spare = engine.spare, engine'.connecting = engine.connecting,
           engine'.joined = engine.joined,
           UNCHANGED <<feed, leaving, link, capture, mic, micOps, audio, renders>>
    PROVE  GoodVoice'
<1>1. VoiceShape'
  BY DEF GoodVoice, VoiceShape, Voice!Rooms
<1>2. EngineFit'
  BY PresentJoin DEF GoodVoice, RoomFit, EngineFit, Seated, Voice!InRoomStatus, Voice!NoRoom
<1>3. \A d \in calls' : d \in calls /\ d.seq # engine.seq /\ JoinFit(d)
  BY PresentJoin DEF GoodVoice, RoomFit, JoinsFit
<1>4. JoinsFit'
  BY <1>3 DEF GoodVoice, RoomFit, JoinsFit, JoinFit, Voice!NoRoom
<1>5. Voice!OneSeat' /\ Voice!NoHotMic'
  BY DEF GoodVoice, RoomFit, Voice!OneSeat, Voice!NoHotMic, Voice!Rooms
<1>6. MicFit'
  BY PresentJoin DEF GoodVoice, MicFit, Voice!MicTold, Voice!NoRoom
<1>7. QED
  BY <1>1, <1>2, <1>4, <1>5, <1>6, SoundUntouched DEF GoodVoice, RoomFit

LEMMA TokenEndsKeep ==
    ASSUME GoodVoice, NEW c \in calls,
           Voice!TokenOvertaken(c) \/ Voice!TokenRefused(c) \/ Voice!NoAudio(c)
    PROVE  GoodVoice'
<1>1. /\ calls' = calls \ {c} /\ c.room = Voice!NoRoom
      /\ UNCHANGED <<feed, leaving, link, capture, mic, micOps, audio, renders>>
  BY DEF Voice!TokenOvertaken, Voice!TokenRefused, Voice!NoAudio, Voice!micVars, Voice!audioVars
<1>2. engine \in EngineRows
  BY DEF GoodVoice, VoiceShape
<1>3. CASE Voice!TokenOvertaken(c)
  <2>1. UNCHANGED engine
    BY <1>3 DEF Voice!TokenOvertaken
  <2>2. VoiceShape'
    BY <1>1, <2>1 DEF GoodVoice, VoiceShape, Voice!Rooms
  <2>3. RoomFit'
    BY <1>1, <2>1 DEF GoodVoice, RoomFit, EngineFit, JoinsFit, JoinFit, Voice!OneSeat, Voice!NoHotMic, Voice!Rooms,
           Voice!NoRoom, Voice!InRoomStatus, Seated
  <2>4. QED
    BY <1>1, <2>1, <2>2, <2>3, MicUntouched, SoundUntouched DEF GoodVoice
<1>4. CASE Voice!TokenRefused(c)
  <2>1. PICK why \in Voice!RouteRefusals : engine' = [engine EXCEPT !.refusal = why, !.status = "error"]
    BY <1>4 DEF Voice!TokenRefused
  <2>2. "error" \in Voice!EngineStatus /\ why \in {"none"} \cup Voice!NoneReasons
    BY DEF Voice!EngineStatus, Voice!NoneReasons
  <2>3. engine' \in EngineRows
    BY <1>2, <2>1, <2>2 DEF EngineRows
  <2>4. /\ engine'.status = "error" /\ engine'.made = engine.made /\ engine'.seq = engine.seq
        /\ engine'.room = engine.room /\ engine'.spare = engine.spare /\ engine'.connecting = engine.connecting
        /\ engine'.joined = engine.joined
    BY <1>2, <2>1 DEF EngineRows
  <2>5. c.seq = engine.seq
    BY <1>4 DEF Voice!TokenRefused
  <2>6. QED
    BY <1>1, <2>3, <2>4, <2>5, JoinGivenUp
<1>5. CASE Voice!NoAudio(c)
  <2>1. engine' = [engine EXCEPT !.held = FALSE, !.refusal = "failed", !.status = "error"]
    BY <1>5 DEF Voice!NoAudio
  <2>2. "error" \in Voice!EngineStatus /\ "failed" \in {"none"} \cup Voice!NoneReasons
    BY DEF Voice!EngineStatus, Voice!NoneReasons
  <2>3. engine' \in EngineRows
    BY <1>2, <2>1, <2>2 DEF EngineRows
  <2>4. /\ engine'.status = "error" /\ engine'.made = engine.made /\ engine'.seq = engine.seq
        /\ engine'.room = engine.room /\ engine'.spare = engine.spare /\ engine'.connecting = engine.connecting
        /\ engine'.joined = engine.joined
    BY <1>2, <2>1 DEF EngineRows
  <2>5. c.seq = engine.seq
    BY <1>5 DEF Voice!NoAudio
  <2>6. QED
    BY <1>1, <2>3, <2>4, <2>5, JoinGivenUp
<1>6. QED
  BY <1>3, <1>4, <1>5

LEMMA TokenKeeps ==
    ASSUME GoodVoice, NEW c \in calls, Voice!TokenTaken(c)
    PROVE  GoodVoice'
<1>19. PICK r \in Voice!Rooms : r = Voice!RoomForJoin
  BY DEF Voice!TokenTaken
<1>20. PICK held : held = [c EXCEPT !.room = r]
  OBVIOUS
<1>1. /\ c.room = Voice!NoRoom /\ c.seq = engine.seq /\ r \in Voice!Rooms
      /\ engine' = [engine EXCEPT !.held = FALSE, !.status = "connecting", !.room = r, !.spare = r, !.connecting = r]
      /\ link' = [link EXCEPT ![r] = "connecting"]
      /\ calls' = (calls \ {c}) \cup {held}
      /\ UNCHANGED <<feed, leaving, capture, mic, micOps>>
  BY <1>19, <1>20 DEF Voice!TokenTaken, Voice!micVars
<1>2. /\ engine \in EngineRows /\ c \in Joins /\ calls \subseteq Joins /\ audio \in Sounds /\ renders \subseteq Nat
      /\ link \in [Voice!Rooms -> {"down", "connecting", "up", "re"}]
  BY DEF GoodVoice, VoiceShape
<1>3. /\ r \in Nat /\ r # Voice!NoRoom /\ engine.spare <= r /\ r \in 0 .. MaxRooms
      /\ \A d \in calls : d.room # r
  <2>1. engine.spare \in Nat /\ r \in Nat /\ r # Voice!NoRoom /\ r \in 0 .. MaxRooms
    BY <1>1, <1>2 DEF EngineRows, Voice!Rooms, Voice!NoRoom
  <2>2. (r = engine.spare /\ engine.spare # engine.connecting) \/ r = engine.spare + 1
    BY <1>19 DEF Voice!RoomForJoin, Voice!SpareFree
  <2>3. ASSUME NEW d \in calls, d.room = r
        PROVE  FALSE
    <3>1. d.room <= engine.spare /\ (d.room = engine.spare => engine.connecting = d.room)
      BY <2>1, <2>3 DEF GoodVoice, RoomFit, JoinsFit, JoinFit
    <3>2. QED
      BY <2>1, <2>2, <2>3, <3>1
  <2>4. engine.spare <= r
    BY <2>1, <2>2
  <2>5. QED
    BY <2>1, <2>3, <2>4
<1>4. held \in Joins /\ held.seq = engine.seq /\ held.room = r
  BY <1>1, <1>2, <1>3, <1>20 DEF Joins
<1>5. engine' \in EngineRows
  BY <1>1, <1>2, <1>3 DEF EngineRows, Voice!EngineStatus
<1>6. /\ engine'.status = "connecting" /\ engine'.made = engine.made /\ engine'.seq = engine.seq
      /\ engine'.room = r /\ engine'.spare = r /\ engine'.connecting = r /\ engine'.joined = engine.joined
  BY <1>1, <1>2 DEF EngineRows
<1>7. link'[r] = "connecting" /\ \A x \in Voice!Rooms : x # r => link'[x] = link[x]
  BY <1>1, <1>2
<1>8. link' \in [Voice!Rooms -> {"down", "connecting", "up", "re"}]
  BY <1>1, <1>2
<1>9. /\ feed.open /\ engine.made /\ engine.room = Voice!NoRoom /\ ~engine.joined /\ ~mic.pending
      /\ leaving.at = "no" /\ leaving.room = Voice!NoRoom /\ \A d \in calls : d.seq = engine.seq => d = c
  BY <1>1, PresentJoin
<1>10. EngineFit'
  BY <1>1, <1>3, <1>6, <1>9 DEF GoodVoice, RoomFit, EngineFit, Seated, Voice!InRoomStatus, Voice!NoRoom
<1>11. \A d \in calls \ {c} : d.seq # engine.seq /\ d.room # r /\ JoinFit(d)'
  <2> SUFFICES ASSUME NEW d \in calls \ {c} PROVE d.seq # engine.seq /\ d.room # r /\ JoinFit(d)'
    OBVIOUS
  <2>1. d.seq # engine.seq /\ d.room # r /\ JoinFit(d)
    BY <1>3, <1>9 DEF GoodVoice, RoomFit, JoinsFit
  <2>2. d.room \in Nat /\ (d.room # Voice!NoRoom => d.room \in Voice!Rooms)
    BY <1>2 DEF Joins, Voice!Rooms, Voice!NoRoom
  <2>3. d.room # Voice!NoRoom => link'[d.room] = link[d.room] /\ d.room <= engine.spare
    BY <1>7, <2>1, <2>2 DEF JoinFit
  <2>4. engine.spare \in Nat
    BY <1>2 DEF EngineRows
  <2>5. QED
    BY <1>1, <1>3, <1>6, <2>1, <2>2, <2>3, <2>4 DEF JoinFit, Voice!NoRoom
<1>12. JoinFit(held)'
  BY <1>1, <1>2, <1>3, <1>4, <1>6, <1>7, <1>9 DEF JoinFit, EngineRows
<1>13. JoinsFit'
  BY <1>1, <1>4, <1>11, <1>12 DEF GoodVoice, RoomFit, JoinsFit, Voice!NoRoom
<1>14. Voice!OneSeat' /\ Voice!NoHotMic'
  BY <1>1, <1>6, <1>7, <1>9 DEF GoodVoice, RoomFit, Voice!OneSeat, Voice!NoHotMic, Voice!Rooms, Voice!NoRoom
<1>15. MicFit'
  BY <1>1, <1>6, <1>9 DEF MicFit, Voice!MicTold, Voice!InRoomStatus
<1>16. audio' \in Sounds /\ renders' \subseteq Nat /\ SoundFit'
  <2>1. PICK s \in {"suspended", "running"} : audio' = Voice!OpenedContext(s)
    BY DEF Voice!TokenTaken
  <2>2. renders' = IF audio.ctx = "none" THEN Voice!ReverbStarted ELSE renders
    BY DEF Voice!TokenTaken
  <2>3. CASE audio.ctx # "none"
    BY <1>1, <1>2, <2>1, <2>2, <2>3 DEF Voice!OpenedContext, GoodVoice, SoundFit, Voice!SoundTold
  <2>4. CASE audio.ctx = "none"
    <3>1. /\ audio' \in Sounds /\ audio'.ctx = s /\ audio'.reverbSeq = audio.reverbSeq + 1
          /\ s = "suspended" => audio'.unlock
      BY <1>2, <2>1, <2>4, OpenedFits DEF Voice!OpenedContext
    <3>2. renders' = renders \cup {audio.reverbSeq + 1} /\ audio.reverbSeq + 1 \in Nat
      BY <1>2, <2>2, <2>4 DEF Voice!ReverbStarted, Sounds
    <3>3. renders' \subseteq Nat /\ audio'.reverbSeq \in renders'
      BY <1>2, <3>1, <3>2
    <3>4. QED
      BY <3>1, <3>3 DEF SoundFit, Voice!SoundTold
  <2>5. QED
    BY <2>3, <2>4
<1>17. VoiceShape'
  BY <1>1, <1>4, <1>5, <1>8, <1>16 DEF GoodVoice, VoiceShape, Voice!Rooms
<1>18. QED
  BY <1>10, <1>13, <1>14, <1>15, <1>16, <1>17 DEF GoodVoice, RoomFit

-----------------------------------------------------------------------------
(* What LiveKit says. *)

LEMMA Refreshed ==
    ASSUME NEW m \in Mics, NEW live \in BOOLEAN
    PROVE  /\ Voice!RefreshMic(m, live) \in Mics /\ Voice!RefreshMic(m, live).call = m.call
           /\ Voice!RefreshMic(m, live).pending = m.pending
           /\ ~m.pending => Voice!RefreshMic(m, live).muted = ~live
<1>1. CASE m.pending
  BY <1>1 DEF Voice!RefreshMic
<1>2. CASE ~m.pending
  BY <1>2 DEF Voice!RefreshMic, Mics
<1>3. QED
  BY <1>1, <1>2

(* In a room, the button that follows it. *)
LEMMA MicFollows ==
    ASSUME GoodVoice, engine.room # Voice!NoRoom, engine'.room = engine.room, UNCHANGED <<feed, micOps>>,
           mic' = Voice!RefreshMic(mic, capture'[engine.room]), capture' \in [Voice!Rooms -> BOOLEAN]
    PROVE  MicFit' /\ mic' \in Mics
<1>1. engine.room \in Voice!Rooms /\ mic \in Mics /\ feed.open
  BY DEF GoodVoice, VoiceShape, RoomFit, EngineFit, EngineRows, Voice!Rooms, Voice!NoRoom
<1>2. capture'[engine.room] \in BOOLEAN
  BY <1>1
<1>3. /\ mic' \in Mics /\ mic'.call = mic.call /\ mic'.pending = mic.pending
      /\ ~mic.pending => mic'.muted = ~capture'[engine.room]
  BY <1>1, <1>2, Refreshed
<1>4. QED
  BY <1>1, <1>3 DEF GoodVoice, MicFit, Voice!MicTold

(* Out of it, the button is as it was at first. *)
LEMMA MicResets ==
    ASSUME mic \in Mics, mic' = Voice!ResetMic, engine'.room = Voice!NoRoom
    PROVE  MicFit' /\ mic' \in Mics
<1>1. mic.call + 1 \in Nat
  BY DEF Mics
<1>2. mic' = [muted |-> TRUE, pending |-> FALSE, call |-> mic.call + 1, problem |-> "none"]
  BY DEF Voice!ResetMic
<1>3. mic' \in Mics
  BY <1>1, <1>2 DEF Mics, Voice!MicProblems
<1>4. ~mic'.pending
  BY <1>2
<1>5. QED
  BY <1>3, <1>4 DEF MicFit, Voice!MicTold

LEMMA ConnectedKeeps ==
    ASSUME GoodVoice, MaxRooms \in Nat, NEW c \in calls, Voice!Connected(c)
    PROVE  GoodVoice'
<1>1. /\ c.room # Voice!NoRoom /\ link[c.room] = "connecting" /\ calls' = calls \ {c}
      /\ link' = [link EXCEPT ![c.room] = IF engine.room = c.room THEN "up" ELSE "down"]
      /\ UNCHANGED <<feed, leaving, capture, micOps, audio, renders>>
  BY DEF Voice!Connected, Voice!LinkHeld, Voice!audioVars
<1>2. /\ engine \in EngineRows /\ c \in Joins /\ calls \subseteq Joins /\ mic \in Mics
      /\ link \in [Voice!Rooms -> {"down", "connecting", "up", "re"}]
  BY DEF GoodVoice, VoiceShape
<1>3. c.room \in Voice!Rooms
  BY <1>1, <1>2 DEF Joins, Voice!Rooms, Voice!NoRoom
<1>4. link' \in [Voice!Rooms -> {"down", "connecting", "up", "re"}]
  BY <1>1, <1>2
<1>5. /\ \A x \in Voice!Rooms : x # c.room => link'[x] = link[x]
      /\ link'[c.room] = IF engine.room = c.room THEN "up" ELSE "down"
  BY <1>1, <1>2, <1>3
<1>6. /\ engine' \in EngineRows /\ engine'.seq = engine.seq /\ engine'.made = engine.made
      /\ engine'.room = engine.room /\ engine'.spare = engine.spare
      /\ engine.connecting # c.room => engine'.connecting = engine.connecting
      /\ engine.room = c.room => engine'.status = "connected"
      /\ engine.room # c.room => engine'.status = engine.status /\ engine'.joined = engine.joined
  <2>1. PICK k \in 0 .. MaxRooms : k = IF engine.connecting = c.room THEN Voice!NoRoom ELSE engine.connecting
    <3>1. Voice!NoRoom \in 0 .. MaxRooms
      BY <1>3 DEF Voice!NoRoom, Voice!Rooms
    <3>2. engine.connecting \in 0 .. MaxRooms
      BY <1>2 DEF EngineRows
    <3>3. QED
      BY <3>1, <3>2
  <2>2. CASE engine.room = c.room
    <3>1. engine' = [engine EXCEPT !.connecting = k, !.joined = TRUE, !.status = "connected"]
      BY <2>1, <2>2 DEF Voice!Connected
    <3>2. QED
      BY <1>2, <2>1, <2>2, <3>1 DEF EngineRows, Voice!EngineStatus
  <2>3. CASE engine.room # c.room
    <3>1. engine' = [engine EXCEPT !.connecting = k]
      BY <2>1, <2>3 DEF Voice!Connected
    <3>2. QED
      BY <1>2, <2>1, <2>3, <3>1 DEF EngineRows
  <2>4. QED
    BY <2>2, <2>3
<1>7. EngineFit'
  BY <1>1, <1>6 DEF GoodVoice, RoomFit, EngineFit, Seated, Voice!InRoomStatus, Voice!NoRoom
<1>8. \A d \in calls \ {c} : JoinFit(d)'
  <2> SUFFICES ASSUME NEW d \in calls \ {c} PROVE JoinFit(d)'
    OBVIOUS
  <2>1. JoinFit(d) /\ (d.room # Voice!NoRoom => d.room # c.room) /\ EngineFit
    BY DEF GoodVoice, RoomFit, JoinsFit
  <2>2. d.room # Voice!NoRoom => d.room \in Voice!Rooms
    BY <1>2 DEF Joins, Voice!Rooms, Voice!NoRoom
  <2>3. d.room # Voice!NoRoom => link'[d.room] = link[d.room]
    BY <1>5, <2>1, <2>2
  <2>4. engine'.status = engine.status \/ engine.status \in Seated
    BY <1>1, <1>6, <2>1 DEF EngineFit
  <2>5. QED
    BY <1>1, <1>6, <2>1, <2>3, <2>4 DEF JoinFit, Seated
<1>9. JoinsFit'
  BY <1>1, <1>8 DEF GoodVoice, RoomFit, JoinsFit
<1>10. Voice!OneSeat' /\ Voice!NoHotMic'
  BY <1>1, <1>5, <1>6 DEF GoodVoice, RoomFit, Voice!OneSeat, Voice!NoHotMic, Voice!Rooms
<1>11. MicFit' /\ mic' \in Mics
  <2>1. CASE engine.room = c.room
    <3>1. mic' = Voice!RefreshMic(mic, capture'[engine.room])
      BY <1>1, <2>1 DEF Voice!Connected
    <3>2. capture' \in [Voice!Rooms -> BOOLEAN]
      BY <1>1 DEF GoodVoice, VoiceShape
    <3>3. QED
      BY <1>1, <1>6, <2>1, <3>1, <3>2, MicFollows
  <2>2. CASE engine.room # c.room
    <3>1. UNCHANGED mic
      BY <2>2 DEF Voice!Connected
    <3>2. QED
      BY <1>1, <1>2, <1>6, <2>2, <3>1 DEF GoodVoice, MicFit, Voice!MicTold
  <2>3. QED
    BY <2>1, <2>2
<1>12. VoiceShape'
  BY <1>1, <1>4, <1>6, <1>11 DEF GoodVoice, VoiceShape, Voice!Rooms
<1>13. QED
  BY <1>1, <1>7, <1>9, <1>10, <1>11, <1>12, SoundUntouched DEF GoodVoice, RoomFit

(* No join has the room of an engine that has joined it. *)
LEMMA JoinedAlone ==
    ASSUME GoodVoice, engine.room # Voice!NoRoom, link[engine.room] \in {"up", "re"}, NEW d \in calls
    PROVE  d.room # engine.room
BY DEF GoodVoice, RoomFit, JoinsFit, JoinFit

LEMMA ConnectFailedKeeps ==
    ASSUME GoodVoice, MaxRooms \in Nat, NEW c \in calls, Voice!ConnectFailed(c)
    PROVE  GoodVoice'
<1>1. /\ c.room # Voice!NoRoom /\ calls' = calls \ {c}
      /\ link' = [link EXCEPT ![c.room] = IF @ = "connecting" THEN "down" ELSE @]
      /\ UNCHANGED <<feed, leaving, micOps, audio, renders>>
  BY DEF Voice!ConnectFailed, Voice!audioVars
<1>2. /\ engine \in EngineRows /\ c \in Joins /\ calls \subseteq Joins /\ mic \in Mics
      /\ link \in [Voice!Rooms -> {"down", "connecting", "up", "re"}] /\ capture \in [Voice!Rooms -> BOOLEAN]
  BY DEF GoodVoice, VoiceShape
<1>3. c.room \in Voice!Rooms /\ Voice!NoRoom \in 0 .. MaxRooms
  BY <1>1, <1>2 DEF Joins, Voice!Rooms, Voice!NoRoom
<1>4. JoinFit(c) /\ EngineFit
  BY DEF GoodVoice, RoomFit, JoinsFit
<1>5. /\ link' \in [Voice!Rooms -> {"down", "connecting", "up", "re"}]
      /\ \A x \in Voice!Rooms : x # c.room => link'[x] = link[x]
      /\ link'[c.room] = "down"
  BY <1>1, <1>2, <1>3, <1>4 DEF JoinFit
<1>6. PICK k \in 0 .. MaxRooms : k = IF engine.connecting = c.room THEN Voice!NoRoom ELSE engine.connecting
  <2>1. engine.connecting \in 0 .. MaxRooms
    BY <1>2 DEF EngineRows
  <2>2. QED
    BY <1>3, <2>1
<1>7. /\ engine' \in EngineRows /\ engine'.seq = engine.seq /\ engine'.made = engine.made
      /\ engine'.spare = engine.spare /\ engine'.connecting = k
      /\ engine.room = c.room => /\ engine'.room = Voice!NoRoom /\ engine'.status = "error" /\ ~engine'.joined
                                 /\ mic' = Voice!ResetMic /\ capture' = Voice!Silenced(c.room)
      /\ engine.room # c.room => /\ engine'.room = engine.room /\ engine'.status = engine.status
                                 /\ engine'.joined = engine.joined /\ UNCHANGED <<mic, capture>>
  <2>1. CASE engine.room = c.room
    <3>1. engine' = [engine EXCEPT !.room = Voice!NoRoom, !.joined = FALSE, !.status = "error",
                                   !.refusal = "failed", !.connecting = k]
      BY <1>2, <1>6, <2>1 DEF Voice!ConnectFailed, Voice!Dropped, EngineRows
    <3>2. mic' = Voice!ResetMic /\ capture' = Voice!Silenced(c.room)
      BY <2>1 DEF Voice!ConnectFailed
    <3>3. "error" \in Voice!EngineStatus /\ "failed" \in {"none"} \cup Voice!NoneReasons
      BY DEF Voice!EngineStatus, Voice!NoneReasons
    <3>4. engine' \in EngineRows
      BY <1>2, <1>3, <1>6, <3>1, <3>3 DEF EngineRows
    <3>5. /\ engine'.seq = engine.seq /\ engine'.made = engine.made /\ engine'.spare = engine.spare
          /\ engine'.connecting = k /\ engine'.room = Voice!NoRoom /\ engine'.status = "error" /\ ~engine'.joined
      BY <1>2, <3>1 DEF EngineRows
    <3>6. QED
      BY <2>1, <3>2, <3>4, <3>5
  <2>2. CASE engine.room # c.room
    <3>1. engine' = [engine EXCEPT !.connecting = k] /\ UNCHANGED <<mic, capture>>
      BY <1>6, <2>2 DEF Voice!ConnectFailed
    <3>2. QED
      BY <1>2, <1>6, <2>2, <3>1 DEF EngineRows
  <2>3. QED
    BY <2>1, <2>2
<1>8. engine.spare \in Nat
  BY <1>2 DEF EngineRows
<1>9. EngineFit'
  <2>1. CASE engine.room = c.room
    BY <1>1, <1>4, <1>7, <1>8, <2>1 DEF EngineFit, Seated, Voice!InRoomStatus, Voice!NoRoom
  <2>2. CASE engine.room # c.room
    BY <1>1, <1>4, <1>7, <1>8, <2>2 DEF EngineFit, Seated, Voice!InRoomStatus, Voice!NoRoom
  <2>3. QED
    BY <2>1, <2>2
<1>10. \A d \in calls \ {c} : JoinFit(d)'
  <2> SUFFICES ASSUME NEW d \in calls \ {c} PROVE JoinFit(d)'
    OBVIOUS
  <2>1. JoinFit(d) /\ (d.room # Voice!NoRoom => d.room # c.room)
    BY <1>1 DEF GoodVoice, RoomFit, JoinsFit
  <2>2. d.room # Voice!NoRoom => d.room \in Voice!Rooms
    BY <1>2 DEF Joins, Voice!Rooms, Voice!NoRoom
  <2>3. d.room # Voice!NoRoom => link'[d.room] = link[d.room]
    BY <1>5, <2>1, <2>2
  <2>4. engine'.status = engine.status \/ engine.status \in Seated
    BY <1>1, <1>4, <1>7 DEF EngineFit
  <2>5. QED
    BY <1>1, <1>6, <1>7, <2>1, <2>3, <2>4 DEF JoinFit, Seated
<1>11. JoinsFit'
  BY <1>1, <1>10 DEF GoodVoice, RoomFit, JoinsFit
<1>12. capture' \in [Voice!Rooms -> BOOLEAN]
       /\ \A x \in Voice!Rooms : capture'[x] => capture[x] /\ (engine.room = c.room => x # c.room)
  BY <1>2, <1>3, <1>7 DEF Voice!Silenced
<1>13. Voice!OneSeat' /\ Voice!NoHotMic'
  BY <1>1, <1>5, <1>7, <1>12 DEF GoodVoice, RoomFit, Voice!OneSeat, Voice!NoHotMic, Voice!Rooms
<1>14. MicFit' /\ mic' \in Mics
  <2>1. CASE engine.room = c.room
    BY <1>2, <1>7, <2>1, MicResets
  <2>2. CASE engine.room # c.room
    BY <1>1, <1>2, <1>7, <2>2 DEF GoodVoice, MicFit, Voice!MicTold
  <2>3. QED
    BY <2>1, <2>2
<1>15. VoiceShape'
  BY <1>1, <1>5, <1>7, <1>12, <1>14 DEF GoodVoice, VoiceShape, Voice!Rooms
<1>16. QED
  BY <1>1, <1>9, <1>11, <1>13, <1>14, <1>15, SoundUntouched DEF GoodVoice, RoomFit

LEMMA DisconnectedKeeps ==
    ASSUME GoodVoice, MaxRooms \in Nat, Voice!Disconnected
    PROVE  GoodVoice'
<1>1. /\ engine.room # Voice!NoRoom /\ capture' = Voice!Silenced(engine.room) /\ mic' = Voice!ResetMic
      /\ UNCHANGED <<feed, calls, leaving, micOps, audio, renders>>
  BY DEF Voice!Disconnected, Voice!audioVars
<1>2. /\ engine \in EngineRows /\ calls \subseteq Joins /\ mic \in Mics /\ EngineFit
      /\ link \in [Voice!Rooms -> {"down", "connecting", "up", "re"}] /\ capture \in [Voice!Rooms -> BOOLEAN]
  BY DEF GoodVoice, VoiceShape, RoomFit
<1>3. engine.room \in Voice!Rooms /\ Voice!NoRoom \in 0 .. MaxRooms /\ engine.spare \in Nat
  BY <1>1, <1>2 DEF EngineRows, Voice!Rooms, Voice!NoRoom
<1>4. PICK elsewhere \in BOOLEAN, after \in {"down", link[engine.room]} \ {"up", "re"} :
        /\ link' = [link EXCEPT ![engine.room] = after]
        /\ engine' = [Voice!Unseated EXCEPT
             !.refusal = IF elsewhere THEN "elsewhere" ELSE IF ~engine.joined THEN "failed" ELSE @,
             !.status = IF ~elsewhere /\ ~engine.joined THEN "error" ELSE "disconnected"]
  BY DEF Voice!Disconnected
<1>5. PICK why \in {"none"} \cup Voice!NoneReasons, s \in {"error", "disconnected"} :
        engine' = [engine EXCEPT !.room = Voice!NoRoom, !.joined = FALSE, !.refusal = why, !.status = s]
  <2>1. engine.refusal \in {"none"} \cup Voice!NoneReasons /\ {"elsewhere", "failed"} \subseteq Voice!NoneReasons
    BY <1>2 DEF EngineRows, Voice!NoneReasons
  <2>2. Voice!Unseated = [engine EXCEPT !.room = Voice!NoRoom, !.joined = FALSE] /\ Voice!Unseated.refusal = engine.refusal
    BY <1>2 DEF Voice!Unseated, EngineRows
  <2>3. CASE elsewhere
    BY <1>4, <2>1, <2>2, <2>3
  <2>4. CASE ~elsewhere /\ ~engine.joined
    BY <1>4, <2>1, <2>2, <2>4
  <2>5. CASE ~elsewhere /\ engine.joined
    BY <1>4, <2>1, <2>2, <2>5
  <2>6. QED
    BY <2>3, <2>4, <2>5
<1>6. engine' \in EngineRows
  BY <1>2, <1>3, <1>5 DEF EngineRows, Voice!EngineStatus
<1>7. /\ engine'.seq = engine.seq /\ engine'.made = engine.made /\ engine'.spare = engine.spare
      /\ engine'.connecting = engine.connecting /\ engine'.room = Voice!NoRoom /\ ~engine'.joined
      /\ engine'.status \in {"error", "disconnected"}
  BY <1>2, <1>5 DEF EngineRows
<1>8. /\ link' \in [Voice!Rooms -> {"down", "connecting", "up", "re"}]
      /\ \A x \in Voice!Rooms : x # engine.room => link'[x] = link[x]
      /\ link'[engine.room] \in {"down", "connecting"}
  BY <1>2, <1>3, <1>4
<1>9. EngineFit'
  BY <1>1, <1>2, <1>3, <1>7 DEF EngineFit, Seated, Voice!InRoomStatus, Voice!NoRoom
<1>10. \A d \in calls : JoinFit(d)'
  <2> SUFFICES ASSUME NEW d \in calls PROVE JoinFit(d)'
    OBVIOUS
  <2>1. JoinFit(d) /\ engine.status \in Seated
    BY <1>1, <1>2 DEF GoodVoice, RoomFit, JoinsFit, EngineFit
  <2>2. d.room # Voice!NoRoom => d.room \in Voice!Rooms
    BY <1>2 DEF Joins, Voice!Rooms, Voice!NoRoom
  <2>3. d.room # Voice!NoRoom => link'[d.room] \in {"connecting", "down"}
    BY <1>8, <2>1, <2>2 DEF JoinFit
  <2>4. QED
    BY <1>1, <1>7, <2>1, <2>3 DEF JoinFit, Seated
<1>11. JoinsFit'
  BY <1>1, <1>10 DEF GoodVoice, RoomFit, JoinsFit
<1>12. capture' \in [Voice!Rooms -> BOOLEAN]
       /\ \A x \in Voice!Rooms : capture'[x] => capture[x] /\ x # engine.room
  BY <1>1, <1>2, <1>3 DEF Voice!Silenced
<1>13. Voice!OneSeat' /\ Voice!NoHotMic'
  BY <1>1, <1>7, <1>8, <1>12 DEF GoodVoice, RoomFit, Voice!OneSeat, Voice!NoHotMic, Voice!Rooms
<1>14. MicFit' /\ mic' \in Mics
  BY <1>1, <1>2, <1>7, MicResets
<1>15. VoiceShape'
  BY <1>1, <1>6, <1>8, <1>12, <1>14 DEF GoodVoice, VoiceShape, Voice!Rooms
<1>16. QED
  BY <1>1, <1>9, <1>11, <1>13, <1>14, <1>15, SoundUntouched DEF GoodVoice, RoomFit

LEMMA LinkMovesKeep ==
    ASSUME GoodVoice, Voice!Reconnecting \/ Voice!Reconnected
    PROVE  GoodVoice'
<1>1. PICK was \in {"up", "re"}, now \in {"up", "re"} :
        /\ engine.room # Voice!NoRoom /\ link[engine.room] = was
        /\ link' = [link EXCEPT ![engine.room] = now]
        /\ engine' = [engine EXCEPT !.status = IF now = "up" THEN "connected" ELSE "reconnecting"]
        /\ now = "up" => mic' = Voice!RefreshMic(mic, capture[engine.room])
        /\ now = "re" => engine.joined /\ UNCHANGED mic
  BY DEF Voice!Reconnecting, Voice!Reconnected, Voice!micVars
<1>2. UNCHANGED <<feed, calls, leaving, capture, micOps, audio, renders>>
  BY DEF Voice!Reconnecting, Voice!Reconnected, Voice!micVars, Voice!audioVars
<1>3. /\ engine \in EngineRows /\ calls \subseteq Joins /\ mic \in Mics /\ EngineFit
      /\ link \in [Voice!Rooms -> {"down", "connecting", "up", "re"}] /\ capture \in [Voice!Rooms -> BOOLEAN]
  BY DEF GoodVoice, VoiceShape, RoomFit
<1>4. engine.room \in Voice!Rooms
  BY <1>1, <1>3 DEF EngineRows, Voice!Rooms, Voice!NoRoom
<1>5. PICK s \in Voice!InRoomStatus : engine' = [engine EXCEPT !.status = s]
  BY <1>1 DEF Voice!InRoomStatus
<1>6. engine' \in EngineRows
  BY <1>3, <1>5 DEF EngineRows, Voice!EngineStatus, Voice!InRoomStatus
<1>7. /\ engine'.seq = engine.seq /\ engine'.made = engine.made /\ engine'.spare = engine.spare
      /\ engine'.connecting = engine.connecting /\ engine'.room = engine.room /\ engine'.joined = engine.joined
      /\ engine'.status \in Voice!InRoomStatus
  BY <1>3, <1>5 DEF EngineRows
<1>8. /\ link' \in [Voice!Rooms -> {"down", "connecting", "up", "re"}]
      /\ \A x \in Voice!Rooms : x # engine.room => link'[x] = link[x]
  BY <1>1, <1>3, <1>4
<1>9. EngineFit'
  BY <1>1, <1>2, <1>3, <1>7 DEF EngineFit, Seated, Voice!InRoomStatus
<1>10. \A d \in calls : JoinFit(d)'
  <2> SUFFICES ASSUME NEW d \in calls PROVE JoinFit(d)'
    OBVIOUS
  <2>1. JoinFit(d) /\ engine.status \in Seated /\ d.room # engine.room
    BY <1>1, <1>3, JoinedAlone DEF GoodVoice, RoomFit, JoinsFit, EngineFit
  <2>2. d.room # Voice!NoRoom => d.room \in Voice!Rooms
    BY <1>3 DEF Joins, Voice!Rooms, Voice!NoRoom
  <2>3. d.room # Voice!NoRoom => link'[d.room] = link[d.room]
    BY <1>8, <2>1, <2>2
  <2>4. QED
    BY <1>2, <1>7, <2>1, <2>3 DEF JoinFit, Seated
<1>11. JoinsFit'
  BY <1>2, <1>10 DEF GoodVoice, RoomFit, JoinsFit
<1>12. Voice!OneSeat' /\ Voice!NoHotMic'
  BY <1>2, <1>4, <1>7, <1>8 DEF GoodVoice, RoomFit, Voice!OneSeat, Voice!NoHotMic, Voice!Rooms
<1>13. MicFit' /\ mic' \in Mics
  <2>1. CASE now = "up"
    <3>1. mic' = Voice!RefreshMic(mic, capture'[engine.room])
      BY <1>1, <1>2, <2>1
    <3>2. QED
      BY <1>1, <1>2, <1>3, <1>7, <3>1, MicFollows
  <2>2. CASE now = "re"
    BY <1>1, <1>2, <1>3, <1>7, <2>2 DEF GoodVoice, MicFit, Voice!MicTold, EngineFit
  <2>3. QED
    BY <2>1, <2>2
<1>14. VoiceShape'
  BY <1>2, <1>6, <1>8, <1>13 DEF GoodVoice, VoiceShape, Voice!Rooms
<1>15. QED
  BY <1>2, <1>9, <1>11, <1>12, <1>13, <1>14, SoundUntouched DEF GoodVoice, RoomFit

LEMMA MicLostKeeps ==
    ASSUME GoodVoice, Voice!MicLost
    PROVE  GoodVoice'
<1>1. /\ engine.room # Voice!NoRoom /\ capture' = Voice!Silenced(engine.room)
      /\ mic' = Voice!RefreshMic(mic, FALSE)
      /\ UNCHANGED <<feed, engine, calls, leaving, link, micOps, audio, renders>>
  BY DEF Voice!MicLost, Voice!roomVars, Voice!audioVars
<1>2. /\ engine \in EngineRows /\ mic \in Mics /\ capture \in [Voice!Rooms -> BOOLEAN]
  BY DEF GoodVoice, VoiceShape
<1>3. engine.room \in Voice!Rooms
  BY <1>1, <1>2 DEF EngineRows, Voice!Rooms, Voice!NoRoom
<1>4. /\ capture' \in [Voice!Rooms -> BOOLEAN] /\ capture'[engine.room] = FALSE
      /\ \A x \in Voice!Rooms : capture'[x] => capture[x]
  BY <1>1, <1>2, <1>3 DEF Voice!Silenced
<1>5. RoomFit'
  BY <1>1, <1>4 DEF GoodVoice, RoomFit, EngineFit, JoinsFit, JoinFit, Voice!OneSeat, Voice!NoHotMic, Voice!Rooms,
         Voice!NoRoom, Voice!InRoomStatus, Seated
<1>6. mic' = Voice!RefreshMic(mic, capture'[engine.room])
  BY <1>1, <1>4
<1>7. MicFit' /\ mic' \in Mics
  BY <1>1, <1>4, <1>6, MicFollows
<1>8. QED
  BY <1>1, <1>4, <1>5, <1>7, SoundUntouched DEF GoodVoice, VoiceShape, Voice!Rooms

-----------------------------------------------------------------------------
(* The page and its leave. *)

LEMMA CloseKeeps ==
    ASSUME GoodVoice, Voice!Close
    PROVE  GoodVoice'
<1>1. /\ feed.open /\ feed' = [feed EXCEPT !.open = FALSE]
      /\ UNCHANGED <<calls, link, capture, mic, micOps, renders>>
  BY DEF Voice!Close, Voice!micVars
<1>2. /\ feed \in Voice!Feeds /\ engine \in EngineRows /\ audio \in Sounds /\ calls \subseteq Joins /\ EngineFit
      /\ leaving.at = "no" /\ leaving.room = Voice!NoRoom /\ leaving \in Voice!Leavings
  BY <1>1 DEF GoodVoice, VoiceShape, RoomFit, EngineFit
<1>3. feed' \in Voice!Feeds /\ ~feed'.open /\ feed'.boot = feed.boot
  BY <1>1, <1>2 DEF Voice!Feeds
<1>4. /\ engine' \in EngineRows /\ engine'.made = engine.made /\ engine'.status = engine.status
      /\ engine'.spare = engine.spare /\ engine'.connecting = engine.connecting
      /\ engine'.room = Voice!NoRoom /\ ~engine'.joined
      /\ engine.made => engine'.seq = engine.seq + 1
  <2>1. CASE engine.made
    <3>1. engine.seq + 1 \in Nat /\ Voice!NoRoom \in 0 .. MaxRooms
      BY <1>2 DEF EngineRows, Voice!Leavings
    <3>2. engine' = [engine EXCEPT !.room = Voice!NoRoom, !.joined = FALSE, !.seq = @ + 1]
      BY <1>2, <2>1 DEF Voice!Close, Voice!Unseated, EngineRows
    <3>3. engine' \in EngineRows
      BY <1>2, <3>1, <3>2 DEF EngineRows
    <3>4. QED
      BY <1>2, <3>2, <3>3 DEF EngineRows
  <2>2. CASE ~engine.made
    BY <1>2, <2>2 DEF Voice!Close, EngineFit
  <2>3. QED
    BY <2>1, <2>2
<1>5. leaving' \in Voice!Leavings /\ leaving'.at # "no" /\ (engine.made => leaving'.room = engine.room)
  <2>1. CASE ~engine.made
    BY <1>2, <2>1 DEF Voice!Close, Voice!Leavings
  <2>2. CASE engine.made /\ engine.room = Voice!NoRoom
    <3>1. leaving' = [leaving EXCEPT !.at = "close", !.room = Voice!NoRoom]
      BY <2>2 DEF Voice!Close, Voice!LetGo
    <3>2. QED
      BY <1>2, <2>2, <3>1 DEF Voice!Leavings
  <2>3. CASE engine.made /\ engine.room # Voice!NoRoom
    <3>1. leaving' = [at |-> "disconnect", room |-> engine.room]
      BY <2>3 DEF Voice!Close
    <3>2. QED
      BY <1>2, <2>3, <3>1 DEF Voice!Leavings, EngineRows
  <2>4. QED
    BY <2>1, <2>2, <2>3
<1>6. audio' \in Sounds
  <2>1. audio.reverbSeq + 1 \in Nat
    BY <1>2 DEF Sounds
  <2>2. [audio EXCEPT !.reverbSeq = @ + 1] \in Sounds
    BY <1>2, <2>1 DEF Sounds
  <2>3. \A x \in Sounds : Voice!AudioLetGo(x) \in Sounds
    BY DEF Voice!AudioLetGo, Sounds
  <2>4. \/ audio' = audio \/ audio' = [audio EXCEPT !.reverbSeq = @ + 1]
        \/ audio' = Voice!AudioLetGo([audio EXCEPT !.reverbSeq = @ + 1])
    BY DEF Voice!Close, Voice!LetGo
  <2>5. QED
    BY <1>2, <2>2, <2>3, <2>4
<1>7. VoiceShape'
  BY <1>1, <1>3, <1>4, <1>5, <1>6 DEF GoodVoice, VoiceShape, Voice!Rooms
<1>8. engine.seq \in Nat /\ engine.spare \in Nat
  BY <1>2 DEF EngineRows
<1>9. EngineFit'
  BY <1>1, <1>2, <1>3, <1>4, <1>5, <1>8 DEF EngineFit, Voice!NoRoom
<1>10. \A d \in calls : JoinFit(d)'
  <2> SUFFICES ASSUME NEW d \in calls PROVE JoinFit(d)'
    OBVIOUS
  <2>1. JoinFit(d) /\ engine.made /\ d.seq \in Nat
    BY <1>2 DEF GoodVoice, RoomFit, JoinsFit, EngineFit, Joins
  <2>2. QED
    BY <1>1, <1>4, <1>8, <2>1 DEF JoinFit
<1>11. JoinsFit'
  BY <1>1, <1>10 DEF GoodVoice, RoomFit, JoinsFit
<1>12. Voice!OneSeat' /\ Voice!NoHotMic'
  BY <1>1, <1>2, <1>4, <1>5 DEF GoodVoice, RoomFit, EngineFit, Voice!OneSeat, Voice!NoHotMic, Voice!Rooms, Voice!NoRoom
<1>13. MicFit' /\ SoundFit'
  BY <1>3, <1>4, <1>5 DEF MicFit, SoundFit, Voice!MicTold, Voice!SoundTold
<1>14. QED
  BY <1>7, <1>9, <1>11, <1>12, <1>13 DEF GoodVoice, RoomFit

LEMMA LeaveKeeps ==
    ASSUME GoodVoice, Voice!LeaveRoom \/ Voice!LeaveAudio
    PROVE  GoodVoice'
<1>1. /\ feed \in Voice!Feeds /\ engine \in EngineRows /\ audio \in Sounds /\ calls \subseteq Joins /\ EngineFit
      /\ leaving \in Voice!Leavings /\ capture \in [Voice!Rooms -> BOOLEAN]
      /\ link \in [Voice!Rooms -> {"down", "connecting", "up", "re"}]
  BY DEF GoodVoice, VoiceShape, RoomFit
<1>2. /\ UNCHANGED <<feed, calls, mic, micOps, renders>> /\ ~feed.open
      /\ engine.room = Voice!NoRoom /\ ~engine.joined
  BY <1>1 DEF Voice!LeaveRoom, Voice!LeaveAudio, Voice!micVars, EngineFit
<1>3. CASE Voice!LeaveRoom
  <2>1. /\ UNCHANGED engine /\ link' = [link EXCEPT ![leaving.room] = "down"]
        /\ capture' = [capture EXCEPT ![leaving.room] = FALSE]
        /\ audio' = [audio EXCEPT !.unlock = FALSE, !.ctx = "none"]
        /\ leaving' = [leaving EXCEPT !.at = "close", !.room = Voice!NoRoom]
    BY <1>3 DEF Voice!LeaveRoom, Voice!LetGo, Voice!AudioLetGo, Voice!Silenced
  <2>2. audio' \in Sounds
    BY <1>1, <2>1 DEF Sounds
  <2>3. leaving' \in Voice!Leavings /\ leaving'.at = "close" /\ leaving'.room = Voice!NoRoom
    <3>1. Voice!NoRoom \in 0 .. MaxRooms
      BY <1>1, <1>2 DEF EngineRows
    <3>2. QED
      BY <1>1, <2>1, <3>1 DEF Voice!Leavings
  <2>4. /\ link' \in [Voice!Rooms -> {"down", "connecting", "up", "re"}]
        /\ \A x \in Voice!Rooms : link'[x] = IF x = leaving.room THEN "down" ELSE link[x]
    BY <1>1, <2>1
  <2>5. /\ capture' \in [Voice!Rooms -> BOOLEAN]
        /\ \A x \in Voice!Rooms : capture'[x] => capture[x] /\ x # leaving.room
    BY <1>1, <2>1
  <2>6. VoiceShape'
    BY <1>1, <1>2, <2>1, <2>2, <2>3, <2>4, <2>5 DEF GoodVoice, VoiceShape, Voice!Rooms
  <2>7. EngineFit'
    BY <1>1, <1>2, <2>1, <2>3 DEF EngineFit
  <2>8. \A d \in calls : JoinFit(d)'
    <3> SUFFICES ASSUME NEW d \in calls PROVE JoinFit(d)'
      OBVIOUS
    <3>1. JoinFit(d) /\ (d.room # Voice!NoRoom => d.room \in Voice!Rooms)
      BY <1>1 DEF GoodVoice, RoomFit, JoinsFit, Joins, Voice!Rooms, Voice!NoRoom
    <3>2. QED
      BY <1>2, <2>1, <2>4, <3>1 DEF JoinFit
  <2>9. JoinsFit'
    BY <1>2, <2>8 DEF GoodVoice, RoomFit, JoinsFit
  <2>10. Voice!OneSeat' /\ Voice!NoHotMic'
    BY <1>2, <2>1, <2>4, <2>5 DEF GoodVoice, RoomFit, Voice!OneSeat, Voice!NoHotMic, Voice!Rooms
  <2>11. MicFit' /\ SoundFit'
    BY <1>2, <2>1, <2>3 DEF MicFit, SoundFit, Voice!MicTold, Voice!SoundTold
  <2>12. QED
    BY <2>6, <2>7, <2>9, <2>10, <2>11 DEF GoodVoice, RoomFit
<1>4. CASE Voice!LeaveAudio
  <2>1. /\ leaving.at = "close" /\ leaving' = [leaving EXCEPT !.at = "done"]
        /\ engine' = [engine EXCEPT !.status = "idle"]
        /\ audio' = [audio EXCEPT !.blocked = FALSE, !.reverb = "off"]
        /\ UNCHANGED <<link, capture>>
    BY <1>4 DEF Voice!LeaveAudio, Voice!micVars
  <2>2. audio' \in Sounds
    BY <1>1, <2>1 DEF Sounds
  <2>3. leaving' \in Voice!Leavings /\ leaving'.at = "done" /\ leaving'.room = leaving.room
    BY <1>1, <2>1 DEF Voice!Leavings
  <2>4. /\ engine' \in EngineRows /\ engine'.status = "idle" /\ engine'.made = engine.made
        /\ engine'.seq = engine.seq /\ engine'.room = engine.room /\ engine'.spare = engine.spare
        /\ engine'.connecting = engine.connecting /\ engine'.joined = engine.joined
    BY <1>1, <2>1 DEF EngineRows, Voice!EngineStatus
  <2>5. VoiceShape'
    BY <1>1, <1>2, <2>1, <2>2, <2>3, <2>4 DEF GoodVoice, VoiceShape, Voice!Rooms
  <2>6. EngineFit'
    BY <1>1, <1>2, <2>3, <2>4 DEF EngineFit
  <2>7. \A d \in calls : JoinFit(d)'
    BY <1>2, <2>1, <2>4 DEF GoodVoice, RoomFit, JoinsFit, JoinFit
  <2>8. JoinsFit'
    BY <1>2, <2>7 DEF GoodVoice, RoomFit, JoinsFit
  <2>9. Voice!OneSeat' /\ Voice!NoHotMic'
    BY <1>2, <2>1, <2>3, <2>4 DEF GoodVoice, RoomFit, Voice!OneSeat, Voice!NoHotMic, Voice!Rooms
  <2>10. MicFit' /\ SoundFit'
    BY <1>2, <2>3, <2>4 DEF MicFit, SoundFit, Voice!MicTold, Voice!SoundTold
  <2>11. QED
    BY <2>5, <2>6, <2>8, <2>9, <2>10 DEF GoodVoice, RoomFit
<1>5. QED
  BY <1>3, <1>4

LEMMA ButtonsKeep ==
    ASSUME GoodVoice, Voice!SceneReady \/ Voice!Enter \/ Voice!MicOnEntry \/ Voice!ToggleMic
    PROVE  GoodVoice'
<1>1. CASE Voice!SceneReady \/ Voice!Enter
  <2>1. UNCHANGED <<feed, engine, calls, leaving, link, capture, mic, micOps, audio, renders>>
    BY <1>1 DEF Voice!SceneReady, Voice!Enter, Voice!roomVars, Voice!micVars, Voice!audioVars
  <2>2. QED
    BY <2>1, RoomUntouched, MicUntouched, SoundUntouched DEF GoodVoice, VoiceShape, Voice!Rooms
<1>2. CASE Voice!MicOnEntry \/ Voice!ToggleMic
  <2>1. /\ feed.open /\ Voice!Available /\ ~mic.pending /\ Voice!SetMic(mic.muted)
        /\ UNCHANGED <<feed, engine, calls, leaving, link, capture, audio, renders>>
    <3>1. mic.muted \in BOOLEAN
      BY DEF GoodVoice, VoiceShape, Mics
    <3>2. CASE Voice!MicOnEntry
      <4>1. mic.muted = TRUE /\ Voice!SetMic(TRUE)
        BY <3>1, <3>2 DEF Voice!MicOnEntry
      <4>2. Voice!SetMic(mic.muted)
        BY <4>1
      <4>3. QED
        BY <3>2, <4>2 DEF Voice!MicOnEntry, Voice!roomVars, Voice!audioVars
    <3>3. CASE Voice!ToggleMic
      BY <3>3 DEF Voice!ToggleMic, Voice!roomVars, Voice!audioVars
    <3>4. QED
      BY <1>2, <3>2, <3>3
  <2>2. mic.muted \in BOOLEAN
    BY DEF GoodVoice, VoiceShape, Mics
  <2>3. PICK live \in BOOLEAN : live = mic.muted
    BY <2>2
  <2>4. Voice!SetMic(live)
    BY <2>1, <2>3
  <2>5. QED
    BY <2>1, <2>3, <2>4, SetMicKeeps
<1>3. QED
  BY <1>1, <1>2

-----------------------------------------------------------------------------
LEMMA VoiceStarts ==
    ASSUME MaxJoins \in Nat, MaxRooms \in Nat, Voice!Init
    PROVE  GoodVoice
<1>1. feed \in Voice!Feeds /\ leaving \in Voice!Leavings
  BY DEF Voice!Init, Voice!Feeds, Voice!Leavings, Voice!NoRoom
<1>2. engine \in EngineRows
  BY DEF Voice!Init, EngineRows, Voice!EngineStatus, Voice!NoRoom
<1>3. mic \in Mics /\ audio \in Sounds
  BY DEF Voice!Init, Mics, Sounds, Voice!MicProblems
<1>4. VoiceShape
  BY <1>1, <1>2, <1>3 DEF Voice!Init, VoiceShape
<1>5. RoomFit
  BY DEF Voice!Init, RoomFit, EngineFit, JoinsFit, JoinFit, Voice!OneSeat, Voice!NoHotMic, Voice!NoRoom, Seated,
         Voice!InRoomStatus
<1>6. MicFit /\ SoundFit
  BY DEF Voice!Init, MicFit, SoundFit, Voice!MicTold, Voice!SoundTold, Voice!NoRoom
<1>7. QED
  BY <1>4, <1>5, <1>6 DEF GoodVoice

LEMMA VoiceStepKeeps ==
    ASSUME MaxJoins \in Nat, MaxRooms \in Nat, GoodVoice, [Voice!Next]_Voice!vars
    PROVE  GoodVoice'
<1>1. CASE UNCHANGED Voice!vars
  <2>1. UNCHANGED <<feed, engine, calls, leaving, link, capture, mic, micOps, audio, renders>>
    BY <1>1 DEF Voice!vars, Voice!roomVars, Voice!micVars, Voice!audioVars
  <2>2. QED
    BY <2>1, RoomUntouched, MicUntouched, SoundUntouched DEF GoodVoice, VoiceShape, Voice!Rooms
<1>2. CASE Voice!Mount \/ Voice!Rejoin \/ Voice!AutoRetry
  BY <1>2, ConnectKeeps DEF Voice!Mount, Voice!Rejoin, Voice!AutoRetry
<1>3. CASE Voice!GrantAnswered \/ Voice!EngineLoaded
  BY <1>3, GrantKeeps, LoadKeeps
<1>4. CASE \E c \in calls : Voice!TokenAnswered(c) \/ Voice!ConnectSettled(c)
  BY <1>4, TokenEndsKeep, TokenKeeps, ConnectedKeeps, ConnectFailedKeeps
     DEF Voice!TokenAnswered, Voice!ConnectSettled
<1>5. CASE Voice!Disconnected \/ Voice!Reconnecting \/ Voice!Reconnected \/ Voice!MicLost
  BY <1>5, DisconnectedKeeps, LinkMovesKeep, MicLostKeeps
<1>6. CASE \E o \in micOps : Voice!MicSettled(o)
  BY <1>6, MicSettles
<1>7. CASE Voice!ContextChanges \/ Voice!TurnOnSound \/ (\E s \in renders : Voice!ReverbRendered(s))
             \/ Voice!ReloadReverb \/ Voice!RebuildAudio
  BY <1>7, SoundStepKeeps
<1>8. CASE Voice!SceneReady \/ Voice!Enter \/ Voice!MicOnEntry \/ Voice!ToggleMic
  BY <1>8, ButtonsKeep
<1>9. CASE Voice!Close \/ Voice!LeaveRoom \/ Voice!LeaveAudio
  BY <1>9, CloseKeeps, LeaveKeeps
<1>10. QED
  BY <1>1, <1>2, <1>3, <1>4, <1>5, <1>6, <1>7, <1>8, <1>9 DEF Voice!Next

LEMMA VoiceIsGood ==
    ASSUME MaxJoins \in Nat, MaxRooms \in Nat
    PROVE  Voice!Spec => []GoodVoice
<1>1. Voice!Init => GoodVoice
  BY VoiceStarts
<1>2. GoodVoice /\ [Voice!Next]_Voice!vars => GoodVoice'
  BY VoiceStepKeeps
<1>3. QED
  BY <1>1, <1>2, PTL DEF Voice!Spec

(* Every state of the voice room has the shape its module says.            *)
THEOREM VoiceTypes ==
    ASSUME MaxJoins \in Nat, MaxRooms \in Nat
    PROVE  Voice!Spec => []Voice!TypeOK
<1>1. GoodVoice => Voice!TypeOK
  <2> SUFFICES ASSUME GoodVoice PROVE Voice!TypeOK
    OBVIOUS
  <2>1. /\ engine.status \in Voice!EngineStatus /\ engine.refusal \in {"none"} \cup Voice!NoneReasons
        /\ {engine.room, engine.spare, engine.connecting} \subseteq 0 .. MaxRooms
    BY DEF GoodVoice, VoiceShape, EngineRows
  <2>2. mic.problem \in Voice!MicProblems
    BY DEF GoodVoice, VoiceShape, Mics
  <2>3. engine.joined => engine.room # Voice!NoRoom
    BY DEF GoodVoice, RoomFit, EngineFit
  <2>4. QED
    BY <2>1, <2>2, <2>3 DEF GoodVoice, VoiceShape, Joins, Voice!TypeOK
<1>2. QED
  BY <1>1, VoiceIsGood, PTL

(* One member takes one seat: however an eviction, a rejoin, a late answer *)
(* and the page's unmount interleave, a Room stays connected only while it *)
(* is the one the engine is in or the one leave() is letting go of.        *)
THEOREM OneSeatOnly ==
    ASSUME MaxJoins \in Nat, MaxRooms \in Nat
    PROVE  Voice!Spec => []Voice!OneSeat
<1>1. GoodVoice => Voice!OneSeat
  BY DEF GoodVoice, RoomFit
<1>2. QED
  BY <1>1, VoiceIsGood, PTL

(* Nobody's microphone captures outside the room they are shown to be in,  *)
(* whenever the browser's answer to setMicrophoneEnabled comes.            *)
THEOREM NoMicLeftHot ==
    ASSUME MaxJoins \in Nat, MaxRooms \in Nat
    PROVE  Voice!Spec => []Voice!NoHotMic
<1>1. GoodVoice => Voice!NoHotMic
  BY DEF GoodVoice, RoomFit
<1>2. QED
  BY <1>1, VoiceIsGood, PTL

(* The Mic button says what the room says, or an answer is coming that     *)
(* will settle it.                                                         *)
THEOREM MicIsTold ==
    ASSUME MaxJoins \in Nat, MaxRooms \in Nat
    PROVE  Voice!Spec => []Voice!MicTold
<1>1. GoodVoice => Voice!MicTold
  BY DEF GoodVoice, MicFit
<1>2. QED
  BY <1>1, VoiceIsGood, PTL

(* The reverb the panel waits for is being rendered, and sound held back   *)
(* has a gesture listener that would start it.                             *)
THEOREM SoundIsTold ==
    ASSUME MaxJoins \in Nat, MaxRooms \in Nat
    PROVE  Voice!Spec => []Voice!SoundTold
<1>1. GoodVoice => Voice!SoundTold
  BY DEF GoodVoice, SoundFit
<1>2. QED
  BY <1>1, VoiceIsGood, PTL

-----------------------------------------------------------------------------
(* One request through this origin's server. *)

VARIABLES server, visitor, req, backend, notice

Bff == INSTANCE BffForward WITH who <- visitor, api <- backend, page <- notice

(* What this server answers by itself, and what the API's answer may be.   *)
Refusals ==
    {"not_found", "bad_origin", "not_configured", "practice_session", "unauthenticated",
     "too_large", "unsupported_media_type", "host_error"}

Underway ==
    [st : {"asked", "sent", "served", "late", "answered"},
     answer : Refusals \cup {"none", "ok", "5xx", "refused", "service_unreachable",
                             "upstream_timeout"},
     route : Bff!Routes, origin : {"ours", "sec-fetch", "other"}, listed : BOOLEAN,
     body : {"json", "other", "large", "none"}, as : Bff!Sessions]

(* A call out is vouched for as VouchedOnly says; the API has acted only   *)
(* on a call that went out, and an answer that rules that out is an answer *)
(* to a call it did not act on, or that was cut off.                       *)
CallTold(r) ==
    /\ notice = "waits"
    /\ backend.by = r.route.by
    /\ r.st \in {"asked", "sent"} => ~backend.did
    /\ r.st \in {"served", "answered"} /\ r.answer = "ok" => backend.did
    /\ r.st \in {"served", "answered"} => r.answer # "none"
    /\ r.st = "served" => r.answer \in {"ok", "5xx", "refused"}
    /\ r.st = "late" => r.answer = Bff!TimedOut(r.route)
    /\ (/\ r.route.by = "forward"
        /\ r.st \in {"served", "answered"}
        /\ r.answer # "ok"
        /\ ~Bff!MayHaveHappened(r.answer)) => ~backend.did \/ backend.cut

GoodCall ==
    /\ server \in Bff!Servers
    /\ visitor \in Bff!Sessions
    /\ notice \in Bff!Words
    /\ backend \in [did : BOOLEAN, cut : BOOLEAN, by : {"none", "forward", "ledger", "upland", "files"}]
    /\ req = Bff!NoRequest \/ req \in Underway
    /\ Bff!VouchedOnly
    /\ Bff!ToldTrue
    /\ req # Bff!NoRequest => CallTold(req)

(* Every write of the tables is of a member's own.                         *)
LEMMA RoutesKnown ==
    ASSUME NEW route \in Bff!Routes
    PROVE  /\ route.by \in {"forward", "ledger", "upland", "files"}
           /\ route.method \in {"GET", "POST", "PUT", "PATCH", "DELETE"}
           /\ route.identity \in {"none", "optional", "required"}
           /\ Bff!Writes(route) => route.identity = "required" /\ route.by # "files"
           /\ route.by \in {"ledger", "upland"} => route.identity = "required"
           /\ route.by = "files" => Bff!Anonymous(route)
BY DEF Bff!Routes, Bff!BridgeRoutes, Bff!ProposalRoutes, Bff!NotificationRoutes, Bff!GrantRoutes,
       Bff!BrickRoutes, Bff!MachineRoutes, Bff!AvatarRoutes, Bff!LedgerRoutes, Bff!UplandRoutes,
       Bff!FileRoutes, Bff!R, Bff!Writes, Bff!Anonymous

(* Of checks some of which fail, one fails first.                          *)
LEMMA OneFailsFirst ==
    ASSUME NEW n \in Nat, NEW checks, DOMAIN checks = 1 .. n,
           NEW i \in 1 .. n, checks[i][1]
    PROVE  \E k \in 1 .. n : Bff!FailsAt(checks, k)
<1> DEFINE T == {k \in 1 .. n : checks[k][1]}
<1>1. T \subseteq Nat /\ T # {}
  OBVIOUS
<1>2. PICK k \in T : \A m \in T : <<m, k>> \notin OpToRel(<, Nat)
  BY <1>1, NatLessThanWellFounded, WFMin, Zenon
<1>3. \A m \in T : ~(m < k)
  BY <1>1, <1>2, Zenon DEF OpToRel
<1>4. \A j \in 1 .. k - 1 : ~checks[j][1]
  BY <1>3
<1> QED
  BY <1>4 DEF Bff!FailsAt

(* What this server answers: it passes a call on only when every check of  *)
(* its route's lets it, and else answers with one that does not.           *)
LEMMA VerdictOf ==
    ASSUME NEW n \in Nat, NEW r, NEW checks,
           Bff!ChecksOf(r) = checks, DOMAIN checks = 1 .. n,
           \A i \in 1 .. n : checks[i][2] \in Refusals
    PROVE  /\ Bff!Verdict(r) \in Refusals \cup {"forward"}
           /\ Bff!Verdict(r) = "forward" => \A i \in 1 .. n : ~checks[i][1]
<1>1. CASE \A i \in 1 .. n : ~checks[i][1]
  BY <1>1 DEF Bff!Verdict
<1>2. CASE \E i \in 1 .. n : checks[i][1]
  <2>1. \E k \in 1 .. n : Bff!FailsAt(checks, k)
    BY <1>2, OneFailsFirst
  <2> DEFINE k == CHOOSE i \in DOMAIN checks : Bff!FailsAt(checks, i)
  <2>2. k \in 1 .. n
    BY <2>1
  <2>3. Bff!Verdict(r) = checks[k][2]
    BY <1>2 DEF Bff!Verdict
  <2> HIDE DEF k
  <2>4. "forward" \notin Refusals
    BY DEF Refusals
  <2> QED
    BY <2>2, <2>3, <2>4
<1> QED
  BY <1>1, <1>2

LEMMA ForwardVerdict ==
    ASSUME NEW r, r.route.by = "forward"
    PROVE  /\ Bff!Verdict(r) \in Refusals \cup {"forward"}
           /\ Bff!Verdict(r) = "forward" =>
                LET account == IF Bff!Anonymous(r.route) THEN "none" ELSE Bff!Session
                IN  /\ ~(Bff!Writes(r.route) /\ ~Bff!SameOrigin(r))
                    /\ ~(~Bff!Anonymous(r.route) /\ server.keys = "dev")
                    /\ account # "demo"
                    /\ ~(account = "none" /\ r.route.identity = "required")
                    /\ ~(account # "none" /\ ~Bff!CanMint(account))
<1> DEFINE account == IF Bff!Anonymous(r.route) THEN "none" ELSE Bff!Session
<1> DEFINE checks ==
      << <<~r.listed, "not_found">>,
         <<Bff!Writes(r.route) /\ ~Bff!SameOrigin(r), "bad_origin">>,
         <<~Bff!Anonymous(r.route) /\ server.keys = "dev", "not_configured">>,
         <<~server.url, "not_configured">>,
         <<account = "demo", "practice_session">>,
         <<account = "none" /\ r.route.identity = "required", "unauthenticated">>,
         <<Bff!TooLarge(r), "too_large">>, <<Bff!WrongType(r), "unsupported_media_type">>,
         <<account # "none" /\ ~Bff!CanMint(account), "not_configured">> >>
<1>1. Bff!ChecksOf(r) = checks
  BY DEF Bff!ChecksOf, Bff!ForwardChecks
<1>2. DOMAIN checks = 1 .. 9
  OBVIOUS
<1>3. \A i \in 1 .. 9 : checks[i][2] \in Refusals
  BY DEF Refusals
<1>4. checks[2][1] = (Bff!Writes(r.route) /\ ~Bff!SameOrigin(r))
  OBVIOUS
<1>5. checks[3][1] = (~Bff!Anonymous(r.route) /\ server.keys = "dev")
  OBVIOUS
<1>6. checks[5][1] = (account = "demo")
  OBVIOUS
<1>7. checks[6][1] = (account = "none" /\ r.route.identity = "required")
  OBVIOUS
<1>8. checks[9][1] = (account # "none" /\ ~Bff!CanMint(account))
  OBVIOUS
<1> HIDE DEF checks
<1>9. Bff!Verdict(r) \in Refusals \cup {"forward"}
  BY <1>1, <1>2, <1>3, VerdictOf
<1>10. Bff!Verdict(r) = "forward" => \A i \in 1 .. 9 : ~checks[i][1]
  BY <1>1, <1>2, <1>3, VerdictOf
<1>11. Bff!Verdict(r) = "forward" => ~checks[2][1] /\ ~checks[3][1] /\ ~checks[5][1] /\ ~checks[6][1] /\ ~checks[9][1]
  BY <1>10
<1> QED
  BY <1>4, <1>5, <1>6, <1>7, <1>8, <1>9, <1>11

LEMMA LedgerVerdict ==
    ASSUME NEW r, r.route.by = "ledger"
    PROVE  /\ Bff!Verdict(r) \in Refusals \cup {"forward"}
           /\ Bff!Verdict(r) = "forward" =>
                /\ server.keys # "dev"
                /\ Bff!Session \notin Bff!Nobody
                /\ ~(Bff!Writes(r.route) /\ ~Bff!TrustedOrigin(r))
                /\ Bff!CanMint(Bff!Session)
<1> DEFINE checks ==
      << <<~r.listed, "not_found">>, <<server.keys = "dev", "not_configured">>,
         <<Bff!Session \in Bff!Nobody, "unauthenticated">>,
         <<Bff!Writes(r.route) /\ ~Bff!TrustedOrigin(r), "bad_origin">>,
         <<Bff!WrongType(r), "unsupported_media_type">>, <<Bff!TooLarge(r), "too_large">>,
         <<~server.url \/ ~Bff!CanMint(Bff!Session), "not_configured">> >>
<1>1. Bff!ChecksOf(r) = checks
  BY DEF Bff!ChecksOf, Bff!LedgerChecks
<1>2. DOMAIN checks = 1 .. 7
  OBVIOUS
<1>3. \A i \in 1 .. 7 : checks[i][2] \in Refusals
  BY DEF Refusals
<1>4. checks[2][1] = (server.keys = "dev")
  OBVIOUS
<1>5. checks[3][1] = (Bff!Session \in Bff!Nobody)
  OBVIOUS
<1>6. checks[4][1] = (Bff!Writes(r.route) /\ ~Bff!TrustedOrigin(r))
  OBVIOUS
<1>7. checks[7][1] = (~server.url \/ ~Bff!CanMint(Bff!Session))
  OBVIOUS
<1> HIDE DEF checks
<1>8. Bff!Verdict(r) \in Refusals \cup {"forward"}
  BY <1>1, <1>2, <1>3, VerdictOf
<1>9. Bff!Verdict(r) = "forward" => \A i \in 1 .. 7 : ~checks[i][1]
  BY <1>1, <1>2, <1>3, VerdictOf
<1>10. Bff!Verdict(r) = "forward" => ~checks[2][1] /\ ~checks[3][1] /\ ~checks[4][1] /\ ~checks[7][1]
  BY <1>9
<1> QED
  BY <1>4, <1>5, <1>6, <1>7, <1>8, <1>10

LEMMA UplandVerdict ==
    ASSUME NEW r, r.route.by = "upland"
    PROVE  /\ Bff!Verdict(r) \in Refusals \cup {"forward"}
           /\ Bff!Verdict(r) = "forward" =>
                /\ server.keys # "dev"
                /\ Bff!Session \notin Bff!Nobody
                /\ ~(Bff!Writes(r.route) /\ ~Bff!TrustedOrigin(r))
                /\ Bff!CanMint(Bff!Session)
<1> DEFINE checks ==
      << <<~r.listed, "not_found">>, <<server.keys = "dev", "not_configured">>,
         <<Bff!Session \in Bff!Nobody, "unauthenticated">>,
         <<Bff!Writes(r.route) /\ ~Bff!TrustedOrigin(r), "bad_origin">>,
         <<Bff!TooLarge(r), "too_large">>,
         <<~server.url \/ ~server.secret, "not_configured">>,
         <<~Bff!CanMint(Bff!Session), "host_error">> >>
<1>1. Bff!ChecksOf(r) = checks
  BY DEF Bff!ChecksOf, Bff!UplandChecks
<1>2. DOMAIN checks = 1 .. 7
  OBVIOUS
<1>3. \A i \in 1 .. 7 : checks[i][2] \in Refusals
  BY DEF Refusals
<1>4. checks[2][1] = (server.keys = "dev")
  OBVIOUS
<1>5. checks[3][1] = (Bff!Session \in Bff!Nobody)
  OBVIOUS
<1>6. checks[4][1] = (Bff!Writes(r.route) /\ ~Bff!TrustedOrigin(r))
  OBVIOUS
<1>7. checks[7][1] = (~Bff!CanMint(Bff!Session))
  OBVIOUS
<1> HIDE DEF checks
<1>8. Bff!Verdict(r) \in Refusals \cup {"forward"}
  BY <1>1, <1>2, <1>3, VerdictOf
<1>9. Bff!Verdict(r) = "forward" => \A i \in 1 .. 7 : ~checks[i][1]
  BY <1>1, <1>2, <1>3, VerdictOf
<1>10. Bff!Verdict(r) = "forward" => ~checks[2][1] /\ ~checks[3][1] /\ ~checks[4][1] /\ ~checks[7][1]
  BY <1>9
<1> QED
  BY <1>4, <1>5, <1>6, <1>7, <1>8, <1>10

LEMMA FilesVerdict ==
    ASSUME NEW r, r.route.by = "files"
    PROVE  Bff!Verdict(r) \in Refusals \cup {"forward"}
<1> DEFINE checks == << <<~r.listed, "not_found">>, <<~server.url, "not_configured">> >>
<1>1. Bff!ChecksOf(r) = checks
  BY DEF Bff!ChecksOf, Bff!FileChecks
<1>2. DOMAIN checks = 1 .. 2
  OBVIOUS
<1>3. \A i \in 1 .. 2 : checks[i][2] \in Refusals
  BY DEF Refusals
<1> HIDE DEF checks
<1> QED
  BY <1>1, <1>2, <1>3, VerdictOf

(* Whom a call passed on is vouched for.                                   *)
LEMMA PassedOnVouched ==
    ASSUME server \in Bff!Servers, visitor \in Bff!Sessions,
           NEW r \in Underway, Bff!Verdict(r) = "forward"
    PROVE  /\ Bff!Vouches(r) \in {"none", "github"}
           /\ Bff!Writes(r.route) => Bff!Vouches(r) = "github" /\ r.origin # "other"
           /\ Bff!Vouches(r) = "github" => server.keys = "real" /\ server.secret
<1>1. r.route \in Bff!Routes /\ r.origin \in {"ours", "sec-fetch", "other"}
  BY DEF Underway
<1>2. /\ server.keys \in {"none", "dev", "real"} /\ server.secret \in BOOLEAN
      /\ visitor \in {"none", "demo", "github", "odd"}
  BY DEF Bff!Servers, Bff!Keys, Bff!Sessions
<1>3. Bff!Session = "none" \/ (Bff!Session = visitor /\ server.keys # "none")
  BY DEF Bff!Session
<1>4. /\ r.route.by \in {"forward", "ledger", "upland", "files"}
      /\ Bff!Writes(r.route) => r.route.identity = "required" /\ r.route.by # "files"
      /\ r.route.by = "files" => Bff!Anonymous(r.route)
      /\ Bff!Writes(r.route) => ~Bff!Anonymous(r.route)
  BY <1>1, RoutesKnown DEF Bff!Anonymous, Bff!Writes
<1>5. CASE r.route.by = "forward"
  <2>1. CASE Bff!Anonymous(r.route)
    BY <1>4, <2>1 DEF Bff!Vouches
  <2>2. CASE ~Bff!Anonymous(r.route)
    <3>1. /\ Bff!Writes(r.route) => Bff!SameOrigin(r)
          /\ server.keys # "dev"
          /\ Bff!Session # "demo"
          /\ Bff!Session = "none" => r.route.identity # "required"
          /\ Bff!Session # "none" => Bff!CanMint(Bff!Session)
      BY <1>5, <2>2, ForwardVerdict
    <3>2. Bff!Vouches(r) = Bff!Session
      BY <1>5, <2>2 DEF Bff!Vouches
    <3> QED
      BY <1>1, <1>2, <1>3, <1>4, <3>1, <3>2 DEF Bff!CanMint, Bff!SameOrigin
  <2> QED
    BY <2>1, <2>2
<1>6. CASE r.route.by \in {"ledger", "upland"}
  <2>1. /\ server.keys # "dev"
        /\ Bff!Writes(r.route) => Bff!TrustedOrigin(r)
        /\ Bff!CanMint(Bff!Session)
    BY <1>6, LedgerVerdict, UplandVerdict
  <2>2. Bff!Vouches(r) \in {"none", Bff!Session}
    BY DEF Bff!Vouches
  <2>3. Bff!Writes(r.route) => Bff!Vouches(r) = Bff!Session
    BY <1>4, <1>6 DEF Bff!Vouches
  <2> QED
    BY <1>1, <1>2, <1>3, <2>1, <2>2, <2>3 DEF Bff!CanMint, Bff!TrustedOrigin
<1>7. CASE r.route.by = "files"
  BY <1>4, <1>7 DEF Bff!Vouches
<1> QED
  BY <1>4, <1>5, <1>6, <1>7

LEMMA VerdictKnown ==
    ASSUME NEW r \in Underway
    PROVE  Bff!Verdict(r) \in Refusals \cup {"forward"}
<1>1. r.route.by \in {"forward", "ledger", "upland", "files"}
  BY RoutesKnown DEF Underway
<1> QED
  BY <1>1, ForwardVerdict, LedgerVerdict, UplandVerdict, FilesVerdict

(* What a page is told of a call that has an answer.                       *)
LEMMA SaysTrue ==
    ASSUME GoodCall, req \in Underway, CallTold(req), req.st = "answered"
    PROVE  /\ Bff!Says(req.answer) \in Bff!Words
           /\ backend.by = "forward" =>
                /\ Bff!Says(req.answer) = "done" => backend.did
                /\ Bff!Says(req.answer) = "nothing changed" => ~backend.did \/ backend.cut
BY DEF CallTold, Bff!Says, Bff!Words

LEMMA IdleOrUnderway ==
    ASSUME GoodCall
    PROVE  /\ req.st \in {"idle", "asked", "sent", "served", "late", "answered"}
           /\ req.st # "idle" => req \in Underway /\ CallTold(req) /\ req # Bff!NoRequest
           /\ req.st = "idle" => req = Bff!NoRequest
BY DEF GoodCall, Underway, Bff!NoRequest

LEMMA GoodCallStep == GoodCall /\ [Bff!Next]_(Bff!vars) => GoodCall'
<1> SUFFICES ASSUME GoodCall, [Bff!Next]_(Bff!vars)
             PROVE  GoodCall'
  OBVIOUS
<1> USE IdleOrUnderway
<1>0. /\ server \in Bff!Servers /\ visitor \in Bff!Sessions /\ notice \in Bff!Words
      /\ backend \in [did : BOOLEAN, cut : BOOLEAN, by : {"none", "forward", "ledger", "upland", "files"}]
      /\ Bff!VouchedOnly /\ Bff!ToldTrue
  BY DEF GoodCall
<1>1. CASE UNCHANGED Bff!vars
  <2>1. UNCHANGED <<server, visitor, req, backend, notice>>
    BY <1>1 DEF Bff!vars
  <2>2. Bff!VouchedOnly' /\ Bff!ToldTrue' /\ (req # Bff!NoRequest => CallTold(req))'
    BY <1>0, <2>1 DEF GoodCall, Bff!VouchedOnly, Bff!ToldTrue, CallTold, Bff!Writes, Bff!NoRequest,
                      Bff!TimedOut, Bff!MayHaveHappened
  <2> QED
    BY <1>0, <2>1, <2>2 DEF GoodCall, Bff!NoRequest
<1>2. CASE Bff!Ask
  <2>1. PICK route \in Bff!Routes, origin \in {"ours", "sec-fetch", "other"}, listed \in BOOLEAN :
          \E body \in Bff!Bodies(route) :
            req' = [st |-> "asked", answer |-> "none", route |-> route, origin |-> origin,
                    listed |-> listed, body |-> body, as |-> "none"]
    BY <1>2 DEF Bff!Ask
  <2>2. PICK body \in Bff!Bodies(route) :
            req' = [st |-> "asked", answer |-> "none", route |-> route, origin |-> origin,
                    listed |-> listed, body |-> body, as |-> "none"]
    BY <2>1
  <2>3. /\ backend' = [did |-> FALSE, cut |-> FALSE, by |-> route.by]
        /\ notice' = "waits" /\ server' = server /\ visitor' = visitor
    BY <1>2, <2>2 DEF Bff!Ask
  <2>4. route.by \in {"forward", "ledger", "upland", "files"}
    BY RoutesKnown
  <2>5. body \in {"json", "other", "large", "none"}
    BY DEF Bff!Bodies
  <2>6. req' \in Underway
    BY <2>2, <2>5 DEF Underway, Bff!Sessions
  <2>7. CallTold(req)'
    BY <2>2, <2>3 DEF CallTold
  <2>8. Bff!VouchedOnly' /\ Bff!ToldTrue'
    BY <2>2, <2>3 DEF Bff!VouchedOnly, Bff!ToldTrue
  <2>9. backend' \in [did : BOOLEAN, cut : BOOLEAN, by : {"none", "forward", "ledger", "upland", "files"}]
    BY <2>3, <2>4
  <2> QED
    BY <1>0, <2>3, <2>6, <2>7, <2>8, <2>9 DEF GoodCall, Bff!Words
<1>3. CASE Bff!Handle
  <2>1. req.st = "asked" /\ UNCHANGED <<server, visitor, backend, notice>> /\ req \in Underway /\ CallTold(req)
    BY <1>3 DEF Bff!Handle
  <2>2. CASE Bff!Verdict(req) = "forward"
    <3>1. req' = [req EXCEPT !.st = "sent", !.as = Bff!Vouches(req)]
      BY <1>3, <2>2 DEF Bff!Handle
    <3>2. /\ Bff!Vouches(req) \in {"none", "github"}
          /\ Bff!Writes(req.route) => Bff!Vouches(req) = "github" /\ req.origin # "other"
          /\ Bff!Vouches(req) = "github" => server.keys = "real" /\ server.secret
      BY <1>0, <2>1, <2>2, PassedOnVouched
    <3>3. req' \in Underway
      BY <2>1, <3>1, <3>2 DEF Underway, Bff!Sessions
    <3>4. /\ req'.st = "sent" /\ req'.as = Bff!Vouches(req) /\ req'.route = req.route
          /\ req'.origin = req.origin /\ req'.answer = req.answer
      BY <2>1, <3>1 DEF Underway
    <3>5. Bff!VouchedOnly'
      BY <2>1, <3>2, <3>4 DEF Bff!VouchedOnly, Bff!Writes
    <3>6. CallTold(req)' /\ Bff!ToldTrue'
      BY <1>0, <2>1, <3>4 DEF CallTold, Bff!ToldTrue
    <3> QED
      BY <1>0, <2>1, <3>3, <3>5, <3>6 DEF GoodCall
  <2>3. CASE Bff!Verdict(req) # "forward"
    <3>1. req' = [req EXCEPT !.st = "answered", !.answer = Bff!Verdict(req)]
      BY <1>3, <2>3 DEF Bff!Handle
    <3>2. Bff!Verdict(req) \in Refusals
      BY <2>1, <2>3, VerdictKnown
    <3>3. req' \in Underway
      BY <2>1, <3>1, <3>2 DEF Underway
    <3>4. /\ req'.st = "answered" /\ req'.answer \in Refusals /\ req'.route = req.route
      BY <2>1, <3>1, <3>2 DEF Underway
    <3>5. Bff!VouchedOnly'
      BY <3>4 DEF Bff!VouchedOnly
    <3>6. CallTold(req)' /\ Bff!ToldTrue'
      BY <1>0, <2>1, <3>4 DEF CallTold, Bff!ToldTrue, Refusals
    <3> QED
      BY <1>0, <2>1, <3>3, <3>5, <3>6 DEF GoodCall
  <2> QED
    BY <2>2, <2>3
<1>4. CASE Bff!Serve
  <2>1. /\ req.st = "sent" /\ UNCHANGED <<server, visitor, notice>> /\ req \in Underway /\ CallTold(req)
        /\ \/ backend' = [backend EXCEPT !.did = TRUE] /\ req' = [req EXCEPT !.st = "served", !.answer = "ok"]
           \/ backend' = [backend EXCEPT !.did = TRUE] /\ req' = [req EXCEPT !.st = "served", !.answer = "5xx"]
           \/ backend' = backend /\ req' = [req EXCEPT !.st = "served", !.answer = "5xx"]
           \/ backend' = backend /\ req' = [req EXCEPT !.st = "served", !.answer = "refused"]
    BY <1>4 DEF Bff!Serve
  <2>2. /\ req' \in Underway
        /\ backend' \in [did : BOOLEAN, cut : BOOLEAN, by : {"none", "forward", "ledger", "upland", "files"}]
    BY <1>0, <2>1 DEF Underway
  <2>3. /\ req'.st = "served" /\ req'.route = req.route /\ req'.origin = req.origin /\ req'.as = req.as
        /\ req'.answer \in {"ok", "5xx", "refused"}
        /\ req'.answer = "ok" => backend'.did
        /\ req'.answer = "refused" => ~backend'.did
        /\ backend'.by = backend.by
    BY <1>0, <2>1 DEF Underway, CallTold
  <2>4. Bff!VouchedOnly'
    BY <1>0, <2>1, <2>3 DEF Bff!VouchedOnly, Bff!Writes
  <2>5. CallTold(req)' /\ Bff!ToldTrue'
    BY <1>0, <2>1, <2>3 DEF CallTold, Bff!ToldTrue, Bff!MayHaveHappened
  <2> QED
    BY <1>0, <2>1, <2>2, <2>4, <2>5 DEF GoodCall
<1>5. CASE Bff!PassOn
  <2>1. /\ req.st = "served" /\ UNCHANGED <<server, visitor, backend, notice>> /\ req \in Underway /\ CallTold(req)
        /\ req' = [req EXCEPT !.st = "answered"]
    BY <1>5 DEF Bff!PassOn
  <2>2. req' \in Underway /\ req'.st = "answered" /\ req'.route = req.route /\ req'.answer = req.answer
    BY <2>1 DEF Underway
  <2>3. CallTold(req)' /\ Bff!ToldTrue' /\ Bff!VouchedOnly'
    BY <1>0, <2>1, <2>2 DEF CallTold, Bff!ToldTrue, Bff!VouchedOnly, Bff!MayHaveHappened
  <2> QED
    BY <1>0, <2>1, <2>2, <2>3 DEF GoodCall
<1>6. CASE Bff!Deadline
  <2>1. /\ req.st \in {"sent", "served"} /\ UNCHANGED <<server, visitor, backend, notice>>
        /\ req \in Underway /\ CallTold(req)
        /\ req' = [req EXCEPT !.st = IF req.st = "sent" THEN "late" ELSE "answered",
                              !.answer = Bff!TimedOut(req.route)]
    BY <1>6 DEF Bff!Deadline
  <2>2. req' \in Underway
    BY <2>1 DEF Underway, Bff!TimedOut
  <2>3. /\ req'.st \in {"late", "answered"} /\ req'.route = req.route /\ req'.as = req.as
        /\ req'.origin = req.origin
        /\ req'.answer = Bff!TimedOut(req.route)
    BY <2>1 DEF Underway
  <2>4. Bff!VouchedOnly'
    BY <1>0, <2>1, <2>3 DEF Bff!VouchedOnly, Bff!Writes
  <2>5. CallTold(req)' /\ Bff!ToldTrue'
    BY <1>0, <2>1, <2>3 DEF CallTold, Bff!ToldTrue, Bff!MayHaveHappened, Bff!TimedOut
  <2> QED
    BY <1>0, <2>1, <2>2, <2>4, <2>5 DEF GoodCall
<1>7. CASE Bff!ServeLate
  <2>1. /\ req.st = "late" /\ UNCHANGED <<server, visitor, notice>> /\ req \in Underway /\ CallTold(req)
        /\ backend' = backend \/ backend' = [backend EXCEPT !.did = TRUE]
        /\ req' = [req EXCEPT !.st = "answered"]
    BY <1>7 DEF Bff!ServeLate
  <2>2. /\ req' \in Underway /\ req'.st = "answered" /\ req'.route = req.route
        /\ req'.answer = req.answer
        /\ backend' \in [did : BOOLEAN, cut : BOOLEAN, by : {"none", "forward", "ledger", "upland", "files"}]
        /\ backend'.by = backend.by
    BY <1>0, <2>1 DEF Underway
  <2>3. CallTold(req)' /\ Bff!ToldTrue' /\ Bff!VouchedOnly'
    BY <1>0, <2>1, <2>2
    DEF CallTold, Bff!ToldTrue, Bff!VouchedOnly, Bff!MayHaveHappened, Bff!TimedOut
  <2> QED
    BY <1>0, <2>1, <2>2, <2>3 DEF GoodCall
<1>8. CASE Bff!Reset
  <2>1. /\ req.st \in {"sent", "served"} /\ UNCHANGED <<server, visitor, notice>>
        /\ req \in Underway /\ CallTold(req)
        /\ backend' = [backend EXCEPT !.cut = backend.did]
        /\ req' = [req EXCEPT !.st = "answered", !.answer = "service_unreachable"]
    BY <1>8 DEF Bff!Reset
  <2>2. /\ req' \in Underway /\ req'.st = "answered" /\ req'.route = req.route
        /\ req'.answer = "service_unreachable"
        /\ backend' \in [did : BOOLEAN, cut : BOOLEAN, by : {"none", "forward", "ledger", "upland", "files"}]
        /\ backend'.by = backend.by /\ backend'.did = backend.did /\ backend'.cut = backend.did
    BY <1>0, <2>1 DEF Underway
  <2>3. CallTold(req)' /\ Bff!ToldTrue' /\ Bff!VouchedOnly'
    BY <1>0, <2>1, <2>2 DEF CallTold, Bff!ToldTrue, Bff!VouchedOnly
  <2> QED
    BY <1>0, <2>1, <2>2, <2>3 DEF GoodCall
<1>9. CASE Bff!Hears
  <2>1. /\ req.st = "answered" /\ UNCHANGED <<server, visitor, backend>> /\ req \in Underway /\ CallTold(req)
        /\ notice' = Bff!Says(req.answer) /\ req' = Bff!NoRequest
    BY <1>9 DEF Bff!Hears
  <2>2. notice' \in Bff!Words /\ Bff!ToldTrue'
    BY <2>1, SaysTrue DEF Bff!ToldTrue
  <2>3. Bff!VouchedOnly'
    BY <2>1 DEF Bff!VouchedOnly, Bff!NoRequest
  <2> QED
    BY <1>0, <2>1, <2>2, <2>3 DEF GoodCall, Bff!NoRequest
<1>10. CASE Bff!HearsNothing
  <2>1. /\ UNCHANGED <<server, visitor, backend>>
        /\ notice' = "maybe" /\ req' = Bff!NoRequest
    BY <1>10 DEF Bff!HearsNothing, Bff!Says, Bff!MayHaveHappened
  <2>2. Bff!ToldTrue' /\ Bff!VouchedOnly'
    BY <2>1 DEF Bff!VouchedOnly, Bff!NoRequest, Bff!ToldTrue
  <2> QED
    BY <1>0, <2>1, <2>2 DEF GoodCall, Bff!NoRequest, Bff!Words
<1>11. CASE Bff!SessionChanges
  <2>1. visitor' \in Bff!Sessions /\ UNCHANGED <<server, req, backend, notice>>
    BY <1>11 DEF Bff!SessionChanges
  <2>2. Bff!VouchedOnly' /\ Bff!ToldTrue' /\ (req # Bff!NoRequest => CallTold(req))'
    BY <1>0, <2>1 DEF GoodCall, Bff!VouchedOnly, Bff!ToldTrue, CallTold, Bff!Writes, Bff!NoRequest,
                      Bff!TimedOut, Bff!MayHaveHappened
  <2> QED
    BY <1>0, <2>1, <2>2 DEF GoodCall, Bff!NoRequest
<1> QED
  BY <1>1, <1>2, <1>3, <1>4, <1>5, <1>6, <1>7, <1>8, <1>9, <1>10, <1>11 DEF Bff!Next

LEMMA GoodCallStarts == Bff!Init => GoodCall
BY DEF Bff!Init, GoodCall, Bff!Servers, Bff!Words, Bff!NoRequest, Bff!VouchedOnly, Bff!ToldTrue

LEMMA GoodCallAlways == Bff!Spec => []GoodCall
BY GoodCallStarts, GoodCallStep, PTL DEF Bff!Spec

(* BffForward's variables have their types.                                *)
THEOREM CallTypes == Bff!Spec => []Bff!TypeOK
<1>1. GoodCall => Bff!TypeOK
  BY IdleOrUnderway DEF GoodCall, Bff!TypeOK
<1> QED
  BY <1>1, GoodCallAlways, PTL

(* The API acts for nobody but a member this server may vouch for, and a   *)
(* write reaches it only from a page of this origin: by any route, however *)
(* the checks are ordered, whoever signs in or out meanwhile.              *)
THEOREM OnlyVouchedFor == Bff!Spec => []Bff!VouchedOnly
<1>1. GoodCall => Bff!VouchedOnly
  BY DEF GoodCall
<1> QED
  BY <1>1, GoodCallAlways, PTL

(* What the page says of a write is so, but of one cut off once it was     *)
(* done.                                                                   *)
THEOREM OutcomeToldTrue == Bff!Spec => []Bff!ToldTrue
<1>1. GoodCall => Bff!ToldTrue
  BY DEF GoodCall
<1> QED
  BY <1>1, GoodCallAlways, PTL

-----------------------------------------------------------------------------
(* The mechanic's library. *)

CONSTANTS Blueprints, Files, MaxRoles
VARIABLES library, shown, busy, up, wire

Library == INSTANCE MachineLibrary WITH api <- library, page <- shown

Uploads ==
    [st : {"none", "reading", "sending", "finishing"}, b : Nat, file : Files,
     told : {"nothing", "failed"}, clean : {"none", "out", "served", "refused"}]

LibraryPages ==
    [access : {"out", "checking", "member", "unavailable"}, mechanic : BOOLEAN,
     who : {"none", "out", "yes", "no"}, role : Nat,
     lib : {"idle", "loading", "got", "ready", "error"},
     list : SUBSET Blueprints, items : SUBSET Blueprints]

Errands ==
    [kind : {"none", "switching", "deleting"}, b : Nat,
     st : {"none", "out", "ok", "gone", "lost"}, on : BOOLEAN]

(* What stands was in the library, and what is in either has its file.     *)
KeptWell(a) ==
    /\ a \in Library!Libraries
    /\ \A b \in Blueprints :
           a.lib[b].st = "ready" \/ b \in a.standing => a.lib[b].file \in a.files
    /\ \A b \in a.standing : a.lib[b].st \in {"ready", "gone"}

(* A blueprint is what it is by the upload that began it, and one that was *)
(* dropped or left the library never comes back to it.                     *)
Onward(a, n) ==
    \A b \in Blueprints :
        /\ a.lib[b].st # "none" => n.lib[b].st # "none"
        /\ a.lib[b].st \in {"dropped", "gone"} => n.lib[b].st \in {"dropped", "gone"}

(* The upload is of a blueprint that was started, its requests are those   *)
(* of its stage, and its clean-up, once served, stands.                    *)
UploadFit ==
    /\ up.b # 0 => up.b \in Blueprints /\ library.lib[up.b].st # "none"
    /\ wire # {} \/ up.clean # "none" \/ up.st \in {"sending", "finishing"} => up.b # 0
    /\ up.st = "reading" => up.b = 0
    /\ up.st \in {"reading", "sending"} => wire = {}
    /\ up.st = "finishing" => "delete" \notin wire
    /\ up.st # "none" => up.clean = "none"
    /\ up.clean = "served" => library.lib[up.b].st \in {"dropped", "gone"}

GoodLibrary ==
    /\ KeptWell(library)
    /\ shown \in LibraryPages
    /\ busy \in Errands
    /\ up \in Uploads
    /\ wire \subseteq {"finish", "delete"}
    /\ UploadFit

LibraryAssumption == Files # {} /\ \E n \in Nat : Blueprints = 1 .. n

LEMMA LeastOf ==
    ASSUME NEW T, T \subseteq Nat, T # {}
    PROVE  \E k \in T : \A m \in T : ~(m < k)
<1>1. PICK k \in T : \A m \in T : <<m, k>> \notin OpToRel(<, Nat)
  BY NatLessThanWellFounded, WFMin, Zenon
<1> QED
  BY <1>1, Zenon DEF OpToRel

LEMMA NoUploadFit ==
    ASSUME LibraryAssumption
    PROVE  /\ Library!NoUpload \in Uploads
           /\ Library!NoUpload.st = "none" /\ Library!NoUpload.b = 0
           /\ Library!NoUpload.clean = "none" /\ Library!NoUpload.file \in Files
BY DEF LibraryAssumption, Library!NoUpload, Uploads

LEMMA NextFits ==
    ASSUME LibraryAssumption, NEW a \in Library!Libraries, Library!RoomInLibrary(a)
    PROVE  /\ Library!NextBlueprint(a) \in Blueprints
           /\ a.lib[Library!NextBlueprint(a)].st = "none"
<1> DEFINE T == {b \in Blueprints : a.lib[b].st = "none"}
<1>1. PICK n \in Nat : Blueprints = 1 .. n
  BY DEF LibraryAssumption
<1>2. T \subseteq Nat /\ T # {}
  BY <1>1 DEF Library!RoomInLibrary
<1>3. PICK k \in T : \A m \in T : ~(m < k)
  BY <1>2, LeastOf
<1>4. \A x \in 1 .. (k - 1) : a.lib[x].st # "none"
  <2> SUFFICES ASSUME NEW x \in 1 .. (k - 1) PROVE a.lib[x].st # "none"
    OBVIOUS
  <2>1. x \in Blueprints /\ x < k
    BY <1>1, <1>3
  <2> QED
    BY <1>3, <2>1
<1> QED
  BY <1>3, <1>4 DEF Library!NextBlueprint

LEMMA StartedKept ==
    ASSUME LibraryAssumption, NEW a, KeptWell(a), Library!RoomInLibrary(a), NEW f \in Files
    PROVE  /\ KeptWell(Library!Started(a, f))
           /\ Onward(a, Library!Started(a, f))
           /\ Library!NextBlueprint(a) \in Blueprints
           /\ Library!Started(a, f).lib[Library!NextBlueprint(a)].st = "started"
<1> DEFINE b == Library!NextBlueprint(a)
           n == Library!Started(a, f)
<1>1. a \in Library!Libraries /\ b \in Blueprints /\ a.lib[b].st = "none"
  BY NextFits DEF KeptWell
<1>2. n = [lib |-> [a.lib EXCEPT ![b] = [st |-> "started", file |-> f]], files |-> a.files,
           standing |-> a.standing, mine |-> a.mine]
  BY <1>1 DEF Library!Started, Library!Libraries
<1> HIDE DEF b, n
<1>3. n \in Library!Libraries
  BY <1>1, <1>2 DEF Library!Libraries
<1>4. n.lib[b].st = "started" /\ \A x \in Blueprints \ {b} : n.lib[x] = a.lib[x]
  BY <1>1, <1>2 DEF Library!Libraries
<1>5. b \notin a.standing /\ n.standing = a.standing /\ n.files = a.files /\ a.standing \subseteq Blueprints
  BY <1>1, <1>2 DEF KeptWell, Library!Libraries
<1>6. KeptWell(n)
  BY <1>3, <1>4, <1>5 DEF KeptWell
<1>7. Onward(a, n)
  BY <1>1, <1>4 DEF Onward
<1> QED
  BY <1>1, <1>4, <1>6, <1>7 DEF b, n

LEMMA FinishedKept ==
    ASSUME NEW a, KeptWell(a), NEW b \in Blueprints
    PROVE  KeptWell(Library!Finished(a, b)) /\ Onward(a, Library!Finished(a, b))
<1>1. CASE a.lib[b].st = "started"
  <2> DEFINE n == Library!Finished(a, b)
  <2>1. n = [lib |-> [a.lib EXCEPT ![b] = [st |-> "ready", file |-> a.lib[b].file]],
             files |-> a.files \cup {a.lib[b].file}, standing |-> a.standing, mine |-> a.mine]
    <3> DEFINE m == [a EXCEPT !.lib[b].st = "ready"]
    <3>1. a \in Library!Libraries
      BY DEF KeptWell
    <3>2. m = [lib |-> [a.lib EXCEPT ![b] = [st |-> "ready", file |-> a.lib[b].file]],
               files |-> a.files, standing |-> a.standing, mine |-> a.mine]
      BY <3>1 DEF Library!Libraries
    <3>3. n = [m EXCEPT !.files = a.files \cup {a.lib[b].file}]
      BY <1>1, <3>1 DEF Library!Finished, Library!Libraries
    <3> HIDE DEF m, n
    <3> QED
      BY <3>2, <3>3
  <2> HIDE DEF n
  <2>2. n \in Library!Libraries
    BY <2>1 DEF KeptWell, Library!Libraries
  <2>3. /\ n.lib[b].st = "ready" /\ n.lib[b].file \in n.files
        /\ \A x \in Blueprints \ {b} : n.lib[x] = a.lib[x]
        /\ n.standing = a.standing /\ a.files \subseteq n.files /\ a.standing \subseteq Blueprints
    BY <2>1 DEF KeptWell, Library!Libraries
  <2>4. KeptWell(n)
    BY <2>2, <2>3 DEF KeptWell
  <2>5. Onward(a, n)
    BY <1>1, <2>3 DEF Onward
  <2> QED
    BY <2>4, <2>5 DEF n
<1>2. CASE a.lib[b].st # "started"
  BY <1>2 DEF Library!Finished, Onward
<1> QED
  BY <1>1, <1>2

(* A change of one blueprint's stage.                                      *)
LEMMA StageChanged ==
    ASSUME NEW a, KeptWell(a), NEW b \in Blueprints, NEW st \in {"dropped", "gone"},
           (a.lib[b].st = "started" /\ st = "dropped") \/ (a.lib[b].st = "ready" /\ st = "gone")
    PROVE  /\ KeptWell([a EXCEPT !.lib[b].st = st])
           /\ Onward(a, [a EXCEPT !.lib[b].st = st])
           /\ [a EXCEPT !.lib[b].st = st].lib[b].st = st
<1> DEFINE n == [a EXCEPT !.lib[b].st = st]
<1>1. n = [lib |-> [a.lib EXCEPT ![b] = [st |-> st, file |-> a.lib[b].file]],
           files |-> a.files, standing |-> a.standing, mine |-> a.mine]
  BY DEF KeptWell, Library!Libraries
<1> HIDE DEF n
<1>2. n \in Library!Libraries
  BY <1>1 DEF KeptWell, Library!Libraries
<1>3. /\ n.lib[b].st = st /\ n.lib[b].file = a.lib[b].file
      /\ \A x \in Blueprints \ {b} : n.lib[x] = a.lib[x]
      /\ n.standing = a.standing /\ n.files = a.files /\ a.standing \subseteq Blueprints
  BY <1>1 DEF KeptWell, Library!Libraries
<1>4. KeptWell(n)
  BY <1>2, <1>3 DEF KeptWell
<1>5. Onward(a, n)
  BY <1>3 DEF Onward
<1> QED
  BY <1>3, <1>4, <1>5 DEF n

LEMMA DropKept ==
    ASSUME NEW a, KeptWell(a), NEW f
    PROVE  KeptWell(Library!DropUnused(a, f)) /\ Onward(a, Library!DropUnused(a, f))
           /\ Library!DropUnused(a, f).lib = a.lib
<1> DEFINE n == Library!DropUnused(a, f)
<1>1. PICK files \in {a.files, a.files \ {f}} :
        /\ files = IF \E b \in Blueprints : Library!KeepsFile(a, b) /\ a.lib[b].file = f
                   THEN a.files ELSE a.files \ {f}
        /\ n = [a EXCEPT !.files = files]
  BY DEF Library!DropUnused, KeptWell, Library!Libraries
<1>2. n = [lib |-> a.lib, files |-> files, standing |-> a.standing, mine |-> a.mine]
  BY <1>1 DEF KeptWell, Library!Libraries
<1> HIDE DEF n
<1>3. n \in Library!Libraries
  BY <1>1, <1>2 DEF KeptWell, Library!Libraries
<1>4. n.lib = a.lib /\ n.standing = a.standing /\ n.files = files /\ a.standing \subseteq Blueprints
  BY <1>2 DEF KeptWell, Library!Libraries
<1>5. ASSUME NEW b \in Blueprints, a.lib[b].st = "ready" \/ b \in a.standing
      PROVE  a.lib[b].file \in files
  <2>1. Library!KeepsFile(a, b) /\ a.lib[b].file \in a.files
    BY <1>5 DEF KeptWell, Library!KeepsFile
  <2> QED
    BY <1>1, <2>1
<1>6. KeptWell(n)
  BY <1>3, <1>4, <1>5 DEF KeptWell
<1> QED
  BY <1>4, <1>6 DEF Onward, n

LEMMA DeletedKept ==
    ASSUME NEW a, KeptWell(a), NEW b \in Blueprints
    PROVE  /\ KeptWell(Library!Deleted(a, b)) /\ Onward(a, Library!Deleted(a, b))
           /\ a.lib[b].st # "none" => Library!Deleted(a, b).lib[b].st \in {"dropped", "gone"}
<1>1. CASE a.lib[b].st = "started"
  BY <1>1, StageChanged DEF Library!Deleted
<1>2. CASE a.lib[b].st = "ready"
  <2> DEFINE n == [a EXCEPT !.lib[b].st = "gone"]
  <2>1. KeptWell(n) /\ Onward(a, n) /\ n.lib[b].st = "gone"
    BY <1>2, StageChanged
  <2>2. Library!Deleted(a, b) = Library!DropUnused(n, a.lib[b].file)
    BY <1>2 DEF Library!Deleted
  <2> HIDE DEF n
  <2> QED
    BY <2>1, <2>2, DropKept DEF Onward
<1>3. CASE a.lib[b].st \notin {"started", "ready"}
  <2>1. a.lib[b].st \in {"none", "gone", "dropped"}
    BY <1>3 DEF KeptWell, Library!Libraries
  <2> QED
    BY <1>3, <2>1 DEF Library!Deleted, Onward
<1> QED
  BY <1>1, <1>2, <1>3

(* Steps that leave the uploads and what the API keeps as they are.        *)
LEMMA UploadUntouched ==
    ASSUME GoodLibrary, UNCHANGED <<up, wire>>, KeptWell(library'), Onward(library, library'),
           shown' \in LibraryPages, busy' \in Errands
    PROVE  GoodLibrary'
<1>1. UploadFit'
  BY DEF GoodLibrary, UploadFit, Onward
<1> QED
  BY <1>1 DEF GoodLibrary

LEMMA WhoFits == GoodLibrary /\ Library!Who => GoodLibrary'
<1> SUFFICES ASSUME GoodLibrary, Library!Who PROVE GoodLibrary'
  OBVIOUS
<1>1. shown \in LibraryPages /\ busy \in Errands /\ KeptWell(library)
  BY DEF GoodLibrary
<1>2. UNCHANGED <<busy, up, wire>>
  BY DEF Library!Who, Library!SetBuilder, Library!Recheck, Library!ServeWho, Library!WhoLands,
         Library!RoleMoves
<1>3. KeptWell(library') /\ Onward(library, library')
  <2>1. CASE UNCHANGED library
    BY <1>1, <2>1 DEF Onward
  <2>2. CASE Library!RoleMoves
    <3>1. library' = [library EXCEPT !.mine = ~library.mine] /\ library \in Library!Libraries
      BY <1>1, <2>2 DEF Library!RoleMoves, KeptWell
    <3>2. library' \in Library!Libraries /\ library'.lib = library.lib /\ library'.files = library.files
          /\ library'.standing = library.standing
      BY <3>1 DEF Library!Libraries
    <3> QED
      BY <1>1, <3>2 DEF KeptWell, Onward
  <2> QED
    BY <2>1, <2>2 DEF Library!Who, Library!SetBuilder, Library!Recheck, Library!ServeWho,
                      Library!WhoLands
<1>4. shown' \in LibraryPages
  <2>1. CASE Library!SetBuilder
    <3>1. PICK acc \in {"checking", "out"}, w \in {"none", "out", "yes", "no"} :
            shown' = [shown EXCEPT !.access = acc, !.mechanic = FALSE, !.role = shown.role + 1, !.who = w]
      BY <1>1, <2>1 DEF Library!SetBuilder, LibraryPages
    <3>2. shown' = [access |-> acc, mechanic |-> FALSE, who |-> w, role |-> shown.role + 1,
                   lib |-> shown.lib, list |-> shown.list, items |-> shown.items]
      BY <1>1, <3>1 DEF LibraryPages
    <3>3. shown.role + 1 \in Nat
      BY <1>1 DEF LibraryPages
    <3> QED
      BY <1>1, <3>2, <3>3 DEF LibraryPages
  <2>2. CASE Library!Recheck
    BY <1>1, <2>2 DEF Library!Recheck, LibraryPages
  <2>3. CASE Library!ServeWho
    BY <1>1, <2>3 DEF Library!ServeWho, LibraryPages
  <2>4. CASE Library!WhoLands
    <3> DEFINE p == [shown EXCEPT !.who = "none"]
               q == [p EXCEPT !.access = "member"]
    <3>1. p \in LibraryPages /\ q \in LibraryPages
      BY <1>1 DEF LibraryPages
    <3>2. \/ shown' = p
          \/ shown' = [p EXCEPT !.access = "unavailable", !.mechanic = FALSE]
          \/ shown' = Library!Learns(q, shown.who = "yes")
      BY <2>4 DEF Library!WhoLands
    <3> HIDE DEF p, q
    <3>3. Library!Learns(q, shown.who = "yes") \in LibraryPages
      BY <3>1 DEF Library!Learns, LibraryPages
    <3>4. [p EXCEPT !.access = "unavailable", !.mechanic = FALSE] \in LibraryPages
      BY <3>1 DEF LibraryPages
    <3> QED
      BY <3>1, <3>2, <3>3, <3>4
  <2>5. CASE Library!RoleMoves
    BY <1>1, <2>5 DEF Library!RoleMoves, LibraryPages
  <2> QED
    BY <2>1, <2>2, <2>3, <2>4, <2>5 DEF Library!Who
<1> QED
  BY <1>1, <1>2, <1>3, <1>4, UploadUntouched

LEMMA ReadsFit == GoodLibrary /\ Library!LibraryReads => GoodLibrary'
<1> SUFFICES ASSUME GoodLibrary, Library!LibraryReads PROVE GoodLibrary'
  OBVIOUS
<1>1. shown \in LibraryPages /\ busy \in Errands /\ KeptWell(library)
  BY DEF GoodLibrary
<1>2. UNCHANGED <<library, busy, up, wire>>
  BY DEF Library!LibraryReads, Library!LoadLibrary, Library!ServeLibrary, Library!LibraryLands,
         Library!LibraryFails
<1>3. Library!Library(library) \subseteq Blueprints
  BY DEF Library!Library
<1>4. shown' \in LibraryPages
  <2>1. CASE Library!LoadLibrary
    BY <1>1, <2>1 DEF Library!LoadLibrary, LibraryPages
  <2>2. CASE Library!ServeLibrary
    BY <1>1, <1>3, <2>2 DEF Library!ServeLibrary, LibraryPages
  <2>3. CASE Library!LibraryLands
    BY <1>1, <2>3 DEF Library!LibraryLands, LibraryPages
  <2>4. CASE Library!LibraryFails
    BY <1>1, <2>4 DEF Library!LibraryFails, LibraryPages
  <2> QED
    BY <2>1, <2>2, <2>3, <2>4 DEF Library!LibraryReads
<1>5. Onward(library, library')
  BY <1>2 DEF Onward
<1> QED
  BY <1>1, <1>2, <1>4, <1>5, UploadUntouched

LEMMA WritesFit == LibraryAssumption /\ GoodLibrary /\ Library!Writes => GoodLibrary'
<1> SUFFICES ASSUME LibraryAssumption, GoodLibrary, Library!Writes PROVE GoodLibrary'
  OBVIOUS
<1>1. shown \in LibraryPages /\ busy \in Errands /\ KeptWell(library)
  BY DEF GoodLibrary
<1>2. UNCHANGED <<up, wire>>
  BY DEF Library!Writes, Library!PressStandIn, Library!PressDelete, Library!Serve, Library!Lost,
         Library!Answer
<1>3. Blueprints \subseteq Nat /\ Library!Idle \in Errands
  BY DEF LibraryAssumption, Library!Idle, Errands
<1>4. CASE Library!PressStandIn
  <2>1. library' = library /\ shown' \in LibraryPages
    BY <1>1, <1>4 DEF Library!PressStandIn, LibraryPages
  <2>2. \/ busy' = [kind |-> "switching", b |-> 1, st |-> "out", on |-> TRUE]
        \/ busy' = [kind |-> "switching", b |-> 1, st |-> "out", on |-> FALSE]
    <3>1. \/ busy' = [Library!Idle EXCEPT !.kind = "switching", !.on = TRUE, !.st = "out"]
          \/ busy' = [Library!Idle EXCEPT !.kind = "switching", !.on = FALSE, !.st = "out"]
      BY <1>4, Zenon DEF Library!PressStandIn
    <3>2. CASE busy' = [Library!Idle EXCEPT !.kind = "switching", !.on = TRUE, !.st = "out"]
      BY <3>2 DEF Library!Idle
    <3>3. CASE busy' = [Library!Idle EXCEPT !.kind = "switching", !.on = FALSE, !.st = "out"]
      BY <3>3 DEF Library!Idle
    <3> QED
      BY <3>1, <3>2, <3>3
  <2>3. busy' \in Errands
    <3>1. 1 \in Nat
      OBVIOUS
    <3>2. \A o \in BOOLEAN : [kind |-> "switching", b |-> 1, st |-> "out", on |-> o] \in Errands
      BY <3>1 DEF Errands
    <3> QED
      BY <2>2, <3>2, Zenon
  <2> QED
    BY <1>1, <1>2, <2>1, <2>3, UploadUntouched DEF Onward
<1>5. CASE Library!PressDelete
  <2>1. library' = library /\ shown' = shown
    BY <1>5 DEF Library!PressDelete
  <2>2. PICK b \in shown.items : busy' = [Library!Idle EXCEPT !.kind = "deleting", !.b = b, !.st = "out"]
    BY <1>5 DEF Library!PressDelete
  <2>3. b \in Nat
    BY <1>1, <1>3 DEF LibraryPages
  <2>4. busy' \in Errands
    BY <2>2, <2>3 DEF Library!Idle, Errands
  <2> QED
    BY <1>1, <1>2, <2>1, <2>4, UploadUntouched DEF Onward
<1>6. CASE Library!Serve
  <2>1. shown' = shown /\ busy' \in Errands
    <3>1. PICK st \in {"ok", "gone", "lost"} : shown' = shown /\ busy' = [busy EXCEPT !.st = st]
      BY <1>6 DEF Library!Serve
    <3> QED
      BY <1>1, <3>1 DEF Errands
  <2>2. KeptWell(library') /\ Onward(library, library')
    <3>1. CASE library' = [library EXCEPT !.mine = busy.on]
      <4>1. library \in Library!Libraries /\ busy.on \in BOOLEAN
        BY <1>1 DEF KeptWell, Errands
      <4>2. /\ library' \in Library!Libraries /\ library'.lib = library.lib /\ library'.files = library.files
            /\ library'.standing = library.standing
        BY <3>1, <4>1 DEF Library!Libraries
      <4> QED
        BY <1>1, <4>2 DEF KeptWell, Onward
    <3>2. CASE busy.b \in Library!Library(library) /\ library' = Library!Deleted(library, busy.b)
      BY <1>1, <3>2, DeletedKept DEF Library!Library
    <3>3. CASE library' = library
      BY <1>1, <3>3 DEF Onward
    <3> QED
      BY <1>6, <3>1, <3>2, <3>3 DEF Library!Serve
  <2> QED
    BY <1>1, <1>2, <2>1, <2>2, UploadUntouched
<1>7. CASE Library!Lost
  <2>1. library' = library /\ shown' = shown /\ busy' \in Errands
    BY <1>1, <1>7 DEF Library!Lost, Errands
  <2> QED
    BY <1>1, <1>2, <2>1, UploadUntouched DEF Onward
<1>8. CASE Library!Answer
  <2>1. library' = library /\ busy' = Library!Idle
    BY <1>8 DEF Library!Answer
  <2>2. shown' \in LibraryPages
    <3>1. /\ shown' \in {[shown EXCEPT !.lib = IF shown.lib = "got" THEN "got" ELSE "loading"],
                        Library!Learns(shown, busy.on),
                        [shown EXCEPT !.items = shown.items \ {busy.b}], shown}
      BY <1>1, <1>8 DEF Library!Answer, LibraryPages
    <3>2. [shown EXCEPT !.lib = IF shown.lib = "got" THEN "got" ELSE "loading"] \in LibraryPages
      BY <1>1 DEF LibraryPages
    <3>3. Library!Learns(shown, busy.on) \in LibraryPages
      BY <1>1 DEF LibraryPages, Library!Learns, Errands
    <3>4. [shown EXCEPT !.items = shown.items \ {busy.b}] \in LibraryPages
      BY <1>1 DEF LibraryPages
    <3> QED
      BY <1>1, <3>1, <3>2, <3>3, <3>4
  <2> QED
    BY <1>1, <1>2, <1>3, <2>1, <2>2, UploadUntouched DEF Onward
<1> QED
  BY <1>4, <1>5, <1>6, <1>7, <1>8 DEF Library!Writes

LEMMA OthersFit == LibraryAssumption /\ GoodLibrary /\ Library!Others => GoodLibrary'
<1> SUFFICES ASSUME LibraryAssumption, GoodLibrary, Library!Others PROVE GoodLibrary'
  OBVIOUS
<1>1. shown \in LibraryPages /\ busy \in Errands /\ KeptWell(library)
  BY DEF GoodLibrary
<1>2. UNCHANGED <<shown, busy, up, wire>>
  BY DEF Library!Others, Library!Stands, Library!ComesDown, Library!OtherUploads, Library!OtherDeletes
<1>3. KeptWell(library') /\ Onward(library, library')
  <2>1. CASE Library!Stands
    <3>1. PICK b \in Library!Library(library) : library' = [library EXCEPT !.standing = library.standing \cup {b}]
      BY <2>1 DEF Library!Stands
    <3>2. b \in Blueprints /\ library.lib[b].st = "ready" /\ library \in Library!Libraries
      BY <1>1 DEF Library!Library, KeptWell
    <3>3. /\ library' \in Library!Libraries /\ library'.lib = library.lib /\ library'.files = library.files
          /\ library'.standing = library.standing \cup {b}
      BY <3>1, <3>2 DEF Library!Libraries
    <3> QED
      BY <1>1, <3>2, <3>3 DEF KeptWell, Onward
  <2>2. CASE Library!ComesDown
    <3>1. PICK b \in library.standing :
            library' = Library!DropUnused([library EXCEPT !.standing = library.standing \ {b}], Library!FileOf(b))
      BY <2>2 DEF Library!ComesDown
    <3> DEFINE n == [library EXCEPT !.standing = library.standing \ {b}]
    <3>2. /\ n \in Library!Libraries /\ n.lib = library.lib /\ n.files = library.files
          /\ n.standing = library.standing \ {b}
      BY <1>1 DEF KeptWell, Library!Libraries
    <3> HIDE DEF n
    <3>3. KeptWell(n) /\ Onward(library, n)
      BY <1>1, <3>2 DEF KeptWell, Onward
    <3>4. library' = Library!DropUnused(n, Library!FileOf(b))
      BY <3>1 DEF n
    <3> QED
      BY <3>3, <3>4, DropKept DEF Onward
  <2>3. CASE Library!OtherUploads
    <3>1. PICK f \in Files :
            library' = Library!Finished(Library!Started(library, f), Library!NextBlueprint(library))
      BY <2>3 DEF Library!OtherUploads
    <3>2. /\ KeptWell(Library!Started(library, f)) /\ Onward(library, Library!Started(library, f))
          /\ Library!NextBlueprint(library) \in Blueprints
      BY <1>1, <2>3, StartedKept DEF Library!OtherUploads
    <3>3. KeptWell(library') /\ Onward(Library!Started(library, f), library')
      BY <3>1, <3>2, FinishedKept
    <3> QED
      BY <3>2, <3>3 DEF Onward
  <2>4. CASE Library!OtherDeletes
    <3>1. PICK b \in Library!Library(library) : library' = Library!Deleted(library, b)
      BY <2>4 DEF Library!OtherDeletes
    <3>2. b \in Blueprints
      BY DEF Library!Library
    <3> QED
      BY <1>1, <3>1, <3>2, DeletedKept
  <2> QED
    BY <2>1, <2>2, <2>3, <2>4 DEF Library!Others
<1> QED
  BY <1>1, <1>2, <1>3, UploadUntouched

LEMMA UploadsFit == LibraryAssumption /\ GoodLibrary /\ Library!Uploads => GoodLibrary'
<1> SUFFICES ASSUME LibraryAssumption, GoodLibrary, Library!Uploads PROVE GoodLibrary'
  OBVIOUS
<1>1. /\ shown \in LibraryPages /\ busy \in Errands /\ KeptWell(library) /\ up \in Uploads
      /\ wire \subseteq {"finish", "delete"} /\ UploadFit
  BY DEF GoodLibrary
<1>2. Onward(library, library)
  BY DEF Onward
<1>3. CASE Library!StartUpload
  <2>1. PICK f \in Files : up' = [Library!NoUpload EXCEPT !.st = "reading", !.file = f]
    BY <1>3 DEF Library!StartUpload
  <2>2. UNCHANGED <<library, shown, busy, wire>> /\ wire = {}
    BY <1>3 DEF Library!StartUpload
  <2>3. up' \in Uploads /\ up'.b = 0 /\ up'.clean = "none" /\ up'.st = "reading"
    BY <2>1, NoUploadFit DEF Uploads
  <2>4. UploadFit'
    BY <2>2, <2>3 DEF UploadFit
  <2> QED
    BY <1>1, <2>2, <2>3, <2>4 DEF GoodLibrary
<1>4. CASE Library!UploadStarts
  <2> DEFINE b == Library!NextBlueprint(library)
  <2>1. /\ up.st = "reading" /\ Library!RoomInLibrary(library)
        /\ library' = Library!Started(library, up.file)
        /\ \/ up' = [up EXCEPT !.st = "sending", !.b = b]
           \/ up' = [up EXCEPT !.st = "none", !.told = "failed"]
        /\ UNCHANGED <<shown, busy, wire>>
    BY <1>4 DEF Library!UploadStarts
  <2>2. up.file \in Files
    BY <1>1 DEF Uploads
  <2>3. KeptWell(library') /\ b \in Blueprints /\ library'.lib[b].st = "started"
    BY <1>1, <2>1, <2>2, StartedKept
  <2> HIDE DEF b
  <2>4. /\ up.b = 0 /\ up.clean = "none" /\ wire = {}
    BY <1>1, <2>1 DEF UploadFit
  <2>5. b \in Nat /\ b # 0
    BY <2>3 DEF LibraryAssumption
  <2>6. /\ up' \in Uploads /\ up'.clean = "none"
        /\ \/ up'.st = "sending" /\ up'.b = b
           \/ up'.st = "none" /\ up'.b = 0
    BY <1>1, <2>1, <2>4, <2>5 DEF Uploads
  <2>7. UploadFit'
    BY <2>1, <2>3, <2>4, <2>5, <2>6 DEF UploadFit
  <2> QED
    BY <1>1, <2>1, <2>3, <2>6, <2>7 DEF GoodLibrary
<1>5. CASE Library!FinishUpload
  <2>1. /\ up.st = "sending" /\ up' = [up EXCEPT !.st = "finishing"] /\ wire' = wire \cup {"finish"}
        /\ UNCHANGED <<library, shown, busy>>
    BY <1>5 DEF Library!FinishUpload
  <2>2. /\ up' \in Uploads /\ up'.b = up.b /\ up'.clean = up.clean /\ up'.st = "finishing"
    BY <1>1, <2>1 DEF Uploads
  <2>3. UploadFit'
    BY <1>1, <2>1, <2>2 DEF UploadFit
  <2> QED
    BY <1>1, <2>1, <2>2, <2>3 DEF GoodLibrary
<1>6. CASE Library!ServeFinish
  <2>1. /\ "finish" \in wire /\ wire' = wire \ {"finish"} /\ UNCHANGED <<shown, busy, up>>
        /\ library' \in {library, Library!Finished(library, up.b)}
    BY <1>6 DEF Library!ServeFinish
  <2>2. up.b \in Blueprints
    BY <1>1, <2>1 DEF UploadFit
  <2>3. KeptWell(library') /\ Onward(library, library')
    BY <1>1, <1>2, <2>1, <2>2, FinishedKept
  <2>4. UploadFit'
    BY <1>1, <2>1, <2>2, <2>3 DEF UploadFit, Onward
  <2> QED
    BY <1>1, <2>1, <2>3, <2>4 DEF GoodLibrary
<1>7. CASE Library!UploadAdded
  <2>1. /\ up.st = "finishing" /\ "finish" \notin wire /\ up' = Library!NoUpload
        /\ shown' = [shown EXCEPT !.items = shown.items \cup {up.b},
                                !.lib = IF shown.lib \in {"loading", "got"} THEN shown.lib ELSE "ready"]
        /\ UNCHANGED <<library, busy, wire>>
    BY <1>7 DEF Library!UploadAdded
  <2>2. up.b \in Blueprints /\ wire = {}
    BY <1>1, <2>1 DEF UploadFit
  <2>3. shown' \in LibraryPages
    BY <1>1, <2>1, <2>2 DEF LibraryPages
  <2>4. UploadFit'
    BY <2>1, <2>2, NoUploadFit DEF UploadFit
  <2> QED
    BY <1>1, <2>1, <2>3, <2>4, NoUploadFit DEF GoodLibrary
<1>8. CASE Library!UploadFails
  <2>1. /\ up.st # "none"
        /\ up' = [up EXCEPT !.st = "none", !.told = "failed",
                            !.clean = IF up.b = 0 THEN "none" ELSE "out"]
        /\ wire' = IF up.b = 0 THEN wire ELSE wire \cup {"delete"}
        /\ UNCHANGED <<library, shown, busy>>
    BY <1>8 DEF Library!UploadFails
  <2>2. /\ up' \in Uploads /\ up'.b = up.b /\ up'.st = "none"
        /\ up'.clean = IF up.b = 0 THEN "none" ELSE "out"
    BY <1>1, <2>1 DEF Uploads
  <2>3. UploadFit'
    BY <1>1, <2>1, <2>2 DEF UploadFit
  <2> QED
    BY <1>1, <2>1, <2>2, <2>3 DEF GoodLibrary
<1>9. CASE Library!ServeCleanUp
  <2>1. /\ "delete" \in wire /\ wire' = wire \ {"delete"}
        /\ library' = IF library.mine THEN Library!Deleted(library, up.b) ELSE library
        /\ up' = [up EXCEPT !.clean = IF library.mine THEN "served" ELSE "refused"]
        /\ UNCHANGED <<shown, busy>>
    BY <1>9 DEF Library!ServeCleanUp
  <2>2. up.b \in Blueprints /\ library.lib[up.b].st # "none" /\ up.b # 0 /\ up.st = "none"
    BY <1>1, <2>1 DEF UploadFit, Uploads
  <2>3. /\ up' \in Uploads /\ up'.b = up.b /\ up'.st = up.st
        /\ up'.clean = IF library.mine THEN "served" ELSE "refused"
    BY <1>1, <2>1 DEF Uploads
  <2>4. /\ KeptWell(library') /\ Onward(library, library')
        /\ library.mine => library'.lib[up.b].st \in {"dropped", "gone"}
    BY <1>1, <1>2, <2>1, <2>2, DeletedKept
  <2>5. UploadFit'
    BY <1>1, <2>1, <2>2, <2>3, <2>4 DEF UploadFit, Onward
  <2> QED
    BY <1>1, <2>1, <2>3, <2>4, <2>5 DEF GoodLibrary
<1>10. CASE Library!UploadLost
  <2>1. PICK r \in wire : /\ wire' = wire \ {r}
                          /\ up' = [up EXCEPT !.clean = IF r = "delete" THEN "refused" ELSE up.clean]
    BY <1>10 DEF Library!UploadLost
  <2>2. UNCHANGED <<library, shown, busy>>
    BY <1>10 DEF Library!UploadLost
  <2>3. /\ up' \in Uploads /\ up'.b = up.b /\ up'.st = up.st
        /\ up'.clean = IF r = "delete" THEN "refused" ELSE up.clean
    BY <1>1, <2>1 DEF Uploads
  <2>4. UploadFit'
    BY <1>1, <2>1, <2>2, <2>3 DEF UploadFit, Uploads
  <2> QED
    BY <1>1, <2>1, <2>2, <2>3, <2>4 DEF GoodLibrary
<1>11. CASE Library!UploadForgotten
  <2>1. PICK b \in Blueprints : library.lib[b].st = "started" /\ library' = [library EXCEPT !.lib[b].st = "dropped"]
    BY <1>11 DEF Library!UploadForgotten
  <2>2. UNCHANGED <<shown, busy, up, wire>>
    BY <1>11 DEF Library!UploadForgotten
  <2>3. KeptWell(library') /\ Onward(library, library')
    BY <1>1, <2>1, StageChanged
  <2> QED
    BY <1>1, <2>2, <2>3, UploadUntouched
<1> QED
  BY <1>3, <1>4, <1>5, <1>6, <1>7, <1>8, <1>9, <1>10, <1>11 DEF Library!Uploads

LEMMA LibraryStarts == LibraryAssumption /\ Library!Init => GoodLibrary
<1> SUFFICES ASSUME LibraryAssumption, Library!Init PROVE GoodLibrary
  OBVIOUS
<1>1. up \in Uploads /\ up.st = "none" /\ up.b = 0 /\ up.clean = "none" /\ wire = {}
  BY NoUploadFit DEF Library!Init
<1>2. KeptWell(library)
  BY NoUploadFit DEF Library!Init, KeptWell, Library!Libraries
<1>3. shown \in LibraryPages /\ busy \in Errands
  BY DEF Library!Init, LibraryPages, Library!Idle, Errands
<1> QED
  BY <1>1, <1>2, <1>3 DEF GoodLibrary, UploadFit

LEMMA LibraryStays ==
    LibraryAssumption /\ GoodLibrary /\ [Library!Next]_(Library!vars) => GoodLibrary'
<1> SUFFICES ASSUME LibraryAssumption, GoodLibrary, [Library!Next]_(Library!vars) PROVE GoodLibrary'
  OBVIOUS
<1>1. CASE UNCHANGED Library!vars
  <2>1. UNCHANGED <<library, shown, busy, up, wire>>
    BY <1>1 DEF Library!vars
  <2> QED
    BY <2>1, UploadUntouched DEF GoodLibrary, Onward
<1> QED
  BY <1>1, WhoFits, ReadsFit, UploadsFit, WritesFit, OthersFit DEF Library!Next

LEMMA GoodLibraryAlways == LibraryAssumption => (Library!Spec => []GoodLibrary)
<1> SUFFICES ASSUME LibraryAssumption PROVE Library!Spec => []GoodLibrary
  OBVIOUS
<1>1. Library!Init => GoodLibrary
  BY LibraryStarts
<1>2. GoodLibrary /\ [Library!Next]_(Library!vars) => GoodLibrary'
  BY LibraryStays
<1> QED
  BY <1>1, <1>2, PTL DEF Library!Spec

(* MachineLibrary's variables have their types.                            *)
THEOREM LibraryTypes ==
    ASSUME LibraryAssumption
    PROVE  Library!Spec => []Library!TypeOK
<1>1. GoodLibrary => Library!TypeOK
  BY DEF GoodLibrary, KeptWell, LibraryPages, Errands, Uploads, Library!TypeOK
<1> QED
  BY <1>1, GoodLibraryAlways, PTL

LEMMA FilesFit == GoodLibrary => Library!FilesStand /\ Library!FailedUploadLeavesNothing
<1>1. GoodLibrary => Library!FilesStand
  BY DEF GoodLibrary, KeptWell, Library!FilesStand, Library!Library, Library!FileOf,
         Library!Libraries
<1>2. GoodLibrary => Library!FailedUploadLeavesNothing
  BY DEF GoodLibrary, UploadFit, Library!FailedUploadLeavesNothing
<1> QED
  BY <1>1, <1>2

(* Whatever is in the library or stands has its file: uploads, deletions   *)
(* and take-downs of blueprints that share one, in any order.              *)
THEOREM FilesAlwaysStand ==
    ASSUME LibraryAssumption
    PROVE  Library!Spec => []Library!FilesStand
<1>1. GoodLibrary => Library!FilesStand
  BY FilesFit
<1> QED
  BY <1>1, GoodLibraryAlways, PTL

(* An upload that failed or was cancelled, once its clean-up was served,   *)
(* is not in the library and never comes to be, though its last request be *)
(* served after.                                                           *)
THEOREM NothingLeftBehind ==
    ASSUME LibraryAssumption
    PROVE  Library!Spec => []Library!FailedUploadLeavesNothing
<1>1. GoodLibrary => Library!FailedUploadLeavesNothing
  BY FilesFit
<1> QED
  BY <1>1, GoodLibraryAlways, PTL

=============================================================================
