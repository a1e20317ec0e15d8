--------------------------- MODULE MotionLifecycle --------------------------
(***************************************************************************)
(* What the floor promises of a proposal, as the head of                   *)
(* services/proposals.py draws it: the arrows a proposal's state may       *)
(* follow, and what an objection decides.  A beat may move several         *)
(* proposals at once, and one step may follow several arrows (a debate     *)
(* whose vote has run out as well ends, opens and closes its vote).        *)
(***************************************************************************)
CONSTANT Ids

VARIABLES
    state,      \* Ids -> a state
    objected    \* Ids -> has anyone in the electorate objected?

vars == <<state, objected>>

States == {"none", "submitted", "debate", "voting", "passed", "failed",
           "lapsed", "withdrawn", "building", "shipped"}

(* One objection closes the way to passing without a vote, and is the only *)
(* way to a vote.                                                          *)
Arrows(objection) ==
    {<<"none", "submitted">>, <<"submitted", "debate">>, <<"submitted", "lapsed">>,
     <<"submitted", "withdrawn">>, <<"debate", "withdrawn">>,
     <<"passed", "building">>, <<"building", "shipped">>}
    \cup IF objection
         THEN {<<"debate", "voting">>, <<"voting", "withdrawn">>,
               <<"voting", "passed">>, <<"voting", "failed">>}
         ELSE {<<"debate", "passed">>}

Then(A, B) ==
    {hop \in States \X States :
        \E u \in States : <<hop[1], u>> \in A /\ <<u, hop[2]>> \in B}

Paths(objection) ==
    LET one == Arrows(objection)
        two == Then(one, one)
    IN  one \cup two

Init ==
    /\ state = [p \in Ids |-> "none"]
    /\ objected = [p \in Ids |-> FALSE]

Stay(p) == state'[p] = state[p] /\ objected'[p] = objected[p]

Follow(p) ==
    /\ <<state[p], state'[p]>> \in Paths(objected[p])
    /\ objected'[p] = objected[p]

Object(p) ==
    /\ state[p] = "debate" /\ ~objected[p]
    /\ state'[p] = "debate" /\ objected'[p]

Next ==
    /\ state' \in [Ids -> States]
    /\ objected' \in [Ids -> BOOLEAN]
    /\ \A p \in Ids : Stay(p) \/ Follow(p) \/ Object(p)

Spec == Init /\ [][Next]_vars

=============================================================================
