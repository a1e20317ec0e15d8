------------------------------ MODULE TaskBoard -----------------------------
(***************************************************************************)
(* What the board of Contribute tasks promises: a task goes from hand to   *)
(* hand only by way of nobody's, and once it is settled it is never on the *)
(* open board again.                                                       *)
(***************************************************************************)
CONSTANTS Members, Tasks, Nobody

VARIABLE board    \* of each task, who holds it and whether its work is merged

Entries == [holder : Members \cup {Nobody}, settled : BOOLEAN]
Open == [holder |-> Nobody, settled |-> FALSE]

(* A settled task may lose its holder, who let it go as it merged.         *)
Moves(now, next) ==
    /\ next.settled \in {now.settled, TRUE}
    /\ next.holder \in {now.holder, Nobody} \/ now = Open

Init == board = [t \in Tasks |-> Open]

Next ==
    /\ board' \in [Tasks -> Entries]
    /\ \A t \in Tasks : Moves(board[t], board'[t])

Spec == Init /\ [][Next]_board

=============================================================================
