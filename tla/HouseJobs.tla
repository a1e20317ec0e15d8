------------------------------ MODULE HouseJobs -----------------------------
(***************************************************************************)
(* What the house desk promises of its jobs, one per proposal: an accepted *)
(* job is never lost while its proposal waits for it, a spec only comes    *)
(* out of a run that still owns the job, and a published proposal's job is *)
(* never run again.                                                        *)
(***************************************************************************)
CONSTANT Ids

VARIABLES
    job,      \* Ids -> none, queued, running, done or failed
    passed    \* Ids -> does the proposal wait for its draft?

vars == <<job, passed>>

States == {"none", "queued", "running", "done", "failed"}

Init ==
    /\ job = [p \in Ids |-> "none"]
    /\ passed = [p \in Ids |-> FALSE]

(* A job is run only while wanted, and dropped only once it is not.        *)
Arrows(wanted) ==
    {<<"none", "queued">>, <<"done", "queued">>, <<"failed", "queued">>,
     <<"queued", "failed">>, <<"running", "queued">>, <<"running", "done">>,
     <<"running", "failed">>}
    \cup IF wanted THEN {<<"queued", "running">>}
                   ELSE {<<"queued", "none">>, <<"running", "none">>}

Moves(p) ==
    \/ job'[p] = job[p]
    \/ <<job[p], job'[p]>> \in Arrows(passed'[p])

(* At most one run begins at a time.                                       *)
Next ==
    /\ job' \in [Ids -> States]
    /\ passed' \in [Ids -> BOOLEAN]
    /\ \A p \in Ids : Moves(p)
    /\ \A p, q \in Ids :
           /\ job[p] = "queued" /\ job'[p] = "running"
           /\ job[q] = "queued" /\ job'[q] = "running"
           => p = q

Spec == Init /\ [][Next]_vars

=============================================================================
