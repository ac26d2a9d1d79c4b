------------------------------- MODULE TaskPool -------------------------------
(***************************************************************************)
(* What the worker pool promises: a job is done at most once, only after it *)
(* was submitted, at most Limit jobs are being done at a time, and a         *)
(* shutdown completes only when the jobs submitted before it are done.      *)
(***************************************************************************)
EXTENDS Integers, FiniteSets

CONSTANTS Jobs, Limit

VARIABLES
    submitted,      \* jobs handed to the pool
    active,         \* jobs being done
    finished,       \* jobs done
    promised,       \* the jobs a shutdown owes, those submitted before it
    pool            \* "up", or "down" once a shutdown completed

vars == <<submitted, active, finished, promised, pool>>

Init ==
    /\ submitted = {} /\ active = {} /\ finished = {} /\ promised = {}
    /\ pool = "up"

Submit(j) ==
    /\ j \notin submitted
    /\ submitted' = submitted \cup {j}
    /\ UNCHANGED <<active, finished, promised, pool>>

Start(j) ==
    /\ j \in submitted \ (active \cup finished)
    /\ Cardinality(active) < Limit
    /\ active' = active \cup {j}
    /\ UNCHANGED <<submitted, finished, promised, pool>>

Finish(j) ==
    /\ j \in active
    /\ active' = active \ {j}
    /\ finished' = finished \cup {j}
    /\ UNCHANGED <<submitted, promised, pool>>

Shutdown ==
    /\ promised' = submitted
    /\ UNCHANGED <<submitted, active, finished, pool>>

Close ==
    /\ promised \subseteq finished
    /\ pool' = "down"
    /\ UNCHANGED <<submitted, active, finished, promised>>

Next ==
    \/ Shutdown \/ Close
    \/ \E j \in Jobs : Submit(j) \/ Start(j) \/ Finish(j)

Spec == Init /\ [][Next]_vars
=============================================================================
