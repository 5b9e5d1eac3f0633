------------------------------ MODULE Exclusive ------------------------------
(***************************************************************************)
(* What the zombie guard promises: a project has one orchestrator at a     *)
(* time. The next one comes when the last has gone, never in its place;    *)
(* when the daemon goes, all of them go.                                   *)
(***************************************************************************)
CONSTANTS Projects, Tasks, Nobody   \* Nobody is no task

VARIABLE owner

Free == [p \in Projects |-> Nobody]
Init == owner = Free

Takes(p, t) == owner[p] = Nobody /\ owner' = [owner EXCEPT ![p] = t]
Leaves(p) == owner[p] # Nobody /\ owner' = [owner EXCEPT ![p] = Nobody]
Collapses == owner' = Free

Next == \/ \E p \in Projects : Leaves(p) \/ \E t \in Tasks : Takes(p, t)
        \/ Collapses

Spec == Init /\ [][Next]_owner
=============================================================================
