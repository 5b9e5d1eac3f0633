------------------------------ MODULE Shipment ------------------------------
(***************************************************************************)
(* What a wave promises about its tickets, whatever fails on the way: a    *)
(* ruling stands; only merged work is ruled green, and a merge is for      *)
(* good; work starts on a ticket when all that blocks it is green. The     *)
(* wave notes its rulings in its books from time to time. A crash takes it *)
(* back to the rulings of the books it last kept, never to others, and     *)
(* takes no merge back; what it resumes had a task, and might have one by  *)
(* those rulings.                                                          *)
(***************************************************************************)
CONSTANTS Tickets, Blockers   \* Blockers[t]: what must be green before t starts

VARIABLES
    ruling,    \* what the wave has decided about each ticket
    started,   \* tickets with a builder or a reviewer to their name
    merged,    \* tickets whose pull request is merged
    books,     \* ruling and started as they were last noted, {} before that
    kept       \* where a crash takes the wave: {} before the first checkpoint

vars == <<ruling, started, merged, books, kept>>

Rulings == {"open", "green", "failed", "closed"}

GreenAreMerged == \A t \in Tickets : ruling[t] = "green" => t \in merged

Startable(t, r) == \A d \in Blockers[t] \cap Tickets : r[d] = "green"

Init == /\ ruling \in [Tickets -> Rulings] /\ merged \subseteq Tickets
        /\ GreenAreMerged
        /\ started = {} /\ books = {} /\ kept = {}

\* The books are kept as they are, with the tasks of then or of now.
KeepsBooks == \E b \in books : \E s \in SUBSET (b.started \cup started) :
                 /\ \A t \in s : Startable(t, b.ruling)
                 /\ kept' = {[ruling |-> b.ruling, started |-> s]}

\* Tickets are ruled on, started or given up, and work is merged.
Works ==
    /\ \A t \in Tickets : ruling[t] # "open" => ruling'[t] = ruling[t]
    /\ ruling' \in [Tickets -> Rulings]
    /\ merged \subseteq merged' /\ GreenAreMerged'
    /\ \A t \in started' \ started : Startable(t, ruling)
    /\ UNCHANGED books /\ (UNCHANGED kept \/ KeepsBooks)

\* The books are brought up to date, and kept unless that fails.
Notes == /\ books' = {[ruling |-> ruling, started |-> started]}
         /\ kept' \in {kept, books'}
         /\ UNCHANGED <<ruling, started, merged>>

\* The crash, and the next run's restore.
Resumes == /\ \E k \in kept : /\ ruling' = k.ruling /\ started' = k.started
                              /\ books' \subseteq {k}
           /\ kept' \subseteq kept
           /\ UNCHANGED merged

Next == Works \/ Notes \/ Resumes

Spec == Init /\ [][Next]_vars
=============================================================================
