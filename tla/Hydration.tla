----------------------------- MODULE Hydration ------------------------------
(***************************************************************************)
(* The canonical acceptance section in the body of a Linear issue: the     *)
(* orchestrator adds it before its first dispatch, the doctor's playbook   *)
(* hydrate_apev_headings in every tick, and people edit the body. Both     *)
(* writers read the body, and later write all of it.                       *)
(***************************************************************************)
EXTENDS Daemon

CONSTANT MaxEdits    \* bound: edits of the body by people

ASSUME HydrationAssumption == MaxEdits \in Nat

\* How often the section is in the body, and the last edit it shows.
Body == [sections : Nat, edit : 0..MaxEdits]
NoCopy == [sections |-> 0, edit |-> MaxEdits + 1]

VARIABLES
    body,            \* the issue on Linear
    edits,           \* edits people have made
    copy             \* what a handler read and is to write back, with the section

hydrationVars == <<body, edits, copy>>

HydrationInit ==
    /\ body = [sections |-> 0, edit |-> 0] /\ edits = 0
    /\ copy = [i \in Ids |-> NoCopy]

\* Mutant: a body that has the section is taken again.
CandidateAlways(b) == site.prose
\* The body has the acceptance as prose, and not the section.
Candidate(b) == site.prose /\ b.sections = 0
HoldsCopy(i) == copy[i] # NoCopy
Hydrated(b) == [b EXCEPT !.sections = @ + 1]

\* The bodies come with the graph, or with the playbook's scan, which may fail.
Reads(i) ==
    /\ copy' = [copy EXCEPT ![i] = IF Candidate(body) THEN body ELSE NoCopy]
    /\ UNCHANGED <<body, edits, faults>>
ScanFails(i) == Candidate(body) /\ UNCHANGED hydrationVars /\ Loses

\* issueUpdate; its answer may be lost, or the call.
WritesBack(i) ==
    /\ HoldsCopy(i) /\ copy' = [copy EXCEPT ![i] = NoCopy] /\ UNCHANGED edits
    /\ \/ body' = Hydrated(copy[i]) /\ UNCHANGED faults
       \/ Loses /\ (UNCHANGED body \/ body' = Hydrated(copy[i]))

\* _hydrate_apev_pre_dispatch.
HydratesFirst(i) ==
    /\ Kind(i) = "kickoff" /\ handler[i] = "running" /\ WritesBack(i)
    /\ UNCHANGED <<site, unlisted, board, loop, child, slot, handler, reports>>

\* A person edits the body as it is.
PersonEdits ==
    /\ site.prose /\ edits < MaxEdits
    /\ edits' = edits + 1 /\ body' = [body EXCEPT !.edit = edits + 1]
    /\ UNCHANGED <<daemonVars, copy>>

ForgetsCopies(dead) ==
    /\ copy' = [i \in Ids |-> IF i \in dead THEN NoCopy ELSE copy[i]]
    /\ UNCHANGED <<body, edits>>
=============================================================================
