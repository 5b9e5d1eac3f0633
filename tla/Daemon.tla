------------------------------- MODULE Daemon -------------------------------
(***************************************************************************)
(* The daemon (main.py): its poll loop over the tasks of the mesh, the     *)
(* mesh client, the handlers it runs as asyncio tasks beside the loop, and *)
(* the life of an AutonomousBuildOrchestrator as the daemon sees it.       *)
(*                                                                         *)
(*   loop:     boot -> scan -> held -> talk -> reply -> scan ...   *)
(*   handler:  fresh -> running -> done -> off                             *)
(*               |         +-> draining, failing -> done                   *)
(*               +-> refused -> done      any -> died -> off               *)
(*                                                                         *)
(* Doctor and Builder add what a doctor does while it runs and what        *)
(* happens in "talk"; Service puts them together. The actions here name    *)
(* the variables of this module only.                                      *)
(***************************************************************************)
EXTENDS Integers, FiniteSets

CONSTANTS
    Ids,             \* places for mesh tasks
    Projects,        \* Linear projects
    Sites,           \* the situations the daemon may be started in
    PollLimit,       \* list_pending(limit=10)
    ClaimedLimit     \* list_tasks(limit=100) at boot

None == 0
\* The reasons of a failure that anything tells apart.
Whys == {"", "self", "payload"}
Answers == {"", "pr", "gap", "silent", "text"}
Handlers == {"off", "fresh", "refused", "running", "draining", "failing", "done", "died"}
\* Handlers whose asyncio.Task is not done().
Alive == {"fresh", "refused", "running", "draining", "failing"}

\* "stub" is a persona whose handler does not resolve; "foreign" a task that has
\* no persona tag; "builder" the one-shot persona alfred-coo-a. budget is what a
\* kickoff has left of its wave retries, and how many builders a ticket had before
\* this one; marked: the payload has the key auto_restarted_by.
Task == [kind : {"none", "kickoff", "doctor", "builder", "stub", "foreign"},
         project : Projects \cup {None}, marked : BOOLEAN, budget : Nat,
         state : {"pending", "claimed", "completed", "failed"},
         why : Whys, answer : Answers]
\* What the daemon is started in: the tasks on the mesh, whether the doctor has a
\* watchlist, the projects its restart playbook looks after, the projects with a
\* ticket to build, whether its acceptance is prose, and what a kickoff may spend,
\* in builders (0: more than it can); and a bound on the faults there.
Site == [tasks : [Ids -> Task], watched : BOOLEAN, projects : SUBSET Projects,
         tickets : SUBSET Projects, prose : BOOLEAN, cap : Nat, faults : Nat]

ASSUME DaemonAssumption ==
    /\ Ids \subseteq Nat \ {None} /\ IsFiniteSet(Ids) /\ None \notin Projects
    /\ \A s \in Sites : s \in Site
    /\ PollLimit \in Nat \ {0} /\ ClaimedLimit \in Nat \ {0}

VARIABLES
    site,            \* where the daemon was started; never changes
    board,           \* soul-svc's table of tasks, without those that are over and
                     \* that nobody here has to do with
    pc, batch, cur,  \* the loop: tasks of this poll still to look at, task held
    child,           \* the builder task that the orchestrator of a ticket awaits
    slot,            \* _orchestrators_by_project
    handler,         \* _running_orchestrators, and where each one is
    reports,         \* last completions that _orch_done has under way
    unlisted,        \* how many claimed tasks the last boot was not told of
    faults           \* how many calls were lost, and other things went wrong

loop == <<pc, batch, cur>>
daemonVars == <<site, board, loop, child, slot, handler, reports, unlisted, faults>>
-----------------------------------------------------------------------------
\* A call to the mesh or to Slack is lost, or a save; a create is applied twice, or a
\* claim given up, so that there may be two of one; anything else goes wrong.
Faults == faults.lost + faults.twice + faults.upset
Faulty == Faults < site.faults
Loses == Faulty /\ faults' = [faults EXCEPT !.lost = @ + 1]
Doubles == Faulty /\ faults' = [faults EXCEPT !.twice = @ + 1]
Upsets == Faulty /\ faults' = [faults EXCEPT !.upset = @ + 1]

Kind(i) == board[i].kind
State(i) == board[i].state
IsTask(i) == Kind(i) # "none"
Ended(i) == State(i) \in {"completed", "failed"}
Live(i) == handler[i] \in Alive
Tracked(i) == Kind(i) = "kickoff" /\ Live(i)

NewTask(kind, project, budget) ==
    [kind |-> kind, project |-> project, marked |-> FALSE, budget |-> budget,
     state |-> "pending", why |-> "", answer |-> ""]
NoTask == [NewTask("none", None, 0) EXCEPT !.state = "completed"]

\* PATCH .../complete. The first end of a task stands: soul-svc answers 409 to
\* a second one.
Gone(i) == i \notin {cur', child'} /\ handler'[i] = "off"
Completed(i, state, why, answer) ==
    board' = [board EXCEPT ![i] =
        IF Gone(i) THEN NoTask
        ELSE IF Ended(i) THEN @
        ELSE [@ EXCEPT !.state = state, !.why = why, !.answer = answer]]
Left(ids) == board' = [i \in Ids |-> IF i \in ids /\ Ended(i) /\ Gone(i) THEN NoTask ELSE board[i]]

\* A best-effort completion: the exception is logged and the task left as it is.
TryComplete(i, state, why, answer) ==
    \/ Completed(i, state, why, answer) /\ UNCHANGED faults
    \/ ~Ended(i) /\ UNCHANGED board /\ Loses

\* POST /v1/mesh/tasks of n equal tasks.
Free(i) == ~IsTask(i) /\ i \notin batch \cup reports \cup {cur, child}
Fresh(ids, n) == /\ ids \subseteq {i \in Ids : Free(i)} /\ Cardinality(ids) = n
                 /\ \A i \in ids, j \in Ids \ ids : Free(j) => i < j
Posted(task, ids) == board' = [i \in Ids |-> IF i \in ids THEN task ELSE board[i]]

\* The client repeats a POST whose answer was lost, on every server and up to three
\* times: then there are as many tasks.
Posts(task, n, ids) == Fresh(ids, n) /\ Posted(task, ids)
\* The caller has an id.
Created(task, id) ==
    \E n \in 1..Cardinality(Ids), ids \in SUBSET Ids :
        /\ Posts(task, n, ids) /\ id \in ids
        /\ IF n = 1 THEN UNCHANGED faults
           ELSE /\ Faults + (n - 1) <= site.faults
                /\ faults' = [faults EXCEPT !.twice = @ + (n - 1)]
\* The caller has an exception; tasks may be there all the same.
Lost(task) ==
    \/ Loses /\ UNCHANGED board
    \/ \E n \in 1..Cardinality(Ids), ids \in SUBSET Ids :
        /\ Posts(task, n, ids) /\ Faults + n <= site.faults
        /\ faults' = [faults EXCEPT !.lost = @ + 1, !.twice = @ + (n - 1)]
Creating(task) == Lost(task) \/ \E id \in Ids : Created(task, id)

-----------------------------------------------------------------------------
(* The loop.                                                               *)

DaemonInit ==
    /\ site \in Sites /\ board = site.tasks
    /\ pc = "boot" /\ batch = {} /\ cur = None /\ child = None
    /\ slot = [p \in Projects |-> None] /\ handler = [i \in Ids |-> "off"]
    /\ reports = {} /\ unlisted = 0 /\ faults = [lost |-> 0, twice |-> 0, upset |-> 0]

\* Mutant: the orphans of the last daemon are left alone.
BootWithoutRecovery ==
    /\ pc = "boot" /\ pc' = "scan"
    /\ UNCHANGED <<site, unlisted, board, batch, cur, child, slot, handler, reports, faults>>

\* A page of a list that the server answers with, in whatever order it lists.
Pages(ids, limit) == {page \in SUBSET ids :
    Cardinality(page) = IF Cardinality(ids) <= limit THEN Cardinality(ids) ELSE limit}

\* recover_orphaned_tasks fails what the last daemon left claimed: all that one list
\* names, but for the completions that are refused; and nothing if the list is lost.
Claimed == {i \in Ids : State(i) = "claimed"}
Boot ==
    /\ pc = "boot" /\ pc' = "scan"
    /\ \/ \E listed \in Pages(Claimed, ClaimedLimit) : \E missed \in SUBSET listed :
            /\ faults' = [faults EXCEPT !.lost = @ + Cardinality(missed)]
            /\ missed # {} => Faults + Cardinality(missed) <= site.faults
            /\ unlisted' = Cardinality(Claimed \ listed)
            /\ board' = [i \in Ids |-> IF i \in listed \ missed THEN NoTask ELSE board[i]]
       \/ /\ Claimed # {} /\ Loses /\ UNCHANGED board
          /\ unlisted' = Cardinality(Claimed)
    /\ UNCHANGED <<site, batch, cur, child, slot, handler, reports>>

\* One page of pending tasks.
Pending == {i \in Ids : State(i) = "pending"}
Poll ==
    /\ pc = "scan" /\ batch = {} /\ batch' \in Pages(Pending, PollLimit)
    /\ UNCHANGED <<site, unlisted, board, pc, cur, child, slot, handler, reports, faults>>

\* Mutant: a task that this process runs already is not passed over.
PassOverForeign(i) ==
    /\ pc = "scan" /\ i \in batch /\ Kind(i) = "foreign"
    /\ batch' = batch \ {i}
    /\ UNCHANGED <<site, unlisted, board, pc, cur, child, slot, handler, reports, faults>>

\* A task without a persona, or one this process runs already, is passed over.
PassOver(i) ==
    /\ pc = "scan" /\ i \in batch
    /\ Kind(i) = "foreign" \/ Live(i)
    /\ batch' = batch \ {i}
    /\ UNCHANGED <<site, unlisted, board, pc, cur, child, slot, handler, reports, faults>>

\* A claim that raises is taken for somebody else's: the task was not pending any
\* more, or the call failed, or it was applied and its answer lost.
Claim(i) ==
    /\ pc = "scan" /\ i \in batch /\ batch' = batch \ {i}
    /\ Kind(i) # "foreign" /\ ~Live(i)
    /\ \/ /\ State(i) = "pending" /\ pc' = "held" /\ cur' = i
          /\ board' = [board EXCEPT ![i].state = "claimed"] /\ UNCHANGED faults
       \/ State(i) # "pending" /\ UNCHANGED <<board, pc, cur, faults>>
       \/ /\ State(i) = "pending" /\ Loses /\ UNCHANGED <<pc, cur>>
          /\ UNCHANGED board \/ board' = [board EXCEPT ![i].state = "claimed"]
    /\ UNCHANGED <<site, unlisted, child, slot, handler, reports>>

\* _spawn_long_running_handler.
Unhandled ==
    /\ pc = "held" /\ Kind(cur) = "stub" /\ pc' = "scan" /\ cur' = None
    /\ UNCHANGED <<site, unlisted, batch, child, slot, handler, reports>>
    /\ TryComplete(cur, "failed", "", "")

Project == board[cur].project
\* Mutant: an orchestrator that is on its way out does not count.
OccupiedIfRunning ==
    Project # None /\ slot[Project] # None /\ handler[slot[Project]] = "running"

Occupied == Project # None /\ slot[Project] # None /\ Live(slot[Project])

RejectDuplicate ==
    /\ pc = "held" /\ Kind(cur) = "kickoff" /\ Occupied
    /\ pc' = "scan" /\ cur' = None
    /\ UNCHANGED <<site, unlisted, batch, child, slot, handler, reports>>
    /\ TryComplete(cur, "failed", IF slot[Project] = cur THEN "self" ELSE "", "")

\* The slot is taken before the asyncio.Task exists. The callbacks of an earlier
\* run of the task take no round trip and are over.
Spawn ==
    /\ pc = "held" /\ Kind(cur) \in {"kickoff", "doctor"} /\ ~Occupied
    /\ handler[cur] = "off"
    /\ slot' = IF Project = None THEN slot ELSE [slot EXCEPT ![Project] = cur]
    /\ handler' = [handler EXCEPT ![cur] = "fresh"]
    /\ pc' = "scan" /\ cur' = None /\ UNCHANGED <<site, unlisted, batch, reports, faults>>
    /\ child' = (IF Project \in site.tickets THEN None ELSE child) /\ Left({child})
-----------------------------------------------------------------------------
(* A handler.                                                              *)

Goes(i, from, to) == handler[i] = from /\ handler' = [handler EXCEPT ![i] = to]
Off == UNCHANGED <<site, unlisted, loop, child, slot, reports>>

\* validate_and_normalize_kickoff_payload refuses a key it does not know, and
\* the restart playbook writes one; a kickoff without a project is refused too.
UnknownKey(i) == board[i].marked
ParsePayload(i) ==
    /\ Kind(i) = "kickoff"
    /\ Goes(i, "fresh", IF UnknownKey(i) \/ board[i].project = None THEN "refused"
                        ELSE "running")
    /\ UNCHANGED <<board, faults>> /\ Off

\* _complete_kickoff.
Completes(i) ==
    /\ Kind(i) = "kickoff" /\ Goes(i, "running", "done") /\ Off
    /\ TryComplete(i, "completed", "", "")

\* A wave failed, or anything else raised.
Raises(i) ==
    /\ Kind(i) = "kickoff" /\ Goes(i, "running", "failing")
    /\ UNCHANGED <<board, faults>> /\ Off

\* A wave failed that may be tried again: the retry kickoff is on the mesh before
\* this one is over.
Requeues(i) ==
    /\ Kind(i) = "kickoff" /\ board[i].budget > 0 /\ Goes(i, "running", "failing")
    /\ Creating(NewTask("kickoff", board[i].project, board[i].budget - 1))
    /\ Off

\* _fail_kickoff.
FailKickoff(i) ==
    /\ Off
    /\ \/ Goes(i, "failing", "done") /\ TryComplete(i, "failed", "", "")
       \/ Goes(i, "refused", "done") /\ TryComplete(i, "failed", "payload", "")

\* _check_cancel_signal: a live orchestrator takes a failed task for a cancel,
\* unless it was refused as its own duplicate.
CancelSeen(i) ==
    /\ Kind(i) = "kickoff" /\ State(i) = "failed" /\ board[i].why # "self"
    /\ Goes(i, "running", "draining") /\ UNCHANGED <<board, faults>> /\ Off

\* _complete_kickoff_canceled.
Drained(i) ==
    /\ Goes(i, "draining", "done") /\ Off
    /\ TryComplete(i, "failed", "", "")

\* A BaseException, which run() does not catch.
Dies(i) ==
    /\ Live(i) /\ handler' = [handler EXCEPT ![i] = "died"] /\ Upsets
    /\ UNCHANGED board /\ Off

\* The ticket, and what its builder brings, are this orchestrator's to lose.
BuiltBy(i) == board[i].project \in site.tickets /\ slot[board[i].project] = i

\* The done callbacks run after the asyncio.Task is done(): the slot is cleared
\* if it is still this task's, and then _orch_done sends a last completion for a
\* handler that died, which may come late.
ClearSlot(i) ==
    /\ \/ Goes(i, "done", "off") /\ UNCHANGED reports
       \/ Goes(i, "died", "off") /\ reports' = reports \cup {i}
    /\ slot' = [p \in Projects |-> IF p = board[i].project /\ slot[p] = i THEN None ELSE slot[p]]
    /\ UNCHANGED <<site, unlisted, loop, faults>>
    /\ child' = (IF BuiltBy(i) THEN None ELSE child) /\ Left({i, child})

Reports(i) ==
    /\ i \in reports /\ reports' = reports \ {i}
    /\ UNCHANGED <<site, unlisted, loop, child, slot, handler>>
    /\ TryComplete(i, "failed", "", "")
-----------------------------------------------------------------------------
(* What happens to the daemon.                                             *)

\* soul-svc gives up the claim of a task that is taking long.
LeaseExpires(i) ==
    /\ IsTask(i) /\ State(i) = "claimed" /\ Doubles
    /\ board' = [board EXCEPT ![i].state = "pending"]
    /\ UNCHANGED <<site, unlisted, loop, child, slot, handler, reports>>

PersonCancels(i) ==
    /\ Kind(i) = "kickoff" /\ ~Ended(i) /\ Upsets
    /\ UNCHANGED <<site, unlisted, loop, child, slot, handler, reports>>
    /\ Completed(i, "failed", "", "")

DaemonCrash ==
    /\ Upsets
    /\ pc' = "boot" /\ batch' = {} /\ cur' = None /\ child' = None
    /\ slot' = [p \in Projects |-> None] /\ handler' = [i \in Ids |-> "off"]
    /\ reports' = {}
    /\ board' = [i \in Ids |-> IF Ended(i) THEN NoTask ELSE board[i]]
    /\ UNCHANGED <<site, unlisted>>
=============================================================================
