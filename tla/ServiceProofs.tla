--------------------------- MODULE ServiceProofs ----------------------------
(***************************************************************************)
(* Proofs about Service: the zombie guard and the lock it implements.      *)
(***************************************************************************)
EXTENDS Service, TLAPS

Tickets == [status : {"pending", "dispatched", "open", "escalated", "failed", "merged"},
            dispatches : Nat, retries : 0..RetryBudget]

\* Every kickoff that is under way holds the slot of its project.
SlotHeld == \A i \in Ids : Tracked(i) /\ board[i].project # None => slot[board[i].project] = i

\* What the loop holds, and the types the handlers build their tasks from.
Rest ==
    /\ pc = "held" => cur \in Ids
    /\ at \in [Ids -> Projects \cup {None}]
    /\ ticket \in Tickets

\* No handler is without its task, and none runs before the loop does.
Rooted == /\ \A i \in Ids : Kind(i) = "none" => handler[i] = "off"
          /\ pc = "boot" => \A i \in Ids : handler[i] = "off"

Shape ==
    /\ board \in [Ids -> Task]
    /\ handler \in [Ids -> Handlers]
    /\ slot \in [Projects -> Ids \cup {None}]
    /\ Rest /\ Rooted /\ SlotHeld

Kept(j) == board'[j].kind = board[j].kind /\ board'[j].project = board[j].project
BoardStep ==
    /\ board' \in [Ids -> Task]
    /\ \A j \in Ids : \/ Kept(j)
                      \/ board'[j] = NoTask /\ handler'[j] = "off"
                      \/ Kind(j) = "none" /\ handler'[j] = "off"
OneMoves == \E i \in Ids : \A j \in Ids \ {i} : handler'[j] = handler[j]
Calm ==
    /\ BoardStep
    /\ slot' = slot
    /\ handler' \in [Ids -> Handlers]
    /\ handler' = handler \/ OneMoves
    /\ \A j \in Ids : handler'[j] \in Alive => handler[j] \in Alive
    /\ \A j \in Ids : handler[j] = "off" => handler'[j] = "off"
-----------------------------------------------------------------------------
LEMMA NoTaskType == NoTask \in Task /\ NoTask.kind = "none"
  BY DEF NoTask, NewTask, Task, Whys, Answers, None

LEMMA CompletedSteps ==
    ASSUME Shape, NEW i, NEW state \in {"pending", "claimed", "completed", "failed"}, NEW why \in Whys, NEW answer \in Answers,
           Completed(i, state, why, answer)
    PROVE  BoardStep
<1>1. ASSUME NEW j \in Ids
      PROVE  /\ board'[j] \in Task
             /\ Kept(j) \/ (board'[j] = NoTask /\ handler'[j] = "off")
  <2>1. CASE j # i \/ (Ended(i) /\ ~Gone(i))
    BY <2>1 DEF Shape, Completed, Kept
  <2>2. CASE j = i /\ Gone(i)
    BY <2>2, NoTaskType DEF Shape, Completed, Gone
  <2>3. CASE j = i /\ ~Gone(i) /\ ~Ended(i)
    <3>1. board'[j] = [board[j] EXCEPT !.state = state, !.why = why, !.answer = answer]
      BY <2>3 DEF Shape, Completed
    <3>2. board[j] \in Task
      BY DEF Shape
    <3>3. board'[j] \in Task
      BY <3>1, <3>2 DEF Task
    <3>4. Kept(j)
      BY <3>1, <3>2 DEF Task, Kept
    <3> QED
      BY <3>3, <3>4
  <2> QED
    BY <2>1, <2>2, <2>3
<1>2. board' = [j \in Ids |-> board'[j]]
  BY DEF Shape, Completed
<1> QED
  BY <1>1, <1>2 DEF BoardStep

LEMMA TrySteps ==
    ASSUME Shape, NEW i, NEW state \in {"pending", "claimed", "completed", "failed"}, NEW why \in Whys, NEW answer \in Answers,
           TryComplete(i, state, why, answer)
    PROVE  BoardStep
  BY CompletedSteps DEF Shape, TryComplete, BoardStep, Kept

LEMMA LeftSteps ==
    ASSUME Shape, NEW ids, Left(ids)
    PROVE  BoardStep
<1>1. ASSUME NEW j \in Ids
      PROVE  Kept(j) \/ (board'[j] = NoTask /\ handler'[j] = "off")
  BY DEF Left, Gone, Kept
<1>2. board' \in [Ids -> Task]
  BY NoTaskType DEF Shape, Left
<1> QED
  BY <1>1, <1>2 DEF BoardStep

LEMMA PostedSteps ==
    ASSUME Shape, NEW task \in Task, NEW ids, NEW n, Fresh(ids, n), Posted(task, ids),
           \A j \in Ids : handler[j] = "off" => handler'[j] = "off"
    PROVE  BoardStep
  BY DEF Shape, Rooted, Posted, Fresh, Free, IsTask, BoardStep, Kept, Kind

LEMMA CreatingSteps ==
    ASSUME Shape, NEW task \in Task, Creating(task),
           \A j \in Ids : handler[j] = "off" => handler'[j] = "off"
    PROVE  BoardStep
<1>1. CASE UNCHANGED board
  BY <1>1 DEF Shape, BoardStep, Kept
<1>2. CASE \E n \in 1..Cardinality(Ids), ids \in SUBSET Ids : Posts(task, n, ids)
  BY <1>2, PostedSteps DEF Posts
<1> QED
  BY <1>1, <1>2 DEF Creating, Created, Lost

LEMMA SameSteps == ASSUME Shape, board' = board PROVE BoardStep
  BY DEF Shape, BoardStep, Kept

LEMMA StillCalm ==
    ASSUME Shape, BoardStep, slot' = slot, handler' = handler PROVE Calm
  BY DEF Shape, Calm

LEMMA MovesCalm ==
    ASSUME Shape, BoardStep, slot' = slot, NEW i \in Ids, NEW to \in Handlers,
           handler' = [handler EXCEPT ![i] = to],
           handler[i] # "off", to \in Alive => handler[i] \in Alive
    PROVE  Calm
<1>1. \A j \in Ids : handler'[j] = IF j = i THEN to ELSE handler[j]
  BY DEF Shape
<1>2. handler' \in [Ids -> Handlers]
  BY DEF Shape
<1> QED
  BY <1>1, <1>2 DEF Calm, OneMoves

LEMMA TaskTypes ==
    /\ \A project \in Projects \cup {None}, n \in Nat, kind \in {"kickoff", "doctor", "builder"} :
          /\ NewTask(kind, project, n) \in Task
          /\ [NewTask(kind, project, n) EXCEPT !.marked = TRUE] \in Task
    /\ {"", "self", "payload"} = Whys /\ {"", "pr", "gap", "silent", "text"} = Answers
<1>1. {"", "self", "payload"} = Whys /\ {"", "pr", "gap", "silent", "text"} = Answers
  BY DEF Whys, Answers
<1>2. "" \in Whys /\ "" \in Answers
  BY <1>1
<1>3. ASSUME NEW project \in Projects \cup {None}, NEW n \in Nat,
             NEW kind \in {"kickoff", "doctor", "builder"},
             NEW why \in Whys, NEW answer \in Answers
      PROVE  [kind |-> kind, project |-> project, marked |-> FALSE, budget |-> n,
              state |-> "pending", why |-> why, answer |-> answer] \in Task
  BY DEF Task
<1>4. \A task \in Task : [task EXCEPT !.marked = TRUE] \in Task
  BY DEF Task
<1>5. ASSUME NEW project \in Projects \cup {None}, NEW n \in Nat,
             NEW kind \in {"kickoff", "doctor", "builder"}
      PROVE  /\ NewTask(kind, project, n) \in Task
             /\ [NewTask(kind, project, n) EXCEPT !.marked = TRUE] \in Task
  <2>1. NewTask(kind, project, n) \in Task
    BY <1>2, <1>3 DEF NewTask
  <2>2. [NewTask(kind, project, n) EXCEPT !.marked = TRUE] \in Task
    BY <1>4, <2>1
  <2> QED BY <2>1, <2>2
<1> QED BY <1>1, <1>5

LEMMA ProjectType == ASSUME Shape, NEW i \in Ids PROVE board[i].project \in Projects \cup {None}
<1>1. board[i] \in Task
  BY DEF Shape
<1> QED
  BY <1>1 DEF Task

LEMMA ReadingType == Reading \in Answers
  BY DEF Reading, Answers

LEMMA HandlerTypes == Alive \subseteq Handlers
  BY DEF Alive, Handlers
-----------------------------------------------------------------------------
(* Only three steps are not calm: a spawn, a cleared slot and a crash.     *)

LEMMA LoopCalm ==
    ASSUME Shape, Loop PROVE Calm \/ Spawn
<1> USE DEF None
<1>1. CASE Boot
  <2>1. \A j \in Ids : board'[j] = board[j] \/ (board'[j] = NoTask /\ handler'[j] = "off")
    BY <1>1 DEF Boot, Shape, Rooted
  <2>2. board' \in [Ids -> Task]
    BY <1>1, NoTaskType DEF Boot, Shape
  <2>3. BoardStep
    BY <2>1, <2>2 DEF BoardStep, Kept
  <2> QED
    BY <1>1, <2>3, StillCalm DEF Boot
<1>2. CASE Poll
  BY <1>2, SameSteps, StillCalm DEF Poll
<1>3. CASE Unhandled
  BY <1>3, TrySteps, StillCalm, TaskTypes DEF Unhandled
<1>4. CASE RejectDuplicate
  BY <1>4, TrySteps, StillCalm, TaskTypes DEF RejectDuplicate
<1>5. CASE \E i \in Ids : PassOver(i)
  BY <1>5, SameSteps, StillCalm DEF PassOver
<1>6. ASSUME NEW i \in Ids, Claims(i) PROVE Calm
  <2>1. CASE board' = board
    BY <1>6, <2>1, SameSteps, StillCalm DEF Claims, Claim
  <2>2. CASE board' = [board EXCEPT ![i].state = "claimed"]
    <3>1. board[i] \in Task
      BY DEF Shape
    <3>2. [board[i] EXCEPT !.state = "claimed"] \in Task
      BY <3>1 DEF Task
    <3>3. \A j \in Ids : Kept(j)
      BY <2>2, <3>1 DEF Shape, Kept, Task
    <3>4. BoardStep
      BY <2>2, <3>2, <3>3 DEF Shape, BoardStep
    <3> QED
      BY <1>6, <3>4, StillCalm DEF Claims, Claim
  <2> QED
    BY <1>6, <2>1, <2>2 DEF Claims, Claim
<1>7. CASE GateHit
  BY <1>7, TrySteps, StillCalm, TaskTypes DEF GateHit, Inline
<1>8. CASE GatePassed
  BY <1>8, SameSteps, StillCalm DEF GatePassed, Inline
<1>9. CASE GatewayFails
  BY <1>9, SameSteps, CompletedSteps, StillCalm, TaskTypes DEF GatewayFails, Inline
<1>10. CASE Reply
  BY <1>10, TrySteps, StillCalm, TaskTypes, ReadingType DEF Reply, Inline
<1>11. CASE \E turn \in Turns : Turn(turn)
  BY <1>11, SameSteps, StillCalm DEF Turn, Inline
<1>12. CASE \E text \in Texts : Says(text)
  BY <1>12, SameSteps, StillCalm DEF Says, Inline
<1> QED
  BY <1>1, <1>2, <1>3, <1>4, <1>5, <1>6, <1>7, <1>8, <1>9, <1>10, <1>11, <1>12 DEF Loop

LEMMA KickoffCalm ==
    ASSUME Shape, NEW i \in Ids, Kickoff(i) PROVE Calm \/ ClearSlot(i)
<1>1. CASE Parses(i)
  <2>1. PICK to \in {"refused", "running"} :
            handler[i] = "fresh" /\ handler' = [handler EXCEPT ![i] = to] /\ board' = board /\ slot' = slot
    BY <1>1 DEF Parses, ParsePayload, Goes, Off
  <2> QED
    BY <2>1, SameSteps, MovesCalm DEF Handlers, Alive
<1>2. CASE HydratesFirst(i)
  BY <1>2, SameSteps, StillCalm DEF HydratesFirst
<1>3. CASE Completes(i)
  BY <1>3, TrySteps, MovesCalm, TaskTypes DEF Completes, Goes, Off, Handlers, Alive
<1>4. CASE Raises(i) \/ CancelSeen(i)
  BY <1>4, SameSteps, MovesCalm DEF Raises, CancelSeen, Goes, Off, Handlers, Alive
<1>5. CASE Requeues(i)
  <2>1. board[i] \in Task /\ board[i].budget - 1 \in Nat
    BY <1>5 DEF Shape, Requeues, Task
  <2>2. NewTask("kickoff", board[i].project, board[i].budget - 1) \in Task
    BY <2>1, TaskTypes, ProjectType
  <2>3. handler[i] = "running" /\ handler' = [handler EXCEPT ![i] = "failing"] /\ slot' = slot
    BY <1>5 DEF Requeues, Goes, Off
  <2>4. BoardStep
    <3>1. \A j \in Ids : handler[j] = "off" => handler'[j] = "off"
      BY <2>3 DEF Shape
    <3> QED
      BY <1>5, <2>2, <3>1, CreatingSteps DEF Requeues
  <2> QED
    BY <2>3, <2>4, MovesCalm DEF Handlers, Alive
<1>6. CASE FailKickoff(i)
  BY <1>6, TrySteps, MovesCalm, TaskTypes DEF FailKickoff, Goes, Off, Handlers, Alive
<1>7. CASE Drained(i)
  BY <1>7, TrySteps, MovesCalm, TaskTypes DEF Drained, Goes, Off, Handlers, Alive
<1>8. CASE Reports(i)
  BY <1>8, TrySteps, StillCalm, TaskTypes DEF Reports
<1>9. CASE DispatchesChild(i)
  <2>1. ticket.dispatches \in Nat
    BY DEF Shape, Rest, Tickets
  <2>2. NewTask("builder", board[i].project, ticket.dispatches) \in Task
    BY <2>1, TaskTypes, ProjectType
  <2>3. handler' = handler /\ slot' = slot
    BY <1>9 DEF DispatchesChild, Steady
  <2>4. Creating(NewTask("builder", board[i].project, ticket.dispatches))
    BY <1>9 DEF DispatchesChild, Creating
  <2> QED
    BY <2>2, <2>3, <2>4, CreatingSteps, StillCalm
<1>10. CASE PrFound(i) \/ CountsAgain(i) \/ Merges(i)
  BY <1>10, SameSteps, StillCalm DEF PrFound, CountsAgain, Merges, Steady
<1>11. CASE Collects(i) \/ GivesUp(i) \/ TimesOut(i)
  BY <1>11, LeftSteps, StillCalm DEF Collects, GivesUp, TimesOut, Released, Steady
<1>12. CASE Clears(i)
  BY <1>12 DEF Clears
<1> QED
  BY <1>1, <1>2, <1>3, <1>4, <1>5, <1>6, <1>7, <1>8, <1>9, <1>10, <1>11, <1>12 DEF Kickoff

LEMMA DoctorsCalm ==
    ASSUME Shape, NEW i \in Ids, Doctors(i) PROVE Calm
<1> USE DEF None
<1>1. CASE Starts(i)
  BY <1>1, SameSteps, MovesCalm DEF Starts, Goes, Handlers, Alive
<1>2. CASE Scans(i) \/ Patches(i) \/ Saves(i) \/ Watches(i) \/ Notes(i) \/ Spares(i) \/ AsksClaimed(i)
  BY <1>2, SameSteps, StillCalm
  DEF Scans, Patches, Saves, Watches, Notes, Spares, AsksClaimed, Thinks, Calls, daemonVars
<1>3. CASE \E project \in Projects : Passes(i, project) \/ AsksPending(i, project)
  BY <1>3, SameSteps, StillCalm DEF Passes, AsksPending, Thinks, Calls, daemonVars
<1>4. CASE Restarts(i)
  <2> DEFINE task == [NewTask("kickoff", at[i], 1) EXCEPT !.marked = TRUE]
  <2>1. task \in Task
    BY <1>4, TaskTypes DEF Shape, Rest, Restarts, Stage
  <2>2. Creating(task) /\ handler' = handler /\ slot' = slot
    BY <1>4 DEF Restarts, Creating
  <2> QED
    BY <2>1, <2>2, CreatingSteps, StillCalm
<1>5. CASE QueuesNext(i)
  BY <1>5, TaskTypes, CreatingSteps, StillCalm DEF QueuesNext, Calls
<1>6. CASE Closes(i)
  BY <1>6, CompletedSteps, SameSteps, MovesCalm, TaskTypes DEF Closes, Stage, Calls, Handlers, Alive
<1> QED
  BY <1>1, <1>2, <1>3, <1>4, <1>5, <1>6 DEF Doctors

LEMMA WorldCalm ==
    ASSUME Shape, World PROVE Calm \/ Crash
<1> USE DEF None
<1>1. ASSUME NEW i \in Ids, HandlerDies(i) PROVE Calm
  BY <1>1, SameSteps, MovesCalm DEF HandlerDies, Dies, Off, Live, Handlers, Alive
<1>2. ASSUME NEW i \in Ids, LeaseExpires(i) PROVE Calm
  <2>1. board[i] \in Task /\ [board[i] EXCEPT !.state = "pending"] \in Task
    BY DEF Shape, Task
  <2>2. \A j \in Ids : Kept(j)
    BY <1>2, <2>1 DEF Shape, Kept, Task, LeaseExpires
  <2>3. BoardStep
    BY <1>2, <2>1, <2>2 DEF Shape, BoardStep, LeaseExpires
  <2> QED
    BY <1>2, <2>3, StillCalm DEF LeaseExpires
<1>3. ASSUME NEW i \in Ids, PersonCancels(i) PROVE Calm
  BY <1>3, CompletedSteps, StillCalm, TaskTypes DEF PersonCancels
<1>4. CASE PersonStartsDoctor
  <2>1. NewTask("doctor", None, 0) \in Task
    BY TaskTypes
  <2>2. BoardStep /\ handler' = handler /\ slot' = slot
    BY <1>4, <2>1, PostedSteps DEF PersonStartsDoctor
  <2> QED
    BY <2>2, StillCalm
<1>5. CASE Tick \/ PersonEdits
  BY <1>5, SameSteps, StillCalm DEF Tick, PersonEdits, daemonVars
<1>6. CASE EditRegistry \/ PersonTakes
  BY <1>6, SameSteps, StillCalm DEF EditRegistry, PersonTakes
<1> QED
  BY <1>1, <1>2, <1>3, <1>4, <1>5, <1>6 DEF World
-----------------------------------------------------------------------------
(* The types of the rest.                                                  *)

LEMMA TicketTypes ==
    /\ NewTicket \in Tickets
    /\ ticket \in Tickets =>
          /\ Retried \in Tickets
          /\ \A status \in {"pending", "dispatched", "open", "escalated", "failed", "merged"} :
                /\ [ticket EXCEPT !.status = status] \in Tickets
                /\ [ticket EXCEPT !.status = status, !.dispatches = @ + 1] \in Tickets
<1>1. NewTicket \in Tickets
  BY BuilderAssumption DEF NewTicket, Tickets
<1>2. ASSUME NEW t \in Tickets,
             NEW status \in {"pending", "dispatched", "open", "escalated", "failed", "merged"}
      PROVE  [t EXCEPT !.status = status] \in Tickets
  BY <1>2 DEF Tickets
<1>3. ASSUME NEW t \in Tickets, t.retries > 0
      PROVE  [t EXCEPT !.retries = t.retries - 1] \in Tickets
  BY <1>3, BuilderAssumption DEF Tickets
<1>4. ASSUME NEW t \in Tickets PROVE [t EXCEPT !.dispatches = t.dispatches + 1] \in Tickets
  BY <1>4 DEF Tickets
<1>5. ASSUME ticket \in Tickets PROVE Retried \in Tickets
  <2>1. CASE ticket.retries > 0
    <3> DEFINE t == [ticket EXCEPT !.status = "pending"]
    <3>1. t \in Tickets /\ t.retries = ticket.retries
      BY <1>2, <1>5 DEF Tickets
    <3>2. Retried = [t EXCEPT !.retries = t.retries - 1]
      BY <1>5, <2>1, <3>1 DEF Retried, Tickets
    <3> QED
      BY <1>3, <2>1, <3>1, <3>2
  <2>2. CASE ~(ticket.retries > 0)
    BY <1>2, <1>5, <2>2 DEF Retried
  <2> QED
    BY <2>1, <2>2
<1>6. ASSUME ticket \in Tickets,
             NEW status \in {"pending", "dispatched", "open", "escalated", "failed", "merged"}
      PROVE  [ticket EXCEPT !.status = status, !.dispatches = @ + 1] \in Tickets
  <2> DEFINE t == [ticket EXCEPT !.status = status]
  <2>1. t \in Tickets /\ t.dispatches = ticket.dispatches
    BY <1>2, <1>6 DEF Tickets
  <2>2. [ticket EXCEPT !.status = status, !.dispatches = @ + 1] = [t EXCEPT !.dispatches = t.dispatches + 1]
    BY <1>6, <2>1 DEF Tickets
  <2> QED
    BY <1>4, <2>1, <2>2
<1> QED
  BY <1>1, <1>2, <1>5, <1>6

LEMMA RestSame ==
    ASSUME Shape, pc' = "held" => pc = "held" /\ cur' = cur, at' = at, ticket' = ticket
    PROVE  Rest'
  BY DEF Shape, Rest

LEMMA LoopRest ==
    ASSUME Shape, Loop PROVE Rest' /\ pc' # "boot"
<1>1. CASE (Boot \/ Poll \/ Unhandled \/ RejectDuplicate \/ Spawn) /\ Quiet
  BY <1>1, RestSame
  DEF Boot, Poll, Unhandled, RejectDuplicate, Spawn, Quiet, doctorVars, work, builderVars
<1>2. ASSUME NEW i \in Ids, PassOver(i) /\ Quiet PROVE Rest' /\ pc' # "boot"
  BY <1>2, RestSame DEF PassOver, Quiet, doctorVars, work, builderVars
<1>3. ASSUME NEW i \in Ids, Claims(i) PROVE Rest' /\ pc' # "boot"
  BY <1>3 DEF Shape, Rest, Claims, Claim, DoctorRest, NoBuilder, work, builderVars
<1>4. CASE (GateHit \/ GatePassed \/ GatewayFails \/ Reply) /\ NoDoctor
  BY <1>4, RestSame
  DEF GateHit, GatePassed, GatewayFails, Reply, LetGo, NoDoctor, doctorVars, work
<1>5. ASSUME NEW turn \in Turns, Turn(turn) /\ NoDoctor PROVE Rest' /\ pc' # "boot"
  BY <1>5, RestSame DEF Turn, NoDoctor, doctorVars, work
<1>6. ASSUME NEW text \in Texts, Says(text) /\ NoDoctor PROVE Rest' /\ pc' # "boot"
  BY <1>6, RestSame DEF Says, NoDoctor, doctorVars, work
<1> QED
  BY <1>1, <1>2, <1>3, <1>4, <1>5, <1>6 DEF Loop

LEMMA KickoffRest ==
    ASSUME Shape, NEW i \in Ids, Kickoff(i) PROVE Rest' /\ pc' = pc
<1>1. at' = at /\ pc' = pc /\ cur' = cur
  <2>1. CASE Parses(i) \/ Clears(i) \/ (HydratesFirst(i) /\ UNCHANGED doctorVars)
    BY <2>1 DEF Parses, ParsePayload, Clears, ClearSlot, NoDoctor, HydratesFirst, Off, loop, doctorVars, work
  <2>2. CASE (Completes(i) \/ Raises(i) \/ Requeues(i) \/ CancelSeen(i) \/ FailKickoff(i)
              \/ Drained(i) \/ Reports(i)) /\ Quiet
    BY <2>2 DEF Completes, Raises, Requeues, CancelSeen, FailKickoff, Drained, Reports, Off, loop, Quiet,
                doctorVars, work
  <2>3. CASE (DispatchesChild(i) \/ PrFound(i) \/ Collects(i) \/ GivesUp(i) \/ TimesOut(i)
              \/ CountsAgain(i) \/ Merges(i)) /\ NoDoctor
    BY <2>3 DEF DispatchesChild, PrFound, Collects, GivesUp, TimesOut, CountsAgain, Merges, Released,
                Steady, loop, NoDoctor, doctorVars, work
  <2> QED
    BY <2>1, <2>2, <2>3 DEF Kickoff
<1>2. ticket' \in Tickets
  <2> USE TicketTypes
  <2>1. CASE Parses(i) \/ Clears(i)
    BY <2>1 DEF Shape, Rest, Parses, Clears, Anew
  <2>2. CASE NoBuilder \/ Quiet
    BY <2>2 DEF Shape, Rest, NoBuilder, Quiet, builderVars
  <2>3. CASE DispatchesChild(i) \/ PrFound(i) \/ CountsAgain(i) \/ Merges(i)
    BY <2>3 DEF Shape, Rest, DispatchesChild, PrFound, CountsAgain, Merges, Goal
  <2>4. CASE Collects(i) \/ GivesUp(i) \/ TimesOut(i)
    BY <2>4 DEF Shape, Rest, Collects, GivesUp, TimesOut, Goal
  <2> QED
    BY <2>1, <2>2, <2>3, <2>4 DEF Kickoff
<1> QED
  BY <1>1, <1>2 DEF Shape, Rest

LEMMA DoctorsRest ==
    ASSUME Shape, NEW i \in Ids, Doctors(i) PROVE Rest' /\ pc' = pc
<1>1. pc' = pc /\ cur' = cur
  <2>1. CASE Starts(i) \/ Scans(i) \/ Patches(i) \/ Saves(i) \/ Watches(i) \/ Notes(i) \/ Restarts(i)
    BY <2>1 DEF Starts, Scans, Patches, Saves, Watches, Notes, Restarts, loop
  <2>2. CASE \E project \in Projects : Passes(i, project) \/ AsksPending(i, project)
    BY <2>2 DEF Passes, AsksPending, Thinks, Calls, daemonVars, loop
  <2>3. CASE AsksClaimed(i) \/ Spares(i) \/ QueuesNext(i) \/ Closes(i)
    BY <2>3 DEF AsksClaimed, Spares, QueuesNext, Closes, Thinks, Calls, daemonVars, loop
  <2> QED
    BY <2>1, <2>2, <2>3 DEF Doctors
<1>2. at' \in [Ids -> Projects \cup {None}]
  <2>1. CASE Starts(i) \/ Scans(i) \/ Patches(i) \/ Saves(i) \/ Watches(i) \/ Notes(i) \/ Restarts(i)
    BY <2>1 DEF Shape, Rest, Starts, Surveys, Scans, Patches, Saves, Watches, Notes, Restarts
  <2>2. CASE \E project \in Projects : Passes(i, project) \/ AsksPending(i, project)
    BY <2>2 DEF Shape, Rest, Passes, AsksPending
  <2>3. CASE AsksClaimed(i) \/ Spares(i) \/ QueuesNext(i) \/ Closes(i)
    BY <2>3 DEF Shape, Rest, AsksClaimed, Spares, QueuesNext, Closes
  <2> QED
    BY <2>1, <2>2, <2>3 DEF Doctors
<1>3. ticket' = ticket
  BY DEF Doctors, NoBuilder, builderVars
<1> QED
  BY <1>1, <1>2, <1>3 DEF Shape, Rest

LEMMA WorldRest ==
    ASSUME Shape, World PROVE Rest' /\ (Crash \/ pc' = pc)
<1>1. ASSUME NEW i \in Ids, HandlerDies(i) PROVE Rest' /\ pc' = pc
  BY <1>1 DEF Shape, Rest, HandlerDies, Dies, Off, loop, Forgets, NoBuilder, builderVars
<1>2. ASSUME NEW i \in Ids, (LeaseExpires(i) \/ PersonCancels(i)) /\ Quiet PROVE Rest' /\ pc' = pc
  BY <1>2, RestSame DEF LeaseExpires, PersonCancels, loop, Quiet, doctorVars, work, builderVars
<1>3. CASE Crash
  BY <1>3, TicketTypes DEF Crash, DaemonCrash, Forgets, Anew, Rest
<1>4. CASE PersonStartsDoctor
  BY <1>4, RestSame DEF PersonStartsDoctor, loop, Quiet, doctorVars, work, builderVars
<1>5. CASE Tick /\ NoBuilder
  BY <1>5, RestSame DEF Tick, daemonVars, loop, NoBuilder, builderVars
<1>6. CASE PersonEdits /\ UNCHANGED doctorVars /\ NoBuilder
  BY <1>6, RestSame DEF PersonEdits, daemonVars, loop, doctorVars, work, NoBuilder, builderVars
<1>7. CASE (EditRegistry \/ PersonTakes) /\ NoDoctor
  BY <1>7, RestSame DEF EditRegistry, PersonTakes, loop, NoDoctor, doctorVars, work
<1> QED
  BY <1>1, <1>2, <1>3, <1>4, <1>5, <1>6, <1>7 DEF World
-----------------------------------------------------------------------------
(* The steps, put together.                                                *)

\* What every step is: it moves at most one handler and starts none, or it is one
\* of three.
LEMMA StepKinds ==
    ASSUME Shape, Next
    PROVE  /\ Rest'
           /\ \/ Calm /\ (pc' = "boot" => pc = "boot")
              \/ Spawn /\ pc' # "boot"
              \/ (\E i \in Ids : ClearSlot(i)) /\ pc' = pc
              \/ Crash
<1>1. CASE Loop
  BY <1>1, LoopCalm, LoopRest
<1>2. CASE World
  BY <1>2, WorldCalm, WorldRest
<1>3. ASSUME NEW i \in Ids, Kickoff(i)
      PROVE  Rest' /\ (Calm \/ ClearSlot(i)) /\ pc' = pc
  BY <1>3, KickoffCalm, KickoffRest
<1>4. ASSUME NEW i \in Ids, Doctors(i) PROVE Rest' /\ Calm /\ pc' = pc
  BY <1>4, DoctorsCalm, DoctorsRest
<1> QED
  BY <1>1, <1>2, <1>3, <1>4 DEF Next

LEMMA CalmShape ==
    ASSUME Shape, Calm, Rest', pc' = "boot" => pc = "boot" PROVE Shape'
<1>1. Rooted'
  BY DEF Shape, Rooted, Calm, BoardStep, Kept, Kind
<1>2. ASSUME NEW i \in Ids, Tracked(i)', board'[i].project # None
      PROVE  slot'[board'[i].project] = i
  <2>1. handler'[i] # "off" /\ handler[i] \in Alive
    BY <1>2 DEF Tracked, Live, Calm, Alive
  <2>2. Kept(i)
    BY <2>1 DEF Calm, BoardStep
  <2> QED
    BY <1>2, <2>1, <2>2 DEF Shape, SlotHeld, Tracked, Live, Kept, Kind, Calm
<1> QED
  BY <1>1, <1>2 DEF Shape, SlotHeld, Calm, BoardStep

\* A project has a handler only while the loop may not start another.
LEMMA SpawnShape ==
    ASSUME Shape, Spawn, Rest', pc' # "boot" PROVE Shape'
<1> USE DEF None
<1>1. cur \in Ids /\ Kind(cur) # "none" /\ ~Occupied /\ board[cur] \in Task
  BY DEF Spawn, Shape, Rest
<1>2. handler' = [handler EXCEPT ![cur] = "fresh"]
  BY DEF Spawn
<1>3. \A j \in Ids : handler'[j] = IF j = cur THEN "fresh" ELSE handler[j]
  BY <1>1, <1>2 DEF Shape
<1>4. handler' \in [Ids -> Handlers]
  BY <1>2 DEF Shape, Handlers
<1>5. BoardStep
  BY LeftSteps DEF Spawn
<1>6. \A j \in Ids : Kept(j) \/ handler'[j] = "off"
  BY <1>5 DEF BoardStep
<1>7. Kept(cur)
  BY <1>1, <1>3, <1>6
<1>8. slot' \in [Projects -> Ids \cup {None}]
  BY <1>1 DEF Spawn, Shape
<1>9. Rooted'
  BY <1>1, <1>3, <1>6 DEF Shape, Rooted, Kept, Kind
<1>10. ASSUME NEW i \in Ids, Tracked(i)', board'[i].project # None
       PROVE  slot'[board'[i].project] = i
  <2>1. handler'[i] \in Alive /\ Kept(i)
    BY <1>6, <1>10 DEF Tracked, Live, Alive
  <2>2. board[i] \in Task /\ board[i].project \in Projects
    BY <1>10, <2>1 DEF Shape, Task, Kept
  <2>3. CASE i = cur
    BY <1>10, <2>1, <2>2, <2>3 DEF Spawn, Shape, Project, Kept
  <2>4. CASE i # cur
    <3>1. Tracked(i) /\ slot[board[i].project] = i
      BY <1>3, <1>10, <2>1, <2>2, <2>4 DEF Shape, SlotHeld, Tracked, Live, Kept, Kind
    <3>2. Project # board[i].project
      BY <1>1, <2>2, <3>1, DaemonAssumption DEF Occupied, Tracked
    <3> QED
      BY <2>1, <2>2, <3>1, <3>2 DEF Spawn, Shape, Kept
  <2> QED
    BY <2>3, <2>4
<1> QED
  BY <1>4, <1>5, <1>8, <1>9, <1>10 DEF Shape, SlotHeld, BoardStep

LEMMA ClearShape ==
    ASSUME Shape, NEW i \in Ids, ClearSlot(i), Rest', pc' = pc PROVE Shape'
<1> USE DEF None
<1>1. handler[i] \in {"done", "died"} /\ handler' = [handler EXCEPT ![i] = "off"]
  BY DEF ClearSlot, Goes
<1>2. \A j \in Ids : handler'[j] = IF j = i THEN "off" ELSE handler[j]
  BY <1>1 DEF Shape
<1>3. handler' \in [Ids -> Handlers]
  BY <1>1 DEF Shape, Handlers
<1>4. BoardStep
  BY LeftSteps DEF ClearSlot
<1>5. slot' \in [Projects -> Ids \cup {None}]
  BY DEF ClearSlot, Shape
<1>6. Rooted'
  BY <1>2, <1>4 DEF Shape, Rooted, BoardStep, Kept, Kind
<1>7. ASSUME NEW j \in Ids, Tracked(j)', board'[j].project # None
      PROVE  slot'[board'[j].project] = j
  <2>1. handler'[j] \in Alive /\ j # i
    BY <1>2, <1>7 DEF Tracked, Live, Alive
  <2>2. Kept(j)
    BY <1>4, <2>1 DEF BoardStep, Alive
  <2>3. board[j].project \in Projects /\ Tracked(j)
    BY <1>2, <1>7, <2>1, <2>2 DEF Shape, Task, Kept, Tracked, Live, Kind
  <2>4. slot[board[j].project] = j
    BY <1>7, <2>2, <2>3 DEF Shape, SlotHeld, Kept
  <2> QED
    BY <2>1, <2>2, <2>3, <2>4 DEF ClearSlot, Kept
<1> QED
  BY <1>3, <1>4, <1>5, <1>6, <1>7 DEF Shape, SlotHeld, BoardStep

LEMMA CrashShape ==
    ASSUME Shape, Crash, Rest' PROVE Shape'
<1>1. board' \in [Ids -> Task]
  BY NoTaskType DEF Shape, Crash, DaemonCrash
<1>2. handler' = [j \in Ids |-> "off"] /\ slot' = [project \in Projects |-> None]
  BY DEF Crash, DaemonCrash
<1> QED
  BY <1>1, <1>2 DEF Shape, Rooted, SlotHeld, Tracked, Live, Alive, Handlers

LEMMA ShapeInit ==
    ASSUME Init PROVE Shape
<1>1. board \in [Ids -> Task]
  BY DaemonAssumption DEF Init, DaemonInit, Site
<1>2. handler = [j \in Ids |-> "off"] /\ slot = [project \in Projects |-> None] /\ pc = "boot"
  BY DEF Init, DaemonInit
<1>3. Rest
  BY <1>2, TicketTypes DEF Init, DoctorInit, BuilderInit, Rest
<1> QED
  BY <1>1, <1>2, <1>3 DEF Shape, Rooted, SlotHeld, Tracked, Live, Alive, Handlers

LEMMA ShapeStep ==
    ASSUME Shape, [Next]_vars PROVE Shape'
<1>1. CASE Next
  BY <1>1, StepKinds, CalmShape, SpawnShape, ClearShape, CrashShape
<1>2. CASE UNCHANGED vars
  BY <1>2 DEF vars, daemonVars, loop, doctorVars, work, builderVars, Shape, Rest, Rooted, SlotHeld,
              Tracked, Live, Kind
<1> QED
  BY <1>1, <1>2

\* Every kickoff under way holds the slot of its project (main.py: the slot is taken
\* before the handler's asyncio.Task exists, and cleared only by its own callback).
THEOREM ShapeHolds == Spec => []Shape
<1>1. Init => Shape
  BY ShapeInit
<1>2. Shape /\ [Next]_vars => Shape'
  BY ShapeStep
<1> QED
  BY <1>1, <1>2, PTL DEF Spec

\* The zombie guard (main.py, AB-09), for any number of tasks, projects and faults.
THEOREM OneOrchestratorPerProjectHolds == Spec => []OneOrchestratorPerProject
<1>1. Shape => OneOrchestratorPerProject
  BY DaemonAssumption DEF Shape, SlotHeld, OneOrchestratorPerProject, Runs
<1> QED
  BY <1>1, ShapeHolds, PTL
-----------------------------------------------------------------------------
(* The lock. What runs after a step ran before it, but for what is spawned. *)

LEMMA OwnerIs ==
    ASSUME OneOrchestratorPerProject, NEW project \in Projects, NEW i \in Ids, Runs(project, i)
    PROVE  Owner(project) = i
<1>1. \E j \in Ids : Runs(project, j)
  OBVIOUS
<1>2. (CHOOSE j \in Ids : Runs(project, j)) \in Ids /\ Runs(project, CHOOSE j \in Ids : Runs(project, j))
  BY <1>1
<1> QED
  BY <1>1, <1>2 DEF Owner, OneOrchestratorPerProject

RunsNext(project, j) ==
    (board'[j].kind = "kickoff" /\ handler'[j] \in Alive) /\ board'[j].project = project

LEMMA NextOwnerIs ==
    ASSUME OneOrchestratorPerProject', NEW project \in Projects, NEW i \in Ids, Runs(project, i)'
    PROVE  Owner(project)' = i
<1> DEFINE c == CHOOSE j \in Ids : RunsNext(project, j)
<1>1. \A j \in Ids : Runs(project, j)' <=> RunsNext(project, j)
  BY DEF Runs, Tracked, Live, Kind, RunsNext
<1>2. c \in Ids /\ RunsNext(project, c)
  BY <1>1
<1>3. c = i
  BY <1>1, <1>2 DEF OneOrchestratorPerProject
<1>4. Owner(project)' = IF \E j \in Ids : RunsNext(project, j) THEN c ELSE None
  BY DEF Owner, Runs, Tracked, Live, Kind, RunsNext
<1> QED
  BY <1>2, <1>3, <1>4

LEMMA SameOwner ==
    ASSUME OneOrchestratorPerProject, OneOrchestratorPerProject', NEW project \in Projects,
           \A i \in Ids : Runs(project, i)' <=> Runs(project, i)
    PROVE  Owner(project)' = Owner(project)
<1>1. CASE \E i \in Ids : Runs(project, i)
  BY <1>1, OwnerIs, NextOwnerIs
<1>2. CASE ~\E i \in Ids : Runs(project, i)
  BY <1>2 DEF Owner
<1> QED
  BY <1>1, <1>2

LEMMA CalmLock ==
    ASSUME Shape, OneOrchestratorPerProject, OneOrchestratorPerProject', Calm
    PROVE  Lock!Next \/ UNCHANGED Owners
<1>1. \A project \in Projects, j \in Ids : Runs(project, j)' => Runs(project, j)
  <2> SUFFICES ASSUME NEW project \in Projects, NEW j \in Ids, Runs(project, j)' PROVE Runs(project, j)
    OBVIOUS
  <2>1. handler'[j] \in Alive /\ handler'[j] # "off" /\ handler[j] \in Alive
    BY DEF Runs, Tracked, Live, Alive, Calm
  <2>2. Kept(j)
    BY <2>1 DEF Calm, BoardStep
  <2> QED
    BY <2>1, <2>2 DEF Runs, Tracked, Live, Kept, Kind
<1>2. ASSUME NEW project \in Projects, NEW j \in Ids, Runs(project, j), handler'[j] \in Alive
      PROVE  Runs(project, j)'
  <2>1. Kept(j)
    BY <1>2 DEF Calm, BoardStep, Alive
  <2> QED
    BY <1>2, <2>1 DEF Runs, Tracked, Live, Kept, Kind
<1>3. CASE \A project \in Projects, j \in Ids : Runs(project, j) => Runs(project, j)'
  <2>1. \A project \in Projects : Owner(project)' = Owner(project)
    BY <1>1, <1>3, SameOwner
  <2> QED
    BY <2>1 DEF Owners
<1>4. ASSUME NEW project \in Projects, NEW i \in Ids, Runs(project, i), ~Runs(project, i)'
      PROVE  Lock!Leaves(project)
  <2>1. handler'[i] \notin Alive /\ handler[i] \in Alive
    BY <1>2, <1>4 DEF Runs, Tracked, Live
  <2>2. \A j \in Ids \ {i} : handler'[j] = handler[j]
    BY <2>1 DEF Calm, OneMoves
  <2>3. Owner(project) = i
    BY <1>4, OwnerIs
  <2>4. \A j \in Ids : ~Runs(project, j)'
    BY <1>1, <1>4 DEF OneOrchestratorPerProject
  <2>5. Owner(project)' = None
    BY <2>4 DEF Owner
  <2>6. ASSUME NEW other \in Projects \ {project} PROVE Owner(other)' = Owner(other)
    <3>1. ASSUME NEW j \in Ids, Runs(other, j) PROVE Runs(other, j)'
      <4>1. j # i
        BY <1>4, <3>1 DEF Runs
      <4> QED
        BY <1>2, <2>2, <3>1, <4>1 DEF Runs, Tracked, Live
    <3> QED
      BY <1>1, <3>1, SameOwner
  <2>7. Owners' = [Owners EXCEPT ![project] = None]
    BY <2>5, <2>6 DEF Owners
  <2>8. Owners[project] # None
    BY <2>3, DaemonAssumption DEF Owners
  <2> QED
    BY <2>7, <2>8 DEF Lock!Leaves
<1> QED
  BY <1>3, <1>4 DEF Lock!Next

LEMMA SpawnLock ==
    ASSUME Shape, OneOrchestratorPerProject, OneOrchestratorPerProject', Spawn
    PROVE  Lock!Next \/ UNCHANGED Owners
<1>1. cur \in Ids /\ Kind(cur) \in {"kickoff", "doctor"} /\ ~Occupied /\ handler[cur] = "off"
  BY DEF Spawn, Shape, Rest
<1>2. \A j \in Ids : handler'[j] = IF j = cur THEN "fresh" ELSE handler[j]
  BY <1>1 DEF Shape, Spawn
<1>3. \A j \in Ids : Kept(j) \/ handler'[j] = "off"
  BY LeftSteps DEF Spawn, BoardStep
<1>4. ASSUME NEW project \in Projects, NEW j \in Ids \ {cur}
      PROVE  Runs(project, j)' <=> Runs(project, j)
  BY <1>2, <1>3 DEF Runs, Tracked, Live, Kept, Kind, Alive
<1>5. Kept(cur) /\ handler'[cur] = "fresh"
  BY <1>1, <1>2, <1>3
<1>6. \A project \in Projects : ~Runs(project, cur)
  BY <1>1 DEF Runs, Tracked, Live, Alive
<1>7. ASSUME NEW i \in Ids, i = cur, NEW project \in Projects
      PROVE  Runs(project, i)' <=> (Kind(i) = "kickoff" /\ board[i].project = project)
  BY <1>5, <1>7 DEF Runs, Tracked, Live, Kept, Kind, Alive
<1>8. PICK i \in Ids : i = cur
  BY <1>1
<1>9. ASSUME NEW project \in Projects, Kind(i) = "kickoff", board[i].project = project
      PROVE  Lock!Takes(project, i)
  <2>1. ASSUME NEW j \in Ids, Runs(project, j) PROVE FALSE
    <3>1. Tracked(j) /\ board[j].project = project /\ project # None
      BY <2>1, DaemonAssumption DEF Runs
    <3>2. slot[project] = j
      BY <3>1 DEF Shape, SlotHeld
    <3>3. Project = project
      BY <1>8, <1>9 DEF Project
    <3> QED
      BY <1>1, <3>1, <3>2, <3>3, DaemonAssumption DEF Occupied, Tracked
  <2>2. Owner(project) = None
    BY <2>1 DEF Owner
  <2>3. Runs(project, i)'
    BY <1>7, <1>8, <1>9
  <2>4. Owner(project)' = i
    BY <2>3, NextOwnerIs
  <2>5. ASSUME NEW other \in Projects \ {project} PROVE Owner(other)' = Owner(other)
    <3>1. ~Runs(other, i)' /\ ~Runs(other, i)
      BY <1>6, <1>7, <1>8, <1>9
    <3>2. \A j \in Ids : Runs(other, j)' <=> Runs(other, j)
      BY <1>4, <1>8, <3>1
    <3> QED
      BY <3>2, SameOwner
  <2>6. Owners' = [Owners EXCEPT ![project] = i] /\ Owners[project] = None
    BY <2>2, <2>4, <2>5 DEF Owners
  <2> QED
    BY <2>6 DEF Lock!Takes
<1>10. CASE ~\E project \in Projects : Kind(i) = "kickoff" /\ board[i].project = project
  <2>1. ASSUME NEW project \in Projects PROVE Owner(project)' = Owner(project)
    <3>1. ~Runs(project, i)' /\ ~Runs(project, i)
      BY <1>6, <1>7, <1>8, <1>10
    <3>2. \A j \in Ids : Runs(project, j)' <=> Runs(project, j)
      BY <1>4, <1>8, <3>1
    <3> QED
      BY <3>2, SameOwner
  <2> QED
    BY <2>1 DEF Owners
<1> QED
  BY <1>9, <1>10 DEF Lock!Next

LEMMA ClearLock ==
    ASSUME Shape, OneOrchestratorPerProject, OneOrchestratorPerProject', NEW i \in Ids, ClearSlot(i)
    PROVE  UNCHANGED Owners
<1>1. handler[i] \in {"done", "died"} /\ handler' = [handler EXCEPT ![i] = "off"]
  BY DEF ClearSlot, Goes
<1>2. \A j \in Ids : handler'[j] = IF j = i THEN "off" ELSE handler[j]
  BY <1>1 DEF Shape
<1>3. \A j \in Ids : Kept(j) \/ handler'[j] = "off"
  BY LeftSteps DEF ClearSlot, BoardStep
<1>4. \A project \in Projects, j \in Ids : Runs(project, j)' <=> Runs(project, j)
  BY <1>1, <1>2, <1>3 DEF Runs, Tracked, Live, Kept, Kind, Alive
<1>5. \A project \in Projects : Owner(project)' = Owner(project)
  BY <1>4, SameOwner
<1> QED
  BY <1>5 DEF Owners

LEMMA LockStep ==
    ASSUME Shape, OneOrchestratorPerProject, OneOrchestratorPerProject', [Next]_vars
    PROVE  [Lock!Next]_Owners
<1>1. CASE Crash
  <2>1. \A project \in Projects, j \in Ids : ~Runs(project, j)'
    BY <1>1 DEF Crash, DaemonCrash, Runs, Tracked, Live, Alive
  <2>2. \A project \in Projects : Owner(project)' = None
    BY <2>1 DEF Owner
  <2> QED
    BY <2>2 DEF Lock!Next, Lock!Collapses, Lock!Free, Owners
<1>2. CASE UNCHANGED vars
  BY <1>2 DEF vars, daemonVars, Owners, Owner, Runs, Tracked, Live, Kind
<1>3. CASE Next
  BY <1>1, <1>3, StepKinds, CalmLock, SpawnLock, ClearLock
<1> QED
  BY <1>2, <1>3

\* The daemon implements the lock of Exclusive: a project passes from one orchestrator
\* to the next only through nobody, or all of them go with the daemon.
THEOREM OneOwnerHolds == Spec => OneOwner
<1>1. Init => Lock!Init
  <2> SUFFICES ASSUME Init PROVE Lock!Init
    OBVIOUS
  <2>1. \A project \in Projects, j \in Ids : ~Runs(project, j)
    BY DEF Init, DaemonInit, Runs, Tracked, Live, Alive
  <2>2. \A project \in Projects : Owner(project) = None
    BY <2>1 DEF Owner
  <2> QED
    BY <2>2 DEF Lock!Init, Lock!Free, Owners
<1>2. Shape /\ OneOrchestratorPerProject /\ OneOrchestratorPerProject' /\ [Next]_vars => [Lock!Next]_Owners
  BY LockStep
<1> QED
  BY <1>1, <1>2, ShapeHolds, OneOrchestratorPerProjectHolds, PTL DEF Spec, OneOwner, Lock!Spec
=============================================================================
