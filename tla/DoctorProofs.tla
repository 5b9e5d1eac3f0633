---------------------------- MODULE DoctorProofs ----------------------------
(***************************************************************************)
(* Proofs about Service: the tasks that are left claimed, the chain of     *)
(* doctors, what the doctors remember of restarts and alerts, and the      *)
(* types of everything.                                                    *)
(***************************************************************************)
EXTENDS BuilderProofs, FiniteSetTheorems

Wrongs == [lost : Nat, twice : Nat, upset : Nat]
\* Faults are only ever added.
Worse == /\ faults' \in Wrongs
         /\ faults'.lost >= faults.lost /\ faults'.twice >= faults.twice
         /\ faults'.upset >= faults.upset

LEMMA FaultKinds ==
    ASSUME faults \in Wrongs
    PROVE  /\ UNCHANGED faults => Worse
           /\ Loses => Worse /\ faults'.lost = faults.lost + 1
           /\ Doubles => Worse /\ faults'.twice = faults.twice + 1
           /\ Upsets => Worse /\ faults'.upset = faults.upset + 1
<1>1. UNCHANGED faults => Worse
  BY DEF Wrongs, Worse
<1>2. Loses => Worse /\ faults'.lost = faults.lost + 1
  BY DEF Wrongs, Worse, Loses
<1>3. Doubles => Worse /\ faults'.twice = faults.twice + 1
  BY DEF Wrongs, Worse, Doubles
<1>4. Upsets => Worse /\ faults'.upset = faults.upset + 1
  BY DEF Wrongs, Worse, Upsets
<1> QED
  BY <1>1, <1>2, <1>3, <1>4
-----------------------------------------------------------------------------
(* Tasks that are left claimed.                                            *)

\* Nobody will end the task of its own accord: no handler has it, or one that is
\* over, and it is neither held nor about to be reported.
Owing(j) == State(j) = "claimed" /\ handler[j] \in {"off", "done"} /\ j \notin reports \cup {cur}
Owed == {j \in Ids : Owing(j)}

\* The loop holds a task, or it is at boot or looks at a page.
Holds == IF pc \in {"boot", "scan"} THEN cur = None ELSE cur \in Ids
Accounted ==
    /\ faults \in Wrongs /\ Holds /\ unlisted \in Nat
    /\ pc # "boot" => Cardinality(Owed) <= faults.lost + unlisted

\* A step after which nothing more is owed, or one task for one call that was lost.
OwesNoMore == \A j \in Ids : Owing(j)' => Owing(j)
OwesOne(i) == \A j \in Ids \ {i} : Owing(j)' => Owing(j)
Pays == Worse /\ (OwesNoMore \/ (faults'.lost = faults.lost + 1 /\ \E i \in Ids : OwesOne(i)))

\* What a step does to the tasks it does not post.
Over == {"completed", "failed"}
Stays(j) == board'[j] = board[j]
Finishes(j) == board'[j].state \in Over /\ board'[j].kind \in {Kind(j), "none"}

LEMMA CompletedEnds ==
    ASSUME Shape, NEW i \in Ids, NEW state \in Over, NEW why, NEW answer,
           Completed(i, state, why, answer)
    PROVE  Finishes(i) /\ \A j \in Ids \ {i} : Stays(j)
<1>1. \A j \in Ids \ {i} : Stays(j)
  BY DEF Shape, Completed, Stays
<1>2. board[i] \in Task
  BY DEF Shape
<1>3. CASE Gone(i)
  BY <1>1, <1>3 DEF Shape, Completed, Finishes, Over, NoTask, NewTask
<1>4. CASE ~Gone(i) /\ Ended(i)
  BY <1>1, <1>4 DEF Shape, Completed, Finishes, Over, Ended, State, Kind
<1>5. CASE ~Gone(i) /\ ~Ended(i)
  <2>1. board'[i] = [board[i] EXCEPT !.state = state, !.why = why, !.answer = answer]
    BY <1>5 DEF Shape, Completed
  <2>2. board'[i].state = state /\ board'[i].kind = board[i].kind
    BY <1>2, <2>1 DEF Task
  <2> QED
    BY <1>1, <2>2 DEF Finishes, Kind
<1> QED
  BY <1>3, <1>4, <1>5

LEMMA LeftEnds ==
    ASSUME Shape, NEW ids, Left(ids)
    PROVE  \A j \in Ids : Stays(j) \/ Finishes(j)
  BY DEF Shape, Left, Stays, Finishes, Over, NoTask, NewTask

LEMMA PostedPends ==
    ASSUME Shape, NEW task, task.state = "pending", NEW ids, NEW n, Fresh(ids, n), Posted(task, ids)
    PROVE  \A j \in Ids : \/ Stays(j)
                          \/ Kind(j) = "none" /\ board'[j] = task
  BY DEF Shape, Posted, Fresh, Free, IsTask, Stays

LEMMA IdsFinite == IsFiniteSet(Ids) /\ Cardinality(Ids) \in Nat
  BY DaemonAssumption, FS_CardinalityType

LEMMA CreatingPends ==
    ASSUME Shape, NEW task, task.state = "pending", Creating(task)
    PROVE  \A j \in Ids : \/ Stays(j)
                          \/ Kind(j) = "none" /\ board'[j] = task
<1>1. CASE UNCHANGED board
  BY <1>1 DEF Stays
<1>2. CASE \E n \in 1..Cardinality(Ids), ids \in SUBSET Ids : Posts(task, n, ids)
  BY <1>2, PostedPends DEF Posts
<1> QED
  BY <1>1, <1>2 DEF Creating, Created, Lost

LEMMA CreatingWorse ==
    ASSUME faults \in Wrongs, NEW task, Creating(task) PROVE Worse
<1>1. ASSUME NEW n \in 1..Cardinality(Ids), faults' = [faults EXCEPT !.twice = @ + (n - 1)]
      PROVE  Worse
  BY <1>1, IdsFinite DEF Wrongs, Worse
<1>2. ASSUME NEW n \in 1..Cardinality(Ids),
             faults' = [faults EXCEPT !.lost = @ + 1, !.twice = @ + (n - 1)]
      PROVE  Worse
  <2>1. faults.lost + 1 \in Nat /\ faults.twice + (n - 1) \in Nat /\ faults.twice + (n - 1) >= faults.twice
    BY IdsFinite DEF Wrongs
  <2>2. /\ faults' \in Wrongs /\ faults'.lost = faults.lost + 1
        /\ faults'.twice = faults.twice + (n - 1) /\ faults'.upset = faults.upset
    BY <1>2, <2>1 DEF Wrongs
  <2> QED
    BY <2>1, <2>2 DEF Worse, Wrongs
<1> QED
  BY <1>1, <1>2, FaultKinds DEF Creating, Created, Lost

LEMMA TryEnds ==
    ASSUME Shape, faults \in Wrongs, NEW i \in Ids, NEW state \in Over, NEW why, NEW answer,
           TryComplete(i, state, why, answer)
    PROVE  /\ Worse /\ \A j \in Ids \ {i} : Stays(j)
           /\ Finishes(i) \/ (Stays(i) /\ faults'.lost = faults.lost + 1)
  BY CompletedEnds, FaultKinds DEF TryComplete, Stays

\* A handler of which nothing is owed goes where nothing is owed either.
LEMMA NothingOwed ==
    ASSUME Shape, Worse, cur' = cur, reports' = reports,
           \A j \in Ids : board'[j].state # "claimed" \/ Stays(j),
           \A j \in Ids : handler'[j] \in {"off", "done"} => handler[j] \in {"off", "done"}
    PROVE  Pays
  BY DEF Shape, Stays, Pays, OwesNoMore, Owing, State

\* A task is let go with the attempt to end it.
LEMMA LetGoOwes ==
    ASSUME Shape, faults \in Wrongs, NEW i \in Ids, NEW state \in Over, NEW why, NEW answer,
           TryComplete(i, state, why, answer), reports \ {i} \subseteq reports',
           cur' = cur \/ cur = i,
           \A j \in Ids \ {i} : handler'[j] = handler[j]
    PROVE  Pays
<1>1. /\ Worse /\ \A j \in Ids \ {i} : Stays(j)
      /\ Finishes(i) \/ (Stays(i) /\ faults'.lost = faults.lost + 1)
  BY TryEnds
<1>2. OwesOne(i)
  BY <1>1 DEF OwesOne, Owing, Stays, State
<1>3. CASE Finishes(i)
  BY <1>1, <1>2, <1>3 DEF Pays, OwesOne, OwesNoMore, Owing, Finishes, Over, State
<1> QED
  BY <1>1, <1>2, <1>3 DEF Pays

LEMMA LoopPays ==
    ASSUME Shape, Accounted, pc # "boot", Loop PROVE Pays /\ Holds'
<1> USE DEF None
<1>1. faults \in Wrongs
  BY DEF Accounted
<1>2. CASE Poll \/ \E i \in Ids : PassOver(i)
  BY <1>2, FaultKinds, NothingOwed DEF Poll, PassOver, Accounted, Holds, Stays
<1>3. CASE Spawn
  <2>1. cur \in Ids /\ handler' = [handler EXCEPT ![cur] = "fresh"] /\ cur' = None
    BY <1>3 DEF Spawn, Shape, Rest
  <2>2. \A j \in Ids : Stays(j) \/ Finishes(j)
    BY <1>3, LeftEnds DEF Spawn
  <2>3. OwesNoMore
    BY <1>3, <2>1, <2>2 DEF Shape, OwesNoMore, Owing, Stays, Finishes, Over, State, Spawn
  <2> QED
    BY <1>3, <2>1, <2>3, FaultKinds, DaemonAssumption DEF Pays, Spawn, Accounted, Holds
<1>4. ASSUME NEW i \in Ids, Claims(i) PROVE Pays /\ Holds'
  <2>1. pc = "scan" /\ cur = None /\ faults \in Wrongs /\ handler' = handler /\ reports' = reports
    BY <1>4 DEF Claims, Claim, Accounted, Holds
  <2>2. CASE board' = board /\ UNCHANGED <<pc, cur>>
    BY <1>4, <2>1, <2>2, FaultKinds, NothingOwed DEF Claims, Claim, Stays, Holds
  <2>3. CASE board' = [board EXCEPT ![i].state = "claimed"] /\ pc' = "held" /\ cur' = i /\ UNCHANGED faults
    BY <2>1, <2>3, FaultKinds, DaemonAssumption DEF Shape, Pays, OwesNoMore, Owing, State, Holds
  <2>4. CASE board' = [board EXCEPT ![i].state = "claimed"] /\ Loses /\ UNCHANGED <<pc, cur>>
    BY <1>4, <2>1, <2>4, FaultKinds DEF Shape, Pays, OwesOne, Owing, State, Holds
  <2> QED
    BY <1>4, <2>2, <2>3, <2>4 DEF Claims, Claim
<1>5. ASSUME NEW state \in Over, NEW why, NEW answer, TryComplete(cur, state, why, answer),
             pc \in {"held", "talk", "reply"}, pc' = "scan", cur' = None,
             reports' = reports, handler' = handler
      PROVE  Pays /\ Holds'
  BY <1>5, LetGoOwes DEF Accounted, Holds
<1>6. CASE Unhandled \/ RejectDuplicate
  BY <1>5, <1>6 DEF Unhandled, RejectDuplicate, Over
<1>7. CASE GateHit \/ Reply
  BY <1>5, <1>7 DEF GateHit, Reply, LetGo, Inline, Over
<1>8. CASE GatePassed \/ (\E turn \in Turns : Turn(turn)) \/ \E text \in Texts : Says(text)
  BY <1>8, FaultKinds, NothingOwed DEF GatePassed, Turn, Says, LookupFails, Inline, Accounted, Holds, Stays
<1>9. CASE GatewayFails
  <2>1. Worse /\ cur \in Ids /\ handler' = handler /\ reports' = reports
    BY <1>9, FaultKinds DEF GatewayFails, Inline, Accounted, Holds
  <2>2. CASE UNCHANGED <<board, pc, cur>>
    BY <2>1, <2>2, NothingOwed DEF Accounted, Holds, Stays
  <2>3. CASE LetGo /\ Completed(cur, "failed", "", "")
    <3>1. Finishes(cur) /\ \A j \in Ids \ {cur} : Stays(j)
      BY <2>1, <2>3, CompletedEnds DEF Over
    <3>2. OwesNoMore
      BY <2>1, <3>1 DEF OwesNoMore, Owing, Stays, Finishes, Over, State
    <3> QED
      BY <2>1, <2>3, <3>2 DEF Pays, LetGo, Holds
  <2> QED
    BY <1>9, <2>2, <2>3 DEF GatewayFails
<1> QED
  BY <1>2, <1>3, <1>4, <1>6, <1>7, <1>8, <1>9 DEF Loop, Boot

\* The handlers move; the loop holds what it held.
SameLoop == pc' = pc /\ cur' = cur

LEMMA KickoffSameLoop == ASSUME NEW i, Kickoff(i) PROVE SameLoop
<1>1. CASE Parses(i) \/ Clears(i) \/ HydratesFirst(i)
  BY <1>1 DEF Parses, ParsePayload, Clears, ClearSlot, HydratesFirst, Off, loop, SameLoop
<1>2. CASE Completes(i) \/ Raises(i) \/ Requeues(i) \/ CancelSeen(i) \/ FailKickoff(i)
           \/ Drained(i) \/ Reports(i)
  BY <1>2 DEF Completes, Raises, Requeues, CancelSeen, FailKickoff, Drained, Reports, Off, loop, SameLoop
<1>3. CASE DispatchesChild(i) \/ PrFound(i) \/ Collects(i) \/ GivesUp(i) \/ TimesOut(i)
           \/ CountsAgain(i) \/ Merges(i)
  BY <1>3 DEF DispatchesChild, PrFound, Collects, GivesUp, TimesOut, CountsAgain, Merges, Released,
              Steady, loop, SameLoop
<1> QED
  BY <1>1, <1>2, <1>3 DEF Kickoff

LEMMA DoctorsSameLoop == ASSUME NEW i, Doctors(i) PROVE SameLoop
<1>1. CASE Starts(i) \/ Scans(i) \/ Patches(i) \/ Saves(i) \/ Watches(i) \/ Notes(i) \/ Restarts(i)
  BY <1>1 DEF Starts, Scans, Patches, Saves, Watches, Notes, Restarts, loop, SameLoop
<1>2. CASE \E project \in Projects : Passes(i, project) \/ AsksPending(i, project)
  BY <1>2 DEF Passes, AsksPending, Thinks, Calls, daemonVars, loop, SameLoop
<1>3. CASE AsksClaimed(i) \/ Spares(i) \/ QueuesNext(i) \/ Closes(i)
  BY <1>3 DEF AsksClaimed, Spares, QueuesNext, Closes, Thinks, Calls, daemonVars, loop, SameLoop
<1> QED
  BY <1>1, <1>2, <1>3 DEF Doctors

LEMMA KickoffPays ==
    ASSUME Shape, Accounted, NEW i \in Ids, Kickoff(i) PROVE Pays
<1>1. faults \in Wrongs
  BY DEF Accounted
<1>2. ASSUME NEW state \in Over, NEW why, NEW answer, TryComplete(i, state, why, answer), Off,
             NEW to, handler' = [handler EXCEPT ![i] = to]
      PROVE  Pays
  <2>1. \A j \in Ids \ {i} : handler'[j] = handler[j]
    BY <1>2 DEF Shape
  <2> QED
    BY <1>1, <1>2, <2>1, LetGoOwes DEF Off, loop
<1>3. ASSUME NEW to \in Alive, handler' = [handler EXCEPT ![i] = to], Off, Worse,
             \A j \in Ids : board'[j].state # "claimed" \/ Stays(j)
      PROVE  Pays
  <2>1. \A j \in Ids : handler'[j] \in {"off", "done"} => handler[j] \in {"off", "done"}
    BY <1>3 DEF Shape, Alive
  <2> QED
    BY <1>3, <2>1, NothingOwed DEF Off, loop
<1>4. CASE Parses(i) \/ Raises(i) \/ CancelSeen(i)
  <2>1. PICK to \in Alive : handler' = [handler EXCEPT ![i] = to] /\ Off /\ UNCHANGED <<board, faults>>
    BY <1>4 DEF Parses, ParsePayload, Raises, CancelSeen, Goes, Alive
  <2> QED
    BY <1>1, <1>3, <2>1, FaultKinds DEF Stays
<1>5. CASE Requeues(i)
  <2> DEFINE task == NewTask("kickoff", board[i].project, board[i].budget - 1)
  <2>1. task.state = "pending" /\ Creating(task)
    BY <1>5 DEF Requeues, NewTask
  <2>2. Worse /\ \A j \in Ids : Stays(j) \/ board'[j] = task
    BY <1>1, <2>1, CreatingPends, CreatingWorse
  <2>3. \A j \in Ids : board'[j].state # "claimed" \/ Stays(j)
    BY <2>1, <2>2
  <2> QED
    BY <1>3, <1>5, <2>2, <2>3 DEF Requeues, Goes, Alive
<1>6. CASE Completes(i) \/ FailKickoff(i) \/ Drained(i)
  BY <1>2, <1>6 DEF Completes, FailKickoff, Drained, Goes, Over
<1>7. CASE Reports(i)
  BY <1>1, <1>7, LetGoOwes DEF Reports, loop, Over
<1>8. CASE Clears(i)
  <2>1. \A j \in Ids : Stays(j) \/ Finishes(j)
    BY <1>8, LeftEnds DEF Clears, ClearSlot
  <2>2. OwesNoMore
    BY <1>8, <2>1 DEF Shape, OwesNoMore, Owing, Stays, Finishes, Over, State, Clears, ClearSlot, Goes, loop
  <2> QED
    BY <1>1, <1>8, <2>2, FaultKinds DEF Pays, Clears, ClearSlot
<1>9. CASE HydratesFirst(i)
  BY <1>1, <1>9, FaultKinds, NothingOwed DEF HydratesFirst, WritesBack, loop, Stays
<1>10. CASE DispatchesChild(i)
  <2> DEFINE task == NewTask("builder", board[i].project, ticket.dispatches)
  <2>1. task.state = "pending" /\ Creating(task)
    BY <1>10 DEF DispatchesChild, Creating, NewTask
  <2>2. Worse /\ \A j \in Ids : Stays(j) \/ board'[j] = task
    BY <1>1, <2>1, CreatingPends, CreatingWorse
  <2> QED
    BY <1>10, <2>1, <2>2, NothingOwed DEF DispatchesChild, Steady, loop
<1>11. CASE PrFound(i) \/ CountsAgain(i) \/ Merges(i)
  BY <1>1, <1>11, FaultKinds, NothingOwed DEF PrFound, CountsAgain, Merges, Steady, loop, Stays
<1>12. CASE Collects(i) \/ GivesUp(i) \/ TimesOut(i)
  <2>1. \A j \in Ids : Stays(j) \/ Finishes(j)
    BY <1>12, LeftEnds DEF Collects, GivesUp, TimesOut, Released
  <2>2. Worse /\ cur' = cur /\ reports' = reports /\ handler' = handler
    BY <1>1, <1>12, FaultKinds DEF Collects, GivesUp, TimesOut, Released, Steady, loop
  <2> QED
    BY <2>1, <2>2, NothingOwed DEF Finishes, Over
<1> QED
  BY <1>4, <1>5, <1>6, <1>7, <1>8, <1>9, <1>10, <1>11, <1>12 DEF Kickoff

LEMMA DoctorsPays ==
    ASSUME Shape, Accounted, NEW i \in Ids, Doctors(i) PROVE Pays
<1>1. faults \in Wrongs
  BY DEF Accounted
<1>2. CASE Starts(i)
  <2>1. \A j \in Ids : handler'[j] \in {"off", "done"} => handler[j] \in {"off", "done"}
    BY <1>2 DEF Starts, Goes, Shape
  <2> QED
    BY <1>1, <1>2, <2>1, FaultKinds, NothingOwed DEF Starts, loop, Stays
<1>3. CASE Scans(i) \/ Patches(i) \/ Saves(i) \/ Watches(i) \/ Notes(i) \/ Spares(i) \/ AsksClaimed(i)
  <2>1. cur' = cur /\ reports' = reports /\ handler' = handler /\ board' = board
    BY <1>3 DEF Scans, Patches, Saves, Watches, Notes, Spares, AsksClaimed, Thinks, Calls, daemonVars, loop
  <2>2. Worse
    BY <1>1, <1>3, FaultKinds
    DEF Scans, Reads, ScanFails, Patches, WritesBack, Saves, Watches, Notes, Spares, AsksClaimed, Thinks,
        daemonVars
  <2> QED
    BY <2>1, <2>2, NothingOwed DEF Stays
<1>4. ASSUME NEW project \in Projects, Passes(i, project) \/ AsksPending(i, project) PROVE Pays
  <2>1. cur' = cur /\ reports' = reports /\ handler' = handler /\ board' = board
    BY <1>4 DEF Passes, AsksPending, Thinks, Calls, daemonVars, loop
  <2>2. Worse
    BY <1>1, <1>4, FaultKinds DEF Passes, AsksPending, Thinks, daemonVars
  <2> QED
    BY <2>1, <2>2, NothingOwed DEF Stays
<1>5. ASSUME NEW task, task.state = "pending", Creating(task), cur' = cur, reports' = reports,
             handler' = handler
      PROVE  Pays
  <2>1. Worse /\ \A j \in Ids : Stays(j) \/ board'[j] = task
    BY <1>1, <1>5, CreatingPends, CreatingWorse
  <2> QED
    BY <1>5, <2>1, NothingOwed
<1>6. CASE Restarts(i)
  <2> DEFINE task == [NewTask("kickoff", at[i], 1) EXCEPT !.marked = TRUE]
  <2>1. task.state = "pending"
    BY DEF NewTask
  <2>2. Creating(task) /\ cur' = cur /\ reports' = reports /\ handler' = handler
    BY <1>6 DEF Restarts, Creating, loop
  <2> QED
    BY <1>5, <2>1, <2>2
<1>7. CASE QueuesNext(i)
  <2>1. NewTask("doctor", None, 0).state = "pending"
    BY DEF NewTask
  <2> QED
    BY <1>5, <1>7, <2>1 DEF QueuesNext, Calls, loop
<1>8. CASE Closes(i)
  <2>1. cur' = cur /\ reports' = reports
    BY <1>8 DEF Closes, Calls, loop
  <2>2. CASE handler' = [handler EXCEPT ![i] = "done"] /\ UNCHANGED faults /\ Completed(i, "completed", "", "")
    <3>1. Finishes(i) /\ \A j \in Ids \ {i} : Stays(j)
      BY <2>2, CompletedEnds DEF Over
    <3>2. OwesNoMore
      BY <2>1, <2>2, <3>1 DEF Shape, OwesNoMore, Owing, Stays, Finishes, Over, State
    <3> QED
      BY <1>1, <2>2, <3>2, FaultKinds DEF Pays
  <2>3. CASE handler' = [handler EXCEPT ![i] = "failing"] /\ Loses /\ UNCHANGED board
    BY <1>1, <2>1, <2>3, FaultKinds, NothingOwed DEF Shape, Stays
  <2> QED
    BY <1>8, <2>2, <2>3 DEF Closes
<1> QED
  BY <1>2, <1>3, <1>4, <1>6, <1>7, <1>8 DEF Doctors

LEMMA WorldPays ==
    ASSUME Shape, Accounted, World PROVE Worse /\ (Crash \/ (Pays /\ SameLoop))
<1>1. faults \in Wrongs
  BY DEF Accounted
<1>2. ASSUME NEW i \in Ids, HandlerDies(i) PROVE Pays /\ SameLoop
  <2>1. \A j \in Ids : handler'[j] \in {"off", "done"} => handler[j] \in {"off", "done"}
    BY <1>2 DEF HandlerDies, Dies, Shape
  <2> QED
    BY <1>1, <1>2, <2>1, FaultKinds, NothingOwed DEF HandlerDies, Dies, Off, loop, Stays, SameLoop
<1>3. ASSUME NEW i \in Ids, LeaseExpires(i) PROVE Pays /\ SameLoop
  <2>1. \A j \in Ids : board'[j].state # "claimed" \/ Stays(j)
    BY <1>3 DEF LeaseExpires, Shape, Task, Stays
  <2> QED
    BY <1>1, <1>3, <2>1, FaultKinds, NothingOwed DEF LeaseExpires, loop, SameLoop
<1>4. ASSUME NEW i \in Ids, PersonCancels(i) PROVE Pays /\ SameLoop
  <2>1. Finishes(i) /\ \A j \in Ids \ {i} : Stays(j)
    BY <1>4, CompletedEnds DEF PersonCancels, Over
  <2> QED
    BY <1>1, <1>4, <2>1, FaultKinds, NothingOwed DEF PersonCancels, loop, SameLoop, Finishes, Over
<1>5. CASE PersonStartsDoctor
  <2> DEFINE task == NewTask("doctor", None, 0)
  <2>1. task.state = "pending"
    BY DEF NewTask
  <2>2. \A j \in Ids : Stays(j) \/ board'[j] = task
    BY <1>5, <2>1, PostedPends DEF PersonStartsDoctor
  <2> QED
    BY <1>1, <1>5, <2>1, <2>2, FaultKinds, NothingOwed DEF PersonStartsDoctor, loop, SameLoop
<1>6. CASE Tick \/ PersonEdits
  BY <1>1, <1>6, FaultKinds, NothingOwed DEF Tick, PersonEdits, daemonVars, loop, SameLoop, Stays
<1>7. CASE EditRegistry \/ PersonTakes
  BY <1>1, <1>7, FaultKinds, NothingOwed DEF EditRegistry, PersonTakes, loop, SameLoop, Stays
<1>8. CASE Crash
  BY <1>1, <1>8, FaultKinds DEF Crash, DaemonCrash
<1> QED
  BY <1>2, <1>3, <1>4, <1>5, <1>6, <1>7, <1>8 DEF World, Pays

\* Recovery leaves claimed what it was not told of and what it could not fail, and
\* nothing else.
LEMMA BootOwes ==
    ASSUME Shape, Accounted, Boot
    PROVE  Worse /\ Holds' /\ unlisted' \in Nat /\ (Cardinality(Owed) <= faults.lost + unlisted)'
<1>1. IsFiniteSet(Claimed) /\ Owed' \subseteq Ids
  BY DaemonAssumption, FS_Subset DEF Claimed, Owed
<1>2. Holds'
  BY DEF Boot, Accounted, Holds
<1>3. CASE Claimed # {} /\ Loses /\ UNCHANGED board /\ unlisted' = Cardinality(Claimed)
  <2>1. Worse
    BY <1>3, FaultKinds DEF Accounted
  <2>2. Owed' \in SUBSET Claimed
    BY <1>3 DEF Owed, Owing, State, Claimed
  <2>3. Cardinality(Owed') <= Cardinality(Claimed) /\ Cardinality(Owed') \in Nat /\ Cardinality(Claimed) \in Nat
    BY <1>1, <2>2, FS_Subset, FS_CardinalityType
  <2> QED
    BY <1>2, <1>3, <2>1, <2>3 DEF Worse, Wrongs
<1>4. ASSUME NEW listed \in Pages(Claimed, ClaimedLimit), NEW missed \in SUBSET listed,
             faults' = [faults EXCEPT !.lost = @ + Cardinality(missed)],
             unlisted' = Cardinality(Claimed \ listed),
             board' = [i \in Ids |-> IF i \in listed \ missed THEN NoTask ELSE board[i]]
      PROVE  Worse /\ unlisted' \in Nat /\ (Cardinality(Owed) <= faults.lost + unlisted)'
  <2> DEFINE rest == Claimed \ listed
  <2>1. listed \in SUBSET Claimed
    BY DEF Pages
  <2>2. /\ IsFiniteSet(missed) /\ Cardinality(missed) \in Nat
        /\ IsFiniteSet(rest) /\ Cardinality(rest) \in Nat
    <3>1. missed \in SUBSET Claimed /\ rest \in SUBSET Claimed
      BY <2>1
    <3> QED
      BY <1>1, <3>1, FS_Subset, FS_CardinalityType
  <2>3. Worse /\ faults'.lost = faults.lost + Cardinality(missed)
    BY <1>4, <2>2 DEF Accounted, Wrongs, Worse
  <2>4. Owed' \in SUBSET (missed \cup rest)
    <3> SUFFICES ASSUME NEW j \in Ids, Owing(j)' PROVE j \in missed \cup rest
      BY <1>1 DEF Owed
    <3>1. board'[j].state = "claimed"
      BY DEF Owing, State
    <3>2. j \notin listed \ missed
      BY <1>4, <3>1 DEF NoTask, NewTask
    <3>3. board'[j] = board[j]
      BY <1>4, <3>2
    <3>4. j \in Claimed
      BY <3>1, <3>3 DEF Claimed, State
    <3> QED
      BY <3>2, <3>4
  <2>5. /\ IsFiniteSet(missed \cup rest)
        /\ Cardinality(missed \cup rest) = Cardinality(missed) + Cardinality(rest)
    BY <2>2, FS_Union, FS_EmptySet, missed \cap rest = {}
  <2>6. Cardinality(Owed') <= Cardinality(missed \cup rest) /\ Cardinality(Owed') \in Nat
    BY <2>4, <2>5, FS_Subset, FS_CardinalityType
  <2>7. faults.lost \in Nat
    BY DEF Accounted, Wrongs
  <2> HIDE DEF rest
  <2>8. unlisted' = Cardinality(rest)
    BY <1>4 DEF rest
  <2> QED
    BY <2>2, <2>3, <2>5, <2>6, <2>7, <2>8
<1> QED
  BY <1>2, <1>3, <1>4 DEF Boot

LEMMA OwedFinite == IsFiniteSet(Owed) /\ Cardinality(Owed) \in Nat
  BY DaemonAssumption, FS_Subset, FS_CardinalityType DEF Owed

LEMMA PaysCounts ==
    ASSUME faults \in Wrongs, unlisted \in Nat, unlisted' = unlisted, Pays,
           Cardinality(Owed) <= faults.lost + unlisted
    PROVE  (Cardinality(Owed) <= faults.lost + unlisted)'
<1>1. Owed' \subseteq Ids /\ Owed' = {j \in Ids : Owing(j)'}
  BY DEF Owed
<1>2. Cardinality(Owed') \in Nat
  BY <1>1, DaemonAssumption, FS_Subset, FS_CardinalityType
<1>3. CASE OwesNoMore
  <2>1. Owed' \in SUBSET Owed
    BY <1>1, <1>3 DEF OwesNoMore, Owed
  <2>2. Cardinality(Owed') <= Cardinality(Owed)
    BY <2>1, OwedFinite, FS_Subset
  <2> QED
    BY <1>2, <2>2, OwedFinite DEF Pays, Worse, Wrongs
<1>4. ASSUME NEW i \in Ids, OwesOne(i), faults'.lost = faults.lost + 1
      PROVE  (Cardinality(Owed) <= faults.lost + unlisted)'
  <2>1. Owed' \in SUBSET (Owed \cup {i})
    BY <1>1, <1>4 DEF OwesOne, Owed
  <2>2. /\ IsFiniteSet(Owed \cup {i}) /\ Cardinality(Owed \cup {i}) \in Nat
        /\ Cardinality(Owed \cup {i}) <= Cardinality(Owed) + 1
    <3>1. IsFiniteSet(Owed \cup {i})
          /\ Cardinality(Owed \cup {i}) = IF i \in Owed THEN Cardinality(Owed) ELSE Cardinality(Owed) + 1
      BY OwedFinite, FS_AddElement
    <3> QED
      BY <3>1, OwedFinite
  <2>3. Cardinality(Owed') <= Cardinality(Owed \cup {i})
    BY <2>1, <2>2, FS_Subset
  <2> QED
    BY <1>2, <1>4, <2>2, <2>3, OwedFinite DEF Wrongs
<1> QED
  BY <1>3, <1>4 DEF Pays

LEMMA AccountedStep ==
    ASSUME Shape, Accounted, [Next]_vars PROVE Accounted' /\ Worse
<1>1. faults \in Wrongs /\ Holds /\ unlisted \in Nat /\ (Boot \/ unlisted' = unlisted)
  BY SiteStays DEF Accounted
<1>2. CASE UNCHANGED vars
  BY <1>2 DEF vars, daemonVars, loop, Accounted, Holds, Wrongs, Worse, Owed, Owing, State
<1>3. CASE Boot
  BY <1>3, BootOwes DEF Accounted, Worse
<1>4. ASSUME pc = "boot", Loop, ~Boot PROVE FALSE
  BY <1>4 DEF Loop, Poll, Unhandled, RejectDuplicate, Spawn, PassOver, Claims, Claim, GateHit, GatePassed,
              GatewayFails, Reply, Turn, Says
<1>5. CASE Loop /\ pc # "boot"
  <2>1. Pays /\ Holds'
    BY <1>5, LoopPays
  <2> QED
    BY <1>1, <1>5, <2>1, PaysCounts DEF Accounted, Pays, Worse, Boot
<1>6. ASSUME Pays, SameLoop PROVE Accounted' /\ Worse
  BY <1>1, <1>6, PaysCounts DEF Accounted, Pays, Worse, SameLoop, Holds, Boot
<1>7. ASSUME NEW i \in Ids, Kickoff(i) PROVE SameLoop
  BY <1>7, KickoffSameLoop
<1>8. ASSUME NEW i \in Ids, Doctors(i) PROVE SameLoop
  BY <1>8, DoctorsSameLoop
<1>9. CASE Crash
  BY <1>1, <1>9, WorldPays DEF World, Crash, DaemonCrash, Accounted, Holds, Worse
<1>10. CASE World
  BY <1>6, <1>9, <1>10, WorldPays
<1> QED
  BY <1>2, <1>3, <1>4, <1>5, <1>6, <1>7, <1>8, <1>10, KickoffPays, DoctorsPays DEF Next

LEMMA AccountedInit == Init => Accounted
  BY DEF Init, DaemonInit, Accounted, Wrongs, Holds

\* What is claimed while nobody works on it was left so by a completion that failed, one
\* for each (main.py, _try_complete and mesh.py's retries), or was not in the list that
\* the last boot recovered from (recover_orphaned_tasks: one list, or none if the call
\* fails): whatever expires, dies or is cancelled.
THEOREM StrandedOnlyByLostCallsHolds == Spec => []StrandedOnlyByLostCalls
<1>1. Shape /\ Accounted /\ [Next]_vars => Accounted'
  BY AccountedStep
<1>2. Accounted => StrandedOnlyByLostCalls
  <2> SUFFICES ASSUME Accounted, pc # "boot" PROVE Cardinality(Stranded) <= faults.lost + unlisted
    BY DEF StrandedOnlyByLostCalls
  <2>1. Stranded \in SUBSET Owed
    BY DEF Stranded, Owed, Owing
  <2>2. Cardinality(Stranded) <= Cardinality(Owed) /\ Cardinality(Stranded) \in Nat
    BY <2>1, OwedFinite, FS_Subset, FS_CardinalityType
  <2> QED
    BY <2>2, OwedFinite DEF Accounted, Wrongs
<1> QED
  BY <1>1, <1>2, AccountedInit, ShapeHolds, PTL DEF Spec
-----------------------------------------------------------------------------
(* The stages of the doctors.                                              *)

\* Only a doctor that runs is at a stage.
Staged ==
    /\ stage \in [Ids -> Stages]
    /\ \A i \in Ids : stage[i] # "none" => handler[i] = "running" /\ Kind(i) = "doctor"

\* A step that moves no doctor from its stage.
NoStage == stage' = stage /\ \A j \in Ids : stage[j] # "none" => handler'[j] = handler[j]
\* A step of a doctor that runs and goes on running.
OneStage(i) ==
    /\ handler[i] = "running" /\ handler' = handler
    /\ \E to \in Stages : stage' = [stage EXCEPT ![i] = to]

LEMMA BoardSteps == ASSUME Shape, Next PROVE BoardStep \/ Crash
  BY StepKinds, LeftSteps DEF Calm, Spawn, ClearSlot

LEMMA LoopStage ==
    ASSUME Shape, Staged, Loop PROVE NoStage
<1>1. CASE Spawn /\ Quiet
  BY <1>1 DEF Spawn, Quiet, doctorVars, work, Staged, Shape, NoStage
<1>2. CASE (Boot \/ Poll \/ Unhandled \/ RejectDuplicate) /\ Quiet
  BY <1>2 DEF Boot, Poll, Unhandled, RejectDuplicate, Quiet, doctorVars, work, NoStage
<1>3. ASSUME NEW i \in Ids, (PassOver(i) /\ Quiet) \/ Claims(i) PROVE NoStage
  BY <1>3 DEF PassOver, Quiet, Claims, Claim, DoctorRest, doctorVars, work, NoStage
<1>4. CASE (GateHit \/ GatePassed \/ GatewayFails \/ Reply) /\ NoDoctor
  BY <1>4 DEF GateHit, GatePassed, GatewayFails, Reply, Inline, NoDoctor, doctorVars, work, NoStage
<1>5. ASSUME NEW turn \in Turns, Turn(turn) /\ NoDoctor PROVE NoStage
  BY <1>5 DEF Turn, Inline, NoDoctor, doctorVars, work, NoStage
<1>6. ASSUME NEW text \in Texts, Says(text) /\ NoDoctor PROVE NoStage
  BY <1>6 DEF Says, Inline, NoDoctor, doctorVars, work, NoStage
<1> QED
  BY <1>1, <1>2, <1>3, <1>4, <1>5, <1>6 DEF Loop

LEMMA KickoffStage ==
    ASSUME Shape, Staged, NEW i \in Ids, Kickoff(i) PROVE NoStage
<1>1. stage' = stage
  BY DEF Kickoff, Parses, Clears, Quiet, NoDoctor, doctorVars, work
<1>2. ASSUME stage[i] = "none", NEW to, handler' = [handler EXCEPT ![i] = to] PROVE NoStage
  BY <1>1, <1>2 DEF Shape, NoStage
<1>3. (Kind(i) = "kickoff" \/ handler[i] # "running") => stage[i] = "none"
  BY DEF Staged
<1>4. CASE Parses(i) \/ Completes(i) \/ Raises(i) \/ Requeues(i) \/ CancelSeen(i)
  BY <1>2, <1>3, <1>4 DEF Parses, ParsePayload, Completes, Raises, Requeues, CancelSeen, Goes
<1>5. CASE FailKickoff(i) \/ Drained(i) \/ Clears(i)
  BY <1>2, <1>3, <1>5 DEF FailKickoff, Drained, Clears, ClearSlot, Goes
<1>6. CASE HydratesFirst(i) \/ Reports(i)
  BY <1>1, <1>6 DEF HydratesFirst, Reports, NoStage
<1>7. CASE DispatchesChild(i) \/ PrFound(i) \/ Collects(i) \/ GivesUp(i) \/ TimesOut(i)
             \/ CountsAgain(i) \/ Merges(i)
  BY <1>1, <1>7 DEF DispatchesChild, PrFound, Collects, GivesUp, TimesOut, CountsAgain, Merges, Released,
                    Steady, NoStage
<1> QED
  BY <1>4, <1>5, <1>6, <1>7 DEF Kickoff

LEMMA DoctorsStage ==
    ASSUME Shape, Staged, NEW i \in Ids, Doctors(i)
    PROVE  Starts(i) \/ Closes(i) \/ OneStage(i)
<1>1. CASE Scans(i) \/ Patches(i) \/ Restarts(i) \/ Saves(i) \/ Watches(i) \/ Notes(i) \/ QueuesNext(i)
  BY <1>1 DEF Scans, Patches, Restarts, Saves, Watches, Notes, QueuesNext, Stage, Stages, OneStage
<1>2. ASSUME NEW project \in Projects, Passes(i, project) \/ AsksPending(i, project)
      PROVE  OneStage(i)
  BY <1>2 DEF Passes, AsksPending, Thinks, daemonVars, Stage, Stages, OneStage
<1>3. CASE AsksClaimed(i) \/ Spares(i)
  BY <1>3 DEF AsksClaimed, Spares, Thinks, daemonVars, Stage, Stages, OneStage
<1> QED
  BY <1>1, <1>2, <1>3 DEF Doctors

LEMMA WorldStage ==
    ASSUME Shape, Staged, World
    PROVE  NoStage \/ (\E i \in Ids : HandlerDies(i)) \/ Crash \/ Tick
<1>1. CASE (\E i \in Ids : LeaseExpires(i) \/ PersonCancels(i)) /\ Quiet
  BY <1>1 DEF LeaseExpires, PersonCancels, Quiet, doctorVars, work, NoStage
<1>2. CASE PersonStartsDoctor
  BY <1>2 DEF PersonStartsDoctor, Quiet, doctorVars, work, NoStage
<1>3. CASE PersonEdits /\ UNCHANGED doctorVars
  BY <1>3 DEF PersonEdits, daemonVars, doctorVars, work, NoStage
<1>4. CASE (EditRegistry \/ PersonTakes) /\ NoDoctor
  BY <1>4 DEF EditRegistry, PersonTakes, NoDoctor, doctorVars, work, NoStage
<1> QED
  BY <1>1, <1>2, <1>3, <1>4 DEF World

LEMMA StagedStep ==
    ASSUME Shape, Shape', Staged, [Next]_vars PROVE Staged'
<1>1. CASE UNCHANGED vars
  BY <1>1 DEF vars, daemonVars, doctorVars, work, Staged, Kind
<1>2. CASE Crash
  BY <1>2 DEF Crash, DaemonCrash, Forgets, Staged, Stages
<1>3. ASSUME BoardStep, stage' \in [Ids -> Stages],
             \A j \in Ids : stage'[j] # "none" => handler'[j] = "running" /\ Kind(j) = "doctor"
      PROVE  Staged'
  BY <1>3 DEF Staged, BoardStep, Kept, Kind
<1>4. CASE Next /\ NoStage
  BY <1>2, <1>3, <1>4, BoardSteps DEF NoStage, Staged
<1>5. ASSUME Next, NEW i \in Ids, Starts(i) PROVE Staged'
  <2>1. PICK to \in Stages : stage' = [stage EXCEPT ![i] = to]
    BY <1>5 DEF Starts, Stages
  <2>2. Kind(i) = "doctor" /\ handler' = [handler EXCEPT ![i] = "running"] /\ board' = board
    BY <1>5 DEF Starts, Goes
  <2> QED
    BY <1>3, <2>1, <2>2, SameSteps DEF Shape, Staged
<1>6. ASSUME Next, NEW i \in Ids, Closes(i) PROVE Staged'
  <2>1. stage' = [stage EXCEPT ![i] = "none"] /\ \A j \in Ids \ {i} : handler'[j] = handler[j]
    BY <1>6 DEF Closes, Stage, Shape
  <2> QED
    BY <1>2, <1>3, <1>6, <2>1, BoardSteps DEF Staged, Stages
<1>7. ASSUME Next, NEW i \in Ids, OneStage(i), Doctors(i) PROVE Staged'
  <2>1. PICK to \in Stages : stage' = [stage EXCEPT ![i] = to]
    BY <1>7 DEF OneStage
  <2>2. Kind(i) = "doctor"
    <3>1. stage[i] # "none"
      BY <1>7, <2>1 DEF Doctors, Scans, Patches, Restarts, Saves, Watches, Notes, QueuesNext, Passes,
                        AsksPending, AsksClaimed, Spares, Closes, Starts, Goes, Stage, OneStage
    <3> QED
      BY <3>1 DEF Staged
  <2> QED
    BY <1>2, <1>3, <1>7, <2>1, <2>2, BoardSteps DEF Staged, OneStage
<1>8. ASSUME Next, NEW i \in Ids, HandlerDies(i) PROVE Staged'
  <2>1. stage' = [j \in Ids |-> IF j = i THEN "none" ELSE stage[j]] /\ board' = board
        /\ handler' = [handler EXCEPT ![i] = "died"]
    BY <1>8 DEF HandlerDies, Forgets, Dies
  <2> QED
    BY <1>3, <2>1, SameSteps DEF Shape, Staged, Stages
<1>9. CASE Next /\ Tick
  BY <1>3, <1>9, SameSteps DEF Tick, daemonVars, Asleep, Staged, Stages
<1> QED
  BY <1>1, <1>2, <1>4, <1>5, <1>6, <1>7, <1>8, <1>9, LoopStage, KickoffStage, DoctorsStage, WorldStage
  DEF Next
-----------------------------------------------------------------------------
(* The chain of doctors: there are no more of them than were started.      *)

\* Doctors that wait on the mesh, that the loop holds, and that have not handed on. A
\* doctor whose claim was given up may be in two of these at once.
Waiting == {j \in Ids : Kind(j) = "doctor" /\ State(j) = "pending"}
InHand == {j \in Ids : Kind(j) = "doctor" /\ j = cur}
AtWork == {j \in Ids : Kind(j) = "doctor" /\ handler[j] \in {"fresh", "running"} /\ stage[j] # "close"}
Links == Cardinality(Waiting) + Cardinality(InHand) + Cardinality(AtWork)
Chained == Links <= Cardinality(Chains) + faults.twice

NoNew == \A j \in Ids : Kind(j)' = "doctor" =>
                          Kind(j) = "doctor" /\ (State(j)' = "pending" => State(j) = "pending")
Backs == \A j \in Ids : handler'[j] \in {"fresh", "running"} /\ stage'[j] # "close" =>
                           handler[j] \in {"fresh", "running"} /\ stage[j] # "close"
Shrinks == NoNew /\ Backs /\ cur' \in {cur, None}

LEMMA OldDoctors ==
    ASSUME \A j \in Ids : Stays(j) \/ Finishes(j) \/ board'[j].kind \in {"kickoff", "builder"}
    PROVE  NoNew
  BY DEF NoNew, Stays, Finishes, Over, Kind, State

LEMMA OneBacks ==
    ASSUME Shape, stage' = stage, NEW i, NEW to, handler' = [handler EXCEPT ![i] = to],
           to \notin {"fresh", "running"} \/ handler[i] \in {"fresh", "running"}
    PROVE  Backs
  BY DEF Shape, Backs

LEMMA TryOld ==
    ASSUME Shape, faults \in Wrongs, NEW i \in Ids, NEW state \in Over, NEW why, NEW answer,
           TryComplete(i, state, why, answer)
    PROVE  NoNew
  BY TryEnds, OldDoctors

LEMMA LoopShrinks ==
    ASSUME Shape, Staged, Accounted, Loop
    PROVE  Shrinks \/ Spawn \/ \E i \in Ids : Claims(i)
<1> USE DEF None
<1>1. faults \in Wrongs
  BY DEF Accounted
<1>2. stage' = stage
  BY LoopStage DEF NoStage
<1>3. handler' = handler => Backs
  BY <1>2 DEF Backs
<1>4. CASE Poll \/ \E i \in Ids : PassOver(i)
  BY <1>3, <1>4, OldDoctors DEF Poll, PassOver, Stays, Shrinks
<1>5. CASE Boot
  <2>1. \A j \in Ids : board'[j] = NoTask \/ Stays(j)
    BY <1>5 DEF Boot, Stays
  <2>2. NoNew
    BY <2>1 DEF NoNew, Stays, NoTask, NewTask, Kind, State
  <2> QED
    BY <1>3, <1>5, <2>2 DEF Boot, Shrinks
<1>6. ASSUME NEW state \in Over, NEW why, NEW answer, TryComplete(cur, state, why, answer),
             pc \in {"held", "talk", "reply"}, cur' = None, handler' = handler
      PROVE  Shrinks
  BY <1>1, <1>3, <1>6, TryOld DEF Accounted, Holds, Shrinks
<1>7. CASE Unhandled \/ RejectDuplicate
  BY <1>6, <1>7 DEF Unhandled, RejectDuplicate, Over
<1>8. CASE GateHit \/ Reply
  BY <1>6, <1>8 DEF GateHit, Reply, LetGo, Inline, Over
<1>9. CASE GatePassed \/ (\E turn \in Turns : Turn(turn)) \/ \E text \in Texts : Says(text)
  BY <1>3, <1>9, OldDoctors DEF GatePassed, Turn, Says, Inline, Stays, Shrinks
<1>10. CASE GatewayFails
  <2>1. cur \in Ids /\ handler' = handler
    BY <1>10 DEF GatewayFails, Inline, Accounted, Holds
  <2>2. CASE UNCHANGED <<board, pc, cur>>
    BY <1>3, <2>1, <2>2, OldDoctors DEF Stays, Shrinks
  <2>3. CASE LetGo /\ Completed(cur, "failed", "", "")
    <3>1. Finishes(cur) /\ \A j \in Ids \ {cur} : Stays(j)
      BY <2>1, <2>3, CompletedEnds DEF Over
    <3> QED
      BY <1>3, <2>1, <2>3, <3>1, OldDoctors DEF LetGo, Shrinks
  <2> QED
    BY <1>10, <2>2, <2>3 DEF GatewayFails
<1> QED
  BY <1>4, <1>5, <1>7, <1>8, <1>9, <1>10 DEF Loop

LEMMA KickoffShrinks ==
    ASSUME Shape, Staged, Accounted, NEW i \in Ids, Kickoff(i) PROVE Shrinks
<1>1. faults \in Wrongs
  BY DEF Accounted
<1>2. stage' = stage /\ cur' = cur
  BY KickoffStage, KickoffSameLoop DEF NoStage, SameLoop
<1>3. handler' = handler => Backs
  BY <1>2 DEF Backs
<1>4. ASSUME NEW kind \in {"kickoff", "builder"}, NEW project, NEW n, Creating(NewTask(kind, project, n))
      PROVE  NoNew
  <2> DEFINE task == NewTask(kind, project, n)
  <2>1. task.state = "pending" /\ task.kind \in {"kickoff", "builder"}
    BY DEF NewTask
  <2>2. \A j \in Ids : Stays(j) \/ board'[j] = task
    BY <1>4, <2>1, CreatingPends
  <2>3. \A j \in Ids : Stays(j) \/ board'[j].kind \in {"kickoff", "builder"}
    BY <2>1, <2>2
  <2> QED
    BY <2>3, OldDoctors
<1>5. CASE Parses(i) \/ Raises(i) \/ CancelSeen(i)
  <2>1. NoNew
    BY <1>5, OldDoctors DEF Parses, ParsePayload, Raises, CancelSeen, Stays
  <2>2. Backs
    BY <1>2, <1>5, OneBacks DEF Parses, ParsePayload, Raises, CancelSeen, Goes
  <2> QED
    BY <1>2, <2>1, <2>2 DEF Shrinks
<1>6. CASE Requeues(i)
  <2>1. NoNew
    BY <1>4, <1>6 DEF Requeues
  <2>2. Backs
    BY <1>2, <1>6, OneBacks DEF Requeues, Goes
  <2> QED
    BY <1>2, <2>1, <2>2 DEF Shrinks
<1>7. CASE Completes(i) \/ FailKickoff(i) \/ Drained(i)
  <2>1. NoNew
    BY <1>1, <1>7, TryOld DEF Completes, FailKickoff, Drained, Over
  <2>2. Backs
    BY <1>2, <1>7, OneBacks DEF Completes, FailKickoff, Drained, Goes
  <2> QED
    BY <1>2, <2>1, <2>2 DEF Shrinks
<1>8. CASE Reports(i)
  BY <1>1, <1>2, <1>3, <1>8, TryOld DEF Reports, Over, Shrinks
<1>9. CASE Clears(i)
  <2>1. NoNew
    BY <1>9, LeftEnds, OldDoctors DEF Clears, ClearSlot
  <2>2. Backs
    BY <1>2, <1>9, OneBacks DEF Clears, ClearSlot, Goes
  <2> QED
    BY <1>2, <2>1, <2>2 DEF Shrinks
<1>10. CASE HydratesFirst(i) \/ PrFound(i) \/ CountsAgain(i) \/ Merges(i)
  BY <1>2, <1>3, <1>10, OldDoctors
  DEF HydratesFirst, PrFound, CountsAgain, Merges, Steady, Stays, Shrinks
<1>11. CASE DispatchesChild(i)
  <2>1. NoNew
    BY <1>4, <1>11 DEF DispatchesChild, Creating
  <2> QED
    BY <1>2, <1>3, <1>11, <2>1 DEF DispatchesChild, Steady, Shrinks
<1>12. CASE Collects(i) \/ GivesUp(i) \/ TimesOut(i)
  <2>1. NoNew
    BY <1>12, LeftEnds, OldDoctors DEF Collects, GivesUp, TimesOut, Released
  <2> QED
    BY <1>2, <1>3, <1>12, <2>1 DEF Collects, GivesUp, TimesOut, Released, Steady, Shrinks
<1> QED
  BY <1>5, <1>6, <1>7, <1>8, <1>9, <1>10, <1>11, <1>12 DEF Kickoff

\* A doctor other than one that hands on.
LEMMA DoctorsShrinks ==
    ASSUME Shape, Staged, Accounted, NEW i \in Ids, Doctors(i) PROVE Shrinks \/ QueuesNext(i)
<1>1. cur' = cur
  BY DoctorsSameLoop DEF SameLoop
<1>2. CASE Starts(i)
  <2>1. stage[i] = "none"
    BY <1>2 DEF Starts, Goes, Staged
  <2>2. Backs
    BY <1>2, <2>1 DEF Starts, Goes, Shape, Staged, Backs
  <2> QED
    BY <1>1, <1>2, <2>2, OldDoctors DEF Starts, Stays, Shrinks
<1>3. ASSUME board' = board, handler' = handler, NEW from, NEW to, Stage(i, from, to), from # "close"
      PROVE  Shrinks
  BY <1>1, <1>3, OldDoctors DEF Stage, Staged, Backs, Stays, Shrinks
<1>4. CASE Scans(i) \/ Patches(i) \/ Saves(i) \/ Watches(i) \/ Notes(i)
  BY <1>3, <1>4 DEF Scans, Patches, Saves, Watches, Notes
<1>5. ASSUME NEW project \in Projects, Passes(i, project) \/ AsksPending(i, project)
      PROVE  Shrinks
  BY <1>3, <1>5 DEF Passes, AsksPending, Thinks, daemonVars
<1>6. CASE AsksClaimed(i) \/ Spares(i)
  BY <1>3, <1>6 DEF AsksClaimed, Spares, Thinks, daemonVars
<1>7. CASE Restarts(i)
  <2> DEFINE task == [NewTask("kickoff", at[i], 1) EXCEPT !.marked = TRUE]
  <2>1. task.state = "pending" /\ task.kind = "kickoff"
    BY DEF NewTask
  <2>2. Creating(task)
    BY <1>7 DEF Restarts, Creating
  <2>3. \A j \in Ids : Stays(j) \/ board'[j] = task
    BY <2>1, <2>2, CreatingPends
  <2>4. \A j \in Ids : Stays(j) \/ board'[j].kind = "kickoff"
    BY <2>1, <2>3
  <2>5. NoNew
    BY <2>4, OldDoctors
  <2>6. Backs
    BY <1>7 DEF Restarts, Stage, Staged, Backs
  <2> QED
    BY <1>1, <2>5, <2>6 DEF Shrinks
<1>8. CASE Closes(i)
  <2>1. NoNew
    <3>1. CASE UNCHANGED board
      BY <3>1, OldDoctors DEF Stays
    <3>2. CASE Completed(i, "completed", "", "")
      BY <3>2, CompletedEnds, OldDoctors DEF Over
    <3> QED
      BY <1>8, <3>1, <3>2 DEF Closes
  <2>2. Backs
    BY <1>8 DEF Closes, Stage, Staged, Shape, Backs
  <2> QED
    BY <1>1, <2>1, <2>2 DEF Shrinks
<1> QED
  BY <1>2, <1>4, <1>5, <1>6, <1>7, <1>8 DEF Doctors

LEMMA WorldShrinks ==
    ASSUME Shape, Staged, Accounted, World
    PROVE  Shrinks \/ (\E i \in Ids : LeaseExpires(i) /\ Quiet) \/ PersonStartsDoctor
<1> USE DEF None
<1>1. ASSUME NEW i \in Ids, HandlerDies(i) PROVE Shrinks
  <2>1. stage' = [j \in Ids |-> IF j = i THEN "none" ELSE stage[j]] /\ board' = board /\ cur' = cur
        /\ handler' = [handler EXCEPT ![i] = "died"]
    BY <1>1 DEF HandlerDies, Forgets, Dies, Off, loop
  <2> QED
    BY <2>1, OldDoctors DEF Stays, Shape, Staged, Backs, Shrinks
<1>2. ASSUME NEW i \in Ids, PersonCancels(i) /\ Quiet PROVE Shrinks
  <2>1. NoNew
    BY <1>2, CompletedEnds, OldDoctors DEF PersonCancels, Over
  <2> QED
    BY <1>2, <2>1 DEF PersonCancels, Quiet, doctorVars, work, loop, Backs, Shrinks
<1>3. CASE Crash
  <2>1. \A j \in Ids : board'[j] = NoTask \/ Stays(j)
    BY <1>3 DEF Crash, DaemonCrash, Stays
  <2>2. NoNew
    BY <2>1 DEF NoNew, Stays, NoTask, NewTask, Kind, State
  <2> QED
    BY <1>3, <2>2 DEF Crash, DaemonCrash, Backs, Shrinks
<1>4. CASE Tick
  BY <1>4, OldDoctors DEF Tick, daemonVars, loop, Asleep, Stays, Staged, Backs, Shrinks
<1>5. CASE (PersonEdits /\ UNCHANGED doctorVars) \/ ((EditRegistry \/ PersonTakes) /\ NoDoctor)
  BY <1>5, OldDoctors
  DEF PersonEdits, EditRegistry, PersonTakes, NoDoctor, doctorVars, work, daemonVars, loop, Stays, Backs, Shrinks
<1> QED
  BY <1>1, <1>2, <1>3, <1>4, <1>5 DEF World

\* Sets of places for tasks are finite.
LEMMA Counted == ASSUME NEW S \in SUBSET Ids PROVE IsFiniteSet(S) /\ Cardinality(S) \in Nat
  BY DaemonAssumption, FS_Subset, FS_CardinalityType

LEMMA CountPart ==
    ASSUME NEW S \in SUBSET Ids, NEW T \in SUBSET S PROVE Cardinality(T) <= Cardinality(S)
  BY Counted, FS_Subset

LEMMA CountMore ==
    ASSUME NEW S \in SUBSET Ids, NEW X \in SUBSET Ids, NEW T \in SUBSET (S \cup X)
    PROVE  Cardinality(T) <= Cardinality(S) + Cardinality(X)
<1>1. /\ Cardinality(S \cup X) = Cardinality(S) + Cardinality(X) - Cardinality(S \cap X)
      /\ IsFiniteSet(S \cup X)
  BY Counted, FS_Union
<1>2. /\ Cardinality(S) \in Nat /\ Cardinality(X) \in Nat /\ Cardinality(S \cap X) \in Nat
      /\ Cardinality(T) \in Nat /\ Cardinality(S \cup X) \in Nat
  <2>1. S \cap X \in SUBSET Ids /\ T \in SUBSET Ids /\ S \cup X \in SUBSET Ids
    OBVIOUS
  <2> QED
    BY <2>1, Counted
<1>3. Cardinality(T) <= Cardinality(S \cup X)
  BY <1>1, FS_Subset
<1> QED
  BY <1>1, <1>2, <1>3

LEMMA CountLess ==
    ASSUME NEW S \in SUBSET Ids, NEW i \in S, NEW T \in SUBSET (S \ {i})
    PROVE  Cardinality(T) <= Cardinality(S) - 1
<1>1. Cardinality(S \ {i}) = Cardinality(S) - 1
  BY Counted, FS_RemoveElement
<1> QED
  BY <1>1, CountPart

\* How much the three kinds of link grow in a step.
LEMMA ChainedIf ==
    ASSUME Chained, site' = site, faults \in Wrongs, faults' \in Wrongs,
           NEW x \in Int, NEW y \in Int, NEW z \in Int,
           Cardinality(Waiting') <= Cardinality(Waiting) + x,
           Cardinality(InHand') <= Cardinality(InHand) + y,
           Cardinality(AtWork') <= Cardinality(AtWork) + z,
           x + y + z <= faults'.twice - faults.twice
    PROVE  Chained'
<1>1. Chains' = Chains /\ Chains \in SUBSET Ids
  BY DEF Chains
<1>2. /\ Waiting \in SUBSET Ids /\ Waiting' \in SUBSET Ids
      /\ InHand \in SUBSET Ids /\ InHand' \in SUBSET Ids
      /\ AtWork \in SUBSET Ids /\ AtWork' \in SUBSET Ids
  BY DEF Waiting, InHand, AtWork
<1>3. /\ Cardinality(Waiting) \in Nat /\ Cardinality(Waiting') \in Nat
      /\ Cardinality(InHand) \in Nat /\ Cardinality(InHand') \in Nat
      /\ Cardinality(AtWork) \in Nat /\ Cardinality(AtWork') \in Nat
      /\ Cardinality(Chains) \in Nat
  BY <1>1, <1>2, Counted
<1>4. faults.twice \in Nat /\ faults'.twice \in Nat
  BY DEF Wrongs
<1>5. Cardinality(Waiting') + Cardinality(InHand') + Cardinality(AtWork')
        <= Cardinality(Chains) + faults'.twice
  BY <1>3, <1>4 DEF Chained, Links
<1> QED
  BY <1>1, <1>5 DEF Chained, Links

LEMMA LinkSets ==
    /\ Waiting \in SUBSET Ids /\ InHand \in SUBSET Ids /\ AtWork \in SUBSET Ids
    /\ Waiting' = {j \in Ids : Kind(j)' = "doctor" /\ State(j)' = "pending"}
    /\ InHand' = {j \in Ids : Kind(j)' = "doctor" /\ j = cur'}
    /\ AtWork' = {j \in Ids : Kind(j)' = "doctor" /\ handler'[j] \in {"fresh", "running"} /\ stage'[j] # "close"}
  BY DEF Waiting, InHand, AtWork

LEMMA ShrinksChained ==
    ASSUME Chained, Shrinks, site' = site, faults \in Wrongs, Worse PROVE Chained'
<1>1. Waiting' \in SUBSET Waiting
  BY LinkSets DEF Shrinks, NoNew, Waiting
<1>2. InHand' \in SUBSET InHand
  BY LinkSets, DaemonAssumption DEF Shrinks, NoNew, InHand
<1>3. AtWork' \in SUBSET AtWork
  BY LinkSets DEF Shrinks, NoNew, Backs, AtWork
<1>4. /\ Cardinality(Waiting') <= Cardinality(Waiting) + 0
      /\ Cardinality(InHand') <= Cardinality(InHand) + 0
      /\ Cardinality(AtWork') <= Cardinality(AtWork) + 0
  <2>1. /\ Cardinality(Waiting) \in Nat /\ Cardinality(InHand) \in Nat /\ Cardinality(AtWork) \in Nat
    BY LinkSets, Counted
  <2> QED
    BY <1>1, <1>2, <1>3, <2>1, LinkSets, CountPart
<1>5. 0 + 0 + 0 <= faults'.twice - faults.twice
  BY DEF Worse, Wrongs
<1> QED
  BY <1>4, <1>5, ChainedIf DEF Worse

LEMMA ClaimsChained ==
    ASSUME Shape, Staged, Accounted, Chained, Worse, site' = site, NEW i \in Ids, Claims(i) PROVE Chained'
<1> USE DEF None
<1>1. handler' = handler /\ stage' = stage /\ cur = None /\ faults \in Wrongs
  BY DEF Claims, Claim, DoctorRest, work, Accounted, Holds
<1>2. Backs
  BY <1>1 DEF Backs
<1>3. CASE board' = board /\ cur' = cur
  <2>1. Shrinks
    BY <1>2, <1>3, OldDoctors DEF Stays, Shrinks
  <2> QED
    BY <1>1, <2>1, ShrinksChained
<1>4. CASE board' = [board EXCEPT ![i].state = "claimed"] /\ (cur' = cur \/ Kind(i) # "doctor")
  <2>1. \A j \in Ids : Kind(j)' = Kind(j) /\ (State(j)' = "pending" => State(j) = "pending")
    BY <1>4 DEF Shape, Task, Kind, State
  <2>2. /\ Cardinality(Waiting') <= Cardinality(Waiting) + 0
        /\ Cardinality(InHand') <= Cardinality(InHand) + 0
        /\ Cardinality(AtWork') <= Cardinality(AtWork) + 0
    <3>1. Waiting' \in SUBSET Waiting
      BY <2>1, LinkSets DEF Waiting
    <3>2. InHand' \in SUBSET InHand
      BY <1>1, <1>4, <2>1, LinkSets, DaemonAssumption DEF InHand, Claims, Claim
    <3>3. AtWork' \in SUBSET AtWork
      BY <1>1, <2>1, LinkSets DEF AtWork
    <3>4. /\ Cardinality(Waiting) \in Nat /\ Cardinality(InHand) \in Nat /\ Cardinality(AtWork) \in Nat
      BY LinkSets, Counted
    <3> QED
      BY <3>1, <3>2, <3>3, <3>4, LinkSets, CountPart
  <2>3. 0 + 0 + 0 <= faults'.twice - faults.twice
    BY <1>1 DEF Worse, Wrongs
  <2> QED
    BY <1>1, <2>2, <2>3, ChainedIf DEF Worse
<1>5. CASE /\ board' = [board EXCEPT ![i].state = "claimed"] /\ cur' = i /\ Kind(i) = "doctor"
           /\ State(i) = "pending"
  <2>1. \A j \in Ids : /\ Kind(j)' = Kind(j) /\ (State(j)' = "pending" => State(j) = "pending")
                       /\ State(i)' # "pending"
    BY <1>5 DEF Shape, Task, Kind, State
  <2>2. Cardinality(Waiting') <= Cardinality(Waiting) + (-1)
    <3>1. i \in Waiting /\ Waiting' \in SUBSET (Waiting \ {i})
      BY <1>5, <2>1, LinkSets DEF Waiting
    <3> QED
      BY <3>1, LinkSets, Counted, CountLess
  <2>3. Cardinality(InHand') <= Cardinality(InHand) + 1
    <3>1. InHand' \in SUBSET (InHand \cup {i}) /\ {i} \in SUBSET Ids
      BY <1>5, LinkSets
    <3> QED
      BY <3>1, LinkSets, CountMore, FS_Singleton
  <2>4. Cardinality(AtWork') <= Cardinality(AtWork) + 0
    <3>1. AtWork' \in SUBSET AtWork
      BY <1>1, <2>1, LinkSets DEF AtWork
    <3>2. Cardinality(AtWork) \in Nat
      BY LinkSets, Counted
    <3> QED
      BY <3>1, <3>2, LinkSets, CountPart
  <2>5. -1 + 1 + 0 <= faults'.twice - faults.twice
    BY <1>1 DEF Worse, Wrongs
  <2> QED
    BY <1>1, <2>2, <2>3, <2>4, <2>5, ChainedIf DEF Worse
<1> QED
  BY <1>3, <1>4, <1>5 DEF Claims, Claim, loop

LEMMA SpawnChained ==
    ASSUME Shape, Staged, Accounted, Chained, Worse, site' = site, Spawn, Quiet PROVE Chained'
<1>1. /\ cur \in Ids /\ handler' = [handler EXCEPT ![cur] = "fresh"] /\ cur' = None /\ stage' = stage
      /\ faults \in Wrongs
  BY DEF Spawn, Quiet, doctorVars, work, Shape, Rest, Accounted
<1>2. NoNew
  BY LeftEnds, OldDoctors DEF Spawn
<1>3. /\ Waiting' \in SUBSET Waiting /\ InHand' = {}
      /\ AtWork' \in SUBSET (AtWork \cup InHand)
  BY <1>1, <1>2, LinkSets, DaemonAssumption DEF Waiting, InHand, AtWork, NoNew, Shape
<1>4. Cardinality(InHand) \in Nat /\ Cardinality(Waiting) \in Nat
  BY LinkSets, Counted
<1>5. /\ Cardinality(Waiting') <= Cardinality(Waiting) + 0
      /\ Cardinality(InHand') <= Cardinality(InHand) + (-Cardinality(InHand))
      /\ Cardinality(AtWork') <= Cardinality(AtWork) + Cardinality(InHand)
  BY <1>3, <1>4, LinkSets, CountPart, CountMore, FS_EmptySet
<1>6. 0 + (-Cardinality(InHand)) + Cardinality(InHand) <= faults'.twice - faults.twice
  BY <1>1, <1>4 DEF Worse, Wrongs
<1>7. 0 \in Int /\ -Cardinality(InHand) \in Int /\ Cardinality(InHand) \in Int
  BY <1>4
<1> QED
  BY <1>1, <1>5, <1>6, <1>7, ChainedIf DEF Worse

LEMMA LeaseChained ==
    ASSUME Shape, Accounted, Chained, site' = site, NEW i \in Ids, LeaseExpires(i), Quiet PROVE Chained'
<1>1. faults \in Wrongs /\ Worse /\ faults'.twice = faults.twice + 1
  BY FaultKinds DEF LeaseExpires, Accounted
<1>2. handler' = handler /\ stage' = stage /\ cur' = cur
  BY DEF LeaseExpires, Quiet, doctorVars, work, loop
<1>3. \A j \in Ids : Kind(j)' = Kind(j) /\ (j # i => State(j)' = State(j))
  BY DEF LeaseExpires, Shape, Task, Kind, State
<1>4. /\ Waiting' \in SUBSET (Waiting \cup {i}) /\ InHand' = InHand /\ AtWork' = AtWork
  BY <1>2, <1>3, LinkSets DEF Waiting, InHand, AtWork
<1>5. Cardinality(InHand) \in Nat /\ Cardinality(AtWork) \in Nat /\ {i} \in SUBSET Ids
  BY LinkSets, Counted
<1>6. /\ Cardinality(Waiting') <= Cardinality(Waiting) + 1
      /\ Cardinality(InHand') <= Cardinality(InHand) + 0
      /\ Cardinality(AtWork') <= Cardinality(AtWork) + 0
  <2>1. Cardinality(Waiting') <= Cardinality(Waiting) + Cardinality({i})
    BY <1>4, <1>5, LinkSets, CountMore
  <2> QED
    BY <1>4, <1>5, <2>1, FS_Singleton
<1>7. 1 + 0 + 0 <= faults'.twice - faults.twice
  BY <1>1 DEF Wrongs
<1> QED
  BY <1>1, <1>6, <1>7, ChainedIf DEF Worse

\* The tasks of a create, and what it cost.
LEMMA CreatingMakes ==
    ASSUME faults \in Wrongs, NEW task, Creating(task)
    PROVE  \E ids \in SUBSET {j \in Ids : Free(j)} :
              /\ \A j \in Ids \ ids : Stays(j)
              /\ \A j \in ids : board'[j] = task
              /\ Cardinality(ids) \in Nat
              /\ Cardinality(ids) <= 1 + faults'.twice - faults.twice
              /\ faults' = faults => Cardinality(ids) = 1
<1>1. ASSUME NEW ids \in SUBSET Ids, NEW n \in Nat, Posts(task, n, ids)
      PROVE  /\ ids \in SUBSET {j \in Ids : Free(j)}
             /\ \A j \in Ids \ ids : Stays(j)
             /\ \A j \in ids : board'[j] = task
             /\ Cardinality(ids) = n
  BY <1>1 DEF Posts, Fresh, Posted, Stays
<1>2. CASE Loses /\ UNCHANGED board
  <2>1. faults'.twice = faults.twice /\ faults' # faults /\ faults.twice \in Nat
    BY <1>2 DEF Loses, Wrongs
  <2>2. {} \in SUBSET {j \in Ids : Free(j)} /\ \A j \in Ids \ {} : Stays(j)
    BY <1>2 DEF Stays
  <2>3. Cardinality({}) = 0
    BY FS_EmptySet
  <2> QED
    BY <2>1, <2>2, <2>3
<1>3. ASSUME NEW n \in Nat \ {0}, NEW ids \in SUBSET Ids, Posts(task, n, ids),
             \/ n = 1 /\ UNCHANGED faults
             \/ n # 1 /\ faults' = [faults EXCEPT !.twice = @ + (n - 1)]
             \/ faults' = [faults EXCEPT !.lost = @ + 1, !.twice = @ + (n - 1)]
      PROVE  n <= 1 + faults'.twice - faults.twice /\ (faults' = faults => n = 1)
  <2>1. faults.twice \in Nat /\ faults.lost \in Nat
    BY DEF Wrongs
  <2>2. CASE n = 1 /\ UNCHANGED faults
    BY <2>1, <2>2
  <2>3. CASE n # 1 /\ faults' = [faults EXCEPT !.twice = @ + (n - 1)]
    <3>1. faults'.twice = faults.twice + (n - 1)
      BY <2>3 DEF Wrongs
    <3>2. faults'.twice # faults.twice
      BY <2>1, <2>3, <3>1
    <3>3. faults' # faults
      BY <3>2
    <3> QED
      BY <2>1, <3>1, <3>3
  <2>4. CASE faults' = [faults EXCEPT !.lost = @ + 1, !.twice = @ + (n - 1)]
    <3>1. faults'.twice = faults.twice + (n - 1) /\ faults'.lost = faults.lost + 1
      BY <2>4 DEF Wrongs
    <3>2. ASSUME faults' = faults PROVE FALSE
      <4>1. faults'.lost = faults.lost
        BY <3>2
      <4>2. faults.lost + 1 # faults.lost
        BY <2>1
      <4> QED
        BY <3>1, <4>1, <4>2
    <3> QED
      BY <2>1, <3>1, <3>2
  <2> QED
    BY <1>3, <2>2, <2>3, <2>4
<1>4. 1..Cardinality(Ids) \subseteq Nat \ {0}
  BY IdsFinite
<1>5. CASE \E n \in 1..Cardinality(Ids), ids \in SUBSET Ids :
              /\ Posts(task, n, ids)
              /\ \/ n = 1 /\ UNCHANGED faults
                 \/ n # 1 /\ faults' = [faults EXCEPT !.twice = @ + (n - 1)]
                 \/ faults' = [faults EXCEPT !.lost = @ + 1, !.twice = @ + (n - 1)]
  <2>1. PICK n \in Nat \ {0}, ids \in SUBSET Ids :
              /\ Posts(task, n, ids)
              /\ \/ n = 1 /\ UNCHANGED faults
                 \/ n # 1 /\ faults' = [faults EXCEPT !.twice = @ + (n - 1)]
                 \/ faults' = [faults EXCEPT !.lost = @ + 1, !.twice = @ + (n - 1)]
    BY <1>4, <1>5
  <2>2. n <= 1 + faults'.twice - faults.twice /\ (faults' = faults => n = 1)
    BY <1>3, <2>1
  <2> QED
    BY <1>1, <2>1, <2>2
<1> QED
  BY <1>2, <1>5 DEF Creating, Created, Lost

LEMMA QueuesNextChained ==
    ASSUME Shape, Staged, Accounted, Chained, site' = site, NEW i \in Ids, QueuesNext(i) PROVE Chained'
<1> DEFINE task == NewTask("doctor", None, 0)
<1>1. faults \in Wrongs
  BY DEF Accounted
<1>2. PICK ids \in SUBSET {j \in Ids : Free(j)} :
          /\ \A j \in Ids \ ids : Stays(j)
          /\ \A j \in ids : board'[j] = task
          /\ Cardinality(ids) \in Nat
          /\ Cardinality(ids) <= 1 + faults'.twice - faults.twice
  BY <1>1, CreatingMakes DEF QueuesNext
<1>3. Worse
  BY <1>1, CreatingWorse DEF QueuesNext
<1>4. /\ handler' = handler /\ cur' = cur
      /\ stage[i] = "awake" /\ stage' = [stage EXCEPT ![i] = "close"]
  BY DEF QueuesNext, Stage, Calls, loop
<1>5. \A j \in ids : j # cur /\ handler[j] = "off"
  BY <1>2 DEF Free, IsTask, Shape, Rooted
<1>6. Waiting' \in SUBSET (Waiting \cup ids)
  BY <1>2, LinkSets DEF Waiting, Stays, Kind, State
<1>7. InHand' \in SUBSET InHand
  BY <1>2, <1>4, <1>5, LinkSets DEF InHand, Stays, Kind
<1>8. i \in AtWork /\ AtWork' \in SUBSET (AtWork \ {i})
  BY <1>2, <1>4, <1>5, LinkSets DEF AtWork, Staged, Stays, Kind
<1>9. /\ Cardinality(Waiting') <= Cardinality(Waiting) + Cardinality(ids)
      /\ Cardinality(InHand') <= Cardinality(InHand) + 0
      /\ Cardinality(AtWork') <= Cardinality(AtWork) + (-1)
  <2>1. ids \in SUBSET Ids /\ Cardinality(InHand) \in Nat /\ Cardinality(AtWork) \in Nat
    BY LinkSets, Counted
  <2> QED
    BY <1>6, <1>7, <1>8, <2>1, LinkSets, CountMore, CountPart, CountLess
<1>10. Cardinality(ids) + 0 + (-1) <= faults'.twice - faults.twice
  BY <1>1, <1>2, <1>3 DEF Worse, Wrongs
<1> QED
  BY <1>1, <1>2, <1>3, <1>9, <1>10, ChainedIf DEF Worse

LEMMA PersonStartsChained ==
    ASSUME Shape, Accounted, Chained, site' = site, PersonStartsDoctor PROVE Chained'
<1> DEFINE task == NewTask("doctor", None, 0)
<1>1. PICK ids \in SUBSET Ids : Fresh(ids, 1) /\ Posted(task, ids)
  BY DEF PersonStartsDoctor
<1>2. Waiting = {} /\ InHand = {} /\ AtWork = {} /\ \A j \in Ids : Kind(j) # "doctor"
  BY DEF PersonStartsDoctor, Unattended, Waiting, InHand, AtWork
<1>3. \A j \in Ids : j \in ids \/ Kind(j)' # "doctor"
  BY <1>1, <1>2 DEF Posted, Kind
<1>4. \A j \in ids : handler'[j] = "off" /\ j # cur'
  BY <1>1 DEF Fresh, Free, IsTask, Shape, Rooted, PersonStartsDoctor, loop
<1>5. Waiting' \in SUBSET (Waiting \cup ids) /\ InHand' = {} /\ AtWork' = {}
  BY <1>3, <1>4, LinkSets
<1>6. Cardinality(Waiting') <= 1 /\ Cardinality(InHand') = 0 /\ Cardinality(AtWork') = 0
  BY <1>1, <1>2, <1>5, LinkSets, CountPart, FS_EmptySet DEF Fresh
<1>7. Cardinality(Chains) >= 1
  <2>1. Chains # {} /\ Chains \in SUBSET Ids
    BY DEF PersonStartsDoctor, Unattended, Chains
  <2> QED
    BY <2>1, Counted, FS_EmptySet
<1>8. Chains' = Chains /\ faults' = faults
  BY DEF Chains, PersonStartsDoctor
<1>9. Cardinality(Waiting') \in Nat /\ Cardinality(Chains) \in Nat /\ faults.twice \in Nat
  BY <1>5, LinkSets, Counted DEF Accounted, Wrongs, Chains
<1>10. Cardinality(Waiting') + Cardinality(InHand') + Cardinality(AtWork')
         <= Cardinality(Chains) + faults.twice
  BY <1>6, <1>7, <1>9
<1> QED
  BY <1>8, <1>10 DEF Chained, Links

LEMMA ChainedStep ==
    ASSUME Shape, Staged, Accounted, Chained, [Next]_vars PROVE Chained'
<1>1. faults \in Wrongs /\ site' = site /\ Worse
  BY SiteStays, AccountedStep DEF Accounted
<1>2. CASE UNCHANGED vars
  <2>1. Waiting' = Waiting /\ InHand' = InHand /\ AtWork' = AtWork /\ Chains' = Chains /\ faults' = faults
    BY <1>2 DEF vars, daemonVars, doctorVars, work, loop, Waiting, InHand, AtWork, Chains, Kind, State
  <2> QED
    BY <2>1 DEF Chained, Links
<1>3. CASE Shrinks
  BY <1>1, <1>3, ShrinksChained
<1>4. CASE Loop
  <2>1. CASE Spawn
    BY <1>1, <1>4, <2>1, SpawnChained
    DEF Loop, Boot, Poll, Unhandled, RejectDuplicate, Spawn, PassOver, Claims, Claim, GateHit, GatePassed,
        GatewayFails, Reply, Turn, Says
  <2> QED
    BY <1>1, <1>3, <1>4, <2>1, LoopShrinks, ClaimsChained
<1>5. ASSUME NEW i \in Ids, Kickoff(i) PROVE Chained'
  BY <1>3, <1>5, KickoffShrinks
<1>6. ASSUME NEW i \in Ids, Doctors(i) PROVE Chained'
  BY <1>1, <1>3, <1>6, DoctorsShrinks, QueuesNextChained
<1>7. CASE World
  BY <1>1, <1>3, <1>7, WorldShrinks, LeaseChained, PersonStartsChained
<1> QED
  BY <1>2, <1>4, <1>5, <1>6, <1>7 DEF Next
-----------------------------------------------------------------------------
(* The chain of doctors: while nothing goes wrong it does not break.       *)

\* A doctor waits, is held, works or is over; and nothing else is there to disturb it.
Sound(j) == \/ State(j) = "pending" /\ handler[j] = "off" /\ j # cur
            \/ State(j) = "claimed" /\ handler[j] = "off" /\ j = cur /\ pc = "held"
            \/ State(j) = "claimed" /\ handler[j] \in {"fresh", "running"} /\ j # cur
            \/ State(j) \in Over /\ handler[j] \in {"done", "off"} /\ j # cur
Clean == /\ reports = {} /\ \A j \in Ids : handler[j] # "died"
         /\ \A j \in Ids : Kind(j) = "doctor" => Sound(j)
Open == {j \in Ids : Kind(j) = "doctor" /\ State(j) \notin Over /\ stage[j] # "close"}
Unbroken == Clean /\ Cardinality(Open) = Cardinality(Chains)
Hopeful == \A i \in Chains : site.tasks[i].state = "pending"

\* A step that leaves the doctors what they are.
BoardSafe == \A j \in Ids : Stays(j) \/ (Kind(j)' # "doctor" /\ (Kind(j) # "doctor" \/ State(j) \in Over))
HandlersSafe == \A j \in Ids :
    /\ handler'[j] # "died"
    /\ Kind(j) = "doctor" => \/ handler'[j] = handler[j]
                             \/ handler[j] = "done" /\ handler'[j] = "off"
                             \/ handler[j] = "fresh" /\ handler'[j] = "running"
LoopSafe == \/ SameLoop
            \/ cur' \in {cur, None} /\ (cur \notin Ids \/ Kind(cur) # "doctor")
StagesSafe == \A j \in Ids : stage'[j] = "close" <=> stage[j] = "close"
Safe == BoardSafe /\ HandlersSafe /\ LoopSafe /\ StagesSafe /\ reports' = {}

LEMMA FaultFree ==
    ASSUME faults \in Wrongs, Worse, Faults' = 0
    PROVE  Faults = 0 /\ faults' = faults
<1>1. /\ faults'.lost = faults.lost /\ faults'.twice = faults.twice /\ faults'.upset = faults.upset
      /\ Faults = 0
  BY DEF Wrongs, Worse, Faults
<1> QED
  BY <1>1 DEF Wrongs, Worse

LEMMA NoFault ==
    ASSUME faults \in Wrongs, faults' = faults PROVE ~Loses /\ ~Doubles /\ ~Upsets
  BY DEF Wrongs, Loses, Doubles, Upsets

LEMMA SafeUnbroken ==
    ASSUME Unbroken, Safe, site' = site PROVE Unbroken'
<1>1. Clean'
  BY DaemonAssumption
  DEF Unbroken, Clean, Safe, BoardSafe, HandlersSafe, LoopSafe, SameLoop, Sound, Stays, Kind, State, Over
<1>2. Open' = Open
  BY DEF Safe, BoardSafe, StagesSafe, Open, Stays, Kind, State
<1>3. Chains' = Chains
  BY DEF Chains
<1> QED
  BY <1>1, <1>2, <1>3 DEF Unbroken

LEMMA TrySafe ==
    ASSUME Shape, faults \in Wrongs, faults' = faults,
           NEW i \in Ids, NEW state \in Over, NEW why, NEW answer,
           TryComplete(i, state, why, answer), Kind(i) # "doctor"
    PROVE  BoardSafe
<1>1. Finishes(i) /\ \A j \in Ids \ {i} : Stays(j)
  BY NoFault, CompletedEnds DEF TryComplete
<1> QED
  BY <1>1 DEF BoardSafe, Finishes, Kind

LEMMA LeftSafe ==
    ASSUME Shape, NEW ids, Left(ids) PROVE BoardSafe
<1>1. \A j \in Ids : Stays(j) \/ (State(j) \in Over /\ board'[j] = NoTask)
  BY DEF Left, Stays, Ended, Over
<1> QED
  BY <1>1 DEF BoardSafe, NoTask, NewTask, Kind

LEMMA CreatingSafe ==
    ASSUME Shape, NEW kind \in {"kickoff", "builder"}, NEW project, NEW n,
           Creating(NewTask(kind, project, n))
    PROVE  BoardSafe
<1> DEFINE task == NewTask(kind, project, n)
<1>1. task.state = "pending" /\ task.kind # "doctor"
  BY DEF NewTask
<1>2. \A j \in Ids : Stays(j) \/ (Kind(j) = "none" /\ board'[j] = task)
  BY <1>1, CreatingPends
<1> QED
  BY <1>1, <1>2 DEF BoardSafe, Kind

LEMMA LoopIsSafe ==
    ASSUME Shape, Staged, Accounted, Clean, faults' = faults, Loop
    PROVE  Safe \/ Spawn \/ \E i \in Ids : Claims(i)
<1> USE DEF None
<1>1. faults \in Wrongs /\ ~Loses /\ ~Upsets
  BY NoFault DEF Accounted
<1>2. stage' = stage
  BY LoopStage DEF NoStage
<1>3. handler' = handler /\ reports' = reports => HandlersSafe /\ StagesSafe /\ reports' = {}
  BY <1>2 DEF Clean, HandlersSafe, StagesSafe
<1>4. board' = board => BoardSafe
  BY DEF BoardSafe, Stays
<1>5. CASE Poll \/ \E i \in Ids : PassOver(i)
  BY <1>3, <1>4, <1>5 DEF Poll, PassOver, Safe, LoopSafe, SameLoop
<1>6. CASE Boot
  <2>1. \A j \in Ids : Stays(j) \/ (State(j) = "claimed" /\ board'[j] = NoTask)
    BY <1>6 DEF Boot, Pages, Claimed, Stays
  <2>2. \A j \in Ids : Kind(j) = "doctor" => State(j) # "claimed"
    BY <1>6 DEF Boot, Clean, Sound, Shape, Rooted, Over
  <2>3. \A j \in Ids : Stays(j) \/ (Kind(j) # "doctor" /\ board'[j] = NoTask)
    BY <2>1, <2>2
  <2>4. BoardSafe
    BY <2>3 DEF BoardSafe, NoTask, NewTask, Kind
  <2>5. LoopSafe
    BY <1>6, DaemonAssumption DEF Boot, Accounted, Holds, LoopSafe
  <2> QED
    BY <1>3, <1>6, <2>4, <2>5 DEF Boot, Safe
<1>7. ASSUME NEW state \in Over, NEW why, NEW answer, TryComplete(cur, state, why, answer),
             pc \in {"held", "talk", "reply"}, Kind(cur) # "doctor" \/ pc # "held", cur' = None,
             handler' = handler, reports' = reports
      PROVE  Safe
  <2>1. cur \in Ids /\ Kind(cur) # "doctor"
    BY <1>7 DEF Accounted, Holds, Clean, Sound
  <2>2. BoardSafe
    BY <1>1, <1>7, <2>1, TrySafe
  <2> QED
    BY <1>3, <1>7, <2>1, <2>2 DEF Safe, LoopSafe
<1>8. CASE Unhandled \/ RejectDuplicate
  BY <1>7, <1>8 DEF Unhandled, RejectDuplicate, Over
<1>9. CASE GateHit \/ Reply
  BY <1>7, <1>9 DEF GateHit, Reply, LetGo, Inline, Over
<1>10. CASE GatePassed \/ (\E turn \in Turns : Turn(turn)) \/ \E text \in Texts : Says(text)
  <2>1. Kind(cur) # "doctor" \/ cur \notin Ids
    BY <1>10 DEF GatePassed, Turn, Says, Clean, Sound
  <2> QED
    BY <1>3, <1>4, <1>10, <2>1 DEF GatePassed, Turn, Says, Inline, LoopSafe, Safe
<1>11. ~GatewayFails
  BY <1>1 DEF GatewayFails
<1> QED
  BY <1>5, <1>6, <1>8, <1>9, <1>10, <1>11 DEF Loop

LEMMA KickoffIsSafe ==
    ASSUME Shape, Staged, Accounted, Clean, faults' = faults, NEW i \in Ids, Kickoff(i)
    PROVE  Safe
<1>1. faults \in Wrongs /\ ~Loses /\ ~Upsets
  BY NoFault DEF Accounted
<1>2. LoopSafe /\ StagesSafe
  BY KickoffSameLoop, KickoffStage DEF LoopSafe, NoStage, StagesSafe
<1>3. board' = board => BoardSafe
  BY DEF BoardSafe, Stays
<1>4. handler' = handler => HandlersSafe
  BY DEF Clean, HandlersSafe
<1>5. ASSUME NEW to, to # "died", handler' = [handler EXCEPT ![i] = to], Kind(i) # "doctor"
      PROVE  HandlersSafe
  BY <1>5 DEF Shape, Clean, HandlersSafe
<1>6. CASE Parses(i) \/ Raises(i) \/ CancelSeen(i)
  <2>1. HandlersSafe
    BY <1>5, <1>6 DEF Parses, ParsePayload, Raises, CancelSeen, Goes
  <2> QED
    BY <1>2, <1>3, <1>6, <2>1 DEF Parses, ParsePayload, Raises, CancelSeen, Off, Safe, Clean
<1>7. CASE Requeues(i)
  <2>1. HandlersSafe
    BY <1>5, <1>7 DEF Requeues, Goes
  <2>2. BoardSafe
    BY <1>7, CreatingSafe DEF Requeues
  <2> QED
    BY <1>2, <1>7, <2>1, <2>2 DEF Requeues, Off, Safe, Clean
<1>8. CASE Completes(i) \/ FailKickoff(i) \/ Drained(i)
  <2>1. Kind(i) # "doctor"
    BY <1>8 DEF Completes, FailKickoff, Drained, Goes, Clean, Sound
  <2>2. HandlersSafe
    BY <1>5, <1>8, <2>1 DEF Completes, FailKickoff, Drained, Goes
  <2>3. BoardSafe
    BY <1>1, <1>8, <2>1, TrySafe DEF Completes, FailKickoff, Drained, Over
  <2> QED
    BY <1>2, <1>8, <2>2, <2>3 DEF Completes, FailKickoff, Drained, Off, Safe, Clean
<1>9. ~Reports(i)
  BY DEF Reports, Clean
<1>10. CASE Clears(i)
  <2>1. Goes(i, "done", "off") /\ reports' = reports
    BY <1>10 DEF Clears, ClearSlot, Goes, Clean
  <2>2. HandlersSafe
    BY <2>1 DEF Goes, Shape, Clean, HandlersSafe
  <2>3. BoardSafe
    BY <1>10, LeftSafe DEF Clears, ClearSlot
  <2> QED
    BY <1>2, <2>1, <2>2, <2>3 DEF Safe, Clean
<1>11. CASE HydratesFirst(i) \/ PrFound(i) \/ CountsAgain(i) \/ Merges(i)
  BY <1>2, <1>3, <1>4, <1>11 DEF HydratesFirst, PrFound, CountsAgain, Merges, Steady, Safe, Clean
<1>12. CASE DispatchesChild(i)
  <2>1. BoardSafe
    BY <1>12, CreatingSafe DEF DispatchesChild, Creating
  <2> QED
    BY <1>2, <1>4, <1>12, <2>1 DEF DispatchesChild, Steady, Safe, Clean
<1>13. CASE Collects(i) \/ GivesUp(i) \/ TimesOut(i)
  <2>1. BoardSafe
    BY <1>13, LeftSafe DEF Collects, GivesUp, TimesOut, Released
  <2> QED
    BY <1>2, <1>4, <1>13, <2>1 DEF Collects, GivesUp, TimesOut, Released, Steady, Safe, Clean
<1> QED
  BY <1>6, <1>7, <1>8, <1>9, <1>10, <1>11, <1>12, <1>13 DEF Kickoff

LEMMA DoctorsIsSafe ==
    ASSUME Shape, Staged, Accounted, Clean, faults' = faults, NEW i \in Ids, Doctors(i)
    PROVE  Safe \/ QueuesNext(i) \/ Closes(i)
<1>1. LoopSafe
  BY DoctorsSameLoop DEF LoopSafe
<1>2. board' = board => BoardSafe
  BY DEF BoardSafe, Stays
<1>3. handler' = handler => HandlersSafe
  BY DEF Clean, HandlersSafe
<1>4. CASE Starts(i)
  <2>1. HandlersSafe
    BY <1>4 DEF Starts, Goes, Shape, Clean, HandlersSafe
  <2>2. StagesSafe
    BY <1>4 DEF Starts, Goes, Staged, StagesSafe
  <2> QED
    BY <1>1, <1>2, <1>4, <2>1, <2>2 DEF Starts, Safe, Clean
<1>5. ASSUME handler' = handler, reports' = reports, NEW from, NEW to, Stage(i, from, to),
             from # "close", to # "close", BoardSafe
      PROVE  Safe
  <2>1. StagesSafe
    BY <1>5 DEF Stage, Staged, StagesSafe
  <2> QED
    BY <1>1, <1>3, <1>5, <2>1 DEF Safe, Clean
<1>6. CASE Scans(i) \/ Patches(i) \/ Saves(i) \/ Watches(i) \/ Notes(i)
  BY <1>2, <1>5, <1>6 DEF Scans, Patches, Saves, Watches, Notes
<1>7. ASSUME NEW project \in Projects, Passes(i, project) \/ AsksPending(i, project)
      PROVE  Safe
  BY <1>2, <1>5, <1>7 DEF Passes, AsksPending, Thinks, Calls, daemonVars
<1>8. CASE AsksClaimed(i) \/ Spares(i)
  BY <1>2, <1>5, <1>8 DEF AsksClaimed, Spares, Thinks, Calls, daemonVars
<1>9. CASE Restarts(i)
  <2> DEFINE task == [NewTask("kickoff", at[i], 1) EXCEPT !.marked = TRUE]
  <2>1. task.state = "pending" /\ task.kind = "kickoff"
    BY DEF NewTask
  <2>2. Creating(task)
    BY <1>9 DEF Restarts, Creating
  <2>3. \A j \in Ids : Stays(j) \/ (Kind(j) = "none" /\ board'[j] = task)
    BY <2>1, <2>2, CreatingPends
  <2>4. BoardSafe
    BY <2>1, <2>3 DEF BoardSafe, Kind
  <2> QED
    BY <1>5, <1>9, <2>4 DEF Restarts
<1> QED
  BY <1>4, <1>6, <1>7, <1>8, <1>9 DEF Doctors

LEMMA WorldIsSafe ==
    ASSUME Shape, Staged, Accounted, Clean, faults' = faults, World
    PROVE  Safe \/ PersonStartsDoctor
<1>1. ~Loses /\ ~Doubles /\ ~Upsets
  BY NoFault DEF Accounted
<1>2. \A i \in Ids : ~HandlerDies(i) /\ ~LeaseExpires(i) /\ ~PersonCancels(i)
  BY <1>1 DEF HandlerDies, Dies, LeaseExpires, PersonCancels
<1>3. ~Crash /\ ~EditRegistry /\ ~PersonTakes
  BY <1>1 DEF Crash, DaemonCrash, EditRegistry, PersonTakes
<1>4. CASE Tick
  BY <1>4 DEF Tick, daemonVars, loop, Asleep, Clean, Stays, Safe, BoardSafe, HandlersSafe, LoopSafe, SameLoop,
              StagesSafe, Staged
<1>5. CASE PersonEdits /\ UNCHANGED doctorVars
  BY <1>5 DEF PersonEdits, doctorVars, work, daemonVars, loop, Clean, Stays, Safe, BoardSafe, HandlersSafe,
              LoopSafe, SameLoop, StagesSafe
<1> QED
  BY <1>2, <1>3, <1>4, <1>5 DEF World

\* A step under which the open doctors stay the same ones.
LEMMA SameOpen ==
    ASSUME Unbroken, site' = site, Clean', Open' = Open PROVE Unbroken'
<1>1. Chains' = Chains
  BY DEF Chains
<1> QED
  BY <1>1 DEF Unbroken

LEMMA ClaimsUnbroken ==
    ASSUME Shape, Staged, Accounted, Unbroken, faults' = faults, site' = site, NEW i \in Ids, Claims(i)
    PROVE  Unbroken'
<1> USE DEF None
<1>1. /\ handler' = handler /\ stage' = stage /\ reports' = reports /\ pc = "scan" /\ cur = None
      /\ faults \in Wrongs /\ ~Loses
  BY NoFault DEF Claims, Claim, DoctorRest, work, Accounted, Holds
<1>2. CASE UNCHANGED <<board, pc, cur>>
  <2>1. Clean' /\ Open' = Open
    BY <1>1, <1>2 DEF Unbroken, Clean, Sound, Open, Kind, State
  <2> QED
    BY <2>1, SameOpen
<1>3. CASE board' = [board EXCEPT ![i].state = "claimed"] /\ State(i) = "pending" /\ pc' = "held" /\ cur' = i
  <2>1. \A j \in Ids : Kind(j)' = Kind(j) /\ State(j)' = (IF j = i THEN "claimed" ELSE State(j))
    BY <1>3 DEF Shape, Task, Kind, State
  <2>2. Clean'
    BY <1>1, <1>3, <2>1, DaemonAssumption DEF Unbroken, Clean, Sound, Over
  <2>3. Open' = Open
    BY <1>1, <1>3, <2>1 DEF Open, Over
  <2> QED
    BY <2>2, <2>3, SameOpen
<1> QED
  BY <1>1, <1>2, <1>3 DEF Claims, Claim, loop

LEMMA SpawnUnbroken ==
    ASSUME Shape, Staged, Accounted, Unbroken, site' = site, Spawn, Quiet PROVE Unbroken'
<1> USE DEF None
<1>1. /\ pc = "held" /\ cur \in Ids /\ handler' = [handler EXCEPT ![cur] = "fresh"] /\ cur' = None
      /\ stage' = stage /\ reports' = reports /\ handler[cur] = "off"
  BY DEF Spawn, Quiet, doctorVars, work, Shape, Rest
<1>2. BoardSafe
  BY LeftSafe DEF Spawn
<1>3. Clean'
  BY <1>1, <1>2, DaemonAssumption DEF Shape, Unbroken, Clean, Sound, BoardSafe, Stays, Kind, State, Over
<1>4. Open' = Open
  BY <1>1, <1>2 DEF BoardSafe, Open, Stays, Kind, State
<1> QED
  BY <1>3, <1>4, SameOpen

LEMMA ClosesUnbroken ==
    ASSUME Shape, Staged, Accounted, Unbroken, faults' = faults, site' = site, NEW i \in Ids, Closes(i)
    PROVE  Unbroken'
<1>1. ~Loses
  BY NoFault DEF Accounted
<1>2. /\ handler' = [handler EXCEPT ![i] = "done"] /\ Completed(i, "completed", "", "")
      /\ pc' = pc /\ cur' = cur /\ reports' = reports
      /\ stage[i] = "close" /\ stage' = [stage EXCEPT ![i] = "none"]
  BY <1>1 DEF Closes, Calls, loop, Stage
<1>3. Finishes(i) /\ \A j \in Ids \ {i} : Stays(j)
  BY <1>2, CompletedEnds DEF Over
<1>4. handler[i] = "running" /\ Kind(i) = "doctor"
  BY <1>2 DEF Staged
<1>5. Clean'
  BY <1>2, <1>3, <1>4 DEF Shape, Unbroken, Clean, Sound, Stays, Finishes, Kind, State, Over
<1>6. Open' = Open
  BY <1>2, <1>3 DEF Staged, Open, Stays, Finishes, Kind, State
<1> QED
  BY <1>5, <1>6, SameOpen

\* The link that hands on is replaced by the next.
LEMMA QueuesNextUnbroken ==
    ASSUME Shape, Staged, Accounted, Unbroken, faults' = faults, site' = site, NEW i \in Ids, QueuesNext(i)
    PROVE  Unbroken'
<1> DEFINE task == NewTask("doctor", None, 0)
<1>1. PICK ids \in SUBSET {j \in Ids : Free(j)} :
          /\ \A j \in Ids \ ids : Stays(j)
          /\ \A j \in ids : board'[j] = task
          /\ Cardinality(ids) = 1
  BY CreatingMakes DEF QueuesNext, Accounted
<1>2. PICK k : ids = {k}
  <2>1. ids \in SUBSET Ids
    OBVIOUS
  <2> QED
    BY <1>1, <2>1, Counted, FS_Singleton
<1>3. /\ k \in Ids /\ Kind(k) = "none" /\ k # cur /\ handler[k] = "off" /\ stage[k] = "none"
      /\ Kind(k)' = "doctor" /\ State(k)' = "pending"
      /\ \A j \in Ids \ {k} : Stays(j)
  <2>1. task.kind = "doctor" /\ task.state = "pending"
    BY DEF NewTask
  <2>2. k \in Ids /\ Free(k) /\ board'[k] = task /\ \A j \in Ids \ {k} : Stays(j)
    BY <1>1, <1>2
  <2>3. Kind(k) = "none" /\ k # cur
    BY <2>2 DEF Free, IsTask
  <2> QED
    BY <2>1, <2>2, <2>3 DEF Shape, Rooted, Staged, Kind, State
<1>4. /\ handler' = handler /\ pc' = pc /\ cur' = cur /\ reports' = reports
      /\ stage[i] = "awake" /\ stage' = [stage EXCEPT ![i] = "close"]
  BY DEF QueuesNext, Stage, Calls, loop
<1>5. Kind(i) = "doctor" /\ handler[i] = "running"
  BY <1>4 DEF Staged
<1>6. Clean'
  BY <1>3, <1>4 DEF Unbroken, Clean, Sound, Stays, Kind, State
<1>7. i \in Open /\ k \notin Open /\ i # k
  BY <1>3, <1>4, <1>5 DEF Open, Unbroken, Clean, Sound, Over
<1>8. Open' = (Open \ {i}) \cup {k}
  <2>1. ASSUME NEW j \in Ids PROVE j \in Open' <=> j \in (Open \ {i}) \cup {k}
    BY <1>3, <1>4, <1>7 DEF Open, Staged, Stays, Kind, State, Over
  <2> QED
    BY <1>3, <2>1 DEF Open
<1>9. Cardinality(Open') = Cardinality(Open)
  <2>1. Open \in SUBSET Ids /\ IsFiniteSet(Open) /\ Cardinality(Open) \in Nat
    BY Counted DEF Open
  <2>2. IsFiniteSet(Open \ {i}) /\ Cardinality(Open \ {i}) = Cardinality(Open) - 1 /\ k \notin Open \ {i}
    BY <1>7, <2>1, FS_RemoveElement
  <2>3. Cardinality((Open \ {i}) \cup {k}) = Cardinality(Open \ {i}) + 1
    BY <2>2, FS_AddElement
  <2> QED
    BY <1>8, <2>1, <2>2, <2>3
<1>10. Chains' = Chains
  BY DEF Chains
<1> QED
  BY <1>6, <1>9, <1>10 DEF Unbroken

LEMMA UnbrokenStep ==
    ASSUME Shape, Staged, Accounted, Faults = 0 /\ Hopeful => Unbroken, [Next]_vars
    PROVE  (Faults = 0 /\ Hopeful => Unbroken)'
<1>1. site' = site /\ Worse /\ faults \in Wrongs
  BY SiteStays, AccountedStep DEF Accounted
<1>2. SUFFICES ASSUME Faults' = 0, Hopeful' PROVE Unbroken'
  OBVIOUS
<1>3. faults' = faults /\ Unbroken
  BY <1>1, <1>2, FaultFree DEF Hopeful, Chains
<1>4. Clean
  BY <1>3 DEF Unbroken
<1>5. CASE UNCHANGED vars
  <2>1. Clean' /\ Open' = Open
    BY <1>4, <1>5 DEF vars, daemonVars, doctorVars, work, loop, Clean, Sound, Open, Kind, State
  <2> QED
    BY <1>1, <1>3, <2>1, SameOpen
<1>6. CASE Loop
  <2>1. CASE Spawn
    BY <1>1, <1>3, <1>6, <2>1, SpawnUnbroken
    DEF Loop, Boot, Poll, Unhandled, RejectDuplicate, Spawn, PassOver, Claims, Claim, GateHit, GatePassed,
        GatewayFails, Reply, Turn, Says
  <2> QED
    BY <1>1, <1>3, <1>4, <1>6, <2>1, LoopIsSafe, SafeUnbroken, ClaimsUnbroken
<1>7. ASSUME NEW i \in Ids, Kickoff(i) PROVE Unbroken'
  BY <1>1, <1>3, <1>4, <1>7, KickoffIsSafe, SafeUnbroken
<1>8. ASSUME NEW i \in Ids, Doctors(i) PROVE Unbroken'
  BY <1>1, <1>3, <1>4, <1>8, DoctorsIsSafe, SafeUnbroken, QueuesNextUnbroken, ClosesUnbroken
<1>9. CASE World
  <2>1. ~PersonStartsDoctor
    <3>1. CASE PersonStartsDoctor
      <4>1. Open = {} /\ Chains # {} /\ Chains \in SUBSET Ids
        BY <3>1 DEF PersonStartsDoctor, Unattended, Open, Chains
      <4> QED
        BY <1>3, <4>1, Counted, FS_EmptySet DEF Unbroken
    <3> QED
      BY <3>1
  <2> QED
    BY <1>1, <1>3, <1>4, <1>9, <2>1, WorldIsSafe, SafeUnbroken
<1> QED
  BY <1>5, <1>6, <1>7, <1>8, <1>9 DEF Next

LEMMA StagedInit == Init => Staged
  BY DEF Init, DoctorInit, DaemonInit, Staged, Stages

LEMMA ChainInit ==
    ASSUME Init PROVE Chained /\ (Faults = 0 /\ Hopeful => Unbroken)
<1> USE DEF None
<1>1. /\ board = site.tasks /\ cur = None /\ reports = {} /\ handler = [i \in Ids |-> "off"]
      /\ stage = [i \in Ids |-> "none"] /\ faults.twice = 0
  BY DEF Init, DaemonInit, DoctorInit
<1>2. Waiting \in SUBSET Chains /\ InHand = {} /\ AtWork = {} /\ Chains \in SUBSET Ids
  BY <1>1, DaemonAssumption DEF Waiting, InHand, AtWork, Chains, Kind
<1>3. Cardinality(Waiting) <= Cardinality(Chains) /\ Cardinality(InHand) = 0 /\ Cardinality(AtWork) = 0
  BY <1>2, CountPart, FS_EmptySet
<1>4. Chained
  <2>1. Cardinality(Waiting) \in Nat /\ Cardinality(Chains) \in Nat
    BY <1>2, LinkSets, Counted
  <2> QED
    BY <1>1, <1>3, <2>1 DEF Chained, Links
<1>5. ASSUME Hopeful PROVE Unbroken
  <2>1. \A j \in Ids : Kind(j) = "doctor" => State(j) = "pending"
    BY <1>1, <1>5 DEF Hopeful, Chains, Kind, State
  <2>2. Clean
    BY <1>1, <2>1, DaemonAssumption DEF Clean, Sound
  <2>3. Open = Chains
    BY <1>1, <2>1 DEF Open, Chains, Kind, Over
  <2> QED
    BY <2>2, <2>3 DEF Unbroken
<1> QED
  BY <1>4, <1>5

LEMMA ChainHolds == Spec => [](Staged /\ Accounted /\ Chained /\ (Faults = 0 /\ Hopeful => Unbroken))
<1> DEFINE Links0 == Staged /\ Accounted /\ Chained /\ (Faults = 0 /\ Hopeful => Unbroken)
<1>1. Init => Links0
  BY StagedInit, AccountedInit, ChainInit
<1>2. Shape /\ Shape' /\ Links0 /\ [Next]_vars => Links0'
  <2> SUFFICES ASSUME Shape, Shape', Links0, [Next]_vars PROVE Links0'
    OBVIOUS
  <2>1. Staged'
    BY StagedStep
  <2>2. Accounted' /\ Chained'
    BY AccountedStep, ChainedStep
  <2>3. (Faults = 0 /\ Hopeful => Unbroken)'
    BY UnbrokenStep
  <2> QED
    BY <2>1, <2>2, <2>3
<1> HIDE DEF Links0
<1>3. Spec => []Links0
  BY <1>1, <1>2, ShapeHolds, PTL DEF Spec
<1> QED
  BY <1>3 DEF Links0

\* The surveillance is as many chains as were started (doctor.py, _queue_next_kickoff
\* before the last completion): whatever crashes, dies or is cancelled, there are no more
\* heads but one for each create that was applied twice and each claim that was given
\* up; and while nothing goes wrong, none less.
THEOREM DoctorChainHolds == Spec => []DoctorChain
<1>1. ASSUME Shape, Staged, Accounted, Chained, Faults = 0 /\ Hopeful => Unbroken
      PROVE  DoctorChain
  <2>1. Heads \in SUBSET (Waiting \cup (InHand \cup AtWork))
    BY DEF Heads, Waiting, InHand, AtWork
  <2>2. Cardinality(Heads) <= Cardinality(Waiting) + Cardinality(InHand \cup AtWork)
    BY <2>1, LinkSets, CountMore
  <2>3. Cardinality(InHand \cup AtWork) <= Cardinality(InHand) + Cardinality(AtWork)
    BY LinkSets, CountMore
  <2>4. Heads \in SUBSET Ids /\ Chains \in SUBSET Ids /\ InHand \cup AtWork \in SUBSET Ids
    BY LinkSets DEF Heads, Chains
  <2>5. Cardinality(Heads) <= Cardinality(Chains) + faults.twice
    <3>1. /\ Cardinality(Heads) \in Nat /\ Cardinality(Waiting) \in Nat /\ Cardinality(InHand) \in Nat
          /\ Cardinality(AtWork) \in Nat /\ Cardinality(Chains) \in Nat
          /\ Cardinality(InHand \cup AtWork) \in Nat /\ faults.twice \in Nat
      BY <2>4, LinkSets, Counted, <1>1 DEF Accounted, Wrongs
    <3> QED
      BY <1>1, <2>2, <2>3, <3>1 DEF Chained, Links
  <2>6. ASSUME Faults = 0, Hopeful PROVE Cardinality(Heads) = Cardinality(Chains)
    <3>1. Heads = Open
      BY <1>1, <2>6 DEF Unbroken, Clean, Sound, Heads, Open, Over
    <3> QED
      BY <1>1, <2>6, <3>1 DEF Unbroken
  <2> QED
    BY <2>5, <2>6 DEF DoctorChain, Hopeful
<1> QED
  BY <1>1, ChainHolds, ShapeHolds, PTL
-----------------------------------------------------------------------------
(* The ledger of restarts and alerts.                                      *)

\* Counts of the last n intervals, the present one included.
Rising(f) == \A m, n \in DOMAIN f : m <= n => f[m] <= f[n]
Booked ==
    /\ ledger \in Ledger /\ draft \in [Ids -> Ledger]
    /\ count \in 0..MaxCount /\ unhealthy \in BOOLEAN /\ alert \in {"none", "loop", "sick"}
    /\ restarts \in [0..LoopWindow -> Nat] /\ Rising(restarts)
    /\ rung \in [0..AlertCooldown - 1 -> Nat] /\ Rising(rung)

books == <<draft, ledger, target, alert, restarts, rung>>
\* Where only the detector comes.
Noting(j) == stage[j] = "note"
Elsewhere == UNCHANGED books /\ \A j \in Ids : Noting(j)' <=> Noting(j)

LEMMA OneMoreCounts ==
    ASSUME NEW top \in Nat, NEW f \in [0..top -> Nat], Rising(f)
    PROVE  /\ OneMore(f) \in [0..top -> Nat] /\ Rising(OneMore(f))
           /\ \A n \in 0..top : OneMore(f)[n] = f[n] + 1
  BY DEF Rising, OneMore

LEMMA LaterCounts ==
    ASSUME NEW top \in Nat, NEW f \in [0..top -> Nat], Rising(f), NEW more \in Nat
    PROVE  /\ Later(f, more) \in [0..top -> Nat] /\ Rising(Later(f, more))
           /\ Later(f, more)[0] = 0
           /\ \A n \in 1..top : Later(f, more)[n] = f[n - 1] + more
<1>1. \A n \in 0..top : Later(f, more)[n] = IF n = 0 THEN 0 ELSE f[n - 1] + more
  BY DEF Later
<1>2. \A n \in 1..top : n - 1 \in 0..top /\ f[n - 1] \in Nat
  OBVIOUS
<1>3. \A n \in 0..top : Later(f, more)[n] \in Nat
  BY <1>1, <1>2
<1>4. Later(f, more) \in [0..top -> Nat]
  BY <1>3 DEF Later
<1>5. ASSUME NEW m \in 0..top, NEW n \in 0..top, m <= n PROVE Later(f, more)[m] <= Later(f, more)[n]
  <2>1. CASE m = 0
    BY <1>1, <1>3, <2>1
  <2>2. CASE m # 0
    <3>1. m - 1 \in 0..top /\ n - 1 \in 0..top /\ m - 1 <= n - 1 /\ n # 0
      BY <1>5, <2>2
    <3>2. f[m - 1] <= f[n - 1] /\ f[m - 1] \in Nat /\ f[n - 1] \in Nat
      BY <3>1 DEF Rising
    <3> QED
      BY <1>1, <2>2, <3>1, <3>2
  <2> QED
    BY <2>1, <2>2
<1> QED
  BY <1>1, <1>4, <1>5 DEF Rising

LEMMA DoctorBounds ==
    /\ AttemptBudget \in Nat \ {0} /\ Window \in Nat \ {0} /\ Cooldown \in Nat \ {0}
    /\ Freshness \in Nat \ {0} /\ LoopThreshold \in Nat \ {0} /\ LoopWindow \in Nat \ {0}
    /\ SickFor \in Nat \ {0} /\ AlertCooldown \in Nat \ {0} /\ MaxCount \in Nat \ {0}
    /\ AlertCooldown - 1 \in Nat
  BY DoctorAssumption

LEMMA BookSteps ==
    ASSUME Shape, Staged, [Next]_vars
    PROVE  \/ Elsewhere
           \/ \E i \in Ids : Watches(i) \/ Notes(i) \/ HandlerDies(i)
           \/ Tick \/ Crash
<1>1. CASE UNCHANGED vars
  BY <1>1 DEF vars, doctorVars, disk, work, Elsewhere, books, Noting
<1>2. CASE Loop
  <2>1. stage' = stage
    BY <1>2, LoopStage DEF NoStage
  <2> QED
    BY <1>2, <2>1 DEF Loop, Quiet, NoDoctor, Claims, DoctorRest, doctorVars, disk, work, Elsewhere, books, Noting
<1>3. ASSUME NEW i \in Ids, Kickoff(i) PROVE Elsewhere
  <2>1. stage' = stage
    BY <1>3, KickoffStage DEF NoStage
  <2> QED
    BY <1>3, <2>1 DEF Kickoff, Parses, Clears, Quiet, NoDoctor, doctorVars, disk, work, Elsewhere, books, Noting
<1>4. ASSUME NEW i \in Ids, Doctors(i) PROVE Elsewhere \/ Watches(i) \/ Notes(i)
  <2>1. ASSUME NEW from, NEW to, stage[i] = from, stage' = [stage EXCEPT ![i] = to], from # "note", to # "note",
               UNCHANGED books
        PROVE  Elsewhere
    BY <2>1 DEF Staged, Elsewhere, Noting
  <2>2. CASE Starts(i)
    <3>1. stage[i] = "none"
      BY <2>2 DEF Starts, Goes, Staged
    <3> QED
      BY <2>1, <2>2, <3>1 DEF Starts, Surveys, disk, books
  <2>3. CASE Scans(i) \/ Patches(i) \/ Restarts(i) \/ Saves(i)
    BY <2>1, <2>3 DEF Scans, Patches, Surveys, Restarts, Saves, Stage, disk, books
  <2>4. ASSUME NEW project \in Projects, Passes(i, project) \/ AsksPending(i, project)
        PROVE  Elsewhere
    BY <2>1, <2>4 DEF Passes, AsksPending, Thinks, Calls, Stage, disk, books
  <2>5. CASE AsksClaimed(i) \/ Spares(i) \/ QueuesNext(i) \/ Closes(i)
    BY <2>1, <2>5 DEF AsksClaimed, Spares, QueuesNext, Closes, Thinks, Calls, Stage, disk, books
  <2> QED
    BY <1>4, <2>2, <2>3, <2>4, <2>5 DEF Doctors
<1>5. CASE World
  BY <1>5 DEF World, Quiet, NoDoctor, PersonStartsDoctor, doctorVars, disk, work, Elsewhere, books, Noting
<1> QED
  BY <1>1, <1>2, <1>3, <1>4, <1>5 DEF Next

\* What a probe leaves in the ledger.
LEMMA ProbedIs ==
    ASSUME NEW l \in Ledger, count \in 0..MaxCount
    PROVE  /\ Probed(l) \in Ledger /\ [Probed(l) EXCEPT !.alerted = 0] \in Ledger
           /\ Probed(l).samples = Sampled(l) /\ Probed(l).alerted = l.alerted
           /\ [Probed(l) EXCEPT !.alerted = 0].samples = Sampled(l)
           /\ [Probed(l) EXCEPT !.alerted = 0].alerted = 0
<1> DEFINE sick == IF ~unhealthy THEN Never ELSE IF l.sick = Never THEN 0 ELSE l.sick
<1>1. sick \in {Never} \cup 0..SickFor
  BY DoctorBounds DEF Ledger
<1>2. Sampled(l) \in SUBSET ((0..LoopWindow) \X (0..MaxCount))
  BY DoctorBounds DEF Ledger, Sampled
<1>3. Probed(l) = [l EXCEPT !.samples = Sampled(l), !.sick = sick]
  BY DEF Probed
<1> HIDE DEF sick
<1>4. /\ Probed(l) \in Ledger /\ Probed(l).samples = Sampled(l) /\ Probed(l).alerted = l.alerted
  BY <1>1, <1>2, <1>3 DEF Ledger
<1>5. 0 \in 0..AlertCooldown
  BY DoctorBounds
<1> QED
  BY <1>4, <1>5 DEF Ledger

LEMMA WatchesIs ==
    ASSUME Booked, NEW i \in Ids, Watches(i)
    PROVE  /\ \E d \in Ledger : /\ draft' = [draft EXCEPT ![i] = d]
                                /\ d.samples \in SUBSET Sampled(ledger)
                                /\ d.alerted \in {ledger.alerted, 0}
                                /\ d.alerted # ledger.alerted => Due(ledger) /\ rung' = OneMore(rung)
           /\ UNCHANGED <<alert, rung>> \/ (Due(ledger) /\ Rings)
           /\ rung' = rung \/ Loses \/ (faults' = faults /\ draft'[i].alerted = 0)
           /\ UNCHANGED <<ledger, target, restarts>>
<1>1. ledger \in Ledger /\ count \in 0..MaxCount /\ draft \in [Ids -> Ledger]
  BY DEF Booked
<1>2. /\ Probed(ledger) \in Ledger /\ [Probed(ledger) EXCEPT !.alerted = 0] \in Ledger
      /\ Probed(ledger).samples = Sampled(ledger) /\ Probed(ledger).alerted = ledger.alerted
      /\ [Probed(ledger) EXCEPT !.alerted = 0].samples = Sampled(ledger)
      /\ [Probed(ledger) EXCEPT !.alerted = 0].alerted = 0
  BY <1>1, ProbedIs
<1>3. ledger.samples \in SUBSET Sampled(ledger)
  BY DEF Sampled
<1>4. UNCHANGED <<ledger, target, restarts>>
  BY DEF Watches, disk
<1>5. CASE draft' = [draft EXCEPT ![i] = ledger] /\ UNCHANGED <<alert, rung, faults>>
  BY <1>1, <1>3, <1>4, <1>5
<1>6. CASE draft' = [draft EXCEPT ![i] = Probed(ledger)] /\ UNCHANGED <<alert, rung, faults>>
  BY <1>2, <1>4, <1>6
<1>7. CASE /\ Due(ledger) /\ Rings /\ UNCHANGED faults
           /\ draft' = [draft EXCEPT ![i] = [Probed(ledger) EXCEPT !.alerted = 0]]
  <2>1. draft'[i].alerted = 0
    BY <1>1, <1>2, <1>7
  <2> QED
    BY <1>2, <1>4, <1>7, <2>1 DEF Rings
<1>8. CASE /\ Due(ledger) /\ Loses /\ draft' = [draft EXCEPT ![i] = Probed(ledger)]
           /\ Rings \/ UNCHANGED <<alert, rung>>
  BY <1>2, <1>4, <1>8
<1> QED
  BY <1>5, <1>6, <1>7, <1>8 DEF Watches

\* An interval later the samples and the alert are one older.
LEMMA TickLedger ==
    ASSUME ledger \in Ledger, Tick
    PROVE  /\ ledger' \in Ledger
           /\ \A s \in ledger'.samples : \E r \in ledger.samples :
                 r[1] < LoopWindow /\ s[1] = r[1] + 1 /\ s[2] = r[2]
           /\ ledger'.alerted = Older(ledger.alerted, AlertCooldown)
<1> DEFINE samples == {<<s[1] + 1, s[2]>> : s \in {r \in ledger.samples : r[1] < LoopWindow}}
           sick == Older(ledger.sick, SickFor)
           alerted == Older(ledger.alerted, AlertCooldown)
<1>1. ledger' = [samples |-> samples, sick |-> sick, alerted |-> alerted]
  BY DEF Tick
<1>2. ledger.samples \in SUBSET ((0..LoopWindow) \X (0..MaxCount))
  BY DEF Ledger
<1>3. samples \in SUBSET ((0..LoopWindow) \X (0..MaxCount))
  <2> SUFFICES ASSUME NEW s \in samples PROVE s \in (0..LoopWindow) \X (0..MaxCount)
    OBVIOUS
  <2>1. PICK r \in ledger.samples : r[1] < LoopWindow /\ s = <<r[1] + 1, r[2]>>
    OBVIOUS
  <2>2. r[1] \in 0..LoopWindow /\ r[2] \in 0..MaxCount
    BY <1>2
  <2> QED
    BY <2>1, <2>2, DoctorBounds
<1>4. sick \in {Never} \cup 0..SickFor /\ alerted \in {Never} \cup 0..AlertCooldown
  BY DoctorBounds DEF Ledger, Older, Never
<1>5. \A s \in samples : \E r \in ledger.samples :
          r[1] < LoopWindow /\ s[1] = r[1] + 1 /\ s[2] = r[2]
  OBVIOUS
<1> HIDE DEF samples, sick, alerted
<1>6. ledger' \in Ledger
  BY <1>1, <1>3, <1>4 DEF Ledger
<1> QED
  BY <1>1, <1>5, <1>6 DEF alerted

LEMMA BookedStep ==
    ASSUME Shape, Staged, Booked, [Next]_vars PROVE Booked'
<1>1. CASE Elsewhere
  BY <1>1 DEF Elsewhere, books, target, Booked, Rising
<1>2. ASSUME NEW i \in Ids, Watches(i) PROVE Booked'
  <2>1. /\ \E d \in Ledger : draft' = [draft EXCEPT ![i] = d]
        /\ UNCHANGED <<alert, rung>> \/ (alert' \in {"none", "loop", "sick"} /\ rung' = OneMore(rung))
        /\ UNCHANGED <<ledger, target, restarts>>
    BY <1>2, WatchesIs DEF Rings
  <2>2. draft' \in [Ids -> Ledger]
    BY <2>1 DEF Booked
  <2>3. rung' \in [0..AlertCooldown - 1 -> Nat] /\ Rising(rung')
    <3>1. CASE rung' = rung
      BY <3>1 DEF Booked
    <3>2. CASE rung' = OneMore(rung)
      BY <3>2, DoctorBounds, OneMoreCounts DEF Booked
    <3> QED
      BY <2>1, <3>1, <3>2
  <2>4. Rising(restarts')
    BY <2>1 DEF Booked
  <2> QED
    BY <2>1, <2>2, <2>3, <2>4 DEF Booked, target, Rising
<1>3. ASSUME NEW i \in Ids, Notes(i) PROVE Booked'
  <2>1. ledger' \in Ledger /\ UNCHANGED <<target, restarts, rung>> /\ alert' = "none"
        /\ draft' = [draft EXCEPT ![i] = NoLedger]
    BY <1>3 DEF Notes, Booked
  <2>2. NoLedger \in Ledger
    BY DEF NoLedger, Ledger
  <2> QED
    BY <2>1, <2>2 DEF Booked, target, Rising
<1>4. ASSUME NEW dead, Forgets(dead), restarts' = restarts PROVE Booked'
  <2>1. NoLedger \in Ledger
    BY DEF NoLedger, Ledger
  <2> QED
    BY <1>4, <2>1 DEF Forgets, Booked, target, Rising
<1>5. CASE Tick
  <2>1. ledger' \in Ledger
    BY <1>5, TickLedger DEF Booked
  <2>2. UNCHANGED <<draft, alert>> /\ rung' = Later(rung, 0)
    BY <1>5 DEF Tick
  <2>3. PICK n \in 0..MaxCount : Container(n)
    BY <1>5 DEF Tick
  <2>4. restarts' = Later(restarts, n) /\ count' \in 0..MaxCount /\ unhealthy' \in BOOLEAN
    BY <2>3, DoctorBounds DEF Container, Booked
  <2>5. restarts' \in [0..LoopWindow -> Nat] /\ Rising(restarts')
    <3>1. n \in Nat /\ LoopWindow \in Nat
      BY DoctorBounds
    <3> QED
      BY <2>4, <3>1, LaterCounts DEF Booked
  <2>6. rung' \in [0..AlertCooldown - 1 -> Nat] /\ Rising(rung')
    BY <2>2, DoctorBounds, LaterCounts DEF Booked
  <2> QED
    BY <2>1, <2>2, <2>4, <2>5, <2>6 DEF Booked, Rising
<1> QED
  BY <1>1, <1>2, <1>3, <1>4, <1>5, BookSteps DEF HandlerDies, Crash, Forgets

\* A sample is never further below docker's counter than the container has restarted
\* since; and an alert is of the tick under way.
TrueOf(l) == \A s \in l.samples : count - s[2] <= restarts[s[1]]
Truthful ==
    /\ TrueOf(ledger) /\ \A i \in Ids : Noting(i) => TrueOf(draft[i])
    /\ alert # "none" => \E i \in Ids : Noting(i)
    /\ LoopAlertsTrue

LEMMA SampledTrue ==
    ASSUME Booked, TrueOf(ledger)
    PROVE  /\ \A s \in Sampled(ledger) : s[1] \in 0..LoopWindow /\ s[2] \in 0..MaxCount
                                         /\ count - s[2] <= restarts[s[1]]
           /\ Looping(ledger) => restarts[LoopWindow] >= LoopThreshold
<1>1. ASSUME NEW s \in Sampled(ledger)
      PROVE  s[1] \in 0..LoopWindow /\ s[2] \in 0..MaxCount /\ count - s[2] <= restarts[s[1]]
  <2>1. CASE s \in ledger.samples
    <3>1. s \in (0..LoopWindow) \X (0..MaxCount)
      BY <2>1 DEF Booked, Ledger
    <3> QED
      BY <2>1, <3>1 DEF TrueOf
  <2>2. CASE s = <<0, count>>
    <3>1. 0 \in 0..LoopWindow /\ restarts[0] \in Nat /\ count \in 0..MaxCount /\ count \in Int
      BY DoctorBounds DEF Booked
    <3> QED
      BY <2>2, <3>1
  <2> QED
    BY <2>1, <2>2 DEF Sampled
<1>2. ASSUME NEW s \in Sampled(ledger), count - s[2] >= LoopThreshold
      PROVE  restarts[LoopWindow] >= LoopThreshold
  <2>1. /\ s[1] \in 0..LoopWindow /\ count - s[2] <= restarts[s[1]] /\ count - s[2] \in Int
        /\ LoopWindow \in 0..LoopWindow /\ LoopThreshold \in Int
    BY <1>1, DoctorBounds DEF Booked
  <2>2. restarts[s[1]] <= restarts[LoopWindow] /\ restarts[s[1]] \in Int /\ restarts[LoopWindow] \in Int
    BY <2>1 DEF Booked, Rising
  <2> QED
    BY <1>2, <2>1, <2>2
<1> QED
  BY <1>1, <1>2 DEF Looping

\* An interval in which the container restarts, or is made anew.
LEMMA TickTrue ==
    ASSUME Booked, TrueOf(ledger), Tick PROVE TrueOf(ledger)'
<1>1. PICK n \in 0..MaxCount : Container(n)
  BY DEF Tick
<1>2. restarts' = Later(restarts, n) /\ n \in Nat /\ (count' = count + n \/ count' = n) /\ count \in Nat
  BY <1>1, DoctorBounds DEF Container, Booked
<1>3. \A k \in 1..LoopWindow : restarts'[k] = restarts[k - 1] + n
  <2>1. LoopWindow \in Nat
    BY DoctorBounds
  <2> QED
    BY <1>2, <2>1, LaterCounts DEF Booked
<1>4. ASSUME NEW s \in ledger'.samples PROVE count' - s[2] <= restarts'[s[1]]
  <2>1. PICK r \in ledger.samples : r[1] < LoopWindow /\ s[1] = r[1] + 1 /\ s[2] = r[2]
    BY TickLedger DEF Booked
  <2>2. r[1] \in 0..LoopWindow /\ r[2] \in 0..MaxCount
    <3>1. r \in (0..LoopWindow) \X (0..MaxCount)
      BY <2>1 DEF Booked, Ledger
    <3> QED
      BY <3>1
  <2>3. count - r[2] <= restarts[r[1]] /\ restarts[r[1]] \in Nat
    BY <2>1, <2>2 DEF TrueOf, Booked
  <2>4. s[1] \in 1..LoopWindow /\ s[1] - 1 = r[1]
    BY <2>1, <2>2, DoctorBounds
  <2>5. restarts'[s[1]] = restarts[r[1]] + n
    BY <1>3, <2>4
  <2>6. r[2] \in Nat
    BY <2>2, DoctorBounds
  <2> QED
    BY <1>2, <2>1, <2>3, <2>5, <2>6
<1> QED
  BY <1>4 DEF TrueOf

\* No interval goes by while a doctor writes the ledger.
LEMMA TickNotes ==
    ASSUME Staged, Tick PROVE \A j \in Ids : ~Noting(j) /\ ~Noting(j)'
  BY DEF Tick, Awake, Asleep, Staged, Live, Alive, Noting

LEMMA TruthfulStep ==
    ASSUME Shape, Staged, Booked, Truthful, [Next]_vars PROVE Truthful'
<1>1. CASE Elsewhere
  BY <1>1 DEF Elsewhere, books, target, Truthful, TrueOf, LoopAlertsTrue
<1>2. ASSUME NEW i \in Ids, Watches(i) PROVE Truthful'
  <2>1. PICK d \in Ledger : draft' = [draft EXCEPT ![i] = d] /\ d.samples \in SUBSET Sampled(ledger)
    BY <1>2, WatchesIs
  <2>2. /\ UNCHANGED <<ledger, target, restarts>>
        /\ UNCHANGED alert \/ (alert' = "loop" => Looping(ledger))
    BY <1>2, WatchesIs DEF Rings
  <2>3. stage' = [stage EXCEPT ![i] = "note"]
    BY <1>2 DEF Watches, Stage
  <2>4. TrueOf(ledger)'
    BY <2>2 DEF Truthful, TrueOf, target
  <2>5. ASSUME NEW j \in Ids, Noting(j)' PROVE TrueOf(draft[j])'
    <3>1. CASE j = i
      BY <2>1, <2>2, <3>1, SampledTrue DEF Booked, Truthful, TrueOf, target
    <3>2. CASE j # i
      BY <2>1, <2>2, <2>3, <2>5, <3>2 DEF Booked, Staged, Noting, Truthful, TrueOf, target
    <3> QED
      BY <3>1, <3>2
  <2>6. Noting(i)'
    BY <2>3 DEF Staged, Noting
  <2>7. LoopAlertsTrue'
    BY <2>2, SampledTrue DEF Truthful, LoopAlertsTrue
  <2> QED
    BY <2>4, <2>5, <2>6, <2>7 DEF Truthful
<1>3. ASSUME NEW i \in Ids, Notes(i) PROVE Truthful'
  <2>1. UNCHANGED <<target, restarts>> /\ alert' = "none" /\ stage[i] = "note"
        /\ stage' = [stage EXCEPT ![i] = "asleep"] /\ ledger' \in {ledger, draft[i]}
        /\ draft' = [draft EXCEPT ![i] = NoLedger]
    BY <1>3 DEF Notes, Stage
  <2>2. TrueOf(ledger)'
    BY <2>1 DEF Truthful, TrueOf, Noting, target
  <2>3. \A j \in Ids : Noting(j)' => j # i /\ Noting(j) /\ draft'[j] = draft[j]
    BY <2>1 DEF Staged, Noting, Booked
  <2> QED
    BY <2>1, <2>2, <2>3 DEF Truthful, TrueOf, LoopAlertsTrue, target
<1>4. ASSUME NEW dead \in SUBSET Ids, Forgets(dead) PROVE Truthful'
  <2>1. \A j \in Ids : Noting(j)' <=> j \notin dead /\ Noting(j)
    BY <1>4 DEF Forgets, Noting
  <2>2. \A j \in Ids \ dead : draft'[j] = draft[j]
    BY <1>4 DEF Forgets
  <2>3. alert' = IF \E i \in dead : Noting(i) THEN "none" ELSE alert
    BY <1>4 DEF Forgets, Noting
  <2>4. UNCHANGED <<ledger, target, restarts>>
    BY <1>4 DEF Forgets
  <2> QED
    BY <2>1, <2>2, <2>3, <2>4 DEF Truthful, TrueOf, LoopAlertsTrue, target
<1>5. CASE Tick
  <2>1. alert' = alert
    BY <1>5 DEF Tick
  <2> QED
    BY <1>5, <2>1, TickNotes, TickTrue DEF Truthful, LoopAlertsTrue
<1> QED
  BY <1>1, <1>2, <1>3, <1>4, <1>5, BookSteps DEF HandlerDies, Crash

\* While there is one chain, one doctor at a time is at work.
LEMMA OneWorks ==
    ASSUME Staged, Accounted, Chained, OneChain, NEW i \in Ids, NEW j \in Ids,
           stage[i] \notin {"none", "close"}, stage[j] \notin {"none", "close"}
    PROVE  i = j
<1>1. i \in AtWork /\ j \in AtWork
  BY DEF Staged, AtWork
<1>2. Cardinality(AtWork) <= 1
  <2>1. Chains \in SUBSET Ids
    BY DEF Chains
  <2>2. /\ Cardinality(Waiting) \in Nat /\ Cardinality(InHand) \in Nat /\ Cardinality(AtWork) \in Nat
        /\ Cardinality(Chains) \in Nat
    BY <2>1, LinkSets, Counted
  <2> QED
    BY <2>2 DEF Chained, Links, OneChain
<1>3. i # j => Cardinality(AtWork) >= 2
  <2> SUFFICES ASSUME i # j PROVE Cardinality(AtWork) >= 2
    OBVIOUS
  <2>1. {i} \in SUBSET Ids /\ {i} \cup {j} \in SUBSET AtWork /\ j \notin {i}
    BY <1>1
  <2>2. Cardinality({i} \cup {j}) = Cardinality({i}) + 1
    BY <2>1, Counted, FS_AddElement
  <2>3. Cardinality({i}) = 1
    BY FS_Singleton
  <2>4. Cardinality({i} \cup {j}) = 2
    BY <2>2, <2>3
  <2> QED
    BY <2>1, <2>4, LinkSets, CountPart
<1>4. Cardinality(AtWork) \in Nat
  BY LinkSets, Counted
<1> QED
  BY <1>2, <1>3, <1>4

\* The ledger that counts, that of the doctor that writes it if there is one, knows of
\* every alert within the cooldown, but for those a fault made it forget.
Knows(alerted, rings, f) ==
    /\ alerted \notin 0..AlertCooldown - 1 => rings[AlertCooldown - 1] <= f
    /\ alerted \in 1..AlertCooldown - 1 => rings[alerted - 1] <= f
Spaced ==
    /\ rung[AlertCooldown - 1] <= 1 + Faults
    /\ \A i \in Ids : Noting(i) => Knows(draft[i].alerted, rung, Faults)
    /\ (\A i \in Ids : ~Noting(i)) => Knows(ledger.alerted, rung, Faults)

LEMMA FaultCounts ==
    ASSUME faults \in Wrongs
    PROVE  /\ Faults \in Nat
           /\ Worse => Faults' \in Nat /\ Faults' >= Faults
           /\ (Loses \/ Upsets \/ Doubles) => Faults' = Faults + 1
  BY DEF Wrongs, Worse, Faults, Loses, Upsets, Doubles

\* A fault excuses any ledger.
LEMMA Excused ==
    ASSUME NEW rings \in [0..AlertCooldown - 1 -> Nat], Rising(rings), NEW f \in Nat,
           rings[AlertCooldown - 1] <= f, NEW alerted
    PROVE  Knows(alerted, rings, f)
<1>1. ASSUME alerted \in 1..AlertCooldown - 1 PROVE rings[alerted - 1] <= f
  <2>1. /\ alerted - 1 \in 0..AlertCooldown - 1 /\ AlertCooldown - 1 \in 0..AlertCooldown - 1
        /\ alerted - 1 <= AlertCooldown - 1
    BY <1>1, DoctorBounds
  <2>2. rings[alerted - 1] <= rings[AlertCooldown - 1]
    BY <2>1 DEF Rising
  <2>3. rings[alerted - 1] \in Nat /\ rings[AlertCooldown - 1] \in Nat
    BY <2>1
  <2> QED
    BY <2>2, <2>3
<1> QED
  BY <1>1 DEF Knows

LEMMA KnowsStill ==
    ASSUME NEW rings \in [0..AlertCooldown - 1 -> Nat], NEW f \in Nat, NEW g \in Nat, f <= g,
           NEW alerted, Knows(alerted, rings, f)
    PROVE  Knows(alerted, rings, g)
<1>1. rings[AlertCooldown - 1] \in Nat
  BY DoctorBounds
<1>2. alerted \in 1..AlertCooldown - 1 => rings[alerted - 1] \in Nat
  BY DoctorBounds
<1> QED
  BY <1>1, <1>2 DEF Knows

LEMMA RingsCount ==
    ASSUME NEW rings \in [0..AlertCooldown - 1 -> Nat], Rising(rings)
    PROVE  /\ OneMore(rings)[AlertCooldown - 1] = rings[AlertCooldown - 1] + 1
           /\ Later(rings, 0) \in [0..AlertCooldown - 1 -> Nat] /\ Later(rings, 0)[0] = 0
           /\ \A n \in 1..AlertCooldown - 1 : Later(rings, 0)[n] = rings[n - 1]
<1>1. PICK top \in Nat : top = AlertCooldown - 1
  BY DoctorBounds
<1>2. rings \in [0..top -> Nat] /\ top \in 0..top /\ 0 \in Nat
  BY <1>1
<1>3. OneMore(rings)[top] = rings[top] + 1
  BY <1>1, <1>2, OneMoreCounts
<1>4. \A n \in 0..top : Later(rings, 0)[n] = IF n = 0 THEN 0 ELSE rings[n - 1] + 0
  BY <1>2 DEF Later
<1>5. \A n \in 1..top : rings[n - 1] \in Nat
  BY <1>1, <1>2
<1>6. 0 \in 0..top /\ \A n \in 1..top : n \in 0..top /\ n # 0
  BY <1>1
<1>7. Later(rings, 0)[0] = 0
  BY <1>4, <1>6
<1>8. \A n \in 1..top : Later(rings, 0)[n] = rings[n - 1]
  BY <1>4, <1>5, <1>6
<1>9. Later(rings, 0) \in [0..top -> Nat]
  BY <1>1, <1>2, LaterCounts
<1> QED
  BY <1>1, <1>3, <1>7, <1>8, <1>9

\* An interval later.
LEMMA KnowsLater ==
    ASSUME NEW rings \in [0..AlertCooldown - 1 -> Nat], Rising(rings), NEW f \in Nat,
           NEW alerted \in {Never} \cup 0..AlertCooldown, Knows(alerted, rings, f)
    PROVE  Knows(Older(alerted, AlertCooldown), Later(rings, 0), f)
<1> DEFINE older == Older(alerted, AlertCooldown)
           later == Later(rings, 0)
<1>1. /\ later[0] = 0 /\ \A n \in 1..AlertCooldown - 1 : later[n] = rings[n - 1]
      /\ later \in [0..AlertCooldown - 1 -> Nat]
  BY RingsCount
<1>2. \A n \in 0..AlertCooldown - 1 : rings[n] \in Nat
  OBVIOUS
<1>3. AlertCooldown - 1 \in 0..AlertCooldown - 1 /\ AlertCooldown \in Nat \ {0}
  BY DoctorBounds
<1>4. CASE alerted \in {Never, AlertCooldown}
  <2>1. older = alerted /\ alerted \notin 0..AlertCooldown - 1
    BY <1>3, <1>4 DEF Older, Never
  <2>2. rings[AlertCooldown - 1] <= f
    BY <2>1 DEF Knows
  <2>3. later[AlertCooldown - 1] <= f
    <3>1. CASE AlertCooldown = 1
      BY <1>1, <3>1
    <3>2. CASE AlertCooldown # 1
      <4>1. /\ AlertCooldown - 1 \in 1..AlertCooldown - 1 /\ AlertCooldown - 2 \in 0..AlertCooldown - 1
            /\ (AlertCooldown - 1) - 1 = AlertCooldown - 2
        BY <1>3, <3>2
      <4>2. later[AlertCooldown - 1] = rings[AlertCooldown - 2]
        BY <1>1, <4>1
      <4>3. rings[AlertCooldown - 2] <= rings[AlertCooldown - 1]
        BY <1>3, <4>1 DEF Rising
      <4> QED
        BY <1>2, <1>3, <2>2, <4>1, <4>2, <4>3
    <3> QED
      BY <3>1, <3>2
  <2> QED
    BY <2>1, <2>3 DEF Knows
<1>5. CASE alerted \in 0..AlertCooldown - 1
  <2>1. older = alerted + 1 /\ older \in 1..AlertCooldown /\ alerted \in Nat
    BY <1>3, <1>5 DEF Older, Never
  <2>2. alerted # 0 => alerted \in 1..AlertCooldown - 1 /\ rings[alerted - 1] <= f
    BY <1>5 DEF Knows
  <2>3. later[alerted] <= f
    <3>1. CASE alerted = 0
      BY <1>1, <3>1
    <3>2. CASE alerted # 0
      BY <1>1, <2>2, <3>2
    <3> QED
      BY <3>1, <3>2
  <2>4. older \notin 0..AlertCooldown - 1 => AlertCooldown - 1 = alerted
    BY <1>3, <1>5, <2>1
  <2>5. older - 1 = alerted
    BY <2>1
  <2> QED
    BY <2>3, <2>4, <2>5 DEF Knows
<1> QED
  BY <1>3, <1>4, <1>5

LEMMA SpacedStep ==
    ASSUME Shape, Staged, Accounted, Chained, Booked, OneChain => Spaced, [Next]_vars
    PROVE  (OneChain => Spaced)'
<1>1. faults \in Wrongs /\ site' = site /\ Worse /\ Booked'
  BY SiteStays, AccountedStep, BookedStep DEF Accounted
<1>2. Faults \in Nat /\ Faults' \in Nat /\ Faults' >= Faults
  BY <1>1, FaultCounts
<1>3. SUFFICES ASSUME OneChain' PROVE Spaced'
  OBVIOUS
<1>4. OneChain /\ Spaced
  BY <1>1, <1>3 DEF OneChain, Chains, Worse, Wrongs
<1>5. /\ rung \in [0..AlertCooldown - 1 -> Nat] /\ Rising(rung) /\ AlertCooldown - 1 \in 0..AlertCooldown - 1
      /\ rung[AlertCooldown - 1] \in Nat /\ ledger \in Ledger /\ draft \in [Ids -> Ledger]
      /\ rung' \in [0..AlertCooldown - 1 -> Nat] /\ Rising(rung)'
      /\ rung'[AlertCooldown - 1] \in Nat /\ ledger' \in Ledger /\ draft' \in [Ids -> Ledger]
  BY <1>1, DoctorBounds DEF Booked
\* A step with a fault that rings no more than once while the ledger knows.
<1>6. ASSUME Faults' = Faults + 1,
             rung' = rung \/ (rung[AlertCooldown - 1] <= Faults /\ rung'[AlertCooldown - 1] = rung[AlertCooldown - 1] + 1)
      PROVE  Spaced'
  <2>1. rung'[AlertCooldown - 1] <= Faults'
    BY <1>2, <1>4, <1>5, <1>6 DEF Spaced
  <2>2. \A alerted : Knows(alerted, rung', Faults')
    BY <1>2, <1>5, <2>1, Excused DEF Rising
  <2> QED
    BY <1>2, <1>5, <2>1, <2>2 DEF Spaced
<1>7. ASSUME rung' = rung PROVE rung'[AlertCooldown - 1] <= 1 + Faults'
  BY <1>2, <1>4, <1>5, <1>7 DEF Spaced
<1>8. CASE Elsewhere
  <2>1. rung' = rung /\ draft' = draft /\ ledger' = ledger /\ \A j \in Ids : Noting(j)' <=> Noting(j)
    BY <1>8 DEF Elsewhere, books
  <2>2. \A alerted : Knows(alerted, rung, Faults) => Knows(alerted, rung, Faults')
    BY <1>2, <1>5, KnowsStill
  <2> QED
    BY <1>4, <1>7, <2>1, <2>2 DEF Spaced
<1>9. ASSUME NEW i \in Ids, Watches(i) PROVE Spaced'
  <2>1. stage[i] = "watch" /\ stage' = [stage EXCEPT ![i] = "note"]
    BY <1>9 DEF Watches, Stage
  <2>2. \A j \in Ids : ~Noting(j) /\ (Noting(j)' => j = i)
    BY <1>4, <2>1, OneWorks DEF Staged, Noting
  <2>3. Knows(ledger.alerted, rung, Faults)
    BY <1>4, <2>2 DEF Spaced
  <2>4. PICK d \in Ledger : /\ draft' = [draft EXCEPT ![i] = d]
                            /\ d.alerted \in {ledger.alerted, 0}
                            /\ d.alerted # ledger.alerted => Due(ledger) /\ rung' = OneMore(rung)
    BY <1>9, WatchesIs
  <2>5. rung' = rung \/ (Due(ledger) /\ rung' = OneMore(rung))
    BY <1>9, WatchesIs DEF Rings
  <2>6. rung' = rung \/ Loses \/ (faults' = faults /\ draft'[i].alerted = 0)
    BY <1>9, WatchesIs
  <2>7. Due(ledger) => ledger.alerted \notin 0..AlertCooldown - 1
    BY <1>5, DoctorBounds DEF Due, Cooling, Ledger, Never
  <2>8. Due(ledger) => rung[AlertCooldown - 1] <= Faults
    BY <2>3, <2>7 DEF Knows
  <2>9. rung' = OneMore(rung) => rung'[AlertCooldown - 1] = rung[AlertCooldown - 1] + 1
    BY <1>5, RingsCount
  <2>10. CASE Loses
    BY <1>1, <1>6, <2>5, <2>8, <2>9, <2>10, FaultCounts
  <2>11. draft'[i] = d
    BY <1>5, <2>4
  <2>12. Noting(i)'
    BY <2>1 DEF Staged, Noting
  <2>13. CASE rung' = rung
    <3>1. rung # OneMore(rung)
      <4>1. OneMore(rung)[AlertCooldown - 1] = rung[AlertCooldown - 1] + 1
        BY <1>5, RingsCount
      <4> QED
        BY <1>5, <4>1
    <3>2. d.alerted = ledger.alerted
      BY <2>4, <2>13, <3>1
    <3>3. Knows(d.alerted, rung', Faults')
      BY <1>2, <1>5, <2>3, <2>13, <3>2, KnowsStill
    <3> QED
      BY <1>7, <2>2, <2>11, <2>12, <2>13, <3>3 DEF Spaced
  <2>14. CASE rung' = OneMore(rung) /\ Due(ledger) /\ draft'[i].alerted = 0
    <3>1. Knows(0, rung', Faults')
      BY DoctorBounds DEF Knows
    <3>2. rung'[AlertCooldown - 1] <= 1 + Faults'
      BY <1>2, <1>5, <2>8, <2>9, <2>14
    <3> QED
      BY <2>2, <2>12, <2>14, <3>1, <3>2 DEF Spaced
  <2> QED
    BY <2>5, <2>6, <2>10, <2>13, <2>14
<1>10. ASSUME NEW i \in Ids, Notes(i) PROVE Spaced'
  <2>1. rung' = rung /\ stage[i] = "note" /\ stage' = [stage EXCEPT ![i] = "asleep"]
    BY <1>10 DEF Notes, Stage
  <2>2. \A j \in Ids : ~Noting(j)'
    BY <1>4, <2>1, OneWorks DEF Staged, Noting
  <2>3. CASE Loses
    BY <1>1, <1>6, <2>1, <2>3, FaultCounts
  <2>4. CASE ledger' = draft[i]
    <3>1. Knows(draft[i].alerted, rung, Faults)
      BY <1>4, <2>1 DEF Spaced, Noting
    <3>2. Knows(ledger'.alerted, rung', Faults')
      BY <1>2, <1>5, <2>1, <2>4, <3>1, KnowsStill
    <3> QED
      BY <1>7, <2>1, <2>2, <3>2 DEF Spaced
  <2> QED
    BY <1>10, <2>3, <2>4 DEF Notes
<1>11. ASSUME Upsets, rung' = rung PROVE Spaced'
  BY <1>1, <1>6, <1>11, FaultCounts
<1>12. CASE Tick
  <2>1. rung' = Later(rung, 0) /\ ledger'.alerted = Older(ledger.alerted, AlertCooldown)
    BY <1>5, <1>12, TickLedger DEF Tick
  <2>2. \A j \in Ids : ~Noting(j) /\ ~Noting(j)'
    BY <1>12, TickNotes
  <2>3. Knows(ledger.alerted, rung, Faults) /\ ledger.alerted \in {Never} \cup 0..AlertCooldown
    BY <1>4, <1>5, <2>2 DEF Spaced, Ledger
  <2>4. Knows(ledger'.alerted, rung', Faults)
    BY <1>2, <1>5, <2>1, <2>3, KnowsLater
  <2>5. Knows(ledger'.alerted, rung', Faults')
    BY <1>2, <1>5, <2>4, KnowsStill
  <2>6. rung'[AlertCooldown - 1] <= 1 + Faults'
    <3>1. /\ rung'[0] = 0 /\ \A n \in 1..AlertCooldown - 1 : rung'[n] = rung[n - 1]
      BY <1>5, <2>1, RingsCount
    <3>2. CASE AlertCooldown - 1 = 0
      BY <1>2, <3>1, <3>2
    <3>3. CASE AlertCooldown - 1 # 0
      <4>1. /\ AlertCooldown - 1 \in 1..AlertCooldown - 1 /\ (AlertCooldown - 1) - 1 \in 0..AlertCooldown - 1
            /\ (AlertCooldown - 1) - 1 <= AlertCooldown - 1
        BY <3>3, DoctorBounds
      <4>2. rung[(AlertCooldown - 1) - 1] <= rung[AlertCooldown - 1] /\ rung[(AlertCooldown - 1) - 1] \in Nat
        BY <1>5, <4>1 DEF Rising
      <4>3. rung'[AlertCooldown - 1] = rung[(AlertCooldown - 1) - 1]
        BY <3>1, <4>1
      <4> QED
        BY <1>2, <1>4, <1>5, <4>2, <4>3 DEF Spaced
    <3> QED
      BY <3>2, <3>3
  <2> QED
    BY <2>2, <2>5, <2>6 DEF Spaced
<1> QED
  BY <1>8, <1>9, <1>10, <1>11, <1>12, BookSteps DEF HandlerDies, Dies, Crash, DaemonCrash, Forgets
-----------------------------------------------------------------------------
(* The history of restarts.                                                *)

Histories == {R \in SUBSET (0..Window) : Cardinality(R) <= AttemptBudget}
Surveying(j) == stage[j] \in {"survey", "claimed", "queue"}
Archived ==
    /\ file \in [Projects -> Histories] /\ memory \in [Ids -> [Projects -> Histories]]
    /\ attempts \in [Projects -> [0..Window -> Nat]] /\ \A p \in Projects : Rising(attempts[p])
    /\ hasty \in [Projects -> Nat]
    /\ \A i \in Ids : stage[i] \in {"claimed", "queue"} => at[i] \in Projects
    /\ \A i \in Ids : stage[i] = "queue" => ~Forbidden(i)

archive == <<file, memory, at, queued>>
Away == UNCHANGED archive /\ \A j \in Ids : (Surveying(j) \/ Surveying(j)') => stage'[j] = stage[j]
\* A survey starts, or goes on.
Opens(i) == /\ memory' = [memory EXCEPT ![i] = file] /\ UNCHANGED <<file, at, queued>>
            /\ ~Surveying(i) /\ stage' = [stage EXCEPT ![i] = "survey"]
Decides(i) ==
    /\ UNCHANGED <<file, memory, queued>> /\ Surveying(i)
    /\ \/ at' = at /\ stage' = [stage EXCEPT ![i] = "survey"]
       \/ \E p \in Projects : at' = [at EXCEPT ![i] = p] /\ stage' = [stage EXCEPT ![i] = "claimed"]
       \/ at' = at /\ stage' = [stage EXCEPT ![i] = "queue"] /\ stage[i] = "claimed" /\ ~Forbidden(i)

LEMMA Ages ==
    ASSUME NEW R \in SUBSET (0..Window)
    PROVE  IsFiniteSet(R) /\ Cardinality(R) \in Nat /\ \A T \in SUBSET R : Cardinality(T) <= Cardinality(R)
<1>1. IsFiniteSet(0..Window)
  BY DoctorBounds, FS_Interval
<1>2. IsFiniteSet(R)
  BY <1>1, FS_Subset
<1> QED
  BY <1>2, FS_Subset, FS_CardinalityType

LEMMA HistorySteps ==
    ASSUME Shape, Staged, [Next]_vars
    PROVE  \/ Away
           \/ \E i \in Ids : \/ Opens(i) \/ Decides(i)
                             \/ Restarts(i) \/ Saves(i) \/ HandlerDies(i)
           \/ Tick \/ Crash
<1>1. CASE UNCHANGED vars
  BY <1>1 DEF vars, doctorVars, disk, work, queued, Away, archive
<1>2. CASE Loop
  <2>1. stage' = stage
    BY <1>2, LoopStage DEF NoStage
  <2> QED
    BY <1>2, <2>1 DEF Loop, Quiet, NoDoctor, Claims, DoctorRest, doctorVars, disk, work, Away, archive
<1>3. ASSUME NEW i \in Ids, Kickoff(i) PROVE Away
  <2>1. stage' = stage
    BY <1>3, KickoffStage DEF NoStage
  <2> QED
    BY <1>3, <2>1 DEF Kickoff, Parses, Clears, Quiet, NoDoctor, doctorVars, disk, work, Away, archive
<1>4. ASSUME NEW i \in Ids, Doctors(i)
      PROVE  Away \/ Opens(i) \/ Decides(i) \/ Restarts(i) \/ Saves(i)
  <2>1. ASSUME NEW from, NEW to, stage[i] = from, stage' = [stage EXCEPT ![i] = to], UNCHANGED archive,
               from \notin {"survey", "claimed", "queue"}, to \notin {"survey", "claimed", "queue"}
        PROVE  Away
    BY <2>1 DEF Staged, Away, Surveying
  <2>2. CASE Starts(i)
    <3>1. stage[i] = "none"
      BY <2>2 DEF Starts, Goes, Staged
    <3> QED
      BY <2>1, <2>2, <3>1 DEF Starts, Surveys, disk, archive, Opens, Surveying
  <2>3. CASE Scans(i) \/ Watches(i) \/ Notes(i) \/ QueuesNext(i) \/ Closes(i)
    BY <2>1, <2>3 DEF Scans, Watches, Notes, QueuesNext, Closes, Calls, Stage, disk, archive
  <2>4. CASE Patches(i)
    BY <2>4 DEF Patches, Surveys, Stage, disk, Opens, Surveying
  <2>5. ASSUME NEW p \in Projects, Passes(i, p) \/ AsksPending(i, p)
        PROVE  Decides(i)
    BY <2>5 DEF Passes, AsksPending, Thinks, Calls, Stage, disk, Decides, Surveying
  <2>6. CASE AsksClaimed(i) \/ Spares(i)
    BY <2>6 DEF AsksClaimed, Spares, Thinks, Calls, Stage, disk, Decides, Surveying
  <2> QED
    BY <1>4, <2>2, <2>3, <2>4, <2>5, <2>6 DEF Doctors
<1>5. CASE World
  BY <1>5 DEF World, Quiet, NoDoctor, PersonStartsDoctor, doctorVars, disk, work, Away, archive
<1> QED
  BY <1>1, <1>2, <1>3, <1>4, <1>5 DEF Next

\* An attempt is added to a history with room for it.
LEMMA OneAttempt ==
    ASSUME NEW R \in Histories, Cardinality(R) < AttemptBudget, 0 \notin R
    PROVE  /\ R \cup {0} \in Histories
           /\ \A c \in 0..Window : Cardinality({n \in R \cup {0} : n <= c}) = Cardinality({n \in R : n <= c}) + 1
<1>1. R \in SUBSET (0..Window) /\ R \cup {0} \in SUBSET (0..Window)
  BY DoctorBounds DEF Histories
<1>2. Cardinality(R \cup {0}) = Cardinality(R) + 1 /\ Cardinality(R) \in Nat
  BY <1>1, Ages, FS_AddElement
<1>3. R \cup {0} \in Histories
  BY <1>1, <1>2, DoctorBounds DEF Histories
<1>4. ASSUME NEW c \in 0..Window
      PROVE  Cardinality({n \in R \cup {0} : n <= c}) = Cardinality({n \in R : n <= c}) + 1
  <2> DEFINE S == {n \in R : n <= c}
  <2>1. {n \in R \cup {0} : n <= c} = S \cup {0}
    BY <1>4, DoctorBounds
  <2>2. IsFiniteSet(S) /\ 0 \notin S
    <3>1. S \in SUBSET (0..Window)
      BY <1>1
    <3> QED
      BY <3>1, Ages
  <2>3. Cardinality(S \cup {0}) = Cardinality(S) + 1
    BY <2>2, FS_AddElement
  <2> QED
    BY <2>1, <2>3
<1> QED
  BY <1>3, <1>4

\* An interval later.
LEMMA AgedIs ==
    ASSUME NEW R \in Histories
    PROVE  /\ Aged(R, Window) \in Histories
           /\ \A c \in 0..Window - 1 : Cardinality({n \in R : n <= c})
                                         <= Cardinality({n \in Aged(R, Window) : n <= c + 1})
<1> DEFINE A == Aged(R, Window)
<1>1. R \in SUBSET (0..Window) /\ Cardinality(R) <= AttemptBudget
  BY DEF Histories
<1>2. A = {n + 1 : n \in {m \in R : m < Window}}
  BY DEF Aged
<1>3. ASSUME NEW a \in A PROVE a - 1 \in R /\ a \in 1..Window
  <2>1. PICK n \in R : n < Window /\ a = n + 1
    BY <1>2
  <2>2. n \in 0..Window
    BY <1>1
  <2> QED
    BY <2>1, <2>2, DoctorBounds
<1>4. A \in SUBSET (0..Window)
  BY <1>3, DoctorBounds
<1> HIDE DEF A
<1>5. Cardinality(A) <= Cardinality(R)
  <2> DEFINE f == [a \in A |-> a - 1]
  <2>1. f \in [A -> R]
    BY <1>3
  <2>2. \A a, b \in A : f[a] = f[b] => a = b
    BY <1>3
  <2>3. f \in Injection(A, R)
    BY <2>1, <2>2 DEF Injection, IsInjective
  <2> QED
    BY <1>1, <2>3, Ages, FS_Injection
<1>6. A \in Histories
  BY <1>1, <1>4, <1>5, Ages, DoctorBounds DEF Histories
<1>7. ASSUME NEW c \in 0..Window - 1
      PROVE  Cardinality({n \in R : n <= c}) <= Cardinality({n \in A : n <= c + 1})
  <2> DEFINE S == {n \in R : n <= c}
             T == {n \in A : n <= c + 1}
             f == [n \in S |-> n + 1]
  <2>1. ASSUME NEW n \in S PROVE n + 1 \in T
    <3>1. n \in 0..Window /\ n < Window
      BY <1>1, <1>7, DoctorBounds
    <3> QED
      BY <1>2, <1>7, <3>1, DoctorBounds
  <2>2. f \in [S -> T]
    BY <2>1
  <2>3. \A m, n \in S : f[m] = f[n] => m = n
    BY <1>1
  <2>4. f \in Injection(S, T)
    BY <2>2, <2>3 DEF Injection, IsInjective
  <2>5. IsFiniteSet(T)
    <3>1. T \in SUBSET (0..Window)
      BY <1>4
    <3> QED
      BY <3>1, Ages
  <2> QED
    BY <2>4, <2>5, FS_Injection
<1> QED
  BY <1>6, <1>7 DEF A

LEMMA NoHistoryIs == NoHistory \in [Projects -> Histories]
<1>1. {} \in Histories
  BY FS_EmptySet, DoctorBounds DEF Histories
<1> QED
  BY <1>1 DEF NoHistory

\* More than one task was made of one create, or a claim given up.
Twice == faults'.twice > faults.twice

LEMMA CreateCosts ==
    ASSUME faults \in Wrongs, NEW task
    PROVE  /\ Lost(task) => Faults' = Faults + 1 \/ Twice
           /\ (\E id \in Ids : Created(task, id)) => faults' = faults \/ Twice
<1>1. Loses => Faults' = Faults + 1
  BY FaultCounts
<1>2. ASSUME NEW n \in 1..Cardinality(Ids), faults' = [faults EXCEPT !.lost = @ + 1, !.twice = @ + (n - 1)]
      PROVE  Faults' = Faults + 1 \/ Twice
  BY <1>2, IdsFinite DEF Faults, Twice, Wrongs
<1>3. ASSUME NEW n \in 1..Cardinality(Ids), n # 1, faults' = [faults EXCEPT !.twice = @ + (n - 1)]
      PROVE  Twice
  BY <1>3, IdsFinite DEF Twice, Wrongs
<1> QED
  BY <1>1, <1>2, <1>3 DEF Lost, Created

\* What a restart does to the history of the project and to what is counted.
LEMMA RestartsIs ==
    ASSUME Shape, Archived, NEW i \in Ids, Restarts(i)
    PROVE  LET p == at[i]
               R == memory[i][p]
           IN  /\ p \in Projects /\ R \in Histories /\ Cardinality(R) < AttemptBudget
               /\ \A n \in R : n >= Cooldown
               /\ UNCHANGED <<file, at>> /\ stage[i] = "queue" /\ stage' = [stage EXCEPT ![i] = "survey"]
               /\ \/ memory' = memory /\ (faults \in Wrongs => Faults' = Faults + 1 \/ Twice)
                  \/ /\ memory' = [memory EXCEPT ![i][p] = R \cup {0}]
                     /\ faults \in Wrongs => faults' = faults \/ Twice
               /\ \/ UNCHANGED queued
                  \/ /\ attempts' = [attempts EXCEPT ![p] = OneMore(attempts[p])]
                     /\ hasty' = IF \E n \in 0..Window : n < Cooldown /\ attempts[p][n] > 0
                                 THEN [hasty EXCEPT ![p] = hasty[p] + 1] ELSE hasty
<1>1. stage[i] = "queue" /\ stage' = [stage EXCEPT ![i] = "survey"] /\ UNCHANGED <<file, at>>
  BY DEF Restarts, Stage, disk
<1>2. at[i] \in Projects /\ ~Forbidden(i)
  BY <1>1 DEF Archived
<1>3. memory[i][at[i]] \in Histories
  BY <1>2 DEF Archived
<1>4. Cardinality(memory[i][at[i]]) \in Nat /\ memory[i][at[i]] \in SUBSET (0..Window)
  BY <1>3, Ages DEF Histories
<1>5. Cardinality(memory[i][at[i]]) < AttemptBudget /\ \A n \in memory[i][at[i]] : n >= Cooldown
  BY <1>2, <1>4, DoctorBounds DEF Forbidden, Recent
<1>6. \/ memory' = memory /\ (faults \in Wrongs => Faults' = Faults + 1 \/ Twice)
      \/ /\ memory' = [memory EXCEPT ![i][at[i]] = memory[i][at[i]] \cup {0}]
         /\ faults \in Wrongs => faults' = faults \/ Twice
  BY <1>2, CreateCosts DEF Restarts, Archived
<1>7. \/ UNCHANGED queued
      \/ /\ attempts' = [attempts EXCEPT ![at[i]] = OneMore(attempts[at[i]])]
         /\ hasty' = IF \E n \in 0..Window : n < Cooldown /\ attempts[at[i]][n] > 0
                     THEN [hasty EXCEPT ![at[i]] = hasty[at[i]] + 1] ELSE hasty
  BY DEF Restarts
<1> QED
  BY <1>1, <1>2, <1>3, <1>5, <1>6, <1>7

LEMMA ArchivedStep ==
    ASSUME Shape, Shape', Staged, Archived, [Next]_vars PROVE Archived'
<1>1. CASE Away
  <2>1. \A j \in Ids : Surveying(j)' => stage'[j] = stage[j]
    BY <1>1 DEF Away
  <2> QED
    BY <1>1, <2>1 DEF Away, archive, queued, Archived, Surveying, Forbidden, Recent, Rising
<1>2. ASSUME NEW i \in Ids, Opens(i) PROVE Archived'
  <2>1. memory' \in [Ids -> [Projects -> Histories]]
    BY <1>2 DEF Opens, Archived
  <2>2. \A j \in Ids : stage'[j] \in {"claimed", "queue"} => stage'[j] = stage[j] /\ memory'[j] = memory[j]
    BY <1>2 DEF Opens, Staged, Archived
  <2> QED
    BY <1>2, <2>1, <2>2 DEF Opens, queued, Archived, Forbidden, Recent, Rising
<1>3. ASSUME NEW i \in Ids, Decides(i) PROVE Archived'
  <2>1. UNCHANGED <<file, memory, queued>>
    BY <1>3 DEF Decides
  <2>2. at \in [Ids -> Projects \cup {None}]
    BY DEF Shape, Rest
  <2>3. ASSUME NEW j \in Ids
        PROVE  /\ stage'[j] \in {"claimed", "queue"} => at'[j] \in Projects
               /\ stage'[j] = "queue" => ~Forbidden(j)'
    <3>1. CASE j # i
      BY <1>3, <2>1, <2>2, <3>1 DEF Decides, Staged, Archived, Forbidden, Recent
    <3>2. CASE j = i
      BY <1>3, <2>1, <2>2, <3>2 DEF Decides, Staged, Archived, Forbidden, Recent
    <3> QED
      BY <3>1, <3>2
  <2> QED
    BY <2>1, <2>3 DEF queued, Archived, Rising
<1>4. ASSUME NEW i \in Ids, Restarts(i) PROVE Archived'
  <2> DEFINE p == at[i]
             R == memory[i][p]
  <2>1. /\ p \in Projects /\ R \in Histories /\ Cardinality(R) < AttemptBudget
        /\ \A n \in R : n >= Cooldown
        /\ UNCHANGED <<file, at>> /\ stage[i] = "queue" /\ stage' = [stage EXCEPT ![i] = "survey"]
        /\ memory' = memory \/ memory' = [memory EXCEPT ![i][p] = R \cup {0}]
    BY <1>4, RestartsIs
  <2>2. R \cup {0} \in Histories
    BY <2>1, DoctorBounds, OneAttempt
  <2>3. memory' \in [Ids -> [Projects -> Histories]] /\ \A j \in Ids \ {i} : memory'[j] = memory[j]
    <3>1. CASE memory' = memory
      BY <3>1 DEF Archived
    <3>2. CASE memory' = [memory EXCEPT ![i][p] = R \cup {0}]
      <4>1. [memory[i] EXCEPT ![p] = R \cup {0}] \in [Projects -> Histories]
        BY <2>1, <2>2 DEF Archived
      <4>2. memory' = [memory EXCEPT ![i] = [memory[i] EXCEPT ![p] = R \cup {0}]]
        BY <3>2 DEF Archived
      <4> QED
        BY <4>1, <4>2 DEF Archived
    <3> QED
      BY <2>1, <3>1, <3>2
  <2>4. \/ UNCHANGED queued
        \/ /\ attempts' = [attempts EXCEPT ![p] = OneMore(attempts[p])]
           /\ hasty' \in {[hasty EXCEPT ![p] = hasty[p] + 1], hasty}
    BY <1>4, RestartsIs
  <2>5. /\ attempts' \in [Projects -> [0..Window -> Nat]]
        /\ \A q \in Projects : Rising(attempts'[q])
    <3>1. OneMore(attempts[p]) \in [0..Window -> Nat] /\ Rising(OneMore(attempts[p]))
      BY <2>1, DoctorBounds, OneMoreCounts DEF Archived
    <3> QED
      BY <2>1, <2>4, <3>1 DEF Archived, queued
  <2>6. hasty' \in [Projects -> Nat]
    <3>1. CASE hasty' = hasty
      BY <3>1 DEF Archived
    <3>2. CASE hasty' = [hasty EXCEPT ![p] = hasty[p] + 1]
      BY <2>1, <3>2 DEF Archived
    <3> QED
      BY <2>4, <3>1, <3>2 DEF queued
  <2>7. \A j \in Ids : stage'[j] \in {"claimed", "queue"} => j # i /\ stage'[j] = stage[j]
    BY <2>1 DEF Staged
  <2> QED
    BY <2>1, <2>3, <2>5, <2>6, <2>7 DEF Archived, Forbidden, Recent, Rising
<1>5. ASSUME NEW i \in Ids, Saves(i) PROVE Archived'
  <2>1. /\ file' \in {file, memory[i]} /\ memory' = [memory EXCEPT ![i] = NoHistory]
        /\ at' = [at EXCEPT ![i] = None] /\ UNCHANGED queued
        /\ \E to \in {"watch", "asleep"} : stage' = [stage EXCEPT ![i] = to]
    BY <1>5 DEF Saves, Stage
  <2>2. \A j \in Ids : stage'[j] \in {"claimed", "queue"} =>
            stage'[j] = stage[j] /\ memory'[j] = memory[j] /\ at'[j] = at[j]
    BY <2>1 DEF Staged, Archived, Shape, Rest
  <2>3. memory' \in [Ids -> [Projects -> Histories]] /\ file' \in [Projects -> Histories]
    BY <2>1, NoHistoryIs DEF Archived
  <2> QED
    BY <2>1, <2>2, <2>3 DEF queued, Archived, Forbidden, Recent, Rising
<1>6. ASSUME NEW dead, Forgets(dead) PROVE Archived'
  <2>1. \A j \in Ids : stage'[j] \in {"claimed", "queue"} =>
            stage'[j] = stage[j] /\ memory'[j] = memory[j] /\ at'[j] = at[j]
    BY <1>6 DEF Forgets
  <2>2. memory' \in [Ids -> [Projects -> Histories]] /\ file' \in [Projects -> Histories]
    BY <1>6, NoHistoryIs DEF Forgets, Archived
  <2> QED
    BY <1>6, <2>1, <2>2 DEF Forgets, queued, Archived, Forbidden, Recent, Rising
<1>7. CASE Tick
  <2>1. /\ file' = [p \in Projects |-> Aged(file[p], Window)]
        /\ attempts' = [p \in Projects |-> Later(attempts[p], 0)]
        /\ UNCHANGED <<at, memory, hasty>>
    BY <1>7 DEF Tick
  <2>2. \A j \in Ids : stage'[j] \in {"claimed", "queue"} => stage'[j] = stage[j]
    BY <1>7 DEF Tick
  <2>3. file' \in [Projects -> Histories]
    BY <2>1, AgedIs DEF Archived
  <2>4. \A p \in Projects : Later(attempts[p], 0) \in [0..Window -> Nat] /\ Rising(Later(attempts[p], 0))
    BY DoctorBounds, LaterCounts DEF Archived
  <2>5. attempts' \in [Projects -> [0..Window -> Nat]] /\ \A p \in Projects : Rising(attempts'[p])
    BY <2>1, <2>4
  <2> QED
    BY <2>1, <2>2, <2>3, <2>5 DEF Archived, Forbidden, Recent, Rising
<1> QED
  BY <1>1, <1>2, <1>3, <1>4, <1>5, <1>6, <1>7, HistorySteps DEF HandlerDies, Crash

\* The history of a project that counts, that of the doctor that surveys if there is one,
\* holds every restart within the window and within the pause, but for those a fault
\* made it lose: a history that is lost is worth a budget, and one restart too soon.
Recalls(R, made, soon, f) ==
    /\ \A c \in 0..Window : made[c] <= Cardinality({n \in R : n <= c}) + AttemptBudget * f
    /\ soon <= f
    /\ (\E c \in 0..Window : made[c] > 0 /\ \A n \in R : n > c) => soon < f
Paced ==
    \A p \in Projects :
        /\ \A i \in Ids : Surveying(i) => Recalls(memory[i][p], attempts[p], hasty[p], Faults)
        /\ (\A i \in Ids : ~Surveying(i)) => Recalls(file[p], attempts[p], hasty[p], Faults)
        /\ attempts[p][Window] <= AttemptBudget * (1 + Faults) /\ hasty[p] <= Faults

\* The budget that faults are worth.
LEMMA Worth ==
    ASSUME NEW f \in Nat, NEW g \in Nat, f <= g
    PROVE  /\ AttemptBudget * f \in Nat /\ AttemptBudget * g \in Nat
           /\ AttemptBudget * f <= AttemptBudget * g
           /\ AttemptBudget * (f + 1) = AttemptBudget * f + AttemptBudget
           /\ AttemptBudget * (1 + f) = AttemptBudget * f + AttemptBudget
<1>1. AttemptBudget \in Nat
  BY DoctorBounds
<1>2. PICK d \in Nat : g = f + d
  <2>1. g - f \in Nat /\ g = f + (g - f)
    OBVIOUS
  <2> QED
    BY <2>1
<1>3. AttemptBudget * d \in Nat
  BY <1>1
<1>4. AttemptBudget * g = AttemptBudget * f + AttemptBudget * d
  BY <1>1, <1>2
<1> QED
  BY <1>1, <1>3, <1>4

\* A fault excuses any history.
LEMMA HistoryExcused ==
    ASSUME NEW R \in Histories, NEW made \in [0..Window -> Nat], Rising(made), NEW soon \in Nat, NEW f \in Nat,
           made[Window] <= AttemptBudget * f, soon < f
    PROVE  Recalls(R, made, soon, f)
<1>1. ASSUME NEW c \in 0..Window PROVE made[c] <= Cardinality({n \in R : n <= c}) + AttemptBudget * f
  <2>1. made[c] <= made[Window] /\ made[c] \in Nat /\ made[Window] \in Nat
    BY DoctorBounds DEF Rising
  <2>2. {n \in R : n <= c} \in SUBSET (0..Window)
    BY DEF Histories
  <2>3. Cardinality({n \in R : n <= c}) \in Nat
    BY <2>2, Ages
  <2>4. AttemptBudget * f \in Nat
    BY Worth
  <2> QED
    BY <2>1, <2>3, <2>4
<1> QED
  BY <1>1 DEF Recalls

LEMMA RecallsStill ==
    ASSUME NEW R \in Histories, NEW made \in [0..Window -> Nat], NEW soon \in Nat, NEW f \in Nat, NEW g \in Nat,
           f <= g, Recalls(R, made, soon, f)
    PROVE  Recalls(R, made, soon, g)
<1>1. ASSUME NEW c \in 0..Window PROVE made[c] <= Cardinality({n \in R : n <= c}) + AttemptBudget * g
  <2>1. {n \in R : n <= c} \in SUBSET (0..Window)
    BY DEF Histories
  <2>2. Cardinality({n \in R : n <= c}) \in Nat /\ made[c] \in Nat
    BY <2>1, Ages
  <2>3. made[c] <= Cardinality({n \in R : n <= c}) + AttemptBudget * f
    BY DEF Recalls
  <2>4. /\ AttemptBudget * f \in Nat /\ AttemptBudget * g \in Nat
        /\ AttemptBudget * f <= AttemptBudget * g
    BY Worth
  <2> QED
    BY <2>2, <2>3, <2>4
<1> QED
  BY <1>1 DEF Recalls

LEMMA RecallsBound ==
    ASSUME NEW R \in Histories, NEW made \in [0..Window -> Nat], NEW soon \in Nat, NEW f \in Nat,
           Recalls(R, made, soon, f)
    PROVE  made[Window] <= AttemptBudget * (1 + f) /\ soon <= f
<1>1. {n \in R : n <= Window} = R /\ R \in SUBSET (0..Window)
  <2>1. R \in SUBSET (0..Window)
    BY DEF Histories
  <2>2. \A n \in R : n <= Window
    BY <2>1, DoctorBounds
  <2> QED
    BY <2>1, <2>2
<1>2. Window \in 0..Window /\ Cardinality(R) \in Nat /\ Cardinality(R) <= AttemptBudget /\ made[Window] \in Nat
  BY <1>1, Ages, DoctorBounds DEF Histories
<1>3. made[Window] <= Cardinality(R) + AttemptBudget * f
  BY <1>1, <1>2 DEF Recalls
<1>4. AttemptBudget * f \in Nat /\ AttemptBudget * (1 + f) = AttemptBudget * f + AttemptBudget
  BY Worth
<1> QED
  BY <1>2, <1>3, <1>4, DoctorBounds DEF Recalls

\* An interval later.
LEMMA RecallsLater ==
    ASSUME NEW R \in Histories, NEW made \in [0..Window -> Nat], Rising(made), NEW soon \in Nat, NEW f \in Nat,
           Recalls(R, made, soon, f)
    PROVE  Recalls(Aged(R, Window), Later(made, 0), soon, f)
<1> DEFINE A == Aged(R, Window)
           later == Later(made, 0)
<1>1. \A n \in 0..Window : later[n] = IF n = 0 THEN 0 ELSE made[n - 1] + 0
  BY DEF Later
<1>2. A \in Histories /\ \A c \in 0..Window - 1 :
        Cardinality({n \in R : n <= c}) <= Cardinality({n \in A : n <= c + 1})
  BY AgedIs
<1>3. R \in SUBSET (0..Window) /\ A \in SUBSET (0..Window)
  BY <1>2 DEF Histories
<1>4. AttemptBudget * f \in Nat
  BY Worth
<1>5. A = {n + 1 : n \in {m \in R : m < Window}}
  BY DEF Aged
<1> HIDE DEF A, later
<1>6. ASSUME NEW c \in 0..Window
      PROVE  /\ later[c] <= Cardinality({n \in A : n <= c}) + AttemptBudget * f
             /\ later[c] > 0 /\ (\A n \in A : n > c) => soon < f
  <2>1. {n \in A : n <= c} \in SUBSET (0..Window)
    BY <1>3
  <2>2. Cardinality({n \in A : n <= c}) \in Nat
    BY <2>1, Ages
  <2>3. CASE c = 0
    BY <1>1, <1>4, <2>2, <2>3
  <2>4. CASE c # 0
    <3>1. PICK d \in 0..Window - 1 : c = d + 1
      <4>1. c - 1 \in 0..Window - 1 /\ c = (c - 1) + 1
        BY <2>4, DoctorBounds
      <4> QED
        BY <4>1
    <3>2. d \in 0..Window /\ made[d] \in Nat /\ later[c] = made[d]
      BY <1>1, <2>4, <3>1, DoctorBounds
    <3>3. {n \in R : n <= d} \in SUBSET (0..Window)
      BY <1>3
    <3>4. Cardinality({n \in R : n <= d}) \in Nat /\ Cardinality({n \in R : n <= d}) <= Cardinality({n \in A : n <= c})
      BY <1>2, <3>1, <3>3, Ages
    <3>5. made[d] <= Cardinality({n \in R : n <= d}) + AttemptBudget * f
      BY <3>2 DEF Recalls
    <3>6. (\A n \in A : n > c) => \A n \in R : n > d
      <4> SUFFICES ASSUME \A n \in A : n > c, NEW n \in R PROVE n > d
        OBVIOUS
      <4>1. n \in 0..Window
        BY <1>3
      <4>2. CASE n < Window
        <5>1. n + 1 \in A
          BY <1>5, <4>2
        <5> QED
          BY <3>1, <4>1, <5>1, DoctorBounds
      <4>3. CASE n = Window
        BY <3>1, <4>3, DoctorBounds
      <4> QED
        BY <4>1, <4>2, <4>3, DoctorBounds
    <3>7. made[d] > 0 /\ (\A n \in R : n > d) => soon < f
      BY <3>2 DEF Recalls
    <3> QED
      BY <1>4, <2>2, <3>2, <3>4, <3>5, <3>6, <3>7
  <2> QED
    BY <2>3, <2>4
<1> QED
  BY <1>6 DEF Recalls, A, later

LEMMA TickSurveys ==
    ASSUME Staged, Tick PROVE \A j \in Ids : ~Surveying(j) /\ ~Surveying(j)'
  BY DEF Tick, Awake, Asleep, Staged, Live, Alive, Surveying

LEMMA PacedStep ==
    ASSUME Shape, Staged, Staged', Accounted, Accounted', Chained, Chained', Archived, Archived',
           OneChain => Paced, [Next]_vars
    PROVE  (OneChain => Paced)'
<1>1. faults \in Wrongs /\ site' = site /\ Worse
  BY SiteStays, AccountedStep DEF Accounted
<1>2. Faults \in Nat /\ Faults' \in Nat /\ Faults' >= Faults /\ Faults <= Faults'
  BY <1>1, FaultCounts
<1>3. SUFFICES ASSUME OneChain' PROVE Paced'
  OBVIOUS
<1>4. OneChain /\ Paced /\ ~Twice
  BY <1>1, <1>3 DEF OneChain, Chains, Worse, Wrongs, Twice
<1>5. ASSUME NEW p \in Projects
      PROVE  /\ attempts[p] \in [0..Window -> Nat] /\ Rising(attempts[p]) /\ hasty[p] \in Nat
             /\ attempts'[p] \in [0..Window -> Nat] /\ Rising(attempts'[p]) /\ hasty'[p] \in Nat
             /\ attempts[p][Window] \in Nat /\ attempts'[p][Window] \in Nat
             /\ file[p] \in Histories /\ file'[p] \in Histories
             /\ \A i \in Ids : memory[i][p] \in Histories /\ memory'[i][p] \in Histories
  BY DoctorBounds DEF Archived
\* The bounds follow from the history that counts.
<1>6. ASSUME \A p \in Projects :
                 /\ \A i \in Ids : Surveying(i)' => Recalls(memory'[i][p], attempts'[p], hasty'[p], Faults')
                 /\ (\A i \in Ids : ~Surveying(i)') => Recalls(file'[p], attempts'[p], hasty'[p], Faults')
      PROVE  Paced'
  <2>1. ASSUME NEW p \in Projects
        PROVE  attempts'[p][Window] <= AttemptBudget * (1 + Faults') /\ hasty'[p] <= Faults'
    <3>1. CASE \A i \in Ids : ~Surveying(i)'
      BY <1>2, <1>5, <1>6, <3>1, RecallsBound
    <3>2. ASSUME NEW i \in Ids, Surveying(i)'
          PROVE  attempts'[p][Window] <= AttemptBudget * (1 + Faults') /\ hasty'[p] <= Faults'
      BY <1>2, <1>5, <1>6, <3>2, RecallsBound
    <3> QED
      BY <3>1, <3>2
  <2> QED
    BY <1>6, <2>1 DEF Paced
\* A fault excuses whatever the histories hold.
<1>7. ASSUME \A p \in Projects : attempts'[p][Window] <= AttemptBudget * Faults' /\ hasty'[p] < Faults'
      PROVE  Paced'
  <2>1. ASSUME NEW p \in Projects, NEW R \in Histories
        PROVE  Recalls(R, attempts'[p], hasty'[p], Faults')
    BY <1>2, <1>5, <1>7, HistoryExcused
  <2> QED
    BY <1>5, <1>6, <2>1
<1>8. ASSUME Faults' = Faults + 1, UNCHANGED queued PROVE Paced'
  <2>1. ASSUME NEW p \in Projects
        PROVE  attempts'[p][Window] <= AttemptBudget * Faults' /\ hasty'[p] < Faults'
    <3>1. attempts[p][Window] <= AttemptBudget * (1 + Faults) /\ hasty[p] <= Faults
      BY <1>4 DEF Paced
    <3>2. Faults' = 1 + Faults
      BY <1>2, <1>8
    <3> QED
      BY <1>2, <1>5, <1>8, <3>1, <3>2 DEF queued
  <2> QED
    BY <1>7, <2>1
<1>9. ASSUME Upsets \/ Loses, UNCHANGED queued PROVE Paced'
  BY <1>1, <1>8, <1>9, FaultCounts
<1>10. ASSUME UNCHANGED queued, NEW p \in Projects, NEW R \in Histories,
              Recalls(R, attempts[p], hasty[p], Faults)
       PROVE  Recalls(R, attempts'[p], hasty'[p], Faults')
  <2>1. Recalls(R, attempts[p], hasty[p], Faults')
    BY <1>2, <1>5, <1>10, RecallsStill
  <2> QED
    BY <1>10, <2>1 DEF queued
<1>11. CASE Away
  <2>1. /\ \A j \in Ids : Surveying(j)' <=> Surveying(j)
        /\ UNCHANGED <<file, memory>> /\ UNCHANGED queued
    BY <1>11 DEF Away, archive, Surveying
  <2> QED
    BY <1>4, <1>5, <1>6, <1>10, <2>1 DEF Paced
<1>12. ASSUME NEW i \in Ids, Opens(i) PROVE Paced'
  <2>1. memory' = [memory EXCEPT ![i] = file] /\ UNCHANGED queued /\ ~Surveying(i) /\ stage' = [stage EXCEPT ![i] = "survey"]
    BY <1>12 DEF Opens
  <2>2. Surveying(i)'
    BY <2>1 DEF Staged, Surveying
  <2>3. \A j \in Ids : Surveying(j)' => j = i
    <3>1. ASSUME NEW j \in Ids, Surveying(j)' PROVE j = i
      <4>1. (Staged /\ Accounted /\ Chained /\ OneChain
               /\ stage[i] \notin {"none", "close"} /\ stage[j] \notin {"none", "close"} => i = j)'
        BY OneWorks, PTL
      <4> QED
        BY <1>3, <2>2, <3>1, <4>1 DEF Surveying
    <3> QED
      BY <3>1
  <2>4. \A j \in Ids : ~Surveying(j)
    BY <2>1, <2>3 DEF Staged, Surveying
  <2>5. memory'[i] = file
    BY <2>1 DEF Archived
  <2> QED
    BY <1>4, <1>5, <1>6, <1>10, <2>1, <2>2, <2>3, <2>4, <2>5 DEF Paced
<1>13. ASSUME NEW i \in Ids, Decides(i) PROVE Paced'
  <2>1. UNCHANGED <<memory>> /\ UNCHANGED queued /\ Surveying(i)
        /\ \E to \in {"survey", "claimed", "queue"} : stage' = [stage EXCEPT ![i] = to]
    BY <1>13 DEF Decides
  <2>2. Surveying(i)' /\ \A j \in Ids : Surveying(j)' => Surveying(j)
    BY <2>1 DEF Staged, Surveying
  <2> QED
    BY <1>4, <1>5, <1>6, <1>10, <2>1, <2>2 DEF Paced
<1>14. ASSUME NEW i \in Ids, Saves(i) PROVE Paced'
  <2>1. /\ UNCHANGED queued /\ stage[i] = "survey" /\ \E to \in {"watch", "asleep"} : stage' = [stage EXCEPT ![i] = to]
        /\ file' = memory[i] \/ Loses
    BY <1>14 DEF Saves, Stage
  <2>2. \A j \in Ids : Surveying(j) => j = i
    BY <1>4, <2>1, OneWorks DEF Surveying
  <2>3. Surveying(i) /\ \A j \in Ids : ~Surveying(j)'
    BY <2>1, <2>2 DEF Staged, Surveying
  <2>4. CASE file' = memory[i]
    BY <1>4, <1>5, <1>6, <1>10, <2>1, <2>3, <2>4 DEF Paced
  <2> QED
    BY <1>9, <2>1, <2>4
<1>15. CASE Tick
  <2>1. /\ file' = [p \in Projects |-> Aged(file[p], Window)]
        /\ attempts' = [p \in Projects |-> Later(attempts[p], 0)] /\ hasty' = hasty
    BY <1>15 DEF Tick
  <2>2. \A j \in Ids : ~Surveying(j) /\ ~Surveying(j)'
    BY <1>15, TickSurveys
  <2>3. ASSUME NEW p \in Projects PROVE Recalls(file'[p], attempts'[p], hasty'[p], Faults')
    <3>1. Recalls(file[p], attempts[p], hasty[p], Faults)
      BY <1>4, <2>2 DEF Paced
    <3>2. Recalls(Aged(file[p], Window), Later(attempts[p], 0), hasty[p], Faults)
      BY <1>2, <1>5, <3>1, RecallsLater
    <3>3. Recalls(file'[p], attempts'[p], hasty'[p], Faults)
      BY <2>1, <3>2
    <3> QED
      BY <1>2, <1>5, <3>3, RecallsStill
  <2> QED
    BY <1>6, <2>2, <2>3
<1>16. ASSUME NEW i \in Ids, Restarts(i) PROVE Paced'
  <2> DEFINE q == at[i]
             R == memory[i][q]
  <2>1. /\ q \in Projects /\ R \in Histories /\ Cardinality(R) < AttemptBudget
        /\ \A n \in R : n >= Cooldown
        /\ stage[i] = "queue" /\ stage' = [stage EXCEPT ![i] = "survey"]
        /\ \/ memory' = memory /\ (Faults' = Faults + 1 \/ Twice)
           \/ memory' = [memory EXCEPT ![i][q] = R \cup {0}] /\ (faults' = faults \/ Twice)
    BY <1>1, <1>16, RestartsIs
  <2>2. \/ UNCHANGED queued
        \/ /\ attempts' = [attempts EXCEPT ![q] = OneMore(attempts[q])]
           /\ hasty' = IF \E n \in 0..Window : n < Cooldown /\ attempts[q][n] > 0
                       THEN [hasty EXCEPT ![q] = hasty[q] + 1] ELSE hasty
    BY <1>1, <1>16, RestartsIs
  <2>3. Surveying(i) /\ Surveying(i)' /\ \A j \in Ids : Surveying(j) => j = i
    BY <1>4, <2>1, OneWorks DEF Staged, Surveying
  <2>4. \A j \in Ids : Surveying(j)' => j = i
    BY <2>1, <2>3 DEF Staged, Surveying
  <2>5. \A p \in Projects : Recalls(memory[i][p], attempts[p], hasty[p], Faults)
    BY <1>4, <2>3 DEF Paced
  <2>6. \A c \in 0..Window : attempts[q][c] <= Cardinality({n \in R : n <= c}) + AttemptBudget * Faults
    BY <2>1, <2>5 DEF Recalls
  <2>7. Cardinality(R) \in Nat /\ \A c \in 0..Window : Cardinality({n \in R : n <= c}) \in Nat
    <3>1. R \in SUBSET (0..Window)
      BY <2>1 DEF Histories
    <3>2. \A c \in 0..Window : {n \in R : n <= c} \in SUBSET (0..Window)
      BY <3>1
    <3> QED
      BY <3>1, <3>2, Ages
  <2>8. /\ AttemptBudget * Faults \in Nat
        /\ AttemptBudget * (Faults + 1) = AttemptBudget * Faults + AttemptBudget
    BY <1>2, Worth
  \* An attempt that comes too soon is one of those the history lost.
  <2>9. hasty'[q] <= Faults /\ \A p \in Projects \ {q} : hasty'[p] = hasty[p] /\ attempts'[p] = attempts[p]
    <3>1. hasty[q] <= Faults
      BY <2>1, <2>5 DEF Recalls
    <3>2. ASSUME NEW n \in 0..Window, n < Cooldown, attempts[q][n] > 0 PROVE hasty[q] < Faults
      <4>1. \A m \in R : m > n
        <5>1. \A m \in R : m \in 0..Window
          BY <2>1 DEF Histories
        <5> QED
          BY <2>1, <3>2, <5>1, DoctorBounds
      <4> QED
        BY <2>1, <2>5, <3>2, <4>1 DEF Recalls
    <3>3. CASE UNCHANGED queued
      BY <3>1, <3>3 DEF queued
    <3>4. CASE /\ attempts' = [attempts EXCEPT ![q] = OneMore(attempts[q])]
               /\ hasty' = hasty
      BY <3>1, <3>4 DEF Archived
    <3>5. CASE /\ attempts' = [attempts EXCEPT ![q] = OneMore(attempts[q])]
               /\ hasty' = [hasty EXCEPT ![q] = hasty[q] + 1] /\ hasty[q] < Faults
      <4>1. hasty'[q] = hasty[q] + 1 /\ hasty[q] \in Nat
        BY <1>5, <2>1, <3>5 DEF Archived
      <4> QED
        BY <1>2, <3>5, <4>1 DEF Archived
    <3> QED
      BY <2>2, <3>2, <3>3, <3>4, <3>5
  <2>10. \A c \in 0..Window : attempts'[q][c] <= attempts[q][c] + 1 /\ attempts[q][c] \in Nat /\ attempts'[q][c] \in Nat
    <3>1. attempts[q] \in [0..Window -> Nat] /\ attempts'[q] \in [0..Window -> Nat]
      BY <1>5, <2>1
    <3>2. \A c \in 0..Window : OneMore(attempts[q])[c] = attempts[q][c] + 1
      BY <1>5, <2>1, DoctorBounds, OneMoreCounts
    <3>3. CASE UNCHANGED queued
      <4>1. attempts'[q] = attempts[q]
        BY <3>3 DEF queued
      <4>2. ASSUME NEW c \in 0..Window PROVE attempts[q][c] \in Nat
        BY <3>1
      <4> QED
        BY <4>1, <4>2
    <3>4. CASE attempts' = [attempts EXCEPT ![q] = OneMore(attempts[q])]
      <4>1. attempts'[q] = OneMore(attempts[q])
        BY <1>5, <2>1, <3>4 DEF Archived
      <4>2. ASSUME NEW c \in 0..Window PROVE attempts[q][c] \in Nat
        BY <3>1
      <4>3. ASSUME NEW c \in 0..Window PROVE attempts'[q][c] = attempts[q][c] + 1
        BY <3>2, <4>1
      <4> QED
        BY <4>2, <4>3
    <3> QED
      BY <2>2, <3>3, <3>4
  <2>11. CASE Faults' = Faults + 1
    <3>1. Faults' = Faults + 1
      BY <2>11
    <3>2. ASSUME NEW p \in Projects
          PROVE  attempts'[p][Window] <= AttemptBudget * Faults' /\ hasty'[p] < Faults'
      <4>1. CASE p = q
        <5>1. {n \in R : n <= Window} = R /\ Window \in 0..Window
          <6>1. \A n \in R : n \in 0..Window
            BY <2>1 DEF Histories
          <6> QED
            BY <6>1, DoctorBounds
        <5>2. attempts[q][Window] <= Cardinality(R) + AttemptBudget * Faults
          BY <2>6, <5>1
        <5>3. attempts'[q][Window] <= attempts[q][Window] + 1 /\ attempts[q][Window] \in Nat /\ attempts'[q][Window] \in Nat
          BY <2>10, <5>1
        <5>4. attempts'[q][Window] <= AttemptBudget * (Faults + 1)
          BY <2>1, <2>7, <2>8, <5>2, <5>3, DoctorBounds
        <5>5. hasty'[q] < Faults'
          BY <1>2, <1>5, <2>1, <2>9, <3>1
        <5> QED
          BY <3>1, <4>1, <5>4, <5>5
      <4>2. CASE p # q
        <5>1. attempts[p][Window] <= AttemptBudget * (1 + Faults) /\ hasty[p] <= Faults
          BY <1>4 DEF Paced
        <5>2. Faults' = 1 + Faults /\ attempts'[p] = attempts[p] /\ hasty'[p] = hasty[p]
          BY <1>2, <2>9, <3>1, <4>2
        <5> QED
          BY <1>2, <1>5, <5>1, <5>2
      <4> QED
        BY <4>1, <4>2
    <3> QED
      BY <1>7, <3>2
  <2>12. CASE memory' = [memory EXCEPT ![i][q] = R \cup {0}] /\ faults' = faults
    <3>1. Faults' = Faults
      BY <2>12 DEF Faults
    <3>2. memory'[i][q] = R \cup {0} /\ \A p \in Projects \ {q} : memory'[i][p] = memory[i][p]
      BY <2>1, <2>12 DEF Archived
    <3>3. 0 \notin R
      BY <2>1, DoctorBounds
    <3>4. \A c \in 0..Window : Cardinality({n \in R \cup {0} : n <= c}) = Cardinality({n \in R : n <= c}) + 1
      BY <2>1, <3>3, OneAttempt
    <3>5. Recalls(R \cup {0}, attempts'[q], hasty'[q], Faults)
      <4>1. ASSUME NEW c \in 0..Window
            PROVE  attempts'[q][c] <= Cardinality({n \in R \cup {0} : n <= c}) + AttemptBudget * Faults
        <5>1. attempts[q][c] <= Cardinality({n \in R : n <= c}) + AttemptBudget * Faults
          BY <2>6
        <5>2. Cardinality({n \in R : n <= c}) \in Nat /\ AttemptBudget * Faults \in Nat
          BY <2>7, <2>8
        <5>3. /\ attempts'[q][c] <= attempts[q][c] + 1
              /\ attempts[q][c] \in Nat /\ attempts'[q][c] \in Nat
          BY <2>10
        <5>4. Cardinality({n \in R \cup {0} : n <= c}) = Cardinality({n \in R : n <= c}) + 1
          BY <3>4
        <5> QED
          BY <5>1, <5>2, <5>3, <5>4
      <4>2. \A c \in 0..Window : ~(0 > c)
        BY DoctorBounds
      <4> QED
        BY <2>9, <4>1, <4>2 DEF Recalls
    <3>6. ASSUME NEW p \in Projects PROVE Recalls(memory'[i][p], attempts'[p], hasty'[p], Faults')
      <4>1. CASE p = q
        BY <3>1, <3>2, <3>5, <4>1
      <4>2. CASE p # q
        BY <2>5, <2>9, <3>1, <3>2, <4>2
      <4> QED
        BY <4>1, <4>2
    <3> QED
      BY <1>6, <2>3, <2>4, <3>6
  <2> QED
    BY <1>4, <2>1, <2>11, <2>12
<1>17. ASSUME NEW i \in Ids, HandlerDies(i) PROVE Paced'
  BY <1>9, <1>17 DEF HandlerDies, Dies, Forgets
<1>18. CASE Crash
  BY <1>9, <1>18 DEF Crash, DaemonCrash, Forgets
<1> QED
  BY <1>11, <1>12, <1>13, <1>14, <1>15, <1>16, <1>17, <1>18, HistorySteps

LEMMA LedgerInit == Init => Booked /\ Truthful /\ (OneChain => Spaced)
<1> SUFFICES ASSUME Init PROVE Booked /\ Truthful /\ Spaced
  OBVIOUS
<1>1. /\ ledger = NoLedger /\ draft = [i \in Ids |-> NoLedger] /\ count = 0 /\ unhealthy = FALSE
      /\ alert = "none" /\ restarts = [n \in 0..LoopWindow |-> 0]
      /\ rung = [n \in 0..AlertCooldown - 1 |-> 0] /\ stage = [i \in Ids |-> "none"]
      /\ Faults = 0
  BY DEF Init, DoctorInit, DaemonInit, Faults
<1>2. NoLedger \in Ledger /\ NoLedger.samples = {} /\ NoLedger.alerted = Never
  BY DEF NoLedger, Ledger, Never
<1>3. Booked
  <2>1. restarts \in [0..LoopWindow -> Nat] /\ rung \in [0..AlertCooldown - 1 -> Nat]
    BY <1>1
  <2>2. Rising(restarts)
    <3>1. DOMAIN restarts = 0..LoopWindow /\ \A n \in 0..LoopWindow : restarts[n] = 0
      BY <1>1
    <3> QED
      BY <3>1 DEF Rising
  <2>3. Rising(rung)
    <3>1. DOMAIN rung = 0..AlertCooldown - 1 /\ \A n \in 0..AlertCooldown - 1 : rung[n] = 0
      BY <1>1
    <3> QED
      BY <3>1 DEF Rising
  <2>4. ledger \in Ledger /\ draft \in [Ids -> Ledger] /\ count \in 0..MaxCount
    BY <1>1, <1>2, DoctorBounds
  <2> QED
    BY <1>1, <2>1, <2>2, <2>3, <2>4 DEF Booked
<1>4. Truthful
  BY <1>1, <1>2 DEF Truthful, TrueOf, Noting, LoopAlertsTrue
<1>5. Spaced
  <2>1. rung[AlertCooldown - 1] = 0
    BY <1>1, DoctorBounds
  <2> QED
    BY <1>1, <1>2, <2>1 DEF Spaced, Knows, Noting, Never
<1> QED
  BY <1>3, <1>4, <1>5

LEMMA HistoryInit == Init => Archived /\ (OneChain => Paced)
<1> SUFFICES ASSUME Init PROVE Archived /\ Paced
  OBVIOUS
<1>1. /\ file = NoHistory /\ memory = [i \in Ids |-> NoHistory] /\ stage = [i \in Ids |-> "none"]
      /\ attempts = [p \in Projects |-> [n \in 0..Window |-> 0]] /\ hasty = [p \in Projects |-> 0]
      /\ Faults = 0
  BY DEF Init, DoctorInit, DaemonInit, Faults
<1>2. \A p \in Projects : attempts[p] = [n \in 0..Window |-> 0]
  BY <1>1
<1>3. Archived
  <2>1. ASSUME NEW p \in Projects PROVE Rising(attempts[p])
    <3>1. DOMAIN attempts[p] = 0..Window /\ \A n \in 0..Window : attempts[p][n] = 0
      BY <1>2
    <3> QED
      BY <3>1 DEF Rising
  <2>2. attempts \in [Projects -> [0..Window -> Nat]] /\ hasty \in [Projects -> Nat]
    BY <1>1
  <2> QED
    BY <1>1, <2>1, <2>2, NoHistoryIs DEF Archived
<1>4. ASSUME NEW p \in Projects
      PROVE  /\ Recalls(file[p], attempts[p], hasty[p], Faults)
             /\ attempts[p][Window] <= AttemptBudget * (1 + Faults) /\ hasty[p] <= Faults
  <2>1. file[p] = {} /\ hasty[p] = 0
    BY <1>1 DEF NoHistory
  <2>2. \A c \in 0..Window : attempts[p][c] = 0
    BY <1>2
  <2>3. \A c \in 0..Window : Cardinality({n \in {} : n <= c}) = 0
    <3>1. \A c \in 0..Window : {n \in {} : n <= c} = {}
      OBVIOUS
    <3> QED
      BY <3>1, FS_EmptySet
  <2>4. AttemptBudget * Faults \in Nat /\ AttemptBudget * (1 + Faults) \in Nat
    BY <1>1, DoctorBounds, Worth
  <2>5. Recalls(file[p], attempts[p], hasty[p], Faults)
    BY <1>1, <2>1, <2>2, <2>3, <2>4 DEF Recalls
  <2> QED
    BY <1>1, <2>1, <2>2, <2>4, <2>5, DoctorBounds
<1>5. Paced
  BY <1>1, <1>4 DEF Paced, Surveying
<1> QED
  BY <1>3, <1>5

LEMMA LedgerHolds == Spec => [](Booked /\ Truthful /\ (OneChain => Spaced))
<1> DEFINE Books0 == Booked /\ Truthful /\ (OneChain => Spaced)
           Links0 == Staged /\ Accounted /\ Chained /\ (Faults = 0 /\ Hopeful => Unbroken)
<1>1. Init => Books0
  BY LedgerInit
<1>2. Shape /\ Links0 /\ Books0 /\ [Next]_vars => Books0'
  BY BookedStep, TruthfulStep, SpacedStep
<1>3. Spec => []Links0
  BY ChainHolds
<1> HIDE DEF Books0, Links0
<1>4. Spec => []Books0
  BY <1>1, <1>2, <1>3, ShapeHolds, PTL DEF Spec
<1> QED
  BY <1>4 DEF Books0

LEMMA HistoryHolds == Spec => [](Archived /\ (OneChain => Paced))
<1> DEFINE Past0 == Archived /\ (OneChain => Paced)
           Links0 == Staged /\ Accounted /\ Chained /\ (Faults = 0 /\ Hopeful => Unbroken)
<1>1. Init => Past0
  BY HistoryInit
<1>2. Shape /\ Shape' /\ Links0 /\ Links0' /\ Past0 /\ [Next]_vars => Past0'
  <2> SUFFICES ASSUME Shape, Shape', Links0, Links0', Past0, [Next]_vars PROVE Past0'
    OBVIOUS
  <2>1. Archived'
    BY ArchivedStep
  <2>2. (OneChain => Paced)'
    BY <2>1, PacedStep
  <2> QED
    BY <2>1, <2>2
<1>3. Spec => []Links0
  BY ChainHolds
<1> HIDE DEF Past0, Links0
<1>4. Spec => []Past0
  BY <1>1, <1>2, <1>3, ShapeHolds, PTL DEF Spec
<1> QED
  BY <1>4 DEF Past0

\* An alert about a restart loop is about restarts that happened within the window
\* (restart_loop_detector.py, detect_restart_loop), although docker's counter starts
\* again when the container is made anew, and ledgers are lost or written over.
THEOREM LoopAlertsTrueHolds == Spec => []LoopAlertsTrue
<1>1. Booked /\ Truthful /\ (OneChain => Spaced) => LoopAlertsTrue
  BY DEF Truthful
<1> QED
  BY <1>1, LedgerHolds, PTL

\* While there is one chain, a person is alerted once in a cooldown, and once more for
\* each fault (restart_loop_detector.py, last_alerted_at), for any window and cooldown.
THEOREM AlertsSpacedHolds == Spec => []AlertsSpaced
<1>1. Booked /\ Truthful /\ (OneChain => Spaced) => AlertsSpaced
  BY DEF Spaced, AlertsSpaced
<1> QED
  BY <1>1, LedgerHolds, PTL

\* While there is one chain, the restarts of a project within a window stay within the
\* budget, and the pause between two of them is kept, but for the histories that faults
\* made the doctor lose (restart_stalled_chains.py, _load_history and _save_history).
THEOREM RestartsPacedHolds == Spec => []RestartsPaced
<1>1. Archived /\ (OneChain => Paced) => RestartsPaced
  BY DEF Paced, RestartsPaced
<1> QED
  BY <1>1, HistoryHolds, PTL
-----------------------------------------------------------------------------
(* Types of what is left.                                                  *)

Places == {"boot", "scan", "held", "talk", "reply"}
Placed == /\ pc \in Places /\ batch \in SUBSET Ids
          /\ child \in Ids \cup {None} /\ reports \in SUBSET Ids
Timed == todo \in [Ids -> SUBSET Projects] /\ age \in [Ids -> 0..Freshness + 1]
Breaks == /\ strikes \in 0..MaxStrikes /\ {taken, rolled, cached} \subseteq BOOLEAN
          /\ talk.ending \in Endings /\ opened \in Nat /\ counted <= site.cap
Edited == edits \in 0..MaxEdits /\ copy \in [Ids -> Body \cup {NoCopy}]

LEMMA PlacedStep ==
    ASSUME Placed, [Next]_vars PROVE Placed'
<1> USE DEF Placed
<1>1. CASE UNCHANGED vars
  BY <1>1 DEF vars, daemonVars, loop
<1>2. CASE Loop
  <2>1. CASE Boot \/ Unhandled \/ RejectDuplicate
    BY <2>1 DEF Boot, Unhandled, RejectDuplicate, Places
  <2>2. CASE Poll
    BY <2>2 DEF Poll, Pages, Pending
  <2>3. CASE Spawn
    BY <2>3 DEF Spawn, Places
  <2>4. ASSUME NEW i \in Ids, PassOver(i) \/ Claims(i) PROVE Placed'
    BY <2>4 DEF PassOver, Claims, Claim, Places
  <2>5. CASE GateHit \/ GatePassed \/ GatewayFails \/ Reply
    BY <2>5 DEF GateHit, GatePassed, GatewayFails, Reply, LetGo, Inline, Places
  <2>6. ASSUME NEW turn, Turn(turn) PROVE Placed'
    BY <2>6 DEF Turn, Inline, Places
  <2>7. ASSUME NEW text, Says(text) PROVE Placed'
    BY <2>7 DEF Says, Inline, Places
  <2> QED
    BY <1>2, <2>1, <2>2, <2>3, <2>4, <2>5, <2>6, <2>7 DEF Loop
<1>3. CASE World
  BY <1>3 DEF World, HandlerDies, Dies, Off, LeaseExpires, PersonCancels, Crash, DaemonCrash,
              PersonStartsDoctor, Tick, PersonEdits, daemonVars, loop, EditRegistry, PersonTakes, Places
<1>4. ASSUME NEW i \in Ids, Kickoff(i) PROVE Placed'
  <2>1. CASE Parses(i) \/ Clears(i) \/ HydratesFirst(i)
    BY <2>1 DEF Parses, ParsePayload, Clears, ClearSlot, HydratesFirst, Off, loop
  <2>2. CASE Completes(i) \/ Raises(i) \/ Requeues(i) \/ CancelSeen(i) \/ FailKickoff(i)
             \/ Drained(i) \/ Reports(i)
    BY <2>2 DEF Completes, Raises, Requeues, CancelSeen, FailKickoff, Drained, Reports, Off, loop
  <2>3. CASE DispatchesChild(i) \/ PrFound(i) \/ Collects(i) \/ GivesUp(i) \/ TimesOut(i)
             \/ CountsAgain(i) \/ Merges(i)
    BY <2>3 DEF DispatchesChild, PrFound, Collects, GivesUp, TimesOut, CountsAgain, Merges,
                Released, Steady, loop
  <2> QED
    BY <1>4, <2>1, <2>2, <2>3 DEF Kickoff
<1>5. ASSUME NEW i \in Ids, Doctors(i) PROVE Placed'
  <2>1. CASE Starts(i) \/ Scans(i) \/ Patches(i) \/ Saves(i) \/ Watches(i) \/ Notes(i) \/ Restarts(i)
    BY <2>1 DEF Starts, Scans, Patches, Saves, Watches, Notes, Restarts, loop
  <2>2. CASE \E project \in Projects : Passes(i, project) \/ AsksPending(i, project)
    BY <2>2 DEF Passes, AsksPending, Thinks, Calls, daemonVars, loop
  <2>3. CASE AsksClaimed(i) \/ Spares(i) \/ QueuesNext(i) \/ Closes(i)
    BY <2>3 DEF AsksClaimed, Spares, QueuesNext, Closes, Thinks, Calls, daemonVars, loop
  <2> QED
    BY <1>5, <2>1, <2>2, <2>3 DEF Doctors
<1> QED
  BY <1>1, <1>2, <1>3, <1>4, <1>5 DEF Next

LEMMA TimedStep ==
    ASSUME Timed, site \in Sites, [Next]_vars PROVE Timed'
<1> USE DEF Timed
<1>1. Freshness \in Nat /\ site.projects \in SUBSET Projects
  BY DoctorBounds, DaemonAssumption DEF Site
<1>2. ASSUME UNCHANGED <<todo, age>> PROVE Timed'
  BY <1>2
<1>3. CASE UNCHANGED vars
  BY <1>2, <1>3 DEF vars, doctorVars, work
<1>4. CASE Loop
  <2>1. ASSUME NEW i \in Ids, Claims(i) PROVE Timed'
    BY <1>1, <2>1 DEF Claims, DoctorRest, work
  <2> QED
    BY <1>2, <1>4, <2>1 DEF Loop, Quiet, NoDoctor, doctorVars, work
<1>5. ASSUME NEW i \in Ids, Kickoff(i) PROVE Timed'
  BY <1>2, <1>5 DEF Kickoff, Parses, Clears, Quiet, NoDoctor, doctorVars, work
<1>6. CASE World
  <2>1. ASSUME (\E i \in Ids : HandlerDies(i)) \/ Crash PROVE UNCHANGED <<todo, age>> \/ Timed'
    <3>1. ASSUME NEW dead,
                 todo' = [i \in Ids |-> IF i \in dead THEN {} ELSE todo[i]], UNCHANGED age
          PROVE  Timed'
      BY <3>1
    <3>2. ASSUME NEW dead, Forgets(dead)
          PROVE  todo' = [i \in Ids |-> IF i \in dead THEN {} ELSE todo[i]]
      BY <3>2 DEF Forgets
    <3>3. PICK dead : Forgets(dead) /\ UNCHANGED age
      BY <2>1 DEF HandlerDies, Crash
    <3> QED
      BY <3>1, <3>2, <3>3
  <2>2. CASE Tick
    <3>1. todo' = todo
      BY <2>2 DEF Tick
    <3>2. ASSUME NEW i \in Ids PROVE Older(age[i], Freshness + 1) \in 0..Freshness + 1
      BY <1>1 DEF Older, Never
    <3>3. age' \in [Ids -> 0..Freshness + 1]
      BY <1>1, <2>2, <3>2 DEF Tick
    <3> QED
      BY <3>1, <3>3
  <2> QED
    BY <1>2, <1>6, <2>1, <2>2 DEF World, Quiet, NoDoctor, doctorVars, work, PersonStartsDoctor
<1>7. ASSUME NEW i \in Ids, Doctors(i) PROVE Timed'
  <2>1. ASSUME Surveys(i) PROVE Timed'
    BY <1>1, <2>1 DEF Surveys
  <2>2. CASE Starts(i) \/ Scans(i) \/ Patches(i)
    BY <1>2, <2>1, <2>2 DEF Starts, Scans, Patches
  <2>3. CASE Saves(i) \/ Watches(i) \/ Notes(i) \/ Restarts(i)
    BY <1>2, <2>3 DEF Saves, Watches, Notes, Restarts
  <2>4. ASSUME NEW p \in Projects, Passes(i, p) \/ AsksPending(i, p) PROVE Timed'
    BY <2>4 DEF Passes, AsksPending, Thinks, Calls
  <2>5. CASE AsksClaimed(i) \/ Spares(i) \/ QueuesNext(i) \/ Closes(i)
    BY <1>2, <2>5 DEF AsksClaimed, Spares, QueuesNext, Closes, Thinks, Calls
  <2> QED
    BY <1>7, <2>2, <2>3, <2>4, <2>5 DEF Doctors
<1> QED
  BY <1>3, <1>4, <1>5, <1>6, <1>7 DEF Next

LEMMA TurnedEnds ==
    ASSUME NEW turn, "ending" \in DOMAIN talk PROVE Turned(turn).ending \in Endings
  BY DEF Turned, Endings

LEMMA BreaksStep ==
    ASSUME Breaks, Solvent, Judged, [Next]_vars PROVE Breaks'
<1> USE DEF Breaks
<1>1. MaxStrikes \in Nat \ {0} /\ site' = site /\ site.cap \in Nat /\ counted \in Nat
  BY BuilderAssumption, SiteStays DEF Solvent
<1>2. "ending" \in DOMAIN talk /\ "" \in Endings /\ Texts \subseteq Endings
  BY DEF Judged, IsTalk, Endings
<1>3. NoTalk.ending \in Endings /\ \A pass, model, tagged : Talk(pass, model, tagged).ending \in Endings
  BY <1>2, TalkFields
<1>4. UNCHANGED breaker => strikes' \in 0..MaxStrikes /\ rolled' \in BOOLEAN /\ cached' \in BOOLEAN
  BY DEF breaker
<1>5. Load /\ Untouched => strikes' \in 0..MaxStrikes /\ rolled' \in BOOLEAN /\ cached' \in BOOLEAN
  BY <1>1 DEF Load, Untouched, Loads, Cleared
<1>6. ASSUME NEW n \in Nat, counted' = Capped(counted + n) PROVE counted' <= site'.cap
  BY <1>1, <1>6 DEF Capped
<1>7. ChecksBudget => counted' <= site'.cap
  BY <1>1, <1>6, BuilderAssumption DEF ChecksBudget, Records, purse
<1>8. ASSUME NEW i \in Ids, CountsAgain(i) PROVE counted' <= site'.cap
  BY <1>6, <1>8 DEF CountsAgain, Solvent
<1>9. Anew => counted' <= site'.cap
  BY <1>1 DEF Anew
<1>10. CASE UNCHANGED vars \/ UNCHANGED builderVars
  BY <1>1, <1>10 DEF vars, builderVars, breaker, purse
<1>11. CASE LoopBuilds
  <2>1. CASE GateHit \/ Reply
    BY <1>1, <1>2, <1>4, <2>1, TalkFields DEF GateHit, Reply, LetGo, purse
  <2>2. CASE GatePassed
    <3>1. talk'.ending \in Endings
      BY <1>3, <2>2 DEF GatePassed
    <3>2. strikes' \in 0..MaxStrikes /\ rolled' \in BOOLEAN /\ cached' \in BOOLEAN
      BY <1>4, <1>5, <2>2 DEF GatePassed
    <3>3. UNCHANGED <<taken, opened, purse>>
      BY <2>2 DEF GatePassed
    <3> QED
      BY <1>1, <3>1, <3>2, <3>3 DEF purse
  <2>3. CASE GatewayFails
    <3>1. talk'.ending \in Endings
      BY <1>3, <2>3 DEF GatewayFails, LetGo
    <3> QED
      BY <1>1, <1>4, <2>3, <3>1 DEF GatewayFails, purse
  <2>4. ASSUME NEW turn, Turn(turn) PROVE Breaks'
    <3>1. talk'.ending \in Endings
      BY <1>2, <2>4, TurnedEnds DEF Turn
    <3>2. opened' \in Nat
      <4>1. opened' = opened \/ opened' = opened + 1
        BY <2>4 DEF Turn
      <4>2. opened \in Nat
        OBVIOUS
      <4> QED
        BY <4>1, <4>2
    <3> QED
      BY <1>1, <1>4, <2>4, <3>1, <3>2 DEF Turn, purse
  <2>5. ASSUME NEW text \in Texts, Says(text) PROVE Breaks'
    BY <1>1, <1>2, <1>4, <2>5 DEF Says, purse
  <2> QED
    BY <1>11, <2>1, <2>2, <2>3, <2>4, <2>5 DEF LoopBuilds
<1>12. ASSUME NEW i \in Ids, TicketMoves(i) PROVE Breaks'
  <2>1. CASE Parses(i) \/ Clears(i)
    BY <1>1, <1>4, <1>9, <2>1 DEF Parses, Clears, purse
  <2>2. CASE DispatchesChild(i) \/ PrFound(i) \/ TimesOut(i)
    BY <1>1, <1>4, <2>2 DEF DispatchesChild, PrFound, TimesOut, purse
  <2>3. CASE CountsAgain(i)
    BY <1>1, <1>4, <1>8, <2>3 DEF CountsAgain
  <2>4. CASE Merges(i)
    BY <1>1, <2>4 DEF Merges, purse
  <2>5. CASE Collects(i)
    BY <1>4, <1>5, <1>7, <2>5 DEF Collects
  <2>6. CASE GivesUp(i)
    <3>1. strikes' \in 0..MaxStrikes /\ rolled' \in BOOLEAN /\ cached' \in BOOLEAN
      BY <1>1, <2>6 DEF GivesUp, Load, Loads, Cleared
    <3> QED
      BY <1>7, <2>6, <3>1 DEF GivesUp
  <2> QED
    BY <1>12, <2>1, <2>2, <2>3, <2>4, <2>5, <2>6 DEF TicketMoves
<1>13. CASE Crash
  <2>1. talk'.ending \in Endings
    BY <1>13, <1>3 DEF Crash
  <2>2. strikes' \in 0..MaxStrikes /\ counted' <= site'.cap
    BY <1>1, <1>9, <1>13 DEF Crash
  <2>3. taken' = taken /\ opened' = opened /\ rolled' = FALSE /\ cached' = FALSE
    BY <1>13 DEF Crash
  <2> QED
    BY <2>1, <2>2, <2>3
<1>14. CASE EditRegistry \/ PersonTakes
  BY <1>1, <1>14 DEF EditRegistry, PersonTakes, breaker, purse
<1> QED
  BY <1>10, <1>11, <1>12, <1>13, <1>14, BuilderSteps

LEMMA EditedStep ==
    ASSUME Edited, Sectioned, [Next]_vars PROVE Edited'
<1> USE DEF Edited
<1>1. CASE UNCHANGED hydrationVars \/ UNCHANGED vars
  BY <1>1 DEF vars, hydrationVars
<1>2. ASSUME NEW i \in Ids, Reads(i) \/ WritesBack(i) PROVE Edited'
  BY <1>2 DEF Reads, WritesBack, Sectioned
<1>3. CASE PersonEdits
  BY <1>3, HydrationAssumption DEF PersonEdits
<1>4. ASSUME NEW dead, ForgetsCopies(dead) PROVE Edited'
  BY <1>4 DEF ForgetsCopies
<1> QED
  BY <1>1, <1>2, <1>3, <1>4, HydrationSteps

TypeInv ==
    /\ Staged /\ Accounted /\ Booked /\ Archived /\ Bounded /\ Solvent /\ Sectioned /\ Judged
    /\ site \in Sites /\ Placed /\ Timed /\ Breaks /\ Edited

LEMMA TypeInvInit == Init => TypeInv
<1> SUFFICES ASSUME Init PROVE TypeInv
  OBVIOUS
<1>1. Staged /\ Accounted /\ Booked /\ Archived
  BY StagedInit, AccountedInit, LedgerInit, HistoryInit
<1>2. site \in Sites /\ Placed
  BY DEF Init, DaemonInit, Placed, Places
<1>3. Timed
  BY DoctorBounds DEF Init, DoctorInit, Timed
<1>4. site.cap \in Nat
  BY <1>2, DaemonAssumption DEF Site
<1>5. Bounded
  BY BuilderAssumption DEF Init, BuilderInit, NewTicket, Bounded
<1>6. Solvent
  BY <1>4 DEF Init, BuilderInit, NewTicket, Solvent
<1>7. Sectioned /\ Edited
  BY HydrationAssumption DEF Init, HydrationInit, Sectioned, Edited, Body
<1>8. Judged
  BY StreakNone, TalkFields DEF Init, DaemonInit, BuilderInit, Judged, AbortJustified
<1>9. Breaks
  <2>1. strikes = 0 /\ counted = 0 /\ opened = 0 /\ talk = NoTalk
    BY DEF Init, BuilderInit
  <2>2. {taken, rolled, cached} \subseteq BOOLEAN
    BY DEF Init, BuilderInit
  <2>3. strikes \in 0..MaxStrikes
    <3>1. MaxStrikes \in Nat
      BY BuilderAssumption
    <3> QED
      BY <2>1, <3>1
  <2>4. counted <= site.cap /\ opened \in Nat
    BY <1>4, <2>1
  <2>5. talk.ending \in Endings
    BY <2>1, TalkFields DEF Endings
  <2> QED
    BY <2>2, <2>3, <2>4, <2>5 DEF Breaks
<1> QED
  BY <1>1, <1>2, <1>3, <1>5, <1>6, <1>7, <1>8, <1>9 DEF TypeInv

LEMMA TypeInvStep ==
    ASSUME Shape, Shape', TypeInv, [Next]_vars PROVE TypeInv'
<1> USE DEF TypeInv
<1>1. Staged' /\ Accounted' /\ Booked' /\ Archived'
  BY StagedStep, AccountedStep, BookedStep, ArchivedStep
<1>2. Bounded' /\ Solvent' /\ Sectioned' /\ Judged'
  BY BoundedStep, SolventStep, SectionedStep, JudgedStep
<1>3. (site \in Sites)' /\ Placed' /\ Timed' /\ Breaks' /\ Edited'
  BY SiteStays, PlacedStep, TimedStep, BreaksStep, EditedStep
<1> QED
  BY <1>1, <1>2, <1>3

\* Every variable of the daemon and of what runs in it has its type: the limits that
\* main.py, dispatch.py, budget.py, model_registry.py and the playbooks keep are kept, and
\* the files and counters hold what those that read them expect.
THEOREM TypeOKHolds == Spec => []TypeOK
<1>1. ASSUME Shape, TypeInv PROVE TypeOK
  <2> USE <1>1 DEF TypeInv
  <2>1. /\ site \in Sites /\ board \in [Ids -> Task] /\ slot \in [Projects -> Ids \cup {None}]
        /\ handler \in [Ids -> Handlers] /\ at \in [Ids -> Projects \cup {None}]
    BY DEF Shape, Rest
  <2>2. /\ pc \in {"boot", "scan", "held", "talk", "reply"} /\ batch \subseteq Ids
        /\ {cur, child} \subseteq Ids \cup {None} /\ reports \subseteq Ids
    BY DEF Placed, Places, Accounted, Holds
  <2>3. faults \in [{"lost", "twice", "upset"} -> Nat] /\ unlisted \in Nat
    BY DEF Accounted, Wrongs
  <2>4. stage \in [Ids -> Stages] /\ todo \in [Ids -> SUBSET Projects] /\ age \in [Ids -> 0..Freshness + 1]
    BY DEF Staged, Timed
  <2>5. Histories \subseteq SUBSET (0..Window)
    BY DEF Histories
  <2>6. /\ memory \in [Ids -> [Projects -> SUBSET (0..Window)]]
        /\ file \in [Projects -> SUBSET (0..Window)]
        /\ attempts \in [Projects -> [0..Window -> Nat]] /\ hasty \in [Projects -> Nat]
    <3>1. [Projects -> Histories] \subseteq [Projects -> SUBSET (0..Window)]
      BY <2>5
    <3>2. memory \in [Ids -> [Projects -> Histories]] /\ file \in [Projects -> Histories]
      BY DEF Archived
    <3>3. memory \in [Ids -> [Projects -> SUBSET (0..Window)]] /\ file \in [Projects -> SUBSET (0..Window)]
      BY <3>1, <3>2
    <3> QED
      BY <3>3 DEF Archived
  <2>7. /\ draft \in [Ids -> Ledger] /\ ledger \in Ledger
        /\ count \in 0..MaxCount /\ unhealthy \in BOOLEAN /\ alert \in {"none", "loop", "sick"}
        /\ restarts \in [0..LoopWindow -> Nat] /\ rung \in [0..AlertCooldown - 1 -> Nat]
    BY DEF Booked
  <2>8. /\ talk.log \in Seq(Turns) /\ talk.ending \in Endings
        /\ ticket.dispatches \in Nat /\ ticket.retries \in 0..RetryBudget
        /\ strikes \in 0..MaxStrikes /\ {taken, rolled, cached} \subseteq BOOLEAN
        /\ opened \in Nat
    BY DEF Judged, Streak, Breaks, Shape, Rest, Tickets
  <2>9. counted \in 0..site.cap /\ {price, paid} \subseteq Nat
    BY DEF Solvent, Breaks
  <2>10. body \in Body /\ edits \in 0..MaxEdits /\ copy \in [Ids -> Body \cup {NoCopy}]
    BY DEF Sectioned, Edited
  <2> QED
    BY <2>1, <2>2, <2>3, <2>4, <2>6, <2>7, <2>8, <2>9, <2>10 DEF TypeOK
<1>2. Shape /\ Shape' /\ TypeInv /\ [Next]_vars => TypeInv'
  BY TypeInvStep
<1>3. Shape /\ TypeInv => TypeOK
  BY <1>1
<1>4. Init => TypeInv
  BY TypeInvInit
<1> QED
  BY <1>2, <1>3, <1>4, ShapeHolds, PTL DEF Spec
=============================================================================
