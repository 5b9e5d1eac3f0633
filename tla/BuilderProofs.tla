--------------------------- MODULE BuilderProofs ----------------------------
(***************************************************************************)
(* Proofs about Service: what bounds the builders of a ticket, when a tool *)
(* loop is broken off, what ends a rollback, and the acceptance section.   *)
(***************************************************************************)
EXTENDS ServiceProofs

\* The steps that have to do with a ticket or a builder.
LoopBuilds ==
    \/ GateHit \/ GatePassed \/ GatewayFails \/ Reply
    \/ \E turn \in Turns : Turn(turn)
    \/ \E text \in Texts : Says(text)
TicketMoves(i) ==
    \/ Parses(i) \/ Clears(i)
    \/ DispatchesChild(i) \/ PrFound(i) \/ Collects(i) \/ GivesUp(i) \/ TimesOut(i)
    \/ CountsAgain(i) \/ Merges(i)

LEMMA BuilderSteps ==
    ASSUME Next
    PROVE  \/ UNCHANGED builderVars
           \/ LoopBuilds
           \/ \E i \in Ids : TicketMoves(i)
           \/ Crash \/ EditRegistry \/ PersonTakes
<1>1. CASE Loop
  BY <1>1 DEF Loop, Quiet, Claims, NoBuilder, LoopBuilds
<1>2. CASE World
  BY <1>2 DEF World, HandlerDies, PersonStartsDoctor, Quiet, NoBuilder
<1>3. ASSUME NEW i \in Ids, Kickoff(i) PROVE UNCHANGED builderVars \/ TicketMoves(i)
  BY <1>3 DEF Kickoff, Quiet, NoBuilder, TicketMoves
<1>4. ASSUME NEW i \in Ids, Doctors(i) PROVE UNCHANGED builderVars
  BY <1>4 DEF Doctors, NoBuilder
<1> QED
  BY <1>1, <1>2, <1>3, <1>4 DEF Next

\* The situation the daemon was started in does not change.
LEMMA SiteStays ==
    ASSUME [Next]_vars PROVE site' = site /\ (Boot \/ unlisted' = unlisted)
<1> DEFINE Fixed == site' = site /\ (Boot \/ unlisted' = unlisted)
<1>1. CASE UNCHANGED vars
  BY <1>1 DEF vars, daemonVars
<1>2. CASE Loop
  BY <1>2 DEF Loop, Boot, Poll, Unhandled, RejectDuplicate, Spawn, PassOver, Claims, Claim,
              GateHit, GatePassed, GatewayFails, Reply, Turn, Says, Inline
<1>3. CASE World
  BY <1>3 DEF World, HandlerDies, Dies, Off, LeaseExpires, PersonCancels, Crash, DaemonCrash,
              PersonStartsDoctor, Tick, PersonEdits, daemonVars, EditRegistry, PersonTakes
<1>4. ASSUME NEW i \in Ids, Kickoff(i) PROVE Fixed
  <2>1. CASE Parses(i) \/ Clears(i) \/ HydratesFirst(i)
    BY <2>1 DEF Parses, ParsePayload, Clears, ClearSlot, HydratesFirst, Off
  <2>2. CASE Completes(i) \/ Raises(i) \/ Requeues(i) \/ CancelSeen(i) \/ FailKickoff(i)
             \/ Drained(i) \/ Reports(i)
    BY <2>2 DEF Completes, Raises, Requeues, CancelSeen, FailKickoff, Drained, Reports, Off
  <2>3. CASE DispatchesChild(i) \/ PrFound(i) \/ Collects(i) \/ GivesUp(i) \/ TimesOut(i)
             \/ CountsAgain(i) \/ Merges(i)
    BY <2>3 DEF DispatchesChild, PrFound, Collects, GivesUp, TimesOut, CountsAgain, Merges,
                Released, Steady
  <2> QED
    BY <1>4, <2>1, <2>2, <2>3 DEF Kickoff
<1>5. ASSUME NEW i \in Ids, Doctors(i) PROVE Fixed
  <2>1. CASE Starts(i) \/ Scans(i) \/ Patches(i) \/ Saves(i) \/ Watches(i) \/ Notes(i) \/ Restarts(i)
    BY <2>1 DEF Starts, Scans, Patches, Saves, Watches, Notes, Restarts
  <2>2. CASE \E project \in Projects : Passes(i, project) \/ AsksPending(i, project)
    BY <2>2 DEF Passes, AsksPending, Thinks, Calls, daemonVars
  <2>3. CASE AsksClaimed(i) \/ Spares(i) \/ QueuesNext(i) \/ Closes(i)
    BY <2>3 DEF AsksClaimed, Spares, QueuesNext, Closes, Thinks, Calls, daemonVars
  <2> QED
    BY <1>5, <2>1, <2>2, <2>3 DEF Doctors
<1> QED
  BY <1>1, <1>2, <1>3, <1>4, <1>5 DEF Next
-----------------------------------------------------------------------------
(* The rollback.                                                           *)

\* A rollback stands until the registry is edited or the daemon restarts: neither a
\* merge nor another hard timeout ends it (model_registry.py).
THEOREM RollbackStandsHolds == Spec => RollbackStands
<1> DEFINE Stands == rolled /\ ~rolled' => (registry.file = "good" /\ registry.changed) \/ pc' = "boot"
<1>1. ASSUME Next PROVE Stands
  <2>1. CASE UNCHANGED builderVars \/ EditRegistry \/ PersonTakes
    BY <2>1 DEF builderVars, breaker, EditRegistry, PersonTakes
  <2>2. CASE LoopBuilds
    BY <2>2 DEF LoopBuilds, GateHit, GatePassed, GatewayFails, Reply, Turn, Says, breaker,
                Untouched, Cleared, Loads
  <2>3. ASSUME NEW i \in Ids, TicketMoves(i) PROVE Stands
    BY <2>3 DEF TicketMoves, Parses, Clears, DispatchesChild, PrFound, Collects, GivesUp, TimesOut,
                CountsAgain, Merges, breaker, Untouched, Cleared, Loads
  <2>4. CASE Crash
    BY <2>4 DEF Crash, DaemonCrash
  <2> QED
    BY <1>1, <2>1, <2>2, <2>3, <2>4, BuilderSteps
<1>2. ASSUME UNCHANGED vars PROVE Stands
  BY <1>2 DEF vars, builderVars, breaker
<1>3. [Next]_vars => [Stands]_vars
  BY <1>1, <1>2
<1> QED
  BY <1>3, PTL DEF Spec, RollbackStands
-----------------------------------------------------------------------------
(* The builders of a ticket.                                               *)

\* A dispatch is paid for before it is made: a ticket that is pending has a dispatch
\* left.
Bounded == LET left == MaxDispatches + RetryBudget - ticket.retries IN
           ticket.dispatches <= left /\ (ticket.status = "pending" => ticket.dispatches < left)

LEMMA BoundedStep ==
    ASSUME Shape, Shape', Bounded, [Next]_vars PROVE Bounded'
<1> USE BuilderAssumption
<1>1. ticket \in Tickets /\ ticket' \in Tickets
  BY DEF Shape, Rest
<1>2. CASE ticket' = ticket
  BY <1>2 DEF Bounded
<1>3. CASE Anew
  BY <1>3 DEF Bounded, Anew, NewTicket
<1>4. CASE ticket' = Retried
  <2>1. CASE ticket.retries > 0
    <3>1. ticket'.dispatches = ticket.dispatches /\ ticket'.retries = ticket.retries - 1
      BY <1>1, <1>4, <2>1 DEF Retried, Tickets
    <3> QED
      BY <1>1, <3>1 DEF Bounded, Tickets
  <2>2. CASE ~(ticket.retries > 0)
    BY <1>1, <1>4, <2>2 DEF Retried, Bounded, Tickets
  <2> QED
    BY <2>1, <2>2
<1>5. ASSUME NEW i \in Ids, DispatchesChild(i) PROVE Bounded'
  <2>1. CASE ticket' = [ticket EXCEPT !.status = "dispatched", !.dispatches = @ + 1]
    <3>1. /\ ticket'.status = "dispatched" /\ ticket'.dispatches = ticket.dispatches + 1
          /\ ticket'.retries = ticket.retries
      BY <1>1, <2>1 DEF Tickets
    <3> QED
      BY <1>1, <1>5, <3>1 DEF Bounded, Tickets, DispatchesChild
  <2> QED
    BY <1>2, <1>5, <2>1 DEF DispatchesChild
<1>6. ASSUME NEW status, status # "pending", Goal(status) PROVE Bounded'
  BY <1>1, <1>6 DEF Goal, Bounded, Tickets
<1>7. CASE Goal("pending") /\ MayGoOn
  BY <1>1, <1>7 DEF Goal, MayGoOn, Bounded, Tickets
<1>8. ASSUME NEW i \in Ids, TicketMoves(i) PROVE Bounded'
  <2>1. CASE Parses(i) \/ Clears(i) \/ CountsAgain(i) \/ Merges(i) \/ PrFound(i)
    BY <1>2, <1>3, <1>6, <2>1 DEF Parses, Clears, CountsAgain, Merges, PrFound
  <2>2. CASE Collects(i) \/ GivesUp(i) \/ TimesOut(i)
    BY <1>4, <1>6, <1>7, <2>2 DEF Collects, GivesUp, TimesOut
  <2> QED
    BY <1>5, <1>8, <2>1, <2>2 DEF TicketMoves
<1>9. CASE LoopBuilds
  BY <1>2, <1>9 DEF LoopBuilds, GateHit, GatePassed, GatewayFails, Reply, Turn, Says
<1>10. CASE UNCHANGED vars
  BY <1>2, <1>10 DEF vars, builderVars
<1>11. CASE UNCHANGED builderVars \/ Crash \/ EditRegistry \/ PersonTakes
  BY <1>2, <1>3, <1>11 DEF builderVars, Crash, EditRegistry, PersonTakes
<1> QED
  BY <1>8, <1>9, <1>10, <1>11, BuilderSteps

\* The fallback chain and the retries together bound the builders of a ticket
\* (orchestrator.py, _silent_complete_max_attempts and per_ticket_retry_budget), whatever
\* fails, restarts or times out.
THEOREM DispatchesBoundedHolds == Spec => []DispatchesBounded
<1>1. Init => Bounded
  BY BuilderAssumption DEF Init, BuilderInit, NewTicket, Bounded
<1>2. Shape /\ Shape' /\ Bounded /\ [Next]_vars => Bounded'
  BY BoundedStep
<1>3. Bounded => DispatchesBounded
  BY DEF Bounded, DispatchesBounded
<1> QED
  BY <1>1, <1>2, <1>3, ShapeHolds, PTL DEF Spec
-----------------------------------------------------------------------------
(* The budget.                                                             *)

\* Nothing but the dispatch posts a builder.
PostsNone == \A j \in Ids : Kind(j) # "builder" => Kind(j)' # "builder"

LEMMA SamePostsNone == ASSUME board' = board PROVE PostsNone
  BY DEF PostsNone, Kind

LEMMA EndPostsNone ==
    ASSUME Shape, NEW i, NEW state, NEW why, NEW answer,
           Completed(i, state, why, answer) \/ TryComplete(i, state, why, answer)
    PROVE  PostsNone
<1>1. CASE UNCHANGED board
  BY <1>1, SamePostsNone
<1>2. CASE Completed(i, state, why, answer)
  <2>1. ASSUME NEW j \in Ids PROVE Kind(j)' \in {Kind(j), "none"}
    <3>1. board[j] \in Task
      BY DEF Shape
    <3>2. board'[j] \in {NoTask, board[j],
                        [board[j] EXCEPT !.state = state, !.why = why, !.answer = answer]}
      BY <1>2 DEF Completed, Shape
    <3>3. [board[j] EXCEPT !.state = state, !.why = why, !.answer = answer].kind = board[j].kind
      BY <3>1 DEF Task
    <3> QED
      BY <3>2, <3>3, NoTaskType DEF Kind
  <2> QED
    BY <2>1 DEF PostsNone
<1> QED
  BY <1>1, <1>2 DEF TryComplete

LEMMA LeftPostsNone == ASSUME Shape, NEW ids, Left(ids) PROVE PostsNone
  BY NoTaskType DEF Left, PostsNone, Kind

LEMMA CreatingPostsNone ==
    ASSUME Shape, NEW task, task.kind # "builder", Creating(task) PROVE PostsNone
<1>1. \A j \in Ids : board'[j] \in {board[j], task}
  BY DEF Creating, Created, Lost, Posts, Posted, Shape
<1> QED
  BY <1>1 DEF PostsNone, Kind

LEMMA NewKinds ==
    \A project, n : /\ NewTask("kickoff", project, n).kind = "kickoff"
                    /\ NewTask("doctor", project, n).kind = "doctor"
                    /\ [NewTask("kickoff", project, n) EXCEPT !.marked = TRUE].kind = "kickoff"
  BY DEF NewTask

LEMMA LoopPostsNone == ASSUME Shape, Loop PROVE PostsNone
<1>1. CASE Boot
  <2>1. \A j \in Ids : board'[j] \in {board[j], NoTask}
    BY <1>1 DEF Boot
  <2> QED
    BY <2>1, NoTaskType DEF PostsNone, Kind
<1>2. CASE \/ Poll \/ GatePassed \/ \E i \in Ids : PassOver(i)
           \/ \E turn \in Turns : Turn(turn)
           \/ \E text \in Texts : Says(text)
  BY <1>2, SamePostsNone DEF Poll, GatePassed, PassOver, Turn, Says
<1>3. CASE Unhandled \/ RejectDuplicate \/ GateHit \/ Reply
  BY <1>3, EndPostsNone DEF Unhandled, RejectDuplicate, GateHit, Reply
<1>4. CASE Spawn
  BY <1>4, LeftPostsNone DEF Spawn
<1>5. CASE GatewayFails
  BY <1>5, EndPostsNone, SamePostsNone DEF GatewayFails
<1>6. ASSUME NEW i \in Ids, Claims(i) PROVE PostsNone
  <2>1. board[i] \in Task
    BY DEF Shape
  <2>2. [board[i] EXCEPT !.state = "claimed"].kind = board[i].kind
    BY <2>1 DEF Task
  <2>3. \/ board' = board
        \/ \A j \in Ids : board'[j] \in {board[j]} \/ (j = i /\ board'[j] = [board[i] EXCEPT !.state = "claimed"])
    BY <1>6 DEF Claims, Claim, Shape
  <2> QED
    BY <2>2, <2>3, SamePostsNone DEF PostsNone, Kind
<1> QED
  BY <1>1, <1>2, <1>3, <1>4, <1>5, <1>6 DEF Loop

LEMMA KickoffPostsNone ==
    ASSUME Shape, NEW i \in Ids, Kickoff(i), ~DispatchesChild(i) PROVE PostsNone
<1>1. CASE \/ Parses(i) \/ Raises(i) \/ CancelSeen(i) \/ PrFound(i) \/ CountsAgain(i)
           \/ Merges(i) \/ HydratesFirst(i)
  BY <1>1, SamePostsNone DEF Parses, ParsePayload, Raises, CancelSeen, PrFound, CountsAgain, Merges,
                             HydratesFirst
<1>2. CASE Completes(i) \/ FailKickoff(i) \/ Drained(i) \/ Reports(i)
  BY <1>2, EndPostsNone DEF Completes, FailKickoff, Drained, Reports
<1>3. CASE Requeues(i)
  BY <1>3, CreatingPostsNone, NewKinds DEF Requeues
<1>4. CASE Clears(i) \/ Collects(i) \/ GivesUp(i) \/ TimesOut(i)
  BY <1>4, LeftPostsNone DEF Clears, ClearSlot, Collects, GivesUp, TimesOut, Released
<1> QED
  BY <1>1, <1>2, <1>3, <1>4 DEF Kickoff

LEMMA DoctorsPostsNone == ASSUME Shape, NEW i \in Ids, Doctors(i) PROVE PostsNone
<1>1. CASE \/ Starts(i) \/ Scans(i) \/ Patches(i) \/ Saves(i) \/ Watches(i) \/ Notes(i)
           \/ Spares(i) \/ AsksClaimed(i)
           \/ \E project \in Projects : Passes(i, project) \/ AsksPending(i, project)
  BY <1>1, SamePostsNone DEF Starts, Scans, Patches, Saves, Watches, Notes, Spares, AsksClaimed, Passes,
                             AsksPending, Thinks, Calls, daemonVars
<1>2. CASE Restarts(i)
  <2>1. Creating([NewTask("kickoff", at[i], 1) EXCEPT !.marked = TRUE])
    BY <1>2 DEF Restarts, Creating
  <2> QED
    BY <2>1, CreatingPostsNone, NewKinds
<1>3. CASE QueuesNext(i)
  BY <1>3, CreatingPostsNone, NewKinds DEF QueuesNext
<1>4. CASE Closes(i)
  BY <1>4, EndPostsNone, SamePostsNone DEF Closes
<1> QED
  BY <1>1, <1>2, <1>3, <1>4 DEF Doctors

LEMMA WorldPostsNone == ASSUME Shape, World PROVE PostsNone
<1>1. CASE \/ \E i \in Ids : HandlerDies(i)
           \/ Tick \/ PersonEdits \/ EditRegistry \/ PersonTakes
  BY <1>1, SamePostsNone DEF HandlerDies, Dies, Tick, PersonEdits, EditRegistry, PersonTakes, daemonVars
<1>2. ASSUME NEW i \in Ids, LeaseExpires(i) PROVE PostsNone
  <2>1. board[i] \in Task
    BY DEF Shape
  <2>2. [board[i] EXCEPT !.state = "pending"].kind = board[i].kind
    BY <2>1 DEF Task
  <2>3. \A j \in Ids : board'[j] = board[j] \/ (j = i /\ board'[j] = [board[i] EXCEPT !.state = "pending"])
    BY <1>2 DEF LeaseExpires, Shape
  <2> QED
    BY <2>2, <2>3 DEF PostsNone, Kind
<1>3. ASSUME NEW i \in Ids, PersonCancels(i) PROVE PostsNone
  BY <1>3, EndPostsNone DEF PersonCancels
<1>4. CASE Crash
  <2>1. \A j \in Ids : board'[j] \in {board[j], NoTask}
    BY <1>4 DEF Crash, DaemonCrash
  <2> QED
    BY <2>1, NoTaskType DEF PostsNone, Kind
<1>5. CASE PersonStartsDoctor
  <2>1. \A j \in Ids : board'[j] \in {board[j], NewTask("doctor", None, 0)}
    BY <1>5 DEF PersonStartsDoctor, Posted
  <2> QED
    BY <2>1, NewKinds DEF PostsNone, Kind
<1> QED
  BY <1>1, <1>2, <1>3, <1>4, <1>5 DEF World

\* All that is paid for has been counted, or the cap is reached.
Solvent ==
    /\ site.cap \in Nat /\ {price, counted, paid} \subseteq Nat
    /\ site.cap > 0 => counted <= site.cap /\ (counted = site.cap \/ paid <= counted)

LEMMA SolventStep ==
    ASSUME Solvent, [Next]_vars PROVE Solvent'
<1>1. site' = site
  BY SiteStays
<1>2. CASE UNCHANGED purse
  BY <1>1, <1>2 DEF Solvent, purse
<1>3. CASE Anew
  BY <1>1, <1>3 DEF Solvent, Anew
<1>4. CASE ChecksBudget
  <2>1. CASE UNCHANGED purse
    BY <1>2, <2>1
  <2>2. CASE /\ site.cap > 0 /\ price' \in Prices /\ paid' = paid + price'
             /\ counted' = Capped(counted + price')
    <3>1. price' \in Nat
      BY <2>2, BuilderAssumption
    <3> QED
      BY <1>1, <2>2, <3>1 DEF Solvent, Capped
  <2> QED
    BY <1>4, <2>1, <2>2 DEF ChecksBudget, Records
<1>5. ASSUME NEW i \in Ids, TicketMoves(i) PROVE Solvent'
  <2>1. CASE Parses(i) \/ Clears(i)
    BY <1>2, <1>3, <2>1 DEF Parses, Clears
  <2>2. CASE DispatchesChild(i) \/ PrFound(i) \/ Merges(i) \/ TimesOut(i)
    BY <1>2, <2>2 DEF DispatchesChild, PrFound, Merges, TimesOut
  <2>3. CASE CountsAgain(i)
    BY <1>1, <2>3 DEF CountsAgain, Capped, Solvent
  <2>4. CASE Collects(i) \/ GivesUp(i)
    BY <1>4, <2>4 DEF Collects, GivesUp
  <2> QED
    BY <1>5, <2>1, <2>2, <2>3, <2>4 DEF TicketMoves
<1>6. CASE LoopBuilds
  BY <1>2, <1>6 DEF LoopBuilds, GateHit, GatePassed, GatewayFails, Reply, Turn, Says
<1>7. CASE UNCHANGED vars \/ UNCHANGED builderVars \/ EditRegistry \/ PersonTakes
  BY <1>2, <1>7 DEF vars, builderVars, EditRegistry, PersonTakes
<1>8. CASE Crash
  BY <1>3, <1>8 DEF Crash
<1> QED
  BY <1>5, <1>6, <1>7, <1>8, BuilderSteps

\* Once the builders that were found completed have cost the cap, no other one is
\* dispatched (the budget tracker counts a builder in the poll that finds it), whatever
\* each of them costs or brings, whatever creates are lost or applied twice.
THEOREM BudgetStopsAlways == Spec => BudgetStops
<1>1. Init => Solvent
  BY DaemonAssumption DEF Init, DaemonInit, BuilderInit, Solvent, Site
<1>2. Solvent /\ [Next]_vars => Solvent'
  BY SolventStep
<1>3. ASSUME Shape, Solvent, Next, site.cap > 0,
             NEW i \in Ids, Kind(i) # "builder", Kind(i)' = "builder"
      PROVE  paid < site.cap
  <2>1. ~PostsNone
    BY <1>3 DEF PostsNone
  <2>2. \E k \in Ids : DispatchesChild(k)
    BY <1>3, <2>1, LoopPostsNone, KickoffPostsNone, DoctorsPostsNone, WorldPostsNone DEF Next
  <2>3. counted < site.cap
    BY <1>3, <2>2 DEF DispatchesChild, HardStop, Solvent
  <2> QED
    BY <1>3, <2>3 DEF Solvent
<1>4. Shape /\ Solvent /\ [Next]_vars
        => [site.cap > 0 /\ (\E i \in Ids : Kind(i) # "builder" /\ Kind(i)' = "builder")
              => paid < site.cap]_vars
  BY <1>3
<1> QED
  BY <1>1, <1>2, <1>4, ShapeHolds, PTL DEF Spec, BudgetStops
-----------------------------------------------------------------------------
(* The acceptance section.                                                 *)

\* Whatever a handler holds to write back was without the section when it was read.
Sectioned ==
    /\ body \in Body /\ body.sections <= 1
    /\ \A i \in Ids : copy[i] = NoCopy \/ (copy[i] \in Body /\ copy[i].sections = 0)
    /\ DOMAIN copy = Ids /\ edits \in Nat

LEMMA HydrationSteps ==
    ASSUME Next
    PROVE  \/ UNCHANGED hydrationVars
           \/ \E i \in Ids : Reads(i) \/ WritesBack(i) \/ ForgetsCopies({i})
           \/ PersonEdits \/ ForgetsCopies(Ids)
<1>1. CASE Loop
  BY <1>1 DEF Loop, Quiet, NoDoctor, Claims
<1>2. CASE World
  BY <1>2 DEF World, HandlerDies, Crash, PersonStartsDoctor, Quiet, NoDoctor
<1>3. ASSUME NEW i \in Ids, Kickoff(i) PROVE UNCHANGED hydrationVars \/ Reads(i) \/ WritesBack(i)
  BY <1>3 DEF Kickoff, Parses, HydratesFirst, Clears, Quiet, NoDoctor
<1>4. ASSUME NEW i \in Ids, Doctors(i) PROVE UNCHANGED hydrationVars \/ Reads(i) \/ WritesBack(i)
  BY <1>4 DEF Doctors, Starts, Scans, ScanFails, Patches
<1> QED
  BY <1>1, <1>2, <1>3, <1>4 DEF Next

LEMMA SectionedStep ==
    ASSUME Sectioned, [Next]_vars PROVE Sectioned'
<1>1. CASE UNCHANGED hydrationVars \/ UNCHANGED vars
  BY <1>1 DEF vars, hydrationVars, Sectioned
<1>2. ASSUME NEW i \in Ids, Reads(i) PROVE Sectioned'
  BY <1>2 DEF Reads, Candidate, Sectioned
<1>3. ASSUME NEW i \in Ids, WritesBack(i) PROVE Sectioned'
  <2>1. copy[i] \in Body /\ copy[i].sections = 0
    BY <1>3 DEF WritesBack, HoldsCopy, Sectioned
  <2>2. Hydrated(copy[i]) \in Body /\ Hydrated(copy[i]).sections = 1
    BY <2>1 DEF Hydrated, Body
  <2> QED
    BY <1>3, <2>2 DEF WritesBack, Sectioned
<1>4. CASE PersonEdits
  <2>1. body' \in Body /\ body'.sections = body.sections
    <3>1. edits + 1 \in 0..MaxEdits /\ body' = [body EXCEPT !.edit = edits + 1] /\ body \in Body
      BY <1>4, HydrationAssumption DEF PersonEdits, Sectioned
    <3> QED
      BY <3>1 DEF Body
  <2> QED
    BY <1>4, <2>1 DEF PersonEdits, Sectioned
<1>5. ASSUME NEW dead, ForgetsCopies(dead) PROVE Sectioned'
  BY <1>5 DEF ForgetsCopies, Sectioned
<1> QED
  BY <1>1, <1>2, <1>3, <1>4, <1>5, HydrationSteps

\* The section is in the body at most once (hydrate_apev.py, _hydrate_apev_pre_dispatch):
\* both writers write all of an old body, so none adds to what the other added.
THEOREM SectionOnceHolds == Spec => []SectionOnce
<1>1. Init => Sectioned
  BY HydrationAssumption DEF Init, HydrationInit, Sectioned, Body
<1>2. Sectioned /\ [Next]_vars => Sectioned'
  BY SectionedStep
<1>3. Sectioned => SectionOnce
  BY DEF Sectioned, SectionOnce
<1> QED
  BY <1>1, <1>2, <1>3, PTL DEF Spec
-----------------------------------------------------------------------------
(* The tool loop.                                                          *)

\* The counters of the loop say of its log what they are kept for: the streak is the
\* longest end of it that only fetches, args its addresses.
Streak(t) ==
    /\ t.log \in Seq(Turns) /\ t.args \in Seq(Turns)
    /\ t.same = Len(t.args) /\ t.same <= Len(t.log)
    /\ \A k \in 1..t.same : t.args[k] = t.log[Len(t.log) - t.same + k]
    /\ t.terminal <=> \E k \in 1..Len(t.log) : t.log[k] \in TerminalTools
    /\ ~t.terminal => /\ \A k \in 1..t.same : t.args[k] \in Fetches
                      /\ t.same < Len(t.log) => t.log[Len(t.log) - t.same] \notin Fetches
    /\ t.terminal => t.same = 0
IsTalk(t) == {"log", "same", "args", "terminal", "ending"} \subseteq DOMAIN t
Judged ==
    /\ IsTalk(talk) /\ talk.terminal \in BOOLEAN
    /\ Streak(talk) /\ AbortJustified
    /\ pc = "talk" => talk.ending = ""

\* An end of the log that only fetches is within the streak.
LEMMA StuckMeans ==
    ASSUME NEW t, Streak(t)
    PROVE  Stuck(t.log) <=> ~t.terminal /\ t.same >= LoopAfter /\ Repeats(t.args)
<1> DEFINE n == Len(t.log)
           s == t.same
           log == t.log
           args == t.args
<1>1. n \in Nat /\ s \in Nat /\ s <= n /\ DOMAIN log = 1..n /\ DOMAIN args = 1..s
  BY DEF Streak
<1>2. \A k \in 1..s : args[k] = log[n - s + k]
  BY DEF Streak
<1>3. ~t.terminal => (\A k \in 1..s : args[k] \in Fetches) /\ (s < n => log[n - s] \notin Fetches)
  BY DEF Streak
<1>4. t.terminal <=> \E k \in 1..n : log[k] \in TerminalTools
  BY DEF Streak
<1>5. LoopAfter \in Nat
  BY BuilderAssumption
<1>6. Stuck(log) <=>
          /\ \A k \in 1..n : log[k] \notin TerminalTools
          /\ \E first \in 1..n :
               /\ n - first + 1 >= LoopAfter
               /\ \A k \in first..n : log[k] \in Fetches
               /\ \E j, k \in first..n : j < k /\ log[j] = log[k]
  BY <1>1 DEF Stuck
<1>7. Repeats(args) <=> \E j, k \in 1..s : j < k /\ args[j] = args[k]
  BY <1>1 DEF Repeats
<1> HIDE DEF n, s, log, args
<1>8. ASSUME Stuck(log) PROVE ~t.terminal /\ s >= LoopAfter /\ Repeats(args)
  <2>1. ~t.terminal
    BY <1>4, <1>6, <1>8
  <2>2. PICK first \in 1..n :
          /\ n - first + 1 >= LoopAfter
          /\ \A k \in first..n : log[k] \in Fetches
          /\ \E j, k \in first..n : j < k /\ log[j] = log[k]
    BY <1>6, <1>8
  <2>3. first > n - s
    <3> SUFFICES ASSUME first <= n - s PROVE FALSE
      BY <1>1, <2>2
    <3>1. s < n /\ n - s \in first..n
      BY <1>1, <2>2
    <3> QED
      BY <1>3, <2>1, <2>2, <3>1
  <2>4. PICK j \in first..n, k \in first..n : j < k /\ log[j] = log[k]
    BY <2>2
  <2> DEFINE a == j - (n - s)
             b == k - (n - s)
  <2>5. /\ a \in 1..s /\ b \in 1..s /\ a < b
        /\ n - s + a = j /\ n - s + b = k
    BY <1>1, <2>2, <2>3, <2>4
  <2>6. args[a] = log[j] /\ args[b] = log[k]
    BY <1>2, <2>5
  <2>7. Repeats(args)
    BY <1>7, <2>4, <2>5, <2>6
  <2>8. s >= LoopAfter
    BY <1>1, <1>5, <2>2, <2>3
  <2> QED
    BY <2>1, <2>7, <2>8
<1>9. ASSUME ~t.terminal, s >= LoopAfter, Repeats(args) PROVE Stuck(log)
  <2> DEFINE first == n - s + 1
  <2>1. PICK a \in 1..s, b \in 1..s : a < b /\ args[a] = args[b]
    BY <1>7, <1>9
  <2> DEFINE j == n - s + a
             k == n - s + b
  <2>2. j \in first..n /\ k \in first..n /\ j < k
    BY <1>1, <2>1
  <2>3. log[j] = log[k]
    BY <1>2, <2>1
  <2>4. ASSUME NEW m \in first..n PROVE log[m] \in Fetches
    <3>1. m - (n - s) \in 1..s /\ n - s + (m - (n - s)) = m
      BY <1>1
    <3>2. args[m - (n - s)] = log[m]
      BY <1>2, <3>1
    <3> QED
      BY <1>3, <1>9, <3>1, <3>2
  <2>5. first \in 1..n /\ n - first + 1 >= LoopAfter
    BY <1>1, <1>5, <1>9, <2>1
  <2>6. \A m \in 1..n : log[m] \notin TerminalTools
    BY <1>4, <1>9
  <2> HIDE DEF first, j, k
  <2> QED
    BY <1>6, <2>2, <2>3, <2>4, <2>5, <2>6
<1> QED
  BY <1>8, <1>9 DEF s, log, args

LEMMA StreakNone ==
    ASSUME NEW t, t.log = <<>>, t.args = <<>>, t.same = 0, t.terminal = FALSE
    PROVE  Streak(t) /\ ~Stuck(t.log)
<1>1. Streak(t)
  BY DEF Streak
<1>2. ~Stuck(t.log)
  BY DEF Stuck
<1> QED
  BY <1>1, <1>2

LEMMA StreakOnly ==
    ASSUME NEW t, NEW u, Streak(t), u.log = t.log, u.args = t.args, u.same = t.same,
           u.terminal = t.terminal
    PROVE  Streak(u)
  BY DEF Streak

LEMMA TurnedFields ==
    ASSUME IsTalk(talk), talk.terminal \in BOOLEAN, NEW turn \in Turns
    PROVE  LET t == Turned(turn) IN
           /\ IsTalk(t) /\ t.terminal \in BOOLEAN
           /\ t.log = Append(talk.log, turn)
           /\ t.terminal = (talk.terminal \/ turn \in TerminalTools)
           /\ IF turn \in Fetches /\ ~t.terminal
              THEN t.same = talk.same + 1 /\ t.args = Append(talk.args, turn)
              ELSE t.same = 0 /\ t.args = <<>>
           /\ t.ending = (IF t.same >= LoopAfter /\ Repeats(t.args) THEN "aborted"
                          ELSE IF Len(t.log) = Cap THEN "truncated" ELSE "")
<1> DEFINE terminal == talk.terminal \/ turn \in TerminalTools
           ticks == turn \in Fetches /\ ~terminal
           same == IF ticks THEN talk.same + 1 ELSE 0
           args == IF ticks THEN Append(talk.args, turn) ELSE <<>>
           log == Append(talk.log, turn)
           ending == IF same >= LoopAfter /\ Repeats(args) THEN "aborted"
                     ELSE IF Len(log) = Cap THEN "truncated" ELSE ""
           t == Turned(turn)
<1>1. t = [talk EXCEPT !.log = log, !.terminal = terminal, !.same = same, !.args = args, !.ending = ending]
  BY DEF Turned
<1> HIDE DEF terminal, same, args, log, ending, t
<1>2. /\ t.log = log /\ t.terminal = terminal /\ t.same = same /\ t.args = args
      /\ t.ending = ending /\ IsTalk(t)
  BY <1>1 DEF IsTalk
<1> QED
  BY <1>2 DEF t, log, terminal, same, args, ending

LEMMA StreakGrows ==
    ASSUME Judged, NEW turn \in Turns
    PROVE  Streak(Turned(turn))
<1> DEFINE t == Turned(turn)
           n == Len(talk.log)
           s == talk.same
<1>1. /\ talk.log \in Seq(Turns) /\ talk.args \in Seq(Turns) /\ s = Len(talk.args) /\ s <= n
      /\ n \in Nat /\ s \in Nat
  <2>1. /\ talk.log \in Seq(Turns) /\ talk.args \in Seq(Turns)
        /\ talk.same = Len(talk.args) /\ talk.same <= Len(talk.log)
    BY DEF Judged, Streak
  <2> QED
    BY <2>1
<1> SUFFICES Streak(t)
  OBVIOUS
<1>2. /\ t.log = Append(talk.log, turn)
      /\ t.terminal = (talk.terminal \/ turn \in TerminalTools) /\ t.terminal \in BOOLEAN
      /\ IF turn \in Fetches /\ ~t.terminal
         THEN t.same = s + 1 /\ t.args = Append(talk.args, turn)
         ELSE t.same = 0 /\ t.args = <<>>
  BY TurnedFields DEF Judged
<1> HIDE DEF t
<1>3. t.log \in Seq(Turns) /\ Len(t.log) = n + 1 /\ t.log[n + 1] = turn
      /\ \A k \in 1..n : t.log[k] = talk.log[k]
  BY <1>1, <1>2
<1>4. t.terminal <=> \E k \in 1..n + 1 : t.log[k] \in TerminalTools
  <2>1. talk.terminal <=> \E k \in 1..n : talk.log[k] \in TerminalTools
    BY DEF Judged, Streak
  <2>2. (\E k \in 1..n + 1 : t.log[k] \in TerminalTools)
           <=> (\E k \in 1..n : t.log[k] \in TerminalTools) \/ t.log[n + 1] \in TerminalTools
    BY <1>1
  <2>3. (\E k \in 1..n : t.log[k] \in TerminalTools)
           <=> (\E k \in 1..n : talk.log[k] \in TerminalTools)
    BY <1>3
  <2> QED
    BY <1>2, <1>3, <2>1, <2>2, <2>3
<1>5. /\ \A k \in 1..s : talk.args[k] = talk.log[n - s + k]
      /\ ~talk.terminal => (\A k \in 1..s : talk.args[k] \in Fetches)
      /\ ~talk.terminal => (s < n => talk.log[n - s] \notin Fetches)
  BY DEF Judged, Streak
<1>6. n + 1 = Len(t.log)
  BY <1>3
<1> HIDE DEF n, s
<1>7. CASE turn \in Fetches /\ ~t.terminal
  <2>1. t.same = s + 1 /\ t.args \in Seq(Turns) /\ Len(t.args) = s + 1 /\ t.args[s + 1] = turn
        /\ \A k \in 1..s : t.args[k] = talk.args[k]
    <3>1. t.same = s + 1 /\ t.args = Append(talk.args, turn)
      BY <1>2, <1>7
    <3>2. talk.args \in Seq(Turns) /\ s = Len(talk.args) /\ turn \in Turns
      BY <1>1
    <3> QED
      BY <3>1, <3>2
  <2>2. ~talk.terminal
    BY <1>2, <1>7
  <2>3. /\ \A k \in 1..s : talk.args[k] = talk.log[n - s + k]
        /\ \A k \in 1..s : talk.args[k] \in Fetches
        /\ s < n => talk.log[n - s] \notin Fetches
    BY <1>5, <2>2
  <2>4. ASSUME NEW k \in 1..s + 1 PROVE t.args[k] = t.log[n + 1 - (s + 1) + k] /\ t.args[k] \in Fetches
    <3>1. CASE k \in 1..s
      <4>1. n - s + k \in 1..n /\ n + 1 - (s + 1) + k = n - s + k
        BY <1>1, <3>1
      <4>2. t.log[n - s + k] = talk.log[n - s + k]
        BY <1>3, <4>1
      <4> QED
        BY <2>1, <2>3, <3>1, <4>1, <4>2
    <3>2. CASE k = s + 1
      <4>1. n + 1 - (s + 1) + k = n + 1
        BY <1>1, <3>2
      <4> QED
        BY <1>3, <1>7, <2>1, <3>2, <4>1
    <3> QED
      BY <1>1, <3>1, <3>2
  <2>5. s + 1 < n + 1 => t.log[n + 1 - (s + 1)] \notin Fetches
    <3> SUFFICES ASSUME s < n PROVE t.log[n + 1 - (s + 1)] \notin Fetches
      BY <1>1
    <3>1. n + 1 - (s + 1) = n - s /\ n - s \in 1..n
      BY <1>1
    <3>2. t.log[n - s] = talk.log[n - s]
      BY <1>3, <3>1
    <3> QED
      BY <2>3, <3>1, <3>2
  <2>6. t.same <= n + 1 /\ t.same = Len(t.args)
    BY <1>1, <2>1
  <2>7. ASSUME NEW k \in 1..t.same
        PROVE  t.args[k] = t.log[Len(t.log) - t.same + k] /\ t.args[k] \in Fetches
    <3>1. k \in 1..s + 1 /\ Len(t.log) - t.same + k = n + 1 - (s + 1) + k
      <4>1. t.same = s + 1 /\ n \in Nat /\ s \in Nat /\ k \in 1..s + 1
        BY <1>1, <2>1
      <4> QED
        BY <1>6, <4>1
    <3> QED
      BY <2>4, <3>1
  <2>8. t.same < Len(t.log) => t.log[Len(t.log) - t.same] \notin Fetches
    BY <1>1, <1>6, <2>1, <2>5
  <2>9. t.terminal <=> \E k \in 1..Len(t.log) : t.log[k] \in TerminalTools
    BY <1>4, <1>6
  <2>10. t.same <= Len(t.log)
    BY <1>6, <2>6
  <2> QED
    BY <1>3, <1>7, <2>1, <2>6, <2>7, <2>8, <2>9, <2>10 DEF Streak
<1>8. CASE ~(turn \in Fetches /\ ~t.terminal)
  <2>1. t.same = 0 /\ t.args = <<>>
    BY <1>2, <1>8
  <2>2. ~t.terminal => t.log[n + 1 - 0] \notin Fetches
    BY <1>1, <1>3, <1>8
  <2>3. /\ t.args \in Seq(Turns) /\ t.same = Len(t.args) /\ t.same <= n + 1
        /\ \A k \in 1..t.same : t.args[k] = t.log[n + 1 - t.same + k] /\ t.args[k] \in Fetches
        /\ ~t.terminal => (t.same < n + 1 => t.log[n + 1 - t.same] \notin Fetches)
    BY <1>1, <2>1, <2>2
  <2> QED
    BY <1>3, <1>4, <1>6, <2>1, <2>3 DEF Streak
<1> QED
  BY <1>7, <1>8

\* The loop goes on, says something or starts anew; nothing else has to do with it.
LEMMA TalkSteps ==
    ASSUME Next
    PROVE  \/ talk' = talk /\ (pc' = "talk" => pc = "talk")
           \/ talk' = NoTalk /\ pc' # "talk"
           \/ \E pass, model, tagged : talk' = Talk(pass, model, tagged)
           \/ \E turn \in Turns : Turn(turn)
           \/ \E text \in Texts : Says(text)
<1>1. CASE Loop
  <2>1. CASE (Boot \/ Poll \/ Unhandled \/ RejectDuplicate \/ Spawn) /\ Quiet
    BY <2>1 DEF Boot, Poll, Unhandled, RejectDuplicate, Spawn, Quiet, builderVars
  <2>2. CASE \E i \in Ids : (PassOver(i) /\ Quiet) \/ Claims(i)
    BY <2>2 DEF PassOver, Quiet, Claims, Claim, NoBuilder, builderVars
  <2>3. CASE GateHit \/ Reply
    BY <2>3 DEF GateHit, Reply, LetGo
  <2>4. CASE GatePassed
    BY <2>4 DEF GatePassed
  <2>5. CASE GatewayFails
    BY <2>5 DEF GatewayFails, LetGo
  <2> QED
    BY <1>1, <2>1, <2>2, <2>3, <2>4, <2>5 DEF Loop
<1>2. CASE World
  <2>1. CASE \E i \in Ids : HandlerDies(i)
    BY <2>1 DEF HandlerDies, Dies, Off, loop, NoBuilder, builderVars
  <2>2. CASE (\E i \in Ids : LeaseExpires(i) \/ PersonCancels(i)) /\ Quiet
    BY <2>2 DEF LeaseExpires, PersonCancels, loop, Quiet, builderVars
  <2>3. CASE Crash
    BY <2>3 DEF Crash, DaemonCrash
  <2>4. CASE PersonStartsDoctor \/ (Tick /\ NoBuilder) \/ (PersonEdits /\ NoBuilder)
    BY <2>4 DEF PersonStartsDoctor, Tick, PersonEdits, daemonVars, loop, Quiet, NoBuilder, builderVars
  <2>5. CASE EditRegistry \/ PersonTakes
    BY <2>5 DEF EditRegistry, PersonTakes, loop
  <2> QED
    BY <1>2, <2>1, <2>2, <2>3, <2>4, <2>5 DEF World
<1>3. ASSUME NEW i \in Ids, Kickoff(i) PROVE talk' = talk /\ pc' = pc
  <2>1. CASE Parses(i) \/ Clears(i) \/ (HydratesFirst(i) /\ NoBuilder)
    BY <2>1 DEF Parses, ParsePayload, Clears, ClearSlot, HydratesFirst, Off, loop, NoBuilder, builderVars
  <2>2. CASE (Completes(i) \/ Raises(i) \/ Requeues(i) \/ CancelSeen(i) \/ FailKickoff(i)
              \/ Drained(i) \/ Reports(i)) /\ Quiet
    BY <2>2 DEF Completes, Raises, Requeues, CancelSeen, FailKickoff, Drained, Reports, Off, loop,
                Quiet, builderVars
  <2>3. CASE DispatchesChild(i) \/ PrFound(i) \/ Collects(i) \/ GivesUp(i) \/ TimesOut(i)
             \/ CountsAgain(i) \/ Merges(i)
    BY <2>3 DEF DispatchesChild, PrFound, Collects, GivesUp, TimesOut, CountsAgain, Merges,
                Released, Steady, loop
  <2> QED
    BY <1>3, <2>1, <2>2, <2>3 DEF Kickoff
<1>4. ASSUME NEW i \in Ids, Doctors(i) PROVE talk' = talk /\ pc' = pc
  <2> SUFFICES pc' = pc
    BY <1>4 DEF Doctors, NoBuilder, builderVars
  <2>1. CASE Starts(i) \/ Scans(i) \/ Patches(i) \/ Saves(i) \/ Watches(i) \/ Notes(i) \/ Restarts(i)
    BY <2>1 DEF Starts, Scans, Patches, Saves, Watches, Notes, Restarts, loop
  <2>2. CASE \E project \in Projects : Passes(i, project) \/ AsksPending(i, project)
    BY <2>2 DEF Passes, AsksPending, Thinks, Calls, daemonVars, loop
  <2>3. CASE AsksClaimed(i) \/ Spares(i) \/ QueuesNext(i) \/ Closes(i)
    BY <2>3 DEF AsksClaimed, Spares, QueuesNext, Closes, Thinks, Calls, daemonVars, loop
  <2> QED
    BY <1>4, <2>1, <2>2, <2>3 DEF Doctors
<1> QED
  BY <1>1, <1>2, <1>3, <1>4 DEF Next

LEMMA TalkFields ==
    /\ IsTalk(NoTalk) /\ NoTalk.log = <<>> /\ NoTalk.args = <<>> /\ NoTalk.same = 0
    /\ NoTalk.terminal = FALSE /\ NoTalk.ending = ""
    /\ \A pass, model, tagged : LET t == Talk(pass, model, tagged) IN
          /\ IsTalk(t) /\ t.log = <<>> /\ t.args = <<>> /\ t.same = 0
          /\ t.terminal = FALSE /\ t.ending = ""
  BY DEF NoTalk, Talk, IsTalk

LEMMA JudgedStep ==
    ASSUME Judged, [Next]_vars PROVE Judged'
<1>1. CASE talk' = talk /\ (pc' = "talk" => pc = "talk")
  BY <1>1 DEF Judged, AbortJustified
<1>2. ASSUME NEW t, talk' = t, IsTalk(t), t.log = <<>>, t.args = <<>>, t.same = 0,
             t.terminal = FALSE, t.ending = ""
      PROVE  Judged'
  <2>1. Streak(t) /\ ~Stuck(t.log)
    BY <1>2, StreakNone
  <2> QED
    BY <1>2, <2>1 DEF Judged, AbortJustified
<1>3. CASE talk' = NoTalk
  BY <1>2, <1>3, TalkFields
<1>4. ASSUME NEW pass, NEW model, NEW tagged, talk' = Talk(pass, model, tagged) PROVE Judged'
  BY <1>2, <1>4, TalkFields
<1>5. ASSUME NEW turn \in Turns, Turn(turn) PROVE Judged'
  <2> DEFINE t == Turned(turn)
  <2>1. talk' = t /\ (pc' = "talk" => t.ending = "")
    BY <1>5 DEF Turn
  <2>2. Streak(t) /\ IsTalk(t) /\ t.terminal \in BOOLEAN
    BY StreakGrows, TurnedFields DEF Judged
  <2>3. t.ending = "aborted" <=> t.same >= LoopAfter /\ Repeats(t.args)
    BY TurnedFields DEF Judged
  <2>4. t.terminal => t.same = 0
    BY <2>2 DEF Streak
  <2>5. t.ending = "aborted" <=> Stuck(t.log)
    BY <2>2, <2>3, <2>4, StuckMeans, BuilderAssumption
  <2> HIDE DEF t
  <2> QED
    BY <2>1, <2>2, <2>5 DEF Judged, AbortJustified
<1>6. ASSUME NEW text \in Texts, Says(text) PROVE Judged'
  <2>1. /\ talk' = [talk EXCEPT !.ending = text] /\ pc' = "reply" /\ talk.ending = ""
        /\ text # "aborted"
    BY <1>6 DEF Says, Texts, Judged
  <2>2. /\ IsTalk(talk') /\ talk'.log = talk.log /\ talk'.args = talk.args /\ talk'.same = talk.same
        /\ talk'.terminal = talk.terminal /\ talk'.ending = text
    BY <2>1 DEF Judged, IsTalk
  <2>3. Streak(talk)'
    BY <2>2, StreakOnly DEF Judged
  <2>4. ~Stuck(talk.log)
    BY <2>1 DEF Judged, AbortJustified
  <2> QED
    BY <2>1, <2>2, <2>3, <2>4 DEF Judged, AbortJustified
<1>7. CASE UNCHANGED vars
  BY <1>1, <1>7 DEF vars, daemonVars, loop, builderVars
<1> QED
  BY <1>1, <1>3, <1>4, <1>5, <1>6, <1>7, TalkSteps

\* The tool loop is broken off exactly when the model has done nothing but fetch for
\* long enough, came back to an address and never came near a pull request
\* (dispatch.py, _tool_loop), for any threshold, cap and order of turns.
THEOREM AbortJustifiedHolds == Spec => []AbortJustified
<1>1. Init => Judged
  <2> SUFFICES ASSUME Init PROVE Judged
    OBVIOUS
  <2>1. IsTalk(talk) /\ talk.log = <<>> /\ talk.args = <<>> /\ talk.same = 0 /\ talk.terminal = FALSE
        /\ talk.ending = "" /\ pc = "boot"
    BY TalkFields DEF Init, DaemonInit, BuilderInit
  <2> QED
    BY <2>1, StreakNone DEF Judged, AbortJustified
<1>2. Judged /\ [Next]_vars => Judged'
  BY JudgedStep
<1>3. Judged => AbortJustified
  BY DEF Judged
<1> QED
  BY <1>1, <1>2, <1>3, PTL DEF Spec
=============================================================================
