------------------------------ MODULE Service -------------------------------
(***************************************************************************)
(* The daemon with its orchestrators, its doctor and its builders on one   *)
(* mesh. The loop, every handler and soul-svc interleave as they like: the *)
(* handlers are asyncio tasks of one process, and each await of theirs     *)
(* ends an action here. A builder runs in the loop itself, which serves    *)
(* nobody else meanwhile.                                                  *)
(***************************************************************************)
EXTENDS Doctor, Builder

vars == <<daemonVars, hydrationVars, doctorVars, builderVars>>

Init == DaemonInit /\ HydrationInit /\ DoctorInit /\ BuilderInit
-----------------------------------------------------------------------------
Quiet == UNCHANGED <<hydrationVars, doctorVars, builderVars>>
NoDoctor == UNCHANGED <<hydrationVars, doctorVars>>
NoBuilder == UNCHANGED builderVars
DoctorRest == UNCHANGED <<work, disk, target, alert, queued, restarts, rung>>

Claims(i) == /\ Claim(i) /\ age' = [age EXCEPT ![i] = 0]
             /\ DoctorRest /\ UNCHANGED hydrationVars /\ NoBuilder

\* One step of main()'s loop.
Loop ==
    \/ (Boot \/ Poll \/ Unhandled \/ RejectDuplicate \/ Spawn) /\ Quiet
    \/ \E i \in Ids : (PassOver(i) /\ Quiet) \/ Claims(i)
    \/ (GateHit \/ GatePassed \/ GatewayFails \/ Reply) /\ NoDoctor
    \/ \E turn \in Turns : Turn(turn) /\ NoDoctor
    \/ \E text \in Texts : Says(text) /\ NoDoctor

Anew == ticket' = NewTicket /\ price' = 0 /\ counted' = 0 /\ paid' = 0
\* A kickoff has the ticket as Linear has it, with nothing tried yet and nothing
\* spent.
Parses(i) ==
    /\ ParsePayload(i) /\ UNCHANGED doctorVars
    /\ IF handler'[i] = "running" THEN Reads(i) ELSE UNCHANGED hydrationVars
    /\ IF board[i].project \in site.tickets THEN Anew ELSE UNCHANGED <<ticket, purse>>
    /\ UNCHANGED <<talk, taken, breaker, opened>>
Clears(i) ==
    /\ ClearSlot(i) /\ NoDoctor
    /\ IF BuiltBy(i) THEN Anew ELSE UNCHANGED <<ticket, purse>>
    /\ UNCHANGED <<talk, taken, breaker, opened>>

\* One step of an orchestrator, of the done callbacks, or of a ticket.
Kickoff(i) ==
    \/ Parses(i)
    \/ HydratesFirst(i) /\ UNCHANGED doctorVars /\ NoBuilder
    \/ ((Builds(i) => Settled) /\ ~HoldsCopy(i) /\ Completes(i)) /\ Quiet
    \/ (Raises(i) \/ Requeues(i) \/ CancelSeen(i)) /\ ~HoldsCopy(i) /\ Quiet
    \/ (FailKickoff(i) \/ Drained(i)) /\ Quiet
    \/ Clears(i) \/ (Reports(i) /\ Quiet)
    \/ (DispatchesChild(i) \/ PrFound(i) \/ Collects(i) \/ GivesUp(i) \/ TimesOut(i)
          \/ CountsAgain(i) \/ Merges(i)) /\ ~HoldsCopy(i) /\ NoDoctor

Doctors(i) ==
    /\ NoBuilder
    /\ \/ Starts(i) \/ Scans(i) \/ Patches(i)
       \/ /\ UNCHANGED hydrationVars
          /\ \/ \E project \in Projects : Passes(i, project) \/ AsksPending(i, project)
             \/ AsksClaimed(i) \/ Spares(i) \/ Restarts(i) \/ Saves(i)
             \/ Watches(i) \/ Notes(i) \/ QueuesNext(i) \/ Closes(i)

HandlerDies(i) ==
    Dies(i) /\ Forgets({i}) /\ ForgetsCopies({i}) /\ UNCHANGED age /\ NoBuilder

\* A restart of the daemon, intended or not: everything in memory is gone.
Crash ==
    /\ DaemonCrash /\ Forgets(Ids) /\ ForgetsCopies(Ids) /\ UNCHANGED age
    /\ talk' = NoTalk /\ Anew
    /\ strikes' = 0 /\ rolled' = FALSE /\ cached' = FALSE
    /\ registry' = [registry EXCEPT !.changed = TRUE]
    /\ UNCHANGED <<taken, opened>>

\* A person starts the surveillance again when its chain has ended, which takes
\* something that went wrong.
PersonStartsDoctor ==
    /\ Unattended
    /\ \E ids \in SUBSET Ids : Fresh(ids, 1) /\ Posted(NewTask("doctor", None, 0), ids)
    /\ UNCHANGED <<site, unlisted, loop, child, slot, handler, reports, faults>> /\ Quiet

World ==
    \/ \E i \in Ids : HandlerDies(i)
    \/ (\E i \in Ids : LeaseExpires(i) \/ PersonCancels(i)) /\ Quiet
    \/ Crash \/ PersonStartsDoctor
    \/ Tick /\ UNCHANGED hydrationVars /\ NoBuilder
    \/ PersonEdits /\ UNCHANGED doctorVars /\ NoBuilder
    \/ (EditRegistry \/ PersonTakes) /\ NoDoctor

Next == Loop \/ World \/ \E i \in Ids : Kickoff(i) \/ Doctors(i)

\* main() never returns, and every call it makes has a timeout; the event loop runs
\* the callbacks of a task that is done.
Callbacks == \E i \in Ids : Clears(i)
Spec == Init /\ [][Next]_vars /\ WF_vars(Loop \/ Callbacks)
-----------------------------------------------------------------------------
TypeOK ==
    /\ site \in Sites /\ board \in [Ids -> Task]
    /\ pc \in {"boot", "scan", "held", "talk", "reply"}
    /\ batch \subseteq Ids /\ {cur, child} \subseteq Ids \cup {None}
    /\ slot \in [Projects -> Ids \cup {None}]
    /\ handler \in [Ids -> Handlers] /\ reports \subseteq Ids /\ unlisted \in Nat
    /\ faults \in [{"lost", "twice", "upset"} -> Nat]
    /\ stage \in [Ids -> Stages] /\ todo \in [Ids -> SUBSET Projects]
    /\ at \in [Ids -> Projects \cup {None}]
    /\ memory \in [Ids -> [Projects -> SUBSET (0..Window)]] /\ draft \in [Ids -> Ledger]
    /\ file \in [Projects -> SUBSET (0..Window)] /\ ledger \in Ledger
    /\ age \in [Ids -> 0..Freshness + 1] /\ count \in 0..MaxCount /\ unhealthy \in BOOLEAN
    /\ alert \in {"none", "loop", "sick"}
    /\ attempts \in [Projects -> [0..Window -> Nat]] /\ hasty \in [Projects -> Nat]
    /\ restarts \in [0..LoopWindow -> Nat] /\ rung \in [0..AlertCooldown - 1 -> Nat]
    /\ talk.log \in Seq(Turns) /\ talk.ending \in Endings
    /\ ticket.dispatches \in Nat /\ ticket.retries \in 0..RetryBudget
    /\ strikes \in 0..MaxStrikes /\ {taken, rolled, cached} \subseteq BOOLEAN
    /\ opened \in Nat /\ counted \in 0..site.cap /\ {price, paid} \subseteq Nat
    /\ body \in Body /\ edits \in 0..MaxEdits /\ copy \in [Ids -> Body \cup {NoCopy}]

Runs(project, i) == Tracked(i) /\ board[i].project = project

\* The zombie guard (main.py, AB-09): two kickoffs of one project never run
\* together, whatever leases expire, whichever is done but not yet cleared.
OneOrchestratorPerProject ==
    \A project \in Projects, i, j \in Ids : Runs(project, i) /\ Runs(project, j) => i = j

\* The same, as the promise it implements.
Owner(project) == IF \E i \in Ids : Runs(project, i)
                  THEN CHOOSE i \in Ids : Runs(project, i) ELSE None
Owners == [project \in Projects |-> Owner(project)]
Lock == INSTANCE Exclusive WITH Tasks <- Ids, Nobody <- None, owner <- Owners
OneOwner == Lock!Spec

\* A task that is claimed and that nobody works on stays so until the daemon
\* restarts; there are no more of them than calls that failed (the retries of
\* mesh.py, and the completions main.py makes on a best effort) and claimed tasks
\* that the one list of the last boot did not name: all of them if it failed.
Stranded == {i \in Ids : /\ State(i) = "claimed" /\ handler[i] = "off"
                         /\ i \notin reports \cup {cur}}
StrandedOnlyByLostCalls ==
    pc # "boot" => Cardinality(Stranded) <= faults.lost + unlisted

\* The loop comes back to the mesh again and again, whatever its handlers do and
\* whatever is pending: no task holds it for good, not even a builder, which main.py
\* runs inline.
LoopReturns == []<>(pc = "scan" /\ batch = {})

\* The surveillance is one chain (doctor.py), or as many as the daemon was started
\* with: of the doctors of a chain one has not yet handed on to its successor. There are
\* never more of those, but for tasks created twice and claims given up; and none less
\* while nothing goes wrong.
Chains == {i \in Ids : site.tasks[i].kind = "doctor"}
Heads == {i \in Ids : /\ Kind(i) = "doctor" /\ stage[i] # "close"
                      /\ \/ i = cur \/ handler[i] \in {"fresh", "running"}
                         \/ State(i) = "pending" /\ handler[i] = "off"}
DoctorChain ==
    /\ Cardinality(Heads) <= Cardinality(Chains) + faults.twice
    /\ Faults = 0 /\ (\A i \in Chains : site.tasks[i].state = "pending") =>
          Cardinality(Heads) = Cardinality(Chains)

\* While there is one chain, a project is restarted no more often than the budget
\* and the pause allow; the history on disk, which a doctor reads at its start and
\* writes at its end, loses count only of what a fault makes it lose.
OneChain == Cardinality(Chains) <= 1 /\ faults.twice = 0
RestartsPaced ==
    OneChain => \A project \in Projects :
        attempts[project][Window] <= AttemptBudget * (1 + Faults) /\ hasty[project] <= Faults

\* While there is one chain, a person is not alerted twice within the cooldown, except
\* for a ledger that was not saved or an answer of Slack that was lost.
AlertsSpaced == OneChain => rung[AlertCooldown - 1] <= 1 + Faults

\* An alert about a restart loop is about restarts that happened, within the
\* window: docker's counter starts again when the container is made anew.
LoopAlertsTrue == alert = "loop" => restarts[LoopWindow] >= LoopThreshold

\* The tool loop is broken off exactly when the model has done nothing but fetch
\* for long enough, came back to an address, and never came near a pull request.
Stuck(log) ==
    /\ \A k \in DOMAIN log : log[k] \notin TerminalTools
    /\ \E first \in DOMAIN log :
        /\ Len(log) - first + 1 >= LoopAfter
        /\ \A k \in first..Len(log) : log[k] \in Fetches
        /\ \E j, k \in first..Len(log) : j < k /\ log[j] = log[k]
AbortJustified == talk.ending = "aborted" <=> Stuck(talk.log)

\* The fallback chain and the retries together bound the builders of a ticket.
DispatchesBounded == ticket.dispatches <= MaxDispatches + RetryBudget - ticket.retries

\* Once the builders that the orchestrator has found completed have cost its cap, by
\* the tokens they report, it gives the ticket no other one, whatever the last ones
\* brought. What is out by then, and the fix rounds of reviews, may still take the bill
\* past the cap.
BudgetStops ==
    [][site.cap > 0 /\ (\E i \in Ids : Kind(i) # "builder" /\ Kind(i)' = "builder")
         => paid < site.cap]_vars

\* The acceptance section is in the body at most once, although two writers work
\* from copies that may be old and repeat themselves when an answer is lost.
SectionOnce == body.sections <= 1

\* A kickoff the doctor queues to revive a project is one the orchestrator can run
\* (restart_stalled_chains.py: "wave_retry_budget=2 gives the new chain three
\* attempts per wave before terminal failure").
RestartRevives == \A i \in Ids : board[i].marked => board[i].why # "payload"

\* A rollback to the baseline stands until the registry is edited or the daemon
\* restarts; a merge does not end it.
RollbackStands ==
    [][rolled /\ ~rolled' => (registry.file = "good" /\ registry.changed) \/ pc' = "boot"]_vars
=============================================================================
