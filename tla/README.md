# TLA+ specifications of alfred-coo-svc

This directory holds the formal model of the autonomous build service: TLA+
modules translated from the Python sources, TLC configurations that check them
on small instances, and theorems proved with TLAPS for every instance.
`PROJECT.json` maps every definition to the lines it models; the paths below are
relative to `src/src/alfred_coo/`.

## 1. The system

The daemon (`main.py`) polls the *mesh*, a task queue served by soul-svc. A task
titled `[persona:autonomous-build-a]` is a kickoff: the daemon spawns an
`AutonomousBuildOrchestrator` as a detached asyncio task. The orchestrator reads
the tickets of one Linear project, sorts them into waves, and for each wave runs
`_dispatch_wave`: it creates *builder* tasks on the mesh, polls them, hands their
pull requests to *review* tasks, merges approved PRs on GitHub, retries failures,
and stops when every ticket of the wave is terminal. The wave gate then decides
whether the next wave may start. State is checkpointed to soul memory once per
tick, and twice more in the middle of one, so that a restarted daemon can resume.

A builder or a review is a task on the same mesh: the daemon claims it in its poll
loop and runs the model's tool loop for it right there, while its orchestrators and its
*doctor* run beside the loop as asyncio tasks. The doctor is a chain of its own: every
five minutes one link runs the playbooks (add a missing acceptance section to an issue,
restart a project whose chain is dead, alert about a container that restarts) and queues
the next link on the mesh.

| Component | Source | State it keeps | Operations | What makes it correct |
|---|---|---|---|---|
| Wave dispatch loop | `autonomous_build/orchestrator.py` 4765-5580 | ticket graph, `_in_flight_dispatches`, drain and cancel flags, `_no_progress_since`, progress history | select ready, hold back, dispatch, coerce, force-pass, cancel exit | dependencies, limits, one builder per ticket, every wave ends |
| Child polling and retries | 6167-7434, 7626-7715 | child ids, retry counts, back-off and phantom timers | reconcile orphans, time out, classify completions, back off, phantom reset, model fallback | verdicts stand, retries bounded and paid for, ledger released |
| Review and merge | 7717-9126, 10910-11604 | review ids, review cycles, gate streak, `merged_pr_urls` | fire review, adopt review, verdict, fix round, merge | green means merged, no stale review, no review lost |
| Checkpoint and restore | `state.py`, 4518-4632 | `OrchestratorState` in soul memory | snapshot, checkpoint, restore, gate acks, wave passes | a restart resumes what was running |
| SS-08 gate | 9931-10097, `ss08_gate.py` | `ss08_acked`, soul record | ask in Slack, poll 4 h, persist | acknowledged once and for all |
| Kickoff run and wave gate | `_run_inner` 4008-4211, 9131-9738, 10198-10264 | wave-pass records, retry budget | skip, verify, wait, classify, halt, soft green, requeue, release | the next wave starts only on enough merged work; the chain of retries ends; release actions run once |
| Daemon poll loop | `main.py` 178-1098, `orphan_recovery.py` | running handlers by task and by project, mesh claims | poll, claim, spawn, reject, run a builder inline, complete, recover | one orchestrator per project, no task stranded without a lost call or a short list, the loop comes back |
| Mesh client | `mesh.py` 10-138 | none | list, claim, create, complete, with a retry on the next server | a task is created once, or the property says what a second one may do |
| Ticket graph | `graph.py` | `Ticket`, `TicketGraph` | hydrate from Linear, topological sort | no ticket before its blockers |
| Budget | `budget.py`, 9797-9866 | spend, warn and stop latches | record, check | no builder is dispatched once the cap is spent |
| Model registry | `model_registry.py` | cached file, strikes, rollback | load, pick, record timeout or success | a rollback stands until the file changes |
| Tool loop | `dispatch.py` 651-1256, `main.py` 830-1063 | messages, iteration count, streak | call, run tools, fall back, abort, truncate | a stuck model is cut off, one that works is not; a ticket's builders are bounded |
| Doctor | `doctor.py` | the link that runs, the next on the mesh | tick, queue the next, close | one chain, always |
| Playbooks | `playbooks/` | restart history and alert ledger on disk | hydrate, restart, detect and alert | restarts within budget and pause, alerts spaced and true, one section per issue |
| The rest | `tools.py`, guardrails, `cadence.py`, `persona*.py`, `fleet_endpoint/`, `benchmark/`, `agent_ingest/`, `auth/` | mostly none | HTTP and text | listed in `PROJECT.json` |

The hard behaviour is where the loop's bookkeeping meets a world that moves on its
own. Everything the wave loop decides rests on reads made at different awaits: the list of
tickets in flight is computed at the top of a tick and used at its end, the mesh lists
are read one after the other, GitHub answers are cached. Any call may fail after it
took effect. The daemon may die between two steps of a tick. Around it, one event loop
carries the poll loop, the orchestrators and the doctor, each of which reads shared
records (the mesh, the slots of the projects, two files, an issue on Linear) before an
await and acts on them after it. The hazards in `PROJECT.json` name the lines.

Three models share the system between them. `WaveLoop` is one wave from the inside.
`WaveRun` is one kickoff and its retries, with a wave seen from its gate. `Service` is the
daemon with everything that runs in it, with a kickoff seen from its asyncio task and a
ticket from its builders.

## 2. WaveLoop: one wave

`WaveLoop.tla` is the loop of `_dispatch_wave` with everything it calls. One tick is
cut at the awaits that read the outside world; `pc` is the place:

| `pc` | Code | Actions |
|---|---|---|
| top | cancel signal, orphan reconcile, `_select_ready` | `Top` |
| dispatch | the loop over the ready list | `HoldBack`, `Ss08Acked`, `Ss08Deferred`, `SkipHuman`, `SkipShipped`, `MergeInherited`, `AwaitInherited`, `RefuseDuplicate`, `DispatchChild`, `DispatchRaises`, `EndDispatch` |
| list, claimed | the head of `_poll_children` and its three mesh lists | `PollNothing`, `PollListFails`, `PollList`, `PollClaimed` |
| poll | the loop over children, then the retry sweep and the ledger's collection | `PollAbandon` ... `PollSilent`, `PollSweep` |
| reviews | `_poll_reviews` | `ReviewApproved` ... `ReviewSilent`, `ReviewsEnd` |
| snapshot | `_check_budget` with its checkpoint at the hard stop, `_snapshot_graph_into_state`, `checkpoint` | `HardStop`, `Snapshot` |
| tail | force-pass, all terminal, cancel, deadlock breaker | `ForcePass`, `Finish`, `CancelExit`, `Coerce`, `GoOn` |
| sleep | `asyncio.sleep` | `Sleep` |

State. `tk` is the `Ticket` dataclass of every node (its status, child, retry count,
timestamps and so on) together with the two things the state object keeps about a
ticket, `shown` (`state.ticket_status`) and `noted` (`state.dispatched_child_tasks`);
`ledger` is `_in_flight_dispatches`; `stopped` is the drain of the budget's hard stop;
`snap` is what `_snapshot_graph_into_state` last copied from the graph and `saved` the
checkpoint in soul memory. The two differ because only a part of the state object is
copied from the graph (4590-4632): statuses, children, PRs, counts and clocks are those
of `snap`, while review ids, merged URLs, the gate streak and the acknowledgement are
written at once. A checkpoint in the middle of a tick (`MidTick`: at the SS-08 gate,
9991-10072, and at the hard stop, 9861-9866) therefore has the reviews of now beside the
statuses of the last tick. `kids`,
`revs`, `gh` and `human` are the world: the builder and review tasks on the mesh in the
order of their creation, the state of the ticket's pull request, the labels on Linear.

The world moves by actions of its own (`KidClaimed`, `KidOpensPr`, `KidEnds`, `KidLost`,
`ReviewEnds`, `LabelHuman`), at the places where the loop is waiting for it. The steps at
the other places neither read nor write what these actions change, except through an id
they have just made, so a world step taken there commutes to an earlier or a later place.
Where the code makes a call, that call may also fail (`Fault`); a creation that fails may
have landed or not (`NoKidId`, `NoReviewId`), and so may a merge (`MergeUnacknowledged`).
`CrashAndResume` is the death of the daemon at any step followed by a restore, which reads
the labels anew: a label is seen by no run but the next, so those set before a crash are
as good as set during it (`LabelledMeanwhile`); `OrphansRecovered` is the boot-time
recovery of tasks it had claimed.

Abstractions.

- Time is counted in ticks: a timestamp is the number of sleeps since it was set, capped
  one past the limit it is compared with. The constants keep the order of the code's
  windows, and the checks below say where they depart from it.
- A GitHub lookup returns the truth or nothing (`Lookup`): searches fail, are cached for
  five minutes, and ignore old pull requests. `SkipShipped` stands for the merged-PR
  search and for the search of the main branch's log.
- A guardrail that refuses a merge and one that overrules an approval are choices.
- A crash is modelled once a snapshot of the graph has been checkpointed; before that, a
  restart is a fresh start (a checkpoint of the first tick's SS-08 gate has no statuses).
- Of the budget the wave sees the hard stop, which may come at any snapshot when
  `"budget"` is among the `Signals`; `Service` has what is spent.
- A failed child and one that completed without a PR end the same way in the loop, and
  are one outcome. Tasks that nothing can read any more are folded into `"over"`, which
  keeps the state space small and takes no behaviour away.
- The order within the ready list is kept only between critical and other tickets.

Bounds: `MaxFaults` calls that fail, `MaxCrashes` crashes, and the code's own limits
(`RetryBudget`, `MaxReviewCycles`, `ChainLen`, ...). Without faults nothing else needs
bounding: `BuildersBounded` is proved, not assumed. It counts the phantom clean-ups of a
ticket (`cleaned`), a field of the model only, which no guard reads and a restart resets.

Fairness is `WF_vars(Tick)`: asyncio keeps running the loop. No worker, reviewer or
person is assumed to answer, and no call is assumed to succeed for ever.

`Shipment.tla` is what a wave promises about its tickets, without builders, clocks,
ledgers or limits: a ruling (green, failed, closed) stands; only merged work is ruled
green, and a merge is for good; a ticket that has no task yet gets one only when all its
blockers are green. The wave notes its rulings in its books from time to time; a crash
takes the rulings back to the books it last kept, never anywhere else, brings no task back
that those rulings would not allow, and takes no merge back. `TicketContract` says that
`WaveLoop` implements it:

| `Shipment` | In `WaveLoop` |
|---|---|
| `ruling` | `RulingNow`: the status; what this poll has failed is still open until the sweep at its end has decided about the retry |
| `started` | the tickets with a builder or review id, held or noted (`Tasked`) |
| `merged` | the tickets whose PR is merged on GitHub (`Shipped`) |
| `books` | the same reading of `snap` (`Copied`) |
| `kept` | the same reading of the checkpoint in soul memory |
| `Works` | every other step of the loop and of the world; with `KeepsBooks`, the checkpoints in the middle of a tick (`Ss08Acked`, `Ss08Deferred`, `HardStop`), which keep the rulings of the books and the tasks of then or of now |
| `Notes` | `Snapshot`, whose checkpoint may fail |
| `Resumes` | `CrashAndResume` |

## 3. WaveRun: a kickoff and its retries

`WaveRun.tla` is the level above: `_run_inner` (4008-4211) of one kickoff, and the
chain of retry kickoffs it may put on the mesh. A wave is seen from the gate's side:
`WaveLoop` refines what happens inside, here only the moves of statuses remain.

| `pc` | Code | Actions |
|---|---|---|
| boot | `restore`, `_build_graph`, `_apply_restored_status`, `_sweep_stale_in_progress` | `Hydrate`, `HydrationFails` |
| enter | `_should_skip_wave`, `_verify_wave_hints`, `_mark_repo_missing_tickets` | `SkipWave`, `VerifyWave`; past the last wave, `Release` |
| dispatch | `_dispatch_wave` and its exits | `Progress`, `SkipHuman`, `HandOver`, `CancelSignal`, `TickSnapshot`, `LeaveWave` |
| gate | `_wait_for_wave_gate` until the wave is terminal, or coerced | `GateOpens`, `GateCoerces`, `GateWaits` |
| judge | the rest of `_wait_for_wave_gate` | `HaltCritical`, `HaltBelow`, `SoftGreen`, `AllGreen` |
| exit, requeue | the end of the wave; `_schedule_wave_retry_kickoff` | `WaveExit`, `Requeue` |
| complete, canceled, fail | the three ways to end a kickoff | `Close` |
| over | the daemon claims the retry | `NextKickoff`, `Over` |

State. `status` and `seen` are the graph (`Ticket.status`, `Ticket.linear_state`),
`labelled` the labels it was hydrated with, `drifted` the tickets
`_filter_out_of_scope_tickets` keeps from the dispatch, `hints` and `repoMissing` the
result of the hint verification, `snap` is `state.ticket_status`. `saved` and `passes`
are in soul memory; `linear` and `human` are Linear; `queue` holds the retry kickoffs on
the mesh, each by its remaining budget. `started`, `releases` and `descoped` (tickets a
person canceled) are history: no guard reads them.

Abstractions.

- PENDING stands for AWAITING_REVIEW, and in a ticket in scope for BLOCKED and
  BACKED_OFF; ACTIVE stands for the active statuses. A status moves as `WaveLoop`
  lets it, several ticks in one step at most.
- The threshold and the tickets that drift are chosen at first and stay for the chain:
  a retry carries the payload of the kickoff it repeats.
- Membership of the Linear project does not change while the chain runs.
- A lost completion call leaves a claimed task that boot recovery deals with; it belongs
  to the daemon (section 4), and so does a retry that is claimed before the run that
  queued it has left. Here `NextKickoff` starts when the previous run has ended.
- `MaxTrouble` bounds the moves of people, failed calls and crashes together. A snapshot
  or checkpoint that no crash is left to restore is not kept.

Fairness (`FairSpec`) is `WF_vars(Forward)`: the event loop goes on, the daemon polls the
mesh, and a wave's loop ends. The last is an assumption here and a question of
`WaveLoop`: `CancelEnds` and `BuildersTimeOut` show parts of it, `ShortHistory` shows
where it fails. No ticket is assumed to make progress.

## 4. Service: the daemon and what runs in it

`Service.tla` composes five modules. Each names only the variables it owns and those of
the module it extends; `Service` adds what the others keep (`Quiet`, `NoDoctor`, ...), and
so no action of a component is written twice.

| Module | Code | State |
|---|---|---|
| `Daemon` | `main.py` loop and spawn, `mesh.py`, `orphan_recovery.py`, `run()` of the orchestrator | `board` (the mesh), `pc`, `batch`, `cur` (the loop), `slot` (`_orchestrators_by_project`), `handler` (the asyncio tasks), `reports` (last completions of `_orch_done`), `child`, `unlisted` (the claimed tasks the list of the last boot did not name) |
| `Hydration` (extends `Daemon`) | `hydrate_apev.py`, `_hydrate_apev_pre_dispatch` | `body` of the issue, `copy` each writer holds |
| `Doctor` (extends `Hydration`) | `doctor.py`, `restart_stalled_chains.py`, the restart-loop detector | `stage` of each doctor, its copies `memory` and `draft`, the files `file` and `ledger`, ages |
| `Builder` (extends `Daemon`) | `main.py` 779-1063, `dispatch.py`, `_poll_children`, `model_registry.py`, `budget.py` | `talk` (the tool loop), `ticket`, the registry and its breaker, the purse: `price` of the last builder to complete, `counted` by the tracker, `paid` really |
| `Service` | all of it | the composition, the crash |
| `Exclusive` | what AB-09 promises | `owner` of each project |

The loop (`pc`) is boot, scan, held, talk, reply; each action ends at an await.

| Place | Code | Actions |
|---|---|---|
| boot | `recover_orphaned_tasks` | `Boot` |
| scan | `list_pending`, the persona and pre-claim guards, `claim` | `Poll`, `PassOver`, `Claim` |
| held | `_spawn_long_running_handler`, the gate on Linear | `Unhandled`, `RejectDuplicate`, `Spawn`, `GateHit`, `GatePassed` |
| talk | `_tool_loop` | `Turn`, `Says`, `GatewayFails` |
| reply | the contract check and the completion | `Reply` |
| a handler | `run`, the cancel signal, the done callbacks | `ParsePayload` ... `Drained`, `Dies`, `ClearSlot`, `Reports` |
| a ticket | `_dispatch_child`, `_poll_children`, `_check_budget`, the merge | `DispatchesChild` ... `Merges`, `CountsAgain` |
| a doctor | one tick, playbook by playbook | `Starts` ... `Closes` |
| the world | lease, people, docker, time, a restart | `LeaseExpires`, `PersonCancels`, `PersonTakes`, `PersonEdits`, `EditRegistry`, `Tick`, `DaemonCrash` |

A call may be applied, not applied, or applied with its answer lost; a create may also be
applied several times, because the client repeats the POST up to three times on every
server (`mesh.py` 16-39). At boot the recovery asks for claimed tasks once: it fails those
that one list names, and none when the call fails (`orphan_recovery.py` 43-50).

Abstractions.

- A builder is the sequence of its tool calls, each one of six kinds that the code tells
  apart (`Turns`); within a pass it does anything but fetch at most once. Its answer is
  what `_poll_children` reads in it. Timers are choices: `TimesOut` may come whenever the
  child has not ended.
- One ticket, without dependencies and without fix rounds (`WaveLoop` has both); its
  review is its merge. A builder that completes costs one of `Prices`, which is all that
  `_check_budget` sees of tokens and models; a child that reports none costs nothing.
- The iteration cap is one constant; the code takes it from the ticket's size. The model
  pinned by a kickoff's `model_routing` is not modelled.
- Time is told in ticks of the doctor's interval, and passes while the doctor sleeps and
  the loop is between two polls: the work of a tick is short against five minutes. The
  completion callbacks of a handler come before the next claim of the same task.
- The playbooks are enabled and not in dry-run. The dashboard playbook and the digest's
  scans read and report, and are left out.
- The restart playbook writes a retry budget of 2; the model's kickoffs carry 1.
- The mesh is this daemon's: no other one holds claims there, though a task may be theirs
  to claim. `ClaimedLimit` is the limit of the boot list.
- The failure the daemon reports after a failed gateway call is not lost, and nothing
  else raises out of a task's processing to the loop's own handler.
- Tasks that are over and that nobody here looks at are taken off the board.

Bounds: `site` is one of the situations in `MCService`, each with a limit on the faults in
it (calls that are lost; creates that are applied twice and claims that expire; anything
else that goes wrong); `Ids` places for tasks
(a create repeats itself only as far as there is place and fault left); `MaxEdits`,
`MaxCount`; the code's own limits are constants. Nothing else is bounded.

Fairness is `WF_vars(Loop \/ Callbacks)`: `main()` never returns, each of its calls has a
timeout, and asyncio runs the callbacks of a task that is done. No handler, no builder
and no person is assumed to do anything.

`Exclusive` is the abstract specification of the zombie guard: a project has one owner,
the next one comes when the last has left. `OneOwner` says that `Service` implements it,
with `owner` mapped to the live kickoff of the project.

## 5. What is checked

| Run | Question | Properties |
|---|---|---|
| `Retries` | one ticket, every path of retry, model fallback and fix round, a person who labels it, healthy infrastructure | `CoolingSurvivesGrace`, `NoStaleReview`, `BuildersBounded`, `CleanUpsOfFixRounds` |
| `Faults` | one failing call anywhere, on a ticket hydrated as new or with leftovers of an earlier run | `TypeOK`, `GreenIsMerged`, `RetryPaidByBuilder`, `AwaitedReviewExists`, `VerdictStands` |
| `Restarts` | two tickets, the second behind the first and the SS-08 gate, pull requests of earlier runs, a hard stop, one crash anywhere, a person who labels tickets while the daemon is down | `BuiltOnGreen`, `LedgerReleased`, `TicketContract`, `AckSurvivesRestart` |
| `Limits` | three tickets, two limits and a file collision | `DispatchWithinLimits` |
| `Ending` | a fair loop, a cancel signal, a fix round, workers that may never answer | `CancelEnds`, `BuildersTimeOut` |
| `KickoffChain` | two waves, a retry, one trouble anywhere | `TypeOK`, `LaterWavesWait`, `RetriesBounded`, `ReleasedOnce`, `EndsUnlessUnscoped` |
| `Service` | ten situations of the daemon, up to three faults each | `TypeOK`, `OneOrchestratorPerProject`, `OneOwner`, `StrandedOnlyByLostCalls`, `LoopReturns`, `DoctorChain`, `RestartsPaced`, `AlertsSpaced`, `LoopAlertsTrue`, `SectionOnce`, `AbortJustified`, `DispatchesBounded`, `BudgetStops`, `RollbackStands` |
| `MergeThenCrash` | refutes a docstring | `MergedNeverFailed` |
| `ShortHistory` | refutes a comment | `WaveEnds` |
| `FixRoundUntimed` | refutes a comment | `FixRoundsTimeOut` |
| `RetryExcuses` | refutes a comment | `CanceledByPeople` |
| `RestartRevives` | refutes a docstring | `RestartRevives` |

Bounds and why they are enough.

- Tickets. Nothing in the polling of a ticket reads another ticket, so one ticket shows
  every path of its life. Two tickets show dependencies and order among waves, three let
  the parallel, epic and file limits conflict pairwise.
- Windows. The code's windows in ticks of 45 s are 6.7 (back-off), 13.3 (hard timeout,
  phantom), 20 (deadlock grace), 40 (stuck child, stall) and a history of 20 samples.
  The runs keep what their properties can tell apart: `Retries` has the back-off
  shorter than the grace, the hard timeout shorter than the stuck-child window.
  `Faults` and `Restarts` give the history more room than the stall window needs, so
  that the force-pass can fire there at all: this models ticks slower than 95 s.
  `ShortHistory` has the code's order, history shorter than window.
- One crash, one failed call. A crash may fall at every step of the tick, after any
  prefix of the run; the windows the properties are about (between an effect and the
  checkpoint that records it, between a call and its answer) are opened by one.
  Two of them would have to be independent to show more than one.
- Checkpoints in the middle of a tick. In `Restarts` a review of an earlier run may be
  open for the ticket behind the gate and for the one before it, so that the gate and the
  hard stop store reviews the last snapshot has no word of, and a crash restores them.
- Retry budgets of 1 or 2 let a budget be spent, refused, and in `Retries` spent after a
  model fallback. `KickoffChain` has budget 1, so that the retry of a retry is refused.
- `Service` starts in one of ten sites: two kickoffs of one project beside somebody else's
  task (three faults); one beside a task that has no handler (two); a doctor that looks
  after a project with a long kickoff (none), after one without (one), after nothing
  (two), and over a container (one); a kickoff with a ticket (one), one that may be queued
  again (none), one with a budget of two (none), where a builder costs one or two, so that
  the cap is met or passed; a kickoff and a doctor on an issue without its section (one).
  Three places for tasks are enough for a handler, its successor and one that was created
  twice or belongs to somebody else; `PollLimit` 2 makes a page shorter than what is
  pending, `ClaimedLimit` 1 the list at boot shorter than what was claimed. A window of
  four ticks, a pause of two and a budget of two let both the pause and the budget refuse
  a restart. Three iterations with a threshold of two let a loop be cut off, truncated and
  spared.
- `EndsUnlessUnscoped`, `LoopReturns` and the two of `Ending` are checked without state
  constraints or symmetry.

Deadlock is checked in every run: a wave that is over and a chain that is over stutter by
an action of their own.

## 6. What is proved

`WaveLoopTypes.tla` and `WaveLoopProofs.tla` prove, for every set of tickets, every
dependency graph and every value of the limits, from `WaveAssumption` alone (the
constants have their types and the set of tickets is finite):

| Theorem | Says | Run that checks it on an instance |
|---|---|---|
| `ShapeAlways` | every variable and the checkpoint has its type | |
| `SafeAlways` | `SafeInv`, from which the others follow | |
| `TypeCorrect` | `TypeOK`: types, and each child or review id names a task that exists | `Faults` |
| `GreenMeansMerged` | `GreenIsMerged` | `Faults` |
| `BuildersStartOnGreen` | `BuiltOnGreen` | `Restarts` |

None of the three is inductive alone. A restart replaces the graph by the checkpoint, so
`SafeInv` demands of the checkpoint what it demands of the graph. A merged ticket may be
skipped because its URL is in `merged_pr_urls`, so that set must be right as well
(`MergedOnGitHub`). What a snapshot copied may be stored later with the reviews of then,
so the same is demanded of `snap`, and that a ticket which now has a task had its blockers
green there already (`OnSnapshot`). And between the top of a tick and the dispatch of the
last ready ticket, the list computed at the top must still describe tickets whose blockers
are merged (`TodoOpen`), which holds because nothing in the dispatch takes a green away.

The argument has three parts. `Shape`, by variable and by action, in `WaveLoopTypes`.
Then one predicate for what any step of the loop may do to a ticket (`Advances`): a green
stays green, a new green is a merge on GitHub, a new task means the blockers are merged,
ids are kept, cleared or new. Each action is shown once to advance every ticket. Then
the invariant follows from `Advances`, from the world's side (`Grown`: task lists only
grow; `GhKept`: a merge is never undone) and from what each kind of snapshot saves
(`SavedAfter`), without looking at the actions again.

`WaveLoopVerdicts.tla` goes on from there, and `WaveLoopCooling.tla` from it. Beside
`WaveAssumption` a theorem assumes what its third column says; where the column is empty,
it holds with any number of crashes and failed calls.

| Theorem | Says | Assuming | Run |
|---|---|---|---|
| `OrderAlways` | `OrderInv`, from which the others follow | its part about reviews: whole ticks | |
| `NoReviewOutlivesItsRound` | `NoStaleReview` | whole ticks | `Retries` |
| `VerdictsStand` | `VerdictStands` | | `Faults` |
| `LedgerLocksNobodyOut` | `LedgerReleased` | | `Restarts` |
| `DispatchKeepsLimits` | `DispatchWithinLimits` | | `Limits` |
| `RetriesPaid` | `RetryPaidByBuilder` | | `Faults` |
| `AwaitedReviewsExist` | `AwaitedReviewExists` | no ticket hydrated as AWAITING_REVIEW; no crash, or no hard stop | `Faults` |
| `AckSurvives` | `AckSurvivesRestart` | | `Restarts` |
| `ContractKept` | `TicketContract`: `WaveLoop` implements `Shipment` | | `Restarts` |
| `BuildersPaidFor` | `BuildersBounded` | no crash; the chain has a model | `Retries` |
| `CoolingKeptFromGrace` | `CoolingSurvivesGrace` | no crash; `0 < Grace`, `Backoff <= Grace`; no ticket hydrated as BACKED_OFF | `Retries` |

The assumptions are limits of the code, or of the question.

- Whole ticks (`Whole`): no crash, or neither an SS-08 ticket nor a hard stop, so that a
  restart only ever finds checkpoints written right after a snapshot. The two checkpoints in the
  middle of a tick keep a review beside a status of the tick before (section 7), and
  `NoStaleReview` is false after a restart from one. So is `AwaitedReviewExists` after one
  from the hard stop, which comes between the review poll and the snapshot; the SS-08 gate
  comes after a snapshot and before the next review poll, when whoever waited still waits
  for the same review (`WaitsStill`), and needs no assumption there.
- No crash: a restart gives the attempts of a ticket back (`tried`, which is not in the
  checkpoint), so that a run after a restart may build once more along the whole chain; and
  it restores a child id noted earlier, which the next poll takes for the builder of a
  ticket that is cooling down (section 7).
- An empty fallback chain is refused and replaced by the default (4380-4394).
- `build_ticket_graph` gives no ticket either of the two statuses
  (`graph.py`, `_linear_state_to_status`).
- The code's back-off is 5 minutes and its grace 15 (185-186); a kickoff may set both, and
  nothing compares them.

What a crash or a failed call costs is part of the property instead, where the code puts a
limit to it. A restart fills the ledger from the child ids it restores, so a waiting ticket
may be locked out for a tick, but only together with the child that makes the next poll
look at it and release it; it gives a ticket back the builder of at most one retry. A call
that fails leaves at most one ticket waiting for a review that was never made, and it
may be the call that was to record the acknowledgement. `TicketContract` says what a
restart from any of the checkpoints may bring back.

- `OrderInv` adds to `SafeInv` that a review belongs to a ticket that waits for it or that
  has its verdict (`Settled`, of the checkpoint as well; both where ticks are whole), and
  that the poll looks only at builders at work (`PollOpen`): a ticket the poll fails has no
  review that the retry could carry over. Each action's effect on its ticket is stated once
  (`DispatchOutcome`, `PollOutcome`, `ReviewOutcome`, `ListStays`, `CarvedOutcome`), and the
  other theorems use these.
- The limits are kept on the real statuses because the list of the tick's beginning holds
  every active ticket throughout the dispatch (`Counted`): nothing becomes active there
  but by joining it. `LedgerInv` is `LedgerReleased` at every place of the tick, not only
  at the top. A step that takes a child away takes the entry too, which is what keeps an
  entry and its child together after a restart.
- `RetriesPaid` counts the builder a ticket still holds (`Paid`), so that the retry that
  gives it up is already paid for; a phantom clean-up is no retry, which is why what the
  poll failed still holds its builder or is a phantom (`FreshHolds`). For the checkpoint only
  the retries are counted (`KeptPaid`), and the builder that a restore adds to them is
  the one for which the property allows a restart.
- `AwaitedReviewsExist` counts the tickets that wait for nothing, in the graph and in the
  checkpoint (`AwaitInv`); a step adds at most one, and then a call has failed. `AckSurvives`
  rests on the checkpoint holding what was acknowledged (`AckInv`).
- `ContractKept` takes the steps of `WaveLoop` by what they map to. A verdict stands
  because every action is one of a few moves of its ticket (`RulingTick`, from which
  `VerdictsStand` follows too); green is merged by `SafeInv`; a ticket that gets its first
  task has its blockers green by `Advances` (`TickWorks`). A snapshot notes what it reads
  because nothing is left unswept when it is taken (`SnapshotNotes`). A checkpoint in the
  middle of a tick keeps the rulings of the last snapshot; a review it adds belongs to a
  ticket that was ready or is past its builder, so its blockers were green already when
  the snapshot was taken (`StoresKeeps`).
- `BuildersPaidFor` keeps a bill for each ticket, its dispatches and its fix rounds. Every
  builder is on the bill, or was at work when the run began, or was made by a call that
  failed (`Billed`). The bill has limits of its own (`Thrifty`): a dispatch that is done or
  due is one of the chain, of a retry within the budget or of a clean-up, and the last
  timeout, which counts a retry the budget no longer has, buys none (`Spent`). A due
  dispatch has to be counted before it is made, because the ticket starts to wait in one
  step and gets its builder in another. Few steps move the bill or make a ticket wait; the
  others are `Lean`.
- `CoolingKeptFromGrace` compares two clocks. The grace runs only through ticks that were
  quiet, and in a quiet tick nothing can be failed and so nothing backs off (`QuietTick`):
  a back-off starts in a tick that clears the grace. So the grace is never ahead of
  a cooling ticket's clock (`GraceLater`), and a ticket whose clock has reached the
  back-off is awake when the detector looks (`StillCool`).

`WaveRunProofs.tla` does the same for `WaveRun`, from `RunAssumption`: any tickets, any
order of waves, any thresholds, any number of faults and crashes.

| Theorem | Says | Run |
|---|---|---|
| `TypesHold` | `TypeOK`, and `Placed`: the current wave is one of the order | `KickoffChain` |
| `ReleasedOnceHolds` | `ReleasedOnce` | `KickoffChain` |
| `LaterWavesWaitHolds` | `LaterWavesWait` | `KickoffChain` |
| `RetriesBoundedHolds` | `RetriesBounded` | `KickoffChain` |

`ReleasedOnce` needs `Released`: the releases so far and the kickoffs that may still
release, on the queue or under way, are at most one and one more for each crash. A retry
moves its place on the queue from the run that queued it, which is why the failure has to
be raised again afterwards (`AfterRequeue`). `LaterWavesWait` needs `Ordered`: it also
says that at the gate and after it the current wave itself has ended, and that a run
starts with the first wave. The one fact about the wave loop is that what has ended stays
ended (`Settles`). The drift set enters because both sides of a wave read the same one.
`RetriesBounded` needs the budgets of the queued kickoffs and not only their number. A sum
over the queue would be an induction, so they are counted as slips of paper (`SlipsOf`):
a kickoff of budget n holds n + 1, one for itself and one for each retry to come. Queuing
a retry turns the budget of the run into the slips of the retry, claiming one spends
a slip, and a crash, after which the same kickoff runs again, costs at most another budget
(`Afforded`).

`ServiceProofs.tla`, `BuilderProofs.tla` and `DoctorProofs.tla` are about `Service`, from
the assumptions of its components: any number of tasks, projects and faults, any site,
and any windows, pauses, thresholds and budgets.

| Theorem | Says | Run |
|---|---|---|
| `ShapeHolds` | `Shape`, the invariant the others stand on | |
| `OneOrchestratorPerProjectHolds` | `OneOrchestratorPerProject` | `Service` |
| `OneOwnerHolds` | `OneOwner`: `Service` implements `Exclusive` | `Service` |
| `DispatchesBoundedHolds` | `DispatchesBounded` | `Service` |
| `BudgetStopsAlways` | `BudgetStops` | `Service` |
| `RollbackStandsHolds` | `RollbackStands` | `Service` |
| `SectionOnceHolds` | `SectionOnce` | `Service` |
| `AbortJustifiedHolds` | `AbortJustified` | `Service` |
| `StrandedOnlyByLostCallsHolds` | `StrandedOnlyByLostCalls` | `Service` |
| `DoctorChainHolds` | `DoctorChain` | `Service` |
| `LoopAlertsTrueHolds` | `LoopAlertsTrue` | `Service` |
| `AlertsSpacedHolds` | `AlertsSpaced` | `Service` |
| `RestartsPacedHolds` | `RestartsPaced` | `Service` |
| `TypeOKHolds` | `TypeOK` | `Service` |

- The zombie guard is not inductive: two orchestrators could be started if a slot were
  free while one runs. `Shape` adds `SlotHeld` (whoever is under way is in the slot of its
  project), the types of the board, the handlers and the slots, and `Rooted` (a task that
  was taken off the board has no handler, and nothing runs before boot). Almost every step
  is `Calm`: it changes no slot, starts no handler, moves at most one and leaves kinds and
  projects alone. Three are not, the start of a handler, the callback that clears a slot
  and the crash, and they are treated one by one.
- The refinement uses the same classification. A calm step maps to a release or a
  stutter, a start to an acquisition, a crash to the release of everything.
- `DispatchesBounded` needs that a pending ticket has a dispatch left (`Bounded`);
  `BudgetStops` that what is paid is counted, until the count has reached the cap
  (`Solvent`), for a builder comes from nowhere but a dispatch that has looked at the
  count; `SectionOnce` that a copy held for writing was read without the section
  (`Sectioned`).
- `AbortJustified` compares counters with the log they abbreviate. `Judged` says what
  the counters mean: the streak is the longest end of the log that only fetches, its
  addresses are those of that end, and the flag is set once a call came near a pull request.
- `StrandedOnlyByLostCalls` counts more than the stranded: also the claimed tasks whose
  handler is done and will not report (`Owed`), of which one more step makes stranded ones.
  Every step owes nothing new, or one task for one lost call (`Pays`). Boot alone may owe
  many at once, and these are what its list did not name (`unlisted`).
- `DoctorChain` has two halves. The doctors that have not handed on are counted where they
  can be, waiting on the board, in the loop's hand and at work (`Links`); a hand-over, a
  claim and a start move one from one place to the next, and only a create that is applied
  again (any number of times) or a claim that expires adds one (`Chained`). Its other
  half, that the chain does not break while nothing goes wrong, needs that no handler dies
  or waits to report then, and that the doctors not yet done are exactly as many as the
  chains (`Unbroken`).
- The alerts and the restarts are claims about the past, so the model keeps what happened
  in each of the last intervals (`restarts`, `rung`, `attempts`, `hasty`) and the proofs
  relate the doctor's own books to that. `Truthful`: a sample of docker's counter in the
  ledger is no further below the present count than there were restarts since. `Spaced`:
  the books that count, the draft of a doctor that is writing or else the file, know of every
  alert of the cooldown but for one per fault (`Knows`). `Paced` says the same of the history
  of restarts (`Recalls`): a fault may make a history be lost, and a lost history is worth one
  budget of attempts and one restart without its pause, never more. `Booked` and `Archived`
  are the types of both.
- `TypeInv` collects the invariants above and the types of the variables none of them reads.

Only checked by TLC, on the instances of section 5:

- liveness, which is out of the prover's reach: `CancelEnds`, `BuildersTimeOut`,
  `EndsUnlessUnscoped`, `LoopReturns`;
- `CleanUpsOfFixRounds`, which is about the one ticket of `Retries`. With a second ticket
  to wait for it is false (section 7, the clock of the vanish check), and that a clock is
  young enough when it is read depends on every path on which a ticket can wait.

## 7. Findings and departures

Five statements of the repository about itself are refuted by a run; `PROJECT.json`
quotes them.

1. A daemon that dies between a merge and the checkpoint of the tick merges again on
   resume, is refused, and fails a merged ticket (8913; the docstring of `_merge_pr`
   says the re-merge is skipped).
2. The stalled-wave force-pass needs a sample 30 minutes old and the history keeps 15
   minutes (7256; the comment at 7244 says it is enough).
3. A builder's failure is mirrored to Linear as Canceled. The retry kickoff hydrates it
   so, excuses it, and passes the wave that failed (6648; the comment at 9536 says the
   bucket is not the orchestrator's fault).
4. The builder of a fix round is never stamped with a dispatch time, so the hard timeout
   cannot fire for it, and one that stays claimed is waited for for ever (9123; the
   comment at 6728 says the round starts with a fresh window). `BuildersTimeOut` is
   therefore about builders that have a clock. A cancelled wave waits for the one that has
   none as well (5223-5225) and need not end: `CancelEnds` assumes that no such builder
   works for ever.
5. The kickoff with which the restart playbook revives a project carries a key,
   `auto_restarted_by`, which the kickoff schema refuses, so every automatic restart
   fails at once (`playbooks/restart_stalled_chains.py:252`, `orchestrator.py` 4251-4252;
   the docstring at 245-247 promises three attempts per wave).

While modelling, TLC showed these formulas not to hold of the code. They are no
properties of the project; each marks a departure from what one would expect.

| Formula | Why it fails |
|---|---|
| `[][pc = "reviews" => \A t \in human : Len(kids'[t]) = Len(kids[t])]_vars` | labels are hydrated once; a fix round starts a builder on a ticket a person has taken (8163) |
| `[][pc = "poll" => \A t \in Tickets : tk[t].status = "BACKED_OFF" => tk'[t].status = "BACKED_OFF"]_vars` | a restored child id disturbs a ticket that is cooling (4539, 4609) |
| `pc = "reviews" => \A t \in Tickets : ~CarvesPhantom(tk[t])` | the result of the reconcile at the top of a tick is dropped (4827) |
| `[][\A t \in Tickets : PollPhantom(t) => tk[t].dispAge # 0]_vars` | the clock of the vanish check is only set by the snapshot: a ticket that was blocked or held back for over half an hour is dispatched, and failed as a phantom in the same tick, while its builder is queued and will run (6599, 4603; the comment at 6594 takes the clock for the time the status was entered) |
| one live builder per ticket; one builder per file | a respawn looks neither at the ledger nor at the collision check (8188, 9123) |
| a coerced ticket was neither ready nor in flight | the breaker uses lists of the tick's beginning (5263) |
| `tk[t].retries <= RetryBudget` | the hard timeout of the last attempt consumes a slot that is not there when the budget was spent before (6543) |
| `tk[t].status = "AWAITING_REVIEW" => tk[t].pr` | an adopted review brings no PR (11199) |
| every awaited review exists, though a call fails | the review id is cleared before the builder's creation is awaited (8183-8188); `AwaitedReviewExists` allows one such ticket for each failure |
| every awaited review exists, after a restart | the hard stop checkpoints inside `_check_budget` (9861-9866, called at 5181), before the graph is copied (5189): a review whose verdict was applied in this tick (8187, 8230, 8336) is gone from that checkpoint, and the ticket still waits in it. A daemon that dies there resumes a ticket which nothing polls |
| no waiting ticket carries a review, after a restart | the checkpoints of the SS-08 gate (9991-10072) and of the hard stop keep a review registered in this tick (7758, 11199) with the status of the last. The restored ticket is ready, is passed over at every dispatch while its PR is open, since a review is registered (11182), and is not polled, since it does not wait (7939-7945) |
| no waiting ticket has a ledger entry at the top of a tick after a crash | the restored ledger still names what the poll has yet to look at; `LedgerReleased` asks that the child be there for it |
| `RetryPaidByBuilder` without the restarts | a restored ticket holds the builder of its last retry again, and may fail it again (4539) |
| `<>[](pc = "over")` in `WaveRun` | the gate waits for ever for an out-of-scope ticket that is pending, active or backed off, and polls no cancel there (9254-9311; the comment at 9269-9272 counts on the wave loop) |
| a skipped wave is Done on Linear | a restored checkpoint hides that a person reopened a ticket (10251; comment 10244-10248) |
| a wave recorded as passed is all green | TRIAGE_NEEDED is neither failed nor green: with a threshold below 1 the wave is recorded as passed without failures (9484-9524) |
| a wave with excused tickets is skipped on its record | the reader asks for MERGED_GREEN of every ticket (10198-10264; comment 9500-9506 expects the cache to serve it) |

Reading and running the daemon gave these; the models follow the code.

| What one would expect | What the code does |
|---|---|
| a retry kickoff is claimed cleanly (4179-4182, 9175) | claimed while its parent is still in `_fail_kickoff`, it is rejected as a duplicate of the project and lost (4183-4195) |
| "previously queued next-kickoff is the heir" (`doctor.py` 387-388) | the next doctor is queued only after the sleep; a crash before leaves none until a person starts one |
| a live chain heartbeats (`main.py` 755-756) | the heartbeats are those of the session, none touches the task, and after 30 minutes the restart playbook takes it for dead; the zombie guard then refuses the restart |
| one restart history, one alert ledger | two chains of doctors, after a create that was applied twice, overwrite each other's; `RestartsPaced` and `AlertsSpaced` are about one chain |
| a claim that soul-svc gives up costs one task done again | on a doctor that has handed on but not yet closed, the task is pending again: after a restart it is claimed and starts a second chain that goes on for ever, so `DoctorChain` counts such a claim with the doubled creates |
| "can't be double-counted" (9804-9805) | a completed child is counted again at every poll while its ticket is open (6407-6467): the stop comes early |
| reviews land in the same tally as builders (5172-5177) | neither they nor failed builders are ever counted; a restart or a retry starts the tracker at 0 while the checkpoint has the sum (9821) |
| after the hard stop the wave completes, then the run halts (9844-9847) | a wave with ready tickets dispatches nothing more and never ends; fix rounds ignore the drain |
| a run costs no more than its cap | the sum is looked at after a builder has completed (`>=`, `budget.py:188`): up to `max_parallel_subs` builders are out by then and drain, fix rounds go on, and a model missing in the price table costs nothing; `BudgetStops` is about dispatches |
| boot recovers what the dead daemon held | one list of at most 100 tasks (`orphan_recovery.py` 43-50): when that call fails, none is recovered until the next boot, and what is not on the page stays claimed |
| a create is applied once, or twice | three attempts on every server (`mesh.py` 16-39), each of which may have been applied before its answer was lost |
| an edit of an issue is kept | both writers of the acceptance section write a whole body from an old copy: what a person wrote in between is lost |
| a rollback holds "regardless of `attempt_n`" (`model_registry.py` 381) | only attempt 0 asks the registry; later ones walk `builder_fallback_chain`, while `_pick_next_fallback_model` decides on the registry's chain |
| a broken-off tool loop costs no retry (7694-7697) | on a `[tag:code]` title the envelope check fails the task first (`main.py` 962-1016), and a retry is spent |
| a PR in the answer is the ticket's | `_extract_pr_url` reads the result of every tool call, so a PR that was only read is adopted |
| every pending task is looked at | ten pending tasks of other daemons fill the page, and nothing behind them is seen |
| `max_actions_per_tick` limits the restart playbook | nothing reads it there (276) |

The docstring of the gate (9239-9252) counts excused tickets in the denominator; the code
takes them out (9388-9389), and `Scored` follows the code.

## 8. Not modelled, and why

`PROJECT.json` lists every component. Left out for good: HTTP clients, text and diff
heuristics, prompt assembly, Slack posts, configuration, schemas and parsing
(`tools.py`, `soul.py`, the guardrails' rules, `persona*.py`, `kickoff_schema.py`,
`structured.py`, `artifacts.py`), and the offline benchmark: they keep no state whose order
matters. What they decide is a choice in the models, or what they may do to the world.

Left out of the components that are modelled:

- doctor: the digest's counts, the dashboard refresh and the dry-run mode, which read and
  report;
- tool loop: providers, their fallbacks for a refused call, token counts, the text of the
  calls; `main.py`'s persona prompts;
- registry: the benchmark pick, which bails out inside a running event loop, and the
  layout of the file; budget: the price table and the warning latch;
- mesh: authentication, paging beyond the first page, the heartbeat payloads;
- SS-08: what `run_ss08_gate` does on Slack before it answers (`WaveLoop` has the answer);
- the ticket graph's parsing and topological sort; the dry-run harness; the fleet
  endpoint's queue and reconcile; the Slack log handler's rate limit.

Three hazards in `PROJECT.json` (4827, 8163, 10251) are departures of section 7: the code
keeps no property there that could be stated as true.

## 9. Plan

Done: the wave loop and its contract as a refinement, the kickoff and its gate, the daemon
with its builders and doctor, their composition, the zombie guard as a refinement. Next, in
this order:

1. Forms of `BuildersPaidFor` and `CoolingKeptFromGrace` that say what one restart costs.
2. `WaveRun` shown to implement a contract like `Shipment` for a chain of kickoffs, where a
   person may reopen what was ruled on, and an abstract kickoff contract for `WaveRun` and
   `Daemon`: each kickoff ends in one of three ways, once.
3. `TopoSort`: `graph.py`'s sort and cycle report against a reference definition, over
   all graphs of three or four nodes.
4. `Ss08Gate` (Slack polling, ack memory) and `FleetQueue` (degraded mode).

Modules. Each of `WaveLoop`, `WaveRun` and `Service` has an `MC` module of constants and
its configurations. `WaveLoop` is mapped to `Shipment`, `Service` to `Exclusive`.
`WaveLoopProofs` extends `WaveLoopTypes`, which extends `WaveLoop`; `WaveLoopVerdicts` and
`WaveLoopCooling` extend it in turn; `WaveRunProofs` extends `WaveRun`; `DoctorProofs`
extends `BuilderProofs`, which extends `ServiceProofs`, which extends `Service`. The
kickoff of `Service` and that of `WaveRun` are kept apart on purpose: the daemon sees of a
kickoff only that it ends, raises, queues its retry or is cancelled, and a product of the
two state spaces would show nothing of either.
