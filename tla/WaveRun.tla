------------------------------ MODULE WaveRun -------------------------------
(***************************************************************************)
(* One kickoff of AutonomousBuildOrchestrator from hydration to its end,   *)
(* and the chain of retry kickoffs it may queue (orchestrator.py,          *)
(* _run_inner): each wave is skipped on a cached pass, or verified,        *)
(* dispatched and judged by the wave gate.                                 *)
(*                                                                         *)
(*   boot -> enter -> dispatch -> gate -> judge -> exit -> enter ...       *)
(*             |         |                  |                              *)
(*             |         +-> canceled       +-> requeue -> fail            *)
(*             +-> release -> complete                                     *)
(*                                                                         *)
(* WaveLoop models _dispatch_wave in detail; here a wave's tickets move as *)
(* that module lets them, without its timers and children.                 *)
(***************************************************************************)
EXTENDS Integers, FiniteSets, Sequences

CONSTANTS
    Tickets,
    Wave,            \* Ticket.wave of each ticket
    WaveOrder,       \* wave_order
    Critical,        \* tickets with is_critical_path
    Thresholds, Den, \* wave_green_ratio_threshold of a chain, in Den-ths
    WaveRetryBudget, \* wave_retry_budget of the first kickoff
    Start,           \* Linear states the tickets may be in at first
    Hints,           \* what the verification of a target hint may say
    Drifting,        \* tickets whose body may point outside the project's scope
    Signals,         \* subset of {"cancel"} that may occur
    MaxTrouble       \* bound: moves people make on Linear, calls to soul memory,
                     \* Linear or the mesh that fail, and crashes of the daemon

\* PENDING stands for AWAITING_REVIEW too, and for BLOCKED and BACKED_OFF in a
\* ticket in scope; ACTIVE for the five active statuses: nothing here tells them
\* apart.
Open == {"PENDING", "BLOCKED", "ACTIVE", "BACKED_OFF"}
Terminal == {"MERGED_GREEN", "FAILED", "ESCALATED", "ABANDONED", "TRIAGE_NEEDED"}
Status == Open \cup Terminal
\* "progress" is In Progress, In Review or Todo.
LinearState == {"backlog", "triage", "progress", "done", "canceled"}
\* "unfit" is PATH_CONFLICT, NEW_PATHS_COLLISION or NO_HINT.
HintStatus == {"fine", "repo_missing", "unfit", "unverified"}
\* A wave's fresh pass record: of ratio 1, or below.
Pass == {"none", "full", "partial"}
NoEntry == "none"
NoSnapshot == [t \in Tickets |-> NoEntry]
NoHints == [t \in Tickets |-> "unverified"]
Waves == {Wave[t] : t \in Tickets} \cup {WaveOrder[i] : i \in DOMAIN WaveOrder}

ASSUME RunAssumption ==
    /\ IsFiniteSet(Tickets) /\ Wave \in [Tickets -> Nat] /\ WaveOrder \in Seq(Nat)
    /\ Critical \subseteq Tickets /\ Drifting \subseteq Tickets
    /\ Thresholds \subseteq Nat /\ Den \in Nat \ {0}
    /\ WaveRetryBudget \in Nat
    /\ Start \subseteq LinearState /\ Hints \subseteq HintStatus
    /\ MaxTrouble \in Nat

VARIABLES
    pc, at,        \* where the run is; index of the current wave
    status,        \* Ticket.status
    seen,          \* Ticket.linear_state
    labelled,      \* tickets whose hydrated labels hold human-assigned
    drifted,       \* tickets _filter_out_of_scope_tickets drops
    hints,         \* _verified_hints
    repoMissing,   \* _repo_missing_tickets
    cancel,        \* _cancel_requested
    snap,          \* state.ticket_status
    threshold,     \* wave_green_ratio_threshold
    budget,        \* wave_retry_budget of this kickoff
    queue,         \* retry kickoffs waiting on the mesh: their budgets
    started,       \* kickoffs started so far
    releases,      \* times the on_all_green actions have run
    saved,         \* soul memory: this kickoff's last checkpoint of snap
    passes,        \* soul memory: each wave's fresh pass record, if any
    linear, human, \* Linear: issue states, human-assigned labels
    descoped,      \* tickets a person has canceled
    moves, faults, crashes

graph == <<status, seen>>
verified == <<hints, repoMissing>>
fixed == <<threshold, drifted>>
chain == <<fixed, budget, queue, started, releases>>
soul == <<saved, passes>>
world == <<linear, human, descoped, moves>>
vars == <<pc, at, graph, labelled, verified, cancel, snap, chain, soul, world,
          faults, crashes>>
-----------------------------------------------------------------------------
More == moves + faults + crashes < MaxTrouble
Fault == More /\ faults' = faults + 1

\* _snapshot_graph_into_state, and the best-effort checkpoint of the snapshot to
\* soul memory. What no crash is left to restore is not kept.
Snapshot == IF More THEN status ELSE NoSnapshot

Checkpointed == \/ saved' = snap' /\ UNCHANGED faults
                \/ UNCHANGED saved /\ Fault

Current == WaveOrder[at]
InWave(w) == {t \in Tickets : Wave[t] = w}
InScope(w) == InWave(w) \ drifted

\* _linear_state_to_status.
FromLinear(s) == CASE s = "done" -> "MERGED_GREEN" [] s = "canceled" -> "FAILED"
                   [] s = "progress" -> "ACTIVE" [] OTHER -> "PENDING"

\* What a kickoff has in memory before it hydrates, and after it has ended.
FreshMemory ==
    /\ at' = 1 /\ cancel' = FALSE /\ snap' = NoSnapshot
    /\ status' = [t \in Tickets |-> "PENDING"] /\ seen' = linear
    /\ labelled' = {} /\ hints' = NoHints /\ repoMissing' = {}

Init ==
    /\ pc = "boot" /\ at = 1 /\ cancel = FALSE /\ snap = NoSnapshot
    /\ linear \in [Tickets -> Start]
    /\ status = [t \in Tickets |-> "PENDING"] /\ seen = linear
    /\ labelled = {} /\ hints = NoHints /\ repoMissing = {}
    /\ drifted \in SUBSET Drifting
    /\ threshold \in Thresholds /\ budget = WaveRetryBudget
    /\ queue = <<>> /\ started = 1 /\ releases = 0
    /\ saved = NoSnapshot /\ passes = [w \in Waves |-> "none"]
    /\ human = {} /\ descoped = {t \in Tickets : linear[t] = "canceled"}
    /\ moves = 0 /\ faults = 0 /\ crashes = 0
-----------------------------------------------------------------------------
(* boot: restore, _build_graph, _apply_restored_status.                    *)

\* _sweep_stale_in_progress closes tickets whose PR turns out to be merged, on
\* Linear only.
StaleSweep ==
    \E S \in SUBSET {t \in Tickets : linear[t] = "progress"} :
        linear' = [t \in Tickets |-> IF t \in S THEN "done" ELSE linear[t]]

\* restore returns nothing when soul memory fails.
Hydrate ==
    /\ pc = "boot" /\ pc' = "enter"
    /\ \E found \in {saved, NoSnapshot} :
         /\ IF found = saved THEN UNCHANGED faults ELSE Fault
         /\ status' = [t \in Tickets |-> IF found[t] # NoEntry THEN found[t]
                                         ELSE FromLinear(linear[t])]
         /\ snap' = IF More THEN found ELSE NoSnapshot
    /\ saved' = IF More THEN saved ELSE NoSnapshot
    /\ seen' = linear /\ labelled' = human
    /\ StaleSweep
    /\ UNCHANGED <<at, verified, cancel, chain, passes, human, descoped, moves,
                   crashes>>

\* Linear does not answer: _build_graph raises.
HydrationFails ==
    /\ pc = "boot" /\ pc' = "fail" /\ Fault
    /\ UNCHANGED <<at, graph, labelled, verified, cancel, snap, chain, soul, world,
                   crashes>>
-----------------------------------------------------------------------------
(* enter: the wave-skip cache, then the hint verification.                 *)

Entering == pc = "enter" /\ at \in DOMAIN WaveOrder

\* Mutant: the live statuses are not looked at.
PassKnown(w) == passes[w] = "full"

\* _should_skip_wave.
ShouldSkip(w) ==
    /\ passes[w] = "full"
    /\ \A t \in InWave(w) : status[t] = "MERGED_GREEN"

SkipWave ==
    /\ Entering /\ ShouldSkip(Current)
    /\ at' = at + 1
    /\ snap' = snap /\ Checkpointed
    /\ UNCHANGED <<pc, graph, labelled, verified, cancel, chain, passes, world,
                   crashes>>

\* _verify_wave_hints, then _mark_repo_missing_tickets at the head of
\* _dispatch_wave. A crash of the verification leaves no hints at all.
VerifyWave ==
    /\ Entering
    /\ \/ ~ShouldSkip(Current) /\ UNCHANGED faults
       \/ ShouldSkip(Current) /\ Fault
    /\ \/ \E h \in [InWave(Current) -> Hints] :
            hints' = [t \in Tickets |-> IF t \in DOMAIN h THEN h[t] ELSE "unverified"]
       \/ hints' = NoHints
    /\ LET missing == {t \in InScope(Current) : hints'[t] = "repo_missing"} IN
         /\ repoMissing' = repoMissing \cup missing
         /\ status' = [t \in Tickets |-> IF t \in missing THEN "FAILED" ELSE status[t]]
    /\ pc' = IF InScope(Current) = {} THEN "gate" ELSE "dispatch"
    /\ UNCHANGED <<at, seen, labelled, cancel, snap, chain, soul, world, crashes>>
-----------------------------------------------------------------------------
(* dispatch: the wave loop, as far as the gate can tell.                   *)

\* The whole graph is polled and its blockers refreshed; only a ticket of the
\* wave in scope is dispatched.
NextStatus(t) ==
    LET polled == (Terminal \ {"ESCALATED", "ABANDONED"}) \cup {"PENDING"} IN
    CASE t \in InScope(Current) /\ status[t] = "PENDING" -> polled \cup {"ACTIVE"}
      [] status[t] = "ACTIVE" ->
             IF t \in drifted THEN polled \cup {"BACKED_OFF"} ELSE polled
      [] status[t] = "PENDING" /\ t \in drifted -> {"BLOCKED"}
      [] status[t] \in {"BLOCKED", "BACKED_OFF"} -> {"PENDING"}
      [] OTHER -> {}

\* The Linear states a move may be mirrored as: a child that failed leaves
\* "canceled".
Mirrored(t, s) ==
    CASE s = "MERGED_GREEN" -> {"done"}
      [] s = "FAILED" -> {"backlog", "canceled"}
      [] s = "TRIAGE_NEEDED" -> {"triage"}
      [] s = "ACTIVE" -> {"progress"}
      [] OTHER -> {linear[t]}

\* A ticket moves on within a tick; Linear follows, best effort.
Progress(t) ==
    /\ pc = "dispatch"
    /\ \E s \in NextStatus(t) \ {status[t]} :
         /\ status' = [status EXCEPT ![t] = s]
         /\ \/ \E l \in Mirrored(t, s) : linear' = [linear EXCEPT ![t] = l]
               /\ UNCHANGED faults
            \/ linear[t] \notin Mirrored(t, s) /\ UNCHANGED linear /\ Fault
    /\ UNCHANGED <<pc, at, seen, labelled, verified, cancel, snap, chain, soul, human,
                   descoped, moves, crashes>>

\* The dispatch gate leaves a human-assigned ticket alone.
SkipHuman(t) ==
    /\ pc = "dispatch" /\ t \in InScope(Current) \cap labelled /\ status[t] = "PENDING"
    /\ status' = [status EXCEPT ![t] = "ESCALATED"]
    /\ UNCHANGED <<pc, at, seen, labelled, verified, cancel, snap, chain, soul, world,
                   faults, crashes>>

\* Escalated or given up: moved to Backlog and labelled human-assigned, unless
\* Linear had the ticket idle when it was hydrated.
HandedOver(S, s) ==
    LET told == {t \in S : seen[t] \in {"progress", "triage"}} IN
    /\ status' = [t \in Tickets |-> IF t \in S THEN s ELSE status[t]]
    /\ seen' = [t \in Tickets |-> IF t \in told THEN "backlog" ELSE seen[t]]
    /\ \/ /\ linear' = [t \in Tickets |-> IF t \in told THEN "backlog" ELSE linear[t]]
          /\ human' = human \cup told
          /\ UNCHANGED faults
       \/ told # {} /\ UNCHANGED <<linear, human>> /\ Fault

HandOver(t) ==
    /\ pc = "dispatch" /\ t \in InScope(Current) /\ status[t] \in Open
    /\ \E s \in {"ESCALATED", "ABANDONED"} : HandedOver({t}, s)
    /\ UNCHANGED <<pc, at, labelled, verified, cancel, snap, chain, soul, descoped,
                   moves, crashes>>

\* The operator fails the kickoff on the mesh; _check_cancel_signal.
CancelSignal ==
    /\ pc = "dispatch" /\ "cancel" \in Signals /\ ~cancel
    /\ cancel' = TRUE
    /\ UNCHANGED <<pc, at, graph, labelled, verified, snap, chain, soul, world, faults,
                   crashes>>

\* _snapshot_graph_into_state and checkpoint at the end of a tick.
TickSnapshot ==
    /\ pc = "dispatch"
    /\ snap' = Snapshot /\ Checkpointed
    /\ UNCHANGED <<pc, at, graph, labelled, verified, cancel, chain, passes, world,
                   crashes>>

Unfinished == {t \in InScope(Current) : status[t] \in Open}
Flying == {t \in InWave(Current) : status[t] = "ACTIVE"}

AfterWave == IF cancel THEN "canceled" ELSE "gate"

\* _dispatch_wave returns once every ticket is terminal or a cancelled run has
\* drained, else fails what is left of a deadlock or hands over a stalled wave.
LeaveWave ==
    /\ pc = "dispatch" /\ pc' = AfterWave
    /\ snap' = Snapshot
    /\ \/ /\ Unfinished = {} \/ (cancel /\ Flying = {})
          /\ Checkpointed
          /\ UNCHANGED <<graph, linear, human>>
       \/ /\ Unfinished # {} /\ Flying = {}
          /\ status' = [t \in Tickets |-> IF t \in Unfinished THEN "FAILED"
                                          ELSE status[t]]
          /\ Checkpointed
          /\ UNCHANGED <<seen, linear, human>>
       \/ /\ Unfinished # {} /\ HandedOver(Unfinished, "ABANDONED")
          /\ saved' = snap'
    /\ UNCHANGED <<at, labelled, verified, cancel, chain, passes, descoped, moves,
                   crashes>>
-----------------------------------------------------------------------------
(* gate: _wait_for_wave_gate until the wave is terminal.                   *)

memory == <<at, labelled, verified, cancel, snap>>
outer == <<soul, world, crashes>>

AllTerminal == \A t \in InWave(Current) : status[t] \in Terminal
Blocked == {t \in InWave(Current) : status[t] = "BLOCKED"}

\* Mutant: nothing is coerced at the gate.
NeverStuck == FALSE

GateStuck == /\ Blocked # {}
             /\ \A t \in InWave(Current) : status[t] \notin {"ACTIVE", "BACKED_OFF"}

\* A wave without tickets has nothing to judge.
GateOpens ==
    /\ pc = "gate" /\ AllTerminal
    /\ pc' = IF InWave(Current) = {} THEN "exit" ELSE "judge"
    /\ UNCHANGED <<memory, graph, chain, outer, faults>>

\* After the grace period the blocked tickets are failed, and only they.
GateCoerces ==
    /\ pc = "gate" /\ GateStuck
    /\ status' = [t \in Tickets |-> IF t \in Blocked THEN "FAILED" ELSE status[t]]
    /\ pc' = "judge"
    /\ UNCHANGED <<memory, seen, chain, outer, faults>>

GateWaits == pc = "gate" /\ ~AllTerminal /\ ~GateStuck /\ UNCHANGED vars
-----------------------------------------------------------------------------
(* judge: the wave is classified.                                          *)

\* _is_wave_gate_excused.
Excused(t) ==
    \/ seen[t] = "canceled"
    \/ t \in labelled
    \/ hints[t] = "unfit"
    \/ status[t] = "ESCALATED"

Scored == {t \in InWave(Current) \ repoMissing : ~Excused(t)}
Failed == {t \in Scored : status[t] \in {"FAILED", "ABANDONED"}}
Green == {t \in Scored : status[t] = "MERGED_GREEN"}
\* green_ratio >= threshold; the ratio of an empty denominator is 1.
Passing == Cardinality(Green) * Den >= threshold * Cardinality(Scored)

Judging == pc = "judge" /\ UNCHANGED <<memory, graph, chain, saved, world, crashes>>

HaltCritical ==
    /\ Judging /\ Failed \cap Critical # {}
    /\ pc' = "fail"
    /\ UNCHANGED <<passes, faults>>

\* Mutant: the budget is not looked at.
RetriableAlways == Failed # {}

\* _is_retriable_wave_fail asks for a failure, _run_inner for budget left.
Retriable == Failed # {} /\ budget > 0

HaltBelow ==
    /\ Judging /\ Failed \cap Critical = {} /\ ~Passing
    /\ pc' = IF Retriable THEN "requeue" ELSE "fail"
    /\ UNCHANGED <<passes, faults>>

SoftGreen ==
    /\ Judging /\ Failed # {} /\ Failed \cap Critical = {} /\ Passing
    /\ pc' = "exit"
    /\ UNCHANGED <<passes, faults>>

\* record_wave_pass, best effort.
AllGreen ==
    /\ Judging /\ Failed = {} /\ Passing
    /\ \/ /\ passes' = [passes EXCEPT ![Current] =
                          IF Green = Scored THEN "full" ELSE "partial"]
          /\ UNCHANGED faults
       \/ UNCHANGED passes /\ Fault
    /\ pc' = "exit"
-----------------------------------------------------------------------------
(* exit, release, failure and the retry kickoff.                           *)

WaveExit ==
    /\ pc = "exit" /\ pc' = "enter" /\ at' = at + 1
    /\ snap' = snap /\ Checkpointed
    /\ UNCHANGED <<graph, labelled, verified, cancel, chain, passes, world, crashes>>

\* Mutant: the retry keeps the budget.
SameBudget == budget

RetryBudget == budget - 1

\* Mutant: the failure of the wave is not raised again.
WaveGoesOn == "exit"

AfterRequeue == "fail"

\* _schedule_wave_retry_kickoff: a create_task that raises may have reached the
\* mesh; either way the failure is raised again.
Requeue ==
    /\ pc = "requeue" /\ pc' = AfterRequeue
    /\ \/ queue' = Append(queue, RetryBudget) /\ UNCHANGED faults
       \/ queue' \in {queue, Append(queue, RetryBudget)} /\ Fault
    /\ UNCHANGED <<memory, graph, fixed, budget, started, releases, outer>>

\* All waves are through: _run_on_all_green_actions.
Release ==
    /\ pc = "enter" /\ at \notin DOMAIN WaveOrder /\ pc' = "complete"
    /\ releases' = releases + 1
    /\ UNCHANGED <<memory, graph, fixed, budget, queue, started, outer, faults>>

\* _complete_kickoff, _complete_kickoff_canceled or _fail_kickoff. What the
\* kickoff held in memory and in soul memory is never read again.
Close ==
    /\ pc \in {"complete", "canceled", "fail"} /\ pc' = "over"
    /\ FreshMemory /\ saved' = NoSnapshot
    /\ UNCHANGED <<chain, passes, world, faults, crashes>>

\* The daemon claims a queued kickoff, a task of its own without checkpoints.
NextKickoff ==
    /\ pc = "over" /\ pc' = "boot"
    /\ \E i \in DOMAIN queue :
         /\ budget' = queue[i]
         /\ queue' = [j \in 1 .. Len(queue) - 1 |-> queue[IF j < i THEN j ELSE j + 1]]
    /\ started' = started + 1
    /\ UNCHANGED <<memory, graph, fixed, releases, outer, faults>>

\* The daemon dies. At its next boot the kickoff is failed as an orphan, or
\* put back on the mesh and run again from its last checkpoint.
Crash ==
    /\ pc \notin {"boot", "over"} /\ pc' \in {"boot", "over"}
    /\ More /\ crashes' = crashes + 1
    /\ FreshMemory
    /\ UNCHANGED <<chain, soul, world, faults>>
-----------------------------------------------------------------------------
(* The people on Linear, and the age of the pass records. Only hydration    *)
(* and the wave loop's own writes can tell when they act.                   *)

WorldMoves ==
    /\ pc \in {"boot", "dispatch"} /\ More /\ moves' = moves + 1
    /\ UNCHANGED <<pc, memory, graph, chain, saved, faults, crashes>>

PersonMoves(t) ==
    /\ WorldMoves
    /\ \E s \in {"backlog", "done", "canceled"} \ {linear[t]} :
         /\ linear' = [linear EXCEPT ![t] = s]
         /\ descoped' = IF s = "canceled" THEN descoped \cup {t} ELSE descoped \ {t}
    /\ UNCHANGED <<human, passes>>

PersonLabels(t) ==
    /\ WorldMoves /\ t \notin human
    /\ human' = human \cup {t}
    /\ UNCHANGED <<linear, descoped, passes>>

\* is_wave_pass_fresh no longer holds of the record.
PassExpires(w) ==
    /\ WorldMoves /\ pc = "boot" /\ passes[w] # "none"
    /\ passes' = [passes EXCEPT ![w] = "none"]
    /\ UNCHANGED <<linear, human, descoped>>

Over == pc = "over" /\ queue = <<>> /\ UNCHANGED vars

Next ==
    \/ Hydrate \/ HydrationFails \/ SkipWave \/ VerifyWave
    \/ \E t \in Tickets : Progress(t) \/ SkipHuman(t) \/ HandOver(t)
    \/ CancelSignal \/ TickSnapshot \/ LeaveWave
    \/ GateOpens \/ GateCoerces \/ GateWaits
    \/ HaltCritical \/ HaltBelow \/ SoftGreen \/ AllGreen
    \/ WaveExit \/ Requeue \/ Release \/ Close \/ NextKickoff \/ Crash
    \/ \E t \in Tickets : PersonMoves(t) \/ PersonLabels(t)
    \/ \E w \in Waves : PassExpires(w)
    \/ Over

Spec == Init /\ [][Next]_vars

\* The run goes on, and WaveLoop's waves end; WaveLoop says when they do.
Forward == \/ Hydrate \/ SkipWave \/ VerifyWave \/ LeaveWave \/ GateOpens \/ GateCoerces
           \/ HaltCritical \/ HaltBelow \/ SoftGreen \/ AllGreen
           \/ WaveExit \/ Requeue \/ Release \/ Close \/ NextKickoff
FairSpec == Spec /\ WF_vars(Forward)
-----------------------------------------------------------------------------
Chained == <<started, releases, moves, faults, crashes>>

TypeOK ==
    /\ pc \in {"boot", "enter", "dispatch", "gate", "judge", "exit", "requeue", "fail",
               "complete", "canceled", "over"}
    /\ at \in 1 .. Len(WaveOrder) + 1
    /\ status \in [Tickets -> Status] /\ seen \in [Tickets -> LinearState]
    /\ labelled \subseteq Tickets /\ drifted \subseteq Drifting
    /\ hints \in [Tickets -> HintStatus] /\ repoMissing \subseteq Tickets
    /\ cancel \in BOOLEAN
    /\ snap \in [Tickets -> Status \cup {NoEntry}]
    /\ saved \in [Tickets -> Status \cup {NoEntry}]
    /\ threshold \in Thresholds /\ budget \in Nat /\ queue \in Seq(Nat)
    /\ passes \in [Waves -> Pass]
    /\ linear \in [Tickets -> LinearState]
    /\ human \subseteq Tickets /\ descoped \subseteq Tickets
    /\ Chained \in Nat \X Nat \X Nat \X Nat \X Nat

\* A wave is dispatched, judged or the run released only when every ticket in
\* scope of the waves before it has ended: whether they were judged, skipped on
\* a cached pass or restored (_run_inner, _should_skip_wave).
LaterWavesWait ==
    pc \in {"dispatch", "gate", "judge", "requeue", "exit", "complete"} =>
        \A i \in 1 .. at - 1 : \A t \in InScope(WaveOrder[i]) : status[t] \in Terminal

\* The chain of retry kickoffs is as long as the first kickoff's budget; a
\* crash can add one more branch of that length (wave_retry_budget).
RetriesBounded ==
    started + Len(queue) <= 1 + WaveRetryBudget * (1 + crashes)

\* A run that has queued its own retry never goes on to the on_all_green
\* actions: they run once, and once more for each crash.
ReleasedOnce == releases <= 1 + crashes

Hung == /\ pc = "gate"
        /\ \E t \in InWave(Current) \cap drifted :
               status[t] \in {"PENDING", "ACTIVE", "BACKED_OFF"}

\* The chain of kickoffs ends, unless the gate waits for a ticket that was
\* filtered out of the dispatch and cannot move.
EndsUnlessUnscoped == <>[](pc = "over") \/ <>[]Hung

\* The gate excuses a ticket as canceled only when a person canceled it
\* (_is_wave_gate_excused, axis 4).
CanceledByPeople ==
    pc = "judge" => \A t \in InWave(Current) : seen[t] = "canceled" => t \in descoped
=============================================================================
