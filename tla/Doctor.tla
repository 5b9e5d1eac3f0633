------------------------------- MODULE Doctor -------------------------------
(***************************************************************************)
(* AlfredDoctorOrchestrator (doctor.py): one link of the surveillance      *)
(* chain for each mesh task, and three of the playbooks of a tick:         *)
(* hydrate_apev_headings, and restart_stalled_chains and the restart-loop  *)
(* detector, which keep state on disk.                                     *)
(*                                                                         *)
(*   scan -> patch -> survey -> claimed -> queue -> survey ...             *)
(*     -> watch -> note -> asleep -> awake -> close                        *)
(*                                                                         *)
(* Time is told in ticks of the doctor's interval, which is long against   *)
(* the work of a tick. An instant is kept as its age, as far back as the   *)
(* code can still tell: an attempt that has left the window is forgotten,  *)
(* and an age that is past its threshold grows no further.                 *)
(***************************************************************************)
EXTENDS Hydration, Sequences

CONSTANTS
    AttemptBudget, Window, Cooldown,  \* restarts of a project in a window, and
                                      \* the least time between two of them
    Freshness,       \* DEFAULT_HEARTBEAT_FRESHNESS_SEC
    LoopThreshold, LoopWindow,        \* restarts of a container in a window
    SickFor,         \* DEFAULT_UNHEALTHY_DURATION_SEC
    AlertCooldown,   \* DEFAULT_ALERT_COOLDOWN_SEC
    MaxCount         \* bound: restarts docker counts for a container

ASSUME DoctorAssumption ==
    /\ {AttemptBudget, Window, Cooldown, Freshness, LoopThreshold, LoopWindow,
        SickFor, AlertCooldown, MaxCount} \subseteq Nat \ {0}

Stages == {"none", "scan", "patch", "survey", "claimed", "queue", "watch", "note", "asleep", "awake", "close"}
Never == -1
NoHistory == [p \in Projects |-> {}]
\* The detector's state of its target.
Ledger == [samples : SUBSET ((0..LoopWindow) \X (0..MaxCount)),
           sick : {Never} \cup 0..SickFor, alerted : {Never} \cup 0..AlertCooldown]
NoLedger == [samples |-> {}, sick |-> Never, alerted |-> Never]

VARIABLES
    stage, todo, at, \* where each doctor is; projects still to survey; project
    memory, draft,   \* its copies of the restart history and of the ledger
    file,            \* restart_history.json: ages of the attempts of a project
    ledger,          \* restart_loop_state.json
    age,             \* how long ago each kickoff was claimed
    count, unhealthy,\* the container that is watched
    alert,           \* the alert of the tick under way
    \* What really happened: how many in the last n intervals.
    attempts,        \* restarts queued, of each project
    hasty,           \* of them, those queued too soon after another, ever
    restarts, rung   \* container restarts, alerts

work == <<stage, todo, at, memory, draft>>
disk == <<file, ledger>>
target == <<count, unhealthy>>
queued == <<attempts, hasty>>
doctorVars == <<work, disk, age, target, alert, queued, restarts, rung>>
-----------------------------------------------------------------------------
DoctorInit ==
    /\ stage = [i \in Ids |-> "none"] /\ todo = [i \in Ids |-> {}]
    /\ at = [i \in Ids |-> None]
    /\ memory = [i \in Ids |-> NoHistory] /\ draft = [i \in Ids |-> NoLedger]
    /\ file = NoHistory /\ ledger = NoLedger
    /\ age = [i \in Ids |-> 0] /\ count = 0 /\ unhealthy = FALSE /\ alert = "none"
    /\ attempts = [p \in Projects |-> [n \in 0..Window |-> 0]] /\ hasty = [p \in Projects |-> 0]
    /\ restarts = [n \in 0..LoopWindow |-> 0] /\ rung = [n \in 0..AlertCooldown - 1 |-> 0]

Stage(i, from, to) == /\ handler[i] = "running" /\ stage[i] = from
                      /\ stage' = [stage EXCEPT ![i] = to]
\* A step that reads and decides; one that only calls the mesh.
Thinks == UNCHANGED <<daemonVars, disk, age, target, alert, queued, restarts, rung>>
Calls == /\ UNCHANGED <<site, unlisted, loop, child, slot, reports>>
         /\ UNCHANGED <<disk, age, target, alert, queued, restarts, rung>>

\* The playbooks of a tick start. The first adds the acceptance sections.
Surveys(i) == /\ todo' = [todo EXCEPT ![i] = site.projects]
              /\ memory' = [memory EXCEPT ![i] = file]
              /\ UNCHANGED <<at, draft, disk, age, target, alert, queued, restarts, rung>>
Starts(i) ==
    /\ Kind(i) = "doctor" /\ Goes(i, "fresh", "running")
    /\ stage' = [stage EXCEPT ![i] = IF site.prose THEN "scan" ELSE "survey"]
    /\ IF site.prose
       THEN UNCHANGED <<todo, at, memory, draft, disk, age, target, alert, queued,
                        restarts, rung>>
       ELSE Surveys(i)
    /\ UNCHANGED <<site, unlisted, board, loop, child, slot, reports, faults, hydrationVars>>
Scans(i) ==
    /\ Stage(i, "scan", "patch") /\ (Reads(i) \/ ScanFails(i))
    /\ UNCHANGED <<site, unlisted, board, loop, child, slot, handler, reports, todo, at, memory, draft,
                   disk, age, target, alert, queued, restarts, rung>>
\* Then the next, with _load_history.
Patches(i) ==
    /\ Stage(i, "patch", "survey") /\ Surveys(i)
    /\ UNCHANGED <<site, unlisted, board, loop, child, slot, handler, reports>>
    /\ IF HoldsCopy(i) THEN WritesBack(i) ELSE UNCHANGED <<hydrationVars, faults>>

\* A project without backlog (_count_backlog_tickets), or one Linear says nothing
\* of, is left alone; and one with a chain: _chain_alive_for_project reads twice,
\* and a read that fails finds nothing.
Kickoffs(p, s) == {j \in Ids : Kind(j) = "kickoff" /\ board[j].project = p /\ State(j) = s}
Passes(i, p) ==
    /\ Stage(i, "survey", "survey") /\ p \in todo[i]
    /\ todo' = [todo EXCEPT ![i] = @ \ {p}] /\ UNCHANGED <<at, memory, draft>> /\ Thinks
AsksPending(i, p) ==
    /\ Stage(i, "survey", "claimed") /\ p \in todo[i]
    /\ todo' = [todo EXCEPT ![i] = @ \ {p}] /\ at' = [at EXCEPT ![i] = p]
    /\ IF Kickoffs(p, "pending") = {} THEN UNCHANGED faults ELSE Loses
    /\ UNCHANGED <<board, handler, memory, draft>> /\ Calls

\* Mutant: one restart more than the budget.
ForbiddenLate(i) == \/ Cardinality(memory[i][at[i]]) > AttemptBudget
                    \/ \E n \in memory[i][at[i]] : n < Cooldown

\* The budget is spent, or the last attempt is too recent.
Recent(i) == memory[i][at[i]]
Forbidden(i) == \/ Cardinality(Recent(i)) >= AttemptBudget
                \/ \E n \in Recent(i) : n < Cooldown
Running(i) == \E j \in Kickoffs(at[i], "claimed") : age[j] <= Freshness
Spares(i) ==
    /\ Stage(i, "claimed", "survey") /\ (Running(i) \/ Forbidden(i))
    /\ UNCHANGED <<todo, at, memory, draft>> /\ Thinks
AsksClaimed(i) ==
    /\ Stage(i, "claimed", "queue") /\ ~Forbidden(i)
    /\ IF Running(i) THEN Loses ELSE UNCHANGED faults
    /\ UNCHANGED <<board, handler, todo, at, memory, draft>> /\ Calls

OneMore(f) == [n \in DOMAIN f |-> f[n] + 1]

\* _queue_kickoff, with wave_retry_budget 2 in the code; an attempt is remembered
\* when the answer holds an id.
Restarts(i) ==
    LET task == [NewTask("kickoff", at[i], 1) EXCEPT !.marked = TRUE] IN
    /\ Stage(i, "queue", "survey")
    /\ \/ /\ \E id \in Ids : Created(task, id)
          /\ memory' = [memory EXCEPT ![i][at[i]] = @ \cup {0}]
       \/ Lost(task) /\ UNCHANGED memory
    /\ IF board' = board THEN UNCHANGED queued
       ELSE /\ attempts' = [attempts EXCEPT ![at[i]] = OneMore(@)]
            /\ hasty' = IF \E n \in 0..Window : n < Cooldown /\ attempts[at[i]][n] > 0
                        THEN [hasty EXCEPT ![at[i]] = @ + 1] ELSE hasty
    /\ UNCHANGED <<site, unlisted, loop, child, slot, handler, reports, todo, at, draft, disk, age,
                   target, alert, restarts, rung>>

\* _save_history.
Saves(i) ==
    /\ todo[i] = {} /\ Stage(i, "survey", IF site.watched THEN "watch" ELSE "asleep")
    /\ \/ file' = memory[i] /\ UNCHANGED faults
       \/ file # memory[i] /\ UNCHANGED file /\ Loses
    /\ memory' = [memory EXCEPT ![i] = NoHistory] /\ at' = [at EXCEPT ![i] = None]
    /\ UNCHANGED <<site, unlisted, board, loop, child, slot, handler, reports, todo, draft, ledger, age,
                   target, alert, queued, restarts, rung>>

\* detect_restart_loop and detect_unhealthy_duration of a probe taken now.
Sampled(l) == l.samples \cup {<<0, count>>}
\* Mutant: the counter is taken to only go up.
LoopingByRange(l) ==
    \E s, t \in Sampled(l) : s[2] - t[2] >= LoopThreshold
Looping(l) == \E s \in Sampled(l) : count - s[2] >= LoopThreshold
Sick(l) == unhealthy /\ l.sick # Never /\ l.sick >= SickFor
Probed(l) == [l EXCEPT !.samples = Sampled(l),
                       !.sick = IF ~unhealthy THEN Never ELSE IF @ = Never THEN 0 ELSE @]
\* Mutant: the cooldown ends one interval early.
CoolingShort(l) == l.alerted # Never /\ l.alerted + 1 < AlertCooldown
Cooling(l) == l.alerted # Never /\ l.alerted < AlertCooldown
Due(l) == (Looping(l) \/ Sick(l)) /\ ~Cooling(l)

\* _handle_one: nothing to probe; nothing to say; an alert Slack confirms; one it
\* does not confirm, posted or not.
Rings == /\ alert' = IF Looping(ledger) THEN "loop" ELSE "sick"
         /\ rung' = OneMore(rung)
Watches(i) ==
    /\ Stage(i, "watch", "note")
    /\ \/ /\ draft' = [draft EXCEPT ![i] = ledger] /\ UNCHANGED <<alert, rung, faults>>
       \/ /\ ~Due(ledger) /\ draft' = [draft EXCEPT ![i] = Probed(ledger)]
          /\ UNCHANGED <<alert, rung, faults>>
       \/ /\ Due(ledger) /\ Rings /\ UNCHANGED faults
          /\ draft' = [draft EXCEPT ![i] = [Probed(ledger) EXCEPT !.alerted = 0]]
       \/ /\ Due(ledger) /\ Loses
          /\ draft' = [draft EXCEPT ![i] = Probed(ledger)]
          /\ Rings \/ UNCHANGED <<alert, rung>>
    /\ UNCHANGED <<site, unlisted, board, loop, child, slot, handler, reports, todo, at, memory, disk,
                   age, target, queued, restarts>>

\* _save_state; then the digest is posted and the doctor sleeps.
Notes(i) ==
    /\ Stage(i, "note", "asleep")
    /\ \/ ledger' = draft[i] /\ UNCHANGED faults
       \/ ledger # draft[i] /\ UNCHANGED ledger /\ Loses
    /\ draft' = [draft EXCEPT ![i] = NoLedger] /\ alert' = "none"
    /\ UNCHANGED <<site, unlisted, board, loop, child, slot, handler, reports, todo, at, memory, file,
                   age, target, queued, restarts, rung>>

\* Mutant: the next doctor is not queued.
QueuesNone(i) ==
    /\ Stage(i, "awake", "close")
    /\ UNCHANGED <<board, faults, handler, todo, at, memory, draft>> /\ Calls

\* _queue_next_kickoff swallows a failure.
QueuesNext(i) ==
    /\ Stage(i, "awake", "close")
    /\ Creating(NewTask("doctor", None, 0))
    /\ UNCHANGED <<handler, todo, at, memory, draft>> /\ Calls

\* The last completion; run() fails the task if it is refused.
Closes(i) ==
    /\ Stage(i, "close", "none") /\ UNCHANGED <<todo, at, memory, draft>> /\ Calls
    /\ \/ /\ handler' = [handler EXCEPT ![i] = "done"] /\ UNCHANGED faults
          /\ Completed(i, "completed", "", "")
       \/ /\ handler' = [handler EXCEPT ![i] = "failing"] /\ Loses
          /\ UNCHANGED board
-----------------------------------------------------------------------------
Awake == {i \in Ids : Kind(i) = "doctor" /\ Live(i) /\ stage[i] # "asleep"}
Asleep == {i \in Ids : handler[i] = "running" /\ stage[i] = "asleep"}

\* The chain of doctors has ended.
Unattended == /\ \E i \in Ids : site.tasks[i].kind = "doctor"
              /\ \A i \in Ids : Kind(i) # "doctor"

Older(n, top) == IF n = Never \/ n = top THEN n ELSE n + 1
\* Mutant: attempts are remembered for good.
AgedForGood(ages, top) == {n + 1 : n \in ages}
Aged(ages, top) == {n + 1 : n \in {m \in ages : m < top}}
\* An interval later, with so many more in it.
Later(f, more) == [n \in DOMAIN f |-> IF n = 0 THEN 0 ELSE f[n - 1] + more]

\* What the container does in an interval, as docker counts it: it restarts some
\* times, is made anew before or not, and ends in health or not.
Container(n) ==
    /\ site.watched \/ n = 0
    /\ \/ count' = count + n /\ count' <= MaxCount
       \/ site.watched /\ count' = n
    /\ IF site.watched THEN unhealthy' \in BOOLEAN ELSE UNCHANGED unhealthy
    /\ restarts' = Later(restarts, n)

\* An interval goes by, while every doctor sleeps; the loop is between two polls.
Tick ==
    /\ Asleep # {} \/ Unattended
    /\ Awake = {} /\ cur = None /\ batch = {}
    /\ stage' = [i \in Ids |-> IF i \in Asleep THEN "awake" ELSE stage[i]]
    /\ file' = [p \in Projects |-> Aged(file[p], Window)]
    /\ ledger' = [samples |-> {<<s[1] + 1, s[2]>> : s \in {r \in ledger.samples : r[1] < LoopWindow}},
                  sick |-> Older(ledger.sick, SickFor),
                  alerted |-> Older(ledger.alerted, AlertCooldown)]
    /\ age' = [i \in Ids |-> IF Kind(i) = "kickoff" /\ State(i) = "claimed"
                             THEN Older(age[i], Freshness + 1) ELSE 0]
    /\ attempts' = [p \in Projects |-> Later(attempts[p], 0)]
    /\ \E n \in 0..MaxCount : Container(n)
    /\ rung' = Later(rung, 0)
    /\ UNCHANGED <<daemonVars, todo, at, memory, draft, alert, hasty>>

\* With the daemon, or with the handler, goes what its doctors had in memory; and
\* a history that was being written is empty.
Forgets(dead) ==
    /\ stage' = [i \in Ids |-> IF i \in dead THEN "none" ELSE stage[i]]
    /\ todo' = [i \in Ids |-> IF i \in dead THEN {} ELSE todo[i]]
    /\ at' = [i \in Ids |-> IF i \in dead THEN None ELSE at[i]]
    /\ memory' = [i \in Ids |-> IF i \in dead THEN NoHistory ELSE memory[i]]
    /\ draft' = [i \in Ids |-> IF i \in dead THEN NoLedger ELSE draft[i]]
    /\ alert' = IF \E i \in dead : stage[i] = "note" THEN "none" ELSE alert
    /\ \/ UNCHANGED file
       \/ (\E i \in dead : stage[i] = "survey" /\ todo[i] = {}) /\ file' = NoHistory
    /\ UNCHANGED <<ledger, target, queued, restarts, rung>>
=============================================================================
