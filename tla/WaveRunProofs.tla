--------------------------- MODULE WaveRunProofs ----------------------------
(***************************************************************************)
(* Proofs about WaveRun: its types, the order of the waves, how often the  *)
(* on_all_green actions may run, and how long the chain of retries is.     *)
(***************************************************************************)
EXTENDS WaveRun, TLAPS, FiniteSetTheorems

\* The steps before, in and after the wave loop.
Before == Hydrate \/ HydrationFails \/ SkipWave \/ VerifyWave
Within == \/ \E t \in Tickets : Progress(t) \/ SkipHuman(t) \/ HandOver(t)
          \/ CancelSignal \/ TickSnapshot \/ LeaveWave
After == \/ GateOpens \/ GateCoerces \/ GateWaits
         \/ HaltCritical \/ HaltBelow \/ SoftGreen \/ AllGreen
         \/ WaveExit \/ Requeue \/ Release \/ Close \/ NextKickoff \/ Crash
Outside == \/ \E t \in Tickets : PersonMoves(t) \/ PersonLabels(t)
           \/ \E w \in Waves : PassExpires(w)

\* A wave under way is one of the order, and one to be tried again has budget left.
Placed == /\ pc \in {"dispatch", "gate", "judge", "exit", "requeue"} => at \in DOMAIN WaveOrder
          /\ pc = "requeue" => budget > 0

LEMMA NextSteps == Next <=> Before \/ Within \/ After \/ Outside \/ Over
  BY DEF Next, Before, Within, After, Outside

LEMMA Fresh ==
    ASSUME TypeOK, FreshMemory
    PROVE  /\ at' \in 1 .. Len(WaveOrder) + 1 /\ cancel' \in BOOLEAN
           /\ snap' \in [Tickets -> Status \cup {NoEntry}]
           /\ status' \in [Tickets -> Status] /\ seen' \in [Tickets -> LinearState]
           /\ labelled' \subseteq Tickets /\ hints' \in [Tickets -> HintStatus]
           /\ repoMissing' \subseteq Tickets
<1>1. at' \in 1 .. Len(WaveOrder) + 1
  BY RunAssumption DEF FreshMemory
<1>2. status' \in [Tickets -> Status] /\ snap' \in [Tickets -> Status \cup {NoEntry}]
  BY DEF FreshMemory, NoSnapshot, Status, Open
<1>3. hints' \in [Tickets -> HintStatus]
  BY DEF FreshMemory, NoHints, HintStatus
<1> QED
  BY <1>1, <1>2, <1>3 DEF TypeOK, FreshMemory

LEMMA Counters ==
    ASSUME TypeOK
    PROVE  /\ started \in Nat /\ releases \in Nat /\ moves \in Nat
           /\ faults \in Nat /\ crashes \in Nat
<1>1. Chained \in Nat \X Nat \X Nat \X Nat \X Nat
  BY DEF TypeOK
<1> QED BY <1>1 DEF Chained

LEMMA Counted ==
    ASSUME started' \in Nat, releases' \in Nat, moves' \in Nat, faults' \in Nat, crashes' \in Nat
    PROVE  Chained' \in Nat \X Nat \X Nat \X Nat \X Nat
  BY DEF Chained

LEMMA Faulted ==
    ASSUME TypeOK, UNCHANGED faults \/ Fault PROVE faults' \in Nat
<1>1. faults \in Nat
  BY Counters
<1> QED BY <1>1 DEF Fault

LEMMA Onward ==
    ASSUME at \in DOMAIN WaveOrder PROVE at + 1 \in 1 .. Len(WaveOrder) + 1
<1>1. Len(WaveOrder) \in Nat /\ at \in 1 .. Len(WaveOrder)
  BY RunAssumption
<1> QED BY <1>1

LEMMA CheckpointType ==
    ASSUME TypeOK, snap' \in [Tickets -> Status \cup {NoEntry}], Checkpointed
    PROVE  /\ saved' \in [Tickets -> Status \cup {NoEntry}] /\ faults' \in Nat
<1>1. saved' \in {snap', saved} /\ (UNCHANGED faults \/ Fault)
  BY DEF Checkpointed
<1>2. faults' \in Nat
  BY <1>1, Faulted
<1> QED
  BY <1>1, <1>2 DEF TypeOK

LEMMA SnapshotType == ASSUME TypeOK PROVE Snapshot \in [Tickets -> Status \cup {NoEntry}]
  BY DEF TypeOK, Snapshot, NoSnapshot

LEMMA CurrentType ==
    ASSUME TypeOK, at \in DOMAIN WaveOrder PROVE Current \in Waves
  BY RunAssumption DEF Current, Waves
-----------------------------------------------------------------------------
LEMMA BeforeTypes ==
    ASSUME TypeOK, Before PROVE TypeOK'
<1> USE RunAssumption
<1>1. CASE Hydrate
  <2>1. PICK found \in {saved, NoSnapshot} :
          /\ IF found = saved THEN UNCHANGED faults ELSE Fault
          /\ status' = [t \in Tickets |-> IF found[t] # NoEntry THEN found[t] ELSE FromLinear(linear[t])]
          /\ snap' = IF More THEN found ELSE NoSnapshot
    BY <1>1 DEF Hydrate
  <2>2. found \in [Tickets -> Status \cup {NoEntry}] /\ NoSnapshot \in [Tickets -> Status \cup {NoEntry}]
    BY DEF TypeOK, NoSnapshot
  <2>3. \A s \in LinearState : FromLinear(s) \in Status
    BY DEF FromLinear, Status, Open, Terminal
  <2>4. status' \in [Tickets -> Status]
    BY <2>1, <2>2, <2>3 DEF TypeOK
  <2>5. linear' \in [Tickets -> LinearState]
    BY <1>1 DEF Hydrate, StaleSweep, TypeOK, LinearState
  <2>6. faults' \in Nat
    BY <2>1, Faulted
  <2>7. saved' \in [Tickets -> Status \cup {NoEntry}] /\ snap' \in [Tickets -> Status \cup {NoEntry}]
    BY <1>1, <2>1, <2>2 DEF Hydrate, TypeOK
  <2> QED
    BY <1>1, <2>4, <2>5, <2>6, <2>7
    DEF Hydrate, TypeOK, verified, chain, fixed, Chained
<1>2. CASE HydrationFails
  <2>1. faults' \in Nat
    BY <1>2, Faulted DEF HydrationFails
  <2>2. Chained' \in Nat \X Nat \X Nat \X Nat \X Nat
    BY <1>2, <2>1, Counters, Counted DEF HydrationFails, chain, world
  <2> QED
    BY <1>2, <2>2 DEF HydrationFails, TypeOK, graph, verified, chain, fixed, soul, world
<1>3. CASE SkipWave
  <2>1. saved' \in [Tickets -> Status \cup {NoEntry}] /\ faults' \in Nat
    BY <1>3, CheckpointType DEF SkipWave, TypeOK
  <2>2. at' \in 1 .. Len(WaveOrder) + 1
    BY <1>3, Onward DEF SkipWave, Entering
  <2> QED
    BY <1>3, <2>1, <2>2 DEF SkipWave, TypeOK, graph, verified, chain, fixed, world, Chained
<1>4. CASE VerifyWave
  <2>1. hints' \in [Tickets -> HintStatus]
    BY <1>4 DEF VerifyWave, NoHints, HintStatus
  <2>2. status' \in [Tickets -> Status] /\ repoMissing' \subseteq Tickets
    BY <1>4 DEF VerifyWave, TypeOK, InScope, InWave, Status, Terminal
  <2>3. faults' \in Nat
    BY <1>4, Faulted DEF VerifyWave
  <2> QED
    BY <1>4, <2>1, <2>2, <2>3 DEF VerifyWave, TypeOK, chain, fixed, soul, world, Chained
<1> QED
  BY <1>1, <1>2, <1>3, <1>4 DEF Before

LEMMA HandedTypes ==
    ASSUME TypeOK, NEW S \in SUBSET Tickets, NEW s \in Status, HandedOver(S, s)
    PROVE  /\ status' \in [Tickets -> Status] /\ seen' \in [Tickets -> LinearState]
           /\ linear' \in [Tickets -> LinearState] /\ human' \subseteq Tickets /\ faults' \in Nat
<1>1. faults' \in Nat
  BY Faulted DEF HandedOver
<1> QED
  BY <1>1 DEF HandedOver, TypeOK, LinearState

LEMMA WithinTypes ==
    ASSUME TypeOK, Within PROVE TypeOK'
<1> USE RunAssumption
<1>1. ASSUME NEW t \in Tickets, Progress(t) PROVE TypeOK'
  <2>1. NextStatus(t) \subseteq Status
    BY DEF NextStatus, Status, Open, Terminal
  <2>2. \A s : Mirrored(t, s) \subseteq LinearState
    BY DEF Mirrored, TypeOK, LinearState
  <2>3. PICK s \in NextStatus(t) :
          /\ status' = [status EXCEPT ![t] = s]
          /\ \/ \E l \in Mirrored(t, s) : linear' = [linear EXCEPT ![t] = l] /\ UNCHANGED faults
             \/ UNCHANGED linear /\ Fault
    BY <1>1 DEF Progress
  <2>4. status' \in [Tickets -> Status]
    BY <2>1, <2>3 DEF TypeOK
  <2>5. linear' \in [Tickets -> LinearState]
    <3>1. CASE linear' = linear
      BY <3>1 DEF TypeOK
    <3>2. ASSUME NEW l \in Mirrored(t, s), linear' = [linear EXCEPT ![t] = l]
          PROVE  linear' \in [Tickets -> LinearState]
      BY <2>2, <3>2 DEF TypeOK
    <3> QED
      BY <2>3, <3>1, <3>2
  <2>6. faults' \in Nat
    BY <2>3, Faulted
  <2> QED
    BY <1>1, <2>4, <2>5, <2>6 DEF Progress, TypeOK, verified, chain, fixed, soul, Chained
<1>2. ASSUME NEW t \in Tickets, SkipHuman(t) PROVE TypeOK'
  <2>1. status' \in [Tickets -> Status]
    BY <1>2 DEF SkipHuman, TypeOK, Status, Terminal
  <2> QED
    BY <1>2, <2>1 DEF SkipHuman, TypeOK, verified, chain, fixed, soul, world, Chained
<1>3. ASSUME NEW t \in Tickets, HandOver(t) PROVE TypeOK'
  <2>1. PICK s \in {"ESCALATED", "ABANDONED"} : HandedOver({t}, s)
    BY <1>3 DEF HandOver
  <2>2. s \in Status
    BY DEF Status, Terminal
  <2>3. /\ status' \in [Tickets -> Status] /\ seen' \in [Tickets -> LinearState]
        /\ linear' \in [Tickets -> LinearState] /\ human' \subseteq Tickets /\ faults' \in Nat
    BY <2>1, <2>2, HandedTypes
  <2> QED
    BY <1>3, <2>3 DEF HandOver, TypeOK, verified, chain, fixed, soul, Chained
<1>4. CASE CancelSignal
  BY <1>4 DEF CancelSignal, TypeOK, graph, verified, chain, fixed, soul, world, Chained
<1>5. CASE TickSnapshot
  <2>1. snap' \in [Tickets -> Status \cup {NoEntry}]
    BY <1>5, SnapshotType DEF TickSnapshot
  <2>2. saved' \in [Tickets -> Status \cup {NoEntry}] /\ faults' \in Nat
    BY <1>5, <2>1, CheckpointType DEF TickSnapshot
  <2> QED
    BY <1>5, <2>1, <2>2 DEF TickSnapshot, TypeOK, graph, verified, chain, fixed, world, Chained
<1>6. CASE LeaveWave
  <2>1. snap' \in [Tickets -> Status \cup {NoEntry}]
    BY <1>6, SnapshotType DEF LeaveWave
  <2>2. /\ pc' \in {"gate", "canceled"}
        /\ UNCHANGED <<at, labelled, verified, cancel, chain, passes, descoped, moves, crashes>>
    BY <1>6 DEF LeaveWave, AfterWave
  <2>3. Unfinished \subseteq Tickets /\ "ABANDONED" \in Status /\ "FAILED" \in Status
    BY DEF Unfinished, InScope, InWave, Status, Terminal
  <2>4. CASE Checkpointed /\ UNCHANGED <<graph, linear, human>>
    <3>1. saved' \in [Tickets -> Status \cup {NoEntry}] /\ faults' \in Nat
      BY <2>1, <2>4, CheckpointType
    <3> QED
      BY <2>1, <2>2, <2>4, <3>1 DEF TypeOK, graph, verified, chain, fixed, Chained
  <2>5. CASE /\ status' = [t \in Tickets |-> IF t \in Unfinished THEN "FAILED" ELSE status[t]]
             /\ Checkpointed /\ UNCHANGED <<seen, linear, human>>
    <3>1. saved' \in [Tickets -> Status \cup {NoEntry}] /\ faults' \in Nat
      BY <2>1, <2>5, CheckpointType
    <3>2. status' \in [Tickets -> Status]
      BY <2>3, <2>5 DEF TypeOK
    <3> QED
      BY <2>1, <2>2, <2>5, <3>1, <3>2 DEF TypeOK, verified, chain, fixed, Chained
  <2>6. CASE HandedOver(Unfinished, "ABANDONED") /\ saved' = snap'
    <3>1. /\ status' \in [Tickets -> Status] /\ seen' \in [Tickets -> LinearState]
          /\ linear' \in [Tickets -> LinearState] /\ human' \subseteq Tickets /\ faults' \in Nat
      BY <2>3, <2>6, HandedTypes
    <3> QED
      BY <2>1, <2>2, <2>6, <3>1 DEF TypeOK, verified, chain, fixed, Chained
  <2> QED
    BY <1>6, <2>4, <2>5, <2>6 DEF LeaveWave
<1> QED
  BY <1>1, <1>2, <1>3, <1>4, <1>5, <1>6 DEF Within

LEMMA OutsideTypes ==
    ASSUME TypeOK, Outside PROVE TypeOK'
<1>1. ASSUME NEW t \in Tickets, PersonMoves(t) PROVE TypeOK'
  <2>1. PICK s \in {"backlog", "done", "canceled"} :
          /\ linear' = [linear EXCEPT ![t] = s]
          /\ descoped' = IF s = "canceled" THEN descoped \cup {t} ELSE descoped \ {t}
    BY <1>1 DEF PersonMoves
  <2>2. linear' \in [Tickets -> LinearState] /\ descoped' \subseteq Tickets
    BY <2>1 DEF TypeOK, LinearState
  <2> QED
    BY <1>1, <2>2 DEF PersonMoves, WorldMoves, TypeOK, memory, verified, graph, chain, fixed, Chained
<1>2. ASSUME NEW t \in Tickets, PersonLabels(t) PROVE TypeOK'
  BY <1>2 DEF PersonLabels, WorldMoves, TypeOK, memory, verified, graph, chain, fixed, Chained
<1>3. ASSUME NEW w \in Waves, PassExpires(w) PROVE TypeOK'
  <2>1. passes' \in [Waves -> Pass]
    BY <1>3 DEF PassExpires, TypeOK, Pass
  <2> QED
    BY <1>3, <2>1 DEF PassExpires, WorldMoves, TypeOK, memory, verified, graph, chain, fixed, Chained
<1> QED
  BY <1>1, <1>2, <1>3 DEF Outside

LEMMA AfterTypes ==
    ASSUME TypeOK, Placed, After PROVE TypeOK'
<1> USE RunAssumption
<1>1. CASE GateOpens \/ GateWaits
  BY <1>1 DEF GateOpens, GateWaits, vars, TypeOK, memory, verified, graph, chain, fixed, outer, soul,
              world, Chained
<1>2. CASE GateCoerces
  <2>1. status' \in [Tickets -> Status]
    BY <1>2 DEF GateCoerces, TypeOK, Status, Terminal
  <2> QED
    BY <1>2, <2>1 DEF GateCoerces, TypeOK, memory, verified, chain, fixed, outer, soul, world, Chained
<1>3. CASE HaltCritical \/ HaltBelow \/ SoftGreen
  BY <1>3 DEF HaltCritical, HaltBelow, SoftGreen, Judging, TypeOK, memory, verified, graph, chain,
              fixed, world, Chained
<1>4. CASE AllGreen
  <2>1. passes' \in [Waves -> Pass]
    BY <1>4 DEF AllGreen, TypeOK, Pass
  <2>2. faults' \in Nat
    BY <1>4, Faulted DEF AllGreen
  <2> QED
    BY <1>4, <2>1, <2>2 DEF AllGreen, Judging, TypeOK, memory, verified, graph, chain, fixed, world, Chained
<1>5. CASE WaveExit
  <2>1. saved' \in [Tickets -> Status \cup {NoEntry}] /\ faults' \in Nat
    <3>1. snap' \in [Tickets -> Status \cup {NoEntry}] /\ Checkpointed
      BY <1>5 DEF WaveExit, TypeOK
    <3> QED
      BY <3>1, CheckpointType
  <2>2. at' \in 1 .. Len(WaveOrder) + 1
    BY <1>5, Onward DEF WaveExit, Placed
  <2> QED
    BY <1>5, <2>1, <2>2 DEF WaveExit, TypeOK, graph, verified, chain, fixed, world, Chained
<1>6. CASE Requeue
  <2>1. RetryBudget \in Nat
    BY <1>6 DEF RetryBudget, Requeue, Placed, TypeOK
  <2>2. Append(queue, RetryBudget) \in Seq(Nat)
    BY <2>1 DEF TypeOK
  <2>3. queue' \in Seq(Nat)
    BY <1>6, <2>2 DEF Requeue, TypeOK
  <2>4. faults' \in Nat /\ pc' = "fail"
    BY <1>6, Faulted DEF Requeue, AfterRequeue
  <2> QED
    BY <1>6, <2>3, <2>4 DEF Requeue, TypeOK, memory, verified, graph, fixed, outer, soul, world, Chained
<1>7. CASE Release
  <2>1. releases' \in Nat
    BY <1>7, Counters DEF Release
  <2>2. Chained' \in Nat \X Nat \X Nat \X Nat \X Nat
    BY <1>7, <2>1, Counters, Counted DEF Release, outer, world
  <2> QED
    BY <1>7, <2>2 DEF Release, TypeOK, memory, verified, graph, fixed, outer, soul, world
<1>8. CASE Close
  <2>1. saved' \in [Tickets -> Status \cup {NoEntry}]
    BY <1>8 DEF Close, NoSnapshot
  <2> QED
    BY <1>8, <2>1, Fresh DEF Close, TypeOK, chain, fixed, world, Chained
<1>9. CASE NextKickoff
  <2>1. PICK i \in DOMAIN queue :
          /\ budget' = queue[i]
          /\ queue' = [j \in 1 .. Len(queue) - 1 |-> queue[IF j < i THEN j ELSE j + 1]]
    BY <1>9 DEF NextKickoff
  <2>2. queue \in Seq(Nat)
    BY DEF TypeOK
  <2>3. Len(queue) \in Nat /\ i \in 1 .. Len(queue) /\ \A j \in 1 .. Len(queue) : queue[j] \in Nat
    BY <2>2
  <2>4. budget' \in Nat
    BY <2>1, <2>3
  <2>5. queue' \in Seq(Nat)
    <3> DEFINE n == Len(queue)
    <3>1. n - 1 \in Nat /\ \A j \in 1 .. n - 1 : (IF j < i THEN j ELSE j + 1) \in 1 .. n
      BY <2>3
    <3>2. queue' = [j \in 1 .. n - 1 |-> queue[IF j < i THEN j ELSE j + 1]]
      BY <2>1
    <3> HIDE DEF n
    <3>3. queue' \in [1 .. n - 1 -> Nat]
      <4>1. \A j \in 1 .. n - 1 : queue[IF j < i THEN j ELSE j + 1] \in Nat
        BY <2>3, <3>1 DEF n
      <4> QED BY <3>2, <4>1
    <3> QED BY <3>1, <3>3
  <2>6. Chained' \in Nat \X Nat \X Nat \X Nat \X Nat
    <3>1. started' = started + 1 /\ UNCHANGED <<releases, moves, faults, crashes>>
      BY <1>9 DEF NextKickoff, outer, world
    <3>2. started' \in Nat
      BY <3>1, Counters
    <3> QED
      BY <3>1, <3>2, Counters, Counted
  <2> QED
    BY <1>9, <2>4, <2>5, <2>6 DEF NextKickoff, TypeOK, memory, verified, graph, fixed, outer, soul, world
<1>10. CASE Crash
  <2>1. crashes' \in Nat /\ Chained' \in Nat \X Nat \X Nat \X Nat \X Nat
    <3>1. crashes' = crashes + 1 /\ UNCHANGED <<started, releases, moves, faults>>
      BY <1>10 DEF Crash, chain, world
    <3>2. crashes' \in Nat
      BY <3>1, Counters
    <3> QED
      BY <3>1, <3>2, Counters, Counted
  <2> QED
    BY <1>10, <2>1, Fresh DEF Crash, TypeOK, chain, fixed, soul, world
<1> QED
  BY <1>1, <1>2, <1>3, <1>4, <1>5, <1>6, <1>7, <1>8, <1>9, <1>10 DEF After

LEMMA PlacedStep ==
    ASSUME TypeOK, Placed, [Next]_vars PROVE Placed'
<1>1. CASE Before
  BY <1>1 DEF Before, Hydrate, HydrationFails, SkipWave, VerifyWave, Entering, Placed
<1>2. CASE Within
  <2>1. at' = at /\ (pc' = pc \/ (pc = "dispatch" /\ pc' \in {"gate", "canceled"}))
    BY <1>2 DEF Within, Progress, SkipHuman, HandOver, CancelSignal, TickSnapshot, LeaveWave, AfterWave
  <2>2. budget' = budget
    BY <1>2 DEF Within, Progress, SkipHuman, HandOver, CancelSignal, TickSnapshot, LeaveWave, chain
  <2> QED
    BY <2>1, <2>2 DEF Placed
<1>3. CASE After
  <2>1. CASE GateOpens \/ GateCoerces \/ GateWaits
    BY <2>1 DEF GateOpens, GateCoerces, GateWaits, memory, chain, vars, Placed
  <2>2. CASE HaltCritical \/ HaltBelow \/ SoftGreen \/ AllGreen
    BY <2>2 DEF HaltCritical, HaltBelow, SoftGreen, AllGreen, Judging, Retriable, memory, chain, Placed
  <2>3. CASE WaveExit \/ Requeue \/ Release \/ Close \/ NextKickoff \/ Crash
    BY <2>3 DEF WaveExit, Requeue, AfterRequeue, Release, Close, NextKickoff, Crash, Placed
  <2> QED
    BY <1>3, <2>1, <2>2, <2>3 DEF After
<1>4. CASE Outside
  BY <1>4 DEF Outside, PersonMoves, PersonLabels, PassExpires, WorldMoves, memory, chain, Placed
<1>5. CASE Over \/ UNCHANGED vars
  BY <1>5 DEF Over, vars, chain, Placed
<1> QED
  BY <1>1, <1>2, <1>3, <1>4, <1>5, NextSteps

\* Every state of a run is well formed; a wave under way is one of the order, which
\* its current index has not left (orchestrator.py, _run_inner).
THEOREM TypesHold == Spec => [](TypeOK /\ Placed)
<1>1. Init => TypeOK /\ Placed
  <2> SUFFICES ASSUME Init PROVE TypeOK /\ Placed
    OBVIOUS
  <2>1. Start \subseteq LinearState /\ at \in 1 .. Len(WaveOrder) + 1
    BY RunAssumption DEF Init
  <2>2. /\ status \in [Tickets -> Status] /\ seen \in [Tickets -> LinearState]
        /\ linear \in [Tickets -> LinearState]
    BY <2>1 DEF Init, Status, Open
  <2>3. /\ snap \in [Tickets -> Status \cup {NoEntry}] /\ saved \in [Tickets -> Status \cup {NoEntry}]
        /\ hints \in [Tickets -> HintStatus] /\ passes \in [Waves -> Pass]
    BY DEF Init, NoSnapshot, NoHints, HintStatus, Pass
  <2>4. budget \in Nat /\ queue \in Seq(Nat) /\ Chained \in Nat \X Nat \X Nat \X Nat \X Nat
    BY RunAssumption DEF Init, Chained
  <2>5. /\ labelled \subseteq Tickets /\ drifted \subseteq Drifting /\ repoMissing \subseteq Tickets
        /\ cancel \in BOOLEAN /\ threshold \in Thresholds /\ human \subseteq Tickets
        /\ descoped \subseteq Tickets /\ pc = "boot"
    BY DEF Init
  <2> QED
    BY <2>1, <2>2, <2>3, <2>4, <2>5 DEF TypeOK, Placed
<1>2. TypeOK /\ Placed /\ [Next]_vars => (TypeOK /\ Placed)'
  <2> SUFFICES ASSUME TypeOK, Placed, [Next]_vars PROVE TypeOK'
    BY PlacedStep
  <2>1. CASE Over \/ UNCHANGED vars
    BY <2>1 DEF Over, vars, graph, verified, chain, fixed, soul, world, TypeOK, Chained
  <2> QED
    BY <2>1, NextSteps, BeforeTypes, WithinTypes, AfterTypes, OutsideTypes
<1> QED
  BY <1>1, <1>2, PTL DEF Spec
-----------------------------------------------------------------------------
(* The branches of the chain.                                              *)

\* Kickoffs that may still run the on_all_green actions, or queue one that may.
Branches == Len(queue) + IF pc \in {"boot", "enter", "dispatch", "gate", "judge", "exit", "requeue"}
                         THEN 1 ELSE 0
Released == releases + Branches <= 1 + crashes

LEMMA ReleasedStep ==
    ASSUME TypeOK, Released, [Next]_vars PROVE Released'
<1>1. /\ queue \in Seq(Nat) /\ Len(queue) \in Nat
      /\ releases \in Nat /\ crashes \in Nat
  BY DEF TypeOK, Chained
<1> DEFINE Live(w) == w \in {"boot", "enter", "dispatch", "gate", "judge", "exit", "requeue"}
<1>2. ASSUME queue' = queue, releases' = releases, crashes' = crashes, Live(pc') => Live(pc)
      PROVE  Released'
  BY <1>1, <1>2 DEF Released, Branches
<1>3. CASE Before \/ Within \/ Outside \/ Over \/ UNCHANGED vars
  <2>1. CASE Before
    BY <1>2, <2>1 DEF Before, Hydrate, HydrationFails, SkipWave, VerifyWave, Entering, chain
  <2>2. CASE Within
    BY <1>2, <2>2 DEF Within, Progress, SkipHuman, HandOver, CancelSignal, TickSnapshot, LeaveWave,
                      AfterWave, chain
  <2>3. CASE Outside
    BY <1>2, <2>3 DEF Outside, PersonMoves, PersonLabels, PassExpires, WorldMoves, chain
  <2>4. CASE Over \/ UNCHANGED vars
    BY <1>2, <2>4 DEF Over, vars, chain
  <2> QED
    BY <1>3, <2>1, <2>2, <2>3, <2>4
<1>4. CASE GateOpens \/ GateCoerces \/ GateWaits
  BY <1>2, <1>4 DEF GateOpens, GateCoerces, GateWaits, vars, chain, outer
<1>5. CASE HaltCritical \/ HaltBelow \/ SoftGreen \/ AllGreen
  BY <1>2, <1>5 DEF HaltCritical, HaltBelow, SoftGreen, AllGreen, Judging, chain
<1>6. CASE WaveExit \/ Close
  BY <1>2, <1>6 DEF WaveExit, Close, chain
<1>7. CASE Requeue
  <2>1. pc = "requeue" /\ pc' = "fail" /\ releases' = releases /\ crashes' = crashes
    BY <1>7 DEF Requeue, AfterRequeue, outer
  <2>2. queue' = queue \/ queue' = Append(queue, RetryBudget)
    BY <1>7 DEF Requeue
  <2>3. Len(queue') = Len(queue) \/ Len(queue') = Len(queue) + 1
    BY <1>1, <2>2
  <2> QED
    BY <1>1, <2>1, <2>3 DEF Released, Branches
<1>8. CASE Release
  BY <1>1, <1>8 DEF Release, outer, Released, Branches
<1>9. CASE NextKickoff
  <2>1. PICK i \in DOMAIN queue :
          queue' = [j \in 1 .. Len(queue) - 1 |-> queue[IF j < i THEN j ELSE j + 1]]
    BY <1>9 DEF NextKickoff
  <2>2. i \in 1 .. Len(queue) /\ Len(queue) - 1 \in Nat
    BY <1>1
  <2>3. Len(queue') = Len(queue) - 1
    BY <2>1, <2>2
  <2> QED
    BY <1>1, <1>9, <2>3 DEF NextKickoff, outer, Released, Branches
<1>10. CASE Crash
  BY <1>1, <1>10 DEF Crash, chain, Released, Branches
<1> QED
  BY <1>3, <1>4, <1>5, <1>6, <1>7, <1>8, <1>9, <1>10, NextSteps DEF After

\* The on_all_green actions run once, and once more for each crash
\* (_run_on_all_green_actions, _schedule_wave_retry_kickoff), for any waves and budget.
THEOREM ReleasedOnceHolds == Spec => []ReleasedOnce
<1>1. Init => Released
  BY DEF Init, Released, Branches
<1>2. TypeOK /\ Released /\ [Next]_vars => Released'
  BY ReleasedStep
<1>3. TypeOK /\ Released => ReleasedOnce
  BY DEF TypeOK, Chained, Released, Branches, ReleasedOnce
<1> QED
  BY <1>1, <1>2, <1>3, TypesHold, PTL DEF Spec
-----------------------------------------------------------------------------
(* The order of the waves.                                                 *)

\* The waves before the current one have ended, and so has the current one once it
\* is at its gate.
EndedUpTo(n) == \A i \in 1 .. n : \A t \in InScope(WaveOrder[i]) : status[t] \in Terminal
Ordered ==
    /\ pc \in {"enter", "dispatch", "gate", "judge", "requeue", "exit", "complete"} => EndedUpTo(at - 1)
    /\ pc \in {"gate", "judge", "requeue", "exit"} =>
          \A t \in InScope(Current) : status[t] \in Terminal
    /\ pc \in {"boot", "over"} => at = 1

\* A ticket that has ended stays ended.
Settles == \A t \in Tickets : status[t] \in Terminal => status'[t] \in Terminal

LEMMA EndedStays ==
    ASSUME TypeOK, Settles, drifted' = drifted, NEW n, EndedUpTo(n) PROVE EndedUpTo(n)'
  BY DEF EndedUpTo, InScope, InWave, Settles

LEMMA HandedSettles ==
    ASSUME TypeOK, NEW S \in SUBSET Tickets, NEW s \in Terminal, HandedOver(S, s)
    PROVE  Settles /\ \A t \in S : status'[t] \in Terminal
  BY DEF HandedOver, TypeOK, Settles

LEMMA OneMore ==
    ASSUME TypeOK, Ordered, pc \in {"enter", "exit"}, at \in DOMAIN WaveOrder,
           \A t \in InScope(Current) : status[t] \in Terminal
    PROVE  EndedUpTo(at)
<1>1. EndedUpTo(at - 1)
  BY DEF Ordered
<1>2. ASSUME NEW i \in 1 .. at, NEW t \in InScope(WaveOrder[i]) PROVE status[t] \in Terminal
  <2>1. Len(WaveOrder) \in Nat
    BY RunAssumption
  <2>2. at \in 1 .. Len(WaveOrder) + 1
    BY DEF TypeOK
  <2>3. i \in 1 .. at - 1 \/ i = at
    BY <1>2, <2>1, <2>2
  <2> QED
    BY <1>1, <1>2, <2>3 DEF EndedUpTo, Current
<1> QED
  BY <1>2 DEF EndedUpTo

\* Every move within a wave leaves what has ended alone.
LEMMA WithinSettles ==
    ASSUME TypeOK, Within
    PROVE  /\ Settles /\ at' = at /\ drifted' = drifted
           /\ \/ pc' = pc
              \/ pc = "dispatch" /\ pc' = "canceled"
              \/ pc = "dispatch" /\ pc' = "gate" /\ \A t \in InScope(Current) : status'[t] \in Terminal
<1> USE RunAssumption
<1>1. ASSUME NEW t \in Tickets, Progress(t) PROVE Settles /\ pc' = pc
  <2>1. PICK s \in NextStatus(t) \ {status[t]} : status' = [status EXCEPT ![t] = s]
    BY <1>1 DEF Progress
  <2>2. status[t] \notin Terminal
    BY <2>1 DEF NextStatus, Terminal
  <2> QED
    BY <1>1, <2>1, <2>2 DEF Progress, TypeOK, Settles
<1>2. ASSUME NEW t \in Tickets, SkipHuman(t) PROVE Settles /\ pc' = pc
  BY <1>2 DEF SkipHuman, TypeOK, Settles, Terminal
<1>3. ASSUME NEW t \in Tickets, HandOver(t) PROVE Settles /\ pc' = pc
  BY <1>3, HandedSettles DEF HandOver, Terminal
<1>4. ASSUME CancelSignal \/ TickSnapshot PROVE Settles /\ pc' = pc
  BY <1>4 DEF CancelSignal, TickSnapshot, graph, Settles
<1> DEFINE Left == \/ pc' = "canceled"
                   \/ pc' = "gate" /\ \A t \in InScope(Current) : status'[t] \in Terminal
<1>5. ASSUME LeaveWave PROVE Settles /\ pc = "dispatch" /\ Left
  <2>1. pc = "dispatch" /\ pc' = (IF cancel THEN "canceled" ELSE "gate")
    BY <1>5 DEF LeaveWave, AfterWave
  <2>2. Unfinished \subseteq Tickets
    BY DEF Unfinished, InScope, InWave
  <2>3. \A t \in InScope(Current) : t \in Unfinished \/ status[t] \in Terminal
    BY DEF Unfinished, InScope, InWave, TypeOK, Status
  <2>4. ASSUME Unfinished = {} \/ cancel, UNCHANGED graph PROVE Settles /\ Left
    BY <2>1, <2>3, <2>4 DEF graph, Settles
  <2>5. ASSUME status' = [t \in Tickets |-> IF t \in Unfinished THEN "FAILED" ELSE status[t]]
        PROVE  Settles /\ Left
    <3>1. Settles /\ \A t \in Unfinished : status'[t] \in Terminal
      BY <2>2, <2>5 DEF Settles, Terminal
    <3> QED
      BY <2>1, <2>3, <3>1 DEF Settles, InScope, InWave
  <2>6. ASSUME HandedOver(Unfinished, "ABANDONED") PROVE Settles /\ Left
    <3>1. Settles /\ \A t \in Unfinished : status'[t] \in Terminal
      BY <2>2, <2>6, HandedSettles DEF Terminal
    <3> QED
      BY <2>1, <2>3, <3>1 DEF Settles, InScope, InWave
  <2>7. \/ (Unfinished = {} \/ cancel) /\ UNCHANGED graph
        \/ status' = [t \in Tickets |-> IF t \in Unfinished THEN "FAILED" ELSE status[t]]
        \/ HandedOver(Unfinished, "ABANDONED")
    BY <1>5 DEF LeaveWave, graph
  <2> QED
    BY <2>1, <2>4, <2>5, <2>6, <2>7
<1>6. at' = at /\ drifted' = drifted
  BY DEF Within, Progress, SkipHuman, HandOver, CancelSignal, TickSnapshot, LeaveWave, chain, fixed
<1> QED
  BY <1>1, <1>2, <1>3, <1>4, <1>5, <1>6 DEF Within

LEMMA OrderedStep ==
    ASSUME TypeOK, Placed, Ordered, [Next]_vars PROVE Ordered'
<1> USE RunAssumption
<1> DEFINE Far(w) == w \in {"fail", "canceled"}
           AtGate(w) == w \in {"gate", "judge", "requeue", "exit"}
           Inside(w) == w \in {"enter", "dispatch", "complete"} \/ AtGate(w)
<1>1. ASSUME at' = at, drifted' = drifted, Settles, Inside(pc), Inside(pc'),
             AtGate(pc') => \A t \in InScope(Current) : status'[t] \in Terminal
      PROVE  Ordered'
  <2>1. EndedUpTo(at - 1)'
    BY <1>1, EndedStays DEF Ordered, EndedUpTo, InScope, InWave, Settles
  <2>2. AtGate(pc') => (\A t \in InScope(Current) : status[t] \in Terminal)'
    BY <1>1 DEF InScope, InWave, Current
  <2> QED
    BY <1>1, <2>1, <2>2 DEF Ordered
<1>2. ASSUME at' = at, drifted' = drifted, status' = status, Inside(pc), Inside(pc'),
             AtGate(pc') => AtGate(pc)
      PROVE  Ordered'
  <2>1. Settles
    BY <1>2 DEF Settles
  <2>2. AtGate(pc') => \A t \in InScope(Current) : status'[t] \in Terminal
    BY <1>2 DEF Ordered
  <2> QED
    BY <1>1, <1>2, <2>1, <2>2
<1>3. ASSUME Far(pc') PROVE Ordered'
  BY <1>3 DEF Ordered
<1>4. ASSUME at' = 1, pc' \in {"boot", "over", "enter", "fail"} PROVE Ordered'
  BY <1>4 DEF Ordered, EndedUpTo
<1>5. ASSUME at' = at + 1, drifted' = drifted, status' = status, pc' = "enter",
             pc \in {"enter", "exit"}, at \in DOMAIN WaveOrder,
             \A t \in InScope(Current) : status[t] \in Terminal
      PROVE  Ordered'
  <2>1. EndedUpTo(at)
    BY <1>5, OneMore
  <2>2. at' - 1 = at
    BY <1>5
  <2>3. EndedUpTo(at - 1)'
    BY <1>5, <2>1, <2>2 DEF EndedUpTo, InScope, InWave
  <2> QED
    BY <1>5, <2>3 DEF Ordered
<1>6. ASSUME UNCHANGED <<pc, at, drifted, status>> PROVE Ordered'
  BY <1>6 DEF Ordered, EndedUpTo, InScope, InWave, Current
<1>7. CASE Before
  <2>1. CASE Hydrate \/ HydrationFails
    BY <1>3, <1>4, <2>1 DEF Hydrate, HydrationFails, Ordered
  <2>2. CASE SkipWave
    <3>1. \A t \in InScope(Current) : status[t] \in Terminal
      BY <2>2 DEF SkipWave, ShouldSkip, InScope, Terminal
    <3> QED
      BY <1>5, <2>2, <3>1 DEF SkipWave, Entering, graph, chain, fixed
  <2>3. CASE VerifyWave
    <3>1. /\ pc = "enter" /\ pc' = (IF InScope(Current) = {} THEN "gate" ELSE "dispatch")
          /\ at' = at /\ drifted' = drifted
      BY <2>3 DEF VerifyWave, Entering, chain, fixed
    <3>2. Settles
      BY <2>3 DEF VerifyWave, Settles, Terminal
    <3> QED
      BY <1>1, <3>1, <3>2
  <2> QED
    BY <1>7, <2>1, <2>2, <2>3 DEF Before
<1>8. CASE Within
  <2>1. pc = "dispatch"
    BY <1>8 DEF Within, Progress, SkipHuman, HandOver, CancelSignal, TickSnapshot, LeaveWave
  <2> QED
    BY <1>1, <1>3, <1>8, <2>1, WithinSettles
<1>9. CASE GateOpens \/ HaltCritical \/ HaltBelow \/ SoftGreen \/ AllGreen \/ Requeue \/ Release
  <2>1. /\ at' = at /\ drifted' = drifted /\ status' = status
        /\ \/ Far(pc')
           \/ pc = "enter" /\ pc' = "complete"
           \/ AtGate(pc) /\ AtGate(pc')
    BY <1>9 DEF GateOpens, HaltCritical, HaltBelow, SoftGreen, AllGreen, Judging, Requeue, AfterRequeue,
                Release, memory, graph, chain, fixed
  <2> QED
    BY <1>2, <1>3, <2>1
<1>10. CASE GateCoerces
  <2>1. /\ pc = "gate" /\ pc' = "judge" /\ at' = at /\ drifted' = drifted
        /\ status' = [t \in Tickets |-> IF t \in Blocked THEN "FAILED" ELSE status[t]]
    BY <1>10 DEF GateCoerces, memory, chain, fixed
  <2>2. Settles
    BY <2>1 DEF Settles, Terminal
  <2>3. \A t \in InScope(Current) : status'[t] \in Terminal
    BY <2>1, <2>2 DEF Ordered, Settles, InScope, InWave
  <2> QED
    BY <1>1, <2>1, <2>2, <2>3
<1>11. CASE WaveExit
  <2>1. \A t \in InScope(Current) : status[t] \in Terminal
    BY <1>11 DEF WaveExit, Ordered
  <2> QED
    BY <1>5, <1>11, <2>1 DEF WaveExit, Placed, graph, chain, fixed
<1>12. CASE Close \/ Crash
  BY <1>4, <1>12 DEF Close, Crash, FreshMemory
<1>13. CASE NextKickoff
  BY <1>4, <1>13 DEF NextKickoff, memory, Ordered
<1>14. CASE Outside \/ Over \/ GateWaits \/ UNCHANGED vars
  BY <1>6, <1>14 DEF Outside, PersonMoves, PersonLabels, PassExpires, WorldMoves, Over, GateWaits, vars,
                     memory, graph, chain, fixed
<1> QED
  BY <1>7, <1>8, <1>9, <1>10, <1>11, <1>12, <1>13, <1>14, NextSteps DEF After

\* No wave is dispatched, judged or released over while a ticket in scope of an earlier
\* wave is still open (_run_inner, _should_skip_wave), for any waves and faults.
THEOREM LaterWavesWaitHolds == Spec => []LaterWavesWait
<1>1. Init => Ordered
  BY DEF Init, Ordered
<1>2. TypeOK /\ Placed /\ Ordered /\ [Next]_vars => Ordered'
  BY OrderedStep
<1>3. Ordered => LaterWavesWait
  BY DEF Ordered, EndedUpTo, LaterWavesWait
<1> QED
  BY <1>1, <1>2, <1>3, TypesHold, PTL DEF Spec
-----------------------------------------------------------------------------
(* The chain of retries.                                                   *)

\* What a queued kickoff may cost, itself and the retries of its budget, one slip for
\* each; and what the kickoff under way may still queue.
SlipsOf(q) == {s \in (1 .. Len(q)) \X (0 .. WaveRetryBudget) : s[2] <= q[s[1]]}
Left == IF pc \in {"boot", "enter", "dispatch", "gate", "judge", "exit", "requeue"}
        THEN budget ELSE 0
Budgets == 0 .. WaveRetryBudget
Afforded ==
    /\ budget \in Budgets /\ queue \in Seq(Budgets)
    /\ started + Cardinality(SlipsOf(queue)) + Left <= 1 + WaveRetryBudget * (1 + crashes)

LEMMA SlipsFinite ==
    ASSUME NEW q \in Seq(Budgets)
    PROVE  IsFiniteSet(SlipsOf(q)) /\ Cardinality(SlipsOf(q)) \in Nat
<1>1. IsFiniteSet(1 .. Len(q)) /\ IsFiniteSet(0 .. WaveRetryBudget)
  <2>1. Len(q) \in Int /\ WaveRetryBudget \in Int
    BY RunAssumption
  <2> QED
    BY <2>1, FS_Interval
<1>2. IsFiniteSet((1 .. Len(q)) \X (0 .. WaveRetryBudget))
  BY <1>1, FS_Product
<1>3. SlipsOf(q) \in SUBSET ((1 .. Len(q)) \X (0 .. WaveRetryBudget))
  BY DEF SlipsOf
<1> QED
  BY <1>2, <1>3, FS_Subset, FS_CardinalityType

\* The slips of one kickoff.
RowOf(i, n) == {i} \X (0 .. n)
LEMMA RowCounts ==
    ASSUME NEW i, NEW n \in Nat
    PROVE  IsFiniteSet(RowOf(i, n)) /\ Cardinality(RowOf(i, n)) = n + 1
<1>1. IsFiniteSet(0 .. n) /\ Cardinality(0 .. n) = n + 1
  BY FS_Interval
<1>2. IsFiniteSet({i}) /\ Cardinality({i}) = 1
  BY FS_Singleton
<1>3. IsFiniteSet(RowOf(i, n)) /\ Cardinality(RowOf(i, n)) = Cardinality({i}) * Cardinality(0 .. n)
  BY <1>1, <1>2, FS_Product DEF RowOf
<1> QED
  BY <1>1, <1>2, <1>3

\* Each queued kickoff has a slip of its own.
LEMMA SlipsCoverQueue ==
    ASSUME NEW q \in Seq(Budgets) PROVE Len(q) <= Cardinality(SlipsOf(q))
<1> DEFINE f == [i \in 1 .. Len(q) |-> <<i, 0>>]
<1>1. f \in Injection(1 .. Len(q), SlipsOf(q))
  <2>1. ASSUME NEW i \in 1 .. Len(q) PROVE <<i, 0>> \in SlipsOf(q)
    <3>1. q[i] \in Budgets
      OBVIOUS
    <3>2. q[i] \in 0 .. WaveRetryBudget
      BY <3>1 DEF Budgets
    <3> QED
      BY <3>2, RunAssumption DEF SlipsOf
  <2> QED
    BY <2>1 DEF Injection, IsInjective
<1> HIDE DEF f
<1>2. Len(q) \in Nat /\ Cardinality(1 .. Len(q)) = Len(q)
  <2>1. Len(q) \in Nat
    OBVIOUS
  <2>2. \A n \in Nat : Cardinality(1 .. n) = n
    <3> SUFFICES ASSUME NEW n \in Nat PROVE Cardinality(1 .. n) = n
      OBVIOUS
    <3>1. 1 \in Int /\ n \in Int /\ (1 > n => n = 0) /\ n - 1 + 1 = n
      OBVIOUS
    <3>2. Cardinality(1 .. n) = IF 1 > n THEN 0 ELSE n - 1 + 1
      BY <3>1, FS_Interval
    <3> QED BY <3>1, <3>2
  <2> QED
    BY <2>1, <2>2
<1>3. Cardinality(1 .. Len(q)) <= Cardinality(SlipsOf(q))
  <2>1. IsFiniteSet(SlipsOf(q))
    BY SlipsFinite
  <2> QED BY <1>1, <2>1, FS_Injection
<1> QED
  BY <1>2, <1>3

LEMMA SlipsAppended ==
    ASSUME NEW q \in Seq(Budgets), NEW b \in Budgets
    PROVE  /\ Append(q, b) \in Seq(Budgets)
           /\ Cardinality(SlipsOf(Append(q, b))) = Cardinality(SlipsOf(q)) + b + 1
<1> DEFINE n == Len(q)
           r == Append(q, b)
<1>1. /\ n \in Nat /\ r \in Seq(Budgets) /\ Len(r) = n + 1
      /\ \A i \in 1 .. n : r[i] = q[i]
      /\ r[n + 1] = b
  OBVIOUS
<1>2. b \in Nat /\ b <= WaveRetryBudget /\ WaveRetryBudget \in Nat
  BY RunAssumption DEF Budgets
<1> HIDE DEF r, n
<1>3. SlipsOf(r) = SlipsOf(q) \cup RowOf(n + 1, b)
  <2>1. ASSUME NEW i \in 1 .. n + 1, NEW k \in 0 .. WaveRetryBudget
        PROVE  <<i, k>> \in SlipsOf(r) <=> <<i, k>> \in SlipsOf(q) \cup RowOf(n + 1, b)
    <3>1. CASE i = n + 1
      BY <1>1, <1>2, <2>1, <3>1 DEF SlipsOf, RowOf, n
    <3>2. CASE i # n + 1
      BY <1>1, <2>1, <3>2 DEF SlipsOf, RowOf, n
    <3> QED
      BY <3>1, <3>2
  <2>2. SlipsOf(r) \in SUBSET ((1 .. n + 1) \X (0 .. WaveRetryBudget))
    BY <1>1 DEF SlipsOf
  <2>3. SlipsOf(q) \in SUBSET ((1 .. n + 1) \X (0 .. WaveRetryBudget))
    BY <1>1 DEF SlipsOf, n
  <2>4. RowOf(n + 1, b) \in SUBSET ((1 .. n + 1) \X (0 .. WaveRetryBudget))
    BY <1>1, <1>2 DEF RowOf
  <2> QED
    BY <2>1, <2>2, <2>3, <2>4
<1>4. SlipsOf(q) \cap RowOf(n + 1, b) = {}
  BY <1>1 DEF SlipsOf, RowOf, n
<1>5. IsFiniteSet(SlipsOf(q)) /\ Cardinality(SlipsOf(q)) \in Nat
  BY SlipsFinite
<1>6. IsFiniteSet(RowOf(n + 1, b)) /\ Cardinality(RowOf(n + 1, b)) = b + 1
  BY <1>2, RowCounts
<1>7. Cardinality(SlipsOf(q) \cap RowOf(n + 1, b)) = 0
  BY <1>4, FS_EmptySet
<1>8. Cardinality(SlipsOf(r)) = Cardinality(SlipsOf(q)) + (b + 1) - 0
  BY <1>3, <1>5, <1>6, <1>7, FS_Union
<1>9. Cardinality(SlipsOf(r)) = Cardinality(SlipsOf(q)) + b + 1
  BY <1>2, <1>5, <1>8
<1> QED
  BY <1>1, <1>9 DEF r

\* What NextKickoff leaves of the queue.
Without(q, i) == [j \in 1 .. Len(q) - 1 |-> q[IF j < i THEN j ELSE j + 1]]

LEMMA SlipsTaken ==
    ASSUME NEW q \in Seq(Budgets), NEW i \in 1 .. Len(q)
    PROVE  /\ Without(q, i) \in Seq(Budgets) /\ Len(Without(q, i)) = Len(q) - 1
           /\ Cardinality(SlipsOf(q)) = Cardinality(SlipsOf(Without(q, i))) + q[i] + 1
<1> DEFINE n == Len(q)
           r == Without(q, i)
           f == [s \in SlipsOf(r) |-> <<IF s[1] < i THEN s[1] ELSE s[1] + 1, s[2]>>]
<1>1. n \in Nat /\ i \in Nat /\ 1 <= i /\ i <= n /\ n - 1 \in Nat /\ \A j \in 1 .. n : q[j] \in Budgets
  OBVIOUS
<1>2. \A j \in 1 .. n - 1 : r[j] = q[IF j < i THEN j ELSE j + 1] /\ r[j] \in Budgets
  BY <1>1 DEF Without
<1>3. r \in Seq(Budgets) /\ Len(r) = n - 1
  BY <1>1, <1>2 DEF Without
<1>4. q[i] \in Nat /\ q[i] <= WaveRetryBudget
  BY <1>1, RunAssumption DEF Budgets
<1> HIDE DEF r, n
<1>5. f \in Bijection(SlipsOf(r), SlipsOf(q) \ RowOf(i, q[i]))
  <2>1. ASSUME NEW s \in SlipsOf(r)
        PROVE  /\ s[1] \in 1 .. n - 1 /\ s[2] \in 0 .. WaveRetryBudget /\ s = <<s[1], s[2]>>
               /\ f[s] = <<IF s[1] < i THEN s[1] ELSE s[1] + 1, s[2]>>
               /\ f[s] \in SlipsOf(q) \ RowOf(i, q[i])
    <3>1. s[1] \in 1 .. n - 1 /\ s[2] \in 0 .. WaveRetryBudget /\ s = <<s[1], s[2]>> /\ s[2] <= r[s[1]]
      BY <1>3, <2>1 DEF SlipsOf
    <3>2. f[s] = <<IF s[1] < i THEN s[1] ELSE s[1] + 1, s[2]>>
      BY <2>1
    <3>3. CASE s[1] < i
      <4>1. f[s] = <<s[1], s[2]>> /\ r[s[1]] = q[s[1]] /\ s[1] \in 1 .. n /\ s[1] # i
        BY <1>1, <1>2, <3>1, <3>2, <3>3
      <4> QED
        BY <3>1, <3>2, <4>1 DEF SlipsOf, RowOf, n
    <3>4. CASE ~(s[1] < i)
      <4>1. f[s] = <<s[1] + 1, s[2]>> /\ r[s[1]] = q[s[1] + 1] /\ s[1] + 1 \in 1 .. n /\ s[1] + 1 # i
        BY <1>1, <1>2, <3>1, <3>2, <3>4
      <4> QED
        BY <3>1, <3>2, <4>1 DEF SlipsOf, RowOf, n
    <3> QED
      BY <3>1, <3>2, <3>3, <3>4
  <2>2. ASSUME NEW s \in SlipsOf(r), NEW t \in SlipsOf(r), f[s] = f[t] PROVE s = t
    <3>1. /\ (IF s[1] < i THEN s[1] ELSE s[1] + 1) = (IF t[1] < i THEN t[1] ELSE t[1] + 1)
          /\ s[2] = t[2]
      BY <2>1, <2>2
    <3>2. s[1] = t[1]
      <4> HIDE DEF f
      <4>1. s[1] \in 1 .. n - 1 /\ t[1] \in 1 .. n - 1
        BY <2>1, <2>2
      <4>5. s[1] \in Int /\ t[1] \in Int /\ i \in Int
        BY <1>1, <4>1
      <4>2. ASSUME NEW a \in Int, NEW b \in Int, NEW c \in Int,
                   (IF a < c THEN a ELSE a + 1) = (IF b < c THEN b ELSE b + 1)
            PROVE  a = b
        BY <4>2
      <4> QED
        BY <3>1, <4>2, <4>5
    <3> QED
      BY <2>1, <3>1, <3>2
  <2>3. ASSUME NEW t \in SlipsOf(q) \ RowOf(i, q[i]) PROVE \E s \in SlipsOf(r) : f[s] = t
    <3>1. t[1] \in 1 .. n /\ t[2] \in 0 .. WaveRetryBudget /\ t = <<t[1], t[2]>> /\ t[2] <= q[t[1]]
      BY <2>3 DEF SlipsOf, n
    <3>2. t[1] # i
      <4>1. t[1] = i => t \in RowOf(i, q[i])
        BY <1>4, <3>1 DEF RowOf
      <4> QED
        BY <2>3, <4>1
    <3>3. CASE t[1] < i
      <4>1. t[1] \in 1 .. n - 1 /\ r[t[1]] = q[t[1]]
        BY <1>1, <1>2, <3>1, <3>3
      <4>2. t \in SlipsOf(r)
        BY <1>3, <3>1, <4>1 DEF SlipsOf
      <4>3. f[t] = t
        BY <2>1, <3>3, <4>2
      <4> QED
        BY <4>2, <4>3
    <3>4. CASE t[1] > i
      <4>1. t[1] - 1 \in 1 .. n - 1 /\ r[t[1] - 1] = q[t[1]] /\ ~(t[1] - 1 < i) /\ t[1] - 1 + 1 = t[1]
        BY <1>1, <1>2, <3>1, <3>4
      <4>2. <<t[1] - 1, t[2]>> \in SlipsOf(r)
        BY <1>3, <3>1, <4>1 DEF SlipsOf
      <4>3. f[<<t[1] - 1, t[2]>>] = t
        BY <2>1, <3>1, <4>1, <4>2
      <4> QED
        BY <4>2, <4>3
    <3> QED
      BY <1>1, <3>1, <3>2, <3>3, <3>4
  <2>4. f \in [SlipsOf(r) -> SlipsOf(q) \ RowOf(i, q[i])]
    BY <2>1
  <2> HIDE DEF f
  <2> QED
    BY <2>2, <2>3, <2>4 DEF Bijection, Injection, Surjection, IsInjective
<1> HIDE DEF f
<1>6. IsFiniteSet(SlipsOf(r)) /\ Cardinality(SlipsOf(r)) \in Nat
  BY <1>3, SlipsFinite
<1>7. Cardinality(SlipsOf(q) \ RowOf(i, q[i])) = Cardinality(SlipsOf(r))
  BY <1>5, <1>6, FS_Bijection DEF ExistsBijection
<1>8. IsFiniteSet(SlipsOf(q)) /\ Cardinality(SlipsOf(q)) \in Nat
  BY SlipsFinite
<1>9. SlipsOf(q) \cap RowOf(i, q[i]) = RowOf(i, q[i])
  <2>1. RowOf(i, q[i]) \subseteq SlipsOf(q)
    <3>1. ASSUME NEW k \in 0 .. q[i] PROVE <<i, k>> \in SlipsOf(q)
      <4>1. k \in 0 .. WaveRetryBudget /\ k <= q[i]
        BY <1>4, <3>1, RunAssumption
      <4> QED
        BY <4>1 DEF SlipsOf
    <3> QED
      BY <3>1 DEF RowOf
  <2> QED
    BY <2>1
<1>10. Cardinality(SlipsOf(q) \ RowOf(i, q[i])) = Cardinality(SlipsOf(q)) - Cardinality(RowOf(i, q[i]))
  BY <1>8, <1>9, FS_Difference
<1>11. Cardinality(RowOf(i, q[i])) = q[i] + 1
  BY <1>4, RowCounts
<1>12. Cardinality(SlipsOf(q)) = Cardinality(SlipsOf(r)) + q[i] + 1
  BY <1>4, <1>6, <1>7, <1>8, <1>10, <1>11
<1> QED
  BY <1>3, <1>12 DEF r, n

LEMMA AffordedStep ==
    ASSUME TypeOK, Placed, Afforded, [Next]_vars PROVE Afforded'
<1> DEFINE Running == {"boot", "enter", "dispatch", "gate", "judge", "exit", "requeue"}
<1>1. /\ WaveRetryBudget \in Nat /\ budget \in Nat /\ budget <= WaveRetryBudget
      /\ started \in Nat /\ crashes \in Nat
  BY RunAssumption DEF Afforded, Budgets, TypeOK, Chained
<1>2. queue \in Seq(Budgets) /\ Cardinality(SlipsOf(queue)) \in Nat
  BY SlipsFinite DEF Afforded
<1>3. Left = (IF pc \in Running THEN budget ELSE 0) /\ Left' = (IF pc' \in Running THEN budget' ELSE 0)
  BY DEF Left
<1>4. ASSUME UNCHANGED <<budget, queue, started, crashes>>, pc' \in Running => pc \in Running
      PROVE  Afforded'
  <2>1. SlipsOf(queue)' = SlipsOf(queue) /\ Budgets' = Budgets
    BY <1>4 DEF SlipsOf, Budgets
  <2>2. Left' <= Left /\ Left \in Nat /\ Left' \in Nat
    BY <1>1, <1>3, <1>4
  <2> QED
    BY <1>1, <1>2, <1>4, <2>1, <2>2 DEF Afforded
<1>5. CASE Before \/ Within \/ Outside \/ Over \/ UNCHANGED vars
  <2>1. CASE Before
    BY <1>4, <2>1 DEF Before, Hydrate, HydrationFails, SkipWave, VerifyWave, Entering, chain
  <2>2. CASE Within
    BY <1>4, <2>2 DEF Within, Progress, SkipHuman, HandOver, CancelSignal, TickSnapshot, LeaveWave,
                      AfterWave, chain
  <2>3. CASE Outside
    BY <1>4, <2>3 DEF Outside, PersonMoves, PersonLabels, PassExpires, WorldMoves, chain
  <2>4. CASE Over \/ UNCHANGED vars
    BY <1>4, <2>4 DEF Over, vars, chain
  <2> QED
    BY <1>5, <2>1, <2>2, <2>3, <2>4
<1>6. CASE GateOpens \/ GateCoerces \/ GateWaits
  BY <1>4, <1>6 DEF GateOpens, GateCoerces, GateWaits, vars, chain, outer
<1>7. CASE HaltCritical \/ HaltBelow \/ SoftGreen \/ AllGreen
  BY <1>4, <1>7 DEF HaltCritical, HaltBelow, SoftGreen, AllGreen, Judging, chain
<1>8. CASE WaveExit \/ Close \/ Release
  BY <1>4, <1>8 DEF WaveExit, Close, Release, chain, outer
<1>9. CASE Requeue
  <2>1. /\ Left = budget /\ Left' = 0 /\ budget > 0
        /\ UNCHANGED <<budget, started, crashes>>
    BY <1>3, <1>9 DEF Requeue, AfterRequeue, outer, Placed
  <2>2. RetryBudget \in Budgets /\ RetryBudget = budget - 1
    BY <1>1, <2>1 DEF RetryBudget, Budgets
  <2>3. queue' = queue \/ queue' = Append(queue, RetryBudget)
    BY <1>9 DEF Requeue
  <2>4. /\ queue' \in Seq(Budgets)
        /\ \/ Cardinality(SlipsOf(queue')) = Cardinality(SlipsOf(queue))
           \/ Cardinality(SlipsOf(queue')) = Cardinality(SlipsOf(queue)) + RetryBudget + 1
    BY <1>2, <2>2, <2>3, SlipsAppended
  <2> QED
    BY <1>1, <1>2, <2>1, <2>2, <2>4 DEF Afforded, Budgets
<1>10. CASE NextKickoff
  <2>1. PICK i \in DOMAIN queue : budget' = queue[i] /\ queue' = Without(queue, i)
    BY <1>10 DEF NextKickoff, Without
  <2>2. i \in 1 .. Len(queue) /\ queue[i] \in Budgets
    BY <1>2, <2>1
  <2>3. /\ queue' \in Seq(Budgets)
        /\ Cardinality(SlipsOf(queue)) = Cardinality(SlipsOf(queue')) + queue[i] + 1
    BY <1>2, <2>1, <2>2, SlipsTaken
  <2>4. Left = 0 /\ Left' = queue[i] /\ started' = started + 1 /\ crashes' = crashes
    BY <1>3, <1>10, <2>1 DEF NextKickoff, outer
  <2>5. Cardinality(SlipsOf(queue')) \in Nat /\ queue[i] \in Nat
    BY <2>2, <2>3, SlipsFinite, RunAssumption DEF Budgets
  <2> QED
    BY <1>1, <1>2, <2>1, <2>2, <2>3, <2>4, <2>5 DEF Afforded, Budgets
<1>11. CASE Crash
  <2>1. UNCHANGED <<budget, queue, started>> /\ crashes' = crashes + 1
    BY <1>11 DEF Crash, chain
  <2>2. Left \in Nat /\ Left' \in Nat /\ Left' <= WaveRetryBudget
    BY <1>1, <1>3, <2>1
  <2>3. WaveRetryBudget * (1 + crashes') = WaveRetryBudget * (1 + crashes) + WaveRetryBudget
    BY <1>1, <2>1
  <2>4. Cardinality(SlipsOf(queue')) = Cardinality(SlipsOf(queue))
    BY <2>1
  <2>5. WaveRetryBudget * (1 + crashes) \in Nat
    BY <1>1
  <2> QED
    BY <1>1, <1>2, <2>1, <2>2, <2>3, <2>4, <2>5 DEF Afforded, Budgets
<1> QED
  BY <1>5, <1>6, <1>7, <1>8, <1>9, <1>10, <1>11, NextSteps DEF After

\* The chain of kickoffs started and queued is as long as the first one's
\* wave_retry_budget, and once more as long for each crash, for any budget
\* (_schedule_wave_retry_kickoff).
THEOREM RetriesBoundedHolds == Spec => []RetriesBounded
<1>1. Init => Afforded
  <2>1. ASSUME Init PROVE Afforded
    <3>1. SlipsOf(queue) = {}
      BY <2>1 DEF Init, SlipsOf
    <3>2. Cardinality(SlipsOf(queue)) = 0
      BY <3>1, FS_EmptySet
    <3>3. budget \in Budgets /\ queue \in Seq(Budgets)
      BY <2>1, RunAssumption DEF Init, Budgets
    <3> QED
      BY <2>1, <3>2, <3>3, RunAssumption DEF Init, Afforded, Left
  <2> QED
    BY <2>1
<1>2. TypeOK /\ Placed /\ Afforded /\ [Next]_vars => Afforded'
  BY AffordedStep
<1>3. TypeOK /\ Afforded => RetriesBounded
  <2>1. ASSUME TypeOK, Afforded PROVE RetriesBounded
    <3>1. queue \in Seq(Budgets) /\ Len(queue) \in Nat
      BY <2>1 DEF Afforded
    <3>2. Len(queue) <= Cardinality(SlipsOf(queue)) /\ Cardinality(SlipsOf(queue)) \in Nat
      BY <3>1, SlipsCoverQueue, SlipsFinite
    <3>3. Left \in Nat /\ started \in Nat /\ crashes \in Nat /\ WaveRetryBudget \in Nat
      BY <2>1, RunAssumption DEF Left, TypeOK, Chained
    <3>4. WaveRetryBudget * (1 + crashes) \in Nat
      BY <3>3
    <3> QED
      BY <2>1, <3>1, <3>2, <3>3, <3>4 DEF Afforded, RetriesBounded
  <2> QED
    BY <2>1
<1> QED
  BY <1>1, <1>2, <1>3, TypesHold, PTL DEF Spec
=============================================================================
