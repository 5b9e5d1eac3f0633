--------------------------- MODULE WaveLoopCooling ---------------------------
(* The deadlock detector and the back-off: the grace runs only while        *)
(* nothing is active or ready, a retry cools down from a moment when        *)
(* something was, so with a back-off no longer than the grace a cooling     *)
(* ticket is awake before the grace has run out.                            *)
EXTENDS WaveLoopVerdicts

Idle(r) == r.status \in Waiting => r.child = 0

\* A tick that found nothing active and nothing ready has nothing to dispatch,
\* to poll or to fail.
QuietTick ==
    quiet /\ pc \in {"dispatch", "list", "claimed", "poll"} =>
        /\ WithStatus(Active) = {}
        /\ pc # "list" => todo = {}
        /\ pc \in {"claimed", "poll"} => fresh = {}

\* The grace started no earlier than the back-off, but for a ticket that has just
\* backed off in a tick that was not quiet.
GraceLater(t) ==
    tk[t].status = "BACKED_OFF" =>
        /\ tk[t].backAge \in Nat
        /\ \/ QuietFor <= tk[t].backAge
           \/ ~quiet /\ pc \in {"reviews", "snapshot", "tail", "done"}

\* After the wake-up of a tick, whoever still cools down has not cooled down.
StillCool(t) ==
    tk[t].status = "BACKED_OFF" /\ pc \in {"claimed", "poll", "reviews", "snapshot",
                                           "tail", "sleep"}
        => tk[t].backAge < Backoff \/ tk[t].backAge = 0

CoolInv ==
    /\ \A t \in Tickets : Idle(tk[t]) /\ GraceLater(t) /\ StillCool(t)
    /\ QuietTick

-----------------------------------------------------------------------------
(* How a ticket comes to wait.                                             *)

\* r becomes q: whoever waits afterwards waited before, with the same child and the
\* same clock, or waits without a child and not to cool down.
Cools(r, q) ==
    q.status \in Waiting =>
        \/ /\ r.status \in Waiting /\ q.child = r.child
           /\ q.status = "BACKED_OFF" => r.status = "BACKED_OFF" /\ q.backAge = r.backAge
        \/ q.child = 0 /\ q.status # "BACKED_OFF"

\* A ticket that is left alone, or does not wait afterwards, cools.
LEMMA CoolsPlainly ==
    ASSUME NEW r, NEW q, q = r \/ q.status \notin Waiting
    PROVE  Cools(r, q)
BY DEF Cools

\* So does one of which only a field changes that has nothing to do with waiting.
LEMMA CoolsSame ==
    ASSUME NEW r, NEW q, q.status = r.status, q.child = r.child, q.backAge = r.backAge
    PROVE  Cools(r, q)
BY DEF Cools

\* A dispatch decision: the ticket stays PENDING or leaves the waiting ones.
LEMMA DispatchCools ==
    ASSUME Shape, TodoOpen, NEW t \in Tickets, DispatchTicket(t)
    PROVE  Cools(tk[t], tk'[t])
<1>1. /\ tk[t].status = "PENDING"
      /\ \/ /\ tk'[t].child = tk[t].child
            /\ tk'[t].status \in {"PENDING", "FAILED", "ESCALATED", "MERGED_GREEN",
                                  "AWAITING_REVIEW"}
         \/ tk'[t].status = "DISPATCHED"
  BY DispatchOutcome
<1> QED BY <1>1 DEF Cools, Waiting

\* The poll: only an empty envelope sends a ticket back to wait, without its child.
LEMMA PollCools ==
    ASSUME Shape, TodoOpen, NEW t \in Tickets, Idle(tk[t]), PollTicket(t)
    PROVE  Cools(tk[t], tk'[t])
<1>0. tk[t] \in TicketRecord /\ t \in DOMAIN tk /\ tk \in [Tickets -> TicketRecord]
  BY DEF Shape
<1>1. tk[t].child # 0
  BY DEF TodoOpen, PollTicket, PollAbandon, PollTimeout, PollPhantom, PollRunning,
         PollFailed, PollGap, PollPr, PollSilent, Polled
<1>2. tk[t].status \notin Waiting
  BY <1>1 DEF Idle
<1>3. CASE PollAbandon(t)
  <2> DEFINE r == [Abandoned(tk[t]) EXCEPT !.retries = tk[t].retries + 1,
                                           !.dispAge = NoTime]
  <2>1. tk'[t] = r
    BY <1>0, <1>3 DEF PollAbandon
  <2>2. r.status = "ABANDONED"
    BY <1>0 DEF Abandoned, TicketRecord
  <2> HIDE DEF r
  <2> QED BY <2>1, <2>2 DEF Cools, Waiting
<1>4. CASE PollTimeout(t)
  BY <1>0, <1>4 DEF PollTimeout, TicketRecord, Cools, Waiting
<1>5. CASE PollPhantom(t)
  <2>1. ForceFailed(t).status = "FAILED"
    BY <1>0 DEF ForceFailed, TicketRecord
  <2>2. tk'[t] = ForceFailed(t)
    BY <1>0, <1>5 DEF PollPhantom
  <2> QED BY <2>1, <2>2 DEF Cools, Waiting
<1>6. CASE PollRunning(t)
  <2>1. tk'[t].status \in {"IN_PROGRESS", tk[t].status}
    BY <1>0, <1>6 DEF PollRunning, TicketRecord
  <2> QED BY <1>2, <2>1 DEF Cools, Waiting
<1>7. CASE PollFailed(t) \/ PollGap(t)
  <2>1. PICK s \in {"FAILED", "ESCALATED"} : tk' = [tk EXCEPT ![t].status = s]
    BY <1>7 DEF PollFailed, PollGap
  <2> QED BY <1>0, <2>1 DEF TicketRecord, Cools, Waiting
<1>8. CASE PollPr(t)
  <2>2. ASSUME tk' = [tk EXCEPT ![t].pr = TRUE, ![t].dispAge = NoTime,
                                ![t].review = RevId(t), ![t].status = "AWAITING_REVIEW"]
        PROVE  tk'[t].status = "AWAITING_REVIEW"
    BY <1>0, <2>2 DEF TicketRecord
  <2>3. ASSUME tk' = [tk EXCEPT ![t].pr = TRUE, ![t].dispAge = NoTime,
                                ![t].status = "PR_OPEN"]
        PROVE  tk'[t].status = "PR_OPEN"
    BY <1>0, <2>3 DEF TicketRecord
  <2>1. tk'[t].status \in {"AWAITING_REVIEW", "PR_OPEN"}
    BY <1>8, <2>2, <2>3 DEF PollPr
  <2> QED BY <2>1 DEF Cools, Waiting
<1>9. CASE PollSilent(t)
  <2>2. ASSUME tk' = [tk EXCEPT ![t].status = "PENDING", ![t].child = 0,
                                ![t].dispAge = NoTime]
        PROVE  tk'[t].status = "PENDING" /\ tk'[t].child = 0
    BY <1>0, <2>2 DEF TicketRecord
  <2>3. ASSUME tk' = [tk EXCEPT ![t].status = "FAILED", ![t].phantom = FALSE]
        PROVE  tk'[t].status = "FAILED"
    BY <1>0, <2>3 DEF TicketRecord
  <2>1. \/ tk'[t].status = "PENDING" /\ tk'[t].child = 0
        \/ tk'[t].status = "FAILED"
    BY <1>9, <2>2, <2>3 DEF PollSilent
  <2> QED BY <2>1 DEF Cools, Waiting
<1> QED BY <1>3, <1>4, <1>5, <1>6, <1>7, <1>8, <1>9 DEF PollTicket

\* A verdict sends nobody to wait for a builder.
LEMMA ReviewCools ==
    ASSUME Shape, NEW t \in Tickets, ReviewTicket(t)
    PROVE  Cools(tk[t], tk'[t])
<1>1. /\ tk[t].status \in {"AWAITING_REVIEW", "REVIEWING"}
      /\ tk'[t].status \in {"MERGED_GREEN", "FAILED", "TRIAGE_NEEDED", "ESCALATED",
                            "AWAITING_REVIEW", "DISPATCHED", tk[t].status}
  BY ReviewOutcome
<1> QED BY <1>1 DEF Cools, Waiting

\* The list step: whoever cools down afterwards did so before and has not cooled down.
LEMMA ListCools ==
    ASSUME Shape, NEW t \in Tickets, NEW ok \in BOOLEAN
    PROVE  /\ Cools(tk[t], AtList(ok)[t])
           /\ AtList(ok)[t].status = "BACKED_OFF" => ~(tk[t].backAge >= Backoff)
           /\ AtList(ok)[t].status \in Active => tk[t].status \in Active
<1>0. tk[t] \in TicketRecord
  BY DEF Shape
<1>1. CASE t \in Forced(ok)
  <2>1. AtList(ok)[t].status = "FAILED"
    BY <1>1, ListStays
  <2> QED BY <2>1 DEF Cools, Waiting, Active
<1>2. CASE t \notin Forced(ok)
  <2>0. AtList(ok)[t] = Refreshed(t)
    BY <1>2 DEF AtList
  <2> DEFINE s == IF DepsSatisfied(t) THEN "PENDING" ELSE "BLOCKED"
  <2>1. CASE tk[t].status = "BACKED_OFF" /\ tk[t].backAge >= Backoff
    <3> DEFINE w == [tk[t] EXCEPT !.status = "PENDING", !.backAge = NoTime]
    <3>1. w.status = "PENDING" /\ w.child = tk[t].child /\ w \in TicketRecord
      BY <1>0, StatusNames DEF TicketRecord
    <3> HIDE DEF w
    <3>2. Refreshed(t) = [w EXCEPT !.status = s]
      BY <2>1, <3>1 DEF Refreshed, w
    <3>3. s \in {"PENDING", "BLOCKED"}
      OBVIOUS
    <3> HIDE DEF s
    <3>4. Refreshed(t).status = s /\ Refreshed(t).child = w.child
      BY <3>1, <3>2 DEF TicketRecord
    <3> QED BY <2>0, <2>1, <3>1, <3>3, <3>4 DEF Cools, Waiting, Active
  <2>2. CASE /\ ~(tk[t].status = "BACKED_OFF" /\ tk[t].backAge >= Backoff)
             /\ tk[t].status \in {"PENDING", "BLOCKED"}
    <3>1. Refreshed(t) = [tk[t] EXCEPT !.status = s]
      BY <2>2 DEF Refreshed
    <3>2. s \in {"PENDING", "BLOCKED"}
      OBVIOUS
    <3> HIDE DEF s
    <3>3. Refreshed(t).status = s /\ Refreshed(t).child = tk[t].child
      BY <1>0, <3>1 DEF TicketRecord
    <3> QED BY <2>0, <2>2, <3>2, <3>3 DEF Cools, Waiting, Active
  <2>3. CASE /\ ~(tk[t].status = "BACKED_OFF" /\ tk[t].backAge >= Backoff)
             /\ tk[t].status \notin {"PENDING", "BLOCKED"}
    <3>1. Refreshed(t) = tk[t]
      BY <2>3 DEF Refreshed
    <3> QED BY <2>0, <2>3, <3>1, CoolsPlainly
  <2> QED BY <2>1, <2>2, <2>3
<1> QED BY <1>1, <1>2

\* The sweep: a retry cools down from now on, without its child.
LEMMA CarvedCools ==
    ASSUME NEW r \in TicketRecord, NEW t
    PROVE  \/ Cools(r, CarvedOut(r, t))
           \/ /\ r.status = "FAILED" /\ ~r.phantom
              /\ CarvedOut(r, t).status = "BACKED_OFF"
              /\ CarvedOut(r, t).child = 0 /\ CarvedOut(r, t).backAge = 0
<1>1. /\ BackedOff(r).status = "BACKED_OFF" /\ BackedOff(r).child = 0
      /\ BackedOff(r).backAge = 0
      /\ PhantomReset(r).status = "PENDING" /\ PhantomReset(r).child = 0
      /\ Abandoned(r).status = "ABANDONED"
  BY DEF TicketRecord, BackedOff, PhantomReset, Abandoned
<1>2. r.retries \in Nat /\ RetryBudget \in Nat
  BY WaveAssumption DEF TicketRecord
<1>3. r.retries < RetryBudget => RetryBudget > 0
  BY <1>2
<1> QED BY <1>1, <1>3 DEF CarvedOut, CarvesPhantom, Cools, Waiting

\* Every step of the tick but the sleep: a ticket cools, or the sweep of this poll
\* backs it off.
LEMMA TickCools ==
    ASSUME OrderInv, \A u \in Tickets : Idle(tk[u]), Tick, ~Sleep, NEW t \in Tickets
    PROVE  \/ Cools(tk[t], tk'[t])
           \/ /\ PollSweep /\ t \in fresh
              /\ tk'[t].status = "BACKED_OFF" /\ tk'[t].child = 0 /\ tk'[t].backAge = 0
<1>0. /\ Shape /\ TodoOpen /\ PollOpen
      /\ tk \in [Tickets -> TicketRecord]
  BY DEF OrderInv, SafeInv, Shape
<1>1. CASE Top
  <2>1. PICK ok \in BOOLEAN : tk' = [u \in Tickets |->
            CASE u \in Forced(ok) -> ForceFailed(u)
              [] tk[u].status \in {"PENDING", "BLOCKED"} ->
                   [tk[u] EXCEPT !.status = IF DepsSatisfied(u) THEN "PENDING"
                                            ELSE "BLOCKED"]
              [] OTHER -> tk[u]]
    BY <1>1 DEF Top
  <2>2. CASE t \in Forced(ok)
    <3>1. tk[t].status \notin {"PENDING", "BLOCKED"} /\ ForceFailed(t).status = "FAILED"
      BY <1>0, <2>2, ListStays DEF Active
    <3>2. tk'[t] = ForceFailed(t)
      BY <2>1, <2>2, <3>1
    <3> QED BY <3>1, <3>2 DEF Cools, Waiting
  <2>3. CASE t \notin Forced(ok) /\ tk[t].status \in {"PENDING", "BLOCKED"}
    <3> DEFINE s == IF DepsSatisfied(t) THEN "PENDING" ELSE "BLOCKED"
    <3>1. tk'[t] = [tk[t] EXCEPT !.status = s]
      BY <2>1, <2>3
    <3>2. s \in {"PENDING", "BLOCKED"}
      OBVIOUS
    <3> HIDE DEF s
    <3>3. tk'[t].status = s /\ tk'[t].child = tk[t].child
      BY <1>0, <3>1 DEF TicketRecord
    <3> QED BY <2>3, <3>2, <3>3 DEF Cools, Waiting
  <2>4. CASE t \notin Forced(ok) /\ tk[t].status \notin {"PENDING", "BLOCKED"}
    BY <2>1, <2>4, CoolsPlainly
  <2> QED BY <2>2, <2>3, <2>4
<1>2. CASE PollListFails \/ PollList
  <2>1. PICK ok \in BOOLEAN : tk' = AtList(ok)
    BY <1>2 DEF PollListFails, PollList
  <2> QED BY <1>0, <2>1, ListCools
<1>3. CASE PollNothing
  <2>1. PICK ok \in BOOLEAN : SweepOver(AtList(ok), Forced(ok))
    BY <1>3 DEF PollNothing
  <2>2. CASE t \in Forced(ok)
    <3>1. tk'[t] = CarvedOut(ForceFailed(t), t) /\ ForceFailed(t).phantom
          /\ ForceFailed(t).status = "FAILED"
      BY <1>0, <2>1, <2>2, ListStays DEF SweepOver
    <3>2. ForceFailed(t) \in TicketRecord
      BY <1>0, ListedType
    <3>3. Cools(ForceFailed(t), tk'[t])
      BY <3>1, <3>2, CarvedCools
    <3> QED BY <3>1, <3>3 DEF Cools, Waiting
  <2>3. CASE t \notin Forced(ok)
    <3>1. tk'[t] = AtList(ok)[t]
      BY <2>1, <2>3 DEF SweepOver
    <3> QED BY <1>0, <3>1, ListCools
  <2> QED BY <2>2, <2>3
<1>4. CASE PollSweep
  <2>1. tk'[t] = IF t \in fresh THEN CarvedOut(tk[t], t) ELSE tk[t]
    BY <1>4 DEF PollSweep, SweepOver
  <2>2. CASE t \in fresh
    <3>1. tk'[t] = CarvedOut(tk[t], t) /\ tk[t] \in TicketRecord
      BY <1>0, <2>1, <2>2
    <3> QED BY <1>4, <2>2, <3>1, CarvedCools
  <2>3. CASE t \notin fresh
    BY <2>1, <2>3, CoolsPlainly
  <2> QED BY <2>2, <2>3
<1>5. CASE Snapshot
  <2>1. \A r \in TicketRecord : /\ Snapped(r).status = r.status
                                /\ Snapped(r).child = r.child
                                /\ Snapped(r).backAge = r.backAge
    BY DEF TicketRecord, Snapped
  <2>2. tk'[t] = Snapped(tk[t])
    BY <1>5 DEF Snapshot
  <2> QED BY <1>0, <2>1, <2>2, CoolsSame
<1>6. CASE ForcePass
  <2>1. \A r \in TicketRecord : Abandoned(r).status = "ABANDONED"
    BY DEF TicketRecord, Abandoned
  <2>2. tk'[t] = tk[t] \/ tk'[t] = Abandoned(tk[t])
    BY <1>6 DEF ForcePass
  <2>3. tk'[t] = tk[t] \/ tk'[t].status = "ABANDONED"
    BY <1>0, <2>1, <2>2
  <2> QED BY <2>3, CoolsPlainly DEF Waiting
<1>7. CASE Coerce
  <2> DEFINE q == [tk[t] EXCEPT !.status = "FAILED"]
  <2>1. q.status = "FAILED"
    BY <1>0 DEF TicketRecord
  <2>2. tk'[t] = tk[t] \/ tk'[t] = q
    BY <1>7 DEF Coerce
  <2> HIDE DEF q
  <2> QED BY <2>1, <2>2, CoolsPlainly DEF Waiting
<1>8. CASE EndDispatch \/ PollClaimed \/ ReviewsEnd \/ HardStop \/ Finish \/ CancelExit
             \/ GoOn
  <2>1. tk'[t] = tk[t]
    BY <1>8 DEF EndDispatch, PollClaimed, ReviewsEnd, HardStop, Finish, CancelExit, GoOn
  <2> QED BY <2>1, CoolsPlainly
<1>9. ASSUME NEW u \in Tickets, DispatchTicket(u) \/ PollTicket(u) \/ ReviewTicket(u)
      PROVE  Cools(tk[t], tk'[t])
  <2>1. OthersKept(u)
    BY <1>0, <1>9, DispatchOutcome, PollOutcome, ReviewOutcome
  <2>2. Cools(tk[u], tk'[u])
    BY <1>0, <1>9, DispatchCools, PollCools, ReviewCools
  <2> QED BY <2>1, <2>2, CoolsPlainly DEF OthersKept
<1> QED BY <1>1, <1>2, <1>3, <1>4, <1>5, <1>6, <1>7, <1>8, <1>9 DEF Tick, EndOfTick

-----------------------------------------------------------------------------
(* Where the tick goes, and what the grace timer does on the way.          *)

Late == {"claimed", "poll", "reviews", "snapshot", "tail", "sleep"}

\* A step after the top of the tick and before its sleep.
LEMMA TickPlaces ==
    ASSUME Tick, ~Sleep, ~Top
    PROVE  /\ quiet' = quiet
           /\ pc = "tail" \/ quietAge' = quietAge
           /\ pc' \in Late => pc \in Late \cup {"list"} /\ pc # "sleep"
           /\ pc \in {"reviews", "snapshot"} => pc' \in {"reviews", "snapshot", "tail"}
           /\ pc = "list" => PollNothing \/ PollListFails \/ PollList
<1>1. CASE EndDispatch
  BY <1>1 DEF EndDispatch, Late
<1>2. CASE PollNothing \/ PollListFails \/ PollList
  BY <1>2 DEF PollNothing, PollListFails, PollList, listRest, Late
<1>3. CASE PollClaimed \/ PollSweep
  BY <1>3 DEF PollClaimed, PollSweep, listRest, Late
<1>4. CASE ReviewsEnd
  BY <1>4 DEF ReviewsEnd, local, Late
<1>5. CASE HardStop \/ Snapshot
  BY <1>5 DEF HardStop, Snapshot, local, Late
<1>6. CASE EndOfTick
  BY <1>6 DEF EndOfTick, ForcePass, Finish, CancelExit, Coerce, GoOn, StaysOn, Moving,
              Sample, tailRest, local, Late
<1>7. ASSUME NEW t \in Tickets, DispatchTicket(t)
      PROVE  pc = "dispatch" /\ pc' = pc /\ UNCHANGED <<quiet, quietAge>>
  <2>1. Candidate(t)
    BY <1>7 DEF DispatchTicket, HoldBack, Ss08Acked, Ss08Deferred, SkipHuman,
                SkipShipped, MergeInherited, AwaitInherited, RefuseDuplicate,
                DispatchChild, DispatchRaises, Undispatched, NotShipped, Dispatchable,
                Considered
  <2>2. pc' = pc /\ UNCHANGED <<quiet, quietAge>>
    BY <1>7 DEF DispatchTicket, HoldBack, Ss08Acked, Ss08Deferred, SkipHuman,
                SkipShipped, MergeInherited, AwaitInherited, RefuseDuplicate,
                DispatchChild, DispatchRaises, dispatchRest, gateRest
  <2> QED BY <2>1, <2>2 DEF Candidate
<1>8. ASSUME NEW t \in Tickets, PollTicket(t)
      PROVE  pc = "poll" /\ pc' = pc /\ UNCHANGED <<quiet, quietAge>>
  BY <1>8 DEF PollTicket, PollAbandon, PollTimeout, PollPhantom, PollRunning,
              PollFailed, PollGap, PollPr, PollSilent, Polled, pollRest
<1>9. ASSUME NEW t \in Tickets, ReviewTicket(t)
      PROVE  /\ pc = "reviews" /\ pc' \in {"reviews", "snapshot"}
             /\ UNCHANGED <<quiet, quietAge>>
  BY <1>9 DEF ReviewTicket, ReviewApproved, ReviewTriage, ReviewExhausted, ReviewHuman,
              ReviewRespawn, RespawnRaises, ReviewSilent, FixRound, FixWanted,
              ChangesWanted, Eligible, reviewRest, local
<1> QED BY <1>1, <1>2, <1>3, <1>4, <1>5, <1>6, <1>7, <1>8, <1>9 DEF Tick, Late

\* A step at the tail is an end of the tick; nothing ticks once the wave is done.
LEMMA TailIsEnd ==
    ASSUME Tick, ~EndOfTick
    PROVE  pc \notin {"tail", "done"}
<1>1. ASSUME NEW t \in Tickets, DispatchTicket(t) PROVE pc = "dispatch"
  BY <1>1 DEF DispatchTicket, HoldBack, Ss08Acked, Ss08Deferred, SkipHuman,
              SkipShipped, MergeInherited, AwaitInherited, RefuseDuplicate,
              DispatchChild, DispatchRaises, Undispatched, NotShipped, Dispatchable,
              Considered, Candidate
<1>2. ASSUME NEW t \in Tickets, PollTicket(t) PROVE pc = "poll"
  BY <1>2 DEF PollTicket, PollAbandon, PollTimeout, PollPhantom, PollRunning,
              PollFailed, PollGap, PollPr, PollSilent, Polled
<1>3. ASSUME NEW t \in Tickets, ReviewTicket(t) PROVE pc = "reviews"
  BY <1>3 DEF ReviewTicket, ReviewApproved, ReviewTriage, ReviewExhausted, ReviewHuman,
              ReviewRespawn, RespawnRaises, ReviewSilent, FixRound, FixWanted,
              ChangesWanted, Eligible
<1>4. CASE \/ Top \/ EndDispatch \/ PollNothing \/ PollListFails \/ PollList
           \/ PollClaimed \/ PollSweep \/ ReviewsEnd \/ HardStop \/ Snapshot \/ Sleep
  BY <1>4 DEF Top, EndDispatch, PollNothing, PollListFails, PollList, PollClaimed,
              PollSweep, ReviewsEnd, HardStop, Snapshot, Sleep
<1> QED BY <1>1, <1>2, <1>3, <1>4 DEF Tick

\* At the tail, only the deadlock detector and the stalled-wave breaker touch a
\* ticket.
LEMMA TailKeeps ==
    ASSUME MaxCrashes = 0, OrderInv, [Next]_vars, pc = "tail", ~Coerce, ~ForcePass
    PROVE  tk' = tk
<1>1. CASE Tick
  <2>1. EndOfTick
    BY <1>1, TailIsEnd
  <2> QED BY <2>1 DEF EndOfTick, Finish, CancelExit, GoOn
<1>2. CASE CrashAndResume
  BY <1>2, CrashFree DEF OrderInv, SafeInv
<1>3. CASE World \/ WaveOver \/ UNCHANGED vars
  BY <1>3 DEF World, LabelHuman, KidClaimed, KidOpensPr, KidEnds, KidLost, ReviewEnds,
              outside, WaveOver, vars, mem
<1> QED BY <1>1, <1>2, <1>3 DEF Next

\* The sleep ages a ticket, and changes nothing else of it.
LEMMA SleepAges ==
    ASSUME Shape, Sleep, NEW t \in Tickets
    PROVE  /\ tk'[t].status = tk[t].status /\ tk'[t].child = tk[t].child
           /\ tk'[t].backAge = Older(tk[t].backAge, Backoff)
<1>1. \A r \in TicketRecord : /\ Aged(r).status = r.status /\ Aged(r).child = r.child
                              /\ Aged(r).backAge = Older(r.backAge, Backoff)
  BY DEF TicketRecord, Aged
<1>2. tk[t] \in TicketRecord /\ tk'[t] = Aged(tk[t])
  BY DEF Shape, Sleep
<1> QED BY <1>1, <1>2

\* Whoever waits has no child, whatever the tick does.
LEMMA IdleTick ==
    ASSUME OrderInv, \A u \in Tickets : Idle(tk[u]), Tick, NEW t \in Tickets
    PROVE  Idle(tk'[t])
<1>1. CASE Sleep
  BY <1>1, SleepAges DEF OrderInv, SafeInv, Idle
<1>2. CASE ~Sleep
  <2>1. Cools(tk[t], tk'[t]) => Idle(tk'[t])
    BY DEF Cools, Idle
  <2>2. tk'[t].child = 0 => Idle(tk'[t])
    BY DEF Idle
  <2> QED BY <1>2, <2>1, <2>2, TickCools
<1> QED BY <1>1, <1>2

\* A list step leaves nobody cooling who has cooled down.
LEMMA ListLeavesCool ==
    ASSUME Shape, NEW t \in Tickets, PollNothing \/ PollListFails \/ PollList,
           tk'[t].status = "BACKED_OFF"
    PROVE  ~(tk[t].backAge >= Backoff)
<1>1. CASE PollListFails \/ PollList
  <2>1. PICK ok \in BOOLEAN : tk' = AtList(ok)
    BY <1>1 DEF PollListFails, PollList
  <2> QED BY <2>1, ListCools
<1>2. CASE PollNothing
  <2>1. PICK ok \in BOOLEAN : SweepOver(AtList(ok), Forced(ok))
    BY <1>2 DEF PollNothing
  <2>2. CASE t \in Forced(ok)
    <3>1. tk'[t] = CarvedOut(ForceFailed(t), t) /\ ForceFailed(t).phantom
          /\ ForceFailed(t).status = "FAILED"
      BY <2>1, <2>2, ListStays DEF SweepOver
    <3>2. ForceFailed(t) \in TicketRecord
      BY ListedType DEF Shape
    <3>3. Cools(ForceFailed(t), tk'[t])
      BY <3>1, <3>2, CarvedCools
    <3> QED BY <3>1, <3>3 DEF Cools, Waiting
  <2>3. CASE t \notin Forced(ok)
    <3>1. tk'[t] = AtList(ok)[t]
      BY <2>1, <2>3 DEF SweepOver
    <3> QED BY <3>1, ListCools
  <2> QED BY <2>2, <2>3
<1> QED BY <1>1, <1>2

-----------------------------------------------------------------------------
(* The conjuncts of the invariant, one by one.                             *)

\* A quiet tick finds nothing on its way either.
LEMMA QuietTickTick ==
    ASSUME OrderInv, CoolInv, Tick
    PROVE  QuietTick'
<1>0. /\ Shape /\ Shape'
      /\ \A u \in Tickets : Idle(tk[u]) /\ Idle(tk'[u])
  BY IdleTick, SafeStep DEF OrderInv, SafeInv, CoolInv, Next
<1> SUFFICES ASSUME quiet', pc' \in {"dispatch", "list", "claimed", "poll"}
             PROVE  /\ WithStatus(Active)' = {}
                    /\ pc' # "list" => todo' = {}
                    /\ pc' \in {"claimed", "poll"} => fresh' = {}
  BY DEF QuietTick
<1>1. CASE Top
  <2>1. PICK ok \in BOOLEAN :
          /\ tk' = [u \in Tickets |->
               CASE u \in Forced(ok) -> ForceFailed(u)
                 [] tk[u].status \in {"PENDING", "BLOCKED"} ->
                      [tk[u] EXCEPT !.status = IF DepsSatisfied(u) THEN "PENDING"
                                               ELSE "BLOCKED"]
                 [] OTHER -> tk[u]]
          /\ inFlight' = WithStatus(Active) \ Forced(ok)
          /\ quiet' = (inFlight' = {} /\ todo' = {})
    BY <1>1 DEF Top
  <2>2. ASSUME NEW u \in Tickets, tk'[u].status \in Active
        PROVE  u \in WithStatus(Active) \ Forced(ok)
    <3>1. u \notin Forced(ok)
      <4> SUFFICES ASSUME u \in Forced(ok) PROVE FALSE
        OBVIOUS
      <4>1. ForceFailed(u).status = "FAILED" /\ tk[u].status \notin {"PENDING", "BLOCKED"}
        BY <1>0, ListStays DEF Active
      <4>2. tk'[u] = ForceFailed(u)
        BY <2>1, <4>1
      <4> QED BY <2>2, <4>1, <4>2 DEF Active
    <3>2. tk[u].status \notin {"PENDING", "BLOCKED"}
      <4> SUFFICES ASSUME tk[u].status \in {"PENDING", "BLOCKED"} PROVE FALSE
        OBVIOUS
      <4> DEFINE s == IF DepsSatisfied(u) THEN "PENDING" ELSE "BLOCKED"
      <4>1. tk'[u] = [tk[u] EXCEPT !.status = s]
        BY <2>1, <3>1
      <4>2. s \in {"PENDING", "BLOCKED"}
        OBVIOUS
      <4> HIDE DEF s
      <4>3. tk'[u].status = s
        BY <1>0, <4>1 DEF Shape, TicketRecord
      <4> QED BY <2>2, <4>2, <4>3 DEF Active
    <3>3. tk'[u] = tk[u]
      BY <2>1, <3>1, <3>2
    <3> QED BY <2>2, <3>1, <3>3 DEF WithStatus
  <2>3. inFlight' = {} /\ todo' = {}
    BY <2>1
  <2> QED BY <1>1, <2>1, <2>2, <2>3 DEF WithStatus, Top
<1>2. CASE EndDispatch
  BY <1>2 DEF EndDispatch, CoolInv, QuietTick, WithStatus
<1>3. CASE PollList
  <2>1. PICK ok \in BOOLEAN : tk' = AtList(ok) /\ fresh' = Forced(ok)
    BY <1>3 DEF PollList
  <2>2. quiet /\ pc = "list"
    BY <1>3 DEF PollList, listRest
  <2>3. \A u \in Tickets : tk[u].status \notin Active
    BY <2>2 DEF CoolInv, QuietTick, WithStatus
  <2>4. \A u \in Tickets : tk'[u].status \notin Active
    BY <1>0, <2>1, <2>3, ListCools
  <2>5. fresh' = {}
    BY <2>1, <2>3 DEF Forced, Orphans, WithStatus
  <2>6. todo' = {}
    <3> SUFFICES ASSUME NEW u \in todo' PROVE FALSE
      OBVIOUS
    <3>1. /\ u \in Tickets /\ tk'[u].child # 0
          /\ tk'[u].status \notin Terminal \cup HandedOff
      BY <1>3 DEF PollList, WithChild
    <3>2. tk'[u].status \in Status
      BY <1>0, <3>1 DEF Shape, TicketRecord
    <3>3. tk'[u].status \notin Waiting
      BY <1>0, <3>1 DEF Idle
    <3> QED BY <2>4, <3>1, <3>2, <3>3 DEF Status, HandedOff, Waiting
  <2> QED BY <2>4, <2>5, <2>6 DEF WithStatus
<1>4. CASE PollClaimed
  BY <1>4 DEF PollClaimed, listRest, CoolInv, QuietTick, WithStatus
<1>5. CASE PollNothing \/ PollListFails \/ PollSweep
  BY <1>5 DEF PollNothing, PollListFails, PollSweep
<1>6. CASE ReviewsEnd \/ HardStop \/ Snapshot \/ EndOfTick \/ Sleep
  BY <1>6 DEF ReviewsEnd, HardStop, Snapshot, EndOfTick, ForcePass, Finish, CancelExit, Coerce,
              GoOn, Sleep
<1>7. ASSUME NEW t \in Tickets, DispatchTicket(t) PROVE FALSE
  <2>1. Candidate(t)
    BY <1>7 DEF DispatchTicket, HoldBack, Ss08Acked, Ss08Deferred, SkipHuman,
                SkipShipped, MergeInherited, AwaitInherited, RefuseDuplicate,
                DispatchChild, DispatchRaises, Undispatched, NotShipped, Dispatchable,
                Considered
  <2>2. quiet' = quiet
    BY <1>7 DEF DispatchTicket, HoldBack, Ss08Acked, Ss08Deferred, SkipHuman,
                SkipShipped, MergeInherited, AwaitInherited, RefuseDuplicate,
                DispatchChild, DispatchRaises, dispatchRest, gateRest
  <2> QED BY <2>1, <2>2 DEF Candidate, CoolInv, QuietTick
<1>8. ASSUME NEW t \in Tickets, PollTicket(t) PROVE FALSE
  <2>1. pc = "poll" /\ t \in todo /\ quiet' = quiet
    BY <1>8 DEF PollTicket, PollAbandon, PollTimeout, PollPhantom, PollRunning,
                PollFailed, PollGap, PollPr, PollSilent, Polled, pollRest
  <2> QED BY <2>1 DEF CoolInv, QuietTick
<1>9. ASSUME NEW t \in Tickets, ReviewTicket(t) PROVE pc' \in {"reviews", "snapshot"}
  BY <1>9 DEF ReviewTicket, ReviewApproved, ReviewTriage, ReviewExhausted, ReviewHuman,
              ReviewRespawn, RespawnRaises, ReviewSilent, FixRound, FixWanted,
              ChangesWanted, Eligible, reviewRest
<1> QED BY <1>1, <1>2, <1>3, <1>4, <1>5, <1>6, <1>7, <1>8, <1>9 DEF Tick

\* The grace never runs ahead of a cooling ticket's clock.
LEMMA GraceLaterTick ==
    ASSUME OrderInv, CoolInv, Tick, NEW t \in Tickets
    PROVE  GraceLater(t)'
<1>0. /\ Shape /\ \A u \in Tickets : Idle(tk[u])
      /\ Backoff \in Nat /\ Grace \in Nat /\ quietAge \in Nat \cup {NoTime}
  BY WaveAssumption DEF OrderInv, SafeInv, CoolInv, Shape, MemOK
<1>9. QuietFor \in Nat
  BY <1>0 DEF QuietFor, NoTime
<1> SUFFICES ASSUME tk'[t].status = "BACKED_OFF"
             PROVE  /\ tk'[t].backAge \in Nat
                    /\ \/ QuietFor' <= tk'[t].backAge
                       \/ ~quiet' /\ pc' \in {"reviews", "snapshot", "tail", "done"}
  BY DEF GraceLater
<1>1. CASE Sleep
  <2>1. tk[t].status = "BACKED_OFF" /\ tk'[t].backAge = Older(tk[t].backAge, Backoff)
    BY <1>0, <1>1, SleepAges
  <2>2. pc = "sleep" /\ quietAge' = Older(quietAge, Grace)
    BY <1>1 DEF Sleep
  <2>3. tk[t].backAge \in Nat /\ QuietFor <= tk[t].backAge
    BY <2>1, <2>2 DEF CoolInv, GraceLater
  <2>4. tk[t].backAge <= Backoff
    BY <1>0, <2>1, <2>2, <2>3 DEF CoolInv, StillCool
  <2>5. tk'[t].backAge = tk[t].backAge + 1
    BY <1>0, <2>1, <2>3, <2>4 DEF Older, NoTime
  <2>6. QuietFor' <= QuietFor + 1
    BY <1>0, <2>2 DEF Older, QuietFor, NoTime
  <2>7. QuietFor' \in Nat
    BY <1>0, <2>2 DEF Older, QuietFor, NoTime
  <2> QED BY <1>9, <2>3, <2>5, <2>6, <2>7
<1>2. CASE ~Sleep /\ PollSweep /\ t \in fresh /\ tk'[t].backAge = 0
  <2>1. pc = "poll" /\ pc' = "reviews" /\ quiet' = quiet
    BY <1>2 DEF PollSweep, listRest
  <2>2. ~quiet
    BY <1>2, <2>1 DEF CoolInv, QuietTick
  <2> QED BY <1>2, <2>1, <2>2
<1>3. CASE ~Sleep /\ Cools(tk[t], tk'[t])
  <2>1. tk[t].status = "BACKED_OFF" /\ tk'[t].backAge = tk[t].backAge
    BY <1>3 DEF Cools, Waiting
  <2>2. /\ tk[t].backAge \in Nat
        /\ \/ QuietFor <= tk[t].backAge
           \/ ~quiet /\ pc \in {"reviews", "snapshot", "tail", "done"}
    BY <2>1 DEF CoolInv, GraceLater
  <2>3. CASE Top
    <3>1. pc = "top" /\ quietAge' = quietAge
      BY <2>3 DEF Top
    <3> QED BY <2>1, <2>2, <3>1 DEF QuietFor
  <2>4. CASE EndOfTick
    <3>1. CASE ForcePass \/ Finish \/ CancelExit
      <4>1. quietAge' = quietAge /\ quiet' = quiet /\ pc' = "done"
        BY <3>1 DEF ForcePass, Finish, CancelExit, tailRest, local
      <4> QED BY <2>1, <2>2, <4>1 DEF QuietFor
    <3>2. CASE Coerce
      <4>1. QuietFor' = 0
        BY <3>2 DEF Coerce, QuietFor
      <4> QED BY <2>1, <2>2, <4>1
    <3>3. CASE GoOn
      <4>1. quietAge' = IF quiet THEN QuietFor ELSE NoTime
        BY <3>3 DEF GoOn
      <4>2. CASE quiet
        <5>1. QuietFor' = QuietFor
          BY <1>9, <4>1, <4>2 DEF QuietFor, NoTime
        <5> QED BY <2>1, <2>2, <4>2, <5>1
      <4>3. CASE ~quiet
        <5>1. QuietFor' = 0
          BY <4>1, <4>3 DEF QuietFor
        <5> QED BY <2>1, <2>2, <5>1
      <4> QED BY <4>2, <4>3
    <3> QED BY <2>4, <3>1, <3>2, <3>3 DEF EndOfTick
  <2>5. CASE ~Top /\ ~EndOfTick
    <3>1. quiet' = quiet /\ (pc = "tail" \/ quietAge' = quietAge)
          /\ (pc \in {"reviews", "snapshot"} => pc' \in {"reviews", "snapshot", "tail"})
      BY <1>3, <2>5, TickPlaces
    <3>2. pc \notin {"tail", "done"}
      BY <1>3, <2>5, TailIsEnd
    <3> QED BY <2>1, <2>2, <3>1, <3>2 DEF QuietFor
  <2> QED BY <2>3, <2>4, <2>5
<1> QED BY <1>0, <1>1, <1>2, <1>3, TickCools

\* Whoever still cools after the wake-up of a tick has not cooled down.
LEMMA StillCoolTick ==
    ASSUME OrderInv, CoolInv, Tick, NEW t \in Tickets
    PROVE  StillCool(t)'
<1>0. /\ Shape /\ \A u \in Tickets : Idle(tk[u]) /\ Backoff \in Nat
  BY WaveAssumption DEF OrderInv, SafeInv, CoolInv
<1> SUFFICES ASSUME tk'[t].status = "BACKED_OFF", pc' \in Late
             PROVE  tk'[t].backAge < Backoff \/ tk'[t].backAge = 0
  BY DEF StillCool, Late
<1>1. ~Sleep /\ ~Top
  BY DEF Sleep, Top, Late
<1>2. CASE PollSweep /\ t \in fresh /\ tk'[t].backAge = 0
  BY <1>2
<1>3. CASE Cools(tk[t], tk'[t])
  <2>1. tk[t].status = "BACKED_OFF" /\ tk'[t].backAge = tk[t].backAge
    BY <1>3 DEF Cools, Waiting
  <2>2. tk[t].backAge \in Nat
    BY <2>1 DEF CoolInv, GraceLater
  <2>3. pc \in Late \cup {"list"}
    BY <1>1, TickPlaces
  <2>4. CASE pc = "list"
    <3>1. ~(tk[t].backAge >= Backoff)
      BY <1>0, <1>1, <2>4, TickPlaces, ListLeavesCool
    <3> QED BY <1>0, <2>1, <2>2, <3>1
  <2>5. CASE pc \in Late
    BY <2>1, <2>5 DEF CoolInv, StillCool, Late
  <2> QED BY <2>3, <2>4, <2>5
<1> QED BY <1>0, <1>1, <1>2, <1>3, TickCools

-----------------------------------------------------------------------------
(* The theorem.                                                            *)

\* Initially nobody cools down, and nobody has a child.
LEMMA CoolInit ==
    ASSUME Init, "BACKED_OFF" \notin Hydrated
    PROVE  CoolInv
<1>1. PICK s \in [Tickets -> Hydrated] : tk = [t \in Tickets |-> NewTicket(s[t])]
  BY DEF Init
<1>2. \A t \in Tickets : tk[t].child = 0 /\ tk[t].status \in Hydrated
  BY <1>1 DEF NewTicket
<1>3. ~quiet
  BY DEF Init
<1> QED BY <1>2, <1>3 DEF CoolInv, Idle, GraceLater, StillCool, QuietTick

\* Every step keeps the invariant, as long as the daemon does not crash.
LEMMA CoolNext ==
    ASSUME MaxCrashes = 0, OrderInv, CoolInv, [Next]_vars
    PROVE  CoolInv'
<1>1. CASE Tick
  BY <1>1, IdleTick, QuietTickTick, GraceLaterTick, StillCoolTick DEF CoolInv
<1>2. CASE CrashAndResume
  BY <1>2, CrashFree DEF OrderInv, SafeInv
<1>3. CASE World \/ WaveOver \/ UNCHANGED vars
  <2>1. UNCHANGED <<mem, local>>
    BY <1>3 DEF World, LabelHuman, KidClaimed, KidOpensPr, KidEnds, KidLost, ReviewEnds,
                outside, WaveOver, vars
  <2> QED BY <2>1 DEF mem, local, CoolInv, Idle, GraceLater, StillCool, QuietTick,
                      QuietFor, WithStatus
<1> QED BY <1>1, <1>2, <1>3 DEF Next

\* With a back-off no longer than the grace, the deadlock detector fails no ticket
\* that is cooling down before a retry (_dispatch_wave, _wake_backed_off_tickets),
\* whatever children, reviews and GitHub do, as long as the daemon does not crash.
THEOREM CoolingKeptFromGrace ==
    ASSUME MaxCrashes = 0, Backoff <= Grace, Grace > 0, "BACKED_OFF" \notin Hydrated
    PROVE  Spec => CoolingSurvivesGrace
<1>1. Init => CoolInv
  BY CoolInit
<1>2. OrderInv /\ CoolInv /\ [Next]_vars => CoolInv'
  BY CoolNext
<1>3. ASSUME OrderInv, CoolInv, [Next]_vars, pc = "tail", NEW t \in Tickets,
             tk[t].status = "BACKED_OFF", tk'[t].status = "FAILED"
      PROVE  FALSE
  <2>0. Backoff \in Nat /\ Grace \in Nat /\ tk \in [Tickets -> TicketRecord]
        /\ quietAge \in Nat \cup {NoTime}
    BY <1>3, WaveAssumption DEF OrderInv, SafeInv, Shape, MemOK
  <2>1. CASE Coerce
    <3>1. quiet /\ QuietFor >= Grace
      BY <2>1 DEF Coerce
    <3>2. tk[t].backAge \in Nat /\ QuietFor <= tk[t].backAge
      BY <1>3, <3>1 DEF CoolInv, GraceLater
    <3>3. tk[t].backAge < Backoff \/ tk[t].backAge = 0
      BY <1>3 DEF CoolInv, StillCool
    <3>4. QuietFor \in Nat
      BY <2>0 DEF QuietFor, NoTime
    <3> QED BY <2>0, <3>1, <3>2, <3>3, <3>4
  <2>2. CASE ForcePass
    <3>1. \A r \in TicketRecord : Abandoned(r).status = "ABANDONED"
      BY DEF TicketRecord, Abandoned
    <3>2. tk'[t] = tk[t] \/ tk'[t] = Abandoned(tk[t])
      BY <2>2 DEF ForcePass
    <3> QED BY <1>3, <2>0, <3>1, <3>2
  <2>3. CASE ~Coerce /\ ~ForcePass
    <3>1. tk' = tk
      BY <1>3, <2>3, TailKeeps
    <3> QED BY <1>3, <3>1
  <2> QED BY <2>1, <2>2, <2>3
<1>4. OrderInv /\ CoolInv /\ [Next]_vars
        => [pc = "tail" => \A t \in Tickets :
              tk[t].status = "BACKED_OFF" => tk'[t].status # "FAILED"]_vars
  BY <1>3
<1> QED BY <1>1, <1>2, <1>4, OrderAlways, PTL DEF Spec, CoolingSurvivesGrace
=============================================================================
