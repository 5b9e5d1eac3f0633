-------------------------- MODULE WaveLoopVerdicts --------------------------
(* What the wave loop promises about verdicts, reviews and the idempotency *)
(* ledger, for any tickets and limits: a verdict stands, no review outlives *)
(* its round, no leftover ledger entry locks a waiting ticket out, the caps *)
(* hold on the real statuses, every builder of a ticket is paid for, and    *)
(* the wave keeps the contract of Shipment.                                 *)
EXTENDS WaveLoopProofs, FiniteSetTheorems

Waiting == {"PENDING", "BLOCKED", "BACKED_OFF"}

\* A review belongs to a ticket that waits for it, or that has its verdict.
Settled(r) == r.review # 0 => r.status \in Terminal \cup {"AWAITING_REVIEW"}

\* No restart, or none that could find a checkpoint written in the middle of a tick.
Whole == MaxCrashes = 0 \/ (Ss08Tickets = {} /\ "budget" \notin Signals)

\* The poll looks at builders at work only, and what it fails had no review in this
\* round, unless a restart has brought one.
PollOpen ==
    pc \in {"claimed", "poll"} =>
        /\ \A t \in todo : tk[t].status \notin HandedOff
        /\ Whole => \A t \in fresh : tk[t].status = "FAILED" => tk[t].review = 0

Reviewed ==
    /\ \A t \in Tickets : Settled(tk[t])
    /\ saved.valid => \A t \in Tickets : Settled(saved.tk[t])

\* The strengthening: SafeInv, and where a review may be.
OrderInv == SafeInv /\ PollOpen /\ (Whole => Reviewed)

OthersKept(t) == \A u \in Tickets \ {t} : tk'[u] = tk[u]

-----------------------------------------------------------------------------
(* What one step may make of its ticket.                                   *)

\* A dispatch decision: the ticket is left waiting, ends, waits for a review, or
\* gets a builder.
LEMMA DispatchOutcome ==
    ASSUME Shape, TodoOpen, NEW t \in Tickets, DispatchTicket(t)
    PROVE  /\ pc = "dispatch" /\ tk[t].status = "PENDING"
           /\ OthersKept(t)
           /\ \/ tk'[t].review = tk[t].review /\ tk'[t].status # "AWAITING_REVIEW"
              \/ tk'[t].review # 0 /\ tk'[t].status = "AWAITING_REVIEW"
           /\ \/ /\ UNCHANGED ledger /\ (UNCHANGED inFlight \/ tk' = tk)
                 /\ tk'[t].child = tk[t].child
                 /\ tk'[t].status \in {"PENDING", "FAILED", "ESCALATED", "MERGED_GREEN",
                                       "AWAITING_REVIEW"}
              \/ DispatchChild(t) /\ tk'[t].status = "DISPATCHED"
           /\ inFlight \subseteq inFlight'
<1>0. tk[t] \in TicketRecord /\ t \in DOMAIN tk /\ tk \in [Tickets -> TicketRecord]
  BY DEF Shape
<1>20. Candidate(t)
  BY DEF DispatchTicket, HoldBack, Ss08Acked, Ss08Deferred, SkipHuman, SkipShipped,
         MergeInherited, AwaitInherited, RefuseDuplicate, DispatchChild, DispatchRaises,
         Undispatched, NotShipped, Dispatchable, Considered
<1>21. pc = "dispatch" /\ tk[t].status = "PENDING"
  BY <1>20 DEF Candidate, TodoOpen
<1>1. CASE HoldBack(t) \/ Ss08Acked(t) \/ RefuseDuplicate(t) \/ DispatchRaises(t)
  <2>1. tk' = tk /\ UNCHANGED ledger /\ inFlight \subseteq inFlight'
    BY <1>1 DEF HoldBack, Ss08Acked, RefuseDuplicate, DispatchRaises, gateRest
  <2> QED BY <1>21, <2>1 DEF OthersKept
<1>2. ASSUME NEW s \in {"FAILED", "ESCALATED"}, tk' = [tk EXCEPT ![t].status = s],
             UNCHANGED <<ledger, inFlight>>
      PROVE  /\ OthersKept(t) /\ tk'[t].review = tk[t].review
             /\ tk'[t].child = tk[t].child /\ tk'[t].status = s
  BY <1>0, <1>2 DEF TicketRecord, OthersKept
<1>3. CASE Ss08Deferred(t)
  <2>1. tk' = [tk EXCEPT ![t].status = "FAILED"] /\ UNCHANGED <<ledger, inFlight>>
    BY <1>3 DEF Ss08Deferred, gateRest
  <2> QED BY <1>2, <1>21, <2>1
<1>4. CASE SkipHuman(t)
  <2>1. tk' = [tk EXCEPT ![t].status = "ESCALATED"] /\ UNCHANGED <<ledger, inFlight>>
    BY <1>4 DEF SkipHuman
  <2> QED BY <1>2, <1>21, <2>1
<1>5. CASE SkipShipped(t)
  <2>1. /\ tk' = [tk EXCEPT ![t].status = "MERGED_GREEN", ![t].pr = TRUE]
        /\ UNCHANGED <<ledger, inFlight>>
    BY <1>5 DEF SkipShipped
  <2>2. /\ OthersKept(t) /\ tk'[t].review = tk[t].review
        /\ tk'[t].child = tk[t].child /\ tk'[t].status = "MERGED_GREEN"
    BY <1>0, <2>1 DEF TicketRecord, OthersKept
  <2> QED BY <1>21, <2>1, <2>2
<1>6. CASE MergeInherited(t)
  <2>1. Merge(t, TRUE) /\ UNCHANGED <<ledger, inFlight>>
    BY <1>6 DEF MergeInherited
  <2>2. PICK s \in {"MERGED_GREEN", "FAILED"}, k \in BOOLEAN :
            tk' = [tk EXCEPT ![t] = [tk[t] EXCEPT !.status = s, !.pr = k]]
    BY <2>1, MergeTk
  <2>3. /\ OthersKept(t) /\ tk'[t].review = tk[t].review
        /\ tk'[t].child = tk[t].child /\ tk'[t].status = s
    BY <1>0, <2>2 DEF TicketRecord, OthersKept
  <2> QED BY <1>21, <2>1, <2>3
<1>7. CASE AwaitInherited(t)
  <2>0. UNCHANGED <<ledger, inFlight>>
    BY <1>7 DEF AwaitInherited
  <2>6. RevId(t) # 0 /\ \A i \in OpenReviews(t) : i # 0
    BY DEF RevId, OpenReviews, Shape, WorldOK
  <2>1. ASSUME NEW i, tk' = [tk EXCEPT ![t].review = i, ![t].status = "AWAITING_REVIEW"]
        PROVE  /\ OthersKept(t) /\ tk'[t].child = tk[t].child
               /\ tk'[t].review = i /\ tk'[t].status = "AWAITING_REVIEW"
    BY <1>0, <2>1 DEF TicketRecord, OthersKept
  <2>2. ASSUME tk' = [tk EXCEPT ![t].review = RevId(t), ![t].pr = TRUE,
                                ![t].status = "AWAITING_REVIEW"]
        PROVE  /\ OthersKept(t) /\ tk'[t].child = tk[t].child
               /\ tk'[t].review = RevId(t) /\ tk'[t].status = "AWAITING_REVIEW"
    BY <1>0, <2>2 DEF TicketRecord, OthersKept
  <2>3. ASSUME tk' = [tk EXCEPT ![t].pr = TRUE]
        PROVE  /\ OthersKept(t) /\ tk'[t].child = tk[t].child
               /\ tk'[t].review = tk[t].review /\ tk'[t].status = tk[t].status
    BY <1>0, <2>3 DEF TicketRecord, OthersKept
  <2>4. CASE AdoptReview(t)
    BY <1>21, <2>0, <2>1, <2>4, <2>6 DEF AdoptReview
  <2>5. CASE FireReview(t)
    BY <1>21, <2>0, <2>2, <2>3, <2>5, <2>6 DEF FireReview
  <2>7. CASE ReviewRegistered(t)
    BY <1>21, <2>0, <2>7 DEF ReviewRegistered, OthersKept
  <2> QED BY <1>7, <2>4, <2>5, <2>7 DEF AwaitInherited
<1>8. CASE DispatchChild(t)
  <2>1. /\ tk' = [tk EXCEPT ![t].child = KidId(t), ![t].status = "DISPATCHED",
                            ![t].dispAge = 0, ![t].tried = @ + 1]
        /\ inFlight' = inFlight \cup {t}
    BY <1>8 DEF DispatchChild
  <2>2. OthersKept(t) /\ tk'[t].review = tk[t].review /\ tk'[t].status = "DISPATCHED"
    BY <1>0, <2>1 DEF TicketRecord, OthersKept
  <2> QED BY <1>8, <1>21, <2>1, <2>2
<1> QED BY <1>1, <1>3, <1>4, <1>5, <1>6, <1>7, <1>8 DEF DispatchTicket

\* The poll of one ticket: whatever becomes of the builder, the ticket keeps the
\* review it has, which is none unless a restart has brought it, or waits for a new
\* one; only a ticket whose ledger entry is dropped starts waiting for a builder.
LEMMA PollOutcome ==
    ASSUME Shape, TodoOpen, PollOpen, NEW t \in Tickets, PollTicket(t)
    PROVE  /\ pc = "poll" /\ t \in todo /\ tk[t].status \notin Terminal
           /\ Settled(tk[t]) => tk[t].review = 0
           /\ OthersKept(t)
           /\ \/ tk'[t].review = tk[t].review /\ tk'[t].status # "AWAITING_REVIEW"
              \/ tk'[t].review # 0 /\ tk'[t].status = "AWAITING_REVIEW"
           /\ fresh' \subseteq fresh \cup {t}
           /\ ledger' = ledger \/ ledger' = [ledger EXCEPT ![t] = 0]
           /\ tk'[t].status \in Waiting =>
                  \/ tk[t].status \in Waiting /\ tk'[t].child = tk[t].child
                  \/ ledger' = [ledger EXCEPT ![t] = 0]
<1>0. tk[t] \in TicketRecord /\ t \in DOMAIN tk /\ tk \in [Tickets -> TicketRecord]
  BY DEF Shape
<1>1. pc = "poll" /\ t \in todo
  BY DEF PollTicket, PollAbandon, PollTimeout, PollPhantom, PollRunning, PollFailed,
         PollGap, PollPr, PollSilent, Polled
<1>2. /\ tk[t].status \notin Terminal /\ tk[t].status # "AWAITING_REVIEW"
      /\ Settled(tk[t]) => tk[t].review = 0
  BY <1>1 DEF TodoOpen, PollOpen, Settled, HandedOff
<1>3. fresh' \subseteq fresh \cup {t}
  BY DEF PollTicket, PollAbandon, PollTimeout, PollPhantom, PollRunning, PollFailed,
         PollGap, PollPr, PollSilent, Leaves
<1>4. ASSUME NEW r, tk' = [tk EXCEPT ![t] = r] PROVE tk'[t] = r /\ OthersKept(t)
  BY <1>0, <1>4 DEF OthersKept
<1>5. CASE PollAbandon(t)
  <2> DEFINE r == [Abandoned(tk[t]) EXCEPT !.retries = tk[t].retries + 1,
                                           !.dispAge = NoTime]
  <2>1. tk' = [tk EXCEPT ![t] = r] /\ ledger' = [ledger EXCEPT ![t] = 0]
    BY <1>5 DEF PollAbandon
  <2>2. r.review = tk[t].review /\ r.status = "ABANDONED"
    BY <1>0 DEF Abandoned, TicketRecord
  <2> HIDE DEF r
  <2> QED BY <1>1, <1>2, <1>3, <1>4, <2>1, <2>2
<1>6. CASE PollTimeout(t)
  <2> DEFINE r == [tk[t] EXCEPT !.status = "FAILED", !.phantom = FALSE]
  <2>1. tk' = [tk EXCEPT ![t] = r] /\ ledger' = [ledger EXCEPT ![t] = 0]
    BY <1>6 DEF PollTimeout
  <2>2. r.review = tk[t].review /\ r.status = "FAILED"
    BY <1>0 DEF TicketRecord
  <2> HIDE DEF r
  <2> QED BY <1>1, <1>2, <1>3, <1>4, <2>1, <2>2
<1>7. CASE PollPhantom(t)
  <2>1. tk' = [tk EXCEPT ![t] = ForceFailed(t)] /\ ledger' = ledger
    BY <1>7 DEF PollPhantom
  <2>2. ForceFailed(t).review = tk[t].review /\ ForceFailed(t).status = "FAILED"
    BY <1>0 DEF ForceFailed, TicketRecord
  <2> QED BY <1>1, <1>2, <1>3, <1>4, <2>1, <2>2 DEF Waiting
<1>8. CASE PollRunning(t)
  <2> DEFINE s == IF tk[t].status = "DISPATCHED" THEN "IN_PROGRESS" ELSE tk[t].status
  <2>1. tk' = [tk EXCEPT ![t].status = s] /\ ledger' = ledger
    BY <1>8 DEF PollRunning
  <2>2. /\ OthersKept(t) /\ tk'[t].review = tk[t].review /\ tk'[t].status = s
        /\ tk'[t].child = tk[t].child
    BY <1>0, <2>1 DEF TicketRecord, OthersKept
  <2>3. /\ s \in Waiting => tk[t].status \in Waiting
        /\ s # "AWAITING_REVIEW"
    BY <1>2 DEF Waiting
  <2> HIDE DEF s
  <2> QED BY <1>1, <1>2, <1>3, <2>1, <2>2, <2>3
<1>9. CASE PollFailed(t) \/ PollGap(t)
  <2>1. PICK s \in {"FAILED", "ESCALATED"} : tk' = [tk EXCEPT ![t].status = s]
    BY <1>9 DEF PollFailed, PollGap
  <2>2. OthersKept(t) /\ tk'[t].review = tk[t].review /\ tk'[t].status = s
    BY <1>0, <2>1 DEF TicketRecord, OthersKept
  <2>3. ledger' = ledger
    BY <1>9 DEF PollFailed, PollGap
  <2> QED BY <1>1, <1>2, <1>3, <2>2, <2>3 DEF Waiting
<1>10. CASE PollPr(t)
  <2>0. ledger' = ledger
    BY <1>10 DEF PollPr
  <2>1. ASSUME tk' = [tk EXCEPT ![t].pr = TRUE, ![t].dispAge = NoTime,
                                ![t].review = RevId(t), ![t].status = "AWAITING_REVIEW"]
        PROVE  /\ OthersKept(t) /\ tk'[t].status = "AWAITING_REVIEW"
               /\ tk'[t].review = RevId(t)
    BY <1>0, <2>1 DEF TicketRecord, OthersKept
  <2>3. RevId(t) # 0
    BY DEF RevId, Shape, WorldOK
  <2>2. ASSUME tk' = [tk EXCEPT ![t].pr = TRUE, ![t].dispAge = NoTime,
                                ![t].status = "PR_OPEN"]
        PROVE  OthersKept(t) /\ tk'[t].status = "PR_OPEN" /\ tk'[t].review = tk[t].review
    BY <1>0, <2>2 DEF TicketRecord, OthersKept
  <2> QED BY <1>10, <1>1, <1>2, <1>3, <2>0, <2>1, <2>2, <2>3 DEF PollPr, Waiting
<1>11. CASE PollSilent(t)
  <2>1. ASSUME tk' = [tk EXCEPT ![t].status = "PENDING", ![t].child = 0,
                                ![t].dispAge = NoTime]
        PROVE  /\ OthersKept(t) /\ tk'[t].review = tk[t].review
               /\ tk'[t].status = "PENDING"
    BY <1>0, <2>1 DEF TicketRecord, OthersKept
  <2>2. ASSUME tk' = [tk EXCEPT ![t].status = "FAILED", ![t].phantom = FALSE]
        PROVE  /\ OthersKept(t) /\ tk'[t].review = tk[t].review
               /\ tk'[t].status = "FAILED"
    BY <1>0, <2>2 DEF TicketRecord, OthersKept
  <2> QED BY <1>11, <1>1, <1>2, <1>3, <2>1, <2>2 DEF PollSilent, Waiting
<1> QED BY <1>5, <1>6, <1>7, <1>8, <1>9, <1>10, <1>11 DEF PollTicket

\* A review verdict: the ticket ends, goes back to a builder without the review, or
\* waits for one.
LEMMA ReviewOutcome ==
    ASSUME Shape, NEW t \in Tickets, ReviewTicket(t)
    PROVE  /\ pc = "reviews" /\ tk[t].status \in {"AWAITING_REVIEW", "REVIEWING"}
           /\ UNCHANGED ledger
           /\ OthersKept(t)
           /\ \/ tk'[t].status \in {"MERGED_GREEN", "FAILED", "TRIAGE_NEEDED",
                                    "ESCALATED"}
              \/ tk'[t].review # 0 /\ tk'[t].status = "AWAITING_REVIEW"
              \/ tk'[t].review = 0 /\ tk'[t].status = "DISPATCHED"
              \/ tk'[t].review = 0 /\ tk'[t].status = tk[t].status /\ Fault
<1>0. tk[t] \in TicketRecord /\ t \in DOMAIN tk /\ tk \in [Tickets -> TicketRecord]
  BY DEF Shape
<1>20. Eligible(t)
  BY DEF ReviewTicket, ReviewApproved, ReviewTriage, ReviewExhausted, ReviewHuman,
         ReviewRespawn, RespawnRaises, ReviewSilent, FixRound, FixWanted, ChangesWanted
<1>21. pc = "reviews" /\ tk[t].status \in {"AWAITING_REVIEW", "REVIEWING"}
  BY <1>20 DEF Eligible
<1>22. UNCHANGED ledger
  BY DEF ReviewTicket, ReviewApproved, ReviewTriage, ReviewExhausted, ReviewHuman,
         ReviewRespawn, RespawnRaises, ReviewSilent
<1>1. CASE ReviewApproved(t)
  <2>1. Merge(t, tk[t].pr) /\ tk[t].pr \in BOOLEAN
    BY <1>0, <1>1 DEF ReviewApproved, TicketRecord
  <2>2. PICK s \in {"MERGED_GREEN", "FAILED"}, k \in BOOLEAN :
            tk' = [tk EXCEPT ![t] = [tk[t] EXCEPT !.status = s, !.pr = k]]
    BY <2>1, MergeTk
  <2>3. OthersKept(t) /\ tk'[t].status = s
    BY <1>0, <2>2 DEF TicketRecord, OthersKept
  <2> QED BY <1>21, <1>22, <2>3
<1>2. CASE ReviewTriage(t)
  <2>1. tk' = [tk EXCEPT ![t].status = "TRIAGE_NEEDED", ![t].review = 0]
    BY <1>2 DEF ReviewTriage
  <2>2. OthersKept(t) /\ tk'[t].status = "TRIAGE_NEEDED"
    BY <1>0, <2>1 DEF TicketRecord, OthersKept
  <2> QED BY <1>21, <1>22, <2>2
<1>3. CASE ReviewExhausted(t) \/ ReviewHuman(t)
  <2>1. PICK s \in {"FAILED", "ESCALATED"} : tk' = [tk EXCEPT ![t].status = s]
    BY <1>3 DEF ReviewExhausted, ReviewHuman
  <2>2. OthersKept(t) /\ tk'[t].status = s
    BY <1>0, <2>1 DEF TicketRecord, OthersKept
  <2> QED BY <1>21, <1>22, <2>2
<1>4. CASE ReviewRespawn(t)
  <2>1. tk' = [tk EXCEPT ![t].status = "DISPATCHED", ![t].child = KidId(t),
                         ![t].cycles = @ + 1, ![t].review = 0, ![t].silents = 0]
    BY <1>4 DEF ReviewRespawn
  <2>2. OthersKept(t) /\ tk'[t].status = "DISPATCHED" /\ tk'[t].review = 0
    BY <1>0, <2>1 DEF TicketRecord, OthersKept
  <2> QED BY <1>21, <1>22, <2>2
<1>5. CASE RespawnRaises(t)
  <2>1. tk' = [tk EXCEPT ![t].cycles = @ + 1, ![t].review = 0]
    BY <1>5 DEF RespawnRaises
  <2>2. OthersKept(t) /\ tk'[t].status = tk[t].status /\ tk'[t].review = 0
    BY <1>0, <2>1 DEF TicketRecord, OthersKept
  <2>3. Fault
    BY <1>5 DEF RespawnRaises, NoKidId
  <2> QED BY <1>21, <1>22, <2>2, <2>3
<1>6. CASE ReviewSilent(t)
  <2>1. ASSUME tk' = [tk EXCEPT ![t].silents = @ + 1, ![t].status = "FAILED"]
        PROVE  OthersKept(t) /\ tk'[t].status = "FAILED"
    BY <1>0, <2>1 DEF TicketRecord, OthersKept
  <2>2. ASSUME tk' = [tk EXCEPT ![t].silents = 1, ![t].review = RevId(t),
                                ![t].status = "AWAITING_REVIEW"]
        PROVE  /\ OthersKept(t) /\ tk'[t].status = "AWAITING_REVIEW"
               /\ tk'[t].review = RevId(t)
    BY <1>0, <2>2 DEF TicketRecord, OthersKept
  <2>4. RevId(t) # 0
    BY DEF RevId, Shape, WorldOK
  <2>3. ASSUME tk' = [tk EXCEPT ![t].silents = 1, ![t].review = 0]
        PROVE  OthersKept(t) /\ tk'[t].status = tk[t].status /\ tk'[t].review = 0
    BY <1>0, <2>3 DEF TicketRecord, OthersKept
  <2> QED BY <1>6, <1>21, <1>22, <2>1, <2>2, <2>3, <2>4 DEF ReviewSilent, NoReviewId
<1> QED BY <1>1, <1>2, <1>3, <1>4, <1>5, <1>6 DEF ReviewTicket

-----------------------------------------------------------------------------
(* Steps over the whole graph.                                             *)

\* r becomes q with its review; a verdict stays as it is, nothing starts waiting for a
\* builder, and what waits for one keeps the child it has, and nothing leaves
\* AWAITING_REVIEW but with a verdict.
Stays(r, q) ==
    /\ q.review = r.review
    /\ r.status \in Terminal => q.status = r.status
    /\ Settled(r) => Settled(q)
    /\ q.status \in Waiting => r.status \in Waiting /\ q.child = r.child
    /\ q.status = "AWAITING_REVIEW" => r.status = "AWAITING_REVIEW"

\* A ticket whose status and child are kept, or that ends, stays what it was.
LEMMA StaysPlainly ==
    ASSUME NEW r, NEW q, q.review = r.review,
           \/ q.status = r.status /\ q.child = r.child
           \/ q.status \in Terminal /\ r.status \notin Terminal
    PROVE  Stays(r, q)
BY DEF Stays, Settled, Waiting, Terminal

\* The orphan reconcile, the wake-up and the refresh.
LEMMA ListStays ==
    ASSUME Shape, NEW t \in Tickets, NEW ok \in BOOLEAN
    PROVE  /\ Stays(tk[t], AtList(ok)[t])
           /\ t \in Forced(ok) => /\ AtList(ok)[t] = ForceFailed(t)
                                  /\ tk[t].status \in Active
                                  /\ ForceFailed(t).status = "FAILED"
                                  /\ ForceFailed(t).phantom
                                  /\ ForceFailed(t).review = tk[t].review
<1>0. tk[t] \in TicketRecord
  BY DEF Shape
<1>1. CASE t \in Forced(ok)
  <2>1. AtList(ok)[t] = ForceFailed(t) /\ tk[t].status \in Active
    BY <1>1 DEF AtList, Forced, Orphans, WithStatus
  <2>2. /\ ForceFailed(t).status = "FAILED" /\ ForceFailed(t).phantom
        /\ ForceFailed(t).review = tk[t].review
    BY <1>0 DEF ForceFailed, TicketRecord
  <2>3. Stays(tk[t], ForceFailed(t))
    BY <2>1, <2>2, StaysPlainly DEF Active, Terminal
  <2> QED BY <2>1, <2>2, <2>3
<1>2. CASE t \notin Forced(ok)
  <2>1. AtList(ok)[t] = Refreshed(t)
    BY <1>2 DEF AtList
  <2>2. CASE tk[t].status \notin Waiting
    <3>1. Refreshed(t) = tk[t]
      BY <2>2 DEF Refreshed, Waiting
    <3> QED BY <1>2, <2>1, <3>1, StaysPlainly
  <2>3. CASE tk[t].status \in Waiting
    <3> DEFINE w == [tk[t] EXCEPT !.status = "PENDING", !.backAge = NoTime]
    <3>1. /\ w.status = "PENDING" /\ w.review = tk[t].review /\ w \in TicketRecord
          /\ w.child = tk[t].child
      BY <1>0, StatusNames DEF TicketRecord
    <3> HIDE DEF w
    <3>2. \A r \in TicketRecord : \A s : LET q == [r EXCEPT !.status = s]
                                         IN  /\ q.status = s /\ q.review = r.review
                                             /\ q.child = r.child
      BY DEF TicketRecord
    <3>3. /\ Refreshed(t).review = tk[t].review /\ Refreshed(t).status \in Waiting
          /\ Refreshed(t).child = tk[t].child
      <4>1. CASE tk[t].status = "BACKED_OFF" /\ tk[t].backAge >= Backoff
        <5>1. Refreshed(t) = [w EXCEPT !.status = IF DepsSatisfied(t) THEN "PENDING"
                                                  ELSE "BLOCKED"]
          BY <3>1, <4>1 DEF Refreshed, w
        <5> QED BY <3>1, <3>2, <5>1 DEF Waiting
      <4>2. CASE ~(tk[t].status = "BACKED_OFF" /\ tk[t].backAge >= Backoff)
        <5>1. Refreshed(t) = IF tk[t].status \in {"PENDING", "BLOCKED"}
                             THEN [tk[t] EXCEPT !.status = IF DepsSatisfied(t)
                                                           THEN "PENDING" ELSE "BLOCKED"]
                             ELSE tk[t]
          BY <4>2 DEF Refreshed
        <5> QED BY <1>0, <2>3, <3>2, <5>1 DEF Waiting
      <4> QED BY <4>1, <4>2
    <3>6. Stays(tk[t], Refreshed(t))
      BY <2>3, <3>3 DEF Stays, Settled, Waiting, Terminal
    <3> QED BY <1>2, <2>1, <3>6
  <2> QED BY <2>2, <2>3
<1> QED BY <1>1, <1>2

\* Every step of the tick that is neither of one ticket nor a sweep.
LEMMA GraphStays ==
    ASSUME Shape, Top \/ EndDispatch \/ PollListFails \/ PollList \/ PollClaimed
                    \/ ReviewsEnd \/ HardStop \/ Snapshot \/ EndOfTick \/ Sleep
    PROVE  UNCHANGED ledger /\ \A t \in Tickets : Stays(tk[t], tk'[t])
<1>0. tk \in [Tickets -> TicketRecord]
  BY DEF Shape
<1>1. UNCHANGED ledger
  BY DEF Top, EndDispatch, PollListFails, PollList, PollClaimed, ReviewsEnd, HardStop,
         Snapshot, EndOfTick, ForcePass, Finish, CancelExit, Coerce, GoOn, tailRest, Sleep
<1> SUFFICES ASSUME NEW t \in Tickets PROVE Stays(tk[t], tk'[t])
  BY <1>1
<1>2. ASSUME NEW s \in {"PENDING", "BLOCKED"}, tk[t].status \in {"PENDING", "BLOCKED"},
             tk'[t] = [tk[t] EXCEPT !.status = s]
      PROVE  Stays(tk[t], tk'[t])
  <2>1. tk'[t].status = s /\ tk'[t].review = tk[t].review /\ tk'[t].child = tk[t].child
    BY <1>0, <1>2 DEF TicketRecord
  <2> QED BY <1>2, <2>1 DEF Stays, Settled, Waiting, Terminal
<1>3. CASE Top
  <2>1. PICK ok \in BOOLEAN : tk' = [u \in Tickets |->
            CASE u \in Forced(ok) -> ForceFailed(u)
              [] tk[u].status \in {"PENDING", "BLOCKED"} ->
                   [tk[u] EXCEPT !.status = IF DepsSatisfied(u) THEN "PENDING"
                                            ELSE "BLOCKED"]
              [] OTHER -> tk[u]]
    BY <1>3 DEF Top
  <2>2. CASE t \in Forced(ok)
    <3>1. tk[t].status \notin {"PENDING", "BLOCKED"}
      BY <2>2, ListStays DEF Active
    <3>2. tk'[t] = ForceFailed(t)
      BY <2>1, <2>2, <3>1
    <3> QED BY <2>2, <3>2, ListStays
  <2>3. CASE t \notin Forced(ok) /\ tk[t].status \in {"PENDING", "BLOCKED"}
    <3> DEFINE s == IF DepsSatisfied(t) THEN "PENDING" ELSE "BLOCKED"
    <3>1. tk'[t] = [tk[t] EXCEPT !.status = s]
      BY <2>1, <2>3
    <3>2. s \in {"PENDING", "BLOCKED"}
      OBVIOUS
    <3> HIDE DEF s
    <3> QED BY <1>2, <2>3, <3>1, <3>2
  <2>4. CASE t \notin Forced(ok) /\ tk[t].status \notin {"PENDING", "BLOCKED"}
    <3>1. tk'[t] = tk[t]
      BY <2>1, <2>4
    <3> QED BY <3>1, StaysPlainly
  <2> QED BY <2>2, <2>3, <2>4
<1>4. CASE PollListFails \/ PollList
  <2>1. PICK ok \in BOOLEAN : tk' = AtList(ok)
    BY <1>4 DEF PollListFails, PollList
  <2> QED BY <2>1, ListStays
<1>5. CASE Snapshot
  <2>1. \A r \in TicketRecord : /\ Snapped(r).status = r.status
                                /\ Snapped(r).review = r.review
                                /\ Snapped(r).child = r.child
    BY DEF TicketRecord, Snapped
  <2>2. tk'[t] = Snapped(tk[t])
    BY <1>5 DEF Snapshot
  <2> QED BY <1>0, <2>1, <2>2, StaysPlainly
<1>6. CASE Sleep
  <2>1. \A r \in TicketRecord : /\ Aged(r).status = r.status /\ Aged(r).review = r.review
                                /\ Aged(r).child = r.child
    BY DEF TicketRecord, Aged
  <2>2. tk'[t] = Aged(tk[t])
    BY <1>6 DEF Sleep
  <2> QED BY <1>0, <2>1, <2>2, StaysPlainly
<1>7. CASE ForcePass
  <2>1. \A r \in TicketRecord : /\ Abandoned(r).status = "ABANDONED"
                                /\ Abandoned(r).review = r.review
    BY DEF TicketRecord, Abandoned
  <2>2. tk'[t] = tk[t] \/ (tk'[t] = Abandoned(tk[t]) /\ tk[t].status \notin Terminal)
    BY <1>7 DEF ForcePass, Unfinished, WithStatus
  <2> QED BY <1>0, <2>1, <2>2, StaysPlainly DEF Terminal
<1>8. CASE Coerce
  <2> DEFINE q == [tk[t] EXCEPT !.status = "FAILED"]
  <2>1. q.status = "FAILED" /\ q.review = tk[t].review
    BY <1>0 DEF TicketRecord
  <2>2. tk'[t] = tk[t] \/ (tk'[t] = q /\ tk[t].status \notin Terminal)
    BY <1>8 DEF Coerce, Unfinished, WithStatus
  <2> HIDE DEF q
  <2> QED BY <2>1, <2>2, StaysPlainly DEF Terminal
<1>9. CASE EndDispatch \/ PollClaimed \/ ReviewsEnd \/ HardStop \/ Finish \/ CancelExit
             \/ GoOn
  <2>1. tk'[t] = tk[t]
    BY <1>9 DEF EndDispatch, PollClaimed, ReviewsEnd, HardStop, Finish, CancelExit, GoOn
  <2> QED BY <2>1, StaysPlainly
<1> QED BY <1>3, <1>4, <1>5, <1>6, <1>7, <1>8, <1>9 DEF EndOfTick

\* The retry sweep on one ticket: only a FAILED ticket changes, with the review it
\* has, and a phantom never backs off.
LEMMA CarvedOutcome ==
    ASSUME NEW r \in TicketRecord, NEW t
    PROVE  /\ CarvedOut(r, t).review = r.review
           /\ r.status # "FAILED" => CarvedOut(r, t) = r
           /\ r.status = "FAILED" => CarvedOut(r, t).status \in
                  {"FAILED", "PENDING", "ABANDONED", "BACKED_OFF"}
           /\ r.status = "FAILED" /\ r.phantom => CarvedOut(r, t).status # "BACKED_OFF"
<1>1. /\ BackedOff(r).status = "BACKED_OFF" /\ BackedOff(r).review = r.review
      /\ PhantomReset(r).status = "PENDING" /\ PhantomReset(r).review = r.review
      /\ Abandoned(r).status = "ABANDONED" /\ Abandoned(r).review = r.review
  BY DEF TicketRecord, BackedOff, PhantomReset, Abandoned
<1>2. r.retries \in Nat /\ RetryBudget \in Nat
  BY WaveAssumption DEF TicketRecord
<1>3. r.retries < RetryBudget => RetryBudget > 0
  BY <1>2
<1> QED BY <1>1, <1>3 DEF CarvedOut, CarvesPhantom

\* What the sweep at the end of a poll does to one ticket.
LEMMA SweepOutcome ==
    ASSUME Shape, PollOpen, PollSweep, NEW t \in Tickets
    PROVE  /\ tk'[t].review = tk[t].review
           /\ \/ tk'[t].status = tk[t].status
              \/ /\ pc = "poll" /\ t \in fresh /\ tk[t].status = "FAILED"
                 /\ Whole => tk[t].review = 0
           /\ tk'[t].status \in Waiting => ledger'[t] = 0
           /\ tk'[t].status = "AWAITING_REVIEW" => tk[t].status = "AWAITING_REVIEW"
<1>1. /\ tk'[t] = IF t \in fresh THEN CarvedOut(tk[t], t) ELSE tk[t]
      /\ ledger'[t] = IF HoldsEntry(tk'[t].status) THEN ledger[t] ELSE 0
      /\ pc = "poll"
  BY DEF PollSweep, SweepOver
<1>2. tk[t] \in TicketRecord
  BY DEF Shape
<1> QED BY <1>1, <1>2, CarvedOutcome DEF PollOpen, HoldsEntry, BuildPhase, Waiting

\* What the early end of a poll does to one ticket: an orphan had no review.
LEMMA NothingOutcome ==
    ASSUME Shape, PollNothing, NEW t \in Tickets
    PROVE  /\ tk'[t].review = tk[t].review
           /\ tk[t].status \in Terminal => tk'[t].status = tk[t].status
           /\ Settled(tk[t]) => Settled(tk'[t])
           /\ ledger'[t] \in {0, ledger[t]}
           /\ tk'[t].status \in Waiting =>
                  \/ ledger'[t] = 0
                  \/ tk[t].status \in Waiting /\ tk'[t].child = tk[t].child
           /\ tk'[t].status = "AWAITING_REVIEW" => tk[t].status = "AWAITING_REVIEW"
<1>1. PICK ok \in BOOLEAN :
          /\ SweepOver(AtList(ok), Forced(ok))
          /\ ledger' = [u \in Tickets |->
                         IF u \in Forced(ok) /\ tk'[u].status = "PENDING"
                         THEN 0 ELSE ledger[u]]
  BY DEF PollNothing
<1>2. /\ tk'[t] = IF t \in Forced(ok) THEN CarvedOut(AtList(ok)[t], t) ELSE AtList(ok)[t]
      /\ ledger'[t] = IF t \in Forced(ok) /\ tk'[t].status = "PENDING" THEN 0
                      ELSE ledger[t]
  BY <1>1 DEF SweepOver
<1>3. CASE t \notin Forced(ok)
  <2>1. Stays(tk[t], tk'[t]) /\ ledger'[t] = ledger[t]
    BY <1>2, <1>3, ListStays
  <2> QED BY <2>1 DEF Stays
<1>4. CASE t \in Forced(ok)
  <2>1. /\ AtList(ok)[t] = ForceFailed(t) /\ tk[t].status \in Active
        /\ ForceFailed(t).status = "FAILED" /\ ForceFailed(t).phantom
        /\ ForceFailed(t).review = tk[t].review
    BY <1>4, ListStays
  <2>2. ForceFailed(t) \in TicketRecord
    BY ListedType DEF Shape
  <2>3. /\ tk'[t].review = tk[t].review
        /\ tk'[t].status \in {"FAILED", "PENDING", "ABANDONED"}
    BY <1>2, <1>4, <2>1, <2>2, CarvedOutcome
  <2>4. tk[t].status \notin Terminal \cup {"AWAITING_REVIEW"}
    BY <2>1 DEF Active, Terminal
  <2> QED BY <1>2, <1>4, <2>3, <2>4 DEF Settled, Waiting
<1> QED BY <1>3, <1>4

-----------------------------------------------------------------------------
(* The invariant.                                                          *)

\* A hydrated run has no reviews yet.
LEMMA OrderInit == Init => OrderInv
<1> SUFFICES ASSUME Init PROVE OrderInv
  OBVIOUS
<1>1. \A t \in Tickets : tk[t].review = 0
  BY DEF Init, NewTicket
<1>2. ~saved.valid
  BY DEF Init, NoCheckpoint
<1>3. PollOpen
  BY DEF Init, PollOpen
<1> QED BY <1>1, <1>2, <1>3, SafeInit DEF OrderInv, Reviewed, Settled

\* After a step of the tick every review still belongs to a ticket that waits for it
\* or has its verdict.
LEMMA SettledTick ==
    ASSUME OrderInv, Whole, Tick, NEW t \in Tickets
    PROVE  Settled(tk'[t])
<1>0. Shape /\ TodoOpen /\ PollOpen /\ \A u \in Tickets : Settled(tk[u])
  BY DEF OrderInv, SafeInv, Reviewed
<1>1. CASE Top \/ EndDispatch \/ PollListFails \/ PollList \/ PollClaimed
             \/ ReviewsEnd \/ HardStop \/ Snapshot \/ EndOfTick \/ Sleep
  BY <1>0, <1>1, GraphStays DEF Stays
<1>2. CASE PollSweep
  <2>1. /\ tk'[t].review = tk[t].review
        /\ tk'[t].status = tk[t].status \/ tk[t].review = 0
    BY <1>0, <1>2, SweepOutcome
  <2> QED BY <1>0, <2>1 DEF Settled
<1>3. CASE PollNothing
  BY <1>0, <1>3, NothingOutcome
<1>4. ASSUME NEW u \in Tickets, u # t, OthersKept(u) PROVE Settled(tk'[t])
  BY <1>0, <1>4 DEF OthersKept
<1>5. ASSUME NEW u \in Tickets, DispatchTicket(u) PROVE Settled(tk'[t])
  <2>1. /\ tk[u].status = "PENDING" /\ OthersKept(u)
        /\ tk'[u].review = tk[u].review \/ tk'[u].status = "AWAITING_REVIEW"
    BY <1>0, <1>5, DispatchOutcome
  <2>2. Settled(tk'[u])
    BY <1>0, <2>1 DEF Settled, Terminal
  <2> QED BY <1>4, <2>1, <2>2
<1>6. ASSUME NEW u \in Tickets, PollTicket(u) PROVE Settled(tk'[t])
  <2>1. /\ OthersKept(u)
        /\ tk'[u].review = 0 \/ tk'[u].status = "AWAITING_REVIEW"
    BY <1>0, <1>6, PollOutcome
  <2>2. Settled(tk'[u])
    BY <2>1 DEF Settled
  <2> QED BY <1>4, <2>1, <2>2
<1>7. ASSUME NEW u \in Tickets, ReviewTicket(u) PROVE Settled(tk'[t])
  <2>1. /\ OthersKept(u)
        /\ \/ tk'[u].status \in {"MERGED_GREEN", "FAILED", "TRIAGE_NEEDED", "ESCALATED",
                                 "AWAITING_REVIEW"}
           \/ tk'[u].review = 0
    BY <1>0, <1>7, ReviewOutcome
  <2>2. Settled(tk'[u])
    BY <2>1 DEF Settled, Terminal
  <2> QED BY <1>4, <2>1, <2>2
<1> QED BY <1>1, <1>2, <1>3, <1>5, <1>6, <1>7 DEF Tick

\* g has the verdicts, the reviews and the retries of f, and tasks for the same tickets.
Copies(f, g) ==
    \A t \in Tickets : /\ g[t].status = f[t].status /\ g[t].review = f[t].review
                       /\ g[t].retries = f[t].retries
                       /\ HasTask(g[t]) <=> HasTask(f[t])

\* What the snapshot and the clocks make of a ticket is a copy in this sense.
LEMMA CopiedAlike ==
    /\ \A r \in TicketRecord :
          /\ Aged(r).status = r.status /\ Aged(r).review = r.review
          /\ Aged(r).retries = r.retries
          /\ HasTask(Aged(r)) <=> HasTask(r)
    /\ \A r \in TicketRecord : (r.child # 0 => r.noted # 0) =>
          /\ Persisted(r).status = r.status /\ Persisted(r).review = r.review
          /\ Persisted(r).retries = r.retries
          /\ HasTask(Persisted(r)) <=> HasTask(r)
<1>1. \A r \in TicketRecord :
          /\ Aged(r).review = r.review /\ Aged(r).status = r.status
          /\ Aged(r).retries = r.retries /\ Aged(r).child = r.child
          /\ Aged(r).noted = r.noted
  BY DEF Aged, TicketRecord
<1>2. \A r \in TicketRecord :
          /\ Persisted(r).review = r.review /\ Persisted(r).status = r.status
          /\ Persisted(r).retries = r.retries
          /\ Persisted(r).child = r.noted /\ Persisted(r).noted = r.noted
  BY DEF Persisted, NewTicket, TicketRecord
<1> QED BY <1>1, <1>2 DEF HasTask

\* A copy that the clocks have moved on in.
LEMMA AgedCopies ==
    ASSUME SavedOK
    PROVE  /\ AgedCopy(saved).valid <=> saved.valid
           /\ AgedCopy(snap).valid <=> snap.valid
           /\ saved.valid => /\ Copies(saved.tk, AgedCopy(saved).tk)
                             /\ AgedCopy(saved).acked = saved.acked
           /\ snap.valid => Copies(snap.tk, AgedCopy(snap).tk)
<1>0. CopiesTyped
  BY TypedCopies
<1>1. ASSUME saved.valid
      PROVE  /\ AgedCopy(saved).valid /\ AgedCopy(saved).acked = saved.acked
             /\ \A t \in Tickets : /\ AgedCopy(saved).tk[t] = Aged(saved.tk[t])
                                   /\ saved.tk[t] \in TicketRecord
  BY <1>0, <1>1 DEF AgedCopy, CopiesTyped, CheckpointRecord
<1>2. ASSUME snap.valid
      PROVE  /\ AgedCopy(snap).valid
             /\ \A t \in Tickets : /\ AgedCopy(snap).tk[t] = Aged(snap.tk[t])
                                   /\ snap.tk[t] \in TicketRecord
  BY <1>0, <1>2 DEF AgedCopy, CopiesTyped, SnapshotRecord
<1>3. ~saved.valid => AgedCopy(saved) = saved
  BY DEF AgedCopy
<1>4. ~snap.valid => AgedCopy(snap) = snap
  BY DEF AgedCopy
<1>5. saved.valid => Copies(saved.tk, AgedCopy(saved).tk)
  BY <1>1, CopiedAlike DEF Copies
<1>6. snap.valid => Copies(snap.tk, AgedCopy(snap).tk)
  BY <1>2, CopiedAlike DEF Copies
<1> QED BY <1>1, <1>2, <1>3, <1>4, <1>5, <1>6

\* The snapshot of the graph is a copy of it.
LEMMA SnapshotCopies ==
    ASSUME Shape, Shape', Snapshot, snap' = SnapshotNow
    PROVE  snap'.valid /\ Copies(tk', snap'.tk)
<1>1. \A t \in Tickets : /\ tk[t] \in TicketRecord /\ tk'[t] \in TicketRecord
                         /\ tk'[t] = Snapped(tk[t])
  BY DEF Shape, Snapshot
<1>2. \A r \in TicketRecord : Snapped(r).child # 0 => Snapped(r).noted # 0
  BY DEF Snapped, TicketRecord
<1>3. snap'.valid /\ snap'.tk = [t \in Tickets |-> Persisted(tk'[t])]
  BY DEF SnapshotNow
<1> QED BY <1>1, <1>2, <1>3, CopiedAlike DEF Copies

\* What a step of the tick makes of the snapshot and of soul memory: nothing, a
\* checkpoint in the middle of the tick, the snapshot of the graph there is now, or
\* older copies.
LEMMA CopiesFrom ==
    ASSUME Shape, Shape', Tick
    PROVE  \/ UNCHANGED <<snap, saved>>
           \/ Stores /\ UNCHANGED snap
           \/ /\ Snapshot /\ snap'.valid /\ Copies(tk', snap'.tk)
              /\ \/ UNCHANGED saved
                 \/ saved'.valid /\ saved'.tk = snap'.tk /\ saved'.acked = acked
           \/ /\ Sleep
              /\ saved'.valid <=> saved.valid
              /\ snap'.valid <=> snap.valid
              /\ saved.valid => /\ Copies(saved.tk, saved'.tk)
                                /\ saved'.acked = saved.acked
              /\ snap.valid => Copies(snap.tk, snap'.tk)
<1>1. CASE Sleep /\ snap' = AgedCopy(snap) /\ saved' = AgedCopy(saved)
  <2>1. SavedOK
    BY DEF Shape
  <2> QED BY <1>1, <2>1, AgedCopies
<1>2. CASE /\ Snapshot /\ snap' = SnapshotNow
           /\ saved' = Checkpoint(snap') \/ UNCHANGED saved
  <2>1. saved' = Checkpoint(snap') =>
            saved'.valid /\ saved'.tk = snap'.tk /\ saved'.acked = acked
    BY DEF Checkpoint
  <2> QED BY <1>2, <2>1, SnapshotCopies
<1>3. MemOK
  BY DEF Shape
<1> QED BY <1>1, <1>2, <1>3, StoresTick

\* The checkpoint in the middle of a tick, field by field.
LEMMA StoredFields ==
    ASSUME Shape, Stores, NEW t \in Tickets
    PROVE  /\ saved'.tk[t].status = snap.tk[t].status
           /\ saved'.tk[t].retries = snap.tk[t].retries
           /\ saved'.tk[t].child = snap.tk[t].child
           /\ saved'.tk[t].noted = snap.tk[t].noted
           /\ saved'.tk[t].review = tk[t].review
<1>1. CopiesTyped /\ snap.valid
  BY TypedCopies DEF Shape, Stores
<1>2. snap.tk[t] \in TicketRecord
  BY <1>1 DEF CopiesTyped, SnapshotRecord
<1>3. saved'.tk[t] = [snap.tk[t] EXCEPT !.review = tk[t].review]
  BY StoresWhat
<1> QED BY <1>2, <1>3 DEF TicketRecord

\* Where a restart finds whole ticks only, nothing is stored in the middle of one.
LEMMA WholeStoresNothing == ASSUME SafeInv, Whole PROVE ~Stores
<1> SUFFICES ASSUME Stores PROVE FALSE
  OBVIOUS
<1>1. crashes < MaxCrashes /\ crashes \in Nat
  BY DEF Stores, SafeInv, OnSnapshot, Shape, SavedOK
<1>2. Ss08Tickets = {} /\ "budget" \notin Signals
  BY <1>1 DEF Whole
<1>3. ~HardStop
  BY <1>2 DEF HardStop
<1>4. \A t \in Tickets : ~Ss08Acked(t) /\ ~Ss08Deferred(t)
  BY <1>2 DEF Ss08Acked, Ss08Deferred, Ss08Pending
<1> QED BY <1>3, <1>4 DEF Stores

\* The poll list and the failures of this poll stay what they are made as.
LEMMA PollOpenTick ==
    ASSUME OrderInv, Shape', Tick
    PROVE  PollOpen'
<1>0. /\ Shape /\ TodoOpen /\ PollOpen /\ todo \subseteq Tickets /\ fresh \subseteq Tickets
      /\ Whole => \A u \in Tickets : Settled(tk[u])
  BY DEF OrderInv, SafeInv, Reviewed, Shape, LocalOK
<1>1. CASE Top \/ EndDispatch \/ PollNothing \/ PollListFails \/ PollSweep \/ ReviewsEnd
             \/ HardStop \/ Snapshot \/ EndOfTick \/ Sleep
  BY <1>1 DEF Top, EndDispatch, PollNothing, PollListFails, PollSweep, ReviewsEnd,
              HardStop, Snapshot, EndOfTick, ForcePass, Finish, CancelExit, Coerce, GoOn, Sleep,
              PollOpen
<1>2. CASE PollList
  <2>1. PICK ok \in BOOLEAN : /\ tk' = AtList(ok) /\ fresh' = Forced(ok)
                              /\ todo' = {t \in WithChild(tk') :
                                            tk'[t].status \notin HandedOff}
    BY <1>2 DEF PollList
  <2>2. ASSUME NEW t \in Forced(ok), Whole PROVE tk'[t].review = 0
    <3>1. t \in Tickets
      BY DEF Forced, Orphans, WithStatus
    <3>2. tk'[t].review = tk[t].review /\ tk[t].status \in Active
      BY <1>0, <2>1, <3>1, ListStays
    <3> QED BY <1>0, <2>2, <3>1, <3>2 DEF Settled, Active, Terminal
  <2> QED BY <2>1, <2>2 DEF PollOpen
<1>3. CASE PollClaimed
  BY <1>0, <1>3 DEF PollClaimed, PollOpen
<1>4. ASSUME NEW u \in Tickets, DispatchTicket(u) \/ ReviewTicket(u) PROVE PollOpen'
  <2>1. pc \in {"dispatch", "reviews"}
    BY <1>0, <1>4, DispatchOutcome, ReviewOutcome
  <2>2. pc' = pc \/ pc' = "snapshot"
    BY <1>4, OneTicketStep, <1>0
       DEF ReviewTicket, ReviewApproved, ReviewTriage, ReviewExhausted, ReviewHuman,
           ReviewRespawn, RespawnRaises, ReviewSilent, reviewRest, Shape, Typed, MemOK
  <2> QED BY <2>1, <2>2 DEF PollOpen
<1>5. ASSUME NEW u \in Tickets, PollTicket(u) PROVE PollOpen'
  <2>1. /\ pc = "poll" /\ OthersKept(u) /\ fresh' \subseteq fresh \cup {u}
        /\ Whole => tk'[u].review = 0 \/ tk'[u].status = "AWAITING_REVIEW"
    BY <1>0, <1>5, PollOutcome
  <2>2. /\ todo' \subseteq todo
        /\ \A t \in todo' : tk'[t] = tk[t]
    BY <1>0, <1>5, OneTicketStep DEF Shape, Typed, MemOK
  <2>3. \A t \in todo' : tk'[t].status \notin HandedOff
    BY <1>0, <2>1, <2>2 DEF PollOpen
  <2>4. Whole => \A t \in fresh' : tk'[t].status = "FAILED" => tk'[t].review = 0
    BY <1>0, <2>1 DEF PollOpen, OthersKept
  <2> QED BY <2>3, <2>4 DEF PollOpen
<1> QED BY <1>1, <1>2, <1>3, <1>4, <1>5 DEF Tick

\* Every step keeps the invariant.
LEMMA OrderStep == OrderInv /\ [Next]_vars => OrderInv'
<1> SUFFICES ASSUME OrderInv, [Next]_vars PROVE OrderInv'
  OBVIOUS
<1>0. SafeInv' /\ Shape'
  BY SafeStep DEF OrderInv, SafeInv
<1>1. CASE Tick
  <2>1. ASSUME Whole PROVE Reviewed'
    <3>1. \A t \in Tickets : Settled(tk'[t])
      BY <1>1, <2>1, SettledTick
    <3>2. ~Stores
      BY <2>1, WholeStoresNothing DEF OrderInv
    <3>3. saved'.valid => \A t \in Tickets : Settled(saved'.tk[t])
      BY <1>0, <1>1, <2>1, <3>1, <3>2, CopiesFrom
         DEF OrderInv, SafeInv, Reviewed, Settled, Copies
    <3> QED BY <3>1, <3>3 DEF Reviewed
  <2> QED BY <1>0, <1>1, <2>1, PollOpenTick DEF OrderInv
<1>2. CASE CrashAndResume
  <2>1. /\ saved.valid /\ tk' = saved.tk /\ pc' = "top"
        /\ saved' = saved \/ saved' = NoCheckpoint
    BY <1>2 DEF CrashAndResume
  <2>2. Whole => Reviewed'
    BY <2>1 DEF OrderInv, Reviewed, NoCheckpoint
  <2>3. PollOpen'
    BY <2>1 DEF PollOpen
  <2> QED BY <1>0, <2>2, <2>3 DEF OrderInv
<1>3. CASE World \/ WaveOver \/ UNCHANGED vars
  <2>1. UNCHANGED <<mem, local, saved>>
    BY <1>3 DEF World, LabelHuman, KidClaimed, KidOpensPr, KidEnds, KidLost, ReviewEnds,
                outside, WaveOver, vars
  <2> QED BY <1>0, <2>1 DEF mem, local, OrderInv, PollOpen, Reviewed
<1> QED BY <1>1, <1>2, <1>3 DEF Next

\* The inductive invariant holds throughout.
THEOREM OrderAlways == Spec => []OrderInv
BY OrderInit, OrderStep, PTL DEF Spec

-----------------------------------------------------------------------------
(* The properties.                                                         *)

\* No verdict of an earlier round can be applied to the next pull request: a ticket
\* that waits for a builder, or has one at work, carries no review, whatever fails or
\* is lost (_respawn_child_with_fixes, _apply_phantom_carve_out). With restarts this holds
\* only of a graph without an SS-08 ticket and a run without a hard stop: both store
\* the reviews of now beside the statuses of the last snapshot.
THEOREM NoReviewOutlivesItsRound == ASSUME Whole PROVE Spec => []NoStaleReview
<1>1. OrderInv => NoStaleReview
  BY DEF OrderInv, Reviewed, Settled, NoStaleReview, Terminal, BuildPhase
<1> QED BY <1>1, OrderAlways, PTL

\* A step of the tick other than the sweep leaves a verdict as it is.
LEMMA RulingTick ==
    ASSUME OrderInv, Tick, NEW t \in Tickets, tk[t].status \in Terminal
    PROVE  \/ tk'[t].status = tk[t].status
           \/ pc = "poll" /\ tk[t].status = "FAILED" /\ t \in fresh
<1>0. Shape /\ TodoOpen /\ PollOpen
  BY DEF OrderInv, SafeInv
<1>1. CASE Top \/ EndDispatch \/ PollListFails \/ PollList \/ PollClaimed
             \/ ReviewsEnd \/ HardStop \/ Snapshot \/ EndOfTick \/ Sleep
  BY <1>0, <1>1, GraphStays DEF Stays
<1>2. CASE PollSweep
  BY <1>0, <1>2, SweepOutcome
<1>3. CASE PollNothing
  BY <1>0, <1>3, NothingOutcome
<1>4. ASSUME NEW u \in Tickets, DispatchTicket(u) \/ PollTicket(u) \/ ReviewTicket(u)
      PROVE  tk'[t].status = tk[t].status
  <2>1. OthersKept(u) /\ tk[u].status \notin Terminal
    BY <1>0, <1>4, DispatchOutcome, PollOutcome, ReviewOutcome DEF Terminal
  <2> QED BY <2>1 DEF OthersKept
<1> QED BY <1>1, <1>2, <1>3, <1>4 DEF Tick

\* A terminal verdict stands until a restart: only the sweep of the very poll that
\* failed a ticket revives it (_poll_children, _apply_phantom_carve_out).
THEOREM VerdictsStand == Spec => VerdictStands
<1>1. ASSUME OrderInv, [Next]_vars, NEW t \in Tickets,
             tk[t].status \in Terminal, tk'[t].status \notin Terminal
      PROVE  \/ pc = "poll" /\ tk[t].status = "FAILED" /\ t \in fresh
             \/ crashes' # crashes
  <2>1. CASE Tick
    BY <1>1, <2>1, RulingTick
  <2>2. CASE CrashAndResume
    <3>1. crashes' = crashes + 1 /\ crashes \in Nat
      BY <2>2, <1>1 DEF CrashAndResume, OrderInv, SafeInv, Shape, SavedOK
    <3> QED BY <3>1
  <2>3. CASE World \/ WaveOver \/ UNCHANGED vars
    <3>1. tk' = tk
      BY <2>3 DEF World, LabelHuman, KidClaimed, KidOpensPr, KidEnds, KidLost, ReviewEnds,
                  outside, mem, WaveOver, vars
    <3> QED BY <1>1, <3>1
  <2> QED BY <1>1, <2>1, <2>2, <2>3 DEF Next
<1>2. OrderInv /\ [Next]_vars =>
        [\A t \in Tickets :
           tk[t].status \in Terminal /\ tk'[t].status \notin Terminal
             => \/ pc = "poll" /\ tk[t].status = "FAILED" /\ t \in fresh
                \/ crashes' # crashes]_vars
  BY <1>1
<1> QED BY <1>2, OrderAlways, PTL DEF Spec, VerdictStands

-----------------------------------------------------------------------------
(* The ledger and the caps.                                                *)

\* Nobody who waits for a builder has an entry of the ledger, but for a ticket that a
\* restart gave its child back.
LedgerInv ==
    \A t \in Tickets :
        ledger[t] # 0 /\ tk[t].status \in Waiting => crashes > 0 /\ tk[t].child # 0

\* in_flight holds every active ticket while tickets are dispatched.
Counted == pc = "dispatch" => WithStatus(Active) \subseteq inFlight

\* A step of the tick gives no waiting ticket an entry, and takes the entry of a
\* ticket that starts waiting or gives its child up.
LEMMA LedgerTick ==
    ASSUME OrderInv, LedgerInv, Tick
    PROVE  LedgerInv'
<1>0. /\ Shape /\ TodoOpen /\ PollOpen
      /\ ledger \in [Tickets -> Nat] /\ crashes' = crashes
  BY CountersTick DEF OrderInv, SafeInv, Shape, MemOK
<1>1. CASE Top \/ EndDispatch \/ PollListFails \/ PollList \/ PollClaimed
             \/ ReviewsEnd \/ HardStop \/ Snapshot \/ EndOfTick \/ Sleep
  BY <1>0, <1>1, GraphStays DEF Stays, LedgerInv
<1>2. CASE PollSweep
  BY <1>0, <1>2, SweepOutcome DEF LedgerInv
<1>3. CASE PollNothing
  BY <1>0, <1>3, NothingOutcome DEF LedgerInv
<1>4. ASSUME NEW t \in Tickets, DispatchTicket(t) PROVE LedgerInv'
  <2>1. OthersKept(t) /\ tk[t].status = "PENDING"
    BY <1>0, <1>4, DispatchOutcome
  <2>2. CASE UNCHANGED ledger /\ tk'[t].child = tk[t].child
    BY <1>0, <2>1, <2>2 DEF LedgerInv, OthersKept, Waiting
  <2>3. CASE DispatchChild(t) /\ tk'[t].status = "DISPATCHED"
    <3>1. ledger' = [ledger EXCEPT ![t] = KidId(t)]
      BY <2>3 DEF DispatchChild
    <3> QED BY <1>0, <2>1, <2>3, <3>1 DEF LedgerInv, OthersKept, Waiting
  <2> QED BY <1>0, <1>4, <2>2, <2>3, DispatchOutcome
<1>5. ASSUME NEW t \in Tickets, PollTicket(t) PROVE LedgerInv'
  <2>1. /\ OthersKept(t)
        /\ ledger' = ledger \/ ledger' = [ledger EXCEPT ![t] = 0]
        /\ tk'[t].status \in Waiting =>
               \/ tk[t].status \in Waiting /\ tk'[t].child = tk[t].child
               \/ ledger' = [ledger EXCEPT ![t] = 0]
    BY <1>0, <1>5, PollOutcome
  <2> QED BY <1>0, <2>1 DEF LedgerInv, OthersKept
<1>6. ASSUME NEW t \in Tickets, ReviewTicket(t) PROVE LedgerInv'
  <2>1. /\ UNCHANGED ledger /\ OthersKept(t)
        /\ tk[t].status \in {"AWAITING_REVIEW", "REVIEWING"}
        /\ \/ tk'[t].status \in {"MERGED_GREEN", "FAILED", "TRIAGE_NEEDED", "ESCALATED",
                                 "AWAITING_REVIEW"}
           \/ tk'[t].status \in {"DISPATCHED", tk[t].status}
    BY <1>0, <1>6, ReviewOutcome
  <2>2. tk'[t].status \notin Waiting
    BY <2>1 DEF Waiting
  <2> QED BY <1>0, <2>1, <2>2 DEF LedgerInv, OthersKept
<1> QED BY <1>1, <1>2, <1>3, <1>4, <1>5, <1>6 DEF Tick

\* While tickets are dispatched, in_flight loses no active ticket.
LEMMA CountedTick ==
    ASSUME OrderInv, Counted, Tick
    PROVE  Counted'
<1>0. Shape /\ TodoOpen /\ tk \in [Tickets -> TicketRecord]
  BY DEF OrderInv, SafeInv, Shape
<1>1. CASE Top
  <2>1. PICK ok \in BOOLEAN :
          /\ tk' = [u \in Tickets |->
                CASE u \in Forced(ok) -> ForceFailed(u)
                  [] tk[u].status \in {"PENDING", "BLOCKED"} ->
                       [tk[u] EXCEPT !.status = IF DepsSatisfied(u) THEN "PENDING"
                                                ELSE "BLOCKED"]
                  [] OTHER -> tk[u]]
          /\ inFlight' = WithStatus(Active) \ Forced(ok)
    BY <1>1 DEF Top
  <2> SUFFICES ASSUME NEW t \in Tickets, tk'[t].status \in Active
               PROVE  t \in WithStatus(Active) \ Forced(ok)
    BY <2>1 DEF Counted, WithStatus
  <2>2. t \notin Forced(ok)
    <3> SUFFICES ASSUME t \in Forced(ok) PROVE FALSE
      OBVIOUS
    <3>1. tk[t].status \in Active /\ ForceFailed(t).status = "FAILED"
      BY <1>0, ListStays
    <3>2. tk'[t] = ForceFailed(t)
      BY <2>1, <3>1 DEF Active
    <3> QED BY <3>1, <3>2 DEF Active
  <2>3. tk[t].status \notin {"PENDING", "BLOCKED"}
    <3> SUFFICES ASSUME tk[t].status \in {"PENDING", "BLOCKED"} PROVE FALSE
      OBVIOUS
    <3> DEFINE s == IF DepsSatisfied(t) THEN "PENDING" ELSE "BLOCKED"
    <3>1. tk'[t] = [tk[t] EXCEPT !.status = s]
      BY <2>1, <2>2
    <3>2. tk'[t].status = s
      BY <1>0, <3>1 DEF TicketRecord
    <3> QED BY <3>2 DEF Active
  <2>4. tk'[t] = tk[t]
    BY <2>1, <2>2, <2>3
  <2> QED BY <2>2, <2>4 DEF WithStatus
<1>2. ASSUME NEW t \in Tickets, DispatchTicket(t) PROVE Counted'
  <2>1. /\ pc = "dispatch" /\ OthersKept(t) /\ inFlight \subseteq inFlight'
        /\ tk[t].status = "PENDING"
        /\ \/ tk'[t].status \in {"PENDING", "FAILED", "ESCALATED", "MERGED_GREEN",
                                 "AWAITING_REVIEW"}
           \/ DispatchChild(t)
    BY <1>0, <1>2, DispatchOutcome
  <2>2. DispatchChild(t) => t \in inFlight'
    BY DEF DispatchChild
  <2>3. tk'[t].status \in Active => t \in inFlight'
    BY <2>1, <2>2 DEF Active
  <2> QED BY <2>1, <2>3 DEF Counted, WithStatus, OthersKept
<1>3. ASSUME NEW t \in Tickets, PollTicket(t) \/ ReviewTicket(t) PROVE Counted'
  BY <1>3 DEF PollTicket, PollAbandon, PollTimeout, PollPhantom, PollRunning, PollFailed,
              PollGap, PollPr, PollSilent, Polled, pollRest, ReviewTicket,
              ReviewApproved, ReviewTriage, ReviewExhausted, ReviewHuman, ReviewRespawn,
              RespawnRaises, ReviewSilent, FixRound, FixWanted, ChangesWanted, Eligible,
              reviewRest, Counted
<1>4. CASE EndDispatch \/ PollNothing \/ PollListFails \/ PollList \/ PollClaimed
             \/ PollSweep \/ ReviewsEnd \/ HardStop \/ Snapshot \/ EndOfTick \/ Sleep
  BY <1>4 DEF EndDispatch, PollNothing, PollListFails, PollList, PollClaimed, PollSweep,
              ReviewsEnd, HardStop, Snapshot, EndOfTick, ForcePass, Finish, CancelExit, Coerce,
              GoOn, Sleep, Counted
<1> QED BY <1>1, <1>2, <1>3, <1>4 DEF Tick

\* Ledger and in_flight agree with the graph. A restart fills the ledger with the
\* children it gives the tickets back, and starts a tick of its own.
LEMMA LivingStep ==
    ASSUME OrderInv, LedgerInv, Counted, [Next]_vars
    PROVE  LedgerInv' /\ Counted'
<1>1. CASE CrashAndResume
  <2>1. /\ \A t \in Tickets : ledger'[t] = tk'[t].child
        /\ crashes' = crashes + 1 /\ crashes \in Nat /\ pc' = "top"
    BY <1>1 DEF CrashAndResume, OrderInv, SafeInv, Shape, SavedOK
  <2>2. crashes' > 0
    BY <2>1
  <2> QED BY <2>1, <2>2 DEF LedgerInv, Counted
<1>2. CASE World \/ WaveOver \/ UNCHANGED vars
  <2>1. UNCHANGED <<mem, local, crashes>>
    BY <1>2 DEF World, LabelHuman, KidClaimed, KidOpensPr, KidEnds, KidLost, ReviewEnds,
                outside, WaveOver, vars
  <2> QED BY <2>1 DEF mem, local, LedgerInv, Counted, WithStatus
<1> QED BY <1>1, <1>2, LedgerTick, CountedTick DEF Next

\* A hydrated run has an empty ledger, and dispatches nothing yet.
LEMMA LivingInit == Init => LedgerInv /\ Counted
BY DEF Init, LedgerInv, Counted

\* No leftover ledger entry ever locks out a ticket that waits to be dispatched, but
\* for the child of an earlier life that a restart gave it back
\* (_release_in_flight_dispatch, the collection at the end of the poll, restore).
THEOREM LedgerLocksNobodyOut == Spec => []LedgerReleased
<1>1. OrderInv /\ LedgerInv /\ Counted /\ [Next]_vars => LedgerInv' /\ Counted'
  BY LivingStep
<1>2. LedgerInv => LedgerReleased
  BY DEF LedgerInv, LedgerReleased, Waiting
<1> QED BY <1>1, <1>2, LivingInit, OrderAlways, PTL DEF Spec

\* Finite sets: adding one element to a part of a set that is below a limit.
LEMMA OneMore ==
    ASSUME NEW S, IsFiniteSet(S), NEW T, T \subseteq S, NEW x, NEW m \in Nat,
           ~(Cardinality(S) >= m)
    PROVE  Cardinality(T \cup {x}) <= m
<1>1. IsFiniteSet(T) /\ Cardinality(T) <= Cardinality(S)
  BY FS_Subset
<1>2. Cardinality(S) \in Nat /\ Cardinality(T) \in Nat
  BY <1>1, FS_CardinalityType
<1>3. Cardinality(T \cup {x}) \in {Cardinality(T), Cardinality(T) + 1}
  BY <1>1, FS_AddElement
<1> QED BY <1>1, <1>2, <1>3

\* A child that the dispatch step starts joins the tickets really at work within the
\* caps and without touching their files.
LEMMA DispatchLimits ==
    ASSUME OrderInv, Counted, [Next]_vars, ~CrashAndResume, pc = "dispatch",
           NEW t \in Tickets, tk'[t].child # tk[t].child
    PROVE  /\ Cardinality(Working \cup {t}) <= MaxParallel
           /\ Cardinality({u \in Working \cup {t} : Epic[u] = Epic[t]}) <= PerEpicCap
           /\ \A u \in Working : {t, u} \notin Collides
<1>0. /\ Shape /\ TodoOpen /\ inFlight \subseteq Tickets /\ Working \subseteq inFlight
      /\ MaxParallel \in Nat /\ PerEpicCap \in Nat /\ IsFiniteSet(Tickets)
  BY WaveAssumption DEF OrderInv, SafeInv, Shape, LocalOK, Counted, Working
<1>1. DispatchChild(t) /\ tk[t].status = "PENDING"
  <2>1. CASE Tick
    <3>1. \E u \in Tickets : DispatchTicket(u)
      <4>1. ~EndDispatch
        BY DEF EndDispatch
      <4>2. ~(Top \/ PollNothing \/ PollListFails \/ PollList \/ PollClaimed \/ PollSweep
                \/ ReviewsEnd \/ HardStop \/ Snapshot \/ EndOfTick \/ Sleep)
        BY DEF Top, PollNothing, PollListFails, PollList, PollClaimed, PollSweep,
               ReviewsEnd, HardStop, Snapshot, EndOfTick, ForcePass, Finish, CancelExit, Coerce,
               GoOn, StaysOn, Moving, Sample, Sleep
      <4>3. \A u \in Tickets : ~PollTicket(u) /\ ~ReviewTicket(u)
        BY DEF PollTicket, PollAbandon, PollTimeout, PollPhantom, PollRunning,
               PollFailed, PollGap, PollPr, PollSilent, Polled, ReviewTicket,
               ReviewApproved, ReviewTriage, ReviewExhausted, ReviewHuman,
               ReviewRespawn, RespawnRaises, ReviewSilent, FixRound, FixWanted,
               ChangesWanted, Eligible
      <4> QED BY <2>1, <4>1, <4>2, <4>3 DEF Tick
    <3>2. PICK u \in Tickets : DispatchTicket(u)
      BY <3>1
    <3>3. /\ OthersKept(u) /\ tk[u].status = "PENDING"
          /\ tk' = tk \/ tk'[u].child = tk[u].child \/ DispatchChild(u)
      BY <1>0, <3>2, DispatchOutcome
    <3> QED BY <3>3 DEF OthersKept
  <2>2. CASE World \/ WaveOver \/ UNCHANGED vars
    <3>1. tk' = tk
      BY <2>2 DEF World, LabelHuman, KidClaimed, KidOpensPr, KidEnds, KidLost, ReviewEnds,
                  outside, mem, WaveOver, vars
    <3> QED BY <3>1
  <2> QED BY <2>1, <2>2 DEF Next
<1>2. /\ ~(Cardinality(inFlight) >= MaxParallel)
      /\ ~(Cardinality({u \in inFlight : Epic[u] = Epic[t]}) >= PerEpicCap)
      /\ \A u \in inFlight : u # t => {t, u} \notin Collides
  BY <1>1 DEF DispatchChild, Undispatched, NotShipped, Dispatchable, Considered,
              Candidate, Stops, HeldBack
<1>3. IsFiniteSet(inFlight) /\ IsFiniteSet({u \in inFlight : Epic[u] = Epic[t]})
  BY <1>0, FS_Subset
<1>4. Cardinality(Working \cup {t}) <= MaxParallel
  BY <1>0, <1>2, <1>3, OneMore
<1>5. Cardinality({u \in Working \cup {t} : Epic[u] = Epic[t]}) <= PerEpicCap
  <2>1. {u \in Working \cup {t} : Epic[u] = Epic[t]}
          = {u \in Working : Epic[u] = Epic[t]} \cup {t}
    OBVIOUS
  <2>2. {u \in Working : Epic[u] = Epic[t]} \subseteq {u \in inFlight : Epic[u] = Epic[t]}
    BY <1>0
  <2> QED BY <1>0, <1>2, <1>3, <2>1, <2>2, OneMore
<1>6. t \notin Working
  BY <1>1 DEF Working, WithStatus, Active
<1> QED BY <1>0, <1>2, <1>4, <1>5, <1>6

\* The caps and the file collisions hold on the statuses the tickets really have
\* (_dispatch_wave), not only on the list made at the top of the tick, through any
\* number of restarts.
THEOREM DispatchKeepsLimits == Spec => DispatchWithinLimits
<1>1. OrderInv /\ LedgerInv /\ Counted /\ [Next]_vars => LedgerInv' /\ Counted'
  BY LivingStep
<1>2. OrderInv /\ Counted /\ [Next]_vars =>
        [pc = "dispatch" /\ crashes' = crashes => \A t \in Tickets :
           tk'[t].child # tk[t].child =>
             /\ Cardinality(Working \cup {t}) <= MaxParallel
             /\ Cardinality({u \in Working \cup {t} : Epic[u] = Epic[t]}) <= PerEpicCap
             /\ \A u \in Working : {t, u} \notin Collides]_vars
  <2>1. OrderInv /\ CrashAndResume => crashes' # crashes
    <3>1. OrderInv /\ CrashAndResume => crashes \in Nat /\ crashes' = crashes + 1
      BY DEF OrderInv, SafeInv, Shape, SavedOK, CrashAndResume
    <3> QED BY <3>1
  <2> QED BY <2>1, DispatchLimits
<1> QED BY <1>1, <1>2, LivingInit, OrderAlways, PTL DEF Spec, DispatchWithinLimits

-----------------------------------------------------------------------------
(* Waits and acknowledgements: what a failed call may cost.                *)

\* In soul memory, too, at most one ticket for each failed call waits for nothing.
AwaitInv ==
    /\ Cardinality(Forlorn(tk)) <= faults
    /\ saved.valid => Cardinality(Forlorn(saved.tk)) <= faults

\* Whoever waited at the last snapshot waits for the same review until the reviews are
\* polled again: so the SS-08 gate stores no new forlorn ticket.
WaitsStill ==
    snap.valid /\ pc \in {"tail", "sleep", "top", "dispatch"} =>
        \A t \in Tickets : snap.tk[t].status = "AWAITING_REVIEW" =>
            tk[t].status = "AWAITING_REVIEW" /\ tk[t].review = snap.tk[t].review

\* As long as no call has failed, an acknowledgement is in soul memory.
AckInv ==
    /\ saved.valid => snap.valid
    /\ faults = 0 /\ saved.valid /\ acked => saved.acked

\* A hydrated run waits for no review, and nobody has acknowledged anything.
LEMMA KeptInit ==
    ASSUME Init
    PROVE  /\ "AWAITING_REVIEW" \notin Hydrated => AwaitInv
           /\ WaitsStill /\ AckInv
<1>1. \A t \in Tickets : tk[t].status \in Hydrated
  BY DEF Init, NewTicket
<1>2. ~saved.valid /\ ~snap.valid /\ faults = 0
  BY DEF Init, NoCheckpoint
<1>3. ASSUME "AWAITING_REVIEW" \notin Hydrated PROVE Cardinality(Forlorn(tk)) <= faults
  <2>1. Forlorn(tk) = {}
    BY <1>1, <1>3 DEF Forlorn
  <2>2. Cardinality(Forlorn(tk)) = 0
    BY <2>1, FS_EmptySet
  <2> QED BY <1>2, <2>2
<1> QED BY <1>2, <1>3 DEF AwaitInv, WaitsStill, AckInv

\* A graph with no more forlorn tickets has no more of them, by count.
LEMMA NoMoreForlorn ==
    ASSUME NEW f, NEW g, Forlorn(g) \subseteq Forlorn(f), NEW m \in Nat, NEW n \in Nat,
           m <= n, Cardinality(Forlorn(f)) <= m
    PROVE  Cardinality(Forlorn(g)) <= n
<1>1. IsFiniteSet(Forlorn(f))
  BY WaveAssumption, FS_Subset DEF Forlorn
<1>2. IsFiniteSet(Forlorn(g)) /\ Cardinality(Forlorn(g)) <= Cardinality(Forlorn(f))
  BY <1>1, FS_Subset
<1>3. Cardinality(Forlorn(f)) \in Nat /\ Cardinality(Forlorn(g)) \in Nat
  BY <1>1, <1>2, FS_CardinalityType
<1> HIDE DEF Forlorn
<1> QED BY <1>2, <1>3

\* A step of the tick leaves a ticket waiting for nothing only where its call fails.
LEMMA ForlornTick ==
    ASSUME OrderInv, Tick
    PROVE  \/ Forlorn(tk') \subseteq Forlorn(tk)
           \/ Fault /\ \E u \in Tickets : Forlorn(tk') \subseteq Forlorn(tk) \cup {u}
<1>0. Shape /\ TodoOpen /\ PollOpen
  BY DEF OrderInv, SafeInv
<1>1. ASSUME \A t \in Tickets : /\ tk'[t].review = tk[t].review
                                /\ tk'[t].status = "AWAITING_REVIEW"
                                     => tk[t].status = "AWAITING_REVIEW"
      PROVE  Forlorn(tk') \subseteq Forlorn(tk)
  BY <1>1 DEF Forlorn
<1>2. CASE Top \/ EndDispatch \/ PollListFails \/ PollList \/ PollClaimed
             \/ ReviewsEnd \/ HardStop \/ Snapshot \/ EndOfTick \/ Sleep
  BY <1>0, <1>1, <1>2, GraphStays DEF Stays
<1>3. CASE PollSweep
  BY <1>0, <1>1, <1>3, SweepOutcome
<1>4. CASE PollNothing
  BY <1>0, <1>1, <1>4, NothingOutcome
<1>5. ASSUME NEW u \in Tickets, OthersKept(u)
      PROVE  Forlorn(tk') \subseteq Forlorn(tk) \cup {u}
  BY <1>5 DEF Forlorn, OthersKept
<1>6. ASSUME NEW u \in Tickets, OthersKept(u),
             tk'[u].status = "AWAITING_REVIEW" => tk'[u].review # 0
      PROVE  Forlorn(tk') \subseteq Forlorn(tk)
  BY <1>6 DEF Forlorn, OthersKept
<1>7. ASSUME NEW u \in Tickets, DispatchTicket(u)
      PROVE  Forlorn(tk') \subseteq Forlorn(tk)
  BY <1>0, <1>6, <1>7, DispatchOutcome
<1>8. ASSUME NEW u \in Tickets, PollTicket(u)
      PROVE  Forlorn(tk') \subseteq Forlorn(tk)
  BY <1>0, <1>6, <1>8, PollOutcome
<1>9. ASSUME NEW u \in Tickets, ReviewTicket(u)
      PROVE  \/ Forlorn(tk') \subseteq Forlorn(tk)
             \/ Fault /\ Forlorn(tk') \subseteq Forlorn(tk) \cup {u}
  <2>1. OthersKept(u) /\ ((tk'[u].status = "AWAITING_REVIEW" => tk'[u].review # 0) \/ Fault)
    BY <1>0, <1>9, ReviewOutcome
  <2> QED BY <1>5, <1>6, <2>1
<1> QED BY <1>2, <1>3, <1>4, <1>7, <1>8, <1>9 DEF Tick

\* A step of the tick takes no acknowledgement back, and leaves none out of soul
\* memory as long as no call has failed.
LEMMA AckTick ==
    ASSUME Shape, AckInv, Tick
    PROVE  AckInv' /\ (acked => acked')
<1>0. /\ faults' = 0 => faults = 0 /\ ~Fault
      /\ MemOK /\ SavedOK
  <2>1. faults \in Nat /\ faults <= faults'
    BY CountersTick DEF Shape, SavedOK
  <2>2. Fault => faults' = faults + 1
    BY DEF Fault
  <2> QED BY <2>1, <2>2 DEF Shape
<1>1. CASE UNCHANGED <<snap, saved, acked>>
  BY <1>0, <1>1 DEF AckInv
<1>2. CASE Snapshot
  <2>1. /\ UNCHANGED acked
        /\ \/ saved' = Checkpoint(snap') \/ (UNCHANGED saved /\ Fault)
           \/ UNCHANGED <<snap, saved>>
        /\ snap' = SnapshotNow \/ UNCHANGED snap
    BY <1>2 DEF Snapshot
  <2>2. /\ snap' = SnapshotNow => snap'.valid
        /\ saved' = Checkpoint(snap') => saved'.acked = acked
    BY DEF SnapshotNow, Checkpoint
  <2>3. saved' = Checkpoint(snap') => snap' = SnapshotNow \/ UNCHANGED <<snap, saved>>
    BY <1>2 DEF Snapshot
  <2> QED BY <1>0, <2>1, <2>2, <2>3 DEF AckInv
<1>3. CASE Sleep
  <2>1. UNCHANGED acked /\ saved' = AgedCopy(saved) /\ snap' = AgedCopy(snap)
    BY <1>3 DEF Sleep
  <2> QED BY <1>0, <2>1, AgedCopies DEF AckInv
<1>4. ASSUME NEW a \in BOOLEAN, KeepsMidTick(a), UNCHANGED snap, acked' = a, acked => a
      PROVE  AckInv' /\ (acked => acked')
  <2>1. snap.valid => (saved'.valid /\ saved'.acked = a) \/ (UNCHANGED saved /\ Fault)
    BY <1>4 DEF KeepsMidTick, MidTick
  <2>2. ~snap.valid => UNCHANGED saved
    BY <1>4 DEF KeepsMidTick
  <2> QED BY <1>0, <1>4, <2>1, <2>2 DEF AckInv
<1>5. CASE HardStop
  <2>1. KeepsMidTick(acked) /\ UNCHANGED <<snap, acked>> /\ acked \in BOOLEAN
    BY <1>0, <1>5 DEF HardStop, MemOK
  <2> QED BY <1>4, <2>1
<1>6. ASSUME NEW t \in Tickets, DispatchTicket(t)
      PROVE  AckInv' /\ (acked => acked')
  <2>1. CASE Ss08Acked(t)
    <3>1. acked' = TRUE /\ KeepsMidTick(TRUE) /\ UNCHANGED snap
      BY <2>1 DEF Ss08Acked, gateRest
    <3> QED BY <1>4, <3>1
  <2>2. CASE Ss08Deferred(t)
    <3>1. ~acked /\ UNCHANGED <<acked, snap>> /\ KeepsMidTick(FALSE)
      BY <2>2 DEF Ss08Deferred, Considered, Ss08Pending, gateRest
    <3>2. acked' = FALSE
      BY <1>0, <3>1 DEF MemOK
    <3> QED BY <1>4, <3>1, <3>2
  <2>3. CASE ~Ss08Acked(t) /\ ~Ss08Deferred(t)
    BY <1>1, <1>6, <2>3
       DEF DispatchTicket, HoldBack, SkipHuman, SkipShipped, MergeInherited,
           AwaitInherited, RefuseDuplicate, DispatchChild, DispatchRaises, dispatchRest
  <2> QED BY <2>1, <2>2, <2>3
<1>7. ASSUME NEW t \in Tickets, PollTicket(t) \/ ReviewTicket(t)
      PROVE  UNCHANGED <<snap, saved, acked>>
  BY <1>7 DEF PollTicket, PollAbandon, PollTimeout, PollPhantom, PollRunning, PollFailed,
              PollGap, PollPr, PollSilent, pollRest, ReviewTicket, ReviewApproved,
              ReviewTriage, ReviewExhausted, ReviewHuman, ReviewRespawn, RespawnRaises,
              ReviewSilent, reviewRest
<1>8. CASE Top \/ EndDispatch \/ PollNothing \/ PollListFails \/ PollList
             \/ PollClaimed \/ PollSweep \/ ReviewsEnd \/ EndOfTick
  BY <1>1, <1>8 DEF Top, EndDispatch, PollNothing, PollListFails, PollList, PollClaimed,
                    PollSweep, listRest, ReviewsEnd, EndOfTick, ForcePass, Finish,
                    CancelExit, Coerce, GoOn, tailRest
<1> QED BY <1>1, <1>2, <1>3, <1>5, <1>6, <1>7, <1>8 DEF Tick

\* Whoever waited at the snapshot keeps its review through the dispatch.
LEMMA WaitsTick ==
    ASSUME SafeInv, Shape', WaitsStill, Tick
    PROVE  WaitsStill'
<1>0. /\ Shape /\ TodoOpen /\ MemOK /\ tk \in [Tickets -> TicketRecord]
      /\ snap.valid => crashes < MaxCrashes
  BY DEF SafeInv, OnSnapshot, Shape
<1>1. CASE Top
  <2>1. PICK ok \in BOOLEAN : tk' = [u \in Tickets |->
            CASE u \in Forced(ok) -> ForceFailed(u)
              [] tk[u].status \in {"PENDING", "BLOCKED"} ->
                   [tk[u] EXCEPT !.status = IF DepsSatisfied(u) THEN "PENDING"
                                            ELSE "BLOCKED"]
              [] OTHER -> tk[u]]
    BY <1>1 DEF Top
  <2>2. \A t \in Tickets : tk[t].status = "AWAITING_REVIEW" => tk'[t] = tk[t]
    <3> SUFFICES ASSUME NEW t \in Tickets, tk[t].status = "AWAITING_REVIEW"
                 PROVE  tk'[t] = tk[t]
      OBVIOUS
    <3>1. t \notin Forced(ok)
      BY <1>0, ListStays DEF Active
    <3> QED BY <2>1, <3>1
  <2>3. pc = "top" /\ UNCHANGED snap
    BY <1>1 DEF Top
  <2> QED BY <2>2, <2>3 DEF WaitsStill
<1>2. ASSUME NEW t \in Tickets, DispatchTicket(t) PROVE WaitsStill'
  <2>1. pc = "dispatch" /\ tk[t].status = "PENDING" /\ OthersKept(t)
    BY <1>0, <1>2, DispatchOutcome
  <2>2. UNCHANGED snap
    BY <1>0, <1>2, StoresTicket
  <2> QED BY <2>1, <2>2 DEF WaitsStill, OthersKept
<1>3. CASE Snapshot
  <2>1. CASE snap' = SnapshotNow
    BY <1>0, <1>3, <2>1, SnapshotCopies DEF WaitsStill, Copies
  <2>2. CASE UNCHANGED snap /\ crashes = MaxCrashes
    <3>1. ~snap.valid
      BY <1>0, <2>2, WaveAssumption DEF Shape, SavedOK
    <3> QED BY <2>2, <3>1 DEF WaitsStill
  <2> QED BY <1>3, <2>1, <2>2 DEF Snapshot
<1>4. CASE Sleep
  <2>1. /\ pc = "sleep"
        /\ \A t \in Tickets : /\ tk'[t].status = tk[t].status
                              /\ tk'[t].review = tk[t].review
    <3>1. \A r \in TicketRecord : Aged(r).status = r.status /\ Aged(r).review = r.review
      BY CopiedAlike
    <3> QED BY <1>0, <1>4, <3>1 DEF Sleep
  <2>2. snap'.valid <=> snap.valid
    BY <1>4, AgedCopies DEF Sleep, Shape, SafeInv
  <2>3. snap.valid => Copies(snap.tk, snap'.tk)
    BY <1>4, AgedCopies DEF Sleep, Shape, SafeInv
  <2> QED BY <2>1, <2>2, <2>3 DEF WaitsStill, Copies
<1>5. CASE GoOn
  BY <1>5 DEF GoOn, StaysOn, Moving, Sample, tailRest, WaitsStill
<1>6. CASE EndDispatch \/ PollNothing \/ PollListFails \/ PollList \/ PollClaimed
             \/ PollSweep \/ ReviewsEnd \/ HardStop \/ ForcePass \/ Finish \/ CancelExit
             \/ Coerce
  BY <1>6 DEF EndDispatch, PollNothing, PollListFails, PollList, PollClaimed, PollSweep,
              ReviewsEnd, HardStop, ForcePass, Finish, CancelExit, Coerce, WaitsStill
<1>7. ASSUME NEW t \in Tickets, PollTicket(t) \/ ReviewTicket(t) PROVE WaitsStill'
  <2>1. pc' \in {"poll", "reviews", "snapshot"}
    BY <1>7 DEF PollTicket, PollAbandon, PollTimeout, PollPhantom, PollRunning,
                PollFailed, PollGap, PollPr, PollSilent, Polled, pollRest, ReviewTicket,
                ReviewApproved, ReviewTriage, ReviewExhausted, ReviewHuman,
                ReviewRespawn, RespawnRaises, ReviewSilent, FixRound, FixWanted,
                ChangesWanted, Eligible, reviewRest
  <2> QED BY <2>1 DEF WaitsStill
<1> QED BY <1>1, <1>2, <1>3, <1>4, <1>5, <1>6, <1>7 DEF Tick, EndOfTick

\* A move of the world counts faults up and leaves what the daemon knows alone.
LEMMA WorldFaults ==
    ASSUME Shape, World \/ WaveOver \/ UNCHANGED vars
    PROVE  /\ UNCHANGED <<mem, saved, crashes>>
           /\ faults \in Nat /\ faults' \in Nat /\ faults <= faults'
<1>1. UNCHANGED <<mem, saved, crashes>> /\ faults' \in {faults, faults + 1}
  BY DEF World, LabelHuman, KidClaimed, KidOpensPr, KidEnds, KidLost, ReviewEnds,
         outside, WaveOver, vars, Fault
<1>2. faults \in Nat
  BY DEF Shape, SavedOK
<1> QED BY <1>1, <1>2

\* Each failed call leaves at most one ticket waiting for nothing, here and in soul
\* memory.
LEMMA AwaitStep ==
    ASSUME OrderInv, Shape', WaitsStill, AwaitInv, [Next]_vars,
           MaxCrashes = 0 \/ "budget" \notin Signals
    PROVE  AwaitInv' /\ WaitsStill'
<1>0. Shape /\ faults \in Nat /\ faults' \in Nat
  BY DEF OrderInv, SafeInv, Shape, SavedOK
<1>1. CASE Tick
  <2>0. faults <= faults'
    BY <1>0, <1>1, CountersTick DEF Shape
  <2>1. Cardinality(Forlorn(tk')) <= faults'
    <3>1. CASE Forlorn(tk') \subseteq Forlorn(tk)
      BY <1>0, <2>0, <3>1, NoMoreForlorn DEF AwaitInv
    <3>2. ASSUME NEW u \in Tickets, Fault, Forlorn(tk') \subseteq Forlorn(tk) \cup {u}
          PROVE  Cardinality(Forlorn(tk')) <= faults'
      <4>1. IsFiniteSet(Forlorn(tk))
        BY WaveAssumption, FS_Subset DEF Forlorn
      <4>2. /\ IsFiniteSet(Forlorn(tk) \cup {u})
            /\ Cardinality(Forlorn(tk) \cup {u})
                  \in {Cardinality(Forlorn(tk)), Cardinality(Forlorn(tk)) + 1}
        BY <4>1, FS_AddElement
      <4>3. /\ IsFiniteSet(Forlorn(tk'))
            /\ Cardinality(Forlorn(tk')) <= Cardinality(Forlorn(tk) \cup {u})
        BY <3>2, <4>2, FS_Subset
      <4>4. Cardinality(Forlorn(tk)) \in Nat /\ Cardinality(Forlorn(tk')) \in Nat
        BY <4>1, <4>3, FS_CardinalityType
      <4>5. faults' = faults + 1 /\ Cardinality(Forlorn(tk)) <= faults
        BY <3>2 DEF Fault, AwaitInv
      <4> QED BY <1>0, <4>2, <4>3, <4>4, <4>5
    <3> QED BY <1>1, <3>1, <3>2, ForlornTick
  <2>2. ASSUME saved'.valid PROVE Cardinality(Forlorn(saved'.tk)) <= faults'
    <3>1. CASE Copies(tk', saved'.tk)
      <4>1. Forlorn(saved'.tk) \subseteq Forlorn(tk')
        BY <3>1 DEF Copies, Forlorn
      <4> QED BY <1>0, <2>1, <4>1, NoMoreForlorn
    <3>2. CASE saved.valid /\ Copies(saved.tk, saved'.tk)
      <4>1. Forlorn(saved'.tk) \subseteq Forlorn(saved.tk)
        BY <3>2 DEF Copies, Forlorn
      <4> QED BY <1>0, <2>0, <3>2, <4>1, NoMoreForlorn DEF AwaitInv
    <3>3. CASE UNCHANGED saved
      <4>1. saved.valid /\ Forlorn(saved'.tk) \subseteq Forlorn(saved.tk)
        BY <2>2, <3>3
      <4> QED BY <1>0, <2>0, <4>1, NoMoreForlorn DEF AwaitInv
    <3>4. CASE Stores
      <4>1. snap.valid /\ crashes < MaxCrashes /\ crashes \in Nat
        BY <3>4 DEF Stores, OrderInv, SafeInv, OnSnapshot, Shape, SavedOK
      <4>2. ~HardStop
        BY <4>1 DEF HardStop
      <4>3. pc = "dispatch"
        BY <3>4, <4>2 DEF Stores, Ss08Acked, Ss08Deferred, Considered, Candidate
      <4>4. \A t \in Tickets : /\ saved'.tk[t].status = snap.tk[t].status
                              /\ saved'.tk[t].review = tk[t].review
        BY <1>0, <3>4, StoredFields
      <4>5. Forlorn(saved'.tk) \subseteq Forlorn(tk)
        BY <4>1, <4>3, <4>4 DEF WaitsStill, Forlorn
      <4> QED BY <1>0, <2>0, <4>5, NoMoreForlorn DEF AwaitInv
    <3>5. CASE saved'.tk = snap'.tk /\ Copies(tk', snap'.tk)
      BY <3>1, <3>5
    <3> QED BY <1>0, <1>1, <2>2, <3>2, <3>3, <3>4, <3>5, CopiesFrom
  <2>3. WaitsStill'
    BY <1>1, WaitsTick DEF OrderInv
  <2> QED BY <2>1, <2>2, <2>3 DEF AwaitInv
<1>2. CASE CrashAndResume
  <2>1. /\ saved.valid /\ tk' = saved.tk /\ (saved' = saved \/ saved' = NoCheckpoint)
        /\ UNCHANGED faults
        /\ ~snap'.valid \/ snap'.tk = saved.tk
    BY <1>2 DEF CrashAndResume, NoCheckpoint
  <2> QED BY <2>1 DEF AwaitInv, WaitsStill, NoCheckpoint
<1>3. CASE World \/ WaveOver \/ UNCHANGED vars
  <2>1. UNCHANGED <<pc, tk, snap, saved>> /\ faults <= faults'
    BY <1>0, <1>3, WorldFaults DEF mem
  <2>2. AwaitInv'
    BY <1>0, <2>1, NoMoreForlorn DEF AwaitInv
  <2> QED BY <2>1, <2>2 DEF WaitsStill
<1> QED BY <1>1, <1>2, <1>3 DEF Next

\* Acknowledgements have their place in soul memory as long as no call has failed.
LEMMA AckStep ==
    ASSUME Shape, AckInv, [Next]_vars
    PROVE  AckInv' /\ (acked /\ ~acked' => faults > 0)
<1>0. faults \in Nat
  BY DEF Shape, SavedOK
<1>1. CASE Tick
  BY <1>1, AckTick
<1>2. CASE CrashAndResume
  <2>1. /\ saved.valid /\ acked' = saved.acked /\ UNCHANGED faults
        /\ (saved' = saved /\ snap'.valid) \/ saved' = NoCheckpoint
    BY <1>2 DEF CrashAndResume
  <2> QED BY <1>0, <2>1 DEF AckInv, NoCheckpoint
<1>3. CASE World \/ WaveOver \/ UNCHANGED vars
  <2>1. UNCHANGED <<snap, saved, acked>> /\ (faults' = 0 => faults = 0)
    BY <1>0, <1>3, WorldFaults DEF mem
  <2> QED BY <2>1 DEF AckInv
<1> QED BY <1>1, <1>2, <1>3 DEF Next

\* Each call that fails leaves at most one ticket waiting for a verdict without a
\* review task that can bring it (_poll_children, _fire_review_for_inherited_pr,
\* _poll_reviews); across restarts too, as long as no hard stop of the budget writes
\* a checkpoint between a verdict and the snapshot.
THEOREM AwaitedReviewsExist ==
    ASSUME "AWAITING_REVIEW" \notin Hydrated,
           MaxCrashes = 0 \/ "budget" \notin Signals
    PROVE  Spec => []AwaitedReviewExists
<1>1. OrderInv /\ OrderInv' /\ WaitsStill /\ AwaitInv /\ [Next]_vars
          => AwaitInv' /\ WaitsStill'
  BY AwaitStep DEF OrderInv, SafeInv
<1>2. AwaitInv => AwaitedReviewExists
  BY DEF AwaitInv, AwaitedReviewExists
<1>3. Init => AwaitInv /\ WaitsStill
  BY KeptInit
<1> QED BY <1>1, <1>2, <1>3, OrderAlways, PTL DEF Spec

\* Until a call fails, the acknowledgement of the SS-08 gate survives any number of
\* restarts (_maybe_ss08_gate, checkpoint and restore).
THEOREM AckSurvives == Spec => AckSurvivesRestart
<1>1. OrderInv /\ AckInv /\ [Next]_vars => AckInv'
  BY AckStep DEF OrderInv, SafeInv
<1>2. OrderInv /\ AckInv /\ [Next]_vars => [acked /\ ~acked' => faults > 0]_vars
  BY AckStep DEF OrderInv, SafeInv
<1>3. Init => AckInv
  BY KeptInit
<1> QED BY <1>1, <1>2, <1>3, OrderAlways, PTL DEF Spec, AckSurvivesRestart

-----------------------------------------------------------------------------
(* The builders a ticket has paid for.                                     *)

\* Every counted retry had a builder, and so has the ticket now if it holds one; each
\* restart may give a ticket back the builder of a retry.
Paid(t) == tk[t].retries + (IF tk[t].child = 0 THEN 0 ELSE 1) <= Len(kids[t]) + crashes

\* The retries in soul memory are paid for without the builder that is noted there.
PaidIn(f) == \A t \in Tickets : f[t].retries <= Len(kids[t]) + crashes
KeptPaid == (saved.valid => PaidIn(saved.tk)) /\ (snap.valid => PaidIn(snap.tk))

\* What this poll has failed still holds its builder, or is a phantom.
FreshHolds ==
    pc \in {"claimed", "poll"} =>
        \A t \in fresh : tk[t].status = "FAILED" => tk[t].child # 0 \/ tk[t].phantom

\* r becomes q without a retry and without a new builder.
Frugal(r, q) == q.retries = r.retries /\ q.child \in {0, r.child}

\* One step of a ticket: no retry, and at most one new builder; or a retry for the
\* builder it gives up.
Pays(t) ==
    \/ Frugal(tk[t], tk'[t])
    \/ tk'[t].retries = tk[t].retries /\ Len(kids'[t]) > Len(kids[t])
    \/ tk'[t].retries = tk[t].retries + 1 /\ tk[t].child # 0 /\ tk'[t].child = 0

\* The ticket that pays stays paid for.
LEMMA PaysPaid ==
    ASSUME Shape, Shape', Grown, crashes' = crashes, NEW t \in Tickets, Pays(t), Paid(t)
    PROVE  Paid(t)'
<1>1. /\ tk[t] \in TicketRecord /\ tk'[t] \in TicketRecord /\ crashes \in Nat
      /\ Len(kids[t]) \in Nat /\ Len(kids'[t]) \in Nat /\ Len(kids[t]) <= Len(kids'[t])
  BY DEF Shape, WorldOK, Grown, SavedOK
<1>2. tk[t].retries \in Nat /\ tk'[t].retries \in Nat
  BY <1>1 DEF TicketRecord
<1> DEFINE m == Len(kids[t])
           n == Len(kids'[t])
           p == tk[t].retries
           q == tk'[t].retries
<1>3. /\ m \in Nat /\ n \in Nat /\ p \in Nat /\ q \in Nat /\ m <= n
      /\ p + (IF tk[t].child = 0 THEN 0 ELSE 1) <= m + crashes
      /\ \/ q = p /\ (tk[t].child = 0 => tk'[t].child = 0)
         \/ q = p /\ n > m
         \/ q = p + 1 /\ tk[t].child # 0 /\ tk'[t].child = 0
  BY <1>1, <1>2 DEF Pays, Paid, Frugal
<1> HIDE DEF m, n, p, q
<1>4. q + (IF tk'[t].child = 0 THEN 0 ELSE 1) <= n + crashes
  BY <1>1, <1>3
<1> QED BY <1>4 DEF n, q, Paid

\* The retries of a ticket that is paid for are.
LEMMA PaidRetries ==
    ASSUME NEW r \in TicketRecord, NEW m \in Nat, NEW c \in Nat,
           r.retries + (IF r.child = 0 THEN 0 ELSE 1) <= m + c
    PROVE  r.retries <= m + c
<1>1. r.retries \in Nat
  BY DEF TicketRecord
<1> QED BY <1>1

\* And builders are never taken back from those in soul memory.
LEMMA KeptRetries ==
    ASSUME Shape, WorldOK', Grown, UNCHANGED crashes,
           NEW f \in [Tickets -> TicketRecord], PaidIn(f)
    PROVE  \A t \in Tickets : f[t].retries <= Len(kids'[t]) + crashes'
<1> SUFFICES ASSUME NEW t \in Tickets
             PROVE  f[t].retries <= Len(kids'[t]) + crashes'
  OBVIOUS
<1>1. Len(kids[t]) \in Nat /\ Len(kids'[t]) \in Nat /\ crashes \in Nat
  BY DEF Shape, WorldOK, SavedOK
<1>2. Len(kids[t]) <= Len(kids'[t]) /\ f[t].retries <= Len(kids[t]) + crashes
  BY DEF Grown, PaidIn
<1>3. f[t] \in TicketRecord
  OBVIOUS
<1>4. f[t].retries \in Nat
  BY <1>3 DEF TicketRecord
<1> QED BY <1>1, <1>2, <1>4

\* mesh.create_task appends to the ticket's builders.
LEMMA NewKidLonger ==
    ASSUME Shape, NEW t \in Tickets, NewKid(t)
    PROVE  Len(kids'[t]) > Len(kids[t])
<1>1. Len(kids'[t]) = KidId(t) /\ Len(kids[t]) \in Nat
  BY NewKidType DEF Shape, WorldOK
<1> QED BY <1>1 DEF KidId

\* A dispatch decision counts no retry.
LEMMA DispatchPays ==
    ASSUME Shape, NEW t \in Tickets, DispatchTicket(t)
    PROVE  Pays(t)
<1>0. tk[t] \in TicketRecord /\ t \in DOMAIN tk /\ tk \in [Tickets -> TicketRecord]
  BY DEF Shape
<1> USE DEF Pays, Frugal
<1>1. CASE HoldBack(t) \/ Ss08Acked(t) \/ RefuseDuplicate(t) \/ DispatchRaises(t)
  BY <1>1 DEF HoldBack, Ss08Acked, RefuseDuplicate, DispatchRaises, gateRest
<1>2. CASE Ss08Deferred(t) \/ SkipHuman(t)
  <2>1. PICK s \in {"FAILED", "ESCALATED"} : tk' = [tk EXCEPT ![t].status = s]
    BY <1>2 DEF Ss08Deferred, SkipHuman
  <2> QED BY <1>0, <2>1 DEF TicketRecord
<1>3. CASE SkipShipped(t)
  BY <1>0, <1>3 DEF SkipShipped, TicketRecord
<1>4. CASE MergeInherited(t)
  <2>1. PICK s \in {"MERGED_GREEN", "FAILED"}, k \in BOOLEAN :
            tk' = [tk EXCEPT ![t] = [tk[t] EXCEPT !.status = s, !.pr = k]]
    BY <1>4, MergeTk DEF MergeInherited
  <2> QED BY <1>0, <2>1 DEF TicketRecord
<1>5. CASE AwaitInherited(t)
  <2>1. CASE AdoptReview(t)
    BY <1>0, <2>1 DEF AdoptReview, TicketRecord
  <2>2. CASE FireReview(t)
    BY <1>0, <2>2 DEF FireReview, TicketRecord
  <2>3. CASE ReviewRegistered(t)
    BY <2>3 DEF ReviewRegistered
  <2> QED BY <1>5, <2>1, <2>2, <2>3 DEF AwaitInherited
<1>6. CASE DispatchChild(t)
  <2>1. /\ tk' = [tk EXCEPT ![t].child = KidId(t), ![t].status = "DISPATCHED",
                            ![t].dispAge = 0, ![t].tried = @ + 1]
        /\ NewKid(t)
    BY <1>6 DEF DispatchChild
  <2>2. tk'[t].retries = tk[t].retries
    BY <1>0, <2>1 DEF TicketRecord
  <2> QED BY <2>1, <2>2, NewKidLonger
<1> QED BY <1>1, <1>2, <1>3, <1>4, <1>5, <1>6 DEF DispatchTicket

\* The poll of one ticket counts a retry only as it gives its builder up, and a
\* ticket it fails holds its builder.
LEMMA PollPays ==
    ASSUME Shape, TodoOpen, NEW t \in Tickets, PollTicket(t)
    PROVE  Pays(t) /\ (tk'[t].status = "FAILED" => tk'[t].child # 0)
<1>0. tk[t] \in TicketRecord /\ t \in DOMAIN tk /\ tk \in [Tickets -> TicketRecord]
  BY DEF Shape
<1>1. tk[t].child # 0
  BY DEF TodoOpen, PollTicket, PollAbandon, PollTimeout, PollPhantom, PollRunning,
         PollFailed, PollGap, PollPr, PollSilent, Polled
<1> USE DEF Pays, Frugal
<1>2. CASE PollAbandon(t)
  <2> DEFINE r == [Abandoned(tk[t]) EXCEPT !.retries = tk[t].retries + 1,
                                           !.dispAge = NoTime]
  <2>1. tk'[t] = r
    BY <1>0, <1>2 DEF PollAbandon
  <2>2. r.retries = tk[t].retries + 1 /\ r.child = 0 /\ r.status = "ABANDONED"
    BY <1>0 DEF Abandoned, TicketRecord
  <2> HIDE DEF r
  <2> QED BY <1>1, <2>1, <2>2
<1>3. CASE PollTimeout(t)
  BY <1>0, <1>1, <1>3 DEF PollTimeout, TicketRecord
<1>4. CASE PollPhantom(t)
  <2>1. /\ ForceFailed(t).retries = tk[t].retries
        /\ ForceFailed(t).child = tk[t].child
    BY <1>0 DEF ForceFailed, TicketRecord
  <2>2. tk'[t] = ForceFailed(t)
    BY <1>0, <1>4 DEF PollPhantom
  <2> QED BY <1>1, <2>1, <2>2
<1>5. CASE PollRunning(t)
  BY <1>0, <1>1, <1>5 DEF PollRunning, TicketRecord
<1>6. CASE PollFailed(t) \/ PollGap(t)
  <2>1. PICK s \in {"FAILED", "ESCALATED"} : tk' = [tk EXCEPT ![t].status = s]
    BY <1>6 DEF PollFailed, PollGap
  <2> QED BY <1>0, <1>1, <2>1 DEF TicketRecord
<1>7. CASE PollPr(t)
  BY <1>0, <1>1, <1>7 DEF PollPr, TicketRecord
<1>8. CASE PollSilent(t)
  BY <1>0, <1>1, <1>8 DEF PollSilent, TicketRecord
<1> QED BY <1>2, <1>3, <1>4, <1>5, <1>6, <1>7, <1>8 DEF PollTicket

\* Nor does a review verdict.
LEMMA ReviewPays ==
    ASSUME Shape, NEW t \in Tickets, ReviewTicket(t)
    PROVE  Pays(t)
<1>0. tk[t] \in TicketRecord /\ t \in DOMAIN tk /\ tk \in [Tickets -> TicketRecord]
  BY DEF Shape
<1> USE DEF Pays, Frugal
<1>1. CASE ReviewApproved(t)
  <2>1. Merge(t, tk[t].pr) /\ tk[t].pr \in BOOLEAN
    BY <1>0, <1>1 DEF ReviewApproved, TicketRecord
  <2>2. PICK s \in {"MERGED_GREEN", "FAILED"}, k \in BOOLEAN :
            tk' = [tk EXCEPT ![t] = [tk[t] EXCEPT !.status = s, !.pr = k]]
    BY <2>1, MergeTk
  <2> QED BY <1>0, <2>2 DEF TicketRecord
<1>2. CASE ReviewTriage(t)
  BY <1>0, <1>2 DEF ReviewTriage, TicketRecord
<1>3. CASE ReviewExhausted(t) \/ ReviewHuman(t)
  <2>1. PICK s \in {"FAILED", "ESCALATED"} : tk' = [tk EXCEPT ![t].status = s]
    BY <1>3 DEF ReviewExhausted, ReviewHuman
  <2> QED BY <1>0, <2>1 DEF TicketRecord
<1>4. CASE ReviewRespawn(t)
  <2>1. /\ tk' = [tk EXCEPT ![t].status = "DISPATCHED", ![t].child = KidId(t),
                         ![t].cycles = @ + 1, ![t].review = 0, ![t].silents = 0]
        /\ NewKid(t)
    BY <1>4 DEF ReviewRespawn
  <2>2. tk'[t].retries = tk[t].retries
    BY <1>0, <2>1 DEF TicketRecord
  <2> QED BY <2>1, <2>2, NewKidLonger
<1>5. CASE RespawnRaises(t)
  BY <1>0, <1>5 DEF RespawnRaises, TicketRecord
<1>6. CASE ReviewSilent(t)
  BY <1>0, <1>6 DEF ReviewSilent, TicketRecord
<1> QED BY <1>1, <1>2, <1>3, <1>4, <1>5, <1>6 DEF ReviewTicket

\* The orphan reconcile, the wake-up and the refresh neither.
LEMMA ListPays ==
    ASSUME Shape, NEW t \in Tickets
    PROVE  Frugal(tk[t], ForceFailed(t)) /\ Frugal(tk[t], Refreshed(t))
<1>0. tk[t] \in TicketRecord
  BY DEF Shape
<1>1. \A r \in TicketRecord : \A s : LET q == [r EXCEPT !.status = s]
                                 IN  q.retries = r.retries /\ q.child = r.child
  BY DEF TicketRecord
<1>2. Frugal(tk[t], ForceFailed(t))
  BY <1>0 DEF ForceFailed, Frugal, TicketRecord
<1> DEFINE w == [tk[t] EXCEPT !.status = "PENDING", !.backAge = NoTime]
<1>3. /\ w.retries = tk[t].retries /\ w.child = tk[t].child /\ w \in TicketRecord
      /\ w.status = "PENDING"
  BY <1>0, StatusNames DEF TicketRecord
<1> HIDE DEF w
<1>4. Frugal(tk[t], Refreshed(t))
  <2>1. CASE tk[t].status = "BACKED_OFF" /\ tk[t].backAge >= Backoff
    <3>1. Refreshed(t) = [w EXCEPT !.status = IF DepsSatisfied(t) THEN "PENDING"
                                              ELSE "BLOCKED"]
      BY <1>3, <2>1 DEF Refreshed, w
    <3> QED BY <1>1, <1>3, <3>1 DEF Frugal
  <2>2. CASE ~(tk[t].status = "BACKED_OFF" /\ tk[t].backAge >= Backoff)
    <3>1. Refreshed(t) = IF tk[t].status \in {"PENDING", "BLOCKED"}
                         THEN [tk[t] EXCEPT !.status = IF DepsSatisfied(t)
                                                       THEN "PENDING" ELSE "BLOCKED"]
                         ELSE tk[t]
      BY <2>2 DEF Refreshed
    <3> QED BY <1>0, <1>1, <3>1 DEF Frugal
  <2> QED BY <2>1, <2>2
<1> QED BY <1>2, <1>4

\* The sweep counts a retry exactly as it takes the builder away, and none for a
\* phantom.
LEMMA CarvedPays ==
    ASSUME NEW r \in TicketRecord, NEW t
    PROVE  \/ Frugal(r, CarvedOut(r, t))
           \/ /\ r.status = "FAILED" /\ ~r.phantom
              /\ CarvedOut(r, t).retries = r.retries + 1 /\ CarvedOut(r, t).child = 0
<1>1. /\ BackedOff(r).retries = r.retries + 1 /\ BackedOff(r).child = 0
      /\ PhantomReset(r).retries = r.retries /\ PhantomReset(r).child = 0
      /\ Abandoned(r).retries = r.retries /\ Abandoned(r).child = 0
  BY DEF TicketRecord, BackedOff, PhantomReset, Abandoned
<1>2. r.retries \in Nat /\ RetryBudget \in Nat
  BY WaveAssumption DEF TicketRecord
<1>3. r.retries < RetryBudget => RetryBudget > 0
  BY <1>2
<1> QED BY <1>1, <1>3 DEF CarvedOut, CarvesPhantom, Frugal

\* Every step of the tick pays for its retries.
LEMMA TickPays ==
    ASSUME OrderInv, FreshHolds, Tick, NEW t \in Tickets
    PROVE  Pays(t)
<1>0. /\ Shape /\ TodoOpen /\ PollOpen
      /\ tk \in [Tickets -> TicketRecord]
  BY DEF OrderInv, SafeInv, Shape
<1>1. ASSUME tk'[t] = tk[t] PROVE Pays(t)
  BY <1>1 DEF Pays, Frugal
<1>2. CASE Top
  <2>1. PICK ok \in BOOLEAN : tk' = [u \in Tickets |->
            CASE u \in Forced(ok) -> ForceFailed(u)
              [] tk[u].status \in {"PENDING", "BLOCKED"} ->
                   [tk[u] EXCEPT !.status = IF DepsSatisfied(u) THEN "PENDING"
                                            ELSE "BLOCKED"]
              [] OTHER -> tk[u]]
    BY <1>2 DEF Top
  <2>2. CASE t \in Forced(ok)
    <3>1. tk[t].status \notin {"PENDING", "BLOCKED"}
      BY <1>0, <2>2, ListStays DEF Active
    <3>2. tk'[t] = ForceFailed(t)
      BY <2>1, <2>2, <3>1
    <3> QED BY <1>0, <3>2, ListPays DEF Pays
  <2>3. CASE t \notin Forced(ok) /\ tk[t].status \in {"PENDING", "BLOCKED"}
    <3> DEFINE s == IF DepsSatisfied(t) THEN "PENDING" ELSE "BLOCKED"
    <3>1. tk'[t] = [tk[t] EXCEPT !.status = s]
      BY <2>1, <2>3
    <3> HIDE DEF s
    <3> QED BY <1>0, <3>1 DEF Pays, Frugal, TicketRecord
  <2>4. CASE t \notin Forced(ok) /\ tk[t].status \notin {"PENDING", "BLOCKED"}
    BY <1>1, <2>1, <2>4
  <2> QED BY <2>2, <2>3, <2>4
<1>3. CASE PollListFails \/ PollList
  <2>1. PICK ok \in BOOLEAN : tk' = AtList(ok)
    BY <1>3 DEF PollListFails, PollList
  <2>2. tk'[t] \in {ForceFailed(t), Refreshed(t)}
    BY <2>1 DEF AtList
  <2> QED BY <1>0, <2>2, ListPays DEF Pays
<1>4. CASE PollNothing
  <2>1. PICK ok \in BOOLEAN : SweepOver(AtList(ok), Forced(ok))
    BY <1>4 DEF PollNothing
  <2>2. CASE t \in Forced(ok)
    <3>1. tk'[t] = CarvedOut(ForceFailed(t), t) /\ ForceFailed(t).phantom
      BY <1>0, <2>1, <2>2, ListStays DEF SweepOver
    <3>2. ForceFailed(t) \in TicketRecord
      BY <1>0, ListedType
    <3>3. Frugal(ForceFailed(t), tk'[t])
      BY <3>1, <3>2, CarvedPays
    <3> QED BY <1>0, <3>3, ListPays DEF Pays, Frugal
  <2>3. CASE t \notin Forced(ok)
    <3>1. tk'[t] = Refreshed(t)
      BY <2>1, <2>3 DEF SweepOver, AtList
    <3> QED BY <1>0, <3>1, ListPays DEF Pays
  <2> QED BY <2>2, <2>3
<1>5. CASE PollSweep
  <2>1. tk'[t] = (IF t \in fresh THEN CarvedOut(tk[t], t) ELSE tk[t]) /\ pc = "poll"
    BY <1>5 DEF PollSweep, SweepOver
  <2>2. CASE t \in fresh
    <3>1. tk'[t] = CarvedOut(tk[t], t) /\ tk[t] \in TicketRecord
      BY <1>0, <2>1, <2>2
    <3>2. tk[t].status = "FAILED" => tk[t].child # 0 \/ tk[t].phantom
      BY <2>1, <2>2 DEF FreshHolds
    <3> QED BY <3>1, <3>2, CarvedPays DEF Pays
  <2> QED BY <1>1, <2>1, <2>2
<1>6. CASE Snapshot
  <2>1. \A r \in TicketRecord : Frugal(r, Snapped(r))
    BY DEF TicketRecord, Snapped, Frugal
  <2> QED BY <1>0, <1>6, <2>1 DEF Snapshot, Pays
<1>7. CASE Sleep
  <2>1. \A r \in TicketRecord : Frugal(r, Aged(r))
    BY DEF TicketRecord, Aged, Frugal
  <2> QED BY <1>0, <1>7, <2>1 DEF Sleep, Pays
<1>8. CASE ForcePass
  <2>1. \A r \in TicketRecord : Frugal(r, Abandoned(r))
    BY DEF TicketRecord, Abandoned, Frugal
  <2>2. tk'[t] \in {tk[t], Abandoned(tk[t])}
    BY <1>8 DEF ForcePass
  <2> QED BY <1>0, <1>1, <2>1, <2>2 DEF Pays
<1>9. CASE Coerce
  <2> DEFINE q == [tk[t] EXCEPT !.status = "FAILED"]
  <2>1. Frugal(tk[t], q)
    BY <1>0 DEF TicketRecord, Frugal
  <2>2. tk'[t] = tk[t] \/ tk'[t] = q
    BY <1>9 DEF Coerce
  <2> HIDE DEF q
  <2> QED BY <1>1, <2>1, <2>2 DEF Pays
<1>10. CASE EndDispatch \/ PollClaimed \/ ReviewsEnd \/ HardStop \/ Finish \/ CancelExit
              \/ GoOn
  BY <1>1, <1>10 DEF EndDispatch, PollClaimed, ReviewsEnd, HardStop, Finish, CancelExit,
                     GoOn
<1>11. ASSUME NEW u \in Tickets, DispatchTicket(u) \/ PollTicket(u) \/ ReviewTicket(u)
       PROVE  Pays(t)
  <2>1. OthersKept(u)
    BY <1>0, <1>11, DispatchOutcome, PollOutcome, ReviewOutcome
  <2>2. Pays(u)
    BY <1>0, <1>11, DispatchPays, PollPays, ReviewPays
  <2> QED BY <1>1, <2>1, <2>2 DEF OthersKept
<1> QED BY <1>2, <1>3, <1>4, <1>5, <1>6, <1>7, <1>8, <1>9, <1>10, <1>11
        DEF Tick, EndOfTick

\* What a poll fails is a phantom, or holds its builder until the sweep.
LEMMA FreshTick ==
    ASSUME OrderInv, FreshHolds, Tick
    PROVE  FreshHolds'
<1>0. /\ Shape /\ TodoOpen /\ PollOpen
      /\ fresh \subseteq Tickets
  BY DEF OrderInv, SafeInv, Shape, LocalOK
<1>1. CASE Top \/ EndDispatch \/ PollNothing \/ PollListFails \/ PollSweep \/ ReviewsEnd
             \/ HardStop \/ Snapshot \/ EndOfTick \/ Sleep
  BY <1>1 DEF Top, EndDispatch, PollNothing, PollListFails, PollSweep, ReviewsEnd,
              HardStop, Snapshot, EndOfTick, ForcePass, Finish, CancelExit, Coerce, GoOn, Sleep,
              FreshHolds
<1>2. CASE PollList
  <2>1. PICK ok \in BOOLEAN : tk' = AtList(ok) /\ fresh' = Forced(ok)
    BY <1>2 DEF PollList
  <2>2. ASSUME NEW t \in Forced(ok) PROVE tk'[t].phantom
    <3>1. t \in Tickets
      BY DEF Forced, Orphans, WithStatus
    <3> QED BY <1>0, <2>1, <3>1, ListStays
  <2> QED BY <2>1, <2>2 DEF FreshHolds
<1>3. CASE PollClaimed
  BY <1>3 DEF PollClaimed, FreshHolds
<1>4. ASSUME NEW u \in Tickets, DispatchTicket(u) \/ ReviewTicket(u) PROVE FreshHolds'
  <2>1. pc \in {"dispatch", "reviews"}
    BY <1>0, <1>4, DispatchOutcome, ReviewOutcome
  <2>2. pc' = pc \/ pc' = "snapshot"
    BY <1>4, OneTicketStep, <1>0
       DEF ReviewTicket, ReviewApproved, ReviewTriage, ReviewExhausted, ReviewHuman,
           ReviewRespawn, RespawnRaises, ReviewSilent, reviewRest, Shape, Typed, MemOK
  <2> QED BY <2>1, <2>2 DEF FreshHolds
<1>5. ASSUME NEW u \in Tickets, PollTicket(u) PROVE FreshHolds'
  <2>1. pc = "poll" /\ OthersKept(u) /\ fresh' \subseteq fresh \cup {u}
    BY <1>0, <1>5, PollOutcome
  <2>2. tk'[u].status = "FAILED" => tk'[u].child # 0
    BY <1>0, <1>5, PollPays
  <2> QED BY <1>0, <2>1, <2>2 DEF FreshHolds, OthersKept
<1> QED BY <1>1, <1>2, <1>3, <1>4, <1>5 DEF Tick

PaidInv == FreshHolds /\ KeptPaid /\ \A t \in Tickets : Paid(t)

\* A hydrated run has counted no retry.
LEMMA PaidInit == Init => PaidInv
<1> SUFFICES ASSUME Init PROVE PaidInv
  OBVIOUS
<1>1. Shape /\ pc = "top" /\ ~saved.valid /\ ~snap.valid /\ crashes = 0
  BY ShapeInit DEF Init, NoCheckpoint
<1>2. \A t \in Tickets : tk[t].retries = 0 /\ tk[t].child = 0
  BY DEF Init, NewTicket
<1>3. \A t \in Tickets : Len(kids[t]) \in Nat
  BY <1>1 DEF Shape, WorldOK
<1> QED BY <1>1, <1>2, <1>3 DEF PaidInv, FreshHolds, KeptPaid, Paid

\* Copies that are left alone stay paid for.
LEMMA CopyPaid ==
    ASSUME Shape, WorldOK', Grown, crashes' = crashes, KeptPaid
    PROVE  /\ saved.valid => \A t \in Tickets :
                  saved.tk[t].retries <= Len(kids'[t]) + crashes'
           /\ snap.valid => \A t \in Tickets :
                  snap.tk[t].retries <= Len(kids'[t]) + crashes'
<1>1. /\ saved.valid => saved.tk \in [Tickets -> TicketRecord]
      /\ snap.valid => snap.tk \in [Tickets -> TicketRecord]
  BY TypedCopies DEF Shape, CopiesTyped, CheckpointRecord, SnapshotRecord
<1>2. (saved.valid => PaidIn(saved.tk)) /\ (snap.valid => PaidIn(snap.tk))
  BY DEF KeptPaid
<1> QED BY <1>1, <1>2, KeptRetries

\* A step of the tick keeps the retries paid for, in soul memory too.
LEMMA PaidTick ==
    ASSUME OrderInv, Shape', PaidInv, Tick
    PROVE  PaidInv'
<1>0. Shape /\ Shape' /\ WorldOK /\ tk \in [Tickets -> TicketRecord] /\ crashes \in Nat
  BY DEF OrderInv, SafeInv, Shape, SavedOK
<1>1. Grown /\ crashes' = crashes /\ WorldOK'
  BY <1>0, WorldTick, CountersTick DEF Shape
<1>2. \A t \in Tickets : Paid(t)'
  BY <1>0, <1>1, TickPays, PaysPaid DEF PaidInv
<1>3. PaidIn(tk)'
  <2> SUFFICES ASSUME NEW t \in Tickets
               PROVE  tk'[t].retries <= Len(kids'[t]) + crashes'
    BY DEF PaidIn
  <2>1. /\ tk'[t] \in TicketRecord /\ Len(kids'[t]) \in Nat
        /\ tk'[t].retries + (IF tk'[t].child = 0 THEN 0 ELSE 1)
             <= Len(kids'[t]) + crashes
    BY <1>0, <1>1, <1>2 DEF Paid, Shape, WorldOK
  <2> QED BY <1>0, <1>1, <2>1, PaidRetries
<1>4. /\ saved.valid => \A t \in Tickets :
             saved.tk[t].retries <= Len(kids'[t]) + crashes'
      /\ snap.valid => \A t \in Tickets :
             snap.tk[t].retries <= Len(kids'[t]) + crashes'
  BY <1>0, <1>1, CopyPaid DEF PaidInv
<1>5. CASE UNCHANGED <<snap, saved>>
  BY <1>2, <1>4, <1>5, FreshTick DEF KeptPaid, PaidIn, PaidInv
<1>6. CASE Stores /\ UNCHANGED snap
  <2>1. snap.valid /\ \A t \in Tickets : saved'.tk[t].retries = snap.tk[t].retries
    BY <1>0, <1>6, StoredFields DEF Stores
  <2>2. KeptPaid'
    BY <1>4, <1>6, <2>1 DEF KeptPaid, PaidIn
  <2> QED BY <1>2, <2>2, FreshTick DEF PaidInv
<1>7. CASE /\ snap'.valid /\ Copies(tk', snap'.tk)
           /\ UNCHANGED saved \/ (saved'.valid /\ saved'.tk = snap'.tk)
  <2>1. PaidIn(snap.tk)'
    BY <1>3, <1>7 DEF PaidIn, Copies
  <2>2. KeptPaid'
    BY <1>4, <1>7, <2>1 DEF KeptPaid, PaidIn
  <2> QED BY <1>2, <2>2, FreshTick DEF PaidInv
<1>8. CASE /\ saved'.valid <=> saved.valid
           /\ snap'.valid <=> snap.valid
           /\ saved.valid => Copies(saved.tk, saved'.tk)
           /\ snap.valid => Copies(snap.tk, snap'.tk)
  <2>1. KeptPaid'
    BY <1>4, <1>8 DEF KeptPaid, PaidIn, Copies
  <2> QED BY <1>2, <2>1, FreshTick DEF PaidInv
<1> QED BY <1>0, <1>5, <1>6, <1>7, <1>8, CopiesFrom

\* A restart counts itself for the builder it may give a ticket back.
LEMMA PaidCrash ==
    ASSUME OrderInv, PaidInv, CrashAndResume
    PROVE  PaidInv'
<1>0. Shape /\ WorldOK /\ crashes \in Nat
  BY DEF OrderInv, SafeInv, Shape, SavedOK
<1>1. /\ saved.valid /\ tk' = saved.tk /\ pc' = "top" /\ crashes' = crashes + 1
      /\ saved' = saved \/ saved' = NoCheckpoint
      /\ ~snap'.valid \/ snap'.tk = saved.tk
  BY DEF CrashAndResume, NoCheckpoint
<1>2. ASSUME NEW t \in Tickets
      PROVE  /\ Len(kids[t]) \in Nat /\ Len(kids'[t]) \in Nat
             /\ Len(kids[t]) <= Len(kids'[t]) /\ saved.tk[t].retries \in Nat
             /\ saved.tk[t].retries <= Len(kids[t]) + crashes
  <2>0. saved \in CheckpointRecord
    BY <1>0, <1>1, NoCheckpointInvalid DEF Shape, SavedOK
  <2>1. saved.tk[t] \in TicketRecord
    BY <2>0 DEF CheckpointRecord
  <2>2. saved.tk[t].retries \in Nat
    BY <2>1 DEF TicketRecord
  <2>3. Grown /\ WorldOK'
    BY <1>0, CrashWorld
  <2> QED BY <1>0, <1>1, <2>2, <2>3 DEF PaidInv, KeptPaid, PaidIn, Grown, WorldOK
<1>3. \A m, n, p, k \in Nat : m <= n /\ p <= m + k => /\ p <= n + (k + 1)
                                                      /\ p + 1 <= n + (k + 1)
  OBVIOUS
<1>4. ASSUME NEW t \in Tickets
      PROVE  /\ saved.tk[t].retries <= Len(kids'[t]) + crashes'
             /\ saved.tk[t].retries + 1 <= Len(kids'[t]) + crashes'
  BY <1>0, <1>1, <1>2, <1>3
<1>5. \A t \in Tickets : Paid(t)'
  <2> SUFFICES ASSUME NEW t \in Tickets
               PROVE  tk'[t].retries + (IF tk'[t].child = 0 THEN 0 ELSE 1)
                        <= Len(kids'[t]) + crashes'
    BY DEF Paid
  <2>1. tk'[t].retries = saved.tk[t].retries /\ saved.tk[t].retries \in Nat
    BY <1>1, <1>2
  <2> QED BY <1>4, <2>1
<1>6. KeptPaid' /\ FreshHolds'
  BY <1>1, <1>4 DEF KeptPaid, PaidIn, FreshHolds, NoCheckpoint
<1> QED BY <1>5, <1>6 DEF PaidInv

\* A move of the world keeps them paid for.
LEMMA PaidWorld ==
    ASSUME OrderInv, Shape', PaidInv, World \/ WaveOver \/ UNCHANGED vars
    PROVE  PaidInv'
<1>0. Shape /\ Shape' /\ WorldOK /\ crashes \in Nat
  BY DEF OrderInv, SafeInv, Shape, SavedOK
<1>1. UNCHANGED <<mem, local, saved, crashes>>
  BY DEF World, LabelHuman, KidClaimed, KidOpensPr, KidEnds, KidLost, ReviewEnds,
         outside, WaveOver, vars
<1>2. Grown
  <2>1. CASE World
    BY <1>0, <2>1, OutsideWorld DEF Shape
  <2>2. CASE UNCHANGED vars
    BY <1>0, <2>2 DEF vars, world, Grown, WorldOK
  <2> QED BY <2>1, <2>2 DEF WaveOver
<1>3. \A t \in Tickets : Pays(t)
  BY <1>1 DEF mem, Pays, Frugal
<1>4. \A t \in Tickets : Paid(t)'
  BY <1>0, <1>1, <1>2, <1>3, PaysPaid DEF PaidInv
<1>5. KeptPaid'
  <2>1. UNCHANGED <<snap, saved, crashes>>
    BY <1>1 DEF mem
  <2> QED BY <1>0, <1>2, <2>1, CopyPaid DEF PaidInv, KeptPaid, PaidIn, Shape
<1>6. FreshHolds'
  BY <1>1 DEF PaidInv, FreshHolds, mem, local
<1> QED BY <1>4, <1>5, <1>6 DEF PaidInv

\* Every retry that is counted was paid for by a builder of its own, but for one a
\* restart, whatever calls fail (_apply_phantom_carve_out,
\* _escalate_builder_hard_timeout, restore).
THEOREM RetriesPaid == Spec => []RetryPaidByBuilder
<1>1. OrderInv /\ OrderInv' /\ PaidInv /\ [Next]_vars => PaidInv'
  BY PaidTick, PaidCrash, PaidWorld DEF OrderInv, SafeInv, Next
<1>2. OrderInv /\ PaidInv => RetryPaidByBuilder
  <2> SUFFICES ASSUME OrderInv, PaidInv, NEW t \in Tickets
               PROVE  tk[t].retries <= Len(kids[t]) + crashes
    BY DEF RetryPaidByBuilder
  <2>1. tk[t] \in TicketRecord /\ Len(kids[t]) \in Nat /\ crashes \in Nat
    BY DEF OrderInv, SafeInv, Shape, WorldOK, SavedOK
  <2> QED BY <2>1, PaidRetries DEF PaidInv, Paid
<1> QED BY <1>1, <1>2, PaidInit, OrderAlways, PTL DEF Spec

-----------------------------------------------------------------------------
(* The bill of a ticket: what its builders are paid from, as long as the    *)
(* daemon lives.                                                            *)

Spent(r) == IF r.retries < RetryBudget THEN r.retries ELSE RetryBudget

Wants(r) == IF r.status \in Waiting THEN 1 ELSE 0

\* A dispatch, done or due, is one of the chain, of a retry or of a clean-up; and
\* fix rounds stay within their limit.
Thrifty(r) == /\ r.tried + Wants(r) <= ChainLen + Spent(r) + r.cleaned
              /\ r.cycles <= MaxReviewCycles

\* Dispatches and fix rounds, each with one builder.
Bill(r) == r.tried + r.cycles

Billed(t) == Len(kids[t]) <= Inherited + Bill(tk[t]) + faults

\* r becomes q with the same bill, and within the same limits.
Even(r, q) == Bill(q) = Bill(r) /\ (Thrifty(r) => Thrifty(q))

\* r becomes q: a retry may be counted, nothing else, and q does not start to wait.
Lean(r, q) ==
    /\ q.tried = r.tried /\ q.cycles = r.cycles /\ q.cleaned = r.cleaned
    /\ q.retries \in {r.retries, r.retries + 1}
    /\ q.status \in Waiting => r.status \in Waiting

\* One step of a ticket: what its new builders cost goes on its bill, and the bill
\* stays within the limits.
Bills(t) ==
    /\ Len(kids'[t]) + Bill(tk[t]) + faults <= Len(kids[t]) + Bill(tk'[t]) + faults'
    /\ Thrifty(tk[t]) => Thrifty(tk'[t])

\* A bill is a number.
LEMMA BillNat == \A r \in TicketRecord : Bill(r) \in Nat
<1>1. \A r \in TicketRecord : r.tried \in Nat /\ r.cycles \in Nat
  BY DEF TicketRecord
<1> QED BY <1>1 DEF Bill

\* The ticket whose builders are billed stays billed.
LEMMA BillsBilled ==
    ASSUME Shape, Shape', NEW t \in Tickets, Bills(t), Billed(t)
    PROVE  Billed(t)'
<1>1. /\ tk[t] \in TicketRecord /\ tk'[t] \in TicketRecord
      /\ Len(kids[t]) \in Nat /\ Len(kids'[t]) \in Nat
      /\ faults \in Nat /\ faults' \in Nat /\ Inherited \in Nat
  BY DEF Shape, WorldOK, SavedOK, Inherited
<1>2. Bill(tk[t]) \in Nat /\ Bill(tk'[t]) \in Nat
  BY <1>1, BillNat
<1>3. Inherited' = Inherited
  BY DEF Inherited
<1> DEFINE k == Len(kids[t])
           n == Len(kids'[t])
           b == Bill(tk[t])
           c == Bill(tk'[t])
           owed == b + faults
           due == c + faults'
<1>4. k \in Int /\ n \in Int /\ Inherited \in Int /\ owed \in Int /\ due \in Int
  BY <1>1, <1>2
<1>5. \A x, y, z \in Nat : x + y + z = x + (y + z)
  OBVIOUS
<1>6. n + owed <= k + due
  <2>1. n + b + faults <= k + c + faults'
    BY DEF Bills
  <2>2. n + b + faults = n + owed /\ k + c + faults' = k + due
    BY <1>1, <1>2, <1>5
  <2> QED BY <2>1, <2>2
<1>7. k <= Inherited + owed
  <2>1. k <= Inherited + b + faults
    BY DEF Billed
  <2>2. Inherited + b + faults = Inherited + owed
    BY <1>1, <1>2, <1>5
  <2> QED BY <2>1, <2>2
<1>8. n <= Inherited + due
  <2> HIDE DEF k, n, owed, due
  <2> QED BY <1>4, <1>6, <1>7
<1>9. Inherited + due = Inherited + c + faults'
  BY <1>1, <1>2, <1>5
<1> QED BY <1>3, <1>8, <1>9 DEF Billed

\* Counting a retry, or nothing, and not starting to wait keeps the limits.
LEMMA LeanEven ==
    ASSUME NEW r \in TicketRecord, NEW q \in TicketRecord, Lean(r, q)
    PROVE  Even(r, q)
<1>1. /\ r.tried \in Nat /\ r.cycles \in Nat /\ r.cleaned \in Nat /\ r.retries \in Nat
      /\ q.retries \in Nat /\ RetryBudget \in Nat /\ ChainLen \in Nat
      /\ MaxReviewCycles \in Nat
  BY WaveAssumption DEF TicketRecord
<1> USE DEF Lean
<1>2. Spent(r) \in Nat /\ Spent(q) \in Nat /\ Spent(r) <= Spent(q)
  BY <1>1 DEF Spent
<1>3. Wants(r) \in Nat /\ Wants(q) \in Nat /\ Wants(q) <= Wants(r)
  BY DEF Wants
<1>4. Bill(q) = Bill(r)
  BY DEF Bill
<1>5. ASSUME Thrifty(r) PROVE Thrifty(q)
  <2>1. r.tried + Wants(r) <= ChainLen + Spent(r) + r.cleaned
    BY <1>5 DEF Thrifty
  <2>2. q.tried + Wants(q) <= ChainLen + Spent(q) + q.cleaned
    BY <1>1, <1>2, <1>3, <2>1
  <2> QED BY <1>5, <2>2 DEF Thrifty
<1> QED BY <1>4, <1>5 DEF Even

\* A step that makes no builder, and leaves the bill even.
LEMMA EvenBills ==
    ASSUME Shape, Shape', NEW t \in Tickets, kids'[t] = kids[t], faults <= faults',
           Even(tk[t], tk'[t])
    PROVE  Bills(t)
<1>1. /\ tk[t] \in TicketRecord /\ Len(kids[t]) \in Nat
      /\ faults \in Nat /\ faults' \in Nat /\ Bill(tk'[t]) = Bill(tk[t])
  BY DEF Shape, WorldOK, SavedOK, Even
<1>2. Bill(tk[t]) \in Nat
  BY <1>1, BillNat
<1> QED BY <1>1, <1>2 DEF Bills, Even

\* A call that may have made a builder before it failed is a fault, and pays.
LEMMA NoKidIdBills ==
    ASSUME Shape, NEW t \in Tickets, NoKidId(t)
    PROVE  /\ Len(kids'[t]) + faults <= Len(kids[t]) + faults'
           /\ faults' \in Nat /\ Len(kids'[t]) \in Nat
<1>1. Len(kids[t]) \in Nat /\ faults \in Nat /\ faults' = faults + 1 /\ WorldOK
  BY DEF Shape, WorldOK, SavedOK, NoKidId, Fault
<1>2. Len(kids'[t]) = Len(kids[t]) \/ Len(kids'[t]) = KidId(t)
  BY <1>1, NewKidType DEF NoKidId
<1>3. KidId(t) = Len(kids[t]) + 1
  BY DEF KidId
<1>4. faults' \in Nat /\ Len(kids'[t]) \in Nat
  BY <1>1, <1>2, <1>3
<1>5. Len(kids'[t]) <= Len(kids[t]) + 1
  BY <1>1, <1>2, <1>3
<1>6. \A m, n, f \in Nat : n <= m + 1 => n + f <= m + (f + 1)
  OBVIOUS
<1>7. Len(kids'[t]) + faults <= Len(kids[t]) + (faults + 1)
  BY <1>1, <1>4, <1>5, <1>6
<1> QED BY <1>1, <1>4, <1>7

\* Nor does a lean step cost anything.
LEMMA LeanBills ==
    ASSUME Shape, Shape', NEW t \in Tickets, kids'[t] = kids[t], faults <= faults',
           Lean(tk[t], tk'[t])
    PROVE  Bills(t)
<1>1. tk[t] \in TicketRecord /\ tk'[t] \in TicketRecord
  BY DEF Shape
<1> QED BY <1>1, LeanEven, EvenBills

\* A ticket left alone, whatever happens to its builders, costs at most the faults.
LEMMA SameBills ==
    ASSUME Shape, NEW t \in Tickets, tk'[t] = tk[t], faults' \in Nat,
           Len(kids'[t]) \in Nat, Len(kids'[t]) + faults <= Len(kids[t]) + faults'
    PROVE  Bills(t)
<1>1. tk[t] \in TicketRecord /\ Len(kids[t]) \in Nat /\ faults \in Nat
  BY DEF Shape, WorldOK, SavedOK
<1>2. Bill(tk[t]) \in Nat
  BY <1>1, BillNat
<1>3. \A m, n, f, g, b \in Nat : n + f <= m + g => n + b + f <= m + b + g
  OBVIOUS
<1>4. Len(kids'[t]) + Bill(tk[t]) + faults <= Len(kids[t]) + Bill(tk[t]) + faults'
  BY <1>1, <1>2, <1>3
<1> QED BY <1>4 DEF Bills

\* A dispatch decision: only a dispatch makes a builder, of a ticket that waits.
LEMMA DispatchBills ==
    ASSUME Shape, Shape', TodoOpen, faults <= faults', NEW t \in Tickets,
           DispatchTicket(t)
    PROVE  Bills(t)
<1>0. tk[t] \in TicketRecord /\ t \in DOMAIN tk /\ tk \in [Tickets -> TicketRecord]
  BY DEF Shape
<1>1. CASE HoldBack(t) \/ Ss08Acked(t) \/ RefuseDuplicate(t)
  <2>1. tk'[t] = tk[t] /\ kids' = kids
    BY <1>1 DEF HoldBack, Ss08Acked, RefuseDuplicate, gateRest, world
  <2> QED BY <1>0, <2>1, LeanBills DEF Lean
<1>2. CASE Ss08Deferred(t) \/ SkipHuman(t)
  <2>1. PICK s \in {"FAILED", "ESCALATED"} : tk' = [tk EXCEPT ![t].status = s]
    BY <1>2 DEF Ss08Deferred, SkipHuman
  <2>2. kids' = kids
    BY <1>2 DEF Ss08Deferred, SkipHuman, gateRest, world
  <2>3. Lean(tk[t], tk'[t])
    BY <1>0, <2>1 DEF TicketRecord, Lean, Waiting
  <2> QED BY <2>2, <2>3, LeanBills
<1>3. CASE SkipShipped(t)
  <2>1. Lean(tk[t], tk'[t]) /\ kids' = kids
    BY <1>0, <1>3 DEF SkipShipped, world, TicketRecord, Lean, Waiting
  <2> QED BY <2>1, LeanBills
<1>4. CASE MergeInherited(t)
  <2>1. PICK s \in {"MERGED_GREEN", "FAILED"}, k \in BOOLEAN :
            tk' = [tk EXCEPT ![t] = [tk[t] EXCEPT !.status = s, !.pr = k]]
    BY <1>4, MergeTk DEF MergeInherited
  <2>2. Lean(tk[t], tk'[t])
    BY <1>0, <2>1 DEF TicketRecord, Lean, Waiting
  <2>3. kids' = kids
    BY <1>4 DEF MergeInherited
  <2> QED BY <2>2, <2>3, LeanBills
<1>5. CASE AwaitInherited(t)
  <2>1. CASE AdoptReview(t)
    <3>1. PICK i : tk' = [tk EXCEPT ![t].review = i, ![t].status = "AWAITING_REVIEW"]
      BY <2>1 DEF AdoptReview
    <3>2. kids' = kids
      BY <1>5 DEF AwaitInherited
    <3>3. Lean(tk[t], tk'[t])
      BY <1>0, <3>1 DEF TicketRecord, Lean, Waiting
    <3> QED BY <3>2, <3>3, LeanBills
  <2>2. CASE FireReview(t)
    BY <1>0, <1>5, <2>2, LeanBills
       DEF AwaitInherited, FireReview, TicketRecord, Lean, Waiting
  <2>3. CASE ReviewRegistered(t)
    BY <1>0, <1>5, <2>3, LeanBills DEF AwaitInherited, ReviewRegistered, Lean
  <2> QED BY <1>5, <2>1, <2>2, <2>3 DEF AwaitInherited
<1>6. CASE DispatchChild(t)
  <2> DEFINE r == tk[t]
             q == tk'[t]
  <2>1. /\ tk' = [tk EXCEPT ![t].child = KidId(t), ![t].status = "DISPATCHED",
                            ![t].dispAge = 0, ![t].tried = @ + 1]
        /\ NewKid(t) /\ UNCHANGED faults
    BY <1>6 DEF DispatchChild
  <2>2. /\ q.tried = r.tried + 1 /\ q.cycles = r.cycles /\ q.cleaned = r.cleaned
        /\ q.retries = r.retries /\ q.status = "DISPATCHED"
    BY <1>0, <2>1 DEF TicketRecord
  <2>3. r.status = "PENDING"
    BY <1>6 DEF TodoOpen, DispatchChild, Undispatched, NotShipped, Dispatchable,
                Considered, Candidate
  <2>4. /\ Len(kids[t]) \in Nat /\ Len(kids'[t]) = Len(kids[t]) + 1
        /\ faults \in Nat /\ faults' = faults
    BY <2>1, NewKidType DEF Shape, WorldOK, SavedOK, KidId
  <2>5. /\ r.tried \in Nat /\ r.cycles \in Nat /\ r.cleaned \in Nat /\ Spent(r) \in Nat
        /\ ChainLen \in Nat
    <3>1. r.retries \in Nat /\ RetryBudget \in Nat
      BY <1>0, WaveAssumption DEF TicketRecord
    <3> QED BY <1>0, <3>1, WaveAssumption DEF TicketRecord, Spent
  <2>6. Wants(r) = 1 /\ Wants(q) = 0 /\ Spent(q) = Spent(r)
    BY <2>2, <2>3 DEF Wants, Waiting, Spent
  <2>7. Bill(q) = Bill(r) + 1 /\ Bill(r) \in Nat
    BY <2>2, <2>5 DEF Bill
  <2> HIDE DEF r, q
  <2>8. Thrifty(r) => Thrifty(q)
    BY <2>2, <2>5, <2>6 DEF Thrifty
  <2>9. \A m, b, f \in Nat : (m + 1) + b + f <= m + (b + 1) + f
    OBVIOUS
  <2>10. Len(kids'[t]) + Bill(r) + faults <= Len(kids[t]) + Bill(q) + faults'
    BY <2>4, <2>7, <2>9
  <2> QED BY <2>8, <2>10 DEF Bills, r, q
<1>7. CASE DispatchRaises(t)
  <2>1. tk'[t] = tk[t] /\ NoKidId(t)
    BY <1>7 DEF DispatchRaises
  <2> QED BY <2>1, NoKidIdBills, SameBills
<1> QED BY <1>1, <1>2, <1>3, <1>4, <1>5, <1>6, <1>7 DEF DispatchTicket

\* The poll of one ticket makes no builder, and a silent one waits again only while
\* the chain has a model left.
LEMMA PollBills ==
    ASSUME Shape, Shape', TodoOpen, faults <= faults', NEW t \in Tickets, PollTicket(t)
    PROVE  Bills(t)
<1>0. tk[t] \in TicketRecord /\ t \in DOMAIN tk /\ tk \in [Tickets -> TicketRecord]
  BY DEF Shape
<1>1. kids' = kids
  BY DEF PollTicket, PollAbandon, PollTimeout, PollPhantom, PollRunning, PollFailed,
         PollGap, PollPr, PollSilent, pollRest
<1>2. CASE PollAbandon(t)
  <2> DEFINE r == [Abandoned(tk[t]) EXCEPT !.retries = tk[t].retries + 1,
                                           !.dispAge = NoTime]
  <2>1. tk'[t] = r
    BY <1>0, <1>2 DEF PollAbandon
  <2>2. Lean(tk[t], r)
    BY <1>0 DEF Abandoned, TicketRecord, Lean, Waiting
  <2> HIDE DEF r
  <2> QED BY <1>1, <2>1, <2>2, LeanBills
<1>3. CASE PollFailed(t) \/ PollGap(t)
  <2>1. PICK s \in {"FAILED", "ESCALATED"} : tk' = [tk EXCEPT ![t].status = s]
    BY <1>3 DEF PollFailed, PollGap
  <2>2. Lean(tk[t], tk'[t])
    BY <1>0, <2>1 DEF TicketRecord, Lean, Waiting
  <2> QED BY <1>1, <2>2, LeanBills
<1>4. CASE PollPhantom(t)
  <2>1. Lean(tk[t], ForceFailed(t))
    BY <1>0 DEF ForceFailed, TicketRecord, Lean, Waiting
  <2>2. tk'[t] = ForceFailed(t)
    BY <1>0, <1>4 DEF PollPhantom
  <2> QED BY <1>1, <2>1, <2>2, LeanBills
<1>5. CASE PollRunning(t) \/ PollTimeout(t)
  <2>1. Lean(tk[t], tk'[t])
    <3>1. CASE PollRunning(t)
      BY <1>0, <3>1 DEF PollRunning, TicketRecord, Lean, Waiting
    <3>2. CASE PollTimeout(t)
      BY <1>0, <3>2 DEF PollTimeout, TicketRecord, Lean, Waiting
    <3> QED BY <1>5, <3>1, <3>2
  <2> QED BY <1>1, <2>1, LeanBills
<1>6. CASE PollPr(t)
  <2>1. Lean(tk[t], tk'[t])
    BY <1>0, <1>6 DEF PollPr, TicketRecord, Lean, Waiting
  <2> QED BY <1>1, <2>1, LeanBills
<1>7. CASE PollSilent(t)
  <2>1. CASE ~NextModel(t)
    <3>1. Lean(tk[t], tk'[t])
      BY <1>0, <1>7, <2>1 DEF PollSilent, TicketRecord, Lean, Waiting
    <3> QED BY <1>1, <3>1, LeanBills
  <2>2. CASE NextModel(t)
    <3> DEFINE r == tk[t]
               q == tk'[t]
    <3>1. /\ q.tried = r.tried /\ q.cycles = r.cycles /\ q.cleaned = r.cleaned
          /\ q.retries = r.retries
      BY <1>0, <1>7, <2>2 DEF PollSilent, TicketRecord
    <3>2. r.tried + 1 <= ChainLen /\ ChainLen \in Nat /\ r.tried \in Nat
      BY <1>0, <2>2, WaveAssumption DEF NextModel, TicketRecord
    <3>3. Spent(q) \in Nat /\ q.cleaned \in Nat /\ Wants(q) \in {0, 1}
      <4>1. q.retries \in Nat /\ q.cleaned \in Nat /\ RetryBudget \in Nat
        BY <1>0, <3>1, WaveAssumption DEF TicketRecord
      <4> QED BY <4>1 DEF Spent, Wants
    <3> HIDE DEF r, q
    <3>4. Bill(q) = Bill(r)
      BY <3>1 DEF Bill
    <3>5. q.tried + Wants(q) <= ChainLen + Spent(q) + q.cleaned
      BY <3>1, <3>2, <3>3
    <3>6. Even(r, q)
      BY <3>1, <3>4, <3>5 DEF Even, Thrifty
    <3> QED BY <1>1, <3>6, EvenBills DEF r, q
  <2> QED BY <2>1, <2>2
<1> QED BY <1>2, <1>3, <1>4, <1>5, <1>6, <1>7 DEF PollTicket

\* A review verdict makes a builder only for a fix round, within their limit.
LEMMA ReviewBills ==
    ASSUME Shape, Shape', faults <= faults', NEW t \in Tickets, ReviewTicket(t)
    PROVE  Bills(t)
<1>0. tk[t] \in TicketRecord /\ t \in DOMAIN tk /\ tk \in [Tickets -> TicketRecord]
  BY DEF Shape
<1>1. CASE ReviewApproved(t)
  <2>1. Merge(t, tk[t].pr) /\ tk[t].pr \in BOOLEAN /\ kids' = kids
    BY <1>0, <1>1 DEF ReviewApproved, TicketRecord
  <2>2. PICK s \in {"MERGED_GREEN", "FAILED"}, k \in BOOLEAN :
            tk' = [tk EXCEPT ![t] = [tk[t] EXCEPT !.status = s, !.pr = k]]
    BY <2>1, MergeTk
  <2>3. Lean(tk[t], tk'[t])
    BY <1>0, <2>2 DEF TicketRecord, Lean, Waiting
  <2> QED BY <2>1, <2>3, LeanBills
<1>2. CASE ReviewTriage(t)
  <2>1. Lean(tk[t], tk'[t]) /\ kids' = kids
    BY <1>0, <1>2 DEF ReviewTriage, TicketRecord, Lean, Waiting
  <2> QED BY <2>1, LeanBills
<1>3. CASE ReviewExhausted(t) \/ ReviewHuman(t)
  <2>1. PICK s \in {"FAILED", "ESCALATED"} : tk' = [tk EXCEPT ![t].status = s]
    BY <1>3 DEF ReviewExhausted, ReviewHuman
  <2>2. Lean(tk[t], tk'[t])
    BY <1>0, <2>1 DEF TicketRecord, Lean, Waiting
  <2>3. kids' = kids
    BY <1>3 DEF ReviewExhausted, ReviewHuman
  <2> QED BY <2>2, <2>3, LeanBills
<1>4. CASE ReviewSilent(t)
  <2>1. Lean(tk[t], tk'[t])
    BY <1>0, <1>4 DEF ReviewSilent, TicketRecord, Lean, Waiting
  <2>2. kids' = kids
    BY <1>4 DEF ReviewSilent
  <2> QED BY <2>1, <2>2, LeanBills
<1>5. CASE ReviewRespawn(t) \/ RespawnRaises(t)
  <2> DEFINE r == tk[t]
             q == tk'[t]
  <2>1. /\ q.tried = r.tried /\ q.cycles = r.cycles + 1 /\ q.cleaned = r.cleaned
        /\ q.retries = r.retries /\ (q.status \in Waiting => r.status \in Waiting)
    <3>1. CASE ReviewRespawn(t)
      BY <1>0, <3>1 DEF ReviewRespawn, TicketRecord, Waiting
    <3>2. CASE RespawnRaises(t)
      BY <1>0, <3>2 DEF RespawnRaises, TicketRecord
    <3> QED BY <1>5, <3>1, <3>2
  <2>2. r.cycles < MaxReviewCycles
    BY <1>5 DEF ReviewRespawn, RespawnRaises, FixRound
  <2>3. /\ r.tried \in Nat /\ r.cycles \in Nat /\ r.cleaned \in Nat
        /\ ChainLen \in Nat /\ MaxReviewCycles \in Nat /\ Spent(r) \in Nat
    <3>1. r.retries \in Nat /\ RetryBudget \in Nat
      BY <1>0, WaveAssumption DEF TicketRecord
    <3> QED BY <1>0, <3>1, WaveAssumption DEF TicketRecord, Spent
  <2>4. /\ Wants(q) \in Nat /\ Wants(r) \in Nat /\ Wants(q) <= Wants(r)
        /\ Spent(q) = Spent(r)
    BY <2>1 DEF Wants, Spent
  <2>5. Bill(q) = Bill(r) + 1 /\ Bill(r) \in Nat
    BY <2>1, <2>3 DEF Bill
  <2>6. /\ Len(kids[t]) \in Nat /\ Len(kids'[t]) \in Nat
        /\ faults \in Nat /\ faults' \in Nat
        /\ Len(kids'[t]) + faults <= Len(kids[t]) + 1 + faults'
    <3>1. Len(kids[t]) \in Nat /\ Len(kids'[t]) \in Nat /\ faults \in Nat /\ faults' \in Nat
      BY DEF Shape, WorldOK, SavedOK
    <3>2. CASE ReviewRespawn(t)
      <4>1. Len(kids'[t]) = Len(kids[t]) + 1 /\ faults' = faults
        BY <3>2, NewKidType DEF ReviewRespawn, KidId, Shape
      <4> QED BY <3>1, <4>1
    <3>3. CASE RespawnRaises(t)
      <4>1. Len(kids'[t]) + faults <= Len(kids[t]) + faults'
        BY <3>3, NoKidIdBills DEF RespawnRaises
      <4> QED BY <3>1, <4>1
    <3> QED BY <1>5, <3>1, <3>2, <3>3
  <2> HIDE DEF r, q
  <2>7. Thrifty(r) => Thrifty(q)
    <3> SUFFICES ASSUME Thrifty(r) PROVE Thrifty(q)
      OBVIOUS
    <3>1. r.tried + Wants(r) <= ChainLen + Spent(r) + r.cleaned
      BY DEF Thrifty
    <3>2. q.tried + Wants(q) <= ChainLen + Spent(q) + q.cleaned
      BY <2>1, <2>3, <2>4, <3>1
    <3> QED BY <2>1, <2>2, <2>3, <3>2 DEF Thrifty
  <2>8. \A m, n, b, f, g \in Nat : n + f <= m + 1 + g => n + b + f <= m + (b + 1) + g
    OBVIOUS
  <2>9. Len(kids'[t]) + Bill(r) + faults <= Len(kids[t]) + Bill(q) + faults'
    BY <2>5, <2>6, <2>8
  <2> QED BY <2>7, <2>9 DEF Bills, r, q
<1> QED BY <1>1, <1>2, <1>3, <1>4, <1>5 DEF ReviewTicket

\* The orphan reconcile, the wake-up and the refresh make no ticket wait.
LEMMA ListLean ==
    ASSUME Shape, NEW t \in Tickets
    PROVE  Lean(tk[t], ForceFailed(t)) /\ Lean(tk[t], Refreshed(t))
<1>0. tk[t] \in TicketRecord
  BY DEF Shape
<1>1. \A r \in TicketRecord, s \in Waiting :
          r.status \in Waiting => Lean(r, [r EXCEPT !.status = s])
  BY DEF TicketRecord, Lean, Waiting
<1>2. Lean(tk[t], ForceFailed(t))
  BY <1>0 DEF ForceFailed, Lean, TicketRecord, Waiting
<1> DEFINE w == [tk[t] EXCEPT !.status = "PENDING", !.backAge = NoTime]
<1>3. /\ tk[t].status = "BACKED_OFF" => Lean(tk[t], w)
      /\ w \in TicketRecord /\ w.status = "PENDING"
  BY <1>0, StatusNames DEF TicketRecord, Lean, Waiting
<1> DEFINE s == IF DepsSatisfied(t) THEN "PENDING" ELSE "BLOCKED"
<1>4. s \in Waiting
  BY DEF Waiting
<1> HIDE DEF w, s
<1>5. Lean(tk[t], Refreshed(t))
  <2>1. CASE tk[t].status = "BACKED_OFF" /\ tk[t].backAge >= Backoff
    <3>1. Refreshed(t) = [w EXCEPT !.status = s]
      BY <1>3, <2>1 DEF Refreshed, w, s
    <3>2. Lean(tk[t], w) /\ w.retries = tk[t].retries
      BY <1>0, <1>3, <2>1 DEF w, TicketRecord
    <3>3. w.status \in Waiting
      BY <1>3 DEF Waiting
    <3>4. Lean(w, Refreshed(t))
      BY <1>1, <1>3, <1>4, <3>1, <3>3
    <3>5. tk[t].status \in Waiting
      BY <2>1 DEF Waiting
    <3> QED BY <3>2, <3>4, <3>5 DEF Lean
  <2>2. CASE /\ ~(tk[t].status = "BACKED_OFF" /\ tk[t].backAge >= Backoff)
             /\ tk[t].status \in {"PENDING", "BLOCKED"}
    <3>1. Refreshed(t) = [tk[t] EXCEPT !.status = s]
      BY <2>2 DEF Refreshed, s
    <3>2. tk[t].status \in Waiting
      BY <2>2 DEF Waiting
    <3> QED BY <1>0, <1>1, <1>4, <3>1, <3>2
  <2>3. CASE /\ ~(tk[t].status = "BACKED_OFF" /\ tk[t].backAge >= Backoff)
             /\ tk[t].status \notin {"PENDING", "BLOCKED"}
    <3>1. Refreshed(t) = tk[t]
      BY <2>3 DEF Refreshed
    <3> QED BY <3>1 DEF Lean
  <2> QED BY <2>1, <2>2, <2>3
<1> QED BY <1>2, <1>5

\* The sweep lets a failed ticket wait again for a retry the budget still has, or
\* for a clean-up.
LEMMA CarvedEven ==
    ASSUME NEW r \in TicketRecord, NEW t
    PROVE  Even(r, CarvedOut(r, t))
<1>0. /\ r.tried \in Nat /\ r.cycles \in Nat /\ r.cleaned \in Nat /\ r.retries \in Nat
      /\ RetryBudget \in Nat /\ ChainLen \in Nat /\ MaxReviewCycles \in Nat
  BY WaveAssumption DEF TicketRecord
<1>1. Even(r, r)
  BY DEF Even
<1>2. Even(r, Abandoned(r))
  <2>1. Lean(r, Abandoned(r)) /\ Abandoned(r) \in TicketRecord
    BY DisposedType DEF Abandoned, TicketRecord, Lean, Waiting
  <2> QED BY <2>1, LeanEven
<1>3. ASSUME r.status = "FAILED", NEW q \in TicketRecord,
             q.tried = r.tried, q.cycles = r.cycles,
             \/ q.retries = r.retries + 1 /\ q.cleaned = r.cleaned
                /\ r.retries < RetryBudget
             \/ q.retries = r.retries /\ q.cleaned = r.cleaned + 1
      PROVE  Even(r, q)
  <2>1. Bill(q) = Bill(r)
    BY <1>3 DEF Bill
  <2>2. /\ Wants(r) = 0 /\ Wants(q) \in {0, 1} /\ Spent(r) \in Nat /\ Spent(q) \in Nat
        /\ Spent(q) + q.cleaned = Spent(r) + r.cleaned + 1
    BY <1>0, <1>3 DEF Wants, Waiting, Spent
  <2>3. ASSUME Thrifty(r) PROVE Thrifty(q)
    <3>1. r.tried <= ChainLen + Spent(r) + r.cleaned
      BY <1>0, <2>2, <2>3 DEF Thrifty
    <3>2. q.tried + Wants(q) <= ChainLen + Spent(q) + q.cleaned
      BY <1>0, <1>3, <2>2, <3>1
    <3> QED BY <1>3, <2>3, <3>2 DEF Thrifty
  <2> QED BY <2>1, <2>3 DEF Even
<1>4. r.status = "FAILED" => Even(r, PhantomReset(r))
  <2>1. /\ PhantomReset(r).tried = r.tried /\ PhantomReset(r).cycles = r.cycles
        /\ PhantomReset(r).retries = r.retries
        /\ PhantomReset(r).cleaned = r.cleaned + 1
    BY DEF PhantomReset, TicketRecord
  <2> QED BY <1>3, <2>1, DisposedType
<1>5. r.status = "FAILED" /\ r.retries < RetryBudget => Even(r, BackedOff(r))
  <2>1. /\ BackedOff(r).tried = r.tried /\ BackedOff(r).cycles = r.cycles
        /\ BackedOff(r).retries = r.retries + 1 /\ BackedOff(r).cleaned = r.cleaned
    BY DEF BackedOff, TicketRecord
  <2> QED BY <1>3, <2>1, DisposedType
<1> QED BY <1>1, <1>2, <1>4, <1>5 DEF CarvedOut, CarvesPhantom

\* A step of one ticket makes builders of that ticket only.
LEMMA OthersBuilders ==
    ASSUME Shape, NEW u \in Tickets, NEW t \in Tickets, t # u,
           DispatchTicket(u) \/ PollTicket(u) \/ ReviewTicket(u)
    PROVE  kids'[t] = kids[t]
<1>0. kids \in [Tickets -> Seq(KidState)]
  BY DEF Shape, WorldOK
<1>1. ASSUME NewKid(u) PROVE kids'[t] = kids[t]
  BY <1>0, <1>1 DEF NewKid
<1>2. CASE PollTicket(u)
  BY <1>2 DEF PollTicket, PollAbandon, PollTimeout, PollPhantom, PollRunning,
              PollFailed, PollGap, PollPr, PollSilent, pollRest
<1>3. CASE ReviewTicket(u)
  BY <1>1, <1>3 DEF ReviewTicket, ReviewApproved, ReviewTriage, ReviewExhausted,
                    ReviewHuman, ReviewRespawn, RespawnRaises, ReviewSilent, NoKidId
<1>4. CASE DispatchTicket(u)
  BY <1>1, <1>4 DEF DispatchTicket, HoldBack, Ss08Acked, Ss08Deferred, SkipHuman,
                    SkipShipped, MergeInherited, AwaitInherited, RefuseDuplicate,
                    DispatchChild, DispatchRaises, NoKidId, gateRest, world
<1> QED BY <1>2, <1>3, <1>4

\* Every step of the tick bills the builders it makes.
LEMMA TickBills ==
    ASSUME OrderInv, Shape', Tick, NEW t \in Tickets
    PROVE  Bills(t)
<1>0. /\ Shape /\ TodoOpen /\ PollOpen
      /\ tk \in [Tickets -> TicketRecord] /\ tk' \in [Tickets -> TicketRecord]
      /\ SavedOK
  BY DEF OrderInv, SafeInv, Shape
<1>1. faults <= faults'
  BY <1>0, CountersTick
<1>2. \A r \in TicketRecord : Lean(r, r)
  BY DEF Lean
<1>3. ASSUME kids' = kids, Lean(tk[t], tk'[t]) PROVE Bills(t)
  BY <1>0, <1>1, <1>3, LeanBills
<1>4. CASE Top
  <2>1. PICK ok \in BOOLEAN : tk' = [u \in Tickets |->
            CASE u \in Forced(ok) -> ForceFailed(u)
              [] tk[u].status \in {"PENDING", "BLOCKED"} ->
                   [tk[u] EXCEPT !.status = IF DepsSatisfied(u) THEN "PENDING"
                                            ELSE "BLOCKED"]
              [] OTHER -> tk[u]]
    BY <1>4 DEF Top
  <2>2. kids' = kids
    BY <1>4 DEF Top, world
  <2>3. CASE t \in Forced(ok)
    <3>1. tk[t].status \notin {"PENDING", "BLOCKED"}
      BY <1>0, <2>3, ListStays DEF Active
    <3>2. tk'[t] = ForceFailed(t)
      BY <2>1, <2>3, <3>1
    <3> QED BY <1>0, <1>3, <2>2, <3>2, ListLean
  <2>4. CASE t \notin Forced(ok) /\ tk[t].status \in {"PENDING", "BLOCKED"}
    <3> DEFINE s == IF DepsSatisfied(t) THEN "PENDING" ELSE "BLOCKED"
    <3>1. tk'[t] = [tk[t] EXCEPT !.status = s]
      BY <2>1, <2>4
    <3> HIDE DEF s
    <3>2. Lean(tk[t], tk'[t])
      BY <1>0, <2>4, <3>1 DEF Lean, Waiting, TicketRecord
    <3> QED BY <1>3, <2>2, <3>2
  <2>5. CASE t \notin Forced(ok) /\ tk[t].status \notin {"PENDING", "BLOCKED"}
    BY <1>0, <1>2, <1>3, <2>1, <2>2, <2>5
  <2> QED BY <2>3, <2>4, <2>5
<1>5. CASE PollListFails \/ PollList
  <2>1. PICK ok \in BOOLEAN : tk' = AtList(ok)
    BY <1>5 DEF PollListFails, PollList
  <2>2. tk'[t] \in {ForceFailed(t), Refreshed(t)}
    BY <2>1 DEF AtList
  <2>3. kids' = kids
    BY <1>5 DEF PollListFails, PollList, listRest, world
  <2> QED BY <1>0, <1>3, <2>2, <2>3, ListLean
<1>6. CASE PollNothing
  <2>1. PICK ok \in BOOLEAN : SweepOver(AtList(ok), Forced(ok))
    BY <1>6 DEF PollNothing
  <2>2. kids' = kids
    BY <1>6 DEF PollNothing, listRest, world
  <2>3. CASE t \in Forced(ok)
    <3>1. tk'[t] = CarvedOut(ForceFailed(t), t)
      BY <1>0, <2>1, <2>3, ListStays DEF SweepOver
    <3>2. ForceFailed(t) \in TicketRecord
      BY <1>0, ListedType
    <3>3. Even(tk[t], ForceFailed(t)) /\ Even(ForceFailed(t), tk'[t])
      BY <1>0, <3>1, <3>2, ListLean, LeanEven, CarvedEven
    <3>4. Even(tk[t], tk'[t])
      BY <3>3 DEF Even
    <3> QED BY <1>0, <1>1, <2>2, <3>4, EvenBills
  <2>4. CASE t \notin Forced(ok)
    <3>1. tk'[t] = Refreshed(t)
      BY <2>1, <2>4 DEF SweepOver, AtList
    <3> QED BY <1>0, <1>3, <2>2, <3>1, ListLean
  <2> QED BY <2>3, <2>4
<1>7. CASE PollSweep
  <2>1. /\ tk'[t] = (IF t \in fresh THEN CarvedOut(tk[t], t) ELSE tk[t])
        /\ kids' = kids
    BY <1>7 DEF PollSweep, SweepOver, listRest, world
  <2>2. CASE t \in fresh
    <3>1. Even(tk[t], tk'[t])
      BY <1>0, <2>1, <2>2, CarvedEven
    <3> QED BY <1>0, <1>1, <2>1, <3>1, EvenBills
  <2>3. CASE t \notin fresh
    BY <1>0, <1>2, <1>3, <2>1, <2>3
  <2> QED BY <2>2, <2>3
<1>8. CASE Snapshot
  <2>1. \A r \in TicketRecord : Lean(r, Snapped(r))
    BY DEF TicketRecord, Snapped, Lean
  <2> QED BY <1>0, <1>3, <1>8, <2>1 DEF Snapshot, world
<1>9. CASE Sleep
  <2>1. \A r \in TicketRecord : Lean(r, Aged(r))
    BY DEF TicketRecord, Aged, Lean
  <2> QED BY <1>0, <1>3, <1>9, <2>1 DEF Sleep, world
<1>10. CASE ForcePass
  <2>1. \A r \in TicketRecord : Lean(r, Abandoned(r))
    BY DEF TicketRecord, Abandoned, Lean, Waiting
  <2>2. tk'[t] \in {tk[t], Abandoned(tk[t])} /\ kids' = kids
    BY <1>10 DEF ForcePass, tailRest, world
  <2> QED BY <1>0, <1>2, <1>3, <2>1, <2>2
<1>11. CASE Coerce
  <2> DEFINE q == [tk[t] EXCEPT !.status = "FAILED"]
  <2>1. Lean(tk[t], q)
    BY <1>0 DEF TicketRecord, Lean, Waiting
  <2>2. (tk'[t] = tk[t] \/ tk'[t] = q) /\ kids' = kids
    BY <1>11 DEF Coerce, tailRest, world
  <2> HIDE DEF q
  <2> QED BY <1>0, <1>2, <1>3, <2>1, <2>2
<1>12. CASE EndDispatch \/ PollClaimed \/ ReviewsEnd \/ HardStop \/ Finish \/ CancelExit
              \/ GoOn
  <2>1. tk' = tk /\ kids' = kids
    BY <1>12 DEF EndDispatch, PollClaimed, ReviewsEnd, HardStop, Finish, CancelExit, GoOn,
                 listRest, tailRest, world
  <2> QED BY <1>0, <1>2, <1>3, <2>1
<1>13. ASSUME NEW u \in Tickets, DispatchTicket(u) \/ PollTicket(u) \/ ReviewTicket(u)
       PROVE  Bills(t)
  <2>1. OthersKept(u)
    BY <1>0, <1>13, DispatchOutcome, PollOutcome, ReviewOutcome
  <2>2. Bills(u)
    BY <1>0, <1>1, <1>13, DispatchBills, PollBills, ReviewBills
  <2>3. CASE t # u
    <3>1. tk'[t] = tk[t]
      BY <2>1, <2>3 DEF OthersKept
    <3>2. kids'[t] = kids[t]
      BY <1>0, <1>13, <2>3, OthersBuilders
    <3> QED BY <1>0, <1>1, <1>2, <3>1, <3>2, LeanBills
  <2> QED BY <2>2, <2>3
<1> QED BY <1>4, <1>5, <1>6, <1>7, <1>8, <1>9, <1>10, <1>11, <1>12, <1>13
        DEF Tick, EndOfTick

\* Workers make no builder, and reviewers, GitHub and people neither.
LEMMA WorldBills ==
    ASSUME Shape, Shape', World, NEW t \in Tickets
    PROVE  Bills(t)
<1>0. /\ tk[t] \in TicketRecord /\ kids \in [Tickets -> Seq(KidState)]
      /\ {"claimed", "lost", "over"} \cup KidDone \subseteq KidState
      /\ faults \in Nat /\ faults' \in Nat
      /\ Len(kids[t]) \in Nat /\ Len(kids'[t]) \in Nat
  BY DEF Shape, WorldOK, SavedOK, KidState
<1>1. tk' = tk
  BY DEF World, LabelHuman, KidClaimed, KidOpensPr, KidEnds, KidLost, ReviewEnds,
         outside, mem
<1>2. faults <= faults'
  <2>1. UNCHANGED faults \/ faults' = faults + 1
    BY DEF World, LabelHuman, KidClaimed, KidOpensPr, KidEnds, KidLost, ReviewEnds,
           Fault
  <2> QED BY <1>0, <2>1
<1>3. Len(kids'[t]) = Len(kids[t])
  <2>1. ASSUME NEW u \in Tickets, NEW i \in DOMAIN kids[u], NEW s \in KidState,
               kids' = [kids EXCEPT ![u][i] = s]
        PROVE  Len(kids'[t]) = Len(kids[t])
    <3>1. kids[u] \in Seq(KidState) /\ i \in 1..Len(kids[u])
      BY <1>0
    <3>2. Len([kids[u] EXCEPT ![i] = s]) = Len(kids[u])
      BY <3>1, ExceptSeq
    <3>3. kids' = [kids EXCEPT ![u] = [kids[u] EXCEPT ![i] = s]]
      BY <2>1
    <3> QED BY <1>0, <3>2, <3>3
  <2>2. \/ UNCHANGED kids
        \/ \E u \in Tickets : \E i \in DOMAIN kids[u], s \in KidState :
               kids' = [kids EXCEPT ![u][i] = s]
    <3>1. PICK u \in Tickets :
              \/ LabelHuman(u)
              \/ \E i \in DOMAIN kids[u] : \/ KidClaimed(u, i) \/ KidOpensPr(u, i)
                                           \/ KidEnds(u, i) \/ KidLost(u, i)
              \/ \E i \in DOMAIN revs[u] : ReviewEnds(u, i)
      BY DEF World
    <3>2. ASSUME NEW i \in DOMAIN kids[u],
                 KidClaimed(u, i) \/ KidEnds(u, i) \/ KidLost(u, i)
          PROVE  \E s \in KidState : kids' = [kids EXCEPT ![u][i] = s]
      BY <1>0, <3>2 DEF KidClaimed, KidEnds, KidLost
    <3>3. LabelHuman(u) \/ (\E i : KidOpensPr(u, i) \/ ReviewEnds(u, i))
              => UNCHANGED kids
      BY DEF LabelHuman, KidOpensPr, ReviewEnds
    <3> QED BY <3>1, <3>2, <3>3
  <2> QED BY <2>1, <2>2
<1>4. \A m, f, g \in Nat : f <= g => m + f <= m + g
  OBVIOUS
<1>5. Len(kids'[t]) + faults <= Len(kids[t]) + faults'
  BY <1>0, <1>2, <1>3, <1>4
<1> QED BY <1>0, <1>1, <1>5, SameBills

\* A run that may not crash does not.
LEMMA CrashFree == ASSUME Shape, MaxCrashes = 0 PROVE ~CrashAndResume
BY DEF CrashAndResume, Shape, SavedOK

\* Without a crash, every builder of a ticket is paid for by the chain, a retry, a
\* fix round, a phantom clean-up or a failed call, whatever workers do and lose.
THEOREM BuildersPaidFor ==
    ASSUME MaxCrashes = 0, 0 < ChainLen
    PROVE  Spec => []BuildersBounded
<1> DEFINE BillInv == \A t \in Tickets : Billed(t) /\ Thrifty(tk[t])
<1>1. Init => BillInv
  <2> SUFFICES ASSUME Init, NEW t \in Tickets PROVE Billed(t) /\ Thrifty(tk[t])
    OBVIOUS
  <2>1. PICK s \in [Tickets -> Hydrated] : tk = [u \in Tickets |-> NewTicket(s[u])]
    BY DEF Init
  <2>2. /\ tk[t].tried = 0 /\ tk[t].cycles = 0 /\ tk[t].retries = 0
        /\ tk[t].cleaned = 0 /\ tk[t].status \in Hydrated
    BY <2>1 DEF NewTicket
  <2>3. Thrifty(tk[t])
    <3>1. Spent(tk[t]) = 0 /\ Wants(tk[t]) \in {0, 1}
      BY <2>2, WaveAssumption DEF Spent, Wants
    <3> QED BY <2>2, <3>1, WaveAssumption DEF Thrifty
  <2>4. Len(kids[t]) <= Inherited
    <3>1. CASE kids[t] = <<>>
      BY <3>1 DEF Inherited
    <3>2. CASE kids[t] # <<>>
      <4>1. kids[t] = <<"claimed">> /\ tk[t].status \in Active
        BY <3>2 DEF Init
      <4>2. Inherited = 1
        BY <2>2, <4>1 DEF Inherited
      <4> QED BY <4>1, <4>2
    <3> QED BY <3>1, <3>2
  <2>5. Bill(tk[t]) = 0 /\ faults = 0
    BY <2>2 DEF Bill, Init
  <2>6. Inherited + 0 + 0 = Inherited
    BY DEF Inherited
  <2> QED BY <2>3, <2>4, <2>5, <2>6 DEF Billed
<1>2. OrderInv /\ OrderInv' /\ BillInv /\ [Next]_vars => BillInv'
  <2> SUFFICES ASSUME OrderInv, OrderInv', BillInv, [Next]_vars, NEW t \in Tickets
               PROVE  Billed(t)' /\ Thrifty(tk[t])'
    OBVIOUS
  <2>0. Shape /\ Shape' /\ ~CrashAndResume
    BY CrashFree DEF OrderInv, SafeInv
  <2>1. CASE WaveOver \/ UNCHANGED vars
    BY <2>1 DEF WaveOver, vars, mem, world, Billed, Bill, Thrifty, Spent, Wants,
                Inherited
  <2>2. CASE Tick \/ World
    <3>1. Bills(t)
      BY <2>0, <2>2, TickBills, WorldBills
    <3>2. Billed(t)'
      BY <2>0, <3>1, BillsBilled
    <3>3. Thrifty(tk'[t])
      BY <3>1 DEF Bills
    <3> QED BY <3>2, <3>3
  <2> QED BY <2>0, <2>1, <2>2 DEF Next
<1>3. OrderInv /\ BillInv => BuildersBounded
  <2> SUFFICES ASSUME OrderInv, BillInv, NEW t \in Tickets
               PROVE  Len(kids[t]) <= Inherited + RetryBudget + ChainLen
                                       + MaxReviewCycles + tk[t].cleaned + faults
    BY DEF BuildersBounded
  <2>1. /\ tk[t] \in TicketRecord /\ Len(kids[t]) \in Nat /\ faults \in Nat
        /\ Inherited \in Nat
    BY DEF OrderInv, SafeInv, Shape, WorldOK, SavedOK, Inherited
  <2>2. /\ tk[t].tried \in Nat /\ tk[t].cycles \in Nat /\ tk[t].cleaned \in Nat
        /\ tk[t].retries \in Nat
    BY <2>1 DEF TicketRecord
  <2>3. /\ RetryBudget \in Nat /\ ChainLen \in Nat /\ MaxReviewCycles \in Nat
    BY WaveAssumption
  <2>4. /\ Spent(tk[t]) \in Nat /\ Spent(tk[t]) <= RetryBudget
        /\ Wants(tk[t]) \in {0, 1}
    BY <2>2, <2>3 DEF Spent, Wants
  <2>5. /\ tk[t].tried + Wants(tk[t]) <= ChainLen + Spent(tk[t]) + tk[t].cleaned
        /\ tk[t].cycles <= MaxReviewCycles
    BY DEF Thrifty
  <2>6. tk[t].tried <= ChainLen + RetryBudget + tk[t].cleaned
    BY <2>2, <2>3, <2>4, <2>5
  <2>7. Len(kids[t]) <= Inherited + (tk[t].tried + tk[t].cycles) + faults
    BY DEF Billed, Bill
  <2> DEFINE k == Len(kids[t])
             m == tk[t].tried
             n == tk[t].cycles
             d == tk[t].cleaned
  <2>8. /\ k \in Nat /\ m \in Nat /\ n \in Nat /\ d \in Nat
        /\ faults \in Nat /\ Inherited \in Nat
        /\ k <= Inherited + (m + n) + faults
        /\ m <= ChainLen + RetryBudget + d /\ n <= MaxReviewCycles
    BY <2>1, <2>2, <2>5, <2>6, <2>7
  <2> HIDE DEF k, m, n, d
  <2>9. k <= Inherited + RetryBudget + ChainLen + MaxReviewCycles + d + faults
    BY <2>3, <2>8
  <2> QED BY <2>9 DEF k, d
<1> HIDE DEF BillInv
<1> QED BY <1>1, <1>2, <1>3, OrderAlways, PTL DEF Spec

-----------------------------------------------------------------------------
(* The contract: WaveLoop implements Shipment.                             *)

\* What a status says about the ticket.
LEMMA RulingFacts ==
    ASSUME NEW s
    PROVE  /\ Ruling(s) \in Contract!Rulings
           /\ Ruling(s) = "green" <=> s = "MERGED_GREEN"
           /\ Ruling(s) = "open" <=> s \notin Terminal
BY DEF Ruling, Contract!Rulings, Terminal

\* A ticket is ruled on when its status is terminal and no sweep is due.
LEMMA RuledNow ==
    ASSUME NEW t \in Tickets
    PROVE  /\ RulingNow[t] \in Contract!Rulings
           /\ RulingNow[t] = "green" <=> tk[t].status = "MERGED_GREEN"
           /\ RulingNow[t] = "open" <=> tk[t].status \notin Terminal \/ Unswept(t)
           /\ ~Unswept(t) => RulingNow[t] = Ruling(tk[t].status)
<1>1. RulingNow[t] = IF Unswept(t) THEN "open" ELSE Ruling(tk[t].status)
  BY DEF RulingNow
<1>2. Unswept(t) => tk[t].status # "MERGED_GREEN"
  BY DEF Unswept
<1>3. "open" \in Contract!Rulings
  BY DEF Contract!Rulings
<1> QED BY <1>1, <1>2, <1>3, RulingFacts

\* A run starts as the contract does.
LEMMA ContractInit == Init => Contract!Init
<1> SUFFICES ASSUME Init PROVE Contract!Init
  OBVIOUS
<1>1. /\ \A t \in Tickets : tk[t].child = 0 /\ tk[t].noted = 0 /\ tk[t].review = 0
      /\ \A t \in Tickets : tk[t].status = "MERGED_GREEN" => gh[t] = "merged"
      /\ ~saved.valid /\ ~snap.valid
  BY DEF Init, NewTicket, NoCheckpoint
<1>2. RulingNow \in [Tickets -> Contract!Rulings]
  <2>1. RulingNow = [t \in Tickets |-> RulingNow[t]]
    BY DEF RulingNow
  <2> QED BY <2>1, RuledNow
<1>3. Contract!GreenAreMerged
  BY <1>1, RuledNow DEF Contract!GreenAreMerged, Shipped
<1>4. /\ Tasked(tk) = {} /\ Shipped \subseteq Tickets
      /\ Copied(saved) = {} /\ Copied(snap) = {}
  BY <1>1 DEF Tasked, HasTask, Copied, Shipped
<1> QED BY <1>2, <1>3, <1>4 DEF Contract!Init

\* No ticket with a verdict becomes one that a poll has failed.
LEMMA UnsweptTick ==
    ASSUME OrderInv, Tick, NEW t \in Tickets, tk[t].status \in Terminal, Unswept(t)'
    PROVE  Unswept(t)
<1>0. /\ Shape /\ TodoOpen /\ PollOpen
      /\ pc' \in {"claimed", "poll"} /\ t \in fresh' /\ tk'[t].status = "FAILED"
  BY DEF OrderInv, SafeInv, Unswept
<1>1. tk[t].status = "FAILED"
  BY <1>0, RulingTick
<1>2. CASE Top \/ EndDispatch \/ PollNothing \/ PollListFails \/ PollSweep \/ ReviewsEnd
             \/ HardStop \/ Snapshot \/ EndOfTick \/ Sleep
  BY <1>0, <1>2 DEF Top, EndDispatch, PollNothing, PollListFails, PollSweep, ReviewsEnd,
                    HardStop, Snapshot, EndOfTick, ForcePass, Finish, CancelExit, Coerce, GoOn,
                    Sleep
<1>3. CASE PollList
  <2>1. PICK ok \in BOOLEAN : fresh' = Forced(ok)
    BY <1>3 DEF PollList
  <2>2. tk[t].status \in Active
    BY <1>0, <2>1, ListStays
  <2> QED BY <1>1, <2>2 DEF Active
<1>4. CASE PollClaimed
  BY <1>0, <1>1, <1>4 DEF PollClaimed, Unswept
<1>5. ASSUME NEW u \in Tickets, DispatchTicket(u) \/ ReviewTicket(u) PROVE FALSE
  <2>1. pc \in {"dispatch", "reviews"}
    BY <1>0, <1>5, DispatchOutcome, ReviewOutcome
  <2>2. pc' = pc \/ pc' = "snapshot"
    BY <1>5, OneTicketStep, <1>0
       DEF ReviewTicket, ReviewApproved, ReviewTriage, ReviewExhausted, ReviewHuman,
           ReviewRespawn, RespawnRaises, ReviewSilent, reviewRest, Shape, Typed, MemOK
  <2> QED BY <1>0, <2>1, <2>2
<1>6. ASSUME NEW u \in Tickets, PollTicket(u) PROVE Unswept(t)
  <2>1. pc = "poll" /\ fresh' \subseteq fresh \cup {u} /\ tk[u].status \notin Terminal
    BY <1>0, <1>6, PollOutcome
  <2> QED BY <1>0, <1>1, <2>1 DEF Unswept
<1> QED BY <1>2, <1>3, <1>4, <1>5, <1>6 DEF Tick

\* A copy of a graph says of it what the contract's books and checkpoint say.
LEMMA CopiedSame ==
    ASSUME NEW s, NEW z, s.valid, z.valid, Copies(s.tk, z.tk)
    PROVE  Copied(z) = Copied(s)
<1>1. Tasked(z.tk) = Tasked(s.tk)
  BY DEF Copies, Tasked
<1>2. [t \in Tickets |-> Ruling(z.tk[t].status)] = [t \in Tickets |-> Ruling(s.tk[t].status)]
  BY DEF Copies
<1> QED BY <1>1, <1>2 DEF Copied

\* Ageing changes neither the books nor what is kept.
LEMMA AgedSame ==
    ASSUME SavedOK
    PROVE  Copied(AgedCopy(saved)) = Copied(saved) /\ Copied(AgedCopy(snap)) = Copied(snap)
<1>1. ASSUME saved.valid PROVE Copied(AgedCopy(saved)) = Copied(saved)
  BY <1>1, AgedCopies, CopiedSame
<1>2. ~saved.valid => AgedCopy(saved) = saved
  BY DEF AgedCopy
<1>3. ASSUME snap.valid PROVE Copied(AgedCopy(snap)) = Copied(snap)
  BY <1>3, AgedCopies, CopiedSame
<1>4. ~snap.valid => AgedCopy(snap) = snap
  BY DEF AgedCopy
<1> QED BY <1>1, <1>2, <1>3, <1>4

\* A checkpoint in the middle of a tick keeps the books, with tasks that the tickets
\* had then or have now.
LEMMA StoresKeeps ==
    ASSUME OrderInv, Stores
    PROVE  Contract!KeepsBooks
<1>0. /\ Shape /\ snap.valid /\ Built(snap.tk) /\ OnSnapshot /\ saved'.valid
  BY StoresWhat DEF OrderInv, SafeInv, Stores
<1> DEFINE r == [t \in Tickets |-> Ruling(snap.tk[t].status)]
           s == Tasked(saved'.tk)
           b == [ruling |-> r, started |-> Tasked(snap.tk)]
<1>1. Copied(snap) = {b}
  BY <1>0 DEF Copied
<1>2. ASSUME NEW t \in Tickets, HasTask(saved'.tk[t])
      PROVE  HasTask(snap.tk[t]) \/ HasTask(tk[t])
  BY <1>0, <1>2, StoredFields DEF HasTask
<1>3. s \in SUBSET (b.started \cup Tasked(tk))
  BY <1>2 DEF Tasked
<1>4. ASSUME NEW t \in s PROVE Contract!Startable(t, b.ruling)
  <2>1. t \in Tickets /\ HasTask(saved'.tk[t])
    BY <1>4 DEF Tasked
  <2>2. \A d \in BlocksIn[t] \cap Tickets : snap.tk[d].status = "MERGED_GREEN"
    BY <1>0, <1>2, <2>1 DEF Built, OnSnapshot, GreenThen
  <2>3. \A d \in BlocksIn[t] \cap Tickets : r[d] = "green"
    BY <2>2, RulingFacts
  <2> QED BY <2>3 DEF Contract!Startable
<1>5. \A t \in Tickets : saved'.tk[t].status = snap.tk[t].status
  BY <1>0, StoredFields
<1>6. [t \in Tickets |-> Ruling(saved'.tk[t].status)] = r
  BY <1>5
<1>7. Copied(saved)' = {[ruling |-> b.ruling, started |-> s]}
  BY <1>0, <1>6 DEF Copied
<1> HIDE DEF r, s, b
<1> QED BY <1>1, <1>3, <1>4, <1>7 DEF Contract!KeepsBooks

\* A tick that does not bring the books up to date works.
LEMMA TickWorks ==
    ASSUME OrderInv, OrderInv', Tick, Copied(snap)' = Copied(snap),
           Copied(saved)' = Copied(saved) \/ Contract!KeepsBooks
    PROVE  Contract!Works
<1>0. /\ Shape /\ Shape' /\ TodoOpen /\ MergedOnGitHub(tk, mergedUrls) /\ Typed
      /\ MergedOnGitHub(tk, mergedUrls)'
  BY DEF OrderInv, SafeInv, Shape, Typed, MemOK
<1>1. ASSUME NEW t \in Tickets, RulingNow[t] # "open"
      PROVE  RulingNow'[t] = RulingNow[t]
  <2>1. tk[t].status \in Terminal /\ ~Unswept(t)
    BY <1>1, RuledNow
  <2>2. tk'[t].status = tk[t].status
    BY <2>1, RulingTick DEF Unswept
  <2>3. ~Unswept(t)'
    BY <2>1, UnsweptTick
  <2> QED BY <2>1, <2>2, <2>3 DEF RulingNow
<1>2. /\ RulingNow' \in [Tickets -> Contract!Rulings]
      /\ \A t \in Tickets : RulingNow'[t] = "green" => tk'[t].status = "MERGED_GREEN"
  <2>1. \A t \in Tickets : RulingNow'[t] = IF Unswept(t)' THEN "open"
                                           ELSE Ruling(tk'[t].status)
    BY DEF RulingNow
  <2>2. RulingNow' = [t \in Tickets |-> RulingNow'[t]]
    BY DEF RulingNow
  <2>3. "open" \in Contract!Rulings
    BY DEF Contract!Rulings
  <2> QED BY <2>1, <2>2, <2>3, RulingFacts
<1>3. Shipped \subseteq Shipped'
  BY <1>0, GhTick DEF GhKept, Shipped
<1>4. Contract!GreenAreMerged'
  BY <1>0, <1>2 DEF Contract!GreenAreMerged, Shipped, MergedOnGitHub
<1>5. ASSUME NEW t \in Tasked(tk)' \ Tasked(tk) PROVE Contract!Startable(t, RulingNow)
  <2>1. t \in Tickets /\ HasTask(tk'[t]) /\ ~HasTask(tk[t])
    BY <1>5 DEF Tasked
  <2>2. DepsSatisfied(t)
    BY <1>0, <2>1, TickAdvances DEF Advances
  <2> QED BY <2>2, RuledNow DEF DepsSatisfied, Contract!Startable
<1> QED BY <1>1, <1>2, <1>3, <1>4, <1>5 DEF Contract!Works

\* The snapshot notes the graph as it is, and the checkpoint keeps that.
LEMMA SnapshotNotes ==
    ASSUME OrderInv, Snapshot, snap'.valid, Copies(tk', snap'.tk),
           UNCHANGED saved \/ (saved'.valid /\ saved'.tk = snap'.tk)
    PROVE  Contract!Notes
<1>0. tk \in [Tickets -> TicketRecord]
  BY DEF OrderInv, SafeInv, Shape
<1>1. /\ \A t \in Tickets : tk'[t] = Snapped(tk[t])
      /\ pc = "snapshot" /\ pc' = "tail" /\ UNCHANGED gh
  BY DEF Snapshot, world
<1>2. \A r \in TicketRecord : /\ Snapped(r).status = r.status
                              /\ HasTask(Snapped(r)) <=> HasTask(r)
  <2>1. \A r \in TicketRecord :
            /\ Snapped(r).status = r.status /\ Snapped(r).child = r.child
            /\ Snapped(r).review = r.review
            /\ Snapped(r).noted = IF r.child # 0 THEN r.child ELSE r.noted
    BY DEF Snapped, TicketRecord
  <2> QED BY <2>1 DEF HasTask
<1>3. \A t \in Tickets : /\ tk'[t].status = tk[t].status
                         /\ HasTask(tk'[t]) <=> HasTask(tk[t])
  BY <1>0, <1>1, <1>2
<1>4. RulingNow = [t \in Tickets |-> Ruling(tk[t].status)] /\ RulingNow' = RulingNow
  BY <1>1, <1>3 DEF RulingNow, Unswept
<1>5. Tasked(tk)' = Tasked(tk) /\ Shipped' = Shipped
  BY <1>1, <1>3 DEF Tasked, Shipped
<1>6. /\ [t \in Tickets |-> Ruling(snap'.tk[t].status)] = RulingNow
      /\ Tasked(snap'.tk) = Tasked(tk)
  BY <1>3, <1>4 DEF Copies, Tasked
<1>7. Copied(snap)' = {[ruling |-> RulingNow, started |-> Tasked(tk)]}
  BY <1>6 DEF Copied
<1>8. Copied(saved)' \in {Copied(saved), Copied(snap)'}
  BY DEF Copied
<1> QED BY <1>4, <1>5, <1>7, <1>8 DEF Contract!Notes

\* A restart goes back to what was kept.
LEMMA CrashResumes ==
    ASSUME CrashAndResume
    PROVE  Contract!Resumes
<1>1. /\ saved.valid /\ tk' = saved.tk /\ pc' = "top" /\ UNCHANGED gh
      /\ saved' = saved \/ saved' = NoCheckpoint
      /\ ~snap'.valid \/ snap'.tk = saved.tk
  BY DEF CrashAndResume, NoCheckpoint
<1> DEFINE k == [ruling |-> [t \in Tickets |-> Ruling(saved.tk[t].status)],
                 started |-> Tasked(saved.tk)]
<1>2. Copied(saved) = {k}
  BY <1>1 DEF Copied
<1>3. RulingNow' = [t \in Tickets |-> Ruling(saved.tk[t].status)]
  BY <1>1 DEF RulingNow, Unswept
<1>4. Tasked(tk)' = Tasked(saved.tk) /\ Shipped' = Shipped
  BY <1>1 DEF Tasked, Shipped
<1>5. Copied(saved)' \subseteq Copied(saved)
  <2>1. CASE saved' = saved
    BY <2>1 DEF Copied
  <2>2. CASE saved' = NoCheckpoint
    BY <2>2 DEF Copied, NoCheckpoint
  <2> QED BY <1>1, <2>1, <2>2
<1>6. Copied(snap)' \subseteq {k}
  BY <1>1 DEF Copied
<1>7. RulingNow' = k.ruling /\ Tasked(tk)' = k.started
  BY <1>3, <1>4
<1> HIDE DEF k
<1> QED BY <1>2, <1>4, <1>5, <1>6, <1>7 DEF Contract!Resumes

\* Workers, reviewers and people rule on nothing; GitHub takes no merge back.
LEMMA WorldWorks ==
    ASSUME OrderInv, World
    PROVE  Contract!Works
<1>0. Typed /\ MergedOnGitHub(tk, mergedUrls)
  BY DEF OrderInv, SafeInv, Shape, Typed, MemOK
<1>1. UNCHANGED <<mem, local, saved>>
  BY DEF World, LabelHuman, KidClaimed, KidOpensPr, KidEnds, KidLost, ReviewEnds, outside
<1>2. UNCHANGED <<tk, pc, fresh, snap, saved>>
  BY <1>1 DEF mem, local
<1>3. /\ RulingNow' = RulingNow /\ Tasked(tk)' = Tasked(tk)
      /\ Copied(saved)' = Copied(saved) /\ Copied(snap)' = Copied(snap)
  BY <1>2 DEF RulingNow, Unswept, Tasked, Copied
<1>4. RulingNow \in [Tickets -> Contract!Rulings]
  <2>1. RulingNow = [t \in Tickets |-> RulingNow[t]]
    BY DEF RulingNow
  <2> QED BY <2>1, RuledNow
<1>5. Shipped \subseteq Shipped'
  BY <1>0, GhWorld DEF GhKept, Shipped
<1>6. Contract!GreenAreMerged'
  <2>1. \A t \in Tickets : RulingNow[t] = "green" => t \in Shipped
    BY <1>0, RuledNow DEF Shipped, MergedOnGitHub
  <2> QED BY <1>3, <1>5, <2>1 DEF Contract!GreenAreMerged
<1> QED BY <1>3, <1>4, <1>5, <1>6 DEF Contract!Works

\* Every step of the wave is a step of the contract, or none.
LEMMA ContractStep ==
    ASSUME OrderInv, OrderInv', [Next]_vars
    PROVE  [Contract!Next]_Contract!vars
<1>1. CASE Tick
  <2>0. Shape /\ Shape'
    BY DEF OrderInv, SafeInv
  <2>1. CASE UNCHANGED <<snap, saved>>
    <3>1. Copied(snap)' = Copied(snap) /\ Copied(saved)' = Copied(saved)
      BY <2>1 DEF Copied
    <3> QED BY <1>1, <3>1, TickWorks DEF Contract!Next
  <2>2. CASE Stores /\ UNCHANGED snap
    <3>1. Copied(snap)' = Copied(snap)
      BY <2>2 DEF Copied
    <3> QED BY <1>1, <2>2, <3>1, TickWorks, StoresKeeps DEF Contract!Next
  <2>3. CASE /\ Snapshot /\ snap'.valid /\ Copies(tk', snap'.tk)
             /\ \/ UNCHANGED saved
                \/ saved'.valid /\ saved'.tk = snap'.tk /\ saved'.acked = acked
    BY <2>3, SnapshotNotes DEF Contract!Next
  <2>4. CASE Sleep
    <3>1. saved' = AgedCopy(saved) /\ snap' = AgedCopy(snap) /\ SavedOK
      BY <2>0, <2>4 DEF Sleep, Shape
    <3>2. Copied(snap)' = Copied(AgedCopy(snap)) /\ Copied(saved)' = Copied(AgedCopy(saved))
      BY <3>1 DEF Copied
    <3>3. Copied(snap)' = Copied(snap) /\ Copied(saved)' = Copied(saved)
      BY <3>1, <3>2, AgedSame
    <3> QED BY <1>1, <3>3, TickWorks DEF Contract!Next
  <2> QED BY <1>1, <2>0, <2>1, <2>2, <2>3, <2>4, CopiesFrom
<1>2. CASE CrashAndResume
  BY <1>2, CrashResumes DEF Contract!Next
<1>3. CASE World
  BY <1>3, WorldWorks DEF Contract!Next
<1>4. CASE WaveOver \/ UNCHANGED vars
  <2>1. UNCHANGED <<tk, pc, fresh, snap, saved, gh>>
    BY <1>4 DEF WaveOver, vars, mem, local, world
  <2>2. UNCHANGED <<RulingNow, Tasked(tk), Shipped, Copied(snap), Copied(saved)>>
    BY <2>1 DEF RulingNow, Unswept, Tasked, Shipped, Copied
  <2> QED BY <2>2 DEF Contract!vars
<1> QED BY <1>1, <1>2, <1>3, <1>4 DEF Next

\* The wave implements its contract: whatever calls fail and however often the daemon
\* dies, a ruling stands until a restart, which goes back to the rulings that were
\* checkpointed last and to no others, and brings no task back to a ticket that might
\* not have one by those rulings, whether the checkpoint was written after the
\* snapshot or, by the SS-08 gate and the hard stop, between two snapshots; green
\* means merged; and work starts on green blockers only (_dispatch_wave,
\* _poll_children, _poll_reviews, checkpoint and restore).
THEOREM ContractKept == Spec => TicketContract
<1>1. OrderInv /\ OrderInv' /\ [Next]_vars => [Contract!Next]_Contract!vars
  BY ContractStep
<1> QED BY <1>1, ContractInit, OrderAlways, PTL DEF Spec, TicketContract, Contract!Spec
=============================================================================
