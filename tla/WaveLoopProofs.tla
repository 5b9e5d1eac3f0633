--------------------------- MODULE WaveLoopProofs ---------------------------
(* What the wave loop promises about ids, merges and dependencies, for any *)
(* tickets, limits, faults and crashes.                                    *)
EXTENDS WaveLoopTypes

\* The dispatch list holds ready tickets, the poll list tickets with a child at
\* work: each step of the loop may assume what the list was made from.
TodoOpen ==
    /\ pc = "dispatch" => \A t \in todo : tk[t].status = "PENDING" /\ DepsSatisfied(t)
    /\ pc \in {"claimed", "poll"} =>
         \A t \in todo : tk[t].status \notin Terminal /\ tk[t].child # 0

\* Whoever has a builder or a reviewer has merged blockers.
Built(f) ==
    \A t \in Tickets : HasTask(f[t]) =>
        \A d \in BlocksIn[t] \cap Tickets : f[d].status = "MERGED_GREEN"

MergedOnGitHub(f, urls) ==
    /\ \A t \in Tickets : f[t].status = "MERGED_GREEN" => gh[t] = "merged"
    /\ \A t \in urls : gh[t] = "merged"

\* What a ticket was started on is green in the last snapshot too: a checkpoint in
\* the middle of a tick keeps new reviews with the statuses of then.
GreenThen(t) == \A d \in BlocksIn[t] \cap Tickets : snap.tk[d].status = "MERGED_GREEN"
OnSnapshot ==
    /\ crashes < MaxCrashes
    /\ \A t \in Tickets :
          HasTask(tk[t]) \/ (pc = "dispatch" /\ t \in todo) => GreenThen(t)
    /\ pc \in {"tail", "sleep", "top"} => \A t \in Tickets :
          tk[t].status = "MERGED_GREEN" => snap.tk[t].status = "MERGED_GREEN"

\* The inductive invariant: what holds of the graph must hold of the checkpoint
\* too, or a restart would break it, and of the snapshot, which becomes one.
SafeInv ==
    /\ Shape /\ TodoOpen
    /\ IdsKnown(tk) /\ Built(tk) /\ MergedOnGitHub(tk, mergedUrls)
    /\ saved.valid => /\ IdsKnown(saved.tk) /\ Built(saved.tk)
                      /\ MergedOnGitHub(saved.tk, saved.mergedUrls)
    /\ snap.valid => /\ IdsKnown(snap.tk) /\ Built(snap.tk) /\ MergedOnGitHub(snap.tk, {})
                     /\ OnSnapshot

\* What one step of the loop may do to ticket t.
Advances(t) ==
    /\ tk[t].status = "MERGED_GREEN" => tk'[t].status = "MERGED_GREEN"
    /\ tk'[t].status = "MERGED_GREEN" => tk[t].status = "MERGED_GREEN" \/ gh'[t] = "merged"
    /\ HasTask(tk'[t]) => \/ HasTask(tk[t])
                          \/ pc = "dispatch" /\ t \in todo /\ DepsSatisfied(t)
    /\ tk'[t].child \in {0, tk[t].child, Len(kids'[t])}
    /\ tk'[t].noted \in {tk[t].noted, tk[t].child}
    /\ tk'[t].review \in {0, tk[t].review, Len(revs'[t])} \cup DOMAIN revs[t]

Typed == tk \in [Tickets -> TicketRecord] /\ WorldOK /\ mergedUrls \subseteq Tickets

-----------------------------------------------------------------------------
(* Each step advances every ticket.                                        *)

\* A ticket whose ids are kept or dropped, and that does not become green or stop
\* being it.
LEMMA AdvancesPlainly ==
    ASSUME NEW t \in Tickets,
           tk[t].status = "MERGED_GREEN" <=> tk'[t].status = "MERGED_GREEN",
           tk'[t].child \in {0, tk[t].child},
           tk'[t].noted \in {tk[t].noted, tk[t].child},
           tk'[t].review \in {0, tk[t].review}
    PROVE  Advances(t)
BY DEF Advances, HasTask

\* A ticket that is left alone advances.
LEMMA AdvancesSame ==
    ASSUME NEW t \in Tickets, tk'[t] = tk[t]
    PROVE  Advances(t)
BY AdvancesPlainly

\* A merge attempt makes its ticket green only when the PR is merged.
LEMMA MergeAdvances ==
    ASSUME Typed, NEW t \in Tickets, NEW known \in BOOLEAN, Merge(t, known),
           tk[t].status # "MERGED_GREEN",
           \A u \in mergedUrls : gh[u] = "merged"
    PROVE  \A u \in Tickets : Advances(u)
<1>1. PICK s \in {"MERGED_GREEN", "FAILED"}, k \in BOOLEAN :
          /\ tk' = [tk EXCEPT ![t] = [tk[t] EXCEPT !.status = s, !.pr = k]]
          /\ s = "MERGED_GREEN" => \/ t \in mergedUrls /\ gh' = gh
                                   \/ gh' = [gh EXCEPT ![t] = "merged"]
  BY MergeTk
<1>2. tk[t] \in TicketRecord /\ t \in DOMAIN tk /\ t \in DOMAIN gh
  BY DEF Typed, WorldOK
<1>3. /\ tk'[t].status = s /\ tk'[t].child = tk[t].child
      /\ tk'[t].noted = tk[t].noted /\ tk'[t].review = tk[t].review
  BY <1>1, <1>2 DEF TicketRecord, Typed
<1>4. s = "MERGED_GREEN" => gh'[t] = "merged"
  BY <1>1, <1>2
<1>5. Advances(t)
  BY <1>3, <1>4 DEF Advances, HasTask
<1>6. \A u \in Tickets \ {t} : tk'[u] = tk[u]
  BY <1>1 DEF Typed
<1> QED BY <1>5, <1>6, AdvancesSame

\* A change of status alone, away from and not to green.
LEMMA StatusAdvances ==
    ASSUME Typed, NEW t \in Tickets, NEW s, tk' = [tk EXCEPT ![t].status = s],
           tk[t].status # "MERGED_GREEN", s # "MERGED_GREEN"
    PROVE  \A u \in Tickets : Advances(u)
<1>1. tk[t] \in TicketRecord /\ t \in DOMAIN tk
  BY DEF Typed
<1>2. /\ tk'[t].status = s /\ tk'[t].child = tk[t].child
      /\ tk'[t].noted = tk[t].noted /\ tk'[t].review = tk[t].review
  BY <1>1 DEF TicketRecord
<1>3. Advances(t)
  BY <1>2, AdvancesPlainly
<1>4. \A u \in Tickets \ {t} : tk'[u] = tk[u]
  BY DEF Typed
<1> QED BY <1>3, <1>4, AdvancesSame

\* A dispatch decision advances every ticket: a new task needs ready blockers.
LEMMA DispatchAdvances ==
    ASSUME Typed, TodoOpen, MergedOnGitHub(tk, mergedUrls),
           NEW t \in Tickets, DispatchTicket(t)
    PROVE  \A u \in Tickets : Advances(u)
<1>0. tk[t] \in TicketRecord /\ t \in DOMAIN tk
  BY DEF Typed
<1>1. CASE HoldBack(t) \/ Ss08Acked(t) \/ RefuseDuplicate(t) \/ DispatchRaises(t)
  BY <1>1, AdvancesSame DEF HoldBack, Ss08Acked, RefuseDuplicate, DispatchRaises, gateRest
<1>2. ASSUME Candidate(t)
      PROVE  tk[t].status = "PENDING" /\ DepsSatisfied(t) /\ pc = "dispatch" /\ t \in todo
  BY <1>2 DEF Candidate, TodoOpen
<1>3. CASE Ss08Deferred(t)
  <2>1. Candidate(t) /\ tk' = [tk EXCEPT ![t].status = "FAILED"]
    BY <1>3 DEF Ss08Deferred, Considered
  <2> QED BY <1>2, <2>1, StatusAdvances
<1>4. CASE SkipHuman(t)
  <2>1. Candidate(t) /\ tk' = [tk EXCEPT ![t].status = "ESCALATED"]
    BY <1>4 DEF SkipHuman, Dispatchable, Considered
  <2> QED BY <1>2, <2>1, StatusAdvances
<1>6. CASE SkipShipped(t)
  <2>1. /\ tk' = [tk EXCEPT ![t].status = "MERGED_GREEN", ![t].pr = TRUE]
        /\ gh[t] = "merged" /\ gh' = gh
    BY <1>6 DEF SkipShipped, Lookup, world
  <2>2. /\ tk'[t].child = tk[t].child /\ tk'[t].noted = tk[t].noted
        /\ tk'[t].review = tk[t].review /\ tk'[t].status = "MERGED_GREEN"
    BY <1>0, <2>1 DEF TicketRecord
  <2>3. Advances(t)
    BY <2>1, <2>2 DEF Advances, HasTask
  <2>4. \A u \in Tickets \ {t} : tk'[u] = tk[u]
    BY <2>1 DEF Typed
  <2> QED BY <2>3, <2>4, AdvancesSame
<1>7. CASE MergeInherited(t)
  <2>1. Candidate(t) /\ Merge(t, TRUE)
    BY <1>7 DEF MergeInherited, NotShipped, Dispatchable, Considered
  <2> QED BY <1>2, <2>1, MergeAdvances DEF MergedOnGitHub
<1>8. CASE AwaitInherited(t)
  <2>1. Candidate(t)
    BY <1>8 DEF AwaitInherited, NotShipped, Dispatchable, Considered
  <2>2. CASE AdoptReview(t)
    <3>1. PICK i \in DOMAIN revs[t] :
             tk' = [tk EXCEPT ![t].review = i, ![t].status = "AWAITING_REVIEW"]
      BY <2>2 DEF AdoptReview, OpenReviews
    <3>2. /\ tk'[t].child = tk[t].child /\ tk'[t].noted = tk[t].noted
          /\ tk'[t].review = i /\ tk'[t].status = "AWAITING_REVIEW"
      BY <1>0, <3>1 DEF TicketRecord
    <3>3. Advances(t)
      BY <1>2, <2>1, <3>2 DEF Advances
    <3>4. \A u \in Tickets \ {t} : tk'[u] = tk[u]
      BY <3>1 DEF Typed
    <3> QED BY <3>3, <3>4, AdvancesSame
  <2>3. CASE FireReview(t)
    <3>1. CASE tk' = [tk EXCEPT ![t].review = RevId(t), ![t].pr = TRUE,
                                ![t].status = "AWAITING_REVIEW"] /\ NewReview(t)
      <4>1. /\ tk'[t].child = tk[t].child /\ tk'[t].noted = tk[t].noted
            /\ tk'[t].review = RevId(t) /\ tk'[t].status = "AWAITING_REVIEW"
        BY <1>0, <3>1 DEF TicketRecord
      <4>2. Len(revs'[t]) = RevId(t)
        BY <3>1, NewReviewType DEF Typed
      <4>3. Advances(t)
        BY <1>2, <2>1, <4>1, <4>2 DEF Advances
      <4>4. \A u \in Tickets \ {t} : tk'[u] = tk[u]
        BY <3>1 DEF Typed
      <4> QED BY <4>3, <4>4, AdvancesSame
    <3>2. CASE tk' = [tk EXCEPT ![t].pr = TRUE]
      <4>1. /\ tk'[t].child = tk[t].child /\ tk'[t].noted = tk[t].noted
            /\ tk'[t].review = tk[t].review /\ tk'[t].status = tk[t].status
        BY <1>0, <3>2 DEF TicketRecord
      <4>2. Advances(t)
        BY <4>1, AdvancesPlainly
      <4>3. \A u \in Tickets \ {t} : tk'[u] = tk[u]
        BY <3>2 DEF Typed
      <4> QED BY <4>2, <4>3, AdvancesSame
    <3> QED BY <2>3, <3>1, <3>2 DEF FireReview
  <2>4. CASE ReviewRegistered(t)
    BY <2>4, AdvancesSame DEF ReviewRegistered
  <2> QED BY <1>8, <2>2, <2>3, <2>4 DEF AwaitInherited
<1>9. CASE DispatchChild(t)
  <2>1. /\ tk' = [tk EXCEPT ![t].child = KidId(t), ![t].status = "DISPATCHED",
                            ![t].dispAge = 0, ![t].tried = @ + 1]
        /\ Candidate(t) /\ NewKid(t) /\ UNCHANGED revs
    BY <1>9 DEF DispatchChild, Undispatched, NotShipped, Dispatchable, Considered
  <2>2. /\ tk'[t].child = KidId(t) /\ tk'[t].noted = tk[t].noted
        /\ tk'[t].review = tk[t].review /\ tk'[t].status = "DISPATCHED"
    BY <1>0, <2>1 DEF TicketRecord
  <2>3. Len(kids'[t]) = KidId(t)
    BY <2>1, NewKidType DEF Typed
  <2>4. Advances(t)
    BY <1>2, <2>1, <2>2, <2>3 DEF Advances
  <2>5. \A u \in Tickets \ {t} : tk'[u] = tk[u]
    BY <2>1 DEF Typed
  <2> QED BY <2>4, <2>5, AdvancesSame
<1> QED BY <1>1, <1>3, <1>4, <1>6, <1>7, <1>8, <1>9 DEF DispatchTicket

\* So does the poll of one ticket.
LEMMA PollAdvances ==
    ASSUME Typed, TodoOpen, NEW t \in Tickets, PollTicket(t)
    PROVE  \A u \in Tickets : Advances(u)
<1>0. tk[t] \in TicketRecord /\ t \in DOMAIN tk
  BY DEF Typed
<1>1. tk[t].status \notin Terminal /\ tk[t].child # 0
  BY DEF TodoOpen, PollTicket, PollAbandon, PollTimeout, PollPhantom, PollRunning,
         PollFailed, PollGap, PollPr, PollSilent, Polled
<1>2. tk[t].status # "MERGED_GREEN"
  BY <1>1 DEF Terminal
<1>3. ASSUME NEW r, tk' = [tk EXCEPT ![t] = r], r.status # "MERGED_GREEN",
             r.child \in {0, tk[t].child}, r.noted = tk[t].noted,
             r.review = tk[t].review
      PROVE  \A u \in Tickets : Advances(u)
  <2>1. tk'[t] = r /\ \A u \in Tickets \ {t} : tk'[u] = tk[u]
    BY <1>0, <1>3 DEF Typed
  <2> QED BY <1>2, <1>3, <2>1, AdvancesSame, AdvancesPlainly
<1>4. CASE PollAbandon(t)
  <2> DEFINE r == [Abandoned(tk[t]) EXCEPT !.retries = tk[t].retries + 1,
                                           !.dispAge = NoTime]
  <2>1. tk' = [tk EXCEPT ![t] = r]
    BY <1>4 DEF PollAbandon
  <2>2. /\ r.status = "ABANDONED" /\ r.child = 0 /\ r.noted = tk[t].noted
        /\ r.review = tk[t].review
    BY <1>0 DEF Abandoned, TicketRecord
  <2> QED BY <1>3, <2>1, <2>2
<1>5. CASE PollTimeout(t)
  <2> DEFINE r == [tk[t] EXCEPT !.status = "FAILED", !.phantom = FALSE]
  <2>1. tk' = [tk EXCEPT ![t] = r]
    BY <1>5 DEF PollTimeout
  <2>2. /\ r.status = "FAILED" /\ r.child = tk[t].child /\ r.noted = tk[t].noted
        /\ r.review = tk[t].review
    BY <1>0 DEF TicketRecord
  <2> QED BY <1>3, <2>1, <2>2
<1>6. CASE PollPhantom(t)
  <2>1. tk' = [tk EXCEPT ![t] = ForceFailed(t)]
    BY <1>6 DEF PollPhantom
  <2>2. /\ ForceFailed(t).status = "FAILED" /\ ForceFailed(t).child = tk[t].child
        /\ ForceFailed(t).noted = tk[t].noted /\ ForceFailed(t).review = tk[t].review
    BY <1>0 DEF ForceFailed, TicketRecord
  <2> QED BY <1>3, <2>1, <2>2
<1>7. CASE PollRunning(t) \/ PollFailed(t) \/ PollGap(t)
  <2>1. \E s : tk' = [tk EXCEPT ![t].status = s] /\ s # "MERGED_GREEN"
    <3>1. CASE PollRunning(t)
      <4> DEFINE s == IF tk[t].status = "DISPATCHED" THEN "IN_PROGRESS" ELSE tk[t].status
      <4>1. tk' = [tk EXCEPT ![t].status = s]
        BY <3>1 DEF PollRunning
      <4>2. s # "MERGED_GREEN"
        BY <1>2
      <4> HIDE DEF s
      <4> QED BY <4>1, <4>2
    <3>2. CASE PollFailed(t) \/ PollGap(t)
      BY <3>2 DEF PollFailed, PollGap
    <3> QED BY <1>7, <3>1, <3>2
  <2> QED BY <1>2, <2>1, StatusAdvances
<1>8. CASE PollPr(t)
  <2>1. CASE tk' = [tk EXCEPT ![t].pr = TRUE, ![t].dispAge = NoTime,
                              ![t].review = RevId(t), ![t].status = "AWAITING_REVIEW"]
             /\ NewReview(t)
    <3>1. /\ tk'[t].child = tk[t].child /\ tk'[t].noted = tk[t].noted
          /\ tk'[t].review = RevId(t) /\ tk'[t].status = "AWAITING_REVIEW"
      BY <1>0, <2>1 DEF TicketRecord
    <3>2. Len(revs'[t]) = RevId(t)
      BY <2>1, NewReviewType DEF Typed
    <3>3. Advances(t)
      BY <1>1, <1>2, <3>1, <3>2 DEF Advances, HasTask
    <3>4. \A u \in Tickets \ {t} : tk'[u] = tk[u]
      BY <2>1 DEF Typed
    <3> QED BY <3>3, <3>4, AdvancesSame
  <2>2. CASE tk' = [tk EXCEPT ![t].pr = TRUE, ![t].dispAge = NoTime,
                              ![t].status = "PR_OPEN"]
    <3> DEFINE r == [tk[t] EXCEPT !.pr = TRUE, !.dispAge = NoTime, !.status = "PR_OPEN"]
    <3>1. tk' = [tk EXCEPT ![t] = r]
      BY <2>2
    <3>2. /\ r.status = "PR_OPEN" /\ r.child = tk[t].child /\ r.noted = tk[t].noted
          /\ r.review = tk[t].review
      BY <1>0 DEF TicketRecord
    <3> QED BY <1>3, <3>1, <3>2
  <2> QED BY <1>8, <2>1, <2>2 DEF PollPr
<1>9. CASE PollSilent(t)
  <2> DEFINE r == [tk[t] EXCEPT !.status = "PENDING", !.child = 0, !.dispAge = NoTime]
             q == [tk[t] EXCEPT !.status = "FAILED", !.phantom = FALSE]
  <2>1. tk' = [tk EXCEPT ![t] = r] \/ tk' = [tk EXCEPT ![t] = q]
    BY <1>9 DEF PollSilent
  <2>2. /\ r.status = "PENDING" /\ r.child = 0 /\ r.noted = tk[t].noted
        /\ r.review = tk[t].review
    BY <1>0 DEF TicketRecord
  <2>3. /\ q.status = "FAILED" /\ q.child = tk[t].child /\ q.noted = tk[t].noted
        /\ q.review = tk[t].review
    BY <1>0 DEF TicketRecord
  <2> QED BY <1>3, <2>1, <2>2, <2>3
<1> QED BY <1>4, <1>5, <1>6, <1>7, <1>8, <1>9 DEF PollTicket

\* So does a review verdict: a fix round follows an earlier task.
LEMMA ReviewAdvances ==
    ASSUME Typed, MergedOnGitHub(tk, mergedUrls), NEW t \in Tickets, ReviewTicket(t)
    PROVE  \A u \in Tickets : Advances(u)
<1>0. tk[t] \in TicketRecord /\ t \in DOMAIN tk
  BY DEF Typed
<1>1. Eligible(t)
  BY DEF ReviewTicket, ReviewApproved, ReviewTriage, ReviewExhausted, ReviewHuman,
         ReviewRespawn, RespawnRaises, ReviewSilent, FixRound, FixWanted, ChangesWanted
<1>2. tk[t].status # "MERGED_GREEN" /\ tk[t].review # 0
  BY <1>1 DEF Eligible
<1>3. ASSUME NEW r, tk' = [tk EXCEPT ![t] = r], r.status # "MERGED_GREEN",
             r.child = tk[t].child, r.noted = tk[t].noted,
             r.review \in {0, tk[t].review}
      PROVE  \A u \in Tickets : Advances(u)
  <2>1. tk'[t] = r /\ \A u \in Tickets \ {t} : tk'[u] = tk[u]
    BY <1>0, <1>3 DEF Typed
  <2> QED BY <1>2, <1>3, <2>1, AdvancesSame, AdvancesPlainly
<1>4. CASE ReviewApproved(t)
  <2>1. Merge(t, tk[t].pr) /\ tk[t].pr \in BOOLEAN
    BY <1>0, <1>4 DEF ReviewApproved, TicketRecord
  <2> QED BY <1>2, <2>1, MergeAdvances DEF MergedOnGitHub
<1>5. CASE ReviewTriage(t)
  <2> DEFINE r == [tk[t] EXCEPT !.status = "TRIAGE_NEEDED", !.review = 0]
  <2>1. tk' = [tk EXCEPT ![t] = r]
    BY <1>5 DEF ReviewTriage
  <2>2. /\ r.status = "TRIAGE_NEEDED" /\ r.child = tk[t].child
        /\ r.noted = tk[t].noted /\ r.review = 0
    BY <1>0 DEF TicketRecord
  <2> QED BY <1>3, <2>1, <2>2
<1>6. CASE ReviewExhausted(t) \/ ReviewHuman(t)
  <2>1. \/ tk' = [tk EXCEPT ![t].status = "FAILED"]
        \/ tk' = [tk EXCEPT ![t].status = "ESCALATED"]
    BY <1>6 DEF ReviewExhausted, ReviewHuman
  <2> QED BY <1>2, <2>1, StatusAdvances
<1>7. CASE ReviewRespawn(t)
  <2>1. /\ tk' = [tk EXCEPT ![t].status = "DISPATCHED", ![t].child = KidId(t),
                            ![t].cycles = @ + 1, ![t].review = 0, ![t].silents = 0]
        /\ NewKid(t)
    BY <1>7 DEF ReviewRespawn
  <2>2. /\ tk'[t].child = KidId(t) /\ tk'[t].noted = tk[t].noted
        /\ tk'[t].review = 0 /\ tk'[t].status = "DISPATCHED"
    BY <1>0, <2>1 DEF TicketRecord
  <2>3. Len(kids'[t]) = KidId(t)
    BY <2>1, NewKidType DEF Typed
  <2>4. Advances(t)
    BY <1>2, <2>2, <2>3 DEF Advances, HasTask
  <2>5. \A u \in Tickets \ {t} : tk'[u] = tk[u]
    BY <2>1 DEF Typed
  <2> QED BY <2>4, <2>5, AdvancesSame
<1>8. CASE RespawnRaises(t)
  <2> DEFINE r == [tk[t] EXCEPT !.cycles = tk[t].cycles + 1, !.review = 0]
  <2>1. tk' = [tk EXCEPT ![t] = r]
    BY <1>8 DEF RespawnRaises
  <2>2. /\ r.status = tk[t].status /\ r.child = tk[t].child
        /\ r.noted = tk[t].noted /\ r.review = 0
    BY <1>0 DEF TicketRecord
  <2> QED BY <1>2, <1>3, <2>1, <2>2
<1>9. CASE ReviewSilent(t)
  <2> DEFINE q == [tk[t] EXCEPT !.silents = tk[t].silents + 1, !.status = "FAILED"]
             r == [tk[t] EXCEPT !.silents = 1, !.review = 0]
  <2>1. CASE tk' = [tk EXCEPT ![t] = q]
    <3>1. /\ q.status = "FAILED" /\ q.child = tk[t].child /\ q.noted = tk[t].noted
          /\ q.review = tk[t].review
      BY <1>0 DEF TicketRecord
    <3> QED BY <1>3, <2>1, <3>1
  <2>2. CASE tk' = [tk EXCEPT ![t] = r]
    <3>1. /\ r.status = tk[t].status /\ r.child = tk[t].child /\ r.noted = tk[t].noted
          /\ r.review = 0
      BY <1>0 DEF TicketRecord
    <3> QED BY <1>2, <1>3, <2>2, <3>1
  <2>3. CASE tk' = [tk EXCEPT ![t].silents = 1, ![t].review = RevId(t),
                              ![t].status = "AWAITING_REVIEW"] /\ NewReview(t)
    <3>1. /\ tk'[t].child = tk[t].child /\ tk'[t].noted = tk[t].noted
          /\ tk'[t].review = RevId(t) /\ tk'[t].status = "AWAITING_REVIEW"
      BY <1>0, <2>3 DEF TicketRecord
    <3>2. Len(revs'[t]) = RevId(t)
      BY <2>3, NewReviewType DEF Typed
    <3>3. Advances(t)
      BY <1>2, <3>1, <3>2 DEF Advances, HasTask
    <3>4. \A u \in Tickets \ {t} : tk'[u] = tk[u]
      BY <2>3 DEF Typed
    <3> QED BY <3>3, <3>4, AdvancesSame
  <2> QED BY <1>9, <2>1, <2>2, <2>3 DEF ReviewSilent
<1> QED BY <1>4, <1>5, <1>6, <1>7, <1>8, <1>9 DEF ReviewTicket

-----------------------------------------------------------------------------
(* Steps over the whole graph.                                             *)

\* r becomes q, with the ids kept or dropped and no change in being green.
Carries(r, q) ==
    /\ r.status = "MERGED_GREEN" <=> q.status = "MERGED_GREEN"
    /\ q.child \in {0, r.child} /\ q.noted \in {r.noted, r.child} /\ q.review = r.review

\* The orphan reconcile and the wake-up of a ticket keep ids and green.
LEMMA ForceFailedCarries ==
    ASSUME Typed, NEW t \in Tickets
    PROVE  /\ t \in WithStatus(Active) => Carries(tk[t], ForceFailed(t))
           /\ Carries(tk[t], Refreshed(t))
           /\ ForceFailed(t).noted = tk[t].noted /\ Refreshed(t).noted = tk[t].noted
           /\ ForceFailed(t).child = tk[t].child /\ Refreshed(t).child = tk[t].child
<1>0. tk[t] \in TicketRecord
  BY DEF Typed
<1>1. \A s : LET q == [tk[t] EXCEPT !.status = s]
             IN  /\ q.status = s /\ q.child = tk[t].child /\ q.noted = tk[t].noted
                 /\ q.review = tk[t].review
  BY <1>0 DEF TicketRecord
<1>2. LET q == [tk[t] EXCEPT !.status = "FAILED", !.phantom = TRUE]
      IN  /\ q.status = "FAILED" /\ q.child = tk[t].child /\ q.noted = tk[t].noted
          /\ q.review = tk[t].review
  BY <1>0 DEF TicketRecord
<1> DEFINE w == [tk[t] EXCEPT !.status = "PENDING", !.backAge = NoTime]
<1>3. /\ w.status = "PENDING" /\ w.child = tk[t].child /\ w.noted = tk[t].noted
      /\ w.review = tk[t].review /\ w \in TicketRecord
  BY <1>0, StatusNames DEF TicketRecord
<1> HIDE DEF w
<1>4. \A s : LET q == [w EXCEPT !.status = s]
             IN  /\ q.status = s /\ q.child = w.child /\ q.noted = w.noted
                 /\ q.review = w.review
  BY <1>3 DEF TicketRecord
<1>5. t \in WithStatus(Active) => tk[t].status # "MERGED_GREEN"
  BY DEF WithStatus, Active
<1>6. t \in WithStatus(Active) => Carries(tk[t], ForceFailed(t))
  BY <1>2, <1>5 DEF ForceFailed, Carries
<1>7. /\ Carries(tk[t], Refreshed(t))
      /\ Refreshed(t).noted = tk[t].noted /\ Refreshed(t).child = tk[t].child
  <2>1. CASE tk[t].status = "BACKED_OFF" /\ tk[t].backAge >= Backoff
    <3>1. Refreshed(t) = [w EXCEPT !.status = IF DepsSatisfied(t) THEN "PENDING"
                                              ELSE "BLOCKED"]
      BY <1>3, <2>1 DEF Refreshed, w
    <3> QED BY <1>3, <1>4, <2>1, <3>1 DEF Carries
  <2>2. CASE ~(tk[t].status = "BACKED_OFF" /\ tk[t].backAge >= Backoff)
    <3>1. Refreshed(t) = IF tk[t].status \in {"PENDING", "BLOCKED"}
                         THEN [tk[t] EXCEPT !.status = IF DepsSatisfied(t) THEN "PENDING"
                                                       ELSE "BLOCKED"]
                         ELSE tk[t]
      BY <2>2 DEF Refreshed
    <3> QED BY <1>1, <3>1 DEF Carries
  <2> QED BY <2>1, <2>2
<1> QED BY <1>2, <1>6, <1>7 DEF ForceFailed

\* The retry sweep drops a child at most, and touches no green ticket.
LEMMA CarvedCarries ==
    ASSUME NEW r \in TicketRecord, NEW t
    PROVE  /\ Carries(r, CarvedOut(r, t)) /\ CarvedOut(r, t).noted = r.noted
<1>1. r.status = "FAILED" =>
        /\ Carries(r, BackedOff(r)) /\ BackedOff(r).noted = r.noted
        /\ Carries(r, PhantomReset(r)) /\ PhantomReset(r).noted = r.noted
        /\ Carries(r, Abandoned(r)) /\ Abandoned(r).noted = r.noted
  BY DEF TicketRecord, BackedOff, PhantomReset, Abandoned, Carries
<1>2. CASE r.status = "FAILED"
  BY <1>1, <1>2 DEF CarvedOut, Carries
<1>3. CASE r.status # "FAILED"
  BY <1>3 DEF CarvedOut, CarvesPhantom, Carries
<1> QED BY <1>2, <1>3

\* A ticket whose ids are carried over advances.
LEMMA CarriesAdvances ==
    ASSUME NEW t \in Tickets, Carries(tk[t], tk'[t])
    PROVE  Advances(t)
BY AdvancesPlainly DEF Carries

\* The sweep advances every ticket.
LEMMA SweepAdvances ==
    ASSUME NEW f \in [Tickets -> TicketRecord], NEW S, SweepOver(f, S),
           \A t \in Tickets : Carries(tk[t], f[t]) /\ f[t].child = tk[t].child
                                                  /\ f[t].noted = tk[t].noted
    PROVE  \A t \in Tickets : Advances(t)
<1> SUFFICES ASSUME NEW t \in Tickets PROVE Carries(tk[t], tk'[t])
  BY CarriesAdvances
<1>1. tk'[t] = CarvedOut(f[t], t) \/ tk'[t] = f[t]
  BY DEF SweepOver
<1> QED BY <1>1, CarvedCarries DEF Carries

\* The list step carries every ticket over.
LEMMA ListAdvances ==
    ASSUME Typed, NEW ok \in BOOLEAN
    PROVE  /\ AtList(ok) \in [Tickets -> TicketRecord]
           /\ \A t \in Tickets : /\ Carries(tk[t], AtList(ok)[t])
                                 /\ AtList(ok)[t].child = tk[t].child
                                 /\ AtList(ok)[t].noted = tk[t].noted
<1>1. Forced(ok) \subseteq WithStatus(Active)
  BY DEF Forced, Orphans
<1>2. \A t \in Tickets : AtList(ok)[t] \in {ForceFailed(t), Refreshed(t)}
  BY DEF AtList
<1>3. \A t \in Tickets : /\ t \in Forced(ok) => AtList(ok)[t] = ForceFailed(t)
                         /\ t \notin Forced(ok) => AtList(ok)[t] = Refreshed(t)
  BY DEF AtList
<1>4. AtList(ok) \in [Tickets -> TicketRecord]
  BY <1>2, ListedType DEF AtList, Typed
<1> QED BY <1>1, <1>3, <1>4, ForceFailedCarries

\* Every step of the tick advances every ticket.
LEMMA TickAdvances ==
    ASSUME Typed, TodoOpen, MergedOnGitHub(tk, mergedUrls), Tick
    PROVE  \A t \in Tickets : Advances(t)
<1>0. tk \in [Tickets -> TicketRecord]
  BY DEF Typed
<1>1. ASSUME NEW t \in Tickets, NEW r \in TicketRecord, NEW s,
             r.status # "MERGED_GREEN", s # "MERGED_GREEN"
      PROVE  Carries(r, [r EXCEPT !.status = s])
  BY <1>1 DEF TicketRecord, Carries
<1>2. CASE Top
  <2> SUFFICES ASSUME NEW t \in Tickets PROVE Carries(tk[t], tk'[t])
    BY CarriesAdvances
  <2>1. PICK ok \in BOOLEAN : tk' = [u \in Tickets |->
            CASE u \in Forced(ok) -> ForceFailed(u)
              [] tk[u].status \in {"PENDING", "BLOCKED"} ->
                   [tk[u] EXCEPT !.status = IF DepsSatisfied(u) THEN "PENDING"
                                            ELSE "BLOCKED"]
              [] OTHER -> tk[u]]
    BY <1>2 DEF Top
  <2>2. Forced(ok) \subseteq WithStatus(Active)
    BY DEF Forced, Orphans
  <2>3. CASE t \in Forced(ok)
    <3>1. tk[t].status \notin {"PENDING", "BLOCKED"}
      BY <2>2, <2>3 DEF WithStatus, Active
    <3>2. tk'[t] = ForceFailed(t)
      BY <2>1, <2>3, <3>1
    <3> QED BY <2>2, <2>3, <3>2, ForceFailedCarries
  <2>4. CASE t \notin Forced(ok) /\ tk[t].status \in {"PENDING", "BLOCKED"}
    <3> DEFINE s == IF DepsSatisfied(t) THEN "PENDING" ELSE "BLOCKED"
    <3>1. tk'[t] = [tk[t] EXCEPT !.status = s]
      BY <2>1, <2>4
    <3> QED BY <1>0, <1>1, <2>4, <3>1
  <2>5. CASE t \notin Forced(ok) /\ tk[t].status \notin {"PENDING", "BLOCKED"}
    <3>1. tk'[t] = tk[t]
      BY <2>1, <2>5
    <3> QED BY <3>1 DEF Carries
  <2> QED BY <2>3, <2>4, <2>5
<1>3. CASE PollNothing
  BY <1>3, ListAdvances, SweepAdvances DEF PollNothing
<1>4. CASE PollListFails \/ PollList
  <2>1. \E ok \in BOOLEAN : tk' = AtList(ok)
    BY <1>4 DEF PollListFails, PollList
  <2>2. \A t \in Tickets : Carries(tk[t], tk'[t])
    BY <2>1, ListAdvances
  <2> QED BY <2>2, CarriesAdvances
<1>5. CASE PollSweep
  <2>1. \A t \in Tickets : Carries(tk[t], tk[t])
    BY DEF Carries
  <2> QED BY <1>0, <1>5, <2>1, SweepAdvances DEF PollSweep
<1>6. CASE Snapshot
  <2>1. \A r \in TicketRecord : Carries(r, Snapped(r))
    BY DEF TicketRecord, Snapped, Carries
  <2> QED BY <1>0, <1>6, <2>1, CarriesAdvances DEF Snapshot
<1>7. CASE ForcePass
  <2>1. \A r \in TicketRecord : r.status # "MERGED_GREEN" => Carries(r, Abandoned(r))
    BY DEF TicketRecord, Abandoned, Carries
  <2>2. \A t \in Unfinished : tk[t].status # "MERGED_GREEN"
    BY DEF Unfinished, WithStatus, Terminal
  <2>3. \A t \in Tickets : Carries(tk[t], tk'[t])
    BY <1>0, <1>7, <2>1, <2>2 DEF ForcePass, Carries
  <2> QED BY <2>3, CarriesAdvances
<1>8. CASE Coerce
  <2>1. \A t \in Unfinished : tk[t].status # "MERGED_GREEN"
    BY DEF Unfinished, WithStatus, Terminal
  <2>2. \A t \in Tickets : Carries(tk[t], tk'[t])
    BY <1>0, <1>1, <1>8, <2>1 DEF Coerce, Carries
  <2> QED BY <2>2, CarriesAdvances
<1>9. CASE Sleep
  <2>1. \A r \in TicketRecord : Carries(r, Aged(r))
    BY DEF TicketRecord, Aged, Carries
  <2> QED BY <1>0, <1>9, <2>1, CarriesAdvances DEF Sleep
<1>10. CASE EndDispatch \/ PollClaimed \/ ReviewsEnd \/ Finish \/ CancelExit \/ GoOn
             \/ HardStop
  BY <1>10, AdvancesSame DEF EndDispatch, PollClaimed, ReviewsEnd, Finish, CancelExit,
                             GoOn, HardStop
<1> QED BY <1>2, <1>3, <1>4, <1>5, <1>6, <1>7, <1>8, <1>9, <1>10, DispatchAdvances,
           PollAdvances, ReviewAdvances DEF Tick, EndOfTick

-----------------------------------------------------------------------------
(* The lists of a tick stay what they were made as.                        *)

\* A step of one ticket leaves the others alone, and takes its own off the list
\* unless it leaves it alone too.
LEMMA OneTicketStep ==
    ASSUME Typed, NEW t \in Tickets, DispatchTicket(t) \/ PollTicket(t)
    PROVE  /\ pc' = pc /\ todo' \subseteq todo
           /\ \A u \in Tickets : u # t \/ t \in todo' => tk'[u] = tk[u]
<1> USE DEF Typed
<1>1. CASE HoldBack(t) \/ Ss08Acked(t) \/ RefuseDuplicate(t) \/ DispatchRaises(t)
  BY <1>1 DEF HoldBack, Ss08Acked, RefuseDuplicate, DispatchRaises, gateRest,
              dispatchRest
<1>2. CASE Ss08Deferred(t)
  BY <1>2 DEF Ss08Deferred, gateRest
<1>3. CASE SkipHuman(t)
  BY <1>3 DEF SkipHuman, dispatchRest
<1>4. CASE SkipShipped(t)
  BY <1>4 DEF SkipShipped, dispatchRest
<1>5. CASE MergeInherited(t)
  <2>1. Merge(t, TRUE) /\ pc' = pc /\ todo' = todo \ {t}
    BY <1>5 DEF MergeInherited, dispatchRest
  <2>2. PICK r : tk' = [tk EXCEPT ![t] = r]
    BY <2>1, MergeTk
  <2> QED BY <2>1, <2>2
<1>6. CASE AwaitInherited(t)
  <2>1. pc' = pc /\ todo' = todo \ {t}
    BY <1>6 DEF AwaitInherited, dispatchRest
  <2>2. \A u \in Tickets \ {t} : tk'[u] = tk[u]
    BY <1>6 DEF AwaitInherited, ReviewRegistered, AdoptReview, FireReview
  <2> QED BY <2>1, <2>2
<1>7. CASE DispatchChild(t)
  BY <1>7 DEF DispatchChild, dispatchRest
<1>8. CASE PollTicket(t)
  <2>1. pc' = pc /\ todo' = todo \ {t}
    BY <1>8 DEF PollTicket, PollAbandon, PollTimeout, PollPhantom, PollRunning,
                PollFailed, PollGap, PollPr, PollSilent, Leaves, pollRest
  <2>2. CASE PollAbandon(t) \/ PollTimeout(t) \/ PollPhantom(t) \/ PollRunning(t)
    BY <2>1, <2>2 DEF PollAbandon, PollTimeout, PollPhantom, PollRunning
  <2>3. CASE PollFailed(t) \/ PollGap(t) \/ PollPr(t) \/ PollSilent(t)
    BY <2>1, <2>3 DEF PollFailed, PollGap, PollPr, PollSilent
  <2> QED BY <1>8, <2>2, <2>3 DEF PollTicket
<1> QED BY <1>1, <1>2, <1>3, <1>4, <1>5, <1>6, <1>7, <1>8 DEF DispatchTicket

\* Satisfied dependencies stay satisfied.
LEMMA DepsStay ==
    ASSUME NEW t, DepsSatisfied(t), \A u \in Tickets : Advances(u)
    PROVE  DepsSatisfied(t)'
BY DEF DepsSatisfied, Advances

\* The lists of a tick hold what they were made to hold until they are used.
LEMMA TodoTick ==
    ASSUME Typed, TodoOpen, todo \subseteq Tickets, Tick,
           \A t \in Tickets : Advances(t)
    PROVE  TodoOpen'
<1>1. CASE Top
  <2>1. PICK ok \in BOOLEAN :
          /\ tk' = [u \in Tickets |->
                CASE u \in Forced(ok) -> ForceFailed(u)
                  [] tk[u].status \in {"PENDING", "BLOCKED"} ->
                       [tk[u] EXCEPT !.status = IF DepsSatisfied(u) THEN "PENDING"
                                                ELSE "BLOCKED"]
                  [] OTHER -> tk[u]]
          /\ todo' = Ready(ok)
    BY <1>1 DEF Top
  <2> SUFFICES ASSUME NEW t \in todo'
               PROVE  tk'[t].status = "PENDING" /\ DepsSatisfied(t)'
    BY <1>1 DEF Top, TodoOpen
  <2>2. t \in Tickets /\ tk[t].status \in {"PENDING", "BLOCKED"} /\ DepsSatisfied(t)
    BY <2>1 DEF Ready, WithStatus
  <2>3. t \notin Forced(ok)
    BY <2>2 DEF Forced, Orphans, WithStatus, Active
  <2>4. tk'[t] = [tk[t] EXCEPT !.status = "PENDING"]
    BY <2>1, <2>2, <2>3
  <2>5. tk[t] \in TicketRecord
    BY <2>2 DEF Typed
  <2> QED BY <2>2, <2>4, <2>5, DepsStay DEF TicketRecord
<1>2. CASE EndDispatch \/ PollNothing \/ PollListFails \/ PollSweep \/ ReviewsEnd
             \/ HardStop \/ Snapshot \/ EndOfTick \/ Sleep
  BY <1>2 DEF EndDispatch, PollNothing, PollListFails, PollSweep, ReviewsEnd, HardStop,
              Snapshot, EndOfTick, ForcePass, Finish, CancelExit, Coerce, GoOn, Sleep, TodoOpen
<1>3. CASE PollList
  BY <1>3 DEF PollList, WithChild, TodoOpen
<1>4. CASE PollClaimed
  BY <1>4 DEF PollClaimed, TodoOpen
<1>5. ASSUME NEW t \in Tickets, DispatchTicket(t) \/ PollTicket(t)
      PROVE  TodoOpen'
  <2>1. /\ pc' = pc /\ todo' \subseteq todo
        /\ \A u \in todo' : tk'[u] = tk[u]
    BY <1>5, OneTicketStep
  <2>2. \A u \in todo' : DepsSatisfied(u) => DepsSatisfied(u)'
    BY DepsStay
  <2> QED BY <2>1, <2>2 DEF TodoOpen
<1>6. ASSUME NEW t \in Tickets, ReviewTicket(t) PROVE TodoOpen'
  BY <1>6 DEF ReviewTicket, ReviewApproved, ReviewTriage, ReviewExhausted, ReviewHuman,
              ReviewRespawn, RespawnRaises, ReviewSilent, FixRound, FixWanted,
              ChangesWanted, Eligible, reviewRest, TodoOpen
<1> QED BY <1>1, <1>2, <1>3, <1>4, <1>5, <1>6 DEF Tick

-----------------------------------------------------------------------------
(* A merge on GitHub is for good, and is recorded only after it happened.  *)

GhKept ==
    /\ \A t \in Tickets : gh[t] = "merged" => gh'[t] = "merged"
    /\ \A t \in mergedUrls' : t \in mergedUrls \/ gh'[t] = "merged"

\* A merge attempt undoes no merge and records none that did not happen.
LEMMA MergeKeepsGh ==
    ASSUME Typed, NEW t \in Tickets, NEW known, Merge(t, known)
    PROVE  GhKept
BY DEF Merge, MergeLands, MergeRefused, MergeUnacknowledged, GhKept, Typed, WorldOK

\* No step of the tick undoes a merge or records one that did not happen.
LEMMA GhTick ==
    ASSUME Typed, Tick
    PROVE  GhKept
<1>0. UNCHANGED <<gh, mergedUrls>> => GhKept
  BY DEF GhKept
<1>1. CASE Top \/ EndDispatch \/ ReviewsEnd \/ HardStop \/ Snapshot \/ EndOfTick
             \/ Sleep
  BY <1>0, <1>1 DEF Top, EndDispatch, ReviewsEnd, HardStop, Snapshot, EndOfTick, ForcePass,
              Finish, CancelExit, Coerce, GoOn, Sleep, tailRest, world
<1>2. CASE PollNothing \/ PollListFails \/ PollList \/ PollClaimed \/ PollSweep
  BY <1>0, <1>2 DEF PollNothing, PollListFails, PollList, PollClaimed, PollSweep,
                    listRest, world
<1>3. ASSUME NEW t \in Tickets, DispatchTicket(t) PROVE GhKept
  <2>1. CASE MergeInherited(t)
    BY <2>1, MergeKeepsGh DEF MergeInherited
  <2>2. CASE ~MergeInherited(t)
    BY <1>0, <1>3, <2>2
       DEF DispatchTicket, HoldBack, Ss08Acked, Ss08Deferred, SkipHuman, SkipShipped,
           AwaitInherited, RefuseDuplicate, DispatchChild, DispatchRaises, gateRest,
           world
  <2> QED BY <2>1, <2>2
<1>4. ASSUME NEW t \in Tickets, PollTicket(t) PROVE GhKept
  BY <1>0, <1>4 DEF PollTicket, PollAbandon, PollTimeout, PollPhantom, PollRunning,
                    PollFailed, PollGap, PollPr, PollSilent, pollRest
<1>5. ASSUME NEW t \in Tickets, ReviewTicket(t) PROVE GhKept
  <2>1. CASE ReviewApproved(t)
    BY <2>1, MergeKeepsGh DEF ReviewApproved
  <2>2. CASE ~ReviewApproved(t)
    BY <1>0, <1>5, <2>2
       DEF ReviewTicket, ReviewTriage, ReviewExhausted, ReviewHuman, ReviewRespawn,
           RespawnRaises, ReviewSilent
  <2> QED BY <2>1, <2>2
<1> QED BY <1>1, <1>2, <1>3, <1>4, <1>5 DEF Tick

\* Tickets are dispatched from the list made at the top of the tick, and nothing
\* turns green between the end of a tick and the next list.
LEMMA DispatchOnward ==
    ASSUME Typed, Tick
    PROVE  Top \/ pc' # "dispatch" \/ (pc = "dispatch" /\ todo' \subseteq todo)
<1>1. CASE EndDispatch \/ PollNothing \/ PollListFails \/ PollList \/ PollClaimed
             \/ PollSweep \/ ReviewsEnd \/ HardStop \/ Snapshot \/ EndOfTick \/ Sleep
  BY <1>1 DEF EndDispatch, PollNothing, PollListFails, PollList, PollClaimed, PollSweep,
              ReviewsEnd, HardStop, Snapshot, EndOfTick, ForcePass, Finish, CancelExit,
              Coerce, GoOn, Sleep
<1>2. ASSUME NEW t \in Tickets, DispatchTicket(t) \/ PollTicket(t)
      PROVE  pc' # "dispatch" \/ (pc = "dispatch" /\ todo' \subseteq todo)
  BY <1>2, OneTicketStep
<1>3. ASSUME NEW t \in Tickets, ReviewTicket(t) PROVE pc' # "dispatch"
  BY <1>3 DEF ReviewTicket, ReviewApproved, ReviewTriage, ReviewExhausted, ReviewHuman,
              ReviewRespawn, RespawnRaises, ReviewSilent, FixRound, FixWanted,
              ChangesWanted, Eligible, reviewRest
<1> QED BY <1>1, <1>2, <1>3 DEF Tick

LEMMA TailOnward ==
    ASSUME tk \in [Tickets -> TicketRecord], Tick, pc' \in {"tail", "sleep", "top"},
           ~Snapshot
    PROVE  /\ pc \in {"tail", "sleep", "top"}
           /\ \A t \in Tickets : tk'[t].status = tk[t].status
<1>1. CASE Top \/ EndDispatch \/ PollNothing \/ PollListFails \/ PollList \/ PollClaimed
             \/ PollSweep \/ ReviewsEnd \/ HardStop
  BY <1>1 DEF Top, EndDispatch, PollNothing, PollListFails, PollList, PollClaimed,
              PollSweep, ReviewsEnd, HardStop
<1>2. CASE EndOfTick
  BY <1>2 DEF EndOfTick, ForcePass, Finish, CancelExit, Coerce, GoOn, StaysOn, Moving,
              Sample
<1>3. CASE Sleep
  <2>1. \A r \in TicketRecord : Aged(r).status = r.status
    BY DEF Aged, TicketRecord
  <2> QED BY <1>3, <2>1 DEF Sleep
<1>4. ASSUME NEW t \in Tickets, DispatchTicket(t) PROVE FALSE
  <2>1. pc' = "dispatch"
    BY <1>4 DEF DispatchTicket, HoldBack, Ss08Acked, Ss08Deferred, SkipHuman, SkipShipped,
                MergeInherited, AwaitInherited, RefuseDuplicate, DispatchChild,
                DispatchRaises, Undispatched, NotShipped, Dispatchable, Considered,
                Candidate, dispatchRest, gateRest
  <2> QED BY <2>1
<1>5. ASSUME NEW t \in Tickets, PollTicket(t) PROVE FALSE
  BY <1>5 DEF PollTicket, PollAbandon, PollTimeout, PollPhantom, PollRunning, PollFailed,
              PollGap, PollPr, PollSilent, Polled, pollRest
<1>6. ASSUME NEW t \in Tickets, ReviewTicket(t) PROVE FALSE
  BY <1>6 DEF ReviewTicket, ReviewApproved, ReviewTriage, ReviewExhausted, ReviewHuman,
              ReviewRespawn, RespawnRaises, ReviewSilent, FixRound, FixWanted,
              ChangesWanted, Eligible, reviewRest
<1> QED BY <1>1, <1>2, <1>3, <1>4, <1>5, <1>6 DEF Tick

\* Nor does a move of the world.
LEMMA GhWorld ==
    ASSUME Typed, World
    PROVE  GhKept
<1>0. UNCHANGED mergedUrls
  BY DEF World, LabelHuman, KidClaimed, KidOpensPr, KidEnds, KidLost, ReviewEnds,
         outside, mem
<1>1. \A t \in Tickets : PrOpened(t) =>
          \A u \in Tickets : gh[u] = "merged" => gh'[u] = "merged"
  BY DEF PrOpened, Typed, WorldOK
<1>2. ASSUME NEW t \in Tickets, gh[t] = "open", gh' = [gh EXCEPT ![t] = "approved"]
      PROVE  \A u \in Tickets : gh[u] = "merged" => gh'[u] = "merged"
  BY <1>2 DEF Typed, WorldOK
<1>3. \/ UNCHANGED gh
      \/ \E t \in Tickets : \/ PrOpened(t)
                            \/ gh[t] = "open" /\ gh' = [gh EXCEPT ![t] = "approved"]
  BY DEF World, LabelHuman, KidClaimed, KidOpensPr, KidEnds, KidLost, ReviewEnds
<1> QED BY <1>0, <1>1, <1>2, <1>3 DEF GhKept

-----------------------------------------------------------------------------
(* The invariant.                                                          *)

\* A hydrated run satisfies the invariant.
LEMMA SafeInit == Init => SafeInv
<1> SUFFICES ASSUME Init PROVE SafeInv
  OBVIOUS
<1>1. Shape
  BY ShapeInit
<1>2. ~saved.valid /\ ~snap.valid
  BY DEF Init, NoCheckpoint
<1>3. \A t \in Tickets : tk[t].child = 0 /\ tk[t].noted = 0 /\ tk[t].review = 0
  BY DEF Init, NewTicket
<1>4. IdsKnown(tk) /\ Built(tk)
  BY <1>1, <1>3 DEF IdsKnown, Built, HasTask, Shape, WorldOK
<1>5. TodoOpen
  BY DEF Init, TodoOpen
<1>6. MergedOnGitHub(tk, mergedUrls)
  BY DEF Init, MergedOnGitHub
<1> QED BY <1>1, <1>2, <1>4, <1>5, <1>6 DEF SafeInv

\* What holds of the graph, and what a restart would read back, after a step that
\* advances every ticket and grows the world.
LEMMA GraphKept ==
    ASSUME SafeInv, Shape', Grown, GhKept, \A t \in Tickets : Advances(t)
    PROVE  IdsKnown(tk)' /\ Built(tk)' /\ MergedOnGitHub(tk, mergedUrls)'
<1>0. /\ \A t \in Tickets : /\ tk[t] \in TicketRecord /\ tk'[t] \in TicketRecord
                            /\ Len(kids[t]) \in Nat /\ Len(kids'[t]) \in Nat
                            /\ Len(revs[t]) \in Nat /\ Len(revs'[t]) \in Nat
                            /\ DOMAIN revs[t] = 1..Len(revs[t])
  BY DEF SafeInv, Shape, WorldOK
<1>1. \A t \in Tickets : /\ tk[t].child \in Nat /\ tk[t].noted \in Nat
                         /\ tk[t].review \in Nat
  BY <1>0 DEF TicketRecord
<1>2. IdsKnown(tk)'
  <2> SUFFICES ASSUME NEW t \in Tickets
               PROVE  /\ tk'[t].child <= Len(kids'[t]) /\ tk'[t].noted <= Len(kids'[t])
                      /\ tk'[t].review <= Len(revs'[t])
    BY DEF IdsKnown
  <2>1. /\ tk[t].child <= Len(kids[t]) /\ tk[t].noted <= Len(kids[t])
        /\ tk[t].review <= Len(revs[t])
    BY DEF SafeInv, IdsKnown
  <2>2. Len(kids[t]) <= Len(kids'[t]) /\ Len(revs[t]) <= Len(revs'[t])
    BY DEF Grown
  <2>3. tk'[t].child \in {0, tk[t].child, Len(kids'[t])}
    BY DEF Advances
  <2>4. tk'[t].noted \in {tk[t].noted, tk[t].child}
    BY DEF Advances
  <2>5. tk'[t].review \in {0, tk[t].review, Len(revs'[t])} \cup (1..Len(revs[t]))
    BY <1>0 DEF Advances
  <2>6. /\ tk[t].child \in Nat /\ tk[t].noted \in Nat /\ tk[t].review \in Nat
        /\ Len(kids[t]) \in Nat /\ Len(kids'[t]) \in Nat
        /\ Len(revs[t]) \in Nat /\ Len(revs'[t]) \in Nat
    BY <1>0, <1>1
  <2>7. tk'[t].child <= Len(kids'[t])
    BY <2>1, <2>2, <2>3, <2>6
  <2>8. tk'[t].noted <= Len(kids'[t])
    BY <2>1, <2>2, <2>4, <2>6
  <2>9. tk'[t].review <= Len(revs'[t])
    BY <2>1, <2>2, <2>5, <2>6
  <2> QED BY <2>7, <2>8, <2>9
<1>3. Built(tk)'
  BY DEF SafeInv, Built, Advances, DepsSatisfied
<1>4. MergedOnGitHub(tk, mergedUrls)'
  <2>1. mergedUrls' \subseteq Tickets
    BY DEF Shape, MemOK
  <2>2. \A t \in Tickets : tk'[t].status = "MERGED_GREEN" => gh'[t] = "merged"
    BY DEF SafeInv, MergedOnGitHub, Advances, GhKept
  <2>3. \A t \in mergedUrls' : gh'[t] = "merged"
    BY <2>1 DEF SafeInv, MergedOnGitHub, GhKept
  <2> QED BY <2>2, <2>3 DEF MergedOnGitHub
<1> QED BY <1>2, <1>3, <1>4

\* The invariant of a graph f and merge record urls, once a step has been taken.
HoldsAfter(f, urls) ==
    /\ \A t \in Tickets : /\ f[t].child <= Len(kids'[t]) /\ f[t].noted <= Len(kids'[t])
                          /\ f[t].review <= Len(revs'[t])
    /\ Built(f)
    /\ \A t \in Tickets : f[t].status = "MERGED_GREEN" => gh'[t] = "merged"
    /\ \A t \in urls : gh'[t] = "merged"

\* A copy that is left alone stays good: ids and merges only grow.
LEMMA CopyKept ==
    ASSUME WorldOK, WorldOK', Grown, GhKept,
           NEW f \in [Tickets -> TicketRecord], NEW urls \in SUBSET Tickets,
           IdsKnown(f), Built(f), MergedOnGitHub(f, urls)
    PROVE  HoldsAfter(f, urls)
<1>1. \A t \in Tickets : /\ f[t].child \in Nat /\ f[t].noted \in Nat /\ f[t].review \in Nat
                         /\ Len(kids[t]) \in Nat /\ Len(kids'[t]) \in Nat
                         /\ Len(revs[t]) \in Nat /\ Len(revs'[t]) \in Nat
  BY DEF TicketRecord, WorldOK
<1>2. \A t \in Tickets : /\ f[t].child <= Len(kids'[t]) /\ f[t].noted <= Len(kids'[t])
                         /\ f[t].review <= Len(revs'[t])
  BY <1>1 DEF IdsKnown, Grown
<1>3. /\ \A t \in Tickets : f[t].status = "MERGED_GREEN" => gh'[t] = "merged"
      /\ \A t \in urls : gh'[t] = "merged"
  BY DEF MergedOnGitHub, GhKept
<1> QED BY <1>2, <1>3 DEF HoldsAfter

\* The checkpoint and the snapshot have the types a valid one has.
CopiesTyped ==
    /\ saved.valid => saved \in CheckpointRecord
    /\ snap.valid => snap \in SnapshotRecord
LEMMA TypedCopies == SavedOK => CopiesTyped
BY NoCheckpointInvalid, NoSnapshotInvalid DEF SavedOK, CopiesTyped

CopiesAfter ==
    /\ saved'.valid => HoldsAfter(saved'.tk, saved'.mergedUrls)
    /\ snap'.valid => HoldsAfter(snap'.tk, {})

\* A copy that has the ids, tasks and statuses of a good one is good.
LEMMA AlikeGood ==
    ASSUME NEW f, NEW g, NEW urls, HoldsAfter(f, urls),
           \A t \in Tickets :
              /\ g[t].child \in {f[t].child, f[t].noted}
              /\ g[t].noted = f[t].noted /\ g[t].review = f[t].review
              /\ g[t].status = f[t].status
    PROVE  HoldsAfter(g, urls)
BY DEF HoldsAfter, Built, HasTask

\* Copies that are left alone stay good.
LEMMA CopiesKept ==
    ASSUME SafeInv, Shape', Grown, GhKept
    PROVE  /\ saved.valid => HoldsAfter(saved.tk, saved.mergedUrls)
           /\ snap.valid => HoldsAfter(snap.tk, {})
<1>1. CopiesTyped /\ WorldOK /\ WorldOK'
  BY TypedCopies DEF SafeInv, Shape
<1>2. ASSUME saved.valid PROVE HoldsAfter(saved.tk, saved.mergedUrls)
  <2>1. saved.tk \in [Tickets -> TicketRecord] /\ saved.mergedUrls \in SUBSET Tickets
    BY <1>1, <1>2 DEF CopiesTyped, CheckpointRecord
  <2> QED BY <1>1, <1>2, <2>1, CopyKept DEF SafeInv
<1>3. ASSUME snap.valid PROVE HoldsAfter(snap.tk, {})
  <2>1. snap.tk \in [Tickets -> TicketRecord]
    BY <1>1, <1>3 DEF CopiesTyped, SnapshotRecord
  <2> QED BY <1>1, <1>3, <2>1, CopyKept DEF SafeInv
<1> QED BY <1>2, <1>3

\* The state stored in the middle of a tick: of each ticket the snapshot, and the
\* review it has now.
LEMMA StoresWhat ==
    ASSUME Shape, Stores
    PROVE  /\ saved'.valid /\ saved'.mergedUrls = mergedUrls
           /\ \A t \in Tickets :
                 saved'.tk[t] = [snap.tk[t] EXCEPT !.review = tk[t].review]
           /\ UNCHANGED <<kids, revs, gh, human, mergedUrls, streak, ledger, crashes>>
           /\ \A t \in Tickets : tk'[t].review = tk[t].review
           /\ pc' = pc
<1>1. /\ saved'.valid /\ saved'.mergedUrls = mergedUrls
      /\ \A t \in Tickets : saved'.tk[t] = [snap.tk[t] EXCEPT !.review = tk[t].review]
  BY DEF Stores, MidTick
<1>2. CASE HardStop
  BY <1>1, <1>2 DEF HardStop, world
<1>3. ASSUME NEW t \in Tickets, Ss08Acked(t) \/ Ss08Deferred(t)
      PROVE  /\ UNCHANGED <<kids, revs, gh, human, mergedUrls, streak, ledger, crashes>>
             /\ \A u \in Tickets : tk'[u].review = tk[u].review
             /\ pc' = pc
  <2>1. UNCHANGED <<pc, kids, revs, gh, human, mergedUrls, streak, ledger, crashes>>
    BY <1>3 DEF Ss08Acked, Ss08Deferred, gateRest, world
  <2>2. tk' = tk \/ tk' = [tk EXCEPT ![t].status = "FAILED"]
    BY <1>3 DEF Ss08Acked, Ss08Deferred
  <2>3. \A u \in Tickets : tk[u] \in TicketRecord /\ u \in DOMAIN tk
    BY DEF Shape
  <2>4. \A u \in Tickets : tk'[u].review = tk[u].review
    BY <2>2, <2>3 DEF TicketRecord
  <2> QED BY <2>1, <2>4
<1> QED BY <1>1, <1>2, <1>3 DEF Stores

\* What the snapshot keeps of a ticket.
LEMMA PersistedKeeps ==
    \A r \in TicketRecord :
       /\ Persisted(r).child = r.noted /\ Persisted(r).noted = r.noted
       /\ Persisted(r).review = r.review /\ Persisted(r).status = r.status
BY DEF Persisted, NewTicket, TicketRecord

\* Every step of the tick leaves good copies.
LEMMA CopiesTick ==
    ASSUME SafeInv, Shape', Grown, GhKept, \A t \in Tickets : Advances(t), Tick
    PROVE  CopiesAfter
<1>0. HoldsAfter(tk', mergedUrls')
  BY GraphKept DEF HoldsAfter, IdsKnown, Built, MergedOnGitHub
<1>1. /\ saved.valid => HoldsAfter(saved.tk, saved.mergedUrls)
      /\ snap.valid => HoldsAfter(snap.tk, {})
  BY CopiesKept
<1>2. CopiesTyped /\ MemOK
  BY TypedCopies DEF SafeInv, Shape
<1>3. CASE UNCHANGED <<snap, saved>>
  BY <1>1, <1>3 DEF CopiesAfter
<1>4. CASE Stores /\ UNCHANGED snap
  <2>1. /\ saved'.valid /\ saved'.mergedUrls = mergedUrls
        /\ \A t \in Tickets : saved'.tk[t] = [snap.tk[t] EXCEPT !.review = tk[t].review]
        /\ \A t \in Tickets : tk'[t].review = tk[t].review
        /\ UNCHANGED mergedUrls
    BY <1>4, StoresWhat DEF SafeInv
  <2>2. snap.valid /\ snap.tk \in [Tickets -> TicketRecord]
    BY <1>2, <1>4 DEF Stores, CopiesTyped, SnapshotRecord
  <2>3. \A t \in Tickets :
           /\ saved'.tk[t].child = snap.tk[t].child /\ saved'.tk[t].noted = snap.tk[t].noted
           /\ saved'.tk[t].review = tk'[t].review
           /\ saved'.tk[t].status = snap.tk[t].status
    <3> TAKE t \in Tickets
    <3>1. snap.tk[t] \in TicketRecord
      BY <2>2
    <3>2. saved'.tk[t] = [snap.tk[t] EXCEPT !.review = tk[t].review]
      BY <2>1
    <3>3. tk'[t].review = tk[t].review
      BY <2>1
    <3> QED BY <3>1, <3>2, <3>3 DEF TicketRecord
  <2>4. ASSUME NEW t \in Tickets, HasTask(saved'.tk[t])
        PROVE  \A d \in BlocksIn[t] \cap Tickets : saved'.tk[d].status = "MERGED_GREEN"
    <3>1. HasTask(snap.tk[t]) \/ HasTask(tk[t])
      BY <2>1, <2>3, <2>4 DEF HasTask
    <3>2. GreenThen(t)
      BY <1>1, <2>2, <3>1 DEF HoldsAfter, Built, SafeInv, OnSnapshot, GreenThen
    <3> QED BY <2>3, <3>2 DEF GreenThen
  <2>5. HoldsAfter(saved'.tk, saved'.mergedUrls)
    BY <1>0, <1>1, <2>1, <2>2, <2>3, <2>4 DEF HoldsAfter, Built
  <2> QED BY <1>1, <1>4, <2>5 DEF CopiesAfter
<1>5. CASE /\ Snapshot /\ snap' = SnapshotNow
           /\ saved' = Checkpoint(snap') \/ UNCHANGED saved
  <2>1. \A t \in Tickets : tk'[t] \in TicketRecord
    BY DEF Shape
  <2>2. snap'.tk = [t \in Tickets |-> Persisted(tk'[t])]
    BY <1>5 DEF SnapshotNow
  <2>3. HoldsAfter(snap'.tk, mergedUrls')
    BY <1>0, <2>1, <2>2, PersistedKeeps, AlikeGood
  <2>4. HoldsAfter(snap'.tk, {})
    BY <2>3 DEF HoldsAfter
  <2>5. UNCHANGED mergedUrls
    BY <1>5 DEF Snapshot
  <2>6. CASE saved' = Checkpoint(snap')
    <3>1. saved'.tk = snap'.tk /\ saved'.mergedUrls = mergedUrls'
      BY <2>5, <2>6 DEF Checkpoint
    <3> QED BY <2>3, <2>4, <3>1 DEF CopiesAfter
  <2> QED BY <1>1, <1>5, <2>4, <2>6 DEF CopiesAfter
<1>6. CASE Sleep /\ snap' = AgedCopy(snap) /\ saved' = AgedCopy(saved)
  <2>1. \A r \in TicketRecord :
           /\ Aged(r).child = r.child /\ Aged(r).noted = r.noted
           /\ Aged(r).review = r.review /\ Aged(r).status = r.status
    BY DEF Aged, TicketRecord
  <2>2. ASSUME saved'.valid PROVE HoldsAfter(saved'.tk, saved'.mergedUrls)
    <3>1. saved.valid
      BY <1>6, <2>2 DEF AgedCopy
    <3>2. saved'.tk = [t \in Tickets |-> Aged(saved.tk[t])]
          /\ saved'.mergedUrls = saved.mergedUrls
      BY <1>2, <1>6, <3>1 DEF AgedCopy, CopiesTyped, CheckpointRecord
    <3>3. \A t \in Tickets : saved.tk[t] \in TicketRecord
      BY <1>2, <3>1 DEF CopiesTyped, CheckpointRecord
    <3> QED BY <1>1, <2>1, <3>1, <3>2, <3>3, AlikeGood
  <2>3. ASSUME snap'.valid PROVE HoldsAfter(snap'.tk, {})
    <3>1. snap.valid
      BY <1>6, <2>3 DEF AgedCopy
    <3>2. snap'.tk = [t \in Tickets |-> Aged(snap.tk[t])]
      BY <1>2, <1>6, <3>1 DEF AgedCopy, CopiesTyped, SnapshotRecord
    <3>3. \A t \in Tickets : snap.tk[t] \in TicketRecord
      BY <1>2, <3>1 DEF CopiesTyped, SnapshotRecord
    <3> QED BY <1>1, <2>1, <3>1, <3>2, <3>3, AlikeGood
  <2> QED BY <2>2, <2>3 DEF CopiesAfter
<1> QED BY <1>2, <1>3, <1>4, <1>5, <1>6, StoresTick

\* The snapshot stays what the tickets were started on.
LEMMA OnSnapshotTick ==
    ASSUME SafeInv, Shape', \A t \in Tickets : Advances(t), Tick, snap'.valid
    PROVE  OnSnapshot'
<1>0. CopiesTyped /\ MemOK /\ Typed /\ crashes' = crashes
  BY TypedCopies, CountersTick DEF SafeInv, Shape, Typed, MemOK
<1>1. CASE /\ Snapshot /\ snap' = SnapshotNow
           /\ saved' = Checkpoint(snap') \/ UNCHANGED saved
  <2>1. \A t \in Tickets : tk'[t] \in TicketRecord
    BY DEF Shape
  <2>2. \A t \in Tickets : snap'.tk[t].status = tk'[t].status
    BY <1>1, <2>1, PersistedKeeps DEF SnapshotNow
  <2>3. pc' = "tail"
    BY <1>1 DEF Snapshot
  <2>4. crashes < MaxCrashes
    <3>1. crashes < MaxCrashes \/ (crashes = MaxCrashes /\ UNCHANGED snap)
      BY <1>1 DEF Snapshot
    <3> QED BY <3>1 DEF SafeInv, OnSnapshot
  <2>5. \A t \in Tickets : HasTask(tk'[t]) => HasTask(tk[t])
    BY <1>1 DEF Snapshot, Advances
  <2>6. \A t \in Tickets : tk[t].status = "MERGED_GREEN" => tk'[t].status = "MERGED_GREEN"
    BY DEF Advances
  <2> QED BY <1>0, <2>2, <2>3, <2>4, <2>5, <2>6
          DEF OnSnapshot, GreenThen, SafeInv, Built
<1>2. ASSUME snap.valid, \A t \in Tickets : snap'.tk[t].status = snap.tk[t].status,
             ~Snapshot
      PROVE  OnSnapshot'
  <2>1. OnSnapshot
    BY <1>2 DEF SafeInv
  <2>2. \A t \in Tickets : HasTask(tk'[t]) => GreenThen(t)
    BY <2>1 DEF OnSnapshot, Advances
  <2>3. pc' = "dispatch" => \A t \in todo' \cap Tickets : GreenThen(t)
    <3>1. CASE Top
      <4>1. \E ok \in BOOLEAN : todo' = Ready(ok)
        BY <3>1 DEF Top
      <4>2. \A t \in todo' : DepsSatisfied(t)
        BY <4>1 DEF Ready
      <4>3. \A t \in Tickets :
               tk[t].status = "MERGED_GREEN" => snap.tk[t].status = "MERGED_GREEN"
        BY <2>1, <3>1 DEF OnSnapshot, Top
      <4> QED BY <4>2, <4>3 DEF DepsSatisfied, GreenThen
    <3>2. CASE pc = "dispatch" /\ todo' \subseteq todo
      BY <2>1, <3>2 DEF OnSnapshot
    <3>3. Top \/ pc' # "dispatch" \/ (pc = "dispatch" /\ todo' \subseteq todo)
      BY <1>0, DispatchOnward
    <3> QED BY <3>1, <3>2, <3>3
  <2>4. pc' \in {"tail", "sleep", "top"} => \A t \in Tickets :
          tk'[t].status = "MERGED_GREEN" => snap.tk[t].status = "MERGED_GREEN"
    BY <1>0, <1>2, <2>1, TailOnward DEF OnSnapshot, Typed
  <2> QED BY <1>0, <1>2, <2>1, <2>2, <2>3, <2>4 DEF OnSnapshot, GreenThen
<1>3. CASE UNCHANGED <<snap, saved>> \/ (Stores /\ UNCHANGED snap)
  <2>1. CASE ~Snapshot
    BY <1>2, <1>3, <2>1
  <2>2. CASE Snapshot
    <3>1. /\ crashes = MaxCrashes \/ snap' = SnapshotNow
          /\ saved' = Checkpoint(snap') \/ UNCHANGED saved
      BY <2>2 DEF Snapshot
    <3>2. crashes < MaxCrashes /\ crashes \in Nat /\ MaxCrashes \in Nat
      BY <1>3, WaveAssumption DEF SafeInv, OnSnapshot, Shape, SavedOK, WaveAssumption
    <3> QED BY <1>1, <2>2, <3>1, <3>2
  <2> QED BY <2>1, <2>2
<1>4. CASE Sleep /\ snap' = AgedCopy(snap) /\ saved' = AgedCopy(saved)
  <2>1. snap.valid
    BY <1>4 DEF AgedCopy
  <2>2. snap'.tk = [t \in Tickets |-> Aged(snap.tk[t])]
    BY <1>0, <1>4, <2>1 DEF AgedCopy, CopiesTyped, SnapshotRecord
  <2>3. \A t \in Tickets : snap'.tk[t].status = snap.tk[t].status
    <3>1. \A r \in TicketRecord : Aged(r).status = r.status
      BY DEF Aged, TicketRecord
    <3>2. \A t \in Tickets : snap.tk[t] \in TicketRecord
      BY <1>0, <2>1 DEF CopiesTyped, SnapshotRecord
    <3> QED BY <2>2, <3>1, <3>2
  <2> QED BY <1>2, <1>4, <2>1, <2>3 DEF Sleep, Snapshot
<1> QED BY <1>0, <1>1, <1>3, <1>4, StoresTick

\* A restart from a good checkpoint satisfies the invariant.
LEMMA SafeCrash ==
    ASSUME SafeInv, CrashAndResume
    PROVE  SafeInv'
<1>1. Shape'
  BY ShapeCrash DEF SafeInv
<1>2. Grown
  BY CrashWorld DEF SafeInv, Shape
<1>3. /\ saved \in CheckpointRecord /\ saved.valid
      /\ tk' = saved.tk /\ mergedUrls' = saved.mergedUrls /\ UNCHANGED <<gh, revs>>
      /\ pc' = "top"
      /\ \/ saved' = saved /\ snap'.tk = saved.tk /\ crashes' < MaxCrashes
         \/ saved' = NoCheckpoint /\ snap' = NoCheckpoint
  BY NoCheckpointInvalid DEF SafeInv, Shape, SavedOK, CrashAndResume
<1>4. \A t \in Tickets : /\ saved.tk[t] \in TicketRecord
                         /\ Len(kids[t]) \in Nat /\ Len(kids'[t]) \in Nat
                         /\ Len(revs[t]) \in Nat /\ Len(revs'[t]) \in Nat
  BY <1>1, <1>3 DEF CheckpointRecord, SafeInv, Shape, WorldOK
<1>5. \A t \in Tickets : saved.tk[t].child \in Nat /\ saved.tk[t].noted \in Nat
                         /\ saved.tk[t].review \in Nat
  BY <1>4 DEF TicketRecord
<1>6. HoldsAfter(saved.tk, saved.mergedUrls)
  BY <1>2, <1>3, <1>4, <1>5
     DEF SafeInv, IdsKnown, MergedOnGitHub, HoldsAfter, Grown
<1>7. IdsKnown(tk)' /\ Built(tk)' /\ MergedOnGitHub(tk, mergedUrls)'
  BY <1>3, <1>6 DEF HoldsAfter, IdsKnown, Built, MergedOnGitHub
<1>8. saved'.valid => /\ IdsKnown(saved.tk)' /\ Built(saved.tk)'
                      /\ MergedOnGitHub(saved.tk, saved.mergedUrls)'
  BY <1>3, <1>6 DEF HoldsAfter, IdsKnown, Built, MergedOnGitHub, NoCheckpoint
<1>9. TodoOpen'
  BY <1>3 DEF TodoOpen
<1>10. ASSUME snap'.valid
       PROVE  /\ IdsKnown(snap.tk)' /\ Built(snap.tk)' /\ MergedOnGitHub(snap.tk, {})'
              /\ OnSnapshot'
  <2>1. snap'.tk = saved.tk /\ crashes' < MaxCrashes
    BY <1>3, <1>10 DEF NoCheckpoint
  <2>2. IdsKnown(snap.tk)' /\ Built(snap.tk)' /\ MergedOnGitHub(snap.tk, {})'
    BY <1>6, <2>1 DEF HoldsAfter, IdsKnown, Built, MergedOnGitHub
  <2>3. OnSnapshot'
    BY <1>3, <1>6, <2>1 DEF HoldsAfter, Built, OnSnapshot, GreenThen
  <2> QED BY <2>2, <2>3
<1> QED BY <1>1, <1>7, <1>8, <1>9, <1>10 DEF SafeInv

\* Every step of the tick keeps the invariant.
LEMMA SafeTick ==
    ASSUME SafeInv, Tick
    PROVE  SafeInv'
<1>1. Shape'
  BY ShapeStep DEF SafeInv, Next
<1>2. Typed /\ TodoOpen /\ MergedOnGitHub(tk, mergedUrls) /\ todo \subseteq Tickets
  BY DEF SafeInv, Shape, Typed, MemOK, LocalOK
<1>3. \A t \in Tickets : Advances(t)
  BY <1>2, TickAdvances
<1>4. TodoOpen'
  BY <1>2, <1>3, TodoTick
<1>5. Grown /\ GhKept
  BY <1>2, WorldTick, GhTick DEF Typed
<1>6. IdsKnown(tk)' /\ Built(tk)' /\ MergedOnGitHub(tk, mergedUrls)'
  BY <1>1, <1>3, <1>5, GraphKept
<1>7. CopiesAfter
  BY <1>1, <1>3, <1>5, CopiesTick
<1>8. saved'.valid => /\ IdsKnown(saved.tk)' /\ Built(saved.tk)'
                      /\ MergedOnGitHub(saved.tk, saved.mergedUrls)'
  BY <1>7 DEF CopiesAfter, HoldsAfter, IdsKnown, Built, MergedOnGitHub
<1>9. snap'.valid => IdsKnown(snap.tk)' /\ Built(snap.tk)' /\ MergedOnGitHub(snap.tk, {})'
  BY <1>7 DEF CopiesAfter, HoldsAfter, IdsKnown, Built, MergedOnGitHub
<1>10. snap'.valid => OnSnapshot'
  BY <1>1, <1>3, OnSnapshotTick
<1> QED BY <1>1, <1>4, <1>6, <1>8, <1>9, <1>10 DEF SafeInv

\* Every move of the world keeps the invariant.
LEMMA SafeWorld ==
    ASSUME SafeInv, World
    PROVE  SafeInv'
<1>1. Shape'
  BY ShapeWorld DEF SafeInv
<1>2. Typed
  BY DEF SafeInv, Shape, Typed, MemOK
<1>3. UNCHANGED <<mem, local, saved, crashes>>
  BY DEF World, LabelHuman, KidClaimed, KidOpensPr, KidEnds, KidLost, ReviewEnds,
         outside
<1>4. Grown /\ GhKept
  BY <1>2, OutsideWorld, GhWorld DEF Typed
<1>5. \A t \in Tickets : Advances(t)
  BY <1>3, AdvancesSame DEF mem
<1>6. IdsKnown(tk)' /\ Built(tk)' /\ MergedOnGitHub(tk, mergedUrls)'
  BY <1>1, <1>4, <1>5, GraphKept
<1>7. saved'.valid => /\ IdsKnown(saved.tk)' /\ Built(saved.tk)'
                      /\ MergedOnGitHub(saved.tk, saved.mergedUrls)'
  BY <1>1, <1>3, <1>4, CopiesKept DEF HoldsAfter, IdsKnown, Built, MergedOnGitHub
<1>8. TodoOpen'
  BY <1>3 DEF mem, local, SafeInv, TodoOpen, DepsSatisfied
<1>9. snap'.valid => IdsKnown(snap.tk)' /\ Built(snap.tk)' /\ MergedOnGitHub(snap.tk, {})'
  BY <1>1, <1>3, <1>4, CopiesKept DEF mem, HoldsAfter, IdsKnown, Built, MergedOnGitHub
<1>10. snap'.valid => OnSnapshot'
  BY <1>3 DEF mem, local, SafeInv, OnSnapshot, GreenThen
<1> QED BY <1>1, <1>6, <1>7, <1>8, <1>9, <1>10 DEF SafeInv

\* Every step keeps the invariant.
LEMMA SafeStep == SafeInv /\ [Next]_vars => SafeInv'
<1>1. ASSUME SafeInv, UNCHANGED vars PROVE SafeInv'
  <2>1. Shape'
    BY <1>1, ShapeStep DEF SafeInv
  <2>2. UNCHANGED <<pc, tk, todo, mergedUrls, kids, revs, gh, snap, saved, crashes>>
    BY <1>1 DEF vars, mem, local, world
  <2>3. snap'.valid => OnSnapshot'
    BY <1>1, <2>2 DEF SafeInv, OnSnapshot, GreenThen
  <2> QED BY <1>1, <2>1, <2>2, <2>3 DEF SafeInv, TodoOpen, DepsSatisfied, IdsKnown, Built,
                                        MergedOnGitHub
<1> QED BY <1>1, SafeTick, SafeCrash, SafeWorld DEF Next, WaveOver

\* The inductive invariant holds throughout.
THEOREM SafeAlways == Spec => []SafeInv
BY SafeInit, SafeStep, PTL DEF Spec

-----------------------------------------------------------------------------
(* The properties.                                                         *)

\* Every variable keeps its type, and every task id that a ticket or a checkpoint
\* holds is the id of a task on the mesh.
THEOREM TypeCorrect == Spec => []TypeOK
<1>1. SafeInv => TypeOK
  BY DEF SafeInv, TypeOK
<1> QED BY <1>1, SafeAlways, PTL

\* A ticket counted as shipped has a merged PR, through crashes, refusals and lost
\* answers (_merge_pr, the skips of already shipped work, and restore).
THEOREM GreenMeansMerged == Spec => []GreenIsMerged
<1>1. SafeInv => GreenIsMerged
  BY DEF SafeInv, MergedOnGitHub, GreenIsMerged
<1> QED BY <1>1, SafeAlways, PTL

\* A ticket has a builder only when all the tickets that block it are merged, after
\* any number of restarts (_select_ready, _deps_satisfied).
THEOREM BuildersStartOnGreen == Spec => []BuiltOnGreen
<1>1. SafeInv => BuiltOnGreen
  BY DEF SafeInv, Built, HasTask, BuiltOnGreen
<1> QED BY <1>1, SafeAlways, PTL
=============================================================================
