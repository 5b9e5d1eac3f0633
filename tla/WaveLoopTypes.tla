--------------------------- MODULE WaveLoopTypes ---------------------------
(* Type correctness of the wave loop, one group of variables after the     *)
(* other: the orchestrator's fields, the locals of a tick, the tickets,    *)
(* the world outside and the checkpoint.                                   *)
EXTENDS WaveLoop, TLAPS, SequenceTheorems, FiniteSetTheorems

\* The green count of _maybe_force_pass is a number: the wave is finite.
LEMMA GreensNat == Greens \in Nat
<1>1. IsFiniteSet(WithStatus({"MERGED_GREEN"}))
  BY WaveAssumption, FS_Subset DEF WaveAssumption, WithStatus
<1> QED BY <1>1, FS_CardinalityType DEF Greens

-----------------------------------------------------------------------------
(* The orchestrator's fields.                                              *)

\* A dispatch decision keeps the orchestrator's fields in their types.
LEMMA MemDispatchTicket ==
    ASSUME MemOK, WorldOK, NEW t \in Tickets, DispatchTicket(t)
    PROVE  MemOK'
<1> USE DEF MemOK
<1>1. CASE HoldBack(t)
  BY <1>1 DEF HoldBack, Candidate
<1>2. CASE Ss08Acked(t)
  BY <1>2 DEF Ss08Acked, gateRest
<1>3. CASE Ss08Deferred(t)
  BY <1>3 DEF Ss08Deferred, gateRest
<1>4. CASE SkipHuman(t)
  BY <1>4 DEF SkipHuman, dispatchRest
<1>5. CASE SkipShipped(t)
  BY <1>5 DEF SkipShipped, dispatchRest
<1>6. CASE MergeInherited(t)
  BY <1>6
     DEF MergeInherited, dispatchRest, Merge, MergeLands, MergeRefused,
         MergeUnacknowledged
<1>7. CASE AwaitInherited(t)
  BY <1>7 DEF AwaitInherited, dispatchRest
<1>8. CASE RefuseDuplicate(t)
  BY <1>8 DEF RefuseDuplicate, dispatchRest
<1>9. CASE DispatchChild(t)
  BY <1>9 DEF DispatchChild, dispatchRest, WorldOK, KidId
<1>10. CASE DispatchRaises(t)
  BY <1>10 DEF DispatchRaises, dispatchRest
<1> QED BY <1>1, <1>2, <1>3, <1>4, <1>5, <1>6, <1>7, <1>8, <1>9, <1>10
        DEF DispatchTicket

\* So does the poll of one ticket.
LEMMA MemPollTicket ==
    ASSUME MemOK, NEW t \in Tickets, PollTicket(t)
    PROVE  MemOK'
<1> USE DEF MemOK
<1>1. CASE PollAbandon(t)
  BY <1>1 DEF PollAbandon, pollRest, Leaves
<1>2. CASE PollTimeout(t)
  BY <1>2 DEF PollTimeout, pollRest, Leaves
<1>3. CASE PollPhantom(t)
  BY <1>3 DEF PollPhantom, pollRest, Leaves
<1>4. CASE PollRunning(t)
  BY <1>4 DEF PollRunning, pollRest, Leaves
<1>5. CASE PollFailed(t)
  BY <1>5 DEF PollFailed, pollRest, Leaves
<1>6. CASE PollGap(t)
  BY <1>6 DEF PollGap, pollRest, Leaves
<1>7. CASE PollPr(t)
  BY <1>7 DEF PollPr, pollRest, Leaves
<1>8. CASE PollSilent(t)
  BY <1>8 DEF PollSilent, pollRest, Leaves
<1> QED BY <1>1, <1>2, <1>3, <1>4, <1>5, <1>6, <1>7, <1>8 DEF PollTicket

\* So does a review verdict.
LEMMA MemReviewTicket ==
    ASSUME MemOK, NEW t \in Tickets, ReviewTicket(t)
    PROVE  MemOK'
<1> USE DEF MemOK
<1>1. CASE ReviewApproved(t)
  BY <1>1
     DEF ReviewApproved, reviewRest, local, Merge, MergeLands, MergeRefused,
         MergeUnacknowledged
<1>2. CASE ReviewTriage(t)
  BY <1>2, WaveAssumption DEF ReviewTriage, reviewRest, local, ChangesWanted
<1>3. CASE ReviewExhausted(t)
  BY <1>3, WaveAssumption
     DEF ReviewExhausted, reviewRest, local, FixWanted, FixRound, ChangesWanted
<1>4. CASE ReviewHuman(t)
  BY <1>4, WaveAssumption
     DEF ReviewHuman, reviewRest, local, FixWanted, FixRound, ChangesWanted
<1>5. CASE ReviewRespawn(t)
  BY <1>5, WaveAssumption
     DEF ReviewRespawn, reviewRest, local, FixWanted, FixRound, ChangesWanted
<1>6. CASE RespawnRaises(t)
  BY <1>6, WaveAssumption
     DEF RespawnRaises, reviewRest, local, FixWanted, FixRound, ChangesWanted
<1>7. CASE ReviewSilent(t)
  BY <1>7 DEF ReviewSilent, reviewRest, local
<1> QED BY <1>1, <1>2, <1>3, <1>4, <1>5, <1>6, <1>7 DEF ReviewTicket

\* So does every step of the tick.
LEMMA MemTick == ASSUME MemOK, LocalOK, WorldOK, Tick PROVE MemOK'
<1> USE DEF MemOK
<1>1. CASE Top
  BY <1>1 DEF Top
<1>2. CASE EndDispatch
  BY <1>2 DEF EndDispatch
<1>3. CASE PollNothing
  BY <1>3 DEF PollNothing, listRest, SweepOver
<1>4. CASE PollListFails
  BY <1>4 DEF PollListFails, listRest
<1>5. CASE PollList
  BY <1>5 DEF PollList, listRest
<1>6. CASE PollClaimed
  BY <1>6 DEF PollClaimed, listRest
<1>7. CASE PollSweep
  BY <1>7 DEF PollSweep, listRest, SweepOver
<1>8. CASE ReviewsEnd
  BY <1>8 DEF ReviewsEnd
<1>9. CASE Snapshot
  BY <1>9 DEF Snapshot
<1>10. CASE ForcePass
  BY <1>10, GreensNat DEF ForcePass, Sample, tailRest, Flat
<1>11. CASE Finish
  BY <1>11, GreensNat DEF Finish, Moving, Sample, tailRest, Flat
<1>12. CASE CancelExit
  BY <1>12, GreensNat DEF CancelExit, Moving, Sample, tailRest, Flat
<1>13. CASE Coerce
  BY <1>13, GreensNat DEF Coerce, StaysOn, Moving, Sample, tailRest, Flat
<1>14. CASE GoOn
  BY <1>14, GreensNat DEF GoOn, StaysOn, Moving, Sample, tailRest, Flat, QuietFor
<1>15. CASE Sleep
  BY <1>15, WaveAssumption DEF Sleep, Older, NoTime
<1>16. ASSUME NEW t \in Tickets, DispatchTicket(t) PROVE MemOK'
  BY <1>16, MemDispatchTicket
<1>17. ASSUME NEW t \in Tickets, PollTicket(t) PROVE MemOK'
  BY <1>17, MemPollTicket
<1>18. ASSUME NEW t \in Tickets, ReviewTicket(t) PROVE MemOK'
  BY <1>18, MemReviewTicket
<1>19. CASE HardStop
  BY <1>19 DEF HardStop
<1> QED BY <1>1, <1>2, <1>3, <1>4, <1>5, <1>6, <1>7, <1>8, <1>9, <1>10, <1>11, <1>12,
           <1>13, <1>14, <1>15, <1>16, <1>17, <1>18, <1>19
        DEF Tick, EndOfTick

-----------------------------------------------------------------------------
(* The locals of one tick.                                                 *)

\* A dispatch decision keeps the locals of the tick in their types.
LEMMA LocalDispatchTicket ==
    ASSUME LocalOK, NEW t \in Tickets, DispatchTicket(t)
    PROVE  LocalOK'
<1> USE DEF LocalOK
<1>1. CASE HoldBack(t)
  BY <1>1 DEF HoldBack, Candidate
<1>2. CASE Ss08Acked(t)
  BY <1>2 DEF Ss08Acked, gateRest
<1>3. CASE Ss08Deferred(t)
  BY <1>3 DEF Ss08Deferred, gateRest
<1>4. CASE SkipHuman(t)
  BY <1>4 DEF SkipHuman, dispatchRest
<1>5. CASE SkipShipped(t)
  BY <1>5 DEF SkipShipped, dispatchRest
<1>6. CASE MergeInherited(t)
  BY <1>6 DEF MergeInherited, dispatchRest
<1>7. CASE AwaitInherited(t)
  BY <1>7 DEF AwaitInherited, dispatchRest
<1>8. CASE RefuseDuplicate(t)
  BY <1>8 DEF RefuseDuplicate, dispatchRest
<1>9. CASE DispatchChild(t)
  BY <1>9 DEF DispatchChild, dispatchRest
<1>10. CASE DispatchRaises(t)
  BY <1>10 DEF DispatchRaises, dispatchRest
<1> QED BY <1>1, <1>2, <1>3, <1>4, <1>5, <1>6, <1>7, <1>8, <1>9, <1>10
        DEF DispatchTicket

\* So does the poll of one ticket.
LEMMA LocalPollTicket ==
    ASSUME LocalOK, NEW t \in Tickets, PollTicket(t)
    PROVE  LocalOK'
<1> USE DEF LocalOK
<1>1. CASE PollAbandon(t)
  BY <1>1 DEF PollAbandon, pollRest, Leaves
<1>2. CASE PollTimeout(t)
  BY <1>2 DEF PollTimeout, pollRest, Leaves
<1>3. CASE PollPhantom(t)
  BY <1>3 DEF PollPhantom, pollRest, Leaves
<1>4. CASE PollRunning(t)
  BY <1>4 DEF PollRunning, pollRest, Leaves
<1>5. CASE PollFailed(t)
  BY <1>5 DEF PollFailed, pollRest, Leaves
<1>6. CASE PollGap(t)
  BY <1>6 DEF PollGap, pollRest, Leaves
<1>7. CASE PollPr(t)
  BY <1>7 DEF PollPr, pollRest, Leaves
<1>8. CASE PollSilent(t)
  BY <1>8 DEF PollSilent, pollRest, Leaves
<1> QED BY <1>1, <1>2, <1>3, <1>4, <1>5, <1>6, <1>7, <1>8 DEF PollTicket

\* So does a review verdict.
LEMMA LocalReviewTicket ==
    ASSUME LocalOK, NEW t \in Tickets, ReviewTicket(t)
    PROVE  LocalOK'
<1> USE DEF LocalOK
<1>1. CASE ReviewApproved(t)
  BY <1>1 DEF ReviewApproved, reviewRest, local
<1>2. CASE ReviewTriage(t)
  BY <1>2 DEF ReviewTriage, reviewRest, local
<1>3. CASE ReviewExhausted(t)
  BY <1>3 DEF ReviewExhausted, reviewRest, local
<1>4. CASE ReviewHuman(t)
  BY <1>4 DEF ReviewHuman, reviewRest, local
<1>5. CASE ReviewRespawn(t)
  BY <1>5 DEF ReviewRespawn, reviewRest, local
<1>6. CASE RespawnRaises(t)
  BY <1>6 DEF RespawnRaises, reviewRest, local
<1>7. CASE ReviewSilent(t)
  BY <1>7 DEF ReviewSilent, reviewRest, local
<1> QED BY <1>1, <1>2, <1>3, <1>4, <1>5, <1>6, <1>7 DEF ReviewTicket

\* So does every step of the tick.
LEMMA LocalTick ==
    ASSUME LocalOK, tk \in [Tickets -> TicketRecord], Tick
    PROVE  LocalOK'
<1> USE DEF LocalOK
<1>1. CASE Top
  BY <1>1 DEF Top, WithStatus, Ready
<1>2. CASE EndDispatch
  BY <1>2 DEF EndDispatch
<1>3. CASE PollNothing
  BY <1>3 DEF PollNothing, listRest
<1>4. CASE PollListFails
  BY <1>4 DEF PollListFails, listRest
<1>5. CASE PollList
  BY <1>5
     DEF PollList, listRest, CompletedReviews, TicketRecord, Forced, Orphans,
         WithStatus, WithChild
<1>6. CASE PollClaimed
  BY <1>6 DEF PollClaimed, listRest
<1>7. CASE PollSweep
  BY <1>7 DEF PollSweep, listRest
<1>8. CASE ReviewsEnd
  BY <1>8 DEF ReviewsEnd, local
<1>9. CASE Snapshot
  BY <1>9 DEF Snapshot, local
<1>10. CASE ForcePass
  BY <1>10 DEF ForcePass, Sample, tailRest, local
<1>11. CASE Finish
  BY <1>11 DEF Finish, Moving, Sample, tailRest, local
<1>12. CASE CancelExit
  BY <1>12 DEF CancelExit, Moving, Sample, tailRest, local
<1>13. CASE Coerce
  BY <1>13 DEF Coerce, StaysOn, Moving, Sample, tailRest, local
<1>14. CASE GoOn
  BY <1>14 DEF GoOn, StaysOn, Moving, Sample, tailRest, local
<1>15. CASE Sleep
  BY <1>15 DEF Sleep, local
<1>16. ASSUME NEW t \in Tickets, DispatchTicket(t) PROVE LocalOK'
  BY <1>16, LocalDispatchTicket
<1>17. ASSUME NEW t \in Tickets, PollTicket(t) PROVE LocalOK'
  BY <1>17, LocalPollTicket
<1>18. ASSUME NEW t \in Tickets, ReviewTicket(t) PROVE LocalOK'
  BY <1>18, LocalReviewTicket
<1>19. CASE HardStop
  BY <1>19 DEF HardStop, local
<1> QED BY <1>1, <1>2, <1>3, <1>4, <1>5, <1>6, <1>7, <1>8, <1>9, <1>10, <1>11, <1>12,
           <1>13, <1>14, <1>15, <1>16, <1>17, <1>18, <1>19
        DEF Tick, EndOfTick

-----------------------------------------------------------------------------
(* Tickets.                                                                *)

\* The statuses the loop assigns are members of TicketStatus.
LEMMA StatusNames ==
    {"PENDING", "BLOCKED", "BACKED_OFF", "AWAITING_REVIEW", "DISPATCHED",
     "IN_PROGRESS", "PR_OPEN", "MERGED_GREEN", "FAILED", "ESCALATED", "ABANDONED",
     "TRIAGE_NEEDED"} \subseteq Status
BY DEF Status, Active, Terminal

\* mesh.create_task returns the next position of the builder list.
LEMMA KidIdNat == WorldOK => \A t \in Tickets : KidId(t) \in Nat
BY DEF WorldOK, KidId

\* The same for review tasks; an adopted review is one of the list.
LEMMA RevIdNat ==
    WorldOK => \A t \in Tickets : RevId(t) \in Nat /\ OpenReviews(t) \subseteq Nat
BY DEF WorldOK, RevId, OpenReviews

\* The sweep's ways to dispose of a failed ticket give a ticket.
LEMMA DisposedType ==
    ASSUME NEW r \in TicketRecord
    PROVE  /\ BackedOff(r) \in TicketRecord /\ PhantomReset(r) \in TicketRecord
           /\ Abandoned(r) \in TicketRecord
<1> USE StatusNames DEF TicketRecord
<1>1. BackedOff(r) \in TicketRecord
  <2>1. r.retries + 1 \in Nat
    OBVIOUS
  <2>2. [r EXCEPT !.status = "BACKED_OFF", !.retries = r.retries + 1, !.backAge = 0,
                  !.child = 0, !.dispAge = NoTime, !.phantom = FALSE] \in TicketRecord
    BY <2>1
  <2> QED BY <2>2 DEF BackedOff
<1>2. PhantomReset(r) \in TicketRecord
  <2>1. r.cleaned + 1 \in Nat
    OBVIOUS
  <2>2. [r EXCEPT !.status = "PENDING", !.backAge = NoTime, !.child = 0,
                  !.dispAge = NoTime, !.phantom = FALSE,
                  !.cleaned = r.cleaned + 1] \in TicketRecord
    BY <2>1
  <2> QED BY <2>2 DEF PhantomReset
<1>3. Abandoned(r) \in TicketRecord
  BY DEF Abandoned
<1> QED BY <1>1, <1>2, <1>3

\* What _apply_phantom_carve_out leaves is a ticket.
LEMMA CarvedType ==
    ASSUME NEW r \in TicketRecord, NEW t
    PROVE  CarvedOut(r, t) \in TicketRecord
BY DisposedType DEF CarvedOut

\* What the list step makes of a ticket.
LEMMA ListedType ==
    ASSUME tk \in [Tickets -> TicketRecord], NEW t \in Tickets
    PROVE  ForceFailed(t) \in TicketRecord /\ Refreshed(t) \in TicketRecord
<1> USE StatusNames
<1> DEFINE r == tk[t]
<1>1. r \in TicketRecord
  OBVIOUS
<1>2. /\ [r EXCEPT !.status = "FAILED", !.phantom = TRUE] \in TicketRecord
      /\ [r EXCEPT !.status = "PENDING", !.backAge = NoTime] \in TicketRecord
  BY <1>1 DEF TicketRecord
<1>3. \A q \in TicketRecord, s \in Status : [q EXCEPT !.status = s] \in TicketRecord
  BY DEF TicketRecord
<1> QED BY <1>1, <1>2, <1>3 DEF ForceFailed, Refreshed

\* What a snapshot notes, and what a restart reads back, are tickets.
LEMMA SnappedType ==
    ASSUME NEW r \in TicketRecord
    PROVE  Snapped(r) \in TicketRecord /\ Persisted(r) \in TicketRecord
<1>1. Snapped(r) \in TicketRecord
  BY DEF TicketRecord, Snapped
<1>2. ASSUME NEW q \in TicketRecord
      PROVE  [q EXCEPT !.shown = r.status, !.child = r.noted, !.noted = r.noted, !.pr = r.pr,
                       !.retries = r.retries, !.cycles = r.cycles, !.review = r.review,
                       !.backAge = r.backAge] \in TicketRecord
  BY DEF TicketRecord
<1>3. r.status \in Status
  BY DEF TicketRecord
<1>4. NewTicket(r.status) \in TicketRecord
  BY <1>3 DEF NewTicket, TicketRecord
<1>5. Persisted(r) \in TicketRecord
  BY <1>2, <1>4 DEF Persisted
<1> QED BY <1>1, <1>5

\* A sleep leaves a ticket a ticket.
LEMMA AgedType ==
    ASSUME NEW r \in TicketRecord
    PROVE  Aged(r) \in TicketRecord
<1>1. \A x \in Nat \cup {NoTime}, n \in Nat : Older(x, n) \in Nat \cup {NoTime}
  BY DEF Older, NoTime
<1> QED BY <1>1, WaveAssumption DEF TicketRecord, Aged

\* However a merge ends, the ticket is green or FAILED, and green only for a PR
\* that is merged.
LEMMA MergeTk ==
    ASSUME NEW t \in Tickets, NEW known \in BOOLEAN, Merge(t, known)
    PROVE  \E s \in {"MERGED_GREEN", "FAILED"}, k \in BOOLEAN :
               /\ tk' = [tk EXCEPT ![t] = [tk[t] EXCEPT !.status = s, !.pr = k]]
               /\ s = "MERGED_GREEN" => \/ t \in mergedUrls /\ gh' = gh
                                        \/ gh' = [gh EXCEPT ![t] = "merged"]
<1>1. CASE MergeLands(t, known)
  BY <1>1 DEF MergeLands
<1>2. CASE MergeRefused(t, known)
  <2>1. tk' = [tk EXCEPT ![t] = [tk[t] EXCEPT !.status = "FAILED", !.pr = known]]
    BY <1>2 DEF MergeRefused
  <2> QED BY <2>1
<1>3. CASE MergeUnacknowledged(t, known)
  <2>1. tk' = [tk EXCEPT ![t] = [tk[t] EXCEPT !.status = "FAILED", !.pr = TRUE]]
    BY <1>3 DEF MergeUnacknowledged
  <2> QED BY <2>1
<1> QED BY <1>1, <1>2, <1>3 DEF Merge

\* A dispatch decision leaves tickets in the graph.
LEMMA TkDispatchTicket ==
    ASSUME tk \in [Tickets -> TicketRecord], WorldOK,
           NEW t \in Tickets, DispatchTicket(t)
    PROVE  tk' \in [Tickets -> TicketRecord]
<1> USE StatusNames, KidIdNat, RevIdNat
<1> DEFINE r == tk[t]
<1>0. r \in TicketRecord
  OBVIOUS
<1>1. CASE HoldBack(t)
  BY <1>1 DEF HoldBack
<1>2. CASE Ss08Acked(t)
  BY <1>2 DEF Ss08Acked
<1>3. CASE Ss08Deferred(t)
  BY <1>3 DEF Ss08Deferred, TicketRecord
<1>4. CASE SkipHuman(t)
  BY <1>4 DEF SkipHuman, TicketRecord
<1>5. \A s \in Status, k \in BOOLEAN : [r EXCEPT !.status = s, !.pr = k] \in TicketRecord
  BY <1>0 DEF TicketRecord
<1>6. CASE SkipShipped(t)
  <2>1. tk' = [tk EXCEPT ![t] = [r EXCEPT !.status = "MERGED_GREEN", !.pr = TRUE]]
    BY <1>6 DEF SkipShipped
  <2> QED BY <1>5, <2>1
<1>7. CASE MergeInherited(t)
  <2>1. \E s \in Status : tk' = [tk EXCEPT ![t] = [r EXCEPT !.status = s, !.pr = TRUE]]
    BY <1>7 DEF MergeInherited, Merge, MergeLands, MergeRefused, MergeUnacknowledged
  <2> QED BY <1>5, <2>1
<1>8. CASE AwaitInherited(t)
  <2>1. CASE AdoptReview(t)
    <3>1. PICK i \in Nat : tk' = [tk EXCEPT ![t].review = i, ![t].status = "AWAITING_REVIEW"]
      BY <2>1 DEF AdoptReview
    <3>2. [r EXCEPT !.review = i, !.status = "AWAITING_REVIEW"] \in TicketRecord
      BY <1>0 DEF TicketRecord
    <3>3. tk' = [tk EXCEPT ![t] = [r EXCEPT !.review = i, !.status = "AWAITING_REVIEW"]]
      BY <3>1
    <3> QED BY <3>2, <3>3
  <2>2. CASE FireReview(t)
    <3>1. /\ [r EXCEPT !.review = RevId(t), !.pr = TRUE, !.status = "AWAITING_REVIEW"]
               \in TicketRecord
          /\ [r EXCEPT !.pr = TRUE] \in TicketRecord
      BY <1>0 DEF TicketRecord
    <3>2. \/ tk' = [tk EXCEPT ![t] = [r EXCEPT !.review = RevId(t), !.pr = TRUE,
                                               !.status = "AWAITING_REVIEW"]]
          \/ tk' = [tk EXCEPT ![t] = [r EXCEPT !.pr = TRUE]]
      BY <2>2 DEF FireReview
    <3> QED BY <3>1, <3>2
  <2>3. CASE ReviewRegistered(t)
    BY <2>3 DEF ReviewRegistered
  <2> QED BY <1>8, <2>1, <2>2, <2>3 DEF AwaitInherited
<1>9. CASE RefuseDuplicate(t)
  BY <1>9 DEF RefuseDuplicate
<1>10. CASE DispatchChild(t)
  BY <1>10 DEF DispatchChild, TicketRecord
<1>11. CASE DispatchRaises(t)
  BY <1>11 DEF DispatchRaises
<1> QED BY <1>1, <1>2, <1>3, <1>4, <1>6, <1>7, <1>8, <1>9, <1>10, <1>11
        DEF DispatchTicket

\* So does the poll of one ticket.
LEMMA TkPollTicket ==
    ASSUME tk \in [Tickets -> TicketRecord], WorldOK, NEW t \in Tickets, PollTicket(t)
    PROVE  tk' \in [Tickets -> TicketRecord]
<1> USE StatusNames, RevIdNat
<1> DEFINE r == tk[t]
<1>0. r \in TicketRecord
  OBVIOUS
<1>1. CASE PollAbandon(t)
  <2>1. r.retries + 1 \in Nat
    BY <1>0 DEF TicketRecord
  <2>2. Abandoned(r) \in TicketRecord
    BY <1>0, DisposedType
  <2>3. \A q \in TicketRecord, n \in Nat :
            [q EXCEPT !.retries = n, !.dispAge = NoTime] \in TicketRecord
    BY DEF TicketRecord
  <2>4. tk' = [tk EXCEPT ![t] = [Abandoned(r) EXCEPT !.retries = r.retries + 1,
                                                     !.dispAge = NoTime]]
    BY <1>1 DEF PollAbandon
  <2> QED BY <2>1, <2>2, <2>3, <2>4
<1>2. CASE PollTimeout(t)
  <2>1. tk' = [tk EXCEPT ![t] = [r EXCEPT !.status = "FAILED", !.phantom = FALSE]]
    BY <1>2 DEF PollTimeout
  <2>2. [r EXCEPT !.status = "FAILED", !.phantom = FALSE] \in TicketRecord
    BY <1>0 DEF TicketRecord
  <2> QED BY <2>1, <2>2
<1>3. CASE PollPhantom(t)
  <2>1. tk' = [tk EXCEPT ![t] = ForceFailed(t)]
    BY <1>3 DEF PollPhantom
  <2> QED BY <2>1, ListedType
<1>4. CASE PollRunning(t)
  BY <1>4 DEF PollRunning, TicketRecord
<1>5. CASE PollFailed(t)
  BY <1>5 DEF PollFailed, TicketRecord
<1>6. CASE PollGap(t)
  BY <1>6 DEF PollGap, TicketRecord
<1>7. CASE PollPr(t)
  <2>1. \/ tk' = [tk EXCEPT ![t] = [r EXCEPT !.pr = TRUE, !.dispAge = NoTime,
                                !.review = RevId(t), !.status = "AWAITING_REVIEW"]]
        \/ tk' = [tk EXCEPT ![t] = [r EXCEPT !.pr = TRUE, !.dispAge = NoTime,
                                             !.status = "PR_OPEN"]]
    BY <1>7 DEF PollPr
  <2>2. /\ [r EXCEPT !.pr = TRUE, !.dispAge = NoTime, !.review = RevId(t),
                     !.status = "AWAITING_REVIEW"] \in TicketRecord
        /\ [r EXCEPT !.pr = TRUE, !.dispAge = NoTime, !.status = "PR_OPEN"]
             \in TicketRecord
    BY <1>0 DEF TicketRecord
  <2> QED BY <2>1, <2>2
<1>8. CASE PollSilent(t)
  <2>1. \/ tk' = [tk EXCEPT ![t] = [r EXCEPT !.status = "PENDING", !.child = 0,
                                             !.dispAge = NoTime]]
        \/ tk' = [tk EXCEPT ![t] = [r EXCEPT !.status = "FAILED", !.phantom = FALSE]]
    BY <1>8 DEF PollSilent
  <2>2. /\ [r EXCEPT !.status = "PENDING", !.child = 0, !.dispAge = NoTime]
             \in TicketRecord
        /\ [r EXCEPT !.status = "FAILED", !.phantom = FALSE] \in TicketRecord
    BY <1>0 DEF TicketRecord
  <2> QED BY <2>1, <2>2
<1> QED BY <1>1, <1>2, <1>3, <1>4, <1>5, <1>6, <1>7, <1>8 DEF PollTicket

\* So does a review verdict.
LEMMA TkReviewTicket ==
    ASSUME tk \in [Tickets -> TicketRecord], WorldOK, NEW t \in Tickets, ReviewTicket(t)
    PROVE  tk' \in [Tickets -> TicketRecord]
<1> USE StatusNames, KidIdNat, RevIdNat
<1> DEFINE r == tk[t]
<1>0. r \in TicketRecord
  OBVIOUS
<1>1. CASE ReviewApproved(t)
  <2>1. Merge(t, tk[t].pr) /\ tk[t].pr \in BOOLEAN
    BY <1>0, <1>1 DEF ReviewApproved, TicketRecord
  <2>2. PICK s \in {"MERGED_GREEN", "FAILED"}, k \in BOOLEAN :
            tk' = [tk EXCEPT ![t] = [tk[t] EXCEPT !.status = s, !.pr = k]]
    BY <2>1, MergeTk
  <2>3. [tk[t] EXCEPT !.status = s, !.pr = k] \in TicketRecord
    BY <1>0, <2>2 DEF TicketRecord
  <2> QED BY <2>2, <2>3
<1>2. CASE ReviewTriage(t)
  <2>1. tk' = [tk EXCEPT ![t] = [r EXCEPT !.status = "TRIAGE_NEEDED", !.review = 0]]
    BY <1>2 DEF ReviewTriage
  <2>2. [r EXCEPT !.status = "TRIAGE_NEEDED", !.review = 0] \in TicketRecord
    BY <1>0 DEF TicketRecord
  <2> QED BY <2>1, <2>2
<1>3. CASE ReviewExhausted(t)
  BY <1>3 DEF ReviewExhausted, TicketRecord
<1>4. CASE ReviewHuman(t)
  BY <1>4 DEF ReviewHuman, TicketRecord
<1>5. CASE ReviewRespawn(t)
  <2>1. r.cycles + 1 \in Nat
    BY <1>0 DEF TicketRecord
  <2>2. tk' = [tk EXCEPT ![t] = [r EXCEPT !.status = "DISPATCHED", !.child = KidId(t),
                            !.cycles = r.cycles + 1, !.review = 0, !.silents = 0]]
    BY <1>5 DEF ReviewRespawn
  <2>3. [r EXCEPT !.status = "DISPATCHED", !.child = KidId(t),
                  !.cycles = r.cycles + 1, !.review = 0, !.silents = 0] \in TicketRecord
    BY <1>0, <2>1 DEF TicketRecord
  <2> QED BY <2>2, <2>3
<1>6. CASE RespawnRaises(t)
  <2>1. r.cycles + 1 \in Nat
    BY <1>0 DEF TicketRecord
  <2>2. tk' = [tk EXCEPT ![t] = [r EXCEPT !.cycles = r.cycles + 1, !.review = 0]]
    BY <1>6 DEF RespawnRaises
  <2>3. [r EXCEPT !.cycles = r.cycles + 1, !.review = 0] \in TicketRecord
    BY <1>0, <2>1 DEF TicketRecord
  <2> QED BY <2>2, <2>3
<1>7. CASE ReviewSilent(t)
  <2>1. r.silents + 1 \in Nat
    BY <1>0 DEF TicketRecord
  <2>2. /\ [r EXCEPT !.silents = r.silents + 1, !.status = "FAILED"] \in TicketRecord
        /\ [r EXCEPT !.silents = 1, !.review = RevId(t), !.status = "AWAITING_REVIEW"]
             \in TicketRecord
        /\ [r EXCEPT !.silents = 1, !.review = 0] \in TicketRecord
    BY <1>0, <2>1 DEF TicketRecord
  <2>3. \/ tk' = [tk EXCEPT ![t] = [r EXCEPT !.silents = r.silents + 1,
                                             !.status = "FAILED"]]
        \/ tk' = [tk EXCEPT ![t] = [r EXCEPT !.silents = 1, !.review = RevId(t),
                                             !.status = "AWAITING_REVIEW"]]
        \/ tk' = [tk EXCEPT ![t] = [r EXCEPT !.silents = 1, !.review = 0]]
    BY <1>7 DEF ReviewSilent
  <2> QED BY <2>2, <2>3
<1> QED BY <1>1, <1>2, <1>3, <1>4, <1>5, <1>6, <1>7 DEF ReviewTicket

\* So does every step of the tick.
LEMMA TkTick ==
    ASSUME tk \in [Tickets -> TicketRecord], WorldOK, Tick
    PROVE  tk' \in [Tickets -> TicketRecord]
<1>0. \A q \in TicketRecord, s \in Status : [q EXCEPT !.status = s] \in TicketRecord
  BY DEF TicketRecord
<1> USE StatusNames
<1>1. CASE Top
  BY <1>0, <1>1, ListedType DEF Top
<1>2. \A ok \in BOOLEAN : AtList(ok) \in [Tickets -> TicketRecord]
  BY ListedType DEF AtList
<1>3. ASSUME NEW f \in [Tickets -> TicketRecord], NEW S, SweepOver(f, S)
      PROVE  tk' \in [Tickets -> TicketRecord]
  BY <1>3, CarvedType DEF SweepOver
<1>4. CASE PollNothing
  BY <1>2, <1>3, <1>4 DEF PollNothing
<1>5. CASE PollListFails
  BY <1>2, <1>5 DEF PollListFails
<1>6. CASE PollList
  BY <1>2, <1>6 DEF PollList
<1>7. CASE PollSweep
  BY <1>3, <1>7 DEF PollSweep
<1>8. CASE Snapshot
  BY <1>8, SnappedType DEF Snapshot
<1>9. CASE ForcePass
  BY <1>9, DisposedType DEF ForcePass
<1>10. CASE Coerce
  BY <1>0, <1>10 DEF Coerce
<1>11. CASE Sleep
  BY <1>11, AgedType DEF Sleep
<1>12. CASE EndDispatch \/ PollClaimed \/ ReviewsEnd \/ Finish \/ CancelExit \/ GoOn
             \/ HardStop
  BY <1>12 DEF EndDispatch, PollClaimed, ReviewsEnd, Finish, CancelExit, GoOn, HardStop
<1>13. ASSUME NEW t \in Tickets, DispatchTicket(t) \/ PollTicket(t) \/ ReviewTicket(t)
       PROVE  tk' \in [Tickets -> TicketRecord]
  BY <1>13, TkDispatchTicket, TkPollTicket, TkReviewTicket
<1> QED BY <1>1, <1>4, <1>5, <1>6, <1>7, <1>8, <1>9, <1>10, <1>11, <1>12, <1>13
        DEF Tick, EndOfTick

-----------------------------------------------------------------------------
(* The world. Task ids are positions in a sequence that only ever grows.   *)

Grown == \A t \in Tickets : /\ Len(kids[t]) <= Len(kids'[t])
                            /\ Len(revs[t]) <= Len(revs'[t])

\* Rewriting the entries of a sequence gives a sequence as long.
LEMMA MappedSeq ==
    ASSUME NEW S, NEW s \in Seq(S), NEW g \in [DOMAIN s -> S]
    PROVE  g \in Seq(S) /\ Len(g) = Len(s)
<1>1. DOMAIN s = 1..Len(s) /\ Len(s) \in Nat
  OBVIOUS
<1>2. g \in [1..Len(s) -> S]
  BY <1>1
<1>3. g \in Seq(S)
  BY <1>1, <1>2, SeqDef
<1> QED BY <1>1, <1>2, <1>3

\* A queued builder gets the next id, and no list of tasks shrinks.
LEMMA NewKidType ==
    ASSUME WorldOK, NEW t \in Tickets, NewKid(t)
    PROVE  /\ kids' \in [Tickets -> Seq(KidState)]
           /\ Len(kids'[t]) = KidId(t)
           /\ \A u \in Tickets : Len(kids[u]) <= Len(kids'[u])
<1> DEFINE g == [i \in DOMAIN kids[t] |->
                   IF kids[t][i] \in KidDone /\ i \notin ReadableKids(t) \ {tk[t].child}
                   THEN "over" ELSE kids[t][i]]
<1>1. kids \in [Tickets -> Seq(KidState)] /\ kids[t] \in Seq(KidState)
  BY DEF WorldOK
<1>2. g \in [DOMAIN kids[t] -> KidState]
  BY <1>1 DEF KidState
<1>3. g \in Seq(KidState) /\ Len(g) = Len(kids[t])
  BY <1>1, <1>2, MappedSeq
<1>4. kids' = [kids EXCEPT ![t] = Append(g, "pending")]
  BY DEF NewKid
<1>5. "pending" \in KidState
  BY DEF KidState
<1> HIDE DEF g
<1>6. Append(g, "pending") \in Seq(KidState) /\ Len(Append(g, "pending")) = Len(g) + 1
  BY <1>3, <1>5
<1>7. \A u \in Tickets : Len(kids[u]) \in Nat
  BY <1>1
<1> QED BY <1>1, <1>3, <1>4, <1>6, <1>7 DEF KidId

\* A queued review gets the next id, and no list of tasks shrinks.
LEMMA NewReviewType ==
    ASSUME WorldOK, NEW t \in Tickets, NewReview(t)
    PROVE  /\ revs' \in [Tickets -> Seq(RevState)]
           /\ Len(revs'[t]) = RevId(t)
           /\ \A u \in Tickets : Len(revs[u]) <= Len(revs'[u])
<1> DEFINE g == [i \in DOMAIN revs[t] |->
                   IF revs[t][i] \in RevDone /\ crashes = MaxCrashes
                   THEN "over" ELSE revs[t][i]]
<1>1. revs \in [Tickets -> Seq(RevState)] /\ revs[t] \in Seq(RevState)
  BY DEF WorldOK
<1>2. g \in [DOMAIN revs[t] -> RevState]
  BY <1>1 DEF RevState
<1>3. g \in Seq(RevState) /\ Len(g) = Len(revs[t])
  BY <1>1, <1>2, MappedSeq
<1>4. revs' = [revs EXCEPT ![t] = Append(g, "open")]
  BY DEF NewReview
<1>5. "open" \in RevState
  BY DEF RevState
<1> HIDE DEF g
<1>6. Append(g, "open") \in Seq(RevState) /\ Len(Append(g, "open")) = Len(g) + 1
  BY <1>3, <1>5
<1>7. \A u \in Tickets : Len(revs[u]) \in Nat
  BY <1>1
<1> QED BY <1>1, <1>3, <1>4, <1>6, <1>7 DEF RevId

\* A merge only ever changes gh, and to "merged".
LEMMA MergeGh ==
    ASSUME NEW t \in Tickets, NEW known, Merge(t, known)
    PROVE  gh' = gh \/ gh' = [gh EXCEPT ![t] = "merged"]
BY DEF Merge, MergeLands, MergeRefused, MergeUnacknowledged

\* A step that leaves the world alone keeps its type.
LEMMA SameWorld ==
    ASSUME WorldOK, UNCHANGED <<kids, revs, gh, human>>
    PROVE  WorldOK' /\ Grown
BY DEF WorldOK, Grown

\* A step of one ticket keeps the type of the world and only adds tasks.
LEMMA WorldTicket ==
    ASSUME WorldOK, NEW t \in Tickets,
           DispatchTicket(t) \/ PollTicket(t) \/ ReviewTicket(t)
    PROVE  WorldOK' /\ Grown
<1>0. "merged" \in PrState
  BY DEF PrState
<1>1. CASE HoldBack(t) \/ Ss08Acked(t) \/ Ss08Deferred(t) \/ SkipHuman(t)
             \/ SkipShipped(t) \/ RefuseDuplicate(t)
  BY <1>1, SameWorld DEF HoldBack, Ss08Acked, Ss08Deferred, SkipHuman, SkipShipped,
                         RefuseDuplicate, gateRest, world
<1>2. CASE MergeInherited(t)
  <2>1. UNCHANGED <<kids, revs, human>> /\ Merge(t, TRUE)
    BY <1>2 DEF MergeInherited
  <2>2. gh' \in [Tickets -> PrState]
    BY <1>0, <2>1, MergeGh DEF WorldOK
  <2> QED BY <2>1, <2>2 DEF WorldOK, Grown
<1>3. CASE AwaitInherited(t)
  <2>1. UNCHANGED <<kids, gh, human>> /\ (NewReview(t) \/ UNCHANGED revs)
    BY <1>3 DEF AwaitInherited, ReviewRegistered, AdoptReview, FireReview, NoReviewId
  <2> QED BY <2>1, NewReviewType DEF WorldOK, Grown
<1>4. CASE DispatchChild(t) \/ DispatchRaises(t)
  <2>1. UNCHANGED <<revs, gh, human>> /\ (NewKid(t) \/ UNCHANGED kids)
    BY <1>4 DEF DispatchChild, DispatchRaises, NoKidId
  <2> QED BY <2>1, NewKidType DEF WorldOK, Grown
<1>5. CASE PollPr(t)
  <2>1. UNCHANGED <<kids, gh, human>> /\ (NewReview(t) \/ UNCHANGED revs)
    BY <1>5 DEF PollPr, NoReviewId, pollRest
  <2> QED BY <2>1, NewReviewType DEF WorldOK, Grown
<1>6. CASE PollAbandon(t) \/ PollTimeout(t) \/ PollPhantom(t) \/ PollRunning(t)
             \/ PollFailed(t) \/ PollGap(t) \/ PollSilent(t)
  BY <1>6, SameWorld DEF PollAbandon, PollTimeout, PollPhantom, PollRunning,
                         PollFailed, PollGap, PollSilent, pollRest
<1>7. CASE ReviewApproved(t)
  <2>1. UNCHANGED <<kids, revs, human>> /\ Merge(t, tk[t].pr)
    BY <1>7 DEF ReviewApproved, reviewRest
  <2>2. gh' \in [Tickets -> PrState]
    BY <1>0, <2>1, MergeGh DEF WorldOK
  <2> QED BY <2>1, <2>2 DEF WorldOK, Grown
<1>8. CASE ReviewTriage(t) \/ ReviewExhausted(t) \/ ReviewHuman(t)
  BY <1>8, SameWorld DEF ReviewTriage, ReviewExhausted, ReviewHuman, reviewRest
<1>9. CASE ReviewRespawn(t) \/ RespawnRaises(t)
  <2>1. UNCHANGED <<revs, gh, human>> /\ (NewKid(t) \/ UNCHANGED kids)
    BY <1>9 DEF ReviewRespawn, RespawnRaises, NoKidId, reviewRest
  <2> QED BY <2>1, NewKidType DEF WorldOK, Grown
<1>10. CASE ReviewSilent(t)
  <2>1. UNCHANGED <<kids, gh, human>> /\ (NewReview(t) \/ UNCHANGED revs)
    BY <1>10 DEF ReviewSilent, NoReviewId, reviewRest
  <2> QED BY <2>1, NewReviewType DEF WorldOK, Grown
<1> QED BY <1>1, <1>2, <1>3, <1>4, <1>5, <1>6, <1>7, <1>8, <1>9, <1>10
        DEF DispatchTicket, PollTicket, ReviewTicket

\* So does every step of the tick.
LEMMA WorldTick ==
    ASSUME WorldOK, Tick
    PROVE  WorldOK' /\ Grown
<1>1. CASE Top \/ EndDispatch \/ Sleep \/ Snapshot \/ ReviewsEnd \/ HardStop
  BY <1>1, SameWorld DEF Top, EndDispatch, Sleep, Snapshot, ReviewsEnd, HardStop, world
<1>2. CASE PollNothing \/ PollListFails \/ PollList \/ PollClaimed \/ PollSweep
  BY <1>2, SameWorld DEF PollNothing, PollListFails, PollList, PollClaimed, PollSweep,
                         listRest, world
<1>3. CASE EndOfTick
  BY <1>3, SameWorld DEF EndOfTick, ForcePass, Finish, CancelExit, Coerce, GoOn,
                         tailRest, world
<1> QED BY <1>1, <1>2, <1>3, WorldTicket DEF Tick

\* So do workers, reviewers, GitHub and people.
LEMMA OutsideWorld ==
    ASSUME WorldOK, World
    PROVE  WorldOK' /\ Grown
<1>0. /\ \A t \in Tickets : kids[t] \in Seq(KidState) /\ revs[t] \in Seq(RevState)
      /\ {"claimed", "lost", "over"} \cup KidDone \subseteq KidState
      /\ RevDone \subseteq RevState
      /\ {"open", "approved"} \subseteq PrState
  BY DEF WorldOK, KidState, RevState, PrState
<1>1. ASSUME NEW t \in Tickets, NEW i \in DOMAIN kids[t], NEW s \in KidState,
             kids' = [kids EXCEPT ![t][i] = s]
      PROVE  /\ kids' \in [Tickets -> Seq(KidState)]
             /\ \A u \in Tickets : Len(kids[u]) <= Len(kids'[u])
  <2>1. /\ [kids[t] EXCEPT ![i] = s] \in Seq(KidState)
        /\ Len([kids[t] EXCEPT ![i] = s]) = Len(kids[t])
    BY <1>0, ExceptSeq
  <2>2. kids' = [kids EXCEPT ![t] = [kids[t] EXCEPT ![i] = s]]
    BY <1>1
  <2>3. \A u \in Tickets : Len(kids[u]) \in Nat
    BY <1>0
  <2> QED BY <2>1, <2>2, <2>3 DEF WorldOK
<1>2. ASSUME NEW t \in Tickets, NEW i \in DOMAIN revs[t], NEW s \in RevState,
             revs' = [revs EXCEPT ![t][i] = s]
      PROVE  /\ revs' \in [Tickets -> Seq(RevState)]
             /\ \A u \in Tickets : Len(revs[u]) <= Len(revs'[u])
  <2>1. /\ [revs[t] EXCEPT ![i] = s] \in Seq(RevState)
        /\ Len([revs[t] EXCEPT ![i] = s]) = Len(revs[t])
    BY <1>0, ExceptSeq
  <2>2. revs' = [revs EXCEPT ![t] = [revs[t] EXCEPT ![i] = s]]
    BY <1>2
  <2>3. \A u \in Tickets : Len(revs[u]) \in Nat
    BY <1>0
  <2> QED BY <2>1, <2>2, <2>3 DEF WorldOK
<1>3. ASSUME NEW t \in Tickets, LabelHuman(t) PROVE WorldOK' /\ Grown
  BY <1>3 DEF LabelHuman, WorldOK, Grown
<1>4. ASSUME NEW t \in Tickets, PrOpened(t) PROVE gh' \in [Tickets -> PrState]
  BY <1>0, <1>4 DEF PrOpened, WorldOK
<1>5. ASSUME NEW t \in Tickets, NEW i \in DOMAIN kids[t],
             KidClaimed(t, i) \/ KidEnds(t, i) \/ KidLost(t, i)
      PROVE  WorldOK' /\ Grown
  <2>1. \E s \in KidState : kids' = [kids EXCEPT ![t][i] = s]
    BY <1>0, <1>5 DEF KidClaimed, KidEnds, KidLost
  <2>2. UNCHANGED <<revs, human>> /\ (PrOpened(t) \/ UNCHANGED gh)
    BY <1>5 DEF KidClaimed, KidEnds, KidLost
  <2> QED BY <1>1, <1>4, <2>1, <2>2 DEF WorldOK, Grown
<1>6. ASSUME NEW t \in Tickets, NEW i, KidOpensPr(t, i) PROVE WorldOK' /\ Grown
  BY <1>4, <1>6 DEF KidOpensPr, WorldOK, Grown
<1>7. ASSUME NEW t \in Tickets, NEW i \in DOMAIN revs[t], ReviewEnds(t, i)
      PROVE  WorldOK' /\ Grown
  <2>1. \E s \in RevState : revs' = [revs EXCEPT ![t][i] = s]
    BY <1>0, <1>7 DEF ReviewEnds
  <2>2. UNCHANGED <<kids, human>> /\ gh' \in [Tickets -> PrState]
    BY <1>0, <1>7 DEF ReviewEnds, WorldOK
  <2>3. /\ revs' \in [Tickets -> Seq(RevState)]
        /\ \A u \in Tickets : Len(revs[u]) <= Len(revs'[u])
    BY <1>2, <2>1
  <2>4. \A u \in Tickets : Len(kids[u]) \in Nat
    BY <1>0
  <2> QED BY <2>2, <2>3, <2>4 DEF WorldOK, Grown
<1> QED BY <1>3, <1>5, <1>6, <1>7 DEF World

\* So does a restart, which may fail the claimed tasks.
LEMMA CrashWorld ==
    ASSUME WorldOK, CrashAndResume
    PROVE  WorldOK' /\ Grown
<1>1. human' \subseteq Tickets
  BY DEF CrashAndResume, LabelledMeanwhile, WorldOK
<1>2. CASE UNCHANGED kids
  <2>1. UNCHANGED <<kids, revs, gh>>
    BY <1>2 DEF CrashAndResume
  <2>2. \A t \in Tickets : Len(kids[t]) \in Nat /\ Len(revs[t]) \in Nat
    BY DEF WorldOK
  <2> QED BY <1>1, <2>1, <2>2 DEF WorldOK, Grown
<1>3. CASE OrphansRecovered
  <2> DEFINE g(t) == [i \in DOMAIN kids[t] |->
                        IF kids[t][i] = "claimed" THEN "failed" ELSE kids[t][i]]
  <2>1. \A t \in Tickets : kids[t] \in Seq(KidState)
    BY DEF WorldOK
  <2>2. \A t \in Tickets : g(t) \in [DOMAIN kids[t] -> KidState]
    BY <2>1 DEF KidState, KidDone
  <2>3. \A t \in Tickets : g(t) \in Seq(KidState) /\ Len(g(t)) = Len(kids[t])
    BY <2>1, <2>2, MappedSeq
  <2>4. kids' = [t \in Tickets |-> g(t)]
    BY <1>3 DEF OrphansRecovered
  <2>5. \A t \in Tickets : Len(kids[t]) \in Nat /\ Len(revs[t]) \in Nat
    BY DEF WorldOK
  <2>6. UNCHANGED <<revs, gh>>
    BY DEF CrashAndResume
  <2> HIDE DEF g
  <2> QED BY <1>1, <2>3, <2>4, <2>5, <2>6 DEF WorldOK, Grown
<1> QED BY <1>2, <1>3 DEF CrashAndResume

-----------------------------------------------------------------------------
(* The checkpoint and the counters.                                        *)

\* A step of one ticket counts faults up, and no crash.
LEMMA CountersTicket ==
    ASSUME SavedOK, NEW t \in Tickets,
           DispatchTicket(t) \/ PollTicket(t) \/ ReviewTicket(t)
    PROVE  faults' \in Nat /\ faults <= faults' /\ crashes' = crashes
<1>0. /\ faults \in Nat
      /\ Fault => faults' \in Nat /\ faults <= faults'
      /\ UNCHANGED faults => faults' \in Nat /\ faults <= faults'
  BY DEF SavedOK, Fault
<1>1. CASE HoldBack(t) \/ SkipHuman(t) \/ SkipShipped(t) \/ RefuseDuplicate(t)
             \/ DispatchChild(t)
  BY <1>0, <1>1 DEF HoldBack, SkipHuman, SkipShipped, RefuseDuplicate, DispatchChild,
                    dispatchRest
<1>2. CASE Ss08Acked(t) \/ Ss08Deferred(t)
  BY <1>0, <1>2 DEF Ss08Acked, Ss08Deferred, KeepsMidTick, gateRest
<1>3. CASE MergeInherited(t)
  BY <1>0, <1>3 DEF MergeInherited, Merge, MergeLands, MergeRefused,
                    MergeUnacknowledged, dispatchRest
<1>4. CASE AwaitInherited(t) \/ DispatchRaises(t)
  BY <1>0, <1>4 DEF AwaitInherited, ReviewRegistered, AdoptReview, FireReview, NoReviewId,
                    DispatchRaises, NoKidId, dispatchRest
<1>5. CASE PollTicket(t)
  BY <1>0, <1>5 DEF PollTicket, PollAbandon, PollTimeout, PollPhantom, PollRunning,
                    PollFailed, PollGap, PollPr, PollSilent, NoReviewId, pollRest
<1>6. CASE ReviewApproved(t)
  BY <1>0, <1>6 DEF ReviewApproved, Merge, MergeLands, MergeRefused,
                    MergeUnacknowledged, reviewRest
<1>7. CASE ReviewTriage(t) \/ ReviewExhausted(t) \/ ReviewHuman(t) \/ ReviewRespawn(t)
  BY <1>0, <1>7 DEF ReviewTriage, ReviewExhausted, ReviewHuman, ReviewRespawn,
                    reviewRest
<1>8. CASE RespawnRaises(t) \/ ReviewSilent(t)
  BY <1>0, <1>8 DEF RespawnRaises, ReviewSilent, NoKidId, NoReviewId, reviewRest
<1> QED BY <1>1, <1>2, <1>3, <1>4, <1>5, <1>6, <1>7, <1>8
        DEF DispatchTicket, ReviewTicket

\* So does every step of the tick.
LEMMA CountersTick ==
    ASSUME SavedOK, Tick
    PROVE  faults' \in Nat /\ faults <= faults' /\ crashes' = crashes
<1>0. /\ faults \in Nat
      /\ Fault => faults' \in Nat /\ faults <= faults'
      /\ UNCHANGED faults => faults' \in Nat /\ faults <= faults'
  BY DEF SavedOK, Fault
<1>1. CASE Top \/ EndDispatch \/ Snapshot \/ ReviewsEnd \/ Sleep \/ HardStop
  BY <1>0, <1>1 DEF Top, EndDispatch, Snapshot, ReviewsEnd, Sleep, HardStop,
                    KeepsMidTick
<1>2. CASE PollNothing \/ PollListFails \/ PollList \/ PollClaimed \/ PollSweep
  BY <1>0, <1>2 DEF PollNothing, PollListFails, PollList, PollClaimed, PollSweep,
                    listRest
<1>3. CASE EndOfTick
  BY <1>0, <1>3 DEF EndOfTick, ForcePass, Finish, CancelExit, Coerce, GoOn, tailRest
<1> QED BY <1>1, <1>2, <1>3, CountersTicket DEF Tick

\* The SS-08 gate and the hard stop store the state in the middle of a tick.
Stores == /\ HardStop \/ \E t \in Tickets : Ss08Acked(t) \/ Ss08Deferred(t)
          /\ snap.valid /\ saved' = MidTick(acked')

\* No other step of one ticket writes soul memory.
LEMMA StoresTicket ==
    ASSUME MemOK, NEW t \in Tickets,
           DispatchTicket(t) \/ PollTicket(t) \/ ReviewTicket(t)
    PROVE  UNCHANGED snap /\ (UNCHANGED saved \/ Stores)
<1>1. CASE Ss08Acked(t)
  <2>1. UNCHANGED snap /\ acked' = TRUE /\ KeepsMidTick(TRUE)
    BY <1>1 DEF Ss08Acked, gateRest
  <2>2. UNCHANGED saved \/ (snap.valid /\ saved' = MidTick(acked'))
    BY <2>1 DEF KeepsMidTick
  <2> QED BY <1>1, <2>1, <2>2 DEF Stores
<1>2. CASE Ss08Deferred(t)
  <2>1. UNCHANGED snap /\ acked' = FALSE /\ KeepsMidTick(FALSE)
    BY <1>2 DEF Ss08Deferred, gateRest, Ss08Pending, MemOK
  <2>2. UNCHANGED saved \/ (snap.valid /\ saved' = MidTick(acked'))
    BY <2>1 DEF KeepsMidTick
  <2> QED BY <1>2, <2>1, <2>2 DEF Stores
<1>3. CASE DispatchTicket(t) /\ ~Ss08Acked(t) /\ ~Ss08Deferred(t)
  BY <1>3 DEF DispatchTicket, HoldBack, SkipHuman, SkipShipped, MergeInherited,
              AwaitInherited, RefuseDuplicate, DispatchChild, DispatchRaises,
              dispatchRest
<1>4. CASE PollTicket(t)
  BY <1>4 DEF PollTicket, PollAbandon, PollTimeout, PollPhantom, PollRunning,
              PollFailed, PollGap, PollPr, PollSilent, pollRest
<1>5. CASE ReviewTicket(t)
  BY <1>5 DEF ReviewTicket, ReviewApproved, ReviewTriage, ReviewExhausted,
              ReviewHuman, ReviewRespawn, RespawnRaises, ReviewSilent, reviewRest
<1> QED BY <1>1, <1>2, <1>3, <1>4, <1>5

\* What a step of the tick does to the snapshot and to soul memory.
LEMMA StoresTick ==
    ASSUME MemOK, Tick
    PROVE  \/ UNCHANGED <<snap, saved>>
           \/ Stores /\ UNCHANGED snap
           \/ /\ Snapshot /\ snap' = SnapshotNow
              /\ saved' = Checkpoint(snap') \/ UNCHANGED saved
           \/ Sleep /\ snap' = AgedCopy(snap) /\ saved' = AgedCopy(saved)
<1>1. CASE Snapshot
  BY <1>1 DEF Snapshot
<1>2. CASE Sleep
  BY <1>2 DEF Sleep
<1>3. CASE HardStop
  <2>1. UNCHANGED <<snap, acked>> /\ KeepsMidTick(acked)
    BY <1>3 DEF HardStop
  <2>2. UNCHANGED saved \/ (snap.valid /\ saved' = MidTick(acked'))
    BY <2>1 DEF KeepsMidTick
  <2> QED BY <1>3, <2>1, <2>2 DEF Stores
<1>4. ASSUME NEW t \in Tickets, DispatchTicket(t) \/ PollTicket(t) \/ ReviewTicket(t)
      PROVE  UNCHANGED snap /\ (UNCHANGED saved \/ Stores)
  BY <1>4, StoresTicket
<1>5. CASE Top \/ EndDispatch \/ ReviewsEnd
  BY <1>5 DEF Top, EndDispatch, ReviewsEnd
<1>6. CASE PollNothing \/ PollListFails \/ PollList \/ PollClaimed \/ PollSweep
  BY <1>6 DEF PollNothing, PollListFails, PollList, PollClaimed, PollSweep, listRest
<1>7. CASE EndOfTick
  BY <1>7 DEF EndOfTick, ForcePass, Finish, CancelExit, Coerce, GoOn, tailRest
<1> QED BY <1>1, <1>2, <1>3, <1>4, <1>5, <1>6, <1>7 DEF Tick

\* A checkpoint that is valid has been written.
LEMMA NoCheckpointInvalid ==
    ASSUME NEW s \in {NoCheckpoint} \cup CheckpointRecord, s.valid
    PROVE  s \in CheckpointRecord
<1>1. NoCheckpoint.valid = FALSE
  BY DEF NoCheckpoint
<1> QED BY <1>1

\* A snapshot that is valid has been taken or restored.
LEMMA NoSnapshotInvalid ==
    ASSUME NEW s \in {NoCheckpoint} \cup SnapshotRecord, s.valid
    PROVE  s \in SnapshotRecord
<1>1. NoCheckpoint.valid = FALSE
  BY DEF NoCheckpoint
<1> QED BY <1>1

\* Time passes for a copy as it does for the tickets.
LEMMA AgedCopyType ==
    /\ \A s \in {NoCheckpoint} \cup CheckpointRecord :
          AgedCopy(s) \in {NoCheckpoint} \cup CheckpointRecord
    /\ \A s \in {NoCheckpoint} \cup SnapshotRecord :
          AgedCopy(s) \in {NoCheckpoint} \cup SnapshotRecord
<1>1. AgedCopy(NoCheckpoint) = NoCheckpoint
  BY DEF AgedCopy, NoCheckpoint
<1>2. ASSUME NEW q \in Nat \cup {NoTime} PROVE Older(q, Grace) \in Nat \cup {NoTime}
  BY WaveAssumption DEF Older, NoTime, WaveAssumption
<1>3. ASSUME NEW s \in CheckpointRecord PROVE AgedCopy(s) \in CheckpointRecord
  <2>1. /\ [t \in Tickets |-> Aged(s.tk[t])] \in [Tickets -> TicketRecord]
        /\ Older(s.quietAge, Grace) \in Nat \cup {NoTime}
    BY <1>2, AgedType DEF CheckpointRecord
  <2>2. AgedCopy(s) = [s EXCEPT !.tk = [t \in Tickets |-> Aged(s.tk[t])],
                                !.quietAge = Older(s.quietAge, Grace)]
    BY DEF AgedCopy, CheckpointRecord
  <2> QED BY <2>1, <2>2 DEF CheckpointRecord
<1>4. ASSUME NEW s \in SnapshotRecord PROVE AgedCopy(s) \in SnapshotRecord
  <2>1. /\ [t \in Tickets |-> Aged(s.tk[t])] \in [Tickets -> TicketRecord]
        /\ Older(s.quietAge, Grace) \in Nat \cup {NoTime}
    BY <1>2, AgedType DEF SnapshotRecord
  <2>2. AgedCopy(s) = [s EXCEPT !.tk = [t \in Tickets |-> Aged(s.tk[t])],
                                !.quietAge = Older(s.quietAge, Grace)]
    BY DEF AgedCopy, SnapshotRecord
  <2> QED BY <2>1, <2>2 DEF SnapshotRecord
<1> QED BY <1>1, <1>3, <1>4

\* The state stored in the middle of a tick is a checkpoint of the right type.
LEMMA MidTickType ==
    ASSUME MemOK, tk \in [Tickets -> TicketRecord], snap \in SnapshotRecord,
           NEW ack \in BOOLEAN
    PROVE  MidTick(ack) \in CheckpointRecord
<1>1. \A q, r \in TicketRecord : [q EXCEPT !.review = r.review] \in TicketRecord
  BY DEF TicketRecord
<1>2. [t \in Tickets |-> [snap.tk[t] EXCEPT !.review = tk[t].review]]
        \in [Tickets -> TicketRecord]
  BY <1>1 DEF SnapshotRecord
<1> QED BY <1>2 DEF MidTick, CheckpointRecord, SnapshotRecord, MemOK

\* Every step of the tick keeps snapshot and checkpoint of the right type.
LEMMA SavedTick ==
    ASSUME SavedOK, MemOK, MemOK', tk \in [Tickets -> TicketRecord],
           tk' \in [Tickets -> TicketRecord], Tick
    PROVE  SavedOK'
<1>0. faults' \in Nat /\ crashes' \in Nat
  BY CountersTick DEF SavedOK
<1>1. /\ saved \in {NoCheckpoint} \cup CheckpointRecord
      /\ snap \in {NoCheckpoint} \cup SnapshotRecord
  BY DEF SavedOK
<1> SUFFICES /\ saved' \in {NoCheckpoint} \cup CheckpointRecord
             /\ snap' \in {NoCheckpoint} \cup SnapshotRecord
  BY <1>0 DEF SavedOK
<1>2. CASE UNCHANGED <<snap, saved>>
  BY <1>1, <1>2
<1>3. CASE Stores /\ UNCHANGED snap
  <2>1. snap \in SnapshotRecord /\ acked' \in BOOLEAN
    BY <1>1, <1>3, NoSnapshotInvalid DEF Stores, MemOK
  <2> QED BY <1>1, <1>3, <2>1, MidTickType DEF Stores
<1>4. CASE /\ Snapshot /\ snap' = SnapshotNow
           /\ saved' = Checkpoint(snap') \/ UNCHANGED saved
  <2>1. [t \in Tickets |-> Persisted(tk'[t])] \in [Tickets -> TicketRecord]
    BY SnappedType
  <2>2. SnapshotNow \in SnapshotRecord
    BY <2>1 DEF SnapshotNow, SnapshotRecord, MemOK
  <2>3. \A s \in SnapshotRecord : Checkpoint(s) \in CheckpointRecord
    BY DEF Checkpoint, CheckpointRecord, SnapshotRecord, MemOK
  <2> QED BY <1>1, <1>4, <2>2, <2>3
<1>5. CASE Sleep /\ snap' = AgedCopy(snap) /\ saved' = AgedCopy(saved)
  BY <1>1, <1>5, AgedCopyType
<1> QED BY <1>2, <1>3, <1>4, <1>5, StoresTick

-----------------------------------------------------------------------------
(* The whole shape.                                                        *)

\* A hydrated run is of the right shape.
LEMMA ShapeInit == Init => Shape
<1> SUFFICES ASSUME Init PROVE Shape
  OBVIOUS
<1>1. tk \in [Tickets -> TicketRecord]
  <2>1. \A s \in Status : NewTicket(s) \in TicketRecord
    BY DEF NewTicket, TicketRecord
  <2> QED BY <2>1, WaveAssumption DEF Init
<1>2. MemOK
  BY DEF Init, MemOK
<1>3. LocalOK
  BY DEF Init, LocalOK
<1>4. WorldOK
  <2>1. <<"claimed">> \in Seq(KidState) /\ <<>> \in Seq(KidState)
    BY DEF KidState
  <2>2. <<"open">> \in Seq(RevState) /\ <<>> \in Seq(RevState)
    BY DEF RevState
  <2> QED BY <2>1, <2>2, WaveAssumption DEF Init, WorldOK
<1>5. SavedOK
  BY DEF Init, SavedOK
<1> QED BY <1>1, <1>2, <1>3, <1>4, <1>5 DEF Shape

\* A restart restores a graph of the right shape.
LEMMA ShapeCrash == ASSUME Shape, CrashAndResume PROVE Shape'
<1>1. saved \in CheckpointRecord
  BY NoCheckpointInvalid DEF Shape, SavedOK, CrashAndResume
<1>2. tk' \in [Tickets -> TicketRecord]
  BY <1>1 DEF CrashAndResume, CheckpointRecord
<1>3. MemOK'
  <2>1. ledger' \in [Tickets -> Nat]
    BY <1>1 DEF CrashAndResume, CheckpointRecord, TicketRecord
  <2>2. labelled' \subseteq Tickets
    BY CrashWorld DEF CrashAndResume, Shape, WorldOK
  <2> QED BY <1>1, <2>1, <2>2 DEF CrashAndResume, CheckpointRecord, MemOK, Shape
<1>4. LocalOK'
  BY DEF CrashAndResume, LocalOK
<1>5. WorldOK'
  BY CrashWorld DEF Shape
<1>6. SavedOK'
  <2>1. [valid |-> TRUE, tk |-> saved.tk, quietAge |-> saved.quietAge]
          \in SnapshotRecord
    BY <1>1 DEF CheckpointRecord, SnapshotRecord
  <2>2. snap' \in {NoCheckpoint} \cup SnapshotRecord
    BY <2>1 DEF CrashAndResume
  <2>3. saved' \in {NoCheckpoint} \cup CheckpointRecord
    BY <1>1 DEF CrashAndResume
  <2>4. faults' \in Nat /\ crashes' \in Nat
    BY DEF CrashAndResume, SavedOK, Shape
  <2> QED BY <2>2, <2>3, <2>4 DEF SavedOK
<1> QED BY <1>2, <1>3, <1>4, <1>5, <1>6 DEF Shape

\* The world's moves keep the shape.
LEMMA ShapeWorld == ASSUME Shape, World PROVE Shape'
<1>1. UNCHANGED <<mem, local, saved, crashes>> /\ faults' \in {faults, faults + 1}
  BY DEF World, LabelHuman, KidClaimed, KidOpensPr, KidEnds, KidLost, ReviewEnds,
         outside, Fault
<1>2. WorldOK'
  BY OutsideWorld DEF Shape
<1> QED BY <1>1, <1>2 DEF Shape, MemOK, LocalOK, SavedOK, mem, local

\* Every step keeps the shape.
LEMMA ShapeStep == Shape /\ [Next]_vars => Shape'
<1>1. ASSUME Shape, Tick PROVE Shape'
  BY <1>1, TkTick, MemTick, LocalTick, WorldTick, SavedTick DEF Shape
<1>2. ASSUME Shape, UNCHANGED vars PROVE Shape'
  BY <1>2 DEF Shape, MemOK, LocalOK, WorldOK, SavedOK, vars, mem, local, world
<1> QED BY <1>1, <1>2, ShapeCrash, ShapeWorld DEF Next, WaveOver

\* Every variable of the wave loop keeps its type.
THEOREM ShapeAlways == Spec => []Shape
BY ShapeInit, ShapeStep, PTL DEF Spec
=============================================================================
