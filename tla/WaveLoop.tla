------------------------------ MODULE WaveLoop ------------------------------
(***************************************************************************)
(* The inner loop of AutonomousBuildOrchestrator: one wave of Linear       *)
(* tickets is dispatched to builder children on the mesh, polled, reviewed *)
(* and merged until every ticket is terminal (orchestrator.py,             *)
(* _dispatch_wave and everything it calls).                                *)
(*                                                                         *)
(* One tick of the loop is cut at the awaits where the orchestrator reads  *)
(* the outside world, so that children, reviews and GitHub may move in     *)
(* between:                                                                *)
(*                                                                         *)
(*    top -> dispatch -> list -> claimed -> poll -> reviews -> tail        *)
(*     ^                                                        |          *)
(*     +----------------------- sleep <-------------------------+          *)
(*                                                                         *)
(* Time is counted in ticks: a timestamp field of the code is the number   *)
(* of sleeps since it was stamped (NoTime for None), capped one past the   *)
(* threshold it is compared with.                                          *)
(***************************************************************************)
EXTENDS Integers, FiniteSets, Sequences

CONSTANTS
    Tickets,        \* the tickets of the wave
    BlocksIn,       \* Ticket.blocks_in: the tickets that block each ticket
    Epic,           \* Ticket.epic
    Critical,       \* tickets with is_critical_path
    Ss08Tickets,    \* tickets whose code is SS-08
    Collides,       \* unordered pairs of tickets with overlapping file sets
    MaxParallel,    \* max_parallel_subs
    PerEpicCap,     \* per_epic_cap
    RetryBudget,    \* retry_budget
    MaxReviewCycles, TriageThreshold, PhantomMax, ChainLen, MaxAttempts,
    HardTimeout, Backoff, StuckChild, Grace, PhantomWindow, StallWindow,
    HistoryCap,     \* samples kept by _maybe_force_pass_stalled_wave
    Hydrated,       \* statuses build_ticket_graph may give a ticket
    InheritedPrs,   \* states a PR from an earlier run may be in
    Signals,        \* subset of {"cancel", "budget", "label", "down"} that may occur
    MaxFaults,      \* bound: infrastructure calls that fail in a behaviour
    MaxCrashes      \* bound: daemon crashes in a behaviour

Active == {"DISPATCHED", "IN_PROGRESS", "PR_OPEN", "REVIEWING", "MERGE_REQUESTED"}
Terminal == {"MERGED_GREEN", "FAILED", "ESCALATED", "ABANDONED", "TRIAGE_NEEDED"}
Status == Active \cup Terminal
            \cup {"PENDING", "BLOCKED", "BACKED_OFF", "AWAITING_REVIEW"}
BuildPhase == {"DISPATCHED", "IN_PROGRESS"}
HandedOff == {"REVIEWING", "AWAITING_REVIEW", "MERGE_REQUESTED"}

\* A builder child: queued, claimed by a worker, or finished in one of the
\* ways _poll_children tells apart; "lost" is a task in none of the mesh lists,
\* "over" one that ended and that no run can read again.
KidDone == {"pr", "gap", "silent", "failed"}
KidState == KidDone \cup {"pending", "claimed", "lost", "over"}
\* A hawkman-qa-a review task: not yet completed, or completed with a verdict;
\* "failed" is a task that ended in the mesh's failed list.
RevDone == {"approve", "changes", "silent", "failed"}
RevState == RevDone \cup {"open", "over"}
PrState == {"none", "open", "approved", "merged"}

NoTime == -1

ASSUME WaveAssumption ==
    /\ IsFiniteSet(Tickets)
    /\ Ss08Tickets \subseteq Tickets /\ Critical \subseteq Tickets
    /\ MaxParallel \in Nat /\ PerEpicCap \in Nat /\ RetryBudget \in Nat
    /\ MaxReviewCycles \in Nat /\ TriageThreshold \in Nat /\ PhantomMax \in Nat
    /\ ChainLen \in Nat /\ MaxAttempts \in Nat
    /\ HardTimeout \in Nat /\ Backoff \in Nat /\ StuckChild \in Nat
    /\ Grace \in Nat /\ PhantomWindow \in Nat /\ StallWindow \in Nat
    /\ HistoryCap \in Nat \ {0}
    /\ Hydrated \subseteq Status /\ InheritedPrs \subseteq PrState
    /\ MaxFaults \in Nat /\ MaxCrashes \in Nat

VARIABLES
    pc,        \* where the tick is
    tk,        \* the Ticket dataclass of every node of the graph
    ledger,    \* _in_flight_dispatches: child id, 0 when there is no entry
    streak,    \* consecutive_same_gate_skips: count for the current gate
    mergedUrls,\* keys of state.merged_pr_urls
    recents,   \* _consecutive_phantoms: ages of the recorded phantom clean-ups
    labelled,  \* tickets whose hydrated labels hold human-assigned
    quietAge,  \* _no_progress_since
    flat,      \* ticks since green_count last rose, as far as history shows
    greens,    \* green_count at the last sample
    stopped,   \* the budget's hard stop, which lasts until a restart
    cancel, acked,
    snap,      \* state.ticket_status and what else _snapshot_graph_into_state copies
    \* locals of one tick
    inFlight, quiet, todo, rec, claimedView, fresh, lastDone,
    \* the world outside
    kids, revs, gh, human,
    \* soul memory, and the bounds
    saved, faults, crashes

mem == <<pc, tk, ledger, streak, mergedUrls, recents, labelled, quietAge, flat,
         greens, stopped, cancel, acked, snap>>
local == <<inFlight, quiet, todo, rec, claimedView, fresh, lastDone>>
world == <<kids, revs, gh, human>>
vars == <<mem, local, world, saved, faults, crashes>>
-----------------------------------------------------------------------------
(* Helpers.                                                                *)

Older(age, limit) == IF age = NoTime THEN NoTime
                     ELSE IF age > limit THEN age ELSE age + 1

WithStatus(S) == {t \in Tickets : tk[t].status \in S}

\* Mutant: a blocker that ended in any way unblocks.
DepsTerminal(t) == \A d \in BlocksIn[t] \cap Tickets : tk[d].status \in Terminal

DepsSatisfied(t) == \A d \in BlocksIn[t] \cap Tickets : tk[d].status = "MERGED_GREEN"

Live(t) == \/ \E i \in DOMAIN kids[t] : kids[t][i] \in {"pending", "claimed"}
           \/ \E i \in DOMAIN revs[t] : revs[t][i] = "open"

Fault == faults < MaxFaults /\ faults' = faults + 1

\* Children the ticket, or a run restored from the checkpoint, may still read.
ReadableKids(t) ==
    {tk[t].child} \cup IF crashes = MaxCrashes THEN {}
                      ELSE {tk[t].noted} \cup IF saved.valid THEN {saved.tk[t].child}
                                             ELSE {}

\* Mutant: an id is returned for a task that was never queued.
NewKidUnqueued(t) == t \in Tickets /\ UNCHANGED kids

\* mesh.create_task for a builder: the task is queued and its id returned.
NewKid(t) ==
    kids' = [kids EXCEPT ![t] =
               Append([i \in DOMAIN @ |->
                         IF @[i] \in KidDone /\ i \notin ReadableKids(t) \ {tk[t].child}
                         THEN "over" ELSE @[i]], "pending")]
KidId(t) == Len(kids[t]) + 1
\* mesh.create_task raises: the request was lost, or it landed and only the
\* answer was lost.
NoKidId(t) == Fault /\ (NewKid(t) \/ UNCHANGED kids)

NewReview(t) ==
    revs' = [revs EXCEPT ![t] =
               Append([i \in DOMAIN @ |-> IF @[i] \in RevDone /\ crashes = MaxCrashes
                                          THEN "over" ELSE @[i]], "open")]
RevId(t) == Len(revs[t]) + 1
NoReviewId(t) == Fault /\ (NewReview(t) \/ UNCHANGED revs)
-----------------------------------------------------------------------------
(* The start of a run: hydrated from Linear, no checkpoint yet.            *)

NewTicket(s) ==
    [status |-> s, shown |-> "none", child |-> 0, noted |-> 0, tried |-> 0,
     retries |-> 0, phantom |-> FALSE, dispAge |-> NoTime, backAge |-> NoTime,
     stuckAge |-> NoTime, pr |-> FALSE, cycles |-> 0, review |-> 0, silents |-> 0,
     cleaned |-> 0]

NoCheckpoint == [valid |-> FALSE]

Init ==
    /\ pc = "top"
    /\ tk \in {[t \in Tickets |-> NewTicket(s[t])] : s \in [Tickets -> Hydrated]}
    /\ ledger = [t \in Tickets |-> 0]
    /\ streak = [t \in Tickets |-> 0]
    /\ mergedUrls = {} /\ recents = [t \in Tickets |-> {}]
    /\ quietAge = NoTime /\ flat = NoTime /\ greens = 0
    /\ stopped = FALSE /\ cancel = FALSE /\ acked = FALSE
    /\ inFlight = {} /\ quiet = FALSE /\ todo = {}
    /\ rec = [t \in Tickets |-> "none"]
    /\ claimedView = {} /\ fresh = {} /\ lastDone = {}
    \* a builder of an earlier run may still be working on an active ticket
    /\ kids \in {k \in [Tickets -> {<<>>, <<"claimed">>}] :
                   \A t \in Tickets : k[t] # <<>> => tk[t].status \in Active}
    /\ gh \in {g \in [Tickets -> InheritedPrs] :
                 \A t \in Tickets : tk[t].status = "MERGED_GREEN" => g[t] = "merged"}
    \* and a reviewer on the open PR it left
    /\ revs \in {r \in [Tickets -> {<<>>, <<"open">>}] :
                   \A t \in Tickets : r[t] # <<>> => gh[t] = "open"}
    /\ human \in SUBSET (IF "label" \in Signals THEN Tickets ELSE {})
    /\ labelled = human
    /\ snap = NoCheckpoint /\ saved = NoCheckpoint /\ faults = 0 /\ crashes = 0
-----------------------------------------------------------------------------
(* top: cancel signal, orphan reconcile, ready selection.                  *)

Orphans == {t \in WithStatus(Active) : tk[t].child = 0}

\* _reconcile_orphan_active force-fails these; meshOk is whether the active
\* titles could be listed.
Forced(meshOk) == {t \in Orphans : \/ meshOk /\ ~Live(t)
                                   \/ tk[t].stuckAge > StuckChild}

ForceFailed(t) == [tk[t] EXCEPT !.status = "FAILED", !.phantom = TRUE]

Ready(meshOk) == {t \in WithStatus({"PENDING", "BLOCKED"}) : DepsSatisfied(t)}

Top ==
    /\ pc = "top"
    /\ cancel' \in {cancel} \cup {c \in {TRUE} : "cancel" \in Signals}
    /\ \E meshOk \in BOOLEAN :
         /\ IF meshOk THEN UNCHANGED faults ELSE Orphans # {} /\ Fault
         \* the returned list is dropped: these tickets skip the retry sweep
         /\ tk' = [t \in Tickets |->
                     CASE t \in Forced(meshOk) -> ForceFailed(t)
                       [] tk[t].status \in {"PENDING", "BLOCKED"} ->
                            [tk[t] EXCEPT !.status = IF DepsSatisfied(t)
                                                     THEN "PENDING" ELSE "BLOCKED"]
                       [] OTHER -> tk[t]]
         /\ inFlight' = WithStatus(Active) \ Forced(meshOk)
         /\ todo' = Ready(meshOk)
         /\ quiet' = (inFlight' = {} /\ todo' = {})
    /\ pc' = "dispatch"
    /\ UNCHANGED <<ledger, streak, mergedUrls, recents, labelled, quietAge, flat,
                   greens, stopped, acked, snap, rec, claimedView, fresh, lastDone,
                   world, saved, crashes>>
-----------------------------------------------------------------------------
(* dispatch: the ready list, critical path first, within the caps.         *)

Stops == cancel \/ stopped \/ Cardinality(inFlight) >= MaxParallel

EndDispatch ==
    /\ pc = "dispatch" /\ (todo = {} \/ Stops)
    /\ pc' = "list" /\ todo' = {}
    /\ UNCHANGED <<tk, ledger, streak, mergedUrls, recents, labelled, quietAge, flat,
                   greens, stopped, cancel, acked, snap, inFlight, quiet, rec,
                   claimedView, fresh, lastDone, world, saved, faults, crashes>>

Candidate(t) ==
    /\ pc = "dispatch" /\ ~Stops /\ t \in todo
    /\ todo \cap Critical # {} => t \in Critical

HeldBack(t) ==
    \/ Cardinality({u \in inFlight : Epic[u] = Epic[t]}) >= PerEpicCap
    \/ \E u \in inFlight : u # t /\ {t, u} \in Collides

\* Per-epic cap or file collision: leave the ticket for a later tick.
HoldBack(t) ==
    /\ Candidate(t) /\ HeldBack(t)
    /\ todo' = todo \ {t}
    /\ UNCHANGED <<pc, tk, ledger, streak, mergedUrls, recents, labelled, quietAge,
                   flat, greens, stopped, cancel, acked, snap, inFlight, quiet, rec,
                   claimedView, fresh, lastDone, world, saved, faults, crashes>>

Considered(t) == Candidate(t) /\ ~HeldBack(t)

\* Everything a dispatch decision leaves alone.
dispatchRest == <<pc, streak, recents, labelled, quietAge, flat, greens, stopped,
                  cancel, snap, quiet, rec, claimedView, fresh, lastDone, saved, crashes>>
gateRest == <<pc, streak, mergedUrls, recents, labelled, quietAge, flat, greens, stopped,
              cancel, snap, quiet, rec, claimedView, fresh, lastDone, ledger, inFlight,
              world, crashes>>

Ss08Pending(t) == t \in Ss08Tickets /\ ~acked

\* A checkpoint in the middle of a tick: of a ticket, status, child, PR, counts and
\* clocks are as in the last snapshot, but the review as it is now.
MidTick(ack) ==
    [valid |-> TRUE,
     tk |-> [t \in Tickets |-> [snap.tk[t] EXCEPT !.review = tk[t].review]],
     mergedUrls |-> mergedUrls, streak |-> streak, quietAge |-> snap.quietAge,
     acked |-> ack]

\* Soul memory errors are swallowed.
KeepsMidTick(ack) ==
    IF snap.valid THEN \/ saved' = MidTick(ack) /\ UNCHANGED faults
                       \/ UNCHANGED saved /\ Fault
    ELSE UNCHANGED <<saved, faults>>

\* Mutant: the acknowledgement is only kept in memory until the snapshot.
Ss08AckedInMemory(t) ==
    /\ Considered(t) /\ Ss08Pending(t)
    /\ acked' = TRUE
    /\ UNCHANGED <<gateRest, tk, todo, saved, faults>>

\* run_ss08_gate blocks until Cristian acknowledges, or defers the ticket.
Ss08Acked(t) ==
    /\ Considered(t) /\ Ss08Pending(t)
    /\ acked' = TRUE
    /\ KeepsMidTick(TRUE)
    /\ UNCHANGED <<gateRest, tk, todo>>

Ss08Deferred(t) ==
    /\ Considered(t) /\ Ss08Pending(t)
    /\ tk' = [tk EXCEPT ![t].status = "FAILED"]
    /\ todo' = todo \ {t}
    /\ KeepsMidTick(FALSE)
    /\ UNCHANGED <<gateRest, acked>>

Dispatchable(t) == Considered(t) /\ ~Ss08Pending(t)

SkipHuman(t) ==
    /\ Dispatchable(t) /\ t \in labelled
    /\ tk' = [tk EXCEPT ![t].status = "ESCALATED"]
    /\ todo' = todo \ {t}
    /\ UNCHANGED <<dispatchRest, ledger, mergedUrls, acked, inFlight, world, faults>>

\* What the GitHub lookups report: the truth, or nothing when the search fails or
\* is cached, or the open PR is too old or already has a verdict against it.
Lookup(t) == {gh[t], "none"}

SkipShipped(t) ==
    /\ Dispatchable(t) /\ t \notin labelled /\ "merged" \in Lookup(t)
    /\ tk' = [tk EXCEPT ![t].status = "MERGED_GREEN", ![t].pr = TRUE]
    /\ todo' = todo \ {t}
    /\ UNCHANGED <<dispatchRest, ledger, mergedUrls, acked, inFlight, world, faults>>

\* _merge_pr, whose answer decides between MERGED_GREEN and FAILED; known says
\* whether the ticket carries a PR url to merge.
MergeLands(t, known) ==
    /\ \/ t \in mergedUrls /\ UNCHANGED <<gh, mergedUrls>>
       \/ /\ known /\ t \notin mergedUrls /\ gh[t] \in {"open", "approved"}
          /\ gh' = [gh EXCEPT ![t] = "merged"]
          /\ mergedUrls' = mergedUrls \cup {t}
    /\ tk' = [tk EXCEPT ![t].status = "MERGED_GREEN", ![t].pr = known]
    /\ UNCHANGED faults

\* Mutant: the refusal of a PR that is not mergeable counts as "already merged".
MergeRefusedAsMerged(t, known) ==
    /\ t \notin mergedUrls
    /\ tk' = [tk EXCEPT ![t].status = "MERGED_GREEN", ![t].pr = known]
    /\ UNCHANGED <<gh, mergedUrls, faults>>

\* A guardrail refuses, or GitHub does (an already merged PR answers 405), or
\* there is no url.
MergeRefused(t, known) ==
    /\ t \notin mergedUrls
    /\ tk' = [tk EXCEPT ![t].status = "FAILED", ![t].pr = known]
    /\ UNCHANGED <<gh, mergedUrls, faults>>

\* GitHub merges and the answer is lost: the tool call raises.
MergeUnacknowledged(t, known) ==
    /\ known /\ t \notin mergedUrls /\ gh[t] \in {"open", "approved"} /\ Fault
    /\ gh' = [gh EXCEPT ![t] = "merged"]
    /\ tk' = [tk EXCEPT ![t].status = "FAILED", ![t].pr = TRUE]
    /\ UNCHANGED mergedUrls

Merge(t, known) ==
    MergeLands(t, known) \/ MergeRefused(t, known) \/ MergeUnacknowledged(t, known)

\* The open-PR lookup: an approval may not show yet in a cached answer.
SeenPr(t) == Lookup(t) \cup {p \in {"open"} : gh[t] = "approved"}

NotShipped(t) == Dispatchable(t) /\ t \notin labelled

MergeInherited(t) ==
    /\ NotShipped(t) /\ "approved" \in SeenPr(t)
    /\ Merge(t, TRUE)
    /\ todo' = todo \ {t}
    /\ UNCHANGED <<dispatchRest, ledger, acked, inFlight, kids, revs, human>>

\* _fire_review_for_inherited_pr: nothing when a review is registered, though the
\* ticket does not wait for it; else adopt an open review from the mesh (the
\* ticket learns no PR url then), or fire a fresh one.
OpenReviews(t) == {i \in DOMAIN revs[t] : revs[t][i] = "open"}

ReviewRegistered(t) == tk[t].review # 0 /\ UNCHANGED <<tk, revs, faults>>

AdoptReview(t) ==
    /\ tk[t].review = 0
    /\ \E i \in OpenReviews(t) :
         tk' = [tk EXCEPT ![t].review = i, ![t].status = "AWAITING_REVIEW"]
    /\ UNCHANGED <<revs, faults>>

FireReview(t) ==
    /\ tk[t].review = 0 /\ OpenReviews(t) = {}
    /\ \/ /\ tk' = [tk EXCEPT ![t].review = RevId(t), ![t].pr = TRUE,
                              ![t].status = "AWAITING_REVIEW"]
          /\ NewReview(t) /\ UNCHANGED faults
       \/ /\ tk' = [tk EXCEPT ![t].pr = TRUE]
          /\ NoReviewId(t)

AwaitInherited(t) ==
    /\ NotShipped(t) /\ "open" \in SeenPr(t)
    /\ ReviewRegistered(t) \/ AdoptReview(t) \/ FireReview(t)
    /\ todo' = todo \ {t}
    /\ UNCHANGED <<dispatchRest, ledger, mergedUrls, acked, inFlight, kids, gh, human>>

Undispatched(t) == NotShipped(t) /\ "none" \in SeenPr(t)

\* The idempotency guard of _dispatch_child; the caller still counts the
\* ticket as in flight.
RefuseDuplicate(t) ==
    /\ Undispatched(t) /\ ledger[t] # 0
    /\ inFlight' = inFlight \cup {t} /\ todo' = todo \ {t}
    /\ UNCHANGED <<dispatchRest, tk, ledger, mergedUrls, acked, world, faults>>

\* Mutant: the dispatched ticket is not appended to in_flight.
DispatchUncounted(t) ==
    /\ Undispatched(t) /\ ledger[t] = 0
    /\ NewKid(t)
    /\ ledger' = [ledger EXCEPT ![t] = KidId(t)]
    /\ tk' = [tk EXCEPT ![t].child = KidId(t), ![t].status = "DISPATCHED",
                        ![t].dispAge = 0, ![t].tried = @ + 1]
    /\ todo' = todo \ {t}
    /\ UNCHANGED <<dispatchRest, inFlight, mergedUrls, acked, revs, gh, human, faults>>

\* Mutant: the dispatch is not stamped.
DispatchUnstamped(t) ==
    /\ Undispatched(t) /\ ledger[t] = 0
    /\ NewKid(t)
    /\ ledger' = [ledger EXCEPT ![t] = KidId(t)]
    /\ tk' = [tk EXCEPT ![t].child = KidId(t), ![t].status = "DISPATCHED",
                        ![t].tried = @ + 1]
    /\ inFlight' = inFlight \cup {t} /\ todo' = todo \ {t}
    /\ UNCHANGED <<dispatchRest, mergedUrls, acked, revs, gh, human, faults>>

DispatchChild(t) ==
    /\ Undispatched(t) /\ ledger[t] = 0
    /\ NewKid(t)
    /\ ledger' = [ledger EXCEPT ![t] = KidId(t)]
    /\ tk' = [tk EXCEPT ![t].child = KidId(t), ![t].status = "DISPATCHED",
                        ![t].dispAge = 0, ![t].tried = @ + 1]
    /\ inFlight' = inFlight \cup {t} /\ todo' = todo \ {t}
    /\ UNCHANGED <<dispatchRest, mergedUrls, acked, revs, gh, human, faults>>

DispatchRaises(t) ==
    /\ Undispatched(t) /\ ledger[t] = 0
    /\ NoKidId(t)
    /\ todo' = todo \ {t}
    /\ UNCHANGED <<dispatchRest, tk, ledger, mergedUrls, acked, inFlight, revs, gh,
                   human>>
-----------------------------------------------------------------------------
(* list, claimed: _poll_children wakes, refreshes and reconciles, then     *)
(* reads the mesh lists.                                                   *)

\* _wake_backed_off_tickets, then _refresh_blocked_status.
Refreshed(t) ==
    LET r == IF tk[t].status = "BACKED_OFF" /\ tk[t].backAge >= Backoff
             THEN [tk[t] EXCEPT !.status = "PENDING", !.backAge = NoTime]
             ELSE tk[t]
    IN  IF r.status \in {"PENDING", "BLOCKED"}
        THEN [r EXCEPT !.status = IF DepsSatisfied(t) THEN "PENDING" ELSE "BLOCKED"]
        ELSE r

AtList(meshOk) == [t \in Tickets |-> IF t \in Forced(meshOk) THEN ForceFailed(t)
                                                           ELSE Refreshed(t)]

\* The phantom-loop breaker counts this clean-up with the recorded ones.
Trips(t) == Cardinality(recents[t] \cup {0}) >= PhantomMax

\* Mutant: the retry is not counted.
BackedOffFree(r) == [r EXCEPT !.status = "BACKED_OFF", !.backAge = 0, !.child = 0,
                              !.dispAge = NoTime, !.phantom = FALSE]

BackedOff(r) == [r EXCEPT !.status = "BACKED_OFF", !.retries = @ + 1, !.backAge = 0,
                          !.child = 0, !.dispAge = NoTime, !.phantom = FALSE]
\* cleaned counts the clean-ups: no guard reads it.
PhantomReset(r) == [r EXCEPT !.status = "PENDING", !.backAge = NoTime, !.child = 0,
                             !.dispAge = NoTime, !.phantom = FALSE, !.cleaned = @ + 1]
Abandoned(r) == [r EXCEPT !.status = "ABANDONED", !.child = 0, !.phantom = FALSE]

\* Mutant: the phantom carve-out is lost.
CarvesNothing(r) == r.status = "FAILED" /\ RetryBudget < 0

CarvesPhantom(r) == r.status = "FAILED" /\ RetryBudget > 0 /\ r.phantom

\* _apply_phantom_carve_out on one updated ticket.
CarvedOut(r, t) ==
    IF CarvesPhantom(r) THEN IF Trips(t) THEN Abandoned(r) ELSE PhantomReset(r)
    ELSE IF r.status = "FAILED" /\ r.retries < RetryBudget THEN BackedOff(r)
    ELSE r

\* Mutant: the sweep takes every ticket of the graph.
SweepAll(f, S) ==
    /\ tk' = [t \in Tickets |-> CarvedOut(f[t], t)]
    /\ recents' = [t \in Tickets |->
                     IF CarvesPhantom(f[t])
                     THEN IF Trips(t) THEN {} ELSE recents[t] \cup {0}
                     ELSE recents[t]]

\* The sweep over the tickets S that changed in this poll, from the graph f.
SweepOver(f, S) ==
    /\ tk' = [t \in Tickets |-> IF t \in S THEN CarvedOut(f[t], t) ELSE f[t]]
    /\ recents' = [t \in Tickets |->
                     IF t \in S /\ CarvesPhantom(f[t])
                     THEN IF Trips(t) THEN {} ELSE recents[t] \cup {0}
                     ELSE recents[t]]

listRest == <<streak, mergedUrls, labelled, quietAge, flat, greens, stopped, cancel,
              acked, snap, inFlight, quiet, world, saved, crashes>>

WithChild(f) == {t \in Tickets : f[t].child # 0 /\ f[t].status \notin Terminal}

\* Nothing to poll: the carve-out runs on the orphans and the poll returns
\* before it reads the completed list or sweeps the ledger.
PollNothing ==
    /\ pc = "list"
    /\ \E meshOk \in BOOLEAN :
         /\ IF meshOk THEN UNCHANGED faults ELSE Orphans # {} /\ Fault
         /\ WithChild(AtList(meshOk)) = {}
         /\ SweepOver(AtList(meshOk), Forced(meshOk))
         /\ ledger' = [t \in Tickets |->
                         IF t \in Forced(meshOk) /\ tk'[t].status = "PENDING"
                         THEN 0 ELSE ledger[t]]
    /\ pc' = "reviews"
    /\ UNCHANGED <<listRest, todo, rec, claimedView, fresh, lastDone>>

\* The completed list cannot be read: the poll returns at once.
PollListFails ==
    /\ pc = "list" /\ Fault
    /\ WithChild(AtList(TRUE)) # {}
    /\ tk' = AtList(TRUE)
    /\ pc' = "reviews"
    /\ UNCHANGED <<listRest, ledger, recents, todo, rec, claimedView, fresh, lastDone>>

\* The part of the completed list that _poll_reviews can use: the reviews the
\* tickets wait for now.
CompletedReviews ==
    {<<t, tk[t].review>> : t \in {u \in Tickets :
        tk[u].review # 0 /\ revs[u][tk[u].review] \in {"approve", "changes", "silent"}}}

PollList ==
    /\ pc = "list"
    /\ \E meshOk, failedOk \in BOOLEAN :
         /\ CASE meshOk /\ failedOk -> UNCHANGED faults
              [] meshOk # failedOk  -> Fault
              [] OTHER              -> FALSE
         /\ ~meshOk => Orphans # {}
         /\ tk' = AtList(meshOk)
         /\ WithChild(tk') # {}
         /\ fresh' = Forced(meshOk)
         /\ rec' = [t \in Tickets |->
                      LET k == kids[t][tk'[t].child]
                      IN  IF /\ t \in WithChild(tk') /\ k \in KidDone
                             /\ failedOk \/ k # "failed"
                          THEN k ELSE "none"]
    /\ lastDone' = CompletedReviews
    /\ todo' = {t \in WithChild(tk') : tk'[t].status \notin HandedOff}
    /\ pc' = "claimed"
    /\ UNCHANGED <<listRest, ledger, recents, claimedView>>

\* The claimed list is read last; an error there counts as an empty list.
PollClaimed ==
    /\ pc = "claimed"
    /\ \/ /\ claimedView' = {t \in todo : kids[t][tk[t].child] = "claimed"}
          /\ UNCHANGED faults
       \/ Fault /\ claimedView' = {}
    /\ pc' = "poll"
    /\ UNCHANGED <<listRest, tk, ledger, recents, todo, rec, fresh, lastDone>>
-----------------------------------------------------------------------------
(* poll: one step per ticket with a child, then the sweep.                 *)

pollRest == <<pc, streak, mergedUrls, recents, labelled, quietAge, flat, greens,
              stopped, cancel, acked, snap, inFlight, quiet, rec, claimedView, lastDone,
              kids, gh, human, saved, crashes>>

Polled(t, r) == pc = "poll" /\ t \in todo /\ rec[t] = r

\* The ticket's step ends here; changed tells whether it joins `updated`.
Leaves(t, changed) ==
    /\ todo' = todo \ {t}
    /\ fresh' = IF changed THEN fresh \cup {t} ELSE fresh

\* Mutant: a claimed child is never timed out.
TimedOutUnclaimed(t) == tk[t].dispAge > HardTimeout /\ t \notin claimedView

TimedOut(t) == tk[t].dispAge > HardTimeout

\* Retry budget exhausted by this timeout: _escalate_builder_hard_timeout.
PollAbandon(t) ==
    /\ Polled(t, "none") /\ TimedOut(t) /\ tk[t].retries + 1 >= RetryBudget
    /\ tk' = [tk EXCEPT ![t] = [Abandoned(tk[t]) EXCEPT !.retries = tk[t].retries + 1,
                                                        !.dispAge = NoTime]]
    /\ ledger' = [ledger EXCEPT ![t] = 0]
    /\ Leaves(t, TRUE)
    /\ UNCHANGED <<pollRest, revs, faults>>

PollTimeout(t) ==
    /\ Polled(t, "none") /\ TimedOut(t) /\ tk[t].retries + 1 < RetryBudget
    /\ tk' = [tk EXCEPT ![t].status = "FAILED", ![t].phantom = FALSE]
    /\ ledger' = [ledger EXCEPT ![t] = 0]
    /\ Leaves(t, TRUE)
    /\ UNCHANGED <<pollRest, revs, faults>>

Vanished(t) == t \notin claimedView /\ tk[t].stuckAge > StuckChild

PollPhantom(t) ==
    /\ Polled(t, "none") /\ ~TimedOut(t) /\ Vanished(t)
    /\ tk' = [tk EXCEPT ![t] = ForceFailed(t)]
    /\ Leaves(t, TRUE)
    /\ UNCHANGED <<pollRest, ledger, revs, faults>>

PollRunning(t) ==
    /\ Polled(t, "none") /\ ~TimedOut(t) /\ ~Vanished(t)
    /\ tk' = [tk EXCEPT ![t].status = IF @ = "DISPATCHED" THEN "IN_PROGRESS" ELSE @]
    /\ Leaves(t, FALSE)
    /\ UNCHANGED <<pollRest, ledger, revs, faults>>

\* The child failed, or completed with neither a PR nor any other result.
PollFailed(t) ==
    /\ Polled(t, "failed")
    /\ tk' = [tk EXCEPT ![t].status = "FAILED"]
    /\ Leaves(t, TRUE)
    /\ UNCHANGED <<pollRest, ledger, revs, faults>>

\* A grounding-gap issue instead of a PR.
PollGap(t) ==
    /\ Polled(t, "gap")
    /\ tk' = [tk EXCEPT ![t].status = "ESCALATED"]
    /\ Leaves(t, TRUE)
    /\ UNCHANGED <<pollRest, ledger, revs, faults>>

\* A PR: hand it to a review task, or stay PR_OPEN when that call fails.
PollPr(t) ==
    /\ Polled(t, "pr")
    /\ \/ /\ tk' = [tk EXCEPT ![t].pr = TRUE, ![t].dispAge = NoTime,
                              ![t].review = RevId(t), ![t].status = "AWAITING_REVIEW"]
          /\ NewReview(t) /\ UNCHANGED faults
       \/ /\ tk' = [tk EXCEPT ![t].pr = TRUE, ![t].dispAge = NoTime,
                              ![t].status = "PR_OPEN"]
          /\ NoReviewId(t)
    /\ Leaves(t, TRUE)
    /\ UNCHANGED <<pollRest, ledger>>

NextModel(t) == tk[t].tried < ChainLen /\ tk[t].tried < MaxAttempts

\* An empty envelope: the next model of the chain, or FAILED at its end.
PollSilent(t) ==
    /\ Polled(t, "silent")
    /\ IF NextModel(t)
       THEN /\ tk' = [tk EXCEPT ![t].status = "PENDING", ![t].child = 0,
                                ![t].dispAge = NoTime]
            /\ ledger' = [ledger EXCEPT ![t] = 0]
       ELSE /\ tk' = [tk EXCEPT ![t].status = "FAILED", ![t].phantom = FALSE]
            /\ UNCHANGED ledger
    /\ Leaves(t, TRUE)
    /\ UNCHANGED <<pollRest, revs, faults>>

PollTicket(t) == \/ PollAbandon(t) \/ PollTimeout(t) \/ PollPhantom(t)
                 \/ PollRunning(t) \/ PollFailed(t) \/ PollGap(t)
                 \/ PollPr(t) \/ PollSilent(t)

\* Mutant: only terminal tickets lose their entry.
HoldsEntryOpen(s) == s \notin Terminal

HoldsEntry(s) == s \in BuildPhase

\* The retry sweep over the updated tickets and the ledger's collection.
PollSweep ==
    /\ pc = "poll" /\ todo = {}
    /\ SweepOver(tk, fresh)
    /\ ledger' = [t \in Tickets |-> IF HoldsEntry(tk'[t].status) THEN ledger[t] ELSE 0]
    /\ fresh' = {} /\ claimedView' = {} /\ rec' = [t \in Tickets |-> "none"]
    /\ pc' = "reviews"
    /\ UNCHANGED <<listRest, todo, lastDone, faults>>

-----------------------------------------------------------------------------
(* reviews: every ticket that waits for a completed review.                *)

reviewRest == <<pc, recents, labelled, quietAge, flat, greens, stopped, cancel, acked,
                snap, local, human, saved, crashes>>

Eligible(t) == /\ pc = "reviews"
               /\ tk[t].status \in {"AWAITING_REVIEW", "REVIEWING"}
               /\ tk[t].review # 0 /\ <<t, tk[t].review>> \in lastDone

Verdict(t) == revs[t][tk[t].review]

ReviewApproved(t) ==
    /\ Eligible(t) /\ Verdict(t) = "approve"
    /\ Merge(t, tk[t].pr)
    /\ UNCHANGED <<reviewRest, ledger, streak, kids, revs>>

\* A request for changes, or an approval a guardrail overrides. n is the new
\* same-gate streak: 0 without a gate citation, 1 on another gate.
ChangesWanted(t, n) ==
    /\ Eligible(t) /\ Verdict(t) \in {"approve", "changes"}
    /\ n \in {0, 1} \/ (streak[t] > 0 /\ n = streak[t] + 1)
    /\ streak' = [streak EXCEPT ![t] = n]

ReviewTriage(t) ==
    /\ \E n \in 1..TriageThreshold : ChangesWanted(t, n) /\ n >= TriageThreshold
    /\ tk' = [tk EXCEPT ![t].status = "TRIAGE_NEEDED", ![t].review = 0]
    /\ UNCHANGED <<reviewRest, ledger, mergedUrls, kids, revs, gh, faults>>

\* The streak stays below the threshold.
FixWanted(t) ==
    \E n \in 0..TriageThreshold : ChangesWanted(t, n) /\ (n = 0 \/ n < TriageThreshold)

ReviewExhausted(t) ==
    /\ FixWanted(t) /\ tk[t].cycles >= MaxReviewCycles
    /\ tk' = [tk EXCEPT ![t].status = "FAILED"]
    /\ UNCHANGED <<reviewRest, ledger, mergedUrls, kids, revs, gh, faults>>

ReviewHuman(t) ==
    /\ FixWanted(t) /\ tk[t].cycles < MaxReviewCycles /\ t \in labelled
    /\ tk' = [tk EXCEPT ![t].status = "ESCALATED"]
    /\ UNCHANGED <<reviewRest, ledger, mergedUrls, kids, revs, gh, faults>>

FixRound(t) == FixWanted(t) /\ tk[t].cycles < MaxReviewCycles /\ t \notin labelled

\* Mutant: the status is not set after a respawn.
RespawnUnmarked(t) ==
    /\ FixRound(t)
    /\ NewKid(t)
    /\ tk' = [tk EXCEPT ![t].child = KidId(t), ![t].cycles = @ + 1, ![t].review = 0,
                        ![t].silents = 0]
    /\ UNCHANGED <<reviewRest, ledger, mergedUrls, revs, gh, faults>>

\* Mutant: the old review id is not cleared.
RespawnKeepsReview(t) ==
    /\ FixRound(t)
    /\ NewKid(t)
    /\ tk' = [tk EXCEPT ![t].status = "DISPATCHED", ![t].child = KidId(t),
                        ![t].cycles = @ + 1, ![t].silents = 0]
    /\ UNCHANGED <<reviewRest, ledger, mergedUrls, revs, gh, faults>>

\* A fix-round child: no ledger entry and no dispatched_at.
ReviewRespawn(t) ==
    /\ FixRound(t)
    /\ NewKid(t)
    /\ tk' = [tk EXCEPT ![t].status = "DISPATCHED", ![t].child = KidId(t),
                        ![t].cycles = @ + 1, ![t].review = 0, ![t].silents = 0]
    /\ UNCHANGED <<reviewRest, ledger, mergedUrls, revs, gh, faults>>

\* The exception leaves _poll_reviews: the other verdicts wait a tick.
RespawnRaises(t) ==
    /\ FixRound(t)
    /\ NoKidId(t)
    /\ tk' = [tk EXCEPT ![t].cycles = @ + 1, ![t].review = 0]
    /\ pc' = "snapshot"
    /\ UNCHANGED <<recents, labelled, quietAge, flat, greens, stopped, cancel, acked,
                   snap, local, human, saved, crashes, ledger, mergedUrls, revs, gh>>

\* A completed review without a verdict: asked once more, then FAILED.
ReviewSilent(t) ==
    /\ Eligible(t) /\ Verdict(t) = "silent"
    /\ \/ /\ tk[t].silents >= 1
          /\ tk' = [tk EXCEPT ![t].silents = @ + 1, ![t].status = "FAILED"]
          /\ UNCHANGED <<revs, faults>>
       \/ /\ tk[t].silents = 0
          /\ tk' = [tk EXCEPT ![t].silents = 1, ![t].review = RevId(t),
                              ![t].status = "AWAITING_REVIEW"]
          /\ NewReview(t) /\ UNCHANGED faults
       \/ /\ tk[t].silents = 0
          /\ tk' = [tk EXCEPT ![t].silents = 1, ![t].review = 0]
          /\ NoReviewId(t)
    /\ UNCHANGED <<reviewRest, ledger, streak, mergedUrls, kids, gh>>

ReviewTicket(t) == \/ ReviewApproved(t) \/ ReviewTriage(t) \/ ReviewExhausted(t)
                   \/ ReviewHuman(t) \/ ReviewRespawn(t) \/ RespawnRaises(t)
                   \/ ReviewSilent(t)

ReviewsEnd ==
    /\ pc = "reviews" /\ \A t \in Tickets : ~Eligible(t)
    /\ pc' = "snapshot"
    /\ UNCHANGED <<tk, ledger, streak, mergedUrls, recents, labelled, quietAge, flat,
                   greens, stopped, cancel, acked, snap, local, world, saved, faults,
                   crashes>>

-----------------------------------------------------------------------------
(* snapshot: budget check, graph snapshot and checkpoint.                  *)

\* _snapshot_graph_into_state: the child id is only ever overwritten.
Snapped(r) == [r EXCEPT !.noted = IF r.child # 0 THEN r.child ELSE @,
                        !.shown = r.status,
                        !.stuckAge = IF @ = NoTime \/ r.shown # r.status THEN 0 ELSE @]

\* What a later run finds in soul memory under this kickoff's task id:
\* everything else about a ticket starts afresh.
Persisted(r) ==
    [NewTicket(r.status) EXCEPT
        !.shown = r.status, !.child = r.noted, !.noted = r.noted, !.pr = r.pr,
        !.retries = r.retries, !.cycles = r.cycles, !.review = r.review,
        !.backAge = r.backAge]

\* _check_budget trips: no builder is dispatched from here on, and the state is
\* checkpointed at once, ahead of the snapshot of this tick.
HardStop ==
    /\ pc = "snapshot" /\ "budget" \in Signals /\ ~stopped
    /\ stopped' = TRUE
    /\ KeepsMidTick(acked)
    /\ UNCHANGED <<pc, tk, ledger, streak, mergedUrls, recents, labelled, quietAge,
                   flat, greens, cancel, acked, snap, local, world, crashes>>

\* Mutant: the status a ticket had in the first snapshot is never replaced.
SnapshotFirstStatus ==
    [valid |-> TRUE, quietAge |-> quietAge,
     tk |-> [t \in Tickets |->
               IF snap.valid THEN [Persisted(tk'[t]) EXCEPT !.status = snap.tk[t].status]
               ELSE Persisted(tk'[t])]]

SnapshotNow == [valid |-> TRUE, tk |-> [t \in Tickets |-> Persisted(tk'[t])],
                quietAge |-> quietAge]

Checkpoint(s) == [valid |-> TRUE, tk |-> s.tk, mergedUrls |-> mergedUrls,
                  streak |-> streak, quietAge |-> s.quietAge, acked |-> acked]

\* A snapshot that no crash is left to restore is not kept.
Snapshot ==
    /\ pc = "snapshot"
    /\ tk' = [t \in Tickets |-> Snapped(tk[t])]
    /\ \/ /\ crashes < MaxCrashes /\ snap' = SnapshotNow
          /\ \/ saved' = Checkpoint(snap') /\ UNCHANGED faults
             \/ UNCHANGED saved /\ Fault
       \/ crashes = MaxCrashes /\ UNCHANGED <<snap, saved, faults>>
    /\ pc' = "tail"
    /\ UNCHANGED <<ledger, streak, mergedUrls, recents, labelled, quietAge, flat,
                   greens, stopped, cancel, acked, local, world, crashes>>
-----------------------------------------------------------------------------
(* tail: the stalled-wave sample, then the ways out of the wave.           *)

Greens == Cardinality(WithStatus({"MERGED_GREEN"}))

Flat == IF flat = NoTime \/ Greens > greens THEN 0
        ELSE IF flat + 1 < HistoryCap THEN flat + 1 ELSE flat

Sample == pc = "tail" /\ flat' = Flat /\ greens' = Greens

Unfinished == Tickets \ WithStatus(Terminal)

tailRest == <<ledger, streak, mergedUrls, recents, labelled, stopped, cancel, acked,
              snap, local, world, saved, faults, crashes>>

\* No new green for the whole window: hand every open ticket to a human.
ForcePass ==
    /\ Sample /\ Flat >= StallWindow
    /\ tk' = [t \in Tickets |-> IF t \in Unfinished THEN Abandoned(tk[t]) ELSE tk[t]]
    /\ pc' = "done"
    /\ UNCHANGED <<tailRest, quietAge>>

Moving == Sample /\ Flat < StallWindow

Finish ==
    /\ Moving /\ Unfinished = {}
    /\ pc' = "done"
    /\ UNCHANGED <<tailRest, tk, quietAge>>

\* Mutant: a ready ticket keeps a cancelled wave going.
DrainedQuiet == cancel /\ quiet

Drained == cancel /\ WithStatus(Active) = {}

CancelExit ==
    /\ Moving /\ Unfinished # {} /\ Drained
    /\ pc' = "done"
    /\ UNCHANGED <<tailRest, tk, quietAge>>

StaysOn == Moving /\ Unfinished # {} /\ ~Drained

QuietFor == IF quietAge = NoTime THEN 0 ELSE quietAge

\* The deadlock grace has run out.
Coerce ==
    /\ StaysOn /\ quiet /\ QuietFor >= Grace
    /\ tk' = [t \in Tickets |-> IF t \in Unfinished
                                THEN [tk[t] EXCEPT !.status = "FAILED"] ELSE tk[t]]
    /\ quietAge' = NoTime /\ pc' = "done"
    /\ UNCHANGED tailRest

\* Mutant: the grace timer is not cleared by progress.
GoOnKeepingGrace ==
    /\ StaysOn /\ (quiet => QuietFor < Grace)
    /\ quietAge' = IF quiet THEN QuietFor ELSE quietAge
    /\ pc' = "sleep"
    /\ UNCHANGED <<tailRest, tk>>

GoOn ==
    /\ StaysOn /\ (quiet => QuietFor < Grace)
    /\ quietAge' = IF quiet THEN QuietFor ELSE NoTime
    /\ pc' = "sleep"
    /\ UNCHANGED <<tailRest, tk>>

EndOfTick == ForcePass \/ Finish \/ CancelExit \/ Coerce \/ GoOn

\* Backing off is measured against the wall clock, across restarts too.
Aged(r) == [r EXCEPT !.dispAge = Older(@, HardTimeout),
                     !.backAge = Older(@, Backoff),
                     !.stuckAge = Older(@, StuckChild)]

AgedCopy(s) == IF ~s.valid THEN s
               ELSE [s EXCEPT !.tk = [t \in Tickets |-> Aged(@[t])],
                              !.quietAge = Older(@, Grace)]

Sleep ==
    /\ pc = "sleep"
    /\ tk' = [t \in Tickets |-> Aged(tk[t])]
    /\ quietAge' = Older(quietAge, Grace)
    /\ recents' = [t \in Tickets |-> {a + 1 : a \in {b \in recents[t] : b < PhantomWindow}}]
    /\ saved' = AgedCopy(saved) /\ snap' = AgedCopy(snap)
    /\ pc' = "top"
    /\ UNCHANGED <<ledger, streak, mergedUrls, labelled, flat, greens, stopped,
                   cancel, acked, local, world, faults, crashes>>

\* The wave is over; _run_inner goes on to the wave gate.
WaveOver == pc = "done" /\ UNCHANGED vars
-----------------------------------------------------------------------------
(* A crash of the daemon, and the next run's restore of the checkpoint.    *)

\* recover_orphaned_tasks fails the tasks the dead daemon had claimed.
OrphansRecovered ==
    kids' = [t \in Tickets |->
               [i \in DOMAIN kids[t] |->
                  IF kids[t][i] = "claimed" THEN "failed" ELSE kids[t][i]]]

\* The labels are read anew. A person may have taken tickets while the daemon was
\* down; of one that is over nobody asks.
LabelledMeanwhile ==
    {t \in Tickets : "down" \in Signals /\ saved.tk[t].status \notin Terminal}

CrashAndResume ==
    /\ pc # "done" /\ saved.valid /\ crashes < MaxCrashes
    /\ crashes' = crashes + 1
    /\ tk' = saved.tk
    /\ ledger' = [t \in Tickets |-> saved.tk[t].child]
    /\ streak' = saved.streak /\ mergedUrls' = saved.mergedUrls
    /\ quietAge' = saved.quietAge /\ acked' = saved.acked
    /\ recents' = [t \in Tickets |-> {}]
    /\ \E taken \in SUBSET LabelledMeanwhile : human' = human \cup taken
    /\ labelled' = human'
    /\ flat' = NoTime /\ greens' = 0 /\ stopped' = FALSE /\ cancel' = FALSE
    /\ inFlight' = {} /\ quiet' = FALSE /\ todo' = {}
    /\ rec' = [t \in Tickets |-> "none"]
    /\ claimedView' = {} /\ fresh' = {} /\ lastDone' = {}
    /\ OrphansRecovered \/ UNCHANGED kids
    /\ IF crashes' < MaxCrashes
       THEN /\ snap' = [valid |-> TRUE, tk |-> saved.tk, quietAge |-> saved.quietAge]
            /\ UNCHANGED saved
       ELSE snap' = NoCheckpoint /\ saved' = NoCheckpoint
    /\ pc' = "top"
    /\ UNCHANGED <<revs, gh, faults>>
-----------------------------------------------------------------------------
(* The world: workers, reviewers, GitHub and the people on Linear.         *)

outside == <<mem, local, saved, crashes>>

\* The world moves while the orchestrator awaits it: the steps at the other
\* places read nothing that these moves change, so a move made there can as
\* well be made earlier or later.
Awaiting == pc \in {"dispatch", "list", "claimed", "sleep"}

KidIs(t, i, s) == Awaiting /\ i \in DOMAIN kids[t] /\ kids[t][i] = s

KidClaimed(t, i) ==
    /\ KidIs(t, i, "pending")
    /\ kids' = [kids EXCEPT ![t][i] = "claimed"]
    /\ UNCHANGED <<outside, revs, gh, human, faults>>

PrOpened(t) == gh' = [gh EXCEPT ![t] = IF @ = "none" THEN "open" ELSE @]

\* propose_pr, in the middle of the child's run.
KidOpensPr(t, i) ==
    /\ KidIs(t, i, "claimed") /\ gh[t] = "none"
    /\ PrOpened(t)
    /\ UNCHANGED <<outside, kids, revs, human, faults>>

KidEnds(t, i) ==
    /\ KidIs(t, i, "claimed")
    /\ \E s \in IF i \in ReadableKids(t) THEN KidDone ELSE {"over"} :
         /\ kids' = [kids EXCEPT ![t][i] = s]
         /\ IF s = "pr" THEN PrOpened(t) ELSE UNCHANGED gh
    /\ UNCHANGED <<outside, revs, human, faults>>

\* The task drops out of the mesh lists the orchestrator can read.
KidLost(t, i) ==
    /\ KidIs(t, i, "claimed") /\ Fault
    /\ kids' = [kids EXCEPT ![t][i] = "lost"]
    /\ UNCHANGED <<outside, revs, gh, human>>

ReviewEnds(t, i) ==
    /\ Awaiting /\ i \in OpenReviews(t)
    /\ \E v \in RevDone :
         /\ revs' = [revs EXCEPT ![t][i] = v]
         /\ \/ UNCHANGED gh
            \/ /\ v = "approve" /\ gh[t] = "open"
               /\ gh' = [gh EXCEPT ![t] = "approved"]
    /\ UNCHANGED <<outside, kids, human, faults>>

\* A human takes the ticket on Linear.
LabelHuman(t) ==
    /\ Awaiting /\ "label" \in Signals /\ t \notin human
    /\ human' = human \cup {t}
    /\ UNCHANGED <<outside, kids, revs, gh, faults>>
-----------------------------------------------------------------------------
DispatchTicket(t) ==
    \/ HoldBack(t) \/ Ss08Acked(t) \/ Ss08Deferred(t) \/ SkipHuman(t)
    \/ SkipShipped(t) \/ MergeInherited(t) \/ AwaitInherited(t)
    \/ RefuseDuplicate(t) \/ DispatchChild(t) \/ DispatchRaises(t)

\* The orchestrator's own steps.
Tick ==
    \/ Top \/ EndDispatch \/ PollNothing \/ PollListFails \/ PollList \/ PollClaimed
    \/ PollSweep \/ ReviewsEnd \/ HardStop \/ Snapshot \/ EndOfTick \/ Sleep
    \/ \E t \in Tickets : DispatchTicket(t) \/ PollTicket(t) \/ ReviewTicket(t)

World ==
    \E t \in Tickets :
        \/ LabelHuman(t)
        \/ \E i \in DOMAIN kids[t] : \/ KidClaimed(t, i) \/ KidOpensPr(t, i)
                                     \/ KidEnds(t, i) \/ KidLost(t, i)
        \/ \E i \in DOMAIN revs[t] : ReviewEnds(t, i)

Next == Tick \/ CrashAndResume \/ World \/ WaveOver

\* Only the event loop is fair: nothing makes a worker, a reviewer or GitHub
\* answer.
Spec == Init /\ [][Next]_vars /\ WF_vars(Tick)
-----------------------------------------------------------------------------
(* Properties.                                                             *)

TicketRecord ==
    [status : Status, shown : Status \cup {"none"}, child : Nat, noted : Nat,
     tried : Nat, retries : Nat, phantom : BOOLEAN,
     dispAge : Nat \cup {NoTime}, backAge : Nat \cup {NoTime},
     stuckAge : Nat \cup {NoTime}, pr : BOOLEAN, cycles : Nat, review : Nat,
     silents : Nat, cleaned : Nat]

CheckpointRecord ==
    [valid : {TRUE}, tk : [Tickets -> TicketRecord], mergedUrls : SUBSET Tickets,
     streak : [Tickets -> Nat], quietAge : Nat \cup {NoTime}, acked : BOOLEAN]

SnapshotRecord ==
    [valid : {TRUE}, tk : [Tickets -> TicketRecord], quietAge : Nat \cup {NoTime}]

MemOK ==
    /\ pc \in {"top", "dispatch", "list", "claimed", "poll", "reviews", "snapshot",
               "tail", "sleep", "done"}
    /\ ledger \in [Tickets -> Nat] /\ streak \in [Tickets -> Nat]
    /\ mergedUrls \subseteq Tickets /\ labelled \subseteq Tickets
    /\ recents \in [Tickets -> SUBSET Nat]
    /\ quietAge \in Nat \cup {NoTime} /\ flat \in Nat \cup {NoTime} /\ greens \in Nat
    /\ stopped \in BOOLEAN /\ cancel \in BOOLEAN /\ acked \in BOOLEAN

LocalOK ==
    /\ inFlight \subseteq Tickets /\ quiet \in BOOLEAN /\ todo \subseteq Tickets
    /\ rec \in [Tickets -> KidDone \cup {"none"}]
    /\ claimedView \subseteq Tickets /\ fresh \subseteq Tickets
    /\ lastDone \subseteq Tickets \X Nat

WorldOK ==
    /\ kids \in [Tickets -> Seq(KidState)] /\ revs \in [Tickets -> Seq(RevState)]
    /\ gh \in [Tickets -> PrState] /\ human \subseteq Tickets

SavedOK ==
    /\ saved \in {NoCheckpoint} \cup CheckpointRecord
    /\ snap \in {NoCheckpoint} \cup SnapshotRecord
    /\ faults \in Nat /\ crashes \in Nat

Shape == tk \in [Tickets -> TicketRecord] /\ MemOK /\ LocalOK /\ WorldOK /\ SavedOK

IdsKnown(f) ==
    \A t \in Tickets : /\ f[t].child <= Len(kids[t]) /\ f[t].noted <= Len(kids[t])
                       /\ f[t].review <= Len(revs[t])

\* Every variable keeps its type; the ids a ticket holds, or a restart would give
\* it back, are ids of its own tasks on the mesh.
TypeOK == /\ Shape /\ IdsKnown(tk)
          /\ saved.valid => IdsKnown(saved.tk)
          /\ snap.valid => IdsKnown(snap.tk)

\* A ticket only gets a builder once every ticket that blocks it is merged, and
\* keeps it that way (_select_ready, _deps_satisfied), across restarts too.
BuiltOnGreen ==
    \A t \in Tickets : tk[t].child # 0 =>
        \A d \in BlocksIn[t] \cap Tickets : tk[d].status = "MERGED_GREEN"

\* The wave never counts a ticket as shipped whose PR is not merged: whatever
\* GitHub answers, refuses or loses, and whatever a restart restores.
GreenIsMerged ==
    \A t \in Tickets : tk[t].status = "MERGED_GREEN" => gh[t] = "merged"

\* A terminal verdict stands: a ticket leaves a terminal status only through the
\* retry sweep of the very poll that failed it, and only from FAILED
\* (_poll_children, _apply_phantom_carve_out). A restart goes back to what was
\* checkpointed, so it is not a step of this kind.
VerdictStands ==
    [][\A t \in Tickets :
          tk[t].status \in Terminal /\ tk'[t].status \notin Terminal
            => \/ pc = "poll" /\ tk[t].status = "FAILED" /\ t \in fresh
               \/ crashes' # crashes]_vars

\* A ticket that waits to be dispatched is not locked out by a leftover entry of
\* the idempotency ledger (_release_in_flight_dispatch and the sweep at the end of
\* _poll_children). A restart fills the ledger from the checkpointed child ids: the
\* ticket it locks out has that child again, so that the next poll gets as far as
\* the sweep and takes the entry away.
LedgerReleased ==
    pc = "top" => \A t \in Tickets :
        ledger[t] # 0 /\ tk[t].status \in {"PENDING", "BLOCKED", "BACKED_OFF"}
            => crashes > 0 /\ tk[t].child # 0

\* Every retry that is counted was paid for by a builder of its own, but for one a
\* restart, which gives a ticket back the builder of its last retry.
RetryPaidByBuilder == \A t \in Tickets : tk[t].retries <= Len(kids[t]) + crashes

Working == WithStatus(Active)

\* A child dispatched by the wave loop joins at most MaxParallel active tickets,
\* at most PerEpicCap of its epic, and none that touches the same files, counted
\* on the real statuses and not on the list computed at the top of the tick.
DispatchWithinLimits ==
    [][pc = "dispatch" /\ crashes' = crashes => \A t \in Tickets :
          tk'[t].child # tk[t].child =>
            /\ Cardinality(Working \cup {t}) <= MaxParallel
            /\ Cardinality({u \in Working \cup {t} : Epic[u] = Epic[t]}) <= PerEpicCap
            /\ \A u \in Working : {t, u} \notin Collides]_vars

\* The deadlock detector leaves tickets alone that are cooling down before a
\* retry: they look idle to it, but will be dispatched again.
CoolingSurvivesGrace ==
    [][pc = "tail" => \A t \in Tickets :
          tk[t].status = "BACKED_OFF" => tk'[t].status # "FAILED"]_vars

\* A ticket that waits for a verdict has a review task that can bring one
\* (graph.py: "handed off to a Hawkman QA review task"): each call that fails
\* leaves at most one ticket waiting for nothing, for as long as the daemon lives. A
\* restart may leave others: the checkpoint of a hard stop lacks the review of a ticket
\* whose verdict was applied in the same tick, and still says that the ticket waits.
Forlorn(f) == {t \in Tickets : f[t].status = "AWAITING_REVIEW" /\ f[t].review = 0}
AwaitedReviewExists == Cardinality(Forlorn(tk)) <= faults

\* A ticket that waits for a builder, or has one at work, carries no review of an
\* earlier round whose verdict could be applied to the next pull request. This holds
\* while the daemon lives: a checkpoint in the middle of a tick keeps a new review with
\* an old status, and a restart gives the ticket both.
NoStaleReview ==
    \A t \in Tickets :
        tk[t].status \in {"PENDING", "BLOCKED", "BACKED_OFF", "PR_OPEN"} \cup BuildPhase
            => tk[t].review = 0

\* What one ticket can cost. Each of its builders is paid for: by the fallback chain,
\* a retry, a fix round, a phantom clean-up or a call whose answer was lost, unless
\* it was at work already when the run began.
Inherited == IF Hydrated \cap Active = {} THEN 0 ELSE 1
BuildersBounded ==
    \A t \in Tickets :
        Len(kids[t]) <= Inherited + RetryBudget + ChainLen + MaxReviewCycles
                         + tk[t].cleaned + faults

\* A builder whose dispatch was stamped is timed out before it can count as vanished,
\* and a timeout costs a retry: only the builder of a fix round is cleaned up for free.
CleanUpsOfFixRounds == \A t \in Tickets : tk[t].cleaned <= tk[t].cycles

\* An acknowledgement of the SS-08 gate is never asked for again, across restarts
\* of the daemon too (_maybe_ss08_gate: "Survives daemon restarts"), unless a call
\* has failed, which may have been the one that keeps it.
AckSurvivesRestart == [][acked /\ ~acked' => faults > 0]_vars

\* What the orchestrator has decided about a ticket, as far as anybody can rely on
\* it: what a poll has failed is open until the sweep at its end has decided.
Ruling(s) == CASE s = "MERGED_GREEN" -> "green"
               [] s = "FAILED" -> "failed"
               [] s \in Terminal \ {"MERGED_GREEN", "FAILED"} -> "closed"
               [] s \notin Terminal -> "open"
Unswept(t) == pc \in {"claimed", "poll"} /\ t \in fresh /\ tk[t].status = "FAILED"
RulingNow == [t \in Tickets |-> IF Unswept(t) THEN "open" ELSE Ruling(tk[t].status)]
HasTask(r) == r.child # 0 \/ r.noted # 0 \/ r.review # 0
Tasked(f) == {t \in Tickets : HasTask(f[t])}
Shipped == {t \in Tickets : gh[t] = "merged"}
Copied(s) == IF s.valid THEN {[ruling |-> [t \in Tickets |-> Ruling(s.tk[t].status)],
                               started |-> Tasked(s.tk)]}
             ELSE {}

Contract == INSTANCE Shipment WITH
    Blockers <- BlocksIn, ruling <- RulingNow, started <- Tasked(tk),
    merged <- Shipped, books <- Copied(snap), kept <- Copied(saved)

\* The wave keeps the contract of Shipment, through failed calls and restarts.
TicketContract == Contract!Spec

\* The builder of a fix round has no dispatch time (FixRoundsTimeOut).
Unclocked(t) == tk[t].status \in BuildPhase /\ tk[t].dispAge = NoTime
Clocked(t) == tk[t].status \in BuildPhase /\ tk[t].dispAge # NoTime

\* A cancelled wave ends, without the help of the stalled-wave breaker, provided that no
\* builder of a fix round works for ever: the drain waits for that one (line 5224).
CancelEnds == (\A t \in Tickets : []<>~Unclocked(t)) => (cancel ~> (pc = "done"))

\* The wave ends, whatever workers, reviewers and people do or fail to do.
WaveEnds == <>(pc = "done")

\* No builder the wave loop has dispatched holds its ticket for ever: the hard timeout
\* is measured from the dispatch, irrespective of what the mesh says
\* (orchestrator.py:233). A fix round dispatches without a time (FixRoundsTimeOut).
BuildersTimeOut == \A t \in Tickets : []<>~Clocked(t)

\* The hard timeout covers the builder of a fix round as well: its clock was
\* cleared with the first pull request so that it starts afresh (line 6728).
FixRoundsTimeOut ==
    \A t \in Tickets : []<>~(tk[t].cycles > 0 /\ tk[t].status \in BuildPhase)

\* A pull request the orchestrator merged never turns its ticket FAILED, a daemon
\* that died between the merge and the status change included (_merge_pr).
MergedNeverFailed ==
    \A t \in Tickets : tk[t].status = "FAILED" => gh[t] # "merged"

=============================================================================
