------------------------------ MODULE Builder -------------------------------
(***************************************************************************)
(* One ticket of a running orchestrator and the builders it is given: the  *)
(* tool loop the daemon runs inline for a builder task (dispatch.py,       *)
(* main.py), what the orchestrator reads in its result, the next dispatch  *)
(* on the next model, and the model registry with its rollback             *)
(* (model_registry.py).                                                    *)
(*                                                                         *)
(*   ticket:  pending -> dispatched -> open -> merged                      *)
(*               ^           +-> escalated, failed                         *)
(*               +-----------+   silent: next model; failed: a retry       *)
(*                                                                         *)
(* WaveLoop models the wave around a ticket; here it has one ticket, no    *)
(* review but its merge, and the timers are choices.                       *)
(***************************************************************************)
EXTENDS Daemon, Sequences

CONSTANTS
    Cap,             \* tool iterations of a dispatch: 12, 16 or 20, 4 more in a fix round
    LoopAfter,       \* _SILENT_WITH_TOOLS_THRESHOLD
    Models, FallbackChain,            \* builder_fallback_chain
    Primary, RegistrySlots, Baseline, \* the registry's builder role: primary, 1 and
                                      \* the length of its chain, stable_baseline
    Preferred, PersonaFallback,       \* the persona's own models
    Tagged,          \* models whose dispatches carry [tag:code] in the title
    MaxDispatches,   \* dispatches a silent ticket may have
    RetryBudget,     \* per_ticket_retry_budget
    MaxStrikes,      \* HARD_TIMEOUT_AUTO_ROLLBACK_THRESHOLD
    Prices           \* what a builder may cost

ASSUME BuilderAssumption ==
    /\ {Cap, LoopAfter, RegistrySlots, MaxDispatches, MaxStrikes} \subseteq Nat \ {0}
    /\ RetryBudget \in Nat /\ Prices \subseteq Nat
    /\ FallbackChain \in Seq(Models) /\ FallbackChain # <<>> /\ Tagged \subseteq Models
    /\ {Primary, Baseline, Preferred, PersonaFallback} \subseteq Models

\* What a model may do in an iteration: fetch one of two addresses and nothing
\* else, come upon a pull request in what it reads otherwise, report a grounding
\* gap, or call propose_pr, which opens a pull request or fails.
Turns == {"fetch 1", "fetch 2", "cite", "gap", "propose", "botch"}
Fetches == {"fetch 1", "fetch 2"}
TerminalTools == {"propose", "botch"}
RequiredTools == {"gap", "propose", "botch"}
Texts == {"text", "blank"}
Endings == {"", "aborted", "truncated"} \cup Texts
NoTalk == [pass |-> 0, model |-> Preferred, log |-> <<>>, same |-> 0, args |-> <<>>,
           terminal |-> FALSE, tagged |-> FALSE, ending |-> ""]
NewTicket == [status |-> "pending", dispatches |-> 0, retries |-> RetryBudget]

VARIABLES
    talk,            \* the tool loop of the task held, its log and counters
    ticket,          \* the ticket, as the orchestrator has it in memory
    taken,           \* Linear: a person has taken the ticket
    strikes, rolled, \* consecutive_hard_timeouts, auto_rollback_active
    cached, registry,\* the daemon's copy, and the file: its contents, and
                     \* whether it has changed since the copy was made
    opened,          \* pull requests builders have opened for the ticket
    price,           \* what the last builder to complete cost
    counted,         \* what the budget tracker has counted, as far as the cap
    paid             \* what the builders found completed have really cost

breaker == <<strikes, rolled, cached, registry>>
purse == <<price, counted, paid>>
builderVars == <<talk, ticket, taken, breaker, opened, purse>>

BuilderInit ==
    /\ talk = NoTalk /\ ticket = NewTicket /\ taken = FALSE
    /\ strikes = 0 /\ rolled = FALSE /\ cached = FALSE
    /\ registry = [file |-> "good", changed |-> TRUE] /\ opened = 0
    /\ price = 0 /\ counted = 0 /\ paid = 0
-----------------------------------------------------------------------------
(* The model registry.                                                     *)

\* _load_model_registry: a file that is missing or does not validate leaves the
\* copy as it is; one that has changed clears the rollback.
Loads == registry.file = "good" /\ (registry.changed \/ ~cached)
Load == /\ cached' = (cached \/ Loads)
        /\ registry' = [registry EXCEPT !.changed = @ /\ ~Loads]
Cleared == Loads /\ registry.changed
Untouched == /\ strikes' = IF Cleared THEN 0 ELSE strikes
             /\ rolled' = (rolled /\ ~Cleared)

\* A rollback puts the baseline before the primary.
PickForRole == IF rolled /\ ~Cleared THEN Baseline ELSE Primary

\* The routing block in the body of a second dispatch names the model of the chain;
\* a first one is left to the registry, and to the persona without it.
ChainModel(attempt) == FallbackChain[(attempt % Len(FallbackChain)) + 1]
ModelOf(attempt) ==
    CASE attempt > 0 -> ChainModel(attempt)
      [] attempt = 0 /\ (cached \/ Loads) -> PickForRole
      [] OTHER -> Preferred
TagOf(attempt) == ChainModel(attempt) \in Tagged

\* _pick_next_fallback_model finds one.
HasNextModel(n) == n < IF cached \/ Loads THEN RegistrySlots ELSE Len(FallbackChain)

EditRegistry ==
    /\ site.tickets # {} /\ Upsets
    /\ \E f \in {"good", "bad"} : registry' = [file |-> f, changed |-> TRUE]
    /\ UNCHANGED <<site, unlisted, board, loop, child, slot, handler, reports, talk, ticket, taken,
                   strikes, rolled, cached, opened, purse>>
-----------------------------------------------------------------------------
(* The daemon holds a builder task.                                        *)

Inline == UNCHANGED <<site, unlisted, batch, child, slot, handler, reports>>
LetGo == pc' = "scan" /\ cur' = None /\ talk' = NoTalk

\* The gate on Linear, which fails open: a lookup that fails says nothing of the
\* ticket.
ShouldSkip == taken
LookupFails == Loses
GateHit ==
    /\ pc = "held" /\ Kind(cur) = "builder" /\ ShouldSkip
    /\ LetGo /\ Inline /\ TryComplete(cur, "failed", "", "")
    /\ UNCHANGED <<ticket, taken, breaker, opened, purse>>

Talk(pass, model, tagged) ==
    [NoTalk EXCEPT !.pass = pass, !.model = model, !.tagged = tagged]

GatePassed ==
    /\ pc = "held" /\ Kind(cur) = "builder" /\ pc' = "talk"
    /\ \/ ~ShouldSkip /\ UNCHANGED faults
       \/ ShouldSkip /\ LookupFails
    /\ talk' = Talk(1, ModelOf(board[cur].budget), TagOf(board[cur].budget))
    /\ IF board[cur].budget = 0 THEN Load /\ Untouched ELSE UNCHANGED breaker
    /\ Inline /\ UNCHANGED <<board, cur, ticket, taken, opened, purse>>

\* One iteration of _tool_loop. The streak counts iterations that fetch and do
\* nothing else; it is broken off once it is long enough and repeats an address,
\* unless a terminal tool was called before.
\* Mutant: an address repeats itself.
RepeatsItself(args) == \E j, k \in DOMAIN args : j <= k /\ args[j] = args[k]
Repeats(args) == \E j, k \in DOMAIN args : j < k /\ args[j] = args[k]
Turned(turn) ==
    LET terminal == talk.terminal \/ turn \in TerminalTools
        ticks == turn \in Fetches /\ ~terminal
        same == IF ticks THEN talk.same + 1 ELSE 0
        args == IF ticks THEN Append(talk.args, turn) ELSE <<>>
        log == Append(talk.log, turn)
    IN [talk EXCEPT !.log = log, !.terminal = terminal, !.same = same, !.args = args,
          !.ending = IF same >= LoopAfter /\ Repeats(args) THEN "aborted"
                     ELSE IF Len(log) = Cap THEN "truncated" ELSE ""]
\* An address is named when it is first fetched; a pass does anything else once
\* (a bound), and opens one pull request.
Turn(turn) ==
    /\ pc = "talk"
    /\ turn = "fetch 2" => \E k \in DOMAIN talk.log : talk.log[k] = "fetch 1"
    /\ turn \notin Fetches => \A k \in DOMAIN talk.log : talk.log[k] # turn
    /\ talk' = Turned(turn) /\ pc' = IF talk'.ending = "" THEN "talk" ELSE "reply"
    /\ opened' = IF turn = "propose" THEN opened + 1 ELSE opened
    /\ Inline /\ UNCHANGED <<board, cur, faults, ticket, taken, breaker, purse>>

\* The model answers without a tool call.
Says(text) ==
    /\ pc = "talk" /\ pc' = "reply" /\ talk' = [talk EXCEPT !.ending = text]
    /\ Inline /\ UNCHANGED <<board, cur, faults, ticket, taken, breaker, opened, purse>>

\* The gateway fails a call for good: the whole loop runs again on the fallback
\* model, or the task is failed.
GatewayFails ==
    /\ pc = "talk" /\ Upsets /\ Inline
    /\ IF talk.pass = 1 /\ talk.model # PersonaFallback
       THEN /\ talk' = Talk(2, PersonaFallback, talk.tagged)
            /\ UNCHANGED <<board, pc, cur>>
       ELSE LetGo /\ Completed(cur, "failed", "", "")
    /\ UNCHANGED <<ticket, taken, breaker, opened, purse>>

\* What _poll_children will read in the result: a pull request anywhere in it
\* first, then a grounding gap, then silence.
Logged(turns) == \E k \in DOMAIN talk.log : talk.log[k] \in turns
PrUrl == Logged({"propose", "cite"})
GroundingGap == Logged({"gap"})
SilentComplete == talk.ending \in {"aborted", "blank"}
Reading == CASE PrUrl -> "pr"
             [] ~PrUrl /\ GroundingGap -> "gap"
             [] ~PrUrl /\ ~GroundingGap /\ SilentComplete -> "silent"
             [] OTHER -> "text"

\* The check of the builder's contract comes before the result is sent.
EnvelopeOnly == talk.tagged /\ ~Logged(RequiredTools)
Reply ==
    /\ pc = "reply" /\ LetGo /\ Inline
    /\ IF EnvelopeOnly
       THEN TryComplete(cur, "failed", "", "")
       ELSE TryComplete(cur, "completed", "", Reading)
    /\ UNCHANGED <<ticket, taken, breaker, opened, purse>>
-----------------------------------------------------------------------------
(* The orchestrator of the ticket.                                         *)

Builds(i) == Kind(i) = "kickoff" /\ board[i].project \in site.tickets /\ handler[i] = "running"
Steady == UNCHANGED <<site, unlisted, loop, slot, handler, reports>>
Goal(status) == ticket' = [ticket EXCEPT !.status = status]
Answer == board[child].answer

\* The budget: every poll counts the completed child of a ticket that is not over,
\* those of the polls before as well; from the cap on nothing more is dispatched.
HardStop == site.cap > 0 /\ counted >= site.cap
Capped(n) == IF n > site.cap THEN site.cap ELSE n
\* Mutant: only a child that brings a pull request is counted.
RecordsPr == State(child) = "completed" /\ Answer = "pr"
Records == State(child) = "completed"
ChecksBudget ==
    IF site.cap > 0 /\ State(child) = "completed"
    THEN /\ price' \in Prices /\ paid' = paid + price'
         /\ counted' = IF Records THEN Capped(counted + price') ELSE counted
    ELSE UNCHANGED purse
CountsAgain(i) ==
    /\ Builds(i) /\ ticket.status = "open" /\ counted < site.cap
    /\ counted' = Capped(counted + price)
    /\ Steady
    /\ UNCHANGED <<board, child, faults, talk, ticket, taken, breaker, opened, price, paid>>

\* The lookup of an open pull request comes first, and may find nothing.
DispatchesChild(i) ==
    /\ Builds(i) /\ ticket.status = "pending" /\ opened = 0 /\ ~HardStop
    /\ LET task == NewTask("builder", board[i].project, ticket.dispatches) IN
       \/ /\ \E id \in Ids : Created(task, id) /\ child' = id
          /\ ticket' = [ticket EXCEPT !.status = "dispatched", !.dispatches = @ + 1]
       \/ Lost(task) /\ UNCHANGED <<child, ticket>>
    /\ Steady /\ UNCHANGED <<talk, taken, breaker, opened, purse>>

PrFound(i) ==
    /\ Builds(i) /\ ticket.status = "pending" /\ opened > 0
    /\ Goal("open") /\ Steady
    /\ UNCHANGED <<board, child, faults, talk, taken, breaker, opened, purse>>

\* The retry sweep.
Retried == IF ticket.retries > 0
           THEN [ticket EXCEPT !.status = "pending", !.retries = @ - 1]
           ELSE [ticket EXCEPT !.status = "failed"]
Released == child' = None /\ Steady /\ Left({child})

\* Mutant: one dispatch too many.
MayGoOnLate == HasNextModel(ticket.dispatches) /\ ticket.dispatches <= MaxDispatches
MayGoOn == HasNextModel(ticket.dispatches) /\ ticket.dispatches < MaxDispatches

\* _poll_children finds the child over.
Collects(i) ==
    /\ Builds(i) /\ ticket.status = "dispatched" /\ Ended(child)
    /\ \/ /\ State(child) = "completed" /\ Answer = "pr"
          /\ Goal("open") /\ UNCHANGED <<taken, breaker>>
       \/ /\ State(child) = "completed" /\ Answer = "gap"
          /\ Goal("escalated") /\ taken' = TRUE /\ UNCHANGED breaker
       \/ /\ State(child) = "failed" \/ Answer = "text"
          /\ ticket' = Retried /\ UNCHANGED <<taken, breaker>>
       \/ /\ State(child) = "completed" /\ Answer = "silent" /\ Load
          /\ MayGoOn /\ Goal("pending") /\ Untouched /\ UNCHANGED taken
    /\ Released /\ ChecksBudget /\ UNCHANGED <<faults, talk, opened>>

\* record_hard_timeout, when no model is left to try.
GivesUp(i) ==
    /\ Builds(i) /\ ticket.status = "dispatched"
    /\ State(child) = "completed" /\ Answer = "silent" /\ Load
    /\ ~MayGoOn /\ ticket' = Retried
    /\ LET n == (IF Cleared THEN 0 ELSE strikes) + 1 IN
       /\ strikes' = IF n > MaxStrikes THEN MaxStrikes ELSE n
       /\ rolled' = ((rolled /\ ~Cleared) \/ n >= MaxStrikes)
    /\ Released /\ ChecksBudget /\ UNCHANGED <<faults, talk, taken, opened>>

\* builder_hard_timeout: the child may still be at work, or waiting for the loop.
TimesOut(i) ==
    /\ Builds(i) /\ ticket.status = "dispatched" /\ ~Ended(child) /\ Upsets
    /\ ticket' = Retried /\ Released
    /\ UNCHANGED <<talk, taken, breaker, opened, purse>>

\* Mutant: a merge ends the rollback.
MergesAndRestores(i) ==
    /\ Builds(i) /\ ticket.status = "open" /\ Goal("merged") /\ strikes' = 0 /\ rolled' = FALSE
    /\ Steady /\ UNCHANGED <<board, child, faults, talk, taken, cached, registry, opened, purse>>

\* The review merges it: record_success.
Merges(i) ==
    /\ Builds(i) /\ ticket.status = "open" /\ Goal("merged") /\ strikes' = 0
    /\ Steady /\ UNCHANGED <<board, child, faults, talk, taken, rolled, cached, registry, opened, purse>>

Settled == ticket.status \in {"merged", "escalated", "failed"}

PersonTakes ==
    /\ site.tickets # {} /\ ~taken /\ Upsets /\ taken' = TRUE
    /\ UNCHANGED <<site, unlisted, board, loop, child, slot, handler, reports, talk, ticket, breaker, opened, purse>>
=============================================================================
