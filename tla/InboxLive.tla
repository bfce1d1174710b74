------------------------------ MODULE InboxLive ------------------------------
(***************************************************************************)
(* Inbox under a scheduler that keeps firing and a broker that redelivers  *)
(* what was not acknowledged: what becomes of every message in the end.    *)
(* Handlers and storage calls settle; nothing makes a handler succeed.     *)
(*                                                                         *)
(* Time must not stop for liveness, so the clock is kept at MaxClock and a *)
(* tick moves every stored time one unit into the past instead.            *)
(***************************************************************************)
EXTENDS Inbox

CONSTANT
    MaxCall         \* bound on the ticks a storage call takes to execute

\* A broker redelivers more often than calls fail, and a pending query's clock
\* stays a whole window away from 0, where times lose their distance.
ASSUME LiveAssumption ==
    /\ MaxCall \in Nat /\ MaxCall < MaxClock
    /\ Window + MaxCall <= MaxClock
    /\ MaxFaults < MaxDeliveries

VARIABLE
    timer           \* CapScheduler's interval timers that have fired

liveVars == <<vars, timer>>

LiveInit == Init /\ timer = Retriers

\* A tick does not make a pending storage call older than MaxCall.
StoragePrompt ==
    \A e \in Runners :
        runs[e].pc \in {"save", "query", "catch", "write"} =>
            Clock(e) - runs[e].at < MaxCall

\* scheduleInbox: a round starts when the interval timer fires, at most once
\* per tick on one scheduler.
TimedRetry(r) ==
    /\ r \in timer
    /\ timer' = timer \ {r}
    /\ BeginRetry(r)

TimedTick ==
    /\ StoragePrompt
    /\ timer' = Retriers
    /\ Tick

\* One unit older; a time that is 0 is already before every clock.
Older(t) == IF t > 0 THEN t - 1 ELSE t

\* The clock advances past MaxClock: with MaxCall < MaxClock no pending time
\* falls below 0.
Rebase ==
    /\ StoragePrompt
    /\ now = MaxClock
    /\ timer' = Retriers
    /\ rows' = [m \in Msgs |-> [rows[m] EXCEPT !.due = Older(@), !.born = Older(@)]]
    /\ runs' = [e \in Runners |-> [runs[e] EXCEPT !.at = Older(@)]]
    /\ UNCHANGED <<acked, deliveries, now, faults, handled, failures, marked>>

LiveNext ==
    \/ \E c \in Consumers :
         (TrySaveReceived(c) \/ \E m \in Msgs : Deliver(c, m)) /\ UNCHANGED timer
    \/ \E r \in Retriers : TimedRetry(r) \/ (GetRetryDue(r) /\ UNCHANGED timer)
    \/ \E e \in Runners :
         (HandlerStep(e) \/ CompletionStep(e) \/ Crash(e)) /\ UNCHANGED timer
    \/ TimedTick
    \/ Rebase

\* Scheduler timers fire again and again, handlers and storage calls settle,
\* a free consumer is given what was never acknowledged, time passes.
Fairness ==
    /\ \A r \in Retriers : WF_liveVars(TimedRetry(r)) /\ WF_vars(GetRetryDue(r))
    /\ \A c \in Consumers : WF_vars(TrySaveReceived(c))
    /\ \A m \in Msgs : WF_vars(m \notin acked /\ \E c \in Consumers : Deliver(c, m))
    /\ \A e \in Runners : WF_vars(HandlerStep(e)) /\ WF_vars(CompletionStep(e))
    /\ WF_liveVars(TimedTick \/ Rebase)

LiveSpec == LiveInit /\ [][LiveNext]_liveVars /\ Fairness

------------------------------------------------------------------------------
\* docs/architecture.md: due failed rows and stale pending rows are re-run and
\* "eventually move" to dead_letter: a delivered message with a handler ends
\* up processed or dead-lettered for good, although storage calls fail,
\* executions die or overlap, and rows without a handler stay in the table.
EventuallySettled ==
    \A m \in Msgs \ Orphans :
        <>[](deliveries[m] > 0 => rows[m].status \in {"processed", "dead_letter"})
==============================================================================
