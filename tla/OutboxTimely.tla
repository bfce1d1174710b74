---------------------------- MODULE OutboxTimely -----------------------------
(***************************************************************************)
(* Outbox under the timing the active-lease heartbeat is designed for: a   *)
(* worker that is emitting, and has not learnt that it lost its claim,     *)
(* renews (every third of the lease) and completes before the lease runs   *)
(* out, and storage calls are shorter than the lease.  Without that an     *)
(* emission can be overtaken for ever; with it, the claim protocol must    *)
(* make duplicates attributable and bring every message to a final status. *)
(*                                                                         *)
(* Time must not stop for liveness, so the clock is kept at MaxClock and a *)
(* tick moves every stored time one unit into the past instead.            *)
(***************************************************************************)
EXTENDS Outbox

CONSTANT
    MaxCall         \* bound on the ticks a storage call takes to execute

\* A lease outlasts a storage call even on the clock that runs furthest ahead.
ASSUME TimelyAssumption ==
    /\ MaxCall \in Nat
    /\ MaxCall + MaxSkew < Lease
    /\ MaxCall < MaxClock

VARIABLE
    timer           \* CapScheduler's interval timers that have fired

timelyVars == <<vars, timer>>

TimelyInit == Init /\ timer = Workers

\* A worker between its renewal and the end of its completion write that
\* still believes it owns the row.
HoldsClaim(w) ==
    /\ workers[w].pc \in {"emit", "fulfilled", "rejected"}
    /\ ~workers[w].lost
    /\ rows[workers[w].cur].owner = workers[w].token

\* The next tick does not run out a lease in active use.
HeartbeatsPrompt ==
    \A w \in Workers : HoldsClaim(w) => rows[workers[w].cur].until > now + 1 + MaxSkew

\* Nor does it make a pending storage call older than MaxCall.
StoragePrompt ==
    \A w \in Workers :
        /\ workers[w].pc \in {"release", "claim", "renew"} =>
               Clock(w) - workers[w].at < MaxCall
        /\ workers[w].beat # NoTime => Clock(w) - workers[w].beat < MaxCall

\* scheduleOutbox: a round starts when the interval timer fires, at most once
\* per tick on one worker.
TimedRound(w) ==
    /\ w \in timer
    /\ timer' = timer \ {w}
    /\ BeginRound(w)

\* Time passes, and with it the intervals.
TimelyTick ==
    /\ HeartbeatsPrompt
    /\ StoragePrompt
    /\ timer' = Workers
    /\ Tick

\* One unit older; a time that is 0 is already before every clock.
Older(t) == IF t > 0 THEN t - 1 ELSE t

\* The clock advances past MaxClock: with MaxCall < MaxClock no pending time
\* falls below 0.
Rebase ==
    /\ HeartbeatsPrompt
    /\ StoragePrompt
    /\ now = MaxClock
    /\ timer' = Workers
    /\ rows' = [m \in Msgs |-> [rows[m] EXCEPT !.due = Older(@), !.until = Older(@)]]
    /\ workers' = [w \in Workers |->
                      [workers[w] EXCEPT !.at = Older(@), !.beat = Older(@)]]
    /\ UNCHANGED <<txn, now, faults, copies, rejects>>

\* No operator requeues here: a requeue restarts the history counters.
TimelyNext ==
    \/ \E m \in Msgs : PublisherStep(m) /\ UNCHANGED timer
    \/ \E w \in Workers :
         \/ TimedRound(w)
         \/ (RoundStep(w) \/ RenewalFails(w) \/ Crash(w)) /\ UNCHANGED timer
    \/ TimelyTick
    \/ Rebase

TimelySpec == TimelyInit /\ [][TimelyNext]_timelyVars

\* Scheduler timers fire again and again, storage and broker calls settle,
\* the heartbeat timer fires, time passes.  Nothing makes the broker accept,
\* a transaction commit, or a process crash.
Fairness ==
    /\ \A w \in Workers :
         /\ WF_timelyVars(TimedRound(w))
         /\ WF_vars(StorageStep(w))
         /\ WF_vars(BrokerStep(w) /\ workers'[w].pc # "emit")
         /\ WF_vars(HeartbeatFires(w))
         /\ WF_vars(HeartbeatRenews(w))
         /\ WF_vars(SkipCompletion(w))
    /\ WF_timelyVars(TimelyTick \/ Rebase)

LiveSpec == TimelySpec /\ Fairness

------------------------------------------------------------------------------
\* Two workers emit the same message at the same time only if one of them
\* already knows it lost its claim: renewing before the emission protects
\* rows that waited in a batch, the heartbeat the row being emitted.
NoOverlappingEmission ==
    \A v, w \in Workers :
        /\ v # w
        /\ workers[v].pc = "emit"
        /\ workers[w].pc = "emit"
        /\ workers[v].cur = workers[w].cur
        => workers[v].lost \/ workers[w].lost

\* With prompt heartbeats a message reaches the broker twice only after an
\* emission was rejected or something failed: contention between schedulers
\* alone never duplicates it.
DuplicateHasCause ==
    \A m \in Msgs : copies[m] > 1 => rejects[m] > 0 \/ faults > 0

\* Every committed message ends up published or dead-lettered, whatever the
\* schedulers contend for and although claims are left behind by failures.
EventuallyFinal ==
    \A m \in Msgs :
        txn[m] = "committed" ~> rows[m].status \in {"published", "dead_letter"}

------------------------------------------------------------------------------
(* The inductive invariant behind the safety properties                    *)

Emission(w) == workers[w].pc \in {"emit", "fulfilled", "rejected"}

\* No storage call is older than MaxCall, and a worker that emits without
\* having learnt otherwise holds its row under a lease valid on every clock.
LeaseInv(w) ==
    /\ workers[w].pc \in {"release", "claim", "renew"} =>
           Clock(w) - workers[w].at <= MaxCall
    /\ workers[w].beat # NoTime =>
           Emission(w) /\ Clock(w) - workers[w].beat <= MaxCall
    /\ workers[w].lost => Emission(w)
    /\ Emission(w) /\ ~workers[w].lost =>
           StillOwns(w) /\ rows[workers[w].cur].until > now + MaxSkew

\* The accepted message is in the hands of the worker that emitted it.
InFlight(m) ==
    \E w \in Workers :
        /\ workers[w].pc \in {"emit", "fulfilled"}
        /\ workers[w].cur = m
        /\ workers[w].sent

\* As long as nothing failed no claim is lost, and a message that was never
\* rejected was accepted once: its row is published or its emission not over.
CopyInv ==
    faults = 0 =>
        /\ \A w \in Workers : ~workers[w].lost
        /\ \A m \in Msgs :
              rejects[m] = 0 /\ copies[m] > 0 =>
                  copies[m] = 1 /\ (rows[m].status = "published" \/ InFlight(m))

TimelyInv == IndInv /\ (\A w \in Workers : LeaseInv(w)) /\ CopyInv
==============================================================================
