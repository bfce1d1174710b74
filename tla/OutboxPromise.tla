---------------------------- MODULE OutboxPromise ----------------------------
(***************************************************************************)
(* What the outbox promises about each message of a committed transaction: *)
(* it stays queued until the broker has accepted it at least once or the   *)
(* retries are used up; "done" is final, "dead" is left only by an         *)
(* operator's requeue.  Nothing is said of claims, leases, clocks or       *)
(* schedulers: that is what Outbox adds.                                   *)
(***************************************************************************)
CONSTANT Messages

VARIABLES
    phase,          \* "none", "queued", "done" or "dead"
    accepted        \* messages the broker has accepted at least once

promiseVars == <<phase, accepted>>

PromiseInit ==
    /\ phase = [m \in Messages |-> "none"]
    /\ accepted = {}

Move(m, from, to) ==
    /\ phase[m] = from
    /\ phase' = [phase EXCEPT ![m] = to]
    /\ UNCHANGED accepted

Enqueue(m) == Move(m, "none", "queued")

\* Possibly again, and possibly by a worker whose claim is long gone.
Accept(m) ==
    /\ phase[m] # "none"
    /\ accepted' = accepted \cup {m}
    /\ UNCHANGED phase

Finish(m) == m \in accepted /\ Move(m, "queued", "done")
GiveUp(m) == Move(m, "queued", "dead")
Revive(m) == Move(m, "dead", "queued")

PromiseNext ==
    \E m \in Messages :
        Enqueue(m) \/ Accept(m) \/ Finish(m) \/ GiveUp(m) \/ Revive(m)

PromiseSpec == PromiseInit /\ [][PromiseNext]_promiseVars
==============================================================================
