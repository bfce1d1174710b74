------------------------------- MODULE Outbox --------------------------------
(***************************************************************************)
(* The transactional outbox of cap-core: rows saved in a database          *)
(* transaction (CapEngine.publish with a tx), and any number of workers    *)
(* (scheduler instances, dashboard flushes) that claim committed rows      *)
(* under a lease, emit them to the broker and record the outcome under the *)
(* claim's token (dispatchOutboxBatch, emitClaimedOutboxEvent).            *)
(*                                                                         *)
(* One action per step between two awaits.  A storage call is one atomic   *)
(* step at the database; the time it carries was read when it was made, so *)
(* every captured time is part of the worker's state.                      *)
(***************************************************************************)
EXTENDS PublishStorage, Backoff, FiniteSets

CONSTANTS
    NumMsgs,        \* number of messages; ids follow the order of created_at
    Workers,        \* concurrent executions of dispatchOutboxBatch / flushOutbox
    Flushers,       \* those that are dashboard flushes
    BatchSize,      \* scheduler.batchSize (for a flush, the page limit)
    Lease,          \* scheduler.leaseMs, in clock ticks
    FlushDelay,     \* fixed retry delay of a dashboard flush, in ticks
    Skew,           \* how far each worker's clock runs ahead of the slowest one
    MaxSkew,        \* bound on Skew
    MaxClock,       \* bound on the clock
    MaxFaults,      \* bound on crashes and storage errors
    MaxSeen         \* the history counters copies and rejects stop here

Msgs  == 1 .. NumMsgs
NoMsg == 0

ASSUME OutboxAssumption ==
    /\ NumMsgs \in Nat
    /\ Flushers \subseteq Workers
    /\ BatchSize \in Nat \ {0}
    /\ Lease \in Nat \ {0}
    /\ FlushDelay \in Nat
    /\ MaxSkew \in Nat
    /\ Skew \in [Workers -> 0 .. MaxSkew]
    /\ MaxClock \in Nat
    /\ MaxFaults \in Nat
    /\ MaxSeen \in Nat /\ MaxSeen >= MaxRetries

VARIABLES
    txn,        \* the publisher's transaction around each message
    rows,       \* the outbox table, as other connections see it
    workers,    \* the workers' local state
    now,        \* the slowest clock
    faults,     \* crashes and storage errors so far
    copies,     \* history: copies of each message the broker accepted
    rejects     \* history: emissions rejected since the message was (re)queued

vars == <<txn, rows, workers, now, faults, copies, rejects>>

------------------------------------------------------------------------------
(* Workers                                                                 *)

\* Where a worker waits: a timer ("idle"), a storage call ("release",
\* "claim", "renew"), the broker ("emit"), or the in-flight renewal and then
\* the completion write once the emit has settled.
Pc == {"idle", "release", "claim", "renew", "emit", "fulfilled", "rejected"}

Worker == [pc    : Pc,
           at    : Nat,                     \* now captured by the pending call
           token : Tokens \cup {NoOwner},   \* this round's claim owner
           batch : SUBSET Msgs,             \* events the loop has yet to reach
           cur   : Msgs \cup {NoMsg},       \* event being emitted
           sent  : BOOLEAN,                 \* the broker has accepted it
           beat  : Time,                    \* now captured by an in-flight renewal
           lost  : BOOLEAN]                 \* ownershipLost

Idle == [pc |-> "idle", at |-> 0, token |-> NoOwner, batch |-> {},
         cur |-> NoMsg, sent |-> FALSE, beat |-> NoTime, lost |-> FALSE]

Settled(w) == workers[w].pc \in {"fulfilled", "rejected"}

\* this.now() on worker w's machine.
Clock(w) == now + Skew[w]

\* randomUUID(): a token no row and no running round holds.
Fresh(t) ==
    /\ \A m \in Msgs : rows[m].owner # t
    /\ \A w \in Workers : workers[w].token # t

\* ORDER BY created_at LIMIT n.
Oldest(S, n) == { m \in S : Cardinality({ k \in S : k <= m }) <= n }

\* A history counter saturates at MaxSeen.
Count(n) == IF n < MaxSeen THEN n + 1 ELSE n

RetryDelay(w, attempt) ==
    IF w \in Flushers THEN {FlushDelay} ELSE ExpJitter(attempt)

\* The loop over the batch goes on to its next event, whose renewal it starts
\* at once, or the round ends.
Proceed(w, token, rest) ==
    \/ /\ rest = {}
       /\ workers' = [workers EXCEPT ![w] = Idle]
    \/ \E m \in rest :
         /\ \A k \in rest : m <= k
         /\ workers' = [workers EXCEPT ![w] =
                [Idle EXCEPT !.pc = "renew", !.at = Clock(w), !.token = token,
                             !.batch = rest \ {m}, !.cur = m]]

\* An exception leaves dispatchOutboxBatch; CapScheduler logs it.  The rest of
\* the batch stays claimed until its lease runs out.
Fault(w) ==
    /\ faults < MaxFaults
    /\ faults' = faults + 1
    /\ workers' = [workers EXCEPT ![w] = Idle]

\* The storage call has been executed: its reply reaches the worker and the
\* round goes on as Reply says, or the connection fails first.
Executed(w, Reply) ==
    \/ Reply /\ UNCHANGED faults
    \/ Fault(w)

------------------------------------------------------------------------------
Init ==
    /\ txn = [m \in Msgs |-> "none"]
    /\ rows = [m \in Msgs |-> AbsentRow]
    /\ workers = [w \in Workers |-> Idle]
    /\ now = 0
    /\ faults = 0
    /\ copies = [m \in Msgs |-> 0]
    /\ rejects = [m \in Msgs |-> 0]

------------------------------------------------------------------------------
(* Transactional publishers                                                *)

\* Mutant: the row is inserted outside the caller's transaction.
SaveInTransaction_outside(m) ==
    /\ txn[m] = "none"
    /\ \A k \in Msgs : k < m => txn[k] # "none"
    /\ txn' = [txn EXCEPT ![m] = "open"]
    /\ rows' = [rows EXCEPT ![m] = PendingRow]
    /\ UNCHANGED <<workers, now, faults, copies, rejects>>

\* publish(topic, payload, {tx}): the row is inserted by the caller's
\* transaction and publish returns; nobody else sees it yet.
SaveInTransaction(m) ==
    /\ txn[m] = "none"
    /\ \A k \in Msgs : k < m => txn[k] # "none"
    /\ txn' = [txn EXCEPT ![m] = "open"]
    /\ UNCHANGED <<rows, workers, now, faults, copies, rejects>>

Commit(m) ==
    /\ txn[m] = "open"
    /\ txn' = [txn EXCEPT ![m] = "committed"]
    /\ rows' = [rows EXCEPT ![m] = PendingRow]
    /\ UNCHANGED <<workers, now, faults, copies, rejects>>

Rollback(m) ==
    /\ txn[m] = "open"
    /\ txn' = [txn EXCEPT ![m] = "rolledback"]
    /\ UNCHANGED <<rows, workers, now, faults, copies, rejects>>

------------------------------------------------------------------------------
(* A dispatch round                                                        *)

BeginRound(w) ==
    /\ workers[w].pc = "idle"
    /\ workers' = [workers EXCEPT ![w] = [@ EXCEPT !.pc = "release", !.at = Clock(w)]]
    /\ UNCHANGED <<txn, rows, now, faults, copies, rejects>>

ReleaseExpiredClaims(w) ==
    /\ workers[w].pc = "release"
    /\ rows' = [m \in Msgs |-> ReleasedRow(rows[m], workers[w].at)]
    /\ Executed(w, workers' = [workers EXCEPT ![w].pc = "claim"])
    /\ UNCHANGED <<txn, now, copies, rejects>>

\* The claim is evaluated, and its lease counted, from the time captured when
\* the round began.
ClaimUnpublished(w) ==
    /\ workers[w].pc = "claim"
    /\ \E t \in Tokens :
         LET at  == workers[w].at
             won == Oldest({ m \in Msgs : Claimable(rows[m], at) }, BatchSize)
         IN /\ Fresh(t)
            /\ rows' = [m \in Msgs |->
                   IF m \in won THEN ClaimedRow(rows[m], t, at + Lease) ELSE rows[m]]
            /\ Executed(w, Proceed(w, t, won))
    /\ UNCHANGED <<txn, now, copies, rejects>>

\* renewPublishClaim with a clock captured at the call: the row in hand is
\* renewed if w still holds it.
Renewed(w, at) ==
    [rows EXCEPT ![workers[w].cur] =
        IF CanRenew(@, workers[w].token, at) THEN RenewedRow(@, at + Lease) ELSE @]

\* Mutant: the result of the renewal is not looked at.
RenewBeforeEmit_unchecked(w) ==
    LET me == workers[w]
    IN /\ me.pc = "renew"
       /\ rows' = Renewed(w, me.at)
       /\ workers' = [workers EXCEPT ![w] = [@ EXCEPT !.pc = "emit", !.at = 0]]
       /\ UNCHANGED <<txn, now, faults, copies, rejects>>

\* renewClaim(evt, token, 'before broker emission').
RenewBeforeEmit(w) ==
    LET me == workers[w]
    IN /\ me.pc = "renew"
       /\ \/ /\ CanRenew(rows[me.cur], me.token, me.at)
             /\ rows' = [rows EXCEPT ![me.cur] = RenewedRow(@, me.at + Lease)]
             /\ workers' = [workers EXCEPT ![w] = [@ EXCEPT !.pc = "emit", !.at = 0]]
          \/ /\ ~CanRenew(rows[me.cur], me.token, me.at)
             /\ rows' = rows
             /\ Proceed(w, me.token, me.batch)
       /\ UNCHANGED <<txn, now, faults, copies, rejects>>

\* The broker accepts the message in flight.
BrokerAccepts(w) ==
    /\ workers[w].pc = "emit"
    /\ ~workers[w].sent
    /\ workers' = [workers EXCEPT ![w].sent = TRUE]
    /\ copies' = [copies EXCEPT ![workers[w].cur] = Count(@)]
    /\ UNCHANGED <<txn, rows, now, faults, rejects>>

\* Mutant: emit resolves before the broker's acknowledgement.
EmitFulfilled_early(w) ==
    /\ workers[w].pc = "emit"
    /\ workers' = [workers EXCEPT ![w].pc = "fulfilled"]
    /\ UNCHANGED <<txn, rows, now, faults, copies, rejects>>

\* publisher.emit resolves only on the broker's acknowledgement.
EmitFulfilled(w) ==
    /\ workers[w].pc = "emit"
    /\ workers[w].sent
    /\ workers' = [workers EXCEPT ![w].pc = "fulfilled"]
    /\ UNCHANGED <<txn, rows, now, faults, copies, rejects>>

\* publisher.emit rejects: refused, or accepted and the acknowledgement lost.
EmitRejected(w) ==
    /\ workers[w].pc = "emit"
    /\ workers' = [workers EXCEPT ![w].pc = "rejected"]
    /\ rejects' = [rejects EXCEPT ![workers[w].cur] = Count(@)]
    /\ UNCHANGED <<txn, rows, now, faults, copies>>

\* The heartbeat timer fires while the emit is in flight and calls renew().
HeartbeatFires(w) ==
    /\ workers[w].pc = "emit"
    /\ workers[w].beat = NoTime
    /\ ~workers[w].lost
    /\ workers' = [workers EXCEPT ![w].beat = Clock(w)]
    /\ UNCHANGED <<txn, rows, now, faults, copies, rejects>>

\* That renewal is executed, perhaps after the emit has settled.
HeartbeatRenews(w) ==
    LET me == workers[w]
        ok == CanRenew(rows[me.cur], me.token, me.beat)
    IN /\ me.beat # NoTime
       /\ rows' = Renewed(w, me.beat)
       /\ workers' = [workers EXCEPT ![w] = [@ EXCEPT !.beat = NoTime, !.lost = ~ok]]
       /\ UNCHANGED <<txn, now, faults, copies, rejects>>

\* The emit has settled and no renewal is in flight: with the claim lost
\* nothing is written; otherwise the outcome is, if the row is still ours.
SkipCompletion(w) ==
    /\ Settled(w)
    /\ workers[w].beat = NoTime
    /\ workers[w].lost
    /\ Proceed(w, workers[w].token, workers[w].batch)
    /\ UNCHANGED <<txn, rows, now, faults, copies, rejects>>

\* Mutant: completion by claim owner only, without the event's id.
MarkPublished_wholeClaim(w) ==
    LET me == workers[w]
    IN /\ me.pc = "fulfilled"
       /\ me.beat = NoTime
       /\ ~me.lost
       /\ rows' = [m \in Msgs |->
                      IF CanComplete(rows[m], me.token) THEN PublishedRow(rows[m]) ELSE rows[m]]
       /\ Executed(w, Proceed(w, me.token, me.batch))
       /\ UNCHANGED <<txn, now, copies, rejects>>

MarkPublished(w) ==
    LET me == workers[w]
    IN /\ me.pc = "fulfilled"
       /\ me.beat = NoTime
       /\ ~me.lost
       /\ rows' = [rows EXCEPT ![me.cur] =
                      IF CanComplete(@, me.token) THEN PublishedRow(@) ELSE @]
       /\ Executed(w, Proceed(w, me.token, me.batch))
       /\ UNCHANGED <<txn, now, copies, rejects>>

MarkPublishFailed(w) ==
    LET me == workers[w]
    IN /\ me.pc = "rejected"
       /\ me.beat = NoTime
       /\ ~me.lost
       /\ \E d \in RetryDelay(w, rows[me.cur].retry) :
            rows' = [rows EXCEPT ![me.cur] =
                        IF CanComplete(@, me.token) THEN FailedRow(@, Clock(w) + d) ELSE @]
       /\ Executed(w, Proceed(w, me.token, me.batch))
       /\ UNCHANGED <<txn, now, copies, rejects>>

------------------------------------------------------------------------------
(* Failures, administration and time                                       *)

\* A renewal call fails, executed or not: "ownership is treated as lost",
\* although the claim may have been renewed.
RenewalFails(w) ==
    /\ faults < MaxFaults
    /\ faults' = faults + 1
    /\ \/ /\ workers[w].pc = "renew"
          /\ rows' \in {rows, Renewed(w, workers[w].at)}
          /\ Proceed(w, workers[w].token, workers[w].batch)
       \/ /\ workers[w].beat # NoTime
          /\ rows' \in {rows, Renewed(w, workers[w].beat)}
          /\ workers' = [workers EXCEPT ![w] = [@ EXCEPT !.beat = NoTime, !.lost = TRUE]]
    /\ UNCHANGED <<txn, now, copies, rejects>>

\* The process dies, or any other storage call throws without having been
\* executed: the round is gone, its claims stay.
Crash(w) ==
    /\ workers[w].pc # "idle"
    /\ Fault(w)
    /\ UNCHANGED <<txn, rows, now, copies, rejects>>

\* CapEngine.requeueOutbox.
Requeue(m) ==
    /\ CanRequeue(rows[m])
    /\ \E t \in now .. now + MaxSkew :
         rows' = [rows EXCEPT ![m] = RequeuedRow(@, t)]
    /\ rejects' = [rejects EXCEPT ![m] = 0]
    /\ UNCHANGED <<txn, workers, now, faults, copies>>

Tick ==
    /\ now < MaxClock
    /\ now' = now + 1
    /\ UNCHANGED <<txn, rows, workers, faults, copies, rejects>>

------------------------------------------------------------------------------
PublisherStep(m) == SaveInTransaction(m) \/ Commit(m) \/ Rollback(m)

StorageStep(w) ==
    \/ ReleaseExpiredClaims(w) \/ ClaimUnpublished(w) \/ RenewBeforeEmit(w)
    \/ HeartbeatRenews(w) \/ MarkPublished(w) \/ MarkPublishFailed(w)

BrokerStep(w) == BrokerAccepts(w) \/ EmitFulfilled(w) \/ EmitRejected(w)

RoundStep(w) ==
    StorageStep(w) \/ BrokerStep(w) \/ HeartbeatFires(w) \/ SkipCompletion(w)

Next ==
    \/ \E m \in Msgs : PublisherStep(m) \/ Requeue(m)
    \/ \E w \in Workers : BeginRound(w) \/ RoundStep(w) \/ RenewalFails(w) \/ Crash(w)
    \/ Tick

Spec == Init /\ [][Next]_vars

------------------------------------------------------------------------------
(* Properties                                                              *)

TypeOK ==
    /\ txn \in [Msgs -> {"none", "open", "committed", "rolledback"}]
    /\ rows \in [Msgs -> Row]
    /\ workers \in [Workers -> Worker]
    /\ now \in 0 .. MaxClock
    /\ faults \in 0 .. MaxFaults
    /\ copies \in [Msgs -> 0 .. MaxSeen]
    /\ rejects \in [Msgs -> 0 .. MaxSeen]

\* No message is lost: a row is marked published only if the broker accepted
\* the message, whatever claims expired, workers crashed or replies were lost
\* on the way (markPublished after a fulfilled emit).
PublishedWasAccepted ==
    \A m \in Msgs : rows[m].status = "published" => copies[m] > 0

\* The broker never sees a message of a transaction that has not committed
\* (publish with a tx defers the emit until the scheduler claims the row).
AcceptedWasCommitted ==
    \A m \in Msgs : copies[m] > 0 => txn[m] = "committed"

\* A message is dead-lettered only for MaxRetries broker rejections since it
\* was published or requeued: a crash, an expired lease, a lost claim or a
\* stale worker of an earlier round never consumes its retry budget.
DeadLetterEarned ==
    \A m \in Msgs :
        rows[m].status = "dead_letter" => rejects[m] >= MaxRetries

\* A row some worker holds under a lease valid on every clock changes hands
\* only by that worker's own completion: no release, claim, requeue or stale
\* completion touches it.
LiveClaimRespected ==
    [][\A m \in Msgs :
         /\ rows[m].status = "processing"
         /\ rows[m].until > now + MaxSkew
         /\ rows'[m].owner # rows[m].owner
         => \E w \in Workers :
              /\ Settled(w)
              /\ workers[w].cur = m
              /\ workers[w].token = rows[m].owner]_vars

\* A published row is final: neither an expired worker, nor an operator's
\* requeue, nor a later round makes it retryable again.
PublishedIsFinal ==
    [][\A m \in Msgs :
         rows[m].status = "published" => rows'[m].status = "published"]_vars

\* The promise to the application: what a row's status says of its message.
Phase(m) ==
    CASE rows[m].status = "absent"      -> "none"
      [] rows[m].status = "published"   -> "done"
      [] rows[m].status = "dead_letter" -> "dead"
      [] OTHER                          -> "queued"

Promise == INSTANCE OutboxPromise WITH
    Messages <- Msgs,
    phase    <- [m \in Msgs |-> Phase(m)],
    accepted <- { m \in Msgs : copies[m] > 0 }

\* Outbox implements OutboxPromise: claims, expiries, crashes and lost replies
\* of all workers together never take a message back to an earlier phase, and
\* never finish it without the broker.
ImplementsPromise == Promise!PromiseSpec

------------------------------------------------------------------------------
(* The inductive invariant behind the safety properties                    *)

\* The worker is between the claim of an event and the end of its handling.
HasEvent(w) == workers[w].pc \in {"renew", "emit", "fulfilled", "rejected"}

\* The row w handles still carries w's token.
StillOwns(w) ==
    /\ rows[workers[w].cur].status = "processing"
    /\ rows[workers[w].cur].owner = workers[w].token

RowInv(m) ==
    /\ rows[m].status = "absent" <=> txn[m] # "committed"
    /\ copies[m] > 0 => txn[m] = "committed"
    /\ rows[m].status = "published" => copies[m] > 0
    /\ rows[m].status = "dead_letter" <=> rows[m].retry >= MaxRetries
    /\ rows[m].retry <= rejects[m]

\* Captured times are not in the worker's future; a worker with an event has
\* a token of its own round, knows that the broker has what it saw sent, and
\* has seen more rejections than its row has counted.
WorkerInv(w) ==
    /\ workers[w].at <= Clock(w)
    /\ workers[w].beat <= Clock(w)
    /\ workers[w].beat # NoTime => HasEvent(w)
    /\ HasEvent(w) =>
         /\ workers[w].token \in Tokens
         /\ workers[w].cur \in Msgs
         /\ \A m \in workers[w].batch \cup {workers[w].cur} : txn[m] = "committed"
         /\ workers[w].sent => copies[workers[w].cur] > 0
    /\ workers[w].pc = "fulfilled" => workers[w].sent
    /\ workers[w].pc = "rejected" /\ StillOwns(w) =>
         rows[workers[w].cur].retry < rejects[workers[w].cur]

TokensUnique ==
    \A v, w \in Workers :
        v # w /\ workers[v].token = workers[w].token => workers[v].token = NoOwner

\* What makes the claim protocol safe, and inductive: unique tokens, captured
\* times that are past, and history that runs ahead of the table.
IndInv ==
    /\ TypeOK
    /\ \A m \in Msgs : RowInv(m)
    /\ \A w \in Workers : WorkerInv(w)
    /\ TokensUnique
==============================================================================
