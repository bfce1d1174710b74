---------------------------- MODULE OutboxProofs -----------------------------
(***************************************************************************)
(* Theorems about Outbox, for every number of messages and workers, every  *)
(* batch size, lease, retry limit, clock skew and bound.                   *)
(***************************************************************************)
EXTENDS Outbox, TLAPS

------------------------------------------------------------------------------
(* The row operations                                                      *)

\* A counted failure leaves a well-typed row, dead-lettered or not.
LEMMA FailedRowTyped ==
    ASSUME NEW row \in Row, NEW due \in Nat
    PROVE  FailedRow(row, due) \in Row
<1>1. row.retry + 1 \in Nat
  BY DEF Row
<1>2. CASE row.retry + 1 >= MaxRetries
  BY <1>1, <1>2 DEF Row, Status, Time, NoTime, FailedRow
<1>3. CASE ~(row.retry + 1 >= MaxRetries)
  BY <1>1, <1>3 DEF Row, Status, Time, NoTime, FailedRow
<1>. QED
  BY <1>2, <1>3

\* Every update a storage runs turns a row into a row.
LEMMA RowUpdatesTyped ==
    ASSUME NEW row \in Row, NEW t \in Nat, NEW token \in Tokens
    PROVE  /\ ClaimedRow(row, token, t) \in Row
           /\ PublishedRow(row) \in Row
           /\ FailedRow(row, t) \in Row
           /\ RenewedRow(row, t) \in Row
           /\ ReleasedRow(row, t) \in Row
           /\ RequeuedRow(row, t) \in Row
           /\ PendingRow \in Row
           /\ AbsentRow \in Row
<1>1. AbsentRow \in Row /\ PendingRow \in Row
  BY DEF Row, Status, Time, NoTime, PendingRow, AbsentRow
<1>2. ClaimedRow(row, token, t) \in Row
  BY DEF Row, Status, Time, ClaimedRow
<1>3. PublishedRow(row) \in Row
  BY DEF Row, Status, Time, NoTime, PublishedRow
<1>4. FailedRow(row, t) \in Row
  BY FailedRowTyped
<1>5. RenewedRow(row, t) \in Row
  BY DEF Row, Time, RenewedRow
<1>6. ReleasedRow(row, t) \in Row
  BY DEF Row, Status, Time, NoTime, ReleasedRow
<1>7. RequeuedRow(row, t) \in Row
  BY DEF Row, Status, Time, NoTime, RequeuedRow
<1>. QED
  BY <1>1, <1>2, <1>3, <1>4, <1>5, <1>6, <1>7

\* A retry delay is a number of ticks.
LEMMA RetryDelayTyped ==
    ASSUME NEW w \in Workers, NEW attempt
    PROVE  RetryDelay(w, attempt) \subseteq Nat
BY OutboxAssumption, BackoffAssumption DEF RetryDelay, ExpJitter

\* A worker's clock is at most MaxSkew ahead.
LEMMA ClockTyped ==
    ASSUME NEW w \in Workers, now \in Nat
    PROVE  Clock(w) \in Nat /\ Clock(w) <= now + MaxSkew /\ now <= Clock(w)
BY OutboxAssumption DEF Clock

\* A counter with its bound.
LEMMA CountTyped ==
    ASSUME NEW n \in 0 .. MaxSeen
    PROVE  /\ Count(n) \in 0 .. MaxSeen
           /\ Count(n) >= n
           /\ Count(n) > 0 \/ MaxSeen = 0
BY OutboxAssumption DEF Count

------------------------------------------------------------------------------
(* Type correctness                                                        *)

\* The idle state is a state of a worker.
LEMMA IdleTyped == Idle \in Worker
BY DEF Idle, Worker, Pc, Time, NoTime, NoMsg

\* Whatever the loop over the batch does next leaves the workers well typed.
LEMMA ProceedTyped ==
    ASSUME TypeOK, NEW w \in Workers, NEW token \in Tokens \cup {NoOwner},
           NEW rest \in SUBSET Msgs, Proceed(w, token, rest)
    PROVE  workers' \in [Workers -> Worker]
<1>1. CASE rest = {} /\ workers' = [workers EXCEPT ![w] = Idle]
  BY <1>1, IdleTyped DEF TypeOK
<1>2. ASSUME NEW m \in rest,
             workers' = [workers EXCEPT ![w] =
                [Idle EXCEPT !.pc = "renew", !.at = Clock(w), !.token = token,
                             !.batch = rest \ {m}, !.cur = m]]
      PROVE  workers' \in [Workers -> Worker]
  <2>1. Clock(w) \in Nat
    BY ClockTyped DEF TypeOK
  <2>2. [Idle EXCEPT !.pc = "renew", !.at = Clock(w), !.token = token,
                     !.batch = rest \ {m}, !.cur = m] \in Worker
    BY <2>1, IdleTyped DEF Worker, Pc, Idle
  <2>. QED
    BY <1>2, <2>2 DEF TypeOK
<1>. QED
  BY <1>1, <1>2 DEF Proceed

\* A fault keeps the types.
LEMMA FaultTyped ==
    ASSUME TypeOK, NEW w \in Workers, Fault(w)
    PROVE  workers' \in [Workers -> Worker] /\ faults' \in 0 .. MaxFaults
BY IdleTyped, OutboxAssumption DEF TypeOK, Fault

\* The end of one statement and the start of the next keep the types.
LEMMA ExecutedProceedTyped ==
    ASSUME TypeOK, NEW w \in Workers, NEW token \in Tokens \cup {NoOwner},
           NEW rest \in SUBSET Msgs, Executed(w, Proceed(w, token, rest))
    PROVE  workers' \in [Workers -> Worker] /\ faults' \in 0 .. MaxFaults
BY ProceedTyped, FaultTyped DEF Executed, TypeOK

\* A renewal that fails, executed or not, moves at most a lease's end.
LEMMA FailedRenewalRows ==
    ASSUME TypeOK, NEW w \in Workers, RenewalFails(w)
    PROVE  /\ rows' \in [Msgs -> Row]
           /\ \A m \in Msgs :
                 /\ rows'[m].status = rows[m].status
                 /\ rows'[m].owner = rows[m].owner
                 /\ rows'[m].retry = rows[m].retry
                 /\ rows[m].owner # workers[w].token => rows'[m] = rows[m]
<1>1. /\ workers[w] \in Worker /\ workers[w].at \in Nat /\ workers[w].beat \in Time
      /\ \A m \in Msgs : rows[m] \in Row
  BY DEF TypeOK, Worker
<1>2. PICK at \in Nat : rows' \in {rows, Renewed(w, at)}
  BY <1>1 DEF RenewalFails, Time, NoTime
<1>3. at + Lease \in Nat
  BY OutboxAssumption
<1>4. \A m \in Msgs : /\ RenewedRow(rows[m], at + Lease) \in Row
                       /\ RenewedRow(rows[m], at + Lease).status = rows[m].status
                       /\ RenewedRow(rows[m], at + Lease).owner = rows[m].owner
                       /\ RenewedRow(rows[m], at + Lease).retry = rows[m].retry
  BY <1>1, <1>3 DEF RenewedRow, Row, Time
<1>5. CASE rows' = rows
  BY <1>5 DEF TypeOK
<1>6. CASE rows' = Renewed(w, at)
  <2>1. /\ rows' \in [Msgs -> Row]
        /\ \A m \in Msgs : rows'[m] \in {rows[m], RenewedRow(rows[m], at + Lease)}
    BY <1>1, <1>4, <1>6 DEF Renewed, TypeOK
  <2>2. \A m \in Msgs : rows[m].owner # workers[w].token => rows'[m] = rows[m]
    BY <1>6 DEF Renewed, CanRenew, TypeOK
  <2>. QED
    BY <1>4, <2>1, <2>2
<1>. QED
  BY <1>2, <1>5, <1>6

\* The initial states are typed.
LEMMA InitTyped == Init => TypeOK
<1>. SUFFICES ASSUME Init PROVE TypeOK
  OBVIOUS
<1>1. rows \in [Msgs -> Row]
  <2>1. AbsentRow \in Row
    BY DEF Row, Status, Time, NoTime, AbsentRow
  <2>. QED
    BY <2>1 DEF Init
<1>2. workers \in [Workers -> Worker]
  BY IdleTyped DEF Init
<1>. QED
  BY <1>1, <1>2, OutboxAssumption DEF Init, TypeOK

\* Each kind of step keeps the state well typed.
LEMMA NextTyped == TypeOK /\ [Next]_vars => TypeOK'
<1>. SUFFICES ASSUME TypeOK, [Next]_vars PROVE TypeOK'
  OBVIOUS
<1>. USE DEF TypeOK
<1>a. \A w \in Workers : workers[w] \in Worker /\ Clock(w) \in Nat
  BY ClockTyped
<1>b. \A m \in Msgs : rows[m] \in Row
  OBVIOUS
<1>1. ASSUME NEW m \in Msgs, PublisherStep(m) \/ Requeue(m) PROVE TypeOK'
  <2>1. CASE SaveInTransaction(m) \/ Rollback(m)
    BY <2>1 DEF SaveInTransaction, Rollback
  <2>2. CASE Commit(m)
    <3>1. PendingRow \in Row
      BY DEF Row, Status, Time, NoTime, PendingRow, AbsentRow
    <3>. QED
      BY <2>2, <3>1 DEF Commit
  <2>3. CASE Requeue(m)
    <3>1. PICK t \in now .. now + MaxSkew : rows' = [rows EXCEPT ![m] = RequeuedRow(@, t)]
      BY <2>3 DEF Requeue
    <3>2. t \in Nat
      BY <3>1, OutboxAssumption
    <3>3. RequeuedRow(rows[m], t) \in Row
      BY <3>2 DEF Row, Status, Time, NoTime, RequeuedRow
    <3>. QED
      BY <2>3, <3>1, <3>3, OutboxAssumption DEF Requeue
  <2>. QED
    BY <1>1, <2>1, <2>2, <2>3 DEF PublisherStep
<1>2. ASSUME NEW w \in Workers, BeginRound(w) PROVE TypeOK'
  <2>1. [workers[w] EXCEPT !.pc = "release", !.at = Clock(w)] \in Worker
    BY <1>a DEF Worker, Pc
  <2>. QED
    BY <1>2, <2>1 DEF BeginRound
<1>3. ASSUME NEW w \in Workers, StorageStep(w) PROVE TypeOK'
  <2>. DEFINE me == workers[w]
  <2>a. me \in Worker /\ me.at \in Nat /\ me.batch \in SUBSET Msgs
        /\ me.token \in Tokens \cup {NoOwner} /\ me.beat \in Time
    BY <1>a DEF Worker
  <2>1. CASE ReleaseExpiredClaims(w)
    <3>1. rows' \in [Msgs -> Row]
      BY <2>1, <1>b DEF ReleaseExpiredClaims, ReleasedRow, Row, Status, Time, NoTime
    <3>2. workers' \in [Workers -> Worker] /\ faults' \in 0 .. MaxFaults
      BY <2>1, <1>a, FaultTyped DEF ReleaseExpiredClaims, Executed, Worker, Pc
    <3>. QED
      BY <2>1, <3>1, <3>2 DEF ReleaseExpiredClaims
  <2>2. CASE ClaimUnpublished(w)
    <3>. DEFINE won == Oldest({ m \in Msgs : Claimable(rows[m], me.at) }, BatchSize)
    <3>1. PICK t \in Tokens :
            /\ rows' = [m \in Msgs |->
                  IF m \in won THEN ClaimedRow(rows[m], t, me.at + Lease) ELSE rows[m]]
            /\ Executed(w, Proceed(w, t, won))
      BY <2>2 DEF ClaimUnpublished
    <3>2. won \in SUBSET Msgs
      BY DEF Oldest
    <3>3. workers' \in [Workers -> Worker] /\ faults' \in 0 .. MaxFaults
      BY <3>1, <3>2, ExecutedProceedTyped
    <3>4. me.at + Lease \in Nat
      BY <2>a, OutboxAssumption
    <3>5. rows' \in [Msgs -> Row]
      BY <3>1, <3>4, <1>b DEF ClaimedRow, Row, Status, Time
    <3>. QED
      BY <2>2, <3>3, <3>5 DEF ClaimUnpublished
  <2>3. CASE RenewBeforeEmit(w)
    <3>1. CASE /\ rows' = [rows EXCEPT ![me.cur] = RenewedRow(@, me.at + Lease)]
               /\ workers' = [workers EXCEPT ![w] = [@ EXCEPT !.pc = "emit", !.at = 0]]
      <4>1. me.at + Lease \in Nat
        BY <2>a, OutboxAssumption
      <4>2. rows' \in [Msgs -> Row]
        BY <3>1, <4>1, <1>b DEF RenewedRow, Row, Time
      <4>3. [me EXCEPT !.pc = "emit", !.at = 0] \in Worker
        BY <1>a DEF Worker, Pc
      <4>4. workers' \in [Workers -> Worker]
        BY <3>1, <4>3
      <4>. QED
        BY <2>3, <4>2, <4>4 DEF RenewBeforeEmit
    <3>2. CASE rows' = rows /\ Proceed(w, me.token, me.batch)
      <4>1. workers' \in [Workers -> Worker]
        BY <3>2, <2>a, ProceedTyped
      <4>. QED
        BY <2>3, <3>2, <4>1 DEF RenewBeforeEmit
    <3>. QED
      BY <2>3, <3>1, <3>2 DEF RenewBeforeEmit
  <2>4. CASE HeartbeatRenews(w)
    <3>1. me.beat + Lease \in Nat
      BY <2>4, <2>a, OutboxAssumption DEF HeartbeatRenews, Time, NoTime
    <3>2. rows' \in [Msgs -> Row]
      BY <2>4, <3>1, <1>b DEF HeartbeatRenews, Renewed, RenewedRow, Row, Time
    <3>3. \A l \in BOOLEAN : [me EXCEPT !.beat = NoTime, !.lost = l] \in Worker
      BY <1>a DEF Worker, Time
    <3>4. workers' \in [Workers -> Worker]
      BY <2>4, <3>3 DEF HeartbeatRenews, CanRenew
    <3>. QED
      BY <2>4, <3>2, <3>4 DEF HeartbeatRenews
  <2>5. CASE MarkPublished(w)
    <3>1. \A m \in Msgs : PublishedRow(rows[m]) \in Row
      BY <1>b DEF PublishedRow, Row, Status, Time, NoTime
    <3>3. rows' \in [Msgs -> Row]
      BY <2>5, <3>1 DEF MarkPublished
    <3>2. workers' \in [Workers -> Worker] /\ faults' \in 0 .. MaxFaults
      BY <2>5, <2>a, ExecutedProceedTyped DEF MarkPublished
    <3>. QED
      BY <2>5, <3>2, <3>3 DEF MarkPublished
  <2>6. CASE MarkPublishFailed(w)
    <3>1. PICK d \in RetryDelay(w, rows[me.cur].retry) :
            rows' = [rows EXCEPT ![me.cur] =
                        IF CanComplete(@, me.token) THEN FailedRow(@, Clock(w) + d) ELSE @]
      BY <2>6 DEF MarkPublishFailed
    <3>2. Clock(w) + d \in Nat
      <4>1. RetryDelay(w, rows[me.cur].retry) \subseteq Nat
        BY RetryDelayTyped
      <4>. QED
        BY <4>1, <1>a
    <3>3. rows' \in [Msgs -> Row]
      <4>1. CASE me.cur \in Msgs
        <5>1. FailedRow(rows[me.cur], Clock(w) + d) \in Row
          BY <4>1, <3>2, <1>b, FailedRowTyped
        <5>. QED
          BY <3>1, <5>1
      <4>2. CASE me.cur \notin Msgs
        BY <3>1, <4>2
      <4>. QED
        BY <4>1, <4>2
    <3>4. workers' \in [Workers -> Worker] /\ faults' \in 0 .. MaxFaults
      BY <2>6, <2>a, ExecutedProceedTyped DEF MarkPublishFailed
    <3>. QED
      BY <2>6, <3>3, <3>4 DEF MarkPublishFailed
  <2>. QED
    BY <1>3, <2>1, <2>2, <2>3, <2>4, <2>5, <2>6 DEF StorageStep
<1>4. ASSUME NEW w \in Workers, BrokerStep(w) PROVE TypeOK'
  <2>1. CASE BrokerAccepts(w)
    BY <2>1, <1>a, CountTyped DEF BrokerAccepts, Worker
  <2>2. CASE EmitFulfilled(w)
    BY <2>2, <1>a DEF EmitFulfilled, Worker, Pc
  <2>3. CASE EmitRejected(w)
    <3>1. workers' \in [Workers -> Worker]
      BY <2>3, <1>a DEF EmitRejected, Worker, Pc
    <3>2. rejects' \in [Msgs -> 0 .. MaxSeen]
      BY <2>3, CountTyped DEF EmitRejected
    <3>. QED
      BY <2>3, <3>1, <3>2 DEF EmitRejected
  <2>. QED
    BY <1>4, <2>1, <2>2, <2>3 DEF BrokerStep
<1>5. ASSUME NEW w \in Workers, HeartbeatFires(w) PROVE TypeOK'
  BY <1>5, <1>a DEF HeartbeatFires, Worker, Time
<1>6. ASSUME NEW w \in Workers, SkipCompletion(w) PROVE TypeOK'
  <2>1. workers' \in [Workers -> Worker]
    <3>1. workers[w].token \in Tokens \cup {NoOwner} /\ workers[w].batch \in SUBSET Msgs
      BY <1>a DEF Worker
    <3>. QED
      BY <1>6, <3>1, ProceedTyped DEF SkipCompletion
  <2>. QED
    BY <1>6, <2>1 DEF SkipCompletion
<1>7. ASSUME NEW w \in Workers, RenewalFails(w) PROVE TypeOK'
  <2>0. workers[w].token \in Tokens \cup {NoOwner} /\ workers[w].batch \in SUBSET Msgs
    BY <1>a DEF Worker
  <2>1. workers' \in [Workers -> Worker]
    <3>1. CASE Proceed(w, workers[w].token, workers[w].batch)
      BY <2>0, <3>1, ProceedTyped
    <3>2. CASE workers' = [workers EXCEPT ![w] = [@ EXCEPT !.beat = NoTime, !.lost = TRUE]]
      <4>1. [workers[w] EXCEPT !.beat = NoTime, !.lost = TRUE] \in Worker
        BY <1>a DEF Worker, Time
      <4>. QED
        BY <3>2, <4>1
    <3>. QED
      BY <1>7, <3>1, <3>2 DEF RenewalFails
  <2>2. faults' \in 0 .. MaxFaults
    BY <1>7, OutboxAssumption DEF RenewalFails
  <2>3. rows' \in [Msgs -> Row]
    BY <1>7, FailedRenewalRows
  <2>. QED
    BY <1>7, <2>1, <2>2, <2>3 DEF RenewalFails
<1>8. ASSUME NEW w \in Workers, Crash(w) PROVE TypeOK'
  BY <1>8, FaultTyped DEF Crash
<1>9. CASE Tick
  BY <1>9, OutboxAssumption DEF Tick
<1>10. CASE UNCHANGED vars
  BY <1>10 DEF vars
<1>. QED
  BY <1>1, <1>2, <1>3, <1>4, <1>5, <1>6, <1>7, <1>8, <1>9, <1>10 DEF Next, RoundStep

\* Every reachable state of the outbox is well typed.
THEOREM TypeCorrect == Spec => []TypeOK
BY InitTyped, NextTyped, PTL DEF Spec

------------------------------------------------------------------------------
(* The inductive invariant                                                 *)

\* What the end of one event's handling leaves of the worker's state.
LEMMA ProceedEffect ==
    ASSUME TypeOK, NEW w \in Workers, NEW token \in Tokens \cup {NoOwner},
           NEW rest \in SUBSET Msgs, Proceed(w, token, rest)
    PROVE  /\ \A v \in Workers \ {w} : workers'[v] = workers[v]
           /\ workers'[w].token \in {token, NoOwner}
           /\ workers'[w].at <= Clock(w)
           /\ workers'[w].beat = NoTime
           /\ ~workers'[w].sent
           /\ \/ workers'[w].pc = "idle"
              \/ /\ workers'[w].pc = "renew"
                 /\ workers'[w].token = token
                 /\ workers'[w].cur \in rest
                 /\ workers'[w].batch \subseteq rest
<1>0. Clock(w) \in Nat
  BY ClockTyped DEF TypeOK
<1>1. CASE workers' = [workers EXCEPT ![w] = Idle]
  BY <1>0, <1>1 DEF TypeOK, Idle
<1>2. CASE \E m \in rest :
             workers' = [workers EXCEPT ![w] =
                [Idle EXCEPT !.pc = "renew", !.at = Clock(w), !.token = token,
                             !.batch = rest \ {m}, !.cur = m]]
  <2>. DEFINE Following(m) == [Idle EXCEPT !.pc = "renew", !.at = Clock(w), !.token = token,
                                       !.batch = rest \ {m}, !.cur = m]
  <2>1. PICK m \in rest : workers' = [workers EXCEPT ![w] = Following(m)]
    BY <1>2
  <2>2. /\ Following(m).token = token
        /\ Following(m).at = Clock(w)
        /\ Following(m).beat = NoTime
        /\ ~Following(m).sent
        /\ Following(m).pc = "renew"
        /\ Following(m).cur = m
        /\ Following(m).batch = rest \ {m}
    BY DEF Idle
  <2>. HIDE DEF Following
  <2>3. (\A v \in Workers \ {w} : workers'[v] = workers[v]) /\ workers'[w] = Following(m)
    BY <2>1 DEF TypeOK
  <2>. QED
    BY <1>0, <2>2, <2>3
<1>. QED
  BY <1>1, <1>2 DEF Proceed

\* A fault touches one worker only.
LEMMA FaultEffect ==
    ASSUME TypeOK, NEW w \in Workers, Fault(w)
    PROVE  /\ \A v \in Workers \ {w} : workers'[v] = workers[v]
           /\ workers'[w] = Idle
BY DEF TypeOK, Fault

\* A worker that has dropped its event satisfies its invariant.
LEMMA IdleInv ==
    ASSUME NEW w \in Workers, now' \in Nat, workers'[w] = Idle
    PROVE  WorkerInv(w)'
<1>1. Clock(w)' \in Nat
  BY OutboxAssumption DEF Clock
<1>2. workers'[w].pc = "idle" /\ workers'[w].at = 0 /\ workers'[w].beat = NoTime
  BY DEF Idle
<1>. QED
  BY <1>1, <1>2 DEF WorkerInv, HasEvent, NoTime

\* So does one that has just gone on to the next event of its batch.
LEMMA ProceedInv ==
    ASSUME TypeOK, now' = now, txn' = txn,
           NEW w \in Workers, NEW token \in Tokens, NEW rest \in SUBSET Msgs,
           \A m \in rest : txn[m] = "committed",
           Proceed(w, token, rest)
    PROVE  WorkerInv(w)'
<1>1. Clock(w)' = Clock(w) /\ Clock(w) \in Nat
  BY ClockTyped DEF Clock, TypeOK
<1>2. /\ workers'[w].at <= Clock(w)
      /\ workers'[w].beat = NoTime
      /\ ~workers'[w].sent
      /\ \/ workers'[w].pc = "idle"
         \/ /\ workers'[w].pc = "renew"
            /\ workers'[w].token = token
            /\ workers'[w].cur \in rest
            /\ workers'[w].batch \subseteq rest
  BY ProceedEffect
<1>. QED
  BY <1>1, <1>2 DEF WorkerInv, HasEvent, NoTime

\* A worker that does not move keeps its invariant as long as time and the
\* history only grow, commits stay, and its row, if it is still its own, has
\* not been counted against.
LEMMA BystanderInv ==
    ASSUME TypeOK, TypeOK', NEW v \in Workers, WorkerInv(v),
           workers'[v] = workers[v],
           now' >= now,
           \A m \in Msgs : txn[m] = "committed" => txn'[m] = "committed",
           \A m \in Msgs : copies'[m] >= copies[m],
           \A m \in Msgs :
               /\ workers[v].pc = "rejected"
               /\ workers[v].cur = m
               /\ workers[v].token \in Tokens
               /\ rows'[m].status = "processing"
               /\ rows'[m].owner = workers[v].token
               => /\ rows[m].status = "processing"
                  /\ rows[m].owner = workers[v].token
                  /\ rows'[m].retry = rows[m].retry
                  /\ rejects'[m] >= rejects[m]
    PROVE  WorkerInv(v)'
<1>. USE DEF TypeOK
<1>0. workers[v] \in Worker
  OBVIOUS
<1>1. Clock(v)' >= Clock(v) /\ Clock(v) \in Nat /\ Clock(v)' \in Nat
  BY OutboxAssumption DEF Clock
<1>2. workers[v].at \in Nat /\ workers[v].beat \in Int
  BY <1>0 DEF Worker, Time, NoTime
<1>3. workers'[v].at <= Clock(v)' /\ workers'[v].beat <= Clock(v)'
  BY <1>1, <1>2 DEF WorkerInv
<1>4. HasEvent(v)' <=> HasEvent(v)
  BY DEF HasEvent
<1>5. HasEvent(v)' =>
         /\ workers'[v].token \in Tokens
         /\ workers'[v].cur \in Msgs
         /\ \A m \in workers'[v].batch \cup {workers'[v].cur} : txn'[m] = "committed"
         /\ workers'[v].sent => copies'[workers'[v].cur] > 0
  <2>. SUFFICES ASSUME HasEvent(v)
                PROVE  /\ workers[v].token \in Tokens
                       /\ workers[v].cur \in Msgs
                       /\ \A m \in workers[v].batch \cup {workers[v].cur} : txn'[m] = "committed"
                       /\ workers[v].sent => copies'[workers[v].cur] > 0
    BY <1>4
  <2>1. workers[v].token \in Tokens /\ workers[v].cur \in Msgs
    BY DEF WorkerInv
  <2>2. workers[v].batch \in SUBSET Msgs
    BY <1>0 DEF Worker
  <2>3. \A m \in workers[v].batch \cup {workers[v].cur} : txn'[m] = "committed"
    BY <2>1, <2>2 DEF WorkerInv
  <2>4. copies[workers[v].cur] \in Nat /\ copies'[workers[v].cur] \in Nat
    BY <2>1
  <2>5. workers[v].sent => copies[workers[v].cur] > 0
    BY DEF WorkerInv
  <2>. QED
    BY <2>1, <2>3, <2>4, <2>5
<1>6. workers'[v].pc = "rejected" /\ StillOwns(v)' =>
         rows'[workers'[v].cur].retry < rejects'[workers'[v].cur]
  <2>. DEFINE m == workers[v].cur
  <2>. SUFFICES ASSUME workers[v].pc = "rejected",
                       rows'[m].status = "processing",
                       rows'[m].owner = workers[v].token
                PROVE  rows'[m].retry < rejects'[m]
    BY DEF StillOwns
  <2>1. m \in Msgs /\ workers[v].token \in Tokens
    BY DEF WorkerInv, HasEvent
  <2>2. /\ rows[m].status = "processing"
        /\ rows[m].owner = workers[v].token
        /\ rows'[m].retry = rows[m].retry
        /\ rejects'[m] >= rejects[m]
    BY <2>1
  <2>3. rows[m].retry < rejects[m]
    BY <2>2 DEF WorkerInv, StillOwns
  <2>4. rows[m].retry \in Nat /\ rejects[m] \in Nat /\ rejects'[m] \in Nat
    BY <2>1 DEF Row
  <2>. QED
    BY <2>2, <2>3, <2>4
<1>. QED
  BY <1>3, <1>4, <1>5, <1>6 DEF WorkerInv

\* The initial states satisfy IndInv.
LEMMA InitInd == Init => IndInv
<1>. SUFFICES ASSUME Init PROVE IndInv
  OBVIOUS
<1>1. TypeOK
  BY InitTyped
<1>2. \A m \in Msgs : RowInv(m)
  BY StorageAssumption DEF Init, RowInv, AbsentRow
<1>3. \A w \in Workers : WorkerInv(w)
  BY OutboxAssumption DEF Init, WorkerInv, HasEvent, Idle, Clock, NoTime
<1>4. TokensUnique
  BY DEF Init, TokensUnique, Idle
<1>. QED
  BY <1>1, <1>2, <1>3, <1>4 DEF IndInv

\* Steps in which tokens only disappear, or one fresh token appears.
LEMMA TokensStayUnique ==
    ASSUME TokensUnique, NEW w \in Workers,
           \A v \in Workers \ {w} : workers'[v] = workers[v],
           \/ workers'[w].token \in {workers[w].token, NoOwner}
           \/ \A v \in Workers : workers[v].token # workers'[w].token
    PROVE  TokensUnique'
BY DEF TokensUnique

\* Publishers, operators and time.
LEMMA EnvironmentInd ==
    ASSUME IndInv, TypeOK',
           Tick \/ \E m \in Msgs : PublisherStep(m) \/ Requeue(m)
    PROVE  IndInv'
<1>. USE DEF IndInv, TypeOK
<1>a. \A m \in Msgs : rows[m] \in Row /\ rejects[m] \in Nat
  OBVIOUS
<1>b. workers' = workers
  BY DEF Tick, PublisherStep, SaveInTransaction, Commit, Rollback, Requeue
<1>c. TokensUnique'
  BY <1>b DEF TokensUnique
<1>1. CASE Tick
  <2>1. \A m \in Msgs : RowInv(m)'
    BY <1>1 DEF Tick, RowInv
  <2>2. \A v \in Workers : WorkerInv(v)'
    BY <1>1, BystanderInv DEF Tick
  <2>. QED
    BY <1>c, <2>1, <2>2
<1>2. ASSUME NEW m \in Msgs, SaveInTransaction(m) \/ Rollback(m)
      PROVE  IndInv'
  <2>1. \A k \in Msgs : RowInv(k)'
    BY <1>2 DEF SaveInTransaction, Rollback, RowInv
  <2>2. \A v \in Workers : WorkerInv(v)'
    BY <1>2, BystanderInv DEF SaveInTransaction, Rollback
  <2>. QED
    BY <1>c, <2>1, <2>2
<1>3. ASSUME NEW m \in Msgs, Commit(m)
      PROVE  IndInv'
  <2>1. \A k \in Msgs : RowInv(k)'
    BY <1>3, <1>a, StorageAssumption DEF Commit, RowInv, PendingRow, AbsentRow
  <2>2. \A v \in Workers : WorkerInv(v)'
    BY <1>3, BystanderInv DEF Commit, PendingRow, AbsentRow
  <2>. QED
    BY <1>c, <2>1, <2>2
<1>4. ASSUME NEW m \in Msgs, Requeue(m)
      PROVE  IndInv'
  <2>0. PICK t \in now .. now + MaxSkew : rows' = [rows EXCEPT ![m] = RequeuedRow(@, t)]
    BY <1>4 DEF Requeue
  <2>1. /\ rows'[m].status = "failed" /\ rows'[m].retry = 0 /\ rows'[m].owner = NoOwner
        /\ rejects'[m] = 0
        /\ \A k \in Msgs \ {m} : rows'[k] = rows[k] /\ rejects'[k] = rejects[k]
        /\ txn' = txn /\ copies' = copies /\ now' = now
    <3>1. rows'[m] = RequeuedRow(rows[m], t) /\ rows[m] \in Row
      BY <2>0
    <3>2. rows'[m].status = "failed" /\ rows'[m].retry = 0 /\ rows'[m].owner = NoOwner
      BY <3>1 DEF RequeuedRow, Row
    <3>3. \A k \in Msgs \ {m} : rows'[k] = rows[k]
      BY <2>0
    <3>. QED
      BY <1>4, <3>2, <3>3 DEF Requeue
  <2>2. rows[m].status \in {"failed", "dead_letter"}
    BY <1>4 DEF Requeue, CanRequeue
  <2>3. RowInv(m)'
    BY <2>1, <2>2, StorageAssumption DEF RowInv
  <2>4. \A k \in Msgs \ {m} : RowInv(k)'
    BY <2>1 DEF RowInv
  <2>5. \A v \in Workers : WorkerInv(v)'
    <3>. TAKE v \in Workers
    <3>1. \A k \in Msgs : rejects[k] \in Nat /\ copies[k] \in Nat
      OBVIOUS
    <3>2. \A k \in Msgs :
              rows'[k].status = "processing" =>
                  rows'[k] = rows[k] /\ rejects'[k] = rejects[k]
      BY <2>1
    <3>. QED
      BY <1>b, <2>1, <3>1, <3>2, BystanderInv
  <2>. QED
    BY <1>c, <2>3, <2>4, <2>5
<1>. QED
  BY <1>1, <1>2, <1>3, <1>4 DEF PublisherStep

\* The broker and the heartbeat timer: only one worker and the history move.
LEMMA EmissionInd ==
    ASSUME IndInv, TypeOK', NEW w \in Workers,
           BeginRound(w) \/ BrokerStep(w) \/ HeartbeatFires(w)
    PROVE  IndInv'
<1>. USE DEF IndInv, TypeOK
<1>. DEFINE me == workers[w]
<1>a. me \in Worker /\ WorkerInv(w) /\ Clock(w) \in Nat /\ Clock(w) <= now + MaxSkew
  BY ClockTyped
<1>b. /\ \A v \in Workers \ {w} : workers'[v] = workers[v]
      /\ workers'[w].token = me.token
  <2>1. CASE BeginRound(w)
    BY <1>a, <2>1 DEF BeginRound, Worker
  <2>2. CASE BrokerAccepts(w)
    BY <1>a, <2>2 DEF BrokerAccepts, Worker
  <2>3. CASE EmitFulfilled(w)
    BY <1>a, <2>3 DEF EmitFulfilled, Worker
  <2>4. CASE EmitRejected(w)
    BY <1>a, <2>4 DEF EmitRejected, Worker
  <2>5. CASE HeartbeatFires(w)
    BY <1>a, <2>5 DEF HeartbeatFires, Worker
  <2>. QED
    BY <2>1, <2>2, <2>3, <2>4, <2>5 DEF BrokerStep
<1>h. rows' = rows /\ txn' = txn /\ now' = now
  BY DEF BeginRound, BrokerStep, BrokerAccepts, EmitFulfilled, EmitRejected, HeartbeatFires
<1>c. TokensUnique'
  BY <1>b, TokensStayUnique
<1>d. /\ \A m \in Msgs : copies[m] \in 0 .. MaxSeen /\ copies'[m] \in Nat
      /\ \A m \in Msgs : rejects[m] \in 0 .. MaxSeen /\ rejects'[m] \in Nat
      /\ \A m \in Msgs : rows[m].retry \in Nat
  <2>1. \A m \in Msgs : rows[m].retry \in Nat
    BY DEF Row
  <2>. QED
    BY <2>1
<1>e. /\ \A m \in Msgs : copies'[m] >= copies[m]
      /\ \A m \in Msgs : rejects'[m] >= rejects[m]
  <2>1. CASE copies' = copies /\ rejects' = rejects
    BY <1>d, <2>1
  <2>2. CASE BrokerAccepts(w)
    BY <1>d, <2>2, CountTyped DEF BrokerAccepts
  <2>3. CASE EmitRejected(w)
    BY <1>d, <2>3, CountTyped DEF EmitRejected
  <2>. QED
    BY <2>1, <2>2, <2>3 DEF BeginRound, BrokerStep, EmitFulfilled, HeartbeatFires
<1>f. \A v \in Workers \ {w} : WorkerInv(v)'
  <2>. TAKE v \in Workers \ {w}
  <2>1. workers'[v] = workers[v] /\ now' >= now
    BY <1>b, <1>h
  <2>. QED
    BY <1>d, <1>e, <1>h, <2>1, BystanderInv
<1>g. Clock(w)' = Clock(w)
  BY <1>h DEF Clock
<1>1. CASE BeginRound(w)
  <2>1. \A m \in Msgs : RowInv(m)'
    BY <1>1 DEF BeginRound, RowInv
  <2>2. workers'[w] = [me EXCEPT !.pc = "release", !.at = Clock(w)]
    BY <1>1 DEF BeginRound
  <2>3. /\ workers'[w].pc = "release"
        /\ workers'[w].at = Clock(w)
        /\ workers'[w].beat = me.beat
    BY <2>2, <1>a DEF Worker
  <2>4. me.beat = NoTime
    BY <1>1, <1>a DEF BeginRound, WorkerInv, HasEvent
  <2>5. WorkerInv(w)'
    BY <1>a, <1>g, <2>3, <2>4 DEF WorkerInv, HasEvent, NoTime
  <2>. QED
    BY <1>c, <1>f, <2>1, <2>5
<1>2. CASE BrokerAccepts(w)
  <2>1. me.cur \in Msgs /\ txn[me.cur] = "committed"
    BY <1>2, <1>a DEF BrokerAccepts, WorkerInv, HasEvent
  <2>2. \A m \in Msgs : RowInv(m)'
    BY <1>2, <1>d, <1>e, <2>1 DEF BrokerAccepts, RowInv
  <2>3. copies'[me.cur] > 0
    BY <1>2, <2>1, CountTyped, OutboxAssumption, StorageAssumption DEF BrokerAccepts
  <2>4. workers'[w] = [me EXCEPT !.sent = TRUE]
    BY <1>2 DEF BrokerAccepts
  <2>5. /\ workers'[w].pc = me.pc
        /\ workers'[w].cur = me.cur
        /\ workers'[w].token = me.token
        /\ workers'[w].batch = me.batch
        /\ workers'[w].at = me.at
        /\ workers'[w].beat = me.beat
    BY <2>4, <1>a DEF Worker
  <2>6. WorkerInv(w)'
    BY <1>2, <1>a, <1>h, <1>g, <2>3, <2>5 DEF BrokerAccepts, WorkerInv, HasEvent
  <2>. QED
    BY <1>c, <1>f, <2>2, <2>6
<1>3. CASE EmitFulfilled(w)
  <2>1. \A m \in Msgs : RowInv(m)'
    BY <1>3 DEF EmitFulfilled, RowInv
  <2>2. workers'[w] = [me EXCEPT !.pc = "fulfilled"]
    BY <1>3 DEF EmitFulfilled
  <2>3. /\ workers'[w].pc = "fulfilled"
        /\ workers'[w].cur = me.cur
        /\ workers'[w].token = me.token
        /\ workers'[w].batch = me.batch
        /\ workers'[w].at = me.at
        /\ workers'[w].beat = me.beat
        /\ workers'[w].sent = me.sent
    BY <2>2, <1>a DEF Worker
  <2>4. WorkerInv(w)'
    BY <1>3, <1>a, <1>h, <1>g, <2>3 DEF EmitFulfilled, WorkerInv, HasEvent
  <2>. QED
    BY <1>c, <1>f, <2>1, <2>4
<1>4. CASE EmitRejected(w)
  <2>1. me.cur \in Msgs
    BY <1>4, <1>a DEF EmitRejected, WorkerInv, HasEvent
  <2>2. \A m \in Msgs : RowInv(m)'
    BY <1>4, <1>d, <1>e DEF EmitRejected, RowInv
  <2>3. workers'[w] = [me EXCEPT !.pc = "rejected"]
    BY <1>4 DEF EmitRejected
  <2>4. /\ workers'[w].pc = "rejected"
        /\ workers'[w].cur = me.cur
        /\ workers'[w].token = me.token
        /\ workers'[w].batch = me.batch
        /\ workers'[w].at = me.at
        /\ workers'[w].beat = me.beat
        /\ workers'[w].sent = me.sent
    BY <2>3, <1>a DEF Worker
  <2>5. rows[me.cur].status = "processing" => rows[me.cur].retry < rejects'[me.cur]
    <3>. SUFFICES ASSUME rows[me.cur].status = "processing"
                  PROVE  rows[me.cur].retry < rejects'[me.cur]
      OBVIOUS
    <3>1. RowInv(me.cur) /\ rows[me.cur].retry \in Nat /\ rejects[me.cur] \in 0 .. MaxSeen
      BY <2>1, <1>d
    <3>2. rows[me.cur].retry < MaxRetries /\ rows[me.cur].retry <= rejects[me.cur]
      BY <3>1, StorageAssumption DEF RowInv
    <3>3. rejects'[me.cur] = Count(rejects[me.cur])
      BY <1>4, <2>1 DEF EmitRejected
    <3>. QED
      BY <3>1, <3>2, <3>3, OutboxAssumption, StorageAssumption DEF Count
  <2>6. WorkerInv(w)'
    BY <1>4, <1>a, <1>h, <1>g, <2>4, <2>5 DEF EmitRejected, WorkerInv, HasEvent, StillOwns
  <2>. QED
    BY <1>c, <1>f, <2>2, <2>6
<1>5. CASE HeartbeatFires(w)
  <2>1. \A m \in Msgs : RowInv(m)'
    BY <1>5 DEF HeartbeatFires, RowInv
  <2>2. workers'[w] = [me EXCEPT !.beat = Clock(w)]
    BY <1>5 DEF HeartbeatFires
  <2>3. /\ workers'[w].pc = "emit"
        /\ workers'[w].cur = me.cur
        /\ workers'[w].token = me.token
        /\ workers'[w].batch = me.batch
        /\ workers'[w].at = me.at
        /\ workers'[w].beat = Clock(w)
        /\ workers'[w].sent = me.sent
    BY <1>5, <2>2, <1>a DEF Worker, HeartbeatFires
  <2>4. WorkerInv(w)'
    BY <1>5, <1>a, <1>h, <1>g, <2>3 DEF HeartbeatFires, WorkerInv, HasEvent
  <2>. QED
    BY <1>c, <1>f, <2>1, <2>4
<1>. QED
  BY <1>1, <1>2, <1>3, <1>4, <1>5 DEF BrokerStep

------------------------------------------------------------------------------
(* What a storage call may do to a row                                     *)

\* Worker w, which owns the row, writes the outcome of a settled emit.
Completed(w, m) ==
    /\ Settled(w)
    /\ workers[w].cur = m
    /\ workers[w].token = rows[m].owner

\* Seen through status, owner and retry count, a storage call keeps a row,
\* releases it or claims it under a fresh token (once its lease is over), or
\* completes it for its owner, the caller w.
StorageMove(w, m) ==
    \/ /\ rows'[m].status = rows[m].status
       /\ rows'[m].owner = rows[m].owner
       /\ rows'[m].retry = rows[m].retry
    \/ /\ rows[m].status = "processing" /\ rows[m].until <= now + MaxSkew
       /\ rows'[m].status = "failed"
       /\ rows'[m].owner = NoOwner
       /\ rows'[m].retry = rows[m].retry
    \/ /\ \/ rows[m].status \in {"pending", "failed"}
          \/ rows[m].status = "processing" /\ rows[m].until <= now + MaxSkew
       /\ rows'[m].status = "processing"
       /\ \A v \in Workers : workers[v].token # rows'[m].owner
       /\ rows'[m].retry = rows[m].retry
    \/ /\ rows[m].status = "processing" /\ Completed(w, m)
       /\ copies[m] > 0
       /\ rows'[m].status = "published"
       /\ rows'[m].owner = NoOwner
       /\ rows'[m].retry = rows[m].retry
    \/ /\ rows[m].status = "processing" /\ Completed(w, m)
       /\ rows[m].retry < rejects[m]
       /\ rows'[m].retry = rows[m].retry + 1
       /\ rows'[m].status =
              IF rows[m].retry + 1 >= MaxRetries THEN "dead_letter" ELSE "failed"
       /\ rows'[m].owner = NoOwner

\* An owner that passes applyOwnershipWhere with a token holds the row.
LEMMA OwnsByToken ==
    ASSUME NEW row, NEW token \in Tokens, CanComplete(row, token)
    PROVE  row.status = "processing" /\ row.owner = token
BY StorageAssumption DEF CanComplete, Owns

\* Every storage call moves every row in one of those five ways.
LEMMA StorageEffect ==
    ASSUME IndInv, NEW w \in Workers, StorageStep(w), NEW m \in Msgs
    PROVE  StorageMove(w, m)
<1>. USE DEF IndInv, TypeOK
<1>. DEFINE me == workers[w]
<1>a. /\ me \in Worker /\ WorkerInv(w) /\ rows[m] \in Row
      /\ now \in Nat /\ Clock(w) \in Nat /\ Clock(w) <= now + MaxSkew
  BY ClockTyped
<1>b. me.at \in Nat /\ me.at <= now + MaxSkew
  BY <1>a, OutboxAssumption DEF Worker, WorkerInv
<1>c. HasEvent(w) => me.token \in Tokens /\ me.cur \in Msgs
  BY <1>a DEF WorkerInv
<1>k. ASSUME rows'[m] = rows[m] PROVE StorageMove(w, m)
  BY <1>k DEF StorageMove
<1>e. ASSUME Expired(rows[m], me.at)
      PROVE  rows[m].status = "processing" /\ rows[m].until <= now + MaxSkew
  BY <1>a, <1>b, <1>e, OutboxAssumption DEF Expired, Row, Time, NoTime
<1>1. CASE ReleaseExpiredClaims(w)
  <2>1. rows'[m] = ReleasedRow(rows[m], me.at)
    BY <1>1 DEF ReleaseExpiredClaims
  <2>2. CASE Expired(rows[m], me.at)
    <3>1. /\ rows'[m].status = "failed"
          /\ rows'[m].owner = NoOwner
          /\ rows'[m].retry = rows[m].retry
      BY <1>a, <2>1, <2>2 DEF ReleasedRow, Row
    <3>. QED
      BY <1>e, <2>2, <3>1 DEF StorageMove
  <2>3. CASE ~Expired(rows[m], me.at)
    BY <1>k, <2>1, <2>3 DEF ReleasedRow
  <2>. QED
    BY <2>2, <2>3
<1>2. CASE ClaimUnpublished(w)
  <2>. DEFINE due == { k \in Msgs : Claimable(rows[k], me.at) }
              won == Oldest(due, BatchSize)
  <2>1. PICK t \in Tokens :
          /\ Fresh(t)
          /\ rows' = [k \in Msgs |->
                IF k \in won THEN ClaimedRow(rows[k], t, me.at + Lease) ELSE rows[k]]
    BY <1>2 DEF ClaimUnpublished
  <2>2. CASE m \in won
    <3>1. Claimable(rows[m], me.at)
      BY <2>2 DEF Oldest
    <3>2. /\ rows'[m].status = "processing"
          /\ rows'[m].owner = t
          /\ rows'[m].retry = rows[m].retry
      BY <1>a, <2>1, <2>2 DEF ClaimedRow, Row
    <3>3. \/ rows[m].status \in {"pending", "failed"}
          \/ rows[m].status = "processing" /\ rows[m].until <= now + MaxSkew
      BY <3>1, <1>e DEF Claimable
    <3>. QED
      BY <2>1, <3>2, <3>3 DEF StorageMove, Fresh
  <2>3. CASE m \notin won
    BY <1>k, <2>1, <2>3
  <2>. QED
    BY <2>2, <2>3
<1>3. CASE RenewBeforeEmit(w)
  <2>1. CASE rows' = [rows EXCEPT ![me.cur] = RenewedRow(@, me.at + Lease)]
    <3>1. CASE me.cur = m
      BY <1>a, <2>1, <3>1 DEF RenewedRow, Row, StorageMove
    <3>2. CASE me.cur # m
      BY <1>k, <2>1, <3>2
    <3>. QED
      BY <3>1, <3>2
  <2>. QED
    BY <1>3, <1>k, <2>1 DEF RenewBeforeEmit
<1>4. CASE HeartbeatRenews(w)
  <2>1. \/ rows' = [rows EXCEPT ![me.cur] = RenewedRow(@, me.beat + Lease)]
        \/ rows' = [rows EXCEPT ![me.cur] = @]
    BY <1>4 DEF HeartbeatRenews, Renewed
  <2>2. CASE me.cur = m /\ rows' = [rows EXCEPT ![me.cur] = RenewedRow(@, me.beat + Lease)]
    BY <1>a, <2>2 DEF RenewedRow, Row, StorageMove
  <2>3. CASE me.cur # m \/ rows' = [rows EXCEPT ![me.cur] = @]
    BY <1>k, <2>1, <2>3
  <2>. QED
    BY <2>1, <2>2, <2>3
<1>5. CASE MarkPublished(w)
  <2>1. rows' = [rows EXCEPT ![me.cur] = IF CanComplete(@, me.token) THEN PublishedRow(@) ELSE @]
    BY <1>5 DEF MarkPublished
  <2>2. CASE me.cur = m /\ CanComplete(rows[m], me.token)
    <3>1. rows[m].status = "processing" /\ rows[m].owner = me.token
      BY <1>5, <1>c, <2>2, OwnsByToken DEF MarkPublished, HasEvent
    <3>2. Completed(w, m)
      BY <1>5, <2>2, <3>1 DEF Completed, Settled, MarkPublished
    <3>3. copies[m] > 0
      BY <1>5, <1>a, <2>2 DEF MarkPublished, WorkerInv, HasEvent
    <3>4. rows'[m] = PublishedRow(rows[m])
      BY <2>1, <2>2
    <3>5. /\ rows'[m].status = "published"
          /\ rows'[m].owner = NoOwner
          /\ rows'[m].retry = rows[m].retry
      BY <1>a, <3>4 DEF PublishedRow, Row
    <3>. QED
      BY <3>1, <3>2, <3>3, <3>5 DEF StorageMove
  <2>3. CASE ~(me.cur = m /\ CanComplete(rows[m], me.token))
    BY <1>k, <2>1, <2>3
  <2>. QED
    BY <2>2, <2>3
<1>6. CASE MarkPublishFailed(w)
  <2>1. PICK due : rows' = [rows EXCEPT ![me.cur] =
                               IF CanComplete(@, me.token) THEN FailedRow(@, due) ELSE @]
    BY <1>6 DEF MarkPublishFailed
  <2>2. CASE me.cur = m /\ CanComplete(rows[m], me.token)
    <3>1. rows[m].status = "processing" /\ rows[m].owner = me.token
      BY <1>6, <1>c, <2>2, OwnsByToken DEF MarkPublishFailed, HasEvent
    <3>2. Completed(w, m)
      BY <1>6, <2>2, <3>1 DEF Completed, Settled, MarkPublishFailed
    <3>3. rows[m].retry < rejects[m]
      BY <1>6, <1>a, <2>2, <3>1 DEF MarkPublishFailed, WorkerInv, StillOwns
    <3>4. rows'[m] = FailedRow(rows[m], due)
      BY <2>1, <2>2
    <3>5. /\ rows'[m].retry = rows[m].retry + 1
          /\ rows'[m].status =
                 IF rows[m].retry + 1 >= MaxRetries THEN "dead_letter" ELSE "failed"
          /\ rows'[m].owner = NoOwner
      BY <1>a, <3>4 DEF FailedRow, Row
    <3>. QED
      BY <3>1, <3>2, <3>3, <3>5 DEF StorageMove
  <2>3. CASE ~(me.cur = m /\ CanComplete(rows[m], me.token))
    BY <1>k, <2>1, <2>3
  <2>. QED
    BY <2>2, <2>3
<1>. QED
  BY <1>1, <1>2, <1>3, <1>4, <1>5, <1>6 DEF StorageStep

------------------------------------------------------------------------------
(* Storage calls and failures preserve the invariant                       *)

\* The row's part of the invariant survives any storage move.
LEMMA MoveInd ==
    ASSUME IndInv, TypeOK', NEW w \in Workers, NEW m \in Msgs, StorageMove(w, m),
           UNCHANGED <<txn, now, copies, rejects>>
    PROVE  RowInv(m)'
<1>1. RowInv(m) /\ rows[m].retry \in Nat /\ rows'[m].retry \in Nat /\ rejects[m] \in Nat
  BY DEF IndInv, TypeOK, Row
<1>. QED
  BY <1>1, StorageAssumption DEF RowInv, StorageMove

\* A storage step tells its worker one of four things: to wait for the claim,
\* to emit, that a heartbeat is over, or to go on with a batch it has claimed;
\* or the worker is gone.
LEMMA StorageReply ==
    ASSUME NEW w \in Workers, StorageStep(w)
    PROVE  \/ Fault(w)
           \/ /\ workers[w].pc = "release"
              /\ workers' = [workers EXCEPT ![w].pc = "claim"]
           \/ /\ workers[w].pc = "renew"
              /\ workers' = [workers EXCEPT ![w] = [@ EXCEPT !.pc = "emit", !.at = 0]]
           \/ /\ workers[w].beat # NoTime
              /\ \E l \in BOOLEAN :
                    workers' = [workers EXCEPT ![w] = [@ EXCEPT !.beat = NoTime, !.lost = l]]
           \/ /\ HasEvent(w)
              /\ Proceed(w, workers[w].token, workers[w].batch)
           \/ \E t \in Tokens, rest \in SUBSET Msgs :
                 /\ Fresh(t)
                 /\ \A m \in rest : rows[m].status # "absent"
                 /\ Proceed(w, t, rest)
<1>1. CASE ReleaseExpiredClaims(w)
  BY <1>1 DEF ReleaseExpiredClaims, Executed
<1>2. CASE ClaimUnpublished(w)
  <2>. DEFINE won == Oldest({ m \in Msgs : Claimable(rows[m], workers[w].at) }, BatchSize)
  <2>1. won \in SUBSET Msgs /\ \A m \in won : rows[m].status # "absent"
    BY DEF Oldest, Claimable, Expired
  <2>. HIDE DEF won
  <2>2. \E t \in Tokens : Fresh(t) /\ Executed(w, Proceed(w, t, won))
    BY <1>2 DEF ClaimUnpublished, won
  <2>. QED
    BY <2>1, <2>2 DEF Executed
<1>3. CASE RenewBeforeEmit(w)
  BY <1>3 DEF RenewBeforeEmit, HasEvent
<1>4. CASE HeartbeatRenews(w)
  BY <1>4 DEF HeartbeatRenews, CanRenew
<1>5. CASE MarkPublished(w)
  BY <1>5 DEF MarkPublished, Executed, HasEvent
<1>6. CASE MarkPublishFailed(w)
  <2>1. Executed(w, Proceed(w, workers[w].token, workers[w].batch)) /\ HasEvent(w)
    BY <1>6 DEF MarkPublishFailed, HasEvent
  <2>. QED
    BY <2>1 DEF Executed
<1>. QED
  BY <1>1, <1>2, <1>3, <1>4, <1>5, <1>6 DEF StorageStep

\* A worker's clock is past any null time.
LEMMA ClockInd ==
    ASSUME IndInv, NEW w \in Workers
    PROVE  Clock(w) \in Nat /\ NoTime <= Clock(w)
<1>1. now \in Nat
  BY DEF IndInv, TypeOK
<1>2. Clock(w) \in Nat
  BY <1>1, ClockTyped
<1>. QED
  BY <1>2 DEF NoTime

\* A worker whose renewal has been answered, either way, or that has been told
\* to wait for the claim or to emit, keeps its invariant.
LEMMA AnsweredInv ==
    ASSUME IndInv, NEW w \in Workers, UNCHANGED <<txn, now, copies, rejects>>,
           \/ /\ workers[w].pc = "release"
              /\ workers' = [workers EXCEPT ![w].pc = "claim"]
           \/ /\ workers[w].pc = "renew"
              /\ workers' = [workers EXCEPT ![w] = [@ EXCEPT !.pc = "emit", !.at = 0]]
           \/ /\ \E l \in BOOLEAN :
                    workers' = [workers EXCEPT ![w] = [@ EXCEPT !.beat = NoTime, !.lost = l]]
              /\ rows' = rows \/ StorageMove(w, workers[w].cur)
    PROVE  /\ \A v \in Workers \ {w} : workers'[v] = workers[v]
           /\ workers'[w].token = workers[w].token
           /\ WorkerInv(w)'
<1>. DEFINE me == workers[w]
<1>a. /\ workers \in [Workers -> Worker] /\ me \in Worker /\ WorkerInv(w)
      /\ Clock(w) \in Nat /\ Clock(w)' = Clock(w)
  <2>1. workers \in [Workers -> Worker] /\ me \in Worker /\ WorkerInv(w)
    BY DEF IndInv, TypeOK
  <2>2. Clock(w) \in Nat
    BY ClockInd
  <2>3. Clock(w)' = Clock(w)
    BY DEF Clock
  <2>. QED
    BY <2>1, <2>2, <2>3
<1>1. CASE /\ me.pc = "release"
           /\ workers' = [workers EXCEPT ![w].pc = "claim"]
  <2>1. /\ \A v \in Workers \ {w} : workers'[v] = workers[v]
        /\ workers'[w] = [me EXCEPT !.pc = "claim"]
    BY <1>a, <1>1
  <2>2. /\ workers'[w].pc = "claim"
        /\ workers'[w].at = me.at
        /\ workers'[w].token = me.token
        /\ workers'[w].beat = me.beat
    BY <1>a, <2>1 DEF Worker
  <2>3. WorkerInv(w)'
    BY <1>a, <1>1, <2>2 DEF WorkerInv, HasEvent
  <2>. QED
    BY <2>1, <2>2, <2>3
<1>2. CASE /\ me.pc = "renew"
           /\ workers' = [workers EXCEPT ![w] = [@ EXCEPT !.pc = "emit", !.at = 0]]
  <2>1. /\ \A v \in Workers \ {w} : workers'[v] = workers[v]
        /\ workers'[w] = [me EXCEPT !.pc = "emit", !.at = 0]
    BY <1>a, <1>2
  <2>2. /\ workers'[w].pc = "emit"
        /\ workers'[w].at = 0
        /\ workers'[w].token = me.token
        /\ workers'[w].beat = me.beat
        /\ workers'[w].cur = me.cur
        /\ workers'[w].batch = me.batch
        /\ workers'[w].sent = me.sent
    BY <1>a, <2>1 DEF Worker
  <2>3. WorkerInv(w)'
    BY <1>a, <1>2, <2>2 DEF WorkerInv, HasEvent
  <2>. QED
    BY <2>1, <2>2, <2>3
<1>3. ASSUME NEW l \in BOOLEAN,
             workers' = [workers EXCEPT ![w] = [@ EXCEPT !.beat = NoTime, !.lost = l]],
             rows' = rows \/ StorageMove(w, me.cur)
      PROVE  /\ \A v \in Workers \ {w} : workers'[v] = workers[v]
             /\ workers'[w].token = me.token
             /\ WorkerInv(w)'
  <2>1. /\ \A v \in Workers \ {w} : workers'[v] = workers[v]
        /\ workers'[w] = [me EXCEPT !.beat = NoTime, !.lost = l]
    BY <1>a, <1>3
  <2>2. /\ workers'[w].pc = me.pc
        /\ workers'[w].at = me.at
        /\ workers'[w].token = me.token
        /\ workers'[w].beat = NoTime
        /\ workers'[w].cur = me.cur
        /\ workers'[w].batch = me.batch
        /\ workers'[w].sent = me.sent
    BY <1>a, <2>1 DEF Worker
  <2>3. ASSUME rows'[me.cur].status = "processing", rows'[me.cur].owner = me.token
        PROVE  StillOwns(w) /\ rows'[me.cur].retry = rows[me.cur].retry
    BY <1>3, <2>3 DEF StillOwns, StorageMove
  <2>4. WorkerInv(w)'
    <3>1. HasEvent(w)' <=> HasEvent(w)
      BY <2>2 DEF HasEvent
    <3>2. workers'[w].at <= Clock(w)' /\ workers'[w].beat <= Clock(w)'
      <4>1. me.at <= Clock(w)
        BY <1>a DEF WorkerInv
      <4>2. NoTime <= Clock(w)
        BY ClockInd
      <4>. QED
        BY <1>a, <2>2, <4>1, <4>2
    <3>3. me.pc = "rejected" /\ StillOwns(w)' =>
             rows'[me.cur].retry < rejects'[me.cur]
      BY <1>a, <2>2, <2>3 DEF StillOwns, WorkerInv
    <3>. QED
      BY <1>a, <2>2, <3>1, <3>2, <3>3 DEF WorkerInv
  <2>. QED
    BY <2>1, <2>2, <2>4
<1>. QED
  BY <1>1, <1>2, <1>3

\* A worker that gives up its event, or goes on with its batch, touches nobody
\* else and keeps tokens unique.
LEMMA HandedOnInv ==
    ASSUME IndInv, NEW w \in Workers, now' = now, txn' = txn,
           \/ Fault(w)
           \/ /\ HasEvent(w)
              /\ Proceed(w, workers[w].token, workers[w].batch)
           \/ \E t \in Tokens, rest \in SUBSET Msgs :
                 /\ Fresh(t)
                 /\ \A m \in rest : rows[m].status # "absent"
                 /\ Proceed(w, t, rest)
    PROVE  /\ \A v \in Workers \ {w} : workers'[v] = workers[v]
           /\ WorkerInv(w)'
           /\ TokensUnique'
<1>a. TypeOK /\ TokensUnique /\ WorkerInv(w) /\ now \in Nat /\ workers[w] \in Worker
  BY DEF IndInv, TypeOK
<1>1. CASE Fault(w)
  <2>1. (\A v \in Workers \ {w} : workers'[v] = workers[v]) /\ workers'[w] = Idle
    BY <1>a, <1>1, FaultEffect
  <2>2. workers'[w].token = NoOwner
    BY <2>1 DEF Idle
  <2>3. TokensUnique'
    BY <1>a, <2>1, <2>2, TokensStayUnique
  <2>4. WorkerInv(w)'
    BY <1>a, <2>1, IdleInv
  <2>. QED
    BY <2>1, <2>3, <2>4
<1>2. CASE HasEvent(w) /\ Proceed(w, workers[w].token, workers[w].batch)
  <2>1. /\ workers[w].token \in Tokens
        /\ workers[w].batch \in SUBSET Msgs
        /\ \A m \in workers[w].batch : txn[m] = "committed"
    BY <1>a, <1>2 DEF WorkerInv, Worker
  <2>2. /\ \A v \in Workers \ {w} : workers'[v] = workers[v]
        /\ workers'[w].token \in {workers[w].token, NoOwner}
    BY <1>a, <1>2, <2>1, ProceedEffect
  <2>3. TokensUnique'
    BY <1>a, <2>2, TokensStayUnique
  <2>4. WorkerInv(w)'
    BY <1>a, <1>2, <2>1, ProceedInv
  <2>. QED
    BY <2>2, <2>3, <2>4
<1>3. ASSUME NEW t \in Tokens, NEW rest \in SUBSET Msgs, Fresh(t),
             \A m \in rest : rows[m].status # "absent",
             Proceed(w, t, rest)
      PROVE  /\ \A v \in Workers \ {w} : workers'[v] = workers[v]
             /\ WorkerInv(w)'
             /\ TokensUnique'
  <2>1. \A m \in rest : txn[m] = "committed"
    BY <1>3 DEF IndInv, RowInv
  <2>2. /\ \A v \in Workers \ {w} : workers'[v] = workers[v]
        /\ workers'[w].token \in {t, NoOwner}
    BY <1>a, <1>3, ProceedEffect
  <2>3. TokensUnique'
    <3>1. CASE workers'[w].token = NoOwner
      BY <1>a, <2>2, <3>1, TokensStayUnique
    <3>2. CASE workers'[w].token = t
      <4>1. \A v \in Workers : workers[v].token # t
        BY <1>3 DEF Fresh
      <4>. QED
        BY <1>a, <2>2, <3>2, <4>1, TokensStayUnique
    <3>. QED
      BY <2>2, <3>1, <3>2
  <2>4. WorkerInv(w)'
    BY <1>a, <1>3, <2>1, ProceedInv
  <2>. QED
    BY <2>2, <2>3, <2>4
<1>. QED
  BY <1>1, <1>2, <1>3

\* Workers that do not move during a storage call of w keep their invariant:
\* a row that still carries their token has not been touched.
LEMMA OthersInv ==
    ASSUME IndInv, TypeOK', NEW w \in Workers,
           \A m \in Msgs : StorageMove(w, m),
           UNCHANGED <<txn, now, copies, rejects>>,
           NEW v \in Workers \ {w}, workers'[v] = workers[v]
    PROVE  WorkerInv(v)'
<1>1. /\ TypeOK /\ WorkerInv(v) /\ v \in Workers
      /\ \A m \in Msgs : copies[m] \in Nat /\ rejects[m] \in Nat
      /\ now \in Nat
  BY DEF IndInv, TypeOK
<1>2. ASSUME NEW m \in Msgs,
             workers[v].token \in Tokens,
             rows'[m].status = "processing",
             rows'[m].owner = workers[v].token
      PROVE  /\ rows[m].status = "processing"
             /\ rows[m].owner = workers[v].token
             /\ rows'[m].retry = rows[m].retry
  BY <1>1, <1>2 DEF StorageMove
<1>3. \A m \in Msgs : copies'[m] >= copies[m] /\ rejects'[m] >= rejects[m]
  BY <1>1
<1>4. now' >= now
  BY <1>1
<1>. QED
  BY <1>1, <1>2, <1>3, <1>4, BystanderInv

\* A statement of a worker keeps IndInv.
LEMMA StorageInd ==
    ASSUME IndInv, TypeOK', NEW w \in Workers, StorageStep(w)
    PROVE  IndInv'
<1>1. UNCHANGED <<txn, now, copies, rejects>>
  BY DEF StorageStep, ReleaseExpiredClaims, ClaimUnpublished, RenewBeforeEmit,
         HeartbeatRenews, MarkPublished, MarkPublishFailed
<1>2. \A m \in Msgs : StorageMove(w, m)
  BY StorageEffect
<1>3. \A m \in Msgs : RowInv(m)'
  BY <1>1, <1>2, MoveInd
<1>4. /\ \A v \in Workers \ {w} : workers'[v] = workers[v]
      /\ WorkerInv(w)'
      /\ TokensUnique'
  <2>1. CASE \/ Fault(w)
             \/ /\ HasEvent(w)
                /\ Proceed(w, workers[w].token, workers[w].batch)
             \/ \E t \in Tokens, rest \in SUBSET Msgs :
                   /\ Fresh(t)
                   /\ \A m \in rest : rows[m].status # "absent"
                   /\ Proceed(w, t, rest)
    BY <1>1, <2>1, HandedOnInv
  <2>2. CASE \/ /\ workers[w].pc = "release"
                /\ workers' = [workers EXCEPT ![w].pc = "claim"]
             \/ /\ workers[w].pc = "renew"
                /\ workers' = [workers EXCEPT ![w] = [@ EXCEPT !.pc = "emit", !.at = 0]]
             \/ /\ workers[w].beat # NoTime
                /\ \E l \in BOOLEAN :
                      workers' = [workers EXCEPT ![w] = [@ EXCEPT !.beat = NoTime, !.lost = l]]
    <3>1. workers[w].beat # NoTime => StorageMove(w, workers[w].cur)
      BY <1>2 DEF IndInv, WorkerInv
    <3>2. /\ \A v \in Workers \ {w} : workers'[v] = workers[v]
          /\ workers'[w].token = workers[w].token
          /\ WorkerInv(w)'
      BY <1>1, <2>2, <3>1, AnsweredInv
    <3>. QED
      BY <3>2, TokensStayUnique DEF IndInv
  <2>. QED
    BY <2>1, <2>2, StorageReply
<1>5. \A v \in Workers : WorkerInv(v)'
  BY <1>1, <1>2, <1>4, OthersInv
<1>. QED
  BY <1>3, <1>4, <1>5 DEF IndInv

\* Steps of a worker that change no row's owner: a lost claim, a failed
\* renewal, a crash.
LEMMA GivenUpInd ==
    ASSUME IndInv, TypeOK', NEW w \in Workers,
           SkipCompletion(w) \/ RenewalFails(w) \/ Crash(w)
    PROVE  IndInv'
<1>1. UNCHANGED <<txn, now, copies, rejects>>
  BY DEF SkipCompletion, RenewalFails, Crash
<1>2. \A m \in Msgs : StorageMove(w, m)
  <2>1. CASE RenewalFails(w)
    BY <2>1, FailedRenewalRows DEF StorageMove, IndInv
  <2>2. CASE SkipCompletion(w) \/ Crash(w)
    BY <2>2 DEF SkipCompletion, Crash, StorageMove
  <2>. QED
    BY <2>1, <2>2
<1>3. \A m \in Msgs : RowInv(m)'
  BY <1>1, <1>2, MoveInd
<1>4. \/ Fault(w)
      \/ HasEvent(w) /\ Proceed(w, workers[w].token, workers[w].batch)
      \/ /\ workers[w].beat # NoTime
         /\ workers' = [workers EXCEPT ![w] = [@ EXCEPT !.beat = NoTime, !.lost = TRUE]]
  <2>1. CASE SkipCompletion(w)
    BY <2>1 DEF SkipCompletion, HasEvent, Settled
  <2>2. CASE RenewalFails(w)
    BY <2>2, Zenon DEF RenewalFails, HasEvent
  <2>3. CASE Crash(w)
    BY <2>3, Zenon DEF Crash
  <2>. QED
    BY <2>1, <2>2, <2>3
<1>5. /\ \A v \in Workers \ {w} : workers'[v] = workers[v]
      /\ WorkerInv(w)'
      /\ TokensUnique'
  <2>1. CASE Fault(w) \/ (HasEvent(w) /\ Proceed(w, workers[w].token, workers[w].batch))
    BY <1>1, <2>1, HandedOnInv
  <2>2. CASE /\ workers[w].beat # NoTime
             /\ workers' = [workers EXCEPT ![w] = [@ EXCEPT !.beat = NoTime, !.lost = TRUE]]
    <3>0. StorageMove(w, workers[w].cur)
      BY <1>2, <2>2 DEF IndInv, WorkerInv
    <3>1. /\ \A v \in Workers \ {w} : workers'[v] = workers[v]
          /\ workers'[w].token = workers[w].token
          /\ WorkerInv(w)'
      BY <1>1, <2>2, <3>0, AnsweredInv
    <3>. QED
      BY <3>1, TokensStayUnique DEF IndInv
  <2>. QED
    BY <1>4, <2>1, <2>2
<1>6. \A v \in Workers : WorkerInv(v)'
  BY <1>1, <1>2, <1>5, OthersInv
<1>. QED
  BY <1>3, <1>5, <1>6 DEF IndInv

\* Every step keeps IndInv.
LEMMA NextInd == IndInv /\ [Next]_vars => IndInv'
<1>. SUFFICES ASSUME IndInv, [Next]_vars PROVE IndInv'
  OBVIOUS
<1>1. TypeOK'
  BY NextTyped DEF IndInv
<1>2. CASE Tick \/ \E m \in Msgs : PublisherStep(m) \/ Requeue(m)
  BY <1>1, <1>2, EnvironmentInd
<1>3. ASSUME NEW w \in Workers, BeginRound(w) \/ BrokerStep(w) \/ HeartbeatFires(w)
      PROVE  IndInv'
  BY <1>1, <1>3, EmissionInd
<1>4. ASSUME NEW w \in Workers, StorageStep(w)
      PROVE  IndInv'
  BY <1>1, <1>4, StorageInd
<1>5. ASSUME NEW w \in Workers, SkipCompletion(w) \/ RenewalFails(w) \/ Crash(w)
      PROVE  IndInv'
  BY <1>1, <1>5, GivenUpInd
<1>6. CASE UNCHANGED vars
  BY <1>1, <1>6 DEF vars, IndInv, RowInv, WorkerInv, TokensUnique, HasEvent, StillOwns, Clock
<1>. QED
  BY <1>2, <1>3, <1>4, <1>5, <1>6 DEF Next, RoundStep

\* The invariant that carries the safety of the claim protocol.
THEOREM InvariantHolds == Spec => []IndInv
BY InitInd, NextInd, PTL DEF Spec

------------------------------------------------------------------------------
(* Safety                                                                  *)

\* No message is marked published without the broker's acceptance, whatever
\* claims expire, workers crash or replies are lost.
THEOREM NothingIsLost == Spec => []PublishedWasAccepted
<1>1. IndInv => PublishedWasAccepted
  BY DEF IndInv, RowInv, PublishedWasAccepted
<1>. QED
  BY <1>1, InvariantHolds, PTL

\* The broker sees no message of an uncommitted or rolled-back transaction.
THEOREM NothingIsInvented == Spec => []AcceptedWasCommitted
<1>1. IndInv => AcceptedWasCommitted
  BY DEF IndInv, RowInv, AcceptedWasCommitted
<1>. QED
  BY <1>1, InvariantHolds, PTL

\* A dead letter has been rejected by the broker MaxRetries times since it was
\* published or requeued.
THEOREM RetryBudgetKept == Spec => []DeadLetterEarned
<1>1. ASSUME IndInv PROVE DeadLetterEarned
  <2>1. \A m \in Msgs : rows[m].retry \in Nat /\ rejects[m] \in Nat
    BY <1>1 DEF IndInv, TypeOK, Row
  <2>. QED
    BY <1>1, <2>1, StorageAssumption DEF IndInv, RowInv, DeadLetterEarned
<1>. QED
  BY <1>1, InvariantHolds, PTL

\* Steps that are not storage calls change a row only by committing it or by
\* requeuing it from a terminal state.
LEMMA OtherSteps ==
    ASSUME IndInv, [Next]_vars, NEW m \in Msgs
    PROVE  \/ (\E w \in Workers : StorageMove(w, m)) /\ UNCHANGED copies
           \/ UNCHANGED rows
           \/ /\ rows[m].status = "absent"
              /\ rows'[m] = PendingRow
              /\ UNCHANGED copies
           \/ /\ rows[m].status \in {"failed", "dead_letter"}
              /\ rows'[m].status = "failed"
              /\ UNCHANGED copies
           \/ rows'[m] = rows[m] /\ UNCHANGED copies
<1>. USE DEF IndInv, TypeOK
<1>1. ASSUME NEW w \in Workers, StorageStep(w)
      PROVE  StorageMove(w, m) /\ UNCHANGED copies
  <2>1. StorageMove(w, m)
    BY <1>1, StorageEffect
  <2>. QED
    BY <1>1, <2>1 DEF StorageStep, ReleaseExpiredClaims, ClaimUnpublished, RenewBeforeEmit,
                      HeartbeatRenews, MarkPublished, MarkPublishFailed
<1>2. ASSUME NEW k \in Msgs, Commit(k)
      PROVE  \/ rows[m].status = "absent" /\ rows'[m] = PendingRow /\ UNCHANGED copies
             \/ rows'[m] = rows[m] /\ UNCHANGED copies
  <2>1. rows[k].status = "absent"
    BY <1>2 DEF Commit, RowInv
  <2>. QED
    BY <1>2, <2>1 DEF Commit
<1>3. ASSUME NEW k \in Msgs, Requeue(k)
      PROVE  \/ /\ rows[m].status \in {"failed", "dead_letter"}
                /\ rows'[m].status = "failed"
                /\ UNCHANGED copies
             \/ rows'[m] = rows[m] /\ UNCHANGED copies
  <2>1. PICK t : rows' = [rows EXCEPT ![k] = RequeuedRow(@, t)]
    BY <1>3 DEF Requeue
  <2>2. rows[m] \in Row
    OBVIOUS
  <2>3. CASE k = m
    <3>1. rows'[m] = RequeuedRow(rows[m], t)
      BY <2>1, <2>3
    <3>2. rows'[m].status = "failed"
      BY <2>2, <3>1 DEF RequeuedRow, Row
    <3>. QED
      BY <1>3, <2>3, <3>2 DEF Requeue, CanRequeue
  <2>4. CASE k # m
    BY <1>3, <2>1, <2>4 DEF Requeue
  <2>. QED
    BY <2>3, <2>4
<1>4. ASSUME NEW k \in Msgs, SaveInTransaction(k) \/ Rollback(k)
      PROVE  UNCHANGED rows
  BY <1>4 DEF SaveInTransaction, Rollback
<1>5. ASSUME NEW w \in Workers,
             BeginRound(w) \/ BrokerStep(w) \/ HeartbeatFires(w) \/ SkipCompletion(w)
      PROVE  UNCHANGED rows
  BY <1>5 DEF BeginRound, BrokerStep, BrokerAccepts, EmitFulfilled, EmitRejected,
              HeartbeatFires, SkipCompletion
<1>6. ASSUME NEW w \in Workers, RenewalFails(w)
      PROVE  StorageMove(w, m) /\ UNCHANGED copies
  BY <1>6, FailedRenewalRows DEF StorageMove, RenewalFails
<1>8. ASSUME NEW w \in Workers, Crash(w)
      PROVE  UNCHANGED rows
  BY <1>8 DEF Crash
<1>7. CASE Tick \/ UNCHANGED vars
  BY <1>7 DEF Tick, vars
<1>. QED
  BY <1>1, <1>2, <1>3, <1>4, <1>5, <1>6, <1>7, <1>8 DEF Next, PublisherStep, RoundStep

\* A row held under a lease that is valid on every clock changes hands only by
\* its holder's completion.
THEOREM LeaseIsExclusive == Spec => LiveClaimRespected
<1>1. ASSUME IndInv, [Next]_vars, NEW m \in Msgs,
             rows[m].status = "processing",
             rows[m].until > now + MaxSkew,
             rows'[m].owner # rows[m].owner
      PROVE  \E w \in Workers :
                /\ Settled(w)
                /\ workers[w].cur = m
                /\ workers[w].token = rows[m].owner
  <2>1. PICK w \in Workers : StorageMove(w, m)
    BY <1>1, OtherSteps
  <2>2. rows[m].until \in Int /\ now + MaxSkew \in Int
    BY <1>1, OutboxAssumption DEF IndInv, TypeOK, Row, Time, NoTime
  <2>3. ~(rows[m].until <= now + MaxSkew)
    BY <1>1, <2>2
  <2>4. Completed(w, m)
    BY <1>1, <2>1, <2>3 DEF StorageMove
  <2>. QED
    BY <2>4 DEF Completed
<1>2. IndInv /\ [Next]_vars =>
        [\A m \in Msgs :
           /\ rows[m].status = "processing"
           /\ rows[m].until > now + MaxSkew
           /\ rows'[m].owner # rows[m].owner
           => \E w \in Workers :
                /\ Settled(w)
                /\ workers[w].cur = m
                /\ workers[w].token = rows[m].owner]_vars
  BY <1>1
<1>. QED
  BY <1>2, InvariantHolds, PTL DEF Spec, LiveClaimRespected

\* A published row stays published.
THEOREM PublishedStays == Spec => PublishedIsFinal
<1>1. ASSUME IndInv, [Next]_vars, NEW m \in Msgs, rows[m].status = "published"
      PROVE  rows'[m].status = "published"
  BY <1>1, OtherSteps DEF StorageMove
<1>2. IndInv /\ [Next]_vars =>
        [\A m \in Msgs :
           rows[m].status = "published" => rows'[m].status = "published"]_vars
  BY <1>1
<1>. QED
  BY <1>2, InvariantHolds, PTL DEF Spec, PublishedIsFinal

------------------------------------------------------------------------------
(* The outbox implements its promise                                       *)

\* The phase of a message depends on its row's status alone, and a storage
\* call that does not complete the row leaves it alone.
LEMMA PhaseKept ==
    ASSUME NEW w \in Workers, NEW m \in Msgs, StorageMove(w, m), ~Completed(w, m)
    PROVE  Phase(m)' = Phase(m)
BY DEF StorageMove, Phase

\* What a worker's statement does to the phase of a message.
LEMMA PhaseCompleted ==
    ASSUME NEW w \in Workers, NEW m \in Msgs, StorageMove(w, m)
    PROVE  \/ Phase(m)' = Phase(m)
           \/ Phase(m) = "queued" /\ Phase(m)' = "done" /\ copies[m] > 0
           \/ Phase(m) = "queued" /\ Phase(m)' = "dead"
BY DEF StorageMove, Phase

\* A step that takes one message to another phase is a move of the promise.
LEMMA MoveMapped ==
    ASSUME NEW m \in Msgs, NEW from, NEW to,
           Phase(m) = from, Phase(m)' = to,
           \A k \in Msgs \ {m} : Phase(k)' = Phase(k),
           UNCHANGED copies
    PROVE  Promise!Move(m, from, to)
BY DEF Promise!Move

\* A step that moves no message is a stutter of the promise.
LEMMA StutterMapped ==
    ASSUME \A m \in Msgs : Phase(m)' = Phase(m), UNCHANGED copies
    PROVE  UNCHANGED Promise!promiseVars
BY DEF Promise!promiseVars

\* Every step of the outbox is a step of the promise or a stutter.
LEMMA StepMapped ==
    ASSUME IndInv, [Next]_vars
    PROVE  [Promise!PromiseNext]_(Promise!promiseVars)
<1>. USE DEF IndInv, TypeOK
<1>1. ASSUME NEW w \in Workers, StorageStep(w)
      PROVE  [Promise!PromiseNext]_(Promise!promiseVars)
  <2>1. UNCHANGED copies
    BY <1>1 DEF StorageStep, ReleaseExpiredClaims, ClaimUnpublished, RenewBeforeEmit,
                HeartbeatRenews, MarkPublished, MarkPublishFailed
  <2>2. \A k \in Msgs : StorageMove(w, k)
    BY <1>1, StorageEffect
  <2>3. CASE \E m \in Msgs : Completed(w, m)
    <3>1. PICK m \in Msgs : Completed(w, m)
      BY <2>3
    <3>2. \A k \in Msgs \ {m} : ~Completed(w, k)
      BY <3>1 DEF Completed
    <3>3. \A k \in Msgs \ {m} : Phase(k)' = Phase(k)
      BY <2>2, <3>2, PhaseKept
    <3>4. CASE Phase(m)' = Phase(m)
      BY <2>1, <3>3, <3>4, StutterMapped
    <3>5. CASE Phase(m) = "queued" /\ Phase(m)' = "done" /\ copies[m] > 0
      <4>1. Promise!Move(m, "queued", "done")
        BY <2>1, <3>3, <3>5, MoveMapped
      <4>2. Promise!Finish(m)
        BY <3>5, <4>1 DEF Promise!Finish
      <4>. QED
        BY <4>2 DEF Promise!PromiseNext
    <3>6. CASE Phase(m) = "queued" /\ Phase(m)' = "dead"
      <4>1. Promise!Move(m, "queued", "dead")
        BY <2>1, <3>3, <3>6, MoveMapped
      <4>. QED
        BY <4>1 DEF Promise!GiveUp, Promise!PromiseNext
    <3>. QED
      BY <2>2, <3>4, <3>5, <3>6, PhaseCompleted
  <2>4. CASE \A m \in Msgs : ~Completed(w, m)
    <3>1. \A k \in Msgs : Phase(k)' = Phase(k)
      BY <2>2, <2>4, PhaseKept
    <3>. QED
      BY <2>1, <3>1, StutterMapped
  <2>. QED
    BY <2>3, <2>4
<1>2. ASSUME NEW m \in Msgs, Commit(m)
      PROVE  [Promise!PromiseNext]_(Promise!promiseVars)
  <2>1. Phase(m) = "none"
    BY <1>2 DEF Commit, RowInv, Phase
  <2>2. Phase(m)' = "queued"
    BY <1>2 DEF Commit, Phase, PendingRow, AbsentRow
  <2>3. \A k \in Msgs \ {m} : Phase(k)' = Phase(k)
    BY <1>2 DEF Commit, Phase
  <2>4. Promise!Move(m, "none", "queued")
    BY <1>2, <2>1, <2>2, <2>3, MoveMapped DEF Commit
  <2>. QED
    BY <2>4 DEF Promise!Enqueue, Promise!PromiseNext
<1>3. ASSUME NEW m \in Msgs, Requeue(m)
      PROVE  [Promise!PromiseNext]_(Promise!promiseVars)
  <2>1. PICK t : rows' = [rows EXCEPT ![m] = RequeuedRow(@, t)]
    BY <1>3 DEF Requeue
  <2>2. rows[m] \in Row /\ rows'[m] = RequeuedRow(rows[m], t)
    BY <2>1
  <2>3. rows'[m].status = "failed"
    BY <2>2 DEF RequeuedRow, Row
  <2>4. Phase(m)' = "queued"
    BY <2>3 DEF Phase
  <2>5. \A k \in Msgs \ {m} : Phase(k)' = Phase(k)
    BY <2>1 DEF Phase
  <2>6. Phase(m) \in {"queued", "dead"}
    BY <1>3 DEF Requeue, CanRequeue, Phase
  <2>7. UNCHANGED copies
    BY <1>3 DEF Requeue
  <2>8. CASE Phase(m) = "queued"
    BY <2>4, <2>5, <2>7, <2>8, StutterMapped
  <2>9. CASE Phase(m) = "dead"
    <3>1. Promise!Move(m, "dead", "queued")
      BY <2>4, <2>5, <2>7, <2>9, MoveMapped
    <3>. QED
      BY <3>1 DEF Promise!Revive, Promise!PromiseNext
  <2>. QED
    BY <2>6, <2>8, <2>9
<1>4. ASSUME NEW w \in Workers, BrokerAccepts(w)
      PROVE  [Promise!PromiseNext]_(Promise!promiseVars)
  <2>0. workers[w].cur \in Msgs /\ txn[workers[w].cur] = "committed"
    BY <1>4 DEF BrokerAccepts, WorkerInv, HasEvent
  <2>1. PICK m \in Msgs : m = workers[w].cur /\ txn[m] = "committed"
    BY <2>0
  <2>2. Phase(m) # "none"
    BY <2>1 DEF RowInv, Phase
  <2>3. \A k \in Msgs : Phase(k)' = Phase(k)
    BY <1>4 DEF BrokerAccepts, Phase
  <2>4. copies' = [copies EXCEPT ![m] = Count(@)]
    BY <1>4, <2>1 DEF BrokerAccepts
  <2>5. copies[m] \in 0 .. MaxSeen /\ copies'[m] > 0
    BY <2>1, <2>4, OutboxAssumption, StorageAssumption DEF Count
  <2>6. { k \in Msgs : copies'[k] > 0 } = { k \in Msgs : copies[k] > 0 } \cup {m}
    BY <2>1, <2>4, <2>5
  <2>7. Promise!Accept(m)
    BY <2>1, <2>2, <2>3, <2>6 DEF Promise!Accept
  <2>. QED
    BY <2>1, <2>7 DEF Promise!PromiseNext
<1>5. ASSUME UNCHANGED <<rows, copies>>
      PROVE  [Promise!PromiseNext]_(Promise!promiseVars)
  <2>1. \A k \in Msgs : Phase(k)' = Phase(k)
    BY <1>5 DEF Phase
  <2>. QED
    BY <1>5, <2>1, StutterMapped
<1>6. ASSUME NEW m \in Msgs, SaveInTransaction(m) \/ Rollback(m)
      PROVE  UNCHANGED <<rows, copies>>
  BY <1>6 DEF SaveInTransaction, Rollback
<1>7. ASSUME NEW w \in Workers,
             \/ BeginRound(w) \/ EmitFulfilled(w) \/ EmitRejected(w) \/ HeartbeatFires(w)
             \/ SkipCompletion(w) \/ Crash(w)
      PROVE  UNCHANGED <<rows, copies>>
  BY <1>7, Zenon DEF BeginRound, EmitFulfilled, EmitRejected, HeartbeatFires, SkipCompletion,
              Crash
<1>9. ASSUME NEW w \in Workers, RenewalFails(w)
      PROVE  [Promise!PromiseNext]_(Promise!promiseVars)
  <2>1. \A k \in Msgs : Phase(k)' = Phase(k)
    BY <1>9, FailedRenewalRows DEF Phase
  <2>2. UNCHANGED copies
    BY <1>9 DEF RenewalFails
  <2>. QED
    BY <2>1, <2>2, StutterMapped
<1>8. CASE Tick \/ UNCHANGED vars
  BY <1>5, <1>8 DEF Tick, vars
<1>. QED
  BY <1>1, <1>2, <1>3, <1>4, <1>5, <1>6, <1>7, <1>8, <1>9
     DEF Next, PublisherStep, RoundStep, BrokerStep

\* Initial states map to initial states.
LEMMA InitMapped == Init => Promise!PromiseInit
BY OutboxAssumption DEF Init, Promise!PromiseInit, Phase, AbsentRow

\* The outbox implements OutboxPromise.
THEOREM OutboxKeepsItsPromise == Spec => ImplementsPromise
BY InitMapped, StepMapped, InvariantHolds, PTL DEF Spec, ImplementsPromise, Promise!PromiseSpec
==============================================================================
