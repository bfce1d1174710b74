------------------------- MODULE OutboxTimelyProofs --------------------------
(***************************************************************************)
(* Theorems about OutboxTimely: with heartbeats that fire in time and      *)
(* storage calls that end within the lease, emissions do not overlap and   *)
(* contention alone never duplicates a message, for every number of        *)
(* messages and workers, every lease, skew, batch size and retry limit.    *)
(***************************************************************************)
EXTENDS OutboxTimely, OutboxProofs

\* What the parameters and the types say of the times of one state.
LEMMA TimelyTimes ==
    ASSUME TypeOK, NEW w \in Workers
    PROVE  /\ Clock(w) \in Nat /\ now \in Nat /\ MaxSkew \in Nat
           /\ now <= Clock(w) /\ Clock(w) <= now + MaxSkew
           /\ workers[w] \in Worker /\ workers[w].at \in Nat
           /\ workers[w].beat \in Int /\ workers[w].beat >= -1
           /\ workers[w].lost \in BOOLEAN
<1>1. workers[w] \in Worker /\ now \in Nat
  BY DEF TypeOK
<1>2. /\ workers[w].at \in Nat /\ workers[w].lost \in BOOLEAN
      /\ workers[w].beat \in Int /\ workers[w].beat >= -1
  BY <1>1 DEF Worker, Time, NoTime
<1>. QED
  BY <1>1, <1>2, ClockTyped, OutboxAssumption

\* A step is one of the outbox, or a tick that moves the origin of time.
LEMMA TimelyStep ==
    ASSUME [TimelyNext]_timelyVars
    PROVE  \/ \E m \in Msgs : PublisherStep(m)
           \/ \E w \in Workers : BeginRound(w) \/ RoundStep(w) \/ RenewalFails(w) \/ Crash(w)
           \/ HeartbeatsPrompt /\ StoragePrompt /\ Tick
           \/ Rebase
           \/ UNCHANGED vars
BY DEF TimelyNext, TimedRound, TimelyTick, timelyVars

------------------------------------------------------------------------------
(* Moving the origin                                                       *)

\* An older time is a time; what is later than a clock it is compared with
\* stays so, and a missing time stays missing.
LEMMA OlderTyped ==
    ASSUME NEW t \in Int, t >= -1
    PROVE  /\ Older(t) \in Int /\ Older(t) >= -1 /\ Older(t) <= t /\ Older(t) >= t - 1
           /\ t \in Nat => Older(t) \in Nat
           /\ Older(t) = NoTime <=> t = NoTime
           /\ t > 0 => Older(t) = t - 1
BY DEF Older, NoTime

\* Moving the origin changes the times in rows and workers and nothing else.
LEMMA RebaseEffect ==
    ASSUME TypeOK, Rebase
    PROVE  /\ \A m \in Msgs :
                /\ rows'[m] \in Row
                /\ rows'[m].status = rows[m].status
                /\ rows'[m].owner = rows[m].owner
                /\ rows'[m].retry = rows[m].retry
                /\ rows'[m].until = Older(rows[m].until)
           /\ \A w \in Workers :
                /\ workers'[w] \in Worker
                /\ workers'[w].pc = workers[w].pc
                /\ workers'[w].token = workers[w].token
                /\ workers'[w].batch = workers[w].batch
                /\ workers'[w].cur = workers[w].cur
                /\ workers'[w].sent = workers[w].sent
                /\ workers'[w].lost = workers[w].lost
                /\ workers'[w].at = Older(workers[w].at)
                /\ workers'[w].beat = Older(workers[w].beat)
                /\ Clock(w)' = Clock(w)
           /\ TypeOK'
<1>1. ASSUME NEW m \in Msgs
      PROVE  /\ rows'[m] \in Row
             /\ rows'[m].status = rows[m].status
             /\ rows'[m].owner = rows[m].owner
             /\ rows'[m].retry = rows[m].retry
             /\ rows'[m].until = Older(rows[m].until)
  <2>. DEFINE due == Older(rows[m].due)
              until == Older(rows[m].until)
              row == [rows[m] EXCEPT !.due = due, !.until = until]
  <2>1. rows[m] \in Row
    BY DEF TypeOK
  <2>2. due \in Time /\ until \in Time
    BY <2>1, OlderTyped DEF Row, Time, NoTime
  <2>3. rows'[m] = row
    BY DEF Rebase
  <2>. HIDE DEF due, until
  <2>4. /\ row \in Row /\ row.status = rows[m].status /\ row.owner = rows[m].owner
        /\ row.retry = rows[m].retry /\ row.until = until
    BY <2>1, <2>2 DEF Row
  <2>. QED
    BY <2>3, <2>4 DEF until
<1>2. ASSUME NEW w \in Workers
      PROVE  /\ workers'[w] \in Worker
             /\ workers'[w].pc = workers[w].pc
             /\ workers'[w].token = workers[w].token
             /\ workers'[w].batch = workers[w].batch
             /\ workers'[w].cur = workers[w].cur
             /\ workers'[w].sent = workers[w].sent
             /\ workers'[w].lost = workers[w].lost
             /\ workers'[w].at = Older(workers[w].at)
             /\ workers'[w].beat = Older(workers[w].beat)
  <2>. DEFINE at == Older(workers[w].at)
              beat == Older(workers[w].beat)
              worker == [workers[w] EXCEPT !.at = at, !.beat = beat]
  <2>1. workers[w] \in Worker
    BY DEF TypeOK
  <2>2. at \in Nat /\ beat \in Time
    BY <2>1, OlderTyped DEF Worker, Time, NoTime
  <2>3. workers'[w] = worker
    BY DEF Rebase
  <2>. HIDE DEF at, beat
  <2>4. worker \in Worker
    BY <2>1, <2>2 DEF Worker
  <2>5. /\ worker.pc = workers[w].pc /\ worker.token = workers[w].token
        /\ worker.batch = workers[w].batch /\ worker.cur = workers[w].cur
        /\ worker.sent = workers[w].sent /\ worker.lost = workers[w].lost
        /\ worker.at = at /\ worker.beat = beat
    BY <2>1, <2>2 DEF Worker
  <2>. QED
    BY <2>3, <2>4, <2>5 DEF at, beat
<1>3. \A w \in Workers : Clock(w)' = Clock(w)
  BY DEF Rebase, Clock
<1>4. rows' \in [Msgs -> Row]
  <2>1. rows' = [m \in Msgs |-> rows'[m]]
    BY DEF Rebase
  <2>. QED
    BY <1>1, <2>1
<1>5. workers' \in [Workers -> Worker]
  <2>1. workers' = [w \in Workers |-> workers'[w]]
    BY DEF Rebase
  <2>. QED
    BY <1>2, <2>1
<1>6. TypeOK'
  BY <1>4, <1>5 DEF Rebase, TypeOK
<1>. QED
  BY <1>1, <1>2, <1>3, <1>6

\* The invariant of the outbox does not depend on the origin of time.
LEMMA RebaseInd ==
    ASSUME IndInv, Rebase
    PROVE  IndInv'
<1>1. TypeOK
  BY DEF IndInv
<1>2. TypeOK'
  BY <1>1, RebaseEffect
<1>3. ASSUME NEW m \in Msgs PROVE RowInv(m)'
  <2>1. RowInv(m)
    BY DEF IndInv
  <2>2. /\ rows'[m].status = rows[m].status /\ rows'[m].retry = rows[m].retry
        /\ UNCHANGED <<txn, copies, rejects>>
    BY <1>1, RebaseEffect DEF Rebase
  <2>. QED
    BY <2>1, <2>2 DEF RowInv
<1>4. ASSUME NEW w \in Workers PROVE WorkerInv(w)'
  <2>1. WorkerInv(w)
    BY DEF IndInv
  <2>2. /\ workers'[w].pc = workers[w].pc /\ workers'[w].token = workers[w].token
        /\ workers'[w].batch = workers[w].batch /\ workers'[w].cur = workers[w].cur
        /\ workers'[w].sent = workers[w].sent
        /\ workers'[w].at = Older(workers[w].at)
        /\ workers'[w].beat = Older(workers[w].beat)
        /\ Clock(w)' = Clock(w)
        /\ UNCHANGED <<txn, copies, rejects>>
    BY <1>1, RebaseEffect DEF Rebase
  <2>3. /\ Clock(w) \in Nat /\ workers[w].at \in Nat
        /\ workers[w].beat \in Int /\ workers[w].beat >= -1
    BY <1>1, TimelyTimes
  <2>4. /\ Older(workers[w].at) \in Int /\ Older(workers[w].at) <= workers[w].at
        /\ Older(workers[w].beat) \in Int /\ Older(workers[w].beat) <= workers[w].beat
        /\ Older(workers[w].beat) = NoTime <=> workers[w].beat = NoTime
    BY <2>3, OlderTyped
  <2>5. workers'[w].at <= Clock(w)' /\ workers'[w].beat <= Clock(w)'
    BY <2>1, <2>2, <2>3, <2>4 DEF WorkerInv
  <2>6. HasEvent(w)' <=> HasEvent(w)
    BY <2>2 DEF HasEvent
  <2>7. workers'[w].beat # NoTime => HasEvent(w)'
    BY <2>1, <2>2, <2>4, <2>6 DEF WorkerInv
  <2>8. HasEvent(w)' =>
           /\ workers'[w].token \in Tokens
           /\ workers'[w].cur \in Msgs
           /\ \A m \in workers'[w].batch \cup {workers'[w].cur} : txn'[m] = "committed"
           /\ workers'[w].sent => copies'[workers'[w].cur] > 0
    BY <2>1, <2>2, <2>6 DEF WorkerInv
  <2>9. workers'[w].pc = "fulfilled" => workers'[w].sent
    BY <2>1, <2>2 DEF WorkerInv
  <2>10. workers'[w].pc = "rejected" /\ StillOwns(w)' =>
            rows'[workers'[w].cur].retry < rejects'[workers'[w].cur]
    <3>. SUFFICES ASSUME workers[w].pc = "rejected", StillOwns(w)'
                  PROVE  rows'[workers[w].cur].retry < rejects'[workers[w].cur]
      BY <2>2
    <3>1. workers[w].cur \in Msgs
      BY <2>1 DEF WorkerInv, HasEvent
    <3>2. /\ rows'[workers[w].cur].status = rows[workers[w].cur].status
          /\ rows'[workers[w].cur].owner = rows[workers[w].cur].owner
          /\ rows'[workers[w].cur].retry = rows[workers[w].cur].retry
      BY <1>1, <3>1, RebaseEffect
    <3>3. StillOwns(w)
      BY <2>2, <3>2 DEF StillOwns
    <3>. QED
      BY <2>1, <2>2, <3>2, <3>3 DEF WorkerInv
  <2>. QED
    BY <2>5, <2>7, <2>8, <2>9, <2>10 DEF WorkerInv
<1>5. TokensUnique'
  <2>1. \A w \in Workers : workers'[w].token = workers[w].token
    BY <1>1, RebaseEffect
  <2>. QED
    BY <2>1 DEF IndInv, TokensUnique
<1>. QED
  BY <1>2, <1>3, <1>4, <1>5 DEF IndInv

\* The invariant of the outbox is one of the timed outbox.
LEMMA TimelyIndInv ==
    ASSUME IndInv, [TimelyNext]_timelyVars
    PROVE  IndInv'
<1>1. CASE Rebase
  BY <1>1, RebaseInd
<1>2. CASE [Next]_vars
  BY <1>2, NextInd
<1>. QED
  BY <1>1, <1>2, TimelyStep DEF Next

------------------------------------------------------------------------------
(* Leases                                                                  *)

\* A row whose lease is valid on every clock is touched by no storage call of
\* a worker that does not hold it.
LEMMA LiveRowKept ==
    ASSUME IndInv, NEW w \in Workers, StorageStep(w), NEW m \in Msgs,
           rows[m].status = "processing", rows[m].until > now + MaxSkew,
           ~(HasEvent(w) /\ workers[w].cur = m /\ workers[w].token = rows[m].owner)
    PROVE  rows'[m] = rows[m]
<1>. DEFINE me == workers[w]
<1>a. /\ TypeOK /\ WorkerInv(w) /\ rows[m] \in Row /\ rows \in [Msgs -> Row]
  BY DEF IndInv, TypeOK
<1>b. /\ me.at \in Nat /\ me.at <= now + MaxSkew /\ now + MaxSkew \in Nat
      /\ me \in Worker
  BY <1>a, TimelyTimes DEF WorkerInv
<1>c. rows[m].until \in Int /\ ~(rows[m].until <= me.at)
  BY <1>a, <1>b DEF Row, Time, NoTime
<1>d. ~Expired(rows[m], me.at) /\ ~Claimable(rows[m], me.at)
  BY <1>c DEF Expired, Claimable
<1>e. HasEvent(w) => me.token \in Tokens /\ me.cur \in Msgs
  BY <1>a DEF WorkerInv
<1>f. HasEvent(w) /\ CanComplete(rows[me.cur], me.token) => me.cur # m
  <2>. SUFFICES ASSUME HasEvent(w), CanComplete(rows[me.cur], me.token) PROVE me.cur # m
    OBVIOUS
  <2>1. rows[me.cur].owner = me.token
    BY <1>e, OwnsByToken
  <2>. QED
    BY <2>1
<1>1. CASE ReleaseExpiredClaims(w)
  BY <1>1, <1>d DEF ReleaseExpiredClaims, ReleasedRow
<1>2. CASE ClaimUnpublished(w)
  <2>. DEFINE due == { k \in Msgs : Claimable(rows[k], me.at) }
              won == Oldest(due, BatchSize)
  <2>1. PICK t \in Tokens :
          rows' = [k \in Msgs |->
                IF k \in won THEN ClaimedRow(rows[k], t, me.at + Lease) ELSE rows[k]]
    BY <1>2 DEF ClaimUnpublished
  <2>2. m \notin won
    BY <1>d DEF Oldest
  <2>. QED
    BY <2>1, <2>2
<1>3. CASE RenewBeforeEmit(w)
  <2>1. HasEvent(w)
    BY <1>3 DEF RenewBeforeEmit, HasEvent
  <2>2. CASE CanRenew(rows[me.cur], me.token, me.at)
    <3>1. me.cur # m
      BY <2>1, <2>2 DEF CanRenew
    <3>. QED
      BY <1>3, <1>a, <2>2, <3>1 DEF RenewBeforeEmit
  <2>3. CASE ~CanRenew(rows[me.cur], me.token, me.at)
    BY <1>3, <2>3 DEF RenewBeforeEmit
  <2>. QED
    BY <2>2, <2>3
<1>4. CASE HeartbeatRenews(w)
  <2>1. HasEvent(w)
    BY <1>4, <1>a DEF HeartbeatRenews, WorkerInv
  <2>2. CASE me.cur = m
    <3>1. ~CanRenew(rows[me.cur], me.token, me.beat)
      BY <2>1, <2>2 DEF CanRenew
    <3>. QED
      BY <1>4, <1>a, <3>1 DEF HeartbeatRenews, Renewed
  <2>3. CASE me.cur # m
    BY <1>4, <1>a, <2>3 DEF HeartbeatRenews, Renewed
  <2>. QED
    BY <2>2, <2>3
<1>5. CASE MarkPublished(w)
  <2>1. HasEvent(w)
    BY <1>5 DEF MarkPublished, HasEvent
  <2>2. rows' = [rows EXCEPT ![me.cur] = IF CanComplete(@, me.token) THEN PublishedRow(@) ELSE @]
    BY <1>5 DEF MarkPublished
  <2>. QED
    BY <1>a, <1>f, <2>1, <2>2
<1>6. CASE MarkPublishFailed(w)
  <2>1. HasEvent(w)
    BY <1>6 DEF MarkPublishFailed, HasEvent
  <2>2. PICK due : rows' = [rows EXCEPT ![me.cur] =
                               IF CanComplete(@, me.token) THEN FailedRow(@, due) ELSE @]
    BY <1>6 DEF MarkPublishFailed
  <2>. QED
    BY <1>a, <1>f, <2>1, <2>2
<1>. QED
  BY <1>1, <1>2, <1>3, <1>4, <1>5, <1>6 DEF StorageStep

\* A worker whose claim is as LeaseInv says keeps it when it does not move,
\* nothing becomes younger than the clock allows and its row is not touched.
LEMMA LeaseStays ==
    ASSUME NEW w \in Workers, LeaseInv(w), workers'[w] = workers[w], now' = now,
           Emission(w) /\ ~workers[w].lost =>
               rows'[workers[w].cur] = rows[workers[w].cur]
    PROVE  LeaseInv(w)'
<1>1. Clock(w)' = Clock(w)
  BY DEF Clock
<1>2. Emission(w)' <=> Emission(w)
  BY DEF Emission
<1>3. Emission(w) /\ ~workers[w].lost => (StillOwns(w)' <=> StillOwns(w))
  BY DEF StillOwns
<1>. QED
  BY <1>1, <1>2, <1>3 DEF LeaseInv

\* A worker between two events has just called the storage, or nothing.
LEMMA ProceedLease ==
    ASSUME TypeOK, now' = now, NEW w \in Workers,
           NEW token \in Tokens \cup {NoOwner}, NEW rest \in SUBSET Msgs,
           Proceed(w, token, rest)
    PROVE  LeaseInv(w)' /\ workers'[w].pc \in {"idle", "renew"} /\ ~workers'[w].lost
<1>1. Clock(w)' = Clock(w) /\ Clock(w) \in Nat
  BY TimelyTimes DEF Clock
<1>2. CASE workers' = [workers EXCEPT ![w] = Idle]
  <2>1. workers'[w] = Idle
    BY <1>2 DEF TypeOK
  <2>. QED
    BY <2>1 DEF LeaseInv, Emission, Idle
<1>3. CASE \E m \in rest :
             workers' = [workers EXCEPT ![w] =
                [Idle EXCEPT !.pc = "renew", !.at = Clock(w), !.token = token,
                             !.batch = rest \ {m}, !.cur = m]]
  <2>. DEFINE Following(m) == [Idle EXCEPT !.pc = "renew", !.at = Clock(w), !.token = token,
                                       !.batch = rest \ {m}, !.cur = m]
  <2>1. PICK m \in rest : workers' = [workers EXCEPT ![w] = Following(m)]
    BY <1>3
  <2>2. /\ Following(m).at = Clock(w) /\ Following(m).beat = NoTime
        /\ ~Following(m).lost /\ Following(m).pc = "renew"
    BY DEF Idle
  <2>. HIDE DEF Following
  <2>3. workers'[w] = Following(m)
    BY <2>1 DEF TypeOK
  <2>4. Clock(w)' - workers'[w].at <= MaxCall
    BY <1>1, <2>2, <2>3, TimelyAssumption
  <2>. QED
    BY <2>2, <2>3, <2>4 DEF LeaseInv, Emission
<1>. QED
  BY <1>2, <1>3 DEF Proceed

\* The same of one that has been stopped.
LEMMA FaultLease ==
    ASSUME TypeOK, NEW w \in Workers, Fault(w)
    PROVE  LeaseInv(w)' /\ workers'[w] = Idle /\ ~workers'[w].lost
<1>1. workers'[w] = Idle
  BY FaultEffect
<1>. QED
  BY <1>1 DEF LeaseInv, Emission, Idle

\* A renewal that was asked for at most MaxCall ago gives a lease that is
\* valid on every clock.
LEMMA RenewalIsLong ==
    ASSUME TypeOK, NEW w \in Workers, NEW t \in Int, Clock(w) - t <= MaxCall
    PROVE  t + Lease > now + MaxSkew
BY TimelyTimes, TimelyAssumption, OutboxAssumption

\* The worker that calls the storage.
LEMMA CallerLease ==
    ASSUME IndInv, NEW w \in Workers, LeaseInv(w), StorageStep(w)
    PROVE  LeaseInv(w)'
<1>. DEFINE me == workers[w]
<1>a. /\ TypeOK /\ WorkerInv(w) /\ me \in Worker /\ workers \in [Workers -> Worker]
      /\ rows \in [Msgs -> Row]
  BY DEF IndInv, TypeOK
<1>b. /\ me.at \in Nat /\ me.beat \in Int /\ me.batch \in SUBSET Msgs
      /\ me.token \in Tokens \cup {NoOwner}
  BY <1>a, TimelyTimes DEF Worker
<1>c. now' = now
  BY DEF StorageStep, ReleaseExpiredClaims, ClaimUnpublished, RenewBeforeEmit,
         HeartbeatRenews, MarkPublished, MarkPublishFailed
<1>d. Clock(w)' = Clock(w)
  BY <1>c DEF Clock
<1>e. ASSUME NEW t \in Tokens \cup {NoOwner}, NEW rest \in SUBSET Msgs,
             Executed(w, Proceed(w, t, rest))
      PROVE  LeaseInv(w)'
  BY <1>e, <1>a, <1>c, ProceedLease, FaultLease DEF Executed
<1>1. CASE ReleaseExpiredClaims(w)
  <2>1. CASE Fault(w)
    BY <1>a, <2>1, FaultLease
  <2>2. CASE workers' = [workers EXCEPT ![w].pc = "claim"]
    <3>1. /\ workers'[w].pc = "claim" /\ workers'[w].at = me.at
          /\ workers'[w].beat = me.beat /\ workers'[w].lost = me.lost
      BY <1>a, <2>2 DEF Worker
    <3>2. me.pc = "release"
      BY <1>1 DEF ReleaseExpiredClaims
    <3>. QED
      BY <1>d, <3>1, <3>2 DEF LeaseInv, Emission
  <2>. QED
    BY <1>1, <2>1, <2>2 DEF ReleaseExpiredClaims, Executed
<1>2. CASE ClaimUnpublished(w)
  <2>. DEFINE won == Oldest({ m \in Msgs : Claimable(rows[m], me.at) }, BatchSize)
  <2>1. won \in SUBSET Msgs
    BY DEF Oldest
  <2>2. \E t \in Tokens : Executed(w, Proceed(w, t, won))
    BY <1>2 DEF ClaimUnpublished
  <2>. QED
    BY <1>e, <2>1, <2>2
<1>3. CASE RenewBeforeEmit(w)
  <2>1. CASE CanRenew(rows[me.cur], me.token, me.at)
    <3>. DEFINE row == rows[me.cur]
    <3>1. /\ rows' = [rows EXCEPT ![me.cur] = RenewedRow(@, me.at + Lease)]
          /\ workers' = [workers EXCEPT ![w] = [@ EXCEPT !.pc = "emit", !.at = 0]]
          /\ me.pc = "renew"
      BY <1>3, <2>1 DEF RenewBeforeEmit
    <3>2. me.cur \in Msgs /\ row \in Row
      BY <1>a, <3>1 DEF WorkerInv, HasEvent
    <3>3. rows'[me.cur] = RenewedRow(row, me.at + Lease)
      BY <1>a, <3>1, <3>2
    <3>4. /\ rows'[me.cur].status = "processing" /\ rows'[me.cur].owner = me.token
          /\ rows'[me.cur].until = me.at + Lease
      BY <2>1, <3>2, <3>3 DEF RenewedRow, Row, CanRenew
    <3>5. /\ workers'[w].pc = "emit" /\ workers'[w].token = me.token
          /\ workers'[w].cur = me.cur /\ workers'[w].beat = me.beat
          /\ workers'[w].lost = me.lost
      BY <1>a, <3>1 DEF Worker
    <3>6. me.at + Lease > now + MaxSkew
      BY <1>a, <1>b, <3>1, RenewalIsLong DEF LeaseInv
    <3>. QED
      BY <1>c, <1>d, <3>1, <3>4, <3>5, <3>6 DEF LeaseInv, Emission, StillOwns
  <2>2. CASE ~CanRenew(rows[me.cur], me.token, me.at)
    BY <1>3, <1>a, <1>b, <1>c, <2>2, ProceedLease DEF RenewBeforeEmit
  <2>. QED
    BY <2>1, <2>2
<1>4. CASE HeartbeatRenews(w)
  <2>. DEFINE row == rows[me.cur]
              ok == CanRenew(row, me.token, me.beat)
  <2>1. /\ Emission(w) /\ me.cur \in Msgs /\ row \in Row
        /\ Clock(w) - me.beat <= MaxCall
    BY <1>4, <1>a DEF HeartbeatRenews, LeaseInv, WorkerInv, HasEvent, Emission
  <2>2. /\ rows' = [rows EXCEPT ![me.cur] = IF ok THEN RenewedRow(@, me.beat + Lease) ELSE @]
        /\ workers' = [workers EXCEPT ![w] = [@ EXCEPT !.beat = NoTime, !.lost = ~ok]]
    BY <1>4 DEF HeartbeatRenews, Renewed
  <2>3. ok \in BOOLEAN
    BY DEF CanRenew
  <2>. HIDE DEF ok
  <2>4. /\ workers'[w].pc = me.pc /\ workers'[w].token = me.token
        /\ workers'[w].cur = me.cur /\ workers'[w].beat = NoTime
        /\ workers'[w].lost = ~ok
    BY <1>a, <2>2, <2>3 DEF Worker
  <2>5. CASE ok
    <3>1. rows'[me.cur] = RenewedRow(row, me.beat + Lease)
      BY <1>a, <2>1, <2>2, <2>5
    <3>2. /\ rows'[me.cur].status = "processing" /\ rows'[me.cur].owner = me.token
          /\ rows'[me.cur].until = me.beat + Lease
      BY <2>1, <2>5, <3>1 DEF RenewedRow, Row, CanRenew, ok
    <3>3. me.beat + Lease > now + MaxSkew
      BY <1>a, <1>b, <2>1, RenewalIsLong
    <3>. QED
      BY <1>c, <2>1, <2>4, <2>5, <3>2, <3>3 DEF LeaseInv, Emission, StillOwns
  <2>6. CASE ~ok
    BY <2>1, <2>4, <2>6 DEF LeaseInv, Emission
  <2>. QED
    BY <2>5, <2>6
<1>5. CASE MarkPublished(w)
  BY <1>5, <1>b, <1>e DEF MarkPublished
<1>6. CASE MarkPublishFailed(w)
  <2>1. Executed(w, Proceed(w, me.token, me.batch))
    BY <1>6 DEF MarkPublishFailed
  <2>. QED
    BY <1>b, <1>e, <2>1
<1>. QED
  BY <1>1, <1>2, <1>3, <1>4, <1>5, <1>6 DEF StorageStep

\* The steps of a worker that leave the rows of others alone.
LEMMA QuietLease ==
    ASSUME IndInv, NEW w \in Workers, LeaseInv(w),
           \/ BeginRound(w) \/ BrokerStep(w) \/ HeartbeatFires(w)
           \/ SkipCompletion(w) \/ RenewalFails(w) \/ Crash(w)
    PROVE  /\ LeaseInv(w)'
           /\ now' = now
           /\ \A m \in Msgs : rows[m].owner # workers[w].token => rows'[m] = rows[m]
           /\ \A v \in Workers \ {w} : workers'[v] = workers[v]
<1>. DEFINE me == workers[w]
<1>a. /\ TypeOK /\ WorkerInv(w) /\ me \in Worker /\ workers \in [Workers -> Worker]
  BY DEF IndInv, TypeOK
<1>b. /\ me.batch \in SUBSET Msgs /\ me.token \in Tokens \cup {NoOwner}
  BY <1>a DEF Worker
<1>c. /\ now' = now
      /\ \A m \in Msgs : rows[m].owner # me.token => rows'[m] = rows[m]
      /\ rows' = rows \/ RenewalFails(w)
  <2>1. CASE BeginRound(w)
    BY <2>1 DEF BeginRound
  <2>2. CASE BrokerStep(w)
    BY <2>2 DEF BrokerStep, BrokerAccepts, EmitFulfilled, EmitRejected
  <2>3. CASE HeartbeatFires(w) \/ SkipCompletion(w)
    BY <2>3 DEF HeartbeatFires, SkipCompletion
  <2>4. CASE Crash(w)
    BY <2>4 DEF Crash
  <2>5. CASE RenewalFails(w)
    <3>1. now' = now
      BY <2>5 DEF RenewalFails
    <3>. QED
      BY <1>a, <2>5, <3>1, FailedRenewalRows
  <2>. QED
    BY <2>1, <2>2, <2>3, <2>4, <2>5
<1>d. Clock(w)' = Clock(w) /\ Clock(w) \in Nat
  BY <1>a, <1>c, TimelyTimes DEF Clock
<1>e. Clock(w) - Clock(w) <= MaxCall
  BY <1>d, TimelyAssumption
<1>1. CASE BeginRound(w)
  <2>1. workers' = [workers EXCEPT ![w] = [@ EXCEPT !.pc = "release", !.at = Clock(w)]]
        /\ me.pc = "idle"
    BY <1>1 DEF BeginRound
  <2>2. /\ workers'[w].pc = "release" /\ workers'[w].at = Clock(w)
        /\ workers'[w].beat = me.beat /\ workers'[w].lost = me.lost
    BY <1>a, <2>1 DEF Worker
  <2>3. me.beat = NoTime /\ ~me.lost
    BY <2>1 DEF LeaseInv, Emission
  <2>4. LeaseInv(w)'
    BY <1>d, <1>e, <2>2, <2>3 DEF LeaseInv, Emission
  <2>. QED
    BY <1>a, <1>c, <2>1, <2>4
<1>2. CASE BrokerStep(w)
  <2>1. /\ Emission(w)
        /\ workers' \in { [workers EXCEPT ![w].sent = TRUE],
                          [workers EXCEPT ![w].pc = "fulfilled"],
                          [workers EXCEPT ![w].pc = "rejected"] }
    BY <1>2 DEF BrokerStep, BrokerAccepts, EmitFulfilled, EmitRejected, Emission
  <2>2. /\ workers'[w].pc \in {"emit", "fulfilled", "rejected"}
        /\ workers'[w].token = me.token /\ workers'[w].cur = me.cur
        /\ workers'[w].beat = me.beat /\ workers'[w].lost = me.lost
    BY <1>a, <2>1 DEF Worker, Emission
  <2>0. rows' = rows
    BY <1>2 DEF BrokerStep, BrokerAccepts, EmitFulfilled, EmitRejected
  <2>3. LeaseInv(w)'
    BY <1>c, <1>d, <2>0, <2>1, <2>2 DEF LeaseInv, Emission, StillOwns
  <2>. QED
    BY <1>a, <1>c, <2>1, <2>3
<1>3. CASE HeartbeatFires(w)
  <2>1. workers' = [workers EXCEPT ![w].beat = Clock(w)] /\ Emission(w)
    BY <1>3 DEF HeartbeatFires, Emission
  <2>2. /\ workers'[w].pc = me.pc /\ workers'[w].beat = Clock(w)
        /\ workers'[w].token = me.token /\ workers'[w].cur = me.cur
        /\ workers'[w].lost = me.lost
    BY <1>a, <2>1 DEF Worker
  <2>0. rows' = rows
    BY <1>3 DEF HeartbeatFires
  <2>3. LeaseInv(w)'
    BY <1>c, <1>d, <1>e, <2>0, <2>1, <2>2 DEF LeaseInv, Emission, StillOwns
  <2>. QED
    BY <1>a, <1>c, <2>1, <2>3
<1>4. CASE Proceed(w, me.token, me.batch)
  BY <1>a, <1>b, <1>c, <1>4, ProceedLease, ProceedEffect
<1>5. CASE me.beat # NoTime /\ workers' = [workers EXCEPT ![w] = [@ EXCEPT !.beat = NoTime, !.lost = TRUE]]
  <2>1. /\ workers'[w].pc = me.pc /\ workers'[w].beat = NoTime /\ workers'[w].lost
    BY <1>a, <1>5 DEF Worker
  <2>2. Emission(w)
    BY <1>5 DEF LeaseInv
  <2>3. LeaseInv(w)'
    BY <2>1, <2>2 DEF LeaseInv, Emission
  <2>. QED
    BY <1>a, <1>c, <1>5, <2>3
<1>6. CASE Fault(w)
  BY <1>a, <1>c, <1>6, FaultLease, FaultEffect
<1>7. CASE SkipCompletion(w)
  BY <1>4, <1>7 DEF SkipCompletion
<1>8. CASE RenewalFails(w)
  BY <1>4, <1>5, <1>8 DEF RenewalFails
<1>9. CASE Crash(w)
  BY <1>6, <1>9, Zenon DEF Crash
<1>. QED
  BY <1>1, <1>2, <1>3, <1>7, <1>8, <1>9

\* Time runs out no lease in use and makes no call older than it may be.
LEMMA TickLease ==
    ASSUME IndInv, NEW w \in Workers, LeaseInv(w), HeartbeatsPrompt, StoragePrompt,
           Tick \/ Rebase
    PROVE  LeaseInv(w)'
<1>. DEFINE me == workers[w]
<1>a. TypeOK /\ WorkerInv(w) /\ rows \in [Msgs -> Row]
  BY DEF IndInv, TypeOK
<1>b. /\ Clock(w) \in Nat /\ now \in Nat /\ MaxSkew \in Nat /\ now <= Clock(w)
      /\ me.at \in Nat /\ me.beat \in Int /\ me.beat >= -1
  BY <1>a, TimelyTimes
<1>c. /\ me.pc \in {"release", "claim", "renew"} => Clock(w) - me.at < MaxCall
      /\ me.beat # NoTime => Emission(w) /\ Clock(w) - me.beat < MaxCall
  BY DEF StoragePrompt, LeaseInv
<1>d. ASSUME Emission(w), ~me.lost
      PROVE  /\ me.cur \in Msgs /\ StillOwns(w)
             /\ rows[me.cur].until \in Int /\ rows[me.cur].until > now + 1 + MaxSkew
  <2>1. me.cur \in Msgs
    BY <1>a, <1>d DEF WorkerInv, HasEvent, Emission
  <2>2. StillOwns(w)
    BY <1>d DEF LeaseInv
  <2>3. rows[me.cur].until > now + 1 + MaxSkew
    BY <1>d, <2>2 DEF HeartbeatsPrompt, HoldsClaim, StillOwns, Emission
  <2>4. rows[me.cur].until \in Int
    BY <1>a, <2>1 DEF Row, Time, NoTime
  <2>. QED
    BY <2>1, <2>2, <2>3, <2>4
<1>1. CASE Tick
  <2>1. workers' = workers /\ rows' = rows /\ now' = now + 1
    BY <1>1 DEF Tick
  <2>2. Clock(w)' = Clock(w) + 1
    BY <1>b, <2>1, OutboxAssumption DEF Clock
  <2>3. me.pc \in {"release", "claim", "renew"} => Clock(w)' - me.at <= MaxCall
    BY <1>b, <1>c, <2>2, TimelyAssumption
  <2>4. me.beat # NoTime => Emission(w) /\ Clock(w)' - me.beat <= MaxCall
    BY <1>b, <1>c, <2>2, TimelyAssumption
  <2>5. Emission(w) /\ ~me.lost => StillOwns(w) /\ rows[me.cur].until > now' + MaxSkew
    BY <1>b, <1>d, <2>1
  <2>. QED
    BY <2>1, <2>3, <2>4, <2>5 DEF LeaseInv, Emission, StillOwns
<1>2. CASE Rebase
  <2>1. /\ workers'[w].pc = me.pc /\ workers'[w].token = me.token
        /\ workers'[w].cur = me.cur /\ workers'[w].lost = me.lost
        /\ workers'[w].at = Older(me.at) /\ workers'[w].beat = Older(me.beat)
        /\ Clock(w)' = Clock(w)
    BY <1>a, <1>2, RebaseEffect
  <2>2. now = MaxClock /\ now' = now /\ MaxCall < MaxClock
    BY <1>2, TimelyAssumption DEF Rebase
  <2>3. me.pc \in {"release", "claim", "renew"} => Clock(w) - Older(me.at) <= MaxCall
    <3>. SUFFICES ASSUME me.pc \in {"release", "claim", "renew"}
                  PROVE  Clock(w) - Older(me.at) <= MaxCall
      OBVIOUS
    <3>1. me.at > 0
      BY <1>b, <1>c, <2>2, TimelyAssumption
    <3>2. Older(me.at) = me.at - 1
      BY <1>b, <3>1, OlderTyped
    <3>. QED
      BY <1>b, <1>c, <3>2, TimelyAssumption
  <2>4. Older(me.beat) # NoTime => Emission(w) /\ Clock(w) - Older(me.beat) <= MaxCall
    <3>. SUFFICES ASSUME Older(me.beat) # NoTime
                  PROVE  Emission(w) /\ Clock(w) - Older(me.beat) <= MaxCall
      OBVIOUS
    <3>0. me.beat # NoTime
      BY <1>b, OlderTyped
    <3>1. me.beat > 0
      BY <1>b, <1>c, <2>2, <3>0, TimelyAssumption
    <3>2. Older(me.beat) = me.beat - 1
      BY <1>b, <3>1, OlderTyped
    <3>. QED
      BY <1>b, <1>c, <3>0, <3>2, TimelyAssumption
  <2>5. ASSUME Emission(w), ~me.lost
        PROVE  StillOwns(w)' /\ rows'[me.cur].until > now' + MaxSkew
    <3>1. /\ me.cur \in Msgs /\ StillOwns(w)
          /\ rows[me.cur].until \in Int /\ rows[me.cur].until > now + 1 + MaxSkew
      BY <1>d, <2>5
    <3>2. /\ rows'[me.cur].status = rows[me.cur].status
          /\ rows'[me.cur].owner = rows[me.cur].owner
          /\ rows'[me.cur].until = Older(rows[me.cur].until)
      BY <1>a, <1>2, <3>1, RebaseEffect
    <3>3. Older(rows[me.cur].until) = rows[me.cur].until - 1
      BY <1>b, <3>1, OlderTyped
    <3>4. StillOwns(w)'
      BY <2>1, <3>1, <3>2 DEF StillOwns
    <3>. QED
      BY <1>b, <2>2, <3>1, <3>2, <3>3, <3>4
  <2>6. workers'[w].lost => Emission(w)
    BY <2>1 DEF LeaseInv
  <2>7. Emission(w)' <=> Emission(w)
    BY <2>1 DEF Emission
  <2>. QED
    BY <2>1, <2>3, <2>4, <2>5, <2>6, <2>7 DEF LeaseInv
<1>. QED
  BY <1>1, <1>2

\* Every step keeps every worker's lease as LeaseInv says.
LEMMA LeaseInd ==
    ASSUME IndInv, \A w \in Workers : LeaseInv(w), [TimelyNext]_timelyVars
    PROVE  \A w \in Workers : LeaseInv(w)'
<1>. SUFFICES ASSUME NEW v \in Workers PROVE LeaseInv(v)'
  OBVIOUS
<1>a. /\ TypeOK /\ WorkerInv(v) /\ LeaseInv(v) /\ TokensUnique
      /\ rows \in [Msgs -> Row] /\ workers \in [Workers -> Worker]
  BY DEF IndInv, TypeOK
<1>b. Emission(v) => workers[v].cur \in Msgs /\ workers[v].token \in Tokens
  BY <1>a DEF WorkerInv, HasEvent, Emission
<1>1. ASSUME NEW m \in Msgs, PublisherStep(m) PROVE LeaseInv(v)'
  <2>1. workers' = workers /\ now' = now
    BY <1>1 DEF PublisherStep, SaveInTransaction, Commit, Rollback
  <2>2. \A k \in Msgs : rows[k].status # "absent" => rows'[k] = rows[k]
    BY <1>1, <1>a DEF PublisherStep, SaveInTransaction, Commit, Rollback, IndInv, RowInv
  <2>3. Emission(v) /\ ~workers[v].lost => rows'[workers[v].cur] = rows[workers[v].cur]
    BY <1>a, <1>b, <2>2 DEF LeaseInv, StillOwns
  <2>. QED
    BY <1>a, <2>1, <2>3, LeaseStays
<1>2. ASSUME NEW w \in Workers,
             \/ BeginRound(w) \/ BrokerStep(w) \/ HeartbeatFires(w)
             \/ SkipCompletion(w) \/ RenewalFails(w) \/ Crash(w)
      PROVE  LeaseInv(v)'
  <2>1. /\ LeaseInv(w)' /\ now' = now
        /\ \A m \in Msgs : rows[m].owner # workers[w].token => rows'[m] = rows[m]
        /\ \A u \in Workers \ {w} : workers'[u] = workers[u]
    BY <1>2, QuietLease
  <2>2. CASE v = w
    BY <2>1, <2>2
  <2>3. CASE v # w
    <3>1. Emission(v) /\ ~workers[v].lost =>
              /\ workers[v].cur \in Msgs
              /\ rows[workers[v].cur].owner = workers[v].token
              /\ workers[w].token # workers[v].token
      BY <1>a, <1>b, <2>3, StorageAssumption DEF LeaseInv, StillOwns, TokensUnique
    <3>. QED
      BY <1>a, <2>1, <2>3, <3>1, LeaseStays
  <2>. QED
    BY <2>2, <2>3
<1>3. ASSUME NEW w \in Workers, StorageStep(w) PROVE LeaseInv(v)'
  <2>1. CASE v = w
    BY <1>3, <2>1, CallerLease
  <2>2. CASE v # w
    <3>1. now' = now
      BY <1>3 DEF StorageStep, ReleaseExpiredClaims, ClaimUnpublished, RenewBeforeEmit,
                  HeartbeatRenews, MarkPublished, MarkPublishFailed
    <3>2. workers'[v] = workers[v]
      <4>1. /\ workers[w].batch \in SUBSET Msgs /\ workers[w].token \in Tokens \cup {NoOwner}
        BY <1>a DEF Worker
      <4>2. \/ Fault(w)
            \/ \E f : workers' = [workers EXCEPT ![w] = f]
            \/ \E t \in Tokens \cup {NoOwner}, rest \in SUBSET Msgs : Proceed(w, t, rest)
        BY <1>3, <4>1, StorageReply
      <4>. QED
        BY <1>a, <2>2, <4>2 DEF Fault, Proceed
    <3>3. Emission(v) /\ ~workers[v].lost => rows'[workers[v].cur] = rows[workers[v].cur]
      <4>. SUFFICES ASSUME Emission(v), ~workers[v].lost
                    PROVE  rows'[workers[v].cur] = rows[workers[v].cur]
        OBVIOUS
      <4>1. /\ workers[v].cur \in Msgs /\ workers[v].token \in Tokens
            /\ rows[workers[v].cur].status = "processing"
            /\ rows[workers[v].cur].owner = workers[v].token
            /\ rows[workers[v].cur].until > now + MaxSkew
        BY <1>a, <1>b DEF LeaseInv, StillOwns
      <4>2. workers[w].token # workers[v].token
        BY <1>a, <2>2, <4>1, StorageAssumption DEF TokensUnique
      <4>. QED
        BY <1>3, <4>1, <4>2, LiveRowKept
    <3>. QED
      BY <1>a, <3>1, <3>2, <3>3, LeaseStays
  <2>. QED
    BY <2>1, <2>2
<1>4. CASE HeartbeatsPrompt /\ StoragePrompt /\ (Tick \/ Rebase)
  BY <1>a, <1>4, TickLease
<1>5. CASE UNCHANGED vars
  BY <1>a, <1>5, LeaseStays DEF vars
<1>6. Rebase => HeartbeatsPrompt /\ StoragePrompt
  BY DEF Rebase
<1>. QED
  BY <1>1, <1>2, <1>3, <1>4, <1>5, <1>6, TimelyStep DEF RoundStep

------------------------------------------------------------------------------
(* One copy                                                                *)

\* Two emissions of one message that both believe in their claim are one.
LEMMA OneHolder ==
    ASSUME IndInv, NEW v \in Workers, NEW w \in Workers, LeaseInv(v), LeaseInv(w),
           Emission(v), Emission(w), ~workers[v].lost, ~workers[w].lost,
           workers[v].cur = workers[w].cur
    PROVE  v = w
<1>1. workers[v].token \in Tokens
  BY DEF IndInv, WorkerInv, HasEvent, Emission
<1>2. workers[v].token = workers[w].token
  BY DEF LeaseInv, StillOwns
<1>. QED
  BY <1>1, <1>2, StorageAssumption DEF IndInv, TokensUnique

\* Nothing fails and no claim is lost by a storage call of a worker that holds
\* its row: a heartbeat is answered, a completion is written.
LEMMA HolderCalls ==
    ASSUME TimelyInv, NEW w \in Workers, StorageStep(w), faults' = 0, faults = 0
    PROVE  /\ \A v \in Workers \ {w} : workers'[v] = workers[v]
           /\ ~workers'[w].lost
           /\ workers[w].pc \in {"emit", "fulfilled"} =>
                \/ /\ workers'[w].pc = workers[w].pc
                   /\ workers'[w].cur = workers[w].cur
                   /\ workers'[w].sent = workers[w].sent
                \/ rows'[workers[w].cur].status = "published"
<1>. DEFINE me == workers[w]
<1>a. /\ TypeOK /\ WorkerInv(w) /\ LeaseInv(w) /\ IndInv /\ me \in Worker
      /\ rows \in [Msgs -> Row] /\ workers \in [Workers -> Worker] /\ ~me.lost
  BY DEF TimelyInv, IndInv, TypeOK, CopyInv
<1>b. /\ me.batch \in SUBSET Msgs /\ me.token \in Tokens \cup {NoOwner}
      /\ now + MaxSkew \in Nat /\ me.beat \in Int /\ me.beat <= now + MaxSkew
  <2>1. /\ me.batch \in SUBSET Msgs /\ me.token \in Tokens \cup {NoOwner}
    BY <1>a DEF Worker
  <2>2. me.beat <= Clock(w)
    BY <1>a DEF WorkerInv
  <2>. QED
    BY <1>a, <2>1, <2>2, TimelyTimes
<1>f. ~Fault(w)
  BY DEF Fault
<1>p. ASSUME NEW t \in Tokens \cup {NoOwner}, NEW rest \in SUBSET Msgs, now' = now,
             Executed(w, Proceed(w, t, rest))
      PROVE  (\A v \in Workers \ {w} : workers'[v] = workers[v]) /\ ~workers'[w].lost
  <2>1. Proceed(w, t, rest)
    BY <1>f, <1>p DEF Executed
  <2>. QED
    BY <1>a, <1>p, <2>1, ProceedEffect, ProceedLease
<1>1. CASE ReleaseExpiredClaims(w)
  <2>1. workers' = [workers EXCEPT ![w].pc = "claim"] /\ me.pc = "release"
    BY <1>1, <1>f DEF ReleaseExpiredClaims, Executed
  <2>2. workers'[w].lost = me.lost
    BY <1>a, <2>1 DEF Worker
  <2>. QED
    BY <1>a, <2>1, <2>2
<1>2. CASE ClaimUnpublished(w)
  <2>. DEFINE won == Oldest({ m \in Msgs : Claimable(rows[m], me.at) }, BatchSize)
  <2>1. won \in SUBSET Msgs
    BY DEF Oldest
  <2>2. \E t \in Tokens : Executed(w, Proceed(w, t, won))
    BY <1>2 DEF ClaimUnpublished
  <2>3. now' = now /\ me.pc = "claim"
    BY <1>2 DEF ClaimUnpublished
  <2>. QED
    BY <1>p, <2>1, <2>2, <2>3
<1>3. CASE RenewBeforeEmit(w)
  <2>1. me.pc = "renew" /\ now' = now
    BY <1>3 DEF RenewBeforeEmit
  <2>2. CASE workers' = [workers EXCEPT ![w] = [@ EXCEPT !.pc = "emit", !.at = 0]]
    <3>1. workers'[w].lost = me.lost
      BY <1>a, <2>2 DEF Worker
    <3>. QED
      BY <1>a, <2>1, <2>2, <3>1
  <2>3. CASE Proceed(w, me.token, me.batch)
    <3>1. \A v \in Workers \ {w} : workers'[v] = workers[v]
      BY <1>a, <1>b, <2>3, ProceedEffect
    <3>2. ~workers'[w].lost
      BY <1>a, <1>b, <2>1, <2>3, ProceedLease
    <3>. QED
      BY <2>1, <3>1, <3>2
  <2>. QED
    BY <1>3, <2>2, <2>3 DEF RenewBeforeEmit
<1>4. CASE HeartbeatRenews(w)
  <2>. DEFINE ok == CanRenew(rows[me.cur], me.token, me.beat)
  <2>1. /\ me.beat # NoTime
        /\ workers' = [workers EXCEPT ![w] = [@ EXCEPT !.beat = NoTime, !.lost = ~ok]]
    BY <1>4 DEF HeartbeatRenews
  <2>2. Emission(w) /\ me.cur \in Msgs
    BY <1>a, <2>1 DEF LeaseInv, WorkerInv, HasEvent, Emission
  <2>3. StillOwns(w) /\ rows[me.cur].until > now + MaxSkew /\ rows[me.cur].until \in Int
    BY <1>a, <2>2 DEF LeaseInv, Row, Time, NoTime
  <2>4. ok
    BY <1>b, <2>3 DEF CanRenew, StillOwns
  <2>. HIDE DEF ok
  <2>5. /\ workers'[w].pc = me.pc /\ workers'[w].cur = me.cur /\ workers'[w].sent = me.sent
        /\ workers'[w].lost = ~ok
    BY <1>a, <2>1 DEF Worker
  <2>. QED
    BY <1>a, <2>1, <2>4, <2>5
<1>5. CASE MarkPublished(w)
  <2>1. /\ me.pc = "fulfilled" /\ now' = now
        /\ rows' = [rows EXCEPT ![me.cur] =
                       IF CanComplete(@, me.token) THEN PublishedRow(@) ELSE @]
        /\ Executed(w, Proceed(w, me.token, me.batch))
    BY <1>5 DEF MarkPublished
  <2>2. Emission(w) /\ me.cur \in Msgs
    BY <1>a, <2>1 DEF WorkerInv, HasEvent, Emission
  <2>3. CanComplete(rows[me.cur], me.token)
    BY <1>a, <2>2 DEF LeaseInv, StillOwns, CanComplete, Owns
  <2>4. rows'[me.cur] = PublishedRow(rows[me.cur])
    BY <1>a, <2>1, <2>2, <2>3
  <2>5. rows'[me.cur].status = "published"
    BY <1>a, <2>2, <2>4 DEF PublishedRow, Row
  <2>. QED
    BY <1>b, <1>p, <2>1, <2>5
<1>6. CASE MarkPublishFailed(w)
  <2>1. me.pc = "rejected" /\ now' = now /\ Executed(w, Proceed(w, me.token, me.batch))
    BY <1>6 DEF MarkPublishFailed
  <2>. QED
    BY <1>b, <1>p, <2>1
<1>. QED
  BY <1>1, <1>2, <1>3, <1>4, <1>5, <1>6 DEF StorageStep

\* Steps that leave the history of a message alone and neither undo its
\* publication nor drop its emission keep its one copy.
LEMMA CopyStays ==
    ASSUME TimelyInv, faults = 0, faults' = 0, NEW m \in Msgs,
           copies'[m] = copies[m], rejects'[m] = rejects[m],
           rows[m].status = "published" => rows'[m].status = "published",
           \A w \in Workers :
               /\ workers[w].pc \in {"emit", "fulfilled"}
               /\ workers[w].cur = m
               /\ workers[w].sent
               => \/ /\ workers'[w].pc \in {"emit", "fulfilled"}
                     /\ workers'[w].cur = m
                     /\ workers'[w].sent
                  \/ rows'[m].status = "published"
    PROVE  rejects'[m] = 0 /\ copies'[m] > 0 =>
               copies'[m] = 1 /\ (rows'[m].status = "published" \/ InFlight(m)')
<1>. SUFFICES ASSUME rejects[m] = 0, copies[m] > 0
              PROVE  copies[m] = 1 /\ (rows'[m].status = "published" \/ InFlight(m)')
  OBVIOUS
<1>1. copies[m] = 1 /\ (rows[m].status = "published" \/ InFlight(m))
  BY DEF TimelyInv, CopyInv
<1>2. CASE InFlight(m)
  <2>1. PICK w \in Workers :
          workers[w].pc \in {"emit", "fulfilled"} /\ workers[w].cur = m /\ workers[w].sent
    BY <1>2 DEF InFlight
  <2>2. \/ workers'[w].pc \in {"emit", "fulfilled"} /\ workers'[w].cur = m /\ workers'[w].sent
        \/ rows'[m].status = "published"
    BY <2>1
  <2>. QED
    BY <1>1, <2>2 DEF InFlight
<1>. QED
  BY <1>1, <1>2

\* The broker takes a message that was never rejected only from the one
\* worker that holds it, and once.
LEMMA FirstCopy ==
    ASSUME TimelyInv, faults = 0, NEW w \in Workers, BrokerAccepts(w),
           rejects[workers[w].cur] = 0
    PROVE  copies[workers[w].cur] = 0
<1>. DEFINE m == workers[w].cur
<1>1. /\ IndInv /\ LeaseInv(w) /\ Emission(w) /\ ~workers[w].lost /\ ~workers[w].sent
      /\ m \in Msgs /\ copies[m] \in Nat
  <2>1. /\ workers[w].pc = "emit" /\ ~workers[w].sent
    BY DEF BrokerAccepts
  <2>2. m \in Msgs
    BY <2>1 DEF TimelyInv, IndInv, WorkerInv, HasEvent
  <2>. QED
    BY <2>1, <2>2 DEF TimelyInv, IndInv, TypeOK, CopyInv, Emission
<1>2. rows[m].status = "processing"
  BY <1>1 DEF LeaseInv, StillOwns
<1>3. ~InFlight(m)
  <2>. SUFFICES ASSUME NEW v \in Workers, workers[v].pc \in {"emit", "fulfilled"},
                       workers[v].cur = m, workers[v].sent
                PROVE  FALSE
    BY DEF InFlight
  <2>1. LeaseInv(v) /\ Emission(v) /\ ~workers[v].lost
    BY DEF TimelyInv, CopyInv, Emission
  <2>. QED
    BY <1>1, <2>1, OneHolder
<1>. QED
  BY <1>1, <1>2, <1>3 DEF TimelyInv, CopyInv

\* Every step keeps the count of copies as CopyInv says.
LEMMA CopyInd ==
    ASSUME TimelyInv, [TimelyNext]_timelyVars
    PROVE  CopyInv'
<1>a. /\ IndInv /\ TypeOK /\ TypeOK' /\ \A w \in Workers : LeaseInv(w)
      /\ faults \in Nat /\ faults' \in Nat
  BY TimelyIndInv DEF TimelyInv, IndInv, TypeOK
<1>. SUFFICES ASSUME faults' = 0
              PROVE  /\ \A w \in Workers : ~workers'[w].lost
                     /\ \A m \in Msgs :
                          rejects'[m] = 0 /\ copies'[m] > 0 =>
                              copies'[m] = 1 /\ (rows'[m].status = "published" \/ InFlight(m)')
  BY DEF CopyInv
<1>n. faults = 0
  <2>1. faults' = faults \/ faults' = faults + 1
    <3>1. ASSUME NEW m \in Msgs, PublisherStep(m) PROVE faults' = faults
      BY <3>1 DEF PublisherStep, SaveInTransaction, Commit, Rollback
    <3>2. ASSUME NEW w \in Workers, BeginRound(w) \/ BrokerStep(w) \/ HeartbeatFires(w)
                                    \/ SkipCompletion(w)
          PROVE  faults' = faults
      BY <3>2 DEF BeginRound, BrokerStep, BrokerAccepts, EmitFulfilled, EmitRejected,
                  HeartbeatFires, SkipCompletion
    <3>3. ASSUME NEW w \in Workers, RenewalFails(w) \/ Crash(w) PROVE faults' = faults + 1
      BY <3>3, Zenon DEF RenewalFails, Crash, Fault
    <3>4. ASSUME NEW w \in Workers, StorageStep(w)
          PROVE  faults' = faults \/ faults' = faults + 1
      BY <3>4 DEF StorageStep, ReleaseExpiredClaims, ClaimUnpublished, RenewBeforeEmit,
                  HeartbeatRenews, MarkPublished, MarkPublishFailed, Executed, Fault
    <3>5. CASE Tick \/ Rebase \/ UNCHANGED vars
      BY <3>5 DEF Tick, Rebase, vars
    <3>. QED
      BY <3>1, <3>2, <3>3, <3>4, <3>5, TimelyStep DEF RoundStep
  <2>. QED
    BY <1>a, <2>1
<1>l. \A w \in Workers : ~workers[w].lost /\ workers[w] \in Worker
  BY <1>a, <1>n DEF TimelyInv, CopyInv, TypeOK
<1>k. workers \in [Workers -> Worker] /\ rows \in [Msgs -> Row]
  BY <1>a DEF TypeOK
<1>1. ASSUME NEW p \in Msgs, PublisherStep(p)
      PROVE  /\ \A w \in Workers : ~workers'[w].lost
             /\ \A m \in Msgs :
                  rejects'[m] = 0 /\ copies'[m] > 0 =>
                      copies'[m] = 1 /\ (rows'[m].status = "published" \/ InFlight(m)')
  <2>1. workers' = workers /\ copies' = copies /\ rejects' = rejects
    BY <1>1 DEF PublisherStep, SaveInTransaction, Commit, Rollback
  <2>2. \A m \in Msgs : rows[m].status # "absent" => rows'[m] = rows[m]
    BY <1>1, <1>a, <1>k DEF PublisherStep, SaveInTransaction, Commit, Rollback, IndInv, RowInv
  <2>3. \A m \in Msgs : rows[m].status = "published" => rows'[m].status = "published"
    BY <2>2
  <2>. QED
    BY <1>l, <1>n, <2>1, <2>3, CopyStays
<1>2. ASSUME NEW w \in Workers, BeginRound(w) \/ HeartbeatFires(w) \/ EmitFulfilled(w)
      PROVE  /\ \A v \in Workers : ~workers'[v].lost
             /\ \A m \in Msgs :
                  rejects'[m] = 0 /\ copies'[m] > 0 =>
                      copies'[m] = 1 /\ (rows'[m].status = "published" \/ InFlight(m)')
  <2>1. rows' = rows /\ copies' = copies /\ rejects' = rejects
    BY <1>2 DEF BeginRound, HeartbeatFires, EmitFulfilled
  <2>2. /\ workers' \in { [workers EXCEPT ![w] = [@ EXCEPT !.pc = "release", !.at = Clock(w)]],
                          [workers EXCEPT ![w].beat = Clock(w)],
                          [workers EXCEPT ![w].pc = "fulfilled"] }
    BY <1>2 DEF BeginRound, HeartbeatFires, EmitFulfilled
  <2>3. /\ workers'[w].lost = workers[w].lost /\ workers'[w].cur = workers[w].cur
        /\ workers'[w].sent = workers[w].sent
        /\ \A v \in Workers \ {w} : workers'[v] = workers[v]
    BY <1>k, <1>l, <2>2 DEF Worker
  <2>4. \/ workers[w].pc = "idle"
        \/ workers'[w].pc \in {"emit", "fulfilled"}
    <3>1. CASE BeginRound(w)
      BY <3>1 DEF BeginRound
    <3>2. CASE HeartbeatFires(w)
      BY <1>l, <3>2 DEF HeartbeatFires, Worker
    <3>3. CASE EmitFulfilled(w)
      BY <1>l, <3>3 DEF EmitFulfilled, Worker
    <3>. QED
      BY <1>2, <3>1, <3>2, <3>3
  <2>5. ASSUME NEW m \in Msgs, NEW v \in Workers,
               workers[v].pc \in {"emit", "fulfilled"}, workers[v].cur = m, workers[v].sent
        PROVE  workers'[v].pc \in {"emit", "fulfilled"} /\ workers'[v].cur = m
               /\ workers'[v].sent
    <3>1. CASE v = w
      BY <2>3, <2>4, <2>5, <3>1
    <3>2. CASE v # w
      BY <2>3, <2>5, <3>2
    <3>. QED
      BY <3>1, <3>2
  <2>6. \A v \in Workers : ~workers'[v].lost
    BY <1>l, <2>3
  <2>. QED
    BY <1>n, <2>1, <2>5, <2>6, CopyStays
<1>3. ASSUME NEW w \in Workers, BrokerAccepts(w)
      PROVE  /\ \A v \in Workers : ~workers'[v].lost
             /\ \A m \in Msgs :
                  rejects'[m] = 0 /\ copies'[m] > 0 =>
                      copies'[m] = 1 /\ (rows'[m].status = "published" \/ InFlight(m)')
  <2>1. /\ workers' = [workers EXCEPT ![w].sent = TRUE] /\ workers[w].pc = "emit"
        /\ copies' = [copies EXCEPT ![workers[w].cur] = Count(@)]
        /\ rows' = rows /\ rejects' = rejects
    BY <1>3 DEF BrokerAccepts
  <2>2. /\ workers'[w].lost = workers[w].lost /\ workers'[w].cur = workers[w].cur
        /\ workers'[w].sent /\ workers'[w].pc = "emit"
        /\ \A v \in Workers \ {w} : workers'[v] = workers[v]
    BY <1>k, <1>l, <2>1 DEF Worker
  <2>3. \A v \in Workers : ~workers'[v].lost
    BY <1>l, <2>2
  <2>4. ASSUME NEW m \in Msgs, m # workers[w].cur
        PROVE  rejects'[m] = 0 /\ copies'[m] > 0 =>
                   copies'[m] = 1 /\ (rows'[m].status = "published" \/ InFlight(m)')
    <3>1. copies'[m] = copies[m]
      BY <1>a, <2>1, <2>4 DEF TypeOK
    <3>. QED
      BY <1>n, <2>1, <2>2, <2>4, <3>1, CopyStays
  <2>5. ASSUME NEW m \in Msgs, m = workers[w].cur, rejects'[m] = 0
        PROVE  copies'[m] = 1 /\ InFlight(m)'
    <3>1. copies[m] = 0
      BY <1>3, <1>n, <2>1, <2>5, FirstCopy
    <3>2. copies'[m] = 1
      BY <1>a, <2>1, <2>5, <3>1, OutboxAssumption, StorageAssumption DEF Count, TypeOK
    <3>. QED
      BY <2>2, <2>5, <3>2 DEF InFlight
  <2>. QED
    BY <2>3, <2>4, <2>5
<1>4. ASSUME NEW w \in Workers, EmitRejected(w)
      PROVE  /\ \A v \in Workers : ~workers'[v].lost
             /\ \A m \in Msgs :
                  rejects'[m] = 0 /\ copies'[m] > 0 =>
                      copies'[m] = 1 /\ (rows'[m].status = "published" \/ InFlight(m)')
  <2>1. /\ workers' = [workers EXCEPT ![w].pc = "rejected"]
        /\ rejects' = [rejects EXCEPT ![workers[w].cur] = Count(@)]
        /\ rows' = rows /\ copies' = copies
    BY <1>4 DEF EmitRejected
  <2>2. /\ workers'[w].lost = workers[w].lost
        /\ \A v \in Workers \ {w} : workers'[v] = workers[v]
    BY <1>k, <1>l, <2>1 DEF Worker
  <2>3. \A v \in Workers : ~workers'[v].lost
    BY <1>l, <2>2
  <2>4. ASSUME NEW m \in Msgs, m # workers[w].cur
        PROVE  rejects'[m] = 0 /\ copies'[m] > 0 =>
                   copies'[m] = 1 /\ (rows'[m].status = "published" \/ InFlight(m)')
    <3>1. rejects'[m] = rejects[m]
      BY <1>a, <2>1, <2>4 DEF TypeOK
    <3>. QED
      BY <1>n, <2>1, <2>2, <2>4, <3>1, CopyStays
  <2>5. ASSUME NEW m \in Msgs, m = workers[w].cur
        PROVE  rejects'[m] # 0
    <3>1. rejects[m] \in 0 .. MaxSeen /\ rejects'[m] = Count(rejects[m])
      BY <1>a, <2>1, <2>5 DEF TypeOK
    <3>. QED
      BY <3>1, OutboxAssumption, StorageAssumption DEF Count
  <2>. QED
    BY <2>3, <2>4, <2>5
<1>5. ASSUME NEW w \in Workers, SkipCompletion(w) PROVE FALSE
  BY <1>5, <1>l DEF SkipCompletion
<1>6. ASSUME NEW w \in Workers, RenewalFails(w) \/ Crash(w) PROVE FALSE
  <2>1. faults' = faults + 1
    BY <1>6, Zenon DEF RenewalFails, Crash, Fault
  <2>. QED
    BY <1>n, <2>1
<1>7. ASSUME NEW w \in Workers, StorageStep(w)
      PROVE  /\ \A v \in Workers : ~workers'[v].lost
             /\ \A m \in Msgs :
                  rejects'[m] = 0 /\ copies'[m] > 0 =>
                      copies'[m] = 1 /\ (rows'[m].status = "published" \/ InFlight(m)')
  <2>1. copies' = copies /\ rejects' = rejects
    BY <1>7 DEF StorageStep, ReleaseExpiredClaims, ClaimUnpublished, RenewBeforeEmit,
                HeartbeatRenews, MarkPublished, MarkPublishFailed
  <2>2. /\ \A v \in Workers \ {w} : workers'[v] = workers[v]
        /\ ~workers'[w].lost
        /\ workers[w].pc \in {"emit", "fulfilled"} =>
             \/ /\ workers'[w].pc = workers[w].pc
                /\ workers'[w].cur = workers[w].cur
                /\ workers'[w].sent = workers[w].sent
             \/ rows'[workers[w].cur].status = "published"
    BY <1>7, <1>n, HolderCalls
  <2>3. \A m \in Msgs : rows[m].status = "published" => rows'[m].status = "published"
    BY <1>7, <1>a, StorageEffect DEF StorageMove
  <2>4. \A v \in Workers : ~workers'[v].lost
    BY <1>l, <2>2
  <2>5. ASSUME NEW m \in Msgs, NEW v \in Workers,
               workers[v].pc \in {"emit", "fulfilled"}, workers[v].cur = m, workers[v].sent
        PROVE  \/ /\ workers'[v].pc \in {"emit", "fulfilled"}
                  /\ workers'[v].cur = m
                  /\ workers'[v].sent
               \/ rows'[m].status = "published"
    <3>1. CASE v = w
      BY <2>2, <2>5, <3>1
    <3>2. CASE v # w
      BY <2>2, <2>5, <3>2
    <3>. QED
      BY <3>1, <3>2
  <2>. QED
    BY <1>n, <2>1, <2>3, <2>4, <2>5, CopyStays
<1>8. CASE Tick \/ UNCHANGED vars
  <2>1. UNCHANGED <<rows, workers, copies, rejects>>
    BY <1>8 DEF Tick, vars
  <2>. QED
    BY <1>l, <1>n, <2>1, CopyStays
<1>9. CASE Rebase
  <2>1. copies' = copies /\ rejects' = rejects
    BY <1>9 DEF Rebase
  <2>2. /\ \A m \in Msgs : rows'[m].status = rows[m].status
        /\ \A v \in Workers :
             /\ workers'[v].pc = workers[v].pc
             /\ workers'[v].cur = workers[v].cur
             /\ workers'[v].sent = workers[v].sent
             /\ workers'[v].lost = workers[v].lost
    BY <1>a, <1>9, RebaseEffect
  <2>. QED
    BY <1>l, <1>n, <2>1, <2>2, CopyStays
<1>. QED
  BY <1>1, <1>2, <1>3, <1>4, <1>5, <1>6, <1>7, <1>8, <1>9, TimelyStep DEF RoundStep, BrokerStep

------------------------------------------------------------------------------
(* Safety                                                                  *)

\* The initial states satisfy TimelyInv.
LEMMA TimelyInitInv == TimelyInit => TimelyInv
<1>. SUFFICES ASSUME TimelyInit PROVE TimelyInv
  OBVIOUS
<1>1. IndInv
  BY InitInd DEF TimelyInit
<1>2. \A w \in Workers : workers[w] = Idle
  BY DEF TimelyInit, Init
<1>3. \A w \in Workers : LeaseInv(w) /\ ~workers[w].lost
  BY <1>2 DEF LeaseInv, Emission, Idle
<1>4. \A m \in Msgs : copies[m] = 0
  BY DEF TimelyInit, Init
<1>5. CopyInv
  BY <1>3, <1>4 DEF CopyInv
<1>. QED
  BY <1>1, <1>3, <1>5 DEF TimelyInv

\* The invariant that carries the timed claim protocol: who emits without
\* having learnt otherwise holds the row, and holds it long enough.
THEOREM TimelyInvariantHolds == TimelySpec => []TimelyInv
<1>1. TimelyInv /\ [TimelyNext]_timelyVars => TimelyInv'
  BY TimelyIndInv, LeaseInd, CopyInd DEF TimelyInv
<1>. QED
  BY <1>1, TimelyInitInv, PTL DEF TimelySpec

\* Two workers emit the same message at the same time only if one of them
\* already knows that its claim is lost.
THEOREM EmissionsDoNotOverlap == TimelySpec => []NoOverlappingEmission
<1>1. TimelyInv => NoOverlappingEmission
  BY OneHolder DEF TimelyInv, NoOverlappingEmission, Emission
<1>. QED
  BY <1>1, TimelyInvariantHolds, PTL

\* A message reaches the broker twice only after an emission was rejected or
\* something failed.
THEOREM DuplicatesHaveACause == TimelySpec => []DuplicateHasCause
<1>1. ASSUME TimelyInv PROVE DuplicateHasCause
  <2>1. faults \in Nat /\ \A m \in Msgs : copies[m] \in Nat /\ rejects[m] \in Nat
    BY <1>1 DEF TimelyInv, IndInv, TypeOK
  <2>. QED
    BY <1>1, <2>1 DEF TimelyInv, CopyInv, DuplicateHasCause
<1>. QED
  BY <1>1, TimelyInvariantHolds, PTL

\* The timed outbox, whose clock never stops, implements OutboxPromise too.
THEOREM TimelyKeepsItsPromise == TimelySpec => ImplementsPromise
<1>1. ASSUME TimelyInv, [TimelyNext]_timelyVars
      PROVE  [Promise!PromiseNext]_(Promise!promiseVars)
  <2>1. CASE Rebase
    <3>1. \A m \in Msgs : rows'[m].status = rows[m].status
      BY <1>1, <2>1, RebaseEffect DEF TimelyInv, IndInv
    <3>2. \A m \in Msgs : Phase(m)' = Phase(m)
      BY <3>1 DEF Phase
    <3>. QED
      BY <2>1, <3>2, StutterMapped DEF Rebase
  <2>2. CASE [Next]_vars
    BY <1>1, <2>2, StepMapped DEF TimelyInv
  <2>. QED
    BY <1>1, <2>1, <2>2, TimelyStep DEF Next
<1>2. TimelyInit => Promise!PromiseInit
  BY InitMapped DEF TimelyInit
<1>. QED
  BY <1>1, <1>2, TimelyInvariantHolds, PTL
  DEF TimelySpec, ImplementsPromise, Promise!PromiseSpec
==============================================================================
