------------------------- MODULE OutboxDirectProofs --------------------------
(***************************************************************************)
(* Theorems about OutboxDirect: what the fenced protocol still guarantees  *)
(* when publish() calls and operators write rows without a claim, for      *)
(* every number of messages and workers, every lease, skew and mode.       *)
(***************************************************************************)
EXTENDS OutboxDirect, OutboxProofs

------------------------------------------------------------------------------
(* Types                                                                   *)

\* The states of a call.
LEMMA CallsTyped ==
    ASSUME NEW m \in Msgs
    PROVE  NoCall \in Call /\ Emitting(m) \in Call
BY DEF NoCall, Emitting, Call, NoMsg

\* A call moves on and keeps its message.
LEMMA CallMoves ==
    ASSUME NEW call \in Call
    PROVE  /\ \A pc \in {"none", "emit", "fulfilled", "rejected", "published", "gaveup"} :
                /\ [call EXCEPT !.pc = pc] \in Call
                /\ [call EXCEPT !.pc = pc].pc = pc
                /\ [call EXCEPT !.pc = pc].cur = call.cur
                /\ [call EXCEPT !.pc = pc].sent = call.sent
           /\ [call EXCEPT !.sent = TRUE] \in Call
           /\ [call EXCEPT !.sent = TRUE].pc = call.pc
           /\ [call EXCEPT !.sent = TRUE].cur = call.cur
           /\ [call EXCEPT !.sent = TRUE].sent
BY DEF Call

\* The steps of schedulers and of time are steps of the outbox.
LEMMA DispatchIsNext ==
    ASSUME DispatchStep
    PROVE  Next /\ UNCHANGED <<direct, operator, forced>>
BY DEF DispatchStep, Next

\* The initial states are typed.
LEMMA DirectInitTyped == DirectInit => DirectTypeOK
BY InitTyped, CallsTyped DEF DirectInit, DirectTypeOK, NoCall, Call, NoMsg

\* The state stays well typed.
LEMMA DirectTyped == DirectTypeOK /\ [DirectNext]_directVars => DirectTypeOK'
<1>. SUFFICES ASSUME DirectTypeOK, [DirectNext]_directVars PROVE DirectTypeOK'
  OBVIOUS
<1>. USE DEF DirectTypeOK
<1>a. /\ TypeOK /\ rows \in [Msgs -> Row] /\ copies \in [Msgs -> 0 .. MaxSeen]
      /\ rejects \in [Msgs -> 0 .. MaxSeen] /\ faults \in 0 .. MaxFaults /\ now \in 0 .. MaxClock
      /\ txn \in [Msgs -> {"none", "open", "committed", "rolledback"}]
      /\ PendingRow \in Row /\ MaxFaults \in Nat /\ MaxClock \in Nat /\ MaxSkew \in Nat
  BY OutboxAssumption DEF TypeOK, PendingRow, AbsentRow, Row, Status, Time, NoTime
<1>b. \A m \in Msgs : PublishedRow(rows[m]) \in Row
  BY <1>a DEF PublishedRow, Row, Status, Time, NoTime
<1>1. ASSUME NEW m \in Msgs, PublishStep(m) PROVE DirectTypeOK'
  <2>a. direct[m] \in Call
    OBVIOUS
  <2>1. CASE PublishPlain(m)
    BY <1>a, <2>1, CallsTyped DEF PublishPlain, TypeOK
  <2>2. CASE PublishInTransaction(m)
    <3>1. TypeOK'
      BY <1>a, <2>2 DEF PublishInTransaction, SaveInTransaction, TypeOK
    <3>2. direct' \in [Msgs -> Call]
      BY <2>2, CallsTyped DEF PublishInTransaction
    <3>. QED
      BY <2>2, <3>1, <3>2 DEF PublishInTransaction
  <2>3. CASE EndTransaction(m)
    <3>1. TypeOK'
      BY <1>a, <2>3 DEF EndTransaction, Commit, Rollback, TypeOK
    <3>. QED
      BY <2>3, <3>1 DEF EndTransaction
  <2>4. CASE DirectAccepted(m)
    <3>1. direct' \in [Msgs -> Call]
      BY <2>a, <2>4, CallMoves DEF DirectAccepted
    <3>2. copies' \in [Msgs -> 0 .. MaxSeen]
      BY <1>a, <2>4, CountTyped DEF DirectAccepted
    <3>. QED
      BY <1>a, <2>4, <3>1, <3>2 DEF DirectAccepted, TypeOK
  <2>5. CASE DirectFulfilled(m)
    <3>1. direct' \in [Msgs -> Call]
      BY <2>a, <2>5, CallMoves DEF DirectFulfilled
    <3>. QED
      BY <1>a, <2>5, <3>1 DEF DirectFulfilled, TypeOK, vars
  <2>6. CASE DirectRejected(m)
    <3>1. direct' \in [Msgs -> Call]
      BY <2>a, <2>6, CallMoves DEF DirectRejected
    <3>2. rejects' \in [Msgs -> 0 .. MaxSeen]
      BY <1>a, <2>6, CountTyped DEF DirectRejected
    <3>. QED
      BY <1>a, <2>6, <3>1, <3>2 DEF DirectRejected, TypeOK
  <2>7. CASE DirectMarkPublished(m)
    <3>1. direct' \in [Msgs -> Call]
      <4>1. PICK pc \in {"published", "rejected"} : direct' = [direct EXCEPT ![m].pc = pc]
        BY <2>7 DEF DirectMarkPublished
      <4>. QED
        BY <2>a, <4>1, CallMoves
    <3>2. rows' \in [Msgs -> Row]
      BY <1>a, <1>b, <2>7 DEF DirectMarkPublished
    <3>3. faults' \in 0 .. MaxFaults
      BY <1>a, <2>7 DEF DirectMarkPublished
    <3>. QED
      BY <1>a, <2>7, <3>1, <3>2, <3>3 DEF DirectMarkPublished, TypeOK
  <2>8. CASE DirectMarkFailed(m)
    <3>1. direct' \in [Msgs -> Call]
      BY <2>a, <2>8, CallMoves DEF DirectMarkFailed
    <3>2. PICK d \in ExpJitter(0), t \in SomeClock :
             rows' = [rows EXCEPT ![m] =
                         IF CanComplete(@, NoOwner) THEN FailedRow(@, t + d) ELSE @]
      BY <2>8 DEF DirectMarkFailed
    <3>3. d \in Nat /\ t \in Nat
      BY <1>a, BackoffAssumption DEF ExpJitter, SomeClock
    <3>4. FailedRow(rows[m], t + d) \in Row
      BY <1>a, <3>3, FailedRowTyped
    <3>5. rows' \in [Msgs -> Row]
      BY <1>a, <3>2, <3>4
    <3>. QED
      BY <1>a, <2>8, <3>1, <3>5 DEF DirectMarkFailed, TypeOK
  <2>9. CASE DirectFails(m)
    <3>1. direct' \in [Msgs -> Call]
      <4>1. PICK pc \in {"gaveup", "rejected"} : direct' = [direct EXCEPT ![m].pc = pc]
        BY <2>9 DEF DirectFails
      <4>. QED
        BY <2>a, <4>1, CallMoves
    <3>2. faults' \in 0 .. MaxFaults
      BY <1>a, <2>9 DEF DirectFails
    <3>. QED
      BY <1>a, <2>9, <3>1, <3>2 DEF DirectFails, TypeOK
  <2>. QED
    BY <1>1, <2>1, <2>2, <2>3, <2>4, <2>5, <2>6, <2>7, <2>8, <2>9 DEF PublishStep
<1>2. CASE OperatorStep
  <2>a. operator \in Call /\ NoCall \in Call
    BY DEF NoCall, Call, NoMsg
  <2>1. ASSUME NEW m \in Msgs, RetryOutbox(m) PROVE DirectTypeOK'
    BY <1>a, <2>1, CallsTyped DEF RetryOutbox, vars, TypeOK
  <2>2. ASSUME NEW m \in Msgs, MarkOutboxPublished(m) PROVE DirectTypeOK'
    BY <1>a, <1>b, <2>2 DEF MarkOutboxPublished, TypeOK
  <2>3. CASE OperatorAccepted
    <3>1. operator' \in Call
      BY <2>a, <2>3, CallMoves DEF OperatorAccepted
    <3>2. copies' \in [Msgs -> 0 .. MaxSeen]
      BY <1>a, <2>3, CountTyped DEF OperatorAccepted
    <3>. QED
      BY <1>a, <2>3, <3>1, <3>2 DEF OperatorAccepted, TypeOK
  <2>4. CASE OperatorFulfilled
    <3>1. operator' \in Call
      BY <2>a, <2>4, CallMoves DEF OperatorFulfilled
    <3>. QED
      BY <1>a, <2>4, <3>1 DEF OperatorFulfilled, vars, TypeOK
  <2>5. CASE OperatorRejected
    BY <1>a, <2>a, <2>5 DEF OperatorRejected, vars, TypeOK
  <2>6. CASE OperatorMarkPublished
    <3>1. rows' \in [Msgs -> Row]
      BY <1>a, <1>b, <2>6 DEF OperatorMarkPublished
    <3>. QED
      BY <1>a, <2>a, <2>6, <3>1 DEF OperatorMarkPublished, TypeOK
  <2>. QED
    BY <1>2, <2>1, <2>2, <2>3, <2>4, <2>5, <2>6 DEF OperatorStep
<1>3. CASE DispatchStep
  <2>1. TypeOK'
    BY <1>a, <1>3, DispatchIsNext, NextTyped
  <2>. QED
    BY <1>3, <2>1, DispatchIsNext
<1>4. CASE UNCHANGED directVars
  BY <1>4 DEF directVars, vars, TypeOK
<1>. QED
  BY <1>1, <1>2, <1>3, <1>4 DEF DirectNext

------------------------------------------------------------------------------
(* Workers among direct writers                                            *)

\* Seen through status and owner, what a storage call of w does to a row.
DirectMove(w, m) ==
    \/ rows'[m].status = rows[m].status /\ rows'[m].owner = rows[m].owner
    \/ /\ \/ rows[m].status \in {"pending", "failed"}
          \/ rows[m].status = "processing" /\ rows[m].until <= now + MaxSkew
       /\ rows'[m].status \in {"failed", "processing"}
    \/ /\ rows[m].status = "processing" /\ Completed(w, m)
       /\ \/ rows'[m].status = "published" /\ copies[m] > 0
          \/ rows'[m].status \in {"failed", "dead_letter"}

\* What a worker's statement may do to one row.
LEMMA DirectEffect ==
    ASSUME DirectTypeOK, NEW w \in Workers, DirectWorkerInv(w), StorageStep(w), NEW m \in Msgs
    PROVE  DirectMove(w, m)
<1>. DEFINE me == workers[w]
<1>a. /\ TypeOK /\ me \in Worker /\ rows[m] \in Row /\ rows \in [Msgs -> Row]
      /\ now \in Nat /\ Clock(w) \in Nat /\ Clock(w) <= now + MaxSkew /\ MaxSkew \in Nat
  BY ClockTyped, OutboxAssumption DEF DirectTypeOK, TypeOK
<1>b. me.at \in Nat /\ me.at <= now + MaxSkew
  BY <1>a DEF Worker, DirectWorkerInv
<1>c. HasEvent(w) => me.token \in Tokens /\ me.cur \in Msgs
  BY DEF DirectWorkerInv
<1>k. ASSUME rows'[m] = rows[m] PROVE DirectMove(w, m)
  BY <1>k DEF DirectMove
<1>e. ASSUME Expired(rows[m], me.at)
      PROVE  rows[m].status = "processing" /\ rows[m].until <= now + MaxSkew
  BY <1>a, <1>b, <1>e DEF Expired, Row, Time, NoTime
<1>f. ASSUME Settled(w), me.cur = m, CanComplete(rows[m], me.token)
      PROVE  rows[m].status = "processing" /\ Completed(w, m)
  <2>1. me.token \in Tokens
    BY <1>c, <1>f DEF Settled, HasEvent
  <2>. QED
    BY <1>f, <2>1, OwnsByToken DEF Completed
<1>1. CASE ReleaseExpiredClaims(w)
  <2>1. rows'[m] = ReleasedRow(rows[m], me.at)
    BY <1>1 DEF ReleaseExpiredClaims
  <2>2. CASE Expired(rows[m], me.at)
    <3>1. rows'[m].status = "failed"
      BY <1>a, <2>1, <2>2 DEF ReleasedRow, Row
    <3>. QED
      BY <1>e, <2>2, <3>1 DEF DirectMove
  <2>3. CASE ~Expired(rows[m], me.at)
    BY <1>k, <2>1, <2>3 DEF ReleasedRow
  <2>. QED
    BY <2>2, <2>3
<1>2. CASE ClaimUnpublished(w)
  <2>. DEFINE won == Oldest({ k \in Msgs : Claimable(rows[k], me.at) }, BatchSize)
  <2>1. PICK t \in Tokens :
          rows' = [k \in Msgs |->
                IF k \in won THEN ClaimedRow(rows[k], t, me.at + Lease) ELSE rows[k]]
    BY <1>2 DEF ClaimUnpublished
  <2>2. CASE m \in won
    <3>1. Claimable(rows[m], me.at)
      BY <2>2 DEF Oldest
    <3>2. rows'[m].status = "processing"
      BY <1>a, <2>1, <2>2 DEF ClaimedRow, Row
    <3>. QED
      BY <1>e, <3>1, <3>2 DEF Claimable, DirectMove
  <2>3. CASE m \notin won
    BY <1>k, <2>1, <2>3
  <2>. QED
    BY <2>2, <2>3
<1>3. CASE RenewBeforeEmit(w)
  <2>1. CASE rows' = [rows EXCEPT ![me.cur] = RenewedRow(@, me.at + Lease)]
    <3>1. CASE me.cur = m
      BY <1>a, <2>1, <3>1 DEF RenewedRow, Row, DirectMove
    <3>2. CASE me.cur # m
      BY <1>a, <1>k, <2>1, <3>2
    <3>. QED
      BY <3>1, <3>2
  <2>. QED
    BY <1>3, <1>k, <2>1 DEF RenewBeforeEmit
<1>4. CASE HeartbeatRenews(w)
  <2>1. \/ rows' = [rows EXCEPT ![me.cur] = RenewedRow(@, me.beat + Lease)]
        \/ rows' = [rows EXCEPT ![me.cur] = @]
    BY <1>4 DEF HeartbeatRenews, Renewed
  <2>2. CASE me.cur = m /\ rows' = [rows EXCEPT ![me.cur] = RenewedRow(@, me.beat + Lease)]
    BY <1>a, <2>2 DEF RenewedRow, Row, DirectMove
  <2>3. CASE me.cur # m \/ rows' = [rows EXCEPT ![me.cur] = @]
    BY <1>a, <1>k, <2>1, <2>3
  <2>. QED
    BY <2>1, <2>2, <2>3
<1>5. CASE MarkPublished(w)
  <2>1. /\ rows' = [rows EXCEPT ![me.cur] = IF CanComplete(@, me.token) THEN PublishedRow(@) ELSE @]
        /\ me.pc = "fulfilled" /\ Settled(w)
    BY <1>5 DEF MarkPublished, Settled
  <2>2. CASE me.cur = m /\ CanComplete(rows[m], me.token)
    <3>1. rows'[m] = PublishedRow(rows[m])
      BY <1>a, <2>1, <2>2
    <3>2. rows'[m].status = "published"
      BY <1>a, <3>1 DEF PublishedRow, Row
    <3>3. copies[m] > 0
      BY <2>1, <2>2 DEF DirectWorkerInv, HasEvent
    <3>. QED
      BY <1>f, <2>1, <2>2, <3>2, <3>3 DEF DirectMove
  <2>3. CASE ~(me.cur = m /\ CanComplete(rows[m], me.token))
    BY <1>a, <1>k, <2>1, <2>3
  <2>. QED
    BY <2>2, <2>3
<1>6. CASE MarkPublishFailed(w)
  <2>1. PICK due : rows' = [rows EXCEPT ![me.cur] =
                               IF CanComplete(@, me.token) THEN FailedRow(@, due) ELSE @]
    BY <1>6 DEF MarkPublishFailed
  <2>2. CASE me.cur = m /\ CanComplete(rows[m], me.token)
    <3>1. rows'[m] = FailedRow(rows[m], due)
      BY <1>a, <2>1, <2>2
    <3>2. rows'[m].status \in {"failed", "dead_letter"}
      BY <1>a, <3>1 DEF FailedRow, Row
    <3>3. Settled(w)
      BY <1>6 DEF MarkPublishFailed, Settled
    <3>. QED
      BY <1>f, <2>2, <3>2, <3>3 DEF DirectMove
  <2>3. CASE ~(me.cur = m /\ CanComplete(rows[m], me.token))
    BY <1>a, <1>k, <2>1, <2>3
  <2>. QED
    BY <2>2, <2>3
<1>. QED
  BY <1>1, <1>2, <1>3, <1>4, <1>5, <1>6 DEF StorageStep

\* A worker that does not move keeps its invariant: counted copies stay, and
\* time goes on.
LEMMA DirectBystander ==
    ASSUME TypeOK, TypeOK', NEW v \in Workers, DirectWorkerInv(v), workers'[v] = workers[v],
           now' >= now, \A m \in Msgs : copies'[m] >= copies[m]
    PROVE  DirectWorkerInv(v)'
<1>1. /\ Clock(v) \in Nat /\ Clock(v)' \in Nat /\ Clock(v)' >= Clock(v)
      /\ workers[v].at \in Nat /\ \A m \in Msgs : copies[m] \in Nat /\ copies'[m] \in Nat
  <2>1. now \in Nat /\ now' \in Nat /\ workers[v] \in Worker
    BY DEF TypeOK
  <2>2. Clock(v) \in Nat /\ Clock(v)' \in Nat /\ Clock(v)' >= Clock(v)
    BY <2>1, OutboxAssumption DEF Clock
  <2>. QED
    BY <2>1, <2>2 DEF TypeOK, Worker
<1>2. HasEvent(v)' <=> HasEvent(v)
  BY DEF HasEvent
<1>3. workers'[v].at <= Clock(v)'
  BY <1>1 DEF DirectWorkerInv
<1>4. HasEvent(v) /\ workers[v].sent => copies'[workers[v].cur] > 0
  BY <1>1 DEF DirectWorkerInv
<1>. QED
  BY <1>2, <1>3, <1>4 DEF DirectWorkerInv

\* Nor is it lost by one that gives its event up, or goes on with its batch.
LEMMA DirectProceeds ==
    ASSUME TypeOK, now' = now, NEW w \in Workers, NEW token \in Tokens,
           NEW rest \in SUBSET Msgs, Fault(w) \/ Proceed(w, token, rest)
    PROVE  /\ \A v \in Workers \ {w} : workers'[v] = workers[v]
           /\ DirectWorkerInv(w)'
<1>1. Clock(w)' = Clock(w) /\ Clock(w) \in Nat
  BY ClockTyped DEF Clock, TypeOK
<1>2. CASE Fault(w)
  <2>1. (\A v \in Workers \ {w} : workers'[v] = workers[v]) /\ workers'[w] = Idle
    BY <1>2, FaultEffect
  <2>. QED
    BY <1>1, <2>1 DEF DirectWorkerInv, HasEvent, Idle
<1>3. CASE Proceed(w, token, rest)
  <2>1. /\ \A v \in Workers \ {w} : workers'[v] = workers[v]
        /\ workers'[w].at <= Clock(w) /\ workers'[w].beat = NoTime /\ ~workers'[w].sent
        /\ \/ workers'[w].pc = "idle"
           \/ /\ workers'[w].pc = "renew" /\ workers'[w].token = token
              /\ workers'[w].cur \in rest
    BY <1>3, ProceedEffect
  <2>2. workers'[w].pc \in {"idle", "renew"}
    BY <2>1
  <2>. QED
    BY <1>1, <2>1, <2>2 DEF DirectWorkerInv, HasEvent
<1>. QED
  BY <1>2, <1>3

\* A worker's own step.
LEMMA DirectWorkerStep ==
    ASSUME TypeOK, NEW w \in Workers, DirectWorkerInv(w),
           BeginRound(w) \/ RoundStep(w) \/ RenewalFails(w) \/ Crash(w)
    PROVE  /\ \A v \in Workers \ {w} : workers'[v] = workers[v]
           /\ DirectWorkerInv(w)'
           /\ txn' = txn /\ now' = now
           /\ \A m \in Msgs : copies'[m] >= copies[m]
<1>. DEFINE me == workers[w]
<1>a. /\ me \in Worker /\ workers \in [Workers -> Worker] /\ Clock(w) \in Nat
      /\ me.at \in Nat /\ me.batch \in SUBSET Msgs /\ NoTime <= Clock(w)
      /\ \A m \in Msgs : copies[m] \in 0 .. MaxSeen
  <2>1. me \in Worker /\ workers \in [Workers -> Worker] /\ Clock(w) \in Nat
        /\ \A m \in Msgs : copies[m] \in 0 .. MaxSeen
    BY ClockTyped DEF TypeOK
  <2>. QED
    BY <2>1 DEF Worker, NoTime
<1>t. HasEvent(w) => me.token \in Tokens
  BY DEF DirectWorkerInv
<1>. DEFINE Goal == /\ \A v \in Workers \ {w} : workers'[v] = workers[v]
                    /\ DirectWorkerInv(w)'
                    /\ txn' = txn /\ now' = now
                    /\ \A m \in Msgs : copies'[m] >= copies[m]
<1>g. ASSUME UNCHANGED <<txn, now, copies>>,
             \/ Fault(w)
             \/ HasEvent(w) /\ Proceed(w, me.token, me.batch)
             \/ \E t \in Tokens, rest \in SUBSET Msgs : Proceed(w, t, rest)
      PROVE  Goal
  <2>1. \A m \in Msgs : copies'[m] >= copies[m]
    BY <1>a, <1>g
  <2>2. CASE Fault(w)
    <3>2. (\A v \in Workers \ {w} : workers'[v] = workers[v]) /\ workers'[w] = Idle
      BY <2>2, FaultEffect
    <3>3. Clock(w)' = Clock(w)
      BY <1>g DEF Clock
    <3>4. DirectWorkerInv(w)'
      BY <1>a, <3>2, <3>3 DEF DirectWorkerInv, HasEvent, Idle
    <3>. QED
      BY <1>g, <2>1, <3>2, <3>4
  <2>3. ASSUME NEW t \in Tokens, NEW rest \in SUBSET Msgs, Proceed(w, t, rest) PROVE Goal
    BY <1>g, <2>1, <2>3, DirectProceeds
  <2>. QED
    BY <1>a, <1>t, <1>g, <2>2, <2>3
<1>h. ASSUME UNCHANGED <<txn, now>>, NEW worker, workers' = [workers EXCEPT ![w] = worker],
             worker.token = me.token, worker.cur = me.cur,
             worker.at <= Clock(w), worker.beat # NoTime => HasEvent(w),
             HasEvent(w) <=> worker.pc \in {"renew", "emit", "fulfilled", "rejected"},
             \A m \in Msgs : copies'[m] \in Nat /\ copies'[m] >= copies[m],
             worker.sent => me.sent \/ (me.cur \in Msgs => copies'[me.cur] > 0),
             worker.pc = "fulfilled" => worker.sent
      PROVE  Goal
  <2>1. (\A v \in Workers \ {w} : workers'[v] = workers[v]) /\ workers'[w] = worker
    BY <1>a, <1>h
  <2>2. Clock(w)' = Clock(w)
    BY <1>h DEF Clock
  <2>3. HasEvent(w)' <=> HasEvent(w)
    BY <1>h, <2>1 DEF HasEvent
  <2>4. HasEvent(w) /\ worker.sent => copies'[me.cur] > 0
    BY <1>a, <1>h DEF DirectWorkerInv
  <2>5. DirectWorkerInv(w)'
    BY <1>h, <2>1, <2>2, <2>3, <2>4 DEF DirectWorkerInv
  <2>. QED
    BY <1>h, <2>1, <2>5
<1>. SUFFICES Goal
  OBVIOUS
<1>. HIDE DEF Goal
<1>s. ASSUME copies' = copies PROVE \A m \in Msgs : copies'[m] \in Nat /\ copies'[m] >= copies[m]
  BY <1>a, <1>s
<1>1. CASE BeginRound(w)
  <2>. DEFINE worker == [me EXCEPT !.pc = "release", !.at = Clock(w)]
  <2>1. /\ worker.token = me.token /\ worker.cur = me.cur /\ worker.sent = me.sent
        /\ worker.at = Clock(w) /\ worker.beat = me.beat /\ worker.pc = "release"
    BY <1>a DEF Worker
  <2>2. workers' = [workers EXCEPT ![w] = worker] /\ UNCHANGED <<txn, now, copies>> /\ me.pc = "idle"
    BY <1>1 DEF BeginRound
  <2>. HIDE DEF worker
  <2>3. me.beat = NoTime /\ ~HasEvent(w)
    BY <2>2 DEF DirectWorkerInv, HasEvent
  <2>4. /\ worker.at <= Clock(w)
        /\ worker.beat # NoTime => HasEvent(w)
        /\ HasEvent(w) <=> worker.pc \in {"renew", "emit", "fulfilled", "rejected"}
        /\ worker.pc = "fulfilled" => worker.sent
    BY <1>a, <2>1, <2>3
  <2>. QED
    BY <1>h, <1>s, <2>1, <2>2, <2>4
<1>2. CASE StorageStep(w)
  <2>1. UNCHANGED <<txn, now, copies>>
    BY <1>2 DEF StorageStep, ReleaseExpiredClaims, ClaimUnpublished, RenewBeforeEmit,
                HeartbeatRenews, MarkPublished, MarkPublishFailed
  <2>2. me.at <= Clock(w) /\ (me.beat # NoTime => HasEvent(w))
        /\ (me.pc = "fulfilled" => me.sent)
    BY DEF DirectWorkerInv
  <2>3. CASE me.pc = "release" /\ workers' = [workers EXCEPT ![w].pc = "claim"]
    <3>. DEFINE worker == [me EXCEPT !.pc = "claim"]
    <3>1. /\ worker.token = me.token /\ worker.cur = me.cur /\ worker.sent = me.sent
          /\ worker.at = me.at /\ worker.beat = me.beat /\ worker.pc = "claim"
      BY <1>a DEF Worker
    <3>2. workers' = [workers EXCEPT ![w] = worker]
      BY <2>3
    <3>. HIDE DEF worker
    <3>3. ~HasEvent(w)
      BY <2>3 DEF HasEvent
    <3>. QED
      BY <1>h, <1>s, <2>1, <2>2, <3>1, <3>2, <3>3
  <2>4. CASE me.pc = "renew" /\ workers' = [workers EXCEPT ![w] = [@ EXCEPT !.pc = "emit", !.at = 0]]
    <3>. DEFINE worker == [me EXCEPT !.pc = "emit", !.at = 0]
    <3>1. /\ worker.token = me.token /\ worker.cur = me.cur /\ worker.sent = me.sent
          /\ worker.at = 0 /\ worker.beat = me.beat /\ worker.pc = "emit"
      BY <1>a DEF Worker
    <3>2. workers' = [workers EXCEPT ![w] = worker]
      BY <2>4
    <3>. HIDE DEF worker
    <3>3. HasEvent(w) /\ 0 <= Clock(w)
      BY <1>a, <2>4 DEF HasEvent
    <3>. QED
      BY <1>h, <1>s, <2>1, <2>2, <3>1, <3>2, <3>3
  <2>5. ASSUME NEW l \in BOOLEAN, me.beat # NoTime,
               workers' = [workers EXCEPT ![w] = [@ EXCEPT !.beat = NoTime, !.lost = l]]
        PROVE  Goal
    <3>. DEFINE worker == [me EXCEPT !.beat = NoTime, !.lost = l]
    <3>1. /\ worker.token = me.token /\ worker.cur = me.cur /\ worker.sent = me.sent
          /\ worker.at = me.at /\ worker.beat = NoTime /\ worker.pc = me.pc
      BY <1>a DEF Worker
    <3>2. workers' = [workers EXCEPT ![w] = worker]
      BY <2>5
    <3>. HIDE DEF worker
    <3>3. HasEvent(w) <=> me.pc \in {"renew", "emit", "fulfilled", "rejected"}
      BY DEF HasEvent
    <3>. QED
      BY <1>h, <1>s, <2>1, <2>2, <3>1, <3>2, <3>3
  <2>6. CASE \/ Fault(w)
             \/ HasEvent(w) /\ Proceed(w, me.token, me.batch)
             \/ \E t \in Tokens, rest \in SUBSET Msgs :
                   /\ Fresh(t)
                   /\ \A m \in rest : rows[m].status # "absent"
                   /\ Proceed(w, t, rest)
    BY <1>g, <2>1, <2>6
  <2>. QED
    BY <1>2, <2>3, <2>4, <2>5, <2>6, StorageReply
<1>3. CASE BrokerAccepts(w)
  <2>. DEFINE worker == [me EXCEPT !.sent = TRUE]
  <2>1. /\ worker.token = me.token /\ worker.cur = me.cur /\ worker.sent
        /\ worker.at = me.at /\ worker.beat = me.beat /\ worker.pc = me.pc
    BY <1>a DEF Worker
  <2>2. /\ workers' = [workers EXCEPT ![w] = worker] /\ UNCHANGED <<txn, now>> /\ me.pc = "emit"
        /\ copies' = [copies EXCEPT ![me.cur] = Count(@)]
    BY <1>3 DEF BrokerAccepts
  <2>. HIDE DEF worker
  <2>3. /\ \A m \in Msgs : copies'[m] \in Nat /\ copies'[m] >= copies[m]
        /\ me.cur \in Msgs => copies'[me.cur] > 0
    <3>1. copies \in [Msgs -> 0 .. MaxSeen] /\ MaxSeen \in Nat /\ MaxSeen > 0
      BY OutboxAssumption, StorageAssumption DEF TypeOK
    <3>. QED
      BY <2>2, <3>1, CountTyped
  <2>4. me.at <= Clock(w) /\ (me.beat # NoTime => HasEvent(w)) /\ HasEvent(w)
    BY <2>2 DEF DirectWorkerInv, HasEvent
  <2>. QED
    BY <1>h, <2>1, <2>2, <2>3, <2>4
<1>4. CASE EmitFulfilled(w) \/ EmitRejected(w)
  <2>1. PICK pc \in {"fulfilled", "rejected"} : workers' = [workers EXCEPT ![w].pc = pc]
                                               /\ (pc = "fulfilled" => me.sent)
    BY <1>4 DEF EmitFulfilled, EmitRejected
  <2>. DEFINE worker == [me EXCEPT !.pc = pc]
  <2>2. /\ worker.token = me.token /\ worker.cur = me.cur /\ worker.sent = me.sent
        /\ worker.at = me.at /\ worker.beat = me.beat /\ worker.pc = pc
    BY <1>a DEF Worker
  <2>3. workers' = [workers EXCEPT ![w] = worker] /\ UNCHANGED <<txn, now, copies>> /\ me.pc = "emit"
    BY <1>4, <2>1 DEF EmitFulfilled, EmitRejected
  <2>. HIDE DEF worker
  <2>4. me.at <= Clock(w) /\ (me.beat # NoTime => HasEvent(w)) /\ HasEvent(w)
    BY <2>3 DEF DirectWorkerInv, HasEvent
  <2>. QED
    BY <1>h, <1>s, <2>1, <2>2, <2>3, <2>4
<1>5. CASE HeartbeatFires(w)
  <2>. DEFINE worker == [me EXCEPT !.beat = Clock(w)]
  <2>1. /\ worker.token = me.token /\ worker.cur = me.cur /\ worker.sent = me.sent
        /\ worker.at = me.at /\ worker.pc = me.pc
    BY <1>a DEF Worker
  <2>2. workers' = [workers EXCEPT ![w] = worker] /\ UNCHANGED <<txn, now, copies>> /\ me.pc = "emit"
    BY <1>5 DEF HeartbeatFires
  <2>. HIDE DEF worker
  <2>3. me.at <= Clock(w) /\ HasEvent(w)
    BY <2>2 DEF DirectWorkerInv, HasEvent
  <2>. QED
    BY <1>h, <1>s, <2>1, <2>2, <2>3
<1>6. CASE SkipCompletion(w)
  <2>1. HasEvent(w) /\ Proceed(w, me.token, me.batch) /\ UNCHANGED <<txn, now, copies>>
    BY <1>6 DEF SkipCompletion, Settled, HasEvent
  <2>. QED
    BY <1>g, <2>1
<1>7. CASE RenewalFails(w)
  <2>1. UNCHANGED <<txn, now, copies>>
    BY <1>7 DEF RenewalFails
  <2>2. CASE me.pc = "renew" /\ Proceed(w, me.token, me.batch)
    BY <1>g, <2>1, <2>2 DEF HasEvent
  <2>3. CASE workers' = [workers EXCEPT ![w] = [@ EXCEPT !.beat = NoTime, !.lost = TRUE]]
    <3>. DEFINE worker == [me EXCEPT !.beat = NoTime, !.lost = TRUE]
    <3>1. /\ worker.token = me.token /\ worker.cur = me.cur /\ worker.sent = me.sent
          /\ worker.at = me.at /\ worker.beat = NoTime /\ worker.pc = me.pc
      BY <1>a DEF Worker
    <3>2. workers' = [workers EXCEPT ![w] = worker]
      BY <2>3
    <3>. HIDE DEF worker
    <3>3. /\ me.at <= Clock(w) /\ (me.pc = "fulfilled" => me.sent)
          /\ HasEvent(w) <=> me.pc \in {"renew", "emit", "fulfilled", "rejected"}
      BY DEF DirectWorkerInv, HasEvent
    <3>. QED
      BY <1>h, <1>s, <2>1, <3>1, <3>2, <3>3
  <2>. QED
    BY <1>7, <2>2, <2>3 DEF RenewalFails
<1>8. CASE Crash(w)
  <2>1. Fault(w) /\ UNCHANGED <<txn, now, copies>>
    BY <1>8 DEF Crash
  <2>. QED
    BY <1>g, <2>1
<1>. QED
  BY <1>1, <1>2, <1>3, <1>4, <1>5, <1>6, <1>7, <1>8 DEF RoundStep, BrokerStep

------------------------------------------------------------------------------
(* Calls that hold no claim                                                *)

\* A call that was told nothing new keeps what it knows as copies only grow.
LEMMA CallKept ==
    ASSUME NEW call, NEW next,
           \A m \in Msgs : copies[m] \in Nat /\ copies'[m] \in Nat /\ copies'[m] >= copies[m],
           CallInv(call),
           next.cur = call.cur, next.pc # "none" => call.pc # "none",
           next.sent => call.sent, next.pc = "fulfilled" => next.sent
    PROVE  next.pc # "none" =>
               /\ next.cur \in Msgs
               /\ next.sent => copies'[next.cur] > 0
               /\ next.pc = "fulfilled" => next.sent
BY DEF CallInv

\* What a publish() call does to its row: nothing, insert it, complete it.
PublishMove(p) ==
    \/ UNCHANGED <<rows, txn>>
    \/ rows' = rows /\ txn[p] # "committed" /\ txn' = [txn EXCEPT ![p] = txn'[p]]
       /\ txn'[p] # "committed"
    \/ /\ txn[p] # "committed" /\ txn' = [txn EXCEPT ![p] = "committed"]
       /\ rows' = [rows EXCEPT ![p] = PendingRow]
    \/ /\ direct[p].pc = "fulfilled" /\ direct'[p].pc \in {"published", "rejected"}
       /\ txn' = txn /\ rows[p].status # "absent"
       /\ rows' = [rows EXCEPT ![p] = PublishedRow(@)]
    \/ /\ direct[p].pc = "rejected" /\ direct'[p].pc = "gaveup"
       /\ txn' = txn /\ rows[p].status # "absent"
       /\ \E due : rows' = [rows EXCEPT ![p] = FailedRow(@, due)]

\* What it does to itself and to the count of copies.
CallMove(p) ==
    \/ direct' = direct /\ copies' = copies
    \/ direct' = [direct EXCEPT ![p] = Emitting(p)] /\ copies' = copies
    \/ /\ direct[p].pc = "emit" /\ direct' = [direct EXCEPT ![p].sent = TRUE]
       /\ copies' = [copies EXCEPT ![p] = Count(@)]
    \/ /\ \E pc \in {"fulfilled", "rejected", "published", "gaveup"} :
             /\ direct' = [direct EXCEPT ![p].pc = pc]
             /\ pc = "fulfilled" => direct[p].sent
       /\ direct[p].pc # "none"
       /\ copies' = copies

\* What an immediate publish may do to the rows and calls.
LEMMA PublishEffect ==
    ASSUME DirectTypeOK, NEW p \in Msgs, PublishStep(p)
    PROVE  /\ PublishMove(p) /\ CallMove(p)
           /\ UNCHANGED <<workers, now, operator, forced>>
<1>a. /\ rows \in [Msgs -> Row] /\ direct \in [Msgs -> Call]
      /\ txn \in [Msgs -> {"none", "open", "committed", "rolledback"}]
  BY DEF DirectTypeOK, TypeOK
<1>b. \A pc \in {"fulfilled", "rejected", "published", "gaveup"} :
         direct' = [direct EXCEPT ![p].pc = pc] => direct'[p].pc = pc
  BY <1>a DEF Call
<1>1. CASE PublishPlain(p)
  BY <1>1 DEF PublishPlain, PublishMove, CallMove
<1>2. CASE PublishInTransaction(p)
  <2>1. /\ txn[p] # "committed" /\ txn' = [txn EXCEPT ![p] = "open"] /\ rows' = rows
        /\ copies' = copies
    BY <1>2 DEF PublishInTransaction, SaveInTransaction
  <2>2. txn'[p] = "open"
    BY <1>a, <2>1
  <2>. QED
    BY <1>2, <2>1, <2>2 DEF PublishInTransaction, SaveInTransaction, PublishMove, CallMove
<1>3. CASE EndTransaction(p)
  <2>1. CASE Commit(p)
    BY <1>3, <2>1 DEF EndTransaction, Commit, PublishMove, CallMove
  <2>2. CASE Rollback(p)
    <3>1. txn'[p] = "rolledback" /\ txn' = [txn EXCEPT ![p] = "rolledback"]
      BY <1>a, <2>2 DEF Rollback
    <3>. QED
      BY <1>3, <2>2, <3>1 DEF EndTransaction, Rollback, PublishMove, CallMove
  <2>. QED
    BY <1>3, <2>1, <2>2 DEF EndTransaction
<1>4. CASE DirectAccepted(p)
  BY <1>4 DEF DirectAccepted, PublishMove, CallMove
<1>5. CASE DirectFulfilled(p)
  BY <1>5 DEF DirectFulfilled, PublishMove, CallMove, vars
<1>6. CASE DirectRejected(p)
  BY <1>6 DEF DirectRejected, PublishMove, CallMove
<1>7. CASE DirectMarkPublished(p)
  <2>1. PICK pc \in {"published", "rejected"} : direct' = [direct EXCEPT ![p].pc = pc]
    BY <1>7 DEF DirectMarkPublished
  <2>2. direct[p].pc = "fulfilled" /\ direct'[p].pc \in {"published", "rejected"}
        /\ txn' = txn /\ copies' = copies /\ UNCHANGED <<workers, now, operator, forced>>
    BY <1>7, <1>b, <2>1 DEF DirectMarkPublished
  <2>3. CallMove(p)
    BY <2>1, <2>2 DEF CallMove
  <2>4. CASE CanComplete(rows[p], NoOwner)
    <3>1. rows' = [rows EXCEPT ![p] = PublishedRow(@)] /\ rows[p].status # "absent"
      BY <1>7, <2>4 DEF DirectMarkPublished, CanComplete
    <3>. QED
      BY <2>2, <2>3, <3>1 DEF PublishMove
  <2>5. CASE ~CanComplete(rows[p], NoOwner)
    <3>1. rows' = rows
      BY <1>a, <1>7, <2>5 DEF DirectMarkPublished
    <3>. QED
      BY <2>2, <2>3, <3>1 DEF PublishMove
  <2>. QED
    BY <2>4, <2>5
<1>8. CASE DirectMarkFailed(p)
  <2>1. PICK due : rows' = [rows EXCEPT ![p] =
                               IF CanComplete(@, NoOwner) THEN FailedRow(@, due) ELSE @]
    BY <1>8 DEF DirectMarkFailed
  <2>2. /\ direct' = [direct EXCEPT ![p].pc = "gaveup"] /\ direct[p].pc = "rejected"
        /\ txn' = txn /\ copies' = copies /\ UNCHANGED <<workers, now, operator, forced>>
    BY <1>8 DEF DirectMarkFailed
  <2>3. CallMove(p) /\ direct'[p].pc = "gaveup"
    BY <1>b, <2>2 DEF CallMove
  <2>4. CASE CanComplete(rows[p], NoOwner)
    <3>1. rows' = [rows EXCEPT ![p] = FailedRow(@, due)] /\ rows[p].status # "absent"
      BY <2>1, <2>4 DEF CanComplete
    <3>. QED
      BY <2>2, <2>3, <3>1 DEF PublishMove
  <2>5. CASE ~CanComplete(rows[p], NoOwner)
    <3>1. rows' = rows
      BY <1>a, <2>1, <2>5
    <3>. QED
      BY <2>2, <2>3, <3>1 DEF PublishMove
  <2>. QED
    BY <2>4, <2>5
<1>9. CASE DirectFails(p)
  <2>1. PICK pc \in {"gaveup", "rejected"} : direct' = [direct EXCEPT ![p].pc = pc]
    BY <1>9 DEF DirectFails
  <2>2. direct[p].pc # "none"
    BY <1>9 DEF DirectFails, Returned
  <2>. QED
    BY <1>9, <2>1, <2>2 DEF DirectFails, PublishMove, CallMove
<1>. QED
  BY <1>1, <1>2, <1>3, <1>4, <1>5, <1>6, <1>7, <1>8, <1>9 DEF PublishStep

\* A counted copy is a copy more, and the others stay.
LEMMA CopyCounted ==
    ASSUME TypeOK, NEW m \in Msgs, copies' = [copies EXCEPT ![m] = Count(@)]
    PROVE  /\ \A k \in Msgs : copies[k] \in Nat /\ copies'[k] \in Nat /\ copies'[k] >= copies[k]
           /\ copies'[m] > 0
<1>1. copies \in [Msgs -> 0 .. MaxSeen] /\ MaxSeen \in Nat /\ MaxSeen > 0
  BY OutboxAssumption, StorageAssumption DEF TypeOK
<1>. QED
  BY <1>1, CountTyped

\* publish() with an immediate emit.
LEMMA PublishInd ==
    ASSUME DirectInv, DirectTypeOK', NEW p \in Msgs, PublishStep(p)
    PROVE  DirectInv'
<1>a. /\ DirectTypeOK /\ TypeOK /\ TypeOK' /\ rows \in [Msgs -> Row] /\ direct \in [Msgs -> Call]
      /\ txn \in [Msgs -> {"none", "open", "committed", "rolledback"}] /\ now \in Nat
      /\ copies \in [Msgs -> 0 .. MaxSeen] /\ MaxSeen \in Nat
  BY OutboxAssumption DEF DirectInv, DirectTypeOK, TypeOK
<1>b. /\ PublishMove(p) /\ CallMove(p)
      /\ UNCHANGED <<workers, now, operator, forced>>
  BY <1>a, PublishEffect
<1>c. \A k \in Msgs : copies[k] \in Nat /\ copies'[k] \in Nat /\ copies'[k] >= copies[k]
  <2>1. CASE copies' = copies
    BY <1>a, <2>1
  <2>2. CASE copies' = [copies EXCEPT ![p] = Count(@)]
    BY <1>a, <2>2, CopyCounted
  <2>. QED
    BY <1>b, <2>1, <2>2 DEF CallMove
<1>1. \A m \in Msgs : DirectRowInv(m)'
  <2>. SUFFICES ASSUME NEW m \in Msgs PROVE DirectRowInv(m)'
    OBVIOUS
  <2>a. DirectRowInv(m)
    BY DEF DirectInv
  <2>1. CASE rows'[m] = rows[m] /\ (txn'[m] = "committed" <=> txn[m] = "committed")
    BY <1>b, <1>c, <2>a, <2>1 DEF DirectRowInv
  <2>2. CASE m = p /\ txn[p] # "committed" /\ txn' = [txn EXCEPT ![p] = "committed"]
             /\ rows' = [rows EXCEPT ![p] = PendingRow]
    BY <1>a, <2>2 DEF DirectRowInv, PendingRow, AbsentRow
  <2>3. CASE m = p /\ direct[p].pc = "fulfilled" /\ txn' = txn /\ rows[p].status # "absent"
             /\ rows' = [rows EXCEPT ![p] = PublishedRow(@)]
    <3>1. rows'[m] = PublishedRow(rows[m]) /\ rows[m] \in Row
      BY <1>a, <2>3
    <3>2. rows'[m].status = "published"
      BY <3>1 DEF PublishedRow, Row
    <3>3. copies[m] > 0
      BY <2>3 DEF DirectInv, CallInv
    <3>. QED
      BY <1>c, <2>a, <2>3, <3>2, <3>3 DEF DirectRowInv
  <2>4. ASSUME NEW due, m = p, txn' = txn, rows[p].status # "absent",
               rows' = [rows EXCEPT ![p] = FailedRow(@, due)]
        PROVE  DirectRowInv(m)'
    <3>1. rows'[m] = FailedRow(rows[m], due) /\ rows[m] \in Row
      BY <1>a, <2>4
    <3>2. rows'[m].status \in {"failed", "dead_letter"}
      BY <3>1 DEF FailedRow, Row
    <3>. QED
      BY <2>a, <2>4, <3>2 DEF DirectRowInv
  <2>. QED
    BY <1>a, <1>b, <2>1, <2>2, <2>3, <2>4 DEF PublishMove
<1>2. \A w \in Workers : DirectWorkerInv(w)'
  <2>1. now' >= now
    BY <1>a, <1>b
  <2>. QED
    BY <1>a, <1>b, <1>c, <2>1, DirectBystander DEF DirectInv
<1>3. ASSUME NEW m \in Msgs
      PROVE  /\ direct'[m].pc # "none" =>
                   /\ direct'[m].cur \in Msgs
                   /\ direct'[m].sent => copies'[direct'[m].cur] > 0
                   /\ direct'[m].pc = "fulfilled" => direct'[m].sent
             /\ direct'[m].pc # "none" => direct'[m].cur = m
  <2>a. CallInv(direct[m]) /\ (direct[m].pc # "none" => direct[m].cur = m) /\ direct[m] \in Call
    BY <1>a DEF DirectInv
  <2>1. CASE direct'[m] = direct[m]
    BY <1>c, <2>a, <2>1 DEF CallInv
  <2>2. CASE m = p /\ direct' = [direct EXCEPT ![p] = Emitting(p)]
    BY <1>a, <2>2 DEF Emitting
  <2>3. CASE m = p /\ direct[p].pc = "emit" /\ direct' = [direct EXCEPT ![p].sent = TRUE]
             /\ copies' = [copies EXCEPT ![p] = Count(@)]
    <3>1. direct'[m].pc = "emit" /\ direct'[m].cur = direct[m].cur
      BY <1>a, <2>3 DEF Call
    <3>2. copies'[m] > 0
      BY <1>a, <2>3, CopyCounted
    <3>. QED
      BY <2>a, <2>3, <3>1, <3>2
  <2>4. ASSUME NEW pc \in {"fulfilled", "rejected", "published", "gaveup"}, m = p,
               direct' = [direct EXCEPT ![p].pc = pc], pc = "fulfilled" => direct[p].sent,
               direct[p].pc # "none"
        PROVE  /\ direct'[m].pc # "none" =>
                     /\ direct'[m].cur \in Msgs
                     /\ direct'[m].sent => copies'[direct'[m].cur] > 0
                     /\ direct'[m].pc = "fulfilled" => direct'[m].sent
               /\ direct'[m].pc # "none" => direct'[m].cur = m
    <3>1. /\ direct'[m].pc = pc /\ direct'[m].cur = direct[m].cur
          /\ direct'[m].sent = direct[m].sent
      BY <1>a, <2>4 DEF Call
    <3>. QED
      BY <1>c, <2>a, <2>4, <3>1 DEF CallInv
  <2>5. CASE m # p
    BY <1>a, <1>b, <2>1, <2>5 DEF CallMove
  <2>. QED
    BY <1>b, <2>1, <2>2, <2>3, <2>4, <2>5 DEF CallMove
<1>4. \A m \in Msgs : CallInv(direct[m])' /\ (direct'[m].pc # "none" => direct'[m].cur = m)
  BY <1>3 DEF CallInv
<1>5. CallInv(operator)'
  <2>1. CallInv(operator)
    BY DEF DirectInv
  <2>. QED
    BY <1>b, <1>c, <2>1 DEF CallInv
<1>6. operator'.pc # "none" => rows'[operator'.cur].status # "absent"
  <2>. SUFFICES ASSUME operator.pc # "none" PROVE rows'[operator.cur].status # "absent"
    BY <1>b
  <2>1. operator.cur \in Msgs /\ rows[operator.cur].status # "absent" /\ txn[operator.cur] = "committed"
    BY DEF DirectInv, CallInv, DirectRowInv
  <2>2. txn'[operator.cur] = "committed"
    BY <1>a, <1>b, <2>1 DEF PublishMove
  <2>. QED
    BY <1>1, <2>1, <2>2 DEF DirectRowInv
<1>. QED
  BY <1>1, <1>2, <1>4, <1>5, <1>6 DEF DirectInv

\* The dashboard.
LEMMA OperatorInd ==
    ASSUME DirectInv, DirectTypeOK', OperatorStep
    PROVE  DirectInv'
<1>a. /\ TypeOK /\ TypeOK' /\ rows \in [Msgs -> Row] /\ operator \in Call /\ now \in Nat
      /\ copies \in [Msgs -> 0 .. MaxSeen] /\ MaxSeen \in Nat
  BY OutboxAssumption DEF DirectInv, DirectTypeOK, TypeOK
<1>b. UNCHANGED <<txn, workers, now, direct>>
  BY DEF OperatorStep, RetryOutbox, MarkOutboxPublished, OperatorAccepted, OperatorFulfilled,
         OperatorRejected, OperatorMarkPublished, vars
<1>c. /\ \A k \in Msgs : copies[k] \in Nat /\ copies'[k] \in Nat /\ copies'[k] >= copies[k]
      /\ OperatorAccepted => copies'[operator.cur] > 0
  <2>1. CASE OperatorAccepted
    <3>1. operator.cur \in Msgs /\ copies' = [copies EXCEPT ![operator.cur] = Count(@)]
      BY <2>1 DEF OperatorAccepted, DirectInv, CallInv
    <3>. QED
      BY <1>a, <3>1, CopyCounted
  <2>2. CASE ~OperatorAccepted
    <3>1. copies' = copies
      BY <2>2 DEF OperatorStep, RetryOutbox, MarkOutboxPublished, OperatorFulfilled,
                  OperatorRejected, OperatorMarkPublished, vars
    <3>. QED
      BY <1>a, <2>2, <3>1
  <2>. QED
    BY <2>1, <2>2
<1>1. \A m \in Msgs : DirectRowInv(m)'
  <2>. SUFFICES ASSUME NEW m \in Msgs PROVE DirectRowInv(m)'
    OBVIOUS
  <2>a. DirectRowInv(m) /\ rows[m] \in Row
    BY <1>a DEF DirectInv
  <2>b. ASSUME rows'[m] = PublishedRow(rows[m])
        PROVE  rows'[m].status = "published"
    BY <2>a, <2>b DEF PublishedRow, Row
  <2>1. CASE rows'[m] = rows[m] /\ forced \subseteq forced'
    BY <1>b, <1>c, <2>a, <2>1 DEF DirectRowInv
  <2>2. ASSUME NEW k \in Msgs, MarkOutboxPublished(k) PROVE DirectRowInv(m)'
    <3>1. CASE k = m
      <4>1. /\ rows'[m] = PublishedRow(rows[m]) /\ m \in forced' /\ rows[m].status # "absent"
        BY <1>a, <2>2, <3>1 DEF MarkOutboxPublished, CanComplete
      <4>. QED
        BY <1>b, <2>a, <2>b, <4>1 DEF DirectRowInv
    <3>2. CASE k # m
      BY <1>a, <2>1, <2>2, <3>2 DEF MarkOutboxPublished
    <3>. QED
      BY <3>1, <3>2
  <2>3. CASE OperatorMarkPublished
    <3>1. CASE operator.cur = m
      <4>1. rows'[m] = PublishedRow(rows[m]) /\ operator.pc = "fulfilled"
        BY <1>a, <2>3, <3>1 DEF OperatorMarkPublished
      <4>2. rows[m].status # "absent" /\ copies[m] > 0
        BY <3>1, <4>1 DEF DirectInv, CallInv
      <4>. QED
        BY <1>b, <1>c, <2>a, <2>b, <4>1, <4>2 DEF DirectRowInv
    <3>2. CASE operator.cur # m
      BY <1>a, <2>1, <2>3, <3>2 DEF OperatorMarkPublished
    <3>. QED
      BY <3>1, <3>2
  <2>4. CASE rows' = rows /\ forced' = forced
    BY <2>1, <2>4
  <2>. QED
    BY <2>2, <2>3, <2>4 DEF OperatorStep, RetryOutbox, OperatorAccepted, OperatorFulfilled,
                            OperatorRejected, vars
<1>2. \A w \in Workers : DirectWorkerInv(w)'
  <2>1. now' >= now
    BY <1>a, <1>b
  <2>. QED
    BY <1>a, <1>b, <1>c, <2>1, DirectBystander DEF DirectInv
<1>3. \A m \in Msgs : CallInv(direct[m])' /\ (direct'[m].pc # "none" => direct'[m].cur = m)
  BY <1>b, <1>c DEF DirectInv, CallInv
<1>4. \A m \in Msgs : rows[m].status # "absent" => rows'[m].status # "absent"
  BY <1>1, <1>b DEF DirectRowInv, DirectInv
<1>5. CallInv(operator)' /\ (operator'.pc # "none" => rows'[operator'.cur].status # "absent")
  <2>a. CallInv(operator) /\ (operator.pc # "none" => rows[operator.cur].status # "absent")
    BY DEF DirectInv
  <2>1. ASSUME NEW m \in Msgs, RetryOutbox(m)
        PROVE  CallInv(operator)' /\ (operator'.pc # "none" => rows'[operator'.cur].status # "absent")
    <3>1. operator' = Emitting(m) /\ rows[m].status # "absent"
      BY <2>1 DEF RetryOutbox
    <3>2. operator'.pc = "emit" /\ operator'.cur = m /\ ~operator'.sent
      BY <3>1 DEF Emitting
    <3>. QED
      BY <1>4, <3>1, <3>2 DEF CallInv
  <2>2. CASE OperatorAccepted
    <3>1. operator' = [operator EXCEPT !.sent = TRUE] /\ operator.pc = "emit"
      BY <2>2 DEF OperatorAccepted
    <3>2. operator'.pc = "emit" /\ operator'.cur = operator.cur /\ operator'.sent
      BY <1>a, <3>1, CallMoves
    <3>. QED
      BY <1>c, <1>4, <2>2, <2>a, <3>1, <3>2 DEF CallInv
  <2>3. CASE OperatorFulfilled
    <3>1. operator' = [operator EXCEPT !.pc = "fulfilled"] /\ operator.pc = "emit" /\ operator.sent
      BY <2>3 DEF OperatorFulfilled
    <3>2. operator'.pc = "fulfilled" /\ operator'.cur = operator.cur /\ operator'.sent
      BY <1>a, <3>1 DEF Call
    <3>. QED
      BY <1>c, <1>4, <2>a, <3>1, <3>2 DEF CallInv
  <2>4. CASE operator' = NoCall
    BY <2>4 DEF NoCall, CallInv
  <2>5. CASE operator' = operator
    BY <1>c, <1>4, <2>a, <2>5 DEF CallInv
  <2>. QED
    BY <2>1, <2>2, <2>3, <2>4, <2>5 DEF OperatorStep, MarkOutboxPublished, OperatorRejected,
                                        OperatorMarkPublished
<1>. QED
  BY <1>1, <1>2, <1>3, <1>5 DEF DirectInv

\* The schedulers, requeues and time.
LEMMA DispatchInd ==
    ASSUME DirectInv, DirectTypeOK', DispatchStep
    PROVE  DirectInv'
<1>a. /\ DirectTypeOK /\ TypeOK /\ TypeOK' /\ rows \in [Msgs -> Row] /\ now \in Nat
      /\ \A m \in Msgs : copies[m] \in Nat /\ copies'[m] \in Nat
      /\ \A m \in Msgs : rows[m] \in Row
  BY DEF DirectInv, DirectTypeOK, TypeOK
<1>b. UNCHANGED <<direct, operator, forced>>
  BY DEF DispatchStep
<1>1. /\ txn' = txn /\ now' >= now
      /\ \A m \in Msgs : copies'[m] >= copies[m]
      /\ \A w \in Workers : DirectWorkerInv(w)'
  <2>1. CASE Tick \/ \E m \in Msgs : Requeue(m)
    <3>1. workers' = workers /\ txn' = txn /\ copies' = copies /\ now' >= now
      BY <1>a, <2>1 DEF Tick, Requeue
    <3>2. \A m \in Msgs : copies'[m] >= copies[m]
      BY <1>a, <3>1
    <3>. QED
      BY <1>a, <3>1, <3>2, DirectBystander DEF DirectInv
  <2>2. ASSUME NEW w \in Workers, BeginRound(w) \/ RoundStep(w) \/ RenewalFails(w) \/ Crash(w)
        PROVE  /\ txn' = txn /\ now' >= now
               /\ \A m \in Msgs : copies'[m] >= copies[m]
               /\ \A v \in Workers : DirectWorkerInv(v)'
    <3>1. /\ \A v \in Workers \ {w} : workers'[v] = workers[v]
          /\ DirectWorkerInv(w)' /\ txn' = txn /\ now' = now
          /\ \A m \in Msgs : copies'[m] >= copies[m]
      BY <1>a, <2>2, DirectWorkerStep DEF DirectInv
    <3>2. now' >= now
      BY <1>a, <3>1
    <3>3. \A v \in Workers \ {w} : DirectWorkerInv(v)'
      BY <1>a, <3>1, <3>2, DirectBystander DEF DirectInv
    <3>. QED
      BY <3>1, <3>2, <3>3
  <2>. QED
    BY <2>1, <2>2 DEF DispatchStep
<1>2. ASSUME NEW m \in Msgs
      PROVE  \/ rows'[m].status = rows[m].status
             \/ /\ rows[m].status \notin {"absent", "published"}
                /\ \/ rows'[m].status = "published" /\ copies[m] > 0
                   \/ rows'[m].status \in {"failed", "processing", "dead_letter"}
  <2>1. ASSUME NEW w \in Workers, StorageStep(w)
        PROVE  \/ rows'[m].status = rows[m].status
               \/ /\ rows[m].status \notin {"absent", "published"}
                  /\ \/ rows'[m].status = "published" /\ copies[m] > 0
                     \/ rows'[m].status \in {"failed", "processing", "dead_letter"}
    <3>1. DirectMove(w, m)
      BY <1>a, <2>1, DirectEffect DEF DirectInv
    <3>. QED
      BY <3>1 DEF DirectMove
  <2>2. ASSUME NEW k \in Msgs, Requeue(k)
        PROVE  \/ rows'[m].status = rows[m].status
               \/ /\ rows[m].status \notin {"absent", "published"}
                  /\ rows'[m].status = "failed"
    <3>1. PICK t : rows' = [rows EXCEPT ![k] = RequeuedRow(@, t)]
      BY <2>2 DEF Requeue
    <3>2. CASE k = m
      <4>1. rows'[m] = RequeuedRow(rows[m], t)
        BY <1>a, <3>1, <3>2
      <4>2. rows'[m].status = "failed"
        BY <1>a, <4>1 DEF RequeuedRow, Row
      <4>. QED
        BY <2>2, <3>2, <4>2 DEF Requeue, CanRequeue
    <3>3. CASE k # m
      BY <1>a, <3>1, <3>3
    <3>. QED
      BY <3>2, <3>3
  <2>3. ASSUME NEW w \in Workers,
               BeginRound(w) \/ BrokerStep(w) \/ HeartbeatFires(w) \/ SkipCompletion(w)
        PROVE  rows' = rows
    BY <2>3 DEF BeginRound, BrokerStep, BrokerAccepts, EmitFulfilled, EmitRejected,
                HeartbeatFires, SkipCompletion
  <2>4. ASSUME NEW w \in Workers, Crash(w) PROVE rows' = rows
    BY <2>4 DEF Crash
  <2>5. Tick => rows' = rows
    BY DEF Tick
  <2>6. ASSUME NEW w \in Workers, RenewalFails(w) PROVE rows'[m].status = rows[m].status
    BY <1>a, <2>6, FailedRenewalRows
  <2>. QED
    BY <2>1, <2>2, <2>3, <2>4, <2>5, <2>6 DEF DispatchStep, RoundStep
<1>3. \A m \in Msgs : DirectRowInv(m)'
  <2>. SUFFICES ASSUME NEW m \in Msgs PROVE DirectRowInv(m)'
    OBVIOUS
  <2>1. DirectRowInv(m) /\ copies[m] \in Nat /\ copies'[m] \in Nat /\ copies'[m] >= copies[m]
    BY <1>a, <1>1 DEF DirectInv
  <2>. QED
    BY <1>b, <1>1, <1>2, <2>1 DEF DirectRowInv
<1>4. \A m \in Msgs : CallInv(direct[m])' /\ (direct'[m].pc # "none" => direct'[m].cur = m)
  BY <1>a, <1>b, <1>1 DEF DirectInv, CallInv
<1>5. CallInv(operator)' /\ (operator'.pc # "none" => rows'[operator'.cur].status # "absent")
  BY <1>a, <1>b, <1>1, <1>2 DEF DirectInv, CallInv
<1>. QED
  BY <1>1, <1>3, <1>4, <1>5 DEF DirectInv

\* The initial states satisfy DirectInv.
LEMMA DirectInitInv == DirectInit => DirectInv
<1>. SUFFICES ASSUME DirectInit PROVE DirectInv
  OBVIOUS
<1>1. DirectTypeOK
  BY DirectInitTyped
<1>2. \A m \in Msgs : DirectRowInv(m)
  BY DEF DirectInit, Init, DirectRowInv, AbsentRow
<1>3. \A w \in Workers : DirectWorkerInv(w)
  <2>1. \A w \in Workers : workers[w] = Idle /\ Clock(w) \in Nat
    BY OutboxAssumption DEF DirectInit, Init, Clock
  <2>. QED
    BY <2>1 DEF DirectWorkerInv, HasEvent, Idle
<1>. QED
  BY <1>1, <1>2, <1>3 DEF DirectInit, NoCall, CallInv, DirectInv

\* Every step keeps DirectInv.
LEMMA DirectNextInv == DirectInv /\ [DirectNext]_directVars => DirectInv'
<1>. SUFFICES ASSUME DirectInv, [DirectNext]_directVars PROVE DirectInv'
  OBVIOUS
<1>1. DirectTypeOK'
  BY DirectTyped DEF DirectInv
<1>2. CASE UNCHANGED directVars
  BY <1>1, <1>2 DEF directVars, vars, DirectInv, DirectRowInv, DirectWorkerInv, CallInv,
                    HasEvent, Clock
<1>. QED
  BY <1>1, <1>2, PublishInd, OperatorInd, DispatchInd DEF DirectNext

------------------------------------------------------------------------------
(* Safety                                                                  *)

\* The invariant that carries the safety of the outbox with direct writers.
THEOREM DirectInvariantHolds == DirectSpec => []DirectInv
BY DirectInitInv, DirectNextInv, PTL DEF DirectSpec

\* Whoever writes, a row is published only for a message the broker accepted
\* or an operator declared published.
THEOREM NothingIsLostDirectly == DirectSpec => []PublishedWasAcceptedOrForced
<1>1. DirectInv => PublishedWasAcceptedOrForced
  BY DEF DirectInv, DirectRowInv, PublishedWasAcceptedOrForced
<1>. QED
  BY <1>1, DirectInvariantHolds, PTL

\* A step moves a row by a storage call of a worker, by a requeue of a settled
\* row, by its publish() call or by an operator.
LEMMA DirectRowMoves ==
    ASSUME DirectInv, [DirectNext]_directVars, NEW m \in Msgs
    PROVE  \/ rows'[m] = rows[m]
           \/ \E w \in Workers : DirectMove(w, m)
           \/ rows[m].status \in {"failed", "dead_letter"}
           \/ rows[m].status = "absent"
           \/ direct[m].pc = "fulfilled" /\ direct'[m].pc # "fulfilled"
              /\ rows'[m].status = "published"
           \/ direct[m].pc = "rejected" /\ direct'[m].pc = "gaveup"
           \/ (operator' # operator \/ m \in forced') /\ rows'[m].status = "published"
<1>a. /\ DirectTypeOK /\ rows \in [Msgs -> Row] /\ rows[m] \in Row
  BY DEF DirectInv, DirectTypeOK, TypeOK
<1>b. ASSUME rows'[m] = PublishedRow(rows[m]) PROVE rows'[m].status = "published"
  BY <1>a, <1>b DEF PublishedRow, Row
<1>1. ASSUME NEW p \in Msgs, PublishStep(p)
      PROVE  \/ rows'[m] = rows[m]
             \/ rows[m].status = "absent"
             \/ direct[m].pc = "fulfilled" /\ direct'[m].pc # "fulfilled"
                /\ rows'[m].status = "published"
             \/ direct[m].pc = "rejected" /\ direct'[m].pc = "gaveup"
  <2>1. PublishMove(p)
    BY <1>a, <1>1, PublishEffect
  <2>2. CASE p # m
    BY <1>a, <2>1, <2>2 DEF PublishMove
  <2>3. CASE p = m /\ txn[m] # "committed"
    BY <2>3 DEF DirectInv, DirectRowInv
  <2>4. CASE /\ p = m /\ direct[p].pc = "fulfilled" /\ direct'[p].pc \in {"published", "rejected"}
             /\ rows' = [rows EXCEPT ![p] = PublishedRow(@)]
    BY <1>a, <1>b, <2>4
  <2>. QED
    BY <2>1, <2>2, <2>3, <2>4 DEF PublishMove
<1>2. CASE OperatorStep
  <2>1. ASSUME NEW k \in Msgs, MarkOutboxPublished(k)
        PROVE  rows'[m] = rows[m] \/ (m \in forced' /\ rows'[m].status = "published")
    <3>1. rows' = [rows EXCEPT ![k] = PublishedRow(@)] /\ k \in forced'
      BY <2>1 DEF MarkOutboxPublished
    <3>. QED
      BY <1>a, <1>b, <3>1
  <2>2. CASE OperatorMarkPublished
    <3>1. rows' = [rows EXCEPT ![operator.cur] = PublishedRow(@)] /\ operator.pc = "fulfilled"
          /\ operator' = NoCall
      BY <2>2 DEF OperatorMarkPublished
    <3>2. operator' # operator
      BY <3>1 DEF NoCall
    <3>. QED
      BY <1>a, <1>b, <3>1, <3>2
  <2>. QED
    BY <1>2, <2>1, <2>2 DEF OperatorStep, RetryOutbox, OperatorAccepted, OperatorFulfilled,
                            OperatorRejected, vars
<1>3. CASE DispatchStep
  <2>1. ASSUME NEW w \in Workers, StorageStep(w) PROVE DirectMove(w, m)
    BY <1>a, <2>1, DirectEffect DEF DirectInv
  <2>2. ASSUME NEW k \in Msgs, Requeue(k)
        PROVE  rows'[m] = rows[m] \/ rows[m].status \in {"failed", "dead_letter"}
    BY <1>a, <2>2 DEF Requeue, CanRequeue
  <2>3. ASSUME NEW w \in Workers,
               BeginRound(w) \/ BrokerStep(w) \/ HeartbeatFires(w) \/ SkipCompletion(w)
        PROVE  rows' = rows
    BY <2>3 DEF BeginRound, BrokerStep, BrokerAccepts, EmitFulfilled, EmitRejected,
                HeartbeatFires, SkipCompletion
  <2>4. ASSUME NEW w \in Workers, Crash(w) PROVE rows' = rows
    BY <2>4 DEF Crash
  <2>5. Tick => rows' = rows
    BY DEF Tick
  <2>6. ASSUME NEW w \in Workers, RenewalFails(w) PROVE DirectMove(w, m)
    BY <1>a, <2>6, FailedRenewalRows DEF DirectMove, DirectInv, DirectTypeOK
  <2>. QED
    BY <1>3, <2>1, <2>2, <2>3, <2>4, <2>5, <2>6 DEF DispatchStep, RoundStep
<1>4. CASE UNCHANGED directVars
  BY <1>4 DEF directVars, vars
<1>. QED
  BY <1>1, <1>2, <1>3, <1>4 DEF DirectNext

\* A published row becomes retryable again only by the failure write of its
\* own publish() call.
THEOREM RevivedByItsPublisher == DirectSpec => RevivedOnlyByItsPublisher
<1>1. ASSUME DirectInv, [DirectNext]_directVars, NEW m \in Msgs,
             rows[m].status = "published", rows'[m].status # "published"
      PROVE  direct[m].pc = "rejected" /\ direct'[m].pc = "gaveup"
  BY <1>1, DirectRowMoves DEF DirectMove
<1>2. DirectInv /\ [DirectNext]_directVars =>
        [\A m \in Msgs :
           rows[m].status = "published" /\ rows'[m].status # "published" =>
               direct[m].pc = "rejected" /\ direct'[m].pc = "gaveup"]_directVars
  BY <1>1
<1>. QED
  BY <1>2, DirectInvariantHolds, PTL DEF DirectSpec, RevivedOnlyByItsPublisher

\* A claim under a lease valid on every clock is broken only by its holder's
\* completion, by the row's own publish() call or by an operator.
THEOREM ClaimsBreakOnlyDirectly == DirectSpec => ClaimBrokenOnlyDirectly
<1>1. ASSUME DirectInv, [DirectNext]_directVars, NEW m \in Msgs,
             rows[m].status = "processing",
             rows[m].until > now + MaxSkew,
             rows'[m].owner # rows[m].owner
      PROVE  \/ \E w \in Workers :
                  /\ Settled(w)
                  /\ workers[w].cur = m
                  /\ workers[w].token = rows[m].owner
             \/ direct'[m].pc # direct[m].pc
             \/ operator' # operator
             \/ m \in forced'
  <2>1. rows[m].until \in Int /\ now + MaxSkew \in Int
    BY <1>1, OutboxAssumption DEF DirectInv, DirectTypeOK, TypeOK, Row, Time, NoTime
  <2>2. ~(rows[m].until <= now + MaxSkew)
    BY <1>1, <2>1
  <2>3. ASSUME NEW w \in Workers, DirectMove(w, m) PROVE Completed(w, m)
    BY <1>1, <2>2, <2>3 DEF DirectMove
  <2>. QED
    BY <1>1, <2>3, DirectRowMoves DEF Completed
<1>2. DirectInv /\ [DirectNext]_directVars =>
        [\A m \in Msgs :
           /\ rows[m].status = "processing"
           /\ rows[m].until > now + MaxSkew
           /\ rows'[m].owner # rows[m].owner
           => \/ \E w \in Workers :
                   /\ Settled(w)
                   /\ workers[w].cur = m
                   /\ workers[w].token = rows[m].owner
              \/ direct'[m].pc # direct[m].pc
              \/ operator' # operator
              \/ m \in forced']_directVars
  BY <1>1
<1>. QED
  BY <1>2, DirectInvariantHolds, PTL DEF DirectSpec, ClaimBrokenOnlyDirectly
==============================================================================
