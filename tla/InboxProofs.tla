----------------------------- MODULE InboxProofs -----------------------------
(***************************************************************************)
(* Theorems about Inbox, for every number of messages, consumers, retry    *)
(* rounds and operators, every batch size, window, retry limit and bound.  *)
(***************************************************************************)
EXTENDS Inbox, FiniteSetTheorems, TLAPS

------------------------------------------------------------------------------
(* Rows, runs and counters                                                 *)

\* What each update of a row does to it.
LEMMA PendingEffect ==
    ASSUME NEW t \in Nat
    PROVE  /\ AbsentRow \in Row
           /\ PendingRow(t) \in Row /\ PendingRow(t).status = "pending"
           /\ PendingRow(t).retry = 0 /\ PendingRow(t).born = t
BY DEF Row, Status, Time, NoTime, AbsentRow, PendingRow

\* What markProcessed makes of a row.
LEMMA ProcessedEffect ==
    ASSUME NEW row \in Row
    PROVE  /\ ProcessedRow(row) \in Row /\ ProcessedRow(row).status = "processed"
           /\ ProcessedRow(row).retry = row.retry /\ ProcessedRow(row).born = row.born
BY DEF Row, Status, Time, NoTime, ProcessedRow

\* What markReceivedFailed makes of a row.
LEMMA FailedEffect ==
    ASSUME NEW row \in Row, NEW n \in Nat, NEW t \in Nat
    PROVE  /\ FailedRow(row, n, t) \in Row
           /\ FailedRow(row, n, t).status \in {"failed", "dead_letter"}
           /\ FailedRow(row, n, t).status = "dead_letter" => n >= MaxInboxRetries
           /\ FailedRow(row, n, t).retry = n /\ FailedRow(row, n, t).born = row.born
<1>1. CASE n >= MaxInboxRetries
  BY <1>1 DEF Row, Status, Time, NoTime, FailedRow
<1>2. CASE ~(n >= MaxInboxRetries)
  BY <1>2 DEF Row, Status, Time, NoTime, FailedRow
<1>. QED
  BY <1>1, <1>2

\* What a requeue makes of a row.
LEMMA RequeuedEffect ==
    ASSUME NEW row \in Row, NEW t \in Nat
    PROVE  /\ RequeuedRow(row, t) \in Row /\ RequeuedRow(row, t).status = "failed"
           /\ RequeuedRow(row, t).retry = 0 /\ RequeuedRow(row, t).born = row.born
BY DEF Row, Status, Time, RequeuedRow

\* A runner that is given a record.
LEMMA HandlingTyped ==
    ASSUME NEW rec \in Rec
    PROVE  /\ Handling(rec) \in Run /\ Handling(rec).pc = "handle"
           /\ Handling(rec).rec = rec /\ Handling(rec).batch = {} /\ Handling(rec).at = 0
BY DEF Run, Idle, Handling

\* ... and one with the rest of a batch.
LEMMA BatchTyped ==
    ASSUME NEW rec \in Rec, NEW batch \in SUBSET Rec
    PROVE  /\ [Handling(rec) EXCEPT !.batch = batch] \in Run
           /\ [Handling(rec) EXCEPT !.batch = batch].pc = "handle"
           /\ [Handling(rec) EXCEPT !.batch = batch].rec = rec
           /\ [Handling(rec) EXCEPT !.batch = batch].batch = batch
           /\ [Handling(rec) EXCEPT !.batch = batch].at = 0
BY DEF Run, Idle, Handling

\* The idle state is a state of a worker.
LEMMA IdleTyped == Idle \in Run /\ Idle.pc = "idle" /\ Idle.batch = {} /\ Idle.at = 0
BY DEF Run, Idle, NoRec

\* A place in a batch is a number.
LEMMA PlaceTyped ==
    ASSUME NEW m \in Msgs, NEW S \in SUBSET Msgs
    PROVE  Place(m, S) \in Nat
<1>1. IsFiniteSet(Msgs)
  BY InboxAssumption, FS_Interval DEF Msgs
<1>2. IsFiniteSet({ k \in S : Precedes(k, m) })
  BY <1>1, FS_Subset
<1>. QED
  BY <1>2, FS_CardinalityType DEF Place

\* A row as a query hands it out.
LEMMA SnapshotTyped ==
    ASSUME TypeOK, NEW m \in Msgs, NEW place \in Nat
    PROVE  /\ Snapshot(m, place) \in Rec
           /\ Snapshot(m, place).id = m
           /\ Snapshot(m, place).status = rows[m].status
BY DEF TypeOK, Row, Rec, Snapshot

\* A counter with its bound.
LEMMA CountTyped ==
    ASSUME NEW n \in 0 .. MaxSeen
    PROVE  /\ Count(n) \in 0 .. MaxSeen
           /\ Count(n) >= n
           /\ Count(n) > n \/ Count(n) = MaxSeen
BY InboxAssumption DEF Count

\* A retry delay is a number of ticks.
LEMMA RetryDelayTyped ==
    ASSUME NEW retry, NEW d \in ExpJitter(retry)
    PROVE  d \in Nat
BY BackoffAssumption DEF ExpJitter

\* The clocks of the runners are numbers, and none runs backwards.
LEMMA SkewTyped == Skew \in [Runners -> Nat]
BY InboxAssumption DEF Skew

LEMMA ClockTyped ==
    ASSUME now \in Nat, NEW e \in Runners
    PROVE  Clock(e) \in Nat /\ now <= Clock(e)
BY SkewTyped DEF Clock

LEMMA ClockNext ==
    ASSUME now' \in Nat, NEW e \in Runners
    PROVE  Clock(e)' \in Nat
BY SkewTyped DEF Clock

LEMMA ClockAdvances ==
    ASSUME now \in Nat, now' \in Nat, now <= now', NEW e \in Runners
    PROVE  Clock(e) <= Clock(e)'
BY SkewTyped DEF Clock

\* A window that is over stays over.
LEMMA LapsedKept ==
    ASSUME now \in Nat, now' \in Nat, now <= now', NEW m \in Msgs,
           rows[m].born \in Int, rows[m].born' = rows[m].born, Lapsed(m)
    PROVE  Lapsed(m)'
<1>1. PICK r \in Retriers : Clock(r) - rows[m].born >= Window
  BY DEF Lapsed
<1>2. r \in Runners /\ Skew[r] \in Nat /\ Window \in Nat
  BY SkewTyped, InboxAssumption DEF Runners
<1>3. Clock(r)' - rows[m].born' >= Window
  BY <1>1, <1>2 DEF Clock
<1>. QED
  BY <1>3 DEF Lapsed

------------------------------------------------------------------------------
(* What a step that concerns one runner leaves alone                       *)

\* Rows stay, histories grow, time passes.
Grows ==
    /\ \A m \in Msgs : rows[m].status # "absent" => rows[m].status' # "absent"
    /\ handled \subseteq handled'
    /\ \A m \in Msgs : failures'[m] \in 0 .. MaxSeen /\ failures[m] <= failures'[m]
    /\ now <= now'

\* The other runners keep what they hold.
LEMMA OthersKept ==
    ASSUME InboxInv, now' \in Nat, Grows, NEW e \in Runners, RunInv(e)',
           \A f \in Runners : f # e => runs'[f] = runs[f]
    PROVE  \A f \in Runners : RunInv(f)'
<1>. SUFFICES ASSUME NEW f \in Runners, f # e PROVE RunInv(f)'
  OBVIOUS
<1>1. runs'[f] = runs[f] /\ RunInv(f) /\ runs[f] \in Run
  BY DEF InboxInv, TypeOK
<1>2. \A m \in Msgs : Holds(f, m)' => rows[m].status' # "absent"
  BY <1>1 DEF RunInv, Holds, Grows
<1>3. runs'[f].at <= Clock(f)'
  <2>1. now \in Nat /\ now <= now' /\ runs[f].at \in Nat /\ runs[f].at <= Clock(f)
    BY <1>1 DEF RunInv, Grows, Run, InboxInv, TypeOK
  <2>2. Clock(f) \in Nat /\ Clock(f)' \in Nat /\ Clock(f) <= Clock(f)'
    BY <2>1, ClockTyped, ClockNext, ClockAdvances
  <2>. QED
    BY <1>1, <2>1, <2>2
<1>4. runs'[f].pc = "mark" => runs'[f].rec.id \in handled'
  BY <1>1 DEF RunInv, Grows
<1>5. ASSUME runs'[f].pc = "write"
      PROVE  \/ runs'[f].held < failures'[runs'[f].rec.id]
             \/ failures'[runs'[f].rec.id] = MaxSeen
  <2>1. runs[f].rec.id \in Msgs /\ runs[f].held \in Nat
    BY <1>1, <1>5 DEF RunInv, Busy, Rec, Run
  <2>2. \/ runs[f].held < failures[runs[f].rec.id]
        \/ failures[runs[f].rec.id] = MaxSeen
    BY <1>1, <1>5 DEF RunInv
  <2>3. failures[runs[f].rec.id] \in 0 .. MaxSeen
    BY <2>1 DEF InboxInv, TypeOK
  <2>. QED
    BY <1>1, <2>1, <2>2, <2>3, InboxAssumption DEF Grows
<1>. QED
  BY <1>1, <1>2, <1>3, <1>4, <1>5 DEF RunInv

\* A first execution stays protected when no runner gains a row and only a
\* runner that holds a row, and leaves its handler, moves it out of "pending".
LEMMA FirstKept ==
    ASSUME InboxInv, now' \in Nat, now <= now',
           \A m \in Msgs : rows[m].born' = rows[m].born,
           \A e \in Runners, m \in Msgs : Holds(e, m)' => Holds(e, m),
           \A c \in Consumers : runs'[c].pc = "handle" => runs'[c] = runs[c],
           \A m \in Msgs :
               rows[m].status = "pending" /\ rows[m].status' # "pending" =>
                   \/ Operators # {}
                   \/ \E r \in Retriers : Holds(r, m)
                   \/ \E d \in Consumers : Holds(d, m) /\ runs'[d].pc # "handle"
    PROVE  FirstInv'
<1>. SUFFICES ASSUME Operators = {}, NEW c \in Consumers, NEW m \in Msgs
              PROVE  /\ \A d \in Consumers : Holds(c, m)' /\ Holds(d, m)' => c = d
                     /\ runs'[c].pc = "handle" /\ runs'[c].rec.id = m
                        /\ (rows[m].status' # "pending" \/ \E r \in Retriers : Holds(r, m)')
                        => Lapsed(m)'
  BY DEF FirstInv
<1>1. \A d \in Consumers : Holds(c, m) /\ Holds(d, m) => c = d
  BY DEF InboxInv, FirstInv
<1>2. ASSUME runs'[c].pc = "handle", runs'[c].rec.id = m,
             rows[m].status' # "pending" \/ \E r \in Retriers : Holds(r, m)'
      PROVE  Lapsed(m)'
  <2>1. runs[c].pc = "handle" /\ runs[c].rec.id = m /\ Holds(c, m)
    BY <1>2 DEF Holds, Busy
  <2>2. rows[m].status # "pending" \/ \E r \in Retriers : Holds(r, m)
    BY <1>1, <1>2, <2>1 DEF Runners
  <2>3. Lapsed(m)
    BY <2>1, <2>2 DEF InboxInv, FirstInv
  <2>4. rows[m].born \in Int /\ now \in Nat
    BY DEF InboxInv, TypeOK, Row, Time, NoTime
  <2>. QED
    BY <2>3, <2>4, LapsedKept
<1>. QED
  BY <1>1, <1>2 DEF Runners

------------------------------------------------------------------------------
(* Ends of runs                                                            *)

\* Whatever the loop over the batch does next holds nothing new.
LEMMA NextRecordEffect ==
    ASSUME InboxInv, NEW e \in Runners, NEW batch \in SUBSET Rec, NextRecord(e, batch),
           \A r \in batch : r.status # "processed" /\ rows[r.id].status' # "absent",
           now' \in Nat
    PROVE  /\ runs' \in [Runners -> Run]
           /\ \A f \in Runners : f # e => runs'[f] = runs[f]
           /\ \A m \in Msgs : Holds(e, m)' => \E r \in batch : r.id = m
           /\ RunInv(e)'
           /\ runs'[e].pc \in {"idle", "handle"}
<1>1. CASE batch = {} /\ runs' = [runs EXCEPT ![e] = Idle]
  <2>1. runs'[e] = Idle
    BY <1>1 DEF InboxInv, TypeOK
  <2>. QED
    BY <1>1, <2>1, IdleTyped, ClockNext DEF InboxInv, TypeOK, RunInv, Holds, Busy
<1>2. ASSUME NEW r \in batch,
             runs' = [runs EXCEPT ![e] = [Handling(r) EXCEPT !.batch = batch \ {r}]]
      PROVE  /\ runs' \in [Runners -> Run]
             /\ \A f \in Runners : f # e => runs'[f] = runs[f]
             /\ \A m \in Msgs : Holds(e, m)' => \E q \in batch : q.id = m
             /\ RunInv(e)'
             /\ runs'[e].pc \in {"idle", "handle"}
  <2>1. runs'[e] = [Handling(r) EXCEPT !.batch = batch \ {r}]
    BY <1>2 DEF InboxInv, TypeOK
  <2>2. runs'[e] \in Run /\ runs'[e].pc = "handle" /\ runs'[e].rec = r
        /\ runs'[e].batch = batch \ {r} /\ runs'[e].at = 0
    <3>1. r \in Rec /\ batch \ {r} \in SUBSET Rec
      OBVIOUS
    <3>. QED
      BY <2>1, <3>1, BatchTyped
  <2>3. \A m \in Msgs : Holds(e, m)' => \E q \in batch : q.id = m
    BY <2>2 DEF Holds
  <2>. QED
    BY <1>2, <2>2, <2>3, ClockNext DEF InboxInv, TypeOK, RunInv
<1>. QED
  BY <1>1, <1>2 DEF NextRecord

\* tryHandle resolves: the runner holds nothing new, and what it acknowledged
\* it held.
LEMMA FinishEffect ==
    ASSUME InboxInv, NEW e \in Runners, runs[e].pc \in Busy, Finish(e), now' \in Nat,
           \A m \in Msgs : rows[m].status # "absent" => rows[m].status' # "absent"
    PROVE  /\ runs' \in [Runners -> Run]
           /\ \A f \in Runners : f # e => runs'[f] = runs[f]
           /\ \A m \in Msgs : Holds(e, m)' => Holds(e, m)
           /\ RunInv(e)'
           /\ e \in Consumers => runs'[e].pc = "idle"
           /\ acked' \subseteq Msgs
           /\ \A m \in acked' : rows[m].status' # "absent"
<1>1. runs[e] \in Run /\ RunInv(e) /\ runs[e].rec \in Rec /\ runs[e].rec.id \in Msgs
  BY DEF InboxInv, TypeOK, RunInv, Busy, Rec
<1>2. rows[runs[e].rec.id].status # "absent"
  BY <1>1 DEF RunInv, Holds
<1>3. acked \subseteq Msgs /\ \A m \in acked : rows[m].status # "absent"
  BY DEF InboxInv, TypeOK, AckedIsStored
<1>4. CASE runs' = [runs EXCEPT ![e] = Idle]
           /\ (acked' = acked \/ acked' = acked \cup {runs[e].rec.id})
  <2>1. runs'[e] = Idle
    BY <1>4 DEF InboxInv, TypeOK
  <2>. QED
    BY <1>1, <1>2, <1>3, <1>4, <2>1, IdleTyped, ClockNext
       DEF InboxInv, TypeOK, RunInv, Holds, Busy
<1>5. CASE e \in Retriers /\ NextRecord(e, runs[e].batch) /\ acked' = acked
  <2>1. runs[e].batch \in SUBSET Rec
    BY <1>1 DEF Run
  <2>2. \A r \in runs[e].batch : r.status # "processed" /\ rows[r.id].status' # "absent"
    BY <1>1, <2>1 DEF RunInv, Holds, Rec
  <2>3. /\ runs' \in [Runners -> Run]
        /\ \A f \in Runners : f # e => runs'[f] = runs[f]
        /\ \A m \in Msgs : Holds(e, m)' => \E r \in runs[e].batch : r.id = m
        /\ RunInv(e)'
    BY <1>5, <2>1, <2>2, NextRecordEffect
  <2>. QED
    BY <1>3, <1>5, <2>3, InboxAssumption DEF Holds
<1>. QED
  BY <1>4, <1>5 DEF Finish, Acknowledge

\* An error ends what the runner was doing.
LEMMA FaultEffect ==
    ASSUME InboxInv, NEW e \in Runners, Fault(e), now' \in Nat
    PROVE  /\ runs' \in [Runners -> Run]
           /\ \A f \in Runners : f # e => runs'[f] = runs[f]
           /\ \A m \in Msgs : ~Holds(e, m)'
           /\ RunInv(e)'
           /\ runs'[e].pc = "idle"
           /\ acked' = acked /\ faults' \in 0 .. MaxFaults
<1>1. runs'[e] = Idle
  BY DEF Fault, InboxInv, TypeOK
<1>2. faults' \in 0 .. MaxFaults
  BY InboxAssumption DEF Fault, InboxInv, TypeOK
<1>. QED
  BY <1>1, <1>2, IdleTyped, ClockNext DEF Fault, InboxInv, TypeOK, RunInv, Holds, Busy

------------------------------------------------------------------------------
(* Steps that leave the rows as they are                                   *)

\* What is said of the rows stays true while histories grow.
LEMMA HistoryKept ==
    ASSUME InboxInv, Grows, UNCHANGED <<rows, acked, marked>>
    PROVE  CountInv' /\ AckedIsStored' /\ ProcessedWasHandled' /\ DeadLetterEarned'
<1>1. \A m \in Msgs : rows[m].retry \in Nat /\ failures[m] \in 0 .. MaxSeen
  BY DEF InboxInv, TypeOK, Row
<1>2. CountInv'
  BY <1>1, InboxAssumption DEF InboxInv, CountInv, Grows
<1>3. DeadLetterEarned'
  BY <1>1, InboxAssumption, ReceivedAssumption DEF InboxInv, DeadLetterEarned, Grows
<1>4. AckedIsStored' /\ ProcessedWasHandled'
  BY DEF InboxInv, AckedIsStored, ProcessedWasHandled, Grows
<1>. QED
  BY <1>2, <1>3, <1>4

\* A step of one runner keeps the invariant if that runner is well typed,
\* holds nothing new and begins no execution of a delivery.
LEMMA RunnerStep ==
    ASSUME InboxInv, NEW e \in Runners, runs' \in [Runners -> Run], RunInv(e)',
           UNCHANGED <<rows, acked, now, marked>>,
           deliveries' \in [Msgs -> 0 .. MaxDeliveries], faults' \in 0 .. MaxFaults,
           handled \subseteq handled', handled' \subseteq Msgs,
           failures' \in [Msgs -> 0 .. MaxSeen],
           \A m \in Msgs : failures[m] <= failures'[m],
           \A f \in Runners : f # e => runs'[f] = runs[f],
           \A m \in Msgs : Holds(e, m)' => Holds(e, m),
           e \in Consumers => runs'[e].pc # "handle"
    PROVE  InboxInv'
<1>1. TypeOK'
  BY DEF InboxInv, TypeOK
<1>2. now' \in Nat /\ now <= now' /\ Grows
  BY DEF InboxInv, TypeOK, Grows
<1>3. \A f \in Runners : RunInv(f)'
  BY <1>2, OthersKept
<1>4. FirstInv'
  <2>1. \A f \in Runners, m \in Msgs : Holds(f, m)' => Holds(f, m)
    BY DEF Holds
  <2>. QED
    BY <1>2, <2>1, FirstKept DEF Runners
<1>. QED
  BY <1>1, <1>2, <1>3, <1>4, HistoryKept DEF InboxInv

\* Deliver keeps InboxInv.
LEMMA DeliverInv ==
    ASSUME InboxInv, NEW c \in Consumers, NEW m \in Msgs, Deliver(c, m)
    PROVE  InboxInv'
<1>1. c \in Runners /\ now \in Nat
  BY DEF Runners, InboxInv, TypeOK
<1>0. Clock(c) \in Nat /\ Clock(c)' \in Nat /\ Clock(c) <= Clock(c)'
  BY <1>1, ClockTyped, ClockNext, ClockAdvances DEF Deliver
<1>2. /\ runs'[c].pc = "save" /\ runs'[c].rec \in Rec /\ runs'[c].batch = {}
      /\ runs'[c].at = Clock(c) /\ runs'[c].at <= Clock(c)' /\ runs'[c] \in Run
  BY <1>0, <1>1 DEF Deliver, InboxInv, TypeOK, Idle, Run, Rec, Status
<1>3. RunInv(c)' /\ \A k \in Msgs : ~Holds(c, k)'
  BY <1>1, <1>2 DEF RunInv, Holds, Busy, Deliver
<1>4. deliveries' \in [Msgs -> 0 .. MaxDeliveries]
  BY InboxAssumption DEF Deliver, InboxInv, TypeOK
<1>5. runs' \in [Runners -> Run] /\ \A f \in Runners : f # c => runs'[f] = runs[f]
  BY <1>1, <1>2 DEF Deliver, InboxInv, TypeOK
<1>6. /\ failures' \in [Msgs -> 0 .. MaxSeen] /\ \A k \in Msgs : failures[k] <= failures'[k]
      /\ handled' \subseteq Msgs /\ handled \subseteq handled' /\ faults' \in 0 .. MaxFaults
  BY DEF Deliver, InboxInv, TypeOK
<1>. QED
  BY <1>1, <1>2, <1>3, <1>4, <1>5, <1>6, RunnerStep DEF Deliver

\* BeginRetry keeps InboxInv.
LEMMA BeginRetryInv ==
    ASSUME InboxInv, NEW r \in Retriers, BeginRetry(r)
    PROVE  InboxInv'
<1>1. r \in Runners /\ now \in Nat /\ runs[r] \in Run /\ RunInv(r) /\ r \notin Consumers
  BY InboxAssumption DEF Runners, InboxInv, TypeOK
<1>0. Clock(r) \in Nat /\ Clock(r)' \in Nat /\ Clock(r) <= Clock(r)'
  BY <1>1, ClockTyped, ClockNext, ClockAdvances DEF BeginRetry
<1>2. /\ runs'[r].pc = "query" /\ runs'[r].batch = runs[r].batch
      /\ runs'[r].at = Clock(r) /\ runs'[r].at <= Clock(r)' /\ runs'[r] \in Run
  BY <1>0, <1>1 DEF BeginRetry, InboxInv, TypeOK, Run
<1>3. RunInv(r)' /\ \A k \in Msgs : Holds(r, k)' => Holds(r, k)
  BY <1>1, <1>2 DEF RunInv, Holds, Busy, BeginRetry
<1>4. runs' \in [Runners -> Run] /\ \A f \in Runners : f # r => runs'[f] = runs[f]
  BY <1>1, <1>2 DEF BeginRetry, InboxInv, TypeOK
<1>5. /\ failures' \in [Msgs -> 0 .. MaxSeen] /\ \A k \in Msgs : failures[k] <= failures'[k]
      /\ handled' \subseteq Msgs /\ handled \subseteq handled' /\ faults' \in 0 .. MaxFaults
      /\ deliveries' \in [Msgs -> 0 .. MaxDeliveries]
  BY DEF BeginRetry, InboxInv, TypeOK
<1>. QED
  BY <1>1, <1>3, <1>4, <1>5, RunnerStep DEF BeginRetry

\* Crash keeps InboxInv.
LEMMA CrashInv ==
    ASSUME InboxInv, NEW e \in Runners, Crash(e)
    PROVE  InboxInv'
<1>1. now' \in Nat
  BY DEF Crash, InboxInv, TypeOK
<1>2. /\ runs' \in [Runners -> Run] /\ \A f \in Runners : f # e => runs'[f] = runs[f]
      /\ \A m \in Msgs : ~Holds(e, m)'
      /\ RunInv(e)' /\ runs'[e].pc = "idle"
      /\ acked' = acked /\ faults' \in 0 .. MaxFaults
  BY <1>1, FaultEffect DEF Crash
<1>3. /\ failures' \in [Msgs -> 0 .. MaxSeen] /\ \A k \in Msgs : failures[k] <= failures'[k]
      /\ handled' \subseteq Msgs /\ handled \subseteq handled'
      /\ deliveries' \in [Msgs -> 0 .. MaxDeliveries]
  BY DEF Crash, InboxInv, TypeOK
<1>. QED
  BY <1>2, <1>3, RunnerStep DEF Crash

\* The handler settles: its runner goes on with the same record.
LEMMA HandlerStepInv ==
    ASSUME InboxInv, NEW e \in Runners, HandlerStep(e)
    PROVE  InboxInv'
<1>1. runs[e] \in Run /\ RunInv(e) /\ runs[e].rec \in Rec /\ runs[e].rec.id \in Msgs
      /\ runs[e].pc = "handle" /\ now \in Nat /\ now' = now
  BY DEF InboxInv, TypeOK, RunInv, Busy, Rec, HandlerStep, HandlerResolves, HandlerThrows
<1>2. /\ runs'[e] \in Run /\ runs'[e].rec = runs[e].rec /\ runs'[e].batch = runs[e].batch
      /\ \/ runs'[e].pc = "mark" /\ runs'[e].at = runs[e].at
            /\ handled' = handled \cup {runs[e].rec.id}
         \/ runs'[e].pc = "catch" /\ runs'[e].at = Clock(e) /\ handled' = handled
  <2>1. CASE HandlerResolves(e)
    BY <1>1, <2>1 DEF HandlerResolves, InboxInv, TypeOK, Run
  <2>2. CASE HandlerThrows(e)
    <3>1. runs'[e] = [runs[e] EXCEPT !.pc = "catch", !.at = Clock(e)]
      BY <2>2 DEF HandlerThrows, Caught, InboxInv, TypeOK
    <3>2. Clock(e) \in Nat
      BY <1>1, ClockTyped
    <3>. QED
      BY <1>1, <2>2, <3>1, <3>2 DEF HandlerThrows, Run
  <2>. QED
    BY <2>1, <2>2 DEF HandlerStep
<1>3. RunInv(e)' /\ \A k \in Msgs : Holds(e, k)' => Holds(e, k)
  <2>1. Clock(e)' = Clock(e) /\ Clock(e) \in Nat
    BY <1>1, ClockTyped DEF Clock
  <2>. QED
    BY <1>1, <1>2, <2>1 DEF RunInv, Holds, Busy, HandlerStep, HandlerResolves, HandlerThrows
<1>4. runs' \in [Runners -> Run] /\ \A f \in Runners : f # e => runs'[f] = runs[f]
  BY <1>2 DEF HandlerStep, HandlerResolves, HandlerThrows, Caught, InboxInv, TypeOK
<1>5. /\ failures' \in [Msgs -> 0 .. MaxSeen] /\ \A k \in Msgs : failures[k] <= failures'[k]
      /\ handled' \subseteq Msgs /\ handled \subseteq handled' /\ faults' \in 0 .. MaxFaults
      /\ deliveries' \in [Msgs -> 0 .. MaxDeliveries]
  BY <1>1, <1>2 DEF HandlerStep, HandlerResolves, HandlerThrows, InboxInv, TypeOK
<1>. QED
  BY <1>2, <1>3, <1>4, <1>5, RunnerStep DEF HandlerStep, HandlerResolves, HandlerThrows

\* markReceivedFailed reads the row: the failure is counted before the read.
LEMMA ReadForFailureInv ==
    ASSUME InboxInv, NEW e \in Runners, ReadForFailure(e)
    PROVE  InboxInv'
<1>1. runs[e] \in Run /\ RunInv(e) /\ runs[e].rec \in Rec /\ runs[e].rec.id \in Msgs
      /\ runs[e].pc = "catch" /\ now' = now /\ now \in Nat
  BY DEF InboxInv, TypeOK, RunInv, Busy, Rec, ReadForFailure
<1>. DEFINE m == runs[e].rec.id
<1>2. /\ failures' \in [Msgs -> 0 .. MaxSeen]
      /\ \A k \in Msgs : failures[k] <= failures'[k]
      /\ failures'[m] > failures[m] \/ failures'[m] = MaxSeen
  <2>1. \A k \in Msgs : failures[k] \in 0 .. MaxSeen
    BY DEF InboxInv, TypeOK
  <2>2. failures' = [failures EXCEPT ![m] = Count(failures[m])]
    BY DEF ReadForFailure
  <2>. QED
    BY <1>1, <2>1, <2>2, CountTyped DEF InboxInv, TypeOK
<1>3. CASE Fault(e)
  <2>1. /\ runs' \in [Runners -> Run] /\ \A f \in Runners : f # e => runs'[f] = runs[f]
        /\ \A k \in Msgs : ~Holds(e, k)'
        /\ RunInv(e)' /\ runs'[e].pc = "idle"
        /\ acked' = acked /\ faults' \in 0 .. MaxFaults
    BY <1>1, <1>3, FaultEffect
  <2>2. handled' \subseteq Msgs /\ handled \subseteq handled'
        /\ deliveries' \in [Msgs -> 0 .. MaxDeliveries]
    BY DEF ReadForFailure, InboxInv, TypeOK
  <2>. QED
    BY <1>2, <2>1, <2>2, RunnerStep DEF ReadForFailure
<1>4. CASE /\ runs' = [runs EXCEPT ![e] = [@ EXCEPT !.pc = "write", !.held = rows[m].retry]]
           /\ acked' = acked /\ faults' = faults
  <2>1. rows[m].retry \in Nat /\ (rows[m].retry <= failures[m] \/ failures[m] = MaxSeen)
        /\ failures[m] \in 0 .. MaxSeen
    BY <1>1 DEF InboxInv, TypeOK, Row, CountInv
  <2>2. /\ runs'[e] \in Run /\ runs'[e].rec = runs[e].rec /\ runs'[e].batch = runs[e].batch
        /\ runs'[e].pc = "write" /\ runs'[e].held = rows[m].retry /\ runs'[e].at = runs[e].at
    BY <1>1, <1>4, <2>1 DEF InboxInv, TypeOK, Run
  <2>3. runs'[e].held < failures'[m] \/ failures'[m] = MaxSeen
    BY <1>1, <1>2, <2>1, <2>2, InboxAssumption
  <2>4. RunInv(e)' /\ \A k \in Msgs : Holds(e, k)' => Holds(e, k)
    BY <1>1, <2>2, <2>3 DEF RunInv, Holds, Busy, ReadForFailure, Clock
  <2>5. runs' \in [Runners -> Run] /\ \A f \in Runners : f # e => runs'[f] = runs[f]
    BY <1>4, <2>2 DEF InboxInv, TypeOK
  <2>6. handled' \subseteq Msgs /\ handled \subseteq handled' /\ faults' \in 0 .. MaxFaults
        /\ deliveries' \in [Msgs -> 0 .. MaxDeliveries]
    BY <1>4 DEF ReadForFailure, InboxInv, TypeOK
  <2>. QED
    BY <1>2, <1>4, <2>2, <2>4, <2>5, <2>6, RunnerStep DEF ReadForFailure
<1>. QED
  BY <1>3, <1>4 DEF ReadForFailure, Executed

\* Time passes.
LEMMA TickInv ==
    ASSUME InboxInv, Tick
    PROVE  InboxInv'
<1>1. now' \in 0 .. MaxClock /\ now <= now' /\ now' \in Nat
  BY InboxAssumption DEF Tick, InboxInv, TypeOK
<1>2. TypeOK'
  BY <1>1 DEF Tick, InboxInv, TypeOK
<1>3. Grows
  BY <1>1 DEF Tick, Grows, InboxInv, TypeOK
<1>4. ASSUME NEW e \in Runners PROVE RunInv(e)'
  <2>1. RunInv(e) /\ runs[e].at \in Nat
    BY DEF InboxInv, TypeOK, Run
  <2>2. runs'[e].at <= Clock(e)'
    <3>1. now \in Nat /\ runs[e].at <= Clock(e) /\ runs'[e] = runs[e]
      BY <2>1 DEF Tick, RunInv, InboxInv, TypeOK
    <3>2. Clock(e) \in Nat /\ Clock(e)' \in Nat /\ Clock(e) <= Clock(e)'
      BY <1>1, <3>1, ClockTyped, ClockNext, ClockAdvances
    <3>. QED
      BY <2>1, <3>1, <3>2
  <2>. QED
    BY <2>1, <2>2 DEF Tick, RunInv, Holds
<1>5. FirstInv'
  <2>1. \A e \in Runners, m \in Msgs : Holds(e, m)' => Holds(e, m)
    BY DEF Tick, Holds
  <2>. QED
    BY <1>1, <2>1, FirstKept DEF Tick
<1>. QED
  BY <1>2, <1>3, <1>4, <1>5, HistoryKept DEF Tick, InboxInv

\* DashboardService.retryInbox reads a row and hands it to tryHandle.
LEMMA RetryInboxInv ==
    ASSUME InboxInv, NEW o \in Operators, NEW m \in Msgs, RetryInbox(o, m)
    PROVE  InboxInv'
<1>1. o \in Runners /\ now \in Nat /\ Operators # {} /\ TypeOK
  BY DEF Runners, InboxInv, TypeOK
<1>2. Snapshot(m, 0) \in Rec /\ Snapshot(m, 0).id = m
  BY <1>1, SnapshotTyped
<1>3. /\ runs'[o] = Handling(Snapshot(m, 0)) /\ runs'[o] \in Run
      /\ runs'[o].pc = "handle" /\ runs'[o].rec = Snapshot(m, 0)
      /\ runs'[o].batch = {} /\ runs'[o].at = 0
  <2>1. runs'[o] = Handling(Snapshot(m, 0))
    BY <1>1 DEF RetryInbox, TypeOK
  <2>. QED
    BY <1>2, <2>1, HandlingTyped
<1>4. RunInv(o)'
  BY <1>1, <1>2, <1>3, ClockNext DEF RunInv, Holds, RetryInbox
<1>5. runs' \in [Runners -> Run] /\ \A f \in Runners : f # o => runs'[f] = runs[f]
  BY <1>1, <1>3 DEF RetryInbox, TypeOK
<1>6. Grows /\ TypeOK' /\ now' \in Nat
  BY <1>1, <1>5 DEF RetryInbox, Grows, TypeOK
<1>7. \A f \in Runners : RunInv(f)'
  BY <1>1, <1>4, <1>5, <1>6, OthersKept
<1>8. FirstInv'
  BY <1>1 DEF FirstInv
<1>. QED
  BY <1>6, <1>7, <1>8, HistoryKept DEF RetryInbox, InboxInv

------------------------------------------------------------------------------
(* Steps that write a row                                                  *)

\* The insert of a delivery: the row is new, so nobody holds it yet.
LEMMA TrySaveReceivedInv ==
    ASSUME InboxInv, NEW c \in Consumers, TrySaveReceived(c)
    PROVE  InboxInv'
<1>. DEFINE m == runs[c].rec.id
<1>1. /\ c \in Runners /\ RunInv(c) /\ runs[c].pc = "save" /\ runs[c] \in Run
      /\ runs[c].rec \in Rec /\ m \in Msgs /\ runs[c].at \in Nat
      /\ now \in Nat /\ now' = now /\ TypeOK
  BY DEF Runners, InboxInv, TypeOK, RunInv, Rec, Run, TrySaveReceived
<1>2. /\ failures' \in [Msgs -> 0 .. MaxSeen] /\ \A k \in Msgs : failures[k] <= failures'[k]
      /\ handled' \subseteq Msgs /\ handled \subseteq handled' /\ marked' = marked
      /\ deliveries' \in [Msgs -> 0 .. MaxDeliveries]
  BY DEF TrySaveReceived, InboxInv, TypeOK
<1>3. CASE rows' = rows /\ Fault(c)
  <2>1. /\ runs' \in [Runners -> Run] /\ \A f \in Runners : f # c => runs'[f] = runs[f]
        /\ \A k \in Msgs : ~Holds(c, k)'
        /\ RunInv(c)' /\ runs'[c].pc = "idle"
        /\ acked' = acked /\ faults' \in 0 .. MaxFaults
    BY <1>1, <1>3, FaultEffect
  <2>. QED
    BY <1>1, <1>2, <1>3, <2>1, RunnerStep
<1>4. CASE rows' = rows /\ rows[m].status # "absent" /\ Acknowledge(c) /\ faults' = faults
  <2>1. /\ runs'[c] = Idle /\ runs' \in [Runners -> Run]
        /\ \A f \in Runners : f # c => runs'[f] = runs[f]
    BY <1>1, <1>4, IdleTyped DEF Acknowledge, TypeOK
  <2>2. RunInv(c)' /\ \A k \in Msgs : ~Holds(c, k)'
    BY <1>1, <2>1, IdleTyped, ClockNext DEF RunInv, Holds, Busy
  <2>3. TypeOK' /\ Grows /\ now' \in Nat
    BY <1>1, <1>2, <1>4, <2>1 DEF TypeOK, Grows, Acknowledge
  <2>4. \A f \in Runners : RunInv(f)'
    BY <1>1, <2>1, <2>2, <2>3, OthersKept
  <2>5. FirstInv'
    <3>1. \A f \in Runners, k \in Msgs : Holds(f, k)' => Holds(f, k)
      BY <2>1, <2>2 DEF Holds
    <3>2. runs'[c].pc # "handle"
      BY <2>1, IdleTyped
    <3>. QED
      BY <1>1, <1>4, <2>1, <3>1, <3>2, FirstKept DEF Runners
  <2>6. CountInv' /\ ProcessedWasHandled' /\ DeadLetterEarned'
    BY <1>4 DEF TrySaveReceived, InboxInv, CountInv, ProcessedWasHandled, DeadLetterEarned
  <2>7. AckedIsStored'
    BY <1>4 DEF Acknowledge, InboxInv, AckedIsStored
  <2>. QED
    BY <2>3, <2>4, <2>5, <2>6, <2>7 DEF InboxInv
<1>5. ASSUME rows[m].status = "absent",
             rows' = [rows EXCEPT ![m] = PendingRow(runs[c].at)], acked' = acked,
             \/ Fault(c)
             \/ runs' = [runs EXCEPT ![c] = Handling(runs[c].rec)] /\ faults' = faults
      PROVE  InboxInv'
  <2>1. /\ rows'[m] = PendingRow(runs[c].at) /\ rows' \in [Msgs -> Row]
        /\ rows'[m].status = "pending" /\ rows'[m].retry = 0
        /\ \A k \in Msgs : k # m => rows'[k] = rows[k]
    <3>1. /\ PendingRow(runs[c].at) \in Row /\ PendingRow(runs[c].at).status = "pending"
          /\ PendingRow(runs[c].at).retry = 0
      BY <1>1, PendingEffect
    <3>. QED
      BY <1>1, <1>5, <3>1 DEF TypeOK
  <2>2. \A f \in Runners : ~Holds(f, m)
    BY <1>1, <1>5 DEF InboxInv, RunInv
  <2>3. /\ runs' \in [Runners -> Run] /\ \A f \in Runners : f # c => runs'[f] = runs[f]
        /\ RunInv(c)' /\ faults' \in 0 .. MaxFaults
        /\ \A k \in Msgs : Holds(c, k)' => k = m
    <3>1. CASE Fault(c)
      BY <1>1, <3>1, FaultEffect
    <3>2. CASE runs' = [runs EXCEPT ![c] = Handling(runs[c].rec)] /\ faults' = faults
      <4>1. /\ runs'[c] \in Run /\ runs'[c].pc = "handle" /\ runs'[c].rec = runs[c].rec
            /\ runs'[c].batch = {} /\ runs'[c].at = 0
        BY <1>1, <3>2, HandlingTyped DEF TypeOK
      <4>2. \A k \in Msgs : Holds(c, k)' => k = m
        BY <4>1 DEF Holds
      <4>3. RunInv(c)'
        BY <1>1, <2>1, <4>1, <4>2, ClockNext DEF RunInv
      <4>. QED
        BY <3>2, <4>1, <4>2, <4>3 DEF TypeOK, InboxInv
    <3>. QED
      BY <1>5, <3>1, <3>2
  <2>4. TypeOK' /\ Grows /\ now' \in Nat
    BY <1>1, <1>2, <1>5, <2>1, <2>3 DEF TypeOK, Grows
  <2>5. \A f \in Runners : RunInv(f)'
    BY <1>1, <2>3, <2>4, OthersKept
  <2>6. CountInv' /\ AckedIsStored' /\ ProcessedWasHandled' /\ DeadLetterEarned'
    <3>1. failures' = failures /\ marked' = marked /\ handled' = handled
      BY DEF TrySaveReceived
    <3>2. CountInv'
      BY <1>1, <2>1, <3>1 DEF TypeOK, InboxInv, CountInv
    <3>3. AckedIsStored'
      BY <1>1, <1>5, <2>1 DEF TypeOK, InboxInv, AckedIsStored
    <3>4. ProcessedWasHandled' /\ DeadLetterEarned'
      BY <2>1, <3>1 DEF InboxInv, ProcessedWasHandled, DeadLetterEarned
    <3>. QED
      BY <3>2, <3>3, <3>4
  <2>7. FirstInv'
    <3>1. ASSUME Operators = {}, NEW d \in Consumers, NEW k \in Msgs
          PROVE  /\ \A e \in Consumers : Holds(d, k)' /\ Holds(e, k)' => d = e
                 /\ runs'[d].pc = "handle" /\ runs'[d].rec.id = k
                    /\ (rows[k].status' # "pending" \/ \E r \in Retriers : Holds(r, k)')
                    => Lapsed(k)'
      <4>1. \A f \in Runners : f # c => (Holds(f, k)' <=> Holds(f, k))
        BY <2>3 DEF Holds
      <4>2. c \notin Retriers /\ Consumers \subseteq Runners /\ Retriers \subseteq Runners
        BY InboxAssumption DEF Runners
      <4>3. CASE k = m
        <5>1. \A f \in Runners : Holds(f, k)' => f = c
          BY <2>2, <4>1, <4>3
        <5>2. ~\E r \in Retriers : Holds(r, k)'
          BY <4>2, <5>1
        <5>. QED
          BY <2>1, <4>2, <4>3, <5>1, <5>2
      <4>4. CASE k # m
        <5>1. ~Holds(c, k)' /\ rows'[k] = rows[k]
          BY <2>1, <2>3, <4>4
        <5>2. runs'[d].pc = "handle" /\ runs'[d].rec.id = k => d # c
          BY <5>1 DEF Holds, Busy
        <5>. QED
          BY <1>1, <2>3, <3>1, <4>1, <4>2, <5>1, <5>2 DEF InboxInv, FirstInv, Lapsed, Clock
      <4>. QED
        BY <4>3, <4>4
    <3>. QED
      BY <3>1 DEF FirstInv
  <2>. QED
    BY <2>4, <2>5, <2>6, <2>7 DEF InboxInv
<1>. QED
  BY <1>3, <1>4, <1>5 DEF TrySaveReceived, Executed, Fault

\* A runner writes the row it holds.
LEMMA RowWritten ==
    ASSUME InboxInv, NEW e \in Runners, NEW m \in Msgs, Holds(e, m),
           NEW row \in Row, rows' = [rows EXCEPT ![m] = row],
           row.status # "absent", row.born = rows[m].born,
           row.retry <= failures[m] \/ failures[m] = MaxSeen,
           row.status = "processed" => m \in handled,
           row.status = "dead_letter" => failures[m] >= MaxInboxRetries,
           runs' \in [Runners -> Run], RunInv(e)',
           \A f \in Runners : f # e => runs'[f] = runs[f],
           \A k \in Msgs : Holds(e, k)' => Holds(e, k),
           e \in Consumers => runs'[e].pc # "handle",
           acked' \subseteq Msgs, \A k \in acked' : rows[k].status' # "absent",
           faults' \in 0 .. MaxFaults,
           UNCHANGED <<deliveries, now, handled, failures, marked>>
    PROVE  InboxInv'
<1>1. /\ rows' \in [Msgs -> Row] /\ rows'[m] = row
      /\ \A k \in Msgs : k # m => rows'[k] = rows[k]
  BY DEF InboxInv, TypeOK
<1>2. TypeOK' /\ Grows /\ now' \in Nat /\ now <= now'
  BY <1>1 DEF InboxInv, TypeOK, Grows
<1>3. \A f \in Runners : RunInv(f)'
  BY <1>2, OthersKept
<1>4. CountInv' /\ AckedIsStored' /\ ProcessedWasHandled' /\ DeadLetterEarned'
  BY <1>1 DEF InboxInv, CountInv, AckedIsStored, ProcessedWasHandled, DeadLetterEarned
<1>5. FirstInv'
  <2>1. \A f \in Runners, k \in Msgs : Holds(f, k)' => Holds(f, k)
    BY DEF Holds
  <2>2. \A k \in Msgs : rows[k].born' = rows[k].born
    BY <1>1
  <2>3. \A k \in Msgs :
            rows[k].status = "pending" /\ rows[k].status' # "pending" =>
                \/ Operators # {}
                \/ \E r \in Retriers : Holds(r, k)
                \/ \E d \in Consumers : Holds(d, k) /\ runs'[d].pc # "handle"
    BY <1>1 DEF Runners
  <2>4. \A c \in Consumers : runs'[c].pc = "handle" => runs'[c] = runs[c]
    BY DEF Runners
  <2>. QED
    BY <1>2, <2>1, <2>2, <2>3, <2>4, FirstKept
<1>. QED
  BY <1>2, <1>3, <1>4, <1>5 DEF InboxInv

\* markProcessed resolves, or throws and is recorded as a failure.
LEMMA MarkProcessedInv ==
    ASSUME InboxInv, NEW e \in Runners, MarkProcessed(e)
    PROVE  InboxInv'
<1>1. PICK m \in Msgs : m = runs[e].rec.id
  BY DEF InboxInv, TypeOK, RunInv, Busy, Rec, MarkProcessed
<1>2. /\ runs[e] \in Run /\ RunInv(e) /\ runs[e].pc = "mark" /\ runs[e].pc \in Busy
      /\ runs[e].rec \in Rec /\ rows[m] \in Row /\ rows[m].status # "absent"
      /\ Holds(e, m) /\ m \in handled /\ now \in Nat /\ now' = now
      /\ (rows[m].retry <= failures[m] \/ failures[m] = MaxSeen)
  BY <1>1 DEF InboxInv, TypeOK, RunInv, Holds, Busy, CountInv, MarkProcessed
<1>3. /\ ProcessedRow(rows[m]) \in Row /\ ProcessedRow(rows[m]).status = "processed"
      /\ ProcessedRow(rows[m]).retry = rows[m].retry
      /\ ProcessedRow(rows[m]).born = rows[m].born
  BY <1>2, ProcessedEffect
<1>4. CASE /\ rows' = [rows EXCEPT ![m] = ProcessedRow(rows[m])]
           /\ Finish(e) /\ faults' = faults
  <2>1. \A k \in Msgs : rows[k].status # "absent" => rows[k].status' # "absent"
    BY <1>3, <1>4 DEF InboxInv, TypeOK
  <2>2. /\ runs' \in [Runners -> Run]
        /\ \A f \in Runners : f # e => runs'[f] = runs[f]
        /\ \A k \in Msgs : Holds(e, k)' => Holds(e, k)
        /\ RunInv(e)'
        /\ e \in Consumers => runs'[e].pc = "idle"
        /\ acked' \subseteq Msgs
        /\ \A k \in acked' : rows[k].status' # "absent"
    BY <1>2, <1>4, <2>1, FinishEffect
  <2>3. faults' \in 0 .. MaxFaults /\ UNCHANGED <<deliveries, now, handled, failures, marked>>
    BY <1>4 DEF MarkProcessed, InboxInv, TypeOK
  <2>. QED
    BY <1>2, <1>3, <1>4, <2>2, <2>3, RowWritten
<1>5. CASE /\ rows' = rows \/ rows' = [rows EXCEPT ![m] = ProcessedRow(rows[m])]
           /\ Caught(e) /\ faults < MaxFaults /\ faults' = faults + 1 /\ acked' = acked
  <2>1. runs'[e] = [runs[e] EXCEPT !.pc = "catch", !.at = Clock(e)]
    BY <1>5 DEF Caught, InboxInv, TypeOK
  <2>2. /\ runs'[e] \in Run /\ runs'[e].pc = "catch" /\ runs'[e].at <= Clock(e)'
        /\ runs'[e].rec = runs[e].rec /\ runs'[e].batch = runs[e].batch
    <3>1. PICK t \in Nat : t = Clock(e) /\ t = Clock(e)'
      BY <1>2, ClockTyped DEF Clock
    <3>2. runs'[e] = [runs[e] EXCEPT !.pc = "catch", !.at = t]
      BY <2>1, <3>1
    <3>3. /\ runs'[e] \in Run /\ runs'[e].pc = "catch" /\ runs'[e].at = t
          /\ runs'[e].rec = runs[e].rec /\ runs'[e].batch = runs[e].batch
      BY <1>2, <3>1, <3>2 DEF Run
    <3>. QED
      BY <3>1, <3>3
  <2>3. runs' \in [Runners -> Run] /\ \A f \in Runners : f # e => runs'[f] = runs[f]
    BY <1>5, <2>2 DEF Caught, InboxInv, TypeOK
  <2>4. \A k \in Msgs : Holds(e, k)' => Holds(e, k)
    BY <1>2, <2>2 DEF Holds
  <2>5. \A k \in Msgs : rows[k].status # "absent" => rows[k].status' # "absent"
    BY <1>3, <1>5 DEF InboxInv, TypeOK
  <2>6. RunInv(e)'
    BY <1>2, <2>2, <2>4, <2>5 DEF RunInv, Busy
  <2>7. /\ faults' \in 0 .. MaxFaults /\ UNCHANGED <<deliveries, now, handled, failures, marked>>
        /\ failures \in [Msgs -> 0 .. MaxSeen] /\ handled \subseteq Msgs
        /\ deliveries \in [Msgs -> 0 .. MaxDeliveries] /\ acked' \subseteq Msgs
        /\ \A k \in Msgs : failures[k] <= failures[k]
        /\ \A k \in acked' : rows[k].status' # "absent"
    BY <1>5, <2>5, InboxAssumption DEF MarkProcessed, InboxInv, TypeOK, AckedIsStored
  <2>8. CASE rows' = rows
    BY <1>5, <2>2, <2>3, <2>4, <2>6, <2>7, <2>8, RunnerStep
  <2>9. CASE rows' = [rows EXCEPT ![m] = ProcessedRow(rows[m])]
    BY <1>2, <1>3, <1>5, <2>2, <2>3, <2>4, <2>6, <2>7, <2>9, RowWritten
  <2>. QED
    BY <1>5, <2>8, <2>9
<1>. QED
  BY <1>1, <1>4, <1>5 DEF MarkProcessed

\* markReceivedFailed writes one more than it read.
LEMMA WriteFailureInv ==
    ASSUME InboxInv, NEW e \in Runners, WriteFailure(e)
    PROVE  InboxInv'
<1>1. PICK m \in Msgs : m = runs[e].rec.id
  BY DEF InboxInv, TypeOK, RunInv, Busy, Rec, WriteFailure
<1>2. PICK d \in ExpJitter(runs[e].rec.retry) :
          rows' = [rows EXCEPT ![m] = FailedRow(rows[m], runs[e].held + 1, runs[e].at + d)]
  BY <1>1 DEF WriteFailure
<1>3. /\ runs[e] \in Run /\ RunInv(e) /\ runs[e].pc = "write" /\ runs[e].pc \in Busy
      /\ rows[m] \in Row /\ rows[m].status # "absent" /\ Holds(e, m)
      /\ now \in Nat /\ now' = now /\ runs[e].held \in Nat /\ runs[e].at \in Nat
      /\ failures[m] \in 0 .. MaxSeen
      /\ runs[e].held < failures[m] \/ failures[m] = MaxSeen
  BY <1>1 DEF InboxInv, TypeOK, RunInv, Run, Holds, Busy, WriteFailure
<1>4. d \in Nat
  BY RetryDelayTyped
<1>5. PICK row :
          /\ rows' = [rows EXCEPT ![m] = row]
          /\ row \in Row /\ row.status \in {"failed", "dead_letter"}
          /\ row.status = "dead_letter" => runs[e].held + 1 >= MaxInboxRetries
          /\ row.retry = runs[e].held + 1 /\ row.born = rows[m].born
  <2>1. PICK row : row = FailedRow(rows[m], runs[e].held + 1, runs[e].at + d)
    OBVIOUS
  <2>2. runs[e].held + 1 \in Nat /\ runs[e].at + d \in Nat /\ rows[m] \in Row
    BY <1>3, <1>4
  <2>3. /\ row \in Row /\ row.status \in {"failed", "dead_letter"}
        /\ row.status = "dead_letter" => runs[e].held + 1 >= MaxInboxRetries
        /\ row.retry = runs[e].held + 1 /\ row.born = rows[m].born
    <3>1. PICK n \in Nat, t \in Nat : n = runs[e].held + 1 /\ t = runs[e].at + d
      BY <2>2
    <3>2. rows[m] \in Row
      BY <2>2
    <3>3. FailedRow(rows[m], n, t) \in Row
      BY <3>2, FailedEffect
    <3>4. FailedRow(rows[m], n, t).status \in {"failed", "dead_letter"}
      BY <3>2, FailedEffect
    <3>5. FailedRow(rows[m], n, t).status = "dead_letter" => n >= MaxInboxRetries
      BY <3>2, FailedEffect
    <3>6. FailedRow(rows[m], n, t).retry = n
      BY <3>2, FailedEffect
    <3>7. FailedRow(rows[m], n, t).born = rows[m].born
      BY <3>2, FailedEffect
    <3>. QED
      BY <2>1, <3>1, <3>3, <3>4, <3>5, <3>6, <3>7
  <2>. QED
    BY <1>2, <2>1, <2>3
<1>7. /\ row.retry <= failures[m] \/ failures[m] = MaxSeen
      /\ row.status = "dead_letter" => failures[m] >= MaxInboxRetries
  BY <1>3, <1>5, InboxAssumption, ReceivedAssumption
<1>8. /\ \A k \in Msgs : rows[k].status # "absent" => rows[k].status' # "absent"
      /\ \A k \in acked : rows[k].status' # "absent"
  BY <1>5 DEF InboxInv, TypeOK, AckedIsStored
<1>9. /\ runs' \in [Runners -> Run]
      /\ \A f \in Runners : f # e => runs'[f] = runs[f]
      /\ \A k \in Msgs : Holds(e, k)' => Holds(e, k)
      /\ RunInv(e)'
      /\ e \in Consumers => runs'[e].pc = "idle"
      /\ acked' \subseteq Msgs
      /\ \A k \in acked' : rows[k].status' # "absent"
      /\ faults' \in 0 .. MaxFaults
  <2>1. CASE Finish(e) /\ faults' = faults
    BY <1>3, <1>8, <2>1, FinishEffect DEF InboxInv, TypeOK
  <2>2. CASE Fault(e)
    BY <1>3, <1>8, <2>2, FaultEffect DEF InboxInv, TypeOK
  <2>. QED
    BY <2>1, <2>2 DEF WriteFailure, Executed
<1>. QED
  BY <1>3, <1>5, <1>7, <1>9, RowWritten DEF WriteFailure

\* The operator's writes leave the runners alone.
LEMMA OperatorWrites ==
    ASSUME InboxInv, NEW m \in Msgs, NEW row \in Row, Operators # {},
           rows' = [rows EXCEPT ![m] = row],
           rows[m].status # "absent", row.status # "absent",
           row.retry <= failures[m] \/ failures[m] = MaxSeen,
           row.status = "processed" => m \in marked', row.status # "dead_letter",
           marked \subseteq marked', marked' \subseteq Msgs,
           UNCHANGED <<runs, acked, deliveries, now, faults, handled, failures>>
    PROVE  InboxInv'
<1>1. /\ rows' \in [Msgs -> Row] /\ rows'[m] = row
      /\ \A k \in Msgs : k # m => rows'[k] = rows[k]
  BY DEF InboxInv, TypeOK
<1>2. TypeOK' /\ \A k \in Msgs : rows[k].status # "absent" => rows[k].status' # "absent"
  BY <1>1 DEF InboxInv, TypeOK
<1>3. ASSUME NEW f \in Runners PROVE RunInv(f)'
  BY <1>2 DEF InboxInv, RunInv, Holds, Clock
<1>4. CountInv' /\ AckedIsStored' /\ ProcessedWasHandled' /\ DeadLetterEarned'
  BY <1>1, <1>2 DEF InboxInv, TypeOK, CountInv, AckedIsStored, ProcessedWasHandled,
     DeadLetterEarned
<1>. QED
  BY <1>2, <1>3, <1>4 DEF InboxInv, FirstInv

\* MarkInboxProcessed keeps InboxInv.
LEMMA MarkInboxProcessedInv ==
    ASSUME InboxInv, NEW m \in Msgs, MarkInboxProcessed(m)
    PROVE  InboxInv'
<1>1. rows[m] \in Row /\ (rows[m].retry <= failures[m] \/ failures[m] = MaxSeen)
      /\ marked \subseteq Msgs
  BY DEF InboxInv, TypeOK, CountInv
<1>2. PICK row \in Row : /\ row = ProcessedRow(rows[m]) /\ row.status = "processed"
                         /\ row.retry = rows[m].retry
  BY <1>1, ProcessedEffect
<1>. QED
  BY <1>1, <1>2, OperatorWrites DEF MarkInboxProcessed

\* Requeue keeps InboxInv.
LEMMA RequeueInv ==
    ASSUME InboxInv, NEW m \in Msgs, Requeue(m)
    PROVE  InboxInv'
<1>1. rows[m] \in Row /\ now \in Nat /\ rows[m].status # "absent"
      /\ marked \subseteq Msgs /\ failures[m] \in Nat
  BY InboxAssumption DEF InboxInv, TypeOK, Requeue, CanRequeue
<1>2. PICK o \in Operators : rows' = [rows EXCEPT ![m] = RequeuedRow(rows[m], Clock(o))]
  BY DEF Requeue
<1>3. PICK row \in Row : /\ row = RequeuedRow(rows[m], Clock(o)) /\ row.status = "failed"
                         /\ row.retry = 0
  <2>1. PICK t \in Nat : t = Clock(o)
    BY <1>1, ClockTyped DEF Runners
  <2>2. /\ RequeuedRow(rows[m], t) \in Row /\ RequeuedRow(rows[m], t).status = "failed"
        /\ RequeuedRow(rows[m], t).retry = 0
    BY <1>1, RequeuedEffect
  <2>. QED
    BY <2>1, <2>2
<1>4. row.retry <= failures[m] /\ row.status \notin {"absent", "processed", "dead_letter"}
  BY <1>1, <1>3
<1>. QED
  BY <1>1, <1>2, <1>3, <1>4, OperatorWrites DEF Requeue

------------------------------------------------------------------------------
(* Retry rounds                                                            *)

\* What getRetryDue returns is stored, unprocessed, and if a delivery is in its
\* first execution the window of its row is over.
LEMMA GetRetryDueInv ==
    ASSUME InboxInv, NEW r \in Retriers, GetRetryDue(r)
    PROVE  InboxInv'
<1>. DEFINE at   == runs[r].at
            due  == { m \in Msgs : RetryDue(rows[m], at, at - Window) }
            page == { m \in due : Place(m, due) < BatchSize }
            batch == { Snapshot(m, Place(m, due)) : m \in page \ Orphans }
<1>1. /\ r \in Runners /\ r \notin Consumers /\ RunInv(r) /\ TypeOK
      /\ at \in Nat /\ at <= Clock(r) /\ now \in Nat /\ now' = now
  BY InboxAssumption DEF Runners, InboxInv, TypeOK, RunInv, Run, GetRetryDue
<1>2. /\ UNCHANGED <<rows, deliveries, handled, failures, marked>>
      /\ failures' \in [Msgs -> 0 .. MaxSeen] /\ \A k \in Msgs : failures[k] <= failures'[k]
      /\ handled' \subseteq Msgs /\ handled \subseteq handled'
      /\ deliveries' \in [Msgs -> 0 .. MaxDeliveries]
  BY DEF GetRetryDue, InboxInv, TypeOK
<1>3. CASE Fault(r)
  <2>1. /\ runs' \in [Runners -> Run] /\ \A f \in Runners : f # r => runs'[f] = runs[f]
        /\ \A m \in Msgs : ~Holds(r, m)'
        /\ RunInv(r)' /\ acked' = acked /\ faults' \in 0 .. MaxFaults
    BY <1>1, <1>3, FaultEffect
  <2>. QED
    BY <1>1, <1>2, <2>1, RunnerStep
<1>4. CASE NextRecord(r, batch) /\ acked' = acked /\ faults' = faults
  <2>1. ASSUME NEW q \in batch
        PROVE  /\ q \in Rec /\ q.id \in due /\ q.status = rows[q.id].status
    <3>1. PICK m \in page \ Orphans : q = Snapshot(m, Place(m, due))
      BY <2>1
    <3>2. m \in due /\ m \in Msgs /\ due \in SUBSET Msgs
      OBVIOUS
    <3>3. Place(m, due) \in Nat
      BY <3>2, PlaceTyped
    <3>. QED
      BY <1>1, <3>1, <3>2, <3>3, SnapshotTyped
  <2>2. batch \in SUBSET Rec
    BY <2>1
  <2>3. \A q \in batch : q.status # "processed" /\ rows[q.id].status' # "absent"
    BY <1>2, <2>1 DEF RetryDue, FailedDue
  <2>4. /\ runs' \in [Runners -> Run]
        /\ \A f \in Runners : f # r => runs'[f] = runs[f]
        /\ \A m \in Msgs : Holds(r, m)' => \E q \in batch : q.id = m
        /\ RunInv(r)'
    BY <1>1, <1>4, <2>2, <2>3, NextRecordEffect
  <2>5. \A m \in Msgs : Holds(r, m)' => m \in due
    BY <2>1, <2>4
  <2>6. TypeOK' /\ Grows /\ now' \in Nat
    BY <1>1, <1>2, <1>4, <2>4 DEF TypeOK, Grows
  <2>7. \A f \in Runners : RunInv(f)'
    BY <1>1, <2>4, <2>6, OthersKept
  <2>8. FirstInv'
    <3>1. ASSUME Operators = {}, NEW c \in Consumers, NEW m \in Msgs
          PROVE  /\ \A d \in Consumers : Holds(c, m)' /\ Holds(d, m)' => c = d
                 /\ runs'[c].pc = "handle" /\ runs'[c].rec.id = m
                    /\ (rows[m].status' # "pending" \/ \E q \in Retriers : Holds(q, m)')
                    => Lapsed(m)'
      <4>1. \A f \in Runners : f # r => (Holds(f, m)' <=> Holds(f, m))
        BY <2>4 DEF Holds
      <4>2. c # r /\ Consumers \subseteq Runners /\ Retriers \subseteq Runners
        BY <1>1 DEF Runners
      <4>3. \A d \in Consumers : Holds(c, m)' /\ Holds(d, m)' => c = d
        BY <1>1, <3>1, <4>1, <4>2 DEF InboxInv, FirstInv
      <4>4. ASSUME runs'[c].pc = "handle", runs'[c].rec.id = m,
                   rows[m].status' # "pending" \/ \E q \in Retriers : Holds(q, m)'
            PROVE  Lapsed(m)
        <5>1. runs[c].pc = "handle" /\ runs[c].rec.id = m
          BY <2>4, <4>2, <4>4
        <5>2. CASE rows[m].status # "pending" \/ \E q \in Retriers : Holds(q, m)
          BY <3>1, <5>1, <5>2 DEF InboxInv, FirstInv
        <5>3. CASE rows[m].status = "pending" /\ Holds(r, m)'
          <6>1. RetryDue(rows[m], at, at - Window)
            BY <2>5, <5>3
          <6>2. rows[m].born <= at - Window
            BY <5>3, <6>1 DEF RetryDue, FailedDue
          <6>3. rows[m].born \in Int /\ Window \in Nat
            BY <1>1, InboxAssumption DEF TypeOK, Row, Time, NoTime
          <6>4. Clock(r) \in Nat /\ Clock(r) - rows[m].born >= Window
            BY <1>1, <6>2, <6>3, ClockTyped
          <6>. QED
            BY <6>4 DEF Lapsed
        <5>. QED
          BY <1>2, <4>1, <4>2, <4>4, <5>2, <5>3
      <4>. QED
        BY <1>1, <1>2, <4>3, <4>4 DEF Lapsed, Clock
    <3>. QED
      BY <3>1 DEF FirstInv
  <2>. QED
    BY <1>2, <1>4, <2>6, <2>7, <2>8, HistoryKept DEF InboxInv
<1>. QED
  BY <1>3, <1>4 DEF GetRetryDue, Executed

------------------------------------------------------------------------------
(* Invariance                                                              *)

\* The initial states satisfy InboxInv.
LEMMA InitInv == Init => InboxInv
<1>. SUFFICES ASSUME Init PROVE InboxInv
  OBVIOUS
<1>1. \A m \in Msgs : /\ rows[m] \in Row /\ rows[m].retry = 0
                      /\ rows[m].status \in {"absent", "pending"}
  <2>1. PendingRow(0) \in Row /\ PendingRow(0).status = "pending" /\ PendingRow(0).retry = 0
    BY PendingEffect
  <2>2. AbsentRow \in Row /\ AbsentRow.status = "absent" /\ AbsentRow.retry = 0
    BY DEF Row, Status, Time, NoTime, AbsentRow
  <2>. QED
    BY <2>1, <2>2 DEF Init
<1>2. \A e \in Runners : runs[e] = Idle
  BY DEF Init
<1>3. TypeOK
  <2>1. rows \in [Msgs -> Row] /\ runs \in [Runners -> Run]
    BY <1>1, <1>2, IdleTyped DEF Init
  <2>2. /\ deliveries \in [Msgs -> 0 .. MaxDeliveries] /\ failures \in [Msgs -> 0 .. MaxSeen]
        /\ now \in 0 .. MaxClock /\ faults \in 0 .. MaxFaults
    BY InboxAssumption DEF Init
  <2>. QED
    BY <2>1, <2>2 DEF Init, TypeOK
<1>4. \A e \in Runners, m \in Msgs : ~Holds(e, m)
  BY <1>2, IdleTyped DEF Holds, Busy
<1>5. \A e \in Runners : RunInv(e)
  BY <1>2, <1>3, <1>4, IdleTyped, ClockTyped DEF RunInv, Busy, Init, TypeOK
<1>6. CountInv /\ AckedIsStored /\ ProcessedWasHandled /\ DeadLetterEarned
  BY <1>1 DEF Init, CountInv, AckedIsStored, ProcessedWasHandled, DeadLetterEarned
<1>7. FirstInv
  BY <1>2, <1>4, IdleTyped DEF FirstInv, Runners
<1>. QED
  BY <1>3, <1>5, <1>6, <1>7 DEF InboxInv

\* Each step of a delivery, a retry round, an execution or an operator
\* preserves the invariant.
LEMMA NextInv == InboxInv /\ [Next]_vars => InboxInv'
<1>. SUFFICES ASSUME InboxInv, [Next]_vars PROVE InboxInv'
  OBVIOUS
<1>1. ASSUME NEW c \in Consumers, TrySaveReceived(c) \/ \E m \in Msgs : Deliver(c, m)
      PROVE  InboxInv'
  BY <1>1, TrySaveReceivedInv, DeliverInv
<1>2. ASSUME NEW r \in Retriers, BeginRetry(r) \/ GetRetryDue(r)
      PROVE  InboxInv'
  BY <1>2, BeginRetryInv, GetRetryDueInv
<1>3. ASSUME NEW o \in Operators, NEW m \in Msgs, RetryInbox(o, m)
      PROVE  InboxInv'
  BY <1>3, RetryInboxInv
<1>4. ASSUME NEW m \in Msgs, MarkInboxProcessed(m) \/ Requeue(m)
      PROVE  InboxInv'
  BY <1>4, MarkInboxProcessedInv, RequeueInv
<1>5. ASSUME NEW e \in Runners, HandlerStep(e) \/ CompletionStep(e) \/ Crash(e)
      PROVE  InboxInv'
  BY <1>5, HandlerStepInv, MarkProcessedInv, ReadForFailureInv, WriteFailureInv, CrashInv
     DEF CompletionStep
<1>6. CASE Tick
  BY <1>6, TickInv
<1>7. CASE UNCHANGED vars
  BY <1>7 DEF vars, InboxInv, TypeOK, RunInv, Holds, CountInv, AckedIsStored,
     ProcessedWasHandled, DeadLetterEarned, FirstInv, Lapsed, Clock
<1>. QED
  BY <1>1, <1>2, <1>3, <1>4, <1>5, <1>6, <1>7 DEF Next

\* The invariant holds in every reachable state.
THEOREM InboxInvariant == Spec => []InboxInv
<1>. QED
  BY InitInv, NextInv, PTL DEF Spec

------------------------------------------------------------------------------
(* What it shows                                                           *)

\* Every reachable state of the inbox is well typed.
THEOREM InboxTyped == Spec => []TypeOK
<1>1. InboxInv => TypeOK
  BY DEF InboxInv
<1>. QED
  BY <1>1, InboxInvariant, PTL

\* The transport is told of success only for messages the inbox holds.
THEOREM AcknowledgedIsDurable == Spec => []AckedIsStored
<1>1. InboxInv => AckedIsStored
  BY DEF InboxInv
<1>. QED
  BY <1>1, InboxInvariant, PTL

\* No interleaving of executions, retries and failures marks a row processed
\* whose handler never resolved.
THEOREM SuccessIsReal == Spec => []ProcessedWasHandled
<1>1. InboxInv => ProcessedWasHandled
  BY DEF InboxInv
<1>. QED
  BY <1>1, InboxInvariant, PTL

\* Concurrent executions and lost updates never cut a message's retries short.
THEOREM RetriesAreGranted == Spec => []DeadLetterEarned
<1>1. InboxInv => DeadLetterEarned
  BY DEF InboxInv
<1>. QED
  BY <1>1, InboxInvariant, PTL

\* Without an operator, no retry round handles a message beside its first
\* execution before the fallback window is over on some retry round's clock.
THEOREM FirstAttemptIsAlone ==
    ASSUME Operators = {}
    PROVE  Spec => []FirstAttemptProtected
<1>1. ASSUME InboxInv, NEW c \in Consumers, NEW r \in Retriers,
             runs[c].pc = "handle", runs[r].pc = "handle", runs[c].rec.id = runs[r].rec.id
      PROVE  Lapsed(runs[c].rec.id)
  <2>1. c \in Runners /\ r \in Runners
    BY DEF Runners
  <2>2. PICK m \in Msgs : m = runs[c].rec.id
    BY <1>1, <2>1 DEF InboxInv, RunInv, Busy, Rec
  <2>3. Holds(r, m)
    BY <1>1, <2>2 DEF Holds, Busy
  <2>. QED
    BY <1>1, <2>2, <2>3 DEF InboxInv, FirstInv
<1>2. InboxInv => FirstAttemptProtected
  BY <1>1 DEF FirstAttemptProtected
<1>. QED
  BY <1>2, InboxInvariant, PTL

\* Processed work is reopened only by an execution that overlapped it, or by an
\* operator.
THEOREM ReopenedByOverlap == Spec => ReopenedOnlyByOverlap
<1>. DEFINE Reopens(m) ==
        \E e \in Runners : /\ runs[e].pc = "write"
                           /\ runs[e].rec.id = m
                           /\ e \in Operators \/ runs[e].rec.status # "processed"
<1>1. ASSUME InboxInv, [Next]_vars, NEW m \in Msgs,
             rows[m].status = "processed", rows'[m].status # "processed"
      PROVE  Reopens(m)
  <2>1. PICK e \in Runners : WriteFailure(e) /\ runs[e].rec.id = m
    <3>1. ASSUME NEW c \in Consumers, TrySaveReceived(c)
          PROVE  FALSE
      BY <1>1, <3>1 DEF TrySaveReceived, InboxInv, TypeOK
    <3>2. ASSUME NEW k \in Msgs, MarkInboxProcessed(k) \/ Requeue(k)
          PROVE  FALSE
      BY <1>1, <3>2, ProcessedEffect DEF MarkInboxProcessed, Requeue, CanRequeue, InboxInv,
         TypeOK
    <3>3. ASSUME NEW e \in Runners, MarkProcessed(e)
          PROVE  FALSE
      BY <1>1, <3>3, ProcessedEffect DEF MarkProcessed, InboxInv, TypeOK
    <3>4. ASSUME NEW e \in Runners, WriteFailure(e)
          PROVE  runs[e].rec.id = m
      BY <1>1, <3>4 DEF WriteFailure, InboxInv, TypeOK
    <3>5. rows' # rows
      BY <1>1
    <3>. QED
      BY <1>1, <3>1, <3>2, <3>3, <3>4, <3>5 DEF Next, vars, Deliver, BeginRetry, GetRetryDue,
         RetryInbox, HandlerStep, HandlerResolves, HandlerThrows, CompletionStep,
         ReadForFailure, Crash, Tick
  <2>. QED
    BY <1>1, <2>1 DEF WriteFailure, InboxInv, RunInv, Busy
<1>2. InboxInv /\ [Next]_vars =>
        [\A m \in Msgs :
           rows[m].status = "processed" /\ rows'[m].status # "processed" => Reopens(m)]_vars
  BY <1>1
<1>. QED
  BY <1>2, InboxInvariant, PTL DEF Spec, ReopenedOnlyByOverlap
==============================================================================
