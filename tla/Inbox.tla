-------------------------------- MODULE Inbox --------------------------------
(***************************************************************************)
(* The inbox of cap-core: broker deliveries persisted before their handler *)
(* runs (attachSubscription, persistReceived, tryHandle), the scheduler's  *)
(* retries of failed and abandoned rows (retryInboxBatch, retryReceived),  *)
(* and the operator's retry, mark and requeue.  Nothing claims an inbox    *)
(* row: executions of one message may overlap, and their completion writes *)
(* are unconditional.                                                      *)
(*                                                                         *)
(* A message is a delivery identity (group, dedupeKey).  One without a     *)
(* message id gets a fresh identity at every delivery and is therefore     *)
(* several messages here.                                                  *)
(***************************************************************************)
EXTENDS ReceivedStorage, Backoff, FiniteSets

CONSTANTS
    NumMsgs,        \* number of messages; ids follow the order of the row ids
    Orphans,        \* messages whose (topic, group) has no handler any more
    Consumers,      \* concurrent executions of the consume() callback
    Retriers,       \* concurrent executions of retryInboxBatch
    Operators,      \* concurrent dashboard retries; none: no operator at all
    BatchSize,      \* scheduler.batchSize
    Window,         \* scheduler.inboxFallbackWindowMs, in clock ticks
    Ahead,          \* runners of instances whose clock is ahead of the others'
    Drift,          \* by how much
    MaxClock,       \* bound on the clock
    MaxFaults,      \* bound on crashes and storage errors
    MaxDeliveries,  \* bound on the deliveries of one message
    MaxSeen         \* failures stops here; operators touch no row beyond it

Msgs    == 1 .. NumMsgs
Runners == Consumers \cup Retriers \cup Operators

ASSUME InboxAssumption ==
    /\ NumMsgs \in Nat
    /\ Orphans \subseteq Msgs
    /\ Consumers \cap Retriers = {}
    /\ Operators \cap (Consumers \cup Retriers) = {}
    /\ BatchSize \in Nat \ {0}
    /\ Window \in Nat
    /\ Ahead \subseteq Runners
    /\ Drift \in Nat
    /\ MaxClock \in Nat
    /\ MaxFaults \in Nat
    /\ MaxDeliveries \in Nat
    /\ MaxSeen \in Nat /\ MaxSeen >= MaxInboxRetries

VARIABLES
    rows,       \* the inbox table
    runs,       \* what each runner is doing
    acked,      \* messages some delivery of which has been acknowledged
    deliveries, \* deliveries of each message so far
    now,        \* the slowest clock
    faults,     \* crashes and storage errors so far
    handled,    \* history: messages whose handler has resolved
    failures,   \* history: failures of each message that reached the storage
    marked      \* history: messages an operator marked processed

vars == <<rows, runs, acked, deliveries, now, faults, handled, failures, marked>>

------------------------------------------------------------------------------
(* Runners                                                                 *)

\* The row as the runner read it, and its place in the batch.
Rec == [id : Msgs, retry : Nat, status : Status, place : Nat]

NoRec == [id |-> 0, retry |-> 0, status |-> "absent", place |-> 0]

\* The await a runner is in: a storage call ("save", "query", "mark", "catch"
\* and "write": the two halves of markReceivedFailed) or the handler.
Run == [pc    : {"idle", "save", "query", "handle", "mark", "catch", "write"},
        at    : Nat,                \* now captured by the pending call
        rec   : Rec \cup {NoRec},
        held  : Nat,                \* retry_count read by markReceivedFailed
        batch : SUBSET Rec]

Idle == [pc |-> "idle", at |-> 0, rec |-> NoRec, held |-> 0, batch |-> {}]

Handling(rec) == [Idle EXCEPT !.pc = "handle", !.rec = rec]

\* How far the clock of each runner's instance is ahead of the slowest.
Skew == [e \in Runners |-> IF e \in Ahead THEN Drift ELSE 0]

\* new Date() and Date.now() on the instance of e.
Clock(e) == now + Skew[e]

Count(n) == IF n < MaxSeen THEN n + 1 ELSE n

\* ORDER BY key, created_at, id.
Precedes(k, m) ==
    \/ RetryKey(rows[k]) < RetryKey(rows[m])
    \/ /\ RetryKey(rows[k]) = RetryKey(rows[m])
       /\ \/ rows[k].born < rows[m].born
          \/ rows[k].born = rows[m].born /\ k < m

Place(m, S) == Cardinality({ k \in S : Precedes(k, m) })

Snapshot(m, place) ==
    [id |-> m, retry |-> rows[m].retry, status |-> rows[m].status, place |-> place]

\* The next record of a batch, or the end of the round.
NextRecord(e, batch) ==
    \/ /\ batch = {}
       /\ runs' = [runs EXCEPT ![e] = Idle]
    \/ \E r \in batch :
         /\ \A q \in batch : r.place <= q.place
         /\ runs' = [runs EXCEPT ![e] = [Handling(r) EXCEPT !.batch = batch \ {r}]]

\* The consume() callback resolves, and the transport acknowledges.
Acknowledge(e) ==
    /\ runs' = [runs EXCEPT ![e] = Idle]
    /\ acked' = acked \cup {runs[e].rec.id}

\* tryHandle resolves.
Finish(e) ==
    \/ e \in Consumers /\ Acknowledge(e)
    \/ e \in Retriers /\ NextRecord(e, runs[e].batch) /\ UNCHANGED acked
    \/ e \in Operators /\ runs' = [runs EXCEPT ![e] = Idle] /\ UNCHANGED acked

\* An error leaves the callback (the delivery is not acknowledged), the round
\* (the rest of its batch is dropped) or the dashboard call.
Fault(e) ==
    /\ faults < MaxFaults
    /\ faults' = faults + 1
    /\ runs' = [runs EXCEPT ![e] = Idle]
    /\ UNCHANGED acked

\* A storage call has been executed: its reply arrives, or the call fails.
Executed(e, Reply) ==
    \/ Reply /\ UNCHANGED faults
    \/ Fault(e)

\* The catch clause of tryHandle reads the clock and calls markReceivedFailed.
Caught(e) == runs' = [runs EXCEPT ![e] = [@ EXCEPT !.pc = "catch", !.at = Clock(e)]]

------------------------------------------------------------------------------
\* An orphan's row was left behind by a deployment that had the handler.
Init ==
    /\ rows = [m \in Msgs |-> IF m \in Orphans THEN PendingRow(0) ELSE AbsentRow]
    /\ runs = [e \in Runners |-> Idle]
    /\ acked = {}
    /\ deliveries = [m \in Msgs |-> 0]
    /\ now = 0
    /\ faults = 0
    /\ handled = {}
    /\ failures = [m \in Msgs |-> 0]
    /\ marked = {}

------------------------------------------------------------------------------
(* Broker deliveries                                                       *)

\* The broker delivers, again if it likes; concurrently, if it redelivers a
\* message whose callback is still running or a producer sent it twice.
Deliver(c, m) ==
    /\ runs[c].pc = "idle"
    /\ m \notin Orphans
    /\ deliveries[m] < MaxDeliveries
    /\ deliveries' = [deliveries EXCEPT ![m] = @ + 1]
    /\ runs' = [runs EXCEPT ![c] =
           [Idle EXCEPT !.pc = "save", !.at = Clock(c),
                        !.rec = [id |-> m, retry |-> 0, status |-> "pending", place |-> 0]]]
    /\ UNCHANGED <<rows, acked, now, faults, handled, failures, marked>>

\* Mutant: any error of the insert is taken for a duplicate.
TrySaveReceived_anyError(c) ==
    /\ runs[c].pc = "save"
    /\ \/ /\ rows[runs[c].rec.id].status = "absent"
          /\ rows' = [rows EXCEPT ![runs[c].rec.id] = PendingRow(runs[c].at)]
          /\ runs' = [runs EXCEPT ![c] = Handling(runs[c].rec)]
          /\ UNCHANGED <<acked, faults>>
       \/ /\ faults < MaxFaults
          /\ faults' = faults + 1
          /\ Acknowledge(c)
          /\ rows' = rows
    /\ UNCHANGED <<deliveries, now, handled, failures, marked>>

\* trySaveReceived: a duplicate is acknowledged without being handled.
TrySaveReceived(c) ==
    LET m == runs[c].rec.id
    IN /\ runs[c].pc = "save"
       /\ \/ /\ rows[m].status = "absent"
             /\ rows' = [rows EXCEPT ![m] = PendingRow(runs[c].at)]
             /\ Executed(c, /\ runs' = [runs EXCEPT ![c] = Handling(runs[c].rec)]
                            /\ UNCHANGED acked)
          \/ /\ rows[m].status # "absent"
             /\ rows' = rows
             /\ Executed(c, Acknowledge(c))
       /\ UNCHANGED <<deliveries, now, handled, failures, marked>>

------------------------------------------------------------------------------
(* Retry rounds                                                            *)

BeginRetry(r) ==
    /\ runs[r].pc = "idle"
    /\ runs' = [runs EXCEPT ![r] = [@ EXCEPT !.pc = "query", !.at = Clock(r)]]
    /\ UNCHANGED <<rows, acked, deliveries, now, faults, handled, failures, marked>>

\* getRetryDue only reads; records without a handler are skipped when their
\* turn comes, but they have taken a place in the batch.
GetRetryDue(r) ==
    LET at   == runs[r].at
        due  == { m \in Msgs : RetryDue(rows[m], at, at - Window) }
        page == { m \in due : Place(m, due) < BatchSize }
    IN /\ runs[r].pc = "query"
       /\ Executed(r, /\ NextRecord(r, { Snapshot(m, Place(m, due)) : m \in page \ Orphans })
                      /\ UNCHANGED acked)
       /\ UNCHANGED <<rows, deliveries, now, handled, failures, marked>>

------------------------------------------------------------------------------
(* tryHandle                                                               *)

\* Mutant: the row is marked processed whether or not the handler succeeds.
HandlerThrows_swallowed(e) ==
    /\ runs[e].pc = "handle"
    /\ runs' = [runs EXCEPT ![e] = [@ EXCEPT !.pc = "mark"]]
    /\ UNCHANGED <<rows, acked, deliveries, now, faults, handled, failures, marked>>

HandlerResolves(e) ==
    /\ runs[e].pc = "handle"
    /\ runs' = [runs EXCEPT ![e] = [@ EXCEPT !.pc = "mark"]]
    /\ handled' = handled \cup {runs[e].rec.id}
    /\ UNCHANGED <<rows, acked, deliveries, now, faults, failures, marked>>

HandlerThrows(e) ==
    /\ runs[e].pc = "handle"
    /\ Caught(e)
    /\ UNCHANGED <<rows, acked, deliveries, now, faults, handled, failures, marked>>

\* If markProcessed throws, executed or not, the failure is recorded instead.
MarkProcessed(e) ==
    /\ runs[e].pc = "mark"
    /\ \/ /\ rows' = [rows EXCEPT ![runs[e].rec.id] = ProcessedRow(@)]
          /\ Finish(e)
          /\ faults' = faults
       \/ /\ \/ rows' = rows
             \/ rows' = [rows EXCEPT ![runs[e].rec.id] = ProcessedRow(@)]
          /\ Caught(e)
          /\ faults < MaxFaults
          /\ faults' = faults + 1
          /\ acked' = acked
    /\ UNCHANGED <<deliveries, now, handled, failures, marked>>

\* markReceivedFailed, first half: the row is read.
ReadForFailure(e) ==
    LET m == runs[e].rec.id
    IN /\ runs[e].pc = "catch"
       /\ failures' = [failures EXCEPT ![m] = Count(@)]
       /\ Executed(e, /\ runs' = [runs EXCEPT ![e] =
                                     [@ EXCEPT !.pc = "write", !.held = rows[m].retry]]
                      /\ UNCHANGED acked)
       /\ UNCHANGED <<rows, deliveries, now, handled, marked>>

\* ... second half: one more than what was read is written.
WriteFailure(e) ==
    LET me == runs[e]
    IN /\ me.pc = "write"
       /\ \E d \in ExpJitter(me.rec.retry) :
            rows' = [rows EXCEPT ![me.rec.id] = FailedRow(@, me.held + 1, me.at + d)]
       /\ Executed(e, Finish(e))
       /\ UNCHANGED <<deliveries, now, handled, failures, marked>>

------------------------------------------------------------------------------
(* Operators, failures and time                                            *)

\* DashboardService.retryInbox: the row is looked up, whatever its status.
RetryInbox(o, m) ==
    /\ runs[o].pc = "idle"
    /\ rows[m].status # "absent"
    /\ rows[m].retry < MaxSeen
    /\ m \notin Orphans
    /\ runs' = [runs EXCEPT ![o] = Handling(Snapshot(m, 0))]
    /\ UNCHANGED <<rows, acked, deliveries, now, faults, handled, failures, marked>>

MarkInboxProcessed(m) ==
    /\ Operators # {}
    /\ rows[m].status # "absent"
    /\ rows' = [rows EXCEPT ![m] = ProcessedRow(@)]
    /\ marked' = marked \cup {m}
    /\ UNCHANGED <<runs, acked, deliveries, now, faults, handled, failures>>

\* CapEngine.requeueInbox.
Requeue(m) ==
    /\ rows[m].retry < MaxSeen
    /\ CanRequeue(rows[m])
    /\ \E o \in Operators : rows' = [rows EXCEPT ![m] = RequeuedRow(@, Clock(o))]
    /\ UNCHANGED <<runs, acked, deliveries, now, faults, handled, failures, marked>>

\* The process dies, or a storage call throws unexecuted.
Crash(e) ==
    /\ runs[e].pc # "idle"
    /\ Fault(e)
    /\ UNCHANGED <<rows, deliveries, now, handled, failures, marked>>

Tick ==
    /\ now < MaxClock
    /\ now' = now + 1
    /\ UNCHANGED <<rows, runs, acked, deliveries, faults, handled, failures, marked>>

------------------------------------------------------------------------------
HandlerStep(e) == HandlerResolves(e) \/ HandlerThrows(e)

CompletionStep(e) == MarkProcessed(e) \/ ReadForFailure(e) \/ WriteFailure(e)

Next ==
    \/ \E c \in Consumers : TrySaveReceived(c) \/ \E m \in Msgs : Deliver(c, m)
    \/ \E r \in Retriers : BeginRetry(r) \/ GetRetryDue(r)
    \/ \E o \in Operators, m \in Msgs : RetryInbox(o, m)
    \/ \E m \in Msgs : MarkInboxProcessed(m) \/ Requeue(m)
    \/ \E e \in Runners : HandlerStep(e) \/ CompletionStep(e) \/ Crash(e)
    \/ Tick

Spec == Init /\ [][Next]_vars

------------------------------------------------------------------------------
(* Properties                                                              *)

TypeOK ==
    /\ rows \in [Msgs -> Row]
    /\ runs \in [Runners -> Run]
    /\ acked \subseteq Msgs
    /\ deliveries \in [Msgs -> 0 .. MaxDeliveries]
    /\ now \in 0 .. MaxClock
    /\ faults \in 0 .. MaxFaults
    /\ handled \subseteq Msgs
    /\ failures \in [Msgs -> 0 .. MaxSeen]
    /\ marked \subseteq Msgs

\* A delivery is acknowledged only when its message is in the inbox, whatever
\* failed in between: the callback resolves after trySaveReceived.
AckedIsStored ==
    \A m \in acked : rows[m].status # "absent"

\* A row is processed only if the handler has resolved for it, in whichever
\* execution, or an operator said so: duplicates, retries and late failures of
\* other executions never make up a success.
ProcessedWasHandled ==
    \A m \in Msgs : rows[m].status = "processed" => m \in handled \cup marked

\* A row is dead-lettered only after MaxInboxRetries failures: neither
\* concurrent executions nor lost updates of retry_count use up the retries.
DeadLetterEarned ==
    \A m \in Msgs :
        rows[m].status = "dead_letter" => failures[m] >= MaxInboxRetries

\* A row that is processed becomes retryable again only by an execution that
\* began while it was not processed yet, or by an operator's explicit retry:
\* no retry round starts on processed work.  (A delivery begins by inserting
\* the row, so its own record is never a processed one.)
ReopenedOnlyByOverlap ==
    [][\A m \in Msgs :
         rows[m].status = "processed" /\ rows'[m].status # "processed" =>
             \E e \in Runners :
                 /\ runs[e].pc = "write"
                 /\ runs[e].rec.id = m
                 /\ e \in Operators \/ runs[e].rec.status # "processed"]_vars

\* The fallback window of a message is over on the clock of some retry round.
Lapsed(m) == \E r \in Retriers : Clock(r) - rows[m].born >= Window

\* Without an operator, the first execution of a message has the fallback
\* window to itself: no retry round runs the handler beside it before.  The
\* window runs from the consumer's clock (created_at) to a retry round's
\* (pendingBefore): it is shorter where the retry round's is ahead.
FirstAttemptProtected ==
    \A c \in Consumers, r \in Retriers :
        /\ runs[c].pc = "handle"
        /\ runs[r].pc = "handle"
        /\ runs[c].rec.id = runs[r].rec.id
        => Lapsed(runs[c].rec.id)

------------------------------------------------------------------------------
(* The inductive invariant behind the safety properties                    *)

\* The awaits of tryHandle.
Busy == {"handle", "mark", "catch", "write"}

\* e executes the handler of m or records its outcome, or will.
Holds(e, m) ==
    \/ runs[e].pc \in Busy /\ runs[e].rec.id = m
    \/ \E r \in runs[e].batch : r.id = m

\* What a runner goes by was read from a stored row, and stays true of it.
RunInv(e) ==
    /\ runs[e].pc \in Busy \cup {"save"} => runs[e].rec \in Rec
    /\ \A m \in Msgs : Holds(e, m) => rows[m].status # "absent"
    /\ runs[e].at <= Clock(e)
    /\ runs[e].pc = "mark" => runs[e].rec.id \in handled
    /\ runs[e].pc = "write" =>
         LET seen == failures[runs[e].rec.id]
         IN  runs[e].held < seen \/ seen = MaxSeen
    /\ \A r \in runs[e].batch : r.status # "processed"
    /\ e \notin Operators /\ runs[e].pc \in Busy \cup {"save"} =>
         runs[e].rec.status # "processed"

\* A row counts no failure that did not happen.
CountInv == \A m \in Msgs : rows[m].retry <= failures[m] \/ failures[m] = MaxSeen

\* The row of a delivery in its first execution is untouched, and out of the
\* retry rounds' sight, until the fallback window is over; no other consumer
\* executes it.
FirstInv ==
    Operators = {} =>
        \A c \in Consumers, m \in Msgs :
            /\ \A d \in Consumers : Holds(c, m) /\ Holds(d, m) => c = d
            /\ runs[c].pc = "handle" /\ runs[c].rec.id = m
               /\ (rows[m].status # "pending" \/ \E r \in Retriers : Holds(r, m))
               => Lapsed(m)

\* Inductive: what trySaveReceived, the retry rounds and tryHandle hold across
\* their awaits agrees with the rows and with what happened to each message.
InboxInv ==
    /\ TypeOK
    /\ \A e \in Runners : RunInv(e)
    /\ CountInv
    /\ AckedIsStored /\ ProcessedWasHandled /\ DeadLetterEarned
    /\ FirstInv
==============================================================================
