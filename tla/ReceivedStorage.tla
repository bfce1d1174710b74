-------------------------- MODULE ReceivedStorage ---------------------------
(***************************************************************************)
(* One inbox row and what the received storages do to it.  A row is        *)
(* identified by (group, dedupeKey), which is unique.  markProcessed and   *)
(* markReceivedFailed are unconditional; markReceivedFailed reads the row  *)
(* first and writes the incremented count back, in two statements (Knex,   *)
(* TypeORM, Prisma, MikroORM; the lines mapped are the Knex ones).         *)
(*                                                                         *)
(* Payload, headers, last_error, processed, processed_at and updated_at    *)
(* are left out: no decision reads them.                                   *)
(***************************************************************************)
EXTENDS Integers

CONSTANT
    MaxInboxRetries \* failures after which a row is dead-lettered

ASSUME ReceivedAssumption == MaxInboxRetries \in Nat \ {0}

NoTime == -1                        \* a NULL timestamp
Time   == Nat \cup {NoTime}

\* "absent" is an identity never received.
Status == {"absent", "pending", "processed", "failed", "dead_letter"}

Row == [status : Status,
        retry  : Nat,               \* retry_count
        due    : Time,              \* next_retry
        born   : Time]              \* created_at: when the delivery was received

AbsentRow == [status |-> "absent", retry |-> 0, due |-> NoTime, born |-> NoTime]

PendingRow(t) == [AbsentRow EXCEPT !.status = "pending", !.born = t]

\* A NULL next_retry is never due.
FailedDue(row, t) ==
    row.status = "failed" /\ row.due # NoTime /\ row.due <= t

\* Mutant: the state of the row is not looked at.
RetryDue_anyStatus(row, t, pendingBefore) ==
    row.status # "absent" /\ row.due <= t /\ row.born <= t

\* Mutant: the fallback window is not subtracted.
RetryDue_noWindow(row, t, pendingBefore) ==
    \/ FailedDue(row, t)
    \/ row.status = "pending" /\ row.born <= t

\* getRetryDue's WHERE.
RetryDue(row, t, pendingBefore) ==
    \/ FailedDue(row, t)
    \/ row.status = "pending" /\ row.born <= pendingBefore

\* ... and the leading term of its ORDER BY.
RetryKey(row) == IF row.status = "failed" THEN row.due ELSE row.born

ProcessedRow(row) == [row EXCEPT !.status = "processed", !.due = NoTime]

\* Mutant: a row is dead-lettered one failure early.
FailedRow_early(row, count, due) ==
    LET dead == count + 1 >= MaxInboxRetries
    IN  [row EXCEPT !.retry = count,
                    !.status = IF dead THEN "dead_letter" ELSE "failed",
                    !.due = IF dead THEN NoTime ELSE due]

\* Mutant: the last allowed failure leaves the row failed without a due time.
FailedRow_stuck(row, count, due) ==
    LET dead == count >= MaxInboxRetries
    IN  [row EXCEPT !.retry = count, !.status = "failed",
                    !.due = IF dead THEN NoTime ELSE due]

FailedRow(row, count, due) ==
    LET dead == count >= MaxInboxRetries
    IN  [row EXCEPT !.retry = count,
                    !.status = IF dead THEN "dead_letter" ELSE "failed",
                    !.due = IF dead THEN NoTime ELSE due]

CanRequeue(row) == row.status \in {"failed", "dead_letter"}

RequeuedRow(row, t) == [row EXCEPT !.status = "failed", !.retry = 0, !.due = t]
==============================================================================
