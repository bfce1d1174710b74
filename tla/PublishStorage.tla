--------------------------- MODULE PublishStorage ----------------------------
(***************************************************************************)
(* One outbox row and the conditional updates the publish storages run on  *)
(* it.  Every adapter (in-memory, Knex, TypeORM, Prisma, MikroORM) writes  *)
(* these same predicates; the lines mapped are the Knex ones, where each   *)
(* operation is one UPDATE and therefore atomic for a row.                 *)
(*                                                                         *)
(* payload, topic, headers, last_error, published_at and updated_at are    *)
(* left out: no decision reads them.                                       *)
(***************************************************************************)
EXTENDS Integers

CONSTANTS
    Tokens,         \* claim-owner tokens (instanceId:uuid, one per claim round)
    NoOwner,        \* locked_by IS NULL; also "no expectedLockedBy was passed"
    MaxRetries      \* failures after which a row is dead-lettered

ASSUME StorageAssumption ==
    /\ NoOwner \notin Tokens
    /\ MaxRetries \in Nat \ {0}

NoTime == -1                        \* a NULL timestamp
Time   == Nat \cup {NoTime}

\* "absent" is a row that was never inserted, or not yet committed.
Status == {"absent", "pending", "processing", "published", "failed", "dead_letter"}

Row == [status : Status,
        retry  : Nat,                       \* retry_count
        due    : Time,                      \* next_retry_at
        owner  : Tokens \cup {NoOwner},     \* locked_by
        until  : Time]                      \* locked_until

AbsentRow == [status |-> "absent", retry |-> 0, due |-> NoTime,
              owner |-> NoOwner, until |-> NoTime]

\* The row publish() inserts.
PendingRow == [AbsentRow EXCEPT !.status = "pending"]

\* Mutants: the end of the lease is not compared; no lease ever expires.
Expired_always(row, t) == row.status = "processing"
Expired_never(row, t) == FALSE

Expired(row, t) ==
    /\ row.status = "processing"
    /\ row.until # NoTime
    /\ row.until <= t

\* applyClaimableWhere: a NULL next_retry_at is due at once.
Claimable(row, t) ==
    \/ row.status = "pending"
    \/ row.status = "failed" /\ row.due <= t
    \/ Expired(row, t)

ClaimedRow(row, token, until) ==
    [row EXCEPT !.status = "processing", !.owner = token, !.until = until]

\* applyOwnershipWhere: without an expected owner the update is unconditional.
Owns(row, expected) ==
    \/ expected = NoOwner
    \/ row.status = "processing" /\ row.owner = expected

\* Mutant: the expected owner is ignored.
CanComplete_unfenced(row, expected) == row.status # "absent"

\* The UPDATEs below match no row that was never committed.
CanComplete(row, expected) == row.status # "absent" /\ Owns(row, expected)

PublishedRow(row) ==
    [row EXCEPT !.status = "published", !.due = NoTime,
                !.owner = NoOwner, !.until = NoTime]

\* The failed row; next retry at due unless this failure was the last allowed.
FailedRow(row, due) ==
    LET dead == row.retry + 1 >= MaxRetries
    IN  [row EXCEPT !.retry = row.retry + 1,
                    !.status = IF dead THEN "dead_letter" ELSE "failed",
                    !.due = IF dead THEN NoTime ELSE due,
                    !.owner = NoOwner, !.until = NoTime]

\* Mutant: locked_by is not compared.
CanRenew_anyOwner(row, token, t) == row.status = "processing" /\ row.until > t

CanRenew(row, token, t) ==
    /\ row.status = "processing"
    /\ row.owner = token
    /\ row.until > t

RenewedRow(row, until) == [row EXCEPT !.until = until]

\* Mutant: an expired claim counts as a failure.
ReleasedRow_counted(row, t) ==
    IF Expired(row, t)
    THEN [row EXCEPT !.status = "failed", !.retry = row.retry + 1,
                     !.owner = NoOwner, !.until = NoTime]
    ELSE row

\* releaseExpiredClaims touches neither retry_count nor next_retry_at.
ReleasedRow(row, t) ==
    IF Expired(row, t)
    THEN [row EXCEPT !.status = "failed", !.owner = NoOwner, !.until = NoTime]
    ELSE row

\* Mutant: published rows can be requeued.
CanRequeue_published(row) == row.status \in {"published", "failed", "dead_letter"}

CanRequeue(row) == row.status \in {"failed", "dead_letter"}

RequeuedRow(row, t) ==
    [row EXCEPT !.status = "failed", !.retry = 0, !.due = t,
                !.owner = NoOwner, !.until = NoTime]
==============================================================================
