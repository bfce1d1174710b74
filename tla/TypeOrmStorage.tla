--------------------------- MODULE TypeOrmStorage ----------------------------
(***************************************************************************)
(* The statements TypeOrmPublishStorage and TypeOrmReceivedStorage send,   *)
(* as predicates and updates of one row.  db is the dialect.               *)
(***************************************************************************)
EXTENDS SqlDatabase

CONSTANTS NoOwner, MaxRetries, MaxInboxRetries

\* supportsTypeOrmSkipLockedClaiming
LocksClaimed(db) == db \in {"postgres", "cockroachdb", "mysql", "mariadb"}

Saved(row) == [row EXCEPT !.status = "pending"]

Claimable(row, t) ==
    \/ row.status = "pending"
    \/ row.status = "failed" /\ (row.due = NoTime \/ row.due <= t)
    \/ row.status = "processing" /\ NotAfter(row.until, t)

\* The second statement of a claim: UPDATE ... WHERE id IN (ids), whatever the
\* row holds by then.
Claimed(row, read, owner, until) ==
    [row EXCEPT !.status = "processing", !.owner = owner, !.until = until]

Fenced(row, expected) ==
    \/ expected = NoOwner
    \/ row.status = "processing" /\ row.owner = expected

Published(row) ==
    [row EXCEPT !.status = "published", !.owner = NoOwner, !.until = NoTime,
                !.due = NoTime]

usesMySqlAssignmentSemantics(db) == db \in {"mysql", "mariadb"}

Failed(db, row, due) ==
    LET count == SeenAfterCount(db, row).retry
        dead  == IF usesMySqlAssignmentSemantics(db) THEN count >= MaxRetries
                 ELSE count + 1 >= MaxRetries
    IN  [row EXCEPT !.retry = @ + 1,
                    !.status = IF dead THEN "dead_letter" ELSE "failed",
                    !.due = IF dead THEN NoTime ELSE due,
                    !.owner = NoOwner, !.until = NoTime]

Renewable(row, owner, t) ==
    row.status = "processing" /\ row.owner = owner /\ After(row.until, t)

Renewed(row, until) == [row EXCEPT !.until = until]

Lapsed(row, t) == row.status = "processing" /\ NotAfter(row.until, t)

Released(row) ==
    [row EXCEPT !.status = "failed", !.owner = NoOwner, !.until = NoTime]

Requeueable(row) == row.status \in {"failed", "dead_letter"}

Requeued(row, t) ==
    [row EXCEPT !.status = "failed", !.retry = 0, !.due = t,
                !.owner = NoOwner, !.until = NoTime]

-----------------------------------------------------------------------------
\* The received rows.

Processed(row) == [row EXCEPT !.status = "processed", !.due = NoTime]

\* read is the row as the SELECT before the UPDATE found it.
ReceivedFailed(row, read, due) ==
    LET dead == read.retry + 1 >= MaxInboxRetries
    IN  [row EXCEPT !.retry = read.retry + 1,
                    !.status = IF dead THEN "dead_letter" ELSE "failed",
                    !.due = IF dead THEN NoTime ELSE due]

\* pendingBefore is NoTime when the caller passed none.
RetryDue(row, t, pendingBefore) ==
    \/ row.status = "failed" /\ NotAfter(row.due, t)
    \/ row.status = "pending" /\ pendingBefore # NoTime /\ row.born <= pendingBefore

ReceivedRequeued(row, t) == [row EXCEPT !.status = "failed", !.retry = 0, !.due = t]

-----------------------------------------------------------------------------
\* mapOutboxSnapshot, mapInboxSnapshot: one group at a time, over zeros.
Snapshot(groups, statuses) ==
    LET found(s) == {g \in groups : g.status = s}
        oldest(s) == IF found(s) = {} THEN NoTime ELSE (CHOOSE g \in found(s) : TRUE).oldest
    IN  [counts |-> [s \in statuses |->
                        IF found(s) = {} THEN 0 ELSE (CHOOSE g \in found(s) : TRUE).count],
         oldestPendingAt |-> oldest("pending"), oldestFailedAt |-> oldest("failed")]

-----------------------------------------------------------------------------
\* of is the rows of the topic asked for, or all.
listPublish(rows, of, born, onlyUnpublished, t, limit, offset) ==
    Page({r \in of : onlyUnpublished => Claimable(rows[r], t)}, born, limit, offset)

listReceived(rows, of, born, due, t, limit, offset) ==
    Page({r \in of : due => rows[r].status = "failed" /\ NotAfter(rows[r].due, t)},
         born, limit, offset)
==============================================================================
