---------------------------- MODULE PrismaStorage ----------------------------
(***************************************************************************)
(* The raw statements PrismaPublishStorage and PrismaReceivedStorage send, *)
(* as predicates and updates of one row.  db is the resolved provider.     *)
(***************************************************************************)
EXTENDS SqlDatabase

CONSTANTS NoOwner, MaxRetries, MaxInboxRetries

\* lockClause
LocksClaimed(db) == db # "sqlite"

Saved(row) == [row EXCEPT !.status = "pending"]

Claimable(row, t) ==
    \/ row.status = "pending"
    \/ row.status = "failed" /\ (row.due = NoTime \/ row.due <= t)
    \/ row.status = "processing" /\ NotAfter(row.until, t)

\* UPDATE ... WHERE id IN (ids): what was read is not compared again.
Claimed(row, read, owner, until) ==
    [row EXCEPT !.status = "processing", !.owner = owner, !.until = until]

\* Mutant: the status is fenced and the owner is not.
Fenced_status(row, expected) == expected # NoOwner => row.status = "processing"

\* ownershipWhere is empty without an expected owner.
Fenced(row, expected) ==
    expected # NoOwner => row.status = "processing" /\ row.owner = expected

Published(row) ==
    [row EXCEPT !.status = "published", !.owner = NoOwner, !.until = NoTime,
                !.due = NoTime]

\* Mutant: the threshold forgets that MySQL has counted the failure already.
Failed_threshold(db, row, due) ==
    LET dead == SeenAfterCount(db, row).retry + 1 >= MaxRetries
    IN  [row EXCEPT !.retry = @ + 1,
                    !.status = IF dead THEN "dead_letter" ELSE "failed",
                    !.due = IF dead THEN NoTime ELSE due,
                    !.owner = NoOwner, !.until = NoTime]

\* thresholdRetryCount is what the later CASE expressions compare.
Failed(db, row, due) ==
    LET thresholdRetryCount ==
            SeenAfterCount(db, row).retry + (IF db = "mysql" THEN 0 ELSE 1)
        dead == thresholdRetryCount >= MaxRetries
    IN  [row EXCEPT !.retry = @ + 1,
                    !.status = IF dead THEN "dead_letter" ELSE "failed",
                    !.due = IF dead THEN NoTime ELSE due,
                    !.owner = NoOwner, !.until = NoTime]

Renewable(row, owner, t) ==
    row.status = "processing" /\ row.owner = owner /\ After(row.until, t)

Renewed(row, until) == [row EXCEPT !.until = until]

Lapsed(row, t) == row.status = "processing" /\ NotAfter(row.until, t)

Released(row) ==
    [row EXCEPT !.status = "failed", !.owner = NoOwner, !.until = NoTime]

Requeueable(row) == row.status \in {"failed", "dead_letter"}

Requeued(row, t) ==
    [row EXCEPT !.status = "failed", !.retry = 0, !.due = t,
                !.owner = NoOwner, !.until = NoTime]

-----------------------------------------------------------------------------
\* The received rows.

\* On MySQL the insert, the reading of LAST_INSERT_ID and the search for the
\* duplicate share a transaction; elsewhere each statement commits.
InsertsInTransaction(db) == db = "mysql"

Processed(row) == [row EXCEPT !.status = "processed", !.due = NoTime]

\* read is the row as findReceivedRowById found it.
ReceivedFailed(row, read, due) ==
    LET count == read.retry + 1
        dead  == count >= MaxInboxRetries
    IN  [row EXCEPT !.retry = count,
                    !.status = IF dead THEN "dead_letter" ELSE "failed",
                    !.due = IF dead THEN NoTime ELSE due]

RetryDue(row, t, pendingBefore) ==
    \/ row.status = "failed" /\ NotAfter(row.due, t)
    \/ row.status = "pending" /\ pendingBefore # NoTime /\ row.born <= pendingBefore

ReceivedRequeued(row, t) == [row EXCEPT !.status = "failed", !.retry = 0, !.due = t]

-----------------------------------------------------------------------------
\* mapOutboxSnapshot, mapInboxSnapshot of the aggregated rows.
Snapshot(groups, statuses) ==
    LET row(s) == CHOOSE g \in groups : g.status = s
        has(s) == \E g \in groups : g.status = s
    IN  [counts |-> [s \in statuses |-> IF has(s) THEN row(s).count ELSE 0],
         oldestPendingAt |-> IF has("pending") THEN row("pending").oldest ELSE NoTime,
         oldestFailedAt |-> IF has("failed") THEN row("failed").oldest ELSE NoTime]

-----------------------------------------------------------------------------
\* Mutant: rows whose claim has run out are not listed.
listPublish_idle(rows, of, born, onlyUnpublished, t, limit, offset) ==
    Page({r \in of : onlyUnpublished => rows[r].status # "processing" /\ Claimable(rows[r], t)},
         born, limit, offset)

\* of is the rows of the topic asked for, or all.
listPublish(rows, of, born, onlyUnpublished, t, limit, offset) ==
    Page({r \in of : onlyUnpublished => Claimable(rows[r], t)}, born, limit, offset)

listReceived(rows, of, born, due, t, limit, offset) ==
    Page({r \in of : due => rows[r].status = "failed" /\ NotAfter(rows[r].due, t)},
         born, limit, offset)
==============================================================================
