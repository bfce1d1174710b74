---------------------------- MODULE MikroStorage -----------------------------
(***************************************************************************)
(* What MikroPublishStorage and MikroReceivedStorage write.  Claims and    *)
(* the marks of received rows change a loaded entity and flush it: the     *)
(* UPDATE sets the fields that differ from what was loaded ("read"), and   *)
(* no others.  The rest are native updates.  db is the platform.           *)
(***************************************************************************)
EXTENDS SqlDatabase

CONSTANTS NoOwner, MaxRetries, MaxInboxRetries

\* flush(): of the entity as changed, the fields that are not as they were read.
Flushed(row, read, changed) ==
    [f \in DOMAIN row |-> IF changed[f] # read[f] THEN changed[f] ELSE row[f]]

\* supportsSkipLocked: not for MariaDB; taken for granted without a platform.
LocksClaimed(db) == db \in {"postgres", "mysql", "unknown"}

Saved(row) == [row EXCEPT !.status = "pending"]

Claimable(row, t) ==
    \/ row.status = "pending"
    \/ row.status = "failed" /\ (row.due = NoTime \/ NotAfter(row.due, t))
    \/ row.status = "processing" /\ NotAfter(row.until, t)

Claimed(row, read, owner, until) ==
    Flushed(row, read, [read EXCEPT !.status = "processing", !.owner = owner,
                                    !.until = until])

\* ownershipWhere
Fenced(row, expected) ==
    expected = NoOwner \/ (row.status = "processing" /\ row.owner = expected)

Published(row) ==
    [row EXCEPT !.status = "published", !.owner = NoOwner, !.until = NoTime,
                !.due = NoTime]

usesMySqlAssignmentSemantics(db) == db \in {"mysql", "mariadb"}

\* coalesce(?, next_retry_at): without a new time the old one stays.
Failed(db, row, due) ==
    LET count == SeenAfterCount(db, row).retry
        dead  == count + (IF usesMySqlAssignmentSemantics(db) THEN 0 ELSE 1)
                    >= MaxRetries
    IN  [row EXCEPT !.retry = @ + 1,
                    !.status = IF dead THEN "dead_letter" ELSE "failed",
                    !.due = IF dead THEN NoTime ELSE IF due # NoTime THEN due ELSE @,
                    !.owner = NoOwner, !.until = NoTime]

Renewable(row, owner, t) ==
    row.status = "processing" /\ row.owner = owner /\ After(row.until, t)

Renewed(row, until) == [row EXCEPT !.until = until]

Lapsed(row, t) == row.status = "processing" /\ NotAfter(row.until, t)

Released(row) ==
    [row EXCEPT !.status = "failed", !.owner = NoOwner, !.until = NoTime]

Requeueable(row) == row.status \in {"failed", "dead_letter"}

Requeued(row, t) ==
    [row EXCEPT !.status = "failed", !.retry = 0, !.due = t,
                !.owner = NoOwner, !.until = NoTime]

-----------------------------------------------------------------------------
\* The received rows.

Processed(row, read) ==
    Flushed(row, read, [read EXCEPT !.status = "processed", !.due = NoTime])

ReceivedFailed(row, read, due) ==
    LET retryCount == read.retry + 1
        dead == retryCount >= MaxInboxRetries
    IN  Flushed(row, read,
                [read EXCEPT !.retry = retryCount,
                             !.status = IF dead THEN "dead_letter" ELSE "failed",
                             !.due = IF dead THEN NoTime ELSE due])

RetryDue(row, t, pendingBefore) ==
    \/ row.status = "failed" /\ NotAfter(row.due, t)
    \/ row.status = "pending" /\ pendingBefore # NoTime /\ row.born <= pendingBefore

ReceivedRequeued(row, t) == [row EXCEPT !.status = "failed", !.retry = 0, !.due = t]

-----------------------------------------------------------------------------
\* mapOutboxSnapshot, mapInboxSnapshot of the aggregated rows.
Snapshot(groups, statuses) ==
    LET at(s) == {g \in groups : g.status = s}
        only(S) == CHOOSE g \in S : TRUE
    IN  [counts |-> [s \in statuses |-> IF at(s) = {} THEN 0 ELSE only(at(s)).count],
         oldestPendingAt |-> IF at("pending") = {} THEN NoTime ELSE only(at("pending")).oldest,
         oldestFailedAt |-> IF at("failed") = {} THEN NoTime ELSE only(at("failed")).oldest]

-----------------------------------------------------------------------------
\* of is the rows of the topic asked for, or all.
listPublish(rows, of, born, onlyUnpublished, t, limit, offset) ==
    Page({r \in of : onlyUnpublished => Claimable(rows[r], t)}, born, limit, offset)

listReceived(rows, of, born, due, t, limit, offset) ==
    Page({r \in of : due => rows[r].status = "failed" /\ NotAfter(rows[r].due, t)},
         born, limit, offset)
==============================================================================
