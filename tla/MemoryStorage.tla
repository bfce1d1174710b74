---------------------------- MODULE MemoryStorage ----------------------------
(***************************************************************************)
(* InMemoryPublishStorage and InMemoryReceivedStorage: maps of one process *)
(* whose operations run without an await, each therefore in one step.      *)
(***************************************************************************)
EXTENDS Integers, FiniteSets, Sequences

CONSTANTS NoOwner, MaxRetries, MaxInboxRetries

NoTime == -1                        \* a field that is null

Saved(row) == [row EXCEPT !.status = "pending"]

\* isClaimable
Claimable(row, t) ==
    \/ row.status = "pending"
    \/ row.status = "failed" /\ (row.due = NoTime \/ row.due <= t)
    \/ row.status = "processing" /\ row.until # NoTime /\ row.until <= t

Claimed(row, owner, until) ==
    [row EXCEPT !.status = "processing", !.owner = owner, !.until = until]

\* ownsClaim
Fenced(row, expected) ==
    expected = NoOwner \/ (row.status = "processing" /\ row.owner = expected)

Published(row) ==
    [row EXCEPT !.status = "published", !.owner = NoOwner, !.until = NoTime,
                !.due = NoTime]

Failed(row, due) ==
    LET counted == [row EXCEPT !.retry = @ + 1]
        status  == IF counted.retry >= MaxRetries THEN "dead_letter" ELSE "failed"
    IN  [counted EXCEPT !.status = status,
                        !.due = IF status = "dead_letter" THEN NoTime ELSE due,
                        !.owner = NoOwner, !.until = NoTime]

Renewable(row, owner, t) ==
    ~(row.status # "processing" \/ row.owner # owner \/ row.until = NoTime \/ row.until <= t)

Renewed(row, until) == [row EXCEPT !.until = until]

Lapsed(row, t) == row.status = "processing" /\ row.until # NoTime /\ row.until <= t

Released(row) ==
    [row EXCEPT !.status = "failed", !.owner = NoOwner, !.until = NoTime]

Requeueable(row) == ~(row.status # "failed" /\ row.status # "dead_letter")

Requeued(row, t) ==
    [row EXCEPT !.status = "failed", !.retry = 0, !.due = t,
                !.owner = NoOwner, !.until = NoTime]

-----------------------------------------------------------------------------
\* The received events.

Processed(row) == [row EXCEPT !.status = "processed", !.due = NoTime]

ReceivedFailed(row, due) ==
    LET counted == [row EXCEPT !.retry = @ + 1]
        status  == IF counted.retry >= MaxInboxRetries THEN "dead_letter" ELSE "failed"
    IN  [counted EXCEPT !.status = status,
                        !.due = IF status = "dead_letter" THEN NoTime ELSE due]

RetryDue(row, t, pendingBefore) ==
    \/ row.status = "failed" /\ row.due # NoTime /\ row.due <= t
    \/ row.status = "pending" /\ pendingBefore # NoTime /\ row.born <= pendingBefore

ReceivedRequeued(row, t) == [row EXCEPT !.status = "failed", !.retry = 0, !.due = t]

-----------------------------------------------------------------------------
\* getPublishSnapshot, getReceivedSnapshot: one pass over the map.
Snapshot(rows, born, statuses) ==
    LET of(s) == {r \in DOMAIN rows : rows[r].status = s}
        oldest(s) == IF of(s) = {} THEN NoTime
                     ELSE born[CHOOSE r \in of(s) : \A q \in of(s) : born[r] <= born[q]]
    IN  [counts |-> [s \in statuses |-> Cardinality(of(s))],
         oldestPendingAt |-> oldest("pending"), oldestFailedAt |-> oldest("failed")]

-----------------------------------------------------------------------------
\* A slice of the map's values, and how many there were before it.  The map keeps
\* them in the order they were saved, whatever it is: the same at each call.
Slice(found, limit, offset) ==
    LET all == CHOOSE s \in [1 .. Cardinality(found) -> found] :
                    \A i, j \in DOMAIN s : i < j => s[i] # s[j]
        last == IF offset + limit < Cardinality(found) THEN offset + limit
                ELSE Cardinality(found)
    IN  {[items |-> SubSeq(all, offset + 1, last), total |-> Cardinality(found)]}

\* of is the rows of the topic asked for, or all.
listPublish(rows, of, onlyUnpublished, t, limit, offset) ==
    Slice({r \in of : onlyUnpublished => Claimable(rows[r], t)}, limit, offset)

listReceived(rows, of, due, t, limit, offset) ==
    Slice({r \in of : due => /\ rows[r].status = "failed"
                             /\ rows[r].due # NoTime /\ rows[r].due <= t},
          limit, offset)
==============================================================================
