--------------------------- MODULE StorageContract ---------------------------
(***************************************************************************)
(* What the contract tests of cap-testing ask of every publish and         *)
(* received storage: for each operation, which row it may leave behind,    *)
(* given the row it found, and what it answers.                            *)
(*                                                                         *)
(* A call is [op, by, now, at, ok]: the operation, the owner it names, its *)
(* clock, the lease end or retry time it passes, and its answer.           *)
(***************************************************************************)
EXTENDS Integers, FiniteSets, Sequences

CONSTANTS NoOwner, NoTime, MaxRetries, MaxInboxRetries

Unlocked(row) == row.owner = NoOwner /\ row.until = NoTime

Owns(row, owner) == owner = NoOwner \/ (row.status = "processing" /\ row.owner = owner)

\* A row goes to the caller; of a storage that claims safely, never once it is
\* published, and from another caller only when that one's lease is over.
HonoursClaim(safe, call, old, new) ==
    /\ new.owner = call.by
    /\ safe => /\ new.status = "processing"
               /\ old.status # "published"
               /\ old.status = "processing" => old.until <= call.now

\* A stale owner changes nothing and is told so.
HonoursPublished(call, old, new) ==
    IF old.status # "absent" /\ Owns(old, call.by)
    THEN call.ok /\ new.status = "published" /\ Unlocked(new)
    ELSE ~call.ok /\ new = old

\* The failure is counted; the last one dead-letters the row, those before it
\* keep the schedule they were given.
HonoursFailed(call, old, new) ==
    IF old.status # "absent" /\ Owns(old, call.by)
    THEN /\ call.ok /\ new.retry = old.retry + 1 /\ Unlocked(new)
         /\ IF new.retry >= MaxRetries
            THEN new.status = "dead_letter" /\ new.due = NoTime
            ELSE new.status = "failed" /\ new.due = call.at
    ELSE ~call.ok /\ new = old

HonoursRenew(call, old, new) ==
    IF call.ok
    THEN old.owner = call.by /\ new = [old EXCEPT !.until = call.at]
    ELSE new = old /\ ~(Owns(old, call.by) /\ old.until > call.now)

HonoursRelease(call, old, new) ==
    IF old.status = "processing" /\ old.until # NoTime /\ old.until <= call.now
    THEN new.status = "failed" /\ Unlocked(new) /\ new.retry = old.retry
    ELSE new = old

HonoursRequeue(call, old, new) ==
    IF old.status \in {"failed", "dead_letter"}
    THEN /\ call.ok /\ new.status = "failed" /\ new.retry = 0
         /\ new.due = call.now /\ Unlocked(new)
    ELSE ~call.ok /\ new = old

\* One call on one outbox row.  safe: the storage claims safely among
\* concurrent workers.
HonoursPublishContract(safe, call, old, new) ==
    /\ call.op = "save" => new.status = "pending" /\ new.retry = 0
    /\ call.op = "claim" => HonoursClaim(safe, call, old, new)
    /\ call.op = "published" => HonoursPublished(call, old, new)
    /\ call.op = "failed" => HonoursFailed(call, old, new)
    /\ call.op = "renew" => HonoursRenew(call, old, new)
    /\ call.op = "release" => HonoursRelease(call, old, new)
    /\ call.op = "requeue" => HonoursRequeue(call, old, new)

-----------------------------------------------------------------------------
\* The received storage.

HonoursReceivedFailed(call, old, new) ==
    /\ new.retry = old.retry + 1
    /\ IF new.retry >= MaxInboxRetries
       THEN new.status = "dead_letter" /\ new.due = NoTime
       ELSE new.status = "failed" /\ new.due = call.at

HonoursReceivedRequeue(call, old, new) ==
    IF old.status \in {"failed", "dead_letter"}
    THEN call.ok /\ new.status = "failed" /\ new.retry = 0 /\ new.due = call.now
    ELSE ~call.ok /\ new = old

\* Failed events come back when due, pending ones only behind the cutoff.
HonoursRetryDue(row, now, pendingBefore) ==
    \/ row.status = "failed" /\ row.due <= now
    \/ row.status = "pending" /\ pendingBefore # NoTime /\ row.born <= pendingBefore

\* One call on one inbox row.
HonoursReceivedContract(call, old, new) ==
    /\ call.op = "insert" =>
          /\ call.ok = (old.status = "absent")
          /\ IF call.ok THEN new.status = "pending" /\ new.retry = 0 ELSE new = old
    /\ call.op = "processed" => new.status = "processed" /\ new.due = NoTime
    /\ call.op = "failed" => HonoursReceivedFailed(call, old, new)
    /\ call.op = "due" => HonoursRetryDue(old, call.now, call.at) /\ new = old
    /\ call.op = "requeue" => HonoursReceivedRequeue(call, old, new)

-----------------------------------------------------------------------------
\* Complete counts, and the ages of the oldest pending and failed rows, which
\* are null when there is none.
HonoursSnapshot(snapshot, rows, born, statuses) ==
    LET of(s) == {r \in DOMAIN rows : rows[r].status = s}
        Oldest(s, at) == IF of(s) = {} THEN at = NoTime
                         ELSE (\E r \in of(s) : born[r] = at) /\ \A r \in of(s) : at <= born[r]
    IN  /\ \A s \in statuses : snapshot.counts[s] = Cardinality(of(s))
        /\ Oldest("pending", snapshot.oldestPendingAt)
        /\ Oldest("failed", snapshot.oldestFailedAt)

\* The pages of a listing hold each row it is about once, and each tells how
\* many there are.
HonoursListing(pages, wanted) ==
    LET shown == {at \in (DOMAIN pages) \X (1 .. Cardinality(wanted) + 1) :
                        at[2] <= Len(pages[at[1]].items)}
    IN  /\ \A p \in DOMAIN pages : pages[p].total = Cardinality(wanted)
        /\ {pages[at[1]].items[at[2]] : at \in shown} = wanted
        /\ Cardinality(shown) = Cardinality(wanted)

\* ... or, of a listing sorted by a date that several rows may share: each page
\* tells how many rows there are, none shows another row, and each date is shown
\* as often as there are rows of it, though not every row of it.
HonoursDates(pages, wanted, born) ==
    LET shown == {at \in (DOMAIN pages) \X (1 .. Cardinality(wanted) + 1) :
                        at[2] <= Len(pages[at[1]].items)}
        row(at) == pages[at[1]].items[at[2]]
    IN  /\ \A p \in DOMAIN pages : pages[p].total = Cardinality(wanted)
        /\ \A at \in shown : row(at) \in wanted
        /\ \A r \in wanted : Cardinality({at \in shown : born[row(at)] = born[r]})
                               = Cardinality({q \in wanted : born[q] = born[r]})
==============================================================================
