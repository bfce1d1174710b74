------------------------------ MODULE Storages -------------------------------
(***************************************************************************)
(* The five storages (in-memory, Knex, TypeORM, Prisma, MikroORM) on the   *)
(* databases they support, used by several processes at once.  A claim is  *)
(* two statements of one transaction, a received save up to three, the     *)
(* failure of a received row two: other processes act in between.          *)
(*                                                                         *)
(* site is the adapter and database of the run, part the table in use; the *)
(* two tables share nothing, so a run uses one of them.                    *)
(***************************************************************************)
EXTENDS Integers, FiniteSets

CONSTANTS
    Sites,          \* <<library, database>>
    Msgs,           \* outbox rows
    CreatedAt,      \* their created_at
    Workers,        \* processes that claim
    Deliveries,     \* calls of trySaveReceived
    Keys,           \* (group, dedupeKey)
    KeyOf,          \* the key of a delivery
    Loads,          \* the sets of outbox rows, or of deliveries, tried at a site
    NoOwner, NoOne,
    MaxRetries, MaxInboxRetries,
    Limit,          \* rows of a claim
    Lease,          \* length of a claim
    MaxClaims,      \* bound: claims of a worker
    MaxFailures,    \* bound: failures counted for a message
    MaxTime         \* bound of the clock

Libraries == {"knex", "typeorm", "prisma", "mikro", "memory"}

ASSUME StoragesAssumption ==
    /\ Sites \subseteq Libraries \X STRING
    /\ <<"prisma", "mariadb">> \notin Sites     \* Prisma's provider is "mysql" then
    /\ CreatedAt \in [Msgs -> Nat] /\ IsFiniteSet(Msgs) /\ IsFiniteSet(Keys)
    /\ KeyOf \in [Deliveries -> Keys]
    /\ \A s \in Sites : \A l \in Loads[s] : l \subseteq Msgs \/ l \subseteq Deliveries
    /\ NoOne \notin Deliveries /\ NoOne \notin Workers
    /\ {MaxRetries, MaxInboxRetries, Limit, Lease} \subseteq Nat \ {0}
    /\ {MaxClaims, MaxFailures, MaxTime} \subseteq Nat

VARIABLES
    site, part,
    load,           \* the rows or deliveries of the run
    clock,
    rows,           \* the outbox table
    locks,          \* rows locked by a claim's SELECT ... FOR UPDATE
    claims,         \* what each worker's running claim has read
    held,           \* history: claims returned and not yet completed
    inbox,          \* the inbox table: [id, row] of each key
    txn,            \* a delivery whose insert of the key is not committed
    saves           \* the deliveries' calls
vars == <<site, part, load, clock, rows, locks, claims, held, inbox, txn, saves>>
outVars == <<rows, locks, claims, held>>
inVars  == <<inbox, txn, saves>>

Tokens == Workers \X (1 .. MaxClaims)

ASSUME NoOwnerAssumption == NoOwner \notin Tokens

K  == INSTANCE PublishStorage
KR == INSTANCE ReceivedStorage
T  == INSTANCE TypeOrmStorage
P  == INSTANCE PrismaStorage
M  == INSTANCE MikroStorage
I  == INSTANCE MemoryStorage
C  == INSTANCE StorageContract WITH NoTime <- K!NoTime

db == site[2]

\* The adapter in use; of its arguments only the chosen one is evaluated.
ByLibrary(knex, typeorm, prisma, mikro, memory) ==
    IF site[1] = "knex" THEN knex
    ELSE IF site[1] = "typeorm" THEN typeorm
    ELSE IF site[1] = "prisma" THEN prisma
    ELSE IF site[1] = "mikro" THEN mikro
    ELSE memory

InMemory == site[1] = "memory"

\* Knex: supportsSkipLockedClaiming, and markPublishFailed per dialect.
KnexLocksClaimed(d) == d \in {"postgres", "mysql", "mariadb"}

KnexFailed(d, row, due) ==
    LET count == T!SeenAfterCount(d, row).retry
        dead  == IF d \in {"mysql", "mariadb"} THEN count >= MaxRetries ELSE count + 1 >= MaxRetries
    IN  IF dead THEN [K!FailedRow(row, due) EXCEPT !.status = "dead_letter", !.due = K!NoTime]
        ELSE [K!FailedRow(row, due) EXCEPT !.status = "failed", !.due = due]

LocksClaimed ==
    ByLibrary(KnexLocksClaimed(db), T!LocksClaimed(db), P!LocksClaimed(db),
              M!LocksClaimed(db), FALSE)

\* getCapabilities().skipLockedClaiming, and the in-memory map's single thread.
ClaimsSafely == InMemory \/ LocksClaimed

Claimable(row, t) ==
    ByLibrary(K!Claimable(row, t), T!Claimable(row, t), P!Claimable(row, t),
              M!Claimable(row, t), I!Claimable(row, t))

Claimed(row, read, owner, until) ==
    ByLibrary(K!ClaimedRow(row, owner, until), T!Claimed(row, read, owner, until),
              P!Claimed(row, read, owner, until), M!Claimed(row, read, owner, until),
              I!Claimed(row, owner, until))

Fenced(row, owner) ==
    ByLibrary(K!Owns(row, owner), T!Fenced(row, owner), P!Fenced(row, owner),
              M!Fenced(row, owner), I!Fenced(row, owner))

Published(row) ==
    ByLibrary(K!PublishedRow(row), T!Published(row), P!Published(row),
              M!Published(row), I!Published(row))

Failed(row, due) ==
    ByLibrary(KnexFailed(db, row, due), T!Failed(db, row, due), P!Failed(db, row, due),
              M!Failed(db, row, due), I!Failed(row, due))

Renewable(row, owner, t) ==
    ByLibrary(K!CanRenew(row, owner, t), T!Renewable(row, owner, t),
              P!Renewable(row, owner, t), M!Renewable(row, owner, t),
              I!Renewable(row, owner, t))

Renewed(row, until) ==
    ByLibrary(K!RenewedRow(row, until), T!Renewed(row, until), P!Renewed(row, until),
              M!Renewed(row, until), I!Renewed(row, until))

Lapsed(row, t) ==
    ByLibrary(K!Expired(row, t), T!Lapsed(row, t), P!Lapsed(row, t), M!Lapsed(row, t),
              I!Lapsed(row, t))

Released(row, t) ==
    ByLibrary(K!ReleasedRow(row, t), T!Released(row), P!Released(row), M!Released(row),
              I!Released(row))

Requeueable(row) ==
    ByLibrary(K!CanRequeue(row), T!Requeueable(row), P!Requeueable(row),
              M!Requeueable(row), I!Requeueable(row))

Requeued(row, t) ==
    ByLibrary(K!RequeuedRow(row, t), T!Requeued(row, t), P!Requeued(row, t),
              M!Requeued(row, t), I!Requeued(row, t))

Saved ==
    ByLibrary(K!PendingRow, T!Saved(K!AbsentRow), P!Saved(K!AbsentRow),
              M!Saved(K!AbsentRow), I!Saved(K!AbsentRow))

-----------------------------------------------------------------------------
\* The outbox.

\* n counts the worker's claims; read is what the running one has selected.
NoClaim(n) == [n |-> n, read |-> [m \in {} |-> K!AbsentRow],
               owner |-> NoOwner, until |-> K!NoTime]

Absent(m) == rows[m].status = "absent"

\* An UPDATE waits for a row another transaction has locked.
Unlocked(m) == locks[m] = NoOne

savePublish(m) ==
    /\ Absent(m)
    /\ rows' = [rows EXCEPT ![m] = Saved]
    /\ UNCHANGED <<locks, claims, held>>

\* The rows a claim may take: Limit of the claimable ones, those that were created
\* first (in memory: that come first in the map); a storage that asks for SKIP
\* LOCKED passes over those that are locked.
Selections ==
    LET offered == {m \in Msgs : Claimable(rows[m], clock)
                                 /\ (LocksClaimed => Unlocked(m))}
    IN  {S \in SUBSET offered :
            /\ S # {}
            /\ IF Cardinality(offered) <= Limit THEN S = offered
               ELSE /\ Cardinality(S) = Limit
                    /\ \A m \in S, k \in offered \ S : InMemory \/ CreatedAt[m] <= CreatedAt[k]}

\* The claims returned to a worker.
HeldFor(taken, owner, until) ==
    {[id |-> m, owner |-> owner, until |-> until] : m \in taken}

Idle(w) == claims[w].owner = NoOwner /\ claims[w].n < MaxClaims

\* claimUnpublished of the in-memory storage: one step.
ClaimInMemory(w, selected) ==
    LET owner == <<w, claims[w].n + 1>>
        until == clock + Lease
    IN  /\ InMemory /\ Idle(w)
        /\ rows' = [m \in Msgs |-> IF m \in selected THEN I!Claimed(rows[m], owner, until)
                                   ELSE rows[m]]
        /\ held' = held \cup HeldFor(selected, owner, until)
        /\ claims' = [claims EXCEPT ![w] = NoClaim(@.n + 1)]
        /\ UNCHANGED locks

\* ... of the others: the SELECT of its transaction,
ClaimSelect(w, selected) ==
    /\ ~InMemory /\ Idle(w)
    /\ claims' = [claims EXCEPT ![w] =
                    [n |-> @.n + 1, read |-> [m \in selected |-> rows[m]],
                     owner |-> <<w, @.n + 1>>, until |-> clock + Lease]]
    /\ locks' = [m \in Msgs |-> IF LocksClaimed /\ m \in selected THEN w ELSE locks[m]]
    /\ UNCHANGED <<rows, held>>

Unlock(w) == locks' = [m \in Msgs |-> IF locks[m] = w THEN NoOne ELSE locks[m]]

\* ... the UPDATE of the rows it found, and the commit,
ClaimUpdate(w) ==
    LET claim == claims[w]
        taken == DOMAIN claim.read
    IN  /\ claim.owner # NoOwner
        /\ \A m \in taken : locks[m] \in {w, NoOne}
        /\ rows' = [m \in Msgs |->
                        IF m \in taken
                        THEN Claimed(rows[m], claim.read[m], claim.owner, claim.until)
                        ELSE rows[m]]
        /\ held' = held \cup HeldFor(taken, claim.owner, claim.until)
        /\ claims' = [claims EXCEPT ![w] = NoClaim(@.n)]
        /\ Unlock(w)

\* ... or its rollback, when the connection or the process is lost.
ClaimRollback(w) ==
    /\ claims[w].owner # NoOwner
    /\ claims' = [claims EXCEPT ![w] = NoClaim(@.n)]
    /\ Unlock(w)
    /\ UNCHANGED <<rows, held>>

\* The callers of the marks: the owner of a returned claim, or a legacy caller
\* that names none and breaks whatever claim there is.
Callers(m) == {h.owner : h \in {g \in held : g.id = m}} \cup {NoOwner}

\* The claims a completed call puts an end to.
Ended(m, by) == {h \in held : h.id = m /\ (by = NoOwner \/ h.owner = by)}

\* One UPDATE of row m with the fence of "by"; ok is the caller's answer.
Complete(m, by, row, ok) ==
    /\ ~Absent(m) /\ Unlocked(m)
    /\ ok = Fenced(rows[m], by)
    /\ rows' = IF ok THEN [rows EXCEPT ![m] = row] ELSE rows
    /\ held' = held \ Ended(m, by)
    /\ UNCHANGED <<locks, claims>>

markPublished(m, by, ok) == Complete(m, by, Published(rows[m]), ok)

markPublishFailed(m, by, due, ok) ==
    /\ rows[m].retry < MaxFailures
    /\ Complete(m, by, Failed(rows[m], due), ok)

renewPublishClaim(h, until, ok) ==
    LET m == h.id
    IN  /\ Unlocked(m)
        /\ ok = Renewable(rows[m], h.owner, clock)
        /\ rows' = IF ok THEN [rows EXCEPT ![m] = Renewed(@, until)] ELSE rows
        /\ held' = IF ok THEN (held \ {h}) \cup {[h EXCEPT !.until = until]} ELSE held
        /\ UNCHANGED <<locks, claims>>

releaseExpiredClaims ==
    LET lapsed == {m \in Msgs : Lapsed(rows[m], clock)}
    IN  /\ lapsed # {} /\ \A m \in lapsed : Unlocked(m)
        /\ rows' = [m \in Msgs |-> IF m \in lapsed THEN Released(rows[m], clock) ELSE rows[m]]
        /\ UNCHANGED <<locks, claims, held>>

requeuePublish(m, ok) ==
    /\ ~Absent(m) /\ Unlocked(m)
    /\ ok = Requeueable(rows[m])
    /\ rows' = IF ok THEN [rows EXCEPT ![m] = Requeued(@, clock)] ELSE rows
    /\ UNCHANGED <<locks, claims, held>>

-----------------------------------------------------------------------------
\* The inbox.  The id of a delivery's event is the delivery.

NoEntry == [id |-> NoOne, row |-> KR!AbsentRow]

NoAnswer == [inserted |-> FALSE, id |-> NoOne]

\* lost: the insert wrote the row and its answer did not arrive.
NewSave == [pc |-> "idle", answer |-> NoAnswer, read |-> KR!AbsentRow, lost |-> FALSE]

Entry(d) == inbox[KeyOf[d]]
Stored(d) == Entry(d).id # NoOne

InsertsInTransaction == site[1] = "prisma" /\ P!InsertsInTransaction(db)

\* A row a call came upon: MikroORM keeps it, the others have no use for it.
Loaded(row) == IF site[1] = "mikro" THEN row ELSE KR!AbsentRow

\* MikroORM searches for the row after any error of its flush, the others only
\* when the insert tells of a duplicate.
SearchesAfterErrors == site[1] = "mikro"

\* The handler runs for the delivery that inserted the row.
Answer(d, inserted, id) ==
    saves' = [saves EXCEPT ![d] =
                [pc |-> IF inserted THEN "handle" ELSE "done", answer |-> [inserted |-> inserted, id |-> id],
                 read |-> Loaded(inbox'[KeyOf[d]].row), lost |-> saves[d].lost]]

\* trySaveReceived; a delivery whose call rejects is delivered again as another.
\* MikroORM searches first; the in-memory storage does it all in one step.
SaveFind(d) ==
    /\ site[1] = "mikro" /\ saves[d].pc = "idle"
    /\ UNCHANGED <<inbox, txn>>
    /\ IF Stored(d) THEN Answer(d, FALSE, Entry(d).id)
       ELSE saves' = [saves EXCEPT ![d].pc = "insert"]

MayInsert(d) == saves[d].pc = (IF site[1] = "mikro" THEN "insert" ELSE "idle")

Insert(d) ==
    inbox' = [inbox EXCEPT ![KeyOf[d]] = [id |-> d, row |-> KR!PendingRow(clock)]]

\* The INSERT, in a transaction of its own: it waits for an uncommitted one.
SaveInsert(d) ==
    /\ MayInsert(d) /\ ~InsertsInTransaction
    /\ \/ /\ ~Stored(d)
          /\ Insert(d)
          /\ \/ Answer(d, TRUE, d)
             \/ \* the row is written and the answer lost
                /\ ~InMemory
                /\ saves' = [saves EXCEPT ![d].lost = TRUE,
                               ![d].pc = IF SearchesAfterErrors THEN "search" ELSE "rejected"]
       \/ /\ Stored(d)
          /\ UNCHANGED inbox
          /\ IF InMemory THEN Answer(d, FALSE, Entry(d).id)
             ELSE saves' = [saves EXCEPT ![d].pc = "search"]
    /\ UNCHANGED txn

\* Mutant: the affected rows of the duplicate are taken for an insert.
SaveInsertInTransaction_affected(d) ==
    /\ MayInsert(d) /\ InsertsInTransaction /\ txn[KeyOf[d]] = NoOne
    /\ UNCHANGED inbox
    /\ IF Stored(d)
       THEN Answer(d, TRUE, d) /\ UNCHANGED txn
       ELSE /\ txn' = [txn EXCEPT ![KeyOf[d]] = d]
            /\ saves' = [saves EXCEPT ![d].pc = "commit"]

\* The same in Prisma's MySQL transaction; the row is there for others at its
\* commit.
SaveInsertInTransaction(d) ==
    /\ MayInsert(d) /\ InsertsInTransaction /\ txn[KeyOf[d]] = NoOne
    /\ IF Stored(d)
       THEN saves' = [saves EXCEPT ![d].pc = "search"] /\ UNCHANGED txn
       ELSE /\ txn' = [txn EXCEPT ![KeyOf[d]] = d]
            /\ saves' = [saves EXCEPT ![d].pc = "commit"]
    /\ UNCHANGED inbox

SaveCommit(d) ==
    /\ saves[d].pc = "commit"
    /\ Insert(d)
    /\ Answer(d, TRUE, d) \/ saves' = [saves EXCEPT ![d].pc = "rejected", ![d].lost = TRUE]
    /\ txn' = [txn EXCEPT ![KeyOf[d]] = NoOne]

\* The search for the row that was there before: after an error of MikroORM's
\* flush, possibly the one the same call has written.
SaveSearch(d) ==
    /\ saves[d].pc = "search"
    /\ UNCHANGED <<inbox, txn>>
    /\ IF Stored(d) THEN Answer(d, FALSE, Entry(d).id)
       ELSE saves' = [saves EXCEPT ![d].pc = "rejected"]

\* A statement fails and nothing is written: the call rejects, but for MikroORM's
\* flush, and its transaction is rolled back.
SaveRejects(d) ==
    /\ saves[d].pc \in {"insert", "search", "commit"}
    /\ saves' = [saves EXCEPT ![d].pc = IF SearchesAfterErrors /\ @ = "insert"
                                        THEN "search" ELSE "rejected"]
    /\ txn' = [txn EXCEPT ![KeyOf[d]] = IF @ = d THEN NoOne ELSE @]
    /\ UNCHANGED inbox

RetryDue(row, t, pendingBefore) ==
    ByLibrary(KR!RetryDue(row, t, pendingBefore), T!RetryDue(row, t, pendingBefore),
              P!RetryDue(row, t, pendingBefore), M!RetryDue(row, t, pendingBefore),
              I!RetryDue(row, t, pendingBefore))

ReceivedProcessed(row, read) ==
    ByLibrary(KR!ProcessedRow(row), T!Processed(row), P!Processed(row),
              M!Processed(row, read), I!Processed(row))

ReceivedFailed(row, read, due) ==
    ByLibrary(KR!FailedRow(row, read.retry + 1, due), T!ReceivedFailed(row, read, due),
              P!ReceivedFailed(row, read, due), M!ReceivedFailed(row, read, due),
              I!ReceivedFailed(row, due))

ReceivedRequeued(row, t) ==
    ByLibrary(KR!RequeuedRow(row, t), T!ReceivedRequeued(row, t), P!ReceivedRequeued(row, t),
              M!ReceivedRequeued(row, t), I!ReceivedRequeued(row, t))

\* getRetryDue hands the row to the process of d.
getRetryDue(d, pendingBefore) ==
    /\ saves[d].pc = "done" /\ Stored(d)
    /\ RetryDue(Entry(d).row, clock, pendingBefore)
    /\ saves' = [saves EXCEPT ![d].pc = "handle", ![d].read = Loaded(Entry(d).row)]
    /\ UNCHANGED <<inbox, txn>>

\* What a mark of a received row works on: MikroORM's findOne by id answers with
\* the entity its process has loaded before, unless that was cleared since.
Readable(d) == IF site[1] = "mikro" THEN {saves[d].read, Entry(d).row} ELSE {Entry(d).row}

\* The row d's process marks is read in one statement,
ReadForMark(d) ==
    /\ saves[d].pc = "handle" /\ ~InMemory
    /\ \E read \in Readable(d), pc \in {"processed", "failed"} :
          /\ pc = "processed" => site[1] = "mikro"
          /\ saves' = [saves EXCEPT ![d].pc = pc, ![d].read = read]
    /\ UNCHANGED <<inbox, txn>>

\* ... and written in another, if need be over what was written in between.
Overtaken(d) == saves[d].pc # "handle" /\ saves[d].read # Entry(d).row

Mark(d, row) ==
    /\ inbox' = [inbox EXCEPT ![KeyOf[d]].row = row]
    /\ saves' = [saves EXCEPT ![d].pc = "done", ![d].read = Loaded(row)]
    /\ UNCHANGED txn

markProcessed(d) ==
    /\ saves[d].pc = (IF site[1] = "mikro" THEN "processed" ELSE "handle")
    /\ Mark(d, ReceivedProcessed(Entry(d).row, saves[d].read))

markReceivedFailed(d, due) ==
    /\ saves[d].pc = (IF InMemory THEN "handle" ELSE "failed")
    /\ (IF InMemory THEN Entry(d).row.retry ELSE saves[d].read.retry) < MaxFailures
    /\ Mark(d, ReceivedFailed(Entry(d).row, saves[d].read, due))

requeueReceived(k, ok) ==
    LET row == inbox[k].row
    IN  /\ inbox[k].id # NoOne
        /\ ok = KR!CanRequeue(row)
        /\ inbox' = [inbox EXCEPT ![k].row = IF ok THEN ReceivedRequeued(row, clock) ELSE row]
        /\ UNCHANGED <<saves, txn>>

-----------------------------------------------------------------------------
\* What the administration and the dashboard read.

InboxRows  == [k \in Keys |-> inbox[k].row]
ReceivedAt == [k \in Keys |-> inbox[k].row.born]

\* Counts and ages of a table.

KnexSnapshot(groups, statuses) ==
    LET found(s) == {g \in groups : g.status = s}
        oldest(s) == IF found(s) = {} THEN K!NoTime ELSE (CHOOSE g \in found(s) : TRUE).oldest
    IN  [counts |-> [s \in statuses |->
                        IF found(s) = {} THEN 0 ELSE (CHOOSE g \in found(s) : TRUE).count],
         oldestPendingAt |-> oldest("pending"), oldestFailedAt |-> oldest("failed")]

Snapshot(table, born, statuses) ==
    LET groups == T!Groups(table, born)
    IN  ByLibrary(KnexSnapshot(groups, statuses), T!Snapshot(groups, statuses),
                  P!Snapshot(groups, statuses), M!Snapshot(groups, statuses),
                  I!Snapshot(table, born, statuses))

KnexListPublish(table, of, born, onlyUnpublished, t, limit, offset) ==
    T!Page({r \in of : onlyUnpublished => K!Claimable(table[r], t)}, born, limit, offset)

KnexListReceived(table, of, born, due, t, limit, offset) ==
    T!Page({r \in of : due => table[r].status = "failed" /\ T!NotAfter(table[r].due, t)},
           born, limit, offset)

\* The answers to the dashboard, which asks for a page of it, of all topics or
\* one: "of" are its rows.
Listing(publish, table, of, born, only, page, limit) ==
    LET offset == (page - 1) * limit
        from(outboxList, inboxList) == IF publish THEN outboxList ELSE inboxList
    IN  ByLibrary(
          from(KnexListPublish(table, of, born, only, clock, limit, offset),
               KnexListReceived(table, of, born, only, clock, limit, offset)),
          from(T!listPublish(table, of, born, only, clock, limit, offset),
               T!listReceived(table, of, born, only, clock, limit, offset)),
          from(P!listPublish(table, of, born, only, clock, limit, offset),
               P!listReceived(table, of, born, only, clock, limit, offset)),
          from(M!listPublish(table, of, born, only, clock, limit, offset),
               M!listReceived(table, of, born, only, clock, limit, offset)),
          from(I!listPublish(table, of, only, clock, limit, offset),
               I!listReceived(table, of, only, clock, limit, offset)))

listOutbox(of, onlyUnpublished, page, limit) ==
    Listing(TRUE, rows, of, CreatedAt, onlyUnpublished, page, limit)

listInbox(of, due, page, limit) ==
    Listing(FALSE, InboxRows, of, ReceivedAt, due, page, limit)


-----------------------------------------------------------------------------

Init ==
    /\ site \in Sites
    /\ load \in Loads[site]
    /\ part = IF load \subseteq Msgs THEN "outbox" ELSE "inbox"
    /\ clock = 0
    /\ rows = [m \in Msgs |-> K!AbsentRow]
    /\ locks = [m \in Msgs |-> NoOne]
    /\ claims = [w \in Workers |-> NoClaim(0)]
    /\ held = {}
    /\ inbox = [k \in Keys |-> NoEntry]
    /\ txn = [k \in Keys |-> NoOne]
    /\ saves = [d \in Deliveries |-> NewSave]

Tick ==
    /\ clock < MaxTime
    /\ clock' = clock + 1
    /\ UNCHANGED <<outVars, inVars>>

OutboxStep ==
    /\ part = "outbox"
    /\ \/ releaseExpiredClaims
       \/ \E w \in Workers :
            \/ \E selected \in Selections : ClaimInMemory(w, selected) \/ ClaimSelect(w, selected)
            \/ ClaimUpdate(w) \/ ClaimRollback(w)
       \/ \E h \in held, ok \in BOOLEAN : renewPublishClaim(h, clock + Lease, ok)
       \/ \E m \in Msgs \cap load :
            \/ savePublish(m)
            \/ \E by \in Callers(m), ok \in BOOLEAN :
                  markPublished(m, by, ok) \/ markPublishFailed(m, by, clock + 1, ok)
            \/ \E ok \in BOOLEAN : requeuePublish(m, ok)
    /\ UNCHANGED <<inVars, clock>>

InboxStep ==
    /\ part = "inbox"
    /\ \/ \E k \in Keys, ok \in BOOLEAN : requeueReceived(k, ok)
       \/ \E d \in Deliveries \cap load :
            \/ SaveFind(d) \/ SaveInsert(d) \/ SaveInsertInTransaction(d)
            \/ SaveCommit(d) \/ SaveSearch(d) \/ SaveRejects(d)
            \/ ReadForMark(d)
            \/ \E pendingBefore \in {K!NoTime, clock} : getRetryDue(d, pendingBefore)
            \/ markProcessed(d) \/ markReceivedFailed(d, clock + 1)
    /\ UNCHANGED <<outVars, clock>>

Next == (Tick \/ OutboxStep \/ InboxStep) /\ UNCHANGED <<site, part, load>>

Spec == Init /\ [][Next]_vars

-----------------------------------------------------------------------------

\* A worker whose lease has not run out owns the row its claim returned, so no
\* two workers hold one message: neither concurrent claims, nor a release, nor
\* a stale caller takes it away.  Of storages that claim safely.
HeldClaimsAreOwned ==
    ClaimsSafely =>
        \A h \in held : h.until > clock =>
            rows[h.id].status = "processing" /\ rows[h.id].owner = h.owner

Call(op, by, at, ok) == [op |-> op, by |-> by, at |-> at, ok |-> ok, now |-> clock]

\* The call, on the rows "on", leaves them as the contract asks and the others
\* as they were.
OutboxHonours(on, call) ==
    \A m \in Msgs : IF m \in on
                    THEN C!HonoursPublishContract(ClaimsSafely, call, rows[m], rows'[m])
                    ELSE rows'[m] = rows[m]

InboxHonours(on, call) ==
    \A k \in Keys : IF k \in on
                    THEN C!HonoursReceivedContract(call, inbox[k].row, inbox'[k].row)
                    ELSE inbox'[k] = inbox[k]

\* Every outbox call of every adapter, on every database, leaves the rows it
\* names as the contract tests ask, and answers as they ask.
OutboxCallHonours ==
    /\ \A m \in Msgs : savePublish(m) => OutboxHonours({m}, Call("save", NoOwner, K!NoTime, TRUE))
    /\ \A w \in Workers :
        /\ \A selected \in Selections : ClaimInMemory(w, selected) =>
              OutboxHonours(selected, Call("claim", <<w, claims'[w].n>>, K!NoTime, TRUE))
        /\ ClaimUpdate(w) =>
              OutboxHonours(DOMAIN claims[w].read, Call("claim", claims[w].owner, K!NoTime, TRUE))
    /\ \A m \in Msgs, ok \in BOOLEAN : \A by \in Callers(m) :
        /\ markPublished(m, by, ok) =>
              OutboxHonours({m}, Call("published", by, K!NoTime, ok))
        /\ markPublishFailed(m, by, clock + 1, ok) =>
              OutboxHonours({m}, Call("failed", by, clock + 1, ok))
    /\ \A h \in held, ok \in BOOLEAN : renewPublishClaim(h, clock + Lease, ok) =>
            OutboxHonours({h.id}, Call("renew", h.owner, clock + Lease, ok))
    /\ releaseExpiredClaims => OutboxHonours(Msgs, Call("release", NoOwner, K!NoTime, TRUE))
    /\ \A m \in Msgs, ok \in BOOLEAN : requeuePublish(m, ok) =>
            OutboxHonours({m}, Call("requeue", NoOwner, K!NoTime, ok))

\* The statements that end the call of a delivery with an answer, or write its row.
Saving(d) ==
    \/ SaveInsert(d) \/ SaveCommit(d)
    \/ (SaveFind(d) \/ SaveInsertInTransaction(d) \/ SaveSearch(d)) /\ saves'[d].answer # NoAnswer

\* What the caller is told, or would have been.
Told(d) == IF saves'[d].answer # NoAnswer THEN saves'[d].answer.inserted ELSE ~Stored(d)

\* Likewise of the inbox, but for marks that another write overtakes: no
\* contract test runs one.
InboxCallHonours ==
    /\ \A d \in Deliveries :
        /\ Saving(d) => InboxHonours({KeyOf[d]}, Call("insert", NoOwner, K!NoTime, Told(d)))
        /\ markProcessed(d) /\ ~Overtaken(d) =>
              InboxHonours({KeyOf[d]}, Call("processed", NoOwner, K!NoTime, TRUE))
        /\ markReceivedFailed(d, clock + 1) /\ ~Overtaken(d) =>
              InboxHonours({KeyOf[d]}, Call("failed", NoOwner, clock + 1, TRUE))
        /\ \A cutoff \in {K!NoTime, clock} : getRetryDue(d, cutoff) =>
              InboxHonours({KeyOf[d]}, Call("due", NoOwner, cutoff, TRUE))
    /\ \A k \in Keys, ok \in BOOLEAN : requeueReceived(k, ok) =>
            InboxHonours({k}, Call("requeue", NoOwner, K!NoTime, ok))

CallsHonourContract ==
    [][IF part = "outbox" THEN OutboxCallHonours ELSE InboxCallHonours]_vars

SnapshotHonours ==
    IF part = "outbox"
    THEN C!HonoursSnapshot(Snapshot(rows, CreatedAt, K!Status \ {"absent"}),
                           rows, CreatedAt, K!Status \ {"absent"})
    ELSE C!HonoursSnapshot(Snapshot(InboxRows, ReceivedAt, KR!Status \ {"absent"}),
                           InboxRows, ReceivedAt, KR!Status \ {"absent"})

\* The pages of one row each, and the page after the last.
Pages(found) == 1 .. Cardinality(found) + 1

\* The rows have dates of their own, or the table does not go by their dates.
OrderIsFixed(wanted, born) == InMemory \/ \A r, q \in wanted : born[r] = born[q] => r = q

\* Each page of a listing has an answer, and whichever each gets ...  Rows of one
\* date may change places between two pages, in SQL: then one is shown twice,
\* another not.
BrowsingHonours(answers, wanted, born) ==
    /\ \A p \in DOMAIN answers : answers[p] # {}
    /\ \A pages \in [DOMAIN answers -> UNION {answers[p] : p \in DOMAIN answers}] :
        (\A p \in DOMAIN answers : pages[p] \in answers[p]) =>
            /\ C!HonoursDates(pages, wanted, born)
            /\ OrderIsFixed(wanted, born) => C!HonoursListing(pages, wanted)

\* of is one topic's rows.
OutboxListingHonours(of, only) ==
    LET Stale(m) == \/ rows[m].status = "pending"
                    \/ rows[m].status = "failed" /\ rows[m].due <= clock
                    \/ rows[m].status = "processing" /\ rows[m].until \in 0 .. clock
    IN  BrowsingHonours([page \in Pages(of) |-> listOutbox(of, only, page, 1)],
                        {m \in of : only => Stale(m)}, CreatedAt)

InboxListingHonours(only) ==
    LET of == {k \in Keys : inbox[k].id # NoOne}
    IN  BrowsingHonours([page \in Pages(of) |-> listInbox(of, only, page, 1)],
                        {k \in of : only => KR!RetryDue(inbox[k].row, clock, K!NoTime)},
                        ReceivedAt)

ListingHonours ==
    \A only \in BOOLEAN :
        IF part = "outbox"
        THEN \A of \in SUBSET {m \in Msgs : ~Absent(m)} : OutboxListingHonours(of, only)
        ELSE InboxListingHonours(only)

\* What an operator is shown of a table at rest, however the adapter aggregates
\* and pages it: a snapshot counts every row once under its status and tells the
\* age of the oldest.  Page by page, a listing shows each date as often as there
\* are rows of it, and so, when no two rows have one date (in memory: always),
\* each row once; rows it calls unpublished or due are the ones the next round
\* takes up.  Two rows of one date may change places between the queries.
ReadsAreComplete == SnapshotHonours /\ ListingHonours

\* Of the deliveries of one message that are answered, the one whose row is there
\* is told that it inserted it, no other is, and all are told the id of that row,
\* whatever statements interleave and whichever are rolled back.  One exception:
\* MikroORM whose insert lost its answer finds its own row and takes it for a
\* duplicate; its handler is left to the retry of pending rows.
InsertedOnce ==
    \A d \in Deliveries : saves[d].answer.id # NoOne =>
        /\ saves[d].answer.id = Entry(d).id
        /\ saves[d].answer.inserted <=> Entry(d).id = d /\ ~saves[d].lost
        /\ saves[d].lost => SearchesAfterErrors
==============================================================================
