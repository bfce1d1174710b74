--------------------------- MODULE StoragesProofs ----------------------------
(*****************************************************************************)
(* Theorems about Storages, for any messages, workers, deliveries, keys and  *)
(* bounds, and for any database below the five libraries: the claims of the  *)
(* outbox, the inserts of the inbox, the contract every adapter keeps, and   *)
(* what the snapshots and listings show.                                     *)
(*****************************************************************************)
EXTENDS Storages, WellFoundedInduction, FiniteSetTheorems, SequenceTheorems, TLAPS

------------------------------------------------------------------------------
(* The outbox                                                                *)

\* What a claim may select, in every library.
LEMMA ClaimableRows ==
    ASSUME NEW row \in K!Row, NEW t \in Nat, site \in Sites, Claimable(row, t)
    PROVE  \/ row.status \in {"pending", "failed"}
           \/ row.status = "processing" /\ row.until <= t
<1>1. site[1] \in Libraries
  BY StoragesAssumption
<1>2. CASE site[1] = "knex"
  BY <1>2 DEF Claimable, ByLibrary, K!Claimable, K!Expired
<1>3. CASE site[1] = "typeorm"
  BY <1>3 DEF Claimable, ByLibrary, T!Claimable, T!NotAfter
<1>4. CASE site[1] = "prisma"
  BY <1>4 DEF Claimable, ByLibrary, P!Claimable, P!NotAfter
<1>5. CASE site[1] = "mikro"
  BY <1>5 DEF Claimable, ByLibrary, M!Claimable, M!NotAfter
<1>6. CASE site[1] = "memory"
  BY <1>6 DEF Claimable, ByLibrary, I!Claimable
<1>. QED
  BY <1>1, <1>2, <1>3, <1>4, <1>5, <1>6 DEF Libraries

\* The row a claim writes; MikroORM's only if it is as the claim read it.
LEMMA ClaimedRows ==
    ASSUME NEW row \in K!Row, NEW owner \in Tokens, NEW until \in Nat, site \in Sites
    PROVE  Claimed(row, row, owner, until) = I!Claimed(row, owner, until)
<1>. DEFINE new == [row EXCEPT !.status = "processing", !.owner = owner, !.until = until]
<1>1. site[1] \in Libraries
  BY StoragesAssumption
<1>2. CASE site[1] = "knex"
  BY <1>2 DEF Claimed, ByLibrary, K!ClaimedRow, I!Claimed, K!Row
<1>3. CASE site[1] = "typeorm"
  BY <1>3 DEF Claimed, ByLibrary, T!Claimed, I!Claimed, K!Row
<1>4. CASE site[1] = "prisma"
  BY <1>4 DEF Claimed, ByLibrary, P!Claimed, I!Claimed, K!Row
<1>5. CASE site[1] = "mikro"
  <2>1. M!Flushed(row, row, new) = [f \in DOMAIN row |-> new[f]]
    BY DEF M!Flushed
  <2>2. [f \in DOMAIN row |-> new[f]] = new
    BY DEF K!Row
  <2>3. Claimed(row, row, owner, until) = M!Flushed(row, row, new)
    BY <1>5 DEF Claimed, ByLibrary, M!Claimed
  <2>. QED
    BY <2>1, <2>2, <2>3 DEF I!Claimed
<1>6. CASE site[1] = "memory"
  BY <1>6 DEF Claimed, ByLibrary, I!Claimed, K!Row
<1>. QED
  BY <1>1, <1>2, <1>3, <1>4, <1>5, <1>6 DEF Libraries

\* The rows the other calls leave behind, the same of every library.
LEMMA PublishedRows ==
    ASSUME NEW row \in K!Row, site \in Sites
    PROVE  Published(row) = [row EXCEPT !.status = "published", !.owner = NoOwner,
                                        !.until = K!NoTime, !.due = K!NoTime]
<1>1. site[1] \in Libraries
  BY StoragesAssumption
<1>. QED
  BY <1>1 DEF Libraries, Published, ByLibrary, K!PublishedRow, T!Published, P!Published,
              M!Published, I!Published, K!NoTime, T!NoTime, P!NoTime, M!NoTime, I!NoTime, K!Row

\* The fence of an owner, the same in every library.
LEMMA FencedRows ==
    ASSUME NEW row \in K!Row, NEW by, site \in Sites
    PROVE  Fenced(row, by) <=> by = NoOwner \/ (row.status = "processing" /\ row.owner = by)
<1>1. site[1] \in Libraries
  BY StoragesAssumption
<1>. QED
  BY <1>1 DEF Libraries, Fenced, ByLibrary, K!Owns, T!Fenced, P!Fenced, M!Fenced, I!Fenced

\* The row a failure leaves, whichever way the database assigns.
LEMMA FailedRows ==
    ASSUME NEW row \in K!Row, NEW due \in Nat, site \in Sites
    PROVE  Failed(row, due) = K!FailedRow(row, due)
<1>0. MaxRetries \in Int /\ row.retry \in Int /\ site[2] \in STRING
  BY StoragesAssumption DEF K!Row
<1>1. site[1] \in Libraries
  BY StoragesAssumption
<1>2. CASE site[1] = "knex"
  <2>1. IF db \in {"mysql", "mariadb"}
        THEN T!SeenAfterCount(db, row).retry = row.retry + 1
        ELSE T!SeenAfterCount(db, row).retry = row.retry
    BY DEF T!SeenAfterCount, T!LeftToRight, K!Row
  <2>2. KnexFailed(db, row, due) = K!FailedRow(row, due)
    BY <2>1, <1>0 DEF KnexFailed, K!FailedRow, K!NoTime, K!Row
  <2>. QED
    BY <1>2, <2>2 DEF Failed, ByLibrary
<1>3. CASE site[1] = "typeorm"
  <2>1. IF T!usesMySqlAssignmentSemantics(db)
        THEN T!SeenAfterCount(db, row).retry = row.retry + 1
        ELSE T!SeenAfterCount(db, row).retry = row.retry
    BY DEF T!SeenAfterCount, T!LeftToRight, T!usesMySqlAssignmentSemantics, K!Row
  <2>2. T!Failed(db, row, due) = K!FailedRow(row, due)
    BY <2>1, <1>0 DEF T!Failed, K!FailedRow, K!NoTime, T!NoTime, K!Row
  <2>. QED
    BY <1>3, <2>2 DEF Failed, ByLibrary
<1>4. CASE site[1] = "prisma"
  <2>1. P!SeenAfterCount(db, row).retry + (IF db = "mysql" THEN 0 ELSE 1) = row.retry + 1
    BY <1>4, <1>0, StoragesAssumption DEF db, P!SeenAfterCount, P!LeftToRight, K!Row
  <2>2. P!Failed(db, row, due) = K!FailedRow(row, due)
    BY <2>1, <1>0 DEF P!Failed, K!FailedRow, K!NoTime, P!NoTime
  <2>. QED
    BY <1>4, <2>2 DEF Failed, ByLibrary
<1>5. CASE site[1] = "mikro"
  <2>1. M!SeenAfterCount(db, row).retry + (IF M!usesMySqlAssignmentSemantics(db) THEN 0 ELSE 1) = row.retry + 1
    BY DEF M!SeenAfterCount, M!LeftToRight, M!usesMySqlAssignmentSemantics, K!Row
  <2>2. M!Failed(db, row, due) = K!FailedRow(row, due)
    BY <2>1, <1>0, due # -1 DEF M!Failed, K!FailedRow, K!NoTime, M!NoTime
  <2>. QED
    BY <1>5, <2>2 DEF Failed, ByLibrary
<1>6. CASE site[1] = "memory"
  BY <1>6, <1>0 DEF Failed, ByLibrary, I!Failed, K!FailedRow, K!NoTime, I!NoTime, K!Row
<1>. QED
  BY <1>1, <1>2, <1>3, <1>4, <1>5, <1>6 DEF Libraries

\* Which claims can be renewed.
LEMMA RenewableRows ==
    ASSUME NEW row \in K!Row, NEW owner, NEW t \in Nat, site \in Sites
    PROVE  Renewable(row, owner, t) <=>
              row.status = "processing" /\ row.owner = owner /\ row.until > t
<1>1. site[1] \in Libraries
  BY StoragesAssumption
<1>. QED
  BY <1>1 DEF Libraries, Renewable, ByLibrary, K!CanRenew, T!Renewable, P!Renewable, M!Renewable,
              I!Renewable, T!After, P!After, M!After, T!NoTime, P!NoTime, M!NoTime, I!NoTime,
              K!Row, K!Time, K!NoTime

\* The row a renewal leaves.
LEMMA RenewedRows ==
    ASSUME NEW row \in K!Row, NEW until, site \in Sites
    PROVE  Renewed(row, until) = [row EXCEPT !.until = until]
<1>1. site[1] \in Libraries
  BY StoragesAssumption
<1>. QED
  BY <1>1 DEF Libraries, Renewed, ByLibrary, K!RenewedRow, T!Renewed, P!Renewed, M!Renewed,
              I!Renewed, K!Row

\* Which claims have run out.
LEMMA LapsedRows ==
    ASSUME NEW row \in K!Row, NEW t \in Nat, site \in Sites
    PROVE  /\ Lapsed(row, t) <=>
                row.status = "processing" /\ row.until # K!NoTime /\ row.until <= t
           /\ Lapsed(row, t) => Released(row, t) =
                [row EXCEPT !.status = "failed", !.owner = NoOwner, !.until = K!NoTime]
<1>1. site[1] \in Libraries
  BY StoragesAssumption
<1>2. Lapsed(row, t) <=>
         row.status = "processing" /\ row.until # K!NoTime /\ row.until <= t
  BY <1>1 DEF Libraries, Lapsed, ByLibrary, K!Expired, T!Lapsed, P!Lapsed, M!Lapsed, I!Lapsed,
              T!NotAfter, P!NotAfter, M!NotAfter, T!NoTime, P!NoTime, M!NoTime, I!NoTime, K!NoTime
<1>3. ASSUME Lapsed(row, t)
      PROVE  Released(row, t) =
                [row EXCEPT !.status = "failed", !.owner = NoOwner, !.until = K!NoTime]
  BY <1>1, <1>2, <1>3 DEF Libraries, Released, ByLibrary, K!Expired, K!ReleasedRow, T!Released,
              P!Released, M!Released, I!Released, T!NoTime, P!NoTime, M!NoTime, I!NoTime,
              K!NoTime, K!Row
<1>. QED
  BY <1>2, <1>3

\* The row a requeue leaves.
LEMMA RequeuedRows ==
    ASSUME NEW row \in K!Row, NEW t \in Nat, site \in Sites
    PROVE  /\ Requeueable(row) <=> row.status \in {"failed", "dead_letter"}
           /\ Requeued(row, t) =
                [row EXCEPT !.status = "failed", !.retry = 0, !.due = t,
                            !.owner = NoOwner, !.until = K!NoTime]
<1>1. site[1] \in Libraries
  BY StoragesAssumption
<1>2. Requeueable(row) <=> row.status \in {"failed", "dead_letter"}
  BY <1>1 DEF Libraries, Requeueable, ByLibrary, K!CanRequeue, T!Requeueable, P!Requeueable,
              M!Requeueable, I!Requeueable
<1>3. Requeued(row, t) = [row EXCEPT !.status = "failed", !.retry = 0, !.due = t,
                                     !.owner = NoOwner, !.until = K!NoTime]
  BY <1>1 DEF Libraries, Requeued, ByLibrary, K!RequeuedRow, T!Requeued, P!Requeued, M!Requeued,
              I!Requeued, T!NoTime, P!NoTime, M!NoTime, I!NoTime, K!NoTime, K!Row
<1>. QED
  BY <1>2, <1>3

\* The row publish() inserts.
LEMMA SavedRow ==
    ASSUME site \in Sites
    PROVE  /\ Saved = K!PendingRow
           /\ K!PendingRow \in K!Row /\ K!AbsentRow \in K!Row
           /\ K!PendingRow.until = K!NoTime /\ K!PendingRow.status = "pending"
<1>1. site[1] \in Libraries
  BY StoragesAssumption
<1>2. K!AbsentRow \in K!Row
  BY DEF K!AbsentRow, K!Row, K!Status, K!Time, K!NoTime
<1>. QED
  BY <1>1, <1>2 DEF Libraries, Saved, ByLibrary, K!PendingRow, T!Saved, P!Saved, M!Saved, I!Saved,
              K!Row, K!Status, K!AbsentRow

-----------------------------------------------------------------------------
\* The rows above have the fields of a row, and those but a claim's and a
\* renewal's are of no one.
LEMMA NewRows ==
    ASSUME site \in Sites, NEW row \in K!Row, NEW t \in Nat
    PROVE  /\ Published(row) \in K!Row /\ Published(row).until = K!NoTime
           /\ Failed(row, t) \in K!Row /\ Failed(row, t).until = K!NoTime
           /\ Requeued(row, t) \in K!Row /\ Requeued(row, t).until = K!NoTime
           /\ Lapsed(row, t) => /\ Released(row, t) \in K!Row
                                /\ Released(row, t).until = K!NoTime
           /\ Renewed(row, t) \in K!Row /\ Renewed(row, t).until = t
           /\ Renewed(row, t).status = row.status /\ Renewed(row, t).owner = row.owner
<1>1. Published(row) \in K!Row /\ Published(row).until = K!NoTime
  <2>1. Published(row) = [row EXCEPT !.status = "published", !.owner = NoOwner,
                                     !.until = K!NoTime, !.due = K!NoTime]
    BY PublishedRows
  <2>. QED
    BY <2>1 DEF K!Row, K!Status, K!Time, K!NoTime
<1>2. K!FailedRow(row, t) \in K!Row
  <2>1. row.retry + 1 \in Nat
    BY DEF K!Row
  <2>2. PICK s \in {"dead_letter", "failed"}, due \in {K!NoTime, t} :
           K!FailedRow(row, t) = [row EXCEPT !.retry = row.retry + 1, !.status = s, !.due = due,
                                             !.owner = NoOwner, !.until = K!NoTime]
    <3>1. CASE row.retry + 1 >= MaxRetries
      BY <3>1 DEF K!FailedRow
    <3>2. CASE ~(row.retry + 1 >= MaxRetries)
      BY <3>2 DEF K!FailedRow
    <3>. QED
      BY <3>1, <3>2
  <2>3. s \in K!Status /\ due \in K!Time /\ K!NoTime \in K!Time
    BY DEF K!Status, K!Time
  <2>. QED
    BY <2>1, <2>2, <2>3 DEF K!Row
<1>3. K!FailedRow(row, t).until = K!NoTime
  BY DEF K!FailedRow, K!Row, K!NoTime
<1>4. Requeued(row, t) \in K!Row /\ Requeued(row, t).until = K!NoTime
  <2>1. Requeued(row, t) = [row EXCEPT !.status = "failed", !.retry = 0, !.due = t,
                                       !.owner = NoOwner, !.until = K!NoTime]
    BY RequeuedRows
  <2>2. "failed" \in K!Status /\ t \in K!Time /\ K!NoTime \in K!Time /\ 0 \in Nat
    BY DEF K!Status, K!Time
  <2>. QED
    BY <2>1, <2>2 DEF K!Row
<1>5. ASSUME Lapsed(row, t)
      PROVE  Released(row, t) \in K!Row /\ Released(row, t).until = K!NoTime
  <2>1. Released(row, t) = [row EXCEPT !.status = "failed", !.owner = NoOwner,
                                       !.until = K!NoTime]
    BY <1>5, LapsedRows
  <2>. QED
    BY <2>1 DEF K!Row, K!Status, K!Time, K!NoTime
<1>6. /\ Renewed(row, t) \in K!Row /\ Renewed(row, t).until = t
      /\ Renewed(row, t).status = row.status /\ Renewed(row, t).owner = row.owner
  <2>1. Renewed(row, t) = [row EXCEPT !.until = t]
    BY RenewedRows
  <2>. QED
    BY <2>1 DEF K!Row, K!Time
<1>. QED
  BY <1>1, <1>2, <1>3, <1>4, <1>5, <1>6, FailedRows

\* The claims a worker is handed, and the tokens they carry.
LEMMA NewClaims ==
    ASSUME site \in Sites, NEW row \in K!Row, NEW owner \in Tokens, NEW t \in Nat
    PROVE  LET new == I!Claimed(row, owner, t)
           IN  /\ new \in K!Row /\ new.status = "processing"
               /\ new.owner = owner /\ new.until = t
               /\ Claimed(row, row, owner, t) = new
<1>1. Claimed(row, row, owner, t) = I!Claimed(row, owner, t)
  BY ClaimedRows
<1>. QED
  BY <1>1 DEF I!Claimed, K!Row, K!Status, K!Time

-----------------------------------------------------------------------------
\* A row that may be claimed, and may from now on.
Offered(row) ==
    \/ row.status \in {"pending", "failed"}
    \/ row.status = "processing" /\ row.until <= clock

\* What the running claim of a worker has read: rows locked by it, unchanged
\* since, whose earlier holders have run out of time.
ClaimInv(w) ==
    /\ ~InMemory
    /\ claims[w].owner \in Tokens
    /\ claims[w].until \in Nat /\ claims[w].until <= clock + Lease
    /\ \A m \in DOMAIN claims[w].read :
        /\ m \in Msgs /\ locks[m] = w
        /\ claims[w].read[m] = rows[m] /\ Offered(rows[m])
        /\ \A h \in held : h.id = m => h.until <= clock

\* A claim that was returned and still runs has its row, for as long at least.
HoldInv(h) ==
    h.until > clock =>
        /\ rows[h.id].status = "processing" /\ rows[h.id].owner = h.owner
        /\ rows[h.id].until >= h.until

Claim == [id : Msgs, owner : Tokens, until : Nat]

\* The invariant of a storage that claims safely.
SafeInv ==
    /\ rows \in [Msgs -> K!Row]
    /\ \A m \in Msgs : rows[m].until <= clock + Lease
    /\ locks \in [Msgs -> Workers \cup {NoOne}]
    /\ claims = [w \in Workers |-> claims[w]]
    /\ \A w \in Workers : claims[w].n \in 0 .. MaxClaims
    /\ held \subseteq Claim
    /\ \A w \in Workers : claims[w].owner # NoOwner => ClaimInv(w)
    /\ \A h \in held : HoldInv(h)

StoragesInv ==
    /\ site \in Sites /\ clock \in Nat
    /\ ClaimsSafely => SafeInv

\* The invariant contains the property.
LEMMA InvGivesOwned == StoragesInv => HeldClaimsAreOwned
BY DEF StoragesInv, SafeInv, HoldInv, HeldClaimsAreOwned

\* The initial states satisfy StoragesInv.
LEMMA InitInv == Init => StoragesInv
<1>1. K!AbsentRow \in K!Row /\ K!AbsentRow.until = -1
  BY DEF K!AbsentRow, K!Row, K!Status, K!Time, K!NoTime
<1>2. Lease \in Nat /\ MaxClaims \in Nat
  BY StoragesAssumption
<1>3. ASSUME Init PROVE SafeInv
  <2>1. /\ rows \in [Msgs -> K!Row]
        /\ \A m \in Msgs : rows[m].until <= clock + Lease
    BY <1>1, <1>2, <1>3 DEF Init
  <2>2. locks \in [Msgs -> Workers \cup {NoOne}]
    BY <1>3 DEF Init
  <2>3. /\ claims = [w \in Workers |-> claims[w]]
        /\ \A w \in Workers : claims[w].n \in 0 .. MaxClaims /\ claims[w].owner = NoOwner
    BY <1>2, <1>3 DEF Init, NoClaim
  <2>4. held = {}
    BY <1>3 DEF Init
  <2>. QED
    BY <2>1, <2>2, <2>3, <2>4 DEF SafeInv
<1>. QED
  BY <1>3 DEF Init, StoragesInv

-----------------------------------------------------------------------------
\* A statement on rows that no running claim has read keeps what they hold.
LEMMA StatementInv ==
    ASSUME StoragesInv, SafeInv, NEW S \in SUBSET Msgs,
           UNCHANGED <<clock, locks, claims, site>>,
           \A m \in S : Unlocked(m) \/ Absent(m),
           rows' \in [Msgs -> K!Row],
           \A m \in Msgs \ S : rows'[m] = rows[m],
           \A m \in S : rows'[m].until <= clock + Lease,
           held' \subseteq Claim,
           \A h \in held' : h.id \notin S => h \in held,
           \A h \in held' : h.id \in S => HoldInv(h)'
    PROVE  SafeInv'
<1>1. ASSUME NEW m \in Msgs PROVE rows'[m].until <= clock' + Lease
  BY <1>1 DEF SafeInv
<1>2. ASSUME NEW w \in Workers, claims'[w].owner # NoOwner
      PROVE  ClaimInv(w)'
  <2>1. ClaimInv(w)
    BY <1>2 DEF SafeInv
  <2>2. ASSUME NEW m \in DOMAIN claims[w].read
        PROVE  m \in Msgs /\ m \notin S
    BY <2>1, StoragesAssumption DEF ClaimInv, Unlocked, Absent, Offered
  <2>3. ASSUME NEW m \in DOMAIN claims[w].read
        PROVE  /\ m \in Msgs /\ locks'[m] = w
               /\ claims'[w].read[m] = rows'[m] /\ Offered(rows[m])'
               /\ \A h \in held' : h.id = m => h.until <= clock'
    BY <2>1, <2>2, <2>3 DEF ClaimInv, Offered
  <2>. QED
    BY <2>1, <2>3 DEF ClaimInv, InMemory
<1>3. ASSUME NEW h \in held' PROVE HoldInv(h)'
  <2>1. CASE h.id \in S
    BY <2>1
  <2>2. CASE h.id \notin S
    <3>1. HoldInv(h) /\ h.id \in Msgs
      BY <2>2 DEF SafeInv, Claim
    <3>. QED
      BY <2>2, <3>1 DEF HoldInv
  <2>. QED
    BY <2>1, <2>2
<1>. QED
  BY <1>1, <1>2, <1>3 DEF SafeInv

\* The same of one row.
LEMMA RowStatementInv ==
    ASSUME StoragesInv, SafeInv, NEW m \in Msgs,
           clock' = clock, locks' = locks, claims' = claims, site' = site,
           Unlocked(m) \/ Absent(m),
           rows' \in [Msgs -> K!Row],
           \A k \in Msgs \ {m} : rows'[k] = rows[k],
           rows'[m].until <= clock + Lease,
           held' \subseteq Claim,
           \A h \in held' : h.id # m => h \in held,
           \A h \in held' : h.id = m => HoldInv(h)'
    PROVE  SafeInv'
<1>. DEFINE S == {m}
<1>1. S \in SUBSET Msgs /\ UNCHANGED <<clock, locks, claims, site>>
  OBVIOUS
<1>2. \A k \in S : (Unlocked(k) \/ Absent(k)) /\ rows'[k].until <= clock + Lease
  OBVIOUS
<1>3. \A k \in Msgs \ S : rows'[k] = rows[k]
  OBVIOUS
<1>4. /\ \A h \in held' : h.id \notin S => h \in held
      /\ \A h \in held' : h.id \in S => HoldInv(h)'
  OBVIOUS
<1>. HIDE DEF S
<1>. QED
  BY <1>1, <1>2, <1>3, <1>4, StatementInv

\* savePublish keeps SafeInv.
LEMMA SavePublishInv ==
    ASSUME StoragesInv, SafeInv, NEW m \in Msgs, savePublish(m), UNCHANGED <<clock, site>>
    PROVE  SafeInv'
<1>1. /\ rows' = [rows EXCEPT ![m] = Saved] /\ Absent(m)
      /\ UNCHANGED <<locks, claims, held>>
  BY DEF savePublish
<1>2. Saved \in K!Row /\ Saved.until = -1
  BY SavedRow DEF StoragesInv, K!NoTime
<1>3. /\ rows' \in [Msgs -> K!Row]
      /\ \A k \in Msgs \ {m} : rows'[k] = rows[k]
      /\ rows'[m].until <= clock + Lease
  BY <1>1, <1>2, StoragesAssumption DEF SafeInv, StoragesInv
<1>4. ASSUME NEW h \in held, h.id = m PROVE HoldInv(h)'
  <2>1. HoldInv(h) /\ h.until \in Nat
    BY DEF SafeInv, Claim
  <2>2. ~(h.until > clock)
    BY <1>1, <1>4, <2>1 DEF HoldInv, Absent
  <2>. QED
    BY <1>1, <2>2 DEF HoldInv
<1>5. held' \subseteq Claim
  BY <1>1 DEF SafeInv
<1>. QED
  BY <1>1, <1>3, <1>4, <1>5, RowStatementInv

\* Complete keeps SafeInv.
LEMMA CompleteInv ==
    ASSUME StoragesInv, SafeInv, NEW m \in Msgs, NEW by, NEW ok \in BOOLEAN, NEW row \in K!Row,
           row.until = K!NoTime, Complete(m, by, row, ok), UNCHANGED <<clock, site>>
    PROVE  SafeInv'
<1>1. /\ Unlocked(m) /\ ok = Fenced(rows[m], by)
      /\ rows' = IF ok THEN [rows EXCEPT ![m] = row] ELSE rows
      /\ held' = held \ Ended(m, by)
      /\ UNCHANGED <<locks, claims>>
  BY DEF Complete
<1>2. /\ rows' \in [Msgs -> K!Row]
      /\ \A k \in Msgs \ {m} : rows'[k] = rows[k]
      /\ rows'[m].until <= clock + Lease
  BY <1>1, StoragesAssumption DEF SafeInv, StoragesInv, K!NoTime
<1>3. held' \subseteq Claim /\ held' \subseteq held
  BY <1>1 DEF SafeInv
<1>4. ASSUME NEW h \in held', h.id = m PROVE HoldInv(h)'
  <2>1. h \in held /\ HoldInv(h)
    BY <1>3 DEF SafeInv
  <2>2. CASE ~ok
    BY <1>1, <2>1, <2>2 DEF HoldInv
  <2>3. CASE ok
    <3>1. rows[m] \in K!Row /\ site \in Sites
      BY DEF SafeInv, StoragesInv
    <3>2. rows[m].status = "processing" /\ rows[m].owner = by
      BY <1>1, <1>4, <2>1, <2>3, <3>1, FencedRows DEF Ended
    <3>3. ~(h.until > clock)
      BY <1>1, <1>4, <2>1, <3>2 DEF HoldInv, Ended
    <3>. QED
      BY <3>3 DEF HoldInv
  <2>. QED
    BY <2>2, <2>3
<1>. QED
  BY <1>1, <1>2, <1>3, <1>4, RowStatementInv

\* Renew keeps SafeInv.
LEMMA RenewInv ==
    ASSUME StoragesInv, SafeInv, NEW h \in held, NEW ok \in BOOLEAN,
           renewPublishClaim(h, clock + Lease, ok), UNCHANGED <<clock, site>>
    PROVE  SafeInv'
<1>. DEFINE m == h.id
            new == [h EXCEPT !.until = clock + Lease]
<1>1. h \in Claim /\ m \in Msgs /\ HoldInv(h) /\ rows[m] \in K!Row /\ site \in Sites
  BY DEF SafeInv, StoragesInv, Claim
<1>2. clock + Lease \in Nat /\ clock \in Nat
  BY StoragesAssumption DEF StoragesInv
<1>3. new \in Claim /\ new.id = m /\ new.owner = h.owner /\ new.until = clock + Lease
  BY <1>1, <1>2 DEF Claim
<1>4. CASE ~ok
  <2>1. Unlocked(m) /\ UNCHANGED <<rows, held, locks, claims>>
    BY <1>4 DEF renewPublishClaim
  <2>2. /\ rows' \in [Msgs -> K!Row] /\ held' \subseteq Claim
        /\ rows'[m].until <= clock + Lease
        /\ \A k \in Msgs \ {m} : rows'[k] = rows[k]
    BY <1>1, <2>1 DEF SafeInv
  <2>3. ASSUME NEW g \in held' PROVE HoldInv(g)'
    BY <2>1 DEF SafeInv, HoldInv
  <2>. QED
    BY <1>1, <2>1, <2>2, <2>3, RowStatementInv
<1>5. CASE ok
  <2>1. /\ Unlocked(m) /\ UNCHANGED <<locks, claims>>
        /\ Renewable(rows[m], h.owner, clock)
        /\ rows' = [rows EXCEPT ![m] = Renewed(rows[m], clock + Lease)]
        /\ held' = (held \ {h}) \cup {new}
    BY <1>5 DEF renewPublishClaim
  <2>2. rows[m].status = "processing" /\ rows[m].owner = h.owner
    BY <1>1, <1>2, <2>1, RenewableRows
  <2>3. LET row == Renewed(rows[m], clock + Lease)
        IN  /\ row \in K!Row /\ row.until = clock + Lease
            /\ row.status = "processing" /\ row.owner = h.owner
    BY <1>1, <1>2, <2>2, NewRows
  <2>4. rows' \in [Msgs -> K!Row]
    BY <2>1, <2>3 DEF SafeInv
  <2>5. /\ rows'[m].until = clock + Lease
        /\ rows'[m].status = "processing" /\ rows'[m].owner = h.owner
        /\ \A k \in Msgs \ {m} : rows'[k] = rows[k]
    BY <1>1, <2>1, <2>3 DEF SafeInv
  <2>6. held' \subseteq Claim /\ \A g \in held' : g.id # m => g \in held
    BY <1>3, <2>1 DEF SafeInv
  <2>7. ASSUME NEW g \in held', g.id = m PROVE HoldInv(g)'
    <3>1. CASE g = new
      BY <1>2, <1>3, <2>5, <3>1 DEF HoldInv
    <3>2. CASE g \in held
      <4>1. HoldInv(g) /\ g.until \in Nat
        BY <3>2 DEF SafeInv, Claim
      <4>2. rows[m].until <= clock + Lease /\ rows[m].until \in Int
        BY <1>1 DEF SafeInv, K!Row, K!Time, K!NoTime
      <4>. QED
        BY <1>2, <2>2, <2>5, <2>7, <4>1, <4>2 DEF HoldInv
    <3>. QED
      BY <2>1, <3>1, <3>2
  <2>8. rows'[m].until <= clock + Lease
    BY <1>2, <2>5
  <2>. QED
    BY <1>1, <2>1, <2>4, <2>5, <2>6, <2>7, <2>8, RowStatementInv
<1>. QED
  BY <1>4, <1>5

\* Mark keeps SafeInv.
LEMMA MarkInv ==
    ASSUME StoragesInv, SafeInv, NEW m \in Msgs, NEW by, NEW ok \in BOOLEAN,
           markPublished(m, by, ok) \/ markPublishFailed(m, by, clock + 1, ok),
           UNCHANGED <<clock, site>>
    PROVE  SafeInv'
<1>1. rows[m] \in K!Row /\ site \in Sites /\ clock + 1 \in Nat
  BY DEF SafeInv, StoragesInv
<1>2. CASE markPublished(m, by, ok)
  <2>1. Published(rows[m]) \in K!Row /\ Published(rows[m]).until = K!NoTime
    BY <1>1, NewRows
  <2>. QED
    BY <1>2, <2>1, CompleteInv DEF markPublished
<1>3. CASE markPublishFailed(m, by, clock + 1, ok)
  <2>1. /\ Failed(rows[m], clock + 1) \in K!Row
        /\ Failed(rows[m], clock + 1).until = K!NoTime
    BY <1>1, NewRows
  <2>. QED
    BY <1>3, <2>1, CompleteInv DEF markPublishFailed
<1>. QED
  BY <1>2, <1>3

\* Requeue keeps SafeInv.
LEMMA RequeueInv ==
    ASSUME StoragesInv, SafeInv, NEW m \in Msgs, NEW ok \in BOOLEAN,
           requeuePublish(m, ok), UNCHANGED <<clock, site>>
    PROVE  SafeInv'
<1>1. /\ Unlocked(m) /\ ok = Requeueable(rows[m])
      /\ rows' = IF ok THEN [rows EXCEPT ![m] = Requeued(rows[m], clock)] ELSE rows
      /\ UNCHANGED <<locks, claims, held>>
  BY DEF requeuePublish
<1>2. rows[m] \in K!Row /\ site \in Sites /\ clock \in Nat
  BY DEF SafeInv, StoragesInv
<1>3. /\ Requeued(rows[m], clock) \in K!Row
      /\ Requeued(rows[m], clock).until = -1
  BY <1>2, NewRows DEF K!NoTime
<1>4. /\ rows' \in [Msgs -> K!Row]
      /\ \A k \in Msgs \ {m} : rows'[k] = rows[k]
      /\ rows'[m].until <= clock + Lease
  BY <1>1, <1>2, <1>3, StoragesAssumption DEF SafeInv
<1>5. held' \subseteq Claim
  BY <1>1 DEF SafeInv
<1>6. ASSUME NEW h \in held', h.id = m PROVE HoldInv(h)'
  <2>1. h \in held /\ HoldInv(h)
    BY <1>1 DEF SafeInv
  <2>2. CASE ok
    <3>1. rows[m].status \in {"failed", "dead_letter"}
      BY <1>1, <1>2, <2>2, RequeuedRows
    <3>. QED
      BY <1>6, <2>1, <3>1 DEF HoldInv
  <2>3. CASE ~ok
    BY <1>1, <2>1, <2>3 DEF HoldInv
  <2>. QED
    BY <2>2, <2>3
<1>. QED
  BY <1>1, <1>4, <1>5, <1>6, RowStatementInv

\* Release keeps SafeInv.
LEMMA ReleaseInv ==
    ASSUME StoragesInv, SafeInv, releaseExpiredClaims, UNCHANGED <<clock, site>>
    PROVE  SafeInv'
<1>. DEFINE S == {m \in Msgs : Lapsed(rows[m], clock)}
<1>1. /\ \A m \in S : Unlocked(m)
      /\ rows' = [m \in Msgs |-> IF m \in S THEN Released(rows[m], clock) ELSE rows[m]]
      /\ UNCHANGED <<locks, claims, held>>
  BY DEF releaseExpiredClaims
<1>2. site \in Sites /\ clock \in Nat /\ \A m \in Msgs : rows[m] \in K!Row
  BY DEF SafeInv, StoragesInv
<1>3. ASSUME NEW m \in S
      PROVE  /\ Released(rows[m], clock) \in K!Row /\ Released(rows[m], clock).until = -1
             /\ rows[m].until <= clock
  BY <1>2, NewRows, LapsedRows DEF K!NoTime
<1>4. /\ rows' \in [Msgs -> K!Row]
      /\ \A m \in Msgs \ S : rows'[m] = rows[m]
  BY <1>1, <1>2, <1>3
<1>5. \A m \in S : rows'[m].until <= clock + Lease
  BY <1>1, <1>2, <1>3, StoragesAssumption
<1>6. ASSUME NEW h \in held', h.id \in S PROVE HoldInv(h)'
  <2>1. HoldInv(h) /\ rows[h.id].until <= clock /\ rows[h.id].until \in Int /\ h.until \in Nat
    BY <1>1, <1>2, <1>3, <1>6 DEF SafeInv, K!Row, K!Time, K!NoTime, Claim
  <2>2. ~(h.until > clock)
    BY <1>2, <2>1 DEF HoldInv
  <2>. QED
    BY <2>2 DEF HoldInv
<1>7. S \in SUBSET Msgs /\ held' \subseteq Claim /\ held' = held
  BY <1>1 DEF SafeInv
<1>8. UNCHANGED <<clock, locks, claims, site>>
  BY <1>1
<1>9. \A m \in S : Unlocked(m) \/ Absent(m)
  BY <1>1
<1>. HIDE DEF S
<1>. QED
  BY <1>4, <1>5, <1>6, <1>7, <1>8, <1>9, StatementInv

-----------------------------------------------------------------------------
\* No one holds a row that may be claimed.
LEMMA SelectedRows ==
    ASSUME StoragesInv, SafeInv, NEW selected \in Selections, NEW m \in selected
    PROVE  /\ m \in Msgs /\ rows[m] \in K!Row /\ Offered(rows[m])
           /\ LocksClaimed => Unlocked(m)
           /\ \A h \in held : h.id = m => h.until <= clock
<1>1. m \in Msgs /\ Claimable(rows[m], clock) /\ (LocksClaimed => Unlocked(m))
  BY DEF Selections
<1>2. rows[m] \in K!Row /\ site \in Sites /\ clock \in Nat
  BY <1>1 DEF SafeInv, StoragesInv
<1>3. \/ rows[m].status \in {"pending", "failed"}
      \/ rows[m].status = "processing" /\ rows[m].until <= clock
  BY <1>1, <1>2, ClaimableRows
<1>4. ASSUME NEW h \in held, h.id = m PROVE h.until <= clock
  <2>1. HoldInv(h) /\ h.until \in Nat /\ rows[m].until \in Int
    BY <1>2 DEF SafeInv, Claim, K!Row, K!Time, K!NoTime
  <2>. QED
    BY <1>2, <1>3, <1>4, <2>1 DEF HoldInv
<1>. QED
  BY <1>1, <1>2, <1>3, <1>4 DEF Offered

\* The rows in S, which no one holds, become those of one claim.
LEMMA TakeInv ==
    ASSUME StoragesInv, SafeInv, NEW S \in SUBSET Msgs, NEW owner \in Tokens, NEW until \in Nat,
           until <= clock + Lease, UNCHANGED clock,
           rows' = [m \in Msgs |-> IF m \in S THEN I!Claimed(rows[m], owner, until) ELSE rows[m]],
           held' = held \cup HeldFor(S, owner, until),
           \A m \in S : \A h \in held : h.id = m => h.until <= clock
    PROVE  /\ rows' \in [Msgs -> K!Row]
           /\ \A m \in Msgs : rows'[m].until <= clock + Lease
           /\ held' \subseteq Claim
           /\ \A h \in held' : HoldInv(h)'
           /\ \A m \in Msgs \ S : rows'[m] = rows[m]
           /\ \A h \in held' : h.id \notin S => h \in held
<1>1. site \in Sites /\ clock \in Nat /\ \A m \in Msgs : rows[m] \in K!Row
  BY DEF StoragesInv, SafeInv
<1>2. ASSUME NEW m \in S
      PROVE  /\ rows'[m] \in K!Row /\ rows'[m].status = "processing"
             /\ rows'[m].owner = owner /\ rows'[m].until = until
  BY <1>1, NewClaims
<1>3. \A m \in Msgs \ S : rows'[m] = rows[m]
  OBVIOUS
<1>4. rows' \in [Msgs -> K!Row]
  BY <1>1, <1>2, <1>3
<1>5. \A m \in Msgs : rows'[m].until <= clock + Lease
  BY <1>2, <1>3 DEF SafeInv
<1>6. \A h \in HeldFor(S, owner, until) :
         h \in Claim /\ h.id \in S /\ h.owner = owner /\ h.until = until
  BY DEF HeldFor, Claim
<1>7. held' \subseteq Claim
  BY <1>6 DEF SafeInv
<1>8. ASSUME NEW h \in held' PROVE HoldInv(h)'
  <2>1. CASE h \in HeldFor(S, owner, until)
    BY <1>2, <1>6, <2>1 DEF HoldInv
  <2>2. CASE h \in held /\ h.id \in S
    <3>1. h.until <= clock /\ h.until \in Nat
      BY <2>2 DEF SafeInv, Claim
    <3>. QED
      BY <1>1, <3>1 DEF HoldInv
  <2>3. CASE h \in held /\ h.id \notin S
    <3>1. HoldInv(h) /\ rows'[h.id] = rows[h.id]
      BY <1>3, <2>3 DEF SafeInv, Claim
    <3>. QED
      BY <3>1 DEF HoldInv
  <2>. QED
    BY <2>1, <2>2, <2>3
<1>. QED
  BY <1>3, <1>4, <1>5, <1>6, <1>7, <1>8

\* The token of a running claim is one of the model's.
LEMMA ClaimTokens ==
    ASSUME SafeInv, NEW w \in Workers, Idle(w)
    PROVE  /\ claims[w].n + 1 \in 0 .. MaxClaims
           /\ <<w, claims[w].n + 1>> \in Tokens
<1>1. claims[w].n \in 0 .. MaxClaims /\ claims[w].n < MaxClaims /\ MaxClaims \in Nat
  BY StoragesAssumption DEF SafeInv, Idle
<1>. QED
  BY <1>1 DEF Tokens

\* ClaimInMemory keeps SafeInv.
LEMMA ClaimInMemoryInv ==
    ASSUME StoragesInv, SafeInv, NEW w \in Workers, NEW selected \in Selections,
           ClaimInMemory(w, selected), UNCHANGED <<clock, site>>
    PROVE  SafeInv'
<1>. DEFINE owner == <<w, claims[w].n + 1>>
            until == clock + Lease
<1>1. /\ InMemory /\ Idle(w) /\ UNCHANGED locks
      /\ rows' = [m \in Msgs |-> IF m \in selected THEN I!Claimed(rows[m], owner, until)
                                 ELSE rows[m]]
      /\ held' = held \cup HeldFor(selected, owner, until)
      /\ claims' = [claims EXCEPT ![w] = NoClaim(claims[w].n + 1)]
  BY DEF ClaimInMemory
<1>2. owner \in Tokens /\ claims[w].n + 1 \in 0 .. MaxClaims
  BY <1>1, ClaimTokens
<1>3. until \in Nat /\ until <= clock + Lease
  BY StoragesAssumption DEF StoragesInv
<1>4. /\ selected \in SUBSET Msgs
      /\ \A m \in selected : \A h \in held : h.id = m => h.until <= clock
  BY SelectedRows
<1>. HIDE DEF owner, until
<1>5. /\ rows' \in [Msgs -> K!Row]
      /\ \A m \in Msgs : rows'[m].until <= clock + Lease
      /\ held' \subseteq Claim
      /\ \A h \in held' : HoldInv(h)'
  BY <1>1, <1>2, <1>3, <1>4, TakeInv
<1>6. ASSUME NEW v \in Workers PROVE claims[v].owner = NoOwner
  BY <1>1 DEF SafeInv, ClaimInv
<1>7. /\ claims' = [v \in Workers |-> claims'[v]]
      /\ \A v \in Workers : claims'[v].n \in 0 .. MaxClaims /\ claims'[v].owner = NoOwner
  BY <1>1, <1>2, <1>6 DEF SafeInv, NoClaim
<1>. QED
  BY <1>1, <1>5, <1>7 DEF SafeInv

\* ClaimSelect keeps SafeInv.
LEMMA ClaimSelectInv ==
    ASSUME StoragesInv, SafeInv, ClaimsSafely, NEW w \in Workers, NEW selected \in Selections,
           ClaimSelect(w, selected), UNCHANGED <<clock, site>>
    PROVE  SafeInv'
<1>. DEFINE claim == [n |-> claims[w].n + 1, read |-> [m \in selected |-> rows[m]],
                      owner |-> <<w, claims[w].n + 1>>, until |-> clock + Lease]
<1>1. /\ ~InMemory /\ LocksClaimed /\ Idle(w) /\ UNCHANGED <<rows, held>>
      /\ claims' = [claims EXCEPT ![w] = claim]
      /\ locks' = [m \in Msgs |-> IF m \in selected THEN w ELSE locks[m]]
  BY DEF ClaimSelect, ClaimsSafely
<1>2. claim.owner \in Tokens /\ claim.n \in 0 .. MaxClaims
  BY <1>1, ClaimTokens
<1>3. claim.until \in Nat /\ claim.until <= clock + Lease
  BY StoragesAssumption DEF StoragesInv
<1>4. ASSUME NEW m \in selected
      PROVE  /\ m \in Msgs /\ Offered(rows[m]) /\ locks[m] = NoOne
             /\ \A h \in held : h.id = m => h.until <= clock
  BY <1>1, SelectedRows DEF Unlocked
<1>5. DOMAIN claim.read = selected /\ \A m \in selected : claim.read[m] = rows[m]
  OBVIOUS
<1>. HIDE DEF claim
<1>6. /\ claims' = [v \in Workers |-> claims'[v]] /\ claims'[w] = claim
      /\ \A v \in Workers : v # w => claims'[v] = claims[v]
  BY <1>1 DEF SafeInv
<1>7. locks' \in [Msgs -> Workers \cup {NoOne}]
  BY <1>1 DEF SafeInv
<1>8. ClaimInv(w)'
  <2>1. ASSUME NEW m \in DOMAIN claims'[w].read
        PROVE  /\ m \in Msgs /\ locks'[m] = w
               /\ claims'[w].read[m] = rows'[m] /\ Offered(rows[m])'
               /\ \A h \in held' : h.id = m => h.until <= clock'
    BY <1>1, <1>4, <1>5, <1>6 DEF Offered
  <2>. QED
    BY <1>1, <1>2, <1>3, <1>6, <2>1 DEF ClaimInv, InMemory
<1>9. ASSUME NEW v \in Workers, v # w, claims'[v].owner # NoOwner
      PROVE  ClaimInv(v)'
  <2>1. ClaimInv(v) /\ claims'[v] = claims[v]
    BY <1>6, <1>9 DEF SafeInv
  <2>2. ASSUME NEW m \in DOMAIN claims[v].read
        PROVE  m \in Msgs /\ locks'[m] = v
    BY <1>1, <1>4, <2>1, StoragesAssumption DEF ClaimInv
  <2>. QED
    BY <1>1, <2>1, <2>2 DEF ClaimInv, InMemory, Offered
<1>10. \A v \in Workers : claims'[v].n \in 0 .. MaxClaims
  BY <1>2, <1>6 DEF SafeInv
<1>11. \A h \in held' : HoldInv(h)'
  BY <1>1 DEF SafeInv, HoldInv
<1>. QED
  BY <1>1, <1>6, <1>7, <1>8, <1>9, <1>10, <1>11 DEF SafeInv

\* The end of w's claim unlocks no row of another.
LEMMA OtherClaims ==
    ASSUME StoragesInv, SafeInv, NEW w \in Workers, NEW v \in Workers, v # w,
           claims' = [claims EXCEPT ![w] = NoClaim(claims[w].n)], Unlock(w), UNCHANGED clock,
           UNCHANGED site, claims'[v].owner # NoOwner, NEW S,
           \A m \in S : m \in Msgs => locks[m] = w,
           \A m \in Msgs \ S : rows'[m] = rows[m],
           \A h \in held' : h.id \notin S => h \in held
    PROVE  ClaimInv(v)'
<1>1. claims'[v] = claims[v] /\ ClaimInv(v)
  BY DEF SafeInv
<1>2. ASSUME NEW m \in DOMAIN claims[v].read
      PROVE  m \in Msgs /\ m \notin S /\ locks'[m] = v
  BY <1>1 DEF ClaimInv, Unlock
<1>. QED
  BY <1>1, <1>2 DEF ClaimInv, InMemory, Offered

\* ClaimEnd keeps SafeInv.
LEMMA ClaimEndInv ==
    ASSUME StoragesInv, SafeInv, ClaimsSafely, NEW w \in Workers,
           ClaimUpdate(w) \/ ClaimRollback(w), UNCHANGED <<clock, site>>
    PROVE  SafeInv'
<1>. DEFINE claim == claims[w]
            taken == IF ClaimUpdate(w) THEN DOMAIN claim.read ELSE {}
<1>1. /\ claims' = [claims EXCEPT ![w] = NoClaim(claims[w].n)] /\ Unlock(w)
      /\ claim.owner # NoOwner
  BY DEF ClaimUpdate, ClaimRollback
<1>2. ClaimInv(w)
  BY <1>1 DEF SafeInv
<1>3. \A m \in taken : m \in Msgs /\ locks[m] = w
  BY <1>2 DEF ClaimInv
<1>4. /\ claims' = [v \in Workers |-> claims'[v]]
      /\ claims'[w].owner = NoOwner
      /\ \A v \in Workers : claims'[v].n \in 0 .. MaxClaims
  BY <1>1 DEF SafeInv, NoClaim
<1>5. locks' \in [Msgs -> Workers \cup {NoOne}]
  BY <1>1 DEF SafeInv, Unlock
<1>6. /\ rows' \in [Msgs -> K!Row]
      /\ \A m \in Msgs : rows'[m].until <= clock + Lease
      /\ held' \subseteq Claim
      /\ \A h \in held' : HoldInv(h)'
      /\ \A m \in Msgs \ taken : rows'[m] = rows[m]
      /\ \A h \in held' : h.id \notin taken => h \in held
  <2>1. CASE ClaimUpdate(w)
    <3>1. ASSUME NEW m \in taken
          PROVE  /\ m \in Msgs /\ claim.read[m] = rows[m] /\ rows[m] \in K!Row
                 /\ \A h \in held : h.id = m => h.until <= clock
      BY <1>2, <2>1 DEF ClaimInv, SafeInv
    <3>2. /\ rows' = [m \in Msgs |->
                        IF m \in taken
                        THEN Claimed(rows[m], claim.read[m], claim.owner, claim.until)
                        ELSE rows[m]]
          /\ held' = held \cup HeldFor(taken, claim.owner, claim.until)
      BY <2>1 DEF ClaimUpdate
    <3>3. /\ claim.owner \in Tokens /\ claim.until \in Nat /\ claim.until <= clock + Lease
          /\ site \in Sites
      BY <1>2 DEF ClaimInv, StoragesInv
    <3>4. ASSUME NEW m \in taken
          PROVE  Claimed(rows[m], claim.read[m], claim.owner, claim.until)
                    = I!Claimed(rows[m], claim.owner, claim.until)
      BY <3>1, <3>3, ClaimedRows
    <3>5. rows' = [m \in Msgs |-> IF m \in taken
                                  THEN I!Claimed(rows[m], claim.owner, claim.until)
                                  ELSE rows[m]]
      BY <3>2, <3>4
    <3>6. taken \in SUBSET Msgs /\ UNCHANGED clock
      BY <3>1
    <3>7. \A m \in taken : \A h \in held : h.id = m => h.until <= clock
      BY <3>1
    <3>. HIDE DEF claim, taken
    <3>8. PICK S \in SUBSET Msgs, owner \in Tokens, until \in Nat :
             S = taken /\ owner = claim.owner /\ until = claim.until
      BY <3>3, <3>6
    <3>9. /\ rows' = [m \in Msgs |-> IF m \in S THEN I!Claimed(rows[m], owner, until)
                                     ELSE rows[m]]
          /\ held' = held \cup HeldFor(S, owner, until)
          /\ until <= clock + Lease
          /\ \A m \in S : \A h \in held : h.id = m => h.until <= clock
      BY <3>2, <3>3, <3>5, <3>7, <3>8
    <3>10. /\ rows' \in [Msgs -> K!Row]
           /\ \A m \in Msgs : rows'[m].until <= clock + Lease
           /\ held' \subseteq Claim
           /\ \A h \in held' : HoldInv(h)'
           /\ \A m \in Msgs \ S : rows'[m] = rows[m]
           /\ \A h \in held' : h.id \notin S => h \in held
      BY <3>6, <3>9, TakeInv
    <3>. QED
      BY <3>8, <3>10
  <2>2. CASE ~ClaimUpdate(w)
    <3>1. UNCHANGED <<rows, held>>
      BY <2>2 DEF ClaimRollback
    <3>. QED
      BY <3>1 DEF SafeInv, HoldInv
  <2>. QED
    BY <2>1, <2>2
<1>7. ASSUME NEW v \in Workers, claims'[v].owner # NoOwner PROVE ClaimInv(v)'
  <2>1. v # w
    BY <1>4, <1>7
  <2>. HIDE DEF taken
  <2>. QED
    BY <1>1, <1>3, <1>6, <1>7, <2>1, OtherClaims
<1>. HIDE DEF taken
<1>. QED
  BY <1>4, <1>5, <1>6, <1>7 DEF SafeInv

-----------------------------------------------------------------------------
\* Every step keeps the invariant.
LEMMA NextInv == StoragesInv /\ [Next]_vars => StoragesInv'
<1>. SUFFICES ASSUME StoragesInv, [Next]_vars
              PROVE  StoragesInv'
  OBVIOUS
<1>1. UNCHANGED site
  BY DEF Next, vars
<1>2. clock' \in Nat /\ site' \in Sites
  BY <1>1 DEF StoragesInv, Next, Tick, OutboxStep, InboxStep, vars
<1>3. ClaimsSafely' <=> ClaimsSafely
  BY <1>1 DEF ClaimsSafely, InMemory, LocksClaimed, ByLibrary, db
<1>4. ASSUME ClaimsSafely PROVE SafeInv'
  <2>1. SafeInv
    BY <1>4 DEF StoragesInv
  <2>2. CASE Tick
    <3>1. UNCHANGED outVars /\ clock' = clock + 1 /\ clock \in Nat
      BY <2>2 DEF Tick, StoragesInv
    <3>2. UNCHANGED <<rows, locks, claims, held>>
      BY <3>1 DEF outVars
    <3>3. ASSUME NEW w \in Workers, claims[w].owner # NoOwner PROVE ClaimInv(w)'
      <4>1. ClaimInv(w)
        BY <2>1, <3>3 DEF SafeInv
      <4>2. claims[w].until \in Nat /\ claims[w].until <= clock + 1 + Lease
        BY <3>1, <4>1, StoragesAssumption DEF ClaimInv
      <4>3. ASSUME NEW m \in DOMAIN claims[w].read, NEW h \in held, h.id = m
            PROVE  h.until <= clock + 1
        BY <2>1, <3>1, <4>1, <4>3 DEF ClaimInv, SafeInv, Claim
      <4>4. ASSUME NEW m \in DOMAIN claims[w].read
            PROVE  m \in Msgs /\ locks[m] = w /\ claims[w].read[m] = rows[m] /\ Offered(rows[m])'
        <5>1. m \in Msgs /\ locks[m] = w /\ claims[w].read[m] = rows[m] /\ Offered(rows[m])
          BY <4>1 DEF ClaimInv
        <5>2. rows[m].until \in Int
          BY <2>1, <5>1 DEF SafeInv, K!Row, K!Time, K!NoTime
        <5>. QED
          BY <3>1, <3>2, <5>1, <5>2 DEF Offered
      <4>. QED
        BY <1>1, <3>1, <3>2, <4>1, <4>2, <4>3, <4>4 DEF ClaimInv, InMemory
    <3>4. ASSUME NEW h \in held PROVE HoldInv(h)'
      <4>1. HoldInv(h) /\ h.until \in Nat
        BY <2>1 DEF SafeInv, Claim
      <4>. QED
        BY <3>1, <3>2, <4>1 DEF HoldInv
    <3>5. ASSUME NEW m \in Msgs PROVE rows'[m].until <= clock' + Lease
      <4>1. rows[m].until \in Int /\ rows[m].until <= clock + Lease
        BY <2>1 DEF SafeInv, K!Row, K!Time, K!NoTime
      <4>. QED
        BY <3>1, <3>2, <4>1, StoragesAssumption
    <3>. QED
      BY <2>1, <3>2, <3>3, <3>4, <3>5 DEF SafeInv
  <2>3. CASE OutboxStep
    <3>. UNCHANGED <<clock, site>>
      BY <1>1, <2>3 DEF OutboxStep
    <3>1. CASE releaseExpiredClaims
      BY <2>1, <3>1, ReleaseInv
    <3>2. ASSUME NEW w \in Workers, NEW selected \in Selections, ClaimInMemory(w, selected)
          PROVE  SafeInv'
      BY <2>1, <3>2, ClaimInMemoryInv
    <3>3. ASSUME NEW w \in Workers, NEW selected \in Selections, ClaimSelect(w, selected)
          PROVE  SafeInv'
      BY <1>4, <2>1, <3>3, ClaimSelectInv
    <3>4. ASSUME NEW w \in Workers, ClaimUpdate(w) \/ ClaimRollback(w) PROVE SafeInv'
      BY <1>4, <2>1, <3>4, ClaimEndInv
    <3>5. ASSUME NEW h \in held, NEW ok \in BOOLEAN, renewPublishClaim(h, clock + Lease, ok)
          PROVE  SafeInv'
      BY <2>1, <3>5, RenewInv
    <3>6. ASSUME NEW m \in Msgs, savePublish(m) PROVE SafeInv'
      BY <2>1, <3>6, SavePublishInv
    <3>7. ASSUME NEW m \in Msgs, NEW by \in Callers(m), NEW ok \in BOOLEAN,
                 markPublished(m, by, ok) \/ markPublishFailed(m, by, clock + 1, ok)
          PROVE  SafeInv'
      BY <2>1, <3>7, MarkInv
    <3>8. ASSUME NEW m \in Msgs, NEW ok \in BOOLEAN, requeuePublish(m, ok) PROVE SafeInv'
      BY <2>1, <3>8, RequeueInv
    <3>. QED
      BY <2>3, <3>1, <3>2, <3>3, <3>4, <3>5, <3>6, <3>7, <3>8 DEF OutboxStep
  <2>4. CASE InboxStep \/ UNCHANGED vars
    <3>1. UNCHANGED <<clock, rows, locks, claims, held>>
      BY <2>4 DEF InboxStep, outVars, vars
    <3>. QED
      BY <1>1, <2>1, <3>1 DEF SafeInv, ClaimInv, HoldInv, InMemory, Offered
  <2>. QED
    BY <2>2, <2>3, <2>4 DEF Next
<1>. QED
  BY <1>2, <1>3, <1>4 DEF StoragesInv

\* A worker owns the row of every claim it holds and whose lease still runs:
\* claimUnpublished of the in-memory storage, and of an adapter whose SELECT
\* locks the rows, never gives one message to two workers, whichever marks,
\* renewals, releases and requeues run beside it.
THEOREM SafeClaims == Spec => []HeldClaimsAreOwned
<1>1. Spec => []StoragesInv
  BY InitInv, NextInv, PTL DEF Spec
<1>. QED
  BY <1>1, InvGivesOwned, PTL

------------------------------------------------------------------------------
(* The inbox                                                                 *)

\* MikroORM writes the changed fields of what was read over the row.
LEMMA FlushedRow ==
    ASSUME NEW row \in KR!Row, NEW read \in KR!Row, NEW changed \in KR!Row
    PROVE  M!Flushed(row, read, changed) \in KR!Row
<1>. DEFINE new == M!Flushed(row, read, changed)
<1>1. DOMAIN row = {"status", "retry", "due", "born"}
  BY DEF KR!Row
<1>2. new = [f \in {"status", "retry", "due", "born"} |->
                IF changed[f] # read[f] THEN changed[f] ELSE row[f]]
  BY <1>1 DEF M!Flushed
<1>3. new = [status |-> new.status, retry |-> new.retry, due |-> new.due, born |-> new.born]
  BY <1>2
<1>4. /\ new.status \in {changed.status, row.status}
      /\ new.retry \in {changed.retry, row.retry}
      /\ new.due \in {changed.due, row.due}
      /\ new.born \in {changed.born, row.born}
  BY <1>2
<1>. QED
  BY <1>3, <1>4 DEF KR!Row

\* ... and exactly what was changed if the row is as it was read.
LEMMA FlushedUnchanged ==
    ASSUME NEW row \in KR!Row, NEW changed \in KR!Row
    PROVE  M!Flushed(row, row, changed) = changed
<1>1. DOMAIN row = {"status", "retry", "due", "born"} /\ DOMAIN changed = DOMAIN row
  BY DEF KR!Row
<1>2. M!Flushed(row, row, changed) = [f \in DOMAIN changed |-> changed[f]]
  BY <1>1 DEF M!Flushed
<1>. QED
  BY <1>2 DEF KR!Row

-----------------------------------------------------------------------------
\* What the marks write: a row again, and if nothing was written since it was
\* read, the same in every library.
LEMMA ProcessedRows ==
    ASSUME site \in Sites, NEW row \in KR!Row, NEW read \in KR!Row
    PROVE  /\ ReceivedProcessed(row, read) \in KR!Row
           /\ read = row \/ site[1] # "mikro" =>
                 ReceivedProcessed(row, read) = KR!ProcessedRow(row)
<1>1. site[1] \in Libraries
  BY StoragesAssumption
<1>2. \A r \in KR!Row : KR!ProcessedRow(r) \in KR!Row
  BY DEF KR!ProcessedRow, KR!Row, KR!Status, KR!Time, KR!NoTime
<1>3. CASE site[1] # "mikro"
  <2>1. /\ T!Processed(row) = KR!ProcessedRow(row)
        /\ P!Processed(row) = KR!ProcessedRow(row)
        /\ I!Processed(row) = KR!ProcessedRow(row)
    BY DEF T!Processed, P!Processed, I!Processed, KR!ProcessedRow, T!NoTime, P!NoTime, I!NoTime,
           KR!NoTime
  <2>2. ReceivedProcessed(row, read) = KR!ProcessedRow(row)
    BY <1>1, <1>3, <2>1 DEF Libraries, ReceivedProcessed, ByLibrary
  <2>. QED
    BY <1>2, <2>2
<1>4. CASE site[1] = "mikro"
  <2>1. M!Processed(row, read) = M!Flushed(row, read, KR!ProcessedRow(read))
    BY DEF M!Processed, KR!ProcessedRow, M!NoTime, KR!NoTime
  <2>2. KR!ProcessedRow(read) \in KR!Row
    BY <1>2
  <2>3. M!Processed(row, read) \in KR!Row
    BY <2>1, <2>2, FlushedRow
  <2>4. read = row => M!Processed(row, read) = KR!ProcessedRow(row)
    BY <2>1, <2>2, FlushedUnchanged
  <2>5. ReceivedProcessed(row, read) = M!Processed(row, read)
    BY <1>4 DEF ReceivedProcessed, ByLibrary
  <2>. QED
    BY <1>4, <2>3, <2>4, <2>5
<1>. QED
  BY <1>3, <1>4

\* A failed inbox row is a row.
LEMMA FailedRowType ==
    ASSUME NEW row \in KR!Row, NEW count \in Nat, NEW due \in Nat
    PROVE  KR!FailedRow(row, count, due) \in KR!Row
<1>1. PICK s \in {"dead_letter", "failed"}, at \in {KR!NoTime, due} :
         KR!FailedRow(row, count, due) = [row EXCEPT !.retry = count, !.status = s, !.due = at]
  <2>1. CASE count >= MaxInboxRetries
    BY <2>1 DEF KR!FailedRow
  <2>2. CASE ~(count >= MaxInboxRetries)
    BY <2>2 DEF KR!FailedRow
  <2>. QED
    BY <2>1, <2>2
<1>2. s \in KR!Status /\ at \in KR!Time
  BY DEF KR!Status, KR!Time
<1>. QED
  BY <1>1, <1>2 DEF KR!Row

\* The inbox row a failure leaves.
LEMMA ReceivedFailedRows ==
    ASSUME site \in Sites, NEW row \in KR!Row, NEW read \in KR!Row, NEW due \in Nat
    PROVE  /\ ReceivedFailed(row, read, due) \in KR!Row
           /\ read = row \/ site[1] = "memory" =>
                 ReceivedFailed(row, read, due) = KR!FailedRow(row, row.retry + 1, due)
<1>1. site[1] \in Libraries
  BY StoragesAssumption
<1>2. \A r \in KR!Row : r.retry + 1 \in Nat
  BY DEF KR!Row
<1>3. \A r \in KR!Row : KR!FailedRow(row, r.retry + 1, due) \in KR!Row
  BY <1>2, FailedRowType
<1>4. CASE site[1] \in {"knex", "typeorm", "prisma"}
  <2>1. /\ T!ReceivedFailed(row, read, due) = KR!FailedRow(row, read.retry + 1, due)
        /\ P!ReceivedFailed(row, read, due) = KR!FailedRow(row, read.retry + 1, due)
    BY DEF T!ReceivedFailed, P!ReceivedFailed, KR!FailedRow, T!NoTime, P!NoTime, KR!NoTime
  <2>2. ReceivedFailed(row, read, due) = KR!FailedRow(row, read.retry + 1, due)
    BY <1>4, <2>1 DEF ReceivedFailed, ByLibrary
  <2>. QED
    BY <1>3, <1>4, <2>2
<1>5. CASE site[1] = "memory"
  <2>1. I!ReceivedFailed(row, due) = KR!FailedRow(row, row.retry + 1, due)
    BY DEF I!ReceivedFailed, KR!FailedRow, I!NoTime, KR!NoTime, KR!Row
  <2>2. ReceivedFailed(row, read, due) = I!ReceivedFailed(row, due)
    BY <1>5 DEF ReceivedFailed, ByLibrary
  <2>. QED
    BY <1>3, <1>5, <2>1, <2>2
<1>6. CASE site[1] = "mikro"
  <2>1. M!ReceivedFailed(row, read, due) =
            M!Flushed(row, read, KR!FailedRow(read, read.retry + 1, due))
    BY DEF M!ReceivedFailed, KR!FailedRow, M!NoTime, KR!NoTime
  <2>2. KR!FailedRow(read, read.retry + 1, due) \in KR!Row
    BY <1>2, FailedRowType
  <2>3. M!ReceivedFailed(row, read, due) \in KR!Row
    BY <2>1, <2>2, FlushedRow
  <2>4. read = row => M!ReceivedFailed(row, read, due) = KR!FailedRow(row, row.retry + 1, due)
    BY <2>1, <2>2, FlushedUnchanged
  <2>5. ReceivedFailed(row, read, due) = M!ReceivedFailed(row, read, due)
    BY <1>6 DEF ReceivedFailed, ByLibrary
  <2>. QED
    BY <1>6, <2>3, <2>4, <2>5
<1>. QED
  BY <1>1, <1>4, <1>5, <1>6 DEF Libraries

\* The inbox row a requeue leaves.
LEMMA ReceivedRequeuedRows ==
    ASSUME site \in Sites, NEW row \in KR!Row, NEW t \in Nat
    PROVE  /\ ReceivedRequeued(row, t) = KR!RequeuedRow(row, t)
           /\ KR!RequeuedRow(row, t) \in KR!Row
<1>1. site[1] \in Libraries
  BY StoragesAssumption
<1>2. ReceivedRequeued(row, t) = KR!RequeuedRow(row, t)
  BY <1>1 DEF Libraries, ReceivedRequeued, ByLibrary, KR!RequeuedRow, T!ReceivedRequeued,
              P!ReceivedRequeued, M!ReceivedRequeued, I!ReceivedRequeued
<1>3. "failed" \in KR!Status /\ t \in KR!Time /\ 0 \in Nat
  BY DEF KR!Status, KR!Time
<1>. QED
  BY <1>2, <1>3 DEF KR!RequeuedRow, KR!Row


-----------------------------------------------------------------------------
PC == {"idle", "insert", "search", "commit", "handle", "processed", "failed", "done", "rejected"}

\* Before the answer, and after it.
Undecided == {"idle", "insert", "search", "commit"}
Decided   == {"handle", "processed", "failed", "done"}

Save == [pc : PC, answer : [inserted : BOOLEAN, id : Deliveries \cup {NoOne}], read : KR!Row,
         lost : BOOLEAN]

InboxType ==
    /\ site \in Sites /\ clock \in Nat
    /\ inbox \in [Keys -> [id : Deliveries \cup {NoOne}, row : KR!Row]]
    /\ saves \in [Deliveries -> Save]

\* A delivery without an answer is not the one whose row is there, unless the
\* answer of its insert was lost; one that has its answer sees the row that stays.
SaveInv(d) ==
    /\ saves[d].pc \in Decided => Stored(d)
    /\ saves[d].pc \in Undecided => Entry(d).id # d \/ saves[d].lost
    /\ saves[d].pc \in Undecided \cup {"rejected"} => saves[d].answer = NoAnswer
    /\ saves[d].lost => /\ Entry(d).id = d
                        /\ SearchesAfterErrors \/ saves[d].pc = "rejected"
    /\ saves[d].pc = "commit" =>
          InsertsInTransaction /\ txn[KeyOf[d]] = d /\ ~Stored(d)
    /\ saves[d].answer.id # NoOne =>
          /\ saves[d].answer.id = Entry(d).id
          /\ saves[d].answer.inserted <=> Entry(d).id = d /\ ~saves[d].lost
          /\ saves[d].lost => SearchesAfterErrors

InboxInv ==
    /\ InboxType
    /\ txn = [k \in Keys |-> txn[k]]
    /\ \A d \in Deliveries : SaveInv(d)

\* The invariant contains the property.
LEMMA InboxInvGivesOnce == InboxInv => InsertedOnce
BY DEF InboxInv, SaveInv, InsertedOnce

\* The absent row is a row.
LEMMA EmptyRow == KR!AbsentRow \in KR!Row
BY DEF KR!AbsentRow, KR!Row, KR!Status, KR!Time, KR!NoTime

\* The initial states satisfy InboxInv.
LEMMA InboxInit == Init => InboxInv
<1>. SUFFICES ASSUME Init PROVE InboxInv
  OBVIOUS
<1>1. InboxType
  BY EmptyRow DEF Init, InboxType, NoEntry, NewSave, NoAnswer, Save, PC
<1>2. txn = [k \in Keys |-> txn[k]]
  BY DEF Init
<1>3. ASSUME NEW d \in Deliveries PROVE SaveInv(d)
  <2>1. /\ saves[d].pc = "idle" /\ saves[d].answer = NoAnswer /\ ~saves[d].lost
        /\ Entry(d).id = NoOne /\ NoOne # d
    BY StoragesAssumption DEF Init, NewSave, NoEntry, Entry
  <2>. QED
    BY <2>1 DEF SaveInv, Decided, NoAnswer
<1>. QED
  BY <1>1, <1>2, <1>3 DEF InboxInv

\* A step of d that neither adds nor removes an entry keeps what the others
\* have been told.
LEMMA OthersKept ==
    ASSUME InboxInv, NEW d \in Deliveries,
           UNCHANGED site, \A k \in Keys : inbox'[k].id = inbox[k].id,
           \A e \in Deliveries : e # d => saves'[e] = saves[e],
           \A k \in Keys : txn'[k] = txn[k] \/ txn[k] \in {d, NoOne}
    PROVE  \A e \in Deliveries : e # d => SaveInv(e)'
<1>. SUFFICES ASSUME NEW e \in Deliveries, e # d PROVE SaveInv(e)'
  OBVIOUS
<1>1. SaveInv(e) /\ saves'[e] = saves[e] /\ KeyOf[e] \in Keys
  BY StoragesAssumption DEF InboxInv
<1>2. Entry(e)'.id = Entry(e).id /\ (Stored(e)' <=> Stored(e))
  BY <1>1 DEF Entry, Stored
<1>3. /\ InsertsInTransaction' <=> InsertsInTransaction
      /\ SearchesAfterErrors' <=> SearchesAfterErrors
  BY DEF InsertsInTransaction, P!InsertsInTransaction, SearchesAfterErrors, db
<1>4. saves[e].pc = "commit" => txn'[KeyOf[e]] = e
  BY <1>1, StoragesAssumption DEF SaveInv
<1>. QED
  BY <1>1, <1>2, <1>3, <1>4 DEF SaveInv

\* A delivery's key, and the entry under it.
LEMMA KeyAndEntry ==
    ASSUME InboxType, NEW d \in Deliveries
    PROVE  /\ KeyOf[d] \in Keys /\ Entry(d).row \in KR!Row
           /\ Entry(d).id \in Deliveries \cup {NoOne}
           /\ saves[d].read \in KR!Row /\ saves[d].pc \in PC /\ saves[d].lost \in BOOLEAN
           /\ saves[d].answer \in [inserted : BOOLEAN, id : Deliveries \cup {NoOne}]
BY StoragesAssumption DEF InboxType, Entry, Save

\* The answer that the row was there before, given to one that did not write it
\* or does not know that it did.
LEMMA DuplicateAnswered ==
    ASSUME InboxInv, NEW d \in Deliveries, Stored(d), saves[d].pc \in Undecided,
           UNCHANGED <<site, clock, inbox, txn>>, Answer(d, FALSE, Entry(d).id)
    PROVE  InboxInv'
<1>1. saves' = [saves EXCEPT ![d] =
                  [pc |-> "done", answer |-> [inserted |-> FALSE, id |-> Entry(d).id],
                   read |-> Loaded(inbox'[KeyOf[d]].row), lost |-> saves[d].lost]]
  BY DEF Answer
<1>2. /\ Loaded(inbox'[KeyOf[d]].row) \in KR!Row /\ Entry(d).id \in Deliveries
      /\ saves[d].lost \in BOOLEAN
  BY KeyAndEntry, EmptyRow DEF InboxInv, Loaded, Entry, Stored
<1>3. InboxType'
  BY <1>1, <1>2 DEF InboxInv, InboxType, Save, PC
<1>4. \A e \in Deliveries : e # d => saves'[e] = saves[e]
  BY <1>1 DEF InboxInv, InboxType
<1>5. \A e \in Deliveries : e # d => SaveInv(e)'
  BY <1>4, OthersKept
<1>6. SaveInv(d)'
  <2>1. /\ saves'[d].pc = "done" /\ ~saves'[d].answer.inserted
        /\ saves'[d].answer.id = Entry(d).id /\ saves'[d].lost = saves[d].lost
    BY <1>1 DEF InboxInv, InboxType
  <2>2. /\ Stored(d)' /\ Entry(d)' = Entry(d) /\ SaveInv(d)
        /\ SearchesAfterErrors' <=> SearchesAfterErrors
    BY DEF Entry, Stored, InboxInv, SearchesAfterErrors
  <2>3. /\ Entry(d).id # d \/ saves[d].lost
        /\ saves[d].lost => Entry(d).id = d /\ SearchesAfterErrors
    BY <2>2 DEF SaveInv, Undecided
  <2>. QED
    BY <2>1, <2>2, <2>3 DEF SaveInv, Undecided
<1>. QED
  BY <1>3, <1>5, <1>6 DEF InboxInv

\* A step of d that moves it on and leaves its answer and the entries alone.
LEMMA MovedOn ==
    ASSUME InboxInv, NEW d \in Deliveries, NEW pc \in PC, NEW read \in KR!Row,
           UNCHANGED <<site, clock>>,
           saves' = [saves EXCEPT ![d] = [saves[d] EXCEPT !.pc = pc, !.read = read]],
           inbox' \in [Keys -> [id : Deliveries \cup {NoOne}, row : KR!Row]],
           \A k \in Keys : inbox'[k].id = inbox[k].id,
           txn' = [k \in Keys |-> txn'[k]],
           \A k \in Keys : txn'[k] = txn[k] \/ txn[k] \in {d, NoOne},
           pc \in Decided => Stored(d),
           pc \in Undecided \cup {"rejected"} => saves[d].pc \in Undecided,
           saves[d].pc # "rejected",
           pc = "commit" => InsertsInTransaction /\ txn'[KeyOf[d]] = d /\ ~Stored(d)
    PROVE  InboxInv'
<1>1. saves[d] \in Save
  BY DEF InboxInv, InboxType
<1>2. [saves[d] EXCEPT !.pc = pc, !.read = read] \in Save
  BY <1>1 DEF Save
<1>3. InboxType'
  BY <1>2 DEF InboxInv, InboxType
<1>4. \A e \in Deliveries : e # d => saves'[e] = saves[e]
  BY DEF InboxInv, InboxType
<1>5. \A e \in Deliveries : e # d => SaveInv(e)'
  BY <1>4, OthersKept
<1>6. /\ saves'[d].pc = pc /\ saves'[d].answer = saves[d].answer
      /\ saves'[d].lost = saves[d].lost
  BY <1>1 DEF InboxInv, InboxType, Save
<1>7. Entry(d)'.id = Entry(d).id /\ (Stored(d)' <=> Stored(d)) /\ KeyOf[d] \in Keys
  BY StoragesAssumption DEF Entry, Stored
<1>8. /\ InsertsInTransaction' <=> InsertsInTransaction
      /\ SearchesAfterErrors' <=> SearchesAfterErrors
  BY DEF InsertsInTransaction, P!InsertsInTransaction, SearchesAfterErrors, db
<1>9. SaveInv(d)
  BY DEF InboxInv
<1>10. SaveInv(d)'
  BY <1>6, <1>7, <1>8, <1>9 DEF SaveInv
<1>. QED
  BY <1>3, <1>5, <1>10 DEF InboxInv


\* The row is written; no other delivery had been told of one before.
LEMMA Inserted ==
    ASSUME InboxInv, NEW d \in Deliveries, ~Stored(d), saves[d].pc \in Undecided, Insert(d),
           NEW pc \in {"search", "rejected"}, pc = "search" => SearchesAfterErrors,
           Answer(d, TRUE, d) \/ saves' = [saves EXCEPT ![d].pc = pc, ![d].lost = TRUE],
           \A e \in Deliveries : e # d /\ saves[e].pc = "commit" =>
               KeyOf[e] # KeyOf[d] /\ txn'[KeyOf[e]] = txn[KeyOf[e]],
           txn' = [k \in Keys |-> txn'[k]],
           UNCHANGED <<site, clock>>
    PROVE  InboxInv'
<1>. DEFINE new == [id |-> d, row |-> KR!PendingRow(clock)]
<1>1. inbox' = [inbox EXCEPT ![KeyOf[d]] = new] /\ KeyOf[d] \in Keys /\ clock \in Nat
  BY StoragesAssumption DEF Insert, InboxInv, InboxType
<1>2. KR!PendingRow(clock) \in KR!Row
  <2>1. clock \in KR!Time /\ "pending" \in KR!Status
    BY <1>1 DEF KR!Time, KR!Status
  <2>. QED
    BY <2>1, EmptyRow DEF KR!PendingRow, KR!Row
<1>3. /\ inbox' \in [Keys -> [id : Deliveries \cup {NoOne}, row : KR!Row]]
      /\ inbox'[KeyOf[d]].id = d /\ inbox'[KeyOf[d]].row \in KR!Row
      /\ \A k \in Keys : k # KeyOf[d] => inbox'[k] = inbox[k]
  BY <1>1, <1>2 DEF InboxInv, InboxType
<1>4. /\ saves' \in [Deliveries -> Save]
      /\ \A e \in Deliveries : e # d => saves'[e] = saves[e]
      /\ \/ /\ saves'[d].pc = "handle" /\ saves'[d].lost = saves[d].lost
            /\ saves'[d].answer.inserted = TRUE /\ saves'[d].answer.id = d
         \/ /\ saves'[d].pc = pc /\ saves'[d].answer = saves[d].answer
            /\ saves'[d].lost
  <2>1. CASE Answer(d, TRUE, d)
    <3>1. saves' = [saves EXCEPT ![d] =
                      [pc |-> "handle", answer |-> [inserted |-> TRUE, id |-> d],
                       read |-> Loaded(inbox'[KeyOf[d]].row), lost |-> saves[d].lost]]
      BY <2>1 DEF Answer
    <3>2. Loaded(inbox'[KeyOf[d]].row) \in KR!Row /\ saves[d].lost \in BOOLEAN
      BY <1>3, EmptyRow, KeyAndEntry DEF Loaded, InboxInv
    <3>. QED
      BY <3>1, <3>2 DEF InboxInv, InboxType, Save, PC
  <2>2. CASE saves' = [saves EXCEPT ![d].pc = pc, ![d].lost = TRUE]
    <3>1. saves' = [saves EXCEPT ![d] = [saves[d] EXCEPT !.pc = pc, !.lost = TRUE]]
      BY <2>2
    <3>2. saves \in [Deliveries -> Save] /\ saves[d] \in Save /\ pc \in PC
      BY DEF InboxInv, InboxType, PC
    <3>3. /\ [saves[d] EXCEPT !.pc = pc, !.lost = TRUE] \in Save
          /\ [saves[d] EXCEPT !.pc = pc, !.lost = TRUE].pc = pc
          /\ [saves[d] EXCEPT !.pc = pc, !.lost = TRUE].lost = TRUE
          /\ [saves[d] EXCEPT !.pc = pc, !.lost = TRUE].answer = saves[d].answer
      BY <3>2 DEF Save
    <3>4. saves'[d] = [saves[d] EXCEPT !.pc = pc, !.lost = TRUE]
      BY <3>1, <3>2
    <3>. QED
      BY <3>1, <3>2, <3>3, <3>4
  <2>. QED
    BY <2>1, <2>2
<1>5. ASSUME NEW e \in Deliveries, e # d PROVE SaveInv(e)'
  <2>1. SaveInv(e) /\ saves'[e] = saves[e] /\ KeyOf[e] \in Keys
    BY <1>4, <1>5, StoragesAssumption DEF InboxInv
  <2>2. CASE KeyOf[e] = KeyOf[d]
    <3>1. /\ Entry(e).id = NoOne /\ ~Stored(e) /\ saves[e].pc # "commit"
          /\ NoOne # e
      BY <1>5, <2>2, StoragesAssumption DEF Stored, Entry
    <3>2. Entry(e)'.id = d /\ d # e /\ ~saves[e].lost /\ saves[e].pc \notin Decided
      BY <1>3, <1>5, <2>1, <2>2, <3>1 DEF Entry, SaveInv
    <3>3. saves[e].answer.id = NoOne
      BY <2>1, <3>1 DEF SaveInv, Stored, Entry
    <3>. QED
      BY <2>1, <3>1, <3>2, <3>3 DEF SaveInv
  <2>3. CASE KeyOf[e] # KeyOf[d]
    <3>1. Entry(e)' = Entry(e) /\ (Stored(e)' <=> Stored(e))
      BY <1>3, <2>1, <2>3 DEF Entry, Stored
    <3>2. /\ InsertsInTransaction' <=> InsertsInTransaction
          /\ SearchesAfterErrors' <=> SearchesAfterErrors
      BY DEF InsertsInTransaction, P!InsertsInTransaction, SearchesAfterErrors, db
    <3>. QED
      BY <1>5, <2>1, <3>1, <3>2 DEF SaveInv
  <2>. QED
    BY <2>2, <2>3
<1>6. SaveInv(d)'
  <2>1. Entry(d)'.id = d /\ d # NoOne /\ Entry(d).id = NoOne
    BY <1>3, StoragesAssumption DEF Entry, Stored
  <2>2. ~saves[d].lost /\ saves[d].answer = NoAnswer
    BY <2>1 DEF InboxInv, SaveInv
  <2>3. Stored(d)'
    BY <2>1 DEF Stored
  <2>4. SearchesAfterErrors' <=> SearchesAfterErrors
    BY DEF SearchesAfterErrors
  <2>5. CASE saves'[d].pc = "handle"
    BY <1>4, <2>1, <2>2, <2>3, <2>5 DEF SaveInv, Undecided
  <2>6. CASE saves'[d].pc # "handle"
    <3>1. saves'[d].pc = pc /\ saves'[d].answer = NoAnswer /\ saves'[d].lost
      BY <1>4, <2>2, <2>6
    <3>. QED
      BY <2>1, <2>4, <3>1 DEF SaveInv, Decided, NoAnswer
  <2>. QED
    BY <2>5, <2>6
<1>7. InboxType'
  BY <1>3, <1>4 DEF InboxInv, InboxType
<1>. QED
  BY <1>5, <1>6, <1>7 DEF InboxInv

-----------------------------------------------------------------------------
\* The statements of trySaveReceived keep InboxInv.
LEMMA SaveSteps ==
    ASSUME InboxInv, NEW d \in Deliveries, UNCHANGED <<site, clock>>,
           \/ SaveFind(d) \/ SaveInsert(d) \/ SaveInsertInTransaction(d)
           \/ SaveCommit(d) \/ SaveSearch(d) \/ SaveRejects(d)
    PROVE  InboxInv'
<1>1. /\ SaveInv(d) /\ KeyOf[d] \in Keys /\ saves[d].read \in KR!Row
      /\ saves[d] \in Save
      /\ inbox \in [Keys -> [id : Deliveries \cup {NoOne}, row : KR!Row]]
      /\ txn = [k \in Keys |-> txn[k]]
  BY KeyAndEntry DEF InboxInv, InboxType
<1>2. ASSUME NEW pc \in PC, saves' = [saves EXCEPT ![d].pc = pc]
      PROVE  saves' = [saves EXCEPT ![d] = [saves[d] EXCEPT !.pc = pc, !.read = saves[d].read]]
  BY <1>1, <1>2 DEF Save
<1>3. CASE SaveFind(d)
  <2>1. saves[d].pc = "idle" /\ UNCHANGED <<inbox, txn>>
    BY <1>3 DEF SaveFind
  <2>2. CASE Stored(d)
    BY <1>3, <2>1, <2>2, DuplicateAnswered DEF SaveFind, Undecided
  <2>3. CASE ~Stored(d)
    <3>1. saves' = [saves EXCEPT ![d].pc = "insert"] /\ "insert" \in PC
      BY <1>3, <2>3 DEF SaveFind, PC
    <3>2. saves' = [saves EXCEPT ![d] =
                      [saves[d] EXCEPT !.pc = "insert", !.read = saves[d].read]]
      BY <1>2, <3>1
    <3>3. "insert" \notin Decided /\ saves[d].pc \in Undecided /\ saves[d].pc # "rejected"
      BY <2>1 DEF Undecided, Decided
    <3>4. /\ inbox' \in [Keys -> [id : Deliveries \cup {NoOne}, row : KR!Row]]
          /\ \A k \in Keys : inbox'[k].id = inbox[k].id
          /\ txn' = [k \in Keys |-> txn'[k]]
      BY <1>1, <2>1
    <3>. QED
      BY <1>1, <2>1, <3>1, <3>2, <3>3, <3>4, "insert" # "commit", MovedOn
  <2>. QED
    BY <2>2, <2>3
<1>4. CASE SaveInsert(d)
  <2>1. MayInsert(d) /\ ~InsertsInTransaction /\ UNCHANGED txn
    BY <1>4 DEF SaveInsert
  <2>2. saves[d].pc \in {"idle", "insert"}
    BY <2>1 DEF MayInsert
  <2>3. CASE ~Stored(d)
    <3>1. Insert(d)
      BY <1>4, <2>3 DEF SaveInsert
    <3>2. PICK pc \in {"search", "rejected"} :
             /\ pc = "search" => SearchesAfterErrors
             /\ \/ Answer(d, TRUE, d)
                \/ saves' = [saves EXCEPT ![d].pc = pc, ![d].lost = TRUE]
      <4>. DEFINE after == IF SearchesAfterErrors THEN "search" ELSE "rejected"
      <4>1. \/ Answer(d, TRUE, d)
            \/ saves' = [saves EXCEPT ![d].lost = TRUE, ![d].pc = after]
        BY <1>4, <2>3 DEF SaveInsert
      <4>2. [saves EXCEPT ![d].lost = TRUE, ![d].pc = after]
               = [saves EXCEPT ![d].pc = after, ![d].lost = TRUE]
        BY <1>1 DEF Save
      <4>3. after \in {"search", "rejected"} /\ (after = "search" => SearchesAfterErrors)
        OBVIOUS
      <4>. HIDE DEF after
      <4>. QED
        BY <4>1, <4>2, <4>3
    <3>3. \A e \in Deliveries : saves[e].pc # "commit"
      BY <2>1 DEF InboxInv, SaveInv
    <3>. QED
      BY <1>1, <2>1, <2>2, <2>3, <3>1, <3>2, <3>3, Inserted DEF Undecided
  <2>4. CASE Stored(d)
    <3>1. UNCHANGED inbox
      BY <1>4, <2>4 DEF SaveInsert
    <3>2. CASE InMemory
      <4>1. Answer(d, FALSE, Entry(d).id)
        BY <1>4, <2>4, <3>2 DEF SaveInsert
      <4>. QED
        BY <2>1, <2>2, <2>4, <3>1, <4>1, DuplicateAnswered DEF Undecided
    <3>3. CASE ~InMemory
      <4>1. saves' = [saves EXCEPT ![d].pc = "search"] /\ "search" \in PC
        BY <1>4, <2>4, <3>3 DEF SaveInsert, PC
      <4>2. saves' = [saves EXCEPT ![d] =
                        [saves[d] EXCEPT !.pc = "search", !.read = saves[d].read]]
        BY <1>2, <4>1
      <4>3. /\ saves[d].pc \in Undecided /\ saves[d].pc # "rejected"
            /\ "search" \notin Decided /\ "search" # "commit"
        BY <2>2 DEF Undecided, Decided
      <4>. QED
        BY <1>1, <2>1, <3>1, <4>1, <4>2, <4>3, MovedOn
    <3>. QED
      BY <3>2, <3>3
  <2>. QED
    BY <2>3, <2>4
<1>5. CASE SaveInsertInTransaction(d)
  <2>1. /\ MayInsert(d) /\ InsertsInTransaction /\ txn[KeyOf[d]] = NoOne
        /\ UNCHANGED inbox
    BY <1>5 DEF SaveInsertInTransaction
  <2>2. saves[d].pc \in Undecided
    BY <2>1 DEF MayInsert, Undecided
  <2>3. PICK pc \in {"search", "commit"} :
          /\ saves' = [saves EXCEPT ![d].pc = pc]
          /\ pc = "search" => Stored(d) /\ txn' = txn
          /\ pc = "commit" => ~Stored(d) /\ txn' = [txn EXCEPT ![KeyOf[d]] = d]
    BY <1>5 DEF SaveInsertInTransaction
  <2>4. pc \in PC /\ pc \notin Decided /\ saves[d].pc # "rejected"
    BY <2>2 DEF PC, Decided, Undecided
  <2>5. saves' = [saves EXCEPT ![d] = [saves[d] EXCEPT !.pc = pc, !.read = saves[d].read]]
    BY <1>2, <2>3, <2>4
  <2>6. /\ txn' = [k \in Keys |-> txn'[k]]
        /\ \A k \in Keys : txn'[k] = txn[k] \/ txn[k] \in {d, NoOne}
        /\ pc = "commit" => txn'[KeyOf[d]] = d
    BY <1>1, <2>1, <2>3
  <2>. QED
    BY <1>1, <2>1, <2>2, <2>3, <2>4, <2>5, <2>6, MovedOn
<1>6. CASE SaveCommit(d)
  <2>1. /\ saves[d].pc = "commit" /\ Insert(d)
        /\ \/ Answer(d, TRUE, d)
           \/ saves' = [saves EXCEPT ![d].pc = "rejected", ![d].lost = TRUE]
        /\ txn' = [txn EXCEPT ![KeyOf[d]] = NoOne]
    BY <1>6 DEF SaveCommit
  <2>2. txn[KeyOf[d]] = d /\ ~Stored(d)
    BY <1>1, <2>1 DEF SaveInv
  <2>3. ASSUME NEW e \in Deliveries, e # d, saves[e].pc = "commit"
        PROVE  KeyOf[e] # KeyOf[d] /\ txn'[KeyOf[e]] = txn[KeyOf[e]]
    <3>1. SaveInv(e) /\ KeyOf[e] \in Keys
      BY StoragesAssumption DEF InboxInv
    <3>. QED
      BY <1>1, <2>1, <2>2, <2>3, <3>1 DEF SaveInv
  <2>. QED
    BY <1>1, <2>1, <2>2, <2>3, Inserted DEF Undecided
<1>7. CASE SaveSearch(d)
  <2>1. saves[d].pc = "search" /\ UNCHANGED <<inbox, txn>>
    BY <1>7 DEF SaveSearch
  <2>2. CASE Stored(d)
    BY <1>7, <2>1, <2>2, DuplicateAnswered DEF SaveSearch, Undecided
  <2>3. CASE ~Stored(d)
    <3>1. saves' = [saves EXCEPT ![d].pc = "rejected"] /\ "rejected" \in PC
      BY <1>7, <2>3 DEF SaveSearch, PC
    <3>2. saves' = [saves EXCEPT ![d] =
                      [saves[d] EXCEPT !.pc = "rejected", !.read = saves[d].read]]
      BY <1>2, <3>1
    <3>3. /\ "rejected" \notin Decided /\ "rejected" # "commit"
          /\ saves[d].pc \in Undecided /\ saves[d].pc # "rejected"
      BY <2>1 DEF Undecided, Decided
    <3>4. /\ inbox' \in [Keys -> [id : Deliveries \cup {NoOne}, row : KR!Row]]
          /\ \A k \in Keys : inbox'[k].id = inbox[k].id
          /\ txn' = [k \in Keys |-> txn'[k]]
      BY <1>1, <2>1
    <3>. QED
      BY <1>1, <2>1, <3>1, <3>2, <3>3, <3>4, MovedOn
  <2>. QED
    BY <2>2, <2>3
<1>8. CASE SaveRejects(d)
  <2>1. PICK pc \in {"search", "rejected"} : saves' = [saves EXCEPT ![d].pc = pc]
    BY <1>8 DEF SaveRejects
  <2>5. /\ UNCHANGED inbox
        /\ txn' = [txn EXCEPT ![KeyOf[d]] = IF txn[KeyOf[d]] = d THEN NoOne ELSE txn[KeyOf[d]]]
        /\ saves[d].pc \in Undecided /\ saves[d].pc # "rejected"
    BY <1>8 DEF SaveRejects, Undecided
  <2>2. pc \in PC /\ pc \notin Decided /\ pc # "commit"
    BY DEF PC, Decided
  <2>3. saves' = [saves EXCEPT ![d] = [saves[d] EXCEPT !.pc = pc, !.read = saves[d].read]]
    BY <1>2, <2>1, <2>2
  <2>4. /\ txn' = [k \in Keys |-> txn'[k]]
        /\ \A k \in Keys : txn'[k] = txn[k] \/ txn[k] \in {d, NoOne}
    BY <1>1, <2>5
  <2>. QED
    BY <1>1, <2>1, <2>2, <2>3, <2>4, <2>5, MovedOn
<1>. QED
  BY <1>3, <1>4, <1>5, <1>6, <1>7, <1>8


\* The reads and marks of a received row keep InboxInv.
LEMMA MarkSteps ==
    ASSUME InboxInv, NEW d \in Deliveries, UNCHANGED <<site, clock>>,
           \/ ReadForMark(d) \/ (\E cutoff \in {K!NoTime, clock} : getRetryDue(d, cutoff))
           \/ markProcessed(d) \/ markReceivedFailed(d, clock + 1)
    PROVE  InboxInv'
<1>1. /\ SaveInv(d) /\ KeyOf[d] \in Keys /\ saves[d].read \in KR!Row /\ Entry(d).row \in KR!Row
      /\ saves[d] \in Save
      /\ inbox \in [Keys -> [id : Deliveries \cup {NoOne}, row : KR!Row]]
      /\ txn = [k \in Keys |-> txn[k]]
      /\ site \in Sites /\ clock + 1 \in Nat
  BY KeyAndEntry DEF InboxInv, InboxType
<1>2. UNCHANGED txn
  BY DEF ReadForMark, getRetryDue, markProcessed, markReceivedFailed, Mark
<1>3. /\ txn' = [k \in Keys |-> txn'[k]]
      /\ \A k \in Keys : txn'[k] = txn[k] \/ txn[k] \in {d, NoOne}
  BY <1>1, <1>2
<1>4. CASE ReadForMark(d)
  <2>1. PICK read \in Readable(d), pc \in {"processed", "failed"} :
          saves' = [saves EXCEPT ![d].pc = pc, ![d].read = read]
    BY <1>4 DEF ReadForMark
  <2>2. saves[d].pc = "handle" /\ UNCHANGED inbox
    BY <1>4 DEF ReadForMark
  <2>3. read \in KR!Row
    BY <1>1 DEF Readable
  <2>4. saves' = [saves EXCEPT ![d] = [saves[d] EXCEPT !.pc = pc, !.read = read]]
    BY <2>1
  <2>5. Stored(d) /\ pc \in PC /\ pc \notin Undecided \cup {"rejected"}
    BY <1>1, <2>2 DEF SaveInv, Decided, PC, Undecided
  <2>6. pc # "commit" /\ saves[d].pc # "rejected"
    BY <2>2, <2>5 DEF Undecided
  <2>. QED
    BY <1>1, <1>3, <2>2, <2>3, <2>4, <2>5, <2>6, MovedOn
<1>5. ASSUME NEW cutoff \in {K!NoTime, clock}, getRetryDue(d, cutoff)
      PROVE  InboxInv'
  <2>1. /\ Stored(d) /\ UNCHANGED inbox /\ saves[d].pc = "done"
        /\ saves' = [saves EXCEPT ![d].pc = "handle", ![d].read = Loaded(Entry(d).row)]
    BY <1>5 DEF getRetryDue
  <2>2. Loaded(Entry(d).row) \in KR!Row
    BY <1>1, EmptyRow DEF Loaded
  <2>3. saves' = [saves EXCEPT ![d] =
                    [saves[d] EXCEPT !.pc = "handle", !.read = Loaded(Entry(d).row)]]
    BY <2>1
  <2>4. /\ "handle" \in PC /\ "handle" \notin Undecided \cup {"rejected"} /\ "handle" # "commit"
        /\ saves[d].pc # "rejected" /\ \A k \in Keys : inbox'[k].id = inbox[k].id
    BY <2>1 DEF PC, Undecided
  <2>. QED
    BY <1>1, <1>3, <2>1, <2>2, <2>3, <2>4, MovedOn
<1>6. ASSUME NEW row \in KR!Row, Mark(d, row), saves[d].pc \in Decided
      PROVE  InboxInv'
  <2>1. /\ inbox' = [inbox EXCEPT ![KeyOf[d]].row = row]
        /\ saves' = [saves EXCEPT ![d].pc = "done", ![d].read = Loaded(row)]
    BY <1>6 DEF Mark
  <2>2. /\ inbox' \in [Keys -> [id : Deliveries \cup {NoOne}, row : KR!Row]]
        /\ \A k \in Keys : inbox'[k].id = inbox[k].id
    BY <1>1, <2>1
  <2>3. Loaded(row) \in KR!Row
    BY EmptyRow DEF Loaded
  <2>4. saves' = [saves EXCEPT ![d] = [saves[d] EXCEPT !.pc = "done", !.read = Loaded(row)]]
    BY <2>1
  <2>5. /\ Stored(d) /\ "done" \in PC /\ "done" \notin Undecided /\ "done" # "commit"
        /\ saves[d].pc # "rejected"
    BY <1>1, <1>6 DEF SaveInv, PC, Undecided, Decided
  <2>. QED
    BY <1>3, <2>2, <2>3, <2>4, <2>5, MovedOn
<1>7. CASE markProcessed(d)
  <2>1. ReceivedProcessed(Entry(d).row, saves[d].read) \in KR!Row
    BY <1>1, ProcessedRows
  <2>2. /\ Mark(d, ReceivedProcessed(Entry(d).row, saves[d].read))
        /\ saves[d].pc \in Decided
    BY <1>7 DEF markProcessed, Decided
  <2>. QED
    BY <1>6, <2>1, <2>2
<1>8. CASE markReceivedFailed(d, clock + 1)
  <2>1. ReceivedFailed(Entry(d).row, saves[d].read, clock + 1) \in KR!Row
    BY <1>1, ReceivedFailedRows
  <2>2. /\ Mark(d, ReceivedFailed(Entry(d).row, saves[d].read, clock + 1))
        /\ saves[d].pc \in Decided
    BY <1>8 DEF markReceivedFailed, Decided
  <2>. QED
    BY <1>6, <2>1, <2>2
<1>. QED
  BY <1>4, <1>5, <1>7, <1>8

\* A requeue keeps InboxInv.
LEMMA RequeueStep ==
    ASSUME InboxInv, NEW k \in Keys, NEW ok \in BOOLEAN, UNCHANGED <<site, clock>>,
           requeueReceived(k, ok)
    PROVE  InboxInv'
<1>. DEFINE row == IF ok THEN ReceivedRequeued(inbox[k].row, clock) ELSE inbox[k].row
<1>1. inbox' = [inbox EXCEPT ![k].row = row] /\ UNCHANGED <<saves, txn>>
  BY DEF requeueReceived
<1>2. row \in KR!Row
  BY ReceivedRequeuedRows DEF InboxInv, InboxType
<1>. HIDE DEF row
<1>3. /\ inbox' \in [Keys -> [id : Deliveries \cup {NoOne}, row : KR!Row]]
      /\ \A j \in Keys : inbox'[j].id = inbox[j].id
  BY <1>1, <1>2 DEF InboxInv, InboxType
<1>4. /\ InsertsInTransaction' <=> InsertsInTransaction
      /\ SearchesAfterErrors' <=> SearchesAfterErrors
  BY DEF InsertsInTransaction, P!InsertsInTransaction, SearchesAfterErrors, db
<1>5. ASSUME NEW d \in Deliveries PROVE SaveInv(d)'
  <2>1. SaveInv(d) /\ KeyOf[d] \in Keys
    BY StoragesAssumption DEF InboxInv
  <2>2. Entry(d)'.id = Entry(d).id /\ (Stored(d)' <=> Stored(d))
    BY <1>3, <2>1 DEF Entry, Stored
  <2>. QED
    BY <1>1, <1>4, <2>1, <2>2 DEF SaveInv
<1>. QED
  BY <1>1, <1>3, <1>5 DEF InboxInv, InboxType

\* Every step keeps InboxInv.
LEMMA InboxNext == InboxInv /\ [Next]_vars => InboxInv'
<1>. SUFFICES ASSUME InboxInv, [Next]_vars PROVE InboxInv'
  OBVIOUS
<1>1. UNCHANGED site
  BY DEF Next, vars
<1>2. CASE InboxStep
  <2>. UNCHANGED <<site, clock>>
    BY <1>1, <1>2 DEF InboxStep
  <2>1. ASSUME NEW k \in Keys, NEW ok \in BOOLEAN, requeueReceived(k, ok) PROVE InboxInv'
    BY <2>1, RequeueStep
  <2>2. ASSUME NEW d \in Deliveries,
               \/ SaveFind(d) \/ SaveInsert(d) \/ SaveInsertInTransaction(d)
               \/ SaveCommit(d) \/ SaveSearch(d) \/ SaveRejects(d)
        PROVE  InboxInv'
    BY <2>2, SaveSteps
  <2>3. ASSUME NEW d \in Deliveries,
               \/ ReadForMark(d) \/ (\E cutoff \in {K!NoTime, clock} : getRetryDue(d, cutoff))
               \/ markProcessed(d) \/ markReceivedFailed(d, clock + 1)
        PROVE  InboxInv'
    BY <2>3, MarkSteps
  <2>. QED
    BY <1>2, <2>1, <2>2, <2>3 DEF InboxStep
<1>3. CASE Tick \/ OutboxStep \/ UNCHANGED vars
  <2>1. UNCHANGED <<inbox, txn, saves>> /\ clock' \in Nat
    BY <1>3 DEF Tick, OutboxStep, inVars, vars, InboxInv, InboxType
  <2>2. /\ InsertsInTransaction' <=> InsertsInTransaction
        /\ SearchesAfterErrors' <=> SearchesAfterErrors
    BY <1>1 DEF InsertsInTransaction, P!InsertsInTransaction, SearchesAfterErrors, db
  <2>. QED
    BY <1>1, <2>1, <2>2 DEF InboxInv, InboxType, SaveInv, Entry, Stored
<1>. QED
  BY <1>2, <1>3 DEF Next

\* However the deliveries of a message interleave and whichever are rolled back,
\* of those that are answered the one whose row is there is told that it inserted
\* it, and no other is: trySaveReceived of every library, except that MikroORM's,
\* when its flush wrote the row and the answer was lost, tells of a duplicate.
THEOREM InsertedByOne == Spec => []InsertedOnce
<1>1. Spec => []InboxInv
  BY InboxInit, InboxNext, PTL DEF Spec
<1>. QED
  BY <1>1, InboxInvGivesOnce, PTL

------------------------------------------------------------------------------
(* The contract                                                              *)

-----------------------------------------------------------------------------
\* The inbox.

\* A row is there with the id of its event, and knows when it was received.
EntryInv(k) ==
    /\ inbox[k].id = NoOne <=> inbox[k].row.status = "absent"
    /\ inbox[k].id # NoOne => inbox[k].row.born \in Nat

EntriesInv == \A k \in Keys : EntryInv(k)

\* What MikroORM flushes keeps created_at and empties no status.
LEMMA FlushedFields ==
    ASSUME NEW row \in KR!Row, NEW read \in KR!Row, NEW changed \in KR!Row,
           row.status # "absent", changed.status # "absent", changed.born = read.born
    PROVE  /\ M!Flushed(row, read, changed).status # "absent"
           /\ M!Flushed(row, read, changed).born = row.born
<1>1. DOMAIN row = {"status", "retry", "due", "born"}
  BY DEF KR!Row
<1>2. M!Flushed(row, read, changed) =
         [f \in {"status", "retry", "due", "born"} |->
             IF changed[f] # read[f] THEN changed[f] ELSE row[f]]
  BY <1>1 DEF M!Flushed
<1>. QED
  BY <1>2

\* What the marks leave of created_at and of the status.
LEMMA MarkedFields ==
    ASSUME site \in Sites, NEW row \in KR!Row, NEW read \in KR!Row, NEW due \in Nat,
           row.status # "absent"
    PROVE  /\ ReceivedProcessed(row, read).status # "absent"
           /\ ReceivedProcessed(row, read).born = row.born
           /\ ReceivedFailed(row, read, due).status # "absent"
           /\ ReceivedFailed(row, read, due).born = row.born
<1>1. site[1] \in Libraries
  BY StoragesAssumption
<1>2. \A r \in KR!Row : /\ KR!ProcessedRow(r) \in KR!Row
                        /\ KR!ProcessedRow(r).status = "processed"
                        /\ KR!ProcessedRow(r).born = r.born
  BY DEF KR!ProcessedRow, KR!Row, KR!Status, KR!Time, KR!NoTime
<1>3. ASSUME NEW r \in KR!Row, NEW count \in Nat
      PROVE  /\ KR!FailedRow(r, count, due) \in KR!Row
             /\ KR!FailedRow(r, count, due).status \in {"failed", "dead_letter"}
             /\ KR!FailedRow(r, count, due).born = r.born
  <2>1. KR!FailedRow(r, count, due) \in KR!Row
    BY FailedRowType
  <2>2. CASE count >= MaxInboxRetries
    BY <2>1, <2>2 DEF KR!FailedRow, KR!Row
  <2>3. CASE ~(count >= MaxInboxRetries)
    BY <2>1, <2>3 DEF KR!FailedRow, KR!Row
  <2>. QED
    BY <2>1, <2>2, <2>3
<1>4. row.retry + 1 \in Nat /\ read.retry + 1 \in Nat
  BY DEF KR!Row
<1>5. CASE site[1] # "mikro"
  <2>1. ReceivedProcessed(row, read) = KR!ProcessedRow(row)
    BY <1>5, ProcessedRows
  <2>2. \E count \in {row.retry + 1, read.retry + 1} :
           ReceivedFailed(row, read, due) = KR!FailedRow(row, count, due)
    <3>1. CASE site[1] = "memory"
      BY <3>1, ReceivedFailedRows
    <3>2. CASE site[1] # "memory"
      <4>1. /\ T!ReceivedFailed(row, read, due) = KR!FailedRow(row, read.retry + 1, due)
            /\ P!ReceivedFailed(row, read, due) = KR!FailedRow(row, read.retry + 1, due)
        BY DEF T!ReceivedFailed, P!ReceivedFailed, KR!FailedRow, T!NoTime, P!NoTime, KR!NoTime
      <4>2. ReceivedFailed(row, read, due) = KR!FailedRow(row, read.retry + 1, due)
        BY <1>1, <1>5, <3>2, <4>1 DEF Libraries, ReceivedFailed, ByLibrary
      <4>. QED
        BY <4>2
    <3>. QED
      BY <3>1, <3>2
  <2>3. PICK count \in Nat : ReceivedFailed(row, read, due) = KR!FailedRow(row, count, due)
    BY <1>4, <2>2
  <2>4. /\ ReceivedProcessed(row, read).status = "processed"
        /\ ReceivedProcessed(row, read).born = row.born
    BY <1>2, <2>1
  <2>5. /\ ReceivedFailed(row, read, due).status \in {"failed", "dead_letter"}
        /\ ReceivedFailed(row, read, due).born = row.born
    BY <1>3, <2>3
  <2>. QED
    BY <2>4, <2>5
<1>6. CASE site[1] = "mikro"
  <2>1. /\ ReceivedProcessed(row, read) = M!Flushed(row, read, KR!ProcessedRow(read))
        /\ ReceivedFailed(row, read, due) =
               M!Flushed(row, read, KR!FailedRow(read, read.retry + 1, due))
    BY <1>6 DEF ReceivedProcessed, ReceivedFailed, ByLibrary, M!Processed, M!ReceivedFailed,
       KR!ProcessedRow, KR!FailedRow, M!NoTime, KR!NoTime
  <2>2. /\ KR!ProcessedRow(read) \in KR!Row
        /\ KR!ProcessedRow(read).status # "absent" /\ KR!ProcessedRow(read).born = read.born
    BY <1>2
  <2>3. /\ KR!FailedRow(read, read.retry + 1, due) \in KR!Row
        /\ KR!FailedRow(read, read.retry + 1, due).status # "absent"
        /\ KR!FailedRow(read, read.retry + 1, due).born = read.born
    BY <1>3, <1>4
  <2>. QED
    BY <2>1, <2>2, <2>3, FlushedFields
<1>. QED
  BY <1>5, <1>6

\* A write of one entry's row keeps the others.
LEMMA EntryWritten ==
    ASSUME EntriesInv, InboxInv, NEW k \in Keys, NEW entry,
           inbox' = [inbox EXCEPT ![k] = entry],
           entry.id # NoOne, entry.row.status # "absent", entry.row.born \in Nat
    PROVE  EntriesInv'
BY DEF EntriesInv, EntryInv, InboxInv, InboxType

\* The initial states satisfy EntriesInv.
LEMMA EntriesInit == Init => EntriesInv
BY DEF Init, EntriesInv, EntryInv, NoEntry, KR!AbsentRow

\* Every step keeps EntriesInv.
LEMMA EntriesNext == InboxInv /\ EntriesInv /\ [Next]_vars => EntriesInv'
<1>. SUFFICES ASSUME InboxInv, EntriesInv, [Next]_vars PROVE EntriesInv'
  OBVIOUS
<1>1. ASSUME UNCHANGED inbox PROVE EntriesInv'
  BY <1>1 DEF EntriesInv, EntryInv
<1>2. clock \in Nat /\ clock + 1 \in Nat /\ site \in Sites
  BY DEF InboxInv, InboxType
<1>3. ASSUME NEW d \in Deliveries, Insert(d) PROVE EntriesInv'
  <2>. DEFINE entry == [id |-> d, row |-> KR!PendingRow(clock)]
  <2>1. entry.id # NoOne /\ entry.row.status # "absent" /\ entry.row.born \in Nat
    BY <1>2, StoragesAssumption DEF KR!PendingRow, KR!AbsentRow
  <2>2. inbox' = [inbox EXCEPT ![KeyOf[d]] = entry] /\ KeyOf[d] \in Keys
    BY <1>3, StoragesAssumption DEF Insert
  <2>. HIDE DEF entry
  <2>. QED
    BY <2>1, <2>2, EntryWritten
<1>4. ASSUME NEW k \in Keys, NEW row, inbox[k].id # NoOne,
             inbox' = [inbox EXCEPT ![k].row = row],
             row.status # "absent", row.born = inbox[k].row.born
      PROVE  EntriesInv'
  <2>. DEFINE entry == [inbox[k] EXCEPT !.row = row]
  <2>1. entry.id = inbox[k].id /\ entry.row = row
    BY DEF InboxInv, InboxType
  <2>2. inbox' = [inbox EXCEPT ![k] = entry]
    BY <1>4
  <2>3. entry.row.born \in Nat
    BY <1>4, <2>1 DEF EntriesInv, EntryInv
  <2>. HIDE DEF entry
  <2>. QED
    BY <1>4, <2>1, <2>2, <2>3, EntryWritten
<1>5. ASSUME NEW d \in Deliveries, markProcessed(d) \/ markReceivedFailed(d, clock + 1)
      PROVE  EntriesInv'
  <2>1. /\ saves[d].pc \in Decided
        /\ \/ Mark(d, ReceivedProcessed(Entry(d).row, saves[d].read))
           \/ Mark(d, ReceivedFailed(Entry(d).row, saves[d].read, clock + 1))
    BY <1>5 DEF markProcessed, markReceivedFailed, Decided
  <2>2. Stored(d) /\ KeyOf[d] \in Keys /\ Entry(d).row \in KR!Row /\ saves[d].read \in KR!Row
    BY <2>1, KeyAndEntry DEF InboxInv, SaveInv
  <2>3. Entry(d).row.status # "absent"
    BY <2>2 DEF EntriesInv, EntryInv, Stored, Entry
  <2>4. /\ ReceivedProcessed(Entry(d).row, saves[d].read).status # "absent"
        /\ ReceivedProcessed(Entry(d).row, saves[d].read).born = Entry(d).row.born
        /\ ReceivedFailed(Entry(d).row, saves[d].read, clock + 1).status # "absent"
        /\ ReceivedFailed(Entry(d).row, saves[d].read, clock + 1).born = Entry(d).row.born
    BY <1>2, <2>2, <2>3, MarkedFields
  <2>5. PICK row \in {ReceivedProcessed(Entry(d).row, saves[d].read),
                      ReceivedFailed(Entry(d).row, saves[d].read, clock + 1)} : Mark(d, row)
    BY <2>1
  <2>6. inbox' = [inbox EXCEPT ![KeyOf[d]].row = row]
    BY <2>5 DEF Mark
  <2>7. row.status # "absent" /\ row.born = inbox[KeyOf[d]].row.born
    BY <2>4, <2>5 DEF Entry
  <2>. QED
    BY <1>4, <2>2, <2>6, <2>7 DEF Entry, Stored
<1>6. ASSUME NEW k \in Keys, NEW ok \in BOOLEAN, requeueReceived(k, ok) PROVE EntriesInv'
  <2>. DEFINE row == IF ok THEN ReceivedRequeued(inbox[k].row, clock) ELSE inbox[k].row
  <2>1. inbox[k].id # NoOne /\ inbox' = [inbox EXCEPT ![k].row = row]
    BY <1>6 DEF requeueReceived
  <2>2. inbox[k].row \in KR!Row /\ inbox[k].row.status # "absent"
    BY <2>1 DEF InboxInv, InboxType, EntriesInv, EntryInv
  <2>3. row.status # "absent" /\ row.born = inbox[k].row.born
    <3>1. ReceivedRequeued(inbox[k].row, clock) = KR!RequeuedRow(inbox[k].row, clock)
      BY <1>2, <2>2, ReceivedRequeuedRows
    <3>2. /\ KR!RequeuedRow(inbox[k].row, clock).status = "failed"
          /\ KR!RequeuedRow(inbox[k].row, clock).born = inbox[k].row.born
      BY <2>2 DEF KR!RequeuedRow, KR!Row
    <3>. QED
      BY <2>2, <3>1, <3>2
  <2>. HIDE DEF row
  <2>. QED
    BY <1>4, <2>1, <2>3
<1>7. CASE Tick \/ OutboxStep \/ UNCHANGED vars
  BY <1>1, <1>7 DEF Tick, OutboxStep, inVars, vars
<1>8. CASE InboxStep
  <2>1. ASSUME NEW d \in Deliveries,
               \/ SaveFind(d) \/ SaveInsertInTransaction(d) \/ SaveSearch(d) \/ SaveRejects(d)
               \/ ReadForMark(d) \/ (\E cutoff \in {K!NoTime, clock} : getRetryDue(d, cutoff))
        PROVE  EntriesInv'
    BY <1>1, <2>1 DEF SaveFind, SaveInsertInTransaction, SaveSearch, SaveRejects, ReadForMark,
       getRetryDue
  <2>2. ASSUME NEW d \in Deliveries, SaveInsert(d) \/ SaveCommit(d)
        PROVE  EntriesInv'
    BY <1>1, <1>3, <2>2 DEF SaveInsert, SaveCommit
  <2>. QED
    BY <1>5, <1>6, <1>8, <2>1, <2>2 DEF InboxStep
<1>. QED
  BY <1>7, <1>8 DEF Next

\* What getRetryDue may hand out, in every library.
LEMMA DueRows ==
    ASSUME site \in Sites, NEW row \in KR!Row, NEW t \in Nat, NEW cutoff \in Nat \cup {K!NoTime},
           row.status # "absent" => row.born \in Nat, RetryDue(row, t, cutoff)
    PROVE  \/ row.status = "failed" /\ row.due <= t
           \/ row.status = "pending" /\ cutoff # K!NoTime /\ row.born <= cutoff
<1>1. site[1] \in Libraries
  BY StoragesAssumption
<1>2. CASE site[1] = "knex"
  BY <1>2 DEF RetryDue, ByLibrary, KR!RetryDue, KR!FailedDue, K!NoTime
<1>3. CASE site[1] = "typeorm"
  BY <1>3 DEF RetryDue, ByLibrary, T!RetryDue, T!NotAfter, T!NoTime, K!NoTime
<1>4. CASE site[1] = "prisma"
  BY <1>4 DEF RetryDue, ByLibrary, P!RetryDue, P!NotAfter, P!NoTime, K!NoTime
<1>5. CASE site[1] = "mikro"
  BY <1>5 DEF RetryDue, ByLibrary, M!RetryDue, M!NotAfter, M!NoTime, K!NoTime
<1>6. CASE site[1] = "memory"
  BY <1>6 DEF RetryDue, ByLibrary, I!RetryDue, I!NoTime, K!NoTime
<1>. QED
  BY <1>1, <1>2, <1>3, <1>4, <1>5, <1>6 DEF Libraries

\* A call that writes one entry honours the contract if its row does.
LEMMA InboxCallOn ==
    ASSUME InboxInv, NEW k \in Keys, NEW call,
           \A j \in Keys : j # k => inbox'[j] = inbox[j],
           C!HonoursReceivedContract(call, inbox[k].row, inbox'[k].row)
    PROVE  InboxHonours({k}, call)
BY DEF InboxHonours

\* An answer, once given.
LEMMA Answered ==
    ASSUME NEW d \in Deliveries, NEW inserted \in BOOLEAN, NEW id, id # NoOne,
           saves \in [Deliveries -> Save], Answer(d, inserted, id)
    PROVE  Told(d) = inserted /\ saves'[d].answer # NoAnswer
<1>. DEFINE new == [pc |-> IF inserted THEN "handle" ELSE "done",
                    answer |-> [inserted |-> inserted, id |-> id],
                    read |-> Loaded(inbox'[KeyOf[d]].row), lost |-> saves[d].lost]
<1>1. saves' = [saves EXCEPT ![d] = new]
  BY DEF Answer
<1>2. new.answer = [inserted |-> inserted, id |-> id]
  OBVIOUS
<1>. HIDE DEF new
<1>3. saves'[d].answer = [inserted |-> inserted, id |-> id]
  BY <1>1, <1>2
<1>4. saves'[d].answer.id = id /\ saves'[d].answer.inserted = inserted /\ NoAnswer.id = NoOne
  BY <1>3 DEF NoAnswer
<1>. QED
  BY <1>4 DEF Told

\* The statement that answers a save, or writes its row, tells whether the row
\* was there.
LEMMA SaveTells ==
    ASSUME InboxInv, NEW d \in Deliveries, Saving(d)
    PROVE  (IF Stored(d) THEN UNCHANGED inbox ELSE Insert(d)) /\ Told(d) = ~Stored(d)
<1>1. /\ saves[d].pc \in Undecided => saves[d].answer = NoAnswer
      /\ saves[d].pc = "commit" => ~Stored(d)
      /\ saves \in [Deliveries -> Save] /\ saves[d] \in Save /\ d # NoOne
  BY StoragesAssumption DEF InboxInv, InboxType, SaveInv
<1>2. ASSUME ~Stored(d), Insert(d), saves[d].pc \in Undecided, NEW pc,
             \/ Answer(d, TRUE, d)
             \/ saves' = [saves EXCEPT ![d].pc = pc, ![d].lost = TRUE]
             \/ saves' = [saves EXCEPT ![d].lost = TRUE, ![d].pc = pc]
      PROVE  (IF Stored(d) THEN UNCHANGED inbox ELSE Insert(d)) /\ Told(d) = ~Stored(d)
  <2>1. CASE Answer(d, TRUE, d)
    BY <1>1, <1>2, <2>1, Answered
  <2>2. CASE ~Answer(d, TRUE, d)
    <3>1. saves'[d].answer = NoAnswer
      BY <1>1, <1>2, <2>2 DEF Save
    <3>. QED
      BY <1>2, <3>1 DEF Told
  <2>. QED
    BY <2>1, <2>2
<1>3. ASSUME Stored(d), UNCHANGED inbox, Answer(d, FALSE, Entry(d).id)
      PROVE  (IF Stored(d) THEN UNCHANGED inbox ELSE Insert(d)) /\ Told(d) = ~Stored(d)
  BY <1>1, <1>3, Answered DEF Stored
<1>4. ASSUME Stored(d), UNCHANGED inbox, saves' = [saves EXCEPT ![d].pc = "search"],
             saves[d].pc \in Undecided
      PROVE  (IF Stored(d) THEN UNCHANGED inbox ELSE Insert(d)) /\ Told(d) = ~Stored(d)
  <2>1. saves'[d].answer = NoAnswer
    BY <1>1, <1>4 DEF Save
  <2>. QED
    BY <1>4, <2>1 DEF Told
<1>5. CASE SaveInsert(d)
  <2>1. saves[d].pc \in Undecided
    BY <1>5 DEF SaveInsert, MayInsert, Undecided
  <2>2. CASE Stored(d)
    BY <1>3, <1>4, <1>5, <2>1, <2>2 DEF SaveInsert
  <2>3. CASE ~Stored(d)
    <3>1. /\ Insert(d)
          /\ \/ Answer(d, TRUE, d)
             \/ saves' = [saves EXCEPT ![d].lost = TRUE,
                            ![d].pc = IF SearchesAfterErrors THEN "search" ELSE "rejected"]
      BY <1>5, <2>3 DEF SaveInsert
    <3>. QED
      BY <1>2, <2>1, <2>3, <3>1
  <2>. QED
    BY <2>2, <2>3
<1>6. CASE SaveCommit(d)
  <2>1. /\ saves[d].pc = "commit" /\ Insert(d)
        /\ \/ Answer(d, TRUE, d)
           \/ saves' = [saves EXCEPT ![d].pc = "rejected", ![d].lost = TRUE]
    BY <1>6 DEF SaveCommit
  <2>2. saves[d].pc \in Undecided /\ ~Stored(d)
    BY <1>1, <2>1 DEF Undecided
  <2>. QED
    BY <1>2, <2>1, <2>2
<1>7. ASSUME saves'[d].answer # NoAnswer,
             SaveFind(d) \/ SaveInsertInTransaction(d) \/ SaveSearch(d)
      PROVE  Stored(d) /\ UNCHANGED inbox /\ Answer(d, FALSE, Entry(d).id)
  <2>1. saves[d].pc \in Undecided
    BY <1>7 DEF SaveFind, SaveInsertInTransaction, SaveSearch, MayInsert, Undecided
  <2>2. ASSUME NEW pc, saves' = [saves EXCEPT ![d].pc = pc] PROVE FALSE
    BY <1>1, <1>7, <2>1, <2>2 DEF Save
  <2>3. CASE SaveFind(d)
    BY <2>2, <2>3 DEF SaveFind
  <2>4. CASE SaveInsertInTransaction(d)
    BY <2>2, <2>4 DEF SaveInsertInTransaction
  <2>5. CASE SaveSearch(d)
    BY <2>2, <2>5 DEF SaveSearch
  <2>. QED
    BY <1>7, <2>3, <2>4, <2>5
<1>. QED
  BY <1>3, <1>5, <1>6, <1>7 DEF Saving

\* Every call on the inbox is as the contract asks.
LEMMA InboxCalls == InboxInv /\ EntriesInv => InboxCallHonours
<1>. SUFFICES ASSUME InboxInv, EntriesInv PROVE InboxCallHonours
  OBVIOUS
<1>1. /\ clock \in Nat /\ clock + 1 \in Nat /\ site \in Sites
      /\ inbox \in [Keys -> [id : Deliveries \cup {NoOne}, row : KR!Row]]
  BY DEF InboxInv, InboxType
<1>2. ASSUME NEW d \in Deliveries, Saving(d)
      PROVE  InboxHonours({KeyOf[d]}, Call("insert", NoOwner, K!NoTime, Told(d)))
  <2>1. KeyOf[d] \in Keys /\ (Stored(d) <=> inbox[KeyOf[d]].row.status # "absent")
    BY KeyAndEntry DEF InboxInv, EntriesInv, EntryInv, Stored, Entry
  <2>2. /\ saves[d].pc \in Undecided => saves[d].answer = NoAnswer
        /\ saves[d].pc = "commit" => ~Stored(d)
        /\ saves \in [Deliveries -> Save]
    BY DEF InboxInv, InboxType, SaveInv
  <2>3. /\ IF Stored(d) THEN UNCHANGED inbox ELSE Insert(d)
        /\ Told(d) = ~Stored(d)
    BY <1>2, <2>1, <2>2, SaveTells DEF Saving
  <2>4. /\ \A j \in Keys : j # KeyOf[d] => inbox'[j] = inbox[j]
        /\ IF Stored(d) THEN inbox'[KeyOf[d]] = inbox[KeyOf[d]]
           ELSE inbox'[KeyOf[d]].row = KR!PendingRow(clock)
    BY <1>1, <2>1, <2>3 DEF Insert
  <2>5. KR!PendingRow(clock).status = "pending" /\ KR!PendingRow(clock).retry = 0
    BY DEF KR!PendingRow, KR!AbsentRow
  <2>6. C!HonoursReceivedContract(Call("insert", NoOwner, K!NoTime, ~Stored(d)),
                                  inbox[KeyOf[d]].row, inbox'[KeyOf[d]].row)
    BY <2>1, <2>4, <2>5 DEF C!HonoursReceivedContract, Call
  <2>. QED
    BY <2>1, <2>3, <2>4, <2>6, InboxCallOn
<1>3. ASSUME NEW d \in Deliveries, markProcessed(d), ~Overtaken(d)
      PROVE  InboxHonours({KeyOf[d]}, Call("processed", NoOwner, K!NoTime, TRUE))
  <2>1. /\ KeyOf[d] \in Keys /\ Entry(d).row \in KR!Row /\ saves[d].read \in KR!Row
        /\ Entry(d).row = inbox[KeyOf[d]].row
    BY KeyAndEntry DEF InboxInv, Entry
  <2>2. saves[d].read = Entry(d).row \/ site[1] # "mikro"
    BY <1>3 DEF markProcessed, Overtaken
  <2>3. ReceivedProcessed(Entry(d).row, saves[d].read) = KR!ProcessedRow(Entry(d).row)
    BY <1>1, <2>1, <2>2, ProcessedRows
  <2>4. inbox' = [inbox EXCEPT ![KeyOf[d]].row = KR!ProcessedRow(Entry(d).row)]
    BY <1>3, <2>3 DEF markProcessed, Mark
  <2>5. /\ KR!ProcessedRow(Entry(d).row).status = "processed"
        /\ KR!ProcessedRow(Entry(d).row).due = K!NoTime
    BY <2>1 DEF KR!ProcessedRow, KR!Row, KR!NoTime, K!NoTime
  <2>6. /\ \A j \in Keys : j # KeyOf[d] => inbox'[j] = inbox[j]
        /\ inbox'[KeyOf[d]].row = KR!ProcessedRow(Entry(d).row)
    BY <1>1, <2>1, <2>4
  <2>7. C!HonoursReceivedContract(Call("processed", NoOwner, K!NoTime, TRUE),
                                  inbox[KeyOf[d]].row, inbox'[KeyOf[d]].row)
    BY <2>5, <2>6 DEF C!HonoursReceivedContract, Call
  <2>. QED
    BY <2>1, <2>6, <2>7, InboxCallOn
<1>4. ASSUME NEW d \in Deliveries, markReceivedFailed(d, clock + 1), ~Overtaken(d)
      PROVE  InboxHonours({KeyOf[d]}, Call("failed", NoOwner, clock + 1, TRUE))
  <2>. DEFINE row == Entry(d).row
              new == KR!FailedRow(row, row.retry + 1, clock + 1)
  <2>1. /\ KeyOf[d] \in Keys /\ row \in KR!Row /\ saves[d].read \in KR!Row
        /\ row = inbox[KeyOf[d]].row
    BY KeyAndEntry DEF InboxInv, Entry
  <2>2. saves[d].read = row \/ site[1] = "memory"
    BY <1>4 DEF markReceivedFailed, Overtaken, InMemory
  <2>3. ReceivedFailed(row, saves[d].read, clock + 1) = new
    BY <1>1, <2>1, <2>2, ReceivedFailedRows
  <2>4. inbox' = [inbox EXCEPT ![KeyOf[d]].row = new]
    BY <1>4, <2>3 DEF markReceivedFailed, Mark
  <2>5. /\ new.retry = row.retry + 1
        /\ IF new.retry >= MaxInboxRetries
           THEN new.status = "dead_letter" /\ new.due = K!NoTime
           ELSE new.status = "failed" /\ new.due = clock + 1
    <3>1. CASE row.retry + 1 >= MaxInboxRetries
      BY <2>1, <3>1 DEF KR!FailedRow, KR!Row, KR!NoTime, K!NoTime
    <3>2. CASE ~(row.retry + 1 >= MaxInboxRetries)
      BY <2>1, <3>2 DEF KR!FailedRow, KR!Row
    <3>. QED
      BY <3>1, <3>2
  <2>. HIDE DEF new
  <2>6. /\ \A j \in Keys : j # KeyOf[d] => inbox'[j] = inbox[j]
        /\ inbox'[KeyOf[d]].row = new
    BY <1>1, <2>1, <2>4
  <2>7. C!HonoursReceivedContract(Call("failed", NoOwner, clock + 1, TRUE),
                                  inbox[KeyOf[d]].row, inbox'[KeyOf[d]].row)
    BY <2>1, <2>5, <2>6 DEF C!HonoursReceivedContract, C!HonoursReceivedFailed, Call
  <2>. QED
    BY <2>1, <2>6, <2>7, InboxCallOn
<1>5. ASSUME NEW d \in Deliveries, NEW cutoff \in {K!NoTime, clock}, getRetryDue(d, cutoff)
      PROVE  InboxHonours({KeyOf[d]}, Call("due", NoOwner, cutoff, TRUE))
  <2>1. /\ KeyOf[d] \in Keys /\ Entry(d).row \in KR!Row /\ Entry(d).row = inbox[KeyOf[d]].row
        /\ Entry(d).row.status # "absent" => Entry(d).row.born \in Nat
    BY KeyAndEntry DEF InboxInv, EntriesInv, EntryInv, Entry
  <2>2. RetryDue(Entry(d).row, clock, cutoff) /\ UNCHANGED inbox
    BY <1>5 DEF getRetryDue
  <2>3. \/ Entry(d).row.status = "failed" /\ Entry(d).row.due <= clock
        \/ Entry(d).row.status = "pending" /\ cutoff # K!NoTime /\ Entry(d).row.born <= cutoff
    BY <1>1, <2>1, <2>2, DueRows
  <2>4. C!HonoursReceivedContract(Call("due", NoOwner, cutoff, TRUE),
                                  inbox[KeyOf[d]].row, inbox'[KeyOf[d]].row)
    BY <2>1, <2>2, <2>3 DEF C!HonoursReceivedContract, C!HonoursRetryDue, Call
  <2>. QED
    BY <2>1, <2>2, <2>4, InboxCallOn
<1>6. ASSUME NEW k \in Keys, NEW ok \in BOOLEAN, requeueReceived(k, ok)
      PROVE  InboxHonours({k}, Call("requeue", NoOwner, K!NoTime, ok))
  <2>. DEFINE new == IF ok THEN ReceivedRequeued(inbox[k].row, clock) ELSE inbox[k].row
  <2>1. inbox[k].row \in KR!Row
    BY <1>1
  <2>2. inbox' = [inbox EXCEPT ![k].row = new] /\ ok = KR!CanRequeue(inbox[k].row)
    BY <1>6 DEF requeueReceived
  <2>3. ok => new.status = "failed" /\ new.retry = 0 /\ new.due = clock
    <3>1. ReceivedRequeued(inbox[k].row, clock) = KR!RequeuedRow(inbox[k].row, clock)
      BY <1>1, <2>1, ReceivedRequeuedRows
    <3>. QED
      BY <2>1, <3>1 DEF KR!RequeuedRow, KR!Row
  <2>4. ~ok => new = inbox[k].row
    OBVIOUS
  <2>. HIDE DEF new
  <2>5. inbox'[k].row = new /\ \A j \in Keys : j # k => inbox'[j] = inbox[j]
    BY <1>1, <2>2
  <2>6. C!HonoursReceivedContract(Call("requeue", NoOwner, K!NoTime, ok),
                                  inbox[k].row, inbox'[k].row)
    BY <2>2, <2>3, <2>4, <2>5
       DEF C!HonoursReceivedContract, C!HonoursReceivedRequeue, Call, KR!CanRequeue
  <2>. QED
    BY <2>5, <2>6, InboxCallOn
<1>. QED
  BY <1>2, <1>3, <1>4, <1>5, <1>6 DEF InboxCallHonours


-----------------------------------------------------------------------------
\* The outbox, of storages that claim safely and of those that do not.

\* The owner a claim is about to write is no row's yet.
TokenInv(w) ==
    /\ ~InMemory
    /\ claims[w].owner = <<w, claims[w].n>> /\ claims[w].n >= 1
    /\ claims[w].until \in Nat
    /\ \A m \in Msgs : rows[m].owner # claims[w].owner
    /\ \A m \in DOMAIN claims[w].read :
        /\ m \in Msgs /\ claims[w].read[m] \in K!Row
        /\ claims[w].read[m].owner # claims[w].owner

OutboxInv ==
    /\ site \in Sites /\ clock \in Nat
    /\ rows \in [Msgs -> K!Row]
    /\ held \subseteq Claim
    /\ claims = [w \in Workers |-> claims[w]]
    /\ \A w \in Workers : claims[w].n \in 0 .. MaxClaims
    /\ \A w \in Workers : claims[w].owner # NoOwner => TokenInv(w)
    /\ \A m \in Msgs, w \in Workers, n \in 1 .. MaxClaims :
          rows[m].owner = <<w, n>> => n <= claims[w].n

\* The row a claim of MikroORM writes over what others have written since.
LEMMA ClaimedOver ==
    ASSUME site \in Sites, NEW row \in K!Row, NEW read \in K!Row, NEW owner \in Tokens,
           NEW until \in Nat, read.owner # owner
    PROVE  /\ Claimed(row, read, owner, until) \in K!Row
           /\ Claimed(row, read, owner, until).owner = owner
<1>. DEFINE new == [read EXCEPT !.status = "processing", !.owner = owner, !.until = until]
            flushed == M!Flushed(row, read, new)
<1>1. I!Claimed(row, owner, until) \in K!Row /\ I!Claimed(row, owner, until).owner = owner
  BY NewClaims
<1>2. CASE site[1] # "mikro"
  <2>1. Claimed(row, read, owner, until) = I!Claimed(row, owner, until)
    BY <1>2 DEF Claimed, ByLibrary, K!ClaimedRow, T!Claimed, P!Claimed, I!Claimed
  <2>. QED
    BY <1>1, <2>1
<1>3. CASE site[1] = "mikro"
  <2>1. Claimed(row, read, owner, until) = flushed
    BY <1>3 DEF Claimed, ByLibrary, M!Claimed
  <2>2. new \in K!Row /\ new.owner = owner
    BY DEF K!Row, K!Status, K!Time
  <2>3. DOMAIN row = {"status", "retry", "due", "owner", "until"}
    BY DEF K!Row
  <2>. HIDE DEF new
  <2>4. flushed = [f \in {"status", "retry", "due", "owner", "until"} |->
                      IF new[f] # read[f] THEN new[f] ELSE row[f]]
    BY <2>3 DEF M!Flushed
  <2>5. flushed = [status |-> flushed.status, retry |-> flushed.retry, due |-> flushed.due,
                   owner |-> flushed.owner, until |-> flushed.until]
    BY <2>4
  <2>6. /\ flushed.status \in {new.status, row.status}
        /\ flushed.retry \in {new.retry, row.retry}
        /\ flushed.due \in {new.due, row.due}
        /\ flushed.owner = owner
        /\ flushed.until \in {new.until, row.until}
    BY <2>2, <2>4
  <2>. HIDE DEF flushed
  <2>7. flushed \in K!Row
    BY <2>2, <2>5, <2>6 DEF K!Row
  <2>. QED
    BY <2>1, <2>6, <2>7
<1>. QED
  BY <1>2, <1>3

\* The initial states satisfy OutboxInv.
LEMMA OutboxInit == Init => OutboxInv
<1>. SUFFICES ASSUME Init PROVE OutboxInv
  OBVIOUS
<1>1. K!AbsentRow \in K!Row /\ K!AbsentRow.owner = NoOwner
  BY DEF K!AbsentRow, K!Row, K!Status, K!Time, K!NoTime
<1>2. /\ claims = [w \in Workers |-> claims[w]]
      /\ \A w \in Workers : claims[w].n \in 0 .. MaxClaims /\ claims[w].owner = NoOwner
  BY StoragesAssumption DEF Init, NoClaim
<1>3. \A w \in Workers, n \in 1 .. MaxClaims : NoOwner # <<w, n>>
  BY NoOwnerAssumption DEF Tokens
<1>. QED
  BY <1>1, <1>2, <1>3 DEF Init, OutboxInv

\* A statement that leaves each row it writes with its owner or none.
LEMMA OwnersKept ==
    ASSUME OutboxInv, UNCHANGED <<site, clock, claims>>,
           rows' \in [Msgs -> K!Row], held' \subseteq Claim,
           \A m \in Msgs : rows'[m].owner \in {rows[m].owner, NoOwner}
    PROVE  OutboxInv'
<1>1. \A w \in Workers, n \in 1 .. MaxClaims : NoOwner # <<w, n>>
  BY NoOwnerAssumption DEF Tokens
<1>2. ASSUME NEW w \in Workers, claims[w].owner # NoOwner PROVE TokenInv(w)'
  BY <1>2 DEF OutboxInv, TokenInv, InMemory
<1>. QED
  BY <1>1, <1>2 DEF OutboxInv

\* The same of one row.
LEMMA RowOwnerKept ==
    ASSUME OutboxInv, UNCHANGED <<site, clock, claims>>, NEW m \in Msgs, NEW row \in K!Row,
           row.owner \in {rows[m].owner, NoOwner},
           rows' = [rows EXCEPT ![m] = row] \/ rows' = rows, held' \subseteq Claim
    PROVE  OutboxInv'
<1>1. /\ rows' \in [Msgs -> K!Row]
      /\ \A k \in Msgs : rows'[k].owner \in {rows[k].owner, NoOwner}
  BY DEF OutboxInv
<1>. QED
  BY <1>1, OwnersKept

\* The owners of the rows the calls leave behind.
LEMMA NewOwners ==
    ASSUME site \in Sites, NEW row \in K!Row, NEW t \in Nat
    PROVE  /\ Published(row).owner = NoOwner
           /\ Failed(row, t).owner = NoOwner
           /\ Requeued(row, t).owner = NoOwner
           /\ Lapsed(row, t) => Released(row, t).owner = NoOwner
<1>1. Published(row).owner = NoOwner
  <2>1. Published(row) = [row EXCEPT !.status = "published", !.owner = NoOwner,
                                     !.until = K!NoTime, !.due = K!NoTime]
    BY PublishedRows
  <2>. QED
    BY <2>1 DEF K!Row
<1>2. K!FailedRow(row, t).owner = NoOwner
  BY DEF K!FailedRow, K!Row
<1>3. Requeued(row, t).owner = NoOwner
  <2>1. Requeued(row, t) = [row EXCEPT !.status = "failed", !.retry = 0, !.due = t,
                                       !.owner = NoOwner, !.until = K!NoTime]
    BY RequeuedRows
  <2>. QED
    BY <2>1 DEF K!Row
<1>4. ASSUME Lapsed(row, t) PROVE Released(row, t).owner = NoOwner
  <2>1. Released(row, t) = [row EXCEPT !.status = "failed", !.owner = NoOwner,
                                       !.until = K!NoTime]
    BY <1>4, LapsedRows
  <2>. QED
    BY <2>1 DEF K!Row
<1>. QED
  BY <1>1, <1>2, <1>3, <1>4, FailedRows

\* The single-row calls keep OutboxInv.
LEMMA OutboxCallsInv ==
    ASSUME OutboxInv, UNCHANGED <<site, clock>>,
           \/ releaseExpiredClaims
           \/ \E h \in held, ok \in BOOLEAN : renewPublishClaim(h, clock + Lease, ok)
           \/ \E m \in Msgs :
                \/ savePublish(m)
                \/ \E by \in Callers(m), ok \in BOOLEAN :
                      markPublished(m, by, ok) \/ markPublishFailed(m, by, clock + 1, ok)
                \/ \E ok \in BOOLEAN : requeuePublish(m, ok)
    PROVE  OutboxInv'
<1>1. /\ site \in Sites /\ clock \in Nat /\ clock + 1 \in Nat /\ clock + Lease \in Nat
      /\ rows \in [Msgs -> K!Row] /\ held \subseteq Claim
  BY StoragesAssumption DEF OutboxInv
<1>2. CASE releaseExpiredClaims
  <2>1. /\ UNCHANGED <<claims, held>>
        /\ rows' = [m \in Msgs |-> IF Lapsed(rows[m], clock) THEN Released(rows[m], clock)
                                   ELSE rows[m]]
    BY <1>2 DEF releaseExpiredClaims
  <2>2. ASSUME NEW m \in Msgs
        PROVE  rows'[m] \in K!Row /\ rows'[m].owner \in {rows[m].owner, NoOwner}
    <3>1. rows[m] \in K!Row
      BY <1>1
    <3>2. CASE Lapsed(rows[m], clock)
      <4>1. rows'[m] = Released(rows[m], clock)
        BY <2>1, <3>2
      <4>2. Released(rows[m], clock) \in K!Row
        BY <1>1, <3>1, <3>2, NewRows
      <4>3. Released(rows[m], clock).owner = NoOwner
        BY <1>1, <3>1, <3>2, NewOwners
      <4>. QED
        BY <4>1, <4>2, <4>3
    <3>3. CASE ~Lapsed(rows[m], clock)
      BY <2>1, <3>1, <3>3
    <3>. QED
      BY <3>2, <3>3
  <2>3. rows' \in [Msgs -> K!Row]
    BY <2>1, <2>2
  <2>. QED
    BY <1>1, <2>1, <2>2, <2>3, OwnersKept
<1>3. ASSUME NEW h \in held, NEW ok \in BOOLEAN, renewPublishClaim(h, clock + Lease, ok)
      PROVE  OutboxInv'
  <2>. DEFINE m == h.id
              row == Renewed(rows[m], clock + Lease)
  <2>1. m \in Msgs /\ rows[m] \in K!Row /\ [h EXCEPT !.until = clock + Lease] \in Claim
    BY <1>1 DEF Claim
  <2>2. row \in K!Row /\ row.owner = rows[m].owner
    BY <1>1, <2>1, NewRows
  <2>3. /\ rows' = [rows EXCEPT ![m] = row] \/ rows' = rows
        /\ UNCHANGED claims
        /\ held' \subseteq Claim
    BY <1>1, <1>3, <2>1 DEF renewPublishClaim
  <2>. HIDE DEF m, row
  <2>. QED
    BY <2>1, <2>2, <2>3, RowOwnerKept
<1>4. ASSUME NEW m \in Msgs, savePublish(m) PROVE OutboxInv'
  <2>1. K!PendingRow \in K!Row /\ K!PendingRow.owner = NoOwner /\ Saved = K!PendingRow
    BY <1>1, SavedRow DEF K!PendingRow, K!AbsentRow
  <2>2. rows' = [rows EXCEPT ![m] = K!PendingRow] /\ UNCHANGED <<claims, held>>
    BY <1>4, <2>1 DEF savePublish
  <2>. QED
    BY <1>1, <2>1, <2>2, RowOwnerKept
<1>5. ASSUME NEW m \in Msgs, NEW by, NEW ok \in BOOLEAN, NEW row \in K!Row, row.owner = NoOwner,
             Complete(m, by, row, ok)
      PROVE  OutboxInv'
  <2>1. /\ rows' = [rows EXCEPT ![m] = row] \/ rows' = rows
        /\ UNCHANGED claims /\ held' \subseteq Claim
    BY <1>1, <1>5 DEF Complete
  <2>. QED
    BY <1>5, <2>1, RowOwnerKept
<1>6. ASSUME NEW m \in Msgs, NEW by \in Callers(m), NEW ok \in BOOLEAN,
             markPublished(m, by, ok) \/ markPublishFailed(m, by, clock + 1, ok)
      PROVE  OutboxInv'
  <2>1. rows[m] \in K!Row
    BY <1>1
  <2>2. /\ Published(rows[m]) \in K!Row /\ Published(rows[m]).owner = NoOwner
        /\ Failed(rows[m], clock + 1) \in K!Row /\ Failed(rows[m], clock + 1).owner = NoOwner
    BY <1>1, <2>1, NewRows, NewOwners
  <2>. QED
    BY <1>5, <1>6, <2>2 DEF markPublished, markPublishFailed
<1>7. ASSUME NEW m \in Msgs, NEW ok \in BOOLEAN, requeuePublish(m, ok) PROVE OutboxInv'
  <2>1. rows[m] \in K!Row
    BY <1>1
  <2>2. Requeued(rows[m], clock) \in K!Row /\ Requeued(rows[m], clock).owner = NoOwner
    BY <1>1, <2>1, NewRows, NewOwners
  <2>3. /\ rows' = [rows EXCEPT ![m] = Requeued(rows[m], clock)] \/ rows' = rows
        /\ UNCHANGED <<claims, held>>
    BY <1>7 DEF requeuePublish
  <2>. QED
    BY <1>1, <2>2, <2>3, RowOwnerKept
<1>. QED
  BY <1>2, <1>3, <1>4, <1>6, <1>7

\* The end of w's claim, of which S are the rows that are now its.
LEMMA ClaimEnds ==
    ASSUME OutboxInv, UNCHANGED <<site, clock>>, NEW w \in Workers, NEW n \in 0 .. MaxClaims,
           claims[w].n <= n, claims' = [claims EXCEPT ![w] = NoClaim(n)],
           NEW S \in SUBSET Msgs, S # {} => n >= 1,
           rows' \in [Msgs -> K!Row],
           \A m \in S : rows'[m].owner = <<w, n>>,
           \A m \in Msgs \ S : rows'[m] = rows[m],
           held' \subseteq Claim
    PROVE  OutboxInv'
<1>1. /\ claims'[w].owner = NoOwner /\ claims'[w].n = n
      /\ claims' = [v \in Workers |-> claims'[v]]
      /\ \A v \in Workers : v # w => claims'[v] = claims[v]
  BY DEF OutboxInv, NoClaim
<1>2. ASSUME NEW v \in Workers, claims'[v].owner # NoOwner PROVE TokenInv(v)'
  <2>1. v # w /\ claims'[v] = claims[v]
    BY <1>1, <1>2
  <2>2. TokenInv(v)
    BY <1>2, <2>1 DEF OutboxInv
  <2>3. ASSUME NEW m \in Msgs PROVE rows'[m].owner # claims[v].owner
    <3>1. claims[v].owner = <<v, claims[v].n>> /\ rows[m].owner # claims[v].owner
      BY <2>2 DEF TokenInv
    <3>. QED
      BY <2>1, <3>1
  <2>. QED
    BY <2>1, <2>2, <2>3 DEF TokenInv, InMemory
<1>3. ASSUME NEW m \in Msgs, NEW v \in Workers, NEW k \in 1 .. MaxClaims, rows'[m].owner = <<v, k>>
      PROVE  k <= claims'[v].n
  <2>1. CASE m \in S
    BY <1>1, <1>3, <2>1
  <2>2. CASE m \notin S
    <3>1. k <= claims[v].n
      BY <1>3, <2>2 DEF OutboxInv
    <3>. QED
      BY <1>1, <3>1, StoragesAssumption DEF OutboxInv
  <2>. QED
    BY <2>1, <2>2
<1>4. \A v \in Workers : claims'[v].n \in 0 .. MaxClaims
  BY <1>1 DEF OutboxInv
<1>. QED
  BY <1>1, <1>2, <1>3, <1>4 DEF OutboxInv

\* The claims returned to a worker are claims.
LEMMA HeldForClaims ==
    ASSUME OutboxInv, NEW S \in SUBSET Msgs, NEW owner \in Tokens, NEW until \in Nat,
           held' = held \cup HeldFor(S, owner, until)
    PROVE  held' \subseteq Claim
BY DEF OutboxInv, HeldFor, Claim

\* The in-memory claim keeps OutboxInv.
LEMMA ClaimInMemoryTokens ==
    ASSUME OutboxInv, UNCHANGED <<site, clock>>, NEW w \in Workers, NEW selected \in Selections,
           ClaimInMemory(w, selected)
    PROVE  OutboxInv'
<1>. DEFINE n == claims[w].n + 1
            owner == <<w, n>>
            until == clock + Lease
<1>1. /\ Idle(w) /\ site \in Sites /\ \A m \in Msgs : rows[m] \in K!Row
      /\ rows' = [m \in Msgs |-> IF m \in selected THEN I!Claimed(rows[m], owner, until)
                                 ELSE rows[m]]
      /\ held' = held \cup HeldFor(selected, owner, until)
      /\ claims' = [claims EXCEPT ![w] = NoClaim(n)]
  BY DEF ClaimInMemory, OutboxInv
<1>2. n \in 0 .. MaxClaims /\ n >= 1 /\ claims[w].n <= n /\ owner \in Tokens
  BY <1>1, StoragesAssumption DEF Idle, OutboxInv, Tokens
<1>3. until \in Nat
  BY StoragesAssumption DEF OutboxInv
<1>4. selected \in SUBSET Msgs
  BY DEF Selections
<1>5. ASSUME NEW row \in K!Row
      PROVE  I!Claimed(row, owner, until) \in K!Row /\ I!Claimed(row, owner, until).owner = owner
  BY <1>1, <1>2, <1>3, NewClaims
<1>. HIDE DEF until
<1>6. /\ rows' \in [Msgs -> K!Row]
      /\ \A m \in selected : rows'[m].owner = owner
      /\ \A m \in Msgs \ selected : rows'[m] = rows[m]
  BY <1>1, <1>4, <1>5
<1>7. held' \subseteq Claim
  BY <1>1, <1>2, <1>3, <1>4, HeldForClaims
<1>. HIDE DEF n
<1>. QED
  BY <1>1, <1>2, <1>4, <1>6, <1>7, ClaimEnds

\* The end of a claim's transaction keeps OutboxInv.
LEMMA ClaimEndTokens ==
    ASSUME OutboxInv, UNCHANGED <<site, clock>>, NEW w \in Workers,
           ClaimUpdate(w) \/ ClaimRollback(w)
    PROVE  OutboxInv'
<1>. DEFINE claim == claims[w]
<1>1. /\ claim.owner # NoOwner /\ TokenInv(w) /\ claim.n \in 0 .. MaxClaims /\ site \in Sites
      /\ claims' = [claims EXCEPT ![w] = NoClaim(claim.n)]
      /\ rows \in [Msgs -> K!Row]
  BY DEF ClaimUpdate, ClaimRollback, OutboxInv
<1>2. claim.owner = <<w, claim.n>> /\ claim.n >= 1 /\ claim.until \in Nat
  BY <1>1 DEF TokenInv
<1>3. claim.owner \in Tokens /\ claim.n <= claim.n
  BY <1>1, <1>2, StoragesAssumption DEF Tokens
<1>4. CASE ClaimUpdate(w)
  <2>. DEFINE S == DOMAIN claim.read
  <2>1. /\ rows' = [m \in Msgs |-> IF m \in S
                                   THEN Claimed(rows[m], claim.read[m], claim.owner, claim.until)
                                   ELSE rows[m]]
        /\ held' = held \cup HeldFor(S, claim.owner, claim.until)
    BY <1>4 DEF ClaimUpdate
  <2>2. ASSUME NEW m \in S
        PROVE  m \in Msgs /\ claim.read[m] \in K!Row /\ claim.read[m].owner # claim.owner
    BY <1>1 DEF TokenInv
  <2>3. ASSUME NEW m \in S
        PROVE  /\ Claimed(rows[m], claim.read[m], claim.owner, claim.until) \in K!Row
               /\ Claimed(rows[m], claim.read[m], claim.owner, claim.until).owner = claim.owner
    <3>1. rows[m] \in K!Row
      BY <1>1, <2>2
    <3>. QED
      BY <1>1, <1>2, <1>3, <2>2, <3>1, ClaimedOver
  <2>4. S \in SUBSET Msgs
    BY <2>2
  <2>. HIDE DEF S
  <2>5. /\ rows' \in [Msgs -> K!Row]
        /\ \A m \in S : rows'[m].owner = claim.owner
        /\ \A m \in Msgs \ S : rows'[m] = rows[m]
    BY <1>1, <2>1, <2>3, <2>4
  <2>6. held' \subseteq Claim
    BY <1>2, <1>3, <2>1, <2>4, HeldForClaims
  <2>. HIDE DEF claim
  <2>7. \A m \in S : rows'[m].owner = <<w, claim.n>>
    BY <1>2, <2>5
  <2>8. claims[w].n <= claim.n
    BY <1>3 DEF claim
  <2>. QED
    BY <1>1, <1>2, <2>4, <2>5, <2>6, <2>7, <2>8, ClaimEnds
<1>5. CASE ClaimRollback(w)
  <2>1. UNCHANGED <<rows, held>>
    BY <1>5 DEF ClaimRollback
  <2>2. PICK S \in SUBSET Msgs : S = {}
    OBVIOUS
  <2>3. /\ rows' \in [Msgs -> K!Row] /\ held' \subseteq Claim
        /\ \A m \in S : rows'[m].owner = <<w, claim.n>>
        /\ \A m \in Msgs \ S : rows'[m] = rows[m]
    BY <1>1, <2>1, <2>2 DEF OutboxInv
  <2>. QED
    BY <1>1, <1>2, <1>3, <2>2, <2>3, ClaimEnds
<1>. QED
  BY <1>4, <1>5

\* The SELECT of a claim keeps OutboxInv.
LEMMA ClaimSelectTokens ==
    ASSUME OutboxInv, UNCHANGED <<site, clock>>, NEW w \in Workers, NEW selected \in Selections,
           ClaimSelect(w, selected)
    PROVE  OutboxInv'
<1>. DEFINE n == claims[w].n + 1
            claim == [n |-> n, read |-> [m \in selected |-> rows[m]],
                      owner |-> <<w, n>>, until |-> clock + Lease]
<1>1. /\ ~InMemory /\ Idle(w) /\ UNCHANGED <<rows, held>>
      /\ claims' = [claims EXCEPT ![w] = claim]
      /\ selected \in SUBSET Msgs
  BY DEF ClaimSelect, Selections
<1>2. n \in 1 .. MaxClaims /\ claims[w].n < n
  BY <1>1, StoragesAssumption DEF Idle, OutboxInv
<1>3. clock + Lease \in Nat
  BY StoragesAssumption DEF OutboxInv
<1>4. /\ claim.n = n /\ claim.owner = <<w, n>> /\ claim.until \in Nat
      /\ DOMAIN claim.read = selected
      /\ \A m \in selected : claim.read[m] = rows[m]
  BY <1>3
<1>. HIDE DEF claim
<1>5. /\ claims'[w] = claim /\ claims' = [v \in Workers |-> claims'[v]]
      /\ \A v \in Workers : v # w => claims'[v] = claims[v]
  BY <1>1 DEF OutboxInv
<1>6. \A m \in Msgs : rows[m] \in K!Row /\ rows[m].owner # <<w, n>>
  BY <1>2, StoragesAssumption DEF OutboxInv
<1>. HIDE DEF n
<1>7. TokenInv(w)'
  BY <1>1, <1>2, <1>4, <1>5, <1>6 DEF TokenInv, InMemory
<1>8. ASSUME NEW v \in Workers, v # w, claims'[v].owner # NoOwner PROVE TokenInv(v)'
  BY <1>1, <1>5, <1>8 DEF OutboxInv, TokenInv, InMemory
<1>9. \A v \in Workers : claims'[v].n \in 0 .. MaxClaims /\ claims[v].n <= claims'[v].n
  BY <1>2, <1>4, <1>5, StoragesAssumption DEF OutboxInv
<1>10. ASSUME NEW m \in Msgs, NEW v \in Workers, NEW k \in 1 .. MaxClaims, rows[m].owner = <<v, k>>
       PROVE  k <= claims'[v].n
  <2>1. k <= claims[v].n
    BY <1>10 DEF OutboxInv
  <2>2. claims[v].n \in Int /\ claims'[v].n \in Int
    BY <1>9, StoragesAssumption DEF OutboxInv
  <2>. QED
    BY <1>9, <2>1, <2>2
<1>. QED
  BY <1>1, <1>5, <1>7, <1>8, <1>9, <1>10 DEF OutboxInv

\* Every step keeps OutboxInv.
LEMMA OutboxNext == OutboxInv /\ [Next]_vars => OutboxInv'
<1>. SUFFICES ASSUME OutboxInv, [Next]_vars PROVE OutboxInv'
  OBVIOUS
<1>1. site' = site
  BY DEF Next, vars
<1>2. CASE Tick \/ InboxStep \/ UNCHANGED vars
  <2>1. /\ UNCHANGED <<rows, claims, held>> /\ clock' \in Nat
    BY <1>2 DEF OutboxInv, Tick, InboxStep, outVars, vars
  <2>. QED
    BY <1>1, <2>1 DEF OutboxInv, TokenInv, InMemory
<1>3. CASE OutboxStep
  <2>. UNCHANGED <<site, clock>>
    BY <1>1, <1>3 DEF OutboxStep
  <2>1. ASSUME NEW w \in Workers, NEW selected \in Selections, ClaimInMemory(w, selected)
        PROVE  OutboxInv'
    BY <2>1, ClaimInMemoryTokens
  <2>2. ASSUME NEW w \in Workers, NEW selected \in Selections, ClaimSelect(w, selected)
        PROVE  OutboxInv'
    BY <2>2, ClaimSelectTokens
  <2>3. ASSUME NEW w \in Workers, ClaimUpdate(w) \/ ClaimRollback(w) PROVE OutboxInv'
    BY <2>3, ClaimEndTokens
  <2>. QED
    BY <1>3, <2>1, <2>2, <2>3, OutboxCallsInv DEF OutboxStep
<1>. QED
  BY <1>2, <1>3 DEF Next

\* A call that writes one row honours the contract if the row does.
LEMMA OutboxCallOn ==
    ASSUME NEW m \in Msgs, NEW call,
           \A k \in Msgs : k # m => rows'[k] = rows[k],
           C!HonoursPublishContract(ClaimsSafely, call, rows[m], rows'[m])
    PROVE  OutboxHonours({m}, call)
BY DEF OutboxHonours

\* markPublished and markPublishFailed are as the contract asks.
LEMMA MarksHonour ==
    ASSUME OutboxInv, NEW m \in Msgs, NEW ok \in BOOLEAN, NEW by
    PROVE  /\ markPublished(m, by, ok) =>
                OutboxHonours({m}, Call("published", by, K!NoTime, ok))
           /\ markPublishFailed(m, by, clock + 1, ok) =>
                OutboxHonours({m}, Call("failed", by, clock + 1, ok))
<1>1. /\ site \in Sites /\ clock + 1 \in Nat /\ rows[m] \in K!Row
      /\ rows \in [Msgs -> K!Row]
  BY DEF OutboxInv
<1>2. Fenced(rows[m], by) <=> C!Owns(rows[m], by)
  BY <1>1, FencedRows DEF C!Owns
<1>3. ASSUME NEW row, Complete(m, by, row, ok)
      PROVE  /\ rows[m].status # "absent" /\ (ok <=> C!Owns(rows[m], by))
             /\ rows'[m] = IF ok THEN row ELSE rows[m]
             /\ \A k \in Msgs : k # m => rows'[k] = rows[k]
  BY <1>1, <1>2, <1>3 DEF Complete, Absent
<1>4. ASSUME markPublished(m, by, ok)
      PROVE  OutboxHonours({m}, Call("published", by, K!NoTime, ok))
  <2>. DEFINE row == Published(rows[m])
              call == Call("published", by, K!NoTime, ok)
  <2>1. /\ rows[m].status # "absent" /\ (ok <=> C!Owns(rows[m], by))
        /\ rows'[m] = IF ok THEN row ELSE rows[m]
        /\ \A k \in Msgs : k # m => rows'[k] = rows[k]
    BY <1>3, <1>4 DEF markPublished
  <2>2. row = [rows[m] EXCEPT !.status = "published", !.owner = NoOwner,
                              !.until = K!NoTime, !.due = K!NoTime]
    BY <1>1, PublishedRows
  <2>3. row.status = "published" /\ row.owner = NoOwner /\ row.until = K!NoTime
    BY <1>1, <2>2 DEF K!Row
  <2>4. call.op = "published" /\ call.by = by /\ call.ok = ok
    BY DEF Call
  <2>. HIDE DEF row, call
  <2>5. C!HonoursPublished(call, rows[m], rows'[m])
    BY <2>1, <2>3, <2>4 DEF C!HonoursPublished, C!Unlocked
  <2>6. C!HonoursPublishContract(ClaimsSafely, call, rows[m], rows'[m])
    BY <2>4, <2>5 DEF C!HonoursPublishContract
  <2>7. OutboxHonours({m}, call)
    BY <2>1, <2>6, OutboxCallOn
  <2>. QED
    BY <2>7 DEF call
<1>5. ASSUME markPublishFailed(m, by, clock + 1, ok)
      PROVE  OutboxHonours({m}, Call("failed", by, clock + 1, ok))
  <2>. DEFINE row == Failed(rows[m], clock + 1)
              call == Call("failed", by, clock + 1, ok)
  <2>1. /\ rows[m].status # "absent" /\ (ok <=> C!Owns(rows[m], by))
        /\ rows'[m] = IF ok THEN row ELSE rows[m]
        /\ \A k \in Msgs : k # m => rows'[k] = rows[k]
    BY <1>3, <1>5 DEF markPublishFailed
  <2>2. row = K!FailedRow(rows[m], clock + 1)
    BY <1>1, FailedRows
  <2>3. /\ row.retry = rows[m].retry + 1 /\ row.owner = NoOwner /\ row.until = K!NoTime
        /\ IF row.retry >= MaxRetries
           THEN row.status = "dead_letter" /\ row.due = K!NoTime
           ELSE row.status = "failed" /\ row.due = clock + 1
    <3>1. CASE rows[m].retry + 1 >= MaxRetries
      BY <1>1, <2>2, <3>1 DEF K!FailedRow, K!Row
    <3>2. CASE ~(rows[m].retry + 1 >= MaxRetries)
      BY <1>1, <2>2, <3>2 DEF K!FailedRow, K!Row
    <3>. QED
      BY <3>1, <3>2
  <2>4. call.op = "failed" /\ call.by = by /\ call.ok = ok /\ call.at = clock + 1
    BY DEF Call
  <2>. HIDE DEF row, call
  <2>5. C!HonoursFailed(call, rows[m], rows'[m])
    BY <2>1, <2>3, <2>4 DEF C!HonoursFailed, C!Unlocked
  <2>6. C!HonoursPublishContract(ClaimsSafely, call, rows[m], rows'[m])
    BY <2>4, <2>5 DEF C!HonoursPublishContract
  <2>7. OutboxHonours({m}, call)
    BY <2>1, <2>6, OutboxCallOn
  <2>. QED
    BY <2>7 DEF call
<1>. QED
  BY <1>4, <1>5

\* Renewals are as the contract asks.
LEMMA RenewalsHonour ==
    ASSUME OutboxInv, NEW h \in held, NEW ok \in BOOLEAN, renewPublishClaim(h, clock + Lease, ok)
    PROVE  OutboxHonours({h.id}, Call("renew", h.owner, clock + Lease, ok))
<1>. DEFINE m == h.id
            call == Call("renew", h.owner, clock + Lease, ok)
<1>1. /\ site \in Sites /\ clock \in Nat /\ m \in Msgs /\ rows[m] \in K!Row
      /\ rows \in [Msgs -> K!Row] /\ h.owner \in Tokens
  BY DEF OutboxInv, Claim
<1>2. ok <=> rows[m].status = "processing" /\ rows[m].owner = h.owner /\ rows[m].until > clock
  BY <1>1, RenewableRows DEF renewPublishClaim
<1>3. rows' = IF ok THEN [rows EXCEPT ![m] = Renewed(rows[m], clock + Lease)] ELSE rows
  BY DEF renewPublishClaim
<1>4. Renewed(rows[m], clock + Lease) = [rows[m] EXCEPT !.until = clock + Lease]
  BY <1>1, RenewedRows
<1>5. /\ rows'[m] = IF ok THEN [rows[m] EXCEPT !.until = clock + Lease] ELSE rows[m]
      /\ \A k \in Msgs : k # m => rows'[k] = rows[k]
  BY <1>1, <1>3, <1>4
<1>6. h.owner # NoOwner
  BY <1>1, NoOwnerAssumption
<1>7. /\ call.op = "renew" /\ call.by = h.owner /\ call.ok = ok /\ call.now = clock
      /\ call.at = clock + Lease
  BY DEF Call
<1>. HIDE DEF call, m
<1>8. C!HonoursRenew(call, rows[m], rows'[m])
  BY <1>2, <1>5, <1>6, <1>7 DEF C!HonoursRenew, C!Owns
<1>9. C!HonoursPublishContract(ClaimsSafely, call, rows[m], rows'[m])
  BY <1>7, <1>8 DEF C!HonoursPublishContract
<1>10. OutboxHonours({m}, call)
  BY <1>1, <1>5, <1>9, OutboxCallOn
<1>. QED
  BY <1>10 DEF call, m

\* Releases are as the contract asks.
LEMMA ReleasesHonour ==
    ASSUME OutboxInv, releaseExpiredClaims
    PROVE  OutboxHonours(Msgs, Call("release", NoOwner, K!NoTime, TRUE))
<1>. DEFINE call == Call("release", NoOwner, K!NoTime, TRUE)
<1>1. call.op = "release" /\ call.now = clock
  BY DEF Call
<1>. HIDE DEF call
<1>2. ASSUME NEW m \in Msgs
      PROVE  C!HonoursPublishContract(ClaimsSafely, call, rows[m], rows'[m])
  <2>1. site \in Sites /\ clock \in Nat /\ rows[m] \in K!Row
    BY DEF OutboxInv
  <2>2. rows'[m] = IF Lapsed(rows[m], clock) THEN Released(rows[m], clock) ELSE rows[m]
    BY DEF releaseExpiredClaims
  <2>3. Lapsed(rows[m], clock) <=>
           rows[m].status = "processing" /\ rows[m].until # K!NoTime /\ rows[m].until <= clock
    BY <2>1, LapsedRows
  <2>4. CASE Lapsed(rows[m], clock)
    <3>1. rows'[m] = [rows[m] EXCEPT !.status = "failed", !.owner = NoOwner,
                                     !.until = K!NoTime]
      BY <2>1, <2>2, <2>4, LapsedRows
    <3>2. /\ rows'[m].status = "failed" /\ rows'[m].owner = NoOwner
          /\ rows'[m].until = K!NoTime /\ rows'[m].retry = rows[m].retry
      BY <2>1, <3>1 DEF K!Row
    <3>. QED
      BY <1>1, <2>3, <2>4, <3>2
         DEF C!HonoursPublishContract, C!HonoursRelease, C!Unlocked
  <2>5. CASE ~Lapsed(rows[m], clock)
    BY <1>1, <2>2, <2>3, <2>5 DEF C!HonoursPublishContract, C!HonoursRelease
  <2>. QED
    BY <2>4, <2>5
<1>3. OutboxHonours(Msgs, call)
  BY <1>2 DEF OutboxHonours
<1>. QED
  BY <1>3 DEF call

\* Requeues are as the contract asks.
LEMMA RequeuesHonour ==
    ASSUME OutboxInv, NEW m \in Msgs, NEW ok \in BOOLEAN, requeuePublish(m, ok)
    PROVE  OutboxHonours({m}, Call("requeue", NoOwner, K!NoTime, ok))
<1>. DEFINE call == Call("requeue", NoOwner, K!NoTime, ok)
<1>1. /\ site \in Sites /\ clock \in Nat /\ rows[m] \in K!Row
      /\ rows \in [Msgs -> K!Row]
  BY DEF OutboxInv
<1>2. ok <=> rows[m].status \in {"failed", "dead_letter"}
  BY <1>1, RequeuedRows DEF requeuePublish
<1>3. /\ rows'[m] = IF ok THEN Requeued(rows[m], clock) ELSE rows[m]
      /\ \A k \in Msgs : k # m => rows'[k] = rows[k]
  BY <1>1 DEF requeuePublish
<1>4. Requeued(rows[m], clock) =
         [rows[m] EXCEPT !.status = "failed", !.retry = 0, !.due = clock,
                         !.owner = NoOwner, !.until = K!NoTime]
  BY <1>1, RequeuedRows
<1>5. ok => /\ rows'[m].status = "failed" /\ rows'[m].retry = 0 /\ rows'[m].due = clock
            /\ rows'[m].owner = NoOwner /\ rows'[m].until = K!NoTime
  BY <1>1, <1>3, <1>4 DEF K!Row
<1>6. call.op = "requeue" /\ call.ok = ok /\ call.now = clock
  BY DEF Call
<1>. HIDE DEF call
<1>7. C!HonoursPublishContract(ClaimsSafely, call, rows[m], rows'[m])
  BY <1>2, <1>3, <1>5, <1>6 DEF C!HonoursPublishContract, C!HonoursRequeue, C!Unlocked
<1>8. OutboxHonours({m}, call)
  BY <1>3, <1>7, OutboxCallOn
<1>. QED
  BY <1>8 DEF call

\* Saves are as the contract asks.
LEMMA SavesHonour ==
    ASSUME OutboxInv, NEW m \in Msgs, savePublish(m)
    PROVE  OutboxHonours({m}, Call("save", NoOwner, K!NoTime, TRUE))
<1>. DEFINE call == Call("save", NoOwner, K!NoTime, TRUE)
<1>1. Saved = K!PendingRow /\ rows \in [Msgs -> K!Row]
  BY SavedRow DEF OutboxInv
<1>2. K!PendingRow.status = "pending" /\ K!PendingRow.retry = 0
  BY DEF K!PendingRow, K!AbsentRow
<1>3. /\ rows'[m] = K!PendingRow
      /\ \A k \in Msgs : k # m => rows'[k] = rows[k]
  BY <1>1 DEF savePublish
<1>4. call.op = "save"
  BY DEF Call
<1>. HIDE DEF call
<1>5. C!HonoursPublishContract(ClaimsSafely, call, rows[m], rows'[m])
  BY <1>2, <1>3, <1>4 DEF C!HonoursPublishContract
<1>6. OutboxHonours({m}, call)
  BY <1>3, <1>5, OutboxCallOn
<1>. QED
  BY <1>6 DEF call

\* A claimed row, of a storage that claims safely or not.
LEMMA ClaimHonours ==
    ASSUME NEW old, NEW new, NEW call, NEW safe, call.op = "claim", call.now = clock,
           new.owner = call.by,
           safe => new.status = "processing" /\ Offered(old)
    PROVE  C!HonoursPublishContract(safe, call, old, new)
BY DEF C!HonoursPublishContract, C!HonoursClaim, Offered

\* Claims are as the contract asks.
LEMMA ClaimsHonour ==
    ASSUME StoragesInv, OutboxInv, NEW w \in Workers
    PROVE  /\ \A selected \in Selections : ClaimInMemory(w, selected) =>
                OutboxHonours(selected, Call("claim", <<w, claims'[w].n>>, K!NoTime, TRUE))
           /\ ClaimUpdate(w) =>
                OutboxHonours(DOMAIN claims[w].read,
                              Call("claim", claims[w].owner, K!NoTime, TRUE))
<1>1. site \in Sites /\ clock \in Nat /\ clock + Lease \in Nat /\ \A m \in Msgs : rows[m] \in K!Row
  BY StoragesAssumption DEF OutboxInv
<1>2. ASSUME NEW selected \in Selections, ClaimInMemory(w, selected)
      PROVE  OutboxHonours(selected, Call("claim", <<w, claims'[w].n>>, K!NoTime, TRUE))
  <2>. DEFINE n == claims[w].n + 1
              owner == <<w, n>>
              call == Call("claim", <<w, claims'[w].n>>, K!NoTime, TRUE)
  <2>1. /\ InMemory /\ Idle(w)
        /\ rows' = [m \in Msgs |-> IF m \in selected
                                   THEN I!Claimed(rows[m], owner, clock + Lease) ELSE rows[m]]
        /\ claims' = [claims EXCEPT ![w] = NoClaim(n)]
    BY <1>2 DEF ClaimInMemory
  <2>2. owner \in Tokens
    BY <2>1, StoragesAssumption DEF Idle, OutboxInv, Tokens
  <2>3. claims'[w].n = n
    BY <2>1 DEF OutboxInv, NoClaim
  <2>4. call.op = "claim" /\ call.now = clock /\ call.by = owner
    BY <2>3 DEF Call
  <2>. HIDE DEF call, owner
  <2>5. ASSUME NEW m \in Msgs, m \in selected
        PROVE  C!HonoursPublishContract(ClaimsSafely, call, rows[m], rows'[m])
    <3>1. rows[m] \in K!Row /\ Claimable(rows[m], clock)
      BY <1>1, <2>5 DEF Selections
    <3>2. Offered(rows[m])
      BY <1>1, <3>1, ClaimableRows DEF Offered
    <3>3. rows'[m] = I!Claimed(rows[m], owner, clock + Lease)
      BY <2>1, <2>5
    <3>4. rows'[m].status = "processing" /\ rows'[m].owner = owner
      BY <1>1, <2>2, <3>1, <3>3, NewClaims
    <3>. QED
      BY <2>4, <3>2, <3>4, ClaimHonours
  <2>6. OutboxHonours(selected, call)
    BY <2>1, <2>5 DEF OutboxHonours
  <2>. QED
    BY <2>6 DEF call
<1>3. ASSUME ClaimUpdate(w)
      PROVE  OutboxHonours(DOMAIN claims[w].read, Call("claim", claims[w].owner, K!NoTime, TRUE))
  <2>. DEFINE claim == claims[w]
              S == DOMAIN claim.read
              call == Call("claim", claims[w].owner, K!NoTime, TRUE)
  <2>1. /\ claim.owner # NoOwner
        /\ rows' = [m \in Msgs |-> IF m \in S
                                   THEN Claimed(rows[m], claim.read[m], claim.owner, claim.until)
                                   ELSE rows[m]]
    BY <1>3 DEF ClaimUpdate
  <2>2. TokenInv(w) /\ claim.n \in 0 .. MaxClaims /\ (ClaimsSafely => ClaimInv(w))
    BY <2>1 DEF OutboxInv, StoragesInv, SafeInv
  <2>3. claim.owner \in Tokens /\ claim.until \in Nat
    BY <2>2, StoragesAssumption DEF TokenInv, Tokens
  <2>4. call.op = "claim" /\ call.now = clock /\ call.by = claim.owner
    BY DEF Call
  <2>5. ASSUME NEW m \in Msgs, m \in S
        PROVE  C!HonoursPublishContract(ClaimsSafely, call, rows[m], rows'[m])
    <3>1. /\ rows[m] \in K!Row /\ claim.read[m] \in K!Row
          /\ claim.read[m].owner # claim.owner
          /\ ClaimsSafely => claim.read[m] = rows[m] /\ Offered(rows[m])
      BY <1>1, <2>2, <2>5 DEF TokenInv, ClaimInv
    <3>2. rows'[m] = Claimed(rows[m], claim.read[m], claim.owner, claim.until)
      BY <2>1, <2>5
    <3>. HIDE DEF claim, call
    <3>3. rows'[m].owner = claim.owner
      BY <1>1, <2>3, <3>1, <3>2, ClaimedOver
    <3>4. ASSUME ClaimsSafely PROVE rows'[m].status = "processing"
      <4>1. rows'[m] = I!Claimed(rows[m], claim.owner, claim.until)
        BY <1>1, <2>3, <3>1, <3>2, <3>4, ClaimedRows
      <4>. QED
        BY <1>1, <2>3, <3>1, <4>1, NewClaims
    <3>. QED
      BY <2>4, <3>1, <3>3, <3>4, ClaimHonours
  <2>. HIDE DEF call, S
  <2>6. OutboxHonours(S, call)
    BY <2>1, <2>5 DEF OutboxHonours
  <2>. QED
    BY <2>6 DEF call, S
<1>. QED
  BY <1>2, <1>3

\* Every call on the outbox is as the contract asks.
LEMMA OutboxCalls == StoragesInv /\ OutboxInv => OutboxCallHonours
BY SavesHonour, ClaimsHonour, MarksHonour, RenewalsHonour, ReleasesHonour, RequeuesHonour
   DEF OutboxCallHonours

-----------------------------------------------------------------------------
\* Each call an adapter makes on a row of either table, on any of its databases,
\* leaves the row and gives the answer that the contract tests ask for: the
\* same of the five libraries, though they claim by FOR UPDATE, by a flush of
\* changed fields or in one step, and count failures in either order of
\* assignment.
THEOREM ContractKept == Spec => CallsHonourContract
<1>1. Spec => []StoragesInv
  BY InitInv, NextInv, PTL DEF Spec
<1>2. Spec => []InboxInv
  BY InboxInit, InboxNext, PTL DEF Spec
<1>3. Spec => []EntriesInv
  BY <1>2, EntriesInit, EntriesNext, PTL DEF Spec
<1>4. Spec => []OutboxInv
  BY OutboxInit, OutboxNext, PTL DEF Spec
<1>5. StoragesInv /\ OutboxInv /\ InboxInv /\ EntriesInv =>
         (IF part = "outbox" THEN OutboxCallHonours ELSE InboxCallHonours)
  BY OutboxCalls, InboxCalls
<1>. QED
  BY <1>1, <1>2, <1>3, <1>4, <1>5, PTL DEF Spec, CallsHonourContract

------------------------------------------------------------------------------
(* What the operators read                                                   *)

\* The order in which rows are listed.

NumberOrder == {pair \in Nat \X Nat : pair[1] < pair[2]}

\* Among any numbers one is the least: what stands in for induction here.
LEMMA LeastNumber ==
    ASSUME NEW N \in SUBSET Nat, N # {}
    PROVE  \E x \in N : \A y \in N : x <= y
<1>1. IsWellFoundedOn(NumberOrder, Nat)
  <2>1. OpToRel(<, Nat) = NumberOrder
    BY DEF OpToRel, NumberOrder
  <2>. QED
    BY <2>1, NatLessThanWellFounded
<1>2. PICK x \in N : \A y \in N : ~(<<y, x>> \in NumberOrder)
  BY <1>1, WFMin
<1>3. ASSUME NEW y \in N PROVE x <= y
  <2>1. x \in Nat /\ y \in Nat /\ <<y, x>> \in Nat \X Nat
    OBVIOUS
  <2>2. ~(y < x)
    BY <1>2, <2>1 DEF NumberOrder
  <2>. QED
    BY <2>1, <2>2
<1>. QED
  BY <1>3

\* Some row is the oldest.
LEMMA OldestRow ==
    ASSUME NEW S, S # {}, NEW born, \A r \in S : born[r] \in Nat
    PROVE  \E r \in S : \A q \in S : born[r] <= born[q]
<1>. DEFINE N == {born[r] : r \in S}
<1>1. N \in SUBSET Nat /\ N # {}
  OBVIOUS
<1>2. \E x \in N : \A y \in N : x <= y
  <2>. HIDE DEF N
  <2>. QED
    BY <1>1, LeastNumber
<1>. QED
  BY <1>2

\* The order in which the map in memory keeps its rows, whatever it is.
Kept(S) == CHOOSE s \in [1 .. Cardinality(S) -> S] : \A i, j \in DOMAIN s : i < j => s[i] # s[j]

\* s has each member of S once.
Lists(s, S) ==
    /\ s \in [1 .. Cardinality(S) -> S]
    /\ \A i, j \in 1 .. Cardinality(S) : i < j => s[i] # s[j]

Descends(s, S, born) ==
    Lists(s, S) /\ \A i, j \in 1 .. Cardinality(S) : i < j => born[s[i]] >= born[s[j]]

\* The orders an ORDER BY created_at DESC may give the rows.
Orders(S, born) == {s \in [1 .. Cardinality(S) -> S] : Descends(s, S, born)}

\* Any finite set of rows can be sorted.
LEMMA SortExists ==
    ASSUME NEW S, IsFiniteSet(S), NEW born, \A r \in S : born[r] \in Nat
    PROVE  \E s : Descends(s, S, born)
<1>. DEFINE Unsorted(R) == \A s : ~Descends(s, R, born)
            bad == {n \in Nat : \E R \in SUBSET S : Cardinality(R) = n /\ Unsorted(R)}
<1>1. SUFFICES ASSUME Unsorted(S) PROVE FALSE
  OBVIOUS
<1>2. bad \in SUBSET Nat /\ bad # {}
  <2>1. Cardinality(S) \in Nat
    BY FS_CardinalityType
  <2>2. S \in SUBSET S /\ Unsorted(S)
    BY <1>1
  <2>. HIDE DEF Unsorted
  <2>3. \E R \in SUBSET S : Cardinality(R) = Cardinality(S) /\ Unsorted(R)
    BY <2>2
  <2>4. Cardinality(S) \in bad
    BY <2>1, <2>3
  <2>5. bad \in SUBSET Nat
    OBVIOUS
  <2>. QED
    BY <2>4, <2>5
<1>3. PICK n \in bad : \A k \in bad : n <= k
  <2>. HIDE DEF bad
  <2>. QED
    BY <1>2, LeastNumber
<1>4. PICK R \in SUBSET S : Cardinality(R) = n /\ Unsorted(R)
  OBVIOUS
<1>5. IsFiniteSet(R) /\ n \in Nat
  BY FS_Subset
<1>6. R # {}
  <2>1. ASSUME R = {} PROVE Descends([i \in 1 .. 0 |-> i], R, born)
    <3>1. Cardinality(R) = 0 /\ 1 .. 0 = {}
      BY <2>1, FS_EmptySet
    <3>2. [i \in 1 .. 0 |-> i] \in [1 .. 0 -> R]
      BY <3>1
    <3>3. Lists([i \in 1 .. 0 |-> i], R)
      BY <3>1, <3>2 DEF Lists
    <3>. QED
      BY <3>1, <3>3 DEF Descends
  <2>. QED
    BY <1>4, <2>1
<1>7. PICK x \in R : \A q \in R : born[x] <= born[q]
  BY <1>6, OldestRow
<1>8. IsFiniteSet(R \ {x}) /\ Cardinality(R \ {x}) = n - 1 /\ n - 1 \in Nat
  <2>1. IsFiniteSet(R \ {x}) /\ Cardinality(R \ {x}) = Cardinality(R) - 1
    BY <1>5, FS_RemoveElement
  <2>2. Cardinality(R \ {x}) \in Nat
    BY <2>1, FS_CardinalityType
  <2>. QED
    BY <1>4, <2>1, <2>2
<1>9. ~Unsorted(R \ {x})
  <2>1. n - 1 \notin bad
    BY <1>3, <1>8
  <2>. QED
    BY <1>8, <2>1
<1>10. PICK s : Descends(s, R \ {x}, born)
  BY <1>9
<1>. DEFINE t == [i \in 1 .. n |-> IF i = n THEN x ELSE s[i]]
<1>11. /\ s \in [1 .. n - 1 -> R \ {x}]
       /\ \A i, j \in 1 .. n - 1 : i < j => s[i] # s[j] /\ born[s[i]] >= born[s[j]]
  BY <1>8, <1>10 DEF Descends, Lists
<1>12. t \in [1 .. n -> R]
  <2>1. \A i \in 1 .. n : i # n => i \in 1 .. n - 1
    BY <1>5
  <2>. QED
    BY <1>11, <2>1
<1>13. ASSUME NEW i \in 1 .. n, NEW j \in 1 .. n, i < j
       PROVE  t[i] # t[j] /\ born[t[i]] >= born[t[j]]
  <2>1. i \in 1 .. n - 1 /\ t[i] = s[i] /\ s[i] \in R \ {x}
    BY <1>5, <1>11, <1>13
  <2>2. CASE j = n
    <3>1. t[j] = x
      BY <2>2
    <3>2. born[s[i]] \in Nat /\ born[x] \in Nat /\ born[x] <= born[s[i]]
      BY <1>7, <2>1
    <3>. QED
      BY <2>1, <3>1, <3>2
  <2>3. CASE j # n
    <3>1. j \in 1 .. n - 1 /\ t[j] = s[j]
      BY <1>5, <2>3
    <3>. QED
      BY <1>11, <1>13, <2>1, <3>1
  <2>. QED
    BY <2>2, <2>3
<1>14. Descends(t, R, born)
  <2>. HIDE DEF t
  <2>. QED
    BY <1>4, <1>12, <1>13 DEF Descends, Lists
<1>. QED
  BY <1>4, <1>14

\* A sequence without repetition has as many members as places.
LEMMA ImageCount ==
    ASSUME NEW n \in Nat, NEW s, \A i, j \in 1 .. n : i < j => s[i] # s[j]
    PROVE  IsFiniteSet({s[i] : i \in 1 .. n}) /\ Cardinality({s[i] : i \in 1 .. n}) = n
<1>. DEFINE all == {s[i] : i \in 1 .. n}
            f == [i \in 1 .. n |-> s[i]]
<1>1. IsFiniteSet(1 .. n) /\ Cardinality(1 .. n) = n
  <2>1. IsFiniteSet(1 .. n) /\ Cardinality(1 .. n) = IF 1 > n THEN 0 ELSE n - 1 + 1
    BY FS_Interval
  <2>. QED
    BY <2>1
<1>2. f \in Bijection(1 .. n, all)
  <2>1. f \in [1 .. n -> all]
    OBVIOUS
  <2>2. \A i, j \in 1 .. n : f[i] = f[j] => i = j
    <3>1. \A i, j \in 1 .. n : i < j \/ j < i \/ i = j
      OBVIOUS
    <3>. QED
      BY <3>1
  <2>3. \A q \in all : \E i \in 1 .. n : f[i] = q
    OBVIOUS
  <2>. QED
    BY <2>1, <2>2, <2>3 DEF Bijection, Injection, Surjection, IsInjective
<1>3. ExistsBijection(1 .. n, all)
  BY <1>2 DEF ExistsBijection
<1>. HIDE DEF all
<1>. QED
  BY <1>1, <1>3, FS_Bijection DEF all

\* A sequence that lists a set has all of it.
LEMMA ListsAll ==
    ASSUME NEW S, IsFiniteSet(S), NEW s, Lists(s, S)
    PROVE  {s[i] : i \in 1 .. Cardinality(S)} = S
<1>. DEFINE n == Cardinality(S)
            all == {s[i] : i \in 1 .. n}
<1>1. n \in Nat /\ s \in [1 .. n -> S] /\ \A i, j \in 1 .. n : i < j => s[i] # s[j]
  BY FS_CardinalityType DEF Lists
<1>2. all \subseteq S
  BY <1>1
<1>3. IsFiniteSet(all) /\ Cardinality(all) = n
  <2>. HIDE DEF n
  <2>. QED
    BY <1>1, ImageCount
<1>. HIDE DEF all
<1>4. all = S
  BY <1>2, <1>3, FS_Subset
<1>. QED
  BY <1>4 DEF all

\* What the map keeps is all there is, and any finite set has its orders.
LEMMA KeptLists ==
    ASSUME NEW S, IsFiniteSet(S)
    PROVE  Lists(Kept(S), S)
<1>. DEFINE n == Cardinality(S)
<1>1. PICK s : Descends(s, S, [r \in S |-> 0])
  <2>1. \A r \in S : [q \in S |-> 0][r] \in Nat
    OBVIOUS
  <2>. QED
    BY <2>1, SortExists
<1>2. \E q \in [1 .. n -> S] : \A i, j \in DOMAIN q : i < j => q[i] # q[j]
  <2>1. s \in [1 .. n -> S] /\ \A i, j \in 1 .. n : i < j => s[i] # s[j]
    BY <1>1 DEF Descends, Lists
  <2>. QED
    BY <2>1
<1>3. /\ Kept(S) \in [1 .. n -> S]
      /\ \A i, j \in DOMAIN Kept(S) : i < j => Kept(S)[i] # Kept(S)[j]
  BY <1>2 DEF Kept
<1>. QED
  BY <1>3 DEF Lists

\* Whichever way rows of one date are ordered, no later date comes up ...
LEMMA NotNewer ==
    ASSUME NEW S, IsFiniteSet(S), NEW born, \A r \in S : born[r] \in Nat,
           NEW s, Descends(s, S, born), NEW q, Descends(q, S, born),
           NEW i \in 1 .. Cardinality(S)
    PROVE  born[s[i]] <= born[q[i]]
<1>. DEFINE n == Cardinality(S)
            R == {s[j] : j \in 1 .. i}
            Q == {q[j] : j \in 1 .. i - 1}
<1>1. n \in Nat
  BY FS_CardinalityType
<1>2. /\ s \in [1 .. n -> S] /\ q \in [1 .. n -> S]
      /\ \A a, b \in 1 .. n : a < b => s[a] # s[b] /\ q[a] # q[b]
      /\ \A a, b \in 1 .. n : a < b => born[s[a]] >= born[s[b]] /\ born[q[a]] >= born[q[b]]
  BY DEF Descends, Lists
<1>3. {q[j] : j \in 1 .. n} = S
  BY ListsAll DEF Descends
<1>. HIDE DEF n
<1>4. i \in 1 .. n
  BY DEF n
<1>5. \A a \in 1 .. n : born[s[a]] \in Nat /\ born[q[a]] \in Nat
  BY <1>2
<1>6. SUFFICES ASSUME born[s[i]] > born[q[i]] PROVE FALSE
  BY <1>4, <1>5
<1>7. R \subseteq Q
  <2>1. SUFFICES ASSUME NEW j \in 1 .. i PROVE s[j] \in Q
    OBVIOUS
  <2>2. j \in 1 .. n /\ born[s[j]] >= born[s[i]]
    BY <1>1, <1>2, <1>4, <1>5
  <2>3. PICK a \in 1 .. n : q[a] = s[j]
    BY <1>2, <1>3, <2>2
  <2>4. born[q[a]] > born[q[i]]
    BY <1>4, <1>5, <1>6, <2>2, <2>3
  <2>5. a < i
    <3>1. a > i => born[q[i]] >= born[q[a]]
      BY <1>2, <1>4
    <3>2. born[q[i]] \in Nat /\ born[q[a]] \in Nat
      BY <1>4, <1>5
    <3>. QED
      BY <1>1, <1>4, <2>4, <3>1, <3>2
  <2>6. a \in 1 .. i - 1
    BY <1>1, <1>4, <2>5
  <2>. QED
    BY <2>3, <2>6
<1>8. IsFiniteSet(R) /\ Cardinality(R) = i
  <2>1. i \in Nat /\ \A a \in 1 .. i : a \in 1 .. n
    BY <1>1, <1>4
  <2>2. \A a, b \in 1 .. i : a < b => s[a] # s[b]
    BY <1>2, <2>1
  <2>. HIDE DEF R
  <2>. QED
    BY <2>1, <2>2, ImageCount DEF R
<1>9. IsFiniteSet(Q) /\ Cardinality(Q) = i - 1
  <2>1. i - 1 \in Nat /\ \A a \in 1 .. i - 1 : a \in 1 .. n
    BY <1>1, <1>4
  <2>2. \A a, b \in 1 .. i - 1 : a < b => q[a] # q[b]
    BY <1>2, <2>1
  <2>. HIDE DEF Q
  <2>. QED
    BY <2>1, <2>2, ImageCount DEF Q
<1>. HIDE DEF R, Q
<1>10. Cardinality(R) <= Cardinality(Q)
  BY <1>7, <1>9, FS_Subset
<1>. QED
  BY <1>1, <1>4, <1>8, <1>9, <1>10

\* ... so that each place has one date.
LEMMA SameDates ==
    ASSUME NEW S, IsFiniteSet(S), NEW born, \A r \in S : born[r] \in Nat,
           NEW s, Descends(s, S, born), NEW q, Descends(q, S, born),
           NEW i \in 1 .. Cardinality(S)
    PROVE  born[s[i]] = born[q[i]]
<1>1. born[s[i]] <= born[q[i]] /\ born[q[i]] <= born[s[i]]
  BY NotNewer
<1>2. born[s[i]] \in Nat /\ born[q[i]] \in Nat
  BY DEF Descends, Lists
<1>. QED
  BY <1>1, <1>2

\* A page of one row, of all that were found.
PageOne(s, S, page) ==
    [items |-> SubSeq(s, page - 1 + 1, IF page - 1 + 1 < Cardinality(S) THEN page - 1 + 1
                                       ELSE Cardinality(S)),
     total |-> Cardinality(S)]

\* One page holds one row, and the one past the end none.
LEMMA OneRowPage ==
    ASSUME NEW S, IsFiniteSet(S), NEW s, Lists(s, S), NEW page \in Nat \ {0}
    PROVE  /\ PageOne(s, S, page).total = Cardinality(S)
           /\ page <= Cardinality(S) => /\ Len(PageOne(s, S, page).items) = 1
                                        /\ PageOne(s, S, page).items[1] = s[page]
           /\ page > Cardinality(S) => Len(PageOne(s, S, page).items) = 0
<1>. DEFINE n == Cardinality(S)
            last == IF page < n THEN page ELSE n
<1>1. n \in Nat /\ \A i \in 1 .. n : s[i] \in S
  BY FS_CardinalityType DEF Lists
<1>2. PageOne(s, S, page).items = SubSeq(s, page, last) /\ PageOne(s, S, page).total = n
  <2>1. page - 1 + 1 = page
    OBVIOUS
  <2>. QED
    BY <2>1 DEF PageOne
<1>. HIDE DEF n
<1>3. last \in Int /\ \A i \in page .. last : i \in 1 .. n
  BY <1>1
<1>4. /\ page <= n => last = page
      /\ page > n => last < page
  BY <1>1
<1>. HIDE DEF last
<1>5. /\ Len(SubSeq(s, page, last)) = IF page <= last THEN last - page + 1 ELSE 0
      /\ \A i \in 1 .. last - page + 1 : SubSeq(s, page, last)[i] = s[page + i - 1]
  <2>1. \A i \in page .. last : s[i] \in S
    BY <1>1, <1>3
  <2>2. page \in Int
    OBVIOUS
  <2>. QED
    BY <1>3, <2>1, <2>2, SubSeqProperties
<1>6. page <= n => Len(SubSeq(s, page, last)) = 1 /\ SubSeq(s, page, last)[1] = s[page]
  <2>. SUFFICES ASSUME page <= n
                PROVE  Len(SubSeq(s, page, last)) = 1 /\ SubSeq(s, page, last)[1] = s[page]
    OBVIOUS
  <2>1. last = page /\ 1 \in 1 .. last - page + 1 /\ page + 1 - 1 = page
    BY <1>4
  <2>. QED
    BY <1>5, <2>1
<1>7. page > n => Len(SubSeq(s, page, last)) = 0
  BY <1>3, <1>4, <1>5
<1>. QED
  BY <1>2, <1>6, <1>7 DEF n

\* What pages of one row, enough of them, show: the first place of each of the
\* first Cardinality(S) pages, whichever order o[p] gives S on page p.
LEMMA ShownPlaces ==
    ASSUME NEW S, IsFiniteSet(S), NEW k \in Nat, Cardinality(S) <= k,
           NEW o, \A p \in 1 .. k : Lists(o[p], S),
           NEW pages, DOMAIN pages = 1 .. k, \A p \in 1 .. k : pages[p] = PageOne(o[p], S, p)
    PROVE  /\ \A p \in 1 .. k : pages[p].total = Cardinality(S)
           /\ \A i \in 1 .. Cardinality(S) : /\ i \in 1 .. k /\ o[i][i] \in S
                                             /\ pages[i].items[1] = o[i][i]
           /\ {at \in (DOMAIN pages) \X (1 .. Cardinality(S) + 1) :
                  at[2] <= Len(pages[at[1]].items)} = {<<i, 1>> : i \in 1 .. Cardinality(S)}
<1>. DEFINE n == Cardinality(S)
            shown == {at \in (DOMAIN pages) \X (1 .. n + 1) : at[2] <= Len(pages[at[1]].items)}
            firsts == {<<i, 1>> : i \in 1 .. n}
<1>1. n \in Nat /\ n <= k
  BY FS_CardinalityType
<1>2. \A page \in 1 .. k :
            /\ pages[page].total = n
            /\ page <= n => Len(pages[page].items) = 1 /\ pages[page].items[1] = o[page][page]
            /\ page > n => Len(pages[page].items) = 0
  <2>1. \A page \in 1 .. k : page \in Nat \ {0}
    OBVIOUS
  <2>. QED
    BY <2>1, OneRowPage
<1>3. \A i \in 1 .. n : i \in 1 .. k /\ o[i][i] \in S
  <2>1. \A i \in 1 .. n : i \in 1 .. k
    BY <1>1
  <2>. QED
    BY <2>1 DEF Lists
<1>. HIDE DEF n
<1>4. shown = firsts
  <2>1. ASSUME NEW at \in shown PROVE at \in firsts
    <3>0. at \in (1 .. k) \X (1 .. n + 1) /\ at[2] <= Len(pages[at[1]].items)
      OBVIOUS
    <3>1. /\ at[1] \in 1 .. k /\ at[2] \in 1 .. n + 1 /\ at = <<at[1], at[2]>>
          /\ at[2] <= Len(pages[at[1]].items)
      BY <3>0
    <3>2. at[1] <= n /\ at[2] = 1
      <4>1. at[1] \in Nat /\ at[2] \in Nat /\ at[2] >= 1
        BY <1>1, <3>1
      <4>2. CASE at[1] > n
        <5>1. Len(pages[at[1]].items) = 0
          BY <1>2, <3>1, <4>2
        <5>. QED
          BY <3>1, <4>1, <5>1
      <4>3. CASE at[1] <= n
        <5>1. Len(pages[at[1]].items) = 1
          BY <1>2, <3>1, <4>3
        <5>. QED
          BY <3>1, <4>1, <4>3, <5>1
      <4>. QED
        BY <1>1, <4>1, <4>2, <4>3
    <3>3. at[1] \in 1 .. n /\ at = <<at[1], 1>>
      BY <1>1, <3>1, <3>2
    <3>. QED
      BY <3>3
  <2>2. ASSUME NEW i \in 1 .. n PROVE <<i, 1>> \in shown
    <3>1. i \in 1 .. k /\ 1 \in 1 .. n + 1 /\ i <= n
      BY <1>1
    <3>. QED
      BY <1>2, <3>1
  <2>. HIDE DEF shown
  <2>. QED
    BY <2>1, <2>2
<1>5. \A i \in 1 .. n : i \in 1 .. k /\ i <= n
  BY <1>1
<1>. QED
  BY <1>2, <1>3, <1>4, <1>5 DEF n

\* In one order, they show all that was found.
LEMMA PagesShowAll ==
    ASSUME NEW S, IsFiniteSet(S), NEW s, Lists(s, S), NEW k \in Nat, Cardinality(S) <= k,
           NEW pages, DOMAIN pages = 1 .. k, \A p \in 1 .. k : pages[p] = PageOne(s, S, p)
    PROVE  C!HonoursListing(pages, S)
<1>. DEFINE n == Cardinality(S)
            shown == {at \in (DOMAIN pages) \X (1 .. n + 1) : at[2] <= Len(pages[at[1]].items)}
            firsts == {<<i, 1>> : i \in 1 .. n}
            o == [p \in 1 .. k |-> s]
<1>1. n \in Nat
  BY FS_CardinalityType
<1>2. /\ \A p \in DOMAIN pages : pages[p].total = n
      /\ \A i \in 1 .. n : i \in 1 .. k /\ pages[i].items[1] = o[i][i]
      /\ shown = firsts
  <2>1. \A p \in 1 .. k : Lists(o[p], S) /\ pages[p] = PageOne(o[p], S, p)
    OBVIOUS
  <2>. HIDE DEF o
  <2>. QED
    BY <2>1, ShownPlaces
<1>3. \A i \in 1 .. n : i \in 1 .. k /\ pages[i].items[1] = s[i]
  BY <1>2
<1>. HIDE DEF n, shown, o
<1>4. {pages[at[1]].items[at[2]] : at \in shown} = S
  <2>1. {s[i] : i \in 1 .. n} = S
    BY ListsAll DEF n
  <2>2. {pages[at[1]].items[at[2]] : at \in firsts} = {s[i] : i \in 1 .. n}
    <3>1. ASSUME NEW at \in firsts PROVE pages[at[1]].items[at[2]] \in {s[i] : i \in 1 .. n}
      BY <1>3
    <3>2. ASSUME NEW i \in 1 .. n
          PROVE  s[i] \in {pages[at[1]].items[at[2]] : at \in firsts}
      <4>1. <<i, 1>> \in firsts /\ <<i, 1>>[1] = i /\ <<i, 1>>[2] = 1
        OBVIOUS
      <4>. HIDE DEF firsts
      <4>. QED
        BY <1>3, <4>1
    <3>. HIDE DEF firsts
    <3>. QED
      BY <3>1, <3>2
  <2>. QED
    BY <1>2, <2>1, <2>2
<1>5. Cardinality(shown) = n
  <2>. DEFINE f == [i \in 1 .. n |-> <<i, 1>>]
  <2>1. \A i, j \in 1 .. n : i < j => f[i] # f[j]
    OBVIOUS
  <2>2. firsts = {f[i] : i \in 1 .. n}
    OBVIOUS
  <2>. HIDE DEF f, firsts
  <2>3. Cardinality({f[i] : i \in 1 .. n}) = n
    BY <1>1, <2>1, ImageCount
  <2>. QED
    BY <1>2, <2>2, <2>3
<1>6. C!Cardinality(S) = n
  BY DEF C!Cardinality, Cardinality, n
<1>7. {at \in (DOMAIN pages) \X (1 .. n + 1) : at[2] <= C!Len(pages[at[1]].items)} = shown
  BY DEF shown
<1>8. C!Cardinality(shown) = n
  BY <1>5 DEF C!Cardinality, Cardinality
<1>. QED
  BY <1>2, <1>4, <1>6, <1>7, <1>8 DEF C!HonoursListing

\* In orders that differ from page to page and agree on the dates, they show each
\* date as often as there are rows of it.
LEMMA PagesShowDates ==
    ASSUME NEW S, IsFiniteSet(S), NEW k \in Nat, Cardinality(S) <= k,
           NEW born, NEW ref, Lists(ref, S),
           NEW pages, DOMAIN pages = 1 .. k,
           \A p \in 1 .. k : \E s : /\ Lists(s, S) /\ pages[p] = PageOne(s, S, p)
                                   /\ \A i \in 1 .. Cardinality(S) : born[s[i]] = born[ref[i]]
    PROVE  C!HonoursDates(pages, S, born)
<1>. DEFINE o == [p \in 1 .. k |->
                   CHOOSE s : /\ Lists(s, S) /\ pages[p] = PageOne(s, S, p)
                              /\ \A i \in 1 .. Cardinality(S) : born[s[i]] = born[ref[i]]]
<1>0. \A p \in 1 .. k : /\ Lists(o[p], S) /\ pages[p] = PageOne(o[p], S, p)
                       /\ \A i \in 1 .. Cardinality(S) : born[o[p][i]] = born[ref[i]]
  OBVIOUS
<1>. HIDE DEF o
<1>. DEFINE n == Cardinality(S)
            shown == {at \in (DOMAIN pages) \X (1 .. n + 1) : at[2] <= Len(pages[at[1]].items)}
            firsts == {<<i, 1>> : i \in 1 .. n}
            row(at) == pages[at[1]].items[at[2]]
<1>1. n \in Nat /\ \A i \in 1 .. n : ref[i] \in S
  BY FS_CardinalityType DEF Lists
<1>2. /\ \A p \in DOMAIN pages : pages[p].total = n
      /\ \A i \in 1 .. n : i \in 1 .. k /\ o[i][i] \in S /\ pages[i].items[1] = o[i][i]
      /\ shown = firsts
  BY <1>0, ShownPlaces
<1>3. \A i \in 1 .. n : /\ row(<<i, 1>>) \in S
                        /\ born[row(<<i, 1>>)] = born[ref[i]]
  BY <1>0, <1>2
<1>4. {ref[i] : i \in 1 .. n} = S /\ \A i, j \in 1 .. n : i < j => ref[i] # ref[j]
  <2>1. {ref[i] : i \in 1 .. n} = S
    BY ListsAll
  <2>2. \A i, j \in 1 .. n : i < j => ref[i] # ref[j]
    BY DEF Lists
  <2>. QED
    BY <2>1, <2>2
<1>5. IsFiniteSet(1 .. n)
  BY <1>1, FS_Interval
<1>. HIDE DEF n, shown
<1>6. \A at \in shown : row(at) \in S
  BY <1>2, <1>3
<1>7. ASSUME NEW r \in S
      PROVE  Cardinality({at \in shown : born[row(at)] = born[r]})
               = Cardinality({q \in S : born[q] = born[r]})
  <2>. DEFINE places == {i \in 1 .. n : born[ref[i]] = born[r]}
              ats == {at \in shown : born[row(at)] = born[r]}
              dated == {q \in S : born[q] = born[r]}
              f == [i \in places |-> <<i, 1>>]
              g == [i \in places |-> ref[i]]
  <2>1. IsFiniteSet(places)
    <3>1. places \in SUBSET (1 .. n)
      OBVIOUS
    <3>. HIDE DEF places
    <3>. QED
      BY <1>5, <3>1, FS_Subset
  <2>2. f \in Bijection(places, ats)
    <3>1. \A i \in places : <<i, 1>> \in ats
      <4>1. ASSUME NEW i \in places PROVE <<i, 1>> \in ats
        <5>1. i \in 1 .. n /\ born[ref[i]] = born[r]
          OBVIOUS
        <5>2. <<i, 1>> \in shown
          BY <1>2, <5>1
        <5>. HIDE DEF row
        <5>3. born[row(<<i, 1>>)] = born[r]
          BY <1>3, <5>1
        <5>. QED
          BY <5>2, <5>3
      <4>. QED
        BY <4>1
    <3>2. \A at \in ats : \E i \in places : <<i, 1>> = at
      <4>1. ASSUME NEW at \in ats PROVE \E i \in places : <<i, 1>> = at
        <5>1. at \in shown /\ born[row(at)] = born[r]
          OBVIOUS
        <5>2. PICK i \in 1 .. n : at = <<i, 1>>
          BY <1>2, <5>1
        <5>. HIDE DEF row
        <5>3. i \in places
          BY <1>3, <5>1, <5>2
        <5>. QED
          BY <5>2, <5>3
      <4>. QED
        BY <4>1
    <3>3. \A i, j \in places : <<i, 1>> = <<j, 1>> => i = j
      OBVIOUS
    <3>. HIDE DEF places, ats
    <3>. QED
      BY <3>1, <3>2, <3>3 DEF Bijection, Injection, Surjection, IsInjective
  <2>3. g \in Bijection(places, dated)
    <3>1. \A i \in places : ref[i] \in dated
      BY <1>1
    <3>2. \A q \in dated : \E i \in places : ref[i] = q
      BY <1>4
    <3>3. \A i, j \in places : ref[i] = ref[j] => i = j
      <4>1. \A i, j \in 1 .. n : i < j \/ j < i \/ i = j
        BY <1>1
      <4>. QED
        BY <1>4, <4>1
    <3>. HIDE DEF places, dated
    <3>. QED
      BY <3>1, <3>2, <3>3 DEF Bijection, Injection, Surjection, IsInjective
  <2>4. ExistsBijection(places, ats) /\ ExistsBijection(places, dated)
    BY <2>2, <2>3 DEF ExistsBijection
  <2>. HIDE DEF places, ats, dated
  <2>5. Cardinality(ats) = Cardinality(places) /\ Cardinality(dated) = Cardinality(places)
    BY <2>1, <2>4, FS_Bijection
  <2>. QED
    BY <2>5 DEF ats, dated
<1>8. C!Cardinality(S) = n
  BY DEF C!Cardinality, Cardinality, n
<1>9. {at \in (DOMAIN pages) \X (1 .. n + 1) : at[2] <= C!Len(pages[at[1]].items)} = shown
  BY DEF shown
<1>10. \A A : C!Cardinality(A) = Cardinality(A)
  BY DEF C!Cardinality, Cardinality
<1>. QED
  BY <1>2, <1>6, <1>7, <1>8, <1>9, <1>10 DEF C!HonoursDates

\* A listing whose pages may each be in any of these orders.
LEMMA OrdersBrowse ==
    ASSUME NEW found, IsFiniteSet(found), NEW S \in SUBSET found, NEW born, NEW orders,
           orders # {}, \A s \in orders : Lists(s, S),
           \A s, q \in orders, i \in 1 .. Cardinality(S) : born[s[i]] = born[q[i]],
           OrderIsFixed(S, born) => \A s, q \in orders : s = q,
           NEW answers, DOMAIN answers = Pages(found),
           \A p \in Pages(found) : answers[p] = {PageOne(s, S, p) : s \in orders}
    PROVE  BrowsingHonours(answers, S, born)
<1>. DEFINE k == Cardinality(found) + 1
<1>1. IsFiniteSet(S) /\ Cardinality(S) <= Cardinality(found)
  BY FS_Subset
<1>2. Cardinality(S) \in Nat /\ Cardinality(found) \in Nat
  BY <1>1, FS_CardinalityType
<1>3. k \in Nat /\ Cardinality(S) <= k
  BY <1>1, <1>2
<1>4. Pages(found) = 1 .. k
  BY DEF Pages
<1>. HIDE DEF k
<1>5. PICK ref \in orders : TRUE
  OBVIOUS
<1>6. \A p \in DOMAIN answers : answers[p] # {}
  BY <1>5
<1>7. ASSUME NEW pages, DOMAIN pages = 1 .. k, \A p \in 1 .. k : pages[p] \in answers[p]
      PROVE  /\ C!HonoursDates(pages, S, born)
             /\ OrderIsFixed(S, born) => C!HonoursListing(pages, S)
  <2>. DEFINE o == [p \in 1 .. k |-> CHOOSE s \in orders : pages[p] = PageOne(s, S, p)]
  <2>1. \A p \in 1 .. k : o[p] \in orders /\ pages[p] = PageOne(o[p], S, p)
    <3>1. \A p \in 1 .. k : \E s \in orders : pages[p] = PageOne(s, S, p)
      BY <1>4, <1>7
    <3>. QED
      BY <3>1
  <2>. HIDE DEF o
  <2>2. C!HonoursDates(pages, S, born)
    <3>1. \A p \in 1 .. k : /\ Lists(o[p], S) /\ pages[p] = PageOne(o[p], S, p)
                           /\ \A i \in 1 .. Cardinality(S) : born[o[p][i]] = born[ref[i]]
      BY <1>5, <2>1
    <3>2. \A p \in 1 .. k : \E s : /\ Lists(s, S) /\ pages[p] = PageOne(s, S, p)
                                   /\ \A i \in 1 .. Cardinality(S) : born[s[i]] = born[ref[i]]
      BY <3>1
    <3>3. Lists(ref, S)
      BY <1>5
    <3>4. IsFiniteSet(S) /\ k \in Nat /\ Cardinality(S) <= k /\ DOMAIN pages = 1 .. k
      BY <1>1, <1>3, <1>7
    <3>. QED
      BY <3>2, <3>3, <3>4, PagesShowDates
  <2>3. ASSUME OrderIsFixed(S, born) PROVE C!HonoursListing(pages, S)
    <3>1. \A p \in 1 .. k : pages[p] = PageOne(ref, S, p)
      BY <1>5, <2>1, <2>3
    <3>2. Lists(ref, S)
      BY <1>5
    <3>. QED
      BY <1>1, <1>3, <1>7, <3>1, <3>2, PagesShowAll
  <2>. QED
    BY <2>2, <2>3
<1>. QED
  BY <1>4, <1>6, <1>7 DEF BrowsingHonours

\* The adapters' queries and the in-memory slice give such pages.
LEMMA SamePages ==
    ASSUME NEW found, NEW born, NEW page \in Nat \ {0}
    PROVE  /\ T!Page(found, born, 1, (page - 1) * 1) = {PageOne(s, found, page) : s \in Orders(found, born)}
           /\ P!Page(found, born, 1, (page - 1) * 1) = {PageOne(s, found, page) : s \in Orders(found, born)}
           /\ M!Page(found, born, 1, (page - 1) * 1) = {PageOne(s, found, page) : s \in Orders(found, born)}
           /\ I!Slice(found, 1, (page - 1) * 1) = {PageOne(s, found, page) : s \in {Kept(found)}}
<1>1. (page - 1) * 1 = page - 1
  OBVIOUS
<1>. DEFINE n == Cardinality(found)
            Ordered(s) == \A i, j \in DOMAIN s : i < j => s[i] # s[j] /\ born[s[i]] >= born[s[j]]
<1>2. Orders(found, born) = {s \in [1 .. n -> found] : Ordered(s)}
  BY DEF Orders, Descends, Lists
<1>3. T!Page(found, born, 1, page - 1) = {PageOne(s, found, page) : s \in Orders(found, born)}
  BY <1>2 DEF T!Page, T!Sorted, T!Cardinality, PageOne, Cardinality
<1>4. P!Page(found, born, 1, page - 1) = {PageOne(s, found, page) : s \in Orders(found, born)}
  BY <1>2 DEF P!Page, P!Sorted, P!Cardinality, PageOne, Cardinality
<1>5. M!Page(found, born, 1, page - 1) = {PageOne(s, found, page) : s \in Orders(found, born)}
  BY <1>2 DEF M!Page, M!Sorted, M!Cardinality, PageOne, Cardinality
<1>6. I!Slice(found, 1, page - 1) = {PageOne(s, found, page) : s \in {Kept(found)}}
  <2>1. I!Slice(found, 1, page - 1) = {PageOne(Kept(found), found, page)}
    BY DEF I!Slice, I!Cardinality, PageOne, Kept, Cardinality
  <2>. QED
    BY <2>1
<1>. QED
  BY <1>1, <1>3, <1>4, <1>5, <1>6

\* So a listing by date, whatever the WHERE clause has found,
LEMMA SqlBrowses ==
    ASSUME ~InMemory, NEW found, IsFiniteSet(found), NEW S \in SUBSET found, NEW born,
           \A r \in found : born[r] \in Nat,
           NEW answers, DOMAIN answers = Pages(found),
           \A p \in Pages(found) : answers[p] = {PageOne(s, S, p) : s \in Orders(S, born)}
    PROVE  BrowsingHonours(answers, S, born)
<1>1. IsFiniteSet(S) /\ \A r \in S : born[r] \in Nat
  BY FS_Subset
<1>2. \A s \in Orders(S, born) : Descends(s, S, born) /\ Lists(s, S)
  BY DEF Orders, Descends
<1>3. Orders(S, born) # {}
  <2>1. PICK s : Descends(s, S, born)
    BY <1>1, SortExists
  <2>. QED
    BY <2>1 DEF Orders, Descends, Lists
<1>4. \A s, q \in Orders(S, born), i \in 1 .. Cardinality(S) : born[s[i]] = born[q[i]]
  BY <1>1, <1>2, SameDates
<1>5. ASSUME OrderIsFixed(S, born), NEW s \in Orders(S, born), NEW q \in Orders(S, born)
      PROVE  s = q
  <2>1. s \in [1 .. Cardinality(S) -> S] /\ q \in [1 .. Cardinality(S) -> S]
    BY DEF Orders
  <2>2. \A a, b \in S : born[a] = born[b] => a = b
    BY <1>5 DEF OrderIsFixed
  <2>3. ASSUME NEW i \in 1 .. Cardinality(S) PROVE s[i] = q[i]
    <3>1. born[s[i]] = born[q[i]]
      BY <1>4
    <3>2. s[i] \in S /\ q[i] \in S
      BY <2>1
    <3>. QED
      BY <2>2, <3>1, <3>2
  <2>. DEFINE places == 1 .. Cardinality(S)
  <2>4. s \in [places -> S] /\ q \in [places -> S] /\ \A i \in places : s[i] = q[i]
    BY <2>1, <2>3
  <2>. HIDE DEF places
  <2>. QED
    BY <2>4
<1>. HIDE DEF Orders
<1>. QED
  BY <1>2, <1>3, <1>4, <1>5, OrdersBrowse

\* ... and one of the map.
LEMMA MapBrowses ==
    ASSUME NEW found, IsFiniteSet(found), NEW S \in SUBSET found, NEW born,
           NEW answers, DOMAIN answers = Pages(found),
           \A p \in Pages(found) : answers[p] = {PageOne(s, S, p) : s \in {Kept(S)}}
    PROVE  BrowsingHonours(answers, S, born)
<1>1. IsFiniteSet(S)
  BY FS_Subset
<1>2. Lists(Kept(S), S)
  BY <1>1, KeptLists
<1>. DEFINE orders == {Kept(S)}
<1>3. /\ orders # {} /\ \A s \in orders : Lists(s, S)
      /\ \A s, q \in orders : s = q
      /\ \A p \in Pages(found) : answers[p] = {PageOne(s, S, p) : s \in orders}
  BY <1>2
<1>. HIDE DEF orders
<1>4. \A s, q \in orders, i \in 1 .. Cardinality(S) : born[s[i]] = born[q[i]]
  BY <1>3
<1>. QED
  BY <1>3, <1>4, OrdersBrowse

\* What is listed of the outbox, in every library, is what it would claim.
LEMMA OutboxPages ==
    ASSUME site \in Sites, NEW found, IsFiniteSet(found), NEW table, NEW born,
           \A r \in found : born[r] \in Nat, NEW only \in BOOLEAN
    PROVE  BrowsingHonours(
              [page \in Pages(found) |-> Listing(TRUE, table, found, born, only, page, 1)],
              {r \in found : only => Claimable(table[r], clock)}, born)
<1>. DEFINE S == {r \in found : only => Claimable(table[r], clock)}
            asked(page) == Listing(TRUE, table, found, born, only, page, 1)
            answers == [page \in Pages(found) |-> asked(page)]
<1>0. SUFFICES BrowsingHonours(answers, S, born)
  OBVIOUS
<1>1. site[1] \in Libraries
  BY StoragesAssumption
<1>2. \A page \in Pages(found) : page \in Nat \ {0}
  BY FS_CardinalityType DEF Pages
<1>3. S \in SUBSET found /\ DOMAIN answers = Pages(found)
      /\ \A page \in Pages(found) : answers[page] = asked(page)
  OBVIOUS
<1>4. CASE site[1] = "knex"
  <2>1. S = {r \in found : only => K!Claimable(table[r], clock)}
    BY <1>4 DEF Claimable, ByLibrary
  <2>2. \A page : asked(page) = T!Page(S, born, 1, (page - 1) * 1)
    BY <1>4, <2>1 DEF Listing, ByLibrary, KnexListPublish
  <2>. HIDE DEF S, asked, answers
  <2>3. \A page \in Pages(found) : answers[page] = {PageOne(s, S, page) : s \in Orders(S, born)}
    BY <1>2, <1>3, <2>2, SamePages
  <2>. QED
    BY <1>3, <1>4, <2>3, SqlBrowses DEF InMemory
<1>5. CASE site[1] = "typeorm"
  <2>1. S = {r \in found : only => T!Claimable(table[r], clock)}
    BY <1>5 DEF Claimable, ByLibrary
  <2>2. \A page : asked(page) = T!Page(S, born, 1, (page - 1) * 1)
    BY <1>5, <2>1 DEF Listing, ByLibrary, T!listPublish
  <2>. HIDE DEF S, asked, answers
  <2>3. \A page \in Pages(found) : answers[page] = {PageOne(s, S, page) : s \in Orders(S, born)}
    BY <1>2, <1>3, <2>2, SamePages
  <2>. QED
    BY <1>3, <1>5, <2>3, SqlBrowses DEF InMemory
<1>6. CASE site[1] = "prisma"
  <2>1. S = {r \in found : only => P!Claimable(table[r], clock)}
    BY <1>6 DEF Claimable, ByLibrary
  <2>2. \A page : asked(page) = P!Page(S, born, 1, (page - 1) * 1)
    BY <1>6, <2>1 DEF Listing, ByLibrary, P!listPublish
  <2>. HIDE DEF S, asked, answers
  <2>3. \A page \in Pages(found) : answers[page] = {PageOne(s, S, page) : s \in Orders(S, born)}
    BY <1>2, <1>3, <2>2, SamePages
  <2>. QED
    BY <1>3, <1>6, <2>3, SqlBrowses DEF InMemory
<1>7. CASE site[1] = "mikro"
  <2>1. S = {r \in found : only => M!Claimable(table[r], clock)}
    BY <1>7 DEF Claimable, ByLibrary
  <2>2. \A page : asked(page) = M!Page(S, born, 1, (page - 1) * 1)
    BY <1>7, <2>1 DEF Listing, ByLibrary, M!listPublish
  <2>. HIDE DEF S, asked, answers
  <2>3. \A page \in Pages(found) : answers[page] = {PageOne(s, S, page) : s \in Orders(S, born)}
    BY <1>2, <1>3, <2>2, SamePages
  <2>. QED
    BY <1>3, <1>7, <2>3, SqlBrowses DEF InMemory
<1>8. CASE site[1] = "memory"
  <2>1. S = {r \in found : only => I!Claimable(table[r], clock)}
    BY <1>8 DEF Claimable, ByLibrary
  <2>2. \A page : asked(page) = I!Slice(S, 1, (page - 1) * 1)
    BY <1>8, <2>1 DEF Listing, ByLibrary, I!listPublish
  <2>. HIDE DEF S, asked, answers
  <2>3. \A page \in Pages(found) : answers[page] = {PageOne(s, S, page) : s \in {Kept(S)}}
    BY <1>2, <1>3, <2>2, SamePages
  <2>. QED
    BY <1>3, <1>8, <2>3, MapBrowses DEF InMemory
<1>. QED
  BY <1>1, <1>4, <1>5, <1>6, <1>7, <1>8 DEF Libraries

\* What is listed of the inbox as due are the failed rows whose time has come.
LEMMA InboxPages ==
    ASSUME site \in Sites, NEW found, IsFiniteSet(found), NEW table, NEW born,
           \A r \in found : born[r] \in Nat, NEW only \in BOOLEAN
    PROVE  BrowsingHonours(
              [page \in Pages(found) |-> Listing(FALSE, table, found, born, only, page, 1)],
              {r \in found : only => table[r].status = "failed" /\ table[r].due # K!NoTime /\ table[r].due <= clock}, born)
<1>. DEFINE S == {r \in found : only => table[r].status = "failed" /\ table[r].due # K!NoTime /\ table[r].due <= clock}
            asked(page) == Listing(FALSE, table, found, born, only, page, 1)
            answers == [page \in Pages(found) |-> asked(page)]
<1>0. SUFFICES BrowsingHonours(answers, S, born)
  OBVIOUS
<1>1. site[1] \in Libraries
  BY StoragesAssumption
<1>2. \A page \in Pages(found) : page \in Nat \ {0}
  BY FS_CardinalityType DEF Pages
<1>3. S \in SUBSET found /\ DOMAIN answers = Pages(found)
      /\ \A page \in Pages(found) : answers[page] = asked(page)
  OBVIOUS
<1>4. CASE site[1] = "knex"
  <2>1. S = {r \in found : only => table[r].status = "failed" /\ T!NotAfter(table[r].due, clock)}
    BY DEF T!NotAfter, T!NoTime, K!NoTime
  <2>2. \A page : asked(page) = T!Page(S, born, 1, (page - 1) * 1)
    BY <1>4, <2>1 DEF Listing, ByLibrary, KnexListReceived
  <2>. HIDE DEF S, asked, answers
  <2>3. \A page \in Pages(found) : answers[page] = {PageOne(s, S, page) : s \in Orders(S, born)}
    BY <1>2, <1>3, <2>2, SamePages
  <2>. QED
    BY <1>3, <1>4, <2>3, SqlBrowses DEF InMemory
<1>5. CASE site[1] = "typeorm"
  <2>1. S = {r \in found : only => table[r].status = "failed" /\ T!NotAfter(table[r].due, clock)}
    BY DEF T!NotAfter, T!NoTime, K!NoTime
  <2>2. \A page : asked(page) = T!Page(S, born, 1, (page - 1) * 1)
    BY <1>5, <2>1 DEF Listing, ByLibrary, T!listReceived
  <2>. HIDE DEF S, asked, answers
  <2>3. \A page \in Pages(found) : answers[page] = {PageOne(s, S, page) : s \in Orders(S, born)}
    BY <1>2, <1>3, <2>2, SamePages
  <2>. QED
    BY <1>3, <1>5, <2>3, SqlBrowses DEF InMemory
<1>6. CASE site[1] = "prisma"
  <2>1. S = {r \in found : only => table[r].status = "failed" /\ P!NotAfter(table[r].due, clock)}
    BY DEF P!NotAfter, P!NoTime, K!NoTime
  <2>2. \A page : asked(page) = P!Page(S, born, 1, (page - 1) * 1)
    BY <1>6, <2>1 DEF Listing, ByLibrary, P!listReceived
  <2>. HIDE DEF S, asked, answers
  <2>3. \A page \in Pages(found) : answers[page] = {PageOne(s, S, page) : s \in Orders(S, born)}
    BY <1>2, <1>3, <2>2, SamePages
  <2>. QED
    BY <1>3, <1>6, <2>3, SqlBrowses DEF InMemory
<1>7. CASE site[1] = "mikro"
  <2>1. S = {r \in found : only => table[r].status = "failed" /\ M!NotAfter(table[r].due, clock)}
    BY DEF M!NotAfter, M!NoTime, K!NoTime
  <2>2. \A page : asked(page) = M!Page(S, born, 1, (page - 1) * 1)
    BY <1>7, <2>1 DEF Listing, ByLibrary, M!listReceived
  <2>. HIDE DEF S, asked, answers
  <2>3. \A page \in Pages(found) : answers[page] = {PageOne(s, S, page) : s \in Orders(S, born)}
    BY <1>2, <1>3, <2>2, SamePages
  <2>. QED
    BY <1>3, <1>7, <2>3, SqlBrowses DEF InMemory
<1>8. CASE site[1] = "memory"
  <2>1. S = {r \in found : only => /\ table[r].status = "failed" /\ table[r].due # I!NoTime /\ table[r].due <= clock}
    BY DEF I!NoTime, K!NoTime
  <2>2. \A page : asked(page) = I!Slice(S, 1, (page - 1) * 1)
    BY <1>8, <2>1 DEF Listing, ByLibrary, I!listReceived
  <2>. HIDE DEF S, asked, answers
  <2>3. \A page \in Pages(found) : answers[page] = {PageOne(s, S, page) : s \in {Kept(S)}}
    BY <1>2, <1>3, <2>2, SamePages
  <2>. QED
    BY <1>3, <1>8, <2>3, MapBrowses DEF InMemory
<1>. QED
  BY <1>1, <1>4, <1>5, <1>6, <1>7, <1>8 DEF Libraries

\* What can be claimed, in every library.
Stale(row, t) ==
    \/ row.status = "pending"
    \/ row.status = "failed" /\ row.due <= t
    \/ row.status = "processing" /\ row.until \in 0 .. t

\* ... is what every library's WHERE clause finds.
LEMMA ClaimableExactly ==
    ASSUME site \in Sites, NEW row \in K!Row, NEW t \in Nat
    PROVE  Claimable(row, t) <=> Stale(row, t)
<1>1. site[1] \in Libraries
  BY StoragesAssumption
<1>2. /\ row.due \in Nat \/ row.due = -1
      /\ row.until \in Nat \/ row.until = -1
  BY DEF K!Row, K!Time, K!NoTime
<1>3. /\ row.until \in 0 .. t <=> row.until # -1 /\ row.until <= t
      /\ row.due = -1 => row.due <= t
  BY <1>2
<1>4. CASE site[1] = "knex"
  BY <1>3, <1>4 DEF Stale, Claimable, ByLibrary, K!Claimable, K!Expired, K!NoTime
<1>5. CASE site[1] = "typeorm"
  BY <1>3, <1>5 DEF Stale, Claimable, ByLibrary, T!Claimable, T!NotAfter, T!NoTime
<1>6. CASE site[1] = "prisma"
  BY <1>3, <1>6 DEF Stale, Claimable, ByLibrary, P!Claimable, P!NotAfter, P!NoTime
<1>7. CASE site[1] = "mikro"
  BY <1>3, <1>7 DEF Stale, Claimable, ByLibrary, M!Claimable, M!NotAfter, M!NoTime
<1>8. CASE site[1] = "memory"
  BY <1>3, <1>8 DEF Stale, Claimable, ByLibrary, I!Claimable, I!NoTime
<1>. QED
  BY <1>1, <1>4, <1>5, <1>6, <1>7, <1>8 DEF Libraries

\* Every listing of the outbox and of the inbox is complete.
LEMMA OutboxListing ==
    ASSUME OutboxInv, NEW of \in SUBSET {m \in Msgs : ~Absent(m)}, NEW only \in BOOLEAN
    PROVE  OutboxListingHonours(of, only)
<1>1. site \in Sites /\ clock \in Nat
  BY DEF OutboxInv
<1>2. of \in SUBSET Msgs
  OBVIOUS
<1>3. IsFiniteSet(of) /\ \A m \in of : CreatedAt[m] \in Nat /\ rows[m] \in K!Row
  <2>1. IsFiniteSet(of)
    BY <1>2, StoragesAssumption, FS_Subset
  <2>2. \A m \in Msgs : CreatedAt[m] \in Nat /\ rows[m] \in K!Row
    BY StoragesAssumption DEF OutboxInv
  <2>. QED
    BY <1>2, <2>1, <2>2
<1>4. \A m \in of : Claimable(rows[m], clock) <=> Stale(rows[m], clock)
  BY <1>1, <1>3, ClaimableExactly
<1>5. {m \in of : only => Claimable(rows[m], clock)} = {m \in of : only => Stale(rows[m], clock)}
  BY <1>4
<1>6. BrowsingHonours([page \in Pages(of) |-> Listing(TRUE, rows, of, CreatedAt, only, page, 1)],
                      {m \in of : only => Claimable(rows[m], clock)}, CreatedAt)
  BY <1>1, <1>3, OutboxPages
<1>. QED
  BY <1>5, <1>6 DEF OutboxListingHonours, listOutbox, Stale

LEMMA InboxListing ==
    ASSUME OutboxInv, EntriesInv, NEW only \in BOOLEAN
    PROVE  InboxListingHonours(only)
<1>. DEFINE found == {k \in Keys : inbox[k].id # NoOne}
            Due(k) == /\ InboxRows[k].status = "failed" /\ InboxRows[k].due # K!NoTime
                      /\ InboxRows[k].due <= clock
<1>1. site \in Sites /\ clock \in Nat
  BY DEF OutboxInv
<1>2. IsFiniteSet(found) /\ found \in SUBSET Keys
  <2>1. found \in SUBSET Keys
    OBVIOUS
  <2>. HIDE DEF found
  <2>. QED
    BY <2>1, StoragesAssumption, FS_Subset
<1>3. \A k \in found : /\ InboxRows[k] = inbox[k].row /\ ReceivedAt[k] = inbox[k].row.born
                       /\ inbox[k].row.born \in Nat
  BY DEF EntriesInv, EntryInv, InboxRows, ReceivedAt
<1>4. \A k \in found : KR!RetryDue(inbox[k].row, clock, K!NoTime) <=> Due(k)
  BY <1>1, <1>3 DEF KR!RetryDue, KR!FailedDue, KR!NoTime, K!NoTime
<1>5. {k \in found : only => Due(k)}
         = {k \in found : only => KR!RetryDue(inbox[k].row, clock, K!NoTime)}
  <2>. HIDE DEF found, Due
  <2>. QED
    BY <1>4
<1>. HIDE DEF found
<1>6. BrowsingHonours([page \in Pages(found) |-> Listing(FALSE, InboxRows, found, ReceivedAt, only, page, 1)],
                      {k \in found : only => Due(k)}, ReceivedAt)
  BY <1>1, <1>2, <1>3, InboxPages
<1>. QED
  BY <1>5, <1>6 DEF InboxListingHonours, listInbox, found

LEMMA ListingsHonour == OutboxInv /\ EntriesInv => ListingHonours
BY OutboxListing, InboxListing DEF ListingHonours

\* The rows of one status.
Having(rs, s) == {r \in DOMAIN rs : rs[r].status = s}

\* "at" is when the oldest of them was written, if there is one.
OldestOf(rs, born, s, at) ==
    IF Having(rs, s) = {} THEN at = K!NoTime
    ELSE /\ \E r \in Having(rs, s) : born[r] = at
         /\ \A r \in Having(rs, s) : at <= born[r]

\* GROUP BY has one group of each status some row has.
LEMMA OneGroup ==
    ASSUME NEW rs, NEW born, NEW s, s # "absent",
           \A r \in Having(rs, s) : born[r] \in Nat
    PROVE  \/ Having(rs, s) = {} /\ {g \in T!Groups(rs, born) : g.status = s} = {}
           \/ /\ Having(rs, s) # {}
              /\ \E g : /\ {h \in T!Groups(rs, born) : h.status = s} = {g}
                       /\ g.count = Cardinality(Having(rs, s))
                       /\ OldestOf(rs, born, s, g.oldest)
<1>. DEFINE of(x) == {r \in DOMAIN rs : rs[r].status = x}
            group(x) == [status |-> x, count |-> T!Cardinality(of(x)),
                         oldest |-> born[CHOOSE r \in of(x) : \A q \in of(x) : born[r] <= born[q]]]
            statuses == {rs[r].status : r \in DOMAIN rs} \ {"absent"}
<1>1. T!Groups(rs, born) = {group(x) : x \in statuses}
  BY DEF T!Groups
<1>2. \A x : group(x).status = x
  OBVIOUS
<1>3. of(s) = Having(rs, s)
  BY DEF Having
<1>4. Having(rs, s) = {} <=> s \notin statuses
  BY DEF Having
<1>5. CASE Having(rs, s) = {}
  <2>. HIDE DEF group, statuses
  <2>1. {g \in T!Groups(rs, born) : g.status = s} = {}
    BY <1>1, <1>2, <1>4, <1>5
  <2>. QED
    BY <1>5, <2>1
<1>6. CASE Having(rs, s) # {}
  <2>. DEFINE oldest == CHOOSE r \in of(s) : \A q \in of(s) : born[r] <= born[q]
  <2>1. oldest \in of(s) /\ \A q \in of(s) : born[oldest] <= born[q]
    <3>1. \E r \in of(s) : \A q \in of(s) : born[r] <= born[q]
      BY <1>3, <1>6, OldestRow
    <3>. QED
      BY <3>1
  <2>2. group(s).oldest = born[oldest] /\ group(s).count = T!Cardinality(of(s))
    OBVIOUS
  <2>3. T!Cardinality(of(s)) = Cardinality(Having(rs, s))
    BY <1>3 DEF T!Cardinality, Cardinality
  <2>. HIDE DEF group, statuses, oldest
  <2>4. {g \in T!Groups(rs, born) : g.status = s} = {group(s)}
    BY <1>1, <1>2, <1>4, <1>6
  <2>5. OldestOf(rs, born, s, group(s).oldest)
    <3>1. OldestOf(rs, born, s, born[oldest])
      BY <1>3, <1>6, <2>1 DEF OldestOf
    <3>. QED
      BY <2>2, <3>1
  <2>. QED
    BY <1>6, <2>2, <2>3, <2>4, <2>5
<1>. QED
  BY <1>5, <1>6

\* Three of the libraries pick the group from those of its status, Prisma from
\* all of them.
Found(groups, s) == {g \in groups : g.status = s}
One(groups, s)   == CHOOSE g \in Found(groups, s) : TRUE
Count(groups, s) == IF Found(groups, s) = {} THEN 0 ELSE One(groups, s).count
Since(groups, s) == IF Found(groups, s) = {} THEN K!NoTime ELSE One(groups, s).oldest

Has(groups, s)        == \E g \in groups : g.status = s
Among(groups, s)      == CHOOSE g \in groups : g.status = s
CountAmong(groups, s) == IF Has(groups, s) THEN Among(groups, s).count ELSE 0
SinceAmong(groups, s) == IF Has(groups, s) THEN Among(groups, s).oldest ELSE K!NoTime

\* Both ways tell the same.
LEMMA GroupsTell ==
    ASSUME NEW rs, NEW born, NEW s, s # "absent",
           \A r \in Having(rs, s) : born[r] \in Nat
    PROVE  LET groups == T!Groups(rs, born)
           IN  /\ Count(groups, s) = Cardinality(Having(rs, s))
               /\ OldestOf(rs, born, s, Since(groups, s))
               /\ CountAmong(groups, s) = Cardinality(Having(rs, s))
               /\ OldestOf(rs, born, s, SinceAmong(groups, s))
<1>. DEFINE groups == T!Groups(rs, born)
            found == Found(groups, s)
<1>0. \/ Having(rs, s) = {} /\ found = {}
      \/ /\ Having(rs, s) # {}
         /\ \E g : /\ found = {g}
                  /\ g.count = Cardinality(Having(rs, s))
                  /\ OldestOf(rs, born, s, g.oldest)
  BY OneGroup DEF Found
<1>. HIDE DEF groups
<1>. SUFFICES /\ Count(groups, s) = Cardinality(Having(rs, s))
              /\ OldestOf(rs, born, s, Since(groups, s))
              /\ CountAmong(groups, s) = Cardinality(Having(rs, s))
              /\ OldestOf(rs, born, s, SinceAmong(groups, s))
  BY DEF groups
<1>1. CASE Having(rs, s) = {} /\ found = {}
  <2>1. Cardinality(Having(rs, s)) = 0 /\ ~Has(groups, s)
    BY <1>1, FS_EmptySet DEF Has, Found
  <2>. QED
    BY <1>1, <2>1 DEF OldestOf, Count, Since, CountAmong, SinceAmong
<1>2. CASE \E g : /\ found = {g} /\ g.count = Cardinality(Having(rs, s))
                  /\ OldestOf(rs, born, s, g.oldest)
  <2>1. PICK g : /\ found = {g} /\ g.count = Cardinality(Having(rs, s))
                 /\ OldestOf(rs, born, s, g.oldest)
    BY <1>2
  <2>2. g \in groups /\ g.status = s /\ \A h \in groups : h.status = s => h = g
    BY <2>1 DEF Found
  <2>3. Has(groups, s) /\ Among(groups, s) = g
    BY <2>2 DEF Has, Among
  <2>4. found # {} /\ One(groups, s) = g
    BY <2>1 DEF One
  <2>5. /\ Count(groups, s) = g.count /\ Since(groups, s) = g.oldest
        /\ CountAmong(groups, s) = g.count /\ SinceAmong(groups, s) = g.oldest
    BY <2>3, <2>4 DEF Count, Since, CountAmong, SinceAmong
  <2>. QED
    BY <2>1, <2>5
<1>. QED
  BY <1>0, <1>1, <1>2

\* What a snapshot has to tell.
Tells(snapshot, rs, born, statuses) ==
    /\ \A s \in statuses : snapshot.counts[s] = Cardinality(Having(rs, s))
    /\ OldestOf(rs, born, "pending", snapshot.oldestPendingAt)
    /\ OldestOf(rs, born, "failed", snapshot.oldestFailedAt)

\* What the five libraries make of the groups, or of the rows.
LEMMA SnapshotTells ==
    ASSUME site \in Sites, NEW rs, NEW born, NEW statuses, "absent" \notin statuses,
           "pending" \in statuses, "failed" \in statuses,
           \A s \in statuses : \A r \in Having(rs, s) : born[r] \in Nat
    PROVE  Tells(Snapshot(rs, born, statuses), rs, born, statuses)
<1>. DEFINE groups == T!Groups(rs, born)
<1>1. site[1] \in Libraries
  BY StoragesAssumption
<1>2. ASSUME NEW s \in statuses
      PROVE  /\ Count(groups, s) = Cardinality(Having(rs, s))
             /\ OldestOf(rs, born, s, Since(groups, s))
             /\ CountAmong(groups, s) = Cardinality(Having(rs, s))
             /\ OldestOf(rs, born, s, SinceAmong(groups, s))
  BY GroupsTell
<1>3. CASE site[1] \in {"knex", "typeorm", "mikro"}
  <2>1. Snapshot(rs, born, statuses) =
           [counts |-> [s \in statuses |-> Count(groups, s)],
            oldestPendingAt |-> Since(groups, "pending"),
            oldestFailedAt |-> Since(groups, "failed")]
    <3>1. CASE site[1] = "knex"
      BY <3>1 DEF Snapshot, ByLibrary, KnexSnapshot, Count, Since, One, Found
    <3>2. CASE site[1] = "typeorm"
      BY <3>2 DEF Snapshot, ByLibrary, T!Snapshot, T!NoTime, K!NoTime, Count, Since, One, Found
    <3>3. CASE site[1] = "mikro"
      BY <3>3 DEF Snapshot, ByLibrary, M!Snapshot, M!NoTime, K!NoTime, Count, Since, One, Found
    <3>. QED
      BY <1>3, <3>1, <3>2, <3>3
  <2>. HIDE DEF groups
  <2>. QED
    BY <1>2, <2>1 DEF Tells
<1>4. CASE site[1] = "prisma"
  <2>1. Snapshot(rs, born, statuses) =
           [counts |-> [s \in statuses |-> CountAmong(groups, s)],
            oldestPendingAt |-> SinceAmong(groups, "pending"),
            oldestFailedAt |-> SinceAmong(groups, "failed")]
    BY <1>4 DEF Snapshot, ByLibrary, P!Snapshot, P!NoTime, K!NoTime, CountAmong, SinceAmong,
                Has, Among
  <2>. HIDE DEF groups
  <2>. QED
    BY <1>2, <2>1 DEF Tells
<1>5. CASE site[1] = "memory"
  <2>. DEFINE of(s) == {r \in DOMAIN rs : rs[r].status = s}
              first(s) == CHOOSE r \in of(s) : \A q \in of(s) : born[r] <= born[q]
              since(s) == IF of(s) = {} THEN K!NoTime ELSE born[first(s)]
  <2>1. Snapshot(rs, born, statuses) =
           [counts |-> [s \in statuses |-> I!Cardinality(of(s))],
            oldestPendingAt |-> since("pending"), oldestFailedAt |-> since("failed")]
    BY <1>5 DEF Snapshot, ByLibrary, I!Snapshot, I!NoTime, K!NoTime
  <2>2. ASSUME NEW s \in statuses
        PROVE  /\ I!Cardinality(of(s)) = Cardinality(Having(rs, s))
               /\ OldestOf(rs, born, s, since(s))
    <3>1. of(s) = Having(rs, s)
      BY DEF Having
    <3>2. I!Cardinality(of(s)) = Cardinality(Having(rs, s))
      BY <3>1 DEF I!Cardinality, Cardinality
    <3>3. CASE of(s) = {}
      BY <3>1, <3>2, <3>3 DEF OldestOf
    <3>4. CASE of(s) # {}
      <4>1. \E r \in of(s) : \A q \in of(s) : born[r] <= born[q]
        BY <3>1, <3>4, OldestRow
      <4>. HIDE DEF of
      <4>2. first(s) \in of(s) /\ \A q \in of(s) : born[first(s)] <= born[q]
        BY <4>1
      <4>3. since(s) = born[first(s)]
        BY <3>4
      <4>. HIDE DEF first, since
      <4>. QED
        BY <3>1, <3>2, <3>4, <4>2, <4>3 DEF OldestOf
    <3>. QED
      BY <3>2, <3>3, <3>4
  <2>. HIDE DEF of, since
  <2>. QED
    BY <2>1, <2>2 DEF Tells
<1>. QED
  BY <1>1, <1>3, <1>4, <1>5 DEF Libraries

\* ... and that is what the contract asks of a snapshot.
LEMMA TellsHonours ==
    ASSUME NEW snapshot, NEW rs, NEW born, NEW statuses, Tells(snapshot, rs, born, statuses)
    PROVE  C!HonoursSnapshot(snapshot, rs, born, statuses)
<1>1. \A s : {r \in DOMAIN rs : rs[r].status = s} = Having(rs, s)
  BY DEF Having
<1>2. \A S : C!Cardinality(S) = Cardinality(S)
  BY DEF C!Cardinality, Cardinality
<1>3. \A s \in statuses : snapshot.counts[s] = C!Cardinality({r \in DOMAIN rs : rs[r].status = s})
  BY <1>1, <1>2 DEF Tells
<1>. QED
  BY <1>1, <1>3 DEF Tells, OldestOf, C!HonoursSnapshot

\* Every snapshot of the outbox and of the inbox is complete.
LEMMA SnapshotsHonour ==
    ASSUME OutboxInv, InboxInv, EntriesInv
    PROVE  SnapshotHonours
<1>1. CASE part = "outbox"
  <2>. DEFINE statuses == K!Status \ {"absent"}
  <2>1. "absent" \notin statuses /\ "pending" \in statuses /\ "failed" \in statuses
    BY DEF K!Status
  <2>2. \A s : \A m \in Having(rows, s) : CreatedAt[m] \in Nat
    BY StoragesAssumption DEF OutboxInv, Having
  <2>3. site \in Sites
    BY DEF OutboxInv
  <2>. HIDE DEF statuses
  <2>4. Tells(Snapshot(rows, CreatedAt, statuses), rows, CreatedAt, statuses)
    BY <2>1, <2>2, <2>3, SnapshotTells
  <2>5. C!HonoursSnapshot(Snapshot(rows, CreatedAt, statuses), rows, CreatedAt, statuses)
    BY <2>4, TellsHonours
  <2>. QED
    BY <1>1, <2>5 DEF SnapshotHonours, statuses
<1>2. CASE part # "outbox"
  <2>. DEFINE statuses == KR!Status \ {"absent"}
  <2>1. "absent" \notin statuses /\ "pending" \in statuses /\ "failed" \in statuses
    BY DEF KR!Status
  <2>2. \A s \in statuses : \A k \in Having(InboxRows, s) : ReceivedAt[k] \in Nat
    BY <2>1 DEF EntriesInv, EntryInv, Having, InboxRows, ReceivedAt
  <2>3. site \in Sites
    BY DEF OutboxInv
  <2>. HIDE DEF statuses
  <2>4. Tells(Snapshot(InboxRows, ReceivedAt, statuses), InboxRows, ReceivedAt, statuses)
    BY <2>1, <2>2, <2>3, SnapshotTells
  <2>5. C!HonoursSnapshot(Snapshot(InboxRows, ReceivedAt, statuses), InboxRows, ReceivedAt, statuses)
    BY <2>4, TellsHonours
  <2>. QED
    BY <1>2, <2>5 DEF SnapshotHonours, statuses
<1>. QED
  BY <1>1, <1>2

\* What an operator is shown of a table at rest, of the outbox or the inbox,
\* whichever library and database: a snapshot counts each row once and tells the
\* age of the oldest pending and failed ones; the pages of a listing show each
\* date as often as there are rows of it, whatever order the database gives rows
\* of one date on each of them; and they show each row once if no two have one
\* date, or the storage is the one in memory.
THEOREM OperatorsSeeAll == Spec => []ReadsAreComplete
<1>1. Spec => []InboxInv
  BY InboxInit, InboxNext, PTL DEF Spec
<1>2. Spec => []EntriesInv
  BY <1>1, EntriesInit, EntriesNext, PTL DEF Spec
<1>3. Spec => []OutboxInv
  BY OutboxInit, OutboxNext, PTL DEF Spec
<1>4. OutboxInv /\ InboxInv /\ EntriesInv => ReadsAreComplete
  BY SnapshotsHonour, ListingsHonour DEF ReadsAreComplete
<1>. QED
  BY <1>1, <1>2, <1>3, <1>4, PTL
==============================================================================
