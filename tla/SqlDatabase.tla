----------------------------- MODULE SqlDatabase -----------------------------
(***************************************************************************)
(* What the storage adapters rely on in the databases below them.          *)
(***************************************************************************)
EXTENDS Integers, FiniteSets, Sequences

NoTime == -1                        \* a NULL timestamp

\* A comparison with NULL is not true.
NotAfter(a, b) == a # NoTime /\ a <= b
After(a, b)    == a # NoTime /\ a > b

\* The assignments of an UPDATE read the row as it was, except in MySQL and
\* MariaDB, where each reads what the assignments before it have written.
LeftToRight == {"mysql", "mariadb"}

\* The row the assignments after "retry_count = retry_count + 1" read.
SeenAfterCount(db, row) ==
    IF db \in LeftToRight THEN [row EXCEPT !.retry = @ + 1] ELSE row

\* SELECT status, COUNT(*), MIN(created_at) ... GROUP BY status, of the rows a
\* table holds; born is created_at.
Groups(rows, born) ==
    LET of(s) == {r \in DOMAIN rows : rows[r].status = s}
    IN  {[status |-> s, count |-> Cardinality(of(s)),
          oldest |-> born[CHOOSE r \in of(s) : \A q \in of(s) : born[r] <= born[q]]] :
            s \in {rows[r].status : r \in DOMAIN rows} \ {"absent"}}

\* ORDER BY created_at DESC: rows of one date come in any order, and in another
\* one the next time.
Sorted(found, born) ==
    {s \in [1 .. Cardinality(found) -> found] :
        \A i, j \in DOMAIN s : i < j => s[i] # s[j] /\ born[s[i]] >= born[s[j]]}

\* What SELECT ... ORDER BY created_at DESC LIMIT limit OFFSET offset may answer,
\* with SELECT COUNT(*) read in the same state, of the rows a WHERE clause finds.
Page(found, born, limit, offset) ==
    LET last == IF offset + limit < Cardinality(found) THEN offset + limit
                ELSE Cardinality(found)
    IN  {[items |-> SubSeq(s, offset + 1, last), total |-> Cardinality(found)] :
            s \in Sorted(found, born)}
==============================================================================
