------------------------------ MODULE RowLocks ------------------------------
(***************************************************************************)
(* The locks of PostgreSQL that order concurrent transactions, as far as   *)
(* the code takes them.  A session keeps what it locked until it commits   *)
(* or rolls back; a statement that wants a lock another session excludes   *)
(* waits; sessions that wait in a circle are found and one of them fails.  *)
(*                                                                         *)
(* A lock is a pair, the kind first.  Most kinds stand for FOR UPDATE on a *)
(* row of that kind; <<"share", p>> is the FOR KEY SHARE a foreign key     *)
(* check takes on a product row, and <<"key", k>> the entry of an          *)
(* uncommitted insert in a unique index, which a second insert waits for.  *)
(* LOCK TABLE ... IN SHARE MODE is <<"reading", t>>, and <<"writing", t>>   *)
(* a write of the one row table t has, with its ROW EXCLUSIVE mode.        *)
(***************************************************************************)
EXTENDS Integers, FiniteSets

CONSTANT Requests

VARIABLE held    \* request -> the locks its transaction holds

Rivals(row) ==
    CASE row[1] = "product" -> {row, <<"share", row[2]>>}
      [] row[1] = "share"   -> {<<"product", row[2]>>}
      [] row[1] = "reading" -> {<<"writing", row[2]>>}
      [] row[1] = "writing" -> {row, <<"reading", row[2]>>}
      [] OTHER              -> {row}

MayLock(r, row) == \A q \in Requests \ {r} : held[q] \cap Rivals(row) = {}

Lock(r, row) == held' = [held EXCEPT ![r] = @ \cup {row}]

\* wanted[r] are the locks one of which the next statement of r takes: it may be
\* waiting for any of them that another session excludes.
WaitsFor(wanted, r, q) ==
    q # r /\ \E row \in wanted[r] : held[q] \cap Rivals(row) # {}

\* r waits for a session that waits for a session ... that waits for r.
InCircle(wanted, r) ==
    \E n \in 2..Cardinality(Requests) : \E circle \in [1..n -> Requests] :
        /\ circle[1] = r
        /\ \A i \in 1..n : WaitsFor(wanted, circle[i], circle[(i % n) + 1])
=============================================================================
