----------------------------- MODULE StockLocks -----------------------------
(***************************************************************************)
(* Where the POS and the supply chain meet: the locks both take on product *)
(* and inventory rows.  A session is reduced to the locks its statements   *)
(* take and the order the code takes them in; modules Store and            *)
(* Procurement have what it does with the rows.  Sessions that wait for    *)
(* one lock and hold none when they do (a cancellation, a supplier's       *)
(* update, a certificate, a withdrawal that leaves the inventory row       *)
(* alone) can be in nobody's way for good and are left out.  So are the    *)
(* entries of unique indexes: one that waits for a key holds nothing its   *)
(* holder still wants.                                                     *)
(***************************************************************************)
EXTENDS Integers, Sequences, FiniteSets

CONSTANTS
    Requests,     \* HTTP requests
    Products,     \* products; numbers, so that they can be sorted
    Documents,    \* orders and sales
    Suppliers,
    Transactions  \* what a request may be: [kind, products, accepted, document, supplier]

VARIABLES
    pc,      \* request -> "idle", "running", "done" or "deadlock"
    tx,      \* request -> its transaction
    held,    \* request -> the locks it holds
    script,  \* request -> the locks its next statements take, in this order
    rest     \* request -> the products whose rows it locks after that

vars == <<pc, tx, held, script, rest>>

INSTANCE RowLocks

SupplyChain == {"receive", "issue"}
Till == {"checkout", "void", "adjust", "edit"}

Transaction ==
    [kind : SupplyChain \cup Till, products : SUBSET Products, accepted : SUBSET Products,
     document : Documents, supplier : Suppliers]

ASSUME LocksAssumption ==
    /\ Products \subseteq Nat
    /\ Transactions \subseteq Transaction

NoTransaction ==
    [kind |-> "none", products |-> {}, accepted |-> {}, document |-> "none", supplier |-> "none"]

\* checkCompliance, without the certificate, which belongs to the supplier.
Compliance(t) == << <<"reading", "tenant_config">>, <<"supplier", t.supplier>> >>

\* What a transaction locks before it comes to products.
Preamble(t) ==
    CASE t.kind = "receive" -> << <<"order", t.document>> >> \o Compliance(t)
      [] t.kind = "issue"   -> Compliance(t)
      [] t.kind = "void"    -> << <<"sale", t.document>> >>
      [] OTHER              -> <<>>

\* The rows of one product.  A receipt shares the product row and, if it accepted any
\* of the goods, PostMovementTx then locks the inventory row; a void or an adjustment
\* locks the inventory row first.
ProductLocks(t, p) ==
    CASE t.kind = "receive" ->
            IF p \in t.accepted THEN << <<"share", p>>, <<"inventory", p>> >>
                                ELSE << <<"share", p>> >>
      [] t.kind = "issue"                -> << <<"product", p>> >>
      [] t.kind \in {"void", "adjust"}    -> << <<"inventory", p>>, <<"share", p>> >>
      [] t.kind \in {"checkout", "edit"} -> << <<"product", p>>, <<"inventory", p>> >>

\* Whose rows may come next.  Orders and receipts sort their products.  The locking
\* query of a checkout has no ORDER BY, and the lines of a void come in the order of
\* their random ids.
NextProductsUnsorted(kind, products) == products
NextProducts(kind, products) ==
    {p \in products : kind \in SupplyChain => \A q \in products : p <= q}

Wanted(r) ==
    IF script[r] # <<>>
    THEN {Head(script[r])}
    ELSE {Head(ProductLocks(tx[r], p)) : p \in NextProducts(tx[r].kind, rest[r])}

Deadlocked(r) == InCircle([q \in Requests |-> Wanted(q)], r)

Begin(r) ==
    /\ pc[r] = "idle"
    /\ \E t \in Transactions :
          /\ tx' = [tx EXCEPT ![r] = t]
          /\ script' = [script EXCEPT ![r] = Preamble(t)]
          /\ rest' = [rest EXCEPT ![r] = t.products]
    /\ pc' = [pc EXCEPT ![r] = "running"]
    /\ UNCHANGED held

\* The next statement gets its lock.
Take(r) ==
    /\ script[r] # <<>>
    /\ MayLock(r, Head(script[r]))
    /\ Lock(r, Head(script[r]))
    /\ script' = [script EXCEPT ![r] = Tail(@)]
    /\ UNCHANGED <<pc, tx, rest>>

\* The next product's row gets its first lock.
TakeRow(r, p) ==
    LET locks == ProductLocks(tx[r], p)
    IN  /\ script[r] = <<>>
        /\ p \in NextProducts(tx[r].kind, rest[r])
        /\ MayLock(r, Head(locks))
        /\ Lock(r, Head(locks))
        /\ script' = [script EXCEPT ![r] = Tail(locks)]
        /\ rest' = [rest EXCEPT ![r] = @ \ {p}]
        /\ UNCHANGED <<pc, tx>>

\* Mutant of End: an error return that leaves the transaction open.
EndHolding(r, outcome) ==
    /\ pc' = [pc EXCEPT ![r] = outcome]
    /\ UNCHANGED <<tx, held, script, rest>>

End(r, outcome) ==
    /\ pc'     = [pc EXCEPT ![r] = outcome]
    /\ tx'     = [tx EXCEPT ![r] = NoTransaction]
    /\ held'   = [held EXCEPT ![r] = {}]
    /\ script' = [script EXCEPT ![r] = <<>>]
    /\ rest'   = [rest EXCEPT ![r] = {}]

Commit(r) ==
    /\ pc[r] = "running"
    /\ script[r] = <<>>
    /\ rest[r] = {}
    /\ End(r, "done")

\* PostgreSQL fails one session of a circle; none of the handlers tries again.
LoseDeadlock(r) == Deadlocked(r) /\ End(r, "deadlock")

Init ==
    /\ pc     = [r \in Requests |-> "idle"]
    /\ tx     = [r \in Requests |-> NoTransaction]
    /\ held   = [r \in Requests |-> {}]
    /\ script = [r \in Requests |-> <<>>]
    /\ rest   = [r \in Requests |-> {}]

Proceed(r) ==
    \/ Take(r)
    \/ \E p \in rest[r] : TakeRow(r, p)
    \/ Commit(r)
    \/ LoseDeadlock(r)

Next == \E r \in Requests : Begin(r) \/ Proceed(r)

Spec == Init /\ [][Next]_vars

\* Statements that need not wait go on, and so does the deadlock detector.
FairSpec == Spec /\ \A r \in Requests : WF_vars(Proceed(r))

(***************************************************************************)
(* Properties.                                                             *)
(***************************************************************************)
\* A circle always has a session of the till in it: orders and receipts by
\* themselves never fail on one another's locks.
CircleNeedsTill ==
    \A r \in Requests : Deadlocked(r) =>
        \E q \in Requests : Deadlocked(q) /\ tx[q].kind \in Till

\* Whatever the mixture, every session commits or is told that it deadlocked.
EverySessionEnds ==
    \A r \in Requests : pc[r] = "running" ~> pc[r] \in {"done", "deadlock"}

(***************************************************************************)
(* The inductive invariant.                                                *)
(***************************************************************************)
Row ==
    ({"order", "sale"} \X Documents) \cup ({"supplier"} \X Suppliers) \cup
    {<<"reading", "tenant_config">>} \cup ({"product", "share", "inventory"} \X Products)

TypeOK ==
    /\ pc \in [Requests -> {"idle", "running", "done", "deadlock"}]
    /\ tx \in [Requests -> Transactions \cup {NoTransaction}]
    /\ held \in [Requests -> SUBSET Row]
    /\ script \in [Requests -> Seq(Row)]
    /\ rest \in [Requests -> SUBSET Products]

\* The order in which the supply chain takes its locks.
ProductRank(p) == 3 + 2 * p
Rank(row) ==
    CASE row[1] \in {"order", "sale"}    -> 0
      [] row[1] = "reading"              -> 1
      [] row[1] = "supplier"             -> 2
      [] row[1] \in {"product", "share"} -> ProductRank(row[2])
      [] row[1] = "inventory"            -> ProductRank(row[2]) + 1

\* A session of the supply chain holds what comes before all it will still lock.
Ascending(r) ==
    /\ \A mine \in held[r] :
          /\ \A i \in 1..Len(script[r]) : Rank(mine) < Rank(script[r][i])
          /\ \A p \in rest[r] : Rank(mine) < ProductRank(p)
    /\ \A i \in 1..Len(script[r]) :
          /\ \A j \in 1..Len(script[r]) : i < j => Rank(script[r][i]) < Rank(script[r][j])
          /\ \A p \in rest[r] : Rank(script[r][i]) < ProductRank(p)

\* A session that has not begun, or has ended, wants nothing.
AtRest(r) == held[r] = {} /\ script[r] = <<>> /\ rest[r] = {}

SessionInv(r) ==
    /\ tx[r].kind \in SupplyChain => Ascending(r)
    /\ tx[r] = NoTransaction => AtRest(r)
    /\ pc[r] # "running" => tx[r] = NoTransaction

IInv == TypeOK /\ \A r \in Requests : SessionInv(r)
=============================================================================
