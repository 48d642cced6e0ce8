-------------------------------- MODULE Store --------------------------------
(***************************************************************************)
(* The POS back end as it runs: each request is a session with a database  *)
(* transaction of its own, and what it writes stays private until it       *)
(* commits.  A session takes one statement at a time, so the statements of *)
(* different sessions interleave; row locks are all that orders them       *)
(* (PostgreSQL, READ COMMITTED).  A session may fail between any two       *)
(* statements, and its locks and writes are then gone.                     *)
(*                                                                         *)
(* The sessions follow backend/internal/pos/service.go and repository.go,  *)
(* inventory/repository.go and ledger/service.go.                          *)
(***************************************************************************)
EXTENDS StoreData

VARIABLES
    catalog,    \* committed data, as in StorePromise
    stock,
    movements,
    sales,
    journal,
    audits

Promise == INSTANCE StorePromise

data == <<catalog, stock, movements, sales, journal, audits>>

VARIABLES
    pc,       \* request -> the statement it runs next, or how it ended
    cmd,      \* request -> its command
    held,     \* request -> the row locks its transaction holds
    view,     \* request -> product -> the catalog row its transaction read
    seen,     \* request -> product -> the balance SELECT ... FOR UPDATE returned
    work,     \* request -> product -> that balance with the request's own updates
    toLock,   \* request -> products its checkout has yet to lock
    toPost,   \* request -> lines it has yet to post a movement for
    line,     \* request -> the line whose inventory row it locked last
    moves     \* request -> movements it inserted and has not committed

session == <<pc, cmd, held, view, seen, work, toLock, toPost, line, moves>>
vars == <<data, session>>

NoCommand == [op |-> "none"]

Outcomes == {"done", "replayed", "notFound", "rejected", "aborted"}
Steps == {"lookup", "locking", "pricing", "insert", "lockSale", "readCost", "count",
          "posting", "movement", "audit", "lockProduct", "reorder", "create", "commit"}

Running(r) == pc[r] \in Steps

(***************************************************************************)
(* Locks: on product, inventory and sale rows, on product rows for foreign *)
(* keys, and in the unique index on transactions.idempotency_key.          *)
(***************************************************************************)
Row == ({"product", "share", "inventory"} \X Products)
         \cup ({"sale"} \X Requests) \cup ({"key"} \X Keys)

INSTANCE RowLocks

\* The SELECT ... FOR UPDATE of a void, of an edit, and of every movement.  Their
\* mutants leave FOR UPDATE out: nothing is waited for.
TransactionUnlocked(r, t) == TRUE
ProductUnlocked(r, p) == TRUE
InventoryUnlocked(r, p) == TRUE

TransactionForUpdate(r, t) == MayLock(r, <<"sale", t>>)
ProductForUpdate(r, p) == MayLock(r, <<"product", p>>)
InventoryForUpdate(r, p) == MayLock(r, <<"inventory", p>>)

(***************************************************************************)
(* How a session moves on and how it ends.                                 *)
(***************************************************************************)
Nothing == [p \in Products |-> NoRow]
Zero    == [p \in Products |-> 0]

Goto(r, step) == pc' = [pc EXCEPT ![r] = step]

\* GetTransactionByIdempotencyKey finds a committed sale.
Sold(key) == \E r \in Requests : sales[r] # NoRow /\ sales[r].key = key

\* Commit or rollback: the transaction's locks and private state are gone.
End(r, outcome) ==
    /\ Goto(r, outcome)
    /\ cmd'    = [cmd EXCEPT ![r] = NoCommand]
    /\ held'   = [held EXCEPT ![r] = {}]
    /\ view'   = [view EXCEPT ![r] = Nothing]
    /\ seen'   = [seen EXCEPT ![r] = Zero]
    /\ work'   = [work EXCEPT ![r] = Zero]
    /\ toLock' = [toLock EXCEPT ![r] = {}]
    /\ toPost' = [toPost EXCEPT ![r] = {}]
    /\ line'   = [line EXCEPT ![r] = 0]
    /\ moves'  = [moves EXCEPT ![r] = {}]

Fail(r, outcome) == End(r, outcome) /\ UNCHANGED data

\* The handler accepts the request and the service begins a transaction.
FirstStep(c) ==
    CASE c.op = "checkout" -> "lookup"
      [] c.op = "void"     -> "lockSale"
      [] c.op = "adjust"   -> "readCost"
      [] c.op = "create"   -> "create"
      [] OTHER             -> "lockProduct"

Begin(r) ==
    /\ pc[r] = "idle"
    /\ \E c \in Commands :
          /\ cmd' = [cmd EXCEPT ![r] = c]
          /\ Goto(r, FirstStep(c))
    /\ UNCHANGED <<data, held, view, seen, work, toLock, toPost, line, moves>>

\* A failed statement, a lost connection or a crash: PostgreSQL rolls back.
Abort(r) == Running(r) /\ Fail(r, "aborted")

(***************************************************************************)
(* Checkout.                                                               *)
(***************************************************************************)
\* A committed sale under the key is replayed; otherwise the locking query
\* starts on the products there are.
LookupKey(r) ==
    /\ pc[r] = "lookup"
    /\ \/ Sold(cmd[r].key) /\ Fail(r, "replayed")
       \/ /\ ~Sold(cmd[r].key)
          /\ toLock' = [toLock EXCEPT ![r] =
                 {p \in SoldProducts(cmd[r].items) : catalog[p] # NoRow}]
          /\ Goto(r, "locking")
          /\ UNCHANGED <<data, cmd, held, view, seen, work, toPost, line, moves>>

\* GetProductsBySKUsForUpdate locks product and inventory row of one result
\* row after the other, in no particular order, and reads each as it locks it.
LockProductRow(r, p) ==
    /\ pc[r] = "locking"
    /\ p \in toLock[r]
    /\ \A q \in toLock[r] : <<"product", q>> \notin held[r]
    /\ MayLock(r, <<"product", p>>)
    /\ Lock(r, <<"product", p>>)
    /\ view' = [view EXCEPT ![r][p] = catalog[p]]
    /\ UNCHANGED <<data, pc, cmd, seen, work, toLock, toPost, line, moves>>

LockInventoryRow(r, p) ==
    /\ pc[r] = "locking"
    /\ p \in toLock[r]
    /\ <<"product", p>> \in held[r]
    /\ MayLock(r, <<"inventory", p>>)
    /\ Lock(r, <<"inventory", p>>)
    /\ seen' = [seen EXCEPT ![r][p] = stock[p]]
    /\ work' = [work EXCEPT ![r][p] = stock[p]]
    /\ toLock' = [toLock EXCEPT ![r] = @ \ {p}]
    /\ UNCHANGED <<data, pc, cmd, view, toPost, line, moves>>

QueryDone(r) ==
    /\ pc[r] = "locking"
    /\ toLock[r] = {}
    /\ Goto(r, "pricing")
    /\ UNCHANGED <<data, cmd, held, view, seen, work, toLock, toPost, line, moves>>

OnSale(r, p) == view[r][p] # NoRow /\ view[r][p].active

InStock(r, p) == Requested(cmd[r].items, p) <= seen[r][p]

\* Each item is looked up among the rows the query returned, and is on sale, in
\* stock for all lines that name it, and priced within what Money can hold.
OrderAccepted(r) ==
    /\ \A p \in SoldProducts(cmd[r].items) : OnSale(r, p) /\ InStock(r, p)
    /\ AmountsAccepted(cmd[r], PricedLines(cmd[r].items, view[r]))

\* The loop over the items stops at the first one it refuses; here that one was
\* not returned, or is not active.
StopsAtMissing(r) ==
    LET items == cmd[r].items
        Missing(p) == p \in toLock[r] \/ ~OnSale(r, p)
        Taken(n) == LET lines == PricedLines(SubSeq(items, 1, n), view[r])
                    IN  Representable(Subtotal(lines)) /\ Representable(TotalCOGS(lines))
    IN  \E i \in DOMAIN items :
           /\ Missing(items[i].product)
           /\ \A j \in 1..(i - 1) : ~Missing(items[j].product) /\ InStock(r, items[j].product)
           /\ Taken(i - 1)

\* The loop over the items, the discount, the cap and the settlement.
PriceOrder(r) ==
    /\ pc[r] = "pricing"
    /\ \/ StopsAtMissing(r) /\ Fail(r, "notFound")
       \/ ~StopsAtMissing(r) /\ ~OrderAccepted(r) /\ Fail(r, "rejected")
       \/ /\ OrderAccepted(r)
          /\ Goto(r, "insert")
          /\ UNCHANGED <<data, cmd, held, view, seen, work, toLock, toPost, line, moves>>

\* The unique constraint on transactions.idempotency_key, and the schema without it.
KeyNeverTaken(key) == FALSE
KeyTaken(key) == Sold(key)

\* CreateTransaction and its items.  A key that was committed since the lookup
\* violates the unique constraint.
InsertSale(r) ==
    /\ pc[r] = "insert"
    /\ MayLock(r, <<"key", cmd[r].key>>)
    /\ \/ KeyTaken(cmd[r].key) /\ Fail(r, "rejected")
       \/ /\ ~KeyTaken(cmd[r].key)
          /\ Lock(r, <<"key", cmd[r].key>>)
          /\ toPost' = [toPost EXCEPT ![r] = DOMAIN cmd[r].items]
          /\ Goto(r, "posting")
          /\ UNCHANGED <<data, cmd, view, seen, work, toLock, line, moves>>

(***************************************************************************)
(* Posting movements (PostMovementTx): lock the inventory row and read it, *)
(* then insert the movement, whose foreign key locks the product row FOR   *)
(* KEY SHARE, and update the balance.  A sale and a void do this for one   *)
(* line after the other, a void in the order its query returned the lines. *)
(***************************************************************************)
PostedLines(r) ==
    IF cmd[r].op = "checkout" THEN PricedLines(cmd[r].items, view[r])
                              ELSE sales[cmd[r].sale].lines

NextLines(r) ==
    IF cmd[r].op = "checkout" THEN {i \in toPost[r] : \A j \in toPost[r] : i <= j}
                              ELSE toPost[r]

\* Mutant of ReadBalance: a second line of a product starts from the committed
\* balance again.
ReadCommitted(r, p) ==
    /\ seen' = [seen EXCEPT ![r][p] = stock[p]]
    /\ work' = [work EXCEPT ![r][p] = stock[p]]

\* The row's own transaction has its own updates in work.
ReadBalance(r, p) ==
    IF <<"inventory", p>> \in held[r]
    THEN UNCHANGED <<seen, work>>
    ELSE /\ seen' = [seen EXCEPT ![r][p] = stock[p]]
         /\ work' = [work EXCEPT ![r][p] = stock[p]]

LockForMovement(r, i) ==
    LET p == PostedLines(r)[i].product
    IN  /\ pc[r] = "posting"
        /\ i \in NextLines(r)
        /\ InventoryForUpdate(r, p)
        /\ Lock(r, <<"inventory", p>>)
        /\ ReadBalance(r, p)
        /\ line' = [line EXCEPT ![r] = i]
        /\ Goto(r, "movement")
        /\ UNCHANGED <<data, cmd, view, toLock, toPost, moves>>

MovementOf(r) ==
    CASE cmd[r].op = "checkout" -> SaleMovement(r, PostedLines(r), line[r])
      [] cmd[r].op = "void"     -> VoidMovement(cmd[r].sale, PostedLines(r), line[r])
      [] cmd[r].op = "adjust"   ->
            AdjustmentMovement(r, cmd[r].product,
                               AdjustmentDelta(cmd[r], seen[r][cmd[r].product]))

\* validateMovementParams, the balance check, and uq_stock_movement_source.
MovementAccepted(r, m) ==
    /\ ValidateMovement(m)
    /\ work[r][m.product] + m.delta >= 0
    /\ \A n \in movements \cup moves[r] : ~SameSource(m, n)

InsertMovement(r) ==
    /\ pc[r] = "movement"
    /\ LET m == MovementOf(r)
           p == m.product
       IN  /\ MayLock(r, <<"share", p>>)
           /\ \/ ~MovementAccepted(r, m) /\ Fail(r, "rejected")
              \/ /\ MovementAccepted(r, m)
                 /\ Lock(r, <<"share", p>>)
                 /\ moves' = [moves EXCEPT ![r] = @ \cup {m}]
                 /\ work' = [work EXCEPT ![r][p] = @ + m.delta]
                 /\ toPost' = [toPost EXCEPT ![r] = @ \ {line[r]}]
                 /\ Goto(r, IF cmd[r].op = "adjust" THEN "audit" ELSE "posting")
                 /\ UNCHANGED <<data, cmd, view, seen, toLock, line>>

\* What the request's movements did to the balances becomes visible.
Publish(r) ==
    /\ stock' = [p \in Products |->
                   IF <<"inventory", p>> \in held[r] THEN work[r][p] ELSE stock[p]]
    /\ movements' = movements \cup moves[r]

\* Mutant of LinesPosted: the loop leaves the last line out.
LinesPostedButOne(r, op) == pc[r] = "posting" /\ cmd[r].op = op /\ Cardinality(toPost[r]) = 1

LinesPosted(r, op) == pc[r] = "posting" /\ cmd[r].op = op /\ toPost[r] = {}

\* PostPOSSaleJournal and the commit of a checkout.  An entry with a zero line
\* is refused, and the sale with it.
CommitSale(r) ==
    /\ LinesPosted(r, "checkout")
    /\ LET sale == SaleRow(cmd[r], PostedLines(r))
       IN  \/ ~ValidateBalance(SaleEntry(r, sale).lines) /\ Fail(r, "rejected")
           \/ /\ ValidateBalance(SaleEntry(r, sale).lines)
              /\ sales' = [sales EXCEPT ![r] = sale]
              /\ journal' = journal \cup {SaleEntry(r, sale)}
              /\ Publish(r)
              /\ UNCHANGED <<catalog, audits>>
              /\ End(r, "done")

(***************************************************************************)
(* Void.                                                                   *)
(***************************************************************************)
Voidable(t) == sales[t] # NoRow /\ sales[t].status = "COMPLETED"

LockSale(r) ==
    LET t == cmd[r].sale
    IN  /\ pc[r] = "lockSale"
        /\ TransactionForUpdate(r, t)
        /\ \/ ~Voidable(t) /\ Fail(r, "rejected")
           \/ /\ Voidable(t)
              /\ Lock(r, <<"sale", t>>)
              /\ toPost' = [toPost EXCEPT ![r] = DOMAIN sales[t].lines]
              /\ Goto(r, "posting")
              /\ UNCHANGED <<data, cmd, view, seen, work, toLock, line, moves>>

\* MarkTransactionVoided, PostPOSVoidReversalJournal and the commit.
CommitVoid(r) ==
    LET t == cmd[r].sale
    IN  /\ LinesPosted(r, "void")
        /\ \/ ~ValidateBalance(VoidEntry(t, sales[t]).lines) /\ Fail(r, "rejected")
           \/ /\ ValidateBalance(VoidEntry(t, sales[t]).lines)
              /\ sales' = [sales EXCEPT ![t].status = "VOIDED"]
              /\ journal' = journal \cup {VoidEntry(t, sales[t])}
              /\ Publish(r)
              /\ UNCHANGED <<catalog, audits>>
              /\ End(r, "done")

(***************************************************************************)
(* Stock adjustment.                                                       *)
(***************************************************************************)
QuantityGiven(c) == c.kind = "SET" \/ c.quantity > 0

\* The quantity check, then GetProductByID, which locks nothing: the cost the
\* adjustment is valued at is the one read here.
ReadCost(r) ==
    LET p == cmd[r].product
    IN  /\ pc[r] = "readCost"
        /\ \/ ~(QuantityGiven(cmd[r]) /\ catalog[p] # NoRow) /\ Fail(r, "rejected")
           \/ /\ QuantityGiven(cmd[r]) /\ catalog[p] # NoRow
              /\ view' = [view EXCEPT ![r][p] = catalog[p]]
              /\ Goto(r, "count")
              /\ UNCHANGED <<data, cmd, held, seen, work, toLock, toPost, line, moves>>

\* PostAdjustmentMovement up to its movement, if it needs one.
LockForCount(r) ==
    LET p == cmd[r].product
    IN  /\ pc[r] = "count"
        /\ InventoryForUpdate(r, p)
        /\ \/ ~AdjustmentAccepted(cmd[r], stock[p]) /\ Fail(r, "rejected")
           \/ /\ AdjustmentAccepted(cmd[r], stock[p])
              /\ Lock(r, <<"inventory", p>>)
              /\ ReadBalance(r, p)
              /\ Goto(r, IF AdjustmentDelta(cmd[r], stock[p]) = 0
                         THEN "audit" ELSE "movement")
              /\ UNCHANGED <<data, cmd, view, toLock, toPost, line, moves>>

\* The journal entry, the audit row (whose foreign key shares the product row)
\* and the commit.
CommitAdjustment(r) ==
    LET p     == cmd[r].product
        delta == AdjustmentDelta(cmd[r], seen[r][p])
    IN  /\ pc[r] = "audit"
        /\ MayLock(r, <<"share", p>>)
        /\ journal' = journal \cup AdjustmentEntries(r, delta, view[r][p].cost)
        /\ audits' = audits \cup {AuditRow(r, p, seen[r][p], delta)}
        /\ Publish(r)
        /\ UNCHANGED <<catalog, sales>>
        /\ End(r, "done")

(***************************************************************************)
(* Catalog maintenance: UpdateProduct, DeleteProduct, CreateProduct.       *)
(***************************************************************************)
\* The row the command leaves behind.
Edited(c) ==
    IF c.op = "update" THEN c.row ELSE [catalog[c.product] EXCEPT !.active = FALSE]

Editable(c) ==
    /\ catalog[c.product] # NoRow
    /\ IF c.op = "update" THEN RowAccepted(c.row) ELSE TRUE

\* Outstanding purchase orders, which keep a product from being deactivated,
\* are outside this module: whether there are any is left open.
LockForEdit(r) ==
    LET p == cmd[r].product
    IN  /\ pc[r] = "lockProduct"
        /\ ProductForUpdate(r, p)
        /\ \/ ~(Editable(cmd[r]) /\ Edited(cmd[r]).active) /\ Fail(r, "rejected")
           \/ /\ Editable(cmd[r])
              /\ Lock(r, <<"product", p>>)
              /\ Goto(r, IF cmd[r].op = "update" /\ cmd[r].reorder
                         THEN "reorder" ELSE "commit")
              /\ UNCHANGED <<data, cmd, view, seen, work, toLock, toPost, line, moves>>

\* The reorder threshold and the location are on the inventory row; its
\* balance is not written.
UpdateInventoryRow(r) ==
    LET p == cmd[r].product
    IN  /\ pc[r] = "reorder"
        /\ MayLock(r, <<"inventory", p>>)
        /\ Lock(r, <<"inventory", p>>)
        /\ ReadBalance(r, p)
        /\ Goto(r, "commit")
        /\ UNCHANGED <<data, cmd, view, toLock, toPost, line, moves>>

CommitEdit(r) ==
    /\ pc[r] = "commit"
    /\ catalog' = [catalog EXCEPT ![cmd[r].product] = Edited(cmd[r])]
    /\ UNCHANGED <<stock, movements, sales, journal, audits>>
    /\ End(r, "done")

\* The rows of a new product are nobody else's before the commit, so the whole
\* transaction is one step: product, inventory row at zero, opening movement.
CreateProduct(r) ==
    LET p == cmd[r].product
    IN  /\ pc[r] = "create"
        /\ \/ ~(catalog[p] = NoRow /\ RowAccepted(cmd[r].row)) /\ Fail(r, "rejected")
           \/ /\ catalog[p] = NoRow /\ RowAccepted(cmd[r].row)
              /\ catalog' = [catalog EXCEPT ![p] = cmd[r].row]
              /\ stock' = [stock EXCEPT ![p] = cmd[r].initial]
              /\ movements' = movements \cup OpeningMovements(p, cmd[r].initial)
              /\ UNCHANGED <<sales, journal, audits>>
              /\ End(r, "done")

(***************************************************************************)
(* Deadlock.  Sessions that wait for rows of one another, in a circle, are *)
(* found by PostgreSQL, which fails the statement of one of them.          *)
(***************************************************************************)
\* The rows one of which the session's next statement locks.
Wanted(r) ==
    LET c == cmd[r]
        opened == {p \in toLock[r] : <<"product", p>> \in held[r]}
    IN  CASE pc[r] = "locking" /\ opened # {} -> {"inventory"} \X opened
          [] pc[r] = "locking" /\ opened = {} -> {"product"} \X toLock[r]
          [] pc[r] = "insert"                 -> {<<"key", c.key>>}
          [] pc[r] = "lockSale"               -> {<<"sale", c.sale>>}
          [] pc[r] = "posting"                ->
                {<<"inventory", PostedLines(r)[i].product>> : i \in NextLines(r)}
          [] pc[r] = "movement"               -> {<<"share", MovementOf(r).product>>}
          [] pc[r] = "audit"                  -> {<<"share", c.product>>}
          [] pc[r] = "lockProduct"            -> {<<"product", c.product>>}
          [] pc[r] \in {"count", "reorder"}   -> {<<"inventory", c.product>>}
          [] OTHER                            -> {}

Deadlocked(r) == InCircle([q \in Requests |-> Wanted(q)], r)

\* The locking query of a checkout is a loop over result rows whose rows.Err()
\* nobody reads: a query that failed half way leaves the products it did not
\* reach looking like products that do not exist.
LoseDeadlock(r) ==
    /\ Deadlocked(r)
    /\ Fail(r, CASE pc[r] # "locking"   -> "aborted"
                 [] pc[r] = "locking" /\ StopsAtMissing(r)  -> "notFound"
                 [] pc[r] = "locking" /\ ~StopsAtMissing(r) -> "rejected")

(***************************************************************************)
(* The store.                                                              *)
(***************************************************************************)
Init ==
    /\ catalog = InitialCatalog
    /\ stock = InitialStock
    /\ movements = InitialMovements
    /\ sales = [r \in Requests |-> NoRow]
    /\ journal = {}
    /\ audits = {}
    /\ pc     = [r \in Requests |-> "idle"]
    /\ cmd    = [r \in Requests |-> NoCommand]
    /\ held   = [r \in Requests |-> {}]
    /\ view   = [r \in Requests |-> Nothing]
    /\ seen   = [r \in Requests |-> Zero]
    /\ work   = [r \in Requests |-> Zero]
    /\ toLock = [r \in Requests |-> {}]
    /\ toPost = [r \in Requests |-> {}]
    /\ line   = [r \in Requests |-> 0]
    /\ moves  = [r \in Requests |-> {}]

Checkout(r) ==
    \/ LookupKey(r)
    \/ \E p \in Products : LockProductRow(r, p) \/ LockInventoryRow(r, p)
    \/ QueryDone(r)
    \/ PriceOrder(r)
    \/ InsertSale(r)
    \/ CommitSale(r)

VoidTransaction(r) == LockSale(r) \/ CommitVoid(r)

PostMovementTx(r) ==
    \/ \E i \in toPost[r] : LockForMovement(r, i)
    \/ InsertMovement(r)

AdjustStock(r) == ReadCost(r) \/ LockForCount(r) \/ CommitAdjustment(r)

Maintain(r) == LockForEdit(r) \/ UpdateInventoryRow(r) \/ CommitEdit(r) \/ CreateProduct(r)

Proceed(r) ==
    \/ Checkout(r)
    \/ VoidTransaction(r)
    \/ PostMovementTx(r)
    \/ AdjustStock(r)
    \/ Maintain(r)
    \/ LoseDeadlock(r)

Next == \E r \in Requests : Begin(r) \/ Abort(r) \/ Proceed(r)

Spec == Init /\ [][Next]_vars

(***************************************************************************)
(* Properties.                                                             *)
(***************************************************************************)
MovementRow == [product: Products, delta: Int,
                kind: {"OPENING", "IN", "OUT", "ADJUSTMENT"},
                source: {"POS_SALE", "POS_VOID", "MANUAL_ADJUSTMENT", "PRODUCT_CREATE"},
                doc: Requests \cup Products, line: Nat]

EntryRow == [source: {"POS_SALE", "POS_VOID", "MANUAL_ADJUSTMENT"},
             doc: Requests, lines: Seq(Line)]

AuditRecord == [doc: Requests, product: Products, previous: Nat, delta: Int, new: Nat]

DataTypeOK ==
    /\ catalog \in [Products -> ProductRow \cup {NoRow}]
    /\ stock \in [Products -> Nat]
    /\ movements \subseteq MovementRow
    /\ sales \in [Requests -> SaleRecord \cup {NoRow}]
    /\ journal \subseteq EntryRow
    /\ audits \subseteq AuditRecord

SessionTypeOK ==
    /\ pc \in [Requests -> Steps \cup Outcomes \cup {"idle"}]
    /\ cmd \in [Requests -> Commands \cup {NoCommand}]
    /\ held \in [Requests -> SUBSET Row]
    /\ view \in [Requests -> [Products -> ProductRow \cup {NoRow}]]
    /\ seen \in [Requests -> [Products -> Nat]]
    /\ work \in [Requests -> [Products -> Nat]]
    /\ toLock \in [Requests -> SUBSET Products]
    /\ toPost \in [Requests -> SUBSET Nat]
    /\ line \in [Requests -> Nat]
    /\ moves \in [Requests -> SUBSET MovementRow]

\* Every variable has its type; on-hand stock, committed or about to be, is
\* never negative (the CHECK on inventory.stock_quantity).
TypeOK == DataTypeOK /\ SessionTypeOK

Net(ms, p) == SumFunction([m \in {n \in ms : n.product = p} |-> m.delta])

\* The on-hand balance of a product is the sum of its movements, whatever
\* sessions interleaved: no update of the balance is lost or applied twice
\* (GetReconciledBalance, docs/verification/reconcile.sql).
StockIsSumOfMovements == \A p \in Products : stock[p] = Net(movements, p)

\* A balance read under its row lock stays the committed one until the session
\* that read it ends: the absolute quantity PostMovementTx writes overwrites
\* nothing it did not count on.
LockedBalanceIsCurrent ==
    \A r \in Requests, p \in Products :
        <<"inventory", p>> \in held[r] => seen[r][p] = stock[p]

SoldSet  == {t \in Requests : sales[t] # NoRow}
VoidSet  == {t \in SoldSet : sales[t].status = "VOIDED"}

\* The stock movements and the journal tell exactly the story the sale
\* documents tell: per line of a sale one OUT, per line of a voided sale also
\* one IN, per sale one entry and per void one entry, and none beside.
TrailMatchesDocuments ==
    /\ {m \in movements : m.source = "POS_SALE"} =
           UNION {{SaleMovement(t, sales[t].lines, i) : i \in DOMAIN sales[t].lines} : t \in SoldSet}
    /\ {m \in movements : m.source = "POS_VOID"} =
           UNION {{VoidMovement(t, sales[t].lines, i) : i \in DOMAIN sales[t].lines} : t \in VoidSet}
    /\ {e \in journal : e.source = "POS_SALE"} = {SaleEntry(t, sales[t]) : t \in SoldSet}
    /\ {e \in journal : e.source = "POS_VOID"} = {VoidEntry(t, sales[t]) : t \in VoidSet}

\* Two requests with one Idempotency-Key commit at most one sale, although both
\* may have looked the key up before either inserted it.
KeySoldOnce ==
    \A t, u \in SoldSet : sales[t].key = sales[u].key => t = u

\* A sale commits at the price and cost of the moment, and only of products on
\* sale at that moment: no update or deactivation slips between the checkout's
\* read and its commit.
SaleAtCurrentTerms ==
    [][\A t \in Requests :
          sales[t] = NoRow /\ sales'[t] # NoRow =>
             \A i \in DOMAIN sales'[t].lines :
                LET l == sales'[t].lines[i]
                IN  /\ catalog[l.product] # NoRow
                    /\ catalog[l.product].active
                    /\ l.price = catalog[l.product].price
                    /\ l.cost = catalog[l.product].cost]_vars

\* Seen from the committed data, every session takes effect in one step, as the
\* promise has it.
KeepsPromise == Promise!Spec

\* docs/design/POS_CONTRACT_MAP.md: a checkout answered PRODUCT_NOT_FOUND means
\* that a product is missing or inactive.
NotFoundMeansMissing ==
    [][\A r \in Requests :
          pc[r] # "notFound" /\ pc'[r] = "notFound" =>
             \E p \in SoldProducts(cmd[r].items) :
                catalog[p] = NoRow \/ ~catalog[p].active]_vars
=============================================================================
