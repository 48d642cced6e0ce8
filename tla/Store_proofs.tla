---------------------------- MODULE Store_proofs ----------------------------
(***************************************************************************)
(* The safety of Store, for any requests, products, keys and commands.     *)
(*                                                                         *)
(* A step of session r leaves the private state of every other session     *)
(* alone, and changes only committed rows that r has locked (or that no    *)
(* other session can have locked).  So what the others' locks guarantee    *)
(* them stays true, and for r itself each statement establishes what the   *)
(* next one relies on.                                                     *)
(***************************************************************************)
EXTENDS StoreInv, SequenceTheorems, NumberTheorems

-----------------------------------------------------------------------------
(***************************************************************************)
(* The types: what each operator returns, and that every step from a       *)
(* state of the inductive invariant leads to a state of the right types.   *)
(***************************************************************************)
\* The operation field of a command says which kind of command it is.
LEMMA CommandByOp ==
    ASSUME NEW c \in Commands
    PROVE  /\ c.op = "checkout" => c \in CheckoutCommand
           /\ c.op = "void" => c \in VoidCommand
           /\ c.op = "adjust" => c \in AdjustCommand
           /\ c.op = "update" => c \in UpdateCommand
           /\ c.op = "delete" => c \in DeleteCommand
           /\ c.op = "create" => c \in CreateCommand
           /\ c.op \in {"checkout", "void", "adjust", "update", "delete", "create"}
<1>1. c \in Command
  BY StoreAssumption
<1>. QED
  BY <1>1 DEF Command, CheckoutCommand, VoidCommand, AdjustCommand, UpdateCommand,
              DeleteCommand, CreateCommand

\* Priced lines are a sequence of sale lines when every item has a catalog row.
LEMMA PricedLinesType ==
    ASSUME NEW items \in Seq([product: Products, quantity: Nat \ {0}]),
           NEW rows \in [Products -> ProductRow \cup {NoRow}],
           \A p \in SoldProducts(items) : rows[p] # NoRow
    PROVE  /\ PricedLines(items, rows) \in Seq(SaleLine)
           /\ DOMAIN PricedLines(items, rows) = DOMAIN items
<1>. DEFINE n == Len(items)
<1>1. n \in Nat /\ DOMAIN items = 1 .. n
  BY LenProperties
<1>2. ASSUME NEW i \in 1 .. n
      PROVE  /\ items[i].product \in Products
             /\ items[i].quantity \in Nat \ {0}
             /\ rows[items[i].product] \in ProductRow
  <2>1. items[i] \in [product: Products, quantity: Nat \ {0}]
    BY <1>1, ElementOfSeq
  <2>2. items[i].product \in SoldProducts(items)
    BY <1>1 DEF SoldProducts
  <2>. QED
    BY <2>1, <2>2
<1>3. PricedLines(items, rows) \in [1 .. n -> SaleLine]
  BY <1>1, <1>2 DEF PricedLines, SaleLine, ProductRow
<1>. QED
  BY <1>1, <1>3

\* A sale that passed its monetary checks is a well-formed row.
LEMMA SaleRowType ==
    ASSUME NEW c \in CheckoutCommand, NEW lines \in Seq(SaleLine),
           AmountsAccepted(c, lines)
    PROVE  SaleRow(c, lines) \in SaleRecord
<1>1. Subtotal(lines) \in Nat
  BY StoreAssumption DEF AmountsAccepted, Representable
<1>2. c.discount \in Nat /\ c.key \in Keys /\ c.payment \in Payments
  BY DEF CheckoutCommand
<1>3. Total(lines, c.discount) \in Nat
  BY <1>1, <1>2 DEF Total
<1>. QED
  BY <1>2, <1>3 DEF SaleRow, SaleRecord

-----------------------------------------------------------------------------
(***************************************************************************)
(* Types.                                                                  *)
(***************************************************************************)
LEMMA EndType ==
    ASSUME SessionTypeOK, NEW r \in Requests, NEW o \in Outcomes, End(r, o)
    PROVE  SessionTypeOK'
  BY DEF SessionTypeOK, End, Goto, Nothing, Zero

LEMMA FailType ==
    ASSUME TypeOK, NEW r \in Requests, NEW o \in Outcomes, Fail(r, o)
    PROVE  TypeOK'
  BY EndType DEF TypeOK, Fail, data, DataTypeOK

LEMMA InitType == Init => TypeOK
<1>. SUFFICES ASSUME Init PROVE TypeOK
  OBVIOUS
<1>1. DataTypeOK
  BY StoreAssumption DEF Init, DataTypeOK, InitialMovements, OpeningMovements, Movement,
     MovementRow
<1>2. SessionTypeOK
  BY DEF Init, SessionTypeOK, Nothing, Zero
<1>. QED
  BY <1>1, <1>2 DEF TypeOK

\* The rows of the lock table are rows.
LEMMA RowType ==
    /\ \A p \in Products : /\ <<"product", p>> \in Row
                          /\ <<"share", p>> \in Row
                          /\ <<"inventory", p>> \in Row
    /\ \A r \in Requests : <<"sale", r>> \in Row
    /\ \A k \in Keys : <<"key", k>> \in Row
  BY DEF Row

\* The items of a checkout name products.
LEMMA ItemsType ==
    ASSUME NEW c \in CheckoutCommand
    PROVE  /\ c.items \in Seq([product: Products, quantity: Nat \ {0}])
           /\ DOMAIN c.items \subseteq Nat
           /\ SoldProducts(c.items) \subseteq Products
<1>1. c.items \in Seq([product: Products, quantity: Nat \ {0}])
  BY DEF CheckoutCommand
<1>2. DOMAIN c.items = 1 .. Len(c.items) /\ Len(c.items) \in Nat
  BY <1>1, LenProperties
<1>3. \A i \in DOMAIN c.items : c.items[i] \in [product: Products, quantity: Nat \ {0}]
  BY <1>1, <1>2, ElementOfSeq
<1>. QED
  BY <1>1, <1>2, <1>3 DEF SoldProducts

\* What a running session's command is, from the step it is at.
LEMMA RunningCommand ==
    ASSUME IInv, NEW r \in Requests
    PROVE  /\ pc[r] \in {"lookup", "locking", "pricing", "insert"} =>
                 cmd[r] \in Commands /\ cmd[r].op = "checkout" /\ cmd[r] \in CheckoutCommand
           /\ pc[r] = "lockSale" =>
                 cmd[r] \in Commands /\ cmd[r].op = "void" /\ cmd[r] \in VoidCommand
           /\ pc[r] \in {"readCost", "count", "audit"} =>
                 cmd[r] \in Commands /\ cmd[r].op = "adjust" /\ cmd[r] \in AdjustCommand
           /\ pc[r] = "create" =>
                 cmd[r] \in Commands /\ cmd[r].op = "create" /\ cmd[r] \in CreateCommand
           /\ pc[r] \in {"lockProduct", "reorder", "commit"} =>
                 /\ cmd[r] \in Commands
                 /\ \/ cmd[r].op = "update" /\ cmd[r] \in UpdateCommand
                    \/ cmd[r].op = "delete" /\ cmd[r] \in DeleteCommand
           /\ pc[r] \in {"posting", "movement"} =>
                 /\ cmd[r] \in Commands
                 /\ \/ cmd[r].op = "checkout" /\ cmd[r] \in CheckoutCommand
                    \/ cmd[r].op = "void" /\ cmd[r] \in VoidCommand
                    \/ pc[r] = "movement" /\ cmd[r].op = "adjust" /\ cmd[r] \in AdjustCommand
<1>1. pc[r] \in Steps => cmd[r] \in Commands
  BY DEF IInv, SessionInv, StepFitsCommand
<1>2. pc[r] \in {"lookup", "locking", "pricing", "insert", "lockSale", "readCost", "count",
                 "audit", "create", "lockProduct", "reorder", "commit", "posting", "movement"}
        => cmd[r] \in Commands
  BY <1>1 DEF Steps
<1>. QED
  BY <1>2, CommandByOp DEF IInv, SessionInv, StepFitsCommand

LEMMA BeginType ==
    ASSUME IInv, NEW r \in Requests, Begin(r)
    PROVE  TypeOK'
  BY DEF IInv, TypeOK, DataTypeOK, SessionTypeOK, Begin, Goto, FirstStep, Steps, data

\* Statements of a checkout before its commit.
LEMMA CheckoutType ==
    ASSUME IInv, NEW r \in Requests,
           \/ LookupKey(r)
           \/ \E p \in Products : LockProductRow(r, p) \/ LockInventoryRow(r, p)
           \/ QueryDone(r)
           \/ PriceOrder(r)
           \/ InsertSale(r)
    PROVE  TypeOK'
<1>. USE DEF IInv, TypeOK, Goto, Lock
<1>0. "replayed" \in Outcomes /\ "notFound" \in Outcomes /\ "rejected" \in Outcomes
  BY DEF Outcomes
<1>1. CASE LookupKey(r)
  <2>1. SoldProducts(cmd[r].items) \subseteq Products
    BY <1>1, RunningCommand, ItemsType DEF LookupKey
  <2>2. CASE Fail(r, "replayed")
    BY <1>0, <2>2, FailType
  <2>3. CASE ~Fail(r, "replayed")
    <3>. DEFINE L == {p \in SoldProducts(cmd[r].items) : catalog[p] # NoRow}
    <3>1. /\ toLock' = [toLock EXCEPT ![r] = L]
          /\ pc' = [pc EXCEPT ![r] = "locking"]
          /\ UNCHANGED <<data, cmd, held, view, seen, work, toPost, line, moves>>
      BY <1>1, <2>3 DEF LookupKey
    <3>2. L \in SUBSET Products
      BY <2>1
    <3>. HIDE DEF L
    <3>. QED
      BY <3>1, <3>2 DEF DataTypeOK, SessionTypeOK, Steps, data
  <2>. QED
    BY <2>2, <2>3
<1>2. ASSUME NEW p \in Products, LockProductRow(r, p)
      PROVE  TypeOK'
  BY <1>2, RowType DEF LockProductRow, DataTypeOK, SessionTypeOK, data
<1>3. ASSUME NEW p \in Products, LockInventoryRow(r, p)
      PROVE  TypeOK'
  BY <1>3, RowType DEF LockInventoryRow, DataTypeOK, SessionTypeOK, data
<1>4. CASE QueryDone(r)
  BY <1>4 DEF QueryDone, DataTypeOK, SessionTypeOK, Steps, data
<1>5. CASE PriceOrder(r)
  BY <1>0, <1>5, FailType DEF PriceOrder, DataTypeOK, SessionTypeOK, Steps, data
<1>6. CASE InsertSale(r)
  <2>1. cmd[r].key \in Keys /\ DOMAIN cmd[r].items \subseteq Nat
    BY <1>6, RunningCommand, ItemsType DEF InsertSale, CheckoutCommand
  <2>2. CASE Fail(r, "rejected")
    BY <1>0, <2>2, FailType
  <2>3. CASE ~Fail(r, "rejected")
    <3>. DEFINE D == DOMAIN cmd[r].items
                K == <<"key", cmd[r].key>>
    <3>1. /\ held' = [held EXCEPT ![r] = @ \cup {K}]
          /\ toPost' = [toPost EXCEPT ![r] = D]
          /\ pc' = [pc EXCEPT ![r] = "posting"]
          /\ UNCHANGED <<data, cmd, view, seen, work, toLock, line, moves>>
      BY <1>6, <2>3 DEF InsertSale
    <3>2. D \in SUBSET Nat /\ K \in Row
      BY <2>1, RowType
    <3>. HIDE DEF D, K
    <3>. QED
      BY <3>1, <3>2 DEF DataTypeOK, SessionTypeOK, Steps, data
  <2>. QED
    BY <2>2, <2>3
<1>. QED
  BY <1>1, <1>2, <1>3, <1>4, <1>5, <1>6

\* The lines a session posts are sale lines.
LEMMA PostedLinesType ==
    ASSUME IInv, NEW r \in Requests, pc[r] \in {"posting", "movement"}, cmd[r].op # "adjust"
    PROVE  /\ PostedLines(r) \in Seq(SaleLine)
           /\ DOMAIN PostedLines(r) \subseteq Nat
           /\ \A i \in DOMAIN PostedLines(r) : PostedLines(r)[i] \in SaleLine
<1>1. PostedLines(r) \in Seq(SaleLine)
  <2>1. CASE cmd[r].op = "checkout"
    <3>1. /\ cmd[r].items \in Seq([product: Products, quantity: Nat \ {0}])
          /\ view[r] \in [Products -> ProductRow \cup {NoRow}]
      BY <2>1, RunningCommand, ItemsType DEF IInv, TypeOK, SessionTypeOK
    <3>2. \A p \in SoldProducts(cmd[r].items) : view[r][p] # NoRow
      BY <2>1 DEF IInv, SessionInv, CheckedOrder, Doing, OnSale
    <3>. QED
      BY <2>1, <3>1, <3>2, PricedLinesType DEF PostedLines
  <2>2. CASE cmd[r].op = "void"
    <3>1. cmd[r].sale \in Requests /\ sales[cmd[r].sale] # NoRow
      BY <2>2, RunningCommand DEF IInv, SessionInv, VoidHoldsSale, Doing, Voidable, VoidCommand
    <3>. QED
      BY <2>2, <3>1 DEF PostedLines, IInv, TypeOK, DataTypeOK, SaleRecord
  <2>. QED
    BY <2>1, <2>2, RunningCommand
<1>2. DOMAIN PostedLines(r) = 1 .. Len(PostedLines(r)) /\ Len(PostedLines(r)) \in Nat
  BY <1>1, LenProperties
<1>. QED
  BY <1>1, <1>2, ElementOfSeq

\* The lines left to post, and the one being posted, are lines of the document.
LEMMA LinesToPost ==
    ASSUME IInv, NEW r \in Requests, pc[r] \in {"posting", "movement"}, cmd[r].op # "adjust"
    PROVE  /\ toPost[r] \subseteq DOMAIN PostedLines(r)
           /\ pc[r] = "movement" => line[r] \in DOMAIN PostedLines(r)
<1>1. SessionInv(r) /\ cmd[r].op \in {"checkout", "void"}
  BY RunningCommand DEF IInv
<1>2. DOMAIN PricedLines(cmd[r].items, view[r]) = DOMAIN cmd[r].items
  BY DEF PricedLines
<1>. QED
  BY <1>1, <1>2 DEF SessionInv, LinesOfDocument, Doing, PostedLines

\* The movement a session is about to insert is a movement row.
LEMMA MovementType ==
    ASSUME IInv, NEW r \in Requests, pc[r] = "movement"
    PROVE  /\ MovementOf(r) \in MovementRow
           /\ MovementOf(r).product \in Products /\ MovementOf(r).delta \in Int
<1>1. CASE cmd[r].op \in {"checkout", "void"}
  <2>1. PostedLines(r)[line[r]] \in SaleLine /\ line[r] \in Nat
    BY <1>1, PostedLinesType, LinesToPost
  <2>2. cmd[r].op = "void" => cmd[r].sale \in Requests
    BY RunningCommand DEF VoidCommand
  <2>. QED
    BY <1>1, <2>1, <2>2 DEF MovementOf, SaleMovement, VoidMovement, Movement, MovementRow, SaleLine
<1>2. CASE cmd[r].op = "adjust"
  <2>1. cmd[r] \in AdjustCommand
    BY <1>2, RunningCommand
  <2>2. cmd[r].product \in Products /\ seen[r][cmd[r].product] \in Nat
    BY <2>1 DEF AdjustCommand, IInv, TypeOK, SessionTypeOK
  <2>3. AdjustmentDelta(cmd[r], seen[r][cmd[r].product]) \in Int
    BY <2>1, <2>2 DEF AdjustmentDelta, AdjustCommand
  <2>. QED
    BY <1>2, <2>2, <2>3 DEF MovementOf, AdjustmentMovement, Movement, MovementRow
<1>. QED
  BY <1>1, <1>2, RunningCommand

\* Reading a balance reads a balance.
LEMMA ReadBalanceType ==
    ASSUME TypeOK, NEW r \in Requests, NEW p \in Products, ReadBalance(r, p)
    PROVE  /\ seen' \in [Requests -> [Products -> Nat]]
           /\ work' \in [Requests -> [Products -> Nat]]
<1>1. CASE <<"inventory", p>> \in held[r]
  BY <1>1 DEF ReadBalance, TypeOK, SessionTypeOK
<1>2. CASE <<"inventory", p>> \notin held[r]
  <2>1. stock[p] \in Nat
    BY DEF TypeOK, DataTypeOK
  <2>2. /\ seen' = [seen EXCEPT ![r][p] = stock[p]]
        /\ work' = [work EXCEPT ![r][p] = stock[p]]
    BY <1>2 DEF ReadBalance
  <2>. QED
    BY <2>1, <2>2 DEF TypeOK, SessionTypeOK
<1>. QED
  BY <1>1, <1>2

LEMMA PostMovementType ==
    ASSUME IInv, NEW r \in Requests, PostMovementTx(r)
    PROVE  TypeOK'
<1>. USE DEF IInv, TypeOK, Goto, Lock
<1>1. ASSUME NEW i \in toPost[r], LockForMovement(r, i)
      PROVE  TypeOK'
  <2>1. cmd[r].op # "adjust"
    BY <1>1, RunningCommand DEF LockForMovement
  <2>2. i \in DOMAIN PostedLines(r)
    BY <1>1, <2>1, LinesToPost DEF LockForMovement
  <2>3. PostedLines(r)[i].product \in Products /\ i \in Nat
    BY <1>1, <2>1, <2>2, PostedLinesType DEF LockForMovement, SaleLine
  <2>. DEFINE p == PostedLines(r)[i].product
  <2>4. /\ held' = [held EXCEPT ![r] = @ \cup {<<"inventory", p>>}]
        /\ line' = [line EXCEPT ![r] = i]
        /\ pc' = [pc EXCEPT ![r] = "movement"]
        /\ UNCHANGED <<data, cmd, view, toLock, toPost, moves>>
        /\ ReadBalance(r, p)
    BY <1>1 DEF LockForMovement
  <2>5. p \in Products /\ i \in Nat /\ <<"inventory", p>> \in Row
    BY <2>3, RowType
  <2>. HIDE DEF p
  <2>6. seen' \in [Requests -> [Products -> Nat]] /\ work' \in [Requests -> [Products -> Nat]]
    BY <2>4, <2>5, ReadBalanceType
  <2>. QED
    BY <2>4, <2>5, <2>6 DEF DataTypeOK, SessionTypeOK, Steps, data
<1>2. CASE InsertMovement(r)
  <2>1. /\ MovementOf(r) \in MovementRow
        /\ MovementOf(r).product \in Products
        /\ MovementOf(r).delta \in Int
    BY <1>2, MovementType DEF InsertMovement
  <2>2. CASE Fail(r, "rejected")
    BY <2>2, FailType DEF Outcomes
  <2>3. CASE ~Fail(r, "rejected")
    <3>. DEFINE m == MovementOf(r)
                step == IF cmd[r].op = "adjust" THEN "audit" ELSE "posting"
    <3>1. /\ work[r][m.product] + m.delta >= 0
          /\ held' = [held EXCEPT ![r] = @ \cup {<<"share", m.product>>}]
          /\ moves' = [moves EXCEPT ![r] = @ \cup {m}]
          /\ work' = [work EXCEPT ![r][m.product] = @ + m.delta]
          /\ toPost' = [toPost EXCEPT ![r] = @ \ {line[r]}]
          /\ pc' = [pc EXCEPT ![r] = step]
          /\ UNCHANGED <<data, cmd, view, seen, toLock, line>>
      BY <1>2, <2>3 DEF InsertMovement, MovementAccepted
    <3>2. /\ m \in MovementRow /\ m.product \in Products /\ m.delta \in Int
          /\ <<"share", m.product>> \in Row
          /\ step \in Steps
      BY <2>1, RowType DEF Steps
    <3>. HIDE DEF m, step
    <3>3. work[r][m.product] + m.delta \in Nat
      BY <3>1, <3>2 DEF SessionTypeOK
    <3>4. work' \in [Requests -> [Products -> Nat]]
      BY <3>1, <3>2, <3>3 DEF SessionTypeOK
    <3>5. DataTypeOK'
      BY <3>1 DEF DataTypeOK, data
    <3>6. pc' \in [Requests -> Steps \cup Outcomes \cup {"idle"}]
      BY <3>1, <3>2 DEF SessionTypeOK
    <3>7. moves' \in [Requests -> SUBSET MovementRow]
      BY <3>1, <3>2 DEF SessionTypeOK
    <3>8. held' \in [Requests -> SUBSET Row] /\ toPost' \in [Requests -> SUBSET Nat]
      BY <3>1, <3>2 DEF SessionTypeOK
    <3>. QED
      BY <3>1, <3>4, <3>5, <3>6, <3>7, <3>8 DEF SessionTypeOK
  <2>. QED
    BY <2>2, <2>3
<1>. QED
  BY <1>1, <1>2 DEF PostMovementTx

\* What a commit publishes is data.
LEMMA PublishType ==
    ASSUME TypeOK, NEW r \in Requests, Publish(r)
    PROVE  /\ stock' \in [Products -> Nat]
           /\ movements' \in SUBSET MovementRow
  BY DEF Publish, TypeOK, DataTypeOK, SessionTypeOK

\* The entries of the ledger service are entries.
LEMMA LinesType ==
    ASSUME NEW payment \in Payments, NEW total \in Int, NEW cogs \in Int
    PROVE  /\ SaleLines(payment, total, cogs) \in Seq(Line)
           /\ VoidLines(payment, total, cogs) \in Seq(Line)
<1>1. /\ AssetAccount(payment) \in Accounts /\ Revenue \in Accounts
      /\ COGS \in Accounts /\ Inventory \in Accounts
  BY DEF AssetAccount, Accounts
<1>2. ASSUME NEW a \in Accounts, NEW x \in Int
      PROVE  Debit(a, x) \in Line /\ Credit(a, x) \in Line
  BY DEF Debit, Credit, Line
<1>. QED
  BY <1>1, <1>2 DEF SaleLines, VoidLines

LEMMA SaleEntryType ==
    ASSUME NEW t \in Requests, NEW sale \in SaleRecord, Representable(TotalCOGS(sale.lines))
    PROVE  SaleEntry(t, sale) \in EntryRow /\ VoidEntry(t, sale) \in EntryRow
<1>1. TotalCOGS(sale.lines) \in Int
  BY StoreAssumption DEF Representable
<1>2. sale.payment \in Payments /\ sale.total \in Int
  BY DEF SaleRecord
<1>. QED
  BY <1>1, <1>2, LinesType DEF SaleEntry, VoidEntry, Entry, EntryRow

\* What a checkout commits is a sale, of a cost that can be represented.
LEMMA CommittedSale ==
    ASSUME IInv, NEW r \in Requests, pc[r] \in {"posting", "movement"}, cmd[r].op = "checkout"
    PROVE  /\ SaleRow(cmd[r], PostedLines(r)) \in SaleRecord
           /\ SaleRow(cmd[r], PostedLines(r)).lines = PostedLines(r)
           /\ SaleRow(cmd[r], PostedLines(r)).key = cmd[r].key
           /\ Representable(TotalCOGS(PostedLines(r)))
<1>1. cmd[r] \in CheckoutCommand /\ PostedLines(r) \in Seq(SaleLine)
  BY RunningCommand, PostedLinesType
<1>2. AmountsAccepted(cmd[r], PostedLines(r))
  BY DEF IInv, SessionInv, CheckedOrder, Doing, PostedLines
<1>3. SaleRow(cmd[r], PostedLines(r)) \in SaleRecord
  BY <1>1, <1>2, SaleRowType
<1>. QED
  BY <1>2, <1>3 DEF AmountsAccepted, SaleRow

LEMMA CommitSaleType ==
    ASSUME IInv, NEW r \in Requests, CommitSale(r)
    PROVE  TypeOK'
<1>1. CASE Fail(r, "rejected")
  BY <1>1, FailType DEF IInv, Outcomes
<1>2. CASE ~Fail(r, "rejected")
  <2>. DEFINE sale == SaleRow(cmd[r], PostedLines(r))
  <2>1. /\ pc[r] = "posting" /\ cmd[r].op = "checkout"
        /\ sales' = [sales EXCEPT ![r] = sale]
        /\ journal' = journal \cup {SaleEntry(r, sale)}
        /\ Publish(r)
        /\ UNCHANGED <<catalog, audits>>
        /\ End(r, "done")
    BY <1>2 DEF CommitSale, LinesPosted
  <2>2. sale \in SaleRecord /\ SaleEntry(r, sale) \in EntryRow
    BY <2>1, CommittedSale, SaleEntryType
  <2>3. SessionTypeOK'
    BY <2>1, EndType DEF IInv, TypeOK, Outcomes
  <2>. HIDE DEF sale
  <2>4. sales' \in [Requests -> SaleRecord \cup {NoRow}] /\ journal' \in SUBSET EntryRow
    BY <2>1, <2>2 DEF IInv, TypeOK, DataTypeOK
  <2>5. stock' \in [Products -> Nat] /\ movements' \in SUBSET MovementRow
    BY <2>1, PublishType DEF IInv
  <2>. QED
    BY <2>1, <2>3, <2>4, <2>5 DEF IInv, TypeOK, DataTypeOK
<1>. QED
  BY <1>1, <1>2

\* The sale a void has locked.
LEMMA VoidedSale ==
    ASSUME IInv, NEW r \in Requests, pc[r] \in {"posting", "movement"}, cmd[r].op = "void"
    PROVE  /\ cmd[r].sale \in Requests
           /\ sales[cmd[r].sale] \in SaleRecord
           /\ sales[cmd[r].sale].status = "COMPLETED"
           /\ <<"sale", cmd[r].sale>> \in held[r]
           /\ Representable(TotalCOGS(sales[cmd[r].sale].lines))
<1>1. cmd[r].sale \in Requests
  BY RunningCommand DEF VoidCommand
<1>2. Voidable(cmd[r].sale) /\ <<"sale", cmd[r].sale>> \in held[r]
  BY DEF IInv, SessionInv, VoidHoldsSale, Doing
<1>. QED
  BY <1>1, <1>2 DEF Voidable, IInv, TypeOK, DataTypeOK, SessionInv, SaleIsOver

LEMMA VoidType ==
    ASSUME IInv, NEW r \in Requests, VoidTransaction(r)
    PROVE  TypeOK'
<1>1. CASE Fail(r, "rejected")
  BY <1>1, FailType DEF IInv, Outcomes
<1>2. CASE LockSale(r) /\ ~Fail(r, "rejected")
  <2>. DEFINE t == cmd[r].sale
              D == DOMAIN sales[t].lines
  <2>1. /\ Voidable(t)
        /\ held' = [held EXCEPT ![r] = @ \cup {<<"sale", t>>}]
        /\ toPost' = [toPost EXCEPT ![r] = D]
        /\ pc' = [pc EXCEPT ![r] = "posting"]
        /\ UNCHANGED <<data, cmd, view, seen, work, toLock, line, moves>>
    BY <1>2 DEF LockSale, Lock, Goto
  <2>2. t \in Requests /\ <<"sale", t>> \in Row
    BY <1>2, RunningCommand, RowType DEF LockSale, VoidCommand
  <2>3. sales[t].lines \in Seq(SaleLine)
    BY <2>1, <2>2 DEF Voidable, IInv, TypeOK, DataTypeOK, SaleRecord
  <2>4. D \in SUBSET Nat
    BY <2>3, LenProperties
  <2>. HIDE DEF t, D
  <2>. QED
    BY <2>1, <2>2, <2>4 DEF IInv, TypeOK, DataTypeOK, SessionTypeOK, Steps, data
<1>3. CASE CommitVoid(r) /\ ~Fail(r, "rejected")
  <2>. DEFINE t == cmd[r].sale
              entry == VoidEntry(t, sales[t])
  <2>1. /\ pc[r] = "posting" /\ cmd[r].op = "void"
        /\ sales' = [sales EXCEPT ![t].status = "VOIDED"]
        /\ journal' = journal \cup {entry}
        /\ Publish(r)
        /\ UNCHANGED <<catalog, audits>>
        /\ End(r, "done")
    BY <1>3 DEF CommitVoid, LinesPosted
  <2>2. t \in Requests /\ sales[t] \in SaleRecord /\ entry \in EntryRow
    BY <2>1, VoidedSale, SaleEntryType
  <2>3. SessionTypeOK'
    BY <2>1, EndType DEF IInv, TypeOK, Outcomes
  <2>. HIDE DEF t, entry
  <2>4. [sales[t] EXCEPT !.status = "VOIDED"] \in SaleRecord
    BY <2>2 DEF SaleRecord
  <2>5. sales' \in [Requests -> SaleRecord \cup {NoRow}]
    BY <2>1, <2>2, <2>4 DEF IInv, TypeOK, DataTypeOK
  <2>6. journal' \in SUBSET EntryRow
    BY <2>1, <2>2 DEF IInv, TypeOK, DataTypeOK
  <2>7. stock' \in [Products -> Nat] /\ movements' \in SUBSET MovementRow
    BY <2>1, PublishType DEF IInv
  <2>. QED
    BY <2>1, <2>3, <2>5, <2>6, <2>7 DEF IInv, TypeOK, DataTypeOK
<1>. QED
  BY <1>1, <1>2, <1>3 DEF VoidTransaction

\* The delta of an adjustment, and what it leaves on hand.
LEMMA DeltaType ==
    ASSUME NEW c \in AdjustCommand, NEW onHand \in Nat
    PROVE  /\ AdjustmentDelta(c, onHand) \in Int
           /\ AdjustmentAccepted(c, onHand) => onHand + AdjustmentDelta(c, onHand) \in Nat
  BY DEF AdjustmentDelta, AdjustmentAccepted, AdjustCommand

LEMMA AdjustmentEntriesType ==
    ASSUME NEW r \in Requests, NEW delta \in Int, NEW cost \in Nat
    PROVE  AdjustmentEntries(r, delta, cost) \in SUBSET EntryRow
<1>1. ASSUME NEW a \in Accounts, NEW x \in Int
      PROVE  Debit(a, x) \in Line /\ Credit(a, x) \in Line
  BY DEF Debit, Credit, Line
<1>2. Inventory \in Accounts /\ Shrinkage \in Accounts
  BY DEF Accounts
<1>3. delta * cost \in Int /\ -delta * cost \in Int
  OBVIOUS
<1>4. AdjustmentLines(delta, cost) \in Seq(Line)
  BY <1>1, <1>2, <1>3 DEF AdjustmentLines
<1>. QED
  BY <1>4 DEF AdjustmentEntries, Entry, EntryRow

LEMMA AdjustType ==
    ASSUME IInv, NEW r \in Requests, AdjustStock(r)
    PROVE  TypeOK'
<1>. DEFINE p == cmd[r].product
<1>0. CASE Fail(r, "rejected")
  BY <1>0, FailType DEF IInv, Outcomes
<1>1. pc[r] \in {"readCost", "count", "audit"}
  BY DEF AdjustStock, ReadCost, LockForCount, CommitAdjustment
<1>2. cmd[r] \in AdjustCommand /\ p \in Products
  BY <1>1, RunningCommand DEF AdjustCommand
<1>3. CASE ReadCost(r) /\ ~Fail(r, "rejected")
  <2>1. /\ catalog[p] # NoRow
        /\ view' = [view EXCEPT ![r][p] = catalog[p]]
        /\ pc' = [pc EXCEPT ![r] = "count"]
        /\ UNCHANGED <<data, cmd, held, seen, work, toLock, toPost, line, moves>>
    BY <1>3 DEF ReadCost, Goto
  <2>. HIDE DEF p
  <2>. QED
    BY <1>2, <2>1 DEF IInv, TypeOK, DataTypeOK, SessionTypeOK, Steps, data
<1>4. CASE LockForCount(r) /\ ~Fail(r, "rejected")
  <2>. DEFINE step == IF AdjustmentDelta(cmd[r], stock[p]) = 0 THEN "audit" ELSE "movement"
  <2>1. /\ held' = [held EXCEPT ![r] = @ \cup {<<"inventory", p>>}]
        /\ ReadBalance(r, p)
        /\ pc' = [pc EXCEPT ![r] = step]
        /\ UNCHANGED <<data, cmd, view, toLock, toPost, line, moves>>
    BY <1>4 DEF LockForCount, Lock, Goto
  <2>2. step \in Steps /\ <<"inventory", p>> \in Row
    BY <1>2, RowType DEF Steps
  <2>. HIDE DEF p, step
  <2>3. seen' \in [Requests -> [Products -> Nat]] /\ work' \in [Requests -> [Products -> Nat]]
    BY <1>2, <2>1, ReadBalanceType DEF IInv
  <2>. QED
    BY <2>1, <2>2, <2>3 DEF IInv, TypeOK, DataTypeOK, SessionTypeOK, data
<1>5. CASE CommitAdjustment(r)
  <2>. DEFINE onHand == seen[r][p]
              delta == AdjustmentDelta(cmd[r], onHand)
              cost == view[r][p].cost
  <2>1. /\ pc[r] = "audit"
        /\ journal' = journal \cup AdjustmentEntries(r, delta, cost)
        /\ audits' = audits \cup {AuditRow(r, p, onHand, delta)}
        /\ Publish(r)
        /\ UNCHANGED <<catalog, sales>>
        /\ End(r, "done")
    BY <1>5 DEF CommitAdjustment
  <2>2. onHand \in Nat
    BY <1>2 DEF IInv, TypeOK, SessionTypeOK
  <2>3. Doing(r, "adjust", {"count", "movement", "audit"}) /\ Doing(r, "adjust", {"movement", "audit"})
    BY <2>1, RunningCommand DEF Doing
  <2>4. view[r][p] # NoRow /\ AdjustmentAccepted(cmd[r], onHand)
    BY <2>3 DEF IInv, SessionInv, AdjustsKnownProduct
  <2>5. cost \in Nat
    BY <1>2, <2>4 DEF IInv, TypeOK, SessionTypeOK, ProductRow
  <2>6. delta \in Int /\ onHand + delta \in Nat
    BY <1>2, <2>2, <2>4, DeltaType
  <2>7. SessionTypeOK'
    BY <2>1, EndType DEF IInv, TypeOK, Outcomes
  <2>. HIDE DEF p, onHand, delta, cost
  <2>8. AuditRow(r, p, onHand, delta) \in AuditRecord
    BY <1>2, <2>2, <2>6 DEF AuditRow, AuditRecord
  <2>9. AdjustmentEntries(r, delta, cost) \in SUBSET EntryRow
    BY <2>5, <2>6, AdjustmentEntriesType
  <2>10. stock' \in [Products -> Nat] /\ movements' \in SUBSET MovementRow
    BY <2>1, PublishType DEF IInv
  <2>. QED
    BY <2>1, <2>7, <2>8, <2>9, <2>10 DEF IInv, TypeOK, DataTypeOK
<1>. QED
  BY <1>0, <1>3, <1>4, <1>5 DEF AdjustStock

\* The row an edit leaves behind.
LEMMA EditedType ==
    ASSUME TypeOK, NEW c \in Commands,
           \/ c.op = "update" /\ c \in UpdateCommand
           \/ c.op = "delete" /\ c \in DeleteCommand,
           catalog[c.product] # NoRow
    PROVE  c.product \in Products /\ Edited(c) \in ProductRow
<1>1. c.product \in Products
  BY DEF UpdateCommand, DeleteCommand
<1>2. catalog[c.product] \in ProductRow
  BY <1>1 DEF TypeOK, DataTypeOK
<1>3. [catalog[c.product] EXCEPT !.active = FALSE] \in ProductRow
  BY <1>2 DEF ProductRow
<1>. QED
  BY <1>1, <1>3 DEF Edited, UpdateCommand

LEMMA MaintainType ==
    ASSUME IInv, NEW r \in Requests, Maintain(r)
    PROVE  TypeOK'
<1>. DEFINE p == cmd[r].product
<1>0. CASE Fail(r, "rejected")
  BY <1>0, FailType DEF IInv, Outcomes
<1>1. pc[r] \in {"lockProduct", "reorder", "commit", "create"}
  BY DEF Maintain, LockForEdit, UpdateInventoryRow, CommitEdit, CreateProduct
<1>2. p \in Products /\ <<"product", p>> \in Row /\ <<"inventory", p>> \in Row
  BY <1>1, RunningCommand, RowType DEF UpdateCommand, DeleteCommand, CreateCommand
<1>3. CASE LockForEdit(r) /\ ~Fail(r, "rejected")
  <2>. DEFINE step == IF cmd[r].op = "update" /\ cmd[r].reorder THEN "reorder" ELSE "commit"
  <2>1. /\ held' = [held EXCEPT ![r] = @ \cup {<<"product", p>>}]
        /\ pc' = [pc EXCEPT ![r] = step]
        /\ UNCHANGED <<data, cmd, view, seen, work, toLock, toPost, line, moves>>
    BY <1>3 DEF LockForEdit, Lock, Goto
  <2>2. step \in Steps
    BY DEF Steps
  <2>. HIDE DEF p, step
  <2>. QED
    BY <1>2, <2>1, <2>2 DEF IInv, TypeOK, DataTypeOK, SessionTypeOK, data
<1>4. CASE UpdateInventoryRow(r)
  <2>1. /\ held' = [held EXCEPT ![r] = @ \cup {<<"inventory", p>>}]
        /\ ReadBalance(r, p)
        /\ pc' = [pc EXCEPT ![r] = "commit"]
        /\ UNCHANGED <<data, cmd, view, toLock, toPost, line, moves>>
    BY <1>4 DEF UpdateInventoryRow, Lock, Goto
  <2>. HIDE DEF p
  <2>2. seen' \in [Requests -> [Products -> Nat]] /\ work' \in [Requests -> [Products -> Nat]]
    BY <1>2, <2>1, ReadBalanceType DEF IInv
  <2>. QED
    BY <1>2, <2>1, <2>2 DEF IInv, TypeOK, DataTypeOK, SessionTypeOK, Steps, data
<1>5. CASE CommitEdit(r)
  <2>1. /\ pc[r] = "commit"
        /\ catalog' = [catalog EXCEPT ![p] = Edited(cmd[r])]
        /\ UNCHANGED <<stock, movements, sales, journal, audits>>
        /\ End(r, "done")
    BY <1>5 DEF CommitEdit
  <2>2. catalog[p] # NoRow
    BY <1>2, <2>1 DEF IInv, SessionInv, EditHoldsProduct, LockedRowsExist
  <2>3. Edited(cmd[r]) \in ProductRow
    BY <2>1, <2>2, RunningCommand, EditedType DEF IInv
  <2>4. SessionTypeOK'
    BY <2>1, EndType DEF IInv, TypeOK, Outcomes
  <2>. HIDE DEF p
  <2>. QED
    BY <1>2, <2>1, <2>3, <2>4 DEF IInv, TypeOK, DataTypeOK
<1>6. CASE CreateProduct(r) /\ ~Fail(r, "rejected")
  <2>. DEFINE opening == OpeningMovements(p, cmd[r].initial)
  <2>1. /\ pc[r] = "create"
        /\ catalog' = [catalog EXCEPT ![p] = cmd[r].row]
        /\ stock' = [stock EXCEPT ![p] = cmd[r].initial]
        /\ movements' = movements \cup opening
        /\ UNCHANGED <<sales, journal, audits>>
        /\ End(r, "done")
    BY <1>6 DEF CreateProduct
  <2>2. cmd[r].row \in ProductRow /\ cmd[r].initial \in Nat
    BY <2>1, RunningCommand DEF CreateCommand
  <2>3. opening \in SUBSET MovementRow
    BY <1>2, <2>2 DEF OpeningMovements, Movement, MovementRow
  <2>4. SessionTypeOK'
    BY <2>1, EndType DEF IInv, TypeOK, Outcomes
  <2>. HIDE DEF p, opening
  <2>. QED
    BY <1>2, <2>1, <2>2, <2>3, <2>4 DEF IInv, TypeOK, DataTypeOK
<1>. QED
  BY <1>0, <1>3, <1>4, <1>5, <1>6 DEF Maintain

\* Every step keeps the types.
LEMMA TypeStep == IInv /\ [Next]_vars => TypeOK'
<1>. SUFFICES ASSUME IInv, [Next]_vars PROVE TypeOK'
  OBVIOUS
<1>1. CASE UNCHANGED vars
  BY <1>1 DEF IInv, TypeOK, DataTypeOK, SessionTypeOK, vars, data, session
<1>2. ASSUME NEW r \in Requests, Begin(r) \/ Abort(r) \/ Proceed(r)
      PROVE  TypeOK'
  <2>1. CASE Begin(r)
    BY <2>1, BeginType
  <2>2. CASE Abort(r) \/ LoseDeadlock(r)
    <3>1. \E o \in Outcomes : Fail(r, o)
      BY <2>2 DEF Abort, LoseDeadlock, Outcomes
    <3>. QED
      BY <3>1, FailType DEF IInv
  <2>3. CASE Checkout(r)
    BY <2>3, CheckoutType, CommitSaleType DEF Checkout
  <2>4. CASE VoidTransaction(r) \/ PostMovementTx(r) \/ AdjustStock(r) \/ Maintain(r)
    BY <2>4, VoidType, PostMovementType, AdjustType, MaintainType
  <2>. QED
    BY <1>2, <2>1, <2>2, <2>3, <2>4 DEF Proceed
<1>. QED
  BY <1>1, <1>2 DEF Next

Step(r) == Begin(r) \/ Abort(r) \/ Proceed(r)

-----------------------------------------------------------------------------
(***************************************************************************)
(* What a step changes.                                                    *)
(***************************************************************************)
\* Everything a session does to itself, it does to itself only.
LEMMA EndFrame ==
    ASSUME TypeOK, NEW r \in Requests, NEW o, End(r, o), NEW q \in Requests, q # r
    PROVE  /\ pc'[q] = pc[q] /\ cmd'[q] = cmd[q] /\ held'[q] = held[q] /\ view'[q] = view[q]
           /\ seen'[q] = seen[q] /\ work'[q] = work[q] /\ toLock'[q] = toLock[q]
           /\ toPost'[q] = toPost[q] /\ line'[q] = line[q] /\ moves'[q] = moves[q]
  BY DEF TypeOK, SessionTypeOK, End, Goto

LEMMA OthersUntouched ==
    ASSUME TypeOK, NEW r \in Requests, Step(r), NEW q \in Requests, q # r
    PROVE  /\ pc'[q] = pc[q] /\ cmd'[q] = cmd[q] /\ held'[q] = held[q] /\ view'[q] = view[q]
           /\ seen'[q] = seen[q] /\ work'[q] = work[q] /\ toLock'[q] = toLock[q]
           /\ toPost'[q] = toPost[q] /\ line'[q] = line[q] /\ moves'[q] = moves[q]
<1>1. CASE \E o : End(r, o)
  BY <1>1, EndFrame
<1>2. CASE ~\E o : End(r, o)
  <2>. USE DEF TypeOK, SessionTypeOK, Goto, Lock
  <2>1. CASE Begin(r)
    BY <2>1 DEF Begin
  <2>2. CASE Abort(r) \/ LoseDeadlock(r)
    BY <1>2, <2>2 DEF Abort, LoseDeadlock, Fail
  <2>3. CASE LookupKey(r) \/ QueryDone(r) \/ PriceOrder(r) \/ InsertSale(r)
    BY <1>2, <2>3 DEF LookupKey, QueryDone, PriceOrder, InsertSale, Fail
  <2>4. ASSUME NEW p \in Products, LockProductRow(r, p) \/ LockInventoryRow(r, p)
        PROVE  /\ pc'[q] = pc[q] /\ cmd'[q] = cmd[q] /\ held'[q] = held[q] /\ view'[q] = view[q]
               /\ seen'[q] = seen[q] /\ work'[q] = work[q] /\ toLock'[q] = toLock[q]
               /\ toPost'[q] = toPost[q] /\ line'[q] = line[q] /\ moves'[q] = moves[q]
    BY <2>4 DEF LockProductRow, LockInventoryRow
  <2>5. CASE CommitSale(r) \/ CommitVoid(r) \/ CommitAdjustment(r) \/ CommitEdit(r) \/ CreateProduct(r)
    BY <1>2, <2>5 DEF CommitSale, CommitVoid, CommitAdjustment, CommitEdit, CreateProduct, Fail
  <2>6. CASE PostMovementTx(r)
    <3>1. ASSUME NEW i \in toPost[r], LockForMovement(r, i)
          PROVE  /\ pc'[q] = pc[q] /\ cmd'[q] = cmd[q] /\ held'[q] = held[q] /\ view'[q] = view[q]
                 /\ seen'[q] = seen[q] /\ work'[q] = work[q] /\ toLock'[q] = toLock[q]
                 /\ toPost'[q] = toPost[q] /\ line'[q] = line[q] /\ moves'[q] = moves[q]
      <4>1. seen'[q] = seen[q] /\ work'[q] = work[q]
        BY <3>1 DEF LockForMovement, ReadBalance
      <4>. QED
        BY <3>1, <4>1 DEF LockForMovement
    <3>2. CASE InsertMovement(r)
      BY <1>2, <3>2 DEF InsertMovement, Fail
    <3>. QED
      BY <2>6, <3>1, <3>2 DEF PostMovementTx
  <2>7. CASE LockSale(r) \/ ReadCost(r) \/ LockForEdit(r)
    BY <1>2, <2>7 DEF LockSale, ReadCost, LockForEdit, Fail
  <2>8. CASE LockForCount(r) \/ UpdateInventoryRow(r)
    BY <1>2, <2>8 DEF LockForCount, UpdateInventoryRow, ReadBalance, Fail
  <2>. QED
    BY <2>1, <2>2, <2>3, <2>4, <2>5, <2>6, <2>7, <2>8
       DEF Step, Proceed, Checkout, VoidTransaction, AdjustStock, Maintain
<1>. QED
  BY <1>1, <1>2

\* Committed data change only when a session commits.
LEMMA DataChanges ==
    ASSUME NEW r \in Requests, Step(r)
    PROVE  \/ UNCHANGED data
           \/ CommitSale(r) /\ ~Fail(r, "rejected")
           \/ CommitVoid(r) /\ ~Fail(r, "rejected")
           \/ CommitAdjustment(r)
           \/ CommitEdit(r)
           \/ CreateProduct(r) /\ ~Fail(r, "rejected")
<1>1. CASE \E o : Fail(r, o)
  BY <1>1 DEF Fail
<1>2. CASE ~\E o : Fail(r, o)
  <2>1. CASE Begin(r) \/ Abort(r) \/ LoseDeadlock(r)
    BY <1>2, <2>1 DEF Begin, Abort, LoseDeadlock
  <2>2. CASE LookupKey(r) \/ QueryDone(r) \/ PriceOrder(r) \/ InsertSale(r)
    BY <1>2, <2>2 DEF LookupKey, QueryDone, PriceOrder, InsertSale
  <2>3. CASE \E p \in Products : LockProductRow(r, p) \/ LockInventoryRow(r, p)
    BY <2>3 DEF LockProductRow, LockInventoryRow
  <2>4. CASE PostMovementTx(r)
    BY <1>2, <2>4 DEF PostMovementTx, LockForMovement, InsertMovement
  <2>5. CASE LockSale(r) \/ ReadCost(r) \/ LockForEdit(r) \/ LockForCount(r) \/ UpdateInventoryRow(r)
    BY <1>2, <2>5 DEF LockSale, ReadCost, LockForEdit, LockForCount, UpdateInventoryRow
  <2>. QED
    BY <1>2, <2>1, <2>2, <2>3, <2>4, <2>5
       DEF Step, Proceed, Checkout, VoidTransaction, AdjustStock, Maintain
<1>. QED
  BY <1>1, <1>2

\* A step takes at most one lock, and only one that no other session excludes, or
\* it gives all its locks back.
LEMMA LocksTaken ==
    ASSUME TypeOK, NEW r \in Requests, Step(r)
    PROVE  \/ held'[r] = held[r]
           \/ held'[r] = {}
           \/ \E row : MayLock(r, row) /\ held'[r] = held[r] \cup {row}
<1>0. /\ \A o : End(r, o) => held'[r] = {}
      /\ \A o : Fail(r, o) => held'[r] = {}
      /\ \A row : Lock(r, row) => held'[r] = held[r] \cup {row}
      /\ UNCHANGED held => held'[r] = held[r]
  BY DEF TypeOK, SessionTypeOK, End, Fail, Lock
<1>1. CASE Begin(r) \/ Abort(r) \/ LoseDeadlock(r)
  BY <1>0, <1>1 DEF Begin, Abort, LoseDeadlock
<1>2. CASE LookupKey(r) \/ QueryDone(r) \/ PriceOrder(r) \/ InsertSale(r)
  BY <1>0, <1>2 DEF LookupKey, QueryDone, PriceOrder, InsertSale
<1>3. CASE \E p \in Products : LockProductRow(r, p) \/ LockInventoryRow(r, p)
  BY <1>0, <1>3 DEF LockProductRow, LockInventoryRow
<1>4. CASE CommitSale(r) \/ CommitVoid(r) \/ CommitAdjustment(r) \/ CommitEdit(r) \/ CreateProduct(r)
  BY <1>0, <1>4 DEF CommitSale, CommitVoid, CommitAdjustment, CommitEdit, CreateProduct
<1>5. CASE PostMovementTx(r)
  BY <1>0, <1>5 DEF PostMovementTx, LockForMovement, InventoryForUpdate, InsertMovement
<1>6. CASE LockSale(r) \/ ReadCost(r) \/ LockForEdit(r) \/ LockForCount(r) \/ UpdateInventoryRow(r)
  BY <1>0, <1>6
     DEF LockSale, TransactionForUpdate, ReadCost, LockForEdit, ProductForUpdate,
         LockForCount, InventoryForUpdate, UpdateInventoryRow
<1>. QED
  BY <1>1, <1>2, <1>3, <1>4, <1>5, <1>6
     DEF Step, Proceed, Checkout, VoidTransaction, AdjustStock, Maintain

\* Catalog rows never go away, and change only under their lock.
LEMMA CatalogChanges ==
    ASSUME IInv, NEW r \in Requests, Step(r), NEW p \in Products
    PROVE  /\ catalog[p] # NoRow => catalog'[p] # NoRow
           /\ catalog'[p] # catalog[p] =>
                 catalog[p] = NoRow \/ <<"product", p>> \in held[r]
<1>1. CASE UNCHANGED catalog
  BY <1>1
<1>2. CASE CommitEdit(r)
  <2>1. pc[r] = "commit" /\ catalog' = [catalog EXCEPT ![cmd[r].product] = Edited(cmd[r])]
    BY <1>2 DEF CommitEdit
  <2>2. <<"product", cmd[r].product>> \in held[r]
    BY <2>1 DEF IInv, SessionInv, EditHoldsProduct
  <2>3. cmd[r].product \in Products
    BY <2>1, RunningCommand DEF UpdateCommand, DeleteCommand
  <2>4. catalog[cmd[r].product] # NoRow
    BY <2>2, <2>3 DEF IInv, SessionInv, LockedRowsExist
  <2>5. Edited(cmd[r]) # NoRow
    BY <2>1, <2>4, RunningCommand, EditedType, StoreAssumption DEF IInv
  <2>. QED
    BY <2>1, <2>2, <2>5 DEF IInv, TypeOK, DataTypeOK
<1>3. CASE CreateProduct(r) /\ ~Fail(r, "rejected")
  <2>1. /\ catalog[cmd[r].product] = NoRow
        /\ catalog' = [catalog EXCEPT ![cmd[r].product] = cmd[r].row]
    BY <1>3 DEF CreateProduct
  <2>. QED
    BY <2>1 DEF IInv, TypeOK, DataTypeOK
<1>4. UNCHANGED catalog \/ CommitEdit(r) \/ (CreateProduct(r) /\ ~Fail(r, "rejected"))
  BY DataChanges DEF data, CommitSale, CommitVoid, CommitAdjustment
<1>. QED
  BY <1>1, <1>2, <1>3, <1>4

\* A balance changes only under its lock, or with the creation of its row.
LEMMA StockChanges ==
    ASSUME IInv, NEW r \in Requests, Step(r), NEW p \in Products, stock'[p] # stock[p]
    PROVE  catalog[p] = NoRow \/ <<"inventory", p>> \in held[r]
<1>1. CASE Publish(r)
  BY <1>1 DEF Publish
<1>2. CASE CreateProduct(r) /\ ~Fail(r, "rejected")
  <2>1. /\ catalog[cmd[r].product] = NoRow
        /\ stock' = [stock EXCEPT ![cmd[r].product] = cmd[r].initial]
    BY <1>2 DEF CreateProduct
  <2>. QED
    BY <2>1 DEF IInv, TypeOK, DataTypeOK
<1>3. UNCHANGED stock \/ Publish(r) \/ (CreateProduct(r) /\ ~Fail(r, "rejected"))
  BY DataChanges DEF data, CommitSale, CommitVoid, CommitAdjustment, CommitEdit
<1>. QED
  BY <1>1, <1>2, <1>3

\* A sale is written once, by the request that holds its key, and then only
\* voided, by a request that has locked it.
LEMMA SalesChange ==
    ASSUME IInv, NEW r \in Requests, Step(r), NEW t \in Requests, sales'[t] # sales[t]
    PROVE  \/ /\ t = r
              /\ sales[r] = NoRow
              /\ CommitSale(r)
              /\ pc[r] = "posting" /\ cmd[r].op = "checkout"
              /\ sales'[r] = SaleRow(cmd[r], PostedLines(r))
              /\ <<"key", cmd[r].key>> \in held[r]
              /\ ~Sold(cmd[r].key)
           \/ /\ sales[t] \in SaleRecord
              /\ <<"sale", t>> \in held[r]
              /\ sales'[t] = [sales[t] EXCEPT !.status = "VOIDED"]
<1>1. CASE CommitSale(r) /\ ~Fail(r, "rejected")
  <2>1. /\ pc[r] = "posting" /\ cmd[r].op = "checkout"
        /\ sales' = [sales EXCEPT ![r] = SaleRow(cmd[r], PostedLines(r))]
    BY <1>1 DEF CommitSale, LinesPosted
  <2>2. sales[r] = NoRow
    BY <2>1 DEF IInv, SessionInv, SaleIsOver
  <2>3. <<"key", cmd[r].key>> \in held[r] /\ ~Sold(cmd[r].key)
    BY <2>1 DEF IInv, SessionInv, CheckedOrder, Doing
  <2>. QED
    BY <1>1, <2>1, <2>2, <2>3 DEF IInv, TypeOK, DataTypeOK
<1>2. CASE CommitVoid(r) /\ ~Fail(r, "rejected")
  <2>1. /\ pc[r] = "posting" /\ cmd[r].op = "void"
        /\ sales' = [sales EXCEPT ![cmd[r].sale].status = "VOIDED"]
    BY <1>2 DEF CommitVoid, LinesPosted
  <2>2. sales[cmd[r].sale] \in SaleRecord /\ <<"sale", cmd[r].sale>> \in held[r]
    BY <2>1, VoidedSale
  <2>. QED
    BY <2>1, <2>2 DEF IInv, TypeOK, DataTypeOK
<1>3. \/ UNCHANGED sales
      \/ CommitSale(r) /\ ~Fail(r, "rejected")
      \/ CommitVoid(r) /\ ~Fail(r, "rejected")
  BY DataChanges DEF data, CommitAdjustment, CommitEdit, CreateProduct
<1>. QED
  BY <1>1, <1>2, <1>3

-----------------------------------------------------------------------------
(***************************************************************************)
(* Between sessions.                                                       *)
(***************************************************************************)
LEMMA RivalsSymmetric ==
    ASSUME NEW a, NEW b, a \in Rivals(b), b \in Row
    PROVE  b \in Rivals(a)
  BY DEF Rivals, Row

LEMMA LocksExclusiveStep ==
    ASSUME IInv, NEW r \in Requests, Step(r)
    PROVE  LocksExclusive'
<1>. SUFFICES ASSUME NEW s \in Requests, NEW q \in Requests, s # q,
                     NEW a \in held'[s], NEW b \in held'[q], a \in Rivals(b)
              PROVE  FALSE
  BY DEF LocksExclusive, Rivals
<1>0. TypeOK /\ TypeOK'
  BY TypeStep DEF IInv, Next, Step
<1>1. a \in Row /\ b \in Row /\ b \in Rivals(a)
  BY <1>0, RivalsSymmetric DEF TypeOK, SessionTypeOK
<1>2. CASE s # r /\ q # r
  BY <1>0, <1>2, OthersUntouched DEF IInv, LocksExclusive
<1>3. CASE s = r
  <2>1. b \in held[q]
    BY <1>0, <1>3, OthersUntouched
  <2>2. a \notin held[r]
    BY <1>3, <2>1 DEF IInv, LocksExclusive
  <2>3. MayLock(r, a)
    BY <1>0, <1>3, <2>2, LocksTaken
  <2>. QED
    BY <1>1, <1>3, <2>1, <2>3 DEF MayLock
<1>4. CASE q = r
  <2>1. a \in held[s]
    BY <1>0, <1>4, OthersUntouched
  <2>2. b \notin held[r]
    BY <1>4, <2>1 DEF IInv, LocksExclusive
  <2>3. MayLock(r, b)
    BY <1>0, <1>4, <2>2, LocksTaken
  <2>. QED
    BY <1>4, <2>1, <2>3 DEF MayLock
<1>. QED
  BY <1>2, <1>3, <1>4

\* What one session has locked FOR UPDATE, no other has.
LEMMA OneOwner ==
    ASSUME IInv, NEW r \in Requests, NEW q \in Requests, q # r, NEW x,
           NEW kind \in {"product", "inventory", "sale", "key"}, <<kind, x>> \in held[q]
    PROVE  <<kind, x>> \notin held[r]
<1>1. <<kind, x>> \in Rivals(<<kind, x>>)
  BY DEF Rivals
<1>. QED
  BY <1>1 DEF IInv, LocksExclusive

\* What the locks of a session guarantee it while others move.
LEMMA Guarantees ==
    ASSUME IInv, NEW r \in Requests, Step(r), NEW q \in Requests, q # r
    PROVE  /\ \A p \in Products : <<"product", p>> \in held[q] => catalog'[p] = catalog[p]
           /\ \A p \in Products : <<"inventory", p>> \in held[q] => stock'[p] = stock[p]
           /\ \A t \in Requests : <<"sale", t>> \in held[q] /\ sales[t] # NoRow
                                     => sales'[t] = sales[t]
           /\ \A k : <<"key", k>> \in held[q] /\ ~Sold(k) => ~Sold(k)'
<1>1. SessionInv(q)
  BY DEF IInv
<1>2. \A p \in Products : <<"product", p>> \in held[q] => catalog'[p] = catalog[p]
  BY <1>1, CatalogChanges, OneOwner DEF SessionInv, LockedRowsExist
<1>3. \A p \in Products : <<"inventory", p>> \in held[q] => stock'[p] = stock[p]
  BY <1>1, StockChanges, OneOwner DEF SessionInv, LockedRowsExist
<1>4. \A t \in Requests : <<"sale", t>> \in held[q] /\ sales[t] # NoRow => sales'[t] = sales[t]
  BY SalesChange, OneOwner
<1>5. ASSUME NEW k, <<"key", k>> \in held[q], ~Sold(k)
      PROVE  ~Sold(k)'
  <2>1. SUFFICES ASSUME NEW t \in Requests, sales'[t] # NoRow, sales'[t].key = k
                 PROVE  FALSE
    BY DEF Sold
  <2>2. sales'[t] # sales[t]
    BY <1>5, <2>1 DEF Sold
  <2>3. CASE sales'[t] = SaleRow(cmd[r], PostedLines(r)) /\ <<"key", cmd[r].key>> \in held[r]
    <3>1. cmd[r].key = k
      BY <2>1, <2>3 DEF SaleRow
    <3>2. <<"key", k>> \notin held[r]
      BY <1>5, OneOwner
    <3>. QED
      BY <2>3, <3>1, <3>2
  <2>4. CASE sales[t] \in SaleRecord /\ sales'[t] = [sales[t] EXCEPT !.status = "VOIDED"]
    BY <1>5, <2>1, <2>4, StoreAssumption DEF Sold, SaleRecord
  <2>. QED
    BY <2>2, <2>3, <2>4, SalesChange
<1>. QED
  BY <1>2, <1>3, <1>4, <1>5

\* A sale, once written, keeps its key and its lines.
LEMMA SalesKept ==
    ASSUME IInv, NEW r \in Requests, Step(r), NEW t \in Requests, sales[t] # NoRow
    PROVE  /\ sales'[t] # NoRow
           /\ sales'[t].key = sales[t].key
           /\ sales'[t].lines = sales[t].lines
<1>1. CASE sales'[t] = sales[t]
  BY <1>1
<1>2. CASE sales[t] \in SaleRecord /\ sales'[t] = [sales[t] EXCEPT !.status = "VOIDED"]
  <2>1. sales'[t] \in SaleRecord
    BY <1>2 DEF SaleRecord
  <2>. QED
    BY <1>2, <2>1, StoreAssumption DEF SaleRecord
<1>. QED
  BY <1>1, <1>2, SalesChange

LEMMA LineType ==
    ASSUME NEW lines \in Seq(SaleLine), NEW i \in DOMAIN lines
    PROVE  lines[i] \in SaleLine
<1>1. DOMAIN lines = 1 .. Len(lines) /\ Len(lines) \in Nat
  BY LenProperties
<1>. QED
  BY <1>1, ElementOfSeq

\* The session of another request keeps what it relies on.
LEMMA OthersKeep ==
    ASSUME IInv, NEW r \in Requests, Step(r), NEW q \in Requests, q # r
    PROVE  SessionInv(q)'
<1>0. SessionInv(q) /\ TypeOK /\ TypeOK'
  BY TypeStep DEF IInv, Next, Step
<1>1. /\ pc'[q] = pc[q] /\ cmd'[q] = cmd[q] /\ held'[q] = held[q] /\ view'[q] = view[q]
      /\ seen'[q] = seen[q] /\ toLock'[q] = toLock[q]
      /\ toPost'[q] = toPost[q] /\ line'[q] = line[q]
  BY <1>0, OthersUntouched
<1>2. StepFitsCommand(q)'
  BY <1>0, <1>1 DEF SessionInv, StepFitsCommand
<1>3. LockedRowsExist(q)'
  BY <1>0, <1>1, CatalogChanges DEF SessionInv, LockedRowsExist
<1>4. LockedViewIsCurrent(q)'
  BY <1>0, <1>1, Guarantees DEF SessionInv, LockedViewIsCurrent, Doing
<1>5. CheckedOrder(q)'
  BY <1>0, <1>1, Guarantees DEF SessionInv, CheckedOrder, Doing, OnSale
<1>6. ASSUME Doing(q, "void", {"posting", "movement"})
      PROVE  /\ sales'[cmd[q].sale] = sales[cmd[q].sale]
             /\ Voidable(cmd[q].sale)
             /\ <<"sale", cmd[q].sale>> \in held[q]
  <2>1. cmd[q].sale \in Requests /\ <<"sale", cmd[q].sale>> \in held[q] /\ Voidable(cmd[q].sale)
    BY <1>0, <1>6, VoidedSale DEF Doing, SessionInv, VoidHoldsSale
  <2>. QED
    BY <2>1, Guarantees DEF Voidable
<1>7. VoidHoldsSale(q)'
  BY <1>1, <1>6 DEF VoidHoldsSale, Doing, Voidable
<1>8. LinesOfDocument(q)'
  BY <1>0, <1>1, <1>6 DEF SessionInv, LinesOfDocument, Doing
<1>9. AdjustsKnownProduct(q)'
  BY <1>0, <1>1 DEF SessionInv, AdjustsKnownProduct, Doing
<1>10. EditHoldsProduct(q)'
  BY <1>0, <1>1 DEF SessionInv, EditHoldsProduct
<1>11. SaleIsOver(q)'
  <2>1. SUFFICES ASSUME sales'[q] # NoRow PROVE SaleIsOver(q)'
    BY DEF SaleIsOver
  <2>2. sales[q] # NoRow
    BY <2>1, SalesChange, StoreAssumption
  <2>3. sales'[q].lines = sales[q].lines
    BY <2>2, SalesKept
  <2>4. sales[q].lines \in Seq(SaleLine)
    BY <1>0, <2>2 DEF TypeOK, DataTypeOK, SaleRecord
  <2>5. \A i \in DOMAIN sales[q].lines : sales[q].lines[i].product \in Products
    BY <2>4, LineType DEF SaleLine
  <2>. QED
    BY <1>0, <1>1, <2>2, <2>3, <2>5, CatalogChanges DEF SessionInv, SaleIsOver
<1>. QED
  BY <1>2, <1>3, <1>4, <1>5, <1>7, <1>8, <1>9, <1>10, <1>11 DEF SessionInv

-----------------------------------------------------------------------------
(***************************************************************************)
(* The session that moves.                                                 *)
(***************************************************************************)
\* Only a request that is idle or running moves, so its sale is not written yet.
LEMMA MoverHasNoSale ==
    ASSUME IInv, NEW r \in Requests, Step(r)
    PROVE  pc[r] # "done" /\ sales[r] = NoRow
<1>1. ASSUME LoseDeadlock(r)
      PROVE  pc[r] # "done"
  <2>. DEFINE wanted == [q \in Requests |-> Wanted(q)]
  <2>0. \E q \in Requests : WaitsFor(wanted, r, q)
    <3>1. PICK n \in 2..Cardinality(Requests) : \E circle \in [1..n -> Requests] :
              /\ circle[1] = r
              /\ \A i \in 1..n : WaitsFor(wanted, circle[i], circle[(i % n) + 1])
      BY <1>1 DEF LoseDeadlock, Deadlocked, InCircle
    <3>2. PICK circle \in [1..n -> Requests] :
              /\ circle[1] = r
              /\ \A i \in 1..n : WaitsFor(wanted, circle[i], circle[(i % n) + 1])
      BY <3>1
    <3>3. n \in Int /\ n >= 2 /\ 1 % n = 1
      <4>1. n \in Int /\ n >= 2
        OBVIOUS
      <4>. QED
        BY <4>1
    <3>4. WaitsFor(wanted, circle[1], circle[2])
      BY <3>2, <3>3
    <3>. QED
      BY <3>2, <3>3, <3>4
  <2>1. Wanted(r) # {}
    BY <2>0 DEF WaitsFor
  <2>. QED
    BY <2>1 DEF Wanted
<1>2. pc[r] # "done"
  BY <1>1 DEF Step, Proceed, Begin, Abort, Running, Steps,
        Checkout, LookupKey, LockProductRow, LockInventoryRow, QueryDone, PriceOrder,
        InsertSale, CommitSale, VoidTransaction, LockSale, CommitVoid, LinesPosted,
        PostMovementTx, LockForMovement, InsertMovement,
        AdjustStock, ReadCost, LockForCount, CommitAdjustment,
        Maintain, LockForEdit, UpdateInventoryRow, CommitEdit, CreateProduct
<1>. QED
  BY <1>2 DEF IInv, SessionInv, SaleIsOver

\* A session that ends relies on nothing any more.
LEMMA EndKeeps ==
    ASSUME IInv, NEW r \in Requests, NEW o \in Outcomes, End(r, o),
           SaleIsOver(r)'
    PROVE  SessionInv(r)'
<1>1. /\ pc'[r] = o /\ held'[r] = {} /\ view'[r] = Nothing /\ toLock'[r] = {}
  BY DEF End, Goto, IInv, TypeOK, SessionTypeOK
<1>2. o \notin Steps
  BY DEF Outcomes, Steps
<1>3. StepFitsCommand(r)'
  BY <1>1, <1>2 DEF StepFitsCommand, Outcomes
<1>4. LockedRowsExist(r)'
  BY <1>1 DEF LockedRowsExist, Nothing
<1>5. /\ LockedViewIsCurrent(r)' /\ CheckedOrder(r)' /\ VoidHoldsSale(r)'
      /\ LinesOfDocument(r)' /\ AdjustsKnownProduct(r)' /\ EditHoldsProduct(r)'
  BY <1>1, <1>2 DEF Doing, LockedViewIsCurrent, CheckedOrder, VoidHoldsSale, LinesOfDocument,
                    AdjustsKnownProduct, EditHoldsProduct, Outcomes
<1>. QED
  BY <1>3, <1>4, <1>5 DEF SessionInv

LEMMA FailKeeps ==
    ASSUME IInv, NEW r \in Requests, NEW o \in Outcomes, Step(r), Fail(r, o)
    PROVE  SessionInv(r)'
<1>1. sales'[r] = NoRow
  BY MoverHasNoSale DEF Fail, data
<1>. QED
  BY <1>1, EndKeeps DEF Fail, SaleIsOver

\* A commit ends the session; a sale's leaves the sale behind.
LEMMA CommitKeeps ==
    ASSUME IInv, NEW r \in Requests, Step(r),
           \/ CommitSale(r) /\ ~Fail(r, "rejected")
           \/ CommitVoid(r) /\ ~Fail(r, "rejected")
           \/ CommitAdjustment(r)
           \/ CommitEdit(r)
           \/ CreateProduct(r) /\ ~Fail(r, "rejected")
    PROVE  SessionInv(r)'
<1>1. End(r, "done") /\ "done" \in Outcomes
  BY DEF CommitSale, CommitVoid, CommitAdjustment, CommitEdit, CreateProduct, Outcomes
<1>2. pc'[r] = "done"
  BY <1>1 DEF End, Goto, IInv, TypeOK, SessionTypeOK
<1>3. sales[r] = NoRow
  BY MoverHasNoSale
<1>4. CASE sales'[r] = sales[r]
  BY <1>1, <1>3, <1>4, EndKeeps DEF SaleIsOver
<1>5. CASE sales'[r] # sales[r]
  <2>. DEFINE lines == PostedLines(r)
  <2>1. /\ pc[r] = "posting" /\ cmd[r].op = "checkout"
        /\ sales'[r] = SaleRow(cmd[r], lines)
    BY <1>3, <1>5, SalesChange, StoreAssumption
  <2>2. sales'[r].lines = lines /\ Representable(TotalCOGS(lines))
    BY <2>1, CommittedSale
  <2>3. ASSUME NEW i \in DOMAIN lines
        PROVE  lines[i].product \in Products /\ catalog'[lines[i].product] # NoRow
    <3>1. lines[i] \in SaleLine
      BY <2>1, PostedLinesType
    <3>2. lines[i].product \in SoldProducts(cmd[r].items)
      BY <2>1 DEF PostedLines, PricedLines, SoldProducts
    <3>3. view[r][lines[i].product] # NoRow
      BY <2>1, <3>2 DEF IInv, SessionInv, CheckedOrder, Doing, OnSale
    <3>4. catalog[lines[i].product] # NoRow
      BY <3>1, <3>3 DEF IInv, SessionInv, LockedRowsExist, SaleLine
    <3>. QED
      BY <3>1, <3>4, CatalogChanges DEF SaleLine
  <2>4. SaleIsOver(r)'
    BY <1>2, <2>2, <2>3 DEF SaleIsOver
  <2>. QED
    BY <1>1, <2>4, EndKeeps
<1>. QED
  BY <1>4, <1>5

LEMMA BeginKeeps ==
    ASSUME IInv, NEW r \in Requests, Begin(r)
    PROVE  SessionInv(r)'
<1>1. PICK c \in Commands : /\ cmd' = [cmd EXCEPT ![r] = c]
                            /\ Goto(r, FirstStep(c))
  BY DEF Begin
<1>2. /\ pc[r] = "idle" /\ pc'[r] = FirstStep(c) /\ cmd'[r] = c
      /\ UNCHANGED <<data, held, view, seen, work, toLock, toPost, line, moves>>
  BY <1>1 DEF Begin, Goto, IInv, TypeOK, SessionTypeOK
<1>3. /\ held[r] = {} /\ view[r] = Nothing /\ toLock[r] = {} /\ sales[r] = NoRow
  BY <1>2 DEF IInv, SessionInv, StepFitsCommand, SaleIsOver, Steps
<1>4. StepFitsCommand(r)'
  BY <1>2, CommandByOp DEF StepFitsCommand, FirstStep, Steps
<1>5. LockedRowsExist(r)' /\ LockedViewIsCurrent(r)'
  BY <1>2, <1>3 DEF LockedRowsExist, LockedViewIsCurrent, Nothing
<1>6. /\ CheckedOrder(r)' /\ VoidHoldsSale(r)' /\ LinesOfDocument(r)'
      /\ AdjustsKnownProduct(r)' /\ EditHoldsProduct(r)'
  BY <1>2 DEF CheckedOrder, VoidHoldsSale, LinesOfDocument, AdjustsKnownProduct,
              EditHoldsProduct, Doing, FirstStep
<1>7. SaleIsOver(r)'
  BY <1>2, <1>3 DEF SaleIsOver, data
<1>. QED
  BY <1>4, <1>5, <1>6, <1>7 DEF SessionInv

\* A checkout from its lookup to the end of its locking query: it reads products
\* as it locks them.
LEMMA QueryKeeps ==
    ASSUME IInv, NEW r \in Requests,
           \/ LookupKey(r) /\ ~Fail(r, "replayed")
           \/ \E p \in Products : LockProductRow(r, p) \/ LockInventoryRow(r, p)
           \/ QueryDone(r)
    PROVE  SessionInv(r)'
<1>0. /\ SessionInv(r) /\ TypeOK
      /\ pc[r] \in {"lookup", "locking"} /\ cmd[r].op = "checkout" /\ cmd[r] \in Commands
      /\ UNCHANGED <<data, cmd>>
      /\ pc'[r] \in {"locking", "pricing"}
  BY RunningCommand DEF LookupKey, LockProductRow, LockInventoryRow, QueryDone, Goto,
     IInv, TypeOK, SessionTypeOK
<1>1. StepFitsCommand(r)'
  BY <1>0 DEF StepFitsCommand, Steps
<1>2. LockedRowsExist(r)' /\ LockedViewIsCurrent(r)'
  <2>. USE DEF LockedRowsExist, LockedViewIsCurrent, Doing, SessionInv, data,
               TypeOK, SessionTypeOK, DataTypeOK
  <2>1. Doing(r, "checkout", Steps)
    BY <1>0 DEF Steps
  <2>2. CASE LookupKey(r) /\ ~Fail(r, "replayed")
    BY <1>0, <2>1, <2>2 DEF LookupKey
  <2>3. ASSUME NEW p \in Products, LockProductRow(r, p)
        PROVE  LockedRowsExist(r)' /\ LockedViewIsCurrent(r)'
    <3>1. /\ held'[r] = held[r] \cup {<<"product", p>>}
          /\ view'[r] = [view[r] EXCEPT ![p] = catalog[p]]
          /\ toLock'[r] = toLock[r] /\ p \in toLock[r]
      BY <1>0, <2>3 DEF LockProductRow, Lock
    <3>. QED
      BY <1>0, <2>1, <3>1
  <2>4. ASSUME NEW p \in Products, LockInventoryRow(r, p)
        PROVE  LockedRowsExist(r)' /\ LockedViewIsCurrent(r)'
    <3>1. /\ held'[r] = held[r] \cup {<<"inventory", p>>}
          /\ view'[r] = view[r]
          /\ toLock'[r] = toLock[r] \ {p} /\ p \in toLock[r]
      BY <1>0, <2>4 DEF LockInventoryRow, Lock
    <3>. QED
      BY <1>0, <2>1, <3>1
  <2>5. CASE QueryDone(r)
    BY <1>0, <2>1, <2>5 DEF QueryDone
  <2>. QED
    BY <2>2, <2>3, <2>4, <2>5
<1>3. /\ CheckedOrder(r)' /\ VoidHoldsSale(r)' /\ LinesOfDocument(r)'
      /\ AdjustsKnownProduct(r)' /\ EditHoldsProduct(r)'
  BY <1>0 DEF CheckedOrder, VoidHoldsSale, LinesOfDocument, AdjustsKnownProduct,
              EditHoldsProduct, Doing
<1>4. SaleIsOver(r)'
  BY <1>0 DEF SaleIsOver, data, SessionInv
<1>. QED
  BY <1>1, <1>2, <1>3, <1>4 DEF SessionInv

LEMMA PriceKeeps ==
    ASSUME IInv, NEW r \in Requests, PriceOrder(r),
           ~Fail(r, "notFound"), ~Fail(r, "rejected")
    PROVE  SessionInv(r)'
<1>1. /\ SessionInv(r) /\ pc[r] = "pricing" /\ cmd[r].op = "checkout" /\ cmd[r] \in Commands
  BY RunningCommand DEF PriceOrder, IInv
<1>2. /\ \A p \in SoldProducts(cmd[r].items) : OnSale(r, p)
      /\ AmountsAccepted(cmd[r], PricedLines(cmd[r].items, view[r]))
      /\ pc'[r] = "insert"
      /\ UNCHANGED <<data, cmd, held, view, seen, work, toLock, toPost, line, moves>>
  BY DEF PriceOrder, OrderAccepted, Goto, IInv, TypeOK, SessionTypeOK
<1>3. StepFitsCommand(r)'
  BY <1>1, <1>2 DEF StepFitsCommand, Steps
<1>4. LockedRowsExist(r)' /\ LockedViewIsCurrent(r)'
  BY <1>1, <1>2 DEF SessionInv, LockedRowsExist, LockedViewIsCurrent, Doing, data, Steps
<1>5. CheckedOrder(r)'
  BY <1>1, <1>2 DEF CheckedOrder, Doing, OnSale
<1>6. /\ VoidHoldsSale(r)' /\ LinesOfDocument(r)' /\ AdjustsKnownProduct(r)'
      /\ EditHoldsProduct(r)'
  BY <1>1, <1>2 DEF VoidHoldsSale, LinesOfDocument, AdjustsKnownProduct, EditHoldsProduct, Doing
<1>7. SaleIsOver(r)'
  BY <1>1, <1>2 DEF SaleIsOver, data, SessionInv
<1>. QED
  BY <1>3, <1>4, <1>5, <1>6, <1>7 DEF SessionInv

LEMMA InsertKeeps ==
    ASSUME IInv, NEW r \in Requests, InsertSale(r), ~Fail(r, "rejected")
    PROVE  SessionInv(r)'
<1>1. /\ SessionInv(r) /\ pc[r] = "insert" /\ cmd[r].op = "checkout" /\ cmd[r] \in Commands
  BY RunningCommand DEF InsertSale, IInv
<1>2. /\ ~Sold(cmd[r].key)
      /\ pc'[r] = "posting"
      /\ held'[r] = held[r] \cup {<<"key", cmd[r].key>>}
      /\ toPost'[r] = DOMAIN cmd[r].items
      /\ UNCHANGED <<data, cmd, view, seen, work, toLock, line, moves>>
  BY DEF InsertSale, KeyTaken, Goto, Lock, IInv, TypeOK, SessionTypeOK
<1>3. StepFitsCommand(r)'
  BY <1>1, <1>2 DEF StepFitsCommand, Steps
<1>4. LockedRowsExist(r)' /\ LockedViewIsCurrent(r)'
  BY <1>1, <1>2 DEF SessionInv, LockedRowsExist, LockedViewIsCurrent, Doing, data, Steps
<1>5. CheckedOrder(r)'
  BY <1>1, <1>2 DEF SessionInv, CheckedOrder, Doing, OnSale, Sold, data
<1>6. /\ VoidHoldsSale(r)' /\ LinesOfDocument(r)' /\ AdjustsKnownProduct(r)'
      /\ EditHoldsProduct(r)'
  BY <1>1, <1>2 DEF VoidHoldsSale, LinesOfDocument, AdjustsKnownProduct, EditHoldsProduct, Doing
<1>7. SaleIsOver(r)'
  BY <1>1, <1>2 DEF SaleIsOver, data, SessionInv
<1>. QED
  BY <1>3, <1>4, <1>5, <1>6, <1>7 DEF SessionInv

\* Posting a movement: the line's product is one there is, so its balance is.
LEMMA LockForMovementKeeps ==
    ASSUME IInv, NEW r \in Requests, NEW i \in toPost[r], LockForMovement(r, i)
    PROVE  SessionInv(r)'
<1>. DEFINE lines == PostedLines(r)
            p == lines[i].product
<1>1. /\ SessionInv(r) /\ pc[r] = "posting" /\ cmd[r] \in Commands
      /\ cmd[r].op \in {"checkout", "void"}
  BY RunningCommand DEF LockForMovement, IInv
<1>2. i \in DOMAIN lines /\ lines[i] \in SaleLine
  BY <1>1, LinesToPost, PostedLinesType
<1>3. catalog[p] # NoRow
  <2>1. CASE cmd[r].op = "checkout"
    <3>1. p \in SoldProducts(cmd[r].items)
      BY <1>2, <2>1 DEF PostedLines, PricedLines, SoldProducts
    <3>2. view[r][p] # NoRow
      BY <1>1, <2>1, <3>1 DEF SessionInv, CheckedOrder, Doing, OnSale
    <3>. QED
      BY <1>1, <1>2, <3>2 DEF SessionInv, LockedRowsExist, SaleLine
  <2>2. CASE cmd[r].op = "void"
    <3>1. cmd[r].sale \in Requests /\ sales[cmd[r].sale] # NoRow
      BY <1>1, <2>2, VoidedSale, StoreAssumption
    <3>2. SaleIsOver(cmd[r].sale)
      BY <3>1 DEF IInv, SessionInv
    <3>. QED
      BY <1>2, <2>2, <3>1, <3>2 DEF SaleIsOver, PostedLines
  <2>. QED
    BY <1>1, <2>1, <2>2
<1>4. /\ held'[r] = held[r] \cup {<<"inventory", p>>}
      /\ line'[r] = i
      /\ pc'[r] = "movement"
      /\ UNCHANGED <<data, cmd, view, toLock, toPost, moves>>
  BY DEF LockForMovement, Lock, Goto, IInv, TypeOK, SessionTypeOK
<1>5. StepFitsCommand(r)'
  BY <1>1, <1>4 DEF StepFitsCommand, Steps
<1>6. LockedRowsExist(r)' /\ LockedViewIsCurrent(r)'
  <2>. HIDE DEF p
  <2>. QED
    BY <1>1, <1>3, <1>4 DEF SessionInv, LockedRowsExist, LockedViewIsCurrent, Doing, data, Steps
<1>7. CheckedOrder(r)' /\ VoidHoldsSale(r)' /\ SaleIsOver(r)'
  BY <1>1, <1>4 DEF SessionInv, CheckedOrder, VoidHoldsSale, Voidable, SaleIsOver, Doing,
                    OnSale, Sold, data
<1>8. LinesOfDocument(r)'
  BY <1>1, <1>4 DEF SessionInv, LinesOfDocument, Doing, data
<1>9. AdjustsKnownProduct(r)' /\ EditHoldsProduct(r)'
  BY <1>1, <1>4 DEF AdjustsKnownProduct, EditHoldsProduct, Doing
<1>. QED
  BY <1>5, <1>6, <1>7, <1>8, <1>9 DEF SessionInv

LEMMA InsertMovementKeeps ==
    ASSUME IInv, NEW r \in Requests, InsertMovement(r), ~Fail(r, "rejected")
    PROVE  SessionInv(r)'
<1>. DEFINE step == IF cmd[r].op = "adjust" THEN "audit" ELSE "posting"
            share == <<"share", MovementOf(r).product>>
<1>1. /\ SessionInv(r) /\ pc[r] = "movement" /\ cmd[r] \in Commands
      /\ cmd[r].op \in {"checkout", "void", "adjust"}
  BY RunningCommand DEF InsertMovement, IInv
<1>2. /\ held'[r] = held[r] \cup {share}
      /\ toPost'[r] = toPost[r] \ {line[r]}
      /\ pc'[r] = step
      /\ UNCHANGED <<data, cmd, view, seen, toLock, line>>
  BY DEF InsertMovement, Lock, Goto, IInv, TypeOK, SessionTypeOK
<1>3. \A x : /\ <<"product", x>> \in held'[r] <=> <<"product", x>> \in held[r]
             /\ <<"inventory", x>> \in held'[r] <=> <<"inventory", x>> \in held[r]
  BY <1>2
<1>4. held[r] \subseteq held'[r]
  BY <1>2
<1>5. StepFitsCommand(r)'
  BY <1>1, <1>2 DEF StepFitsCommand, Steps
<1>6. LockedRowsExist(r)' /\ LockedViewIsCurrent(r)'
  BY <1>1, <1>2, <1>3 DEF SessionInv, LockedRowsExist, LockedViewIsCurrent, Doing, data, Steps
<1>7. CheckedOrder(r)' /\ VoidHoldsSale(r)' /\ SaleIsOver(r)'
  BY <1>1, <1>2, <1>4 DEF SessionInv, CheckedOrder, VoidHoldsSale, Voidable, SaleIsOver, Doing,
                          OnSale, Sold, data
<1>8. LinesOfDocument(r)'
  BY <1>1, <1>2 DEF SessionInv, LinesOfDocument, Doing, data
<1>9. AdjustsKnownProduct(r)' /\ EditHoldsProduct(r)'
  BY <1>1, <1>2 DEF SessionInv, AdjustsKnownProduct, EditHoldsProduct, Doing
<1>. QED
  BY <1>5, <1>6, <1>7, <1>8, <1>9 DEF SessionInv

LEMMA LockSaleKeeps ==
    ASSUME IInv, NEW r \in Requests, LockSale(r), ~Fail(r, "rejected")
    PROVE  SessionInv(r)'
<1>1. /\ SessionInv(r) /\ pc[r] = "lockSale" /\ cmd[r].op = "void" /\ cmd[r] \in Commands
  BY RunningCommand DEF LockSale, IInv
<1>2. /\ Voidable(cmd[r].sale)
      /\ held'[r] = held[r] \cup {<<"sale", cmd[r].sale>>}
      /\ toPost'[r] = DOMAIN sales[cmd[r].sale].lines
      /\ pc'[r] = "posting"
      /\ UNCHANGED <<data, cmd, view, seen, work, toLock, line, moves>>
  BY DEF LockSale, Lock, Goto, IInv, TypeOK, SessionTypeOK
<1>3. StepFitsCommand(r)'
  BY <1>1, <1>2 DEF StepFitsCommand, Steps
<1>4. LockedRowsExist(r)' /\ LockedViewIsCurrent(r)'
  BY <1>1, <1>2 DEF SessionInv, LockedRowsExist, LockedViewIsCurrent, Doing, data, Steps
<1>5. CheckedOrder(r)' /\ AdjustsKnownProduct(r)' /\ EditHoldsProduct(r)'
  BY <1>1, <1>2 DEF CheckedOrder, AdjustsKnownProduct, EditHoldsProduct, Doing
<1>6. VoidHoldsSale(r)' /\ LinesOfDocument(r)' /\ SaleIsOver(r)'
  BY <1>1, <1>2 DEF SessionInv, VoidHoldsSale, Voidable, LinesOfDocument, SaleIsOver, Doing, data
<1>. QED
  BY <1>3, <1>4, <1>5, <1>6 DEF SessionInv

LEMMA AdjustKeeps ==
    ASSUME IInv, NEW r \in Requests, ReadCost(r) \/ LockForCount(r), ~Fail(r, "rejected")
    PROVE  SessionInv(r)'
<1>. DEFINE p == cmd[r].product
<1>1. /\ SessionInv(r) /\ pc[r] \in {"readCost", "count"} /\ cmd[r].op = "adjust"
      /\ cmd[r] \in Commands /\ p \in Products
  BY RunningCommand DEF ReadCost, LockForCount, IInv, AdjustCommand
<1>2. CASE ReadCost(r)
  <2>1. /\ catalog[p] # NoRow
        /\ view'[r] = [view[r] EXCEPT ![p] = catalog[p]]
        /\ pc'[r] = "count"
        /\ UNCHANGED <<data, cmd, held, seen, work, toLock, toPost, line, moves>>
    BY <1>2 DEF ReadCost, Goto, IInv, TypeOK, SessionTypeOK
  <2>2. view'[r][p] # NoRow /\ \A x \in Products : view'[r][x] # NoRow => view[r][x] # NoRow \/ x = p
    BY <1>1, <2>1 DEF IInv, TypeOK, SessionTypeOK
  <2>3. StepFitsCommand(r)'
    BY <1>1, <2>1 DEF StepFitsCommand, Steps
  <2>. HIDE DEF p
  <2>4. LockedRowsExist(r)'
    BY <1>1, <2>1, <2>2 DEF SessionInv, LockedRowsExist, data
  <2>5. AdjustsKnownProduct(r)'
    BY <1>1, <2>1, <2>2 DEF AdjustsKnownProduct, Doing, p
  <2>6. /\ LockedViewIsCurrent(r)' /\ CheckedOrder(r)' /\ VoidHoldsSale(r)'
        /\ LinesOfDocument(r)' /\ EditHoldsProduct(r)' /\ SaleIsOver(r)'
    BY <1>1, <2>1 DEF LockedViewIsCurrent, CheckedOrder, VoidHoldsSale, LinesOfDocument,
                      EditHoldsProduct, SaleIsOver, SessionInv, Doing, data
  <2>. QED
    BY <2>3, <2>4, <2>5, <2>6 DEF SessionInv
<1>3. CASE LockForCount(r)
  <2>0. pc[r] = "count"
    BY <1>3 DEF LockForCount
  <2>1. /\ AdjustmentAccepted(cmd[r], stock[p])
        /\ held'[r] = held[r] \cup {<<"inventory", p>>}
        /\ ReadBalance(r, p)
        /\ pc'[r] \in {"audit", "movement"}
        /\ UNCHANGED <<data, cmd, view, toLock, toPost, line, moves>>
    BY <1>3 DEF LockForCount, Lock, Goto, IInv, TypeOK, SessionTypeOK
  <2>2. seen'[r][p] = stock[p]
    <3>1. CASE <<"inventory", p>> \in held[r]
      BY <1>1, <2>1, <3>1 DEF ReadBalance, IInv, LockedBalanceIsCurrent
    <3>2. CASE <<"inventory", p>> \notin held[r]
      BY <1>1, <2>1, <3>2 DEF ReadBalance, IInv, TypeOK, SessionTypeOK
    <3>. QED
      BY <3>1, <3>2
  <2>3. view[r][p] # NoRow
    BY <1>1, <2>0 DEF SessionInv, AdjustsKnownProduct, Doing
  <2>4. StepFitsCommand(r)'
    BY <1>1, <2>1 DEF StepFitsCommand, Steps
  <2>5. AdjustsKnownProduct(r)'
    BY <1>1, <2>1, <2>2, <2>3 DEF AdjustsKnownProduct, Doing
  <2>. HIDE DEF p
  <2>6. LockedRowsExist(r)'
    BY <1>1, <2>1, <2>3 DEF SessionInv, LockedRowsExist, data
  <2>7. /\ LockedViewIsCurrent(r)' /\ CheckedOrder(r)' /\ VoidHoldsSale(r)'
        /\ LinesOfDocument(r)' /\ EditHoldsProduct(r)' /\ SaleIsOver(r)'
    BY <1>1, <2>1 DEF LockedViewIsCurrent, CheckedOrder, VoidHoldsSale, LinesOfDocument,
                      EditHoldsProduct, SaleIsOver, SessionInv, Doing, data
  <2>. QED
    BY <2>4, <2>5, <2>6, <2>7 DEF SessionInv
<1>. QED
  BY <1>2, <1>3

LEMMA EditKeeps ==
    ASSUME IInv, NEW r \in Requests, LockForEdit(r) \/ UpdateInventoryRow(r),
           ~Fail(r, "rejected")
    PROVE  SessionInv(r)'
<1>. DEFINE p == cmd[r].product
<1>1. /\ SessionInv(r) /\ pc[r] \in {"lockProduct", "reorder"}
      /\ cmd[r].op \in {"update", "delete"} /\ cmd[r] \in Commands /\ p \in Products
  BY RunningCommand DEF LockForEdit, UpdateInventoryRow, IInv, UpdateCommand, DeleteCommand
<1>2. /\ pc'[r] \in {"reorder", "commit"}
      /\ UNCHANGED <<data, cmd, view, toLock, toPost, line, moves>>
      /\ held'[r] = held[r] \cup {<<"product", p>>} \/ held'[r] = held[r] \cup {<<"inventory", p>>}
      /\ <<"product", p>> \in held'[r]
  <2>1. CASE LockForEdit(r)
    BY <2>1 DEF LockForEdit, Lock, Goto, IInv, TypeOK, SessionTypeOK
  <2>2. CASE UpdateInventoryRow(r)
    <3>1. <<"product", p>> \in held[r]
      BY <1>1, <2>2 DEF UpdateInventoryRow, SessionInv, EditHoldsProduct
    <3>. QED
      BY <2>2, <3>1 DEF UpdateInventoryRow, Lock, Goto, IInv, TypeOK, SessionTypeOK
  <2>. QED
    BY <2>1, <2>2
<1>3. catalog[p] # NoRow
  <2>1. CASE LockForEdit(r)
    BY <2>1 DEF LockForEdit, Editable
  <2>2. CASE UpdateInventoryRow(r)
    BY <1>1, <2>2 DEF UpdateInventoryRow, SessionInv, EditHoldsProduct, LockedRowsExist
  <2>. QED
    BY <2>1, <2>2
<1>4. StepFitsCommand(r)'
  BY <1>1, <1>2 DEF StepFitsCommand, Steps
<1>5. EditHoldsProduct(r)'
  BY <1>2 DEF EditHoldsProduct
<1>6. LockedRowsExist(r)'
  <2>. HIDE DEF p
  <2>. QED
    BY <1>1, <1>2, <1>3 DEF SessionInv, LockedRowsExist, data
<1>7. /\ LockedViewIsCurrent(r)' /\ CheckedOrder(r)' /\ VoidHoldsSale(r)'
      /\ LinesOfDocument(r)' /\ AdjustsKnownProduct(r)' /\ SaleIsOver(r)'
  BY <1>1, <1>2 DEF LockedViewIsCurrent, CheckedOrder, VoidHoldsSale, LinesOfDocument,
                    AdjustsKnownProduct, SaleIsOver, SessionInv, Doing, data
<1>. QED
  BY <1>4, <1>5, <1>6, <1>7 DEF SessionInv

LEMMA MoverKeeps ==
    ASSUME IInv, NEW r \in Requests, Step(r)
    PROVE  SessionInv(r)'
<1>1. CASE \E o \in Outcomes : Fail(r, o)
  BY <1>1, FailKeeps
<1>2. CASE ~\E o \in Outcomes : Fail(r, o)
  <2>0. ~Fail(r, "replayed") /\ ~Fail(r, "notFound") /\ ~Fail(r, "rejected") /\ ~Fail(r, "aborted")
    BY <1>2 DEF Outcomes
  <2>1. CASE Begin(r) \/ Abort(r) \/ LoseDeadlock(r)
    BY <2>0, <2>1, BeginKeeps DEF Abort, LoseDeadlock
  <2>2. CASE LookupKey(r) \/ QueryDone(r)
    BY <2>0, <2>2, QueryKeeps
  <2>3. CASE \E p \in Products : LockProductRow(r, p) \/ LockInventoryRow(r, p)
    BY <2>3, QueryKeeps
  <2>4. CASE PriceOrder(r) \/ InsertSale(r)
    BY <2>0, <2>4, PriceKeeps, InsertKeeps
  <2>5. CASE PostMovementTx(r)
    BY <2>0, <2>5, LockForMovementKeeps, InsertMovementKeeps DEF PostMovementTx
  <2>6. CASE LockSale(r) \/ ReadCost(r) \/ LockForCount(r) \/ LockForEdit(r) \/ UpdateInventoryRow(r)
    BY <2>0, <2>6, LockSaleKeeps, AdjustKeeps, EditKeeps
  <2>7. CASE CommitSale(r) \/ CommitVoid(r) \/ CommitAdjustment(r) \/ CommitEdit(r) \/ CreateProduct(r)
    BY <2>0, <2>7, CommitKeeps
  <2>. QED
    BY <2>1, <2>2, <2>3, <2>4, <2>5, <2>6, <2>7
       DEF Step, Proceed, Checkout, VoidTransaction, AdjustStock, Maintain
<1>. QED
  BY <1>1, <1>2

-----------------------------------------------------------------------------
(***************************************************************************)
(* Balances and keys.                                                      *)
(***************************************************************************)
\* A session that locks a balance reads it; one that has it locked, leaves what
\* it read alone.
LEMMA BalancesRead ==
    ASSUME IInv, NEW r \in Requests, Step(r), NEW p \in Products,
           <<"inventory", p>> \in held'[r]
    PROVE  UNCHANGED stock /\ seen'[r][p] = stock[p]
<1>0. /\ \A o : ~End(r, o)
      /\ \A o : ~Fail(r, o)
  BY DEF End, Fail, IInv, TypeOK, SessionTypeOK
<1>1. <<"inventory", p>> \in held[r] => seen[r][p] = stock[p]
  BY DEF IInv, LockedBalanceIsCurrent
<1>2. UNCHANGED stock
  BY <1>0, DataChanges DEF data, CommitSale, CommitVoid, CommitAdjustment, CommitEdit, CreateProduct
<1>3. ASSUME NEW x \in Products, ReadBalance(r, x), Lock(r, <<"inventory", x>>)
      PROVE  seen'[r][p] = stock[p]
  <2>1. <<"inventory", p>> \in held[r] \/ p = x
    BY <1>3 DEF Lock, IInv, TypeOK, SessionTypeOK
  <2>2. CASE <<"inventory", x>> \in held[r]
    BY <1>1, <1>3, <2>1, <2>2 DEF ReadBalance
  <2>3. CASE <<"inventory", x>> \notin held[r]
    BY <1>1, <1>3, <2>1, <2>3 DEF ReadBalance, IInv, TypeOK, SessionTypeOK
  <2>. QED
    BY <2>2, <2>3
<1>4. ASSUME seen' = seen, \E row : Lock(r, row) /\ row[1] # "inventory"
      PROVE  seen'[r][p] = stock[p]
  BY <1>1, <1>4 DEF Lock, IInv, TypeOK, SessionTypeOK
<1>5. ASSUME seen' = seen, held' = held
      PROVE  seen'[r][p] = stock[p]
  BY <1>1, <1>5
<1>6. CASE Begin(r) \/ Abort(r) \/ LoseDeadlock(r)
  BY <1>0, <1>2, <1>5, <1>6 DEF Begin, Abort, LoseDeadlock
<1>7. CASE LookupKey(r) \/ QueryDone(r) \/ PriceOrder(r)
  BY <1>0, <1>2, <1>5, <1>7 DEF LookupKey, QueryDone, PriceOrder
<1>8. CASE InsertSale(r) \/ LockSale(r) \/ InsertMovement(r) \/ LockForEdit(r)
  BY <1>0, <1>2, <1>4, <1>8 DEF InsertSale, LockSale, InsertMovement, LockForEdit
<1>9. ASSUME NEW x \in Products, LockProductRow(r, x)
      PROVE  seen'[r][p] = stock[p]
  BY <1>4, <1>9 DEF LockProductRow
<1>10. ASSUME NEW x \in Products, LockInventoryRow(r, x)
       PROVE  seen'[r][p] = stock[p]
  BY <1>1, <1>10 DEF LockInventoryRow, Lock, IInv, TypeOK, SessionTypeOK
<1>11. ASSUME NEW i \in toPost[r], LockForMovement(r, i)
       PROVE  seen'[r][p] = stock[p]
  <2>1. PostedLines(r)[i] \in SaleLine
    BY <1>11, RunningCommand, LinesToPost, PostedLinesType DEF LockForMovement
  <2>. QED
    BY <1>3, <1>11, <2>1 DEF LockForMovement, SaleLine
<1>12. CASE LockForCount(r) \/ UpdateInventoryRow(r)
  <2>1. cmd[r].product \in Products
    BY <1>12, RunningCommand DEF LockForCount, UpdateInventoryRow,
       AdjustCommand, UpdateCommand, DeleteCommand
  <2>2. ReadBalance(r, cmd[r].product) /\ Lock(r, <<"inventory", cmd[r].product>>)
    BY <1>0, <1>12 DEF LockForCount, UpdateInventoryRow
  <2>. QED
    BY <1>2, <1>3, <2>1, <2>2
<1>13. CASE ReadCost(r)
  BY <1>0, <1>2, <1>5, <1>13 DEF ReadCost
<1>14. ~(CommitSale(r) \/ CommitVoid(r) \/ CommitAdjustment(r) \/ CommitEdit(r) \/ CreateProduct(r))
  BY <1>0 DEF CommitSale, CommitVoid, CommitAdjustment, CommitEdit, CreateProduct
<1>15. seen'[r][p] = stock[p]
  BY <1>6, <1>7, <1>8, <1>9, <1>10, <1>11, <1>12, <1>13, <1>14
     DEF Step, Proceed, Checkout, VoidTransaction, PostMovementTx, AdjustStock, Maintain
<1>. QED
  BY <1>2, <1>15

LEMMA LockedBalanceStep ==
    ASSUME IInv, NEW r \in Requests, Step(r)
    PROVE  LockedBalanceIsCurrent'
<1>. SUFFICES ASSUME NEW q \in Requests, NEW p \in Products, <<"inventory", p>> \in held'[q]
              PROVE  seen'[q][p] = stock'[p]
  BY DEF LockedBalanceIsCurrent
<1>1. CASE q = r
  BY <1>1, BalancesRead
<1>2. CASE q # r
  <2>1. held'[q] = held[q] /\ seen'[q] = seen[q]
    BY <1>2, OthersUntouched DEF IInv
  <2>. QED
    BY <1>2, <2>1, Guarantees DEF IInv, LockedBalanceIsCurrent
<1>. QED
  BY <1>1, <1>2

LEMMA KeySoldOnceStep ==
    ASSUME IInv, NEW r \in Requests, Step(r)
    PROVE  KeySoldOnce'
<1>. SUFFICES ASSUME NEW t \in Requests, NEW u \in Requests, t # u,
                     sales'[t] # NoRow, sales'[u] # NoRow, sales'[t].key = sales'[u].key
              PROVE  FALSE
  BY DEF KeySoldOnce, SoldSet
<1>1. ASSUME NEW x \in Requests, sales'[x] # NoRow
      PROVE  \/ sales[x] # NoRow /\ sales'[x].key = sales[x].key
             \/ x = r /\ sales'[x].key = cmd[r].key /\ ~Sold(cmd[r].key)
  <2>1. CASE sales[x] # NoRow
    BY <2>1, SalesKept
  <2>2. CASE sales[x] = NoRow
    <3>1. /\ x = r /\ pc[r] = "posting" /\ cmd[r].op = "checkout"
          /\ sales'[r] = SaleRow(cmd[r], PostedLines(r))
          /\ ~Sold(cmd[r].key)
      BY <1>1, <2>2, SalesChange, StoreAssumption
    <3>. QED
      BY <3>1, CommittedSale
  <2>. QED
    BY <2>1, <2>2
<1>2. CASE sales[t] # NoRow /\ sales'[t].key = sales[t].key
  BY <1>1, <1>2 DEF IInv, KeySoldOnce, SoldSet, Sold
<1>3. CASE t = r /\ sales'[t].key = cmd[r].key /\ ~Sold(cmd[r].key)
  BY <1>1, <1>3 DEF Sold
<1>. QED
  BY <1>1, <1>2, <1>3

-----------------------------------------------------------------------------
(***************************************************************************)
(* The inductive invariant and what follows from it.                       *)
(***************************************************************************)
LEMMA InitIInv == Init => IInv
<1>. SUFFICES ASSUME Init PROVE IInv
  OBVIOUS
<1>1. TypeOK
  BY InitType
<1>2. LocksExclusive /\ LockedBalanceIsCurrent /\ KeySoldOnce
  BY DEF Init, LocksExclusive, LockedBalanceIsCurrent, KeySoldOnce, SoldSet
<1>3. ASSUME NEW r \in Requests
      PROVE  SessionInv(r)
  <2>1. pc[r] = "idle" /\ held[r] = {} /\ toPost[r] = {} /\ cmd[r] = NoCommand
    BY DEF Init
  <2>. QED
    BY <2>1 DEF Init, SessionInv, StepFitsCommand, LockedRowsExist, LockedViewIsCurrent, CheckedOrder,
         VoidHoldsSale, LinesOfDocument, AdjustsKnownProduct, EditHoldsProduct, SaleIsOver,
         Doing, Nothing, Steps
<1>. QED
  BY <1>1, <1>2, <1>3 DEF IInv

LEMMA IInvStep == IInv /\ [Next]_vars => IInv'
<1>. SUFFICES ASSUME IInv, [Next]_vars PROVE IInv'
  OBVIOUS
<1>1. TypeOK'
  BY TypeStep
<1>2. CASE UNCHANGED vars
  <2>1. LocksExclusive' /\ LockedBalanceIsCurrent' /\ KeySoldOnce'
    BY <1>2 DEF vars, data, session, IInv, LocksExclusive, LockedBalanceIsCurrent,
       KeySoldOnce, SoldSet
  <2>2. ASSUME NEW r \in Requests
        PROVE  SessionInv(r)'
    <3>1. SessionInv(r)
      BY DEF IInv
    <3>2. StepFitsCommand(r)' /\ LockedRowsExist(r)' /\ LockedViewIsCurrent(r)'
      BY <1>2, <3>1 DEF vars, data, session, SessionInv, StepFitsCommand, LockedRowsExist,
         LockedViewIsCurrent, Doing
    <3>3. CheckedOrder(r)' /\ VoidHoldsSale(r)' /\ LinesOfDocument(r)'
      BY <1>2, <3>1 DEF vars, data, session, SessionInv, CheckedOrder, VoidHoldsSale,
         LinesOfDocument, Doing, OnSale, Sold, Voidable
    <3>4. AdjustsKnownProduct(r)' /\ EditHoldsProduct(r)' /\ SaleIsOver(r)'
      BY <1>2, <3>1 DEF vars, data, session, SessionInv, AdjustsKnownProduct,
         EditHoldsProduct, SaleIsOver, Doing, Sold
    <3>. QED
      BY <3>2, <3>3, <3>4 DEF SessionInv
  <2>. QED
    BY <1>1, <2>1, <2>2 DEF IInv
<1>3. ASSUME NEW r \in Requests, Step(r)
      PROVE  IInv'
  <2>1. LocksExclusive' /\ LockedBalanceIsCurrent' /\ KeySoldOnce'
    BY <1>3, LocksExclusiveStep, LockedBalanceStep, KeySoldOnceStep
  <2>2. ASSUME NEW q \in Requests
        PROVE  SessionInv(q)'
    BY <1>3, MoverKeeps, OthersKeep
  <2>. QED
    BY <1>1, <2>1, <2>2 DEF IInv
<1>. QED
  BY <1>2, <1>3 DEF Next, Step

\* Every session knows what its locks guarantee it.
THEOREM Inductive == Spec => []IInv
  BY InitIInv, IInvStep, PTL DEF Spec

\* Variables have their types, and no balance is ever negative: no interleaving
\* of checkouts, voids, adjustments and edits sells stock that is not there.
THEOREM TypeCorrect == Spec => []TypeOK
<1>1. IInv => TypeOK
  BY DEF IInv
<1>. QED
  BY <1>1, Inductive, PTL

\* No two open transactions hold row locks that exclude one another.
THEOREM Locking == Spec => []LocksExclusive
<1>1. IInv => LocksExclusive
  BY DEF IInv
<1>. QED
  BY <1>1, Inductive, PTL

\* A balance read under its row lock is the committed one until the transaction
\* ends, so no update of it is lost.
THEOREM NoLostUpdate == Spec => []LockedBalanceIsCurrent
<1>1. IInv => LockedBalanceIsCurrent
  BY DEF IInv
<1>. QED
  BY <1>1, Inductive, PTL

\* One Idempotency-Key, at most one sale.
THEOREM AtMostOneSalePerKey == Spec => []KeySoldOnce
<1>1. IInv => KeySoldOnce
  BY DEF IInv
<1>. QED
  BY <1>1, Inductive, PTL

\* A sale commits at the price, the cost and the availability of that moment.
THEOREM SoldAtCurrentTerms == Spec => SaleAtCurrentTerms
<1>1. ASSUME IInv, Next, NEW t \in Requests, sales[t] = NoRow, sales'[t] # NoRow,
             NEW i \in DOMAIN sales'[t].lines
      PROVE  LET l == sales'[t].lines[i]
             IN  /\ catalog[l.product] # NoRow
                 /\ catalog[l.product].active
                 /\ l.price = catalog[l.product].price
                 /\ l.cost = catalog[l.product].cost
  <2>. DEFINE lines == PostedLines(t)
              p == cmd[t].items[i].product
  <2>1. PICK r \in Requests : Step(r)
    BY <1>1 DEF Next, Step
  <2>2. /\ t = r /\ pc[t] = "posting" /\ cmd[t].op = "checkout"
        /\ sales'[t] = SaleRow(cmd[t], lines)
    BY <1>1, <2>1, SalesChange, StoreAssumption
  <2>3. sales'[t].lines = PricedLines(cmd[t].items, view[t])
    BY <2>2 DEF SaleRow, PostedLines
  <2>4. i \in DOMAIN cmd[t].items
    BY <1>1, <2>3 DEF PricedLines
  <2>5. /\ sales'[t].lines[i].product = p
        /\ sales'[t].lines[i].price = view[t][p].price
        /\ sales'[t].lines[i].cost = view[t][p].cost
    <3>1. sales'[t].lines[i] = [product  |-> p,
                                quantity |-> cmd[t].items[i].quantity,
                                price    |-> view[t][p].price,
                                cost     |-> view[t][p].cost]
      BY <2>3, <2>4 DEF PricedLines
    <3>. QED
      BY <3>1
  <2>6. p \in SoldProducts(cmd[t].items) /\ SoldProducts(cmd[t].items) \subseteq Products
    BY <1>1, <2>2, <2>4, RunningCommand, ItemsType DEF SoldProducts
  <2>7. OnSale(t, p)
    BY <1>1, <2>2, <2>6 DEF IInv, SessionInv, CheckedOrder, Doing
  <2>8. view[t][p] = catalog[p]
    BY <1>1, <2>2, <2>6, <2>7 DEF IInv, SessionInv, LockedViewIsCurrent, Doing, OnSale, Steps
  <2>. HIDE DEF p
  <2>. QED
    BY <2>5, <2>7, <2>8 DEF OnSale
<1>2. IInv /\ [Next]_vars =>
        [\A t \in Requests :
          sales[t] = NoRow /\ sales'[t] # NoRow =>
             \A i \in DOMAIN sales'[t].lines :
                LET l == sales'[t].lines[i]
                IN  /\ catalog[l.product] # NoRow
                    /\ catalog[l.product].active
                    /\ l.price = catalog[l.product].price
                    /\ l.cost = catalog[l.product].cost]_vars
  BY <1>1
<1>. QED
  BY <1>2, Inductive, PTL DEF Spec, SaleAtCurrentTerms

-----------------------------------------------------------------------------
(***************************************************************************)
(* Sums over movements and lines.                                          *)
(***************************************************************************)
\* The movements of a product in a set of movements.
Touching(ms, p) == {n \in ms : n.product = p}

LEMMA NetUnion ==
    ASSUME NEW A, NEW B, NEW p, IsFiniteSet(Touching(A, p)), IsFiniteSet(Touching(B, p)),
           A \cap B = {}, A \cup B \subseteq MovementRow
    PROVE  /\ Net(A \cup B, p) = Net(A, p) + Net(B, p)
           /\ IsFiniteSet(Touching(A \cup B, p))
           /\ Net(A, p) \in Int /\ Net(B, p) \in Int
<1>. DEFINE f == [m \in Touching(A \cup B, p) |-> m.delta]
            g == [m \in Touching(A, p) |-> m.delta]
            h == [m \in Touching(B, p) |-> m.delta]
<1>1. /\ Touching(A \cup B, p) = Touching(A, p) \cup Touching(B, p)
      /\ Touching(A, p) \cap Touching(B, p) = {}
  BY DEF Touching
<1>2. \A m \in Touching(A, p) \cup Touching(B, p) : f[m] \in Int
  BY DEF MovementRow, Touching
<1>3. /\ \A m \in Touching(A, p) : f[m] = g[m] /\ g[m] \in Int
      /\ \A m \in Touching(B, p) : f[m] = h[m] /\ h[m] \in Int
  BY DEF MovementRow, Touching
<1>4. /\ Net(A \cup B, p) = SumFunctionOnSet(f, Touching(A \cup B, p))
      /\ Net(A, p) = SumFunctionOnSet(g, Touching(A, p))
      /\ Net(B, p) = SumFunctionOnSet(h, Touching(B, p))
  BY SumOf DEF Net, Touching
<1>. HIDE DEF f, g, h
<1>5. SumFunctionOnSet(f, Touching(A, p) \cup Touching(B, p))
         = SumFunctionOnSet(f, Touching(A, p)) + SumFunctionOnSet(f, Touching(B, p))
  BY <1>1, <1>2, SumUnion
<1>6. SumFunctionOnSet(f, Touching(A, p)) = SumFunctionOnSet(g, Touching(A, p))
  BY <1>3, SumSame
<1>7. SumFunctionOnSet(f, Touching(B, p)) = SumFunctionOnSet(h, Touching(B, p))
  BY <1>3, SumSame
<1>8. IsFiniteSet(Touching(A, p) \cup Touching(B, p))
  BY FS_Union
<1>9. SumFunctionOnSet(g, Touching(A, p)) \in Int /\ SumFunctionOnSet(h, Touching(B, p)) \in Int
  BY <1>3, SumInt
<1>. QED
  BY <1>1, <1>4, <1>5, <1>6, <1>7, <1>8, <1>9

LEMMA NetOfNone ==
    ASSUME NEW ms, NEW p, \A m \in ms : m.product # p
    PROVE  Net(ms, p) = 0 /\ IsFiniteSet(Touching(ms, p))
<1>. DEFINE f == [m \in Touching(ms, p) |-> m.delta]
<1>1. Touching(ms, p) = {}
  BY DEF Touching
<1>2. Net(ms, p) = SumFunctionOnSet(f, Touching(ms, p))
  BY SumOf DEF Net, Touching
<1>. HIDE DEF f
<1>3. SumFunctionOnSet(f, {}) = 0 /\ IsFiniteSet({})
  BY SumEmpty, FS_EmptySet
<1>. QED
  BY <1>1, <1>2, <1>3

LEMMA NetOfOne ==
    ASSUME NEW m, m.delta \in Int, NEW p
    PROVE  /\ Net({m}, p) = IF m.product = p THEN m.delta ELSE 0
           /\ IsFiniteSet(Touching({m}, p))
<1>1. CASE m.product # p
  BY <1>1, NetOfNone
<1>2. CASE m.product = p
  <2>. DEFINE f == [n \in Touching({m}, p) |-> n.delta]
  <2>1. Touching({m}, p) = {m} /\ f[m] = m.delta
    BY <1>2 DEF Touching
  <2>2. Net({m}, p) = SumFunctionOnSet(f, Touching({m}, p))
    BY SumOf DEF Net, Touching
  <2>. HIDE DEF f
  <2>3. IsFiniteSet({m})
    BY FS_Singleton
  <2>4. SumFunctionOnSet(f, {m}) = f[m]
    BY <2>1, <2>3, SumOfOne
  <2>. QED
    BY <1>2, <2>1, <2>2, <2>3, <2>4
<1>. QED
  BY <1>1, <1>2

\* The positions of a sequence.
LEMMA Interval ==
    ASSUME NEW S, NEW s \in Seq(S)
    PROVE  /\ DOMAIN s = 1 .. Len(s) /\ Len(s) \in Nat
           /\ IsFiniteSet(DOMAIN s)
           /\ DOMAIN s \subseteq Nat
           /\ \A i \in DOMAIN s : s[i] \in S
<1>1. DOMAIN s = 1 .. Len(s) /\ Len(s) \in Nat
  BY LenProperties
<1>2. IsFiniteSet(1 .. Len(s))
  BY <1>1, FS_Interval
<1>3. \A i \in DOMAIN s : s[i] \in S
  BY <1>1, ElementOfSeq
<1>. QED
  BY <1>1, <1>2, <1>3

\* Finitely many arguments have finitely many values.
LEMMA FiniteImage ==
    ASSUME NEW S, IsFiniteSet(S), NEW f
    PROVE  IsFiniteSet({f[x] : x \in S})
<1>. DEFINE T == {f[x] : x \in S}
            g == [x \in S |-> f[x]]
<1>1. g \in Surjection(S, T)
  BY DEF Surjection
<1>. HIDE DEF g, T
<1>2. IsFiniteSet(T)
  BY <1>1, FS_Surjection
<1>. QED
  BY <1>2 DEF T

\* A sale takes out of stock what its lines ask for, and a void brings it back.
LEMMA NetOfSale ==
    ASSUME NEW lines \in Seq(SaleLine), NEW doc, NEW p
    PROVE  LET ms == {SaleMovement(doc, lines, i) : i \in DOMAIN lines}
           IN  /\ Net(ms, p) = -Requested(lines, p)
               /\ IsFiniteSet(Touching(ms, p))
               /\ Requested(lines, p) \in Nat
<1>. DEFINE ms == {SaleMovement(doc, lines, i) : i \in DOMAIN lines}
            S == LinesOf(lines, p)
            e == [i \in S |-> SaleMovement(doc, lines, i)]
            q == [i \in S |-> lines[i].quantity]
            g == [i \in S |-> -q[i]]
            f == [m \in Touching(ms, p) |-> m.delta]
<1>1. IsFiniteSet(S) /\ \A i \in S : q[i] \in Nat
  <2>1. S \subseteq DOMAIN lines /\ IsFiniteSet(DOMAIN lines)
    BY Interval DEF LinesOf
  <2>2. \A i \in S : lines[i] \in SaleLine
    BY <2>1, Interval
  <2>. QED
    BY <2>1, <2>2, FS_Subset DEF SaleLine
<1>2. Touching(ms, p) = {e[i] : i \in S}
  <2>1. \A i \in DOMAIN lines : SaleMovement(doc, lines, i).product = lines[i].product
    BY DEF SaleMovement, Movement
  <2>2. \A i \in S : e[i] = SaleMovement(doc, lines, i)
    OBVIOUS
  <2>3. Touching(ms, p) = {SaleMovement(doc, lines, i) : i \in S}
    BY <2>1 DEF Touching, LinesOf
  <2>. HIDE DEF e, S, ms
  <2>. QED
    BY <2>2, <2>3
<1>3. \A i, j \in S : e[i] = e[j] => i = j
  BY DEF SaleMovement, Movement
<1>4. \A i \in S : g[i] \in Int /\ g[i] = -q[i] /\ q[i] \in Int
  BY <1>1
<1>5. \A i \in S : f[e[i]] = g[i]
  <2>1. ASSUME NEW i \in S PROVE f[e[i]] = g[i]
    <3>1. e[i] \in Touching(ms, p)
      BY <1>2
    <3>2. e[i].delta = g[i]
      BY DEF SaleMovement, Movement
    <3>. QED
      BY <3>1, <3>2
  <2>. QED
    BY <2>1
<1>6. Net(ms, p) = SumFunctionOnSet(f, Touching(ms, p)) /\ Requested(lines, p) = SumFunctionOnSet(q, S)
  BY SumOf DEF Net, Touching, Requested
<1>. HIDE DEF S, e, q, g, f, ms
<1>7. /\ SumFunctionOnSet(f, {e[i] : i \in S}) = SumFunctionOnSet(g, S)
      /\ IsFiniteSet({e[i] : i \in S})
  <2>1. \A i \in S : g[i] \in Int /\ f[e[i]] = g[i]
    BY <1>4, <1>5
  <2>2. IsFiniteSet(S)
    BY <1>1
  <2>. QED
    BY ONLY <2>1, <2>2, <1>3, SumImage
<1>8. SumFunctionOnSet(g, S) = -SumFunctionOnSet(q, S)
  BY <1>1, <1>4, SumNegated
<1>9. SumFunctionOnSet(q, S) \in Nat
  BY <1>1, SumNat
<1>. QED
  BY <1>2, <1>6, <1>7, <1>8, <1>9 DEF ms

LEMMA NetOfVoid ==
    ASSUME NEW lines \in Seq(SaleLine), NEW doc, NEW p
    PROVE  LET ms == {VoidMovement(doc, lines, i) : i \in DOMAIN lines}
           IN  /\ Net(ms, p) = Requested(lines, p)
               /\ IsFiniteSet(Touching(ms, p))
               /\ Requested(lines, p) \in Nat
<1>. DEFINE ms == {VoidMovement(doc, lines, i) : i \in DOMAIN lines}
            S == LinesOf(lines, p)
            e == [i \in S |-> VoidMovement(doc, lines, i)]
            q == [i \in S |-> lines[i].quantity]
            f == [m \in Touching(ms, p) |-> m.delta]
<1>1. IsFiniteSet(S) /\ \A i \in S : q[i] \in Nat
  <2>1. S \subseteq DOMAIN lines /\ IsFiniteSet(DOMAIN lines)
    BY Interval DEF LinesOf
  <2>2. \A i \in S : lines[i] \in SaleLine
    BY <2>1, Interval
  <2>. QED
    BY <2>1, <2>2, FS_Subset DEF SaleLine
<1>2. Touching(ms, p) = {e[i] : i \in S}
  <2>1. \A i \in DOMAIN lines : VoidMovement(doc, lines, i).product = lines[i].product
    BY DEF VoidMovement, Movement
  <2>2. \A i \in S : e[i] = VoidMovement(doc, lines, i)
    OBVIOUS
  <2>3. Touching(ms, p) = {VoidMovement(doc, lines, i) : i \in S}
    BY <2>1 DEF Touching, LinesOf
  <2>. HIDE DEF e, S, ms
  <2>. QED
    BY <2>2, <2>3
<1>3. \A i, j \in S : e[i] = e[j] => i = j
  BY DEF VoidMovement, Movement
<1>4. \A i \in S : q[i] \in Int
  BY <1>1
<1>5. \A i \in S : f[e[i]] = q[i]
  <2>1. ASSUME NEW i \in S PROVE f[e[i]] = q[i]
    <3>1. e[i] \in Touching(ms, p)
      BY <1>2
    <3>2. e[i].delta = q[i]
      BY DEF VoidMovement, Movement
    <3>. QED
      BY <3>1, <3>2
  <2>. QED
    BY <2>1
<1>6. Net(ms, p) = SumFunctionOnSet(f, Touching(ms, p)) /\ Requested(lines, p) = SumFunctionOnSet(q, S)
  BY SumOf DEF Net, Touching, Requested
<1>. HIDE DEF S, e, q, f, ms
<1>7. /\ SumFunctionOnSet(f, {e[i] : i \in S}) = SumFunctionOnSet(q, S)
      /\ IsFiniteSet({e[i] : i \in S})
  <2>1. \A i \in S : q[i] \in Int /\ f[e[i]] = q[i]
    BY <1>4, <1>5
  <2>2. IsFiniteSet(S)
    BY <1>1
  <2>. QED
    BY ONLY <2>1, <2>2, <1>3, SumImage
<1>8. SumFunctionOnSet(q, S) \in Nat
  BY <1>1, SumNat
<1>. QED
  BY <1>2, <1>6, <1>7, <1>8 DEF ms

\* Pricing does not change what is asked for.
LEMMA RequestedOfPriced ==
    ASSUME NEW items, NEW rows, NEW p
    PROVE  Requested(PricedLines(items, rows), p) = Requested(items, p)
<1>. DEFINE lines == PricedLines(items, rows)
<1>1. /\ DOMAIN lines = DOMAIN items
      /\ \A i \in DOMAIN items : /\ lines[i].product = items[i].product
                                 /\ lines[i].quantity = items[i].quantity
  BY DEF PricedLines
<1>2. LinesOf(lines, p) = LinesOf(items, p)
  BY <1>1 DEF LinesOf
<1>3. [i \in LinesOf(lines, p) |-> lines[i].quantity] = [i \in LinesOf(items, p) |-> items[i].quantity]
  BY <1>1, <1>2 DEF LinesOf
<1>. QED
  BY <1>3 DEF Requested

-----------------------------------------------------------------------------
(***************************************************************************)
(* The books of a session, before it commits.                              *)
(***************************************************************************)
\* The lines another session posts stay what they are.
LEMMA OthersPost ==
    ASSUME IInv, NEW r \in Requests, Step(r), NEW q \in Requests, q # r
    PROVE  /\ pc[q] \in {"posting", "movement"} /\ cmd[q].op # "adjust" =>
                 PostedLines(q)' = PostedLines(q)
           /\ pc[q] = "movement" => MovementOf(q)' = MovementOf(q)
<1>1. /\ cmd'[q] = cmd[q] /\ view'[q] = view[q] /\ seen'[q] = seen[q] /\ line'[q] = line[q]
  BY OthersUntouched DEF IInv
<1>2. ASSUME pc[q] \in {"posting", "movement"}, cmd[q].op # "adjust"
      PROVE  PostedLines(q)' = PostedLines(q)
  <2>1. CASE cmd[q].op = "checkout"
    BY <1>1, <2>1 DEF PostedLines
  <2>2. CASE cmd[q].op = "void"
    <3>1. cmd[q].sale \in Requests /\ sales[cmd[q].sale] # NoRow
      BY <1>2, <2>2, VoidedSale, StoreAssumption
    <3>2. sales'[cmd[q].sale].lines = sales[cmd[q].sale].lines
      BY <3>1, SalesKept
    <3>. QED
      BY <1>1, <2>2, <3>2 DEF PostedLines
  <2>. QED
    BY <1>2, <2>1, <2>2, RunningCommand
<1>3. ASSUME pc[q] = "movement"
      PROVE  MovementOf(q)' = MovementOf(q)
  <2>1. CASE cmd[q].op = "checkout"
    BY <1>1, <1>2, <1>3, <2>1 DEF MovementOf
  <2>2. CASE cmd[q].op = "void"
    BY <1>1, <1>2, <1>3, <2>2 DEF MovementOf
  <2>3. CASE cmd[q].op = "adjust"
    BY <1>1, <2>3 DEF MovementOf
  <2>. QED
    BY <1>3, <2>1, <2>2, <2>3, RunningCommand
<1>. QED
  BY <1>2, <1>3

LEMMA OthersBooks ==
    ASSUME IInv, BooksInv, NEW r \in Requests, Step(r), NEW q \in Requests, q # r
    PROVE  MovesOfLines(q)' /\ BalanceOfMoves(q)'
<1>1. /\ pc'[q] = pc[q] /\ cmd'[q] = cmd[q] /\ held'[q] = held[q]
      /\ seen'[q] = seen[q] /\ work'[q] = work[q] /\ toPost'[q] = toPost[q] /\ moves'[q] = moves[q]
  BY OthersUntouched DEF IInv
<1>2. MovesOfLines(q) /\ BalanceOfMoves(q)
  BY DEF BooksInv
<1>3. BalanceOfMoves(q)'
  BY <1>1, <1>2, OthersPost DEF BalanceOfMoves
<1>4. MovesOfLines(q)'
  <2>1. CASE Doing(q, "checkout", {"posting", "movement"}) \/ Doing(q, "void", {"posting", "movement"})
    <3>1. PostedLines(q)' = PostedLines(q)
      BY <2>1, OthersPost DEF Doing
    <3>. QED
      BY <1>1, <1>2, <2>1, <3>1 DEF MovesOfLines, Doing
  <2>2. CASE ~(Doing(q, "checkout", {"posting", "movement"}) \/ Doing(q, "void", {"posting", "movement"}))
    BY <1>1, <1>2, <2>2 DEF MovesOfLines, Doing
  <2>. QED
    BY <2>1, <2>2
<1>. QED
  BY <1>3, <1>4

\* A session that ends has no books of its own.
LEMMA EndBooks ==
    ASSUME IInv, NEW r \in Requests, NEW o \in Outcomes, End(r, o)
    PROVE  MovesOfLines(r)' /\ BalanceOfMoves(r)'
<1>1. pc'[r] = o /\ held'[r] = {} /\ moves'[r] = {}
  BY DEF End, Goto, IInv, TypeOK, SessionTypeOK
<1>2. o \notin {"posting", "movement", "audit"}
  BY DEF Outcomes
<1>. QED
  BY <1>1, <1>2 DEF MovesOfLines, BalanceOfMoves, Doing

\* A step between statements that post nothing leaves no movements behind.
LEMMA QuietBooks ==
    ASSUME IInv, BooksInv, NEW r \in Requests,
           pc[r] \notin {"posting", "movement", "audit"},
           pc'[r] \notin {"posting", "movement", "audit"},
           moves' = moves,
           \A p \in Products : <<"inventory", p>> \in held'[r] =>
              \/ <<"inventory", p>> \in held[r] /\ work'[r][p] = work[r][p] /\ seen'[r][p] = seen[r][p]
              \/ work'[r][p] = seen'[r][p] /\ seen'[r][p] \in Nat
    PROVE  MovesOfLines(r)' /\ BalanceOfMoves(r)'
<1>1. moves[r] = {} /\ moves'[r] = {}
  BY DEF BooksInv, MovesOfLines
<1>2. \A p \in Products : Net(moves'[r], p) = 0 /\ Net(moves[r], p) = 0
  BY <1>1, NetOfNone
<1>3. \A p \in Products : <<"inventory", p>> \in held[r] => work[r][p] = seen[r][p] + Net(moves[r], p)
  BY DEF BooksInv, BalanceOfMoves
<1>4. \A p \in Products : <<"inventory", p>> \in held'[r] => work'[r][p] = seen'[r][p] + Net(moves'[r], p)
  <2>. SUFFICES ASSUME NEW p \in Products, <<"inventory", p>> \in held'[r]
                PROVE  work'[r][p] = seen'[r][p] + Net(moves'[r], p)
    OBVIOUS
  <2>1. Net(moves'[r], p) = 0 /\ Net(moves[r], p) = 0
    BY <1>2
  <2>2. CASE <<"inventory", p>> \in held[r] /\ work'[r][p] = work[r][p] /\ seen'[r][p] = seen[r][p]
    BY <1>3, <2>1, <2>2
  <2>3. CASE work'[r][p] = seen'[r][p] /\ seen'[r][p] \in Nat
    BY <2>1, <2>3
  <2>. QED
    BY <2>2, <2>3
<1>. QED
  BY <1>1, <1>4 DEF MovesOfLines, BalanceOfMoves, Doing

\* Locking a balance and reading it: no movement of its product came before.
LEMMA BalanceLocked ==
    ASSUME IInv, BooksInv, NEW r \in Requests, NEW p \in Products,
           ReadBalance(r, p), Lock(r, <<"inventory", p>>)
    PROVE  /\ held'[r] = held[r] \cup {<<"inventory", p>>}
           /\ \A x \in Products : <<"inventory", x>> \in held'[r] =>
                 work'[r][x] = seen'[r][x] + Net(moves[r], x)
<1>1. held'[r] = held[r] \cup {<<"inventory", p>>}
  BY DEF Lock, IInv, TypeOK, SessionTypeOK
<1>2. BalanceOfMoves(r)
  BY DEF BooksInv
<1>3. CASE <<"inventory", p>> \in held[r]
  BY <1>1, <1>2, <1>3 DEF ReadBalance, BalanceOfMoves
<1>4. CASE <<"inventory", p>> \notin held[r]
  <2>1. \A m \in moves[r] : m.product # p
    BY <1>2, <1>4 DEF BalanceOfMoves
  <2>2. Net(moves[r], p) = 0
    BY <2>1, NetOfNone
  <2>3. /\ seen'[r] = [seen[r] EXCEPT ![p] = stock[p]]
        /\ work'[r] = [work[r] EXCEPT ![p] = stock[p]]
    BY <1>4 DEF ReadBalance, IInv, TypeOK, SessionTypeOK
  <2>4. /\ seen'[r][p] = stock[p] /\ work'[r][p] = stock[p] /\ stock[p] \in Nat
        /\ \A x \in Products : x # p => seen'[r][x] = seen[r][x] /\ work'[r][x] = work[r][x]
    BY <2>3 DEF IInv, TypeOK, SessionTypeOK, DataTypeOK
  <2>5. \A x \in Products : x # p /\ <<"inventory", x>> \in held'[r] => <<"inventory", x>> \in held[r]
    BY <1>1
  <2>6. \A x \in Products : <<"inventory", x>> \in held[r] => work[r][x] = seen[r][x] + Net(moves[r], x)
    BY <1>2 DEF BalanceOfMoves
  <2>7. ASSUME NEW x \in Products, <<"inventory", x>> \in held'[r]
        PROVE  work'[r][x] = seen'[r][x] + Net(moves[r], x)
    <3>1. CASE x = p
      BY <2>2, <2>4, <3>1
    <3>2. CASE x # p
      BY <2>4, <2>5, <2>6, <2>7, <3>2
    <3>. QED
      BY <3>1, <3>2
  <2>. QED
    BY <1>1, <2>7
<1>. QED
  BY <1>3, <1>4

\* Nothing is posted yet when a checkout or a void starts to post.
LEMMA StartPostingBooks ==
    ASSUME IInv, BooksInv, NEW r \in Requests,
           \/ InsertSale(r) /\ ~Fail(r, "rejected")
           \/ LockSale(r) /\ ~Fail(r, "rejected")
    PROVE  MovesOfLines(r)' /\ BalanceOfMoves(r)'
<1>1. CASE InsertSale(r)
  <2>1. /\ pc[r] = "insert" /\ cmd[r].op = "checkout" /\ pc'[r] = "posting"
        /\ held'[r] = held[r] \cup {<<"key", cmd[r].key>>}
        /\ toPost'[r] = DOMAIN cmd[r].items
        /\ UNCHANGED <<data, cmd, view, seen, work, moves>>
    BY <1>1, RunningCommand DEF InsertSale, LockSale, Goto, Lock, IInv, TypeOK, SessionTypeOK
  <2>2. moves[r] = {} /\ BalanceOfMoves(r)
    BY <2>1 DEF BooksInv, MovesOfLines
  <2>3. BalanceOfMoves(r)'
    BY <2>1, <2>2 DEF BalanceOfMoves
  <2>4. DOMAIN PostedLines(r)' = DOMAIN cmd[r].items
    BY <2>1 DEF PostedLines, PricedLines
  <2>5. MovesOfLines(r)'
    BY <2>1, <2>2, <2>4 DEF MovesOfLines, Doing
  <2>. QED
    BY <2>3, <2>5
<1>2. CASE LockSale(r)
  <2>1. /\ pc[r] = "lockSale" /\ cmd[r].op = "void" /\ pc'[r] = "posting"
        /\ held'[r] = held[r] \cup {<<"sale", cmd[r].sale>>}
        /\ toPost'[r] = DOMAIN sales[cmd[r].sale].lines
        /\ UNCHANGED <<data, cmd, view, seen, work, moves>>
    BY <1>2, RunningCommand DEF InsertSale, LockSale, Goto, Lock, IInv, TypeOK, SessionTypeOK
  <2>2. moves[r] = {} /\ BalanceOfMoves(r)
    BY <2>1 DEF BooksInv, MovesOfLines
  <2>3. BalanceOfMoves(r)'
    BY <2>1, <2>2 DEF BalanceOfMoves
  <2>4. DOMAIN PostedLines(r)' = DOMAIN sales[cmd[r].sale].lines
    BY <2>1 DEF PostedLines, data
  <2>5. MovesOfLines(r)'
    BY <2>1, <2>2, <2>4 DEF MovesOfLines, Doing
  <2>. QED
    BY <2>3, <2>5
<1>. QED
  BY <1>1, <1>2

LEMMA LockForMovementBooks ==
    ASSUME IInv, BooksInv, NEW r \in Requests, NEW i \in toPost[r], LockForMovement(r, i)
    PROVE  MovesOfLines(r)' /\ BalanceOfMoves(r)'
<1>. DEFINE lines == PostedLines(r)
            p == lines[i].product
<1>1. /\ pc[r] = "posting" /\ cmd[r].op \in {"checkout", "void"}
      /\ i \in DOMAIN lines /\ lines[i] \in SaleLine /\ p \in Products
  BY RunningCommand, LinesToPost, PostedLinesType DEF LockForMovement, SaleLine
<1>2. /\ Lock(r, <<"inventory", p>>) /\ ReadBalance(r, p)
      /\ line'[r] = i /\ pc'[r] = "movement"
      /\ UNCHANGED <<data, cmd, view, toPost, moves>>
  BY DEF LockForMovement, Goto, IInv, TypeOK, SessionTypeOK
<1>3. PostedLines(r)' = lines
  BY <1>2 DEF PostedLines, data
<1>4. /\ held'[r] = held[r] \cup {<<"inventory", p>>}
      /\ \A x \in Products : <<"inventory", x>> \in held'[r] =>
            work'[r][x] = seen'[r][x] + Net(moves[r], x)
  BY <1>1, <1>2, BalanceLocked
<1>5. MovementOf(r)'.product = p
  BY <1>1, <1>2, <1>3 DEF MovementOf, SaleMovement, VoidMovement, Movement
<1>6. MovesOfLines(r) /\ BalanceOfMoves(r)
  BY DEF BooksInv
<1>7. BalanceOfMoves(r)'
  BY <1>2, <1>4, <1>5, <1>6 DEF BalanceOfMoves
<1>8. MovesOfLines(r)'
  BY <1>1, <1>2, <1>3, <1>6 DEF MovesOfLines, Doing
<1>. QED
  BY <1>7, <1>8

\* The movement goes to the movements, its delta to the balance.
LEMMA InsertMovementBooks ==
    ASSUME IInv, BooksInv, NEW r \in Requests, InsertMovement(r), ~Fail(r, "rejected")
    PROVE  MovesOfLines(r)' /\ BalanceOfMoves(r)'
<1>. DEFINE m == MovementOf(r)
            p == m.product
            lines == PostedLines(r)
<1>1. /\ pc[r] = "movement" /\ cmd[r].op \in {"checkout", "void", "adjust"}
      /\ m \in MovementRow /\ p \in Products /\ m.delta \in Int
  BY RunningCommand, MovementType DEF InsertMovement
<1>2. /\ MovementAccepted(r, m)
      /\ held'[r] = held[r] \cup {<<"share", p>>}
      /\ moves'[r] = moves[r] \cup {m}
      /\ work'[r] = [work[r] EXCEPT ![p] = @ + m.delta]
      /\ toPost'[r] = toPost[r] \ {line[r]}
      /\ pc'[r] = IF cmd[r].op = "adjust" THEN "audit" ELSE "posting"
      /\ UNCHANGED <<data, cmd, view, seen, line>>
  BY DEF InsertMovement, Lock, Goto, IInv, TypeOK, SessionTypeOK
<1>3. MovesOfLines(r) /\ BalanceOfMoves(r)
  BY DEF BooksInv
<1>4. PostedLines(r)' = lines
  BY <1>2 DEF PostedLines, data
<1>5. <<"inventory", p>> \in held[r]
  BY <1>1, <1>3 DEF BalanceOfMoves
<1>6. m \notin moves[r]
  BY <1>2 DEF MovementAccepted, SameSource
<1>7. moves[r] \in SUBSET MovementRow /\ moves'[r] \in SUBSET MovementRow
  BY <1>1, <1>2 DEF IInv, TypeOK, SessionTypeOK
<1>8. \A x : IsFiniteSet(Touching(moves[r], x))
  <2>1. IsFiniteSet(moves[r])
    <3>1. CASE cmd[r].op = "checkout"
      <4>1. IsFiniteSet(DOMAIN lines \ toPost[r])
        BY <1>1, <3>1, PostedLinesType, Interval, FS_Difference
      <4>2. moves[r] = {SaleMovement(r, lines, i) : i \in DOMAIN lines \ toPost[r]}
        BY <1>1, <1>3, <3>1 DEF MovesOfLines, Doing
      <4>. DEFINE D == DOMAIN lines \ toPost[r]
                  f == [i \in D |-> SaleMovement(r, lines, i)]
      <4>3. moves[r] = {f[i] : i \in D}
        BY <4>2
      <4>. HIDE DEF f
      <4>4. IsFiniteSet({f[i] : i \in D})
        BY <4>1, FiniteImage
      <4>. QED
        BY <4>3, <4>4
    <3>2. CASE cmd[r].op = "void"
      <4>1. IsFiniteSet(DOMAIN lines \ toPost[r])
        BY <1>1, <3>2, PostedLinesType, Interval, FS_Difference
      <4>2. moves[r] = {VoidMovement(cmd[r].sale, lines, i) : i \in DOMAIN lines \ toPost[r]}
        BY <1>1, <1>3, <3>2 DEF MovesOfLines, Doing
      <4>. DEFINE D == DOMAIN lines \ toPost[r]
                  f == [i \in D |-> VoidMovement(cmd[r].sale, lines, i)]
      <4>3. moves[r] = {f[i] : i \in D}
        BY <4>2
      <4>. HIDE DEF f
      <4>4. IsFiniteSet({f[i] : i \in D})
        BY <4>1, FiniteImage
      <4>. QED
        BY <4>3, <4>4
    <3>3. CASE cmd[r].op = "adjust"
      <4>1. moves[r] = {}
        BY <1>1, <1>3, <3>3 DEF MovesOfLines, Doing
      <4>. QED
        BY <4>1, FS_EmptySet
    <3>. QED
      BY <1>1, <3>1, <3>2, <3>3
  <2>. QED
    BY <2>1, FS_Subset DEF Touching
<1>9. ASSUME NEW x \in Products, <<"inventory", x>> \in held'[r]
      PROVE  work'[r][x] = seen'[r][x] + Net(moves'[r], x)
  <2>1. <<"inventory", x>> \in held[r]
    BY <1>2, <1>9
  <2>2. work[r][x] = seen[r][x] + Net(moves[r], x)
    BY <1>3, <2>1 DEF BalanceOfMoves
  <2>3. /\ Net(moves[r] \cup {m}, x) = Net(moves[r], x) + Net({m}, x)
        /\ Net(moves[r], x) \in Int /\ Net({m}, x) \in Int
        /\ Net({m}, x) = IF p = x THEN m.delta ELSE 0
    <3>1. Net({m}, x) = (IF p = x THEN m.delta ELSE 0) /\ IsFiniteSet(Touching({m}, x))
      BY <1>1, NetOfOne
    <3>2. moves[r] \cap {m} = {} /\ moves[r] \cup {m} \subseteq MovementRow
      BY <1>2, <1>6, <1>7
    <3>3. IsFiniteSet(Touching(moves[r], x))
      BY <1>8
    <3>. HIDE DEF m
    <3>. QED
      BY <3>1, <3>2, <3>3, NetUnion DEF p
  <2>4. seen'[r][x] = seen[r][x] /\ seen[r][x] \in Nat
    BY <1>2 DEF IInv, TypeOK, SessionTypeOK
  <2>5. work'[r][x] = work[r][x] + (IF p = x THEN m.delta ELSE 0)
    BY <1>1, <1>2 DEF IInv, TypeOK, SessionTypeOK
  <2>6. Net(moves'[r], x) = Net(moves[r], x) + Net({m}, x)
    BY <1>2, <2>3
  <2>. HIDE DEF m, p
  <2>. QED
    BY <1>1, <2>2, <2>3, <2>4, <2>5, <2>6
<1>10. BalanceOfMoves(r)'
  <2>1. \A n \in moves'[r] : <<"inventory", n.product>> \in held'[r]
    BY <1>2, <1>3, <1>5 DEF BalanceOfMoves
  <2>2. pc'[r] # "movement"
    BY <1>2
  <2>3. pc'[r] = "audit" => <<"inventory", cmd'[r].product>> \in held'[r]
    BY <1>1, <1>2, <1>5 DEF MovementOf, AdjustmentMovement, Movement
  <2>. QED
    BY <1>9, <2>1, <2>2, <2>3 DEF BalanceOfMoves
<1>11. MovesOfLines(r)'
  <2>1. CASE cmd[r].op = "checkout"
    <3>1. /\ m = SaleMovement(r, lines, line[r]) /\ line[r] \in DOMAIN lines
          /\ moves[r] = {SaleMovement(r, lines, i) : i \in DOMAIN lines \ toPost[r]}
      BY <1>1, <1>3, <2>1, LinesToPost DEF MovementOf, MovesOfLines, Doing
    <3>2. moves'[r] = {SaleMovement(r, lines, i) : i \in DOMAIN lines \ toPost'[r]}
      BY <1>2, <3>1
    <3>3. pc'[r] = "posting" /\ cmd'[r].op = "checkout"
      BY <1>2, <2>1
    <3>. QED
      BY <1>4, <3>2, <3>3 DEF MovesOfLines, Doing
  <2>2. CASE cmd[r].op = "void"
    <3>1. /\ m = VoidMovement(cmd[r].sale, lines, line[r]) /\ line[r] \in DOMAIN lines
          /\ moves[r] = {VoidMovement(cmd[r].sale, lines, i) : i \in DOMAIN lines \ toPost[r]}
      BY <1>1, <1>3, <2>2, LinesToPost DEF MovementOf, MovesOfLines, Doing
    <3>2. moves'[r] = {VoidMovement(cmd[r].sale, lines, i) : i \in DOMAIN lines \ toPost'[r]}
      BY <1>2, <3>1
    <3>3. pc'[r] = "posting" /\ cmd'[r].op = "void" /\ cmd'[r].sale = cmd[r].sale
      BY <1>2, <2>2
    <3>. QED
      BY <1>4, <3>2, <3>3 DEF MovesOfLines, Doing
  <2>3. CASE cmd[r].op = "adjust"
    <3>. DEFINE c == cmd[r]
                delta == AdjustmentDelta(c, seen[r][c.product])
    <3>1. m = AdjustmentMovement(r, c.product, delta) /\ moves[r] = {}
      BY <1>1, <1>3, <2>3 DEF MovementOf, MovesOfLines, Doing
    <3>2. delta # 0
      BY <1>2, <3>1 DEF MovementAccepted, ValidateMovement, AdjustmentMovement, Movement
    <3>3. pc'[r] = "audit" /\ cmd'[r] = cmd[r] /\ seen' = seen
      BY <1>2, <2>3
    <3>4. moves'[r] = {AdjustmentMovement(r, c.product, delta)}
      BY <1>2, <3>1
    <3>5. AdjustmentDelta(cmd'[r], seen'[r][cmd'[r].product]) = delta
      BY <3>3
    <3>. QED
      BY <2>3, <3>2, <3>3, <3>4, <3>5 DEF MovesOfLines, Doing
  <2>. QED
    BY <1>1, <2>1, <2>2, <2>3
<1>. QED
  BY <1>10, <1>11

\* An adjustment up to the count of its product.
LEMMA CountBooks ==
    ASSUME IInv, BooksInv, NEW r \in Requests, LockForCount(r), ~Fail(r, "rejected")
    PROVE  MovesOfLines(r)' /\ BalanceOfMoves(r)'
<1>. DEFINE c == cmd[r]
            p == c.product
            delta == AdjustmentDelta(c, stock[p])
<1>1. pc[r] = "count" /\ c.op = "adjust" /\ c \in AdjustCommand /\ p \in Products
  BY RunningCommand DEF LockForCount, AdjustCommand
<1>2. /\ Lock(r, <<"inventory", p>>) /\ ReadBalance(r, p)
      /\ pc'[r] = IF delta = 0 THEN "audit" ELSE "movement"
      /\ UNCHANGED <<data, cmd, view, toPost, moves>>
  BY DEF LockForCount, Goto, IInv, TypeOK, SessionTypeOK
<1>3. /\ held'[r] = held[r] \cup {<<"inventory", p>>}
      /\ \A x \in Products : <<"inventory", x>> \in held'[r] =>
            work'[r][x] = seen'[r][x] + Net(moves[r], x)
  BY <1>1, <1>2, BalanceLocked
<1>4. moves[r] = {}
  BY <1>1 DEF BooksInv, MovesOfLines
<1>5. seen'[r][p] = stock[p]
  <2>1. CASE <<"inventory", p>> \in held[r]
    BY <1>1, <1>2, <2>1 DEF ReadBalance, IInv, LockedBalanceIsCurrent
  <2>2. CASE <<"inventory", p>> \notin held[r]
    BY <1>1, <1>2, <2>2 DEF ReadBalance, IInv, TypeOK, SessionTypeOK
  <2>. QED
    BY <2>1, <2>2
<1>6. cmd'[r] = c /\ AdjustmentDelta(cmd'[r], seen'[r][cmd'[r].product]) = delta
  BY <1>2, <1>5
<1>7. MovementOf(r)'.product = p
  BY <1>1, <1>2, <1>6 DEF MovementOf, AdjustmentMovement, Movement
<1>8. BalanceOfMoves(r)'
  BY <1>2, <1>3, <1>4, <1>6, <1>7 DEF BalanceOfMoves
<1>9. MovesOfLines(r)'
  <2>. HIDE DEF delta
  <2>. QED
    BY <1>1, <1>2, <1>4, <1>6 DEF MovesOfLines, Doing
<1>. QED
  BY <1>8, <1>9

LEMMA MoverBooks ==
    ASSUME IInv, BooksInv, NEW r \in Requests, Step(r)
    PROVE  MovesOfLines(r)' /\ BalanceOfMoves(r)'
<1>1. CASE \E o \in Outcomes : End(r, o)
  BY <1>1, EndBooks
<1>2. CASE ~\E o \in Outcomes : End(r, o)
  <2>0. /\ ~Fail(r, "replayed") /\ ~Fail(r, "notFound") /\ ~Fail(r, "rejected") /\ ~Fail(r, "aborted")
        /\ ~End(r, "done")
    BY <1>2 DEF Outcomes, Fail
  <2>1. CASE Begin(r)
    <3>1. PICK c \in Commands : Goto(r, FirstStep(c))
      BY <2>1 DEF Begin
    <3>2. /\ pc[r] = "idle" /\ pc'[r] = FirstStep(c)
          /\ UNCHANGED <<held, seen, work, moves>>
      BY <2>1, <3>1 DEF Begin, Goto, IInv, TypeOK, SessionTypeOK
    <3>3. FirstStep(c) \notin {"posting", "movement", "audit"}
      BY DEF FirstStep
    <3>. QED
      BY <3>2, <3>3, QuietBooks
  <2>2. CASE LookupKey(r) \/ QueryDone(r) \/ PriceOrder(r)
    <3>1. /\ pc[r] \in {"lookup", "locking", "pricing"} /\ pc'[r] \in {"locking", "pricing", "insert"}
          /\ UNCHANGED <<held, seen, work, moves>>
      BY <2>0, <2>2 DEF LookupKey, QueryDone, PriceOrder, Goto, IInv, TypeOK, SessionTypeOK
    <3>. QED
      BY <3>1, QuietBooks
  <2>3. ASSUME NEW p \in Products, LockProductRow(r, p)
        PROVE  MovesOfLines(r)' /\ BalanceOfMoves(r)'
    <3>1. /\ pc[r] = "locking" /\ pc'[r] = "locking"
          /\ held'[r] = held[r] \cup {<<"product", p>>}
          /\ UNCHANGED <<seen, work, moves>>
      BY <2>3 DEF LockProductRow, Lock, IInv, TypeOK, SessionTypeOK
    <3>2. \A x : <<"inventory", x>> \in held'[r] => <<"inventory", x>> \in held[r]
      BY <3>1
    <3>. QED
      BY <3>1, <3>2, QuietBooks
  <2>4. ASSUME NEW p \in Products, LockInventoryRow(r, p)
        PROVE  MovesOfLines(r)' /\ BalanceOfMoves(r)'
    <3>1. /\ pc[r] = "locking" /\ pc'[r] = "locking"
          /\ held'[r] = held[r] \cup {<<"inventory", p>>}
          /\ seen'[r] = [seen[r] EXCEPT ![p] = stock[p]]
          /\ work'[r] = [work[r] EXCEPT ![p] = stock[p]]
          /\ moves' = moves
      BY <2>4 DEF LockInventoryRow, Lock, IInv, TypeOK, SessionTypeOK
    <3>2. /\ seen'[r][p] = stock[p] /\ work'[r][p] = stock[p] /\ stock[p] \in Nat
          /\ \A x \in Products : x # p => seen'[r][x] = seen[r][x] /\ work'[r][x] = work[r][x]
      BY <3>1 DEF IInv, TypeOK, SessionTypeOK, DataTypeOK
    <3>3. \A x \in Products : x # p /\ <<"inventory", x>> \in held'[r] => <<"inventory", x>> \in held[r]
      BY <3>1
    <3>. QED
      BY <3>1, <3>2, <3>3, QuietBooks
  <2>5. CASE ReadCost(r)
    <3>1. /\ pc[r] = "readCost" /\ pc'[r] = "count"
          /\ UNCHANGED <<held, seen, work, moves>>
      BY <2>0, <2>5 DEF ReadCost, Goto, IInv, TypeOK, SessionTypeOK
    <3>. QED
      BY <3>1, QuietBooks
  <2>6. CASE LockForEdit(r)
    <3>1. /\ pc[r] = "lockProduct" /\ pc'[r] \in {"reorder", "commit"}
          /\ held'[r] = held[r] \cup {<<"product", cmd[r].product>>}
          /\ UNCHANGED <<seen, work, moves>>
      BY <2>0, <2>6 DEF LockForEdit, Lock, Goto, IInv, TypeOK, SessionTypeOK
    <3>2. \A x : <<"inventory", x>> \in held'[r] => <<"inventory", x>> \in held[r]
      BY <3>1
    <3>. QED
      BY <3>1, <3>2, QuietBooks
  <2>7. CASE UpdateInventoryRow(r)
    <3>. DEFINE p == cmd[r].product
    <3>1. /\ pc[r] = "reorder" /\ pc'[r] = "commit" /\ moves' = moves
          /\ Lock(r, <<"inventory", p>>) /\ ReadBalance(r, p)
      BY <2>7 DEF UpdateInventoryRow, Goto, IInv, TypeOK, SessionTypeOK
    <3>2. p \in Products
      BY <3>1, RunningCommand DEF UpdateCommand, DeleteCommand
    <3>3. moves[r] = {} /\ moves'[r] = {}
      BY <3>1 DEF BooksInv, MovesOfLines
    <3>4. \A x \in Products : <<"inventory", x>> \in held'[r] =>
             work'[r][x] = seen'[r][x] + Net(moves[r], x)
      BY <3>1, <3>2, BalanceLocked
    <3>. HIDE DEF p
    <3>. QED
      BY <3>1, <3>3, <3>4 DEF MovesOfLines, BalanceOfMoves, Doing
  <2>8. CASE InsertSale(r) \/ LockSale(r) \/ PostMovementTx(r) \/ LockForCount(r)
    BY <2>0, <2>8, StartPostingBooks, LockForMovementBooks, InsertMovementBooks, CountBooks
       DEF PostMovementTx
  <2>9. ~(CommitSale(r) \/ CommitVoid(r) \/ CommitAdjustment(r) \/ CommitEdit(r)
            \/ CreateProduct(r) \/ Abort(r) \/ LoseDeadlock(r))
    BY <2>0 DEF CommitSale, CommitVoid, CommitAdjustment, CommitEdit, CreateProduct, Abort,
       LoseDeadlock, Fail
  <2>. QED
    BY <2>1, <2>2, <2>3, <2>4, <2>5, <2>6, <2>7, <2>8, <2>9
       DEF Step, Proceed, Checkout, VoidTransaction, AdjustStock, Maintain
<1>. QED
  BY <1>1, <1>2

-----------------------------------------------------------------------------
(***************************************************************************)
(* The committed books.                                                    *)
(***************************************************************************)
\* What is over, stays over: a request that moves is not done.
LEMMA DoneStays ==
    ASSUME IInv, NEW r \in Requests, Step(r)
    PROVE  pc[r] # "done" /\ \A q \in Requests : pc[q] = "done" => pc'[q] = "done"
<1>1. pc[r] # "done"
  BY MoverHasNoSale
<1>. QED
  BY <1>1, OthersUntouched DEF IInv

\* What a session has posted is new, is of products there are, and adds up with the
\* balances it publishes.
LEMMA Published ==
    ASSUME IInv, BooksInv, NEW r \in Requests, Publish(r), NEW p \in Products,
           IsFiniteSet(Touching(moves[r], p)), moves[r] \cap movements = {}
    PROVE  /\ stock'[p] = stock[p] + Net(moves[r], p)
           /\ Net(moves[r], p) \in Int
           /\ stock'[p] = Net(movements', p)
           /\ IsFiniteSet(Touching(movements', p))
<1>1. BalanceOfMoves(r) /\ StockIsSumOfMovements /\ MovementsOfProducts
  BY DEF BooksInv
<1>2. movements' = movements \cup moves[r]
  BY DEF Publish
<1>3. movements \cup moves[r] \subseteq MovementRow /\ stock[p] \in Nat
  BY DEF IInv, TypeOK, DataTypeOK, SessionTypeOK
<1>4. IsFiniteSet(Touching(movements, p))
  BY <1>1 DEF MovementsOfProducts, Touching
<1>5. /\ Net(movements \cup moves[r], p) = Net(movements, p) + Net(moves[r], p)
      /\ IsFiniteSet(Touching(movements \cup moves[r], p))
      /\ Net(moves[r], p) \in Int /\ Net(movements, p) \in Int
  BY <1>3, <1>4, NetUnion
<1>6. stock'[p] = stock[p] + Net(moves[r], p)
  <2>1. CASE <<"inventory", p>> \in held[r]
    <3>1. stock'[p] = work[r][p] /\ seen[r][p] = stock[p]
      BY <2>1 DEF Publish, IInv, LockedBalanceIsCurrent
    <3>. QED
      BY <1>1, <2>1, <3>1 DEF BalanceOfMoves
  <2>2. CASE <<"inventory", p>> \notin held[r]
    <3>1. \A m \in moves[r] : m.product # p
      BY <1>1, <2>2 DEF BalanceOfMoves
    <3>2. Net(moves[r], p) = 0
      BY <3>1, NetOfNone
    <3>3. stock'[p] = stock[p]
      BY <2>2 DEF Publish
    <3>. QED
      BY <1>3, <3>2, <3>3
  <2>. QED
    BY <2>1, <2>2
<1>7. stock[p] = Net(movements, p)
  BY <1>1 DEF StockIsSumOfMovements
<1>. QED
  BY <1>2, <1>5, <1>6, <1>7

\* What a checkout publishes.
LEMMA SaleEffect ==
    ASSUME IInv, BooksInv, NEW r \in Requests, Step(r), CommitSale(r), ~Fail(r, "rejected")
    PROVE  LET lines == PostedLines(r)
               sale  == SaleRow(cmd[r], lines)
           IN  /\ pc[r] = "posting" /\ cmd[r].op = "checkout" /\ cmd[r] \in CheckoutCommand
               /\ lines \in Seq(SaleLine) /\ lines = PricedLines(cmd[r].items, view[r])
               /\ sale \in SaleRecord /\ sale.lines = lines
               /\ sale.status = "COMPLETED" /\ sale # NoRow
               /\ ValidateBalance(SaleEntry(r, sale).lines)
               /\ sales[r] = NoRow
               /\ sales' = [sales EXCEPT ![r] = sale]
               /\ journal' = journal \cup {SaleEntry(r, sale)}
               /\ Publish(r)
               /\ UNCHANGED <<catalog, audits>>
               /\ moves[r] = {SaleMovement(r, lines, i) : i \in DOMAIN lines}
               /\ moves[r] \cap movements = {}
               /\ movements' = movements \cup moves[r]
               /\ \A p \in Products :
                     /\ stock'[p] = stock[p] - Requested(lines, p)
                     /\ Requested(lines, p) \in Nat /\ Requested(lines, p) <= stock[p]
                     /\ stock'[p] = Net(movements', p)
                     /\ IsFiniteSet(Touching(movements', p))
<1>. DEFINE lines == PostedLines(r)
            sale == SaleRow(cmd[r], lines)
<1>1. /\ pc[r] = "posting" /\ cmd[r].op = "checkout" /\ toPost[r] = {}
      /\ ValidateBalance(SaleEntry(r, sale).lines)
      /\ sales' = [sales EXCEPT ![r] = sale]
      /\ journal' = journal \cup {SaleEntry(r, sale)}
      /\ Publish(r)
      /\ UNCHANGED <<catalog, audits>>
  BY DEF CommitSale, LinesPosted
<1>2. cmd[r] \in CheckoutCommand
  BY <1>1, RunningCommand
<1>3. lines \in Seq(SaleLine) /\ lines = PricedLines(cmd[r].items, view[r])
  BY <1>1, PostedLinesType DEF PostedLines
<1>4. sale \in SaleRecord /\ sale.lines = lines /\ sale.status = "COMPLETED" /\ sale # NoRow
  BY <1>1, CommittedSale, StoreAssumption DEF SaleRow
<1>5. sales[r] = NoRow
  BY MoverHasNoSale
<1>6. moves[r] = {SaleMovement(r, lines, i) : i \in DOMAIN lines}
  <2>1. MovesOfLines(r)
    BY DEF BooksInv
  <2>. QED
    BY <1>1, <2>1 DEF MovesOfLines, Doing
<1>7. moves[r] \cap movements = {}
  <2>1. SUFFICES ASSUME NEW m \in moves[r], m \in movements PROVE FALSE
    OBVIOUS
  <2>2. m.source = "POS_SALE" /\ m.doc = r
    BY <1>6 DEF SaleMovement, Movement
  <2>3. PICK t \in SoldSet : m \in {SaleMovement(t, sales[t].lines, i) : i \in DOMAIN sales[t].lines}
    BY <2>1, <2>2 DEF BooksInv, TrailMatchesDocuments
  <2>4. m.doc = t
    BY <2>3 DEF SaleMovement, Movement
  <2>. QED
    BY <1>5, <2>2, <2>3, <2>4 DEF SoldSet
<1>8. movements' = movements \cup moves[r]
  BY <1>1 DEF Publish
<1>9. ASSUME NEW p \in Products
      PROVE  /\ stock'[p] = stock[p] - Requested(lines, p)
             /\ Requested(lines, p) \in Nat /\ Requested(lines, p) <= stock[p]
             /\ stock'[p] = Net(movements', p)
             /\ IsFiniteSet(Touching(movements', p))
  <2>1. /\ Net(moves[r], p) = -Requested(lines, p)
        /\ IsFiniteSet(Touching(moves[r], p))
        /\ Requested(lines, p) \in Nat
    BY <1>3, <1>6, NetOfSale
  <2>2. /\ stock'[p] = stock[p] + Net(moves[r], p)
        /\ stock'[p] = Net(movements', p)
        /\ IsFiniteSet(Touching(movements', p))
    BY <1>1, <1>7, <2>1, Published
  <2>3. stock[p] \in Nat /\ stock'[p] \in Nat
    <3>1. TypeOK'
      BY TypeStep DEF Next, Step
    <3>. QED
      BY <3>1 DEF IInv, TypeOK, DataTypeOK
  <2>. HIDE DEF lines
  <2>. QED
    BY <2>1, <2>2, <2>3
<1>. QED
  BY <1>1, <1>2, <1>3, <1>4, <1>5, <1>6, <1>7, <1>8, <1>9

\* What a void publishes.
LEMMA VoidEffect ==
    ASSUME IInv, BooksInv, NEW r \in Requests, Step(r), CommitVoid(r), ~Fail(r, "rejected")
    PROVE  LET t     == cmd[r].sale
               lines == sales[t].lines
           IN  /\ pc[r] = "posting" /\ cmd[r].op = "void" /\ t \in Requests
               /\ sales[t] \in SaleRecord /\ sales[t].status = "COMPLETED" /\ sales[t] # NoRow
               /\ sales' = [sales EXCEPT ![t].status = "VOIDED"]
               /\ journal' = journal \cup {VoidEntry(t, sales[t])}
               /\ Publish(r)
               /\ UNCHANGED <<catalog, audits>>
               /\ moves[r] = {VoidMovement(t, lines, i) : i \in DOMAIN lines}
               /\ moves[r] \cap movements = {}
               /\ movements' = movements \cup moves[r]
               /\ \A p \in Products :
                     /\ stock'[p] = stock[p] + Requested(lines, p)
                     /\ stock'[p] = Net(movements', p)
                     /\ IsFiniteSet(Touching(movements', p))
<1>. DEFINE t == cmd[r].sale
            lines == sales[t].lines
<1>1. /\ pc[r] = "posting" /\ cmd[r].op = "void" /\ toPost[r] = {}
      /\ sales' = [sales EXCEPT ![t].status = "VOIDED"]
      /\ journal' = journal \cup {VoidEntry(t, sales[t])}
      /\ Publish(r)
      /\ UNCHANGED <<catalog, audits>>
  BY DEF CommitVoid, LinesPosted
<1>2. /\ t \in Requests /\ sales[t] \in SaleRecord /\ sales[t].status = "COMPLETED"
      /\ sales[t] # NoRow
  BY <1>1, VoidedSale, StoreAssumption
<1>3. lines \in Seq(SaleLine) /\ PostedLines(r) = lines
  BY <1>1, <1>2 DEF PostedLines, SaleRecord
<1>4. moves[r] = {VoidMovement(t, lines, i) : i \in DOMAIN lines}
  <2>1. MovesOfLines(r)
    BY DEF BooksInv
  <2>. QED
    BY <1>1, <1>3, <2>1 DEF MovesOfLines, Doing
<1>5. moves[r] \cap movements = {}
  <2>1. SUFFICES ASSUME NEW m \in moves[r], m \in movements PROVE FALSE
    OBVIOUS
  <2>2. m.source = "POS_VOID" /\ m.doc = t
    BY <1>4 DEF VoidMovement, Movement
  <2>3. PICK u \in VoidSet : m \in {VoidMovement(u, sales[u].lines, i) : i \in DOMAIN sales[u].lines}
    BY <2>1, <2>2 DEF BooksInv, TrailMatchesDocuments
  <2>4. m.doc = u
    BY <2>3 DEF VoidMovement, Movement
  <2>. QED
    BY <1>2, <2>2, <2>3, <2>4 DEF VoidSet
<1>6. movements' = movements \cup moves[r]
  BY <1>1 DEF Publish
<1>7. ASSUME NEW p \in Products
      PROVE  /\ stock'[p] = stock[p] + Requested(lines, p)
             /\ stock'[p] = Net(movements', p)
             /\ IsFiniteSet(Touching(movements', p))
  <2>1. /\ Net(moves[r], p) = Requested(lines, p)
        /\ IsFiniteSet(Touching(moves[r], p))
    <3>. HIDE DEF t, lines
    <3>. DEFINE ms == {VoidMovement(t, lines, i) : i \in DOMAIN lines}
    <3>1. lines \in Seq(SaleLine)
      BY <1>3
    <3>2. Net(ms, p) = Requested(lines, p) /\ IsFiniteSet(Touching(ms, p))
      BY <3>1, NetOfVoid
    <3>3. moves[r] = ms
      BY <1>4
    <3>. HIDE DEF ms
    <3>. QED
      BY <3>2, <3>3
  <2>. QED
    BY <1>1, <1>5, <2>1, Published
<1>. QED
  BY <1>1, <1>2, <1>4, <1>5, <1>6, <1>7

\* What an adjustment publishes.
LEMMA AdjustmentEffect ==
    ASSUME IInv, BooksInv, NEW r \in Requests, Step(r), CommitAdjustment(r)
    PROVE  LET p     == cmd[r].product
               delta == AdjustmentDelta(cmd[r], stock[p])
           IN  /\ pc[r] = "audit" /\ cmd[r].op = "adjust" /\ cmd[r] \in AdjustCommand
               /\ cmd[r] \in Commands
               /\ p \in Products /\ delta \in Int
               /\ catalog[p] # NoRow
               /\ AdjustmentAccepted(cmd[r], stock[p])
               /\ journal' = journal \cup AdjustmentEntries(r, delta, view[r][p].cost)
               /\ view[r][p].cost \in Promise!KnownCosts(p)
               /\ audits' = audits \cup {AuditRow(r, p, stock[p], delta)}
               /\ Publish(r)
               /\ UNCHANGED <<catalog, sales>>
               /\ moves[r] = IF delta = 0 THEN {} ELSE {AdjustmentMovement(r, p, delta)}
               /\ moves[r] \cap movements = {}
               /\ movements' = movements \cup moves[r]
               /\ stock' = [stock EXCEPT ![p] = @ + delta]
               /\ \A x \in Products : /\ stock'[x] = Net(movements', x)
                                      /\ IsFiniteSet(Touching(movements', x))
<1>. DEFINE p == cmd[r].product
            delta == AdjustmentDelta(cmd[r], stock[p])
<1>1. /\ pc[r] = "audit" /\ cmd[r].op = "adjust" /\ cmd[r] \in AdjustCommand /\ cmd[r] \in Commands
      /\ p \in Products
  BY RunningCommand DEF CommitAdjustment, AdjustCommand
<1>2. MovesOfLines(r) /\ BalanceOfMoves(r)
  BY DEF BooksInv
<1>3. <<"inventory", p>> \in held[r] /\ seen[r][p] = stock[p]
  BY <1>1, <1>2 DEF BalanceOfMoves, IInv, LockedBalanceIsCurrent
<1>4. /\ catalog[p] # NoRow /\ AdjustmentAccepted(cmd[r], stock[p])
      /\ view[r][p].cost \in Promise!KnownCosts(p)
  BY <1>1, <1>3 DEF IInv, SessionInv, LockedRowsExist, AdjustsKnownProduct, Doing,
     BooksInv, CostsAreKnown
<1>5. /\ journal' = journal \cup AdjustmentEntries(r, delta, view[r][p].cost)
      /\ audits' = audits \cup {AuditRow(r, p, stock[p], delta)}
      /\ Publish(r)
      /\ UNCHANGED <<catalog, sales>>
  BY <1>3 DEF CommitAdjustment
<1>6. moves[r] = IF delta = 0 THEN {} ELSE {AdjustmentMovement(r, p, delta)}
  BY <1>1, <1>2, <1>3 DEF MovesOfLines, Doing
<1>7. delta \in Int /\ stock \in [Products -> Nat]
  BY <1>1, DeltaType DEF IInv, TypeOK, DataTypeOK
<1>8. moves[r] \cap movements = {}
  <2>1. SUFFICES ASSUME NEW m \in moves[r], m \in movements PROVE FALSE
    OBVIOUS
  <2>2. m.source = "MANUAL_ADJUSTMENT" /\ m.doc = r
    BY <1>6 DEF AdjustmentMovement, Movement
  <2>. QED
    BY <1>1, <2>1, <2>2 DEF BooksInv, AdjustedWhenDone
<1>9. movements' = movements \cup moves[r]
  BY <1>5 DEF Publish
<1>. HIDE DEF delta
<1>10. ASSUME NEW x \in Products
       PROVE  /\ stock'[x] = IF x = p THEN stock[x] + delta ELSE stock[x]
              /\ stock'[x] = Net(movements', x)
              /\ IsFiniteSet(Touching(movements', x))
  <2>1. /\ Net(moves[r], x) = IF x = p THEN delta ELSE 0
        /\ IsFiniteSet(Touching(moves[r], x))
    <3>1. CASE delta = 0
      BY <1>6, <3>1, NetOfNone
    <3>2. CASE delta # 0
      <4>. DEFINE m == AdjustmentMovement(r, p, delta)
      <4>1. m.product = p /\ m.delta = delta
        BY DEF AdjustmentMovement, Movement
      <4>2. moves[r] = {m}
        BY <1>6, <3>2
      <4>. HIDE DEF m
      <4>. QED
        BY <1>7, <4>1, <4>2, NetOfOne
    <3>. QED
      BY <3>1, <3>2
  <2>2. /\ stock'[x] = stock[x] + Net(moves[r], x)
        /\ stock'[x] = Net(movements', x)
        /\ IsFiniteSet(Touching(movements', x))
    BY <1>5, <1>8, <2>1, Published
  <2>. QED
    BY <1>7, <2>1, <2>2
<1>11. stock' = [stock EXCEPT ![p] = @ + delta]
  <2>1. stock' \in [Products -> Nat]
    BY <1>5, PublishType DEF IInv
  <2>. QED
    BY <1>1, <1>7, <1>10, <2>1
<1>. QED
  BY <1>1, <1>4, <1>5, <1>6, <1>7, <1>8, <1>9, <1>10, <1>11 DEF delta

\* A sale adds itself to the documents, and what it posted to the trail.
LEMMA SaleTrail ==
    ASSUME IInv, BooksInv, NEW r \in Requests, Step(r), CommitSale(r), ~Fail(r, "rejected")
    PROVE  TrailMatchesDocuments'
<1>. DEFINE sale == SaleRow(cmd[r], PostedLines(r))
            before == [t \in Requests |-> {SaleMovement(t, sales[t].lines, i) : i \in DOMAIN sales[t].lines}]
            after == [t \in Requests |-> {SaleMovement(t, sales'[t].lines, i) : i \in DOMAIN sales'[t].lines}]
            voids == [t \in Requests |-> {VoidMovement(t, sales[t].lines, i) : i \in DOMAIN sales[t].lines}]
            voidsAfter == [t \in Requests |-> {VoidMovement(t, sales'[t].lines, i) : i \in DOMAIN sales'[t].lines}]
<1>1. /\ sale \in SaleRecord /\ sale.status = "COMPLETED" /\ sale # NoRow
      /\ sale.lines = PostedLines(r)
      /\ sales[r] = NoRow
      /\ sales' = [sales EXCEPT ![r] = sale]
      /\ journal' = journal \cup {SaleEntry(r, sale)}
      /\ moves[r] = {SaleMovement(r, PostedLines(r), i) : i \in DOMAIN PostedLines(r)}
      /\ movements' = movements \cup moves[r]
  BY SaleEffect
<1>2. TrailMatchesDocuments
  BY DEF BooksInv
<1>3. /\ sales'[r] = sale
      /\ \A t \in Requests : t # r => sales'[t] = sales[t]
  BY <1>1 DEF IInv, TypeOK, DataTypeOK
<1>. HIDE DEF sale
<1>4. /\ SoldSet' = SoldSet \cup {r} /\ r \notin SoldSet
      /\ VoidSet' = VoidSet /\ VoidSet \subseteq SoldSet
      /\ SoldSet \subseteq Requests
      /\ \A t \in SoldSet : sales'[t] = sales[t]
  BY <1>1, <1>3 DEF SoldSet, VoidSet
<1>5. {m \in movements' : m.source = "POS_SALE"} = {m \in movements : m.source = "POS_SALE"} \cup moves[r]
  BY <1>1 DEF SaleMovement, Movement
<1>6. {m \in movements' : m.source = "POS_VOID"} = {m \in movements : m.source = "POS_VOID"}
  BY <1>1 DEF SaleMovement, Movement
<1>7. /\ {e \in journal' : e.source = "POS_SALE"}
            = {e \in journal : e.source = "POS_SALE"} \cup {SaleEntry(r, sale)}
      /\ {e \in journal' : e.source = "POS_VOID"} = {e \in journal : e.source = "POS_VOID"}
  BY <1>1 DEF SaleEntry, Entry
<1>8. /\ \A t \in SoldSet : after[t] = before[t] /\ voidsAfter[t] = voids[t]
      /\ after[r] = moves[r]
  <2>1. \A t \in SoldSet : after[t] = before[t] /\ voidsAfter[t] = voids[t]
    BY <1>4
  <2>2. sales'[r].lines = PostedLines(r)
    BY <1>1, <1>3
  <2>3. after[r] = {SaleMovement(r, PostedLines(r), i) : i \in DOMAIN PostedLines(r)}
    BY <2>2
  <2>. HIDE DEF after, before, voids, voidsAfter
  <2>. QED
    BY <1>1, <2>1, <2>3
<1>9. /\ {m \in movements : m.source = "POS_SALE"} = UNION {before[t] : t \in SoldSet}
      /\ {m \in movements : m.source = "POS_VOID"} = UNION {voids[t] : t \in VoidSet}
  <2>1. /\ UNION {before[t] : t \in SoldSet}
              = UNION {{SaleMovement(t, sales[t].lines, i) : i \in DOMAIN sales[t].lines} : t \in SoldSet}
        /\ UNION {voids[t] : t \in VoidSet}
              = UNION {{VoidMovement(t, sales[t].lines, i) : i \in DOMAIN sales[t].lines} : t \in VoidSet}
    BY DEF SoldSet, VoidSet
  <2>. HIDE DEF before, voids
  <2>. QED
    BY <1>2, <2>1 DEF TrailMatchesDocuments
<1>10. /\ {m \in movements' : m.source = "POS_SALE"} = UNION {after[t] : t \in SoldSet'}
       /\ {m \in movements' : m.source = "POS_VOID"} = UNION {voidsAfter[t] : t \in VoidSet'}
  <2>. HIDE DEF before, after, voids, voidsAfter
  <2>. QED
    BY <1>4, <1>5, <1>6, <1>8, <1>9
<1>11. /\ {e \in journal' : e.source = "POS_SALE"} = {SaleEntry(t, sales'[t]) : t \in SoldSet'}
       /\ {e \in journal' : e.source = "POS_VOID"} = {VoidEntry(t, sales'[t]) : t \in VoidSet'}
  <2>1. /\ {e \in journal : e.source = "POS_SALE"} = {SaleEntry(t, sales[t]) : t \in SoldSet}
        /\ {e \in journal : e.source = "POS_VOID"} = {VoidEntry(t, sales[t]) : t \in VoidSet}
    BY <1>2 DEF TrailMatchesDocuments
  <2>2. /\ {SaleEntry(t, sales'[t]) : t \in SoldSet'} = {SaleEntry(t, sales[t]) : t \in SoldSet} \cup {SaleEntry(r, sale)}
        /\ {VoidEntry(t, sales'[t]) : t \in VoidSet'} = {VoidEntry(t, sales[t]) : t \in VoidSet}
    BY <1>3, <1>4
  <2>. QED
    BY <1>7, <2>1, <2>2
<1>12. /\ UNION {after[t] : t \in SoldSet'}
             = UNION {{SaleMovement(t, sales'[t].lines, i) : i \in DOMAIN sales'[t].lines} : t \in SoldSet'}
       /\ UNION {voidsAfter[t] : t \in VoidSet'}
             = UNION {{VoidMovement(t, sales'[t].lines, i) : i \in DOMAIN sales'[t].lines} : t \in VoidSet'}
  BY DEF SoldSet, VoidSet
<1>. QED
  BY <1>10, <1>11, <1>12 DEF TrailMatchesDocuments

\* A void makes of its sale a voided one, and adds the way back to the trail.
LEMMA VoidTrail ==
    ASSUME IInv, BooksInv, NEW r \in Requests, Step(r), CommitVoid(r), ~Fail(r, "rejected")
    PROVE  TrailMatchesDocuments'
<1>. DEFINE v == cmd[r].sale
            before == [t \in Requests |-> {SaleMovement(t, sales[t].lines, i) : i \in DOMAIN sales[t].lines}]
            after == [t \in Requests |-> {SaleMovement(t, sales'[t].lines, i) : i \in DOMAIN sales'[t].lines}]
            voids == [t \in Requests |-> {VoidMovement(t, sales[t].lines, i) : i \in DOMAIN sales[t].lines}]
            voidsAfter == [t \in Requests |-> {VoidMovement(t, sales'[t].lines, i) : i \in DOMAIN sales'[t].lines}]
<1>1. /\ v \in Requests /\ sales[v] \in SaleRecord /\ sales[v].status = "COMPLETED" /\ sales[v] # NoRow
      /\ sales' = [sales EXCEPT ![v].status = "VOIDED"]
      /\ journal' = journal \cup {VoidEntry(v, sales[v])}
      /\ moves[r] = {VoidMovement(v, sales[v].lines, i) : i \in DOMAIN sales[v].lines}
      /\ movements' = movements \cup moves[r]
  BY VoidEffect
<1>2. TrailMatchesDocuments
  BY DEF BooksInv
<1>. HIDE DEF v
<1>3. /\ sales'[v] = [sales[v] EXCEPT !.status = "VOIDED"]
      /\ \A t \in Requests : t # v => sales'[t] = sales[t]
  BY <1>1 DEF IInv, TypeOK, DataTypeOK
<1>4. /\ sales'[v] \in SaleRecord /\ sales'[v] # NoRow
      /\ sales'[v].status = "VOIDED" /\ sales'[v].lines = sales[v].lines
      /\ sales'[v].total = sales[v].total /\ sales'[v].payment = sales[v].payment
  <2>1. sales'[v] \in SaleRecord
    BY <1>1, <1>3 DEF SaleRecord
  <2>2. /\ sales'[v].status = "VOIDED" /\ sales'[v].lines = sales[v].lines
        /\ sales'[v].total = sales[v].total /\ sales'[v].payment = sales[v].payment
    BY <1>1, <1>3 DEF SaleRecord
  <2>. QED
    BY <2>1, <2>2, StoreAssumption
<1>5. /\ SoldSet' = SoldSet /\ v \in SoldSet
      /\ VoidSet' = VoidSet \cup {v} /\ v \notin VoidSet
      /\ VoidSet \subseteq SoldSet /\ SoldSet \subseteq Requests
  BY <1>1, <1>3, <1>4 DEF SoldSet, VoidSet
<1>6. \A t \in Requests : sales'[t].lines = sales[t].lines
  BY <1>3, <1>4
<1>7. \A t \in SoldSet : SaleEntry(t, sales'[t]) = SaleEntry(t, sales[t]) /\ VoidEntry(t, sales'[t]) = VoidEntry(t, sales[t])
  <2>1. ASSUME NEW t \in SoldSet
        PROVE  /\ sales'[t].lines = sales[t].lines /\ sales'[t].total = sales[t].total
               /\ sales'[t].payment = sales[t].payment
    BY <1>3, <1>4, <1>5
  <2>. QED
    BY <2>1 DEF SaleEntry, VoidEntry
<1>8. {m \in movements' : m.source = "POS_VOID"} = {m \in movements : m.source = "POS_VOID"} \cup moves[r]
  BY <1>1 DEF VoidMovement, Movement
<1>9. {m \in movements' : m.source = "POS_SALE"} = {m \in movements : m.source = "POS_SALE"}
  BY <1>1 DEF VoidMovement, Movement
<1>10. /\ {e \in journal' : e.source = "POS_VOID"}
             = {e \in journal : e.source = "POS_VOID"} \cup {VoidEntry(v, sales[v])}
       /\ {e \in journal' : e.source = "POS_SALE"} = {e \in journal : e.source = "POS_SALE"}
  BY <1>1 DEF VoidEntry, Entry
<1>11. /\ \A t \in SoldSet : after[t] = before[t] /\ voidsAfter[t] = voids[t]
       /\ voids[v] = moves[r]
  BY <1>1, <1>5, <1>6
<1>12. /\ {m \in movements : m.source = "POS_SALE"} = UNION {before[t] : t \in SoldSet}
       /\ {m \in movements : m.source = "POS_VOID"} = UNION {voids[t] : t \in VoidSet}
  <2>1. /\ UNION {before[t] : t \in SoldSet}
              = UNION {{SaleMovement(t, sales[t].lines, i) : i \in DOMAIN sales[t].lines} : t \in SoldSet}
        /\ UNION {voids[t] : t \in VoidSet}
              = UNION {{VoidMovement(t, sales[t].lines, i) : i \in DOMAIN sales[t].lines} : t \in VoidSet}
    BY DEF SoldSet, VoidSet
  <2>. HIDE DEF before, voids
  <2>. QED
    BY <1>2, <2>1 DEF TrailMatchesDocuments
<1>13. /\ {m \in movements' : m.source = "POS_SALE"} = UNION {after[t] : t \in SoldSet'}
       /\ {m \in movements' : m.source = "POS_VOID"} = UNION {voidsAfter[t] : t \in VoidSet'}
  <2>. HIDE DEF before, after, voids, voidsAfter
  <2>. QED
    BY <1>5, <1>8, <1>9, <1>11, <1>12
<1>14. /\ {e \in journal' : e.source = "POS_SALE"} = {SaleEntry(t, sales'[t]) : t \in SoldSet'}
       /\ {e \in journal' : e.source = "POS_VOID"} = {VoidEntry(t, sales'[t]) : t \in VoidSet'}
  <2>1. /\ {e \in journal : e.source = "POS_SALE"} = {SaleEntry(t, sales[t]) : t \in SoldSet}
        /\ {e \in journal : e.source = "POS_VOID"} = {VoidEntry(t, sales[t]) : t \in VoidSet}
    BY <1>2 DEF TrailMatchesDocuments
  <2>2. /\ {SaleEntry(t, sales'[t]) : t \in SoldSet'} = {SaleEntry(t, sales[t]) : t \in SoldSet}
        /\ {VoidEntry(t, sales'[t]) : t \in VoidSet'} = {VoidEntry(t, sales[t]) : t \in VoidSet} \cup {VoidEntry(v, sales[v])}
    BY <1>5, <1>7
  <2>. QED
    BY <1>10, <2>1, <2>2
<1>15. /\ UNION {after[t] : t \in SoldSet'}
             = UNION {{SaleMovement(t, sales'[t].lines, i) : i \in DOMAIN sales'[t].lines} : t \in SoldSet'}
       /\ UNION {voidsAfter[t] : t \in VoidSet'}
             = UNION {{VoidMovement(t, sales'[t].lines, i) : i \in DOMAIN sales'[t].lines} : t \in VoidSet'}
  BY DEF SoldSet, VoidSet
<1>. QED
  BY <1>13, <1>14, <1>15 DEF TrailMatchesDocuments

\* Movements and entries of other documents leave the trail of the sales alone.
LEMMA SameTrail ==
    ASSUME TrailMatchesDocuments, sales' = sales,
           \A m : m.source \in {"POS_SALE", "POS_VOID"} => (m \in movements' <=> m \in movements),
           \A e : e.source \in {"POS_SALE", "POS_VOID"} => (e \in journal' <=> e \in journal)
    PROVE  TrailMatchesDocuments'
<1>1. /\ {m \in movements' : m.source = "POS_SALE"} = {m \in movements : m.source = "POS_SALE"}
      /\ {m \in movements' : m.source = "POS_VOID"} = {m \in movements : m.source = "POS_VOID"}
      /\ {e \in journal' : e.source = "POS_SALE"} = {e \in journal : e.source = "POS_SALE"}
      /\ {e \in journal' : e.source = "POS_VOID"} = {e \in journal : e.source = "POS_VOID"}
  OBVIOUS
<1>. QED
  BY <1>1 DEF TrailMatchesDocuments, SoldSet, VoidSet

\* The opening stock of a product is its opening movement.
LEMMA OpeningNet ==
    ASSUME NEW p \in Products, NEW quantity \in Nat
    PROVE  LET ms == OpeningMovements(p, quantity)
           IN  /\ \A x \in Products : /\ Net(ms, x) = IF x = p THEN quantity ELSE 0
                                      /\ IsFiniteSet(Touching(ms, x))
               /\ \A m \in ms : m.product = p /\ m.source = "PRODUCT_CREATE"
               /\ ms \subseteq MovementRow
<1>. DEFINE m == Movement(p, quantity, "OPENING", "PRODUCT_CREATE", p, 0)
            ms == OpeningMovements(p, quantity)
<1>1. m.product = p /\ m.delta = quantity /\ m.source = "PRODUCT_CREATE" /\ m \in MovementRow
  BY DEF Movement, MovementRow
<1>2. ms = IF quantity > 0 THEN {m} ELSE {}
  BY DEF OpeningMovements
<1>. HIDE DEF m, ms
<1>3. ASSUME NEW x \in Products
      PROVE  Net(ms, x) = (IF x = p THEN quantity ELSE 0) /\ IsFiniteSet(Touching(ms, x))
  <2>1. CASE quantity > 0
    BY <1>1, <1>2, <2>1, NetOfOne
  <2>2. CASE ~(quantity > 0)
    <3>1. ms = {} /\ quantity = 0
      BY <1>2, <2>2
    <3>. QED
      BY <3>1, NetOfNone
  <2>. QED
    BY <2>1, <2>2
<1>. QED
  BY <1>1, <1>2, <1>3 DEF ms

\* What the creation of a product publishes.
LEMMA CreateEffect ==
    ASSUME IInv, BooksInv, NEW r \in Requests, Step(r), CreateProduct(r), ~Fail(r, "rejected")
    PROVE  LET p == cmd[r].product
           IN  /\ pc[r] = "create" /\ cmd[r] \in CreateCommand /\ cmd[r] \in Commands
               /\ cmd[r].op = "create" /\ p \in Products
               /\ catalog[p] = NoRow
               /\ catalog' = [catalog EXCEPT ![p] = cmd[r].row]
               /\ stock' = [stock EXCEPT ![p] = cmd[r].initial]
               /\ movements' = movements \cup OpeningMovements(p, cmd[r].initial)
               /\ UNCHANGED <<sales, journal, audits>>
               /\ \A x \in Products : /\ stock'[x] = Net(movements', x)
                                      /\ IsFiniteSet(Touching(movements', x))
<1>. DEFINE p == cmd[r].product
            quantity == cmd[r].initial
            ms == OpeningMovements(p, quantity)
<1>1. /\ pc[r] = "create" /\ cmd[r] \in CreateCommand /\ cmd[r] \in Commands
      /\ cmd[r].op = "create" /\ p \in Products /\ quantity \in Nat
  BY RunningCommand DEF CreateProduct, CreateCommand
<1>2. /\ catalog[p] = NoRow
      /\ catalog' = [catalog EXCEPT ![p] = cmd[r].row]
      /\ stock' = [stock EXCEPT ![p] = quantity]
      /\ movements' = movements \cup ms
      /\ UNCHANGED <<sales, journal, audits>>
  BY DEF CreateProduct
<1>. HIDE DEF p, quantity
<1>3. /\ \A x \in Products : /\ Net(ms, x) = IF x = p THEN quantity ELSE 0
                             /\ IsFiniteSet(Touching(ms, x))
      /\ \A m \in ms : m.product = p
      /\ ms \subseteq MovementRow
  BY <1>1, OpeningNet
<1>4. /\ MovementsOfProducts /\ StockIsSumOfMovements
      /\ movements \subseteq MovementRow /\ stock \in [Products -> Nat]
  BY DEF BooksInv, IInv, TypeOK, DataTypeOK
<1>5. \A m \in movements : m.product # p
  BY <1>2, <1>4 DEF MovementsOfProducts
<1>. HIDE DEF ms
<1>6. ASSUME NEW x \in Products
      PROVE  stock'[x] = Net(movements', x) /\ IsFiniteSet(Touching(movements', x))
  <2>1. movements \cap ms = {} /\ movements \cup ms \subseteq MovementRow
    BY <1>3, <1>4, <1>5
  <2>2. IsFiniteSet(Touching(movements, x)) /\ IsFiniteSet(Touching(ms, x))
    BY <1>3, <1>4 DEF MovementsOfProducts, Touching
  <2>3. /\ Net(movements \cup ms, x) = Net(movements, x) + Net(ms, x)
        /\ IsFiniteSet(Touching(movements \cup ms, x))
    BY <2>1, <2>2, NetUnion
  <2>4. Net(movements, x) = stock[x] /\ stock[x] \in Nat
    BY <1>4 DEF StockIsSumOfMovements
  <2>5. CASE x = p
    <3>1. Net(movements, x) = 0
      BY <1>5, <2>5, NetOfNone
    <3>2. stock'[x] = quantity /\ Net(ms, x) = quantity
      BY <1>1, <1>2, <1>3, <1>4, <2>5
    <3>. QED
      BY <1>1, <1>2, <2>3, <3>1, <3>2
  <2>6. CASE x # p
    <3>1. stock'[x] = stock[x] /\ Net(ms, x) = 0
      BY <1>2, <1>3, <1>4, <2>6
    <3>. QED
      BY <1>2, <2>3, <2>4, <3>1
  <2>. QED
    BY <2>5, <2>6
<1>. QED
  BY <1>1, <1>2, <1>6 DEF p, quantity, ms

\* A step commits, and publishes, or leaves the books alone.
LEMMA BooksChange ==
    ASSUME IInv, NEW r \in Requests, Step(r)
    PROVE  \/ UNCHANGED <<stock, movements, sales, journal, audits>>
           \/ CommitSale(r) /\ ~Fail(r, "rejected")
           \/ CommitVoid(r) /\ ~Fail(r, "rejected")
           \/ CommitAdjustment(r)
           \/ CreateProduct(r) /\ ~Fail(r, "rejected")
<1>1. CommitEdit(r) => UNCHANGED <<stock, movements, sales, journal, audits>>
  BY DEF CommitEdit
<1>. QED
  BY <1>1, DataChanges DEF data

\* New movements are of products there are.
LEMMA MovesOfRows ==
    ASSUME IInv, BooksInv, NEW r \in Requests, NEW m \in moves[r]
    PROVE  m.product \in Products /\ catalog[m.product] # NoRow
<1>1. m \in MovementRow
  BY DEF IInv, TypeOK, SessionTypeOK
<1>2. <<"inventory", m.product>> \in held[r]
  BY DEF BooksInv, BalanceOfMoves
<1>. QED
  BY <1>1, <1>2 DEF MovementRow, IInv, SessionInv, LockedRowsExist

LEMMA StockStep ==
    ASSUME IInv, BooksInv, NEW r \in Requests, Step(r)
    PROVE  StockIsSumOfMovements' /\ MovementsOfProducts'
<1>1. /\ StockIsSumOfMovements /\ MovementsOfProducts /\ movements \subseteq MovementRow
  BY DEF BooksInv, IInv, TypeOK, DataTypeOK
<1>2. \A m \in MovementRow : m.product \in Products
  BY DEF MovementRow
<1>3. \A p \in Products : stock'[p] = Net(movements', p) /\ IsFiniteSet(Touching(movements', p))
  <2>1. CASE UNCHANGED <<stock, movements, sales, journal, audits>>
    BY <1>1, <2>1 DEF StockIsSumOfMovements, MovementsOfProducts, Touching
  <2>2. CASE CommitSale(r) /\ ~Fail(r, "rejected")
    BY <2>2, SaleEffect
  <2>3. CASE CommitVoid(r) /\ ~Fail(r, "rejected")
    BY <2>3, VoidEffect
  <2>4. CASE CommitAdjustment(r)
    BY <2>4, AdjustmentEffect
  <2>5. CASE CreateProduct(r) /\ ~Fail(r, "rejected")
    BY <2>5, CreateEffect
  <2>. QED
    BY <2>1, <2>2, <2>3, <2>4, <2>5, BooksChange
<1>4. \A m \in movements' : catalog'[m.product] # NoRow
  <2>1. CASE movements' = movements \/ movements' = movements \cup moves[r]
    <3>1. ASSUME NEW m \in movements' PROVE m.product \in Products /\ catalog[m.product] # NoRow
      BY <1>1, <1>2, <2>1, MovesOfRows DEF MovementsOfProducts
    <3>. QED
      BY <3>1, CatalogChanges
  <2>2. CASE CreateProduct(r) /\ ~Fail(r, "rejected")
    <3>. DEFINE p == cmd[r].product
    <3>1. /\ cmd[r] \in CreateCommand /\ p \in Products
          /\ catalog' = [catalog EXCEPT ![p] = cmd[r].row]
          /\ movements' = movements \cup OpeningMovements(p, cmd[r].initial)
      BY <2>2, CreateEffect
    <3>2. catalog'[p] # NoRow
      BY <3>1, StoreAssumption DEF CreateCommand, IInv, TypeOK, DataTypeOK
    <3>3. \A m \in OpeningMovements(p, cmd[r].initial) : m.product = p
      BY DEF OpeningMovements, Movement
    <3>. HIDE DEF p
    <3>4. \A m \in movements : m.product \in Products /\ catalog[m.product] # NoRow
      BY <1>1, <1>2 DEF MovementsOfProducts
    <3>. QED
      BY <3>1, <3>2, <3>3, <3>4, CatalogChanges
  <2>. QED
    BY <2>1, <2>2, BooksChange, SaleEffect, VoidEffect, AdjustmentEffect
<1>. QED
  BY <1>3, <1>4 DEF StockIsSumOfMovements, MovementsOfProducts, Touching

LEMMA TrailStep ==
    ASSUME IInv, BooksInv, NEW r \in Requests, Step(r)
    PROVE  TrailMatchesDocuments'
<1>0. TrailMatchesDocuments
  BY DEF BooksInv
<1>1. CASE UNCHANGED <<stock, movements, sales, journal, audits>>
  BY <1>0, <1>1, SameTrail
<1>2. CASE CommitSale(r) /\ ~Fail(r, "rejected")
  BY <1>2, SaleTrail
<1>3. CASE CommitVoid(r) /\ ~Fail(r, "rejected")
  BY <1>3, VoidTrail
<1>4. CASE CommitAdjustment(r)
  <2>. DEFINE p == cmd[r].product
              delta == AdjustmentDelta(cmd[r], stock[p])
              cost == view[r][p].cost
  <2>1. /\ journal' = journal \cup AdjustmentEntries(r, delta, cost)
        /\ moves[r] = IF delta = 0 THEN {} ELSE {AdjustmentMovement(r, p, delta)}
        /\ movements' = movements \cup moves[r]
        /\ sales' = sales
    BY <1>4, AdjustmentEffect
  <2>. HIDE DEF p, delta, cost
  <2>2. \A m \in moves[r] : m.source = "MANUAL_ADJUSTMENT"
    BY <2>1 DEF AdjustmentMovement, Movement
  <2>3. \A e \in AdjustmentEntries(r, delta, cost) : e.source = "MANUAL_ADJUSTMENT"
    BY DEF AdjustmentEntries, Entry
  <2>. QED
    BY <1>0, <2>1, <2>2, <2>3, SameTrail
<1>5. CASE CreateProduct(r) /\ ~Fail(r, "rejected")
  <2>1. /\ movements' = movements \cup OpeningMovements(cmd[r].product, cmd[r].initial)
        /\ UNCHANGED <<sales, journal>>
    BY <1>5, CreateEffect
  <2>2. \A m \in OpeningMovements(cmd[r].product, cmd[r].initial) : m.source = "PRODUCT_CREATE"
    BY DEF OpeningMovements, Movement
  <2>. QED
    BY <1>0, <2>1, <2>2, SameTrail
<1>. QED
  BY <1>1, <1>2, <1>3, <1>4, <1>5, BooksChange

LEMMA AdjustedStep ==
    ASSUME IInv, BooksInv, NEW r \in Requests, Step(r)
    PROVE  AdjustedWhenDone'
<1>0. AdjustedWhenDone /\ TypeOK /\ TypeOK'
  BY TypeStep DEF BooksInv, IInv, Next, Step
<1>1. \A q \in Requests : pc[q] = "done" => pc'[q] = "done"
  BY DoneStays
<1>2. \A a \in audits : a.doc \in Requests
  BY <1>0 DEF TypeOK, DataTypeOK, AuditRecord
<1>3. CASE UNCHANGED <<stock, movements, sales, journal, audits>>
  BY <1>0, <1>1, <1>2, <1>3 DEF AdjustedWhenDone
<1>4. CASE CommitAdjustment(r)
  <2>. DEFINE p == cmd[r].product
              delta == AdjustmentDelta(cmd[r], stock[p])
  <2>1. /\ audits' = audits \cup {AuditRow(r, p, stock[p], delta)}
        /\ moves[r] = IF delta = 0 THEN {} ELSE {AdjustmentMovement(r, p, delta)}
        /\ movements' = movements \cup moves[r]
    BY <1>4, AdjustmentEffect
  <2>2. pc'[r] = "done"
    BY <1>0, <1>4 DEF CommitAdjustment, End, Goto, TypeOK, SessionTypeOK
  <2>. HIDE DEF p, delta
  <2>3. /\ \A m \in moves[r] : m.doc = r
        /\ AuditRow(r, p, stock[p], delta).doc = r
    BY <2>1 DEF AdjustmentMovement, Movement, AuditRow
  <2>. QED
    BY <1>0, <1>1, <1>2, <2>1, <2>2, <2>3 DEF AdjustedWhenDone
<1>5. CASE \/ CommitSale(r) /\ ~Fail(r, "rejected")
           \/ CommitVoid(r) /\ ~Fail(r, "rejected")
           \/ CreateProduct(r) /\ ~Fail(r, "rejected")
  <2>1. audits' = audits /\ \A m \in movements' : m \in movements \/ m.source # "MANUAL_ADJUSTMENT"
    <3>1. CASE CommitSale(r) /\ ~Fail(r, "rejected")
      <4>1. /\ audits' = audits /\ movements' = movements \cup moves[r]
            /\ moves[r] = {SaleMovement(r, PostedLines(r), i) : i \in DOMAIN PostedLines(r)}
        BY <3>1, SaleEffect
      <4>2. \A m \in moves[r] : m.source = "POS_SALE"
        BY <4>1 DEF SaleMovement, Movement
      <4>. QED
        BY <4>1, <4>2
    <3>2. CASE CommitVoid(r) /\ ~Fail(r, "rejected")
      <4>1. /\ audits' = audits /\ movements' = movements \cup moves[r]
            /\ moves[r] = {VoidMovement(cmd[r].sale, sales[cmd[r].sale].lines, i) : i \in DOMAIN sales[cmd[r].sale].lines}
        BY <3>2, VoidEffect
      <4>2. \A m \in moves[r] : m.source = "POS_VOID"
        BY <4>1 DEF VoidMovement, Movement
      <4>. QED
        BY <4>1, <4>2
    <3>3. CASE CreateProduct(r) /\ ~Fail(r, "rejected")
      BY <3>3, CreateEffect DEF OpeningMovements, Movement
    <3>. QED
      BY <1>5, <3>1, <3>2, <3>3
  <2>. QED
    BY <1>0, <1>1, <1>2, <2>1 DEF AdjustedWhenDone
<1>. QED
  BY <1>3, <1>4, <1>5, BooksChange

LEMMA CostsStep ==
    ASSUME IInv, BooksInv, NEW r \in Requests, Step(r)
    PROVE  CostsAreKnown'
<1>0. CostsAreKnown
  BY DEF BooksInv
<1>1. ASSUME NEW p \in Products, catalog'[p] # NoRow
      PROVE  catalog'[p].cost \in Promise!KnownCosts(p)
  <2>1. CASE catalog'[p] = catalog[p]
    BY <1>0, <1>1, <2>1 DEF CostsAreKnown
  <2>2. CASE CommitEdit(r) /\ catalog'[p] # catalog[p]
    <3>. DEFINE c == cmd[r]
    <3>1. /\ pc[r] = "commit" /\ catalog' = [catalog EXCEPT ![c.product] = Edited(c)]
          /\ c \in Commands /\ c.op \in {"update", "delete"}
      BY <2>2, RunningCommand DEF CommitEdit
    <3>2. c.product = p /\ catalog'[p] = Edited(c)
      BY <2>2, <3>1 DEF IInv, TypeOK, DataTypeOK
    <3>3. catalog[p] # NoRow /\ catalog[p] \in ProductRow
      <4>1. <<"product", p>> \in held[r]
        BY <3>1, <3>2 DEF IInv, SessionInv, EditHoldsProduct
      <4>. QED
        BY <4>1 DEF IInv, SessionInv, LockedRowsExist, TypeOK, DataTypeOK
    <3>4. CASE c.op = "update"
      BY <3>1, <3>2, <3>4 DEF Edited, Promise!KnownCosts
    <3>5. CASE c.op = "delete"
      <4>1. Edited(c).cost = catalog[p].cost
        BY <3>2, <3>3, <3>5 DEF Edited, ProductRow
      <4>. QED
        BY <1>0, <3>2, <3>3, <4>1 DEF CostsAreKnown
    <3>. QED
      BY <3>1, <3>4, <3>5
  <2>3. CASE CreateProduct(r) /\ ~Fail(r, "rejected") /\ catalog'[p] # catalog[p]
    <3>1. /\ cmd[r] \in Commands /\ cmd[r].op = "create"
          /\ catalog' = [catalog EXCEPT ![cmd[r].product] = cmd[r].row]
      BY <2>3, CreateEffect
    <3>2. cmd[r].product = p /\ catalog'[p] = cmd[r].row
      BY <2>3, <3>1 DEF IInv, TypeOK, DataTypeOK
    <3>. QED
      BY <3>1, <3>2 DEF Promise!KnownCosts
  <2>. QED
    BY <2>1, <2>2, <2>3, DataChanges DEF data, CommitSale, CommitVoid, CommitAdjustment
<1>2. ASSUME NEW q \in Requests, Doing(q, "adjust", {"count", "movement", "audit"})'
      PROVE  view'[q][cmd'[q].product].cost \in Promise!KnownCosts(cmd'[q].product)
  <2>1. CASE /\ Doing(q, "adjust", {"count", "movement", "audit"})
             /\ cmd'[q] = cmd[q] /\ view'[q] = view[q]
    BY <1>0, <2>1 DEF CostsAreKnown
  <2>2. CASE q # r
    BY <1>2, <2>1, <2>2, OthersUntouched DEF IInv, Doing
  <2>3. CASE q = r /\ ReadCost(r)
    <3>. DEFINE p == cmd[r].product
    <3>1. pc'[r] # "rejected"
      BY <1>2, <2>3 DEF Doing
    <3>2. ~Fail(r, "rejected")
      BY <3>1 DEF Fail, End, Goto, IInv, TypeOK, SessionTypeOK
    <3>3. p \in Products
      BY <2>3, RunningCommand DEF ReadCost, AdjustCommand
    <3>4. catalog[p] # NoRow /\ view'[r][p] = catalog[p] /\ cmd'[r] = cmd[r]
      BY <2>3, <3>2, <3>3 DEF ReadCost, IInv, TypeOK, SessionTypeOK
    <3>. QED
      BY <1>0, <2>3, <3>3, <3>4 DEF CostsAreKnown
  <2>4. CASE q = r /\ ~ReadCost(r)
    <3>1. /\ \A o \in Outcomes : ~End(r, o)
      BY <1>2, <2>4 DEF End, Goto, Doing, Outcomes, IInv, TypeOK, SessionTypeOK
    <3>2. /\ ~Fail(r, "replayed") /\ ~Fail(r, "notFound") /\ ~Fail(r, "rejected")
          /\ ~Fail(r, "aborted") /\ ~End(r, "done")
      BY <3>1 DEF Outcomes, Fail
    <3>3. CASE LockForCount(r) \/ InsertMovement(r)
      <4>1. /\ pc[r] \in {"count", "movement"}
            /\ cmd'[r] = cmd[r] /\ view'[r] = view[r]
        BY <3>2, <3>3 DEF LockForCount, InsertMovement
      <4>. QED
        BY <1>2, <2>1, <2>4, <4>1 DEF Doing
    <3>4. CASE Begin(r)
      <4>1. PICK c \in Commands : Goto(r, FirstStep(c))
        BY <3>4 DEF Begin
      <4>2. pc'[r] = FirstStep(c)
        BY <4>1 DEF Goto, IInv, TypeOK, SessionTypeOK
      <4>3. FirstStep(c) \notin {"count", "movement", "audit"}
        BY DEF FirstStep
      <4>. QED
        BY <1>2, <2>4, <4>2, <4>3 DEF Doing
    <3>8. CASE LookupKey(r) \/ QueryDone(r) \/ PriceOrder(r) \/ InsertSale(r)
      <4>1. pc'[r] \in {"locking", "pricing", "insert", "posting"}
        BY <3>2, <3>8 DEF LookupKey, QueryDone, PriceOrder, InsertSale, Goto, IInv, TypeOK, SessionTypeOK
      <4>. QED
        BY <1>2, <2>4, <4>1 DEF Doing
    <3>9. CASE LockSale(r) \/ LockForEdit(r) \/ UpdateInventoryRow(r)
      <4>1. pc'[r] \in {"posting", "reorder", "commit"}
        BY <3>2, <3>9 DEF LockSale, LockForEdit, UpdateInventoryRow, Goto, IInv, TypeOK, SessionTypeOK
      <4>. QED
        BY <1>2, <2>4, <4>1 DEF Doing
    <3>5. ASSUME NEW p \in Products, LockProductRow(r, p) \/ LockInventoryRow(r, p)
          PROVE  FALSE
      BY <1>2, <2>4, <3>5 DEF LockProductRow, LockInventoryRow, Doing
    <3>6. ASSUME NEW i \in toPost[r], LockForMovement(r, i)
          PROVE  FALSE
      <4>1. pc[r] = "posting" /\ cmd'[r] = cmd[r]
        BY <3>6 DEF LockForMovement
      <4>. QED
        BY <1>2, <2>4, <4>1, RunningCommand DEF Doing
    <3>7. ~(CommitSale(r) \/ CommitVoid(r) \/ CommitAdjustment(r) \/ CommitEdit(r)
              \/ CreateProduct(r) \/ Abort(r) \/ LoseDeadlock(r))
      BY <3>2 DEF CommitSale, CommitVoid, CommitAdjustment, CommitEdit, CreateProduct, Abort,
         LoseDeadlock, Fail
    <3>. QED
      BY <2>4, <3>3, <3>4, <3>5, <3>6, <3>7, <3>8, <3>9
         DEF Step, Proceed, Checkout, VoidTransaction, PostMovementTx, AdjustStock, Maintain
  <2>. QED
    BY <2>2, <2>3, <2>4
<1>. QED
  BY <1>1, <1>2 DEF CostsAreKnown

-----------------------------------------------------------------------------
(***************************************************************************)
(* The books are always right.                                             *)
(***************************************************************************)
LEMMA InitBooks == Init => BooksInv
<1>. SUFFICES ASSUME Init PROVE BooksInv
  OBVIOUS
<1>1. ASSUME NEW r \in Requests PROVE MovesOfLines(r) /\ BalanceOfMoves(r)
  BY DEF Init, MovesOfLines, BalanceOfMoves, Doing
<1>2. ASSUME NEW p \in Products
      PROVE  stock[p] = Net(movements, p) /\ IsFiniteSet(Touching(movements, p))
  <2>. DEFINE opening == OpeningMovements(p, InitialStock[p])
  <2>1. \A x \in Products : \A m \in OpeningMovements(x, InitialStock[x]) : m.product = x
    BY DEF OpeningMovements, Movement
  <2>2. Touching(movements, p) = Touching(opening, p)
    BY <2>1 DEF Init, InitialMovements, Touching
  <2>3. Net(movements, p) = Net(opening, p)
    <3>. HIDE DEF opening
    <3>. QED
      BY <2>2 DEF Net, Touching
  <2>4. InitialStock[p] \in Nat
    BY StoreAssumption
  <2>5. Net(opening, p) = InitialStock[p] /\ IsFiniteSet(Touching(opening, p))
    BY <2>4, OpeningNet
  <2>. QED
    BY <2>2, <2>3, <2>5 DEF Init
<1>3. \A m \in movements : catalog[m.product] # NoRow /\ m.source = "PRODUCT_CREATE"
  <2>1. SUFFICES ASSUME NEW p \in Products, NEW m \in OpeningMovements(p, InitialStock[p])
                 PROVE  catalog[m.product] # NoRow /\ m.source = "PRODUCT_CREATE"
    BY DEF Init, InitialMovements
  <2>2. InitialStock[p] > 0 /\ m.product = p /\ m.source = "PRODUCT_CREATE"
    BY DEF OpeningMovements, Movement
  <2>. QED
    BY <2>2, StoreAssumption DEF Init
<1>4. StockIsSumOfMovements /\ MovementsOfProducts
  BY <1>2, <1>3 DEF StockIsSumOfMovements, MovementsOfProducts, Touching
<1>5. AdjustedWhenDone
  BY <1>3 DEF AdjustedWhenDone, Init
<1>6. CostsAreKnown
  BY DEF CostsAreKnown, Init, Doing, Promise!KnownCosts
<1>7. TrailMatchesDocuments
  <2>1. SoldSet = {} /\ VoidSet = {} /\ journal = {}
    BY DEF Init, SoldSet, VoidSet
  <2>. QED
    BY <1>3, <2>1 DEF TrailMatchesDocuments
<1>. QED
  BY <1>1, <1>4, <1>5, <1>6, <1>7 DEF BooksInv

LEMMA BooksStep == IInv /\ BooksInv /\ [Next]_vars => BooksInv'
<1>. SUFFICES ASSUME IInv, BooksInv, [Next]_vars PROVE BooksInv'
  OBVIOUS
<1>1. CASE UNCHANGED vars
  <2>1. ASSUME NEW r \in Requests PROVE MovesOfLines(r)' /\ BalanceOfMoves(r)'
    <3>1. MovesOfLines(r) /\ BalanceOfMoves(r)
      BY DEF BooksInv
    <3>2. PostedLines(r)' = PostedLines(r) /\ MovementOf(r)' = MovementOf(r)
      BY <1>1 DEF vars, data, session, PostedLines, MovementOf
    <3>. QED
      BY <1>1, <3>1, <3>2 DEF vars, data, session, MovesOfLines, BalanceOfMoves, Doing
  <2>2. AdjustedWhenDone' /\ MovementsOfProducts' /\ StockIsSumOfMovements'
    BY <1>1 DEF vars, data, session, BooksInv, AdjustedWhenDone, MovementsOfProducts,
       StockIsSumOfMovements
  <2>3. CostsAreKnown'
    BY <1>1 DEF vars, data, session, BooksInv, CostsAreKnown, Doing
  <2>4. TrailMatchesDocuments'
    BY <1>1, SameTrail DEF vars, data, BooksInv
  <2>. QED
    BY <2>1, <2>2, <2>3, <2>4 DEF BooksInv
<1>2. ASSUME NEW r \in Requests, Step(r)
      PROVE  BooksInv'
  <2>1. ASSUME NEW q \in Requests PROVE MovesOfLines(q)' /\ BalanceOfMoves(q)'
    BY <1>2, OthersBooks, MoverBooks
  <2>2. /\ StockIsSumOfMovements' /\ MovementsOfProducts' /\ TrailMatchesDocuments'
        /\ AdjustedWhenDone' /\ CostsAreKnown'
    BY <1>2, StockStep, TrailStep, AdjustedStep, CostsStep
  <2>. QED
    BY <2>1, <2>2 DEF BooksInv
<1>. QED
  BY <1>1, <1>2 DEF Next, Step

\* What a session is about to publish is what its document says, and what is
\* published is right.
THEOREM BooksInductive == Spec => []BooksInv
  BY Inductive, InitBooks, BooksStep, PTL DEF Spec

\* The balance of every product is the sum of its movements: no interleaving
\* loses an update of it or applies one twice.
THEOREM StockReconciles == Spec => []StockIsSumOfMovements
<1>1. BooksInv => StockIsSumOfMovements
  BY DEF BooksInv
<1>. QED
  BY <1>1, BooksInductive, PTL

\* Movements and journal tell the story the sale documents tell, line by line.
THEOREM TrailIsTrue == Spec => []TrailMatchesDocuments
<1>1. BooksInv => TrailMatchesDocuments
  BY DEF BooksInv
<1>. QED
  BY <1>1, BooksInductive, PTL

-----------------------------------------------------------------------------
(***************************************************************************)
(* The abstract specification: every commit is one of its steps, and       *)
(* everything else a session does leaves its data alone.  The operators on *)
(* data mean in it what they mean here.                                    *)
(***************************************************************************)
LEMMA PromiseSum ==
    \A f : Promise!SumFunction(f) = SumFunction(f)
<1>. SUFFICES ASSUME NEW f PROVE Promise!SumFunction(f) = SumFunction(f)
  OBVIOUS
<1>. QED
  BY DEF Promise!SumFunction, Promise!SumFunctionOnSet, Promise!FoldFunctionOnSet,
         Promise!MapThenFoldSet, SumFunction, SumFunctionOnSet, FoldFunctionOnSet,
         MapThenFoldSet

LEMMA PromiseLines ==
    /\ \A items, rows : Promise!PricedLines(items, rows) = PricedLines(items, rows)
    /\ \A items : Promise!SoldProducts(items) = SoldProducts(items)
    /\ \A items, p : Promise!Requested(items, p) = Requested(items, p)
    /\ \A lines : Promise!TotalCOGS(lines) = TotalCOGS(lines)
    /\ \A c, lines : Promise!AmountsAccepted(c, lines) <=> AmountsAccepted(c, lines)
    /\ \A c, lines : Promise!SaleRow(c, lines) = SaleRow(c, lines)
<1>1. \A items, rows : Promise!PricedLines(items, rows) = PricedLines(items, rows)
  BY DEF Promise!PricedLines, PricedLines
<1>2. \A items : Promise!SoldProducts(items) = SoldProducts(items)
  BY DEF Promise!SoldProducts, SoldProducts
<1>3. \A items, p : Promise!Requested(items, p) = Requested(items, p)
  BY PromiseSum DEF Promise!Requested, Requested, Promise!LinesOf, LinesOf
<1>4. \A lines : Promise!TotalCOGS(lines) = TotalCOGS(lines) /\ Promise!Subtotal(lines) = Subtotal(lines)
  BY PromiseSum DEF Promise!TotalCOGS, TotalCOGS, Promise!Subtotal, Subtotal
<1>5. \A lines, d : Promise!Total(lines, d) = Total(lines, d)
  BY <1>4 DEF Promise!Total, Total
<1>6. \A c, lines : Promise!AmountsAccepted(c, lines) <=> AmountsAccepted(c, lines)
  BY <1>4, <1>5 DEF Promise!AmountsAccepted, AmountsAccepted, Promise!Representable, Representable,
     Promise!SettlementAccepted, SettlementAccepted
<1>7. \A c, lines : Promise!SaleRow(c, lines) = SaleRow(c, lines)
  BY <1>5 DEF Promise!SaleRow, SaleRow
<1>. QED
  BY <1>1, <1>2, <1>3, <1>4, <1>6, <1>7

LEMMA PromiseEntries ==
    /\ \A lines : Promise!ValidateBalance(lines) <=> ValidateBalance(lines)
    /\ \A t, sale : Promise!SaleEntry(t, sale) = SaleEntry(t, sale)
    /\ \A t, sale : Promise!VoidEntry(t, sale) = VoidEntry(t, sale)
    /\ \A r, delta, cost : Promise!AdjustmentEntries(r, delta, cost) = AdjustmentEntries(r, delta, cost)
<1>. USE DEF Promise!Entry, Entry, Promise!Debit, Debit, Promise!Credit, Credit,
             Promise!Cash, Cash, Promise!Bank, Bank, Promise!Inventory, Inventory,
             Promise!Revenue, Revenue, Promise!COGS, COGS, Promise!Shrinkage, Shrinkage
<1>1. \A lines : Promise!TotalDebit(lines) = TotalDebit(lines) /\ Promise!TotalCredit(lines) = TotalCredit(lines)
  BY PromiseSum DEF Promise!TotalDebit, TotalDebit, Promise!TotalCredit, TotalCredit
<1>2. \A lines : Promise!ValidateBalance(lines) <=> ValidateBalance(lines)
  BY <1>1 DEF Promise!ValidateBalance, ValidateBalance, Promise!OneSided, OneSided
<1>3. \A payment : Promise!AssetAccount(payment) = AssetAccount(payment)
  BY DEF Promise!AssetAccount, AssetAccount
<1>4. \A t, sale : Promise!SaleEntry(t, sale) = SaleEntry(t, sale)
  BY <1>3, PromiseLines DEF Promise!SaleEntry, SaleEntry, Promise!SaleLines, SaleLines
<1>5. \A t, sale : Promise!VoidEntry(t, sale) = VoidEntry(t, sale)
  BY <1>3, PromiseLines DEF Promise!VoidEntry, VoidEntry, Promise!VoidLines, VoidLines
<1>6. \A r, delta, cost : Promise!AdjustmentEntries(r, delta, cost) = AdjustmentEntries(r, delta, cost)
  BY DEF Promise!AdjustmentEntries, AdjustmentEntries, Promise!AdjustmentLines, AdjustmentLines
<1>. QED
  BY <1>2, <1>4, <1>5, <1>6

LEMMA PromiseMovements ==
    /\ \A doc, lines, i : Promise!SaleMovement(doc, lines, i) = SaleMovement(doc, lines, i)
    /\ \A doc, lines, i : Promise!VoidMovement(doc, lines, i) = VoidMovement(doc, lines, i)
    /\ \A doc, p, delta : Promise!AdjustmentMovement(doc, p, delta) = AdjustmentMovement(doc, p, delta)
    /\ \A p, quantity : Promise!OpeningMovements(p, quantity) = OpeningMovements(p, quantity)
    /\ Promise!InitialMovements = InitialMovements
    /\ \A r, p, x, delta : Promise!AuditRow(r, p, x, delta) = AuditRow(r, p, x, delta)
    /\ \A key : Promise!Sold(key) <=> Sold(key)
<1>. USE DEF Promise!Movement, Movement
<1>1. \A p, quantity : Promise!OpeningMovements(p, quantity) = OpeningMovements(p, quantity)
  BY DEF Promise!OpeningMovements, OpeningMovements
<1>2. Promise!InitialMovements = InitialMovements
  BY <1>1 DEF Promise!InitialMovements, InitialMovements
<1>3. /\ \A doc, lines, i : Promise!SaleMovement(doc, lines, i) = SaleMovement(doc, lines, i)
      /\ \A doc, lines, i : Promise!VoidMovement(doc, lines, i) = VoidMovement(doc, lines, i)
      /\ \A doc, p, delta : Promise!AdjustmentMovement(doc, p, delta) = AdjustmentMovement(doc, p, delta)
  BY DEF Promise!SaleMovement, SaleMovement, Promise!VoidMovement, VoidMovement,
     Promise!AdjustmentMovement, AdjustmentMovement
<1>4. \A r, p, x, delta : Promise!AuditRow(r, p, x, delta) = AuditRow(r, p, x, delta)
  BY DEF Promise!AuditRow, AuditRow
<1>5. \A key : Promise!Sold(key) <=> Sold(key)
  BY DEF Promise!Sold, Sold
<1>. QED
  BY <1>1, <1>2, <1>3, <1>4, <1>5

LEMMA PromiseAdjustment ==
    ASSUME NEW c \in AdjustCommand, NEW onHand
    PROVE  /\ Promise!AdjustmentDelta(c, onHand) = AdjustmentDelta(c, onHand)
           /\ Promise!AdjustmentAccepted(c, onHand) <=> AdjustmentAccepted(c, onHand)
<1>1. c.kind \in {"ADD", "SUBTRACT", "SET"}
  BY DEF AdjustCommand
<1>2. CASE c.kind = "ADD"
  BY <1>2 DEF Promise!AdjustmentDelta, AdjustmentDelta, Promise!AdjustmentAccepted, AdjustmentAccepted
<1>3. CASE c.kind = "SUBTRACT"
  BY <1>3 DEF Promise!AdjustmentDelta, AdjustmentDelta, Promise!AdjustmentAccepted, AdjustmentAccepted
<1>4. CASE c.kind = "SET"
  BY <1>4 DEF Promise!AdjustmentDelta, AdjustmentDelta, Promise!AdjustmentAccepted, AdjustmentAccepted
<1>. QED
  BY <1>1, <1>2, <1>3, <1>4

\* The checkout read its prices under the locks it still holds, so they are today's.
LEMMA PricedToday ==
    ASSUME IInv, NEW r \in Requests, pc[r] = "posting", cmd[r] \in CheckoutCommand
    PROVE  /\ PricedLines(cmd[r].items, view[r]) = PricedLines(cmd[r].items, catalog)
           /\ \A p \in SoldProducts(cmd[r].items) : catalog[p] # NoRow /\ catalog[p].active
           /\ SoldProducts(cmd[r].items) \subseteq Products
           /\ AmountsAccepted(cmd[r], PricedLines(cmd[r].items, view[r]))
           /\ ~Sold(cmd[r].key)
<1>1. cmd[r].op = "checkout"
  BY DEF CheckoutCommand
<1>2. SoldProducts(cmd[r].items) \subseteq Products
  BY ItemsType
<1>3. /\ \A p \in SoldProducts(cmd[r].items) : OnSale(r, p)
      /\ AmountsAccepted(cmd[r], PricedLines(cmd[r].items, view[r]))
      /\ ~Sold(cmd[r].key)
  BY <1>1 DEF IInv, SessionInv, CheckedOrder, Doing
<1>4. \A p \in Products : view[r][p] # NoRow => view[r][p] = catalog[p]
  BY <1>1 DEF IInv, SessionInv, LockedViewIsCurrent, Doing, Steps
<1>5. \A p \in SoldProducts(cmd[r].items) :
         view[r][p] = catalog[p] /\ catalog[p] # NoRow /\ catalog[p].active
  BY <1>2, <1>3, <1>4 DEF OnSale
<1>6. PricedLines(cmd[r].items, view[r]) = PricedLines(cmd[r].items, catalog)
  BY <1>5 DEF PricedLines, SoldProducts
<1>. QED
  BY <1>2, <1>3, <1>5, <1>6

LEMMA SellKept ==
    ASSUME IInv, BooksInv, NEW r \in Requests, Step(r), CommitSale(r), ~Fail(r, "rejected")
    PROVE  Promise!Next
<1>. DEFINE c == cmd[r]
            lines == PricedLines(c.items, catalog)
            sale == SaleRow(c, lines)
<1>1. /\ pc[r] = "posting" /\ c \in CheckoutCommand /\ c \in Commands /\ c.op = "checkout"
  BY SaleEffect, RunningCommand
<1>2. /\ PostedLines(r) = lines
      /\ \A p \in SoldProducts(c.items) : catalog[p] # NoRow /\ catalog[p].active
      /\ SoldProducts(c.items) \subseteq Products
      /\ AmountsAccepted(c, lines)
      /\ ~Sold(c.key)
  BY <1>1, SaleEffect, PricedToday
<1>3. /\ ValidateBalance(SaleEntry(r, sale).lines)
      /\ sales[r] = NoRow
      /\ sales' = [sales EXCEPT ![r] = sale]
      /\ journal' = journal \cup {SaleEntry(r, sale)}
      /\ UNCHANGED <<catalog, audits>>
  BY <1>2, SaleEffect
<1>4. movements' = movements \cup {SaleMovement(r, lines, i) : i \in DOMAIN lines}
  BY <1>2, SaleEffect
<1>5. \A p \in Products : /\ stock'[p] = stock[p] - Requested(c.items, p)
                          /\ Requested(c.items, p) <= stock[p]
  BY <1>2, SaleEffect, RequestedOfPriced
<1>6. stock' = [p \in Products |-> stock[p] - Requested(c.items, p)]
  <2>1. TypeOK'
    BY TypeStep DEF Next, Step
  <2>2. stock' \in [Products -> Nat]
    BY <2>1 DEF TypeOK, DataTypeOK
  <2>. QED
    BY <1>5, <2>2
<1>7. Promise!Sell(r, c)
  <2>. HIDE DEF c, lines, sale
  <2>1. Promise!PricedLines(c.items, catalog) = lines
    BY PromiseLines DEF lines
  <2>2. Promise!SaleRow(c, lines) = sale
    BY PromiseLines DEF sale
  <2>3. {Promise!SaleMovement(r, lines, i) : i \in DOMAIN lines}
           = {SaleMovement(r, lines, i) : i \in DOMAIN lines}
    BY PromiseMovements
  <2>4. /\ \A p \in Promise!SoldProducts(c.items) :
              /\ catalog[p] # NoRow
              /\ catalog[p].active
              /\ Promise!Requested(c.items, p) <= stock[p]
        /\ Promise!AmountsAccepted(c, lines)
        /\ Promise!ValidateBalance(Promise!SaleEntry(r, sale).lines)
        /\ ~Promise!Sold(c.key)
    BY <1>2, <1>3, <1>5, PromiseLines, PromiseEntries, PromiseMovements
  <2>5. stock' = [p \in Products |-> stock[p] - Promise!Requested(c.items, p)]
    BY <1>6, PromiseLines
  <2>6. journal' = journal \cup {Promise!SaleEntry(r, sale)}
    BY <1>3, PromiseEntries
  <2>. QED
    BY <1>1, <1>3, <1>4, <2>1, <2>2, <2>3, <2>4, <2>5, <2>6 DEF Promise!Sell
<1>. QED
  BY <1>1, <1>7 DEF Promise!Next

LEMMA VoidKept ==
    ASSUME IInv, BooksInv, NEW r \in Requests, Step(r), CommitVoid(r), ~Fail(r, "rejected")
    PROVE  Promise!Next
<1>. DEFINE t == cmd[r].sale
            lines == sales[t].lines
<1>1. /\ t \in Requests /\ sales[t].status = "COMPLETED" /\ sales[t] # NoRow
      /\ sales' = [sales EXCEPT ![t].status = "VOIDED"]
      /\ journal' = journal \cup {VoidEntry(t, sales[t])}
      /\ UNCHANGED <<catalog, audits>>
      /\ movements' = movements \cup {VoidMovement(t, lines, i) : i \in DOMAIN lines}
      /\ \A p \in Products : stock'[p] = stock[p] + Requested(lines, p)
  BY VoidEffect
<1>. HIDE DEF t
<1>2. stock' = [p \in Products |-> stock[p] + Requested(lines, p)]
  <2>1. TypeOK'
    BY TypeStep DEF Next, Step
  <2>2. stock' \in [Products -> Nat]
    BY <2>1 DEF TypeOK, DataTypeOK
  <2>. QED
    BY <1>1, <2>2
<1>3. stock' = [p \in Products |-> stock[p] + Promise!Requested(sales[t].lines, p)]
  BY <1>2, PromiseLines
<1>4. journal' = journal \cup {Promise!VoidEntry(t, sales[t])}
  BY <1>1, PromiseEntries
<1>5. movements' = movements \cup
           {Promise!VoidMovement(t, sales[t].lines, i) : i \in DOMAIN sales[t].lines}
  BY <1>1, PromiseMovements
<1>6. Promise!VoidSale(t)
  BY <1>1, <1>3, <1>4, <1>5 DEF Promise!VoidSale
<1>. QED
  BY <1>1, <1>6 DEF Promise!Next

LEMMA AdjustKept ==
    ASSUME IInv, BooksInv, NEW r \in Requests, Step(r), CommitAdjustment(r)
    PROVE  Promise!Next
<1>. DEFINE c == cmd[r]
            p == c.product
            delta == AdjustmentDelta(c, stock[p])
            cost == view[r][p].cost
<1>1. /\ pc[r] = "audit" /\ c.op = "adjust" /\ c \in AdjustCommand /\ c \in Commands
      /\ catalog[p] # NoRow
      /\ AdjustmentAccepted(c, stock[p])
      /\ journal' = journal \cup AdjustmentEntries(r, delta, cost)
      /\ cost \in Promise!KnownCosts(p)
      /\ audits' = audits \cup {AuditRow(r, p, stock[p], delta)}
      /\ UNCHANGED <<catalog, sales>>
      /\ movements' = movements \cup
            (IF delta = 0 THEN {} ELSE {AdjustmentMovement(r, p, delta)})
      /\ stock' = [stock EXCEPT ![p] = @ + delta]
  BY AdjustmentEffect
<1>2. \A a \in audits : a.doc # r
  BY <1>1 DEF BooksInv, AdjustedWhenDone
<1>3. /\ Promise!AdjustmentDelta(c, stock[p]) = delta
      /\ Promise!AdjustmentAccepted(c, stock[p])
  BY <1>1, PromiseAdjustment
<1>. HIDE DEF c, cost, delta
<1>4. journal' = journal \cup Promise!AdjustmentEntries(r, delta, cost)
  BY <1>1, PromiseEntries
<1>5. /\ movements' = movements \cup
            (IF delta = 0 THEN {} ELSE {Promise!AdjustmentMovement(r, p, delta)})
      /\ audits' = audits \cup {Promise!AuditRow(r, p, stock[p], delta)}
  BY <1>1, PromiseMovements
<1>6. Promise!Adjust(r, c)
  BY <1>1, <1>2, <1>3, <1>4, <1>5 DEF Promise!Adjust
<1>. QED
  BY <1>1, <1>6 DEF Promise!Next

LEMMA EditKept ==
    ASSUME IInv, NEW r \in Requests, CommitEdit(r)
    PROVE  Promise!Next
<1>. DEFINE c == cmd[r]
            p == c.product
<1>1. /\ pc[r] = "commit"
      /\ catalog' = [catalog EXCEPT ![p] = Edited(c)]
      /\ UNCHANGED <<stock, movements, sales, journal, audits>>
  BY DEF CommitEdit
<1>2. c \in Commands /\ c.op \in {"update", "delete"} /\ p \in Products
  BY <1>1, RunningCommand DEF UpdateCommand, DeleteCommand
<1>3. catalog[p] # NoRow
  BY <1>1, <1>2 DEF IInv, SessionInv, EditHoldsProduct, LockedRowsExist
<1>. HIDE DEF c
<1>4. Promise!Edit(c)
  <2>1. CASE c.op = "update"
    BY <1>1, <1>2, <1>3, <2>1 DEF Edited, Promise!Edit
  <2>2. CASE c.op = "delete"
    <3>1. Edited(c) = [catalog[p] EXCEPT !.active = FALSE]
      BY <2>2 DEF Edited
    <3>2. catalog' = [catalog EXCEPT ![p].active = FALSE]
      BY <1>1, <3>1
    <3>. QED
      BY <1>1, <1>2, <1>3, <2>2, <3>2 DEF Promise!Edit
  <2>. QED
    BY <1>2, <2>1, <2>2
<1>. QED
  BY <1>2, <1>4 DEF Promise!Next

LEMMA CreateKept ==
    ASSUME IInv, BooksInv, NEW r \in Requests, Step(r), CreateProduct(r), ~Fail(r, "rejected")
    PROVE  Promise!Next
<1>. DEFINE c == cmd[r]
<1>1. /\ c \in Commands /\ c.op = "create"
      /\ catalog[c.product] = NoRow
      /\ catalog' = [catalog EXCEPT ![c.product] = c.row]
      /\ stock' = [stock EXCEPT ![c.product] = c.initial]
      /\ movements' = movements \cup OpeningMovements(c.product, c.initial)
      /\ UNCHANGED <<sales, journal, audits>>
  BY CreateEffect
<1>. HIDE DEF c
<1>2. Promise!Create(c)
  BY <1>1, PromiseMovements DEF Promise!Create
<1>. QED
  BY <1>1, <1>2 DEF Promise!Next

LEMMA PromiseStep == IInv /\ BooksInv /\ [Next]_vars => [Promise!Next]_(Promise!data)
<1>. SUFFICES ASSUME IInv, BooksInv, [Next]_vars PROVE UNCHANGED data \/ Promise!Next
  BY DEF Promise!data, data
<1>1. ASSUME NEW r \in Requests, Step(r) PROVE UNCHANGED data \/ Promise!Next
  BY <1>1, DataChanges, SellKept, VoidKept, AdjustKept, EditKept, CreateKept
<1>2. CASE UNCHANGED vars
  BY <1>2 DEF vars
<1>. QED
  BY <1>1, <1>2 DEF Next, Step

\* However the sessions interleave and whichever of them fail, what they commit is
\* what one command after the other could have written, each at once and on the
\* rows as they are at its commit (CreateTransaction, VoidTransaction, AdjustStock
\* and the catalog handlers with their FOR UPDATE).
THEOREM EffectAtOnce == Spec => KeepsPromise
<1>1. Init => Promise!Init
  BY PromiseMovements DEF Init, Promise!Init
<1>. QED
  BY <1>1, Inductive, BooksInductive, PromiseStep, PTL DEF Spec, KeepsPromise, Promise!Spec
=============================================================================
