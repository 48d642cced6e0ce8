------------------------------ MODULE StoreData ------------------------------
(***************************************************************************)
(* The data of one tenant's store: catalog rows, sale documents, stock     *)
(* movements, and the commands the POS handlers accept.  The arithmetic a  *)
(* checkout does on them (aggregation, pricing, settlement) is here too,   *)
(* so that the abstract and the detailed specification share it.           *)
(*                                                                         *)
(* A request is one HTTP call; every document a request creates (a sale,   *)
(* an adjustment, a product's opening stock) gets a fresh UUID in the      *)
(* code, so the request itself names its document.  A product and its SKU  *)
(* are one: the SKU is unique and never updated.                           *)
(***************************************************************************)
EXTENDS Ledger

CONSTANTS
    Requests,              \* HTTP requests, each handled once
    Products,              \* product ids
    Keys,                  \* Idempotency-Key header values
    Commands,              \* the commands a request may carry
    InitialCatalog,        \* the product rows the store opens with
    InitialStock,          \* and their on-hand quantities
    MaxTransactionAmount,  \* money.MaxTransactionAmount
    MaxTenderAmount,       \* money.MaxTenderAmount
    MaxMoney,              \* the largest amount money.Money holds (MaxInt64)
    NoRow,                 \* a product or sale that has no row
    NoTender               \* cash_tendered left out

Payments == {"CASH", "SIMULATED_CARD", "QRIS"}

ProductRow == [active: BOOLEAN, price: Nat, cost: Nat]

CheckoutCommand == [op: {"checkout"}, key: Keys,
                    items: Seq([product: Products, quantity: Nat \ {0}]),
                    payment: Payments, discount: Nat, tendered: Nat \cup {NoTender}]
VoidCommand     == [op: {"void"}, sale: Requests]
AdjustCommand   == [op: {"adjust"}, product: Products, kind: {"ADD", "SUBTRACT", "SET"},
                    quantity: Nat, expected: Nat]
UpdateCommand   == [op: {"update"}, product: Products, row: ProductRow, reorder: BOOLEAN]
DeleteCommand   == [op: {"delete"}, product: Products]
CreateCommand   == [op: {"create"}, product: Products, row: ProductRow, initial: Nat]

Command == CheckoutCommand \cup VoidCommand \cup AdjustCommand
             \cup UpdateCommand \cup DeleteCommand \cup CreateCommand

\* money.ValidateIDR on the two amounts of a product.
RowAccepted(row) == row.price <= MaxTransactionAmount /\ row.cost <= MaxTransactionAmount

(***************************************************************************)
(* Sale lines: the item, with the price and the cost it was sold at.       *)
(***************************************************************************)
SaleLine == [product: Products, quantity: Nat \ {0}, price: Nat, cost: Nat]

SaleRecord == [key: Keys, lines: Seq(SaleLine), total: Nat, payment: Payments,
               status: {"COMPLETED", "VOIDED"}]

ASSUME StoreAssumption ==
    /\ Commands \subseteq Command
    /\ InitialCatalog \in [Products -> ProductRow \cup {NoRow}]
    /\ InitialStock \in [Products -> Nat]
    /\ \A p \in Products : InitialCatalog[p] = NoRow => InitialStock[p] = 0
    /\ NoRow \notin ProductRow \cup SaleRecord
    /\ NoTender \notin Nat
    /\ MaxTransactionAmount \in Nat
    /\ MaxTenderAmount \in Nat
    /\ MaxMoney \in Nat

\* rows[p] is the catalog row the checkout read for p.
PricedLines(items, rows) ==
    [i \in DOMAIN items |->
        [product  |-> items[i].product,
         quantity |-> items[i].quantity,
         price    |-> rows[items[i].product].price,
         cost     |-> rows[items[i].product].cost]]

SoldProducts(items) == {items[i].product : i \in DOMAIN items}

LinesOf(items, p) == {i \in DOMAIN items : items[i].product = p}

\* skuMap: what all lines of a product ask for together.
Requested(items, p) == SumFunction([i \in LinesOf(items, p) |-> items[i].quantity])

Subtotal(lines)  == SumFunction([i \in DOMAIN lines |-> lines[i].price * lines[i].quantity])
TotalCOGS(lines) == SumFunction([i \in DOMAIN lines |-> lines[i].cost * lines[i].quantity])

\* A discount larger than the subtotal is cut down to it.
Total(lines, discount) ==
    IF discount > Subtotal(lines) THEN 0 ELSE Subtotal(lines) - discount

\* validatePaymentSettlement
SettlementAccepted(payment, tendered, total) ==
    IF payment = "CASH"
    THEN /\ tendered # NoTender
         /\ tendered <= MaxTenderAmount
         /\ tendered >= total
    ELSE tendered = NoTender

\* Money.Mul and Money.Add fail on a result they cannot represent; amounts
\* are not negative here, so the last sum tells.
Representable(amount) == amount \in 0..MaxMoney

\* The monetary checks of a checkout, in one condition.
AmountsAccepted(cmd, lines) ==
    /\ Representable(Subtotal(lines))
    /\ Representable(TotalCOGS(lines))
    /\ cmd.discount <= MaxTransactionAmount
    /\ Total(lines, cmd.discount) <= MaxTransactionAmount
    /\ SettlementAccepted(cmd.payment, cmd.tendered, Total(lines, cmd.discount))

SaleRow(cmd, lines) ==
    [key     |-> cmd.key,
     lines   |-> lines,
     total   |-> Total(lines, cmd.discount),
     payment |-> cmd.payment,
     status  |-> "COMPLETED"]

(***************************************************************************)
(* Stock movements.                                                        *)
(***************************************************************************)
Movement(p, delta, kind, source, doc, line) ==
    [product |-> p, delta |-> delta, kind |-> kind,
     source |-> source, doc |-> doc, line |-> line]

\* validateMovementParams
ValidateMovement(m) ==
    \/ m.kind = "OPENING" /\ m.delta >= 0
    \/ m.kind = "IN" /\ m.delta > 0
    \/ m.kind = "OUT" /\ m.delta < 0
    \/ m.kind = "ADJUSTMENT" /\ m.delta # 0

\* uq_stock_movement_source: one movement per source document line.
SameSource(m, n) == m.source = n.source /\ m.doc = n.doc /\ m.line = n.line

SaleMovement(doc, lines, i) ==
    Movement(lines[i].product, -lines[i].quantity, "OUT", "POS_SALE", doc, i)
VoidMovement(doc, lines, i) ==
    Movement(lines[i].product, lines[i].quantity, "IN", "POS_VOID", doc, i)
AdjustmentMovement(doc, p, delta) ==
    Movement(p, delta, "ADJUSTMENT", "MANUAL_ADJUSTMENT", doc, 0)
OpeningMovements(p, quantity) ==
    IF quantity > 0 THEN {Movement(p, quantity, "OPENING", "PRODUCT_CREATE", p, 0)} ELSE {}

InitialMovements == UNION {OpeningMovements(p, InitialStock[p]) : p \in Products}

\* PostAdjustmentMovement: the delta an adjustment asks for on a balance.
AdjustmentDelta(cmd, onHand) ==
    CASE cmd.kind = "ADD"      -> cmd.quantity
      [] cmd.kind = "SUBTRACT" -> -cmd.quantity
      [] cmd.kind = "SET"      -> cmd.quantity - onHand

\* A SET is a count: it must name the balance it was counted against (one that
\* names none is rejected like one that names another).
AdjustmentAccepted(cmd, onHand) ==
    /\ cmd.kind = "SET" => cmd.expected = onHand
    /\ onHand + AdjustmentDelta(cmd, onHand) >= 0

(***************************************************************************)
(* Journal entries and adjustment audit rows.                              *)
(***************************************************************************)
Entry(source, doc, lines) == [source |-> source, doc |-> doc, lines |-> lines]

SaleEntry(doc, sale) ==
    Entry("POS_SALE", doc, SaleLines(sale.payment, sale.total, TotalCOGS(sale.lines)))
VoidEntry(doc, sale) ==
    Entry("POS_VOID", doc, VoidLines(sale.payment, sale.total, TotalCOGS(sale.lines)))

\* No entry when nothing moved or the product has no cost.
AdjustmentEntries(doc, delta, unitCost) ==
    IF delta # 0 /\ unitCost > 0
    THEN {Entry("MANUAL_ADJUSTMENT", doc, AdjustmentLines(delta, unitCost))}
    ELSE {}

AuditRow(doc, p, previous, delta) ==
    [doc |-> doc, product |-> p, previous |-> previous, delta |-> delta,
     new |-> previous + delta]
=============================================================================
