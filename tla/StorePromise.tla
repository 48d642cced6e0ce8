---------------------------- MODULE StorePromise ----------------------------
(***************************************************************************)
(* What the store promises of its committed data: every command that takes *)
(* effect takes effect at once, on the rows as they are at that moment.    *)
(* There are no sessions, locks or transactions here; module Store has     *)
(* them, and implements this.                                              *)
(***************************************************************************)
EXTENDS StoreData

VARIABLES
    catalog,    \* product -> its row
    stock,      \* product -> on-hand quantity
    movements,  \* the append-only stock movements
    sales,      \* request -> the sale it committed
    journal,    \* ledger entries
    audits      \* inventory_adjustments rows

data == <<catalog, stock, movements, sales, journal, audits>>

Init ==
    /\ catalog = InitialCatalog
    /\ stock = InitialStock
    /\ movements = InitialMovements
    /\ sales = [r \in Requests |-> NoRow]
    /\ journal = {}
    /\ audits = {}

Sold(key) == \E r \in Requests : sales[r] # NoRow /\ sales[r].key = key

\* A sale: the key is new, every product is on sale and in stock for all the
\* lines that name it, at today's price and cost.
Sell(r, cmd) ==
    LET lines == PricedLines(cmd.items, catalog)
        sale  == SaleRow(cmd, lines)
    IN  /\ cmd.op = "checkout"
        /\ sales[r] = NoRow
        /\ ~Sold(cmd.key)
        /\ \A p \in SoldProducts(cmd.items) :
              /\ catalog[p] # NoRow
              /\ catalog[p].active
              /\ Requested(cmd.items, p) <= stock[p]
        /\ AmountsAccepted(cmd, lines)
        /\ ValidateBalance(SaleEntry(r, sale).lines)
        /\ sales' = [sales EXCEPT ![r] = sale]
        /\ stock' = [p \in Products |-> stock[p] - Requested(cmd.items, p)]
        /\ movements' = movements \cup {SaleMovement(r, lines, i) : i \in DOMAIN lines}
        /\ journal' = journal \cup {SaleEntry(r, sale)}
        /\ UNCHANGED <<catalog, audits>>

\* A void returns every line of a completed sale, once, and reverses its entry.
VoidSale(t) ==
    /\ sales[t] # NoRow
    /\ sales[t].status = "COMPLETED"
    /\ sales' = [sales EXCEPT ![t].status = "VOIDED"]
    /\ stock' = [p \in Products |-> stock[p] + Requested(sales[t].lines, p)]
    /\ movements' = movements \cup
           {VoidMovement(t, sales[t].lines, i) : i \in DOMAIN sales[t].lines}
    /\ journal' = journal \cup {VoidEntry(t, sales[t])}
    /\ UNCHANGED <<catalog, audits>>

\* The costs a product has had or may get.
KnownCosts(p) ==
    {row.cost : row \in {InitialCatalog[p]} \ {NoRow}}
    \cup {cmd.row.cost : cmd \in {c \in Commands : /\ c.op \in {"create", "update"}
                                                   /\ c.product = p}}

\* An adjustment acts on the balance of the moment.  It is valued at a cost the
\* product has had, not necessarily the one it has now.
Adjust(r, cmd) ==
    LET p     == cmd.product
        delta == AdjustmentDelta(cmd, stock[p])
    IN  /\ cmd.op = "adjust"
        /\ catalog[p] # NoRow
        /\ \A a \in audits : a.doc # r
        /\ AdjustmentAccepted(cmd, stock[p])
        /\ stock' = [stock EXCEPT ![p] = @ + delta]
        /\ movements' = movements \cup
               (IF delta = 0 THEN {} ELSE {AdjustmentMovement(r, p, delta)})
        /\ audits' = audits \cup {AuditRow(r, p, stock[p], delta)}
        /\ \E cost \in KnownCosts(p) :
              journal' = journal \cup AdjustmentEntries(r, delta, cost)
        /\ UNCHANGED <<catalog, sales>>

\* An update or a soft delete of a product leaves the books alone.
Edit(cmd) ==
    /\ cmd.op \in {"update", "delete"}
    /\ catalog[cmd.product] # NoRow
    /\ catalog' = IF cmd.op = "update"
                  THEN [catalog EXCEPT ![cmd.product] = cmd.row]
                  ELSE [catalog EXCEPT ![cmd.product].active = FALSE]
    /\ UNCHANGED <<stock, movements, sales, journal, audits>>

\* A new product starts with its opening stock.
Create(cmd) ==
    /\ cmd.op = "create"
    /\ catalog[cmd.product] = NoRow
    /\ catalog' = [catalog EXCEPT ![cmd.product] = cmd.row]
    /\ stock' = [stock EXCEPT ![cmd.product] = cmd.initial]
    /\ movements' = movements \cup OpeningMovements(cmd.product, cmd.initial)
    /\ UNCHANGED <<sales, journal, audits>>

Next ==
    \/ \E cmd \in Commands :
          \/ \E r \in Requests : Sell(r, cmd) \/ Adjust(r, cmd)
          \/ Edit(cmd)
          \/ Create(cmd)
    \/ \E t \in Requests : VoidSale(t)

Spec == Init /\ [][Next]_data
=============================================================================
