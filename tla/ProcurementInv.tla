--------------------------- MODULE ProcurementInv ---------------------------
(***************************************************************************)
(* The inductive invariant of Procurement: what a session knows, and       *)
(* holds, at each of its statements, and what the committed documents say  *)
(* of one another.  Procurement_proofs proves it, TLC checks it.           *)
(***************************************************************************)
EXTENDS Procurement

Doing(r, op, steps) == pc[r] \in steps /\ cmd[r].op = op

Comply     == {"policy", "supplier", "certificate"}
PastPolicy == {"supplier", "certificate", "products", "reconcile", "insert", "item", "balance"}
Judged     == {"products", "reconcile", "insert", "item", "balance"}
Posting    == {"item", "balance"}

(***************************************************************************)
(* What holds of each session.                                             *)
(***************************************************************************)
\* Every statement belongs to the command that runs it.
StepFitsCommand(r) ==
    /\ pc[r] \in Steps => cmd[r] \in Commands
    /\ pc[r] \in {"check", "products"} => cmd[r].op = "issue"
    /\ pc[r] \in {"order", "reconcile", "insert", "item", "balance"} => cmd[r].op = "receive"
    /\ pc[r] \in Comply => cmd[r].op \in {"issue", "receive"}
    /\ pc[r] = "only" => cmd[r].op \notin {"issue", "receive"}

\* The locks a session has taken so far, in the one order all of them follow;
\* products in the order of their ids.
LocksSoFar(r) ==
    /\ pc[r] \notin Comply \cup Judged => held[r] = {}
    /\ \A row \in held[r] :
          /\ pc[r] = "policy" => row[1] = "order"
          /\ pc[r] = "supplier" => row[1] \in {"order", "reading"}
          /\ pc[r] = "certificate" => row[1] \in {"order", "reading", "supplier"}
          /\ pc[r] \in {"reconcile", "insert"} =>
                row[1] \in {"order", "reading", "supplier", "certificate"}
          /\ pc[r] = "products" =>
                row[1] \in {"order", "reading", "supplier", "certificate", "product"}
          /\ pc[r] \in Posting =>
                row[1] \in {"order", "reading", "supplier", "certificate", "key",
                            "share", "inventory"}
          /\ row[1] \in {"product", "inventory"} => \A p \in toPost[r] : row[2] < p
          /\ row[1] = "share" =>
                \A p \in toPost[r] : row[2] < p \/ (row[2] = p /\ pc[r] = "balance")

\* An order past its first check is one whose amounts were accepted.
TermsChecked(r) ==
    Doing(r, "issue", Comply \cup {"products"}) => TermsAccepted(cmd[r].terms)

\* A receipt past its first lock has locked an order that is open.
OrderHeld(r) ==
    Doing(r, "receive", Comply \cup Judged) =>
        <<"order", cmd[r].order>> \in held[r] /\ Open(orders[cmd[r].order])

\* What the compliance check read is what is still there, under its lock.
ComplianceHeld(r) ==
    /\ pc[r] \in PastPolicy => <<"reading", Config>> \in held[r] /\ rules[r] = policy
    /\ pc[r] \in {"certificate"} \cup Judged =>
          /\ <<"supplier", TermsOf(r).supplier>> \in held[r]
          /\ suppliers[TermsOf(r).supplier] = "active"
    /\ pc[r] \in Judged =>
          /\ TermsOf(r).certificate # NoCertificate =>
                <<"certificate", TermsOf(r).certificate>> \in held[r]
          /\ decision[r] \in Promise!Permitted(TermsOf(r))

\* The products an order has locked are on sale.
ProductsHeld(r) ==
    pc[r] = "products" =>
        \A p \in ProductsOf(cmd[r].terms.items) \ toPost[r] :
            <<"product", p>> \in held[r] /\ listed[p]

\* A delivery that was reconciled still is, and under its key there is no receipt.
DeliveryFits(r) ==
    /\ pc[r] \in {"insert"} \cup Posting =>
          Reconciles(receipts, cmd[r].order, orders[cmd[r].order].terms.items, cmd[r].items)
    /\ pc[r] \in Posting => <<"key", cmd[r].key>> \in held[r] /\ ~KeyTaken(cmd[r].key)

\* Of every product accepted and posted, the balance is locked and counted.
BalancesCounted(r) ==
    pc[r] \in Posting =>
        /\ \A p \in Products : <<"inventory", p>> \in held[r] =>
              work[r][p] = stock[p] + Accepted(cmd[r].items, p)
        /\ \A p \in ProductsOf(cmd[r].items) \ toPost[r] :
              Accepted(cmd[r].items, p) > 0 => <<"inventory", p>> \in held[r]

\* A request that is not over has written nothing.
NothingWritten(r) == pc[r] # "done" => receipts[r] = NoRow /\ orders[r] = NoRow

SessionInv(r) ==
    /\ StepFitsCommand(r)
    /\ LocksSoFar(r)
    /\ TermsChecked(r)
    /\ OrderHeld(r)
    /\ ComplianceHeld(r)
    /\ ProductsHeld(r)
    /\ DeliveryFits(r)
    /\ BalancesCounted(r)
    /\ NothingWritten(r)

(***************************************************************************)
(* What holds between sessions, and of the documents.                      *)
(***************************************************************************)
\* No two sessions hold locks that exclude one another.
LocksExclusive ==
    \A r, q \in Requests : r # q => \A a \in held[r], b \in held[q] : a \notin Rivals(b)

\* Every receipt is on an order there is, names each product once, and is
\* the only source of movements and entries.
DocumentsAgree ==
    /\ IsFiniteSet(Posted) /\ IsFiniteSet(movements) /\ IsFiniteSet(journal)
    /\ \A q \in Posted : orders[receipts[q].order] # NoRow
    /\ \A q \in Posted : \A i \in DOMAIN receipts[q].items :
          receipts[q].items[i].product \in ProductsOf(orders[receipts[q].order].terms.items)
    /\ \A m \in movements : m.doc \in Posted
    /\ \A e \in journal : e.doc \in Posted

\* From this the safety properties of Procurement follow: the sessions know what
\* their locks guarantee them, the locks exclude one another, and so every
\* document is written on the data it was computed from.
IInv ==
    /\ TypeOK
    /\ LocksExclusive
    /\ DocumentsAgree
    /\ \A r \in Requests : SessionInv(r)
    /\ NeverOverReceived
    /\ StatusTellsReceived
    /\ ReceiptOncePerKey
    /\ WithdrawnIsNotAwaited
    /\ StockIsSumOfMovements
    /\ BooksTellReceipts
=============================================================================
