------------------------- MODULE ProcurementPromise -------------------------
(***************************************************************************)
(* What the supply chain promises of its committed data: every command     *)
(* takes effect at once.  In particular an order is issued and a receipt   *)
(* posted under the policy, the supplier's status and the certificate of   *)
(* the moment; only the day on which the certificate was judged may be an  *)
(* earlier one.  Module Procurement has the sessions and locks.            *)
(***************************************************************************)
EXTENDS ProcurementData

VARIABLES
    orders,        \* order id -> its row
    receipts,      \* request -> the receipt it posted
    suppliers,     \* supplier -> "none", "active", "inactive"
    certificates,  \* certificate -> its row
    policy,        \* tenant_config, key "compliance"
    listed,        \* product -> products.is_active
    stock,         \* product -> on-hand quantity
    movements,     \* stock movements of receipts
    journal,       \* ledger entries of receipts
    day            \* the day in UTC

data == <<orders, receipts, suppliers, certificates, policy, listed, stock,
          movements, journal, day>>

Init ==
    /\ orders = [o \in Orders |-> IF o \in DOMAIN InitialOrders THEN InitialOrders[o]
                                                                ELSE NoRow]
    /\ receipts = [r \in Requests |-> NoRow]
    /\ suppliers = InitialSuppliers
    /\ certificates = InitialCertificates
    /\ policy = InitialPolicy
    /\ listed = [p \in Products |-> TRUE]
    /\ stock = InitialStock
    /\ movements = {}
    /\ journal = {}
    /\ day = 1

\* The certificate an order names is one of its own supplier, even where the
\* policy only warns.
Owned(supplier, certificate) ==
    certificate = NoCertificate \/ /\ certificates[certificate] # NoRow
                                   /\ certificates[certificate].supplier = supplier

Judgement(terms, d) ==
    [policy      |-> policy,
     supplier    |-> terms.supplier,
     certificate |-> terms.certificate,
     day         |-> d,
     outcome     |-> Outcome(policy, terms.supplier,
                             IF terms.certificate = NoCertificate THEN NoRow
                             ELSE certificates[terms.certificate], d)]

\* The decisions under which a document on these terms may be written now.
Permitted(terms) ==
    {decision \in {Judgement(terms, d) : d \in 1..day} :
        /\ suppliers[terms.supplier] = "active"
        /\ Owned(terms.supplier, terms.certificate)
        /\ decision.outcome # "BLOCKED"}

\* Only products on sale are ordered.
Issue(r, terms) ==
    /\ orders[r] = NoRow
    /\ TermsAccepted(terms)
    /\ \A p \in ProductsOf(terms.items) : listed[p]
    /\ \E decision \in Permitted(terms) :
          orders' = [orders EXCEPT ![r] =
              [terms |-> terms, decision |-> decision, status |-> "ISSUED"]]
    /\ UNCHANGED <<receipts, suppliers, certificates, policy, listed, stock,
                   movements, journal, day>>

\* A delivery on an open order, within what the order still awaits.
Receive(r, cmd) ==
    LET o       == cmd.order
        ordered == orders[o].terms.items
    IN  /\ receipts[r] = NoRow
        /\ \A q \in Requests : receipts[q] # NoRow => receipts[q].key # cmd.key
        /\ Open(orders[o])
        /\ Reconciles(receipts, o, ordered, cmd.items)
        /\ \E decision \in Permitted(orders[o].terms) :
              receipts' = [receipts EXCEPT ![r] =
                  [order |-> o, key |-> cmd.key, items |-> cmd.items, decision |-> decision]]
        /\ orders' = [orders EXCEPT ![o].status =
               StatusAfter(receipts, o, orders[o], cmd.items)]
        /\ stock' = [p \in Products |-> stock[p] + Accepted(cmd.items, p)]
        /\ movements' = movements \cup ReceiptMovements(r, cmd.items)
        /\ journal' = journal \cup ReceiptEntries(r, ordered, cmd.items)
        /\ UNCHANGED <<suppliers, certificates, policy, listed, day>>

\* An order nothing was accepted on may be cancelled.
Cancel(o) ==
    /\ orders[o] # NoRow
    /\ orders[o].status = "ISSUED"
    /\ \A p \in Products : Received(receipts, o, p) = 0
    /\ orders' = [orders EXCEPT ![o].status = "CANCELLED"]
    /\ UNCHANGED <<receipts, suppliers, certificates, policy, listed, stock,
                   movements, journal, day>>

\* A product that is still to come is not withdrawn.
List(p, active) ==
    /\ active \/ ~Awaited(orders, receipts, p)
    /\ listed' = [listed EXCEPT ![p] = active]
    /\ UNCHANGED <<orders, receipts, suppliers, certificates, policy, stock,
                   movements, journal, day>>

\* The rules change: a supplier is enrolled, perhaps with a certificate, or
\* suspended or resumed; a certificate is registered or, for good, revoked; the
\* policy is configured; a day passes.
Enroll(cmd) ==
    /\ suppliers[cmd.supplier] = "none"
    /\ suppliers' = [suppliers EXCEPT ![cmd.supplier] = "active"]
    /\ \/ cmd.certificate = NoCertificate /\ UNCHANGED certificates
       \/ /\ cmd.certificate # NoCertificate
          /\ certificates[cmd.certificate] = NoRow
          /\ certificates' = [certificates EXCEPT ![cmd.certificate] = cmd.row]
    /\ UNCHANGED <<policy, day>>

Suspend(cmd) ==
    /\ suppliers[cmd.supplier] # "none"
    /\ suppliers' = [suppliers EXCEPT ![cmd.supplier] =
                       IF cmd.active THEN "active" ELSE "inactive"]
    /\ UNCHANGED <<certificates, policy, day>>

Register(cmd) ==
    /\ suppliers[cmd.row.supplier] # "none"
    /\ cmd.row.from <= cmd.row.expiry
    /\ certificates[cmd.certificate] = NoRow
    /\ certificates' = [certificates EXCEPT ![cmd.certificate] = cmd.row]
    /\ UNCHANGED <<suppliers, policy, day>>

Revoke(c) ==
    /\ certificates[c] # NoRow
    /\ certificates' = [certificates EXCEPT ![c].revoked = TRUE]
    /\ UNCHANGED <<suppliers, policy, day>>

Configure(cmd) ==
    /\ policy' = cmd.policy
    /\ UNCHANGED <<suppliers, certificates, day>>

Tomorrow ==
    /\ day < LastDay
    /\ day' = day + 1
    /\ UNCHANGED <<suppliers, certificates, policy>>

NewRules ==
    /\ \/ \E cmd \in Commands :
             \/ cmd.op = "enroll" /\ Enroll(cmd)
             \/ cmd.op = "supplier" /\ Suspend(cmd)
             \/ cmd.op = "register" /\ Register(cmd)
             \/ cmd.op = "configure" /\ Configure(cmd)
       \/ \E c \in Certificates : Revoke(c)
       \/ Tomorrow
    /\ UNCHANGED <<orders, receipts, listed, stock, movements, journal>>

Next ==
    \/ \E r \in Requests, cmd \in Commands :
          \/ cmd.op = "issue" /\ Issue(r, cmd.terms)
          \/ cmd.op = "receive" /\ Receive(r, cmd)
    \/ \E o \in Orders : Cancel(o)
    \/ \E p \in Products, active \in BOOLEAN : List(p, active)
    \/ NewRules

Spec == Init /\ [][Next]_data
=============================================================================
