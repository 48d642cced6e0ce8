--------------------------- MODULE ProcurementData ---------------------------
(***************************************************************************)
(* The data of one tenant's supply chain: purchase orders, goods receipts, *)
(* suppliers, their compliance certificates and the tenant's compliance    *)
(* policy, with the commands the supply-chain handlers accept.  What a     *)
(* certificate is worth on a day, and what a delivery leaves of an order,  *)
(* is decided here, so that the abstract and the detailed specification    *)
(* share it: backend/internal/supplychain.                                 *)
(*                                                                         *)
(* Product ids are numbers, so that they sort as the UUIDs do.  A request  *)
(* names the order or the receipt it creates, as in StoreData.             *)
(***************************************************************************)
EXTENDS Ledger

CONSTANTS
    Requests,              \* HTTP requests, each handled once
    Products,              \* product ids
    Suppliers, Certificates,
    Kinds,                 \* compliance_certificates.cert_type
    Keys,                  \* Idempotency-Key header values
    Commands,              \* the commands a request may carry
    InitialOrders,         \* the orders there are when the model starts, none received
    InitialSuppliers, InitialCertificates, InitialPolicy, InitialStock,
    LastDay,               \* bound: the days are 1..LastDay
    MaxTransactionAmount,  \* money.MaxTransactionAmount
    MaxLineItemQuantity,   \* money.MaxLineItemQuantity
    NoRow, NoCertificate

Orders == Requests \cup DOMAIN InitialOrders
Days   == 1..LastDay

(***************************************************************************)
(* Suppliers and compliance.                                               *)
(***************************************************************************)
SupplierState == {"none", "active", "inactive"}

\* A tenant without a configuration row is one that is not strict.
Policy == [strict: BOOLEAN, required: SUBSET Kinds]

CertificateRow == [supplier: Suppliers, kind: Kinds, scoped: BOOLEAN,
                   from: Nat, expiry: Nat, revoked: BOOLEAN]

Decision == [policy: Policy, supplier: Suppliers,
             certificate: Certificates \cup {NoCertificate}, day: Days,
             outcome: {"ACCEPTED", "WARNING", "BLOCKED"}]

\* certificateStatus: both dates are part of the validity.  A date before the
\* first day stands for one that is long past, or could not be read.
Valid(certificate, day) ==
    ~certificate.revoked /\ certificate.from <= day /\ day <= certificate.expiry

\* The failures evaluateCompliance tells apart are one here.
Satisfies(policy, supplier, certificate, day) ==
    /\ certificate # NoRow
    /\ certificate.supplier = supplier
    /\ certificate.scoped
    /\ certificate.kind \in policy.required
    /\ Valid(certificate, day)

Outcome(policy, supplier, certificate, day) ==
    CASE Satisfies(policy, supplier, certificate, day) -> "ACCEPTED"
      [] ~Satisfies(policy, supplier, certificate, day) /\ policy.strict  -> "BLOCKED"
      [] ~Satisfies(policy, supplier, certificate, day) /\ ~policy.strict -> "WARNING"

(***************************************************************************)
(* Orders.                                                                 *)
(***************************************************************************)
OrderItem == [product: Products, quantity: Nat \ {0}, cost: Nat \ {0}]

Terms == [supplier: Suppliers, certificate: Certificates \cup {NoCertificate},
          items: Seq(OrderItem)]

OrderRow == [terms: Terms, decision: Decision,
             status: {"ISSUED", "PARTIALLY_RECEIVED", "RECEIVED", "CANCELLED"}]

Open(order) == order # NoRow /\ order.status \in {"ISSUED", "PARTIALLY_RECEIVED"}

ProductsOf(items) == {items[i].product : i \in DOMAIN items}

OrderTotal(items) == SumFunction([i \in DOMAIN items |-> items[i].cost * items[i].quantity])

\* The checks CreatePurchaseOrder makes before its transaction.  The running
\* total only grows, so the last one tells.
TermsAccepted(terms) ==
    /\ \A i \in DOMAIN terms.items :
          /\ terms.items[i].quantity <= MaxLineItemQuantity
          /\ terms.items[i].cost <= MaxTransactionAmount
    /\ OrderTotal(terms.items) <= MaxTransactionAmount

\* Two lines may order one product; such an order can be issued but never be
\* received.
Unambiguous(items) == IsInjective([i \in DOMAIN items |-> items[i].product])

LineFor(items, p) == CHOOSE i \in DOMAIN items : items[i].product = p

(***************************************************************************)
(* Receipts.  A delivered line is counted in two parts; a legacy request   *)
(* that gives one number means all of it was accepted.                     *)
(***************************************************************************)
ReceiptItem == [product: Products, delivered: Nat, accepted: Nat, rejected: Nat,
                explained: BOOLEAN]

ReceiptRow == [order: Orders, key: Keys, items: Seq(ReceiptItem), decision: Decision]

\* GetReceivedQuantities over the committed receipts.
Accepted(items, p) ==
    SumFunction([i \in DOMAIN items |-> IF items[i].product = p THEN items[i].accepted ELSE 0])

ReceiptsOf(receipts, o) == {r \in Requests : receipts[r] # NoRow /\ receipts[r].order = o}

Received(receipts, o, p) ==
    SumFunction([r \in ReceiptsOf(receipts, o) |-> Accepted(receipts[r].items, p)])

\* Mutant of Outstanding: every delivery is measured against the whole order.
OutstandingOfOrder(receipts, o, items, p) == items[LineFor(items, p)].quantity

Outstanding(receipts, o, items, p) ==
    items[LineFor(items, p)].quantity - Received(receipts, o, p)

Inspected(item) ==
    /\ item.delivered > 0
    /\ item.delivered = item.accepted + item.rejected
    /\ item.rejected > 0 => item.explained

\* reconcileReceiptItems, up to its result.  The valuation is bounded by the
\* order's total, so that it cannot overflow.
Reconciles(receipts, o, ordered, delivered) ==
    /\ delivered # <<>>
    /\ Unambiguous(ordered)
    /\ Unambiguous(delivered)
    /\ \A i \in DOMAIN delivered :
          /\ delivered[i].product \in ProductsOf(ordered)
          /\ Inspected(delivered[i])
          /\ delivered[i].delivered <= Outstanding(receipts, o, ordered, delivered[i].product)

\* Its result: nothing of the order is outstanding once the delivery is in.
Completes(receipts, o, ordered, delivered) ==
    \A i \in DOMAIN ordered :
        LET p == ordered[i].product
        IN  Received(receipts, o, p) + Accepted(delivered, p) = ordered[i].quantity

HasAccepted(delivered) == \E i \in DOMAIN delivered : delivered[i].accepted > 0

\* Mutant of StatusAfter: whatever was delivered opens the order.
StatusAfterAny(receipts, o, order, delivered) ==
    IF Completes(receipts, o, order.terms.items, delivered)
    THEN "RECEIVED" ELSE "PARTIALLY_RECEIVED"

StatusAfter(receipts, o, order, delivered) ==
    CASE Completes(receipts, o, order.terms.items, delivered) -> "RECEIVED"
      [] ~Completes(receipts, o, order.terms.items, delivered) ->
            IF HasAccepted(delivered) /\ order.status = "ISSUED"
            THEN "PARTIALLY_RECEIVED" ELSE order.status

InboundValue(ordered, delivered) ==
    SumFunction([i \in DOMAIN delivered |->
        delivered[i].accepted * ordered[LineFor(ordered, delivered[i].product)].cost])

\* What rejectOutstandingPurchaseOrders looks for before a product is withdrawn.
Awaited(orders, receipts, p) ==
    \E o \in Orders :
        /\ Open(orders[o])
        /\ \E i \in DOMAIN orders[o].terms.items :
              /\ orders[o].terms.items[i].product = p
              /\ orders[o].terms.items[i].quantity > Received(receipts, o, p)

(***************************************************************************)
(* What a receipt leaves in stock and in the books.  The line of the       *)
(* document is the product it counts: a receipt names each one once.       *)
(***************************************************************************)
ReceiptMovement(doc, p, accepted) == [doc |-> doc, product |-> p, delta |-> accepted]

\* Mutant of ReceiptMovements: a line that was rejected is posted too.
ReceiptMovementsAll(doc, items) ==
    {ReceiptMovement(doc, items[i].product, items[i].accepted) : i \in DOMAIN items}

ReceiptMovements(doc, items) ==
    {ReceiptMovement(doc, items[i].product, items[i].accepted) :
        i \in {j \in DOMAIN items : items[j].accepted > 0}}

\* Mutant of ReceiptEntries: the delivered units are valued.
ReceiptEntriesDelivered(doc, ordered, delivered) ==
    LET value == SumFunction([i \in DOMAIN delivered |->
                     delivered[i].delivered * ordered[LineFor(ordered, delivered[i].product)].cost])
    IN  IF value > 0 THEN {[doc |-> doc, lines |-> ReceiptLines(value)]} ELSE {}

ReceiptEntries(doc, ordered, delivered) ==
    IF InboundValue(ordered, delivered) > 0
    THEN {[doc |-> doc, lines |-> ReceiptLines(InboundValue(ordered, delivered))]}
    ELSE {}

(***************************************************************************)
(* Commands.                                                               *)
(***************************************************************************)
IssueCommand    == [op: {"issue"}, terms: Terms]
ReceiveCommand  == [op: {"receive"}, order: Orders, key: Keys, items: Seq(ReceiptItem)]
CancelCommand   == [op: {"cancel"}, order: Orders]
ListCommand     == [op: {"list"}, product: Products, active: BOOLEAN]
SupplierCommand == [op: {"supplier"}, supplier: Suppliers, active: BOOLEAN]
EnrollCommand   == [op: {"enroll"}, supplier: Suppliers, row: CertificateRow \cup {NoRow},
                    certificate: Certificates \cup {NoCertificate}]
RegisterCommand == [op: {"register"}, certificate: Certificates, row: CertificateRow]
RevokeCommand   == [op: {"revoke"}, certificate: Certificates]
ConfigureCommand == [op: {"configure"}, policy: Policy]

Command == IssueCommand \cup ReceiveCommand \cup CancelCommand \cup ListCommand
             \cup SupplierCommand \cup EnrollCommand \cup RegisterCommand
             \cup RevokeCommand \cup ConfigureCommand

ASSUME ProcurementAssumption ==
    /\ Products \subseteq Nat
    /\ Commands \subseteq Command
    /\ InitialOrders \in [DOMAIN InitialOrders -> OrderRow]
    /\ DOMAIN InitialOrders \cap Requests = {}
    /\ \A o \in DOMAIN InitialOrders : InitialOrders[o].status \in {"ISSUED", "CANCELLED"}
    /\ InitialSuppliers \in [Suppliers -> SupplierState]
    /\ InitialCertificates \in [Certificates -> CertificateRow \cup {NoRow}]
    /\ InitialPolicy \in Policy
    /\ InitialStock \in [Products -> Nat]
    /\ NoRow \notin OrderRow \cup ReceiptRow \cup CertificateRow \cup Decision
    /\ NoCertificate \notin Certificates
    /\ LastDay \in Nat \ {0}
    /\ MaxTransactionAmount \in Nat
    /\ MaxLineItemQuantity \in Nat
=============================================================================
