----------------------------- MODULE Procurement -----------------------------
(***************************************************************************)
(* The supply-chain back end as it runs: each request is a session with a  *)
(* database transaction of its own, as in module Store, and the statements *)
(* of different sessions interleave.  An order and a receipt take locks    *)
(* one after the other -- order, configuration, supplier, certificate,     *)
(* then products or stock; the handlers that wait for one lock only and    *)
(* read nothing before it are one step each.                               *)
(*                                                                         *)
(* The sessions follow backend/internal/supplychain/service.go,            *)
(* compliance.go and repository.go, and for the withdrawal of a product    *)
(* pos/repository.go.                                                      *)
(***************************************************************************)
EXTENDS ProcurementData

VARIABLES
    orders, receipts, suppliers, certificates, policy, listed, stock,
    movements, journal, day    \* committed data, as in ProcurementPromise

Promise == INSTANCE ProcurementPromise

data == <<orders, receipts, suppliers, certificates, policy, listed, stock,
          movements, journal, day>>

VARIABLES
    pc,        \* request -> the statement it runs next, or how it ended
    cmd,       \* request -> its command
    held,      \* request -> the locks its transaction holds
    rules,     \* request -> the policy it read
    decision,  \* request -> the compliance decision it took
    toPost,    \* request -> products it has yet to lock or to count
    work       \* request -> product -> the balance it is about to write

session == <<pc, cmd, held, rules, decision, toPost, work>>
vars == <<data, session>>

NoCommand == [op |-> "none"]

Outcomes == {"done", "replayed", "rejected", "aborted"}
Steps == {"check", "order", "policy", "supplier", "certificate", "reconcile",
          "insert", "item", "balance", "products", "only"}

Running(r) == pc[r] \in Steps

Config == "tenant_config"

Row == ({"order"} \X Orders) \cup ({"supplier"} \X Suppliers)
         \cup ({"certificate"} \X Certificates) \cup ({"key"} \X Keys)
         \cup ({"product", "share", "inventory"} \X Products)
         \cup {<<"reading", Config>>, <<"writing", Config>>}

INSTANCE RowLocks

\* The locking statements.  The mutants leave the lock out.
OrderUnlocked(r, o) == TRUE
ConfigUnlocked(r, mode) == TRUE
CertificateUnlocked(r, c) == TRUE
ProductUnlocked(r, p) == TRUE
InventoryUnlocked(r, p) == TRUE

OrderForUpdate(r, o) == MayLock(r, <<"order", o>>)
ConfigInMode(r, mode) == MayLock(r, <<mode, Config>>)
SupplierForUpdate(r, s) == MayLock(r, <<"supplier", s>>)
CertificateForUpdate(r, c) == MayLock(r, <<"certificate", c>>)
ProductForUpdate(r, p) == MayLock(r, <<"product", p>>)
InventoryForUpdate(r, p) == MayLock(r, <<"inventory", p>>)

(***************************************************************************)
(* How a session moves on and how it ends.                                 *)
(***************************************************************************)
Goto(r, step) == pc' = [pc EXCEPT ![r] = step]

End(r, outcome) ==
    /\ Goto(r, outcome)
    /\ cmd'      = [cmd EXCEPT ![r] = NoCommand]
    /\ held'     = [held EXCEPT ![r] = {}]
    /\ rules'    = [rules EXCEPT ![r] = NoRow]
    /\ decision' = [decision EXCEPT ![r] = NoRow]
    /\ toPost'   = [toPost EXCEPT ![r] = {}]
    /\ work'     = [work EXCEPT ![r] = [p \in Products |-> 0]]

\* Mutant of Fail: an error return that leaves the transaction open.
FailOpen(r, outcome) ==
    Goto(r, outcome) /\ UNCHANGED <<data, cmd, held, rules, decision, toPost, work>>

Fail(r, outcome) == End(r, outcome) /\ UNCHANGED data

FirstStep(c) ==
    CASE c.op = "issue" -> "check"
      [] c.op = "receive" -> "order"
      [] OTHER -> "only"

Begin(r) ==
    /\ pc[r] = "idle"
    /\ \E c \in Commands :
          /\ cmd' = [cmd EXCEPT ![r] = c]
          /\ Goto(r, FirstStep(c))
    /\ UNCHANGED <<data, held, rules, decision, toPost, work>>

Abort(r) == Running(r) /\ Fail(r, "aborted")

\* The clock, which no session holds still.
Midnight ==
    /\ day < LastDay
    /\ day' = day + 1
    /\ UNCHANGED <<orders, receipts, suppliers, certificates, policy, listed, stock,
                   movements, journal, session>>

(***************************************************************************)
(* checkCompliance, in the transaction of an order or of a receipt: the    *)
(* policy, then the supplier, then the certificate, each locked and kept.  *)
(***************************************************************************)
TermsOf(r) == IF cmd[r].op = "issue" THEN cmd[r].terms ELSE orders[cmd[r].order].terms

\* LOCK TABLE tenant_config IN SHARE MODE, and the row.
ReadPolicy(r) ==
    /\ pc[r] = "policy"
    /\ ConfigInMode(r, "reading")
    /\ Lock(r, <<"reading", Config>>)
    /\ rules' = [rules EXCEPT ![r] = policy]
    /\ Goto(r, "supplier")
    /\ UNCHANGED <<data, cmd, decision, toPost, work>>

LockSupplier(r) ==
    LET s == TermsOf(r).supplier
    IN  /\ pc[r] = "supplier"
        /\ SupplierForUpdate(r, s)
        /\ \/ suppliers[s] # "active" /\ Fail(r, "rejected")
           \/ /\ suppliers[s] = "active"
              /\ Lock(r, <<"supplier", s>>)
              /\ Goto(r, "certificate")
              /\ UNCHANGED <<data, cmd, rules, decision, toPost, work>>

\* evaluateCompliance, with the clock read after the locks.
Judgement(r, certificate) ==
    [policy      |-> rules[r],
     supplier    |-> TermsOf(r).supplier,
     certificate |-> TermsOf(r).certificate,
     day         |-> day,
     outcome     |-> Outcome(rules[r], TermsOf(r).supplier, certificate, day)]

Judge(r, certificate) ==
    \/ Judgement(r, certificate).outcome = "BLOCKED" /\ Fail(r, "rejected")
    \/ /\ Judgement(r, certificate).outcome # "BLOCKED"
       /\ decision' = [decision EXCEPT ![r] = Judgement(r, certificate)]
       /\ toPost' = [toPost EXCEPT ![r] =
              IF cmd[r].op = "issue" THEN ProductsOf(cmd[r].terms.items) ELSE {}]
       /\ held' = [held EXCEPT ![r] = @ \cup
              {<<"certificate", c>> : c \in {TermsOf(r).certificate} \ {NoCertificate}}]
       /\ Goto(r, IF cmd[r].op = "issue" THEN "products" ELSE "reconcile")
       /\ UNCHANGED <<data, cmd, rules, work>>

\* A certificate that is missing or another supplier's is refused under every
\* policy; naming none is up to the policy.
CheckCertificate(r) ==
    LET c == TermsOf(r).certificate
        Own == certificates[c] # NoRow /\ certificates[c].supplier = TermsOf(r).supplier
    IN  /\ pc[r] = "certificate"
        /\ \/ c = NoCertificate /\ Judge(r, NoRow)
           \/ /\ c # NoCertificate
              /\ CertificateForUpdate(r, c)
              /\ \/ ~Own /\ Fail(r, "rejected")
                 \/ Own /\ Judge(r, certificates[c])

(***************************************************************************)
(* CreatePurchaseOrder.                                                    *)
(***************************************************************************)
CheckTerms(r) ==
    /\ pc[r] = "check"
    /\ \/ ~TermsAccepted(cmd[r].terms) /\ Fail(r, "rejected")
       \/ /\ TermsAccepted(cmd[r].terms)
          /\ Goto(r, "policy")
          /\ UNCHANGED <<data, cmd, held, rules, decision, toPost, work>>

\* Products are locked in the order of their ids; the mutant takes them as they
\* come.
NextProductAny(r, p) == p \in toPost[r]

NextProduct(r, p) == p \in toPost[r] /\ \A q \in toPost[r] : p <= q

\* LockActiveProductsForPurchaseOrder
LockActiveProduct(r, p) ==
    /\ pc[r] = "products"
    /\ NextProduct(r, p)
    /\ ProductForUpdate(r, p)
    /\ \/ ~listed[p] /\ Fail(r, "rejected")
       \/ /\ listed[p]
          /\ Lock(r, <<"product", p>>)
          /\ toPost' = [toPost EXCEPT ![r] = @ \ {p}]
          /\ UNCHANGED <<data, pc, cmd, rules, decision, work>>

CommitOrder(r) ==
    /\ pc[r] = "products"
    /\ toPost[r] = {}
    /\ orders' = [orders EXCEPT ![r] = [terms    |-> cmd[r].terms,
                                        decision |-> decision[r],
                                        status   |-> "ISSUED"]]
    /\ UNCHANGED <<receipts, suppliers, certificates, policy, listed, stock,
                   movements, journal, day>>
    /\ End(r, "done")

(***************************************************************************)
(* CreateGoodsReceipt.                                                     *)
(***************************************************************************)
\* The unique constraint on goods_receipts.idempotency_key, and the schema
\* without it.
KeyNeverTaken(key) == FALSE
KeyTaken(key) == \E q \in Requests : receipts[q] # NoRow /\ receipts[q].key = key

\* LockPurchaseOrder, then the receipt that may already be there under the key,
\* then the status.
LockOrder(r) ==
    LET o == cmd[r].order
        known  == {q \in Requests : receipts[q] # NoRow /\ receipts[q].key = cmd[r].key}
        Replay == orders[o] # NoRow /\ \E q \in known : receipts[q].order = o
        Usable == Open(orders[o]) /\ known = {}
    IN  /\ pc[r] = "order"
        /\ OrderForUpdate(r, o)
        /\ \/ Replay /\ Fail(r, "replayed")
           \/ ~Replay /\ ~Usable /\ Fail(r, "rejected")
           \/ /\ Usable
              /\ Lock(r, <<"order", o>>)
              /\ Goto(r, "policy")
              /\ UNCHANGED <<data, cmd, rules, decision, toPost, work>>

\* What the receipts committed so far leave of the order.
ReconcileItems(r) ==
    LET c == cmd[r]
        Fits == Reconciles(receipts, c.order, orders[c.order].terms.items, c.items)
    IN  /\ pc[r] = "reconcile"
        /\ \/ ~Fits /\ Fail(r, "rejected")
           \/ /\ Fits
              /\ Goto(r, "insert")
              /\ UNCHANGED <<data, cmd, held, rules, decision, toPost, work>>

InsertReceipt(r) ==
    LET key == cmd[r].key
    IN  /\ pc[r] = "insert"
        /\ MayLock(r, <<"key", key>>)
        /\ \/ KeyTaken(key) /\ Fail(r, "rejected")
           \/ /\ ~KeyTaken(key)
              /\ Lock(r, <<"key", key>>)
              /\ toPost' = [toPost EXCEPT ![r] = ProductsOf(cmd[r].items)]
              /\ Goto(r, "item")
              /\ UNCHANGED <<data, cmd, rules, decision, work>>

\* A receipt item, whose foreign key shares the product row; a movement follows
\* if any of it was accepted.
InsertItem(r, p) ==
    /\ pc[r] = "item"
    /\ NextProduct(r, p)
    /\ MayLock(r, <<"share", p>>)
    /\ Lock(r, <<"share", p>>)
    /\ \/ /\ Accepted(cmd[r].items, p) > 0
          /\ Goto(r, "balance")
          /\ UNCHANGED toPost
       \/ /\ Accepted(cmd[r].items, p) = 0
          /\ toPost' = [toPost EXCEPT ![r] = @ \ {p}]
          /\ UNCHANGED pc
    /\ UNCHANGED <<data, cmd, rules, decision, work>>

\* PostMovementTx: the balance is read under its lock and the sum is what the
\* transaction will write.
PostMovement(r, p) ==
    /\ pc[r] = "balance"
    /\ NextProduct(r, p)
    /\ InventoryForUpdate(r, p)
    /\ Lock(r, <<"inventory", p>>)
    /\ work' = [work EXCEPT ![r][p] = stock[p] + Accepted(cmd[r].items, p)]
    /\ toPost' = [toPost EXCEPT ![r] = @ \ {p}]
    /\ Goto(r, "item")
    /\ UNCHANGED <<data, cmd, rules, decision>>

\* The status, the journal entry, which has two equal lines and so is never
\* refused, and the commit.
CommitReceipt(r) ==
    LET c == cmd[r]
        o == c.order
    IN  /\ pc[r] = "item"
        /\ toPost[r] = {}
        /\ receipts' = [receipts EXCEPT ![r] = [order |-> o, key |-> c.key, items |-> c.items,
                                                decision |-> decision[r]]]
        /\ orders' = [orders EXCEPT ![o].status = StatusAfter(receipts, o, orders[o], c.items)]
        /\ stock' = [p \in Products |->
                       IF <<"inventory", p>> \in held[r] THEN work[r][p] ELSE stock[p]]
        /\ movements' = movements \cup ReceiptMovements(r, c.items)
        /\ journal' = journal \cup ReceiptEntries(r, orders[o].terms.items, c.items)
        /\ UNCHANGED <<suppliers, certificates, policy, listed, day>>
        /\ End(r, "done")

(***************************************************************************)
(* The handlers that take one lock: it is there at once or the session     *)
(* waits, and all they read they read under it.                            *)
(***************************************************************************)
Only(r, op) == pc[r] = "only" /\ cmd[r].op = op

\* A cancelled order is returned as it is.
Cancellable(o) ==
    /\ orders[o] # NoRow
    /\ orders[o].status = "ISSUED"
    /\ \A p \in Products : Received(receipts, o, p) = 0

CancelPurchaseOrder(r) ==
    LET o == cmd[r].order
        Cancelled == orders[o] # NoRow /\ orders[o].status = "CANCELLED"
    IN  /\ Only(r, "cancel")
        /\ OrderForUpdate(r, o)
        /\ \/ Cancelled /\ Fail(r, "replayed")
           \/ ~Cancelled /\ ~Cancellable(o) /\ Fail(r, "rejected")
           \/ /\ Cancellable(o)
              /\ orders' = [orders EXCEPT ![o].status = "CANCELLED"]
              /\ UNCHANGED <<receipts, suppliers, certificates, policy, listed, stock,
                             movements, journal, day>>
              /\ End(r, "done")

\* UpdateProduct and DeleteProduct, as far as they put a product on sale or
\* withdraw it; module Store has the rest of what they do.
Withdrawable(p) == ~Awaited(orders, receipts, p)

ListProduct(r) ==
    LET p == cmd[r].product
        Allowed == cmd[r].active \/ Withdrawable(p)
    IN  /\ Only(r, "list")
        /\ ProductForUpdate(r, p)
        /\ \/ ~Allowed /\ Fail(r, "rejected")
           \/ /\ Allowed
              /\ listed' = [listed EXCEPT ![p] = cmd[r].active]
              /\ UNCHANGED <<orders, receipts, suppliers, certificates, policy, stock,
                             movements, journal, day>>
              /\ End(r, "done")

\* UpdateSupplier, as far as it changes is_active.
UpdateSupplier(r) ==
    LET s == cmd[r].supplier
    IN  /\ Only(r, "supplier")
        /\ SupplierForUpdate(r, s)
        /\ \/ suppliers[s] = "none" /\ Fail(r, "rejected")
           \/ /\ suppliers[s] # "none"
              /\ suppliers' = [suppliers EXCEPT ![s] =
                                 IF cmd[r].active THEN "active" ELSE "inactive"]
              /\ UNCHANGED <<orders, receipts, certificates, policy, listed, stock,
                             movements, journal, day>>
              /\ End(r, "done")

\* The rows of a new supplier are nobody else's before the commit.  Its code and
\* its certificate's number must be new; the dates are taken as they are.
CreateSupplier(r) ==
    LET s == cmd[r].supplier
        c == cmd[r].certificate
        New == suppliers[s] = "none" /\ (c # NoCertificate => certificates[c] = NoRow)
    IN  /\ Only(r, "enroll")
        /\ \/ ~New /\ Fail(r, "rejected")
           \/ /\ New
              /\ suppliers' = [suppliers EXCEPT ![s] = "active"]
              /\ certificates' = [d \in Certificates |-> IF d = c THEN cmd[r].row
                                                         ELSE certificates[d]]
              /\ UNCHANGED <<orders, receipts, policy, listed, stock, movements, journal, day>>
              /\ End(r, "done")

\* The foreign key of the certificate shares the supplier's row.
RegisterCertificate(r) ==
    LET c == cmd[r].certificate
        row == cmd[r].row
        Registrable == /\ suppliers[row.supplier] # "none"
                       /\ row.from <= row.expiry
                       /\ certificates[c] = NoRow
    IN  /\ Only(r, "register")
        /\ MayLock(r, <<"supplier", row.supplier>>)
        /\ \/ ~Registrable /\ Fail(r, "rejected")
           \/ /\ Registrable
              /\ certificates' = [certificates EXCEPT ![c] = row]
              /\ UNCHANGED <<orders, receipts, suppliers, policy, listed, stock,
                             movements, journal, day>>
              /\ End(r, "done")

\* A certificate revoked before stays revoked, and the caller is told so.
RevokeCertificate(r) ==
    LET c == cmd[r].certificate
    IN  /\ Only(r, "revoke")
        /\ CertificateForUpdate(r, c)
        /\ \/ certificates[c] = NoRow /\ Fail(r, "rejected")
           \/ /\ certificates[c] # NoRow
              /\ certificates' = [certificates EXCEPT ![c].revoked = TRUE]
              /\ UNCHANGED <<orders, receipts, suppliers, policy, listed, stock,
                             movements, journal, day>>
              /\ End(r, "done")

\* There is no handler for the configuration: an operator's upsert changes it.
Configure(r) ==
    /\ Only(r, "configure")
    /\ ConfigInMode(r, "writing")
    /\ policy' = cmd[r].policy
    /\ UNCHANGED <<orders, receipts, suppliers, certificates, listed, stock,
                   movements, journal, day>>
    /\ End(r, "done")

(***************************************************************************)
(* The supply chain.                                                       *)
(***************************************************************************)
\* The lock the next statement of an order or a receipt takes; the other
\* sessions hold nothing while they wait.
Wanted(r) ==
    LET c == cmd[r]
        next == {p \in toPost[r] : NextProduct(r, p)}
    IN  CASE pc[r] = "order"       -> {<<"order", c.order>>}
          [] pc[r] = "policy"      -> {<<"reading", Config>>}
          [] pc[r] = "supplier"    -> {<<"supplier", TermsOf(r).supplier>>}
          [] pc[r] = "certificate" ->
                {<<"certificate", d>> : d \in {TermsOf(r).certificate} \ {NoCertificate}}
          [] pc[r] = "insert"      -> {<<"key", c.key>>}
          [] pc[r] = "item"        -> {"share"} \X next
          [] pc[r] = "balance"     -> {"inventory"} \X next
          [] pc[r] = "products"    -> {"product"} \X next
          [] OTHER                 -> {}

Init ==
    /\ Promise!Init
    /\ pc       = [r \in Requests |-> "idle"]
    /\ cmd      = [r \in Requests |-> NoCommand]
    /\ held     = [r \in Requests |-> {}]
    /\ rules    = [r \in Requests |-> NoRow]
    /\ decision = [r \in Requests |-> NoRow]
    /\ toPost   = [r \in Requests |-> {}]
    /\ work     = [r \in Requests |-> [p \in Products |-> 0]]

CheckCompliance(r) == ReadPolicy(r) \/ LockSupplier(r) \/ CheckCertificate(r)

CreatePurchaseOrder(r) ==
    \/ CheckTerms(r)
    \/ \E p \in Products : LockActiveProduct(r, p)
    \/ CommitOrder(r)

CreateGoodsReceipt(r) ==
    \/ LockOrder(r)
    \/ ReconcileItems(r)
    \/ InsertReceipt(r)
    \/ \E p \in Products : InsertItem(r, p) \/ PostMovement(r, p)
    \/ CommitReceipt(r)

Maintain(r) ==
    \/ CancelPurchaseOrder(r)
    \/ ListProduct(r)
    \/ UpdateSupplier(r)
    \/ CreateSupplier(r)
    \/ RegisterCertificate(r)
    \/ RevokeCertificate(r)
    \/ Configure(r)

Proceed(r) ==
    \/ CheckCompliance(r)
    \/ CreatePurchaseOrder(r)
    \/ CreateGoodsReceipt(r)
    \/ Maintain(r)

Next == Midnight \/ \E r \in Requests : Begin(r) \/ Abort(r) \/ Proceed(r)

Spec == Init /\ [][Next]_vars

\* A handler that runs goes on when its statement need not wait.  No request has
\* to arrive, none has to fail, and the clock may stop.
FairSpec == Spec /\ \A r \in Requests : WF_vars(Proceed(r))

(***************************************************************************)
(* Properties.                                                             *)
(***************************************************************************)
MovementRow == [doc: Requests, product: Products, delta: Nat \ {0}]
EntryRow == [doc: Requests, lines: Seq(Line)]

DataTypeOK ==
    /\ orders \in [Orders -> OrderRow \cup {NoRow}]
    /\ receipts \in [Requests -> ReceiptRow \cup {NoRow}]
    /\ suppliers \in [Suppliers -> SupplierState]
    /\ certificates \in [Certificates -> CertificateRow \cup {NoRow}]
    /\ policy \in Policy
    /\ listed \in [Products -> BOOLEAN]
    /\ stock \in [Products -> Nat]
    /\ movements \subseteq MovementRow
    /\ journal \subseteq EntryRow
    /\ day \in Days

SessionTypeOK ==
    /\ pc \in [Requests -> Steps \cup Outcomes \cup {"idle"}]
    /\ cmd \in [Requests -> Commands \cup {NoCommand}]
    /\ held \in [Requests -> SUBSET Row]
    /\ rules \in [Requests -> Policy \cup {NoRow}]
    /\ decision \in [Requests -> Decision \cup {NoRow}]
    /\ toPost \in [Requests -> SUBSET Products]
    /\ work \in [Requests -> [Products -> Nat]]

\* Every variable has its type.
TypeOK == DataTypeOK /\ SessionTypeOK

Posted == {r \in Requests : receipts[r] # NoRow}
Issued == {o \in Orders : orders[o] # NoRow}

\* However receipts interleave, no order is accepted into stock beyond what it
\* ordered: each is measured against all that were committed before it.
NeverOverReceived ==
    \A o \in Issued : \A i \in DOMAIN orders[o].terms.items :
        Received(receipts, o, orders[o].terms.items[i].product)
            <= orders[o].terms.items[i].quantity

\* The status of an order says what its receipts say: an issued or cancelled
\* order has nothing accepted, a partly received one something but not all, a
\* received one all of every line.
StatusTellsReceived ==
    \A o \in Issued :
        LET items == orders[o].terms.items
            Some  == \E p \in Products : Received(receipts, o, p) > 0
            All   == \A i \in DOMAIN items :
                        Received(receipts, o, items[i].product) = items[i].quantity
        IN  CASE orders[o].status \in {"ISSUED", "CANCELLED"} -> ~Some
              [] orders[o].status = "PARTIALLY_RECEIVED"      -> Some /\ ~All
              [] orders[o].status = "RECEIVED"                -> All

\* A delivery is booked once: two requests under one Idempotency-Key, for one
\* order or for two, leave one receipt.
ReceiptOncePerKey ==
    \A q, r \in Posted : receipts[q].key = receipts[r].key => q = r

\* No product is withdrawn while an order still awaits it, although an order and
\* a withdrawal may be under way at once.
WithdrawnIsNotAwaited ==
    \A p \in Products : ~listed[p] => ~Awaited(orders, receipts, p)

Net(ms, p) == SumFunction([m \in {n \in ms : n.product = p} |-> m.delta])

\* Receipts of different orders that bring in one product lose none of each
\* other's units, and what was rejected never gets in.
StockIsSumOfMovements ==
    /\ \A p \in Products : stock[p] = InitialStock[p] + Net(movements, p)
    /\ movements = UNION {ReceiptMovements(r, receipts[r].items) : r \in Posted}

\* The inventory account holds what the accepted units cost, owed to suppliers,
\* by one entry per receipt that accepted any.
BooksTellReceipts ==
    /\ \A e \in journal : ValidateBalance(e.lines)
    /\ SumFunction([e \in journal |-> Effect(e.lines, Inventory)])
         = SumFunction([r \in Posted |-> InboundValue(orders[receipts[r].order].terms.items,
                                                      receipts[r].items)])

\* When a document is written, the policy, the supplier and the certificate of
\* that moment allow it: nothing was revoked, suspended or configured between the
\* check and the commit, a strict policy never sees a document without a good
\* certificate, and the decision on record is the one they give.
Lawful(terms, d) ==
    LET certificate == IF terms.certificate = NoCertificate THEN NoRow
                       ELSE certificates[terms.certificate]
        good == Satisfies(policy, terms.supplier, certificate, d.day)
    IN  /\ suppliers[terms.supplier] = "active"
        /\ d.policy = policy
        /\ d.outcome = IF good THEN "ACCEPTED" ELSE "WARNING"
        /\ policy.strict => good

DecisionIsCurrent ==
    [][/\ \A o \in Orders : orders[o] = NoRow /\ orders'[o] # NoRow =>
             Lawful(orders'[o].terms, orders'[o].decision)
       /\ \A r \in Requests : receipts[r] = NoRow /\ receipts'[r] # NoRow =>
             Lawful(orders[receipts'[r].order].terms, receipts'[r].decision)]_vars

\* Supply-chain sessions take their locks in one order, so that no set of them
\* ever waits in a circle.
NeverInCircle ==
    \A r \in Requests : ~InCircle([q \in Requests |-> Wanted(q)], r)

\* Seen from the committed data, every session takes effect in one step.
KeepsPromise == Promise!Spec

\* Every request that was begun is answered.
EveryRequestAnswered ==
    \A r \in Requests : pc[r] \in Steps ~> pc[r] \in Outcomes
=============================================================================
