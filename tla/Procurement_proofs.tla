------------------------- MODULE Procurement_proofs -------------------------
(***************************************************************************)
(* The safety of Procurement, for any requests, products, suppliers,       *)
(* certificates, orders, keys and commands.                                *)
(*                                                                         *)
(* The argument has two halves.  The sessions: every statement establishes *)
(* what the next one relies on, and what others' locks guarantee them no   *)
(* step of r disturbs; so a session that commits writes what an atomic     *)
(* step on the committed data would have written (Effects).  The data:     *)
(* every such atomic step keeps orders, receipts, stock, movements and     *)
(* journal in agreement.                                                   *)
(***************************************************************************)
EXTENDS ProcurementInv, SequenceTheorems, NumberTheorems

Step(r) == Begin(r) \/ Abort(r) \/ Proceed(r)

-----------------------------------------------------------------------------
(***************************************************************************)
(* What the operators of the model return.                                 *)
(***************************************************************************)
\* The operation field of a command says which kind of command it is.
LEMMA CommandByOp ==
    ASSUME NEW c \in Commands
    PROVE  /\ c.op = "issue" => c \in IssueCommand
           /\ c.op = "receive" => c \in ReceiveCommand
           /\ c.op = "cancel" => c \in CancelCommand
           /\ c.op = "list" => c \in ListCommand
           /\ c.op = "supplier" => c \in SupplierCommand
           /\ c.op = "enroll" => c \in EnrollCommand
           /\ c.op = "register" => c \in RegisterCommand
           /\ c.op = "revoke" => c \in RevokeCommand
           /\ c.op = "configure" => c \in ConfigureCommand
<1>1. c \in Command
  BY ProcurementAssumption
<1>. QED
  BY <1>1 DEF Command, IssueCommand, ReceiveCommand, CancelCommand, ListCommand,
              SupplierCommand, EnrollCommand, RegisterCommand, RevokeCommand, ConfigureCommand

LEMMA Interval ==
    ASSUME NEW S, NEW s \in Seq(S)
    PROVE  /\ DOMAIN s = 1 .. Len(s) /\ Len(s) \in Nat
           /\ IsFiniteSet(DOMAIN s)
           /\ \A i \in DOMAIN s : s[i] \in S
<1>1. DOMAIN s = 1 .. Len(s) /\ Len(s) \in Nat
  BY LenProperties
<1>2. IsFiniteSet(1 .. Len(s))
  BY <1>1, FS_Interval
<1>3. \A i \in DOMAIN s : s[i] \in S
  BY <1>1, ElementOfSeq
<1>. QED
  BY <1>1, <1>2, <1>3

\* What a delivery accepts of a product is a quantity.
LEMMA AcceptedType ==
    ASSUME NEW items \in Seq(ReceiptItem), NEW p
    PROVE  Accepted(items, p) \in Nat
<1>. DEFINE f == [i \in DOMAIN items |-> IF items[i].product = p THEN items[i].accepted ELSE 0]
<1>1. IsFiniteSet(DOMAIN items) /\ \A i \in DOMAIN items : items[i] \in ReceiptItem
  BY Interval
<1>2. \A i \in DOMAIN items : f[i] \in Nat
  BY <1>1 DEF ReceiptItem
<1>3. SumFunctionOnSet(f, DOMAIN items) \in Nat
  <2>. HIDE DEF f
  <2>. QED
    BY <1>1, <1>2, SumNat
<1>. QED
  BY <1>3, SumOf DEF Accepted

\* A delivery that names each product once accepts of a product what its line
\* accepts, and of a product it does not name nothing.
LEMMA AcceptedOfLine ==
    ASSUME NEW items \in Seq(ReceiptItem), Unambiguous(items), NEW i \in DOMAIN items
    PROVE  Accepted(items, items[i].product) = items[i].accepted
<1>. DEFINE p == items[i].product
            f == [j \in DOMAIN items |-> IF items[j].product = p THEN items[j].accepted ELSE 0]
<1>1. IsFiniteSet(DOMAIN items) /\ \A j \in DOMAIN items : items[j] \in ReceiptItem
  BY Interval
<1>2. \A j \in DOMAIN items \ {i} : items[j].product # p
  BY DEF Unambiguous, IsInjective
<1>3. \A j \in DOMAIN items \ {i} : f[j] = 0
  BY <1>2
<1>4. f[i] = items[i].accepted /\ f[i] \in Int
  BY <1>1 DEF ReceiptItem
<1>5. SumFunctionOnSet(f, DOMAIN items) = f[i]
  <2>. HIDE DEF f
  <2>. QED
    BY <1>1, <1>3, <1>4, SumOfOne
<1>. QED
  BY <1>4, <1>5, SumOf DEF Accepted

LEMMA AcceptedOfNone ==
    ASSUME NEW items \in Seq(ReceiptItem), NEW p, p \notin ProductsOf(items)
    PROVE  Accepted(items, p) = 0
<1>. DEFINE f == [j \in DOMAIN items |-> IF items[j].product = p THEN items[j].accepted ELSE 0]
<1>1. IsFiniteSet(DOMAIN items)
  BY Interval
<1>2. \A j \in DOMAIN items : f[j] = 0
  BY DEF ProductsOf
<1>3. SumFunctionOnSet(f, DOMAIN items) = 0
  <2>. HIDE DEF f
  <2>. QED
    BY <1>1, <1>2, SumZero
<1>. QED
  BY <1>3, SumOf DEF Accepted

LEMMA ProductsOfType ==
    /\ \A items \in Seq(OrderItem) : ProductsOf(items) \subseteq Products
    /\ \A items \in Seq(ReceiptItem) : ProductsOf(items) \subseteq Products
<1>1. ASSUME NEW items \in Seq(OrderItem) PROVE ProductsOf(items) \subseteq Products
  <2>1. \A i \in DOMAIN items : items[i] \in OrderItem
    BY Interval
  <2>. QED
    BY <2>1 DEF ProductsOf, OrderItem
<1>2. ASSUME NEW items \in Seq(ReceiptItem) PROVE ProductsOf(items) \subseteq Products
  <2>1. \A i \in DOMAIN items : items[i] \in ReceiptItem
    BY Interval
  <2>. QED
    BY <2>1 DEF ProductsOf, ReceiptItem
<1>. QED
  BY <1>1, <1>2

\* The line an order has for a product it orders.
LEMMA LineForType ==
    ASSUME NEW items, NEW p \in ProductsOf(items)
    PROVE  LineFor(items, p) \in DOMAIN items /\ items[LineFor(items, p)].product = p
  BY DEF LineFor, ProductsOf

LEMMA LineForOnly ==
    ASSUME NEW items, Unambiguous(items), NEW i \in DOMAIN items
    PROVE  LineFor(items, items[i].product) = i
<1>1. items[i].product \in ProductsOf(items)
  BY DEF ProductsOf
<1>. DEFINE j == LineFor(items, items[i].product)
<1>2. j \in DOMAIN items /\ items[j].product = items[i].product
  BY <1>1, LineForType
<1>. HIDE DEF j
<1>3. j = i
  BY <1>2 DEF Unambiguous, IsInjective
<1>. QED
  BY <1>3 DEF j

\* The value of a delivery on an order that has a line for all it names.
LEMMA InboundValueType ==
    ASSUME NEW ordered \in Seq(OrderItem), NEW delivered \in Seq(ReceiptItem),
           \A i \in DOMAIN delivered : delivered[i].product \in ProductsOf(ordered)
    PROVE  InboundValue(ordered, delivered) \in Nat
<1>. DEFINE cost(i) == ordered[LineFor(ordered, delivered[i].product)].cost
            f == [i \in DOMAIN delivered |-> delivered[i].accepted * cost(i)]
<1>1. IsFiniteSet(DOMAIN delivered) /\ \A i \in DOMAIN delivered : delivered[i] \in ReceiptItem
  BY Interval
<1>2. ASSUME NEW i \in DOMAIN delivered PROVE f[i] \in Nat
  <2>0. \A j \in DOMAIN ordered : ordered[j] \in OrderItem
    BY Interval
  <2>1. LineFor(ordered, delivered[i].product) \in DOMAIN ordered
    BY LineForType
  <2>2. cost(i) \in Nat
    BY <2>0, <2>1 DEF OrderItem
  <2>3. delivered[i].accepted \in Nat
    BY <1>1 DEF ReceiptItem
  <2>. HIDE DEF cost
  <2>. QED
    BY <2>2, <2>3
<1>3. SumFunctionOnSet(f, DOMAIN delivered) \in Nat
  <2>. HIDE DEF f
  <2>. QED
    BY <1>1, <1>2, SumNat
<1>. QED
  BY <1>3, SumOf DEF InboundValue

\* Every received quantity is a sum over finitely many receipts.
LEMMA ReceivedType ==
    ASSUME NEW R \in [Requests -> ReceiptRow \cup {NoRow}],
           IsFiniteSet({q \in Requests : R[q] # NoRow}), NEW o, NEW p
    PROVE  IsFiniteSet(ReceiptsOf(R, o)) /\ Received(R, o, p) \in Nat
<1>. DEFINE f == [q \in ReceiptsOf(R, o) |-> Accepted(R[q].items, p)]
<1>1. ReceiptsOf(R, o) \subseteq {q \in Requests : R[q] # NoRow}
  BY DEF ReceiptsOf
<1>2. IsFiniteSet(ReceiptsOf(R, o))
  BY <1>1, FS_Subset
<1>3. ASSUME NEW q \in ReceiptsOf(R, o) PROVE f[q] \in Nat
  <2>1. R[q].items \in Seq(ReceiptItem)
    BY DEF ReceiptsOf, ReceiptRow
  <2>. QED
    BY <2>1, AcceptedType
<1>4. SumFunctionOnSet(f, ReceiptsOf(R, o)) \in Nat
  <2>. HIDE DEF f
  <2>. QED
    BY <1>2, <1>3, SumNat
<1>. QED
  BY <1>2, <1>4, SumOf DEF Received

\* Of an order without receipts nothing was received.
LEMMA ReceivedOfNone ==
    ASSUME NEW R, NEW o, ReceiptsOf(R, o) = {}, NEW p
    PROVE  Received(R, o, p) = 0
<1>. DEFINE f == [q \in ReceiptsOf(R, o) |-> Accepted(R[q].items, p)]
<1>1. SumFunctionOnSet(f, {}) = 0
  BY SumEmpty
<1>. QED
  BY <1>1, SumOf DEF Received

\* Only the receipts on an order count for it.
LEMMA ReceivedSame ==
    ASSUME NEW R, NEW Q, NEW o, IsFiniteSet(ReceiptsOf(R, o)),
           ReceiptsOf(Q, o) = ReceiptsOf(R, o),
           \A q \in ReceiptsOf(R, o) : Q[q] = R[q], NEW p
    PROVE  Received(Q, o, p) = Received(R, o, p)
<1>. DEFINE f == [q \in ReceiptsOf(R, o) |-> Accepted(R[q].items, p)]
            g == [q \in ReceiptsOf(Q, o) |-> Accepted(Q[q].items, p)]
<1>1. \A q \in ReceiptsOf(R, o) : g[q] = f[q]
  OBVIOUS
<1>2. SumFunctionOnSet(g, ReceiptsOf(R, o)) = SumFunctionOnSet(f, ReceiptsOf(R, o))
  <2>. HIDE DEF f, g
  <2>. QED
    BY <1>1, SumSame
<1>. QED
  BY <1>2, SumOf DEF Received

\* A receipt adds what it accepted to what its order has received, and nothing
\* to other orders.
LEMMA ReceivedAfter ==
    ASSUME NEW R \in [Requests -> ReceiptRow \cup {NoRow}],
           IsFiniteSet({q \in Requests : R[q] # NoRow}),
           NEW r \in Requests, R[r] = NoRow, NEW receipt \in ReceiptRow,
           NEW Q \in [Requests -> ReceiptRow \cup {NoRow}],
           Q[r] = receipt, \A q \in Requests \ {r} : Q[q] = R[q], NEW o, NEW p
    PROVE  /\ o = receipt.order =>
                 Received(Q, o, p) = Received(R, o, p) + Accepted(receipt.items, p)
           /\ o # receipt.order => Received(Q, o, p) = Received(R, o, p)
<1>0. receipt # NoRow /\ receipt.items \in Seq(ReceiptItem)
  BY ProcurementAssumption DEF ReceiptRow
<1>1. IsFiniteSet(ReceiptsOf(R, o)) /\ r \notin ReceiptsOf(R, o)
  BY ReceivedType DEF ReceiptsOf
<1>2. ASSUME o # receipt.order
      PROVE  Received(Q, o, p) = Received(R, o, p)
  <2>1. ReceiptsOf(Q, o) = ReceiptsOf(R, o) /\ \A q \in ReceiptsOf(R, o) : Q[q] = R[q]
    BY <1>0, <1>2 DEF ReceiptsOf
  <2>. QED
    BY <1>1, <2>1, ReceivedSame
<1>3. ASSUME o = receipt.order
      PROVE  Received(Q, o, p) = Received(R, o, p) + Accepted(receipt.items, p)
  <2>. DEFINE S == ReceiptsOf(R, o)
              f == [q \in S |-> Accepted(R[q].items, p)]
              g == [q \in ReceiptsOf(Q, o) |-> Accepted(Q[q].items, p)]
  <2>1. ReceiptsOf(Q, o) = S \cup {r} /\ \A q \in S : Q[q] = R[q]
    BY <1>0, <1>1, <1>3 DEF ReceiptsOf
  <2>2. ASSUME NEW q \in S \cup {r} PROVE g[q] \in Int
    <3>1. Q[q] \in ReceiptRow
      BY <1>0, <2>1 DEF ReceiptsOf
    <3>2. Q[q].items \in Seq(ReceiptItem)
      BY <3>1 DEF ReceiptRow
    <3>3. Accepted(Q[q].items, p) \in Nat
      BY <3>2, AcceptedType
    <3>. QED
      BY <2>1, <3>3
  <2>3. g[r] = Accepted(receipt.items, p) /\ \A q \in S : g[q] = f[q]
    BY <1>0, <2>1
  <2>4. SumFunctionOnSet(g, S \cup {r}) = SumFunctionOnSet(g, S) + g[r]
    <3>. HIDE DEF g, S
    <3>. QED
      BY <1>1, <2>2, SumAdd DEF S
  <2>5. SumFunctionOnSet(g, S) = SumFunctionOnSet(f, S)
    <3>. HIDE DEF f, g, S
    <3>. QED
      BY <1>1, <2>3, SumSame DEF S
  <2>6. Received(Q, o, p) = SumFunctionOnSet(g, S \cup {r})
    BY <2>1, SumOf DEF Received
  <2>7. Received(R, o, p) = SumFunctionOnSet(f, S)
    BY SumOf DEF Received
  <2>. QED
    BY <2>3, <2>4, <2>5, <2>6, <2>7
<1>. QED
  BY <1>2, <1>3

\* What an order has, and what it may get, of a product it names once.
LEMMA LineOutstanding ==
    ASSUME NEW R, NEW o, NEW ordered, Unambiguous(ordered), NEW i \in DOMAIN ordered
    PROVE  Outstanding(R, o, ordered, ordered[i].product)
             = ordered[i].quantity - Received(R, o, ordered[i].product)
  BY LineForOnly DEF Outstanding

\* A delivery that reconciles with an order does not exceed it, and is worth
\* something that can be written down.
LEMMA ReconciledFits ==
    ASSUME NEW R \in [Requests -> ReceiptRow \cup {NoRow}],
           IsFiniteSet({q \in Requests : R[q] # NoRow}),
           NEW o, NEW ordered \in Seq(OrderItem), NEW delivered \in Seq(ReceiptItem),
           Reconciles(R, o, ordered, delivered),
           NEW i \in DOMAIN ordered,
           Received(R, o, ordered[i].product) <= ordered[i].quantity
    PROVE  Received(R, o, ordered[i].product) + Accepted(delivered, ordered[i].product)
             <= ordered[i].quantity
<1>. DEFINE p == ordered[i].product
<1>1. Unambiguous(ordered) /\ Unambiguous(delivered)
  BY DEF Reconciles
<1>2. Received(R, o, p) \in Nat /\ ordered[i].quantity \in Nat
  <2>1. ordered[i] \in OrderItem
    BY Interval
  <2>. QED
    BY <2>1, ReceivedType DEF OrderItem
<1>3. CASE p \notin ProductsOf(delivered)
  <2>1. Accepted(delivered, p) = 0
    BY <1>3, AcceptedOfNone
  <2>. QED
    BY <1>2, <2>1
<1>4. CASE p \in ProductsOf(delivered)
  <2>1. PICK j \in DOMAIN delivered : delivered[j].product = p
    BY <1>4 DEF ProductsOf
  <2>2. Accepted(delivered, p) = delivered[j].accepted
    BY <1>1, <2>1, AcceptedOfLine
  <2>3. delivered[j] \in ReceiptItem
    BY Interval
  <2>4. /\ delivered[j].delivered = delivered[j].accepted + delivered[j].rejected
        /\ delivered[j].delivered <= Outstanding(R, o, ordered, delivered[j].product)
    BY DEF Reconciles, Inspected
  <2>5. Outstanding(R, o, ordered, p) = ordered[i].quantity - Received(R, o, p)
    BY <1>1, LineOutstanding
  <2>6. delivered[j].delivered <= ordered[i].quantity - Received(R, o, p)
    BY <2>1, <2>4, <2>5
  <2>. QED
    BY <1>2, <2>2, <2>3, <2>4, <2>6 DEF ReceiptItem
<1>. QED
  BY <1>3, <1>4

-----------------------------------------------------------------------------
(***************************************************************************)
(* Sessions: their types and commands.                                     *)
(***************************************************************************)
LEMMA RowType ==
    /\ \A o \in Orders : <<"order", o>> \in Row
    /\ \A s \in Suppliers : <<"supplier", s>> \in Row
    /\ \A c \in Certificates : <<"certificate", c>> \in Row
    /\ \A k \in Keys : <<"key", k>> \in Row
    /\ \A p \in Products : /\ <<"product", p>> \in Row
                          /\ <<"share", p>> \in Row
                          /\ <<"inventory", p>> \in Row
    /\ <<"reading", Config>> \in Row /\ <<"writing", Config>> \in Row
  BY DEF Row

LEMMA EndType ==
    ASSUME SessionTypeOK, NEW r \in Requests, NEW o \in Outcomes, End(r, o)
    PROVE  SessionTypeOK'
  BY DEF SessionTypeOK, End, Goto

\* What a running session's command is, from the step it is at.
LEMMA RunningCommand ==
    ASSUME IInv, NEW r \in Requests
    PROVE  /\ pc[r] \in {"check", "products"} =>
                 cmd[r] \in Commands /\ cmd[r].op = "issue" /\ cmd[r] \in IssueCommand
           /\ pc[r] \in {"order", "reconcile", "insert", "item", "balance"} =>
                 cmd[r] \in Commands /\ cmd[r].op = "receive" /\ cmd[r] \in ReceiveCommand
           /\ pc[r] \in Comply =>
                 /\ cmd[r] \in Commands
                 /\ \/ cmd[r].op = "issue" /\ cmd[r] \in IssueCommand
                    \/ cmd[r].op = "receive" /\ cmd[r] \in ReceiveCommand
           /\ pc[r] = "only" => cmd[r] \in Commands /\ cmd[r].op \notin {"issue", "receive"}
<1>1. pc[r] \in Steps => cmd[r] \in Commands
  BY DEF IInv, SessionInv, StepFitsCommand
<1>2. pc[r] \in {"check", "products", "order", "reconcile", "insert", "item", "balance", "only"}
                  \cup Comply => cmd[r] \in Commands
  BY <1>1 DEF Steps, Comply
<1>. QED
  BY <1>2, CommandByOp DEF IInv, SessionInv, StepFitsCommand

\* The terms a session is checked against are those of an order.
LEMMA TermsType ==
    ASSUME IInv, NEW r \in Requests, pc[r] \in Comply \cup Judged
    PROVE  /\ TermsOf(r) \in Terms
           /\ cmd[r].op = "issue" => TermsOf(r) = cmd[r].terms
           /\ cmd[r].op = "receive" =>
                 /\ cmd[r].order \in Orders
                 /\ orders[cmd[r].order] \in OrderRow
                 /\ TermsOf(r) = orders[cmd[r].order].terms
<1>1. \/ cmd[r].op = "issue" /\ cmd[r] \in IssueCommand
      \/ cmd[r].op = "receive" /\ cmd[r] \in ReceiveCommand
  BY RunningCommand DEF Comply, Judged
<1>2. CASE cmd[r].op = "issue" /\ cmd[r] \in IssueCommand
  BY <1>2 DEF TermsOf, IssueCommand
<1>3. CASE cmd[r].op = "receive" /\ cmd[r] \in ReceiveCommand
  <2>1. cmd[r].order \in Orders
    BY <1>3 DEF ReceiveCommand
  <2>2. orders[cmd[r].order] # NoRow
    BY <1>3 DEF IInv, SessionInv, OrderHeld, Doing, Open
  <2>3. orders[cmd[r].order] \in OrderRow
    BY <2>1, <2>2 DEF IInv, TypeOK, DataTypeOK
  <2>. QED
    BY <1>3, <2>1, <2>3 DEF TermsOf, OrderRow
<1>. QED
  BY <1>1, <1>2, <1>3

LEMMA OutcomeType ==
    ASSUME NEW pol, pol.strict \in BOOLEAN, NEW s, NEW c, NEW d
    PROVE  Outcome(pol, s, c, d) \in {"ACCEPTED", "WARNING", "BLOCKED"}
<1>. DEFINE good == Satisfies(pol, s, c, d)
<1>1. good \in BOOLEAN
  BY DEF Satisfies
<1>. HIDE DEF good
<1>2. CASE good
  BY <1>2 DEF Outcome, good
<1>3. CASE ~good /\ pol.strict
  BY <1>3 DEF Outcome, good
<1>4. CASE ~good /\ ~pol.strict
  BY <1>4 DEF Outcome, good
<1>. QED
  BY <1>2, <1>3, <1>4

LEMMA JudgementType ==
    ASSUME IInv, NEW r \in Requests, pc[r] \in PastPolicy, NEW certificate
    PROVE  Judgement(r, certificate) \in Decision
<1>1. rules[r] \in Policy
  BY DEF IInv, TypeOK, DataTypeOK, SessionInv, ComplianceHeld
<1>2. TermsOf(r) \in Terms
  BY TermsType DEF PastPolicy, Comply, Judged
<1>3. day \in Days
  BY DEF IInv, TypeOK, DataTypeOK
<1>4. Outcome(rules[r], TermsOf(r).supplier, certificate, day) \in {"ACCEPTED", "WARNING", "BLOCKED"}
  BY <1>1, OutcomeType DEF Policy
<1>. QED
  BY <1>1, <1>2, <1>3, <1>4 DEF Judgement, Decision, Terms

\* The next product of a list that is worked off in the order of the ids.
LEMMA NextType ==
    ASSUME TypeOK, NEW r \in Requests, NEW p, NextProduct(r, p)
    PROVE  p \in Products /\ p \in Nat /\ p \in toPost[r]
  BY ProcurementAssumption DEF NextProduct, TypeOK, SessionTypeOK

LEMMA GotoType ==
    ASSUME SessionTypeOK, NEW r \in Requests, NEW step \in Steps, Goto(r, step)
    PROVE  pc' \in [Requests -> Steps \cup Outcomes \cup {"idle"}]
  BY DEF SessionTypeOK, Goto

LEMMA LockType ==
    ASSUME SessionTypeOK, NEW r \in Requests, NEW row \in Row, Lock(r, row)
    PROVE  held' \in [Requests -> SUBSET Row]
  BY DEF SessionTypeOK, Lock

LEMMA ToPostType ==
    ASSUME SessionTypeOK, NEW r \in Requests, NEW S \in SUBSET Products,
           toPost' = [toPost EXCEPT ![r] = S]
    PROVE  toPost' \in [Requests -> SUBSET Products]
  BY DEF SessionTypeOK

LEMMA SessionTypeStep ==
    ASSUME IInv, NEW r \in Requests, Step(r)
    PROVE  SessionTypeOK'
<1>0. SessionTypeOK /\ DataTypeOK /\ TypeOK
  BY DEF IInv, TypeOK
<1>1. CASE \E o \in Outcomes : End(r, o)
  BY <1>0, <1>1, EndType
<1>2. CASE ~\E o \in Outcomes : End(r, o)
  <2>0. \A o \in Outcomes : ~End(r, o) /\ ~Fail(r, o)
    BY <1>2 DEF Fail
  <2>1. /\ ~End(r, "done") /\ ~Fail(r, "rejected") /\ ~Fail(r, "replayed")
        /\ ~Fail(r, "aborted")
    BY <2>0 DEF Outcomes
  <2>a. /\ \A step \in Steps : Goto(r, step) =>
              pc' \in [Requests -> Steps \cup Outcomes \cup {"idle"}]
        /\ \A row \in Row : Lock(r, row) => held' \in [Requests -> SUBSET Row]
        /\ \A S \in SUBSET Products : toPost' = [toPost EXCEPT ![r] = S] =>
              toPost' \in [Requests -> SUBSET Products]
    BY <1>0, GotoType, LockType, ToPostType
  <2>2. CASE Begin(r)
    BY <1>0, <2>2 DEF SessionTypeOK, Begin, Goto, FirstStep, Steps
  <2>3. CASE CheckTerms(r) \/ ReconcileItems(r)
    BY <1>0, <2>1, <2>3 DEF SessionTypeOK, CheckTerms, ReconcileItems, Goto, Steps
  <2>4. CASE ReadPolicy(r)
    BY <1>0, <2>4, RowType DEF SessionTypeOK, DataTypeOK, ReadPolicy, Goto, Steps, Lock
  <2>5. CASE LockSupplier(r)
    <3>1. TermsOf(r).supplier \in Suppliers
      BY <2>5, TermsType DEF LockSupplier, Comply, Terms
    <3>2. /\ Lock(r, <<"supplier", TermsOf(r).supplier>>)
          /\ Goto(r, "certificate")
          /\ UNCHANGED <<data, cmd, rules, decision, toPost, work>>
      BY <2>1, <2>5 DEF LockSupplier
    <3>3. <<"supplier", TermsOf(r).supplier>> \in Row /\ "certificate" \in Steps
      BY <3>1, RowType DEF Steps
    <3>. QED
      BY <1>0, <2>a, <3>2, <3>3 DEF SessionTypeOK
  <2>6. CASE CheckCertificate(r)
    <3>1. PICK certificate : pc[r] = "certificate" /\ Judge(r, certificate)
      BY <2>1, <2>6 DEF CheckCertificate
    <3>2. Judgement(r, certificate) \in Decision
      BY <3>1, JudgementType DEF PastPolicy
    <3>3. TermsOf(r) \in Terms /\ (cmd[r].op = "issue" => TermsOf(r) = cmd[r].terms)
      BY <3>1, TermsType DEF Comply
    <3>. DEFINE next == IF cmd[r].op = "issue" THEN ProductsOf(cmd[r].terms.items) ELSE {}
                certs == {<<"certificate", c>> : c \in {TermsOf(r).certificate} \ {NoCertificate}}
    <3>4. next \subseteq Products
      BY <3>3, ProductsOfType DEF Terms
    <3>5. certs \subseteq Row
      BY <3>3, RowType DEF Terms
    <3>6. /\ decision' = [decision EXCEPT ![r] = Judgement(r, certificate)]
          /\ toPost' = [toPost EXCEPT ![r] = next]
          /\ held' = [held EXCEPT ![r] = @ \cup certs]
          /\ Goto(r, IF cmd[r].op = "issue" THEN "products" ELSE "reconcile")
          /\ UNCHANGED <<data, cmd, rules, work>>
      BY <2>1, <3>1 DEF Judge
    <3>. HIDE DEF next, certs
    <3>7. pc' \in [Requests -> Steps \cup Outcomes \cup {"idle"}]
      BY <1>0, <3>6 DEF SessionTypeOK, Goto, Steps
    <3>. QED
      BY <1>0, <3>2, <3>4, <3>5, <3>6, <3>7 DEF SessionTypeOK
  <2>7. ASSUME NEW p \in Products, LockActiveProduct(r, p)
        PROVE  SessionTypeOK'
    <3>1. /\ Lock(r, <<"product", p>>)
          /\ toPost' = [toPost EXCEPT ![r] = @ \ {p}]
          /\ UNCHANGED <<data, pc, cmd, rules, decision, work>>
      BY <2>1, <2>7 DEF LockActiveProduct
    <3>2. toPost' \in [Requests -> SUBSET Products] /\ <<"product", p>> \in Row
      BY <1>0, <3>1, RowType DEF SessionTypeOK
    <3>. QED
      BY <1>0, <2>a, <3>1, <3>2 DEF SessionTypeOK
  <2>8. CASE LockOrder(r)
    <3>1. <<"order", cmd[r].order>> \in Row
      BY <2>8, RunningCommand, RowType DEF LockOrder, ReceiveCommand
    <3>2. /\ Lock(r, <<"order", cmd[r].order>>)
          /\ Goto(r, "policy")
          /\ UNCHANGED <<data, cmd, rules, decision, toPost, work>>
      BY <2>1, <2>8 DEF LockOrder
    <3>3. "policy" \in Steps
      BY DEF Steps
    <3>. QED
      BY <1>0, <2>a, <3>1, <3>2, <3>3 DEF SessionTypeOK
  <2>9. CASE InsertReceipt(r)
    <3>1. cmd[r] \in ReceiveCommand
      BY <2>9, RunningCommand DEF InsertReceipt
    <3>2. /\ <<"key", cmd[r].key>> \in Row
          /\ ProductsOf(cmd[r].items) \in SUBSET Products
          /\ "item" \in Steps
      BY <3>1, RowType, ProductsOfType DEF ReceiveCommand, Steps
    <3>3. /\ Lock(r, <<"key", cmd[r].key>>)
          /\ toPost' = [toPost EXCEPT ![r] = ProductsOf(cmd[r].items)]
          /\ Goto(r, "item")
          /\ UNCHANGED <<data, cmd, rules, decision, work>>
      BY <2>1, <2>9 DEF InsertReceipt
    <3>. QED
      BY <1>0, <2>a, <3>2, <3>3 DEF SessionTypeOK
  <2>10. ASSUME NEW p \in Products, InsertItem(r, p) \/ PostMovement(r, p)
         PROVE  SessionTypeOK'
    <3>1. cmd[r].items \in Seq(ReceiptItem)
      BY <2>10, RunningCommand DEF InsertItem, PostMovement, ReceiveCommand
    <3>2. stock[p] + Accepted(cmd[r].items, p) \in Nat
      BY <1>0, <3>1, AcceptedType DEF DataTypeOK
    <3>3. CASE InsertItem(r, p)
      BY <1>0, <2>1, <3>3, RowType DEF SessionTypeOK, InsertItem, Goto, Steps, Lock
    <3>4. CASE PostMovement(r, p)
      <4>1. work' \in [Requests -> [Products -> Nat]]
        BY <1>0, <3>2, <3>4 DEF SessionTypeOK, PostMovement
      <4>2. /\ Lock(r, <<"inventory", p>>)
            /\ toPost' = [toPost EXCEPT ![r] = @ \ {p}]
            /\ Goto(r, "item")
            /\ UNCHANGED <<data, cmd, rules, decision>>
        BY <3>4 DEF PostMovement
      <4>3. toPost' \in [Requests -> SUBSET Products] /\ <<"inventory", p>> \in Row
            /\ "item" \in Steps
        BY <1>0, <4>2, RowType DEF SessionTypeOK, Steps
      <4>. QED
        BY <1>0, <2>a, <4>1, <4>2, <4>3 DEF SessionTypeOK
    <3>. QED
      BY <2>10, <3>3, <3>4
  <2>11. CASE Abort(r) \/ CommitOrder(r) \/ CommitReceipt(r) \/ Maintain(r)
    BY <2>1, <2>11 DEF Abort, CommitOrder, CommitReceipt, Maintain, CancelPurchaseOrder,
       ListProduct, UpdateSupplier, CreateSupplier, RegisterCertificate, RevokeCertificate,
       Configure
  <2>. QED
    BY <2>2, <2>3, <2>4, <2>5, <2>6, <2>7, <2>8, <2>9, <2>10, <2>11
       DEF Step, Proceed, CheckCompliance, CreatePurchaseOrder, CreateGoodsReceipt
<1>. QED
  BY <1>1, <1>2

-----------------------------------------------------------------------------
(***************************************************************************)
(* What a step of a session does to the committed data: nothing, or all    *)
(* that its command promises, under the locks of the rows it changes.      *)
(***************************************************************************)
\* r holds the row, or takes it in the step in which it changes it.
Owns(r, row) == row \in held[r] \/ MayLock(r, row)

Issues(r) ==
    /\ cmd[r] \in IssueCommand
    /\ orders[r] = NoRow
    /\ TermsAccepted(cmd[r].terms)
    /\ \A p \in ProductsOf(cmd[r].terms.items) : listed[p] /\ Owns(r, <<"product", p>>)
    /\ decision[r] \in Promise!Permitted(cmd[r].terms)
    /\ orders' = [orders EXCEPT ![r] = [terms    |-> cmd[r].terms,
                                        decision |-> decision[r],
                                        status   |-> "ISSUED"]]
    /\ UNCHANGED <<receipts, suppliers, certificates, policy, listed, stock,
                   movements, journal, day>>

Receives(r) ==
    LET c == cmd[r]
        o == c.order
    IN  /\ c \in ReceiveCommand
        /\ receipts[r] = NoRow
        /\ ~KeyTaken(c.key) /\ Owns(r, <<"key", c.key>>)
        /\ Open(orders[o]) /\ Owns(r, <<"order", o>>)
        /\ Reconciles(receipts, o, orders[o].terms.items, c.items)
        /\ decision[r] \in Promise!Permitted(orders[o].terms)
        /\ \A p \in Products : Accepted(c.items, p) # 0 => Owns(r, <<"inventory", p>>)
        /\ receipts' = [receipts EXCEPT ![r] = [order |-> o, key |-> c.key, items |-> c.items,
                                                decision |-> decision[r]]]
        /\ orders' = [orders EXCEPT ![o].status = StatusAfter(receipts, o, orders[o], c.items)]
        /\ stock' = [p \in Products |-> stock[p] + Accepted(c.items, p)]
        /\ movements' = movements \cup ReceiptMovements(r, c.items)
        /\ journal' = journal \cup ReceiptEntries(r, orders[o].terms.items, c.items)
        /\ UNCHANGED <<suppliers, certificates, policy, listed, day>>

Cancels(r) ==
    LET o == cmd[r].order
    IN  /\ cmd[r] \in CancelCommand
        /\ Owns(r, <<"order", o>>)
        /\ Cancellable(o)
        /\ orders' = [orders EXCEPT ![o].status = "CANCELLED"]
        /\ UNCHANGED <<receipts, suppliers, certificates, policy, listed, stock,
                       movements, journal, day>>

Lists(r) ==
    LET p == cmd[r].product
    IN  /\ cmd[r] \in ListCommand
        /\ Owns(r, <<"product", p>>)
        /\ cmd[r].active \/ Withdrawable(p)
        /\ listed' = [listed EXCEPT ![p] = cmd[r].active]
        /\ UNCHANGED <<orders, receipts, suppliers, certificates, policy, stock,
                       movements, journal, day>>

Rules(r) ==
    /\ \/ /\ cmd[r] \in SupplierCommand
          /\ Owns(r, <<"supplier", cmd[r].supplier>>)
          /\ suppliers[cmd[r].supplier] # "none"
          /\ suppliers' = [suppliers EXCEPT ![cmd[r].supplier] =
                             IF cmd[r].active THEN "active" ELSE "inactive"]
          /\ UNCHANGED <<certificates, policy>>
       \/ /\ cmd[r] \in EnrollCommand
          /\ suppliers[cmd[r].supplier] = "none"
          /\ cmd[r].certificate # NoCertificate => certificates[cmd[r].certificate] = NoRow
          /\ suppliers' = [suppliers EXCEPT ![cmd[r].supplier] = "active"]
          /\ certificates' = [d \in Certificates |->
                IF d = cmd[r].certificate THEN cmd[r].row ELSE certificates[d]]
          /\ UNCHANGED policy
       \/ /\ cmd[r] \in RegisterCommand
          /\ suppliers[cmd[r].row.supplier] # "none"
          /\ cmd[r].row.from <= cmd[r].row.expiry
          /\ certificates[cmd[r].certificate] = NoRow
          /\ certificates' = [certificates EXCEPT ![cmd[r].certificate] = cmd[r].row]
          /\ UNCHANGED <<suppliers, policy>>
       \/ /\ cmd[r] \in RevokeCommand
          /\ Owns(r, <<"certificate", cmd[r].certificate>>)
          /\ certificates[cmd[r].certificate] # NoRow
          /\ certificates' = [certificates EXCEPT ![cmd[r].certificate].revoked = TRUE]
          /\ UNCHANGED <<suppliers, policy>>
       \/ /\ cmd[r] \in ConfigureCommand
          /\ Owns(r, <<"writing", Config>>)
          /\ policy' = cmd[r].policy
          /\ UNCHANGED <<suppliers, certificates>>
    /\ UNCHANGED <<orders, receipts, listed, stock, movements, journal, day>>

Commits(r) == Issues(r) \/ Receives(r) \/ Cancels(r) \/ Lists(r) \/ Rules(r)

LEMMA CommitOrderEffect ==
    ASSUME IInv, NEW r \in Requests, CommitOrder(r)
    PROVE  Issues(r)
<1>1. pc[r] = "products" /\ toPost[r] = {}
  BY DEF CommitOrder
<1>2. cmd[r] \in IssueCommand /\ cmd[r].op = "issue"
  BY <1>1, RunningCommand
<1>3. TermsOf(r) = cmd[r].terms
  BY <1>2 DEF TermsOf
<1>4. orders[r] = NoRow
  BY <1>1 DEF IInv, SessionInv, NothingWritten
<1>5. TermsAccepted(cmd[r].terms)
  BY <1>1, <1>2 DEF IInv, SessionInv, TermsChecked, Doing
<1>6. \A p \in ProductsOf(cmd[r].terms.items) : listed[p] /\ Owns(r, <<"product", p>>)
  BY <1>1 DEF IInv, SessionInv, ProductsHeld, Owns
<1>7. decision[r] \in Promise!Permitted(cmd[r].terms)
  BY <1>1, <1>3 DEF IInv, SessionInv, ComplianceHeld, Judged
<1>. QED
  BY <1>2, <1>4, <1>5, <1>6, <1>7 DEF CommitOrder, Issues

LEMMA CommitReceiptEffect ==
    ASSUME IInv, NEW r \in Requests, CommitReceipt(r)
    PROVE  Receives(r)
<1>. DEFINE c == cmd[r]
            o == c.order
<1>1. pc[r] = "item" /\ toPost[r] = {}
  BY DEF CommitReceipt
<1>2. c \in ReceiveCommand /\ c.op = "receive"
  BY <1>1, RunningCommand
<1>3. TermsOf(r) = orders[o].terms
  BY <1>2 DEF TermsOf
<1>4. receipts[r] = NoRow
  BY <1>1 DEF IInv, SessionInv, NothingWritten
<1>5. ~KeyTaken(c.key) /\ Owns(r, <<"key", c.key>>)
  BY <1>1 DEF IInv, SessionInv, DeliveryFits, Posting, Owns
<1>6. Open(orders[o]) /\ Owns(r, <<"order", o>>)
  BY <1>1, <1>2 DEF IInv, SessionInv, OrderHeld, Doing, Judged, Owns
<1>7. Reconciles(receipts, o, orders[o].terms.items, c.items)
  BY <1>1 DEF IInv, SessionInv, DeliveryFits, Posting
<1>8. decision[r] \in Promise!Permitted(orders[o].terms)
  BY <1>1, <1>3 DEF IInv, SessionInv, ComplianceHeld, Judged
<1>9. /\ \A p \in Products : <<"inventory", p>> \in held[r] =>
            work[r][p] = stock[p] + Accepted(c.items, p)
      /\ \A p \in ProductsOf(c.items) : Accepted(c.items, p) > 0 => <<"inventory", p>> \in held[r]
  BY <1>1 DEF IInv, SessionInv, BalancesCounted, Posting
<1>10. ASSUME NEW p \in Products
       PROVE  /\ Accepted(c.items, p) # 0 => <<"inventory", p>> \in held[r]
              /\ (IF <<"inventory", p>> \in held[r] THEN work[r][p] ELSE stock[p])
                   = stock[p] + Accepted(c.items, p)
  <2>1. Accepted(c.items, p) \in Nat /\ stock[p] \in Nat
    BY <1>2, AcceptedType DEF ReceiveCommand, IInv, TypeOK, DataTypeOK
  <2>2. p \notin ProductsOf(c.items) => Accepted(c.items, p) = 0
    BY <1>2, AcceptedOfNone DEF ReceiveCommand
  <2>3. Accepted(c.items, p) # 0 => <<"inventory", p>> \in held[r]
    BY <1>9, <2>1, <2>2
  <2>. QED
    BY <1>9, <2>1, <2>3
<1>11. /\ receipts' = [receipts EXCEPT ![r] = [order |-> o, key |-> c.key, items |-> c.items,
                                                decision |-> decision[r]]]
       /\ orders' = [orders EXCEPT ![o].status = StatusAfter(receipts, o, orders[o], c.items)]
       /\ stock' = [p \in Products |->
                       IF <<"inventory", p>> \in held[r] THEN work[r][p] ELSE stock[p]]
       /\ movements' = movements \cup ReceiptMovements(r, c.items)
       /\ journal' = journal \cup ReceiptEntries(r, orders[o].terms.items, c.items)
       /\ UNCHANGED <<suppliers, certificates, policy, listed, day>>
  BY DEF CommitReceipt
<1>12. stock' = [p \in Products |-> stock[p] + Accepted(c.items, p)]
  BY <1>10, <1>11
<1>13. \A p \in Products : Accepted(c.items, p) # 0 => Owns(r, <<"inventory", p>>)
  BY <1>10 DEF Owns
<1>. QED
  BY <1>2, <1>4, <1>5, <1>6, <1>7, <1>8, <1>11, <1>12, <1>13 DEF Receives

LEMMA MaintainEffect ==
    ASSUME IInv, NEW r \in Requests, Maintain(r)
    PROVE  UNCHANGED data \/ Cancels(r) \/ Lists(r) \/ Rules(r)
<1>1. pc[r] = "only" /\ cmd[r] \in Commands
  BY RunningCommand DEF Maintain, CancelPurchaseOrder, ListProduct, UpdateSupplier,
     CreateSupplier, RegisterCertificate, RevokeCertificate, Configure, Only
<1>2. (\E o \in {"rejected", "replayed"} : Fail(r, o)) => UNCHANGED data
  BY DEF Fail
<1>3. SUFFICES ASSUME ~Fail(r, "rejected"), ~Fail(r, "replayed")
               PROVE  Cancels(r) \/ Lists(r) \/ Rules(r)
  BY <1>2
<1>4. CASE CancelPurchaseOrder(r)
  <2>1. cmd[r] \in CancelCommand
    BY <1>1, <1>4, CommandByOp DEF CancelPurchaseOrder, Only
  <2>. QED
    BY <1>3, <1>4, <2>1 DEF CancelPurchaseOrder, Cancels, Owns, OrderForUpdate
<1>5. CASE ListProduct(r)
  <2>1. cmd[r] \in ListCommand
    BY <1>1, <1>5, CommandByOp DEF ListProduct, Only
  <2>. QED
    BY <1>3, <1>5, <2>1 DEF ListProduct, Lists, Owns, ProductForUpdate
<1>6. CASE UpdateSupplier(r)
  <2>1. cmd[r] \in SupplierCommand
    BY <1>1, <1>6, CommandByOp DEF UpdateSupplier, Only
  <2>. QED
    BY <1>3, <1>6, <2>1 DEF UpdateSupplier, Rules, Owns, SupplierForUpdate
<1>7. CASE CreateSupplier(r)
  <2>1. cmd[r] \in EnrollCommand
    BY <1>1, <1>7, CommandByOp DEF CreateSupplier, Only
  <2>. QED
    BY <1>3, <1>7, <2>1 DEF CreateSupplier, Rules
<1>8. CASE RegisterCertificate(r)
  <2>1. cmd[r] \in RegisterCommand
    BY <1>1, <1>8, CommandByOp DEF RegisterCertificate, Only
  <2>. QED
    BY <1>3, <1>8, <2>1 DEF RegisterCertificate, Rules
<1>9. CASE RevokeCertificate(r)
  <2>1. cmd[r] \in RevokeCommand
    BY <1>1, <1>9, CommandByOp DEF RevokeCertificate, Only
  <2>. QED
    BY <1>3, <1>9, <2>1 DEF RevokeCertificate, Rules, Owns, CertificateForUpdate
<1>10. CASE Configure(r)
  <2>1. cmd[r] \in ConfigureCommand
    BY <1>1, <1>10, CommandByOp DEF Configure, Only
  <2>. QED
    BY <1>10, <2>1 DEF Configure, Rules, Owns, ConfigInMode
<1>. QED
  BY <1>4, <1>5, <1>6, <1>7, <1>8, <1>9, <1>10 DEF Maintain

\* A step of a session is nothing to others, or the whole of its command.
LEMMA Effects ==
    ASSUME IInv, NEW r \in Requests, Step(r)
    PROVE  UNCHANGED data \/ Commits(r)
<1>1. CASE Begin(r) \/ Abort(r)
  BY <1>1 DEF Begin, Abort, Fail
<1>2. CASE CheckCompliance(r)
  BY <1>2 DEF CheckCompliance, ReadPolicy, LockSupplier, CheckCertificate, Judge, Fail
<1>3. CASE CreatePurchaseOrder(r)
  BY <1>3, CommitOrderEffect
     DEF CreatePurchaseOrder, CheckTerms, LockActiveProduct, Fail, Commits
<1>4. CASE CreateGoodsReceipt(r)
  BY <1>4, CommitReceiptEffect
     DEF CreateGoodsReceipt, LockOrder, ReconcileItems, InsertReceipt, InsertItem,
         PostMovement, Fail, Commits
<1>5. CASE Maintain(r)
  BY <1>5, MaintainEffect DEF Commits
<1>. QED
  BY <1>1, <1>2, <1>3, <1>4, <1>5 DEF Step, Proceed

-----------------------------------------------------------------------------
(***************************************************************************)
(* The decisions that are permitted, in terms of this module.              *)
(***************************************************************************)
CertificateOf(terms) ==
    IF terms.certificate = NoCertificate THEN NoRow ELSE certificates[terms.certificate]

LEMMA PermittedMeans ==
    ASSUME NEW terms, NEW d
    PROVE  d \in Promise!Permitted(terms) <=>
             /\ \E k \in 1..day : d =
                  [policy |-> policy, supplier |-> terms.supplier,
                   certificate |-> terms.certificate, day |-> k,
                   outcome |-> Outcome(policy, terms.supplier, CertificateOf(terms), k)]
             /\ suppliers[terms.supplier] = "active"
             /\ terms.certificate # NoCertificate =>
                   /\ certificates[terms.certificate] # NoRow
                   /\ certificates[terms.certificate].supplier = terms.supplier
             /\ d.outcome # "BLOCKED"
<1>1. \A pol, s, c, k : Promise!Outcome(pol, s, c, k) = Outcome(pol, s, c, k)
  BY DEF Promise!Outcome, Outcome, Promise!Satisfies, Satisfies, Promise!Valid, Valid
<1>2. \A k : Promise!Judgement(terms, k) =
                [policy |-> policy, supplier |-> terms.supplier,
                 certificate |-> terms.certificate, day |-> k,
                 outcome |-> Outcome(policy, terms.supplier, CertificateOf(terms), k)]
  BY <1>1 DEF Promise!Judgement, CertificateOf
<1>. QED
  BY <1>2 DEF Promise!Permitted, Promise!Owned

LEMMA PermittedType ==
    ASSUME DataTypeOK, NEW terms \in Terms, NEW d \in Promise!Permitted(terms)
    PROVE  d \in Decision
<1>1. PICK k \in 1..day : d =
                  [policy |-> policy, supplier |-> terms.supplier,
                   certificate |-> terms.certificate, day |-> k,
                   outcome |-> Outcome(policy, terms.supplier, CertificateOf(terms), k)]
  BY PermittedMeans
<1>2. k \in Days
  BY ProcurementAssumption DEF DataTypeOK, Days
<1>3. policy \in Policy
  BY DEF DataTypeOK
<1>4. Outcome(policy, terms.supplier, CertificateOf(terms), k) \in {"ACCEPTED", "WARNING", "BLOCKED"}
  BY <1>3, OutcomeType DEF Policy
<1>. QED
  BY <1>1, <1>2, <1>3, <1>4 DEF Decision, Terms

\* A decision that is permitted stays so while its policy, its supplier and its
\* certificate stay as they are, and days pass.
LEMMA PermittedStays ==
    ASSUME NEW terms, NEW d \in Promise!Permitted(terms), day \in Nat, day' \in Nat,
           day <= day', policy' = policy, suppliers'[terms.supplier] = "active",
           terms.certificate # NoCertificate =>
               certificates'[terms.certificate] = certificates[terms.certificate]
    PROVE  d \in Promise!Permitted(terms)'
<1>1. PICK k \in 1..day : d =
                  [policy |-> policy, supplier |-> terms.supplier,
                   certificate |-> terms.certificate, day |-> k,
                   outcome |-> Outcome(policy, terms.supplier, CertificateOf(terms), k)]
  BY PermittedMeans
<1>2. k \in 1..day'
  OBVIOUS
<1>3. \A pol, s, c, n : Promise!Outcome(pol, s, c, n) = Outcome(pol, s, c, n)
  BY DEF Promise!Outcome, Outcome, Promise!Satisfies, Satisfies, Promise!Valid, Valid
<1>4. d = Promise!Judgement(terms, k)'
  BY <1>1, <1>3 DEF Promise!Judgement, CertificateOf
<1>5. Promise!Owned(terms.supplier, terms.certificate)'
  BY PermittedMeans DEF Promise!Owned
<1>6. d.outcome # "BLOCKED"
  BY PermittedMeans
<1>. QED
  BY <1>2, <1>4, <1>5, <1>6 DEF Promise!Permitted

-----------------------------------------------------------------------------
(***************************************************************************)
(* The types of the committed data.                                        *)
(***************************************************************************)
LEMMA StatusAfterIs ==
    ASSUME NEW R, NEW o, NEW order, NEW delivered
    PROVE  /\ Completes(R, o, order.terms.items, delivered) =>
                 StatusAfter(R, o, order, delivered) = "RECEIVED"
           /\ ~Completes(R, o, order.terms.items, delivered) =>
                 StatusAfter(R, o, order, delivered) =
                     IF HasAccepted(delivered) /\ order.status = "ISSUED"
                     THEN "PARTIALLY_RECEIVED" ELSE order.status
<1>. DEFINE all == Completes(R, o, order.terms.items, delivered)
<1>1. all \in BOOLEAN
  BY DEF Completes
<1>. HIDE DEF all
<1>2. CASE all
  BY <1>2 DEF StatusAfter, all
<1>3. CASE ~all
  BY <1>3 DEF StatusAfter, all
<1>. QED
  BY <1>1, <1>2, <1>3 DEF all

\* What a receipt finds and what it leaves, one fact at a time.
LEMMA ReceiveFacts ==
    ASSUME IInv, NEW r \in Requests, Receives(r)
    PROVE  /\ cmd[r].order \in Orders /\ cmd[r].key \in Keys
           /\ cmd[r].items \in Seq(ReceiptItem)
           /\ orders[cmd[r].order] \in OrderRow /\ orders[cmd[r].order] # NoRow
           /\ orders[cmd[r].order].status \in {"ISSUED", "PARTIALLY_RECEIVED"}
           /\ orders[cmd[r].order].terms \in Terms
           /\ orders[cmd[r].order].terms.items \in Seq(OrderItem)
           /\ decision[r] \in Decision
<1>1. cmd[r] \in ReceiveCommand /\ Open(orders[cmd[r].order])
  BY DEF Receives
<1>2. /\ cmd[r].order \in Orders /\ cmd[r].key \in Keys
      /\ cmd[r].items \in Seq(ReceiptItem)
  BY <1>1 DEF ReceiveCommand
<1>3. orders[cmd[r].order] \in OrderRow
  BY <1>1, <1>2 DEF IInv, TypeOK, DataTypeOK, Open
<1>4. orders[cmd[r].order].terms \in Terms /\ orders[cmd[r].order].terms.items \in Seq(OrderItem)
  BY <1>3 DEF OrderRow, Terms
<1>5. decision[r] \in Decision
  <2>1. decision[r] \in Promise!Permitted(orders[cmd[r].order].terms)
    BY DEF Receives
  <2>. QED
    BY <2>1, <1>4, PermittedType DEF IInv, TypeOK
<1>. QED
  BY <1>1, <1>2, <1>3, <1>4, <1>5 DEF Open

\* The receipt and the order after it, and all others as they were.
LEMMA ReceiveLeaves ==
    ASSUME IInv, NEW r \in Requests, Receives(r)
    PROVE  /\ receipts'[r] \in ReceiptRow /\ receipts'[r] # NoRow
           /\ receipts'[r].order = cmd[r].order
           /\ receipts'[r].key = cmd[r].key
           /\ receipts'[r].items = cmd[r].items
           /\ receipts'[r].decision = decision[r]
           /\ \A q \in Requests \ {r} : receipts'[q] = receipts[q]
           /\ receipts' \in [Requests -> ReceiptRow \cup {NoRow}]
           /\ orders'[cmd[r].order] \in OrderRow /\ orders'[cmd[r].order] # NoRow
           /\ orders'[cmd[r].order].terms = orders[cmd[r].order].terms
           /\ orders'[cmd[r].order].decision = orders[cmd[r].order].decision
           /\ orders'[cmd[r].order].status =
                  StatusAfter(receipts, cmd[r].order, orders[cmd[r].order], cmd[r].items)
           /\ \A o \in Orders \ {cmd[r].order} : orders'[o] = orders[o]
           /\ orders' \in [Orders -> OrderRow \cup {NoRow}]
<1>. DEFINE o == cmd[r].order
            receipt == [order |-> o, key |-> cmd[r].key, items |-> cmd[r].items,
                        decision |-> decision[r]]
            status == StatusAfter(receipts, o, orders[o], cmd[r].items)
<1>1. /\ o \in Orders /\ cmd[r].key \in Keys /\ cmd[r].items \in Seq(ReceiptItem)
      /\ orders[o] \in OrderRow /\ decision[r] \in Decision
  BY ReceiveFacts
<1>2. receipt \in ReceiptRow /\ receipt # NoRow
  BY <1>1, ProcurementAssumption DEF ReceiptRow
<1>3. receipts' = [receipts EXCEPT ![r] = receipt]
  BY DEF Receives
<1>4. receipts \in [Requests -> ReceiptRow \cup {NoRow}] /\ orders \in [Orders -> OrderRow \cup {NoRow}]
  BY DEF IInv, TypeOK, DataTypeOK
<1>5. receipts'[r] = receipt /\ \A q \in Requests \ {r} : receipts'[q] = receipts[q]
  BY <1>3, <1>4
<1>6. receipts' \in [Requests -> ReceiptRow \cup {NoRow}]
  <2>. HIDE DEF receipt
  <2>. QED
    BY <1>2, <1>3, <1>4
<1>7. orders' = [orders EXCEPT ![o].status = status]
  BY DEF Receives
<1>8. status \in {"ISSUED", "PARTIALLY_RECEIVED", "RECEIVED", "CANCELLED"}
  BY <1>1, StatusAfterIs DEF OrderRow
<1>9. orders'[o] = [orders[o] EXCEPT !.status = status] /\ \A x \in Orders \ {o} : orders'[x] = orders[x]
  <2>. HIDE DEF status, o
  <2>. QED
    BY <1>1, <1>4, <1>7
<1>10. /\ orders'[o] \in OrderRow
       /\ orders'[o].terms = orders[o].terms
       /\ orders'[o].decision = orders[o].decision
       /\ orders'[o].status = status
  <2>. HIDE DEF status, o
  <2>. QED
    BY <1>1, <1>8, <1>9 DEF OrderRow
<1>11. orders'[o] # NoRow
  BY <1>10, ProcurementAssumption
<1>12. orders' \in [Orders -> OrderRow \cup {NoRow}]
  <2>. HIDE DEF status, o
  <2>. QED
    BY <1>4, <1>7, <1>9, <1>10
<1>. QED
  BY <1>2, <1>5, <1>6, <1>9, <1>10, <1>11, <1>12

LEMMA CancelLeaves ==
    ASSUME IInv, NEW r \in Requests, Cancels(r)
    PROVE  /\ cmd[r].order \in Orders /\ orders[cmd[r].order] \in OrderRow
           /\ orders[cmd[r].order].status = "ISSUED"
           /\ \A p \in Products : Received(receipts, cmd[r].order, p) = 0
           /\ orders'[cmd[r].order] \in OrderRow /\ orders'[cmd[r].order] # NoRow
           /\ orders'[cmd[r].order].terms = orders[cmd[r].order].terms
           /\ orders'[cmd[r].order].decision = orders[cmd[r].order].decision
           /\ orders'[cmd[r].order].status = "CANCELLED"
           /\ \A o \in Orders \ {cmd[r].order} : orders'[o] = orders[o]
           /\ orders' \in [Orders -> OrderRow \cup {NoRow}]
<1>. DEFINE o == cmd[r].order
<1>1. /\ o \in Orders /\ orders[o] # NoRow /\ orders[o].status = "ISSUED"
      /\ \A p \in Products : Received(receipts, o, p) = 0
  BY DEF Cancels, Cancellable, CancelCommand
<1>2. orders \in [Orders -> OrderRow \cup {NoRow}]
  BY DEF IInv, TypeOK, DataTypeOK
<1>3. orders[o] \in OrderRow
  BY <1>1, <1>2
<1>4. orders' = [orders EXCEPT ![o].status = "CANCELLED"]
  BY DEF Cancels
<1>5. orders'[o] = [orders[o] EXCEPT !.status = "CANCELLED"] /\ \A x \in Orders \ {o} : orders'[x] = orders[x]
  <2>. HIDE DEF o
  <2>. QED
    BY <1>1, <1>2, <1>4
<1>6. /\ orders'[o] \in OrderRow
      /\ orders'[o].terms = orders[o].terms
      /\ orders'[o].decision = orders[o].decision
      /\ orders'[o].status = "CANCELLED"
  <2>. HIDE DEF o
  <2>. QED
    BY <1>3, <1>5 DEF OrderRow
<1>7. orders'[o] # NoRow
  BY <1>6, ProcurementAssumption
<1>8. orders' \in [Orders -> OrderRow \cup {NoRow}]
  <2>. HIDE DEF o
  <2>. QED
    BY <1>2, <1>4, <1>5, <1>6
<1>. QED
  BY <1>1, <1>3, <1>5, <1>6, <1>7, <1>8

LEMMA IssueLeaves ==
    ASSUME IInv, NEW r \in Requests, Issues(r)
    PROVE  /\ cmd[r].terms \in Terms /\ r \in Orders /\ orders[r] = NoRow
           /\ orders'[r] \in OrderRow /\ orders'[r] # NoRow
           /\ orders'[r].terms = cmd[r].terms
           /\ orders'[r].decision = decision[r]
           /\ orders'[r].status = "ISSUED"
           /\ \A o \in Orders \ {r} : orders'[o] = orders[o]
           /\ orders' \in [Orders -> OrderRow \cup {NoRow}]
<1>. DEFINE row == [terms |-> cmd[r].terms, decision |-> decision[r], status |-> "ISSUED"]
<1>1. cmd[r].terms \in Terms
  BY DEF Issues, IssueCommand
<1>2. decision[r] \in Decision
  <2>1. decision[r] \in Promise!Permitted(cmd[r].terms)
    BY DEF Issues
  <2>. QED
    BY <2>1, <1>1, PermittedType DEF IInv, TypeOK
<1>3. row \in OrderRow
  BY <1>1, <1>2 DEF OrderRow
<1>4. orders \in [Orders -> OrderRow \cup {NoRow}] /\ r \in Orders
  BY DEF IInv, TypeOK, DataTypeOK, Orders
<1>5. orders' = [orders EXCEPT ![r] = row] /\ orders[r] = NoRow
  BY DEF Issues
<1>6. orders'[r] = row /\ \A o \in Orders \ {r} : orders'[o] = orders[o]
  BY <1>4, <1>5
<1>7. orders' \in [Orders -> OrderRow \cup {NoRow}]
  <2>. HIDE DEF row
  <2>. QED
    BY <1>3, <1>4, <1>5
<1>8. row # NoRow
  BY <1>3, ProcurementAssumption
<1>. QED
  BY <1>1, <1>3, <1>4, <1>5, <1>6, <1>7, <1>8

LEMMA ReceiptWritesType ==
    ASSUME IInv, NEW r \in Requests, Receives(r)
    PROVE  /\ movements' \subseteq MovementRow /\ journal' \subseteq EntryRow
           /\ stock' \in [Products -> Nat]
<1>. DEFINE items == cmd[r].items
            ordered == orders[cmd[r].order].terms.items
<1>1. items \in Seq(ReceiptItem) /\ ordered \in Seq(OrderItem)
  BY ReceiveFacts
<1>2. \A i \in DOMAIN items : items[i] \in ReceiptItem /\ items[i].product \in ProductsOf(ordered)
  <2>1. \A i \in DOMAIN items : items[i] \in ReceiptItem
    BY <1>1, Interval
  <2>2. \A i \in DOMAIN items : items[i].product \in ProductsOf(ordered)
    BY DEF Receives, Reconciles
  <2>. QED
    BY <2>1, <2>2
<1>3. ReceiptMovements(r, items) \subseteq MovementRow
  <2>1. \A i \in DOMAIN items : items[i].product \in Products /\ items[i].accepted \in Nat
    BY <1>2 DEF ReceiptItem
  <2>. HIDE DEF items
  <2>. QED
    BY <2>1 DEF ReceiptMovements, ReceiptMovement, MovementRow
<1>4. ReceiptEntries(r, ordered, items) \subseteq EntryRow
  <2>1. InboundValue(ordered, items) \in Nat
    BY <1>1, <1>2, InboundValueType
  <2>2. ASSUME NEW v \in Nat PROVE ReceiptLines(v) \in Seq(Line)
    <3>1. Debit(Inventory, v) \in Line /\ Credit(Payable, v) \in Line
      BY DEF Debit, Credit, Line, Accounts
    <3>. QED
      BY <3>1 DEF ReceiptLines
  <2>. HIDE DEF items, ordered
  <2>. QED
    BY <2>1, <2>2 DEF ReceiptEntries, EntryRow
<1>5. \A p \in Products : stock[p] + Accepted(items, p) \in Nat
  BY <1>1, AcceptedType DEF IInv, TypeOK, DataTypeOK
<1>. QED
  BY <1>3, <1>4, <1>5 DEF Receives, IInv, TypeOK, DataTypeOK

LEMMA RulesType ==
    ASSUME IInv, NEW r \in Requests, Rules(r)
    PROVE  /\ suppliers' \in [Suppliers -> SupplierState]
           /\ certificates' \in [Certificates -> CertificateRow \cup {NoRow}]
           /\ policy' \in Policy
<1>1. DataTypeOK
  BY DEF IInv, TypeOK
<1>2. CASE cmd[r] \in SupplierCommand /\ UNCHANGED <<certificates, policy>> /\
           suppliers' = [suppliers EXCEPT ![cmd[r].supplier] =
                             IF cmd[r].active THEN "active" ELSE "inactive"]
  BY <1>1, <1>2 DEF DataTypeOK, SupplierState
<1>3. CASE cmd[r] \in EnrollCommand /\ UNCHANGED policy /\
           suppliers' = [suppliers EXCEPT ![cmd[r].supplier] = "active"] /\
           certificates' = [d \in Certificates |->
                IF d = cmd[r].certificate THEN cmd[r].row ELSE certificates[d]]
  BY <1>1, <1>3 DEF DataTypeOK, SupplierState, EnrollCommand
<1>4. CASE cmd[r] \in RegisterCommand /\ UNCHANGED <<suppliers, policy>> /\
           certificates' = [certificates EXCEPT ![cmd[r].certificate] = cmd[r].row]
  BY <1>1, <1>4 DEF DataTypeOK, RegisterCommand
<1>5. CASE cmd[r] \in RevokeCommand /\ UNCHANGED <<suppliers, policy>> /\
           certificates[cmd[r].certificate] # NoRow /\
           certificates' = [certificates EXCEPT ![cmd[r].certificate].revoked = TRUE]
  <2>. DEFINE c == cmd[r].certificate
  <2>1. c \in Certificates /\ certificates[c] \in CertificateRow
    BY <1>1, <1>5 DEF DataTypeOK, RevokeCommand
  <2>2. [certificates[c] EXCEPT !.revoked = TRUE] \in CertificateRow
    BY <2>1 DEF CertificateRow
  <2>3. certificates' = [certificates EXCEPT ![c] = [certificates[c] EXCEPT !.revoked = TRUE]]
    BY <1>5
  <2>. HIDE DEF c
  <2>. QED
    BY <1>1, <1>5, <2>1, <2>2, <2>3 DEF DataTypeOK
<1>6. CASE cmd[r] \in ConfigureCommand /\ UNCHANGED <<suppliers, certificates>> /\
           policy' = cmd[r].policy
  BY <1>1, <1>6 DEF DataTypeOK, ConfigureCommand
<1>. QED
  BY <1>2, <1>3, <1>4, <1>5, <1>6 DEF Rules

LEMMA DataTypeStep ==
    ASSUME IInv, NEW r \in Requests, Commits(r)
    PROVE  DataTypeOK'
<1>1. DataTypeOK
  BY DEF IInv, TypeOK
<1>2. CASE Issues(r)
  <2>1. orders' \in [Orders -> OrderRow \cup {NoRow}]
    BY <1>2, IssueLeaves
  <2>. QED
    BY <1>1, <1>2, <2>1 DEF DataTypeOK, Issues
<1>3. CASE Receives(r)
  <2>1. /\ orders' \in [Orders -> OrderRow \cup {NoRow}]
        /\ receipts' \in [Requests -> ReceiptRow \cup {NoRow}]
    BY <1>3, ReceiveLeaves
  <2>2. /\ movements' \subseteq MovementRow /\ journal' \subseteq EntryRow
        /\ stock' \in [Products -> Nat]
    BY <1>3, ReceiptWritesType
  <2>3. UNCHANGED <<suppliers, certificates, policy, listed, day>>
    BY <1>3 DEF Receives
  <2>. QED
    BY <1>1, <2>1, <2>2, <2>3 DEF DataTypeOK
<1>4. CASE Cancels(r)
  <2>1. orders' \in [Orders -> OrderRow \cup {NoRow}]
    BY <1>4, CancelLeaves
  <2>. QED
    BY <1>1, <1>4, <2>1 DEF DataTypeOK, Cancels
<1>5. CASE Lists(r)
  BY <1>1, <1>5 DEF DataTypeOK, Lists, ListCommand
<1>6. CASE Rules(r)
  <2>1. /\ suppliers' \in [Suppliers -> SupplierState]
        /\ certificates' \in [Certificates -> CertificateRow \cup {NoRow}]
        /\ policy' \in Policy
    BY <1>6, RulesType
  <2>. QED
    BY <1>1, <1>6, <2>1 DEF DataTypeOK, Rules
<1>. QED
  BY <1>2, <1>3, <1>4, <1>5, <1>6 DEF Commits

-----------------------------------------------------------------------------
(***************************************************************************)
(* Between sessions.                                                       *)
(***************************************************************************)
LEMMA EndFrame ==
    ASSUME TypeOK, NEW r \in Requests, NEW o, End(r, o), NEW q \in Requests, q # r
    PROVE  /\ pc'[q] = pc[q] /\ cmd'[q] = cmd[q] /\ held'[q] = held[q]
           /\ rules'[q] = rules[q] /\ decision'[q] = decision[q]
           /\ toPost'[q] = toPost[q] /\ work'[q] = work[q]
  BY DEF TypeOK, SessionTypeOK, End, Goto

\* Everything a session does to itself, it does to itself only.
LEMMA OthersUntouched ==
    ASSUME TypeOK, NEW r \in Requests, Step(r), NEW q \in Requests, q # r
    PROVE  /\ pc'[q] = pc[q] /\ cmd'[q] = cmd[q] /\ held'[q] = held[q]
           /\ rules'[q] = rules[q] /\ decision'[q] = decision[q]
           /\ toPost'[q] = toPost[q] /\ work'[q] = work[q]
<1>1. CASE \E o : End(r, o)
  BY <1>1, EndFrame
<1>2. CASE ~\E o : End(r, o)
  <2>0. \A o : ~End(r, o) /\ ~Fail(r, o)
    BY <1>2 DEF Fail
  <2>. USE DEF TypeOK, SessionTypeOK, Goto, Lock
  <2>1. CASE Begin(r)
    BY <2>1 DEF Begin
  <2>2. CASE ReadPolicy(r) \/ LockSupplier(r)
    BY <2>0, <2>2 DEF ReadPolicy, LockSupplier
  <2>3. CASE CheckCertificate(r)
    BY <2>0, <2>3 DEF CheckCertificate, Judge
  <2>4. CASE CheckTerms(r) \/ LockOrder(r) \/ ReconcileItems(r) \/ InsertReceipt(r)
    BY <2>0, <2>4 DEF CheckTerms, LockOrder, ReconcileItems, InsertReceipt
  <2>5. CASE \E p \in Products : LockActiveProduct(r, p)
    BY <2>0, <2>5 DEF LockActiveProduct
  <2>6. CASE \E p \in Products : InsertItem(r, p)
    BY <2>6 DEF InsertItem
  <2>7. CASE \E p \in Products : PostMovement(r, p)
    <3>1. PICK p \in Products : PostMovement(r, p)
      BY <2>7
    <3>2. work'[q] = work[q]
      BY <3>1 DEF PostMovement
    <3>. QED
      BY <3>1, <3>2 DEF PostMovement
  <2>8. CASE Abort(r) \/ CommitOrder(r) \/ CommitReceipt(r) \/ Maintain(r)
    BY <2>0, <2>8 DEF Abort, CommitOrder, CommitReceipt, Maintain, CancelPurchaseOrder,
       ListProduct, UpdateSupplier, CreateSupplier, RegisterCertificate, RevokeCertificate,
       Configure
  <2>. QED
    BY <2>1, <2>2, <2>3, <2>4, <2>5, <2>6, <2>7, <2>8
       DEF Step, Proceed, CheckCompliance, CreatePurchaseOrder, CreateGoodsReceipt
<1>. QED
  BY <1>1, <1>2

\* A step takes only locks that no other session excludes, and keeps those it has
\* or gives them all back.
LEMMA LocksTaken ==
    ASSUME TypeOK, NEW r \in Requests, Step(r), NEW row \in held'[r]
    PROVE  row \in held[r] \/ MayLock(r, row)
<1>0. /\ \A o : ~End(r, o) /\ ~Fail(r, o)
      /\ \A x : Lock(r, x) => held'[r] = held[r] \cup {x}
      /\ UNCHANGED held => held'[r] = held[r]
  BY DEF TypeOK, SessionTypeOK, End, Fail, Lock
<1>1. CASE Begin(r) \/ CheckTerms(r) \/ ReconcileItems(r)
  BY <1>0, <1>1 DEF Begin, CheckTerms, ReconcileItems
<1>2. CASE ReadPolicy(r) \/ LockSupplier(r)
  BY <1>0, <1>2 DEF ReadPolicy, ConfigInMode, LockSupplier, SupplierForUpdate
<1>3. CASE CheckCertificate(r)
  <2>. DEFINE d == TermsOf(r).certificate
              certs == {<<"certificate", c>> : c \in {d} \ {NoCertificate}}
  <2>1. /\ \E c : Judge(r, c)
        /\ d # NoCertificate => MayLock(r, <<"certificate", d>>)
    BY <1>0, <1>3 DEF CheckCertificate, CertificateForUpdate
  <2>2. held' = [held EXCEPT ![r] = @ \cup certs]
    BY <1>0, <2>1 DEF Judge
  <2>3. \A x \in certs : x = <<"certificate", d>> /\ d # NoCertificate
    OBVIOUS
  <2>. HIDE DEF certs
  <2>4. held'[r] = held[r] \cup certs
    BY <2>2 DEF TypeOK, SessionTypeOK
  <2>. QED
    BY <2>1, <2>3, <2>4
<1>4. CASE LockOrder(r) \/ InsertReceipt(r)
  BY <1>0, <1>4 DEF LockOrder, OrderForUpdate, InsertReceipt
<1>5. CASE \E p \in Products : LockActiveProduct(r, p) \/ InsertItem(r, p) \/ PostMovement(r, p)
  BY <1>0, <1>5 DEF LockActiveProduct, ProductForUpdate, InsertItem, PostMovement,
                    InventoryForUpdate
<1>6. CASE Abort(r) \/ CommitOrder(r) \/ CommitReceipt(r) \/ Maintain(r)
  BY <1>0, <1>6 DEF Abort, CommitOrder, CommitReceipt, Maintain, CancelPurchaseOrder,
       ListProduct, UpdateSupplier, CreateSupplier, RegisterCertificate, RevokeCertificate,
       Configure
<1>. QED
  BY <1>1, <1>2, <1>3, <1>4, <1>5, <1>6
     DEF Step, Proceed, CheckCompliance, CreatePurchaseOrder, CreateGoodsReceipt

LEMMA RivalsSymmetric ==
    ASSUME NEW a, NEW b, a \in Rivals(b), b \in Row
    PROVE  b \in Rivals(a)
  BY DEF Rivals, Row

LEMMA TypeStep ==
    ASSUME IInv, NEW r \in Requests, Step(r)
    PROVE  TypeOK'
<1>1. SessionTypeOK'
  BY SessionTypeStep
<1>2. UNCHANGED data => DataTypeOK'
  BY DEF IInv, TypeOK, DataTypeOK, data
<1>. QED
  BY <1>1, <1>2, Effects, DataTypeStep DEF TypeOK

LEMMA LocksExclusiveStep ==
    ASSUME IInv, NEW r \in Requests, Step(r)
    PROVE  LocksExclusive'
<1>. SUFFICES ASSUME NEW s \in Requests, NEW q \in Requests, s # q,
                     NEW a \in held'[s], NEW b \in held'[q], a \in Rivals(b)
              PROVE  FALSE
  BY DEF LocksExclusive, Rivals
<1>0. TypeOK /\ TypeOK'
  BY TypeStep DEF IInv
<1>1. a \in Row /\ b \in Row /\ b \in Rivals(a)
  BY <1>0, RivalsSymmetric DEF TypeOK, SessionTypeOK
<1>2. CASE s # r /\ q # r
  BY <1>0, <1>2, OthersUntouched DEF IInv, LocksExclusive
<1>3. CASE s = r
  <2>1. b \in held[q]
    BY <1>0, <1>3, OthersUntouched
  <2>2. a \notin held[r]
    BY <1>3, <2>1 DEF IInv, LocksExclusive
  <2>3. MayLock(r, a)
    BY <1>0, <1>3, <2>2, LocksTaken
  <2>. QED
    BY <1>1, <1>3, <2>1, <2>3 DEF MayLock
<1>4. CASE q = r
  <2>1. a \in held[s]
    BY <1>0, <1>4, OthersUntouched
  <2>2. b \notin held[r]
    BY <1>4, <2>1 DEF IInv, LocksExclusive
  <2>3. MayLock(r, b)
    BY <1>0, <1>4, <2>2, LocksTaken
  <2>. QED
    BY <1>4, <2>1, <2>3 DEF MayLock
<1>. QED
  BY <1>2, <1>3, <1>4

\* What a session owns, no other holds.
LEMMA OneOwner ==
    ASSUME IInv, NEW r \in Requests, NEW q \in Requests, q # r, NEW x,
           NEW kind \in {"order", "supplier", "certificate", "key", "product", "inventory"},
           Owns(r, <<kind, x>>)
    PROVE  <<kind, x>> \notin held[q]
<1>1. <<kind, x>> \in Rivals(<<kind, x>>)
  BY DEF Rivals
<1>. QED
  BY <1>1 DEF IInv, LocksExclusive, Owns, MayLock

LEMMA WriterAlone ==
    ASSUME IInv, NEW r \in Requests, NEW q \in Requests, q # r, Owns(r, <<"writing", Config>>)
    PROVE  <<"reading", Config>> \notin held[q]
<1>1. <<"reading", Config>> \in Rivals(<<"writing", Config>>)
  BY DEF Rivals
<1>. QED
  BY <1>1 DEF IInv, LocksExclusive, Owns, MayLock

\* What the locks of a session guarantee it while another commits.
GuaranteedTo(q) ==
    /\ \A o \in Orders : orders[o] # NoRow =>
          orders'[o] # NoRow /\ orders'[o].terms = orders[o].terms
    /\ \A o \in Orders : <<"order", o>> \in held[q] =>
          /\ orders[o] # NoRow => orders'[o] = orders[o]
          /\ ReceiptsOf(receipts', o) = ReceiptsOf(receipts, o)
          /\ \A x \in ReceiptsOf(receipts, o) : receipts'[x] = receipts[x]
    /\ <<"reading", Config>> \in held[q] => policy' = policy
    /\ \A s \in Suppliers : <<"supplier", s>> \in held[q] /\ suppliers[s] = "active" =>
          suppliers'[s] = "active"
    /\ \A c \in Certificates : <<"certificate", c>> \in held[q] /\ certificates[c] # NoRow =>
          certificates'[c] = certificates[c]
    /\ \A p \in Products : <<"product", p>> \in held[q] /\ listed[p] => listed'[p]
    /\ \A p \in Products : <<"inventory", p>> \in held[q] => stock'[p] = stock[p]
    /\ \A k \in Keys : <<"key", k>> \in held[q] /\ ~KeyTaken(k) => ~KeyTaken(k)'
    /\ receipts[q] = NoRow => receipts'[q] = NoRow
    /\ orders[q] = NoRow => orders'[q] = NoRow

LEMMA NothingGuaranteed ==
    ASSUME NEW q \in Requests, UNCHANGED data
    PROVE  GuaranteedTo(q)
  BY DEF GuaranteedTo, data, ReceiptsOf, KeyTaken

LEMMA Guarantees ==
    ASSUME IInv, NEW r \in Requests, Step(r), NEW q \in Requests, q # r
    PROVE  GuaranteedTo(q)
<1>0. TypeOK
  BY DEF IInv
<1>1. CASE UNCHANGED data
  BY <1>1, NothingGuaranteed
<1>2. CASE Issues(r)
  <2>1. orders[r] = NoRow /\ \A o \in Orders \ {r} : orders'[o] = orders[o]
    BY <1>2, IssueLeaves
  <2>2. q \in Orders
    BY DEF Orders
  <2>3. UNCHANGED <<receipts, suppliers, certificates, policy, listed, stock, movements, journal, day>>
    BY <1>2 DEF Issues
  <2>. QED
    BY <2>1, <2>2, <2>3 DEF GuaranteedTo, ReceiptsOf, KeyTaken
<1>3. CASE Receives(r)
  <2>. DEFINE o == cmd[r].order
  <2>1. /\ receipts'[r].order = o /\ receipts'[r].key = cmd[r].key
        /\ \A x \in Requests \ {r} : receipts'[x] = receipts[x]
        /\ orders'[o] # NoRow /\ orders'[o].terms = orders[o].terms
        /\ \A x \in Orders \ {o} : orders'[x] = orders[x]
    BY <1>3, ReceiveLeaves
  <2>2. /\ receipts[r] = NoRow /\ Owns(r, <<"key", cmd[r].key>>) /\ Owns(r, <<"order", o>>)
        /\ \A p \in Products : Accepted(cmd[r].items, p) # 0 => Owns(r, <<"inventory", p>>)
        /\ stock' = [p \in Products |-> stock[p] + Accepted(cmd[r].items, p)]
        /\ UNCHANGED <<suppliers, certificates, policy, listed, day>>
        /\ orders[o] # NoRow
    BY <1>3 DEF Receives, Open
  <2>3. ASSUME NEW p \in Products, <<"inventory", p>> \in held[q] PROVE stock'[p] = stock[p]
    <3>1. ~Owns(r, <<"inventory", p>>)
      BY <2>3, OneOwner
    <3>2. Accepted(cmd[r].items, p) = 0
      BY <2>2, <3>1
    <3>3. stock[p] \in Nat
      BY <1>0 DEF TypeOK, DataTypeOK
    <3>. QED
      BY <2>2, <3>2, <3>3
  <2>4. ASSUME NEW k \in Keys, <<"key", k>> \in held[q], ~KeyTaken(k) PROVE ~KeyTaken(k)'
    <3>1. cmd[r].key # k
      BY <2>2, <2>4, OneOwner
    <3>. QED
      BY <2>1, <2>4, <3>1 DEF KeyTaken
  <2>5. ASSUME NEW x \in Orders, <<"order", x>> \in held[q]
        PROVE  /\ orders'[x] = orders[x]
               /\ ReceiptsOf(receipts', x) = ReceiptsOf(receipts, x)
               /\ \A y \in ReceiptsOf(receipts, x) : receipts'[y] = receipts[y]
    <3>1. x # o
      BY <2>2, <2>5, OneOwner
    <3>. QED
      BY <2>1, <2>2, <3>1 DEF ReceiptsOf
  <2>6. \A x \in Orders : orders[x] # NoRow =>
          orders'[x] # NoRow /\ orders'[x].terms = orders[x].terms
    BY <2>1
  <2>7. (receipts[q] = NoRow => receipts'[q] = NoRow) /\ (orders[q] = NoRow => orders'[q] = NoRow)
    BY <2>1, <2>2 DEF Orders
  <2>. QED
    BY <2>2, <2>3, <2>4, <2>5, <2>6, <2>7 DEF GuaranteedTo
<1>4. CASE Cancels(r)
  <2>. DEFINE o == cmd[r].order
  <2>1. /\ orders[o] # NoRow /\ orders'[o] # NoRow /\ orders'[o].terms = orders[o].terms
        /\ \A x \in Orders \ {o} : orders'[x] = orders[x]
        /\ Owns(r, <<"order", o>>)
    BY <1>4, CancelLeaves DEF Cancels, Cancellable
  <2>2. <<"order", o>> \notin held[q]
    BY <2>1, OneOwner
  <2>3. UNCHANGED <<receipts, suppliers, certificates, policy, listed, stock, movements, journal, day>>
    BY <1>4 DEF Cancels
  <2>. HIDE DEF o
  <2>. QED
    BY <2>1, <2>2, <2>3 DEF GuaranteedTo, ReceiptsOf, KeyTaken, Orders
<1>5. CASE Lists(r)
  <2>. DEFINE p == cmd[r].product
  <2>1. <<"product", p>> \notin held[q]
    BY <1>5, OneOwner DEF Lists
  <2>2. /\ listed' = [listed EXCEPT ![p] = cmd[r].active]
        /\ UNCHANGED <<orders, receipts, suppliers, certificates, policy, stock, movements, journal, day>>
    BY <1>5 DEF Lists
  <2>3. \A x \in Products \ {p} : listed'[x] = listed[x]
    BY <1>0, <2>2 DEF TypeOK, DataTypeOK
  <2>. HIDE DEF p
  <2>. QED
    BY <2>1, <2>2, <2>3 DEF GuaranteedTo, ReceiptsOf, KeyTaken
<1>6. CASE Rules(r)
  <2>1. \A s \in Suppliers : <<"supplier", s>> \in held[q] /\ suppliers[s] = "active" =>
          suppliers'[s] = "active"
    BY <1>0, <1>6, OneOwner DEF Rules, TypeOK, DataTypeOK
  <2>2. ASSUME NEW c \in Certificates, <<"certificate", c>> \in held[q], certificates[c] # NoRow
        PROVE  certificates'[c] = certificates[c]
    <3>1. ~Owns(r, <<"certificate", c>>)
      BY <2>2, OneOwner
    <3>2. certificates \in [Certificates -> CertificateRow \cup {NoRow}]
      BY <1>0 DEF TypeOK, DataTypeOK
    <3>3. CASE UNCHANGED certificates
      BY <3>3
    <3>4. CASE /\ cmd[r] \in EnrollCommand
               /\ cmd[r].certificate # NoCertificate => certificates[cmd[r].certificate] = NoRow
               /\ certificates' = [d \in Certificates |->
                     IF d = cmd[r].certificate THEN cmd[r].row ELSE certificates[d]]
      BY <2>2, <3>4, ProcurementAssumption
    <3>5. CASE /\ certificates[cmd[r].certificate] = NoRow
               /\ certificates' = [certificates EXCEPT ![cmd[r].certificate] = cmd[r].row]
      BY <2>2, <3>2, <3>5
    <3>6. CASE /\ Owns(r, <<"certificate", cmd[r].certificate>>)
               /\ certificates' = [certificates EXCEPT ![cmd[r].certificate].revoked = TRUE]
      <4>. DEFINE d == cmd[r].certificate
      <4>1. c # d
        BY <3>1, <3>6
      <4>2. certificates' = [certificates EXCEPT ![d].revoked = TRUE]
        BY <3>6
      <4>. HIDE DEF d
      <4>. QED
        BY <3>2, <4>1, <4>2
    <3>. QED
      BY <1>6, <3>3, <3>4, <3>5, <3>6 DEF Rules
  <2>3. <<"reading", Config>> \in held[q] => policy' = policy
    BY <1>6, WriterAlone DEF Rules
  <2>4. UNCHANGED <<orders, receipts, listed, stock, movements, journal, day>>
    BY <1>6 DEF Rules
  <2>. QED
    BY <2>1, <2>2, <2>3, <2>4 DEF GuaranteedTo, ReceiptsOf, KeyTaken
<1>. QED
  BY <1>1, <1>2, <1>3, <1>4, <1>5, <1>6, Effects DEF Commits

\* The terms of a session that holds its order, or carries them, stay.
LEMMA TermsStay ==
    ASSUME IInv, NEW q \in Requests, GuaranteedTo(q), cmd'[q] = cmd[q],
           pc[q] \in Comply \cup Judged
    PROVE  TermsOf(q)' = TermsOf(q)
<1>1. cmd[q].op = "issue" \/ (cmd[q].op = "receive" /\ cmd[q] \in ReceiveCommand)
  BY RunningCommand DEF Comply, Judged
<1>2. CASE cmd[q].op = "issue"
  BY <1>2 DEF TermsOf
<1>3. CASE cmd[q].op = "receive" /\ cmd[q] \in ReceiveCommand
  <2>1. cmd[q].order \in Orders /\ orders[cmd[q].order] # NoRow
    BY <1>3 DEF IInv, SessionInv, OrderHeld, Doing, Open, ReceiveCommand
  <2>2. orders'[cmd[q].order].terms = orders[cmd[q].order].terms
    BY <2>1 DEF GuaranteedTo
  <2>. QED
    BY <1>3, <2>2 DEF TermsOf
<1>. QED
  BY <1>1, <1>2, <1>3

\* What reconciles goes on reconciling while no receipt on the order is added.
LEMMA ReconcilesSame ==
    ASSUME NEW R, NEW Q, NEW o, IsFiniteSet(ReceiptsOf(R, o)),
           ReceiptsOf(Q, o) = ReceiptsOf(R, o),
           \A q \in ReceiptsOf(R, o) : Q[q] = R[q],
           NEW ordered, NEW delivered, Reconciles(R, o, ordered, delivered)
    PROVE  Reconciles(Q, o, ordered, delivered)
<1>1. \A p : Received(Q, o, p) = Received(R, o, p)
  BY ReceivedSame
<1>2. \A p : Outstanding(Q, o, ordered, p) = Outstanding(R, o, ordered, p)
  BY <1>1 DEF Outstanding
<1>. QED
  BY <1>2 DEF Reconciles

LEMMA FiniteReceipts ==
    ASSUME IInv, NEW o
    PROVE  IsFiniteSet(ReceiptsOf(receipts, o)) /\ \A p : Received(receipts, o, p) \in Nat
  BY ReceivedType DEF IInv, DocumentsAgree, Posted, TypeOK, DataTypeOK

\* A session that waits keeps what it relies on.
LEMMA WaiterKeeps ==
    ASSUME IInv, TypeOK', NEW q \in Requests, GuaranteedTo(q), day <= day',
           pc'[q] = pc[q], cmd'[q] = cmd[q], held'[q] = held[q], rules'[q] = rules[q],
           decision'[q] = decision[q], toPost'[q] = toPost[q], work'[q] = work[q]
    PROVE  SessionInv(q)'
<1>0. SessionInv(q) /\ TypeOK
  BY DEF IInv
<1>1. StepFitsCommand(q)'
  BY <1>0 DEF SessionInv, StepFitsCommand
<1>2. LocksSoFar(q)'
  BY <1>0 DEF SessionInv, LocksSoFar
<1>3. TermsChecked(q)'
  BY <1>0 DEF SessionInv, TermsChecked, Doing
<1>4. ASSUME Doing(q, "receive", Comply \cup Judged)
      PROVE  /\ cmd[q].order \in Orders /\ cmd[q] \in ReceiveCommand
             /\ <<"order", cmd[q].order>> \in held[q]
             /\ orders'[cmd[q].order] = orders[cmd[q].order]
             /\ Open(orders[cmd[q].order])
  <2>1. /\ <<"order", cmd[q].order>> \in held[q]
        /\ Open(orders[cmd[q].order])
    BY <1>0, <1>4 DEF SessionInv, OrderHeld
  <2>2. cmd[q] \in ReceiveCommand
    BY <1>4, RunningCommand DEF Doing, Comply, Judged
  <2>3. cmd[q].order \in Orders
    BY <2>2 DEF ReceiveCommand
  <2>. QED
    BY <2>1, <2>2, <2>3 DEF GuaranteedTo, Open
<1>5. OrderHeld(q)'
  BY <1>4 DEF OrderHeld, Doing
<1>6. ComplianceHeld(q)'
  <2>1. ASSUME pc[q] \in PastPolicy
        PROVE  <<"reading", Config>> \in held'[q] /\ rules'[q] = policy' /\ policy' = policy
    BY <1>0, <2>1 DEF SessionInv, ComplianceHeld, GuaranteedTo
  <2>2. ASSUME pc[q] \in {"certificate"} \cup Judged
        PROVE  /\ TermsOf(q)' = TermsOf(q)
               /\ TermsOf(q).supplier \in Suppliers
               /\ <<"supplier", TermsOf(q).supplier>> \in held[q]
               /\ suppliers'[TermsOf(q).supplier] = "active"
    <3>1. TermsOf(q)' = TermsOf(q) /\ TermsOf(q) \in Terms
      BY <2>2, TermsStay, TermsType DEF Comply
    <3>2. /\ <<"supplier", TermsOf(q).supplier>> \in held[q]
          /\ suppliers[TermsOf(q).supplier] = "active"
      BY <1>0, <2>2 DEF SessionInv, ComplianceHeld
    <3>3. TermsOf(q).supplier \in Suppliers
      BY <3>1 DEF Terms
    <3>. QED
      BY <3>1, <3>2, <3>3 DEF GuaranteedTo
  <2>3. ASSUME pc[q] \in Judged
        PROVE  /\ TermsOf(q).certificate # NoCertificate =>
                    <<"certificate", TermsOf(q).certificate>> \in held[q]
               /\ decision[q] \in Promise!Permitted(TermsOf(q))'
    <3>. DEFINE terms == TermsOf(q)
    <3>1. /\ terms.certificate # NoCertificate => <<"certificate", terms.certificate>> \in held[q]
          /\ decision[q] \in Promise!Permitted(terms)
      BY <1>0, <2>3 DEF SessionInv, ComplianceHeld
    <3>2. TermsOf(q)' = terms /\ terms \in Terms /\ suppliers'[terms.supplier] = "active"
      BY <2>2, <2>3, TermsType
    <3>3. terms.certificate # NoCertificate =>
             terms.certificate \in Certificates /\ certificates[terms.certificate] # NoRow
      BY <3>1, <3>2, PermittedMeans DEF Terms
    <3>4. terms.certificate # NoCertificate =>
             certificates'[terms.certificate] = certificates[terms.certificate]
      BY <3>1, <3>3 DEF GuaranteedTo
    <3>5. policy' = policy
      BY <2>1, <2>3 DEF Judged, PastPolicy
    <3>6. day \in Nat /\ day' \in Nat
      BY <1>0, ProcurementAssumption DEF TypeOK, DataTypeOK, Days
    <3>7. \A t : t = terms => decision[q] \in Promise!Permitted(t)'
      <4>1. SUFFICES ASSUME NEW CONSTANT t, t = terms
                     PROVE  decision[q] \in Promise!Permitted(t)'
        OBVIOUS
      <4>2. PICK d : d = decision[q]
        OBVIOUS
      <4>3. d \in Promise!Permitted(t)
        BY <3>1, <4>1, <4>2
      <4>. QED
        BY <3>2, <3>4, <3>5, <3>6, <4>1, <4>2, <4>3, PermittedStays
    <3>. QED
      BY <3>1, <3>2, <3>7
  <2>. QED
    BY <2>1, <2>2, <2>3 DEF ComplianceHeld
<1>7. ProductsHeld(q)'
  <2>1. SUFFICES ASSUME pc[q] = "products",
                        NEW p \in ProductsOf(cmd[q].terms.items) \ toPost[q]
                 PROVE  <<"product", p>> \in held[q] /\ listed'[p]
    BY DEF ProductsHeld
  <2>2. <<"product", p>> \in held[q] /\ listed[p]
    BY <1>0, <2>1 DEF SessionInv, ProductsHeld
  <2>3. cmd[q].terms.items \in Seq(OrderItem)
    BY <2>1, RunningCommand DEF IssueCommand, Terms
  <2>4. p \in Products
    BY <2>1, <2>3, ProductsOfType
  <2>. QED
    BY <2>2, <2>4 DEF GuaranteedTo
<1>8. DeliveryFits(q)'
  <2>1. ASSUME pc[q] \in {"insert"} \cup Posting
        PROVE  Reconciles(receipts', cmd[q].order, orders'[cmd[q].order].terms.items, cmd[q].items)
    <3>1. cmd[q].op = "receive" /\ pc[q] \in Judged
      BY <2>1, RunningCommand DEF Posting, Judged
    <3>2. /\ cmd[q].order \in Orders
          /\ <<"order", cmd[q].order>> \in held[q]
          /\ orders'[cmd[q].order] = orders[cmd[q].order]
      BY <1>4, <3>1 DEF Doing
    <3>3. Reconciles(receipts, cmd[q].order, orders[cmd[q].order].terms.items, cmd[q].items)
      BY <1>0, <2>1 DEF SessionInv, DeliveryFits
    <3>4. /\ IsFiniteSet(ReceiptsOf(receipts, cmd[q].order))
          /\ ReceiptsOf(receipts', cmd[q].order) = ReceiptsOf(receipts, cmd[q].order)
          /\ \A x \in ReceiptsOf(receipts, cmd[q].order) : receipts'[x] = receipts[x]
      BY <3>2, FiniteReceipts DEF GuaranteedTo
    <3>5. Reconciles(receipts', cmd[q].order, orders[cmd[q].order].terms.items, cmd[q].items)
      BY <3>3, <3>4, ReconcilesSame
    <3>. QED
      BY <3>2, <3>5
  <2>2. ASSUME pc[q] \in Posting
        PROVE  <<"key", cmd[q].key>> \in held[q] /\ ~KeyTaken(cmd[q].key)'
    <3>1. <<"key", cmd[q].key>> \in held[q] /\ ~KeyTaken(cmd[q].key)
      BY <1>0, <2>2 DEF SessionInv, DeliveryFits
    <3>2. cmd[q].key \in Keys
      BY <2>2, RunningCommand DEF Posting, ReceiveCommand
    <3>3. \A k \in Keys : <<"key", k>> \in held[q] /\ ~KeyTaken(k) => ~KeyTaken(k)'
      BY DEF GuaranteedTo
    <3>. QED
      BY <3>1, <3>2, <3>3 DEF KeyTaken
  <2>. QED
    BY <2>1, <2>2 DEF DeliveryFits
<1>9. BalancesCounted(q)'
  BY <1>0 DEF SessionInv, BalancesCounted, GuaranteedTo
<1>10. NothingWritten(q)'
  BY <1>0 DEF SessionInv, NothingWritten, GuaranteedTo
<1>. QED
  BY <1>1, <1>2, <1>3, <1>5, <1>6, <1>7, <1>8, <1>9, <1>10 DEF SessionInv

LEMMA DayStands ==
    ASSUME IInv, NEW r \in Requests, Step(r)
    PROVE  day' = day
  BY Effects DEF data, Commits, Issues, Receives, Cancels, Lists, Rules

LEMMA OthersKeep ==
    ASSUME IInv, NEW r \in Requests, Step(r), NEW q \in Requests, q # r
    PROVE  SessionInv(q)'
<1>1. /\ pc'[q] = pc[q] /\ cmd'[q] = cmd[q] /\ held'[q] = held[q]
      /\ rules'[q] = rules[q] /\ decision'[q] = decision[q]
      /\ toPost'[q] = toPost[q] /\ work'[q] = work[q]
  BY OthersUntouched DEF IInv
<1>2. day <= day'
  BY DayStands, ProcurementAssumption DEF IInv, TypeOK, DataTypeOK, Days
<1>. QED
  BY <1>1, <1>2, TypeStep, Guarantees, WaiterKeeps

LEMMA MidnightKeeps ==
    ASSUME IInv, Midnight
    PROVE  TypeOK' /\ LocksExclusive' /\ \A q \in Requests : SessionInv(q)'
<1>1. day \in Nat /\ day' = day + 1 /\ day' \in Days
  BY ProcurementAssumption DEF Midnight, IInv, TypeOK, DataTypeOK, Days
<1>2. TypeOK'
  BY <1>1 DEF Midnight, IInv, TypeOK, DataTypeOK, SessionTypeOK, session
<1>3. LocksExclusive'
  BY DEF Midnight, IInv, LocksExclusive, session
<1>4. ASSUME NEW q \in Requests PROVE SessionInv(q)'
  <2>1. GuaranteedTo(q)
    BY DEF Midnight, GuaranteedTo, ReceiptsOf, KeyTaken
  <2>2. /\ pc'[q] = pc[q] /\ cmd'[q] = cmd[q] /\ held'[q] = held[q]
        /\ rules'[q] = rules[q] /\ decision'[q] = decision[q]
        /\ toPost'[q] = toPost[q] /\ work'[q] = work[q]
    BY DEF Midnight, session
  <2>3. day <= day'
    BY <1>1
  <2>. QED
    BY <1>2, <2>1, <2>2, <2>3, WaiterKeeps
<1>. QED
  BY <1>2, <1>3, <1>4

-----------------------------------------------------------------------------
(***************************************************************************)
(* The session that moves.                                                 *)
(***************************************************************************)
\* A session that ends relies on nothing any more.
LEMMA EndKeeps ==
    ASSUME TypeOK, NEW r \in Requests, NEW o \in Outcomes, End(r, o),
           o # "done" => receipts'[r] = NoRow /\ orders'[r] = NoRow
    PROVE  SessionInv(r)'
<1>1. pc'[r] = o /\ cmd'[r] = NoCommand /\ held'[r] = {}
  BY DEF TypeOK, SessionTypeOK, End, Goto
<1>2. /\ pc'[r] \notin Steps /\ pc'[r] \notin Comply \cup Judged /\ pc'[r] \notin PastPolicy
      /\ pc'[r] \notin Posting /\ pc'[r] \notin {"check", "products", "order", "reconcile",
                                               "insert", "item", "balance", "only", "certificate"}
  BY <1>1 DEF Outcomes, Steps, Comply, Judged, PastPolicy, Posting
<1>3. StepFitsCommand(r)'
  BY <1>2 DEF StepFitsCommand, Comply
<1>4. LocksSoFar(r)'
  BY <1>1 DEF LocksSoFar
<1>5. TermsChecked(r)' /\ OrderHeld(r)'
  BY <1>2 DEF TermsChecked, OrderHeld, Doing
<1>6. ComplianceHeld(r)' /\ ProductsHeld(r)'
  BY <1>2 DEF ComplianceHeld, ProductsHeld
<1>7. DeliveryFits(r)' /\ BalancesCounted(r)'
  BY <1>2 DEF DeliveryFits, BalancesCounted
<1>8. NothingWritten(r)'
  BY <1>1 DEF NothingWritten
<1>. QED
  BY <1>3, <1>4, <1>5, <1>6, <1>7, <1>8 DEF SessionInv

LEMMA FailKeeps ==
    ASSUME IInv, NEW r \in Requests, pc[r] # "done", NEW o \in Outcomes, Fail(r, o)
    PROVE  SessionInv(r)'
<1>1. receipts'[r] = NoRow /\ orders'[r] = NoRow
  BY DEF IInv, SessionInv, NothingWritten, Fail, data
<1>. QED
  BY <1>1, EndKeeps DEF IInv, Fail

LEMMA BeginKeeps ==
    ASSUME IInv, NEW r \in Requests, Begin(r)
    PROVE  SessionInv(r)'
<1>0. SessionInv(r) /\ TypeOK /\ pc[r] = "idle"
  BY DEF IInv, Begin
<1>1. PICK c \in Commands : cmd'[r] = c /\ pc'[r] = FirstStep(c) /\ held'[r] = held[r]
                            /\ toPost'[r] = toPost[r]
  BY <1>0 DEF Begin, Goto, TypeOK, SessionTypeOK
<1>2. held[r] = {}
  BY <1>0 DEF SessionInv, LocksSoFar, Comply, Judged
<1>3. /\ c.op = "issue" => pc'[r] = "check"
      /\ c.op = "receive" => pc'[r] = "order"
      /\ c.op \notin {"issue", "receive"} => pc'[r] = "only"
  BY <1>1 DEF FirstStep
<1>4. StepFitsCommand(r)'
  BY <1>1, <1>3 DEF StepFitsCommand, Comply
<1>5. LocksSoFar(r)'
  BY <1>1, <1>2 DEF LocksSoFar
<1>6. pc'[r] \notin Comply \cup Judged \cup PastPolicy \cup Posting \cup {"certificate", "insert", "products"}
  BY <1>3 DEF Comply, Judged, PastPolicy, Posting
<1>7. TermsChecked(r)' /\ OrderHeld(r)' /\ ComplianceHeld(r)' /\ ProductsHeld(r)'
  BY <1>6 DEF TermsChecked, OrderHeld, Doing, ComplianceHeld, ProductsHeld
<1>8. DeliveryFits(r)' /\ BalancesCounted(r)'
  BY <1>6 DEF DeliveryFits, BalancesCounted
<1>9. NothingWritten(r)'
  BY <1>0 DEF Begin, SessionInv, NothingWritten, data
<1>. QED
  BY <1>4, <1>5, <1>7, <1>8, <1>9 DEF SessionInv

LEMMA PermittedSame ==
    ASSUME UNCHANGED data, NEW terms
    PROVE  Promise!Permitted(terms)' = Promise!Permitted(terms)
<1>1. \A pol, s, c, n : Promise!Outcome(pol, s, c, n)' = Promise!Outcome(pol, s, c, n)
  OBVIOUS
<1>. QED
  BY DEF data, Promise!Permitted, Promise!Judgement, Promise!Owned

\* What a session that goes on to its next statement takes along.
LEMMA Carried ==
    ASSUME IInv, NEW r \in Requests, UNCHANGED data, cmd'[r] = cmd[r], pc[r] # "done",
           held[r] \subseteq held'[r]
    PROVE  /\ pc[r] \in Comply \cup {"products"} => TermsChecked(r)'
           /\ pc[r] \in Comply \cup Judged => OrderHeld(r)'
           /\ pc[r] \in PastPolicy /\ rules'[r] = rules[r] =>
                 <<"reading", Config>> \in held'[r] /\ rules'[r] = policy'
           /\ pc[r] \in {"certificate"} \cup Judged =>
                 /\ TermsOf(r)' = TermsOf(r)
                 /\ <<"supplier", TermsOf(r).supplier>> \in held'[r]
                 /\ suppliers'[TermsOf(r).supplier] = "active"
           /\ pc[r] \in Judged /\ rules'[r] = rules[r] /\ decision'[r] = decision[r]
                 => ComplianceHeld(r)'
           /\ pc[r] \in {"insert"} \cup Posting =>
                 Reconciles(receipts, cmd[r].order, orders[cmd[r].order].terms.items, cmd[r].items)'
           /\ NothingWritten(r)'
<1>0. SessionInv(r)
  BY DEF IInv
<1>1. pc[r] \in Comply \cup {"products"} => TermsChecked(r)'
  BY <1>0 DEF SessionInv, TermsChecked, Doing
<1>2. pc[r] \in Comply \cup Judged => OrderHeld(r)'
  BY <1>0 DEF SessionInv, OrderHeld, Doing, data
<1>3. pc[r] \in PastPolicy /\ rules'[r] = rules[r] =>
                 <<"reading", Config>> \in held'[r] /\ rules'[r] = policy'
  BY <1>0 DEF SessionInv, ComplianceHeld, data
<1>4. TermsOf(r)' = TermsOf(r)
  BY DEF TermsOf, data
<1>5. pc[r] \in {"certificate"} \cup Judged =>
                 /\ <<"supplier", TermsOf(r).supplier>> \in held'[r]
                 /\ suppliers'[TermsOf(r).supplier] = "active"
  BY <1>0 DEF SessionInv, ComplianceHeld, data
<1>6. ASSUME pc[r] \in Judged, rules'[r] = rules[r], decision'[r] = decision[r]
      PROVE  ComplianceHeld(r)'
  <2>1. Promise!Permitted(TermsOf(r))' = Promise!Permitted(TermsOf(r))
    BY <1>4, PermittedSame
  <2>2. /\ TermsOf(r).certificate # NoCertificate =>
              <<"certificate", TermsOf(r).certificate>> \in held'[r]
        /\ decision'[r] \in Promise!Permitted(TermsOf(r))
    BY <1>0, <1>6 DEF SessionInv, ComplianceHeld
  <2>3. pc[r] \in PastPolicy
    BY <1>6 DEF Judged, PastPolicy
  <2>. QED
    BY <1>3, <1>4, <1>5, <1>6, <2>1, <2>2, <2>3 DEF ComplianceHeld
<1>7. pc[r] \in {"insert"} \cup Posting =>
        Reconciles(receipts, cmd[r].order, orders[cmd[r].order].terms.items, cmd[r].items)'
  BY <1>0 DEF SessionInv, DeliveryFits, data
<1>8. NothingWritten(r)'
  BY <1>0 DEF SessionInv, NothingWritten, data
<1>. QED
  BY <1>1, <1>2, <1>3, <1>4, <1>5, <1>6, <1>7, <1>8

LEMMA CheckTermsKeeps ==
    ASSUME IInv, NEW r \in Requests, CheckTerms(r)
    PROVE  SessionInv(r)'
<1>0. SessionInv(r) /\ TypeOK /\ pc[r] = "check"
  BY DEF IInv, CheckTerms
<1>1. CASE Fail(r, "rejected")
  BY <1>0, <1>1, FailKeeps DEF Outcomes
<1>2. CASE ~Fail(r, "rejected")
  <2>1. /\ TermsAccepted(cmd[r].terms) /\ UNCHANGED <<data, cmd, held>>
        /\ pc'[r] = "policy"
    BY <1>0, <1>2 DEF CheckTerms, Goto, TypeOK, SessionTypeOK
  <2>2. held'[r] = {}
    BY <1>0, <2>1 DEF SessionInv, LocksSoFar, Comply, Judged
  <2>3. cmd[r] \in Commands /\ cmd[r].op = "issue"
    BY <1>0, RunningCommand
  <2>4. StepFitsCommand(r)'
    BY <2>1, <2>3 DEF StepFitsCommand, Comply
  <2>5. LocksSoFar(r)'
    BY <2>2 DEF LocksSoFar
  <2>6. TermsChecked(r)' /\ OrderHeld(r)'
    BY <2>1, <2>3 DEF TermsChecked, OrderHeld, Doing
  <2>7. ComplianceHeld(r)' /\ ProductsHeld(r)' /\ DeliveryFits(r)' /\ BalancesCounted(r)'
    BY <2>1 DEF ComplianceHeld, ProductsHeld, DeliveryFits, BalancesCounted,
                PastPolicy, Judged, Posting
  <2>8. NothingWritten(r)'
    BY <1>0, <2>1, Carried
  <2>. QED
    BY <2>4, <2>5, <2>6, <2>7, <2>8 DEF SessionInv
<1>. QED
  BY <1>1, <1>2

LEMMA LockOrderKeeps ==
    ASSUME IInv, NEW r \in Requests, LockOrder(r)
    PROVE  SessionInv(r)'
<1>0. SessionInv(r) /\ TypeOK /\ pc[r] = "order"
  BY DEF IInv, LockOrder
<1>1. CASE Fail(r, "rejected") \/ Fail(r, "replayed")
  BY <1>0, <1>1, FailKeeps DEF Outcomes
<1>2. CASE ~Fail(r, "rejected") /\ ~Fail(r, "replayed")
  <2>1. /\ Open(orders[cmd[r].order]) /\ UNCHANGED <<data, cmd>>
        /\ pc'[r] = "policy" /\ held'[r] = held[r] \cup {<<"order", cmd[r].order>>}
    BY <1>0, <1>2 DEF LockOrder, Goto, Lock, TypeOK, SessionTypeOK
  <2>2. held[r] = {}
    BY <1>0, <2>1 DEF SessionInv, LocksSoFar, Comply, Judged
  <2>3. cmd[r] \in Commands /\ cmd[r].op = "receive"
    BY <1>0, RunningCommand
  <2>4. StepFitsCommand(r)'
    BY <2>1, <2>3 DEF StepFitsCommand, Comply
  <2>5. LocksSoFar(r)'
    BY <2>1, <2>2 DEF LocksSoFar, Comply, Judged, Posting
  <2>6. TermsChecked(r)' /\ OrderHeld(r)'
    BY <2>1, <2>3 DEF TermsChecked, OrderHeld, Doing, data
  <2>7. ComplianceHeld(r)' /\ ProductsHeld(r)' /\ DeliveryFits(r)' /\ BalancesCounted(r)'
    BY <2>1 DEF ComplianceHeld, ProductsHeld, DeliveryFits, BalancesCounted,
                PastPolicy, Judged, Posting
  <2>8. NothingWritten(r)'
    BY <1>0, <2>1, Carried
  <2>. QED
    BY <2>4, <2>5, <2>6, <2>7, <2>8 DEF SessionInv
<1>. QED
  BY <1>1, <1>2

LEMMA ReadPolicyKeeps ==
    ASSUME IInv, NEW r \in Requests, ReadPolicy(r)
    PROVE  SessionInv(r)'
<1>0. SessionInv(r) /\ TypeOK /\ pc[r] = "policy"
  BY DEF IInv, ReadPolicy
<1>1. /\ UNCHANGED <<data, cmd>> /\ pc'[r] = "supplier" /\ rules'[r] = policy
      /\ held'[r] = held[r] \cup {<<"reading", Config>>}
  BY <1>0 DEF ReadPolicy, Goto, Lock, TypeOK, SessionTypeOK
<1>2. \A row \in held[r] : row[1] = "order"
  BY <1>0 DEF SessionInv, LocksSoFar
<1>3. cmd[r] \in Commands /\ cmd[r].op \in {"issue", "receive"}
  BY <1>0, RunningCommand DEF Comply
<1>4. StepFitsCommand(r)'
  BY <1>1, <1>3 DEF StepFitsCommand, Comply
<1>5. LocksSoFar(r)'
  BY <1>1, <1>2 DEF LocksSoFar, Comply, Judged, Posting
<1>6. TermsChecked(r)' /\ OrderHeld(r)' /\ NothingWritten(r)'
  BY <1>0, <1>1, Carried DEF Comply
<1>7. ComplianceHeld(r)'
  BY <1>1 DEF ComplianceHeld, Judged, data
<1>8. ProductsHeld(r)' /\ DeliveryFits(r)' /\ BalancesCounted(r)'
  BY <1>1 DEF ProductsHeld, DeliveryFits, BalancesCounted, Posting
<1>. QED
  BY <1>4, <1>5, <1>6, <1>7, <1>8 DEF SessionInv

LEMMA LockSupplierKeeps ==
    ASSUME IInv, NEW r \in Requests, LockSupplier(r)
    PROVE  SessionInv(r)'
<1>0. SessionInv(r) /\ TypeOK /\ pc[r] = "supplier"
  BY DEF IInv, LockSupplier
<1>1. CASE Fail(r, "rejected")
  BY <1>0, <1>1, FailKeeps DEF Outcomes
<1>2. CASE ~Fail(r, "rejected")
  <2>. DEFINE s == TermsOf(r).supplier
  <2>1. /\ suppliers[s] = "active" /\ UNCHANGED <<data, cmd, rules>>
        /\ pc'[r] = "certificate" /\ held'[r] = held[r] \cup {<<"supplier", s>>}
    BY <1>0, <1>2 DEF LockSupplier, Goto, Lock, TypeOK, SessionTypeOK
  <2>2. \A row \in held[r] : row[1] \in {"order", "reading"}
    BY <1>0 DEF SessionInv, LocksSoFar
  <2>3. cmd[r] \in Commands /\ cmd[r].op \in {"issue", "receive"}
    BY <1>0, RunningCommand DEF Comply
  <2>4. StepFitsCommand(r)'
    BY <2>1, <2>3 DEF StepFitsCommand, Comply
  <2>5. LocksSoFar(r)'
    BY <2>1, <2>2 DEF LocksSoFar, Comply, Judged, Posting
  <2>6. /\ TermsChecked(r)' /\ OrderHeld(r)' /\ NothingWritten(r)'
        /\ <<"reading", Config>> \in held'[r] /\ rules'[r] = policy'
    BY <1>0, <2>1, Carried DEF Comply, PastPolicy
  <2>7. TermsOf(r)' = s' \/ TermsOf(r)' = TermsOf(r)
    BY <2>1 DEF TermsOf, data
  <2>8. ComplianceHeld(r)'
    <3>1. TermsOf(r)' = TermsOf(r)
      BY <2>1 DEF TermsOf, data
    <3>. QED
      BY <2>1, <2>6, <3>1 DEF ComplianceHeld, Judged, data
  <2>9. ProductsHeld(r)' /\ DeliveryFits(r)' /\ BalancesCounted(r)'
    BY <2>1 DEF ProductsHeld, DeliveryFits, BalancesCounted, Posting
  <2>. QED
    BY <2>4, <2>5, <2>6, <2>8, <2>9 DEF SessionInv
<1>. QED
  BY <1>1, <1>2

\* The decision taken under the locks is one the promise permits.
LEMMA JudgementPermitted ==
    ASSUME IInv, NEW r \in Requests, pc[r] = "certificate",
           TermsOf(r).certificate # NoCertificate =>
               /\ certificates[TermsOf(r).certificate] # NoRow
               /\ certificates[TermsOf(r).certificate].supplier = TermsOf(r).supplier,
           Judgement(r, CertificateOf(TermsOf(r))).outcome # "BLOCKED"
    PROVE  Judgement(r, CertificateOf(TermsOf(r))) \in Promise!Permitted(TermsOf(r))
<1>. DEFINE terms == TermsOf(r)
<1>1. rules[r] = policy /\ suppliers[terms.supplier] = "active"
  BY DEF IInv, SessionInv, ComplianceHeld, PastPolicy
<1>2. day \in 1..day
  BY ProcurementAssumption DEF IInv, TypeOK, DataTypeOK, Days
<1>3. Judgement(r, CertificateOf(terms)) =
        [policy |-> policy, supplier |-> terms.supplier,
         certificate |-> terms.certificate, day |-> day,
         outcome |-> Outcome(policy, terms.supplier, CertificateOf(terms), day)]
  BY <1>1 DEF Judgement
<1>. QED
  BY <1>1, <1>2, <1>3, PermittedMeans

LEMMA CheckCertificateKeeps ==
    ASSUME IInv, NEW r \in Requests, CheckCertificate(r)
    PROVE  SessionInv(r)'
<1>0. SessionInv(r) /\ TypeOK /\ pc[r] = "certificate"
  BY DEF IInv, CheckCertificate
<1>1. CASE Fail(r, "rejected")
  BY <1>0, <1>1, FailKeeps DEF Outcomes
<1>2. CASE ~Fail(r, "rejected")
  <2>. DEFINE terms == TermsOf(r)
              judged == Judgement(r, CertificateOf(terms))
              certs == {<<"certificate", c>> : c \in {terms.certificate} \ {NoCertificate}}
              next == IF cmd[r].op = "issue" THEN ProductsOf(cmd[r].terms.items) ELSE {}
  <2>1. /\ terms.certificate # NoCertificate =>
               /\ certificates[terms.certificate] # NoRow
               /\ certificates[terms.certificate].supplier = terms.supplier
        /\ Judge(r, CertificateOf(terms))
    BY <1>2 DEF CheckCertificate, CertificateOf
  <2>2. /\ judged.outcome # "BLOCKED"
        /\ decision' = [decision EXCEPT ![r] = judged]
        /\ toPost' = [toPost EXCEPT ![r] = next]
        /\ held' = [held EXCEPT ![r] = @ \cup certs]
        /\ Goto(r, IF cmd[r].op = "issue" THEN "products" ELSE "reconcile")
        /\ UNCHANGED <<data, cmd, rules, work>>
    BY <1>2, <2>1 DEF Judge
  <2>3. judged \in Promise!Permitted(terms)
    BY <1>0, <2>1, <2>2, JudgementPermitted
  <2>4. /\ \A row \in certs : row[1] = "certificate"
        /\ terms.certificate # NoCertificate => <<"certificate", terms.certificate>> \in certs
    OBVIOUS
  <2>. HIDE DEF judged, certs, next, terms
  <2>5. /\ decision'[r] = judged /\ toPost'[r] = next /\ held'[r] = held[r] \cup certs
        /\ pc'[r] = IF cmd[r].op = "issue" THEN "products" ELSE "reconcile"
        /\ cmd'[r] = cmd[r] /\ rules'[r] = rules[r]
    BY <1>0, <2>2 DEF Goto, TypeOK, SessionTypeOK
  <2>6. \A row \in held[r] : row[1] \in {"order", "reading", "supplier"}
    BY <1>0 DEF SessionInv, LocksSoFar
  <2>7. cmd[r] \in Commands /\ cmd[r].op \in {"issue", "receive"}
    BY <1>0, RunningCommand DEF Comply
  <2>8. StepFitsCommand(r)'
    BY <2>5, <2>7 DEF StepFitsCommand, Comply
  <2>9. LocksSoFar(r)'
    <3>1. \A row \in held'[r] : row[1] \in {"order", "reading", "supplier", "certificate"}
      BY <2>4, <2>5, <2>6
    <3>2. pc'[r] \in {"reconcile", "products"}
      BY <2>5
    <3>. QED
      BY <3>1, <3>2 DEF LocksSoFar, Comply, Judged, Posting
  <2>10. /\ TermsChecked(r)' /\ OrderHeld(r)' /\ NothingWritten(r)'
         /\ <<"reading", Config>> \in held'[r] /\ rules'[r] = policy'
         /\ TermsOf(r)' = terms
         /\ <<"supplier", terms.supplier>> \in held'[r]
         /\ suppliers'[terms.supplier] = "active"
    BY <1>0, <2>2, <2>5, Carried DEF Comply, PastPolicy, terms
  <2>11. ComplianceHeld(r)'
    <3>1. Promise!Permitted(terms)' = Promise!Permitted(terms)
      <4>1. terms' = terms
        BY <2>10 DEF terms
      <4>. QED
        BY <2>2, <4>1, PermittedSame
    <3>2. Promise!Permitted(TermsOf(r))' = Promise!Permitted(terms)
      BY <2>10, <3>1 DEF terms
    <3>3. decision'[r] \in Promise!Permitted(TermsOf(r))'
      BY <2>3, <2>5, <3>2
    <3>4. terms.certificate # NoCertificate => <<"certificate", terms.certificate>> \in held'[r]
      BY <2>4, <2>5
    <3>. QED
      BY <2>10, <3>3, <3>4 DEF ComplianceHeld
  <2>12. ProductsHeld(r)'
    <3>1. pc'[r] = "products" => ProductsOf(cmd[r].terms.items) \ toPost'[r] = {}
      BY <2>5 DEF next
    <3>. QED
      BY <2>5, <3>1 DEF ProductsHeld
  <2>13. DeliveryFits(r)' /\ BalancesCounted(r)'
    BY <2>5 DEF DeliveryFits, BalancesCounted, Posting
  <2>. QED
    BY <2>8, <2>9, <2>10, <2>11, <2>12, <2>13 DEF SessionInv
<1>. QED
  BY <1>1, <1>2

LEMMA LockActiveProductKeeps ==
    ASSUME IInv, NEW r \in Requests, NEW p, LockActiveProduct(r, p)
    PROVE  SessionInv(r)'
<1>0. SessionInv(r) /\ TypeOK /\ pc[r] = "products"
  BY DEF IInv, LockActiveProduct
<1>1. CASE Fail(r, "rejected")
  BY <1>0, <1>1, FailKeeps DEF Outcomes
<1>2. CASE ~Fail(r, "rejected")
  <2>1. /\ listed[p] /\ UNCHANGED <<data, cmd, rules, decision>> /\ pc'[r] = "products"
        /\ held'[r] = held[r] \cup {<<"product", p>>} /\ toPost'[r] = toPost[r] \ {p}
    BY <1>0, <1>2 DEF LockActiveProduct, Lock, TypeOK, SessionTypeOK
  <2>2. /\ p \in Nat /\ toPost[r] \subseteq Nat
        /\ \A x \in toPost[r] : p <= x
    BY <1>0, NextType, ProcurementAssumption
       DEF LockActiveProduct, NextProduct, TypeOK, SessionTypeOK
  <2>3. \A row \in held[r] :
            /\ row[1] \in {"order", "reading", "supplier", "certificate", "product"}
            /\ row[1] \in {"product", "inventory"} => \A x \in toPost[r] : row[2] < x
    BY <1>0 DEF SessionInv, LocksSoFar
  <2>4. cmd[r] \in Commands /\ cmd[r].op = "issue"
    BY <1>0, RunningCommand
  <2>5. StepFitsCommand(r)'
    BY <2>1, <2>4 DEF StepFitsCommand, Comply
  <2>6. \A x \in toPost'[r] : p < x
    BY <2>1, <2>2
  <2>7. LocksSoFar(r)'
    BY <2>1, <2>3, <2>6 DEF LocksSoFar, Comply, Judged, Posting
  <2>8. TermsChecked(r)' /\ OrderHeld(r)' /\ NothingWritten(r)' /\ ComplianceHeld(r)'
    BY <1>0, <2>1, Carried DEF Comply, Judged
  <2>9. ProductsHeld(r)'
    BY <1>0, <2>1 DEF ProductsHeld, SessionInv, data
  <2>10. DeliveryFits(r)' /\ BalancesCounted(r)'
    BY <2>1 DEF DeliveryFits, BalancesCounted, Posting
  <2>. QED
    BY <2>5, <2>7, <2>8, <2>9, <2>10 DEF SessionInv
<1>. QED
  BY <1>1, <1>2

LEMMA ReconcileKeeps ==
    ASSUME IInv, NEW r \in Requests, ReconcileItems(r)
    PROVE  SessionInv(r)'
<1>0. SessionInv(r) /\ TypeOK /\ pc[r] = "reconcile"
  BY DEF IInv, ReconcileItems
<1>1. CASE Fail(r, "rejected")
  BY <1>0, <1>1, FailKeeps DEF Outcomes
<1>2. CASE ~Fail(r, "rejected")
  <2>1. /\ Reconciles(receipts, cmd[r].order, orders[cmd[r].order].terms.items, cmd[r].items)
        /\ UNCHANGED <<data, cmd, held, rules, decision, toPost>> /\ pc'[r] = "insert"
    BY <1>0, <1>2 DEF ReconcileItems, Goto, TypeOK, SessionTypeOK
  <2>2. \A row \in held[r] : row[1] \in {"order", "reading", "supplier", "certificate"}
    BY <1>0 DEF SessionInv, LocksSoFar
  <2>3. cmd[r] \in Commands /\ cmd[r].op = "receive"
    BY <1>0, RunningCommand
  <2>4. StepFitsCommand(r)'
    BY <2>1, <2>3 DEF StepFitsCommand, Comply
  <2>5. LocksSoFar(r)'
    BY <2>1, <2>2 DEF LocksSoFar, Comply, Judged, Posting
  <2>6. TermsChecked(r)' /\ OrderHeld(r)' /\ NothingWritten(r)' /\ ComplianceHeld(r)'
    <3>1. TermsChecked(r)'
      BY <2>1 DEF TermsChecked, Doing, Comply
    <3>. QED
      BY <1>0, <2>1, <3>1, Carried DEF Judged
  <2>7. DeliveryFits(r)'
    BY <2>1 DEF DeliveryFits, Posting, data
  <2>8. ProductsHeld(r)' /\ BalancesCounted(r)'
    BY <2>1 DEF ProductsHeld, BalancesCounted, Posting
  <2>. QED
    BY <2>4, <2>5, <2>6, <2>7, <2>8 DEF SessionInv
<1>. QED
  BY <1>1, <1>2

LEMMA InsertReceiptKeeps ==
    ASSUME IInv, NEW r \in Requests, InsertReceipt(r)
    PROVE  SessionInv(r)'
<1>0. SessionInv(r) /\ TypeOK /\ pc[r] = "insert"
  BY DEF IInv, InsertReceipt
<1>1. CASE Fail(r, "rejected")
  BY <1>0, <1>1, FailKeeps DEF Outcomes
<1>2. CASE ~Fail(r, "rejected")
  <2>1. /\ ~KeyTaken(cmd[r].key) /\ UNCHANGED <<data, cmd, rules, decision>> /\ pc'[r] = "item"
        /\ held'[r] = held[r] \cup {<<"key", cmd[r].key>>}
        /\ toPost'[r] = ProductsOf(cmd[r].items)
    BY <1>0, <1>2 DEF InsertReceipt, Goto, Lock, TypeOK, SessionTypeOK
  <2>2. \A row \in held'[r] : row[1] \in {"order", "reading", "supplier", "certificate", "key"}
    BY <1>0, <2>1 DEF SessionInv, LocksSoFar
  <2>3. cmd[r] \in Commands /\ cmd[r].op = "receive"
    BY <1>0, RunningCommand
  <2>4. StepFitsCommand(r)'
    BY <2>1, <2>3 DEF StepFitsCommand, Comply
  <2>5. LocksSoFar(r)'
    BY <2>1, <2>2 DEF LocksSoFar, Comply, Judged, Posting
  <2>6. TermsChecked(r)' /\ OrderHeld(r)' /\ NothingWritten(r)' /\ ComplianceHeld(r)'
    <3>1. TermsChecked(r)'
      BY <2>1 DEF TermsChecked, Doing, Comply
    <3>. QED
      BY <1>0, <2>1, <3>1, Carried DEF Judged
  <2>7. DeliveryFits(r)'
    <3>1. Reconciles(receipts, cmd[r].order, orders[cmd[r].order].terms.items, cmd[r].items)'
      BY <1>0, <2>1, Carried
    <3>2. ~KeyTaken(cmd[r].key)'
      BY <2>1 DEF KeyTaken, data
    <3>. QED
      BY <2>1, <3>1, <3>2 DEF DeliveryFits
  <2>8. ProductsHeld(r)'
    BY <2>1 DEF ProductsHeld
  <2>9. BalancesCounted(r)'
    <3>1. \A p : <<"inventory", p>> \notin held'[r]
      BY <2>2
    <3>2. ProductsOf(cmd[r].items) \ toPost'[r] = {}
      BY <2>1
    <3>. QED
      BY <2>1, <3>1, <3>2 DEF BalancesCounted
  <2>. QED
    BY <2>4, <2>5, <2>6, <2>7, <2>8, <2>9 DEF SessionInv
<1>. QED
  BY <1>1, <1>2

\* What the posting of a receipt's lines takes along.
LEMMA PostingCarried ==
    ASSUME IInv, NEW r \in Requests, UNCHANGED <<data, cmd, rules, decision>>,
           pc[r] \in Posting, pc'[r] \in Posting, held[r] \subseteq held'[r]
    PROVE  /\ StepFitsCommand(r)' /\ TermsChecked(r)' /\ OrderHeld(r)' /\ NothingWritten(r)'
           /\ ComplianceHeld(r)' /\ ProductsHeld(r)' /\ DeliveryFits(r)'
<1>0. SessionInv(r) /\ pc[r] # "done" /\ pc[r] \in Judged
  BY DEF IInv, Posting, Judged
<1>1. cmd[r] \in Commands /\ cmd[r].op = "receive"
  BY RunningCommand DEF Posting
<1>2. StepFitsCommand(r)'
  BY <1>1 DEF StepFitsCommand, Comply, Posting
<1>3. TermsChecked(r)' /\ ProductsHeld(r)'
  BY DEF TermsChecked, Doing, ProductsHeld, Comply, Posting
<1>4. OrderHeld(r)' /\ NothingWritten(r)' /\ ComplianceHeld(r)'
  BY <1>0, Carried
<1>5. DeliveryFits(r)'
  <2>1. Reconciles(receipts, cmd[r].order, orders[cmd[r].order].terms.items, cmd[r].items)'
    BY <1>0, Carried
  <2>2. ~KeyTaken(cmd[r].key)' /\ <<"key", cmd[r].key>> \in held'[r]
    BY <1>0 DEF SessionInv, DeliveryFits, KeyTaken, data
  <2>. QED
    BY <2>1, <2>2 DEF DeliveryFits
<1>. QED
  BY <1>2, <1>3, <1>4, <1>5

LEMMA PostingKeeps ==
    ASSUME IInv, NEW r \in Requests, NEW p \in Products, InsertItem(r, p) \/ PostMovement(r, p)
    PROVE  SessionInv(r)'
<1>0. SessionInv(r) /\ TypeOK /\ pc[r] \in Posting /\ NextProduct(r, p)
  BY DEF IInv, InsertItem, PostMovement, Posting
<1>1. /\ p \in Nat /\ p \in toPost[r] /\ toPost[r] \subseteq Nat
      /\ \A x \in toPost[r] : p <= x
  BY <1>0, NextType, ProcurementAssumption DEF NextProduct, TypeOK, SessionTypeOK
<1>2. \A row \in held[r] :
          /\ row[1] \in {"order", "reading", "supplier", "certificate", "key",
                         "share", "inventory"}
          /\ row[1] \in {"product", "inventory"} => \A x \in toPost[r] : row[2] < x
          /\ row[1] = "share" =>
                \A x \in toPost[r] : row[2] < x \/ (row[2] = x /\ pc[r] = "balance")
  BY <1>0 DEF SessionInv, LocksSoFar
<1>3. /\ \A x \in Products : <<"inventory", x>> \in held[r] =>
              work[r][x] = stock[x] + Accepted(cmd[r].items, x)
      /\ \A x \in ProductsOf(cmd[r].items) \ toPost[r] :
              Accepted(cmd[r].items, x) > 0 => <<"inventory", x>> \in held[r]
  BY <1>0 DEF SessionInv, BalancesCounted
<1>4. CASE InsertItem(r, p)
  <2>1. /\ UNCHANGED <<data, cmd, rules, decision, work>> /\ pc[r] = "item"
        /\ held'[r] = held[r] \cup {<<"share", p>>}
        /\ \/ pc'[r] = "balance" /\ toPost'[r] = toPost[r]
           \/ /\ pc'[r] = "item" /\ toPost'[r] = toPost[r] \ {p}
              /\ Accepted(cmd[r].items, p) = 0
    BY <1>0, <1>4 DEF InsertItem, Goto, Lock, TypeOK, SessionTypeOK
  <2>2. pc'[r] \in Posting
    BY <2>1 DEF Posting
  <2>3. \A x \in toPost'[r] : x \in toPost[r] /\ (p < x \/ (p = x /\ pc'[r] = "balance"))
    BY <1>1, <2>1
  <2>4. LocksSoFar(r)'
    BY <1>2, <2>1, <2>3 DEF LocksSoFar, Comply, Judged, Posting
  <2>5. BalancesCounted(r)'
    <3>1. ASSUME NEW x \in Products, <<"inventory", x>> \in held'[r]
          PROVE  work'[r][x] = stock'[x] + Accepted(cmd'[r].items, x)
      BY <1>3, <2>1, <3>1 DEF data
    <3>2. ASSUME NEW x \in ProductsOf(cmd'[r].items) \ toPost'[r], Accepted(cmd'[r].items, x) > 0
          PROVE  <<"inventory", x>> \in held'[r]
      BY <1>3, <2>1, <3>2
    <3>. QED
      BY <3>1, <3>2 DEF BalancesCounted
  <2>. QED
    BY <1>0, <2>1, <2>2, <2>4, <2>5, PostingCarried DEF SessionInv
<1>5. CASE PostMovement(r, p)
  <2>1. /\ UNCHANGED <<data, cmd, rules, decision>> /\ pc[r] = "balance" /\ pc'[r] = "item"
        /\ held'[r] = held[r] \cup {<<"inventory", p>>}
        /\ toPost'[r] = toPost[r] \ {p}
    BY <1>0, <1>5 DEF PostMovement, Goto, Lock, TypeOK, SessionTypeOK
  <2>2. /\ work'[r][p] = stock[p] + Accepted(cmd[r].items, p)
        /\ \A x \in Products \ {p} : work'[r][x] = work[r][x]
    BY <1>0, <1>5 DEF PostMovement, TypeOK, SessionTypeOK
  <2>3. pc'[r] \in Posting
    BY <2>1 DEF Posting
  <2>4. \A x \in toPost'[r] : x \in toPost[r] /\ x \in Nat /\ p < x
    BY <1>1, <2>1
  <2>5. ASSUME NEW row \in held[r], row[1] = "share", NEW x \in toPost'[r]
        PROVE  row[2] < x
    <3>1. row[2] < p \/ row[2] = p
      BY <1>1, <1>2, <2>5
    <3>2. row[2] < x \/ row[2] = x
      BY <1>2, <2>4, <2>5
    <3>. QED
      BY <1>1, <2>4, <3>1, <3>2
  <2>6. LocksSoFar(r)'
    BY <1>2, <2>1, <2>4, <2>5 DEF LocksSoFar, Comply, Judged, Posting
  <2>7. BalancesCounted(r)'
    <3>1. ASSUME NEW x \in Products, <<"inventory", x>> \in held'[r]
          PROVE  work'[r][x] = stock'[x] + Accepted(cmd'[r].items, x)
      BY <1>3, <2>1, <2>2, <3>1 DEF data
    <3>2. ASSUME NEW x \in ProductsOf(cmd'[r].items) \ toPost'[r], Accepted(cmd'[r].items, x) > 0
          PROVE  <<"inventory", x>> \in held'[r]
      BY <1>3, <2>1, <3>2
    <3>. QED
      BY <3>1, <3>2 DEF BalancesCounted
  <2>. QED
    BY <1>0, <2>1, <2>3, <2>6, <2>7, PostingCarried DEF SessionInv
<1>. QED
  BY <1>4, <1>5

LEMMA CommitKeeps ==
    ASSUME IInv, NEW r \in Requests, CommitOrder(r) \/ CommitReceipt(r) \/ Maintain(r)
    PROVE  SessionInv(r)'
<1>1. pc[r] # "done"
  BY DEF CommitOrder, CommitReceipt, Maintain, CancelPurchaseOrder,
     ListProduct, UpdateSupplier, CreateSupplier, RegisterCertificate, RevokeCertificate,
     Configure, Only
<1>2. End(r, "done") \/ Fail(r, "rejected") \/ Fail(r, "replayed")
  BY DEF CommitOrder, CommitReceipt, Maintain, CancelPurchaseOrder,
     ListProduct, UpdateSupplier, CreateSupplier, RegisterCertificate, RevokeCertificate,
     Configure
<1>. QED
  BY <1>1, <1>2, EndKeeps, FailKeeps DEF IInv, Outcomes

LEMMA MoverKeeps ==
    ASSUME IInv, NEW r \in Requests, Step(r)
    PROVE  SessionInv(r)'
<1>1. CASE Abort(r)
  BY <1>1, FailKeeps DEF Abort, Running, Steps, Outcomes
<1>. QED
  BY <1>1, BeginKeeps, CheckTermsKeeps, LockOrderKeeps, ReadPolicyKeeps, LockSupplierKeeps,
     CheckCertificateKeeps, LockActiveProductKeeps, ReconcileKeeps, InsertReceiptKeeps,
     PostingKeeps, CommitKeeps
     DEF Step, Proceed, CheckCompliance, CreatePurchaseOrder, CreateGoodsReceipt

-----------------------------------------------------------------------------
(***************************************************************************)
(* The documents: orders and receipts.                                     *)
(***************************************************************************)
\* Only a receipt touches receipts, stock and books.
LEMMA OnlyReceiptsReceive ==
    ASSUME NEW r \in Requests, Commits(r), ~Receives(r)
    PROVE  UNCHANGED <<receipts, stock, movements, journal>>
  BY DEF Commits, Issues, Cancels, Lists, Rules

\* An order that was issued is there for good, on the terms it was issued on.
LEMMA OrdersStay ==
    ASSUME IInv, NEW r \in Requests, Commits(r), NEW o \in Orders, orders[o] # NoRow
    PROVE  orders'[o] # NoRow /\ orders'[o].terms = orders[o].terms
<1>1. CASE Issues(r)
  BY <1>1, IssueLeaves
<1>2. CASE Receives(r)
  BY <1>2, ReceiveLeaves
<1>3. CASE Cancels(r)
  BY <1>3, CancelLeaves
<1>4. CASE Lists(r) \/ Rules(r)
  BY <1>4 DEF Lists, Rules
<1>. QED
  BY <1>1, <1>2, <1>3, <1>4 DEF Commits

LEMMA ReceiptType ==
    ASSUME IInv, NEW q \in Posted
    PROVE  /\ receipts[q] \in ReceiptRow /\ receipts[q].order \in Orders
           /\ receipts[q].items \in Seq(ReceiptItem)
           /\ orders[receipts[q].order] \in OrderRow
           /\ orders[receipts[q].order] # NoRow
           /\ orders[receipts[q].order].terms.items \in Seq(OrderItem)
<1>1. receipts[q] \in ReceiptRow
  BY DEF Posted, IInv, TypeOK, DataTypeOK
<1>2. receipts[q].order \in Orders /\ receipts[q].items \in Seq(ReceiptItem)
  BY <1>1 DEF ReceiptRow
<1>3. orders[receipts[q].order] # NoRow
  BY DEF IInv, DocumentsAgree
<1>4. orders[receipts[q].order] \in OrderRow
  BY <1>2, <1>3 DEF IInv, TypeOK, DataTypeOK
<1>. QED
  BY <1>1, <1>2, <1>3, <1>4 DEF OrderRow, Terms

LEMMA PostedAfter ==
    ASSUME IInv, NEW r \in Requests, Receives(r)
    PROVE  Posted' = Posted \cup {r} /\ r \notin Posted /\ r \in Posted'
  BY ReceiveLeaves DEF Posted, Receives

\* The movements and entries of a receipt are its own, and finitely many.
LEMMA ReceiptWrites ==
    ASSUME NEW doc, NEW ordered, NEW items \in Seq(ReceiptItem)
    PROVE  /\ IsFiniteSet(ReceiptMovements(doc, items))
           /\ \A m \in ReceiptMovements(doc, items) : m.doc = doc
           /\ IsFiniteSet(ReceiptEntries(doc, ordered, items))
           /\ \A e \in ReceiptEntries(doc, ordered, items) : e.doc = doc
<1>. DEFINE S == {j \in DOMAIN items : items[j].accepted > 0}
            T == {ReceiptMovement(doc, items[i].product, items[i].accepted) : i \in S}
            f == [i \in S |-> ReceiptMovement(doc, items[i].product, items[i].accepted)]
<1>1. IsFiniteSet(DOMAIN items)
  BY Interval
<1>2. IsFiniteSet(S)
  BY <1>1, FS_Subset
<1>3. ReceiptMovements(doc, items) = T
  BY DEF ReceiptMovements
<1>4. IsFiniteSet(T)
  <2>1. f \in Surjection(S, T)
    BY DEF Surjection
  <2>. HIDE DEF f, T, S
  <2>. QED
    BY <1>2, <2>1, FS_Surjection
<1>5. \A m \in ReceiptMovements(doc, items) : m.doc = doc
  BY DEF ReceiptMovements, ReceiptMovement
<1>. DEFINE value == InboundValue(ordered, items)
            entry == [doc |-> doc, lines |-> ReceiptLines(value)]
<1>6. ReceiptEntries(doc, ordered, items) \in {{}, {entry}} /\ entry.doc = doc
  BY DEF ReceiptEntries
<1>. HIDE DEF entry
<1>7. IsFiniteSet({}) /\ IsFiniteSet({entry})
  BY FS_EmptySet, FS_Singleton
<1>. QED
  BY <1>3, <1>4, <1>5, <1>6, <1>7

LEMMA DocumentsAgreeStep ==
    ASSUME IInv, NEW r \in Requests, Commits(r)
    PROVE  DocumentsAgree'
<1>0. DocumentsAgree
  BY DEF IInv
<1>1. CASE ~Receives(r)
  <2>1. UNCHANGED <<receipts, stock, movements, journal>> /\ Posted' = Posted
    BY <1>1, OnlyReceiptsReceive DEF Posted
  <2>2. ASSUME NEW q \in Posted
        PROVE  /\ orders'[receipts[q].order] # NoRow
               /\ orders'[receipts[q].order].terms = orders[receipts[q].order].terms
    BY ReceiptType, OrdersStay
  <2>. QED
    BY <1>0, <2>1, <2>2 DEF DocumentsAgree
<1>2. CASE Receives(r)
  <2>. DEFINE items == cmd[r].items
              o == cmd[r].order
              ordered == orders[o].terms.items
  <2>1. Posted' = Posted \cup {r} /\ \A q \in Posted : receipts'[q] = receipts[q]
    BY <1>2, PostedAfter, ReceiveLeaves DEF Posted
  <2>2. receipts'[r].order = o /\ receipts'[r].items = items
    BY <1>2, ReceiveLeaves
  <2>3. /\ o \in Orders /\ orders[o] # NoRow /\ items \in Seq(ReceiptItem)
        /\ ordered \in Seq(OrderItem)
    BY <1>2, ReceiveFacts
  <2>4. \A i \in DOMAIN items : items[i].product \in ProductsOf(ordered)
    BY <1>2 DEF Receives, Reconciles
  <2>5. orders'[o] # NoRow /\ orders'[o].terms = orders[o].terms
    BY <1>2, ReceiveLeaves
  <2>6. ASSUME NEW q \in Posted
        PROVE  /\ orders'[receipts[q].order] # NoRow
               /\ orders'[receipts[q].order].terms = orders[receipts[q].order].terms
    BY ReceiptType, OrdersStay
  <2>7. IsFiniteSet(Posted')
    BY <1>0, <2>1, FS_AddElement DEF DocumentsAgree
  <2>8. movements' = movements \cup ReceiptMovements(r, items)
        /\ journal' = journal \cup ReceiptEntries(r, ordered, items)
    BY <1>2 DEF Receives
  <2>9. /\ IsFiniteSet(ReceiptMovements(r, items))
        /\ \A m \in ReceiptMovements(r, items) : m.doc = r
        /\ IsFiniteSet(ReceiptEntries(r, ordered, items))
        /\ \A e \in ReceiptEntries(r, ordered, items) : e.doc = r
    BY <2>3, ReceiptWrites
  <2>11. IsFiniteSet(movements') /\ IsFiniteSet(journal')
    BY <1>0, <2>8, <2>9, FS_Union DEF DocumentsAgree
  <2>12. \A q \in Posted' : orders'[receipts'[q].order] # NoRow
    BY <2>1, <2>2, <2>5, <2>6
  <2>13. \A q \in Posted' : \A i \in DOMAIN receipts'[q].items :
            receipts'[q].items[i].product \in ProductsOf(orders'[receipts'[q].order].terms.items)
    BY <1>0, <2>1, <2>2, <2>4, <2>5, <2>6 DEF DocumentsAgree
  <2>14. /\ \A m \in movements' : m.doc \in Posted'
         /\ \A e \in journal' : e.doc \in Posted'
    BY <1>0, <2>1, <2>8, <2>9 DEF DocumentsAgree
  <2>. QED
    BY <2>7, <2>11, <2>12, <2>13, <2>14 DEF DocumentsAgree
<1>. QED
  BY <1>1, <1>2

\* What a commit adds to what an order has received.
LEMMA ReceivedStep ==
    ASSUME IInv, NEW r \in Requests, Commits(r), NEW o, NEW p
    PROVE  /\ Received(receipts, o, p) \in Nat
           /\ Receives(r) /\ o = cmd[r].order =>
                 Received(receipts', o, p) = Received(receipts, o, p) + Accepted(cmd[r].items, p)
           /\ ~(Receives(r) /\ o = cmd[r].order) =>
                 Received(receipts', o, p) = Received(receipts, o, p)
<1>1. Received(receipts, o, p) \in Nat
  BY FiniteReceipts
<1>2. CASE ~Receives(r)
  <2>1. receipts' = receipts
    BY <1>2, OnlyReceiptsReceive
  <2>. QED
    BY <1>1, <1>2, <2>1
<1>3. CASE Receives(r)
  <2>1. /\ receipts'[r] \in ReceiptRow
        /\ receipts'[r].order = cmd[r].order /\ receipts'[r].items = cmd[r].items
        /\ \A q \in Requests \ {r} : receipts'[q] = receipts[q]
        /\ receipts' \in [Requests -> ReceiptRow \cup {NoRow}]
    BY <1>3, ReceiveLeaves
  <2>2. receipts[r] = NoRow
    BY <1>3 DEF Receives
  <2>3. /\ receipts \in [Requests -> ReceiptRow \cup {NoRow}]
        /\ IsFiniteSet({q \in Requests : receipts[q] # NoRow})
    BY DEF IInv, TypeOK, DataTypeOK, DocumentsAgree, Posted
  <2>4. PICK receipt \in ReceiptRow : receipt = receipts'[r]
    BY <2>1
  <2>5. PICK Q \in [Requests -> ReceiptRow \cup {NoRow}] : Q = receipts'
    BY <2>1
  <2>6. Q[r] = receipt /\ \A q \in Requests \ {r} : Q[q] = receipts[q]
    BY <2>1, <2>4, <2>5
  <2>7. /\ o = receipt.order =>
              Received(Q, o, p) = Received(receipts, o, p) + Accepted(receipt.items, p)
        /\ o # receipt.order => Received(Q, o, p) = Received(receipts, o, p)
    BY <2>2, <2>3, <2>6, ReceivedAfter
  <2>8. receipt.order = cmd[r].order /\ receipt.items = cmd[r].items
    BY <2>1, <2>4
  <2>9. Received(Q, o, p) = Received(receipts', o, p)
    BY <2>5
  <2>. QED
    BY <1>1, <1>3, <2>7, <2>8, <2>9
<1>. QED
  BY <1>2, <1>3

\* A new order has not received anything.
LEMMA NothingReceived ==
    ASSUME IInv, NEW o \in Orders, orders[o] = NoRow, NEW p
    PROVE  Received(receipts, o, p) = 0
<1>1. ReceiptsOf(receipts, o) = {}
  BY DEF ReceiptsOf, Posted, IInv, DocumentsAgree
<1>. QED
  BY <1>1, ReceivedOfNone

LEMMA ItemType ==
    ASSUME IInv, NEW o \in Issued
    PROVE  /\ orders[o] \in OrderRow
           /\ orders[o].terms.items \in Seq(OrderItem)
           /\ \A i \in DOMAIN orders[o].terms.items :
                 /\ orders[o].terms.items[i] \in OrderItem
                 /\ orders[o].terms.items[i].quantity \in Nat \ {0}
                 /\ orders[o].terms.items[i].product \in Products
<1>1. orders[o] \in OrderRow
  BY DEF Issued, IInv, TypeOK, DataTypeOK
<1>2. orders[o].terms.items \in Seq(OrderItem)
  BY <1>1 DEF OrderRow, Terms
<1>3. \A i \in DOMAIN orders[o].terms.items : orders[o].terms.items[i] \in OrderItem
  BY <1>2, Interval
<1>. QED
  BY <1>1, <1>2, <1>3 DEF OrderItem

\* Which orders there are after a commit: those there were, and the one issued.
LEMMA IssuedAfter ==
    ASSUME IInv, NEW r \in Requests, Commits(r), NEW o \in Issued'
    PROVE  /\ o \in Orders
           /\ \/ o \in Issued /\ orders'[o].terms = orders[o].terms
              \/ /\ Issues(r) /\ o = r /\ orders[o] = NoRow
                 /\ orders'[o].terms = cmd[r].terms /\ cmd[r].terms \in Terms
                 /\ orders'[o].status = "ISSUED"
<1>0. o \in Orders /\ orders'[o] # NoRow
  BY DEF Issued
<1>1. CASE o \in Issued
  BY <1>0, <1>1, OrdersStay DEF Issued
<1>2. CASE o \notin Issued
  <2>1. orders[o] = NoRow
    BY <1>0, <1>2 DEF Issued
  <2>2. Issues(r)
    <3>1. CASE Receives(r)
      BY <1>0, <2>1, <3>1, ReceiveLeaves, ReceiveFacts
    <3>2. CASE Cancels(r)
      <4>1. orders[cmd[r].order] # NoRow
        BY <3>2 DEF Cancels, Cancellable
      <4>. QED
        BY <1>0, <2>1, <3>2, <4>1, CancelLeaves
    <3>3. CASE Lists(r) \/ Rules(r)
      BY <1>0, <2>1, <3>3 DEF Lists, Rules
    <3>. QED
      BY <3>1, <3>2, <3>3 DEF Commits
  <2>. QED
    BY <1>0, <2>1, <2>2, IssueLeaves
<1>. QED
  BY <1>1, <1>2

LEMMA NeverOverReceivedStep ==
    ASSUME IInv, NEW r \in Requests, Commits(r)
    PROVE  NeverOverReceived'
<1>1. SUFFICES ASSUME NEW o \in Issued', NEW i \in DOMAIN orders'[o].terms.items
               PROVE  Received(receipts', o, orders'[o].terms.items[i].product)
                        <= orders'[o].terms.items[i].quantity
  BY DEF NeverOverReceived
<1>. DEFINE item == orders'[o].terms.items[i]
            p == item.product
<1>2. CASE o \in Issued /\ orders'[o].terms = orders[o].terms
  <2>1. /\ item = orders[o].terms.items[i] /\ i \in DOMAIN orders[o].terms.items
        /\ Received(receipts, o, p) <= item.quantity
    BY <1>1, <1>2 DEF IInv, NeverOverReceived
  <2>2. CASE ~(Receives(r) /\ o = cmd[r].order)
    BY <2>1, <2>2, ReceivedStep
  <2>3. CASE Receives(r) /\ o = cmd[r].order
    <3>1. /\ receipts \in [Requests -> ReceiptRow \cup {NoRow}]
          /\ IsFiniteSet({q \in Requests : receipts[q] # NoRow})
      BY DEF IInv, TypeOK, DataTypeOK, DocumentsAgree, Posted
    <3>2. /\ orders[o].terms.items \in Seq(OrderItem) /\ cmd[r].items \in Seq(ReceiptItem)
          /\ Reconciles(receipts, o, orders[o].terms.items, cmd[r].items)
      BY <2>3, ReceiveFacts DEF Receives
    <3>3. Received(receipts, o, p) + Accepted(cmd[r].items, p) <= item.quantity
      BY <2>1, <3>1, <3>2, ReconciledFits
    <3>. QED
      BY <2>3, <3>3, ReceivedStep
  <2>. QED
    BY <2>2, <2>3
<1>3. CASE /\ Issues(r) /\ o = r /\ orders[o] = NoRow
           /\ orders'[o].terms = cmd[r].terms /\ cmd[r].terms \in Terms
  <2>1. Received(receipts', o, p) = 0
    <3>1. receipts' = receipts /\ o \in Orders
      BY <1>3 DEF Issues, Orders
    <3>. QED
      BY <1>3, <3>1, NothingReceived
  <2>2. item \in OrderItem
    <3>1. cmd[r].terms.items \in Seq(OrderItem)
      BY <1>3 DEF Terms
    <3>2. \A j \in DOMAIN cmd[r].terms.items : cmd[r].terms.items[j] \in OrderItem
      BY <3>1, Interval
    <3>. QED
      BY <1>1, <1>3, <3>2
  <2>. QED
    BY <2>1, <2>2 DEF OrderItem
<1>. QED
  BY <1>2, <1>3, IssuedAfter

LEMMA ReceiptOncePerKeyStep ==
    ASSUME IInv, NEW r \in Requests, Commits(r)
    PROVE  ReceiptOncePerKey'
<1>0. ReceiptOncePerKey
  BY DEF IInv
<1>1. CASE ~Receives(r)
  BY <1>0, <1>1, OnlyReceiptsReceive DEF ReceiptOncePerKey, Posted
<1>2. CASE Receives(r)
  <2>1. Posted' = Posted \cup {r} /\ \A q \in Posted : receipts'[q] = receipts[q]
    BY <1>2, PostedAfter, ReceiveLeaves DEF Posted
  <2>2. receipts'[r].key = cmd[r].key
    BY <1>2, ReceiveLeaves
  <2>3. \A q \in Posted : receipts[q].key # cmd[r].key
    BY <1>2 DEF Receives, KeyTaken, Posted
  <2>. QED
    BY <1>0, <2>1, <2>2, <2>3 DEF ReceiptOncePerKey
<1>. QED
  BY <1>1, <1>2

\* What is awaited after a commit was awaited before it, or ordered by it.
LEMMA WithdrawnIsNotAwaitedStep ==
    ASSUME IInv, NEW r \in Requests, Commits(r)
    PROVE  WithdrawnIsNotAwaited'
<1>1. SUFFICES ASSUME NEW p \in Products, ~listed'[p], Awaited(orders', receipts', p)
               PROVE  FALSE
  BY DEF WithdrawnIsNotAwaited
<1>2. PICK o \in Orders : /\ Open(orders'[o])
                          /\ \E i \in DOMAIN orders'[o].terms.items :
                                /\ orders'[o].terms.items[i].product = p
                                /\ orders'[o].terms.items[i].quantity > Received(receipts', o, p)
  BY <1>1 DEF Awaited
<1>3. PICK i \in DOMAIN orders'[o].terms.items :
              /\ orders'[o].terms.items[i].product = p
              /\ orders'[o].terms.items[i].quantity > Received(receipts', o, p)
  BY <1>2
<1>4. o \in Issued'
  BY <1>2 DEF Issued, Open
<1>5. CASE Issues(r) /\ o = r /\ orders'[o].terms = cmd[r].terms
  <2>1. p \in ProductsOf(cmd[r].terms.items)
    BY <1>3, <1>5 DEF ProductsOf
  <2>2. listed[p] /\ listed' = listed
    BY <1>5, <2>1 DEF Issues
  <2>. QED
    BY <1>1, <2>2
<1>6. CASE o \in Issued /\ orders'[o].terms = orders[o].terms
  <2>1. Open(orders[o])
    <3>1. CASE orders'[o] = orders[o]
      BY <1>2, <3>1
    <3>2. CASE Issues(r) /\ o # r
      BY <1>2, <3>2, IssueLeaves
    <3>3. CASE Receives(r)
      <4>1. CASE o = cmd[r].order
        BY <3>3, <4>1 DEF Receives
      <4>2. CASE o # cmd[r].order
        BY <1>2, <3>3, <4>2, ReceiveLeaves
      <4>. QED
        BY <4>1, <4>2
    <3>4. CASE Cancels(r)
      BY <1>2, <3>4, CancelLeaves DEF Open
    <3>5. CASE Lists(r) \/ Rules(r)
      BY <1>2, <3>5 DEF Lists, Rules
    <3>6. CASE Issues(r) /\ o = r
      BY <1>6, <3>6, IssueLeaves DEF Issued
    <3>. QED
      BY <3>2, <3>3, <3>4, <3>5, <3>6 DEF Commits
  <2>2. orders[o].terms.items[i].quantity > Received(receipts, o, p)
    <3>1. orders[o].terms.items[i].quantity \in Nat
      BY <1>3, <1>6, ItemType
    <3>2. orders[o].terms.items[i].quantity > Received(receipts', o, p)
      BY <1>3, <1>6
    <3>3. Received(receipts, o, p) \in Nat
      BY ReceivedStep
    <3>4. CASE Receives(r) /\ o = cmd[r].order
      <4>1. Accepted(cmd[r].items, p) \in Nat
        BY <3>4, ReceiveFacts, AcceptedType
      <4>2. Received(receipts', o, p) = Received(receipts, o, p) + Accepted(cmd[r].items, p)
        BY <3>4, ReceivedStep
      <4>. QED
        BY <3>1, <3>2, <3>3, <4>1, <4>2
    <3>5. CASE ~(Receives(r) /\ o = cmd[r].order)
      BY <3>2, <3>5, ReceivedStep
    <3>. QED
      BY <3>4, <3>5
  <2>3. Awaited(orders, receipts, p)
    BY <1>3, <1>6, <2>1, <2>2 DEF Awaited
  <2>4. listed[p]
    BY <2>3 DEF IInv, WithdrawnIsNotAwaited
  <2>5. Lists(r) /\ cmd[r].product = p /\ ~cmd[r].active
    <3>1. listed' # listed
      BY <1>1, <2>4
    <3>2. Lists(r)
      BY <3>1 DEF Commits, Issues, Receives, Cancels, Rules
    <3>3. listed' = [listed EXCEPT ![cmd[r].product] = cmd[r].active]
      BY <3>2 DEF Lists
    <3>4. listed \in [Products -> BOOLEAN]
      BY DEF IInv, TypeOK, DataTypeOK
    <3>. QED
      BY <1>1, <2>4, <3>2, <3>3, <3>4
  <2>. QED
    BY <2>3, <2>5 DEF Lists, Withdrawable
<1>. QED
  BY <1>4, <1>5, <1>6, IssuedAfter

\* The status of an order and what it was received of, as in StatusTellsReceived.
Tells(R, o, order) ==
    LET items == order.terms.items
        Some  == \E p \in Products : Received(R, o, p) > 0
        All   == \A i \in DOMAIN items :
                    Received(R, o, items[i].product) = items[i].quantity
    IN  CASE order.status \in {"ISSUED", "CANCELLED"} -> ~Some
          [] order.status = "PARTIALLY_RECEIVED"      -> Some /\ ~All
          [] order.status = "RECEIVED"                -> All

LEMMA TellsMeans ==
    ASSUME NEW R, NEW o, NEW order,
           order.status \in {"ISSUED", "PARTIALLY_RECEIVED", "RECEIVED", "CANCELLED"}
    PROVE  Tells(R, o, order) <=>
             /\ order.status \in {"ISSUED", "CANCELLED"} =>
                   \A p \in Products : ~(Received(R, o, p) > 0)
             /\ order.status = "PARTIALLY_RECEIVED" =>
                   /\ \E p \in Products : Received(R, o, p) > 0
                   /\ \E i \in DOMAIN order.terms.items :
                         Received(R, o, order.terms.items[i].product)
                           # order.terms.items[i].quantity
             /\ order.status = "RECEIVED" =>
                   \A i \in DOMAIN order.terms.items :
                       Received(R, o, order.terms.items[i].product)
                         = order.terms.items[i].quantity
<1>. DEFINE some == \E p \in Products : Received(R, o, p) > 0
            all  == \A i \in DOMAIN order.terms.items :
                       Received(R, o, order.terms.items[i].product)
                         = order.terms.items[i].quantity
<1>1. Tells(R, o, order) =
        CASE order.status \in {"ISSUED", "CANCELLED"} -> ~some
          [] order.status = "PARTIALLY_RECEIVED"      -> some /\ ~all
          [] order.status = "RECEIVED"                -> all
  BY DEF Tells
<1>2. /\ some \in BOOLEAN /\ all \in BOOLEAN
      /\ ~some <=> \A p \in Products : ~(Received(R, o, p) > 0)
      /\ ~all <=> \E i \in DOMAIN order.terms.items :
                         Received(R, o, order.terms.items[i].product)
                           # order.terms.items[i].quantity
  OBVIOUS
<1>3. /\ some <=> \E p \in Products : Received(R, o, p) > 0
      /\ all <=> \A i \in DOMAIN order.terms.items :
                       Received(R, o, order.terms.items[i].product)
                         = order.terms.items[i].quantity
  OBVIOUS
<1>. HIDE DEF some, all
<1>4. CASE order.status \in {"ISSUED", "CANCELLED"}
  <2>1. Tells(R, o, order) = ~some
    BY <1>1, <1>4
  <2>. QED
    BY <1>2, <1>4, <2>1
<1>5. CASE order.status = "PARTIALLY_RECEIVED"
  <2>1. Tells(R, o, order) = (some /\ ~all)
    BY <1>1, <1>5
  <2>. QED
    BY <1>2, <1>3, <1>5, <2>1
<1>6. CASE order.status = "RECEIVED"
  <2>1. Tells(R, o, order) = all
    BY <1>1, <1>6
  <2>. QED
    BY <1>2, <1>3, <1>6, <2>1
<1>. QED
  BY <1>4, <1>5, <1>6

LEMMA StatusTellsMeans ==
    StatusTellsReceived <=> \A o \in Issued : Tells(receipts, o, orders[o])
  BY DEF StatusTellsReceived, Tells

\* A delivery without an accepted line accepts nothing, of any product.
LEMMA NothingAccepted ==
    ASSUME NEW items \in Seq(ReceiptItem), Unambiguous(items), NEW p
    PROVE  /\ ~HasAccepted(items) => Accepted(items, p) = 0
           /\ HasAccepted(items) => \E x \in Products : Accepted(items, x) > 0
<1>1. \A i \in DOMAIN items : items[i] \in ReceiptItem
  BY Interval
<1>2. ASSUME ~HasAccepted(items) PROVE Accepted(items, p) = 0
  <2>1. CASE p \notin ProductsOf(items)
    BY <2>1, AcceptedOfNone
  <2>2. CASE p \in ProductsOf(items)
    <3>1. PICK i \in DOMAIN items : items[i].product = p
      BY <2>2 DEF ProductsOf
    <3>2. Accepted(items, p) = items[i].accepted
      BY <3>1, AcceptedOfLine
    <3>. QED
      BY <1>1, <1>2, <3>2 DEF HasAccepted, ReceiptItem
  <2>. QED
    BY <2>1, <2>2
<1>3. ASSUME HasAccepted(items) PROVE \E x \in Products : Accepted(items, x) > 0
  <2>1. PICK i \in DOMAIN items : items[i].accepted > 0
    BY <1>3 DEF HasAccepted
  <2>2. Accepted(items, items[i].product) = items[i].accepted
    BY AcceptedOfLine
  <2>3. items[i].product \in Products
    BY <1>1 DEF ReceiptItem
  <2>. QED
    BY <2>1, <2>2, <2>3
<1>. QED
  BY <1>2, <1>3

\* The order a receipt is on.
LEMMA ReceivedOrderTells ==
    ASSUME IInv, NEW r \in Requests, Receives(r)
    PROVE  Tells(receipts', cmd[r].order, orders'[cmd[r].order])
<1>. DEFINE o == cmd[r].order
            items == orders[o].terms.items
            delivered == cmd[r].items
            before(p) == Received(receipts, o, p)
            after(p) == Received(receipts', o, p)
<1>0. Commits(r)
  BY DEF Commits
<1>1. /\ o \in Orders /\ orders[o] # NoRow /\ orders[o] \in OrderRow
      /\ orders[o].status \in {"ISSUED", "PARTIALLY_RECEIVED"}
      /\ delivered \in Seq(ReceiptItem)
  BY ReceiveFacts
<1>2. /\ orders'[o] \in OrderRow
      /\ orders'[o].terms = orders[o].terms
      /\ orders'[o].status = StatusAfter(receipts, o, orders[o], delivered)
  BY ReceiveLeaves
<1>3. Tells(receipts, o, orders[o])
  BY <1>1, StatusTellsMeans DEF IInv, Issued
<1>4. \A p : /\ before(p) \in Nat /\ Accepted(delivered, p) \in Nat
             /\ after(p) = before(p) + Accepted(delivered, p)
  BY <1>0, <1>1, ReceivedStep, AcceptedType
<1>5. Unambiguous(delivered)
  BY DEF Receives, Reconciles
<1>6. Completes(receipts, o, items, delivered) <=>
         \A i \in DOMAIN items :
             before(items[i].product) + Accepted(delivered, items[i].product) = items[i].quantity
  BY DEF Completes
<1>7. orders'[o].status \in {"ISSUED", "PARTIALLY_RECEIVED", "RECEIVED", "CANCELLED"}
  BY <1>2 DEF OrderRow
<1>8. orders[o].status = "ISSUED" => \A p \in Products : before(p) = 0
  BY <1>1, <1>3, <1>4, TellsMeans
<1>9. orders[o].status = "PARTIALLY_RECEIVED" => \E p \in Products : before(p) > 0
  BY <1>1, <1>3, TellsMeans
<1>. HIDE DEF before, after, items, delivered, o
<1>10. CASE Completes(receipts, o, items, delivered)
  <2>1. orders'[o].status = "RECEIVED"
    BY <1>2, <1>10, StatusAfterIs DEF items, delivered, o
  <2>2. \A i \in DOMAIN items : after(items[i].product) = items[i].quantity
    BY <1>4, <1>6, <1>10
  <2>. QED
    BY <1>2, <1>7, <2>1, <2>2, TellsMeans DEF after, items, o
<1>11. CASE ~Completes(receipts, o, items, delivered)
  <2>1. orders'[o].status = IF HasAccepted(delivered) /\ orders[o].status = "ISSUED"
                            THEN "PARTIALLY_RECEIVED" ELSE orders[o].status
    BY <1>2, <1>11, StatusAfterIs DEF items, delivered, o
  <2>2. \E i \in DOMAIN items : after(items[i].product) # items[i].quantity
    BY <1>4, <1>6, <1>11
  <2>3. HasAccepted(delivered) => \E x \in Products : after(x) > 0
    <3>1. HasAccepted(delivered) => \E x \in Products : Accepted(delivered, x) > 0
      BY <1>1, <1>5, NothingAccepted
    <3>. QED
      BY <1>4, <3>1
  <2>4. CASE orders'[o].status = "PARTIALLY_RECEIVED"
    <3>1. \E x \in Products : after(x) > 0
      <4>1. CASE orders[o].status = "PARTIALLY_RECEIVED"
        <5>1. PICK x \in Products : before(x) > 0
          BY <1>9, <4>1
        <5>. QED
          BY <1>4, <5>1
      <4>2. CASE orders[o].status = "ISSUED"
        BY <2>1, <2>3, <2>4, <4>2
      <4>. QED
        BY <1>1, <4>1, <4>2
    <3>. QED
      BY <1>2, <1>7, <2>2, <2>4, <3>1, TellsMeans DEF after, items, o
  <2>5. CASE orders'[o].status = "ISSUED"
    <3>1. ~HasAccepted(delivered) /\ orders[o].status = "ISSUED"
      BY <1>1, <2>1, <2>5
    <3>2. \A p \in Products : Accepted(delivered, p) = 0
      BY <1>1, <1>5, <3>1, NothingAccepted
    <3>3. \A p \in Products : after(p) = 0
      BY <1>4, <1>8, <3>1, <3>2
    <3>. QED
      BY <1>7, <2>5, <3>3, TellsMeans DEF after, o
  <2>. QED
    BY <1>1, <2>1, <2>4, <2>5
<1>. QED
  BY <1>10, <1>11 DEF o

LEMMA StatusTellsReceivedStep ==
    ASSUME IInv, NEW r \in Requests, Commits(r)
    PROVE  StatusTellsReceived'
<1>1. SUFFICES ASSUME NEW o \in Issued' PROVE Tells(receipts', o, orders'[o])
  BY DEF StatusTellsReceived, Tells
<1>2. CASE /\ Issues(r) /\ o = r /\ orders[o] = NoRow /\ orders'[o].status = "ISSUED"
  <2>1. receipts' = receipts /\ o \in Orders
    BY <1>2 DEF Issues, Orders
  <2>2. \A p : Received(receipts', o, p) = 0
    BY <1>2, <2>1, NothingReceived
  <2>. QED
    BY <1>2, <2>2, TellsMeans
<1>3. CASE o \in Issued
  <2>1. CASE Receives(r) /\ o = cmd[r].order
    BY <2>1, ReceivedOrderTells
  <2>2. CASE Cancels(r) /\ o = cmd[r].order
    <3>1. /\ orders'[o].status = "CANCELLED"
          /\ \A p \in Products : Received(receipts, o, p) = 0
      BY <2>2, CancelLeaves
    <3>2. receipts' = receipts
      BY <2>2 DEF Cancels
    <3>. QED
      BY <3>1, <3>2, TellsMeans
  <2>3. CASE ~(Receives(r) /\ o = cmd[r].order) /\ ~(Cancels(r) /\ o = cmd[r].order)
    <3>1. orders'[o] = orders[o]
      <4>1. o \in Orders /\ orders[o] # NoRow
        BY <1>3 DEF Issued
      <4>2. CASE Issues(r)
        BY <4>1, <4>2, IssueLeaves
      <4>3. CASE Receives(r)
        BY <2>3, <4>1, <4>3, ReceiveLeaves
      <4>4. CASE Cancels(r)
        BY <2>3, <4>1, <4>4, CancelLeaves
      <4>5. CASE Lists(r) \/ Rules(r)
        BY <4>5 DEF Lists, Rules
      <4>. QED
        BY <4>2, <4>3, <4>4, <4>5 DEF Commits
    <3>2. \A p : Received(receipts', o, p) = Received(receipts, o, p)
      BY <2>3, ReceivedStep
    <3>3. Tells(receipts, o, orders[o])
      BY <1>3, StatusTellsMeans DEF IInv
    <3>4. orders[o].status \in {"ISSUED", "PARTIALLY_RECEIVED", "RECEIVED", "CANCELLED"}
      BY <1>3, ItemType DEF OrderRow
    <3>. QED
      BY <3>1, <3>2, <3>3, <3>4, TellsMeans
  <2>. QED
    BY <2>1, <2>2, <2>3
<1>. QED
  BY <1>2, <1>3, IssuedAfter

-----------------------------------------------------------------------------
(***************************************************************************)
(* Stock and books.                                                        *)
(***************************************************************************)
LEMMA NetUnion ==
    ASSUME NEW A, NEW B, IsFiniteSet(A), IsFiniteSet(B), A \cap B = {},
           A \cup B \subseteq MovementRow, NEW p
    PROVE  Net(A \cup B, p) = Net(A, p) + Net(B, p)
<1>. DEFINE of(S) == {n \in S : n.product = p}
            f == [m \in of(A \cup B) |-> m.delta]
            g == [m \in of(A) |-> m.delta]
            h == [m \in of(B) |-> m.delta]
<1>1. of(A \cup B) = of(A) \cup of(B) /\ of(A) \cap of(B) = {}
  OBVIOUS
<1>2. IsFiniteSet(of(A)) /\ IsFiniteSet(of(B))
  BY FS_Subset
<1>3. \A m \in of(A) \cup of(B) : f[m] \in Int
  BY DEF MovementRow
<1>4. (\A m \in of(A) : f[m] = g[m]) /\ (\A m \in of(B) : f[m] = h[m])
  OBVIOUS
<1>5. /\ Net(A \cup B, p) = SumFunctionOnSet(f, of(A \cup B))
      /\ Net(A, p) = SumFunctionOnSet(g, of(A))
      /\ Net(B, p) = SumFunctionOnSet(h, of(B))
  BY SumOf DEF Net
<1>. HIDE DEF of, f, g, h
<1>6. SumFunctionOnSet(f, of(A) \cup of(B))
         = SumFunctionOnSet(f, of(A)) + SumFunctionOnSet(f, of(B))
  BY <1>1, <1>2, <1>3, SumUnion
<1>7. SumFunctionOnSet(f, of(A)) = SumFunctionOnSet(g, of(A))
  BY <1>2, <1>4, SumSame
<1>8. SumFunctionOnSet(f, of(B)) = SumFunctionOnSet(h, of(B))
  BY <1>2, <1>4, SumSame
<1>. QED
  BY <1>1, <1>5, <1>6, <1>7, <1>8

\* The movements of a receipt bring in what it accepted.
LEMMA NetOfReceipt ==
    ASSUME NEW doc, NEW items \in Seq(ReceiptItem), Unambiguous(items), NEW p
    PROVE  Net(ReceiptMovements(doc, items), p) = Accepted(items, p)
<1>. DEFINE M == {n \in ReceiptMovements(doc, items) : n.product = p}
            f == [m \in M |-> m.delta]
            a == Accepted(items, p)
            move == ReceiptMovement(doc, p, a)
<1>1. a \in Nat /\ \A i \in DOMAIN items : items[i] \in ReceiptItem
  BY AcceptedType, Interval
<1>2. Net(ReceiptMovements(doc, items), p) = SumFunctionOnSet(f, M)
  BY SumOf DEF Net
<1>3. ASSUME NEW m \in M PROVE m = move /\ a > 0
  <2>1. PICK i \in {j \in DOMAIN items : items[j].accepted > 0} :
            m = ReceiptMovement(doc, items[i].product, items[i].accepted)
    BY DEF ReceiptMovements
  <2>2. items[i].product = p
    BY <2>1 DEF ReceiptMovement
  <2>3. a = items[i].accepted
    BY <2>2, AcceptedOfLine
  <2>. QED
    BY <2>1, <2>2, <2>3
<1>4. ASSUME a > 0 PROVE move \in M
  <2>1. p \in ProductsOf(items)
    BY <1>4, AcceptedOfNone
  <2>2. PICK i \in DOMAIN items : items[i].product = p
    BY <2>1 DEF ProductsOf
  <2>3. a = items[i].accepted
    BY <2>2, AcceptedOfLine
  <2>4. move \in ReceiptMovements(doc, items)
    BY <1>4, <2>2, <2>3 DEF ReceiptMovements
  <2>. QED
    BY <2>4 DEF ReceiptMovement
<1>5. CASE a > 0
  <2>1. M = {move}
    BY <1>3, <1>4, <1>5
  <2>2. f[move] = a
    BY <1>4, <1>5 DEF ReceiptMovement
  <2>3. IsFiniteSet({move})
    BY FS_Singleton
  <2>. HIDE DEF f, move, a, M
  <2>4. SumFunctionOnSet(f, {move}) = f[move]
    BY <1>1, <2>2, <2>3, SumOfOne
  <2>. QED
    BY <1>2, <2>1, <2>2, <2>4 DEF a
<1>6. CASE ~(a > 0)
  <2>1. M = {}
    BY <1>3, <1>6
  <2>2. SumFunctionOnSet(f, {}) = 0
    BY SumEmpty
  <2>. HIDE DEF f, M
  <2>. QED
    BY <1>1, <1>2, <1>6, <2>1, <2>2
<1>. QED
  BY <1>5, <1>6

LEMMA NetType ==
    ASSUME NEW ms \in SUBSET MovementRow, IsFiniteSet(ms), NEW p
    PROVE  Net(ms, p) \in Nat
<1>. DEFINE S == {n \in ms : n.product = p}
            f == [m \in S |-> m.delta]
<1>1. IsFiniteSet(S)
  BY FS_Subset
<1>2. \A m \in S : f[m] \in Nat
  BY DEF MovementRow
<1>3. SumFunctionOnSet(f, S) \in Nat
  <2>. HIDE DEF f, S
  <2>. QED
    BY <1>1, <1>2, SumNat
<1>. QED
  BY <1>3, SumOf DEF Net

LEMMA StockIsSumOfMovementsStep ==
    ASSUME IInv, NEW r \in Requests, Commits(r)
    PROVE  StockIsSumOfMovements'
<1>0. StockIsSumOfMovements /\ DocumentsAgree /\ TypeOK
  BY DEF IInv
<1>1. CASE ~Receives(r)
  <2>1. UNCHANGED <<receipts, stock, movements>> /\ Posted' = Posted
    BY <1>1, OnlyReceiptsReceive DEF Posted
  <2>. QED
    BY <1>0, <2>1 DEF StockIsSumOfMovements
<1>2. CASE Receives(r)
  <2>. DEFINE items == cmd[r].items
              new == ReceiptMovements(r, items)
  <2>1. items \in Seq(ReceiptItem) /\ Unambiguous(items)
    BY <1>2, ReceiveFacts DEF Receives, Reconciles
  <2>2. IsFiniteSet(new) /\ \A m \in new : m.doc = r
    BY <2>1, ReceiptWrites
  <2>3. /\ movements' = movements \cup new
        /\ stock' = [p \in Products |-> stock[p] + Accepted(items, p)]
    BY <1>2 DEF Receives
  <2>4. Posted' = Posted \cup {r} /\ r \notin Posted /\ \A q \in Posted : receipts'[q] = receipts[q]
    BY <1>2, PostedAfter, ReceiveLeaves DEF Posted
  <2>5. receipts'[r].items = items
    BY <1>2, ReceiveLeaves
  <2>6. movements \cap new = {} /\ IsFiniteSet(movements)
    BY <1>0, <2>2, <2>4 DEF DocumentsAgree
  <2>7. movements \cup new \subseteq MovementRow
    BY <1>2, <2>3, ReceiptWritesType
  <2>8. ASSUME NEW p \in Products
        PROVE  stock'[p] = InitialStock[p] + Net(movements', p)
    <3>1. Net(movements', p) = Net(movements, p) + Net(new, p)
      BY <2>2, <2>3, <2>6, <2>7, NetUnion
    <3>2. Net(new, p) = Accepted(items, p)
      BY <2>1, NetOfReceipt
    <3>3. stock[p] = InitialStock[p] + Net(movements, p)
      BY <1>0 DEF StockIsSumOfMovements
    <3>4. Net(movements, p) \in Nat /\ Accepted(items, p) \in Nat /\ InitialStock[p] \in Nat
      <4>1. Net(movements, p) \in Nat
        BY <1>0, <2>6, NetType DEF TypeOK, DataTypeOK
      <4>. QED
        BY <2>1, <4>1, AcceptedType, ProcurementAssumption
    <3>5. stock'[p] = stock[p] + Accepted(items, p)
      BY <2>3
    <3>. QED
      BY <3>1, <3>2, <3>3, <3>4, <3>5
  <2>9. movements' = UNION {ReceiptMovements(q, receipts'[q].items) : q \in Posted'}
    <3>1. movements = UNION {ReceiptMovements(q, receipts[q].items) : q \in Posted}
      BY <1>0 DEF StockIsSumOfMovements
    <3>2. \A q \in Posted : ReceiptMovements(q, receipts'[q].items) = ReceiptMovements(q, receipts[q].items)
      BY <2>4
    <3>3. ReceiptMovements(r, receipts'[r].items) = new
      BY <2>5
    <3>. HIDE DEF new, items
    <3>. QED
      BY <2>3, <2>4, <3>1, <3>2, <3>3
  <2>. QED
    BY <2>8, <2>9 DEF StockIsSumOfMovements
<1>. QED
  BY <1>1, <1>2

LEMMA EffectType ==
    ASSUME NEW lines \in Seq(Line), NEW account
    PROVE  Effect(lines, account) \in Int
<1>. DEFINE f == [i \in DOMAIN lines |-> IF lines[i].account = account
                                         THEN lines[i].debit - lines[i].credit ELSE 0]
<1>1. IsFiniteSet(DOMAIN lines) /\ \A i \in DOMAIN lines : lines[i] \in Line
  BY Interval
<1>2. \A i \in DOMAIN lines : f[i] \in Int
  BY <1>1 DEF Line
<1>3. SumFunctionOnSet(f, DOMAIN lines) \in Int
  <2>. HIDE DEF f
  <2>. QED
    BY <1>1, <1>2, SumInt
<1>. QED
  BY <1>3, SumOf DEF Effect

\* The entry of a receipt balances and brings its value into the inventory.
LEMMA ReceiptLinesBalance ==
    ASSUME NEW v \in Nat \ {0}
    PROVE  /\ ReceiptLines(v) \in Seq(Line)
           /\ ValidateBalance(ReceiptLines(v))
           /\ Effect(ReceiptLines(v), Inventory) = v
<1>. DEFINE a == Debit(Inventory, v)
            b == Credit(Payable, v)
            lines == <<a, b>>
<1>1. ReceiptLines(v) = lines
  BY DEF ReceiptLines
<1>2. /\ a \in Line /\ a.debit = v /\ a.credit = 0 /\ a.account = Inventory
      /\ b \in Line /\ b.debit = 0 /\ b.credit = v /\ b.account = Payable
  BY DEF Debit, Credit, Line, Accounts
<1>3. Inventory # Payable
  BY DEF Inventory, Payable
<1>. HIDE DEF a, b
<1>4. /\ lines \in Seq(Line) /\ Len(lines) = 2 /\ DOMAIN lines = {1, 2}
      /\ lines[1] = a /\ lines[2] = b
  BY <1>2
<1>. HIDE DEF lines
<1>5. IsFiniteSet({1, 2})
  BY <1>4, Interval
<1>6. ASSUME NEW f, NEW i \in {1, 2}, f[i] = v, \A j \in {1, 2} \ {i} : f[j] = 0
      PROVE  SumFunctionOnSet(f, {1, 2}) = v
  BY <1>5, <1>6, SumOfOne
<1>7. TotalDebit(lines) = v
  <2>. DEFINE f == [i \in {1, 2} |-> lines[i].debit]
  <2>1. f[1] = v /\ \A j \in {1, 2} \ {1} : f[j] = 0
    BY <1>2, <1>4
  <2>2. SumFunctionOnSet(f, {1, 2}) = v
    <3>. HIDE DEF f
    <3>. QED
      BY <1>6, <2>1
  <2>. QED
    BY <1>4, <2>2, SumOf DEF TotalDebit
<1>8. TotalCredit(lines) = v
  <2>. DEFINE f == [i \in {1, 2} |-> lines[i].credit]
  <2>1. f[2] = v /\ \A j \in {1, 2} \ {2} : f[j] = 0
    BY <1>2, <1>4
  <2>2. SumFunctionOnSet(f, {1, 2}) = v
    <3>. HIDE DEF f
    <3>. QED
      BY <1>6, <2>1
  <2>. QED
    BY <1>4, <2>2, SumOf DEF TotalCredit
<1>9. Effect(lines, Inventory) = v
  <2>. DEFINE f == [i \in {1, 2} |-> IF lines[i].account = Inventory
                                     THEN lines[i].debit - lines[i].credit ELSE 0]
  <2>1. f[1] = v /\ \A j \in {1, 2} \ {1} : f[j] = 0
    BY <1>2, <1>3, <1>4
  <2>2. SumFunctionOnSet(f, {1, 2}) = v
    <3>. HIDE DEF f
    <3>. QED
      BY <1>6, <2>1
  <2>. QED
    BY <1>4, <2>2, SumOf DEF Effect
<1>10. \A i \in DOMAIN lines : OneSided(lines[i])
  BY <1>2, <1>4 DEF OneSided
<1>. QED
  BY <1>1, <1>4, <1>7, <1>8, <1>9, <1>10 DEF ValidateBalance

\* What the books say the inventory is worth, and what was accepted into it.
Booked(entries) == SumFunction([e \in entries |-> Effect(e.lines, Inventory)])

ValueOf(q) == InboundValue(orders[receipts[q].order].terms.items, receipts[q].items)

LEMMA BookedAfter ==
    ASSUME NEW J \in SUBSET EntryRow, IsFiniteSet(J), NEW e \in EntryRow, e \notin J
    PROVE  Booked(J \cup {e}) = Booked(J) + Effect(e.lines, Inventory)
<1>. DEFINE f == [x \in J \cup {e} |-> Effect(x.lines, Inventory)]
            g == [x \in J |-> Effect(x.lines, Inventory)]
<1>1. \A x \in J \cup {e} : f[x] \in Int
  BY EffectType DEF EntryRow
<1>2. (\A x \in J : f[x] = g[x]) /\ f[e] = Effect(e.lines, Inventory)
  OBVIOUS
<1>3. Booked(J \cup {e}) = SumFunctionOnSet(f, J \cup {e}) /\ Booked(J) = SumFunctionOnSet(g, J)
  BY SumOf DEF Booked
<1>. HIDE DEF f, g
<1>4. SumFunctionOnSet(f, J \cup {e}) = SumFunctionOnSet(f, J) + f[e]
  BY <1>1, SumAdd
<1>5. SumFunctionOnSet(f, J) = SumFunctionOnSet(g, J)
  BY <1>2, SumSame
<1>. QED
  BY <1>2, <1>3, <1>4, <1>5

LEMMA BooksTellReceiptsStep ==
    ASSUME IInv, NEW r \in Requests, Commits(r)
    PROVE  BooksTellReceipts'
<1>0. BooksTellReceipts /\ DocumentsAgree /\ TypeOK
  BY DEF IInv
<1>. DEFINE old == [q \in Posted |-> InboundValue(orders[receipts[q].order].terms.items,
                                                  receipts[q].items)]
            new == [q \in Posted' |-> InboundValue(orders'[receipts'[q].order].terms.items,
                                                   receipts'[q].items)]
<1>1. /\ Booked(journal) = SumFunctionOnSet(old, Posted)
      /\ \A e \in journal : ValidateBalance(e.lines)
  BY <1>0, SumOf DEF BooksTellReceipts, Booked
<1>2. SUFFICES /\ Booked(journal') = SumFunctionOnSet(new, Posted')
               /\ \A e \in journal' : ValidateBalance(e.lines)
  <2>1. SumFunction(new) = SumFunctionOnSet(new, Posted')
    BY SumOf
  <2>. QED
    BY <2>1 DEF BooksTellReceipts, Booked
<1>3. ASSUME NEW q \in Posted
      PROVE  /\ orders'[receipts[q].order].terms = orders[receipts[q].order].terms
             /\ old[q] \in Nat
  <2>1. \A i \in DOMAIN receipts[q].items :
          receipts[q].items[i].product \in ProductsOf(orders[receipts[q].order].terms.items)
    BY <1>0 DEF DocumentsAgree
  <2>. QED
    BY <2>1, ReceiptType, OrdersStay, InboundValueType
<1>4. IsFiniteSet(Posted)
  BY <1>0 DEF DocumentsAgree
<1>5. CASE ~Receives(r)
  <2>1. UNCHANGED <<receipts, journal>> /\ Posted' = Posted
    BY <1>5, OnlyReceiptsReceive DEF Posted
  <2>2. \A q \in Posted : new[q] = old[q]
    BY <1>3, <2>1
  <2>. HIDE DEF old, new
  <2>3. SumFunctionOnSet(new, Posted) = SumFunctionOnSet(old, Posted)
    BY <1>4, <2>2, SumSame
  <2>. QED
    BY <1>1, <2>1, <2>3
<1>6. CASE Receives(r)
  <2>. DEFINE items == cmd[r].items
              ordered == orders[cmd[r].order].terms.items
              value == InboundValue(ordered, items)
              entry == [doc |-> r, lines |-> ReceiptLines(value)]
  <2>1. Posted' = Posted \cup {r} /\ r \notin Posted /\ \A q \in Posted : receipts'[q] = receipts[q]
    BY <1>6, PostedAfter, ReceiveLeaves DEF Posted
  <2>2. /\ receipts'[r].order = cmd[r].order /\ receipts'[r].items = items
        /\ orders'[cmd[r].order].terms = orders[cmd[r].order].terms
    BY <1>6, ReceiveLeaves
  <2>3. value \in Nat
    <3>1. items \in Seq(ReceiptItem) /\ ordered \in Seq(OrderItem)
      BY <1>6, ReceiveFacts
    <3>2. \A i \in DOMAIN items : items[i].product \in ProductsOf(ordered)
      BY <1>6 DEF Receives, Reconciles
    <3>. QED
      BY <3>1, <3>2, InboundValueType
  <2>4. new[r] = value /\ \A q \in Posted : new[q] = old[q]
    BY <1>3, <2>1, <2>2
  <2>5. \A q \in Posted \cup {r} : new[q] \in Int
    BY <1>3, <2>3, <2>4
  <2>6. journal' = IF value > 0 THEN journal \cup {entry} ELSE journal
    BY <1>6 DEF Receives, ReceiptEntries
  <2>. HIDE DEF old, new, value
  <2>7. SumFunctionOnSet(new, Posted \cup {r}) = SumFunctionOnSet(new, Posted) + new[r]
    BY <1>4, <2>1, <2>5, SumAdd
  <2>8. SumFunctionOnSet(new, Posted) = SumFunctionOnSet(old, Posted)
    BY <1>4, <2>4, SumSame
  <2>9. SumFunctionOnSet(old, Posted) \in Int
    BY <1>3, <1>4, SumInt
  <2>10. SumFunctionOnSet(new, Posted') = Booked(journal) + value
    BY <1>1, <2>1, <2>4, <2>7, <2>8
  <2>11. CASE value > 0
    <3>1. /\ ReceiptLines(value) \in Seq(Line) /\ ValidateBalance(ReceiptLines(value))
          /\ Effect(ReceiptLines(value), Inventory) = value
      BY <2>3, <2>11, ReceiptLinesBalance
    <3>2. entry \in EntryRow /\ entry.lines = ReceiptLines(value) /\ entry.doc = r
      BY <3>1 DEF EntryRow
    <3>3. entry \notin journal /\ journal \in SUBSET EntryRow /\ IsFiniteSet(journal)
      BY <1>0, <2>1, <3>2 DEF DocumentsAgree, TypeOK, DataTypeOK
    <3>. HIDE DEF entry
    <3>4. Booked(journal \cup {entry}) = Booked(journal) + Effect(entry.lines, Inventory)
      BY <3>2, <3>3, BookedAfter
    <3>. QED
      BY <1>1, <2>6, <2>10, <2>11, <3>1, <3>2, <3>4
  <2>12. CASE ~(value > 0)
    <3>1. value = 0 /\ journal' = journal
      BY <2>3, <2>6, <2>12
    <3>. QED
      BY <1>1, <2>9, <2>10, <3>1
  <2>. QED
    BY <2>11, <2>12
<1>. QED
  BY <1>5, <1>6

-----------------------------------------------------------------------------
(***************************************************************************)
(* The invariant.                                                          *)
(***************************************************************************)
LEMMA InitType == Init => TypeOK
<1>. SUFFICES ASSUME Init PROVE TypeOK
  OBVIOUS
<1>1. Promise!Init
  BY DEF Init
<1>2. orders \in [Orders -> OrderRow \cup {NoRow}]
  <2>1. \A o \in DOMAIN InitialOrders : InitialOrders[o] \in OrderRow
    BY ProcurementAssumption
  <2>2. orders = [o \in Orders |-> IF o \in DOMAIN InitialOrders THEN InitialOrders[o]
                                                                 ELSE NoRow]
    BY <1>1 DEF Promise!Init, Promise!Orders, Orders
  <2>. QED
    BY <2>1, <2>2
<1>3. DataTypeOK
  BY <1>1, <1>2, ProcurementAssumption DEF Promise!Init, DataTypeOK, Days
<1>4. SessionTypeOK
  BY DEF Init, SessionTypeOK
<1>. QED
  BY <1>3, <1>4 DEF TypeOK

LEMMA InitOrders ==
    ASSUME Init, NEW o \in Issued
    PROVE  orders[o] \in OrderRow /\ orders[o].status \in {"ISSUED", "CANCELLED"}
           /\ o \in DOMAIN InitialOrders
<1>1. orders = [x \in Orders |-> IF x \in DOMAIN InitialOrders THEN InitialOrders[x]
                                                               ELSE NoRow]
  BY DEF Init, Promise!Init, Promise!Orders, Orders
<1>2. o \in DOMAIN InitialOrders /\ orders[o] = InitialOrders[o]
  BY <1>1 DEF Issued
<1>. QED
  BY <1>2, ProcurementAssumption

LEMMA InitIInv == Init => IInv
<1>. SUFFICES ASSUME Init PROVE IInv
  OBVIOUS
<1>1. TypeOK
  BY InitType
<1>2. /\ receipts = [r \in Requests |-> NoRow] /\ movements = {} /\ journal = {}
      /\ stock = InitialStock /\ listed = [p \in Products |-> TRUE]
  BY DEF Init, Promise!Init
<1>3. Posted = {}
  BY <1>2 DEF Posted
<1>4. \A o, p : Received(receipts, o, p) = 0
  <2>1. \A o : ReceiptsOf(receipts, o) = {}
    BY <1>2 DEF ReceiptsOf
  <2>. QED
    BY <2>1, ReceivedOfNone
<1>5. LocksExclusive
  BY DEF Init, LocksExclusive
<1>6. DocumentsAgree
  BY <1>2, <1>3, FS_EmptySet DEF DocumentsAgree
<1>7. ASSUME NEW r \in Requests PROVE SessionInv(r)
  <2>1. pc[r] = "idle" /\ held[r] = {} /\ receipts[r] = NoRow
    BY <1>2 DEF Init
  <2>2. orders[r] = NoRow
    <3>1. r \in Orders /\ r \notin DOMAIN InitialOrders
      BY ProcurementAssumption DEF Orders
    <3>. QED
      BY <3>1, InitOrders DEF Issued
  <2>3. /\ pc[r] \notin Steps /\ pc[r] \notin Comply \cup Judged /\ pc[r] \notin PastPolicy
        /\ pc[r] \notin Posting /\ pc[r] \notin {"check", "products", "order", "reconcile",
                                               "insert", "item", "balance", "only", "certificate"}
    BY <2>1 DEF Steps, Comply, Judged, PastPolicy, Posting
  <2>4. StepFitsCommand(r) /\ LocksSoFar(r) /\ TermsChecked(r) /\ OrderHeld(r)
    BY <2>1, <2>3 DEF StepFitsCommand, LocksSoFar, TermsChecked, OrderHeld, Doing, Comply
  <2>5. ComplianceHeld(r) /\ ProductsHeld(r) /\ DeliveryFits(r) /\ BalancesCounted(r)
    BY <2>3 DEF ComplianceHeld, ProductsHeld, DeliveryFits, BalancesCounted
  <2>6. NothingWritten(r)
    BY <2>1, <2>2 DEF NothingWritten
  <2>. QED
    BY <2>4, <2>5, <2>6 DEF SessionInv
<1>8. NeverOverReceived
  <2>1. SUFFICES ASSUME NEW o \in Issued, NEW i \in DOMAIN orders[o].terms.items
                 PROVE  Received(receipts, o, orders[o].terms.items[i].product)
                          <= orders[o].terms.items[i].quantity
    BY DEF NeverOverReceived
  <2>2. orders[o].terms.items \in Seq(OrderItem)
    BY <2>1, InitOrders DEF OrderRow, Terms
  <2>3. orders[o].terms.items[i] \in OrderItem
    BY <2>2, Interval
  <2>. QED
    BY <1>4, <2>3 DEF OrderItem
<1>9. StatusTellsReceived
  <2>1. SUFFICES ASSUME NEW o \in Issued PROVE Tells(receipts, o, orders[o])
    BY StatusTellsMeans
  <2>. QED
    BY <1>4, InitOrders, TellsMeans
<1>10. ReceiptOncePerKey
  BY <1>3 DEF ReceiptOncePerKey
<1>11. WithdrawnIsNotAwaited
  BY <1>2 DEF WithdrawnIsNotAwaited
<1>12. StockIsSumOfMovements
  <2>1. ASSUME NEW p \in Products PROVE stock[p] = InitialStock[p] + Net(movements, p)
    <3>1. Net({}, p) = 0
      <4>. DEFINE f == [m \in {n \in {} : n.product = p} |-> m.delta]
      <4>1. Net({}, p) = SumFunctionOnSet(f, {})
        BY SumOf DEF Net
      <4>2. SumFunctionOnSet(f, {}) = 0
        BY SumEmpty
      <4>. HIDE DEF f
      <4>. QED
        BY <4>1, <4>2
    <3>2. InitialStock[p] \in Nat
      BY ProcurementAssumption
    <3>. QED
      BY <1>2, <3>1, <3>2
  <2>. QED
    BY <1>2, <1>3, <2>1 DEF StockIsSumOfMovements
<1>13. BooksTellReceipts
  <2>1. \A f : DOMAIN f = {} => SumFunction(f) = 0
    BY SumOf, SumEmpty
  <2>. QED
    BY <1>2, <1>3, <2>1 DEF BooksTellReceipts
<1>. QED
  BY <1>1, <1>5, <1>6, <1>7, <1>8, <1>9, <1>10, <1>11, <1>12, <1>13 DEF IInv

DocumentInv ==
    /\ DocumentsAgree
    /\ NeverOverReceived
    /\ StatusTellsReceived
    /\ ReceiptOncePerKey
    /\ WithdrawnIsNotAwaited
    /\ StockIsSumOfMovements
    /\ BooksTellReceipts

\* What is said of the documents only is as true after a step that writes none.
LEMMA DocumentsStand ==
    ASSUME DocumentInv,
           UNCHANGED <<orders, receipts, listed, stock, movements, journal>>
    PROVE  DocumentInv'
<1>1. Posted' = Posted /\ Issued' = Issued
  BY DEF Posted, Issued
<1>2. orders' = orders /\ receipts' = receipts /\ listed' = listed /\ stock' = stock
      /\ movements' = movements /\ journal' = journal
  OBVIOUS
<1>3. DocumentsAgree'
  BY <1>1, <1>2 DEF DocumentInv, DocumentsAgree
<1>4. NeverOverReceived'
  BY <1>1, <1>2 DEF DocumentInv, NeverOverReceived
<1>5. StatusTellsReceived'
  BY <1>1, <1>2 DEF DocumentInv, StatusTellsReceived
<1>6. ReceiptOncePerKey'
  BY <1>1, <1>2 DEF DocumentInv, ReceiptOncePerKey
<1>7. WithdrawnIsNotAwaited'
  BY <1>1, <1>2 DEF DocumentInv, WithdrawnIsNotAwaited
<1>8. StockIsSumOfMovements'
  BY <1>1, <1>2 DEF DocumentInv, StockIsSumOfMovements
<1>9. BooksTellReceipts'
  BY <1>1, <1>2 DEF DocumentInv, BooksTellReceipts
<1>. QED
  BY <1>3, <1>4, <1>5, <1>6, <1>7, <1>8, <1>9 DEF DocumentInv

LEMMA IInvStep == IInv /\ [Next]_vars => IInv'
<1>. SUFFICES ASSUME IInv, [Next]_vars PROVE IInv'
  OBVIOUS
<1>0. DocumentInv
  BY DEF IInv, DocumentInv
<1>1. ASSUME NEW r \in Requests, Step(r) PROVE IInv'
  <2>1. TypeOK' /\ LocksExclusive'
    BY <1>1, TypeStep, LocksExclusiveStep
  <2>2. \A q \in Requests : SessionInv(q)'
    BY <1>1, MoverKeeps, OthersKeep
  <2>3. DocumentInv'
    <3>1. CASE UNCHANGED data
      BY <1>0, <3>1, DocumentsStand DEF data
    <3>2. CASE Commits(r)
      BY <3>2, DocumentsAgreeStep, NeverOverReceivedStep, StatusTellsReceivedStep,
         ReceiptOncePerKeyStep, WithdrawnIsNotAwaitedStep, StockIsSumOfMovementsStep,
         BooksTellReceiptsStep DEF DocumentInv
    <3>. QED
      BY <1>1, <3>1, <3>2, Effects
  <2>. QED
    BY <2>1, <2>2, <2>3 DEF IInv, DocumentInv
<1>2. CASE Midnight
  <2>1. DocumentInv'
    BY <1>0, <1>2, DocumentsStand DEF Midnight
  <2>. QED
    BY <1>2, <2>1, MidnightKeeps DEF IInv, DocumentInv
<1>3. CASE UNCHANGED vars
  <2>1. UNCHANGED <<data, session>>
    BY <1>3 DEF vars
  <2>2. DocumentInv'
    BY <1>0, <2>1, DocumentsStand DEF data
  <2>3. TypeOK' /\ LocksExclusive'
    BY <2>1 DEF IInv, TypeOK, DataTypeOK, SessionTypeOK, LocksExclusive, data, session
  <2>4. ASSUME NEW q \in Requests PROVE SessionInv(q)'
    <3>1. GuaranteedTo(q)
      BY <2>1, NothingGuaranteed
    <3>2. day <= day'
      BY <2>1, ProcurementAssumption DEF data, IInv, TypeOK, DataTypeOK, Days
    <3>3. /\ pc'[q] = pc[q] /\ cmd'[q] = cmd[q] /\ held'[q] = held[q]
          /\ rules'[q] = rules[q] /\ decision'[q] = decision[q]
          /\ toPost'[q] = toPost[q] /\ work'[q] = work[q]
      BY <2>1 DEF session
    <3>. QED
      BY <2>3, <3>1, <3>2, <3>3, WaiterKeeps
  <2>. QED
    BY <2>2, <2>3, <2>4 DEF IInv, DocumentInv
<1>. QED
  BY <1>1, <1>2, <1>3 DEF Next, Step

\* However the supply-chain sessions interleave and fail, and days pass, the locks
\* of a session guarantee it what it read, and the documents agree: what a session
\* relies on between its statements (service.go, compliance.go) is still so when it
\* commits.
THEOREM Inductive == Spec => []IInv
<1>. QED
  BY InitIInv, IInvStep, PTL DEF Spec

\* Every variable keeps its type.
THEOREM TypeCorrect == Spec => []TypeOK
<1>1. IInv => TypeOK
  BY DEF IInv
<1>. QED
  BY <1>1, Inductive, PTL

\* No two sessions hold locks that exclude one another: what a session has read
\* under its locks, no other changes before it commits.
THEOREM LocksNeverShared == Spec => []LocksExclusive
<1>1. IInv => LocksExclusive
  BY DEF IInv
<1>. QED
  BY <1>1, Inductive, PTL

\* No order is ever accepted into stock beyond what it ordered, by however many
\* receipts at once (reconcileReceiptItems under the lock of the order).
THEOREM ReceivingWithinOrders == Spec => []NeverOverReceived
<1>1. IInv => NeverOverReceived
  BY DEF IInv
<1>. QED
  BY <1>1, Inductive, PTL

\* The status of every order says what its receipts say (CreateGoodsReceipt,
\* CancelPurchaseOrder).
THEOREM StatusCorrect == Spec => []StatusTellsReceived
<1>1. IInv => StatusTellsReceived
  BY DEF IInv
<1>. QED
  BY <1>1, Inductive, PTL

\* One Idempotency-Key leaves at most one receipt (the unique constraint on
\* goods_receipts.idempotency_key and the lookups before it).
THEOREM AtMostOneReceiptPerKey == Spec => []ReceiptOncePerKey
<1>1. IInv => ReceiptOncePerKey
  BY DEF IInv
<1>. QED
  BY <1>1, Inductive, PTL

\* No product an order still awaits is withdrawn from sale
\* (rejectOutstandingPurchaseOrders and LockActiveProductsForPurchaseOrder).
THEOREM NoneWithdrawnAwaited == Spec => []WithdrawnIsNotAwaited
<1>1. IInv => WithdrawnIsNotAwaited
  BY DEF IInv
<1>. QED
  BY <1>1, Inductive, PTL

\* Stock is what there was and the sum of the receipts' movements, one for each
\* line of which anything was accepted (PostMovementTx).
THEOREM NoLostReceipt == Spec => []StockIsSumOfMovements
<1>1. IInv => StockIsSumOfMovements
  BY DEF IInv
<1>. QED
  BY <1>1, Inductive, PTL

\* The journal balances and values the inventory at what was accepted into it
\* (RecordGoodsReceipt).
THEOREM BooksCorrect == Spec => []BooksTellReceipts
<1>1. IInv => BooksTellReceipts
  BY DEF IInv
<1>. QED
  BY <1>1, Inductive, PTL

-----------------------------------------------------------------------------
(***************************************************************************)
(* The decisions on record.                                                *)
(***************************************************************************)
LEMMA PermittedIsLawful ==
    ASSUME IInv, NEW terms \in Terms, NEW d \in Promise!Permitted(terms)
    PROVE  Lawful(terms, d)
<1>. DEFINE good(k) == Satisfies(policy, terms.supplier, CertificateOf(terms), k)
<1>1. PICK k \in 1..day : d =
                  [policy |-> policy, supplier |-> terms.supplier,
                   certificate |-> terms.certificate, day |-> k,
                   outcome |-> Outcome(policy, terms.supplier, CertificateOf(terms), k)]
  BY PermittedMeans
<1>2. suppliers[terms.supplier] = "active" /\ d.outcome # "BLOCKED"
  BY PermittedMeans
<1>3. policy.strict \in BOOLEAN
  BY DEF IInv, TypeOK, DataTypeOK, Policy
<1>4. good(k) \in BOOLEAN
  BY DEF Satisfies
<1>5. /\ d.policy = policy /\ d.day = k
      /\ d.outcome = Outcome(policy, terms.supplier, CertificateOf(terms), k)
  BY <1>1
<1>. HIDE DEF good
<1>6. /\ good(k) => d.outcome = "ACCEPTED"
      /\ ~good(k) /\ policy.strict => d.outcome = "BLOCKED"
      /\ ~good(k) /\ ~policy.strict => d.outcome = "WARNING"
  <2>1. CASE good(k)
    BY <1>5, <2>1 DEF Outcome, good
  <2>2. CASE ~good(k) /\ policy.strict
    BY <1>5, <2>2 DEF Outcome, good
  <2>3. CASE ~good(k) /\ ~policy.strict
    BY <1>5, <2>3 DEF Outcome, good
  <2>. QED
    BY <1>3, <1>4, <2>1, <2>2, <2>3
<1>7. d.outcome = (IF good(k) THEN "ACCEPTED" ELSE "WARNING") /\ (policy.strict => good(k))
  BY <1>2, <1>3, <1>4, <1>6
<1>8. good(d.day) = good(k)
  BY <1>5
<1>. QED
  BY <1>2, <1>5, <1>7, <1>8 DEF Lawful, good, CertificateOf

LEMMA DecisionStep ==
    IInv /\ [Next]_vars =>
      [/\ \A o \in Orders : orders[o] = NoRow /\ orders'[o] # NoRow =>
             Lawful(orders'[o].terms, orders'[o].decision)
       /\ \A r \in Requests : receipts[r] = NoRow /\ receipts'[r] # NoRow =>
             Lawful(orders[receipts'[r].order].terms, receipts'[r].decision)]_vars
<1>. SUFFICES ASSUME IInv, [Next]_vars
              PROVE  /\ \A o \in Orders : orders[o] = NoRow /\ orders'[o] # NoRow =>
                            Lawful(orders'[o].terms, orders'[o].decision)
                     /\ \A r \in Requests : receipts[r] = NoRow /\ receipts'[r] # NoRow =>
                            Lawful(orders[receipts'[r].order].terms, receipts'[r].decision)
  OBVIOUS
<1>1. CASE UNCHANGED <<orders, receipts>>
  BY <1>1
<1>2. ASSUME NEW r \in Requests, Commits(r)
      PROVE  /\ \A o \in Orders : orders[o] = NoRow /\ orders'[o] # NoRow =>
                    Lawful(orders'[o].terms, orders'[o].decision)
             /\ \A q \in Requests : receipts[q] = NoRow /\ receipts'[q] # NoRow =>
                    Lawful(orders[receipts'[q].order].terms, receipts'[q].decision)
  <2>1. ASSUME NEW o \in Orders, orders[o] = NoRow, orders'[o] # NoRow
        PROVE  Lawful(orders'[o].terms, orders'[o].decision)
    <3>1. o \in Issued' /\ o \notin Issued
      BY <2>1 DEF Issued
    <3>2. /\ Issues(r) /\ o = r /\ orders'[o].terms = cmd[r].terms /\ cmd[r].terms \in Terms
      BY <1>2, <3>1, IssuedAfter
    <3>3. orders'[o].decision = decision[r]
      BY <3>2, IssueLeaves
    <3>4. decision[r] \in Promise!Permitted(cmd[r].terms)
      BY <3>2 DEF Issues
    <3>5. Lawful(cmd[r].terms, decision[r])
      BY <3>2, <3>4, PermittedIsLawful
    <3>. QED
      BY <3>2, <3>3, <3>5
  <2>2. ASSUME NEW q \in Requests, receipts[q] = NoRow, receipts'[q] # NoRow
        PROVE  Lawful(orders[receipts'[q].order].terms, receipts'[q].decision)
    <3>1. Receives(r)
      BY <1>2, <2>2, OnlyReceiptsReceive
    <3>2. q = r
      BY <2>2, <3>1, ReceiveLeaves
    <3>3. receipts'[q].order = cmd[r].order /\ receipts'[q].decision = decision[r]
      BY <3>1, <3>2, ReceiveLeaves
    <3>4. /\ orders[cmd[r].order].terms \in Terms
          /\ decision[r] \in Promise!Permitted(orders[cmd[r].order].terms)
      BY <3>1, ReceiveFacts DEF Receives
    <3>5. Lawful(orders[cmd[r].order].terms, decision[r])
      BY <3>4, PermittedIsLawful
    <3>. QED
      BY <3>3, <3>5
  <2>. QED
    BY <2>1, <2>2
<1>3. CASE UNCHANGED vars \/ Midnight
  BY <1>1, <1>3 DEF vars, data, Midnight
<1>4. ASSUME NEW r \in Requests, Step(r)
      PROVE  UNCHANGED <<orders, receipts>> \/ Commits(r)
  BY <1>4, Effects DEF data
<1>. QED
  BY <1>1, <1>2, <1>3, <1>4 DEF Next, Step

\* Every document is written under the policy, the supplier and the certificate of
\* the moment, and its decision on record is the one they give: the locks
\* checkCompliance takes are held until the commit.
THEOREM DecisionsLawful == Spec => DecisionIsCurrent
<1>. QED
  BY Inductive, DecisionStep, PTL DEF Spec, DecisionIsCurrent

-----------------------------------------------------------------------------
(***************************************************************************)
(* The abstract specification.  What a session writes is one of its steps; *)
(* the operators on data mean in it what they mean here.                   *)
(***************************************************************************)
LEMMA PromiseSum ==
    \A f : Promise!SumFunction(f) = SumFunction(f)
<1>. SUFFICES ASSUME NEW f PROVE Promise!SumFunction(f) = SumFunction(f)
  OBVIOUS
<1>. QED
  BY DEF Promise!SumFunction, Promise!SumFunctionOnSet, Promise!FoldFunctionOnSet,
         Promise!MapThenFoldSet, SumFunction, SumFunctionOnSet, FoldFunctionOnSet,
         MapThenFoldSet

LEMMA PromiseOrders ==
    /\ Promise!Orders = Orders
    /\ \A order : Promise!Open(order) <=> Open(order)
    /\ \A items : Promise!ProductsOf(items) = ProductsOf(items)
    /\ \A terms : Promise!TermsAccepted(terms) <=> TermsAccepted(terms)
<1>1. \A items : Promise!OrderTotal(items) = OrderTotal(items)
  BY PromiseSum DEF Promise!OrderTotal, OrderTotal
<1>2. \A terms : Promise!TermsAccepted(terms) <=> TermsAccepted(terms)
  BY <1>1 DEF Promise!TermsAccepted, TermsAccepted
<1>3. \A items : Promise!ProductsOf(items) = ProductsOf(items)
  BY DEF Promise!ProductsOf, ProductsOf
<1>4. \A order : Promise!Open(order) <=> Open(order)
  BY DEF Promise!Open, Open
<1>. QED
  BY <1>2, <1>3, <1>4 DEF Promise!Orders, Orders

LEMMA PromiseReceived ==
    /\ \A items, p : Promise!Accepted(items, p) = Accepted(items, p)
    /\ \A R, o, p : Promise!Received(R, o, p) = Received(R, o, p)
<1>1. ASSUME NEW items, NEW p PROVE Promise!Accepted(items, p) = Accepted(items, p)
  BY PromiseSum DEF Promise!Accepted, Accepted
<1>2. ASSUME NEW R, NEW o, NEW p PROVE Promise!Received(R, o, p) = Received(R, o, p)
  <2>1. Promise!ReceiptsOf(R, o) = ReceiptsOf(R, o)
    BY DEF Promise!ReceiptsOf, ReceiptsOf
  <2>2. [r \in ReceiptsOf(R, o) |-> Promise!Accepted(R[r].items, p)]
          = [r \in ReceiptsOf(R, o) |-> Accepted(R[r].items, p)]
    BY <1>1
  <2>. QED
    BY <2>1, <2>2, PromiseSum DEF Promise!Received, Received
<1>. QED
  BY <1>1, <1>2

LEMMA PromiseReconciles ==
    ASSUME NEW R, NEW o, NEW ordered, NEW delivered
    PROVE  Promise!Reconciles(R, o, ordered, delivered) <=> Reconciles(R, o, ordered, delivered)
<1>1. \A items : Promise!Unambiguous(items) <=> Unambiguous(items)
  BY DEF Promise!Unambiguous, Unambiguous, Promise!IsInjective, IsInjective
<1>2. \A item : Promise!Inspected(item) <=> Inspected(item)
  BY DEF Promise!Inspected, Inspected
<1>3. \A p : Promise!Outstanding(R, o, ordered, p) = Outstanding(R, o, ordered, p)
  BY PromiseReceived DEF Promise!Outstanding, Outstanding, Promise!LineFor, LineFor
<1>4. Promise!ProductsOf(ordered) = ProductsOf(ordered)
  BY PromiseOrders
<1>. QED
  BY <1>1, <1>2, <1>3, <1>4 DEF Promise!Reconciles, Reconciles

LEMMA PromiseStatus ==
    ASSUME NEW R, NEW o, NEW order, NEW delivered
    PROVE  Promise!StatusAfter(R, o, order, delivered) = StatusAfter(R, o, order, delivered)
<1>1. Promise!Completes(R, o, order.terms.items, delivered)
        <=> Completes(R, o, order.terms.items, delivered)
  BY PromiseReceived DEF Promise!Completes, Completes
<1>2. Promise!HasAccepted(delivered) <=> HasAccepted(delivered)
  BY DEF Promise!HasAccepted, HasAccepted
<1>3. CASE Completes(R, o, order.terms.items, delivered)
  BY <1>1, <1>3 DEF Promise!StatusAfter, StatusAfter
<1>4. CASE ~Completes(R, o, order.terms.items, delivered)
  BY <1>1, <1>2, <1>4 DEF Promise!StatusAfter, StatusAfter
<1>. QED
  BY <1>3, <1>4

LEMMA PromiseBooks ==
    /\ \A doc, items : Promise!ReceiptMovements(doc, items) = ReceiptMovements(doc, items)
    /\ \A doc, ordered, delivered :
          Promise!ReceiptEntries(doc, ordered, delivered) = ReceiptEntries(doc, ordered, delivered)
<1>1. \A doc, items : Promise!ReceiptMovements(doc, items) = ReceiptMovements(doc, items)
  BY DEF Promise!ReceiptMovements, ReceiptMovements, Promise!ReceiptMovement, ReceiptMovement
<1>2. ASSUME NEW ordered, NEW delivered
      PROVE  Promise!InboundValue(ordered, delivered) = InboundValue(ordered, delivered)
  BY PromiseSum DEF Promise!InboundValue, InboundValue, Promise!LineFor, LineFor
<1>3. ASSUME NEW v PROVE Promise!ReceiptLines(v) = ReceiptLines(v)
  BY DEF Promise!ReceiptLines, ReceiptLines, Promise!Debit, Debit, Promise!Credit, Credit,
         Promise!Inventory, Inventory, Promise!Payable, Payable
<1>4. ASSUME NEW doc, NEW ordered, NEW delivered
      PROVE  Promise!ReceiptEntries(doc, ordered, delivered)
               = ReceiptEntries(doc, ordered, delivered)
  BY <1>2, <1>3 DEF Promise!ReceiptEntries, ReceiptEntries
<1>. QED
  BY <1>1, <1>4

LEMMA PromiseAwaited ==
    \A os, R, p : Promise!Awaited(os, R, p) <=> Awaited(os, R, p)
  BY PromiseOrders, PromiseReceived DEF Promise!Awaited, Awaited

LEMMA CommittedCommand ==
    ASSUME IInv, NEW r \in Requests, cmd[r].op # "none"
    PROVE  cmd[r] \in Commands
  BY DEF IInv, TypeOK, SessionTypeOK, NoCommand

LEMMA IssueKept ==
    ASSUME IInv, NEW r \in Requests, Issues(r)
    PROVE  Promise!Next
<1>1. cmd[r] \in IssueCommand /\ cmd[r].op = "issue"
  BY DEF Issues, IssueCommand
<1>2. cmd[r] \in Commands
  BY <1>1, CommittedCommand
<1>3. Promise!Issue(r, cmd[r].terms)
  BY PromiseOrders DEF Issues, Promise!Issue
<1>. QED
  BY <1>1, <1>2, <1>3 DEF Promise!Next

LEMMA ReceiveKept ==
    ASSUME IInv, NEW r \in Requests, Receives(r)
    PROVE  Promise!Next
<1>. DEFINE c == cmd[r]
            o == c.order
<1>1. c \in ReceiveCommand /\ c.op = "receive"
  BY DEF Receives, ReceiveCommand
<1>2. c \in Commands
  BY <1>1, CommittedCommand
<1>3. /\ receipts[r] = NoRow
      /\ \A q \in Requests : receipts[q] # NoRow => receipts[q].key # c.key
  BY DEF Receives, KeyTaken
<1>4. Promise!Open(orders[o]) /\ Promise!Reconciles(receipts, o, orders[o].terms.items, c.items)
  BY PromiseOrders, PromiseReconciles DEF Receives
<1>5. /\ decision[r] \in Promise!Permitted(orders[o].terms)
      /\ receipts' = [receipts EXCEPT ![r] = [order |-> o, key |-> c.key, items |-> c.items,
                                              decision |-> decision[r]]]
  BY DEF Receives
<1>6. orders' = [orders EXCEPT ![o].status =
                    Promise!StatusAfter(receipts, o, orders[o], c.items)]
  BY PromiseStatus DEF Receives
<1>7. stock' = [p \in Products |-> stock[p] + Promise!Accepted(c.items, p)]
  BY PromiseReceived DEF Receives
<1>8. /\ movements' = movements \cup Promise!ReceiptMovements(r, c.items)
      /\ journal' = journal \cup Promise!ReceiptEntries(r, orders[o].terms.items, c.items)
      /\ UNCHANGED <<suppliers, certificates, policy, listed, day>>
  BY PromiseBooks DEF Receives
<1>9. Promise!Receive(r, c)
  BY <1>3, <1>4, <1>5, <1>6, <1>7, <1>8 DEF Promise!Receive
<1>. QED
  BY <1>1, <1>2, <1>9 DEF Promise!Next

LEMMA CancelKept ==
    ASSUME NEW r \in Requests, Cancels(r)
    PROVE  Promise!Next
<1>1. cmd[r].order \in Promise!Orders
  BY PromiseOrders DEF Cancels, CancelCommand
<1>2. Promise!Cancel(cmd[r].order)
  BY PromiseReceived DEF Cancels, Cancellable, Promise!Cancel
<1>. QED
  BY <1>1, <1>2 DEF Promise!Next

LEMMA ListKept ==
    ASSUME NEW r \in Requests, Lists(r)
    PROVE  Promise!Next
<1>1. cmd[r].product \in Products /\ cmd[r].active \in BOOLEAN
  BY DEF Lists, ListCommand
<1>2. Promise!List(cmd[r].product, cmd[r].active)
  BY PromiseAwaited DEF Lists, Withdrawable, Promise!List
<1>. QED
  BY <1>1, <1>2 DEF Promise!Next

LEMMA RulesKept ==
    ASSUME IInv, NEW r \in Requests, Rules(r)
    PROVE  Promise!Next
<1>. DEFINE c == cmd[r]
<1>1. UNCHANGED <<orders, receipts, listed, stock, movements, journal, day>>
  BY DEF Rules
<1>2. SUFFICES \/ \E k \in Commands :
                     \/ k.op = "enroll" /\ Promise!Enroll(k)
                     \/ k.op = "supplier" /\ Promise!Suspend(k)
                     \/ k.op = "register" /\ Promise!Register(k)
                     \/ k.op = "configure" /\ Promise!Configure(k)
               \/ \E k \in Certificates : Promise!Revoke(k)
  BY <1>1 DEF Promise!Next, Promise!NewRules
<1>3. CASE /\ c \in SupplierCommand
           /\ suppliers[c.supplier] # "none"
           /\ suppliers' = [suppliers EXCEPT ![c.supplier] =
                              IF c.active THEN "active" ELSE "inactive"]
           /\ UNCHANGED <<certificates, policy>>
  <2>1. c.op = "supplier"
    BY <1>3 DEF SupplierCommand
  <2>2. c \in Commands
    BY <2>1, CommittedCommand
  <2>3. Promise!Suspend(c)
    BY <1>1, <1>3 DEF Promise!Suspend
  <2>. QED
    BY <2>1, <2>2, <2>3
<1>4. CASE /\ c \in EnrollCommand
           /\ suppliers[c.supplier] = "none"
           /\ c.certificate # NoCertificate => certificates[c.certificate] = NoRow
           /\ suppliers' = [suppliers EXCEPT ![c.supplier] = "active"]
           /\ certificates' = [d \in Certificates |->
                 IF d = c.certificate THEN c.row ELSE certificates[d]]
           /\ UNCHANGED policy
  <2>1. c.op = "enroll" /\ c.certificate \in Certificates \cup {NoCertificate}
    BY <1>4 DEF EnrollCommand
  <2>2. c \in Commands
    BY <2>1, CommittedCommand
  <2>3. certificates \in [Certificates -> CertificateRow \cup {NoRow}]
    BY DEF IInv, TypeOK, DataTypeOK
  <2>4. c.certificate = NoCertificate => UNCHANGED certificates
    BY <1>4, <2>3, ProcurementAssumption
  <2>5. c.certificate # NoCertificate =>
           certificates' = [certificates EXCEPT ![c.certificate] = c.row]
    BY <1>4, <2>1, <2>3
  <2>6. Promise!Enroll(c)
    BY <1>1, <1>4, <2>4, <2>5 DEF Promise!Enroll
  <2>. QED
    BY <2>1, <2>2, <2>6
<1>5. CASE /\ c \in RegisterCommand
           /\ suppliers[c.row.supplier] # "none"
           /\ c.row.from <= c.row.expiry
           /\ certificates[c.certificate] = NoRow
           /\ certificates' = [certificates EXCEPT ![c.certificate] = c.row]
           /\ UNCHANGED <<suppliers, policy>>
  <2>1. c.op = "register"
    BY <1>5 DEF RegisterCommand
  <2>2. c \in Commands
    BY <2>1, CommittedCommand
  <2>3. Promise!Register(c)
    BY <1>1, <1>5 DEF Promise!Register
  <2>. QED
    BY <2>1, <2>2, <2>3
<1>6. CASE /\ c \in RevokeCommand
           /\ certificates[c.certificate] # NoRow
           /\ certificates' = [certificates EXCEPT ![c.certificate].revoked = TRUE]
           /\ UNCHANGED <<suppliers, policy>>
  <2>1. c.certificate \in Certificates
    BY <1>6 DEF RevokeCommand
  <2>2. Promise!Revoke(c.certificate)
    BY <1>1, <1>6 DEF Promise!Revoke
  <2>. QED
    BY <2>1, <2>2
<1>7. CASE /\ c \in ConfigureCommand
           /\ policy' = c.policy
           /\ UNCHANGED <<suppliers, certificates>>
  <2>1. c.op = "configure"
    BY <1>7 DEF ConfigureCommand
  <2>2. c \in Commands
    BY <2>1, CommittedCommand
  <2>3. Promise!Configure(c)
    BY <1>1, <1>7 DEF Promise!Configure
  <2>. QED
    BY <2>1, <2>2, <2>3
<1>. QED
  BY <1>3, <1>4, <1>5, <1>6, <1>7 DEF Rules

LEMMA PromiseStep == IInv /\ [Next]_vars => [Promise!Next]_(Promise!data)
<1>. SUFFICES ASSUME IInv, [Next]_vars PROVE UNCHANGED data \/ Promise!Next
  BY DEF Promise!data, data
<1>1. CASE Midnight
  BY <1>1 DEF Midnight, Promise!Next, Promise!NewRules, Promise!Tomorrow
<1>2. ASSUME NEW r \in Requests, Step(r) PROVE UNCHANGED data \/ Promise!Next
  BY <1>2, Effects, IssueKept, ReceiveKept, CancelKept, ListKept, RulesKept DEF Commits
<1>3. CASE UNCHANGED vars
  BY <1>3 DEF vars
<1>. QED
  BY <1>1, <1>2, <1>3 DEF Next, Step

\* However the sessions interleave, what they commit is what one command after the
\* other could have written, each on documents and rules that stand at its commit
\* (the locks of CreatePurchaseOrder, CreateGoodsReceipt and the handlers beside
\* them).
THEOREM EffectAtOnce == Spec => KeepsPromise
<1>1. Init => Promise!Init
  BY DEF Init
<1>. QED
  BY <1>1, Inductive, PromiseStep, PTL DEF Spec, KeepsPromise, Promise!Spec

-----------------------------------------------------------------------------
(***************************************************************************)
(* Nobody waits in a circle.  Every lock has a rank; a session waits for   *)
(* one above all it holds, so along a circle the ranks would rise forever. *)
(***************************************************************************)
Rank(row) ==
    IF row[1] = "order" THEN 0
    ELSE IF row[1] \in {"reading", "writing"} THEN 1
    ELSE IF row[1] = "supplier" THEN 2
    ELSE IF row[1] = "certificate" THEN 3
    ELSE IF row[1] = "key" THEN 4
    ELSE IF row[1] \in {"product", "share"} THEN 5 + 2 * row[2]
    ELSE 6 + 2 * row[2]

LEMMA RankType ==
    ASSUME NEW row \in Row
    PROVE  Rank(row) \in Nat
  BY ProcurementAssumption DEF Row, Rank

LEMMA RivalsRank ==
    ASSUME NEW row, NEW rival \in Rivals(row)
    PROVE  Rank(rival) = Rank(row)
<1>1. CASE row[1] = "product"
  BY <1>1 DEF Rivals, Rank
<1>2. CASE row[1] = "share"
  BY <1>2 DEF Rivals, Rank
<1>3. CASE row[1] = "reading"
  BY <1>3 DEF Rivals, Rank
<1>4. CASE row[1] = "writing"
  BY <1>4 DEF Rivals, Rank
<1>5. CASE row[1] \notin {"product", "share", "reading", "writing"}
  BY <1>5 DEF Rivals
<1>. QED
  BY <1>1, <1>2, <1>3, <1>4, <1>5

\* The row a session waits for, kind by kind.
LEMMA WantedMeans ==
    ASSUME NEW r, NEW row \in Wanted(r)
    PROVE  \/ pc[r] = "order" /\ row[1] = "order"
           \/ pc[r] = "policy" /\ row[1] = "reading"
           \/ pc[r] = "supplier" /\ row[1] = "supplier"
           \/ pc[r] = "certificate" /\ row[1] = "certificate"
           \/ pc[r] = "insert" /\ row[1] = "key"
           \/ /\ \/ pc[r] = "item" /\ row[1] = "share"
                 \/ pc[r] = "balance" /\ row[1] = "inventory"
                 \/ pc[r] = "products" /\ row[1] = "product"
              /\ NextProduct(r, row[2])
<1>1. CASE pc[r] \in {"order", "policy", "supplier", "certificate", "insert"}
  <2>1. CASE pc[r] = "order"
    BY <2>1 DEF Wanted
  <2>2. CASE pc[r] = "policy"
    BY <2>2 DEF Wanted
  <2>3. CASE pc[r] = "supplier"
    BY <2>3 DEF Wanted
  <2>4. CASE pc[r] = "certificate"
    BY <2>4 DEF Wanted
  <2>5. CASE pc[r] = "insert"
    BY <2>5 DEF Wanted
  <2>. QED
    BY <1>1, <2>1, <2>2, <2>3, <2>4, <2>5
<1>2. CASE pc[r] \in {"item", "balance", "products"}
  <2>1. CASE pc[r] = "item"
    BY <2>1 DEF Wanted
  <2>2. CASE pc[r] = "balance"
    BY <2>2 DEF Wanted
  <2>3. CASE pc[r] = "products"
    BY <2>3 DEF Wanted
  <2>. QED
    BY <1>2, <2>1, <2>2, <2>3
<1>3. CASE pc[r] \notin {"order", "policy", "supplier", "certificate", "insert",
                         "item", "balance", "products"}
  BY <1>3 DEF Wanted
<1>. QED
  BY <1>1, <1>2, <1>3

LEMMA HeldBelowWanted ==
    ASSUME IInv, NEW r \in Requests, NEW row \in Wanted(r), NEW mine \in held[r]
    PROVE  Rank(mine) < Rank(row)
<1>0. LocksSoFar(r) /\ TypeOK /\ mine \in Row
  BY DEF IInv, SessionInv, TypeOK, SessionTypeOK
<1>1. ~(pc[r] = "order")
  BY <1>0 DEF LocksSoFar, Comply, Judged
<1>2. CASE pc[r] = "policy" /\ row[1] = "reading"
  BY <1>0, <1>2 DEF LocksSoFar, Rank
<1>3. CASE pc[r] = "supplier" /\ row[1] = "supplier"
  BY <1>0, <1>3 DEF LocksSoFar, Rank
<1>4. CASE pc[r] = "certificate" /\ row[1] = "certificate"
  BY <1>0, <1>4 DEF LocksSoFar, Rank
<1>5. CASE pc[r] = "insert" /\ row[1] = "key"
  BY <1>0, <1>5 DEF LocksSoFar, Rank
<1>6. CASE NextProduct(r, row[2])
  <2>. DEFINE p == row[2]
              q == mine[2]
  <2>1. p \in Nat /\ p \in toPost[r]
    BY <1>0, <1>6, NextType
  <2>2. mine[1] \in {"product", "share", "inventory"} => q \in Nat
    BY <1>0, ProcurementAssumption DEF Row
  <2>3. CASE pc[r] = "products" /\ row[1] = "product"
    <3>1. mine[1] \in {"order", "reading", "supplier", "certificate", "product"}
      BY <1>0, <2>3 DEF LocksSoFar
    <3>2. mine[1] = "product" => q < p
      BY <1>0, <2>1 DEF LocksSoFar
    <3>. QED
      BY <2>1, <2>2, <2>3, <3>1, <3>2 DEF Rank
  <2>4. CASE pc[r] = "item" /\ row[1] = "share"
    <3>1. mine[1] \in {"order", "reading", "supplier", "certificate", "key", "share", "inventory"}
      BY <1>0, <2>4 DEF LocksSoFar, Posting
    <3>2. mine[1] \in {"share", "inventory"} => q < p
      BY <1>0, <2>1, <2>4 DEF LocksSoFar
    <3>. QED
      BY <2>1, <2>2, <2>4, <3>1, <3>2 DEF Rank
  <2>5. CASE pc[r] = "balance" /\ row[1] = "inventory"
    <3>1. mine[1] \in {"order", "reading", "supplier", "certificate", "key", "share", "inventory"}
      BY <1>0, <2>5 DEF LocksSoFar, Posting
    <3>2. /\ mine[1] = "share" => q < p \/ q = p
          /\ mine[1] = "inventory" => q < p
      BY <1>0, <2>1, <2>5 DEF LocksSoFar
    <3>. QED
      BY <2>1, <2>2, <2>5, <3>1, <3>2 DEF Rank
  <2>. QED
    BY <1>1, <1>2, <1>3, <1>4, <1>5, <2>3, <2>4, <2>5, WantedMeans
<1>. QED
  BY <1>1, <1>2, <1>3, <1>4, <1>5, <1>6, WantedMeans

LEMMA NoCircle ==
    ASSUME IInv
    PROVE  NeverInCircle
<1>. DEFINE wanted == [q \in Requests |-> Wanted(q)]
<1>. SUFFICES ASSUME NEW r \in Requests, InCircle(wanted, r)
              PROVE  FALSE
  BY DEF NeverInCircle
<1>1. PICK n \in 2..Cardinality(Requests) : \E circle \in [1..n -> Requests] :
         /\ circle[1] = r
         /\ \A i \in 1..n : WaitsFor(wanted, circle[i], circle[(i % n) + 1])
  BY DEF InCircle
<1>2. n \in Nat \ {0}
  OBVIOUS
<1>3. PICK circle \in [1..n -> Requests] :
         \A i \in 1..n : WaitsFor(wanted, circle[i], circle[(i % n) + 1])
  BY <1>1
<1>. DEFINE next(i) == (i % n) + 1
            Blocks(i, row) == /\ row \in Wanted(circle[i])
                              /\ held[circle[next(i)]] \cap Rivals(row) # {}
            g == [i \in 1..n |-> Rank(CHOOSE row : Blocks(i, row))]
<1>4. ASSUME NEW i \in 1..n
      PROVE  next(i) \in 1..n
  <2>1. (i % n) + 1 = IF i = n THEN 1 ELSE i + 1
    BY <1>2, Successor
  <2>. QED
    BY <1>2, <2>1
<1>5. ASSUME NEW i \in 1..n
      PROVE  \E row : Blocks(i, row)
  <2>1. circle[i] \in Requests
    OBVIOUS
  <2>2. WaitsFor(wanted, circle[i], circle[next(i)])
    BY <1>3
  <2>. QED
    BY <2>1, <2>2 DEF WaitsFor
<1>6. ASSUME NEW i \in 1..n
      PROVE  Blocks(i, CHOOSE row : Blocks(i, row))
  <2>. HIDE DEF Blocks
  <2>. QED
    BY <1>5
<1>7. ASSUME NEW i \in 1..n, NEW row, Blocks(i, row)
      PROVE  /\ Rank(row) \in Nat
             /\ \A other \in Wanted(circle[next(i)]) : Rank(row) < Rank(other)
  <2>1. circle[next(i)] \in Requests
    BY <1>4
  <2>2. PICK h \in held[circle[next(i)]] : h \in Rivals(row)
    BY <1>7
  <2>3. Rank(h) = Rank(row)
    BY <2>2, RivalsRank
  <2>4. h \in Row
    BY <2>1, <2>2 DEF IInv, TypeOK, SessionTypeOK
  <2>. QED
    BY <2>1, <2>2, <2>3, <2>4, RankType, HeldBelowWanted
<1>8. ASSUME NEW i \in 1..n
      PROVE  g[i] \in Nat /\ g[i] < g[next(i)]
  <2>. DEFINE a == CHOOSE row : Blocks(i, row)
              b == CHOOSE row : Blocks(next(i), row)
  <2>1. Blocks(i, a)
    BY <1>6
  <2>2. b \in Wanted(circle[next(i)])
    BY <1>4, <1>6
  <2>3. g[i] = Rank(a) /\ g[next(i)] = Rank(b)
    BY <1>4
  <2>. HIDE DEF a, b, g, next
  <2>. QED
    BY <1>7, <2>1, <2>2, <2>3
<1>9. g \in [1..n -> Nat] /\ \A i \in 1..n : g[i] < g[(i % n) + 1]
  <2>1. \A i \in 1..n : g[i] \in Nat
    BY <1>8
  <2>2. g = [i \in 1..n |-> g[i]]
    OBVIOUS
  <2>3. g \in [1..n -> Nat]
    <3>. HIDE DEF g
    <3>. QED
      BY <2>1, <2>2
  <2>. QED
    BY <1>8, <2>3
<1>. HIDE DEF g
<1>. QED
  BY <1>2, <1>9, NoRisingCircle

\* However many orders, receipts and other sessions of the supply chain there are,
\* they never wait for one another in a circle: all lock the order, the
\* configuration, the supplier and the certificate before products or balances,
\* and those in the order of their ids.
THEOREM NeverDeadlocked == Spec => []NeverInCircle
<1>. QED
  BY Inductive, NoCircle, PTL
=============================================================================
