---------------------------- MODULE MCProcurement ----------------------------
(***************************************************************************)
(* Small supply chains for TLC: two products, two suppliers, an open order *)
(* from each.                                                              *)
(***************************************************************************)
EXTENDS ProcurementInv, TLC

CONSTANTS r1, r2, r3, o1, o2, s1, s2, c1, c2, k1, k2, halal

RequestSymmetry == Permutations(Requests)

Line1(p, q, cost) == [product |-> p, quantity |-> q, cost |-> cost]

From(s, c, items) == [supplier |-> s, certificate |-> c, items |-> items]

Certificate(s, kind, from, expiry) ==
    [supplier |-> s, kind |-> kind, scoped |-> TRUE, from |-> from, expiry |-> expiry,
     revoked |-> FALSE]

Strict  == [strict |-> TRUE, required |-> {halal}]
Lenient == [strict |-> FALSE, required |-> {halal}]

Warned(s) == [policy |-> Lenient, supplier |-> s, certificate |-> NoCertificate, day |-> 1,
              outcome |-> "WARNING"]
Passed(s, c) == [policy |-> Strict, supplier |-> s, certificate |-> c, day |-> 1,
                 outcome |-> "ACCEPTED"]

OpenOrder(terms, made) == [terms |-> terms, decision |-> made, status |-> "ISSUED"]

AllActive == [s \in Suppliers |-> "active"]
OneActive == [s \in Suppliers |-> IF s = s1 THEN "active" ELSE "none"]

NoCertificates == [c \in Certificates |-> NoRow]
OneCertificate == [c \in Certificates |-> IF c = c1 THEN Certificate(s1, halal, 1, 1) ELSE NoRow]

NoStock == [p \in Products |-> 0]

Got(p, accepted, rejected) ==
    [product |-> p, delivered |-> accepted + rejected, accepted |-> accepted,
     rejected |-> rejected, explained |-> TRUE]

Delivery(o, key, items) == [op |-> "receive", order |-> o, key |-> key, items |-> items]
Withdraw(p) == [op |-> "list", product |-> p, active |-> FALSE]
Cancel(o) == [op |-> "cancel", order |-> o]

\* The receiving dock: two orders share a product; deliveries are whole, partial,
\* partly rejected, sent twice under one key, and race a cancellation and a new
\* order that locks the products the other way round.
DockOrders ==
    (o1 :> OpenOrder(From(s1, NoCertificate, <<Line1(1, 2, 3), Line1(2, 1, 5)>>), Warned(s1)))
    @@ (o2 :> OpenOrder(From(s2, NoCertificate, <<Line1(1, 1, 4)>>), Warned(s2)))

DockCommands ==
    {Delivery(o1, k1, <<Got(2, 1, 0), Got(1, 2, 0)>>),
     Delivery(o1, k2, <<Got(1, 1, 1)>>),
     Delivery(o1, k2, <<Got(2, 0, 1)>>),
     Delivery(o2, k1, <<Got(1, 1, 0)>>),
     Cancel(o1),
     [op |-> "issue", terms |-> From(s2, NoCertificate, <<Line1(2, 1, 3), Line1(1, 1, 3)>>)]}

\* The purchasing desk: orders are issued while products are withdrawn, the
\* supplier suspended, the certificate revoked and the policy changed, and while
\* the day passes on which the certificate is last valid.
DeskOrders == o1 :> OpenOrder(From(s1, c1, <<Line1(1, 1, 3)>>), Passed(s1, c1))

DeskCommands ==
    {[op |-> "issue", terms |-> From(s1, c1, <<Line1(2, 1, 3)>>)],
     [op |-> "issue", terms |-> From(s2, c2, <<Line1(2, 1, 3), Line1(1, 2, 3), Line1(1, 1, 3)>>)],
     [op |-> "issue", terms |-> From(s1, c1, <<Line1(1, 6, 1)>>)],
     Delivery(o1, k1, <<Got(1, 1, 0)>>),
     Withdraw(1), Withdraw(2),
     [op |-> "list", product |-> 2, active |-> TRUE],
     [op |-> "supplier", supplier |-> s1, active |-> FALSE],
     [op |-> "enroll", supplier |-> s2, certificate |-> NoCertificate, row |-> NoRow],
     [op |-> "enroll", supplier |-> s2, certificate |-> c2, row |-> Certificate(s2, halal, 0, 0)],
     [op |-> "register", certificate |-> c2, row |-> Certificate(s2, halal, 1, 2)],
     [op |-> "revoke", certificate |-> c1],
     [op |-> "configure", policy |-> Lenient]}
=============================================================================
