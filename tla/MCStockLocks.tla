---------------------------- MODULE MCStockLocks ----------------------------
(***************************************************************************)
(* Two products, two suppliers, and every kind of session that locks them. *)
(***************************************************************************)
EXTENDS StockLocks, TLC

CONSTANTS r1, r2, r3, o1, o2, t1, s1, s2, none

RequestSymmetry == Permutations(Requests)

Of(kind, products, accepted, document, supplier) ==
    [kind |-> kind, products |-> products, accepted |-> accepted,
     document |-> document, supplier |-> supplier]

Mixture ==
    {Of("receive", {1, 2}, {1, 2}, o1, s1), Of("receive", {1, 2}, {2}, o2, s2),
     Of("issue", {1, 2}, {}, none, s1), Of("issue", {1, 2}, {}, none, s2),
     Of("checkout", {1, 2}, {}, none, none), Of("void", {1, 2}, {}, t1, none),
     Of("adjust", {1}, {}, none, none), Of("edit", {1}, {}, none, none)}
=============================================================================
