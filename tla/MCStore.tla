------------------------------- MODULE MCStore -------------------------------
(***************************************************************************)
(* Small stores for TLC.  Prices and costs differ so that a stale read or  *)
(* a swapped amount shows.                                                 *)
(***************************************************************************)
EXTENDS StoreInv, TLC

CONSTANTS r1, r2, r3, p1, p2, p3, k1, k2

\* Requests that differ in nothing but their name: every set of commands below
\* treats them alike.
RequestSymmetry == Permutations(Requests)

Row1 == [active |-> TRUE, price |-> 3, cost |-> 1]
Row2 == [active |-> TRUE, price |-> 5, cost |-> 2]

Item(p, q) == [product |-> p, quantity |-> q]

Sale(key, items, payment, discount, tendered) ==
    [op |-> "checkout", key |-> key, items |-> items, payment |-> payment,
     discount |-> discount, tendered |-> tendered]

VoidAny == {[op |-> "void", sale |-> r] : r \in Requests}

Count(p, kind, quantity, expected) ==
    [op |-> "adjust", product |-> p, kind |-> kind, quantity |-> quantity,
     expected |-> expected]

\* The third product is not in the catalog yet.
TwoProducts == [p \in Products |-> CASE p = p1 -> Row1 [] p = p2 -> Row2 [] p = p3 -> NoRow]
OneProduct  == [p \in Products |-> Row1]

TwoOfEach == [p \in Products |-> IF p = p3 THEN 0 ELSE 2]

\* Carts with and without a product in common, one product twice in a cart, two
\* carts under one key, voids of whatever was sold; one product counted, written
\* off, edited and withdrawn while it is sold, another one added.
ShopCommands ==
    {Sale(k1, <<Item(p1, 2)>>, "CASH", 1, 6),
     Sale(k1, <<Item(p2, 1)>>, "QRIS", 0, NoTender),
     Sale(k2, <<Item(p1, 1), Item(p2, 1), Item(p1, 1)>>, "CASH", 0, 20),
     Count(p1, "SUBTRACT", 2, 0),
     Count(p1, "ADD", 1, 0),
     Count(p1, "SET", 1, 2),
     [op |-> "update", product |-> p1, reorder |-> TRUE,
      row |-> [active |-> TRUE, price |-> 4, cost |-> 0]],
     [op |-> "delete", product |-> p1],
     [op |-> "create", product |-> p3, row |-> Row2, initial |-> 1]}
    \cup VoidAny

\* One product at one till, in the stock room, and taken back.
CounterCommands ==
    {Sale(k1, <<Item(p1, 1)>>, "QRIS", 0, NoTender), Count(p1, "ADD", 1, 0)} \cup VoidAny
=============================================================================
