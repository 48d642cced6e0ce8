------------------------------ MODULE MCWebTill ------------------------------
(***************************************************************************)
(* One till and one product, of which a cart may hold too many.            *)
(***************************************************************************)
EXTENDS WebTillInv, TLC

CONSTANT p1

Prices == [p \in Products |-> 1]
=============================================================================
