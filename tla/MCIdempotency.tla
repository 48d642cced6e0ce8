--------------------------- MODULE MCIdempotency ---------------------------
(***************************************************************************)
(* Attempts under one key, of two requests: a stock count, whose handler   *)
(* repeats itself, and a sale, whose handler does not.                     *)
(***************************************************************************)
EXTENDS Idempotency, TLC

CONSTANTS a1, a2, a3, a4

TwoOfEach == [a \in Attempts |-> IF a \in {a1, a2} THEN "count" ELSE "sale"]
ByRoute == [request \in Payloads |-> IF request = "count" THEN "plain" ELSE "once"]

\* Attempts of one request differ in nothing but their name.
AttemptSymmetry == Permutations({a1, a2}) \cup Permutations({a3, a4})
=============================================================================
