------------------------------ MODULE MCSession ------------------------------
(***************************************************************************)
(* One browser, a probe and a command, and two token pairs: a session that *)
(* is renewed, by whichever call gets through, or two users one by one.    *)
(***************************************************************************)
EXTENDS Session, TLC

CONSTANTS u1, u2, c1, c2
=============================================================================
