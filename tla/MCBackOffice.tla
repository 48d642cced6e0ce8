---------------------------- MODULE MCBackOffice ----------------------------
(***************************************************************************)
(* One page, two rows, one of which is not there at first.                 *)
(***************************************************************************)
EXTENDS BackOfficeInv, TLC

CONSTANTS r1, r2
=============================================================================
