--------------------------- MODULE RsVadFireRedMC ---------------------------
(***************************************************************************)
(* RsVadFireRed on a small instance.                                       *)
(***************************************************************************)
EXTENDS RsVadFireRed
=============================================================================
