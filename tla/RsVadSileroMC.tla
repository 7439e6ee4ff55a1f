---------------------------- MODULE RsVadSileroMC ----------------------------
(***************************************************************************)
(* RsVadSilero on a small instance.                                        *)
(***************************************************************************)
EXTENDS RsVadSilero
=============================================================================
