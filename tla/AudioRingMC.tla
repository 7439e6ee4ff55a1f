----------------------------- MODULE AudioRingMC -----------------------------
(***************************************************************************)
(* AudioRing on a small instance.                                          *)
(***************************************************************************)
EXTENDS AudioRing
=============================================================================
