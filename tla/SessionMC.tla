------------------------------ MODULE SessionMC ------------------------------
(***************************************************************************)
(* Session on a small instance.                                            *)
(***************************************************************************)
EXTENDS Session
=============================================================================
