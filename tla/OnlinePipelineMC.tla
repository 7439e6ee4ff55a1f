-------------------------- MODULE OnlinePipelineMC --------------------------
(***************************************************************************)
(* OnlinePipeline on a small instance.                                     *)
(***************************************************************************)
EXTENDS OnlinePipeline
=============================================================================
