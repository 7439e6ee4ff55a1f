------------------------- MODULE FireRedSegmenterMC -------------------------
(***************************************************************************)
(* FireRedSegmenter on a small instance.                                   *)
(***************************************************************************)
EXTENDS FireRedSegmenter
=============================================================================
