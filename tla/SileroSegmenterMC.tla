-------------------------- MODULE SileroSegmenterMC --------------------------
(***************************************************************************)
(* SileroSegmenter on a small instance.                                    *)
(***************************************************************************)
EXTENDS SileroSegmenter
=============================================================================
