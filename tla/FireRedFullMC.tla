---------------------------- MODULE FireRedFullMC ----------------------------
(***************************************************************************)
(* FireRedPost and FireRedFull on a small instance.                        *)
(***************************************************************************)
EXTENDS FireRedFull

\* Silence, doubt, speech, and a value above 1.0 that the code clamps.
MCRawProbs == {-1, 0, 1, 2, 3}
=============================================================================
