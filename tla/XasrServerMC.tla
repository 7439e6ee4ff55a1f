---------------------------- MODULE XasrServerMC ----------------------------
(***************************************************************************)
(* XasrServer on a small instance.                                         *)
(***************************************************************************)
EXTENDS XasrServer

\* A window gives nothing, a word, or a token without a text.
MCOutputs == {<<>>, <<"word">>, <<"unknown">>}
=============================================================================
