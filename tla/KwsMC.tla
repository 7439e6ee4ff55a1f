-------------------------------- MODULE KwsMC --------------------------------
(***************************************************************************)
(* Kws on a small instance: all pairs of keywords of up to three of two    *)
(* tokens, and some triples, are built into a graph; one list, with a      *)
(* keyword that ends one, asks for less, and begins another, is listened   *)
(* to.                                                                     *)
(***************************************************************************)
EXTENDS Kws

Keyword(ids, score, threshold) == [ids |-> ids, score |-> score, ac_threshold |-> threshold]

Short == BoundedSeq({1, 2}, 3) \ {<<>>}
MCBuilt ==
    {<<Keyword(a, 0, 0), Keyword(b, 0, 0)>> : a, b \in Short}
    \cup {<<Keyword(a, 2, 0), Keyword(<<2, 2, 1>>, 2, 0), Keyword(<<1, 2, 2, 1, 2>>, 2, 0)>> : a \in Short}
    \cup {<<Keyword(<<1, 2>>, 1, 0), Keyword(<<1>>, 3, 0)>>}

MCListenedTo ==
    {<<Keyword(<<1, 2>>, 0, 2), Keyword(<<2>>, 0, 1), Keyword(<<2, 1>>, 0, 0)>>}

MCLists == MCBuilt \cup MCListenedTo

MCFrames == {[id |-> 0, prob |-> 2], [id |-> 1, prob |-> 2],
             [id |-> 2, prob |-> 2], [id |-> 2, prob |-> 1]}
=============================================================================
