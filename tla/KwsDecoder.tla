----------------------------- MODULE KwsDecoder -----------------------------
(***************************************************************************)
(* KWSDecoder::DecodeGreedy: the keywords in one window.  A window is a    *)
(* sequence of frames, each with the token that is most probable in it and *)
(* its probability; the prompt frames in front are left out.               *)
(***************************************************************************)
EXTENDS ContextGraph, FiniteSets

CONSTANTS Blank,            \* blank_id
          Ignored,          \* ignore_ids_ and punct_ids_
          TrailingBlanks    \* the choices of num_trailing_blanks

ASSUME DecoderAssumption == TrailingBlanks \subseteq Nat

VARIABLE num_trailing_blanks

\* The frames that emit a token: blanks and ignored tokens emit nothing, and a
\* token that goes on only once.
EmitsAt(f, t) ==
    /\ f[t].id \notin Ignored \cup {Blank}
    /\ t > 1 => f[t - 1].id # f[t].id
Emitted(f) ==
    LET emitted[t \in 0 .. Len(f)] ==
            IF t = 0 THEN <<>>
            ELSE IF EmitsAt(f, t) THEN Append(emitted[t - 1], t) ELSE emitted[t - 1]
    IN  emitted[Len(f)]

\* The blanks directly after a frame.
BlankRun(f, t) ==
    LET runs == {n \in 0 .. Len(f) - t : \A i \in 1 .. n : f[t + i].id = Blank}
    IN  CHOOSE n \in runs : \A m \in runs : m <= n

\* Whether tokens start to i of the emitted are said clearly enough for a
\* threshold, and followed by blanks enough.
Confident(f, e, start, i, threshold) ==
    /\ SumFunctionOnSet([k \in start .. i |-> f[e[k]].prob], start .. i) >= threshold * (i + 1 - start)
    /\ num_trailing_blanks > 0 => BlankRun(f, e[i]) >= num_trailing_blanks

Hit(e, start, i, phrase) == [phrase |-> phrase, first_frame |-> e[start], last_frame |-> e[i]]

\* Mutant: the walk goes on where the keyword ended.
AfterHitStays(node) == node

\* After a hit the walk starts over.
AfterHit(node) == Root

\* The walk over the emitted tokens: where it is, and the hits so far.
Walk(f) ==
    LET e == Emitted(f)
        walk[i \in 0 .. Len(e)] ==
            IF i = 0 THEN [node |-> Root, hits |-> <<>>]
            ELSE LET step == ForwardOneStep(walk[i - 1].node, f[e[i]].id)
                     start == i + 1 - Len(step.matched)
                 IN  IF /\ step.matched # Null
                        /\ start >= 1
                        /\ Confident(f, e, start, i, trie[step.matched].ac_threshold)
                     THEN [node |-> AfterHit(step.node),
                           hits |-> Append(walk[i - 1].hits, Hit(e, start, i, step.matched))]
                     ELSE [node |-> step.node, hits |-> walk[i - 1].hits]
    IN  walk
DecodeGreedy(f) == Walk(f)[Len(Emitted(f))].hits

-----------------------------------------------------------------------------

\* What is to be found, without a graph: of the tokens emitted since the last
\* hit, the longest keyword that ends at a token, if it is said clearly.
ThresholdOf(ids) ==
    LET i == CHOOSE i \in DOMAIN keywords : keywords[i].ids = ids /\
                    \A j \in DOMAIN keywords : keywords[j].ids = ids => j <= i
    IN  Default(keywords[i].ac_threshold, AcThreshold)
Spotted(f) ==
    LET e == Emitted(f)
        ids == [k \in DOMAIN e |-> f[e[k]].id]
        spot[i \in 0 .. Len(e)] ==
            IF i = 0 THEN [from |-> 1, hits |-> <<>>]
            ELSE LET from == spot[i - 1].from
                     ending == EndingIn(KeywordIds, SubSeq(ids, from, i))
                     start == i + 1 - Len(Longest(ending))
                 IN  IF ending # {} /\ Confident(f, e, start, i, ThresholdOf(Longest(ending)))
                     THEN [from |-> i + 1,
                           hits |-> Append(spot[i - 1].hits, Hit(e, start, i, Longest(ending)))]
                     ELSE spot[i - 1]
    IN  spot[Len(e)].hits
=============================================================================
