---------------------------- MODULE ContextGraph ----------------------------
(***************************************************************************)
(* ContextGraph: the Aho-Corasick automaton of the keywords.  Build puts   *)
(* the keywords into a trie one after the other, FillFailOutput adds the   *)
(* links breadth first, ForwardOneStep walks it.  A node is named by the   *)
(* tokens that lead to it from the root, the empty sequence.  The children *)
(* of a node are in a hash map, so they are met in any order.              *)
(***************************************************************************)
EXTENDS Integers, Sequences, SequencesExt

CONSTANTS KeywordLists,     \* sequences of keywords [ids, score, ac_threshold]
          ContextScore,     \* context_score_, for a keyword with a score of 0
          AcThreshold       \* ac_threshold_, for one with a threshold of 0

ASSUME GraphAssumption ==
    /\ KeywordLists \subseteq Seq([ids : Seq(Nat), score : Int, ac_threshold : Int])
    /\ ContextScore \in Int /\ AcThreshold \in Int

VARIABLES keywords,     \* what the graph is built from
          inserted,     \* how many of them are in the trie
          trie,         \* a record for every node
          q,            \* the queue of FillFailOutput
          ready         \* the constructor is through

graph == <<keywords, inserted, trie, q, ready>>

Root == <<>>
Null == <<-1>>      \* no node
Node == [token_score |-> 0, node_score |-> 0, output_score |-> 0, ac_threshold |-> 0,
         is_end |-> FALSE, fail |-> Null, output |-> Null]

GraphInit ==
    /\ keywords \in KeywordLists
    /\ inserted = 0
    /\ trie = [node \in {Root} |-> [Node EXCEPT !.fail = Root]]
    /\ q = <<>>
    /\ ready = FALSE

Nodes == DOMAIN trie
WithFail == {node \in Nodes : trie[node].fail # Null}
Default(x, y) == IF x = 0 THEN y ELSE x
Higher(a, b) == IF a >= b THEN a ELSE b

-----------------------------------------------------------------------------
(* Build.                                                                  *)

\* The nodes on the way to keyword k, with their scores along it: a node there
\* already keeps the higher token score, and its score is recomputed.
Path(k) == {SubSeq(k.ids, 1, j) : j \in 1 .. Len(k.ids)}
TokenScore(k, node) ==
    LET score == Default(k.score, ContextScore)
    IN  IF node \in Nodes THEN Higher(score, trie[node].token_score) ELSE score
NodeScore(k) ==
    LET sum[j \in 0 .. Len(k.ids)] ==
            IF j = 0 THEN 0 ELSE sum[j - 1] + TokenScore(k, SubSeq(k.ids, 1, j))
    IN  sum

OnPath(k, node) ==
    LET old == IF node \in Nodes THEN trie[node] ELSE Node
        last == node = k.ids
        score == NodeScore(k)[Len(node)]
    IN  [old EXCEPT !.token_score = TokenScore(k, node),
                    !.node_score = score,
                    !.output_score = IF last \/ old.is_end THEN score ELSE 0,
                    !.ac_threshold = IF last THEN Default(k.ac_threshold, AcThreshold) ELSE @,
                    !.is_end = last \/ old.is_end]

Build ==
    /\ inserted < Len(keywords)
    /\ LET k == keywords[inserted + 1]
       IN  trie' = [node \in Nodes \cup Path(k) |->
                       IF node \in Path(k) THEN OnPath(k, node) ELSE trie[node]]
    /\ inserted' = inserted + 1
    /\ UNCHANGED <<keywords, q, ready>>

-----------------------------------------------------------------------------
(* FillFailOutput.                                                         *)

Children(node) == {n \in Nodes : Len(n) = Len(node) + 1 /\ Front(n) = node}

\* From a node up the fail links to the first with a child for the token.
Climb(token) ==
    LET up[n \in WithFail] ==
            IF Append(n, token) \in Nodes THEN Append(n, token)
            ELSE IF n = Root THEN Root ELSE up[trie[n].fail]
    IN  up

\* Mutant: only the parent's own fail link is tried.
FailOfParentOnly(child) ==
    LET n == Append(trie[Front(child)].fail, Last(child)) IN IF n \in Nodes THEN n ELSE Root

Fail(child) == Climb(Last(child))[trie[Front(child)].fail]

\* The first keyword from a node up the fail links.
KeywordAbove(node) ==
    LET up[n \in WithFail] ==
            IF n = Root THEN Null ELSE IF trie[n].is_end THEN n ELSE up[trie[n].fail]
    IN  up[node]

Linked(child) ==
    LET output == KeywordAbove(Fail(child))
    IN  [trie[child] EXCEPT
            !.fail = Fail(child),
            !.output = output,
            !.output_score = @ + (IF output = Null THEN 0 ELSE trie[output].output_score)]

\* The nodes of the first level fail to the root, whatever they end with.
FillBegins ==
    /\ inserted = Len(keywords) /\ q = <<>> /\ ~ready
    /\ \E order \in SetToSeqs(Children(Root)) :
          /\ q' = order
          /\ trie' = [n \in Nodes |-> IF n \in Children(Root)
                                      THEN [trie[n] EXCEPT !.fail = Root] ELSE trie[n]]
          /\ ready' = (order = <<>>)
    /\ UNCHANGED <<keywords, inserted>>

\* One round of the loop: the children of the head are linked and queued.
FillNode ==
    /\ q # <<>>
    /\ LET kids == Children(Head(q))
       IN  /\ trie' = [n \in Nodes |-> IF n \in kids THEN Linked(n) ELSE trie[n]]
           /\ \E order \in SetToSeqs(kids) : q' = Tail(q) \o order
    /\ ready' = (q' = <<>>)
    /\ UNCHANGED <<keywords, inserted>>

Construct == Build \/ FillBegins \/ FillNode

-----------------------------------------------------------------------------
(* ForwardOneStep, in strict mode.                                         *)

\* Mutant: the score of a failed step forgets what was given before.
ScoreFromHere(state, node) ==
    IF node # Root /\ Front(node) = state THEN trie[node].token_score ELSE trie[node].node_score

\* The boost of a step without the keywords it completes: what a failed step
\* takes back is what the path had been given.
StepScore(state, node) ==
    IF node # Root /\ Front(node) = state THEN trie[node].token_score
    ELSE trie[node].node_score - trie[state].node_score

Matched(node) == IF trie[node].is_end THEN node ELSE trie[node].output

ForwardOneStep(state, token) ==
    LET node == Climb(token)[state]
    IN  [node |-> node, matched |-> Matched(node),
         boost |-> StepScore(state, node) + trie[node].output_score]

-----------------------------------------------------------------------------
(* Properties.                                                             *)

\* The longest of a set of sequences that all end alike.
Longest(S) == CHOOSE s \in S : \A t \in S : Len(t) <= Len(s)
KeywordIds == {keywords[i].ids : i \in DOMAIN keywords} \ {<<>>}
Tokens == UNION {ToSet(ids) : ids \in KeywordIds}
EndingIn(S, ids) == {s \in S : IsSuffix(s, ids)}

\* Built from any keywords, in any order of any hash map, the graph is the
\* automaton of their suffixes: from every node, every token leads to the longest
\* beginning of a keyword that ends there, and reports the longest keyword that
\* ends there, be it inside another.
IsAutomaton ==
    \A node \in Nodes : \A token \in Tokens :
        LET ids == Append(node, token)
            step == ForwardOneStep(node, token)
            found == EndingIn(KeywordIds, step.node)
        IN  /\ step.node = Longest(EndingIn(Nodes, ids))
            /\ step.matched = IF found = {} THEN Null ELSE Longest(found)
GraphIsAutomaton == [][(~ready /\ ready') => IsAutomaton']_graph

\* Boosts add up: where all keywords have one score, any way through the graph
\* has given its hypothesis the score of the tokens of the node it is at, and
\* that of every keyword met on the way, however often it failed.
Uniform == \A i, j \in DOMAIN keywords : keywords[i].score = keywords[j].score
BoostsTelescope ==
    \A node \in Nodes : \A token \in Tokens :
        LET step == ForwardOneStep(node, token)
            met == EndingIn(KeywordIds, step.node)
            score == Default(keywords[1].score, ContextScore)
        IN  step.boost = score * (Len(step.node) - Len(node) + MapThenSumSet(Len, met))
BoostsAddUp == [][(~ready /\ ready' /\ Uniform) => BoostsTelescope']_graph
=============================================================================
