------------------------------ MODULE KwsProofs ------------------------------
(***************************************************************************)
(* Proofs about the keyword spotter, for all keywords, windows, hops and   *)
(* debounce times.                                                         *)
(*                                                                         *)
(* The graph: while it is built, the queue holds nodes by their length and *)
(* all that are linked and have a child without links, so that climbing    *)
(* the fail links finds the longest of the shorter nodes (GraphInv).  The  *)
(* finished graph is the automaton of the keywords.                        *)
(*                                                                         *)
(* The decoder: walking over the graph, token by token, is at the longest  *)
(* beginning of a keyword said since the last hit; so it finds what the    *)
(* search for keywords in the tokens finds (DecodesTheSpotted).            *)
(*                                                                         *)
(* The spotter: the ring is the rest of the stream, and windows are slices *)
(* of it (KwsInv); of the hits in a window, all are reported that were not *)
(* within the debounce time before (ClockInv, ReportInv).                  *)
(*                                                                         *)
(* The boosts: a node's output score is that of all keywords it ends in    *)
(* (ScoresInv), because it gets its links once (LinksInv) and the keywords *)
(* it ends in are itself and those of its output.                          *)
(***************************************************************************)
EXTENDS Kws, SequenceLemmas, FiniteSetTheorems

-----------------------------------------------------------------------------
(* The longest of the suffixes of a sequence that are in a set.            *)

\* Words: what keywords are sequences of is told apart by numbers.
Ids == Seq(Nat)

\* x is in N, w ends in it, and in none of N that is longer.
IsLongest(x, N, w) ==
    /\ x \in N /\ IsSuffix(x, w)
    /\ \A y \in N : IsSuffix(y, w) => Len(y) <= Len(x)

\* It is the one that Longest picks.
LEMMA LongestPicked ==
    ASSUME NEW N, N \subseteq Ids, NEW w \in Ids, NEW x, IsLongest(x, N, w)
    PROVE  Longest(EndingIn(N, w)) = x
<1> DEFINE E == EndingIn(N, w)
           l == CHOOSE s \in E : \A t \in E : Len(t) <= Len(s)
<1>1. x \in E /\ \A t \in E : Len(t) <= Len(x)
  BY DEF IsLongest, EndingIn
<1>2. l \in E /\ \A t \in E : Len(t) <= Len(l)
  BY <1>1
<1> HIDE DEF l
<1>3. l \in Seq(Nat) /\ x \in Seq(Nat) /\ IsSuffix(l, w) /\ IsSuffix(x, w)
  BY <1>1, <1>2 DEF EndingIn, Ids
<1>4. Len(l) <= Len(x) /\ Len(x) <= Len(l) /\ Len(l) \in Nat /\ Len(x) \in Nat
  BY <1>1, <1>2, <1>3
<1>5. Len(x) = Len(l)
  BY <1>4
<1>6. w \in Seq(Nat)
  BY DEF Ids
<1>7. x = l
  BY <1>3, <1>4, <1>5, <1>6, SuffixesNest
<1> QED
  BY <1>7 DEF l, Longest

\* There is one where there is a suffix in the set.
LEMMA LongestExists ==
    ASSUME NEW N, N \subseteq Ids, NEW w \in Ids, EndingIn(N, w) # {}
    PROVE  \E x : IsLongest(x, N, w)
<1> DEFINE E == EndingIn(N, w)
           T == {Len(w) - Len(y) : y \in E}
<1>0. w \in Seq(Nat) /\ Len(w) \in Nat
  BY DEF Ids
<1>1. ASSUME NEW y \in E PROVE y \in Seq(Nat) /\ Len(y) \in Nat /\ Len(y) <= Len(w)
  <2>1. y \in Seq(Nat) /\ IsSuffix(y, w)
    BY DEF EndingIn, Ids
  <2>2. EndsIn(y, Len(y), w, Len(w))
    BY <1>0, <2>1, SuffixBy, Zenon
  <2> QED
    BY <2>1, <2>2 DEF EndsIn
<1> HIDE DEF E
<1>2. T \subseteq Nat /\ T # {}
  BY <1>0, <1>1 DEF E
<1> HIDE DEF T
<1>3. PICK d \in T : \A e \in T : d <= e
  BY <1>2, LeastNatural
<1>4. PICK x \in E : d = Len(w) - Len(x)
  BY <1>3 DEF T
<1>5. ASSUME NEW y \in E PROVE Len(y) <= Len(x)
  <2>1. Len(w) - Len(y) \in T
    BY DEF T
  <2>2. Len(w) - Len(x) <= Len(w) - Len(y)
    BY <2>1, <1>3, <1>4
  <2> QED
    BY <2>2, <1>0, <1>1
<1>6. IsLongest(x, N, w)
  BY <1>4, <1>5 DEF IsLongest, E, EndingIn
<1> QED
  BY <1>6

\* A sequence in the set is its own.
LEMMA LongestOfMember ==
    ASSUME NEW N, N \subseteq Ids, NEW w \in N
    PROVE  IsLongest(w, N, w)
<1>1. w \in Seq(Nat)
  BY DEF Ids
<1>2. ASSUME NEW y \in N, IsSuffix(y, w) PROVE Len(y) <= Len(w)
  <2>1. y \in Seq(Nat)
    BY DEF Ids
  <2>2. EndsIn(y, Len(y), w, Len(w))
    BY <1>1, <1>2, <2>1, SuffixBy, Zenon
  <2> QED
    BY <2>2 DEF EndsIn
<1> QED
  BY <1>1, <1>2, SuffixEnds DEF IsLongest

\* That of a sequence not in the set is that of the rest of it.
LEMMA LongestOfTail ==
    ASSUME NEW N, N \subseteq Ids, NEW w \in Ids, w # <<>>, w \notin N
    PROVE  \A x : IsLongest(x, N, Tail(w)) <=> IsLongest(x, N, w)
<1>1. w \in Seq(Nat)
  BY DEF Ids
<1>2. ASSUME NEW y \in N PROVE IsSuffix(y, w) <=> IsSuffix(y, Tail(w))
  <2>1. y \in Seq(Nat) /\ y # w
    BY DEF Ids
  <2> QED
    BY <1>1, <2>1, SuffixOfTail, Zenon
<1> QED
  BY <1>2, Zenon DEF IsLongest

\* Longest suffix by longest suffix: with one token more, it is that of the
\* longest suffix before, with the token.
LEMMA LongestByStep ==
    ASSUME NEW N, N \subseteq Ids, <<>> \in N,
           \A n \in N : n = <<>> \/ Front(n) \in N,
           NEW w \in Ids, NEW t \in Nat, NEW s, IsLongest(s, N, w)
    PROVE  \A x : IsLongest(x, N, Append(s, t)) <=> IsLongest(x, N, Append(w, t))
<1>1. w \in Seq(Nat) /\ s \in Seq(Nat) /\ IsSuffix(s, w)
  BY DEF IsLongest, Ids
<1>2. ASSUME NEW y \in N PROVE IsSuffix(y, Append(s, t)) <=> IsSuffix(y, Append(w, t))
  <2>1. CASE y = <<>>
    <3>1. Append(s, t) \in Seq(Nat) /\ Append(w, t) \in Seq(Nat)
      BY <1>1
    <3> QED
      BY <3>1, <2>1, SuffixEnds, Zenon
  <2>2. CASE y # <<>>
    <3>0. y \in Seq(Nat)
      BY DEF Ids
    <3>1. PICK f, l : f = Front(y) /\ l = Last(y)
      OBVIOUS
    <3>2. f \in Seq(Nat) /\ l \in Nat /\ y = Append(f, l) /\ f \in N
      BY <2>2, <3>0, <3>1, FrontIs
    <3>3. IsSuffix(y, Append(s, t)) => l = t
      BY <1>1, <2>2, <3>0, <3>1, SuffixOfAppend
    <3>4. IsSuffix(y, Append(w, t)) => l = t
      BY <1>1, <2>2, <3>0, <3>1, SuffixOfAppend
    <3>5. CASE l = t
      <4>1. IsSuffix(y, Append(s, t)) <=> IsSuffix(f, s)
        BY <1>1, <3>2, <3>5, SuffixOfAppend
      <4>2. IsSuffix(y, Append(w, t)) <=> IsSuffix(f, w)
        BY <1>1, <3>2, <3>5, SuffixOfAppend
      <4>3. IsSuffix(f, s) => IsSuffix(f, w)
        BY <1>1, <3>2, SuffixOfSuffix
      <4>4. IsSuffix(f, w) => IsSuffix(f, s)
        <5>1. IsSuffix(f, w) => Len(f) <= Len(s)
          BY <3>2 DEF IsLongest
        <5> QED
          BY <1>1, <3>2, <5>1, SuffixesNest
      <4> QED
        BY <4>1, <4>2, <4>3, <4>4, Zenon
    <3> QED
      BY <3>3, <3>4, <3>5, Zenon
  <2> QED
    BY <2>1, <2>2
<1> QED
  BY <1>2, Zenon DEF IsLongest

\* The suffixes of a sequence in a smaller set are those of its longest suffix
\* in the larger one.
LEMMA LongestHasAll ==
    ASSUME NEW N, N \subseteq Ids, NEW K, K \subseteq N, NEW w \in Ids, NEW s, IsLongest(s, N, w)
    PROVE  EndingIn(K, s) = EndingIn(K, w)
<1>1. w \in Seq(Nat) /\ s \in Seq(Nat) /\ IsSuffix(s, w)
  BY DEF IsLongest, Ids
<1>2. ASSUME NEW y \in K PROVE IsSuffix(y, s) <=> IsSuffix(y, w)
  <2>1. y \in Seq(Nat) /\ y \in N
    BY DEF Ids
  <2>2. IsSuffix(y, s) => IsSuffix(y, w)
    BY <1>1, <2>1, SuffixOfSuffix
  <2>3. IsSuffix(y, w) => Len(y) <= Len(s)
    BY <2>1 DEF IsLongest
  <2>4. IsSuffix(y, w) => IsSuffix(y, s)
    BY <1>1, <2>1, <2>3, SuffixesNest
  <2> QED
    BY <2>2, <2>4
<1> QED
  BY <1>2 DEF EndingIn

-----------------------------------------------------------------------------
(* The trie and its links.                                                 *)

\* A keyword as it is put in, a node of the trie, and the trie.
KeywordRecord == [ids : Ids, score : Int, ac_threshold : Int]
NodeRecord == [token_score : Int, node_score : Int, output_score : Int, ac_threshold : Int,
               is_end : BOOLEAN, fail : Seq(Int), output : Seq(Int)]

\* Every node of the trie is a record, and so is that of all its tokens but the last.
TrieType ==
    /\ trie \in [Nodes -> NodeRecord]
    /\ Nodes \subseteq Ids /\ IsFiniteSet(Nodes)
    /\ Root \in Nodes
    /\ \A n \in Nodes : n = Root \/ Front(n) \in Nodes

\* The types of the graph's variables.
GraphType ==
    /\ keywords \in Seq(KeywordRecord)
    /\ inserted \in 0 .. Len(keywords)
    /\ TrieType
    /\ q \in Seq(Nodes)
    /\ ready \in BOOLEAN

\* The fail link of a node is the longest of the nodes its tokens end in but for
\* itself, and has a fail link.
FailsToLongest ==
    /\ Root \in WithFail /\ trie[Root].fail = Root
    /\ \A n \in WithFail : n = Root \/ /\ IsLongest(trie[n].fail, Nodes, Tail(n))
                                       /\ trie[n].fail \in WithFail

\* Up the fail links, nodes are shorter.
LEMMA FailShorter ==
    ASSUME TrieType, FailsToLongest, NEW n \in WithFail, n # Root
    PROVE  /\ n \in Seq(Nat) /\ n # <<>> /\ Len(n) \in Nat
           /\ trie[n].fail \in WithFail /\ Len(trie[n].fail) \in Nat
           /\ Len(trie[n].fail) < Len(n)
           /\ IsLongest(trie[n].fail, Nodes, Tail(n))
           /\ Tail(n) \in Ids
<1>1. n \in Seq(Nat) /\ n # <<>>
  BY DEF TrieType, WithFail, Ids, Root
<1>2. PICK f : f = trie[n].fail
  OBVIOUS
<1>3. IsLongest(f, Nodes, Tail(n)) /\ f \in WithFail
  BY <1>2 DEF FailsToLongest
<1>4. f \in Seq(Nat) /\ IsSuffix(f, Tail(n))
  BY <1>3 DEF TrieType, Ids, IsLongest
<1>5. Tail(n) \in Seq(Nat) /\ Len(Tail(n)) = Len(n) - 1 /\ Len(n) \in Nat
  BY <1>1
<1>6. EndsIn(f, Len(f), Tail(n), Len(Tail(n)))
  BY <1>4, <1>5, SuffixBy, Zenon
<1>7. Len(f) \in Nat /\ Len(f) <= Len(Tail(n))
  BY <1>4, <1>6 DEF EndsIn
<1> QED
  BY <1>1, <1>2, <1>3, <1>5, <1>7 DEF Ids

\* Climbing finds the longest node that the tokens of a node and one more end in.
LEMMA ClimbIs ==
    ASSUME TrieType, FailsToLongest, NEW t \in Nat
    PROVE  \A n \in WithFail : IsLongest(Climb(t)[n], Nodes, Append(n, t))
<1> DEFINE rank == [n \in WithFail |-> Len(n)]
           next == [n \in WithFail |-> trie[n].fail]
           stop == {n \in WithFail : Append(n, t) \in Nodes \/ n = Root}
           base == [n \in WithFail |-> IF Append(n, t) \in Nodes THEN Append(n, t) ELSE Root]
           up[n \in WithFail] ==
               IF Append(n, t) \in Nodes THEN Append(n, t)
               ELSE IF n = Root THEN Root ELSE up[trie[n].fail]
<1>1. ASSUME NEW n \in WithFail PROVE n \in Seq(Nat) /\ Len(n) \in Nat
  BY DEF TrieType, WithFail, Ids
<1>2. rank \in [WithFail -> Nat]
  BY <1>1
<1>3. ASSUME NEW n \in WithFail, n # Root
      PROVE  next[n] \in WithFail /\ rank[next[n]] < rank[n]
  BY <1>3, FailShorter
<1>4. Descends(WithFail, rank, next, stop)
  BY <1>3 DEF Descends
<1> HIDE DEF rank, next, stop, base
<1>5. PICK f : Recurs(f, WithFail, next, stop, base)
  BY <1>2, <1>4, RecursionExists, Zenon
<1>6. f = [n \in WithFail |-> IF Append(n, t) \in Nodes THEN Append(n, t)
                              ELSE IF n = Root THEN Root ELSE f[trie[n].fail]]
  <2>1. ASSUME NEW n \in WithFail
        PROVE  (IF n \in stop THEN base[n] ELSE f[next[n]])
                = IF Append(n, t) \in Nodes THEN Append(n, t)
                  ELSE IF n = Root THEN Root ELSE f[trie[n].fail]
    BY DEF stop, base, next
  <2> QED
    BY <1>5, <2>1, Zenon DEF Recurs
<1>7. up = [n \in WithFail |-> IF Append(n, t) \in Nodes THEN Append(n, t)
                               ELSE IF n = Root THEN Root ELSE up[trie[n].fail]]
  BY <1>6, Zenon
<1>8. Climb(t) = up
  BY Zenon DEF Climb
<1> HIDE DEF up
<1> DEFINE T == {r \in Nat : \A n \in WithFail : Len(n) <= r =>
                                IsLongest(up[n], Nodes, Append(n, t))}
<1>9. ASSUME NEW n \in WithFail, Append(n, t) \in Nodes
      PROVE  IsLongest(up[n], Nodes, Append(n, t))
  <2>1. up[n] = Append(n, t)
    BY <1>7, <1>9
  <2> QED
    BY <2>1, <1>9, LongestOfMember DEF TrieType
<1>10. ASSUME NEW n \in WithFail, Append(n, t) \notin Nodes, n # Root
       PROVE  up[n] = up[trie[n].fail]
  BY <1>7, <1>10
<1>11. ASSUME NEW n \in WithFail, Append(n, t) \notin Nodes, n = Root
       PROVE  IsLongest(up[n], Nodes, Append(n, t))
  <2>1. up[n] = Root
    BY <1>7, <1>11
  <2>2. IsLongest(Root, Nodes, Root)
    BY LongestOfMember DEF TrieType
  <2>3. Append(n, t) \in Ids /\ Append(n, t) # <<>> /\ Tail(Append(n, t)) = Root
    BY <1>11 DEF Root, Ids
  <2>4. Nodes \subseteq Ids
    BY DEF TrieType
  <2>5. IsLongest(Root, Nodes, Tail(Append(n, t))) <=> IsLongest(Root, Nodes, Append(n, t))
    BY <2>3, <2>4, <1>11, LongestOfTail
  <2> QED
    BY <2>1, <2>2, <2>3, <2>5
<1>12. ASSUME NEW n \in WithFail, Append(n, t) \notin Nodes, n # Root,
              IsLongest(up[trie[n].fail], Nodes, Append(trie[n].fail, t))
       PROVE  IsLongest(up[n], Nodes, Append(n, t))
  <2>1. PICK s : s = trie[n].fail
    OBVIOUS
  <2>2. n \in Seq(Nat) /\ n # <<>> /\ IsLongest(s, Nodes, Tail(n)) /\ Tail(n) \in Ids
    BY <1>12, <2>1, FailShorter
  <2>3. /\ Nodes \subseteq Ids /\ <<>> \in Nodes
        /\ \A m \in Nodes : m = <<>> \/ Front(m) \in Nodes
    BY DEF TrieType, Root
  <2>4. IsLongest(up[n], Nodes, Append(s, t))
    BY <1>12, <1>10, <2>1
  <2>5. IsLongest(up[n], Nodes, Append(Tail(n), t))
    BY <2>2, <2>3, <2>4, LongestByStep
  <2>6. /\ Append(n, t) \in Ids /\ Append(n, t) # <<>>
        /\ Tail(Append(n, t)) = Append(Tail(n), t)
    BY <2>2, TailAppend DEF Ids
  <2>7. \A x : IsLongest(x, Nodes, Tail(Append(n, t))) <=> IsLongest(x, Nodes, Append(n, t))
    BY <2>3, <2>6, <1>12, LongestOfTail
  <2> QED
    BY <2>5, <2>6, <2>7, Zenon
<1>13. 0 \in T
  <2> SUFFICES ASSUME NEW n \in WithFail, Len(n) <= 0 PROVE IsLongest(up[n], Nodes, Append(n, t))
    OBVIOUS
  <2>1. n = Root
    BY <1>1 DEF Root
  <2> QED
    BY <2>1, <1>9, <1>11
<1>14. ASSUME NEW r \in Nat, r \in T PROVE r + 1 \in T
  <2> SUFFICES ASSUME NEW n \in WithFail, Len(n) <= r + 1
               PROVE  IsLongest(up[n], Nodes, Append(n, t))
    OBVIOUS
  <2>1. CASE Append(n, t) \notin Nodes /\ n # Root
    <3>1. trie[n].fail \in WithFail /\ Len(trie[n].fail) < Len(n) /\ Len(n) \in Nat
          /\ Len(trie[n].fail) \in Nat
      BY <2>1, FailShorter
    <3>2. IsLongest(up[trie[n].fail], Nodes, Append(trie[n].fail, t))
      BY <3>1, <1>14
    <3> QED
      BY <2>1, <3>2, <1>12
  <2> QED
    BY <2>1, <1>9, <1>11
<1> HIDE DEF T
<1>15. \A r \in Nat : r \in T
  BY <1>13, <1>14, Induction, Zenon
<1> SUFFICES ASSUME NEW n \in WithFail PROVE IsLongest(up[n], Nodes, Append(n, t))
  BY <1>8
<1>16. Len(n) \in T /\ Len(n) <= Len(n)
  BY <1>1, <1>15
<1> QED
  BY <1>16 DEF T

\* The nodes where a keyword ends.
Enders == {n \in Nodes : trie[n].is_end}

\* x is the longest of a set of keywords that w ends in, or Null.
FirstKeyword(x, K, w) == IF EndingIn(K, w) = {} THEN x = Null ELSE IsLongest(x, K, w)

\* Where it is not itself a keyword, it is that of the fail link.
LEMMA FirstKeywordOfFail ==
    ASSUME TrieType, FailsToLongest, NEW n \in WithFail, n # Root, n \notin Enders, NEW x,
           FirstKeyword(x, Enders, trie[n].fail)
    PROVE  FirstKeyword(x, Enders, n)
<1>1. PICK s : s = trie[n].fail
  OBVIOUS
<1>2. n \in Seq(Nat) /\ n # <<>> /\ IsLongest(s, Nodes, Tail(n)) /\ Tail(n) \in Ids
  BY <1>1, FailShorter
<1>3. Nodes \subseteq Ids /\ Enders \subseteq Nodes
  BY DEF TrieType, Enders
<1>4. EndingIn(Enders, s) = EndingIn(Enders, Tail(n))
  BY <1>2, <1>3, LongestHasAll
<1>5. EndingIn(Enders, Tail(n)) = EndingIn(Enders, n)
  <2>1. ASSUME NEW y \in Enders PROVE IsSuffix(y, n) <=> IsSuffix(y, Tail(n))
    <3>1. y \in Seq(Nat) /\ y # n
      BY <1>3 DEF Ids
    <3> QED
      BY <3>1, <1>2, SuffixOfTail, Zenon
  <2> QED
    BY <2>1 DEF EndingIn
<1>6. IsLongest(x, Enders, s) <=> x \in EndingIn(Enders, s)
                                  /\ \A y \in EndingIn(Enders, s) : Len(y) <= Len(x)
  BY DEF IsLongest, EndingIn
<1>7. IsLongest(x, Enders, n) <=> x \in EndingIn(Enders, n)
                                  /\ \A y \in EndingIn(Enders, n) : Len(y) <= Len(x)
  BY DEF IsLongest, EndingIn
<1> QED
  BY <1>1, <1>4, <1>5, <1>6, <1>7, Zenon DEF FirstKeyword

\* Going up the fail links finds the longest keyword that a node ends in.
LEMMA KeywordAboveIs ==
    ASSUME TrieType, FailsToLongest, Root \notin Enders
    PROVE  \A n \in WithFail : FirstKeyword(KeywordAbove(n), Enders, n)
<1> DEFINE rank == [n \in WithFail |-> Len(n)]
           next == [n \in WithFail |-> trie[n].fail]
           stop == {n \in WithFail : n = Root \/ trie[n].is_end}
           base == [n \in WithFail |-> IF n = Root THEN Null ELSE n]
           up[n \in WithFail] ==
               IF n = Root THEN Null ELSE IF trie[n].is_end THEN n ELSE up[trie[n].fail]
<1>1. ASSUME NEW n \in WithFail PROVE n \in Seq(Nat) /\ Len(n) \in Nat
  BY DEF TrieType, WithFail, Ids
<1>2. rank \in [WithFail -> Nat]
  BY <1>1
<1>3. ASSUME NEW n \in WithFail, n # Root
      PROVE  next[n] \in WithFail /\ rank[next[n]] < rank[n]
  BY <1>3, FailShorter
<1>4. Descends(WithFail, rank, next, stop)
  BY <1>3 DEF Descends
<1> HIDE DEF rank, next, stop, base
<1>5. PICK f : Recurs(f, WithFail, next, stop, base)
  BY <1>2, <1>4, RecursionExists, Zenon
<1>6. f = [n \in WithFail |-> IF n = Root THEN Null
                              ELSE IF trie[n].is_end THEN n ELSE f[trie[n].fail]]
  <2>1. ASSUME NEW n \in WithFail
        PROVE  (IF n \in stop THEN base[n] ELSE f[next[n]])
                = IF n = Root THEN Null ELSE IF trie[n].is_end THEN n ELSE f[trie[n].fail]
    BY DEF stop, base, next
  <2> QED
    BY <1>5, <2>1, Zenon DEF Recurs
<1>7. up = [n \in WithFail |-> IF n = Root THEN Null
                               ELSE IF trie[n].is_end THEN n ELSE up[trie[n].fail]]
  BY <1>6, Zenon
<1>8. \A n : KeywordAbove(n) = up[n]
  BY Zenon DEF KeywordAbove
<1> HIDE DEF up
<1> DEFINE T == {r \in Nat : \A n \in WithFail : Len(n) <= r => FirstKeyword(up[n], Enders, n)}
<1>9. ASSUME NEW n \in WithFail, n = Root PROVE FirstKeyword(up[n], Enders, n)
  <2>1. up[n] = Null
    BY <1>7, <1>9
  <2>2. ASSUME NEW y \in Enders, IsSuffix(y, n) PROVE FALSE
    <3>1. y \in Seq(Nat) /\ y # <<>>
      BY DEF Enders, TrieType, Ids, Root
    <3>2. n \in Seq(Nat) /\ Len(n) = 0
      BY <1>9 DEF Root
    <3>3. EndsIn(y, Len(y), n, Len(n))
      BY <3>1, <3>2, <2>2, SuffixBy, Zenon
    <3> QED
      BY <3>1, <3>2, <3>3 DEF EndsIn
  <2>3. EndingIn(Enders, n) = {}
    BY <2>2 DEF EndingIn
  <2> QED
    BY <2>1, <2>3, Zenon DEF FirstKeyword
<1>10. ASSUME NEW n \in WithFail, n # Root, trie[n].is_end PROVE FirstKeyword(up[n], Enders, n)
  <2>1. up[n] = n
    BY <1>7, <1>10
  <2>2. n \in Enders /\ Enders \subseteq Ids
    BY <1>10 DEF Enders, WithFail, TrieType
  <2>3. IsLongest(n, Enders, n)
    BY <2>2, LongestOfMember
  <2>4. n \in EndingIn(Enders, n)
    BY <2>3, Zenon DEF IsLongest, EndingIn
  <2> QED
    BY <2>1, <2>3, <2>4, Zenon DEF FirstKeyword
<1>11. ASSUME NEW n \in WithFail, n # Root, ~trie[n].is_end,
              FirstKeyword(up[trie[n].fail], Enders, trie[n].fail)
       PROVE  FirstKeyword(up[n], Enders, n)
  <2>1. up[n] = up[trie[n].fail]
    BY <1>7, <1>11
  <2>2. n \notin Enders
    BY <1>11 DEF Enders
  <2> QED
    BY <2>1, <2>2, <1>11, FirstKeywordOfFail
<1>12. 0 \in T
  <2> SUFFICES ASSUME NEW n \in WithFail, Len(n) <= 0 PROVE FirstKeyword(up[n], Enders, n)
    OBVIOUS
  <2>1. n = Root
    BY <1>1 DEF Root
  <2> QED
    BY <2>1, <1>9
<1>13. ASSUME NEW r \in Nat, r \in T PROVE r + 1 \in T
  <2> SUFFICES ASSUME NEW n \in WithFail, Len(n) <= r + 1 PROVE FirstKeyword(up[n], Enders, n)
    OBVIOUS
  <2>1. CASE n # Root /\ ~trie[n].is_end
    <3>1. trie[n].fail \in WithFail /\ Len(trie[n].fail) < Len(n) /\ Len(n) \in Nat
          /\ Len(trie[n].fail) \in Nat
      BY <2>1, FailShorter
    <3>2. FirstKeyword(up[trie[n].fail], Enders, trie[n].fail)
      BY <3>1, <1>13
    <3> QED
      BY <2>1, <3>2, <1>11
  <2> QED
    BY <2>1, <1>9, <1>10
<1> HIDE DEF T
<1>14. \A r \in Nat : r \in T
  BY <1>12, <1>13, Induction, Zenon
<1> SUFFICES ASSUME NEW n \in WithFail PROVE FirstKeyword(up[n], Enders, n)
  BY <1>8
<1>15. Len(n) \in T /\ Len(n) <= Len(n)
  BY <1>1, <1>14
<1> QED
  BY <1>15 DEF T

-----------------------------------------------------------------------------
(* The scores of a path, and an order of the children of a node.           *)

\* The children of a node are put in some order, all of them, each once.
LEMMA OrderIs ==
    ASSUME NEW S, IsFiniteSet(S), NEW order \in SetToSeqs(S)
    PROVE  /\ order \in Seq(S)
           /\ \A s \in S : \E i \in 1 .. Len(order) : order[i] = s
           /\ \A i, j \in 1 .. Len(order) : i # j => order[i] # order[j]
<1>1. PICK n \in Nat : n = Cardinality(S)
  BY FS_CardinalityType
<1>2. order \in [1 .. n -> S] /\ \A i, j \in 1 .. n : i # j => order[i] # order[j]
  BY <1>1 DEF SetToSeqs
<1>3. order \in Injection(1 .. n, S)
  BY <1>2 DEF Injection, IsInjective
<1>4. IsFiniteSet(1 .. n) /\ Cardinality(1 .. n) = n
  BY FS_Interval
<1>5. order \in Surjection(1 .. n, S)
  BY <1>1, <1>3, <1>4, FS_Injection
<1>6. \A s \in S : \E i \in 1 .. n : order[i] = s
  BY <1>5 DEF Surjection
<1>7. order \in Seq(S) /\ Len(order) = n
  BY <1>2
<1> QED
  BY <1>2, <1>6, <1>7

\* The nodes of a path.
LEMMA PathIs ==
    ASSUME NEW k \in KeywordRecord
    PROVE  /\ Path(k) \subseteq Ids /\ IsFiniteSet(Path(k)) /\ Root \notin Path(k)
           /\ \A n \in Path(k) : n # <<>> /\ Len(n) \in 1 .. Len(k.ids)
                                 /\ (Front(n) = Root \/ Front(n) \in Path(k))
           /\ k.ids # Root => k.ids \in Path(k)
<1>1. k.ids \in Seq(Nat)
  BY DEF KeywordRecord, Ids
<1>2. PICK ids \in Seq(Nat) : ids = k.ids
  BY <1>1
<1>3. PICK m \in Nat : m = Len(ids)
  OBVIOUS
<1>4. ASSUME NEW j \in 1 .. m
      PROVE  /\ SubSeq(ids, 1, j) \in Seq(Nat) /\ Len(SubSeq(ids, 1, j)) = j
             /\ SubSeq(ids, 1, j) # <<>>
             /\ Front(SubSeq(ids, 1, j)) = SubSeq(ids, 1, j - 1)
  BY <1>3 DEF Front
<1>5. Path(k) = {SubSeq(ids, 1, j) : j \in 1 .. m}
  BY <1>2, <1>3 DEF Path
<1>6. IsFiniteSet(Path(k))
  <2> DEFINE f == [j \in 1 .. m |-> SubSeq(ids, 1, j)]
  <2>1. f \in Surjection(1 .. m, Path(k))
    BY <1>5 DEF Surjection
  <2>2. IsFiniteSet(1 .. m)
    BY FS_Interval
  <2> QED
    BY <2>1, <2>2, FS_Surjection
<1>7. ASSUME NEW n \in Path(k)
      PROVE  /\ n \in Seq(Nat) /\ n # <<>> /\ Len(n) \in 1 .. m
             /\ (Front(n) = Root \/ Front(n) \in Path(k))
  <2>1. PICK j \in 1 .. m : n = SubSeq(ids, 1, j)
    BY <1>5
  <2>2. Front(n) = SubSeq(ids, 1, j - 1)
    BY <1>4, <2>1
  <2>3. CASE j = 1
    <3>1. SubSeq(ids, 1, 0) = <<>>
      OBVIOUS
    <3> QED
      BY <1>4, <2>1, <2>2, <2>3, <3>1 DEF Root
  <2>4. CASE j # 1
    <3>1. j - 1 \in 1 .. m
      BY <2>4
    <3> QED
      BY <1>4, <1>5, <2>1, <2>2, <3>1
  <2> QED
    BY <2>3, <2>4
<1>8. ASSUME ids # Root PROVE ids \in Path(k)
  <2>1. m \in 1 .. m /\ ids = SubSeq(ids, 1, m)
    BY <1>3, <1>8 DEF Root
  <2> QED
    BY <2>1, <1>5
<1> QED
  BY <1>2, <1>3, <1>6, <1>7, <1>8 DEF Ids, Root

\* The scores along a path are numbers.
LEMMA ScoresAreNumbers ==
    ASSUME TrieType, NEW k \in KeywordRecord
    PROVE  /\ \A n : TokenScore(k, n) \in Int
           /\ \A j \in 0 .. Len(k.ids) : NodeScore(k)[j] \in Int
           /\ \A j \in 0 .. Len(k.ids) : NodeScore(k)[j] =
                 IF j = 0 THEN 0 ELSE NodeScore(k)[j - 1] + TokenScore(k, SubSeq(k.ids, 1, j))
<1>1. Default(k.score, ContextScore) \in Int
  BY GraphAssumption DEF Default, KeywordRecord
<1>2. ASSUME NEW n PROVE TokenScore(k, n) \in Int
  <2>1. CASE n \in Nodes
    <3>1. trie[n].token_score \in Int
      BY <2>1 DEF TrieType, NodeRecord
    <3>2. \A a, b \in Int : Higher(a, b) \in Int
      BY DEF Higher
    <3> QED
      BY <1>1, <2>1, <3>1, <3>2 DEF TokenScore
  <2>2. CASE n \notin Nodes
    BY <1>1, <2>2 DEF TokenScore
  <2> QED
    BY <2>1, <2>2
<1>3. k.ids \in Seq(Nat)
  BY DEF KeywordRecord, Ids
<1>4. PICK m \in Nat : m = Len(k.ids)
  BY <1>3
<1> DEFINE given == [j \in 1 .. m |-> TokenScore(k, SubSeq(k.ids, 1, j))]
           Plus == [x \in Int \X Int |-> x[1] + x[2]]
           sum[j \in 0 .. Len(k.ids)] ==
               IF j = 0 THEN 0 ELSE sum[j - 1] + TokenScore(k, SubSeq(k.ids, 1, j))
<1>5. given \in Seq(Int) /\ Len(given) = m
  BY <1>2
<1>6. Plus \in [Int \X Int -> Int] /\ \A a, b \in Int : Plus[<<a, b>>] = a + b
  OBVIOUS
<1>7. \A j \in 1 .. m : given[j] = TokenScore(k, SubSeq(k.ids, 1, j))
  OBVIOUS
<1> HIDE DEF given, Plus
<1>8. PICK f \in [0 .. m -> Int] : Folds(f, given, 0, Plus)
  <2>1. 0 \in Int
    OBVIOUS
  <2> QED
    BY <1>5, <1>6, <2>1, FoldExists
<1>9. ASSUME NEW j \in 0 .. m
      PROVE  f[j] = IF j = 0 THEN 0 ELSE f[j - 1] + TokenScore(k, SubSeq(k.ids, 1, j))
  <2>1. f[0] = 0
    BY <1>8 DEF Folds, FoldsTo
  <2>2. ASSUME j # 0 PROVE f[j] = f[j - 1] + given[j]
    <3>1. j \in 1 .. m /\ j - 1 \in 0 .. m
      BY <2>2
    <3>2. f[j] = Plus[<<f[j - 1], given[j]>>]
      BY <1>5, <1>8, <3>1 DEF Folds, FoldsTo
    <3>3. f[j - 1] \in Int /\ given[j] \in Int
      BY <1>2, <1>7, <3>1
    <3> QED
      BY <3>2, <3>3, <1>6
  <2>3. j # 0 => j \in 1 .. m
    OBVIOUS
  <2> QED
    BY <2>1, <2>2, <2>3, <1>7
<1>10. f = [j \in 0 .. Len(k.ids) |-> IF j = 0 THEN 0
                                      ELSE f[j - 1] + TokenScore(k, SubSeq(k.ids, 1, j))]
  BY <1>4, <1>9
<1>11. sum = [j \in 0 .. Len(k.ids) |-> IF j = 0 THEN 0
                                        ELSE sum[j - 1] + TokenScore(k, SubSeq(k.ids, 1, j))]
  BY <1>10, Zenon
<1>12. NodeScore(k) = sum
  BY Zenon DEF NodeScore
<1> HIDE DEF sum
<1> DEFINE T == {j \in Nat : j <= m => sum[j] \in Int}
<1>13. 0 \in T
  BY <1>11, <1>4
<1>14. ASSUME NEW j \in Nat, j \in T PROVE j + 1 \in T
  <2> SUFFICES ASSUME j + 1 <= m PROVE sum[j + 1] \in Int
    OBVIOUS
  <2>1. sum[j] \in Int
    BY <1>14
  <2>2. sum[j + 1] = sum[j] + TokenScore(k, SubSeq(k.ids, 1, j + 1))
    <3>1. j + 1 \in 0 .. Len(k.ids) /\ j + 1 # 0 /\ (j + 1) - 1 = j
      BY <1>4
    <3> QED
      BY <1>11, <3>1
  <2> QED
    BY <2>1, <2>2, <1>2
<1> HIDE DEF T
<1>15. \A j \in Nat : j \in T
  BY <1>13, <1>14, Induction, Zenon
<1>16. ASSUME NEW j \in 0 .. m PROVE sum[j] \in Int
  BY <1>15 DEF T
<1>17. \A j \in 0 .. Len(k.ids) : sum[j] =
          IF j = 0 THEN 0 ELSE sum[j - 1] + TokenScore(k, SubSeq(k.ids, 1, j))
  BY <1>11, Zenon
<1> QED
  BY <1>2, <1>4, <1>12, <1>16, <1>17

-----------------------------------------------------------------------------
(* The invariant of the graph.                                             *)

\* Keywords end at their nodes, with the threshold of the last that ends there.
EndsOfKeywords ==
    /\ Root \notin Enders
    /\ \A i \in 1 .. inserted : keywords[i].ids = Root \/ keywords[i].ids \in Enders
    /\ \A n \in Enders : \E i \in 1 .. inserted :
          /\ keywords[i].ids = n
          /\ \A j \in 1 .. inserted : keywords[j].ids = n => j <= i
          /\ trie[n].ac_threshold = Default(keywords[i].ac_threshold, AcThreshold)

\* While keywords are put in there are no links.
NoLinks ==
    \A n \in Nodes : trie[n].output = Null /\ trie[n].fail = IF n = Root THEN Root ELSE Null

\* Then there are those of the nodes that have been queued, which are right.
OutputsToLongest ==
    /\ trie[Root].output = Null
    /\ \A n \in WithFail : n = Root \/ FirstKeyword(trie[n].output, Enders, Tail(n))

\* The queue holds them by their length, and all that have a child without.
QueueInv ==
    /\ \A i \in 1 .. Len(q) : q[i] \in WithFail /\ q[i] # Root
    /\ \A i, j \in 1 .. Len(q) : i <= j => Len(q[i]) <= Len(q[j]) /\ Len(q[j]) <= Len(q[i]) + 1
    /\ \A n \in Nodes \ WithFail :
          Front(n) \notin WithFail \/ \E i \in 1 .. Len(q) : q[i] = Front(n)

\* The invariant of the graph while it is built.
GraphInv ==
    /\ GraphType
    /\ EndsOfKeywords
    /\ ready \/ q # <<>> \/ NoLinks
    /\ ready \/ q # <<>> => /\ inserted = Len(keywords)
                            /\ FailsToLongest /\ OutputsToLongest /\ QueueInv
    /\ ready => q = <<>>

\* The trie of no keywords.
LEMMA GraphBegins == GraphInit => GraphInv
<1> SUFFICES ASSUME GraphInit PROVE GraphInv
  OBVIOUS
<1>1. keywords \in Seq(KeywordRecord) /\ inserted = 0 /\ q = <<>> /\ ready = FALSE
  BY GraphAssumption DEF GraphInit, KeywordRecord, Ids
<1>2. trie = [node \in {Root} |-> [Node EXCEPT !.fail = Root]]
  BY DEF GraphInit
<1>3. Nodes = {Root}
  BY <1>2 DEF Nodes
<1>4. Root \in Ids /\ Root \in Seq(Int) /\ Null \in Seq(Int)
  BY DEF Root, Null, Ids
<1>5. [Node EXCEPT !.fail = Root] \in NodeRecord
      /\ [Node EXCEPT !.fail = Root].fail = Root /\ [Node EXCEPT !.fail = Root].output = Null
      /\ [Node EXCEPT !.fail = Root].is_end = FALSE
  <2>1. PICK r : r = [Node EXCEPT !.fail = Root]
    OBVIOUS
  <2>2. r = [token_score |-> 0, node_score |-> 0, output_score |-> 0, ac_threshold |-> 0,
             is_end |-> FALSE, fail |-> Root, output |-> Null]
    BY <2>1 DEF Node
  <2>3. r \in NodeRecord
    BY <2>2, <1>4 DEF NodeRecord
  <2> QED
    BY <2>1, <2>2, <2>3
<1>6. trie[Root] = [Node EXCEPT !.fail = Root] /\ trie \in [Nodes -> NodeRecord]
  BY <1>2, <1>3, <1>5
<1>7. IsFiniteSet(Nodes)
  BY <1>3, FS_Singleton
<1>8. GraphType
  <2>1. TrieType
    BY <1>3, <1>4, <1>6, <1>7 DEF TrieType
  <2>2. inserted \in 0 .. Len(keywords)
    BY <1>1
  <2>3. <<>> \in Seq(Nodes)
    BY EmptySeq
  <2>4. FALSE \in BOOLEAN
    BY Zenon
  <2> QED
    BY <1>1, <2>1, <2>2, <2>3, <2>4, Zenon DEF GraphType
<1>9. Enders = {}
  BY <1>3, <1>5, <1>6 DEF Enders
<1>10. EndsOfKeywords
  BY <1>1, <1>9 DEF EndsOfKeywords
<1>11. NoLinks
  BY <1>3, <1>5, <1>6 DEF NoLinks
<1> QED
  BY <1>1, <1>8, <1>10, <1>11 DEF GraphInv

\* One more keyword is put into the trie.
LEMMA BuildInv == GraphInv /\ Build => GraphInv'
<1> SUFFICES ASSUME GraphInv, Build PROVE GraphInv'
  OBVIOUS
<1>1. GraphType /\ TrieType /\ EndsOfKeywords
  BY DEF GraphInv, GraphType
<1>2. inserted < Len(keywords) /\ inserted' = inserted + 1 /\ keywords' = keywords
      /\ q' = q /\ ready' = ready /\ inserted \in Nat
  BY <1>1 DEF Build, GraphType
<1>3. ~ready /\ q = <<>> /\ NoLinks
  BY <1>2, <1>1 DEF GraphInv, GraphType
<1>4. PICK k \in KeywordRecord : k = keywords[inserted + 1]
  BY <1>1, <1>2 DEF GraphType
<1>5. trie' = [node \in Nodes \cup Path(k) |->
                  IF node \in Path(k) THEN OnPath(k, node) ELSE trie[node]]
  BY <1>4 DEF Build
<1>6. Nodes' = Nodes \cup Path(k)
  BY <1>5 DEF Nodes
<1>7. /\ Path(k) \subseteq Ids /\ IsFiniteSet(Path(k)) /\ Root \notin Path(k)
      /\ \A n \in Path(k) : n # <<>> /\ Len(n) \in 1 .. Len(k.ids)
                            /\ (Front(n) = Root \/ Front(n) \in Path(k))
      /\ k.ids # Root => k.ids \in Path(k)
  BY PathIs
<1>8. Default(k.ac_threshold, AcThreshold) \in Int /\ k.ids \in Seq(Nat)
  BY GraphAssumption DEF Default, KeywordRecord, Ids
<1>9. ASSUME NEW n \in Path(k)
      PROVE  /\ OnPath(k, n) \in NodeRecord
             /\ OnPath(k, n).fail = Null /\ OnPath(k, n).output = Null
             /\ OnPath(k, n).is_end <=> n = k.ids \/ n \in Enders
             /\ OnPath(k, n).ac_threshold = IF n = k.ids THEN Default(k.ac_threshold, AcThreshold)
                                            ELSE IF n \in Nodes THEN trie[n].ac_threshold ELSE 0
  <2>1. PICK old : old = IF n \in Nodes THEN trie[n] ELSE Node
    OBVIOUS
  <2>2. Node \in NodeRecord /\ Node.fail = Null /\ Node.output = Null /\ Node.is_end = FALSE
        /\ Node.ac_threshold = 0
    <3>1. Null \in Seq(Int)
      BY DEF Null
    <3> QED
      BY <3>1 DEF Node, NodeRecord
  <2>3. old \in NodeRecord /\ old.fail = Null /\ old.output = Null
        /\ (old.is_end <=> n \in Enders)
        /\ old.ac_threshold = IF n \in Nodes THEN trie[n].ac_threshold ELSE 0
    <3>1. CASE n \in Nodes
      <4>1. n # Root
        BY <1>7
      <4>2. trie[n] \in NodeRecord
        BY <1>1, <3>1 DEF TrieType
      <4>3. trie[n].fail = Null /\ trie[n].output = Null
        BY <3>1, <4>1, <1>3 DEF NoLinks
      <4> QED
        BY <2>1, <3>1, <4>2, <4>3 DEF Enders
    <3>2. CASE n \notin Nodes
      BY <2>1, <2>2, <3>2 DEF Enders
    <3> QED
      BY <3>1, <3>2
  <2>4. PICK a \in Int, b \in Int : a = TokenScore(k, n) /\ b = NodeScore(k)[Len(n)]
    <3>1. Len(n) \in 0 .. Len(k.ids)
      BY <1>7, <1>8
    <3> QED
      BY <3>1, <1>1, ScoresAreNumbers
  <2>5. PICK last \in BOOLEAN : last = (n = k.ids)
    OBVIOUS
  <2>6. OnPath(k, n) =
          [old EXCEPT !.token_score = a, !.node_score = b,
                      !.output_score = IF last \/ old.is_end THEN b ELSE 0,
                      !.ac_threshold = IF last THEN Default(k.ac_threshold, AcThreshold) ELSE @,
                      !.is_end = last \/ old.is_end]
    BY <2>1, <2>4, <2>5 DEF OnPath
  <2>7. PICK d \in Int : d = Default(k.ac_threshold, AcThreshold)
    BY <1>8
  <2>8. PICK r : r = [old EXCEPT !.token_score = a, !.node_score = b,
                      !.output_score = IF last \/ old.is_end THEN b ELSE 0,
                      !.ac_threshold = IF last THEN d ELSE @,
                      !.is_end = last \/ old.is_end]
    OBVIOUS
  <2>9. r \in NodeRecord /\ r.fail = old.fail /\ r.output = old.output
        /\ (r.is_end <=> last \/ old.is_end)
        /\ r.ac_threshold = IF last THEN d ELSE old.ac_threshold
    <3>1. old \in NodeRecord
      BY <2>3
    <3>2. PICK t \in Int : t = IF last \/ old.is_end THEN b ELSE 0
      OBVIOUS
    <3>3. PICK h \in Int : h = IF last THEN d ELSE old.ac_threshold
      BY <3>1 DEF NodeRecord
    <3>4. PICK z \in BOOLEAN : z = (last \/ old.is_end)
      OBVIOUS
    <3>5. r = [token_score |-> a, node_score |-> b, output_score |-> t, ac_threshold |-> h,
               is_end |-> z, fail |-> old.fail, output |-> old.output]
      BY <2>8, <3>1, <3>2, <3>3, <3>4 DEF NodeRecord
    <3>6. r \in NodeRecord
      BY <3>1, <3>5 DEF NodeRecord
    <3> QED
      BY <3>3, <3>4, <3>5, <3>6
  <2>10. OnPath(k, n) = r
    BY <2>6, <2>7, <2>8
  <2> QED
    BY <2>3, <2>5, <2>7, <2>9, <2>10
<1>10. TrieType'
  <2>1. trie' \in [Nodes' -> NodeRecord]
    <3>1. ASSUME NEW n \in Nodes' PROVE trie'[n] \in NodeRecord
      BY <1>5, <1>6, <1>9, <1>1 DEF TrieType
    <3> QED
      BY <3>1, <1>5, <1>6
  <2>2. Nodes' \subseteq Ids /\ Root \in Nodes'
    BY <1>1, <1>6, <1>7 DEF TrieType
  <2>3. IsFiniteSet(Nodes')
    BY <1>1, <1>6, <1>7, FS_Union DEF TrieType
  <2>4. ASSUME NEW n \in Nodes' PROVE n = Root \/ Front(n) \in Nodes'
    BY <1>1, <1>6, <1>7 DEF TrieType
  <2> QED
    BY <2>1, <2>2, <2>3, <2>4 DEF TrieType
<1>11. GraphType'
  <2>1. inserted' \in 0 .. Len(keywords')
    BY <1>1, <1>2 DEF GraphType
  <2>2. q' \in Seq(Nodes')
    BY <1>2, <1>3
  <2> QED
    BY <1>1, <1>2, <1>10, <2>1, <2>2 DEF GraphType
<1>12. ASSUME NEW n \in Path(k) PROVE n \in Nodes' /\ trie'[n] = OnPath(k, n)
  BY <1>5, <1>6
<1>13. ASSUME NEW n \in Nodes, n \notin Path(k) PROVE n \in Nodes' /\ trie'[n] = trie[n]
  BY <1>5, <1>6, <1>13
<1>14. ASSUME NEW n \in Nodes'
       PROVE  n \in Enders' <=> (n = k.ids /\ n # Root) \/ n \in Enders
  <2>1. n \in Enders' <=> trie'[n].is_end
    BY DEF Enders
  <2>2. CASE n \in Path(k)
    BY <2>1, <2>2, <1>9, <1>12, <1>7
  <2>3. CASE n \notin Path(k)
    <3>1. n \in Nodes /\ trie'[n] = trie[n]
      BY <2>3, <1>6, <1>13
    <3>2. n \in Enders <=> trie[n].is_end
      BY <3>1 DEF Enders
    <3>3. n = k.ids => n = Root
      BY <2>3, <1>7
    <3> QED
      BY <2>1, <3>1, <3>2, <3>3
  <2> QED
    BY <2>2, <2>3
<1>15. ASSUME NEW n \in Enders, n # k.ids
       PROVE  n \in Nodes /\ trie'[n].ac_threshold = trie[n].ac_threshold
  <2>1. n \in Nodes
    BY DEF Enders
  <2> QED
    BY <2>1, <1>9, <1>12, <1>13, <1>15
<1>16. Enders \subseteq Enders' /\ Enders' \subseteq Nodes' /\ Enders \subseteq Nodes
  BY <1>6, <1>14 DEF Enders
<1>17. EndsOfKeywords'
  <2>1. Root \notin Enders'
    BY <1>14, <1>1, <1>16 DEF EndsOfKeywords
  <2>2. ASSUME NEW i \in 1 .. inserted + 1
        PROVE  keywords[i].ids = Root \/ keywords[i].ids \in Enders'
    <3>1. CASE i = inserted + 1
      <4>1. keywords[i].ids = k.ids
        BY <3>1, <1>4
      <4>2. k.ids # Root => k.ids \in Nodes'
        BY <1>7, <1>6
      <4> QED
        BY <4>1, <4>2, <1>14
    <3>2. CASE i # inserted + 1
      <4>1. i \in 1 .. inserted
        BY <3>2, <1>2
      <4> QED
        BY <4>1, <1>1, <1>16 DEF EndsOfKeywords
    <3> QED
      BY <3>1, <3>2
  <2>3. ASSUME NEW n \in Enders'
        PROVE  \E i \in 1 .. inserted + 1 :
                  /\ keywords[i].ids = n
                  /\ \A j \in 1 .. inserted + 1 : keywords[j].ids = n => j <= i
                  /\ trie'[n].ac_threshold = Default(keywords[i].ac_threshold, AcThreshold)
    <3>1. CASE n = k.ids
      <4>1. n # Root /\ n \in Path(k)
        BY <2>1, <3>1, <1>7
      <4>2. trie'[n].ac_threshold = Default(k.ac_threshold, AcThreshold)
        BY <4>1, <3>1, <1>9, <1>12
      <4>3. inserted + 1 \in 1 .. inserted + 1
        BY <1>2
      <4>4. \A j \in 1 .. inserted + 1 : j <= inserted + 1
        BY <1>2
      <4> QED
        BY <4>2, <4>3, <4>4, <3>1, <1>4
    <3>2. CASE n # k.ids
      <4>1. n \in Enders
        BY <3>2, <1>14, <1>16
      <4>2. PICK i \in 1 .. inserted :
              /\ keywords[i].ids = n
              /\ \A j \in 1 .. inserted : keywords[j].ids = n => j <= i
              /\ trie[n].ac_threshold = Default(keywords[i].ac_threshold, AcThreshold)
        BY <4>1, <1>1 DEF EndsOfKeywords
      <4>3. trie'[n].ac_threshold = trie[n].ac_threshold
        BY <4>1, <3>2, <1>15
      <4>4. i \in 1 .. inserted + 1
        BY <1>2
      <4>5. ASSUME NEW j \in 1 .. inserted + 1, keywords[j].ids = n PROVE j <= i
        <5>1. j # inserted + 1
          BY <3>2, <4>5, <1>4
        <5>2. j \in 1 .. inserted
          BY <5>1, <1>2
        <5> QED
          BY <5>2, <4>2, <4>5
      <4> QED
        BY <4>2, <4>3, <4>4, <4>5
    <3> QED
      BY <3>1, <3>2
  <2> QED
    BY <1>2, <2>1, <2>2, <2>3 DEF EndsOfKeywords
<1>18. NoLinks'
  <2> SUFFICES ASSUME NEW n \in Nodes'
               PROVE  trie'[n].output = Null /\ trie'[n].fail = IF n = Root THEN Root ELSE Null
    BY DEF NoLinks
  <2>1. CASE n \in Path(k)
    BY <2>1, <1>7, <1>9, <1>12
  <2>2. CASE n \notin Path(k)
    <3>1. n \in Nodes /\ trie'[n] = trie[n]
      BY <2>2, <1>6, <1>13
    <3> QED
      BY <3>1, <1>3 DEF NoLinks
  <2> QED
    BY <2>1, <2>2
<1> QED
  BY <1>2, <1>3, <1>11, <1>17, <1>18 DEF GraphInv

\* A child of a node is the node with a token more.
LEMMA ChildIs ==
    ASSUME TrieType, NEW p \in Nodes, NEW c \in Children(p)
    PROVE  /\ c \in Nodes /\ c \in Seq(Nat) /\ p \in Seq(Nat) /\ c # Root
           /\ Front(c) = p /\ Last(c) \in Nat /\ c = Append(p, Last(c)) /\ Len(c) = Len(p) + 1
           /\ p # Root => Tail(c) = Append(Tail(p), Last(c)) /\ Tail(p) \in Ids
<1>1. c \in Nodes /\ c \in Seq(Nat) /\ p \in Seq(Nat) /\ Len(c) = Len(p) + 1 /\ Front(c) = p
  BY DEF TrieType, Children, Ids
<1>2. c # <<>>
  BY <1>1
<1>3. PICK t : t = Last(c)
  OBVIOUS
<1>4. t \in Nat /\ c = Append(p, t)
  BY <1>1, <1>2, <1>3, FrontIs
<1>5. p # <<>> => Tail(Append(p, t)) = Append(Tail(p), t) /\ Tail(p) \in Seq(Nat)
  BY <1>1, <1>4, TailAppend
<1> QED
  BY <1>1, <1>2, <1>3, <1>4, <1>5 DEF Root, Ids

\* A node without a fail link is longer than what is first in the queue.
LEMMA QueueAhead ==
    ASSUME GraphInv, ready \/ q # <<>>
    PROVE  /\ q # <<>> => \A n \in Nodes : n \in WithFail \/ Len(n) > Len(Head(q))
           /\ q = <<>> => Nodes = WithFail
<1>1. TrieType /\ FailsToLongest /\ QueueInv /\ q \in Seq(Nodes)
  BY DEF GraphInv, GraphType
<1>2. ASSUME NEW n \in Nodes
      PROVE  n \in Seq(Nat) /\ Len(n) \in Nat
  BY <1>1 DEF TrieType, Ids
<1> DEFINE Far(n) == n \in WithFail \/ (q # <<>> /\ Len(n) > Len(Head(q)))
           T == {r \in Nat : \A n \in Nodes : Len(n) <= r => Far(n)}
<1>3. ASSUME NEW n \in Nodes, n \notin WithFail
      PROVE  Front(n) \in Nodes /\ Len(n) = Len(Front(n)) + 1
  <2>1. n # Root
    BY <1>1, <1>3 DEF FailsToLongest
  <2>2. Front(n) \in Nodes
    BY <1>1, <2>1 DEF TrieType
  <2>3. Len(Front(n)) = Len(n) - 1
    BY <1>2, <2>1, FrontIs DEF Root
  <2> QED
    BY <2>2, <2>3, <1>2
<1>4. ASSUME NEW n \in Nodes, n \notin WithFail, Front(n) \in WithFail
      PROVE  Far(n)
  <2>1. PICK i \in 1 .. Len(q) : q[i] = Front(n)
    BY <1>1, <1>4 DEF QueueInv
  <2>2. q # <<>> /\ 1 \in 1 .. Len(q) /\ 1 <= i /\ Head(q) = q[1] /\ q[1] \in Nodes
    BY <1>1, <2>1
  <2>3. Len(q[1]) <= Len(q[i])
    BY <1>1, <2>2 DEF QueueInv
  <2>4. Len(n) = Len(q[i]) + 1 /\ Len(q[i]) \in Nat
    BY <1>3, <1>4, <1>2, <2>1
  <2>5. Len(q[1]) \in Nat
    BY <2>2, <1>2
  <2>6. Len(n) > Len(Head(q))
    BY <2>2, <2>3, <2>4, <2>5
  <2> QED
    BY <2>2, <2>6
<1>5. ASSUME NEW n \in Nodes, n \notin WithFail, Far(Front(n)), Front(n) \notin WithFail
      PROVE  Far(n)
  <2>1. Len(n) = Len(Front(n)) + 1 /\ Len(Front(n)) \in Nat
    BY <1>2, <1>3, <1>5
  <2>2. q # <<>> /\ Len(Front(n)) > Len(Head(q))
    BY <1>5
  <2>3. Len(Head(q)) \in Nat
    BY <2>2, <1>1, <1>2
  <2> QED
    BY <2>1, <2>2, <2>3
<1>6. 0 \in T
  <2> SUFFICES ASSUME NEW n \in Nodes, Len(n) <= 0 PROVE n \in WithFail
    OBVIOUS
  <2>1. n = Root
    BY <1>2 DEF Root
  <2> QED
    BY <2>1, <1>1 DEF FailsToLongest
<1>7. ASSUME NEW r \in Nat, r \in T PROVE r + 1 \in T
  <2> SUFFICES ASSUME NEW n \in Nodes, Len(n) <= r + 1, n \notin WithFail PROVE Far(n)
    OBVIOUS
  <2>1. Front(n) \in Nodes /\ Len(Front(n)) <= r
    BY <1>2, <1>3
  <2>2. Far(Front(n))
    BY <2>1, <1>7
  <2> QED
    BY <2>2, <1>4, <1>5
<1> HIDE DEF T
<1>8. \A r \in Nat : r \in T
  BY <1>6, <1>7, Induction, Zenon
<1>9. ASSUME NEW n \in Nodes PROVE Far(n)
  <2>1. Len(n) \in T /\ Len(n) <= Len(n)
    BY <1>2, <1>8
  <2> QED
    BY <2>1 DEF T
<1>10. WithFail \subseteq Nodes
  BY DEF WithFail
<1> QED
  BY <1>9, <1>10

\* The links of a child of the node that is first in the queue.
LEMMA LinkedIs ==
    ASSUME GraphInv, q # <<>>, NEW c \in Children(Head(q))
    PROVE  /\ Linked(c) \in NodeRecord /\ Linked(c).is_end = trie[c].is_end
           /\ Linked(c).ac_threshold = trie[c].ac_threshold
           /\ Linked(c).fail \in WithFail /\ IsLongest(Linked(c).fail, Nodes, Tail(c))
           /\ FirstKeyword(Linked(c).output, Enders, Tail(c))
<1>1. TrieType /\ FailsToLongest /\ QueueInv /\ q \in Seq(Nodes) /\ Root \notin Enders
  BY DEF GraphInv, GraphType, EndsOfKeywords
<1>2. PICK p : p = Head(q)
  OBVIOUS
<1>3. p \in WithFail /\ p # Root /\ p \in Nodes
  <2>1. 1 \in 1 .. Len(q) /\ p = q[1]
    BY <1>1, <1>2
  <2> QED
    BY <2>1, <1>1 DEF QueueInv
<1>4. PICK t : t = Last(c)
  OBVIOUS
<1>5. /\ c \in Nodes /\ c \in Seq(Nat) /\ p \in Seq(Nat) /\ c # Root
      /\ Front(c) = p /\ t \in Nat /\ c = Append(p, t) /\ Len(c) = Len(p) + 1
      /\ Tail(c) = Append(Tail(p), t) /\ Tail(p) \in Ids
  BY <1>1, <1>2, <1>3, <1>4, ChildIs
<1>6. PICK s : s = trie[p].fail
  OBVIOUS
<1>7. s \in WithFail /\ IsLongest(s, Nodes, Tail(p))
  BY <1>1, <1>3, <1>6, FailShorter
<1>8. PICK f : f = Fail(c)
  OBVIOUS
<1>9. f = Climb(t)[s]
  BY <1>4, <1>5, <1>6, <1>8 DEF Fail
<1>10. IsLongest(f, Nodes, Append(s, t))
  BY <1>1, <1>5, <1>7, <1>9, ClimbIs
<1>11. IsLongest(f, Nodes, Tail(c))
  <2>1. /\ Nodes \subseteq Ids /\ <<>> \in Nodes
        /\ \A m \in Nodes : m = <<>> \/ Front(m) \in Nodes
    BY <1>1 DEF TrieType, Root
  <2>2. IsLongest(f, Nodes, Append(Tail(p), t))
    BY <1>5, <1>7, <1>10, <2>1, LongestByStep
  <2> QED
    BY <2>2, <1>5
<1>12. f \in WithFail
  <2>1. f \in Nodes /\ f \in Seq(Nat) /\ IsSuffix(f, Tail(c))
    BY <1>1, <1>11 DEF TrieType, Ids, IsLongest
  <2>2. Tail(c) \in Seq(Nat) /\ Len(Tail(c)) = Len(p) /\ Len(p) \in Nat
    BY <1>5
  <2>3. EndsIn(f, Len(f), Tail(c), Len(Tail(c)))
    BY <2>1, <2>2, SuffixBy, Zenon
  <2>4. Len(f) <= Len(p) /\ Len(f) \in Nat
    BY <2>1, <2>2, <2>3 DEF EndsIn
  <2>5. f \in WithFail \/ Len(f) > Len(p)
    BY <1>2, <2>1, QueueAhead
  <2> QED
    BY <2>2, <2>4, <2>5
<1>13. PICK out : out = KeywordAbove(f)
  OBVIOUS
<1>14. FirstKeyword(out, Enders, f)
  BY <1>1, <1>12, <1>13, KeywordAboveIs
<1>15. FirstKeyword(out, Enders, Tail(c))
  <2>1. EndingIn(Enders, f) = EndingIn(Enders, Tail(c))
    <3>0. Tail(c) \in Seq(Nat)
      BY <1>5
    <3>1. Nodes \subseteq Ids /\ Enders \subseteq Nodes /\ Tail(c) \in Ids
      BY <1>1, <3>0 DEF TrieType, Enders, Ids
    <3> QED
      BY <3>1, <1>11, LongestHasAll
  <2>2. IsLongest(out, Enders, f) <=> out \in EndingIn(Enders, f)
                                      /\ \A y \in EndingIn(Enders, f) : Len(y) <= Len(out)
    BY DEF IsLongest, EndingIn
  <2>3. IsLongest(out, Enders, Tail(c)) <=>
            out \in EndingIn(Enders, Tail(c))
            /\ \A y \in EndingIn(Enders, Tail(c)) : Len(y) <= Len(out)
    BY DEF IsLongest, EndingIn
  <2> QED
    BY <1>14, <2>1, <2>2, <2>3, Zenon DEF FirstKeyword
<1>16. out = Null \/ out \in Nodes
  BY <1>14 DEF FirstKeyword, IsLongest, Enders
<1>17. PICK more \in Int : more = IF out = Null THEN 0 ELSE trie[out].output_score
  <2>1. out \in Nodes => trie[out].output_score \in Int
    BY <1>1 DEF TrieType, NodeRecord
  <2> QED
    BY <2>1, <1>16
<1>18. PICK old : old = trie[c]
  OBVIOUS
<1>19. old \in NodeRecord /\ f \in Seq(Int) /\ out \in Seq(Int)
  <2>1. \A x \in Ids : x \in Seq(Int)
    BY DEF Ids
  <2>2. Null \in Seq(Int)
    BY DEF Null
  <2>3. f \in Ids
    BY <1>1, <1>12 DEF TrieType, WithFail
  <2>4. out \in Nodes => out \in Ids
    BY <1>1 DEF TrieType
  <2> QED
    BY <2>1, <2>2, <2>3, <2>4, <1>1, <1>5, <1>16, <1>18 DEF TrieType
<1>20. PICK r : r = [old EXCEPT !.fail = f, !.output = out, !.output_score = @ + more]
  OBVIOUS
<1>21. r \in NodeRecord /\ r.fail = f /\ r.output = out /\ r.is_end = old.is_end
       /\ r.ac_threshold = old.ac_threshold
  <2>1. PICK n \in Int : n = old.output_score + more
    BY <1>19 DEF NodeRecord
  <2>2. r = [old EXCEPT !.fail = f, !.output = out, !.output_score = n]
    BY <1>20, <2>1
  <2>3. r \in NodeRecord
    BY <1>19, <2>2 DEF NodeRecord
  <2>4. r.fail = f /\ r.output = out /\ r.ac_threshold = old.ac_threshold
    BY <1>19, <2>2 DEF NodeRecord
  <2>5. r.is_end = old.is_end
    BY <1>19, <2>2 DEF NodeRecord
  <2> QED
    BY <2>3, <2>4, <2>5
<1>22. Linked(c) = r
  BY <1>8, <1>13, <1>17, <1>18, <1>20, Zenon DEF Linked
<1> QED
  BY <1>11, <1>12, <1>15, <1>18, <1>21, <1>22

\* A set of nodes gets its links, which are right, and is queued in some order.
LEMMA LinksAdded ==
    ASSUME GraphType, EndsOfKeywords, FailsToLongest, OutputsToLongest,
           NEW kids \in SUBSET (Nodes \ {Root}),
           Nodes' = Nodes, keywords' = keywords, inserted' = inserted,
           trie' \in [Nodes -> NodeRecord],
           \A n \in Nodes \ kids : trie'[n] = trie[n],
           \A n \in kids : /\ trie'[n].is_end = trie[n].is_end
                           /\ trie'[n].ac_threshold = trie[n].ac_threshold
                           /\ trie'[n].fail \in WithFail \/ trie'[n].fail = Root
                           /\ IsLongest(trie'[n].fail, Nodes, Tail(n))
                           /\ FirstKeyword(trie'[n].output, Enders, Tail(n))
    PROVE  /\ TrieType' /\ EndsOfKeywords' /\ FailsToLongest' /\ OutputsToLongest'
           /\ WithFail' = WithFail \cup kids
<1>1. TrieType'
  BY DEF GraphType, TrieType
<1>2. Enders' = Enders
  <2>1. ASSUME NEW n \in Nodes PROVE trie'[n].is_end = trie[n].is_end
    BY Zenon
  <2> QED
    BY <2>1 DEF Enders
<1>3. \A n \in Nodes : trie'[n].ac_threshold = trie[n].ac_threshold
  BY Zenon
<1>4. EndsOfKeywords'
  <2>1. Enders \subseteq Nodes
    BY DEF Enders
  <2> QED
    BY <1>2, <1>3, <2>1 DEF EndsOfKeywords
<1>5. ASSUME NEW n \in kids PROVE trie'[n].fail # Null
  <2>1. trie'[n].fail \in Nodes
    BY DEF IsLongest
  <2>2. \A m \in Nodes : m # Null
    <3>1. \A m \in Seq(Nat) : m # <<-1>>
      <4> SUFFICES ASSUME NEW m \in Seq(Nat), m = <<-1>> PROVE FALSE
        OBVIOUS
      <4>1. Len(m) = 1 /\ m[1] = -1
        OBVIOUS
      <4>2. m[1] \in Nat
        BY <4>1
      <4> QED
        BY <4>1, <4>2
    <3> QED
      BY <3>1 DEF GraphType, TrieType, Ids, Null
  <2> QED
    BY <2>1, <2>2
<1>6. WithFail' = WithFail \cup kids
  <2>1. ASSUME NEW n \in Nodes PROVE n \in WithFail' <=> n \in WithFail \cup kids
    <3>1. n \in WithFail' <=> trie'[n].fail # Null
      BY DEF WithFail
    <3>2. n \in WithFail <=> trie[n].fail # Null
      BY DEF WithFail
    <3> QED
      BY <3>1, <3>2, <1>5
  <2> QED
    BY <2>1 DEF WithFail
<1>7. Root \notin kids /\ Root \in WithFail /\ Root \in Nodes /\ trie'[Root] = trie[Root]
  BY DEF FailsToLongest, WithFail
<1>8. FailsToLongest'
  <2>1. Root \in WithFail' /\ trie'[Root].fail = Root
    BY <1>6, <1>7 DEF FailsToLongest
  <2>2. ASSUME NEW n \in WithFail', n # Root
        PROVE  IsLongest(trie'[n].fail, Nodes, Tail(n)) /\ trie'[n].fail \in WithFail'
    <3>1. CASE n \in kids
      BY <3>1, <1>6, <1>7
    <3>2. CASE n \notin kids
      <4>1. n \in WithFail /\ n \in Nodes
        BY <3>2, <1>6 DEF WithFail
      <4> QED
        BY <4>1, <3>2, <2>2, <1>6 DEF FailsToLongest
    <3> QED
      BY <3>1, <3>2
  <2> QED
    BY <2>1, <2>2 DEF FailsToLongest
<1>9. OutputsToLongest'
  <2>1. trie'[Root].output = Null
    BY <1>7 DEF OutputsToLongest
  <2>2. ASSUME NEW n \in WithFail', n # Root
        PROVE  FirstKeyword(trie'[n].output, Enders, Tail(n))
    <3>1. CASE n \in kids
      BY <3>1
    <3>2. CASE n \notin kids
      <4>1. n \in WithFail /\ n \in Nodes
        BY <3>2, <1>6 DEF WithFail
      <4> QED
        BY <4>1, <3>2, <2>2 DEF OutputsToLongest
    <3> QED
      BY <3>1, <3>2
  <2> QED
    BY <2>1, <2>2, <1>2 DEF OutputsToLongest
<1> QED
  BY <1>1, <1>4, <1>6, <1>8, <1>9

\* The links begin with the children of the root.
LEMMA FillBeginsInv == GraphInv /\ FillBegins => GraphInv'
<1> SUFFICES ASSUME GraphInv, FillBegins PROVE GraphInv'
  OBVIOUS
<1>1. GraphType /\ TrieType /\ EndsOfKeywords
  BY DEF GraphInv, GraphType
<1>2. inserted = Len(keywords) /\ q = <<>> /\ ~ready /\ keywords' = keywords /\ inserted' = inserted
  BY DEF FillBegins
<1>3. NoLinks
  BY <1>2 DEF GraphInv
<1>4. PICK kids : kids = Children(Root)
  OBVIOUS
<1>5. PICK order \in SetToSeqs(kids) :
        /\ q' = order
        /\ trie' = [n \in Nodes |-> IF n \in kids THEN [trie[n] EXCEPT !.fail = Root] ELSE trie[n]]
        /\ ready' = (order = <<>>)
  BY <1>4 DEF FillBegins
<1>6. Root \in Nodes /\ Root \in Seq(Nat) /\ Root = <<>> /\ Len(Root) = 0
  BY <1>1 DEF TrieType, Root
<1>7. ASSUME NEW c \in kids
      PROVE  c \in Nodes /\ c \in Seq(Nat) /\ Len(c) = 1 /\ c # Root /\ Front(c) = Root
             /\ Tail(c) = Root
  <2>1. c \in Nodes /\ c \in Seq(Nat) /\ Front(c) = Root /\ Len(c) = Len(Root) + 1
        /\ c # Root
    BY <1>1, <1>4, <1>6, ChildIs
  <2>2. Len(c) = 1 /\ Tail(c) = <<>>
    <3>1. Len(c) = 1 /\ c # <<>>
      BY <2>1, <1>6
    <3>2. PICK t : t = Tail(c)
      OBVIOUS
    <3>3. t \in Seq(Nat) /\ Len(t) = Len(c) - 1
      BY <2>1, <3>1, <3>2, Split
    <3>4. t = <<>>
      BY <3>1, <3>3, EmptySeq
    <3> QED
      BY <3>1, <3>2, <3>4
  <2> QED
    BY <2>1, <2>2, <1>6
<1>8. kids \in SUBSET (Nodes \ {Root})
  BY <1>7
<1>9. ASSUME NEW n \in Nodes PROVE n \in WithFail <=> n = Root
  <2>1. Null # Root
    BY DEF Null, Root
  <2> QED
    BY <2>1, <1>3 DEF NoLinks, WithFail
<1>10. WithFail = {Root}
  BY <1>6, <1>9 DEF WithFail
<1>11. FailsToLongest /\ OutputsToLongest
  BY <1>3, <1>6, <1>10 DEF FailsToLongest, OutputsToLongest, NoLinks
<1>12. Nodes' = Nodes
  BY <1>5 DEF Nodes
<1>13. ASSUME NEW n \in kids
       PROVE  /\ trie'[n] \in NodeRecord /\ trie'[n].is_end = trie[n].is_end
              /\ trie'[n].ac_threshold = trie[n].ac_threshold
              /\ trie'[n].fail = Root /\ trie'[n].output = Null
  <2>1. PICK old : old = trie[n]
    OBVIOUS
  <2>2. old \in NodeRecord /\ old.output = Null /\ n \in Nodes
    BY <1>1, <1>3, <1>7, <2>1 DEF TrieType, NoLinks
  <2>3. trie'[n] = [old EXCEPT !.fail = Root]
    BY <1>5, <2>1, <2>2
  <2>4. PICK r : r = [old EXCEPT !.fail = Root]
    OBVIOUS
  <2>5. Root \in Seq(Int)
    BY <1>6
  <2>6. r \in NodeRecord
    BY <2>2, <2>4, <2>5 DEF NodeRecord
  <2>7. r.ac_threshold = old.ac_threshold /\ r.fail = Root /\ r.output = Null
    BY <2>2, <2>4, <2>5 DEF NodeRecord
  <2>8. r.is_end = old.is_end
    BY <2>2, <2>4, <2>5 DEF NodeRecord
  <2> QED
    BY <2>1, <2>3, <2>4, <2>6, <2>7, <2>8
<1>14. ASSUME NEW n \in Nodes \ kids PROVE trie'[n] = trie[n]
  BY <1>5
<1>15. trie' \in [Nodes -> NodeRecord]
  <2>1. ASSUME NEW n \in Nodes PROVE trie'[n] \in NodeRecord
    BY <1>1, <1>13, <1>14 DEF TrieType
  <2> QED
    BY <2>1, <1>5
<1>16. IsLongest(Root, Nodes, Root)
  BY <1>1, <1>6, LongestOfMember DEF TrieType
<1>17. FirstKeyword(Null, Enders, Root)
  <2>1. ASSUME NEW y \in Enders, IsSuffix(y, Root) PROVE FALSE
    <3>1. y \in Nodes /\ y # Root
      BY <1>1 DEF Enders, EndsOfKeywords
    <3>2. y \in Seq(Nat) /\ Len(y) \in Nat /\ Len(y) # 0
      BY <3>1, <1>1, <1>6 DEF TrieType, Ids
    <3>3. Len(y) <= Len(Root)
      BY <3>1, <2>1, <1>16 DEF IsLongest
    <3> QED
      BY <3>2, <3>3, <1>6
  <2>2. EndingIn(Enders, Root) = {}
    BY <2>1 DEF EndingIn
  <2> QED
    BY <2>2, Zenon DEF FirstKeyword
<1>18. \A n \in kids : /\ trie'[n].is_end = trie[n].is_end
                       /\ trie'[n].ac_threshold = trie[n].ac_threshold
                       /\ trie'[n].fail \in WithFail \/ trie'[n].fail = Root
                       /\ IsLongest(trie'[n].fail, Nodes, Tail(n))
                       /\ FirstKeyword(trie'[n].output, Enders, Tail(n))
  BY <1>7, <1>13, <1>16, <1>17, Zenon
<1>19. /\ TrieType' /\ EndsOfKeywords' /\ FailsToLongest' /\ OutputsToLongest'
       /\ WithFail' = WithFail \cup kids
  BY <1>1, <1>2, <1>8, <1>11, <1>12, <1>14, <1>15, <1>18, LinksAdded
<1>20. order \in Seq(kids) /\ \A s \in kids : \E i \in 1 .. Len(order) : order[i] = s
  <2>1. IsFiniteSet(kids)
    BY <1>1, <1>8, FS_Subset DEF TrieType
  <2> QED
    BY <2>1, OrderIs
<1>21. q' \in Seq(Nodes') /\ ready' \in BOOLEAN
  BY <1>5, <1>7, <1>12, <1>20
<1>22. QueueInv'
  <2>1. ASSUME NEW i \in 1 .. Len(order) PROVE order[i] \in kids
    BY <1>20
  <2>2. \A i \in 1 .. Len(order) : order[i] \in WithFail' /\ order[i] # Root /\ Len(order[i]) = 1
    BY <2>1, <1>7, <1>19
  <2>3. ASSUME NEW n \in Nodes \ WithFail', Front(n) \in WithFail'
        PROVE  \E i \in 1 .. Len(order) : order[i] = Front(n)
    <3>1. n \in Nodes /\ n \notin kids /\ n # Root
      BY <1>10, <1>19
    <3>2. Front(n) \in kids \/ Front(n) = Root
      BY <2>3, <1>10, <1>19
    <3>3. Front(n) # Root
      <4>1. n \in Seq(Nat) /\ n # <<>>
        BY <3>1, <1>1, <1>6 DEF TrieType, Ids
      <4>2. Len(Front(n)) = Len(n) - 1 /\ Len(n) \in Nat
        BY <4>1, FrontIs
      <4>3. Front(n) = Root => Len(n) = Len(Root) + 1
        BY <4>2, <1>6
      <4> QED
        BY <3>1, <4>3, <1>4 DEF Children
    <3> QED
      BY <3>2, <3>3, <1>20
  <2>4. \A i, j \in 1 .. Len(order) : i <= j =>
           Len(order[i]) <= Len(order[j]) /\ Len(order[j]) <= Len(order[i]) + 1
    BY <2>2
  <2> QED
    BY <2>2, <2>3, <2>4, <1>5, <1>12 DEF QueueInv
<1>23. GraphType'
  BY <1>1, <1>2, <1>19, <1>21 DEF GraphType
<1> QED
  BY <1>2, <1>5, <1>19, <1>22, <1>23 DEF GraphInv

\* A queue is ordered by length, with a difference of one at most, and is without
\* the root; it holds a node.
ByLength(a) ==
    /\ \A i \in 1 .. Len(a) : a[i] # Root
    /\ \A i, j \in 1 .. Len(a) : i <= j => Len(a[i]) <= Len(a[j]) /\ Len(a[j]) <= Len(a[i]) + 1
\* What is in a queue, what it may lose, and what is added to it.
Holds(a, n) == \E i \in 1 .. Len(a) : a[i] = n
AllHeld(a, b, x) == \A n : n # x /\ Holds(a, n) => Holds(b, n)
OneLonger(kids, L, x) == \A c \in kids : c \in L /\ c # Root /\ Len(c) = Len(x) + 1

\* The queue goes on with the children of its first node.
LEMMA QueueGoesOn ==
    ASSUME NEW N, N \subseteq Ids, NEW L, L \subseteq N, NEW a \in Seq(L), a # <<>>, NEW kids,
           OneLonger(kids, L, Head(a)),
           NEW order \in Seq(kids), NEW b, b = Tail(a) \o order,
           ByLength(a)
    PROVE  /\ b \in Seq(L) /\ ByLength(b)
           /\ AllHeld(a, b, Head(a)) /\ AllHeld(order, b, Root)
<1>19. \A c \in kids : c \in L /\ c # Root /\ Len(c) = Len(Head(a)) + 1
  BY DEF OneLonger
<1>0. /\ \A i \in 1 .. Len(a) : a[i] # Root
      /\ \A i, j \in 1 .. Len(a) : i <= j => Len(a[i]) <= Len(a[j]) /\ Len(a[j]) <= Len(a[i]) + 1
  BY DEF ByLength
<1>1. PICK m \in Nat : Len(a) = m + 1
  <2>1. Len(a) - 1 \in Nat /\ Len(a) = (Len(a) - 1) + 1
    OBVIOUS
  <2> QED
    BY <2>1
<1>2. PICK r : r = Tail(a)
  OBVIOUS
<1>3. r \in Seq(L) /\ Len(r) = m /\ (\A i \in 1 .. m : r[i] = a[i + 1]) /\ Head(a) = a[1]
  BY <1>1, <1>2
<1>4. PICK k \in Nat : k = Len(order)
  OBVIOUS
<1>5. order \in Seq(L) /\ \A i \in 1 .. k : order[i] \in kids
  <2>1. kids \subseteq L
    BY <1>19
  <2> QED
    BY <1>4, <2>1
<1>6. /\ b \in Seq(L) /\ Len(b) = m + k
      /\ \A i \in 1 .. m : b[i] = r[i]
      /\ \A i \in 1 .. k : b[m + i] = order[i]
  <2>1. b = r \o order
    BY <1>2
  <2>2. /\ r \o order \in Seq(L) /\ Len(r \o order) = Len(r) + Len(order)
        /\ \A n \in 1 .. Len(r) : (r \o order)[n] = r[n]
        /\ \A n \in 1 .. Len(order) : (r \o order)[Len(r) + n] = order[n]
    <3>1. r \in Seq(L) /\ order \in Seq(L)
      BY <1>3, <1>5
    <3> QED
      BY <3>1, ConcatIs
  <2> QED
    BY <2>1, <2>2, <1>3, <1>4
<1>7. ASSUME NEW x \in L PROVE Len(x) \in Nat
  BY DEF Ids
<1>8. ASSUME NEW i \in 1 .. m PROVE b[i] = a[i + 1] /\ i + 1 \in 1 .. Len(a) /\ b[i] \in L
  <2>1. i + 1 \in 1 .. Len(a)
    BY <1>1
  <2> QED
    BY <2>1, <1>3, <1>6
<1>9. ASSUME NEW i \in 1 .. Len(b), i > m
      PROVE  b[i] \in kids /\ b[i] \in L /\ b[i] # Root /\ Len(b[i]) = Len(a[1]) + 1
  <2>1. i - m \in 1 .. k /\ m + (i - m) = i
    BY <1>6, <1>9
  <2>2. b[i] = order[i - m]
    BY <2>1, <1>6
  <2> QED
    BY <2>1, <2>2, <1>3, <1>5, <1>19
<1>10. ASSUME NEW i \in 1 .. Len(b) PROVE b[i] # Root
  <2>1. CASE i > m
    BY <2>1, <1>9
  <2>2. CASE i <= m
    <3>1. i \in 1 .. m
      BY <2>2
    <3> QED
      BY <3>1, <1>0, <1>8
  <2> QED
    BY <2>1, <2>2, <1>6
<1>11. 1 \in 1 .. Len(a) /\ a[1] \in L
  BY <1>1
<1>12. ASSUME NEW i \in 1 .. m
       PROVE  Len(a[1]) <= Len(b[i]) /\ Len(b[i]) <= Len(a[1]) + 1
  <2>1. i + 1 \in 1 .. Len(a) /\ 1 <= i + 1 /\ b[i] = a[i + 1]
    BY <1>8
  <2> QED
    BY <2>1, <1>0, <1>11
<1>13. ASSUME NEW i \in 1 .. Len(b), NEW j \in 1 .. Len(b), i <= j
       PROVE  Len(b[i]) <= Len(b[j]) /\ Len(b[j]) <= Len(b[i]) + 1
  <2>0. Len(a[1]) \in Nat
    BY <1>7, <1>11
  <2>1. CASE j <= m
    <3>1. i \in 1 .. m /\ j \in 1 .. m
      BY <2>1, <1>13, <1>6
    <3>2. i + 1 <= j + 1
      BY <1>13
    <3> QED
      BY <3>1, <3>2, <1>0, <1>8
  <2>2. CASE j > m /\ i <= m
    <3>1. i \in 1 .. m
      BY <2>2, <1>6
    <3>2. Len(b[j]) = Len(a[1]) + 1
      BY <2>2, <1>9
    <3>3. Len(b[i]) \in Nat
      BY <3>1, <1>7, <1>8
    <3> QED
      <4>1. Len(a[1]) <= Len(b[i]) /\ Len(b[i]) <= Len(a[1]) + 1
        BY <3>1, <1>12
      <4> QED
        <5>1. ASSUME NEW x \in Nat, NEW y \in Nat, NEW z, z = x + 1, x <= y, y <= x + 1
              PROVE  y <= z /\ z <= y + 1
          BY <5>1
        <5> QED
          BY <4>1, <3>2, <3>3, <2>0, <5>1
  <2>3. CASE j > m /\ i > m
    <3>1. Len(b[j]) = Len(a[1]) + 1 /\ Len(b[i]) = Len(a[1]) + 1
      BY <2>3, <1>9
    <3> QED
      BY <3>1, <2>0
  <2> QED
    BY <2>1, <2>2, <2>3, <1>6
<1>14. ASSUME NEW n, n # Head(a), NEW i \in 1 .. Len(a), a[i] = n
       PROVE  \E x \in 1 .. Len(b) : b[x] = n
  <2>1. i # 1
    BY <1>3, <1>14
  <2>2. i - 1 \in 1 .. m /\ (i - 1) + 1 = i /\ i - 1 \in 1 .. Len(b)
    BY <2>1, <1>1, <1>6
  <2>3. b[i - 1] = a[i]
    BY <2>2, <1>8
  <2> QED
    BY <2>2, <2>3, <1>14
<1>15. ASSUME NEW n, NEW i \in 1 .. Len(order), order[i] = n
       PROVE  \E x \in 1 .. Len(b) : b[x] = n
  <2>1. i \in 1 .. k /\ m + i \in 1 .. Len(b)
    BY <1>4, <1>6
  <2>2. b[m + i] = order[i]
    BY <2>1, <1>6
  <2> QED
    BY <2>1, <2>2, <1>15
<1>16. ByLength(b)
  BY <1>10, <1>13 DEF ByLength
<1>17. AllHeld(a, b, Head(a))
  BY <1>14, Zenon DEF Holds, AllHeld
<1>18. AllHeld(order, b, Root)
  BY <1>15, Zenon DEF Holds, AllHeld
<1> QED
  BY <1>6, <1>16, <1>17, <1>18

\* One node's children get their links.
LEMMA FillNodeInv == GraphInv /\ FillNode => GraphInv'
<1> SUFFICES ASSUME GraphInv, FillNode PROVE GraphInv'
  OBVIOUS
<1>1. GraphType /\ TrieType /\ EndsOfKeywords /\ q \in Seq(Nodes)
  BY DEF GraphInv, GraphType
<1>2. q # <<>> /\ keywords' = keywords /\ inserted' = inserted /\ ready' = (q' = <<>>)
  BY DEF FillNode
<1>3. inserted = Len(keywords) /\ FailsToLongest /\ OutputsToLongest /\ QueueInv /\ ~ready
  BY <1>2 DEF GraphInv
<1>4. PICK p : p = Head(q)
  OBVIOUS
<1>5. p \in Nodes /\ p = q[1] /\ 1 \in 1 .. Len(q) /\ p \in WithFail /\ p # Root
  <2>1. p \in Nodes /\ p = q[1] /\ 1 \in 1 .. Len(q)
    BY <1>1, <1>2, <1>4
  <2> QED
    BY <2>1, <1>3 DEF QueueInv
<1>6. PICK kids : kids = Children(p)
  OBVIOUS
<1>7. /\ trie' = [n \in Nodes |-> IF n \in kids THEN Linked(n) ELSE trie[n]]
      /\ \E order \in SetToSeqs(kids) : q' = Tail(q) \o order
  BY <1>4, <1>6 DEF FillNode
<1>8. PICK order \in SetToSeqs(kids) : q' = Tail(q) \o order
  BY <1>7
<1>9. ASSUME NEW c \in kids
      PROVE  c \in Nodes /\ c # Root /\ Front(c) = p /\ Len(c) = Len(p) + 1
  BY <1>1, <1>5, <1>6, ChildIs
<1>10. kids \in SUBSET (Nodes \ {Root})
  BY <1>9
<1>11. Nodes' = Nodes
  BY <1>7 DEF Nodes
<1>12. ASSUME NEW c \in kids
       PROVE  /\ trie'[c] \in NodeRecord /\ trie'[c].is_end = trie[c].is_end
              /\ trie'[c].ac_threshold = trie[c].ac_threshold
              /\ trie'[c].fail \in WithFail /\ IsLongest(trie'[c].fail, Nodes, Tail(c))
              /\ FirstKeyword(trie'[c].output, Enders, Tail(c))
  <2>1. trie'[c] = Linked(c)
    BY <1>7, <1>9
  <2>2. c \in Children(Head(q))
    BY <1>4, <1>6
  <2> QED
    BY <1>2, <2>1, <2>2, LinkedIs
<1>13. ASSUME NEW n \in Nodes \ kids PROVE trie'[n] = trie[n]
  BY <1>7
<1>14. trie' \in [Nodes -> NodeRecord]
  <2>1. ASSUME NEW n \in Nodes PROVE trie'[n] \in NodeRecord
    BY <1>1, <1>12, <1>13 DEF TrieType
  <2> QED
    BY <2>1, <1>7
<1>15. \A n \in kids : /\ trie'[n].is_end = trie[n].is_end
                       /\ trie'[n].ac_threshold = trie[n].ac_threshold
                       /\ trie'[n].fail \in WithFail \/ trie'[n].fail = Root
                       /\ IsLongest(trie'[n].fail, Nodes, Tail(n))
                       /\ FirstKeyword(trie'[n].output, Enders, Tail(n))
  BY <1>12, Zenon
<1>16. /\ TrieType' /\ EndsOfKeywords' /\ FailsToLongest' /\ OutputsToLongest'
       /\ WithFail' = WithFail \cup kids
  BY <1>1, <1>2, <1>3, <1>10, <1>11, <1>13, <1>14, <1>15, LinksAdded
<1>17. order \in Seq(kids) /\ \A s \in kids : \E i \in 1 .. Len(order) : order[i] = s
  <2>1. IsFiniteSet(kids)
    BY <1>1, <1>10, FS_Subset DEF TrieType
  <2> QED
    BY <2>1, OrderIs
<1>18. PICK b, L : b = q' /\ L = WithFail'
  OBVIOUS
<1>19. q \in Seq(L)
  <2>1. \A i \in 1 .. Len(q) : q[i] \in L
    BY <1>3, <1>16, <1>18 DEF QueueInv
  <2> QED
    BY <1>1, <2>1
<1>20. Nodes \subseteq Ids /\ L \subseteq Nodes
  BY <1>1, <1>11, <1>18 DEF TrieType, WithFail
<1>21. OneLonger(kids, L, Head(q))
  BY <1>4, <1>9, <1>16, <1>18 DEF OneLonger
<1>22. ByLength(q)
  BY <1>3 DEF QueueInv, ByLength
<1>23. b = Tail(q) \o order
  BY <1>8, <1>18
<1>24. /\ b \in Seq(L) /\ ByLength(b)
       /\ AllHeld(q, b, Head(q)) /\ AllHeld(order, b, Root)
  BY <1>2, <1>17, <1>19, <1>20, <1>21, <1>22, <1>23, QueueGoesOn, Zenon
<1>25. ASSUME NEW n \in Nodes \ L, Front(n) \in L PROVE \E i \in 1 .. Len(b) : b[i] = Front(n)
  <2>1. n \in Nodes \ WithFail /\ n \notin kids /\ n # Root
    BY <1>3, <1>16, <1>18 DEF FailsToLongest
  <2>2. CASE Front(n) \in kids
    <3>1. Front(n) # Root
      BY <2>2, <1>9
    <3> QED
      BY <3>1, <2>2, <1>17, <1>24 DEF Holds, AllHeld
  <2>3. CASE Front(n) \in WithFail
    <3>1. \E i \in 1 .. Len(q) : q[i] = Front(n)
      BY <2>1, <2>3, <1>3 DEF QueueInv
    <3>2. Front(n) # p
      <4>1. n \in Seq(Nat) /\ n # <<>>
        BY <2>1, <1>1 DEF TrieType, Ids, Root
      <4>2. Len(Front(n)) = Len(n) - 1 /\ Len(n) \in Nat
        BY <4>1, FrontIs
      <4>3. Front(n) = p => Len(n) = Len(p) + 1
        BY <4>2
      <4> QED
        BY <2>1, <4>3, <1>6 DEF Children
    <3> QED
      BY <3>1, <3>2, <1>4, <1>24 DEF Holds, AllHeld
  <2> QED
    BY <2>2, <2>3, <1>16, <1>18, <1>25
<1>26. QueueInv'
  <2>1. \A i \in 1 .. Len(b) : b[i] \in L
    BY <1>24
  <2>2. \A n \in Nodes \ L : Front(n) \notin L \/ \E i \in 1 .. Len(b) : b[i] = Front(n)
    BY <1>25
  <2> QED
    BY <2>1, <2>2, <1>11, <1>18, <1>24 DEF QueueInv, ByLength
<1>27. q' \in Seq(Nodes') /\ ready' \in BOOLEAN
  <2>1. b \in Seq(Nodes)
    BY <1>20, <1>24
  <2>2. ready' \in BOOLEAN
    BY <1>2
  <2> QED
    BY <2>1, <2>2, <1>11, <1>18
<1>28. GraphType'
  BY <1>1, <1>2, <1>16, <1>27 DEF GraphType
<1> QED
  BY <1>2, <1>3, <1>16, <1>26, <1>28 DEF GraphInv

\* The invariant is kept.
LEMMA GraphInvariance == GraphInv /\ [Construct]_graph => GraphInv'
<1>1. GraphInv /\ Construct => GraphInv'
  BY BuildInv, FillBeginsInv, FillNodeInv DEF Construct
<1>2. ASSUME GraphInv, UNCHANGED graph PROVE GraphInv'
  <2>1. keywords' = keywords /\ inserted' = inserted /\ trie' = trie /\ q' = q /\ ready' = ready
    BY <1>2 DEF graph
  <2>2. Nodes' = Nodes /\ WithFail' = WithFail /\ Enders' = Enders
    BY <2>1 DEF Nodes, WithFail, Enders
  <2>3. TrieType => TrieType'
    BY <2>1, <2>2 DEF TrieType
  <2>4. GraphType => GraphType'
    BY <2>1, <2>2, <2>3 DEF GraphType
  <2>5. EndsOfKeywords => EndsOfKeywords'
    BY <2>1, <2>2, Zenon DEF EndsOfKeywords
  <2>6. NoLinks => NoLinks'
    BY <2>1, <2>2, Zenon DEF NoLinks
  <2>7. FailsToLongest => FailsToLongest'
    BY <2>1, <2>2, Zenon DEF FailsToLongest
  <2>8. OutputsToLongest => OutputsToLongest'
    BY <2>1, <2>2, Zenon DEF OutputsToLongest
  <2>9. QueueInv => QueueInv'
    BY <2>1, <2>2, Zenon DEF QueueInv
  <2> QED
    BY <1>2, <2>1, <2>4, <2>5, <2>6, <2>7, <2>8, <2>9 DEF GraphInv
<1> QED
  BY <1>1, <1>2

-----------------------------------------------------------------------------
(* The finished graph.                                                     *)

\* The longest that two words end in.
LEMMA SameEnding ==
    ASSUME NEW K, NEW v, NEW w, EndingIn(K, v) = EndingIn(K, w), NEW x, FirstKeyword(x, K, v)
    PROVE  FirstKeyword(x, K, w)
<1>1. IsLongest(x, K, v) <=> x \in EndingIn(K, v) /\ \A y \in EndingIn(K, v) : Len(y) <= Len(x)
  BY DEF IsLongest, EndingIn
<1>2. IsLongest(x, K, w) <=> x \in EndingIn(K, w) /\ \A y \in EndingIn(K, w) : Len(y) <= Len(x)
  BY DEF IsLongest, EndingIn
<1> QED
  BY <1>1, <1>2, Zenon DEF FirstKeyword

\* What is reported at a node is the longest keyword that it ends in.
LEMMA MatchedIs ==
    ASSUME TrieType, Root \notin Enders, OutputsToLongest, NEW n \in WithFail
    PROVE  FirstKeyword(Matched(n), Enders, n)
<1>1. Enders \subseteq Nodes /\ Nodes \subseteq Ids /\ n \in Nodes /\ n \in Seq(Nat)
  BY DEF Enders, TrieType, WithFail, Ids
<1>2. CASE n \in Enders
  <2>1. Matched(n) = n
    BY <1>2 DEF Matched, Enders
  <2>2. IsLongest(n, Enders, n)
    BY <1>1, <1>2, LongestOfMember
  <2>3. n \in EndingIn(Enders, n)
    BY <2>2, Zenon DEF IsLongest, EndingIn
  <2> QED
    BY <2>1, <2>2, <2>3, Zenon DEF FirstKeyword
<1>3. CASE n \notin Enders
  <2>1. Matched(n) = trie[n].output
    BY <1>1, <1>3 DEF Matched, Enders
  <2>2. CASE n = Root
    <3>1. ASSUME NEW y \in Enders PROVE ~IsSuffix(y, Root)
      <4>1. y \in Seq(Nat) /\ y # <<>> /\ Root \in Seq(Nat) /\ Len(Root) = 0
        BY <1>1 DEF Root, Ids
      <4>2. Len(y) \in Nat /\ Len(y) # 0
        BY <4>1
      <4>3. IsSuffix(y, Root) => EndsIn(y, Len(y), Root, Len(Root))
        BY <4>1, SuffixBy, Zenon
      <4> QED
        BY <4>1, <4>2, <4>3 DEF EndsIn
    <3>2. EndingIn(Enders, n) = {}
      BY <2>2, <3>1 DEF EndingIn
    <3>3. trie[n].output = Null
      BY <2>2 DEF OutputsToLongest
    <3> QED
      BY <2>1, <3>2, <3>3, Zenon DEF FirstKeyword
  <2>3. CASE n # Root
    <3>1. FirstKeyword(trie[n].output, Enders, Tail(n))
      BY <2>3 DEF OutputsToLongest
    <3>2. EndingIn(Enders, Tail(n)) = EndingIn(Enders, n)
      <4>1. ASSUME NEW y \in Enders PROVE IsSuffix(y, n) <=> IsSuffix(y, Tail(n))
        <5>1. y \in Seq(Nat) /\ y # n /\ n # <<>>
          BY <1>1, <1>3, <2>3 DEF Ids, Root
        <5> QED
          BY <5>1, <1>1, SuffixOfTail, Zenon
      <4> QED
        BY <4>1 DEF EndingIn
    <3> QED
      BY <2>1, <3>1, <3>2, SameEnding, Zenon
  <2> QED
    BY <2>2, <2>3
<1> QED
  BY <1>2, <1>3

\* Once all are in, keywords end where keywords end.
LEMMA EndersAreKeywords ==
    ASSUME GraphType, EndsOfKeywords, inserted = Len(keywords)
    PROVE  KeywordIds = Enders
<1>1. DOMAIN keywords = 1 .. inserted
  BY DEF GraphType
<1>2. ASSUME NEW x \in KeywordIds PROVE x \in Enders
  <2>1. PICK i \in DOMAIN keywords : x = keywords[i].ids
    BY DEF KeywordIds
  <2>2. x # Root
    BY DEF KeywordIds, Root
  <2> QED
    BY <2>1, <2>2, <1>1 DEF EndsOfKeywords
<1>3. ASSUME NEW x \in Enders PROVE x \in KeywordIds
  <2>1. PICK i \in 1 .. inserted : keywords[i].ids = x
    BY DEF EndsOfKeywords
  <2>2. x # Root
    BY DEF EndsOfKeywords
  <2> QED
    BY <2>1, <2>2, <1>1 DEF KeywordIds, Root
<1> QED
  BY <1>2, <1>3

\* Every step of the finished graph leads to the longest beginning of a keyword that
\* the tokens so far end in, and reports the longest keyword there.
LEMMA ReadyGraph ==
    ASSUME GraphInv, ready
    PROVE  /\ Nodes \subseteq Ids /\ KeywordIds = Enders /\ KeywordIds \subseteq Nodes
           /\ Root \in Nodes /\ \A n \in Nodes : n = Root \/ Front(n) \in Nodes
           /\ \A n \in Nodes : \A t \in Nat :
                 IsLongest(Climb(t)[n], Nodes, Append(n, t))
           /\ \A n \in Nodes : FirstKeyword(Matched(n), KeywordIds, n)
<1>1. /\ GraphType /\ TrieType /\ EndsOfKeywords /\ inserted = Len(keywords)
      /\ FailsToLongest /\ OutputsToLongest /\ q = <<>>
  BY DEF GraphInv, GraphType
<1>2. Nodes = WithFail
  BY <1>1, QueueAhead
<1>3. KeywordIds = Enders
  BY <1>1, EndersAreKeywords
<1>4. \A t \in Nat : \A n \in WithFail : IsLongest(Climb(t)[n], Nodes, Append(n, t))
  BY <1>1, ClimbIs
<1>5. \A n \in WithFail : FirstKeyword(Matched(n), Enders, n)
  BY <1>1, MatchedIs DEF EndsOfKeywords
<1>6. Nodes \subseteq Ids /\ Root \in Nodes /\ \A n \in Nodes : n = Root \/ Front(n) \in Nodes
  BY <1>1 DEF TrieType
<1>7. Enders \subseteq Nodes
  BY DEF Enders
<1> QED
  BY <1>2, <1>3, <1>4, <1>5, <1>6, <1>7

\* The finished graph is the automaton of its keywords.
LEMMA ReadyIsAutomaton == GraphInv /\ ready => IsAutomaton
<1> SUFFICES ASSUME GraphInv, ready, NEW node \in Nodes, NEW token \in Tokens
             PROVE  LET ids == Append(node, token)
                        step == ForwardOneStep(node, token)
                        found == EndingIn(KeywordIds, step.node)
                    IN  /\ step.node = Longest(EndingIn(Nodes, ids))
                        /\ step.matched = IF found = {} THEN Null ELSE Longest(found)
  BY DEF IsAutomaton
<1>1. Nodes \subseteq Ids /\ KeywordIds \subseteq Ids /\ KeywordIds \subseteq Nodes
  BY ReadyGraph
<1>2. token \in Nat
  <2>1. PICK ids \in KeywordIds : token \in ToSet(ids)
    BY DEF Tokens
  <2>2. ids \in Seq(Nat)
    BY <1>1 DEF Ids
  <2> QED
    BY <2>1, <2>2, ToSetIs
<1>3. PICK w : w = Append(node, token)
  OBVIOUS
<1>4. PICK x : x = Climb(token)[node]
  OBVIOUS
<1>5. IsLongest(x, Nodes, w)
  BY <1>2, <1>3, <1>4, ReadyGraph
<1>6. w \in Ids /\ x \in Nodes /\ x \in Ids
  BY <1>1, <1>2, <1>3, <1>5 DEF IsLongest, Ids
<1>7. Longest(EndingIn(Nodes, w)) = x
  BY <1>1, <1>5, <1>6, LongestPicked
<1>8. FirstKeyword(Matched(x), KeywordIds, x)
  BY <1>6, ReadyGraph
<1>9. Matched(x) = IF EndingIn(KeywordIds, x) = {} THEN Null
                   ELSE Longest(EndingIn(KeywordIds, x))
  <2>1. CASE EndingIn(KeywordIds, x) = {}
    BY <2>1, <1>8, Zenon DEF FirstKeyword
  <2>2. CASE EndingIn(KeywordIds, x) # {}
    <3>1. IsLongest(Matched(x), KeywordIds, x)
      BY <2>2, <1>8, Zenon DEF FirstKeyword
    <3>2. Longest(EndingIn(KeywordIds, x)) = Matched(x)
      BY <3>1, <1>1, <1>6, LongestPicked
    <3> QED
      BY <2>2, <3>2
  <2> QED
    BY <2>1, <2>2
<1>10. ForwardOneStep(node, token).node = x /\ ForwardOneStep(node, token).matched = Matched(x)
  BY <1>4 DEF ForwardOneStep
<1> QED
  BY <1>3, <1>7, <1>9, <1>10, Zenon

-----------------------------------------------------------------------------
(* The tokens of a window.                                                 *)

\* A window's emitted frames are frames of it.
LEMMA EmittedIs ==
    ASSUME NEW F, NEW f \in Seq(F)
    PROVE  Emitted(f) \in Seq(1 .. Len(f))
<1>1. PICK n \in Nat : n = Len(f)
  OBVIOUS
<1> DEFINE E == 1 .. n
           S == Seq(E)
           steps == [t \in 1 .. n |-> t]
           Op == [x \in S \X E |-> IF EmitsAt(f, x[2]) THEN Append(x[1], x[2]) ELSE x[1]]
           emitted[t \in 0 .. Len(f)] ==
               IF t = 0 THEN <<>>
               ELSE IF EmitsAt(f, t) THEN Append(emitted[t - 1], t) ELSE emitted[t - 1]
<1>2. steps \in Seq(E) /\ Len(steps) = n /\ \A t \in E : steps[t] = t
  OBVIOUS
<1>3. ASSUME NEW s \in S, NEW t \in E
      PROVE  /\ Op[<<s, t>>] = IF EmitsAt(f, t) THEN Append(s, t) ELSE s
             /\ Op[<<s, t>>] \in S
  <2>1. Append(s, t) \in S
    OBVIOUS
  <2> QED
    BY <2>1
<1>4. Op \in [S \X E -> S]
  <2>1. \A s \in S : \A t \in E : Append(s, t) \in S
    OBVIOUS
  <2> HIDE DEF S, E
  <2> QED
    BY <2>1
<1>5. <<>> \in S
  OBVIOUS
<1> HIDE DEF S, Op, steps
<1>6. PICK g \in [0 .. n -> S] : Folds(g, steps, <<>>, Op)
  BY <1>2, <1>4, <1>5, FoldExists
<1>7. ASSUME NEW t \in 0 .. n
      PROVE  g[t] = IF t = 0 THEN <<>>
                    ELSE IF EmitsAt(f, t) THEN Append(g[t - 1], t) ELSE g[t - 1]
  <2>1. g[0] = <<>>
    BY <1>6 DEF Folds, FoldsTo
  <2>2. ASSUME t # 0
        PROVE  g[t] = IF EmitsAt(f, t) THEN Append(g[t - 1], t) ELSE g[t - 1]
    <3>1. t \in E /\ t - 1 \in 0 .. n
      BY <2>2
    <3>2. g[t] = Op[<<g[t - 1], t>>]
      BY <1>2, <1>6, <3>1 DEF Folds, FoldsTo
    <3> QED
      BY <1>3, <3>1, <3>2
  <2> QED
    BY <2>1, <2>2
<1>8. g = [t \in 0 .. Len(f) |-> IF t = 0 THEN <<>>
                                 ELSE IF EmitsAt(f, t) THEN Append(g[t - 1], t) ELSE g[t - 1]]
  BY <1>1, <1>7
<1>9. emitted = [t \in 0 .. Len(f) |->
                    IF t = 0 THEN <<>>
                    ELSE IF EmitsAt(f, t) THEN Append(emitted[t - 1], t) ELSE emitted[t - 1]]
  BY <1>8, Zenon
<1>10. Emitted(f) = emitted[Len(f)]
  BY Zenon DEF Emitted
<1> HIDE DEF emitted
<1>11. ASSUME NEW t \in 1 .. n, emitted[t - 1] = g[t - 1] PROVE emitted[t] = g[t]
  <2>1. t \in 0 .. n /\ t # 0
    OBVIOUS
  <2>2. emitted[t] = IF EmitsAt(f, t) THEN Append(emitted[t - 1], t) ELSE emitted[t - 1]
    BY <1>1, <1>9, <2>1
  <2> QED
    BY <1>7, <1>11, <2>1, <2>2
<1>12. emitted[0] = g[0]
  <2>1. 0 \in 0 .. n
    OBVIOUS
  <2> QED
    BY <1>1, <1>9, <1>7, <2>1
<1>13. emitted[n] = g[n]
  BY <1>11, <1>12, Agree, Zenon
<1>14. g[n] \in S
  OBVIOUS
<1> QED
  BY <1>1, <1>10, <1>13, <1>14 DEF S

-----------------------------------------------------------------------------
(* The decoder finds what is to be found.                                  *)

\* A keyword's node has its threshold.
LEMMA ThresholdIs ==
    ASSUME GraphInv, ready, NEW x \in KeywordIds
    PROVE  trie[x].ac_threshold = ThresholdOf(x)
<1>1. GraphType /\ EndsOfKeywords /\ inserted = Len(keywords) /\ x \in Enders
  BY ReadyGraph DEF GraphInv
<1>2. DOMAIN keywords = 1 .. inserted /\ inserted \in Nat
  BY <1>1 DEF GraphType
<1>3. PICK i \in 1 .. inserted :
         /\ keywords[i].ids = x
         /\ \A j \in 1 .. inserted : keywords[j].ids = x => j <= i
         /\ trie[x].ac_threshold = Default(keywords[i].ac_threshold, AcThreshold)
  BY <1>1 DEF EndsOfKeywords
<1> DEFINE P(k) == keywords[k].ids = x /\ \A j \in DOMAIN keywords : keywords[j].ids = x => j <= k
           c == CHOOSE k \in DOMAIN keywords : P(k)
<1>4. c \in 1 .. inserted /\ P(c)
  BY <1>2, <1>3
<1>5. c <= i /\ i <= c
  BY <1>2, <1>3, <1>4
<1>6. c = i
  BY <1>2, <1>4, <1>5
<1>7. ThresholdOf(x) = Default(keywords[c].ac_threshold, AcThreshold)
  BY Zenon DEF ThresholdOf
<1> HIDE DEF c
<1> QED
  BY <1>3, <1>6, <1>7

\* Keywords are sequences of tokens, and not empty.
LEMMA KeywordsAre ==
    ASSUME GraphInv
    PROVE  /\ KeywordIds \subseteq Ids /\ Null \notin KeywordIds
           /\ \A x \in KeywordIds : x \in Seq(Nat) /\ Len(x) \in Nat /\ Len(x) >= 1
<1>1. ASSUME NEW x \in KeywordIds PROVE x \in Seq(Nat) /\ Len(x) \in Nat /\ Len(x) >= 1
  <2>1. PICK i \in DOMAIN keywords : x = keywords[i].ids
    BY DEF KeywordIds
  <2>2. x # <<>>
    BY DEF KeywordIds
  <2>3. x \in Seq(Nat)
    <3>1. keywords \in Seq(KeywordRecord)
      BY DEF GraphInv, GraphType
    <3>2. keywords[i] \in KeywordRecord
      BY <2>1, <3>1
    <3> QED
      BY <2>1, <3>2 DEF KeywordRecord, Ids
  <2> QED
    BY <2>2, <2>3
<1>2. Null \notin Seq(Nat)
  BY DEF Null
<1> QED
  BY <1>1, <1>2 DEF Ids

\* The longest keyword that tokens end in lies within them.
LEMMA FoundWithin ==
    ASSUME GraphInv, NEW ids \in Seq(Nat), NEW i \in 1 .. Len(ids), NEW from \in Nat, from >= 1,
           NEW w, w = SubSeq(ids, from, i), EndingIn(KeywordIds, w) # {}
    PROVE  /\ IsLongest(Longest(EndingIn(KeywordIds, w)), KeywordIds, w)
           /\ Longest(EndingIn(KeywordIds, w)) \in KeywordIds
           /\ i + 1 - Len(Longest(EndingIn(KeywordIds, w))) \in from .. i
<1>1. KeywordIds \subseteq Ids
  BY KeywordsAre
<1>2. w \in Seq(Nat) /\ Len(w) = (IF from <= i THEN i + 1 - from ELSE 0) /\ w \in Ids
  BY DEF Ids
<1>3. PICK x : IsLongest(x, KeywordIds, w)
  BY <1>1, <1>2, LongestExists
<1>4. Longest(EndingIn(KeywordIds, w)) = x
  BY <1>1, <1>2, <1>3, LongestPicked
<1>5. x \in KeywordIds /\ IsSuffix(x, w) /\ x \in Seq(Nat)
  BY <1>1, <1>3 DEF IsLongest, Ids
<1>6. EndsIn(x, Len(x), w, Len(w))
  BY <1>2, <1>5, SuffixBy, Zenon
<1>7. Len(x) \in Nat /\ Len(x) >= 1
  BY <1>5, KeywordsAre
<1>8. Len(x) <= Len(w)
  BY <1>6 DEF EndsIn
<1>9. i + 1 - Len(x) \in from .. i
  BY <1>2, <1>7, <1>8
<1> QED
  BY <1>3, <1>4, <1>5, <1>9

\* A step leads to the longest beginning of a keyword that w ends in, and reports the
\* longest keyword it ends in.
Finds(step, w) ==
    /\ IsLongest(step.node, Nodes, w)
    /\ step.matched = IF EndingIn(KeywordIds, w) = {} THEN Null
                      ELSE Longest(EndingIn(KeywordIds, w))

\* The tokens of a part of a sequence, from the one after the first i.
IsPart(b, a, i, j) ==
    b \in Seq(Nat) /\ Len(b) = j - i /\ \A k \in 1 .. j - i : b[k] = a[i + k]
LEMMA PartIs ==
    ASSUME NEW a \in Seq(Nat), NEW i \in 1 .. Len(a), NEW from \in 1 .. i
    PROVE  /\ IsPart(SubSeq(a, from, i - 1), a, from - 1, i - 1)
           /\ IsPart(SubSeq(a, from, i), a, from - 1, i)
<1>1. PICK b : b = SubSeq(a, from, i - 1)
  OBVIOUS
<1>2. PICK c : c = SubSeq(a, from, i)
  OBVIOUS
<1>3. b \in Seq(Nat) /\ Len(b) = (i - 1) - (from - 1)
  BY <1>1
<1>4. \A k \in 1 .. (i - 1) - (from - 1) : b[k] = a[(from - 1) + k]
  BY <1>1
<1>5. c \in Seq(Nat) /\ Len(c) = i - (from - 1)
  BY <1>2
<1>6. \A k \in 1 .. i - (from - 1) : c[k] = a[(from - 1) + k]
  BY <1>2
<1>7. IsPart(b, a, from - 1, i - 1)
  BY <1>3, <1>4, Zenon DEF IsPart
<1>8. IsPart(c, a, from - 1, i)
  BY <1>5, <1>6, Zenon DEF IsPart
<1> QED
  BY <1>1, <1>2, <1>7, <1>8

\* From the longest beginning of a keyword that tokens end in, a step leads to that
\* which they end in with a token more, and reports the longest keyword they end in.
LEMMA StepFinds ==
    ASSUME GraphInv, ready, NEW ids \in Seq(Nat), NEW i \in 1 .. Len(ids), NEW from \in 1 .. i,
           NEW node \in Nodes, IsLongest(node, Nodes, SubSeq(ids, from, i - 1)),
           NEW w, w = SubSeq(ids, from, i)
    PROVE  Finds(ForwardOneStep(node, ids[i]), w)
<1>1. /\ Nodes \subseteq Ids /\ KeywordIds \subseteq Nodes /\ <<>> \in Nodes
      /\ \A n \in Nodes : n = <<>> \/ Front(n) \in Nodes
  BY ReadyGraph DEF Root
<1>2. PICK t \in Nat : t = ids[i]
  OBVIOUS
<1>3. PICK v : v = SubSeq(ids, from, i - 1)
  OBVIOUS
<1>4. v \in Ids /\ w = Append(v, t) /\ w \in Ids
  <2>1. v \in Seq(Nat) /\ Len(v) = i - from /\ \A k \in 1 .. i - from : v[k] = ids[from + k - 1]
    <3>1. IsPart(v, ids, from - 1, i - 1)
      BY <1>3, PartIs, Zenon
    <3>2. PICK j \in Nat : j = from - 1
      OBVIOUS
    <3>3. /\ v \in Seq(Nat) /\ Len(v) = (i - 1) - j
          /\ \A k \in 1 .. (i - 1) - j : v[k] = ids[j + k]
      BY <3>1, <3>2, Zenon DEF IsPart
    <3> QED
      BY <3>2, <3>3
  <2>2. w \in Seq(Nat) /\ Len(w) = i - from + 1
        /\ \A k \in 1 .. i - from + 1 : w[k] = ids[from + k - 1]
    <3>1. IsPart(w, ids, from - 1, i)
      BY PartIs, Zenon
    <3>2. PICK j \in Nat : j = from - 1
      OBVIOUS
    <3>3. /\ w \in Seq(Nat) /\ Len(w) = i - j
          /\ \A k \in 1 .. i - j : w[k] = ids[j + k]
      BY <3>1, <3>2, Zenon DEF IsPart
    <3> QED
      BY <3>2, <3>3
  <2>3. PICK l \in Nat : l = i - from
    OBVIOUS
  <2>4. PICK u : u = Append(v, t)
    OBVIOUS
  <2>5. u \in Seq(Nat) /\ Len(u) = l + 1 /\ u[l + 1] = t /\ \A k \in 1 .. l : u[k] = v[k]
    <3>1. v \in Seq(Nat) /\ l = Len(v)
      BY <2>1, <2>3
    <3> QED
      BY <1>2, <2>4, <3>1, AppendIs
  <2>6. ASSUME NEW k \in 1 .. l + 1 PROVE w[k] = u[k]
    <3>1. CASE k = l + 1
      <4>1. from + k - 1 = i
        BY <2>3, <3>1
      <4> QED
        BY <4>1, <3>1, <2>2, <2>3, <2>5, <1>2
    <3>2. CASE k # l + 1
      <4>1. k \in 1 .. l
        BY <3>2
      <4> QED
        BY <4>1, <2>1, <2>2, <2>3, <2>5
    <3> QED
      BY <3>1, <3>2
  <2>7. SameFirst(l + 1, w, u) /\ l + 1 = Len(w) /\ l + 1 = Len(u)
    BY <2>2, <2>3, <2>5, <2>6 DEF SameFirst
  <2>8. w = u
    BY <2>2, <2>5, <2>7, SameElements, Zenon
  <2> QED
    BY <2>1, <2>2, <2>4, <2>8 DEF Ids
<1>5. PICK x : x = Climb(t)[node]
  OBVIOUS
<1>6. IsLongest(x, Nodes, Append(node, t))
  BY <1>2, <1>5, ReadyGraph
<1>7. IsLongest(x, Nodes, w)
  <2>1. IsLongest(node, Nodes, v)
    BY <1>3
  <2> QED
    BY <1>1, <1>2, <1>4, <1>6, <2>1, LongestByStep
<1>8. x \in Nodes
  BY <1>7 DEF IsLongest
<1>9. EndingIn(KeywordIds, x) = EndingIn(KeywordIds, w)
  BY <1>1, <1>4, <1>7, LongestHasAll
<1>10. FirstKeyword(Matched(x), KeywordIds, w)
  <2>1. FirstKeyword(Matched(x), KeywordIds, x)
    BY <1>8, ReadyGraph
  <2> QED
    BY <1>9, <2>1, SameEnding, Zenon
<1>11. Matched(x) = IF EndingIn(KeywordIds, w) = {} THEN Null
                    ELSE Longest(EndingIn(KeywordIds, w))
  <2>1. CASE EndingIn(KeywordIds, w) = {}
    BY <2>1, <1>10, Zenon DEF FirstKeyword
  <2>2. CASE EndingIn(KeywordIds, w) # {}
    <3>1. IsLongest(Matched(x), KeywordIds, w)
      BY <2>2, <1>10, Zenon DEF FirstKeyword
    <3>2. KeywordIds \subseteq Ids
      BY <1>1
    <3>3. Longest(EndingIn(KeywordIds, w)) = Matched(x)
      BY <3>1, <3>2, <1>4, LongestPicked
    <3> QED
      BY <2>2, <3>3
  <2> QED
    BY <2>1, <2>2
<1>12. ForwardOneStep(node, t).node = x /\ ForwardOneStep(node, t).matched = Matched(x)
  BY <1>5 DEF ForwardOneStep
<1> QED
  BY <1>2, <1>7, <1>11, <1>12, Zenon DEF Finds

-----------------------------------------------------------------------------
(* The search and the walk.                                                *)

\* The tokens of a window, what a hit of it is, and how the search for keywords and
\* the walk over the graph go on.
Said(f) == [k \in DOMAIN Emitted(f) |-> f[Emitted(f)[k]].id]
HitRecord(f) == [phrase : KeywordIds, first_frame : 1 .. Len(f), last_frame : 1 .. Len(f)]

\* One token more of the search for keywords, as Spotted has it.
SpotStep(f, x, i) ==
    LET e == Emitted(f)
        ids == [k \in DOMAIN e |-> f[e[k]].id]
        from == x.from
        ending == EndingIn(KeywordIds, SubSeq(ids, from, i))
        start == i + 1 - Len(Longest(ending))
    IN  IF ending # {} /\ Confident(f, e, start, i, ThresholdOf(Longest(ending)))
        THEN [from |-> i + 1, hits |-> Append(x.hits, Hit(e, start, i, Longest(ending)))]
        ELSE x
\* One frame more of the walk over the graph, as DecodeGreedy has it.
WalkStep(f, x, i) ==
    LET e == Emitted(f)
        step == ForwardOneStep(x.node, f[e[i]].id)
        start == i + 1 - Len(step.matched)
    IN  IF /\ step.matched # Null
           /\ start >= 1
           /\ Confident(f, e, start, i, trie[step.matched].ac_threshold)
        THEN [node |-> AfterHit(step.node),
              hits |-> Append(x.hits, Hit(e, start, i, step.matched))]
        ELSE [node |-> step.node, hits |-> x.hits]

\* Where the search is and what it has found, and how it and the walk begin.
SpotStates(f) == [from : Nat \ {0}, hits : Seq(HitRecord(f))]
SpotBegin == [from |-> 1, hits |-> <<>>]
WalkBegin == [node |-> Root, hits |-> <<>>]

\* The tokens of a window are tokens.
LEMMA SaidIs ==
    ASSUME NEW F, \A x \in F : x.id \in Nat, NEW f \in Seq(F)
    PROVE  /\ Said(f) \in Seq(Nat) /\ Len(Said(f)) = Len(Emitted(f)) /\ Len(Emitted(f)) \in Nat
           /\ \A i \in 1 .. Len(Emitted(f)) : /\ Emitted(f)[i] \in 1 .. Len(f)
                                              /\ Said(f)[i] = f[Emitted(f)[i]].id
<1>1. PICK e : e = Emitted(f)
  OBVIOUS
<1>2. e \in Seq(1 .. Len(f))
  BY <1>1, EmittedIs
<1>3. DOMAIN e = 1 .. Len(e) /\ Len(e) \in Nat /\ \A i \in 1 .. Len(e) : e[i] \in 1 .. Len(f)
  BY <1>2
<1>4. ASSUME NEW i \in 1 .. Len(e) PROVE f[e[i]].id \in Nat
  <2>1. f[e[i]] \in F
    BY <1>3
  <2> QED
    BY <2>1
<1>5. PICK s : s = [k \in 1 .. Len(e) |-> f[e[k]].id]
  OBVIOUS
<1>6. Said(f) = s
  BY <1>1, <1>3, <1>5, Zenon DEF Said
<1>7. s \in Seq(Nat) /\ Len(s) = Len(e)
  BY <1>3, <1>4, <1>5
<1>8. \A i \in 1 .. Len(e) : s[i] = f[e[i]].id
  BY <1>5
<1> QED
  BY <1>1, <1>3, <1>6, <1>7, <1>8

\* The search finds hits in the window.
LEMMA SpotStepType ==
    ASSUME GraphInv, NEW F, \A r \in F : r.id \in Nat, NEW f \in Seq(F),
           NEW x \in SpotStates(f), NEW i \in 1 .. Len(Emitted(f))
    PROVE  SpotStep(f, x, i) \in SpotStates(f)
<1>1. PICK ids, e : ids = Said(f) /\ e = Emitted(f)
  OBVIOUS
<1>2. /\ ids \in Seq(Nat) /\ Len(ids) = Len(e) /\ Len(e) \in Nat
      /\ \A k \in 1 .. Len(e) : e[k] \in 1 .. Len(f)
  BY <1>1, SaidIs
<1>3. i \in 1 .. Len(ids) /\ i \in 1 .. Len(e)
  BY <1>1, <1>2
<1>4. PICK w : w = SubSeq(ids, x.from, i)
  OBVIOUS
<1>5. PICK l : l = Longest(EndingIn(KeywordIds, w))
  OBVIOUS
<1>6. PICK start : start = i + 1 - Len(l)
  OBVIOUS
<1>8. SpotStep(f, x, i) = IF /\ EndingIn(KeywordIds, w) # {}
                             /\ Confident(f, e, start, i, ThresholdOf(l))
                          THEN [from |-> i + 1, hits |-> Append(x.hits, Hit(e, start, i, l))]
                          ELSE x
  BY <1>1, <1>4, <1>5, <1>6, Zenon DEF SpotStep, Said
<1>9. x.from \in Nat /\ x.from >= 1 /\ x.hits \in Seq(HitRecord(f))
  BY DEF SpotStates
<1>10. ASSUME EndingIn(KeywordIds, w) # {}
       PROVE  [from |-> i + 1, hits |-> Append(x.hits, Hit(e, start, i, l))] \in SpotStates(f)
  <2>1. PICK from \in Nat : from = x.from /\ from >= 1
    BY <1>9
  <2>2. w = SubSeq(ids, from, i)
    BY <1>4, <2>1
  <2>3. l \in KeywordIds /\ start \in from .. i
    BY <1>2, <1>3, <1>5, <1>6, <1>10, <2>1, <2>2, FoundWithin
  <2>4. start \in 1 .. Len(e)
    BY <1>2, <1>3, <2>1, <2>3
  <2>5. e[start] \in 1 .. Len(f) /\ e[i] \in 1 .. Len(f)
    BY <1>2, <1>3, <2>4
  <2>6. PICK h : h = Hit(e, start, i, l)
    OBVIOUS
  <2>7. h \in HitRecord(f)
    BY <2>3, <2>5, <2>6 DEF Hit, HitRecord
  <2>8. Append(x.hits, h) \in Seq(HitRecord(f))
    BY <1>9, <2>7, AppendIs
  <2>9. i + 1 \in Nat \ {0}
    BY <1>3
  <2> QED
    BY <2>6, <2>8, <2>9 DEF SpotStates
<1> QED
  BY <1>8, <1>10

\* The search, from token to token.
Spots(f, g) ==
    \A i \in 0 .. Len(Emitted(f)) : g[i] = IF i = 0 THEN SpotBegin ELSE SpotStep(f, g[i - 1], i)

\* What is to be found in frames is what the search ends with.
LEMMA SpottedIs ==
    ASSUME GraphInv, NEW F, \A r \in F : r.id \in Nat, NEW f \in Seq(F)
    PROVE  \E g : /\ Spots(f, g) /\ Spotted(f) = g[Len(Emitted(f))].hits
                  /\ \A i \in 0 .. Len(Emitted(f)) : g[i] \in SpotStates(f)
<1>1. PICK m \in Nat : m = Len(Emitted(f))
  BY SaidIs
<1> DEFINE E == 1 .. m
           S == SpotStates(f)
           steps == [i \in 1 .. m |-> i]
           Op == [x \in S \X E |-> SpotStep(f, x[1], x[2])]
           spot[i \in 0 .. Len(Emitted(f))] ==
               IF i = 0 THEN SpotBegin ELSE SpotStep(f, spot[i - 1], i)
<1>2. steps \in Seq(E) /\ Len(steps) = m /\ \A i \in E : steps[i] = i
  OBVIOUS
<1>3. ASSUME NEW s \in S, NEW i \in E PROVE SpotStep(f, s, i) \in S
  BY <1>1, SpotStepType
<1> HIDE DEF S, E
<1>4. Op \in [S \X E -> S] /\ \A s \in S : \A i \in E : Op[<<s, i>>] = SpotStep(f, s, i)
  BY <1>3
<1>5. SpotBegin \in S
  BY EmptySeq DEF S, SpotStates, SpotBegin
<1> HIDE DEF Op, steps
<1>6. PICK g \in [0 .. m -> S] : Folds(g, steps, SpotBegin, Op)
  BY <1>2, <1>4, <1>5, FoldExists
<1>7. ASSUME NEW i \in 0 .. m PROVE g[i] = IF i = 0 THEN SpotBegin ELSE SpotStep(f, g[i - 1], i)
  <2>1. g[0] = SpotBegin
    BY <1>6 DEF Folds, FoldsTo
  <2>2. ASSUME i # 0 PROVE g[i] = SpotStep(f, g[i - 1], i)
    <3>1. i \in 1 .. m /\ i \in E /\ i - 1 \in 0 .. m
      BY <2>2 DEF E
    <3>2. g[i] = Op[<<g[i - 1], i>>]
      BY <1>2, <1>6, <3>1 DEF Folds, FoldsTo
    <3> QED
      BY <1>4, <3>1, <3>2
  <2> QED
    BY <2>1, <2>2
<1>8. g = [i \in 0 .. Len(Emitted(f)) |-> IF i = 0 THEN SpotBegin ELSE SpotStep(f, g[i - 1], i)]
  BY <1>1, <1>7
<1>9. spot = [i \in 0 .. Len(Emitted(f)) |->
                 IF i = 0 THEN SpotBegin ELSE SpotStep(f, spot[i - 1], i)]
  BY <1>8, Zenon
<1>10. Spotted(f) = spot[Len(Emitted(f))].hits
  BY Zenon DEF Spotted, SpotStep, SpotBegin
<1> HIDE DEF spot
<1>11. ASSUME NEW i \in 0 .. m
       PROVE  spot[i] = IF i = 0 THEN SpotBegin ELSE SpotStep(f, spot[i - 1], i)
  BY <1>1, <1>9
<1>12. ASSUME NEW i \in 1 .. m, spot[i - 1] = g[i - 1] PROVE spot[i] = g[i]
  <2>1. i \in 0 .. m /\ i # 0
    OBVIOUS
  <2> QED
    BY <1>7, <1>11, <1>12, <2>1, Zenon
<1>13. spot[0] = g[0]
  BY <1>7, <1>11
<1>14. spot[m] = g[m]
  BY <1>12, <1>13, Agree, Zenon
<1>15. Spots(f, g)
  BY <1>1, <1>7 DEF Spots
<1>16. \A i \in 0 .. m : g[i] \in SpotStates(f)
  BY DEF S
<1> QED
  BY <1>1, <1>10, <1>14, <1>15, <1>16

\* Hits are in the window.
LEMMA SpottedType ==
    ASSUME GraphInv, NEW F, \A r \in F : r.id \in Nat, NEW f \in Seq(F)
    PROVE  Spotted(f) \in Seq(HitRecord(f))
<1>1. PICK m \in Nat : m = Len(Emitted(f))
  BY SaidIs
<1>2. PICK g : Spotted(f) = g[m].hits /\ \A i \in 0 .. m : g[i] \in SpotStates(f)
  BY <1>1, SpottedIs
<1>3. m \in 0 .. m
  OBVIOUS
<1> QED
  BY <1>2, <1>3 DEF SpotStates

\* The search begins again at a later token.
LEMMA SpotsBefore ==
    ASSUME NEW f, NEW m \in Nat, m = Len(Emitted(f)), NEW g, Spots(f, g)
    PROVE  \A i \in 0 .. m : g[i].from \in 1 .. i + 1
<1> DEFINE T == {i \in Nat : i <= m => g[i].from \in 1 .. i + 1}
<1>1. ASSUME NEW i \in 0 .. m PROVE g[i] = IF i = 0 THEN SpotBegin ELSE SpotStep(f, g[i - 1], i)
  BY DEF Spots
<1>2. 0 \in T
  BY <1>1 DEF SpotBegin
<1>3. ASSUME NEW i \in Nat, i \in T PROVE i + 1 \in T
  <2> SUFFICES ASSUME i + 1 <= m PROVE g[i + 1].from \in 1 .. i + 2
    OBVIOUS
  <2>1. i + 1 \in 0 .. m /\ i + 1 # 0 /\ (i + 1) - 1 = i
    OBVIOUS
  <2>2. g[i + 1] = SpotStep(f, g[i], i + 1)
    BY <1>1, <2>1
  <2>3. SpotStep(f, g[i], i + 1) = g[i] \/ SpotStep(f, g[i], i + 1).from = (i + 1) + 1
    BY DEF SpotStep
  <2>4. g[i].from \in 1 .. i + 1
    BY <1>3
  <2> QED
    BY <2>2, <2>3, <2>4
<1> HIDE DEF T
<1>4. \A i \in Nat : i \in T
  BY <1>2, <1>3, Induction, Zenon
<1> QED
  BY <1>4 DEF T

-----------------------------------------------------------------------------
(* The walk over the graph is the search.                                  *)

\* The node the walk is at: the longest beginning of a keyword that the tokens end in
\* that were emitted since the last hit.
At(f, from, i) == Longest(EndingIn(Nodes, SubSeq(Said(f), from, i)))

\* It is such a node, and the root where no token was emitted since.
LEMMA AtIs ==
    ASSUME GraphInv, ready, NEW F, \A r \in F : r.id \in Nat, NEW f \in Seq(F),
           NEW i \in 0 .. Len(Emitted(f)), NEW from \in 1 .. i + 1
    PROVE  /\ IsLongest(At(f, from, i), Nodes, SubSeq(Said(f), from, i))
           /\ At(f, from, i) \in Nodes
           /\ from = i + 1 => At(f, from, i) = Root
<1>1. Nodes \subseteq Ids /\ Root \in Nodes
  BY ReadyGraph
<1>2. PICK w : w = SubSeq(Said(f), from, i)
  OBVIOUS
<1>3. w \in Seq(Nat) /\ w \in Ids /\ (from = i + 1 => Len(w) = 0)
  <2>1. Said(f) \in Seq(Nat) /\ Len(Said(f)) = Len(Emitted(f)) /\ Len(Emitted(f)) \in Nat
    BY SaidIs
  <2>2. w \in Seq(Nat) /\ (from = i + 1 => Len(w) = 0)
    BY <1>2, <2>1
  <2> QED
    BY <2>2 DEF Ids
<1>4. Root \in EndingIn(Nodes, w)
  BY <1>1, <1>3, SuffixEnds DEF EndingIn, Root
<1>5. PICK x : IsLongest(x, Nodes, w)
  BY <1>1, <1>3, <1>4, LongestExists
<1>6. At(f, from, i) = x
  <2>1. Longest(EndingIn(Nodes, w)) = x
    BY <1>1, <1>3, <1>5, LongestPicked
  <2> QED
    BY <1>2, <2>1 DEF At
<1>7. x \in Nodes /\ x \in Seq(Nat) /\ IsSuffix(x, w)
  BY <1>1, <1>5 DEF IsLongest, Ids
<1>8. EndsIn(x, Len(x), w, Len(w))
  BY <1>3, <1>7, SuffixBy, Zenon
<1>9. from = i + 1 => x = Root
  <2>1. Len(w) = 0 => Len(x) = 0
    BY <1>7, <1>8 DEF EndsIn
  <2>2. Len(x) = 0 => x = <<>>
    BY <1>7
  <2> QED
    BY <1>3, <2>1, <2>2 DEF Root
<1> QED
  BY <1>2, <1>5, <1>6, <1>7, <1>9

\* A step of the walk is one of the search.
LEMMA StepsAlike ==
    ASSUME GraphInv, ready, NEW F, \A r \in F : r.id \in Nat, NEW f \in Seq(F),
           NEW i \in 1 .. Len(Emitted(f)), NEW x \in SpotStates(f), x.from \in 1 .. i,
           NEW y, y.node = At(f, x.from, i - 1), y.hits = x.hits,
           NEW z, z = SpotStep(f, x, i)
    PROVE  WalkStep(f, y, i) = [node |-> At(f, z.from, i), hits |-> z.hits]
<1>1. PICK ids : ids = Said(f)
  OBVIOUS
<1>2. PICK e : e = Emitted(f)
  OBVIOUS
<1>3. /\ ids \in Seq(Nat) /\ Len(ids) = Len(e) /\ i \in 1 .. Len(ids) /\ ids[i] = f[e[i]].id
      /\ Len(ids) \in Nat
  BY <1>1, <1>2, SaidIs
<1>4. PICK from \in 1 .. i : from = x.from
  OBVIOUS
<1>5. PICK w : w = SubSeq(ids, from, i)
  OBVIOUS
<1>6. PICK l : l = Longest(EndingIn(KeywordIds, w))
  OBVIOUS
<1>7. PICK start : start = i + 1 - Len(l)
  OBVIOUS
<1>8. z = IF EndingIn(KeywordIds, w) # {} /\ Confident(f, e, start, i, ThresholdOf(l))
          THEN [from |-> i + 1, hits |-> Append(x.hits, Hit(e, start, i, l))]
          ELSE x
  BY <1>1, <1>2, <1>4, <1>5, <1>6, <1>7, Zenon DEF SpotStep, Said
<1>9. PICK node : node = y.node
  OBVIOUS
<1>10. node \in Nodes /\ IsLongest(node, Nodes, SubSeq(ids, from, i - 1))
  <2>1. i - 1 \in 0 .. Len(Emitted(f)) /\ from \in 1 .. (i - 1) + 1
    BY <1>2, <1>3
  <2>2. node = At(f, from, i - 1)
    BY <1>4, <1>9
  <2> QED
    BY <1>1, <2>1, <2>2, AtIs
<1>11. PICK next : next = ForwardOneStep(node, ids[i]).node
  OBVIOUS
<1>12. PICK k : k = ForwardOneStep(node, ids[i]).matched
  OBVIOUS
<1>13. /\ IsLongest(next, Nodes, w)
       /\ k = IF EndingIn(KeywordIds, w) = {} THEN Null ELSE l
  <2>1. Finds(ForwardOneStep(node, ids[i]), w)
    BY <1>3, <1>5, <1>10, StepFinds
  <2> QED
    BY <2>1, <1>6, <1>11, <1>12, Zenon DEF Finds
<1>14. PICK first : first = i + 1 - Len(k)
  OBVIOUS
<1>15. WalkStep(f, y, i) =
          IF k # Null /\ first >= 1 /\ Confident(f, e, first, i, trie[k].ac_threshold)
          THEN [node |-> AfterHit(next), hits |-> Append(y.hits, Hit(e, first, i, k))]
          ELSE [node |-> next, hits |-> y.hits]
  BY <1>2, <1>3, <1>9, <1>11, <1>12, <1>14, Zenon DEF WalkStep
<1>16. At(f, from, i) = next
  <2>1. Nodes \subseteq Ids /\ w \in Ids
    <3>1. Nodes \subseteq Ids
      BY ReadyGraph
    <3>2. IsPart(w, ids, from - 1, i)
      BY <1>3, <1>5, PartIs, Zenon
    <3>3. w \in Seq(Nat)
      BY <3>2, Zenon DEF IsPart
    <3> QED
      BY <3>1, <3>3 DEF Ids
  <2> QED
    BY <2>1, <1>1, <1>5, <1>13, LongestPicked DEF At
<1>17. At(f, i + 1, i) = Root
  <2>1. i \in 0 .. Len(Emitted(f)) /\ i + 1 \in 1 .. i + 1
    BY <1>2, <1>3
  <2> QED
    BY <2>1, AtIs
<1>18. CASE EndingIn(KeywordIds, w) = {}
  <2>1. k = Null /\ z = x
    BY <1>8, <1>13, <1>18
  <2>2. WalkStep(f, y, i) = [node |-> next, hits |-> y.hits]
    BY <1>15, <2>1
  <2> QED
    BY <1>4, <1>16, <2>1, <2>2
<1>19. CASE EndingIn(KeywordIds, w) # {}
  <2>1. l \in KeywordIds /\ start \in from .. i
    <3>1. from \in Nat /\ from >= 1
      OBVIOUS
    <3> QED
      BY <3>1, <1>3, <1>5, <1>6, <1>7, <1>19, FoundWithin
  <2>2. k = l /\ first = start
    BY <1>7, <1>13, <1>14, <1>19
  <2>3. k # Null /\ first >= 1
    BY <1>4, <2>1, <2>2, KeywordsAre
  <2>4. trie[k].ac_threshold = ThresholdOf(l)
    BY <2>1, <2>2, ThresholdIs
  <2>5. CASE Confident(f, e, start, i, ThresholdOf(l))
    <3>1. z = [from |-> i + 1, hits |-> Append(x.hits, Hit(e, start, i, l))]
      BY <1>8, <1>19, <2>5, Zenon
    <3>2. WalkStep(f, y, i) = [node |-> Root, hits |-> Append(x.hits, Hit(e, start, i, l))]
      BY <1>15, <2>2, <2>3, <2>4, <2>5, Zenon DEF AfterHit
    <3>3. z.from = i + 1 /\ z.hits = Append(x.hits, Hit(e, start, i, l))
      BY <3>1
    <3> QED
      BY <1>17, <3>2, <3>3, Zenon
  <2>6. CASE ~Confident(f, e, start, i, ThresholdOf(l))
    <3>1. z = x
      BY <1>8, <2>6, Zenon
    <3>2. WalkStep(f, y, i) = [node |-> next, hits |-> y.hits]
      BY <1>15, <2>2, <2>4, <2>6, Zenon
    <3> QED
      BY <1>4, <1>16, <3>1, <3>2, Zenon
  <2> QED
    BY <2>5, <2>6
<1> QED
  BY <1>18, <1>19

\* What the decoder finds is what is to be found.
THEOREM DecodesTheSpotted ==
    ASSUME GraphInv, ready, NEW F, \A r \in F : r.id \in Nat, NEW f \in Seq(F)
    PROVE  DecodeGreedy(f) = Spotted(f)
<1>1. PICK m \in Nat : m = Len(Emitted(f))
  BY SaidIs
<1>2. PICK g : /\ Spots(f, g) /\ Spotted(f) = g[m].hits
               /\ \A i \in 0 .. m : g[i] \in SpotStates(f)
  BY <1>1, SpottedIs
<1>3. \A i \in 0 .. m : g[i].from \in 1 .. i + 1
  BY <1>1, <1>2, SpotsBefore
<1> DEFINE h == [i \in 0 .. m |-> [node |-> At(f, g[i].from, i), hits |-> g[i].hits]]
           walk[i \in 0 .. Len(Emitted(f))] ==
               IF i = 0 THEN WalkBegin ELSE WalkStep(f, walk[i - 1], i)
<1>4. ASSUME NEW i \in 0 .. m PROVE h[i] = [node |-> At(f, g[i].from, i), hits |-> g[i].hits]
  OBVIOUS
<1> HIDE DEF h
<1>5. ASSUME NEW i \in 0 .. m PROVE h[i] = IF i = 0 THEN WalkBegin ELSE WalkStep(f, h[i - 1], i)
  <2>1. CASE i = 0
    <3>1. g[i] = SpotBegin
      BY <1>1, <1>2, <2>1 DEF Spots
    <3>2. At(f, 1, 0) = Root
      <4>1. 0 \in 0 .. Len(Emitted(f)) /\ 1 \in 1 .. 0 + 1 /\ 1 = 0 + 1
        BY <1>1
      <4> QED
        BY <4>1, AtIs
    <3> QED
      BY <1>4, <2>1, <3>1, <3>2 DEF SpotBegin, WalkBegin
  <2>2. CASE i # 0
    <3>1. i \in 1 .. m /\ i - 1 \in 0 .. m /\ (i - 1) + 1 = i
      BY <2>2
    <3>2. PICK x : x = g[i - 1]
      OBVIOUS
    <3>3. x \in SpotStates(f) /\ x.from \in 1 .. i
      BY <1>2, <1>3, <3>1, <3>2
    <3>4. PICK y : y = h[i - 1]
      OBVIOUS
    <3>5. y.node = At(f, x.from, i - 1) /\ y.hits = x.hits
      <4>1. y = [node |-> At(f, x.from, i - 1), hits |-> x.hits]
        BY <1>4, <3>1, <3>2, <3>4, Zenon
      <4> QED
        BY <4>1
    <3>6. PICK z : z = g[i]
      OBVIOUS
    <3>7. z = SpotStep(f, x, i)
      BY <1>1, <1>2, <2>2, <3>2, <3>6 DEF Spots
    <3>8. WalkStep(f, y, i) = [node |-> At(f, z.from, i), hits |-> z.hits]
      BY <1>1, <3>1, <3>3, <3>5, <3>7, StepsAlike
    <3> QED
      BY <1>4, <2>2, <3>4, <3>6, <3>8
  <2> QED
    BY <2>1, <2>2
<1>6. h = [i \in 0 .. Len(Emitted(f)) |-> IF i = 0 THEN WalkBegin ELSE WalkStep(f, h[i - 1], i)]
  <2>1. h = [i \in 0 .. m |-> h[i]]
    BY DEF h
  <2> QED
    BY <1>1, <1>5, <2>1
<1>7. walk = [i \in 0 .. Len(Emitted(f)) |->
                 IF i = 0 THEN WalkBegin ELSE WalkStep(f, walk[i - 1], i)]
  BY <1>6, Zenon
<1>8. DecodeGreedy(f) = walk[Len(Emitted(f))].hits
  BY Zenon DEF DecodeGreedy, Walk, WalkStep, WalkBegin
<1> HIDE DEF walk
<1>9. ASSUME NEW i \in 1 .. m, walk[i - 1] = h[i - 1] PROVE walk[i] = h[i]
  <2>1. i \in 0 .. m /\ i # 0
    OBVIOUS
  <2>2. walk[i] = WalkStep(f, walk[i - 1], i)
    BY <1>1, <1>7, <2>1
  <2> QED
    BY <1>5, <1>9, <2>1, <2>2, Zenon
<1>10. walk[0] = h[0]
  BY <1>1, <1>5, <1>7
<1>11. walk[m] = h[m]
  BY <1>9, <1>10, Agree, Zenon
<1>12. h[m].hits = g[m].hits
  <2>1. m \in 0 .. m
    OBVIOUS
  <2>2. h[m] = [node |-> At(f, g[m].from, m), hits |-> g[m].hits]
    BY <1>4, <2>1, Zenon
  <2> QED
    BY <2>2
<1> QED
  BY <1>1, <1>2, <1>8, <1>11, <1>12

-----------------------------------------------------------------------------
(* The report of a window.                                                 *)

\* Hits, when phrases were reported last, and the phrases of hits.
HitsOf == [phrase : Ids, first_frame : Nat, last_frame : Nat]
Lasts == UNION {[D -> Nat] : D \in SUBSET Ids}
Phrases(out) == {out[k].phrase : k \in 1 .. Len(out)}

\* One round of the loop over the hits of a window.
ReportStep(x, hit) ==
    LET phrase == hit.phrase
        last == x.last
    IN  IF HeldBack(last, phrase) THEN x
        ELSE [last |-> [y \in DOMAIN last \cup {phrase} |-> IF y = phrase THEN clock ELSE last[y]],
              out |-> Append(x.out, hit)]
ReportBegin == [last |-> last_hit_, out |-> <<>>]
ReportStates == [last : Lasts, out : Seq(HitsOf)]

\* What holds of a report: a phrase is in it now or was reported before.
Reported(x) ==
    /\ DOMAIN last_hit_ \subseteq DOMAIN x.last
    /\ \A p \in DOMAIN x.last : \/ p \in DOMAIN last_hit_ /\ x.last[p] = last_hit_[p]
                                \/ x.last[p] = clock /\ p \in Phrases(x.out)
\* A phrase is reported that was not shortly before, and, if there is a time to wait,
\* but once.
Spaced(x) ==
    /\ \A p \in Phrases(x.out) : /\ p \in DOMAIN x.last /\ x.last[p] = clock
                                 /\ p \in DOMAIN last_hit_ => clock - last_hit_[p] >= Debounce
    /\ Debounce > 0 => \A k, l \in 1 .. Len(x.out) : x.out[k].phrase = x.out[l].phrase => k = l
\* Of the first i hits, all are reported but for a phrase that was shortly before.
NoneLost(x, hits, i) ==
    /\ \A k \in 1 .. Len(x.out) : \E m \in 1 .. i : x.out[k] = hits[m]
    /\ \A m \in 1 .. i : \/ hits[m].phrase \in Phrases(x.out)
                         \/ /\ hits[m].phrase \in DOMAIN last_hit_
                            /\ clock - last_hit_[hits[m].phrase] < Debounce

\* When phrases were reported last.
Now(last, p) == [y \in DOMAIN last \cup {p} |-> IF y = p THEN clock ELSE last[y]]

\* A phrase that is reported now was reported last now.
LEMMA NowIs ==
    ASSUME NEW last \in Lasts, NEW p \in Ids, clock \in Nat
    PROVE  /\ Now(last, p) \in Lasts /\ DOMAIN Now(last, p) = DOMAIN last \cup {p}
           /\ Now(last, p)[p] = clock
           /\ \A y \in DOMAIN last : y # p => Now(last, p)[y] = last[y]
<1>1. PICK D \in SUBSET Ids : last \in [D -> Nat]
  BY DEF Lasts
<1>2. DOMAIN last = D
  BY <1>1
<1>3. Now(last, p) \in [D \cup {p} -> Nat]
  BY <1>1, <1>2 DEF Now
<1>4. D \cup {p} \in SUBSET Ids
  OBVIOUS
<1>5. Now(last, p) \in Lasts
  BY <1>3, <1>4 DEF Lasts
<1> QED
  BY <1>2, <1>3, <1>5 DEF Now

\* A round of the loop keeps the types.
LEMMA ReportStepType ==
    ASSUME clock \in Nat, NEW x \in ReportStates, NEW hit \in HitsOf
    PROVE  /\ ReportStep(x, hit) \in ReportStates
           /\ HeldBack(x.last, hit.phrase) => ReportStep(x, hit) = x
           /\ ~HeldBack(x.last, hit.phrase) =>
                 /\ ReportStep(x, hit).last = Now(x.last, hit.phrase)
                 /\ ReportStep(x, hit).out = Append(x.out, hit)
<1>1. x.last \in Lasts /\ x.out \in Seq(HitsOf) /\ hit.phrase \in Ids
  BY DEF ReportStates, HitsOf
<1>2. HeldBack(x.last, hit.phrase) => ReportStep(x, hit) = x
  BY Zenon DEF ReportStep
<1>3. ~HeldBack(x.last, hit.phrase) =>
          ReportStep(x, hit) = [last |-> Now(x.last, hit.phrase), out |-> Append(x.out, hit)]
  BY Zenon DEF ReportStep, Now
<1>4. Now(x.last, hit.phrase) \in Lasts
  BY <1>1, NowIs
<1>5. Append(x.out, hit) \in Seq(HitsOf)
  BY <1>1, AppendIs
<1>6. [last |-> Now(x.last, hit.phrase), out |-> Append(x.out, hit)] \in ReportStates
  BY <1>4, <1>5 DEF ReportStates
<1> QED
  BY <1>2, <1>3, <1>6

\* A phrase more is reported.
LEMMA PhrasesAppend ==
    ASSUME NEW out \in Seq(HitsOf), NEW hit \in HitsOf
    PROVE  Phrases(Append(out, hit)) = Phrases(out) \cup {hit.phrase}
<1>1. PICK b : b = Append(out, hit)
  OBVIOUS
<1>2. /\ Len(out) \in Nat /\ Len(b) = Len(out) + 1 /\ b[Len(out) + 1] = hit
      /\ \A k \in 1 .. Len(out) : b[k] = out[k]
  BY <1>1, AppendIs
<1>3. PICK n \in Nat : n = Len(out)
  BY <1>2
<1>4. ASSUME NEW k \in 1 .. n + 1 PROVE b[k].phrase \in Phrases(out) \cup {hit.phrase}
  <2>1. CASE k = n + 1
    BY <2>1, <1>2, <1>3
  <2>2. CASE k # n + 1
    <3>1. k \in 1 .. n
      BY <2>2
    <3> QED
      BY <3>1, <1>2, <1>3 DEF Phrases
  <2> QED
    BY <2>1, <2>2
<1>5. ASSUME NEW k \in 1 .. n PROVE out[k].phrase \in Phrases(b)
  <2>1. k \in 1 .. Len(b) /\ b[k] = out[k]
    BY <1>2, <1>3
  <2> QED
    BY <2>1 DEF Phrases
<1>6. hit.phrase \in Phrases(b)
  <2>1. n + 1 \in 1 .. Len(b) /\ b[n + 1] = hit
    BY <1>2, <1>3
  <2> QED
    BY <2>1 DEF Phrases
<1>7. Phrases(b) \subseteq Phrases(out) \cup {hit.phrase}
  BY <1>2, <1>3, <1>4 DEF Phrases
<1>8. Phrases(out) \subseteq Phrases(b)
  BY <1>3, <1>5 DEF Phrases
<1> QED
  BY <1>1, <1>6, <1>7, <1>8

\* What holds after the first i hits.
RunInv(x, hits, i) == x \in ReportStates /\ Reported(x) /\ Spaced(x) /\ NoneLost(x, hits, i)

\* The times of the last reports are a function on words.
LEMMA LastsAre ==
    ASSUME NEW last \in Lasts
    PROVE  DOMAIN last \subseteq Ids /\ \A p \in DOMAIN last : last[p] \in Nat
<1>1. PICK D \in SUBSET Ids : last \in [D -> Nat]
  BY DEF Lasts
<1> QED
  BY <1>1

\* One hit more.
LEMMA ReportStepInv ==
    ASSUME clock \in Nat, last_hit_ \in Lasts, NEW hits \in Seq(HitsOf), NEW i \in Nat,
           i + 1 <= Len(hits), NEW x, RunInv(x, hits, i)
    PROVE  RunInv(ReportStep(x, hits[i + 1]), hits, i + 1)
<1>1. x \in ReportStates /\ Reported(x) /\ Spaced(x) /\ NoneLost(x, hits, i)
  BY DEF RunInv
<1>2. PICK hit \in HitsOf : hit = hits[i + 1]
  OBVIOUS
<1>3. PICK p \in Ids : p = hit.phrase
  BY DEF HitsOf
<1>4. PICK z : z = ReportStep(x, hit)
  OBVIOUS
<1>5. PICK last : last = x.last
  OBVIOUS
<1>6. PICK out : out = x.out
  OBVIOUS
<1>7. last \in Lasts /\ out \in Seq(HitsOf) /\ \A y \in DOMAIN last : last[y] \in Nat
  BY <1>1, <1>5, <1>6, LastsAre DEF ReportStates
<1>8. \A y \in DOMAIN last_hit_ : last_hit_[y] \in Nat
  BY LastsAre
<1>9. z \in ReportStates
  BY <1>1, <1>4, ReportStepType
<1>10. /\ DOMAIN last_hit_ \subseteq DOMAIN last
       /\ \A y \in DOMAIN last : \/ y \in DOMAIN last_hit_ /\ last[y] = last_hit_[y]
                                 \/ last[y] = clock /\ y \in Phrases(out)
  BY <1>1, <1>5, <1>6 DEF Reported
<1>11. /\ \A y \in Phrases(out) : /\ y \in DOMAIN last /\ last[y] = clock
                                  /\ y \in DOMAIN last_hit_ => clock - last_hit_[y] >= Debounce
       /\ Debounce > 0 => \A k, l \in 1 .. Len(out) : out[k].phrase = out[l].phrase => k = l
  BY <1>1, <1>5, <1>6 DEF Spaced
<1>12. /\ \A k \in 1 .. Len(out) : \E m \in 1 .. i : out[k] = hits[m]
       /\ \A m \in 1 .. i : \/ hits[m].phrase \in Phrases(out)
                            \/ /\ hits[m].phrase \in DOMAIN last_hit_
                               /\ clock - last_hit_[hits[m].phrase] < Debounce
  BY <1>1, <1>6 DEF NoneLost
<1>13. \A m \in 1 .. i + 1 : m = i + 1 \/ m \in 1 .. i
  OBVIOUS
<1>14. 1 .. i \subseteq 1 .. i + 1 /\ i + 1 \in 1 .. i + 1
  OBVIOUS
<1>15. CASE HeldBack(last, p)
  <2>1. z = x
    BY <1>1, <1>3, <1>4, <1>5, <1>15, ReportStepType
  <2>2. p \in DOMAIN last /\ clock - last[p] < Debounce
    BY <1>15 DEF HeldBack
  <2>3. p \in Phrases(out) \/ (p \in DOMAIN last_hit_ /\ clock - last_hit_[p] < Debounce)
    BY <1>10, <2>2
  <2>4. \A m \in 1 .. i + 1 : \/ hits[m].phrase \in Phrases(out)
                              \/ /\ hits[m].phrase \in DOMAIN last_hit_
                                 /\ clock - last_hit_[hits[m].phrase] < Debounce
    BY <1>2, <1>3, <1>12, <1>13, <2>3
  <2>5. NoneLost(x, hits, i + 1)
    BY <1>6, <1>12, <1>14, <2>4 DEF NoneLost
  <2> QED
    BY <1>1, <1>2, <1>4, <2>1, <2>5 DEF RunInv
<1>16. CASE ~HeldBack(last, p)
  <2>1. z.last = Now(last, p) /\ z.out = Append(out, hit)
    BY <1>1, <1>3, <1>4, <1>5, <1>6, <1>16, ReportStepType
  <2>2. PICK new : new = z.last
    OBVIOUS
  <2>3. PICK more : more = z.out
    OBVIOUS
  <2>4. /\ DOMAIN new = DOMAIN last \cup {p} /\ new[p] = clock
        /\ \A y \in DOMAIN last : y # p => new[y] = last[y]
    <3>1. new = Now(last, p)
      BY <2>1, <2>2
    <3>2. DOMAIN Now(last, p) = DOMAIN last \cup {p}
      BY <1>7, NowIs
    <3>3. Now(last, p)[p] = clock
      BY <1>7, NowIs
    <3>4. \A y \in DOMAIN last : y # p => Now(last, p)[y] = last[y]
      BY <1>7, NowIs
    <3> QED
      BY <3>1, <3>2, <3>3, <3>4, Zenon
  <2>5. Phrases(more) = Phrases(out) \cup {p}
    BY <1>3, <1>7, <2>1, <2>3, PhrasesAppend
  <2>6. PICK n \in Nat : n = Len(out)
    BY <1>7
  <2>7. Len(more) = n + 1 /\ more[n + 1] = hit /\ \A k \in 1 .. n : more[k] = out[k]
    BY <1>7, <2>1, <2>3, <2>6, AppendIs
  <2>8. p \in DOMAIN last => clock - last[p] >= Debounce
    <3>1. p \in DOMAIN last => ~(clock - last[p] < Debounce)
      BY <1>16 DEF HeldBack
    <3> QED
      BY <1>7, <3>1, KwsAssumption
  <2>9. Reported(z)
    <3>1. DOMAIN last_hit_ \subseteq DOMAIN new
      BY <1>10, <2>4
    <3>2. ASSUME NEW y \in DOMAIN new
          PROVE  \/ y \in DOMAIN last_hit_ /\ new[y] = last_hit_[y]
                 \/ new[y] = clock /\ y \in Phrases(more)
      <4>1. CASE y = p
        BY <4>1, <2>4, <2>5
      <4>2. CASE y # p
        BY <4>2, <1>10, <2>4, <2>5
      <4> QED
        BY <4>1, <4>2
    <3> QED
      BY <2>2, <2>3, <3>1, <3>2 DEF Reported
  <2>10. p \in DOMAIN last_hit_ => clock - last_hit_[p] >= Debounce
    BY <1>10, <1>11, <2>8
  <2>11. p \in Phrases(out) => ~(Debounce > 0)
    <3>1. p \in Phrases(out) => p \in DOMAIN last /\ last[p] = clock
      BY <1>11
    <3>2. clock - clock = 0
      OBVIOUS
    <3> QED
      BY <2>8, <3>1, <3>2, KwsAssumption
  <2>12. ASSUME NEW y \in Phrases(more)
         PROVE  /\ y \in DOMAIN new /\ new[y] = clock
                /\ y \in DOMAIN last_hit_ => clock - last_hit_[y] >= Debounce
    <3>1. CASE y = p
      BY <3>1, <2>4, <2>10
    <3>2. CASE y # p
      BY <3>2, <1>11, <2>4, <2>5
    <3> QED
      BY <3>1, <3>2
  <2>13. ASSUME Debounce > 0, NEW k \in 1 .. n + 1, NEW l \in 1 .. n + 1,
                more[k].phrase = more[l].phrase
         PROVE  k = l
    <3>1. ASSUME NEW y \in 1 .. n PROVE more[y].phrase # p
      <4>1. out[y].phrase \in Phrases(out)
        BY <2>6 DEF Phrases
      <4> QED
        BY <4>1, <2>7, <2>11, <2>13
    <3>2. CASE k = n + 1 /\ l # n + 1
      <4>1. l \in 1 .. n
        BY <3>2
      <4> QED
        BY <4>1, <3>1, <3>2, <2>7, <2>13, <1>3
    <3>3. CASE l = n + 1 /\ k # n + 1
      <4>1. k \in 1 .. n
        BY <3>3
      <4> QED
        BY <4>1, <3>1, <3>3, <2>7, <2>13, <1>3
    <3>4. CASE k # n + 1 /\ l # n + 1
      <4>1. k \in 1 .. n /\ l \in 1 .. n
        BY <3>4
      <4>2. out[k].phrase = out[l].phrase
        BY <4>1, <2>7, <2>13
      <4> QED
        BY <4>1, <4>2, <1>11, <2>6, <2>13
    <3> QED
      BY <3>2, <3>3, <3>4
  <2>14. Spaced(z)
    BY <2>2, <2>3, <2>7, <2>12, <2>13 DEF Spaced
  <2>15. ASSUME NEW k \in 1 .. n + 1 PROVE \E m \in 1 .. i + 1 : more[k] = hits[m]
    <3>1. CASE k = n + 1
      BY <3>1, <1>2, <1>14, <2>7
    <3>2. CASE k # n + 1
      <4>1. k \in 1 .. n
        BY <3>2
      <4>2. PICK m \in 1 .. i : out[k] = hits[m]
        BY <4>1, <1>12, <2>6
      <4> QED
        BY <4>1, <4>2, <1>14, <2>7
    <3> QED
      BY <3>1, <3>2
  <2>16. \A m \in 1 .. i + 1 : \/ hits[m].phrase \in Phrases(more)
                               \/ /\ hits[m].phrase \in DOMAIN last_hit_
                                  /\ clock - last_hit_[hits[m].phrase] < Debounce
    BY <1>2, <1>3, <1>12, <1>13, <2>5
  <2>17. NoneLost(z, hits, i + 1)
    BY <2>3, <2>7, <2>15, <2>16 DEF NoneLost
  <2> QED
    BY <1>2, <1>4, <1>9, <2>9, <2>14, <2>17 DEF RunInv
<1> QED
  BY <1>15, <1>16

\* The whole loop.
LEMMA ReportIs ==
    ASSUME clock \in Nat, last_hit_ \in Lasts, NEW hits \in Seq(HitsOf)
    PROVE  RunInv(Report(hits), hits, Len(hits))
<1>1. PICK n \in Nat : n = Len(hits)
  OBVIOUS
<1> DEFINE S == ReportStates
           Op == [x \in S \X HitsOf |-> ReportStep(x[1], x[2])]
           run[i \in 0 .. Len(hits)] ==
               IF i = 0 THEN ReportBegin ELSE ReportStep(run[i - 1], hits[i])
<1>2. /\ Op \in [S \X HitsOf -> S]
      /\ \A x \in S : \A hit \in HitsOf : Op[<<x, hit>>] = ReportStep(x, hit)
  <2>1. \A x \in S : \A hit \in HitsOf : ReportStep(x, hit) \in S
    BY ReportStepType
  <2> HIDE DEF S
  <2> QED
    BY <2>1
<1>3. ReportBegin \in S
  BY EmptySeq DEF ReportStates, ReportBegin
<1> HIDE DEF S, Op
<1>4. PICK g \in [0 .. n -> S] : Folds(g, hits, ReportBegin, Op)
  BY <1>1, <1>2, <1>3, FoldExists
<1>5. ASSUME NEW i \in 0 .. n
      PROVE  g[i] = IF i = 0 THEN ReportBegin ELSE ReportStep(g[i - 1], hits[i])
  <2>1. g[0] = ReportBegin
    BY <1>4 DEF Folds, FoldsTo
  <2>2. ASSUME i # 0 PROVE g[i] = ReportStep(g[i - 1], hits[i])
    <3>1. i \in 1 .. n /\ i - 1 \in 0 .. n /\ hits[i] \in HitsOf
      BY <1>1, <2>2
    <3>2. g[i] = Op[<<g[i - 1], hits[i]>>]
      BY <1>1, <1>4, <3>1 DEF Folds, FoldsTo
    <3> QED
      BY <1>2, <3>1, <3>2
  <2> QED
    BY <2>1, <2>2
<1>6. g = [i \in 0 .. Len(hits) |-> IF i = 0 THEN ReportBegin ELSE ReportStep(g[i - 1], hits[i])]
  BY <1>1, <1>5
<1>7. run = [i \in 0 .. Len(hits) |->
                IF i = 0 THEN ReportBegin ELSE ReportStep(run[i - 1], hits[i])]
  BY <1>6, Zenon
<1>8. Report(hits) = run[Len(hits)]
  BY Zenon DEF Report, ReportStep, ReportBegin
<1> HIDE DEF run
<1> DEFINE T == {i \in Nat : i <= n => RunInv(run[i], hits, i)}
<1>9. 0 \in T
  <2>1. run[0] = ReportBegin
    BY <1>1, <1>7
  <2>2. ReportBegin.out = <<>> /\ ReportBegin.last = last_hit_
    BY DEF ReportBegin
  <2>3. Phrases(<<>>) = {} /\ Len(<<>>) = 0
    BY DEF Phrases
  <2>4. Reported(ReportBegin)
    BY <2>2 DEF Reported
  <2>5. Spaced(ReportBegin)
    BY <2>2, <2>3 DEF Spaced
  <2>6. NoneLost(ReportBegin, hits, 0)
    BY <2>2, <2>3 DEF NoneLost
  <2> QED
    BY <1>3, <2>1, <2>4, <2>5, <2>6 DEF RunInv, S
<1>10. ASSUME NEW i \in Nat, i \in T PROVE i + 1 \in T
  <2> SUFFICES ASSUME i + 1 <= n PROVE RunInv(run[i + 1], hits, i + 1)
    OBVIOUS
  <2>1. i + 1 \in 0 .. n /\ i + 1 # 0 /\ (i + 1) - 1 = i /\ i <= n
    OBVIOUS
  <2>2. run[i + 1] = ReportStep(run[i], hits[i + 1])
    BY <1>1, <1>7, <2>1
  <2>3. RunInv(run[i], hits, i)
    BY <1>10, <2>1
  <2>4. RunInv(ReportStep(run[i], hits[i + 1]), hits, i + 1)
    BY <1>1, <2>1, <2>3, ReportStepInv
  <2> QED
    BY <2>2, <2>4
<1> HIDE DEF T
<1>11. \A i \in Nat : i \in T
  BY <1>9, <1>10, Induction, Zenon
<1>12. RunInv(run[n], hits, n)
  BY <1>11 DEF T
<1> QED
  BY <1>1, <1>8, <1>12

-----------------------------------------------------------------------------
(* The invariant of the ring and the windows.                              *)

\* A window that was decoded: where it starts, when it was, what was reported.
HeardHits == [phrase : Ids, first_frame : 1 .. Window, last_frame : 1 .. Window]
WindowRecord == [start : Nat, at : Nat, out : Seq(HeardHits)]

\* The types of the spotter's variables.
KwsType ==
    /\ ring \in Seq(Frames) /\ stream \in Seq(Frames) /\ consumed_samples_ \in 0 .. Len(stream)
    /\ last_hit_ \in Lasts /\ windows \in Seq(WindowRecord)
    /\ clock \in Nat /\ polling \in BOOLEAN /\ failed \in BOOLEAN

\* The ring is the rest of the stream; a poll finds a window in it.
RingInv ==
    /\ ring = SubSeq(stream, consumed_samples_ + 1, Len(stream))
    /\ polling => ready /\ Len(ring) >= Window

\* A window is before the next, and the last before the ring: by the length of a
\* window, where a window has no room for a hop.
Before(a, b) == IF Hop <= Window THEN a < b ELSE a + Window <= b
\* A number of hops.
OnHop(x) == \E k \in Nat : x = k * Hop
\* Windows start before what is left in the ring, one after the other, and at hops where a
\* window has room for one: each at the next, if none failed.
StartsInv ==
    /\ \A i \in 1 .. Len(windows) : /\ windows[i].start + Window <= Len(stream)
                                    /\ Before(windows[i].start, consumed_samples_)
    /\ \A i, j \in 1 .. Len(windows) : i < j => Before(windows[i].start, windows[j].start)
    /\ Hop <= Window => OnHop(consumed_samples_)
    /\ Hop <= Window => \A i \in 1 .. Len(windows) : OnHop(windows[i].start)
    /\ Hop <= Window /\ ~failed =>
          /\ consumed_samples_ = Len(windows) * Hop
          /\ \A i \in 1 .. Len(windows) : windows[i].start = (i - 1) * Hop

\* The invariant of the spotter, but for what is reported.
KwsInv == GraphInv /\ KwsType /\ RingInv /\ StartsInv

\* The ring after a poll: by n frames shorter.
LEMMA AdvanceIs ==
    ASSUME KwsType, RingInv, polling, Advance, stream' = stream
    PROVE  \E n \in Nat : /\ n >= 1 /\ n = (IF Hop <= Window THEN Hop ELSE n)
                          /\ Hop > Window => n >= Window
                          /\ consumed_samples_' = consumed_samples_ + n
                          /\ consumed_samples_' \in 0 .. Len(stream)
                          /\ ring' \in Seq(Frames)
                          /\ ring' = SubSeq(stream, consumed_samples_' + 1, Len(stream))
<1>1. PICK l \in Nat : l = Len(ring)
  BY DEF KwsType
<1>2. l >= Window /\ ring = SubSeq(stream, consumed_samples_ + 1, Len(stream))
  BY <1>1 DEF RingInv
<1>3. Window \in Nat /\ Window >= 1 /\ Hop \in Nat /\ Hop >= 1
  BY KwsAssumption
<1>4. PICK n \in Nat : n = IF Hop <= l THEN Hop ELSE l
  BY <1>3
<1>5. ring' = SubSeq(ring, n + 1, Len(ring)) /\ consumed_samples_' = consumed_samples_ + n
  BY <1>1, <1>4, Zenon DEF Advance
<1>6. PICK c \in Nat : c = consumed_samples_
  BY DEF KwsType
<1>7. stream \in Seq(Frames) /\ c + l = Len(stream)
  <2>1. stream \in Seq(Frames) /\ c \in 0 .. Len(stream)
    BY <1>6 DEF KwsType
  <2>2. Len(SubSeq(stream, c + 1, Len(stream))) = Len(stream) - c
    BY <2>1, SuffixIs
  <2>3. l = Len(stream) - c /\ Len(stream) \in Nat
    BY <1>1, <1>2, <1>6, <2>1, <2>2
  <2> QED
    BY <2>1, <2>3
<1>8. PICK m \in Nat : n + m = l
  <2>1. l - n \in Nat /\ n + (l - n) = l
    BY <1>4
  <2> QED
    BY <2>1
<1>9. SubSeq(SubSeq(stream, c + 1, c + l), n + 1, n + m) = SubSeq(stream, (c + n) + 1, (c + n) + m)
  BY <1>7, <1>8, SliceOfSlice
<1>10. (c + n) + m = c + l
  BY <1>8
<1>11. ring' = SubSeq(stream, (c + n) + 1, Len(stream))
  BY <1>1, <1>2, <1>5, <1>6, <1>7, <1>8, <1>9, <1>10
<1>12. c + n \in 0 .. Len(stream)
  BY <1>7, <1>8
<1>13. ring' \in Seq(Frames)
  BY <1>7, <1>11, <1>12, SuffixIs
<1>14. n >= 1 /\ (Hop <= Window => n = Hop) /\ (Hop > Window => n >= Window)
  BY <1>2, <1>3, <1>4
<1> QED
  BY <1>5, <1>6, <1>11, <1>12, <1>13, <1>14

\* The frames of a window are heard, and what is decoded of them is to be found there.
LEMMA WindowIs ==
    ASSUME GraphInv, KwsType, RingInv, polling,
           NEW f, f = SubSeq(ring, 1, Window), NEW hits, hits = DecodeGreedy(f)
    PROVE  /\ f = SubSeq(stream, consumed_samples_ + 1, consumed_samples_ + Window)
           /\ consumed_samples_ + Window <= Len(stream)
           /\ hits = Spotted(f) /\ hits \in Seq(HitsOf) /\ hits \in Seq(HeardHits)
           /\ RunInv(Report(hits), hits, Len(hits))
           /\ Report(hits).out \in Seq(HeardHits) /\ Report(hits).last \in Lasts
<1>1. PICK l \in Nat : l = Len(ring)
  BY DEF KwsType
<1>2. l >= Window /\ ring = SubSeq(stream, consumed_samples_ + 1, Len(stream)) /\ ready
  BY <1>1 DEF RingInv
<1>3. Window \in Nat /\ Window >= 1
  BY KwsAssumption
<1>4. PICK c \in Nat : c = consumed_samples_
  BY DEF KwsType
<1>5. stream \in Seq(Frames) /\ c + l = Len(stream)
  <2>1. stream \in Seq(Frames) /\ c \in 0 .. Len(stream)
    BY <1>4 DEF KwsType
  <2>2. Len(SubSeq(stream, c + 1, Len(stream))) = Len(stream) - c
    BY <2>1, SuffixIs
  <2>3. l = Len(stream) - c /\ Len(stream) \in Nat
    BY <1>1, <1>2, <1>4, <2>1, <2>2
  <2> QED
    BY <2>1, <2>3
<1>6. f = SubSeq(stream, c + 1, c + Window)
  <2>1. SubSeq(SubSeq(stream, c + 1, c + l), 0 + 1, 0 + Window)
         = SubSeq(stream, (c + 0) + 1, (c + 0) + Window)
    BY <1>2, <1>3, <1>5, SliceOfSlice
  <2>2. c + 0 = c /\ 0 + 1 = 1 /\ 0 + Window = Window
    BY <1>3
  <2> QED
    BY <1>2, <1>4, <1>5, <2>1, <2>2
<1>7. c + Window <= Len(stream)
  BY <1>2, <1>3, <1>5
<1>8. f \in Seq(Frames) /\ Len(f) = Window
  <2>1. /\ SubSeq(stream, c + 1, c + Window) \in Seq(Frames)
        /\ Len(SubSeq(stream, c + 1, c + Window)) = Window
    BY <1>3, <1>5, <1>7, SliceIs
  <2> QED
    BY <1>6, <2>1, Zenon
<1>9. \A r \in Frames : r.id \in Nat
  BY KwsAssumption
<1>10. hits = Spotted(f)
  BY <1>2, <1>8, <1>9, DecodesTheSpotted
<1>11. hits \in Seq(HitRecord(f))
  BY <1>8, <1>9, <1>10, SpottedType
<1>12. HitRecord(f) \subseteq HeardHits /\ HeardHits \subseteq HitsOf
  <2>1. KeywordIds \subseteq Ids
    BY KeywordsAre
  <2>2. 1 .. Window \subseteq Nat
    BY <1>3
  <2>3. HitRecord(f) \subseteq HeardHits
    BY <1>8, <2>1 DEF HitRecord, HeardHits
  <2>4. HeardHits \subseteq HitsOf
    BY <2>2 DEF HeardHits, HitsOf
  <2> QED
    BY <2>3, <2>4
<1>13. hits \in Seq(HeardHits) /\ hits \in Seq(HitsOf)
  BY <1>11, <1>12
<1>14. clock \in Nat /\ last_hit_ \in Lasts
  BY DEF KwsType
<1>15. PICK r : r = Report(hits)
  OBVIOUS
<1>16. RunInv(r, hits, Len(hits))
  BY <1>13, <1>14, <1>15, ReportIs
<1>17. /\ r.last \in Lasts /\ r.out \in Seq(HitsOf)
       /\ \A k \in 1 .. Len(r.out) : \E m \in 1 .. Len(hits) : r.out[k] = hits[m]
  BY <1>16 DEF RunInv, ReportStates, NoneLost
<1>18. r.out \in Seq(HeardHits)
  <2>1. \A m \in 1 .. Len(hits) : hits[m] \in HeardHits
    BY <1>13
  <2>2. \A k \in 1 .. Len(r.out) : r.out[k] \in HeardHits
    BY <1>17, <2>1
  <2> QED
    BY <1>17, <2>2
<1> QED
  BY <1>4, <1>6, <1>7, <1>10, <1>13, <1>15, <1>16, <1>17, <1>18

\* The graph is built before anything is heard, and then stays as it is.
LEMMA GraphStep ==
    [Next]_vars => /\ [Construct]_graph /\ keywords' = keywords
                   /\ num_trailing_blanks' = num_trailing_blanks
<1> SUFFICES ASSUME [Next]_vars
             PROVE  /\ [Construct]_graph /\ keywords' = keywords
                    /\ num_trailing_blanks' = num_trailing_blanks
  OBVIOUS
<1>1. Construct => keywords' = keywords
  BY DEF Construct, Build, FillBegins, FillNode
<1>2. UNCHANGED graph => keywords' = keywords
  BY DEF graph
<1>3. CASE UNCHANGED vars
  BY <1>2, <1>3 DEF vars
<1>4. CASE ConstructGraph
  BY <1>1, <1>4 DEF ConstructGraph
<1>5. ASSUME NEW frame \in Frames, PushAudio(frame)
      PROVE  UNCHANGED <<graph, num_trailing_blanks>>
  BY <1>5 DEF PushAudio
<1>6. Tick => UNCHANGED <<graph, num_trailing_blanks>>
  BY DEF Tick
<1>7. PollBegins \/ PollWindow \/ PollNoFeatures \/ PollFails
      => UNCHANGED <<graph, num_trailing_blanks>>
  BY DEF PollBegins, PollWindow, PollNoFeatures, PollFails
<1>8. Reset => UNCHANGED <<graph, num_trailing_blanks>>
  BY DEF Reset
<1> QED
  BY <1>2, <1>3, <1>4, <1>5, <1>6, <1>7, <1>8 DEF Next

\* A finished graph stays finished.
LEMMA ReadyStays == GraphInv /\ ready /\ [Construct]_graph => ready'
<1> SUFFICES ASSUME GraphInv, ready, [Construct]_graph PROVE ready'
  OBVIOUS
<1>1. q = <<>> /\ inserted = Len(keywords) /\ inserted \in Nat
  BY DEF GraphInv, GraphType
<1>2. CASE Construct
  BY <1>1, <1>2 DEF Construct, Build, FillBegins, FillNode
<1>3. CASE UNCHANGED graph
  BY <1>3 DEF graph
<1> QED
  BY <1>2, <1>3

-----------------------------------------------------------------------------
(* Every step of the spotter keeps it.                                     *)

\* What a window in the sequence is.
LEMMA WindowsAre ==
    ASSUME KwsType
    PROVE  \A i \in 1 .. Len(windows) :
              /\ windows[i].start \in Nat /\ windows[i].at \in Nat
              /\ windows[i].out \in Seq(HeardHits)
<1> SUFFICES ASSUME NEW i \in 1 .. Len(windows)
             PROVE  /\ windows[i].start \in Nat /\ windows[i].at \in Nat
                    /\ windows[i].out \in Seq(HeardHits)
  OBVIOUS
<1>1. windows[i] \in WindowRecord
  BY DEF KwsType
<1> QED
  BY <1>1 DEF WindowRecord

\* Two hops apart are a window before one another.
LEMMA BeforeIs ==
    ASSUME NEW a \in Nat, NEW c \in Nat, NEW n \in Nat, n >= 1, Hop <= Window => n = Hop,
           Hop > Window => n >= Window
    PROVE  /\ Before(c, c + n) /\ (Before(a, c) => Before(a, c + n))
           /\ Hop <= Window /\ OnHop(c) => OnHop(c + n)
<1>1. Window \in Nat /\ Hop \in Nat /\ Hop >= 1 /\ Window >= 1
  BY KwsAssumption
<1>2. Before(c, c + n)
  BY <1>1 DEF Before
<1>3. Before(a, c) => Before(a, c + n)
  BY <1>1 DEF Before
<1>4. ASSUME Hop <= Window, NEW k \in Nat, c = k * Hop PROVE c + n = (k + 1) * Hop
  BY <1>1, <1>4
<1>5. \A k \in Nat : k + 1 \in Nat
  OBVIOUS
<1> QED
  BY <1>2, <1>3, <1>4, <1>5, Zenon DEF OnHop

\* What does not touch the session leaves the invariant, where a poll finds a window.
LEMMA SameSession ==
    ASSUME KwsType, RingInv, StartsInv, session' = session, clock' \in Nat, polling' \in BOOLEAN,
           polling' => ready' /\ Len(ring) >= Window
    PROVE  KwsType' /\ RingInv' /\ StartsInv'
<1>1. /\ ring' = ring /\ consumed_samples_' = consumed_samples_ /\ last_hit_' = last_hit_
      /\ stream' = stream /\ windows' = windows /\ failed' = failed
  BY DEF session
<1>2. KwsType'
  BY <1>1 DEF KwsType
<1>3. RingInv'
  BY <1>1 DEF RingInv
<1>4. StartsInv'
  BY <1>1, Zenon DEF StartsInv
<1> QED
  BY <1>2, <1>3, <1>4

\* More audio: its frames go into the ring.
LEMMA PushInv ==
    ASSUME KwsType, RingInv, StartsInv, NEW frame \in Frames, PushAudio(frame)
    PROVE  KwsType' /\ RingInv' /\ StartsInv'
<1>1. /\ ring' = Append(ring, frame) /\ stream' = Append(stream, frame) /\ polling = FALSE
      /\ consumed_samples_' = consumed_samples_ /\ last_hit_' = last_hit_ /\ windows' = windows
      /\ failed' = failed /\ polling' = polling /\ clock' = clock
  <2>1. polling \in BOOLEAN
    BY DEF KwsType
  <2> QED
    BY <2>1 DEF PushAudio, session
<1>2. ring \in Seq(Frames) /\ stream \in Seq(Frames) /\ consumed_samples_ \in 0 .. Len(stream)
  BY DEF KwsType
<1>3. ring' \in Seq(Frames) /\ stream' \in Seq(Frames) /\ Len(stream') = Len(stream) + 1
      /\ Len(stream) \in Nat
  BY <1>1, <1>2, AppendIs
<1>4. consumed_samples_' \in 0 .. Len(stream')
  BY <1>1, <1>2, <1>3
<1>5. KwsType'
  BY <1>1, <1>3, <1>4 DEF KwsType
<1>6. ring' = SubSeq(stream', consumed_samples_' + 1, Len(stream'))
  <2>1. SubSeq(Append(stream, frame), consumed_samples_ + 1, Len(Append(stream, frame)))
         = Append(SubSeq(stream, consumed_samples_ + 1, Len(stream)), frame)
    BY <1>2, RestOfAppend
  <2>2. ring = SubSeq(stream, consumed_samples_ + 1, Len(stream))
    BY DEF RingInv
  <2> QED
    BY <1>1, <2>1, <2>2, Zenon
<1>7. RingInv'
  BY <1>1, <1>6 DEF RingInv
<1>8. \A i \in 1 .. Len(windows) : windows[i].start + Window <= Len(stream')
  <2>1. \A i \in 1 .. Len(windows) : windows[i].start + Window <= Len(stream)
    BY DEF StartsInv
  <2>2. ASSUME NEW i \in 1 .. Len(windows) PROVE windows[i].start + Window \in Int
    <3>1. windows[i] \in WindowRecord
      BY DEF KwsType
    <3>2. windows[i].start \in Nat
      BY <3>1 DEF WindowRecord
    <3> QED
      BY <3>2, KwsAssumption
  <2> QED
    BY <2>1, <2>2, <1>3
<1>9. StartsInv'
  BY <1>1, <1>8, Zenon DEF StartsInv
<1> QED
  BY <1>5, <1>7, <1>9

\* A reset empties the ring and forgets the windows.
LEMMA ResetInv ==
    ASSUME KwsType, RingInv, StartsInv, Reset
    PROVE  KwsType' /\ RingInv' /\ StartsInv'
<1>1. /\ ring' = <<>> /\ consumed_samples_' = 0 /\ last_hit_' = NoHits
      /\ stream' = <<>> /\ windows' = <<>> /\ failed' = FALSE
      /\ polling = FALSE /\ polling' = polling /\ clock' = clock
  <2>1. polling \in BOOLEAN
    BY DEF KwsType
  <2> QED
    BY <2>1 DEF Reset
<1>2. NoHits \in Lasts
  <2>1. NoHits \in [{} -> Nat]
    BY DEF NoHits
  <2> QED
    BY <2>1 DEF Lasts
<1>3. ring' \in Seq(Frames) /\ stream' \in Seq(Frames) /\ windows' \in Seq(WindowRecord)
      /\ Len(stream') = 0 /\ Len(windows') = 0
  BY <1>1, EmptySeq
<1>4. KwsType'
  <2>1. consumed_samples_' \in 0 .. Len(stream')
    BY <1>1, <1>3
  <2>2. polling' \in BOOLEAN /\ failed' \in BOOLEAN
    BY <1>1, Zenon DEF KwsType
  <2>3. clock' \in Nat /\ last_hit_' \in Lasts
    BY <1>1, <1>2 DEF KwsType
  <2> QED
    BY <1>3, <2>1, <2>2, <2>3, Zenon DEF KwsType
<1>5. RingInv'
  <2>1. SubSeq(<<>>, 0 + 1, 0) = <<>>
    OBVIOUS
  <2> QED
    BY <1>1, <1>3, <2>1 DEF RingInv
<1>6. OnHop(0)
  BY KwsAssumption DEF OnHop
<1>7. StartsInv'
  BY <1>1, <1>3, <1>6, KwsAssumption DEF StartsInv
<1> QED
  BY <1>4, <1>5, <1>7

\* A window is taken out of the ring, decoded or not.
LEMMA NoFeaturesInv ==
    ASSUME KwsType, RingInv, StartsInv, PollNoFeatures
    PROVE  KwsType' /\ RingInv' /\ StartsInv'
<1>1. /\ polling /\ Advance /\ More /\ failed' = TRUE /\ last_hit_' = last_hit_
      /\ stream' = stream /\ windows' = windows /\ clock' = clock /\ ready' = ready
  BY DEF PollNoFeatures, graph
<1>2. PICK n \in Nat : /\ n >= 1 /\ n = (IF Hop <= Window THEN Hop ELSE n)
                       /\ Hop > Window => n >= Window
                       /\ consumed_samples_' = consumed_samples_ + n
                       /\ consumed_samples_' \in 0 .. Len(stream)
                       /\ ring' \in Seq(Frames)
                       /\ ring' = SubSeq(stream, consumed_samples_' + 1, Len(stream))
  BY <1>1, AdvanceIs
<1>3. PICK c \in Nat : c = consumed_samples_
  BY DEF KwsType
<1>4. polling' = (Len(ring') >= Window)
  BY <1>1 DEF More
<1>5. KwsType'
  <2>1. polling' \in BOOLEAN /\ failed' \in BOOLEAN
    BY <1>1, <1>4
  <2>2. /\ stream \in Seq(Frames) /\ last_hit_ \in Lasts /\ windows \in Seq(WindowRecord)
        /\ clock \in Nat
    BY DEF KwsType
  <2> QED
    BY <1>1, <1>2, <2>1, <2>2, Zenon DEF KwsType
<1>6. RingInv'
  <2>1. ready'
    BY <1>1 DEF RingInv
  <2>2. polling' => ready' /\ Len(ring') >= Window
    BY <1>4, <2>1
  <2> QED
    BY <1>1, <1>2, <2>2 DEF RingInv
<1>7. Hop <= Window => n = Hop
  BY <1>2
<1>8. \A a \in Nat : /\ Before(a, c) => Before(a, c + n)
                     /\ Hop <= Window /\ OnHop(c) => OnHop(c + n)
  BY <1>2, <1>7, BeforeIs
<1>9. \A i \in 1 .. Len(windows) : windows[i].start \in Nat
  BY WindowsAre
<1>10. /\ \A i \in 1 .. Len(windows) : /\ windows[i].start + Window <= Len(stream)
                                       /\ Before(windows[i].start, c)
       /\ \A i, j \in 1 .. Len(windows) : i < j => Before(windows[i].start, windows[j].start)
       /\ Hop <= Window => OnHop(c)
       /\ Hop <= Window => \A i \in 1 .. Len(windows) : OnHop(windows[i].start)
  BY <1>3 DEF StartsInv
<1>11. \A i \in 1 .. Len(windows) : Before(windows[i].start, c + n)
  BY <1>8, <1>9, <1>10, Zenon
<1>12. Hop <= Window => OnHop(c + n)
  BY <1>8, <1>10
<1>13. consumed_samples_' = c + n
  BY <1>2, <1>3
<1>14. StartsInv'
  BY <1>1, <1>10, <1>11, <1>12, <1>13, Zenon DEF StartsInv
<1> QED
  BY <1>5, <1>6, <1>14

\* A window is decoded and taken out of the ring.
LEMMA WindowInv ==
    ASSUME GraphInv, KwsType, RingInv, StartsInv, PollWindow
    PROVE  KwsType' /\ RingInv' /\ StartsInv'
<1>1. /\ polling /\ Advance /\ More /\ failed' = failed
      /\ stream' = stream /\ clock' = clock /\ ready' = ready
  BY DEF PollWindow, graph
<1>2. PICK n \in Nat : /\ n >= 1 /\ n = (IF Hop <= Window THEN Hop ELSE n)
                       /\ Hop > Window => n >= Window
                       /\ consumed_samples_' = consumed_samples_ + n
                       /\ consumed_samples_' \in 0 .. Len(stream)
                       /\ ring' \in Seq(Frames)
                       /\ ring' = SubSeq(stream, consumed_samples_' + 1, Len(stream))
  BY <1>1, AdvanceIs
<1>3. PICK c \in Nat : c = consumed_samples_
  BY DEF KwsType
<1>4. polling' = (Len(ring') >= Window)
  BY <1>1 DEF More
<1>5. PICK r : r = Report(DecodeGreedy(SubSeq(ring, 1, Window)))
  OBVIOUS
<1>6. r.out \in Seq(HeardHits) /\ r.last \in Lasts /\ c + Window <= Len(stream)
  BY <1>1, <1>3, <1>5, WindowIs
<1>7. PICK w : w = [start |-> c, at |-> clock, out |-> r.out]
  OBVIOUS
<1>8. last_hit_' = r.last /\ windows' = Append(windows, w)
  BY <1>3, <1>5, <1>7, Zenon DEF PollWindow
<1>9. w \in WindowRecord /\ w.start = c
  BY <1>6, <1>7 DEF WindowRecord, KwsType
<1>10. PICK m \in Nat : m = Len(windows)
  BY DEF KwsType
<1>11. /\ windows' \in Seq(WindowRecord) /\ Len(windows') = m + 1 /\ windows'[m + 1] = w
       /\ \A i \in 1 .. m : windows'[i] = windows[i]
  BY <1>8, <1>9, <1>10, AppendIs DEF KwsType
<1>12. KwsType'
  <2>1. polling' \in BOOLEAN /\ failed' \in BOOLEAN
    BY <1>1, <1>4 DEF KwsType
  <2>2. stream \in Seq(Frames) /\ clock \in Nat
    BY DEF KwsType
  <2> QED
    BY <1>1, <1>2, <1>6, <1>8, <1>11, <2>1, <2>2, Zenon DEF KwsType
<1>13. RingInv'
  <2>1. ready'
    BY <1>1 DEF RingInv
  <2>2. polling' => ready' /\ Len(ring') >= Window
    BY <1>4, <2>1
  <2> QED
    BY <1>1, <1>2, <2>2 DEF RingInv
<1>14. Hop <= Window => n = Hop
  BY <1>2
<1>15. \A a \in Nat : /\ Before(c, c + n) /\ (Before(a, c) => Before(a, c + n))
                      /\ Hop <= Window /\ OnHop(c) => OnHop(c + n)
  BY <1>2, <1>14, BeforeIs
<1>16. \A i \in 1 .. m : windows[i].start \in Nat
  BY <1>10, WindowsAre
<1>17. /\ \A i \in 1 .. m : /\ windows[i].start + Window <= Len(stream)
                            /\ Before(windows[i].start, c)
       /\ \A i, j \in 1 .. m : i < j => Before(windows[i].start, windows[j].start)
       /\ Hop <= Window => OnHop(c)
       /\ Hop <= Window => \A i \in 1 .. m : OnHop(windows[i].start)
       /\ Hop <= Window /\ ~failed => /\ c = m * Hop
                                      /\ \A i \in 1 .. m : windows[i].start = (i - 1) * Hop
  BY <1>3, <1>10 DEF StartsInv
<1>18. \A i \in 1 .. m + 1 : i \in 1 .. m \/ i = m + 1
  OBVIOUS
<1>19. consumed_samples_' = c + n
  BY <1>2, <1>3
<1>20. ASSUME NEW i \in 1 .. m + 1
       PROVE  /\ windows'[i].start + Window <= Len(stream)
              /\ Before(windows'[i].start, c + n)
              /\ Hop <= Window => OnHop(windows'[i].start)
  <2>0. 0 \in Nat
    OBVIOUS
  <2>1. CASE i = m + 1
    BY <2>0, <2>1, <1>6, <1>9, <1>11, <1>15, <1>17
  <2>2. CASE i \in 1 .. m
    BY <2>2, <1>11, <1>15, <1>16, <1>17
  <2> QED
    BY <2>1, <2>2, <1>18
<1>21. ASSUME NEW i \in 1 .. m + 1, NEW j \in 1 .. m + 1, i < j
       PROVE  Before(windows'[i].start, windows'[j].start)
  <2>1. i \in 1 .. m
    BY <1>21
  <2>2. CASE j = m + 1
    BY <2>1, <2>2, <1>9, <1>11, <1>17
  <2>3. CASE j \in 1 .. m
    BY <2>1, <2>3, <1>11, <1>17, <1>21
  <2> QED
    BY <2>2, <2>3, <1>18
<1>22. ASSUME Hop <= Window, ~failed
       PROVE  /\ c + n = (m + 1) * Hop
              /\ \A i \in 1 .. m + 1 : windows'[i].start = (i - 1) * Hop
  <2>1. c = m * Hop /\ \A i \in 1 .. m : windows[i].start = (i - 1) * Hop
    BY <1>17, <1>22
  <2>2. c + n = (m + 1) * Hop
    BY <2>1, <1>14, <1>22, KwsAssumption
  <2>3. ASSUME NEW i \in 1 .. m + 1 PROVE windows'[i].start = (i - 1) * Hop
    <3>1. CASE i = m + 1
      <4>1. i - 1 = m
        BY <3>1
      <4> QED
        BY <2>1, <3>1, <4>1, <1>9, <1>11
    <3>2. CASE i \in 1 .. m
      BY <2>1, <3>2, <1>11
    <3> QED
      BY <3>1, <3>2, <1>18
  <2> QED
    BY <2>2, <2>3
<1>23. Hop <= Window => OnHop(c + n)
  <2>1. 0 \in Nat
    OBVIOUS
  <2> QED
    BY <2>1, <1>15, <1>17
<1>24. StartsInv'
  BY <1>1, <1>11, <1>19, <1>20, <1>21, <1>22, <1>23, Zenon DEF StartsInv
<1> QED
  BY <1>12, <1>13, <1>24

-----------------------------------------------------------------------------
(* The invariant and what follows from it.                                 *)

\* Every step keeps the invariant.
LEMMA KwsInvariance == KwsInv /\ [Next]_vars => KwsInv'
<1> SUFFICES ASSUME KwsInv, [Next]_vars PROVE KwsInv'
  OBVIOUS
<1>1. GraphInv /\ KwsType /\ RingInv /\ StartsInv
  BY DEF KwsInv
<1>2. [Construct]_graph
  BY GraphStep
<1>3. GraphInv'
  BY <1>1, <1>2, GraphInvariance
<1> SUFFICES KwsType' /\ RingInv' /\ StartsInv'
  BY <1>3 DEF KwsInv
<1>4. ready => ready'
  BY <1>1, <1>2, ReadyStays
<1>5. clock \in Nat /\ clock + 1 \in Nat /\ polling \in BOOLEAN
  BY <1>1 DEF KwsType
<1>6. polling => ready' /\ Len(ring) >= Window
  BY <1>1, <1>4 DEF RingInv
<1>7. CASE UNCHANGED vars
  BY <1>1, <1>5, <1>6, <1>7, SameSession DEF vars
<1>8. CASE ConstructGraph
  BY <1>1, <1>5, <1>6, <1>8, SameSession DEF ConstructGraph
<1>9. ASSUME NEW frame \in Frames, PushAudio(frame) PROVE KwsType' /\ RingInv' /\ StartsInv'
  BY <1>1, <1>9, PushInv
<1>10. CASE Tick
  BY <1>1, <1>5, <1>6, <1>10, SameSession DEF Tick
<1>11. CASE PollBegins
  <2>1. polling' = TRUE /\ session' = session /\ clock' = clock /\ ready /\ Len(ring) >= Window
    BY <1>11 DEF PollBegins, Listening
  <2> QED
    BY <1>1, <1>4, <1>5, <2>1, SameSession
<1>12. CASE PollWindow
  BY <1>1, <1>12, WindowInv
<1>13. CASE PollNoFeatures
  BY <1>1, <1>13, NoFeaturesInv
<1>14. CASE PollFails
  BY <1>1, <1>5, <1>14, SameSession DEF PollFails
<1>15. CASE Reset
  BY <1>1, <1>15, ResetInv
<1> QED
  BY <1>7, <1>8, <1>9, <1>10, <1>11, <1>12, <1>13, <1>14, <1>15 DEF Next

\* The invariant holds at first.
LEMMA KwsBegins == Init => KwsInv
<1> SUFFICES ASSUME Init PROVE KwsInv
  OBVIOUS
<1>1. /\ ring = <<>> /\ consumed_samples_ = 0 /\ last_hit_ = NoHits
      /\ stream = <<>> /\ windows = <<>> /\ failed = FALSE
      /\ polling = FALSE /\ clock = 0
  BY DEF Init
<1>2. GraphInv
  BY GraphBegins DEF Init
<1>3. NoHits \in Lasts
  <2>1. NoHits \in [{} -> Nat]
    BY DEF NoHits
  <2> QED
    BY <2>1 DEF Lasts
<1>4. ring \in Seq(Frames) /\ stream \in Seq(Frames) /\ windows \in Seq(WindowRecord)
      /\ Len(stream) = 0 /\ Len(windows) = 0
  BY <1>1, EmptySeq
<1>5. KwsType
  <2>1. consumed_samples_ \in 0 .. Len(stream) /\ clock \in Nat
    BY <1>1, <1>4
  <2>2. polling \in BOOLEAN /\ failed \in BOOLEAN
    BY <1>1, Zenon
  <2> QED
    BY <1>1, <1>3, <1>4, <2>1, <2>2, Zenon DEF KwsType
<1>6. RingInv
  <2>1. SubSeq(<<>>, 0 + 1, 0) = <<>>
    OBVIOUS
  <2> QED
    BY <1>1, <1>4, <2>1 DEF RingInv
<1>7. OnHop(0)
  BY KwsAssumption DEF OnHop
<1>8. StartsInv
  BY <1>1, <1>4, <1>7, KwsAssumption DEF StartsInv
<1> QED
  BY <1>2, <1>5, <1>6, <1>8 DEF KwsInv

\* From the invariant: windows are slices of the stream, at hops, in order.
LEMMA StartsAre == KwsInv => WindowsOfStream
<1> SUFFICES ASSUME KwsInv PROVE WindowsOfStream
  OBVIOUS
<1>1. KwsType /\ RingInv /\ StartsInv
  BY DEF KwsInv
<1>2. DOMAIN windows = 1 .. Len(windows)
  BY <1>1 DEF KwsType
<1>3. \A i \in 1 .. Len(windows) : windows[i].start \in Nat
  BY <1>1, WindowsAre
<1>4. ASSUME NEW a \in Nat, NEW b \in Nat, Before(a, b) PROVE a < b
  BY <1>4, KwsAssumption DEF Before
<1>5. ASSUME NEW i \in 1 .. Len(windows), NEW j \in 1 .. Len(windows), i < j
      PROVE  windows[i].start < windows[j].start
  <2>1. Before(windows[i].start, windows[j].start)
    BY <1>1, <1>5 DEF StartsInv
  <2> QED
    BY <2>1, <1>3, <1>4
<1>6. ASSUME Hop <= Window, NEW i \in 1 .. Len(windows) PROVE windows[i].start % Hop = 0
  <2>1. PICK k \in Nat : windows[i].start = k * Hop
    BY <1>1, <1>6 DEF StartsInv, OnHop
  <2>2. \A h \in Nat : h > 0 => \A x \in Nat : (x * h) % h = 0
    OBVIOUS
  <2> QED
    BY <2>1, <2>2, KwsAssumption
<1>7. ASSUME Hop <= Window, ~failed, NEW i \in 1 .. Len(windows)
      PROVE  windows[i].start = (i - 1) * Hop
  BY <1>1, <1>7 DEF StartsInv
<1>8. ring = SubSeq(stream, consumed_samples_ + 1, Len(stream))
  BY <1>1 DEF RingInv
<1> QED
  BY <1>2, <1>5, <1>6, <1>7, <1>8 DEF WindowsOfStream

\* The graph, the ring and the windows are always as the invariant says: the trie and its
\* links while ContextGraph::Build is at it, the ring of features that PushAudio
\* fills and Poll empties, and where its windows start.
THEOREM KwsInvariant == Spec => []KwsInv
<1>1. Init => KwsInv
  BY KwsBegins
<1>2. KwsInv /\ [Next]_vars => KwsInv'
  BY KwsInvariance
<1> QED
  BY <1>1, <1>2, PTL DEF Spec

\* For every window and hop: what RSKws::Poll decodes are windows of the stream since the
\* reset, each later than the one before, and all those at every hop if nothing failed.
THEOREM WindowsAreOfStream == Spec => []WindowsOfStream
BY KwsInvariant, StartsAre, PTL

\* For all lists of keywords: what ContextGraph::Build builds, node by node, is the
\* automaton of the keywords, where a step leads to the longest beginning of a keyword that
\* the tokens end in and reports the longest keyword they end in.
THEOREM GraphIsThatOfKeywords == Spec => GraphIsAutomaton
<1>1. KwsInv' /\ ready' => IsAutomaton'
  <2>1. KwsInv /\ ready => IsAutomaton
    BY ReadyIsAutomaton DEF KwsInv
  <2> QED
    BY <2>1, PTL
<1>2. KwsInv' => [(~ready /\ ready') => IsAutomaton']_graph
  BY <1>1
<1> QED
  BY <1>2, KwsInvariant, PTL DEF GraphIsAutomaton

-----------------------------------------------------------------------------
(* What is to be found in frames does not change.                          *)

\* What is to be found, by the steps of the search.
SpottedBy(f) ==
    LET spot[i \in 0 .. Len(Emitted(f))] ==
            IF i = 0 THEN SpotBegin ELSE SpotStep(f, spot[i - 1], i)
    IN  spot[Len(Emitted(f))].hits

\* So it is in a state,
LEMMA SpottedBySteps == \A f : Spotted(f) = SpottedBy(f)
BY Zenon DEF Spotted, SpottedBy, SpotStep, SpotBegin

\* and in the next,
LEMMA SpottedByStepsNext == (\A f : Spotted(f) = SpottedBy(f))'
BY SpottedBySteps, PTL

\* and a step that leaves the keywords and the count of trailing blanks leaves it as it is.
LEMMA SpottedStays ==
    ASSUME keywords' = keywords, num_trailing_blanks' = num_trailing_blanks
    PROVE  \A f : Spotted(f)' = Spotted(f)
<1>1. KeywordIds' = KeywordIds
  BY DEF KeywordIds
<1>2. \A ids : EndingIn(KeywordIds, ids)' = EndingIn(KeywordIds, ids)
  BY <1>1, Zenon DEF EndingIn
<1>3. \A x : ThresholdOf(x)' = ThresholdOf(x)
  BY Zenon DEF ThresholdOf
<1>4. \A f, e, start, i, t : Confident(f, e, start, i, t)' <=> Confident(f, e, start, i, t)
  BY Zenon DEF Confident
<1>5. \A f, x, i : SpotStep(f, x, i)' = SpotStep(f, x, i)
  <2> SUFFICES ASSUME NEW f, NEW x, NEW i PROVE SpotStep(f, x, i)' = SpotStep(f, x, i)
    OBVIOUS
  <2>1. PICK e : e = Emitted(f)
    OBVIOUS
  <2>2. PICK w : w = SubSeq([k \in DOMAIN e |-> f[e[k]].id], x.from, i)
    OBVIOUS
  <2>3. PICK found : found = EndingIn(KeywordIds, w)
    OBVIOUS
  <2>4. EndingIn(KeywordIds, w)' = found
    BY <1>2, <2>3
  <2>5. PICK l : l = Longest(found)
    OBVIOUS
  <2>6. PICK start : start = i + 1 - Len(l)
    OBVIOUS
  <2>7. PICK t : t = ThresholdOf(l)
    OBVIOUS
  <2>8. ThresholdOf(l)' = t
    BY <1>3, <2>7
  <2>9. SpotStep(f, x, i) =
            IF found # {} /\ Confident(f, e, start, i, t)
            THEN [from |-> i + 1, hits |-> Append(x.hits, Hit(e, start, i, l))]
            ELSE x
    BY <2>1, <2>2, <2>3, <2>5, <2>6, <2>7, Zenon DEF SpotStep
  <2>10. SpotStep(f, x, i)' =
            IF found # {} /\ Confident(f, e, start, i, t)'
            THEN [from |-> i + 1, hits |-> Append(x.hits, Hit(e, start, i, l))]
            ELSE x
    BY <2>1, <2>2, <2>4, <2>5, <2>6, <2>8, Zenon DEF SpotStep
  <2> QED
    BY <1>4, <2>9, <2>10, Zenon
<1>6. \A f : SpottedBy(f)' = SpottedBy(f)
  BY <1>5, Zenon DEF SpottedBy
<1> QED
  BY <1>6, SpottedBySteps, SpottedByStepsNext, Zenon

-----------------------------------------------------------------------------
(* What is reported, and when.                                             *)

\* The phrases reported in a window, and that one is there but once.
PhrasesAt(i) == Phrases(windows[i].out)
OnceIn(out) == \A k, l \in 1 .. Len(out) : out[k].phrase = out[l].phrase => k = l

\* A phrase was reported last when last_hit_ says, and not shortly before it was
\* reported again, nor twice in a window.
ClockInv ==
    /\ \A p \in DOMAIN last_hit_ :
          /\ last_hit_[p] <= clock
          /\ \E j \in 1 .. Len(windows) : p \in PhrasesAt(j) /\ windows[j].at = last_hit_[p]
    /\ \A j \in 1 .. Len(windows) : \A p \in PhrasesAt(j) :
          p \in DOMAIN last_hit_ /\ windows[j].at <= last_hit_[p]
    /\ \A i, j \in 1 .. Len(windows) : i < j =>
          \A p \in PhrasesAt(i) \cap PhrasesAt(j) : windows[j].at - windows[i].at >= Debounce
    /\ Debounce > 0 => \A i \in 1 .. Len(windows) : OnceIn(windows[i].out)

\* Of hits to be found in a window, those reported, and the others shortly before.
Right(i, hits) ==
    /\ \A k \in 1 .. Len(windows[i].out) : \E m \in 1 .. Len(hits) : windows[i].out[k] = hits[m]
    /\ \A m \in 1 .. Len(hits) : \E j \in 1 .. i :
          (windows[i].at - windows[j].at < Debounce \/ j = i) /\ hits[m].phrase \in PhrasesAt(j)
\* So it is in every window.
ReportInv == \A i \in 1 .. Len(windows) : Right(i, Spotted(Heard(windows[i])))

\* What a step does to what is reported.
Quiet ==
    /\ windows' = windows /\ last_hit_' = last_hit_ /\ (clock' = clock \/ clock' = clock + 1)
    /\ stream' = stream \/ \E frame \in Frames : stream' = Append(stream, frame)

\* But for a window decoded and a reset, steps leave the windows and the clock alone.
LEMMA StepKinds == [Next]_vars => Quiet \/ PollWindow \/ Reset
<1> SUFFICES ASSUME [Next]_vars PROVE Quiet \/ PollWindow \/ Reset
  OBVIOUS
<1>1. session' = session =>
         windows' = windows /\ last_hit_' = last_hit_ /\ stream' = stream
  BY DEF session
<1>2. CASE UNCHANGED vars
  BY <1>1, <1>2 DEF vars, Quiet
<1>3. CASE ConstructGraph
  BY <1>1, <1>3 DEF ConstructGraph, Quiet
<1>4. ASSUME NEW frame \in Frames, PushAudio(frame) PROVE Quiet
  BY <1>4 DEF PushAudio, Quiet
<1>5. CASE Tick
  BY <1>1, <1>5 DEF Tick, Quiet
<1>6. CASE PollBegins
  BY <1>1, <1>6 DEF PollBegins, Quiet
<1>7. CASE PollNoFeatures
  BY <1>7 DEF PollNoFeatures, Quiet
<1>8. CASE PollFails
  BY <1>1, <1>8 DEF PollFails, Quiet
<1> QED
  BY <1>2, <1>3, <1>4, <1>5, <1>6, <1>7, <1>8 DEF Next

\* A window decoded.
LEMMA WindowAdded ==
    ASSUME KwsInv, PollWindow
    PROVE  \E m \in Nat : \E r, hits, w :
              /\ m = Len(windows) /\ Len(windows') = m + 1 /\ windows'[m + 1] = w
              /\ \A i \in 1 .. m : windows'[i] = windows[i]
              /\ w = [start |-> consumed_samples_, at |-> clock, out |-> r.out]
              /\ last_hit_' = r.last /\ clock' = clock /\ stream' = stream
              /\ hits = Spotted(Heard(w)) /\ hits \in Seq(HitsOf)
              /\ RunInv(r, hits, Len(hits))
<1>1. GraphInv /\ KwsType /\ RingInv
  BY DEF KwsInv
<1>2. polling /\ clock' = clock /\ stream' = stream
  BY DEF PollWindow
<1>3. PICK f : f = SubSeq(ring, 1, Window)
  OBVIOUS
<1>4. PICK hits : hits = DecodeGreedy(f)
  OBVIOUS
<1>5. PICK r : r = Report(hits)
  OBVIOUS
<1>6. /\ f = SubSeq(stream, consumed_samples_ + 1, consumed_samples_ + Window)
      /\ hits = Spotted(f) /\ hits \in Seq(HitsOf)
      /\ RunInv(r, hits, Len(hits)) /\ r.out \in Seq(HeardHits)
  BY <1>1, <1>2, <1>3, <1>4, <1>5, WindowIs
<1>7. PICK w : w = [start |-> consumed_samples_, at |-> clock, out |-> r.out]
  OBVIOUS
<1>8. last_hit_' = r.last /\ windows' = Append(windows, w)
  BY <1>3, <1>4, <1>5, <1>7, Zenon DEF PollWindow
<1>9. w \in WindowRecord /\ w.start = consumed_samples_
  BY <1>1, <1>6, <1>7 DEF WindowRecord, KwsType
<1>10. PICK m \in Nat : m = Len(windows)
  BY <1>1 DEF KwsType
<1>11. /\ Len(windows') = m + 1 /\ windows'[m + 1] = w
       /\ \A i \in 1 .. m : windows'[i] = windows[i]
  BY <1>1, <1>8, <1>9, <1>10, AppendIs DEF KwsType
<1>12. hits = Spotted(Heard(w))
  BY <1>6, <1>9 DEF Heard
<1> QED
  BY <1>2, <1>6, <1>7, <1>8, <1>10, <1>11, <1>12

\* Every step keeps what is said of the times of reports,
LEMMA ClockStep == KwsInv /\ ClockInv /\ [Next]_vars => ClockInv'
<1> SUFFICES ASSUME KwsInv, ClockInv, [Next]_vars PROVE ClockInv'
  OBVIOUS
<1>1. KwsType
  BY DEF KwsInv
<1>2. ASSUME NEW j \in 1 .. Len(windows)
      PROVE  windows[j].at \in Nat
  BY <1>1, WindowsAre
<1>3. clock \in Nat /\ \A p \in DOMAIN last_hit_ : last_hit_[p] \in Nat
  BY <1>1, LastsAre DEF KwsType
<1>4. /\ \A p \in DOMAIN last_hit_ :
            /\ last_hit_[p] <= clock
            /\ \E j \in 1 .. Len(windows) : p \in PhrasesAt(j) /\ windows[j].at = last_hit_[p]
      /\ \A j \in 1 .. Len(windows) : \A p \in PhrasesAt(j) :
            p \in DOMAIN last_hit_ /\ windows[j].at <= last_hit_[p]
      /\ \A i, j \in 1 .. Len(windows) : i < j =>
            \A p \in PhrasesAt(i) \cap PhrasesAt(j) : windows[j].at - windows[i].at >= Debounce
      /\ Debounce > 0 => \A i \in 1 .. Len(windows) : OnceIn(windows[i].out)
  BY DEF ClockInv
<1>5. CASE Quiet
  <2>1. windows' = windows /\ last_hit_' = last_hit_
    BY <1>5 DEF Quiet
  <2>2. \A p \in DOMAIN last_hit_ : last_hit_[p] <= clock'
    BY <1>3, <1>4, <1>5 DEF Quiet
  <2>3. \A j : PhrasesAt(j)' = PhrasesAt(j)
    BY <2>1 DEF PhrasesAt
  <2> QED
    BY <1>4, <2>1, <2>2, <2>3, Zenon DEF ClockInv
<1>6. CASE Reset
  <2>1. windows' = <<>> /\ last_hit_' = NoHits
    BY <1>6 DEF Reset
  <2>2. DOMAIN NoHits = {} /\ Len(<<>>) = 0
    BY DEF NoHits
  <2> QED
    BY <2>1, <2>2 DEF ClockInv
<1>7. CASE PollWindow
  <2>1. PICK m \in Nat : \E r, hits, w :
              /\ m = Len(windows) /\ Len(windows') = m + 1 /\ windows'[m + 1] = w
              /\ \A i \in 1 .. m : windows'[i] = windows[i]
              /\ w = [start |-> consumed_samples_, at |-> clock, out |-> r.out]
              /\ last_hit_' = r.last /\ clock' = clock /\ stream' = stream
              /\ hits = Spotted(Heard(w)) /\ hits \in Seq(HitsOf)
              /\ RunInv(r, hits, Len(hits))
    BY <1>7, WindowAdded
  <2>2. PICK r, hits, w :
              /\ m = Len(windows) /\ Len(windows') = m + 1 /\ windows'[m + 1] = w
              /\ \A i \in 1 .. m : windows'[i] = windows[i]
              /\ w = [start |-> consumed_samples_, at |-> clock, out |-> r.out]
              /\ last_hit_' = r.last /\ clock' = clock /\ stream' = stream
              /\ hits = Spotted(Heard(w)) /\ hits \in Seq(HitsOf)
              /\ RunInv(r, hits, Len(hits))
    BY <2>1
  <2>3. PICK last : last = r.last
    OBVIOUS
  <2>4. PICK out : out = r.out
    OBVIOUS
  <2>5. /\ DOMAIN last_hit_ \subseteq DOMAIN last
        /\ \A p \in DOMAIN last : \/ p \in DOMAIN last_hit_ /\ last[p] = last_hit_[p]
                                  \/ last[p] = clock /\ p \in Phrases(out)
        /\ \A p \in Phrases(out) : /\ p \in DOMAIN last /\ last[p] = clock
                                   /\ p \in DOMAIN last_hit_ => clock - last_hit_[p] >= Debounce
        /\ Debounce > 0 => OnceIn(out)
    BY <2>2, <2>3, <2>4 DEF RunInv, Reported, Spaced, OnceIn
  <2>6. w.at = clock /\ w.out = out
    BY <2>2, <2>4
  <2>7. last_hit_' = last /\ clock' = clock
    BY <2>2, <2>3
  <2>8. ASSUME NEW j \in 1 .. m PROVE PhrasesAt(j)' = PhrasesAt(j) /\ windows'[j] = windows[j]
    BY <2>2 DEF PhrasesAt
  <2>9. PhrasesAt(m + 1)' = Phrases(out) /\ windows'[m + 1].at = clock /\ windows'[m + 1].out = out
    <3>1. windows'[m + 1] = w
      BY <2>2
    <3> QED
      BY <2>6, <3>1, Zenon DEF PhrasesAt
  <2>10. \A j \in 1 .. m + 1 : j \in 1 .. m \/ j = m + 1
    OBVIOUS
  <2>11. 1 .. m \subseteq 1 .. m + 1 /\ m + 1 \in 1 .. m + 1 /\ m = Len(windows)
    BY <2>2
  <2>12. ASSUME NEW p \in DOMAIN last
         PROVE  /\ last[p] <= clock
                /\ \E j \in 1 .. m + 1 : p \in PhrasesAt(j)' /\ windows'[j].at = last[p]
    <3>1. CASE p \in DOMAIN last_hit_ /\ last[p] = last_hit_[p]
      <4>1. PICK j \in 1 .. m : p \in PhrasesAt(j) /\ windows[j].at = last_hit_[p]
        BY <3>1, <1>4, <2>11
      <4>2. p \in PhrasesAt(j)' /\ windows'[j].at = last[p] /\ j \in 1 .. m + 1
        BY <3>1, <4>1, <2>8, <2>11
      <4> QED
        BY <3>1, <4>2, <1>4
    <3>2. CASE last[p] = clock /\ p \in Phrases(out)
      <4>1. p \in PhrasesAt(m + 1)' /\ windows'[m + 1].at = last[p]
        BY <3>2, <2>9
      <4> QED
        BY <3>2, <4>1, <2>11, <1>3
    <3> QED
      BY <3>1, <3>2, <2>5
  <2>13. ASSUME NEW j \in 1 .. m + 1, NEW p \in PhrasesAt(j)'
         PROVE  p \in DOMAIN last /\ windows'[j].at <= last[p]
    <3>1. CASE j = m + 1
      <4>1. p \in Phrases(out)
        BY <3>1, <2>9, <2>13
      <4> QED
        BY <3>1, <4>1, <2>5, <2>9, <1>3
    <3>2. CASE j \in 1 .. m
      <4>1. p \in PhrasesAt(j) /\ windows'[j].at = windows[j].at
        BY <3>2, <2>8, <2>13
      <4>2. p \in DOMAIN last_hit_ /\ windows[j].at <= last_hit_[p] /\ last_hit_[p] <= clock
        BY <3>2, <4>1, <1>4, <2>11
      <4>3. windows[j].at \in Nat /\ last_hit_[p] \in Nat
        BY <3>2, <4>2, <1>2, <1>3, <2>11
      <4>4. p \in DOMAIN last /\ (last[p] = last_hit_[p] \/ last[p] = clock)
        BY <4>2, <2>5
      <4> QED
        BY <4>1, <4>2, <4>3, <4>4, <1>3
    <3> QED
      BY <3>1, <3>2, <2>10
  <2>14. ASSUME NEW i \in 1 .. m + 1, NEW j \in 1 .. m + 1, i < j,
                NEW p \in PhrasesAt(i)' \cap PhrasesAt(j)'
         PROVE  windows'[j].at - windows'[i].at >= Debounce
    <3>1. i \in 1 .. m /\ p \in PhrasesAt(i) /\ windows'[i].at = windows[i].at
      <4>1. i \in 1 .. m
        BY <2>14
      <4> QED
        BY <4>1, <2>8, <2>14
    <3>2. CASE j = m + 1
      <4>1. p \in Phrases(out) /\ windows'[j].at = clock
        BY <3>2, <2>9, <2>14
      <4>2. p \in DOMAIN last_hit_ /\ windows[i].at <= last_hit_[p]
        BY <3>1, <1>4, <2>11
      <4>3. clock - last_hit_[p] >= Debounce
        BY <4>1, <4>2, <2>5
      <4>4. windows[i].at \in Nat /\ last_hit_[p] \in Nat
        BY <3>1, <4>2, <1>2, <1>3, <2>11
      <4> QED
        BY <3>1, <4>1, <4>2, <4>3, <4>4, <1>3, KwsAssumption
    <3>3. CASE j \in 1 .. m
      <4>1. p \in PhrasesAt(j) /\ windows'[j].at = windows[j].at
        BY <3>3, <2>8, <2>14
      <4> QED
        BY <3>1, <3>3, <4>1, <1>4, <2>11, <2>14
    <3> QED
      BY <3>2, <3>3, <2>10
  <2>15. ASSUME Debounce > 0, NEW i \in 1 .. m + 1 PROVE OnceIn(windows'[i].out)
    <3>1. CASE i = m + 1
      BY <3>1, <2>5, <2>9, <2>15
    <3>2. CASE i \in 1 .. m
      BY <3>2, <1>4, <2>8, <2>11, <2>15
    <3> QED
      BY <3>1, <3>2, <2>10
  <2>16. Len(windows') = m + 1
    BY <2>2
  <2> QED
    BY <2>7, <2>12, <2>13, <2>14, <2>15, <2>16, Zenon DEF ClockInv
<1> QED
  BY <1>5, <1>6, <1>7, StepKinds

\* More frames leave those of a window.
LEMMA HeardStays ==
    ASSUME KwsType, NEW i \in 1 .. Len(windows), windows[i].start + Window <= Len(stream),
           stream' = stream \/ \E frame \in Frames : stream' = Append(stream, frame)
    PROVE  /\ SubSeq(stream', windows[i].start + 1, windows[i].start + Window) = Heard(windows[i])
           /\ Heard(windows[i]) \in Seq(Frames)
<1>1. PICK c \in Nat : c = windows[i].start
  BY WindowsAre
<1>2. stream \in Seq(Frames) /\ Window \in Nat /\ c + Window <= Len(stream)
  BY <1>1, KwsAssumption DEF KwsType
<1>3. ASSUME NEW frame \in Frames
      PROVE  SubSeq(Append(stream, frame), c + 1, c + Window) = SubSeq(stream, c + 1, c + Window)
  BY <1>2, SliceOfAppend
<1>4. SubSeq(stream, c + 1, c + Window) \in Seq(Frames)
  BY <1>2, SliceIs
<1>5. Heard(windows[i]) = SubSeq(stream, c + 1, c + Window)
  BY <1>1, Zenon DEF Heard
<1>6. SubSeq(stream', c + 1, c + Window) = SubSeq(stream, c + 1, c + Window)
  <2>1. CASE stream' = stream
    BY <2>1
  <2>2. ASSUME NEW frame \in Frames, stream' = Append(stream, frame)
        PROVE  SubSeq(stream', c + 1, c + Window) = SubSeq(stream, c + 1, c + Window)
    <3>1. SubSeq(Append(stream, frame), c + 1, c + Window) = SubSeq(stream, c + 1, c + Window)
      BY <1>3
    <3> QED
      BY <2>2, <3>1, Zenon
  <2> QED
    BY <2>1, <2>2
<1> QED
  BY <1>1, <1>4, <1>5, <1>6

\* and what is said of the hits reported.
LEMMA ReportsStep == KwsInv /\ ClockInv /\ ReportInv /\ [Next]_vars => ReportInv'
<1> SUFFICES ASSUME KwsInv, ClockInv, ReportInv, [Next]_vars PROVE ReportInv'
  OBVIOUS
<1>1. KwsType /\ \A i \in 1 .. Len(windows) : windows[i].start + Window <= Len(stream)
  BY DEF KwsInv, StartsInv
<1>2. \A f : Spotted(f)' = Spotted(f)
  BY GraphStep, SpottedStays
<1>3. ASSUME NEW i \in 1 .. Len(windows), windows'[i] = windows[i],
             stream' = stream \/ \E frame \in Frames : stream' = Append(stream, frame)
      PROVE  Spotted(Heard(windows[i]))' = Spotted(Heard(windows[i]))
  <2>1. PICK f : f = Heard(windows[i])
    OBVIOUS
  <2>2. SubSeq(stream', windows[i].start + 1, windows[i].start + Window) = f
    BY <1>1, <1>3, <2>1, HeardStays
  <2>3. Heard(windows[i])' = f
    BY <1>3, <2>2, Zenon DEF Heard
  <2> QED
    BY <1>2, <2>1, <2>3, Zenon
<1>4. CASE Quiet
  <2>1. windows' = windows
    BY <1>4 DEF Quiet
  <2>2. ASSUME NEW i \in 1 .. Len(windows)
        PROVE  Right(i, Spotted(Heard(windows[i])))'
    <3>1. Spotted(Heard(windows[i]))' = Spotted(Heard(windows[i]))
      BY <1>3, <1>4, <2>1 DEF Quiet
    <3>2. PICK hits : hits = Spotted(Heard(windows[i]))
      OBVIOUS
    <3>3. Right(i, hits)
      BY <3>2 DEF ReportInv
    <3>4. \A j : PhrasesAt(j)' = PhrasesAt(j)
      BY <2>1 DEF PhrasesAt
    <3>5. Right(i, hits)'
      BY <2>1, <3>3, <3>4, Zenon DEF Right
    <3> QED
      BY <3>1, <3>2, <3>5, Zenon
  <2> QED
    BY <2>1, <2>2, Zenon DEF ReportInv
<1>5. CASE Reset
  <2>1. windows' = <<>>
    BY <1>5 DEF Reset
  <2> QED
    BY <2>1 DEF ReportInv
<1>6. CASE PollWindow
  <2>1. PICK m \in Nat : \E r, hits, w :
              /\ m = Len(windows) /\ Len(windows') = m + 1 /\ windows'[m + 1] = w
              /\ \A i \in 1 .. m : windows'[i] = windows[i]
              /\ w = [start |-> consumed_samples_, at |-> clock, out |-> r.out]
              /\ last_hit_' = r.last /\ clock' = clock /\ stream' = stream
              /\ hits = Spotted(Heard(w)) /\ hits \in Seq(HitsOf)
              /\ RunInv(r, hits, Len(hits))
    BY <1>6, WindowAdded
  <2>2. PICK r, hits, w :
              /\ m = Len(windows) /\ Len(windows') = m + 1 /\ windows'[m + 1] = w
              /\ \A i \in 1 .. m : windows'[i] = windows[i]
              /\ w = [start |-> consumed_samples_, at |-> clock, out |-> r.out]
              /\ last_hit_' = r.last /\ clock' = clock /\ stream' = stream
              /\ hits = Spotted(Heard(w)) /\ hits \in Seq(HitsOf)
              /\ RunInv(r, hits, Len(hits))
    BY <2>1
  <2>3. PICK out : out = r.out
    OBVIOUS
  <2>4. /\ \A k \in 1 .. Len(out) : \E n \in 1 .. Len(hits) : out[k] = hits[n]
        /\ \A n \in 1 .. Len(hits) : \/ hits[n].phrase \in Phrases(out)
                                     \/ /\ hits[n].phrase \in DOMAIN last_hit_
                                        /\ clock - last_hit_[hits[n].phrase] < Debounce
    BY <2>2, <2>3 DEF RunInv, NoneLost
  <2>5. w.at = clock /\ w.out = out
    BY <2>2, <2>3
  <2>6. ASSUME NEW j \in 1 .. m PROVE PhrasesAt(j)' = PhrasesAt(j) /\ windows'[j] = windows[j]
    BY <2>2 DEF PhrasesAt
  <2>7. windows'[m + 1] = w
    BY <2>2
  <2>8. PhrasesAt(m + 1)' = Phrases(out) /\ windows'[m + 1].at = clock /\ windows'[m + 1].out = out
    BY <2>5, <2>7, Zenon DEF PhrasesAt
  <2>9. \A j \in 1 .. m + 1 : j \in 1 .. m \/ j = m + 1
    OBVIOUS
  <2>10. 1 .. m \subseteq 1 .. m + 1 /\ m + 1 \in 1 .. m + 1 /\ m = Len(windows)
    BY <2>2
  <2>11. stream' = stream /\ hits = Spotted(Heard(w)) /\ Len(windows') = m + 1
    BY <2>2
  <2>12. ASSUME NEW i \in 1 .. m PROVE Right(i, Spotted(Heard(windows[i])))'
    <3>1. Spotted(Heard(windows[i]))' = Spotted(Heard(windows[i]))
      BY <1>3, <2>6, <2>10, <2>11
    <3>2. PICK found : found = Spotted(Heard(windows[i]))
      OBVIOUS
    <3>3. Right(i, found)
      BY <2>10, <3>2 DEF ReportInv
    <3>4. \A j \in 1 .. i : j \in 1 .. m
      OBVIOUS
    <3>5. \A j \in 1 .. i : PhrasesAt(j)' = PhrasesAt(j) /\ windows'[j].at = windows[j].at
      BY <2>6, <3>4
    <3>6. windows'[i] = windows[i]
      BY <2>6
    <3>7. Right(i, found)'
      BY <3>3, <3>5, <3>6, Zenon DEF Right
    <3> QED
      BY <3>1, <3>2, <3>7, Zenon
  <2>13. Right(m + 1, Spotted(Heard(windows[m + 1])))'
    <3>1. Heard(windows[m + 1])' = Heard(w)
      BY <2>7, <2>11, Zenon DEF Heard
    <3>2. Spotted(Heard(windows[m + 1]))' = hits
      BY <1>2, <2>11, <3>1, Zenon
    <3>3. ASSUME NEW n \in 1 .. Len(hits)
          PROVE  \E j \in 1 .. m + 1 : /\ clock - windows'[j].at < Debounce \/ j = m + 1
                                       /\ hits[n].phrase \in PhrasesAt(j)'
      <4>1. CASE hits[n].phrase \in Phrases(out)
        BY <4>1, <2>8, <2>10
      <4>2. CASE /\ hits[n].phrase \in DOMAIN last_hit_
                 /\ clock - last_hit_[hits[n].phrase] < Debounce
        <5>1. PICK j \in 1 .. m : /\ hits[n].phrase \in PhrasesAt(j)
                                  /\ windows[j].at = last_hit_[hits[n].phrase]
          BY <4>2, <2>10 DEF ClockInv
        <5> QED
          BY <4>2, <5>1, <2>6, <2>10
      <4> QED
        BY <4>1, <4>2, <2>4
    <3>4. Right(m + 1, hits)'
      BY <2>4, <2>8, <3>3, Zenon DEF Right
    <3> QED
      BY <3>2, <3>4, Zenon
  <2> QED
    BY <2>9, <2>11, <2>12, <2>13, Zenon DEF ReportInv
<1> QED
  BY <1>4, <1>5, <1>6, StepKinds

-----------------------------------------------------------------------------
(* All is reported, and once.                                              *)

\* All that is to be found in a window is reported, in it or shortly before.
LEMMA AllReports == KwsInv /\ ClockInv /\ ReportInv => ReportsTheSpotted
<1> SUFFICES ASSUME KwsInv, ClockInv, ReportInv, NEW i \in DOMAIN windows
      PROVE  /\ \A hit \in ToSet(windows[i].out) : hit \in ToSet(Spotted(Heard(windows[i])))
             /\ \A hit \in ToSet(Spotted(Heard(windows[i]))) :
                   \E j \in 1 .. i : /\ windows[i].at - windows[j].at < Debounce \/ j = i
                                     /\ \E out \in ToSet(windows[j].out) : out.phrase = hit.phrase
  BY DEF ReportsTheSpotted
<1>1. GraphInv /\ KwsType
  BY DEF KwsInv
<1>2. DOMAIN windows = 1 .. Len(windows) /\ i \in 1 .. Len(windows)
  BY <1>1 DEF KwsType
<1>3. PICK hits : hits = Spotted(Heard(windows[i]))
  OBVIOUS
<1>4. Right(i, hits)
  BY <1>2, <1>3 DEF ReportInv
<1>5. hits \in Seq(HitRecord(Heard(windows[i])))
  <2>1. Heard(windows[i]) \in Seq(Frames)
    <3>1. windows[i].start + Window <= Len(stream)
      BY <1>2 DEF KwsInv, StartsInv
    <3>2. PICK c \in Nat : c = windows[i].start
      BY <1>1, <1>2, WindowsAre
    <3>3. stream \in Seq(Frames) /\ Window \in Nat
      BY <1>1, KwsAssumption DEF KwsType
    <3>4. SubSeq(stream, c + 1, c + Window) \in Seq(Frames)
      BY <3>1, <3>2, <3>3, SliceIs
    <3> QED
      BY <3>2, <3>4 DEF Heard
  <2> QED
    BY <1>1, <1>3, <2>1, SpottedType, KwsAssumption
<1>6. ToSet(hits) = {hits[m] : m \in 1 .. Len(hits)}
  BY <1>5, ToSetIs
<1>7. ASSUME NEW j \in 1 .. Len(windows)
      PROVE  ToSet(windows[j].out) = {windows[j].out[k] : k \in 1 .. Len(windows[j].out)}
  <2>1. windows[j].out \in Seq(HeardHits)
    BY <1>1, WindowsAre
  <2> QED
    BY <2>1, ToSetIs
<1>8. ASSUME NEW hit \in ToSet(windows[i].out) PROVE hit \in ToSet(hits)
  <2>1. PICK k \in 1 .. Len(windows[i].out) : hit = windows[i].out[k]
    BY <1>2, <1>7
  <2> QED
    BY <2>1, <1>4, <1>6 DEF Right
<1>9. ASSUME NEW hit \in ToSet(hits)
      PROVE  \E j \in 1 .. i : /\ windows[i].at - windows[j].at < Debounce \/ j = i
                               /\ \E out \in ToSet(windows[j].out) : out.phrase = hit.phrase
  <2>1. PICK m \in 1 .. Len(hits) : hit = hits[m]
    BY <1>6
  <2>2. PICK j \in 1 .. i : /\ windows[i].at - windows[j].at < Debounce \/ j = i
                            /\ hits[m].phrase \in PhrasesAt(j)
    BY <1>4 DEF Right
  <2>3. j \in 1 .. Len(windows)
    BY <1>2
  <2>4. PICK k \in 1 .. Len(windows[j].out) : windows[j].out[k].phrase = hits[m].phrase
    BY <2>2 DEF PhrasesAt, Phrases
  <2>5. windows[j].out[k] \in ToSet(windows[j].out)
    BY <1>7, <2>3, <2>4
  <2> QED
    BY <2>1, <2>2, <2>4, <2>5
<1> QED
  BY <1>3, <1>8, <1>9

\* Hops that are not a window apart are not more than Overlap apart.
LEMMA WithinOverlap ==
    ASSUME Hop <= Window, NEW a \in Nat, NEW b \in Nat, OnHop(a), OnHop(b), a < b, b - a < Window
    PROVE  b - a <= Overlap
<1>1. PICK k \in Nat : a = k * Hop
  BY DEF OnHop
<1>2. PICK l \in Nat : b = l * Hop
  BY DEF OnHop
<1>3. Hop \in Nat /\ Hop > 0 /\ Window \in Nat /\ Window > 0 /\ Window - 1 \in Nat
  BY KwsAssumption
<1>4. k < l /\ b - a = Hop * (l - k)
  BY <1>1, <1>2, <1>3
<1>5. PICK d \in Nat : d = l - k
  <2>1. l - k \in Nat
    BY <1>4
  <2> QED
    BY <2>1
<1>6. PICK w \in Nat : w = Window - 1
  BY <1>3
<1>7. Hop * d <= w
  BY <1>3, <1>4, <1>5, <1>6
<1>8. \A h \in Nat : h > 0 => \A x, y \in Nat : h * x <= y => h * x <= h * (y \div h)
  OBVIOUS
<1>9. Hop * d <= Hop * (w \div Hop)
  BY <1>3, <1>7, <1>8
<1> QED
  BY <1>4, <1>5, <1>6, <1>9 DEF Overlap

\* Overlap is a natural number.
LEMMA OverlapIs == Overlap \in Int /\ Overlap >= 0
<1>1. Hop \in Nat /\ Hop > 0 /\ Window - 1 \in Nat
  BY KwsAssumption
<1>2. \A h \in Nat : h > 0 => \A y \in Nat : h * (y \div h) \in Nat
  OBVIOUS
<1>3. Hop * ((Window - 1) \div Hop) \in Nat
  BY <1>1, <1>2
<1> QED
  BY <1>3 DEF Overlap

\* Windows that share a frame are not more than Overlap apart: a phrase is in one of them.
LEMMA AllOnce == KwsInv /\ ClockInv => SaidOnce
<1> SUFFICES ASSUME KwsInv, ClockInv, InTime, Debounce > Overlap,
                    NEW a \in Reports, NEW b \in Reports,
                    windows[a[1]].out[a[2]].phrase = windows[b[1]].out[b[2]].phrase,
                    windows[a[1]].start + windows[a[1]].out[a[2]].last_frame
                     = windows[b[1]].start + windows[b[1]].out[b[2]].last_frame
             PROVE  a = b
  BY DEF SaidOnce, EachOnce
<1>1. KwsType /\ StartsInv
  BY DEF KwsInv
<1>2. DOMAIN windows = 1 .. Len(windows)
  BY <1>1 DEF KwsType
<1>3. Window \in Nat /\ Window >= 1 /\ Hop \in Nat /\ Hop >= 1 /\ Debounce \in Nat
  BY KwsAssumption
<1>4. Debounce > 0
  BY <1>3, OverlapIs
<1>5. ASSUME NEW i \in 1 .. Len(windows), NEW k \in 1 .. Len(windows[i].out)
      PROVE  /\ windows[i].out[k].last_frame \in 1 .. Window
             /\ windows[i].out[k].phrase \in PhrasesAt(i)
  <2>1. windows[i].out \in Seq(HeardHits)
    BY <1>1, WindowsAre
  <2>2. windows[i].out[k] \in HeardHits
    BY <2>1
  <2>3. windows[i].out[k].last_frame \in 1 .. Window
    BY <2>2 DEF HeardHits
  <2> QED
    BY <2>3 DEF PhrasesAt, Phrases
<1>6. ASSUME NEW i \in 1 .. Len(windows), NEW j \in 1 .. Len(windows), i < j,
             NEW k \in 1 .. Len(windows[i].out), NEW l \in 1 .. Len(windows[j].out),
             windows[i].out[k].phrase = windows[j].out[l].phrase,
             windows[i].start + windows[i].out[k].last_frame
              = windows[j].start + windows[j].out[l].last_frame
      PROVE  FALSE
  <2>1. PICK s \in Nat : s = windows[i].start
    BY <1>1, WindowsAre
  <2>2. PICK t \in Nat : t = windows[j].start
    BY <1>1, WindowsAre
  <2>3. PICK x \in 1 .. Window : x = windows[i].out[k].last_frame
    BY <1>5
  <2>4. PICK y \in 1 .. Window : y = windows[j].out[l].last_frame
    BY <1>5
  <2>5. s + x = t + y
    BY <1>6, <2>1, <2>2, <2>3, <2>4
  <2>6. t - s < Window
    BY <1>3, <2>5
  <2>7. windows[i].at = s + Window /\ windows[j].at = t + Window
    BY <1>2, <2>1, <2>2 DEF InTime
  <2>8. windows[j].at - windows[i].at >= Debounce
    <3>1. windows[i].out[k].phrase \in PhrasesAt(i) \cap PhrasesAt(j)
      BY <1>5, <1>6
    <3> QED
      BY <1>6, <3>1 DEF ClockInv
  <2>9. t - s >= Debounce
    BY <1>3, <2>7, <2>8
  <2>10. Before(s, t)
    BY <1>1, <1>6, <2>1, <2>2 DEF StartsInv
  <2>11. CASE Hop <= Window
    <3>1. s < t
      BY <2>10, <2>11 DEF Before
    <3>2. OnHop(s) /\ OnHop(t)
      BY <1>1, <2>1, <2>2, <2>11 DEF StartsInv
    <3>3. t - s <= Overlap
      BY <2>6, <2>11, <3>1, <3>2, WithinOverlap
    <3> QED
      BY <1>3, <2>9, <3>3, OverlapIs
  <2>12. CASE ~(Hop <= Window)
    <3>1. s + Window <= t
      BY <2>10, <2>12 DEF Before
    <3> QED
      BY <1>3, <2>6, <3>1
  <2> QED
    BY <2>11, <2>12
<1>7. ASSUME NEW x \in Reports
       PROVE  \E i \in 1 .. Len(windows) : \E k \in DOMAIN windows[i].out : x = <<i, k>>
  <2>1. PICK i \in DOMAIN windows : x \in {<<i, k>> : k \in DOMAIN windows[i].out}
    BY Zenon DEF Reports
  <2> QED
    BY <1>2, <2>1
<1>8. PICK i \in 1 .. Len(windows) : \E k \in DOMAIN windows[i].out : a = <<i, k>>
  BY <1>7
<1>9. PICK k \in DOMAIN windows[i].out : a = <<i, k>>
  BY <1>8
<1>10. PICK j \in 1 .. Len(windows) : \E l \in DOMAIN windows[j].out : b = <<j, l>>
  BY <1>7
<1>11. PICK l \in DOMAIN windows[j].out : b = <<j, l>>
  BY <1>10
<1>12. k \in 1 .. Len(windows[i].out) /\ l \in 1 .. Len(windows[j].out)
  <2>1. windows[i].out \in Seq(HeardHits) /\ windows[j].out \in Seq(HeardHits)
    BY <1>1, WindowsAre
  <2> QED
    BY <2>1
<1>13. /\ windows[i].out[k].phrase = windows[j].out[l].phrase
       /\ windows[i].start + windows[i].out[k].last_frame
           = windows[j].start + windows[j].out[l].last_frame
  BY <1>9, <1>11
<1>14. ~(i < j) /\ ~(j < i)
  BY <1>6, <1>12, <1>13
<1>15. i = j
  BY <1>14
<1>16. OnceIn(windows[i].out)
  BY <1>4 DEF ClockInv
<1>17. k = l
  BY <1>12, <1>13, <1>15, <1>16 DEF OnceIn
<1> QED
  BY <1>15, <1>17, <1>9, <1>11

\* At first nothing is reported.
LEMMA ClockBegins == Init => ClockInv /\ ReportInv
<1> SUFFICES ASSUME Init PROVE ClockInv /\ ReportInv
  OBVIOUS
<1>1. windows = <<>> /\ last_hit_ = NoHits
  BY DEF Init
<1>2. DOMAIN NoHits = {} /\ Len(<<>>) = 0
  BY DEF NoHits
<1> QED
  BY <1>1, <1>2 DEF ClockInv, ReportInv

\* What was reported in every window, and when, is always as the two invariants say.
THEOREM ReportsInvariant == Spec => [](ClockInv /\ ReportInv)
<1>1. Init => KwsInv /\ ClockInv /\ ReportInv
  BY KwsBegins, ClockBegins
<1>2. KwsInv /\ ClockInv /\ ReportInv /\ [Next]_vars => (ClockInv /\ ReportInv)'
  BY ClockStep, ReportsStep
<1> QED
  BY <1>1, <1>2, KwsInvariant, PTL DEF Spec

\* For all keywords, windows and debounce times: a keyword that is in the frames of a window
\* is reported by RSKws::Poll in that window, or was within the debounce time before it.
THEOREM SpottedAreReported == Spec => []ReportsTheSpotted
BY KwsInvariant, ReportsInvariant, AllReports, PTL

\* For all keywords, windows and hops: where the debounce time is longer than windows that
\* share a frame are apart, and polls come in time, one utterance is reported once by Poll.
THEOREM KeywordsSaidOnce == Spec => []SaidOnce
BY KwsInvariant, ReportsInvariant, AllOnce, PTL

-----------------------------------------------------------------------------
(* Sums of lengths.                                                        *)

\* The sum of the lengths of a set of words.
SumLen(S) == MapThenSumSet(Len, S)

\* f has the sums of all subsets of S, by way of one of their words.
One(s) == CHOOSE x \in s : TRUE
SumsOf(f, S) ==
    f = [s \in SUBSET S |-> IF s = {} THEN 0 ELSE Len(One(s)) + f[s \ {One(s)}]]

\* It is a sum by way of one word after the other.
LEMMA SumLenIs ==
    \A S : SumLen(S) =
        LET iter[s \in SUBSET S] == IF s = {} THEN 0 ELSE Len(One(s)) + iter[s \ {One(s)}]
        IN  iter[S]
BY Zenon DEF SumLen, MapThenSumSet, MapThenFoldSet, One

\* A word less.
LEMMA OneLess ==
    ASSUME NEW S, IsFiniteSet(S), NEW s \in SUBSET S, NEW x \in s
    PROVE  /\ s \ {x} \in SUBSET S /\ Cardinality(s) \in Nat /\ Cardinality(s) > 0
           /\ Cardinality(s \ {x}) = Cardinality(s) - 1
<1>1. IsFiniteSet(s)
  BY FS_Subset
<1>2. Cardinality(s) \in Nat /\ Cardinality(s \ {x}) \in Nat
  BY <1>1, FS_CardinalityType, FS_RemoveElement
<1>3. Cardinality(s \ {x}) = Cardinality(s) - 1
  BY <1>1, FS_RemoveElement
<1> QED
  BY <1>2, <1>3

\* Which word there is in a set.
LEMMA OneIs == \A s : s # {} => One(s) \in s
BY DEF One

\* The sums are numbers.
LEMMA SumsAreNumbers ==
    ASSUME NEW S, IsFiniteSet(S), S \subseteq Ids, NEW f,
           \A s \in SUBSET S : f[s] = IF s = {} THEN 0 ELSE Len(One(s)) + f[s \ {One(s)}]
    PROVE  \A s \in SUBSET S : f[s] \in Nat
<1> DEFINE T == {n \in Nat : \A s \in SUBSET S : Cardinality(s) = n => f[s] \in Nat}
<1>1. 0 \in T
  <2>1. ASSUME NEW s \in SUBSET S, Cardinality(s) = 0 PROVE s = {}
    BY <2>1, FS_Subset, FS_EmptySet
  <2> QED
    BY <2>1
<1>2. ASSUME NEW n \in Nat, n \in T PROVE n + 1 \in T
  <2> SUFFICES ASSUME NEW s \in SUBSET S, Cardinality(s) = n + 1 PROVE f[s] \in Nat
    OBVIOUS
  <2>1. CASE s = {}
    <3>1. f[s] = 0
      BY <2>1, Zenon
    <3> QED
      BY <3>1
  <2>2. CASE s # {}
    <3>1. One(s) \in s
      BY <2>2, OneIs
    <3>2. PICK x \in s : x = One(s)
      BY <3>1
    <3>3. s \ {x} \in SUBSET S /\ Cardinality(s \ {x}) = n
      BY OneLess
    <3>4. f[s \ {x}] \in Nat
      BY <3>3, <1>2
    <3>5. Len(x) \in Nat
      BY DEF Ids
    <3>6. f[s] = Len(x) + f[s \ {x}]
      BY <2>2, <3>2
    <3> QED
      BY <3>4, <3>5, <3>6
  <2> QED
    BY <2>1, <2>2
<1> HIDE DEF T
<1>3. \A n \in Nat : n \in T
  BY <1>1, <1>2, Induction, Zenon
<1> SUFFICES ASSUME NEW s \in SUBSET S PROVE f[s] \in Nat
  OBVIOUS
<1>4. Cardinality(s) \in Nat
  BY FS_Subset, FS_CardinalityType
<1> QED
  BY <1>3, <1>4 DEF T

\* There is such a function.
LEMMA SumsExist ==
    ASSUME NEW S, IsFiniteSet(S), S \subseteq Ids
    PROVE  \E f : SumsOf(f, S)
<1> DEFINE N == SUBSET S
           stop == {{}}
           rank == [s \in N |-> Cardinality(s)]
           base == [s \in N |-> 0]
           next == [s \in N |-> s \ {One(s)}]
           step == [x \in N \X Nat |-> Len(One(x[1])) + x[2]]
<1>1. rank \in [N -> Nat]
  BY FS_Subset, FS_CardinalityType
<1>2. ASSUME NEW s \in N, s \notin stop
      PROVE  next[s] \in N /\ rank[next[s]] < rank[s]
  <2>1. One(s) \in s
    BY <1>2, OneIs
  <2>2. PICK x \in s : x = One(s)
    BY <2>1
  <2>3. s \ {x} \in N /\ Cardinality(s) \in Nat /\ Cardinality(s \ {x}) = Cardinality(s) - 1
    BY OneLess
  <2> QED
    BY <2>2, <2>3
<1>3. Descends(N, rank, next, stop)
  BY <1>2 DEF Descends
<1>4. \A s \in N : next[s] = s \ {One(s)} /\ base[s] = 0
  OBVIOUS
<1>5. \A s \in N : \A n \in Nat : step[<<s, n>>] = Len(One(s)) + n
  OBVIOUS
<1>6. /\ \A s : s \in stop <=> s = {}
  OBVIOUS
<1> HIDE DEF N, stop, rank, base, next, step
<1>7. PICK f : RecursBy(f, N, next, stop, base, step)
  BY <1>1, <1>3, RecursionByExists, Zenon
<1>8. \A s \in N : f[s] = IF s \in stop THEN base[s] ELSE step[<<s, f[next[s]]>>]
  BY <1>7, Zenon DEF RecursBy
<1> DEFINE T == {n \in Nat : \A s \in SUBSET S : Cardinality(s) = n =>
                    f[s] \in Nat /\ f[s] = IF s = {} THEN 0 ELSE Len(One(s)) + f[s \ {One(s)}]}
<1>9. 0 \in T
  <2>1. ASSUME NEW s \in SUBSET S, Cardinality(s) = 0 PROVE s = {}
    BY <2>1, FS_Subset, FS_EmptySet
  <2>2. ASSUME NEW s \in SUBSET S, s = {} PROVE f[s] = 0
    BY <2>2, <1>4, <1>6, <1>8, Zenon DEF N
  <2> QED
    BY <2>1, <2>2
<1>10. ASSUME NEW n \in Nat, n \in T PROVE n + 1 \in T
  <2> SUFFICES ASSUME NEW s \in SUBSET S, Cardinality(s) = n + 1
               PROVE  /\ f[s] \in Nat
                      /\ f[s] = IF s = {} THEN 0 ELSE Len(One(s)) + f[s \ {One(s)}]
    OBVIOUS
  <2>1. CASE s = {}
    <3>1. f[s] = 0
      BY <2>1, <1>4, <1>6, <1>8, Zenon DEF N
    <3> QED
      BY <2>1, <3>1
  <2>2. CASE s # {}
    <3>1. One(s) \in s
      BY <2>2, OneIs
    <3>2. PICK x \in s : x = One(s)
      BY <3>1
    <3>3. s \ {x} \in SUBSET S /\ Cardinality(s \ {x}) = n
      BY OneLess
    <3>4. f[s \ {x}] \in Nat
      BY <3>3, <1>10
    <3>5. Len(x) \in Nat
      BY DEF Ids
    <3>6. f[s] = step[<<s, f[s \ {x}]>>]
      BY <2>2, <3>2, <1>4, <1>6, <1>8 DEF N
    <3>7. step[<<s, f[s \ {x}]>>] = Len(x) + f[s \ {x}]
      BY <3>2, <3>4, <1>5 DEF N
    <3> QED
      BY <2>2, <3>2, <3>4, <3>5, <3>6, <3>7
  <2> QED
    BY <2>1, <2>2
<1> HIDE DEF T
<1>11. \A n \in Nat : n \in T
  BY <1>9, <1>10, Induction, Zenon
<1>12. ASSUME NEW s \in SUBSET S
       PROVE  f[s] = IF s = {} THEN 0 ELSE Len(One(s)) + f[s \ {One(s)}]
  <2>1. Cardinality(s) \in Nat
    BY FS_Subset, FS_CardinalityType
  <2> QED
    BY <2>1, <1>11 DEF T
<1>13. f = [s \in SUBSET S |-> f[s]]
  BY <1>7, Zenon DEF RecursBy, N
<1>14. f = [s \in SUBSET S |-> IF s = {} THEN 0 ELSE Len(One(s)) + f[s \ {One(s)}]]
  BY <1>12, <1>13
<1> QED
  BY <1>14 DEF SumsOf

\* So it is what the sums are.
LEMMA SumLenBy ==
    ASSUME NEW S, IsFiniteSet(S), S \subseteq Ids
    PROVE  \E f : /\ SumLen(S) = f[S] /\ \A s \in SUBSET S : f[s] \in Nat
                  /\ \A s \in SUBSET S :
                        f[s] = IF s = {} THEN 0 ELSE Len(One(s)) + f[s \ {One(s)}]
<1> DEFINE iter[s \in SUBSET S] == IF s = {} THEN 0 ELSE Len(One(s)) + iter[s \ {One(s)}]
<1>1. PICK f : SumsOf(f, S)
  BY SumsExist
<1>2. iter = [s \in SUBSET S |-> IF s = {} THEN 0 ELSE Len(One(s)) + iter[s \ {One(s)}]]
  BY <1>1, Zenon DEF SumsOf
<1>3. SumLen(S) = iter[S]
  BY SumLenIs, Zenon
<1> HIDE DEF iter
<1>4. \A s \in SUBSET S : iter[s] = IF s = {} THEN 0 ELSE Len(One(s)) + iter[s \ {One(s)}]
  BY <1>2, Zenon
<1>5. \A s \in SUBSET S : iter[s] \in Nat
  BY <1>4, SumsAreNumbers
<1> QED
  BY <1>3, <1>4, <1>5, Zenon

\* f has the sums, one word after the other.
SumsBy(f, S) ==
    \A s \in SUBSET S : /\ f[s] \in Nat
                        /\ f[s] = IF s = {} THEN 0 ELSE Len(One(s)) + f[s \ {One(s)}]

\* It does not matter with which word one begins.
LEMMA SumByAny ==
    ASSUME NEW S, IsFiniteSet(S), S \subseteq Ids, NEW f, SumsBy(f, S)
    PROVE  \A s \in SUBSET S : \A x \in s : f[s] = Len(x) + f[s \ {x}]
<1> DEFINE T == {n \in Nat : \A s \in SUBSET S : Cardinality(s) = n =>
                                \A x \in s : f[s] = Len(x) + f[s \ {x}]}
<1>1. 0 \in T
  <2>1. ASSUME NEW s \in SUBSET S, Cardinality(s) = 0 PROVE s = {}
    BY <2>1, FS_Subset, FS_EmptySet
  <2> QED
    BY <2>1
<1>2. ASSUME NEW n \in Nat, n \in T PROVE n + 1 \in T
  <2> SUFFICES ASSUME NEW s \in SUBSET S, Cardinality(s) = n + 1, NEW x \in s
               PROVE  f[s] = Len(x) + f[s \ {x}]
    OBVIOUS
  <2>1. One(s) \in s
    BY OneIs
  <2>2. PICK y \in s : y = One(s)
    BY <2>1
  <2>3. f[s] = Len(y) + f[s \ {y}]
    BY <2>2 DEF SumsBy
  <2>4. CASE x = y
    BY <2>3, <2>4
  <2>5. CASE x # y
    <3>1. /\ s \ {x} \in SUBSET S /\ Cardinality(s \ {x}) = n
          /\ s \ {y} \in SUBSET S /\ Cardinality(s \ {y}) = n
      BY OneLess
    <3>2. x \in s \ {y} /\ y \in s \ {x}
      BY <2>5
    <3>3. f[s \ {y}] = Len(x) + f[(s \ {y}) \ {x}]
      BY <3>1, <3>2, <1>2
    <3>4. f[s \ {x}] = Len(y) + f[(s \ {x}) \ {y}]
      BY <3>1, <3>2, <1>2
    <3>5. PICK r : r = (s \ {y}) \ {x} /\ r = (s \ {x}) \ {y}
      OBVIOUS
    <3>6. Len(x) \in Nat /\ Len(y) \in Nat /\ f[r] \in Nat
      <4>1. r \in SUBSET S
        BY <3>5
      <4>2. f[r] \in Nat
        BY <4>1, Zenon DEF SumsBy
      <4>3. Len(x) \in Nat /\ Len(y) \in Nat
        BY DEF Ids
      <4> QED
        BY <4>2, <4>3
    <3>7. f[s \ {y}] = Len(x) + f[r] /\ f[s \ {x}] = Len(y) + f[r]
      BY <3>3, <3>4, <3>5, Zenon
    <3> QED
      BY <2>3, <3>6, <3>7
  <2> QED
    BY <2>4, <2>5
<1> HIDE DEF T
<1>3. \A n \in Nat : n \in T
  BY <1>1, <1>2, Induction, Zenon
<1> SUFFICES ASSUME NEW s \in SUBSET S PROVE \A x \in s : f[s] = Len(x) + f[s \ {x}]
  OBVIOUS
<1>4. Cardinality(s) \in Nat
  BY FS_Subset, FS_CardinalityType
<1> QED
  BY <1>3, <1>4 DEF T

\* Nor of which larger set they are sums.
LEMMA SumsAgree ==
    ASSUME NEW S, IsFiniteSet(S), NEW f, SumsBy(f, S), NEW R \in SUBSET S, NEW g, SumsBy(g, R)
    PROVE  f[R] = g[R]
<1> DEFINE T == {n \in Nat : \A s \in SUBSET R : Cardinality(s) = n => f[s] = g[s]}
<1>1. 0 \in T
  <2> SUFFICES ASSUME NEW s \in SUBSET R, Cardinality(s) = 0 PROVE f[s] = g[s]
    OBVIOUS
  <2>1. s \in SUBSET S
    OBVIOUS
  <2>2. s = {}
    BY <2>1, FS_Subset, FS_EmptySet
  <2> QED
    BY <2>1, <2>2, Zenon DEF SumsBy
<1>2. ASSUME NEW n \in Nat, n \in T PROVE n + 1 \in T
  <2> SUFFICES ASSUME NEW s \in SUBSET R, Cardinality(s) = n + 1 PROVE f[s] = g[s]
    OBVIOUS
  <2>0. s \in SUBSET S
    OBVIOUS
  <2>1. CASE s = {}
    BY <2>0, <2>1, Zenon DEF SumsBy
  <2>2. CASE s # {}
    <3>1. One(s) \in s
      BY <2>2, OneIs
    <3>2. PICK x \in s : x = One(s)
      BY <3>1
    <3>3. s \ {x} \in SUBSET R /\ Cardinality(s \ {x}) = n
      BY <2>0, OneLess
    <3>4. f[s \ {x}] = g[s \ {x}]
      BY <3>3, <1>2
    <3>5. f[s] = Len(x) + f[s \ {x}] /\ g[s] = Len(x) + g[s \ {x}]
      BY <2>0, <2>2, <3>2, Zenon DEF SumsBy
    <3> QED
      BY <3>4, <3>5, Zenon
  <2> QED
    BY <2>1, <2>2
<1> HIDE DEF T
<1>3. \A n \in Nat : n \in T
  BY <1>1, <1>2, Induction, Zenon
<1>4. Cardinality(R) \in Nat
  BY FS_Subset, FS_CardinalityType
<1> QED
  BY <1>3, <1>4 DEF T

\* The sum with a word less.
LEMMA SumLenLess ==
    ASSUME NEW S, IsFiniteSet(S), S \subseteq Ids
    PROVE  /\ SumLen(S) \in Nat /\ SumLen({}) = 0
           /\ \A x \in S : SumLen(S) = Len(x) + SumLen(S \ {x})
<1>1. ASSUME NEW R, IsFiniteSet(R), R \subseteq Ids
      PROVE  \E f : SumsBy(f, R) /\ SumLen(R) = f[R]
  BY <1>1, SumLenBy, Zenon DEF SumsBy
<1>2. PICK f : SumsBy(f, S) /\ SumLen(S) = f[S]
  BY <1>1
<1>3. SumLen(S) \in Nat
  BY <1>2 DEF SumsBy
<1>4. SumLen({}) = 0
  <2>1. IsFiniteSet({}) /\ {} \subseteq Ids
    BY FS_EmptySet
  <2>2. PICK g : SumsBy(g, {}) /\ SumLen({}) = g[{}]
    BY <1>1, <2>1
  <2> QED
    BY <2>2, Zenon DEF SumsBy
<1>5. ASSUME NEW x \in S PROVE SumLen(S) = Len(x) + SumLen(S \ {x})
  <2>1. IsFiniteSet(S \ {x}) /\ S \ {x} \subseteq Ids /\ S \ {x} \in SUBSET S
    BY FS_Subset
  <2>2. PICK g : SumsBy(g, S \ {x}) /\ SumLen(S \ {x}) = g[S \ {x}]
    BY <1>1, <2>1
  <2>3. f[S \ {x}] = g[S \ {x}]
    BY <1>2, <2>1, <2>2, SumsAgree
  <2>4. f[S] = Len(x) + f[S \ {x}]
    BY <1>2, SumByAny
  <2> QED
    BY <1>2, <2>2, <2>3, <2>4, Zenon
<1> QED
  BY <1>3, <1>4, <1>5

-----------------------------------------------------------------------------
(* Boosts.                                                                 *)

\* What all tokens are given where all keywords have one score, and what so many are.
Each == IF keywords = <<>> THEN 0 ELSE Default(keywords[1].score, ContextScore)
Times(c, n) == c * n

\* The scores of the nodes: the output score of a node with links is that of all keywords
\* that it ends in, that of another is its own.
ScoresInv ==
    Uniform =>
        /\ trie[Root].node_score = 0 /\ trie[Root].output_score = 0
        /\ \A n \in Nodes \ {Root} :
              /\ trie[n].token_score = Each /\ trie[n].node_score = Times(Each, Len(n))
              /\ n \in WithFail =>
                    trie[n].output_score = Times(Each, SumLen(EndingIn(Enders, n)))
              /\ n \notin WithFail =>
                    trie[n].output_score = IF n \in Enders THEN Times(Each, Len(n)) ELSE 0

\* A node gets its links once: those in the queue are there once and their children have none.
LinksInv ==
    /\ \A n \in WithFail : n = Root \/ Front(n) \in WithFail
    /\ \A i \in 1 .. Len(q) : \A c \in Children(q[i]) : c \notin WithFail
    /\ \A i, j \in 1 .. Len(q) : i # j => q[i] # q[j]

\* So many and so many more.
LEMMA TimesIs ==
    \A c, a, b \in Int : /\ Times(c, a) \in Int /\ Times(c, a + b) = Times(c, a) + Times(c, b)
                         /\ Times(c, 0) = 0 /\ Times(c, 1) = c
BY DEF Times

\* The score of all is a number.
LEMMA EachIs ==
    ASSUME keywords \in Seq(KeywordRecord)
    PROVE  /\ Each \in Int
           /\ Uniform => \A i \in 1 .. Len(keywords) :
                            Default(keywords[i].score, ContextScore) = Each
<1>1. \A x \in Int : Default(x, ContextScore) \in Int
  BY GraphAssumption DEF Default
<1>2. ASSUME NEW i \in 1 .. Len(keywords) PROVE keywords[i].score \in Int
  <2>1. keywords[i] \in KeywordRecord
    OBVIOUS
  <2> QED
    BY <2>1 DEF KeywordRecord
<1>3. CASE keywords = <<>>
  <2>1. Each = 0
    BY <1>3 DEF Each
  <2>2. 1 .. Len(keywords) = {}
    BY <1>3
  <2> QED
    BY <2>1, <2>2
<1>4. CASE keywords # <<>>
  <2>1. 1 \in 1 .. Len(keywords) /\ DOMAIN keywords = 1 .. Len(keywords)
    BY <1>4
  <2>2. Each = Default(keywords[1].score, ContextScore)
    BY <1>4 DEF Each
  <2>3. Uniform => \A i \in 1 .. Len(keywords) : keywords[i].score = keywords[1].score
    BY <2>1 DEF Uniform
  <2>4. Uniform => \A i \in 1 .. Len(keywords) :
                      Default(keywords[i].score, ContextScore) = Each
    BY <2>2, <2>3, Zenon
  <2> QED
    BY <1>1, <1>2, <2>1, <2>2, <2>4
<1> QED
  BY <1>3, <1>4

\* No node is Null.
LEMMA NotNull == Null \notin Ids
<1> SUFFICES ASSUME NEW m \in Seq(Nat), m = <<-1>> PROVE FALSE
  BY DEF Ids, Null
<1>1. Len(m) = 1 /\ m[1] = -1
  OBVIOUS
<1>2. m[1] \in Nat
  BY <1>1
<1> QED
  BY <1>1, <1>2

\* Without links, only the root has one.
LEMMA OnlyRoot == TrieType /\ NoLinks => WithFail = {Root}
<1> SUFFICES ASSUME TrieType, NoLinks PROVE WithFail = {Root}
  OBVIOUS
<1>1. Root \in Nodes /\ Null # Root
  BY DEF TrieType, Null, Root
<1> QED
  BY <1>1 DEF NoLinks, WithFail

\* The same of the next state.
LEMMA OnlyRootNext == (TrieType /\ NoLinks => WithFail = {Root})'
BY OnlyRoot, PTL

\* The scores of a path.
LEMMA PathScores ==
    ASSUME TrieType, NEW k \in KeywordRecord, NEW c \in Int,
           Default(k.score, ContextScore) = c,
           \A n \in Nodes \ {Root} : trie[n].token_score = c
    PROVE  /\ \A n : n # Root => TokenScore(k, n) = c
           /\ \A j \in 0 .. Len(k.ids) : NodeScore(k)[j] = Times(c, j)
<1>1. ASSUME NEW n, n # Root PROVE TokenScore(k, n) = c
  <2>1. Higher(c, c) = c
    BY DEF Higher
  <2>2. CASE n \in Nodes
    BY <1>1, <2>1, <2>2 DEF TokenScore
  <2>3. CASE n \notin Nodes
    BY <2>3 DEF TokenScore
  <2> QED
    BY <2>2, <2>3
<1>2. k.ids \in Seq(Nat)
  BY DEF KeywordRecord, Ids
<1>3. PICK m \in Nat : m = Len(k.ids)
  BY <1>2
<1>4. ASSUME NEW j \in 1 .. m PROVE SubSeq(k.ids, 1, j) # Root
  BY <1>2, <1>3 DEF Root
<1> DEFINE T == {j \in Nat : j <= m => NodeScore(k)[j] = Times(c, j)}
<1>5. \A j \in 0 .. m : NodeScore(k)[j] =
         IF j = 0 THEN 0 ELSE NodeScore(k)[j - 1] + TokenScore(k, SubSeq(k.ids, 1, j))
  BY <1>3, ScoresAreNumbers
<1>6. 0 \in T
  <2>1. 0 \in 0 .. m
    OBVIOUS
  <2>2. NodeScore(k)[0] = 0
    BY <1>5, <2>1, Zenon
  <2>3. Times(c, 0) = 0
    BY TimesIs
  <2> QED
    BY <2>2, <2>3
<1>7. ASSUME NEW j \in Nat, j \in T PROVE j + 1 \in T
  <2> SUFFICES ASSUME j + 1 <= m PROVE NodeScore(k)[j + 1] = Times(c, j + 1)
    OBVIOUS
  <2>1. j + 1 \in 1 .. m /\ j + 1 \in 0 .. m /\ j + 1 # 0 /\ (j + 1) - 1 = j
    OBVIOUS
  <2>2. NodeScore(k)[j + 1] = NodeScore(k)[j] + TokenScore(k, SubSeq(k.ids, 1, j + 1))
    BY <1>5, <2>1
  <2>3. TokenScore(k, SubSeq(k.ids, 1, j + 1)) = c
    BY <1>1, <1>4, <2>1
  <2>4. NodeScore(k)[j] = Times(c, j)
    BY <1>7
  <2>5. Times(c, j + 1) = Times(c, j) + c
    BY TimesIs
  <2> QED
    BY <2>2, <2>3, <2>4, <2>5
<1> HIDE DEF T
<1>8. \A j \in Nat : j \in T
  BY <1>6, <1>7, Induction, Zenon
<1>9. \A j \in 0 .. m : NodeScore(k)[j] = Times(c, j)
  BY <1>8 DEF T
<1> QED
  BY <1>1, <1>3, <1>9

\* What a node of the path gets.
LEMMA OnPathScores ==
    ASSUME TrieType, NEW k \in KeywordRecord, NEW n \in Path(k)
    PROVE  /\ OnPath(k, n).token_score = TokenScore(k, n)
           /\ OnPath(k, n).node_score = NodeScore(k)[Len(n)]
           /\ OnPath(k, n).output_score = IF n = k.ids \/ n \in Enders THEN NodeScore(k)[Len(n)]
                                          ELSE 0
<1>1. PICK old : old = IF n \in Nodes THEN trie[n] ELSE Node
  OBVIOUS
<1>2. old \in NodeRecord /\ (old.is_end <=> n \in Enders)
  <2>1. CASE n \in Nodes
    <3>1. old = trie[n] /\ trie[n] \in NodeRecord
      BY <1>1, <2>1 DEF TrieType
    <3> QED
      BY <3>1, <2>1 DEF Enders
  <2>2. CASE n \notin Nodes
    <3>1. Null \in Seq(Int)
      BY DEF Null
    <3>2. Node \in NodeRecord /\ Node.is_end = FALSE
      BY <3>1 DEF Node, NodeRecord
    <3> QED
      BY <1>1, <2>2, <3>2 DEF Enders
  <2> QED
    BY <2>1, <2>2
<1>3. PICK a, b, last : a = TokenScore(k, n) /\ b = NodeScore(k)[Len(n)] /\ last = (n = k.ids)
  OBVIOUS
<1>4. PICK d : d = IF last THEN Default(k.ac_threshold, AcThreshold) ELSE old.ac_threshold
  OBVIOUS
<1>5. PICK z : z = (last \/ old.is_end)
  OBVIOUS
<1>6. PICK r : r = [old EXCEPT !.token_score = a, !.node_score = b,
                      !.output_score = IF last \/ old.is_end THEN b ELSE 0,
                      !.ac_threshold = d,
                      !.is_end = last \/ old.is_end]
  OBVIOUS
<1>7. OnPath(k, n) =
          [old EXCEPT !.token_score = a, !.node_score = b,
                      !.output_score = IF last \/ old.is_end THEN b ELSE 0,
                      !.ac_threshold = IF last THEN Default(k.ac_threshold, AcThreshold) ELSE @,
                      !.is_end = last \/ old.is_end]
  BY <1>1, <1>3 DEF OnPath
<1>8. OnPath(k, n) = r
  BY <1>4, <1>6, <1>7
<1>9. r.token_score = a /\ r.node_score = b
      /\ r.output_score = IF last \/ old.is_end THEN b ELSE 0
  BY <1>2, <1>6 DEF NodeRecord
<1> QED
  BY <1>2, <1>3, <1>8, <1>9

\* The trie when the links are not begun.
LEMMA Unlinked ==
    ASSUME GraphInv, ~ready, q = <<>>
    PROVE  TrieType /\ NoLinks /\ WithFail = {Root}
<1>1. TrieType /\ NoLinks
  BY DEF GraphInv, GraphType
<1> QED
  BY <1>1, OnlyRoot

\* The same of the next state.
LEMMA UnlinkedNext == (GraphInv /\ ~ready /\ q = <<>> => TrieType /\ NoLinks /\ WithFail = {Root})'
<1>1. GraphInv /\ ~ready /\ q = <<>> => TrieType /\ NoLinks /\ WithFail = {Root}
  BY Unlinked
<1> QED
  BY <1>1, PTL

\* One more keyword is put into the trie.
LEMMA BuildScores ==
    ASSUME GraphInv, LinksInv, ScoresInv, Build
    PROVE  LinksInv' /\ ScoresInv'
<1>1. GraphType /\ TrieType /\ EndsOfKeywords
  BY DEF GraphInv, GraphType
<1>2. inserted < Len(keywords) /\ inserted' = inserted + 1 /\ keywords' = keywords
      /\ q' = q /\ ready' = ready /\ inserted \in Nat
  BY <1>1 DEF Build, GraphType
<1>3. ~ready /\ q = <<>>
  BY <1>1, <1>2 DEF GraphInv, GraphType
<1>4. WithFail = {Root} /\ NoLinks
  BY <1>3, Unlinked
<1>5. GraphInv'
  BY BuildInv
<1>6. WithFail' = {Root} /\ TrieType'
  BY <1>2, <1>3, <1>5, UnlinkedNext
<1>7. LinksInv'
  <2>1. 1 .. Len(q') = {}
    BY <1>2, <1>3
  <2> QED
    BY <1>6, <2>1 DEF LinksInv
<1>8. PICK k \in KeywordRecord : k = keywords[inserted + 1]
  BY <1>1, <1>2 DEF GraphType
<1>9. trie' = [node \in Nodes \cup Path(k) |->
                  IF node \in Path(k) THEN OnPath(k, node) ELSE trie[node]]
  BY <1>8 DEF Build
<1>10. Nodes' = Nodes \cup Path(k)
  BY <1>9 DEF Nodes
<1>11. /\ Path(k) \subseteq Ids /\ Root \notin Path(k)
       /\ \A n \in Path(k) : Len(n) \in 1 .. Len(k.ids)
       /\ k.ids # Root => k.ids \in Path(k)
  BY PathIs
<1>12. Root \in Nodes
  BY <1>1 DEF TrieType
<1>13. ASSUME NEW n \in Path(k) PROVE n \in Nodes' /\ trie'[n] = OnPath(k, n)
  BY <1>9, <1>10
<1>14. ASSUME NEW n \in Nodes, n \notin Path(k) PROVE n \in Nodes' /\ trie'[n] = trie[n]
  BY <1>9, <1>10, <1>14
<1>15. ASSUME NEW n \in Path(k) PROVE OnPath(k, n).is_end <=> n = k.ids \/ n \in Enders
  <2>1. PICK old : old = IF n \in Nodes THEN trie[n] ELSE Node
    OBVIOUS
  <2>2. old \in NodeRecord /\ (old.is_end <=> n \in Enders)
    <3>1. Null \in Seq(Int)
      BY DEF Null
    <3>2. Node \in NodeRecord /\ Node.is_end = FALSE
      BY <3>1 DEF Node, NodeRecord
    <3>3. n \in Nodes => trie[n] \in NodeRecord
      BY <1>1 DEF TrieType
    <3> QED
      BY <2>1, <3>2, <3>3 DEF Enders
  <2>3. DOMAIN old = {"token_score", "node_score", "output_score", "ac_threshold",
                      "is_end", "fail", "output"}
    BY <2>2 DEF NodeRecord
  <2> QED
    BY <2>1, <2>2, <2>3 DEF OnPath
<1>16. Uniform' <=> Uniform
  BY <1>2 DEF Uniform
<1>17. Each' = Each
  BY <1>2, Zenon DEF Each
<1> SUFFICES ASSUME Uniform PROVE ScoresInv'
  BY <1>7, <1>16 DEF ScoresInv
<1>18. PICK c \in Int : c = Each
  BY <1>1, EachIs DEF GraphType
<1>19. Default(k.score, ContextScore) = c
  <2>1. inserted + 1 \in 1 .. Len(keywords)
    BY <1>1, <1>2 DEF GraphType
  <2> QED
    BY <2>1, <1>1, <1>8, <1>18, EachIs DEF GraphType
<1>20. \A n \in Nodes \ {Root} : trie[n].token_score = c
  BY <1>18 DEF ScoresInv
<1>21. /\ \A n : n # Root => TokenScore(k, n) = c
       /\ \A j \in 0 .. Len(k.ids) : NodeScore(k)[j] = Times(c, j)
  BY <1>1, <1>19, <1>20, PathScores
<1>22. trie'[Root].node_score = 0 /\ trie'[Root].output_score = 0
  BY <1>11, <1>12, <1>14 DEF ScoresInv
<1>23. ASSUME NEW n \in Nodes' \ {Root}
       PROVE  /\ trie'[n].token_score = c /\ trie'[n].node_score = Times(c, Len(n))
              /\ trie'[n].output_score = IF n \in Enders' THEN Times(c, Len(n)) ELSE 0
  <2>1. n \in Enders' <=> trie'[n].is_end
    BY DEF Enders
  <2>2. CASE n \in Path(k)
    <3>1. /\ OnPath(k, n).token_score = TokenScore(k, n)
          /\ OnPath(k, n).node_score = NodeScore(k)[Len(n)]
          /\ OnPath(k, n).output_score = IF n = k.ids \/ n \in Enders THEN NodeScore(k)[Len(n)]
                                         ELSE 0
      BY <1>1, <2>2, OnPathScores
    <3>2. Len(n) \in 0 .. Len(k.ids)
      BY <2>2, <1>11
    <3>3. NodeScore(k)[Len(n)] = Times(c, Len(n)) /\ TokenScore(k, n) = c
      BY <3>2, <1>21
    <3>4. trie'[n] = OnPath(k, n)
      BY <2>2, <1>13
    <3>5. n \in Enders' <=> n = k.ids \/ n \in Enders
      BY <2>1, <2>2, <3>4, <1>15
    <3> QED
      BY <3>1, <3>3, <3>4, <3>5
  <2>3. CASE n \notin Path(k)
    <3>1. n \in Nodes /\ trie'[n] = trie[n] /\ n \notin WithFail
      BY <2>3, <1>4, <1>10, <1>14
    <3>2. n \in Enders' <=> n \in Enders
      BY <2>1, <3>1 DEF Enders
    <3> QED
      BY <3>1, <3>2, <1>18 DEF ScoresInv
  <2> QED
    BY <2>2, <2>3
<1>24. ASSUME NEW n \in Nodes' \ {Root} PROVE n \notin WithFail'
  BY <1>6
<1> QED
  BY <1>17, <1>18, <1>22, <1>23, <1>24 DEF ScoresInv

\* The keywords that a node ends in: itself, where it is one, and those that the rest of it
\* ends in.
LEMMA SumSplit ==
    ASSUME TrieType, NEW n \in Nodes, n # Root
    PROVE  /\ SumLen(EndingIn(Enders, Tail(n))) \in Nat /\ SumLen(EndingIn(Enders, n)) \in Nat
           /\ SumLen(EndingIn(Enders, n)) = SumLen(EndingIn(Enders, Tail(n)))
                                            + IF n \in Enders THEN Len(n) ELSE 0
<1>1. n \in Seq(Nat) /\ n # <<>> /\ Enders \subseteq Ids /\ Enders \subseteq Nodes
      /\ IsFiniteSet(Enders)
  <2>1. Enders \subseteq Nodes /\ IsFiniteSet(Nodes) /\ Nodes \subseteq Ids
    BY DEF TrieType, Enders
  <2>2. IsFiniteSet(Enders)
    BY <2>1, FS_Subset
  <2> QED
    BY <2>1, <2>2 DEF Ids, Root
<1>2. PICK t : t = Tail(n)
  OBVIOUS
<1>3. PICK a, b : a = EndingIn(Enders, t) /\ b = EndingIn(Enders, n)
  OBVIOUS
<1>4. ASSUME NEW y \in Enders PROVE y \in b <=> y = n \/ y \in a
  <2>1. y \in Seq(Nat)
    BY <1>1 DEF Ids
  <2>2. IsSuffix(y, n) <=> y = n \/ IsSuffix(y, t)
    BY <1>1, <1>2, <2>1, SuffixOfTail, Zenon
  <2> QED
    BY <2>2, <1>3 DEF EndingIn
<1>5. n \notin a
  <2>1. t \in Seq(Nat) /\ Len(t) = Len(n) - 1 /\ Len(n) \in Nat
    BY <1>1, <1>2
  <2>2. IsSuffix(n, t) => EndsIn(n, Len(n), t, Len(t))
    BY <1>1, <2>1, SuffixBy, Zenon
  <2>3. ~IsSuffix(n, t)
    BY <2>1, <2>2 DEF EndsIn
  <2> QED
    BY <2>3, <1>3 DEF EndingIn
<1>6. a \subseteq Enders /\ b \subseteq Enders
  BY <1>3 DEF EndingIn
<1>7. IsFiniteSet(a) /\ IsFiniteSet(b) /\ a \subseteq Ids /\ b \subseteq Ids
  BY <1>1, <1>6, FS_Subset
<1>8. SumLen(a) \in Nat /\ SumLen(b) \in Nat
  BY <1>7, SumLenLess
<1>9. CASE n \in Enders
  <2>1. n \in b /\ b \ {n} = a
    BY <1>4, <1>5, <1>6, <1>9
  <2>2. SumLen(b) = Len(n) + SumLen(b \ {n})
    BY <1>7, <2>1, SumLenLess
  <2>3. Len(n) \in Nat
    BY <1>1
  <2>4. SumLen(b) = SumLen(a) + Len(n)
    <3>1. SumLen(b) = Len(n) + SumLen(a)
      BY <2>1, <2>2, Zenon
    <3>2. \A x, y, z \in Nat : x = y + z => x = z + y
      OBVIOUS
    <3> QED
      BY <1>8, <2>3, <3>1, <3>2, Zenon
  <2>5. (IF n \in Enders THEN Len(n) ELSE 0) = Len(n)
    BY <1>9, Zenon
  <2> QED
    BY <1>2, <1>3, <1>8, <2>4, <2>5
<1>10. CASE n \notin Enders
  <2>1. a = b
    BY <1>4, <1>6, <1>10
  <2> QED
    BY <1>2, <1>3, <1>8, <1>10, <2>1
<1> QED
  BY <1>9, <1>10

\* They are those that the longest of them ends in.
LEMMA SumOfKeyword ==
    ASSUME TrieType, NEW w \in Ids, NEW x, FirstKeyword(x, Enders, w)
    PROVE  /\ x = Null => SumLen(EndingIn(Enders, w)) = 0
           /\ x # Null => /\ x \in Enders /\ IsLongest(x, Enders, w)
                          /\ SumLen(EndingIn(Enders, w)) = SumLen(EndingIn(Enders, x))
<1>1. Enders \subseteq Ids
  BY DEF TrieType, Enders
<1>2. CASE EndingIn(Enders, w) = {}
  <2>1. x = Null
    BY <1>2, Zenon DEF FirstKeyword
  <2>2. IsFiniteSet({}) /\ {} \subseteq Ids
    BY FS_EmptySet
  <2>3. SumLen({}) = 0
    BY <2>2, SumLenLess
  <2> QED
    BY <1>2, <2>1, <2>3
<1>3. CASE EndingIn(Enders, w) # {}
  <2>1. IsLongest(x, Enders, w)
    BY <1>3, Zenon DEF FirstKeyword
  <2>2. x \in Enders /\ x # Null
    BY <1>1, <2>1, NotNull DEF IsLongest
  <2>3. EndingIn(Enders, x) = EndingIn(Enders, w)
    BY <1>1, <2>1, LongestHasAll
  <2> QED
    BY <2>1, <2>2, <2>3
<1> QED
  BY <1>2, <1>3

\* The nodes of the first level get their links.
LEMMA FillBeginsScores ==
    ASSUME GraphInv, LinksInv, ScoresInv, FillBegins
    PROVE  LinksInv' /\ ScoresInv'
<1>1. GraphType /\ TrieType /\ EndsOfKeywords
  BY DEF GraphInv, GraphType
<1>2. inserted = Len(keywords) /\ q = <<>> /\ ~ready /\ keywords' = keywords /\ inserted' = inserted
  BY DEF FillBegins
<1>3. NoLinks /\ WithFail = {Root}
  BY <1>2, Unlinked
<1>4. PICK kids : kids = Children(Root)
  OBVIOUS
<1>5. PICK order \in SetToSeqs(kids) :
        /\ q' = order
        /\ trie' = [n \in Nodes |-> IF n \in kids THEN [trie[n] EXCEPT !.fail = Root] ELSE trie[n]]
  BY <1>4 DEF FillBegins
<1>6. Root \in Nodes /\ Root \in Seq(Nat) /\ Root = <<>> /\ Len(Root) = 0
  BY <1>1 DEF TrieType, Root
<1>7. ASSUME NEW c \in kids
      PROVE  /\ c \in Nodes /\ c \in Seq(Nat) /\ Len(c) = 1 /\ c # Root /\ Front(c) = Root
             /\ Tail(c) = Root
  <2>1. c \in Nodes /\ c \in Seq(Nat) /\ Front(c) = Root /\ Len(c) = Len(Root) + 1
        /\ c # Root
    BY <1>1, <1>4, <1>6, ChildIs
  <2>2. Len(c) = 1 /\ c # <<>>
    BY <2>1, <1>6
  <2>3. PICK t : t = Tail(c)
    OBVIOUS
  <2>4. t \in Seq(Nat) /\ Len(t) = Len(c) - 1
    BY <2>1, <2>2, <2>3, Split
  <2>5. Tail(c) = <<>>
    BY <2>2, <2>3, <2>4, EmptySeq
  <2> QED
    BY <2>1, <2>2, <2>5, <1>6
<1>8. Nodes' = Nodes
  BY <1>5 DEF Nodes
<1>9. ASSUME NEW n \in Nodes
      PROVE  /\ trie'[n].token_score = trie[n].token_score
             /\ trie'[n].node_score = trie[n].node_score
             /\ trie'[n].output_score = trie[n].output_score
             /\ trie'[n].is_end = trie[n].is_end
             /\ trie'[n].fail = IF n \in kids THEN Root ELSE trie[n].fail
  <2>1. CASE n \in kids
    <3>1. PICK old, r : old = trie[n] /\ r = [old EXCEPT !.fail = Root]
      OBVIOUS
    <3>2. old \in NodeRecord /\ trie'[n] = r
      BY <1>1, <1>5, <2>1, <3>1 DEF TrieType
    <3>3. /\ r.token_score = old.token_score /\ r.node_score = old.node_score
          /\ r.output_score = old.output_score /\ r.fail = Root
      BY <3>1, <3>2 DEF NodeRecord
    <3>4. r.is_end = old.is_end
      BY <3>1, <3>2 DEF NodeRecord
    <3> QED
      BY <2>1, <3>1, <3>2, <3>3, <3>4
  <2>2. CASE n \notin kids
    BY <1>5, <2>2
  <2> QED
    BY <2>1, <2>2
<1>10. Enders' = Enders
  BY <1>8, <1>9 DEF Enders
<1>11. WithFail' = WithFail \cup kids
  <2>1. Root # Null
    BY DEF Root, Null
  <2> QED
    BY <1>7, <1>8, <1>9, <2>1 DEF WithFail
<1>12. LinksInv'
  <2>1. IsFiniteSet(kids)
    <3>1. kids \subseteq Nodes
      BY <1>7
    <3> QED
      BY <1>1, <3>1, FS_Subset DEF TrieType
  <2>2. order \in Seq(kids)
    BY <2>1, OrderIs
  <2>3. \A i, j \in 1 .. Len(order) : i # j => order[i] # order[j]
    BY <2>1, OrderIs
  <2>4. ASSUME NEW i \in 1 .. Len(order), NEW c \in Nodes,
               Len(c) = Len(order[i]) + 1
        PROVE  c \notin WithFail'
    <3>1. order[i] \in kids
      BY <2>2
    <3>2. Len(order[i]) = 1
      BY <3>1, <1>7
    <3>3. Len(c) = 2
      BY <3>2, <2>4
    <3> QED
      BY <3>3, <1>3, <1>6, <1>7, <1>11
  <2>5. \A n \in WithFail' : n = Root \/ Front(n) \in WithFail'
    BY <1>3, <1>7, <1>11
  <2> QED
    BY <1>5, <1>8, <2>3, <2>4, <2>5 DEF LinksInv, Children
<1>13. Uniform' <=> Uniform
  BY <1>2 DEF Uniform
<1>14. Each' = Each
  BY <1>2, Zenon DEF Each
<1> SUFFICES ASSUME Uniform PROVE ScoresInv'
  BY <1>12, <1>13 DEF ScoresInv
<1>15. PICK c \in Int : c = Each
  BY <1>1, EachIs DEF GraphType
<1>16. ASSUME NEW n \in Nodes \ {Root}
       PROVE  /\ trie'[n].token_score = c /\ trie'[n].node_score = Times(c, Len(n))
              /\ trie'[n].output_score = IF n \in Enders THEN Times(c, Len(n)) ELSE 0
  BY <1>3, <1>9, <1>15 DEF ScoresInv
<1>17. trie'[Root].node_score = 0 /\ trie'[Root].output_score = 0
  BY <1>6, <1>9 DEF ScoresInv
<1>18. ASSUME NEW n \in Nodes \ {Root}, n \in kids
       PROVE  trie'[n].output_score = Times(c, SumLen(EndingIn(Enders, n)))
  <2>1. /\ SumLen(EndingIn(Enders, Tail(n))) \in Nat
        /\ SumLen(EndingIn(Enders, n)) = SumLen(EndingIn(Enders, Tail(n)))
                                         + IF n \in Enders THEN Len(n) ELSE 0
    BY <1>1, SumSplit
  <2>2. SumLen(EndingIn(Enders, Tail(n))) = 0
    <3>1. ASSUME NEW y \in Enders PROVE ~IsSuffix(y, Root)
      <4>1. y \in Nodes /\ y # Root
        BY <1>1 DEF Enders, EndsOfKeywords
      <4>2. y \in Seq(Nat) /\ Len(y) \in Nat /\ Len(y) # 0
        BY <4>1, <1>1, <1>6 DEF TrieType, Ids
      <4>3. IsSuffix(y, Root) => EndsIn(y, Len(y), Root, Len(Root))
        BY <4>2, <1>6, SuffixBy, Zenon
      <4> QED
        BY <4>2, <4>3, <1>6 DEF EndsIn
    <3>2. EndingIn(Enders, Root) = {}
      BY <3>1 DEF EndingIn
    <3>3. IsFiniteSet({}) /\ {} \subseteq Ids
      BY FS_EmptySet
    <3>4. SumLen({}) = 0
      BY <3>3, SumLenLess
    <3> QED
      BY <3>2, <3>4, <1>7, <1>18
  <2>3. Len(n) \in Nat
    BY <1>7, <1>18
  <2>4. CASE n \in Enders
    <3>1. SumLen(EndingIn(Enders, n)) = Len(n)
      BY <2>1, <2>2, <2>3, <2>4
    <3> QED
      BY <3>1, <1>16, <2>4
  <2>5. CASE n \notin Enders
    <3>1. SumLen(EndingIn(Enders, n)) = 0
      BY <2>1, <2>2, <2>5
    <3>2. Times(c, 0) = 0
      BY TimesIs
    <3> QED
      BY <3>1, <3>2, <1>16, <2>5
  <2> QED
    BY <2>4, <2>5
<1>19. ASSUME NEW n \in Nodes \ {Root} PROVE n \in WithFail' <=> n \in kids
  BY <1>3, <1>11
<1> QED
  BY <1>8, <1>10, <1>14, <1>15, <1>16, <1>17, <1>18, <1>19 DEF ScoresInv

\* The scores of a child of the node that is first in the queue.
LEMMA LinkedScores ==
    ASSUME GraphInv, LinksInv, ScoresInv, Uniform, q # <<>>, NEW c \in Children(Head(q))
    PROVE  /\ c \in Nodes \ WithFail /\ c # Root
           /\ Linked(c).token_score = Each /\ Linked(c).node_score = Times(Each, Len(c))
           /\ Linked(c).output_score = Times(Each, SumLen(EndingIn(Enders, c)))
<1>1. TrieType /\ QueueInv /\ q \in Seq(Nodes) /\ keywords \in Seq(KeywordRecord)
  BY DEF GraphInv, GraphType
<1>2. PICK p : p = Head(q)
  OBVIOUS
<1>3. p \in Nodes /\ p = q[1] /\ 1 \in 1 .. Len(q)
  BY <1>1, <1>2
<1>4. p # Root
  BY <1>1, <1>3 DEF QueueInv
<1>5. /\ c \in Nodes /\ c \in Seq(Nat) /\ p \in Seq(Nat) /\ c # Root /\ Len(c) = Len(p) + 1
      /\ Tail(c) = Append(Tail(p), Last(c)) /\ Tail(p) \in Ids
  BY <1>1, <1>2, <1>3, <1>4, ChildIs
<1>6. c \notin WithFail
  BY <1>2, <1>3 DEF LinksInv
<1>7. PICK w : w = Tail(c)
  OBVIOUS
<1>8. w \in Seq(Nat) /\ Len(w) = Len(p) /\ Len(p) \in Nat /\ w \in Ids
  <2>1. c # <<>>
    BY <1>5 DEF Root
  <2>2. w \in Seq(Nat) /\ Len(w) = Len(c) - 1
    BY <1>5, <1>7, <2>1, Split
  <2> QED
    BY <2>2, <1>5 DEF Ids
<1>9. PICK out : out = KeywordAbove(Fail(c))
  OBVIOUS
<1>10. PICK old : old = trie[c]
  OBVIOUS
<1>11. old \in NodeRecord
  BY <1>1, <1>5, <1>10 DEF TrieType
<1>12. PICK k \in Int : k = Each
  BY <1>1, EachIs
<1>13. /\ old.token_score = k /\ old.node_score = Times(k, Len(c))
       /\ old.output_score = IF c \in Enders THEN Times(k, Len(c)) ELSE 0
  BY <1>5, <1>6, <1>10, <1>12 DEF ScoresInv
<1>14. PICK more : more = IF out = Null THEN 0 ELSE trie[out].output_score
  OBVIOUS
<1>15. PICK r, f : /\ f = Fail(c)
                   /\ r = [old EXCEPT !.fail = f, !.output = out, !.output_score = @ + more]
  OBVIOUS
<1>16. Linked(c) = r
  BY <1>9, <1>10, <1>14, <1>15, Zenon DEF Linked
<1>17. r.token_score = old.token_score /\ r.node_score = old.node_score
       /\ r.output_score = old.output_score + more /\ r.output = out
  BY <1>11, <1>15 DEF NodeRecord
<1>18. FirstKeyword(out, Enders, w)
  BY <1>7, <1>16, <1>17, LinkedIs
<1>19. /\ out = Null => SumLen(EndingIn(Enders, w)) = 0
       /\ out # Null => /\ out \in Enders /\ IsLongest(out, Enders, w)
                        /\ SumLen(EndingIn(Enders, w)) = SumLen(EndingIn(Enders, out))
  BY <1>1, <1>8, <1>18, SumOfKeyword
<1>20. more = Times(k, SumLen(EndingIn(Enders, w)))
  <2>1. CASE out = Null
    <3>1. Times(k, 0) = 0
      BY TimesIs
    <3> QED
      BY <2>1, <3>1, <1>14, <1>19
  <2>2. CASE out # Null
    <3>1. out \in Nodes /\ out \in Seq(Nat) /\ IsSuffix(out, w)
      BY <2>2, <1>1, <1>19 DEF Enders, TrieType, Ids, IsLongest
    <3>2. EndsIn(out, Len(out), w, Len(w))
      BY <3>1, <1>8, SuffixBy, Zenon
    <3>3. Len(out) <= Len(p) /\ Len(out) \in Nat
      BY <3>1, <3>2, <1>8 DEF EndsIn
    <3>4. out \in WithFail \/ Len(out) > Len(p)
      BY <3>1, <1>2, QueueAhead
    <3>5. out \in WithFail
      BY <3>3, <3>4, <1>8
    <3>6. out # Root
      BY <2>2, <1>19 DEF GraphInv, EndsOfKeywords
    <3>7. trie[out].output_score = Times(k, SumLen(EndingIn(Enders, out)))
      BY <3>1, <3>5, <3>6, <1>12 DEF ScoresInv
    <3> QED
      BY <2>2, <3>7, <1>14, <1>19
  <2> QED
    BY <2>1, <2>2
<1>21. PICK a, b : a = SumLen(EndingIn(Enders, w)) /\ b = SumLen(EndingIn(Enders, c))
  OBVIOUS
<1>22. a \in Nat /\ b \in Nat /\ b = a + IF c \in Enders THEN Len(c) ELSE 0
  BY <1>1, <1>5, <1>7, <1>21, SumSplit
<1>23. Len(c) \in Nat
  BY <1>5
<1>24. r.output_score = Times(k, b)
  <2>1. CASE c \in Enders
    <3>1. b = a + Len(c)
      BY <1>22, <2>1
    <3>2. Times(k, a + Len(c)) = Times(k, a) + Times(k, Len(c))
          /\ Times(k, a) \in Int /\ Times(k, Len(c)) \in Int
      <4>1. a \in Int /\ Len(c) \in Int
        BY <1>22, <1>23
      <4> QED
        BY <4>1, TimesIs, Zenon
    <3>3. r.output_score = Times(k, Len(c)) + Times(k, a)
      BY <2>1, <1>13, <1>17, <1>20, <1>21
    <3> QED
      BY <3>1, <3>2, <3>3
  <2>2. CASE c \notin Enders
    <3>1. b = a
      BY <1>22, <2>2
    <3>2. Times(k, a) \in Int
      BY <1>22, TimesIs
    <3>3. r.output_score = 0 + Times(k, a)
      BY <2>2, <1>13, <1>17, <1>20, <1>21
    <3> QED
      BY <3>1, <3>2, <3>3
  <2> QED
    BY <2>1, <2>2
<1> QED
  BY <1>5, <1>6, <1>12, <1>13, <1>16, <1>17, <1>21, <1>24

\* The children of a node get their links.
LEMMA FillNodeScores ==
    ASSUME GraphInv, LinksInv, ScoresInv, FillNode
    PROVE  LinksInv' /\ ScoresInv'
<1>1. GraphType /\ TrieType /\ QueueInv /\ q \in Seq(Nodes) /\ q # <<>> /\ FailsToLongest
  BY DEF GraphInv, GraphType, FillNode
<1>2. keywords' = keywords /\ inserted' = inserted
  BY DEF FillNode
<1>3. PICK p : p = Head(q)
  OBVIOUS
<1>4. p \in Nodes /\ p = q[1] /\ 1 \in 1 .. Len(q)
  BY <1>1, <1>3
<1>5. p \in WithFail /\ p # Root
  BY <1>1, <1>4 DEF QueueInv
<1>6. PICK kids : kids = Children(p)
  OBVIOUS
<1>7. /\ trie' = [n \in Nodes |-> IF n \in kids THEN Linked(n) ELSE trie[n]]
      /\ \E order \in SetToSeqs(kids) : q' = Tail(q) \o order
  BY <1>3, <1>6 DEF FillNode
<1>8. PICK order \in SetToSeqs(kids) : q' = Tail(q) \o order
  BY <1>7
<1>9. ASSUME NEW c \in kids
      PROVE  /\ c \in Nodes /\ c # Root /\ Front(c) = p /\ Len(c) = Len(p) + 1
             /\ c \notin WithFail
  <2>1. c \in Nodes /\ c # Root /\ Front(c) = p /\ Len(c) = Len(p) + 1
    BY <1>1, <1>4, <1>6, ChildIs
  <2>2. c \notin WithFail
    BY <1>4, <1>6 DEF LinksInv
  <2> QED
    BY <2>1, <2>2
<1>10. Nodes' = Nodes
  BY <1>7 DEF Nodes
<1>11. ASSUME NEW c \in kids
       PROVE  /\ trie'[c] = Linked(c) /\ Linked(c).is_end = trie[c].is_end
              /\ Linked(c).fail \in Nodes
  <2>1. trie'[c] = Linked(c)
    BY <1>7, <1>9
  <2>2. c \in Children(Head(q))
    BY <1>3, <1>6
  <2>3. Linked(c).is_end = trie[c].is_end /\ Linked(c).fail \in WithFail
    BY <1>1, <2>2, LinkedIs
  <2> QED
    BY <2>1, <2>3 DEF WithFail
<1>12. ASSUME NEW n \in Nodes, n \notin kids PROVE trie'[n] = trie[n]
  BY <1>7, <1>12
<1>13. Enders' = Enders
  <2>1. \A n \in Nodes : trie'[n].is_end = trie[n].is_end
    BY <1>11, <1>12
  <2> QED
    BY <2>1, <1>10 DEF Enders
<1>14. WithFail' = WithFail \cup kids
  <2>1. ASSUME NEW n \in Nodes PROVE n \in WithFail' <=> n \in WithFail \cup kids
    <3>1. (n \in WithFail' <=> trie'[n].fail # Null) /\ (n \in WithFail <=> trie[n].fail # Null)
      BY <1>10 DEF WithFail
    <3>2. n \in kids => trie'[n].fail # Null
      BY <1>1, <1>11, NotNull DEF TrieType
    <3> QED
      BY <3>1, <3>2, <1>12
  <2> QED
    BY <2>1, <1>9, <1>10 DEF WithFail
<1>15. IsFiniteSet(kids) /\ kids \subseteq Nodes
  <2>1. kids \subseteq Nodes
    BY <1>9
  <2> QED
    BY <2>1, <1>1, FS_Subset DEF TrieType
<1>16. order \in Seq(kids) /\ \A i, j \in 1 .. Len(order) : i # j => order[i] # order[j]
  BY <1>15, OrderIs
<1>17. PICK t : t = Tail(q)
  OBVIOUS
<1>18. t \in Seq(Nodes) /\ Len(q) = Len(t) + 1 /\ Len(t) \in Nat
       /\ \A i \in 1 .. Len(t) : t[i] = q[i + 1]
  BY <1>1, <1>17
<1>19. ASSUME NEW i \in 1 .. Len(t)
       PROVE  /\ t[i] \in WithFail /\ t[i] # p /\ \A c \in Children(t[i]) : c \notin WithFail
              /\ \A j \in 1 .. Len(t) : i # j => t[i] # t[j]
  <2>1. i + 1 \in 1 .. Len(q) /\ i + 1 # 1 /\ t[i] = q[i + 1]
    BY <1>18
  <2>2. t[i] \in WithFail
    BY <2>1, <1>1 DEF QueueInv
  <2>3. t[i] # p /\ \A c \in Children(t[i]) : c \notin WithFail
    BY <2>1, <1>4 DEF LinksInv
  <2>4. ASSUME NEW j \in 1 .. Len(t), i # j PROVE t[i] # t[j]
    <3>1. j + 1 \in 1 .. Len(q) /\ i + 1 # j + 1 /\ t[j] = q[j + 1]
      BY <2>4, <1>18
    <3> QED
      BY <2>1, <3>1 DEF LinksInv
  <2> QED
    BY <2>2, <2>3, <2>4
<1>20. PICK b : b = q'
  OBVIOUS
<1>21. /\ Len(b) = Len(t) + Len(order) /\ Len(order) \in Nat
       /\ \A i \in 1 .. Len(b) : b[i] = IF i <= Len(t) THEN t[i] ELSE order[i - Len(t)]
  <2>1. b = t \o order
    BY <1>8, <1>17, <1>20
  <2>2. order \in Seq(Nodes)
    BY <1>15, <1>16
  <2> QED
    BY <2>1, <2>2, <1>18
<1>22. ASSUME NEW i \in 1 .. Len(b)
       PROVE  \/ i \in 1 .. Len(t) /\ b[i] = t[i]
              \/ \E k \in 1 .. Len(order) : i = Len(t) + k /\ b[i] = order[k]
  <2>1. CASE i <= Len(t)
    BY <2>1, <1>18, <1>21
  <2>2. CASE ~(i <= Len(t))
    <3>1. i - Len(t) \in 1 .. Len(order) /\ i = Len(t) + (i - Len(t))
      BY <2>2, <1>18, <1>21
    <3> QED
      BY <3>1, <2>2, <1>21
  <2> QED
    BY <2>1, <2>2
<1>23. \A k \in 1 .. Len(order) : order[k] \in kids
  BY <1>16
<1>24. \A i, j \in 1 .. Len(b) : i # j => b[i] # b[j]
  <2> SUFFICES ASSUME NEW i \in 1 .. Len(b), NEW j \in 1 .. Len(b), i # j PROVE b[i] # b[j]
    OBVIOUS
  <2>1. CASE i \in 1 .. Len(t) /\ b[i] = t[i]
    <3>1. CASE j \in 1 .. Len(t) /\ b[j] = t[j]
      BY <2>1, <3>1, <1>19
    <3>2. ASSUME NEW k \in 1 .. Len(order), b[j] = order[k] PROVE b[i] # b[j]
      BY <2>1, <3>2, <1>9, <1>19, <1>23
    <3> QED
      BY <3>1, <3>2, <1>22
  <2>2. ASSUME NEW k \in 1 .. Len(order), i = Len(t) + k, b[i] = order[k] PROVE b[i] # b[j]
    <3>1. CASE j \in 1 .. Len(t) /\ b[j] = t[j]
      BY <2>2, <3>1, <1>9, <1>19, <1>23
    <3>2. ASSUME NEW m \in 1 .. Len(order), j = Len(t) + m, b[j] = order[m] PROVE b[i] # b[j]
      <4>1. k # m
        BY <2>2, <3>2
      <4> QED
        BY <4>1, <2>2, <3>2, <1>16
    <3> QED
      BY <3>1, <3>2, <1>22
  <2> QED
    BY <2>1, <2>2, <1>22
<1>25. ASSUME NEW n \in Nodes, NEW c \in Nodes, Front(c) = n, Len(c) = Len(n) + 1,
              (n \in WithFail /\ n # p /\ \A y \in Children(n) : y \notin WithFail) \/ n \in kids
       PROVE  c \notin WithFail'
  <2>1. c \in Children(n)
    BY <1>25 DEF Children
  <2>2. c \notin kids
    <3>1. n # p
      BY <1>5, <1>9, <1>25
    <3> QED
      BY <3>1, <1>9, <1>25
  <2>3. c \notin WithFail
    <3>1. CASE n \in kids
      <4>1. c # Root
        <5>1. n \in Seq(Nat) /\ Len(n) \in Nat
          BY <1>1 DEF TrieType, Ids
        <5>2. Len(Root) = 0
          BY DEF Root
        <5> QED
          BY <5>1, <5>2, <1>25
      <4>2. n \notin WithFail
        BY <3>1, <1>9
      <4> QED
        BY <4>1, <4>2, <1>25 DEF LinksInv
    <3>2. CASE n \notin kids
      BY <2>1, <3>2, <1>25
    <3> QED
      BY <3>1, <3>2
  <2> QED
    BY <2>2, <2>3, <1>14
<1>26. LinksInv'
  <2>1. ASSUME NEW i \in 1 .. Len(b), NEW c \in Nodes, Len(c) = Len(b[i]) + 1, Front(c) = b[i]
        PROVE  c \notin WithFail'
    <3>1. CASE i \in 1 .. Len(t) /\ b[i] = t[i]
      <4>1. t[i] \in Nodes
        BY <3>1, <1>18
      <4>2. t[i] \in WithFail /\ t[i] # p /\ \A y \in Children(t[i]) : y \notin WithFail
        BY <3>1, <1>19
      <4> QED
        BY <4>1, <4>2, <3>1, <2>1, <1>25
    <3>2. ASSUME NEW k \in 1 .. Len(order), b[i] = order[k] PROVE c \notin WithFail'
      <4>1. b[i] \in kids /\ b[i] \in Nodes
        BY <3>2, <1>15, <1>23
      <4> QED
        BY <4>1, <2>1, <1>25
    <3> QED
      BY <3>1, <3>2, <1>22
  <2>2. ASSUME NEW n \in WithFail' PROVE n = Root \/ Front(n) \in WithFail'
    <3>1. CASE n \in kids
      BY <3>1, <1>5, <1>9, <1>14
    <3>2. CASE n \in WithFail
      BY <3>2, <1>14 DEF LinksInv
    <3> QED
      BY <3>1, <3>2, <1>14
  <2>3. \A i \in 1 .. Len(b) : \A c \in Nodes :
           Len(c) = Len(b[i]) + 1 /\ Front(c) = b[i] => c \notin WithFail'
    BY <2>1
  <2> QED
    BY <1>10, <1>20, <1>24, <2>2, <2>3 DEF LinksInv, Children
<1>27. Uniform' <=> Uniform
  BY <1>2 DEF Uniform
<1>28. Each' = Each
  BY <1>2, Zenon DEF Each
<1> SUFFICES ASSUME Uniform PROVE ScoresInv'
  BY <1>26, <1>27 DEF ScoresInv
<1>29. PICK k \in Int : k = Each
  BY <1>1, EachIs DEF GraphType
<1>30. ASSUME NEW n \in Nodes \ {Root}
       PROVE  /\ trie'[n].token_score = k /\ trie'[n].node_score = Times(k, Len(n))
              /\ n \in WithFail' =>
                    trie'[n].output_score = Times(k, SumLen(EndingIn(Enders, n)))
              /\ n \notin WithFail' =>
                    trie'[n].output_score = IF n \in Enders THEN Times(k, Len(n)) ELSE 0
  <2>1. CASE n \in kids
    <3>1. n \in Children(Head(q))
      BY <2>1, <1>3, <1>6
    <3>2. /\ Linked(n).token_score = Each /\ Linked(n).node_score = Times(Each, Len(n))
          /\ Linked(n).output_score = Times(Each, SumLen(EndingIn(Enders, n)))
      BY <3>1, <1>1, LinkedScores
    <3> QED
      BY <3>2, <2>1, <1>11, <1>14, <1>29
  <2>2. CASE n \notin kids
    <3>1. trie'[n] = trie[n] /\ (n \in WithFail' <=> n \in WithFail)
      BY <2>2, <1>12, <1>14
    <3> QED
      BY <3>1, <1>29 DEF ScoresInv
  <2> QED
    BY <2>1, <2>2
<1>31. trie'[Root].node_score = 0 /\ trie'[Root].output_score = 0
  <2>1. Root \in Nodes /\ Root \notin kids
    BY <1>1, <1>9 DEF TrieType
  <2> QED
    BY <2>1, <1>12 DEF ScoresInv
<1> QED
  BY <1>10, <1>13, <1>28, <1>29, <1>30, <1>31 DEF ScoresInv

\* The invariant of the graph with its scores.
ScoredInv == GraphInv /\ LinksInv /\ ScoresInv

\* The trie of no keywords.
LEMMA ScoresBegin == GraphInit => ScoredInv
<1> SUFFICES ASSUME GraphInit PROVE ScoredInv
  OBVIOUS
<1>1. GraphInv
  BY GraphBegins
<1>2. ~ready /\ q = <<>> /\ trie = [node \in {Root} |-> [Node EXCEPT !.fail = Root]]
  BY DEF GraphInit
<1>3. WithFail = {Root} /\ Nodes = {Root}
  BY <1>1, <1>2, Unlinked DEF Nodes
<1>4. LinksInv
  <2>1. 1 .. Len(q) = {}
    BY <1>2
  <2> QED
    BY <1>3, <2>1 DEF LinksInv
<1>5. trie[Root].node_score = 0 /\ trie[Root].output_score = 0
  <2>1. trie[Root] = [Node EXCEPT !.fail = Root]
    BY <1>2
  <2> QED
    BY <2>1 DEF Node
<1>6. ScoresInv
  BY <1>3, <1>5 DEF ScoresInv
<1> QED
  BY <1>1, <1>4, <1>6 DEF ScoredInv

\* It is kept.
LEMMA ScoresInvariance == ScoredInv /\ [Construct]_graph => ScoredInv'
<1> SUFFICES ASSUME ScoredInv, [Construct]_graph PROVE ScoredInv'
  OBVIOUS
<1>1. GraphInv'
  BY GraphInvariance DEF ScoredInv
<1>2. CASE Construct
  BY <1>1, <1>2, BuildScores, FillBeginsScores, FillNodeScores DEF Construct, ScoredInv
<1>3. CASE UNCHANGED graph
  <2>1. keywords' = keywords /\ trie' = trie /\ q' = q
    BY <1>3 DEF graph
  <2>2. Nodes' = Nodes /\ WithFail' = WithFail /\ Enders' = Enders
    BY <2>1 DEF Nodes, WithFail, Enders
  <2>3. Each' = Each /\ (Uniform' <=> Uniform)
    BY <2>1, Zenon DEF Each, Uniform
  <2>4. LinksInv => LinksInv'
    BY <2>1, <2>2, Zenon DEF LinksInv, Children
  <2>5. ScoresInv => ScoresInv'
    BY <2>1, <2>2, <2>3, Zenon DEF ScoresInv
  <2> QED
    BY <1>1, <2>4, <2>5 DEF ScoredInv
<1> QED
  BY <1>2, <1>3

\* Every step of the finished graph gives what it should.
LEMMA ReadyAddsUp == ScoredInv /\ ready /\ Uniform => BoostsTelescope
<1> SUFFICES ASSUME ScoredInv, ready, Uniform, NEW node \in Nodes, NEW token \in Tokens
             PROVE  LET step == ForwardOneStep(node, token)
                        met == EndingIn(KeywordIds, step.node)
                        score == Default(keywords[1].score, ContextScore)
                    IN  step.boost = score * (Len(step.node) - Len(node)
                                              + MapThenSumSet(Len, met))
  BY DEF BoostsTelescope
<1>1. /\ GraphInv /\ GraphType /\ TrieType /\ keywords \in Seq(KeywordRecord)
      /\ LinksInv /\ ScoresInv
  BY DEF ScoredInv, GraphInv, GraphType
<1>2. Nodes \subseteq Ids /\ KeywordIds = Enders /\ KeywordIds \subseteq Nodes /\ Root \in Nodes
  BY <1>1, ReadyGraph
<1>3. PICK ids \in KeywordIds : token \in ToSet(ids)
  BY DEF Tokens
<1>4. token \in Nat
  <2>1. ids \in Seq(Nat)
    BY <1>2 DEF Ids
  <2> QED
    BY <2>1, <1>3, ToSetIs
<1>5. PICK c \in Int : c = Each
  BY <1>1, EachIs
<1>6. Default(keywords[1].score, ContextScore) = c
  <2>1. keywords # <<>>
    BY DEF KeywordIds
  <2> QED
    BY <2>1, <1>5 DEF Each
<1>7. PICK x : x = Climb(token)[node]
  OBVIOUS
<1>8. x \in Nodes
  BY <1>1, <1>4, <1>7, ReadyGraph DEF IsLongest
<1>9. Nodes = WithFail
  <2>1. q = <<>>
    BY <1>1 DEF GraphInv
  <2> QED
    BY <1>1, <2>1, QueueAhead
<1>10. PICK s : s = SumLen(EndingIn(Enders, x))
  OBVIOUS
<1>11. s \in Nat
  <2>1. IsFiniteSet(EndingIn(Enders, x)) /\ EndingIn(Enders, x) \subseteq Ids
    <3>1. EndingIn(Enders, x) \subseteq Nodes
      BY <1>2 DEF EndingIn
    <3> QED
      BY <3>1, <1>1, <1>2, FS_Subset DEF TrieType
  <2> QED
    BY <2>1, <1>10, SumLenLess
<1>12. Len(Root) = 0 /\ \A n \in Nodes : n \in Seq(Nat) /\ Len(n) \in Nat
  BY <1>2 DEF Ids, Root
<1>13. ASSUME NEW n \in Nodes
       PROVE  trie[n].node_score = Times(c, Len(n)) /\ (n # Root => trie[n].token_score = c)
  <2>1. CASE n = Root
    <3>1. Times(c, 0) = 0
      BY TimesIs
    <3> QED
      BY <2>1, <3>1, <1>1, <1>12 DEF ScoresInv
  <2>2. CASE n # Root
    BY <2>2, <1>1, <1>5 DEF ScoresInv
  <2> QED
    BY <2>1, <2>2
<1>14. trie[x].output_score = Times(c, s)
  <2>1. CASE x = Root
    <3>1. EndingIn(Enders, Root) = {}
      <4>1. ASSUME NEW y \in Enders PROVE ~IsSuffix(y, Root)
        <5>1. y \in Seq(Nat) /\ y # <<>> /\ Root \in Seq(Nat)
          BY <1>1, <1>2, <1>12 DEF GraphInv, EndsOfKeywords, Root
        <5>2. Len(y) \in Nat /\ Len(y) # 0
          BY <5>1
        <5>3. IsSuffix(y, Root) => EndsIn(y, Len(y), Root, Len(Root))
          BY <5>1, SuffixBy, Zenon
        <5> QED
          BY <5>2, <5>3, <1>12 DEF EndsIn
      <4> QED
        BY <4>1 DEF EndingIn
    <3>2. IsFiniteSet({}) /\ {} \subseteq Ids
      BY FS_EmptySet
    <3>3. s = 0
      BY <2>1, <3>1, <3>2, <1>10, SumLenLess
    <3>4. Times(c, 0) = 0
      BY TimesIs
    <3> QED
      BY <2>1, <3>3, <3>4, <1>1 DEF ScoresInv
  <2>2. CASE x # Root
    BY <2>2, <1>1, <1>5, <1>8, <1>9, <1>10 DEF ScoresInv
  <2> QED
    BY <2>1, <2>2
<1>15. PICK a \in Nat, b \in Nat : a = Len(x) /\ b = Len(node)
  BY <1>8, <1>12
<1>16. StepScore(node, x) = c * (a - b)
  <2>1. CASE x # Root /\ Front(x) = node
    <3>1. x \in Seq(Nat) /\ x # <<>>
      BY <2>1, <1>8, <1>12 DEF Root
    <3>2. Len(Front(x)) = Len(x) - 1
      BY <3>1, FrontIs
    <3>3. a - b = 1
      BY <3>2, <2>1, <1>15
    <3>4. StepScore(node, x) = c
      BY <2>1, <1>8, <1>13 DEF StepScore
    <3> QED
      BY <3>3, <3>4
  <2>2. CASE ~(x # Root /\ Front(x) = node)
    <3>1. StepScore(node, x) = trie[x].node_score - trie[node].node_score
      BY <2>2 DEF StepScore
    <3>2. StepScore(node, x) = c * a - c * b
      BY <3>1, <1>8, <1>13, <1>15 DEF Times
    <3>3. \A k, m, n \in Int : k * m - k * n = k * (m - n)
      OBVIOUS
    <3> QED
      BY <3>2, <3>3
  <2> QED
    BY <2>1, <2>2
<1>17. ForwardOneStep(node, token).node = x
       /\ ForwardOneStep(node, token).boost = StepScore(node, x) + trie[x].output_score
  BY <1>7 DEF ForwardOneStep
<1>18. ForwardOneStep(node, token).boost = c * (a - b + s)
  <2>1. \A k, m, n \in Int : k * m + k * n = k * (m + n)
    OBVIOUS
  <2>2. trie[x].output_score = c * s
    BY <1>14 DEF Times
  <2> QED
    BY <2>1, <2>2, <1>11, <1>16, <1>17
<1>19. MapThenSumSet(Len, EndingIn(KeywordIds, x)) = s
  BY <1>2, <1>10 DEF SumLen
<1> QED
  BY <1>6, <1>15, <1>17, <1>18, <1>19

\* The graph and its scores are always as the invariant says, while ContextGraph::Build
\* puts the keywords in and FillFailOutput sums up the scores along the links.
THEOREM ScoresInvariant == Spec => []ScoredInv
<1>1. Init => ScoredInv
  BY ScoresBegin DEF Init
<1>2. ScoredInv /\ [Next]_vars => ScoredInv'
  BY GraphStep, ScoresInvariance
<1> QED
  BY <1>1, <1>2, PTL DEF Spec

\* For all lists of keywords of one score, be it given or the default: whatever step
\* ContextGraph::ForwardOneStep takes, forward or back along fail links, it gives that score
\* for every token the hypothesis is longer by, takes it back for every one it is shorter by,
\* and gives it for all tokens of all keywords that end there.
THEOREM KeywordBoostsAddUp == Spec => BoostsAddUp
<1>1. ScoredInv' /\ ready' /\ Uniform' => BoostsTelescope'
  <2>1. ScoredInv /\ ready /\ Uniform => BoostsTelescope
    BY ReadyAddsUp
  <2> QED
    BY <2>1, PTL
<1>2. [Next]_vars /\ Uniform => Uniform'
  BY GraphStep DEF Uniform
<1>3. ScoredInv' /\ [Next]_vars => [(~ready /\ ready' /\ Uniform) => BoostsTelescope']_graph
  BY <1>1, <1>2
<1> QED
  BY <1>3, ScoresInvariant, PTL DEF BoostsAddUp, Spec
=============================================================================
