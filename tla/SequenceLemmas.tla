---------------------------- MODULE SequenceLemmas ----------------------------
(***************************************************************************)
(* Lemmas about sequences, and induction.  The induction theorems of the   *)
(* library take a predicate, which the provers cannot instantiate; here    *)
(* induction is for a set of numbers or of sequences, and follows from the *)
(* least element of a set.  Loops over a sequence are recursive functions  *)
(* in the models: the lemmas about Folds say that there is one and what    *)
(* one more element does to it.                                            *)
(***************************************************************************)
EXTENDS SequencesExt, WellFoundedInduction, SequenceTheorems, TLAPS

-----------------------------------------------------------------------------
(* Induction.                                                              *)

\* A set of naturals that is not empty has a least element.
LEMMA LeastNatural ==
    ASSUME NEW T, T \subseteq Nat, T # {}
    PROVE  \E x \in T : \A y \in T : x <= y
<1>1. PICK x \in T : \A y \in T : ~(<<y, x>> \in OpToRel(<, Nat))
  BY NatLessThanWellFounded, WFMin, Zenon
<1>2. \A y \in T : ~(y < x)
  BY <1>1, Zenon DEF OpToRel
<1> QED BY <1>2

\* Induction, for the set of numbers of which something holds.
LEMMA Induction ==
    ASSUME NEW T, 0 \in T, \A n \in Nat : n \in T => n + 1 \in T
    PROVE  \A n \in Nat : n \in T
<1> SUFFICES ASSUME NEW m \in Nat, m \notin T PROVE FALSE
  OBVIOUS
<1>1. PICK x \in Nat \ T : \A y \in Nat \ T : x <= y
  <2>1. Nat \ T # {} OBVIOUS
  <2>2. Nat \ T \subseteq Nat OBVIOUS
  <2> QED BY <2>1, <2>2, LeastNatural, Zenon
<1>2. x # 0 OBVIOUS
<1>3. x - 1 \in Nat /\ x - 1 \in T BY <1>1, <1>2
<1>4. (x - 1) + 1 \in T BY <1>3
<1> QED BY <1>4, <1>1

-----------------------------------------------------------------------------
(***************************************************************************)
(* A recursive function over the prefixes of a sequence: f[n] is what Op   *)
(* makes of the first n elements of q, one after the other, from base on.  *)
(***************************************************************************)
FoldsTo(m, f, q, base, Op) ==
    f[0] = base /\ \A n \in 1 .. m : f[n] = Op[<<f[n - 1], q[n]>>]
\* f folds the whole of q.
Folds(f, q, base, Op) == FoldsTo(Len(q), f, q, base, Op)

\* There is one.
LEMMA FoldExists ==
    ASSUME NEW S, NEW E, NEW base \in S, NEW Op \in [S \X E -> S], NEW q \in Seq(E)
    PROVE  \E f \in [0 .. Len(q) -> S] : Folds(f, q, base, Op)
<1> DEFINE T == {m \in Nat : m <= Len(q) => \E f \in [0 .. m -> S] : FoldsTo(m, f, q, base, Op)}
<1>1. 0 \in T
  <2> DEFINE f == [n \in 0 .. 0 |-> base]
  <2>1. f \in [0 .. 0 -> S] /\ FoldsTo(0, f, q, base, Op) BY DEF FoldsTo
  <2> QED BY <2>1
<1>2. ASSUME NEW m \in Nat, m \in T PROVE m + 1 \in T
  <2> SUFFICES ASSUME m + 1 <= Len(q)
               PROVE  \E g \in [0 .. m + 1 -> S] : FoldsTo(m + 1, g, q, base, Op)
    OBVIOUS
  <2>1. PICK f \in [0 .. m -> S] : FoldsTo(m, f, q, base, Op) BY <1>2
  <2> DEFINE e == q[m + 1]
             g == [n \in 0 .. m + 1 |-> IF n = m + 1 THEN Op[<<f[m], e>>] ELSE f[n]]
  <2>2. e \in E OBVIOUS
  <2> HIDE DEF e
  <2>3. Op[<<f[m], e>>] \in S BY <2>2
  <2>4. g \in [0 .. m + 1 -> S] BY <2>3
  <2>5. g[m + 1] = Op[<<f[m], e>>] OBVIOUS
  <2>6. \A n \in 0 .. m : g[n] = f[n] OBVIOUS
  <2> HIDE DEF g
  <2>7. ASSUME NEW n \in 1 .. m + 1 PROVE g[n] = Op[<<g[n - 1], q[n]>>]
    <3>1. n - 1 \in 0 .. m /\ g[n - 1] = f[n - 1] BY <2>6
    <3>2. CASE n = m + 1
      <4>1. n - 1 = m BY <3>2
      <4> QED BY <3>1, <3>2, <4>1, <2>5, Zenon DEF e
    <3>3. CASE n # m + 1
      <4>1. n \in 1 .. m /\ n \in 0 .. m BY <3>3
      <4> QED BY <4>1, <3>1, <2>1, <2>6, Zenon DEF FoldsTo
    <3> QED BY <3>2, <3>3
  <2>8. g[0] = base BY <2>1, <2>6 DEF FoldsTo
  <2> QED BY <2>4, <2>7, <2>8 DEF FoldsTo
<1> HIDE DEF T
<1>3. \A m \in Nat : m \in T BY <1>1, <1>2, Induction, Zenon
<1>4. Len(q) \in T BY <1>3
<1>5. Len(q) \in Nat /\ Len(q) <= Len(q) OBVIOUS
<1> QED BY <1>4, <1>5 DEF T, Folds

\* Two functions agree that agree at the start and, where they agree, one further.
LEMMA Agree ==
    ASSUME NEW m \in Nat, NEW f, NEW g, f[0] = g[0],
           \A n \in 1 .. m : f[n - 1] = g[n - 1] => f[n] = g[n]
    PROVE  f[m] = g[m]
<1> DEFINE T == {n \in Nat : n <= m => f[n] = g[n]}
<1>1. 0 \in T OBVIOUS
<1>2. ASSUME NEW n \in Nat, n \in T PROVE n + 1 \in T
  <2>1. CASE n + 1 <= m
    <3>1. n + 1 \in 1 .. m /\ (n + 1) - 1 = n BY <2>1
    <3>2. f[n] = g[n] BY <1>2, <2>1
    <3> QED BY <3>1, <3>2
  <2> QED BY <2>1
<1> HIDE DEF T
<1>3. \A n \in Nat : n \in T BY <1>1, <1>2, Induction, Zenon
<1> QED BY <1>3 DEF T

\* Two such functions over the same elements are the same.
LEMMA FoldsAgree ==
    ASSUME NEW base, NEW Op, NEW m \in Nat, NEW q, NEW f, NEW g,
           FoldsTo(m, f, q, base, Op), FoldsTo(m, g, q, base, Op)
    PROVE  f[m] = g[m]
<1>1. ASSUME NEW n \in 1 .. m, f[n - 1] = g[n - 1] PROVE f[n] = g[n]
  <2>1. f[n] = Op[<<f[n - 1], q[n]>>] /\ g[n] = Op[<<g[n - 1], q[n]>>] BY DEF FoldsTo
  <2> QED BY <1>1, <2>1
<1>2. f[0] = g[0] BY DEF FoldsTo
<1> QED BY <1>1, <1>2, Agree, Zenon

\* The first m elements of a are those of q.
SameFirst(m, a, q) == \A n \in 1 .. m : a[n] = q[n]

\* A fold of a longer sequence is, up to there, one of its beginning.
LEMMA FoldsOneMore ==
    ASSUME NEW base, NEW Op, NEW m \in Nat, NEW q, NEW a, NEW g, NEW k, k = m + 1,
           FoldsTo(k, g, a, base, Op), SameFirst(m, a, q)
    PROVE  FoldsTo(m, g, q, base, Op)
BY DEF FoldsTo, SameFirst

-----------------------------------------------------------------------------
(* Sequences, one element longer or shorter.                               *)

\* A sequence with one element more.
LEMMA AppendIs ==
    ASSUME NEW S, NEW q \in Seq(S), NEW s \in S
    PROVE  /\ Append(q, s) \in Seq(S) /\ Len(q) \in Nat /\ Len(Append(q, s)) = Len(q) + 1
           /\ Append(q, s)[Len(q) + 1] = s
           /\ \A n \in 1 .. Len(q) : Append(q, s)[n] = q[n]
OBVIOUS

\* What is made of one element more.
LEMMA FoldsAppend ==
    ASSUME NEW E, NEW q \in Seq(E), NEW s \in E, NEW base, NEW Op, NEW f, NEW g,
           Folds(f, q, base, Op), Folds(g, Append(q, s), base, Op)
    PROVE  g[Len(Append(q, s))] = Op[<<f[Len(q)], s>>]
<1>1. PICK a : a = Append(q, s) OBVIOUS
<1>2. PICK m \in Nat, k \in Nat : Len(q) = m /\ k = m + 1
  <2>1. Len(q) \in Nat /\ Len(q) + 1 \in Nat OBVIOUS
  <2> QED BY <2>1
<1>3. a \in Seq(E) /\ Len(a) = k /\ a[k] = s /\ \A n \in 1 .. m : a[n] = q[n]
  BY <1>1, <1>2, AppendIs
<1>4. FoldsTo(m, f, q, base, Op) BY <1>2, Zenon DEF Folds
<1>5. FoldsTo(k, g, a, base, Op) BY <1>1, <1>3, Zenon DEF Folds
<1>6. SameFirst(m, a, q) BY <1>3, Zenon DEF SameFirst
<1>7. FoldsTo(m, g, q, base, Op) BY <1>5, <1>6, <1>2, FoldsOneMore
<1>8. g[k] = Op[<<g[m], a[k]>>]
  <2>1. k \in 1 .. k /\ k - 1 = m BY <1>2
  <2> QED BY <2>1, <1>5, Zenon DEF FoldsTo
<1>9. f[m] = g[m] BY <1>4, <1>7, FoldsAgree
<1> QED BY <1>1, <1>2, <1>3, <1>8, <1>9, Zenon

\* Induction over the sequences of a set, for the set of those of which
\* something holds.
LEMMA SequenceInduction ==
    ASSUME NEW S, NEW T, <<>> \in T,
           \A q \in Seq(S), s \in S : q \in T => Append(q, s) \in T
    PROVE  \A q \in Seq(S) : q \in T
<1> DEFINE N == {n \in Nat : \A q \in Seq(S) : Len(q) = n => q \in T}
<1>1. 0 \in N
  <2>1. \A q \in Seq(S) : Len(q) = 0 => q = <<>> OBVIOUS
  <2> QED BY <2>1
<1>2. ASSUME NEW n \in Nat, n \in N PROVE n + 1 \in N
  <2> SUFFICES ASSUME NEW q \in Seq(S), Len(q) = n + 1 PROVE q \in T
    OBVIOUS
  <2> DEFINE p == SubSeq(q, 1, n)
  <2>1. p \in Seq(S) /\ Len(p) = n /\ q[n + 1] \in S OBVIOUS
  <2>2. q = Append(p, q[n + 1]) OBVIOUS
  <2>3. p \in T BY <1>2, <2>1
  <2> HIDE DEF p
  <2> QED BY <2>1, <2>2, <2>3
<1> HIDE DEF N
<1>3. \A n \in Nat : n \in N BY <1>1, <1>2, Induction, Zenon
<1>4. ASSUME NEW q \in Seq(S) PROVE q \in T
  <2>1. Len(q) \in Nat OBVIOUS
  <2> QED BY <1>3, <2>1, Zenon DEF N
<1> QED BY <1>4

\* The front and the rest of a sequence with one element more.
LEMMA TailAppend ==
    ASSUME NEW S, NEW q \in Seq(S), NEW s \in S
    PROVE  /\ q = <<>> => Tail(Append(q, s)) = <<>> /\ Head(Append(q, s)) = s
           /\ q # <<>> => /\ Tail(Append(q, s)) = Append(Tail(q), s)
                          /\ Head(Append(q, s)) = Head(q)
                          /\ Tail(q) \in Seq(S) /\ Head(q) \in S
OBVIOUS

\* A sequence with one element more at its front.
LEMMA PushFrontIs ==
    ASSUME NEW S, NEW q \in Seq(S), NEW s \in S
    PROVE  /\ <<s>> \o q \in Seq(S) /\ <<s>> \o q # <<>>
           /\ Tail(<<s>> \o q) = q /\ Head(<<s>> \o q) = s
           /\ Len(<<s>> \o q) = Len(q) + 1
OBVIOUS

\* The elements of a sequence with one more.
LEMMA ToSetAppend ==
    ASSUME NEW S, NEW q \in Seq(S), NEW s \in S
    PROVE  ToSet(Append(q, s)) = ToSet(q) \cup {s}
<1>1. PICK a : a = Append(q, s) OBVIOUS
<1>2. a \in Seq(S) /\ Len(q) \in Nat /\ Len(a) = Len(q) + 1 /\ a[Len(q) + 1] = s
      /\ \A n \in 1 .. Len(q) : a[n] = q[n]
  BY <1>1, AppendIs
<1>3. DOMAIN q = 1 .. Len(q) /\ DOMAIN a = 1 .. Len(a) OBVIOUS
<1>4. ToSet(a) = ToSet(q) \cup {s} BY <1>2, <1>3 DEF ToSet
<1> QED BY <1>1, <1>4

\* Two sequences in a row.
LEMMA ConcatIs ==
    ASSUME NEW S, NEW a \in Seq(S), NEW b \in Seq(S)
    PROVE  /\ a \o b \in Seq(S) /\ Len(a \o b) = Len(a) + Len(b)
           /\ Len(a) \in Nat /\ Len(b) \in Nat
           /\ \A n \in 1 .. Len(a) : (a \o b)[n] = a[n]
           /\ \A n \in 1 .. Len(b) : (a \o b)[Len(a) + n] = b[n]
OBVIOUS

\* The elements of a sequence, by their places.
LEMMA ToSetIs ==
    ASSUME NEW S, NEW a \in Seq(S)
    PROVE  ToSet(a) = {a[n] : n \in 1 .. Len(a)} /\ ToSet(a) \subseteq S
BY DEF ToSet

\* The elements of two sequences in a row.
LEMMA ToSetConcat ==
    ASSUME NEW S, NEW a \in Seq(S), NEW b \in Seq(S)
    PROVE  ToSet(a \o b) = ToSet(a) \cup ToSet(b)
<1>1. PICK c : c = a \o b OBVIOUS
<1>2. c \in Seq(S) /\ Len(c) = Len(a) + Len(b) /\ Len(a) \in Nat /\ Len(b) \in Nat
      /\ (\A n \in 1 .. Len(a) : c[n] = a[n]) /\ (\A n \in 1 .. Len(b) : c[Len(a) + n] = b[n])
  BY <1>1, ConcatIs
<1>3. ToSet(a) = {a[n] : n \in 1 .. Len(a)} /\ ToSet(b) = {b[n] : n \in 1 .. Len(b)}
      /\ ToSet(c) = {c[n] : n \in 1 .. Len(c)}
  BY <1>2, ToSetIs
<1>4. ToSet(a) \subseteq ToSet(c) BY <1>2, <1>3
<1>5. ToSet(b) \subseteq ToSet(c)
  <2> SUFFICES ASSUME NEW n \in 1 .. Len(b) PROVE b[n] \in ToSet(c) BY <1>3
  <2>1. Len(a) + n \in 1 .. Len(c) BY <1>2
  <2> QED BY <2>1, <1>2, <1>3
<1>6. ToSet(c) \subseteq ToSet(a) \cup ToSet(b)
  <2> SUFFICES ASSUME NEW n \in 1 .. Len(c) PROVE c[n] \in ToSet(a) \cup ToSet(b) BY <1>3
  <2>1. CASE n <= Len(a) BY <2>1, <1>2, <1>3
  <2>2. CASE n > Len(a)
    <3>1. PICK i \in 1 .. Len(b) : n = Len(a) + i
      <4>1. n - Len(a) \in 1 .. Len(b) /\ n = Len(a) + (n - Len(a)) BY <2>2, <1>2
      <4> QED BY <4>1
    <3> QED BY <3>1, <1>2, <1>3
  <2> QED BY <2>1, <2>2, <1>2
<1> QED BY <1>1, <1>4, <1>5, <1>6

\* The end of a sequence.
LEMMA SuffixIs ==
    ASSUME NEW S, NEW q \in Seq(S), NEW k \in 0 .. Len(q)
    PROVE  /\ SubSeq(q, k + 1, Len(q)) \in Seq(S)
           /\ Len(SubSeq(q, k + 1, Len(q))) = Len(q) - k
           /\ \A n \in 1 .. Len(q) - k : SubSeq(q, k + 1, Len(q))[n] = q[k + n]
           /\ k = 0 => SubSeq(q, k + 1, Len(q)) = q
OBVIOUS

\* It has no other elements.
LEMMA SuffixElements ==
    ASSUME NEW S, NEW q \in Seq(S), NEW k \in 0 .. Len(q)
    PROVE  ToSet(SubSeq(q, k + 1, Len(q))) \subseteq ToSet(q)
<1>1. PICK r : r = SubSeq(q, k + 1, Len(q)) OBVIOUS
<1>2. r \in Seq(S) /\ Len(r) = Len(q) - k /\ \A n \in 1 .. Len(r) : r[n] = q[k + n]
  BY <1>1, SuffixIs
<1>3. ToSet(r) = {r[n] : n \in 1 .. Len(r)} /\ ToSet(q) = {q[n] : n \in 1 .. Len(q)}
  BY <1>2, ToSetIs
<1>4. \A n \in 1 .. Len(r) : k + n \in 1 .. Len(q) BY <1>2
<1> QED BY <1>1, <1>2, <1>3, <1>4

\* Concatenation is associative.
LEMMA Concat3 ==
    ASSUME NEW S, NEW a \in Seq(S), NEW b \in Seq(S), NEW c \in Seq(S)
    PROVE  (a \o b) \o c = a \o (b \o c)
BY ConcatAssociative

\* An empty sequence adds nothing.
LEMMA ConcatNone ==
    ASSUME NEW S, NEW a \in Seq(S)
    PROVE  a \o <<>> = a /\ <<>> \o a = a
OBVIOUS

\* A sequence is its front and the rest.
LEMMA Split ==
    ASSUME NEW S, NEW q \in Seq(S), q # <<>>
    PROVE  /\ Head(q) \in S /\ Tail(q) \in Seq(S)
           /\ <<Head(q)>> \o Tail(q) = q
           /\ Len(Tail(q)) = Len(q) - 1
OBVIOUS

\* A sequence of one element.
LEMMA Single ==
    ASSUME NEW S, NEW q \in Seq(S), Len(q) = 1
    PROVE  q = <<q[1]>> /\ q[1] \in S
<1>1. q # <<>> /\ Head(q) = q[1] OBVIOUS
<1>2. Head(q) \in S /\ Tail(q) \in Seq(S) /\ <<Head(q)>> \o Tail(q) = q /\ Len(Tail(q)) = Len(q) - 1
  BY <1>1, Split, Zenon
<1>3. Tail(q) = <<>>
  <2>1. Len(Tail(q)) = 0 BY <1>2
  <2> QED BY <2>1, <1>2
<1>4. <<Head(q)>> \o <<>> = <<Head(q)>> OBVIOUS
<1> QED BY <1>1, <1>2, <1>3, <1>4, Zenon

\* Appending is concatenating.
LEMMA AppendConcat ==
    ASSUME NEW S, NEW q \in Seq(S), NEW s \in S
    PROVE  Append(q, s) = q \o <<s>> /\ <<s>> \in Seq(S)
OBVIOUS

\* The front of the queue is put behind what was before it.
LEMMA FrontMoves ==
    ASSUME NEW S, NEW b \in Seq(S), NEW q \in Seq(S), q # <<>>
    PROVE  /\ Append(b, Head(q)) \o Tail(q) = b \o q
           /\ (b \o <<Head(q)>>) \o Tail(q) = b \o q
<1>1. PICK h, t : h = Head(q) /\ t = Tail(q) OBVIOUS
<1>2. h \in S /\ t \in Seq(S) /\ <<h>> \o t = q BY <1>1, Split
<1>3. Append(b, h) = b \o <<h>> /\ <<h>> \in Seq(S) BY <1>2, AppendConcat
<1>4. (b \o <<h>>) \o t = b \o (<<h>> \o t) BY <1>2, <1>3, Concat3
<1> QED BY <1>1, <1>2, <1>3, <1>4, Zenon

-----------------------------------------------------------------------------
(* Suffixes of sequences.                                                  *)

\* A suffix, by its elements.
LEMMA SuffixMeans ==
    ASSUME NEW S, NEW a \in Seq(S), NEW b \in Seq(S)
    PROVE  IsSuffix(a, b) <=>
              Len(a) <= Len(b) /\ \A i \in 1 .. Len(a) : a[i] = b[Len(b) - Len(a) + i]
<1>1. PICK m \in Nat : m = Len(a)
  OBVIOUS
<1>2. PICK n \in Nat : n = Len(b)
  OBVIOUS
<1>3. PICK r, s : r = Reverse(a) /\ s = Reverse(b)
  OBVIOUS
<1>4. /\ r \in Seq(S) /\ Len(r) = m /\ \A i \in 1 .. m : r[i] = a[m - i + 1]
      /\ s \in Seq(S) /\ Len(s) = n /\ \A i \in 1 .. n : s[i] = b[n - i + 1]
  BY <1>1, <1>2, <1>3 DEF Reverse
<1>5. IsSuffix(a, b) <=> m <= n /\ SubSeq(r, 1, m) = SubSeq(s, 1, m)
  BY <1>3, <1>4, Zenon DEF IsSuffix, IsPrefix
<1>6. ASSUME m <= n
      PROVE  SubSeq(r, 1, m) = SubSeq(s, 1, m) <=> \A i \in 1 .. m : r[i] = s[i]
  BY <1>4, <1>6
<1>7. ASSUME m <= n, \A i \in 1 .. m : r[i] = s[i], NEW i \in 1 .. m
      PROVE  a[i] = b[n - m + i]
  <2>1. m - i + 1 \in 1 .. m /\ m - i + 1 \in 1 .. n
        /\ m - (m - i + 1) + 1 = i /\ n - (m - i + 1) + 1 = n - m + i
    BY <1>7
  <2>2. r[m - i + 1] = a[m - (m - i + 1) + 1] /\ s[m - i + 1] = b[n - (m - i + 1) + 1]
    BY <2>1, <1>4
  <2> QED
    BY <2>1, <2>2, <1>7
<1>8. ASSUME m <= n, \A i \in 1 .. m : a[i] = b[n - m + i], NEW i \in 1 .. m
      PROVE  r[i] = s[i]
  <2>1. m - i + 1 \in 1 .. m /\ i \in 1 .. n /\ n - m + (m - i + 1) = n - i + 1
    BY <1>8
  <2>2. r[i] = a[m - i + 1] /\ s[i] = b[n - i + 1] /\ a[m - i + 1] = b[n - m + (m - i + 1)]
    BY <2>1, <1>4, <1>8
  <2> QED
    BY <2>1, <2>2
<1>9. IsSuffix(a, b) <=> m <= n /\ \A i \in 1 .. m : a[i] = b[n - m + i]
  BY <1>5, <1>6, <1>7, <1>8
<1> QED
  BY <1>1, <1>2, <1>9

\* Sequence b, of length n, ends in a, of length l.
EndsIn(a, l, b, n) == l <= n /\ \A i \in 1 .. l : a[i] = b[n - l + i]

\* The same, the lengths being given.
LEMMA SuffixBy ==
    ASSUME NEW S, NEW a \in Seq(S), NEW b \in Seq(S), NEW l, l = Len(a), NEW n, n = Len(b)
    PROVE  IsSuffix(a, b) <=> EndsIn(a, l, b, n)
BY SuffixMeans DEF EndsIn

\* Sequences of the same elements are the same.
LEMMA SameElements ==
    ASSUME NEW S, NEW a \in Seq(S), NEW b \in Seq(S), NEW l, l = Len(a), l = Len(b),
           SameFirst(l, a, b)
    PROVE  a = b
<1>1. \A i \in 1 .. Len(a) : a[i] = b[i]
  BY Zenon DEF SameFirst
<1>2. Len(a) = Len(b)
  OBVIOUS
<1> QED
  BY <1>1, <1>2, SeqEqual

\* A sequence is a suffix of itself, and the empty one of all.
LEMMA SuffixEnds ==
    ASSUME NEW S, NEW a \in Seq(S)
    PROVE  IsSuffix(a, a) /\ IsSuffix(<<>>, a)
<1>1. <<>> \in Seq(S) /\ Len(<<>>) = 0
  OBVIOUS
<1>2. IsSuffix(a, a)
  <2>1. Len(a) <= Len(a) /\ \A i \in 1 .. Len(a) : a[i] = a[Len(a) - Len(a) + i]
    OBVIOUS
  <2> QED
    BY <2>1, SuffixMeans
<1>3. IsSuffix(<<>>, a)
  <2>1. EndsIn(<<>>, 0, a, Len(a))
    BY DEF EndsIn
  <2> QED
    BY <1>1, <2>1, SuffixBy, Zenon
<1> QED
  BY <1>2, <1>3

\* Of two suffixes of a sequence the shorter is one of the longer.
LEMMA SuffixesNest ==
    ASSUME NEW S, NEW a \in Seq(S), NEW b \in Seq(S), NEW c \in Seq(S),
           IsSuffix(a, c), IsSuffix(b, c), Len(a) <= Len(b)
    PROVE  IsSuffix(a, b) /\ (Len(a) = Len(b) => a = b)
<1>1. PICK l \in Nat : l = Len(a)
  OBVIOUS
<1>2. PICK m \in Nat : m = Len(b)
  OBVIOUS
<1>3. PICK n \in Nat : n = Len(c)
  OBVIOUS
<1>4. l <= n /\ \A i \in 1 .. l : a[i] = c[n - l + i]
  BY <1>1, <1>3, SuffixMeans
<1>5. m <= n /\ \A i \in 1 .. m : b[i] = c[n - m + i]
  BY <1>2, <1>3, SuffixMeans
<1>9. l <= m
  BY <1>1, <1>2
<1>6. ASSUME NEW i \in 1 .. l PROVE a[i] = b[m - l + i]
  <2>1. m - l + i \in 1 .. m /\ n - m + (m - l + i) = n - l + i
    BY <1>5, <1>9
  <2>2. b[m - l + i] = c[n - m + (m - l + i)] /\ a[i] = c[n - l + i]
    BY <2>1, <1>4, <1>5
  <2> QED
    BY <2>1, <2>2
<1>7. IsSuffix(a, b)
  <2>1. EndsIn(a, l, b, m)
    BY <1>6, <1>9, Zenon DEF EndsIn
  <2> QED
    BY <1>1, <1>2, <2>1, SuffixBy, Zenon
<1>8. ASSUME l = m PROVE a = b
  <2>1. SameFirst(l, a, b)
    BY <1>6, <1>8 DEF SameFirst
  <2> QED
    BY <2>1, <1>1, <1>2, <1>8, SameElements
<1> QED
  BY <1>1, <1>2, <1>7, <1>8

\* A suffix of a suffix is one.
LEMMA SuffixOfSuffix ==
    ASSUME NEW S, NEW a \in Seq(S), NEW b \in Seq(S), NEW c \in Seq(S),
           IsSuffix(a, b), IsSuffix(b, c)
    PROVE  IsSuffix(a, c)
<1>1. PICK l \in Nat : l = Len(a)
  OBVIOUS
<1>2. PICK m \in Nat : m = Len(b)
  OBVIOUS
<1>3. PICK n \in Nat : n = Len(c)
  OBVIOUS
<1>4. l <= m /\ \A i \in 1 .. l : a[i] = b[m - l + i]
  BY <1>1, <1>2, SuffixMeans
<1>5. m <= n /\ \A i \in 1 .. m : b[i] = c[n - m + i]
  BY <1>2, <1>3, SuffixMeans
<1>6. ASSUME NEW i \in 1 .. l PROVE a[i] = c[n - l + i]
  <2>1. m - l + i \in 1 .. m /\ n - m + (m - l + i) = n - l + i
    BY <1>4
  <2>2. b[m - l + i] = c[n - m + (m - l + i)] /\ a[i] = b[m - l + i]
    BY <2>1, <1>4, <1>5
  <2> QED
    BY <2>1, <2>2
<1> QED
  BY <1>1, <1>3, <1>4, <1>5, <1>6, SuffixMeans

\* The suffixes of a sequence are itself and those of the rest of it.
LEMMA SuffixOfTail ==
    ASSUME NEW S, NEW a \in Seq(S), NEW b \in Seq(S), b # <<>>
    PROVE  /\ Tail(b) \in Seq(S) /\ Len(Tail(b)) = Len(b) - 1
           /\ IsSuffix(a, b) <=> a = b \/ IsSuffix(a, Tail(b))
           /\ IsSuffix(Tail(b), b)
<1>1. PICK t : t = Tail(b)
  OBVIOUS
<1>2. PICK l \in Nat : l = Len(a)
  OBVIOUS
<1>3. PICK n \in Nat : n = Len(b)
  OBVIOUS
<1>4. /\ t \in Seq(S) /\ Len(t) = n - 1 /\ n >= 1
      /\ \A i \in 1 .. n - 1 : t[i] = b[i + 1]
  BY <1>1, <1>3
<1>5. IsSuffix(a, b) <=> l <= n /\ \A i \in 1 .. l : a[i] = b[n - l + i]
  BY <1>2, <1>3, SuffixMeans
<1>0. IsSuffix(a, t) <=> EndsIn(a, l, t, n - 1)
  BY <1>2, <1>4, SuffixBy, Zenon
<1>6. IsSuffix(a, t) <=> l <= n - 1 /\ \A i \in 1 .. l : a[i] = t[n - 1 - l + i]
  BY <1>0, Zenon DEF EndsIn
<1>7. ASSUME l <= n - 1, NEW i \in 1 .. l PROVE t[n - 1 - l + i] = b[n - l + i]
  <2>1. n - 1 - l + i \in 1 .. n - 1 /\ (n - 1 - l + i) + 1 = n - l + i
    BY <1>7
  <2> QED
    BY <2>1, <1>4
<1>8. ASSUME IsSuffix(a, b), l = n PROVE a = b
  <2>1. \A i \in 1 .. n : a[i] = b[i]
    BY <1>5, <1>8
  <2> QED
    BY <2>1, <1>2, <1>3, <1>8, SameElements DEF SameFirst
<1>9. IsSuffix(b, b) /\ IsSuffix(t, t)
  BY <1>4, SuffixEnds
<1>10. ASSUME IsSuffix(a, t) PROVE IsSuffix(a, b)
  <2>1. l <= n
    BY <1>6, <1>10, <1>4
  <2>2. \A i \in 1 .. l : a[i] = b[n - l + i]
    BY <1>6, <1>7, <1>10
  <2> QED
    BY <1>5, <2>1, <2>2
<1>11. ASSUME IsSuffix(a, b), a # b PROVE IsSuffix(a, t)
  <2>1. l <= n - 1
    BY <1>5, <1>8, <1>11, <1>4
  <2>2. \A i \in 1 .. l : a[i] = t[n - 1 - l + i]
    BY <1>5, <1>7, <1>11, <2>1
  <2> QED
    BY <1>6, <2>1, <2>2
<1>12. IsSuffix(t, b)
  <2>1. n - 1 <= n /\ \A i \in 1 .. n - 1 : t[i] = b[n - (n - 1) + i]
    BY <1>4
  <2> QED
    BY <2>1, <1>3, <1>4, SuffixMeans
<1> QED
  BY <1>1, <1>3, <1>4, <1>8, <1>9, <1>10, <1>11, <1>12

\* All but the last element of a sequence.
LEMMA FrontIs ==
    ASSUME NEW S, NEW a \in Seq(S), a # <<>>
    PROVE  /\ Front(a) \in Seq(S) /\ Len(Front(a)) = Len(a) - 1 /\ Last(a) \in S
           /\ a = Append(Front(a), Last(a))
           /\ \A i \in 1 .. Len(a) - 1 : Front(a)[i] = a[i]
<1>1. PICK n \in Nat : n = Len(a) - 1
  OBVIOUS
<1>2. Len(a) = n + 1
  BY <1>1
<1>3. PICK f, s : f = Front(a) /\ s = Last(a)
  OBVIOUS
<1>4. f \in Seq(S) /\ Len(f) = n /\ s \in S /\ s = a[n + 1] /\ \A i \in 1 .. n : f[i] = a[i]
  BY <1>2, <1>3 DEF Front, Last
<1>5. /\ Append(f, s) \in Seq(S) /\ Len(Append(f, s)) = n + 1 /\ Append(f, s)[n + 1] = s
      /\ \A i \in 1 .. n : Append(f, s)[i] = f[i]
  BY <1>4, AppendIs
<1>6. \A i \in 1 .. n + 1 : a[i] = Append(f, s)[i]
  BY <1>4, <1>5
<1>7. a = Append(f, s)
  BY <1>2, <1>5, <1>6, SameElements DEF SameFirst
<1> QED
  BY <1>1, <1>3, <1>4, <1>7

\* What is left of a sequence with one element more.
LEMMA FrontOfAppend ==
    ASSUME NEW S, NEW a \in Seq(S), NEW s \in S
    PROVE  /\ Front(Append(a, s)) = a /\ Last(Append(a, s)) = s
           /\ Append(a, s) # <<>> /\ Len(Append(a, s)) = Len(a) + 1
           /\ Append(a, s) \in Seq(S)
BY DEF Front, Last

\* The suffixes of a sequence with one element more end in it.
LEMMA SuffixOfAppend ==
    ASSUME NEW S, NEW a \in Seq(S), NEW b \in Seq(S), NEW s \in S
    PROVE  /\ IsSuffix(Append(a, s), Append(b, s)) <=> IsSuffix(a, b)
           /\ a # <<>> /\ IsSuffix(a, Append(b, s)) => Last(a) = s
<1>1. PICK x, y : x = Append(a, s) /\ y = Append(b, s)
  OBVIOUS
<1>2. PICK l \in Nat : l = Len(a)
  OBVIOUS
<1>3. PICK n \in Nat : n = Len(b)
  OBVIOUS
<1>4. /\ x \in Seq(S) /\ Len(x) = l + 1 /\ x[l + 1] = s /\ \A i \in 1 .. l : x[i] = a[i]
      /\ y \in Seq(S) /\ Len(y) = n + 1 /\ y[n + 1] = s /\ \A i \in 1 .. n : y[i] = b[i]
  BY <1>1, <1>2, <1>3, AppendIs
<1>5. IsSuffix(a, b) <=> l <= n /\ \A i \in 1 .. l : a[i] = b[n - l + i]
  BY <1>2, <1>3, SuffixMeans
<1>0. IsSuffix(x, y) <=> EndsIn(x, l + 1, y, n + 1)
  BY <1>4, SuffixBy, Zenon
<1>6. IsSuffix(x, y) <=> l + 1 <= n + 1 /\ \A i \in 1 .. l + 1 : x[i] = y[(n + 1) - (l + 1) + i]
  BY <1>0, Zenon DEF EndsIn
<1>7. ASSUME l <= n, NEW i \in 1 .. l PROVE x[i] = a[i] /\ y[(n + 1) - (l + 1) + i] = b[n - l + i]
  <2>1. (n + 1) - (l + 1) + i = n - l + i /\ n - l + i \in 1 .. n
    BY <1>7
  <2> QED
    BY <2>1, <1>4
<1>8. ASSUME IsSuffix(x, y) PROVE IsSuffix(a, b)
  <2>1. l <= n
    BY <1>6, <1>8
  <2>2. ASSUME NEW i \in 1 .. l PROVE a[i] = b[n - l + i]
    <3>1. i \in 1 .. l + 1
      OBVIOUS
    <3> QED
      BY <3>1, <1>6, <1>7, <1>8, <2>1, Zenon
  <2> QED
    BY <1>5, <2>1, <2>2
<1>9. ASSUME IsSuffix(a, b) PROVE IsSuffix(x, y)
  <2>1. l <= n
    BY <1>5, <1>9
  <2>2. ASSUME NEW i \in 1 .. l + 1 PROVE x[i] = y[(n + 1) - (l + 1) + i]
    <3>1. CASE i \in 1 .. l
      BY <3>1, <1>5, <1>7, <1>9, <2>1, Zenon
    <3>2. CASE i = l + 1
      <4>1. (n + 1) - (l + 1) + i = n + 1
        BY <3>2
      <4> QED
        BY <4>1, <3>2, <1>4, Zenon
    <3> QED
      BY <3>1, <3>2
  <2> QED
    BY <1>6, <2>1, <2>2
<1>10. ASSUME a # <<>>, IsSuffix(a, y) PROVE Last(a) = s
  <2>1. l >= 1 /\ Last(a) = a[l]
    BY <1>2, <1>10 DEF Last
  <2>2. a[l] = y[(n + 1) - l + l]
    <3>1. EndsIn(a, l, y, n + 1)
      BY <1>2, <1>4, <1>10, SuffixBy, Zenon
    <3> QED
      BY <3>1, <2>1 DEF EndsIn
  <2>3. (n + 1) - l + l = n + 1
    OBVIOUS
  <2> QED
    BY <2>1, <2>2, <2>3, <1>4, Zenon
<1> QED
  BY <1>1, <1>8, <1>9, <1>10

-----------------------------------------------------------------------------
(* Parts of sequences.                                                     *)

\* A part of a sequence, by its elements.
LEMMA SliceIs ==
    ASSUME NEW S, NEW a \in Seq(S), NEW i \in Nat, NEW l \in Nat, i + l <= Len(a)
    PROVE  /\ SubSeq(a, i + 1, i + l) \in Seq(S) /\ Len(SubSeq(a, i + 1, i + l)) = l
           /\ \A k \in 1 .. l : SubSeq(a, i + 1, i + l)[k] = a[i + k]
OBVIOUS

\* A part of a part.
LEMMA SliceOfSlice ==
    ASSUME NEW S, NEW a \in Seq(S), NEW i \in Nat, NEW l \in Nat, i + l <= Len(a),
           NEW j \in Nat, NEW m \in Nat, j + m <= l
    PROVE  SubSeq(SubSeq(a, i + 1, i + l), j + 1, j + m) = SubSeq(a, (i + j) + 1, (i + j) + m)
<1>1. PICK b : b = SubSeq(a, i + 1, i + l)
  OBVIOUS
<1>2. b \in Seq(S) /\ Len(b) = l /\ \A k \in 1 .. l : b[k] = a[i + k]
  BY <1>1, SliceIs
<1>3. PICK c : c = SubSeq(b, j + 1, j + m)
  OBVIOUS
<1>4. c \in Seq(S) /\ Len(c) = m /\ \A k \in 1 .. m : c[k] = b[j + k]
  BY <1>2, <1>3, SliceIs
<1>5. PICK n \in Nat : n = i + j
  OBVIOUS
<1>6. PICK d : d = SubSeq(a, n + 1, n + m)
  OBVIOUS
<1>7. d \in Seq(S) /\ Len(d) = m /\ \A k \in 1 .. m : d[k] = a[n + k]
  <2>1. n + m <= Len(a)
    BY <1>5
  <2> QED
    BY <1>6, <2>1, SliceIs
<1>8. ASSUME NEW k \in 1 .. m PROVE c[k] = d[k]
  <2>1. j + k \in 1 .. l /\ i + (j + k) = n + k
    BY <1>5
  <2> QED
    BY <2>1, <1>2, <1>4, <1>7
<1>9. c = d
  <2>1. SameFirst(m, c, d)
    BY <1>8 DEF SameFirst
  <2> QED
    BY <2>1, <1>4, <1>7, SameElements
<1> QED
  BY <1>1, <1>3, <1>5, <1>6, <1>9

\* Appending leaves a part as it is.
LEMMA SliceOfAppend ==
    ASSUME NEW S, NEW a \in Seq(S), NEW s \in S, NEW i \in Nat, NEW l \in Nat, i + l <= Len(a)
    PROVE  SubSeq(Append(a, s), i + 1, i + l) = SubSeq(a, i + 1, i + l)
<1>1. PICK b : b = Append(a, s)
  OBVIOUS
<1>2. /\ b \in Seq(S) /\ Len(a) \in Nat /\ Len(b) = Len(a) + 1
      /\ \A k \in 1 .. Len(a) : b[k] = a[k]
  BY <1>1, AppendIs
<1>3. PICK c : c = SubSeq(b, i + 1, i + l)
  OBVIOUS
<1>4. c \in Seq(S) /\ Len(c) = l /\ \A k \in 1 .. l : c[k] = b[i + k]
  <2>1. i + l <= Len(b)
    BY <1>2
  <2> QED
    BY <1>2, <1>3, <2>1, SliceIs
<1>5. PICK d : d = SubSeq(a, i + 1, i + l)
  OBVIOUS
<1>6. d \in Seq(S) /\ Len(d) = l /\ \A k \in 1 .. l : d[k] = a[i + k]
  BY <1>5, SliceIs
<1>7. ASSUME NEW k \in 1 .. l PROVE c[k] = d[k]
  <2>1. i + k \in 1 .. Len(a)
    BY <1>2
  <2> QED
    BY <2>1, <1>2, <1>4, <1>6
<1>8. c = d
  <2>1. SameFirst(l, c, d)
    BY <1>7 DEF SameFirst
  <2> QED
    BY <2>1, <1>4, <1>6, SameElements
<1> QED
  BY <1>1, <1>3, <1>5, <1>8

\* What is appended is appended to the rest.
LEMMA RestOfAppend ==
    ASSUME NEW S, NEW a \in Seq(S), NEW s \in S, NEW i \in 0 .. Len(a)
    PROVE  SubSeq(Append(a, s), i + 1, Len(Append(a, s))) = Append(SubSeq(a, i + 1, Len(a)), s)
<1>1. PICK b : b = Append(a, s)
  OBVIOUS
<1>2. PICK n \in Nat : n = Len(a)
  OBVIOUS
<1>3. b \in Seq(S) /\ Len(b) = n + 1 /\ b[n + 1] = s /\ \A k \in 1 .. n : b[k] = a[k]
  BY <1>1, <1>2, AppendIs
<1>4. PICK c : c = SubSeq(b, i + 1, Len(b))
  OBVIOUS
<1>5. c \in Seq(S) /\ Len(c) = n + 1 - i /\ \A k \in 1 .. n + 1 - i : c[k] = b[i + k]
  <2>1. i \in Nat /\ n + 1 - i \in Nat /\ i + (n + 1 - i) = n + 1 /\ n + 1 <= Len(b)
    BY <1>2, <1>3
  <2>2. PICK l \in Nat : l = n + 1 - i
    BY <2>1
  <2>3. i + l <= Len(b) /\ i + l = n + 1
    BY <2>1, <2>2
  <2>4. c = SubSeq(b, i + 1, i + l)
    BY <1>3, <1>4, <2>3, Zenon
  <2>5. c \in Seq(S) /\ Len(c) = l /\ \A k \in 1 .. l : c[k] = b[i + k]
    BY <1>3, <2>1, <2>3, <2>4, SliceIs
  <2> QED
    BY <2>2, <2>5, Zenon
<1>6. PICK r : r = SubSeq(a, i + 1, Len(a))
  OBVIOUS
<1>7. PICK l \in Nat : l = n - i
  <2>1. n - i \in Nat
    BY <1>2
  <2> QED
    BY <2>1
<1>8. r \in Seq(S) /\ Len(r) = l /\ \A k \in 1 .. l : r[k] = a[i + k]
  BY <1>2, <1>6, <1>7, SuffixIs
<1>9. PICK d : d = Append(r, s)
  OBVIOUS
<1>10. d \in Seq(S) /\ Len(d) = l + 1 /\ d[l + 1] = s /\ \A k \in 1 .. l : d[k] = r[k]
  BY <1>8, <1>9, AppendIs
<1>11. ASSUME NEW k \in 1 .. l + 1 PROVE c[k] = d[k]
  <2>1. k \in 1 .. n + 1 - i
    BY <1>7
  <2>2. CASE k = l + 1
    <3>1. i + k = n + 1
      BY <2>2, <1>7
    <3> QED
      BY <3>1, <2>1, <2>2, <1>3, <1>5, <1>10
  <2>3. CASE k # l + 1
    <3>1. k \in 1 .. l /\ i + k \in 1 .. n
      BY <2>3, <1>7
    <3> QED
      BY <3>1, <2>1, <1>3, <1>5, <1>8, <1>10
  <2> QED
    BY <2>2, <2>3
<1>12. c = d
  <2>1. SameFirst(l + 1, c, d) /\ l + 1 = Len(c) /\ l + 1 = Len(d)
    BY <1>5, <1>7, <1>10, <1>11 DEF SameFirst
  <2> QED
    BY <2>1, <1>5, <1>10, SameElements, Zenon
<1> QED
  BY <1>1, <1>4, <1>6, <1>9, <1>12

-----------------------------------------------------------------------------
(* Recursion over a set whose elements have a rank.                        *)

\* A function over the elements of a set that have a rank: at some its value is
\* given, at the others it follows from that of an element of a lower rank.  f is one
\* as far as rank k.
RecursTo(N, rank, next, stop, base, step, f, k) ==
    \A n \in N : rank[n] <= k => f[n] = IF n \in stop THEN base[n] ELSE step[<<n, f[next[n]]>>]

\* There is one as far as every rank,
LEMMA RecursExists ==
    ASSUME NEW N, NEW rank \in [N -> Nat], NEW next, NEW stop, NEW base, NEW step,
           \A n \in N : n \in stop \/ (next[n] \in N /\ rank[next[n]] < rank[n])
    PROVE  \A k \in Nat : \E f : RecursTo(N, rank, next, stop, base, step, f, k)
<1> DEFINE T == {k \in Nat : \E f : RecursTo(N, rank, next, stop, base, step, f, k)}
<1>1. 0 \in T
  <2> DEFINE f == [n \in N |-> base[n]]
  <2>1. ASSUME NEW n \in N, rank[n] <= 0
        PROVE  f[n] = IF n \in stop THEN base[n] ELSE step[<<n, f[next[n]]>>]
    <3>1. n \in stop
      <4>1. rank[n] \in Nat /\ (n \notin stop => rank[next[n]] \in Nat /\ rank[next[n]] < rank[n])
        OBVIOUS
      <4> QED
        BY <4>1, <2>1
    <3> QED
      BY <3>1
  <2> QED
    BY <2>1 DEF RecursTo
<1>2. ASSUME NEW k \in Nat, k \in T PROVE k + 1 \in T
  <2>1. PICK f : RecursTo(N, rank, next, stop, base, step, f, k)
    BY <1>2
  <2> DEFINE g == [n \in N |-> IF n \in stop THEN base[n] ELSE step[<<n, f[next[n]]>>]]
  <2>2. ASSUME NEW n \in N, rank[n] <= k PROVE g[n] = f[n]
    BY <2>1, <2>2 DEF RecursTo
  <2>3. ASSUME NEW n \in N, rank[n] <= k + 1, n \notin stop
        PROVE  g[n] = step[<<n, g[next[n]]>>]
    <3>1. next[n] \in N /\ rank[next[n]] <= k
      <4>1. rank[n] \in Nat /\ next[n] \in N /\ rank[next[n]] \in Nat /\ rank[next[n]] < rank[n]
        BY <2>3
      <4> QED
        BY <4>1, <2>3
    <3>2. g[next[n]] = f[next[n]]
      BY <3>1, <2>2
    <3>3. g[n] = step[<<n, f[next[n]]>>]
      BY <2>3
    <3> QED
      BY <3>2, <3>3, Zenon
  <2>4. ASSUME NEW n \in N, n \in stop PROVE g[n] = base[n]
    BY <2>4
  <2> HIDE DEF g
  <2>5. RecursTo(N, rank, next, stop, base, step, g, k + 1)
    BY <2>3, <2>4 DEF RecursTo
  <2> QED
    BY <2>5
<1> HIDE DEF T
<1>3. \A k \in Nat : k \in T
  BY <1>1, <1>2, Induction, Zenon
<1> QED
  BY <1>3 DEF T

\* and two of them agree.
LEMMA RecursAgree ==
    ASSUME NEW N, NEW rank \in [N -> Nat], NEW next, NEW stop, NEW base, NEW step,
           \A n \in N : n \in stop \/ (next[n] \in N /\ rank[next[n]] < rank[n]),
           NEW k \in Nat, NEW l \in Nat, NEW f, NEW g,
           RecursTo(N, rank, next, stop, base, step, f, k),
           RecursTo(N, rank, next, stop, base, step, g, l)
    PROVE  \A n \in N : rank[n] <= k /\ rank[n] <= l => f[n] = g[n]
<1> DEFINE T == {r \in Nat : \A n \in N :
                    rank[n] <= r /\ rank[n] <= k /\ rank[n] <= l => f[n] = g[n]}
<1>1. ASSUME NEW n \in N, rank[n] <= k, rank[n] <= l, n \in stop PROVE f[n] = g[n]
  BY <1>1 DEF RecursTo
<1>2. ASSUME NEW n \in N, rank[n] <= k, rank[n] <= l, n \notin stop, f[next[n]] = g[next[n]]
      PROVE  f[n] = g[n]
  BY <1>2 DEF RecursTo
<1>3. 0 \in T
  <2>1. ASSUME NEW n \in N, rank[n] <= 0 PROVE n \in stop
    <3>1. rank[n] \in Nat /\ (n \notin stop => rank[next[n]] \in Nat /\ rank[next[n]] < rank[n])
      OBVIOUS
    <3> QED
      BY <3>1, <2>1
  <2> QED
    BY <2>1, <1>1
<1>4. ASSUME NEW r \in Nat, r \in T PROVE r + 1 \in T
  <2> SUFFICES ASSUME NEW n \in N, rank[n] <= r + 1, rank[n] <= k, rank[n] <= l PROVE f[n] = g[n]
    OBVIOUS
  <2>1. CASE n \in stop
    BY <2>1, <1>1
  <2>2. CASE n \notin stop
    <3>1. rank[n] \in Nat /\ next[n] \in N /\ rank[next[n]] \in Nat /\ rank[next[n]] < rank[n]
      BY <2>2
    <3>2. rank[next[n]] <= r /\ rank[next[n]] <= k /\ rank[next[n]] <= l
      BY <3>1
    <3>3. f[next[n]] = g[next[n]]
      BY <3>1, <3>2, <1>4
    <3> QED
      BY <3>3, <2>2, <1>2
  <2> QED
    BY <2>1, <2>2
<1> HIDE DEF T
<1>5. \A r \in Nat : r \in T
  BY <1>3, <1>4, Induction, Zenon
<1> SUFFICES ASSUME NEW n \in N, rank[n] <= k, rank[n] <= l PROVE f[n] = g[n]
  OBVIOUS
<1>6. rank[n] \in Nat /\ rank[n] <= rank[n]
  OBVIOUS
<1>7. rank[n] \in T
  BY <1>5, <1>6
<1> QED
  BY <1>6, <1>7 DEF T

\* The next of an element has a lower rank, and f is such a function.
Descends(N, rank, next, stop) ==
    \A n \in N : n \in stop \/ (next[n] \in N /\ rank[next[n]] < rank[n])
RecursBy(f, N, next, stop, base, step) ==
    f = [n \in N |-> IF n \in stop THEN base[n] ELSE step[<<n, f[next[n]]>>]]

\* There is one for all.
LEMMA RecursionByExists ==
    ASSUME NEW N, NEW rank \in [N -> Nat], NEW next, NEW stop, NEW base, NEW step,
           Descends(N, rank, next, stop)
    PROVE  \E f : RecursBy(f, N, next, stop, base, step)
<1>0. \A n \in N : n \in stop \/ (next[n] \in N /\ rank[next[n]] < rank[n])
  BY DEF Descends
<1> DEFINE F == [k \in Nat |-> CHOOSE f : RecursTo(N, rank, next, stop, base, step, f, k)]
           up == [n \in N |-> F[rank[n]][n]]
<1>1. ASSUME NEW k \in Nat PROVE RecursTo(N, rank, next, stop, base, step, F[k], k)
  <2>1. \E f : RecursTo(N, rank, next, stop, base, step, f, k)
    BY <1>0, RecursExists
  <2> QED
    BY <2>1, Zenon
<1>2. ASSUME NEW n \in N PROVE rank[n] \in Nat /\ up[n] = F[rank[n]][n]
  OBVIOUS
<1> HIDE DEF F
<1>3. ASSUME NEW n \in N PROVE up[n] = IF n \in stop THEN base[n] ELSE step[<<n, up[next[n]]>>]
  <2>1. PICK k \in Nat : k = rank[n]
    BY <1>2
  <2>2. up[n] = F[k][n] /\ RecursTo(N, rank, next, stop, base, step, F[k], k) /\ rank[n] <= k
    BY <2>1, <1>1, <1>2
  <2>3. F[k][n] = IF n \in stop THEN base[n] ELSE step[<<n, F[k][next[n]]>>]
    BY <2>2 DEF RecursTo
  <2>4. CASE n \in stop
    BY <2>2, <2>3, <2>4, Zenon
  <2>5. CASE n \notin stop
    <3>1. PICK m \in N : m = next[n]
      BY <1>0, <2>5
    <3>2. PICK l \in Nat : l = rank[m]
      BY <1>2
    <3>3. l < k
      BY <1>0, <2>1, <2>5, <3>1, <3>2
    <3>4. up[m] = F[l][m] /\ RecursTo(N, rank, next, stop, base, step, F[l], l)
      BY <3>2, <1>1, <1>2
    <3>5. \A x \in N : rank[x] <= k /\ rank[x] <= l => F[k][x] = F[l][x]
      BY <1>0, <2>2, <3>4, RecursAgree
    <3>6. F[k][m] = F[l][m]
      BY <3>2, <3>3, <3>5
    <3> QED
      BY <2>2, <2>3, <2>5, <3>1, <3>4, <3>6, Zenon
  <2> QED
    BY <2>4, <2>5
<1>4. up = [n \in N |-> IF n \in stop THEN base[n] ELSE step[<<n, up[next[n]]>>]]
  <2>1. up = [n \in N |-> up[n]]
    OBVIOUS
  <2> HIDE DEF up
  <2> QED
    BY <2>1, <1>3
<1> HIDE DEF up
<1> QED
  BY <1>4 DEF RecursBy

\* A function whose values are that of an element of a lower rank, as they are.
Recurs(f, N, next, stop, base) ==
    f = [n \in N |-> IF n \in stop THEN base[n] ELSE f[next[n]]]

\* There is one of these, too.
LEMMA RecursionExists ==
    ASSUME NEW N, NEW rank \in [N -> Nat], NEW next, NEW stop, NEW base,
           Descends(N, rank, next, stop)
    PROVE  \E f : Recurs(f, N, next, stop, base)
<1> DEFINE V == {base[n] : n \in N}
           step == [x \in N \X V |-> x[2]]
<1>1. \A n \in N : base[n] \in V
  OBVIOUS
<1>2. \A n \in N : \A v \in V : step[<<n, v>>] = v
  OBVIOUS
<1>3. \A n \in N : n \in stop \/ (next[n] \in N /\ rank[next[n]] < rank[n])
  BY DEF Descends
<1> HIDE DEF V, step
<1>4. PICK f : RecursBy(f, N, next, stop, base, step)
  BY RecursionByExists, Zenon
<1>5. \A n \in N : f[n] = IF n \in stop THEN base[n] ELSE step[<<n, f[next[n]]>>]
  BY <1>4, Zenon DEF RecursBy
<1> DEFINE T == {r \in Nat : \A n \in N : rank[n] <= r => f[n] \in V}
<1>6. 0 \in T
  <2>1. ASSUME NEW n \in N, rank[n] <= 0 PROVE n \in stop
    <3>1. rank[n] \in Nat /\ (n \notin stop => rank[next[n]] \in Nat /\ rank[next[n]] < rank[n])
      BY <1>3
    <3> QED
      BY <3>1, <2>1
  <2> QED
    BY <2>1, <1>1, <1>5
<1>7. ASSUME NEW r \in Nat, r \in T PROVE r + 1 \in T
  <2> SUFFICES ASSUME NEW n \in N, rank[n] <= r + 1 PROVE f[n] \in V
    OBVIOUS
  <2>1. CASE n \in stop
    BY <2>1, <1>1, <1>5
  <2>2. CASE n \notin stop
    <3>1. rank[n] \in Nat /\ next[n] \in N /\ rank[next[n]] \in Nat /\ rank[next[n]] < rank[n]
      BY <2>2, <1>3
    <3>2. f[next[n]] \in V
      BY <3>1, <1>7
    <3> QED
      BY <3>2, <2>2, <1>2, <1>5
  <2> QED
    BY <2>1, <2>2
<1> HIDE DEF T
<1>8. \A r \in Nat : r \in T
  BY <1>6, <1>7, Induction, Zenon
<1>9. ASSUME NEW n \in N PROVE f[n] \in V
  <2>1. rank[n] \in Nat /\ rank[n] <= rank[n]
    OBVIOUS
  <2>2. rank[n] \in T
    BY <1>8, <2>1
  <2> QED
    BY <2>1, <2>2 DEF T
<1>10. ASSUME NEW n \in N
       PROVE  f[n] = IF n \in stop THEN base[n] ELSE f[next[n]]
  <2>1. n \notin stop => step[<<n, f[next[n]]>>] = f[next[n]]
    BY <1>2, <1>3, <1>9
  <2> QED
    BY <1>5, <2>1
<1>11. f = [n \in N |-> f[n]]
  BY <1>4, Zenon DEF RecursBy
<1>12. f = [n \in N |-> IF n \in stop THEN base[n] ELSE f[next[n]]]
  BY <1>10, <1>11
<1> QED
  BY <1>12 DEF Recurs

=============================================================================
