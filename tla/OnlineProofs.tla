---------------------------- MODULE OnlineProofs ----------------------------
(***************************************************************************)
(* Proofs about the two hand-overs of rs-asr-vad-online, for every length  *)
(* of queue, padding, window and block: speech segments from the main      *)
(* thread to the worker, through the queue (OnlinePipeline), and samples   *)
(* from the capture thread to the main thread, through the ring            *)
(* (AudioRing).                                                            *)
(*                                                                         *)
(* What a queue holds is a matter of sums and filters over sequences.  The *)
(* model writes these as recursive functions, and the first part shows     *)
(* what one more segment does to each, by the lemmas of SequenceLemmas.    *)
(***************************************************************************)
EXTENDS OnlinePipeline, AudioRing, SequenceLemmas

-----------------------------------------------------------------------------
(* The operators of the queue.                                             *)

\* A segment in the queue.
Segment == [id : Nat, start : Nat, end : Nat, index : Nat, is_partial : BOOLEAN]

\* A duration is a number.
LEMMA DurType == \A s \in Segment : Dur(s) \in Int
BY DEF Segment, Dur

\* The total of a queue as a fold.
AddDur == [p \in Int \X Segment |-> p[1] + Dur(p[2])]

\* What that function is, and its type.
LEMMA AddDurIs ==
    /\ AddDur \in [Int \X Segment -> Int]
    /\ \A x \in Int, s \in Segment : AddDur[<<x, s>>] = x + Dur(s)
BY DurType DEF AddDur

\* The total of a queue is such a fold, where Total defines it as a recursive
\* function.
LEMMA TotalFolds ==
    ASSUME NEW q \in Seq(Segment)
    PROVE  \E f \in [0 .. Len(q) -> Int] : Folds(f, q, 0, AddDur) /\ Total(q) = f[Len(q)]
<1>1. PICK f \in [0 .. Len(q) -> Int] : Folds(f, q, 0, AddDur)
  <2>1. 0 \in Int OBVIOUS
  <2> QED BY <2>1, AddDurIs, FoldExists, Zenon
<1>2. ASSUME NEW n \in 1 .. Len(q) PROVE f[n] = f[n - 1] + Dur(q[n])
  <2>1. q[n] \in Segment /\ n - 1 \in 0 .. Len(q) OBVIOUS
  <2>2. f[n] = AddDur[<<f[n - 1], q[n]>>] BY <1>1 DEF Folds, FoldsTo
  <2> QED BY <2>1, <2>2, AddDurIs
<1>3. f[0] = 0 BY <1>1 DEF Folds, FoldsTo
<1>4. f = [n \in 0 .. Len(q) |-> IF n = 0 THEN 0 ELSE f[n - 1] + Dur(q[n])]
  BY <1>2, <1>3
<1> DEFINE total[n \in 0 .. Len(q)] == IF n = 0 THEN 0 ELSE total[n - 1] + Dur(q[n])
<1>5. total = [n \in 0 .. Len(q) |-> IF n = 0 THEN 0 ELSE total[n - 1] + Dur(q[n])]
  BY <1>4, Zenon
<1>6. Total(q) = total[Len(q)] BY DEF Total
<1> HIDE DEF total
<1>7. total[0] = 0 /\ \A n \in 1 .. Len(q) : total[n] = total[n - 1] + Dur(q[n])
  BY <1>5
<1>8. \A n \in 1 .. Len(q) : f[n - 1] = total[n - 1] => f[n] = total[n]
  BY <1>2, <1>7
<1>9. f[0] = total[0] /\ Len(q) \in Nat BY <1>3, <1>7
<1>10. f[Len(q)] = total[Len(q)] BY <1>8, <1>9, Agree, Zenon
<1> QED BY <1>1, <1>6, <1>10

\* It is a number.
LEMMA TotalType ==
    ASSUME NEW q \in Seq(Segment)
    PROVE  Total(q) \in Int
BY TotalFolds

\* Nothing lasts no time.
LEMMA TotalEmpty == Total(<<>>) = 0
<1>1. <<>> \in Seq(Segment) /\ Len(<<>>) = 0 OBVIOUS
<1>2. PICK f : Folds(f, <<>>, 0, AddDur) /\ Total(<<>>) = f[Len(<<>>)]
  BY <1>1, TotalFolds
<1> QED BY <1>1, <1>2 DEF Folds, FoldsTo

\* One more segment adds its duration: what queue_dur_ += is to amount to.
LEMMA TotalAppend ==
    ASSUME NEW q \in Seq(Segment), NEW s \in Segment
    PROVE  Total(Append(q, s)) = Total(q) + Dur(s)
<1>1. Append(q, s) \in Seq(Segment) /\ Len(q) \in 0 .. Len(q) BY AppendIs
<1>2. PICK f : Folds(f, q, 0, AddDur) /\ Total(q) = f[Len(q)] /\ f[Len(q)] \in Int
  BY <1>1, TotalFolds
<1>3. PICK g : Folds(g, Append(q, s), 0, AddDur) /\ Total(Append(q, s)) = g[Len(Append(q, s))]
  BY <1>1, TotalFolds, Zenon
<1>4. g[Len(Append(q, s))] = AddDur[<<f[Len(q)], s>>]
  <2>1. q \in Seq(Segment) /\ s \in Segment OBVIOUS
  <2>2. Folds(f, q, 0, AddDur) /\ Folds(g, Append(q, s), 0, AddDur) BY <1>2, <1>3, Zenon
  <2> QED BY <2>1, <2>2, FoldsAppend
<1>5. AddDur[<<f[Len(q)], s>>] = f[Len(q)] + Dur(s) BY <1>2, AddDurIs, Zenon
<1> QED BY <1>2, <1>3, <1>4, <1>5, Zenon

\* The sum of a queue without its front.
LEMMA TotalTail ==
    ASSUME NEW q \in Seq(Segment), q # <<>>
    PROVE  Total(Tail(q)) = Total(q) - Dur(Head(q))
<1> DEFINE T == {p \in Seq(Segment) : p # <<>> => Total(Tail(p)) = Total(p) - Dur(Head(p))}
<1>1. <<>> \in T OBVIOUS
<1>2. ASSUME NEW p \in Seq(Segment), NEW s \in Segment, p \in T PROVE Append(p, s) \in T
  <2>1. Total(Append(p, s)) = Total(p) + Dur(s) /\ Append(p, s) \in Seq(Segment)
        /\ Total(p) \in Int /\ Dur(s) \in Int
    BY TotalAppend, AppendIs, TotalType, DurType
  <2>2. CASE p = <<>>
    <3>1. Tail(Append(p, s)) = <<>> /\ Head(Append(p, s)) = s BY <2>2, TailAppend
    <3>2. Total(Tail(Append(p, s))) = 0 /\ Total(p) = 0 BY <3>1, <2>2, TotalEmpty
    <3>3. Total(Tail(Append(p, s))) = Total(Append(p, s)) - Dur(Head(Append(p, s)))
      BY <3>1, <3>2, <2>1
    <3> QED BY <3>3, <2>1
  <2>3. CASE p # <<>>
    <3>1. /\ Tail(Append(p, s)) = Append(Tail(p), s)
          /\ Head(Append(p, s)) = Head(p)
          /\ Tail(p) \in Seq(Segment) /\ Head(p) \in Segment
      BY <2>3, TailAppend
    <3>2. Total(Append(Tail(p), s)) = Total(Tail(p)) + Dur(s) BY <3>1, TotalAppend
    <3>3. Total(Tail(p)) = Total(p) - Dur(Head(p)) BY <2>3, <1>2
    <3>4. Dur(Head(p)) \in Int BY <3>1, DurType
    <3>5. PICK a \in Int, d \in Int, h \in Int : a = Total(p) /\ d = Dur(s) /\ h = Dur(Head(p))
      BY <2>1, <3>4
    <3>6. (a - h) + d = (a + d) - h OBVIOUS
    <3>7. Total(Tail(Append(p, s))) = Total(Append(p, s)) - Dur(Head(Append(p, s)))
      BY <3>1, <3>2, <3>3, <3>5, <3>6, <2>1, Zenon
    <3> QED BY <3>7, <2>1
  <2> QED BY <2>2, <2>3
<1> HIDE DEF T
<1>3. \A p \in Seq(Segment) : p \in T BY <1>1, <1>2, SequenceInduction, Zenon
<1> QED BY <1>3 DEF T

\* A segment put back at the front adds its duration.
LEMMA TotalPushFront ==
    ASSUME NEW q \in Seq(Segment), NEW s \in Segment
    PROVE  Total(<<s>> \o q) = Dur(s) + Total(q)
<1>1. PICK p : p = <<s>> \o q OBVIOUS
<1>2. p \in Seq(Segment) /\ p # <<>> /\ Tail(p) = q /\ Head(p) = s
  BY <1>1, PushFrontIs
<1>3. Total(q) = Total(p) - Dur(s) BY <1>2, TotalTail
<1>4. Total(p) \in Int /\ Total(q) \in Int /\ Dur(s) \in Int BY <1>2, TotalType, DurType
<1> QED BY <1>1, <1>3, <1>4

\* Keeping or erasing one segment, as a function.
Fresher(z) ==
    [p \in Seq(Segment) \X Segment |-> Keep(p[1], p[2], z)]

\* What that function is, and its type.
LEMMA FresherIs ==
    ASSUME NEW z
    PROVE  /\ Fresher(z) \in [Seq(Segment) \X Segment -> Seq(Segment)]
           /\ \A r \in Seq(Segment), s \in Segment :
                Fresher(z)[<<r, s>>] = Keep(r, s, z)
<1>1. \A r \in Seq(Segment), s \in Segment : Keep(r, s, z) \in Seq(Segment) BY DEF Keep
<1> QED BY <1>1, Zenon DEF Fresher

\* What a push leaves of a queue is a fold, where Fresh defines it as a
\* recursive function.
LEMMA FreshFolds ==
    ASSUME NEW z, NEW q \in Seq(Segment)
    PROVE  \E f \in [0 .. Len(q) -> Seq(Segment)] :
              Folds(f, q, <<>>, Fresher(z)) /\ Fresh(q, z) = f[Len(q)]
<1>1. PICK f \in [0 .. Len(q) -> Seq(Segment)] : Folds(f, q, <<>>, Fresher(z))
  <2>1. <<>> \in Seq(Segment) OBVIOUS
  <2> QED BY <2>1, FresherIs, FoldExists, Zenon
<1>2. ASSUME NEW n \in 1 .. Len(q) PROVE f[n] = Keep(f[n - 1], q[n], z)
  <2>1. q[n] \in Segment /\ f[n - 1] \in Seq(Segment)
    <3>1. n - 1 \in 0 .. Len(q) OBVIOUS
    <3>2. q[n] \in Segment OBVIOUS
    <3>3. f[n - 1] \in Seq(Segment) BY <3>1
    <3> QED BY <3>2, <3>3
  <2>2. f[n] = Fresher(z)[<<f[n - 1], q[n]>>] BY <1>1 DEF Folds, FoldsTo
  <2> QED BY <2>1, <2>2, FresherIs, Zenon
<1>3. f[0] = <<>> BY <1>1 DEF Folds, FoldsTo
<1>4. f = [n \in 0 .. Len(q) |-> IF n = 0 THEN <<>> ELSE Keep(f[n - 1], q[n], z)]
  BY <1>2, <1>3
<1> DEFINE fresh[n \in 0 .. Len(q)] == IF n = 0 THEN <<>> ELSE Keep(fresh[n - 1], q[n], z)
<1>5. fresh = [n \in 0 .. Len(q) |-> IF n = 0 THEN <<>> ELSE Keep(fresh[n - 1], q[n], z)]
  BY <1>4, Zenon
<1>6. Fresh(q, z) = fresh[Len(q)] BY DEF Fresh
<1> HIDE DEF fresh
<1>7. fresh[0] = <<>> /\ \A n \in 1 .. Len(q) : fresh[n] = Keep(fresh[n - 1], q[n], z)
  BY <1>5
<1>8. \A n \in 1 .. Len(q) : f[n - 1] = fresh[n - 1] => f[n] = fresh[n]
  BY <1>2, <1>7, Zenon
<1>9. f[0] = fresh[0] /\ Len(q) \in Nat BY <1>3, <1>7
<1>10. f[Len(q)] = fresh[Len(q)] BY <1>8, <1>9, Agree, Zenon
<1> QED BY <1>1, <1>6, <1>10

\* It is a queue.
LEMMA FreshType ==
    ASSUME NEW z, NEW q \in Seq(Segment)
    PROVE  Fresh(q, z) \in Seq(Segment)
<1>1. Len(q) \in 0 .. Len(q) OBVIOUS
<1> QED BY <1>1, FreshFolds

\* Of nothing, nothing is left.
LEMMA FreshEmpty ==
    ASSUME NEW z
    PROVE  Fresh(<<>>, z) = <<>>
<1>1. <<>> \in Seq(Segment) /\ Len(<<>>) = 0 OBVIOUS
<1>2. PICK f : Folds(f, <<>>, <<>>, Fresher(z)) /\ Fresh(<<>>, z) = f[Len(<<>>)]
  BY <1>1, FreshFolds
<1> QED BY <1>1, <1>2 DEF Folds, FoldsTo

\* The last segment is kept or not, after those before it.
LEMMA FreshAppend ==
    ASSUME NEW z, NEW q \in Seq(Segment), NEW s \in Segment
    PROVE  Fresh(Append(q, s), z) = Keep(Fresh(q, z), s, z)
<1>1. Append(q, s) \in Seq(Segment) /\ Len(q) \in 0 .. Len(q) BY AppendIs
<1>2. PICK f : Folds(f, q, <<>>, Fresher(z)) /\ Fresh(q, z) = f[Len(q)]
      /\ f[Len(q)] \in Seq(Segment)
  BY <1>1, FreshFolds
<1>3. PICK g : Folds(g, Append(q, s), <<>>, Fresher(z))
      /\ Fresh(Append(q, s), z) = g[Len(Append(q, s))]
  BY <1>1, FreshFolds, Zenon
<1>4. g[Len(Append(q, s))] = Fresher(z)[<<f[Len(q)], s>>]
  <2>1. q \in Seq(Segment) /\ s \in Segment OBVIOUS
  <2>2. Folds(f, q, <<>>, Fresher(z)) /\ Folds(g, Append(q, s), <<>>, Fresher(z))
    BY <1>2, <1>3, Zenon
  <2> QED BY <2>1, <2>2, FoldsAppend
<1>5. Fresher(z)[<<f[Len(q)], s>>] = Keep(f[Len(q)], s, z) BY <1>2, FresherIs, Zenon
<1> QED BY <1>2, <1>3, <1>4, <1>5, Zenon

\* The ids of a queue increase.
Increasing(q) == \A i, j \in 1 .. Len(q) : i < j => q[i].id < q[j].id

\* A sequence goes on increasing when its new last element is above all others.
LEMMA IncreasingAppend ==
    ASSUME NEW q \in Seq(Segment), NEW s \in Segment
    PROVE  Increasing(Append(q, s)) <=> Increasing(q) /\ \A x \in ToSet(q) : x.id < s.id
<1>1. PICK a : a = Append(q, s) OBVIOUS
<1>2. Len(q) \in Nat /\ Len(a) = Len(q) + 1 /\ a[Len(q) + 1] = s
      /\ \A n \in 1 .. Len(q) : a[n] = q[n]
  BY <1>1, AppendIs
<1>3. DOMAIN q = 1 .. Len(q) OBVIOUS
<1>4. Increasing(a) => Increasing(q) BY <1>2 DEF Increasing
<1>5. Increasing(a) => \A x \in ToSet(q) : x.id < s.id
  BY <1>2, <1>3 DEF Increasing, ToSet
<1>6. Increasing(q) /\ (\A x \in ToSet(q) : x.id < s.id) => Increasing(a)
  <2> SUFFICES ASSUME Increasing(q), \A x \in ToSet(q) : x.id < s.id,
                      NEW i \in 1 .. Len(a), NEW j \in 1 .. Len(a), i < j
               PROVE  a[i].id < a[j].id
    BY Zenon DEF Increasing
  <2>1. i \in 1 .. Len(q) /\ a[i] = q[i] /\ q[i] \in ToSet(q) BY <1>2, <1>3 DEF ToSet
  <2>2. CASE j = Len(q) + 1 BY <2>1, <2>2, <1>2
  <2>3. CASE j # Len(q) + 1
    <3>1. j \in 1 .. Len(q) /\ a[j] = q[j] BY <2>3, <1>2
    <3> QED BY <2>1, <3>1 DEF Increasing
  <2> QED BY <2>2, <2>3
<1> QED BY <1>1, <1>4, <1>5, <1>6, Zenon

\* What is left are the segments that are not superseded.
LEMMA FreshElements ==
    ASSUME NEW z, NEW q \in Seq(Segment)
    PROVE  ToSet(Fresh(q, z)) = {x \in ToSet(q) : ~Supersedes(z, x)}
<1> DEFINE T == {p \in Seq(Segment) : ToSet(Fresh(p, z)) = {x \in ToSet(p) : ~Supersedes(z, x)}}
<1>1. <<>> \in T
  <2>1. ToSet(<<>>) = {} BY DEF ToSet
  <2> QED BY <2>1, FreshEmpty
<1>2. ASSUME NEW p \in Seq(Segment), NEW s \in Segment, p \in T PROVE Append(p, s) \in T
  <2>1. Append(p, s) \in Seq(Segment) /\ Fresh(p, z) \in Seq(Segment) BY FreshType
  <2>2. ToSet(Append(p, s)) = ToSet(p) \cup {s} BY ToSetAppend
  <2>3. CASE Supersedes(z, s)
    <3>1. Fresh(Append(p, s), z) = Fresh(p, z) BY <2>3, FreshAppend DEF Keep
    <3> QED BY <3>1, <2>1, <2>2, <2>3, <1>2
  <2>4. CASE ~Supersedes(z, s)
    <3>1. Fresh(Append(p, s), z) = Append(Fresh(p, z), s) BY <2>4, FreshAppend DEF Keep
    <3>2. ToSet(Append(Fresh(p, z), s)) = ToSet(Fresh(p, z)) \cup {s} BY <2>1, ToSetAppend
    <3> QED BY <3>1, <3>2, <2>1, <2>2, <2>4, <1>2
  <2> QED BY <2>3, <2>4
<1> HIDE DEF T
<1>3. \A p \in Seq(Segment) : p \in T BY <1>1, <1>2, SequenceInduction, Zenon
<1> QED BY <1>3 DEF T

\* Erasing keeps the order.
LEMMA FreshIncreasing ==
    ASSUME NEW z, NEW q \in Seq(Segment), Increasing(q)
    PROVE  Increasing(Fresh(q, z))
<1> DEFINE T == {p \in Seq(Segment) : Increasing(p) => Increasing(Fresh(p, z))}
<1>1. <<>> \in T
  <2>1. <<>> \in Seq(Segment) OBVIOUS
  <2> QED BY <2>1, FreshEmpty
<1>2. ASSUME NEW p \in Seq(Segment), NEW s \in Segment, p \in T PROVE Append(p, s) \in T
  <2>1. Append(p, s) \in Seq(Segment) /\ Fresh(p, z) \in Seq(Segment) BY FreshType
  <2> SUFFICES ASSUME Increasing(Append(p, s)) PROVE Increasing(Fresh(Append(p, s), z))
    BY <2>1
  <2>2. Increasing(p) /\ \A x \in ToSet(p) : x.id < s.id BY IncreasingAppend
  <2>3. Increasing(Fresh(p, z)) BY <2>2, <1>2
  <2>4. CASE Supersedes(z, s)
    <3>1. Fresh(Append(p, s), z) = Fresh(p, z) BY <2>4, FreshAppend DEF Keep
    <3> QED BY <3>1, <2>3
  <2>5. CASE ~Supersedes(z, s)
    <3>1. Fresh(Append(p, s), z) = Append(Fresh(p, z), s) BY <2>5, FreshAppend DEF Keep
    <3>2. \A x \in ToSet(Fresh(p, z)) : x.id < s.id BY <2>2, FreshElements
    <3> QED BY <3>1, <3>2, <2>1, <2>3, IncreasingAppend
  <2> QED BY <2>4, <2>5
<1> HIDE DEF T
<1>3. \A p \in Seq(Segment) : p \in T BY <1>1, <1>2, SequenceInduction, Zenon
<1> QED BY <1>3 DEF T

\* Erasing segments does not add to the audio in the queue.
Forward(q) == \A x \in ToSet(q) : x.start <= x.end

\* Erasing segments does not add to the audio in the queue.
LEMMA TotalFresh ==
    ASSUME NEW z, NEW q \in Seq(Segment), Forward(q)
    PROVE  Total(Fresh(q, z)) <= Total(q)
<1> DEFINE T == {p \in Seq(Segment) : Forward(p) => Total(Fresh(p, z)) <= Total(p)}
<1>1. <<>> \in T
  <2>1. <<>> \in Seq(Segment) OBVIOUS
  <2>2. Total(Fresh(<<>>, z)) <= Total(<<>>) BY FreshEmpty, TotalEmpty
  <2> QED BY <2>1, <2>2
<1>2. ASSUME NEW p \in Seq(Segment), NEW s \in Segment, p \in T PROVE Append(p, s) \in T
  <2>1. Append(p, s) \in Seq(Segment) /\ Fresh(p, z) \in Seq(Segment) BY FreshType
  <2> SUFFICES ASSUME Forward(Append(p, s))
               PROVE  Total(Fresh(Append(p, s), z)) <= Total(Append(p, s))
    BY <2>1
  <2>2. Forward(p) /\ s.start <= s.end BY ToSetAppend DEF Forward
  <2>3. Dur(s) \in Nat BY <2>2 DEF Dur, Segment
  <2>4. Total(Fresh(p, z)) <= Total(p) BY <2>2, <1>2
  <2>5. Total(p) \in Int /\ Total(Fresh(p, z)) \in Int BY <2>1, TotalType
  <2>6. Total(Append(p, s)) = Total(p) + Dur(s) BY TotalAppend
  <2>7. CASE Supersedes(z, s)
    <3>1. Fresh(Append(p, s), z) = Fresh(p, z) BY <2>7, FreshAppend DEF Keep
    <3>2. Total(Fresh(p, z)) <= Total(p) + Dur(s) BY <2>3, <2>4, <2>5
    <3> QED BY <3>1, <3>2, <2>6, Zenon
  <2>8. CASE ~Supersedes(z, s)
    <3>1. Fresh(Append(p, s), z) = Append(Fresh(p, z), s) BY <2>8, FreshAppend DEF Keep
    <3>2. Total(Append(Fresh(p, z), s)) = Total(Fresh(p, z)) + Dur(s) BY <2>1, TotalAppend
    <3>3. Total(Fresh(p, z)) + Dur(s) <= Total(p) + Dur(s) BY <2>3, <2>4, <2>5
    <3> QED BY <3>1, <3>2, <3>3, <2>6, Zenon
  <2> QED BY <2>7, <2>8
<1> HIDE DEF T
<1>3. \A p \in Seq(Segment) : p \in T BY <1>1, <1>2, SequenceInduction, Zenon
<1> QED BY <1>3 DEF T

\* What DropCount chooses is the least number that will do.
LEMMA DropCountIs ==
    ASSUME NEW q \in Seq(Segment), NEW s
    PROVE  /\ DropCount(q, s) \in 0 .. Len(q)
           /\ DropCount(q, s) = Len(q) \/ Fits(q, s, DropCount(q, s))
           /\ \A j \in 0 .. DropCount(q, s) - 1 : ~Fits(q, s, j)
<1> DEFINE T == {k \in 0 .. Len(q) : k = Len(q) \/ Fits(q, s, k)}
<1>1. Len(q) \in T /\ T \subseteq Nat OBVIOUS
<1>2. PICK k \in T : \A j \in T : k <= j
  <2>1. T # {} BY <1>1
  <2> HIDE DEF T
  <2> QED BY <1>1, <2>1, LeastNatural
<1>3. \A j \in 0 .. k - 1 : ~Fits(q, s, j)
  <2> SUFFICES ASSUME NEW j \in 0 .. k - 1, Fits(q, s, j) PROVE FALSE
    OBVIOUS
  <2>1. j \in T BY <1>2
  <2> QED BY <1>2, <2>1
<1>4. \E d : d = DropCount(q, s) OBVIOUS
<1>5. k \in 0 .. Len(q) /\ (k = Len(q) \/ Fits(q, s, k)) BY <1>2
<1> HIDE DEF T
<1> QED BY <1>3, <1>5, Zenon DEF DropCount

\* What is left of a queue for which DropCount has been decided.
Kept(q, s) == SubSeq(q, DropCount(q, s) + 1, Len(q))

\* Two sequences in a row increase when each does and the first is below the
\* second.
LEMMA IncreasingConcat ==
    ASSUME NEW a \in Seq(Segment), NEW b \in Seq(Segment)
    PROVE  Increasing(a \o b) <=>
             Increasing(a) /\ Increasing(b) /\ \A x \in ToSet(a), y \in ToSet(b) : x.id < y.id
<1>1. PICK c : c = a \o b OBVIOUS
<1>2. c \in Seq(Segment) /\ Len(c) = Len(a) + Len(b) /\ Len(a) \in Nat /\ Len(b) \in Nat
      /\ (\A n \in 1 .. Len(a) : c[n] = a[n]) /\ (\A n \in 1 .. Len(b) : c[Len(a) + n] = b[n])
  BY <1>1, ConcatIs
<1>3. ToSet(a) = {a[n] : n \in 1 .. Len(a)} /\ ToSet(b) = {b[n] : n \in 1 .. Len(b)}
  BY ToSetIs
<1>4. ASSUME Increasing(c)
      PROVE  Increasing(a) /\ Increasing(b) /\ \A x \in ToSet(a), y \in ToSet(b) : x.id < y.id
  <2>1. Increasing(a) BY <1>2, <1>4 DEF Increasing
  <2>2. Increasing(b)
    <3> SUFFICES ASSUME NEW i \in 1 .. Len(b), NEW j \in 1 .. Len(b), i < j PROVE b[i].id < b[j].id
      BY Zenon DEF Increasing
    <3>1. Len(a) + i \in 1 .. Len(c) /\ Len(a) + j \in 1 .. Len(c) /\ Len(a) + i < Len(a) + j
      BY <1>2
    <3>2. c[Len(a) + i].id < c[Len(a) + j].id BY <3>1, <1>4, Zenon DEF Increasing
    <3> QED BY <3>2, <1>2
  <2>3. ASSUME NEW i \in 1 .. Len(a), NEW j \in 1 .. Len(b) PROVE a[i].id < b[j].id
    <3>1. i \in 1 .. Len(c) /\ Len(a) + j \in 1 .. Len(c) /\ i < Len(a) + j BY <1>2
    <3>2. c[i].id < c[Len(a) + j].id BY <3>1, <1>4, Zenon DEF Increasing
    <3> QED BY <3>2, <1>2
  <2> QED BY <2>1, <2>2, <2>3, <1>3
<1>5. ASSUME Increasing(a), Increasing(b), \A x \in ToSet(a), y \in ToSet(b) : x.id < y.id
      PROVE  Increasing(c)
  <2> SUFFICES ASSUME NEW i \in 1 .. Len(c), NEW j \in 1 .. Len(c), i < j PROVE c[i].id < c[j].id
    BY Zenon DEF Increasing
  <2>1. CASE j <= Len(a)
    <3>1. i \in 1 .. Len(a) /\ j \in 1 .. Len(a) BY <2>1, <1>2
    <3> QED BY <3>1, <1>2, <1>5 DEF Increasing
  <2>2. CASE i <= Len(a) /\ j > Len(a)
    <3>1. PICK m \in 1 .. Len(b) : j = Len(a) + m
      <4>1. j - Len(a) \in 1 .. Len(b) /\ j = Len(a) + (j - Len(a)) BY <2>2, <1>2
      <4> QED BY <4>1
    <3>2. i \in 1 .. Len(a) BY <2>2
    <3>3. a[i] \in ToSet(a) /\ b[m] \in ToSet(b) BY <3>2, <1>3
    <3> QED BY <3>1, <3>2, <3>3, <1>2, <1>5
  <2>3. CASE i > Len(a)
    <3>1. PICK m \in 1 .. Len(b) : j = Len(a) + m
      <4>1. j - Len(a) \in 1 .. Len(b) /\ j = Len(a) + (j - Len(a)) BY <2>3, <1>2
      <4> QED BY <4>1
    <3>2. PICK l \in 1 .. Len(b) : i = Len(a) + l
      <4>1. i - Len(a) \in 1 .. Len(b) /\ i = Len(a) + (i - Len(a)) BY <2>3, <1>2
      <4> QED BY <4>1
    <3>3. l < m BY <3>1, <3>2, <1>2
    <3>4. b[l].id < b[m].id BY <3>3, <1>5 DEF Increasing
    <3> QED BY <3>1, <3>2, <3>4, <1>2
  <2> QED BY <2>1, <2>2, <2>3, <1>2
<1> QED BY <1>1, <1>4, <1>5, Zenon

\* The ids of a queue are those of its segments.
LEMMA IdsIs ==
    ASSUME NEW q \in Seq(Segment)
    PROVE  Ids(q) = {x.id : x \in ToSet(q)}
BY DEF Ids, ToSet

\* It is in the same order.
LEMMA SuffixIncreasing ==
    ASSUME NEW q \in Seq(Segment), NEW k \in 0 .. Len(q), Increasing(q)
    PROVE  Increasing(SubSeq(q, k + 1, Len(q)))
<1>1. PICK r : r = SubSeq(q, k + 1, Len(q)) OBVIOUS
<1>2. r \in Seq(Segment) /\ Len(r) = Len(q) - k /\ \A n \in 1 .. Len(r) : r[n] = q[k + n]
  BY <1>1, SuffixIs
<1>3. ASSUME NEW i \in 1 .. Len(r), NEW j \in 1 .. Len(r), i < j PROVE r[i].id < r[j].id
  <2>1. k + i \in 1 .. Len(q) /\ k + j \in 1 .. Len(q) /\ k + i < k + j BY <1>2, <1>3
  <2>2. q[k + i].id < q[k + j].id BY <2>1, Zenon DEF Increasing
  <2> QED BY <2>2, <1>2
<1> QED BY <1>1, <1>3, Zenon DEF Increasing

\* What is left of a queue when a segment comes in: the end of it, all of it
\* unless some was dropped, and little enough.
LEMMA KeptIs ==
    ASSUME NEW q \in Seq(Segment), NEW s \in Segment
    PROVE  /\ Kept(q, s) \in Seq(Segment)
           /\ ToSet(Kept(q, s)) \subseteq ToSet(q)
           /\ Kept(q, s) # <<>> => Total(Kept(q, s)) + Dur(s) <= MaxDur
           /\ Total(q) + Dur(s) <= MaxDur => Kept(q, s) = q
<1>1. PICK k : k = DropCount(q, s) OBVIOUS
<1>2. /\ k \in 0 .. Len(q)
      /\ k = Len(q) \/ Fits(q, s, k)
      /\ \A j \in 0 .. k - 1 : ~Fits(q, s, j)
  BY <1>1, DropCountIs, Zenon
<1>3. Kept(q, s) = SubSeq(q, k + 1, Len(q)) BY <1>1 DEF Kept
<1>4. Kept(q, s) \in Seq(Segment) /\ Len(Kept(q, s)) = Len(q) - k /\ (k = 0 => Kept(q, s) = q)
  BY <1>2, <1>3, SuffixIs, Zenon
<1>5. ToSet(Kept(q, s)) \subseteq ToSet(q)
  <2>1. ToSet(SubSeq(q, k + 1, Len(q))) \subseteq ToSet(q) BY <1>2, SuffixElements
  <2> QED BY <2>1, <1>3, Zenon
<1>6. ASSUME Kept(q, s) # <<>> PROVE Total(Kept(q, s)) + Dur(s) <= MaxDur
  <2>1. Len(Kept(q, s)) # 0 BY <1>4, <1>6
  <2>2. Fits(q, s, k) BY <1>2, <1>4, <2>1
  <2> QED BY <2>2, <1>3, Zenon DEF Fits
<1>7. ASSUME Total(q) + Dur(s) <= MaxDur PROVE Kept(q, s) = q
  <2>1. SubSeq(q, 0 + 1, Len(q)) = q OBVIOUS
  <2>2. Fits(q, s, 0) BY <1>7, <2>1, Zenon DEF Fits
  <2>3. k = 0
    <3> SUFFICES ASSUME k # 0 PROVE FALSE OBVIOUS
    <3>1. k \in 0 .. Len(q) BY <1>2, Zenon
    <3>2. 0 \in 0 .. k - 1 BY <3>1
    <3> QED BY <3>2, <2>2, <1>2, Zenon
  <2> QED BY <2>3, <1>4
<1> QED BY <1>4, <1>5, <1>6, <1>7

\* The order is kept, and unless an id is gone everything is.
LEMMA KeptIncreasing ==
    ASSUME NEW q \in Seq(Segment), NEW s \in Segment, Increasing(q)
    PROVE  /\ Increasing(Kept(q, s))
           /\ Ids(q) \ Ids(Kept(q, s)) = {} => Kept(q, s) = q
<1>1. PICK k : k = DropCount(q, s) OBVIOUS
<1>2. k \in 0 .. Len(q) /\ Len(q) \in Nat BY <1>1, DropCountIs
<1>3. PICK r : r = Kept(q, s) OBVIOUS
<1>4. r = SubSeq(q, k + 1, Len(q)) BY <1>1, <1>3 DEF Kept
<1>5. Increasing(r) BY <1>2, <1>4, SuffixIncreasing, Zenon
<1>6. ASSUME k # 0 PROVE q[1].id \in Ids(q) \ Ids(r)
  <2>1. r \in Seq(Segment) /\ Len(r) = Len(q) - k /\ \A n \in 1 .. Len(r) : r[n] = q[k + n]
    BY <1>2, <1>4, SuffixIs
  <2>2. 1 \in 1 .. Len(q) /\ q[1].id \in Ids(q) BY <1>2, <1>6 DEF Ids
  <2>3. ASSUME NEW n \in 1 .. Len(r) PROVE r[n].id # q[1].id
    <3>1. k + n \in 1 .. Len(q) /\ 1 < k + n BY <1>2, <1>6, <2>1
    <3>2. q[1].id < q[k + n].id BY <2>2, <3>1, Zenon DEF Increasing
    <3>3. q[1] \in Segment /\ q[k + n] \in Segment BY <2>2, <3>1
    <3>4. q[1].id \in Nat /\ q[k + n].id \in Nat BY <3>3 DEF Segment
    <3> QED BY <3>2, <3>4, <2>1
  <2>4. q[1].id \notin Ids(r) BY <2>1, <2>3 DEF Ids
  <2> QED BY <2>2, <2>4
<1>7. k = 0 => r = q BY <1>2, <1>4, SuffixIs
<1> QED BY <1>3, <1>5, <1>6, <1>7

\* A segment the worker holds.
Held == [start : Nat, end : Nat, index : Nat, is_partial : BOOLEAN, parts : Seq(Segment)]

\* Hearing what a held segment was made from, as a function.
Hear == [p \in Seq(Segment) \X Held |-> p[1] \o p[2].parts]

\* What that function is, and its type.
LEMMA HearIs ==
    /\ Hear \in [Seq(Segment) \X Held -> Seq(Segment)]
    /\ \A r \in Seq(Segment), h \in Held : Hear[<<r, h>>] = r \o h.parts
<1>1. \A h \in Held : h.parts \in Seq(Segment) BY DEF Held
<1>2. \A r \in Seq(Segment), h \in Held : r \o h.parts \in Seq(Segment) BY <1>1
<1> QED BY <1>2, Zenon DEF Hear

\* What was heard is a fold, where HeardIn defines it as a recursive function.
LEMMA HeardFolds ==
    ASSUME NEW q \in Seq(Held)
    PROVE  \E f \in [0 .. Len(q) -> Seq(Segment)] :
              Folds(f, q, <<>>, Hear) /\ HeardIn(q) = f[Len(q)]
<1>1. PICK f \in [0 .. Len(q) -> Seq(Segment)] : Folds(f, q, <<>>, Hear)
  <2>1. <<>> \in Seq(Segment) OBVIOUS
  <2> QED BY <2>1, HearIs, FoldExists, Zenon
<1>2. ASSUME NEW n \in 1 .. Len(q) PROVE f[n] = f[n - 1] \o q[n].parts
  <2>1. q[n] \in Held /\ f[n - 1] \in Seq(Segment) OBVIOUS
  <2>2. f[n] = Hear[<<f[n - 1], q[n]>>] BY <1>1 DEF Folds, FoldsTo
  <2> QED BY <2>1, <2>2, HearIs, Zenon
<1>3. f[0] = <<>> BY <1>1 DEF Folds, FoldsTo
<1>4. f = [n \in 0 .. Len(q) |-> IF n = 0 THEN <<>> ELSE f[n - 1] \o q[n].parts]
  BY <1>2, <1>3
<1> DEFINE heard[n \in 0 .. Len(q)] == IF n = 0 THEN <<>> ELSE heard[n - 1] \o q[n].parts
<1>5. heard = [n \in 0 .. Len(q) |-> IF n = 0 THEN <<>> ELSE heard[n - 1] \o q[n].parts]
  BY <1>4, Zenon
<1>6. HeardIn(q) = heard[Len(q)] BY DEF HeardIn
<1> HIDE DEF heard
<1>7. heard[0] = <<>> /\ \A n \in 1 .. Len(q) : heard[n] = heard[n - 1] \o q[n].parts
  <2>1. 0 \in 0 .. Len(q) OBVIOUS
  <2>2. \A n \in 1 .. Len(q) : n \in 0 .. Len(q) /\ n # 0 OBVIOUS
  <2> QED BY <1>5, <2>1, <2>2, Zenon
<1>8. \A n \in 1 .. Len(q) : f[n - 1] = heard[n - 1] => f[n] = heard[n]
  BY <1>2, <1>7, Zenon
<1>9. f[0] = heard[0] /\ Len(q) \in Nat BY <1>3, <1>7
<1>10. f[Len(q)] = heard[Len(q)] BY <1>8, <1>9, Agree, Zenon
<1> QED BY <1>1, <1>6, <1>10

\* It is a sequence of segments.
LEMMA HeardType ==
    ASSUME NEW q \in Seq(Held)
    PROVE  HeardIn(q) \in Seq(Segment)
<1>1. Len(q) \in 0 .. Len(q) OBVIOUS
<1> QED BY <1>1, HeardFolds

\* At first nothing was heard.
LEMMA HeardEmpty == HeardIn(<<>>) = <<>>
<1>1. <<>> \in Seq(Held) /\ Len(<<>>) = 0 OBVIOUS
<1>2. PICK f : Folds(f, <<>>, <<>>, Hear) /\ HeardIn(<<>>) = f[Len(<<>>)]
  BY <1>1, HeardFolds
<1> QED BY <1>1, <1>2 DEF Folds, FoldsTo

\* A transcript adds the segments it was made from.
LEMMA HeardAppend ==
    ASSUME NEW q \in Seq(Held), NEW s \in Held
    PROVE  HeardIn(Append(q, s)) = HeardIn(q) \o s.parts
<1>1. Append(q, s) \in Seq(Held) /\ Len(q) \in 0 .. Len(q) BY AppendIs
<1>2. PICK f : Folds(f, q, <<>>, Hear) /\ HeardIn(q) = f[Len(q)] /\ f[Len(q)] \in Seq(Segment)
  BY <1>1, HeardFolds
<1>3. PICK g : Folds(g, Append(q, s), <<>>, Hear) /\ HeardIn(Append(q, s)) = g[Len(Append(q, s))]
  BY <1>1, HeardFolds, Zenon
<1>4. g[Len(Append(q, s))] = Hear[<<f[Len(q)], s>>]
  <2>1. q \in Seq(Held) /\ s \in Held OBVIOUS
  <2>2. Folds(f, q, <<>>, Hear) /\ Folds(g, Append(q, s), <<>>, Hear) BY <1>2, <1>3, Zenon
  <2> QED BY <2>1, <2>2, FoldsAppend
<1>5. Hear[<<f[Len(q)], s>>] = f[Len(q)] \o s.parts BY <1>2, HearIs, Zenon
<1> QED BY <1>2, <1>3, <1>4, <1>5, Zenon

-----------------------------------------------------------------------------
(* Where the two threads are.                                              *)

\* The types of the variables of both threads.
Types ==
    /\ segments \in Seq(Segment) /\ next \in Seq(Segment)
    /\ seg \in Held /\ transcripts \in Seq(Held)
    /\ queue_dur \in Int
    /\ {total_queued, clock, current_seg_idx, last_partial, seg_counter} \subseteq Nat
    /\ speech_start \in Nat \cup {-1} /\ speech_end \in Nat \cup {-1}
    /\ mpc \in {"wait", "run", "partial", "push", "finish", "join", "exit"}
    /\ wpc \in {"init", "pop", "blocked", "merge", "putback", "process", "warn", "ended", "crashed"}

\* The main thread: while a segment is open it has the last index handed out
\* and is shorter than the longest.
MainInv ==
    /\ current_seg_idx # 0 =>
         /\ current_seg_idx = seg_counter
         /\ speech_start # -1 /\ speech_start <= last_partial
         /\ mpc \in {"run", "partial", "push"}
    /\ mpc \in {"run", "partial", "push"} /\ speech_start # -1 => current_seg_idx # 0
    /\ speech_start # -1 => speech_start <= clock /\ clock - speech_start < MaxSegment
    /\ mpc = "push" => current_seg_idx # 0 /\ speech_start < clock
    /\ mpc = "wait" => speech_start = -1

\* The worker holds a segment.
Grasped == wpc \in {"merge", "process", "putback", "crashed"}
\* The worker: what it holds has grown out of its parts, which are in order.
WorkerInv ==
    /\ IF wpc = "putback" THEN Len(next) = 1 ELSE next = <<>>
    /\ IF Grasped
       THEN LET p == seg.parts IN
            /\ p # <<>>
            /\ seg.is_partial = p[1].is_partial /\ seg.index = p[1].index
            /\ seg.start = p[1].start /\ seg.end = p[Len(p)].end
       ELSE seg = NoSeg

\* Both threads start so.
LEMMA InitTypes == PipeInit => Types /\ MainInv /\ WorkerInv
<1> SUFFICES ASSUME PipeInit PROVE Types /\ MainInv /\ WorkerInv OBVIOUS
<1>1. NoSeg \in Held BY DEF NoSeg, Held
<1>2. Types BY <1>1 DEF PipeInit, QueueInit, Types, Nothing
<1>3. MainInv BY DEF PipeInit, QueueInit, MainInv
<1>4. WorkerInv BY DEF PipeInit, QueueInit, WorkerInv, Grasped, Nothing
<1> QED BY <1>2, <1>3, <1>4

\* What a push does, for a segment and a queue that have types.
PushEffect(z) ==
    /\ segments' = Append(Kept(Fresh(segments, z), z), z)
    /\ queue_dur' = queue_dur - (Total(segments) - Total(Kept(Fresh(segments, z), z))) + Dur(z)
    /\ stale' = stale \cup (Ids(segments) \ Ids(Fresh(segments, z)))
    /\ dropped' = dropped \cup (Ids(Fresh(segments, z)) \ Ids(Kept(Fresh(segments, z), z)))
    /\ total_queued' = total_queued + 1
    /\ UNCHANGED <<done, warned>>

\* What a push does, in the terms of the lemmas.
LEMMA PushIs == \A z : Push(z) => PushEffect(z)
BY DEF Push, PushEffect, Kept

\* The padding takes a start back by Pad at most, and never below 0.
LEMMA RewoundIs ==
    ASSUME NEW s \in Nat
    PROVE  Rewound(s) \in Nat /\ Rewound(s) <= s /\ s - Rewound(s) <= Pad
BY PipelineAssumption DEF Rewound

\* What is pushed is a segment.
LEMMA NewSegmentTyped ==
    ASSUME Types, speech_start # -1, NEW e \in Nat, NEW b \in BOOLEAN
    PROVE  NewSegment(Rewound(speech_start), e, current_seg_idx, b) \in Segment
<1>1. Rewound(speech_start) \in Nat BY RewoundIs DEF Types
<1>2. total_queued + 1 \in Nat /\ current_seg_idx \in Nat BY DEF Types
<1> QED BY <1>1, <1>2 DEF NewSegment, Segment

\* What a push leaves in the queue is typed.
LEMMA PushTypes ==
    ASSUME Types, NEW z \in Segment, PushEffect(z)
    PROVE  segments' \in Seq(Segment) /\ queue_dur' \in Int /\ total_queued' \in Nat
<1>1. Fresh(segments, z) \in Seq(Segment) BY FreshType DEF Types
<1>2. Kept(Fresh(segments, z), z) \in Seq(Segment) BY <1>1, KeptIs
<1>3. Total(segments) \in Int /\ Total(Kept(Fresh(segments, z), z)) \in Int /\ Dur(z) \in Int
  BY <1>2, TotalType, DurType DEF Types
<1>4. segments' \in Seq(Segment) BY <1>2 DEF PushEffect
<1>5. queue_dur' \in Int BY <1>3 DEF PushEffect, Types
<1> QED BY <1>4, <1>5 DEF PushEffect, Types

\* The types of what an action leaves alone.
Control == Types /\ MainInv /\ WorkerInv

\* The main thread starts, gives up, finishes and joins.
LEMMA WaitControl ==
    ASSUME Control, WorkerIsUp \/ WorkerFailed \/ InitTimesOut \/ Finish \/ Join
    PROVE  Control'
<1>1. Types'
  <2>1. CASE WorkerIsUp \/ WorkerFailed \/ InitTimesOut \/ Join
    BY <2>1 DEF Control, Types, WorkerIsUp, WorkerFailed, InitTimesOut, Join, queueVars,
           vadVars, workerVars
  <2>2. CASE Finish
    BY <2>2 DEF Control, Types, Finish, SetDone, Notify, queueVars, vadVars
  <2> QED BY <2>1, <2>2
<1>2. MainInv'
  BY DEF Control, MainInv, WorkerIsUp, WorkerFailed, InitTimesOut, Join, Finish, SetDone, vadVars
<1>3. WorkerInv'
  <2>1. CASE WorkerIsUp \/ WorkerFailed \/ InitTimesOut \/ Join
    BY <2>1 DEF Control, WorkerInv, Grasped, WorkerIsUp, WorkerFailed, InitTimesOut,
           Join, workerVars
  <2>2. CASE Finish
    BY <2>2 DEF Control, WorkerInv, Grasped, Finish, SetDone, Notify
  <2> QED BY <2>1, <2>2
<1> QED BY <1>1, <1>2, <1>3 DEF Control

\* Audio passes, speech starts and the backlog is looked at.
LEMMA VadControl ==
    ASSUME Control, NEW s \in Nat, ChunkPasses \/ SpeechStarts(s) \/ CheckBackoff
    PROVE  Control'
<1>1. Types'
  <2>1. CASE ChunkPasses
    BY <2>1 DEF Control, Types, ChunkPasses, queueVars, workerVars
  <2>2. CASE SpeechStarts(s)
    BY <2>2 DEF Control, Types, SpeechStarts, queueVars, workerVars
  <2>3. CASE CheckBackoff
    BY <2>3 DEF Control, Types, CheckBackoff, queueVars, vadVars, workerVars
  <2> QED BY <2>1, <2>2, <2>3
<1>2. MainInv'
  <2>1. CASE ChunkPasses
    BY <2>1 DEF Control, Types, MainInv, ChunkPasses
  <2>2. CASE SpeechStarts(s)
    BY <2>2 DEF Control, Types, MainInv, SpeechStarts
  <2>3. CASE CheckBackoff
    BY <2>3, PipelineAssumption DEF Control, Types, MainInv, CheckBackoff, PartialDue, vadVars
  <2> QED BY <2>1, <2>2, <2>3
<1>3. WorkerInv'
  BY DEF Control, WorkerInv, Grasped, ChunkPasses, SpeechStarts, CheckBackoff, workerVars
<1> QED BY <1>1, <1>2, <1>3 DEF Control

\* Pushes.
Final(end) == NewSegment(Rewound(speech_start), end, current_seg_idx, FALSE)
\* The partial the main thread pushes.
Preview == NewSegment(Rewound(speech_start), clock, current_seg_idx, TRUE)

\* A final is pushed at the end of speech.
LEMMA EndControl ==
    ASSUME Control, SpeechEnds
    PROVE  /\ Final(clock + 1) \in Segment /\ PushEffect(Final(clock + 1))
           /\ Control'
<1>1. clock + 1 \in Nat /\ clock' = clock + 1 /\ speech_start # -1 BY DEF Control, Types, SpeechEnds
<1>2. Final(clock + 1) \in Segment BY <1>1, NewSegmentTyped DEF Control, Final
<1>3. PushEffect(Final(clock + 1)) BY <1>1, PushIs, Zenon DEF SpeechEnds, Final
<1>4. Types'
  <2>1. segments' \in Seq(Segment) /\ queue_dur' \in Int /\ total_queued' \in Nat
    BY <1>2, <1>3, PushTypes DEF Control
  <2> QED BY <2>1, <1>1 DEF Control, Types, SpeechEnds, Notify
<1>5. MainInv' BY DEF Control, Types, MainInv, SpeechEnds
<1>6. WorkerInv' BY DEF Control, WorkerInv, Grasped, SpeechEnds, Notify
<1> QED BY <1>2, <1>3, <1>4, <1>5, <1>6 DEF Control

\* A partial is pushed.
LEMMA PreviewControl ==
    ASSUME Control, PushPartial
    PROVE  /\ Preview \in Segment /\ PushEffect(Preview)
           /\ Control'
<1>1. clock \in Nat /\ speech_start # -1 BY DEF Control, Types, MainInv, PushPartial
<1>2. Preview \in Segment BY <1>1, NewSegmentTyped DEF Control, Preview
<1>3. PushEffect(Preview) BY PushIs, Zenon DEF PushPartial, Preview
<1>4. Types'
  <2>1. segments' \in Seq(Segment) /\ queue_dur' \in Int /\ total_queued' \in Nat
    BY <1>2, <1>3, PushTypes DEF Control
  <2> QED BY <2>1, <1>1 DEF Control, Types, PushPartial, Notify
<1>5. MainInv' BY DEF Control, Types, MainInv, PushPartial
<1>6. WorkerInv' BY DEF Control, WorkerInv, Grasped, PushPartial, Notify
<1> QED BY <1>2, <1>3, <1>4, <1>5, <1>6 DEF Control

\* The open segment is pushed when the audio ends.
LEMMA FlushControl ==
    ASSUME Control, FlushTail
    PROVE  /\ speech_start # -1 => Final(clock) \in Segment /\ PushEffect(Final(clock))
           /\ Control'
<1>1. clock \in Nat BY DEF Control, Types
<1>2. ASSUME speech_start # -1 PROVE Final(clock) \in Segment
  BY <1>1, <1>2, NewSegmentTyped DEF Control, Final
<1>3. ASSUME speech_start # -1 PROVE PushEffect(Final(clock))
  BY <1>3, PushIs, Zenon DEF FlushTail, Final
<1>4. Types'
  <2>1. segments' \in Seq(Segment) /\ queue_dur' \in Int /\ total_queued' \in Nat
    <3>1. CASE speech_start # -1 BY <3>1, <1>2, <1>3, PushTypes DEF Control
    <3>2. CASE speech_start = -1 BY <3>2 DEF Control, Types, FlushTail, queueVars
    <3> QED BY <3>1, <3>2
  <2>2. current_seg_idx' \in Nat /\ last_partial' \in Nat /\ wpc' \in {wpc, "pop"}
    <3>1. CASE speech_start # -1 BY <3>1 DEF Control, Types, FlushTail, Notify
    <3>2. CASE speech_start = -1 BY <3>2 DEF Control, Types, FlushTail
    <3> QED BY <3>1, <3>2
  <2> QED BY <2>1, <2>2, <1>1 DEF Control, Types, FlushTail
<1>5. MainInv' BY DEF Control, Types, MainInv, FlushTail
<1>6. WorkerInv' BY DEF Control, WorkerInv, Grasped, FlushTail, Notify
<1> QED BY <1>2, <1>3, <1>4, <1>5, <1>6 DEF Control

\* What the worker does without touching a segment.
LEMMA IdleControl ==
    ASSUME Control, \/ InitSucceeds \/ InitFails \/ Block \/ WakeSpuriously \/ Drained
                    \/ NothingToMerge \/ WarnIfSlow \/ UNCHANGED pipeVars
    PROVE  Control'
<1>1. Types'
  BY DEF Control, Types, InitSucceeds, InitFails, Block, WakeSpuriously, Drained,
         NothingToMerge, WarnIfSlow, CheckSlow, pipeVars, queueVars, mainVars, workerVars
<1>2. MainInv'
  BY DEF Control, MainInv, InitSucceeds, InitFails, Block, WakeSpuriously, Drained,
         NothingToMerge, WarnIfSlow, pipeVars, mainVars
<1>3. WorkerInv'
  BY DEF Control, WorkerInv, Grasped, InitSucceeds, InitFails, Block, WakeSpuriously, Drained,
         NothingToMerge, WarnIfSlow, pipeVars, workerVars
<1> QED BY <1>1, <1>2, <1>3 DEF Control

\* What the worker takes out of the queue.
LEMMA FrontTyped ==
    ASSUME Types, TakeFront
    PROVE  /\ Head(segments) \in Segment /\ Holding(Head(segments)) \in Held
           /\ Grown(Head(segments)) \in Held
           /\ segments' \in Seq(Segment) /\ queue_dur' \in Int
           /\ segments # <<>> /\ segments' = Tail(segments)
<1>1. Head(segments) \in Segment /\ Tail(segments) \in Seq(Segment)
  BY Split DEF Types, TakeFront
<1>2. PICK h : h = Head(segments) OBVIOUS
<1>3. h \in Segment /\ <<h>> \in Seq(Segment) BY <1>1, <1>2
<1>4. Holding(h) \in Held BY <1>3 DEF Holding, Held, Segment
<1>5. Grown(h) \in Held
  <2>1. seg.parts \in Seq(Segment) BY DEF Types, Held
  <2>2. Append(seg.parts, h) \in Seq(Segment) BY <1>3, <2>1
  <2>3. h.end \in Nat BY <1>3 DEF Segment
  <2> QED BY <2>2, <2>3 DEF Grown, Types, Held
<1>6. queue_dur' \in Int
  <2>1. Dur(Head(segments)) \in Int BY <1>1, DurType
  <2> QED BY <2>1 DEF TakeFront, Types
<1> QED BY <1>1, <1>2, <1>4, <1>5, <1>6 DEF TakeFront

\* The worker takes the front of the queue.
LEMMA TakeControl ==
    ASSUME Control, Pop \/ Merge \/ MergeOverlapping \/ TooFarToMerge
    PROVE  Control'
<1>1. TakeFront BY DEF Pop, Merge, MergeOverlapping, TooFarToMerge
<1> DEFINE h == Head(segments)
<1>2. /\ h \in Segment /\ Holding(h) \in Held /\ Grown(h) \in Held
      /\ segments' \in Seq(Segment) /\ queue_dur' \in Int
  BY <1>1, FrontTyped DEF Control
<1> HIDE DEF h
<1>3. h.end \in Nat /\ <<h>> \in Seq(Segment) BY <1>2 DEF Segment
<1>4. seg.parts \in Seq(Segment) BY DEF Control, Types, Held
<1>5. Types'
  <2>1. total_queued' = total_queued BY <1>1 DEF TakeFront
  <2>2. CASE Pop BY <2>1, <2>2, <1>2 DEF Control, Types, Pop, mainVars, h
  <2>3. CASE Merge BY <2>1, <2>3, <1>2 DEF Control, Types, Merge, mainVars, h
  <2>4. CASE MergeOverlapping BY <2>1, <2>4, <1>2 DEF Control, Types, MergeOverlapping, mainVars
  <2>5. CASE TooFarToMerge BY <2>1, <2>5, <1>2, <1>3 DEF Control, Types, TooFarToMerge, mainVars, h
  <2> QED BY <2>2, <2>3, <2>4, <2>5
<1>6. MainInv'
  BY DEF Control, MainInv, Pop, Merge, MergeOverlapping, TooFarToMerge, mainVars
<1>7. WorkerInv'
  <2>2. CASE Pop
    <3>1. seg' = Holding(h) /\ wpc' \in {"merge", "process"} /\ next' = <<>> 
      BY <2>2 DEF Pop, Control, WorkerInv, h
    <3>2. seg'.parts = <<h>> /\ <<h>> # <<>> /\ <<h>>[1] = h /\ Len(<<h>>) = 1 BY <3>1 DEF Holding
    <3> QED BY <3>1, <3>2 DEF WorkerInv, Grasped, Holding
  <2>3. CASE Merge
    <3>1. seg' = Grown(h) /\ wpc' \in {"merge", "process"} /\ next' = <<>> 
      BY <2>3 DEF Merge, Control, WorkerInv, h
    <3>2. PICK p, a : p = seg.parts /\ a = Append(p, h) OBVIOUS
    <3>3. p # <<>> /\ seg.is_partial = p[1].is_partial /\ seg.index = p[1].index
          /\ seg.start = p[1].start
      BY <2>3, <3>2 DEF Merge, Control, WorkerInv, Grasped
    <3>4. a # <<>> /\ a[1] = p[1] /\ a[Len(a)] = h
      BY <3>2, <3>3, <1>2, <1>4
    <3>5. /\ seg'.parts = a /\ seg'.end = h.end /\ seg'.start = seg.start
          /\ seg'.index = seg.index /\ seg'.is_partial = seg.is_partial
      BY <3>1, <3>2 DEF Grown, Control, Types, Held
    <3> QED BY <3>1, <3>3, <3>4, <3>5 DEF WorkerInv, Grasped
  <2>4. CASE MergeOverlapping
    BY <2>4 DEF MergeOverlapping, Control, WorkerInv, Grasped
  <2>5. CASE TooFarToMerge
    <3>1. Len(next') = 1 BY <2>5 DEF TooFarToMerge
    <3> QED BY <2>5, <3>1 DEF TooFarToMerge, Control, WorkerInv, Grasped
  <2> QED BY <2>2, <2>3, <2>4, <2>5
<1> QED BY <1>5, <1>6, <1>7 DEF Control

\* The worker puts a segment back.
LEMMA PutBackControl ==
    ASSUME Control, PutBack
    PROVE  /\ next[1] \in Segment /\ next = <<next[1]>>
           /\ Control'
<1>1. next \in Seq(Segment) /\ Len(next) = 1 BY DEF Control, Types, WorkerInv, PutBack
<1>2. next[1] \in Segment /\ next = <<next[1]>> BY <1>1, Single
<1>3. <<next[1]>> \o segments \in Seq(Segment) BY <1>2, PushFrontIs DEF Control, Types
<1>4. Dur(next[1]) \in Int BY <1>2, DurType
<1>5. Types' BY <1>3, <1>4 DEF Control, Types, PutBack, PushFront, Nothing, mainVars
<1>6. MainInv' BY DEF Control, MainInv, PutBack, mainVars
<1>7. WorkerInv' BY DEF Control, WorkerInv, Grasped, PutBack, Nothing
<1> QED BY <1>2, <1>5, <1>6, <1>7 DEF Control

\* The worker transcribes what it holds.
LEMMA ProcessControl ==
    ASSUME Control, Process
    PROVE  Control'
<1>1. NoSeg \in Held BY DEF NoSeg, Held
<1>2. Append(transcripts, seg) \in Seq(Held) BY DEF Control, Types
<1>3. Types' BY <1>1, <1>2 DEF Control, Types, Process, queueVars, mainVars
<1>4. MainInv' BY DEF Control, MainInv, Process, mainVars
<1>5. WorkerInv' BY DEF Control, WorkerInv, Grasped, Process
<1> QED BY <1>3, <1>4, <1>5 DEF Control

-----------------------------------------------------------------------------
(* The line of all segments that are still somewhere.                      *)

\* The line without the queue.
Before == HeardIn(transcripts) \o seg.parts \o next

\* A segment on the line: its id and its index were handed out, its length is
\* bounded, and if it has the index of the open segment it is a partial that
\* starts where that does.
Proper(e) ==
    /\ e.id <= total_queued
    /\ e.index \in 1 .. seg_counter
    /\ e.start <= e.end /\ e.end - e.start <= MaxSegment + Pad
    /\ e.is_partial => e.start < e.end
    /\ e.index = current_seg_idx => e.is_partial /\ e.start = Rewound(speech_start)
\* Two segments on the line: the indices increase with the ids, and strictly
\* after a final; those of one index start together.
Pair(x, y) ==
    /\ x.id < y.id => x.index <= y.index /\ (~x.is_partial => x.index < y.index)
    /\ x.index = y.index => x.start = y.start
\* Of every partial whose segment is closed the final is on the line.
Settled(S) == \A x \in S :
    x.is_partial /\ x.index # current_seg_idx =>
        \E f \in S : ~f.is_partial /\ f.index = x.index
\* What is true of the line.
LineInv ==
    /\ Increasing(Line)
    /\ Conserved
    /\ \A e \in ToSet(Line) : Proper(e)
    /\ \A x, y \in ToSet(Line) : Pair(x, y)
    /\ Alive /\ dropped = {} => Settled(ToSet(Line))

\* The line is a sequence of segments, those in the queue at its end.
LEMMA LineTyped ==
    ASSUME Types
    PROVE  /\ HeardIn(transcripts) \in Seq(Segment) /\ seg.parts \in Seq(Segment)
           /\ Before \in Seq(Segment) /\ Line = Before \o segments /\ Line \in Seq(Segment)
<1>1. PICK a, b, c : a = HeardIn(transcripts) /\ b = seg.parts /\ c = next OBVIOUS
<1>2. a \in Seq(Segment) BY <1>1, HeardType DEF Types
<1>3. b \in Seq(Segment) /\ c \in Seq(Segment) BY <1>1 DEF Types, Held
<1>4. (a \o b) \o c \in Seq(Segment) BY <1>2, <1>3
<1>5. Before \in Seq(Segment) BY <1>4, <1>1, Zenon DEF Before
<1>6. Line = Before \o segments BY DEF Line, Before
<1>7. Before \o segments \in Seq(Segment) BY <1>5, ConcatIs DEF Types
<1> QED BY <1>1, <1>2, <1>3, <1>5, <1>6, <1>7

\* A step that moves segments along the line, or none, keeps what is true of
\* it.
LEMMA LineKept ==
    ASSUME LineInv, Line' = Line, Alive' => Alive,
           UNCHANGED <<total_queued, dropped, stale, seg_counter, current_seg_idx, speech_start>>
    PROVE  LineInv'
<1>1. Increasing(Line') BY DEF LineInv
<1>2. Conserved' BY DEF LineInv, Conserved
<1>3. \A e : Proper(e) => Proper(e)' BY DEF Proper, Rewound
<1>4. \A x, y : Pair(x, y)' <=> Pair(x, y) BY DEF Pair
<1>5. Settled(ToSet(Line)) => Settled(ToSet(Line))' BY DEF Settled
<1>6. \A e \in ToSet(Line') : Proper(e)' BY <1>3 DEF LineInv
<1>7. \A x, y \in ToSet(Line') : Pair(x, y)' BY <1>4 DEF LineInv
<1>8. Alive' /\ dropped' = {} => Settled(ToSet(Line))' BY <1>5 DEF LineInv
<1> QED BY <1>1, <1>2, <1>6, <1>7, <1>8 DEF LineInv

\* What is conserved by a push, as sets.
LEMMA PushAccounts ==
    ASSUME NEW n \in Nat, NEW B, NEW Q, NEW F, NEW K, NEW D, NEW T, NEW m, NEW L2, NEW D2, NEW T2,
           K \subseteq F, F \subseteq Q, B \cap Q = {},
           (B \cup Q) \cup D \cup T = 1 .. n, (B \cup Q) \cap (D \cup T) = {}, D \cap T = {},
           m = n + 1, L2 = (B \cup K) \cup {m}, D2 = D \cup (F \ K), T2 = T \cup (Q \ F)
    PROVE  /\ L2 \cup D2 \cup T2 = 1 .. m
           /\ L2 \cap (D2 \cup T2) = {}
           /\ D2 \cap T2 = {}
<1>1. 1 .. m = (1 .. n) \cup {m} /\ m \notin 1 .. n OBVIOUS
<1> QED BY <1>1

\* The ids of two sequences in a row.
LEMMA IdsConcat ==
    ASSUME NEW a \in Seq(Segment), NEW b \in Seq(Segment)
    PROVE  Ids(a \o b) = Ids(a) \cup Ids(b)
<1>1. PICK c : c = a \o b OBVIOUS
<1>2. c \in Seq(Segment) /\ ToSet(c) = ToSet(a) \cup ToSet(b) BY <1>1, ConcatIs, ToSetConcat
<1>3. Ids(c) = {x.id : x \in ToSet(c)} /\ Ids(a) = {x.id : x \in ToSet(a)}
      /\ Ids(b) = {x.id : x \in ToSet(b)}
  BY <1>2, IdsIs
<1>4. Ids(c) = Ids(a) \cup Ids(b) BY <1>2, <1>3
<1> QED BY <1>1, <1>4

\* The ids of a sequence with one segment more.
LEMMA IdsAppend ==
    ASSUME NEW a \in Seq(Segment), NEW z \in Segment
    PROVE  Ids(Append(a, z)) = Ids(a) \cup {z.id}
<1>1. PICK c : c = Append(a, z) OBVIOUS
<1>2. c \in Seq(Segment) /\ ToSet(c) = ToSet(a) \cup {z} BY <1>1, AppendIs, ToSetAppend
<1>3. Ids(c) = {x.id : x \in ToSet(c)} /\ Ids(a) = {x.id : x \in ToSet(a)}
  BY <1>2, IdsIs
<1>4. Ids(c) = Ids(a) \cup {z.id} BY <1>2, <1>3
<1> QED BY <1>1, <1>4

\* Fewer segments, fewer ids.
LEMMA IdsSubset ==
    ASSUME NEW a \in Seq(Segment), NEW b \in Seq(Segment), ToSet(a) \subseteq ToSet(b)
    PROVE  Ids(a) \subseteq Ids(b)
BY IdsIs

\* Segments of different parts of an increasing sequence have different ids.
LEMMA IdsApart ==
    ASSUME NEW a \in Seq(Segment), NEW b \in Seq(Segment), Increasing(a \o b)
    PROVE  Ids(a) \cap Ids(b) = {}
<1>1. \A x \in ToSet(a), y \in ToSet(b) : x.id < y.id BY IncreasingConcat
<1>2. \A x \in ToSet(a) \cup ToSet(b) : x.id \in Nat
  <2>1. ToSet(a) \subseteq Segment /\ ToSet(b) \subseteq Segment BY ToSetIs
  <2> QED BY <2>1 DEF Segment
<1>3. Ids(a) = {x.id : x \in ToSet(a)} /\ Ids(b) = {x.id : x \in ToSet(b)} BY IdsIs
<1> QED BY <1>1, <1>2, <1>3

\* What a push makes of a queue, as a sequence behind another.
IsPushed(b, q, z, f, k, l) ==
    /\ f \in Seq(Segment) /\ k \in Seq(Segment) /\ l \in Seq(Segment)
    /\ ToSet(f) = {x \in ToSet(q) : ~Supersedes(z, x)}
    /\ ToSet(k) \subseteq ToSet(f)
    /\ ToSet(b \o q) = ToSet(b) \cup ToSet(q)
    /\ ToSet(l) = (ToSet(b) \cup ToSet(k)) \cup {z}
    /\ Increasing(l)
    /\ Ids(f) \ Ids(k) = {} => k = f

\* A push erases some segments, drops some and adds one at the end, above all
\* others.
LEMMA PushedLine ==
    ASSUME NEW b \in Seq(Segment), NEW q \in Seq(Segment), NEW z \in Segment,
           Increasing(b \o q), \A e \in ToSet(b \o q) : e.id < z.id
    PROVE  IsPushed(b, q, z, Fresh(q, z), Kept(Fresh(q, z), z),
                    b \o Append(Kept(Fresh(q, z), z), z))
<1> PICK f, k, l : f = Fresh(q, z) /\ k = Kept(f, z) /\ l = b \o Append(k, z)
  OBVIOUS
<1>1. f \in Seq(Segment) /\ ToSet(f) = {x \in ToSet(q) : ~Supersedes(z, x)}
  BY FreshType, FreshElements
<1>2. Increasing(b) /\ Increasing(q) /\ \A x \in ToSet(b), y \in ToSet(q) : x.id < y.id
  BY IncreasingConcat
<1>3. Increasing(f) BY <1>2, FreshIncreasing
<1>4. k \in Seq(Segment) /\ ToSet(k) \subseteq ToSet(f) BY <1>1, KeptIs
<1>5. Increasing(k) /\ (Ids(f) \ Ids(k) = {} => k = f) BY <1>1, <1>3, KeptIncreasing
<1>6. ToSet(b \o q) = ToSet(b) \cup ToSet(q) BY ToSetConcat
<1>7. PICK t : t = Append(k, z) OBVIOUS
<1>8. t \in Seq(Segment) /\ ToSet(t) = ToSet(k) \cup {z} BY <1>4, <1>7, AppendIs, ToSetAppend
<1>9. Increasing(t) 
  <2>1. \A x \in ToSet(k) : x.id < z.id BY <1>1, <1>4, <1>6
  <2> QED BY <2>1, <1>4, <1>5, <1>7, IncreasingAppend
<1>10. l \in Seq(Segment) /\ ToSet(l) = ToSet(b) \cup ToSet(t)
  <2>1. b \o t \in Seq(Segment) /\ ToSet(b \o t) = ToSet(b) \cup ToSet(t)
    BY <1>8, ConcatIs, ToSetConcat
  <2>2. l = b \o t BY <1>7
  <2> QED BY <2>1, <2>2, Zenon
<1>11. Increasing(l)
  <2>1. \A x \in ToSet(b), y \in ToSet(t) : x.id < y.id BY <1>1, <1>2, <1>4, <1>6, <1>8
  <2> QED BY <2>1, <1>2, <1>7, <1>8, <1>9, IncreasingConcat
<1>12. ToSet(l) = (ToSet(b) \cup ToSet(k)) \cup {z} BY <1>8, <1>10
<1>13. IsPushed(b, q, z, f, k, l)
  BY <1>1, <1>4, <1>5, <1>6, <1>10, <1>11, <1>12 DEF IsPushed
<1> QED BY <1>13, Zenon

\* A segment that the main thread pushes: a final, which closes the open segment,
\* or a partial of it.
Pushed(z) ==
    /\ z.id = total_queued + 1
    /\ z.index = current_seg_idx /\ current_seg_idx # 0
    /\ z.start = Rewound(speech_start)
    /\ z.start <= z.end /\ z.end - z.start <= MaxSegment + Pad
    /\ z.is_partial => z.start < z.end /\ UNCHANGED <<speech_start, current_seg_idx>>
    /\ ~z.is_partial => current_seg_idx' = 0

\* A push keeps what is true of the line: nothing is lost uncounted, and the
\* new segment is in order, by its id and by its index.
LEMMA PushLine ==
    ASSUME Control, LineInv, Alive, NEW z \in Segment, PushEffect(z), Pushed(z),
           UNCHANGED <<transcripts, seg, next, seg_counter>>
    PROVE  LineInv'
<1>1. /\ Before \in Seq(Segment) /\ Line = Before \o segments /\ Line \in Seq(Segment)
      /\ segments \in Seq(Segment)
  BY LineTyped DEF Control, Types
<1>2. total_queued \in Nat /\ total_queued' = total_queued + 1 /\ z.id = total_queued + 1
      /\ seg_counter \in Nat /\ current_seg_idx \in Nat
  BY DEF Control, Types, PushEffect, Pushed
<1>3. PICK b, q, f, k, l : /\ b = Before /\ q = segments /\ f = Fresh(q, z) /\ k = Kept(f, z)
                           /\ l = b \o Append(k, z)
  OBVIOUS
<1>4. Line' = l
  <2>1. Line' = (HeardIn(transcripts) \o seg.parts \o next) \o segments'
    BY DEF Line
  <2>2. Line' = Before \o segments' BY <2>1 DEF Before
  <2>3. segments' = Append(k, z) BY <1>3, Zenon DEF PushEffect
  <2> QED BY <2>2, <2>3, <1>3, Zenon
<1>5. ASSUME NEW e \in ToSet(b \o q)
      PROVE  Proper(e) /\ e \in Segment /\ e.id <= total_queued /\ e.id < z.id
  <2>1. Proper(e) BY <1>1, <1>3, Zenon DEF LineInv
  <2>2. e \in Segment BY <1>1, <1>3, ToSetIs
  <2>3. e.id \in Nat BY <2>2 DEF Segment
  <2>4. e.id <= total_queued BY <2>1 DEF Proper
  <2> QED BY <2>1, <2>2, <2>3, <2>4, <1>2
<1>6. Increasing(b \o q) BY <1>1, <1>3, Zenon DEF LineInv
<1>7. /\ f \in Seq(Segment) /\ k \in Seq(Segment) /\ l \in Seq(Segment)
      /\ ToSet(f) = {x \in ToSet(q) : ~Supersedes(z, x)}
      /\ ToSet(k) \subseteq ToSet(f)
      /\ ToSet(b \o q) = ToSet(b) \cup ToSet(q)
      /\ ToSet(l) = (ToSet(b) \cup ToSet(k)) \cup {z}
      /\ Increasing(l)
      /\ Ids(f) \ Ids(k) = {} => k = f
  <2>1. b \in Seq(Segment) /\ q \in Seq(Segment) BY <1>1, <1>3
  <2>2. \A e \in ToSet(b \o q) : e.id < z.id BY <1>5
  <2>3. f = Fresh(q, z) /\ k = Kept(f, z) /\ l = b \o Append(k, z) BY <1>3
  <2>4. IsPushed(b, q, z, Fresh(q, z), Kept(Fresh(q, z), z),
                 b \o Append(Kept(Fresh(q, z), z), z))
    BY <2>1, <2>2, <1>6, PushedLine
  <2>5. IsPushed(b, q, z, f, k, l) BY <2>3, <2>4, Zenon
  <2> QED BY <2>5 DEF IsPushed
<1>8. \A e \in ToSet(l) : e \in ToSet(b \o q) \/ e = z BY <1>7
<1>9. Increasing(Line') BY <1>4, <1>7
<1>10. Conserved'
  <2>1. /\ Ids(Line) = Ids(b) \cup Ids(q)
        /\ Ids(l) = (Ids(b) \cup Ids(k)) \cup {total_queued + 1}
    <3>1. Ids(b \o q) = Ids(b) \cup Ids(q) BY <1>1, <1>3, IdsConcat
    <3>2. PICK t : t = Append(k, z) OBVIOUS
    <3>3. t \in Seq(Segment) /\ Ids(t) = Ids(k) \cup {z.id} BY <3>2, <1>7, AppendIs, IdsAppend
    <3>4. Ids(b \o t) = Ids(b) \cup Ids(t) BY <3>3, <1>1, <1>3, IdsConcat
    <3>5. l = b \o t BY <3>2, <1>3
    <3>6. Ids(l) = Ids(b) \cup Ids(t) BY <3>4, <3>5, Zenon
    <3>7. Ids(Line) = Ids(b) \cup Ids(q) BY <3>1, <1>1, <1>3, Zenon
    <3> QED BY <3>3, <3>6, <3>7, <1>2
  <2>2. Ids(k) \subseteq Ids(f) BY <1>7, IdsSubset
  <2>3. Ids(f) \subseteq Ids(q)
    <3>1. ToSet(f) \subseteq ToSet(q) BY <1>7
    <3> QED BY <3>1, <1>1, <1>3, <1>7, IdsSubset
  <2>4. Ids(b) \cap Ids(q) = {} BY <1>1, <1>3, <1>6, IdsApart
  <2>5. /\ (Ids(b) \cup Ids(q)) \cup dropped \cup stale = 1 .. total_queued
        /\ (Ids(b) \cup Ids(q)) \cap (dropped \cup stale) = {}
        /\ dropped \cap stale = {}
    BY <2>1, Zenon DEF LineInv, Conserved
  <2>6. /\ dropped' = dropped \cup (Ids(f) \ Ids(k))
        /\ stale' = stale \cup (Ids(q) \ Ids(f))
    BY <1>3, Zenon DEF PushEffect
  <2>7. PICK n, B, Q, F, K : /\ n = total_queued /\ B = Ids(b) /\ Q = Ids(q)
                             /\ F = Ids(f) /\ K = Ids(k)
    OBVIOUS
  <2>8. n \in Nat /\ K \subseteq F /\ F \subseteq Q /\ B \cap Q = {}
    BY <1>2, <2>2, <2>3, <2>4, <2>7, Zenon
  <2>9. /\ (B \cup Q) \cup dropped \cup stale = 1 .. n
        /\ (B \cup Q) \cap (dropped \cup stale) = {} /\ dropped \cap stale = {}
    BY <2>5, <2>7, Zenon
  <2>10. /\ total_queued' = n + 1 /\ Ids(Line') = (B \cup K) \cup {total_queued'}
         /\ dropped' = dropped \cup (F \ K) /\ stale' = stale \cup (Q \ F)
    BY <1>2, <1>4, <2>1, <2>6, <2>7, Zenon
  <2>11. PICK d, t, m, i : d = dropped' /\ t = stale' /\ m = total_queued' /\ i = Ids(Line')
    OBVIOUS
  <2>12. /\ m = n + 1 /\ i = (B \cup K) \cup {m}
         /\ d = dropped \cup (F \ K) /\ t = stale \cup (Q \ F)
    BY <2>10, <2>11, Zenon
  <2>13. i \cup d \cup t = 1 .. m /\ i \cap (d \cup t) = {} /\ d \cap t = {}
    BY <2>8, <2>9, <2>12, PushAccounts
  <2> QED BY <2>11, <2>13, Zenon DEF Conserved
<1>11. /\ \A e \in ToSet(l) : Proper(e)'
       /\ \A x, y \in ToSet(l) : Pair(x, y)
  <2>1. ASSUME NEW e \in ToSet(b \o q)
        PROVE  /\ e.id \in Nat /\ e.id <= total_queued /\ e.index \in 1 .. seg_counter
               /\ e.start <= e.end /\ e.end - e.start <= MaxSegment + Pad
               /\ e.is_partial => e.start < e.end
               /\ e.index = current_seg_idx => e.is_partial /\ e.start = Rewound(speech_start)
    BY <1>5 DEF Proper, Segment
  <2>2. ASSUME NEW e \in ToSet(b \o q) PROVE Proper(e)'
    <3>1. CASE z.is_partial BY <3>1, <2>1, <1>2 DEF Proper, Pushed, Rewound
    <3>2. CASE ~z.is_partial BY <3>2, <2>1, <1>2 DEF Proper, Pushed, Rewound
    <3> QED BY <3>1, <3>2
  <2>3. current_seg_idx = seg_counter /\ z.index \in 1 .. seg_counter
    BY <1>2 DEF Control, MainInv, Pushed
  <2>4. Proper(z)' BY <2>3, <1>2 DEF Proper, Pushed, Rewound
  <2>5. ASSUME NEW x \in ToSet(b \o q) PROVE Pair(x, z) /\ Pair(z, x)
    <3>1. x.index <= z.index /\ (~x.is_partial => x.index < z.index)
      BY <2>1, <2>3, <1>2 DEF Pushed
    <3>2. x.index = z.index => x.start = z.start BY <2>1 DEF Pushed
    <3>3. ~(z.id < x.id) BY <2>1, <1>2
    <3> QED BY <3>1, <3>2, <3>3 DEF Pair
  <2>6. Pair(z, z) BY <1>2 DEF Pair
  <2>7. \A x, y \in ToSet(b \o q) : Pair(x, y) BY <1>1, <1>3, Zenon DEF LineInv
  <2> QED BY <2>2, <2>4, <2>5, <2>6, <2>7, <1>8
<1>12. \A x, y : Pair(x, y)' <=> Pair(x, y) BY DEF Pair
<1>13. ASSUME dropped' = {} PROVE Settled(ToSet(l))'
  <2>1. dropped = {} /\ k = f BY <1>3, <1>7, <1>13, Zenon DEF PushEffect
  <2>2. Settled(ToSet(b \o q)) BY <1>1, <1>3, <2>1, Zenon DEF LineInv
  <2>3. ASSUME NEW x \in ToSet(l), x.is_partial, x.index # current_seg_idx'
        PROVE  \E y \in ToSet(l) : ~y.is_partial /\ y.index = x.index
    <3>1. CASE x = z
      <4>1. current_seg_idx' = current_seg_idx BY <2>3, <3>1 DEF Pushed
      <4> QED BY <4>1, <2>3, <3>1 DEF Pushed
    <3>2. CASE x # z /\ x.index = current_seg_idx
      <4>1. ~z.is_partial /\ z.index = x.index BY <2>3, <3>2 DEF Pushed
      <4> QED BY <4>1, <1>7
    <3>3. CASE x # z /\ x.index # current_seg_idx
      <4>1. PICK y \in ToSet(b \o q) : ~y.is_partial /\ y.index = x.index
        BY <3>3, <2>2, <2>3, <1>8, Zenon DEF Settled
      <4>2. y.index # z.index BY <3>3, <4>1 DEF Pushed
      <4>3. ~Supersedes(z, y) BY <4>2 DEF Supersedes
      <4>4. y \in ToSet(l) BY <4>3, <2>1, <1>7
      <4> QED BY <4>1, <4>4
    <3> QED BY <3>1, <3>2, <3>3
  <2> QED BY <2>3 DEF Settled
<1> QED
  <2>1. \A e \in ToSet(Line') : Proper(e)' BY <1>4, <1>11
  <2>2. \A x, y \in ToSet(Line') : Pair(x, y)' BY <1>4, <1>11, <1>12
  <2>3. dropped' = {} => Settled(ToSet(Line))' BY <1>4, <1>13
  <2> QED BY <1>9, <1>10, <2>1, <2>2, <2>3 DEF LineInv

\* Speech starts: a new index, which no segment has yet.
LEMMA StartLine ==
    ASSUME Control, LineInv, NEW s \in Nat, SpeechStarts(s)
    PROVE  LineInv'
<1>1. /\ UNCHANGED <<segments, total_queued, dropped, stale, transcripts, seg, next, wpc>>
      /\ current_seg_idx = 0 /\ seg_counter \in Nat
      /\ seg_counter' = seg_counter + 1 /\ current_seg_idx' = seg_counter'
  BY DEF SpeechStarts, Control, Types, MainInv, queueVars, workerVars
<1>2. Line' = Line BY <1>1 DEF Line
<1>3. Increasing(Line') BY <1>2 DEF LineInv
<1>4. Conserved' BY <1>1, <1>2 DEF LineInv, Conserved, Alive
<1>5. \A e : Proper(e) => Proper(e)' /\ e.index # current_seg_idx
  BY <1>1 DEF Proper
<1>6. \A x, y : Pair(x, y)' <=> Pair(x, y) BY DEF Pair
<1>7. \A e \in ToSet(Line') : Proper(e)' BY <1>2, <1>5 DEF LineInv
<1>8. \A x, y \in ToSet(Line') : Pair(x, y)' BY <1>2, <1>6 DEF LineInv
<1>9. ASSUME Alive', dropped' = {} PROVE Settled(ToSet(Line))'
  <2>1. Settled(ToSet(Line)) BY <1>1, <1>9 DEF LineInv, Alive
  <2>2. \A x \in ToSet(Line) : x.index # current_seg_idx BY <1>5 DEF LineInv
  <2> QED BY <2>1, <2>2, <1>2 DEF Settled
<1> QED BY <1>3, <1>4, <1>7, <1>8, <1>9 DEF LineInv

\* The worker moves segments along the line.
LEMMA PopLine ==
    ASSUME Control, Pop
    PROVE  Line' = Line
<1>1. PICK a, q, h : a = HeardIn(transcripts) /\ q = segments /\ h = Head(segments) OBVIOUS
<1>2. a \in Seq(Segment) /\ q \in Seq(Segment) /\ q # <<>>
  BY <1>1, LineTyped DEF Control, Types, Pop, TakeFront
<1>3. seg.parts = <<>> /\ next = <<>> BY DEF Control, WorkerInv, Grasped, Pop, NoSeg
<1>4. seg'.parts = <<h>> /\ next' = <<>> /\ segments' = Tail(q) /\ transcripts' = transcripts
  BY <1>1, <1>3 DEF Pop, TakeFront, Holding
<1>5. Line = ((a \o <<>>) \o <<>>) \o q BY <1>1, <1>3, Zenon DEF Line
<1>6. Line' = ((a \o <<h>>) \o <<>>) \o Tail(q) BY <1>1, <1>4, Zenon DEF Line
<1>7. (a \o <<h>>) \o Tail(q) = a \o q BY <1>1, <1>2, FrontMoves
<1>8. a \o <<h>> \in Seq(Segment) 
  <2>1. h \in Segment BY <1>1, <1>2, Split
  <2> QED BY <2>1, <1>2
<1>9. a \o <<>> = a /\ (a \o <<h>>) \o <<>> = a \o <<h>> BY <1>2, <1>8, ConcatNone
<1> QED BY <1>5, <1>6, <1>7, <1>9, Zenon

\* A segment merged goes behind what the worker holds.
LEMMA MergeLine ==
    ASSUME Control, Merge
    PROVE  Line' = Line
<1>1. PICK a, p, q, h : /\ a = HeardIn(transcripts) /\ p = seg.parts
                        /\ q = segments /\ h = Head(segments)
  OBVIOUS
<1>2. a \in Seq(Segment) /\ p \in Seq(Segment) /\ q \in Seq(Segment) /\ q # <<>>
  BY <1>1, LineTyped DEF Control, Types, Merge, TakeFront
<1>3. next = <<>> BY DEF Control, WorkerInv, Merge
<1>4. seg'.parts = Append(p, h) /\ next' = <<>> /\ segments' = Tail(q) /\ transcripts' = transcripts
  BY <1>1, <1>3 DEF Merge, TakeFront, Grown, Control, Types, Held
<1>5. Line = ((a \o p) \o <<>>) \o q BY <1>1, <1>3, Zenon DEF Line
<1>6. Line' = ((a \o Append(p, h)) \o <<>>) \o Tail(q) BY <1>1, <1>4, Zenon DEF Line
<1>7. h \in Segment /\ <<h>> \in Seq(Segment)
  <2>1. h \in Segment BY <1>1, <1>2, Split
  <2> QED BY <2>1
<1>8. Append(p, h) = p \o <<h>> BY <1>2, <1>7, AppendConcat
<1>9. a \o (p \o <<h>>) = (a \o p) \o <<h>> BY <1>2, <1>7, Concat3
<1>10. a \o p \in Seq(Segment) BY <1>2
<1>11. ((a \o p) \o <<h>>) \o Tail(q) = (a \o p) \o q BY <1>1, <1>2, <1>10, FrontMoves
<1>12. (a \o p) \o <<>> = a \o p /\ ((a \o p) \o <<h>>) \o <<>> = (a \o p) \o <<h>>
  <2>1. (a \o p) \o <<h>> \in Seq(Segment) BY <1>7, <1>10
  <2> QED BY <2>1, <1>10, ConcatNone
<1> QED BY <1>5, <1>6, <1>8, <1>9, <1>11, <1>12, Zenon

\* A segment taken to merge is next.
LEMMA TooFarLine ==
    ASSUME Control, TooFarToMerge
    PROVE  Line' = Line
<1>1. PICK a, p, q, h : /\ a = HeardIn(transcripts) /\ p = seg.parts
                        /\ q = segments /\ h = Head(segments)
  OBVIOUS
<1>2. a \in Seq(Segment) /\ p \in Seq(Segment) /\ q \in Seq(Segment) /\ q # <<>>
  BY <1>1, LineTyped DEF Control, Types, TooFarToMerge, TakeFront
<1>3. next = <<>> BY DEF Control, WorkerInv, TooFarToMerge
<1>4. next' = <<h>> /\ segments' = Tail(q) /\ transcripts' = transcripts /\ seg' = seg
  BY <1>1 DEF TooFarToMerge, TakeFront
<1>5. Line = ((a \o p) \o <<>>) \o q BY <1>1, <1>3, Zenon DEF Line
<1>6. Line' = ((a \o p) \o <<h>>) \o Tail(q) BY <1>1, <1>4, Zenon DEF Line
<1>7. a \o p \in Seq(Segment) BY <1>2
<1>8. ((a \o p) \o <<h>>) \o Tail(q) = (a \o p) \o q BY <1>1, <1>2, <1>7, FrontMoves
<1>9. (a \o p) \o <<>> = a \o p BY <1>7, ConcatNone
<1> QED BY <1>5, <1>6, <1>8, <1>9, Zenon

\* And goes back to where it was.
LEMMA PutBackLine ==
    ASSUME Control, PutBack
    PROVE  Line' = Line
<1>1. PICK a, p, q, n : /\ a = HeardIn(transcripts) /\ p = seg.parts
                        /\ q = segments /\ n = next[1]
  OBVIOUS
<1>2. n \in Segment /\ next = <<n>> BY <1>1, PutBackControl
<1>3. a \in Seq(Segment) /\ p \in Seq(Segment) /\ q \in Seq(Segment) /\ <<n>> \in Seq(Segment)
  BY <1>1, <1>2, LineTyped DEF Control, Types
<1>4. next' = <<>> /\ segments' = <<n>> \o q /\ transcripts' = transcripts /\ seg' = seg
  BY <1>1 DEF PutBack, PushFront, Nothing
<1>5. Line = ((a \o p) \o <<n>>) \o q BY <1>1, <1>2, Zenon DEF Line
<1>6. Line' = ((a \o p) \o <<>>) \o (<<n>> \o q) BY <1>1, <1>4, Zenon DEF Line
<1>7. a \o p \in Seq(Segment) BY <1>3
<1>8. ((a \o p) \o <<n>>) \o q = (a \o p) \o (<<n>> \o q) BY <1>3, <1>7, Concat3
<1>9. (a \o p) \o <<>> = a \o p BY <1>7, ConcatNone
<1> QED BY <1>5, <1>6, <1>8, <1>9, Zenon

\* What was held is heard.
LEMMA ProcessLine ==
    ASSUME Control, Process
    PROVE  Line' = Line
<1>1. PICK a, p, q, n : /\ a = HeardIn(transcripts) /\ p = seg.parts
                        /\ q = segments /\ n = next
  OBVIOUS
<1>2. a \in Seq(Segment) /\ p \in Seq(Segment)
  BY <1>1, LineTyped DEF Control, Types
<1>3. transcripts' = Append(transcripts, seg) /\ seg'.parts = <<>> /\ next' = n /\ segments' = q
  BY <1>1 DEF Process, queueVars, NoSeg
<1>4. HeardIn(Append(transcripts, seg)) = a \o p BY <1>1, HeardAppend DEF Control, Types
<1>5. Line = ((a \o p) \o n) \o q BY <1>1, Zenon DEF Line
<1>6. Line' = (((a \o p) \o <<>>) \o n) \o q BY <1>3, <1>4, Zenon DEF Line
<1>7. a \o p \in Seq(Segment) BY <1>2
<1>8. (a \o p) \o <<>> = a \o p BY <1>7, ConcatNone
<1> QED BY <1>5, <1>6, <1>8, Zenon

\* A worker that crashes loses a segment, and the program ends with it.
LEMMA CrashLine ==
    ASSUME Control, LineInv, MergeOverlapping
    PROVE  LineInv'
<1>1. PICK b, q, h, t : b = Before /\ q = segments /\ h = Head(segments) /\ t = Tail(segments)
  OBVIOUS
<1>2. b \in Seq(Segment) /\ q \in Seq(Segment) /\ q # <<>> /\ Line = b \o q
  BY <1>1, LineTyped DEF Control, Types, MergeOverlapping, TakeFront
<1>3. h \in Segment /\ t \in Seq(Segment) /\ <<h>> \o t = q BY <1>1, <1>2, Split, Zenon
<1>4. <<h>> \in Seq(Segment) BY <1>3
<1>5. /\ segments' = t /\ ~Alive'
      /\ UNCHANGED <<seg, next, transcripts, total_queued, dropped, stale, seg_counter,
                     current_seg_idx, speech_start>>
  BY <1>1 DEF MergeOverlapping, TakeFront, Alive, mainVars
<1>6. Line' = b \o t
  <2>1. Line' = (HeardIn(transcripts) \o seg.parts \o next) \o t BY <1>5 DEF Line
  <2> QED BY <2>1, <1>1, Zenon DEF Before
<1>7. Increasing(b \o q) BY <1>2 DEF LineInv
<1>8. Increasing(b) /\ Increasing(q) /\ \A x \in ToSet(b), y \in ToSet(q) : x.id < y.id
  BY <1>2, <1>7, IncreasingConcat
<1>9. Increasing(t)
  <2>1. Increasing(<<h>> \o t) BY <1>3, <1>8
  <2> QED BY <2>1, <1>3, <1>4, IncreasingConcat
<1>10. ToSet(t) \subseteq ToSet(q)
  <2>1. ToSet(<<h>> \o t) = ToSet(<<h>>) \cup ToSet(t) BY <1>3, <1>4, ToSetConcat
  <2> QED BY <2>1, <1>3
<1>11. Increasing(b \o t) BY <1>2, <1>3, <1>8, <1>9, <1>10, IncreasingConcat
<1>12. ToSet(b \o t) \subseteq ToSet(b \o q)
  <2>1. ToSet(b \o t) = ToSet(b) \cup ToSet(t) BY <1>2, <1>3, ToSetConcat
  <2>2. ToSet(b \o q) = ToSet(b) \cup ToSet(q) BY <1>2, ToSetConcat
  <2> QED BY <2>1, <2>2, <1>10
<1>13. ToSet(Line') \subseteq ToSet(Line) BY <1>2, <1>6, <1>12, Zenon
<1>14. Increasing(Line') BY <1>6, <1>11
<1>15. \A e \in ToSet(Line') : Proper(e)' BY <1>5, <1>13 DEF LineInv, Proper, Rewound
<1>16. \A x, y \in ToSet(Line') : Pair(x, y)' BY <1>13 DEF LineInv, Pair
<1> QED BY <1>5, <1>14, <1>15, <1>16 DEF LineInv, Conserved

-----------------------------------------------------------------------------
(* How much is in the queue, and what the worker has heard.                *)

\* The bounds of the queue: it may exceed its limit by the one segment that the
\* worker puts back, and when a partial is due there is little in it.
QueueInv ==
    /\ queue_dur = Total(segments)
    /\ Len(segments) > 2 => Total(Tail(segments)) <= MaxDur
    /\ wpc = "putback" /\ Len(segments) > 1 => Total(segments) <= MaxDur
    /\ mpc = "push" => Total(segments) + Total(next) < Backoff + MaxSegment + Pad

\* Unless segments were dropped, a partial is heard by itself.
TextInv == dropped = {} =>
    /\ seg.is_partial => Len(seg.parts) = 1
    /\ \A i \in DOMAIN transcripts : transcripts[i].is_partial =>
            \A j \in DOMAIN transcripts[i].parts : transcripts[i].parts[j].is_partial

\* The parts of the line.
LEMMA LineParts ==
    ASSUME Types
    PROVE  ToSet(Line) = (ToSet(Before) \cup ToSet(segments))
           /\ ToSet(seg.parts) \subseteq ToSet(Before) /\ ToSet(next) \subseteq ToSet(Before)
<1>1. PICK a, p, n, q : a = HeardIn(transcripts) /\ p = seg.parts /\ n = next /\ q = segments
  OBVIOUS
<1>2. /\ a \in Seq(Segment) /\ p \in Seq(Segment) /\ n \in Seq(Segment) /\ q \in Seq(Segment)
      /\ Before \in Seq(Segment) /\ Line = Before \o q
  BY <1>1, LineTyped DEF Types
<1>3. Before = (a \o p) \o n BY <1>1, Zenon DEF Before
<1>4. a \o p \in Seq(Segment) /\ ToSet(a \o p) = ToSet(a) \cup ToSet(p)
  BY <1>2, ConcatIs, ToSetConcat
<1>5. ToSet((a \o p) \o n) = ToSet(a \o p) \cup ToSet(n)
  <2>1. a \o p \in Seq(Segment) /\ n \in Seq(Segment) BY <1>2, <1>4
  <2> QED BY <2>1, ToSetConcat, Zenon
<1>6. ToSet(Before \o q) = ToSet(Before) \cup ToSet(q) BY <1>2, ToSetConcat
<1>7. ToSet(Before) = (ToSet(a) \cup ToSet(p)) \cup ToSet(n) BY <1>3, <1>4, <1>5, Zenon
<1>8. ToSet(Line) = ToSet(Before) \cup ToSet(segments) BY <1>1, <1>2, <1>6, Zenon
<1>9. ToSet(p) \subseteq ToSet(Before) /\ ToSet(n) \subseteq ToSet(Before) BY <1>7
<1> QED BY <1>1, <1>8, <1>9, Zenon

\* How long a segment on the line may be.
LEMMA DurOf ==
    ASSUME Types, LineInv, NEW e \in ToSet(Line)
    PROVE  e \in Segment /\ Dur(e) \in Nat /\ Dur(e) <= MaxSegment + Pad
<1>1. Line \in Seq(Segment) BY LineTyped
<1>2. e \in Segment BY <1>1, ToSetIs
<1>3. Proper(e) BY DEF LineInv
<1> QED BY <1>2, <1>3 DEF Proper, Dur, Segment

\* The front of a sequence and the rest are of it.
LEMMA HeadIn ==
    ASSUME NEW S, NEW q \in Seq(S), q # <<>>
    PROVE  Head(q) \in ToSet(q) /\ ToSet(Tail(q)) \subseteq ToSet(q)
<1>1. PICK h, t : h = Head(q) /\ t = Tail(q) OBVIOUS
<1>2. h \in S /\ t \in Seq(S) /\ <<h>> \o t = q BY <1>1, Split
<1>3. PICK o : o = <<h>> OBVIOUS
<1>4. o \in Seq(S) /\ ToSet(o) = {h}
  <2>1. o \in Seq(S) /\ Len(o) = 1 /\ o[1] = h BY <1>2, <1>3
  <2>2. ToSet(o) = {o[n] : n \in 1 .. Len(o)} BY <2>1, ToSetIs
  <2> QED BY <2>1, <2>2
<1>5. ToSet(q) = {h} \cup ToSet(t)
  <2>1. ToSet(o \o t) = ToSet(o) \cup ToSet(t) BY <1>2, <1>4, ToSetConcat
  <2> QED BY <2>1, <1>2, <1>3, <1>4
<1> QED BY <1>1, <1>5

\* Taking the front leaves no more audio than before.
LEMMA FrontShrinks ==
    ASSUME NEW q \in Seq(Segment), q # <<>>, \A e \in ToSet(q) : Dur(e) \in Nat
    PROVE  Total(Tail(q)) \in Int /\ Total(q) \in Int /\ Dur(Head(q)) \in Nat
           /\ Total(Tail(q)) = Total(q) - Dur(Head(q)) /\ Total(Tail(q)) <= Total(q)
<1>1. Dur(Head(q)) \in Nat BY HeadIn
<1>2. Tail(q) \in Seq(Segment) BY Split
<1>3. Total(Tail(q)) \in Int /\ Total(q) \in Int BY <1>2, TotalType
<1>4. Total(Tail(q)) = Total(q) - Dur(Head(q)) BY TotalTail
<1> QED BY <1>1, <1>3, <1>4

\* Steps that leave the queue alone.
LEMMA QueueKept ==
    ASSUME QueueInv, UNCHANGED <<segments, queue_dur, next>>,
           mpc' = "push" => mpc = "push", wpc' = "putback" => wpc = "putback"
    PROVE  QueueInv'
BY DEF QueueInv

\* The segment that the worker is to put back, if there is one.
LEMMA NextTotal ==
    ASSUME Control, LineInv
    PROVE  Total(next) \in Nat /\ Total(next) <= MaxSegment + Pad
<1>1. CASE next = <<>> BY <1>1, TotalEmpty, PipelineAssumption
<1>2. CASE next # <<>>
  <2>1. next \in Seq(Segment) /\ Len(next) = 1 BY <1>2 DEF Control, Types, WorkerInv
  <2>2. PICK n : n = next[1] OBVIOUS
  <2>3. next = <<n>> /\ n \in Segment BY <2>1, <2>2, Single
  <2>4. Append(<<>>, n) = <<n>> /\ <<>> \in Seq(Segment) OBVIOUS
  <2>5. Total(next) = 0 + Dur(n)
    <3>1. Total(Append(<<>>, n)) = Total(<<>>) + Dur(n) BY <2>3, <2>4, TotalAppend
    <3> QED BY <3>1, <2>3, <2>4, TotalEmpty, Zenon
  <2>6. n \in ToSet(next) BY <2>1, <2>2, ToSetIs
  <2>7. Dur(n) \in Nat /\ Dur(n) <= MaxSegment + Pad
    BY <2>6, LineParts, DurOf DEF Control
  <2> QED BY <2>5, <2>7
<1> QED BY <1>1, <1>2

\* A partial is decided on while the backlog is short.
LEMMA BackoffQueue ==
    ASSUME Control, LineInv, QueueInv, CheckBackoff
    PROVE  QueueInv'
<1>1. UNCHANGED <<segments, queue_dur, next, wpc>> BY DEF CheckBackoff, queueVars, workerVars
<1>2. mpc' = "push" => queue_dur < Backoff BY DEF CheckBackoff
<1>3. Total(next) \in Nat /\ Total(next) <= MaxSegment + Pad BY NextTotal
<1>4. queue_dur \in Int BY DEF Control, Types
<1>5. ASSUME mpc' = "push" PROVE (Total(segments) + Total(next) < Backoff + MaxSegment + Pad)'
  <2>1. Total(segments) + Total(next) < Backoff + MaxSegment + Pad
    BY <1>2, <1>3, <1>4, <1>5, PipelineAssumption DEF QueueInv
  <2> QED BY <2>1, <1>1
<1> QED BY <1>1, <1>5 DEF QueueInv

\* A push drops until the new segment fits, or is alone.
LEMMA PushQueue ==
    ASSUME Control, LineInv, QueueInv, NEW z \in Segment, PushEffect(z), Pushed(z), mpc' # "push"
    PROVE  QueueInv'
<1>1. PICK f, k : f = Fresh(segments, z) /\ k = Kept(f, z) OBVIOUS
<1>2. f \in Seq(Segment) BY <1>1, FreshType DEF Control, Types
<1>3. /\ k \in Seq(Segment) /\ ToSet(k) \subseteq ToSet(f)
      /\ k # <<>> => Total(k) + Dur(z) <= MaxDur
  BY <1>1, <1>2, KeptIs
<1>4. Total(k) \in Int /\ Dur(z) \in Nat /\ Total(segments) \in Int
  <2>1. segments \in Seq(Segment) BY DEF Control, Types
  <2>2. Total(k) \in Int /\ Total(segments) \in Int BY <1>3, <2>1, TotalType
  <2>3. z.start <= z.end BY DEF Pushed
  <2>4. Dur(z) \in Nat BY <2>3 DEF Dur, Segment
  <2> QED BY <2>2, <2>4
<1>5. PICK a : a = Append(k, z) OBVIOUS
<1>6. segments' = a /\ queue_dur' = queue_dur - (Total(segments) - Total(k)) + Dur(z)
  BY <1>1, <1>5, Zenon DEF PushEffect
<1>7. a \in Seq(Segment) /\ Total(a) = Total(k) + Dur(z) /\ Len(a) = Len(k) + 1 /\ a # <<>>
  BY <1>3, <1>5, TotalAppend, AppendIs
<1>8. queue_dur' = Total(a) BY <1>4, <1>6, <1>7 DEF QueueInv
<1>9. Len(a) > 1 => k # <<>> BY <1>7
<1>10. Total(Tail(a)) <= Total(a)
  <2>1. \A e \in ToSet(f) : Dur(e) \in Nat
    <3>1. ToSet(f) \subseteq ToSet(segments) BY <1>1, FreshElements DEF Control, Types
    <3> QED BY <3>1, LineParts, DurOf DEF Control
  <2>2. ToSet(a) = ToSet(k) \cup {z} BY <1>3, <1>5, ToSetAppend
  <2>3. \A e \in ToSet(a) : Dur(e) \in Nat BY <2>1, <2>2, <1>3, <1>4
  <2> QED BY <2>3, <1>7, FrontShrinks
<1>11. Len(a) > 1 => Total(a) <= MaxDur BY <1>3, <1>7, <1>9
<1>12. Len(a) > 2 => Total(Tail(a)) <= MaxDur
  <2>1. Tail(a) \in Seq(Segment) BY <1>7, Split
  <2>2. Total(Tail(a)) \in Int /\ Total(a) \in Int BY <1>7, <2>1, TotalType
  <2> QED BY <2>2, <1>7, <1>10, <1>11, QueueAssumption
<1> QED BY <1>6, <1>8, <1>11, <1>12 DEF QueueInv

\* What the worker takes makes room, also for what it puts back.
LEMMA TakeQueue ==
    ASSUME Control, LineInv, QueueInv, Pop \/ Merge \/ MergeOverlapping \/ TooFarToMerge
    PROVE  QueueInv'
<1>1. PICK q, h, t : q = segments /\ h = Head(segments) /\ t = Tail(segments) OBVIOUS
<1>2. /\ q # <<>> /\ segments' = t /\ queue_dur' = queue_dur - Dur(h)
      /\ next = <<>> /\ mpc' = mpc
      /\ next' = <<h>> \/ (next' = <<>> /\ wpc' # "putback")
  BY <1>1 DEF Pop, Merge, MergeOverlapping, TooFarToMerge, TakeFront, mainVars, Control, WorkerInv
<1>3. q \in Seq(Segment) /\ h \in Segment /\ t \in Seq(Segment) /\ Len(t) = Len(q) - 1
      /\ ToSet(t) \subseteq ToSet(q) /\ Len(q) \in Nat
  BY <1>1, <1>2, Split, HeadIn DEF Control, Types
<1>4. \A e \in ToSet(q) : Dur(e) \in Nat BY <1>1, LineParts, DurOf DEF Control
<1>5. Total(t) \in Int /\ Total(q) \in Int /\ Dur(h) \in Nat /\ Total(t) = Total(q) - Dur(h)
  BY <1>1, <1>2, <1>3, <1>4, FrontShrinks
<1>6. queue_dur' = Total(segments') BY <1>1, <1>2, <1>5 DEF QueueInv
<1>7. Len(t) > 2 => Total(Tail(t)) <= MaxDur
  <2> SUFFICES ASSUME Len(t) > 2 PROVE Total(Tail(t)) <= MaxDur OBVIOUS
  <2>1. Total(t) <= MaxDur BY <1>1, <1>3 DEF QueueInv
  <2>2. t # <<>> /\ \A e \in ToSet(t) : Dur(e) \in Nat BY <1>3, <1>4
  <2>3. Total(Tail(t)) \in Int /\ Total(Tail(t)) <= Total(t) BY <2>2, <1>3, FrontShrinks
  <2> QED BY <2>1, <2>3, <1>5, QueueAssumption
<1>8. Len(t) > 1 => Total(t) <= MaxDur BY <1>1, <1>3 DEF QueueInv
<1>9. ASSUME mpc = "push" PROVE Total(t) + Total(next') < Backoff + MaxSegment + Pad
  <2>1. Total(q) < Backoff + MaxSegment + Pad
    BY <1>1, <1>2, <1>5, <1>9, TotalEmpty DEF QueueInv
  <2>2. Total(next') \in {0, Dur(h)}
    <3>1. Append(<<>>, h) = <<h>> /\ <<>> \in Seq(Segment) OBVIOUS
    <3>2. Total(Append(<<>>, h)) = Total(<<>>) + Dur(h) BY <3>1, <1>3, TotalAppend
    <3>3. Total(<<h>>) = Dur(h) BY <3>1, <3>2, <1>5, TotalEmpty
    <3> QED BY <3>3, <1>2, TotalEmpty
  <2> QED BY <2>1, <2>2, <1>5, PipelineAssumption
<1> QED BY <1>2, <1>6, <1>7, <1>8, <1>9 DEF QueueInv

\* What it puts back is the one segment above the limit.
LEMMA PutBackQueue ==
    ASSUME Control, LineInv, QueueInv, PutBack
    PROVE  QueueInv'
<1>1. PICK q, n, p : q = segments /\ n = next[1] /\ p = <<n>> \o q OBVIOUS
<1>2. n \in Segment /\ next = <<n>> /\ q \in Seq(Segment) /\ Len(q) \in Nat
  BY <1>1, PutBackControl DEF Control, Types
<1>3. p \in Seq(Segment) /\ Tail(p) = q /\ Len(p) = Len(q) + 1 BY <1>1, <1>2, PushFrontIs
<1>4. /\ segments' = p /\ queue_dur' = queue_dur + Dur(n) /\ next' = <<>>
      /\ mpc' = mpc /\ wpc' = "process" /\ wpc = "putback"
  BY <1>1 DEF PutBack, PushFront, Nothing, mainVars
<1>5. Total(p) = Dur(n) + Total(q) /\ Dur(n) \in Int /\ Total(q) \in Int
  BY <1>1, <1>2, TotalPushFront, DurType, TotalType
<1>6. queue_dur' = Total(p) BY <1>1, <1>4, <1>5 DEF QueueInv
<1>7. Len(p) > 2 => Total(Tail(p)) <= MaxDur
  <2>1. Len(p) > 2 => Len(q) > 1 BY <1>2, <1>3
  <2>2. Len(q) > 1 => Total(q) <= MaxDur BY <1>1, <1>4 DEF QueueInv
  <2> QED BY <2>1, <2>2, <1>3, Zenon
<1>8. ASSUME mpc = "push" PROVE Total(p) + Total(next') < Backoff + MaxSegment + Pad
  <2>1. Total(next) = Dur(n)
    <3>1. Append(<<>>, n) = <<n>> /\ <<>> \in Seq(Segment) OBVIOUS
    <3>2. Total(Append(<<>>, n)) = Total(<<>>) + Dur(n) BY <3>1, <1>2, TotalAppend
    <3> QED BY <3>1, <3>2, <1>2, <1>5, TotalEmpty
  <2>2. Total(q) + Dur(n) < Backoff + MaxSegment + Pad BY <2>1, <1>1, <1>8 DEF QueueInv
  <2>3. Total(next') = 0 BY <1>4, TotalEmpty
  <2> QED BY <2>2, <2>3, <1>5
<1> QED BY <1>4, <1>6, <1>7, <1>8 DEF QueueInv

\* The front of an increasing queue comes first.
LEMMA FrontFirst ==
    ASSUME NEW q \in Seq(Segment), q # <<>>, Increasing(q)
    PROVE  \A e \in ToSet(q) : e = Head(q) \/ Head(q).id < e.id
<1>1. PICK h : h = Head(q) OBVIOUS
<1>2. h = q[1] /\ Len(q) \in Nat /\ Len(q) # 0 BY <1>1
<1>3. ToSet(q) = {q[n] : n \in 1 .. Len(q)} BY ToSetIs
<1>4. ASSUME NEW n \in 1 .. Len(q) PROVE q[n] = h \/ h.id < q[n].id
  <2>1. CASE n = 1 BY <2>1, <1>2
  <2>2. CASE n # 1
    <3>1. 1 \in 1 .. Len(q) /\ 1 < n BY <2>2, <1>2
    <3>2. q[1].id < q[n].id BY <3>1, Zenon DEF Increasing
    <3> QED BY <3>2, <1>2
  <2> QED BY <2>1, <2>2
<1> QED BY <1>1, <1>3, <1>4

\* Where the worker holds a partial alone, what comes next overlaps it: it is of
\* the same speech and so starts where the partial does.
LEMMA PartialOverlaps ==
    ASSUME Control, LineInv, wpc = "merge", segments # <<>>, dropped = {},
           seg.is_partial, Len(seg.parts) = 1
    PROVE  Gap(Head(segments)) < 0
<1>1. PICK a, p, q, h : /\ a = HeardIn(transcripts) /\ p = seg.parts[1]
                        /\ q = segments /\ h = Head(segments)
  OBVIOUS
<1>2. a \in Seq(Segment) /\ q \in Seq(Segment) /\ seg.parts = <<p>> /\ p \in Segment
  BY <1>1, LineTyped, Single DEF Control, Types
<1>3. next = <<>> /\ p.is_partial /\ seg.start = p.start /\ seg.end = p.end
  BY <1>1 DEF Control, WorkerInv, Grasped
<1>4. Line = ((a \o <<p>>) \o <<>>) \o q BY <1>1, <1>2, <1>3, Zenon DEF Line
<1>5. <<p>> \in Seq(Segment) /\ a \o <<p>> \in Seq(Segment) /\ Append(a, p) = a \o <<p>>
  BY <1>2
<1>6. (a \o <<p>>) \o <<>> = a \o <<p>> BY <1>5, ConcatNone
<1>7. PICK b : b = Append(a, p) OBVIOUS
<1>8. b \in Seq(Segment) /\ Line = b \o q BY <1>4, <1>5, <1>6, <1>7, Zenon
<1>9. ToSet(b) = ToSet(a) \cup {p} BY <1>2, <1>7, ToSetAppend
<1>10. Increasing(b) /\ Increasing(q) /\ \A x \in ToSet(b), y \in ToSet(q) : x.id < y.id
  BY <1>2, <1>8, IncreasingConcat DEF LineInv
<1>11. \A x \in ToSet(a) : x.id < p.id BY <1>2, <1>7, <1>10, IncreasingAppend
<1>12. ToSet(Line) = ToSet(b) \cup ToSet(q) BY <1>2, <1>8, ToSetConcat
<1>13. q # <<>> /\ h = Head(q) BY <1>1
<1>14. h \in ToSet(q) BY <1>2, <1>13, HeadIn
<1>15. \A e \in ToSet(q) : e = h \/ h.id < e.id BY <1>2, <1>10, <1>13, FrontFirst
<1>16. p \in ToSet(Line) /\ h \in ToSet(Line) /\ p.id < h.id BY <1>9, <1>10, <1>12, <1>14
<1>17. \A e \in ToSet(Line) : Proper(e) /\ e \in Segment BY DurOf DEF LineInv, Control
<1>18. \A x, y \in ToSet(Line) : Pair(x, y) BY Zenon DEF LineInv
<1>19. p.index <= h.index BY <1>16, <1>18 DEF Pair
<1>20. p.index \in Nat \ {0} /\ h.index \in Nat /\ h.index <= seg_counter
  BY <1>16, <1>17 DEF Proper, Control, Types
<1>21. h.index = p.index
  <2>1. CASE p.index = current_seg_idx
    <3>1. p.index = seg_counter BY <2>1, <1>20 DEF Control, MainInv
    <3> QED BY <3>1, <1>19, <1>20
  <2>2. CASE p.index # current_seg_idx
    <3>1. Settled(ToSet(Line)) BY DEF LineInv, Alive
    <3>2. PICK f \in ToSet(Line) : ~f.is_partial /\ f.index = p.index
      BY <2>2, <3>1, <1>3, <1>16, Zenon DEF Settled
    <3>3. f \in Segment /\ f.index \in Nat /\ f.id \in Nat BY <1>17 DEF Segment
    <3>4. ~(f.id < p.id) BY <3>2, <3>3, <1>16, <1>18 DEF Pair
    <3>5. f \notin ToSet(a) BY <3>4, <1>11
    <3>6. f # p BY <3>2, <1>3
    <3>7. f \in ToSet(q) BY <3>5, <3>6, <1>9, <1>12
    <3>8. CASE f = h BY <3>2, <3>8
    <3>9. CASE h.id < f.id
      <4>1. h.index <= f.index BY <3>9, <1>16, <1>18 DEF Pair
      <4> QED BY <4>1, <3>2, <1>19, <1>20
    <3> QED BY <3>7, <3>8, <3>9, <1>15
  <2> QED BY <2>1, <2>2
<1>22. h.start = p.start BY <1>16, <1>18, <1>21 DEF Pair
<1>23. p.start < p.end BY <1>3, <1>16, <1>17 DEF Proper
<1>24. p.start \in Nat /\ p.end \in Nat BY <1>2 DEF Segment
<1>25. h.start - seg.end < 0 BY <1>3, <1>22, <1>23, <1>24
<1> QED BY <1>1, <1>25, Zenon DEF Gap

\* Nothing is merged into a partial.
LEMMA TakeText ==
    ASSUME Control, LineInv, TextInv, Pop \/ Merge \/ MergeOverlapping \/ TooFarToMerge
    PROVE  TextInv'
<1>1. dropped' = dropped /\ transcripts' = transcripts
  BY DEF Pop, Merge, MergeOverlapping, TooFarToMerge, TakeFront
<1>2. CASE Pop
  <2>1. Len(seg'.parts) = 1 BY <1>2 DEF Pop, Holding
  <2> QED BY <2>1, <1>1 DEF TextInv
<1>3. CASE Merge
  <2>1. ASSUME dropped = {}, seg.is_partial PROVE FALSE
    <3>1. Len(seg.parts) = 1 BY <2>1 DEF TextInv
    <3>2. wpc = "merge" /\ segments # <<>> BY <1>3 DEF Merge, TakeFront
    <3>3. Gap(Head(segments)) < 0 BY <2>1, <3>1, <3>2, PartialOverlaps
    <3>4. Gap(Head(segments)) \in 0 .. MergeGap BY <1>3 DEF Merge
    <3> QED BY <3>3, <3>4
  <2>2. seg'.is_partial = seg.is_partial BY <1>3 DEF Merge, Grown, Control, Types, Held
  <2> QED BY <2>1, <2>2, <1>1 DEF TextInv
<1>4. CASE MergeOverlapping \/ TooFarToMerge
  <2>1. seg' = seg BY <1>4 DEF MergeOverlapping, TooFarToMerge
  <2> QED BY <2>1, <1>1 DEF TextInv
<1> QED BY <1>2, <1>3, <1>4

\* A partial is transcribed from itself alone.
LEMMA ProcessText ==
    ASSUME Control, TextInv, Process
    PROVE  TextInv'
<1>1. PICK a : a = Append(transcripts, seg) OBVIOUS
<1>2. transcripts' = a /\ seg'.is_partial = FALSE /\ dropped' = dropped
  BY <1>1 DEF Process, NoSeg, queueVars
<1>3. /\ transcripts \in Seq(Held) /\ a \in Seq(Held) /\ Len(transcripts) \in Nat
      /\ Len(a) = Len(transcripts) + 1 /\ a[Len(transcripts) + 1] = seg
      /\ \A n \in 1 .. Len(transcripts) : a[n] = transcripts[n]
  BY <1>1, AppendIs DEF Control, Types
<1>4. DOMAIN a = 1 .. Len(a) /\ DOMAIN transcripts = 1 .. Len(transcripts) BY <1>3
<1>5. ASSUME dropped = {}, NEW i \in DOMAIN a, a[i].is_partial, NEW j \in DOMAIN a[i].parts
      PROVE  a[i].parts[j].is_partial
  <2>1. CASE i = Len(a)
    <3>1. a[i] = seg BY <2>1, <1>3
    <3>2. Len(seg.parts) = 1 BY <3>1, <1>5 DEF TextInv
    <3>3. DOMAIN seg.parts = 1 .. 1 BY <3>2 DEF Control, Types, Held
    <3>4. j = 1 BY <3>1, <3>3, <1>5
    <3>5. seg.parts[1].is_partial BY <3>1, <1>5 DEF Control, WorkerInv, Grasped, Process
    <3> QED BY <3>1, <3>4, <3>5
  <2>2. CASE i # Len(a)
    <3>1. i \in DOMAIN transcripts /\ a[i] = transcripts[i] BY <2>2, <1>3, <1>4
    <3> QED BY <3>1, <1>5 DEF TextInv
  <2> QED BY <2>1, <2>2
<1> QED BY <1>2, <1>5 DEF TextInv

\* A push does not change what was heard.
LEMMA PushText ==
    ASSUME TextInv, NEW z, PushEffect(z), UNCHANGED <<seg, transcripts>>
    PROVE  TextInv'
<1>1. dropped \subseteq dropped' BY DEF PushEffect
<1> QED BY <1>1 DEF TextInv

\* Nor do the other steps.
LEMMA TextKept ==
    ASSUME TextInv, UNCHANGED <<seg, transcripts, dropped>>
    PROVE  TextInv'
BY DEF TextInv

-----------------------------------------------------------------------------
(* The invariant, and what follows from it.                                *)

\* The inductive invariant of the pipeline.
PipeInv == Control /\ LineInv /\ QueueInv /\ TextInv

\* Nothing is on the line at first.
LEMMA InitLine == PipeInit => LineInv /\ QueueInv /\ TextInv
<1> SUFFICES ASSUME PipeInit PROVE LineInv /\ QueueInv /\ TextInv OBVIOUS
<1>1. /\ segments = <<>> /\ next = <<>> /\ seg.parts = <<>> /\ transcripts = <<>>
      /\ total_queued = 0 /\ dropped = {} /\ stale = {} /\ queue_dur = 0
      /\ mpc = "wait" /\ wpc = "init" /\ seg.is_partial = FALSE
  BY DEF PipeInit, QueueInit, NoSeg, Nothing
<1>2. Line = <<>>
  <2>1. Line = ((HeardIn(<<>>) \o <<>>) \o <<>>) \o <<>> BY <1>1, Zenon DEF Line
  <2>2. <<>> \in Seq(Segment) OBVIOUS
  <2>3. <<>> \o <<>> = <<>> BY <2>2, ConcatNone
  <2> QED BY <2>1, <2>3, HeardEmpty, Zenon
<1>3. ToSet(<<>>) = {} /\ Ids(<<>>) = {} /\ Increasing(<<>>) BY DEF ToSet, Ids, Increasing
<1>4. Conserved
  <2>1. 1 .. 0 = {} OBVIOUS
  <2> QED BY <2>1, <1>1, <1>2, <1>3 DEF Conserved
<1>5. LineInv BY <1>2, <1>3, <1>4 DEF LineInv, Settled
<1>6. QueueInv BY <1>1, TotalEmpty DEF QueueInv
<1>7. TextInv BY <1>1 DEF TextInv
<1> QED BY <1>5, <1>6, <1>7

\* The program starts in the invariant.
LEMMA InitEstablishesPipeInv == PipeInit => PipeInv
BY InitTypes, InitLine DEF PipeInv, Control

\* What the main thread pushes.
LEMMA EndPushes ==
    ASSUME Control, SpeechEnds
    PROVE  Pushed(Final(clock + 1))
<1>1. speech_start \in Nat /\ clock \in Nat /\ speech_start <= clock
      /\ clock - speech_start < MaxSegment
      /\ current_seg_idx # 0 /\ current_seg_idx' = 0
  BY DEF Control, Types, MainInv, SpeechEnds
<1>2. PICK r \in Nat : r = Rewound(speech_start) /\ r <= speech_start /\ speech_start - r <= Pad
  BY <1>1, RewoundIs
<1>3. r <= clock + 1 /\ (clock + 1) - r <= MaxSegment + Pad BY <1>1, <1>2, PipelineAssumption
<1> QED BY <1>1, <1>2, <1>3 DEF Pushed, Final, NewSegment

\* So is the segment that is open when the audio ends.
LEMMA FlushPushes ==
    ASSUME Control, FlushTail, speech_start # -1
    PROVE  Pushed(Final(clock))
<1>1. speech_start \in Nat /\ clock \in Nat /\ speech_start <= clock
      /\ clock - speech_start < MaxSegment
      /\ current_seg_idx # 0 /\ current_seg_idx' = 0
  BY DEF Control, Types, MainInv, FlushTail
<1>2. PICK r \in Nat : r = Rewound(speech_start) /\ r <= speech_start /\ speech_start - r <= Pad
  BY <1>1, RewoundIs
<1>3. r <= clock /\ clock - r <= MaxSegment + Pad BY <1>1, <1>2, PipelineAssumption
<1> QED BY <1>1, <1>2, <1>3 DEF Pushed, Final, NewSegment

\* A partial is of the open segment, and shorter than a segment may be.
LEMMA PreviewPushes ==
    ASSUME Control, PushPartial
    PROVE  Pushed(Preview) /\ Dur(Preview) \in Nat /\ Dur(Preview) <= MaxSegment - 1 + Pad
<1>1. speech_start \in Nat /\ clock \in Nat /\ speech_start < clock
      /\ clock - speech_start < MaxSegment
      /\ current_seg_idx # 0 /\ UNCHANGED <<speech_start, current_seg_idx>>
  BY DEF Control, Types, MainInv, PushPartial
<1>2. PICK r \in Nat : r = Rewound(speech_start) /\ r <= speech_start /\ speech_start - r <= Pad
  BY <1>1, RewoundIs
<1>3. r < clock /\ r <= clock /\ clock - r <= MaxSegment - 1 + Pad /\ clock - r <= MaxSegment + Pad
      /\ clock - r \in Nat
  BY <1>1, <1>2, PipelineAssumption
<1> QED BY <1>1, <1>2, <1>3 DEF Pushed, Preview, NewSegment, Dur

\* Every step of the main thread keeps the invariant.
LEMMA MainStep ==
    ASSUME PipeInv, Main
    PROVE  PipeInv'
<1> USE DEF PipeInv
<1>1. Alive BY DEF Main
<1>2. ASSUME WorkerIsUp \/ WorkerFailed \/ InitTimesOut \/ Finish \/ Join PROVE PipeInv'
  <2>1. Control' BY <1>2, WaitControl
  <2>2. /\ UNCHANGED <<segments, queue_dur, next, seg, transcripts, total_queued, dropped, stale,
                       seg_counter, current_seg_idx, speech_start>>
        /\ mpc' # "push" /\ wpc' \in {wpc, "pop"}
    BY <1>2 DEF WorkerIsUp, WorkerFailed, InitTimesOut, Finish, Join, SetDone, Notify,
                queueVars, vadVars, workerVars
  <2>3. Line' = Line BY <2>2 DEF Line
  <2>4. LineInv' BY <1>1, <2>2, <2>3, LineKept
  <2>5. QueueInv' BY <2>2, QueueKept
  <2>6. TextInv' BY <2>2, TextKept
  <2> QED BY <2>1, <2>4, <2>5, <2>6
<1>3. ASSUME NEW s \in Nat, ChunkPasses \/ SpeechStarts(s) \/ CheckBackoff PROVE PipeInv'
  <2>1. Control' BY <1>3, VadControl
  <2>2. /\ UNCHANGED <<segments, queue_dur, next, seg, transcripts, total_queued,
                       dropped, stale, wpc>>
        /\ ~CheckBackoff => mpc' # "push"
        /\ ~SpeechStarts(s) => UNCHANGED <<seg_counter, current_seg_idx, speech_start>>
    BY <1>3 DEF ChunkPasses, SpeechStarts, CheckBackoff, queueVars, vadVars, workerVars
  <2>3. Line' = Line BY <2>2 DEF Line
  <2>4. LineInv'
    <3>1. CASE SpeechStarts(s) BY <3>1, StartLine
    <3>2. CASE ~SpeechStarts(s) BY <3>2, <1>1, <2>2, <2>3, LineKept
    <3> QED BY <3>1, <3>2
  <2>5. QueueInv'
    <3>1. CASE CheckBackoff BY <3>1, BackoffQueue
    <3>2. CASE ~CheckBackoff BY <3>2, <2>2, QueueKept
    <3> QED BY <3>1, <3>2
  <2>6. TextInv' BY <2>2, TextKept
  <2> QED BY <2>1, <2>4, <2>5, <2>6
<1>4. ASSUME NEW z \in Segment, PushEffect(z), Pushed(z), Control', mpc' # "push",
             UNCHANGED <<transcripts, seg, next, seg_counter>>
      PROVE  PipeInv'
  <2>1. LineInv' BY <1>1, <1>4, PushLine
  <2>2. QueueInv' BY <1>4, PushQueue
  <2>3. TextInv' BY <1>4, PushText
  <2> QED BY <2>1, <2>2, <2>3, <1>4
<1>5. ASSUME SpeechEnds PROVE PipeInv'
  <2>1. mpc' # "push" /\ UNCHANGED <<transcripts, seg, next, seg_counter>> BY <1>5 DEF SpeechEnds
  <2> QED BY <2>1, <1>4, <1>5, EndControl, EndPushes
<1>6. ASSUME PushPartial PROVE PipeInv'
  <2>1. mpc' # "push" /\ UNCHANGED <<transcripts, seg, next, seg_counter>> BY <1>6 DEF PushPartial
  <2> QED BY <2>1, <1>4, <1>6, PreviewControl, PreviewPushes
<1>7. ASSUME FlushTail PROVE PipeInv'
  <2>1. mpc' # "push" /\ UNCHANGED <<transcripts, seg, next, seg_counter>> BY <1>7 DEF FlushTail
  <2>2. CASE speech_start # -1 BY <2>1, <2>2, <1>4, <1>7, FlushControl, FlushPushes
  <2>3. CASE speech_start = -1
    <3>1. /\ UNCHANGED <<segments, queue_dur, next, seg, transcripts, total_queued, dropped, stale,
                         seg_counter, current_seg_idx, speech_start, wpc>>
      BY <1>7, <2>1, <2>3 DEF FlushTail, queueVars
    <3>2. Line' = Line BY <3>1 DEF Line
    <3>3. LineInv' BY <1>1, <3>1, <3>2, LineKept
    <3>4. QueueInv' BY <2>1, <3>1, QueueKept
    <3>5. TextInv' BY <3>1, TextKept
    <3> QED BY <3>3, <3>4, <3>5, <1>7, FlushControl
  <2> QED BY <2>2, <2>3
<1>8. 0 \in Nat /\ \A s \in 0 .. MaxClock : s \in Nat OBVIOUS
<1> QED BY <1>2, <1>3, <1>5, <1>6, <1>7, <1>8 DEF Main, Capture

\* So does every step of the worker.
LEMMA WorkerStep ==
    ASSUME PipeInv, Worker \/ WakeSpuriously \/ UNCHANGED pipeVars
    PROVE  PipeInv'
<1> USE DEF PipeInv
<1>1. CASE InitSucceeds \/ InitFails \/ Block \/ WakeSpuriously \/ Drained \/ NothingToMerge
           \/ WarnIfSlow \/ UNCHANGED pipeVars
  <2>1. Control' BY <1>1, IdleControl
  <2>2. /\ UNCHANGED <<segments, queue_dur, next, seg, transcripts, total_queued, dropped, stale,
                       seg_counter, current_seg_idx, speech_start, mpc>>
        /\ wpc' = "putback" => wpc = "putback"
        /\ Alive' => Alive
    BY <1>1 DEF InitSucceeds, InitFails, Block, WakeSpuriously, Drained, NothingToMerge, WarnIfSlow,
                CheckSlow, Alive, queueVars, mainVars, workerVars, pipeVars
  <2>3. Line' = Line BY <2>2 DEF Line
  <2>4. LineInv' BY <2>2, <2>3, LineKept
  <2>5. QueueInv' BY <2>2, QueueKept
  <2>6. TextInv' BY <2>2, TextKept
  <2> QED BY <2>1, <2>4, <2>5, <2>6
<1>2. CASE Pop \/ Merge \/ MergeOverlapping \/ TooFarToMerge
  <2>1. Control' BY <1>2, TakeControl
  <2>2. QueueInv' BY <1>2, TakeQueue
  <2>3. TextInv' BY <1>2, TakeText
  <2>4. LineInv'
    <3>1. CASE MergeOverlapping BY <3>1, CrashLine
    <3>2. CASE Pop \/ Merge \/ TooFarToMerge
      <4>1. Line' = Line BY <3>2, PopLine, MergeLine, TooFarLine
      <4>2. /\ UNCHANGED <<total_queued, dropped, stale, seg_counter, current_seg_idx,
                           speech_start>>
            /\ Alive
        BY <3>2 DEF Pop, Merge, TooFarToMerge, TakeFront, mainVars, Alive
      <4> QED BY <4>1, <4>2, LineKept
    <3> QED BY <3>1, <3>2, <1>2
  <2> QED BY <2>1, <2>2, <2>3, <2>4
<1>3. CASE PutBack
  <2>1. Control' /\ QueueInv' /\ Line' = Line BY <1>3, PutBackControl, PutBackQueue, PutBackLine
  <2>2. /\ UNCHANGED <<total_queued, dropped, stale, seg_counter, current_seg_idx, speech_start,
                       seg, transcripts>>
        /\ Alive
    BY <1>3 DEF PutBack, PushFront, mainVars, Alive
  <2> QED BY <2>1, <2>2, LineKept, TextKept
<1>4. CASE Process
  <2>1. Control' /\ TextInv' /\ Line' = Line BY <1>4, ProcessControl, ProcessText, ProcessLine
  <2>2. /\ UNCHANGED <<segments, queue_dur, next, total_queued, dropped, stale,
                       seg_counter, current_seg_idx, speech_start, mpc>>
        /\ Alive /\ wpc' # "putback"
    BY <1>4 DEF Process, queueVars, mainVars, Alive
  <2> QED BY <2>1, <2>2, LineKept, QueueKept
<1> QED BY <1>1, <1>2, <1>3, <1>4 DEF Worker

\* And so every step of the program.
LEMMA StepKeepsPipeInv == PipeInv /\ [PipeNext]_pipeVars => PipeInv'
BY MainStep, WorkerStep DEF PipeNext, Terminated

\* In every interleaving of the main thread and the worker the invariant holds.
THEOREM PipeInvariant == PipeSpec => []PipeInv
BY InitEstablishesPipeInv, StepKeepsPipeInv, PTL DEF PipeSpec

\* Segments are heard in the order they were pushed, though the worker takes
\* some out of the queue, puts some back and merges some: HeardInOrder.
THEOREM HeardInPushOrder == PipeSpec => []HeardInOrder
<1>1. PipeInv => HeardInOrder
  <2> SUFFICES ASSUME PipeInv, NEW i \in 1 .. Len(Line) - 1 PROVE Line[i].id < Line[i + 1].id
    BY DEF HeardInOrder
  <2>1. Len(Line) \in Nat BY LineTyped DEF PipeInv, Control
  <2>2. i \in 1 .. Len(Line) /\ i + 1 \in 1 .. Len(Line) /\ i < i + 1 BY <2>1
  <2> QED BY <2>2, Zenon DEF PipeInv, LineInv, Increasing
<1> QED BY <1>1, PipeInvariant, PTL

\* Every segment pushed is heard, on its way, counted as dropped or erased as
\* stale, and only one of these: Conserved.
THEOREM NoneLost == PipeSpec => []Conserved
<1>1. PipeInv => Conserved BY DEF PipeInv, LineInv
<1> QED BY <1>1, PipeInvariant, PTL

\* The queue holds no more audio than its limit, but for one segment at its
\* front: LimitUpToOne.
THEOREM LimitHolds == PipeSpec => []LimitUpToOne
<1>1. PipeInv => LimitUpToOne BY DEF PipeInv, QueueInv, LimitUpToOne
<1> QED BY <1>1, PipeInvariant, PTL

\* Unless segments were dropped, no final is merged into a partial:
\* FinalsHeardAsFinals.
THEOREM FinalsStayFinals == PipeSpec => []FinalsHeardAsFinals
<1>1. PipeInv => FinalsHeardAsFinals BY DEF PipeInv, TextInv, FinalsHeardAsFinals
<1> QED BY <1>1, PipeInvariant, PTL

\* Only a push erases or drops anything.
LEMMA OnlyPushes ==
    ASSUME [PipeNext]_pipeVars, stale' # stale \/ dropped' # dropped
    PROVE  SpeechEnds \/ PushPartial \/ (FlushTail /\ speech_start # -1)
BY DEF PipeNext, Main, Capture, Worker, Terminated, WorkerIsUp, WorkerFailed, InitTimesOut,
       ChunkPasses, SpeechStarts, CheckBackoff, FlushTail, Finish, Join, SetDone,
       InitSucceeds, InitFails, Block, WakeSpuriously, Drained, NothingToMerge, WarnIfSlow,
       CheckSlow, Pop, Merge, MergeOverlapping, TooFarToMerge, TakeFront, PutBack, PushFront,
       Process, queueVars, pipeVars

\* What a push erases as stale has the index of the open segment, of which only
\* partials are queued.
LEMMA PushStale ==
    ASSUME PipeInv, NEW z \in Segment, PushEffect(z), Pushed(z),
           NEW i \in DOMAIN segments, segments[i].id \in stale' \ stale
    PROVE  segments[i].is_partial
<1>1. segments \in Seq(Segment) BY DEF PipeInv, Control, Types
<1>2. PICK e, f : e = segments[i] /\ f = Fresh(segments, z) OBVIOUS
<1>3. e \in ToSet(segments) BY <1>1, <1>2, ToSetIs
<1>4. e.id \notin Ids(f) BY <1>2 DEF PushEffect
<1>5. f \in Seq(Segment) /\ ToSet(f) = {x \in ToSet(segments) : ~Supersedes(z, x)}
  BY <1>1, <1>2, FreshType, FreshElements
<1>6. Ids(f) = {x.id : x \in ToSet(f)} BY <1>5, IdsIs
<1>7. Supersedes(z, e) BY <1>3, <1>4, <1>5, <1>6
<1>8. e.index = current_seg_idx BY <1>7 DEF Supersedes, Pushed
<1>9. Proper(e) BY <1>3, LineParts DEF PipeInv, Control, LineInv
<1> QED BY <1>2, <1>8, <1>9 DEF Proper

\* A final, once queued, is not erased for another segment:
\* OnlyPartialsGoStale.
THEOREM FinalsNeverStale == PipeSpec => OnlyPartialsGoStale
<1>1. ASSUME PipeInv, [PipeNext]_pipeVars
      PROVE  [\A i \in DOMAIN segments :
                 segments[i].id \in stale' \ stale => segments[i].is_partial]_pipeVars
  <2> SUFFICES ASSUME NEW i \in DOMAIN segments, segments[i].id \in stale' \ stale
               PROVE  segments[i].is_partial
    OBVIOUS
  <2>1. SpeechEnds \/ PushPartial \/ (FlushTail /\ speech_start # -1) BY <1>1, OnlyPushes
  <2>2. PICK z \in Segment : PushEffect(z) /\ Pushed(z)
    <3>1. CASE SpeechEnds BY <3>1, <1>1, EndControl, EndPushes DEF PipeInv
    <3>2. CASE PushPartial BY <3>2, <1>1, PreviewControl, PreviewPushes DEF PipeInv
    <3>3. CASE FlushTail /\ speech_start # -1 BY <3>3, <1>1, FlushControl, FlushPushes DEF PipeInv
    <3> QED BY <2>1, <3>1, <3>2, <3>3
  <2> QED BY <2>2, <1>1, PushStale
<1> QED BY <1>1, PipeInvariant, PTL DEF PipeSpec, OnlyPartialsGoStale

\* A partial finds room.
LEMMA PreviewFits ==
    ASSUME PipeInv, RoomForPartial, PushPartial
    PROVE  dropped' = dropped
<1>1. PICK z, f, k : z = Preview /\ f = Fresh(segments, z) /\ k = Kept(f, z) OBVIOUS
<1>2. z \in Segment /\ PushEffect(z) /\ Dur(z) \in Nat /\ Dur(z) <= MaxSegment - 1 + Pad
  BY <1>1, PreviewControl, PreviewPushes DEF PipeInv
<1>3. segments \in Seq(Segment) BY DEF PipeInv, Control, Types
<1>4. f \in Seq(Segment) BY <1>1, <1>3, FreshType
<1>5. Total(f) \in Int /\ Total(segments) \in Int BY <1>3, <1>4, TotalType
<1>6. Total(f) <= Total(segments)
  <2>1. Forward(segments)
    <3>1. \A e \in ToSet(segments) : Proper(e) BY LineParts DEF PipeInv, Control, LineInv
    <3> QED BY <3>1 DEF Forward, Proper
  <2> QED BY <2>1, <1>1, <1>3, TotalFresh
<1>7. Total(segments) + Total(next) < Backoff + MaxSegment + Pad
  BY DEF PipeInv, QueueInv, PushPartial
<1>8. Total(next) \in Nat BY NextTotal DEF PipeInv
<1>9. Total(f) + Dur(z) <= MaxDur
  BY <1>2, <1>5, <1>6, <1>7, <1>8, PipelineAssumption, QueueAssumption DEF RoomForPartial
<1>10. k = f BY <1>1, <1>2, <1>4, <1>9, KeptIs
<1>11. dropped' = dropped \cup (Ids(f) \ Ids(k)) BY <1>1, <1>2, Zenon DEF PushEffect
<1> QED BY <1>10, <1>11

\* A partial pushes nothing out of a queue with room for it, though the backlog
\* is looked at under one lock and the partial pushed under another:
\* PartialDropsNothing.
THEOREM PartialsFit == PipeSpec => PartialDropsNothing
<1>1. ASSUME PipeInv, [PipeNext]_pipeVars
      PROVE  [RoomForPartial /\ mpc = "push" /\ mpc' = "run" => dropped' = dropped]_pipeVars
  <2> SUFFICES ASSUME RoomForPartial, mpc = "push", dropped' # dropped PROVE FALSE
    OBVIOUS
  <2>1. SpeechEnds \/ PushPartial \/ (FlushTail /\ speech_start # -1) BY <1>1, OnlyPushes
  <2>2. PushPartial BY <2>1 DEF SpeechEnds, FlushTail
  <2> QED BY <2>2, <1>1, PreviewFits
<1> QED BY <1>1, PipeInvariant, PTL DEF PipeSpec, PartialDropsNothing

-----------------------------------------------------------------------------
(* The ring between the capture thread and the main thread.                *)

(***************************************************************************)
(* What is in out and ring are numbers of samples, what the reader has is  *)
(* older than what is buffered, and the buffer holds the latest samples.   *)
(***************************************************************************)
RingTypes ==
    /\ ring \in Seq(Int) /\ out \in Seq(Int)
    /\ Len(ring) <= Capacity
    /\ Len(out) <= Window
    /\ {written, steps, overruns, stepped} \subseteq Nat
    /\ main \in {"loop", "reading", "waiting", "step", "ended"}

Latest == \A i \in 1 .. Len(ring) : ring[i] = written - Len(ring) + i

\* The reader's samples are in order, after those the detector was given, and
\* before those in the ring.
InOrder ==
    /\ \A i \in 1 .. Len(out) : stepped < out[i] /\ out[i] <= written - Len(ring)
    /\ \A i, j \in 1 .. Len(out) : i < j => out[i] < out[j]
    /\ stepped <= written - Len(ring)

Account == written = steps + Len(out) + Len(ring) + overruns

ReaderState ==
    /\ main = "step" => Len(out) = Window
    /\ main \in {"loop", "ended"} => out = <<>>

RingInv == RingTypes /\ Latest /\ InOrder /\ Account /\ ReaderState

-----------------------------------------------------------------------------
(* Sequences.                                                              *)

\* The end of a sequence.
LEMMA Ends ==
    ASSUME NEW s \in Seq(Int), NEW k \in 0 .. Len(s)
    PROVE  /\ SubSeq(s, k + 1, Len(s)) \in Seq(Int)
           /\ Len(SubSeq(s, k + 1, Len(s))) = Len(s) - k
           /\ \A i \in 1 .. Len(s) - k : SubSeq(s, k + 1, Len(s))[i] = s[k + i]
OBVIOUS

\* The beginning of a sequence.
LEMMA Begins ==
    ASSUME NEW s \in Seq(Int), NEW k \in 0 .. Len(s)
    PROVE  /\ SubSeq(s, 1, k) \in Seq(Int)
           /\ Len(SubSeq(s, 1, k)) = k
           /\ \A i \in 1 .. k : SubSeq(s, 1, k)[i] = s[i]
OBVIOUS

\* Two sequences in a row.
LEMMA Joined ==
    ASSUME NEW a \in Seq(Int), NEW b \in Seq(Int)
    PROVE  /\ a \o b \in Seq(Int)
           /\ Len(a \o b) = Len(a) + Len(b)
           /\ \A i \in 1 .. Len(a) : (a \o b)[i] = a[i]
           /\ \A i \in Len(a) + 1 .. Len(a) + Len(b) : (a \o b)[i] = b[i - Len(a)]
OBVIOUS

-----------------------------------------------------------------------------

\* An empty ring and a reader that has nothing.
LEMMA InitEstablishesRing == Init => RingInv
BY RingAssumption DEF Init, RingInv, RingTypes, Latest, InOrder, Account, ReaderState

\* A block goes behind what is buffered, and what does not fit is taken from the
\* front and counted.
LEMMA WriteKeeps ==
    ASSUME RingInv, NEW n \in Blocks, Write(n)
    PROVE  RingInv'
<1> DEFINE more == [i \in 1 .. n |-> written + i]
           all == ring \o more
           keep == Smaller(Len(all), Capacity)
<1>1. /\ written \in Nat /\ steps \in Nat /\ overruns \in Nat /\ stepped \in Nat
      /\ ring \in Seq(Int) /\ out \in Seq(Int) /\ Len(ring) <= Capacity /\ Len(out) <= Window
      /\ main \in {"loop", "reading", "waiting", "step", "ended"}
  BY DEF RingInv, RingTypes
<1>2. n \in Nat /\ n > 0 /\ Capacity \in Nat
  BY RingAssumption
<1>3. more \in Seq(Int) /\ Len(more) = n /\ \A i \in 1 .. n : more[i] = written + i
  BY <1>1, <1>2
<1>4. /\ written' = written + n
      /\ ring' = OldestDropped(all)
      /\ overruns' = overruns + Len(all) - Len(ring')
      /\ main' = IF main = "waiting" THEN "reading" ELSE main
      /\ UNCHANGED <<steps, stepped, out>>
  BY DEF Write
<1> HIDE DEF more
<1>5. /\ all \in Seq(Int) /\ Len(all) = Len(ring) + n
      /\ \A i \in 1 .. Len(ring) : all[i] = ring[i]
      /\ \A i \in Len(ring) + 1 .. Len(ring) + n : all[i] = more[i - Len(ring)]
  BY <1>1, <1>3, Joined
<1>6. \A i \in 1 .. Len(all) : all[i] = written - Len(ring) + i
  <2> SUFFICES ASSUME NEW i \in 1 .. Len(ring) + n
               PROVE  all[i] = written - Len(ring) + i
    BY <1>5
  <2>1. Len(ring) \in Nat
    BY <1>1
  <2>2. CASE i <= Len(ring)
    BY <1>5, <2>1, <2>2 DEF RingInv, Latest
  <2>3. CASE i > Len(ring)
    <3>1. i - Len(ring) \in 1 .. n /\ i \in Len(ring) + 1 .. Len(ring) + n
      BY <1>2, <2>1, <2>3
    <3>2. all[i] = written + (i - Len(ring))
      BY <1>3, <1>5, <3>1
    <3> QED
      BY <1>1, <2>1, <3>2
  <2>4. i <= Len(ring) \/ i > Len(ring)
    BY <1>2, <2>1
  <2> QED
    BY <2>2, <2>3, <2>4
<1> HIDE DEF all
<1>7. /\ Len(all) \in Nat /\ keep \in 0 .. Len(all) /\ keep <= Capacity
      /\ Len(ring) <= keep
  BY <1>1, <1>2, <1>5 DEF Smaller
<1>8. Len(all) - keep \in 0 .. Len(all) /\ Len(all) - (Len(all) - keep) = keep
  BY <1>7
<1>9. ring' = SubSeq(all, (Len(all) - keep) + 1, Len(all))
  BY <1>4 DEF OldestDropped
<1> HIDE DEF keep
<1>10. /\ ring' \in Seq(Int) /\ Len(ring') = keep
       /\ \A i \in 1 .. keep : ring'[i] = all[Len(all) - keep + i]
  BY <1>5, <1>8, <1>9, Ends
<1>11. Latest'
  <2> SUFFICES ASSUME NEW i \in 1 .. keep
               PROVE  ring'[i] = (written + n) - keep + i
    BY <1>4, <1>10 DEF Latest
  <2>1. Len(all) - keep + i \in 1 .. Len(all)
    BY <1>7
  <2>2. ring'[i] = written - Len(ring) + (Len(all) - keep + i)
    BY <1>6, <1>10, <2>1
  <2>3. Len(ring) \in Nat
    BY <1>1
  <2> QED
    BY <1>1, <1>2, <1>5, <1>7, <2>2, <2>3
<1>12. Len(ring) \in Nat /\ Len(out) \in Nat
  BY <1>1
<1>13. overruns' = overruns + (Len(ring) + n) - keep /\ overruns' \in Nat
  BY <1>1, <1>2, <1>4, <1>5, <1>7, <1>10, <1>12
<1>14. RingTypes'
  BY <1>1, <1>2, <1>4, <1>7, <1>10, <1>13 DEF RingTypes
<1>15. written - Len(ring) <= written' - Len(ring')
  BY <1>1, <1>2, <1>4, <1>5, <1>7, <1>10, <1>12
<1>16. InOrder'
  <2>1. /\ \A i \in 1 .. Len(out) : stepped < out[i] /\ out[i] <= written - Len(ring)
        /\ \A i, j \in 1 .. Len(out) : i < j => out[i] < out[j]
        /\ stepped <= written - Len(ring)
    BY DEF RingInv, InOrder
  <2> DEFINE old == written - Len(ring)
             new == written' - Len(ring')
  <2>2. old \in Int /\ new \in Int /\ old <= new
    BY <1>1, <1>2, <1>4, <1>7, <1>10, <1>12, <1>15
  <2>3. \A i \in 1 .. Len(out) : out[i] \in Int
    BY <1>1
  <2>4. /\ \A i \in 1 .. Len(out) : stepped < out[i] /\ out[i] <= old
        /\ stepped <= old
    BY <2>1
  <2> HIDE DEF old, new
  <2>5. /\ \A i \in 1 .. Len(out) : stepped < out[i] /\ out[i] <= new
        /\ stepped <= new
    BY <1>1, <2>2, <2>3, <2>4
  <2> QED
    BY <1>4, <2>1, <2>5 DEF InOrder, new
<1>17. Account'
  <2>1. written = steps + Len(out) + Len(ring) + overruns
    BY DEF RingInv, Account
  <2>2. keep \in Nat
    BY <1>7
  <2>3. written + n = steps + Len(out) + keep + (overruns + (Len(ring) + n) - keep)
    BY <1>1, <1>2, <1>12, <2>1, <2>2
  <2> QED
    BY <1>4, <1>10, <1>13, <2>3 DEF Account
<1>18. ReaderState'
  BY <1>1, <1>4 DEF ReaderState, RingInv
<1> QED
  BY <1>11, <1>14, <1>16, <1>17, <1>18 DEF RingInv

\* The reader takes from the front, and nothing changes in the account.
LEMMA ReadKeeps ==
    ASSUME RingInv, Read
    PROVE  RingInv'
<1> DEFINE k == Smaller(Window - Len(out), Len(ring))
           taken == SubSeq(ring, 1, k)
           left == SubSeq(ring, k + 1, Len(ring))
<1>1. /\ written \in Nat /\ steps \in Nat /\ overruns \in Nat /\ stepped \in Nat
      /\ ring \in Seq(Int) /\ out \in Seq(Int) /\ Len(ring) <= Capacity /\ Len(out) <= Window
      /\ Len(ring) \in Nat /\ Len(out) \in Nat /\ Window \in Nat /\ Capacity \in Nat
  BY RingAssumption DEF RingInv, RingTypes
<1>2. /\ out' = out \o taken /\ ring' = left
      /\ main' = IF Len(out') = Window THEN "step" ELSE "waiting"
      /\ UNCHANGED <<written, steps, overruns, stepped>>
  BY DEF Read
<1>3. k \in 0 .. Len(ring) /\ Len(out) + k <= Window
  BY <1>1 DEF Smaller
<1> HIDE DEF k
<1>4. /\ taken \in Seq(Int) /\ Len(taken) = k /\ \A i \in 1 .. k : taken[i] = ring[i]
      /\ left \in Seq(Int) /\ Len(left) = Len(ring) - k
      /\ \A i \in 1 .. Len(ring) - k : left[i] = ring[k + i]
  BY <1>1, <1>3, Begins, Ends
<1> HIDE DEF taken, left
<1>5. /\ out' \in Seq(Int) /\ Len(out') = Len(out) + k
      /\ \A i \in 1 .. Len(out) : out'[i] = out[i]
      /\ \A i \in Len(out) + 1 .. Len(out) + k : out'[i] = taken[i - Len(out)]
  BY <1>1, <1>2, <1>4, Joined
<1>6. RingTypes'
  BY <1>1, <1>2, <1>3, <1>4, <1>5 DEF RingTypes
<1> DEFINE old == written - Len(ring)
<1>7. /\ \A i \in 1 .. Len(ring) : ring[i] = old + i
      /\ \A i \in 1 .. Len(out) : stepped < out[i] /\ out[i] <= old
      /\ \A i, j \in 1 .. Len(out) : i < j => out[i] < out[j]
      /\ stepped <= old /\ old \in Int
  BY <1>1 DEF RingInv, Latest, InOrder
<1>8. written' - Len(ring') = old + k
  BY <1>1, <1>2, <1>3, <1>4
<1> HIDE DEF old
<1>9. Latest'
  <2> SUFFICES ASSUME NEW i \in 1 .. Len(ring')
               PROVE  ring'[i] = (old + k) + i
    BY <1>8 DEF Latest
  <2>1. i \in 1 .. Len(ring) - k /\ k + i \in 1 .. Len(ring)
    <3>1. Len(ring') = Len(ring) - k
      BY <1>2, <1>4
    <3>2. i \in 1 .. Len(ring) - k
      BY <3>1
    <3> QED
      BY <3>2, <1>1, <1>3
  <2>2. ring'[i] = old + (k + i)
    BY <1>2, <1>4, <1>7, <2>1
  <2> QED
    BY <1>3, <1>7, <2>1, <2>2
<1>10. \A i \in Len(out) + 1 .. Len(out) + k : out'[i] = old + (i - Len(out))
  <2> SUFFICES ASSUME NEW i \in Len(out) + 1 .. Len(out) + k
               PROVE  out'[i] = old + (i - Len(out))
    OBVIOUS
  <2>1. i - Len(out) \in 1 .. k /\ i - Len(out) \in 1 .. Len(ring)
    BY <1>1, <1>3
  <2> QED
    BY <1>4, <1>5, <1>7, <2>1
<1>11. InOrder'
  <2>1. ASSUME NEW i \in 1 .. Len(out')
        PROVE  stepped < out'[i] /\ out'[i] <= old + k
    <3>1. CASE i <= Len(out)
      <4>1. i \in 1 .. Len(out) /\ out[i] \in Int
        BY <1>1, <1>5, <3>1
      <4>2. stepped < out[i] /\ out[i] <= old /\ out'[i] = out[i]
        BY <1>5, <1>7, <4>1
      <4> QED
        BY <1>3, <1>7, <4>1, <4>2
    <3>2. CASE i > Len(out)
      <4>1. i \in Len(out) + 1 .. Len(out) + k
        BY <1>1, <1>3, <1>5, <3>2
      <4>2. out'[i] = old + (i - Len(out)) /\ i - Len(out) \in 1 .. k
        BY <1>1, <1>3, <1>10, <4>1
      <4> QED
        BY <1>1, <1>3, <1>7, <4>2
    <3> QED
      BY <1>1, <1>5, <3>1, <3>2
  <2>2. ASSUME NEW i \in 1 .. Len(out'), NEW j \in 1 .. Len(out'), i < j
        PROVE  out'[i] < out'[j]
    <3>1. CASE j <= Len(out)
      <4>1. i \in 1 .. Len(out) /\ j \in 1 .. Len(out)
        BY <1>1, <2>2, <3>1
      <4> QED
        BY <1>5, <1>7, <2>2, <4>1
    <3>2. CASE i <= Len(out) /\ j > Len(out)
      <4>1. i \in 1 .. Len(out) /\ j \in Len(out) + 1 .. Len(out) + k
        BY <1>1, <1>3, <1>5, <3>2
      <4>2. out'[i] = out[i] /\ out[i] <= old /\ out[i] \in Int
        <5>1. out'[i] = out[i] /\ out[i] <= old
          BY <1>5, <1>7, <4>1
        <5>2. out[i] \in Int
          BY <1>1, <4>1
        <5> QED
          BY <5>1, <5>2
      <4>3. out'[j] = old + (j - Len(out)) /\ j - Len(out) \in 1 .. k
        BY <1>1, <1>3, <1>10, <4>1
      <4> QED
        BY <1>3, <1>7, <4>2, <4>3
    <3>3. CASE i > Len(out)
      <4>1. i \in Len(out) + 1 .. Len(out) + k /\ j \in Len(out) + 1 .. Len(out) + k
        BY <1>1, <1>3, <1>5, <2>2, <3>3
      <4>2. out'[i] = old + (i - Len(out)) /\ out'[j] = old + (j - Len(out))
        BY <1>10, <4>1
      <4> QED
        BY <1>1, <1>7, <2>2, <4>2
    <3> QED
      BY <1>1, <1>5, <3>1, <3>2, <3>3
  <2>3. stepped <= old + k
    BY <1>1, <1>3, <1>7
  <2> QED
    BY <1>2, <1>8, <2>1, <2>2, <2>3 DEF InOrder
<1>12. Account'
  BY <1>1, <1>2, <1>3, <1>4, <1>5 DEF Account, RingInv
<1>13. ReaderState'
  BY <1>2 DEF ReaderState
<1> QED
  BY <1>6, <1>9, <1>11, <1>12, <1>13 DEF RingInv

\* A window goes to the detector.
LEMMA StepKeeps ==
    ASSUME RingInv, VadStep
    PROVE  RingInv'
<1>1. /\ main = "step" /\ out \in Seq(Int) /\ Len(out) = Window /\ Window \in Nat \ {0}
      /\ {written, steps, overruns, stepped} \subseteq Nat
      /\ ring \in Seq(Int)
  BY RingAssumption DEF RingInv, RingTypes, ReaderState, VadStep
<1>2. /\ stepped' = out[Len(out)] /\ steps' = steps + Window
      /\ out' = <<>> /\ main' = "loop"
      /\ UNCHANGED <<ring, overruns, written>>
  BY DEF VadStep, buffer, Last
<1>3. Len(out) \in 1 .. Len(out) /\ out[Len(out)] \in Int
  BY <1>1
<1>4. stepped < stepped' /\ stepped' <= written - Len(ring)
  BY <1>2, <1>3 DEF RingInv, InOrder
<1>5. stepped' \in Nat
  BY <1>1, <1>2, <1>3, <1>4
<1>6. RingTypes'
  BY <1>1, <1>2, <1>5, RingAssumption DEF RingInv, RingTypes
<1>7. Latest' /\ InOrder'
  BY <1>2, <1>4 DEF RingInv, Latest, InOrder
<1>8. Account'
  BY <1>1, <1>2 DEF RingInv, Account
<1>9. ReaderState'
  BY <1>2 DEF ReaderState
<1> QED
  BY <1>6, <1>7, <1>8, <1>9 DEF RingInv

\* The invariant holds in every interleaving of the two threads.
THEOREM RingInvariant == Spec => []RingInv
<1>1. ASSUME RingInv, [Next]_vars
      PROVE  RingInv'
  <2>1. CASE Deliver
    BY <1>1, <2>1, WriteKeeps DEF Deliver
  <2>2. CASE Read
    BY <1>1, <2>2, ReadKeeps
  <2>3. CASE VadStep
    BY <1>1, <2>3, StepKeeps
  <2>4. CASE DeviceFallsSilent \/ Signal \/ UNCHANGED vars
    BY <1>1, <2>4 DEF DeviceFallsSilent, Signal, vars, buffer, RingInv, RingTypes, Latest,
                      InOrder, Account, ReaderState
  <2>5. CASE ReadNext \/ Stop
    <3>1. out = <<>> /\ out' = <<>> /\ main' \in {"reading", "ended"}
      BY <1>1, <2>5 DEF ReadNext, Stop, RingInv, ReaderState
    <3>2. UNCHANGED <<ring, overruns, written, stepped, steps>>
      BY <2>5 DEF ReadNext, Stop, buffer
    <3> QED
      BY <1>1, <3>1, <3>2 DEF RingInv, RingTypes, Latest, InOrder, Account, ReaderState
  <2>6. CASE ReaderWakes
    BY <1>1, <2>6 DEF ReaderWakes, buffer, RingInv, RingTypes, Latest, InOrder, Account,
                      ReaderState
  <2> QED
    BY <1>1, <2>1, <2>2, <2>3, <2>4, <2>5, <2>6 DEF Next, Reader
<1> QED
  BY <1>1, InitEstablishesRing, PTL DEF Spec

\* No sample is lost uncounted, taken twice or out of order, and the ring holds
\* the latest: what the property says of the reader and the ring together follows
\* from what the invariant says of each.
THEOREM Accounted == Spec => []LossesCounted
<1>1. RingInv => LossesCounted
  <2> SUFFICES ASSUME RingInv
               PROVE  LossesCounted
    OBVIOUS
  <2> DEFINE old == written - Len(ring)
             all == out \o ring
  <2>1. /\ {written, steps, overruns, stepped} \subseteq Nat
        /\ ring \in Seq(Int) /\ out \in Seq(Int) /\ Len(ring) \in Nat /\ Len(out) \in Nat
    BY DEF RingInv, RingTypes
  <2>2. /\ \A i \in 1 .. Len(ring) : ring[i] = old + i
        /\ \A i \in 1 .. Len(out) : stepped < out[i] /\ out[i] <= old
        /\ \A i, j \in 1 .. Len(out) : i < j => out[i] < out[j]
        /\ stepped <= old /\ old \in Int
    BY <2>1 DEF RingInv, Latest, InOrder
  <2>3. /\ all \in Seq(Int) /\ Len(all) = Len(out) + Len(ring)
        /\ \A i \in 1 .. Len(out) : all[i] = out[i]
        /\ \A i \in Len(out) + 1 .. Len(out) + Len(ring) : all[i] = ring[i - Len(out)]
    BY <2>1, Joined
  <2> HIDE DEF all
  <2>4. written = steps + Len(all) + overruns
    BY <2>1, <2>3 DEF RingInv, Account
  <2> HIDE DEF old
  <2>5. \A i \in Len(out) + 1 .. Len(out) + Len(ring) : all[i] = old + (i - Len(out))
    <3> SUFFICES ASSUME NEW i \in Len(out) + 1 .. Len(out) + Len(ring)
                 PROVE  all[i] = old + (i - Len(out))
      OBVIOUS
    <3>1. i - Len(out) \in 1 .. Len(ring)
      BY <2>1
    <3> QED
      BY <2>2, <2>3, <3>1
  <2>6. ASSUME NEW i \in 1 .. Len(all)
        PROVE  all[i] > (IF i = 1 THEN stepped ELSE all[i - 1])
    <3>1. CASE i <= Len(out) /\ i = 1
      <4>1. i \in 1 .. Len(out)
        BY <2>1, <3>1
      <4>2. all[i] = out[i] /\ stepped < out[i] /\ out[i] \in Int /\ stepped \in Int
        BY <2>1, <2>2, <2>3, <4>1
      <4> QED
        BY <3>1, <4>2
    <3>2. CASE i <= Len(out) /\ i # 1
      <4>1. i \in 1 .. Len(out) /\ i - 1 \in 1 .. Len(out) /\ i - 1 < i
        BY <2>1, <3>2
      <4>2. out[i - 1] < out[i] /\ all[i] = out[i] /\ all[i - 1] = out[i - 1]
        BY <2>2, <2>3, <4>1
      <4>3. out[i] \in Int /\ out[i - 1] \in Int
        BY <2>1, <4>1
      <4> QED
        BY <3>2, <4>2, <4>3
    <3>3. CASE i > Len(out)
      <4>1. i \in Len(out) + 1 .. Len(out) + Len(ring) /\ i \in Int
        BY <2>1, <2>3, <3>3
      <4>2. all[i] = old + (i - Len(out)) /\ all[i] \in Int /\ all[i] > old
        BY <2>1, <2>2, <2>5, <4>1
      <4>3. CASE i = 1
        BY <2>1, <2>2, <4>2, <4>3
      <4>4. CASE i # 1 /\ i - 1 <= Len(out)
        <5>1. i - 1 \in 1 .. Len(out)
          BY <2>1, <4>1, <4>4
        <5>2. all[i - 1] = out[i - 1] /\ out[i - 1] <= old
          BY <2>2, <2>3, <5>1
        <5>3. out[i - 1] \in Int
          BY <2>1, <5>1
        <5> QED
          BY <2>2, <4>2, <4>4, <5>2, <5>3
      <4>5. CASE i # 1 /\ i - 1 > Len(out)
        <5>1. i - 1 \in Len(out) + 1 .. Len(out) + Len(ring)
          BY <2>1, <4>1, <4>5
        <5>2. all[i - 1] = old + ((i - 1) - Len(out))
          BY <2>5, <5>1
        <5> QED
          BY <2>1, <2>2, <4>1, <4>2, <4>5, <5>2
      <4> QED
        BY <2>1, <4>1, <4>3, <4>4, <4>5
    <3> QED
      BY <2>1, <2>3, <3>1, <3>2, <3>3
  <2>7. \A i \in 1 .. Len(ring) : ring[i] = written - Len(ring) + i
    BY DEF RingInv, Latest
  <2>8. DOMAIN all = 1 .. Len(all) /\ DOMAIN ring = 1 .. Len(ring)
    BY <2>1, <2>3
  <2> QED
    BY <2>4, <2>6, <2>7, <2>8 DEF LossesCounted, Ahead, all
<1> QED
  BY <1>1, RingInvariant, PTL
=============================================================================
