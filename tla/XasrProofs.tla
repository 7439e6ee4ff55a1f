------------------------------ MODULE XasrProofs ------------------------------
(***************************************************************************)
(* Proofs about the streaming recognizer and its server, for every frame   *)
(* size and step that overlap at most fourfold, every window, hop, pad and *)
(* output, and all pieces audio may arrive in: the encoder sees the        *)
(* windows of the whole utterance, and all of them, and the client is sent *)
(* the whole text.                                                         *)
(***************************************************************************)
EXTENDS XasrServer, SequenceLemmas

-----------------------------------------------------------------------------
(* Arithmetic.                                                             *)

\* Division by the frame step: the multiple of the quotient lies at most a step
\* below.
LEMMA StepQuotient ==
    ASSUME NEW m \in Nat
    PROVE  /\ m \div FrameStep \in Nat
           /\ (m \div FrameStep) * FrameStep <= m
           /\ m < (m \div FrameStep) * FrameStep + FrameStep
BY StreamAssumption

\* Multiples of the step add up, and keep the order.
LEMMA Steps ==
    ASSUME NEW a \in Int, NEW b \in Int
    PROVE  /\ a * FrameStep \in Int
           /\ (a + b) * FrameStep = a * FrameStep + b * FrameStep
           /\ a < b => a * FrameStep + FrameStep <= b * FrameStep
BY StreamAssumption

\* Three steps or more.
LEMMA ThreeSteps ==
    ASSUME NEW d \in Int, d >= 3
    PROVE  d * FrameStep \in Int /\ d * FrameStep >= 3 * FrameStep
BY StreamAssumption

\* Multiples of the hop, one window on.
LEMMA OneShift ==
    ASSUME NEW c \in Int
    PROVE  /\ c * Shift \in Int
           /\ (c + 1) * Shift = c * Shift + Shift
           /\ (c - 1) * Shift = c * Shift - Shift
BY StreamAssumption

\* Multiples of the hop keep the order.
LEMMA ShiftsOrdered ==
    ASSUME NEW a \in Int, NEW b \in Int, a <= b
    PROVE  a * Shift \in Int /\ b * Shift \in Int /\ a * Shift <= b * Shift
BY StreamAssumption

\* The advances of the encoder's clock, one window on.
LEMMA OneInc ==
    ASSUME NEW c \in Int
    PROVE  c * PlInc \in Int /\ (c + 1) * PlInc = c * PlInc + PlInc
BY StreamAssumption

-----------------------------------------------------------------------------
(* Frames.                                                                 *)

\* More samples have as many frames or more.
LEMMA FramesGrow ==
    ASSUME NEW n \in Nat, NEW m \in Nat, n <= m
    PROVE  FrameCount(n) \in Nat /\ FrameCount(m) \in Nat /\ FrameCount(n) <= FrameCount(m)
<1> DEFINE half == FrameStep \div 2
           a == (n + half) \div FrameStep
           b == (m + half) \div FrameStep
<1>1. half \in Nat
  BY StreamAssumption
<1> HIDE DEF half
<1>2. n + half \in Nat /\ m + half \in Nat
  BY <1>1
<1>3. /\ a \in Nat /\ a * FrameStep <= n + half
      /\ b \in Nat /\ m + half < b * FrameStep + FrameStep
  BY <1>2, StepQuotient
<1>4. FrameCount(n) = (IF n < FrameSize THEN 0 ELSE a) /\ FrameCount(m) = (IF m < FrameSize THEN 0 ELSE b)
  BY DEF FrameCount, half
<1> HIDE DEF a, b
<1>5. /\ a * FrameStep \in Int /\ b * FrameStep \in Int
      /\ b < a => b * FrameStep + FrameStep <= a * FrameStep
  BY <1>3, Steps
<1>6. ~(b < a)
  BY <1>1, <1>3, <1>5, StreamAssumption
<1> QED
  BY <1>3, <1>4, <1>6, StreamAssumption

\* But for the last two, the frames of n samples lie within them on the right.
LEMMA FrameWithin ==
    ASSUME NEW n \in Nat, NEW k \in 1 .. FrameCount(n) - 2
    PROVE  /\ FrameStart(k - 1) \in Int
           /\ FrameStart(k - 1) + FrameSize <= n
           /\ -FrameStart(k - 1) <= n
<1> DEFINE half == FrameStep \div 2
           size == FrameSize \div 2
           a == (n + half) \div FrameStep
<1>1. /\ half \in Nat /\ 2 * half <= FrameStep
      /\ size \in Nat /\ 2 * size <= FrameSize /\ FrameSize <= 2 * size + 1
  BY StreamAssumption
<1>2. FrameCount(n) = IF n < FrameSize THEN 0 ELSE a
  BY DEF FrameCount
<1>3. FrameStart(k - 1) = (k - 1) * FrameStep + half - size
  BY DEF FrameStart
<1>4. n + half \in Nat
  BY <1>1
<1>5. a \in Nat /\ a * FrameStep <= n + half
  BY <1>4, StepQuotient
<1> HIDE DEF half, size, a
<1>6. k \in Nat /\ k >= 1 /\ k <= a - 2 /\ n >= FrameSize
  BY <1>2, <1>5, StreamAssumption
<1>7. /\ (k - 1) * FrameStep \in Int
      /\ a * FrameStep = (k - 1) * FrameStep + (a - (k - 1)) * FrameStep
  <2>1. k - 1 \in Int /\ a - (k - 1) \in Int /\ (k - 1) + (a - (k - 1)) = a
    BY <1>5, <1>6
  <2> QED
    BY <2>1, Steps
<1>8. (a - (k - 1)) * FrameStep \in Int /\ (a - (k - 1)) * FrameStep >= 3 * FrameStep
  <2>1. a - (k - 1) \in Int /\ a - (k - 1) >= 3
    BY <1>5, <1>6
  <2> QED
    BY <2>1, ThreeSteps
<1>9. 0 <= (k - 1) * FrameStep
  <2>1. 0 * FrameStep = 0 /\ (0 < k - 1 => 0 * FrameStep + FrameStep <= (k - 1) * FrameStep)
    BY <1>6, Steps, StreamAssumption
  <2>2. CASE k = 1
    BY <2>2, StreamAssumption
  <2>3. CASE k > 1
    BY <2>1, <2>3, <1>6, <1>7, StreamAssumption
  <2> QED
    BY <2>2, <2>3, <1>6
<1> DEFINE x == (k - 1) * FrameStep
           y == (a - (k - 1)) * FrameStep
           z == a * FrameStep
<1>10. x \in Int /\ y \in Int /\ z = x + y /\ y >= 3 * FrameStep /\ 0 <= x /\ z <= n + half
  BY <1>5, <1>7, <1>8, <1>9
<1> HIDE DEF x, y, z
<1>11. x + half - size + FrameSize <= n
  BY <1>1, <1>10, StreamAssumption
<1>12. -(x + half - size) <= n
  BY <1>1, <1>6, <1>10, StreamAssumption
<1>13. FrameStart(k - 1) = x + half - size
  BY <1>3 DEF x
<1> QED
  BY <1>1, <1>10, <1>11, <1>12, <1>13

\* A frame that is not one of the last two depends only on samples that are
\* there: with more of them it stays what it is.
LEMMA FramesStable ==
    ASSUME NEW s \in Seq(Int), NEW more \in Seq(Int), NEW k \in 1 .. FrameCount(Len(s)) - 2
    PROVE  ComputeFbank(s \o more)[k] = ComputeFbank(s)[k]
<1> DEFINE n == Len(s)
           all == s \o more
           m == Len(all)
           first == FrameStart(k - 1)
<1>1. n \in Nat /\ m \in Nat /\ n <= m /\ \A i \in 1 .. n : all[i] = s[i]
  OBVIOUS
<1>2. k \in 1 .. FrameCount(n) - 2
  OBVIOUS
<1> HIDE DEF n, m, all
<1>3. first \in Int /\ first + FrameSize <= n /\ -first <= n
  BY <1>1, <1>2, FrameWithin
<1>4. k \in 1 .. FrameCount(n) /\ k \in 1 .. FrameCount(m)
  <2>1. FrameCount(n) \in Nat /\ FrameCount(m) \in Nat /\ FrameCount(n) <= FrameCount(m)
    BY <1>1, FramesGrow
  <2> QED
    BY <1>2, <2>1
<1>5. ComputeFbank(s)[k] = ProcessFrame(k - 1, s) /\ ComputeFbank(all)[k] = ProcessFrame(k - 1, all)
  BY <1>4 DEF ComputeFbank, n, m
<1>6. ASSUME NEW j \in 1 .. FrameSize
      PROVE  s[Index(first + j - 1, n) + 1] = all[Index(first + j - 1, m) + 1]
  <2> DEFINE i == first + j - 1
  <2>1. i \in Int /\ i < n /\ -i - 1 < n
    BY <1>1, <1>3, StreamAssumption
  <2> HIDE DEF i
  <2>2. Index(i, n) = Index(i, m) /\ Index(i, n) + 1 \in 1 .. n
    BY <1>1, <2>1 DEF Index
  <2>3. s[Index(i, n) + 1] = all[Index(i, m) + 1]
    BY <1>1, <2>2
  <2> QED
    BY <2>3 DEF i
<1>7. ProcessFrame(k - 1, s) = ProcessFrame(k - 1, all)
  BY <1>6 DEF ProcessFrame, n, m
<1> QED
  BY <1>5, <1>7 DEF all

\* The number of frames is one.
LEMMA CountIsNat ==
    ASSUME NEW s \in Seq(Int)
    PROVE  FrameCount(Len(s)) \in Nat
BY FramesGrow

\* What a sequence is followed by changes nothing in it.
LEMMA Concatenated ==
    ASSUME NEW S, NEW a \in Seq(S), NEW b \in Seq(S)
    PROVE  /\ Len(a \o b) = Len(a) + Len(b)
           /\ \A k \in 1 .. Len(a) : (a \o b)[k] = a[k]
OBVIOUS

\* As many features as frames.
LEMMA FbankLength ==
    ASSUME NEW s \in Seq(Int)
    PROVE  Len(ComputeFbank(s)) = FrameCount(Len(s))
BY CountIsNat DEF ComputeFbank

\* The pad comes after the features, which keep their places.
LEMMA PaddedLength ==
    ASSUME NEW s \in Seq(Int)
    PROVE  /\ Len(Padded(ComputeFbank(s))) = FrameCount(Len(s)) + Pad
           /\ \A k \in 1 .. FrameCount(Len(s)) : Padded(ComputeFbank(s))[k] = ComputeFbank(s)[k]
<1> DEFINE frames == {ProcessFrame(t, s) : t \in Int} \cup {ZeroFrame}
           f == ComputeFbank(s)
           pad == [t \in 1 .. Pad |-> ZeroFrame]
<1>1. /\ \A t \in Int : ProcessFrame(t, s) \in frames
      /\ ZeroFrame \in frames
  OBVIOUS
<1> HIDE DEF frames
<1>2. f \in Seq(frames)
  BY <1>1, CountIsNat DEF ComputeFbank
<1>3. pad \in Seq(frames) /\ Len(pad) = Pad
  BY <1>1, StreamAssumption
<1>4. Len(f) = FrameCount(Len(s))
  BY FbankLength
<1> HIDE DEF f, pad
<1>5. Len(f \o pad) = Len(f) + Pad /\ \A k \in 1 .. Len(f) : (f \o pad)[k] = f[k]
  BY <1>2, <1>3, Concatenated
<1> QED
  BY <1>4, <1>5 DEF Padded, f, pad

\* A window within some frames is within more of them.
LEMMA StillWithin ==
    ASSUME NEW start \in Int, NEW c \in Nat, NEW d \in Nat, c <= d, start + T <= c - 2
    PROVE  start + T <= d - 2
BY StreamAssumption

\* Windows of the same frames are the same.
LEMMA SameWindow ==
    ASSUME NEW f, NEW g, NEW i, \A t \in 1 .. T : f[(i - 1) * Shift + t] = g[(i - 1) * Shift + t]
    PROVE  OnlineWindow(f, i) = OnlineWindow(g, i)
BY DEF OnlineWindow, Window

\* The frames of the windows up to the c-th.
LEMMA WindowFrames ==
    ASSUME NEW c \in Nat, NEW i \in 1 .. c, NEW t \in 1 .. T, NEW limit \in Int,
           (c - 1) * Shift + T <= limit
    PROVE  (i - 1) * Shift + t \in 1 .. limit
<1>1. /\ (i - 1) * Shift \in Int /\ (c - 1) * Shift \in Int
      /\ (i - 1) * Shift <= (c - 1) * Shift
      /\ 0 * Shift <= (i - 1) * Shift
  BY ShiftsOrdered
<1>2. 0 * Shift = 0
  BY StreamAssumption
<1> QED
  BY <1>1, <1>2, StreamAssumption

\* Windows that leave out the last two frames are the same when more audio comes.
LEMMA WindowsStable ==
    ASSUME NEW s \in Seq(Int), NEW more \in Seq(Int), NEW c \in Nat, NEW i \in 1 .. c,
           (c - 1) * Shift + T <= FrameCount(Len(s)) - 2
    PROVE  OnlineWindow(ComputeFbank(s \o more), i) = OnlineWindow(ComputeFbank(s), i)
<1>1. FrameCount(Len(s)) - 2 \in Int
  BY CountIsNat
<1>2. ASSUME NEW t \in 1 .. T
      PROVE  ComputeFbank(s \o more)[(i - 1) * Shift + t] = ComputeFbank(s)[(i - 1) * Shift + t]
  <2>1. (i - 1) * Shift + t \in 1 .. FrameCount(Len(s)) - 2
    BY <1>1, WindowFrames
  <2> QED
    BY <2>1, FramesStable
<1> QED
  BY <1>2, SameWindow

\* And when the pad comes.
LEMMA WindowsPadded ==
    ASSUME NEW s \in Seq(Int), NEW c \in Nat, NEW i \in 1 .. c,
           (c - 1) * Shift + T <= FrameCount(Len(s)) - 2
    PROVE  OnlineWindow(Padded(ComputeFbank(s)), i) = OnlineWindow(ComputeFbank(s), i)
<1>1. FrameCount(Len(s)) \in Nat
  BY CountIsNat
<1>2. ASSUME NEW t \in 1 .. T
      PROVE  Padded(ComputeFbank(s))[(i - 1) * Shift + t] = ComputeFbank(s)[(i - 1) * Shift + t]
  <2>1. (i - 1) * Shift + t \in 1 .. FrameCount(Len(s)) - 2
    BY <1>1, WindowFrames
  <2> QED
    BY <1>1, <2>1, PaddedLength
<1> QED
  BY <1>2, SameWindow

-----------------------------------------------------------------------------
(* The stream.                                                             *)

StreamTypes ==
    /\ samples \in Seq(Int)
    /\ chunks_done \in Nat
    /\ processed_lens = chunks_done * PlInc
    /\ pushed \in Nat
    /\ finished \in BOOLEAN /\ late \in BOOLEAN
    /\ running \in {"idle", "streaming", "final"}

Whole == ComputeFbank(samples)
Count == FrameCount(Len(samples))
Features == IF finished THEN Padded(Whole) ELSE Whole

\* What is in feats when a window is taken from it.
FeaturesCurrent ==
    /\ ~finished => feats = Whole
    /\ running = "final" => finished /\ feats = Padded(Whole)
    /\ finished /\ ~late => Len(feats) \in Nat /\ Len(feats) <= Count + Pad

\* The windows encoded are those of the whole utterance, and before its end they
\* leave out the last two frames.
WindowsEncoded ==
    ~late => /\ chost = [i \in 1 .. chunks_done |-> OnlineWindow(Features, i)]
             /\ ~finished /\ chunks_done > 0 => (chunks_done - 1) * Shift + T <= Count - 2

\* After the end has been processed no window is left.
AllEncoded ==
    finished /\ ~late /\ running # "final" => chunks_done * Shift + T > Count + Pad

StreamInv == StreamTypes /\ FeaturesCurrent /\ WindowsEncoded /\ AllEncoded

\* A stream begins without audio.
LEMMA InitEstablishes == StreamInit => StreamInv
<1> SUFFICES ASSUME StreamInit
             PROVE  StreamInv
  OBVIOUS
<1>1. StreamTypes
  <2>1. 0 * PlInc = 0
    BY StreamAssumption
  <2>2. processed_lens = chunks_done * PlInc
    BY <2>1 DEF StreamInit
  <2>3. samples \in Seq(Int)
    BY DEF StreamInit
  <2>4. chunks_done \in Nat /\ pushed \in Nat /\ running \in {"idle", "streaming", "final"}
    BY DEF StreamInit
  <2>5. finished \in BOOLEAN /\ late \in BOOLEAN
    BY Zenon DEF StreamInit
  <2> QED
    BY <2>2, <2>3, <2>4, <2>5 DEF StreamTypes
<1>2. Whole = <<>>
  BY StreamAssumption DEF StreamInit, Whole, ComputeFbank, FrameCount
<1>3. FeaturesCurrent /\ WindowsEncoded /\ AllEncoded
  BY <1>2 DEF StreamInit, FeaturesCurrent, WindowsEncoded, AllEncoded
<1> QED
  BY <1>1, <1>3 DEF StreamInv

\* The audio that arrives, and what becomes of the features.
LEMMA AudioArrives ==
    ASSUME StreamInv, NEW n \in Pieces, AcceptPcm(n)
    PROVE  StreamInv'
<1> DEFINE more == [i \in 1 .. n |-> pushed + i]
<1>0. n \in Nat
  BY StreamAssumption
<1>1. n \in Nat /\ more \in Seq(Int) /\ Len(more) = n
  BY <1>0 DEF StreamInv, StreamTypes
<1>2. samples' = samples \o more /\ samples \in Seq(Int) /\ samples' \in Seq(Int)
  BY <1>1 DEF StreamInv, StreamTypes, AcceptPcm
<1> HIDE DEF more
<1>3. StreamTypes'
  BY <1>1, <1>2 DEF StreamInv, StreamTypes, AcceptPcm
<1>4. Count \in Nat /\ Count' \in Nat /\ Count <= Count'
  <2>1. Len(samples) \in Nat /\ Len(samples') \in Nat /\ Len(samples) <= Len(samples')
    BY <1>1, <1>2
  <2> QED
    BY <2>1, FramesGrow DEF Count
<1>5. n = 0 => samples' = samples
  BY <1>1, <1>2
<1>6. feats' = IF samples' = <<>> THEN feats ELSE Whole'
  BY DEF AcceptPcm, Compute, Whole
<1>7. CASE finished /\ n = 0
  <2>1. UNCHANGED <<samples, chost, chunks_done, finished, late>> /\ running = "idle" /\ running' = "streaming"
    BY <1>5, <1>7, StreamAssumption DEF AcceptPcm, StreamInv, StreamTypes
  <2>2. Count' = Count /\ Whole' = Whole /\ Features' = Features
    BY <2>1 DEF Count, Whole, Features
  <2>3. Len(Whole) = Count /\ Pad \in Nat
    BY <1>2, FbankLength, StreamAssumption DEF Whole, Count
  <2>4. FeaturesCurrent'
    BY <1>4, <1>6, <1>7, <2>1, <2>2, <2>3 DEF StreamInv, FeaturesCurrent
  <2>5. WindowsEncoded'
    BY <1>7, <2>1, <2>2 DEF StreamInv, WindowsEncoded
  <2>6. AllEncoded'
    BY <1>7, <2>1, <2>2 DEF StreamInv, AllEncoded
  <2> QED
    BY <1>3, <2>4, <2>5, <2>6 DEF StreamInv
<1>8. CASE finished /\ n # 0
  <2>1. n > 0
    BY <1>1, <1>8
  <2>2. late' /\ finished' /\ running' = "streaming"
    BY <1>8, <2>1, Zenon DEF AcceptPcm
  <2> QED
    BY <1>3, <2>2 DEF StreamInv, FeaturesCurrent, WindowsEncoded, AllEncoded
<1>9. CASE ~finished
  <2>1. ~finished' /\ running' = "streaming" /\ chost' = chost /\ chunks_done' = chunks_done /\ late' = late
    BY <1>9 DEF AcceptPcm, StreamInv, StreamTypes
  <2>2. feats' = Whole'
    <3>1. CASE samples' = <<>>
      <4>1. Len(samples') = 0 /\ Len(samples') = Len(samples) + n /\ Len(samples) \in Nat
        <5>1. Len(samples \o more) = Len(samples) + Len(more)
          BY <1>1, <1>2, Concatenated, Zenon
        <5>2. Len(samples) \in Nat
          BY <1>2
        <5>3. Len(samples') = 0
          BY <3>1
        <5> QED
          BY <1>1, <1>2, <5>1, <5>2, <5>3, Zenon
      <4>2. n = 0
        BY <1>0, <4>1
      <4>3. samples' = samples
        BY <1>5, <4>2
      <4> QED
        BY <1>6, <1>9, <3>1, <4>3 DEF StreamInv, FeaturesCurrent, Whole
    <3> QED
      BY <1>6, <3>1
  <2>3. FeaturesCurrent'
    BY <2>1, <2>2 DEF FeaturesCurrent
  <2>4. AllEncoded'
    BY <2>1 DEF AllEncoded
  <2>5. WindowsEncoded'
    <3> SUFFICES ASSUME ~late
                 PROVE  /\ chost' = [i \in 1 .. chunks_done |-> OnlineWindow(Whole', i)]
                        /\ chunks_done > 0 => (chunks_done - 1) * Shift + T <= Count' - 2
      BY <2>1 DEF WindowsEncoded, Features
    <3>1. /\ chost' = [i \in 1 .. chunks_done |-> OnlineWindow(Whole, i)]
          /\ chunks_done > 0 => (chunks_done - 1) * Shift + T <= Count - 2
      BY <1>9, <2>1 DEF StreamInv, WindowsEncoded, Features
    <3>2. chunks_done \in Nat
      BY DEF StreamInv, StreamTypes
    <3>3. ASSUME NEW i \in 1 .. chunks_done
          PROVE  OnlineWindow(Whole', i) = OnlineWindow(Whole, i)
      BY <1>1, <1>2, <3>1, <3>2, WindowsStable DEF Whole, Count
    <3>4. chost' = [i \in 1 .. chunks_done |-> OnlineWindow(Whole', i)]
      BY <3>1, <3>3
    <3> DEFINE start == (chunks_done - 1) * Shift
    <3>5. start \in Int /\ (chunks_done > 0 => start + T <= Count - 2)
      BY <3>1, <3>2, OneShift
    <3> HIDE DEF start
    <3>6. ASSUME chunks_done > 0
          PROVE  start + T <= Count' - 2
      <4>1. start \in Int /\ start + T <= Count - 2
        BY <3>5, <3>6
      <4> QED
        BY <1>4, <4>1, StillWithin
    <3> QED
      BY <3>4, <3>6 DEF start
  <2> QED
    BY <1>3, <2>3, <2>4, <2>5 DEF StreamInv
<1> QED
  BY <1>7, <1>8, <1>9

\* The end: the pad comes after the features, and the windows encoded so far are
\* those of the padded utterance as well.
LEMMA EndComes ==
    ASSUME StreamInv, InputFinished
    PROVE  StreamInv'
<1>1. /\ ~finished /\ finished' /\ running' = "final"
      /\ UNCHANGED <<samples, processed_lens, chunks_done, chost, pushed, late>>
  BY DEF InputFinished
<1>2. samples \in Seq(Int) /\ chunks_done \in Nat
  BY DEF StreamInv, StreamTypes
<1>3. Count' = Count /\ Whole' = Whole /\ Count \in Nat
  BY <1>1, <1>2, CountIsNat DEF Count, Whole
<1>4. StreamTypes'
  BY <1>1 DEF StreamInv, StreamTypes
<1>5. Compute(samples) = Whole
  BY <1>1 DEF StreamInv, FeaturesCurrent, Compute, Whole
<1>6. feats' = Padded(Whole)
  BY <1>5 DEF InputFinished
<1>7. Len(feats') = Count' + Pad
  BY <1>2, <1>3, <1>6, PaddedLength DEF Whole, Count
<1>8. Len(feats') <= Count' + Pad
  BY <1>3, <1>7, StreamAssumption
<1>9. FeaturesCurrent'
  BY <1>1, <1>3, <1>6, <1>7, <1>8, StreamAssumption DEF FeaturesCurrent
<1>10. AllEncoded'
  BY <1>1 DEF AllEncoded
<1>11. WindowsEncoded'
  <2> SUFFICES ASSUME ~late
               PROVE  chost = [i \in 1 .. chunks_done |-> OnlineWindow(Padded(Whole), i)]
    BY <1>1, <1>3 DEF WindowsEncoded, Features
  <2>1. /\ chost = [i \in 1 .. chunks_done |-> OnlineWindow(Whole, i)]
        /\ chunks_done > 0 => (chunks_done - 1) * Shift + T <= Count - 2
    BY <1>1 DEF StreamInv, WindowsEncoded, Features
  <2>2. ASSUME NEW i \in 1 .. chunks_done
        PROVE  OnlineWindow(Padded(Whole), i) = OnlineWindow(Whole, i)
    BY <1>2, <2>1, WindowsPadded DEF Whole, Count
  <2> QED
    BY <2>1, <2>2
<1> QED
  BY <1>4, <1>9, <1>10, <1>11 DEF StreamInv

\* Where no window is left, none is two frames before the end.
LEMMA NothingLeft ==
    ASSUME NEW start \in Int, NEW length \in Nat, NEW count \in Nat,
           length <= count + Pad, start + T <= length - 2
    PROVE  ~(start + T > count + Pad)
BY StreamAssumption

\* A window that is ready is one of the whole utterance.
LEMMA WindowTaken ==
    ASSUME StreamInv, NEW out, RunChunk(out)
    PROVE  StreamInv'
<1>1. /\ running # "idle" /\ ChunkReady
      /\ chost' = Append(chost, Window(feats, chunks_done * Shift, processed_lens))
      /\ processed_lens' = processed_lens + PlInc
      /\ chunks_done' = chunks_done + 1
      /\ UNCHANGED <<samples, feats, finished, running, pushed, late>>
  BY DEF RunChunk
<1>2. samples \in Seq(Int) /\ chunks_done \in Nat /\ processed_lens = chunks_done * PlInc
  BY DEF StreamInv, StreamTypes
<1>3. Count' = Count /\ Whole' = Whole /\ Features' = Features /\ Count \in Nat
  BY <1>1, <1>2, CountIsNat DEF Count, Whole, Features
<1>4. chunks_done' \in Nat /\ processed_lens' = chunks_done' * PlInc
  BY <1>1, <1>2, OneInc
<1>5. StreamTypes'
  BY <1>1, <1>4 DEF StreamInv, StreamTypes
<1>6. FeaturesCurrent'
  BY <1>1, <1>3 DEF StreamInv, FeaturesCurrent
<1>7. Len(Whole) = Count /\ Len(Padded(Whole)) = Count + Pad
  BY <1>2, FbankLength, PaddedLength DEF Whole, Count
<1>8. late \/ ~finished \/ running = "final"
  <2> SUFFICES ASSUME finished, ~late, running # "final"
               PROVE  FALSE
    OBVIOUS
  <2>1. Len(feats) <= Count + Pad /\ chunks_done * Shift + T > Count + Pad
    BY DEF StreamInv, FeaturesCurrent, AllEncoded
  <2>2. chunks_done * Shift + T <= Len(feats) - 2
    BY <1>1 DEF ChunkReady, Usable
  <2>3. chunks_done * Shift \in Int /\ Len(feats) \in Nat
    BY <1>2, OneShift DEF StreamInv, FeaturesCurrent
  <2> QED
    BY <1>3, <2>1, <2>2, <2>3, NothingLeft
<1>9. AllEncoded'
  BY <1>1, <1>8 DEF AllEncoded
<1>10. WindowsEncoded'
  <2> SUFFICES ASSUME ~late
               PROVE  /\ chost' = [i \in 1 .. chunks_done + 1 |-> OnlineWindow(Features, i)]
                      /\ ~finished => chunks_done * Shift + T <= Count - 2
    <3>1. chunks_done' - 1 = chunks_done
      BY <1>1, <1>2
    <3>2. (chunks_done' - 1) * Shift = chunks_done * Shift
      BY <3>1
    <3> QED
      BY <1>1, <1>3, <3>2 DEF WindowsEncoded
  <2>1. feats = Features
    BY <1>1, <1>8 DEF StreamInv, StreamTypes, FeaturesCurrent, Features
  <2>2. Window(feats, chunks_done * Shift, processed_lens) = OnlineWindow(Features, chunks_done + 1)
    BY <1>2, <2>1 DEF OnlineWindow
  <2>3. chost = [i \in 1 .. chunks_done |-> OnlineWindow(Features, i)]
    BY DEF StreamInv, WindowsEncoded
  <2>4. chost' = [i \in 1 .. chunks_done + 1 |-> OnlineWindow(Features, i)]
    BY <1>1, <1>2, <2>2, <2>3
  <2>5. ~finished => chunks_done * Shift + T <= Count - 2
    BY <1>1, <1>7, <1>8 DEF StreamInv, FeaturesCurrent, ChunkReady, Usable
  <2> QED
    BY <2>4, <2>5
<1> QED
  BY <1>5, <1>6, <1>9, <1>10 DEF StreamInv

\* The loop ends when no window is left.
LEMMA LoopEnds ==
    ASSUME StreamInv, ProcessDone
    PROVE  StreamInv'
<1>1. /\ running # "idle" /\ running' = "idle" /\ ~ChunkReady
      /\ UNCHANGED <<samples, feats, processed_lens, chunks_done, finished, chost, late, pushed>>
  BY DEF ProcessDone, utterance
<1>2. samples \in Seq(Int) /\ chunks_done \in Nat
  BY DEF StreamInv, StreamTypes
<1>3. Count' = Count /\ Whole' = Whole /\ Features' = Features /\ Count \in Nat
  BY <1>1, <1>2, CountIsNat DEF Count, Whole, Features
<1>4. StreamTypes'
  BY <1>1 DEF StreamInv, StreamTypes
<1>5. FeaturesCurrent' /\ WindowsEncoded'
  BY <1>1, <1>3 DEF StreamInv, FeaturesCurrent, WindowsEncoded
<1>6. AllEncoded'
  <2> SUFFICES ASSUME finished, ~late
               PROVE  chunks_done * Shift + T > Count + Pad
    BY <1>1, <1>3 DEF AllEncoded
  <2>1. CASE running = "final"
    <3>1. Len(feats) = Count + Pad
      BY <1>2, <2>1, PaddedLength DEF StreamInv, FeaturesCurrent, Whole, Count
    <3>2. ~(chunks_done * Shift + T <= Len(feats))
      BY <1>1, <2>1 DEF ChunkReady, Usable
    <3>3. chunks_done * Shift \in Int
      BY <1>2, OneShift
    <3> QED
      BY <1>3, <3>1, <3>2, <3>3, StreamAssumption
  <2>2. CASE running # "final"
    BY <2>2 DEF StreamInv, AllEncoded
  <2> QED
    BY <2>1, <2>2
<1> QED
  BY <1>4, <1>5, <1>6 DEF StreamInv

\* The stream of a new utterance is like the first.
LEMMA ResetClears ==
    ASSUME StreamInv, Reset
    PROVE  StreamInv'
<1>1. /\ samples' = <<>> /\ feats' = <<>> /\ chost' = <<>>
      /\ processed_lens' = 0 /\ chunks_done' = 0
      /\ finished' = FALSE /\ late' = FALSE
      /\ running' = "idle" /\ pushed' = pushed
  BY DEF Reset
<1>2. StreamTypes'
  <2>1. 0 * PlInc = 0
    BY StreamAssumption
  <2>2. processed_lens' = chunks_done' * PlInc
    BY <1>1, <2>1
  <2>3. samples' \in Seq(Int)
    BY <1>1
  <2>4. chunks_done' \in Nat /\ pushed' \in Nat /\ running' \in {"idle", "streaming", "final"}
    BY <1>1 DEF StreamInv, StreamTypes
  <2>5. finished' \in BOOLEAN /\ late' \in BOOLEAN
    BY <1>1, Zenon
  <2> QED
    BY <2>2, <2>3, <2>4, <2>5 DEF StreamTypes
<1>3. Whole' = <<>>
  BY <1>1, StreamAssumption DEF Whole, ComputeFbank, FrameCount
<1>4. FeaturesCurrent' /\ WindowsEncoded' /\ AllEncoded'
  BY <1>1, <1>3 DEF FeaturesCurrent, WindowsEncoded, AllEncoded
<1> QED
  BY <1>2, <1>4 DEF StreamInv

\* The invariant holds of the stream whatever it is called for, and in whatever
\* pieces.
THEOREM StreamInvariant == StreamSpec => []StreamInv
<1>1. StreamInit => StreamInv
  BY InitEstablishes
<1>2. ASSUME StreamInv, [StreamNext]_streamVars
      PROVE  StreamInv'
  <2>1. CASE \E n \in Pieces : AcceptPcm(n)
    BY <1>2, <2>1, AudioArrives
  <2>2. CASE InputFinished
    BY <1>2, <2>2, EndComes
  <2>3. CASE \E out \in Outputs : RunChunk(out)
    BY <1>2, <2>3, WindowTaken
  <2>4. CASE ProcessDone
    BY <1>2, <2>4, LoopEnds
  <2>5. CASE Reset
    BY <1>2, <2>5, ResetClears
  <2>6. CASE UNCHANGED streamVars
    <3>1. UNCHANGED <<samples, feats, processed_lens, chunks_done, finished, chost, running, pushed, late>>
      BY <2>6 DEF streamVars, utterance
    <3>2. Count' = Count /\ Whole' = Whole /\ Features' = Features
      BY <3>1 DEF Count, Whole, Features
    <3> QED
      BY <1>2, <3>1, <3>2 DEF StreamInv, StreamTypes, FeaturesCurrent, WindowsEncoded, AllEncoded
  <2> QED
    BY <1>2, <2>1, <2>2, <2>3, <2>4, <2>5, <2>6 DEF StreamNext
<1> QED
  BY <1>1, <1>2, PTL DEF StreamSpec

\* What the server does to the stream is what the stream offers.
THEOREM ServerUsesStream == Spec => StreamSpec
<1>1. Init => StreamInit
  BY DEF Init
<1>2. [Next]_vars => [StreamNext]_streamVars
  <2> SUFFICES ASSUME [Next]_vars
               PROVE  [StreamNext]_streamVars
    OBVIOUS
  <2>1. CASE Accept \/ Start
    BY <2>1 DEF Accept, Start, StreamNext
  <2>2. CASE Close \/ EndAgain
    BY <2>2 DEF Close, EndAgain
  <2>3. CASE End
    BY <2>3 DEF End, StreamNext
  <2>4. CASE \E n \in Pieces : Binary(n)
    BY <2>4 DEF Binary, StreamNext
  <2>5. CASE \E out \in Outputs : Chunk(out)
    BY <2>5 DEF Chunk, StreamNext
  <2>6. CASE Partial \/ Final
    BY <2>6 DEF Partial, Final, StreamNext
  <2>7. CASE UNCHANGED vars
    BY <2>7 DEF vars
  <2> QED
    BY <2>1, <2>2, <2>3, <2>4, <2>5, <2>6, <2>7 DEF Next
<1> QED
  BY <1>1, <1>2, PTL DEF Spec, StreamSpec

\* The encoder of a connection has seen the windows of its utterance, cut as if
\* all of it had been there at once: the two frames the loop waits for are enough,
\* because a frame overlaps three steps beyond its own at most, and the pad takes
\* no window back.
THEOREM Online == Spec => []StreamIsOnline
<1>1. StreamInv => StreamIsOnline
  <2> SUFFICES ASSUME StreamInv, ~late
               PROVE  chost = [i \in 1 .. chunks_done |-> OnlineWindow(Features, i)]
    BY DEF StreamIsOnline, Features, Whole
  <2> QED
    BY DEF StreamInv, WindowsEncoded
<1> QED
  BY <1>1, ServerUsesStream, StreamInvariant, PTL

\* An utterance that has ended has been encoded to its last frame: what remains
\* after the last window is less than a hop, and the pad is no shorter than that.
THEOREM AllHeard == Spec => []NothingUnheard
<1>1. StreamInv => NothingUnheard
  <2> SUFFICES ASSUME StreamInv, finished, running = "idle", ~late
               PROVE  (chunks_done - 1) * Shift + T >= Count
    BY DEF NothingUnheard, Count
  <2>1. chunks_done * Shift + T > Count + Pad
    BY DEF StreamInv, AllEncoded
  <2>2. chunks_done \in Nat /\ Count \in Nat
    BY CountIsNat DEF StreamInv, StreamTypes, Count
  <2> DEFINE here == chunks_done * Shift
             before == (chunks_done - 1) * Shift
  <2>3. here \in Int /\ before = here - Shift
    BY <2>2, OneShift
  <2> HIDE DEF here, before
  <2>4. here + T > Count + Pad
    BY <2>1 DEF here
  <2>5. before + T >= Count
    BY <2>2, <2>3, <2>4, StreamAssumption
  <2> QED
    BY <2>5 DEF before
<1> QED
  BY <1>1, ServerUsesStream, StreamInvariant, PTL

-----------------------------------------------------------------------------
(* The text the client has.                                                *)

\* Spelling one more token, as a function.
Spell == [p \in Seq(Tokens) \X Tokens |-> Spelled(p[1], p[2])]

\* What that function is, and its type.
LEMMA SpellIs ==
    /\ Spell \in [Seq(Tokens) \X Tokens -> Seq(Tokens)]
    /\ \A text \in Seq(Tokens), id \in Tokens : Spell[<<text, id>>] = Spelled(text, id)
<1>1. \A text \in Seq(Tokens), id \in Tokens : Spelled(text, id) \in Seq(Tokens)
  BY DEF Spelled
<1> QED
  BY <1>1, Zenon DEF Spell

\* The text of some tokens is a fold, where detok is written as a loop.
LEMMA DetokFolds ==
    ASSUME NEW ids \in Seq(Tokens)
    PROVE  \E f \in [0 .. Len(ids) -> Seq(Tokens)] :
              Folds(f, ids, <<>>, Spell) /\ Detok(ids) = f[Len(ids)]
<1>1. PICK f \in [0 .. Len(ids) -> Seq(Tokens)] : Folds(f, ids, <<>>, Spell)
  <2>1. <<>> \in Seq(Tokens)
    OBVIOUS
  <2> QED
    BY <2>1, SpellIs, FoldExists, Zenon
<1>2. ASSUME NEW n \in 1 .. Len(ids) PROVE f[n] = Spelled(f[n - 1], ids[n])
  <2>1. ids[n] \in Tokens /\ f[n - 1] \in Seq(Tokens)
    OBVIOUS
  <2>2. f[n] = Spell[<<f[n - 1], ids[n]>>]
    BY <1>1 DEF Folds, FoldsTo
  <2> QED
    BY <2>1, <2>2, SpellIs, Zenon
<1>3. f[0] = <<>>
  BY <1>1 DEF Folds, FoldsTo
<1>4. f = [n \in 0 .. Len(ids) |-> IF n = 0 THEN <<>> ELSE Spelled(f[n - 1], ids[n])]
  BY <1>2, <1>3
<1> DEFINE s[n \in 0 .. Len(ids)] == IF n = 0 THEN <<>> ELSE Spelled(s[n - 1], ids[n])
<1>5. s = [n \in 0 .. Len(ids) |-> IF n = 0 THEN <<>> ELSE Spelled(s[n - 1], ids[n])]
  BY <1>4, Zenon
<1>6. Detok(ids) = s[Len(ids)]
  BY DEF Detok
<1> HIDE DEF s
<1>7. s[0] = <<>> /\ \A n \in 1 .. Len(ids) : s[n] = Spelled(s[n - 1], ids[n])
  <2>1. 0 \in 0 .. Len(ids)
    OBVIOUS
  <2>2. \A n \in 1 .. Len(ids) : n \in 0 .. Len(ids) /\ n # 0
    OBVIOUS
  <2> QED
    BY <1>5, <2>1, <2>2, Zenon
<1>8. \A n \in 1 .. Len(ids) : f[n - 1] = s[n - 1] => f[n] = s[n]
  BY <1>2, <1>7, Zenon
<1>9. f[0] = s[0] /\ Len(ids) \in Nat
  BY <1>3, <1>7
<1>10. f[Len(ids)] = s[Len(ids)]
  BY <1>8, <1>9, Agree, Zenon
<1> QED
  BY <1>1, <1>6, <1>10

\* A text is a sequence of tokens.
LEMMA DetokType ==
    ASSUME NEW ids \in Seq(Tokens)
    PROVE  Detok(ids) \in Seq(Tokens)
<1>1. Len(ids) \in 0 .. Len(ids)
  OBVIOUS
<1> QED
  BY <1>1, DetokFolds

\* No tokens have no text.
LEMMA DetokEmpty == Detok(<<>>) = <<>>
<1>1. <<>> \in Seq(Tokens) /\ Len(<<>>) = 0
  OBVIOUS
<1>2. PICK f : Folds(f, <<>>, <<>>, Spell) /\ Detok(<<>>) = f[Len(<<>>)]
  BY <1>1, DetokFolds
<1> QED
  BY <1>1, <1>2 DEF Folds, FoldsTo

\* One token more adds its text, if it has one.
LEMMA DetokAppend ==
    ASSUME NEW ids \in Seq(Tokens), NEW id \in Tokens
    PROVE  Detok(Append(ids, id)) = Spelled(Detok(ids), id)
<1>1. Append(ids, id) \in Seq(Tokens) /\ Len(ids) \in 0 .. Len(ids)
  BY AppendIs
<1>2. PICK f : Folds(f, ids, <<>>, Spell) /\ Detok(ids) = f[Len(ids)] /\ f[Len(ids)] \in Seq(Tokens)
  BY <1>1, DetokFolds
<1>3. PICK g : /\ Folds(g, Append(ids, id), <<>>, Spell)
               /\ Detok(Append(ids, id)) = g[Len(Append(ids, id))]
  BY <1>1, DetokFolds, Zenon
<1>4. g[Len(Append(ids, id))] = Spell[<<f[Len(ids)], id>>]
  <2>1. Folds(f, ids, <<>>, Spell) /\ Folds(g, Append(ids, id), <<>>, Spell)
    BY <1>2, <1>3, Zenon
  <2> QED
    BY <2>1, FoldsAppend
<1>5. Spell[<<f[Len(ids)], id>>] = Spelled(f[Len(ids)], id)
  BY <1>2, SpellIs, Zenon
<1> QED
  BY <1>2, <1>3, <1>4, <1>5, Zenon

\* A text that goes on where another ends.
GoesOn(text, longer) == \E more \in Seq(Tokens) : longer = text \o more

\* To go on is reflexive and transitive, and both ways it is to be the same.
LEMMA GoesOnSame ==
    ASSUME NEW text \in Seq(Tokens)
    PROVE  GoesOn(text, text)
<1>1. <<>> \in Seq(Tokens) /\ text = text \o <<>>
  OBVIOUS
<1> QED
  BY <1>1, Zenon DEF GoesOn

LEMMA GoesOnFurther ==
    ASSUME NEW a \in Seq(Tokens), NEW b, NEW c, GoesOn(a, b), GoesOn(b, c)
    PROVE  GoesOn(a, c)
<1>1. PICK y \in Seq(Tokens) : b = a \o y
  BY DEF GoesOn
<1>2. PICK z \in Seq(Tokens) : c = b \o z
  BY DEF GoesOn
<1>3. y \o z \in Seq(Tokens) /\ (a \o y) \o z = a \o (y \o z)
  OBVIOUS
<1> QED
  BY <1>1, <1>2, <1>3, Zenon DEF GoesOn

LEMMA GoesOnBack ==
    ASSUME NEW a \in Seq(Tokens), NEW b, GoesOn(a, b), GoesOn(b, a)
    PROVE  a = b
<1>1. PICK y \in Seq(Tokens) : b = a \o y
  BY DEF GoesOn
<1>2. PICK z \in Seq(Tokens) : a = b \o z
  BY DEF GoesOn
<1>3. b \in Seq(Tokens) /\ Len(b) = Len(a) + Len(y) /\ Len(a) = Len(b) + Len(z)
  BY <1>1, <1>2
<1>4. Len(y) = 0
  BY <1>3
<1>5. y = <<>>
  BY <1>4
<1> QED
  BY <1>1, <1>5

\* The text of more tokens goes on where the text of the first ends.
LEMMA DetokGrows ==
    ASSUME NEW ids \in Seq(Tokens), NEW out \in Seq(Tokens)
    PROVE  GoesOn(Detok(ids), Detok(ids \o out))
<1> DEFINE good == {q \in Seq(Tokens) : GoesOn(Detok(ids), Detok(ids \o q))}
<1>1. <<>> \in good
  <2>1. <<>> \in Seq(Tokens) /\ ids \o <<>> = ids
    OBVIOUS
  <2>2. GoesOn(Detok(ids), Detok(ids))
    BY DetokType, GoesOnSame, Zenon
  <2> QED
    BY <2>1, <2>2, Zenon
<1>2. ASSUME NEW q \in Seq(Tokens), NEW id \in Tokens, q \in good
      PROVE  Append(q, id) \in good
  <2>1. Append(q, id) \in Seq(Tokens) /\ ids \o q \in Seq(Tokens)
    OBVIOUS
  <2>2. ids \o Append(q, id) = Append(ids \o q, id)
    BY AppendConcat
  <2>3. Detok(Append(ids \o q, id)) = Spelled(Detok(ids \o q), id)
    BY <2>1, DetokAppend, Zenon
  <2>4. Detok(ids \o q) \in Seq(Tokens)
    BY <2>1, DetokType, Zenon
  <2>5. GoesOn(Detok(ids \o q), Spelled(Detok(ids \o q), id))
    <3> DEFINE text == Detok(ids \o q)
    <3>1. text \in Seq(Tokens)
      BY <2>4
    <3> HIDE DEF text
    <3>2. <<id>> \in Seq(Tokens) /\ Append(text, id) = text \o <<id>>
      BY <3>1
    <3>3. GoesOn(text, Append(text, id)) /\ GoesOn(text, text)
      BY <3>1, <3>2, GoesOnSame, Zenon DEF GoesOn
    <3>4. GoesOn(text, Spelled(text, id))
      BY <3>3, Zenon DEF Spelled
    <3> QED
      BY <3>4 DEF text
  <2>6. GoesOn(Detok(ids), Detok(ids \o Append(q, id)))
    <3>1. Detok(ids) \in Seq(Tokens) /\ GoesOn(Detok(ids), Detok(ids \o q))
      BY <1>2, DetokType
    <3> QED
      BY <3>1, <2>2, <2>3, <2>5, GoesOnFurther, Zenon
  <2> QED
    BY <2>1, <2>6, Zenon
<1> HIDE DEF good
<1>3. out \in good
  BY <1>1, <1>2, SequenceInduction, Zenon
<1> QED
  BY <1>3 DEF good

\* What was sent as a partial is where the text that was shown begins, and that
\* is where the text recognized so far begins; between messages it is all of it.
TextInv ==
    /\ hyp \in Seq(Tokens) /\ last_partial \in Seq(Tokens) /\ shown \in Seq(Tokens)
    /\ GoesOn(last_partial, shown)
    /\ GoesOn(shown, Detok(hyp))
    /\ running = "idle" => shown = Detok(hyp)

\* Nothing was shown of no tokens: where a stream begins.
LEMMA TextBegins ==
    ASSUME NEW h, NEW p, NEW w, h = <<>>, p = <<>>, w = <<>>
    PROVE  /\ h \in Seq(Tokens) /\ p \in Seq(Tokens) /\ w \in Seq(Tokens)
           /\ GoesOn(p, w) /\ GoesOn(w, Detok(h)) /\ w = Detok(h)
<1>1. <<>> \in Seq(Tokens)
  OBVIOUS
<1> QED
  BY <1>1, DetokEmpty, GoesOnSame, Zenon

\* A window adds to the text.
LEMMA ChunkShows ==
    ASSUME TextInv, NEW out \in Outputs, Chunk(out)
    PROVE  TextInv'
<1>1. /\ running # "idle" /\ running' = running /\ hyp' = hyp \o out
      /\ last_partial' = last_partial /\ shown' = shown
  BY DEF Chunk, RunChunk
<1>2. out \in Seq(Tokens) /\ hyp \in Seq(Tokens) /\ shown \in Seq(Tokens)
  BY OutputsAssumption, Zenon DEF TextInv
<1>3. hyp' \in Seq(Tokens)
  BY <1>1, <1>2
<1>4. GoesOn(Detok(hyp), Detok(hyp \o out))
  BY <1>2, DetokGrows, Zenon
<1>5. GoesOn(shown, Detok(hyp \o out))
  BY <1>2, <1>4, GoesOnFurther, Zenon DEF TextInv
<1> QED
  BY <1>1, <1>3, <1>5, Zenon DEF TextInv

\* A partial is not sent if its text was sent last as one, or as a final since:
\* then there is nothing more than was shown.
LEMMA PartialShows ==
    ASSUME TextInv, Partial
    PROVE  TextInv'
<1>1. hyp' = hyp
  BY DEF Partial, ProcessDone, utterance
<1>2. Detok(hyp) \in Seq(Tokens)
  BY DetokType DEF TextInv
<1>3. CASE Detok(hyp) # last_partial
  <2>1. last_partial' = Detok(hyp) /\ shown' = Detok(hyp)
    BY <1>3 DEF Partial
  <2>2. GoesOn(Detok(hyp), Detok(hyp))
    BY <1>2, GoesOnSame, Zenon
  <2> QED
    BY <1>1, <1>2, <2>1, <2>2, Zenon DEF TextInv
<1>4. CASE Detok(hyp) = last_partial
  <2>1. last_partial' = last_partial /\ shown' = shown
    BY <1>4 DEF Partial
  <2>2. shown = Detok(hyp)
    <3>1. shown \in Seq(Tokens) /\ GoesOn(Detok(hyp), shown) /\ GoesOn(shown, Detok(hyp))
      BY <1>4, Zenon DEF TextInv
    <3> QED
      BY <3>1, GoesOnBack, Zenon
  <2> QED
    BY <1>1, <2>1, <2>2, Zenon DEF TextInv
<1> QED
  BY <1>3, <1>4

\* A final is sent in any case.
LEMMA FinalShows ==
    ASSUME TextInv, hyp' = hyp, last_partial' = last_partial, shown' = Detok(hyp)
    PROVE  TextInv'
<1>1. Detok(hyp) \in Seq(Tokens) /\ last_partial \in Seq(Tokens)
  BY DetokType DEF TextInv
<1>2. GoesOn(last_partial, Detok(hyp))
  BY <1>1, GoesOnFurther, Zenon DEF TextInv
<1>3. GoesOn(Detok(hyp), Detok(hyp))
  BY <1>1, GoesOnSame, Zenon
<1> QED
  BY <1>1, <1>2, <1>3, Zenon DEF TextInv

\* The invariant of the texts.
THEOREM TextInvariant == Spec => []TextInv
<1>1. Init => TextInv
  <2> SUFFICES ASSUME Init PROVE TextInv
    OBVIOUS
  <2>1. hyp = <<>> /\ last_partial = <<>> /\ shown = <<>>
    BY DEF Init, StreamInit
  <2> QED
    BY <2>1, TextBegins, Zenon DEF TextInv
<1>2. ASSUME TextInv, [Next]_vars PROVE TextInv'
  <2>1. CASE Accept \/ Start
    <3>1. hyp' = <<>> /\ last_partial' = <<>> /\ shown' = <<>>
      BY <2>1 DEF Accept, Start, Reset
    <3> QED
      BY <3>1, TextBegins, Zenon DEF TextInv
  <2>2. CASE Close \/ UNCHANGED vars
    <3>1. UNCHANGED <<hyp, running, last_partial, shown>>
      BY <2>2 DEF Close, vars, streamVars, utterance
    <3> QED
      BY <1>2, <3>1, Zenon DEF TextInv
  <2>3. CASE End \/ \E n \in Pieces : Binary(n)
    <3>1. UNCHANGED <<hyp, last_partial, shown>> /\ running' # "idle"
      BY <2>3 DEF End, Binary, InputFinished, AcceptPcm
    <3> QED
      BY <1>2, <3>1, Zenon DEF TextInv
  <2>4. CASE \E out \in Outputs : Chunk(out)
    BY <1>2, <2>4, ChunkShows
  <2>5. CASE Partial
    BY <1>2, <2>5, PartialShows
  <2>6. CASE Final \/ EndAgain
    <3>1. hyp' = hyp /\ last_partial' = last_partial /\ shown' = Detok(hyp)
      BY <2>6 DEF Final, EndAgain, ProcessDone, streamVars, utterance
    <3> QED
      BY <1>2, <3>1, FinalShows
  <2> QED
    BY <1>2, <2>1, <2>2, <2>3, <2>4, <2>5, <2>6 DEF Next
<1> QED
  BY <1>1, <1>2, PTL DEF Spec

\* Between messages the client has the text of its utterance, all of it and no
\* more, although a partial is only sent when it differs from the last partial,
\* which a final does not count as: ClientUpToDate.
THEOREM TextsArrive == Spec => []ClientUpToDate
<1>1. TextInv => ClientUpToDate
  BY DEF TextInv, ClientUpToDate
<1> QED
  BY <1>1, TextInvariant, PTL
=============================================================================
