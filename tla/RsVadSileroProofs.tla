-------------------------- MODULE RsVadSileroProofs --------------------------
(***************************************************************************)
(* Proofs about the Silero handle of the C API, for every window, every    *)
(* set of thresholds above one percent and every cut of the audio: it      *)
(* takes whole windows of the stream, its opinion on speech never          *)
(* contradicts the model's own, and its segments come in order.            *)
(***************************************************************************)
EXTENDS RsVadSilero, SequenceTheorems, TLAPS

-----------------------------------------------------------------------------
(* The inductive invariant.                                                *)

\* The types the arithmetic needs.
Counters ==
    /\ pending \in Nat /\ samples_in \in Nat /\ pushed \in Nat
    /\ silero_frame_idx \in Nat /\ failed \in Nat
    /\ current_sample \in Nat /\ temp_end_sample \in Nat

Flags ==
    /\ in_speech \in BOOLEAN /\ triggered \in BOOLEAN
    /\ call \in {"none", "push", "detect"}

\* The two thresholds always belong together.
ThresholdsPaired ==
    /\ threshold \in Thresholds
    /\ silero_exit_threshold = ExitFor(threshold)

IInv ==
    /\ Counters
    /\ Flags
    /\ ThresholdsPaired
    /\ WindowsOfStream
    /\ HandleWithinModel

-----------------------------------------------------------------------------
(* Arithmetic.                                                             *)

\* One more window.
LEMMA OneMore ==
    ASSUME NEW k \in Nat
    PROVE  (k + 1) * Window = k * Window + Window
BY SileroAssumption

\* The exit lies at or below the entry, and both are numbers.
LEMMA ExitBelowEntry ==
    ASSUME NEW t \in Thresholds
    PROVE  /\ t \in Int /\ ExitFor(t) \in Int
           /\ ExitFor(t) <= t
<1>1. t \in 1 .. 100
  BY SileroAssumption
<1> QED
  BY <1>1 DEF ExitFor, Larger

\* Every probability is a number.
LEMMA ProbIsNumber == \A p \in Probs : p \in Int
BY SileroAssumption

-----------------------------------------------------------------------------
(* The windows.                                                            *)

\* A window that is taken moves from pending to samples_in.
LEMMA WindowMoves ==
    ASSUME Counters, WindowTaken, samples_in + pending = pushed, UNCHANGED pushed
    PROVE  /\ pending' \in Nat /\ samples_in' \in Nat /\ pushed' \in Nat
           /\ samples_in' + pending' = pushed'
           /\ samples_in' = samples_in + Window
BY SileroAssumption DEF Counters, WindowTaken

\* The handle and the model hear the same window.
LEMMA OpinionsAgree ==
    ASSUME Counters, Flags, ThresholdsPaired, HandleWithinModel, NEW p \in Probs,
           Iterate(p), in_speech' = NowSpeech(p)
    PROVE  /\ HandleWithinModel'
           /\ in_speech' \in BOOLEAN /\ triggered' \in BOOLEAN
           /\ temp_end_sample' \in Nat
<1>1. p \in Int /\ threshold \in Int /\ ExitFor(threshold) \in Int /\ ExitFor(threshold) <= threshold
  BY ProbIsNumber, ExitBelowEntry DEF ThresholdsPaired
<1>2. current_sample' \in Nat
  BY SileroAssumption DEF Iterate, Counters
<1>3. in_speech' \in BOOLEAN
  <2>1. (p >= silero_exit_threshold) \in BOOLEAN /\ (p >= threshold) \in BOOLEAN
    BY <1>1 DEF ThresholdsPaired
  <2> QED
    BY <2>1, Zenon DEF NowSpeech
<1>4. CASE p >= threshold
  <2>1. triggered' = TRUE /\ temp_end_sample' = 0
    BY <1>4 DEF Iterate
  <2> QED
    BY <1>3, <2>1 DEF HandleWithinModel
<1>5. CASE p < threshold /\ p >= ExitFor(threshold)
  <2>1. ~(p >= threshold) /\ ~(p < ExitFor(threshold))
    BY <1>1, <1>5
  <2>2. triggered' = triggered /\ temp_end_sample' = temp_end_sample
    BY <2>1 DEF Iterate, Flags
  <2>3. in_speech' => in_speech
    BY <2>1, Zenon DEF NowSpeech
  <2> QED
    BY <1>3, <2>2, <2>3 DEF HandleWithinModel, Flags, Counters
<1>6. CASE p < threshold /\ p < ExitFor(threshold)
  <2>1. ~(p >= threshold) /\ ~(p >= ExitFor(threshold))
    BY <1>1, <1>6
  <2>2. ~in_speech'
    BY <2>1, Zenon DEF NowSpeech, ThresholdsPaired
  <2>3. triggered' \in BOOLEAN
    BY DEF Iterate
  <2>4. temp_end_sample' \in Nat
    BY <1>2 DEF Iterate, Counters
  <2> QED
    BY <1>3, <2>2, <2>3, <2>4, Zenon DEF HandleWithinModel
<1> QED
  BY <1>1, <1>4, <1>5, <1>6

-----------------------------------------------------------------------------
(* Every step keeps the invariant.                                         *)

\* A window with a result.
LEMMA ProcessWindowSafe ==
    ASSUME IInv, NEW p \in Probs, ProcessWindow(p)
    PROVE  IInv'
<1> USE SileroAssumption
<1>1. WindowTaken /\ UNCHANGED <<pushed, thresholds, failed, call>>
  BY DEF ProcessWindow
<1>2. Iterate(p) /\ in_speech' = NowSpeech(p)
  BY DEF ProcessWindow
<1>3. silero_frame_idx' = silero_frame_idx + 1
  BY DEF ProcessWindow
<1>4. current_sample' = current_sample + Window
  BY <1>2 DEF Iterate
<1>5. /\ HandleWithinModel'
      /\ in_speech' \in BOOLEAN /\ triggered' \in BOOLEAN
      /\ temp_end_sample' \in Nat
  BY <1>2, OpinionsAgree DEF IInv
<1>6. /\ pending' \in Nat /\ samples_in' \in Nat /\ pushed' \in Nat
      /\ samples_in' + pending' = pushed'
      /\ samples_in' = samples_in + Window
  BY <1>1, WindowMoves DEF IInv, WindowsOfStream
<1>7. Counters'
  BY <1>1, <1>3, <1>4, <1>5, <1>6 DEF IInv, Counters
<1>8. Flags' /\ ThresholdsPaired'
  BY <1>1, <1>5 DEF IInv, Flags, ThresholdsPaired, thresholds
<1>9. WindowsOfStream'
  <2>1. ~Idle'
    BY <1>1 DEF WindowTaken, Idle
  <2>2. (silero_frame_idx + failed + 1) * Window = (silero_frame_idx + failed) * Window + Window
    BY OneMore DEF IInv, Counters
  <2>3. silero_frame_idx' + failed' = silero_frame_idx + failed + 1
    BY <1>1, <1>3 DEF IInv, Counters
  <2>4. samples_in' = (silero_frame_idx' + failed') * Window
    BY <1>6, <2>2, <2>3 DEF IInv, WindowsOfStream
  <2>5. current_sample' = silero_frame_idx' * Window
    BY <1>3, <1>4, OneMore DEF IInv, Counters, WindowsOfStream
  <2> QED
    BY <1>6, <2>1, <2>4, <2>5 DEF WindowsOfStream
<1> QED
  BY <1>5, <1>7, <1>8, <1>9 DEF IInv

\* A window the network fails on.
LEMMA EncodeFailsSafe ==
    ASSUME IInv, EncodeFails
    PROVE  IInv'
<1> USE SileroAssumption
<1>1. WindowTaken /\ failed' = failed + 1
  BY DEF EncodeFails
<1>2. UNCHANGED <<pushed, threshold, silero_exit_threshold, in_speech, silero_frame_idx,
                  triggered, temp_end_sample, current_sample, call>>
  BY DEF EncodeFails, thresholds, handle, iterator
<1>3. /\ pending' \in Nat /\ samples_in' \in Nat /\ pushed' \in Nat
      /\ samples_in' + pending' = pushed'
      /\ samples_in' = samples_in + Window
  BY <1>1, <1>2, WindowMoves DEF IInv, WindowsOfStream
<1>4. Counters' /\ Flags' /\ ThresholdsPaired'
  BY <1>1, <1>2, <1>3 DEF IInv, Counters, Flags, ThresholdsPaired
<1>5. WindowsOfStream'
  <2>1. ~Idle'
    BY <1>1, <1>2 DEF WindowTaken, Idle
  <2>2. (silero_frame_idx + failed + 1) * Window = (silero_frame_idx + failed) * Window + Window
    BY OneMore DEF IInv, Counters
  <2>3. silero_frame_idx' + failed' = silero_frame_idx + failed + 1
    BY <1>1, <1>2 DEF IInv, Counters
  <2>4. samples_in' = (silero_frame_idx' + failed') * Window
    BY <1>3, <2>2, <2>3 DEF IInv, WindowsOfStream
  <2> QED
    BY <1>2, <1>3, <2>1, <2>4 DEF IInv, WindowsOfStream
<1>6. HandleWithinModel'
  BY <1>2 DEF IInv, HandleWithinModel
<1> QED
  BY <1>4, <1>5, <1>6 DEF IInv

\* A cleared handle: everything counts from zero again.
LEMMA ClearSafe ==
    ASSUME IInv, Clear, NEW n \in Nat, pending' = n, pushed' = n,
           call' \in {"none", "push", "detect"}, call' = "none" => n < Window
    PROVE  IInv'
<1> USE SileroAssumption DEF IInv, Clear
<1>1. Counters' /\ Flags' /\ ThresholdsPaired'
  BY DEF Counters, Flags, ThresholdsPaired, thresholds
<1>2. WindowsOfStream'
  BY DEF WindowsOfStream, Idle
<1>3. HandleWithinModel'
  BY DEF HandleWithinModel
<1> QED
  BY <1>1, <1>2, <1>3

\* A call that returns, or a drain: nothing that is counted changes, and a call
\* returns when no window is left.
LEMMA NothingHeard ==
    ASSUME IInv, UNCHANGED <<pending, samples_in, pushed, thresholds, silero_frame_idx, failed,
                             iterator>>,
           in_speech' \in {in_speech, FALSE},
           call' \in {"none", "push", "detect"}, call' = "none" => pending < Window
    PROVE  IInv'
<1> USE DEF IInv, thresholds, iterator
<1>1. Counters' /\ Flags' /\ ThresholdsPaired'
  BY DEF Counters, Flags, ThresholdsPaired
<1>2. WindowsOfStream'
  BY DEF WindowsOfStream, Idle
<1>3. HandleWithinModel'
  BY DEF HandleWithinModel, Flags
<1> QED
  BY <1>1, <1>2, <1>3

\* The invariant holds at first and through every step.
THEOREM Invariance == Spec => []IInv
<1>1. Init => IInv
  <2> SUFFICES ASSUME Init PROVE IInv
    OBVIOUS
  <2> USE SileroAssumption DEF Init
  <2>1. Counters /\ Flags /\ ThresholdsPaired
    BY DEF Counters, Flags, ThresholdsPaired
  <2>2. WindowsOfStream /\ HandleWithinModel
    BY DEF WindowsOfStream, HandleWithinModel, Idle
  <2> QED
    BY <2>1, <2>2 DEF IInv
<1>2. IInv /\ [Next]_vars => IInv'
  <2> SUFFICES ASSUME IInv, [Next]_vars PROVE IInv'
    OBVIOUS
  <2>1. ASSUME NEW t \in Thresholds, SetThreshold(t)
        PROVE  IInv'
    <3>1. Counters' /\ Flags'
      BY <2>1 DEF IInv, SetThreshold, Counters, Flags, handle, iterator
    <3>2. ThresholdsPaired'
      BY <2>1 DEF SetThreshold, ThresholdsPaired, ExitFor
    <3>3. WindowsOfStream' /\ HandleWithinModel'
      BY <2>1 DEF IInv, SetThreshold, WindowsOfStream, HandleWithinModel, Idle, handle, iterator
    <3> QED
      BY <3>1, <3>2, <3>3 DEF IInv
  <2>2. ASSUME NEW n \in ChunkSizes, PushAudio(n)
        PROVE  IInv'
    <3>1. n \in Nat
      BY SileroAssumption
    <3>2. Counters' /\ Flags' /\ ThresholdsPaired'
      BY <2>2, <3>1 DEF IInv, PushAudio, Counters, Flags, ThresholdsPaired, thresholds, handle,
                        iterator
    <3>3. WindowsOfStream' /\ HandleWithinModel'
      BY <2>2, <3>1 DEF IInv, PushAudio, Counters, WindowsOfStream, HandleWithinModel, Idle,
                        handle, iterator
    <3> QED
      BY <3>2, <3>3 DEF IInv
  <2>3. ASSUME NEW n \in ChunkSizes, NEW cap \in Capacities, DetectFull(n, cap)
        PROVE  IInv'
    BY <2>3, ClearSafe, SileroAssumption DEF DetectFull
  <2>4. CASE VadReset
    BY <2>4, ClearSafe, SileroAssumption DEF VadReset, IInv, Flags, Idle
  <2>5. ASSUME NEW p \in Probs, ProcessWindow(p)
        PROVE  IInv'
    BY <2>5, ProcessWindowSafe
  <2>6. CASE EncodeFails
    BY <2>6, EncodeFailsSafe
  <2>7. CASE PushReturns
    BY <2>7, NothingHeard DEF PushReturns, handle
  <2>8. CASE DetectReturns
    BY <2>8, NothingHeard DEF DetectReturns
  <2>9. ASSUME NEW cap \in Capacities, DrainSegments(cap) \/ DrainFrames(cap)
        PROVE  IInv'
    BY <2>9, NothingHeard DEF DrainSegments, DrainFrames, handle, IInv, Flags, WindowsOfStream,
                              Idle
  <2>10. CASE UNCHANGED vars
    BY <2>10, NothingHeard DEF vars, handle, IInv, Flags, WindowsOfStream, Idle
  <2> QED
    BY <2>1, <2>2, <2>3, <2>4, <2>5, <2>6, <2>7, <2>8, <2>9, <2>10 DEF Next
<1> QED
  BY <1>1, <1>2, PTL DEF Spec

\* However a caller cuts the audio, vad_push_silero takes it in whole windows of
\* the stream, and the two counters of it part by the failed windows only.
THEOREM WholeWindows == Spec => []WindowsOfStream
<1>1. IInv => WindowsOfStream
  BY DEF IInv
<1> QED
  BY <1>1, Invariance, PTL

\* Whatever the thresholds and whenever rs_vad_set_threshold changes them, the
\* handle is in speech only while the iterator of SileroVadModel::Encode is.
THEOREM OpinionsNeverContradict == Spec => []HandleWithinModel
<1>1. IInv => HandleWithinModel
  BY DEF IInv
<1> QED
  BY <1>1, Invariance, PTL

-----------------------------------------------------------------------------
(* The order of what is reported.                                          *)

Segments == Int \X Int

\* Each of them is non-empty and ends before the next begins.
Apart(segs) ==
    /\ \A i \in DOMAIN segs : segs[i][1] < segs[i][2]
    /\ \A i \in 1 .. Len(segs) - 1 : segs[i][2] <= segs[i + 1][1]

\* All of them end by e.
EndBy(segs, e) == \A i \in DOMAIN segs : segs[i][2] <= e

\* Where what was reported has ended: before the open segment, or in the
\* windows taken.
Frontier == IF in_speech THEN seg_start_sample ELSE samples_in

OInv ==
    /\ taken \in Seq(Segments) /\ seg_q \in Seq(Segments)
    /\ capacity \in Nat /\ seg_start_sample \in Nat
    /\ in_speech => seg_start_sample < samples_in
    /\ Apart(Reported) /\ EndBy(Reported, Frontier)

\* A queue splits into what is handed over and what is kept.
LEMMA DrainSplits ==
    ASSUME NEW T, NEW q \in Seq(T), NEW n \in Nat
    PROVE  /\ Handed(q, n) \in Seq(T) /\ Kept(q, n) \in Seq(T)
           /\ Handed(q, n) \o Kept(q, n) = q
<1> DEFINE k == Smaller(n, Len(q))
<1>1. k \in 0 .. Len(q) /\ Len(q) \in Nat
  BY DEF Smaller
<1> HIDE DEF k
<1>2. SubSeq(q, 1, k) \o SubSeq(q, k + 1, Len(q)) = SubSeq(q, 1, Len(q))
  <2>1. 1 \in 1 .. Len(q) + 1 /\ k \in 1 - 1 .. Len(q) /\ Len(q) \in k .. Len(q)
    BY <1>1
  <2> QED
    BY <2>1, ConcatAdjacentSubSeq, Zenon
<1>3. SubSeq(q, 1, Len(q)) = q
  BY SubSeqFull
<1>4. SubSeq(q, 1, k) \in Seq(T) /\ SubSeq(q, k + 1, Len(q)) \in Seq(T)
  BY <1>1
<1> QED
  BY <1>2, <1>3, <1>4 DEF Handed, Kept, k

\* Draining a queue does not change what was reported.
LEMMA DrainKeeps ==
    ASSUME NEW T, NEW t \in Seq(T), NEW q \in Seq(T), NEW n \in Nat
    PROVE  (t \o Handed(q, n)) \o Kept(q, n) = t \o q /\ t \o Handed(q, n) \in Seq(T)
<1> DEFINE h == Handed(q, n)
           k == Kept(q, n)
<1>1. h \in Seq(T) /\ k \in Seq(T)
  BY DrainSplits
<1>2. h \o k = q
  BY DrainSplits
<1> HIDE DEF h, k
<1>3. (t \o h) \o k = t \o (h \o k)
  BY <1>1, ConcatAssociative
<1>4. t \o h \in Seq(T)
  BY <1>1
<1> QED
  BY <1>2, <1>3, <1>4 DEF h, k

\* A segment goes behind what was reported.
LEMMA AppendBehind ==
    ASSUME NEW T, NEW t \in Seq(T), NEW q \in Seq(T), NEW x \in T
    PROVE  t \o Append(q, x) = Append(t \o q, x) /\ t \o q \in Seq(T) /\ Append(q, x) \in Seq(T)
<1>1. <<x>> \in Seq(T) /\ Append(q, x) = q \o <<x>> /\ t \o q \in Seq(T)
  BY AppendIsConcat
<1>2. Append(t \o q, x) = (t \o q) \o <<x>>
  BY <1>1, AppendIsConcat
<1>3. (t \o q) \o <<x>> = t \o (q \o <<x>>)
  BY <1>1, ConcatAssociative
<1> QED
  BY <1>1, <1>2, <1>3

\* A segment that begins after all the others keeps them apart.
LEMMA ApartAppend ==
    ASSUME NEW q \in Seq(Segments), NEW a \in Int, NEW b \in Int,
           Apart(q), EndBy(q, a), a < b
    PROVE  Apart(Append(q, <<a, b>>)) /\ EndBy(Append(q, <<a, b>>), b)
<1> DEFINE w == Append(q, <<a, b>>)
<1>1. /\ Len(q) \in Nat /\ Len(w) = Len(q) + 1 /\ DOMAIN q = 1 .. Len(q) /\ DOMAIN w = 1 .. Len(w)
      /\ w[Len(q) + 1] = <<a, b>>
      /\ \A i \in 1 .. Len(q) : w[i] = q[i] /\ q[i] \in Segments
  BY DEF Segments
<1> HIDE DEF w
<1>2. /\ \A i \in 1 .. Len(q) : q[i][1] < q[i][2] /\ q[i][2] <= a
      /\ \A i \in 1 .. Len(q) - 1 : q[i][2] <= q[i + 1][1]
  BY <1>1 DEF Apart, EndBy
<1>3. ASSUME NEW i \in 1 .. Len(q) + 1
      PROVE  w[i][1] < w[i][2] /\ w[i][2] <= b
  <2>1. CASE i = Len(q) + 1
    BY <1>1, <2>1
  <2>2. CASE i \in 1 .. Len(q)
    BY <1>1, <1>2, <2>2 DEF Segments
  <2> QED
    BY <1>1, <2>1, <2>2
<1>4. ASSUME NEW i \in 1 .. Len(q)
      PROVE  w[i][2] <= w[i + 1][1]
  <2>1. CASE i = Len(q)
    BY <1>1, <1>2, <2>1
  <2>2. CASE i \in 1 .. Len(q) - 1
    BY <1>1, <1>2, <2>2
  <2>3. Len(q) \in Nat
    BY <1>1
  <2> QED
    BY <2>1, <2>2, <2>3
<1>5. Len(w) - 1 = Len(q) /\ DOMAIN w = 1 .. Len(q) + 1
  BY <1>1
<1>6. Apart(w) /\ EndBy(w, b)
  BY <1>3, <1>4, <1>5 DEF Apart, EndBy
<1> QED
  BY <1>6 DEF w

\* An end that bounds them stays a bound when it moves on.
LEMMA EndLater ==
    ASSUME NEW q \in Seq(Segments), NEW m \in Int, NEW n \in Int, m <= n, EndBy(q, m)
    PROVE  EndBy(q, n)
<1>1. \A i \in DOMAIN q : q[i] \in Segments
  OBVIOUS
<1> QED
  BY <1>1 DEF EndBy, Segments

\* What the invariant says is what the property says.
LEMMA OrderIsOrdered ==
    ASSUME IInv, OInv
    PROVE  SegmentsOrdered
<1>1. /\ Reported \in Seq(Segments) /\ Apart(Reported) /\ EndBy(Reported, Frontier)
      /\ seg_start_sample \in Int /\ samples_in \in Int
      /\ in_speech => seg_start_sample < samples_in
  BY DEF OInv, Reported, IInv, Counters
<1>2. Frontier \in Int /\ Frontier <= samples_in /\ (in_speech => Frontier = seg_start_sample)
  BY <1>1 DEF Frontier
<1>3. EndBy(Reported, samples_in)
  BY <1>1, <1>2, EndLater
<1>4. Reported # <<>> => Last(Reported)[2] <= Frontier
  <2>1. ASSUME Reported # <<>>
        PROVE  Len(Reported) \in DOMAIN Reported
    BY <1>1, <2>1
  <2> QED
    BY <1>1, <2>1 DEF EndBy, Last
<1> QED
  BY <1>1, <1>2, <1>3, <1>4 DEF SegmentsOrdered, Apart, EndBy

\* While nothing is reported the frontier only moves on.
LEMMA NothingReported ==
    ASSUME OInv, UNCHANGED <<taken, seg_q>>, capacity' \in Nat, seg_start_sample' \in Nat,
           in_speech' => seg_start_sample' < samples_in',
           Frontier \in Int, Frontier' \in Int, Frontier <= Frontier'
    PROVE  OInv'
<1>1. Reported' = Reported /\ Reported \in Seq(Segments)
  BY DEF OInv, Reported
<1>2. EndBy(Reported, Frontier')
  BY <1>1, EndLater DEF OInv
<1>3. (Apart(Reported))' /\ (EndBy(Reported, Frontier))'
  BY <1>1, <1>2 DEF OInv
<1> QED
  BY <1>3 DEF OInv

\* The open segment ends at the windows taken and goes behind the others.
LEMMA OpenSegmentEnds ==
    ASSUME OInv, in_speech, samples_in \in Nat, NEW e \in Nat, samples_in <= e
    PROVE  /\ <<seg_start_sample, e>> \in Segments
           /\ Append(seg_q, <<seg_start_sample, e>>) \in Seq(Segments)
           /\ taken \o Append(seg_q, <<seg_start_sample, e>>) \in Seq(Segments)
           /\ Apart(taken \o Append(seg_q, <<seg_start_sample, e>>))
           /\ EndBy(taken \o Append(seg_q, <<seg_start_sample, e>>), e)
<1>1. /\ taken \in Seq(Segments) /\ seg_q \in Seq(Segments) /\ seg_start_sample \in Int
      /\ seg_start_sample < e /\ Apart(Reported) /\ EndBy(Reported, seg_start_sample)
  BY DEF OInv, Frontier
<1>2. <<seg_start_sample, e>> \in Segments
  BY <1>1 DEF Segments
<1>3. /\ taken \o Append(seg_q, <<seg_start_sample, e>>) = Append(Reported, <<seg_start_sample, e>>)
      /\ Reported \in Seq(Segments) /\ Append(seg_q, <<seg_start_sample, e>>) \in Seq(Segments)
  BY <1>1, <1>2, AppendBehind DEF Reported
<1>4. /\ Apart(Append(Reported, <<seg_start_sample, e>>))
      /\ EndBy(Append(Reported, <<seg_start_sample, e>>), e)
  BY <1>1, <1>3, ApartAppend
<1>5. Append(Reported, <<seg_start_sample, e>>) \in Seq(Segments)
  BY <1>2, <1>3
<1> QED
  BY <1>2, <1>3, <1>4, <1>5

\* A window opens a segment at its start, or ends the open one at its end.
LEMMA WindowReportsInOrder ==
    ASSUME IInv, OInv, NEW p \in Probs, ProcessWindow(p)
    PROVE  OInv'
<1>1. /\ samples_in \in Nat /\ samples_in' \in Nat /\ samples_in < samples_in'
      /\ taken' = taken /\ capacity' = capacity /\ capacity \in Nat
      /\ in_speech \in BOOLEAN /\ seg_start_sample \in Nat
      /\ in_speech => seg_start_sample < samples_in
  BY SileroAssumption DEF ProcessWindow, WindowTaken, IInv, Counters, Flags, OInv
<1>2. in_speech' \in BOOLEAN
  BY ProcessWindowSafe DEF IInv, Flags
<1>3. CASE in_speech /\ ~in_speech'
  <2>1. /\ seg_q' = Append(seg_q, <<seg_start_sample, samples_in'>>)
        /\ seg_start_sample' = seg_start_sample
    BY <1>3 DEF ProcessWindow
  <2>2. samples_in <= samples_in'
    BY <1>1
  <2>3. /\ seg_q' \in Seq(Segments) /\ Reported' = taken \o seg_q'
        /\ Apart(taken \o seg_q') /\ EndBy(taken \o seg_q', samples_in')
    BY <1>1, <1>3, <2>1, <2>2, OpenSegmentEnds DEF Reported
  <2>4. Frontier' = samples_in'
    BY <1>3 DEF Frontier
  <2>5. (Apart(Reported))' /\ (EndBy(Reported, Frontier))'
    BY <2>3, <2>4
  <2>6. taken' \in Seq(Segments)
    BY <1>1 DEF OInv
  <2> QED
    BY <1>1, <1>3, <2>1, <2>3, <2>5, <2>6 DEF OInv
<1>4. CASE ~(in_speech /\ ~in_speech')
  <2>1. seg_q' = seg_q /\ seg_start_sample' = IF ~in_speech /\ in_speech' THEN samples_in
                                              ELSE seg_start_sample
    BY <1>4 DEF ProcessWindow
  <2>2. /\ Frontier \in Int /\ Frontier' \in Int /\ Frontier <= Frontier'
        /\ seg_start_sample' \in Nat /\ (in_speech' => seg_start_sample' < samples_in')
    BY <1>1, <1>2, <1>4, <2>1 DEF Frontier
  <2> QED
    BY <1>1, <2>1, <2>2, NothingReported
<1> QED
  BY <1>3, <1>4

\* A one-shot call ends the open segment and hands over what fits.
LEMMA DetectReportsInOrder ==
    ASSUME IInv, OInv, DetectReturns
    PROVE  OInv'
<1> DEFINE all == IF in_speech THEN Append(seg_q, <<seg_start_sample, samples_in>>) ELSE seg_q
<1>1. /\ taken' = taken \o Handed(all, capacity) /\ seg_q' = Kept(all, capacity)
      /\ in_speech' = FALSE /\ capacity' = 0 /\ seg_start_sample' = seg_start_sample
      /\ samples_in' = samples_in
  BY DEF DetectReturns
<1>2. /\ taken \in Seq(Segments) /\ seg_q \in Seq(Segments) /\ capacity \in Nat
      /\ samples_in \in Nat /\ seg_start_sample \in Nat
  BY DEF OInv, IInv, Counters
<1>3. all \in Seq(Segments) /\ Apart(taken \o all) /\ EndBy(taken \o all, samples_in)
  <2>1. CASE in_speech
    <3>1. all = Append(seg_q, <<seg_start_sample, samples_in>>)
      BY <2>1
    <3>2. samples_in <= samples_in
      BY <1>2
    <3> HIDE DEF all
    <3> QED
      BY <1>2, <2>1, <3>1, <3>2, OpenSegmentEnds
  <2>2. CASE ~in_speech
    BY <1>2, <2>2 DEF OInv, Reported, Frontier
  <2> QED
    BY <2>1, <2>2
<1> HIDE DEF all
<1>4. taken' \in Seq(Segments) /\ Reported' = taken \o all
  BY <1>1, <1>2, <1>3, DrainKeeps DEF Reported
<1>5. seg_q' \in Seq(Segments)
  BY <1>1, <1>2, <1>3, DrainSplits
<1>6. Frontier' = samples_in
  BY <1>1 DEF Frontier
<1>7. (Apart(Reported))' /\ (EndBy(Reported, Frontier))'
  BY <1>3, <1>4, <1>6
<1> QED
  BY <1>1, <1>2, <1>4, <1>5, <1>7 DEF OInv

\* With nothing reported there is nothing out of order.
LEMMA EmptyInOrder ==
    ASSUME Clear, capacity' \in Nat
    PROVE  OInv'
<1>1. taken' = <<>> /\ seg_q' = <<>> /\ in_speech' = FALSE /\ seg_start_sample' = 0
  BY DEF Clear
<1>2. Reported' = <<>>
  BY <1>1 DEF Reported
<1>3. (Apart(Reported))' /\ (EndBy(Reported, Frontier))'
  BY <1>2 DEF Apart, EndBy
<1> QED
  BY <1>1, <1>3 DEF OInv

\* Every step of the handle keeps the order.
LEMMA OrderKept ==
    ASSUME IInv, OInv, [Next]_vars
    PROVE  OInv'
<1>0. /\ samples_in \in Nat /\ Frontier \in Int /\ capacity \in Nat /\ seg_start_sample \in Nat
      /\ in_speech => seg_start_sample < samples_in
  BY DEF IInv, Counters, OInv, Frontier
<1>1. ASSUME UNCHANGED <<taken, seg_q, capacity, in_speech, seg_start_sample, samples_in>>
      PROVE  OInv'
  <2>1. Frontier' = Frontier
    BY <1>1 DEF Frontier
  <2> QED
    BY <1>0, <1>1, <2>1, NothingReported
<1>2. ASSUME NEW t \in Thresholds, SetThreshold(t)
      PROVE  OInv'
  BY <1>1, <1>2 DEF SetThreshold, handle
<1>3. ASSUME NEW n \in ChunkSizes, PushAudio(n)
      PROVE  OInv'
  BY <1>1, <1>3 DEF PushAudio, handle
<1>4. ASSUME NEW n \in ChunkSizes, NEW cap \in Capacities, DetectFull(n, cap)
      PROVE  OInv'
  BY <1>4, EmptyInOrder, SileroAssumption DEF DetectFull
<1>5. CASE VadReset
  BY <1>0, <1>5, EmptyInOrder DEF VadReset
<1>6. ASSUME NEW p \in Probs, ProcessWindow(p)
      PROVE  OInv'
  BY <1>6, WindowReportsInOrder
<1>7. CASE EncodeFails
  <2>1. /\ UNCHANGED <<taken, seg_q, capacity, in_speech, seg_start_sample>>
        /\ samples_in' \in Nat /\ samples_in <= samples_in'
    BY <1>0, <1>7, SileroAssumption DEF EncodeFails, WindowTaken, handle
  <2>2. Frontier' \in Int /\ Frontier <= Frontier' /\ (in_speech' => seg_start_sample' < samples_in')
    BY <1>0, <2>1 DEF Frontier
  <2> QED
    BY <1>0, <2>1, <2>2, NothingReported
<1>8. CASE PushReturns
  BY <1>1, <1>8 DEF PushReturns, handle
<1>9. CASE DetectReturns
  BY <1>9, DetectReportsInOrder
<1>10. ASSUME NEW cap \in Capacities, DrainSegments(cap)
       PROVE  OInv'
  <2>1. cap \in Nat /\ taken \in Seq(Segments) /\ seg_q \in Seq(Segments)
    BY SileroAssumption DEF OInv
  <2>2. /\ taken' = taken \o Handed(seg_q, cap) /\ seg_q' = Kept(seg_q, cap)
        /\ UNCHANGED <<samples_in, in_speech, seg_start_sample, capacity>>
    BY <1>10 DEF DrainSegments, handle
  <2>3. taken' \in Seq(Segments) /\ seg_q' \in Seq(Segments)
    BY <2>1, <2>2, DrainKeeps, DrainSplits
  <2>4. Reported' = Reported
    BY <2>1, <2>2, DrainKeeps DEF Reported
  <2>5. Frontier' = Frontier
    BY <2>2 DEF Frontier
  <2>6. (Apart(Reported))' /\ (EndBy(Reported, Frontier))'
    BY <2>4, <2>5 DEF OInv
  <2> QED
    BY <1>0, <2>2, <2>3, <2>6 DEF OInv
<1>11. ASSUME NEW cap \in Capacities, DrainFrames(cap)
       PROVE  OInv'
  BY <1>1, <1>11 DEF DrainFrames, handle
<1>12. CASE UNCHANGED vars
  BY <1>1, <1>12 DEF vars, handle
<1> QED
  BY <1>2, <1>3, <1>4, <1>5, <1>6, <1>7, <1>8, <1>9, <1>10, <1>11, <1>12 DEF Next

\* Whatever the network returns, however the thresholds change in mid-speech and
\* the audio is cut, the segments vad_push_silero and rs_vad_detect_full report
\* are non-empty, within the windows taken, apart and in order, and drained so.
THEOREM ReportsInOrder == Spec => []SegmentsOrdered
<1>1. Init => OInv
  <2> SUFFICES ASSUME Init PROVE OInv
    OBVIOUS
  <2>1. /\ taken = <<>> /\ seg_q = <<>> /\ capacity = 0 /\ in_speech = FALSE
        /\ seg_start_sample = 0
    BY DEF Init
  <2>2. Reported = <<>>
    BY <2>1 DEF Reported
  <2> QED
    BY <2>1, <2>2 DEF OInv, Apart, EndBy
<1>2. IInv /\ OInv /\ [Next]_vars => OInv'
  BY OrderKept
<1>3. IInv /\ OInv => SegmentsOrdered
  BY OrderIsOrdered
<1> QED
  BY <1>1, <1>2, <1>3, Invariance, PTL DEF Spec
=============================================================================
