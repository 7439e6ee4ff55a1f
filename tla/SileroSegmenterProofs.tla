------------------------- MODULE SileroSegmenterProofs -------------------------
(***************************************************************************)
(* Proofs about the Silero front end, for all thresholds, silence limits,  *)
(* pre-rolls, pads, caps and search windows, and whatever probabilities    *)
(* come: speech is kept, in one final each, without holes.                 *)
(***************************************************************************)
EXTENDS SileroSegmenter, TLAPS

\* A buffer of audio later than the chunk after, without holes, up to end.
Audio(buf, after, end) ==
    /\ buf \in Seq(Int)
    /\ \A i \in 1 .. Len(buf) - 1 : buf[i + 1] - buf[i] \in {0, 1}
    /\ buf # <<>> => buf[Len(buf)] = end
    /\ \A i \in 1 .. Len(buf) : buf[i] > after

\* The last chunk that has been put into a buffer.
Latest == IF step \in {"chunk", "ended"} THEN total ELSE this

Types ==
    /\ step \in {"chunk", "partial", "cap", "ended"}
    /\ step = "partial" => in_speech
    /\ total \in Nat /\ emitted \in Int /\ emitted <= Latest
    /\ seg_counter \in Nat /\ current_segment_index \in Nat
    /\ soft_cut_best_offset \in Int

\* One buffer is in use at a time, and neither has audio of a final.
Buffers ==
    /\ in_speech => preroll_buf = <<>>
    /\ ~in_speech => speech_buf = <<>>
    /\ Audio(speech_buf, emitted, Latest)
    /\ Audio(preroll_buf, emitted, Latest)

\* Where a segment may be cut is inside the buffer, and what follows is later.
CutInside ==
    (in_speech /\ step # "ended") =>
        /\ soft_cut_best_offset <= Len(speech_buf)
        /\ soft_cut_best_offset > 0 =>
              \A j \in soft_cut_best_offset + 1 .. Len(speech_buf) :
                  speech_buf[j] > speech_buf[soft_cut_best_offset]

\* Indices with a final were handed out, and the open segment has none of them.
IndicesFree ==
    /\ \A f \in finals : f \in Nat /\ f <= seg_counter
    /\ (in_speech /\ step # "ended" /\ TwoPass) =>
          current_segment_index <= seg_counter /\ current_segment_index \notin finals

IInv == Types /\ Buffers /\ SpeechKept /\ CutInside /\ IndicesFree

-----------------------------------------------------------------------------
(* Buffers.                                                                *)

\* One element more.
LEMMA Appended ==
    ASSUME NEW buf \in Seq(Int), NEW x \in Int
    PROVE  /\ Append(buf, x) \in Seq(Int)
           /\ Append(buf, x) # <<>>
           /\ Len(Append(buf, x)) = Len(buf) + 1
           /\ Append(buf, x)[Len(buf) + 1] = x
           /\ \A i \in 1 .. Len(buf) : Append(buf, x)[i] = buf[i]
OBVIOUS

\* An empty buffer is in order.
LEMMA NoAudio == \A after, end : Audio(<<>>, after, end)
BY DEF Audio

\* The next chunk goes behind what is there.
LEMMA AudioGrows ==
    ASSUME NEW buf, NEW after \in Int, NEW end \in Int, Audio(buf, after, end), after <= end
    PROVE  Audio(Append(buf, end + 1), after, end + 1)
<1> DEFINE more == Append(buf, end + 1)
<1>1. /\ buf \in Seq(Int) /\ Len(buf) \in Nat
      /\ \A i \in 1 .. Len(buf) : buf[i] \in Int /\ buf[i] > after
      /\ \A i \in 1 .. Len(buf) - 1 : buf[i + 1] - buf[i] \in {0, 1}
      /\ buf # <<>> => buf[Len(buf)] = end
  BY DEF Audio
<1>2. /\ more \in Seq(Int) /\ Len(more) = Len(buf) + 1 /\ more # <<>>
      /\ more[Len(buf) + 1] = end + 1
      /\ \A i \in 1 .. Len(buf) : more[i] = buf[i]
  BY <1>1, Appended
<1> HIDE DEF more
<1>3. ASSUME NEW i \in 1 .. Len(buf)
      PROVE  more[i + 1] - more[i] \in {0, 1}
  <2>1. CASE i < Len(buf)
    <3>1. i \in 1 .. Len(buf) - 1 /\ i + 1 \in 1 .. Len(buf)
      BY <1>1, <2>1
    <3> QED
      BY <1>1, <1>2, <3>1
  <2>2. CASE i = Len(buf)
    <3>1. buf[i] = end
      BY <1>1, <2>2
    <3> QED
      BY <1>2, <2>2, <3>1
  <2> QED
    BY <1>1, <2>1, <2>2
<1>4. ASSUME NEW i \in 1 .. Len(buf) + 1
      PROVE  more[i] > after
  <2>1. CASE i = Len(buf) + 1
    BY <1>2, <2>1
  <2>2. CASE i # Len(buf) + 1
    <3>1. i \in 1 .. Len(buf)
      BY <1>1, <2>2
    <3> QED
      BY <1>1, <1>2, <3>1
  <2> QED
    BY <2>1, <2>2
<1>5. Len(more) - 1 = Len(buf)
  BY <1>1, <1>2
<1> QED
  BY <1>2, <1>3, <1>4, <1>5 DEF Audio, more

\* The last chunk may be there twice.
LEMMA AudioTwice ==
    ASSUME NEW buf, NEW after \in Int, NEW end \in Int, Audio(buf, after, end), after < end
    PROVE  Audio(Append(buf, end), after, end)
<1> DEFINE more == Append(buf, end)
<1>1. /\ buf \in Seq(Int) /\ Len(buf) \in Nat
      /\ \A i \in 1 .. Len(buf) : buf[i] \in Int /\ buf[i] > after
      /\ \A i \in 1 .. Len(buf) - 1 : buf[i + 1] - buf[i] \in {0, 1}
      /\ buf # <<>> => buf[Len(buf)] = end
  BY DEF Audio
<1>2. /\ more \in Seq(Int) /\ Len(more) = Len(buf) + 1 /\ more # <<>>
      /\ more[Len(buf) + 1] = end
      /\ \A i \in 1 .. Len(buf) : more[i] = buf[i]
  BY <1>1, Appended
<1> HIDE DEF more
<1>3. ASSUME NEW i \in 1 .. Len(buf)
      PROVE  more[i + 1] - more[i] \in {0, 1}
  <2>1. CASE i < Len(buf)
    <3>1. i \in 1 .. Len(buf) - 1 /\ i + 1 \in 1 .. Len(buf)
      BY <1>1, <2>1
    <3> QED
      BY <1>1, <1>2, <3>1
  <2>2. CASE i = Len(buf)
    <3>1. buf[i] = end
      BY <1>1, <2>2
    <3> QED
      BY <1>2, <2>2, <3>1
  <2> QED
    BY <1>1, <2>1, <2>2
<1>4. ASSUME NEW i \in 1 .. Len(buf) + 1
      PROVE  more[i] > after
  <2>1. CASE i = Len(buf) + 1
    BY <1>2, <2>1
  <2>2. CASE i # Len(buf) + 1
    <3>1. i \in 1 .. Len(buf)
      BY <1>1, <2>2
    <3> QED
      BY <1>1, <1>2, <3>1
  <2> QED
    BY <2>1, <2>2
<1>5. Len(more) - 1 = Len(buf)
  BY <1>1, <1>2
<1> QED
  BY <1>2, <1>3, <1>4, <1>5 DEF Audio, more

\* What is left of a buffer behind a cut.
LEMMA AudioRest ==
    ASSUME NEW buf, NEW after \in Int, NEW end \in Int, Audio(buf, after, end),
           NEW k \in 0 .. Len(buf), NEW later \in Int,
           \A j \in k + 1 .. Len(buf) : buf[j] > later
    PROVE  Audio(SubSeq(buf, k + 1, Len(buf)), later, end)
<1> DEFINE rest == SubSeq(buf, k + 1, Len(buf))
<1>1. /\ buf \in Seq(Int) /\ Len(buf) \in Nat
      /\ \A i \in 1 .. Len(buf) : buf[i] \in Int
      /\ \A i \in 1 .. Len(buf) - 1 : buf[i + 1] - buf[i] \in {0, 1}
      /\ buf # <<>> => buf[Len(buf)] = end
  BY DEF Audio
<1>2. /\ rest \in Seq(Int) /\ Len(rest) = Len(buf) - k
      /\ \A i \in 1 .. Len(buf) - k : rest[i] = buf[k + i]
  BY <1>1
<1> HIDE DEF rest
<1>3. ASSUME NEW i \in 1 .. Len(rest) - 1
      PROVE  rest[i + 1] - rest[i] \in {0, 1}
  <2>1. /\ i \in 1 .. Len(buf) - k /\ i + 1 \in 1 .. Len(buf) - k
        /\ k + i \in 1 .. Len(buf) - 1 /\ (k + i) + 1 = k + (i + 1)
    BY <1>1, <1>2
  <2>2. rest[i] = buf[k + i] /\ rest[i + 1] = buf[(k + i) + 1]
    BY <1>2, <2>1
  <2> QED
    BY <1>1, <2>1, <2>2
<1>4. ASSUME rest # <<>>
      PROVE  rest[Len(rest)] = end
  <2>1. Len(rest) \in 1 .. Len(buf) - k /\ k + Len(rest) = Len(buf) /\ buf # <<>>
    BY <1>1, <1>2, <1>4
  <2> QED
    BY <1>1, <1>2, <2>1
<1>5. ASSUME NEW i \in 1 .. Len(rest)
      PROVE  rest[i] > later
  <2>1. k + i \in k + 1 .. Len(buf) /\ i \in 1 .. Len(buf) - k
    BY <1>1, <1>2
  <2> QED
    BY <1>2, <2>1
<1> QED
  BY <1>2, <1>3, <1>4, <1>5 DEF Audio, rest

\* The newest of a buffer.
LEMMA AudioNewest ==
    ASSUME NEW buf, NEW after \in Int, NEW end \in Int, Audio(buf, after, end), NEW n \in Nat
    PROVE  Audio(Newest(buf, n), after, end)
<1>1. CASE Len(buf) <= n
  BY <1>1 DEF Newest
<1>2. CASE ~(Len(buf) <= n)
  <2>1. Len(buf) \in Nat /\ Len(buf) - n \in 0 .. Len(buf)
    BY <1>2 DEF Audio
  <2>2. \A j \in Len(buf) - n + 1 .. Len(buf) : buf[j] > after
    BY <2>1 DEF Audio
  <2>3. Audio(SubSeq(buf, (Len(buf) - n) + 1, Len(buf)), after, end)
    BY <2>1, <2>2, AudioRest
  <2> QED
    BY <1>2, <2>3 DEF Newest
<1> QED
  BY <1>1, <1>2

\* What begins with the beginning of a buffer is later as well.
LEMMA HeadLater ==
    ASSUME NEW buf, NEW after \in Int, NEW end \in Int, Audio(buf, after, end),
           NEW k \in 1 .. Len(buf)
    PROVE  /\ SubSeq(buf, 1, k) \in Seq(Int)
           /\ SubSeq(buf, 1, k) # <<>>
           /\ Head(SubSeq(buf, 1, k)) > after
           /\ Last(SubSeq(buf, 1, k)) = buf[k]
<1>1. buf \in Seq(Int) /\ Len(buf) \in Nat /\ buf[1] > after
  BY DEF Audio
<1>2. /\ SubSeq(buf, 1, k) \in Seq(Int) /\ Len(SubSeq(buf, 1, k)) = k
      /\ \A i \in 1 .. k : SubSeq(buf, 1, k)[i] = buf[i]
  BY <1>1
<1>3. 1 \in 1 .. k /\ k \in 1 .. k
  OBVIOUS
<1> QED
  BY <1>1, <1>2, <1>3 DEF Last

\* A cut leaves every chunk on one of its sides.
LEMMA OnEitherSide ==
    ASSUME NEW buf \in Seq(Int), NEW k \in 0 .. Len(buf)
    PROVE  ToSet(buf) \subseteq ToSet(SubSeq(buf, 1, k)) \cup ToSet(SubSeq(buf, k + 1, Len(buf)))
<1> DEFINE first == SubSeq(buf, 1, k)
           rest == SubSeq(buf, k + 1, Len(buf))
<1>1. /\ Len(buf) \in Nat
      /\ first \in Seq(Int) /\ Len(first) = k /\ \A i \in 1 .. k : first[i] = buf[i]
      /\ rest \in Seq(Int) /\ Len(rest) = Len(buf) - k
      /\ \A i \in 1 .. Len(buf) - k : rest[i] = buf[k + i]
  <2>1. first \in Seq(Int) /\ Len(first) = k /\ \A i \in 1 .. k : first[i] = buf[i]
    OBVIOUS
  <2>2. rest \in Seq(Int) /\ Len(rest) = Len(buf) - k
    OBVIOUS
  <2>3. \A i \in 1 .. Len(buf) - k : rest[i] = buf[k + i]
    OBVIOUS
  <2> QED
    BY <2>1, <2>2, <2>3
<1> HIDE DEF first, rest
<1> SUFFICES ASSUME NEW j \in 1 .. Len(buf)
             PROVE  buf[j] \in ToSet(first) \cup ToSet(rest)
  BY DEF ToSet, first, rest
<1>2. CASE j <= k
  <2>1. j \in DOMAIN first /\ first[j] = buf[j]
    BY <1>1, <1>2
  <2> QED
    BY <2>1 DEF ToSet
<1>3. CASE ~(j <= k)
  <2>1. j - k \in 1 .. Len(buf) - k /\ k + (j - k) = j
    BY <1>1, <1>3
  <2>2. j - k \in DOMAIN rest /\ rest[j - k] = buf[j]
    BY <1>1, <2>1
  <2> QED
    BY <2>2 DEF ToSet
<1> QED
  BY <1>2, <1>3

\* A chunk more in the buffer.
LEMMA OneMore ==
    ASSUME NEW buf \in Seq(Int), NEW x \in Int
    PROVE  ToSet(buf) \cup {x} \subseteq ToSet(Append(buf, x))
<1>1. /\ DOMAIN Append(buf, x) = 1 .. Len(buf) + 1 /\ DOMAIN buf = 1 .. Len(buf) /\ Len(buf) \in Nat
      /\ Append(buf, x)[Len(buf) + 1] = x
      /\ \A i \in 1 .. Len(buf) : Append(buf, x)[i] = buf[i]
  OBVIOUS
<1>2. Len(buf) + 1 \in DOMAIN Append(buf, x) /\ \A i \in DOMAIN buf : i \in DOMAIN Append(buf, x)
  BY <1>1
<1> QED
  BY <1>1, <1>2 DEF ToSet

\* Where the cut may be, with a chunk more.
LEMMA CutStaysInside ==
    ASSUME NEW buf, NEW after \in Int, NEW end \in Int, Audio(buf, after, end), after <= end,
           NEW cutAt \in Int, cutAt <= Len(buf),
           cutAt > 0 => \A j \in cutAt + 1 .. Len(buf) : buf[j] > buf[cutAt]
    PROVE  /\ cutAt <= Len(Append(buf, end + 1))
           /\ cutAt > 0 => \A j \in cutAt + 1 .. Len(Append(buf, end + 1)) :
                              Append(buf, end + 1)[j] > Append(buf, end + 1)[cutAt]
<1> DEFINE more == Append(buf, end + 1)
<1>1. /\ buf \in Seq(Int) /\ Len(buf) \in Nat
      /\ \A i \in 1 .. Len(buf) : buf[i] \in Int
      /\ \A i \in 1 .. Len(buf) - 1 : buf[i + 1] - buf[i] \in {0, 1}
      /\ buf # <<>> => buf[Len(buf)] = end
  BY DEF Audio
<1>2. /\ Len(more) = Len(buf) + 1
      /\ more[Len(buf) + 1] = end + 1
      /\ \A i \in 1 .. Len(buf) : more[i] = buf[i]
  BY <1>1, Appended
<1> HIDE DEF more
<1>3. cutAt <= Len(more)
  BY <1>1, <1>2
<1>4. ASSUME cutAt > 0, NEW j \in cutAt + 1 .. Len(more)
      PROVE  more[j] > more[cutAt]
  <2>1. cutAt \in 1 .. Len(buf) /\ more[cutAt] = buf[cutAt] /\ buf[cutAt] \in Int /\ buf # <<>>
    BY <1>1, <1>2, <1>4
  <2>2. CASE j <= Len(buf)
    <3>1. j \in cutAt + 1 .. Len(buf) /\ j \in 1 .. Len(buf)
      BY <1>1, <1>4, <2>2
    <3> QED
      BY <1>2, <1>4, <2>1, <3>1
  <2>3. CASE ~(j <= Len(buf))
    <3>1. j = Len(buf) + 1
      <4>1. j \in cutAt + 1 .. Len(buf) + 1
        BY <1>2
      <4> QED
        BY <1>1, <2>3, <4>1
    <3>2. buf[cutAt] <= end
      <4>1. CASE cutAt = Len(buf)
        BY <1>1, <2>1, <4>1
      <4>2. CASE cutAt # Len(buf)
        <5>1. Len(buf) \in cutAt + 1 .. Len(buf) /\ Len(buf) \in 1 .. Len(buf)
          BY <1>1, <2>1, <4>2
        <5>2. buf[Len(buf)] > buf[cutAt] /\ buf[Len(buf)] = end
          BY <1>1, <1>4, <2>1, <5>1
        <5> QED
          BY <2>1, <5>2
      <4> QED
        BY <4>1, <4>2
    <3> QED
      BY <1>2, <2>1, <3>1, <3>2
  <2> QED
    BY <2>2, <2>3
<1> QED
  BY <1>3, <1>4 DEF more

-----------------------------------------------------------------------------
(* Steps.                                                                  *)

\* What a step may not do, as the properties say it.
FinalLater ==
    sent' # sent /\ sent' # None /\ ~sent'.is_partial /\ sent'.audio # <<>> =>
        Head(sent'.audio) > emitted
IndexNew == sent' # sent /\ sent' # None => sent'.index \notin finals

Step == IInv' /\ FinalLater /\ IndexNew

\* At the beginning nothing is in the buffers.
LEMMA InitEstablishes == Init => IInv
BY NoAudio DEF Init, IInv, Types, Latest, Buffers, SpeechKept, CutInside, IndicesFree, ToSet

\* The parts of the invariant, by their names.
LEMMA Parts ==
    ASSUME IInv
    PROVE  /\ total \in Nat /\ this \in Nat /\ this = total + 1
           /\ emitted \in Int /\ emitted <= Latest
           /\ Latest \in Int
           /\ step \in {"chunk", "ended"} => Latest = total
           /\ step \in {"partial", "cap"} => Latest = total + 1
           /\ seg_counter \in Nat /\ current_segment_index \in Nat /\ soft_cut_best_offset \in Int
           /\ speech_buf \in Seq(Int) /\ Len(speech_buf) \in Nat
           /\ Audio(speech_buf, emitted, Latest)
           /\ Audio(preroll_buf, emitted, Latest)
           /\ owed \subseteq ToSet(speech_buf)
BY DEF IInv, Types, Latest, this, Buffers, Audio, SpeechKept

\* What the invariant asks of the next state, where the parts are known.
LEMMA Whole ==
    ASSUME step' \in {"chunk", "partial", "cap", "ended"},
           step' = "partial" => in_speech',
           total' \in Nat, emitted' \in Int, emitted' <= Latest',
           seg_counter' \in Nat, current_segment_index' \in Nat, soft_cut_best_offset' \in Int,
           in_speech' => preroll_buf' = <<>>,
           ~in_speech' => speech_buf' = <<>>,
           Audio(speech_buf', emitted', Latest'), Audio(preroll_buf', emitted', Latest'),
           owed' \subseteq ToSet(speech_buf'),
           CutInside', IndicesFree'
    PROVE  IInv'
BY DEF IInv, Types, Buffers, Audio, SpeechKept, Latest, this

\* A final that begins later than the one before, under an index without one.
LEMMA FinalPushed ==
    ASSUME NEW audio, NEW end, NEW index, PushFinal(audio, end, index),
           audio # <<>> => Head(audio) > emitted,
           index \notin finals
    PROVE  FinalLater /\ IndexNew
BY DEF PushFinal, FinalLater, IndexNew

\* The index of the open segment has no final yet.
LEMMA FinalIndexFree ==
    ASSUME IInv, in_speech, step # "ended"
    PROVE  /\ FinalIndex \in Nat /\ FinalIndex \notin finals
           /\ Larger(seg_counter, FinalIndex) \in Nat
           /\ \A f \in finals \cup {FinalIndex} : f \in Nat /\ f <= Larger(seg_counter, FinalIndex)
<1>1. seg_counter \in Nat /\ current_segment_index \in Nat
  BY Parts
<1>2. /\ \A f \in finals : f \in Nat /\ f <= seg_counter
      /\ TwoPass => current_segment_index <= seg_counter /\ current_segment_index \notin finals
  BY DEF IInv, IndicesFree
<1>3. FinalIndex \in Nat /\ FinalIndex \notin finals
  <2>1. CASE TwoPass
    BY <1>1, <1>2, <2>1 DEF FinalIndex
  <2>2. CASE ~TwoPass
    <3>1. seg_counter + 1 \in Nat /\ seg_counter + 1 \notin finals
      BY <1>1, <1>2
    <3> QED
      BY <2>2, <3>1 DEF FinalIndex
  <2> QED
    BY <2>1, <2>2
<1> QED
  BY <1>1, <1>2, <1>3 DEF Larger

\* Quiet: the chunk goes into the pre-roll.
LEMMA QuietStep ==
    ASSUME IInv, NEW p, Quiet(p)
    PROVE  Step
<1>1. /\ step = "chunk" /\ step' = "cap" /\ ~in_speech /\ in_speech' = in_speech
      /\ preroll_buf' = Newest(Append(preroll_buf, this), PrerollMax)
      /\ sent' = None
      /\ UNCHANGED <<speech_buf, total, current_segment_index, seg_counter, soft_cut_best_offset,
                     emitted, owed, finals>>
  BY DEF Quiet, Hears, speech, indices, cut, seen
<1>2. Latest = total /\ Latest' = total + 1 /\ total \in Nat /\ emitted \in Int /\ emitted <= total
  BY <1>1, Parts DEF Latest, this
<1>3. Audio(preroll_buf', emitted, total + 1)
  <2>1. Audio(preroll_buf, emitted, total)
    BY <1>2, Parts
  <2>2. Audio(Append(preroll_buf, total + 1), emitted, total + 1)
    BY <1>2, <2>1, AudioGrows
  <2> QED
    BY <1>1, <1>2, <2>2, AudioNewest, SileroSegmenterAssumption DEF this
<1>4. speech_buf' = <<>> /\ Audio(speech_buf', emitted', Latest')
  BY <1>1, NoAudio DEF IInv, Buffers
<1>5. CutInside' /\ IndicesFree'
  BY <1>1 DEF CutInside, IndicesFree, IInv
<1>6. IInv'
  BY <1>1, <1>2, <1>3, <1>4, <1>5, Parts, Whole
<1> QED
  BY <1>1, <1>6 DEF Step, FinalLater, IndexNew

\* Onset: the segment begins with the pre-roll, and its chunk twice.
LEMMA OnsetStep ==
    ASSUME IInv, NEW p, Onset(p)
    PROVE  Step
<1> DEFINE preroll == Newest(Append(preroll_buf, this), PrerollMax)
<1>1. /\ step = "chunk" /\ step' = "partial" /\ ~in_speech /\ in_speech'
      /\ speech_buf' = Append(preroll, this) /\ preroll_buf' = <<>>
      /\ soft_cut_best_offset' = -1
      /\ owed' = owed \cup {this}
      /\ sent' = None
      /\ UNCHANGED <<total, emitted, finals>>
      /\ IF TwoPass THEN seg_counter' = seg_counter + 1 /\ current_segment_index' = seg_counter'
         ELSE UNCHANGED <<seg_counter, current_segment_index>>
  BY DEF Onset, Hears, indices
<1>2. /\ Latest = total /\ Latest' = total + 1 /\ total \in Nat /\ emitted \in Int /\ emitted <= total
      /\ this = total + 1 /\ seg_counter \in Nat /\ current_segment_index \in Nat
  BY <1>1, Parts DEF Latest, this
<1>3. Audio(preroll, emitted, total + 1)
  <2>1. Audio(preroll_buf, emitted, total)
    BY <1>2, Parts
  <2>2. Audio(Append(preroll_buf, total + 1), emitted, total + 1)
    BY <1>2, <2>1, AudioGrows
  <2> QED
    BY <1>2, <2>2, AudioNewest, SileroSegmenterAssumption
<1> HIDE DEF preroll
<1>4. Audio(speech_buf', emitted', Latest')
  <2>1. emitted < total + 1
    BY <1>2
  <2>2. Audio(Append(preroll, total + 1), emitted, total + 1)
    BY <1>2, <1>3, <2>1, AudioTwice
  <2> QED
    BY <1>1, <1>2, <2>2
<1>5. owed' \subseteq ToSet(speech_buf')
  <2>1. preroll \in Seq(Int) /\ this \in Int
    BY <1>2, <1>3 DEF Audio
  <2>2. this \in ToSet(speech_buf')
    BY <1>1, <2>1, OneMore
  <2>3. owed = {}
    <3>1. speech_buf = <<>>
      BY <1>1 DEF IInv, Buffers
    <3> QED
      BY <3>1, Parts DEF ToSet
  <2> QED
    BY <1>1, <2>2, <2>3
<1>6. CutInside'
  <2>1. Len(speech_buf') \in Nat
    BY <1>4 DEF Audio
  <2> QED
    BY <1>1, <2>1 DEF CutInside
<1>7. seg_counter' \in Nat /\ current_segment_index' \in Nat /\ IndicesFree'
  <2>1. \A f \in finals : f \in Nat /\ f <= seg_counter
    BY DEF IInv, IndicesFree
  <2>2. CASE TwoPass
    <3>1. /\ seg_counter' = seg_counter + 1 /\ current_segment_index' = seg_counter + 1
          /\ finals' = finals
      BY <1>1, <2>2
    <3>2. seg_counter + 1 \in Nat /\ seg_counter + 1 \notin finals
      BY <1>2, <2>1
    <3> QED
      BY <1>2, <2>1, <3>1, <3>2 DEF IndicesFree
  <2>3. CASE ~TwoPass
    BY <1>1, <1>2, <2>1, <2>3 DEF IndicesFree
  <2> QED
    BY <2>2, <2>3
<1>8. Audio(preroll_buf', emitted', Latest')
  BY <1>1, NoAudio
<1>9. IInv'
  BY <1>1, <1>2, <1>4, <1>5, <1>6, <1>7, <1>8, Whole
<1> QED
  BY <1>1, <1>9 DEF Step, FinalLater, IndexNew

\* SpeechGoesOn and Pause: the chunk goes into the buffer.
LEMMA BufferGrows ==
    ASSUME IInv, NEW p, SpeechGoesOn(p) \/ Pause(p)
    PROVE  Step
<1>1. /\ step = "chunk" /\ step' \in {"partial", "cap"} /\ in_speech /\ in_speech'
      /\ speech_buf' = Append(speech_buf, this)
      /\ owed' \subseteq owed \cup {this}
      /\ sent' = None
      /\ UNCHANGED <<preroll_buf, total, current_segment_index, seg_counter, soft_cut_best_offset,
                     emitted, finals>>
  BY DEF SpeechGoesOn, Pause, Hears, speech, indices, cut, seen
<1>2. /\ Latest = total /\ Latest' = total + 1 /\ total \in Nat /\ emitted \in Int /\ emitted <= total
      /\ this = total + 1 /\ this \in Int /\ speech_buf \in Seq(Int)
      /\ seg_counter \in Nat /\ current_segment_index \in Nat /\ soft_cut_best_offset \in Int
  BY <1>1, Parts DEF Latest, this
<1>3. Audio(speech_buf, emitted, total)
  BY <1>2, Parts
<1>4. Audio(speech_buf', emitted', Latest')
  BY <1>1, <1>2, <1>3, AudioGrows
<1>5. owed' \subseteq ToSet(speech_buf')
  BY <1>1, <1>2, OneMore, Parts
<1>6. CutInside'
  <2>1. /\ soft_cut_best_offset <= Len(speech_buf)
        /\ soft_cut_best_offset > 0 =>
              \A j \in soft_cut_best_offset + 1 .. Len(speech_buf) :
                  speech_buf[j] > speech_buf[soft_cut_best_offset]
    BY <1>1 DEF IInv, CutInside
  <2>2. /\ soft_cut_best_offset <= Len(Append(speech_buf, total + 1))
        /\ soft_cut_best_offset > 0 =>
              \A j \in soft_cut_best_offset + 1 .. Len(Append(speech_buf, total + 1)) :
                  Append(speech_buf, total + 1)[j] > Append(speech_buf, total + 1)[soft_cut_best_offset]
    <3>1. total \in Int /\ emitted \in Int /\ emitted <= total /\ soft_cut_best_offset \in Int
      BY <1>2
    <3> QED
      BY <1>3, <2>1, <3>1, CutStaysInside, Zenon
  <2>3. speech_buf' = Append(speech_buf, total + 1) /\ soft_cut_best_offset' = soft_cut_best_offset
    BY <1>1, <1>2
  <2> QED
    BY <2>2, <2>3 DEF CutInside
<1>7. IndicesFree'
  BY <1>1 DEF IInv, IndicesFree
<1>8. preroll_buf' = <<>> /\ Audio(preroll_buf', emitted', Latest')
  BY <1>1, NoAudio DEF IInv, Buffers
<1>9. IInv'
  BY <1>1, <1>2, <1>4, <1>5, <1>6, <1>7, <1>8, Whole
<1> QED
  BY <1>1, <1>9 DEF Step, FinalLater, IndexNew

\* SilenceEnds: the final has the buffer and this chunk.
LEMMA SilenceStep ==
    ASSUME IInv, NEW p, SilenceEnds(p)
    PROVE  Step
<1> DEFINE audio == Append(speech_buf, this)
<1>1. /\ step = "chunk" /\ step' = "cap" /\ in_speech /\ ~in_speech'
      /\ PushFinal(audio, total, FinalIndex)
      /\ speech_buf' = <<>>
      /\ seg_counter' = Larger(seg_counter, FinalIndex)
      /\ current_segment_index' = 0
      /\ UNCHANGED <<preroll_buf, total, soft_cut_best_offset>>
  BY DEF SilenceEnds, Hears, cut
<1>2. /\ Latest = total /\ Latest' = total + 1 /\ total \in Nat /\ emitted \in Int /\ emitted <= total
      /\ this = total + 1 /\ this \in Int /\ speech_buf \in Seq(Int) /\ Len(speech_buf) \in Nat
      /\ soft_cut_best_offset \in Int
  BY <1>1, Parts DEF Latest, this
<1>3. /\ audio \in Seq(Int) /\ audio # <<>> /\ Len(audio) = Len(speech_buf) + 1
      /\ audio[Len(speech_buf) + 1] = this
      /\ \A i \in 1 .. Len(speech_buf) : audio[i] = speech_buf[i]
  BY <1>2, Appended
<1>4. owed \subseteq ToSet(audio)
  BY <1>2, OneMore, Parts
<1> HIDE DEF audio
<1>5. emitted' = this /\ owed' = owed \ ToSet(audio) /\ finals' = finals \cup {FinalIndex}
  BY <1>1, <1>3 DEF PushFinal, Last
<1>6. Head(audio) > emitted
  <2>1. Head(audio) = audio[1]
    BY <1>3
  <2>2. CASE Len(speech_buf) = 0
    <3>1. audio[1] = total + 1
      BY <1>2, <1>3, <2>2
    <3> QED
      BY <1>2, <2>1, <3>1
  <2>3. CASE Len(speech_buf) # 0
    <3>1. 1 \in 1 .. Len(speech_buf)
      BY <1>2, <2>3
    <3>2. speech_buf[1] > emitted
      BY <3>1, Parts DEF Audio
    <3> QED
      BY <1>3, <2>1, <3>1, <3>2
  <2> QED
    BY <2>2, <2>3
<1>7. step # "ended"
  BY <1>1
<1>8. /\ FinalIndex \notin finals /\ seg_counter' \in Nat
      /\ \A f \in finals' : f \in Nat /\ f <= seg_counter'
  BY <1>1, <1>5, <1>7, FinalIndexFree
<1>9. CutInside' /\ IndicesFree'
  BY <1>1, <1>8 DEF CutInside, IndicesFree
<1>10. /\ Audio(speech_buf', emitted', Latest') /\ Audio(preroll_buf', emitted', Latest')
       /\ owed' \subseteq ToSet(speech_buf')
  BY <1>1, <1>4, <1>5, NoAudio DEF IInv, Buffers
<1>11. IInv'
  BY <1>1, <1>2, <1>5, <1>8, <1>9, <1>10, Whole
<1> QED
  BY <1>1, <1>6, <1>8, <1>11, FinalPushed DEF Step

\* PushPartial and NoPartial: the open segment stays as it is.
LEMMA PartialStep ==
    ASSUME IInv, PushPartial \/ NoPartial
    PROVE  Step
<1>1. /\ step = "partial" /\ step' = "cap"
      /\ UNCHANGED <<in_speech, speech_buf, preroll_buf, total, current_segment_index, seg_counter,
                     soft_cut_best_offset, emitted, owed, finals>>
  BY DEF PushPartial, NoPartial, speech, buffers, indices, cut, seen
<1>2. in_speech
  BY <1>1 DEF IInv, Types
<1>3. Latest' = Latest
  BY <1>1 DEF Latest, this
<1>4. CutInside' /\ IndicesFree'
  BY <1>1 DEF IInv, CutInside, IndicesFree
<1>5. in_speech' /\ preroll_buf' = <<>>
  BY <1>1, <1>2 DEF IInv, Buffers
<1>6. /\ total \in Nat /\ emitted \in Int /\ emitted <= Latest
      /\ seg_counter \in Nat /\ current_segment_index \in Nat /\ soft_cut_best_offset \in Int
      /\ Audio(speech_buf, emitted, Latest) /\ Audio(preroll_buf, emitted, Latest)
      /\ owed \subseteq ToSet(speech_buf)
  BY Parts
<1>7. IInv'
  BY <1>1, <1>3, <1>4, <1>5, <1>6, Whole
<1>8. FinalLater /\ IndexNew
  <2>1. CASE PushPartial
    <3>1. TwoPass /\ sent'.is_partial /\ sent'.index = current_segment_index
      BY <2>1 DEF PushPartial
    <3>2. current_segment_index \notin finals
      BY <1>1, <1>2, <3>1 DEF IInv, IndicesFree
    <3> QED
      BY <3>1, <3>2 DEF FinalLater, IndexNew
  <2>2. CASE NoPartial
    BY <2>2 DEF NoPartial, FinalLater, IndexNew
  <2> QED
    BY <2>1, <2>2
<1> QED
  BY <1>7, <1>8 DEF Step

\* The best place to cut, this chunk's end included.
LEMMA BestInside ==
    ASSUME IInv, in_speech, step = "cap"
    PROVE  /\ BestOffset \in Int /\ BestOffset <= size
           /\ BestOffset > 0 => \A j \in BestOffset + 1 .. size : speech_buf[j] > speech_buf[BestOffset]
<1>1. /\ soft_cut_best_offset \in Int /\ size \in Nat
      /\ soft_cut_best_offset <= size
      /\ soft_cut_best_offset > 0 =>
            \A j \in soft_cut_best_offset + 1 .. size : speech_buf[j] > speech_buf[soft_cut_best_offset]
  BY Parts DEF IInv, CutInside, size
<1>2. CASE NewBest
  <2>1. BestOffset = size
    BY <1>2 DEF BestOffset
  <2>2. ~(\E j \in size + 1 .. size : TRUE)
    BY <1>1
  <2> QED
    BY <1>1, <2>1, <2>2
<1>3. CASE ~NewBest
  BY <1>1, <1>3 DEF BestOffset
<1> QED
  BY <1>2, <1>3

\* NoCut: the best place to cut is remembered.
LEMMA NoCutStep ==
    ASSUME IInv, NoCut
    PROVE  Step
<1>1. /\ step = "cap" /\ step' = "chunk" /\ total' = total + 1
      /\ sent' = None
      /\ UNCHANGED <<in_speech, speech_buf, preroll_buf, current_segment_index, seg_counter,
                     emitted, owed, finals>>
      /\ soft_cut_best_offset' = IF Searching THEN BestOffset ELSE soft_cut_best_offset
  BY DEF NoCut, NextChunk, speech, buffers, indices, cut, seen
<1>2. /\ total \in Nat /\ total' \in Nat /\ emitted \in Int /\ emitted <= Latest
      /\ seg_counter \in Nat /\ current_segment_index \in Nat /\ soft_cut_best_offset \in Int
      /\ Audio(speech_buf, emitted, Latest) /\ Audio(preroll_buf, emitted, Latest)
      /\ owed \subseteq ToSet(speech_buf)
  BY <1>1, Parts
<1>3. Latest' = Latest
  BY <1>1 DEF Latest, this
<1>4. soft_cut_best_offset' \in Int /\ CutInside'
  <2>1. CASE Searching
    <3>1. in_speech
      BY <2>1 DEF Searching
    <3>2. /\ BestOffset \in Int /\ BestOffset <= Len(speech_buf)
          /\ BestOffset > 0 =>
                \A j \in BestOffset + 1 .. Len(speech_buf) : speech_buf[j] > speech_buf[BestOffset]
      BY <1>1, <3>1, BestInside DEF size
    <3>3. soft_cut_best_offset' = BestOffset /\ speech_buf' = speech_buf
      BY <1>1, <2>1
    <3> QED
      BY <3>2, <3>3 DEF CutInside
  <2>2. CASE ~Searching
    BY <1>1, <1>2, <2>2 DEF IInv, CutInside
  <2> QED
    BY <2>1, <2>2
<1>5. IndicesFree'
  BY <1>1 DEF IInv, IndicesFree
<1>6. /\ in_speech' => preroll_buf' = <<>>
      /\ ~in_speech' => speech_buf' = <<>>
  BY <1>1 DEF IInv, Buffers
<1>7. IInv'
  BY <1>1, <1>2, <1>3, <1>4, <1>5, <1>6, Whole
<1> QED
  BY <1>1, <1>7 DEF Step, FinalLater, IndexNew

\* CutAtDip: all of the buffer is a final.
LEMMA DipStep ==
    ASSUME IInv, CutAtDip
    PROVE  Step
<1>1. /\ step = "cap" /\ step' = "chunk" /\ total' = total + 1
      /\ in_speech /\ ~in_speech' /\ Len(speech_buf) > 0
      /\ PushFinal(speech_buf, speech_start_offset + size, FinalIndex)
      /\ seg_counter' = Larger(seg_counter, FinalIndex)
      /\ current_segment_index' = 0
      /\ speech_buf' = <<>> /\ soft_cut_best_offset' = -1
      /\ preroll_buf' = preroll_buf
  BY DEF CutAtDip, NextChunk, Searching, CutDone, size
<1>2. /\ total \in Nat /\ total' \in Nat /\ emitted \in Int /\ Latest \in Int
      /\ speech_buf \in Seq(Int) /\ Len(speech_buf) \in Nat
      /\ Audio(speech_buf, emitted, Latest)
      /\ owed \subseteq ToSet(speech_buf)
  BY <1>1, Parts
<1>3. Latest' = Latest
  BY <1>1 DEF Latest, this
<1>4. /\ speech_buf # <<>> /\ Head(speech_buf) > emitted
      /\ Last(speech_buf) = Latest
  <2>1. 1 \in 1 .. Len(speech_buf) /\ speech_buf # <<>>
    BY <1>1, <1>2
  <2> QED
    BY <1>2, <2>1 DEF Audio, Last
<1>5. emitted' = Latest /\ owed' = owed \ ToSet(speech_buf) /\ finals' = finals \cup {FinalIndex}
  BY <1>1, <1>4 DEF PushFinal
<1>6. step # "ended"
  BY <1>1
<1>7. /\ FinalIndex \notin finals /\ seg_counter' \in Nat
      /\ \A f \in finals' : f \in Nat /\ f <= seg_counter'
  BY <1>1, <1>5, <1>6, FinalIndexFree
<1>8. CutInside' /\ IndicesFree'
  BY <1>1, <1>7 DEF CutInside, IndicesFree
<1>9. /\ Audio(speech_buf', emitted', Latest') /\ Audio(preroll_buf', emitted', Latest')
      /\ owed' \subseteq ToSet(speech_buf')
  BY <1>1, <1>2, <1>5, NoAudio DEF IInv, Buffers
<1>10. IInv'
  BY <1>1, <1>2, <1>3, <1>5, <1>7, <1>8, <1>9, Whole
<1> QED
  BY <1>1, <1>4, <1>7, <1>10, FinalPushed DEF Step

\* CutAtCap: the buffer is cut, and its rest goes on as the next segment.
LEMMA CapStep ==
    ASSUME IInv, CutAtCap
    PROVE  Step
<1> DEFINE first == SubSeq(speech_buf, 1, CutAt)
           rest == SubSeq(speech_buf, CutAt + 1, Len(speech_buf))
<1>1. /\ step = "cap" /\ step' = "chunk" /\ total' = total + 1
      /\ in_speech /\ in_speech' /\ CutAt > 0
      /\ PushFinal(first, speech_start_offset + CutAt, FinalIndex)
      /\ speech_buf' = rest /\ soft_cut_best_offset' = -1
      /\ seg_counter' = Larger(seg_counter, FinalIndex) + (IF TwoPass THEN 1 ELSE 0)
      /\ current_segment_index' = IF TwoPass THEN seg_counter' ELSE current_segment_index
      /\ preroll_buf' = preroll_buf
  BY DEF CutAtCap, NextChunk, Searching, CutDone, size
<1>2. /\ total \in Nat /\ total' \in Nat /\ emitted \in Int /\ Latest \in Int
      /\ speech_buf \in Seq(Int) /\ Len(speech_buf) \in Nat
      /\ Audio(speech_buf, emitted, Latest)
      /\ owed \subseteq ToSet(speech_buf)
      /\ current_segment_index \in Nat
  BY <1>1, Parts
<1>3. Latest' = Latest
  BY <1>1 DEF Latest, this
<1>4. /\ CutAt \in 1 .. Len(speech_buf)
      /\ \A j \in CutAt + 1 .. Len(speech_buf) : speech_buf[j] > speech_buf[CutAt]
  <2>1. /\ BestOffset \in Int /\ BestOffset <= size
        /\ BestOffset > 0 => \A j \in BestOffset + 1 .. size : speech_buf[j] > speech_buf[BestOffset]
    BY <1>1, BestInside
  <2>2. CASE BestOffset > 0
    BY <1>2, <2>1, <2>2 DEF CutAt, size
  <2>3. CASE ~(BestOffset > 0)
    <3>1. CutAt = Len(speech_buf)
      BY <2>3 DEF CutAt, size
    <3>2. ~(\E j \in CutAt + 1 .. Len(speech_buf) : TRUE)
      BY <1>2, <3>1
    <3> QED
      BY <1>1, <1>2, <3>1, <3>2
  <2> QED
    BY <2>2, <2>3
<1>5. speech_buf[CutAt] \in Int
  BY <1>2, <1>4
<1>6. first \in Seq(Int) /\ first # <<>> /\ Head(first) > emitted /\ Last(first) = speech_buf[CutAt]
  BY <1>2, <1>4, HeadLater
<1>7. owed \subseteq ToSet(first) \cup ToSet(rest)
  <2>1. CutAt \in 0 .. Len(speech_buf)
    BY <1>2, <1>4
  <2> QED
    BY <1>2, <2>1, OnEitherSide
<1>8. Audio(rest, speech_buf[CutAt], Latest)
  <2>1. CutAt \in 0 .. Len(speech_buf)
    BY <1>2, <1>4
  <2> QED
    BY <1>2, <1>4, <1>5, <2>1, AudioRest
<1> HIDE DEF first, rest
<1>9. emitted' = speech_buf[CutAt] /\ owed' = owed \ ToSet(first) /\ finals' = finals \cup {FinalIndex}
  BY <1>1, <1>6 DEF PushFinal
<1>10. emitted' <= Latest
  <2>1. Len(speech_buf) \in 1 .. Len(speech_buf) /\ speech_buf # <<>>
    BY <1>2, <1>4
  <2>2. speech_buf[Len(speech_buf)] = Latest
    BY <1>2, <2>1 DEF Audio
  <2>3. CASE CutAt = Len(speech_buf)
    BY <1>2, <1>9, <2>2, <2>3
  <2>4. CASE CutAt # Len(speech_buf)
    <3>1. Len(speech_buf) \in CutAt + 1 .. Len(speech_buf)
      BY <1>2, <1>4, <2>4
    <3>2. Latest > speech_buf[CutAt]
      BY <1>4, <2>2, <3>1
    <3> QED
      BY <1>2, <1>5, <1>9, <3>2
  <2> QED
    BY <2>3, <2>4
<1>11. step # "ended"
  BY <1>1
<1>12. /\ FinalIndex \notin finals /\ Larger(seg_counter, FinalIndex) \in Nat
       /\ \A f \in finals' : f \in Nat /\ f <= Larger(seg_counter, FinalIndex)
  BY <1>1, <1>9, <1>11, FinalIndexFree
<1>13. seg_counter' \in Nat /\ current_segment_index' \in Nat /\ IndicesFree'
  <2> DEFINE given == Larger(seg_counter, FinalIndex)
  <2>1. given \in Nat /\ \A f \in finals' : f \in Nat /\ f <= given
    BY <1>12
  <2>2. /\ seg_counter' = given + (IF TwoPass THEN 1 ELSE 0)
        /\ current_segment_index' = IF TwoPass THEN seg_counter' ELSE current_segment_index
    BY <1>1
  <2> HIDE DEF given
  <2>3. CASE TwoPass
    <3>1. seg_counter' = given + 1 /\ current_segment_index' = given + 1
      BY <2>2, <2>3
    <3>2. given + 1 \in Nat /\ given + 1 \notin finals'
      BY <2>1
    <3>3. \A f \in finals' : f \in Nat /\ f <= given + 1
      BY <2>1
    <3> QED
      BY <2>1, <3>1, <3>2, <3>3 DEF IndicesFree
  <2>4. CASE ~TwoPass
    <3>1. seg_counter' = given /\ current_segment_index' = current_segment_index
      BY <2>1, <2>2, <2>4
    <3> QED
      BY <1>2, <2>1, <2>4, <3>1 DEF IndicesFree
  <2> QED
    BY <2>3, <2>4
<1>14. CutInside'
  <2>1. Len(speech_buf') \in Nat
    BY <1>1, <1>8 DEF Audio
  <2> QED
    BY <1>1, <2>1 DEF CutInside
<1>15. Audio(speech_buf', emitted', Latest') /\ owed' \subseteq ToSet(speech_buf')
  BY <1>1, <1>3, <1>7, <1>8, <1>9
<1>16. preroll_buf' = <<>> /\ Audio(preroll_buf', emitted', Latest')
  BY <1>1, NoAudio DEF IInv, Buffers
<1>17. IInv'
  BY <1>1, <1>2, <1>3, <1>5, <1>9, <1>10, <1>13, <1>14, <1>15, <1>16, Whole
<1>18. FinalLater /\ IndexNew
  BY <1>1, <1>6, <1>12, FinalPushed
<1> QED
  BY <1>17, <1>18 DEF Step

\* Flush: what is in the buffer at the end is a final.
LEMMA FlushStep ==
    ASSUME IInv, Flush
    PROVE  Step
<1>1. /\ step = "chunk" /\ step' = "ended"
      /\ UNCHANGED <<in_speech, preroll_buf, total, current_segment_index, soft_cut_best_offset>>
  BY DEF Flush, speech, cut
<1>2. /\ total \in Nat /\ emitted \in Int /\ emitted <= total /\ Latest = total
      /\ speech_buf \in Seq(Int) /\ Len(speech_buf) \in Nat
      /\ Audio(speech_buf, emitted, Latest) /\ Audio(preroll_buf, emitted, Latest)
      /\ owed \subseteq ToSet(speech_buf)
      /\ current_segment_index \in Nat /\ seg_counter \in Nat /\ soft_cut_best_offset \in Int
  BY <1>1, Parts
<1>3. Latest' = total
  BY <1>1 DEF Latest
<1>4. CutInside'
  BY <1>1 DEF CutInside
<1>5. /\ in_speech' => preroll_buf' = <<>>
      /\ ~in_speech => speech_buf = <<>>
  BY <1>1 DEF IInv, Buffers
<1>6. \A f \in finals : f \in Nat /\ f <= seg_counter
  BY DEF IInv, IndicesFree
<1>7. CASE speech_buf = <<>>
  <2>1. sent' = None /\ UNCHANGED <<emitted, owed, finals, seg_counter, speech_buf>>
    BY <1>7 DEF Flush, seen
  <2>2. IndicesFree'
    BY <1>1, <1>6, <2>1 DEF IndicesFree
  <2>3. IInv'
    BY <1>1, <1>2, <1>3, <1>4, <1>5, <2>1, <2>2, Whole
  <2> QED
    BY <2>1, <2>3 DEF Step, FinalLater, IndexNew
<1>8. CASE speech_buf # <<>>
  <2>1. /\ PushFinal(speech_buf, total, seg_counter + 1)
        /\ seg_counter' = seg_counter + 1
        /\ speech_buf' = <<>>
    BY <1>8 DEF Flush
  <2>2. Head(speech_buf) > emitted /\ Last(speech_buf) = total
    <3>1. 1 \in 1 .. Len(speech_buf)
      BY <1>2, <1>8
    <3> QED
      BY <1>2, <1>8, <3>1 DEF Audio, Last
  <2>3. emitted' = total /\ owed' = owed \ ToSet(speech_buf) /\ finals' = finals \cup {seg_counter + 1}
    BY <1>8, <2>1, <2>2 DEF PushFinal
  <2>4. seg_counter + 1 \in Nat /\ seg_counter + 1 \notin finals
    BY <1>2, <1>6
  <2>5. IndicesFree'
    <3>1. \A f \in finals' : f \in Nat /\ f <= seg_counter'
      BY <1>2, <1>6, <2>1, <2>3
    <3> QED
      BY <1>1, <3>1 DEF IndicesFree
  <2>6. in_speech' /\ preroll_buf' = <<>>
    BY <1>1, <1>5, <1>8
  <2>7. /\ Audio(speech_buf', emitted', Latest') /\ Audio(preroll_buf', emitted', Latest')
        /\ owed' \subseteq ToSet(speech_buf')
    BY <1>2, <2>1, <2>3, <2>6, NoAudio
  <2>8. IInv'
    BY <1>1, <1>2, <1>3, <1>4, <2>1, <2>3, <2>4, <2>5, <2>6, <2>7, Whole
  <2> QED
    BY <2>1, <2>2, <2>4, <2>8, FinalPushed DEF Step
<1> QED
  BY <1>7, <1>8

-----------------------------------------------------------------------------
(* Theorems.                                                               *)

\* Every step keeps the invariant and does what the properties ask of it.
LEMMA EveryStep ==
    ASSUME IInv, [Next]_vars
    PROVE  IInv' /\ FinalLater /\ IndexNew
<1>1. CASE \E p \in Probs : Quiet(p) \/ Onset(p) \/ SpeechGoesOn(p) \/ Pause(p) \/ SilenceEnds(p)
  <2>1. PICK p \in Probs : Quiet(p) \/ Onset(p) \/ SpeechGoesOn(p) \/ Pause(p) \/ SilenceEnds(p)
    BY <1>1
  <2> QED
    BY <2>1, QuietStep, OnsetStep, BufferGrows, SilenceStep DEF Step
<1>2. CASE PushPartial \/ NoPartial
  BY <1>2, PartialStep DEF Step
<1>3. CASE NoCut
  BY <1>3, NoCutStep DEF Step
<1>4. CASE CutAtDip
  BY <1>4, DipStep DEF Step
<1>5. CASE CutAtCap
  BY <1>5, CapStep DEF Step
<1>6. CASE Flush
  BY <1>6, FlushStep DEF Step
<1>7. CASE UNCHANGED vars
  <2>1. UNCHANGED <<step, in_speech, speech_buf, preroll_buf, total, current_segment_index,
                    seg_counter, soft_cut_best_offset, emitted, owed, finals, sent>>
    BY <1>7 DEF vars, speech, buffers, indices, cut, seen
  <2>2. Latest' = Latest
    BY <2>1 DEF Latest, this
  <2> QED
    BY <2>1, <2>2 DEF IInv, Types, Buffers, SpeechKept, CutInside, IndicesFree, FinalLater, IndexNew
<1> QED
  BY <1>1, <1>2, <1>3, <1>4, <1>5, <1>6, <1>7 DEF Next

\* The invariant holds whatever probabilities come.
THEOREM Invariance == Spec => []IInv
BY InitEstablishes, EveryStep, PTL DEF Spec

\* No chunk of speech is lost: what a cut takes out of the buffer is in the final.
THEOREM NothingLost == Spec => []SpeechKept
<1>1. IInv => SpeechKept
  BY DEF IInv
<1> QED
  BY <1>1, Invariance, PTL

\* No segment has a hole: the buffer grows by the chunk that follows its last, the
\* pre-roll ends with the chunk that triggers, and the rest of a cut is what follows.
THEOREM Seamless == Spec => []NoHoles
<1>1. IInv => NoHoles
  BY DEF IInv, Buffers, Audio, NoHoles
<1> QED
  BY <1>1, Invariance, PTL

\* No audio is in two finals: both buffers hold only chunks later than the last
\* final, and a cut never falls between the two copies of the onset's chunk.
THEOREM NothingTwice == Spec => FinalsApart
<1>1. ASSUME IInv, [Next]_vars
      PROVE  [sent' # sent /\ sent' # None /\ ~sent'.is_partial /\ sent'.audio # <<>> =>
                 Head(sent'.audio) > emitted]_vars
  BY <1>1, EveryStep DEF FinalLater
<1> QED
  BY <1>1, Invariance, PTL DEF Spec, FinalsApart

\* An index has one final, and no partial after it.
THEOREM IndicesUsedOnce == Spec => OneFinalEach
<1>1. ASSUME IInv, [Next]_vars
      PROVE  [sent' # sent /\ sent' # None => sent'.index \notin finals]_vars
  BY <1>1, EveryStep DEF IndexNew
<1> QED
  BY <1>1, Invariance, PTL DEF Spec, OneFinalEach
=============================================================================
