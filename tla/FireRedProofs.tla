----------------------------- MODULE FireRedProofs -----------------------------
(***************************************************************************)
(* Proofs about FireRedVAD and its users.  Of the postprocessor, for every *)
(* configuration: the type invariant, the invariants that keep its         *)
(* segments apart and bounded, and that it implements SpeechEvents.  Of a  *)
(* stream, for every frame size and shift and every cut of the audio: what *)
(* its frames are, and what a frame's result tells of the detector.  Of    *)
(* the handle of the C API: the frames are those of the whole signal, and  *)
(* its idea of the open segment is the detector's.  Of the front end of    *)
(* rs-asr-vad-online: the speech of a segment is still in the rolling      *)
(* buffer when it is cut out, indices follow the detector's segments, and  *)
(* the buffer is bounded.  Of the one-shot path: collapsing the events     *)
(* gives the detector's segments.                                          *)
(***************************************************************************)
EXTENDS RsVadFireRed, FireRedSegmenter, FireRedFull, SequenceTheorems, TLAPS

-----------------------------------------------------------------------------
(* The inductive invariant.                                                *)

\* Right after a forced end: still inside SPEECH, nothing counted yet.
ForcedEnd ==
    hit_max_speech =>
        /\ fsm_state = "SPEECH"
        /\ speech_cnt = 0
        /\ last_speech_end_frame = frame_cnt

\* The last end is a frame already seen.
EndInPast == last_speech_end_frame \in {-1} \cup 1 .. frame_cnt

\* The run of speech being counted began after the last end.
RunAfterEnd == speech_cnt <= frame_cnt - Larger(0, last_speech_end_frame)

\* How far the counters may have run in each state of the machine.
CountersInState ==
    /\ fsm_state = "SILENCE" => speech_cnt = 0
    /\ fsm_state = "POSSIBLE_SPEECH" => speech_cnt \in 1 .. Larger(2, MinSpeechFrame) - 1
    /\ fsm_state = "SPEECH" =>
           /\ silence_cnt = 0
           /\ speech_cnt <= Larger(Larger(2, MinSpeechFrame), MaxSpeechFrame - 1)
    /\ fsm_state = "POSSIBLE_SILENCE" =>
           /\ silence_cnt \in 1 .. Larger(2, MinSilenceFrame) - 1
           /\ speech_cnt <= Larger(Larger(2, MinSpeechFrame), MaxSpeechFrame - 1) + silence_cnt

\* An open segment is as long as its counted run and at most the padding more.
LengthOfRun ==
    last_speech_start_frame # -1 =>
        SegmentLength(last_speech_start_frame, frame_cnt) <= speech_cnt + PadStart

ReportBounded ==
    r.is_speech_end =>
        SegmentLength(r.speech_start_frame, r.speech_end_frame) <= LongestRun + PadStart

IInv ==
    /\ TypeOK
    /\ StartOnRecord
    /\ SegmentsApart
    /\ ForcedEnd
    /\ EndInPast
    /\ RunAfterEnd
    /\ CountersInState
    /\ LengthOfRun
    /\ ReportBounded
    /\ OnsetCovered

-----------------------------------------------------------------------------
(* Facts about the constants and the smoothing window.                     *)

\* The derived constants are numbers: the window holds a frame, and the padding
\* is at least the window.
LEMMA Constants ==
    /\ W \in Nat \ {0}
    /\ PadStart \in Nat
    /\ PadStart >= W
    /\ LongestRun \in Nat
BY FireRedAssumption DEF W, PadStart, Larger, LongestRun

\* A clamped probability is one.
LEMMA ClampInRange ==
    ASSUME NEW raw \in RawProbs
    PROVE  Clamp(raw) \in 0 .. ProbOne
BY FireRedAssumption DEF Clamp, Larger, Smaller

\* The window keeps its type through a frame, and so does its sum.
LEMMA WindowTyped ==
    ASSUME smooth_window \in Seq(0 .. ProbOne), smooth_window_sum \in Int,
           NEW p \in 0 .. ProbOne
    PROVE  /\ WindowAfter(p) \in Seq(0 .. ProbOne)
           /\ SumAfter(p) \in Int
<1> USE FireRedAssumption, Constants
<1>1. CASE W = 1
  BY <1>1 DEF WindowAfter, SumAfter
<1>2. CASE W # 1 /\ Overfull
  <2>1. smooth_window # <<>> /\ Head(smooth_window) \in 0 .. ProbOne
    BY <1>2 DEF Overfull
  <2>2. Tail(smooth_window) \in Seq(0 .. ProbOne)
    BY <2>1
  <2> QED
    BY <1>2, <2>1, <2>2 DEF WindowAfter, SumAfter
<1>3. CASE W # 1 /\ ~Overfull
  BY <1>3 DEF WindowAfter, SumAfter
<1> QED
  BY <1>1, <1>2, <1>3

-----------------------------------------------------------------------------
(* The switch.                                                             *)

Switch == OnSpeech \/ OnSilence

IntsTyped ==
    /\ speech_cnt \in Nat /\ silence_cnt \in Nat
    /\ last_speech_start_frame \in Int /\ last_speech_end_frame \in Int

ResultTyped ==
    r \in [is_speech_start : BOOLEAN, speech_start_frame : Int,
          is_speech_end : BOOLEAN, speech_end_frame : Int]

FlagsTyped == fsm_state \in FsmStates /\ hit_max_speech \in BOOLEAN

\* Every alternative of the switch keeps the types of what it assigns.
LEMMA SwitchTyped ==
    ASSUME TypeOK, Switch
    PROVE  IntsTyped' /\ ResultTyped' /\ FlagsTyped'
<1> USE FireRedAssumption, Constants
<1> USE DEF TypeOK, NoBoundary, EndSegment, PaddedStart, now, Start0, Result0, Result, Larger
<1>1. CASE SilenceStays
  <2>1. IntsTyped'
    BY <1>1 DEF SilenceStays, IntsTyped
  <2>2. ResultTyped'
    BY <1>1 DEF SilenceStays, IntsTyped, ResultTyped
  <2>3. FlagsTyped'
    BY <1>1, Zenon DEF SilenceStays, FlagsTyped, FsmStates
  <2> QED
    BY <2>1, <2>2, <2>3
<1>2. CASE SpeechSuspected
  <2>1. IntsTyped'
    BY <1>2 DEF SpeechSuspected, IntsTyped
  <2>2. ResultTyped'
    BY <1>2 DEF SpeechSuspected, IntsTyped, ResultTyped
  <2>3. FlagsTyped'
    BY <1>2, Zenon DEF SpeechSuspected, FlagsTyped, FsmStates
  <2> QED
    BY <2>1, <2>2, <2>3
<1>3. CASE SuspicionGrows
  <2>1. IntsTyped'
    BY <1>3 DEF SuspicionGrows, IntsTyped
  <2>2. ResultTyped'
    BY <1>3 DEF SuspicionGrows, IntsTyped, ResultTyped
  <2>3. FlagsTyped'
    BY <1>3, Zenon DEF SuspicionGrows, FlagsTyped, FsmStates
  <2> QED
    BY <2>1, <2>2, <2>3
<1>4. CASE SpeechConfirmed
  <2>1. IntsTyped'
    BY <1>4 DEF SpeechConfirmed, IntsTyped
  <2>2. ResultTyped'
    BY <1>4 DEF SpeechConfirmed, IntsTyped, ResultTyped
  <2>3. FlagsTyped'
    BY <1>4, Zenon DEF SpeechConfirmed, FlagsTyped, FsmStates
  <2> QED
    BY <2>1, <2>2, <2>3
<1>5. CASE SpeechGoesOn
  <2>1. IntsTyped'
    BY <1>5 DEF SpeechGoesOn, IntsTyped
  <2>2. ResultTyped'
    BY <1>5 DEF SpeechGoesOn, IntsTyped, ResultTyped
  <2>3. FlagsTyped'
    BY <1>5, Zenon DEF SpeechGoesOn, FlagsTyped, FsmStates
  <2> QED
    BY <2>1, <2>2, <2>3
<1>6. CASE SpeechTooLong
  <2>1. IntsTyped'
    BY <1>6 DEF SpeechTooLong, IntsTyped
  <2>2. ResultTyped'
    BY <1>6 DEF SpeechTooLong, IntsTyped, ResultTyped
  <2>3. FlagsTyped'
    BY <1>6, Zenon DEF SpeechTooLong, FlagsTyped, FsmStates
  <2> QED
    BY <2>1, <2>2, <2>3
<1>7. CASE SuspicionDropped
  <2>1. IntsTyped'
    BY <1>7 DEF SuspicionDropped, IntsTyped
  <2>2. ResultTyped'
    BY <1>7 DEF SuspicionDropped, IntsTyped, ResultTyped
  <2>3. FlagsTyped'
    BY <1>7, Zenon DEF SuspicionDropped, FlagsTyped, FsmStates
  <2> QED
    BY <2>1, <2>2, <2>3
<1>8. CASE SilenceSuspected
  <2>1. IntsTyped'
    BY <1>8 DEF SilenceSuspected, IntsTyped
  <2>2. ResultTyped'
    BY <1>8 DEF SilenceSuspected, IntsTyped, ResultTyped
  <2>3. FlagsTyped'
    BY <1>8, Zenon DEF SilenceSuspected, FlagsTyped, FsmStates
  <2> QED
    BY <2>1, <2>2, <2>3
<1>9. CASE SilenceGrows
  <2>1. IntsTyped'
    BY <1>9 DEF SilenceGrows, IntsTyped
  <2>2. ResultTyped'
    BY <1>9 DEF SilenceGrows, IntsTyped, ResultTyped
  <2>3. FlagsTyped'
    BY <1>9, Zenon DEF SilenceGrows, FlagsTyped, FsmStates
  <2> QED
    BY <2>1, <2>2, <2>3
<1>10. CASE SilenceConfirmed
  <2>1. IntsTyped'
    BY <1>10 DEF SilenceConfirmed, IntsTyped
  <2>2. ResultTyped'
    BY <1>10 DEF SilenceConfirmed, IntsTyped, ResultTyped
  <2>3. FlagsTyped'
    BY <1>10, Zenon DEF SilenceConfirmed, FlagsTyped, FsmStates
  <2> QED
    BY <2>1, <2>2, <2>3
<1> QED
  BY <1>1, <1>2, <1>3, <1>4, <1>5, <1>6, <1>7, <1>8, <1>9, <1>10 DEF Switch, OnSpeech, OnSilence

\* Every alternative of the switch keeps the invariant once the frame is counted.
LEMMA SwitchSafe ==
    ASSUME IInv, Switch, frame_cnt' = now, TypeOK'
    PROVE  IInv'
<1> USE FireRedAssumption, Constants
<1> USE DEF IInv, TypeOK, StartOnRecord, SegmentsApart, ForcedEnd, EndInPast, RunAfterEnd,
            CountersInState, LengthOfRun, ReportBounded, OnsetCovered, InSegment,
            SegmentLength, LongestRun, NoBoundary, EndSegment, PaddedStart,
            now, Start0, Result0, Result, Larger
<1>1. CASE SilenceStays
  BY <1>1 DEF SilenceStays
<1>2. CASE SpeechSuspected
  BY <1>2 DEF SpeechSuspected
<1>3. CASE SuspicionGrows
  BY <1>3 DEF SuspicionGrows
<1>4. CASE SpeechConfirmed
  BY <1>4 DEF SpeechConfirmed
<1>5. CASE SpeechGoesOn
  BY <1>5 DEF SpeechGoesOn
<1>6. CASE SpeechTooLong
  BY <1>6 DEF SpeechTooLong
<1>7. CASE SuspicionDropped
  BY <1>7 DEF SuspicionDropped
<1>8. CASE SilenceSuspected
  BY <1>8 DEF SilenceSuspected
<1>9. CASE SilenceGrows
  BY <1>9 DEF SilenceGrows
<1>10. CASE SilenceConfirmed
  BY <1>10 DEF SilenceConfirmed
<1> QED
  BY <1>1, <1>2, <1>3, <1>4, <1>5, <1>6, <1>7, <1>8, <1>9, <1>10 DEF Switch, OnSpeech, OnSilence

-----------------------------------------------------------------------------
(* Every step keeps the invariant.                                         *)

\* A fresh state satisfies the invariant.
LEMMA InitInv == Init => IInv
<1> SUFFICES ASSUME Init PROVE IInv
  OBVIOUS
<1> USE FireRedAssumption, Constants DEF Init, NoResult, Result
<1>1. TypeOK
  <2>1. /\ frame_cnt \in 0 .. MaxFrames /\ speech_cnt \in Nat /\ silence_cnt \in Nat
        /\ smooth_window_sum \in Int
        /\ last_speech_start_frame \in Int /\ last_speech_end_frame \in Int
    OBVIOUS
  <2>2. /\ smooth_window \in Seq(0 .. ProbOne)
        /\ fsm_state \in FsmStates /\ speech_threshold \in Thresholds
    BY DEF FsmStates
  <2>3. hit_max_speech \in BOOLEAN
    OBVIOUS
  <2>4. r \in [is_speech_start : BOOLEAN, speech_start_frame : Int,
              is_speech_end : BOOLEAN, speech_end_frame : Int]
    OBVIOUS
  <2> QED
    BY <2>1, <2>2, <2>3, <2>4 DEF TypeOK
<1>2. StartOnRecord /\ SegmentsApart /\ ForcedEnd /\ EndInPast /\ OnsetCovered
  BY DEF StartOnRecord, SegmentsApart, ForcedEnd, EndInPast, OnsetCovered, InSegment
<1>3. RunAfterEnd /\ CountersInState /\ LengthOfRun /\ ReportBounded
  BY DEF RunAfterEnd, CountersInState, LengthOfRun, ReportBounded, Larger
<1> QED
  BY <1>1, <1>2, <1>3 DEF IInv

\* ProcessOneFrame keeps the invariant: first its prologue, then the switch.
LEMMA FrameInv ==
    ASSUME IInv, NEW raw \in RawProbs, ProcessOneFrame(raw)
    PROVE  IInv'
<1>1. Switch /\ Prologue(Clamp(raw))
  BY DEF ProcessOneFrame, Switch
<1>2. IntsTyped' /\ ResultTyped' /\ FlagsTyped'
  BY <1>1, SwitchTyped DEF IInv
<1>3. smooth_window' \in Seq(0 .. ProbOne) /\ smooth_window_sum' \in Int
  BY <1>1, WindowTyped, ClampInRange DEF Prologue, IInv, TypeOK
<1>4. frame_cnt' = now /\ frame_cnt' \in 0 .. MaxFrames /\ speech_threshold' \in Thresholds
  BY <1>1, FireRedAssumption DEF Prologue, now, IInv, TypeOK
<1>5. TypeOK'
  BY <1>2, <1>3, <1>4 DEF TypeOK, IntsTyped, ResultTyped, FlagsTyped
<1> QED
  BY <1>1, <1>4, <1>5, SwitchSafe

\* SetThreshold touches nothing the invariant is about but the threshold.
LEMMA ThresholdInv ==
    ASSUME IInv, NEW t \in Thresholds, SetThreshold(t)
    PROVE  IInv'
BY DEF SetThreshold, counters, IInv, TypeOK, StartOnRecord, SegmentsApart, ForcedEnd,
       EndInPast, RunAfterEnd, CountersInState, LengthOfRun, ReportBounded, OnsetCovered,
       InSegment

\* Reset establishes the invariant anew.
LEMMA ResetInv ==
    ASSUME IInv, Reset
    PROVE  IInv'
<1> USE FireRedAssumption, Constants DEF Reset, NoResult, Result
<1>1. TypeOK'
  <2>1. IntsTyped' /\ frame_cnt' \in 0 .. MaxFrames /\ smooth_window_sum' \in Int
    BY DEF IntsTyped
  <2>2. ResultTyped'
    BY DEF ResultTyped
  <2>3. FlagsTyped'
    BY Zenon DEF FlagsTyped, FsmStates
  <2>4. smooth_window' \in Seq(0 .. ProbOne) /\ speech_threshold' \in Thresholds
    BY DEF IInv, TypeOK
  <2> QED
    BY <2>1, <2>2, <2>3, <2>4 DEF TypeOK, IntsTyped, ResultTyped, FlagsTyped
<1>2. (StartOnRecord /\ SegmentsApart /\ ForcedEnd /\ EndInPast /\ OnsetCovered)'
  BY DEF StartOnRecord, SegmentsApart, ForcedEnd, EndInPast, OnsetCovered, InSegment
<1>3. (RunAfterEnd /\ CountersInState /\ LengthOfRun /\ ReportBounded)'
  BY DEF RunAfterEnd, CountersInState, LengthOfRun, ReportBounded, Larger
<1> QED
  BY <1>1, <1>2, <1>3 DEF IInv

\* And so does every step.
LEMMA StepKeepsInv == IInv /\ [Next]_vars => IInv'
<1> SUFFICES ASSUME IInv, [Next]_vars PROVE IInv'
  OBVIOUS
<1>1. CASE \E raw \in RawProbs : ProcessOneFrame(raw)
  BY <1>1, FrameInv
<1>2. CASE \E t \in Thresholds : SetThreshold(t)
  BY <1>2, ThresholdInv
<1>3. CASE Reset
  BY <1>3, ResetInv
<1>4. CASE UNCHANGED vars
  BY <1>4 DEF vars, IInv, TypeOK, StartOnRecord, SegmentsApart, ForcedEnd, EndInPast,
     RunAfterEnd, CountersInState, LengthOfRun, ReportBounded, OnsetCovered, InSegment
<1> QED
  BY <1>1, <1>2, <1>3, <1>4 DEF Next

\* The inductive invariant holds throughout, for every configuration, every
\* sequence of probabilities and every reset and threshold change.
THEOREM Invariance == Spec => []IInv
BY InitInv, StepKeepsInv, PTL DEF Spec

-----------------------------------------------------------------------------
(* The theorems.                                                           *)

\* Every field of the state and of the result keeps its type.
THEOREM TypeCorrect == Spec => []TypeOK
<1>1. IInv => TypeOK
  BY DEF IInv
<1> QED
  BY <1>1, Invariance, PTL

\* Whatever the configuration, an end is never reported without the start that
\* belongs to it.
THEOREM StartsOnRecord == Spec => []StartOnRecord
<1>1. IInv => StartOnRecord
  BY DEF IInv
<1> QED
  BY <1>1, Invariance, PTL

\* Whatever the padding and the smoothing window, an open segment never
\* reaches back into audio already reported.
THEOREM SegmentsStayApart == Spec => []SegmentsApart
<1>1. IInv => SegmentsApart
  BY DEF IInv
<1> QED
  BY <1>1, Invariance, PTL

\* The invariant bounds the segments.
LEMMA BoundedByInvariant ==
    ASSUME IInv
    PROVE  SegmentsBounded
<1> USE FireRedAssumption, Constants
<1>1. ASSUME last_speech_start_frame # -1
      PROVE  SegmentLength(last_speech_start_frame, frame_cnt) <= LongestRun + PadStart
  BY <1>1 DEF IInv, TypeOK, StartOnRecord, InSegment, CountersInState, LengthOfRun,
     SegmentLength, LongestRun, Larger
<1> QED
  BY <1>1 DEF IInv, ReportBounded, SegmentsBounded

\* No segment, open or reported, is longer than the configuration allows.
THEOREM SegmentsStayBounded == Spec => []SegmentsBounded
<1>1. IInv => SegmentsBounded
  BY BoundedByInvariant
<1> QED
  BY <1>1, Invariance, PTL

\* The padding always makes up for the delay of the smoothing window.
THEOREM OnsetsCovered == Spec => []OnsetCovered
<1>1. IInv => OnsetCovered
  BY DEF IInv
<1> QED
  BY <1>1, Invariance, PTL

\* A frame of the postprocessor is a tick, an opening, a closing or a blip of
\* the abstract detector.
LEMMA FrameRefines ==
    ASSUME IInv, NEW raw \in RawProbs, ProcessOneFrame(raw)
    PROVE  Events!Next
<1> USE DEF IInv, TypeOK
<1>1. Switch /\ frame_cnt' = frame_cnt + 1
  BY DEF ProcessOneFrame, Switch, Prologue, now
<1>2. CASE NoBoundary
  <2>1. Emitted' = <<>> /\ last_speech_end_frame' = last_speech_end_frame
    BY <1>2 DEF NoBoundary, Result0, Result, Emitted
  <2>2. CASE hit_max_speech
    <3>1. last_speech_start_frame = -1
      BY <2>2 DEF StartOnRecord
    <3>2. last_speech_start_frame' = frame_cnt'
      BY <1>1, <1>2, <2>2 DEF NoBoundary, Start0, now
    <3>3. last_speech_start_frame' \in Events!Startable(frame_cnt')
      BY <1>1, <2>2, <3>2 DEF Events!Startable, ForcedEnd, EndInPast
    <3> QED
      BY <1>1, <2>1, <3>1, <3>3 DEF Events!Next, Events!Open
  <2>3. CASE ~hit_max_speech
    BY <1>1, <1>2, <2>1, <2>3 DEF NoBoundary, Start0, Events!Next, Events!Tick
  <2> QED
    BY <2>2, <2>3
<1>3. CASE SpeechConfirmed
  <2>1. last_speech_start_frame = -1
    BY <1>3 DEF SpeechConfirmed, StartOnRecord, InSegment
  <2>2. last_speech_start_frame' \in Events!Startable(frame_cnt')
    BY <1>1, <1>3, FireRedAssumption, Constants
       DEF SpeechConfirmed, PaddedStart, Events!Startable, EndInPast, RunAfterEnd, Larger, now
  <2>3. Emitted' = <<>> /\ last_speech_end_frame' = last_speech_end_frame
    BY <1>3 DEF SpeechConfirmed, Result, Emitted
  <2> QED
    BY <1>1, <2>1, <2>2, <2>3 DEF Events!Next, Events!Open
<1>4. CASE SpeechTooLong \/ SilenceConfirmed
  <2>1. PICK forced \in BOOLEAN : EndSegment(forced)
    BY <1>4 DEF SpeechTooLong, SilenceConfirmed
  <2>2. /\ last_speech_start_frame' = -1
        /\ last_speech_end_frame' = frame_cnt'
        /\ Emitted' = <<Start0, frame_cnt'>>
    BY <1>1, <2>1 DEF EndSegment, Result, Emitted, now
  <2>3. CASE hit_max_speech
    <3>1. last_speech_start_frame = -1
      BY <2>3 DEF StartOnRecord
    <3>2. Start0 = frame_cnt'
      BY <1>1, <2>3 DEF Start0, now
    <3> QED
      BY <1>1, <2>2, <3>1, <3>2 DEF Events!Next, Events!Blip
  <2>4. CASE ~hit_max_speech
    <3>1. Start0 = last_speech_start_frame /\ last_speech_start_frame # -1
      BY <1>4, <2>4 DEF Start0, StartOnRecord, InSegment, SpeechTooLong, SilenceConfirmed
    <3> QED
      BY <1>1, <2>2, <3>1 DEF Events!Next, Events!Close
  <2> QED
    BY <2>3, <2>4
<1> QED
  BY <1>1, <1>2, <1>3, <1>4
     DEF Switch, OnSpeech, OnSilence, SilenceStays, SpeechSuspected, SuspicionGrows,
         SuspicionDropped, SpeechGoesOn, SilenceSuspected, SilenceGrows

\* The postprocessor keeps the promise of a streaming detector.
THEOREM Refinement == Spec => ImplementsEvents
<1>1. Init => Events!Init
  BY DEF Init, Events!Init, NoResult, Result, Emitted
<1>2. IInv /\ [Next]_vars => [Events!Next]_(Events!vars)
  <2> SUFFICES ASSUME IInv, [Next]_vars PROVE [Events!Next]_(Events!vars)
    OBVIOUS
  <2>1. CASE \E raw \in RawProbs : ProcessOneFrame(raw)
    BY <2>1, FrameRefines
  <2>2. CASE \E t \in Thresholds : SetThreshold(t)
    BY <2>2 DEF SetThreshold, Events!vars, Emitted
  <2>3. CASE Reset
    BY <2>3 DEF Reset, NoResult, Result, Emitted, Events!Next, Events!Reset
  <2>4. CASE UNCHANGED vars
    BY <2>4 DEF vars, Events!vars, Emitted
  <2> QED
    BY <2>1, <2>2, <2>3, <2>4 DEF Next
<1> QED
  BY <1>1, <1>2, Invariance, PTL DEF Spec, ImplementsEvents, Events!Spec

-----------------------------------------------------------------------------
(* Framing.                                                                *)

\* Division by the frame shift: the quotient is the one number whose multiple
\* lies less than a shift below.
LEMMA Quotient ==
    ASSUME NEW m \in Nat
    PROVE  /\ m \div FrameShift \in Nat
           /\ (m \div FrameShift) * FrameShift <= m
           /\ m < (m \div FrameShift) * FrameShift + FrameShift
BY FramingAssumption

\* Multiples of the shift, one frame on.
LEMMA OneShift ==
    ASSUME NEW q \in Int
    PROVE  (q + 1) * FrameShift = q * FrameShift + FrameShift
BY FramingAssumption

\* Multiples of the shift add up, and keep the order.
LEMMA Shifts ==
    ASSUME NEW a \in Int, NEW b \in Int
    PROVE  /\ a * FrameShift \in Int
           /\ (a + b) * FrameShift = a * FrameShift + b * FrameShift
           /\ a < b => a * FrameShift + FrameShift <= b * FrameShift
BY FramingAssumption

\* What ComputeFbank yields: no frame of less than a frame's samples, and else
\* as many as start early enough.
LEMMA FramesBounds ==
    ASSUME NEW n \in Nat
    PROVE  /\ Frames(n) \in Nat
           /\ n < FrameSize => Frames(n) = 0
           /\ n >= FrameSize =>
                  /\ Frames(n) >= 1
                  /\ Frames(n) * FrameShift + FrameSize - FrameShift <= n
                  /\ n < Frames(n) * FrameShift + FrameSize
<1>1. CASE n < FrameSize
  BY <1>1, FramingAssumption DEF Frames
<1>2. CASE n >= FrameSize
  <2> DEFINE q == (n - FrameSize) \div FrameShift
  <2>1. n - FrameSize \in Nat
    BY <1>2, FramingAssumption
  <2>2. /\ q \in Nat
        /\ q * FrameShift <= n - FrameSize
        /\ n - FrameSize < q * FrameShift + FrameShift
    BY <2>1, Quotient
  <2>3. Frames(n) = q + 1
    BY <1>2, FramingAssumption DEF Frames
  <2>4. (q + 1) * FrameShift = q * FrameShift + FrameShift
    BY <2>2, OneShift
  <2> HIDE DEF q
  <2>5. q * FrameShift \in Int
    BY <2>2, Shifts
  <2> QED
    BY <1>2, <2>2, <2>3, <2>4, <2>5, FramingAssumption
<1> QED
  BY <1>1, <1>2, FramingAssumption

\* Those bounds name the number of frames.
LEMMA FramesAre ==
    ASSUME NEW n \in Nat, NEW k \in Nat,
           n >= FrameSize,
           k * FrameShift + FrameSize - FrameShift <= n,
           n < k * FrameShift + FrameSize
    PROVE  Frames(n) = k
<1> DEFINE f == Frames(n)
<1>1. /\ f \in Nat
      /\ f * FrameShift + FrameSize - FrameShift <= n
      /\ n < f * FrameShift + FrameSize
  BY FramesBounds
<1> HIDE DEF f
<1>2. /\ f * FrameShift \in Int /\ k * FrameShift \in Int
      /\ f < k => f * FrameShift + FrameShift <= k * FrameShift
      /\ k < f => k * FrameShift + FrameShift <= f * FrameShift
  BY <1>1, Shifts
<1>3. ~(f < k) /\ ~(k < f)
  BY <1>1, <1>2, FramingAssumption
<1>4. f = k
  BY <1>1, <1>3
<1> QED
  BY <1>4 DEF f

\* DetectStreamingChunk keeps what no frame start has passed, in all its cases.
LEMMA RemainderIs ==
    ASSUME NEW n \in Nat
    PROVE  /\ Remainder(n) = n - Frames(n) * FrameShift
           /\ Remainder(n) \in Nat
<1> DEFINE f == Frames(n)
<1>1. CASE n < FrameSize
  <2>1. f = 0
    BY <1>1, FramesBounds
  <2> QED
    BY <2>1, FramingAssumption DEF Remainder
<1>2. CASE n >= FrameSize
  <2>1. /\ f \in Nat /\ f >= 1
        /\ f * FrameShift + FrameSize - FrameShift <= n
        /\ n < f * FrameShift + FrameSize
    BY <1>2, FramesBounds
  <2> DEFINE consumed == (f - 1) * FrameShift + FrameSize
             keepStart == IF consumed < n THEN f * FrameShift ELSE n - (FrameSize - FrameShift)
  <2>2. Remainder(n) = IF f = 0 THEN n
                       ELSE IF keepStart \in 1 .. n - 1 THEN n - keepStart ELSE 0
    BY DEF Remainder
  <2> HIDE DEF f
  <2>3. f * FrameShift \in Int /\ f * FrameShift >= FrameShift
    <3>1. f * FrameShift = (f - 1) * FrameShift + FrameShift
      BY <2>1, OneShift
    <3>2. 0 * FrameShift = 0
      BY FramingAssumption
    <3>3. 0 < f => 0 * FrameShift + FrameShift <= f * FrameShift
      BY <2>1, Shifts
    <3> QED
      BY <2>1, <3>2, <3>3, Shifts, FramingAssumption
  <2>4. consumed = f * FrameShift - FrameShift + FrameSize
    <3>1. f * FrameShift = (f - 1) * FrameShift + FrameShift
      BY <2>1, OneShift
    <3>2. (f - 1) * FrameShift \in Int
      BY <2>1, Shifts
    <3> QED
      BY <2>3, <3>1, <3>2, FramingAssumption
  <2>5. keepStart = f * FrameShift
    BY <2>1, <2>3, <2>4, FramingAssumption
  <2> HIDE DEF keepStart, consumed
  <2>6. Remainder(n) = n - f * FrameShift /\ Remainder(n) \in Nat
    BY <2>1, <2>2, <2>3, <2>5, FramingAssumption
  <2> QED
    BY <2>6 DEF f
<1> QED
  BY <1>1, <1>2, FramingAssumption

\* Stitching what was kept to what comes next gives the frames of the whole.
LEMMA FramesAppend ==
    ASSUME NEW s \in Nat, NEW n \in Nat
    PROVE  Frames(s + n) = Frames(s) + Frames(s - Frames(s) * FrameShift + n)
<1> DEFINE f == Frames(s)
           rest == s - f * FrameShift + n
           g == Frames(rest)
<1>1. f \in Nat /\ f * FrameShift \in Int /\ rest \in Nat
  <2>1. f \in Nat
    BY FramesBounds
  <2>2. s - f * FrameShift = Remainder(s) /\ Remainder(s) \in Nat
    BY RemainderIs
  <2>3. s - f * FrameShift \in Nat /\ f * FrameShift \in Int
    BY <2>1, <2>2, Shifts
  <2> HIDE DEF f
  <2> QED
    BY <2>1, <2>3
<1>2. CASE s < FrameSize
  <2>1. f = 0
    BY <1>2, FramesBounds
  <2>2. rest = s + n
    BY <2>1, FramingAssumption
  <2>3. g \in Nat
    BY <1>1, FramesBounds
  <2> QED
    BY <2>1, <2>2, <2>3
<1>3. CASE s >= FrameSize
  <2>1. /\ f >= 1
        /\ f * FrameShift + FrameSize - FrameShift <= s
        /\ s < f * FrameShift + FrameSize
    BY <1>3, FramesBounds
  <2>2. CASE rest < FrameSize
    <3>1. g = 0
      BY <1>1, <2>2, FramesBounds
    <3> HIDE DEF f
    <3>2. Frames(s + n) = f
      BY <1>1, <1>3, <2>1, <2>2, FramesAre, FramingAssumption
    <3> QED
      BY <1>1, <3>1, <3>2 DEF f
  <2>3. CASE rest >= FrameSize
    <3>1. /\ g \in Nat
          /\ g * FrameShift + FrameSize - FrameShift <= rest
          /\ rest < g * FrameShift + FrameSize
      BY <1>1, <2>3, FramesBounds
    <3> HIDE DEF f, g
    <3>2. g * FrameShift \in Int /\ (f + g) * FrameShift = f * FrameShift + g * FrameShift
      BY <1>1, <3>1, Shifts
    <3>3. /\ s + n \in Nat /\ f + g \in Nat /\ s + n >= FrameSize
          /\ (f + g) * FrameShift + FrameSize - FrameShift <= s + n
          /\ s + n < (f + g) * FrameShift + FrameSize
      BY <1>1, <1>3, <3>1, <3>2, FramingAssumption
    <3>4. Frames(s + n) = f + g
      BY <3>3, FramesAre
    <3> QED
      BY <3>4 DEF f, g
  <2> QED
    BY <1>1, <2>2, <2>3, FramingAssumption
<1> QED
  BY <1>2, <1>3, FramingAssumption

\* Multiples of the shift keep the order.
LEMMA ShiftsGrow ==
    ASSUME NEW a \in Int, NEW b \in Int, a <= b
    PROVE  a * FrameShift \in Int /\ b * FrameShift \in Int /\ a * FrameShift <= b * FrameShift
<1>1. a * FrameShift \in Int /\ (a < b => a * FrameShift + FrameShift <= b * FrameShift)
  BY Shifts
<1>2. b * FrameShift \in Int
  BY Shifts
<1>3. CASE a = b
  BY <1>2, <1>3
<1>4. CASE a < b
  BY <1>1, <1>2, <1>4, FramingAssumption
<1> QED
  BY <1>3, <1>4

\* The frames of n samples end within them, and less than a frame is left.
LEMMA FrameEdges ==
    ASSUME NEW n \in Nat
    PROVE  /\ Frames(n) \in Nat /\ Frames(n) * FrameShift \in Nat
           /\ Frames(n) * FrameShift <= n
           /\ n < Frames(n) * FrameShift + FrameSize
<1>1. Frames(n) \in Nat
  BY FramesBounds
<1>2. 0 * FrameShift = 0 /\ 0 * FrameShift <= Frames(n) * FrameShift
  BY <1>1, ShiftsGrow, FramingAssumption
<1>3. Frames(n) * FrameShift \in Int
  BY <1>1, Shifts
<1>4. CASE n < FrameSize
  <2>1. Frames(n) = 0
    BY <1>4, FramesBounds
  <2>2. Frames(n) * FrameShift = 0
    BY <2>1, FramingAssumption
  <2> QED
    BY <1>1, <1>4, <2>2, FramingAssumption
<1>5. CASE n >= FrameSize
  <2>1. /\ Frames(n) * FrameShift + FrameSize - FrameShift <= n
        /\ n < Frames(n) * FrameShift + FrameSize
    BY <1>5, FramesBounds
  <2> QED
    BY <1>1, <1>2, <1>3, <2>1, FramingAssumption
<1> QED
  BY <1>4, <1>5, FramingAssumption

-----------------------------------------------------------------------------
(* What a frame's result tells.                                            *)

\* What the result of a frame tells about the segment the detector has open.
LEMMA EventTells ==
    ASSUME IInv, NEW raw \in RawProbs, ProcessOneFrame(raw)
    PROVE  /\ r'.is_speech_start \in BOOLEAN /\ r'.is_speech_end \in BOOLEAN
           /\ r'.is_speech_end =>
                  /\ r'.speech_start_frame > 0 /\ r'.speech_end_frame > 0
                  /\ last_speech_start_frame' = -1
           /\ ~r'.is_speech_end =>
                  /\ r'.is_speech_start =>
                         /\ last_speech_start_frame' = r'.speech_start_frame
                         /\ last_speech_start_frame' >= 1
                  /\ ~r'.is_speech_start =>
                         last_speech_start_frame' = last_speech_start_frame
<1>1. Switch
  BY DEF ProcessOneFrame, Switch
<1>2. IInv'
  BY FrameInv
<1>3. TypeOK /\ TypeOK' /\ SegmentsApart /\ SegmentsApart' /\ StartOnRecord
  BY <1>2 DEF IInv
<1>4. r'.is_speech_start \in BOOLEAN /\ r'.is_speech_end \in BOOLEAN
  BY <1>3 DEF TypeOK
<1>5. now \in Nat /\ now >= 1
  BY <1>3, FireRedAssumption DEF TypeOK, now
<1>6. CASE NoBoundary
  <2>1. /\ ~r'.is_speech_end
        /\ r'.is_speech_start <=> hit_max_speech
        /\ r'.speech_start_frame = IF hit_max_speech THEN now ELSE -1
    BY <1>6 DEF NoBoundary, Result0, Result
  <2>2. last_speech_start_frame' = IF hit_max_speech THEN now ELSE last_speech_start_frame
    BY <1>6 DEF NoBoundary, Start0
  <2> QED
    BY <1>3, <1>4, <1>5, <2>1, <2>2 DEF TypeOK
<1>7. CASE SpeechConfirmed
  <2>1. /\ r'.is_speech_start /\ ~r'.is_speech_end
        /\ last_speech_start_frame' = r'.speech_start_frame
    BY <1>7 DEF SpeechConfirmed, Result
  <2>2. last_speech_start_frame' >= 1
    BY <1>3, <1>5, <1>7, Constants
       DEF SpeechConfirmed, PaddedStart, TypeOK, Larger
  <2> QED
    BY <1>4, <2>1, <2>2
<1>8. CASE SpeechTooLong \/ SilenceConfirmed
  <2>1. PICK forced \in BOOLEAN : EndSegment(forced)
    BY <1>8 DEF SpeechTooLong, SilenceConfirmed
  <2>2. /\ r'.is_speech_end /\ last_speech_start_frame' = -1
        /\ r'.speech_start_frame = Start0 /\ r'.speech_end_frame = now
    BY <2>1 DEF EndSegment, Result
  <2>3. Start0 >= 1
    BY <1>3, <1>5, <1>8
       DEF Start0, StartOnRecord, SegmentsApart, InSegment, SpeechTooLong, SilenceConfirmed, TypeOK
  <2>4. Start0 \in Int
    BY <1>3, <1>5 DEF Start0, TypeOK
  <2> QED
    BY <1>4, <1>5, <2>2, <2>3, <2>4
<1> QED
  BY <1>1, <1>6, <1>7, <1>8
     DEF Switch, OnSpeech, OnSilence, SilenceStays, SpeechSuspected, SuspicionGrows,
         SuspicionDropped, SpeechGoesOn, SilenceSuspected, SilenceGrows

-----------------------------------------------------------------------------
(* What is wanted only moves on.                                           *)

\* The frames before the start of the open segment or, when none is open, of
\* the next one: it cannot reach further back than the padding before the run
\* of speech that is suspected, nor into the last segment.
Wanted ==
    IF last_speech_start_frame # -1 THEN last_speech_start_frame - 1
    ELSE Larger(Larger(0, frame_cnt - speech_cnt - PadStart), last_speech_end_frame)

\* The numbers of the detector.
LEMMA Numbers ==
    ASSUME IInv
    PROVE  /\ frame_cnt \in Nat /\ speech_cnt \in Nat /\ hit_max_speech \in BOOLEAN
           /\ last_speech_start_frame \in Int /\ last_speech_end_frame \in Int
           /\ last_speech_end_frame \in {-1} \cup 1 .. frame_cnt
           /\ PadStart \in Nat /\ PadStart >= 1
           /\ now = frame_cnt + 1
<1>1. PadStart \in Nat /\ PadStart >= 1
  BY Constants
<1>2. TypeOK /\ EndInPast
  BY DEF IInv
<1> QED
  BY <1>1, <1>2, FireRedAssumption DEF TypeOK, EndInPast, now

\* Between a forced end and the frame that reopens the segment, the next frame
\* is wanted; else the open segment's start is, and it has been seen.
LEMMA WantedIs ==
    ASSUME IInv
    PROVE  /\ Wanted \in Nat /\ Wanted <= frame_cnt
           /\ hit_max_speech => Wanted = frame_cnt
           /\ InSegment => Wanted = Start0 - 1
           /\ ~InSegment => /\ last_speech_start_frame = -1 /\ ~hit_max_speech
                            /\ Wanted = Larger(Larger(0, frame_cnt - speech_cnt - PadStart),
                                               last_speech_end_frame)
           /\ last_speech_start_frame # -1 => Wanted = last_speech_start_frame - 1
<1> USE Numbers
<1>1. StartOnRecord /\ SegmentsApart /\ ForcedEnd
  BY DEF IInv
<1>2. CASE hit_max_speech
  <2>1. /\ InSegment /\ speech_cnt = 0 /\ last_speech_end_frame = frame_cnt
        /\ last_speech_start_frame = -1
    BY <1>1, <1>2 DEF StartOnRecord, ForcedEnd, InSegment
  <2>2. Wanted = frame_cnt
    BY <2>1 DEF Wanted, Larger
  <2> QED
    BY <1>2, <2>1, <2>2 DEF Start0
<1>3. CASE ~hit_max_speech /\ InSegment
  <2>1. /\ last_speech_start_frame # -1 /\ 1 <= last_speech_start_frame
        /\ last_speech_start_frame <= frame_cnt
    BY <1>1, <1>3 DEF StartOnRecord, SegmentsApart
  <2>2. Wanted = last_speech_start_frame - 1
    BY <2>1 DEF Wanted
  <2> QED
    BY <1>3, <2>1, <2>2 DEF Start0
<1>4. CASE ~InSegment
  <2>1. ~hit_max_speech
    BY <1>1, <1>4 DEF ForcedEnd, InSegment
  <2>2. last_speech_start_frame = -1
    BY <1>1, <1>4 DEF StartOnRecord
  <2>3. Wanted = Larger(Larger(0, frame_cnt - speech_cnt - PadStart), last_speech_end_frame)
    BY <2>2 DEF Wanted
  <2> QED
    BY <1>4, <2>1, <2>2, <2>3 DEF Larger
<1> QED
  BY <1>2, <1>3, <1>4

\* A frame never asks for audio from before what was wanted, and a segment it
\* ends began exactly there and has the frame itself.
LEMMA WantedGrows ==
    ASSUME IInv, NEW raw \in RawProbs, ProcessOneFrame(raw)
    PROVE  /\ Wanted' \in Nat /\ Wanted <= Wanted'
           /\ frame_cnt' = frame_cnt + 1
           /\ Larger(0, last_speech_end_frame) <= Larger(0, last_speech_end_frame')
           /\ r'.is_speech_end =>
                  /\ r'.speech_start_frame = Wanted + 1
                  /\ r'.speech_end_frame = frame_cnt + 1
                  /\ last_speech_end_frame' = frame_cnt + 1
<1> USE Numbers
<1>1. Switch /\ frame_cnt' = frame_cnt + 1
  BY DEF ProcessOneFrame, Switch, Prologue
<1>2. /\ Wanted \in Nat /\ Wanted <= frame_cnt
      /\ InSegment => Wanted = Start0 - 1
      /\ ~InSegment => /\ last_speech_start_frame = -1 /\ ~hit_max_speech
                       /\ Wanted = Larger(Larger(0, frame_cnt - speech_cnt - PadStart),
                                          last_speech_end_frame)
  BY WantedIs
<1>3. CASE NoBoundary /\ InSegment
  <2>1. /\ last_speech_start_frame' = Start0 /\ ~r'.is_speech_end
        /\ last_speech_end_frame' = last_speech_end_frame
    BY <1>3 DEF NoBoundary, Result0, Result
  <2>2. Start0 # -1
    BY <1>2, <1>3
  <2>3. Wanted' = Wanted
    BY <1>2, <1>3, <2>1, <2>2 DEF Wanted
  <2> QED
    BY <1>1, <1>2, <2>1, <2>3 DEF Larger
<1>4. ASSUME NoBoundary, ~InSegment, speech_cnt' \in {0, speech_cnt + 1}
      PROVE  /\ Wanted' \in Nat /\ Wanted <= Wanted' /\ ~r'.is_speech_end
             /\ last_speech_end_frame' = last_speech_end_frame
  <2>1. /\ last_speech_start_frame' = -1 /\ ~r'.is_speech_end
        /\ last_speech_end_frame' = last_speech_end_frame
    BY <1>2, <1>4 DEF NoBoundary, Result0, Result, Start0
  <2>2. Wanted' = Larger(Larger(0, frame_cnt' - speech_cnt' - PadStart), last_speech_end_frame)
    BY <2>1 DEF Wanted
  <2>3. frame_cnt - speech_cnt <= frame_cnt' - speech_cnt' /\ speech_cnt' \in Nat
    BY <1>1, <1>4
  <2> QED
    BY <1>1, <1>2, <1>4, <2>1, <2>2, <2>3 DEF Larger
<1>5. CASE SpeechConfirmed
  <2>1. /\ ~InSegment /\ ~r'.is_speech_end
        /\ last_speech_start_frame' = PaddedStart(speech_cnt + 1)
        /\ last_speech_end_frame' = last_speech_end_frame
    BY <1>5 DEF SpeechConfirmed, InSegment, Result
  <2>2. PaddedStart(speech_cnt + 1) = Wanted + 1
    BY <1>2, <2>1 DEF PaddedStart, Larger
  <2>3. Wanted' = Wanted
    BY <1>2, <2>1, <2>2 DEF Wanted
  <2> QED
    BY <1>1, <1>2, <2>1, <2>3 DEF Larger
<1>6. CASE SpeechTooLong \/ SilenceConfirmed
  <2>1. PICK forced \in BOOLEAN : EndSegment(forced)
    BY <1>6 DEF SpeechTooLong, SilenceConfirmed
  <2>2. /\ InSegment /\ speech_cnt' = 0 /\ last_speech_start_frame' = -1
        /\ last_speech_end_frame' = now
        /\ r'.speech_start_frame = Start0 /\ r'.speech_end_frame = now
    BY <1>6, <2>1 DEF SpeechTooLong, SilenceConfirmed, InSegment, EndSegment, Result
  <2>3. Wanted' = frame_cnt + 1
    BY <1>1, <2>2 DEF Wanted, Larger
  <2>4. Start0 = Wanted + 1
    <3>1. Start0 \in Int
      BY DEF Start0
    <3> QED
      BY <1>2, <2>2, <3>1
  <2> QED
    BY <1>1, <1>2, <2>2, <2>3, <2>4 DEF Larger
<1>7. CASE SilenceStays \/ SpeechSuspected \/ SuspicionGrows \/ SuspicionDropped
  <2>1. NoBoundary /\ ~InSegment /\ speech_cnt' \in {0, speech_cnt + 1}
    BY <1>7 DEF SilenceStays, SpeechSuspected, SuspicionGrows, SuspicionDropped, InSegment
  <2>2. /\ Wanted' \in Nat /\ Wanted <= Wanted' /\ ~r'.is_speech_end
        /\ last_speech_end_frame' = last_speech_end_frame
    BY <1>4, <2>1
  <2> QED
    BY <1>1, <2>2 DEF Larger
<1>8. CASE SpeechGoesOn \/ SilenceSuspected \/ SilenceGrows
  <2>1. NoBoundary /\ InSegment
    BY <1>8 DEF SpeechGoesOn, SilenceSuspected, SilenceGrows, InSegment
  <2> QED
    BY <1>3, <2>1
<1> QED
  BY <1>1, <1>5, <1>6, <1>7, <1>8 DEF Switch, OnSpeech, OnSilence

\* The last end comes before what is wanted.
LEMMA EndBeforeWanted ==
    ASSUME IInv
    PROVE  Larger(0, last_speech_end_frame) \in Nat /\ Larger(0, last_speech_end_frame) <= Wanted
<1>1. SegmentsApart
  BY DEF IInv
<1>2. CASE last_speech_start_frame # -1
  BY <1>1, <1>2, Numbers, WantedIs DEF SegmentsApart, Larger
<1>3. CASE last_speech_start_frame = -1
  BY <1>3, Numbers DEF Wanted, Larger
<1> QED
  BY <1>2, <1>3

-----------------------------------------------------------------------------
(* Audio that arrives in pieces.                                           *)

\* The counters of a stream are numbers.
StreamCounted == frame_cnt \in Nat /\ todo \in Nat /\ lost \in Nat

\* Samples stitched to the remainder are cut into the frames that follow.
LEMMA CutKeepsFraming ==
    ASSUME NEW s \in Nat, NEW n \in Nat, FramedWhole(s), StreamCounted, todo = 0,
           Cut(audio_remainder + n, lost), UNCHANGED frame_cnt
    PROVE  /\ StreamCounted' /\ lost' >= lost
           /\ frame_cnt' + todo' + lost' = Frames(s + n)
           /\ audio_remainder' = (s + n) - Frames(s + n) * FrameShift
<1> DEFINE f == Frames(s)
           rest == audio_remainder + n
           g == Frames(rest)
<1>1. rest = s - f * FrameShift + n /\ rest \in Nat
  <2>1. audio_remainder = Remainder(s) /\ audio_remainder \in Nat
    BY RemainderIs DEF FramedWhole
  <2> QED
    BY <2>1 DEF FramedWhole
<1>2. Frames(s + n) = f + g
  BY <1>1, FramesAppend
<1>3. f \in Nat /\ g \in Nat
  BY <1>1, FramesBounds
<1>4. audio_remainder' = rest - g * FrameShift
  BY <1>1, RemainderIs DEF Cut
<1>5. /\ todo' \in Nat /\ lost' \in Nat
      /\ todo' + lost' = lost + g
  BY <1>3 DEF Cut, Forward, StreamCounted
<1>6. StreamCounted' /\ lost' >= lost
  BY <1>3, <1>5 DEF Cut, Forward, StreamCounted
<1>7. frame_cnt' + todo' + lost' = Frames(s + n)
  <2>1. frame_cnt + lost = f
    BY DEF FramedWhole, StreamCounted
  <2>2. Frames(s + n) = f + g
    BY <1>2
  <2>3. frame_cnt \in Nat /\ lost \in Nat /\ frame_cnt' = frame_cnt
    BY DEF StreamCounted
  <2>4. frame_cnt' + todo' + lost' = frame_cnt + (todo' + lost')
    BY <1>5, <2>3
  <2>5. frame_cnt + (todo' + lost') = frame_cnt + (lost + g)
    BY <1>5
  <2> HIDE DEF f, g
  <2>6. frame_cnt + (lost + g) = frame_cnt + lost + g
    BY <1>3, <2>3
  <2>7. frame_cnt + lost + g = f + g
    BY <2>1
  <2> QED
    BY <2>2, <2>4, <2>5, <2>6, <2>7
<1>8. audio_remainder' = (s + n) - Frames(s + n) * FrameShift
  <2>1. (f + g) * FrameShift = f * FrameShift + g * FrameShift
        /\ f * FrameShift \in Int /\ g * FrameShift \in Int
    BY <1>3, Shifts
  <2> HIDE DEF f, g, rest
  <2> QED
    BY <1>1, <1>2, <1>3, <1>4, <2>1 DEF StreamCounted
<1> QED
  BY <1>6, <1>7, <1>8

\* No samples, no frames.
LEMMA NoSamples == Frames(0) = 0 /\ Frames(0) * FrameShift = 0
<1>1. 0 < FrameSize
  BY FramingAssumption
<1>2. Frames(0) = 0
  BY <1>1, FramesBounds
<1> QED
  BY <1>2, FramingAssumption


-----------------------------------------------------------------------------
(* The detector inside the handle.                                         *)

\* What the handle does to the detector is what the detector allows.
LEMMA VadStepRefines ==
    ASSUME VadNext
    PROVE  [Next]_vars
<1>1. ASSUME NEW n \in ChunkSizes, PushAudio(n)
      PROVE  [Next]_vars
  BY <1>1 DEF PushAudio
<1>2. ASSUME NEW n \in ChunkSizes, NEW cap \in Capacities, DetectFull(n, cap)
      PROVE  [Next]_vars
  BY <1>2 DEF DetectFull, ClearHandle, Next
<1>3. ASSUME NEW raw \in RawProbs, Frame(raw)
      PROVE  [Next]_vars
  BY <1>3 DEF Frame, NextFrame, Next
<1>4. CASE PushReturns \/ DetectReturns
  BY <1>4 DEF PushReturns, DetectReturns
<1>5. ASSUME NEW cap \in Capacities, DrainSegments(cap) \/ DrainFrames(cap)
      PROVE  [Next]_vars
  BY <1>5 DEF DrainSegments, DrainFrames
<1>6. ASSUME NEW t \in Thresholds, VadSetThreshold(t)
      PROVE  [Next]_vars
  BY <1>6 DEF VadSetThreshold, Next
<1>7. CASE VadReset
  BY <1>7 DEF VadReset, ClearHandle, Next
<1> QED
  BY <1>1, <1>2, <1>3, <1>4, <1>5, <1>6, <1>7 DEF VadNext

\* The handle drives the detector only as the detector allows, so everything
\* proved of the detector holds of it inside the handle.
THEOREM DetectorInside == VadSpec => Spec
<1>1. VadInit => Init
  BY DEF VadInit, StreamInit
<1>2. [VadNext]_allVars => [Next]_vars
  BY VadStepRefines DEF allVars, vars
<1> QED
  BY <1>1, <1>2, PTL DEF VadSpec, Spec

-----------------------------------------------------------------------------
(* The inductive invariant of the handle, next to the detector's.          *)

\* Between calls no frame is waiting, and a one-shot call has nothing flushed.
CallInProgress ==
    /\ call \in {"none", "push", "detect"}
    /\ Idle => todo = 0
    /\ call = "detect" => flush = "none"

HandleCounted ==
    /\ frame_cnt \in Nat /\ todo \in Nat /\ lost \in Nat
    /\ samples_in \in Nat

\* The open segment of the handle is the detector's, also within a call.
SameOpenSegment ==
    /\ in_speech \in BOOLEAN
    /\ flush = "none" =>
           /\ in_speech <=> (last_speech_start_frame # -1)
           /\ in_speech => seg_start_sample = (last_speech_start_frame - 1) * FrameShift

\* What rs_vad_is_speech says between calls.
FlagRaised == (Idle /\ flush = "none" /\ in_speech) => is_speech_flag

VInv ==
    /\ CallInProgress
    /\ HandleCounted
    /\ FramedWhole(samples_in)
    /\ SameOpenSegment
    /\ FlagRaised

\* Samples stitched to the remainder are cut into the frames that follow.
LEMMA PushKeepsFraming ==
    ASSUME FramedWhole(samples_in), HandleCounted, todo = 0, NEW n \in Nat,
           Cut(audio_remainder + n, lost), samples_in' = samples_in + n, UNCHANGED frame_cnt
    PROVE  HandleCounted' /\ FramedWhole(samples_in)'
<1>1. samples_in \in Nat /\ StreamCounted
  BY DEF HandleCounted, StreamCounted
<1>2. /\ StreamCounted'
      /\ frame_cnt' + todo' + lost' = Frames(samples_in + n)
      /\ audio_remainder' = (samples_in + n) - Frames(samples_in + n) * FrameShift
  BY <1>1, CutKeepsFraming
<1>3. HandleCounted'
  BY <1>1, <1>2 DEF HandleCounted, StreamCounted
<1>4. frame_cnt' + todo' + lost' = Frames(samples_in')
  BY <1>2
<1>5. audio_remainder' = samples_in' - Frames(samples_in') * FrameShift
  BY <1>2
<1> QED
  BY <1>3, <1>4, <1>5 DEF FramedWhole

\* A stream that begins with n samples at once.
LEMMA FirstCut ==
    ASSUME NEW n \in Nat, Cut(n, 0), samples_in' = n, frame_cnt' = 0
    PROVE  HandleCounted' /\ FramedWhole(samples_in)'
<1>1. Frames(n) \in Nat
  BY FramesBounds
<1>2. /\ todo' \in Nat /\ lost' \in Nat
      /\ todo' + lost' = Frames(n)
  BY <1>1 DEF Cut, Forward
<1>3. audio_remainder' = n - Frames(n) * FrameShift
  BY RemainderIs DEF Cut
<1> QED
  BY <1>1, <1>2, <1>3 DEF HandleCounted, FramedWhole

\* One frame through the detector, and its result into the queues.
LEMMA FrameSafe ==
    ASSUME IInv, VInv, NEW raw \in RawProbs, Frame(raw)
    PROVE  VInv'
<1>1. /\ ~Idle /\ UNCHANGED <<call, flush, samples_in, audio_remainder, lost>>
      /\ todo > 0 /\ todo' = todo - 1
      /\ ProcessOneFrame(raw)
  BY DEF Frame, NextFrame
<1>2. frame_cnt' = frame_cnt + 1
  BY <1>1 DEF ProcessOneFrame, Prologue, now
<1>3. CallInProgress'
  BY <1>1 DEF VInv, CallInProgress, Idle
<1>4. HandleCounted' /\ FramedWhole(samples_in)'
  BY <1>1, <1>2 DEF VInv, HandleCounted, FramedWhole
<1>5. SameOpenSegment'
  <2> DEFINE onset == r'.is_speech_start
             final == r'.is_speech_end
  <2>1. /\ onset \in BOOLEAN /\ final \in BOOLEAN
        /\ final => /\ r'.speech_start_frame > 0 /\ r'.speech_end_frame > 0
                    /\ last_speech_start_frame' = -1
        /\ ~final => /\ onset => /\ last_speech_start_frame' = r'.speech_start_frame
                                 /\ last_speech_start_frame' >= 1
                     /\ ~onset => last_speech_start_frame' = last_speech_start_frame
    BY <1>1, EventTells
  <2>2. seg_start_sample' = IF onset THEN (r'.speech_start_frame - 1) * FrameShift
                            ELSE seg_start_sample
    BY DEF Frame
  <2>3. IF final /\ r'.speech_start_frame > 0 /\ r'.speech_end_frame > 0
        THEN in_speech' = FALSE
        ELSE in_speech' = (in_speech \/ onset)
    BY DEF Frame
  <2>4. CASE final
    <3>1. in_speech' = FALSE
      BY <2>1, <2>3, <2>4
    <3> QED
      BY <2>1, <2>4, <3>1 DEF SameOpenSegment
  <2>5. CASE ~final /\ onset
    <3>1. in_speech' = TRUE
      BY <2>3, <2>5
    <3>2. last_speech_start_frame' # -1
      BY <2>1, <2>5
    <3> QED
      BY <2>1, <2>2, <2>5, <3>1, <3>2 DEF SameOpenSegment
  <2>6. CASE ~final /\ ~onset
    <3>1. in_speech' = in_speech
      BY <2>3, <2>6 DEF VInv, SameOpenSegment
    <3> QED
      BY <1>1, <2>1, <2>2, <2>6, <3>1 DEF VInv, SameOpenSegment
  <2> QED
    BY <2>4, <2>5, <2>6
<1>6. FlagRaised'
  BY <1>1 DEF FlagRaised, Idle
<1> QED
  BY <1>3, <1>4, <1>5, <1>6 DEF VInv

\* A reset leaves nothing open in the detector and nothing cut.
LEMMA AfterReset ==
    ASSUME ClearHandle
    PROVE  /\ frame_cnt' = 0 /\ last_speech_start_frame' = -1
           /\ in_speech' = FALSE /\ flush' = "none"
BY DEF ClearHandle, Reset

\* A new handle satisfies it.
LEMMA VadInitInv == VadInit => VInv
<1> SUFFICES ASSUME VadInit PROVE VInv
  OBVIOUS
<1>1. /\ frame_cnt = 0 /\ todo = 0 /\ lost = 0 /\ samples_in = 0 /\ audio_remainder = 0
      /\ last_speech_start_frame = -1 /\ call = "none" /\ flush = "none"
      /\ in_speech = FALSE
  BY DEF VadInit, StreamInit, Init
<1>2. FramedWhole(samples_in)
  BY <1>1, NoSamples DEF FramedWhole
<1> QED
  BY <1>1, <1>2 DEF VInv, CallInProgress, HandleCounted, SameOpenSegment, FlagRaised, Idle

\* Every step of the handle keeps its invariant, next to the detector's.
LEMMA VadNextInv ==
    ASSUME IInv, VInv, [VadNext]_allVars
    PROVE  VInv'
<1> USE DEF VInv
<1>1. ASSUME NEW n \in ChunkSizes, PushAudio(n)
      PROVE  VInv'
  <2>1. n \in Nat
    BY VadAssumption
  <2>2. /\ todo = 0 /\ Cut(audio_remainder + n, lost) /\ samples_in' = samples_in + n
        /\ frame_cnt' = frame_cnt
    BY <1>1 DEF PushAudio, CallInProgress, vars
  <2>3. HandleCounted' /\ FramedWhole(samples_in)'
    BY <2>1, <2>2, PushKeepsFraming
  <2>4. /\ call' = "push" /\ in_speech' = in_speech
        /\ seg_start_sample' = seg_start_sample
        /\ last_speech_start_frame' = last_speech_start_frame
        /\ flush' = "none" => flush = "none"
    BY <1>1 DEF PushAudio, handle, vars
  <2> QED
    BY <2>3, <2>4 DEF CallInProgress, SameOpenSegment, FlagRaised, Idle
<1>2. ASSUME NEW n \in ChunkSizes, NEW cap \in Capacities, DetectFull(n, cap)
      PROVE  VInv'
  <2>1. n \in Nat
    BY VadAssumption
  <2>2. ClearHandle /\ call' = "detect" /\ samples_in' = n /\ Cut(n, 0)
    BY <1>2 DEF DetectFull
  <2>3. HandleCounted' /\ FramedWhole(samples_in)'
    BY <2>1, <2>2, AfterReset, FirstCut
  <2> QED
    BY <2>2, <2>3, AfterReset DEF CallInProgress, SameOpenSegment, FlagRaised, Idle
<1>3. ASSUME NEW raw \in RawProbs, Frame(raw)
      PROVE  VInv'
  BY <1>3, FrameSafe
<1>4. CASE PushReturns
  <2>1. in_speech /\ flush = "none" => InSegment
    BY DEF SameOpenSegment, IInv, StartOnRecord
  <2> QED
    BY <1>4, <2>1 DEF PushReturns, vars, stream, CallInProgress, HandleCounted, FramedWhole,
       SameOpenSegment, FlagRaised, Idle
<1>5. CASE DetectReturns
  <2>1. /\ call' = "none" /\ todo = 0 /\ in_speech' = FALSE /\ flush = "none"
        /\ flush' = IF in_speech THEN "last" ELSE "none"
        /\ UNCHANGED <<frame_cnt, last_speech_start_frame, audio_remainder, todo, lost,
                       samples_in>>
    BY <1>5 DEF DetectReturns, vars, stream, CallInProgress
  <2> QED
    BY <2>1 DEF CallInProgress, HandleCounted, FramedWhole, SameOpenSegment, FlagRaised, Idle
<1>6. ASSUME NEW cap \in Capacities, DrainSegments(cap) \/ DrainFrames(cap)
      PROVE  VInv'
  BY <1>6 DEF DrainSegments, DrainFrames, vars, stream, CallInProgress, HandleCounted,
     FramedWhole, SameOpenSegment, FlagRaised, Idle
<1>7. ASSUME NEW t \in Thresholds, VadSetThreshold(t)
      PROVE  VInv'
  BY <1>7 DEF VadSetThreshold, SetThreshold, handle, stream, CallInProgress, HandleCounted,
     FramedWhole, SameOpenSegment, FlagRaised, Idle
<1>8. CASE VadReset
  <2>1. /\ ClearHandle /\ samples_in' = 0 /\ audio_remainder' = 0 /\ lost' = 0
        /\ todo' = 0 /\ call' = "none"
    BY <1>8 DEF VadReset, CallInProgress, Idle
  <2>2. FramedWhole(samples_in)'
    BY <2>1, AfterReset, NoSamples DEF FramedWhole
  <2> QED
    BY <2>1, <2>2, AfterReset DEF CallInProgress, HandleCounted, SameOpenSegment, FlagRaised, Idle
<1>9. CASE UNCHANGED allVars
  BY <1>9 DEF allVars, vars, stream, handle, CallInProgress, HandleCounted, FramedWhole,
     SameOpenSegment, FlagRaised, Idle
<1> QED
  BY <1>1, <1>2, <1>3, <1>4, <1>5, <1>6, <1>7, <1>8, <1>9 DEF VadNext

\* The handle's invariant holds throughout, for every cut of the audio.
THEOREM HandleInvariance == VadSpec => []VInv
<1>1. VadSpec => []IInv
  BY DetectorInside, Invariance, PTL
<1>2. VadInit => VInv
  BY VadInitInv
<1>3. IInv /\ VInv /\ [VadNext]_allVars => VInv'
  BY VadNextInv
<1> QED
  BY <1>1, <1>2, <1>3, PTL DEF VadSpec

\* However a caller cuts the audio into pushes, the frames the detector has
\* seen, those it is about to see and those a failed Forward dropped are the
\* frames of the whole signal (DetectStreamingChunk's audio_remainder).
THEOREM ChunkingNeverShows == VadSpec => []ChunkingInvisible
<1>1. VInv => ChunkingInvisible
  BY DEF VInv, ChunkingInvisible
<1> QED
  BY <1>1, HandleInvariance, PTL

\* Between calls and up to a flush, the segment the handle has open from the
\* events is the one the detector has open, and rs_vad_is_speech admits it.
THEOREM HandleAgrees == VadSpec => []HandleFollowsDetector
<1>1. VInv => HandleFollowsDetector
  BY DEF VInv, HandleFollowsDetector, SameOpenSegment, FlagRaised
<1> QED
  BY <1>1, HandleInvariance, PTL
-----------------------------------------------------------------------------
(* The order of what is reported.                                          *)

Segments == Int \X Int

\* All of them end by e.
EndBy(segs, e) == \A i \in DOMAIN segs : segs[i][2] <= e

\* What is reported is in order and, up to a flush, ends by the detector's last
\* end.  A flush is the last thing a one-shot call does.
OInv ==
    /\ taken \in Seq(Segments) /\ seg_q \in Seq(Segments) /\ capacity \in Nat
    /\ flush \in {"none", "last", "stale"}
    /\ flush = "last" => Idle
    /\ SegmentsOrdered
    /\ flush = "none" => EndBy(Reported, Larger(0, last_speech_end_frame) * FrameShift)

\* A queue splits into what is handed over and what is kept.
LEMMA DrainSplits ==
    ASSUME NEW T, NEW q \in Seq(T), NEW n \in Nat
    PROVE  /\ Handed(q, n) \in Seq(T) /\ Kept(q, n) \in Seq(T)
           /\ Handed(q, n) \o Kept(q, n) = q
<1> DEFINE k == Smaller(n, Len(q))
<1>1. k \in 0 .. Len(q) /\ Len(q) \in Nat
  BY DEF Smaller
<1> HIDE DEF k
<1>2. SubSeq(q, 1, k) \o SubSeq(q, k + 1, Len(q)) = SubSeq(q, 1, Len(q))
  <2>1. 1 \in 1 .. Len(q) + 1 /\ k \in 1 - 1 .. Len(q) /\ Len(q) \in k .. Len(q)
    BY <1>1
  <2> QED
    BY <2>1, ConcatAdjacentSubSeq, Zenon
<1>3. SubSeq(q, 1, Len(q)) = q
  BY SubSeqFull
<1>4. SubSeq(q, 1, k) \in Seq(T) /\ SubSeq(q, k + 1, Len(q)) \in Seq(T)
  BY <1>1
<1> QED
  BY <1>2, <1>3, <1>4 DEF Handed, Kept, k

\* Draining a queue does not change what was reported.
LEMMA DrainKeeps ==
    ASSUME NEW T, NEW t \in Seq(T), NEW q \in Seq(T), NEW n \in Nat
    PROVE  (t \o Handed(q, n)) \o Kept(q, n) = t \o q /\ t \o Handed(q, n) \in Seq(T)
<1> DEFINE h == Handed(q, n)
           k == Kept(q, n)
<1>1. h \in Seq(T) /\ k \in Seq(T)
  BY DrainSplits
<1>2. h \o k = q
  BY DrainSplits
<1> HIDE DEF h, k
<1>3. (t \o h) \o k = t \o (h \o k)
  BY <1>1, ConcatAssociative
<1>4. t \o h \in Seq(T)
  BY <1>1
<1> QED
  BY <1>2, <1>3, <1>4 DEF h, k

\* A segment goes behind what was reported.
LEMMA AppendBehind ==
    ASSUME NEW T, NEW t \in Seq(T), NEW q \in Seq(T), NEW x \in T
    PROVE  t \o Append(q, x) = Append(t \o q, x) /\ t \o q \in Seq(T) /\ Append(q, x) \in Seq(T)
<1>1. <<x>> \in Seq(T) /\ Append(q, x) = q \o <<x>> /\ t \o q \in Seq(T)
  BY AppendIsConcat
<1>2. Append(t \o q, x) = (t \o q) \o <<x>>
  BY <1>1, AppendIsConcat
<1>3. (t \o q) \o <<x>> = t \o (q \o <<x>>)
  BY <1>1, ConcatAssociative
<1> QED
  BY <1>1, <1>2, <1>3

\* A segment that begins after all the others keeps them in order.
LEMMA OrderedAppend ==
    ASSUME NEW q \in Seq(Segments), NEW a \in Int, NEW b \in Int, NEW limit \in Int,
           OrderedWithin(q, limit), a < b, b <= limit, EndBy(q, a)
    PROVE  OrderedWithin(Append(q, <<a, b>>), limit) /\ EndBy(Append(q, <<a, b>>), b)
<1> DEFINE w == Append(q, <<a, b>>)
<1>1. /\ Len(q) \in Nat /\ Len(w) = Len(q) + 1 /\ DOMAIN q = 1 .. Len(q) /\ DOMAIN w = 1 .. Len(w)
      /\ w[Len(q) + 1] = <<a, b>>
      /\ \A i \in 1 .. Len(q) : w[i] = q[i] /\ q[i] \in Segments
  BY DEF Segments
<1> HIDE DEF w
<1>2. /\ \A i \in 1 .. Len(q) : q[i][1] < q[i][2] /\ q[i][2] <= limit /\ q[i][2] <= a
      /\ \A i \in 1 .. Len(q) - 1 : q[i][2] <= q[i + 1][1]
  BY <1>1 DEF OrderedWithin, EndBy
<1>3. ASSUME NEW i \in 1 .. Len(q) + 1
      PROVE  w[i][1] < w[i][2] /\ w[i][2] <= limit /\ w[i][2] <= b
  <2>1. CASE i = Len(q) + 1
    BY <1>1, <2>1
  <2>2. CASE i \in 1 .. Len(q)
    BY <1>1, <1>2, <2>2 DEF Segments
  <2> QED
    BY <1>1, <2>1, <2>2
<1>4. ASSUME NEW i \in 1 .. Len(q)
      PROVE  w[i][2] <= w[i + 1][1]
  <2>1. CASE i = Len(q)
    BY <1>1, <1>2, <2>1
  <2>2. CASE i \in 1 .. Len(q) - 1
    BY <1>1, <1>2, <2>2
  <2>3. Len(q) \in Nat
    BY <1>1
  <2> QED
    BY <2>1, <2>2, <2>3
<1>5. Len(w) - 1 = Len(q) /\ DOMAIN w = 1 .. Len(q) + 1
  BY <1>1
<1>6. OrderedWithin(w, limit) /\ EndBy(w, b)
  BY <1>3, <1>4, <1>5 DEF OrderedWithin, EndBy
<1> QED
  BY <1>6 DEF w

\* More audio does not disturb the order.
LEMMA OrderedLater ==
    ASSUME NEW q \in Seq(Segments), NEW m \in Int, NEW n \in Int, m <= n, OrderedWithin(q, m)
    PROVE  OrderedWithin(q, n)
<1>1. \A i \in DOMAIN q : q[i] \in Segments
  OBVIOUS
<1> QED
  BY <1>1 DEF OrderedWithin, Segments
\* An end that bounds them stays a bound when it moves on.
LEMMA EndLater ==
    ASSUME NEW q \in Seq(Segments), NEW m \in Int, NEW n \in Int, m <= n, EndBy(q, m)
    PROVE  EndBy(q, n)
<1>1. \A i \in DOMAIN q : q[i] \in Segments
  OBVIOUS
<1> QED
  BY <1>1 DEF EndBy, Segments

\* The frames processed lie within the audio.
LEMMA FramesWithinAudio ==
    ASSUME VInv, NEW k \in Int, k <= frame_cnt + todo
    PROVE  k * FrameShift \in Int /\ samples_in \in Nat /\ k * FrameShift <= samples_in
<1>1. samples_in \in Nat /\ k <= Frames(samples_in)
  BY DEF VInv, HandleCounted, FramedWhole
<1>2. /\ Frames(samples_in) \in Nat /\ Frames(samples_in) * FrameShift \in Nat
      /\ Frames(samples_in) * FrameShift <= samples_in
  BY <1>1, FrameEdges
<1>3. k * FrameShift \in Int /\ k * FrameShift <= Frames(samples_in) * FrameShift
  BY <1>1, <1>2, ShiftsGrow
<1> QED
  BY <1>1, <1>2, <1>3

\* A segment reported by a frame begins after all the others.
LEMMA FrameReportsInOrder ==
    ASSUME IInv, VInv, OInv, NEW raw \in RawProbs, Frame(raw)
    PROVE  OInv'
<1>1. /\ ProcessOneFrame(raw) /\ todo > 0 /\ ~Idle
      /\ UNCHANGED <<call, capacity, flush, samples_in, taken>>
  BY DEF Frame, NextFrame
<1>2. /\ Wanted \in Nat /\ Wanted <= frame_cnt /\ frame_cnt \in Nat /\ todo \in Nat
      /\ Larger(0, last_speech_end_frame) \in Nat /\ Larger(0, last_speech_end_frame) <= Wanted
      /\ Larger(0, last_speech_end_frame) <= Larger(0, last_speech_end_frame')
      /\ r'.is_speech_end => /\ r'.speech_start_frame = Wanted + 1
                             /\ r'.speech_end_frame = frame_cnt + 1
                             /\ last_speech_end_frame' = frame_cnt + 1
  BY <1>1, WantedIs, WantedGrows, EndBeforeWanted DEF VInv, HandleCounted
<1>3. /\ taken \in Seq(Segments) /\ seg_q \in Seq(Segments) /\ Reported \in Seq(Segments)
      /\ flush \in {"none", "stale"} /\ SegmentsOrdered
      /\ flush = "none" => EndBy(Reported, Larger(0, last_speech_end_frame) * FrameShift)
  <2>1. taken \in Seq(Segments) /\ seg_q \in Seq(Segments)
    BY DEF OInv
  <2>2. Reported \in Seq(Segments)
    BY <2>1 DEF Reported
  <2> QED
    BY <1>1, <2>1, <2>2 DEF OInv
<1>4. CASE seg_q' = seg_q
  <2>1. Reported' = Reported
    BY <1>1, <1>4 DEF Reported
  <2>2. SegmentsOrdered'
    BY <1>1, <1>3, <2>1 DEF SegmentsOrdered
  <2>3. flush = "none" => EndBy(Reported, Larger(0, last_speech_end_frame') * FrameShift)
    <3>1. Larger(0, last_speech_end_frame') \in Int
      BY <1>1, FrameInv DEF IInv, TypeOK, Larger
    <3>2. /\ Larger(0, last_speech_end_frame) * FrameShift \in Int
          /\ Larger(0, last_speech_end_frame') * FrameShift \in Int
          /\ Larger(0, last_speech_end_frame) * FrameShift
                 <= Larger(0, last_speech_end_frame') * FrameShift
      BY <1>2, <3>1, ShiftsGrow
    <3> QED
      BY <1>3, <3>2, EndLater
  <2>4. (flush = "none" => EndBy(Reported, Larger(0, last_speech_end_frame) * FrameShift))'
    BY <1>1, <2>1, <2>3
  <2> QED
    BY <1>1, <1>3, <1>4, <2>2, <2>4 DEF OInv
<1>5. CASE seg_q' # seg_q
  <2> DEFINE a == Wanted * FrameShift
             b == (frame_cnt + 1) * FrameShift
  <2>1. r'.is_speech_end
    BY <1>5 DEF Frame
  <2>2. Segment(r'.speech_start_frame, r'.speech_end_frame) = <<a, b>>
    <3>1. r'.speech_start_frame - 1 = Wanted /\ r'.speech_end_frame = frame_cnt + 1
      BY <1>2, <2>1
    <3> QED
      BY <3>1 DEF Segment
  <2>3. seg_q' = Append(seg_q, <<a, b>>)
    BY <1>5, <2>2 DEF Frame
  <2>4. b \in Int /\ b <= samples_in /\ samples_in \in Nat
    BY <1>1, <1>2, FramesWithinAudio
  <2>5. a \in Int /\ a < b
    <3>1. Wanted \in Int /\ frame_cnt + 1 \in Int /\ Wanted < frame_cnt + 1
      BY <1>2
    <3>2. a \in Int /\ a + FrameShift <= b
      BY <3>1, Shifts
    <3> QED
      BY <2>4, <3>2, FramingAssumption
  <2>6. flush = "none" => EndBy(Reported, a)
    <3>1. /\ Larger(0, last_speech_end_frame) * FrameShift \in Int
          /\ Larger(0, last_speech_end_frame) * FrameShift <= a
      BY <1>2, ShiftsGrow
    <3> QED
      BY <1>3, <2>5, <3>1, EndLater
  <2>7. flush = "none" => Larger(0, last_speech_end_frame') * FrameShift = b
    BY <1>2, <2>1 DEF Larger
  <2> HIDE DEF a, b
  <2>8. <<a, b>> \in Segments
    BY <2>4, <2>5 DEF Segments
  <2>9. Reported' = Append(Reported, <<a, b>>) /\ seg_q' \in Seq(Segments)
    <3>1. /\ taken \o Append(seg_q, <<a, b>>) = Append(taken \o seg_q, <<a, b>>)
          /\ Append(seg_q, <<a, b>>) \in Seq(Segments)
      BY <1>3, <2>8, AppendBehind
    <3> QED
      BY <1>1, <2>3, <3>1 DEF Reported
  <2>10. flush = "none" =>
             /\ OrderedWithin(Append(Reported, <<a, b>>), samples_in)
             /\ EndBy(Append(Reported, <<a, b>>), b)
    BY <1>3, <2>4, <2>5, <2>6, OrderedAppend DEF SegmentsOrdered
  <2>11. SegmentsOrdered'
    BY <1>1, <1>3, <2>9, <2>10 DEF SegmentsOrdered
  <2>12. (flush = "none" => EndBy(Reported, Larger(0, last_speech_end_frame) * FrameShift))'
    BY <1>1, <2>7, <2>9, <2>10
  <2> QED
    BY <1>1, <1>3, <2>9, <2>11, <2>12 DEF OInv
<1> QED
  BY <1>4, <1>5

\* A one-shot call flushes the open segment, which begins after all the others.
LEMMA DetectReportsInOrder ==
    ASSUME IInv, VInv, OInv, DetectReturns
    PROVE  OInv'
<1> DEFINE all == IF in_speech THEN Append(seg_q, <<seg_start_sample, samples_in>>) ELSE seg_q
<1>1. /\ call = "detect" /\ call' = "none" /\ capacity' = 0 /\ flush = "none"
      /\ flush' = IF in_speech THEN "last" ELSE "none"
      /\ taken' = taken \o Handed(all, capacity) /\ seg_q' = Kept(all, capacity)
      /\ UNCHANGED <<last_speech_end_frame, samples_in>>
  BY DEF DetectReturns, VInv, CallInProgress, vars
<1>2. /\ taken \in Seq(Segments) /\ seg_q \in Seq(Segments) /\ capacity \in Nat
      /\ OrderedWithin(Reported, samples_in)
      /\ EndBy(Reported, Larger(0, last_speech_end_frame) * FrameShift)
  BY <1>1 DEF OInv, SegmentsOrdered
<1>3. all \in Seq(Segments) =>
          /\ taken' \in Seq(Segments) /\ seg_q' \in Seq(Segments)
          /\ Reported' = taken \o all
  <2> HIDE DEF all
  <2> SUFFICES ASSUME all \in Seq(Segments)
               PROVE  /\ taken' \in Seq(Segments) /\ seg_q' \in Seq(Segments)
                      /\ Reported' = taken \o all
    OBVIOUS
  <2>1. /\ (taken \o Handed(all, capacity)) \o Kept(all, capacity) = taken \o all
        /\ taken \o Handed(all, capacity) \in Seq(Segments)
    BY <1>2, DrainKeeps
  <2>2. Kept(all, capacity) \in Seq(Segments)
    BY <1>2, DrainSplits
  <2> QED
    BY <1>1, <2>1, <2>2 DEF Reported
<1>4. CASE ~in_speech
  <2>1. all = seg_q
    BY <1>4
  <2>2. taken' \in Seq(Segments) /\ seg_q' \in Seq(Segments) /\ Reported' = Reported
    BY <1>2, <1>3, <2>1 DEF Reported
  <2>3. flush' = "none"
    BY <1>1, <1>4
  <2> HIDE DEF all
  <2>4. SegmentsOrdered'
    BY <1>1, <1>2, <2>2 DEF SegmentsOrdered
  <2>5. (EndBy(Reported, Larger(0, last_speech_end_frame) * FrameShift))'
    BY <1>1, <1>2, <2>2
  <2> QED
    BY <1>1, <2>2, <2>3, <2>4, <2>5 DEF OInv
<1>5. CASE in_speech
  <2> DEFINE a == Wanted * FrameShift
             b == samples_in
  <2>1. /\ last_speech_start_frame # -1 /\ last_speech_start_frame <= frame_cnt
        /\ last_speech_start_frame \in Int
        /\ seg_start_sample = (last_speech_start_frame - 1) * FrameShift
    BY <1>1, <1>5, Numbers DEF VInv, SameOpenSegment, IInv, SegmentsApart
  <2>2. Wanted = last_speech_start_frame - 1 /\ Wanted \in Nat
    BY <2>1, WantedIs
  <2>3. all = Append(seg_q, <<a, b>>)
    BY <1>5, <2>1, <2>2
  <2>4. b \in Nat /\ a \in Int /\ a < b
    <3>1. Wanted + 1 \in Int /\ Wanted + 1 <= frame_cnt + todo
      BY <2>1, <2>2 DEF VInv, HandleCounted
    <3>2. b \in Nat /\ (Wanted + 1) * FrameShift <= b
      BY <3>1, FramesWithinAudio
    <3>3. (Wanted + 1) * FrameShift = a + FrameShift /\ a \in Int
      BY <2>2, OneShift, Shifts
    <3> QED
      BY <3>2, <3>3, FramingAssumption
  <2>5. EndBy(Reported, a)
    <3>1. Larger(0, last_speech_end_frame) \in Int /\ Larger(0, last_speech_end_frame) <= Wanted
      BY EndBeforeWanted
    <3>2. /\ Larger(0, last_speech_end_frame) * FrameShift \in Int
          /\ Larger(0, last_speech_end_frame) * FrameShift <= a
      BY <2>2, <3>1, ShiftsGrow
    <3>3. Reported \in Seq(Segments)
      BY <1>2 DEF Reported
    <3> QED
      BY <1>2, <2>4, <3>2, <3>3, EndLater
  <2> HIDE DEF a, b, all
  <2>6. <<a, b>> \in Segments /\ Reported \in Seq(Segments)
    BY <1>2, <2>4 DEF Segments, Reported
  <2>7. /\ all \in Seq(Segments)
        /\ taken \o all = Append(Reported, <<a, b>>)
    BY <1>2, <2>3, <2>6, AppendBehind DEF Reported
  <2>8. OrderedWithin(Append(Reported, <<a, b>>), samples_in)
    <3>1. OrderedWithin(Reported, b)
      BY <1>2 DEF b
    <3>2. OrderedWithin(Append(Reported, <<a, b>>), b)
      BY <2>4, <2>5, <2>6, <3>1, OrderedAppend
    <3> QED
      BY <3>2 DEF b
  <2>9. taken' \in Seq(Segments) /\ seg_q' \in Seq(Segments)
        /\ Reported' = Append(Reported, <<a, b>>)
    BY <1>3, <2>7
  <2>10. SegmentsOrdered'
    BY <1>1, <2>8, <2>9 DEF SegmentsOrdered
  <2>11. flush' = "last" /\ Idle'
    BY <1>1, <1>5 DEF Idle
  <2> QED
    BY <1>1, <2>9, <2>10, <2>11 DEF OInv
<1> QED
  BY <1>4, <1>5

\* With nothing reported there is nothing out of order.
LEMMA EmptyInOrder ==
    ASSUME ClearHandle, capacity' \in Nat
    PROVE  OInv'
<1>1. taken' = <<>> /\ seg_q' = <<>> /\ flush' = "none"
  BY DEF ClearHandle
<1>2. Reported' = <<>>
  BY <1>1 DEF Reported
<1>3. SegmentsOrdered'
  BY <1>2 DEF SegmentsOrdered, OrderedWithin
<1>4. (EndBy(Reported, Larger(0, last_speech_end_frame) * FrameShift))'
  BY <1>2 DEF EndBy
<1> QED
  BY <1>1, <1>3, <1>4 DEF OInv

\* Every step of the handle keeps the order.
LEMMA OrderKept ==
    ASSUME IInv, VInv, OInv, [VadNext]_allVars
    PROVE  OInv'
<1>1. ASSUME NEW n \in ChunkSizes, PushAudio(n)
      PROVE  OInv'
  <2>1. /\ n \in Nat /\ samples_in \in Nat /\ samples_in' = samples_in + n
        /\ flush' = IF flush = "none" THEN "none" ELSE "stale"
        /\ UNCHANGED <<taken, seg_q, capacity, last_speech_end_frame>>
    BY <1>1, VadAssumption DEF PushAudio, handle, vars, VInv, HandleCounted
  <2>2. Reported' = Reported /\ Reported \in Seq(Segments)
    BY <2>1 DEF Reported, OInv
  <2>3. SegmentsOrdered'
    <3> SUFFICES ASSUME flush' # "stale" PROVE OrderedWithin(Reported, samples_in')
      BY <2>2 DEF SegmentsOrdered
    <3>1. OrderedWithin(Reported, samples_in)
      BY <2>1 DEF OInv, SegmentsOrdered
    <3> QED
      BY <2>1, <2>2, <3>1, OrderedLater
  <2>4. (flush = "none" => EndBy(Reported, Larger(0, last_speech_end_frame) * FrameShift))'
    BY <2>1, <2>2 DEF OInv
  <2> QED
    BY <2>1, <2>3, <2>4 DEF OInv
<1>2. ASSUME NEW n \in ChunkSizes, NEW cap \in Capacities, DetectFull(n, cap)
      PROVE  OInv'
  BY <1>2, EmptyInOrder, VadAssumption DEF DetectFull
<1>3. ASSUME NEW raw \in RawProbs, Frame(raw)
      PROVE  OInv'
  BY <1>3, FrameReportsInOrder
<1>4. CASE DetectReturns
  BY <1>4, DetectReportsInOrder
<1>5. ASSUME NEW cap \in Capacities, DrainSegments(cap)
      PROVE  OInv'
  <2>1. cap \in Nat /\ taken \in Seq(Segments) /\ seg_q \in Seq(Segments)
    BY VadAssumption DEF OInv
  <2>2. /\ taken' = taken \o Handed(seg_q, cap) /\ seg_q' = Kept(seg_q, cap)
        /\ UNCHANGED <<samples_in, flush, call, capacity, last_speech_end_frame>>
    BY <1>5 DEF DrainSegments, vars
  <2>3. taken' \in Seq(Segments) /\ seg_q' \in Seq(Segments)
    BY <2>1, <2>2, DrainKeeps, DrainSplits
  <2>4. Reported' = Reported
    BY <2>1, <2>2, DrainKeeps DEF Reported
  <2>5. SegmentsOrdered'
    BY <2>2, <2>4 DEF OInv, SegmentsOrdered
  <2>6. (flush = "none" => EndBy(Reported, Larger(0, last_speech_end_frame) * FrameShift))'
    BY <2>2, <2>4 DEF OInv
  <2> QED
    BY <2>2, <2>3, <2>5, <2>6 DEF OInv, Idle
<1>6. CASE VadReset
  BY <1>6, EmptyInOrder DEF VadReset, OInv
<1>7. ASSUME UNCHANGED <<taken, seg_q, capacity, flush, samples_in, last_speech_end_frame>>,
             Idle => Idle'
      PROVE  OInv'
  <2>1. Reported' = Reported
    BY <1>7 DEF Reported
  <2>2. SegmentsOrdered'
    BY <1>7, <2>1 DEF OInv, SegmentsOrdered
  <2>3. (flush = "none" => EndBy(Reported, Larger(0, last_speech_end_frame) * FrameShift))'
    BY <1>7, <2>1 DEF OInv
  <2> QED
    BY <1>7, <2>2, <2>3 DEF OInv
<1>8. CASE PushReturns
  BY <1>7, <1>8 DEF PushReturns, vars, Idle
<1>9. ASSUME NEW cap \in Capacities, DrainFrames(cap)
      PROVE  OInv'
  BY <1>7, <1>9 DEF DrainFrames, vars, Idle
<1>10. ASSUME NEW t \in Thresholds, VadSetThreshold(t)
      PROVE  OInv'
  BY <1>7, <1>10 DEF VadSetThreshold, SetThreshold, handle, Idle
<1>11. CASE UNCHANGED allVars
  BY <1>7, <1>11 DEF allVars, vars, handle, Idle
<1> QED
  BY <1>1, <1>2, <1>3, <1>4, <1>5, <1>6, <1>8, <1>9, <1>10, <1>11 DEF VadNext

\* The segments of a stream lie within the audio pushed so far, apart and in
\* order, and are handed out in that order, however the audio is cut and the
\* queue drained, up to a flush.
THEOREM ReportsInOrder == VadSpec => []SegmentsOrdered
<1>1. VadSpec => []IInv
  BY DetectorInside, Invariance, PTL
<1>2. VadInit => OInv
  <2> SUFFICES ASSUME VadInit PROVE OInv
    OBVIOUS
  <2>1. taken = <<>> /\ seg_q = <<>> /\ flush = "none" /\ capacity = 0
    BY DEF VadInit
  <2>2. Reported = <<>>
    BY <2>1 DEF Reported
  <2> QED
    BY <2>1, <2>2 DEF OInv, SegmentsOrdered, OrderedWithin, EndBy
<1>3. IInv /\ VInv /\ OInv /\ [VadNext]_allVars => OInv'
  BY OrderKept
<1>4. OInv => SegmentsOrdered
  BY DEF OInv
<1> QED
  BY <1>1, <1>2, <1>3, <1>4, HandleInvariance, PTL DEF VadSpec


-----------------------------------------------------------------------------
(* The inductive invariant, next to the detector's.                        *)

CallSteps ==
    /\ step \in {"idle", "frames", "trim"}
    /\ step # "frames" => todo = 0

SegmenterCounted ==
    /\ StreamCounted
    /\ total \in Nat /\ audio_buf_start \in Nat /\ latest_extracted_end \in Nat
    /\ current_seg_idx \in Nat /\ seg_counter \in Nat

\* What the call has extracted ends no later than the detector's last segment.
ExtractedPast == latest_extracted_end <= Larger(0, last_speech_end_frame) * FrameShift

\* All the audio from what is wanted on is in the buffer.
WantedKept == lost = 0 => audio_buf_start <= Wanted * FrameShift

SInv ==
    /\ CallSteps
    /\ SegmenterCounted
    /\ FramedWhole(total)
    /\ ExtractedPast
    /\ WantedKept
    /\ SpeechNeverTrimmed
    /\ IndexFollowsSegment
    /\ BufferBounded

-----------------------------------------------------------------------------
(* What is cut out of the buffer.                                          *)

\* A segment whose audio is in the buffer is cut out whole.
LEMMA SentWhole ==
    ASSUME NEW s \in Nat, NEW e \in Nat, NEW i, NEW p,
           audio_buf_start \in Nat, total \in Nat, audio_buf_start <= s, e <= total
    PROVE  Sent(s, e, i, p).from <= Sent(s, e, i, p).speech
           /\ Sent(s, e, i, p).to = Sent(s, e, i, p).end
BY SegmenterAssumption DEF Sent, Slice, Rewound, Larger, Smaller

\* And there is something to cut out.
LEMMA SliceFull ==
    ASSUME NEW s \in Nat, NEW e \in Nat, s < e,
           audio_buf_start \in Nat, total \in Nat, audio_buf_start <= s, e <= total
    PROVE  ~Empty(Slice(Rewound(s), e))
BY SegmenterAssumption DEF Empty, Slice, Rewound, Larger, Smaller

-----------------------------------------------------------------------------
(* The detector inside the front end.                                      *)

\* What the front end does to the detector is what the detector allows.
LEMMA SegmenterStepRefines ==
    ASSUME SegmenterNext
    PROVE  [Next]_vars
<1>1. ASSUME NEW n \in WindowSizes, Chunk(n)
      PROVE  [Next]_vars
  BY <1>1 DEF Chunk
<1>2. ASSUME NEW raw \in RawProbs, FrameResult(raw)
      PROVE  [Next]_vars
  BY <1>2 DEF FrameResult, NextFrame, Next
<1>3. CASE EmitPartial \/ Trim \/ FlushTail
  BY <1>3 DEF EmitPartial, Trim, FlushTail
<1> QED
  BY <1>1, <1>2, <1>3 DEF SegmenterNext

\* The front end drives the detector only as the detector allows, so everything
\* proved of the detector holds of it inside the front end.
THEOREM DetectorDriven == SegmenterSpec => Spec
<1>1. SegmenterInit => Init
  BY DEF SegmenterInit, StreamInit
<1>2. [SegmenterNext]_segmenterVars => [Next]_vars
  BY SegmenterStepRefines DEF segmenterVars, vars
<1> QED
  BY <1>1, <1>2, PTL DEF SegmenterSpec, Spec

-----------------------------------------------------------------------------
(* What trimming leaves.                                                   *)

\* Once every frame of the audio has been looked at, nothing that is kept for
\* later begins after what is wanted, and little is kept.
LEMMA KeptForLater ==
    ASSUME IInv, SegmenterCounted, FramedWhole(total), todo = 0, lost = 0
    PROVE  /\ KeepFrom \in Nat
           /\ KeepFrom <= Wanted * FrameShift
           /\ total - KeepFrom <=
                  Larger(IdleKeep, (LongestRun + PadStart) * FrameShift + FrameSize)
<1> USE Numbers
<1>1. /\ total \in Nat /\ frame_cnt = Frames(total)
      /\ frame_cnt * FrameShift \in Nat
      /\ total < frame_cnt * FrameShift + FrameSize
  <2>1. total \in Nat
    BY DEF SegmenterCounted
  <2>2. frame_cnt = Frames(total)
    BY DEF FramedWhole
  <2> QED
    BY <2>1, <2>2, FrameEdges
<1>2. /\ Wanted \in Nat
      /\ InSegment => Wanted = Start0 - 1
      /\ last_speech_start_frame # -1 => Wanted = last_speech_start_frame - 1
      /\ ~InSegment => Wanted = Larger(Larger(0, frame_cnt - speech_cnt - PadStart),
                                       last_speech_end_frame)
  BY WantedIs
<1>3. Wanted * FrameShift \in Nat /\ FrameSize \in Nat /\ IdleKeep \in Nat
  <2>1. 0 * FrameShift = 0 /\ 0 * FrameShift <= Wanted * FrameShift
    BY <1>2, ShiftsGrow, FramingAssumption
  <2>2. Wanted * FrameShift \in Int
    BY <1>2, Shifts
  <2> QED
    BY <2>1, <2>2, FramingAssumption, SegmenterAssumption
<1>4. CASE last_speech_start_frame # -1
  <2>1. /\ last_speech_start_frame > 0 /\ fsm_state # "SILENCE"
        /\ frame_cnt - last_speech_start_frame + 1 <= LongestRun + PadStart
    BY <1>4, BoundedByInvariant
       DEF IInv, SegmentsApart, StartOnRecord, InSegment, SegmentsBounded, SegmentLength
  <2> DEFINE longest == LongestRun + PadStart
  <2>2. longest \in Nat
    BY Constants
  <2>3. SpeechSample = Wanted * FrameShift
    BY <1>2, <1>4 DEF SpeechSample
  <2>4. KeepFrom = Smaller(total, Wanted * FrameShift)
    BY <2>1, <2>3 DEF KeepFrom
  <2>5. frame_cnt <= Wanted + longest
    BY <1>2, <1>4, <2>1, <2>2
  <2> HIDE DEF longest
  <2>6. /\ (Wanted + longest) * FrameShift = Wanted * FrameShift + longest * FrameShift
        /\ longest * FrameShift \in Int
        /\ frame_cnt * FrameShift <= (Wanted + longest) * FrameShift
    <3>1. Wanted + longest \in Int /\ frame_cnt \in Int
      BY <1>2, <2>2
    <3>2. frame_cnt * FrameShift <= (Wanted + longest) * FrameShift
      BY <2>5, <3>1, ShiftsGrow
    <3>3. Wanted \in Int /\ longest \in Int
      BY <1>2, <2>2
    <3> QED
      BY <3>2, <3>3, Shifts
  <2>7. total - KeepFrom <= Larger(IdleKeep, longest * FrameShift + FrameSize)
    BY <1>1, <1>3, <2>4, <2>6 DEF Smaller, Larger
  <2> QED
    BY <1>1, <1>3, <2>4, <2>7 DEF Smaller, longest
<1>5. CASE last_speech_start_frame = -1
  <2> DEFINE back == Larger(2, MinSpeechFrame) + PadStart
  <2>1. back \in Nat
    BY FireRedAssumption DEF Larger
  <2>2. KeepFrom = Larger(0, total - IdleKeep)
    BY <1>5 DEF KeepFrom
  <2>3. frame_cnt <= Wanted + back
    <3>1. StartOnRecord /\ ForcedEnd /\ CountersInState /\ fsm_state \in FsmStates
      BY DEF IInv, TypeOK
    <3>2. CASE hit_max_speech
      BY <1>2, <2>1, <3>2, WantedIs
    <3>3. CASE ~hit_max_speech
      <4>1. ~InSegment
        BY <1>5, <3>1, <3>3 DEF StartOnRecord
      <4>2. speech_cnt <= Larger(2, MinSpeechFrame)
        BY <3>1, <4>1, FireRedAssumption DEF CountersInState, InSegment, FsmStates, Larger
      <4>3. Wanted >= frame_cnt - speech_cnt - PadStart
        BY <1>2, <4>1 DEF Larger
      <4>4. Larger(2, MinSpeechFrame) \in Int
        BY FireRedAssumption DEF Larger
      <4> QED
        BY <1>2, <4>2, <4>3, <4>4
    <3> QED
      BY <3>2, <3>3
  <2>4. IdleKeep >= back * FrameShift + FrameSize
    BY SegmenterAssumption
  <2> HIDE DEF back
  <2>5. /\ (Wanted + back) * FrameShift = Wanted * FrameShift + back * FrameShift
        /\ back * FrameShift \in Int
        /\ frame_cnt * FrameShift <= (Wanted + back) * FrameShift
    <3>1. Wanted + back \in Int /\ frame_cnt \in Int
      BY <1>2, <2>1
    <3>2. frame_cnt * FrameShift <= (Wanted + back) * FrameShift
      BY <2>3, <3>1, ShiftsGrow
    <3>3. Wanted \in Int /\ back \in Int
      BY <1>2, <2>1
    <3> QED
      BY <3>2, <3>3, Shifts
  <2>6. KeepFrom \in Nat /\ KeepFrom <= Wanted * FrameShift /\ total - KeepFrom <= IdleKeep
    BY <1>1, <1>3, <2>2, <2>4, <2>5 DEF Larger
  <2>7. (LongestRun + PadStart) * FrameShift + FrameSize \in Int
    BY Constants, Shifts, FramingAssumption
  <2> QED
    BY <1>1, <1>3, <2>6, <2>7 DEF Larger
<1> QED
  BY <1>4, <1>5
-----------------------------------------------------------------------------
(* Every step preserves the invariant.                                     *)

\* A chunk adds frames and touches neither the detector nor the buffer's start.
LEMMA ChunkKeeps ==
    ASSUME IInv, SInv, NEW n \in WindowSizes, Chunk(n)
    PROVE  SInv'
<1> USE DEF SInv
<1>1. n \in Nat /\ total \in Nat /\ StreamCounted /\ todo = 0
  BY SegmenterAssumption DEF Chunk, CallSteps, SegmenterCounted
<1>2. /\ Cut(audio_remainder + n, lost) /\ UNCHANGED frame_cnt /\ total' = total + n
      /\ step' = "frames" /\ latest_extracted_end' = 0 /\ sent' = None
      /\ UNCHANGED <<last_speech_start_frame, last_speech_end_frame, speech_cnt,
                     audio_buf_start, current_seg_idx, seg_counter, ended>>
  BY DEF Chunk, vars, counters
<1>3. /\ StreamCounted' /\ lost' >= lost
      /\ frame_cnt' + todo' + lost' = Frames(total + n)
      /\ audio_remainder' = (total + n) - Frames(total + n) * FrameShift
  BY <1>1, <1>2, CutKeepsFraming
<1>4. FramedWhole(total)'
  <2>1. frame_cnt' + todo' + lost' = Frames(total')
    BY <1>2, <1>3
  <2>2. audio_remainder' = total' - Frames(total') * FrameShift
    BY <1>2, <1>3
  <2> QED
    BY <2>1, <2>2 DEF FramedWhole
<1>5. lost' = 0 => lost = 0
  BY <1>1, <1>3 DEF StreamCounted
<1>6. ExtractedPast'
  <2>1. Larger(0, last_speech_end_frame) \in Nat
    BY Numbers DEF Larger
  <2>2. 0 * FrameShift = 0 /\ 0 * FrameShift <= Larger(0, last_speech_end_frame) * FrameShift
    BY <2>1, ShiftsGrow, FramingAssumption
  <2> QED
    BY <1>2, <2>2 DEF ExtractedPast
<1>7. Wanted' = Wanted
  BY <1>2 DEF Wanted
<1> QED
  BY <1>1, <1>2, <1>3, <1>4, <1>5, <1>6, <1>7
     DEF CallSteps, SegmenterCounted, WantedKept, SpeechNeverTrimmed, IndexFollowsSegment,
         BufferBounded

\* The start of the open segment, in samples, is what is wanted.
LEMMA OpenIsWanted ==
    ASSUME IInv, last_speech_start_frame > 0
    PROVE  SpeechSample \in Nat /\ SpeechSample = Wanted * FrameShift
<1>1. last_speech_start_frame \in Int /\ last_speech_start_frame # -1
  BY Numbers
<1>2. Wanted \in Nat /\ Wanted = last_speech_start_frame - 1
  BY <1>1, WantedIs
<1>3. Wanted * FrameShift \in Nat
  BY <1>2, FramingAssumption
<1> QED
  BY <1>2, <1>3 DEF SpeechSample

\* The open segment up to the latest sample is sent whole.
LEMMA OpenSentWhole ==
    ASSUME IInv, SInv, lost = 0, last_speech_start_frame > 0, NEW i, NEW p,
           NEW cut, cut = Sent(SpeechSample, total, i, p)
    PROVE  cut.from <= cut.speech /\ cut.to = cut.end
<1>1. SpeechSample \in Nat /\ audio_buf_start <= SpeechSample
  BY OpenIsWanted DEF SInv, WantedKept
<1>2. audio_buf_start \in Nat /\ total \in Nat /\ total <= total
  BY DEF SInv, SegmenterCounted
<1> QED
  BY <1>1, <1>2, SentWhole

\* A partial shows audio that is in the buffer and changes nothing else.
LEMMA PartialKeeps ==
    ASSUME IInv, SInv, EmitPartial
    PROVE  SInv'
<1>1. /\ step' = "trim" /\ todo = 0
      /\ UNCHANGED <<frame_cnt, last_speech_start_frame, last_speech_end_frame, speech_cnt,
                     audio_remainder, todo, lost, total, audio_buf_start, current_seg_idx,
                     seg_counter, latest_extracted_end, ended>>
  BY DEF EmitPartial, vars, counters, stream
<1>2. SpeechNeverTrimmed'
  <2> SUFFICES ASSUME sent' # None, lost = 0
               PROVE  sent'.from <= sent'.speech /\ sent'.to = sent'.end
    BY <1>1 DEF SpeechNeverTrimmed
  <2>1. last_speech_start_frame > 0 /\ sent' = Sent(SpeechSample, total, current_seg_idx, TRUE)
    BY DEF EmitPartial, PartialDue
  <2> QED
    BY <2>1, OpenSentWhole
<1>3. Wanted' = Wanted
  BY <1>1 DEF Wanted
<1> QED
  BY <1>1, <1>2, <1>3 DEF SInv, CallSteps, SegmenterCounted, StreamCounted, FramedWhole,
     ExtractedPast,
     WantedKept, IndexFollowsSegment, BufferBounded

\* The tail is cut out like any segment.
LEMMA FlushKeeps ==
    ASSUME IInv, SInv, FlushTail
    PROVE  SInv'
<1>1. /\ ended' = TRUE
      /\ UNCHANGED <<frame_cnt, last_speech_start_frame, last_speech_end_frame, speech_cnt,
                     audio_remainder, todo, lost, step, total, audio_buf_start,
                     latest_extracted_end>>
  BY DEF FlushTail, vars, counters, stream
<1>2. SpeechNeverTrimmed'
  <2> SUFFICES ASSUME sent' # None, lost = 0
               PROVE  sent'.from <= sent'.speech /\ sent'.to = sent'.end
    BY <1>1 DEF SpeechNeverTrimmed
  <2>1. last_speech_start_frame > 0 /\ \E idx : sent' = Sent(SpeechSample, total, idx, FALSE)
    BY DEF FlushTail
  <2> QED
    BY <2>1, OpenSentWhole
<1>3. Wanted' = Wanted
  BY <1>1 DEF Wanted
<1>4. current_seg_idx' \in Nat /\ seg_counter' \in Nat
  <2>1. \/ UNCHANGED <<current_seg_idx, seg_counter>>
        \/ \E idx \in {current_seg_idx, seg_counter + 1} :
               current_seg_idx' = 0 /\ seg_counter' = Larger(seg_counter, idx)
    BY DEF FlushTail
  <2>2. current_seg_idx \in Nat /\ seg_counter \in Nat
    BY DEF SInv, SegmenterCounted
  <2> QED
    BY <2>1, <2>2 DEF Larger
<1>5. CallSteps' /\ SegmenterCounted' /\ FramedWhole(total)' /\ ExtractedPast' /\ WantedKept'
  BY <1>1, <1>3, <1>4
     DEF SInv, CallSteps, SegmenterCounted, StreamCounted, FramedWhole,
     ExtractedPast, WantedKept
<1>6. IndexFollowsSegment' /\ BufferBounded'
  BY <1>1 DEF SInv, IndexFollowsSegment, BufferBounded
<1> QED
  BY <1>2, <1>5, <1>6 DEF SInv

\* Of t samples those from b on are left, when b was moved to keep or to the
\* end, and keep lies at most the padding p before a place k near the end.
LEMMA LeftAfterTrim ==
    ASSUME NEW t \in Nat, NEW b \in Nat, NEW p \in Nat, NEW k \in Int, NEW keep \in Nat,
           NEW most \in Int, 0 <= most,
           k - p <= keep, t - k <= most, Smaller(keep, t) <= b
    PROVE  t - b <= p + most
BY DEF Smaller

\* Trimming leaves what is wanted, and not much more.
LEMMA TrimKeeps ==
    ASSUME IInv, SInv, Trim
    PROVE  SInv'
<1> DEFINE keep == Larger(Rewound(KeepFrom), latest_extracted_end)
           most == Larger(IdleKeep, (LongestRun + PadStart) * FrameShift + FrameSize)
<1>1. /\ step = "trim" /\ step' = "idle" /\ sent' = None
      /\ audio_buf_start' = Larger(audio_buf_start, Smaller(keep, total))
      /\ UNCHANGED <<frame_cnt, last_speech_start_frame, last_speech_end_frame, speech_cnt,
                     audio_remainder, todo, lost, total, current_seg_idx, seg_counter,
                     latest_extracted_end, ended>>
  BY DEF Trim, vars, counters, stream
<1>2. /\ todo = 0 /\ SegmenterCounted /\ FramedWhole(total) /\ ExtractedPast /\ WantedKept
      /\ IndexFollowsSegment
  BY <1>1 DEF SInv, CallSteps
<1>3. /\ total \in Nat /\ audio_buf_start \in Nat /\ latest_extracted_end \in Nat
      /\ IdleKeep \in Nat /\ PadPre \in Nat
  BY <1>2, SegmenterAssumption DEF SegmenterCounted
<1>4. KeepFrom \in Int
  <2>1. last_speech_start_frame > 0 => SpeechSample \in Nat
    BY OpenIsWanted
  <2> QED
    BY <1>3, <2>1 DEF KeepFrom, Smaller, Larger
<1>5. /\ keep \in Nat /\ KeepFrom - PadPre <= keep
      /\ keep = latest_extracted_end \/ keep = 0 \/ keep <= KeepFrom
  BY <1>3, <1>4 DEF Rewound, Larger
<1>6. Wanted' = Wanted
  BY <1>1 DEF Wanted
<1> HIDE DEF keep, most
<1>7. audio_buf_start' \in Nat /\ Smaller(keep, total) <= audio_buf_start'
      /\ (audio_buf_start' = audio_buf_start \/ audio_buf_start' <= keep)
  BY <1>1, <1>3, <1>5 DEF Larger, Smaller
<1>8. WantedKept'
  <2> SUFFICES ASSUME lost = 0 PROVE audio_buf_start' <= Wanted * FrameShift
    BY <1>1, <1>6 DEF WantedKept
  <2>1. KeepFrom \in Nat /\ KeepFrom <= Wanted * FrameShift
    BY <1>2, KeptForLater
  <2>2. latest_extracted_end <= Wanted * FrameShift
    <3>1. /\ Larger(0, last_speech_end_frame) \in Nat /\ Wanted \in Nat
          /\ Larger(0, last_speech_end_frame) <= Wanted
      BY EndBeforeWanted, WantedIs
    <3>2. /\ Larger(0, last_speech_end_frame) * FrameShift \in Int
          /\ Larger(0, last_speech_end_frame) * FrameShift <= Wanted * FrameShift
      BY <3>1, ShiftsGrow
    <3> QED
      <4>1. Wanted * FrameShift \in Int
        BY <3>1, ShiftsGrow
      <4>2. latest_extracted_end <= Larger(0, last_speech_end_frame) * FrameShift
        BY <1>2 DEF ExtractedPast
      <4> QED
        BY <1>3, <3>2, <4>1, <4>2
  <2>3. audio_buf_start <= Wanted * FrameShift
    BY <1>2 DEF WantedKept
  <2>4. Wanted * FrameShift \in Int
    BY WantedIs, Shifts
  <2> QED
    BY <1>3, <1>5, <1>7, <2>1, <2>2, <2>3, <2>4
<1>9. BufferBounded'
  <2> SUFFICES ASSUME lost = 0 PROVE total - audio_buf_start' <= PadPre + most
    BY <1>1 DEF BufferBounded, most
  <2>1. total - KeepFrom <= most
    BY <1>2, KeptForLater DEF most
  <2>2. most \in Int /\ 0 <= most
    <3>1. (LongestRun + PadStart) * FrameShift + FrameSize \in Int
      BY Constants, Shifts, FramingAssumption
    <3> QED
      BY <1>3, <3>1 DEF most, Larger
  <2> QED
    BY <1>3, <1>4, <1>5, <1>7, <2>1, <2>2, LeftAfterTrim
<1> QED
  BY <1>1, <1>2, <1>6, <1>7, <1>8, <1>9 DEF SInv, CallSteps, SegmenterCounted, StreamCounted,
     FramedWhole, ExtractedPast, SpeechNeverTrimmed, IndexFollowsSegment
\* When a frame ends a segment all of whose frames are in the audio, the
\* segment is cut out, and whole.
LEMMA EndIsExtracted ==
    ASSUME IInv, SInv, NEW raw \in RawProbs, FrameResult(raw), lost = 0, r'.is_speech_end
    PROVE  /\ Extracts
           /\ sent'.from <= sent'.speech /\ sent'.to = sent'.end
<1> DEFINE s == Wanted * FrameShift
           e == frame_cnt' * FrameShift
<1>1. ProcessOneFrame(raw) /\ todo > 0
  BY DEF FrameResult, NextFrame
<1>2. /\ Wanted \in Nat /\ Wanted <= frame_cnt /\ frame_cnt \in Nat /\ frame_cnt' = frame_cnt + 1
      /\ r'.speech_start_frame = Wanted + 1 /\ r'.speech_end_frame = frame_cnt + 1
  BY <1>1, WantedIs, WantedGrows, Numbers
<1>3. Segment(r'.speech_start_frame, r'.speech_end_frame) = <<s, e>>
  <2>1. r'.speech_start_frame - 1 = Wanted /\ r'.speech_end_frame = frame_cnt'
    BY <1>2
  <2> QED
    BY <2>1 DEF Segment
<1>4. s \in Nat /\ e \in Nat /\ s < e
  <2>1. Wanted * FrameShift \in Int /\ e \in Int /\ s + FrameShift <= e
    <3>1. Wanted \in Int /\ frame_cnt' \in Int /\ Wanted < frame_cnt'
      BY <1>2
    <3> QED
      BY <3>1, Shifts
  <2>2. 0 * FrameShift = 0 /\ 0 * FrameShift <= s
    BY <1>2, ShiftsGrow, FramingAssumption
  <2> QED
    BY <2>1, <2>2, FramingAssumption
<1>5. total \in Nat /\ audio_buf_start \in Nat /\ audio_buf_start <= s
  BY DEF SInv, SegmenterCounted, WantedKept
<1>6. e <= total
  <2>1. frame_cnt' <= Frames(total) /\ Frames(total) \in Nat
    <3>1. frame_cnt + todo = Frames(total) /\ todo \in Nat
      BY <1>2 DEF SInv, FramedWhole, SegmenterCounted, StreamCounted
    <3> QED
      BY <1>1, <1>2, <3>1
  <2>2. e <= Frames(total) * FrameShift
    BY <1>2, <2>1, ShiftsGrow
  <2> QED
    BY <1>4, <1>5, <2>2, FrameEdges
<1> HIDE DEF s, e
<1>7. Extracts
  <2>1. ~Empty(Slice(Rewound(s), e))
    BY <1>4, <1>5, <1>6, SliceFull
  <2>2. r'.speech_start_frame > 0 /\ r'.speech_end_frame > 0
    BY <1>2
  <2> QED
    BY <1>3, <2>1, <2>2 DEF Extracts
<1>8. \E idx : sent' = Sent(s, e, idx, FALSE)
  <2> DEFINE cut == Segment(r'.speech_start_frame, r'.speech_end_frame)
  <2>1. \E idx : sent' = Sent(cut[1], cut[2], idx, FALSE)
    BY <1>7 DEF FrameResult
  <2>2. cut[1] = s /\ cut[2] = e
    BY <1>3
  <2> HIDE DEF cut
  <2> QED
    BY <2>1, <2>2
<1> QED
  BY <1>4, <1>5, <1>6, <1>7, <1>8, SentWhole

\* A frame moves on what is wanted, and a segment it ends is cut out whole.
LEMMA FrameKeeps ==
    ASSUME IInv, SInv, NEW raw \in RawProbs, FrameResult(raw)
    PROVE  SInv'
<1>1. /\ ProcessOneFrame(raw) /\ step = "frames" /\ todo > 0 /\ todo' = todo - 1
      /\ UNCHANGED <<audio_remainder, lost, step, total, audio_buf_start, ended>>
  BY DEF FrameResult, NextFrame
<1>2. /\ Wanted \in Nat /\ Wanted' \in Nat /\ Wanted <= Wanted' /\ frame_cnt' = frame_cnt + 1
      /\ Larger(0, last_speech_end_frame) <= Larger(0, last_speech_end_frame')
      /\ r'.is_speech_end =>
             r'.speech_end_frame = frame_cnt + 1 /\ last_speech_end_frame' = frame_cnt + 1
  BY <1>1, WantedIs, WantedGrows
<1>3. SegmenterCounted /\ StreamCounted /\ FramedWhole(total) /\ ExtractedPast /\ WantedKept
      /\ IndexFollowsSegment
  BY DEF SInv, SegmenterCounted
<1>4. /\ frame_cnt \in Nat /\ todo \in Nat /\ lost \in Nat /\ total \in Nat
      /\ audio_buf_start \in Nat /\ latest_extracted_end \in Nat
      /\ current_seg_idx \in Nat /\ seg_counter \in Nat
  BY <1>3 DEF SegmenterCounted, StreamCounted
<1>5. FramedWhole(total)' /\ StreamCounted' /\ CallSteps'
  <2>1. frame_cnt' + todo' + lost' = frame_cnt + todo + lost
    BY <1>1, <1>2, <1>4
  <2>2. StreamCounted'
    BY <1>1, <1>2, <1>4 DEF StreamCounted
  <2> QED
    BY <1>1, <1>3, <2>1, <2>2 DEF FramedWhole, CallSteps
<1>6. IndexAfter \in Nat /\ (r'.is_speech_start => IndexAfter # 0)
      /\ (~r'.is_speech_start => IndexAfter = current_seg_idx)
  BY <1>4 DEF IndexAfter
<1>7. current_seg_idx' \in Nat /\ seg_counter' \in Nat
  <2>1. \/ current_seg_idx' = IndexAfter /\ seg_counter' = Larger(seg_counter, IndexAfter)
        \/ \E idx \in {IndexAfter, seg_counter + 1} :
               current_seg_idx' = 0 /\ seg_counter' = Larger(seg_counter, idx)
    BY DEF FrameResult
  <2> QED
    BY <1>4, <1>6, <2>1 DEF Larger
<1>8. latest_extracted_end' \in Nat /\ ExtractedPast'
  <2> DEFINE before == Larger(0, last_speech_end_frame) * FrameShift
             after == Larger(0, last_speech_end_frame') * FrameShift
             e == (frame_cnt + 1) * FrameShift
  <2>1. before \in Int /\ after \in Int /\ before <= after
    <3>1. Larger(0, last_speech_end_frame) \in Int /\ Larger(0, last_speech_end_frame') \in Int
      <4>1. IInv'
        BY <1>1, FrameInv
      <4>2. last_speech_end_frame \in Int /\ last_speech_end_frame' \in Int
        BY <4>1 DEF IInv, TypeOK
      <4> QED
        BY <4>2 DEF Larger
    <3> QED
      BY <1>2, <3>1, ShiftsGrow
  <2>2. latest_extracted_end <= before
    BY <1>3 DEF ExtractedPast
  <2>3. CASE ~Extracts
    <3>1. latest_extracted_end' = latest_extracted_end
      BY <2>3 DEF FrameResult
    <3> HIDE DEF before, after
    <3>2. latest_extracted_end' <= after
      BY <1>4, <2>1, <2>2, <3>1
    <3> QED
      BY <1>4, <3>1, <3>2 DEF ExtractedPast, after
  <2>4. CASE Extracts
    <3>1. r'.is_speech_end
      BY <2>4 DEF Extracts
    <3>2. latest_extracted_end' = Larger(latest_extracted_end, r'.speech_end_frame * FrameShift)
      BY <2>4 DEF FrameResult, Segment
    <3>3. latest_extracted_end' = Larger(latest_extracted_end, e)
      BY <1>2, <3>1, <3>2
    <3>4. e \in Nat /\ after = e
      BY <1>2, <1>4, <3>1, FramingAssumption DEF Larger
    <3> HIDE DEF before, after, e
    <3>5. latest_extracted_end' \in Nat /\ latest_extracted_end' <= after
      BY <1>4, <2>1, <2>2, <3>3, <3>4 DEF Larger
    <3> QED
      BY <3>5 DEF ExtractedPast, after
  <2> QED
    BY <2>3, <2>4
<1>9. WantedKept'
  <2> SUFFICES ASSUME lost = 0 PROVE audio_buf_start <= Wanted' * FrameShift
    BY <1>1 DEF WantedKept
  <2>1. audio_buf_start <= Wanted * FrameShift
    BY <1>3 DEF WantedKept
  <2>2. /\ Wanted * FrameShift \in Int /\ Wanted' * FrameShift \in Int
        /\ Wanted * FrameShift <= Wanted' * FrameShift
    BY <1>2, ShiftsGrow
  <2> QED
    BY <1>4, <2>1, <2>2
<1>10. SpeechNeverTrimmed'
  <2> SUFFICES ASSUME sent' # None, lost = 0
               PROVE  sent'.from <= sent'.speech /\ sent'.to = sent'.end
    BY <1>1 DEF SpeechNeverTrimmed
  <2>1. Extracts
    BY DEF FrameResult
  <2>2. r'.is_speech_end
    BY <2>1 DEF Extracts
  <2> QED
    BY <2>2, EndIsExtracted
<1>11. IndexFollowsSegment'
  <2> SUFFICES ASSUME lost = 0, ~ended
               PROVE  current_seg_idx' # 0 <=> last_speech_start_frame' # -1
    BY <1>1 DEF IndexFollowsSegment
  <2>1. CASE r'.is_speech_end
    <3>1. last_speech_start_frame' = -1
      BY <1>1, <2>1, EventTells
    <3>2. current_seg_idx' = 0
      BY <2>1, EndIsExtracted DEF FrameResult
    <3> QED
      BY <3>1, <3>2
  <2>2. CASE ~r'.is_speech_end
    <3>1. current_seg_idx' = IndexAfter
      BY <2>2 DEF FrameResult, Extracts
    <3>2. /\ r'.is_speech_start => last_speech_start_frame' >= 1
          /\ ~r'.is_speech_start => last_speech_start_frame' = last_speech_start_frame
      BY <1>1, <2>2, EventTells
    <3>3. current_seg_idx # 0 <=> last_speech_start_frame # -1
      BY <1>3 DEF IndexFollowsSegment
    <3> QED
      BY <1>6, <3>1, <3>2, <3>3
  <2> QED
    BY <2>1, <2>2
<1> QED
  BY <1>1, <1>4, <1>5, <1>7, <1>8, <1>9, <1>10, <1>11 DEF SInv, SegmenterCounted, BufferBounded

\* The first state satisfies it.
LEMMA InitKeeps == SegmenterInit => SInv
<1> SUFFICES ASSUME SegmenterInit PROVE SInv
  OBVIOUS
<1>1. /\ step = "idle" /\ todo = 0 /\ frame_cnt = 0 /\ lost = 0 /\ audio_remainder = 0
      /\ total = 0 /\ audio_buf_start = 0 /\ latest_extracted_end = 0 /\ seg_counter = 0
      /\ current_seg_idx = 0 /\ sent = None /\ speech_cnt = 0
      /\ last_speech_start_frame = -1 /\ last_speech_end_frame = -1
  BY DEF SegmenterInit, StreamInit, Init
<1>2. CallSteps /\ SegmenterCounted
  BY <1>1 DEF CallSteps, SegmenterCounted, StreamCounted
<1>3. FramedWhole(total)
  BY <1>1, NoSamples DEF FramedWhole
<1>4. ExtractedPast
  BY <1>1, FramingAssumption DEF ExtractedPast, Larger
<1>5. WantedKept
  <2>1. Wanted = 0
    BY <1>1, Constants DEF Wanted, Larger
  <2> QED
    BY <1>1, <2>1, FramingAssumption DEF WantedKept
<1>6. SpeechNeverTrimmed /\ IndexFollowsSegment
  BY <1>1 DEF SpeechNeverTrimmed, IndexFollowsSegment
<1>7. BufferBounded
  <2>1. (LongestRun + PadStart) * FrameShift + FrameSize \in Int
    BY Constants, Shifts, FramingAssumption
  <2> QED
    BY <1>1, <2>1, SegmenterAssumption DEF BufferBounded, Larger
<1> QED
  BY <1>2, <1>3, <1>4, <1>5, <1>6, <1>7 DEF SInv

\* Every step, and none, keeps it.
LEMMA SegmenterNextInv ==
    ASSUME IInv, SInv, [SegmenterNext]_segmenterVars
    PROVE  SInv'
<1>1. CASE SegmenterNext
  BY <1>1, ChunkKeeps, FrameKeeps, PartialKeeps, TrimKeeps, FlushKeeps DEF SegmenterNext
<1>2. CASE UNCHANGED segmenterVars
  BY <1>2 DEF segmenterVars, vars, counters, stream, segVars, SInv, CallSteps,
     SegmenterCounted, StreamCounted,
     FramedWhole, ExtractedPast, WantedKept, Wanted, SpeechNeverTrimmed, IndexFollowsSegment,
     BufferBounded
<1> QED
  BY <1>1, <1>2

-----------------------------------------------------------------------------
(* The theorems.                                                           *)

\* The front end's invariant holds throughout.
THEOREM SegmenterInvariance == SegmenterSpec => []SInv
<1>1. SegmenterSpec => []IInv
  BY DetectorDriven, Invariance, PTL
<1>2. SegmenterInit => SInv
  BY InitKeeps
<1>3. IInv /\ SInv /\ [SegmenterNext]_segmenterVars => SInv'
  BY SegmenterNextInv
<1> QED
  BY <1>1, <1>2, <1>3, PTL DEF SegmenterSpec

\* No segment loses any of its speech to the trimming of the rolling buffer
\* (keep_from_sample of process_vad_chunk_firered against the detector's starts).
THEOREM SpeechSurvivesTrimming == SegmenterSpec => []SpeechNeverTrimmed
<1>1. SInv => SpeechNeverTrimmed
  BY DEF SInv
<1> QED
  BY <1>1, SegmenterInvariance, PTL

\* The index of partials and final is there exactly while a segment is open,
\* a segment reopened after its forced end included.
THEOREM IndexFollows == SegmenterSpec => []IndexFollowsSegment
<1>1. SInv => IndexFollowsSegment
  BY DEF SInv
<1> QED
  BY <1>1, SegmenterInvariance, PTL

\* Memory does not grow with the stream: between calls the buffer holds no more
\* than the longest segment or what is kept while idle, and the padding.
THEOREM MemoryBounded == SegmenterSpec => []BufferBounded
<1>1. SInv => BufferBounded
  BY DEF SInv
<1> QED
  BY <1>1, SegmenterInvariance, PTL

-----------------------------------------------------------------------------
(* The one-shot path.                                                      *)

\* A segment that ends was open before the frame, unless the limit is a frame.
LEMMA EndsWhatWasOpen ==
    ASSUME IInv, NEW raw \in RawProbs, ProcessOneFrame(raw), r'.is_speech_end,
           MaxSpeechFrame > 1
    PROVE  /\ ~r'.is_speech_start
           /\ r'.speech_start_frame = last_speech_start_frame /\ last_speech_start_frame >= 1
           /\ r'.speech_end_frame >= 1
<1>1. frame_cnt \in Nat /\ speech_cnt \in Nat /\ MaxSpeechFrame \in Int /\ hit_max_speech \in BOOLEAN
  BY FireRedAssumption DEF IInv, TypeOK
<1>2. CASE NoBoundary \/ SpeechConfirmed
  BY <1>2 DEF NoBoundary, SpeechConfirmed, Result0, Result
<1>3. CASE SpeechTooLong
  <2>1. ~hit_max_speech
    BY <1>1, <1>3 DEF SpeechTooLong, IInv, ForcedEnd
  <2>2. last_speech_start_frame # -1
    BY <1>3, <2>1 DEF SpeechTooLong, IInv, StartOnRecord, InSegment
  <2> QED
    BY <1>1, <1>3, <2>1, <2>2 DEF SpeechTooLong, EndSegment, Result, Start0, now, IInv, SegmentsApart
<1>4. CASE SilenceConfirmed
  <2>1. ~hit_max_speech
    BY <1>4 DEF SilenceConfirmed, IInv, ForcedEnd
  <2>2. last_speech_start_frame # -1
    BY <1>4, <2>1 DEF SilenceConfirmed, IInv, StartOnRecord, InSegment
  <2> QED
    BY <1>1, <1>4, <2>1, <2>2 DEF SilenceConfirmed, EndSegment, Result, Start0, now, IInv,
       SegmentsApart
<1> QED
  BY <1>2, <1>3, <1>4 DEF ProcessOneFrame, OnSpeech, OnSilence, SilenceStays, SpeechSuspected,
     SuspicionGrows, SpeechGoesOn, SuspicionDropped, SilenceSuspected, SilenceGrows

\* The loop of ResultsToTimestamps is where the detector is.
LoopFollows ==
    MaxSpeechFrame > 1 =>
        /\ out = reported
        /\ start = IF last_speech_start_frame = -1 THEN -1 ELSE last_speech_start_frame - 1

\* A frame moves both on.
LEMMA FullFrameFollows ==
    ASSUME IInv, LoopFollows, NEW raw \in RawProbs, FullFrame(raw)
    PROVE  LoopFollows'
<1> SUFFICES ASSUME MaxSpeechFrame > 1
    PROVE  /\ out' = reported'
           /\ start' = IF last_speech_start_frame' = -1 THEN -1
                       ELSE last_speech_start_frame' - 1
  BY DEF LoopFollows
<1>1. /\ out = reported
      /\ start = IF last_speech_start_frame = -1 THEN -1 ELSE last_speech_start_frame - 1
  BY DEF LoopFollows
<1>2. ProcessOneFrame(raw) /\ Collapse(r')
  BY DEF FullFrame
<1>3. r' \in [is_speech_start : BOOLEAN, speech_start_frame : Int,
              is_speech_end : BOOLEAN, speech_end_frame : Int]
  BY <1>2, FrameInv DEF IInv, TypeOK
<1>4. CASE r'.is_speech_end
  <2>1. /\ ~r'.is_speech_start /\ r'.speech_start_frame = last_speech_start_frame
        /\ last_speech_start_frame >= 1 /\ r'.speech_end_frame >= 1
    BY <1>2, <1>4, EndsWhatWasOpen
  <2>2. last_speech_start_frame' = -1
    BY <1>2, <1>4, EventTells
  <2>3. start = last_speech_start_frame - 1 /\ start >= 0
    BY <1>1, <2>1, <1>3
  <2>4. ZeroBased(r'.speech_end_frame) = r'.speech_end_frame - 1
    BY <1>3, <2>1 DEF ZeroBased, Larger
  <2>5. /\ out' = Append(out, <<start, ZeroBased(r'.speech_end_frame)>>)
        /\ start' = -1
    BY <1>2, <1>4, <2>1, <2>3 DEF Collapse
  <2>6. reported' = Append(reported, <<start, ZeroBased(r'.speech_end_frame)>>)
    BY <1>4, <2>1, <2>3, <2>4 DEF FullFrame
  <2> QED
    BY <1>1, <2>2, <2>5, <2>6
<1>5. CASE ~r'.is_speech_end /\ r'.is_speech_start
  <2>1. last_speech_start_frame' = r'.speech_start_frame /\ last_speech_start_frame' >= 1
    BY <1>2, <1>5, EventTells
  <2>2. start' = ZeroBased(r'.speech_start_frame) /\ out' = out
    BY <1>2, <1>5 DEF Collapse
  <2>3. reported' = reported
    BY <1>5 DEF FullFrame
  <2> QED
    BY <1>1, <1>3, <2>1, <2>2, <2>3 DEF ZeroBased, Larger
<1>6. CASE ~r'.is_speech_end /\ ~r'.is_speech_start
  <2>1. last_speech_start_frame' = last_speech_start_frame
    BY <1>2, <1>6, EventTells
  <2>2. start' = start /\ out' = out /\ reported' = reported
    BY <1>2, <1>6 DEF Collapse, FullFrame
  <2> QED
    BY <1>1, <2>1, <2>2
<1> QED
  BY <1>4, <1>5, <1>6

\* DetectFull drives the detector only as the detector allows.
LEMMA FullStepRefines == ASSUME [FullNext]_fullVars PROVE [Next]_vars
BY DEF FullNext, fullVars, FullFrame, NextUtterance, Next

\* The one-shot path keeps both invariants.
THEOREM FullInvariance == FullSpec => [](IInv /\ LoopFollows)
<1>1. FullInit => IInv /\ LoopFollows
  BY InitInv DEF FullInit, Init, LoopFollows
<1>2. (IInv /\ LoopFollows) /\ [FullNext]_fullVars => (IInv /\ LoopFollows)'
  <2> SUFFICES ASSUME IInv, LoopFollows, [FullNext]_fullVars PROVE IInv' /\ LoopFollows'
    OBVIOUS
  <2>1. IInv'
    BY FullStepRefines, StepKeepsInv
  <2>2. CASE \E raw \in RawProbs : FullFrame(raw)
    BY <2>1, <2>2, FullFrameFollows
  <2>3. CASE \E t \in Thresholds : SetThreshold(t) /\ UNCHANGED loop
    BY <2>1, <2>3 DEF SetThreshold, loop, LoopFollows
  <2>4. CASE NextUtterance
    BY <2>1, <2>4 DEF NextUtterance, Reset, LoopFollows
  <2>5. CASE UNCHANGED fullVars
    BY <2>1, <2>5 DEF fullVars, vars, loop, LoopFollows
  <2> QED
    BY <2>2, <2>3, <2>4, <2>5 DEF FullNext
<1> QED
  BY <1>1, <1>2, PTL DEF FullSpec

\* Whenever the utterance ends, what DetectFull makes of the events of its frames,
\* of which it never reads the start that comes with an end, is the segments that
\* the detector itself has reported and the one it has open: SameSegments.
THEOREM TimestampsAreSegments == FullSpec => []SameSegments
<1>1. ASSUME IInv, LoopFollows PROVE SameSegments
  <2> SUFFICES ASSUME MaxSpeechFrame > 1 PROVE Timestamps = DetectorSegments
    BY DEF SameSegments
  <2>1. /\ out = reported
        /\ start = IF last_speech_start_frame = -1 THEN -1 ELSE last_speech_start_frame - 1
    BY <1>1 DEF LoopFollows
  <2>2. CASE last_speech_start_frame = -1
    BY <2>1, <2>2 DEF Timestamps, DetectorSegments
  <2>3. CASE last_speech_start_frame # -1
    <3>1. /\ last_speech_start_frame \in Int /\ frame_cnt \in Int
          /\ 1 <= last_speech_start_frame /\ last_speech_start_frame <= frame_cnt
      BY <1>1, <2>3, FireRedAssumption DEF IInv, TypeOK, SegmentsApart
    <3>2. start # -1 /\ start = last_speech_start_frame - 1 /\ ZeroBased(frame_cnt) = frame_cnt - 1
      BY <2>1, <2>3, <3>1 DEF ZeroBased, Larger
    <3> QED
      BY <2>1, <2>3, <3>2 DEF Timestamps, DetectorSegments
  <2> QED
    BY <2>2, <2>3
<1> QED
  BY <1>1, FullInvariance, PTL
=============================================================================
