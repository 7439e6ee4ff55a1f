----------------------------- MODULE FireRedPost -----------------------------
(***************************************************************************)
(* The FireRedVAD postprocessor: FireRedVadModel::ProcessOneFrame smooths  *)
(* the speech probability of one 10 ms frame and steps a machine of four   *)
(* states that decides where speech segments start and end.  One call is   *)
(* one step; frames are numbered from 1 and -1 stands for "none", as in    *)
(* the code.  Probabilities are integers 0 .. ProbOne.                     *)
(***************************************************************************)
EXTENDS Integers, Sequences, SequencesExt

CONSTANTS ProbOne,           \* the integer that stands for probability 1.0
          RawProbs,          \* what the network may return, out of range included
          Thresholds,        \* the thresholds a caller may set
          SmoothWindow,      \* hparams_.smooth_window_size
          PadStartFrame,     \* hparams_.pad_start_frame
          MinSpeechFrame,    \* hparams_.min_speech_frame
          MaxSpeechFrame,    \* hparams_.max_speech_frame
          MinSilenceFrame,   \* hparams_.min_silence_frame
          MaxFrames          \* bound of the model: frames between two resets

ASSUME FireRedAssumption ==
    /\ ProbOne \in Nat \ {0}
    /\ RawProbs \subseteq Int
    /\ Thresholds \subseteq 0 .. ProbOne /\ Thresholds # {}
    /\ SmoothWindow \in Int /\ PadStartFrame \in Int
    /\ MinSpeechFrame \in Int /\ MaxSpeechFrame \in Int /\ MinSilenceFrame \in Int
    /\ MaxFrames \in Nat

VARIABLES frame_cnt,               \* frames processed since Reset
          smooth_window,           \* the last W raw probabilities
          smooth_window_sum,       \* their running sum
          fsm_state,
          speech_cnt,              \* frames since the speech run began
          silence_cnt,             \* frames of the current silent run
          hit_max_speech,          \* the last frame closed an over-long segment
          last_speech_start_frame, \* start of the open segment, or -1
          last_speech_end_frame,   \* end of the last closed segment, or -1
          speech_threshold,        \* hparams_.speech_threshold
          r                        \* the result of the latest frame

counters == <<speech_cnt, silence_cnt>>
vars == <<frame_cnt, smooth_window, smooth_window_sum, fsm_state, speech_cnt,
          silence_cnt, hit_max_speech, last_speech_start_frame,
          last_speech_end_frame, speech_threshold, r>>

FsmStates == {"SILENCE", "POSSIBLE_SPEECH", "SPEECH", "POSSIBLE_SILENCE"}

Larger(a, b) == IF a >= b THEN a ELSE b
Smaller(a, b) == IF a <= b THEN a ELSE b

W == Larger(1, SmoothWindow)

\* Mutant: the padding does not make up for the window.
PadStartAsGiven == PadStartFrame

PadStart == Larger(W, PadStartFrame)

Result(start, sf, end, ef) ==
    [is_speech_start |-> start, speech_start_frame |-> sf,
     is_speech_end |-> end, speech_end_frame |-> ef]
NoResult == Result(FALSE, -1, FALSE, -1)

Init ==
    /\ speech_threshold \in Thresholds
    /\ frame_cnt = 0
    /\ smooth_window = <<>>
    /\ smooth_window_sum = 0
    /\ fsm_state = "SILENCE"
    /\ speech_cnt = 0
    /\ silence_cnt = 0
    /\ hit_max_speech = FALSE
    /\ last_speech_start_frame = -1
    /\ last_speech_end_frame = -1
    /\ r = NoResult

-----------------------------------------------------------------------------
(* Smoothing: a running sum over a window of at most W probabilities.      *)

\* Mutant: probabilities above 1.0 get through.
ClampBelowOnly(p) == Larger(0, p)

Clamp(p) == Smaller(ProbOne, Larger(0, p))

Overfull == Len(smooth_window) >= W

WindowAfter(p) ==
    IF W = 1 THEN smooth_window
    ELSE Append(IF Overfull THEN Tail(smooth_window) ELSE smooth_window, p)

SumAfter(p) ==
    IF W = 1 THEN smooth_window_sum
    ELSE smooth_window_sum + p - (IF Overfull THEN Head(smooth_window) ELSE 0)

\* smoothed >= speech_threshold, with the division multiplied out.
IsSpeech(p) ==
    IF W = 1 THEN p >= speech_threshold
    ELSE SumAfter(p) >= speech_threshold * Len(WindowAfter(p))

-----------------------------------------------------------------------------
(* What every frame does before the switch: count, smooth, and reopen the  *)
(* segment the previous frame closed for being too long.                   *)

now == frame_cnt + 1
Start0 == IF hit_max_speech THEN now ELSE last_speech_start_frame
Result0 == Result(hit_max_speech, IF hit_max_speech THEN now ELSE -1, FALSE, -1)

Prologue(p) ==
    /\ frame_cnt < MaxFrames
    /\ frame_cnt' = now
    /\ smooth_window' = WindowAfter(p)
    /\ smooth_window_sum' = SumAfter(p)
    /\ UNCHANGED speech_threshold

\* No segment boundary in the switch itself.
NoBoundary ==
    /\ hit_max_speech' = FALSE
    /\ last_speech_start_frame' = Start0
    /\ r' = Result0
    /\ UNCHANGED last_speech_end_frame

\* Mutant: the end of the segment is not remembered.
EndSegmentForgetsEnd(forced) ==
    /\ hit_max_speech' = forced
    /\ last_speech_start_frame' = -1
    /\ speech_cnt' = 0
    /\ r' = Result(hit_max_speech, Start0, TRUE, now)
    /\ UNCHANGED last_speech_end_frame

\* The open segment is reported and ends at this frame.
EndSegment(forced) ==
    /\ hit_max_speech' = forced
    /\ last_speech_start_frame' = -1
    /\ last_speech_end_frame' = now
    /\ speech_cnt' = 0
    /\ r' = Result(hit_max_speech, Start0, TRUE, now)

-----------------------------------------------------------------------------
(* The switch.                                                             *)

SilenceStays ==
    /\ fsm_state = "SILENCE"
    /\ silence_cnt' = silence_cnt + 1
    /\ speech_cnt' = 0
    /\ NoBoundary
    /\ UNCHANGED fsm_state

SpeechSuspected ==
    /\ fsm_state = "SILENCE"
    /\ fsm_state' = "POSSIBLE_SPEECH"
    /\ speech_cnt' = speech_cnt + 1
    /\ NoBoundary
    /\ UNCHANGED silence_cnt

SuspicionGrows ==
    /\ fsm_state = "POSSIBLE_SPEECH"
    /\ speech_cnt' = speech_cnt + 1
    /\ speech_cnt' < MinSpeechFrame
    /\ NoBoundary
    /\ UNCHANGED <<fsm_state, silence_cnt>>

\* Mutant: the padding may reach into the previous segment.
PaddedStartUnclipped(cnt) == Larger(1, now - cnt + 1 - PadStart)

PaddedStart(cnt) ==
    Larger(Larger(1, now - cnt + 1 - PadStart), last_speech_end_frame + 1)

SpeechConfirmed ==
    /\ fsm_state = "POSSIBLE_SPEECH"
    /\ speech_cnt' = speech_cnt + 1
    /\ speech_cnt' >= MinSpeechFrame
    /\ fsm_state' = "SPEECH"
    /\ last_speech_start_frame' = PaddedStart(speech_cnt + 1)
    /\ silence_cnt' = 0
    /\ hit_max_speech' = FALSE
    /\ r' = Result(TRUE, PaddedStart(speech_cnt + 1), FALSE, -1)
    /\ UNCHANGED last_speech_end_frame

SuspicionDropped ==
    /\ fsm_state = "POSSIBLE_SPEECH"
    /\ fsm_state' = "SILENCE"
    /\ silence_cnt' = 1
    /\ speech_cnt' = 0
    /\ NoBoundary

\* Mutant: the limit is not looked at after a pause.
SpeechGoesOnUnlimited ==
    /\ fsm_state \in {"SPEECH", "POSSIBLE_SILENCE"}
    /\ speech_cnt' = speech_cnt + 1
    /\ fsm_state = "SPEECH" => speech_cnt' < MaxSpeechFrame
    /\ fsm_state' = "SPEECH"
    /\ silence_cnt' = 0
    /\ NoBoundary

\* Speech during an open segment, in mid-speech or after a short pause.
SpeechGoesOn ==
    /\ fsm_state \in {"SPEECH", "POSSIBLE_SILENCE"}
    /\ speech_cnt' = speech_cnt + 1
    /\ speech_cnt' < MaxSpeechFrame
    /\ fsm_state' = "SPEECH"
    /\ silence_cnt' = 0
    /\ NoBoundary

SpeechTooLong ==
    /\ fsm_state \in {"SPEECH", "POSSIBLE_SILENCE"}
    /\ speech_cnt + 1 >= MaxSpeechFrame
    /\ fsm_state' = "SPEECH"
    /\ silence_cnt' = 0
    /\ EndSegment(TRUE)

SilenceSuspected ==
    /\ fsm_state = "SPEECH"
    /\ fsm_state' = "POSSIBLE_SILENCE"
    /\ speech_cnt' = speech_cnt + 1
    /\ silence_cnt' = silence_cnt + 1
    /\ NoBoundary

SilenceGrows ==
    /\ fsm_state = "POSSIBLE_SILENCE"
    /\ speech_cnt' = speech_cnt + 1
    /\ silence_cnt' = silence_cnt + 1
    /\ silence_cnt' < MinSilenceFrame
    /\ NoBoundary
    /\ UNCHANGED fsm_state

SilenceConfirmed ==
    /\ fsm_state = "POSSIBLE_SILENCE"
    /\ silence_cnt' = silence_cnt + 1
    /\ silence_cnt' >= MinSilenceFrame
    /\ fsm_state' = "SILENCE"
    /\ EndSegment(FALSE)

OnSpeech ==
    SpeechSuspected \/ SuspicionGrows \/ SpeechConfirmed \/ SpeechGoesOn \/ SpeechTooLong

OnSilence ==
    SilenceStays \/ SuspicionDropped \/ SilenceSuspected \/ SilenceGrows \/ SilenceConfirmed

ProcessOneFrame(raw) ==
    /\ Prologue(Clamp(raw))
    /\ IF IsSpeech(Clamp(raw)) THEN OnSpeech ELSE OnSilence

-----------------------------------------------------------------------------
Reset ==
    /\ frame_cnt' = 0
    /\ smooth_window' = <<>>
    /\ smooth_window_sum' = 0
    /\ fsm_state' = "SILENCE"
    /\ speech_cnt' = 0
    /\ silence_cnt' = 0
    /\ hit_max_speech' = FALSE
    /\ last_speech_start_frame' = -1
    /\ last_speech_end_frame' = -1
    /\ r' = NoResult
    /\ UNCHANGED speech_threshold

SetThreshold(t) ==
    /\ speech_threshold' = t
    /\ UNCHANGED <<frame_cnt, smooth_window, smooth_window_sum, fsm_state, counters,
                   hit_max_speech, last_speech_start_frame, last_speech_end_frame, r>>

Next ==
    \/ \E raw \in RawProbs : ProcessOneFrame(raw)
    \/ \E t \in Thresholds : SetThreshold(t)
    \/ Reset

Spec == Init /\ [][Next]_vars

-----------------------------------------------------------------------------
(* Properties.                                                             *)

InSegment == fsm_state \in {"SPEECH", "POSSIBLE_SILENCE"}

\* Every field of FireRedVadState holds a value of its type.
TypeOK ==
    /\ frame_cnt \in 0 .. MaxFrames
    /\ smooth_window \in Seq(0 .. ProbOne)
    /\ smooth_window_sum \in Int
    /\ fsm_state \in FsmStates
    /\ speech_cnt \in Nat
    /\ silence_cnt \in Nat
    /\ hit_max_speech \in BOOLEAN
    /\ last_speech_start_frame \in Int
    /\ last_speech_end_frame \in Int
    /\ speech_threshold \in Thresholds
    /\ r \in [is_speech_start : BOOLEAN, speech_start_frame : Int,
             is_speech_end : BOOLEAN, speech_end_frame : Int]

\* The start of a segment is on record exactly while the machine is inside
\* one, the frame between a forced end and the reopening excepted.  Every end
\* the switch reports therefore has a start to report with it (ProcessOneFrame
\* copies last_speech_start_frame into the result without looking at it).
StartOnRecord ==
    (last_speech_start_frame # -1) <=> (InSegment /\ ~hit_max_speech)

\* An open segment begins after the end of the last one and not in the
\* future: the padding before the onset never reaches into reported audio.
SegmentsApart ==
    last_speech_start_frame # -1 =>
        /\ last_speech_end_frame < last_speech_start_frame
        /\ 1 <= last_speech_start_frame
        /\ last_speech_start_frame <= frame_cnt

\* No segment outgrows the configuration: max_speech_frame is compared on
\* speech frames only and counts neither the padding nor the last pause, so
\* the longest segment is that many frames longer.
LongestRun ==
    Larger(Larger(2, MinSpeechFrame), MaxSpeechFrame - 1) + Larger(2, MinSilenceFrame)
SegmentLength(first, last) == last - first + 1
SegmentsBounded ==
    /\ last_speech_start_frame # -1 =>
           SegmentLength(last_speech_start_frame, frame_cnt) <= LongestRun + PadStart
    /\ r.is_speech_end =>
           SegmentLength(r.speech_start_frame, r.speech_end_frame) <= LongestRun + PadStart

\* Smoothing delays the decision by up to W frames, and the padding makes up
\* for it: at the frame that confirms an onset, the segment reaches back over
\* the whole window the first speech frame of the run was judged by, or to
\* the end of the previous segment.
OnsetCovered ==
    (r.is_speech_start /\ fsm_state = "SPEECH" /\ speech_cnt > 1) =>
        r.speech_start_frame <=
            Larger(Larger(1, frame_cnt - speech_cnt + 1 - (W - 1)), last_speech_end_frame + 1)

-----------------------------------------------------------------------------
(* The postprocessor implements the promise of a streaming detector.       *)

Emitted ==
    IF r.is_speech_end THEN <<r.speech_start_frame, r.speech_end_frame>> ELSE <<>>

Events == INSTANCE SpeechEvents
    WITH NoFrame <- -1, clock <- frame_cnt, open <- last_speech_start_frame,
         lastEnd <- last_speech_end_frame, emitted <- Emitted

\* Segments come one at a time, disjoint and in order, each reported once with
\* the start it was opened with; only Reset forgets one.
ImplementsEvents == Events!Spec
=============================================================================
