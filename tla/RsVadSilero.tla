----------------------------- MODULE RsVadSilero -----------------------------
(***************************************************************************)
(* The streaming VAD handle of the C API (rs_vad_t) over a Silero model:   *)
(* audio waits in pending until it fills a window, every window gets a     *)
(* probability, and the handle turns probabilities into segments with an   *)
(* entry and an exit threshold.  The model keeps a second, slower opinion  *)
(* of its own in its state (VADIterator in SileroVadModel::Encode).        *)
(* Audio is counted in samples, probabilities in percent.                  *)
(***************************************************************************)
EXTENDS Integers, Sequences, SequencesExt

CONSTANTS Window,       \* SILERO_WINDOW
          Probs,        \* what the network may return
          Thresholds,   \* the thresholds a caller may set
          MinSilence,   \* min_silence_ms, in samples
          ChunkSizes,   \* the chunk sizes a caller pushes
          Capacities,   \* the capacities a caller drains with
          MaxSamples    \* bound of the model: samples pushed between resets

Larger(a, b) == IF a >= b THEN a ELSE b
Smaller(a, b) == IF a <= b THEN a ELSE b

\* A threshold below one percent would put the exit above the entry.
ASSUME SileroAssumption ==
    /\ Window \in Nat \ {0} /\ MinSilence \in Nat /\ MaxSamples \in Nat
    /\ Probs \subseteq 0 .. 100
    /\ Thresholds \subseteq 1 .. 100 /\ Thresholds # {}
    /\ ChunkSizes \subseteq Nat \ {0} /\ Capacities \subseteq Nat

VARIABLES pending,            \* samples waiting for their window to fill
          samples_in,         \* samples of the windows taken
          pushed,             \* samples pushed since the last reset
          threshold, silero_exit_threshold,
          in_speech, seg_start_sample, silero_frame_idx, is_speech_flag,
          seg_q, frame_q,
          taken,              \* segments handed to the caller since the last reset
          failed,             \* windows the network failed on since the last reset
          triggered, temp_end_sample, current_sample,    \* SileroVadState
          call, capacity      \* the call in progress and what it may write

thresholds == <<threshold, silero_exit_threshold>>
handle == <<in_speech, seg_start_sample, silero_frame_idx, is_speech_flag>>
iterator == <<triggered, temp_end_sample, current_sample>>
vars == <<pending, samples_in, pushed, thresholds, handle, seg_q, frame_q, taken, failed,
          iterator, call, capacity>>

ExitFor(t) == Larger(1, t - 15)

Init ==
    /\ threshold \in Thresholds
    /\ silero_exit_threshold = ExitFor(threshold)
    /\ pending = 0
    /\ samples_in = 0
    /\ pushed = 0
    /\ in_speech = FALSE
    /\ seg_start_sample = 0
    /\ silero_frame_idx = 0
    /\ is_speech_flag = FALSE
    /\ seg_q = <<>>
    /\ frame_q = <<>>
    /\ taken = <<>>
    /\ failed = 0
    /\ triggered = FALSE
    /\ temp_end_sample = 0
    /\ current_sample = 0
    /\ call = "none"
    /\ capacity = 0

Idle == call = "none"

\* Mutant: a new entry threshold leaves the exit where it was.
SetThresholdEntryOnly(t) ==
    /\ Idle
    /\ threshold' = t
    /\ UNCHANGED <<silero_exit_threshold, pending, samples_in, pushed, handle, seg_q, frame_q,
                   taken, failed, iterator, call, capacity>>

\* rs_vad_set_threshold, at any time between calls.
SetThreshold(t) ==
    /\ Idle
    /\ threshold' = t
    /\ silero_exit_threshold' = ExitFor(t)
    /\ UNCHANGED <<pending, samples_in, pushed, handle, seg_q, frame_q, taken, failed,
                   iterator, call, capacity>>

\* rs_vad_push_audio: the chunk joins pending; its windows follow.
PushAudio(n) ==
    /\ Idle
    /\ pushed + n <= MaxSamples
    /\ call' = "push"
    /\ pushed' = pushed + n
    /\ pending' = pending + n
    /\ UNCHANGED <<samples_in, thresholds, handle, seg_q, frame_q, taken, failed, iterator,
                   capacity>>

\* Mutant: the counter of samples is not reset with the rest.
ClearKeepsClock ==
    /\ in_speech' = FALSE
    /\ seg_start_sample' = 0
    /\ silero_frame_idx' = 0
    /\ is_speech_flag' = FALSE
    /\ samples_in' = samples_in
    /\ seg_q' = <<>>
    /\ frame_q' = <<>>
    /\ taken' = <<>>
    /\ failed' = 0
    /\ triggered' = FALSE
    /\ temp_end_sample' = 0
    /\ current_sample' = 0
    /\ UNCHANGED thresholds

\* rs_vad_reset, but for pending: the handle is cleared and the model's state
\* replaced by a new one.
Clear ==
    /\ in_speech' = FALSE
    /\ seg_start_sample' = 0
    /\ silero_frame_idx' = 0
    /\ is_speech_flag' = FALSE
    /\ samples_in' = 0
    /\ seg_q' = <<>>
    /\ frame_q' = <<>>
    /\ taken' = <<>>
    /\ failed' = 0
    /\ triggered' = FALSE
    /\ temp_end_sample' = 0
    /\ current_sample' = 0
    /\ UNCHANGED thresholds

VadReset ==
    /\ Idle
    /\ Clear
    /\ pending' = 0
    /\ pushed' = 0
    /\ UNCHANGED <<call, capacity>>

\* rs_vad_detect_full: a reset, then the whole utterance in one push.
DetectFull(n, cap) ==
    /\ Idle
    /\ n <= MaxSamples
    /\ Clear
    /\ call' = "detect"
    /\ capacity' = cap
    /\ pending' = n
    /\ pushed' = n

-----------------------------------------------------------------------------
(* One window.                                                             *)

WindowTaken ==
    /\ ~Idle
    /\ pending >= Window
    /\ pending' = pending - Window
    /\ samples_in' = samples_in + Window

\* VADIterator: speech triggers, and silence that lasts ends it.
Iterate(p) ==
    /\ current_sample' = current_sample + Window
    /\ LET silent == p < ExitFor(threshold) /\ triggered
           since == IF temp_end_sample = 0 THEN current_sample' ELSE temp_end_sample
           over == silent /\ current_sample' - since >= MinSilence
       IN  /\ triggered' = (p >= threshold \/ (triggered /\ ~over))
           /\ temp_end_sample' = IF p >= threshold \/ over THEN 0
                                 ELSE IF silent THEN since ELSE temp_end_sample

\* Hysteresis: speech goes on above the exit, and begins above the entry.
NowSpeech(p) == IF in_speech THEN p >= silero_exit_threshold ELSE p >= threshold

\* The network returns p for the window, and the handle makes a frame event of
\* it and perhaps the start or the end of a segment.
ProcessWindow(p) ==
    /\ WindowTaken
    /\ Iterate(p)
    /\ silero_frame_idx' = silero_frame_idx + 1
    /\ in_speech' = NowSpeech(p)
    /\ is_speech_flag' = in_speech'
    /\ frame_q' = Append(frame_q, [frame_idx |-> silero_frame_idx', is_speech |-> in_speech',
                                   is_speech_start |-> ~in_speech /\ in_speech',
                                   is_speech_end |-> in_speech /\ ~in_speech'])
    /\ seg_start_sample' = IF ~in_speech /\ in_speech' THEN samples_in ELSE seg_start_sample
    /\ seg_q' = IF in_speech /\ ~in_speech' THEN Append(seg_q, <<seg_start_sample, samples_in'>>)
                ELSE seg_q
    /\ UNCHANGED <<pushed, thresholds, taken, failed, call, capacity>>

\* The network fails: the window has passed and nothing else has happened.
EncodeFails ==
    /\ WindowTaken
    /\ failed' = failed + 1
    /\ UNCHANGED <<pushed, thresholds, handle, seg_q, frame_q, taken, iterator, call, capacity>>

-----------------------------------------------------------------------------
\* The first n entries of a queue, or all of them, go to the caller.
Handed(q, n) == SubSeq(q, 1, Smaller(n, Len(q)))
Kept(q, n) == SubSeq(q, Smaller(n, Len(q)) + 1, Len(q))

PushReturns ==
    /\ call = "push" /\ pending < Window
    /\ call' = "none"
    /\ UNCHANGED <<pending, samples_in, pushed, thresholds, handle, seg_q, frame_q, taken,
                   failed, iterator, capacity>>

\* Mutant: the flushed segment stays open.
DetectReturnsOpen ==
    /\ call = "detect" /\ pending < Window
    /\ call' = "none"
    /\ LET all == IF in_speech THEN Append(seg_q, <<seg_start_sample, samples_in>>) ELSE seg_q
       IN  /\ taken' = taken \o Handed(all, capacity)
           /\ seg_q' = Kept(all, capacity)
    /\ capacity' = 0
    /\ UNCHANGED <<in_speech, pending, samples_in, pushed, thresholds, seg_start_sample,
                   silero_frame_idx, is_speech_flag, frame_q, failed, iterator>>

\* The open segment is flushed at the last window's end, and what fits is handed
\* over; the rest stays queued.
DetectReturns ==
    /\ call = "detect" /\ pending < Window
    /\ call' = "none"
    /\ LET all == IF in_speech THEN Append(seg_q, <<seg_start_sample, samples_in>>) ELSE seg_q
       IN  /\ taken' = taken \o Handed(all, capacity)
           /\ seg_q' = Kept(all, capacity)
    /\ in_speech' = FALSE
    /\ capacity' = 0
    /\ UNCHANGED <<pending, samples_in, pushed, thresholds, seg_start_sample, silero_frame_idx,
                   is_speech_flag, frame_q, failed, iterator>>

DrainSegments(cap) ==
    /\ Idle
    /\ taken' = taken \o Handed(seg_q, cap)
    /\ seg_q' = Kept(seg_q, cap)
    /\ UNCHANGED <<pending, samples_in, pushed, thresholds, handle, frame_q, failed, iterator,
                   call, capacity>>

DrainFrames(cap) ==
    /\ Idle
    /\ frame_q' = Kept(frame_q, cap)
    /\ UNCHANGED <<pending, samples_in, pushed, thresholds, handle, seg_q, taken, failed,
                   iterator, call, capacity>>

Next ==
    \/ \E t \in Thresholds : SetThreshold(t)
    \/ \E n \in ChunkSizes : PushAudio(n)
    \/ \E n \in ChunkSizes, cap \in Capacities : DetectFull(n, cap)
    \/ VadReset
    \/ \E p \in Probs : ProcessWindow(p)
    \/ EncodeFails
    \/ PushReturns \/ DetectReturns
    \/ \E cap \in Capacities : DrainSegments(cap) \/ DrainFrames(cap)

Spec == Init /\ [][Next]_vars

-----------------------------------------------------------------------------
(* Properties.                                                             *)

\* However the audio is cut, it is taken in whole windows of the stream: less
\* than a window is left between calls, every window has an event or failed, and
\* the model's clock stands behind the handle's by exactly the failed windows.
WindowsOfStream ==
    /\ samples_in + pending = pushed
    /\ Idle => pending < Window
    /\ samples_in = (silero_frame_idx + failed) * Window
    /\ current_sample = silero_frame_idx * Window

\* What the caller got and what is still queued, oldest first.
Reported == taken \o seg_q

\* Segments are non-empty, lie within the windows taken and follow each other
\* without overlap, through one-shot detections, failures of the network and
\* threshold changes in mid-speech; the open one follows the last.
SegmentsOrdered ==
    /\ \A i \in DOMAIN Reported :
           Reported[i][1] < Reported[i][2] /\ Reported[i][2] <= samples_in
    /\ \A i \in 1 .. Len(Reported) - 1 : Reported[i][2] <= Reported[i + 1][1]
    /\ in_speech /\ Reported # <<>> => Last(Reported)[2] <= seg_start_sample

\* The two opinions on speech never contradict each other: while the handle is
\* in speech, so is the model, and it is not waiting for a silence to last.
HandleWithinModel == in_speech => triggered /\ temp_end_sample = 0
=============================================================================
