---------------------------- MODULE RsVadFireRed ----------------------------
(***************************************************************************)
(* The streaming VAD handle of the C API (rs_vad_t) over a FireRedVAD      *)
(* model: audio is cut into overlapping frames across calls of any size    *)
(* (FireRedVadModel::DetectStreamingChunk), every frame goes through the   *)
(* postprocessor of FireRedPost, and its start and end events become       *)
(* segments and frame events that the caller drains from two queues.       *)
(* A handle serves one call at a time: a call is a PushAudio or DetectFull *)
(* step followed by one step per frame.  Times are counted in samples.     *)
(***************************************************************************)
EXTENDS FireRedStream

CONSTANTS ChunkSizes,     \* the chunk sizes a caller pushes
          Capacities,     \* the capacities a caller drains with
          MaxSamples      \* bound of the model: samples pushed between resets

ASSUME VadAssumption ==
    /\ ChunkSizes \subseteq Nat \ {0}
    /\ Capacities \subseteq Nat
    /\ MaxSamples \in Nat

VARIABLES samples_in,       \* samples pushed since the last reset
          call,             \* the call in progress
          capacity,         \* what the call in progress may write to its caller
          in_speech,        \* a segment is open, as the handle sees it
          seg_start_sample, \* where it began
          seg_q,            \* segments not yet drained
          frame_q,          \* frame events not yet drained
          is_speech_flag,   \* what rs_vad_is_speech returns
          taken,            \* segments handed to the caller since the last reset
          flush             \* whether rs_vad_detect_full flushed a segment, and
                            \* whether audio was pushed after it

handle == <<in_speech, seg_start_sample, seg_q, frame_q, is_speech_flag, taken>>
allVars == <<vars, stream, handle, samples_in, call, capacity, flush>>

VadInit ==
    /\ StreamInit
    /\ samples_in = 0
    /\ call = "none"
    /\ capacity = 0
    /\ in_speech = FALSE
    /\ seg_start_sample = 0
    /\ seg_q = <<>>
    /\ frame_q = <<>>
    /\ is_speech_flag = FALSE
    /\ taken = <<>>
    /\ flush = "none"

-----------------------------------------------------------------------------
(* The calls.                                                              *)

Idle == call = "none"

\* rs_vad_push_audio: the chunk is counted and cut; its frames follow.
PushAudio(n) ==
    /\ Idle
    /\ samples_in + n <= MaxSamples
    /\ call' = "push"
    /\ samples_in' = samples_in + n
    /\ Cut(audio_remainder + n, lost)
    /\ flush' = IF flush = "none" THEN "none" ELSE "stale"
    /\ UNCHANGED <<vars, handle, capacity>>

\* Mutant: a reset leaves the handle inside its segment.
ClearHandleKeepsSpeech ==
    /\ Reset
    /\ in_speech' = in_speech
    /\ seg_start_sample' = 0
    /\ seg_q' = <<>>
    /\ frame_q' = <<>>
    /\ is_speech_flag' = FALSE
    /\ taken' = <<>>
    /\ flush' = "none"

\* rs_vad_reset clears the queues, the counters and the detector.
ClearHandle ==
    /\ Reset
    /\ in_speech' = FALSE
    /\ seg_start_sample' = 0
    /\ seg_q' = <<>>
    /\ frame_q' = <<>>
    /\ is_speech_flag' = FALSE
    /\ taken' = <<>>
    /\ flush' = "none"

VadReset ==
    /\ Idle
    /\ ClearHandle
    /\ samples_in' = 0
    /\ audio_remainder' = 0
    /\ lost' = 0
    /\ UNCHANGED <<todo, call, capacity>>

\* rs_vad_detect_full: a reset, then the whole utterance in one push.
DetectFull(n, cap) ==
    /\ Idle
    /\ n <= MaxSamples
    /\ ClearHandle
    /\ call' = "detect"
    /\ capacity' = cap
    /\ samples_in' = n
    /\ Cut(n, 0)

\* One frame goes through the postprocessor and its result into the queues.
Frame(raw) ==
    /\ ~Idle
    /\ NextFrame(raw)
    /\ frame_q' = Append(frame_q, [frame_idx |-> frame_cnt',
                                   is_speech_start |-> r'.is_speech_start,
                                   is_speech_end |-> r'.is_speech_end])
    /\ seg_start_sample' = IF r'.is_speech_start THEN (r'.speech_start_frame - 1) * FrameShift
                           ELSE seg_start_sample
    /\ IF r'.is_speech_end /\ r'.speech_start_frame > 0 /\ r'.speech_end_frame > 0
       THEN /\ seg_q' = Append(seg_q, Segment(r'.speech_start_frame, r'.speech_end_frame))
            /\ in_speech' = FALSE
       ELSE /\ in_speech' = (in_speech \/ r'.is_speech_start)
            /\ UNCHANGED seg_q
    /\ UNCHANGED <<samples_in, call, capacity, is_speech_flag, taken, flush>>

\* The first n entries of the queue, or all of them, go to the caller.
Handed(q, n) == SubSeq(q, 1, Smaller(n, Len(q)))
Kept(q, n) == SubSeq(q, Smaller(n, Len(q)) + 1, Len(q))

PushReturns ==
    /\ call = "push" /\ todo = 0
    /\ call' = "none"
    /\ is_speech_flag' = InSegment
    /\ UNCHANGED <<vars, stream, samples_in, in_speech, seg_start_sample, seg_q, frame_q,
                   taken, capacity, flush>>

\* The open segment, if any, is flushed at the last sample, and what fits is
\* handed over; the rest stays queued.
DetectReturns ==
    /\ call = "detect" /\ todo = 0
    /\ call' = "none"
    /\ is_speech_flag' = InSegment
    /\ LET all == IF in_speech THEN Append(seg_q, <<seg_start_sample, samples_in>>) ELSE seg_q
       IN  /\ taken' = taken \o Handed(all, capacity)
           /\ seg_q' = Kept(all, capacity)
    /\ flush' = IF in_speech THEN "last" ELSE "none"
    /\ in_speech' = FALSE
    /\ capacity' = 0
    /\ UNCHANGED <<vars, stream, samples_in, seg_start_sample, frame_q>>

DrainSegments(cap) ==
    /\ Idle
    /\ taken' = taken \o Handed(seg_q, cap)
    /\ seg_q' = Kept(seg_q, cap)
    /\ UNCHANGED <<vars, stream, samples_in, in_speech, seg_start_sample, frame_q,
                   is_speech_flag, call, capacity, flush>>

DrainFrames(cap) ==
    /\ Idle
    /\ frame_q' = Kept(frame_q, cap)
    /\ UNCHANGED <<vars, stream, samples_in, in_speech, seg_start_sample, seg_q,
                   is_speech_flag, taken, call, capacity, flush>>

VadSetThreshold(t) ==
    /\ Idle
    /\ SetThreshold(t)
    /\ UNCHANGED <<handle, stream, samples_in, call, capacity, flush>>

VadNext ==
    \/ \E n \in ChunkSizes : PushAudio(n)
    \/ \E n \in ChunkSizes, cap \in Capacities : DetectFull(n, cap)
    \/ \E raw \in RawProbs : Frame(raw)
    \/ PushReturns \/ DetectReturns
    \/ \E cap \in Capacities : DrainSegments(cap) \/ DrainFrames(cap)
    \/ \E t \in Thresholds : VadSetThreshold(t)
    \/ VadReset

VadSpec == VadInit /\ [][VadNext]_allVars

-----------------------------------------------------------------------------
(* Properties.                                                             *)

\* The audio may be pushed in chunks of any size: the frames are those of the
\* whole signal.
ChunkingInvisible == FramedWhole(samples_in)

\* What the caller got and what is still queued, oldest first.
Reported == taken \o seg_q

OrderedWithin(segs, limit) ==
    /\ \A i \in DOMAIN segs : segs[i][1] < segs[i][2] /\ segs[i][2] <= limit
    /\ \A i \in 1 .. Len(segs) - 1 : segs[i][2] <= segs[i + 1][1]

\* The segments of a stream are non-empty, lie within the audio pushed so far,
\* follow each other without overlap and are delivered in that order, however
\* the audio is cut and the queue is drained, up to a flush.
SegmentsOrdered == flush # "stale" => OrderedWithin(Reported, samples_in)

\* The handle's own idea of the open segment, kept from the events, agrees with
\* the detector's between calls, and rs_vad_is_speech never denies it.
HandleFollowsDetector ==
    (Idle /\ flush = "none") =>
        /\ in_speech <=> (last_speech_start_frame # -1)
        /\ in_speech => /\ is_speech_flag
                        /\ seg_start_sample = (last_speech_start_frame - 1) * FrameShift
=============================================================================
