-------------------------- MODULE FireRedSegmenter --------------------------
(***************************************************************************)
(* The FireRedVAD front end of rs-asr-vad-online: every chunk of audio is  *)
(* appended to a rolling buffer and run through the detector, segments are *)
(* cut out of the buffer as their ends are reported, previews of the open  *)
(* segment in between, and the buffer is trimmed after every chunk.  The   *)
(* buffer holds the samples audio_buf_start .. total - 1.                  *)
(***************************************************************************)
EXTENDS FireRedStream

CONSTANTS WindowSizes,   \* VAD_WINDOW, and less when the input ends
          PadPre,       \* pad_pre_samples
          IdleKeep,     \* IDLE_KEEP_SAMPLES
          Interval,     \* partial_interval_samples
          TwoPass,      \* args.two_pass
          MaxTotal    \* bound of the model: samples of audio

\* The comment at IDLE_KEEP_SAMPLES: it covers the padding and the smoothing.
\* MinSpeechFrame frames pass before an onset is confirmed, and the frames of
\* the next chunk begin up to a frame before it.
ASSUME SegmenterAssumption ==
    /\ WindowSizes \subseteq Nat \ {0} /\ MaxTotal \in Nat
    /\ PadPre \in Nat /\ IdleKeep \in Nat
    /\ Interval \in Nat \ {0} /\ TwoPass \in BOOLEAN
    /\ IdleKeep >= (Larger(2, MinSpeechFrame) + PadStart) * FrameShift + FrameSize

VARIABLES step,              \* where the call is
          total,             \* total_samples_read
          audio_buf_start,   \* audio_buf_start_sample
          current_seg_idx, last_partial_sample, seg_counter,
          latest_extracted_end,
          ended,             \* the input has ended and the tail was flushed
          sent               \* the segment pushed by the latest step, or none

segVars == <<total, audio_buf_start, current_seg_idx, last_partial_sample, seg_counter,
             latest_extracted_end, ended, sent>>
segmenterVars == <<vars, stream, step, segVars>>

None == <<>>

SegmenterInit ==
    /\ StreamInit
    /\ step = "idle"
    /\ total = 0
    /\ audio_buf_start = 0
    /\ current_seg_idx = 0
    /\ last_partial_sample = 0
    /\ seg_counter = 0
    /\ latest_extracted_end = 0
    /\ ended = FALSE
    /\ sent = None

\* Padded by PadPre samples, as far as there are any.
Rewound(sample) == Larger(0, sample - PadPre)

\* The part of start .. end that the buffer still has.
Slice(start, end) == <<Larger(start, audio_buf_start), Smaller(end, total)>>
Empty(slice) == slice[2] <= slice[1]

\* What goes into the queue: audio from .. to, announced as start .. end, of a
\* segment whose speech begins at speech.
Sent(speech, end, index, is_partial) ==
    [from |-> Slice(Rewound(speech), end)[1], to |-> Slice(Rewound(speech), end)[2],
     start |-> Rewound(speech), end |-> end, speech |-> speech,
     index |-> index, is_partial |-> is_partial]

-----------------------------------------------------------------------------
\* A chunk is appended to the buffer and cut into frames.
Chunk(n) ==
    /\ step = "idle" /\ ~ended
    /\ total + n <= MaxTotal
    /\ total' = total + n
    /\ Cut(audio_remainder + n, lost)
    /\ step' = "frames"
    /\ latest_extracted_end' = 0
    /\ sent' = None
    /\ UNCHANGED <<vars, audio_buf_start, current_seg_idx, last_partial_sample,
                   seg_counter, ended>>

\* Mutant: only a confirmed onset gets an index, not a segment that goes on
\* after its forced end.
IndexAfterOnset ==
    IF r'.is_speech_start /\ r'.speech_start_frame # frame_cnt' THEN seg_counter + 1
    ELSE current_seg_idx

\* The index of the segment after a frame that may have started one.
IndexAfter == IF r'.is_speech_start THEN seg_counter + 1 ELSE current_seg_idx

\* Where partials are timed from after a frame that may have started a segment.
TimedFrom ==
    IF ~r'.is_speech_start THEN last_partial_sample
    ELSE IF r'.speech_start_frame > 0 THEN (r'.speech_start_frame - 1) * FrameShift ELSE total

\* The frame ends a segment and the buffer still has some of its audio.
Extracts ==
    /\ r'.is_speech_end /\ r'.speech_start_frame > 0 /\ r'.speech_end_frame > 0
    /\ LET s == Segment(r'.speech_start_frame, r'.speech_end_frame)
       IN  ~Empty(Slice(Rewound(s[1]), s[2]))

\* The frame's result is turned into a new segment, a final, or both.
FrameResult(raw) ==
    /\ step = "frames"
    /\ NextFrame(raw)
    /\ IF Extracts
       THEN LET s == Segment(r'.speech_start_frame, r'.speech_end_frame)
                idx == IF IndexAfter # 0 THEN IndexAfter ELSE seg_counter + 1
            IN  /\ sent' = Sent(s[1], s[2], idx, FALSE)
                /\ seg_counter' = Larger(seg_counter, idx)
                /\ current_seg_idx' = 0
                /\ last_partial_sample' = 0
                /\ latest_extracted_end' = Larger(latest_extracted_end, s[2])
       ELSE /\ current_seg_idx' = IndexAfter
            /\ seg_counter' = Larger(seg_counter, IndexAfter)
            /\ last_partial_sample' = TimedFrom
            /\ sent' = None
            /\ UNCHANGED latest_extracted_end
    /\ UNCHANGED <<step, total, audio_buf_start, ended>>

SpeechSample == (last_speech_start_frame - 1) * FrameShift

PartialDue ==
    /\ TwoPass /\ current_seg_idx # 0 /\ last_speech_start_frame > 0
    /\ total - last_partial_sample >= Interval

\* The queue may be backed up, and then there is no partial.
EmitPartial ==
    /\ step = "frames" /\ todo = 0
    /\ step' = "trim"
    /\ \/ /\ PartialDue
          /\ ~Empty(Slice(Rewound(SpeechSample), total))
          /\ sent' = Sent(SpeechSample, total, current_seg_idx, TRUE)
          /\ last_partial_sample' = total
       \/ /\ sent' = None
          /\ UNCHANGED last_partial_sample
    /\ UNCHANGED <<vars, stream, total, audio_buf_start, current_seg_idx, seg_counter,
                   latest_extracted_end, ended>>

\* Mutant: nothing is kept for a segment that is not confirmed yet.
KeepOpenOnly ==
    IF last_speech_start_frame > 0 THEN Smaller(total, SpeechSample) ELSE total

\* Mutant: nothing is dropped while no segment is open.
KeepAllWhenIdle == IF last_speech_start_frame > 0 THEN Smaller(total, SpeechSample) ELSE 0

\* The audio that may still be wanted begins here, the padding not counted.
KeepFrom ==
    IF last_speech_start_frame > 0 /\ fsm_state # "SILENCE"
    THEN Smaller(total, SpeechSample)
    ELSE Larger(0, total - IdleKeep)

Trim ==
    /\ step = "trim"
    /\ step' = "idle"
    /\ LET keep == Larger(Rewound(KeepFrom), latest_extracted_end)
       IN  audio_buf_start' = Larger(audio_buf_start, Smaller(keep, total))
    /\ sent' = None
    /\ UNCHANGED <<vars, stream, total, current_seg_idx, last_partial_sample, seg_counter,
                   latest_extracted_end, ended>>

\* flush_firered_tail at the end of the input.
FlushTail ==
    /\ step = "idle" /\ ~ended
    /\ ended' = TRUE
    /\ IF fsm_state # "SILENCE" /\ last_speech_start_frame > 0
          /\ ~Empty(Slice(Rewound(SpeechSample), total))
       THEN LET idx == IF current_seg_idx # 0 THEN current_seg_idx ELSE seg_counter + 1
            IN  /\ sent' = Sent(SpeechSample, total, idx, FALSE)
                /\ seg_counter' = Larger(seg_counter, idx)
                /\ current_seg_idx' = 0
                /\ last_partial_sample' = 0
       ELSE /\ sent' = None
            /\ UNCHANGED <<current_seg_idx, last_partial_sample, seg_counter>>
    /\ UNCHANGED <<vars, stream, step, total, audio_buf_start, latest_extracted_end>>

SegmenterNext ==
    \/ \E n \in WindowSizes : Chunk(n)
    \/ \E raw \in RawProbs : FrameResult(raw)
    \/ EmitPartial
    \/ Trim
    \/ FlushTail

SegmenterSpec == SegmenterInit /\ [][SegmenterNext]_segmenterVars

-----------------------------------------------------------------------------
(* Properties.                                                             *)

\* The buffer is trimmed after every chunk, long before it is known where the
\* next segment will begin, and yet no segment loses any of its speech: its
\* audio reaches from where the detector starts it to its end.
SpeechNeverTrimmed ==
    (sent # None /\ lost = 0) => sent.from <= sent.speech /\ sent.to = sent.end

\* The index that links the partials of a segment to its final is there exactly
\* while the detector has a segment open.
IndexFollowsSegment ==
    (lost = 0 /\ ~ended) => (current_seg_idx # 0 <=> last_speech_start_frame # -1)

\* What is kept in memory does not grow with the length of the stream.
BufferBounded ==
    (step = "idle" /\ lost = 0) =>
        total - audio_buf_start <=
            PadPre + Larger(IdleKeep, (LongestRun + PadStart) * FrameShift + FrameSize)
=============================================================================
