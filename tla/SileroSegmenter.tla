--------------------------- MODULE SileroSegmenter ---------------------------
(***************************************************************************)
(* The Silero front end of rs-asr-vad-online (process_vad_chunk): every    *)
(* chunk gets a smoothed speech probability, which opens a segment, keeps  *)
(* it open with hysteresis, or lets it run out in silence; audio before    *)
(* the onset is kept in a pre-roll buffer, long segments are cut at a dip  *)
(* of the probability or at a cap.                                         *)
(*                                                                         *)
(* A chunk is the unit of time and a buffer is the sequence of the numbers *)
(* of its chunks, so that it shows which audio it holds.  Probabilities    *)
(* are in percent.  What smoothing returns is any of Probs.                *)
(***************************************************************************)
EXTENDS Integers, Sequences, SequencesExt

CONSTANTS Probs,          \* smoothed probabilities
          Threshold,      \* args.vad_threshold
          PrerollMax,     \* preroll_max_samples
          Pad,            \* speech_pad_ms
          SilenceLimits,  \* what adapting makes of silence_ms, in frames
          TwoPass,        \* args.two_pass
          Interval,       \* partial_ms
          MaxSegment,     \* max_segment_ms, 0 for none
          Search,         \* search_samples before the cap
          MaxChunks       \* bound of the model: chunks of audio

Larger(a, b) == IF a >= b THEN a ELSE b

ASSUME SileroSegmenterAssumption ==
    /\ Probs \subseteq 0 .. 100 /\ Threshold \in 0 .. 100
    /\ {PrerollMax, Pad, MaxSegment, Search, MaxChunks} \subseteq Nat
    /\ SilenceLimits \subseteq Nat \ {0} /\ SilenceLimits # {}
    /\ Interval \in Nat \ {0} /\ TwoPass \in BOOLEAN

VARIABLES step,                   \* where the call is
          in_speech, silence_frames, smoothed_prob,
          silence_frames_limit,   \* from adaptive_silence_ms
          speech_buf, preroll_buf,
          speech_start_offset, total,
          current_segment_index, last_partial, seg_counter,
          soft_cut_best_offset, soft_cut_best_prob,
          sent,                   \* the segment pushed by the latest step, or none
          emitted,                \* the last chunk of the latest final
          owed,                   \* chunks of speech that no final has yet
          finals, previews        \* indices that got a final, that got a partial

speech == <<in_speech, silence_frames, silence_frames_limit>>
buffers == <<speech_buf, preroll_buf, speech_start_offset>>
indices == <<current_segment_index, last_partial, seg_counter>>
cut == <<soft_cut_best_offset, soft_cut_best_prob>>
seen == <<emitted, owed, finals, previews>>
vars == <<step, speech, smoothed_prob, buffers, total, indices, cut, sent, seen>>

None == <<>>

Init ==
    /\ step = "chunk"
    /\ in_speech = FALSE
    /\ silence_frames = 0
    /\ smoothed_prob = 0
    /\ silence_frames_limit \in SilenceLimits
    /\ speech_buf = <<>>
    /\ preroll_buf = <<>>
    /\ speech_start_offset = 0
    /\ total = 0
    /\ current_segment_index = 0
    /\ last_partial = 0
    /\ seg_counter = 0
    /\ soft_cut_best_offset = -1
    /\ soft_cut_best_prob = 100
    /\ sent = None
    /\ emitted = 0
    /\ owed = {}
    /\ finals = {}
    /\ previews = {}

Exit == Larger(1, Threshold - 15)
Soft == Larger(5, Threshold - 20)
SearchStart == Larger(0, MaxSegment - Search)

\* The chunk being processed; total counts it only at the end of the call.
this == total + 1

\* Mutant: the pre-roll keeps its oldest audio.
Oldest(buf, n) == IF Len(buf) <= n THEN buf ELSE SubSeq(buf, 1, n)

\* The last n chunks of a buffer.
Newest(buf, n) == IF Len(buf) <= n THEN buf ELSE SubSeq(buf, Len(buf) - n + 1, Len(buf))

\* A final is pushed: its audio, the range announced for it and its index.
PushFinal(audio, end, index) ==
    /\ sent' = [audio |-> audio, start |-> speech_start_offset, end |-> end,
                index |-> index, is_partial |-> FALSE]
    /\ emitted' = IF audio = <<>> THEN emitted ELSE Last(audio)
    /\ owed' = owed \ ToSet(audio)
    /\ finals' = finals \cup {index}
    /\ UNCHANGED previews

\* The index of a final: that of its partials, or a new one.
FinalIndex == IF TwoPass THEN current_segment_index ELSE seg_counter + 1

\* A call begins: one more chunk, with this probability.
Hears(p) ==
    /\ step = "chunk"
    /\ total < MaxChunks
    /\ smoothed_prob' = p

-----------------------------------------------------------------------------
(* The branches on speech and silence.                                     *)

\* No segment is open and none begins: the chunk goes into the pre-roll.
Quiet(p) ==
    /\ Hears(p)
    /\ ~in_speech /\ p < Threshold
    /\ preroll_buf' = Newest(Append(preroll_buf, this), PrerollMax)
    /\ step' = "cap"
    /\ sent' = None
    /\ UNCHANGED <<speech, speech_buf, speech_start_offset, total, indices, cut, seen>>

\* Where a segment with this much pre-roll is announced to begin.
StartOffset(preroll) == Larger(0, Larger(0, total - 1 - preroll) - Pad)

\* A segment begins with the pre-roll, which has this chunk already, followed
\* by this chunk.
Onset(p) ==
    /\ Hears(p)
    /\ ~in_speech /\ p >= Threshold
    /\ in_speech' = TRUE
    /\ silence_frames' = 0
    /\ LET preroll == Newest(Append(preroll_buf, this), PrerollMax)
       IN  /\ speech_buf' = Append(preroll, this)
           /\ speech_start_offset' = StartOffset(Len(preroll))
    /\ preroll_buf' = <<>>
    /\ IF TwoPass
       THEN /\ seg_counter' = seg_counter + 1
            /\ current_segment_index' = seg_counter'
            /\ last_partial' = 0
       ELSE UNCHANGED indices
    /\ soft_cut_best_offset' = -1
    /\ soft_cut_best_prob' = 100
    /\ owed' = owed \cup {this}
    /\ step' = "partial"
    /\ sent' = None
    /\ UNCHANGED <<silence_frames_limit, total, emitted, finals, previews>>

\* Mutant: speech after a pause is judged, and not kept.
SpeechGoesOnDropsChunk(p) ==
    /\ Hears(p)
    /\ in_speech /\ p >= Exit
    /\ silence_frames' = 0
    /\ speech_buf' = IF silence_frames = 0 THEN Append(speech_buf, this) ELSE speech_buf
    /\ owed' = owed \cup {this}
    /\ step' = "partial"
    /\ sent' = None
    /\ UNCHANGED <<in_speech, silence_frames_limit, preroll_buf, speech_start_offset, total,
                   indices, cut, emitted, finals, previews>>

\* The probability is still above the exit: the chunk is part of the segment.
SpeechGoesOn(p) ==
    /\ Hears(p)
    /\ in_speech /\ p >= Exit
    /\ silence_frames' = 0
    /\ speech_buf' = Append(speech_buf, this)
    /\ owed' = owed \cup {this}
    /\ step' = "partial"
    /\ sent' = None
    /\ UNCHANGED <<in_speech, silence_frames_limit, preroll_buf, speech_start_offset, total,
                   indices, cut, emitted, finals, previews>>

\* Silence that may still pass.
Pause(p) ==
    /\ Hears(p)
    /\ in_speech /\ p < Exit
    /\ silence_frames + 1 < silence_frames_limit
    /\ silence_frames' = silence_frames + 1
    /\ speech_buf' = Append(speech_buf, this)
    /\ step' = "cap"
    /\ sent' = None
    /\ UNCHANGED <<in_speech, silence_frames_limit, preroll_buf, speech_start_offset, total,
                   indices, cut, seen>>

\* Enough silence: the segment is pushed, and the limit adapts to its length.
SilenceEnds(p) ==
    /\ Hears(p)
    /\ in_speech /\ p < Exit
    /\ silence_frames + 1 >= silence_frames_limit
    /\ PushFinal(Append(speech_buf, this), total, FinalIndex)
    /\ silence_frames_limit' \in SilenceLimits
    /\ in_speech' = FALSE
    /\ silence_frames' = 0
    /\ speech_buf' = <<>>
    /\ seg_counter' = Larger(seg_counter, FinalIndex)
    /\ current_segment_index' = 0
    /\ last_partial' = 0
    /\ step' = "cap"
    /\ UNCHANGED <<preroll_buf, speech_start_offset, total, cut>>

\* A partial every Interval, unless the queue is backed up.
PushPartial ==
    /\ step = "partial"
    /\ TwoPass /\ Len(speech_buf) - last_partial >= Interval
    /\ sent' = [audio |-> speech_buf, start |-> speech_start_offset, end |-> this,
                index |-> current_segment_index, is_partial |-> TRUE]
    /\ previews' = previews \cup {current_segment_index}
    /\ last_partial' = Len(speech_buf)
    /\ step' = "cap"
    /\ UNCHANGED <<speech, smoothed_prob, buffers, total, current_segment_index, seg_counter,
                   cut, emitted, owed, finals>>

NoPartial ==
    /\ step = "partial"
    /\ step' = "cap"
    /\ sent' = None
    /\ UNCHANGED <<speech, smoothed_prob, buffers, total, indices, cut, seen>>

-----------------------------------------------------------------------------
(* The cap on the length of a segment, at the end of the call.             *)

size == Len(speech_buf)
Searching == in_speech /\ MaxSegment > 0 /\ size >= SearchStart
NewBest == smoothed_prob < soft_cut_best_prob

\* The lowest probability of the search window, this chunk's included, ends here.
BestOffset == IF NewBest THEN size ELSE soft_cut_best_offset

AtDip == smoothed_prob < Soft

\* The segment has reached the cap and this chunk is no dip.
AtCap == ~AtDip /\ size >= MaxSegment

NextChunk ==
    /\ step = "cap"
    /\ step' = "chunk"
    /\ total' = total + 1

NoCut ==
    /\ NextChunk
    /\ ~(Searching /\ (AtDip \/ AtCap))
    /\ IF Searching
       THEN /\ soft_cut_best_offset' = BestOffset
            /\ soft_cut_best_prob' = IF NewBest THEN smoothed_prob ELSE soft_cut_best_prob
       ELSE UNCHANGED cut
    /\ sent' = None
    /\ UNCHANGED <<speech, smoothed_prob, buffers, indices, seen>>

CutDone ==
    /\ silence_frames' = 0
    /\ last_partial' = 0
    /\ soft_cut_best_offset' = -1
    /\ soft_cut_best_prob' = 100

\* Mutant: what was cut off stays in the buffer.
CutAtDipKeepsBuffer ==
    /\ NextChunk
    /\ Searching /\ AtDip /\ size > 0
    /\ PushFinal(speech_buf, speech_start_offset + size, FinalIndex)
    /\ in_speech' = FALSE
    /\ seg_counter' = Larger(seg_counter, FinalIndex)
    /\ current_segment_index' = 0
    /\ CutDone
    /\ UNCHANGED <<silence_frames_limit, smoothed_prob, buffers>>

\* A dip is taken for a natural end.
CutAtDip ==
    /\ NextChunk
    /\ Searching /\ AtDip /\ size > 0
    /\ PushFinal(speech_buf, speech_start_offset + size, FinalIndex)
    /\ in_speech' = FALSE
    /\ seg_counter' = Larger(seg_counter, FinalIndex)
    /\ current_segment_index' = 0
    /\ speech_buf' = <<>>
    /\ CutDone
    /\ UNCHANGED <<silence_frames_limit, smoothed_prob, preroll_buf, speech_start_offset>>

\* Where a segment that has reached the cap is cut: at its best dip so far.
CutAt == IF BestOffset > 0 THEN BestOffset ELSE size

\* Mutant: after a cut the next segment goes on under the same index.
CutAtCapSameIndex ==
    /\ NextChunk
    /\ Searching /\ AtCap /\ CutAt > 0
    /\ PushFinal(SubSeq(speech_buf, 1, CutAt), speech_start_offset + CutAt, FinalIndex)
    /\ speech_buf' = SubSeq(speech_buf, CutAt + 1, size)
    /\ speech_start_offset' = speech_start_offset + CutAt
    /\ seg_counter' = Larger(seg_counter, FinalIndex)
    /\ CutDone
    /\ UNCHANGED <<in_speech, silence_frames_limit, smoothed_prob, preroll_buf,
                   current_segment_index>>

\* What follows the cut begins the next segment.
CutAtCap ==
    /\ NextChunk
    /\ Searching /\ AtCap /\ CutAt > 0
    /\ PushFinal(SubSeq(speech_buf, 1, CutAt), speech_start_offset + CutAt, FinalIndex)
    /\ speech_buf' = SubSeq(speech_buf, CutAt + 1, size)
    /\ speech_start_offset' = speech_start_offset + CutAt
    /\ seg_counter' = Larger(seg_counter, FinalIndex) + (IF TwoPass THEN 1 ELSE 0)
    /\ current_segment_index' = IF TwoPass THEN seg_counter' ELSE current_segment_index
    /\ CutDone
    /\ UNCHANGED <<in_speech, silence_frames_limit, smoothed_prob, preroll_buf>>

\* vad_flush at the end of the input.
Flush ==
    /\ step = "chunk"
    /\ step' = "ended"
    /\ IF speech_buf # <<>>
       THEN /\ PushFinal(speech_buf, total, seg_counter + 1)
            /\ seg_counter' = seg_counter + 1
            /\ speech_buf' = <<>>
       ELSE sent' = None /\ UNCHANGED <<seen, seg_counter, speech_buf>>
    /\ UNCHANGED <<speech, smoothed_prob, preroll_buf, speech_start_offset, total,
                   current_segment_index, last_partial, cut>>

Next ==
    \/ \E p \in Probs : Quiet(p) \/ Onset(p) \/ SpeechGoesOn(p) \/ Pause(p) \/ SilenceEnds(p)
    \/ PushPartial \/ NoPartial
    \/ NoCut \/ CutAtDip \/ CutAtCap
    \/ Flush

Spec == Init /\ [][Next]_vars

-----------------------------------------------------------------------------
(* Properties.                                                             *)

\* No chunk judged to be speech is lost: until a final has it, it waits in the
\* buffer, through pauses, cuts and the end of the input.
SpeechKept == owed \subseteq ToSet(speech_buf)

\* The audio of a segment has no holes, whatever of it comes from the pre-roll
\* and from the rest of a segment that was cut.
NoHoles ==
    \A i \in 1 .. Len(speech_buf) - 1 : speech_buf[i + 1] - speech_buf[i] \in {0, 1}

\* Finals do not overlap: no audio is in two of them.
FinalsApart ==
    [][sent' # sent /\ sent' # None /\ ~sent'.is_partial /\ sent'.audio # <<>> =>
          Head(sent'.audio) > emitted]_vars

\* An index has one final, which comes after all its partials: were two
\* segments to share one, the queue would erase the first as stale.
OneFinalEach ==
    [][sent' # sent /\ sent' # None => sent'.index \notin finals]_vars

=============================================================================
