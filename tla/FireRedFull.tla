---------------------------- MODULE FireRedFull ----------------------------
(***************************************************************************)
(* FireRedVadModel::DetectFull over a whole utterance: every frame goes    *)
(* through the postprocessor and ResultsToTimestamps collapses the results *)
(* into segments <<start, end>>, counted in frames from 0, in a loop of    *)
(* its own that looks at starts first and at ends only otherwise.  The     *)
(* loop runs along with the frames, so that every frame may be the last;   *)
(* DetectFull begins with Reset, which begins the next utterance.          *)
(***************************************************************************)
EXTENDS FireRedPost

VARIABLES start,      \* the local variables of the loop, run along
          out,
          reported    \* the segments the postprocessor has ended, in order

loop == <<start, out, reported>>
fullVars == <<vars, loop>>

FullInit == Init /\ start = -1 /\ out = <<>> /\ reported = <<>>

ZeroBased(frame) == Larger(0, frame - 1)

\* One round of the loop of ResultsToTimestamps.
Collapse(res) ==
    IF res.is_speech_start
    THEN start' = ZeroBased(res.speech_start_frame) /\ UNCHANGED out
    ELSE IF res.is_speech_end
    THEN /\ out' = IF start >= 0
                   THEN Append(out, <<start, ZeroBased(res.speech_end_frame)>>) ELSE out
         /\ start' = -1
    ELSE UNCHANGED <<start, out>>

FullFrame(raw) ==
    /\ ProcessOneFrame(raw)
    /\ Collapse(r')
    /\ reported' = IF r'.is_speech_end
                   THEN Append(reported, <<r'.speech_start_frame - 1, r'.speech_end_frame - 1>>)
                   ELSE reported

NextUtterance == Reset /\ start' = -1 /\ out' = <<>> /\ reported' = <<>>

FullNext ==
    \/ \E raw \in RawProbs : FullFrame(raw)
    \/ \E t \in Thresholds : SetThreshold(t) /\ UNCHANGED loop
    \/ NextUtterance

FullSpec == FullInit /\ [][FullNext]_fullVars

\* Mutant: the segment that is open at the end is left out.
TimestampsWithoutTail == out

\* What DetectFull returns if the utterance ends here: the segment that is open
\* ends with it.
Timestamps == IF start # -1 THEN Append(out, <<start, ZeroBased(frame_cnt)>>) ELSE out

-----------------------------------------------------------------------------
(* Properties.                                                             *)

\* The segments the detector itself reports, the open one included.
DetectorSegments ==
    IF last_speech_start_frame # -1
    THEN Append(reported, <<last_speech_start_frame - 1, frame_cnt - 1>>) ELSE reported

\* Collapsing the events yields the detector's segments, each with the start
\* it was opened with, though the loop never reads the start in an end event.
SameSegments == MaxSpeechFrame > 1 => Timestamps = DetectorSegments
=============================================================================
