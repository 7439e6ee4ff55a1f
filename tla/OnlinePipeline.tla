--------------------------- MODULE OnlinePipeline ---------------------------
(***************************************************************************)
(* rs-asr-vad-online with its FireRedVAD front end: the main thread turns  *)
(* audio into speech segments and pushes them, the ASR worker pops them,   *)
(* merges short ones that lie close together and transcribes them.  The    *)
(* two share the queue of SegmentQueue, and each holds its mutex for one   *)
(* operation at a time.                                                    *)
(*                                                                         *)
(* One unit of time is one chunk of audio, taken as one frame of the VAD.  *)
(* Of the VAD the main thread relies on what FireRedProofs proves:         *)
(* segments come one at a time, apart and bounded in length.               *)
(***************************************************************************)
EXTENDS SegmentQueue

CONSTANTS ShortSeg,     \* SHORT_SEG_S
          MergeGap,     \* MERGE_GAP_S
          Pad,          \* speech_pad_ms, the rewind of a segment's start
          Interval,     \* partial_ms
          Backoff,      \* PARTIAL_BACKOFF_S
          TwoPass,      \* args.two_pass
          MaxSegment,   \* longest segment of the VAD
          MaxClock      \* bound of the model: chunks of audio

ASSUME PipelineAssumption ==
    /\ {ShortSeg, MergeGap, Pad, Backoff, MaxClock} \subseteq Nat
    /\ Interval \in Nat \ {0} /\ MaxSegment \in Nat \ {0}
    /\ TwoPass \in BOOLEAN

VARIABLES mpc,              \* where the main thread is
          clock,            \* total_samples_read
          speech_start,     \* last_speech_start_frame of the VAD, or -1
          speech_end,       \* its last_speech_end_frame, or -1
          current_seg_idx,  \* index of the open segment, or 0
          last_partial,     \* last_partial_sample
          seg_counter,      \* indices handed out
          wpc,              \* where the worker is
          worker_ready, worker_done,
          seg,              \* the segment the worker holds
          next,             \* the segment the worker took to merge, or none
          seg_processed,    \* finals transcribed
          transcripts       \* what was transcribed, in order

mainVars == <<mpc, clock, speech_start, speech_end, current_seg_idx, last_partial, seg_counter>>
vadVars == <<clock, speech_start, speech_end, current_seg_idx, last_partial, seg_counter>>
workerVars == <<wpc, worker_ready, worker_done, seg, next, seg_processed, transcripts>>
pipeVars == <<queueVars, mainVars, workerVars>>

\* The segment a worker holds has grown out of the segments in parts.
NoSeg == [start |-> 0, end |-> 0, index |-> 0, is_partial |-> FALSE, parts |-> <<>>]
Nothing == <<>>

PipeInit ==
    /\ QueueInit
    /\ mpc = "wait"
    /\ clock = 0
    /\ speech_start = -1
    /\ speech_end = -1
    /\ current_seg_idx = 0
    /\ last_partial = 0
    /\ seg_counter = 0
    /\ wpc = "init"
    /\ worker_ready = FALSE
    /\ worker_done = FALSE
    /\ seg = NoSeg
    /\ next = Nothing
    /\ seg_processed = 0
    /\ transcripts = <<>>

\* An uncaught exception of the worker terminates the process.
Alive == wpc # "crashed"

\* Push, set_done: a worker blocked in pop is woken.
Notify == wpc' = IF wpc = "blocked" THEN "pop" ELSE wpc

-----------------------------------------------------------------------------
(* The main thread.                                                        *)

\* Startup: the worker is ready, has failed, or takes more than 15 s.
WorkerIsUp ==
    /\ mpc = "wait" /\ worker_ready /\ ~worker_done
    /\ mpc' = "run"
    /\ UNCHANGED <<queueVars, vadVars, workerVars>>

WorkerFailed ==
    /\ mpc = "wait" /\ worker_done
    /\ mpc' = "join"
    /\ UNCHANGED <<queueVars, vadVars, workerVars>>

InitTimesOut ==
    /\ mpc = "wait" /\ ~worker_ready /\ ~worker_done
    /\ mpc' = "finish"
    /\ UNCHANGED <<queueVars, vadVars, workerVars>>

Rewound(start) == IF start > Pad THEN start - Pad ELSE 0

NewSegment(start, end, index, is_partial) ==
    [id |-> total_queued + 1, start |-> start, end |-> end,
     index |-> index, is_partial |-> is_partial]

\* A chunk without a boundary.
ChunkPasses ==
    /\ mpc = "run" /\ clock < MaxClock
    /\ speech_start # -1 => clock + 1 - speech_start < MaxSegment
    /\ clock' = clock + 1
    /\ mpc' = "partial"
    /\ UNCHANGED <<queueVars, workerVars, speech_start, speech_end, current_seg_idx,
                   last_partial, seg_counter>>

\* is_speech_start: the segment begins at s, after the last one, and gets the
\* index that its partials and its final share.
SpeechStarts(s) ==
    /\ mpc = "run" /\ clock < MaxClock
    /\ speech_start = -1
    /\ clock' = clock + 1
    /\ s >= speech_end /\ s < clock' /\ clock' - s < MaxSegment
    /\ speech_start' = s
    /\ seg_counter' = seg_counter + 1
    /\ current_seg_idx' = seg_counter'
    /\ last_partial' = s
    /\ mpc' = "partial"
    /\ UNCHANGED <<queueVars, workerVars, speech_end>>

\* is_speech_end: the final is pushed, with its start rewound by the padding.
SpeechEnds ==
    /\ mpc = "run" /\ clock < MaxClock
    /\ speech_start # -1
    /\ clock' = clock + 1
    /\ Push(NewSegment(Rewound(speech_start), clock', current_seg_idx, FALSE))
    /\ Notify
    /\ speech_start' = -1
    /\ speech_end' = clock'
    /\ current_seg_idx' = 0
    /\ last_partial' = 0
    /\ mpc' = "partial"
    /\ UNCHANGED <<seg_counter, worker_ready, worker_done, seg, next, seg_processed, transcripts>>

PartialDue ==
    /\ TwoPass /\ current_seg_idx # 0 /\ speech_start # -1
    /\ clock - last_partial >= Interval

\* The backlog is read under the mutex, the partial pushed later under it.
\* Mutant: a partial is pushed whatever the backlog.
BackoffIgnored ==
    /\ mpc = "partial"
    /\ mpc' = IF PartialDue THEN "push" ELSE "run"
    /\ UNCHANGED <<queueVars, vadVars, workerVars>>

CheckBackoff ==
    /\ mpc = "partial"
    /\ mpc' = IF PartialDue /\ queue_dur < Backoff THEN "push" ELSE "run"
    /\ UNCHANGED <<queueVars, vadVars, workerVars>>

PushPartial ==
    /\ mpc = "push"
    /\ Push(NewSegment(Rewound(speech_start), clock, current_seg_idx, TRUE))
    /\ Notify
    /\ last_partial' = clock
    /\ mpc' = "run"
    /\ UNCHANGED <<clock, speech_start, speech_end, current_seg_idx, seg_counter,
                   worker_ready, worker_done, seg, next, seg_processed, transcripts>>

\* The audio ends, or the user stops it: the open segment is flushed.
FlushTail ==
    /\ mpc = "run"
    /\ mpc' = "finish"
    /\ IF speech_start # -1
       THEN /\ Push(NewSegment(Rewound(speech_start), clock, current_seg_idx, FALSE))
            /\ Notify
            /\ current_seg_idx' = 0
            /\ last_partial' = 0
       ELSE UNCHANGED <<queueVars, wpc, current_seg_idx, last_partial>>
    /\ UNCHANGED <<clock, speech_start, speech_end, seg_counter,
                   worker_ready, worker_done, seg, next, seg_processed, transcripts>>

\* Mutant: set_done does not wake the worker.
FinishSilently ==
    /\ mpc = "finish"
    /\ mpc' = "join"
    /\ SetDone
    /\ UNCHANGED <<vadVars, workerVars>>

Finish ==
    /\ mpc = "finish"
    /\ mpc' = "join"
    /\ SetDone
    /\ Notify
    /\ UNCHANGED <<vadVars, worker_ready, worker_done, seg, next, seg_processed, transcripts>>

Join ==
    /\ mpc = "join" /\ wpc = "ended"
    /\ mpc' = "exit"
    /\ UNCHANGED <<queueVars, vadVars, workerVars>>

-----------------------------------------------------------------------------
(* The worker.                                                             *)

InitSucceeds ==
    /\ wpc = "init"
    /\ wpc' = "pop"
    /\ worker_ready' = TRUE
    /\ UNCHANGED <<queueVars, mainVars, worker_done, seg, next, seg_processed, transcripts>>

InitFails ==
    /\ wpc = "init"
    /\ wpc' = "ended"
    /\ worker_done' = TRUE
    /\ UNCHANGED <<queueVars, mainVars, worker_ready, seg, next, seg_processed, transcripts>>

\* pop: the loop around the wait.  A wait may also end spuriously.
Block ==
    /\ wpc = "pop" /\ segments = <<>> /\ ~done
    /\ wpc' = "blocked"
    /\ UNCHANGED <<queueVars, mainVars, worker_ready, worker_done, seg, next, seg_processed,
                   transcripts>>

WakeSpuriously ==
    /\ wpc = "blocked"
    /\ wpc' = "pop"
    /\ UNCHANGED <<queueVars, mainVars, worker_ready, worker_done, seg, next, seg_processed,
                   transcripts>>

Holding(front) ==
    [start |-> front.start, end |-> front.end, index |-> front.index,
     is_partial |-> front.is_partial, parts |-> <<front>>]

Pop ==
    /\ wpc = "pop"
    /\ TakeFront
    /\ seg' = Holding(Head(segments))
    /\ wpc' = IF Dur(seg') < ShortSeg THEN "merge" ELSE "process"
    /\ UNCHANGED <<mainVars, worker_ready, worker_done, next, seg_processed, transcripts>>

Drained ==
    /\ wpc = "pop" /\ segments = <<>> /\ done
    /\ wpc' = "ended"
    /\ worker_done' = TRUE
    /\ UNCHANGED <<queueVars, mainVars, worker_ready, seg, next, seg_processed, transcripts>>

\* try_pop finds nothing to merge with.
NothingToMerge ==
    /\ wpc = "merge" /\ segments = <<>>
    /\ wpc' = "process"
    /\ UNCHANGED <<queueVars, mainVars, worker_ready, worker_done, seg, next, seg_processed,
                   transcripts>>

\* Mutant: segments that overlap are taken to touch, and merged.
GapNeverNegative(other) == IF other.start > seg.end THEN other.start - seg.end ELSE 0

Gap(other) == other.start - seg.end

Grown(other) == [seg EXCEPT !.end = other.end, !.parts = Append(seg.parts, other)]

\* The gap is filled with zeros, as many as it has samples.  A negative count
\* becomes a huge size_t, and insert throws.
Merge ==
    /\ wpc = "merge"
    /\ TakeFront
    /\ Gap(Head(segments)) \in 0 .. MergeGap
    /\ seg' = Grown(Head(segments))
    /\ wpc' = IF Dur(seg') >= ShortSeg THEN "process" ELSE "merge"
    /\ UNCHANGED <<mainVars, worker_ready, worker_done, next, seg_processed, transcripts>>

MergeOverlapping ==
    /\ wpc = "merge"
    /\ TakeFront
    /\ Gap(Head(segments)) < 0
    /\ wpc' = "crashed"
    /\ UNCHANGED <<mainVars, worker_ready, worker_done, seg, next, seg_processed, transcripts>>

TooFarToMerge ==
    /\ wpc = "merge"
    /\ TakeFront
    /\ Gap(Head(segments)) > MergeGap
    /\ next' = <<Head(segments)>>
    /\ wpc' = "putback"
    /\ UNCHANGED <<mainVars, worker_ready, worker_done, seg, seg_processed, transcripts>>

\* Mutant: what is too far away to merge is thrown away.
PutBackForgotten ==
    /\ wpc = "putback"
    /\ next' = Nothing
    /\ wpc' = "process"
    /\ UNCHANGED <<queueVars, mainVars, worker_ready, worker_done, seg, seg_processed, transcripts>>

PutBack ==
    /\ wpc = "putback"
    /\ PushFront(next[1])
    /\ next' = Nothing
    /\ wpc' = "process"
    /\ UNCHANGED <<mainVars, worker_ready, worker_done, seg, seg_processed, transcripts>>

Process ==
    /\ wpc = "process"
    /\ transcripts' = Append(transcripts, seg)
    /\ seg_processed' = IF seg.is_partial THEN seg_processed ELSE seg_processed + 1
    /\ seg' = NoSeg
    /\ wpc' = "warn"
    /\ UNCHANGED <<queueVars, mainVars, worker_ready, worker_done, next>>

WarnIfSlow ==
    /\ wpc = "warn"
    /\ CheckSlow
    /\ wpc' = "pop"
    /\ UNCHANGED <<mainVars, worker_ready, worker_done, seg, next, seg_processed, transcripts>>

-----------------------------------------------------------------------------
Capture ==
    \/ ChunkPasses
    \/ \E s \in 0 .. MaxClock : SpeechStarts(s)
    \/ SpeechEnds

Main ==
    /\ Alive
    /\ \/ WorkerIsUp \/ WorkerFailed \/ InitTimesOut
       \/ Capture \/ CheckBackoff \/ PushPartial
       \/ FlushTail \/ Finish \/ Join

Worker ==
    \/ InitSucceeds \/ InitFails
    \/ Block \/ Pop \/ Drained
    \/ NothingToMerge \/ Merge \/ MergeOverlapping \/ TooFarToMerge \/ PutBack
    \/ Process \/ WarnIfSlow

\* The program has ended, one way or the other.
Over == mpc = "exit" \/ ~Alive
Terminated == Over /\ UNCHANGED pipeVars

PipeNext == Main \/ Worker \/ WakeSpuriously \/ Terminated

\* Both threads are scheduled.  Loading the model and transcribing a segment
\* are taken to end; nothing obliges a blocked thread to wake unnotified.
PipeSpec == PipeInit /\ [][PipeNext]_pipeVars /\ WF_pipeVars(Main) /\ WF_pipeVars(Worker)

-----------------------------------------------------------------------------
(* Properties.                                                             *)

\* All segments that are still somewhere, in the order they will have been heard.
HeardIn(texts) ==
    LET heard[n \in 0 .. Len(texts)] ==
            IF n = 0 THEN <<>> ELSE heard[n - 1] \o texts[n].parts
    IN  heard[Len(texts)]
Line == HeardIn(transcripts) \o seg.parts \o next \o segments

\* Segments are heard in the order they were pushed, though the worker takes
\* some out of the queue, puts some back and merges some.
HeardInOrder == \A i \in 1 .. Len(Line) - 1 : Line[i].id < Line[i + 1].id

\* Every segment pushed is heard, on its way, counted as dropped, or was erased
\* as stale, and only one of these: none is lost between the two threads.
Conserved ==
    Alive => /\ Ids(Line) \cup dropped \cup stale = 1 .. total_queued
             /\ Ids(Line) \cap (dropped \cup stale) = {}
             /\ dropped \cap stale = {}

\* What is erased as stale was only a partial.  A final, the one result the
\* user is to get of a segment, is never taken for an update of another.
OnlyPartialsGoStale ==
    [][\A i \in DOMAIN segments :
          segments[i].id \in stale' \ stale => segments[i].is_partial]_pipeVars

\* The limit of the queue holds up to one segment: the one at the front that
\* the worker took, while the main thread filled the room, and put back.
LimitUpToOne == Len(segments) > 2 => Total(Tail(segments)) <= MaxDur

\* What may be in the queue when a partial comes: the backlog, less than Backoff
\* of it, a segment the worker puts back, and the partial, shorter than a segment.
RoomForPartial == (Backoff - 1) + (MaxSegment + Pad) + (MaxSegment - 1 + Pad) <= MaxDur

\* A partial, which only previews what the final will say, never pushes a
\* segment out of a queue with room for it, though the backlog is looked at under
\* one lock and the partial pushed under another.
PartialDropsNothing ==
    [][RoomForPartial /\ mpc = "push" /\ mpc' = "run" => dropped' = dropped]_pipeVars

\* Unless segments were dropped, no final is merged into a partial, where it
\* would be printed as a preview and never counted as processed.
FinalsHeardAsFinals ==
    dropped = {} =>
        \A i \in DOMAIN transcripts : transcripts[i].is_partial =>
            \A j \in DOMAIN transcripts[i].parts : transcripts[i].parts[j].is_partial

\* Once the audio has ended the worker is woken, drains the queue and is joined,
\* unless it terminates the program.
ShutsDown == (mpc = "finish") ~> Over

\* asr_worker: the gap before a segment to merge is filled with zeros.
WorkerSurvives == Alive
=============================================================================
