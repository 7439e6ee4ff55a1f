---------------------------- MODULE SegmentQueue ----------------------------
(***************************************************************************)
(* SpeechSegmentQueue, the bounded queue between the VAD thread and the    *)
(* ASR worker of rs-asr-vad-online: a deque of segments under a mutex,     *)
(* bounded by the audio it holds and not by its length, with one condition *)
(* variable.  Every operation holds the mutex from end to end and is one   *)
(* step.  The id of a segment is its number in the order of the pushes.    *)
(***************************************************************************)
EXTENDS Integers, Sequences, SequencesExt

CONSTANTS MaxDur,     \* max_queue_dur_s_
          WarnDur     \* warn_queue_dur_s_

ASSUME QueueAssumption == MaxDur \in Nat /\ WarnDur \in Nat

VARIABLES segments,      \* segments_, a deque of [id, start, end, index, is_partial]
          queue_dur,     \* queue_dur_s_
          done,          \* done_
          warned,        \* warned_
          total_queued,  \* total_queued_
          dropped,       \* the ids of the segments counted by dropped_
          stale          \* the ids of the segments erased as stale

queueVars == <<segments, queue_dur, done, warned, total_queued, dropped, stale>>

QueueInit ==
    /\ segments = <<>>
    /\ queue_dur = 0
    /\ done = FALSE
    /\ warned = FALSE
    /\ total_queued = 0
    /\ dropped = {}
    /\ stale = {}

Dur(seg) == seg.end - seg.start
Total(q) ==
    LET total[n \in 0 .. Len(q)] == IF n = 0 THEN 0 ELSE total[n - 1] + Dur(q[n])
    IN  total[Len(q)]
Ids(q) == {q[i].id : i \in DOMAIN q}

-----------------------------------------------------------------------------
\* Mutant: segments are not told apart.
SupersedesAnyIndex(new, old) == old.is_partial \/ ~new.is_partial

\* A final supersedes what is queued under its index, a partial only partials.
Supersedes(new, old) == old.index = new.index /\ (old.is_partial \/ ~new.is_partial)

\* What a new segment supersedes is erased, the rest is kept in its order.
Keep(kept, old, seg) == IF Supersedes(seg, old) THEN kept ELSE Append(kept, old)
Fresh(q, seg) ==
    LET fresh[n \in 0 .. Len(q)] == IF n = 0 THEN <<>> ELSE Keep(fresh[n - 1], q[n], seg)
    IN  fresh[Len(q)]

\* Mutant: the new segment itself is not counted.
FitsWithoutNew(q, seg, k) == Total(SubSeq(q, k + 1, Len(q))) <= MaxDur

\* The oldest segments go until the new one fits or nothing is left.
Fits(q, seg, k) == Total(SubSeq(q, k + 1, Len(q))) + Dur(seg) <= MaxDur

DropCount(q, seg) ==
    CHOOSE k \in 0 .. Len(q) :
        /\ k = Len(q) \/ Fits(q, seg, k)
        /\ \A j \in 0 .. k - 1 : ~Fits(q, seg, j)

Push(seg) ==
    LET fresh == Fresh(segments, seg)
        k == DropCount(fresh, seg)
        kept == SubSeq(fresh, k + 1, Len(fresh))
    IN  /\ segments' = Append(kept, seg)
        /\ queue_dur' = queue_dur - (Total(segments) - Total(kept)) + Dur(seg)
        /\ stale' = stale \cup (Ids(segments) \ Ids(fresh))
        /\ dropped' = dropped \cup (Ids(fresh) \ Ids(kept))
        /\ total_queued' = total_queued + 1
        /\ UNCHANGED <<done, warned>>

\* What pop and try_pop do when there is a segment.
TakeFront ==
    /\ segments # <<>>
    /\ segments' = Tail(segments)
    /\ queue_dur' = queue_dur - Dur(Head(segments))
    /\ UNCHANGED <<done, warned, total_queued, dropped, stale>>

\* Mutant: what is put back goes to the end.
PushFrontAtBack(seg) ==
    /\ segments' = Append(segments, seg)
    /\ queue_dur' = queue_dur + Dur(seg)
    /\ UNCHANGED <<done, warned, total_queued, dropped, stale>>

PushFront(seg) ==
    /\ segments' = <<seg>> \o segments
    /\ queue_dur' = queue_dur + Dur(seg)
    /\ UNCHANGED <<done, warned, total_queued, dropped, stale>>

SetDone ==
    /\ done' = TRUE
    /\ UNCHANGED <<segments, queue_dur, warned, total_queued, dropped, stale>>

\* check_and_clear_slow_warning, with both thresholds doubled.
ShouldWarn == queue_dur >= WarnDur /\ ~warned
CheckSlow ==
    /\ warned' = (ShouldWarn \/ (warned /\ 2 * queue_dur >= WarnDur))
    /\ UNCHANGED <<segments, queue_dur, done, total_queued, dropped, stale>>
=============================================================================
