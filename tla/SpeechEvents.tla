---------------------------- MODULE SpeechEvents ----------------------------
(***************************************************************************)
(* What a streaming voice-activity detector promises its callers: on a     *)
(* clock of frames it reports segments <<first, last>>, one at a time.  A  *)
(* segment is opened at a frame after the end of the previous segment and  *)
(* not in the future, is reported once, when it is closed, with the start  *)
(* it was opened with, and only a reset forgets an open segment.           *)
(***************************************************************************)
EXTENDS Integers

CONSTANT NoFrame      \* "no such frame", the -1 of the implementation

VARIABLES clock,      \* frames seen since the last reset
          open,       \* first frame of the open segment, or NoFrame
          lastEnd,    \* last frame of the segment reported last, or NoFrame
          emitted     \* the segment reported for this frame, or <<>>

vars == <<clock, open, lastEnd, emitted>>

Init ==
    /\ clock = 0
    /\ open = NoFrame
    /\ lastEnd = NoFrame
    /\ emitted = <<>>

\* The frames at which a segment may begin when the clock shows now.
Startable(now) == {f \in 1 .. now : lastEnd = NoFrame \/ f > lastEnd}

\* A frame passes and no segment begins or ends.
Tick ==
    /\ clock' = clock + 1
    /\ emitted' = <<>>
    /\ UNCHANGED <<open, lastEnd>>

\* A segment begins, possibly some frames in the past.
Open ==
    /\ open = NoFrame
    /\ clock' = clock + 1
    /\ open' \in Startable(clock')
    /\ emitted' = <<>>
    /\ UNCHANGED lastEnd

\* The open segment ends at this frame and is reported.
Close ==
    /\ open # NoFrame
    /\ clock' = clock + 1
    /\ emitted' = <<open, clock'>>
    /\ lastEnd' = clock'
    /\ open' = NoFrame

\* A segment of a single frame begins and ends.
Blip ==
    /\ open = NoFrame
    /\ clock' = clock + 1
    /\ emitted' = <<clock', clock'>>
    /\ lastEnd' = clock'
    /\ UNCHANGED open

Reset ==
    /\ clock' = 0
    /\ open' = NoFrame
    /\ lastEnd' = NoFrame
    /\ emitted' = <<>>

Next == Tick \/ Open \/ Close \/ Blip \/ Reset

Spec == Init /\ [][Next]_vars
=============================================================================
