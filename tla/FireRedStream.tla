---------------------------- MODULE FireRedStream ----------------------------
(***************************************************************************)
(* FireRedVadModel::DetectStreamingChunk: audio arrives in chunks of any   *)
(* size, is stitched to what the last call left over and cut into frames   *)
(* that overlap; every frame then goes through the postprocessor of        *)
(* FireRedPost.  Audio is counted in samples.                              *)
(***************************************************************************)
EXTENDS FireRedPost

CONSTANTS FrameSize,      \* samples of a frame (25 ms)
          FrameShift      \* samples between frame starts (10 ms)

ASSUME FramingAssumption ==
    /\ FrameShift \in Nat \ {0}
    /\ FrameSize \in Nat /\ FrameSize >= FrameShift

VARIABLES audio_remainder,  \* samples carried over to the next call
          todo,             \* frames of the current call still to process
          lost              \* frames dropped since the last reset by a failed Forward

stream == <<audio_remainder, todo, lost>>

StreamInit ==
    /\ Init
    /\ audio_remainder = 0
    /\ todo = 0
    /\ lost = 0

\* ComputeFbank with snip_edges yields the frames that fit.
Frames(n) == IF n < FrameSize THEN 0 ELSE (n - FrameSize) \div FrameShift + 1

\* Mutant: the overlap between frames is not carried over.
RemainderWithoutOverlap(n) ==
    IF Frames(n) = 0 THEN n ELSE n - ((Frames(n) - 1) * FrameShift + FrameSize)

\* The samples kept of n stitched ones for the next call.
Remainder(n) ==
    LET T == Frames(n)
        consumed == (T - 1) * FrameShift + FrameSize
        keepStart == IF consumed < n THEN T * FrameShift ELSE n - (FrameSize - FrameShift)
    IN  IF T = 0 THEN n ELSE IF keepStart \in 1 .. n - 1 THEN n - keepStart ELSE 0

\* The network runs over T frames, or fails and yields none.
Forward(T, lostBefore) ==
    \/ /\ todo' = T
       /\ lost' = lostBefore
    \/ /\ T > 0
       /\ todo' = 0
       /\ lost' = lostBefore + T

\* Stitched samples are cut into frames; the remainder is saved first, so the
\* frames of a failed network are gone.
Cut(stitched, lostBefore) ==
    /\ audio_remainder' = Remainder(stitched)
    /\ Forward(Frames(stitched), lostBefore)

\* The next frame of the call goes through the postprocessor.
NextFrame(raw) ==
    /\ todo > 0
    /\ todo' = todo - 1
    /\ ProcessOneFrame(raw)
    /\ UNCHANGED <<audio_remainder, lost>>

\* Mutant: the end frame taken as zero-based.
SegmentEndLate(sf, ef) == <<(sf - 1) * FrameShift, (ef + 1) * FrameShift>>

\* The samples a segment of frames sf .. ef covers.
Segment(sf, ef) == <<(sf - 1) * FrameShift, ef * FrameShift>>

-----------------------------------------------------------------------------
\* The audio may be pushed in chunks of any size: the frames processed, those
\* of the call in progress and those a failed Forward dropped are the frames
\* of the whole signal of n samples, and the remainder is what no frame start
\* has passed.
FramedWhole(n) ==
    /\ frame_cnt + todo + lost = Frames(n)
    /\ audio_remainder = n - Frames(n) * FrameShift
=============================================================================
