------------------------------ MODULE AudioRing ------------------------------
(***************************************************************************)
(* Live capture in rs-asr-vad-online: the capture thread of the audio      *)
(* library writes blocks of samples into AudioRingBuffer, the main thread  *)
(* reads windows out of it for the detector, and SIGINT asks the main      *)
(* thread to stop.  The ring drops its oldest samples when it is full.     *)
(* Samples are numbered as the device delivers them.                       *)
(***************************************************************************)
EXTENDS Integers, Sequences, SequencesExt

CONSTANTS Capacity,     \* of the ring
          Window,       \* VAD_WINDOW
          Blocks,       \* the block sizes the device delivers
          MaxWritten    \* bound of the model: samples the device delivers

Smaller(a, b) == IF a <= b THEN a ELSE b

\* A window fits into the ring.
ASSUME RingAssumption ==
    /\ Capacity \in Nat /\ Window \in 1 .. Capacity
    /\ Blocks \subseteq Nat \ {0} /\ MaxWritten \in Nat

VARIABLES ring,         \* the samples in the buffer, oldest first
          overruns,     \* samples dropped
          stopped,
          written,      \* samples the device has delivered
          device,       \* whether the device still delivers samples
          running,      \* MicCapture::running
          main,         \* where the main thread is
          out,          \* what its read has so far
          stepped,      \* the last sample the detector was given
          steps,        \* samples the detector was given
          g_stop_flag

buffer == <<ring, overruns, stopped>>
vars == <<buffer, written, device, running, main, out, stepped, steps, g_stop_flag>>

Init ==
    /\ ring = <<>>
    /\ overruns = 0
    /\ stopped = FALSE
    /\ written = 0
    /\ device = "delivers"
    /\ running = TRUE
    /\ main = "loop"
    /\ out = <<>>
    /\ stepped = 0
    /\ steps = 0
    /\ g_stop_flag = FALSE

-----------------------------------------------------------------------------
(* The capture thread.                                                     *)

\* Mutant: a full buffer takes no more.
NewestDropped(s) == SubSeq(s, 1, Smaller(Len(s), Capacity))

\* A full buffer drops its oldest samples.
OldestDropped(s) == SubSeq(s, Len(s) - Smaller(Len(s), Capacity) + 1, Len(s))

\* Mutant: the reader is not notified.
WriteSilently(n) ==
    /\ device = "delivers" /\ running
    /\ written + n <= MaxWritten
    /\ written' = written + n
    /\ LET all == ring \o [i \in 1 .. n |-> written + i]
       IN  /\ ring' = OldestDropped(all)
           /\ overruns' = overruns + Len(all) - Len(ring')
    /\ UNCHANGED <<stopped, device, running, main, out, stepped, steps, g_stop_flag>>

\* data_callback: a block of n samples, under the lock, and a notification.
Write(n) ==
    /\ device = "delivers" /\ running
    /\ written + n <= MaxWritten
    /\ written' = written + n
    /\ LET all == ring \o [i \in 1 .. n |-> written + i]
       IN  /\ ring' = OldestDropped(all)
           /\ overruns' = overruns + Len(all) - Len(ring')
    /\ main' = IF main = "waiting" THEN "reading" ELSE main
    /\ UNCHANGED <<stopped, device, running, out, stepped, steps, g_stop_flag>>

\* The device is unplugged or suspended: no callback tells anybody.
DeviceFallsSilent ==
    /\ device' = "silent"
    /\ UNCHANGED <<buffer, written, running, main, out, stepped, steps, g_stop_flag>>

\* SIGINT; the bound leaves the device a window to deliver after it.
Signal ==
    /\ written + Window <= MaxWritten
    /\ g_stop_flag' = TRUE
    /\ UNCHANGED <<buffer, written, device, running, main, out, stepped, steps>>

-----------------------------------------------------------------------------
(* The main thread.                                                        *)

\* The loop goes round.
ReadNext ==
    /\ main = "loop"
    /\ ~g_stop_flag /\ running
    /\ main' = "reading"
    /\ out' = <<>>
    /\ UNCHANGED <<buffer, written, device, running, stepped, steps, g_stop_flag>>

\* read, from taking the lock to giving it up: what there is, as much as is
\* wanted, and a wait if that is too little.
Read ==
    /\ main = "reading" /\ ~stopped
    /\ LET k == Smaller(Window - Len(out), Len(ring))
       IN  /\ out' = out \o SubSeq(ring, 1, k)
           /\ ring' = SubSeq(ring, k + 1, Len(ring))
    /\ main' = IF Len(out') = Window THEN "step" ELSE "waiting"
    /\ UNCHANGED <<overruns, stopped, written, device, running, stepped, steps, g_stop_flag>>

\* A condition variable may wake without a notification.
ReaderWakes ==
    /\ main = "waiting"
    /\ main' = "reading"
    /\ UNCHANGED <<buffer, written, device, running, out, stepped, steps, g_stop_flag>>

\* A whole window has been read and goes to the detector.
VadStep ==
    /\ main = "step"
    /\ stepped' = Last(out)
    /\ steps' = steps + Window
    /\ out' = <<>>
    /\ main' = "loop"
    /\ UNCHANGED <<buffer, written, device, running, g_stop_flag>>

\* The loop ends: the capture is stopped first, so that the ring is not written
\* any more, and the segments are flushed.
Stop ==
    /\ main = "loop"
    /\ g_stop_flag
    /\ running' = FALSE
    /\ stopped' = TRUE
    /\ main' = "ended"
    /\ UNCHANGED <<ring, overruns, written, device, out, stepped, steps, g_stop_flag>>

\* The threads.
Deliver == \E n \in Blocks : Write(n)
Reader == ReadNext \/ Read \/ VadStep \/ Stop
Next == Deliver \/ DeviceFallsSilent \/ Signal \/ Reader \/ ReaderWakes

\* The main thread is scheduled, and a device that is not silent delivers.
Spec == Init /\ [][Next]_vars /\ WF_vars(Reader) /\ WF_vars(Deliver)

-----------------------------------------------------------------------------
(* Properties.                                                             *)

\* What the reader has and will have, oldest first.
Ahead == out \o ring

\* No sample is lost silently, taken twice or out of order, however reads and
\* writes interleave: those given to the detector, those ahead and those counted
\* as overruns are all that were delivered, and order is kept across them.  An
\* overrun makes a hole where the reader is, never in what is buffered: the ring
\* always holds the latest samples.
LossesCounted ==
    /\ written = steps + Len(Ahead) + overruns
    /\ \A i \in DOMAIN Ahead : Ahead[i] > (IF i = 1 THEN stepped ELSE Ahead[i - 1])
    /\ \A i \in DOMAIN ring : ring[i] = written - Len(ring) + i

\* A signal ends the capture, as long as the device keeps delivering.
StopsOnSignal == g_stop_flag ~> (main = "ended" \/ device = "silent")
=============================================================================
