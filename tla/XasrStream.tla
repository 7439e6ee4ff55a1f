----------------------------- MODULE XasrStream -----------------------------
(***************************************************************************)
(* XAsrOnlineStream: the streaming recognizer of one connection.  It keeps *)
(* all samples of the utterance, computes all of its features anew with    *)
(* every piece of audio, and encodes those windows of T frames, one every  *)
(* Shift frames, that have become complete; at the end it adds a pad and   *)
(* encodes the rest.  The encoder has caches, which are what it has seen.  *)
(* A sample is its number in the order of arrival, a frame the samples it  *)
(* is computed from.                                                       *)
(***************************************************************************)
EXTENDS Integers, Sequences, SequencesExt

CONSTANTS FrameStep, FrameSize,     \* of AudioProcessor, in samples
          T, Shift,                 \* hp.T and hp.decode_chunk_len, in frames
          PlInc,                    \* pl_inc
          Pad,                      \* the frames of silence added at the end
          Outputs,                  \* the tokens a window may be decoded to
          Pieces,                   \* the sizes audio arrives in
          MaxSamples                \* bound of the model: samples pushed

\* In the code 160 and 400 samples, 109, 96 and 100 frames.
ASSUME StreamAssumption ==
    /\ FrameStep \in Nat \ {0} /\ FrameSize \in Nat \ {0} /\ FrameSize <= 4 * FrameStep
    /\ T \in Nat \ {0} /\ Shift \in Nat \ {0} /\ PlInc \in Nat
    /\ Pad \in Nat /\ Shift <= Pad /\ Pad < T
    /\ Pieces \subseteq Nat /\ MaxSamples \in Nat

VARIABLES samples,          \* of the utterance
          feats,            \* its features
          processed_lens,
          chunks_done,
          finished,
          chost,            \* the caches: the windows encoded, with their processed_lens
          hyp,
          running,          \* "idle", or what process is called for
          pushed,           \* samples that have arrived, in all utterances
          late              \* whether audio came after the end of the utterance

utterance == <<samples, feats, processed_lens, chunks_done, finished, chost, hyp, late>>
streamVars == <<utterance, running, pushed>>

StreamInit ==
    /\ samples = <<>> /\ feats = <<>>
    /\ processed_lens = 0 /\ chunks_done = 0
    /\ finished = FALSE
    /\ chost = <<>> /\ hyp = <<>>
    /\ running = "idle"
    /\ pushed = 0
    /\ late = FALSE

-----------------------------------------------------------------------------
(* AudioProcessor, with frames centered on their step.                     *)

FrameStart(t) == t * FrameStep + FrameStep \div 2 - FrameSize \div 2

\* Beyond the ends the signal of n samples is reflected; it is long enough for
\* one reflection to do.
Index(i, n) == IF i < 0 THEN -i - 1 ELSE IF i >= n THEN 2 * n - i - 1 ELSE i

FrameCount(n) == IF n < FrameSize THEN 0 ELSE (n + FrameStep \div 2) \div FrameStep

ProcessFrame(t, s) ==
    [j \in 1 .. FrameSize |-> s[Index(FrameStart(t) + j - 1, Len(s)) + 1]]
ComputeFbank(s) == [t \in 1 .. FrameCount(Len(s)) |-> ProcessFrame(t - 1, s)]

\* Compute leaves the features as they are if there are no samples.
Compute(s) == IF s = <<>> THEN feats ELSE ComputeFbank(s)

-----------------------------------------------------------------------------

\* Mutant: the pad is forgotten.
PaddedNot(f) == f

ZeroFrame == [j \in 1 .. FrameSize |-> 0]
Padded(f) == f \o [t \in 1 .. Pad |-> ZeroFrame]

\* Audio arrives, n samples, and process begins.
AcceptPcm(n) ==
    /\ running = "idle"
    /\ pushed + n <= MaxSamples
    /\ pushed' = pushed + n
    /\ samples' = samples \o [i \in 1 .. n |-> pushed + i]
    /\ feats' = Compute(samples')
    /\ running' = "streaming"
    /\ late' = (late \/ (finished /\ n > 0))
    /\ UNCHANGED <<processed_lens, chunks_done, finished, chost, hyp>>

\* The end of the utterance, for the first time.
InputFinished ==
    /\ running = "idle" /\ ~finished
    /\ finished' = TRUE
    /\ feats' = Padded(Compute(samples))
    /\ running' = "final"
    /\ UNCHANGED <<samples, processed_lens, chunks_done, chost, hyp, pushed, late>>

\* Mutant: only the last frame is waited for.
UsableButOne == IF running = "final" THEN Len(feats) ELSE Len(feats) - 1

\* While audio arrives the last two frames are not stable yet.
Usable == IF running = "final" THEN Len(feats) ELSE Len(feats) - 2

ChunkReady == chunks_done * Shift + T <= Usable

\* A window of T frames, as the encoder is given it.
Window(f, start, lens) ==
    [frames |-> [t \in 1 .. T |-> f[start + t]], processed_lens |-> lens]

\* One round of the loop of process; what the window is decoded to is any output.
RunChunk(out) ==
    /\ running # "idle" /\ ChunkReady
    /\ chost' = Append(chost, Window(feats, chunks_done * Shift, processed_lens))
    /\ processed_lens' = processed_lens + PlInc
    /\ chunks_done' = chunks_done + 1
    /\ hyp' = hyp \o out
    /\ UNCHANGED <<samples, feats, finished, running, pushed, late>>

ProcessDone ==
    /\ running # "idle" /\ ~ChunkReady
    /\ running' = "idle"
    /\ UNCHANGED <<utterance, pushed>>

\* Reset, and the stream of a new connection.
Reset ==
    /\ running = "idle"
    /\ samples' = <<>> /\ feats' = <<>>
    /\ processed_lens' = 0 /\ chunks_done' = 0
    /\ finished' = FALSE
    /\ chost' = <<>> /\ hyp' = <<>>
    /\ late' = FALSE
    /\ UNCHANGED <<running, pushed>>

StreamNext ==
    \/ \E n \in Pieces : AcceptPcm(n)
    \/ InputFinished
    \/ \E out \in Outputs : RunChunk(out)
    \/ ProcessDone
    \/ Reset

StreamSpec == StreamInit /\ [][StreamNext]_streamVars

-----------------------------------------------------------------------------
(* Properties.                                                             *)

\* xasr_debug_online: the i-th window of a whole utterance, encoded in one go.
OnlineWindow(f, i) == Window(f, (i - 1) * Shift, (i - 1) * PlInc)

\* Whatever pieces the audio arrives in, the encoder has seen the windows of the
\* whole utterance, as xasr_debug_online cuts them from the features of all of its
\* samples, with the pad if it has ended: nothing of another utterance, and no
\* frame before its last sample was there.
StreamIsOnline ==
    ~late => chost = [i \in 1 .. chunks_done |->
        OnlineWindow(IF finished THEN Padded(ComputeFbank(samples)) ELSE ComputeFbank(samples), i)]

\* Once the end has been processed, every frame of the utterance has been encoded,
\* unless all of it and the pad are less than a window.
NothingUnheard ==
    (finished /\ running = "idle" /\ ~late) =>
        LET n == FrameCount(Len(samples))
        IN  n + Pad >= T => (chunks_done - 1) * Shift + T >= n
=============================================================================
