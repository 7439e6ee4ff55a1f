# RapidSpeech.cpp in TLA+

RapidSpeech.cpp runs speech models (recognition, synthesis, voice-activity
detection, keyword spotting) on ggml.  Most of its lines describe tensors; what
is left, and what these modules are about, is the control around them: state
machines that turn probabilities into speech segments, buffers that are cut,
stitched and trimmed, a bounded queue between two threads, a ring buffer filled
by a capture callback.  That control decides whether speech is lost, reported
twice or reported at the wrong time, and it goes wrong in long sequences of
legal calls that unit tests hardly reach.

Paths below are relative to `src/`; `rapidspeech/src/` is shortened to `rs/`.

## 1. Inventory

### The parts, their state and how they interact

| Part | State it keeps | Operations | Talks to |
|---|---|---|---|
| FireRedVAD detector, `rs/arch/fireredvad.{h,cpp}` | frame counter, smoothing window and its sum, four-state machine with its counters, start and end of segments, remainder of audio between calls | `ProcessOneFrame`, `DetectStreamingChunk`, `DetectFull`, `ResultsToTimestamps`, `Reset`, `SetThreshold` | called by the VAD handle and the FireRed front end, which also read its state |
| Silero VAD model, `rs/arch/silero_vad.cpp` | LSTM state; an iterator (`triggered`, `temp_end_sample`, `current_sample`) | `Encode` | called by the VAD handle and the Silero front end |
| VAD handle of the C API, `rs/c_api/rs_vad.cpp` | pending samples, sample counter, open segment, two output queues | `rs_vad_push_audio`, `_drain_segments`, `_drain_frames`, `_detect_full`, `_reset`, `_set_threshold` | caller; one of the two models |
| Segment queue, `SpeechSegmentQueue` in `examples/asr/rs-asr-vad-online.cpp` | deque of segments, their total duration, done flag, counts | `push`, `pop`, `try_pop`, `push_front`, `set_done`, slow warning; one mutex, one condition variable | main thread pushes, ASR worker pops and puts back |
| Front ends of `rs-asr-vad-online` (`process_vad_chunk`, `process_vad_chunk_firered`) | rolling buffer or pre-roll and speech buffers, current index, time of the last partial | one call per chunk, one flush | detector below, queue above |
| ASR worker of `rs-asr-vad-online` | the segment held, the one taken to merge | load, pop, merge, put back, transcribe | queue; ASR session; `worker_ready`, `worker_done` with main |
| Live capture, `AudioRingBuffer`, `MicCapture` | ring of samples, overrun count, stop flags | callback writes, main reads windows, SIGINT | miniaudio's thread, main thread, signal handler |
| ASR/TTS session, `rs/core/rs_processor.cpp`, `rs/c_api/rapidspeech_c.cpp` | audio buffer, model state, `tts_encoded_`, `tts_decoded_`, text and audio results, last error | push audio / text / reference, process, get results, reset | one model; C, Python, Node, WebAssembly callers |
| Keyword spotting, `rs/core/rs_kws.cpp`, `rs/arch/kws_decoder.cpp`, `context_graph.cpp` | ring of samples, debounce table, prefix tree with fail and output links | `PushAudio`, `Poll`, `Reset` | SenseVoice encoder; callback |
| LLM cache, `rs/arch/llm_kv_cache.cpp` | cells, sequences, slot | `prepare`, `commit`, `clear`, sequence edits | nobody: every graph is built with a null cache |
| X-ASR stream and WebSocket server, `rs/arch/xasr_zipformer2.cpp`, `examples/asr/rs-xasr-ws-server.cpp` | samples and features of the utterance, encoder caches, hypothesis, last partial | `AcceptPcm`, `InputFinished`, `Reset`; binary, start, end, reset and ping messages | one client at a time |
| Context creation, `rs/core/rs_context.cpp` | backends, scheduler, weights | open, load, release | files, ggml |
| Models, frontends, tools, bindings, vendored code | numeric or stateless | | |

The path of audio in `rs-asr-vad-online`: device callback -> `AudioRingBuffer`
-> main thread reads windows -> front end (detector, segment buffers) ->
`SpeechSegmentQueue` -> worker merges and transcribes.  The C API offers the
detector alone through `rs_vad_t`.  A context of the C API (`rs_context_t`) is one
`RSProcessor`; the worker, the Python classes, `rs-tts-split` and the WebAssembly
binding are its drivers.

### What is hard

- Concurrency: three threads in `rs-asr-vad-online` (capture callback, main,
  ASR worker) and a signal handler.  The mutexes cover one queue operation, but
  the decisions span several: look at the backlog then push; pop, look, put back.
- Ordering: front insertion and erasing in the middle of a queue whose
  consumers rely on order; audio trimmed before it is known where the next
  segment begins; sample counters read before and after they count the chunk.
- Failure: the network may fail after buffers have changed; the worker may fail
  to load, or load too late; the device may fall silent; a decoder finds the
  encoder output of a request before.
- Reuse: contexts, streams and handles serve one request after the other, and
  what each clears between two of them is a list of assignments.
- Boundaries: overlapping frames across chunks of any size, padding before the
  first sample or into the previous segment, limits reached in the frame of an
  event, queues at their limit.

### What makes each part correct

Detector: segments disjoint, ordered, bounded, padded enough, reported once.
Handle: the same, in samples, whatever the chunking, the drains and the resets.
Queue and threads: conservation and order of segments, the limit, termination.
Front ends: no speech lost, none sent twice, one final per index, bounded
buffers.  Capture: no unaccounted loss, a signal stops it.  Session: results
belong to the last request, and are handed out once.  KWS: the graph is the
automaton of its keywords, a phrase is reported once per occurrence and the
boosts of a path come out even.  X-ASR stream: however the audio is cut, the
encoder sees what it would see of the whole utterance.

`PROJECT.json` lists every component with its status, and the hazards that
matter most, each at its line with the properties that cover it.

## 2. Plan

Done, in this order:

1. `SpeechEvents`, `FireRedPost`, `FireRedProofs`: the detector's core,
   against the abstract promise of a streaming detector.
2. `FireRedStream`, `RsVadFireRed`, `FireRedFull`: framing and the C API over it,
   the one-shot path.
3. `SegmentQueue`, `OnlinePipeline`: the queue and its two threads.
4. `FireRedSegmenter`, `SileroSegmenter`: the two front ends.
5. `RsVadSilero`, `AudioRing`: the C API over Silero, live capture.
6. `FireRedProofs`, `RsVadSileroProofs`: the two handles for every framing and every
   cut of the audio.
7. `Processor`, `Session`: the ASR/TTS session and four programs that drive it.
8. `ContextGraph`, `KwsDecoder`, `Kws`: the keyword graph, the decoder of a
   window, the spotter, each against a definition without it.
9. `XasrStream`, `XasrServer`, `XasrProofs`: the streaming recognizer and its
   server, with the windows of the whole utterance as the abstract promise.
10. Proofs about `AudioRing` and `SileroSegmenterProofs`: no loss that is not counted
    in the capture, and no speech lost or sent twice by the Silero front end, for
    every capacity, limit and probability.
11. The FireRed front end in `FireRedProofs`: no speech trimmed from the rolling
    buffer, and a bound on it; the order of the segments in both handles; the
    segments of the one-shot path.
12. `SessionProofs`: what the worker and the synthesizers show of a request, for
    every failure.
13. `OnlineProofs`: order, conservation and limit of the queue and what a push may
    erase, for every interleaving of its two threads; with it the proofs about
    `AudioRing`, the other hand-over between threads of the program.

14. `KwsProofs`: the graph of any keywords is their automaton, the decoder over it
    finds what is to be found, and the spotter reports that, of the windows of the
    stream, and once; the boosts of keywords of one score add up.

Left:

- The prefix beam searches, should a caller ever ask for a beam.

## 3. Modules

| Module | Models | EXTENDS |
|---|---|---|
| `SpeechEvents` | abstract: what a streaming detector promises | |
| `FireRedPost` | `FireRedVadModel::ProcessOneFrame`, `Reset`, `SetThreshold` | |
| `FireRedStream` | `DetectStreamingChunk`: remainder, frames, failing network | `FireRedPost` |
| `RsVadFireRed` | `rs_vad_t` over FireRedVAD | `FireRedStream` |
| `FireRedFull` | `DetectFull`, `ResultsToTimestamps` | `FireRedPost` |
| `FireRedSegmenter` | `process_vad_chunk_firered`, `flush_firered_tail` | `FireRedStream` |
| `FireRedProofs` | theorems about `FireRedPost`, `RsVadFireRed`, `FireRedSegmenter`, `FireRedFull` | these, `TLAPS` |
| `SegmentQueue` | `SpeechSegmentQueue` | |
| `OnlinePipeline` | main thread and worker over the queue | `SegmentQueue` |
| `SileroSegmenter` | `process_vad_chunk` (Silero), `vad_flush` | |
| `RsVadSilero` | `rs_vad_t` over Silero, the model's iterator | |
| `RsVadSileroProofs` | theorems about `RsVadSilero` | `RsVadSilero`, `TLAPS` |
| `AudioRing` | `AudioRingBuffer`, capture callback, main loop, SIGINT | |
| `SequenceLemmas` | induction, folds and sequences, for the proofs | `SequencesExt`, `TLAPS` |
| `OnlineProofs` | theorems about `OnlinePipeline` and `AudioRing` | `OnlinePipeline`, `AudioRing`, `SequenceLemmas` |
| `SileroSegmenterProofs` | theorems about `SileroSegmenter` | `SileroSegmenter`, `TLAPS` |
| `Processor` | `RSProcessor`, one operator per method | |
| `Session` | one context of the C API and the program that drives it | `Processor` |
| `SessionProofs` | theorems about `Session` | `Session`, `SequenceLemmas` |
| `ContextGraph` | `ContextGraph`: `Build`, `FillFailOutput`, `ForwardOneStep` | |
| `KwsDecoder` | `KWSDecoder::DecodeGreedy` | `ContextGraph` |
| `Kws` | `RSKws`: ring, polls, failures, debounce | `KwsDecoder` |
| `KwsProofs` | theorems about `Kws` and the two below it | `Kws`, `SequenceLemmas` |
| `XasrStream` | `XAsrOnlineStream` and the framing of `AudioProcessor` | |
| `XasrServer` | the connections of `rs-xasr-ws-server` | `XasrStream` |
| `XasrProofs` | theorems about `XasrStream` and `XasrServer` | `XasrServer`, `SequenceLemmas` |

`XMC.tla` extends `X` and `XMC.cfg` gives its constants values.  Definitions
whose comment begins with "Mutant" are plausible slips of the code; nothing uses
them, and replacing the definition that follows each by it must break a property.

**How state and steps correspond to the code.**  Variables carry the names of
the fields they stand for.  A step is what the code does without letting anybody
else see its state:

- `FireRedPost`: one call of `ProcessOneFrame`.  What every call does before the
  `switch` is `Prologue` with `Start0` and `Result0` (the reopening of a segment
  closed for its length); every path through the `switch` is an action of its
  own.  Probabilities are integers `0 .. ProbOne`, and the division of the mean
  is multiplied out.
- `RsVadFireRed`, `RsVadSilero`: a call is a step that enters it, a step for
  every frame or window, and a step that returns, so that a failure between two
  windows is visible.  A handle serves one call at a time, as the header asks.
  Times are samples, not seconds.
- `OnlinePipeline`: one step per critical section of the queue, whose loops over its
  entries (`Total`, `Keep`, `Fresh`) are recursive functions.  The backlog is
  read in one step (`CheckBackoff`) and the partial pushed in another; the worker
  takes a segment in one step and puts it back in another.  A blocked worker is a
  state (`blocked`) that a push, `set_done` or a spurious wakeup leaves.  Of the
  detector it uses only what `FireRedProofs` proves of it: segments come one
  at a time, apart and bounded.
- `FireRedSegmenter`: runs the real detector of `FireRedPost`; one step per
  chunk, frame, partial and trim.  `SileroSegmenter`: the branches on the
  probability, the partial and the cut at the end of the call are three steps of
  one call.  Its buffers hold the numbers of chunks, so that a property can say
  which audio a segment has.
- `AudioRing`: one step per critical section of the ring; samples are numbered,
  so that loss and order can be seen.
- `Processor`, `Session`: an `RSProcessor` is a record, and its methods are operators
  on it, so that a program that makes several calls in a row (`process_segment`
  makes up to eight) is one step over their composition: nobody else has the
  context in between.  In the program `any` each call is a step, in any order.
  Audio is blocks by number; a text is the audio and the decoder it came from, a
  sound the text and the voice: that is what the properties tell apart.
- `ContextGraph`: a node is the sequence of tokens that leads to it, its record the
  fields of `ContextState`.  The children of a node are queued in any order, since
  the code walks a hash map.  `KwsDecoder` is a function of a window; `Spotted` is
  the same without a graph.
- `Kws`: one step per window of `Poll`, with the clock free to move in between, so
  that a poll may be late or meet the same window twice.
- `XasrStream`: a piece of audio or the end is one step, each round of the loop in
  `process` another.  A frame is the samples it is computed from, so that a
  reflected one differs from the one that replaces it; the caches of the encoder
  are the windows it was given, with their `processed_lens`.

Ghost variables, which the code does not have, are those that remember the past
for a property: `taken`, `failed`, `lost`, `flush`, `pushed`, `dropped` and `stale`
as sets of ids, `transcripts` with `parts`, `emitted`, `owed`, `finals`, `previews`,
`sent`, `written`, `steps`, `stepped`; in `Session` `passes`, `heard`, `played` and
`shown`; in `Kws` `stream`, `windows` and `failed`; in `XasrStream` `pushed`, `late` and
the contents of `chost`, in `XasrServer` `shown`.

## 4. Runs

Passing runs:

| Run | States | What it shows |
|---|---|---|
| `firered_post` | 19 200 | Whatever the network returns and whenever the threshold changes or the detector is reset, segments are apart, bounded, padded over the smoothing delay, the machine implements `SpeechEvents`, and collapsing the events of a whole utterance gives the detector's own segments. |
| `rs_vad_firered` | 21 173 | Chunks of any size give the frames of the whole signal; what the caller drains, in any portions, is ordered; the handle's open segment is the detector's. |
| `online_pipeline` | 336 866 | Every interleaving of the two threads: order and conservation of segments, what may be erased or dropped, shutdown. |
| `firered_segmenter` | 53 396 | No speech is trimmed before it is extracted, memory is bounded, indices follow the detector's segments. |
| `silero_segmenter` | 68 066 | No chunk of speech is lost, no audio is in two finals, no segment has a hole, one final per index. |
| `rs_vad_silero` | 102 274 | Whole windows of the stream, ordered segments, and agreement with the model's own iterator. |
| `audio_ring` | 3 316 | Samples are delivered, ahead or counted as overruns, in order; a signal ends the capture. |
| `session` | 49 357 | Any sequence of calls, and three programs: each text and sound is handed out once and in order, a segment is shown its own text or none, a synthesis gives the sound of its own text and voice. |
| `kws` | 1 401 856 | For every small list of keywords the graph is the automaton of their suffixes and its boosts add up; over every short stream, failure and timing the spotter decodes the windows of the stream, reports what is spelled in them, and once. |
| `xasr` | 119 649 | However the audio is cut, the encoder has the windows of the whole utterance and all of it, and the client has been sent all that was recognized, of its own utterance only. |

Runs that refute what the repository says, one finding each:

| Run | Property | The disagreement |
|---|---|---|
| `online_merge_overlap` | `WorkerSurvives` | Padded segments overlap, the gap is negative, and filling it with zeros throws in the worker, which terminates the program. |
| `session_voice` | `ReferenceHeard` | The Python synthesizer resets the context before each synthesis, and with it goes the reference voice its setters pushed "for voice cloning". |

`Conserved` and `ShutsDown` are stated up to the termination of the first.

Other behaviour that the models show, or that was met while translating and is
kept as it is:

- Detector and handles.  `rs_vad_detect_full` closes the open segment in the
  handle and leaves the detector in it (`rs_vad.cpp:498`), though the header has
  it flush any open segment (`include/rapidspeech.h:309`): audio pushed next
  reports the segment again.  The Silero one ends a flushed segment at the last
  whole window and never looks at the samples after it (`rs_vad.cpp:399`, `:496`).
  Frame events are queued whether anybody drains them or not (`rs_vad.cpp:428`),
  so a caller that drains segments only lets the queue grow.  A probability that
  is not a number passes the clamp and stays in the running sum
  (`fireredvad.cpp:485`).
- Queue.  A segment that the worker puts back may exceed the limit that
  `rs-asr-vad-online.cpp:18` calls hard; `LimitUpToOne` says by how much.  A
  partial put back after its final was pushed stays ahead of it and is
  transcribed, because superseding happens at the push only (`:144`, `:800`).
- Front ends.  FireRed: padding that reaches over the end of a segment extracted
  in the same chunk is trimmed, while `start_s` still announces it (`:985-990`).
  Silero: the chunk of an onset is in the pre-roll already and is appended again,
  and the announced start lies two chunks before the audio (`:1153`);
  `vad_flush` takes a new index, so that the partials of the open segment are
  not superseded by its final (`:1501`).
- Capture.  If the device falls silent, Ctrl+C is not noticed: the main thread
  waits for samples (`:283`).  `StopsOnSignal` has that exception.
- Session.  `rs_has_output` asks by reading, so the text is gone for the
  `rs_get_text_output` that follows.  The texts of all contexts pass through one
  static string (`rapidspeech_c.cpp:333`).  A failed TTS decoding returns -1 once
  and 0 without a sound from then on.  With `--two-pass` and a model without a
  second pass every final is shown as "(no speech)" (`rs-asr-vad-online.cpp:699`).
  The WebAssembly binding keeps the last text when a later call gives none.
- Keyword spotting.  Where keywords share a beginning and differ in score, nodes
  built before the higher score arrived keep the lower `node_score`
  (`context_graph.cpp:35`) and the boosts of a path do not come out even.  The
  debounce compares the times of the polls, not of the audio (`rs_kws.cpp:122`):
  a program that polls late reports an utterance twice or holds back the next.
  Nor is the debounce that the header asks for enough in time: `rs_kws.h:50-51` says it
  "should be at least (window_ms - hop_ms) so adjacent overlapping windows don't
  double-trigger", but windows that share a frame begin up to `Overlap` apart, the
  largest multiple of the hop below the window, and are held back only while
  `dt < debounce_ms` (`:125`).  Where the hop divides the window, `Overlap` is the window
  less the hop, and at equality an utterance is reported twice; where it does not,
  `Overlap` is more, so that longer ones fail too (window 3, hop 2, debounce 1 or 2).
  `ReportsTheSpotted`, which has every window report what was not reported less than
  `Debounce` before, is this very behaviour; `SaidOnce` supposes `Debounce > Overlap`
  and leaves it out.  The defaults (1600, 200 and 1500 ms) are on the safe side.
  `num_trailing_blanks` counts blanks directly after the token's first frame, so
  a token held for two frames has none (`kws_decoder.h:41-45`).
- X-ASR.  Audio after the end of an utterance, without a start in between, takes
  the place of the pad that was encoded, and a second end processes nothing
  (`late` marks such a stream, and the properties leave it out).  An utterance that
  is shorter than a window even with the pad gives no text.  A hop longer than
  the pad, which no released model has, would leave the last words unencoded.
  The server waits for the messages of one client; another is served after it.

### Bounds, and why they are enough

- `firered_post`: window of 2 so that smoothing delays, minimum speech 2,
  maximum 4, minimum silence 3, probabilities from below zero to above one, 13
  frames: a segment, its forced end, the reopened one and a third with clipped
  padding fit.  The theorems hold for every value.
- `rs_vad_firered`: frames of 3 samples every 2, chunks of 1, 2, 5 and 15
  samples: below a frame, with and without a remainder, several frames at once;
  15 samples hold seven frames, two segments.
- `online_pipeline`: segments up to 3 chunks and one of padding, a queue of 7,
  10 chunks: three segments with partials, merges, put-backs and drops.  `ShortSeg`
  4 makes every segment a candidate for merging.
- `firered_segmenter`: 12 frames, chunks of one and two frames; the idle buffer
  as short as its assumption allows, so that trimming is as eager as it can be.
- `silero_segmenter`: one probability for each region the thresholds tell apart;
  cap 5 with a search window of 2, 9 chunks: a cut and the end of the segment
  that follows.
- `rs_vad_silero`: probabilities on each side of two pairs of thresholds; windows
  of 2, 13 samples in chunks of 1, 3 and 13: six windows, three segments and a
  partial window.
- `audio_ring`: a ring of 4, windows of 3, blocks up to 5: smaller than a window
  and larger than the ring; 13 samples wrap it three times.
- `session`: a chunk of two blocks and pieces of one and three, five blocks, three
  decodings and three texts: an encoding that fails after one that did not, a
  third request after a reset and after none.
- `kws`: all pairs of keywords of up to three tokens out of two, and some triples,
  for the graph; for the spotter one list, whose keywords end, begin and
  overlap one another and ask for different thresholds, windows of three frames
  that overlap by two, five frames and a clock up to five: the window that begins
  `Overlap` after the first is decoded in time, and a debounce of three is the
  shortest that holds it back: the mutant of `SaidOnce`, a hop shorter, fails on
  that window only.
- `xasr`: frames of five samples every two, which reach over both ends as the
  code's do (400 every 160); windows of five frames every three with a pad of
  four, 28 samples: up to four windows, and a second utterance.  The proofs do
  away with the bound.

No symmetry is used: the numbers of segments, frames and samples are ordered, and
tokens are compared with a blank.

### Deadlock

It is checked where the system must always be able to go on: the two VAD handles,
the detector (a reset is always possible), the pipeline, whose end is the explicit
step `Terminated`, and the X-ASR server.  `CHECK_DEADLOCK FALSE` stands where the
input really ends: after the last chunk of `firered_segmenter` and
`silero_segmenter`, in `audio_ring` after the stop or with a silent device, in
`session` when a program has made its requests, and in `kws` for lists of keywords
that are built for the properties of the graph and not listened to.

### Fairness

- `OnlinePipeline`: weak fairness of each thread.  A mutex is held for a few
  instructions and never while waiting for anything else, so a thread that can
  go on does; loading a model and transcribing a segment are taken to end.  The
  worker blocked in `pop` has no enabled step until it is notified, and spurious
  wakeups are not fair: `ShutsDown` rests on the notification in `set_done`.  The
  audio is not obliged to end.
- `AudioRing`: weak fairness of the main thread, and of the capture callback as
  long as the device delivers, which nothing obliges it to; SIGINT and silence
  are not fair.  The device may deliver a window after the signal, since the
  bound would otherwise stand for a device that falls silent.
- The other parts are driven by their callers, who may stop at any time: their
  specifications state no fairness, and their properties are safety.

## 5. Proofs

`FireRedProofs` proves of the detector, for every threshold set, window, padding and limit
(any integers, negative ones included, as the model file may hold them) and
every sequence of probabilities:

| Theorem | Says |
|---|---|
| `TypeCorrect` | `Spec => []TypeOK` |
| `StartsOnRecord` | a start is on record exactly inside a segment |
| `SegmentsStayApart` | an open segment begins after the last end, not before frame 1, not in the future |
| `SegmentsStayBounded` | no segment is longer than the limits and the padding together |
| `OnsetsCovered` | the padding makes up for the smoothing delay |
| `Refinement` | `FireRedPost` implements `SpeechEvents` |

The assumptions are `FireRedAssumption` alone: `ProbOne` positive, thresholds
between 0 and `ProbOne`, the rest integers.

None of these invariants is inductive alone.  `IInv` adds what ties the counters
to the clock: after a forced end the machine is in SPEECH with nothing counted
and the end is the current frame (`ForcedEnd`); an end is a frame already seen
(`EndInPast`); the run of speech being counted began after it (`RunAfterEnd`);
each state of the machine bounds its counters (`CountersInState`); an open
segment is its counted run plus at most the padding (`LengthOfRun`); the segment
reported last was bounded (`ReportBounded`).  `RunAfterEnd` is what makes
`PaddedStart` end up at or before the current frame although it is clipped to
the last end, and `CountersInState` with `LengthOfRun` gives the bound.

The proof of each step has one case per alternative of the `switch`
(`SwitchTyped` for the types, one lemma per group of conjuncts), then `Reset`,
`SetThreshold` and stuttering.  `Refinement` maps a frame to `Tick`, `Open`,
`Close` or `Blip`, a reset to `Reset`, a threshold change to a stutter.

Of the handle, `RsVadFireRed`, it proves, for every frame size and shift (the shift
positive and no larger than the frame), every set of chunk sizes and capacities, and every
failure of the network:

| Theorem | Says |
|---|---|
| `DetectorInside` | `VadSpec => Spec`: the handle drives the detector only as `FireRedPost` allows, so every theorem above holds inside the handle |
| `HandleInvariance` | `VadSpec => []VInv` |
| `ChunkingNeverShows` | however the audio is cut, the frames are those of the whole signal |
| `HandleAgrees` | between calls, up to a flush, the handle's open segment is the detector's and `rs_vad_is_speech` admits it |
| `ReportsInOrder` | up to a flush the segments reported lie within the audio, apart and in order, however they are drained |

`ChunkingInvisible` is inductive once the counters are known to be naturals.
The argument is arithmetic, and the front end needs it as well: `FramesBounds` and `FramesAre` characterise the number of frames
by two inequalities, `RemainderIs` shows that all branches of the remainder's
computation come to "what no frame start has passed", and
`FramesAppend` that `Frames(s + n)` is `Frames(s)` plus the frames of the remainder
and the next `n` samples; `CutKeepsFraming` puts them together.
`HandleFollowsDetector` speaks of the moments between calls; its strengthening
`SameOpenSegment` holds within a call as well, and its step for a frame rests on
`EventTells`, which reads off what a result says of the detector's open segment
and takes the detector's `IInv` for it (an end is never reported without a
start).  `ReportsInOrder` is not inductive alone: the next segment must begin
behind those reported, and that is known of the detector only.  `OInv` bounds
their ends by the detector's last end (`EndBy`) as long as nothing was flushed;
`EndBeforeWanted` puts that before `Wanted`, the first frame the open or next
segment can have, and `WantedGrows` says that it only moves on.  The assumptions are `FireRedAssumption`, `FramingAssumption` and
`VadAssumption`.

`RsVadSileroProofs` proves, for every window, silence limit, set of thresholds
between 1 and 100 percent, probabilities and chunk sizes:

| Theorem | Says |
|---|---|
| `Invariance` | `Spec => []IInv` |
| `WholeWindows` | `Spec => []WindowsOfStream`: whole windows of the stream, failures counted |
| `OpinionsNeverContradict` | `Spec => []HandleWithinModel`: no open segment of the handle that the model's iterator has given up or is about to |
| `ReportsInOrder` | `Spec => []SegmentsOrdered`: segments non-empty, within the windows taken, apart and in order, the open one behind them |

`IInv` adds to the two properties that the exit threshold in force is the one of
the entry threshold in force (`ThresholdsPaired`): with `ExitBelowEntry`, a
window that keeps the handle in speech is then no silence to the model.  For the
order, `OInv` says that all that was reported ends by `Frontier`, the start of the
open segment or else the windows taken, which only moves on.  The assumption is `SileroAssumption`.

`XasrProofs` proves, for every frame size and step that overlap at most fourfold
(`FrameSize <= 4 * FrameStep`; the code has 400 and 160), every window, hop and
pad with `Shift <= Pad < T`, and all pieces audio may arrive in:

| Theorem | Says |
|---|---|
| `StreamInvariant` | `StreamSpec => []StreamInv` |
| `ServerUsesStream` | `Spec => StreamSpec`: the server drives the stream only as it allows |
| `Online` | `Spec => []StreamIsOnline`: the encoder has the windows of the whole utterance |
| `AllHeard` | `Spec => []NothingUnheard`: after the end nothing is left to encode |
| `TextsArrive` | `Spec => []ClientUpToDate`: between messages the client has the text of its utterance |

The heart is `FramesStable`: of the frames of `n` samples all but the last two lie
within them on the right (`FrameWithin`, by the arithmetic of `FrameCount`), so that
more samples leave them as they are.  That is why the loop may encode all but two
frames while audio arrives, and why a window taken then is a window of the longer
utterance (`WindowsStable`) and of the padded one (`WindowsPadded`).  `StreamInv` says
that `feats` are those of the samples there are, that the windows in `chost` are those
of the utterance and, before its end, leave out the last two frames, and that
after the end no window is left.  `AllHeard` follows because what is left is less
than a hop and the pad no less.

`TextsArrive` is about a comparison that is not obviously enough: a partial is held
back if it equals the last *partial*, and a final is shown without counting as one.
`TextInv` says that the last partial is where the text shown begins, and that is where
the text recognized so far begins (`GoesOn`, from `DetokGrows`: more tokens only add
to the text).  If the text is the last partial again, then nothing lies between, and
it is what was shown.  That needs the text to be what its tokens spell one after the
other; `detok` also drops a space next to a wide character, which can take back a
trailing space and no more.  The assumptions are `StreamAssumption` and
`OutputsAssumption`, that outputs are sequences.

`OnlineProofs` proves, for every audio, padding, interval, backlog and limit, and
every interleaving of the main thread and the worker, with its failure to load and
its termination by a negative gap:

| Theorem | Says |
|---|---|
| `PipeInvariant` | `PipeSpec => []PipeInv` |
| `HeardInPushOrder` | `PipeSpec => []HeardInOrder`: what is heard, held, put back and queued is in the order of the pushes |
| `NoneLost` | `PipeSpec => []Conserved`: every segment is on one account, as long as the worker lives |
| `LimitHolds` | `PipeSpec => []LimitUpToOne` |
| `FinalsStayFinals` | `PipeSpec => []FinalsHeardAsFinals`: unless segments were dropped, no final is merged into a partial |
| `FinalsNeverStale` | `PipeSpec => OnlyPartialsGoStale` |
| `PartialsFit` | `PipeSpec => PartialDropsNothing` |

`PipeInv` has four parts.  `Control` ties the variables of each thread to the place it
is at.  `LineInv` speaks of the line of all segments that are still somewhere, the
heard ones first: their ids increase and have not been superseded or dropped, and a
segment taken, merged or put back keeps its place.  That alone is not inductive,
because a push supersedes by index: `Pair` says that the indices increase along the
line, and strictly after a final, so that nothing can supersede a final (this is
`FinalsNeverStale`); `Proper` gives partials of the open segment its start, so that
they overlap the final that follows and are merged into it or superseded by it; and
`Settled` says that of every partial of a closed segment the final is still on the
line, so that a partial that the worker holds is never the place where a *later*
final goes, unless something was dropped.  `QueueInv` adds what the queue holds:
`queue_dur` is the sum over the queue, while the worker has a segment to put back
the rest is within the limit, and when a partial is due the queue and that
segment together hold less than the backlog and one segment.  With `RoomForPartial`
(`Backoff - 1` and two padded segments fit the limit; 5 s and twice 20.2 s against
60 s in the code, and exactly in the run) a partial therefore fits although the
backlog was read under an earlier lock.  `TextInv` says of the texts what
`FinalsHeardAsFinals` says, and of the segment held that a partial is held by itself.

The theorems rest on `QueueAssumption` and `PipelineAssumption`.  `Total`, `Fresh` and
`HeardIn` are recursive functions over a sequence.  The prover cannot use the
induction theorems of the library, which take a predicate, so
`SequenceLemmas` proves induction for a *set* of naturals from its least element
(`LeastNatural`, `Induction`) and for a set of sequences (`SequenceInduction`), that a
fold of a sequence exists and is unique
(`FoldExists`, `FoldsAgree`), and what one more element does to it.  All else that is said of
the three (the sum of a concatenation, what a push keeps and in which order, what a
longer transcript was heard to say) follows from that.

Of `AudioRing` it proves, for every capacity, window and size of block, that each
sample the device delivers is given to the detector, still in the ring or counted
as an overrun, and that what is given is in order (`Accounted`, `Spec =>
[]LossesCounted`).  The invariant behind it (`RingInvariant`) says that the ring holds
the latest samples without a gap, `ring[i] = written - Len(ring) + i`: a write then
drops exactly the oldest, and a window read is what follows the last one.  The
assumption is `RingAssumption`.

`SileroSegmenterProofs` proves, for every threshold, silence limit, pre-roll, cap
and search window, and whatever the probabilities and the cuts are:

| Theorem | Says |
|---|---|
| `Invariance` | `Spec => []IInv` |
| `NothingLost` | `Spec => []SpeechKept`: a chunk of speech is in the buffer until a final has it |
| `Seamless` | `Spec => []NoHoles` |
| `NothingTwice` | `Spec => [][FinalsApart]_vars` |
| `IndicesUsedOnce` | `Spec => [][OneFinalEach]_vars` |

`IInv` says of the buffers that the one in use (the pre-roll outside a segment, the
speech inside) has no hole, ends at the latest chunk and is later than the last
final (`Buffers`), and of the place a cut would be made at that it lies inside the
buffer with everything behind it strictly later (`CutInside`).  The second is what
`NothingTwice` needs: the chunk of an onset is in the buffer twice, and a cut
between the two copies would send it in two finals.  `IndicesFree` keeps the
current index above those of all finals.  The assumption is
`SileroSegmenterAssumption`.

Of the FireRed front end, `FireRedSegmenter`, `FireRedProofs` proves, for every
configuration of the detector, frame size, padding and cut of the audio:

| Theorem | Says |
|---|---|
| `DetectorDriven` | `SegmenterSpec => Spec`: the front end drives the detector only as `FireRedPost` allows |
| `SegmenterInvariance` | `SegmenterSpec => []SInv` |
| `SpeechSurvivesTrimming` | `SegmenterSpec => []SpeechNeverTrimmed` |
| `IndexFollows` | `SegmenterSpec => []IndexFollowsSegment` |
| `MemoryBounded` | `SegmenterSpec => []BufferBounded` |

What makes trimming safe is `WantedKept`: all the audio from `Wanted` on, where the
open segment began or the next can begin at the earliest, is in the buffer.  Idle
trimming stays behind it (`KeptForLater`) because `IdleKeep` is assumed to cover
the smoothing delay, the padding and a frame, which its second does for the modes
of `fireredvad.cpp` (8 to 20 frames of smoothing, 5 of padding); trimming after a final stays behind it because the final ends no
later than the detector's last segment (`ExtractedPast`).  The assumptions are
`FireRedAssumption`, `FramingAssumption` and `SegmenterAssumption`.

Of the one-shot path, `FireRedFull`, it proves that collapsing the events of a whole
utterance gives the segments the detector itself reported and the one it has open
(`TimestampsAreSegments`, `FullSpec => []SameSegments`), for every limit of more than
one frame.  The loop looks at starts first and never reads the start in an end event;
with such a limit a segment that ends was open before the frame and the result
carries no start as well (`EndsWhatWasOpen`), so that the loop's `start` is always
the detector's (`FullInvariance`).

`SessionProofs` proves, for every size of chunk, segment and pad, every sequence of
calls and whatever the networks do:

| Theorem | Says |
|---|---|
| `Invariance` | `Spec => []IInv` |
| `OnlyOwnText` | `Spec => []OwnText`: what the worker shows of a segment was decoded of it, by the decoder of the last pass |
| `OneSound` | `Spec => []SoundOnce` |
| `SoundIsOfRequest` | `Spec => []SoundOfRequest`: a synthesis returns the sound of its own text |
| `TextsHeardOnce` | `Spec => []HeardOnce`: texts are handed out once and in order, of audio in order |

Each method of the processor has a lemma that says what it does to the fields the
others read (`ProcessDoes`, `DecodeOnlyDoes`, `ProcessTTSDoes`, ...).  `WorkerFresh`
says that between two segments the worker's context holds nothing of the one
before, although a pass may fail at any point and the second pass reads what the
first one left; `SilentUntilDecoded` ties the sounds to the flag that a reset clears.

`HearInv` is for the texts.  `ReadSoFar` cuts the decodings of a request into those
that are no longer in the state and those that are: what was heard is some of the
first, in order, and for a model without a language model all of them.  A decoding
may add one at the end, replace the second part by it or throw it away (`Decoding`,
`DecodeAdds`); reading moves the second part over (`SomeOfBoth`).  `InOrder` puts the
audio of the decodings, of the last encoding and of the buffer one after the other,
which a failed encoder, losing the buffer, and a second decoding of the same audio
leave true.  The assumption is `SessionAssumption`.

`KwsProofs` proves, for every list of keywords (scores and thresholds may be any
integers, keywords repeat or contain one another, a list or a keyword may be
empty), every order in which the children of a node are queued, every window, hop
and debounce time, and every failure and timing of the polls:

| Theorem | Says |
|---|---|
| `GraphIsThatOfKeywords` | `Spec => GraphIsAutomaton` |
| `DecodesTheSpotted` | over a finished graph `DecodeGreedy` finds what `Spotted` finds without one |
| `KwsInvariant` | `Spec => []KwsInv` |
| `WindowsAreOfStream` | `Spec => []WindowsOfStream` |
| `ReportsInvariant` | `Spec => [](ClockInv /\ ReportInv)` |
| `SpottedAreReported` | `Spec => []ReportsTheSpotted` |
| `KeywordsSaidOnce` | `Spec => []SaidOnce` |
| `ScoresInvariant` | `Spec => []ScoredInv` |
| `KeywordBoostsAddUp` | `Spec => BoostsAddUp` |

The graph is built link by link from links that are already there, so what a link is
must be known before all are.  `GraphInv` says that a node with a fail link has the
right one, the longest of the nodes that its tokens end in but for itself
(`FailsToLongest`), and the right output, and `QueueInv` that the queue is in the order
of length, with a difference of one at most, and has every linked node with a child that
is not linked.  Hence all nodes shorter than the one linked next have their links
(`QueueAhead`); climbing them finds the longest node that continues with the token
(`ClimbIs`), which is the longest suffix (`LinkedIs`); and once the queue is empty every
node is linked.  `LongestByStep` is what makes an automaton of it: the longest
beginning of a keyword that a text ends in, one token on, is found from the longest
before.

The walk remembers a node, `Spotted` the place where it began after the last hit.
`AtIs` connects them: the node is the longest beginning of a keyword that the tokens since
that place end in.  `StepsAlike` then needs that the keyword found lies behind that place,
which it does because it is no longer than the node.

Of the spotter `KwsInv` says that the ring is the rest of the stream and where its
windows began; of the reports `ClockInv` says that `last_hit_` has the latest report of
each phrase and that two reports of one phrase are a debounce time apart, and
`ReportInv` that what is to be found in a window was reported in it or in one shortly
before (`ReportStepInv` for the loop over the hits).  `KeywordsSaidOnce` follows because
windows that share a frame are at most `Overlap` apart (`WithinOverlap`).  The
assumptions are `GraphAssumption`, `DecoderAssumption` and `KwsAssumption`, which say of
the keywords and frames only that tokens are naturals.

`BoostsAddUp` needs two invariants more.  `LinksInv` says that a node gets its links
once: those in the queue are there once and their children have no links.  `Linked` adds
to the output score it finds, so a node linked twice would count keywords twice.
`ScoresInv` says that the output score of a linked node is that of all keywords it ends
in, and of another that of itself.  The keywords a node ends in are itself, where it is
one, and those that the rest of it ends in (`SumSplit`), which are those that the longest
of them ends in (`SumOfKeyword`), and that is the node's output, shorter than the node
and so linked before it.  `SumLenLess` is what the proof needs of the sum over a set of
keywords, which the module's fold takes in an order of its own choosing: a word may be
taken out of the set wherever one likes (`SumByAny`).  TLC has checked `ScoresInv` and
`LinksInv` on the lists of `KwsMC`.

`up`, `run` and `walk` are recursive functions: that there is a function that satisfies its
own equation is proved in `SequenceLemmas`, for a walk along a sequence (`FoldExists`) and
up the links of a tree (`RecursionByExists` and `RecursionExists`, by the rank of a node;
the sums over sets of words too, by their size).

Model-checked only: liveness (`ShutsDown`, `StopsOnSignal`), which is out of
the prover's reach.

## 6. Not modelled

- The networks and all signal processing: any probability, any token, any
  failure.  Floating point: sums are exact here, while the code's accumulate
  rounding.  This is most of the source: of some 171 000 lines, 92 600 are
  miniaudio, 26 700 a generated table of Chinese readings, and nearly all of the
  rest describe tensors of the acoustic and language models, tokenizers and
  transforms; the lines with a control of their own that the modules translate
  are about 3 100.
- Threads' data races on values that are only logged (`available`, `overruns`).
- `MicCapture` beyond its callback: opening, closing and choosing a device.
- Loading of models and files, context creation (one pass of acquisitions, each
  undone by a destructor when a later one fails); command lines; printing.
- `llm_kv_cache`: it is compiled, but nothing constructs one, and so nothing says
  which of its states can be reached.
- The prefix beam searches of the CTC decoder and of the keyword decoder: no
  caller sets a beam above 1.
- Speaker identification, voice conversion and the Matcha servers: one call
  after another with no state between them but the loaded model.
- The bindings wrap the C API; what they add is in `Session` for Python, and for
  the others is a single call passed on.
- Offline tools: conversion, quantisation, importance matrix, parity checks.
