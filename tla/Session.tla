------------------------------- MODULE Session -------------------------------
(***************************************************************************)
(* One context of the C API and the program that drives it, which calls    *)
(* one function at a time.  Four programs are modelled: any sequence of    *)
(* calls at all ("any", what the WebAssembly and Python bindings pass on), *)
(* the recognition worker of rs-asr-vad-online ("worker"), the synthesizer *)
(* class of the Python binding ("python"), and rs-tts-split ("split").     *)
(* Blocks of audio, texts, references and decodings are numbered in the    *)
(* order they are made.                                                    *)
(***************************************************************************)
EXTENDS Processor, SequencesExt

CONSTANTS Programs,     \* the programs considered
          Pieces,       \* the sizes of the audio a program pushes, in blocks
          MinAsr,       \* MIN_ASR_SAMPLES, in blocks
          MaxBlocks,    \* bounds of the model: blocks of audio pushed,
          MaxPasses,    \* texts decoded between resets
          MaxRequests   \* and texts pushed for synthesis

\* What the worker pads a segment to is enough to process.
ASSUME SessionAssumption ==
    /\ Chunk \in Nat \ {0} /\ MinAsr \in Nat /\ MinAsr >= Chunk
    /\ Pieces \subseteq Nat \ {0}
    /\ Programs \subseteq {"any", "worker", "python", "split"}
    /\ MaxBlocks \in Nat /\ MaxPasses \in Nat /\ MaxRequests \in Nat

VARIABLES program,
          kind,         \* of the model
          two_pass,     \* --two-pass of the worker
          p,            \* the processor
          temp_res,     \* the static string of rs_get_text_output
          blocks,       \* blocks of audio pushed
          requests,     \* texts pushed for synthesis
          refs,         \* references set
          passes,       \* texts decoded since the last reset, in order
          heard,        \* texts handed out since the last reset
          played,       \* sounds handed out since the last reset
          shown         \* what the program printed or returned last

log == <<passes, heard, played>>
config == <<program, kind, two_pass>>
vars == <<config, p, temp_res, blocks, requests, refs, log, shown>>

NothingShown == [kind |-> "nothing"]

Init ==
    /\ program \in Programs
    /\ kind \in CASE program = "worker" -> {"ctc", "twopass", "llm"}
                  [] program \in {"python", "split"} -> {"tts"}
                  [] OTHER -> Kinds
    /\ two_pass \in IF program = "worker" THEN BOOLEAN ELSE {FALSE}
    /\ p \in {SetCTCPrecheck(NewProcessor, kind, on) :
                 on \in IF program = "worker" THEN BOOLEAN ELSE {FALSE}}
    /\ temp_res = <<>>
    /\ blocks = 0 /\ requests = 0 /\ refs = 0
    /\ passes = <<>> /\ heard = <<>> /\ played = <<>>
    /\ shown = NothingShown

\* The n blocks of audio that come next.
NextBlocks(n) == [i \in 1 .. n |-> blocks + i]
Push(n) == blocks + n <= MaxBlocks /\ blocks' = blocks + n

\* The decoding of before that gave after, if it gave a text.
Passes(before, after, decoded, out) ==
    IF decoded /\ out = "speech"
    THEN <<[of |-> after.state.encoder_out, llm |-> ByLLM(before, kind)]>> ELSE <<>>

-----------------------------------------------------------------------------
(* Any sequence of calls.                                                  *)

Quiet == UNCHANGED <<config, shown>>

rs_push_audio(n) ==
    /\ program = "any" /\ kind # "tts"
    /\ Push(n)
    /\ p' = PushAudio(p, NextBlocks(n))
    /\ Quiet /\ UNCHANGED <<temp_res, requests, refs, log>>

rs_process(out) ==
    /\ program = "any" /\ kind # "tts" /\ Len(passes) < MaxPasses
    /\ p' = Process(p, kind, out)
    /\ passes' = passes \o Passes(p, p', ProcessReturns(p, out) = 1, out)
    /\ Quiet /\ UNCHANGED <<temp_res, blocks, requests, refs, heard, played>>

rs_redecode(out) ==
    /\ program = "any" /\ Len(passes) < MaxPasses
    /\ p' = DecodeOnly(p, kind, out)
    /\ passes' = passes \o Passes(p, p', DecodeOnlyReturns(p, kind, out) = 1, out)
    /\ Quiet /\ UNCHANGED <<temp_res, blocks, requests, refs, heard, played>>

\* rs_get_text_output, and rs_has_output, which asks by reading.
rs_get_text_output ==
    /\ program = "any"
    /\ temp_res' = TextResult(p)
    /\ p' = GetTextResult(p)
    /\ heard' = heard \o TextResult(p)
    /\ Quiet /\ UNCHANGED <<blocks, requests, refs, passes, played>>

rs_set_use_llm(use) ==
    /\ program = "any"
    /\ p' = SetUseLLM(p, kind, use)
    /\ Quiet /\ UNCHANGED <<temp_res, blocks, requests, refs, log>>

rs_set_ctc_precheck(on) ==
    /\ program = "any"
    /\ p' = SetCTCPrecheck(p, kind, on)
    /\ Quiet /\ UNCHANGED <<temp_res, blocks, requests, refs, log>>

rs_push_text ==
    /\ program = "any" /\ kind = "tts" /\ requests < MaxRequests
    /\ requests' = requests + 1
    /\ p' = PushText(p, requests')
    /\ Quiet /\ UNCHANGED <<temp_res, blocks, refs, log>>

\* The reference voice, its audio and its transcript, is pushed or set.
PushReferenceVoice ==
    /\ refs < MaxRequests
    /\ refs' = refs + 1
    /\ p' = PushReference(p, refs')

rs_push_reference ==
    /\ program \in {"any", "python"} /\ kind = "tts"
    /\ PushReferenceVoice
    /\ Quiet /\ UNCHANGED <<temp_res, blocks, requests, log>>

rs_set_tts_params ==
    /\ program \in {"any", "python"} /\ kind = "tts"
    /\ p' = SetTTSParams(p)
    /\ Quiet /\ UNCHANGED <<temp_res, blocks, requests, refs, log>>

rs_process_tts(out) ==
    /\ program = "any" /\ kind = "tts"
    /\ p' = ProcessTTS(p, out)
    /\ Quiet /\ UNCHANGED <<temp_res, blocks, requests, refs, log>>

rs_get_audio_output ==
    /\ program = "any"
    /\ played' = played \o p.tts_audio
    /\ p' = GetAudioOutput(p)
    /\ Quiet /\ UNCHANGED <<temp_res, blocks, requests, refs, passes, heard>>

rs_reset ==
    /\ program = "any"
    /\ p' = Reset(p)
    /\ passes' = <<>> /\ heard' = <<>> /\ played' = <<>>
    /\ Quiet /\ UNCHANGED <<temp_res, blocks, requests, refs>>

-----------------------------------------------------------------------------
(* The worker of rs-asr-vad-online.                                        *)

Padded(pcm) == pcm \o [i \in 1 .. (IF Len(pcm) < MinAsr THEN MinAsr - Len(pcm) ELSE 0) |-> 0]

\* Mutant: the first pass is not read before the second.
AfterFirstUnread(first, out) == Process(first, kind, out)

\* The processor after the first pass, the text read if there is one.
AfterFirst(first, out) ==
    IF ProcessReturns(first, out) > 0
    THEN GetTextResult(Process(first, kind, out)) ELSE Process(first, kind, out)

\* The text a pass gives, if it succeeds.
FirstText(first, out) ==
    IF ProcessReturns(first, out) > 0 THEN TextResult(Process(first, kind, out)) ELSE <<>>
SecondText(second, out) ==
    IF DecodeOnlyReturns(second, kind, out) > 0
    THEN TextResult(DecodeOnly(second, kind, out)) ELSE <<>>

\* process_segment: a first pass, with the fast decoder if another follows or
\* the segment is a preview, a second one for a final of two passes, and a reset
\* whatever came of them.
process_segment(n, is_partial, out1, out2) ==
    LET pcm == Padded(NextBlocks(n))
        first == IF two_pass \/ is_partial THEN SetUseLLM(PushAudio(p, pcm), kind, FALSE)
                 ELSE PushAudio(p, pcm)
        after == AfterFirst(first, out1)
        again == two_pass /\ ~is_partial
        second == SetUseLLM(after, kind, TRUE)
        text == IF again THEN SecondText(second, out2) ELSE FirstText(first, out1)
    IN  /\ program = "worker"
        /\ is_partial => two_pass
        /\ Push(n)
        /\ p' = Reset(IF again THEN DecodeOnly(second, kind, out2) ELSE after)
        /\ temp_res' = IF again /\ DecodeOnlyReturns(second, kind, out2) > 0 THEN text
                       ELSE IF ProcessReturns(first, out1) > 0 THEN FirstText(first, out1)
                       ELSE temp_res
        /\ shown' = [kind |-> "text", pcm |-> pcm, text |-> text, second |-> again]
        /\ UNCHANGED <<config, requests, refs, log>>

\* rs_push_audio ran out of memory: the segment is given up.
SegmentLost(n) ==
    /\ program = "worker"
    /\ Push(n)
    /\ p' = Reset(p)
    /\ shown' = NothingShown
    /\ UNCHANGED <<config, temp_res, requests, refs, log>>

-----------------------------------------------------------------------------
(* The two programs that synthesize.                                       *)

\* rs_process and rs_get_audio_output until the former returns 0 or fails: it
\* never returns anything else.
Synthesized(start, text, out) ==
    LET after == ProcessTTS(PushText(start, text), out)
        failed == ProcessTTSReturns(PushText(start, text), out) < 0
    IN  /\ p' = IF failed THEN after ELSE GetAudioOutput(after)
        /\ shown' = IF failed THEN NothingShown
                    ELSE [kind |-> "sound", sound |-> after.tts_audio,
                          text |-> text, ref |-> refs']

\* synthesize of the Python class: a reset, the text, the sound.
synthesize(out) ==
    /\ program = "python" /\ requests < MaxRequests
    /\ requests' = requests + 1
    /\ UNCHANGED refs
    /\ Synthesized(Reset(p), requests', out)
    /\ UNCHANGED <<config, temp_res, blocks, log>>

\* A sentence of rs-tts-split: a reset, the reference again, the text, the sound.
synthesize_one(out) ==
    /\ program = "split" /\ requests < MaxRequests
    /\ requests' = requests + 1
    /\ refs' = IF refs = 0 THEN 1 ELSE refs
    /\ Synthesized(PushReference(Reset(p), refs'), requests', out)
    /\ UNCHANGED <<config, temp_res, blocks, log>>

-----------------------------------------------------------------------------

Calls ==
    \/ \E n \in Pieces : rs_push_audio(n)
    \/ \E out \in Outcomes : rs_process(out) \/ rs_redecode(out) \/ rs_process_tts(out)
    \/ \E on \in BOOLEAN : rs_set_use_llm(on) \/ rs_set_ctc_precheck(on)
    \/ rs_get_text_output \/ rs_push_text \/ rs_push_reference \/ rs_set_tts_params
    \/ rs_get_audio_output \/ rs_reset
Worker ==
    \/ \E n \in Pieces, is_partial \in BOOLEAN, out1, out2 \in Outcomes :
          process_segment(n, is_partial, out1, out2)
    \/ \E n \in Pieces : SegmentLost(n)
Synthesis == \E out \in Outcomes : synthesize(out) \/ synthesize_one(out)
Next == Calls \/ Worker \/ Synthesis

Spec == Init /\ [][Next]_vars

-----------------------------------------------------------------------------
(* Properties.                                                             *)

\* The texts s are some of the texts t, in order: at[i] is the place of the i-th.
SomeOf(s, t) ==
    \E at \in [DOMAIN s -> DOMAIN t] :
        /\ \A i, j \in DOMAIN s : i < j => at[i] < at[j]
        /\ \A i \in DOMAIN s : s[i] = t[at[i]]

\* Between two resets a caller hears every text at most once and in the order of
\* decoding, whatever fails and whichever passes are made; only a model with a
\* language model gives up texts nobody read, and no audio gets into the texts of
\* two encodings.
HeardOnce ==
    /\ IsSuffix(p.state.tokens, passes)
    /\ SomeOf(heard, SubSeq(passes, 1, Len(passes) - Len(p.state.tokens)))
    /\ kind = "ctc" => heard \o p.state.tokens = passes
    /\ \A i, j \in DOMAIN passes :
          i < j => \/ passes[i].of = passes[j].of
                  \/ \A a \in ToSet(passes[i].of), b \in ToSet(passes[j].of) : a < b

\* What the worker shows of a segment is one decoding of that segment, all of it
\* and nothing else, by the decoder of the last pass, or no text at all: whatever
\* failed, now or in a segment before.
OwnText ==
    (shown.kind = "text" /\ shown.text # <<>>) =>
        shown.text = <<[of |-> shown.pcm,
                        llm |-> kind = "llm" \/ (kind = "twopass" /\ (two_pass => shown.second))]>>

\* Between two resets a caller gets one sound at most, however often it processes
\* and whatever it pushes in between.
SoundOnce == Len(played \o p.tts_audio) <= 1

\* A synthesis that raises no error returns the sound of its own text, whatever
\* came before; a sentence of rs-tts-split in the voice of the reference.
SoundOfRequest ==
    shown.kind = "sound" =>
        \E voice \in None .. refs :
            /\ shown.sound = <<<<shown.text, voice>>>>
            /\ program = "split" => voice = shown.ref

\* The Python class speaks with the reference voice that was set.  It does not:
\* the reset in synthesize drops the reference with the rest of the state.
ReferenceHeard == shown.kind = "sound" => shown.sound = <<<<shown.text, shown.ref>>>>

=============================================================================
