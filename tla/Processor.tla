------------------------------ MODULE Processor ------------------------------
(***************************************************************************)
(* RSProcessor, the engine behind a context of the C API, as a value: what *)
(* it buffers, the state of its model and the flags of its synthesis, and  *)
(* one operator per method.  Audio is a sequence of numbered blocks, and   *)
(* zeros are the block 0; a text is known by the audio it was decoded from *)
(* and the decoder, a sound by the text and the reference voice it was     *)
(* synthesized from.  The networks succeed or fail as they like.           *)
(*                                                                         *)
(* The models differ in what their decoder does: "ctc" (SenseVoice) adds   *)
(* to the texts not yet read, "llm" (Qwen3-ASR) replaces them, "twopass"   *)
(* (FunASR-Nano) adds with either decoder, "tts" synthesizes.              *)
(***************************************************************************)
EXTENDS Integers, Sequences

CONSTANT Chunk      \* chunk_size_samples_, in blocks

Kinds == {"ctc", "twopass", "llm", "tts"}

\* What the networks may do in one call.
Outcomes == {"encode_fails", "decode_fails", "silent", "speech"}

None == 0

\* RSState: what CreateState returns.
NewState == [encoder_out |-> <<>>, tokens |-> <<>>,
             text |-> None, ref |-> None, codes |-> <<None, None>>]

NewProcessor == [state |-> NewState, audio_buffer |-> <<>>,
                 tts_encoded |-> FALSE, tts_decoded |-> FALSE, tts_audio |-> <<>>,
                 use_llm |-> TRUE, ctc_precheck |-> FALSE]

-----------------------------------------------------------------------------
(* Recognition.                                                            *)

PushAudio(p, blocks) == [p EXCEPT !.audio_buffer = @ \o blocks]

\* Only FunASR-Nano has the switches.
SetUseLLM(p, kind, use) == IF kind = "twopass" THEN [p EXCEPT !.use_llm = use] ELSE p
SetCTCPrecheck(p, kind, on) == IF kind = "twopass" THEN [p EXCEPT !.ctc_precheck = on] ELSE p

ByLLM(p, kind) == kind = "llm" \/ (kind = "twopass" /\ p.use_llm)

\* A decoder needs an encoder output, whichever call made it.
Decodes(p, out) == p.state.encoder_out # <<>> /\ out \in {"silent", "speech"}

\* The texts not yet read after a decoding that succeeded.  The silence check in
\* front of the language model throws away those there are.
Tokens(p, kind, out) ==
    LET text == [of |-> p.state.encoder_out, llm |-> ByLLM(p, kind)]
    IN  IF out = "silent"
        THEN IF ByLLM(p, kind) /\ (kind = "llm" \/ p.ctc_precheck) THEN <<>> ELSE p.state.tokens
        ELSE IF kind = "llm" THEN <<text>> ELSE Append(p.state.tokens, text)

Decode(p, kind, out) ==
    IF Decodes(p, out) THEN [p EXCEPT !.state.tokens = Tokens(p, kind, out)] ELSE p

Ready(p) == Len(p.audio_buffer) >= Chunk

\* Mutant: the audio stays in the buffer.
EncodedUnpopped(p, out) ==
    [p EXCEPT !.state.encoder_out = IF out = "encode_fails" THEN @ ELSE p.audio_buffer]

\* The encoder takes all of the buffer; when it fails, the audio is gone and its
\* last output stays where it was.
Encoded(p, out) ==
    [p EXCEPT !.audio_buffer = <<>>,
              !.state.encoder_out = IF out = "encode_fails" THEN @ ELSE p.audio_buffer]

\* Process: nothing before the buffer holds a chunk.
Process(p, kind, out) ==
    IF ~Ready(p) THEN p
    ELSE IF out = "encode_fails" THEN Encoded(p, out) ELSE Decode(Encoded(p, out), kind, out)

ProcessReturns(p, out) ==
    IF ~Ready(p) THEN 0 ELSE IF out \in {"encode_fails", "decode_fails"} THEN -1 ELSE 1

\* DecodeOnly: the second pass over the encoder output the state still has.
DecodeOnly(p, kind, out) == IF kind = "twopass" THEN Decode(p, kind, out) ELSE p
DecodeOnlyReturns(p, kind, out) == IF kind = "twopass" /\ Decodes(p, out) THEN 1 ELSE -1

\* GetTextResult: reading the texts takes them.
TextResult(p) == p.state.tokens
GetTextResult(p) == [p EXCEPT !.state.tokens = <<>>]

-----------------------------------------------------------------------------
(* Synthesis.                                                              *)

PushText(p, text) == [p EXCEPT !.state.text = text]
PushReference(p, ref) == [p EXCEPT !.state.ref = ref]

\* A new seed comes with a new state.
SetTTSParams(p) == [p EXCEPT !.state = NewState]

EncodesText(p, out) == p.tts_encoded \/ (p.state.text # None /\ out # "encode_fails")

\* Mutant: every call decodes.
DecodesAgain(p, out) == EncodesText(p, out)

\* One decoding per reset, successful or not.
DecodesText(p, out) == EncodesText(p, out) /\ ~p.tts_decoded

ProcessTTS(p, out) ==
    LET encoded == IF p.tts_encoded \/ ~EncodesText(p, out) THEN p
                   ELSE [p EXCEPT !.tts_encoded = TRUE,
                                  !.state.codes = <<p.state.text, p.state.ref>>]
    IN  IF ~DecodesText(p, out) THEN encoded
        ELSE [encoded EXCEPT !.tts_decoded = TRUE,
                             !.tts_audio = IF out = "decode_fails" THEN @
                                           ELSE <<encoded.state.codes>>]

ProcessTTSReturns(p, out) ==
    IF ~EncodesText(p, out) \/ (DecodesText(p, out) /\ out = "decode_fails") THEN -1 ELSE 0

\* GetAudioOutput: the sound is handed out once.
GetAudioOutput(p) == [p EXCEPT !.tts_audio = <<>>]

-----------------------------------------------------------------------------

\* Mutant: the flags of the synthesis stay.
ResetKeepsFlags(p) ==
    [p EXCEPT !.state = NewState, !.audio_buffer = <<>>, !.tts_audio = <<>>]

\* Reset: everything but the switches of the model.
Reset(p) ==
    [p EXCEPT !.state = NewState, !.audio_buffer = <<>>,
              !.tts_encoded = FALSE, !.tts_decoded = FALSE, !.tts_audio = <<>>]
=============================================================================
