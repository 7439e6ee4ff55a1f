----------------------------- MODULE SessionProofs -----------------------------
(***************************************************************************)
(* Proofs about a context of the C API and the programs that drive it, for *)
(* every size of chunk, segment and pad and every failure: the recognition *)
(* worker shows of a segment what was decoded of it and nothing else, a    *)
(* synthesis returns one sound, that of its own text, and a caller hears   *)
(* each text at most once and in order.                                    *)
(***************************************************************************)
EXTENDS Session, SequenceLemmas

-----------------------------------------------------------------------------
(* The inductive invariant.                                                *)

Texts == [of : Seq(Nat), llm : BOOLEAN]
Sounds == Nat \X Nat

States == [encoder_out : Seq(Nat), tokens : Seq(Texts), text : Nat, ref : Nat, codes : Sounds]

Processors ==
    [state : States, audio_buffer : Seq(Nat), tts_encoded : BOOLEAN, tts_decoded : BOOLEAN,
     tts_audio : Seq(Sounds), use_llm : BOOLEAN, ctc_precheck : BOOLEAN]

Typed ==
    /\ p \in Processors /\ played \in Seq(Sounds)
    /\ blocks \in Nat /\ requests \in Nat /\ refs \in Nat
    /\ two_pass \in BOOLEAN

\* Between two segments the worker's context holds nothing of the one before,
\* and its first pass is the only one that ever switches the language model off.
WorkerFresh ==
    program = "worker" => /\ p.state = NewState
                          /\ p.audio_buffer = <<>>
                          /\ ~two_pass => p.use_llm

\* There is no sound before a text is decoded, and only callers of the C API
\* keep a sound that was handed out and go on without a reset.
SilentUntilDecoded ==
    /\ ~p.tts_decoded => played = <<>> /\ p.tts_audio = <<>>
    /\ program # "any" => played = <<>>

IInv ==
    /\ Typed
    /\ WorkerFresh
    /\ SilentUntilDecoded
    /\ OwnText
    /\ SoundOnce
    /\ SoundOfRequest

-----------------------------------------------------------------------------
(* What the methods of the processor do.                                   *)

\* Nothing is decoded but by ProcessTTS, and no sound taken but by GetAudioOutput.
SameSound(q, r) == r.tts_decoded = q.tts_decoded /\ r.tts_audio = q.tts_audio

\* A new state, and a new processor.
LEMMA NewTyped == NewState \in States /\ NewProcessor \in Processors
<1>1. <<>> \in Seq(Nat) /\ <<>> \in Seq(Texts) /\ <<>> \in Seq(Sounds) /\ <<0, 0>> \in Sounds
  BY DEF Sounds
<1>2. NewState \in States
  BY <1>1 DEF NewState, States, None
<1> QED
  BY <1>1, <1>2 DEF NewProcessor, Processors

\* Audio goes behind what is buffered.
LEMMA PushAudioDoes ==
    ASSUME NEW q \in Processors, NEW s \in Seq(Nat)
    PROVE  /\ PushAudio(q, s) \in Processors
           /\ PushAudio(q, s).audio_buffer = q.audio_buffer \o s
           /\ PushAudio(q, s).state = q.state /\ PushAudio(q, s).use_llm = q.use_llm
           /\ SameSound(q, PushAudio(q, s))
<1>1. q.audio_buffer \in Seq(Nat)
  BY DEF Processors
<1>2. q.audio_buffer \o s \in Seq(Nat)
  BY <1>1
<1> QED
  BY <1>2 DEF PushAudio, Processors, SameSound

\* The switches change nothing but themselves.
LEMMA SwitchesDo ==
    ASSUME NEW q \in Processors, NEW k, NEW on \in BOOLEAN
    PROVE  /\ SetUseLLM(q, k, on) \in Processors
           /\ SetUseLLM(q, k, on).state = q.state
           /\ SetUseLLM(q, k, on).audio_buffer = q.audio_buffer
           /\ SetUseLLM(q, k, on).use_llm = IF k = "twopass" THEN on ELSE q.use_llm
           /\ SameSound(q, SetUseLLM(q, k, on))
           /\ SetCTCPrecheck(q, k, on) \in Processors
           /\ SetCTCPrecheck(q, k, on).state = q.state
           /\ SetCTCPrecheck(q, k, on).audio_buffer = q.audio_buffer
           /\ SetCTCPrecheck(q, k, on).use_llm = q.use_llm
           /\ SameSound(q, SetCTCPrecheck(q, k, on))
<1>1. CASE k = "twopass"
  BY <1>1 DEF SetUseLLM, SetCTCPrecheck, Processors, SameSound
<1>2. CASE k # "twopass"
  BY <1>2 DEF SetUseLLM, SetCTCPrecheck, Processors, SameSound
<1> QED
  BY <1>1, <1>2

\* Texts, references and parameters of the synthesis touch the state only.
LEMMA PushesDo ==
    ASSUME NEW q \in Processors, NEW n \in Nat
    PROVE  /\ PushText(q, n) \in Processors
           /\ PushText(q, n).state.text = n /\ PushText(q, n).state.ref = q.state.ref
           /\ PushText(q, n).tts_encoded = q.tts_encoded /\ SameSound(q, PushText(q, n))
           /\ PushReference(q, n) \in Processors
           /\ PushReference(q, n).state.ref = n
           /\ PushReference(q, n).tts_encoded = q.tts_encoded
           /\ SameSound(q, PushReference(q, n))
           /\ SetTTSParams(q) \in Processors /\ SameSound(q, SetTTSParams(q))
BY NewTyped DEF PushText, PushReference, SetTTSParams, Processors, States, SameSound

\* A text of the state's encoder output.
LEMMA TextTyped ==
    ASSUME NEW q \in Processors, NEW k
    PROVE  /\ ByLLM(q, k) \in BOOLEAN /\ q.state.encoder_out \in Seq(Nat)
           /\ q.state.tokens \in Seq(Texts) /\ q.use_llm \in BOOLEAN
           /\ [of |-> q.state.encoder_out, llm |-> ByLLM(q, k)] \in Texts
<1>1. q.use_llm \in BOOLEAN /\ q.state.encoder_out \in Seq(Nat) /\ q.state.tokens \in Seq(Texts)
  BY DEF Processors, States
<1>2. ByLLM(q, k) \in BOOLEAN
  BY DEF ByLLM
<1> QED
  BY <1>1, <1>2 DEF Texts

\* A decoding adds a text of the encoder output, puts it in place of the others,
\* or adds none.
LEMMA DecodeDoes ==
    ASSUME NEW q \in Processors, NEW k, NEW out
    PROVE  /\ Decode(q, k, out) \in Processors
           /\ Decode(q, k, out).state.encoder_out = q.state.encoder_out
           /\ Decode(q, k, out).use_llm = q.use_llm
           /\ q.state.tokens = <<>> =>
                  Decode(q, k, out).state.tokens \in
                      {<<>>, <<[of |-> q.state.encoder_out, llm |-> ByLLM(q, k)]>>}
           /\ ~Decodes(q, out) => Decode(q, k, out) = q
           /\ SameSound(q, Decode(q, k, out))
<1> DEFINE text == [of |-> q.state.encoder_out, llm |-> ByLLM(q, k)]
           t == Tokens(q, k, out)
<1>1. text \in Texts /\ q.state.tokens \in Seq(Texts) /\ q.state \in States
  BY TextTyped DEF Processors
<1>2. t \in {<<>>, q.state.tokens, <<text>>, Append(q.state.tokens, text)}
  BY DEF Tokens
<1> HIDE DEF text, t
<1>3. t \in Seq(Texts)
  <2>1. <<>> \in Seq(Texts) /\ <<text>> \in Seq(Texts)
    BY <1>1
  <2>2. Append(q.state.tokens, text) \in Seq(Texts)
    BY <1>1
  <2> QED
    BY <1>1, <1>2, <2>1, <2>2
<1>4. q.state.tokens = <<>> => t \in {<<>>, <<text>>}
  BY <1>2
<1>5. CASE Decodes(q, out)
  <2>1. Decode(q, k, out) = [q EXCEPT !.state.tokens = t]
    BY <1>5 DEF Decode, t
  <2>2. [q EXCEPT !.state.tokens = t] \in Processors
    BY <1>3 DEF Processors, States
  <2>3. /\ [q EXCEPT !.state.tokens = t].state.tokens = t
        /\ [q EXCEPT !.state.tokens = t].state.encoder_out = q.state.encoder_out
        /\ [q EXCEPT !.state.tokens = t].use_llm = q.use_llm
        /\ SameSound(q, [q EXCEPT !.state.tokens = t])
    BY DEF Processors, States, SameSound
  <2> QED
    BY <1>4, <1>5, <2>1, <2>2, <2>3 DEF text
<1>6. CASE ~Decodes(q, out)
  <2>1. Decode(q, k, out) = q
    BY <1>6 DEF Decode
  <2> QED
    BY <1>6, <2>1 DEF SameSound
<1> QED
  BY <1>5, <1>6

\* The encoder takes the buffer.
LEMMA EncodedDoes ==
    ASSUME NEW q \in Processors, NEW out
    PROVE  /\ Encoded(q, out) \in Processors
           /\ Encoded(q, out).state.encoder_out = IF out = "encode_fails" THEN q.state.encoder_out
                                                  ELSE q.audio_buffer
           /\ Encoded(q, out).state.tokens = q.state.tokens
           /\ Encoded(q, out).use_llm = q.use_llm
           /\ SameSound(q, Encoded(q, out))
<1>1. q.audio_buffer \in Seq(Nat) /\ q.state.encoder_out \in Seq(Nat) /\ <<>> \in Seq(Nat)
  BY DEF Processors, States
<1>2. CASE out = "encode_fails"
  BY <1>1, <1>2 DEF Encoded, Processors, States, SameSound
<1>3. CASE out # "encode_fails"
  BY <1>1, <1>3 DEF Encoded, Processors, States, SameSound
<1> QED
  BY <1>2, <1>3

\* A pass over audio leaves the texts it found, and one more if it succeeds.
LEMMA ProcessDoes ==
    ASSUME NEW q \in Processors, NEW k, NEW out
    PROVE  /\ Process(q, k, out) \in Processors
           /\ Process(q, k, out).use_llm = q.use_llm
           /\ SameSound(q, Process(q, k, out))
           /\ q.state.tokens = <<>> /\ q.state.encoder_out = <<>> =>
                  /\ Process(q, k, out).state.encoder_out \in {<<>>, q.audio_buffer}
                  /\ ProcessReturns(q, out) > 0 =>
                         Process(q, k, out).state.tokens \in
                             {<<>>, <<[of |-> q.audio_buffer, llm |-> ByLLM(q, k)]>>}
                  /\ ~(ProcessReturns(q, out) > 0) => Process(q, k, out).state.tokens = <<>>
<1> DEFINE e == Encoded(q, out)
<1>1. CASE ~Ready(q)
  <2>1. Process(q, k, out) = q /\ ~(ProcessReturns(q, out) > 0)
    BY <1>1 DEF Process, ProcessReturns
  <2> QED
    BY <2>1 DEF SameSound
<1>2. CASE Ready(q) /\ out = "encode_fails"
  <2>1. Process(q, k, out) = e /\ ~(ProcessReturns(q, out) > 0)
    BY <1>2 DEF Process, ProcessReturns
  <2> HIDE DEF e
  <2>2. e \in Processors /\ e.use_llm = q.use_llm /\ SameSound(q, e)
        /\ e.state.tokens = q.state.tokens /\ e.state.encoder_out = q.state.encoder_out
    BY <1>2, EncodedDoes DEF e
  <2> QED
    BY <2>1, <2>2
<1>3. CASE Ready(q) /\ out # "encode_fails"
  <2>1. Process(q, k, out) = Decode(e, k, out)
    BY <1>3 DEF Process
  <2>2. (ProcessReturns(q, out) > 0) = (out # "decode_fails")
    BY <1>3 DEF ProcessReturns
  <2>3. out = "decode_fails" => ~Decodes(e, out)
    BY DEF Decodes
  <2> HIDE DEF e
  <2>4. /\ e \in Processors /\ e.use_llm = q.use_llm /\ SameSound(q, e)
        /\ e.state.tokens = q.state.tokens /\ e.state.encoder_out = q.audio_buffer
    BY <1>3, EncodedDoes DEF e
  <2>5. ByLLM(e, k) = ByLLM(q, k)
    BY <2>4 DEF ByLLM
  <2>6. /\ Decode(e, k, out) \in Processors
        /\ Decode(e, k, out).state.encoder_out = q.audio_buffer
        /\ Decode(e, k, out).use_llm = q.use_llm
        /\ q.state.tokens = <<>> =>
               Decode(e, k, out).state.tokens \in
                   {<<>>, <<[of |-> q.audio_buffer, llm |-> ByLLM(q, k)]>>}
        /\ ~Decodes(e, out) => Decode(e, k, out) = e
        /\ SameSound(e, Decode(e, k, out))
    BY <2>4, <2>5, DecodeDoes
  <2>7. SameSound(q, Decode(e, k, out))
    BY <2>4, <2>6 DEF SameSound
  <2> QED
    BY <2>1, <2>2, <2>3, <2>4, <2>6, <2>7
<1> QED
  BY <1>1, <1>2, <1>3

\* A second pass that succeeds reads the encoder output the first one left.
LEMMA DecodeOnlyDoes ==
    ASSUME NEW q \in Processors, NEW k, NEW out
    PROVE  /\ DecodeOnly(q, k, out) \in Processors
           /\ DecodeOnly(q, k, out).use_llm = q.use_llm
           /\ SameSound(q, DecodeOnly(q, k, out))
           /\ q.state.tokens = <<>> /\ DecodeOnlyReturns(q, k, out) > 0 =>
                  /\ k = "twopass" /\ q.state.encoder_out # <<>>
                  /\ DecodeOnly(q, k, out).state.tokens \in
                         {<<>>, <<[of |-> q.state.encoder_out, llm |-> ByLLM(q, k)]>>}
<1>1. DecodeOnlyReturns(q, k, out) > 0 => k = "twopass" /\ Decodes(q, out)
  BY DEF DecodeOnlyReturns
<1>2. CASE k = "twopass"
  <2>1. DecodeOnly(q, k, out) = Decode(q, k, out)
    BY <1>2 DEF DecodeOnly
  <2> QED
    BY <1>1, <1>2, <2>1, DecodeDoes DEF Decodes
<1>3. CASE k # "twopass"
  <2>1. DecodeOnly(q, k, out) = q
    BY <1>3 DEF DecodeOnly
  <2> QED
    BY <1>1, <1>3, <2>1 DEF SameSound
<1> QED
  BY <1>2, <1>3

\* What is read is taken, and the rest stays.
LEMMA ReadsDo ==
    ASSUME NEW q \in Processors
    PROVE  /\ GetTextResult(q) \in Processors
           /\ GetTextResult(q).state.tokens = <<>>
           /\ GetTextResult(q).state.encoder_out = q.state.encoder_out
           /\ GetTextResult(q).use_llm = q.use_llm
           /\ SameSound(q, GetTextResult(q))
           /\ GetAudioOutput(q) \in Processors
           /\ GetAudioOutput(q).tts_audio = <<>>
           /\ GetAudioOutput(q).tts_decoded = q.tts_decoded
<1>1. <<>> \in Seq(Texts) /\ <<>> \in Seq(Sounds)
  OBVIOUS
<1> QED
  BY <1>1 DEF GetTextResult, GetAudioOutput, Processors, States, SameSound

\* A reset leaves the switches.
LEMMA ResetDoes ==
    ASSUME NEW q \in Processors
    PROVE  /\ Reset(q) \in Processors
           /\ Reset(q).state = NewState /\ Reset(q).audio_buffer = <<>>
           /\ Reset(q).tts_encoded = FALSE /\ Reset(q).tts_decoded = FALSE
           /\ Reset(q).tts_audio = <<>>
           /\ Reset(q).use_llm = q.use_llm
<1>1. <<>> \in Seq(Nat) /\ <<>> \in Seq(Sounds)
  OBVIOUS
<1> QED
  BY <1>1, NewTyped DEF Reset, Processors

\* A synthesis decodes once, and then has the sound of what it encoded.
LEMMA ProcessTTSDoes ==
    ASSUME NEW q \in Processors, NEW out
    PROVE  /\ ProcessTTS(q, out) \in Processors
           /\ ~ProcessTTS(q, out).tts_decoded => ~q.tts_decoded
           /\ ~ProcessTTS(q, out).tts_decoded \/ q.tts_decoded =>
                  ProcessTTS(q, out).tts_audio = q.tts_audio
           /\ ProcessTTS(q, out).tts_audio = q.tts_audio \/ Len(ProcessTTS(q, out).tts_audio) = 1
           /\ ~q.tts_encoded /\ ~q.tts_decoded /\ ~(ProcessTTSReturns(q, out) < 0) =>
                  ProcessTTS(q, out).tts_audio = <<<<q.state.text, q.state.ref>>>>
<1> DEFINE e == IF q.tts_encoded \/ ~EncodesText(q, out) THEN q
                ELSE [q EXCEPT !.tts_encoded = TRUE,
                               !.state.codes = <<q.state.text, q.state.ref>>]
<1>1. <<q.state.text, q.state.ref>> \in Sounds
  BY DEF Processors, States, Sounds
<1>2. /\ e \in Processors /\ e.tts_decoded = q.tts_decoded /\ e.tts_audio = q.tts_audio
      /\ ~q.tts_encoded /\ EncodesText(q, out) => e.state.codes = <<q.state.text, q.state.ref>>
  <2>1. CASE q.tts_encoded \/ ~EncodesText(q, out)
    BY <2>1
  <2>2. CASE ~(q.tts_encoded \/ ~EncodesText(q, out))
    BY <1>1, <2>2 DEF Processors, States
  <2> QED
    BY <2>1, <2>2
<1> HIDE DEF e
<1>3. CASE ~DecodesText(q, out)
  <2>1. ProcessTTS(q, out) = e
    BY <1>3 DEF ProcessTTS, e
  <2>2. ~q.tts_decoded => ~EncodesText(q, out)
    BY <1>3 DEF DecodesText
  <2>3. ~q.tts_decoded => ProcessTTSReturns(q, out) < 0
    BY <2>2 DEF ProcessTTSReturns
  <2> QED
    BY <1>2, <2>1, <2>3
<1>4. CASE DecodesText(q, out)
  <2> DEFINE a == IF out = "decode_fails" THEN e.tts_audio ELSE <<e.state.codes>>
  <2>1. ProcessTTS(q, out) = [e EXCEPT !.tts_decoded = TRUE, !.tts_audio = a]
    BY <1>4 DEF ProcessTTS, e
  <2>2. EncodesText(q, out) /\ ~q.tts_decoded
    BY <1>4 DEF DecodesText
  <2>3. out = "decode_fails" => ProcessTTSReturns(q, out) < 0
    BY <1>4 DEF ProcessTTSReturns
  <2>4. e.state.codes \in Sounds /\ e.tts_audio \in Seq(Sounds)
    BY <1>2 DEF Processors, States
  <2>5. a \in Seq(Sounds) /\ (a = e.tts_audio \/ Len(a) = 1)
    BY <2>4
  <2>6. out # "decode_fails" /\ ~q.tts_encoded => a = <<<<q.state.text, q.state.ref>>>>
    BY <1>2, <2>2
  <2> HIDE DEF a
  <2>7. /\ [e EXCEPT !.tts_decoded = TRUE, !.tts_audio = a] \in Processors
        /\ [e EXCEPT !.tts_decoded = TRUE, !.tts_audio = a].tts_decoded = TRUE
        /\ [e EXCEPT !.tts_decoded = TRUE, !.tts_audio = a].tts_audio = a
    BY <1>2, <2>5 DEF Processors
  <2> QED
    BY <1>2, <2>1, <2>2, <2>3, <2>5, <2>6, <2>7
<1> QED
  BY <1>3, <1>4

\* No sound, or one, is at most one.
LEMMA AtMostOne ==
    ASSUME NEW s, s = <<>> \/ Len(s) = 1
    PROVE  Len(s) <= 1
<1>1. CASE s = <<>>
  <2>1. Len(<<>>) = 0
    OBVIOUS
  <2>2. Len(s) = 0
    BY <1>1, <2>1, Zenon
  <2> QED
    BY <2>2
<1>2. CASE Len(s) = 1
  BY <1>2
<1> QED
  BY <1>1, <1>2

-----------------------------------------------------------------------------
(* Calls of any program.                                                   *)

\* A call that touches no sound.
LEMMA SameSoundKeeps ==
    ASSUME IInv, SameSound(p, p'), UNCHANGED <<program, played>>
    PROVE  SilentUntilDecoded' /\ SoundOnce'
BY DEF IInv, SameSound, SilentUntilDecoded, SoundOnce

\* A call after which the program shows what it has shown.
LEMMA QuietKeeps ==
    ASSUME IInv, Quiet, program # "worker", Typed', refs <= refs', SilentUntilDecoded', SoundOnce'
    PROVE  IInv'
<1>1. UNCHANGED <<program, kind, two_pass, shown>>
  BY DEF Quiet, config
<1>2. WorkerFresh'
  BY <1>1 DEF WorkerFresh
<1>3. OwnText'
  BY <1>1 DEF IInv, OwnText
<1>4. SoundOfRequest'
  <2>1. ASSUME NEW voice \in None .. refs
        PROVE  voice \in None .. refs'
    BY DEF IInv, Typed, None
  <2> QED
    BY <1>1, <2>1, Zenon DEF IInv, SoundOfRequest
<1> QED
  BY <1>2, <1>3, <1>4 DEF IInv

\* Each function of the C API keeps the invariant.
LEMMA CallsKeep ==
    ASSUME IInv, Calls
    PROVE  IInv'
<1>1. /\ p \in Processors /\ played \in Seq(Sounds) /\ p.tts_audio \in Seq(Sounds)
      /\ blocks \in Nat /\ requests \in Nat /\ refs \in Nat /\ two_pass \in BOOLEAN
  BY DEF IInv, Typed, Processors
<1>2. ASSUME p' \in Processors, SameSound(p, p'), Quiet, program # "worker",
             UNCHANGED <<played>>, blocks' \in Nat, requests' \in Nat,
             refs' \in Nat, refs <= refs'
      PROVE  IInv'
  <2>1. Typed' /\ UNCHANGED <<program, played>>
    BY <1>1, <1>2 DEF Quiet, config, Typed
  <2> QED
    BY <1>2, <2>1, SameSoundKeeps, QuietKeeps
<1>3. ASSUME NEW n \in Pieces, rs_push_audio(n)
      PROVE  IInv'
  <2>1. n \in Nat /\ NextBlocks(n) \in Seq(Nat)
    BY <1>1, SessionAssumption DEF NextBlocks
  <2> QED
    BY <1>1, <1>2, <1>3, <2>1, PushAudioDoes DEF rs_push_audio, Push, log
<1>4. ASSUME NEW out \in Outcomes, rs_process(out)
      PROVE  IInv'
  BY <1>1, <1>2, <1>4, ProcessDoes DEF rs_process
<1>5. ASSUME NEW out \in Outcomes, rs_redecode(out)
      PROVE  IInv'
  BY <1>1, <1>2, <1>5, DecodeOnlyDoes DEF rs_redecode
<1>6. ASSUME NEW out \in Outcomes, rs_process_tts(out)
      PROVE  IInv'
  <2>1. /\ p' = ProcessTTS(p, out) /\ Quiet /\ program = "any"
        /\ UNCHANGED <<blocks, requests, refs, played>>
    BY <1>6 DEF rs_process_tts, log
  <2>2. /\ p' \in Processors
        /\ ~p'.tts_decoded => ~p.tts_decoded
        /\ ~p'.tts_decoded \/ p.tts_decoded => p'.tts_audio = p.tts_audio
        /\ p'.tts_audio = p.tts_audio \/ Len(p'.tts_audio) = 1
    BY <1>1, <2>1, ProcessTTSDoes
  <2>3. Typed' /\ program' = program
    BY <1>1, <2>1, <2>2 DEF Typed, Quiet, config
  <2>4. SilentUntilDecoded'
    BY <2>1, <2>2, <2>3 DEF IInv, SilentUntilDecoded
  <2>5. SoundOnce'
    <3>1. CASE p.tts_decoded
      BY <2>1, <2>2, <3>1 DEF IInv, SoundOnce
    <3>2. CASE ~p.tts_decoded
      <4>0. played = <<>> /\ p.tts_audio = <<>>
        BY <3>2 DEF IInv, SilentUntilDecoded
      <4>1. Len(p'.tts_audio) <= 1
        <5>1. p'.tts_audio = <<>> \/ Len(p'.tts_audio) = 1
          BY <2>2, <4>0
        <5> QED
          BY <5>1, AtMostOne, Zenon
      <4>2. p'.tts_audio \in Seq(Sounds)
        BY <2>2 DEF Processors
      <4>3. played' \o p'.tts_audio = p'.tts_audio
        BY <2>1, <4>0, <4>2
      <4> QED
        BY <4>1, <4>3 DEF SoundOnce
    <3> QED
      BY <3>1, <3>2
  <2> QED
    BY <1>1, <2>1, <2>3, <2>4, <2>5, QuietKeeps
<1>7. ASSUME NEW on \in BOOLEAN, rs_set_use_llm(on) \/ rs_set_ctc_precheck(on)
      PROVE  IInv'
  BY <1>1, <1>2, <1>7, SwitchesDo DEF rs_set_use_llm, rs_set_ctc_precheck, log
<1>8. CASE rs_get_text_output
  BY <1>1, <1>2, <1>8, ReadsDo DEF rs_get_text_output
<1>9. CASE rs_push_text
  BY <1>1, <1>2, <1>9, PushesDo DEF rs_push_text, log
<1>10. CASE rs_push_reference
  BY <1>1, <1>2, <1>10, PushesDo DEF rs_push_reference, PushReferenceVoice, log
<1>11. CASE rs_set_tts_params
  BY <1>1, <1>2, <1>11, PushesDo DEF rs_set_tts_params, log
<1>12. CASE rs_get_audio_output
  <2>1. /\ p' = GetAudioOutput(p) /\ Quiet /\ program = "any"
        /\ UNCHANGED <<blocks, requests, refs>> /\ played' = played \o p.tts_audio
    BY <1>12 DEF rs_get_audio_output
  <2>2. p' \in Processors /\ p'.tts_audio = <<>> /\ p'.tts_decoded = p.tts_decoded
    BY <1>1, <2>1, ReadsDo
  <2>3. played' \in Seq(Sounds) /\ played' \o <<>> = played'
    BY <1>1, <2>1
  <2>4. Typed' /\ program' = program
    BY <1>1, <2>1, <2>2, <2>3 DEF Typed, Quiet, config
  <2>5. SilentUntilDecoded'
    BY <2>1, <2>2, <2>4 DEF IInv, SilentUntilDecoded
  <2>6. SoundOnce'
    BY <2>1, <2>2, <2>3 DEF IInv, SoundOnce
  <2> QED
    BY <1>1, <2>1, <2>4, <2>5, <2>6, QuietKeeps
<1>13. CASE rs_reset
  <2>1. /\ p' = Reset(p) /\ Quiet /\ program = "any"
        /\ UNCHANGED <<blocks, requests, refs>> /\ played' = <<>>
    BY <1>13 DEF rs_reset
  <2>2. p' \in Processors /\ p'.tts_audio = <<>>
    BY <1>1, <2>1, ResetDoes
  <2>3. Typed' /\ program' = program
    BY <1>1, <2>1, <2>2 DEF Typed, Quiet, config
  <2>4. SilentUntilDecoded' /\ SoundOnce'
    BY <2>1, <2>2 DEF SilentUntilDecoded, SoundOnce
  <2> QED
    BY <1>1, <2>1, <2>3, <2>4, QuietKeeps
<1> QED
  BY <1>3, <1>4, <1>5, <1>6, <1>7, <1>8, <1>9, <1>10, <1>11, <1>12, <1>13 DEF Calls

-----------------------------------------------------------------------------
(* The worker.                                                             *)

\* The samples of a segment, padded or not.
LEMMA PaddedTyped ==
    ASSUME Typed, NEW n \in Nat
    PROVE  Padded(NextBlocks(n)) \in Seq(Nat)
<1>1. NextBlocks(n) \in Seq(Nat) /\ Len(NextBlocks(n)) = n
  BY DEF Typed, NextBlocks
<1> DEFINE m == IF Len(NextBlocks(n)) < MinAsr THEN MinAsr - Len(NextBlocks(n)) ELSE 0
<1>2. m \in Nat
  BY <1>1, SessionAssumption
<1> HIDE DEF m
<1>3. [i \in 1 .. m |-> 0] \in Seq(Nat)
  BY <1>2
<1>4. Padded(NextBlocks(n)) = NextBlocks(n) \o [i \in 1 .. m |-> 0]
  BY DEF Padded, m
<1> QED
  BY <1>1, <1>3, <1>4

\* The context after the first pass, and the text of it.
LEMMA FirstPassDoes ==
    ASSUME NEW q \in Processors, q.state = NewState, NEW out
    PROVE  /\ AfterFirst(q, out) \in Processors
           /\ AfterFirst(q, out).use_llm = q.use_llm
           /\ AfterFirst(q, out).state.tokens = <<>>
           /\ AfterFirst(q, out).state.encoder_out \in {<<>>, q.audio_buffer}
           /\ SameSound(q, AfterFirst(q, out))
           /\ FirstText(q, out) \in {<<>>, <<[of |-> q.audio_buffer, llm |-> ByLLM(q, kind)]>>}
<1> DEFINE r == Process(q, kind, out)
<1>1. q.state.tokens = <<>> /\ q.state.encoder_out = <<>>
  BY DEF NewState
<1>2. /\ r \in Processors /\ r.use_llm = q.use_llm /\ SameSound(q, r)
      /\ r.state.encoder_out \in {<<>>, q.audio_buffer}
      /\ ProcessReturns(q, out) > 0 =>
             r.state.tokens \in {<<>>, <<[of |-> q.audio_buffer, llm |-> ByLLM(q, kind)]>>}
      /\ ~(ProcessReturns(q, out) > 0) => r.state.tokens = <<>>
  BY <1>1, ProcessDoes
<1>3. /\ AfterFirst(q, out) = IF ProcessReturns(q, out) > 0 THEN GetTextResult(r) ELSE r
      /\ FirstText(q, out) = IF ProcessReturns(q, out) > 0 THEN r.state.tokens ELSE <<>>
  BY DEF AfterFirst, FirstText, TextResult
<1> HIDE DEF r
<1>4. CASE ProcessReturns(q, out) > 0
  <2>1. /\ GetTextResult(r) \in Processors /\ GetTextResult(r).state.tokens = <<>>
        /\ GetTextResult(r).state.encoder_out = r.state.encoder_out
        /\ GetTextResult(r).use_llm = r.use_llm /\ SameSound(r, GetTextResult(r))
    BY <1>2, ReadsDo
  <2>2. SameSound(q, GetTextResult(r))
    BY <1>2, <2>1 DEF SameSound
  <2> QED
    BY <1>2, <1>3, <1>4, <2>1, <2>2
<1>5. CASE ~(ProcessReturns(q, out) > 0)
  BY <1>2, <1>3, <1>5
<1> QED
  BY <1>4, <1>5

\* The context after a second pass, and the text of it.
LEMMA SecondPassDoes ==
    ASSUME NEW q \in Processors, q.state.tokens = <<>>, q.use_llm, NEW out
    PROVE  /\ DecodeOnly(q, kind, out) \in Processors
           /\ SameSound(q, DecodeOnly(q, kind, out))
           /\ SecondText(q, out) # <<>> =>
                  /\ kind = "twopass" /\ q.state.encoder_out # <<>>
                  /\ SecondText(q, out) = <<[of |-> q.state.encoder_out, llm |-> TRUE]>>
<1>1. kind = "twopass" => ByLLM(q, kind) = TRUE
  BY DEF ByLLM
<1>2. SecondText(q, out) = IF DecodeOnlyReturns(q, kind, out) > 0
                           THEN DecodeOnly(q, kind, out).state.tokens ELSE <<>>
  BY DEF SecondText, TextResult
<1>3. /\ DecodeOnly(q, kind, out) \in Processors
      /\ SameSound(q, DecodeOnly(q, kind, out))
      /\ DecodeOnlyReturns(q, kind, out) > 0 =>
             /\ kind = "twopass" /\ q.state.encoder_out # <<>>
             /\ DecodeOnly(q, kind, out).state.tokens \in
                    {<<>>, <<[of |-> q.state.encoder_out, llm |-> ByLLM(q, kind)]>>}
  BY DecodeOnlyDoes
<1> QED
  BY <1>1, <1>2, <1>3

\* After a segment the context is as good as new, and no sound is in it.
LEMMA WorkerResets ==
    ASSUME IInv, program = "worker", NEW q \in Processors, p' = Reset(q),
           ~two_pass => q.use_llm, UNCHANGED <<config, requests, refs, played>>, blocks' \in Nat
    PROVE  Typed' /\ WorkerFresh' /\ SilentUntilDecoded' /\ SoundOnce'
<1>1. /\ p' \in Processors /\ p'.state = NewState /\ p'.audio_buffer = <<>>
      /\ p'.tts_audio = <<>> /\ p'.use_llm = q.use_llm
  BY ResetDoes
<1>2. UNCHANGED <<program, kind, two_pass>>
  BY DEF config
<1>3. played' = <<>>
  BY DEF IInv, SilentUntilDecoded
<1>4. Typed' /\ WorkerFresh'
  BY <1>1, <1>2 DEF IInv, Typed, WorkerFresh
<1>5. SilentUntilDecoded' /\ SoundOnce'
  BY <1>1, <1>3 DEF SilentUntilDecoded, SoundOnce
<1> QED
  BY <1>4, <1>5

\* A segment is shown by what was decoded of it.
LEMMA SegmentShown ==
    ASSUME IInv, NEW n \in Pieces, NEW is_partial \in BOOLEAN, NEW out1, NEW out2,
           process_segment(n, is_partial, out1, out2)
    PROVE  IInv'
<1> DEFINE pcm == Padded(NextBlocks(n))
           pushed == PushAudio(p, pcm)
           first == IF two_pass \/ is_partial THEN SetUseLLM(pushed, kind, FALSE) ELSE pushed
           after == AfterFirst(first, out1)
           again == two_pass /\ ~is_partial
           second == SetUseLLM(after, kind, TRUE)
           text == IF again THEN SecondText(second, out2) ELSE FirstText(first, out1)
           last == IF again THEN DecodeOnly(second, kind, out2) ELSE after
<1>1. /\ program = "worker" /\ (is_partial => two_pass) /\ Push(n)
      /\ UNCHANGED <<config, requests, refs, played>>
  BY DEF process_segment, log
<1>2. p' = Reset(last) /\ shown' = [kind |-> "text", pcm |-> pcm, text |-> text, second |-> again]
  BY DEF process_segment
<1>3. /\ p \in Processors /\ p.state = NewState /\ p.audio_buffer = <<>>
      /\ two_pass \in BOOLEAN /\ n \in Nat /\ blocks \in Nat /\ (~two_pass => p.use_llm)
  BY <1>1, SessionAssumption DEF IInv, Typed, WorkerFresh
<1>4. pcm \in Seq(Nat)
  BY <1>3, PaddedTyped DEF IInv
<1> HIDE DEF pcm
<1>5. /\ pushed \in Processors /\ pushed.state = NewState /\ pushed.audio_buffer = pcm
      /\ pushed.use_llm = p.use_llm
  <2>1. <<>> \o pcm = pcm
    BY <1>4
  <2> QED
    BY <1>3, <1>4, <2>1, PushAudioDoes
<1> HIDE DEF pushed
<1>6. /\ first \in Processors /\ first.state = NewState /\ first.audio_buffer = pcm
      /\ ~two_pass => first.use_llm
      /\ two_pass /\ kind = "twopass" => first.use_llm = FALSE
  <2>1. CASE two_pass \/ is_partial
    BY <1>1, <1>5, <2>1, SwitchesDo
  <2>2. CASE ~(two_pass \/ is_partial)
    BY <1>3, <1>5, <2>2
  <2> QED
    BY <2>1, <2>2
<1> HIDE DEF first
<1>7. /\ after \in Processors /\ after.use_llm = first.use_llm /\ after.state.tokens = <<>>
      /\ after.state.encoder_out \in {<<>>, pcm}
      /\ FirstText(first, out1) \in {<<>>, <<[of |-> pcm, llm |-> ByLLM(first, kind)]>>}
  BY <1>6, FirstPassDoes
<1> HIDE DEF after
<1>8. /\ second \in Processors /\ second.state = after.state
      /\ kind = "twopass" => second.use_llm
  <2>1. TRUE \in BOOLEAN /\ after \in Processors
    BY <1>7
  <2>2. /\ second \in Processors /\ second.state = after.state
        /\ second.use_llm = IF kind = "twopass" THEN TRUE ELSE after.use_llm
    BY <2>1, SwitchesDo, Zenon DEF second
  <2> QED
    BY <2>2
<1> HIDE DEF second
<1>9. /\ last \in Processors
      /\ ~two_pass => last.use_llm
  <2>1. CASE again
    BY <1>8, <2>1, DecodeOnlyDoes
  <2>2. CASE ~again
    BY <1>6, <1>7, <2>2
  <2> QED
    BY <2>1, <2>2
<1>10. text # <<>> =>
           text = <<[of |-> pcm, llm |-> kind = "llm" \/ (kind = "twopass" /\ (two_pass => again))]>>
  <2> DEFINE mark == kind = "llm" \/ (kind = "twopass" /\ (two_pass => again))
  <2>1. CASE again
    <3>1. text = SecondText(second, out2)
      BY <2>1
    <3>2. kind = "twopass" => mark = TRUE
      BY <2>1
    <3>3. SecondText(second, out2) # <<>> => kind = "twopass"
      BY <1>8, DecodeOnlyDoes DEF SecondText, DecodeOnlyReturns
    <3>4. kind = "twopass" /\ SecondText(second, out2) # <<>> =>
              /\ second.state.encoder_out # <<>>
              /\ SecondText(second, out2) = <<[of |-> second.state.encoder_out, llm |-> TRUE]>>
      BY <1>7, <1>8, SecondPassDoes
    <3>5. second.state.encoder_out \in {<<>>, pcm}
      BY <1>7, <1>8
    <3> HIDE DEF text, mark
    <3>6. text # <<>> => text = <<[of |-> pcm, llm |-> mark]>>
      BY <3>1, <3>2, <3>3, <3>4, <3>5
    <3> QED
      BY <3>6 DEF mark
  <2>2. CASE ~again
    <3>1. text = FirstText(first, out1)
      BY <2>2
    <3>2. mark = (kind = "llm" \/ (kind = "twopass" /\ ~two_pass))
      BY <2>2
    <3>3. ByLLM(first, kind) = mark
      <4>1. first.use_llm \in BOOLEAN
        BY <1>6 DEF Processors
      <4>2. kind = "twopass" => first.use_llm = ~two_pass
        BY <1>3, <1>6, <4>1
      <4> QED
        BY <3>2, <4>2, Zenon DEF ByLLM
    <3> HIDE DEF text, mark
    <3>4. text # <<>> => text = <<[of |-> pcm, llm |-> mark]>>
      BY <1>7, <3>1, <3>3
    <3> QED
      BY <3>4 DEF mark
  <2> QED
    BY <2>1, <2>2
<1> HIDE DEF last, text
<1>11. blocks' \in Nat
  BY <1>1, <1>3 DEF Push
<1>12. Typed' /\ WorkerFresh' /\ SilentUntilDecoded' /\ SoundOnce'
  BY <1>1, <1>2, <1>9, <1>11, WorkerResets
<1>13. UNCHANGED <<program, kind, two_pass>>
  BY <1>1 DEF config
<1>14. OwnText'
  <2>1. /\ shown'.kind = "text" /\ shown'.text = text /\ shown'.pcm = pcm
        /\ shown'.second = again
    BY <1>2
  <2> HIDE DEF again
  <2> QED
    BY <1>10, <1>13, <2>1 DEF OwnText
<1>15. SoundOfRequest'
  <2>1. shown'.kind = "text"
    BY <1>2
  <2> QED
    BY <2>1 DEF SoundOfRequest
<1> QED
  BY <1>12, <1>14, <1>15 DEF IInv

\* The worker keeps the invariant.
LEMMA WorkerKeeps ==
    ASSUME IInv, Worker
    PROVE  IInv'
<1>1. ASSUME NEW n \in Pieces, SegmentLost(n)
      PROVE  IInv'
  <2>1. /\ program = "worker" /\ p' = Reset(p) /\ shown' = NothingShown
        /\ UNCHANGED <<config, requests, refs, played>> /\ blocks' = blocks + n
    BY <1>1 DEF SegmentLost, Push, log
  <2>2. p \in Processors /\ (~two_pass => p.use_llm) /\ blocks' \in Nat
    BY <2>1, SessionAssumption DEF IInv, Typed, WorkerFresh
  <2>3. Typed' /\ WorkerFresh' /\ SilentUntilDecoded' /\ SoundOnce'
    BY <2>1, <2>2, WorkerResets
  <2>4. OwnText' /\ SoundOfRequest'
    BY <2>1 DEF NothingShown, OwnText, SoundOfRequest
  <2> QED
    BY <2>3, <2>4 DEF IInv
<1> QED
  BY <1>1, SegmentShown DEF Worker

-----------------------------------------------------------------------------
(* The programs that synthesize.                                           *)

\* A synthesis from a context that was reset has one sound at most, its own.
LEMMA SynthesisKeeps ==
    ASSUME IInv, NEW start \in Processors, ~start.tts_encoded, ~start.tts_decoded,
           start.tts_audio = <<>>, start.state.ref \in 0 .. refs',
           program = "split" => start.state.ref = refs',
           program \in {"python", "split"}, refs' \in Nat, requests' \in Nat,
           NEW out, Synthesized(start, requests', out), UNCHANGED <<config, blocks, log>>
    PROVE  IInv'
<1> DEFINE asked == PushText(start, requests')
           after == ProcessTTS(asked, out)
           failed == ProcessTTSReturns(asked, out) < 0
<1>1. /\ p' = IF failed THEN after ELSE GetAudioOutput(after)
      /\ shown' = IF failed THEN NothingShown
                  ELSE [kind |-> "sound", sound |-> after.tts_audio,
                        text |-> requests', ref |-> refs']
  BY DEF Synthesized
<1>2. /\ asked \in Processors /\ asked.state.text = requests' /\ asked.state.ref = start.state.ref
      /\ asked.tts_encoded = start.tts_encoded /\ asked.tts_decoded = start.tts_decoded
      /\ asked.tts_audio = <<>>
  BY PushesDo DEF SameSound
<1> HIDE DEF asked
<1>3. /\ after \in Processors
      /\ ~after.tts_decoded => after.tts_audio = <<>>
      /\ after.tts_audio = <<>> \/ Len(after.tts_audio) = 1
      /\ ~failed => after.tts_audio = <<<<requests', start.state.ref>>>>
  BY <1>2, ProcessTTSDoes
<1> HIDE DEF after, failed
<1>4. /\ p' \in Processors /\ p'.tts_decoded = after.tts_decoded
      /\ p'.tts_audio = <<>> \/ p'.tts_audio = after.tts_audio
  BY <1>1, <1>3, ReadsDo
<1>5. UNCHANGED <<program, kind, two_pass, played>> /\ played' = <<>>
  BY DEF config, log, IInv, SilentUntilDecoded
<1>6. Typed' /\ WorkerFresh'
  BY <1>4, <1>5 DEF IInv, Typed, WorkerFresh
<1>7. SilentUntilDecoded'
  BY <1>3, <1>4, <1>5 DEF SilentUntilDecoded
<1>8. SoundOnce'
  <2>1. p'.tts_audio \in Seq(Sounds)
    BY <1>4 DEF Processors
  <2>2. played' \o p'.tts_audio = p'.tts_audio
    BY <1>5, <2>1
  <2>3. p'.tts_audio = <<>> \/ Len(p'.tts_audio) = 1
    BY <1>3, <1>4
  <2>4. Len(p'.tts_audio) <= 1
    BY <2>3, AtMostOne, Zenon
  <2> QED
    BY <2>2, <2>4 DEF SoundOnce
<1>9. OwnText'
  <2>1. shown'.kind # "text"
    BY <1>1 DEF NothingShown
  <2> QED
    BY <2>1 DEF OwnText
<1>10. SoundOfRequest'
  <2>1. CASE failed
    BY <1>1, <2>1 DEF NothingShown, SoundOfRequest
  <2>2. CASE ~failed
    <3>1. /\ shown'.sound = <<<<requests', start.state.ref>>>> /\ shown'.text = requests'
          /\ shown'.ref = refs'
      BY <1>1, <1>3, <2>2
    <3> QED
      BY <1>5, <3>1 DEF SoundOfRequest, None
  <2> QED
    BY <2>1, <2>2
<1> QED
  BY <1>6, <1>7, <1>8, <1>9, <1>10 DEF IInv

\* Both programs reset the context before each text, and rs-tts-split pushes
\* the reference again.
LEMMA SynthesizersKeep ==
    ASSUME IInv, Synthesis
    PROVE  IInv'
<1>1. p \in Processors /\ requests \in Nat /\ refs \in Nat
  BY DEF IInv, Typed
<1>2. /\ Reset(p) \in Processors /\ ~Reset(p).tts_encoded /\ ~Reset(p).tts_decoded
      /\ Reset(p).tts_audio = <<>> /\ Reset(p).state.ref = 0
  <2>1. /\ Reset(p) \in Processors /\ Reset(p).state = NewState /\ Reset(p).tts_encoded = FALSE
        /\ Reset(p).tts_decoded = FALSE /\ Reset(p).tts_audio = <<>>
    BY <1>1, ResetDoes
  <2>2. NewState.ref = 0
    BY DEF NewState, None
  <2> QED
    BY <2>1, <2>2
<1>3. ASSUME NEW out \in Outcomes, synthesize(out)
      PROVE  IInv'
  <2>1. /\ program = "python" /\ requests' = requests + 1 /\ refs' = refs
        /\ Synthesized(Reset(p), requests', out) /\ UNCHANGED <<config, blocks, log>>
    BY <1>3 DEF synthesize
  <2>2. requests' \in Nat /\ refs' \in Nat /\ Reset(p).state.ref \in 0 .. refs'
    BY <1>1, <1>2, <2>1
  <2> QED
    BY <1>2, <2>1, <2>2, SynthesisKeeps
<1>4. ASSUME NEW out \in Outcomes, synthesize_one(out)
      PROVE  IInv'
  <2> DEFINE start == PushReference(Reset(p), refs')
  <2>1. /\ program = "split" /\ requests' = requests + 1
        /\ refs' = IF refs = 0 THEN 1 ELSE refs
        /\ Synthesized(start, requests', out) /\ UNCHANGED <<config, blocks, log>>
    BY <1>4 DEF synthesize_one
  <2>2. requests' \in Nat /\ refs' \in Nat
    BY <1>1, <2>1
  <2>3. /\ start \in Processors /\ ~start.tts_encoded /\ ~start.tts_decoded
        /\ start.tts_audio = <<>> /\ start.state.ref = refs'
    BY <1>2, <2>2, PushesDo DEF SameSound
  <2>4. start.state.ref \in 0 .. refs'
    BY <2>2, <2>3
  <2> HIDE DEF start
  <2> QED
    BY <2>1, <2>2, <2>3, <2>4, SynthesisKeeps
<1> QED
  BY <1>3, <1>4 DEF Synthesis

-----------------------------------------------------------------------------
(* The theorems.                                                           *)

\* The invariant holds at first.
LEMMA InitKeeps == Init => IInv
<1> SUFFICES ASSUME Init PROVE IInv
  OBVIOUS
<1>1. /\ blocks = 0 /\ requests = 0 /\ refs = 0 /\ played = <<>>
      /\ shown = NothingShown /\ two_pass \in BOOLEAN
  BY DEF Init
<1>2. PICK on \in BOOLEAN : p = SetCTCPrecheck(NewProcessor, kind, on)
  BY DEF Init
<1>3. /\ NewProcessor.state = NewState /\ NewProcessor.audio_buffer = <<>>
      /\ NewProcessor.use_llm = TRUE /\ NewProcessor.tts_audio = <<>>
  BY DEF NewProcessor
<1>4. /\ p \in Processors /\ p.state = NewState /\ p.audio_buffer = <<>>
      /\ p.use_llm = TRUE /\ p.tts_audio = <<>>
  BY <1>2, <1>3, NewTyped, SwitchesDo DEF SameSound
<1>5. Typed /\ WorkerFresh /\ SilentUntilDecoded
  BY <1>1, <1>4 DEF Typed, WorkerFresh, SilentUntilDecoded
<1>6. OwnText /\ SoundOfRequest
  BY <1>1 DEF NothingShown, OwnText, SoundOfRequest
<1>7. SoundOnce
  BY <1>1, <1>4 DEF SoundOnce
<1> QED
  BY <1>5, <1>6, <1>7 DEF IInv

\* And every call of every program keeps it.
THEOREM Invariance == Spec => []IInv
<1>1. IInv /\ [Next]_vars => IInv'
  <2> SUFFICES ASSUME IInv, [Next]_vars PROVE IInv'
    OBVIOUS
  <2>1. CASE UNCHANGED vars
    BY <2>1 DEF vars, config, log, IInv, Typed, WorkerFresh, SilentUntilDecoded, OwnText,
                SoundOnce, SoundOfRequest
  <2> QED
    BY <2>1, CallsKeep, WorkerKeeps, SynthesizersKeep DEF Next
<1> QED
  BY <1>1, InitKeeps, PTL DEF Spec

\* What process_segment shows of a segment is one decoding of that segment by the
\* decoder of the last pass, or nothing, whatever failed now or before.
THEOREM OnlyOwnText == Spec => []OwnText
<1>1. IInv => OwnText
  BY DEF IInv
<1> QED
  BY <1>1, Invariance, PTL

\* Between two resets rs_get_audio_output hands out one sound at most.
THEOREM OneSound == Spec => []SoundOnce
<1>1. IInv => SoundOnce
  BY DEF IInv
<1> QED
  BY <1>1, Invariance, PTL

\* A synthesis of the Python class or of rs-tts-split that raises no error returns
\* the sound of its own text.
THEOREM SoundIsOfRequest == Spec => []SoundOfRequest
<1>1. IInv => SoundOfRequest
  BY DEF IInv
<1> QED
  BY <1>1, Invariance, PTL

-----------------------------------------------------------------------------
(* The texts a caller hears.                                               *)

\* Some of the texts are some of more texts.
LEMMA SomeOfMore ==
    ASSUME NEW S, NEW s \in Seq(S), NEW t \in Seq(S), NEW more \in Seq(S), SomeOf(s, t)
    PROVE  SomeOf(s, t \o more)
<1>1. PICK at \in [DOMAIN s -> DOMAIN t] :
          /\ \A i, j \in DOMAIN s : i < j => at[i] < at[j]
          /\ \A i \in DOMAIN s : s[i] = t[at[i]]
  BY DEF SomeOf
<1>2. PICK c : c = t \o more
  OBVIOUS
<1>3. /\ c \in Seq(S) /\ Len(c) = Len(t) + Len(more) /\ Len(t) \in Nat /\ Len(more) \in Nat
      /\ \A n \in 1 .. Len(t) : c[n] = t[n]
  BY <1>2, ConcatIs
<1>4. DOMAIN t = 1 .. Len(t) /\ DOMAIN c = 1 .. Len(c)
  BY <1>3
<1>5. at \in [DOMAIN s -> DOMAIN c]
  BY <1>1, <1>3, <1>4
<1>6. \A i \in DOMAIN s : s[i] = c[at[i]]
  BY <1>1, <1>3, <1>4
<1> QED
  BY <1>1, <1>2, <1>5, <1>6, Zenon DEF SomeOf

\* What follows all of them may follow some of them.
LEMMA SomeOfBoth ==
    ASSUME NEW S, NEW s \in Seq(S), NEW t \in Seq(S), NEW more \in Seq(S), SomeOf(s, t)
    PROVE  SomeOf(s \o more, t \o more)
<1>1. PICK at \in [DOMAIN s -> DOMAIN t] :
          /\ \A i, j \in DOMAIN s : i < j => at[i] < at[j]
          /\ \A i \in DOMAIN s : s[i] = t[at[i]]
  BY DEF SomeOf
<1>2. PICK a, c : a = s \o more /\ c = t \o more
  OBVIOUS
<1>3. PICK ns \in Nat, nt \in Nat, nm \in Nat : ns = Len(s) /\ nt = Len(t) /\ nm = Len(more)
  OBVIOUS
<1>4. /\ a \in Seq(S) /\ Len(a) = ns + nm /\ \A n \in 1 .. ns : a[n] = s[n]
      /\ \A n \in 1 .. nm : a[ns + n] = more[n]
  BY <1>2, <1>3, ConcatIs
<1>5. /\ c \in Seq(S) /\ Len(c) = nt + nm /\ \A n \in 1 .. nt : c[n] = t[n]
      /\ \A n \in 1 .. nm : c[nt + n] = more[n]
  BY <1>2, <1>3, ConcatIs
<1>6. /\ DOMAIN s = 1 .. ns /\ DOMAIN t = 1 .. nt
      /\ DOMAIN a = 1 .. ns + nm /\ DOMAIN c = 1 .. nt + nm
  BY <1>3, <1>4, <1>5
<1>7. \A i \in 1 .. ns : at[i] \in 1 .. nt
  BY <1>1, <1>6
<1> DEFINE both == [i \in 1 .. ns + nm |-> IF i <= ns THEN at[i] ELSE nt + (i - ns)]
<1>8. \A i \in 1 .. ns + nm : both[i] = IF i <= ns THEN at[i] ELSE nt + (i - ns)
  OBVIOUS
<1>9. \A i \in 1 .. ns + nm : both[i] \in 1 .. nt + nm
  BY <1>7, <1>8
<1>10. both \in [1 .. ns + nm -> 1 .. nt + nm]
  BY <1>9
<1> HIDE DEF both
<1>11. ASSUME NEW i \in 1 .. ns + nm, NEW j \in 1 .. ns + nm, i < j
       PROVE  both[i] < both[j]
  <2>1. CASE j <= ns
    <3>1. i \in 1 .. ns /\ j \in 1 .. ns /\ both[i] = at[i] /\ both[j] = at[j]
      BY <1>8, <1>11, <2>1
    <3> QED
      BY <1>1, <1>6, <1>11, <3>1, Zenon
  <2>2. CASE i <= ns /\ j > ns
    BY <1>7, <1>8, <2>2
  <2>3. CASE i > ns
    BY <1>8, <1>11, <2>3
  <2> QED
    BY <1>11, <2>1, <2>2, <2>3
<1>12. ASSUME NEW i \in 1 .. ns + nm
       PROVE  a[i] = c[both[i]]
  <2>1. CASE i <= ns
    <3>1. i \in 1 .. ns /\ both[i] = at[i] /\ at[i] \in 1 .. nt
      BY <1>7, <1>8, <2>1
    <3>2. a[i] = s[i] /\ s[i] = t[at[i]] /\ c[at[i]] = t[at[i]]
      BY <1>1, <1>4, <1>5, <1>6, <3>1
    <3> QED
      BY <3>1, <3>2
  <2>2. CASE i > ns
    <3>1. PICK n \in 1 .. nm : i = ns + n
      <4>1. i - ns \in 1 .. nm /\ i = ns + (i - ns)
        BY <2>2
      <4> QED
        BY <4>1
    <3>2. both[i] = nt + n
      BY <1>8, <2>2, <3>1
    <3> QED
      BY <1>4, <1>5, <3>1, <3>2
  <2> QED
    BY <2>1, <2>2
<1>13. SomeOf(a, c)
  BY <1>6, <1>10, <1>11, <1>12, Zenon DEF SomeOf
<1> QED
  BY <1>2, <1>13

\* Nothing is some of anything.
LEMMA SomeOfNone == SomeOf(<<>>, <<>>)
<1>1. DOMAIN <<>> = {}
  OBVIOUS
<1>2. <<>> \in [DOMAIN <<>> -> DOMAIN <<>>]
  OBVIOUS
<1> QED
  BY <1>1, <1>2 DEF SomeOf

\* The texts t of the state are the last of the texts ps decoded; of those before,
\* h have been heard, and by a model without a language model all of them.
ReadSoFar(k, t, ps, h) ==
    \E read \in Seq(Texts) :
        ps = read \o t /\ SomeOf(h, read) /\ (k = "ctc" => h = read)

\* At first there are no texts.
LEMMA NothingRead == \A k : ReadSoFar(k, <<>>, <<>>, <<>>)
<1>1. <<>> \in Seq(Texts) /\ <<>> = <<>> \o <<>>
  OBVIOUS
<1> QED
  BY <1>1, SomeOfNone, Zenon DEF ReadSoFar

\* What a decoding may do to the texts t: it adds one, which with a language model
\* of its own replaces the others, or none, and may throw away those there are.
Decoding(k, t, after, text, added) ==
    \/ added = <<>> /\ (after = t \/ (after = <<>> /\ k # "ctc"))
    \/ added = <<text>> /\ after = (IF k = "llm" THEN <<text>> ELSE Append(t, text))

\* What has been heard stays some of what has been decoded.
LEMMA DecodingRead ==
    ASSUME NEW k, NEW t \in Seq(Texts), NEW after, NEW text \in Texts, NEW added,
           Decoding(k, t, after, text, added),
           NEW ps \in Seq(Texts), NEW h \in Seq(Texts), ReadSoFar(k, t, ps, h)
    PROVE  ReadSoFar(k, after, ps \o added, h) /\ ps \o added \in Seq(Texts)
<1>1. PICK read \in Seq(Texts) : ps = read \o t /\ SomeOf(h, read) /\ (k = "ctc" => h = read)
  BY DEF ReadSoFar
<1>2. read \o t \in Seq(Texts) /\ SomeOf(h, read \o t)
  <2>1. read \o t \in Seq(Texts)
    OBVIOUS
  <2> QED
    BY <1>1, <2>1, SomeOfMore, Zenon
<1>3. ps \o <<>> = ps /\ <<text>> \in Seq(Texts) /\ ps \o <<text>> \in Seq(Texts)
  OBVIOUS
<1>4. CASE added = <<>> /\ after = t
  BY <1>3, <1>4
<1>5. CASE added = <<>> /\ after = <<>> /\ k # "ctc"
  <2>1. ps = ps \o <<>>
    BY <1>3
  <2>2. ReadSoFar(k, <<>>, ps, h)
    BY <1>1, <1>2, <1>5, <2>1, Zenon DEF ReadSoFar
  <2> QED
    BY <1>3, <1>5, <2>2
<1>6. CASE added = <<text>> /\ k = "llm" /\ after = <<text>>
  <2>1. ReadSoFar(k, <<text>>, ps \o <<text>>, h)
    <3>1. k # "ctc"
      BY <1>6
    <3> QED
      BY <1>1, <1>2, <3>1, Zenon DEF ReadSoFar
  <2> QED
    BY <1>3, <1>6, <2>1
<1>7. CASE added = <<text>> /\ after = Append(t, text)
  <2>1. ps \o <<text>> = read \o Append(t, text)
    <3>1. Append(t, text) = t \o <<text>>
      BY AppendConcat
    <3>2. (read \o t) \o <<text>> = read \o (t \o <<text>>)
      BY <1>3, Concat3
    <3> QED
      BY <1>1, <3>1, <3>2
  <2>2. ReadSoFar(k, Append(t, text), ps \o <<text>>, h)
    BY <1>1, <2>1, Zenon DEF ReadSoFar
  <2> QED
    BY <1>3, <1>7, <2>2
<1> QED
  BY <1>4, <1>5, <1>6, <1>7 DEF Decoding

\* All texts are read.
LEMMA AllRead ==
    ASSUME NEW k, NEW t \in Seq(Texts), NEW ps \in Seq(Texts), NEW h \in Seq(Texts),
           ReadSoFar(k, t, ps, h)
    PROVE  ReadSoFar(k, <<>>, ps, h \o t) /\ h \o t \in Seq(Texts)
<1>1. PICK read \in Seq(Texts) : ps = read \o t /\ SomeOf(h, read) /\ (k = "ctc" => h = read)
  BY DEF ReadSoFar
<1>2. SomeOf(h \o t, read \o t)
  BY <1>1, SomeOfBoth, Zenon
<1>3. ps = ps \o <<>> /\ h \o t \in Seq(Texts)
  OBVIOUS
<1>4. k = "ctc" => h \o t = ps
  BY <1>1
<1> QED
  BY <1>1, <1>2, <1>3, <1>4, Zenon DEF ReadSoFar

\* The end of a sequence, as the property says it.
LEMMA EndIsSuffix ==
    ASSUME NEW S, NEW read \in Seq(S), NEW t \in Seq(S)
    PROVE  /\ IsSuffix(t, read \o t)
           /\ SubSeq(read \o t, 1, Len(read \o t) - Len(t)) = read
<1>1. PICK c : c = read \o t
  OBVIOUS
<1>2. PICK nr \in Nat, nt \in Nat : nr = Len(read) /\ nt = Len(t)
  OBVIOUS
<1>3. /\ c \in Seq(S) /\ Len(c) = nr + nt /\ \A n \in 1 .. nr : c[n] = read[n]
      /\ \A n \in 1 .. nt : c[nr + n] = t[n]
  BY <1>1, <1>2, ConcatIs
<1>4. Reverse(t) = [i \in 1 .. nt |-> t[(nt - i) + 1]]
  BY <1>2 DEF Reverse
<1>5. Reverse(c) = [i \in 1 .. nr + nt |-> c[(nr + nt - i) + 1]]
  BY <1>3 DEF Reverse
<1>6. ASSUME NEW i \in 1 .. nt
      PROVE  c[(nr + nt - i) + 1] = t[(nt - i) + 1]
  <2>1. (nt - i) + 1 \in 1 .. nt /\ (nr + nt - i) + 1 = nr + ((nt - i) + 1)
    OBVIOUS
  <2> QED
    BY <1>3, <2>1
<1>7. IsPrefix(Reverse(t), Reverse(c))
  <2>1. PICK a, b : a = Reverse(t) /\ b = Reverse(c)
    OBVIOUS
  <2>2. /\ a \in Seq(S) /\ Len(a) = nt /\ b \in Seq(S) /\ Len(b) = nr + nt
    <3>1. \A i \in 1 .. nt : t[(nt - i) + 1] \in S
      BY <1>2
    <3>2. \A i \in 1 .. nr + nt : c[(nr + nt - i) + 1] \in S
      BY <1>3
    <3> QED
      BY <1>4, <1>5, <2>1, <3>1, <3>2
  <2>3. \A i \in 1 .. nt : a[i] = b[i]
    BY <1>4, <1>5, <1>6, <2>1
  <2>4. SubSeq(a, 1, nt) = SubSeq(b, 1, nt)
    BY <2>2, <2>3
  <2> QED
    BY <2>1, <2>2, <2>4 DEF IsPrefix
<1>8. SubSeq(c, 1, nr) = read
  BY <1>2, <1>3
<1>9. Len(c) - Len(t) = nr
  BY <1>2, <1>3
<1> QED
  BY <1>1, <1>7, <1>8, <1>9 DEF IsSuffix
-----------------------------------------------------------------------------
(* The audio of the texts.                                                 *)

\* Blocks pushed among the first n, and before others.
Past(s, n) == \A a \in ToSet(s) : a <= n
Earlier(s, t) == \A a \in ToSet(s), b \in ToSet(t) : a < b
Before(s, t) == s = t \/ Earlier(s, t)

\* The audio of the texts ps, that of the last encoding and that in the buffer
\* have been pushed in this order.
InOrder(ps, encoded, buffer, n) ==
    /\ Past(encoded, n) /\ Past(buffer, n) /\ Earlier(encoded, buffer)
    /\ \A i \in DOMAIN ps : /\ Past(ps[i].of, n)
                            /\ Earlier(ps[i].of, buffer)
                            /\ Before(ps[i].of, encoded)
    /\ \A i, j \in DOMAIN ps : i < j => Before(ps[i].of, ps[j].of)

\* At first there is none.
LEMMA NoAudio == \A n : InOrder(<<>>, <<>>, <<>>, n)
<1>1. ToSet(<<>>) = {} /\ DOMAIN <<>> = {}
  BY DEF ToSet
<1> QED
  BY <1>1, Zenon DEF InOrder, Past, Earlier, Before

\* What is pushed comes after what was.
LEMMA PushedLater ==
    ASSUME NEW s, NEW n \in Nat, NEW k \in Nat, ToSet(s) \subseteq Nat, Past(s, n),
           NEW new, new \in Seq(Nat), \A b \in ToSet(new) : n < b /\ b <= n + k
    PROVE  Past(s, n + k) /\ Earlier(s, new) /\ Past(new, n + k)
<1>1. \A a \in ToSet(s) : a \in Nat /\ a <= n
  BY DEF Past
<1>2. \A b \in ToSet(new) : b \in Nat /\ n < b /\ b <= n + k
  BY ToSetIs
<1> QED
  BY <1>1, <1>2 DEF Past, Earlier

\* And goes into the buffer.
LEMMA PushInOrder ==
    ASSUME NEW ps \in Seq(Texts), NEW encoded \in Seq(Nat), NEW buffer \in Seq(Nat),
           NEW n \in Nat, NEW k \in Nat, InOrder(ps, encoded, buffer, n),
           NEW new \in Seq(Nat), \A b \in ToSet(new) : n < b /\ b <= n + k
    PROVE  InOrder(ps, encoded, buffer \o new, n + k)
<1>1. ToSet(buffer \o new) = ToSet(buffer) \cup ToSet(new)
  BY ToSetConcat
<1>2. \A s \in Seq(Nat) : Past(s, n) => Past(s, n + k) /\ Earlier(s, new) /\ Past(new, n + k)
  <2>1. \A s \in Seq(Nat) : ToSet(s) \subseteq Nat
    BY ToSetIs
  <2> QED
    BY <2>1, PushedLater
<1>3. Past(buffer \o new, n + k)
  <2>1. Past(buffer, n + k) /\ Past(new, n + k)
    BY <1>2, Zenon DEF InOrder
  <2> QED
    BY <1>1, <2>1, Zenon DEF Past
<1>4. \A s \in Seq(Nat) : Past(s, n) /\ Earlier(s, buffer) => Earlier(s, buffer \o new)
  <2> SUFFICES ASSUME NEW s \in Seq(Nat), Past(s, n), Earlier(s, buffer)
               PROVE  Earlier(s, buffer \o new)
    OBVIOUS
  <2>1. Earlier(s, new)
    BY <1>2
  <2> QED
    BY <1>1, <2>1, Zenon DEF Earlier
<1>5. \A i \in DOMAIN ps : ps[i].of \in Seq(Nat)
  <2>1. \A i \in DOMAIN ps : ps[i] \in Texts
    OBVIOUS
  <2> QED
    BY <2>1 DEF Texts
<1> QED
  BY <1>2, <1>3, <1>4, <1>5, Zenon DEF InOrder

\* The encoder takes the buffer, and fails or not.
LEMMA EncodeInOrder ==
    ASSUME NEW ps, NEW encoded, NEW buffer, NEW n, InOrder(ps, encoded, buffer, n)
    PROVE  InOrder(ps, buffer, <<>>, n) /\ InOrder(ps, encoded, <<>>, n)
<1>1. ToSet(<<>>) = {}
  BY DEF ToSet
<1> QED
  BY <1>1, Zenon DEF InOrder, Past, Earlier, Before

\* A text of the last encoding is decoded, or none.
LEMMA DecodeInOrder ==
    ASSUME NEW ps \in Seq(Texts), NEW encoded, NEW buffer, NEW n, InOrder(ps, encoded, buffer, n),
           NEW text \in Texts, text.of = encoded, NEW added, added = <<>> \/ added = <<text>>
    PROVE  InOrder(ps \o added, encoded, buffer, n)
<1>1. CASE added = <<>>
  <2>1. ps \o <<>> = ps
    OBVIOUS
  <2> QED
    BY <1>1, <2>1
<1>2. CASE added = <<text>>
  <2>0. Len(ps) \in Nat
    OBVIOUS
  <2>1m. PICK m \in Nat : m = Len(ps)
    BY <2>0
  <2>1c. PICK c : c = Append(ps, text)
    OBVIOUS
  <2>2. /\ c \in Seq(Texts) /\ Len(c) = m + 1 /\ c[m + 1] = text
        /\ \A i \in 1 .. m : c[i] = ps[i]
    BY <2>1m, <2>1c, AppendIs
  <2>3. DOMAIN ps = 1 .. m /\ DOMAIN c = 1 .. m + 1
    BY <2>1m, <2>1c, <2>2
  <2>4. \A i \in 1 .. m + 1 : i \in 1 .. m \/ i = m + 1
    OBVIOUS
  <2>5. \A i \in DOMAIN c :
           Past(c[i].of, n) /\ Earlier(c[i].of, buffer) /\ Before(c[i].of, encoded)
    BY <2>2, <2>3, <2>4, Zenon DEF InOrder, Before
  <2>6. ASSUME NEW i \in DOMAIN c, NEW j \in DOMAIN c, i < j
        PROVE  Before(c[i].of, c[j].of)
    <3>1. i \in 1 .. m
      BY <2>3, <2>6
    <3>2. CASE j \in 1 .. m
      BY <2>2, <2>3, <2>6, <3>1, <3>2, Zenon DEF InOrder
    <3>3. CASE j = m + 1
      BY <2>2, <2>3, <3>1, <3>3, Zenon DEF InOrder
    <3> QED
      BY <2>3, <2>4, <3>2, <3>3, Zenon
  <2>7. InOrder(c, encoded, buffer, n)
    BY <2>5, <2>6, Zenon DEF InOrder
  <2>8. Append(ps, text) = ps \o <<text>>
    BY AppendConcat
  <2> QED
    BY <1>2, <2>1c, <2>7, <2>8
<1> QED
  BY <1>1, <1>2

-----------------------------------------------------------------------------
(* What a caller heard, call by call.                                      *)

HearInv ==
    /\ passes \in Seq(Texts) /\ heard \in Seq(Texts)
    /\ ReadSoFar(kind, p.state.tokens, passes, heard)
    /\ program # "any" \/ kind = "tts" => passes = <<>> /\ heard = <<>>
    /\ program = "any" => InOrder(passes, p.state.encoder_out, p.audio_buffer, blocks)

\* Recognition is as it was.
SameTexts(q, r) ==
    /\ r.state.tokens = q.state.tokens /\ r.state.encoder_out = q.state.encoder_out
    /\ r.audio_buffer = q.audio_buffer

\* The methods that leave it.
LEMMA NotHeard ==
    ASSUME NEW q \in Processors, NEW k, NEW on \in BOOLEAN, NEW n \in Nat, NEW out
    PROVE  /\ SameTexts(q, SetUseLLM(q, k, on)) /\ SameTexts(q, SetCTCPrecheck(q, k, on))
           /\ SameTexts(q, PushText(q, n)) /\ SameTexts(q, PushReference(q, n))
           /\ SameTexts(q, ProcessTTS(q, out)) /\ SameTexts(q, GetAudioOutput(q))
<1>1. SameTexts(q, SetUseLLM(q, k, on)) /\ SameTexts(q, SetCTCPrecheck(q, k, on))
  BY SwitchesDo DEF SameTexts
<1>2. SameTexts(q, PushText(q, n)) /\ SameTexts(q, PushReference(q, n))
  BY DEF PushText, PushReference, SameTexts, Processors, States
<1>3. SameTexts(q, GetAudioOutput(q))
  BY DEF GetAudioOutput, SameTexts, Processors
<1>4. SameTexts(q, ProcessTTS(q, out))
  <2> DEFINE encoded == IF q.tts_encoded \/ ~EncodesText(q, out) THEN q
                        ELSE [q EXCEPT !.tts_encoded = TRUE,
                                       !.state.codes = <<q.state.text, q.state.ref>>]
  <2>1. SameTexts(q, encoded) /\ encoded \in Processors
    <3>1. <<q.state.text, q.state.ref>> \in Sounds
      BY DEF Processors, States, Sounds
    <3> QED
      BY <3>1 DEF SameTexts, Processors, States
  <2>2. ProcessTTS(q, out) =
            IF ~DecodesText(q, out) THEN encoded
            ELSE [encoded EXCEPT !.tts_decoded = TRUE,
                                 !.tts_audio = IF out = "decode_fails" THEN @
                                               ELSE <<encoded.state.codes>>]
    BY DEF ProcessTTS
  <2> HIDE DEF encoded
  <2> QED
    BY <2>1, <2>2 DEF SameTexts, Processors
<1> QED
  BY <1>1, <1>2, <1>3, <1>4

\* A decoding changes the texts only, and those as Decoding says.
LEMMA DecodeAdds ==
    ASSUME NEW q \in Processors, NEW k, NEW out
    PROVE  /\ Decode(q, k, out).state.encoder_out = q.state.encoder_out
           /\ Decode(q, k, out).audio_buffer = q.audio_buffer
           /\ Decoding(k, q.state.tokens, Decode(q, k, out).state.tokens,
                       [of |-> q.state.encoder_out, llm |-> ByLLM(q, k)],
                       IF Decodes(q, out) /\ out = "speech"
                       THEN <<[of |-> q.state.encoder_out, llm |-> ByLLM(q, k)]>> ELSE <<>>)
<1> DEFINE text == [of |-> q.state.encoder_out, llm |-> ByLLM(q, k)]
           t == Tokens(q, k, out)
           added == IF Decodes(q, out) /\ out = "speech" THEN <<text>> ELSE <<>>
<1>1. CASE ~Decodes(q, out)
  BY <1>1 DEF Decode, Decoding
<1>2. CASE Decodes(q, out)
  <2>1. Decode(q, k, out) = [q EXCEPT !.state.tokens = t]
    BY <1>2 DEF Decode
  <2>2. IF out = "silent"
        THEN t = q.state.tokens \/ (t = <<>> /\ ByLLM(q, k) /\ (k = "llm" \/ q.ctc_precheck))
        ELSE t = IF k = "llm" THEN <<text>> ELSE Append(q.state.tokens, text)
    BY DEF Tokens
  <2>3. ByLLM(q, k) => k # "ctc"
    BY DEF ByLLM
  <2>4. out \in {"silent", "speech"}
    BY <1>2 DEF Decodes
  <2> HIDE DEF t, text
  <2>5. Decoding(k, q.state.tokens, t, text, added)
    <3>1. CASE out = "silent"
      <4>1. added = <<>>
        BY <3>1
      <4> QED
        BY <2>2, <2>3, <3>1, <4>1 DEF Decoding
    <3>2. CASE out = "speech"
      <4>1. added = <<text>>
        BY <1>2, <3>2
      <4> QED
        BY <2>2, <3>2, <4>1 DEF Decoding
    <3> QED
      BY <2>4, <3>1, <3>2
  <2>6. /\ [q EXCEPT !.state.tokens = t].state.tokens = t
        /\ [q EXCEPT !.state.tokens = t].state.encoder_out = q.state.encoder_out
        /\ [q EXCEPT !.state.tokens = t].audio_buffer = q.audio_buffer
    BY DEF Processors, States
  <2> QED
    BY <2>1, <2>5, <2>6 DEF text
<1> QED
  BY <1>1, <1>2

\* A call that changes nothing of this.
LEMMA SameTextsKeep ==
    ASSUME HearInv, SameTexts(p, p'), UNCHANGED <<program, kind, blocks, passes, heard>>
    PROVE  HearInv'
BY DEF HearInv, SameTexts

\* Where no text was decoded there is none.
LEMMA NoTexts ==
    ASSUME NEW k, NEW t \in Seq(Texts), NEW h, ReadSoFar(k, t, <<>>, h)
    PROVE  t = <<>>
<1>1. PICK read \in Seq(Texts) : <<>> = read \o t
  BY DEF ReadSoFar
<1> QED
  BY <1>1

\* A decoding of the state r, in a call of a program that may make any.
LEMMA DecodingKeeps ==
    ASSUME HearInv, p \in Processors, program = "any", kind # "tts",
           NEW r \in Processors, r.state.tokens = p.state.tokens,
           InOrder(passes, r.state.encoder_out, r.audio_buffer, blocks),
           NEW out, p' = Decode(r, kind, out),
           NEW added, UNCHANGED <<program, kind, blocks, heard>>, passes' = passes \o added,
           added = IF Decodes(r, out) /\ out = "speech"
                   THEN <<[of |-> r.state.encoder_out, llm |-> ByLLM(r, kind)]>> ELSE <<>>
    PROVE  HearInv'
<1>1. PICK text : text = [of |-> r.state.encoder_out, llm |-> ByLLM(r, kind)]
  OBVIOUS
<1>2. text \in Texts /\ text.of = r.state.encoder_out
  BY <1>1, TextTyped
<1>3. /\ p'.state.encoder_out = r.state.encoder_out /\ p'.audio_buffer = r.audio_buffer
      /\ Decoding(kind, r.state.tokens, p'.state.tokens, text, added)
  BY <1>1, DecodeAdds
<1>4. p.state.tokens \in Seq(Texts)
  BY TextTyped
<1>5. /\ passes \in Seq(Texts) /\ heard \in Seq(Texts)
      /\ ReadSoFar(kind, p.state.tokens, passes, heard)
  BY DEF HearInv
<1>6. ReadSoFar(kind, p'.state.tokens, passes \o added, heard) /\ passes \o added \in Seq(Texts)
  BY <1>2, <1>3, <1>4, <1>5, DecodingRead
<1>7. InOrder(passes \o added, r.state.encoder_out, r.audio_buffer, blocks)
  <2>1. added = <<>> \/ added = <<text>>
    BY <1>1
  <2> QED
    BY <1>2, <1>5, <2>1, DecodeInOrder
<1> QED
  BY <1>3, <1>5, <1>6, <1>7 DEF HearInv

\* A pass over audio decodes what the encoder has made of the buffer.
LEMMA ProcessKeeps ==
    ASSUME HearInv, p \in Processors, NEW out \in Outcomes, rs_process(out)
    PROVE  HearInv'
<1>1. /\ program = "any" /\ kind # "tts" /\ p' = Process(p, kind, out)
      /\ passes' = passes \o Passes(p, p', ProcessReturns(p, out) = 1, out)
      /\ UNCHANGED <<program, kind, blocks, heard>>
  BY DEF rs_process, Quiet, config
<1>2. passes \in Seq(Texts) /\ InOrder(passes, p.state.encoder_out, p.audio_buffer, blocks)
  BY <1>1 DEF HearInv
<1>3. passes \o <<>> = passes
  BY <1>2
<1>4. CASE ~Ready(p)
  <2>1. p' = p /\ ProcessReturns(p, out) # 1
    BY <1>1, <1>4 DEF Process, ProcessReturns
  <2>2. passes' = passes
    BY <1>1, <1>3, <2>1 DEF Passes
  <2> QED
    BY <1>1, <2>1, <2>2, SameTextsKeep DEF SameTexts
<1>5. PICK e : e = Encoded(p, out)
  OBVIOUS
<1>6. /\ e \in Processors /\ e.state.tokens = p.state.tokens /\ e.use_llm = p.use_llm
      /\ e.state.encoder_out = (IF out = "encode_fails" THEN p.state.encoder_out
                                ELSE p.audio_buffer)
      /\ e.audio_buffer = <<>>
  <2>1. Encoded(p, out).audio_buffer = <<>>
    BY DEF Encoded, Processors
  <2> QED
    BY <1>5, <2>1, EncodedDoes
<1>7. InOrder(passes, e.state.encoder_out, e.audio_buffer, blocks)
  BY <1>2, <1>6, EncodeInOrder
<1>8. CASE Ready(p) /\ out = "encode_fails"
  <2>1. p' = e /\ ProcessReturns(p, out) # 1
    BY <1>1, <1>5, <1>8 DEF Process, ProcessReturns
  <2>2. passes' = passes
    BY <1>1, <1>3, <2>1 DEF Passes
  <2> QED
    BY <1>1, <1>6, <1>7, <2>1, <2>2 DEF HearInv
<1>9. CASE Ready(p) /\ out # "encode_fails"
  <2>1. p' = Decode(e, kind, out) /\ (ProcessReturns(p, out) = 1) = (out # "decode_fails")
    BY <1>1, <1>5, <1>9 DEF Process, ProcessReturns
  <2>2. p'.state.encoder_out = e.state.encoder_out /\ ByLLM(e, kind) = ByLLM(p, kind)
    <3>1. ByLLM(e, kind) = ByLLM(p, kind)
      BY <1>6 DEF ByLLM
    <3>2. Decode(e, kind, out).state.encoder_out = e.state.encoder_out
      <4>1. e \in Processors
        BY <1>6
      <4> QED
        BY <4>1, DecodeAdds, Zenon
    <3> QED
      BY <2>1, <3>1, <3>2
  <2>3. e.state.encoder_out # <<>>
    <3>1. Len(p.audio_buffer) >= Chunk /\ Chunk \in Nat \ {0}
      BY <1>9, SessionAssumption DEF Ready
    <3>2. p.audio_buffer # <<>>
      BY <3>1
    <3> QED
      BY <1>6, <1>9, <3>2
  <2>4. Passes(p, p', ProcessReturns(p, out) = 1, out) =
            IF Decodes(e, out) /\ out = "speech"
            THEN <<[of |-> e.state.encoder_out, llm |-> ByLLM(e, kind)]>> ELSE <<>>
    BY <2>1, <2>2, <2>3 DEF Passes, Decodes
  <2> QED
    BY <1>1, <1>6, <1>7, <2>1, <2>4, DecodingKeeps
<1> QED
  BY <1>4, <1>8, <1>9

\* A second pass decodes the encoder output again, if the model has one.
LEMMA RedecodeKeeps ==
    ASSUME HearInv, p \in Processors, NEW out \in Outcomes, rs_redecode(out)
    PROVE  HearInv'
<1>1. /\ program = "any" /\ p' = DecodeOnly(p, kind, out)
      /\ passes' = passes \o Passes(p, p', DecodeOnlyReturns(p, kind, out) = 1, out)
      /\ UNCHANGED <<program, kind, blocks, heard>>
  BY DEF rs_redecode, Quiet, config
<1>2. passes \in Seq(Texts) /\ InOrder(passes, p.state.encoder_out, p.audio_buffer, blocks)
  BY <1>1 DEF HearInv
<1>3. CASE kind # "twopass"
  <2>1. p' = p /\ DecodeOnlyReturns(p, kind, out) # 1 /\ passes \o <<>> = passes
    BY <1>1, <1>2, <1>3 DEF DecodeOnly, DecodeOnlyReturns
  <2>2. passes' = passes
    BY <1>1, <2>1 DEF Passes
  <2> QED
    BY <1>1, <2>1, <2>2, SameTextsKeep DEF SameTexts
<1>4. CASE kind = "twopass"
  <2>1. p' = Decode(p, kind, out) /\ (DecodeOnlyReturns(p, kind, out) = 1) = Decodes(p, out)
    BY <1>1, <1>4 DEF DecodeOnly, DecodeOnlyReturns, Decodes
  <2>2. p'.state.encoder_out = p.state.encoder_out
    BY <2>1, DecodeAdds
  <2>3. Passes(p, p', DecodeOnlyReturns(p, kind, out) = 1, out) =
            IF Decodes(p, out) /\ out = "speech"
            THEN <<[of |-> p.state.encoder_out, llm |-> ByLLM(p, kind)]>> ELSE <<>>
    BY <2>1, <2>2 DEF Passes
  <2> QED
    BY <1>1, <1>2, <1>4, <2>1, <2>3, DecodingKeeps
<1> QED
  BY <1>3, <1>4

\* The calls of a program that may make any.
LEMMA CallsHeard ==
    ASSUME HearInv, Typed, Calls
    PROVE  HearInv'
<1>1. p \in Processors /\ blocks \in Nat /\ requests \in Nat /\ refs \in Nat
  BY DEF Typed
<1>2. /\ passes \in Seq(Texts) /\ heard \in Seq(Texts) /\ p.state.tokens \in Seq(Texts)
      /\ p.state.encoder_out \in Seq(Nat) /\ p.audio_buffer \in Seq(Nat)
      /\ ReadSoFar(kind, p.state.tokens, passes, heard)
  BY <1>1 DEF HearInv, Processors, States
<1>3. ASSUME NEW n \in Pieces, rs_push_audio(n)
      PROVE  HearInv'
  <2>1. /\ program = "any" /\ p' = PushAudio(p, NextBlocks(n)) /\ blocks' = blocks + n
        /\ UNCHANGED <<program, kind, passes, heard>>
    BY <1>3 DEF rs_push_audio, Push, Quiet, config, log
  <2>2. n \in Nat
    BY SessionAssumption
  <2>3. /\ NextBlocks(n) \in Seq(Nat)
        /\ \A b \in ToSet(NextBlocks(n)) : blocks < b /\ b <= blocks + n
    <3>1. NextBlocks(n) \in Seq(Nat) /\ Len(NextBlocks(n)) = n
      BY <1>1, <2>2 DEF NextBlocks
    <3>2. ToSet(NextBlocks(n)) = {NextBlocks(n)[i] : i \in 1 .. n}
      BY <3>1, ToSetIs
    <3>3. \A i \in 1 .. n : blocks < NextBlocks(n)[i] /\ NextBlocks(n)[i] <= blocks + n
      BY <1>1, <2>2 DEF NextBlocks
    <3> QED
      BY <3>1, <3>2, <3>3
  <2>4. InOrder(passes, p.state.encoder_out, p.audio_buffer \o NextBlocks(n), blocks + n)
    <3>1. InOrder(passes, p.state.encoder_out, p.audio_buffer, blocks)
      BY <2>1 DEF HearInv
    <3> QED
      BY <1>1, <1>2, <2>2, <2>3, <3>1, PushInOrder
  <2>5. p'.audio_buffer = p.audio_buffer \o NextBlocks(n) /\ p'.state = p.state
    BY <1>1, <2>1, <2>3, PushAudioDoes
  <2> QED
    BY <2>1, <2>4, <2>5 DEF HearInv
<1>4. CASE \E out \in Outcomes : rs_process(out) \/ rs_redecode(out)
  BY <1>1, <1>4, ProcessKeeps, RedecodeKeeps
<1>5. CASE rs_get_text_output
  <2>1. /\ program = "any" /\ p' = GetTextResult(p) /\ heard' = heard \o p.state.tokens
        /\ UNCHANGED <<program, kind, blocks, passes>>
    BY <1>5 DEF rs_get_text_output, TextResult, Quiet, config
  <2>2. /\ p'.state.tokens = <<>> /\ p'.state.encoder_out = p.state.encoder_out
        /\ p'.audio_buffer = p.audio_buffer
    <3>1. GetTextResult(p).audio_buffer = p.audio_buffer
      BY <1>1 DEF GetTextResult, Processors
    <3> QED
      BY <1>1, <2>1, <3>1, ReadsDo
  <2>3. /\ ReadSoFar(kind, <<>>, passes, heard \o p.state.tokens)
        /\ heard \o p.state.tokens \in Seq(Texts)
    BY <1>2, AllRead
  <2>4. kind = "tts" => passes = <<>> /\ heard \o p.state.tokens = <<>>
    <3>1. kind = "tts" => passes = <<>> /\ heard = <<>>
      BY DEF HearInv
    <3>2. passes = <<>> => p.state.tokens = <<>>
      BY <1>2, NoTexts
    <3> QED
      BY <3>1, <3>2
  <2> QED
    BY <1>2, <2>1, <2>2, <2>3, <2>4 DEF HearInv
<1>6. CASE rs_reset
  <2>1. /\ p' = Reset(p) /\ passes' = <<>> /\ heard' = <<>> /\ UNCHANGED <<program, kind, blocks>>
    BY <1>6 DEF rs_reset, Quiet, config
  <2>2. p'.state.tokens = <<>> /\ p'.state.encoder_out = <<>> /\ p'.audio_buffer = <<>>
    <3>1. NewState.tokens = <<>> /\ NewState.encoder_out = <<>>
      BY DEF NewState
    <3> QED
      BY <1>1, <2>1, <3>1, ResetDoes
  <2>3. passes' \in Seq(Texts) /\ heard' \in Seq(Texts)
    BY <2>1
  <2> QED
    BY <2>1, <2>2, <2>3, NothingRead, NoAudio DEF HearInv
<1>7. CASE rs_set_tts_params
  <2>1. /\ kind = "tts" /\ p' = SetTTSParams(p)
        /\ UNCHANGED <<program, kind, blocks, passes, heard>>
    BY <1>7 DEF rs_set_tts_params, Quiet, config, log
  <2>2. p'.state.tokens = <<>> /\ p'.state.encoder_out = <<>> /\ p'.audio_buffer = p.audio_buffer
    BY <1>1, <2>1 DEF SetTTSParams, NewState, Processors
  <2>3. passes = <<>> /\ heard = <<>>
    BY <2>1 DEF HearInv
  <2>4. program = "any" => InOrder(<<>>, <<>>, p.audio_buffer, blocks)
    <3>1. ToSet(<<>>) = {} /\ DOMAIN <<>> = {}
      BY DEF ToSet
    <3> QED
      BY <3>1, Zenon DEF HearInv, InOrder, Past, Earlier, Before
  <2> QED
    BY <1>2, <2>1, <2>2, <2>3, <2>4, NothingRead DEF HearInv
<1>8. ASSUME SameTexts(p, p'), UNCHANGED <<program, kind, blocks, passes, heard>>
      PROVE  HearInv'
  BY <1>8, SameTextsKeep
<1>9. ASSUME NEW on \in BOOLEAN, rs_set_use_llm(on) \/ rs_set_ctc_precheck(on)
      PROVE  HearInv'
  BY <1>1, <1>8, <1>9, NotHeard DEF rs_set_use_llm, rs_set_ctc_precheck, Quiet, config, log
<1>10. CASE rs_push_text \/ rs_push_reference
  <2>1. requests + 1 \in Nat /\ refs + 1 \in Nat
    BY <1>1
  <2> QED
    BY <1>1, <1>8, <1>10, <2>1, NotHeard
    DEF rs_push_text, rs_push_reference, PushReferenceVoice, Quiet, config, log
<1>11. CASE rs_get_audio_output
  BY <1>1, <1>8, <1>11, NotHeard DEF rs_get_audio_output, Quiet, config
<1>12. ASSUME NEW out \in Outcomes, rs_process_tts(out)
       PROVE  HearInv'
  BY <1>1, <1>8, <1>12, NotHeard DEF rs_process_tts, Quiet, config, log
<1> QED
  BY <1>3, <1>4, <1>5, <1>6, <1>7, <1>9, <1>10, <1>11, <1>12 DEF Calls

\* The other programs begin with a reset or end with one, and hand out no texts
\* of their own.
LEMMA ProgramsHeard ==
    ASSUME HearInv, program # "any", UNCHANGED <<program, kind, passes, heard>>,
           p'.state.tokens = <<>>
    PROVE  HearInv'
<1>1. passes = <<>> /\ heard = <<>> /\ passes \in Seq(Texts) /\ heard \in Seq(Texts)
  BY DEF HearInv
<1> QED
  BY <1>1, NothingRead DEF HearInv

\* A synthesis leaves the texts alone.
LEMMA SynthesizedHeard ==
    ASSUME NEW start \in Processors, start.state.tokens = <<>>, NEW text \in Nat, NEW out,
           Synthesized(start, text, out)
    PROVE  p'.state.tokens = <<>>
<1>1. PICK asked : asked = PushText(start, text)
  OBVIOUS
<1>2. asked \in Processors /\ asked.state.tokens = <<>>
  BY <1>1, NotHeard, PushesDo DEF SameTexts
<1>3. PICK after : after = ProcessTTS(asked, out)
  OBVIOUS
<1>4. after \in Processors /\ after.state.tokens = <<>>
  BY <1>2, <1>3, NotHeard, ProcessTTSDoes DEF SameTexts
<1>5. GetAudioOutput(after).state.tokens = <<>>
  BY <1>4, NotHeard DEF SameTexts
<1> QED
  BY <1>1, <1>3, <1>4, <1>5 DEF Synthesized

\* The worker and the synthesizers.
LEMMA OthersHeard ==
    ASSUME HearInv, Typed, Worker \/ Synthesis
    PROVE  HearInv'
<1>1. p \in Processors /\ blocks \in Nat /\ requests \in Nat /\ refs \in Nat
  BY DEF Typed
<1>2. \A q \in Processors : Reset(q) \in Processors /\ Reset(q).state.tokens = <<>>
  <2>1. NewState.tokens = <<>>
    BY DEF NewState
  <2> QED
    BY <2>1, ResetDoes
<1>3. ASSUME NEW n \in Pieces, NEW is_partial \in BOOLEAN, NEW out1, NEW out2,
             process_segment(n, is_partial, out1, out2)
      PROVE  HearInv'
  <2>1. PICK q : p' = Reset(q)
    BY <1>3 DEF process_segment
  <2>2. Reset(q).state.tokens = <<>>
    BY DEF Reset, NewState
  <2>3. program # "any" /\ UNCHANGED <<program, kind, passes, heard>>
    BY <1>3 DEF process_segment, config, log
  <2> QED
    BY <2>1, <2>2, <2>3, ProgramsHeard
<1>4. ASSUME NEW n \in Pieces, SegmentLost(n)
      PROVE  HearInv'
  BY <1>1, <1>2, <1>4, ProgramsHeard DEF SegmentLost, config, log
<1>5. ASSUME NEW out \in Outcomes, synthesize(out)
      PROVE  HearInv'
  <2>1. /\ program # "any" /\ UNCHANGED <<program, kind, passes, heard>>
        /\ Synthesized(Reset(p), requests + 1, out) /\ requests + 1 \in Nat
    BY <1>1, <1>5 DEF synthesize, config, log
  <2> QED
    BY <1>1, <1>2, <2>1, SynthesizedHeard, ProgramsHeard
<1>6. ASSUME NEW out \in Outcomes, synthesize_one(out)
      PROVE  HearInv'
  <2>1. /\ program # "any" /\ UNCHANGED <<program, kind, passes, heard>>
        /\ Synthesized(PushReference(Reset(p), refs'), requests + 1, out)
        /\ requests + 1 \in Nat /\ refs' \in Nat
    BY <1>1, <1>6 DEF synthesize_one, config, log
  <2>2. /\ PushReference(Reset(p), refs') \in Processors
        /\ PushReference(Reset(p), refs').state.tokens = <<>>
    <3>1. PICK q \in Processors : q = Reset(p) /\ q.state.tokens = <<>>
      BY <1>1, <1>2
    <3>2. PICK n \in Nat : n = refs'
      BY <2>1
    <3>3. PushReference(q, n) \in Processors
      BY PushesDo
    <3>4. PushReference(q, n).state.tokens = <<>>
      BY <3>1, NotHeard DEF SameTexts
    <3> QED
      BY <3>1, <3>2, <3>3, <3>4
  <2> QED
    BY <2>1, <2>2, SynthesizedHeard, ProgramsHeard
<1> QED
  BY <1>3, <1>4, <1>5, <1>6 DEF Worker, Synthesis

\* The invariant of the texts.
THEOREM HearInvariance == Spec => []HearInv
<1>1. Init => HearInv
  <2> SUFFICES ASSUME Init PROVE HearInv
    OBVIOUS
  <2>1. passes = <<>> /\ heard = <<>> /\ p.state = NewState /\ p.audio_buffer = <<>>
    <3>1. PICK on \in BOOLEAN : p = SetCTCPrecheck(NewProcessor, kind, on)
      BY DEF Init
    <3>2. SetCTCPrecheck(NewProcessor, kind, on).state = NewState
      BY NewTyped, SwitchesDo DEF NewProcessor
    <3>3. SetCTCPrecheck(NewProcessor, kind, on).audio_buffer = <<>>
      BY NewTyped, SwitchesDo DEF NewProcessor
    <3> QED
      BY <3>1, <3>2, <3>3 DEF Init
  <2>2. NewState.tokens = <<>> /\ NewState.encoder_out = <<>>
    BY DEF NewState
  <2>3. passes \in Seq(Texts) /\ heard \in Seq(Texts)
    BY <2>1
  <2> QED
    BY <2>1, <2>2, <2>3, NothingRead, NoAudio DEF HearInv
<1>2. HearInv /\ IInv /\ [Next]_vars => HearInv'
  <2> SUFFICES ASSUME HearInv, Typed, [Next]_vars PROVE HearInv'
    BY DEF IInv
  <2>1. CASE UNCHANGED vars
    BY <2>1 DEF vars, config, log, HearInv
  <2> QED
    BY <2>1, CallsHeard, OthersHeard DEF Next
<1> QED
  BY <1>1, <1>2, Invariance, PTL DEF Spec

\* Between two resets rs_get_text_output hands out each text at most once and in
\* the order of decoding, and without a language model all of them, whatever fails
\* in between; the audio of an encoding never gets into another: HeardOnce.
THEOREM TextsHeardOnce == Spec => []HeardOnce
<1>1. ASSUME HearInv, p \in Processors PROVE HeardOnce
  <2>1. p.state.tokens \in Seq(Texts) /\ passes \in Seq(Texts) /\ heard \in Seq(Texts)
    BY <1>1 DEF HearInv, Processors, States
  <2>2. PICK read \in Seq(Texts) : /\ passes = read \o p.state.tokens /\ SomeOf(heard, read)
                                   /\ (kind = "ctc" => heard = read)
    BY <1>1 DEF HearInv, ReadSoFar
  <2>3. /\ IsSuffix(p.state.tokens, passes)
        /\ SubSeq(passes, 1, Len(passes) - Len(p.state.tokens)) = read
    BY <2>1, <2>2, EndIsSuffix
  <2>4. \A i, j \in DOMAIN passes : i < j => Before(passes[i].of, passes[j].of)
    <3>1. CASE program = "any"
      BY <1>1, <3>1 DEF HearInv, InOrder
    <3>2. CASE program # "any"
      <4>1. DOMAIN passes = {}
        BY <1>1, <3>2 DEF HearInv
      <4> QED
        BY <4>1
    <3> QED
      BY <3>1, <3>2
  <2> QED
    BY <2>2, <2>3, <2>4, Zenon DEF HeardOnce, Before, Earlier
<1>2. IInv => p \in Processors
  BY DEF IInv, Typed
<1> QED
  BY <1>1, <1>2, Invariance, HearInvariance, PTL
=============================================================================
