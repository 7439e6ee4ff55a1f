--------------------------------- MODULE Kws ---------------------------------
(***************************************************************************)
(* RSKws: the keyword spotter.  The program pushes audio and polls; a poll *)
(* takes one window after the other out of the ring, as long as there is   *)
(* one and nothing fails, decodes it and reports what it finds, unless the *)
(* same phrase was reported a short time ago, by the clock on the wall.    *)
(* Audio is the sequence of its frames, time is counted in frames.         *)
(***************************************************************************)
EXTENDS KwsDecoder

CONSTANTS ListenedTo,   \* the keyword lists that are used once they are built
          Frames,       \* the frames [id, prob] a stream is made of
          Window, Hop,  \* window_samples_ and hop_samples_
          Debounce,     \* debounce_ms
          MaxFrames,    \* bounds of the model: frames pushed,
          MaxClock      \* and the time

ASSUME KwsAssumption ==
    /\ Window \in Nat \ {0} /\ Hop \in Nat \ {0}
    /\ Debounce \in Nat /\ MaxFrames \in Nat /\ MaxClock \in Nat
    /\ \A frame \in Frames : frame.id \in Nat

VARIABLES ring,
          consumed_samples_,
          last_hit_,    \* when a phrase was reported last
          polling,      \* inside Poll
          clock,        \* steady_clock
          stream,       \* all frames pushed since the reset
          windows,      \* windows decoded since the reset, in order: where each
                        \* began, when it was decoded and what was reported of it
          failed        \* whether a window has been dropped for lack of features

session == <<ring, consumed_samples_, last_hit_, stream, windows, failed>>
vars == <<graph, num_trailing_blanks, session, polling, clock>>

NoHits == [phrase \in {} |-> 0]

Init ==
    /\ GraphInit
    /\ num_trailing_blanks \in TrailingBlanks
    /\ ring = <<>> /\ consumed_samples_ = 0 /\ last_hit_ = NoHits
    /\ stream = <<>> /\ windows = <<>> /\ failed = FALSE
    /\ polling = FALSE
    /\ clock = 0

Listening == ready /\ keywords \in ListenedTo

ConstructGraph == Construct /\ UNCHANGED <<num_trailing_blanks, session, polling, clock>>

PushAudio(frame) ==
    /\ Listening /\ ~polling
    /\ Len(stream) < MaxFrames
    /\ ring' = Append(ring, frame)
    /\ stream' = Append(stream, frame)
    /\ UNCHANGED <<graph, num_trailing_blanks, consumed_samples_, last_hit_, windows, failed, polling, clock>>

Tick ==
    /\ Listening
    /\ clock < MaxClock
    /\ clock' = clock + 1
    /\ UNCHANGED <<graph, num_trailing_blanks, session, polling>>

PollBegins ==
    /\ Listening /\ ~polling /\ Len(ring) >= Window
    /\ polling' = TRUE
    /\ UNCHANGED <<graph, num_trailing_blanks, session, clock>>

\* The ring advances by a hop, or by what there is.
Advance ==
    LET n == IF Hop <= Len(ring) THEN Hop ELSE Len(ring)
    IN  /\ ring' = SubSeq(ring, n + 1, Len(ring))
        /\ consumed_samples_' = consumed_samples_ + n
More == polling' = (Len(ring') >= Window)

\* Mutant: a phrase is held back for the hops that begin in the debounce time only.
HeldBackHopLess(reported, phrase) ==
    phrase \in DOMAIN reported /\ clock - reported[phrase] < Debounce - Hop

\* Whether a phrase is held back, having been reported too short a time ago.
HeldBack(reported, phrase) ==
    phrase \in DOMAIN reported /\ clock - reported[phrase] < Debounce

\* The loop over the hits of a window: when a phrase was reported last after the
\* first i of them, and which of them are reported.
Report(hits) ==
    LET run[i \in 0 .. Len(hits)] ==
            IF i = 0 THEN [last |-> last_hit_, out |-> <<>>]
            ELSE LET phrase == hits[i].phrase
                     last == run[i - 1].last
                 IN  IF HeldBack(last, phrase) THEN run[i - 1]
                     ELSE [last |-> [x \in DOMAIN last \cup {phrase} |->
                                        IF x = phrase THEN clock ELSE last[x]],
                           out |-> Append(run[i - 1].out, hits[i])]
    IN  run[Len(hits)]

\* A window is decoded, its hits are reported, and the ring advances.
PollWindow ==
    /\ polling
    /\ LET report == Report(DecodeGreedy(SubSeq(ring, 1, Window)))
       IN  /\ last_hit_' = report.last
           /\ windows' = Append(windows, [start |-> consumed_samples_, at |-> clock,
                                          out |-> report.out])
    /\ Advance /\ More
    /\ UNCHANGED <<graph, num_trailing_blanks, stream, failed, clock>>

\* Mutant: the frames dropped without features are not counted.
PollNoFeaturesUncounted ==
    /\ polling
    /\ ring' = SubSeq(ring, Hop + 1, Len(ring)) /\ More
    /\ failed' = TRUE
    /\ UNCHANGED <<graph, num_trailing_blanks, consumed_samples_, last_hit_, stream, windows, clock>>

\* No features: the ring advances all the same.
PollNoFeatures ==
    /\ polling
    /\ Advance /\ More
    /\ failed' = TRUE
    /\ UNCHANGED <<graph, num_trailing_blanks, last_hit_, stream, windows, clock>>

\* The encoder or the decoder fails, or there are no logits: Poll returns and
\* the window stays, to be met again.
PollFails ==
    /\ polling
    /\ polling' = FALSE
    /\ UNCHANGED <<graph, num_trailing_blanks, session, clock>>

Reset ==
    /\ Listening /\ ~polling
    /\ ring' = <<>> /\ consumed_samples_' = 0 /\ last_hit_' = NoHits
    /\ stream' = <<>> /\ windows' = <<>> /\ failed' = FALSE
    /\ UNCHANGED <<graph, num_trailing_blanks, polling, clock>>

Next ==
    \/ ConstructGraph
    \/ \E frame \in Frames : PushAudio(frame)
    \/ Tick
    \/ PollBegins \/ PollWindow \/ PollNoFeatures \/ PollFails
    \/ Reset

Spec == Init /\ [][Next]_vars

-----------------------------------------------------------------------------
(* Properties.                                                             *)

Heard(w) == SubSeq(stream, w.start + 1, w.start + Window)

\* A window reports keywords that are spelled in it, apart from each other, and
\* everything in it that is to be found, but for a phrase reported shortly before.
ReportsTheSpotted ==
    \A i \in DOMAIN windows :
        /\ \A hit \in ToSet(windows[i].out) : hit \in ToSet(Spotted(Heard(windows[i])))
        /\ \A hit \in ToSet(Spotted(Heard(windows[i]))) :
              \E j \in 1 .. i : /\ windows[i].at - windows[j].at < Debounce \/ j = i
                                /\ \E out \in ToSet(windows[j].out) : out.phrase = hit.phrase

\* The ring is the rest of the stream and no window is decoded twice, whatever
\* fails in between; and where a window has room for a hop, the windows are those
\* at every hop from the start.
WindowsOfStream ==
    /\ ring = SubSeq(stream, consumed_samples_ + 1, Len(stream))
    /\ \A i, j \in DOMAIN windows : i < j => windows[i].start < windows[j].start
    /\ Hop <= Window =>
          /\ \A i \in DOMAIN windows : windows[i].start % Hop = 0
          /\ ~failed => \A i \in DOMAIN windows : windows[i].start = (i - 1) * Hop

Reports == UNION {{<<i, k>> : k \in DOMAIN windows[i].out} : i \in DOMAIN windows}

\* No utterance of a keyword is reported twice, though all windows that overlap there
\* see it.
EachOnce ==
    \A a, b \in Reports :
        LET hit(x) == windows[x[1]].out[x[2]]
            position(x) == <<hit(x).phrase, windows[x[1]].start + hit(x).last_frame>>
        IN  position(a) = position(b) => a = b

\* Of a program that polls in time, if the debounce time is longer than windows that
\* share a frame are apart: the last of them begins Overlap after the first.  A debounce
\* time of Window - Hop, which the header asks for, is never that long.
Overlap == Hop * ((Window - 1) \div Hop)
InTime == \A i \in DOMAIN windows : windows[i].at = windows[i].start + Window
SaidOnce == InTime /\ Debounce > Overlap => EachOnce
=============================================================================
