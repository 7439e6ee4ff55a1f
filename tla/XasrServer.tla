----------------------------- MODULE XasrServer -----------------------------
(***************************************************************************)
(* rs-xasr-ws-server: one client after the other is served, each with a    *)
(* stream of its own.  Audio is answered with the text so far if it is not *)
(* the text sent last, the end of an utterance with its final text.  Pings *)
(* are answered as well and leave everything as it is.                     *)
(***************************************************************************)
EXTENDS XasrStream

CONSTANT Vocabulary     \* the tokens id2tok knows a text for

\* The tokens the decoder may give.
Tokens == UNION {ToSet(out) : out \in Outputs}

ASSUME OutputsAssumption == Outputs \subseteq Seq(Tokens)

VARIABLES connected,
          last_partial,
          shown         \* the text the client was sent last for the utterance

vars == <<streamVars, connected, last_partial, shown>>

Init == StreamInit /\ connected = FALSE /\ last_partial = <<>> /\ shown = <<>>

\* detok: one token after the other, those without a text are left out.
Spelled(text, id) == IF id \in Vocabulary THEN Append(text, id) ELSE text
Detok(ids) ==
    LET s[i \in 0 .. Len(ids)] == IF i = 0 THEN <<>> ELSE Spelled(s[i - 1], ids[i])
    IN  s[Len(ids)]

Accept ==
    /\ ~connected
    /\ connected' = TRUE
    /\ Reset
    /\ last_partial' = <<>> /\ shown' = <<>>

Close ==
    /\ connected /\ running = "idle"
    /\ connected' = FALSE
    /\ UNCHANGED <<streamVars, last_partial, shown>>

Binary(n) ==
    /\ connected
    /\ AcceptPcm(n)
    /\ UNCHANGED <<connected, last_partial, shown>>

Chunk(out) ==
    /\ RunChunk(out)
    /\ UNCHANGED <<connected, last_partial, shown>>

Partial ==
    /\ running = "streaming" /\ ProcessDone
    /\ IF Detok(hyp) # last_partial
       THEN last_partial' = Detok(hyp) /\ shown' = Detok(hyp)
       ELSE UNCHANGED <<last_partial, shown>>
    /\ UNCHANGED connected

\* Mutant: the last partial of the utterance before is kept.
StartKeepsPartial ==
    /\ connected
    /\ Reset
    /\ shown' = <<>>
    /\ UNCHANGED <<connected, last_partial>>

\* start, and reset, which does the same under another name.
Start ==
    /\ connected
    /\ Reset
    /\ last_partial' = <<>> /\ shown' = <<>>
    /\ UNCHANGED connected

End ==
    /\ connected
    /\ InputFinished
    /\ UNCHANGED <<connected, last_partial, shown>>

Final ==
    /\ running = "final" /\ ProcessDone
    /\ shown' = Detok(hyp)
    /\ UNCHANGED <<connected, last_partial>>

\* An end after the end is answered and processes nothing.
EndAgain ==
    /\ connected /\ running = "idle" /\ finished
    /\ shown' = Detok(hyp)
    /\ UNCHANGED <<streamVars, connected, last_partial>>

Next ==
    \/ Accept \/ Close \/ Start \/ End \/ EndAgain
    \/ \E n \in Pieces : Binary(n)
    \/ \E out \in Outputs : Chunk(out)
    \/ Partial \/ Final

Spec == Init /\ [][Next]_vars

-----------------------------------------------------------------------------
(* Properties.                                                             *)

\* Between messages the client has the text of its utterance: it was sent all
\* that has been recognized, though a text that was sent already is not sent
\* again, and nothing of an utterance or a client before.
ClientUpToDate == (connected /\ running = "idle") => shown = Detok(hyp)
=============================================================================
