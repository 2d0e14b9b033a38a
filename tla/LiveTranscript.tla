--------------------------- MODULE LiveTranscript ---------------------------
(***************************************************************************)
(* What a listener to a transcript stream may rely on: a numbered text     *)
(* that is replaced as a whole, of which a stable part only ever grows; the *)
(* whole of a final text is stable, and only final texts follow it.        *)
(* WhisperStream implements it.                                            *)
(***************************************************************************)
EXTENDS Naturals, Sequences, SequencesExt

CONSTANT Text       \* the words a transcript is made of

VARIABLES
    revision,   \* number of the text on display; 0 before the first one
    replaces,   \* number of the text it replaced, 0 if none
    text,       \* the text on display
    stable,     \* the part of it that is announced as stable
    final       \* whether the text was announced as final

vars == <<revision, replaces, text, stable, final>>

Init ==
    /\ revision = 0
    /\ replaces = 0
    /\ text = <<>>
    /\ stable = <<>>
    /\ final = FALSE

\* The stable part is a prefix of the text and extends what was stable.
Settles ==
    /\ IsPrefix(stable, stable')
    /\ IsPrefix(stable', text')

\* A text is shown for the first time, or another one replaces it.
Show ==
    /\ revision' = revision + 1
    /\ replaces' = revision
    /\ revision = 0 \/ text' # text
    /\ text' \in Seq(Text)
    /\ stable' \in Seq(Text)
    /\ Settles
    /\ final' \in BOOLEAN
    /\ final => final'
    /\ final' => stable' = text'

\* The text on display turns out to be the final one, or is announced as that
\* once more: it keeps its number.
Confirm ==
    /\ revision # 0
    /\ stable' = text
    /\ IsPrefix(stable, stable')
    /\ final' = TRUE
    /\ replaces' = 0
    /\ UNCHANGED <<revision, text>>

Next == Show \/ Confirm

Spec == Init /\ [][Next]_vars
=============================================================================
