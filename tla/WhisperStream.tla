---------------------------- MODULE WhisperStream ----------------------------
(***************************************************************************)
(* Streaming transcription: the state machine WhisperStreamingState that   *)
(* every Whisper backend shares.  Audio is pushed in chunks; a sliding     *)
(* window of it is decoded over and over; words on which successive        *)
(* decodes agree are committed, the rest stays unstable and may change.    *)
(*                                                                         *)
(* The decoder is external.  It hears the words that lie in its window,    *)
(* may fail, and may mishear the last word or a word the end of the window *)
(* cuts.  Positions are in samples, times in milliseconds, as in the code. *)
(***************************************************************************)
EXTENDS Integers, Sequences, FiniteSets, SequencesExt

CONSTANTS
    Spoken,             \* the words of the utterance, in order
    WordMs,             \* length of each of them
    SamplesPerMs,       \* WHISPER_SAMPLE_RATE / 1000
    DecodeIntervalMs,   \* decode_interval_ms
    OverlapMs,          \* overlap_ms
    MaxWindowMs,        \* max_window_ms
    AgreementUpdates,   \* agreement_updates
    TrailingGuardWords, \* trailing_guard_words
    Chunks,             \* sizes of the pushes, in samples
    MaxSamples          \* bound of the model: samples pushed altogether

\* WhisperConfig::validate; its limits of the window are in other units.
Validate ==
    /\ DecodeIntervalMs \in 1..MaxWindowMs
    /\ MaxWindowMs \in Nat
    /\ OverlapMs \in 0..(MaxWindowMs - 1)
    /\ AgreementUpdates \in Nat /\ AgreementUpdates >= 2

\* A valid configuration, and what the decoder assumed here needs: words are
\* longer than the rounding of times and no longer than the overlap.
ASSUME WhisperAssumption ==
    /\ Validate
    /\ Spoken \in Seq(Nat \ {0})
    /\ SamplesPerMs \in Nat \ {0}
    /\ WordMs \in 2..OverlapMs
    /\ TrailingGuardWords \in Nat
    /\ Chunks \subseteq Nat \ {0}
    /\ MaxSamples \in Nat

\* No stretch of words is said twice in a row ("no no"): committed_prefix_overlap
\* takes the second for a decode of the first and drops it.
ASSUME SquareFree ==
    \A i \in 1..Len(Spoken) : \A n \in 1..Len(Spoken) :
        i + 2 * n - 1 <= Len(Spoken) =>
            SubSeq(Spoken, i, i + n - 1) # SubSeq(Spoken, i + n, i + 2 * n - 1)

VARIABLES
    state,      \* the node's WhisperStreamingState
    event,      \* the last TranscriptEvent, or NoEvent
    heard,      \* history: end of the audio of the last decode that succeeded
    lost,       \* history: audio left the buffer that no decode had seen
    blind       \* history: why the decoder may have missed something

vars == <<state, event, heard, lost, blind>>

Monus(a, b) == IF a > b THEN a - b ELSE 0
AtLeast(a, b) == IF a > b THEN a ELSE b
AtMost(a, b) == IF a < b THEN a ELSE b

MsToSamples(ms) == ms * SamplesPerMs
SamplesToMs(samples) == samples \div SamplesPerMs

NoText == <<0>>      \* last_emitted_text is None: no text has the special token in it
NoEvent == [kind |-> "none"]

-----------------------------------------------------------------------------
(* The decoder, external: what Whisper::decode_window may return for the
   samples from..to of the utterance.  A word is a number: what is said is
   positive, a special token <|...|> is 0, and word i misheard is -i.  A phrase
   has times relative to the window; "word" says which spoken word an entry
   is, for the properties only. *)

Marker == [text |-> 0, word |-> 0]
WordStart(i) == MsToSamples((i - 1) * WordMs)
WordEnd(i) == MsToSamples(i * WordMs)

\* A cut at the front of less than a millisecond goes unnoticed.
Whole(from, to) ==
    {i \in 1..Len(Spoken) : WordStart(i) + SamplesPerMs > from /\ WordEnd(i) <= to}
CutFront(from, to) ==
    {i \in 1..Len(Spoken) : WordStart(i) + SamplesPerMs <= from /\ WordEnd(i) \in (from + 1)..to}
CutTail(from, to) ==
    {i \in 1..Len(Spoken) : WordStart(i) \in from..(to - 1) /\ WordEnd(i) > to}

\* The consecutive words I as one phrase.
Phrase(I, misheard, from, to) ==
    IF I = {} THEN <<>>
    ELSE <<[words |-> <<Marker>> \o
                [n \in 1..(Max(I) - Min(I) + 1) |->
                    LET i == Min(I) + n - 1
                    IN  [text |-> IF i \in misheard THEN -i ELSE Spoken[i], word |-> i]],
            start |-> SamplesToMs(AtLeast(WordStart(Min(I)), from) - from),
            end |-> SamplesToMs(AtMost(WordEnd(Max(I)), to) - from)]>>

\* A word whose beginning was trimmed is heard or not.  At most one word is
\* misheard: the last whole one, or the one that the end of the window cuts.
Hypotheses(from, to) ==
    LET whole == Whole(from, to)
        last == {i \in whole : i = Max(whole)}
        cut == CutTail(from, to)
    IN  UNION {{Phrase(front, {}, from, to) \o Phrase(whole, ends[1], from, to)
                    \o Phrase(ends[2], cut, from, to) :
                    ends \in {<<{}, {}>>, <<last, {}>>, <<{}, cut>>}} :
                front \in {{}, CutFront(from, to)}}

-----------------------------------------------------------------------------
(* The helpers of the state machine, each from a state to a state. *)

NewState ==
    [total |-> 0,           \* total_samples
     start |-> 0,           \* buffer_start_sample; the buffer holds start..total
     new |-> 0,             \* new_samples_since_decode
     hypotheses |-> <<>>,
     committed |-> <<>>,
     unstable |-> <<>>,
     through |-> 0,         \* committed_through_ms
     revision |-> 0,
     last |-> NoText,       \* last_emitted_text
     finalized |-> FALSE]

Texts(segments) == [n \in 1..Len(segments) |-> segments[n].text]
FullText(s) == Texts(s.committed) \o Texts(s.unstable)

\* How many words from the front end by then.
Reached(words, then) ==
    Cardinality({n \in 1..Len(words) : \A i \in 1..n : words[i].end <= then})

\* A segment is one word here, so the limit is one of segments.
CompleteSegmentsWithinWords(segments, limit) == AtMost(limit, Len(segments))

\* normalize_text: special tokens are removed; the places of the others.
NormalizeText(words) == {n \in DOMAIN words : words[n] # Marker}

\* The words of a phrase, each with an equal share of its time.
SplitSegmentWords(phrases, p, windowStart) ==
    LET phrase == phrases[p]
        visible == NormalizeText(phrase.words)
        Before(n) == Cardinality({m \in visible : m < n})
        Share(n) == (Monus(phrase.end, phrase.start) * n) \div Cardinality(visible)
    IN  {[text |-> phrase.words[n].text, word |-> phrase.words[n].word,
          start |-> phrase.start + windowStart + Share(Before(n)),
          end |-> phrase.start + windowStart + Share(Before(n) + 1),
          place |-> <<p, n>>] : n \in visible}

\* Where a word goes: by its times, and else where it was.
Earlier(v, w) ==
    \/ v.start < w.start
    \/ v.start = w.start /\ v.end < w.end
    \/ /\ v.start = w.start /\ v.end = w.end
       /\ \/ v.place[1] < w.place[1]
          \/ v.place[1] = w.place[1] /\ v.place[2] < w.place[2]

\* sort_by_key, which keeps the order of words of the same times.
Sorted(words) ==
    [k \in 1..Cardinality(words) |->
        LET w == CHOOSE w \in words : Cardinality({v \in words : Earlier(v, w)}) = k - 1
        IN  [text |-> w.text, word |-> w.word, start |-> w.start, end |-> w.end]]

\* Length of the longest end of the committed words that the candidates repeat.
CommittedPrefixOverlap(committed, candidate) ==
    Max({n \in 0..AtMost(Len(committed), Len(candidate)) :
            Texts(SubSeq(committed, Len(committed) - n + 1, Len(committed)))
                = Texts(SubSeq(candidate, 1, n))})

CommonPrefixWords(hypotheses) ==
    Cardinality({n \in 1..Len(hypotheses[1]) :
        \A i \in 1..n, h \in DOMAIN hypotheses :
            i <= Len(hypotheses[h]) /\ hypotheses[h][i].text = hypotheses[1][i].text})

\* The property-only field "by" says what committed a word.
CommitSegments(s, segments, by) ==
    [s EXCEPT !.committed = @ \o [n \in 1..Len(segments) |->
                    [text |-> segments[n].text, word |-> segments[n].word, by |-> by]],
              !.through = Max({@} \cup {segments[n].end : n \in 1..Len(segments)})]

\* Faulty variant: compares milliseconds with samples.
ForceCommitMixedUnits(s) ==
    LET bound == SamplesToMs(Monus(s.total, MsToSamples(MaxWindowMs)))
        reached == Reached(s.unstable, bound + OverlapMs)
        count == AtMost(AtLeast(reached, 1), Len(s.unstable))
    IN  IF bound <= s.start \/ count = 0 THEN s
        ELSE [CommitSegments(s, SubSeq(s.unstable, 1, count), "bound")
                EXCEPT !.unstable = SubSeq(s.unstable, count + 1, Len(s.unstable)),
                       !.hypotheses = <<>>]

\* Unstable words whose audio the bound is about to drop are committed as they
\* are, at least one of them.
ForceCommitForBound(s) ==
    LET bound == SamplesToMs(Monus(s.total, MsToSamples(MaxWindowMs)))
        reached == Reached(s.unstable, bound + OverlapMs)
        count == AtMost(AtLeast(reached, 1), Len(s.unstable))
    IN  IF bound <= SamplesToMs(s.start) \/ count = 0 THEN s
        ELSE [CommitSegments(s, SubSeq(s.unstable, 1, count), "bound")
                EXCEPT !.unstable = SubSeq(s.unstable, count + 1, Len(s.unstable)),
                       !.hypotheses = <<>>]

\* Faulty variant: forgets that the buffer is bounded.
EnforceNothing(s) == s

EnforceAudioBound(s) ==
    [s EXCEPT !.start = AtLeast(s.start, Monus(s.total, MsToSamples(MaxWindowMs)))]

\* Audio before the committed words, but for the overlap, is no longer needed.
TrimAudio(s, final) ==
    LET target == IF final THEN SamplesToMs(s.total) ELSE Monus(s.through, OverlapMs)
    IN  EnforceAudioBound(
            [s EXCEPT !.start = AtLeast(s.start, AtMost(MsToSamples(target), s.total))])

\* decode_window, up to the decision to decode: force commits, then trims.
Prepared(s) == IF s.start = s.total THEN s ELSE TrimAudio(ForceCommitForBound(s), FALSE)

\* Faulty variant: waits for one sample too many.
DecodesLate(s, force) ==
    /\ s.start # s.total
    /\ force \/ s.new > MsToSamples(DecodeIntervalMs)

DecodesNow(s, force) ==     \* s as it is before Prepared
    /\ s.start # s.total
    /\ force \/ s.new >= MsToSamples(DecodeIntervalMs)

\* Faulty variant: every event gets a number of its own.
RevisedAlways(s) == [s EXCEPT !.revision = @ + 1, !.last = FullText(s)]

\* make_event: the state after it, and the event.
Revised(s) ==
    LET text == FullText(s)
    IN  [s EXCEPT !.revision = IF s.last # text \/ @ = 0 THEN @ + 1 ELSE @,
                  !.last = text]

MakeEvent(s, kind) ==
    LET changed == s.last # FullText(s)
    IN  [kind |-> kind,
         revision |-> Revised(s).revision,
         replaces |-> IF /\ changed /\ s.revision > 0
                         /\ kind \in {"correction", "final"}
                      THEN s.revision ELSE 0,
         text |-> FullText(s),
         stable |-> Texts(s.committed)]

\* The words of a hypothesis that are not committed yet.
Candidates(s, phrases, windowStart) ==
    LET words == UNION {SplitSegmentWords(phrases, p, windowStart) : p \in DOMAIN phrases}
        fresh == Sorted({w \in words : w.end > s.through})
    IN  SubSeq(fresh, CommittedPrefixOverlap(s.committed, fresh) + 1, Len(fresh))

\* Faulty variant: no trailing guard.
AgreeUnguarded(s, segments) ==
    LET pushed == Append(s.hypotheses, segments)
        kept == SubSeq(pushed, AtLeast(1, Len(pushed) - AgreementUpdates + 1), Len(pushed))
        count == IF Len(kept) < AgreementUpdates THEN 0 ELSE CommonPrefixWords(kept)
    IN  IF count = 0 THEN [s EXCEPT !.hypotheses = kept, !.unstable = segments]
        ELSE [CommitSegments(s, SubSeq(segments, 1, count), "agreement")
                EXCEPT !.hypotheses = <<>>,
                       !.unstable = SubSeq(segments, count + 1, Len(segments))]

\* Local agreement: the words that the last hypotheses have in common, but for
\* the trailing guard, are committed.
Agree(s, segments) ==
    LET pushed == Append(s.hypotheses, segments)
        kept == SubSeq(pushed, AtLeast(1, Len(pushed) - AgreementUpdates + 1), Len(pushed))
        eligible == Monus(CommonPrefixWords(kept), TrailingGuardWords)
        count == IF Len(kept) < AgreementUpdates THEN 0 ELSE CompleteSegmentsWithinWords(segments, eligible)
    IN  IF count = 0 THEN [s EXCEPT !.hypotheses = kept, !.unstable = segments]
        ELSE [CommitSegments(s, SubSeq(segments, 1, count), "agreement")
                EXCEPT !.hypotheses = <<>>,
                       !.unstable = SubSeq(segments, count + 1, Len(segments))]

\* apply_hypothesis for a decode that is not final, and its event.
Applied(s, phrases, windowStart) ==
    TrimAudio(ForceCommitForBound(Agree(s, Candidates(s, phrases, windowStart))), FALSE)
Announces(s) == s.last # FullText(s) /\ FullText(s) # <<>>

\* apply_hypothesis for the final decode, before its event and the last trim.
Finalized(s, phrases, windowStart) ==
    [CommitSegments(s, Candidates(s, phrases, windowStart), "final")
        EXCEPT !.unstable = <<>>, !.hypotheses = <<>>, !.finalized = TRUE]

-----------------------------------------------------------------------------
Init ==
    /\ state = NewState
    /\ event = NoEvent
    /\ heard = 0
    /\ lost = FALSE
    /\ blind = {}

\* push_audio: the samples are those the normalizer makes of the chunk.
Pushed(n) == [state EXCEPT !.total = @ + n, !.new = @ + n]

\* The part of stream_audio before the decoder runs.
PushAudio(n) ==
    /\ ~state.finalized
    /\ state.total + n <= MaxSamples
    /\ lost' = (lost \/ Prepared(Pushed(n)).start > heard)

\* A push of more than the window less one interval may drop audio that was
\* never decoded.  One that does not leave the overlap, and what times lose in
\* rounding, may lose or repeat a word that was cut in two.
Outruns(n) ==
    LET free == MsToSamples(MaxWindowMs) - MsToSamples(DecodeIntervalMs) + 1
    IN  {r \in {"outrun", "hurried"} :
            n > IF r = "outrun" THEN free ELSE free - MsToSamples(OverlapMs + 2)}

\* Whisper::stream_audio when it is not yet time to decode.
Buffer(n) ==
    LET s == Prepared(Pushed(n))
    IN  /\ PushAudio(n)
        /\ ~DecodesNow(Pushed(n), FALSE)
        /\ state' = s
        /\ blind' = blind \cup Outruns(n)
        /\ UNCHANGED <<event, heard>>

\* Whisper::stream_audio when the decoder returns a hypothesis.
Decode(n) ==
    LET s == [Prepared(Pushed(n)) EXCEPT !.new = 0]
    IN  /\ PushAudio(n)
        /\ DecodesNow(Pushed(n), FALSE)
        /\ \E phrases \in Hypotheses(s.start, s.total) :
            LET applied == Applied(s, phrases, SamplesToMs(s.start))
                kind == IF applied.last = NoText THEN "partial" ELSE "correction"
            IN  IF Announces(applied)
                THEN /\ event' = MakeEvent(applied, kind)
                     /\ state' = Revised(applied)
                ELSE /\ state' = applied
                     /\ UNCHANGED event
        /\ heard' = s.total
        /\ blind' = blind \cup Outruns(n)

\* Whisper::stream_audio when the decoder fails: the error leaves through `?`.
DecodeFails(n) ==
    LET s == Prepared(Pushed(n))
    IN  /\ PushAudio(n)
        /\ DecodesNow(Pushed(n), FALSE)
        /\ state' = [s EXCEPT !.new = 0]
        /\ blind' = blind \cup {"failed"} \cup Outruns(n)
        /\ UNCHANGED <<event, heard>>

\* Whisper::finalize: a forced decode; its event is made before the last trim.
\* Only push_audio refuses after it: another finalize decodes what the trim has
\* left, which is less than a millisecond.
Finalize ==
    LET s == [Prepared(state) EXCEPT !.new = 0]
    IN  /\ DecodesNow(state, TRUE)
        /\ \E phrases \in Hypotheses(s.start, s.total) :
            LET done == Finalized(s, phrases, SamplesToMs(s.start))
            IN  /\ event' = MakeEvent(done, "final")
                /\ state' = TrimAudio(Revised(done), TRUE)
        /\ heard' = s.total
        /\ UNCHANGED <<lost, blind>>

\* The final decode fails: the stream does not become final by it.
FinalizeFails ==
    LET s == Prepared(state)
    IN  /\ DecodesNow(state, TRUE)
        /\ state' = [s EXCEPT !.new = 0]
        /\ blind' = blind \cup {"failed"}
        /\ UNCHANGED <<event, heard, lost>>

Next ==
    \/ \E n \in Chunks : Buffer(n) \/ Decode(n) \/ DecodeFails(n)
    \/ Finalize
    \/ FinalizeFails

Spec == Init /\ [][Next]_vars
-----------------------------------------------------------------------------
(* Properties *)

Text == Int \ {0}
Segment == [text : Text, word : 1..Len(Spoken), start : Nat, end : Nat]
Commit == [text : Text, word : 1..Len(Spoken), by : {"agreement", "bound", "final"}]
States ==
    [total : Nat, start : Nat, new : Nat,
     hypotheses : Seq(Seq(Segment)), committed : Seq(Commit), unstable : Seq(Segment),
     through : Nat, revision : Nat, last : Seq(Int), finalized : BOOLEAN]
Events ==
    [kind : {"partial", "correction", "final"}, revision : Nat, replaces : Nat,
     text : Seq(Text), stable : Seq(Text)]

\* Types.  The buffer never exceeds the window, and no more hypotheses are kept
\* than an agreement takes.
TypeOK ==
    /\ state \in States
    /\ state.total <= MaxSamples
    /\ state.start <= state.total
    /\ state.total - state.start <= MsToSamples(MaxWindowMs)
    /\ state.new <= state.total
    /\ Len(state.hypotheses) <= AgreementUpdates
    /\ event \in Events \cup {NoEvent}
    /\ heard \in 0..state.total
    /\ lost \in BOOLEAN
    /\ blind \subseteq {"failed", "outrun", "hurried"}

\* A word on which the decodes agreed is the word spoken: the guard holds back
\* what may be misheard (stt.rs 451-459).
AgreedAsSpoken ==
    TrailingGuardWords > 0 =>
        \A n \in 1..Len(state.committed) :
            state.committed[n].by = "agreement" =>
                state.committed[n].text = Spoken[state.committed[n].word]

\* If no decode failed and no push was too long, every word is committed once and
\* in its place, though windows overlap, times are rounded and the bound forces
\* commits (425-437, 484-507).  This ends with the first word that is committed
\* misheard, by the bound, the final decode or for lack of a guard: it stands in
\* the place of the word or, if that was committed already, behind it.
InPlace ==
    blind = {} =>
        \A n \in 1..Len(state.committed) :
            (\A i \in 1..(n - 1) : state.committed[i].text > 0) =>
                \/ state.committed[n].word = n
                \/ state.committed[n].text < 0 /\ state.committed[n].word = n - 1

\* The committed transcript is what was said (stt.rs 425-459, 484-507).
Faithful == AgreedAsSpoken /\ InPlace

\* Audio is dropped (stt.rs 516-539) only after a decode has seen it, unless a
\* decode failed, whose samples no longer count as new (404), or a push was
\* longer than the window has room for.
HeardBeforeDropped == lost => blind \cap {"failed", "outrun"} # {}

\* What the listener is shown as unstable can still be corrected: its audio is
\* in the buffer and it does not precede what is committed, however long the
\* decoder fails (stt.rs 484-507).
Audible ==
    \A n \in 1..Len(state.unstable) :
        /\ state.unstable[n].end >= SamplesToMs(state.start)
        /\ state.unstable[n].end >= state.through

\* The events are those of a LiveTranscript (stt.rs 541-568): revisions count
\* up by one and name the one they replace, a stable word is never taken back,
\* a final event keeps the number of a text it only confirms, and a stream that
\* is finalized again only extends its final text.
Live == INSTANCE LiveTranscript WITH
    Text <- Text,
    revision <- state.revision,
    replaces <- IF event = NoEvent THEN 0 ELSE event.replaces,
    text <- IF event = NoEvent THEN <<>> ELSE event.text,
    stable <- IF event = NoEvent THEN <<>> ELSE event.stable,
    final <- event.kind = "final"
LiveSpec == Live!Spec
-----------------------------------------------------------------------------
(* The inductive invariants behind HeardBeforeDropped, Audible and LiveSpec *)

\* What is committed or shown ends within the audio that a decode has seen.
InTime ==
    /\ state.through <= SamplesToMs(heard)
    /\ \A n \in 1..Len(state.unstable) : state.unstable[n].end <= SamplesToMs(heard)

\* Unless a decode failed or a push was too long, the samples that count as new
\* are those that no decode has seen, less than an interval, and the buffer
\* still has all of them.
Counted ==
    blind \cap {"failed", "outrun"} = {} =>
        /\ ~lost
        /\ state.new = state.total - heard
        /\ state.new < MsToSamples(DecodeIntervalMs)
        /\ ~state.finalized => state.start <= heard

\* Words are shown in the order in which they end.
InOrder ==
    \A n \in 1..Len(state.unstable) : \A m \in 1..n :
        state.unstable[m].end <= state.unstable[n].end

\* The last event shows what the state remembers of it, and what it called
\* stable is committed.
Shown ==
    IF event = NoEvent
    THEN state.revision = 0 /\ state.last = NoText /\ ~state.finalized
    ELSE /\ state.revision # 0
         /\ state.last = event.text
         /\ state.finalized <=> event.kind = "final"
         /\ IsPrefix(event.stable, Texts(state.committed))
=============================================================================
