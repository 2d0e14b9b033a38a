------------------------------ MODULE Resampler ------------------------------
(***************************************************************************)
(* StreamingNormalizer: audio of any rate and channel count becomes 16 kHz *)
(* mono by linear interpolation, chunk by chunk.  What a sample is does    *)
(* not matter here, only which source position it is taken from.           *)
(*                                                                         *)
(* The position is an f64 to which a rounded step is added for every       *)
(* sample, and each addition rounds.  Here it is counted in grains, so     *)
(* fine that every f64 that occurs is a whole number of them, and one      *)
(* addition is off by at most Rounding.  A step of Rate / Target with a    *)
(* power of two for denominator is not rounded: 8, 12, 24, 48 kHz are      *)
(* exact; 11.025, 22.05 and 44.1 kHz are not.                              *)
(***************************************************************************)
EXTENDS Integers

CONSTANTS
    Target,     \* WHISPER_SAMPLE_RATE, in any unit
    Rates,      \* sample rates that arrive, in the same unit; 0 is invalid
    Channels,   \* channel counts that arrive; 0 is invalid
    Sizes,      \* lengths of the chunks that arrive, in samples
    MaxFrames,  \* bound of the model: source frames altogether
    Grain,      \* grains in 1 / Target of a source frame
    Rounding    \* error of one addition in grains, that of the step included

ResamplerAssumption ==
    /\ Target \in Nat \ {0}
    /\ Rates \subseteq Nat
    /\ Channels \subseteq Nat
    /\ Sizes \subseteq Nat
    /\ MaxFrames \in Nat
    /\ Grain \in Nat
    /\ Rounding \in Nat /\ Rounding < Grain

VARIABLES
    normalizer, \* sample_rate, channels, length of pending, source_position in grains
    accepted,   \* history: source frames of the chunks that were accepted
    drained,    \* history: source frames drained from pending
    made,       \* history: samples returned
    panicked    \* drain was asked for more frames than there are

vars == <<normalizer, accepted, drained, made, panicked>>

Monus(a, b) == IF a > b THEN a - b ELSE 0

Init ==
    /\ normalizer = [rate |-> 0, channels |-> 0, pending |-> 0, position |-> 0]
    /\ accepted = 0
    /\ drained = 0
    /\ made = 0
    /\ panicked = FALSE

\* Refused: an invalid format, an incomplete frame, or not the stream's format.
Valid(size, rate, channels) ==
    /\ rate # 0 /\ channels # 0
    /\ size % channels = 0
    /\ normalizer.rate = 0 \/ <<rate, channels>> = <<normalizer.rate, normalizer.channels>>

Frame == Target * Grain

\* The step is a binary fraction, and so are its sums.
Exact(rate) == \E k \in 0..Target : (rate * 2^k) % Target = 0
Slack(rate) == IF Exact(rate) THEN 0 ELSE Rounding

\* Where the position may be after that many samples.
After(position, count, rate) ==
    (position + count * (rate * Grain - Slack(rate)))..(position + count * (rate * Grain + Slack(rate)))

\* A sample needs the frame to the right of its position, too.  The comparison
\* rounds as well, but only up: a frame that is there may be taken for missing.
MayBelow(position, frames) == position + Frame < frames * Frame
MustBelow(position, frames, rate) == position + Frame < frames * Frame - Slack(rate)

\* The loop of push ends at this position after that many samples.
Stops(frames, position, rate, count, next) ==
    /\ ~MustBelow(next, frames, rate)
    /\ IF count = 0 THEN next = position
       ELSE \E last \in After(position, count - 1, rate) :
                MayBelow(last, frames) /\ next \in After(last, 1, rate)

\* No more samples than the shortest steps make of the frames.
Most(frames, rate) == (frames * Frame) \div (rate * Grain - Slack(rate)) + 1

Consumed(position) == Monus(position \div Frame, 1)

\* Faulty variant: starts each chunk at a whole frame.
DrainWhole(pending, position) ==
    [pending |-> Monus(pending, position \div Frame), position |-> 0]

\* The subtraction is exact: the difference has no more digits.
Drain(pending, position) ==
    [pending |-> pending - Consumed(position),
     position |-> position - Consumed(position) * Frame]

\* Audio that has the target rate already passes as it is.
PassThrough(size, rate, channels) ==
    /\ ~panicked
    /\ Valid(size, rate, channels)
    /\ rate = Target
    /\ accepted + size \div channels <= MaxFrames
    /\ normalizer' = [normalizer EXCEPT !.rate = rate, !.channels = channels]
    /\ accepted' = accepted + size \div channels
    /\ made' = made + size \div channels
    /\ UNCHANGED <<drained, panicked>>

\* StreamingNormalizer::push of any other rate: interpolates, then drains the
\* frames that are no longer needed.  Vec::drain panics past the end.
Resample(size, rate, channels) ==
    LET frames == normalizer.pending + size \div channels
        position == normalizer.position
    IN  /\ ~panicked
        /\ Valid(size, rate, channels)
        /\ rate # Target
        /\ accepted + size \div channels <= MaxFrames
        /\ accepted' = accepted + size \div channels
        /\ \E count \in 0..Most(frames, rate) : \E next \in After(position, count, rate) :
            /\ Stops(frames, position, rate, count, next)
            /\ IF Consumed(next) > frames
               THEN /\ panicked' = TRUE
                    /\ normalizer' = [rate |-> rate, channels |-> channels,
                                      pending |-> frames, position |-> next]
                    /\ UNCHANGED <<drained, made>>
               ELSE LET rest == Drain(frames, next)
                    IN  /\ normalizer' = [rate |-> rate, channels |-> channels,
                                          pending |-> rest.pending, position |-> rest.position]
                        /\ drained' = drained + Consumed(next)
                        /\ made' = made + count
                        /\ UNCHANGED panicked

Next ==
    \E size \in Sizes, rate \in Rates, channels \in Channels :
        \/ PassThrough(size, rate, channels)
        \/ Resample(size, rate, channels)

Spec == Init /\ [][Next]_vars

-----------------------------------------------------------------------------
\* How a stream is cut into chunks does not show (stt.rs 307-323) but for the
\* rounding: the next sample is made from where as many steps lead, each off by at
\* most the error of an addition; the accepted frames do not allow it, and they
\* did allow the one before.
EvenlySampled ==
    LET rate == normalizer.rate
        place == drained * Frame + normalizer.position
    IN  ~panicked /\ rate # 0 =>
            IF rate = Target THEN made = accepted
            ELSE /\ place \in After(0, made, rate)
                 /\ ~MustBelow(place, accepted, rate)
                 /\ made > 0 => MayBelow(place - rate * Grain - Slack(rate), accepted)
                 /\ drained + normalizer.pending = accepted

\* A chunk of any valid format is converted (stt.rs 375: push_audio
\* "auto downmixes/resamples to 16k mono").
Resamples == ~panicked
=============================================================================
