-------------------------- MODULE Resampler_proofs --------------------------
(***************************************************************************)
(* That audio is sampled evenly however it is cut into chunks, for any     *)
(* rates, channel counts and sizes, and any error of the additions.        *)
(***************************************************************************)
EXTENDS Resampler, TLAPS

Types ==
    /\ normalizer \in [rate : Nat, channels : Nat, pending : Nat, position : Nat]
    /\ accepted \in Nat
    /\ drained \in Nat
    /\ made \in Nat
    /\ panicked \in BOOLEAN

\* Where a stream stands: the pending frames are those of the total that were
\* not drained before, the position is as many steps on as samples were made, the
\* next sample needs a frame too many and the last one did not.
StandsAt(rate, before, pending, position, total, count) ==
    /\ before * Frame + position \in After(0, count, rate)
    /\ before + pending = total
    /\ ~MustBelow(before * Frame + position, total, rate)
    /\ count > 0 => MayBelow((before * Frame + position) - rate * Grain - Slack(rate), total)

Stands(rate) ==
    StandsAt(rate, drained, normalizer.pending, normalizer.position, accepted, made)

Even ==
    ~panicked =>
        /\ normalizer.rate = 0 =>
                /\ accepted = 0 /\ drained = 0 /\ made = 0
                /\ normalizer.pending = 0 /\ normalizer.position = 0
        /\ normalizer.rate = Target => made = accepted
        /\ normalizer.rate \notin {0, Target} => Stands(normalizer.rate)

IInv == Types /\ Even

-----------------------------------------------------------------------------
(* Arithmetic *)

\* Division rounds down.
LEMMA Division ==
  ASSUME NEW a \in Nat, NEW m \in Nat \ {0}
  PROVE  /\ a \div m \in Nat
         /\ m * (a \div m) <= a
         /\ a < m * (a \div m) + m
OBVIOUS

\* Multiples of a step are ordered as their factors.
LEMMA Multiples ==
  ASSUME NEW i \in Nat, NEW j \in Nat, i <= j, NEW m \in Nat
  PROVE  i * m \in Nat /\ j * m \in Nat /\ i * m <= j * m
<1>1. PICK d \in Nat : j = i + d
  <2>1. j - i \in Nat /\ j = i + (j - i)
    OBVIOUS
  <2>. QED
    BY <2>1
<1>2. j * m = i * m + d * m
  BY <1>1
<1>3. i * m \in Nat /\ j * m \in Nat /\ d * m \in Nat
  BY <1>1
<1>. QED
  BY <1>2, <1>3

\* A step goes forward by more than it is off.
LEMMA Steps ==
  ASSUME ResamplerAssumption, NEW rate \in Nat \ {0}
  PROVE  /\ Slack(rate) \in Nat /\ rate * Grain \in Nat /\ Slack(rate) < rate * Grain
         /\ Target \in Nat \ {0} /\ Grain \in Nat \ {0} /\ Frame \in Nat \ {0}
<1>1. /\ Target \in Nat \ {0} /\ Grain \in Nat \ {0} /\ Rounding \in Nat /\ Rounding < Grain
  BY DEF ResamplerAssumption
<1>2. Slack(rate) \in Nat /\ Slack(rate) < Grain
  BY <1>1 DEF Slack
<1>3. 1 * Grain <= rate * Grain /\ rate * Grain \in Nat /\ 1 * Grain = Grain
  BY <1>1, Multiples
<1>4. 1 * Grain <= Target * Grain /\ Target * Grain \in Nat
  BY <1>1, Multiples
<1>. QED
  BY <1>1, <1>2, <1>3, <1>4 DEF Frame

\* What it takes to be so many steps on.
LEMMA AfterSteps ==
  ASSUME ResamplerAssumption, NEW rate \in Nat \ {0},
         NEW position \in Int, NEW count \in Nat, NEW next
  PROVE  /\ count * (rate * Grain - Slack(rate)) \in Nat
         /\ count * (rate * Grain + Slack(rate)) \in Nat
         /\ next \in After(position, count, rate) <=>
                /\ next \in Int
                /\ position + count * (rate * Grain - Slack(rate)) <= next
                /\ next <= position + count * (rate * Grain + Slack(rate))
<1>. DEFINE least == rate * Grain - Slack(rate)
            most == rate * Grain + Slack(rate)
            short == count * least
            long == count * most
<1>1. least \in Nat /\ most \in Nat
  BY Steps
<1>. HIDE DEF least, most
<1>2. short \in Nat /\ long \in Nat
  BY <1>1
<1>3. After(position, count, rate) = (position + short)..(position + long)
  BY Zenon DEF After, short, long, least, most
<1>. HIDE DEF short, long
<1>4. next \in (position + short)..(position + long) <=>
        next \in Int /\ position + short <= next /\ next <= position + long
  BY <1>2
<1>. QED
  BY <1>2, <1>3, <1>4 DEF short, long, least, most

\* Steps after steps are as many steps as both together.
LEMMA AfterMore ==
  ASSUME ResamplerAssumption, NEW rate \in Nat \ {0},
         NEW position \in Int, NEW count \in Nat, NEW more \in Nat,
         NEW base \in Int, base + position \in After(0, count, rate),
         NEW next \in After(position, more, rate)
  PROVE  base + next \in After(0, count + more, rate)
<1>. DEFINE least == rate * Grain - Slack(rate)
            most == rate * Grain + Slack(rate)
<1>1. least \in Nat /\ most \in Nat
  BY Steps
<1>2. /\ count * least \in Nat /\ count * most \in Nat
      /\ base + position \in Int
      /\ 0 + count * least <= base + position /\ base + position <= 0 + count * most
  <2>1. 0 \in Int
    OBVIOUS
  <2>. QED
    BY Zenon, <2>1, AfterSteps
<1>3. /\ more * least \in Nat /\ more * most \in Nat /\ next \in Int
      /\ position + more * least <= next /\ next <= position + more * most
  BY Zenon, AfterSteps
<1>4. /\ base + next \in After(0, count + more, rate) <=>
            /\ base + next \in Int
            /\ 0 + (count + more) * least <= base + next
            /\ base + next <= 0 + (count + more) * most
      /\ (count + more) * least \in Nat /\ (count + more) * most \in Nat
  <2>1. count + more \in Nat /\ 0 \in Int
    OBVIOUS
  <2>. QED
    BY Zenon, <2>1, AfterSteps
<1>. HIDE DEF least, most
<1>5. /\ (count + more) * least = count * least + more * least
      /\ (count + more) * most = count * most + more * most
  BY <1>1
<1>. DEFINE a == count * least
            b == count * most
            c == more * least
            d == more * most
<1>6. a \in Nat /\ b \in Nat /\ c \in Nat /\ d \in Nat
  BY <1>2, <1>3
<1>7. /\ a <= base + position /\ base + position <= b
      /\ position + c <= next /\ next <= position + d /\ next \in Int
  BY <1>2, <1>3
<1>. HIDE DEF a, b, c, d
<1>8. /\ base + next \in Int
      /\ 0 + (a + c) <= base + next
      /\ base + next <= 0 + (b + d)
  BY <1>6, <1>7
<1>. QED
  BY <1>4, <1>5, <1>8 DEF a, b, c, d

-----------------------------------------------------------------------------
(* One chunk *)

\* What is drained lies before the next position, and one frame more is kept.
LEMMA ConsumedBound ==
  ASSUME ResamplerAssumption, NEW position \in Nat
  PROVE  Consumed(position) \in Nat /\ Consumed(position) * Frame <= position
<1>. DEFINE q == position \div Frame
            gone == Consumed(position)
<1>1. Frame \in Nat \ {0}
  BY Steps
<1>2. q \in Nat /\ Frame * q <= position
  BY <1>1, Division
<1>3. gone = Monus(q, 1)
  BY DEF Consumed
<1>. HIDE DEF q, gone
<1>4. gone \in Nat /\ gone <= q
  BY <1>2, <1>3 DEF Monus
<1>5. gone * Frame \in Nat /\ q * Frame \in Nat /\ gone * Frame <= q * Frame
  BY <1>1, <1>2, <1>4, Multiples
<1>6. q * Frame = Frame * q
  BY <1>1, <1>2
<1>7. gone * Frame <= position
  BY <1>2, <1>5, <1>6
<1>. QED
  BY <1>4, <1>7 DEF gone

\* A chunk of n frames: the position goes on where it was, every sample that the
\* frames surely allow is made, and none that they do not.
LEMMA ChunkStands ==
  ASSUME ResamplerAssumption,
         NEW rate \in Nat \ {0}, NEW n \in Nat,
         NEW pending \in Nat, NEW position \in Nat,
         NEW before \in Nat, NEW total \in Nat, NEW count \in Nat,
         StandsAt(rate, before, pending, position, total, count),
         NEW more \in Nat, NEW next \in After(position, more, rate),
         Stops(pending + n, position, rate, more, next)
  PROVE  LET frames == pending + n
             gone == Consumed(next)
         IN  /\ frames \in Nat /\ next \in Nat /\ gone \in Nat
             /\ gone <= frames =>
                  /\ frames - gone \in Nat /\ next - gone * Frame \in Nat
                  /\ StandsAt(rate, before + gone, frames - gone, next - gone * Frame,
                              total + n, count + more)
<1>. DEFINE frames == pending + n
            gone == Consumed(next)
            all == frames * Frame
            origin == before * Frame
            spent == gone * Frame
            step == rate * Grain
            slack == Slack(rate)
<1>1. /\ frames \in Nat /\ all \in Nat /\ Frame \in Nat \ {0} /\ origin \in Nat
      /\ step \in Nat /\ slack \in Nat /\ slack < step
  BY Steps
<1>2. /\ origin + position \in After(0, count, rate) /\ before + pending = total
      /\ count > 0 => MayBelow((origin + position) - step - slack, total)
  BY DEF StandsAt
<1>3. next \in Nat
  <2>1. /\ more * (rate * Grain - Slack(rate)) \in Nat /\ next \in Int
        /\ position + more * (rate * Grain - Slack(rate)) <= next
    <3>1. position \in Int
      OBVIOUS
    <3>. QED
      BY Zenon, <3>1, AfterSteps
  <2>. DEFINE far == more * (rate * Grain - Slack(rate))
  <2>. HIDE DEF far
  <2>2. far \in Nat /\ next \in Int /\ position + far <= next
    BY <2>1 DEF far
  <2>. QED
    BY <2>2
<1>4. gone \in Nat /\ spent <= next
  BY <1>3, ConsumedBound
<1>5. spent \in Nat
  BY <1>1, <1>4
<1>6. (before + gone) * Frame = origin + spent
  BY <1>1, <1>4
<1>7. (total + n) * Frame = origin + all /\ total * Frame \in Nat
      /\ total * Frame <= (total + n) * Frame
  <2>1. total + n = before + frames
    BY <1>2
  <2>2. (before + frames) * Frame = origin + all
    BY <1>1
  <2>3. total * Frame \in Nat /\ total * Frame <= (total + n) * Frame
    BY <1>1, Multiples
  <2>. QED
    BY <2>1, <2>2, <2>3
<1>8. origin + next \in After(0, count + more, rate)
  BY <1>1, <1>2, AfterMore
<1>9. ~MustBelow(origin + next, total + n, rate)
  <2>1. ~(next + Frame < all - slack)
    BY DEF Stops, MustBelow
  <2>. HIDE DEF all, origin, slack
  <2>2. ~(origin + next + Frame < (total + n) * Frame - slack)
    BY <1>1, <1>3, <1>7, <2>1
  <2>. QED
    BY <2>2 DEF MustBelow, slack
<1>10. ASSUME more > 0 PROVE MayBelow((origin + next) - step - slack, total + n)
  <2>1. PICK last \in After(position, more - 1, rate) :
            MayBelow(last, frames) /\ next \in After(last, 1, rate)
    BY <1>10 DEF Stops
  <2>2. last \in Int
    <3>1. more - 1 \in Nat /\ position \in Int
      BY <1>10
    <3>. QED
      BY Zenon, <2>1, <3>1, AfterSteps
  <2>3. next <= last + 1 * (rate * Grain + Slack(rate))
    <3>1. 1 \in Nat
      OBVIOUS
    <3>. QED
      BY Zenon, <2>1, <2>2, <3>1, AfterSteps
  <2>4. 1 * (step + slack) = step + slack
    BY <1>1
  <2>5. last + Frame < all
    BY <2>1 DEF MayBelow
  <2>6. next <= last + (step + slack)
    BY <2>3, <2>4
  <2>. HIDE DEF all, origin, step, slack
  <2>7. ((origin + next) - step - slack) + Frame < (total + n) * Frame
    BY <1>1, <1>3, <1>7, <2>2, <2>5, <2>6
  <2>. QED
    BY <2>7 DEF MayBelow
<1>11. ASSUME more = 0, count > 0 PROVE MayBelow((origin + next) - step - slack, total + n)
  <2>1. next = position
    BY <1>11 DEF Stops
  <2>2. ((origin + next) - step - slack) + Frame < total * Frame
    BY <1>2, <1>11, <2>1 DEF MayBelow
  <2>. DEFINE old == total * Frame
              new == (total + n) * Frame
  <2>3. old \in Nat /\ new \in Nat /\ old <= new
    BY <1>1, <1>7
  <2>. HIDE DEF origin, step, slack, old, new
  <2>4. ((origin + next) - step - slack) + Frame < old
    BY <2>2 DEF old
  <2>5. ((origin + next) - step - slack) + Frame < new
    BY <1>1, <1>3, <2>3, <2>4
  <2>. QED
    BY <2>5 DEF MayBelow, new
<1>12. count + more > 0 => MayBelow((origin + next) - step - slack, total + n)
  BY <1>10, <1>11
<1>. HIDE DEF all, origin, spent, step, slack, gone, frames
<1>13. ASSUME gone <= frames
       PROVE  /\ frames - gone \in Nat /\ next - spent \in Nat
              /\ StandsAt(rate, before + gone, frames - gone, next - spent, total + n,
                          count + more)
  <2>1. frames - gone \in Nat /\ next - spent \in Nat
    BY <1>1, <1>3, <1>4, <1>5, <1>13
  <2>2. (before + gone) + (frames - gone) = total + n
    BY <1>1, <1>2, <1>4, <2>1 DEF frames
  <2>3. origin + spent + (next - spent) = origin + next
    BY <1>1, <1>3, <1>5
  <2>4. (before + gone) * Frame + (next - spent) = origin + next
    BY Zenon, <1>6, <2>3
  <2>. QED
    BY Zenon, <1>8, <1>9, <1>12, <2>1, <2>2, <2>4 DEF StandsAt, step, slack
<1>. QED
  BY Zenon, <1>1, <1>3, <1>4, <1>13 DEF spent, gone, frames

-----------------------------------------------------------------------------
(* The steps *)

LEMMA Accepted ==
  ASSUME ResamplerAssumption, IInv,
         NEW size \in Sizes, NEW rate \in Rates, NEW channels \in Channels,
         Valid(size, rate, channels)
  PROVE  /\ rate \in Nat \ {0} /\ channels \in Nat \ {0}
         /\ size \div channels \in Nat
         /\ normalizer.rate \in {0, rate}
<1>1. size \in Nat /\ rate \in Nat \ {0} /\ channels \in Nat \ {0}
  BY DEF ResamplerAssumption, Valid
<1>2. size \div channels \in Nat
  BY <1>1, Division
<1>. QED
  BY <1>1, <1>2 DEF Valid

LEMMA PassThroughKeeps ==
  ASSUME ResamplerAssumption, IInv,
         NEW size \in Sizes, NEW rate \in Rates, NEW channels \in Channels,
         PassThrough(size, rate, channels)
  PROVE  IInv'
<1>. DEFINE n == size \div channels
<1>1. /\ rate \in Nat \ {0} /\ channels \in Nat \ {0} /\ n \in Nat
      /\ normalizer.rate \in {0, rate}
  BY Accepted DEF PassThrough
<1>2. /\ rate = Target /\ ~panicked
      /\ normalizer' = [normalizer EXCEPT !.rate = rate, !.channels = channels]
      /\ accepted' = accepted + n /\ made' = made + n
      /\ UNCHANGED <<drained, panicked>>
  BY DEF PassThrough
<1>. HIDE DEF n
<1>3. made = accepted
  BY <1>1, <1>2 DEF IInv, Even
<1>4. Types'
  <2>1. normalizer' = [rate |-> rate, channels |-> channels, pending |-> normalizer.pending,
                       position |-> normalizer.position]
    BY <1>2 DEF IInv, Types
  <2>2. normalizer.pending \in Nat /\ normalizer.position \in Nat
    BY DEF IInv, Types
  <2>3. accepted' \in Nat /\ made' \in Nat
    BY <1>1, <1>2 DEF IInv, Types
  <2>. QED
    BY <1>1, <1>2, <2>1, <2>2, <2>3 DEF IInv, Types
<1>5. normalizer'.rate = rate /\ made' = accepted'
  BY <1>1, <1>2, <1>3 DEF IInv, Types
<1>6. Even'
  BY <1>1, <1>2, <1>5 DEF Even
<1>. QED
  BY <1>4, <1>6 DEF IInv

LEMMA ResampleKeeps ==
  ASSUME ResamplerAssumption, IInv,
         NEW size \in Sizes, NEW rate \in Rates, NEW channels \in Channels,
         Resample(size, rate, channels)
  PROVE  IInv'
<1>. DEFINE n == size \div channels
            pending == normalizer.pending
            position == normalizer.position
            frames == pending + n
<1>1. /\ rate \in Nat \ {0} /\ channels \in Nat \ {0} /\ n \in Nat
      /\ normalizer.rate \in {0, rate}
  BY Accepted DEF Resample
<1>2. /\ pending \in Nat /\ position \in Nat /\ accepted \in Nat /\ drained \in Nat
      /\ made \in Nat
  BY DEF IInv, Types
<1>3. ~panicked /\ rate # Target /\ accepted' = accepted + n
  BY DEF Resample
<1>4. StandsAt(rate, drained, pending, position, accepted, made)
  <2>1. CASE normalizer.rate = 0
    <3>1. /\ accepted = 0 /\ drained = 0 /\ made = 0 /\ pending = 0 /\ position = 0
      BY <1>3, <2>1 DEF IInv, Even
    <3>2. Frame \in Nat \ {0} /\ Slack(rate) \in Nat /\ 0 * Frame + 0 = 0
      BY <1>1, Steps
    <3>3. 0 \in After(0, 0, rate)
      <4>1. 0 \in Nat /\ 0 \in Int
        OBVIOUS
      <4>2. /\ 0 \in After(0, 0, rate) <=>
                 /\ 0 \in Int
                 /\ 0 + 0 * (rate * Grain - Slack(rate)) <= 0
                 /\ 0 <= 0 + 0 * (rate * Grain + Slack(rate))
        BY <1>1, <4>1, AfterSteps
      <4>3. rate * Grain \in Nat /\ Slack(rate) \in Nat
        BY <1>1, Steps
      <4>. QED
        BY <4>2, <4>3
    <3>4. ~MustBelow(0, 0, rate)
      BY <3>2 DEF MustBelow
    <3>. QED
      BY <3>1, <3>2, <3>3, <3>4 DEF StandsAt
  <2>2. CASE normalizer.rate = rate
    BY <1>1, <1>3, <2>2 DEF IInv, Even, Stands
  <2>. QED
    BY <1>1, <2>1, <2>2
<1>5. PICK more \in 0..Most(frames, rate) : \E next \in After(position, more, rate) :
        /\ Stops(frames, position, rate, more, next)
        /\ IF Consumed(next) > frames
           THEN /\ panicked' = TRUE
                /\ normalizer' = [rate |-> rate, channels |-> channels,
                                   pending |-> frames, position |-> next]
                /\ UNCHANGED <<drained, made>>
           ELSE /\ normalizer' = [rate |-> rate, channels |-> channels,
                                   pending |-> Drain(frames, next).pending,
                                   position |-> Drain(frames, next).position]
                /\ drained' = drained + Consumed(next)
                /\ made' = made + more
                /\ UNCHANGED panicked
  BY DEF Resample
<1>6. PICK next \in After(position, more, rate) :
        /\ Stops(frames, position, rate, more, next)
        /\ IF Consumed(next) > frames
           THEN /\ panicked' = TRUE
                /\ normalizer' = [rate |-> rate, channels |-> channels,
                                   pending |-> frames, position |-> next]
                /\ UNCHANGED <<drained, made>>
           ELSE /\ normalizer' = [rate |-> rate, channels |-> channels,
                                   pending |-> Drain(frames, next).pending,
                                   position |-> Drain(frames, next).position]
                /\ drained' = drained + Consumed(next)
                /\ made' = made + more
                /\ UNCHANGED panicked
  BY <1>5
<1>. DEFINE gone == Consumed(next)
<1>7. more \in Nat
  OBVIOUS
<1>8. /\ frames \in Nat /\ next \in Nat /\ gone \in Nat
      /\ gone <= frames =>
           /\ frames - gone \in Nat /\ next - gone * Frame \in Nat
           /\ StandsAt(rate, drained + gone, frames - gone, next - gone * Frame,
                       accepted + n, made + more)
  <2>. HIDE DEF n, pending, position
  <2>. QED
    BY Zenon, <1>1, <1>2, <1>4, <1>6, <1>7, ChunkStands
<1>9. CASE gone > frames
  <2>1. /\ panicked' = TRUE /\ UNCHANGED <<drained, made>>
        /\ normalizer' = [rate |-> rate, channels |-> channels,
                           pending |-> frames, position |-> next]
    BY <1>9, <1>6
  <2>. HIDE DEF frames
  <2>2. Types'
    BY <1>1, <1>2, <1>3, <1>8, <2>1 DEF Types
  <2>3. Even'
    BY <2>1 DEF Even
  <2>. QED
    BY <2>2, <2>3 DEF IInv
<1>10. CASE ~(gone > frames)
  <2>1. /\ UNCHANGED panicked
        /\ drained' = drained + gone /\ made' = made + more
        /\ normalizer' = [rate |-> rate, channels |-> channels,
                           pending |-> frames - gone, position |-> next - gone * Frame]
    BY <1>10, <1>6 DEF Drain
  <2>. HIDE DEF n, frames, gone
  <2>2. /\ frames - gone \in Nat /\ next - gone * Frame \in Nat
        /\ StandsAt(rate, drained + gone, frames - gone, next - gone * Frame,
                    accepted + n, made + more)
    <3>1. gone <= frames
      BY <1>8, <1>10
    <3>. QED
      BY Zenon, <1>8, <3>1
  <2>. DEFINE left == frames - gone
              place == next - gone * Frame
  <2>3. /\ left \in Nat /\ place \in Nat
        /\ normalizer' = [rate |-> rate, channels |-> channels, pending |-> left,
                           position |-> place]
        /\ StandsAt(rate, drained', left, place, accepted', made')
    BY Zenon, <1>3, <2>1, <2>2
  <2>4. accepted' \in Nat /\ drained' \in Nat /\ made' \in Nat
    BY <1>1, <1>2, <1>3, <1>7, <1>8, <2>1
  <2>. HIDE DEF left, place
  <2>5. Types'
    BY <1>1, <2>1, <2>3, <2>4 DEF IInv, Types
  <2>6. /\ normalizer'.rate = rate /\ normalizer'.pending = left
        /\ normalizer'.position = place
    BY <2>3
  <2>7. StandsAt(rate, drained', normalizer'.pending, normalizer'.position, accepted', made')
    BY Zenon, <2>3, <2>6
  <2>8. Even'
    BY <1>1, <1>3, <2>6, <2>7 DEF Even, Stands
  <2>. QED
    BY <2>5, <2>8 DEF IInv
<1>. QED
  BY <1>9, <1>10

\* EvenlySampled: how a stream is cut into chunks does not show but for the
\* rounding (stt.rs 307-323), for any rates and channel counts.
THEOREM SampledEvenly == ASSUME ResamplerAssumption PROVE Spec => []EvenlySampled
<1>1. Init => IInv
  <2>. SUFFICES ASSUME Init PROVE IInv
    OBVIOUS
  <2>1. normalizer.rate = 0 /\ normalizer.pending = 0 /\ normalizer.position = 0
    BY DEF Init
  <2>2. Types
    BY DEF Init, Types
  <2>3. Even
    BY <2>1 DEF Init, Even
  <2>. QED
    BY <2>2, <2>3 DEF IInv
<1>2. IInv /\ [Next]_vars => IInv'
  <2>1. ASSUME IInv, Next PROVE IInv'
    BY <2>1, PassThroughKeeps, ResampleKeeps DEF Next
  <2>2. ASSUME IInv, UNCHANGED vars PROVE IInv'
    BY <2>2 DEF vars, IInv, Types, Even, Stands
  <2>. QED
    BY <2>1, <2>2
<1>3. IInv => EvenlySampled
  <2>. SUFFICES ASSUME IInv, ~panicked, normalizer.rate # 0, normalizer.rate # Target
                PROVE  StandsAt(normalizer.rate, drained, normalizer.pending,
                                normalizer.position, accepted, made)
    BY DEF EvenlySampled, IInv, Even, StandsAt
  <2>. QED
    BY DEF IInv, Even, Stands
<1>. QED
  BY <1>1, <1>2, <1>3, PTL DEF Spec
=============================================================================
