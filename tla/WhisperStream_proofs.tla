------------------------ MODULE WhisperStream_proofs ------------------------
(***************************************************************************)
(* Streaming transcription for any utterance, configuration, sizes of      *)
(* pushes and failures of the decoder.                                     *)
(*                                                                         *)
(* First the operators: arithmetic of times, the decoder's phrases and how *)
(* they are split, sorted and compared, commits and trims.  Then the words *)
(* of a hypothesis in their places, and what a decode adds to words that   *)
(* are committed in theirs.  Then the two invariants, Inductive and, for   *)
(* InPlace, InStep; one lemma for each action; and the theorems.           *)
(***************************************************************************)
EXTENDS WhisperStream, FiniteSetTheorems, SequenceTheorems, TLAPS

-----------------------------------------------------------------------------
(* Arithmetic *)

(* Division by a positive number rounds down.                                *)
LEMMA Division ==
  ASSUME NEW a \in Nat, NEW m \in Nat \ {0}
  PROVE  /\ a \div m \in Nat
         /\ m * (a \div m) <= a
         /\ a < m * (a \div m) + m
  OBVIOUS

(* It keeps order ...                                                        *)
LEMMA DivisionMonotone ==
  ASSUME NEW a \in Nat, NEW b \in Nat, a <= b, NEW m \in Nat \ {0}
  PROVE  a \div m <= b \div m
<1>. DEFINE p == a \div m
            q == b \div m
<1>1. p \in Nat /\ q \in Nat /\ m * p <= a /\ b < m * q + m
  BY Division
<1>. HIDE DEF p, q
<1>2. ASSUME p > q PROVE FALSE
  <2>1. m * p >= m * (q + 1)
    BY <1>1, <1>2
  <2>2. m * (q + 1) = m * q + m
    BY <1>1
  <2>. QED
    BY <1>1, <2>1, <2>2
<1>3. p <= q
  BY <1>1, <1>2
<1>. QED
  BY <1>3 DEF p, q

(* ... and two of them lose no less than one.                                *)
LEMMA DivisionAdds ==
  ASSUME NEW a \in Nat, NEW b \in Nat, NEW m \in Nat \ {0}
  PROVE  a \div m + b \div m <= (a + b) \div m
<1>. DEFINE p == a \div m
            q == b \div m
            r == (a + b) \div m
<1>1. /\ p \in Nat /\ q \in Nat /\ r \in Nat
      /\ m * p <= a /\ m * q <= b /\ a + b < m * r + m
  BY Division
<1>. HIDE DEF p, q, r
<1>2. ASSUME p + q > r PROVE FALSE
  <2>1. m * (p + q) >= m * (r + 1)
    BY <1>1, <1>2
  <2>2. m * (p + q) = m * p + m * q /\ m * (r + 1) = m * r + m
    BY <1>1
  <2>. QED
    BY <1>1, <2>1, <2>2
<1>3. p + q <= r
  BY <1>1, <1>2
<1>. QED
  BY <1>3 DEF p, q, r

(* A share of a whole is no more than the whole.                             *)
LEMMA ShareBounds ==
  ASSUME NEW d \in Nat, NEW i \in Nat, NEW n \in Nat \ {0}, i <= n
  PROVE  (d * i) \div n \in 0 .. d
<1>. DEFINE q == (d * i) \div n
<1>1. d * i \in Nat /\ d * i <= d * n
  OBVIOUS
<1>2. q \in Nat /\ n * q <= d * i
  BY <1>1, Division
<1>. HIDE DEF q
<1>3. ASSUME q > d PROVE FALSE
  <2>1. n * q >= n * (d + 1)
    BY <1>2, <1>3
  <2>2. n * (d + 1) = n * d + n /\ n * d = d * n
    OBVIOUS
  <2>3. n * q \in Nat /\ n * d \in Nat
    BY <1>2
  <2>. QED
    BY <1>1, <1>2, <2>1, <2>2, <2>3
<1>4. q \in 0 .. d
  BY <1>2, <1>3
<1>. QED
  BY <1>4 DEF q

(* A bounded set of numbers has a greatest and a least member.               *)
LEMMA Extremes ==
  ASSUME NEW S \in SUBSET Nat, S # {}, NEW b \in Nat, \A x \in S : x <= b
  PROVE  /\ Max(S) \in S /\ \A x \in S : x <= Max(S)
         /\ Min(S) \in S /\ \A x \in S : Min(S) <= x
<1>. DEFINE Less == OpToRel(<, Nat)
            T == {b - x : x \in S}
<1>1. \A x, y \in Nat : x < y => <<x, y>> \in Less
  BY DEF OpToRel
<1>2. T \subseteq Nat /\ T # {}
  <2>1. ASSUME NEW x \in S PROVE b - x \in Nat
    BY <2>1
  <2>. QED
    BY <2>1
<1>3. IsWellFoundedOn(Less, Nat)
  BY NatLessThanWellFounded, Zenon
<1>. HIDE DEF Less, T
<1>4. \E x \in S : \A y \in S : ~ (<<y, x>> \in Less)
  BY <1>3, WFMin, Zenon
<1>5. \E x \in T : \A y \in T : ~ (<<y, x>> \in Less)
  BY <1>2, <1>3, WFMin, Zenon
<1>6. PICK x \in S : \A y \in S : x <= y
  <2>1. PICK x \in S : \A y \in S : ~ (<<y, x>> \in Less)
    BY <1>4
  <2>2. \A y \in S : ~(y < x)
    BY <1>1, <2>1
  <2>. QED
    BY <2>2
<1>7. PICK z \in S : \A y \in S : y <= z
  <2>1. PICK t \in T : \A u \in T : t <= u
    <3>1. PICK t \in T : \A u \in T : ~ (<<u, t>> \in Less)
      BY <1>5
    <3>2. \A u \in T : ~(u < t)
      BY <1>1, <1>2, <3>1
    <3>. QED
      BY <1>2, <3>2
  <2>2. PICK z \in S : t = b - z
    BY <2>1 DEF T
  <2>3. \A y \in S : b - z <= b - y
    BY <2>1, <2>2 DEF T
  <2>. QED
    BY <2>3
<1>8. Max(S) \in S /\ \A y \in S : Max(S) >= y
  BY <1>7 DEF Max
<1>9. Min(S) \in S /\ \A y \in S : Min(S) =< y
  BY <1>6 DEF Min
<1>. QED
  BY <1>8, <1>9

(* A finite sequence of numbers is bounded.                                  *)
LEMMA Bounded ==
  ASSUME NEW e \in Seq(Nat)
  PROVE  \E b \in Nat : \A i \in 1..Len(e) : e[i] <= b
<1>. DEFINE Up(n) == \E b \in Nat : \A i \in 1..n : e[i] <= b
            S == {n \in 0..Len(e) : Up(n)}
<1>1. Len(e) \in Nat /\ \A i \in 1..Len(e) : e[i] \in Nat
  OBVIOUS
<1>2. Up(0)
  OBVIOUS
<1>3. ASSUME NEW n \in 0..(Len(e) - 1), Up(n) PROVE Up(n + 1)
  <2>1. PICK b \in Nat : \A i \in 1..n : e[i] <= b
    BY <1>3
  <2>2. e[n + 1] \in Nat /\ b + e[n + 1] \in Nat
    BY <1>1
  <2>3. \A i \in 1..(n + 1) : e[i] <= b + e[n + 1]
    BY <1>1, <2>1, <2>2
  <2>. QED
    BY <2>2, <2>3
<1>. HIDE DEF Up
<1>4. Max(S) \in S /\ \A x \in S : x <= Max(S)
  <2>1. S \in SUBSET Nat /\ S # {} /\ \A x \in S : x <= Len(e)
    BY <1>1, <1>2
  <2>. HIDE DEF S
  <2>. QED
    BY <1>1, <2>1, Extremes
<1>. DEFINE m == Max(S)
<1>5. m \in 0..Len(e) /\ Up(m) /\ \A x \in S : x <= m
  BY <1>4
<1>. HIDE DEF m
<1>6. m = Len(e)
  <2>1. ASSUME m # Len(e) PROVE FALSE
    <3>1. m \in 0..(Len(e) - 1) /\ m + 1 \in 0..Len(e)
      BY <1>1, <1>5, <2>1
    <3>2. m + 1 \in S
      BY <1>3, <1>5, <3>1
    <3>. QED
      BY <1>5, <3>2
  <2>. QED
    BY <2>1
<1>. QED
  BY <1>5, <1>6 DEF Up

-----------------------------------------------------------------------------
(* Sorting *)

(* Words as split_segment_words leaves them, each in a place of its own.     *)
Placed == [text : Text, word : 1..Len(Spoken), start : Nat, end : Nat, place : Nat \X Nat]
Apart(S) == \A v, w \in S : v.place = w.place => v = w

(* Earlier orders them.                                                      *)
LEMMA EarlierOrders ==
  ASSUME NEW S \in SUBSET Placed, Apart(S)
  PROVE  /\ \A v \in S : ~Earlier(v, v)
         /\ \A u, v, w \in S : Earlier(u, v) /\ Earlier(v, w) => Earlier(u, w)
         /\ \A v, w \in S : v # w => Earlier(v, w) \/ Earlier(w, v)
<1>1. \A v \in S : /\ v.start \in Nat /\ v.end \in Nat
                   /\ v.place[1] \in Nat /\ v.place[2] \in Nat
                   /\ v.place = <<v.place[1], v.place[2]>>
  BY DEF Placed
<1>2. ASSUME NEW v \in S, NEW w \in S, v # w PROVE Earlier(v, w) \/ Earlier(w, v)
  <2>1. v.place[1] # w.place[1] \/ v.place[2] # w.place[2]
    BY <1>1, <1>2 DEF Apart
  <2>. QED
    BY <1>1, <2>1 DEF Earlier
<1>3. ASSUME NEW u \in S, NEW v \in S, NEW w \in S, Earlier(u, v), Earlier(v, w)
      PROVE  Earlier(u, w)
  BY <1>1, <1>3 DEF Earlier
<1>. QED
  BY <1>1, <1>2, <1>3 DEF Earlier

(* How many of them are earlier tells them apart, so that every number below *)
(* their count is the rank of one.                                           *)
LEMMA Ranks ==
  ASSUME NEW S \in SUBSET Placed, IsFiniteSet(S), Apart(S)
  PROVE  /\ Cardinality(S) \in Nat
         /\ \A k \in 1..Cardinality(S) :
              \E w \in S : Cardinality({v \in S : Earlier(v, w)}) = k - 1
         /\ \A v, w \in S :
              Cardinality({x \in S : Earlier(x, v)}) < Cardinality({x \in S : Earlier(x, w)})
                => Earlier(v, w)
<1>. DEFINE N == Cardinality(S)
            Below(w) == {v \in S : Earlier(v, w)}
            R == [w \in S |-> Cardinality(Below(w))]
<1>1. N \in Nat
  BY FS_CardinalityType
<1>2. ASSUME NEW w \in S
      PROVE  IsFiniteSet(Below(w)) /\ Cardinality(Below(w)) \in Nat /\ Cardinality(Below(w)) < N
  <2>1. Below(w) \subseteq S \ {w}
    BY EarlierOrders
  <2>2. IsFiniteSet(S \ {w}) /\ Cardinality(S \ {w}) = N - 1
    BY FS_RemoveElement
  <2>. HIDE DEF Below, N
  <2>3. IsFiniteSet(Below(w)) /\ Cardinality(Below(w)) <= N - 1
    BY <2>1, <2>2, FS_Subset
  <2>4. Cardinality(Below(w)) \in Nat
    BY <2>3, FS_CardinalityType
  <2>. QED
    BY <1>1, <2>3, <2>4
<1>3. ASSUME NEW v \in S, NEW w \in S, Earlier(v, w)
      PROVE  Cardinality(Below(v)) < Cardinality(Below(w))
  <2>1. Below(v) \cup {v} \subseteq Below(w) /\ v \notin Below(v)
    BY <1>3, EarlierOrders
  <2>. HIDE DEF Below, N
  <2>2. IsFiniteSet(Below(v) \cup {v}) /\ Cardinality(Below(v) \cup {v}) = Cardinality(Below(v)) + 1
    BY <1>2, <2>1, FS_AddElement
  <2>3. Cardinality(Below(v) \cup {v}) <= Cardinality(Below(w))
    BY <1>2, <2>1, FS_Subset
  <2>. QED
    BY <1>2, <2>2, <2>3
<1>4. R \in Injection(S, 0..(N - 1))
  <2>. HIDE DEF Below, N
  <2>1. R \in [S -> 0..(N - 1)]
    BY <1>1, <1>2
  <2>2. ASSUME NEW v \in S, NEW w \in S, R[v] = R[w] PROVE v = w
    BY <1>2, <1>3, <2>2, EarlierOrders
  <2>. QED
    BY <2>1, <2>2 DEF Injection, IsInjective
<1>5. IsFiniteSet(0..(N - 1)) /\ Cardinality(0..(N - 1)) = N
  <2>1. 0 \in Int /\ N - 1 \in Int
    BY <1>1
  <2>2. Cardinality(0..(N - 1)) = IF 0 > N - 1 THEN 0 ELSE N - 1 - 0 + 1
    BY <2>1, FS_Interval, Zenon
  <2>. HIDE DEF N
  <2>. QED
    BY <1>1, <2>1, <2>2, FS_Interval
<1>6. R \in Surjection(S, 0..(N - 1))
  <2>. HIDE DEF N, R
  <2>. QED
    BY <1>4, <1>5, FS_Injection DEF N
<1>7. ASSUME NEW k \in 1..N PROVE \E w \in S : Cardinality(Below(w)) = k - 1
  <2>. HIDE DEF Below, N
  <2>1. k - 1 \in 0..(N - 1)
    BY <1>1
  <2>. QED
    BY <1>6, <2>1 DEF Surjection
<1>8. ASSUME NEW v \in S, NEW w \in S, Cardinality(Below(v)) < Cardinality(Below(w))
      PROVE  Earlier(v, w)
  <2>. HIDE DEF Below
  <2>1. Cardinality(Below(v)) \in Nat /\ Cardinality(Below(w)) \in Nat
    BY <1>2
  <2>. QED
    BY <1>3, <1>8, <2>1, EarlierOrders
<1>. QED
  BY <1>1, <1>7, <1>8

(* What is sorted: the same words, one after the other.                      *)
LEMMA SortedProperties ==
  ASSUME NEW S \in SUBSET Placed, IsFiniteSet(S), Apart(S)
  PROVE  /\ Sorted(S) \in Seq(Segment)
         /\ \A k \in 1..Len(Sorted(S)) :
              \E w \in S : Sorted(S)[k].start = w.start /\ Sorted(S)[k].end = w.end
         /\ \A k \in 1..Len(Sorted(S)) : \A i \in 1..(k - 1) :
              \E v, w \in S : /\ Sorted(S)[i].end = v.end /\ Sorted(S)[k].end = w.end
                              /\ Sorted(S)[i].text = v.text /\ Sorted(S)[i].word = v.word
                              /\ Earlier(v, w)
<1>. DEFINE N == Cardinality(S)
            Rank(w) == Cardinality({v \in S : Earlier(v, w)})
            Nth(k) == CHOOSE w \in S : Rank(w) = k - 1
            Q == [k \in 1..N |-> [text |-> Nth(k).text, word |-> Nth(k).word,
                                  start |-> Nth(k).start, end |-> Nth(k).end]]
<1>1. N \in Nat
  BY Ranks
<1>2. ASSUME NEW k \in 1..N PROVE Nth(k) \in S /\ Rank(Nth(k)) = k - 1
  <2>1. \E w \in S : Rank(w) = k - 1
    BY Ranks
  <2>. HIDE DEF Rank
  <2>. QED
    BY <2>1
<1>3. Sorted(S) = Q
  BY Zenon DEF Sorted
<1>4. ASSUME NEW k \in 1..N, NEW i \in 1..(k - 1)
      PROVE  i \in 1..N /\ Earlier(Nth(i), Nth(k))
  <2>1. i \in 1..N /\ i - 1 < k - 1
    BY <1>1
  <2>2. /\ Nth(i) \in S /\ Rank(Nth(i)) = i - 1
        /\ Nth(k) \in S /\ Rank(Nth(k)) = k - 1
    BY <1>2, <2>1
  <2>3. Rank(Nth(i)) < Rank(Nth(k))
    BY <2>1, <2>2
  <2>4. \A v, w \in S : Rank(v) < Rank(w) => Earlier(v, w)
    BY Ranks
  <2>. HIDE DEF Nth, Rank
  <2>. QED
    BY <2>1, <2>2, <2>3, <2>4
<1>. HIDE DEF N, Nth, Rank
<1>5. ASSUME NEW k \in 1..N PROVE Q[k] \in Segment
  BY <1>2 DEF Placed, Segment
<1>6. Q \in Seq(Segment) /\ Len(Q) = N
  BY <1>1, <1>5
<1>7. \A k \in 1..N : /\ Q[k].start = Nth(k).start /\ Q[k].end = Nth(k).end
                      /\ Q[k].text = Nth(k).text /\ Q[k].word = Nth(k).word
  OBVIOUS
<1>. HIDE DEF Q
<1>. QED
  BY <1>2, <1>3, <1>4, <1>6, <1>7

-----------------------------------------------------------------------------
(* The decoder *)

(* What it returns: phrases one after the other within a window's length, in *)
(* which only special tokens are not words that were spoken.                 *)
Uttered == [words : Seq([text : Int, word : 0..Len(Spoken)]), start : Nat, end : Nat]
Timed(phrases, length) ==
  /\ phrases \in Seq(Uttered)
  /\ \A p \in 1..Len(phrases) :
       /\ \A n \in DOMAIN phrases[p].words : phrases[p].words[n] # Marker =>
            phrases[p].words[n].text \in Text /\ phrases[p].words[n].word \in 1..Len(Spoken)
       /\ phrases[p].start <= phrases[p].end /\ phrases[p].end <= length
  /\ \A p \in 1..Len(phrases), q \in 1..Len(phrases) :
       p < q => phrases[p].end <= phrases[q].start

(* One that ends before another begins may precede it.                       *)
LEMMA TimedConcat ==
  ASSUME NEW length \in Nat, NEW A, NEW B, Timed(A, length), Timed(B, length),
         \A p \in 1..Len(A), q \in 1..Len(B) : A[p].end <= B[q].start
  PROVE  Timed(A \o B, length)
<1>. DEFINE C == A \o B
<1>1. A \in Seq(Uttered) /\ B \in Seq(Uttered) /\ Len(A) \in Nat /\ Len(B) \in Nat
  BY DEF Timed
<1>2. /\ C \in Seq(Uttered) /\ Len(C) = Len(A) + Len(B)
      /\ \A p \in 1..Len(C) : C[p] = IF p <= Len(A) THEN A[p] ELSE B[p - Len(A)]
  BY <1>1
<1>. HIDE DEF C
<1>3. ASSUME NEW p \in 1..Len(C)
      PROVE  (p \in 1..Len(A) /\ C[p] = A[p]) \/ (p - Len(A) \in 1..Len(B) /\ C[p] = B[p - Len(A)])
  BY <1>1, <1>2
<1>4. ASSUME NEW p \in 1..Len(C), NEW q \in 1..Len(C), p < q
      PROVE  C[p].end <= C[q].start
  <2>1. CASE q <= Len(A)
    <3>1. p \in 1..Len(A) /\ q \in 1..Len(A) /\ C[p] = A[p] /\ C[q] = A[q]
      BY <1>1, <1>2, <1>4, <2>1
    <3>. QED
      BY <1>4, <3>1 DEF Timed
  <2>2. CASE p <= Len(A) /\ q > Len(A)
    <3>1. p \in 1..Len(A) /\ q - Len(A) \in 1..Len(B) /\ C[p] = A[p] /\ C[q] = B[q - Len(A)]
      BY <1>1, <1>2, <2>2
    <3>. QED
      BY <3>1
  <2>3. CASE p > Len(A)
    <3>1. /\ p - Len(A) \in 1..Len(B) /\ q - Len(A) \in 1..Len(B) /\ p - Len(A) < q - Len(A)
          /\ C[p] = B[p - Len(A)] /\ C[q] = B[q - Len(A)]
      BY <1>1, <1>2, <1>4, <2>3
    <3>. QED
      BY <3>1 DEF Timed
  <2>. QED
    BY <1>1, <2>1, <2>2, <2>3
<1>5. \A p \in 1..Len(C) :
        /\ \A n \in DOMAIN C[p].words : C[p].words[n] # Marker =>
             C[p].words[n].text \in Text /\ C[p].words[n].word \in 1..Len(Spoken)
        /\ C[p].start <= C[p].end /\ C[p].end <= length
  BY <1>3 DEF Timed
<1>6. Timed(C, length)
  BY <1>2, <1>4, <1>5 DEF Timed
<1>. QED
  BY <1>6 DEF C

(* Words follow one another.                                                 *)
LEMMA WordTimes ==
  ASSUME NEW i \in 1..Len(Spoken)
  PROVE  /\ WordStart(i) \in Nat /\ WordEnd(i) \in Nat /\ WordStart(i) <= WordEnd(i)
         /\ \A j \in 1..Len(Spoken) : i < j => WordEnd(i) <= WordStart(j)
         /\ \A j \in 1..Len(Spoken) : i <= j => WordStart(i) <= WordStart(j) /\ WordEnd(i) <= WordEnd(j)
<1>. DEFINE w == WordMs * SamplesPerMs
<1>1. /\ WordMs \in Nat /\ SamplesPerMs \in Nat /\ w \in Nat
      /\ \A j \in 1..Len(Spoken) : j \in Nat
  BY WhisperAssumption DEF WhisperAssumption, Validate
<1>2. \A j \in 1..Len(Spoken) : WordStart(j) = (j - 1) * w /\ WordEnd(j) = j * w
  BY <1>1 DEF WordStart, WordEnd, MsToSamples
<1>3. \A a, b \in Nat : a <= b => a * w <= b * w /\ a * w \in Nat
  BY <1>1
<1>. HIDE DEF w
<1>4. \A j \in 1..Len(Spoken) : j - 1 \in Nat /\ j \in Nat
  BY <1>1
<1>5. \A j \in 1..Len(Spoken) : i < j => i <= j - 1
  BY <1>4
<1>. QED
  BY <1>2, <1>3, <1>4, <1>5

(* A phrase of words of which some part lies in the window.                  *)
LEMMA PhraseProperties ==
  ASSUME NEW I \in SUBSET (1..Len(Spoken)), NEW misheard, NEW from \in Nat, NEW to \in Nat,
         from <= to, \A i \in I : WordStart(i) <= to /\ WordEnd(i) >= from
  PROVE  /\ Timed(Phrase(I, misheard, from, to), SamplesToMs(to - from))
         /\ I = {} => Phrase(I, misheard, from, to) = <<>>
         /\ I # {} =>
              /\ Max(I) \in I /\ Min(I) \in I
              /\ Len(Phrase(I, misheard, from, to)) = 1
              /\ Phrase(I, misheard, from, to)[1].start
                   = SamplesToMs(AtLeast(WordStart(Min(I)), from) - from)
              /\ Phrase(I, misheard, from, to)[1].end
                   = SamplesToMs(AtMost(WordEnd(Max(I)), to) - from)
<1>1. CASE I = {}
  <2>1. Phrase(I, misheard, from, to) = <<>>
    BY <1>1 DEF Phrase
  <2>2. Timed(<<>>, SamplesToMs(to - from))
    BY DEF Timed
  <2>. QED
    BY <1>1, <2>1, <2>2
<1>2. CASE I # {}
  <2>. DEFINE Spell(n) == LET i == Min(I) + n - 1
                          IN  [text |-> IF i \in misheard THEN -i ELSE Spoken[i], word |-> i]
              count == Max(I) - Min(I) + 1
              words == <<Marker>> \o [n \in 1..count |-> Spell(n)]
              first == AtLeast(WordStart(Min(I)), from) - from
              last == AtMost(WordEnd(Max(I)), to) - from
              phrase == [words |-> words, start |-> SamplesToMs(first), end |-> SamplesToMs(last)]
  <2>1. /\ Spoken \in Seq(Nat \ {0}) /\ Len(Spoken) \in Nat
        /\ SamplesPerMs \in Nat \ {0}
    BY WhisperAssumption DEF WhisperAssumption
  <2>2. Max(I) \in I /\ Min(I) \in I /\ Min(I) <= Max(I)
    <3>1. I \in SUBSET Nat /\ \A x \in I : x <= Len(Spoken)
      BY <2>1
    <3>2. /\ Max(I) \in I /\ \A x \in I : x <= Max(I)
          /\ Min(I) \in I /\ \A x \in I : Min(I) <= x
      BY <1>2, <2>1, <3>1, Extremes
    <3>. QED
      BY <3>2
  <2>3. count \in Nat /\ \A n \in 1..count : Min(I) + n - 1 \in 1..Len(Spoken)
    <3>1. ASSUME NEW a \in 1..Len(Spoken), NEW b \in 1..Len(Spoken), a <= b
          PROVE  b - a + 1 \in Nat /\ \A n \in 1..(b - a + 1) : a + n - 1 \in 1..Len(Spoken)
      BY <2>1, <3>1
    <3>2. Min(I) \in 1..Len(Spoken) /\ Max(I) \in 1..Len(Spoken) /\ Min(I) <= Max(I)
      BY <2>2
    <3>. HIDE DEF count
    <3>. QED
      BY <3>1, <3>2 DEF count
  <2>4. \A n \in 1..count : Spell(n) \in [text : Text, word : 1..Len(Spoken)]
    BY <2>1, <2>3 DEF Text
  <2>5. Marker \in [text : Int, word : 0..Len(Spoken)]
    BY <2>1 DEF Marker
  <2>6. /\ words \in Seq([text : Int, word : 0..Len(Spoken)])
        /\ \A n \in DOMAIN words : words[n] = Marker \/ words[n] \in [text : Text, word : 1..Len(Spoken)]
    <3>. DEFINE rest == [n \in 1..count |-> Spell(n)]
    <3>. HIDE DEF Spell, count
    <3>1. /\ rest \in Seq([text : Int, word : 0..Len(Spoken)]) /\ Len(rest) = count
          /\ \A n \in 1..Len(rest) : rest[n] \in [text : Text, word : 1..Len(Spoken)]
      BY <2>3, <2>4 DEF Text
    <3>. HIDE DEF rest
    <3>2. <<Marker>> \in Seq([text : Int, word : 0..Len(Spoken)])
      BY <2>5
    <3>3. <<Marker>> \o rest \in Seq([text : Int, word : 0..Len(Spoken)])
      BY <3>1, <3>2
    <3>4. \A n \in DOMAIN (<<Marker>> \o rest) :
            (<<Marker>> \o rest)[n] = Marker
              \/ (<<Marker>> \o rest)[n] \in [text : Text, word : 1..Len(Spoken)]
      BY <3>1
    <3>. QED
      BY <3>3, <3>4 DEF rest
  <2>7. first \in Nat /\ last \in Nat /\ first <= last /\ last <= to - from
    <3>1. /\ WordStart(Min(I)) \in Nat /\ WordEnd(Max(I)) \in Nat
          /\ WordStart(Min(I)) <= WordStart(Max(I)) /\ WordStart(Max(I)) <= WordEnd(Max(I))
          /\ WordStart(Max(I)) \in Nat
      BY <2>2, WordTimes
    <3>2. /\ WordStart(Min(I)) <= to /\ WordEnd(Max(I)) >= from
      BY <2>2
    <3>. QED
      BY <3>1, <3>2 DEF AtLeast, AtMost
  <2>. HIDE DEF words, first, last
  <2>8. /\ SamplesToMs(first) \in Nat /\ SamplesToMs(last) \in Nat
        /\ SamplesToMs(first) <= SamplesToMs(last)
        /\ SamplesToMs(last) <= SamplesToMs(to - from)
    BY <2>1, <2>7, Division, DivisionMonotone DEF SamplesToMs
  <2>9. Phrase(I, misheard, from, to) = <<phrase>>
    BY <1>2, Zenon DEF Phrase, words, first, last
  <2>10. Timed(<<phrase>>, SamplesToMs(to - from))
    <3>1. phrase \in Uttered
      BY <2>6, <2>8 DEF Uttered
    <3>2. /\ phrase.words = words /\ phrase.start = SamplesToMs(first)
          /\ phrase.end = SamplesToMs(last)
      OBVIOUS
    <3>. HIDE DEF phrase
    <3>3. /\ <<phrase>> \in Seq(Uttered) /\ Len(<<phrase>>) = 1 /\ <<phrase>>[1] = phrase
      BY <3>1
    <3>4. \A p \in 1..Len(<<phrase>>) : <<phrase>>[p] = phrase /\ p = 1
      BY <3>3
    <3>. QED
      BY <2>6, <2>8, <3>2, <3>3, <3>4 DEF Timed
  <2>11. /\ Len(<<phrase>>) = 1 /\ <<phrase>>[1] = phrase
         /\ phrase.start = SamplesToMs(first) /\ phrase.end = SamplesToMs(last)
    OBVIOUS
  <2>. HIDE DEF phrase
  <2>12. /\ Phrase(I, misheard, from, to)[1].start = SamplesToMs(first)
         /\ Phrase(I, misheard, from, to)[1].end = SamplesToMs(last)
    BY <2>9, <2>11
  <2>. QED
    BY <1>2, <2>2, <2>9, <2>10, <2>11, <2>12 DEF first, last
<1>. QED
  BY <1>1, <1>2

(* Two of its phrases follow one another as their words do.                  *)
LEMMA PhraseFollows ==
  ASSUME NEW I \in SUBSET (1..Len(Spoken)), NEW J \in SUBSET (1..Len(Spoken)),
         NEW x, NEW y, NEW from \in Nat, NEW to \in Nat, from <= to,
         \A i \in I : WordStart(i) <= to /\ WordEnd(i) >= from,
         \A j \in J : WordStart(j) <= to /\ WordEnd(j) >= from,
         \A i \in I, j \in J : i < j,
         NEW p \in 1..Len(Phrase(I, x, from, to)), NEW q \in 1..Len(Phrase(J, y, from, to))
  PROVE  Phrase(I, x, from, to)[p].end <= Phrase(J, y, from, to)[q].start
<1>. DEFINE A == Phrase(I, x, from, to)
            B == Phrase(J, y, from, to)
<1>a. /\ I = {} => A = <<>>
      /\ I # {} => Len(A) = 1
  BY PhraseProperties
<1>b. /\ J = {} => B = <<>>
      /\ J # {} => Len(B) = 1
  BY PhraseProperties
<1>c. p \in 1..Len(A) /\ q \in 1..Len(B)
  OBVIOUS
<1>. HIDE DEF A, B
<1>d. I # {} /\ Len(A) = 1
  <2>1. I # {}
    BY <1>a, <1>c
  <2>. QED
    BY <1>a, <2>1
<1>e. J # {} /\ Len(B) = 1
  <2>1. J # {}
    BY <1>b, <1>c
  <2>. QED
    BY <1>b, <2>1
<1>1. I # {} /\ J # {}
  BY <1>d, <1>e
<1>2. p = 1 /\ q = 1
  BY <1>c, <1>d, <1>e
<1>3. Max(I) \in I /\ Min(J) \in J
  BY <1>1, PhraseProperties
<1>. DEFINE last == AtMost(WordEnd(Max(I)), to) - from
            first == AtLeast(WordStart(Min(J)), from) - from
<1>4. last \in Nat /\ first \in Nat /\ last <= first
  <2>1. WordEnd(Max(I)) \in Nat /\ WordStart(Min(J)) \in Nat /\ WordEnd(Max(I)) <= WordStart(Min(J))
    BY <1>3, WordTimes
  <2>2. WordEnd(Max(I)) >= from /\ WordStart(Min(J)) <= to
    BY <1>3
  <2>. QED
    BY <2>1, <2>2 DEF AtLeast, AtMost
<1>5. /\ Phrase(I, x, from, to)[1].end = SamplesToMs(last)
      /\ Phrase(J, y, from, to)[1].start = SamplesToMs(first)
  BY <1>1, PhraseProperties
<1>. HIDE DEF last, first
<1>6. SamplesToMs(last) <= SamplesToMs(first)
  BY <1>4, DivisionMonotone, WhisperAssumption DEF SamplesToMs, WhisperAssumption
<1>. QED
  BY <1>2, <1>5, <1>6

(* An entry of a phrase that is not what was spoken.                         *)
Wrong(w) == w # Marker /\ w.text # Spoken[w.word]
Clean(phrases) ==
  \A p \in 1..Len(phrases) : \A n \in 1..Len(phrases[p].words) : ~Wrong(phrases[p].words[n])

(* It can only be the last of a hypothesis.                                  *)
AtEnd(phrases) ==
  \A p \in 1..Len(phrases) : \A n \in 1..Len(phrases[p].words) :
    Wrong(phrases[p].words[n]) => p = Len(phrases) /\ n = Len(phrases[p].words)

(* A phrase mishears at most its last word.                                  *)
LEMMA PhraseHeard ==
  ASSUME NEW I \in SUBSET (1..Len(Spoken)), NEW misheard, NEW from \in Nat, NEW to \in Nat,
         \A i \in misheard : i = Max(I)
  PROVE  /\ AtEnd(Phrase(I, misheard, from, to))
         /\ misheard = {} => Clean(Phrase(I, misheard, from, to))
<1>1. CASE I = {}
  BY <1>1 DEF Phrase, AtEnd, Clean
<1>2. CASE I # {}
  <2>. DEFINE Spell(n) == LET i == Min(I) + n - 1
                          IN  [text |-> IF i \in misheard THEN -i ELSE Spoken[i], word |-> i]
              count == Max(I) - Min(I) + 1
              rest == [n \in 1..count |-> Spell(n)]
              words == <<Marker>> \o rest
              phrase == [words |-> words,
                         start |-> SamplesToMs(AtLeast(WordStart(Min(I)), from) - from),
                         end |-> SamplesToMs(AtMost(WordEnd(Max(I)), to) - from)]
  <2>1. Phrase(I, misheard, from, to) = <<phrase>>
    BY <1>2, Zenon DEF Phrase
  <2>2. Max(I) \in Nat /\ Min(I) \in Nat /\ count \in Nat
    <3>1. Len(Spoken) \in Nat /\ I \in SUBSET Nat /\ \A x \in I : x <= Len(Spoken)
      BY WhisperAssumption DEF WhisperAssumption
    <3>2. /\ Max(I) \in I /\ \A x \in I : x <= Max(I)
          /\ Min(I) \in I /\ \A x \in I : Min(I) <= x
      BY <1>2, <3>1, Extremes
    <3>3. Max(I) \in Nat /\ Min(I) \in Nat /\ Min(I) <= Max(I)
      BY <3>1, <3>2
    <3>. QED
      BY <3>3
  <2>3. /\ Len(words) = count + 1
        /\ words[1] = Marker
        /\ \A n \in 1..count : words[n + 1] = Spell(n)
    <3>1. Len(rest) = count /\ \A n \in 1..count : rest[n] = Spell(n)
      <4>. HIDE DEF count, Spell
      <4>. QED
        BY <2>2
    <3>2. rest \in Seq({Spell(n) : n \in 1..count})
      <4>. HIDE DEF count, Spell
      <4>. QED
        BY <2>2
    <3>. HIDE DEF rest, count, Spell
    <3>. QED
      BY <2>2, <3>1, <3>2
  <2>. HIDE DEF words
  <2>4. ASSUME NEW n \in 1..Len(words), Wrong(words[n])
        PROVE  n = Len(words) /\ misheard # {}
    <3>1. n - 1 \in 1..count /\ words[n] = Spell(n - 1)
      <4>1. n # 1
        BY <2>3, <2>4 DEF Wrong
      <4>. HIDE DEF count, Spell
      <4>2. n - 1 \in 1..count /\ (n - 1) + 1 = n
        BY <2>2, <2>3, <4>1
      <4>. QED
        BY <2>3, <4>2
    <3>. DEFINE i == Min(I) + (n - 1) - 1
    <3>2. i \in misheard
      <4>1. words[n].text = (IF i \in misheard THEN -i ELSE Spoken[i]) /\ words[n].word = i
        BY <3>1
      <4>. HIDE DEF i
      <4>. QED
        BY <2>4, <4>1 DEF Wrong
    <3>3. i = Max(I)
      BY <3>2
    <3>. QED
      BY <2>2, <2>3, <3>1, <3>2, <3>3
  <2>5. Len(<<phrase>>) = 1 /\ <<phrase>>[1] = phrase /\ phrase.words = words
    OBVIOUS
  <2>. HIDE DEF phrase
  <2>. QED
    BY <2>1, <2>4, <2>5 DEF AtEnd, Clean
<1>. QED
  BY <1>1, <1>2

(* So do phrases of which only the last mishears.                            *)
LEMMA HeardConcat ==
  ASSUME NEW A \in Seq(Uttered), NEW B \in Seq(Uttered), Clean(A)
  PROVE  /\ AtEnd(B) => \/ B = <<>>
                        \/ AtEnd(A \o B)
         /\ Clean(B) => Clean(A \o B)
<1>. DEFINE C == A \o B
<1>1. /\ Len(A) \in Nat /\ Len(B) \in Nat /\ Len(C) = Len(A) + Len(B)
      /\ \A p \in 1..Len(C) : C[p] = IF p <= Len(A) THEN A[p] ELSE B[p - Len(A)]
  OBVIOUS
<1>. HIDE DEF C
<1>2. ASSUME NEW p \in 1..Len(C)
      PROVE  (p \in 1..Len(A) /\ C[p] = A[p]) \/ (p - Len(A) \in 1..Len(B) /\ C[p] = B[p - Len(A)])
  BY <1>1
<1>3. ASSUME Clean(B) PROVE Clean(C)
  BY <1>2, <1>3 DEF Clean
<1>4. ASSUME AtEnd(B) PROVE AtEnd(C)
  <2>1. ASSUME NEW p \in 1..Len(C), NEW n \in 1..Len(C[p].words), Wrong(C[p].words[n])
        PROVE  p = Len(C) /\ n = Len(C[p].words)
    <3>1. p - Len(A) \in 1..Len(B) /\ C[p] = B[p - Len(A)]
      BY <1>2, <2>1 DEF Clean
    <3>2. p - Len(A) = Len(B) /\ n = Len(C[p].words)
      BY <1>4, <2>1, <3>1 DEF AtEnd
    <3>. QED
      BY <1>1, <3>2
  <2>. QED
    BY <2>1 DEF AtEnd
<1>. QED
  BY <1>3, <1>4 DEF C

(* Whatever the decoder returns is timed, and only its last word may be      *)
(* misheard.                                                                 *)
LEMMA HypothesesTimed ==
  ASSUME NEW from \in Nat, NEW to \in Nat, from <= to, NEW phrases \in Hypotheses(from, to)
  PROVE  Timed(phrases, SamplesToMs(to - from)) /\ AtEnd(phrases)
<1>. DEFINE whole == Whole(from, to)
            cut == CutTail(from, to)
            last == {i \in whole : i = Max(whole)}
            pairs == {<<{}, {}>>, <<last, {}>>, <<{}, cut>>}
            Parts(front, ends) == Phrase(front, {}, from, to) \o Phrase(whole, ends[1], from, to)
                                    \o Phrase(ends[2], cut, from, to)
<1>1. PICK front \in {{}, CutFront(from, to)}, x \in {{}, last}, tail \in {{}, cut} :
        /\ phrases = Phrase(front, {}, from, to) \o Phrase(whole, x, from, to)
                        \o Phrase(tail, cut, from, to)
        /\ x = {} \/ tail = {}
  <2>1. phrases \in UNION {{Parts(front, ends) : ends \in pairs} : front \in {{}, CutFront(from, to)}}
    BY Zenon DEF Hypotheses
  <2>. HIDE DEF Parts, last, whole, cut
  <2>2. \A ends \in pairs : ends[1] \in {{}, last} /\ ends[2] \in {{}, cut}
                             /\ (ends[1] = {} \/ ends[2] = {})
    OBVIOUS
  <2>. HIDE DEF pairs
  <2>3. PICK front \in {{}, CutFront(from, to)} : phrases \in {Parts(front, ends) : ends \in pairs}
    BY <2>1
  <2>4. PICK ends \in pairs : phrases = Parts(front, ends)
    BY <2>3
  <2>5. phrases = Phrase(front, {}, from, to) \o Phrase(whole, ends[1], from, to)
                    \o Phrase(ends[2], cut, from, to)
    BY <2>4, Zenon DEF Parts
  <2>. QED
    BY <2>2, <2>5
<1>. DEFINE A == Phrase(front, {}, from, to)
            B == Phrase(whole, x, from, to)
            C == Phrase(tail, cut, from, to)
<1>a. \A i \in x : i = Max(whole)
  OBVIOUS
<1>. HIDE DEF last, pairs, Parts
<1>2. /\ front \subseteq 1..Len(Spoken) /\ whole \subseteq 1..Len(Spoken)
      /\ tail \subseteq 1..Len(Spoken) /\ cut \subseteq 1..Len(Spoken)
  BY DEF Whole, CutFront, CutTail
<1>3. /\ SamplesPerMs \in Nat \ {0} /\ Len(Spoken) \in Nat
      /\ \A i \in 1..Len(Spoken) : WordStart(i) \in Nat /\ WordEnd(i) \in Nat
      /\ \A i \in 1..Len(Spoken) : WordStart(i) <= WordEnd(i)
  BY WordTimes, WhisperAssumption DEF WhisperAssumption
<1>4. /\ \A i \in front : WordStart(i) <= to /\ WordEnd(i) >= from
      /\ \A i \in whole : WordStart(i) <= to /\ WordEnd(i) >= from
      /\ \A i \in tail : WordStart(i) <= to /\ WordEnd(i) >= from
  <2>1. \A i \in front : WordEnd(i) \in (from + 1)..to
    BY DEF CutFront
  <2>2. \A i \in whole : WordStart(i) + SamplesPerMs > from /\ WordEnd(i) <= to
    BY DEF Whole
  <2>3. \A i \in tail : WordStart(i) \in from..(to - 1) /\ WordEnd(i) > to
    BY DEF CutTail
  <2>4. \A i \in whole : WordEnd(i) >= WordStart(i) + SamplesPerMs
    <3>1. ASSUME NEW i \in 1..Len(Spoken) PROVE WordEnd(i) >= WordStart(i) + SamplesPerMs
      <4>1. /\ WordMs \in Nat \ {0} /\ i - 1 \in Nat
            /\ WordEnd(i) = i * WordMs * SamplesPerMs
            /\ WordStart(i) = (i - 1) * WordMs * SamplesPerMs
        BY WhisperAssumption DEF WhisperAssumption, Validate, WordStart, WordEnd, MsToSamples
      <4>2. i * WordMs = (i - 1) * WordMs + WordMs
        BY <4>1
      <4>. DEFINE m == (i - 1) * WordMs
      <4>3. m \in Nat /\ WordStart(i) = m * SamplesPerMs
              /\ WordEnd(i) = (m + WordMs) * SamplesPerMs
        BY <4>1, <4>2
      <4>. HIDE DEF m
      <4>4. (m + WordMs) * SamplesPerMs = m * SamplesPerMs + WordMs * SamplesPerMs
        BY <1>3, <4>1, <4>3
      <4>5. WordMs * SamplesPerMs >= SamplesPerMs
        BY <1>3, <4>1
      <4>. QED
        BY <1>3, <4>1, <4>3, <4>4, <4>5
    <3>. QED
      BY <1>2, <3>1
  <2>5. ASSUME NEW i \in front PROVE WordStart(i) <= to /\ WordEnd(i) >= from
    BY <1>2, <1>3, <2>1, <2>5
  <2>6. ASSUME NEW i \in whole PROVE WordStart(i) <= to /\ WordEnd(i) >= from
    <3>1. i \in 1..Len(Spoken) /\ WordStart(i) \in Nat /\ WordEnd(i) \in Nat
      BY <1>2, <1>3, <2>6
    <3>2. WordStart(i) + SamplesPerMs > from /\ WordEnd(i) <= to
            /\ WordEnd(i) >= WordStart(i) + SamplesPerMs
      BY <2>2, <2>4, <2>6
    <3>. HIDE DEF whole
    <3>. QED
      BY <1>3, <3>1, <3>2
  <2>7. ASSUME NEW i \in tail PROVE WordStart(i) <= to /\ WordEnd(i) >= from
    BY <1>2, <1>3, <2>3, <2>7
  <2>. HIDE DEF whole
  <2>. QED
    BY <2>5, <2>6, <2>7
<1>5. /\ \A i \in front, j \in whole : i < j
      /\ \A i \in front, j \in tail : i < j
      /\ \A i \in whole, j \in tail : i < j
  <2>1. ASSUME NEW i \in 1..Len(Spoken), NEW j \in 1..Len(Spoken),
               ~(i < j)
        PROVE  WordStart(j) <= WordStart(i) /\ WordEnd(j) <= WordEnd(i)
    <3>1. j <= i
      BY <1>3, <2>1
    <3>. QED
      BY <3>1, WordTimes
  <2>2. ASSUME NEW i \in front, NEW j \in whole PROVE i < j
    <3>1. /\ i \in 1..Len(Spoken) /\ j \in 1..Len(Spoken)
          /\ WordStart(i) + SamplesPerMs <= from /\ WordStart(j) + SamplesPerMs > from
      BY <1>2, <2>2 DEF CutFront, Whole
    <3>. QED
      BY <1>3, <2>1, <3>1
  <2>3. ASSUME NEW i \in front, NEW j \in tail PROVE i < j
    <3>1. /\ i \in 1..Len(Spoken) /\ j \in 1..Len(Spoken)
          /\ WordEnd(i) <= to /\ WordEnd(j) > to
      BY <1>2, <1>3, <2>3 DEF CutFront, CutTail
    <3>. QED
      BY <1>3, <2>1, <3>1
  <2>4. ASSUME NEW i \in whole, NEW j \in tail PROVE i < j
    <3>1. /\ i \in 1..Len(Spoken) /\ j \in 1..Len(Spoken)
          /\ WordEnd(i) <= to /\ WordEnd(j) > to
      BY <1>2, <2>4 DEF Whole, CutTail
    <3>. QED
      BY <1>3, <2>1, <3>1
  <2>. HIDE DEF whole
  <2>. QED
    BY <2>2, <2>3, <2>4
<1>b. ASSUME NEW i \in cut PROVE i = Max(cut)
  <2>1. \A j, k \in cut : ~(j < k)
    <3>1. ASSUME NEW j \in cut, NEW k \in cut, j < k PROVE FALSE
      <4>1. /\ j \in 1..Len(Spoken) /\ k \in 1..Len(Spoken)
            /\ WordEnd(j) > to /\ WordStart(k) \in from..(to - 1)
        BY <3>1 DEF CutTail
      <4>2. WordEnd(j) <= WordStart(k)
        BY <3>1, <4>1, WordTimes
      <4>. QED
        BY <1>3, <4>1, <4>2
    <3>. QED
      BY <3>1
  <2>. HIDE DEF cut
  <2>2. cut \in SUBSET Nat /\ \A j \in cut : j <= Len(Spoken)
    BY <1>2, <1>3
  <2>3. Max(cut) \in cut
    BY <1>b, <1>3, <2>2, Extremes
  <2>4. i \in Nat /\ Max(cut) \in Nat /\ ~(i < Max(cut)) /\ ~(Max(cut) < i)
    BY <1>b, <2>1, <2>2, <2>3
  <2>. QED
    BY <2>4
<1>c. Clean(A)
  BY <1>2, PhraseHeard
<1>d. AtEnd(B) /\ (x = {} => Clean(B))
  <2>. HIDE DEF whole
  <2>. QED
    BY <1>2, <1>a, PhraseHeard
<1>e. (tail = {} => C = <<>>) /\ AtEnd(C)
  <2>1. CASE tail = {}
    <3>1. C = <<>>
      BY <2>1 DEF Phrase
    <3>. QED
      BY <3>1 DEF AtEnd
  <2>2. CASE tail = cut /\ cut # {}
    <3>1. tail # {}
      BY <2>2
    <3>. HIDE DEF cut
    <3>. QED
      BY <1>2, <1>b, <2>2, <3>1, PhraseHeard
  <2>. HIDE DEF cut, C
  <2>. QED
    BY <2>1, <2>2
<1>. DEFINE length == SamplesToMs(to - from)
<1>. HIDE DEF whole, cut
<1>6. Timed(A, length) /\ Timed(B, length) /\ Timed(C, length)
  BY <1>2, <1>4, PhraseProperties
<1>7. /\ \A p \in 1..Len(A), q \in 1..Len(B) : A[p].end <= B[q].start
      /\ \A p \in 1..Len(A), q \in 1..Len(C) : A[p].end <= C[q].start
      /\ \A p \in 1..Len(B), q \in 1..Len(C) : B[p].end <= C[q].start
  BY <1>2, <1>4, <1>5, PhraseFollows
<1>8. length \in Nat
  BY <1>3, Division DEF SamplesToMs
<1>. HIDE DEF A, B, C, length
<1>9. Timed(A \o B, length)
  BY <1>6, <1>7, <1>8, TimedConcat
<1>10. \A p \in 1..Len(A \o B), q \in 1..Len(C) : (A \o B)[p].end <= C[q].start
  <2>1. /\ A \in Seq(Uttered) /\ B \in Seq(Uttered) /\ Len(A) \in Nat /\ Len(B) \in Nat
        /\ Len(A \o B) = Len(A) + Len(B)
        /\ \A p \in 1..Len(A \o B) : (A \o B)[p] = IF p <= Len(A) THEN A[p] ELSE B[p - Len(A)]
    BY <1>6 DEF Timed
  <2>2. ASSUME NEW p \in 1..Len(A \o B), NEW q \in 1..Len(C) PROVE (A \o B)[p].end <= C[q].start
    <3>1. CASE p <= Len(A)
      BY <1>7, <2>1, <2>2, <3>1
    <3>2. CASE p > Len(A)
      <4>1. p - Len(A) \in 1..Len(B) /\ (A \o B)[p] = B[p - Len(A)]
        BY <2>1, <2>2, <3>2
      <4>. QED
        BY <1>7, <2>2, <4>1
    <3>. QED
      BY <2>1, <3>1, <3>2
  <2>. QED
    BY <2>2
<1>11. Timed((A \o B) \o C, length)
  BY <1>6, <1>8, <1>9, <1>10, TimedConcat
<1>12. AtEnd((A \o B) \o C)
  <2>1. A \in Seq(Uttered) /\ B \in Seq(Uttered) /\ C \in Seq(Uttered)
    BY <1>6 DEF Timed
  <2>2. A \o B \in Seq(Uttered)
    BY <2>1
  <2>3. AtEnd(A \o B)
    <3>1. B = <<>> => A \o B = A
      BY <2>1
    <3>2. AtEnd(A)
      BY <1>c DEF Clean, AtEnd
    <3>. QED
      BY <1>c, <1>d, <2>1, <3>1, <3>2, HeardConcat
  <2>4. CASE C = <<>>
    <3>1. (A \o B) \o C = A \o B
      BY <2>2, <2>4
    <3>. QED
      BY <2>3, <3>1
  <2>5. CASE C # <<>>
    <3>1. Clean(B)
      BY <1>1, <1>d, <1>e, <2>5
    <3>2. Clean(A \o B)
      BY <1>c, <2>1, <3>1, HeardConcat
    <3>. QED
      BY <1>e, <2>1, <2>2, <2>5, <3>2, HeardConcat
  <2>. QED
    BY <2>4, <2>5
<1>. QED
  BY <1>1, <1>11, <1>12 DEF A, B, C, length

-----------------------------------------------------------------------------
(* The words of a hypothesis *)

(* A phrase is split into words of its own, in order and within its time.    *)
LEMMA SplitProperties ==
  ASSUME NEW length \in Nat, NEW phrases, Timed(phrases, length),
         NEW p \in 1..Len(phrases), NEW ws \in Nat
  PROVE  /\ SplitSegmentWords(phrases, p, ws) \subseteq Placed
         /\ IsFiniteSet(SplitSegmentWords(phrases, p, ws))
         /\ \A w \in SplitSegmentWords(phrases, p, ws) :
              /\ w.place[1] = p
              /\ phrases[p].start + ws <= w.start /\ w.start <= w.end
              /\ w.end <= phrases[p].end + ws
              /\ w.place[2] \in 1..Len(phrases[p].words)
              /\ phrases[p].words[w.place[2]] # Marker
              /\ phrases[p].words[w.place[2]].text = w.text
              /\ phrases[p].words[w.place[2]].word = w.word
         /\ \A v, w \in SplitSegmentWords(phrases, p, ws) :
              /\ v.place = w.place => v = w
              /\ v.start < w.start => v.end <= w.end
              /\ v.place[2] < w.place[2] => v.start <= w.start /\ v.end <= w.end
<1>. DEFINE phrase == phrases[p]
            visible == NormalizeText(phrase.words)
            span == Monus(phrase.end, phrase.start)
            N == Cardinality(visible)
            Before(n) == Cardinality({m \in visible : m < n})
            Share(n) == (span * n) \div N
            Word(n) == [text |-> phrase.words[n].text, word |-> phrase.words[n].word,
                        start |-> phrase.start + ws + Share(Before(n)),
                        end |-> phrase.start + ws + Share(Before(n) + 1),
                        place |-> <<p, n>>]
            W == {Word(n) : n \in visible}
<1>1. SplitSegmentWords(phrases, p, ws) = W
  BY Zenon DEF SplitSegmentWords
<1>2. /\ phrase \in Uttered /\ phrase.start \in Nat /\ phrase.end \in Nat
      /\ phrase.words \in Seq([text : Int, word : 0..Len(Spoken)])
      /\ \A n \in DOMAIN phrase.words : phrase.words[n] # Marker =>
           phrase.words[n].text \in Text /\ phrase.words[n].word \in 1..Len(Spoken)
      /\ phrase.start <= phrase.end /\ phrase.end <= length
      /\ p \in Nat
  <2>1. phrase \in Uttered /\ p \in Nat
    BY DEF Timed
  <2>2. /\ phrase.start \in Nat /\ phrase.end \in Nat
        /\ phrase.words \in Seq([text : Int, word : 0..Len(Spoken)])
    <3>. HIDE DEF phrase
    <3>. QED
      BY <2>1 DEF Uttered
  <2>3. /\ \A n \in DOMAIN phrase.words : phrase.words[n] # Marker =>
             phrase.words[n].text \in Text /\ phrase.words[n].word \in 1..Len(Spoken)
        /\ phrase.start <= phrase.end /\ phrase.end <= length
    BY DEF Timed
  <2>. HIDE DEF phrase
  <2>. QED
    BY <2>1, <2>2, <2>3
<1>. HIDE DEF phrase
<1>3. /\ visible \subseteq 1..Len(phrase.words) /\ Len(phrase.words) \in Nat
      /\ \A n \in visible : phrase.words[n] # Marker
  BY <1>2 DEF NormalizeText
<1>4. IsFiniteSet(visible) /\ N \in Nat
  <2>1. IsFiniteSet(1..Len(phrase.words))
    BY <1>3, FS_Interval
  <2>. HIDE DEF visible
  <2>. QED
    BY <1>3, <2>1, FS_Subset, FS_CardinalityType
<1>5. span \in Nat /\ phrase.start + span = phrase.end
  BY <1>2 DEF Monus
<1>. HIDE DEF visible, span
<1>6. ASSUME NEW n \in visible
      PROVE  Before(n) \in Nat /\ Before(n) + 1 <= N
  <2>. DEFINE B == {m \in visible : m < n}
  <2>1. B \subseteq visible \ {n}
    BY <1>3
  <2>2. IsFiniteSet(visible \ {n}) /\ Cardinality(visible \ {n}) = N - 1
    BY <1>4, FS_RemoveElement
  <2>. HIDE DEF B
  <2>3. IsFiniteSet(B) /\ Cardinality(B) <= Cardinality(visible \ {n})
    BY <2>1, <2>2, FS_Subset
  <2>4. Cardinality(B) \in Nat
    BY <2>3, FS_CardinalityType
  <2>. HIDE DEF N
  <2>5. Cardinality(B) + 1 <= N
    BY <1>4, <2>2, <2>3, <2>4
  <2>. QED
    BY <2>4, <2>5 DEF B
<1>a. ASSUME NEW m \in visible, NEW n \in visible, m < n PROVE Before(m) <= Before(n)
  <2>. DEFINE A == {k \in visible : k < m}
              B == {k \in visible : k < n}
  <2>1. A \subseteq B /\ B \subseteq visible
    <3>1. ASSUME NEW k \in visible, k < m PROVE k < n
      <4>1. k \in Int /\ m \in Int /\ n \in Int
        BY <1>3
      <4>. QED
        BY <1>a, <3>1, <4>1
    <3>. QED
      BY <3>1
  <2>. HIDE DEF A, B
  <2>2. Cardinality(A) <= Cardinality(B)
    BY <1>4, <2>1, FS_Subset
  <2>. QED
    BY <2>2 DEF A, B
<1>. HIDE DEF Before, N
<1>7. ASSUME NEW i \in Nat, NEW j \in Nat, i <= j, j <= N, N # 0
      PROVE  /\ Share(i) \in Nat /\ Share(j) \in Nat
             /\ Share(i) <= Share(j) /\ Share(j) <= span
  <2>1. N \in Nat \ {0} /\ span * i \in Nat /\ span * j \in Nat /\ span * i <= span * j
    BY <1>4, <1>5, <1>7
  <2>2. Share(j) \in 0..span
    BY <1>5, <1>7, <2>1, ShareBounds
  <2>3. Share(i) \in Nat /\ Share(i) <= Share(j)
    BY <2>1, Division, DivisionMonotone
  <2>. QED
    BY <1>5, <2>2, <2>3
<1>. HIDE DEF Share
<1>8. ASSUME NEW n \in visible
      PROVE  /\ Word(n) \in Placed
             /\ Word(n).place = <<p, n>>
             /\ Word(n).text = phrase.words[n].text /\ Word(n).word = phrase.words[n].word
             /\ phrase.start + ws <= Word(n).start /\ Word(n).start <= Word(n).end
             /\ Word(n).end <= phrase.end + ws
  <2>. DEFINE b == Before(n)
              from == Share(b)
              to == Share(b + 1)
  <2>1. b \in Nat /\ b + 1 <= N /\ N # 0
    BY <1>4, <1>6
  <2>. HIDE DEF b
  <2>2. from \in Nat /\ to \in Nat /\ from <= to /\ to <= span
    BY <1>7, <2>1
  <2>3. /\ phrase.words[n].text \in Text /\ phrase.words[n].word \in 1..Len(Spoken)
        /\ n \in Nat
    BY <1>2, <1>3
  <2>4. /\ Word(n).start = phrase.start + ws + from
        /\ Word(n).end = phrase.start + ws + to
        /\ Word(n).place = <<p, n>>
        /\ Word(n).text = phrase.words[n].text
        /\ Word(n).word = phrase.words[n].word
        /\ Word(n) = [text |-> phrase.words[n].text, word |-> phrase.words[n].word,
                      start |-> phrase.start + ws + from, end |-> phrase.start + ws + to,
                      place |-> <<p, n>>]
    BY DEF b
  <2>. HIDE DEF from, to, Word
  <2>5. phrase.start + ws + from \in Nat /\ phrase.start + ws + to \in Nat
    BY <1>2, <2>2
  <2>6. Word(n) \in Placed
    BY <1>2, <2>3, <2>4, <2>5 DEF Placed
  <2>7. /\ phrase.start + ws <= phrase.start + ws + from
        /\ phrase.start + ws + from <= phrase.start + ws + to
        /\ phrase.start + ws + to <= phrase.end + ws
    BY <1>2, <1>5, <2>2
  <2>. QED
    BY <2>4, <2>6, <2>7
<1>9. ASSUME NEW m \in visible, NEW n \in visible, Word(m).start < Word(n).start
      PROVE  Word(m).end <= Word(n).end
  <2>. DEFINE a == Before(m)
              b == Before(n)
  <2>1. a \in Nat /\ a + 1 <= N /\ b \in Nat /\ b + 1 <= N /\ N # 0
    BY <1>4, <1>6
  <2>2. phrase.start + ws + Share(a) < phrase.start + ws + Share(b)
    BY <1>9
  <2>3. /\ Word(m).end = phrase.start + ws + Share(a + 1)
        /\ Word(n).end = phrase.start + ws + Share(b + 1)
    OBVIOUS
  <2>. HIDE DEF a, b, Word
  <2>4. Share(a) \in Nat /\ Share(b) \in Nat /\ Share(a + 1) \in Nat /\ Share(b + 1) \in Nat
    BY <1>4, <1>7, <2>1
  <2>5. a < b
    <3>1. b <= a => Share(b) <= Share(a)
      BY <1>4, <1>7, <2>1
    <3>. QED
      BY <1>2, <2>1, <2>2, <2>4, <3>1
  <2>6. Share(a + 1) <= Share(b + 1)
    BY <1>4, <1>7, <2>1, <2>5
  <2>. QED
    BY <1>2, <2>3, <2>4, <2>6
<1>b. ASSUME NEW m \in visible, NEW n \in visible, m < n
      PROVE  Word(m).start <= Word(n).start /\ Word(m).end <= Word(n).end
  <2>. DEFINE a == Before(m)
              b == Before(n)
  <2>1. a \in Nat /\ a + 1 <= N /\ b \in Nat /\ b + 1 <= N /\ N # 0 /\ a <= b
    BY <1>4, <1>6, <1>a, <1>b
  <2>2. /\ Word(m).start = phrase.start + ws + Share(a)
        /\ Word(n).start = phrase.start + ws + Share(b)
        /\ Word(m).end = phrase.start + ws + Share(a + 1)
        /\ Word(n).end = phrase.start + ws + Share(b + 1)
    OBVIOUS
  <2>. HIDE DEF a, b, Word
  <2>3. /\ Share(a) \in Nat /\ Share(b) \in Nat /\ Share(a) <= Share(b)
        /\ Share(a + 1) \in Nat /\ Share(b + 1) \in Nat /\ Share(a + 1) <= Share(b + 1)
    BY <1>4, <1>7, <2>1
  <2>. QED
    BY <1>2, <2>2, <2>3
<1>10. IsFiniteSet(W)
  <2>. DEFINE F == [n \in visible |-> Word(n)]
  <2>. HIDE DEF Word
  <2>1. F \in Surjection(visible, W)
    BY DEF Surjection
  <2>. HIDE DEF F, W
  <2>. QED
    BY <1>4, <2>1, FS_Surjection
<1>11. ASSUME NEW v \in W
       PROVE  \E n \in visible : v = Word(n)
  OBVIOUS
<1>. HIDE DEF Word
<1>12. ASSUME NEW v \in W, NEW w \in W
       PROVE  /\ v.place = w.place => v = w
              /\ v.start < w.start => v.end <= w.end
              /\ v.place[2] < w.place[2] => v.start <= w.start /\ v.end <= w.end
  <2>1. PICK m \in visible : v = Word(m)
    OBVIOUS
  <2>2. PICK n \in visible : w = Word(n)
    OBVIOUS
  <2>3. (<<p, m>> = <<p, n>> => m = n) /\ <<p, m>>[2] = m /\ <<p, n>>[2] = n
    OBVIOUS
  <2>. QED
    BY <1>8, <1>9, <1>b, <2>1, <2>2, <2>3
<1>13. ASSUME NEW w \in W
       PROVE  /\ w \in Placed /\ w.place[1] = p
              /\ phrase.start + ws <= w.start /\ w.start <= w.end /\ w.end <= phrase.end + ws
              /\ w.place[2] \in visible
              /\ phrase.words[w.place[2]].text = w.text
              /\ phrase.words[w.place[2]].word = w.word
  <2>1. PICK n \in visible : w = Word(n)
    OBVIOUS
  <2>2. w.place[2] = n
    BY <1>8, <2>1
  <2>. QED
    BY <1>8, <2>1, <2>2
<1>. HIDE DEF W
<1>14. \A w \in W : w.place[2] \in 1..Len(phrase.words) /\ phrase.words[w.place[2]] # Marker
  BY <1>3, <1>13
<1>. QED
  BY <1>1, <1>10, <1>12, <1>13, <1>14 DEF phrase

(* Words in the order of their ends.                                         *)
Ordered(words) ==
  \A n \in 1..Len(words) : \A m \in 1..n : words[m].end <= words[n].end

(* What is in a state.                                                       *)
LEMMA StateFields ==
  ASSUME NEW s \in States
  PROVE  /\ s.total \in Nat /\ s.start \in Nat /\ s.new \in Nat
         /\ s.hypotheses \in Seq(Seq(Segment)) /\ s.committed \in Seq(Commit)
         /\ s.unstable \in Seq(Segment) /\ s.through \in Nat /\ s.revision \in Nat
         /\ s.last \in Seq(Int) /\ s.finalized \in BOOLEAN
BY DEF States

(* The overlap is no longer than the words it is taken from.                 *)
LEMMA OverlapBounds ==
  ASSUME NEW A, NEW B, NEW committed \in Seq(A), NEW fresh \in Seq(B)
  PROVE  CommittedPrefixOverlap(committed, fresh) \in 0..Len(fresh)
<1>. DEFINE b == AtMost(Len(committed), Len(fresh))
            tail(n) == Texts(SubSeq(committed, Len(committed) - n + 1, Len(committed)))
            head(n) == Texts(SubSeq(fresh, 1, n))
            S == {n \in 0..b : tail(n) = head(n)}
<1>1. Len(committed) \in Nat /\ Len(fresh) \in Nat /\ b \in Nat /\ b <= Len(fresh)
  BY DEF AtMost
<1>2. tail(0) = head(0)
  <2>. DEFINE c == Len(committed)
  <2>1. SubSeq(fresh, 1, 0) = <<>>
    BY SubSeqEmpty
  <2>. HIDE DEF c
  <2>2. c \in Int /\ c - 0 + 1 \in Int /\ c < c - 0 + 1
    BY <1>1 DEF c
  <2>3. SubSeq(committed, c - 0 + 1, c) = <<>>
    BY <2>2, SubSeqEmpty
  <2>. QED
    BY <2>1, <2>3 DEF c
<1>3. CommittedPrefixOverlap(committed, fresh) = Max(S)
  BY Zenon DEF CommittedPrefixOverlap
<1>. HIDE DEF b, tail, head
<1>4. S \in SUBSET Nat /\ S # {} /\ \A x \in S : x <= b
  BY <1>1, <1>2
<1>5. Max(S) \in S
  <2>. HIDE DEF S
  <2>. QED
    BY <1>1, <1>4, Extremes
<1>. QED
  BY <1>1, <1>3, <1>5

(* The candidates are words of the window that end after what is committed,  *)
(* in order.                                                                 *)
LEMMA CandidatesProperties ==
  ASSUME NEW length \in Nat, NEW phrases, Timed(phrases, length), NEW ws \in Nat,
         NEW s \in States
  PROVE  /\ Candidates(s, phrases, ws) \in Seq(Segment)
         /\ Ordered(Candidates(s, phrases, ws))
         /\ \A k \in 1..Len(Candidates(s, phrases, ws)) :
              /\ Candidates(s, phrases, ws)[k].end > s.through
              /\ Candidates(s, phrases, ws)[k].end >= ws
              /\ Candidates(s, phrases, ws)[k].end <= length + ws
         /\ AtEnd(phrases) =>
              \A k \in 1..(Len(Candidates(s, phrases, ws)) - 1) :
                Candidates(s, phrases, ws)[k].text = Spoken[Candidates(s, phrases, ws)[k].word]
<1>. DEFINE Split(p) == SplitSegmentWords(phrases, p, ws)
            P == DOMAIN phrases
            splits == {Split(p) : p \in P}
            W == UNION splits
            F == {w \in W : w.end > s.through}
            fresh == Sorted(F)
            overlap == CommittedPrefixOverlap(s.committed, fresh)
            C == SubSeq(fresh, overlap + 1, Len(fresh))
<1>1. Candidates(s, phrases, ws) = C
  BY Zenon DEF Candidates
<1>2. P = 1..Len(phrases) /\ Len(phrases) \in Nat
  BY DEF Timed
<1>3. \A p \in P : Split(p) \subseteq Placed /\ IsFiniteSet(Split(p))
  BY <1>2, SplitProperties
<1>4. \A p \in P : \A w \in Split(p) :
        /\ w.place[1] = p
        /\ phrases[p].start + ws <= w.start /\ w.start <= w.end
        /\ w.end <= phrases[p].end + ws
  BY <1>2, SplitProperties
<1>5. \A p \in P : \A v, w \in Split(p) :
        /\ v.place = w.place => v = w
        /\ v.start < w.start => v.end <= w.end
        /\ v.place[2] < w.place[2] => v.start <= w.start /\ v.end <= w.end
  BY <1>2, SplitProperties
<1>a. \A p \in P : \A w \in Split(p) :
        /\ w.place[2] \in 1..Len(phrases[p].words)
        /\ phrases[p].words[w.place[2]] # Marker
        /\ phrases[p].words[w.place[2]].text = w.text
        /\ phrases[p].words[w.place[2]].word = w.word
  BY <1>2, SplitProperties
<1>6. \A p, q \in P : p < q => phrases[p].end <= phrases[q].start
  BY <1>2 DEF Timed
<1>7. \A p \in P : phrases[p].start \in Nat /\ phrases[p].end \in Nat /\ phrases[p].end <= length
  <2>1. ASSUME NEW p \in P PROVE phrases[p] \in Uttered /\ phrases[p].end <= length
    BY <1>2 DEF Timed
  <2>2. \A u \in Uttered : u.start \in Nat /\ u.end \in Nat
    BY DEF Uttered
  <2>. QED
    BY <2>1, <2>2
<1>8. IsFiniteSet(W)
  <2>. DEFINE f == [p \in P |-> Split(p)]
  <2>. HIDE DEF Split
  <2>1. f \in Surjection(P, splits)
    BY DEF Surjection
  <2>2. IsFiniteSet(P)
    BY <1>2, FS_Interval
  <2>3. \A T \in splits : IsFiniteSet(T)
    BY <1>3
  <2>. HIDE DEF f, P, splits
  <2>4. IsFiniteSet(splits)
    BY <2>1, <2>2, FS_Surjection
  <2>. QED
    BY <2>3, <2>4, FS_UNION
<1>. HIDE DEF Split, P
<1>9. ASSUME NEW w \in W PROVE \E p \in P : w \in Split(p)
  OBVIOUS
<1>. HIDE DEF W
<1>10. ASSUME NEW w \in W
       PROVE  w \in Placed /\ w.start <= w.end /\ w.end >= ws /\ w.end <= length + ws
  <2>1. PICK p \in P : w \in Split(p)
    BY <1>9
  <2>2. w \in Placed
    BY <1>3, <2>1
  <2>3. w.start \in Nat /\ w.end \in Nat
    BY <2>2 DEF Placed
  <2>. QED
    BY <1>4, <1>7, <2>1, <2>2, <2>3
<1>11. ASSUME NEW v \in W, NEW w \in W
       PROVE  /\ v.place = w.place => v = w
              /\ v.start < w.start => v.end <= w.end
  <2>1. PICK p \in P : v \in Split(p)
    BY <1>9
  <2>2. PICK q \in P : w \in Split(q)
    BY <1>9
  <2>3. /\ v.start \in Nat /\ v.end \in Nat /\ w.start \in Nat /\ w.end \in Nat
        /\ p \in Nat /\ q \in Nat
    BY <1>2, <1>10 DEF Placed, P
  <2>4. CASE p = q
    BY <1>5, <2>1, <2>2, <2>4
  <2>5. CASE p < q
    <3>1. phrases[p].end <= phrases[q].start
      BY <1>6, <2>1, <2>2, <2>5
    <3>2. v.place # w.place
      BY <1>4, <2>1, <2>2, <2>5, <2>3
    <3>3. v.end <= phrases[p].end + ws /\ phrases[q].start + ws <= w.start /\ w.start <= w.end
      BY <1>4, <2>1, <2>2
    <3>4. phrases[p].end \in Nat /\ phrases[q].start \in Nat
      BY <1>7
    <3>. QED
      BY <2>3, <3>1, <3>2, <3>3, <3>4
  <2>6. CASE q < p
    <3>1. phrases[q].end <= phrases[p].start
      BY <1>6, <2>1, <2>2, <2>6
    <3>2. v.place # w.place
      BY <1>4, <2>1, <2>2, <2>6, <2>3
    <3>3. w.end <= phrases[q].end + ws /\ phrases[p].start + ws <= v.start /\ w.start <= w.end
      BY <1>4, <2>1, <2>2
    <3>4. phrases[q].end \in Nat /\ phrases[p].start \in Nat
      BY <1>7
    <3>. QED
      BY <2>3, <3>1, <3>2, <3>3, <3>4
  <2>. QED
    BY <2>3, <2>4, <2>5, <2>6
<1>b. ASSUME AtEnd(phrases), NEW v \in W, NEW w \in W, Earlier(v, w)
      PROVE  v.text = Spoken[v.word]
  <2>1. SUFFICES ASSUME v.text # Spoken[v.word] PROVE FALSE
    OBVIOUS
  <2>2. PICK p \in P : v \in Split(p)
    BY <1>9
  <2>3. PICK q \in P : w \in Split(q)
    BY <1>9
  <2>4. /\ v.start \in Nat /\ v.end \in Nat /\ w.start \in Nat /\ w.end \in Nat
        /\ v.place[2] \in Nat /\ w.place[2] \in Nat
        /\ p \in Nat /\ q \in Nat /\ v.place[1] = p /\ w.place[1] = q
        /\ v.start <= v.end /\ w.start <= w.end
    BY <1>2, <1>4, <1>10, <2>2, <2>3 DEF Placed, P
  <2>5. p = Len(phrases) /\ v.place[2] = Len(phrases[p].words)
    <3>. DEFINE n == v.place[2]
    <3>1. n \in 1..Len(phrases[p].words) /\ Wrong(phrases[p].words[n]) /\ p \in 1..Len(phrases)
      BY <1>2, <1>a, <2>1, <2>2 DEF Wrong, P
    <3>. HIDE DEF n
    <3>2. p = Len(phrases) /\ n = Len(phrases[p].words)
      BY <1>b, <3>1 DEF AtEnd
    <3>. QED
      BY <3>2 DEF n
  <2>6. CASE q = p
    <3>1. w.place[2] \in 1..Len(phrases[p].words)
      BY <1>a, <2>3, <2>6
    <3>2. w.place[2] <= v.place[2]
      <4>. DEFINE l == Len(phrases[p].words)
                  m == w.place[2]
      <4>1. m \in 1..l /\ v.place[2] = l /\ l \in Nat
        BY <2>4, <2>5, <3>1
      <4>. HIDE DEF l, m
      <4>2. m <= l
        BY <4>1
      <4>. QED
        BY <4>1, <4>2 DEF m
    <3>3. w.place[2] < v.place[2] => w.start <= v.start /\ w.end <= v.end
      BY <1>5, <2>2, <2>3, <2>6
    <3>4. CASE w.place[2] < v.place[2]
      <4>. DEFINE m == v.place[2]
                  n == w.place[2]
      <4>1. /\ m \in Nat /\ n \in Nat /\ n < m
            /\ v.start < w.start \/ v.end < w.end \/ p < q \/ m < n
        BY <1>b, <2>4, <3>4 DEF Earlier
      <4>. HIDE DEF m, n
      <4>. QED
        BY <2>4, <2>6, <3>3, <3>4, <4>1
    <3>5. CASE w.place[2] = v.place[2]
      <4>1. v.place = <<v.place[1], v.place[2]>> /\ w.place = <<w.place[1], w.place[2]>>
        BY <1>10 DEF Placed
      <4>2. v.place = w.place
        BY <2>4, <2>6, <3>5, <4>1
      <4>3. v = w
        BY <1>5, <2>2, <2>3, <2>6, <4>2
      <4>. QED
        BY <1>b, <2>4, <4>3 DEF Earlier
    <3>. QED
      BY <2>4, <3>2, <3>4, <3>5
  <2>7. CASE q # p
    <3>1. q < p
      BY <1>2, <2>4, <2>5, <2>7 DEF P
    <3>2. phrases[q].end <= phrases[p].start
      BY <1>6, <2>2, <2>3, <3>1
    <3>3. w.end <= phrases[q].end + ws /\ phrases[p].start + ws <= v.start
      BY <1>4, <2>2, <2>3
    <3>4. w.end <= v.start
      BY <1>7, <2>4, <3>2, <3>3
    <3>. QED
      BY <1>b, <2>4, <3>1, <3>4 DEF Earlier
  <2>. QED
    BY <2>6, <2>7
<1>12. F \in SUBSET Placed /\ Apart(F) /\ IsFiniteSet(F)
  <2>1. F \subseteq W
    OBVIOUS
  <2>2. IsFiniteSet(F)
    BY <1>8, <2>1, FS_Subset
  <2>. QED
    BY <1>10, <1>11, <2>1, <2>2 DEF Apart
<1>13. ASSUME NEW v \in F, NEW w \in F, Earlier(v, w)
       PROVE  v.end <= w.end
  <2>1. v \in W /\ w \in W
    OBVIOUS
  <2>2. v.end \in Nat /\ w.end \in Nat
    BY <1>10, <2>1 DEF Placed
  <2>. QED
    BY <1>11, <1>13, <2>1, <2>2 DEF Earlier
<1>c. ASSUME AtEnd(phrases), NEW v \in F, NEW w \in F, Earlier(v, w)
      PROVE  v.text = Spoken[v.word]
  BY <1>b, <1>c
<1>14. \A w \in F : w.end > s.through /\ w.end >= ws /\ w.end <= length + ws /\ w.end \in Nat
  BY <1>10 DEF Placed
<1>. HIDE DEF F
<1>15. /\ fresh \in Seq(Segment) /\ Len(fresh) \in Nat
       /\ \A k \in 1..Len(fresh) :
              \E w \in F : fresh[k].start = w.start /\ fresh[k].end = w.end
       /\ \A k \in 1..Len(fresh) : \A i \in 1..(k - 1) :
              \E v, w \in F : /\ fresh[i].end = v.end /\ fresh[k].end = w.end
                              /\ fresh[i].text = v.text /\ fresh[i].word = v.word
                              /\ Earlier(v, w)
  BY <1>12, SortedProperties
<1>. HIDE DEF fresh
<1>16. \A k \in 1..Len(fresh) :
         /\ fresh[k].end > s.through /\ fresh[k].end >= ws
         /\ fresh[k].end <= length + ws /\ fresh[k].end \in Nat
  BY <1>14, <1>15
<1>17. ASSUME NEW k \in 1..Len(fresh), NEW i \in 1..k
       PROVE  fresh[i].end <= fresh[k].end
  <2>1. CASE i = k
    BY <1>16, <2>1
  <2>2. CASE i # k
    <3>1. i \in 1..(k - 1)
      BY <1>15, <2>2
    <3>2. PICK v \in F, w \in F :
            fresh[i].end = v.end /\ fresh[k].end = w.end /\ Earlier(v, w)
      BY <1>15, <3>1
    <3>. QED
      BY <1>13, <3>2
  <2>. QED
    BY <2>1, <2>2
<1>18. overlap \in 0..Len(fresh)
  BY <1>15, OverlapBounds, StateFields
<1>. HIDE DEF overlap
<1>19. /\ C \in Seq(Segment) /\ Len(C) = Len(fresh) - overlap
       /\ \A i \in 1..Len(C) : i + overlap \in 1..Len(fresh) /\ C[i] = fresh[i + overlap]
  BY <1>15, <1>18
<1>. HIDE DEF C
<1>20. Len(C) \in Nat
  BY <1>15, <1>18, <1>19
<1>21. Ordered(C)
  <2>1. ASSUME NEW n \in 1..Len(C), NEW m \in 1..n PROVE C[m].end <= C[n].end
    <3>1. m \in 1..Len(C) /\ m + overlap \in 1..(n + overlap)
      BY <1>18, <1>20
    <3>. QED
      BY <1>17, <1>19, <3>1
  <2>. QED
    BY <2>1 DEF Ordered
<1>22. \A k \in 1..Len(C) :
         C[k].end > s.through /\ C[k].end >= ws /\ C[k].end <= length + ws
  BY <1>16, <1>19
<1>23. ASSUME AtEnd(phrases), NEW k \in 1..(Len(C) - 1)
       PROVE  C[k].text = Spoken[C[k].word]
  <2>1. k \in 1..Len(C) /\ k + overlap \in 1..(Len(fresh) - 1)
    BY <1>15, <1>18, <1>19, <1>20
  <2>2. PICK v \in F, w \in F : /\ fresh[k + overlap].text = v.text
                                /\ fresh[k + overlap].word = v.word
                                /\ Earlier(v, w)
    <3>. DEFINE l == Len(fresh)
                i == k + overlap
    <3>1. l \in 1..Len(fresh) /\ i \in 1..(l - 1)
      BY <1>15, <2>1
    <3>. HIDE DEF l, i
    <3>. QED
      BY <1>15, <3>1 DEF i
  <2>3. v.text = Spoken[v.word]
    BY <1>c, <1>23, <2>2
  <2>. QED
    BY <1>19, <2>1, <2>2, <2>3
<1>. QED
  BY <1>1, <1>19, <1>21, <1>22, <1>23

-----------------------------------------------------------------------------
(* The helpers of the state machine *)

(* Samples and milliseconds.                                                 *)
LEMMA Units ==
  /\ MaxWindowMs \in Nat /\ OverlapMs \in Nat /\ DecodeIntervalMs \in Nat
  /\ AgreementUpdates \in Nat /\ AgreementUpdates >= 2
  /\ MsToSamples(DecodeIntervalMs) > 0
  /\ \A ms \in Nat : MsToSamples(ms) \in Nat /\ SamplesToMs(MsToSamples(ms)) = ms
  /\ \A a \in Nat : SamplesToMs(a) \in Nat /\ MsToSamples(SamplesToMs(a)) <= a
  /\ \A a, b \in Nat : a <= b =>
       SamplesToMs(a) <= SamplesToMs(b) /\ MsToSamples(a) <= MsToSamples(b)
<1>1. /\ MaxWindowMs \in Nat /\ OverlapMs \in Nat
      /\ DecodeIntervalMs \in Nat /\ DecodeIntervalMs >= 1
      /\ AgreementUpdates \in Nat /\ AgreementUpdates >= 2
      /\ SamplesPerMs \in Nat \ {0}
  BY WhisperAssumption DEF WhisperAssumption, Validate
<1>2. DecodeIntervalMs * SamplesPerMs > 0
  BY <1>1
<1>3. ASSUME NEW ms \in Nat
      PROVE  MsToSamples(ms) \in Nat /\ SamplesToMs(MsToSamples(ms)) = ms
  <2>. DEFINE a == ms * SamplesPerMs
              q == a \div SamplesPerMs
  <2>1. a \in Nat
    BY <1>1
  <2>2. q \in Nat /\ SamplesPerMs * q <= a /\ a < SamplesPerMs * q + SamplesPerMs
    BY <1>1, <2>1, Division
  <2>. HIDE DEF q
  <2>3. ms < q => FALSE
    <3>1. ms < q => SamplesPerMs * (ms + 1) <= SamplesPerMs * q
      BY <1>1, <2>2
    <3>2. SamplesPerMs * (ms + 1) = a + SamplesPerMs
      BY <1>1
    <3>. QED
      BY <1>1, <2>1, <2>2, <3>1, <3>2
  <2>4. q < ms => FALSE
    <3>1. q < ms => SamplesPerMs * (q + 1) <= SamplesPerMs * ms
      BY <1>1, <2>2
    <3>2. SamplesPerMs * (q + 1) = SamplesPerMs * q + SamplesPerMs /\ SamplesPerMs * ms = a
      BY <1>1, <2>2
    <3>. QED
      BY <1>1, <2>1, <2>2, <3>1, <3>2
  <2>5. q = ms
    BY <2>2, <2>3, <2>4
  <2>. QED
    BY <2>1, <2>5 DEF q, MsToSamples, SamplesToMs
<1>4. ASSUME NEW a \in Nat
      PROVE  SamplesToMs(a) \in Nat /\ MsToSamples(SamplesToMs(a)) <= a
  <2>. DEFINE q == a \div SamplesPerMs
  <2>1. q \in Nat /\ SamplesPerMs * q <= a
    BY <1>1, Division
  <2>. HIDE DEF q
  <2>2. q * SamplesPerMs <= a
    BY <1>1, <2>1
  <2>. QED
    BY <2>1, <2>2 DEF q, MsToSamples, SamplesToMs
<1>5. ASSUME NEW a \in Nat, NEW b \in Nat, a <= b
      PROVE  SamplesToMs(a) <= SamplesToMs(b) /\ MsToSamples(a) <= MsToSamples(b)
  <2>1. a * SamplesPerMs <= b * SamplesPerMs
    BY <1>1, <1>5
  <2>. QED
    BY <1>1, <1>5, <2>1, DivisionMonotone DEF MsToSamples, SamplesToMs
<1>. QED
  BY <1>1, <1>2, <1>3, <1>4, <1>5 DEF MsToSamples

(* The types of the configuration.                                           *)
LEMMA Constants ==
  /\ MaxWindowMs \in Nat /\ OverlapMs \in Nat /\ DecodeIntervalMs \in Nat
  /\ AgreementUpdates \in Nat /\ AgreementUpdates >= 2
  /\ MsToSamples(DecodeIntervalMs) > 0
BY Units

LEMMA InSamples == ASSUME NEW ms \in Nat PROVE MsToSamples(ms) \in Nat
BY Units, Zenon

LEMMA InMs == ASSUME NEW a \in Nat PROVE SamplesToMs(a) \in Nat
BY Units, Zenon

LEMMA ThereAndBack == ASSUME NEW ms \in Nat PROVE SamplesToMs(MsToSamples(ms)) = ms
BY Units, Zenon

LEMMA RoundsDown == ASSUME NEW a \in Nat PROVE MsToSamples(SamplesToMs(a)) <= a
BY Units, Zenon

LEMMA UnitsMonotone ==
  ASSUME NEW a \in Nat, NEW b \in Nat, a <= b
  PROVE  SamplesToMs(a) <= SamplesToMs(b) /\ MsToSamples(a) <= MsToSamples(b)
BY Units, Zenon

(* What the helpers keep: the counters and what was announced ...            *)
Same(s, t) ==
  /\ t.total = s.total /\ t.new = s.new /\ t.revision = s.revision
  /\ t.last = s.last /\ t.finalized = s.finalized

(* ... committed words, to which they only add, and by agreement only what   *)
(* was spoken, ...                                                           *)
AsSpoken(w) ==
  TrailingGuardWords > 0 /\ w.by = "agreement" => w.text = Spoken[w.word]

Extends(c, d) ==
  /\ Len(c) <= Len(d) /\ \A i \in 1..Len(c) : d[i] = c[i]
  /\ \A i \in 1..Len(d) : i > Len(c) => AsSpoken(d[i])

(* To extend is transitive ...                                               *)
LEMMA ExtendsTransitive ==
  ASSUME NEW c \in Seq(Commit), NEW d \in Seq(Commit), NEW e \in Seq(Commit),
         Extends(c, d), Extends(d, e)
  PROVE  Extends(c, e)
<1>1. Len(c) \in Nat /\ Len(d) \in Nat /\ Len(e) \in Nat
  OBVIOUS
<1>2. ASSUME NEW i \in 1..Len(e), i > Len(c) PROVE AsSpoken(e[i])
  <2>1. CASE i \in 1..Len(d)
    BY <1>2, <2>1 DEF Extends
  <2>2. CASE i > Len(d)
    BY <1>2, <2>2 DEF Extends
  <2>. QED
    BY <1>1, <2>1, <2>2
<1>. QED
  BY <1>1, <1>2 DEF Extends

(* ... and reflexive.                                                        *)
LEMMA ExtendsItself == ASSUME NEW c \in Seq(Commit) PROVE Extends(c, c)
BY DEF Extends

(* ... that nothing ends after what was heard, ...                           *)
Timely(s, h) ==
  /\ s.through <= SamplesToMs(h)
  /\ \A n \in 1..Len(s.unstable) : s.unstable[n].end <= SamplesToMs(h)

(* ... and that what is shown can still be corrected.                        *)
Hearable(s) ==
  /\ Ordered(s.unstable)
  /\ \A n \in 1..Len(s.unstable) :
       s.unstable[n].end >= SamplesToMs(s.start) /\ s.unstable[n].end >= s.through

(* The first of the words, behind those of c.                                *)
Gains(c, d, words, count) ==
  /\ Len(d) = Len(c) + count
  /\ \A n \in 1..count : d[Len(c) + n].text = words[n].text /\ d[Len(c) + n].word = words[n].word

(* Committing appends to what is committed and raises `through` to the end of*)
(* what it takes.                                                            *)
Commits(s, segments, by) ==
  \E c \in Seq(Commit), t \in Nat :
    /\ CommitSegments(s, segments, by) = [s EXCEPT !.committed = c, !.through = t]
    /\ Extends(s.committed, c) /\ Gains(s.committed, c, segments, Len(segments))
    /\ s.through <= t
    /\ t = s.through \/ \E n \in 1..Len(segments) : t = segments[n].end
    /\ \A n \in 1..Len(segments) : segments[n].end <= t

(* Committing words moves the mark to the last of their ends.                *)
LEMMA CommitProperties ==
  ASSUME NEW s \in States, NEW segments \in Seq(Segment),
         NEW by \in {"agreement", "bound", "final"},
         TrailingGuardWords > 0 /\ by = "agreement" =>
           \A n \in 1..Len(segments) : segments[n].text = Spoken[segments[n].word]
  PROVE  Commits(s, segments, by)
<1>. DEFINE more == [n \in 1..Len(segments) |->
                       [text |-> segments[n].text, word |-> segments[n].word, by |-> by]]
            c == s.committed \o more
            ends == {segments[n].end : n \in 1..Len(segments)}
            T == {s.through} \cup ends
            t == Max(T)
<1>1. /\ s.through \in Nat /\ s.committed \in Seq(Commit) /\ Len(segments) \in Nat
      /\ \A n \in 1..Len(segments) : segments[n] \in Segment
  BY StateFields
<1>2. \A n \in 1..Len(segments) : segments[n].end \in Nat
  BY <1>1 DEF Segment
<1>3. more \in Seq(Commit)
  <2>1. \A n \in 1..Len(segments) :
          [text |-> segments[n].text, word |-> segments[n].word, by |-> by] \in Commit
    BY <1>1 DEF Segment, Commit
  <2>. QED
    BY <1>1, <2>1
<1>4. c \in Seq(Commit) /\ Extends(s.committed, c) /\ Gains(s.committed, c, segments, Len(segments))
  <2>1. Len(more) = Len(segments) /\ \A n \in 1..Len(segments) : AsSpoken(more[n])
    BY <1>1 DEF AsSpoken
  <2>4. \A n \in 1..Len(segments) : more[n].text = segments[n].text /\ more[n].word = segments[n].word
    OBVIOUS
  <2>. HIDE DEF more
  <2>2. /\ c \in Seq(Commit) /\ Len(c) = Len(s.committed) + Len(more)
        /\ \A i \in 1..Len(s.committed) : c[i] = s.committed[i]
    BY <1>1, <1>3
  <2>3. ASSUME NEW i \in 1..Len(c), i > Len(s.committed) PROVE AsSpoken(c[i])
    <3>1. i - Len(s.committed) \in 1..Len(more) /\ c[i] = more[i - Len(s.committed)]
      BY <1>1, <1>3, <2>2, <2>3
    <3>. QED
      BY <2>1, <3>1
  <2>5. \A n \in 1..Len(segments) : c[Len(s.committed) + n] = more[n]
    BY <1>1, <1>3, <2>1
  <2>. HIDE DEF c
  <2>6. Gains(s.committed, c, segments, Len(segments))
    BY <2>1, <2>2, <2>4, <2>5 DEF Gains
  <2>. QED
    BY <1>1, <1>3, <2>2, <2>3, <2>6 DEF Extends
<1>5. t \in T /\ \A x \in T : x <= t
  <2>1. T \subseteq Nat /\ T # {}
    BY <1>1, <1>2
  <2>2. PICK b \in Nat : \A n \in 1..Len(segments) : segments[n].end <= b
    <3>. DEFINE e == [n \in 1..Len(segments) |-> segments[n].end]
    <3>1. e \in Seq(Nat) /\ Len(e) = Len(segments)
      BY <1>1, <1>2
    <3>2. \A n \in 1..Len(segments) : e[n] = segments[n].end
      OBVIOUS
    <3>. HIDE DEF e
    <3>. QED
      BY <3>1, <3>2, Bounded
  <2>3. b + s.through \in Nat /\ \A x \in T : x <= b + s.through
    BY <1>1, <1>2, <2>2
  <2>. HIDE DEF T
  <2>. QED
    BY <2>1, <2>3, Extremes
<1>6. CommitSegments(s, segments, by) = [s EXCEPT !.committed = c, !.through = t]
  BY Zenon DEF CommitSegments, States
<1>7. t \in Nat /\ s.through <= t
      /\ (t = s.through \/ \E n \in 1..Len(segments) : t = segments[n].end)
      /\ \A n \in 1..Len(segments) : segments[n].end <= t
  <2>. HIDE DEF t
  <2>. QED
    BY <1>1, <1>2, <1>5
<1>. HIDE DEF c, t
<1>. QED
  BY <1>4, <1>6, <1>7 DEF Commits

(* How many words are counted, and that the next one ends later.             *)
LEMMA ReachedProperties ==
  ASSUME NEW words \in Seq(Segment), NEW then \in Nat
  PROVE  /\ Reached(words, then) \in 0..Len(words)
         /\ Ordered(words) =>
              \A n \in 1..Len(words) : n > Reached(words, then) => words[n].end > then
<1>. DEFINE R == {n \in 1..Len(words) : \A i \in 1..n : words[i].end <= then}
            r == Cardinality(R)
<1>1. /\ Len(words) \in Nat
      /\ \A n \in 1..Len(words) : words[n] \in Segment
  OBVIOUS
<1>2. \A n \in 1..Len(words) : words[n].end \in Nat
  BY <1>1 DEF Segment
<1>3. IsFiniteSet(1..Len(words)) /\ Cardinality(1..Len(words)) = Len(words)
  <2>1. 1 \in Int /\ Len(words) \in Int
    BY <1>1
  <2>2. Cardinality(1..Len(words)) = IF 1 > Len(words) THEN 0 ELSE Len(words) - 1 + 1
    BY <2>1, FS_Interval, Zenon
  <2>3. IsFiniteSet(1..Len(words))
    BY <2>1, FS_Interval
  <2>. DEFINE c == Cardinality(1..Len(words))
              l == Len(words)
  <2>4. l \in Nat /\ c = IF 1 > l THEN 0 ELSE l - 1 + 1
    BY <1>1, <2>2
  <2>. HIDE DEF c, l
  <2>5. c = l
    BY <2>4
  <2>. QED
    BY <2>3, <2>5 DEF c, l
<1>4. IsFiniteSet(R) /\ r \in Nat /\ r <= Len(words)
  <2>1. R \subseteq 1..Len(words)
    OBVIOUS
  <2>. HIDE DEF R
  <2>. QED
    BY <1>3, <2>1, FS_Subset, FS_CardinalityType
<1>5. ASSUME Ordered(words), NEW n \in 1..Len(words), n > r PROVE words[n].end > then
  <2>1. SUFFICES ASSUME words[n].end <= then PROVE FALSE
    BY <1>2
  <2>2. \A m \in 1..n : words[m].end <= then
    <3>1. ASSUME NEW m \in 1..n PROVE words[m].end <= then
      <4>1. m \in 1..Len(words) /\ words[m].end <= words[n].end
        BY <1>1, <1>5 DEF Ordered
      <4>. QED
        BY <1>2, <2>1, <4>1
    <3>. QED
      BY <3>1
  <2>3. 1..n \subseteq R
    BY <1>1, <2>2
  <2>. HIDE DEF R
  <2>4. Cardinality(1..n) <= r /\ Cardinality(1..n) = n
    <3>1. 1 \in Int /\ n \in Int /\ ~(1 > n)
      BY <1>1
    <3>2. Cardinality(1..n) = IF 1 > n THEN 0 ELSE n - 1 + 1
      BY <3>1, FS_Interval, Zenon
    <3>3. Cardinality(1..n) = n
      BY <3>1, <3>2
    <3>. QED
      BY <1>4, <2>3, <3>3, FS_Subset
  <2>. HIDE DEF r
  <2>. QED
    BY <1>1, <1>4, <1>5, <2>4
<1>6. Reached(words, then) = r
  BY Zenon DEF Reached
<1>. HIDE DEF r
<1>. QED
  BY <1>1, <1>4, <1>5, <1>6

(* Committing the first of the words takes `through` to the end of the last, *)
(* unless it is there already.                                               *)
RaisesTo(s, t, words, count) ==
  /\ s.through <= t.through
  /\ t.through = s.through \/ \E n \in 1..count : t.through = words[n].end
  /\ \A n \in 1..count : words[n].end <= t.through

(* Words of which the first are committed and the others are shown.          *)
Settles(s, words, count, by, hypotheses, t) ==
  /\ t = [CommitSegments(s, SubSeq(words, 1, count), by)
            EXCEPT !.unstable = SubSeq(words, count + 1, Len(words)),
                   !.hypotheses = hypotheses]
  /\ Same(s, t) /\ t.start = s.start /\ t.hypotheses = hypotheses
  /\ Extends(s.committed, t.committed) /\ Gains(s.committed, t.committed, words, count)
  /\ s.through <= t.through
  /\ t.through = s.through \/ \E n \in 1..count : t.through = words[n].end
  /\ \A n \in 1..count : words[n].end <= t.through
  /\ \A e \in Nat : s.through <= e /\ (\A n \in 1..Len(words) : words[n].end <= e)
       => t.through <= e /\ \A n \in 1..Len(t.unstable) : t.unstable[n].end <= e
  /\ Ordered(words) /\ (\A n \in 1..Len(words) : words[n].end >= s.through)
       => Ordered(t.unstable) /\ \A n \in 1..Len(t.unstable) : t.unstable[n].end >= t.through
  /\ Len(t.unstable) = Len(words) - count
  /\ \A n \in 1..Len(t.unstable) : n + count \in 1..Len(words) /\ t.unstable[n] = words[n + count]

(* Committing some of the words yields a state.                              *)
LEMMA Settled ==
  ASSUME NEW s \in States, NEW words \in Seq(Segment), NEW count \in 0..Len(words),
         NEW by \in {"agreement", "bound", "final"},
         NEW hypotheses \in Seq(Seq(Segment)),
         TrailingGuardWords > 0 /\ by = "agreement" =>
           \A n \in 1..count : words[n].text = Spoken[words[n].word]
  PROVE  \E t \in States : Settles(s, words, count, by, hypotheses, t)
<1>. DEFINE head == SubSeq(words, 1, count)
            tail == SubSeq(words, count + 1, Len(words))
<1>1. /\ Len(words) \in Nat /\ count \in Nat /\ count <= Len(words)
      /\ \A n \in 1..Len(words) : words[n] \in Segment
  OBVIOUS
<1>2. \A n \in 1..Len(words) : words[n].end \in Nat
  BY <1>1 DEF Segment
<1>3. /\ head \in Seq(Segment) /\ Len(head) = count
      /\ \A n \in 1..count : n \in 1..Len(words) /\ head[n] = words[n]
  BY <1>1
<1>4. /\ tail \in Seq(Segment) /\ Len(tail) = Len(words) - count
      /\ \A n \in 1..Len(tail) : n + count \in 1..Len(words) /\ tail[n] = words[n + count]
  BY <1>1
<1>. HIDE DEF head, tail
<1>5. PICK c \in Seq(Commit), g \in Nat :
        /\ CommitSegments(s, head, by) = [s EXCEPT !.committed = c, !.through = g]
        /\ Extends(s.committed, c) /\ Gains(s.committed, c, head, Len(head))
        /\ s.through <= g
        /\ g = s.through \/ \E n \in 1..Len(head) : g = head[n].end
        /\ \A n \in 1..Len(head) : head[n].end <= g
  <2>1. TrailingGuardWords > 0 /\ by = "agreement" =>
          \A n \in 1..Len(head) : head[n].text = Spoken[head[n].word]
    BY <1>3
  <2>2. head \in Seq(Segment)
    BY <1>3
  <2>. QED
    <3>. HIDE DEF head
    <3>1. \A x \in States, q \in Seq(Segment), b \in {"agreement", "bound", "final"} :
            (TrailingGuardWords > 0 /\ b = "agreement" =>
               \A n \in 1..Len(q) : q[n].text = Spoken[q[n].word])
            => Commits(x, q, b)
      BY CommitProperties
    <3>2. Commits(s, head, by)
      BY <2>1, <2>2, <3>1, Zenon
    <3>. QED
      BY <3>2, Zenon DEF Commits
<1>. DEFINE t == [CommitSegments(s, head, by) EXCEPT !.unstable = tail, !.hypotheses = hypotheses]
<1>6. /\ t \in States /\ t.total = s.total /\ t.new = s.new /\ t.revision = s.revision
      /\ t.last = s.last /\ t.finalized = s.finalized
      /\ t.start = s.start /\ t.hypotheses = hypotheses
      /\ t.committed = c /\ t.through = g /\ t.unstable = tail
  BY <1>4, <1>5 DEF States
<1>. HIDE DEF t
<1>7. ASSUME NEW e \in Nat, s.through <= e, \A n \in 1..Len(words) : words[n].end <= e
      PROVE  /\ t.through <= e
             /\ \A n \in 1..Len(t.unstable) : t.unstable[n].end <= e
  BY <1>3, <1>4, <1>5, <1>6, <1>7
<1>8. ASSUME Ordered(words), \A n \in 1..Len(words) : words[n].end >= s.through
      PROVE  /\ Ordered(tail)
             /\ \A n \in 1..Len(tail) : tail[n].end >= g
  <2>1. ASSUME NEW n \in 1..Len(tail), NEW m \in 1..n PROVE tail[m].end <= tail[n].end
    <3>1. m \in 1..Len(tail) /\ m + count \in 1..(n + count)
      BY <1>1, <1>4
    <3>. QED
      BY <1>4, <1>8, <3>1 DEF Ordered
  <2>2. ASSUME NEW n \in 1..Len(tail) PROVE tail[n].end >= g
    <3>1. CASE g = s.through
      BY <1>4, <1>8, <3>1
    <3>2. CASE \E m \in 1..Len(head) : g = head[m].end
      <4>1. PICK m \in 1..Len(head) : g = head[m].end
        BY <3>2
      <4>2. m \in 1..Len(words) /\ m \in 1..(n + count) /\ g = words[m].end
        BY <1>1, <1>3, <1>4, <4>1
      <4>3. words[m].end <= words[n + count].end
        BY <1>4, <1>8, <4>2 DEF Ordered
      <4>. QED
        BY <1>2, <1>4, <4>2, <4>3
    <3>. QED
      BY <1>5, <3>1, <3>2
  <2>. QED
    BY <2>1, <2>2 DEF Ordered
<1>9. t = [CommitSegments(s, SubSeq(words, 1, count), by)
             EXCEPT !.unstable = SubSeq(words, count + 1, Len(words)),
                    !.hypotheses = hypotheses]
  BY DEF t, head, tail
<1>10. Settles(s, words, count, by, hypotheses, t)
  <2>1. Same(s, t) /\ Extends(s.committed, t.committed)
    BY <1>5, <1>6 DEF Same
  <2>2. Ordered(words) /\ (\A n \in 1..Len(words) : words[n].end >= s.through)
          => Ordered(t.unstable) /\ \A n \in 1..Len(t.unstable) : t.unstable[n].end >= t.through
    BY <1>6, <1>8
  <2>3. Len(t.unstable) = Len(words) - count
        /\ \A n \in 1..Len(t.unstable) : n + count \in 1..Len(words) /\ t.unstable[n] = words[n + count]
    BY <1>4, <1>6
  <2>4. t.start = s.start /\ t.hypotheses = hypotheses
    BY <1>6
  <2>5. Gains(s.committed, t.committed, words, count)
    BY <1>3, <1>5, <1>6 DEF Gains
  <2>6. /\ s.through <= t.through
        /\ t.through = s.through \/ \E n \in 1..count : t.through = words[n].end
        /\ \A n \in 1..count : words[n].end <= t.through
    BY <1>3, <1>5, <1>6
  <2>. QED
    BY <1>7, <1>9, <2>1, <2>2, <2>3, <2>4, <2>5, <2>6, Zenon DEF Settles
<1>. QED
  BY <1>6, <1>10

(* Before the bound drops audio, what ends in it is committed.               *)
LEMMA ForceProperties ==
  ASSUME NEW s \in States
  PROVE  \E t \in States :
           /\ t = ForceCommitForBound(s)
           /\ Same(s, t) /\ t.start = s.start
           /\ Len(t.hypotheses) <= Len(s.hypotheses)
           /\ Extends(s.committed, t.committed)
           /\ \A h \in Nat : Timely(s, h) => Timely(t, h)
           /\ Hearable(s) =>
                /\ Hearable(t)
                /\ \A n \in 1..Len(t.unstable) :
                     t.unstable[n].end >= SamplesToMs(Monus(s.total, MsToSamples(MaxWindowMs)))
<1>. DEFINE bound == SamplesToMs(Monus(s.total, MsToSamples(MaxWindowMs)))
            reached == Reached(s.unstable, bound + OverlapMs)
            count == AtMost(AtLeast(reached, 1), Len(s.unstable))
            u == s.unstable
            t == ForceCommitForBound(s)
            still == bound <= SamplesToMs(s.start) \/ count = 0
<1>1. /\ s.total \in Nat /\ s.start \in Nat /\ u \in Seq(Segment) /\ Len(u) \in Nat
      /\ s.through \in Nat /\ Len(s.hypotheses) \in Nat
      /\ \A n \in 1..Len(u) : u[n] \in Segment
  BY StateFields
<1>2. \A n \in 1..Len(u) : u[n].end \in Nat
  BY <1>1 DEF Segment
<1>3. bound \in Nat /\ bound + OverlapMs \in Nat /\ SamplesToMs(s.start) \in Nat
      /\ OverlapMs \in Nat
  <2>. DEFINE low == Monus(s.total, MsToSamples(MaxWindowMs))
  <2>1. MsToSamples(MaxWindowMs) \in Nat
    BY Constants, InSamples
  <2>2. low \in Nat
    BY <1>1, <2>1 DEF Monus
  <2>. HIDE DEF low
  <2>3. SamplesToMs(low) \in Nat /\ SamplesToMs(s.start) \in Nat
    BY <1>1, <2>2, InMs
  <2>4. SamplesToMs(low) + OverlapMs \in Nat
    BY <2>3, Constants
  <2>. QED
    BY <2>3, <2>4, Constants DEF low
<1>. HIDE DEF bound, u
<1>4. reached \in 0..Len(u)
      /\ (Ordered(u) => \A n \in 1..Len(u) : n > reached => u[n].end > bound + OverlapMs)
  BY <1>1, <1>3, ReachedProperties DEF u
<1>. HIDE DEF reached
<1>5. count \in 0..Len(u) /\ count >= reached /\ (count = 0 => Len(u) = 0)
  BY <1>1, <1>4 DEF AtMost, AtLeast, u
<1>. HIDE DEF count
<1>6. t = IF still THEN s
          ELSE [CommitSegments(s, SubSeq(u, 1, count), "bound")
                  EXCEPT !.unstable = SubSeq(u, count + 1, Len(u)), !.hypotheses = <<>>]
  BY Zenon DEF ForceCommitForBound, bound, reached, count, u
<1>. HIDE DEF t
<1>7. CASE still
  <2>1. t = s
    BY <1>6, <1>7
  <2>2. ASSUME Hearable(s), NEW n \in 1..Len(u) PROVE u[n].end >= bound
    BY <1>1, <1>2, <1>3, <1>5, <1>7, <2>2 DEF Hearable, u
  <2>3. Extends(s.committed, s.committed) /\ Same(s, s)
    BY ExtendsItself, StateFields DEF Same
  <2>. QED
    BY <1>1, <2>1, <2>2, <2>3 DEF t, bound, u
<1>8. CASE ~still
  <2>. DEFINE none == <<>>
  <2>1. none \in Seq(Seq(Segment)) /\ Len(none) = 0 /\ none = <<>>
    OBVIOUS
  <2>. HIDE DEF none
  <2>2. PICK r \in States : Settles(s, u, count, "bound", none, r)
    BY <1>1, <1>5, <2>1, Settled
  <2>3. t = r /\ r.hypotheses = none
    BY <1>6, <1>8, <2>1, <2>2, Zenon DEF Settles
  <2>a. Same(s, r) /\ r.start = s.start /\ Extends(s.committed, r.committed)
    BY <2>2, Zenon DEF Settles
  <2>b. Len(r.unstable) = Len(u) - count
        /\ \A n \in 1..Len(r.unstable) : n + count \in 1..Len(u) /\ r.unstable[n] = u[n + count]
    BY <2>2, Zenon DEF Settles
  <2>c. /\ \A e \in Nat : s.through <= e /\ (\A n \in 1..Len(u) : u[n].end <= e)
              => r.through <= e /\ \A n \in 1..Len(r.unstable) : r.unstable[n].end <= e
        /\ Ordered(u) /\ (\A n \in 1..Len(u) : u[n].end >= s.through)
             => Ordered(r.unstable) /\ \A n \in 1..Len(r.unstable) : r.unstable[n].end >= r.through
    BY <2>2, Zenon DEF Settles
  <2>4. ASSUME NEW h \in Nat, Timely(s, h) PROVE Timely(r, h)
    <3>1. SamplesToMs(h) \in Nat
      BY InMs
    <3>. QED
      BY <2>c, <2>4, <3>1 DEF Timely, u
  <2>5. ASSUME Hearable(s), NEW n \in 1..Len(r.unstable)
        PROVE  /\ r.unstable[n].end >= SamplesToMs(r.start)
               /\ r.unstable[n].end >= bound
    <3>1. n + count \in 1..Len(u) /\ n + count > reached /\ r.unstable[n] = u[n + count]
      BY <1>1, <1>4, <1>5, <2>b
    <3>2. u[n + count].end \in Nat /\ u[n + count].end > bound + OverlapMs
      BY <1>2, <1>4, <2>5, <3>1 DEF Hearable, u
    <3>3. u[n + count].end >= SamplesToMs(s.start)
      BY <2>5, <3>1 DEF Hearable, u
    <3>. QED
      BY <1>3, <2>a, <3>1, <3>2, <3>3
  <2>6. Hearable(s) => Ordered(r.unstable)
                        /\ \A n \in 1..Len(r.unstable) : r.unstable[n].end >= r.through
    BY <2>c DEF Hearable, u
  <2>7. Hearable(s) => Hearable(r) /\ \A n \in 1..Len(r.unstable) : r.unstable[n].end >= bound
    BY <2>5, <2>6 DEF Hearable
  <2>8. Len(r.hypotheses) <= Len(s.hypotheses)
    BY <1>1, <2>1, <2>3
  <2>. QED
    BY <2>2, <2>3, <2>4, <2>7, <2>8, <2>a DEF t, bound
<1>. QED
  BY <1>7, <1>8

(* Trimming only drops audio, no more than the bound and the mark allow.     *)
LEMMA TrimProperties ==
  ASSUME NEW s \in States, NEW final \in BOOLEAN, s.start <= s.total
  PROVE  \E a \in Nat :
           /\ TrimAudio(s, final) = [s EXCEPT !.start = a]
           /\ [s EXCEPT !.start = a] \in States
           /\ s.start <= a /\ a <= s.total /\ s.total - a <= MsToSamples(MaxWindowMs)
           /\ \/ final \/ a = s.start \/ a <= MsToSamples(Monus(s.through, OverlapMs))
              \/ a = Monus(s.total, MsToSamples(MaxWindowMs))
           /\ \A h \in Nat :
                /\ ~final /\ s.start <= h
                /\ s.through <= SamplesToMs(h)
                /\ Monus(s.total, MsToSamples(MaxWindowMs)) <= h
                => a <= h
           /\ /\ ~final /\ Hearable(s)
              /\ \A n \in 1..Len(s.unstable) :
                   s.unstable[n].end >= SamplesToMs(Monus(s.total, MsToSamples(MaxWindowMs)))
              => Hearable([s EXCEPT !.start = a])
<1>. DEFINE w == MsToSamples(MaxWindowMs)
            target == IF final THEN SamplesToMs(s.total) ELSE Monus(s.through, OverlapMs)
            b == AtLeast(s.start, AtMost(MsToSamples(target), s.total))
            low == Monus(s.total, w)
            a == AtLeast(b, low)
            t == [s EXCEPT !.start = a]
<1>1. /\ s.total \in Nat /\ s.start \in Nat /\ s.through \in Nat /\ s.unstable \in Seq(Segment)
  BY StateFields
<1>2. w \in Nat /\ target \in Nat /\ MsToSamples(target) \in Nat
  <2>1. w \in Nat /\ OverlapMs \in Nat /\ SamplesToMs(s.total) \in Nat
    BY <1>1, Constants, InMs, InSamples
  <2>2. target \in Nat
    BY <1>1, <2>1 DEF Monus
  <2>. QED
    BY <2>1, <2>2, InSamples
<1>3. TrimAudio(s, final) = t
  <2>1. TrimAudio(s, final) = EnforceAudioBound([s EXCEPT !.start = b])
    BY Zenon DEF TrimAudio
  <2>2. [s EXCEPT !.start = b].start = b /\ [s EXCEPT !.start = b].total = s.total
    BY DEF States
  <2>3. [[s EXCEPT !.start = b] EXCEPT !.start = a] = t
    BY DEF States
  <2>. HIDE DEF b
  <2>4. EnforceAudioBound([s EXCEPT !.start = b])
          = [[s EXCEPT !.start = b] EXCEPT !.start =
                AtLeast([s EXCEPT !.start = b].start, Monus([s EXCEPT !.start = b].total, w))]
    BY Zenon DEF EnforceAudioBound
  <2>. QED
    BY <2>1, <2>2, <2>3, <2>4
<1>. HIDE DEF target, w
<1>4. /\ b \in Nat /\ s.start <= b /\ b <= s.total
      /\ b = s.start \/ b <= MsToSamples(target)
  BY <1>1, <1>2 DEF AtLeast, AtMost
<1>5. low \in Nat /\ low <= s.total /\ s.total - low <= w
  BY <1>1, <1>2 DEF Monus
<1>. HIDE DEF b, low
<1>6. a \in Nat /\ s.start <= a /\ a <= s.total /\ s.total - a <= w
      /\ (a = s.start \/ a <= MsToSamples(target) \/ a = low)
  BY <1>1, <1>2, <1>4, <1>5 DEF AtLeast
<1>. HIDE DEF a
<1>7. t \in States /\ t.unstable = s.unstable /\ t.through = s.through /\ t.start = a
  BY <1>6 DEF States
<1>8. ASSUME NEW h \in Nat, ~final, s.start <= h, s.through <= SamplesToMs(h), low <= h
      PROVE  a <= h
  <2>1. target <= s.through
    BY <1>1, <1>8, Constants DEF target, Monus
  <2>2. SamplesToMs(h) \in Nat /\ MsToSamples(SamplesToMs(h)) <= h
        /\ MsToSamples(SamplesToMs(h)) \in Nat
    BY InMs, InSamples, RoundsDown
  <2>3. MsToSamples(target) <= MsToSamples(SamplesToMs(h))
    BY <1>1, <1>2, <1>8, <2>1, <2>2, UnitsMonotone
  <2>. QED
    BY <1>1, <1>2, <1>5, <1>6, <1>8, <2>2, <2>3
<1>9. ASSUME ~final, Hearable(s),
             \A n \in 1..Len(s.unstable) : s.unstable[n].end >= SamplesToMs(low)
      PROVE  Hearable(t)
  <2>1. ASSUME NEW n \in 1..Len(s.unstable) PROVE s.unstable[n].end >= SamplesToMs(a)
    <3>1. /\ s.unstable[n].end \in Nat
          /\ s.unstable[n].end >= s.through /\ s.unstable[n].end >= SamplesToMs(s.start)
          /\ s.unstable[n].end >= SamplesToMs(low)
      <4>1. s.unstable[n] \in Segment
        BY <1>1
      <4>2. s.unstable[n].end \in Nat
        BY <4>1 DEF Segment
      <4>. QED
        BY <1>9, <4>2 DEF Hearable
    <3>2. CASE a = s.start
      BY <3>1, <3>2
    <3>3. CASE a = low
      BY <3>1, <3>3
    <3>4. CASE a <= MsToSamples(target)
      <4>1. SamplesToMs(a) <= SamplesToMs(MsToSamples(target))
            /\ SamplesToMs(MsToSamples(target)) = target /\ SamplesToMs(a) \in Nat
        BY <1>2, <1>6, <3>4, UnitsMonotone, ThereAndBack, InMs
      <4>2. target <= s.through
        BY <1>1, <1>9, Constants DEF target, Monus
      <4>. QED
        BY <1>1, <1>2, <3>1, <4>1, <4>2
    <3>. QED
      BY <1>6, <3>2, <3>3, <3>4
  <2>. QED
    BY <1>7, <1>9, <2>1 DEF Hearable
<1>10. final \/ a = s.start \/ a <= MsToSamples(Monus(s.through, OverlapMs)) \/ a = low
  BY <1>6 DEF target
<1>. QED
  BY <1>3, <1>6, <1>7, <1>8, <1>9, <1>10 DEF w, low

(* What a state becomes that only commits and trims for the bound.           *)
Advances(s, t) ==
  /\ Same(s, t)
  /\ s.start <= t.start /\ t.start <= t.total
  /\ t.total - t.start <= MsToSamples(MaxWindowMs)
  /\ Len(t.hypotheses) <= Len(s.hypotheses)
  /\ Extends(s.committed, t.committed)
  /\ \A h \in Nat : Timely(s, h) => Timely(t, h)
  /\ \A h \in Nat : /\ Timely(s, h) /\ s.start <= h
                    /\ Monus(s.total, MsToSamples(MaxWindowMs)) <= h
       => t.start <= h
  /\ Hearable(s) => Hearable(t)

(* The bound and the trim after it yield a state that advances.              *)
LEMMA ForceTrim ==
  ASSUME NEW s \in States, s.start <= s.total
  PROVE  \E t \in States : t = TrimAudio(ForceCommitForBound(s), FALSE) /\ Advances(s, t)
<1>. DEFINE w == MsToSamples(MaxWindowMs)
            low == Monus(s.total, w)
            ms == SamplesToMs(low)
<1>1. PICK r \in States :
        /\ r = ForceCommitForBound(s)
        /\ Same(s, r) /\ r.start = s.start
        /\ Len(r.hypotheses) <= Len(s.hypotheses)
        /\ Extends(s.committed, r.committed)
        /\ \A h \in Nat : Timely(s, h) => Timely(r, h)
        /\ Hearable(s) =>
             /\ Hearable(r)
             /\ \A n \in 1..Len(r.unstable) : r.unstable[n].end >= ms
  BY ForceProperties
<1>2. r.total = s.total /\ r.start <= r.total /\ Monus(r.total, w) = low
  BY <1>1 DEF Same
<1>. HIDE DEF ms
<1>3. PICK a \in Nat :
        /\ TrimAudio(r, FALSE) = [r EXCEPT !.start = a]
        /\ [r EXCEPT !.start = a] \in States
        /\ r.start <= a /\ a <= r.total /\ r.total - a <= w
        /\ \A h \in Nat :
                /\ ~FALSE /\ r.start <= h
                /\ r.through <= SamplesToMs(h)
                /\ Monus(r.total, w) <= h
                => a <= h
        /\ /\ ~FALSE /\ Hearable(r)
           /\ \A n \in 1..Len(r.unstable) : r.unstable[n].end >= SamplesToMs(Monus(r.total, w))
           => Hearable([r EXCEPT !.start = a])
  BY <1>2, TrimProperties
<1>. DEFINE t == [r EXCEPT !.start = a]
<1>4. /\ t.total = r.total /\ t.new = r.new /\ t.revision = r.revision /\ t.last = r.last
      /\ t.finalized = r.finalized /\ t.start = a /\ t.hypotheses = r.hypotheses
      /\ t.committed = r.committed /\ t.through = r.through /\ t.unstable = r.unstable
  BY DEF States
<1>5. t \in States /\ t = TrimAudio(ForceCommitForBound(s), FALSE)
  BY <1>1, <1>3
<1>6. Hearable(s) => Hearable(t)
  BY <1>1, <1>2, <1>3 DEF ms
<1>. HIDE DEF t, w, low
<1>7. ASSUME NEW h \in Nat, Timely(s, h) PROVE Timely(t, h)
  <2>1. Timely(r, h)
    BY <1>1, <1>7
  <2>. QED
    BY <1>4, <2>1 DEF Timely
<1>8. ASSUME NEW h \in Nat, Timely(s, h), s.start <= h, low <= h PROVE t.start <= h
  <2>1. r.through <= SamplesToMs(h)
    BY <1>1, <1>8 DEF Timely
  <2>. QED
    BY <1>1, <1>2, <1>3, <1>4, <1>8, <2>1
<1>9. Same(s, t)
  BY <1>1, <1>4 DEF Same
<1>10. s.start <= t.start /\ t.start <= t.total /\ t.total - t.start <= w
  BY <1>1, <1>3, <1>4
<1>11. Len(t.hypotheses) <= Len(s.hypotheses) /\ Extends(s.committed, t.committed)
  BY <1>1, <1>4
<1>12. Advances(s, t)
  BY <1>6, <1>7, <1>8, <1>9, <1>10, <1>11 DEF Advances, w, low
<1>. QED
  BY <1>5, <1>12

(* The state that the decoder is asked about.                                *)
LEMMA PreparedProperties ==
  ASSUME NEW s \in States, s.start <= s.total
  PROVE  \E t \in States : t = Prepared(s) /\ Advances(s, t)
<1>1. CASE s.start = s.total
  <2>1. s = Prepared(s)
    BY <1>1 DEF Prepared
  <2>2. s.total \in Nat /\ MsToSamples(MaxWindowMs) \in Nat /\ Len(s.hypotheses) \in Nat
        /\ Len(s.committed) \in Nat
    <3>1. s.total \in Nat /\ s.hypotheses \in Seq(Seq(Segment)) /\ s.committed \in Seq(Commit)
      BY StateFields
    <3>2. MsToSamples(MaxWindowMs) \in Nat
      BY Constants, InSamples
    <3>. QED
      BY <3>1, <3>2
  <2>3. /\ s.total - s.start <= MsToSamples(MaxWindowMs)
        /\ Len(s.hypotheses) <= Len(s.hypotheses)
        /\ Extends(s.committed, s.committed) /\ Same(s, s)
    BY <1>1, <2>2, ExtendsItself, StateFields DEF Same
  <2>4. Advances(s, s)
    BY <1>1, <2>2, <2>3 DEF Advances
  <2>. QED
    BY <2>1, <2>4
<1>2. CASE s.start # s.total
  <2>1. Prepared(s) = TrimAudio(ForceCommitForBound(s), FALSE)
    BY <1>2 DEF Prepared
  <2>. QED
    BY <2>1, ForceTrim
<1>. QED
  BY <1>1, <1>2

(* What successive hypotheses agree on is counted.                           *)
LEMMA CommonPrefixBounds ==
  ASSUME NEW hypotheses \in Seq(Seq(Segment)), Len(hypotheses) >= 1
  PROVE  /\ CommonPrefixWords(hypotheses) \in Nat
         /\ \A h \in 1..Len(hypotheses) : CommonPrefixWords(hypotheses) <= Len(hypotheses[h])
<1>. DEFINE K == {n \in 1..Len(hypotheses[1]) :
                    \A i \in 1..n, h \in DOMAIN hypotheses :
                      i <= Len(hypotheses[h]) /\ hypotheses[h][i].text = hypotheses[1][i].text}
<1>1. Len(hypotheses[1]) \in Nat
  <2>1. hypotheses[1] \in Seq(Segment)
    OBVIOUS
  <2>. QED
    BY <2>1
<1>2. IsFiniteSet(1..Len(hypotheses[1])) /\ K \subseteq 1..Len(hypotheses[1])
  <2>1. IsFiniteSet(1..Len(hypotheses[1]))
    <3>. DEFINE l == Len(hypotheses[1])
    <3>1. l \in Int
      BY <1>1
    <3>. HIDE DEF l
    <3>2. IsFiniteSet(1..l)
      BY <3>1, FS_Interval
    <3>. QED
      BY <3>2 DEF l
  <2>2. K \subseteq 1..Len(hypotheses[1])
    BY Zenon
  <2>. QED
    BY <2>1, <2>2
<1>3. CommonPrefixWords(hypotheses) = Cardinality(K)
  BY Zenon DEF CommonPrefixWords
<1>4. ASSUME NEW h \in 1..Len(hypotheses) PROVE Cardinality(K) <= Len(hypotheses[h])
  <2>. DEFINE l == Len(hypotheses[h])
  <2>1. l \in Nat
    <3>1. hypotheses[h] \in Seq(Segment)
      OBVIOUS
    <3>. QED
      BY <3>1
  <2>2. ASSUME NEW n \in K PROVE n \in 1..l
    <3>1. n \in 1..n /\ n \in Nat /\ n >= 1
      BY <1>1
    <3>2. n <= l
      BY <3>1
    <3>. HIDE DEF l, K
    <3>. QED
      BY <2>1, <3>1, <3>2
  <2>. HIDE DEF l, K
  <2>3. IsFiniteSet(1..l) /\ Cardinality(1..l) = l
    <3>1. IsFiniteSet(1..l) /\ Cardinality(1..l) = IF 1 > l THEN 0 ELSE l - 1 + 1
      BY <2>1, FS_Interval
    <3>. DEFINE c == Cardinality(1..l)
    <3>2. c = IF 1 > l THEN 0 ELSE l - 1 + 1
      BY <3>1
    <3>. HIDE DEF c
    <3>3. c = l
      BY <2>1, <3>2
    <3>. QED
      BY <3>1, <3>3 DEF c
  <2>4. Cardinality(K) <= l
    BY <2>2, <2>3, FS_Subset
  <2>. QED
    BY <2>4 DEF l
<1>. HIDE DEF K
<1>5. IsFiniteSet(K)
  BY <1>2, FS_Subset
<1>. QED
  BY <1>3, <1>4, <1>5, FS_CardinalityType

(* Agreement commits the first of the words, or none.                        *)
Agreed(s, t, words) ==
  \/ t.committed = s.committed /\ t.through = s.through /\ t.unstable = words
  \/ \E count \in 0..Len(words) : Settles(s, words, count, "agreement", <<>>, t)

(* Local agreement commits the first of the words that were heard, and shows *)
(* the others.                                                               *)
LEMMA AgreeProperties ==
  ASSUME NEW s \in States, NEW words \in Seq(Segment),
         \A n \in 1..(Len(words) - 1) : words[n].text = Spoken[words[n].word]
  PROVE  \E t \in States :
           /\ t = Agree(s, words)
           /\ Same(s, t) /\ t.start = s.start
           /\ Len(t.hypotheses) <= AgreementUpdates
           /\ Extends(s.committed, t.committed) /\ Agreed(s, t, words)
           /\ \A e \in Nat : s.through <= e /\ (\A n \in 1..Len(words) : words[n].end <= e)
                => t.through <= e /\ \A n \in 1..Len(t.unstable) : t.unstable[n].end <= e
           /\ /\ Ordered(words)
              /\ \A n \in 1..Len(words) :
                   words[n].end >= s.through /\ words[n].end >= SamplesToMs(s.start)
              => Hearable(t)
<1>. DEFINE pushed == Append(s.hypotheses, words)
            from == AtLeast(1, Len(pushed) - AgreementUpdates + 1)
            kept == SubSeq(pushed, from, Len(pushed))
            eligible == Monus(CommonPrefixWords(kept), TrailingGuardWords)
            count == IF Len(kept) < AgreementUpdates THEN 0
                     ELSE CompleteSegmentsWithinWords(words, eligible)
<1>1. /\ s.hypotheses \in Seq(Seq(Segment)) /\ s.committed \in Seq(Commit)
      /\ Len(s.hypotheses) \in Nat /\ Len(s.committed) \in Nat /\ Len(words) \in Nat
      /\ AgreementUpdates \in Nat /\ AgreementUpdates >= 2 /\ TrailingGuardWords \in Nat
      /\ s.through \in Nat
  BY StateFields, Constants, WhisperAssumption DEF WhisperAssumption
<1>2. pushed \in Seq(Seq(Segment)) /\ Len(pushed) = Len(s.hypotheses) + 1
  BY <1>1
<1>. HIDE DEF pushed
<1>3. Len(pushed) \in Nat /\ Len(pushed) >= 1
  BY <1>1, <1>2
<1>4. /\ from \in 1..Len(pushed) /\ Len(pushed) - from + 1 <= AgreementUpdates
  BY <1>1, <1>3 DEF AtLeast
<1>. HIDE DEF from
<1>5. /\ kept \in Seq(Seq(Segment)) /\ Len(kept) = Len(pushed) - from + 1
  BY <1>2, <1>3, <1>4
<1>a. kept[Len(kept)] = words
  <2>1. pushed[Len(pushed)] = words
    BY <1>1, <1>2 DEF pushed
  <2>2. Len(kept) + from - 1 = Len(pushed) /\ Len(kept) \in 1..Len(kept)
    BY <1>3, <1>4, <1>5
  <2>3. kept[Len(kept)] = pushed[Len(kept) + from - 1]
    BY <1>2, <1>3, <1>4, <1>5, <2>2
  <2>. QED
    BY <2>1, <2>2, <2>3
<1>. HIDE DEF kept
<1>6. Len(kept) \in Nat /\ Len(kept) >= 1 /\ Len(kept) <= AgreementUpdates
  BY <1>1, <1>3, <1>4, <1>5
<1>7. eligible \in Nat /\ (TrailingGuardWords > 0 /\ eligible # 0 => eligible <= Len(words) - 1)
  <2>. DEFINE common == CommonPrefixWords(kept)
  <2>1. common \in Nat /\ common <= Len(words)
    <3>1. Len(kept) \in 1..Len(kept)
      BY <1>6
    <3>2. CommonPrefixWords(kept) <= Len(kept[Len(kept)])
      BY <1>5, <1>6, <3>1, CommonPrefixBounds
    <3>. QED
      BY <1>5, <1>6, <1>a, <3>2, CommonPrefixBounds
  <2>. HIDE DEF common
  <2>. DEFINE l == Len(words)
  <2>2. l \in Nat /\ common <= l
    BY <1>1, <2>1
  <2>. HIDE DEF l
  <2>3. Monus(common, TrailingGuardWords) \in Nat
        /\ (TrailingGuardWords > 0 /\ Monus(common, TrailingGuardWords) # 0
             => Monus(common, TrailingGuardWords) <= l - 1)
    BY <1>1, <2>1, <2>2 DEF Monus
  <2>. QED
    BY <2>3 DEF common, l
<1>. HIDE DEF eligible
<1>8. count \in 0..Len(words) /\ (TrailingGuardWords > 0 /\ count # 0 => count <= Len(words) - 1)
  BY <1>1, <1>7 DEF CompleteSegmentsWithinWords, AtMost
<1>. HIDE DEF count
<1>9. Agree(s, words) =
        IF count = 0 THEN [s EXCEPT !.hypotheses = kept, !.unstable = words]
        ELSE [CommitSegments(s, SubSeq(words, 1, count), "agreement")
                EXCEPT !.hypotheses = <<>>,
                       !.unstable = SubSeq(words, count + 1, Len(words))]
  BY Zenon DEF Agree, pushed, from, kept, eligible, count
<1>10. CASE count = 0
  <2>. DEFINE t == [s EXCEPT !.hypotheses = kept, !.unstable = words]
  <2>1. /\ t \in States /\ t.total = s.total /\ t.new = s.new /\ t.revision = s.revision
        /\ t.last = s.last /\ t.finalized = s.finalized /\ t.start = s.start
        /\ t.hypotheses = kept /\ t.committed = s.committed /\ t.through = s.through
        /\ t.unstable = words
    BY <1>5 DEF States
  <2>2. t = Agree(s, words)
    BY <1>9, <1>10
  <2>. HIDE DEF t
  <2>3. Same(s, t) /\ Extends(s.committed, t.committed)
    BY <1>1, <2>1, ExtendsItself DEF Same
  <2>4. /\ Ordered(words)
        /\ \A n \in 1..Len(words) :
             words[n].end >= s.through /\ words[n].end >= SamplesToMs(s.start)
        => Hearable(t)
    BY <2>1 DEF Hearable
  <2>5. \A e \in Nat : s.through <= e /\ (\A n \in 1..Len(words) : words[n].end <= e)
                => t.through <= e /\ \A n \in 1..Len(t.unstable) : t.unstable[n].end <= e
    BY <2>1
  <2>6. Agreed(s, t, words)
    BY <2>1 DEF Agreed
  <2>. QED
    BY <1>6, <2>1, <2>2, <2>3, <2>4, <2>5, <2>6
<1>11. CASE count # 0
  <2>. DEFINE none == <<>>
  <2>1. none \in Seq(Seq(Segment)) /\ Len(none) = 0 /\ none = <<>>
    OBVIOUS
  <2>. HIDE DEF none
  <2>a. TrailingGuardWords > 0 => \A n \in 1..count : words[n].text = Spoken[words[n].word]
    <3>1. TrailingGuardWords > 0 => \A n \in 1..count : n \in 1..(Len(words) - 1)
      BY <1>1, <1>8, <1>11
    <3>. QED
      BY <3>1
  <2>2. PICK t \in States : Settles(s, words, count, "agreement", none, t)
    BY <1>8, <2>1, <2>a, Settled
  <2>3. /\ t = [CommitSegments(s, SubSeq(words, 1, count), "agreement")
                  EXCEPT !.unstable = SubSeq(words, count + 1, Len(words)),
                         !.hypotheses = none]
        /\ Same(s, t) /\ t.start = s.start /\ t.hypotheses = none
        /\ Extends(s.committed, t.committed)
    BY <2>2, Zenon DEF Settles
  <2>4. t = Agree(s, words)
    <3>. DEFINE c == CommitSegments(s, SubSeq(words, 1, count), "agreement")
                tail == SubSeq(words, count + 1, Len(words))
    <3>1. Agree(s, words) = [c EXCEPT !.hypotheses = none, !.unstable = tail]
      BY <1>9, <1>11, <2>1, Zenon
    <3>2. t = [c EXCEPT !.unstable = tail, !.hypotheses = none]
      BY <2>3
    <3>. HIDE DEF c, tail
    <3>3. [c EXCEPT !.hypotheses = none, !.unstable = tail]
            = [c EXCEPT !.unstable = tail, !.hypotheses = none]
      OBVIOUS
    <3>. QED
      BY <3>1, <3>2, <3>3
  <2>5. /\ \A e \in Nat : s.through <= e /\ (\A n \in 1..Len(words) : words[n].end <= e)
              => t.through <= e /\ \A n \in 1..Len(t.unstable) : t.unstable[n].end <= e
        /\ Ordered(words) /\ (\A n \in 1..Len(words) : words[n].end >= s.through)
             => Ordered(t.unstable) /\ \A n \in 1..Len(t.unstable) : t.unstable[n].end >= t.through
        /\ \A n \in 1..Len(t.unstable) : n + count \in 1..Len(words) /\ t.unstable[n] = words[n + count]
    BY <2>2, Zenon DEF Settles
  <2>6. /\ Ordered(words)
        /\ \A n \in 1..Len(words) :
             words[n].end >= s.through /\ words[n].end >= SamplesToMs(s.start)
        => Hearable(t)
    BY <2>3, <2>5 DEF Hearable
  <2>7. Len(t.hypotheses) <= AgreementUpdates
    BY <1>1, <2>1, <2>3
  <2>8. Agreed(s, t, words)
    BY <1>8, <2>1, <2>2, Zenon DEF Agreed
  <2>. QED
    BY <2>3, <2>4, <2>5, <2>6, <2>7, <2>8
<1>. QED
  BY <1>10, <1>11

(* The words of the window end after what is committed, and within what is   *)
(* heard.                                                                    *)
LEMMA WindowWords ==
  ASSUME NEW s \in States, s.start <= s.total,
         NEW phrases \in Hypotheses(s.start, s.total)
  PROVE  /\ Candidates(s, phrases, SamplesToMs(s.start)) \in Seq(Segment)
         /\ Ordered(Candidates(s, phrases, SamplesToMs(s.start)))
         /\ \A k \in 1..Len(Candidates(s, phrases, SamplesToMs(s.start))) :
              /\ Candidates(s, phrases, SamplesToMs(s.start))[k].end >= s.through
              /\ Candidates(s, phrases, SamplesToMs(s.start))[k].end >= SamplesToMs(s.start)
              /\ Candidates(s, phrases, SamplesToMs(s.start))[k].end <= SamplesToMs(s.total)
         /\ \A k \in 1..(Len(Candidates(s, phrases, SamplesToMs(s.start))) - 1) :
              Candidates(s, phrases, SamplesToMs(s.start))[k].text
                = Spoken[Candidates(s, phrases, SamplesToMs(s.start))[k].word]
<1>. DEFINE ws == SamplesToMs(s.start)
            span == s.total - s.start
            length == SamplesToMs(span)
            all == SamplesToMs(s.total)
            C == Candidates(s, phrases, ws)
<1>1. s.total \in Nat /\ s.start \in Nat /\ s.through \in Nat /\ span \in Nat
  BY StateFields
<1>2. ws \in Nat /\ length \in Nat /\ all \in Nat /\ length + ws <= all
  <2>1. SamplesPerMs \in Nat \ {0}
    BY WhisperAssumption DEF WhisperAssumption
  <2>2. span + s.start = s.total
    BY <1>1
  <2>. HIDE DEF span
  <2>3. span \div SamplesPerMs + s.start \div SamplesPerMs <= (span + s.start) \div SamplesPerMs
    BY <1>1, <2>1, DivisionAdds
  <2>4. length + ws <= all
    BY <2>2, <2>3 DEF SamplesToMs
  <2>. QED
    BY <1>1, <2>4, InMs
<1>3. Timed(phrases, length) /\ AtEnd(phrases)
  BY <1>1, HypothesesTimed
<1>. HIDE DEF length
<1>4. /\ C \in Seq(Segment) /\ Ordered(C)
      /\ \A k \in 1..Len(C) :
           C[k].end > s.through /\ C[k].end >= ws /\ C[k].end <= length + ws
      /\ \A k \in 1..(Len(C) - 1) : C[k].text = Spoken[C[k].word]
  <2>. HIDE DEF ws
  <2>1. C \in Seq(Segment) /\ Ordered(C)
        /\ \A k \in 1..Len(C) :
             C[k].end > s.through /\ C[k].end >= ws /\ C[k].end <= length + ws
    BY <1>2, <1>3, CandidatesProperties
  <2>2. AtEnd(phrases) =>
          \A k \in 1..(Len(C) - 1) : C[k].text = Spoken[C[k].word]
    BY <1>2, <1>3, CandidatesProperties
  <2>. QED
    BY <1>3, <2>1, <2>2, Zenon
<1>. HIDE DEF C, ws, all
<1>5. ASSUME NEW k \in 1..Len(C)
      PROVE  C[k].end >= s.through /\ C[k].end >= ws /\ C[k].end <= all
  <2>1. C[k] \in Segment
    BY <1>4
  <2>2. C[k].end \in Nat
    BY <2>1 DEF Segment
  <2>. QED
    BY <1>1, <1>2, <1>4, <2>2
<1>6. /\ C \in Seq(Segment) /\ Ordered(C)
      /\ \A k \in 1..Len(C) : C[k].end >= s.through /\ C[k].end >= ws /\ C[k].end <= all
      /\ \A k \in 1..(Len(C) - 1) : C[k].text = Spoken[C[k].word]
  BY <1>4, <1>5
<1>. QED
  BY <1>6 DEF C, ws, all

(* A hypothesis that is not final.                                           *)
LEMMA AppliedProperties ==
  ASSUME NEW s \in States, s.start <= s.total, Timely(s, s.total),
         NEW phrases \in Hypotheses(s.start, s.total)
  PROVE  \E t \in States :
           /\ t = Applied(s, phrases, SamplesToMs(s.start))
           /\ Same(s, t)
           /\ t.start <= t.total /\ t.total - t.start <= MsToSamples(MaxWindowMs)
           /\ Len(t.hypotheses) <= AgreementUpdates
           /\ Extends(s.committed, t.committed)
           /\ Timely(t, s.total) /\ Hearable(t)
<1>. DEFINE ws == SamplesToMs(s.start)
            C == Candidates(s, phrases, ws)
            all == SamplesToMs(s.total)
<1>1. /\ C \in Seq(Segment) /\ Ordered(C)
      /\ \A k \in 1..Len(C) : C[k].end >= s.through /\ C[k].end >= ws /\ C[k].end <= all
      /\ \A k \in 1..(Len(C) - 1) : C[k].text = Spoken[C[k].word]
  BY WindowWords
<1>2. all \in Nat /\ s.total \in Nat
  BY StateFields, InMs
<1>. HIDE DEF C, all
<1>3. PICK r \in States :
           /\ r = Agree(s, C)
           /\ Same(s, r) /\ r.start = s.start
           /\ Len(r.hypotheses) <= AgreementUpdates
           /\ Extends(s.committed, r.committed)
           /\ \A e \in Nat : s.through <= e /\ (\A n \in 1..Len(C) : C[n].end <= e)
                => r.through <= e /\ \A n \in 1..Len(r.unstable) : r.unstable[n].end <= e
           /\ /\ Ordered(C)
              /\ \A n \in 1..Len(C) : C[n].end >= s.through /\ C[n].end >= ws
              => Hearable(r)
  BY <1>1, AgreeProperties
<1>4. Hearable(r)
  BY <1>1, <1>3
<1>5. Timely(r, s.total)
  <2>1. s.through <= all
    BY DEF Timely, all
  <2>2. r.through <= all /\ \A n \in 1..Len(r.unstable) : r.unstable[n].end <= all
    BY <1>1, <1>2, <1>3, <2>1
  <2>. QED
    BY <2>2 DEF Timely, all
<1>6. r.start <= r.total /\ r.total = s.total
  BY <1>3 DEF Same
<1>7. PICK t \in States : t = TrimAudio(ForceCommitForBound(r), FALSE) /\ Advances(r, t)
  BY <1>6, ForceTrim
<1>8. t = Applied(s, phrases, ws)
  BY <1>3, <1>7 DEF Applied, C
<1>9. Same(s, t)
  BY <1>3, <1>7 DEF Same, Advances
<1>10. Extends(s.committed, t.committed)
  BY <1>3, <1>7, StateFields, ExtendsTransitive DEF Advances
<1>11. Len(t.hypotheses) <= AgreementUpdates
  <2>1. t.hypotheses \in Seq(Seq(Segment)) /\ r.hypotheses \in Seq(Seq(Segment))
    BY StateFields
  <2>2. Len(t.hypotheses) \in Nat /\ Len(r.hypotheses) \in Nat /\ AgreementUpdates \in Nat
    BY <2>1, Constants
  <2>3. Len(t.hypotheses) <= Len(r.hypotheses) /\ Len(r.hypotheses) <= AgreementUpdates
    BY <1>3, <1>7 DEF Advances
  <2>. DEFINE a == Len(t.hypotheses)
              b == Len(r.hypotheses)
  <2>4. a \in Nat /\ b \in Nat /\ a <= b /\ b <= AgreementUpdates /\ AgreementUpdates \in Nat
    BY <2>2, <2>3
  <2>. HIDE DEF a, b
  <2>5. a <= AgreementUpdates
    BY <2>4
  <2>. QED
    BY <2>5 DEF a
<1>12. /\ t.start <= t.total /\ t.total - t.start <= MsToSamples(MaxWindowMs)
       /\ Timely(t, s.total) /\ Hearable(t)
  BY <1>2, <1>4, <1>5, <1>7, Zenon DEF Advances
<1>. QED
  BY <1>8, <1>9, <1>10, <1>11, <1>12

(* The final hypothesis.                                                     *)
LEMMA FinalizedProperties ==
  ASSUME NEW s \in States, s.start <= s.total, Timely(s, s.total),
         NEW phrases \in Hypotheses(s.start, s.total)
  PROVE  \E t \in States :
           /\ t = Finalized(s, phrases, SamplesToMs(s.start))
           /\ t.total = s.total /\ t.new = s.new /\ t.revision = s.revision
           /\ t.last = s.last /\ t.finalized = TRUE /\ t.start = s.start
           /\ t.hypotheses = <<>> /\ t.unstable = <<>>
           /\ Extends(s.committed, t.committed)
           /\ Gains(s.committed, t.committed, Candidates(s, phrases, SamplesToMs(s.start)),
                    Len(Candidates(s, phrases, SamplesToMs(s.start))))
           /\ t.through <= SamplesToMs(s.total)
           /\ RaisesTo(s, t, Candidates(s, phrases, SamplesToMs(s.start)),
                       Len(Candidates(s, phrases, SamplesToMs(s.start))))
<1>. DEFINE ws == SamplesToMs(s.start)
            C == Candidates(s, phrases, ws)
            all == SamplesToMs(s.total)
<1>1. /\ C \in Seq(Segment)
      /\ \A k \in 1..Len(C) : C[k].end <= all
  BY WindowWords
<1>2. s.through <= all
  BY DEF Timely
<1>. HIDE DEF C, all
<1>3. PICK c \in Seq(Commit), g \in Nat :
        /\ CommitSegments(s, C, "final") = [s EXCEPT !.committed = c, !.through = g]
        /\ Extends(s.committed, c) /\ Gains(s.committed, c, C, Len(C))
        /\ s.through <= g
        /\ g = s.through \/ \E n \in 1..Len(C) : g = C[n].end
        /\ \A n \in 1..Len(C) : C[n].end <= g
  BY <1>1, CommitProperties DEF Commits
<1>4. g <= all
  BY <1>1, <1>2, <1>3
<1>. DEFINE t == [CommitSegments(s, C, "final")
                    EXCEPT !.unstable = <<>>, !.hypotheses = <<>>, !.finalized = TRUE]
<1>5. t = Finalized(s, phrases, ws)
  BY Zenon DEF Finalized, C
<1>6. /\ t \in States /\ t.total = s.total /\ t.new = s.new /\ t.revision = s.revision
      /\ t.last = s.last /\ t.finalized = TRUE /\ t.start = s.start
      /\ t.hypotheses = <<>> /\ t.unstable = <<>> /\ t.committed = c /\ t.through = g
  <2>. DEFINE none == <<>>
              r == [s EXCEPT !.committed = c, !.through = g]
  <2>1. none \in Seq(Segment) /\ none \in Seq(Seq(Segment)) /\ none = <<>>
    OBVIOUS
  <2>. HIDE DEF none
  <2>2. r \in States
    BY <1>3 DEF States
  <2>3. /\ r.total = s.total /\ r.new = s.new /\ r.revision = s.revision
        /\ r.last = s.last /\ r.start = s.start /\ r.committed = c /\ r.through = g
    BY DEF States
  <2>4. t = [r EXCEPT !.unstable = none, !.hypotheses = none, !.finalized = TRUE]
    BY <1>3, <2>1, Zenon
  <2>. HIDE DEF t, r
  <2>5. /\ t \in States /\ t.total = r.total /\ t.new = r.new /\ t.revision = r.revision
        /\ t.last = r.last /\ t.finalized = TRUE /\ t.start = r.start
        /\ t.hypotheses = none /\ t.unstable = none
        /\ t.committed = r.committed /\ t.through = r.through
    BY <2>1, <2>2, <2>4 DEF States
  <2>. QED
    BY <2>1, <2>3, <2>5
<1>. HIDE DEF t
<1>7. RaisesTo(s, t, C, Len(C))
  BY <1>3, <1>6 DEF RaisesTo
<1>. QED
  BY <1>3, <1>4, <1>5, <1>6, <1>7 DEF all, C

(* The text of words is a text.                                              *)
LEMMA TextProperties ==
  ASSUME NEW s \in States
  PROVE  /\ Texts(s.committed) \in Seq(Text) /\ FullText(s) \in Seq(Text)
         /\ FullText(s) \in Seq(Int)
         /\ IsPrefix(Texts(s.committed), FullText(s))
         /\ s.unstable = <<>> => FullText(s) = Texts(s.committed)
<1>. DEFINE A == Texts(s.committed)
            B == Texts(s.unstable)
<1>1. /\ s.committed \in Seq(Commit) /\ s.unstable \in Seq(Segment)
      /\ Len(s.committed) \in Nat /\ Len(s.unstable) \in Nat
      /\ \A n \in 1..Len(s.committed) : s.committed[n] \in Commit
      /\ \A n \in 1..Len(s.unstable) : s.unstable[n] \in Segment
  <2>1. s.committed \in Seq(Commit) /\ s.unstable \in Seq(Segment)
    BY StateFields
  <2>. QED
    BY <2>1
<1>2. A \in Seq(Text) /\ Len(A) = Len(s.committed)
  <2>1. \A n \in 1..Len(s.committed) : s.committed[n].text \in Text
    BY <1>1 DEF Commit
  <2>. QED
    BY <1>1, <2>1 DEF Texts
<1>3. B \in Seq(Text) /\ Len(B) = Len(s.unstable)
  <2>1. \A n \in 1..Len(s.unstable) : s.unstable[n].text \in Text
    BY <1>1 DEF Segment
  <2>. QED
    BY <1>1, <2>1 DEF Texts
<1>4. s.unstable = <<>> => B = <<>>
  BY DEF Texts
<1>. HIDE DEF A, B
<1>5. A \o B \in Seq(Text) /\ IsPrefix(A, A \o B) /\ (B = <<>> => A \o B = A)
  <2>1. A \o B \in Seq(Text)
    BY <1>2, <1>3
  <2>2. B = <<>> => A \o B = A
    BY <1>2
  <2>3. Len(A) <= Len(A \o B) /\ SubSeq(A, 1, Len(A)) = SubSeq(A \o B, 1, Len(A))
    BY <1>2, <1>3
  <2>. QED
    BY <2>1, <2>2, <2>3 DEF IsPrefix
<1>6. A \o B \in Seq(Int)
  BY <1>2, <1>3 DEF Text
<1>. QED
  BY <1>2, <1>4, <1>5, <1>6 DEF FullText, A, B

(* The texts of committed words.                                             *)
LEMMA CommittedTexts ==
  ASSUME NEW c \in Seq(Commit)
  PROVE  /\ Texts(c) \in Seq(Text) /\ Len(Texts(c)) = Len(c)
         /\ \A i \in 1..Len(c) : Texts(c)[i] = c[i].text
<1>1. Len(c) \in Nat /\ \A n \in 1..Len(c) : c[n] \in Commit
  OBVIOUS
<1>2. \A n \in 1..Len(c) : c[n].text \in Text
  BY <1>1 DEF Commit
<1>. QED
  BY <1>1, <1>2 DEF Texts

(* What was stable stays a prefix when more is committed.                    *)
LEMMA StablePrefix ==
  ASSUME NEW c \in Seq(Commit), NEW d \in Seq(Commit), Extends(c, d),
         NEW stable \in Seq(Text), IsPrefix(stable, Texts(c))
  PROVE  IsPrefix(stable, Texts(d))
<1>. DEFINE A == Texts(c)
            B == Texts(d)
<1>1. /\ A \in Seq(Text) /\ B \in Seq(Text) /\ Len(A) = Len(c) /\ Len(B) = Len(d)
      /\ \A i \in 1..Len(c) : A[i] = c[i].text
      /\ \A i \in 1..Len(d) : B[i] = d[i].text
  BY CommittedTexts
<1>. HIDE DEF A, B
<1>2. Len(A) \in Nat /\ Len(B) \in Nat /\ Len(stable) \in Nat
  BY <1>1
<1>3. Len(A) <= Len(B) /\ \A i \in 1..Len(A) : A[i] = B[i]
  BY <1>1, <1>2 DEF Extends
<1>4. Len(stable) <= Len(A) /\ \A i \in 1..Len(stable) : stable[i] = A[i]
  <2>1. SubSeq(stable, 1, Len(stable)) = SubSeq(A, 1, Len(stable)) /\ Len(stable) <= Len(A)
    BY DEF IsPrefix, A
  <2>2. \A i \in 1..Len(stable) : /\ SubSeq(stable, 1, Len(stable))[i] = stable[i]
                                  /\ SubSeq(A, 1, Len(stable))[i] = A[i]
    BY <1>1, <1>2, <2>1
  <2>. QED
    BY <2>1, <2>2
<1>5. Len(stable) <= Len(B) /\ SubSeq(stable, 1, Len(stable)) = SubSeq(B, 1, Len(stable))
  BY <1>1, <1>2, <1>3, <1>4
<1>6. IsPrefix(stable, B)
  BY <1>5 DEF IsPrefix
<1>. QED
  BY <1>6 DEF B

-----------------------------------------------------------------------------
(* The words of a hypothesis, their times and their places *)

(* The end of a word in milliseconds.                                        *)
Ms(i) == i * WordMs

(* Words take equal times and at most the overlap.                           *)
LEMMA MsFacts ==
  /\ WordMs \in Nat /\ 2 <= WordMs /\ WordMs <= OverlapMs /\ OverlapMs \in Nat
  /\ Ms(0) = 0
  /\ \A i \in Nat : Ms(i) \in Nat /\ Ms(i + 1) = Ms(i) + WordMs
  /\ \A i, j \in Nat : i < j => Ms(i) + WordMs <= Ms(j)
<1>1. WordMs \in Nat /\ 2 <= WordMs /\ WordMs <= OverlapMs /\ OverlapMs \in Nat
  BY WhisperAssumption DEF WhisperAssumption, Validate
<1>2. Ms(0) = 0
  BY <1>1 DEF Ms
<1>3. ASSUME NEW i \in Nat PROVE Ms(i) \in Nat /\ Ms(i + 1) = Ms(i) + WordMs
  BY <1>1 DEF Ms
<1>4. ASSUME NEW i \in Nat, NEW j \in Nat, i < j PROVE Ms(i) + WordMs <= Ms(j)
  <2>1. (i + 1) * WordMs <= j * WordMs
    BY <1>1, <1>4
  <2>2. (i + 1) * WordMs = i * WordMs + WordMs
    BY <1>1
  <2>. QED
    BY <1>1, <2>1, <2>2 DEF Ms
<1>. QED
  BY <1>1, <1>2, <1>3, <1>4

(* Samples are compared in milliseconds.                                     *)
LEMMA Compares ==
  ASSUME NEW a \in Nat, NEW x \in Nat
  PROVE  /\ MsToSamples(x) <= a <=> x <= SamplesToMs(a)
         /\ a < MsToSamples(x) <=> SamplesToMs(a) < x
<1>. DEFINE q == SamplesToMs(a)
            b == MsToSamples(x)
<1>1. q \in Nat /\ b \in Nat
  BY InMs, InSamples
<1>2. b <= a => x <= q
  <2>1. b <= a => SamplesToMs(b) <= q
    BY <1>1, UnitsMonotone
  <2>2. SamplesToMs(b) = x
    BY ThereAndBack
  <2>. HIDE DEF b
  <2>. QED
    BY <2>1, <2>2
<1>3. x <= q => b <= a
  <2>1. x <= q => b <= MsToSamples(q)
    BY <1>1, UnitsMonotone
  <2>2. MsToSamples(q) <= a /\ MsToSamples(q) \in Nat
    BY <1>1, RoundsDown, InSamples
  <2>. HIDE DEF b, q
  <2>. QED
    BY <1>1, <2>1, <2>2
<1>. HIDE DEF b, q
<1>4. (b <= a <=> x <= q) /\ (a < b <=> q < x)
  BY <1>1, <1>2, <1>3
<1>. QED
  BY <1>4 DEF b, q

(* What rounding takes from a time that is measured from a.                  *)
Off(a) == IF MsToSamples(SamplesToMs(a)) = a THEN 0 ELSE 1

(* A time in the window, moved back to the start of the stream, is off by at *)
(* most one millisecond.                                                     *)
LEMMA BackFrom ==
  ASSUME NEW a \in Nat, NEW x \in Nat, a <= MsToSamples(x)
  PROVE  SamplesToMs(MsToSamples(x) - a) = x - SamplesToMs(a) - Off(a)
<1>. DEFINE q == SamplesToMs(a)
            y == x - q - Off(a)
            g == MsToSamples(x) - a
<1>1. SamplesPerMs \in Nat \ {0}
  BY WhisperAssumption DEF WhisperAssumption
<1>2. q \in Nat /\ q * SamplesPerMs <= a /\ a < q * SamplesPerMs + SamplesPerMs
  <2>. DEFINE r == a \div SamplesPerMs
  <2>1. r \in Nat /\ SamplesPerMs * r <= a /\ a < SamplesPerMs * r + SamplesPerMs
    BY <1>1, Division
  <2>. HIDE DEF r
  <2>2. r \in Nat /\ r * SamplesPerMs <= a /\ a < r * SamplesPerMs + SamplesPerMs
    BY <1>1, <2>1
  <2>. QED
    BY <2>2 DEF r, SamplesToMs
<1>3. q * SamplesPerMs \in Nat /\ x * SamplesPerMs \in Nat /\ g = x * SamplesPerMs - a /\ g \in Nat
  BY <1>1, <1>2 DEF MsToSamples
<1>4. CASE q * SamplesPerMs = a
  <2>1. y = x - q
    BY <1>2, <1>4 DEF Off, MsToSamples
  <2>2. x >= q
    <3>1. x < q => (x + 1) * SamplesPerMs <= q * SamplesPerMs
      BY <1>1, <1>2
    <3>2. (x + 1) * SamplesPerMs = x * SamplesPerMs + SamplesPerMs
      BY <1>1
    <3>. HIDE DEF q
    <3>. QED
      BY <1>1, <1>2, <1>3, <1>4, <3>1, <3>2
  <2>3. x - q \in Nat /\ MsToSamples(x - q) = g
    <3>. HIDE DEF q
    <3>1. (x - q) * SamplesPerMs = x * SamplesPerMs - q * SamplesPerMs
      BY <1>1, <1>2
    <3>. QED
      BY <1>2, <1>3, <1>4, <2>2, <3>1 DEF MsToSamples
  <2>4. SamplesToMs(MsToSamples(x - q)) = x - q
    BY <2>3, ThereAndBack
  <2>. QED
    BY <2>1, <2>3, <2>4, Zenon
<1>5. CASE q * SamplesPerMs # a
  <2>1. y = x - q - 1
    BY <1>2, <1>5 DEF Off, MsToSamples
  <2>. HIDE DEF q, y, g
  <2>2. x >= q + 1
    <3>1. x <= q => x * SamplesPerMs <= q * SamplesPerMs
      BY <1>1, <1>2
    <3>. QED
      BY <1>1, <1>2, <1>3, <1>5, <3>1
  <2>3. y \in Nat /\ y * SamplesPerMs <= g /\ g < y * SamplesPerMs + SamplesPerMs
    <3>1. y * SamplesPerMs = x * SamplesPerMs - q * SamplesPerMs - SamplesPerMs
      BY <1>1, <1>2, <2>1
    <3>. QED
      BY <1>1, <1>2, <1>3, <1>5, <2>1, <2>2, <3>1
  <2>4. MsToSamples(y) <= g /\ g < MsToSamples(y + 1) /\ y + 1 \in Nat
    <3>1. (y + 1) * SamplesPerMs = y * SamplesPerMs + SamplesPerMs
      BY <1>1, <2>3
    <3>. QED
      BY <2>3, <3>1 DEF MsToSamples
  <2>5. y <= SamplesToMs(g) /\ SamplesToMs(g) < y + 1 /\ SamplesToMs(g) \in Nat
    BY <1>3, <2>3, <2>4, Compares, InMs
  <2>6. SamplesToMs(g) = y
    BY <2>3, <2>5
  <2>. QED
    BY <2>6 DEF y, g, q
<1>. QED
  BY <1>4, <1>5

(* Equal shares of a phrase fall on the ends of its words, but for what was  *)
(* lost in rounding.                                                         *)
LEMMA ShareExact ==
  ASSUME NEW k \in Nat \ {0}, NEW n \in 1..k, NEW e \in {0, 1}, k * WordMs - e \in Nat
  PROVE  ((k * WordMs - e) * n) \div k = n * WordMs - e
<1>. DEFINE d == k * WordMs - e
            x == d * n
            q == x \div k
            y == n * WordMs - e
<1>1. WordMs \in Nat /\ WordMs >= 2 /\ n \in Nat /\ n >= 1 /\ n <= k /\ d \in Nat
  BY MsFacts
<1>2. x \in Nat /\ x = k * (n * WordMs) - e * n
  BY <1>1
<1>3. q \in Nat /\ k * q <= x /\ x < k * q + k
  BY <1>2, Division
<1>4. n * WordMs \in Nat /\ n * WordMs >= 1 /\ y \in Nat
  BY <1>1
<1>5. k * y = k * (n * WordMs) - k * e /\ k * y \in Nat
  <2>. DEFINE z == n * WordMs
  <2>1. z \in Nat
    BY <1>4
  <2>. HIDE DEF z
  <2>2. k * (z - e) = k * z - k * e
    BY <2>1
  <2>. QED
    BY <1>4, <2>2 DEF z
<1>6. k * y <= x /\ x < k * y + k
  <2>1. (e = 0 /\ e * n = 0 /\ k * e = 0) \/ (e = 1 /\ e * n = n /\ k * e = k)
    BY <1>1
  <2>2. k * (n * WordMs) \in Nat
    BY <1>4
  <2>. HIDE DEF x, y
  <2>. QED
    BY <1>1, <1>2, <1>5, <2>1, <2>2
<1>. HIDE DEF q, x, y
<1>7. q < y => FALSE
  <2>1. q < y => k * (q + 1) <= k * y
    BY <1>3, <1>4
  <2>2. k * (q + 1) = k * q + k
    BY <1>3
  <2>. QED
    BY <1>2, <1>3, <1>5, <1>6, <2>1, <2>2
<1>8. y < q => FALSE
  <2>1. y < q => k * (y + 1) <= k * q
    BY <1>3, <1>4
  <2>2. k * (y + 1) = k * y + k
    BY <1>4
  <2>. QED
    BY <1>2, <1>3, <1>5, <1>6, <2>1, <2>2
<1>9. q = y
  BY <1>3, <1>4, <1>7, <1>8
<1>. QED
  BY <1>9 DEF q, x, y, d

(* What the decoder returns is made of at most three phrases.                *)
LEMMA HypothesisParts ==
  ASSUME NEW from, NEW to, NEW phrases \in Hypotheses(from, to)
  PROVE  \E front \in {{}, CutFront(from, to)},
            x \in {{}, {i \in Whole(from, to) : i = Max(Whole(from, to))}},
            tail \in {{}, CutTail(from, to)} :
           /\ phrases = Phrase(front, {}, from, to) \o Phrase(Whole(from, to), x, from, to)
                          \o Phrase(tail, CutTail(from, to), from, to)
           /\ x = {} \/ tail = {}
<1>. DEFINE whole == Whole(from, to)
            cut == CutTail(from, to)
            last == {i \in whole : i = Max(whole)}
            pairs == {<<{}, {}>>, <<last, {}>>, <<{}, cut>>}
            Parts(front, ends) == Phrase(front, {}, from, to) \o Phrase(whole, ends[1], from, to)
                                    \o Phrase(ends[2], cut, from, to)
<1>1. phrases \in UNION {{Parts(front, ends) : ends \in pairs} : front \in {{}, CutFront(from, to)}}
  BY Zenon DEF Hypotheses
<1>. HIDE DEF Parts, last, whole, cut
<1>2. \A ends \in pairs : ends[1] \in {{}, last} /\ ends[2] \in {{}, cut}
                           /\ (ends[1] = {} \/ ends[2] = {})
  OBVIOUS
<1>. HIDE DEF pairs
<1>3. PICK front \in {{}, CutFront(from, to)} : phrases \in {Parts(front, ends) : ends \in pairs}
  BY <1>1
<1>4. PICK ends \in pairs : phrases = Parts(front, ends)
  BY <1>3
<1>5. phrases = Phrase(front, {}, from, to) \o Phrase(whole, ends[1], from, to)
                  \o Phrase(ends[2], cut, from, to)
  BY <1>4, Zenon DEF Parts
<1>. QED
  BY <1>2, <1>5 DEF last, whole, cut

(* Where words begin and end, in milliseconds.                               *)
LEMMA WordMsTimes ==
  ASSUME NEW i \in 1..Len(Spoken)
  PROVE  /\ i \in Nat /\ i - 1 \in Nat
         /\ Ms(i - 1) \in Nat /\ Ms(i) \in Nat /\ Ms(i) = Ms(i - 1) + WordMs
         /\ WordStart(i) = MsToSamples(Ms(i - 1)) /\ WordEnd(i) = MsToSamples(Ms(i))
<1>1. i \in Nat /\ i - 1 \in Nat /\ (i - 1) + 1 = i
  BY WhisperAssumption DEF WhisperAssumption
<1>2. Ms(i - 1) \in Nat /\ Ms((i - 1) + 1) = Ms(i - 1) + WordMs
  BY <1>1, MsFacts
<1>3. Ms(i) \in Nat
  BY <1>1, MsFacts
<1>. QED
  BY <1>1, <1>2, <1>3 DEF WordStart, WordEnd, Ms

(* A phrase of some words of the utterance.                                  *)
FirstWord(ph) == ph.words[2].word
LastWord(ph) == ph.words[Len(ph.words)].word
Stretch(ph, from, to) ==
  /\ FirstWord(ph) \in 1..Len(Spoken) /\ LastWord(ph) \in 1..Len(Spoken) /\ FirstWord(ph) <= LastWord(ph)
  /\ Len(ph.words) = LastWord(ph) - FirstWord(ph) + 2 /\ ph.words[1] = Marker
  /\ \A n \in 2..Len(ph.words) :
       /\ ph.words[n].word = FirstWord(ph) + n - 2
       /\ ph.words[n].text \in {Spoken[FirstWord(ph) + n - 2], -(FirstWord(ph) + n - 2)}
  /\ ph.start = SamplesToMs(AtLeast(WordStart(FirstWord(ph)), from) - from)
  /\ ph.end = SamplesToMs(AtMost(WordEnd(LastWord(ph)), to) - from)
  /\ WordEnd(FirstWord(ph)) > from /\ WordStart(LastWord(ph)) < to
  /\ \/ /\ WordEnd(LastWord(ph)) <= to
        /\ FirstWord(ph) = LastWord(ph) \/ WordStart(FirstWord(ph)) + SamplesPerMs > from
     \/ /\ FirstWord(ph) = LastWord(ph) /\ ph.words[2].text < 0
        /\ WordStart(FirstWord(ph)) >= from /\ WordEnd(FirstWord(ph)) > to

(* A phrase is a stretch of the utterance.                                   *)
LEMMA PhraseStretch ==
  ASSUME NEW I \in SUBSET (1..Len(Spoken)), I # {}, NEW misheard,
         NEW from \in Nat, NEW to \in Nat,
         \A i \in I : WordEnd(i) > from /\ WordStart(i) < to,
         \/ /\ \A i \in I : WordEnd(i) <= to
            /\ \/ \E i \in I : I = {i}
               \/ \A i \in I : WordStart(i) + SamplesPerMs > from
         \/ /\ \E i \in I : I = {i}
            /\ I \subseteq misheard
            /\ \A i \in I : WordStart(i) >= from /\ WordEnd(i) > to
  PROVE  \E ph : /\ Phrase(I, misheard, from, to) = <<ph>>
                 /\ Stretch(ph, from, to)
                 /\ FirstWord(ph) \in I /\ LastWord(ph) \in I
                 /\ \A i \in I : FirstWord(ph) <= i /\ i <= LastWord(ph)
<1>. DEFINE a == Min(I)
            b == Max(I)
            Spell(n) == LET i == a + n - 1
                        IN  [text |-> IF i \in misheard THEN -i ELSE Spoken[i], word |-> i]
            count == b - a + 1
            rest == [n \in 1..count |-> Spell(n)]
            words == <<Marker>> \o rest
            ph == [words |-> words,
                   start |-> SamplesToMs(AtLeast(WordStart(a), from) - from),
                   end |-> SamplesToMs(AtMost(WordEnd(b), to) - from)]
<1>1. Phrase(I, misheard, from, to) = <<ph>>
  BY Zenon DEF Phrase
<1>2. /\ a \in I /\ b \in I /\ a \in Nat /\ b \in Nat /\ \A x \in I : a <= x /\ x <= b
      /\ a \in 1..Len(Spoken) /\ b \in 1..Len(Spoken) /\ a <= b
  <2>1. Len(Spoken) \in Nat /\ I \in SUBSET Nat /\ \A x \in I : x <= Len(Spoken)
    BY WhisperAssumption DEF WhisperAssumption
  <2>2. /\ b \in I /\ \A x \in I : x <= b
        /\ a \in I /\ \A x \in I : a <= x
    BY <2>1, Extremes
  <2>. HIDE DEF a, b
  <2>. QED
    BY <2>1, <2>2
<1>. HIDE DEF a, b
<1>3. /\ count \in Nat /\ Len(words) = count + 1
      /\ words[1] = Marker
      /\ \A n \in 1..count : words[n + 1] = Spell(n)
  <2>0. count \in Nat
    BY <1>2
  <2>1. Len(rest) = count /\ \A n \in 1..count : rest[n] = Spell(n)
    <3>. HIDE DEF count, Spell
    <3>. QED
      BY <2>0
  <2>2. rest \in Seq({Spell(n) : n \in 1..count})
    <3>. DEFINE R == {Spell(n) : n \in 1..count}
    <3>. HIDE DEF count, Spell
    <3>1. \A n \in 1..count : Spell(n) \in R
      OBVIOUS
    <3>. HIDE DEF R
    <3>2. rest \in Seq(R)
      BY <2>0, <3>1
    <3>. QED
      BY <3>2 DEF R
  <2>. HIDE DEF rest, count, Spell
  <2>. QED
    BY <2>0, <2>1, <2>2
<1>4. /\ ph.words = words
      /\ ph.start = SamplesToMs(AtLeast(WordStart(a), from) - from)
      /\ ph.end = SamplesToMs(AtMost(WordEnd(b), to) - from)
  OBVIOUS
<1>. HIDE DEF ph, words
<1>5. ASSUME NEW n \in 2..Len(words)
      PROVE  /\ words[n].word = a + n - 2
             /\ words[n].text = IF a + n - 2 \in misheard THEN -(a + n - 2) ELSE Spoken[a + n - 2]
  <2>1. n - 1 \in 1..count /\ (n - 1) + 1 = n /\ a + (n - 1) - 1 = a + n - 2
    BY <1>2, <1>3
  <2>2. words[n] = Spell(n - 1)
    <3>. HIDE DEF Spell, count
    <3>. QED
      BY <1>3, <2>1
  <2>3. Spell(n - 1) = [text |-> IF a + (n - 1) - 1 \in misheard THEN -(a + (n - 1) - 1)
                                  ELSE Spoken[a + (n - 1) - 1],
                         word |-> a + (n - 1) - 1]
    OBVIOUS
  <2>4. /\ words[n].word = a + (n - 1) - 1
        /\ words[n].text = IF a + (n - 1) - 1 \in misheard THEN -(a + (n - 1) - 1)
                           ELSE Spoken[a + (n - 1) - 1]
    BY <2>2, <2>3
  <2>. QED
    BY <2>1, <2>4, Zenon
<1>6. Len(words) \in Nat /\ 2 <= Len(words) /\ Len(words) = b - a + 2
  BY <1>2, <1>3
<1>7. FirstWord(ph) = a /\ LastWord(ph) = b
  <2>1. 2 \in 2..Len(words) /\ Len(words) \in 2..Len(words)
    BY <1>6
  <2>2. words[2].word = a + 2 - 2 /\ words[Len(words)].word = a + Len(words) - 2
    BY <1>5, <2>1
  <2>3. words[2].word = a /\ words[Len(words)].word = b
    BY <1>2, <1>6, <2>2
  <2>. QED
    BY <1>4, <2>3 DEF FirstWord, LastWord
<1>8. CASE /\ \A i \in I : WordEnd(i) <= to
           /\ \/ \E i \in I : I = {i}
              \/ \A i \in I : WordStart(i) + SamplesPerMs > from
  <2>1. WordEnd(b) <= to /\ (a = b \/ WordStart(a) + SamplesPerMs > from)
    BY <1>2, <1>8
  <2>. QED
    BY <1>1, <1>2, <1>3, <1>4, <1>5, <1>6, <1>7, <2>1, Zenon DEF Stretch
<1>9. CASE /\ \E i \in I : I = {i}
           /\ I \subseteq misheard
           /\ \A i \in I : WordStart(i) >= from /\ WordEnd(i) > to
  <2>1. a = b /\ a \in misheard /\ WordStart(a) >= from /\ WordEnd(a) > to
    BY <1>2, <1>9
  <2>2. words[2].text < 0
    <3>0. 2 \in 2..Len(words)
      BY <1>6
    <3>1. a + 2 - 2 = a /\ -a < 0
      BY <1>2
    <3>2. words[2].text = IF a + 2 - 2 \in misheard THEN -(a + 2 - 2) ELSE Spoken[a + 2 - 2]
      BY <1>5, <3>0
    <3>3. words[2].text = -a
      BY <2>1, <3>1, <3>2
    <3>. QED
      BY <3>1, <3>3
  <2>. QED
    BY <1>1, <1>2, <1>3, <1>4, <1>5, <1>6, <1>7, <2>1, <2>2, Zenon DEF Stretch
<1>. QED
  BY <1>8, <1>9

(* Phrases one after the other in the utterance.                             *)
Spelled(phrases, from, to) ==
  /\ \A p \in 1..Len(phrases) : Stretch(phrases[p], from, to)
  /\ \A p, q \in 1..Len(phrases) : p < q => LastWord(phrases[p]) < FirstWord(phrases[q])

(* Phrases that spell what was said, and later ones that do, do so together. *)
LEMMA SpelledConcat ==
  ASSUME NEW A \in Seq(Uttered), NEW B \in Seq(Uttered), NEW from, NEW to,
         Spelled(A, from, to), Spelled(B, from, to),
         \A p \in 1..Len(A), q \in 1..Len(B) : LastWord(A[p]) < FirstWord(B[q])
  PROVE  Spelled(A \o B, from, to)
<1>. DEFINE C == A \o B
<1>1. /\ Len(A) \in Nat /\ Len(B) \in Nat /\ Len(C) = Len(A) + Len(B)
      /\ \A p \in 1..Len(C) : C[p] = IF p <= Len(A) THEN A[p] ELSE B[p - Len(A)]
  OBVIOUS
<1>. HIDE DEF C
<1>2. ASSUME NEW p \in 1..Len(C)
      PROVE  (p \in 1..Len(A) /\ C[p] = A[p]) \/ (p > Len(A) /\ p - Len(A) \in 1..Len(B) /\ C[p] = B[p - Len(A)])
  BY <1>1
<1>3. \A p \in 1..Len(C) : Stretch(C[p], from, to)
  BY <1>2 DEF Spelled
<1>4. ASSUME NEW p \in 1..Len(C), NEW q \in 1..Len(C), p < q
      PROVE  LastWord(C[p]) < FirstWord(C[q])
  <2>1. CASE p \in 1..Len(A) /\ C[p] = A[p] /\ q \in 1..Len(A) /\ C[q] = A[q]
    BY <1>4, <2>1 DEF Spelled
  <2>2. CASE p \in 1..Len(A) /\ C[p] = A[p] /\ q - Len(A) \in 1..Len(B) /\ C[q] = B[q - Len(A)]
    BY <2>2
  <2>3. CASE /\ p > Len(A) /\ p - Len(A) \in 1..Len(B) /\ C[p] = B[p - Len(A)]
             /\ q > Len(A) /\ q - Len(A) \in 1..Len(B) /\ C[q] = B[q - Len(A)]
    <3>1. p - Len(A) < q - Len(A)
      BY <1>1, <1>4
    <3>. QED
      BY <2>3, <3>1 DEF Spelled
  <2>4. CASE p > Len(A) /\ q \in 1..Len(A)
    BY <1>1, <1>4, <2>4
  <2>. QED
    BY <1>2, <2>1, <2>2, <2>3, <2>4
<1>. QED
  BY <1>3, <1>4 DEF Spelled, C

(* The phrases a part is made of spell it.                                   *)
LEMMA PartSpelled ==
  ASSUME NEW I \in SUBSET (1..Len(Spoken)), NEW misheard,
         NEW from \in Nat, NEW to \in Nat, from <= to,
         \A i \in I : WordEnd(i) > from /\ WordStart(i) < to,
         \/ /\ \A i \in I : WordEnd(i) <= to
            /\ \/ \A i, j \in I : i = j
               \/ \A i \in I : WordStart(i) + SamplesPerMs > from
         \/ /\ \A i, j \in I : i = j
            /\ I \subseteq misheard
            /\ \A i \in I : WordStart(i) >= from /\ WordEnd(i) > to
  PROVE  /\ Phrase(I, misheard, from, to) \in Seq(Uttered)
         /\ Spelled(Phrase(I, misheard, from, to), from, to)
         /\ \A p \in 1..Len(Phrase(I, misheard, from, to)) :
              /\ FirstWord(Phrase(I, misheard, from, to)[p]) \in I
              /\ LastWord(Phrase(I, misheard, from, to)[p]) \in I
         /\ \A i \in I : \E p \in 1..Len(Phrase(I, misheard, from, to)) :
              /\ FirstWord(Phrase(I, misheard, from, to)[p]) <= i
              /\ i <= LastWord(Phrase(I, misheard, from, to)[p])
<1>. DEFINE P == Phrase(I, misheard, from, to)
<1>1. P \in Seq(Uttered)
  <2>1. \A i \in I : WordStart(i) \in Nat /\ WordEnd(i) \in Nat
    BY WordTimes
  <2>2. \A i \in I : WordStart(i) <= to /\ WordEnd(i) >= from
    BY <2>1
  <2>3. Timed(P, SamplesToMs(to - from))
    BY <2>2, PhraseProperties
  <2>. QED
    BY <2>3 DEF Timed
<1>2. CASE I = {}
  <2>1. P = <<>>
    BY <1>2 DEF Phrase
  <2>. HIDE DEF P
  <2>. QED
    BY <1>1, <1>2, <2>1 DEF Spelled, P
<1>3. CASE I # {}
  <2>1. (\A i, j \in I : i = j) => \E i \in I : I = {i}
    BY <1>3
  <2>2. PICK ph : /\ P = <<ph>>
                  /\ Stretch(ph, from, to)
                  /\ FirstWord(ph) \in I /\ LastWord(ph) \in I
                  /\ \A i \in I : FirstWord(ph) <= i /\ i <= LastWord(ph)
    BY <1>3, <2>1, PhraseStretch
  <2>3. Len(P) = 1 /\ P[1] = ph /\ \A p \in 1..Len(P) : p = 1
    BY <2>2
  <2>4. Spelled(P, from, to)
    <3>. HIDE DEF P
    <3>. QED
      BY <2>2, <2>3 DEF Spelled
  <2>. HIDE DEF P
  <2>. QED
    BY <1>1, <2>2, <2>3, <2>4 DEF P
<1>. QED
  BY <1>2, <1>3

(* A word is longer than a millisecond.                                      *)
LEMMA WordLength ==
  ASSUME NEW i \in 1..Len(Spoken)
  PROVE  /\ WordStart(i) \in Nat /\ WordEnd(i) \in Nat /\ SamplesPerMs \in Nat \ {0}
         /\ WordStart(i) + SamplesPerMs <= WordEnd(i) /\ WordStart(i) < WordEnd(i)
<1>1. /\ SamplesPerMs \in Nat \ {0} /\ WordMs \in Nat /\ 2 <= WordMs
      /\ WordStart(i) \in Nat /\ WordEnd(i) \in Nat
  BY WordTimes, MsFacts, WhisperAssumption DEF WhisperAssumption
<1>2. /\ Ms(i - 1) \in Nat /\ Ms(i) = Ms(i - 1) + WordMs
      /\ WordStart(i) = Ms(i - 1) * SamplesPerMs /\ WordEnd(i) = Ms(i) * SamplesPerMs
  BY WordMsTimes DEF MsToSamples
<1>. DEFINE m == Ms(i - 1)
<1>. HIDE DEF m
<1>3. (m + 1) * SamplesPerMs <= (m + WordMs) * SamplesPerMs
      /\ (m + 1) * SamplesPerMs = m * SamplesPerMs + SamplesPerMs
  BY <1>1, <1>2 DEF m
<1>4. WordStart(i) + SamplesPerMs <= WordEnd(i)
  BY <1>2, <1>3 DEF m
<1>. QED
  BY <1>1, <1>4

(* Every hypothesis consists of stretches of the utterance, in order, that   *)
(* cover what was heard whole.                                               *)
LEMMA HypothesisSpelled ==
  ASSUME NEW from \in Nat, NEW to \in Nat, from <= to, NEW phrases \in Hypotheses(from, to)
  PROVE  /\ Spelled(phrases, from, to)
         /\ \A i \in Whole(from, to) : \E p \in 1..Len(phrases) :
              FirstWord(phrases[p]) <= i /\ i <= LastWord(phrases[p])
<1>1. PICK front \in {{}, CutFront(from, to)},
           x \in {{}, {i \in Whole(from, to) : i = Max(Whole(from, to))}},
           tail \in {{}, CutTail(from, to)} :
        /\ phrases = Phrase(front, {}, from, to) \o Phrase(Whole(from, to), x, from, to)
                       \o Phrase(tail, CutTail(from, to), from, to)
        /\ x = {} \/ tail = {}
  BY HypothesisParts, Zenon
<1>. DEFINE whole == Whole(from, to)
            cut == CutTail(from, to)
<1>2. /\ front \subseteq 1..Len(Spoken) /\ whole \subseteq 1..Len(Spoken)
      /\ tail \subseteq 1..Len(Spoken)
  BY DEF Whole, CutFront, CutTail
<1>3. ASSUME NEW i \in 1..Len(Spoken), NEW j \in 1..Len(Spoken), i # j
      PROVE  i < j \/ j < i
  BY <1>3
<1>4. ASSUME NEW i \in 1..Len(Spoken), NEW j \in 1..Len(Spoken), i < j
      PROVE  /\ WordStart(i) < WordEnd(i) /\ WordEnd(i) <= WordStart(j) /\ WordStart(j) < WordEnd(j)
             /\ WordStart(i) + SamplesPerMs <= WordEnd(i) /\ SamplesPerMs \in Nat
             /\ WordStart(i) \in Nat /\ WordEnd(i) \in Nat
             /\ WordStart(j) \in Nat /\ WordEnd(j) \in Nat
  BY <1>4, WordTimes, WordLength
<1>5. \A i \in front : /\ WordStart(i) + SamplesPerMs <= from
                       /\ WordEnd(i) > from /\ WordEnd(i) <= to /\ WordStart(i) < to
  <2>1. ASSUME NEW i \in front
        PROVE  /\ WordStart(i) + SamplesPerMs <= from
               /\ WordEnd(i) > from /\ WordEnd(i) <= to /\ WordStart(i) < to
    <3>1. i \in CutFront(from, to) /\ i \in 1..Len(Spoken)
      BY <1>2, <2>1
    <3>2. WordStart(i) + SamplesPerMs <= from /\ WordEnd(i) \in (from + 1)..to
      BY <3>1 DEF CutFront
    <3>. QED
      BY <3>1, <3>2, WordLength
  <2>. QED
    BY <2>1
<1>6. \A i \in whole : /\ WordStart(i) + SamplesPerMs > from
                       /\ WordEnd(i) > from /\ WordEnd(i) <= to /\ WordStart(i) < to
  <2>1. ASSUME NEW i \in whole
        PROVE  /\ WordStart(i) + SamplesPerMs > from
               /\ WordEnd(i) > from /\ WordEnd(i) <= to /\ WordStart(i) < to
    <3>1. i \in 1..Len(Spoken) /\ WordStart(i) + SamplesPerMs > from /\ WordEnd(i) <= to
      BY <2>1 DEF Whole
    <3>. HIDE DEF whole
    <3>. QED
      BY <3>1, WordLength
  <2>. QED
    BY <2>1
<1>7. \A i \in tail : /\ i \in cut /\ WordStart(i) >= from /\ WordStart(i) < to
                      /\ WordEnd(i) > to /\ WordEnd(i) > from
  <2>1. ASSUME NEW i \in tail
        PROVE  /\ i \in cut /\ WordStart(i) >= from /\ WordStart(i) < to
               /\ WordEnd(i) > to /\ WordEnd(i) > from
    <3>1. i \in cut /\ i \in 1..Len(Spoken)
      BY <1>2, <2>1
    <3>2. WordStart(i) \in from..(to - 1) /\ WordEnd(i) > to
      BY <3>1 DEF CutTail
    <3>. HIDE DEF cut
    <3>. QED
      BY <3>1, <3>2, WordLength
  <2>. QED
    BY <2>1
<1>. HIDE DEF whole, cut
<1>8. \A i, j \in front : i = j
  BY <1>2, <1>3, <1>4, <1>5
<1>9. \A i, j \in tail : i = j
  BY <1>2, <1>3, <1>4, <1>7
<1>10. /\ \A i \in front, j \in whole : i < j
       /\ \A i \in front, j \in tail : i < j
       /\ \A i \in whole, j \in tail : i < j
  <2>1. ASSUME NEW i \in front, NEW j \in whole PROVE i < j
    <3>1. i # j
      BY <1>2, <1>5, <1>6, WordLength
    <3>. QED
      BY <1>2, <1>3, <1>4, <1>5, <1>6, <3>1
  <2>2. ASSUME NEW i \in front, NEW j \in tail PROVE i < j
    <3>1. i # j
      BY <1>2, <1>5, <1>7, WordLength
    <3>. QED
      BY <1>2, <1>3, <1>4, <1>5, <1>7, <3>1
  <2>3. ASSUME NEW i \in whole, NEW j \in tail PROVE i < j
    <3>1. i # j
      BY <1>2, <1>6, <1>7, WordLength
    <3>. QED
      BY <1>2, <1>3, <1>4, <1>6, <1>7, <3>1
  <2>. QED
    BY <2>1, <2>2, <2>3
<1>. DEFINE A == Phrase(front, {}, from, to)
            B == Phrase(whole, x, from, to)
            C == Phrase(tail, cut, from, to)
<1>11. /\ A \in Seq(Uttered) /\ Spelled(A, from, to)
       /\ \A p \in 1..Len(A) : FirstWord(A[p]) \in front /\ LastWord(A[p]) \in front
  BY <1>2, <1>5, <1>8, PartSpelled
<1>12. /\ B \in Seq(Uttered) /\ Spelled(B, from, to)
       /\ \A p \in 1..Len(B) : FirstWord(B[p]) \in whole /\ LastWord(B[p]) \in whole
       /\ \A i \in whole : \E p \in 1..Len(B) : FirstWord(B[p]) <= i /\ i <= LastWord(B[p])
  BY <1>2, <1>6, PartSpelled
<1>13. /\ C \in Seq(Uttered) /\ Spelled(C, from, to)
       /\ \A p \in 1..Len(C) : FirstWord(C[p]) \in tail /\ LastWord(C[p]) \in tail
  <2>1. tail \subseteq cut
    BY <1>7
  <2>. QED
    BY <1>2, <1>7, <1>9, <2>1, PartSpelled
<1>. HIDE DEF A, B, C
<1>14. Spelled(A \o B, from, to)
  BY <1>10, <1>11, <1>12, SpelledConcat
<1>15. /\ A \o B \in Seq(Uttered) /\ Len(A) \in Nat /\ Len(B) \in Nat /\ Len(C) \in Nat
       /\ Len(A \o B) = Len(A) + Len(B)
       /\ \A p \in 1..Len(A \o B) : (A \o B)[p] = IF p <= Len(A) THEN A[p] ELSE B[p - Len(A)]
  BY <1>11, <1>12, <1>13
<1>16. ASSUME NEW p \in 1..Len(A \o B), NEW q \in 1..Len(C)
       PROVE  LastWord((A \o B)[p]) < FirstWord(C[q])
  <2>1. CASE p <= Len(A)
    BY <1>10, <1>11, <1>13, <1>15, <2>1
  <2>2. CASE p > Len(A)
    <3>1. p - Len(A) \in 1..Len(B) /\ (A \o B)[p] = B[p - Len(A)]
      BY <1>15, <2>2
    <3>. QED
      BY <1>10, <1>12, <1>13, <3>1
  <2>. QED
    BY <1>15, <2>1, <2>2
<1>17. Spelled((A \o B) \o C, from, to)
  BY <1>13, <1>14, <1>15, <1>16, SpelledConcat
<1>. DEFINE D == A \o B
<1>18. D \in Seq(Uttered) /\ Len(D) = Len(A) + Len(B)
       /\ \A p \in 1..Len(B) : p + Len(A) \in 1..Len(D) /\ D[p + Len(A)] = B[p]
  <2>1. ASSUME NEW p \in 1..Len(B) PROVE p + Len(A) \in 1..Len(D) /\ D[p + Len(A)] = B[p]
    <3>1. /\ p + Len(A) \in 1..Len(D) /\ ~(p + Len(A) <= Len(A))
          /\ p + Len(A) - Len(A) = p
      BY <1>15
    <3>. QED
      BY <1>15, <3>1
  <2>. QED
    BY <1>15, <2>1
<1>19. phrases = D \o C
  BY <1>1, Zenon DEF A, B, C, whole, cut
<1>. HIDE DEF D
<1>20. \A p \in 1..Len(D) : p \in 1..Len(phrases) /\ phrases[p] = D[p]
  BY <1>13, <1>18, <1>19
<1>21. \A i \in whole : \E p \in 1..Len(phrases) : FirstWord(phrases[p]) <= i /\ i <= LastWord(phrases[p])
  <2>1. ASSUME NEW i \in whole
        PROVE  \E p \in 1..Len(phrases) : FirstWord(phrases[p]) <= i /\ i <= LastWord(phrases[p])
    <3>1. PICK p \in 1..Len(B) : FirstWord(B[p]) <= i /\ i <= LastWord(B[p])
      BY <1>12
    <3>2. p + Len(A) \in 1..Len(phrases) /\ phrases[p + Len(A)] = B[p]
      BY <1>18, <1>20
    <3>. QED
      BY <3>1, <3>2
  <2>. QED
    BY <2>1
<1>22. Spelled(phrases, from, to)
  BY <1>17, <1>19 DEF D
<1>. QED
  BY <1>21, <1>22 DEF whole

(* Times of words add up.                                                    *)
LEMMA MsAdds ==
  ASSUME NEW i \in Nat, NEW j \in Nat
  PROVE  Ms(i + j) = Ms(i) + j * WordMs /\ j * WordMs \in Nat
BY MsFacts DEF Ms

(* The size of an interval.                                                  *)
LEMMA IntervalSize ==
  ASSUME NEW a \in Nat, NEW b \in Nat, a <= b + 1
  PROVE  Cardinality(a..b) = b - a + 1 /\ IsFiniteSet(a..b)
<1>. DEFINE c == Cardinality(a..b)
<1>1. c = (IF a > b THEN 0 ELSE b - a + 1) /\ IsFiniteSet(a..b)
  BY FS_Interval
<1>. HIDE DEF c
<1>2. c = b - a + 1
  BY <1>1
<1>. QED
  BY <1>1, <1>2 DEF c

(* The j-th word of a phrase and its share of the phrase's time.             *)
JthWord(w, phrases, p, ws, j) ==
  LET ph == phrases[p]
      a == FirstWord(ph)
      b == LastWord(ph)
  IN  /\ w.text = ph.words[j + 1].text /\ w.word = a + j - 1
      /\ w.text \in {Spoken[a + j - 1], -(a + j - 1)}
      /\ w.place = <<p, j + 1>>
      /\ w.end = ph.start + ws + ((Monus(ph.end, ph.start) * j) \div (b - a + 1))

(* The words a phrase is split into, by their number.                        *)
LEMMA StretchSplit ==
  ASSUME NEW from \in Nat, NEW to \in Nat, NEW phrases \in Seq(Uttered), NEW p \in 1..Len(phrases),
         Stretch(phrases[p], from, to), NEW ws \in Nat,
         NEW w \in SplitSegmentWords(phrases, p, ws)
  PROVE  \E j \in 1..(LastWord(phrases[p]) - FirstWord(phrases[p]) + 1) : JthWord(w, phrases, p, ws, j)
<1>. DEFINE phrase == phrases[p]
            a == FirstWord(phrase)
            b == LastWord(phrase)
            visible == NormalizeText(phrase.words)
            L == Len(phrase.words)
            N == Cardinality(visible)
            Before(n) == Cardinality({m \in visible : m < n})
            Share(n) == (Monus(phrase.end, phrase.start) * n) \div N
            Word(n) == [text |-> phrase.words[n].text, word |-> phrase.words[n].word,
                        start |-> phrase.start + ws + Share(Before(n)),
                        end |-> phrase.start + ws + Share(Before(n) + 1),
                        place |-> <<p, n>>]
            W == {Word(n) : n \in visible}
<1>1. SplitSegmentWords(phrases, p, ws) = W
  BY Zenon DEF SplitSegmentWords
<1>2. PICK n \in visible : w = Word(n)
  BY <1>1
<1>3. /\ a \in Nat /\ b \in Nat /\ a <= b /\ a >= 1
      /\ L = b - a + 2 /\ L \in Nat /\ phrase.words[1] = Marker
      /\ \A m \in 2..L : /\ phrase.words[m].word = a + m - 2
                         /\ phrase.words[m].text \in {Spoken[a + m - 2], -(a + m - 2)}
  <2>. HIDE DEF phrase
  <2>. QED
    BY DEF Stretch, phrase
<1>. HIDE DEF a, b
<1>4. visible = 2..L
  <2>1. phrase \in Uttered
    OBVIOUS
  <2>. HIDE DEF phrase
  <2>2. DOMAIN phrase.words = 1..L
    BY <1>3, <2>1 DEF Uttered
  <2>3. \A m \in 2..L : phrase.words[m] # Marker
    <3>1. ASSUME NEW m \in 2..L PROVE phrase.words[m].word # 0
      BY <1>3
    <3>2. Marker.word = 0
      BY DEF Marker
    <3>. QED
      BY <3>1, <3>2
  <2>4. \A m \in 1..L : m = 1 \/ m \in 2..L
    BY <1>3
  <2>5. \A m \in 2..L : m \in 1..L /\ m # 1
    BY <1>3
  <2>. HIDE DEF L
  <2>. QED
    BY <1>3, <2>2, <2>3, <2>4, <2>5 DEF NormalizeText
<1>. DEFINE j == n - 1
<1>5. n \in 2..L /\ n \in Nat /\ j \in Nat /\ j \in 1..(b - a + 1) /\ n = j + 1 /\ a + n - 2 = a + j - 1
  <2>1. n \in 2..L
    BY <1>4
  <2>. HIDE DEF L
  <2>. QED
    BY <1>3, <2>1
<1>6. N = b - a + 1
  <2>1. Cardinality(2..L) = L - 2 + 1
    <3>. HIDE DEF L
    <3>. QED
      BY <1>3, IntervalSize
  <2>. HIDE DEF L
  <2>. QED
    BY <1>3, <1>4, <2>1
<1>7. Before(n) + 1 = j
  <2>1. {m \in visible : m < n} = 2..j
    <3>. HIDE DEF visible, L, j
    <3>. QED
      BY <1>3, <1>4, <1>5
  <2>2. Cardinality(2..j) = j - 2 + 1
    <3>. HIDE DEF j
    <3>. QED
      BY <1>5, IntervalSize
  <2>3. Before(n) = j - 2 + 1
    BY <2>1, <2>2, Zenon
  <2>. HIDE DEF Before
  <2>. HIDE DEF j
  <2>. QED
    BY <1>5, <2>3
<1>8. /\ w.text = phrase.words[n].text /\ w.word = phrase.words[n].word
      /\ w.end = phrase.start + ws + Share(Before(n) + 1)
      /\ w.place = <<p, n>>
  <2>. HIDE DEF visible, Share, Before, phrase
  <2>. QED
    BY <1>2
<1>9. w.end = phrase.start + ws + ((Monus(phrase.end, phrase.start) * j) \div (b - a + 1))
  <2>1. Share(j) = (Monus(phrase.end, phrase.start) * j) \div (b - a + 1)
    <3>. HIDE DEF phrase, j, N
    <3>. QED
      BY <1>6
  <2>. HIDE DEF Share, Before, phrase, j
  <2>. QED
    BY <1>7, <1>8, <2>1
<1>10. /\ w.text = phrase.words[j + 1].text /\ w.word = a + j - 1
       /\ w.text \in {Spoken[a + j - 1], -(a + j - 1)}
       /\ w.place = <<p, j + 1>>
  <2>1. phrase.words[n].word = a + n - 2 /\ phrase.words[n].text \in {Spoken[a + n - 2], -(a + n - 2)}
    <3>. HIDE DEF phrase, L
    <3>. QED
      BY <1>3, <1>5
  <2>. HIDE DEF phrase, j
  <2>. QED
    BY <1>5, <1>8, <2>1
<1>11. JthWord(w, phrases, p, ws, j)
  BY <1>9, <1>10, Zenon DEF JthWord, phrase, a, b
<1>. HIDE DEF phrase, j
<1>. QED
  BY <1>5, <1>11 DEF phrase, a, b

(* The loss in rounding is at most one millisecond.                          *)
LEMMA OffBounds ==
  ASSUME NEW a
  PROVE  Off(a) \in {0, 1}
BY DEF Off

(* A word that was heard whole ends where it ended, but for what is lost in  *)
(* rounding; one that the end of the window cuts ends in the window and is   *)
(* not what was said.                                                        *)
LEMMA StretchTimes ==
  ASSUME NEW from \in Nat, NEW to \in Nat, from <= to,
         NEW phrases \in Seq(Uttered), NEW p \in 1..Len(phrases),
         Stretch(phrases[p], from, to), phrases[p].start <= phrases[p].end,
         NEW w \in SplitSegmentWords(phrases, p, SamplesToMs(from))
  PROVE  /\ w.word \in 1..Len(Spoken) /\ w.place = <<p, w.word - FirstWord(phrases[p]) + 2>>
         /\ FirstWord(phrases[p]) <= w.word /\ w.word <= LastWord(phrases[p])
         /\ w.text \in {Spoken[w.word], -w.word}
         /\ WordStart(w.word) < to
         /\ \/ WordEnd(w.word) <= to /\ w.end = Ms(w.word) - Off(from)
            \/ WordEnd(w.word) > to /\ w.text < 0 /\ w.end <= SamplesToMs(to)
<1>. DEFINE ph == phrases[p]
            a == FirstWord(ph)
            b == LastWord(ph)
            ws == SamplesToMs(from)
            k == b - a + 1
            span == Monus(ph.end, ph.start)
<1>1. /\ a \in 1..Len(Spoken) /\ b \in 1..Len(Spoken) /\ a \in Nat /\ b \in Nat /\ a <= b /\ 1 <= a
      /\ ph.start = SamplesToMs(AtLeast(WordStart(a), from) - from)
      /\ ph.end = SamplesToMs(AtMost(WordEnd(b), to) - from)
      /\ WordEnd(a) > from /\ WordStart(b) < to
      /\ \/ /\ WordEnd(b) <= to
            /\ a = b \/ WordStart(a) + SamplesPerMs > from
         \/ /\ a = b /\ ph.words[2].text < 0
            /\ WordStart(a) >= from /\ WordEnd(a) > to
  <2>1. Len(Spoken) \in Nat
    BY WhisperAssumption DEF WhisperAssumption
  <2>. HIDE DEF ph
  <2>. QED
    BY <2>1 DEF Stretch, ph
<1>2. ws \in Nat /\ SamplesPerMs \in Nat \ {0}
  BY InMs, WhisperAssumption DEF WhisperAssumption
<1>3. PICK j \in 1..k :
        /\ w.text = ph.words[j + 1].text /\ w.word = a + j - 1
        /\ w.text \in {Spoken[a + j - 1], -(a + j - 1)}
        /\ w.place = <<p, j + 1>>
        /\ w.end = ph.start + ws + ((span * j) \div k)
  <2>1. PICK j \in 1..k : JthWord(w, phrases, p, ws, j)
    BY <1>2, StretchSplit, Zenon
  <2>. QED
    BY <2>1, Zenon DEF JthWord
<1>. HIDE DEF a, b, ws
<1>4. ph.start <= ph.end
  OBVIOUS
<1>. HIDE DEF ph
<1>. DEFINE i == w.word
<1>5. /\ i \in Nat /\ i \in 1..Len(Spoken) /\ j \in Nat /\ j >= 1 /\ k \in Nat /\ k >= 1 /\ j <= k
      /\ i = a + j - 1 /\ i = (a - 1) + j /\ a <= i /\ i <= b /\ a - 1 \in Nat
      /\ j + 1 = i - a + 2 /\ b = (a - 1) + k
  <2>1. Len(Spoken) \in Nat
    BY WhisperAssumption DEF WhisperAssumption
  <2>. HIDE DEF i
  <2>2. i = a + j - 1
    BY <1>3 DEF i
  <2>. QED
    BY <1>1, <2>1, <2>2
<1>6. w.place = <<p, i - a + 2>> /\ w.text \in {Spoken[i], -i}
  BY <1>3, <1>5
<1>7. /\ Ms(a - 1) \in Nat /\ Ms(i) = Ms(a - 1) + j * WordMs /\ Ms(b) = Ms(a - 1) + k * WordMs
      /\ j * WordMs \in Nat /\ k * WordMs \in Nat /\ Ms(b) \in Nat /\ k * WordMs >= 1
  <2>. HIDE DEF i, k
  <2>1. Ms((a - 1) + j) = Ms(a - 1) + j * WordMs /\ j * WordMs \in Nat
    BY <1>5, MsAdds
  <2>2. Ms((a - 1) + k) = Ms(a - 1) + k * WordMs /\ k * WordMs \in Nat
    BY <1>5, MsAdds
  <2>3. Ms(a - 1) \in Nat /\ Ms(b) \in Nat
    BY <1>1, <1>5, MsFacts
  <2>4. Ms(a - 1) + WordMs <= Ms(b) /\ 2 <= WordMs /\ WordMs \in Nat
    <3>1. a - 1 < b
      BY <1>1
    <3>. QED
      BY <1>1, <1>5, <3>1, MsFacts
  <2>. DEFINE kW == k * WordMs
  <2>5. kW \in Nat /\ Ms(b) = Ms(a - 1) + kW
    BY <1>5, <2>2
  <2>. HIDE DEF kW
  <2>6. kW >= 1
    BY <2>3, <2>4, <2>5
  <2>. QED
    BY <1>5, <2>1, <2>2, <2>3, <2>6 DEF kW
<1>8. /\ WordStart(a) = MsToSamples(Ms(a - 1)) /\ WordEnd(b) = MsToSamples(Ms(b))
      /\ WordStart(i) \in Nat /\ WordStart(i) <= WordStart(b)
      /\ WordEnd(i) \in Nat /\ WordEnd(i) <= WordEnd(b)
      /\ WordStart(b) \in Nat /\ WordEnd(b) \in Nat /\ WordEnd(a) <= WordEnd(b)
      /\ WordStart(a) \in Nat /\ WordEnd(a) \in Nat
  <2>. HIDE DEF i
  <2>. QED
    BY <1>1, <1>5, WordTimes, WordMsTimes
<1>9. WordStart(i) < to
  <2>. HIDE DEF i
  <2>. QED
    BY <1>1, <1>8
<1>10. CASE /\ WordEnd(b) <= to
            /\ a = b \/ WordStart(a) + SamplesPerMs > from
  <2>1. WordEnd(i) <= to
    <3>. HIDE DEF i
    <3>. QED
      BY <1>8, <1>10
  <2>2. ph.end = Ms(b) - ws - Off(from) /\ Off(from) \in {0, 1}
    <3>1. AtMost(WordEnd(b), to) = WordEnd(b)
      BY <1>8, <1>10 DEF AtMost
    <3>2. from <= MsToSamples(Ms(b)) /\ Ms(b) \in Nat
      <4>. HIDE DEF i, k
      <4>. QED
        BY <1>1, <1>7, <1>8
    <3>3. SamplesToMs(MsToSamples(Ms(b)) - from) = Ms(b) - SamplesToMs(from) - Off(from)
      BY <3>2, BackFrom
    <3>. QED
      BY <1>1, <1>8, <3>1, <3>3, OffBounds DEF ws
  <2>3. w.end = Ms(i) - Off(from)
    <3>1. CASE WordStart(a) >= from
      <4>1. ph.start = Ms(a - 1) - ws - Off(from)
        <5>1. AtLeast(WordStart(a), from) = WordStart(a)
          BY <1>8, <3>1 DEF AtLeast
        <5>2. SamplesToMs(MsToSamples(Ms(a - 1)) - from) = Ms(a - 1) - SamplesToMs(from) - Off(from)
          BY <1>7, <1>8, <3>1, BackFrom
        <5>. QED
          BY <1>1, <1>8, <5>1, <5>2 DEF ws
      <4>2. span = k * WordMs - 0
        <5>. DEFINE kW == k * WordMs
        <5>. HIDE DEF kW, k
        <5>1. ph.end - ph.start = kW
          BY <1>2, <1>7, <2>2, <4>1 DEF kW
        <5>2. ph.start \in Int /\ ph.end \in Int /\ kW \in Nat
          BY <1>2, <1>7, <2>2, <4>1 DEF kW
        <5>3. span = kW
          BY <1>4, <5>1, <5>2 DEF Monus
        <5>. QED
          BY <5>2, <5>3 DEF kW
      <4>3. (span * j) \div k = j * WordMs - 0
        <5>1. k \in Nat \ {0} /\ j \in 1..k /\ 0 \in {0, 1} /\ k * WordMs - 0 \in Nat
          <6>. DEFINE kW == k * WordMs
          <6>1. kW \in Nat
            BY <1>7
          <6>. HIDE DEF k, kW
          <6>2. k \in Nat \ {0} /\ j \in 1..k
            BY <1>5
          <6>3. kW - 0 \in Nat
            BY <6>1
          <6>. QED
            BY <6>2, <6>3 DEF kW
        <5>. HIDE DEF k, span
        <5>2. ((k * WordMs - 0) * j) \div k = j * WordMs - 0
          BY <5>1, ShareExact
        <5>. QED
          BY <4>2, <5>2
      <4>. DEFINE jW == j * WordMs
      <4>. HIDE DEF k, span, i, jW
      <4>4. jW \in Nat /\ (span * j) \div k = jW /\ Ms(i) = Ms(a - 1) + jW
        BY <1>7, <4>3 DEF jW
      <4>5. w.end = ph.start + ws + jW
        BY <1>3, <4>4
      <4>6. Ms(a - 1) \in Nat
        BY <1>7
      <4>. QED
        BY <1>2, <2>2, <4>1, <4>4, <4>5, <4>6
    <3>2. CASE WordStart(a) < from
      <4>1. ph.start = 0
        <5>1. AtLeast(WordStart(a), from) - from = 0
          BY <1>8, <3>2 DEF AtLeast
        <5>2. MsToSamples(0) = 0
          BY <1>2 DEF MsToSamples
        <5>. QED
          BY <1>1, <5>1, <5>2, ThereAndBack
      <4>2. span = ph.end
        BY <1>2, <1>4, <1>7, <2>2, <4>1 DEF Monus
      <4>3. CASE a = b
        <5>1. k = 1 /\ j = 1 /\ i = b
          <6>. HIDE DEF i
          <6>. QED
            BY <1>1, <1>5, <4>3
        <5>2. ph.end \in Int
          BY <1>2, <1>7, <2>2
        <5>. DEFINE e == ph.end
        <5>3. e \in Nat
          BY <1>4, <4>1, <5>2
        <5>. HIDE DEF e
        <5>4. (e * 1) \div 1 = e
          BY <5>3
        <5>. HIDE DEF k, span, i
        <5>5. w.end = ph.start + ws + e
          BY <1>3, <4>2, <5>1, <5>4 DEF e
        <5>6. e = Ms(b) - ws - Off(from) /\ Ms(b) \in Nat
          BY <1>7, <2>2 DEF e
        <5>. QED
          BY <1>2, <2>2, <4>1, <5>1, <5>5, <5>6
      <4>4. CASE WordStart(a) + SamplesPerMs > from
        <5>. DEFINE m == Ms(a - 1)
        <5>1. m \in Nat /\ MsToSamples(m) < from /\ from < MsToSamples(m + 1)
          <6>1. m \in Nat /\ MsToSamples(m) = WordStart(a)
            BY <1>7, <1>8
          <6>. HIDE DEF m
          <6>2. MsToSamples(m + 1) = MsToSamples(m) + SamplesPerMs
            BY <1>2, <6>1 DEF MsToSamples
          <6>. QED
            BY <1>8, <3>2, <4>4, <6>1, <6>2
        <5>. HIDE DEF m
        <5>2. ws = m
          <6>1. MsToSamples(m) <= from
            <7>1. MsToSamples(m) \in Nat
              BY <5>1, InSamples
            <7>. QED
              BY <5>1, <7>1
          <6>2. m <= ws /\ ws < m + 1
            BY <5>1, <6>1, Compares DEF ws
          <6>. QED
            BY <1>2, <5>1, <6>2
        <5>3. Off(from) = 1
          BY <5>1, <5>2, InSamples DEF Off, ws
        <5>4. span = k * WordMs - 1
          <6>. DEFINE kW == k * WordMs
          <6>1. Ms(b) = m + kW /\ kW \in Nat
            BY <1>7 DEF m
          <6>. HIDE DEF kW, k, span
          <6>2. span = kW - 1
            BY <2>2, <4>2, <5>1, <5>2, <5>3, <6>1
          <6>. QED
            BY <6>2 DEF kW
        <5>5. (span * j) \div k = j * WordMs - 1
          <6>1. k \in Nat \ {0} /\ j \in 1..k /\ 1 \in {0, 1} /\ k * WordMs - 1 \in Nat
            <7>. DEFINE kW == k * WordMs
            <7>1. kW \in Nat /\ kW >= 1
              BY <1>7
            <7>. HIDE DEF k, kW
            <7>2. kW - 1 \in Nat
              BY <7>1
            <7>3. k \in Nat \ {0} /\ j \in 1..k
              BY <1>5
            <7>. QED
              BY <7>2, <7>3 DEF kW
          <6>. HIDE DEF k, span
          <6>2. ((k * WordMs - 1) * j) \div k = j * WordMs - 1
            BY <6>1, ShareExact
          <6>. QED
            BY <5>4, <6>2
        <5>. DEFINE jW == j * WordMs
        <5>. HIDE DEF k, span, i, jW
        <5>6. jW \in Nat /\ (span * j) \div k = jW - 1 /\ Ms(i) = m + jW
          BY <1>7, <5>5 DEF jW, m
        <5>. QED
          BY <1>3, <4>1, <5>1, <5>2, <5>3, <5>6
      <4>. QED
        BY <1>10, <4>3, <4>4
    <3>. QED
      BY <1>8, <3>1, <3>2
  <2>. QED
    BY <1>5, <1>6, <1>9, <2>1, <2>3 DEF ph, a, b
<1>11. CASE /\ a = b /\ ph.words[2].text < 0
            /\ WordStart(a) >= from /\ WordEnd(a) > to
  <2>1. k = 1 /\ j = 1 /\ i = a
    <3>1. a \in Nat /\ a = b
      BY <1>1, <1>11
    <3>2. k = 1
      BY <3>1
    <3>. HIDE DEF i, k
    <3>3. j \in Nat /\ 1 <= j /\ j <= k /\ i = a + j - 1
      BY <1>5
    <3>. QED
      BY <3>1, <3>2, <3>3
  <2>2. WordEnd(i) > to /\ w.text < 0
    <3>1. w.text = ph.words[2].text
      <4>1. j + 1 = 2
        BY <2>1
      <4>. QED
        BY <1>3, <4>1
    <3>. QED
      BY <1>11, <2>1, <3>1
  <2>3. w.end <= SamplesToMs(to)
    <3>1. ph.end = SamplesToMs(to - from) /\ to - from \in Nat
      BY <1>1, <1>8, <1>11 DEF AtMost
    <3>2. ph.end \in Nat /\ ph.start \in Nat
      <4>1. AtLeast(WordStart(a), from) - from \in Nat
        BY <1>8 DEF AtLeast
      <4>. QED
        BY <1>1, <3>1, <4>1, InMs
    <3>. DEFINE e == ph.end
                g == ph.start
    <3>. HIDE DEF e, g, i
    <3>3. span = e - g /\ e - g \in Nat
      BY <1>4, <3>2 DEF Monus, e, g
    <3>. HIDE DEF span, k
    <3>4. ((e - g) * 1) \div 1 = e - g
      BY <3>3
    <3>5. w.end = g + ws + (e - g)
      BY <1>3, <2>1, <3>3, <3>4 DEF g
    <3>6. e + ws <= SamplesToMs(to)
      <4>1. (to - from) \div SamplesPerMs + from \div SamplesPerMs <= ((to - from) + from) \div SamplesPerMs
        BY <1>2, <3>1, DivisionAdds
      <4>2. (to - from) + from = to
        OBVIOUS
      <4>. QED
        BY <3>1, <4>1, <4>2 DEF e, ws, SamplesToMs
    <3>7. SamplesToMs(to) \in Nat
      BY InMs
    <3>. QED
      BY <1>2, <3>2, <3>5, <3>6, <3>7 DEF e, g
  <2>. QED
    BY <1>5, <1>6, <1>9, <2>2, <2>3 DEF ph, a, b
<1>. QED
  BY <1>1, <1>10, <1>11

(* All words of a phrase but its special token are visible.                  *)
LEMMA StretchVisible ==
  ASSUME NEW from \in Nat, NEW to \in Nat, NEW phrases \in Seq(Uttered), NEW p \in 1..Len(phrases),
         Stretch(phrases[p], from, to)
  PROVE  /\ NormalizeText(phrases[p].words) = 2..Len(phrases[p].words)
         /\ Len(phrases[p].words) \in Nat
         /\ Len(phrases[p].words) = LastWord(phrases[p]) - FirstWord(phrases[p]) + 2
         /\ \A m \in 2..Len(phrases[p].words) : phrases[p].words[m].word = FirstWord(phrases[p]) + m - 2
<1>. DEFINE phrase == phrases[p]
            a == FirstWord(phrase)
            b == LastWord(phrase)
            L == Len(phrase.words)
<1>3. /\ a \in Nat /\ b \in Nat /\ a <= b /\ a >= 1
      /\ L = b - a + 2 /\ L \in Nat /\ phrase.words[1] = Marker
      /\ \A m \in 2..L : phrase.words[m].word = a + m - 2
  <2>1. /\ FirstWord(phrase) \in 1..Len(Spoken) /\ LastWord(phrase) \in 1..Len(Spoken)
        /\ FirstWord(phrase) <= LastWord(phrase)
        /\ Len(phrase.words) = LastWord(phrase) - FirstWord(phrase) + 2 /\ phrase.words[1] = Marker
        /\ \A n \in 2..Len(phrase.words) : phrase.words[n].word = FirstWord(phrase) + n - 2
    BY Zenon DEF Stretch
  <2>2. Len(Spoken) \in Nat
    BY WhisperAssumption DEF WhisperAssumption
  <2>3. /\ a \in 1..Len(Spoken) /\ b \in 1..Len(Spoken) /\ a <= b
        /\ L = b - a + 2 /\ phrase.words[1] = Marker
        /\ \A m \in 2..L : phrase.words[m].word = a + m - 2
    BY <2>1, Zenon
  <2>. HIDE DEF a, b, L, phrase
  <2>4. a \in Nat /\ b \in Nat /\ a <= b /\ a >= 1 /\ L \in Nat
    BY <2>2, <2>3
  <2>. QED
    BY <2>3, <2>4
<1>. HIDE DEF a, b
<1>4. NormalizeText(phrase.words) = 2..L
  <2>1. phrase \in Uttered
    OBVIOUS
  <2>. HIDE DEF phrase
  <2>2. DOMAIN phrase.words = 1..L
    BY <1>3, <2>1 DEF Uttered
  <2>3. \A m \in 2..L : phrase.words[m] # Marker
    <3>1. ASSUME NEW m \in 2..L PROVE phrase.words[m].word # 0
      BY <1>3
    <3>2. Marker.word = 0
      BY DEF Marker
    <3>. QED
      BY <3>1, <3>2
  <2>4. \A m \in 1..L : m = 1 \/ m \in 2..L
    BY <1>3
  <2>5. \A m \in 2..L : m \in 1..L /\ m # 1
    BY <1>3
  <2>. HIDE DEF L
  <2>. QED
    BY <1>3, <2>2, <2>3, <2>4, <2>5 DEF NormalizeText
<1>. HIDE DEF L, phrase
<1>. QED
  BY <1>3, <1>4 DEF L, phrase, a, b

(* Each of the words of a phrase is among those it is split into.            *)
LEMMA StretchCovers ==
  ASSUME NEW from \in Nat, NEW to \in Nat, NEW phrases \in Seq(Uttered), NEW p \in 1..Len(phrases),
         Stretch(phrases[p], from, to), NEW ws \in Nat,
         NEW i \in FirstWord(phrases[p])..LastWord(phrases[p])
  PROVE  \E w \in SplitSegmentWords(phrases, p, ws) : w.word = i
<1>. DEFINE phrase == phrases[p]
            visible == NormalizeText(phrase.words)
            N == Cardinality(visible)
            Before(n) == Cardinality({m \in visible : m < n})
            Share(n) == (Monus(phrase.end, phrase.start) * n) \div N
            Word(n) == [text |-> phrase.words[n].text, word |-> phrase.words[n].word,
                        start |-> phrase.start + ws + Share(Before(n)),
                        end |-> phrase.start + ws + Share(Before(n) + 1),
                        place |-> <<p, n>>]
            a == FirstWord(phrase)
            b == LastWord(phrase)
            L == Len(phrase.words)
            n == i - a + 2
<1>1. SplitSegmentWords(phrases, p, ws) = {Word(m) : m \in visible}
  BY Zenon DEF SplitSegmentWords
<1>2. /\ visible = 2..L /\ L \in Nat /\ L = b - a + 2
      /\ \A m \in 2..L : phrase.words[m].word = a + m - 2
  <2>1. /\ NormalizeText(phrases[p].words) = 2..Len(phrases[p].words)
        /\ Len(phrases[p].words) \in Nat
        /\ Len(phrases[p].words) = LastWord(phrases[p]) - FirstWord(phrases[p]) + 2
        /\ \A m \in 2..Len(phrases[p].words) : phrases[p].words[m].word = FirstWord(phrases[p]) + m - 2
    BY StretchVisible
  <2>. QED
    BY <2>1, Zenon
<1>3. a \in Nat /\ b \in Nat
  <2>. HIDE DEF phrase
  <2>. QED
    BY DEF Stretch, phrase
<1>4. i \in a..b
  OBVIOUS
<1>. HIDE DEF L, a, b
<1>5. n \in 2..L /\ a + n - 2 = i
  BY <1>2, <1>3, <1>4
<1>. HIDE DEF n
<1>6. Word(n) \in {Word(m) : m \in visible} /\ phrase.words[n].word = i
  <2>. HIDE DEF visible, Word, phrase
  <2>. QED
    BY <1>2, <1>5
<1>7. Word(n).word = phrase.words[n].word
  OBVIOUS
<1>. HIDE DEF Word, visible, phrase
<1>. QED
  BY <1>1, <1>6, <1>7

(* The words of a hypothesis for the window that begins at from.             *)
WordsOf(phrases, from) ==
  UNION {SplitSegmentWords(phrases, p, SamplesToMs(from)) : p \in DOMAIN phrases}

(* What is known of one of them.                                             *)
Placement(w, from, to) ==
  /\ w.word \in 1..Len(Spoken) /\ w.text \in {Spoken[w.word], -w.word} /\ w.end \in Nat
  /\ WordEnd(w.word) > from /\ WordStart(w.word) < to
  /\ \/ WordEnd(w.word) <= to /\ w.end = Ms(w.word) - Off(from)
     \/ WordEnd(w.word) > to /\ w.text < 0 /\ w.end <= SamplesToMs(to)

(* They are words of the utterance, each at most once, in their order.       *)
LEMMA WordsInPlace ==
  ASSUME NEW from \in Nat, NEW to \in Nat, from <= to, NEW phrases \in Hypotheses(from, to)
  PROVE  /\ WordsOf(phrases, from) \in SUBSET Placed
         /\ IsFiniteSet(WordsOf(phrases, from)) /\ Apart(WordsOf(phrases, from))
         /\ \A v, w \in WordsOf(phrases, from) :
              /\ v.word = w.word => v = w
              /\ v.word < w.word => Earlier(v, w)
         /\ \A w \in WordsOf(phrases, from) : Placement(w, from, to)
         /\ \A i \in Whole(from, to) : \E w \in WordsOf(phrases, from) : w.word = i
<1>. DEFINE ws == SamplesToMs(from)
            Split(p) == SplitSegmentWords(phrases, p, ws)
            P == DOMAIN phrases
            W == UNION {Split(p) : p \in P}
            length == SamplesToMs(to - from)
<1>1. WordsOf(phrases, from) = W
  BY Zenon DEF WordsOf
<1>2. Timed(phrases, length) /\ length \in Nat /\ ws \in Nat
  <2>1. to - from \in Nat
    OBVIOUS
  <2>. QED
    BY <2>1, HypothesesTimed, InMs
<1>3. Spelled(phrases, from, to)
  BY HypothesisSpelled
<1>. HIDE DEF length
<1>4. phrases \in Seq(Uttered) /\ P = 1..Len(phrases) /\ Len(phrases) \in Nat
  BY <1>2 DEF Timed
<1>5. \A p \in P : Split(p) \subseteq Placed /\ IsFiniteSet(Split(p))
  BY <1>2, <1>4, SplitProperties
<1>6. \A p \in P : \A w \in Split(p) :
        /\ w.place[1] = p
        /\ phrases[p].start + ws <= w.start /\ w.start <= w.end
        /\ w.end <= phrases[p].end + ws
  BY <1>2, <1>4, SplitProperties
<1>7. \A p \in P : \A v, w \in Split(p) :
        /\ v.place = w.place => v = w
        /\ v.place[2] < w.place[2] => v.start <= w.start /\ v.end <= w.end
  BY <1>2, <1>4, SplitProperties
<1>8. \A p \in P : /\ Stretch(phrases[p], from, to) /\ phrases[p].start <= phrases[p].end
                   /\ phrases[p].start \in Nat /\ phrases[p].end \in Nat
  <2>1. \A p \in P : phrases[p] \in Uttered
    BY <1>4
  <2>2. \A u \in Uttered : u.start \in Nat /\ u.end \in Nat
    BY DEF Uttered
  <2>. QED
    BY <1>2, <1>3, <1>4, <2>1, <2>2 DEF Timed, Spelled
<1>9. \A p, q \in P : p < q => /\ phrases[p].end <= phrases[q].start
                               /\ LastWord(phrases[p]) < FirstWord(phrases[q])
  BY <1>2, <1>3, <1>4 DEF Timed, Spelled
<1>10. \A p \in P : \A w \in Split(p) :
        /\ w.word \in 1..Len(Spoken) /\ w.place = <<p, w.word - FirstWord(phrases[p]) + 2>>
        /\ FirstWord(phrases[p]) <= w.word /\ w.word <= LastWord(phrases[p])
        /\ w.text \in {Spoken[w.word], -w.word}
        /\ WordStart(w.word) < to
        /\ \/ WordEnd(w.word) <= to /\ w.end = Ms(w.word) - Off(from)
           \/ WordEnd(w.word) > to /\ w.text < 0 /\ w.end <= SamplesToMs(to)
  BY <1>4, <1>8, StretchTimes
<1>11. \A p \in P : /\ FirstWord(phrases[p]) \in 1..Len(Spoken) /\ LastWord(phrases[p]) \in 1..Len(Spoken)
                    /\ WordEnd(FirstWord(phrases[p])) > from
  BY <1>8 DEF Stretch
<1>12. IsFiniteSet(W)
  <2>. DEFINE splits == {Split(p) : p \in P}
              f == [p \in P |-> Split(p)]
  <2>. HIDE DEF Split
  <2>1. f \in Surjection(P, splits)
    BY DEF Surjection
  <2>2. IsFiniteSet(P)
    BY <1>4, FS_Interval
  <2>3. \A T \in splits : IsFiniteSet(T)
    BY <1>5
  <2>. HIDE DEF f, P, splits
  <2>4. IsFiniteSet(splits)
    BY <2>1, <2>2, FS_Surjection
  <2>5. IsFiniteSet(UNION splits)
    BY <2>3, <2>4, FS_UNION
  <2>. QED
    BY <2>5 DEF splits
<1>. HIDE DEF Split, P
<1>13. ASSUME NEW w \in W PROVE \E p \in P : w \in Split(p)
  OBVIOUS
<1>14. ASSUME NEW p \in P, NEW w \in Split(p) PROVE w \in W
  OBVIOUS
<1>. HIDE DEF W
<1>15. ASSUME NEW p \in P, NEW v \in Split(p), NEW q \in P, NEW w \in Split(q)
       PROVE  /\ v.word \in Nat /\ w.word \in Nat /\ p \in Nat /\ q \in Nat
              /\ v.start \in Nat /\ v.end \in Nat /\ w.start \in Nat /\ w.end \in Nat
              /\ v.place[1] = p /\ w.place[1] = q
              /\ v.place[2] = v.word - FirstWord(phrases[p]) + 2
              /\ w.place[2] = w.word - FirstWord(phrases[q]) + 2
              /\ FirstWord(phrases[p]) \in Nat /\ LastWord(phrases[p]) \in Nat
              /\ FirstWord(phrases[q]) \in Nat /\ LastWord(phrases[q]) \in Nat
              /\ v.place[2] \in Nat /\ w.place[2] \in Nat
  <2>1. v \in Placed /\ w \in Placed
    BY <1>5
  <2>2. /\ v.start \in Nat /\ v.end \in Nat /\ w.start \in Nat /\ w.end \in Nat
        /\ v.word \in 1..Len(Spoken) /\ w.word \in 1..Len(Spoken)
        /\ v.place[2] \in Nat /\ w.place[2] \in Nat
    BY <2>1 DEF Placed
  <2>3. v.place[1] = p /\ w.place[1] = q
    BY <1>6
  <2>4. v.place = <<p, v.word - FirstWord(phrases[p]) + 2>> /\ w.place = <<q, w.word - FirstWord(phrases[q]) + 2>>
    BY <1>10
  <2>5. p \in Nat /\ q \in Nat
    BY <1>4
  <2>6. /\ FirstWord(phrases[p]) \in Nat /\ LastWord(phrases[p]) \in Nat
        /\ FirstWord(phrases[q]) \in Nat /\ LastWord(phrases[q]) \in Nat
    BY <1>11
  <2>7. v.word \in Nat /\ w.word \in Nat
    BY <2>2
  <2>. QED
    BY <2>2, <2>3, <2>4, <2>5, <2>6, <2>7
<1>16. ASSUME NEW v \in W, NEW w \in W, v.word = w.word PROVE v = w
  <2>1. PICK p \in P : v \in Split(p)
    BY <1>13
  <2>2. PICK q \in P : w \in Split(q)
    BY <1>13
  <2>3. p = q
    <3>1. ~(p < q) /\ ~(q < p)
      BY <1>9, <1>10, <1>15, <1>16, <2>1, <2>2
    <3>. QED
      BY <1>15, <2>1, <2>2, <3>1
  <2>4. v.place = w.place
    BY <1>10, <1>16, <2>1, <2>2, <2>3
  <2>. QED
    BY <1>7, <2>1, <2>2, <2>3, <2>4
<1>17. ASSUME NEW v \in W, NEW w \in W, v.word < w.word PROVE Earlier(v, w)
  <2>1. PICK p \in P : v \in Split(p)
    BY <1>13
  <2>2. PICK q \in P : w \in Split(q)
    BY <1>13
  <2>3. ~(q < p)
    BY <1>9, <1>10, <1>15, <1>17, <2>1, <2>2
  <2>4. CASE p = q
    <3>1. v.place[2] < w.place[2]
      <4>. DEFINE x == v.place[2]
                  y == w.place[2]
                  c == FirstWord(phrases[p])
      <4>1. x = v.word - c + 2 /\ y = w.word - c + 2 /\ c \in Nat /\ v.word \in Nat /\ w.word \in Nat
        BY <1>15, <2>1, <2>2, <2>4
      <4>. HIDE DEF x, y, c
      <4>2. x < y
        BY <1>17, <4>1
      <4>. QED
        BY <4>2 DEF x, y
    <3>2. v.start <= w.start /\ v.end <= w.end /\ v.place[1] = w.place[1]
      BY <1>7, <1>15, <2>1, <2>2, <2>4, <3>1
    <3>3. v.start \in Nat /\ v.end \in Nat /\ w.start \in Nat /\ w.end \in Nat
      BY <1>15, <2>1, <2>2
    <3>4. \/ v.start < w.start
          \/ v.start = w.start /\ v.end < w.end
          \/ v.start = w.start /\ v.end = w.end
      BY <3>2, <3>3
    <3>. QED
      BY <3>1, <3>2, <3>4, Zenon DEF Earlier
  <2>5. CASE p < q
    <3>1. phrases[p].end <= phrases[q].start
      BY <1>9, <2>5
    <3>2. v.end <= phrases[p].end + ws /\ phrases[q].start + ws <= w.start /\ w.start <= w.end
          /\ v.start <= v.end
      BY <1>6, <2>1, <2>2
    <3>3. /\ v.start \in Nat /\ v.end \in Nat /\ w.start \in Nat /\ w.end \in Nat
          /\ v.place[1] = p /\ w.place[1] = q
      BY <1>15, <2>1, <2>2
    <3>4. phrases[p].end \in Nat /\ phrases[q].start \in Nat
      BY <1>8
    <3>5. v.end <= w.start
      BY <1>2, <3>1, <3>2, <3>3, <3>4
    <3>. QED
      BY <2>5, <3>2, <3>3, <3>5 DEF Earlier
  <2>. QED
    BY <1>15, <2>1, <2>2, <2>3, <2>4, <2>5
<1>18. W \in SUBSET Placed
  BY <1>5, <1>13
<1>19. Apart(W)
  <2>1. ASSUME NEW v \in W, NEW w \in W, v.place = w.place PROVE v = w
    <3>1. PICK p \in P : v \in Split(p)
      BY <1>13
    <3>2. PICK q \in P : w \in Split(q)
      BY <1>13
    <3>3. p = q
      <4>1. v.place[1] = p /\ w.place[1] = q
        BY <1>15, <3>1, <3>2
      <4>. QED
        BY <2>1, <4>1
    <3>. QED
      BY <1>7, <2>1, <3>1, <3>2, <3>3
  <2>. QED
    BY <2>1 DEF Apart
<1>20. ASSUME NEW w \in W PROVE Placement(w, from, to)
  <2>1. PICK p \in P : w \in Split(p)
    BY <1>13
  <2>2. w.end \in Nat
    BY <1>15, <2>1
  <2>3. WordEnd(w.word) > from
    <3>1. FirstWord(phrases[p]) <= w.word /\ w.word \in 1..Len(Spoken) /\ FirstWord(phrases[p]) \in 1..Len(Spoken)
      BY <1>10, <1>11, <2>1
    <3>2. /\ WordEnd(FirstWord(phrases[p])) <= WordEnd(w.word)
          /\ WordEnd(FirstWord(phrases[p])) \in Nat /\ WordEnd(w.word) \in Nat
      BY <3>1, WordTimes
    <3>. QED
      BY <1>11, <3>2
  <2>. QED
    BY <1>10, <2>1, <2>2, <2>3 DEF Placement
<1>21. ASSUME NEW i \in Whole(from, to) PROVE \E w \in W : w.word = i
  <2>1. PICK p \in 1..Len(phrases) : FirstWord(phrases[p]) <= i /\ i <= LastWord(phrases[p])
    BY HypothesisSpelled
  <2>2. i \in Nat
    BY DEF Whole
  <2>4. p \in P
    BY <1>4
  <2>3. i \in FirstWord(phrases[p])..LastWord(phrases[p])
    <3>1. FirstWord(phrases[p]) \in Nat /\ LastWord(phrases[p]) \in Nat
      BY <1>11, <2>4
    <3>. QED
      BY <2>1, <2>2, <3>1
  <2>5. PICK w \in Split(p) : w.word = i
    BY <1>2, <1>4, <1>8, <2>3, <2>4, StretchCovers DEF Split
  <2>. QED
    BY <1>14, <2>4, <2>5
<1>. QED
  BY <1>1, <1>12, <1>16, <1>17, <1>18, <1>19, <1>20, <1>21

-----------------------------------------------------------------------------
(* Sorting words that follow each other, and what they repeat *)

Before(S, w) == {v \in S : Earlier(v, w)}

(* The k-th of the sorted words is the one that k - 1 precede.               *)
LEMMA SortedRanks ==
  ASSUME NEW S \in SUBSET Placed, IsFiniteSet(S), Apart(S)
  PROVE  /\ Len(Sorted(S)) = Cardinality(S) /\ Cardinality(S) \in Nat
         /\ \A k \in 1..Len(Sorted(S)) :
              \E w \in S : /\ Cardinality(Before(S, w)) = k - 1
                           /\ Sorted(S)[k].text = w.text /\ Sorted(S)[k].word = w.word
                           /\ Sorted(S)[k].end = w.end
         /\ \A w \in S : /\ Cardinality(Before(S, w)) \in Nat
                         /\ Cardinality(Before(S, w)) < Cardinality(S)
<1>. DEFINE N == Cardinality(S)
            Rank(w) == Cardinality({v \in S : Earlier(v, w)})
            Nth(k) == CHOOSE w \in S : Rank(w) = k - 1
            Q == [k \in 1..N |-> [text |-> Nth(k).text, word |-> Nth(k).word,
                                  start |-> Nth(k).start, end |-> Nth(k).end]]
<1>1. N \in Nat
  BY Ranks
<1>2. ASSUME NEW k \in 1..N PROVE Nth(k) \in S /\ Rank(Nth(k)) = k - 1
  <2>1. \E w \in S : Rank(w) = k - 1
    BY Ranks
  <2>. HIDE DEF Rank
  <2>. QED
    BY <2>1
<1>3. Sorted(S) = Q
  BY Zenon DEF Sorted
<1>4. ASSUME NEW w \in S PROVE Rank(w) \in Nat /\ Rank(w) < N
  <2>. DEFINE B == {v \in S : Earlier(v, w)}
  <2>1. B \subseteq S \ {w}
    BY EarlierOrders
  <2>2. IsFiniteSet(S \ {w}) /\ Cardinality(S \ {w}) = N - 1
    BY FS_RemoveElement
  <2>. HIDE DEF B, N
  <2>3. IsFiniteSet(B) /\ Cardinality(B) <= N - 1
    BY <2>1, <2>2, FS_Subset
  <2>4. Cardinality(B) \in Nat
    BY <2>3, FS_CardinalityType
  <2>5. Cardinality(B) < N
    BY <1>1, <2>3, <2>4
  <2>. QED
    BY <2>4, <2>5 DEF B
<1>5. \A w \in S : Rank(w) = Cardinality(Before(S, w))
  BY Zenon DEF Before
<1>. HIDE DEF N, Nth, Rank
<1>6. Len(Q) = N
  BY <1>1
<1>7. \A k \in 1..N : /\ Q[k].end = Nth(k).end
                      /\ Q[k].text = Nth(k).text /\ Q[k].word = Nth(k).word
  OBVIOUS
<1>. HIDE DEF Q
<1>. QED
  BY <1>1, <1>2, <1>3, <1>4, <1>5, <1>6, <1>7 DEF N

(* A set of words without gaps, from the word lo on.                         *)
Row(S, lo) ==
  /\ S \in SUBSET Placed /\ IsFiniteSet(S) /\ Apart(S)
  /\ \A v, w \in S : /\ v.word = w.word => v = w
                     /\ v.word < w.word => Earlier(v, w)
  /\ \A w \in S : w.word >= lo /\ \A i \in lo..w.word : \E v \in S : v.word = i

(* In a row of words each stands at its number.                              *)
LEMMA RowRanks ==
  ASSUME NEW lo \in Nat, NEW S, Row(S, lo), NEW w \in S
  PROVE  Cardinality(Before(S, w)) = w.word - lo /\ w.word \in Nat /\ w.word >= lo
<1>. DEFINE B == Before(S, w)
            R == lo..(w.word - 1)
            f == [v \in B |-> v.word]
<1>1. \A v \in S : v.word \in Nat
  BY DEF Row, Placed
<1>2. w.word \in Nat /\ w.word >= lo
  BY <1>1 DEF Row
<1>3. ASSUME NEW v \in S PROVE Earlier(v, w) <=> v.word < w.word
  <2>1. v.word < w.word => Earlier(v, w)
    BY DEF Row
  <2>2. v.word = w.word => ~Earlier(v, w)
    <3>1. v.word = w.word => v = w
      BY DEF Row
    <3>. QED
      BY <3>1, EarlierOrders DEF Row
  <2>3. w.word < v.word => ~Earlier(v, w)
    <3>1. w.word < v.word => Earlier(w, v)
      BY DEF Row
    <3>. QED
      BY <3>1, EarlierOrders DEF Row
  <2>. QED
    BY <1>1, <1>2, <2>1, <2>2, <2>3
<1>4. IsFiniteSet(B)
  <2>1. B \subseteq S /\ IsFiniteSet(S)
    BY DEF Before, Row
  <2>. QED
    BY <2>1, FS_Subset
<1>5. \A v \in B : v \in S /\ v.word \in R
  <2>1. ASSUME NEW v \in B PROVE v \in S /\ v.word \in R
    <3>1. v \in S /\ Earlier(v, w)
      BY DEF Before
    <3>2. v.word < w.word /\ v.word >= lo /\ v.word \in Nat
      BY <1>1, <1>3, <3>1 DEF Row
    <3>. QED
      BY <1>2, <3>1, <3>2
  <2>. QED
    BY <2>1
<1>6. \A i \in R : \E v \in B : v.word = i
  <2>1. ASSUME NEW i \in R PROVE \E v \in B : v.word = i
    <3>1. i \in lo..w.word /\ i < w.word
      BY <1>2
    <3>2. PICK v \in S : v.word = i
      BY <3>1 DEF Row
    <3>. QED
      BY <1>3, <3>1, <3>2 DEF Before
  <2>. QED
    BY <2>1
<1>7. \A u, v \in B : u.word = v.word => u = v
  BY <1>5 DEF Row
<1>8. Cardinality(R) = w.word - lo /\ IsFiniteSet(R)
  <2>. DEFINE b == w.word
  <2>1. b \in Nat /\ b >= lo
    BY <1>2
  <2>. HIDE DEF b
  <2>. DEFINE c == Cardinality(lo..(b - 1))
  <2>2. c = (IF lo > b - 1 THEN 0 ELSE (b - 1) - lo + 1) /\ IsFiniteSet(lo..(b - 1))
    BY <2>1, FS_Interval
  <2>. HIDE DEF c
  <2>3. c = b - lo
    BY <2>1, <2>2
  <2>. QED
    BY <2>2, <2>3 DEF c, b
<1>. HIDE DEF B, R
<1>9. f \in Surjection(B, R) /\ f \in Injection(B, R)
  <2>1. f \in [B -> R]
    BY <1>5
  <2>2. \A v \in B : f[v] = v.word
    OBVIOUS
  <2>. HIDE DEF f
  <2>3. \A i \in R : \E v \in B : f[v] = i
    BY <1>6, <2>2
  <2>. QED
    BY <1>7, <2>1, <2>2, <2>3 DEF Surjection, Injection, IsInjective
<1>10. Cardinality(R) = Cardinality(B)
  BY <1>4, <1>9, FS_Surjection
<1>. QED
  BY <1>2, <1>8, <1>10 DEF B

(* Sorted, they are the words lo, lo + 1 and so on.                          *)
LEMMA RowSorted ==
  ASSUME NEW lo \in Nat, NEW S, Row(S, lo)
  PROVE  /\ Sorted(S) \in Seq(Segment) /\ Len(Sorted(S)) \in Nat
         /\ \A k \in 1..Len(Sorted(S)) :
              \E w \in S : /\ w.word = lo + k - 1
                           /\ Sorted(S)[k].text = w.text /\ Sorted(S)[k].word = w.word
                           /\ Sorted(S)[k].end = w.end
         /\ \A w \in S : w.word - lo + 1 \in 1..Len(Sorted(S))
<1>. DEFINE Q == Sorted(S)
            N == Len(Q)
<1>1. Q \in Seq(Segment) /\ N \in Nat /\ N = Cardinality(S)
  BY SortedProperties, SortedRanks DEF Row
<1>2. \A k \in 1..N :
        \E w \in S : /\ Cardinality(Before(S, w)) = k - 1
                     /\ Q[k].text = w.text /\ Q[k].word = w.word /\ Q[k].end = w.end
  BY SortedRanks DEF Row
<1>3. \A w \in S : Cardinality(Before(S, w)) < N
  BY <1>1, SortedRanks DEF Row
<1>. HIDE DEF N, Q
<1>4. ASSUME NEW k \in 1..N
      PROVE  \E w \in S : /\ w.word = lo + k - 1
                          /\ Q[k].text = w.text /\ Q[k].word = w.word /\ Q[k].end = w.end
  <2>1. PICK w \in S : /\ Cardinality(Before(S, w)) = k - 1
                       /\ Q[k].text = w.text /\ Q[k].word = w.word /\ Q[k].end = w.end
    BY <1>2
  <2>2. k - 1 = w.word - lo /\ w.word \in Nat
    BY <2>1, RowRanks
  <2>3. w.word = lo + k - 1
    BY <1>1, <2>2
  <2>. QED
    BY <2>1, <2>3
<1>5. ASSUME NEW w \in S PROVE w.word - lo + 1 \in 1..N
  <2>1. w.word - lo < N /\ w.word \in Nat /\ w.word >= lo
    BY <1>3, RowRanks
  <2>. QED
    BY <1>1, <2>1
<1>. QED
  BY <1>1, <1>4, <1>5 DEF Q, N

(* No word follows itself in the utterance, and no stretch of words.         *)
LEMMA NoRepeat ==
  ASSUME NEW a \in Nat \ {0}, NEW n \in Nat \ {0}, a + 2 * n - 1 <= Len(Spoken),
         \A i \in 1..n : Spoken[a + i - 1] = Spoken[a + n + i - 1]
  PROVE  FALSE
<1>. DEFINE A == SubSeq(Spoken, a, a + n - 1)
            B == SubSeq(Spoken, a + n, a + 2 * n - 1)
<1>1. Len(Spoken) \in Nat /\ a \in 1..Len(Spoken) /\ n \in 1..Len(Spoken)
      /\ \A i \in 1..Len(Spoken) : Spoken[i] \in Nat
  <2>1. Spoken \in Seq(Nat \ {0})
    BY WhisperAssumption DEF WhisperAssumption
  <2>2. Len(Spoken) \in Nat /\ \A i \in 1..Len(Spoken) : Spoken[i] \in Nat
    BY <2>1
  <2>. QED
    BY <2>2
<1>2. A # B
  BY <1>1, SquareFree
<1>3. /\ A \in Seq(Nat) /\ Len(A) = n
      /\ \A i \in 1..n : A[i] = Spoken[a + i - 1]
  <2>. DEFINE z == a + n - 1
  <2>1. z \in Int /\ a <= z /\ z - a + 1 = n /\ \A i \in a..z : i \in 1..Len(Spoken)
    BY <1>1
  <2>2. \A i \in a..z : Spoken[i] \in Nat
    BY <1>1, <2>1
  <2>. HIDE DEF z
  <2>3. /\ SubSeq(Spoken, a, z) \in Seq(Nat)
        /\ Len(SubSeq(Spoken, a, z)) = IF a <= z THEN z - a + 1 ELSE 0
        /\ \A i \in 1 .. z - a + 1 : SubSeq(Spoken, a, z)[i] = Spoken[a + i - 1]
    BY <2>1, <2>2, SubSeqProperties
  <2>. QED
    BY <2>1, <2>3 DEF z
<1>4. /\ B \in Seq(Nat) /\ Len(B) = n
      /\ \A i \in 1..n : B[i] = Spoken[a + n + i - 1]
  <2>. DEFINE y == a + n
              z == a + 2 * n - 1
  <2>1. y \in Int /\ z \in Int /\ y <= z /\ z - y + 1 = n /\ \A i \in y..z : i \in 1..Len(Spoken)
    BY <1>1
  <2>2. \A i \in y..z : Spoken[i] \in Nat
    BY <1>1, <2>1
  <2>. HIDE DEF y, z
  <2>3. /\ SubSeq(Spoken, y, z) \in Seq(Nat)
        /\ Len(SubSeq(Spoken, y, z)) = IF y <= z THEN z - y + 1 ELSE 0
        /\ \A i \in 1 .. z - y + 1 : SubSeq(Spoken, y, z)[i] = Spoken[y + i - 1]
    BY <2>1, <2>2, SubSeqProperties
  <2>. QED
    BY <2>1, <2>3 DEF y, z
<1>. HIDE DEF A, B
<1>5. \A i \in 1..Len(A) : A[i] = B[i]
  BY <1>3, <1>4
<1>6. A = B
  BY <1>3, <1>4, <1>5, SeqEqual
<1>. QED
  BY <1>2, <1>6

(* Comparing the last n committed words with the first n of a row compares   *)
(* them one by one.                                                          *)
LEMMA TailHead ==
  ASSUME NEW c \in Seq(Commit), NEW f \in Seq(Segment),
         NEW n \in Nat, n <= Len(c), n <= Len(f)
  PROVE  Texts(SubSeq(c, Len(c) - n + 1, Len(c))) = Texts(SubSeq(f, 1, n))
           <=> \A i \in 1..n : c[Len(c) - n + i].text = f[i].text
<1>. DEFINE m == Len(c)
            A == SubSeq(c, m - n + 1, m)
            B == SubSeq(f, 1, n)
<1>1. m \in Nat /\ Len(f) \in Nat /\ n <= m
  OBVIOUS
<1>2. A \in Seq(Commit) /\ Len(A) = n /\ \A i \in 1..n : A[i] = c[m - n + i]
  <2>. DEFINE y == m - n + 1
  <2>1. \A i \in 1..m : c[i] \in Commit
    OBVIOUS
  <2>. HIDE DEF m
  <2>2. y \in Int /\ m \in Int /\ m - y + 1 = n /\ \A i \in y..m : i \in 1..m
    BY <1>1
  <2>3. \A i \in y..m : c[i] \in Commit
    BY <2>1, <2>2
  <2>4. \A i \in 1..n : y + i - 1 = m - n + i
    BY <1>1
  <2>5. y <= m => n > 0 
    BY <1>1
  <2>6. ~(y <= m) => n = 0
    BY <1>1
  <2>. HIDE DEF y
  <2>7. /\ SubSeq(c, y, m) \in Seq(Commit)
        /\ Len(SubSeq(c, y, m)) = IF y <= m THEN m - y + 1 ELSE 0
        /\ \A i \in 1 .. m - y + 1 : SubSeq(c, y, m)[i] = c[y + i - 1]
    BY <2>2, <2>3, SubSeqProperties
  <2>8. Len(SubSeq(c, y, m)) = n
    BY <2>2, <2>6, <2>7
  <2>9. \A i \in 1..n : SubSeq(c, y, m)[i] = c[m - n + i]
    BY <2>2, <2>4, <2>7
  <2>. QED
    BY <2>7, <2>8, <2>9 DEF y
<1>3. B \in Seq(Segment) /\ Len(B) = n /\ \A i \in 1..n : B[i] = f[i]
  <2>1. \A i \in 1..n : f[i] \in Segment
    BY <1>1
  <2>2. /\ SubSeq(f, 1, n) \in Seq(Segment)
        /\ Len(SubSeq(f, 1, n)) = IF 1 <= n THEN n - 1 + 1 ELSE 0
        /\ \A i \in 1 .. n - 1 + 1 : SubSeq(f, 1, n)[i] = f[1 + i - 1]
    BY <2>1, SubSeqProperties
  <2>3. \A i \in 1..n : i \in 1..(n - 1 + 1) /\ 1 + i - 1 = i
    OBVIOUS
  <2>4. (IF 1 <= n THEN n - 1 + 1 ELSE 0) = n
    OBVIOUS
  <2>. QED
    BY <2>2, <2>3, <2>4
<1>. HIDE DEF A, B
<1>4. Texts(A) = [i \in 1..n |-> A[i].text] /\ Texts(B) = [i \in 1..n |-> B[i].text]
  BY <1>2, <1>3 DEF Texts
<1>. DEFINE F == [i \in 1..n |-> A[i].text]
            G == [i \in 1..n |-> B[i].text]
<1>5. /\ \A i \in 1..n : F[i] = A[i].text /\ G[i] = B[i].text
      /\ DOMAIN F = 1..n /\ DOMAIN G = 1..n
  OBVIOUS
<1>6. F = G <=> \A i \in 1..n : A[i].text = B[i].text
  BY <1>5
<1>. HIDE DEF m, F, G
<1>7. (\A i \in 1..n : A[i].text = B[i].text) <=> (\A i \in 1..n : c[m - n + i].text = f[i].text)
  BY <1>2, <1>3
<1>8. Texts(A) = Texts(B) <=> \A i \in 1..n : c[m - n + i].text = f[i].text
  BY <1>4, <1>6, <1>7 DEF F, G
<1>. QED
  BY <1>8 DEF A, B, m

(* Words lo, lo + 1 and so on, of which the last may be misheard.            *)
RowOf(fresh, lo) ==
  \A k \in 1..Len(fresh) :
    /\ fresh[k].word = lo + k - 1
    /\ fresh[k].word \in 1..Len(Spoken)
    /\ fresh[k].text \in {Spoken[fresh[k].word], -fresh[k].word}
    /\ fresh[k].text > 0 \/ k = Len(fresh)

(* Of such a row behind committed words exactly a word that is committed     *)
(* already, and was heard again as it is, is dropped.                        *)
LEMMA RowOverlap ==
  ASSUME NEW committed \in Seq(Commit), \A n \in 1..Len(committed) : committed[n].text = Spoken[n],
         Len(committed) <= Len(Spoken),
         NEW fresh \in Seq(Segment), NEW lo \in {Len(committed), Len(committed) + 1},
         RowOf(fresh, lo)
  PROVE  CommittedPrefixOverlap(committed, fresh) =
           IF lo = Len(committed) /\ Len(fresh) > 0 /\ fresh[1].text > 0 THEN 1 ELSE 0
<1>. DEFINE m == Len(committed)
            l == Len(fresh)
            b == AtMost(m, l)
            tail(n) == Texts(SubSeq(committed, Len(committed) - n + 1, Len(committed)))
            head(n) == Texts(SubSeq(fresh, 1, n))
            S == {n \in 0..b : tail(n) = head(n)}
            Match(n) == \A i \in 1..n : committed[m - n + i].text = fresh[i].text
            z == CommittedPrefixOverlap(committed, fresh)
<1>1. /\ m \in Nat /\ l \in Nat /\ b \in Nat /\ b <= l /\ b <= m /\ lo \in {m, m + 1}
      /\ Len(Spoken) \in Nat /\ m <= Len(Spoken) /\ (b = m \/ b = l)
      /\ \A i \in 1..Len(Spoken) : Spoken[i] \in Nat /\ Spoken[i] > 0
  <2>1. Spoken \in Seq(Nat \ {0})
    BY WhisperAssumption DEF WhisperAssumption
  <2>2. Len(Spoken) \in Nat /\ \A i \in 1..Len(Spoken) : Spoken[i] \in Nat /\ Spoken[i] > 0
    BY <2>1
  <2>. QED
    BY <2>2 DEF AtMost
<1>2. z = Max(S)
  BY Zenon DEF CommittedPrefixOverlap
<1>3. \A n \in 0..b : n \in S <=> Match(n)
  <2>1. ASSUME NEW n \in 0..b PROVE tail(n) = head(n) <=> Match(n)
    <3>1. n \in Nat /\ n <= m /\ n <= l
      <4>. HIDE DEF m, l, b
      <4>. QED
        BY <1>1
    <3>. HIDE DEF b
    <3>2. Texts(SubSeq(committed, Len(committed) - n + 1, Len(committed))) = Texts(SubSeq(fresh, 1, n))
            <=> \A i \in 1..n : committed[Len(committed) - n + i].text = fresh[i].text
      BY <3>1, TailHead
    <3>. QED
      BY <3>2, Zenon
  <2>. HIDE DEF tail, head, Match, b
  <2>. QED
    BY <2>1
<1>4. \A n \in 1..m : committed[n].text = Spoken[n]
  OBVIOUS
<1>. HIDE DEF b, tail, head
<1>5. 0 \in S
  BY <1>1, <1>3
<1>6. S \in SUBSET Nat /\ \A n \in S : n <= b /\ n \in 0..b
  BY <1>1
<1>. HIDE DEF S, m
<1>7. Max(S) \in S /\ \A x \in S : x <= Max(S)
  BY <1>1, <1>5, <1>6, Extremes
<1>15. Max(S) \in Nat
  BY <1>6, <1>7
<1>8. \A k \in 1..l : /\ fresh[k].word = lo + k - 1 /\ lo + k - 1 \in 1..Len(Spoken)
                      /\ fresh[k].text \in {Spoken[lo + k - 1], -(lo + k - 1)}
                      /\ fresh[k].text > 0 \/ k = l
  BY DEF RowOf
<1>. HIDE DEF l
<1>9. \A k \in 1..l : fresh[k].text > 0 => fresh[k].text = Spoken[lo + k - 1]
  BY <1>1, <1>8
<1>10. ASSUME NEW n \in S, n >= 1
       PROVE  \A i \in 1..n : /\ m - n + i \in 1..m /\ i \in 1..l
                              /\ Spoken[m - n + i] = Spoken[lo + i - 1]
                              /\ fresh[i].text > 0
  <2>1. Match(n) /\ n \in 0..b
    BY <1>3, <1>6
  <2>2. ASSUME NEW i \in 1..n
        PROVE  /\ m - n + i \in 1..m /\ i \in 1..l
               /\ Spoken[m - n + i] = Spoken[lo + i - 1]
               /\ fresh[i].text > 0
    <3>1. m - n + i \in 1..m /\ i \in 1..l /\ m - n + i \in 1..Len(Spoken)
      BY <1>1, <2>1
    <3>2. committed[m - n + i].text = fresh[i].text
      BY <2>1
    <3>3. fresh[i].text = Spoken[m - n + i]
      BY <1>4, <3>1, <3>2
    <3>4. fresh[i].text > 0
      BY <1>1, <3>1, <3>3
    <3>. QED
      BY <1>9, <3>1, <3>3, <3>4
  <2>. QED
    BY <2>2
<1>11. ASSUME NEW n \in S, n >= 1, lo = m + 1 PROVE FALSE
  <2>. DEFINE a == m - n + 1
  <2>1. n \in Nat /\ n <= m /\ n <= l /\ a \in Nat \ {0} /\ n \in Nat \ {0}
    BY <1>1, <1>6, <1>11
  <2>2. lo + n - 1 <= Len(Spoken)
    <3>1. n \in 1..l
      BY <1>1, <1>11, <2>1
    <3>. QED
      BY <1>1, <1>8, <3>1
  <2>3. a + 2 * n - 1 <= Len(Spoken)
    BY <1>1, <1>11, <2>1, <2>2
  <2>4. \A i \in 1..n : Spoken[a + i - 1] = Spoken[a + n + i - 1]
    <3>1. ASSUME NEW i \in 1..n PROVE Spoken[a + i - 1] = Spoken[a + n + i - 1]
      <4>1. Spoken[m - n + i] = Spoken[lo + i - 1]
        BY <1>10, <1>11
      <4>2. a + i - 1 = m - n + i /\ a + n + i - 1 = lo + i - 1
        BY <1>1, <1>11, <2>1
      <4>. HIDE DEF a
      <4>. QED
        BY <4>1, <4>2
    <3>. QED
      BY <3>1
  <2>. HIDE DEF a
  <2>. QED
    BY <2>1, <2>3, <2>4, NoRepeat
<1>12. ASSUME NEW n \in S, n >= 2, lo = m PROVE FALSE
  <2>. DEFINE a == m - n + 1
              d == n - 1
  <2>1. n \in Nat /\ n <= m /\ n <= l /\ a \in Nat \ {0} /\ d \in Nat \ {0}
    BY <1>1, <1>6, <1>12
  <2>2. lo + n - 1 <= Len(Spoken)
    <3>1. n \in 1..l
      BY <1>1, <1>12, <2>1
    <3>. QED
      BY <1>1, <1>8, <3>1
  <2>3. a + 2 * d - 1 <= Len(Spoken)
    BY <1>1, <1>12, <2>1, <2>2
  <2>4. \A i \in 1..d : Spoken[a + i - 1] = Spoken[a + d + i - 1]
    <3>1. ASSUME NEW i \in 1..d PROVE Spoken[a + i - 1] = Spoken[a + d + i - 1]
      <4>0. i \in 1..n /\ n >= 1
        BY <2>1
      <4>1. Spoken[m - n + i] = Spoken[lo + i - 1]
        BY <1>10, <4>0
      <4>2. a + i - 1 = m - n + i /\ a + d + i - 1 = lo + i - 1
        BY <1>1, <1>12, <2>1
      <4>. HIDE DEF a, d
      <4>. QED
        BY <4>1, <4>2
    <3>. QED
      BY <3>1
  <2>. HIDE DEF a, d
  <2>. QED
    BY <2>1, <2>3, <2>4, NoRepeat
<1>13. CASE lo = m /\ l > 0 /\ fresh[1].text > 0
  <2>1. 1 \in 1..l /\ lo + 1 - 1 = lo
    BY <1>1, <1>13
  <2>2. lo \in 1..Len(Spoken) /\ fresh[1].text = Spoken[lo]
    BY <1>1, <1>8, <1>9, <1>13, <2>1
  <2>3. m \in 1..m /\ 1 \in 0..b
    BY <1>1, <1>13, <2>1, <2>2
  <2>4. Match(1)
    <3>1. \A i \in 1..1 : i = 1 /\ m - 1 + i = m
      BY <1>1
    <3>2. committed[m].text = Spoken[m]
      BY <1>4, <2>3
    <3>. QED
      BY <1>13, <2>2, <3>1, <3>2
  <2>. HIDE DEF Match
  <2>5. 1 \in S
    BY <1>3, <2>3, <2>4
  <2>6. Max(S) = 1
    <3>1. Max(S) >= 1 /\ Max(S) \in Nat
      BY <1>6, <1>7, <2>5
    <3>2. ~(Max(S) >= 2)
      BY <1>7, <1>12, <1>13
    <3>. QED
      BY <3>1, <3>2
  <2>. QED
    BY <1>2, <1>13, <2>6 DEF m, l
<1>14. CASE ~(lo = m /\ l > 0 /\ fresh[1].text > 0)
  <2>1. ASSUME Max(S) >= 1 PROVE FALSE
    <3>1. lo = m
      BY <1>1, <1>7, <1>11, <2>1
    <3>2. Max(S) \in Nat /\ 1 \in 1..Max(S)
      BY <1>15, <2>1
    <3>3. 1 \in 1..l /\ fresh[1].text > 0
      BY <1>7, <1>10, <2>1, <3>2
    <3>. QED
      BY <1>1, <1>14, <3>1, <3>3
  <2>2. Max(S) = 0
    BY <1>15, <2>1
  <2>. QED
    BY <1>2, <1>14, <2>2 DEF m, l
<1>. QED
  BY <1>13, <1>14

-----------------------------------------------------------------------------
(* What a decode adds to the words that are committed in their places *)

(* All of the words but the last of them are what was said.                  *)
LEMMA SpokenBefore ==
  ASSUME NEW from \in Nat, NEW to \in Nat, from <= to, NEW phrases \in Hypotheses(from, to),
         NEW v \in WordsOf(phrases, from), NEW w \in WordsOf(phrases, from), v.word < w.word
  PROVE  v.text = Spoken[v.word]
<1>. DEFINE ws == SamplesToMs(from)
            Split(p) == SplitSegmentWords(phrases, p, ws)
            P == DOMAIN phrases
            W == UNION {Split(p) : p \in P}
            length == SamplesToMs(to - from)
            Size(p) == Len(phrases[p].words)
<1>1. WordsOf(phrases, from) = W
  BY Zenon DEF WordsOf
<1>2. Timed(phrases, length) /\ length \in Nat /\ ws \in Nat /\ AtEnd(phrases)
  <2>1. to - from \in Nat
    OBVIOUS
  <2>. QED
    BY <2>1, HypothesesTimed, InMs
<1>3. Spelled(phrases, from, to)
  BY HypothesisSpelled
<1>. HIDE DEF length
<1>4. phrases \in Seq(Uttered) /\ P = 1..Len(phrases) /\ Len(phrases) \in Nat
  BY <1>2 DEF Timed
<1>5. \A p \in P : \A x \in Split(p) :
        /\ x.place[2] \in 1..Size(p)
        /\ phrases[p].words[x.place[2]] # Marker
        /\ phrases[p].words[x.place[2]].text = x.text
        /\ phrases[p].words[x.place[2]].word = x.word
  BY <1>2, <1>4, SplitProperties
<1>6. \A p \in P : Stretch(phrases[p], from, to) /\ phrases[p].start <= phrases[p].end
  BY <1>2, <1>3, <1>4 DEF Timed, Spelled
<1>7. \A p, q \in P : p < q => LastWord(phrases[p]) < FirstWord(phrases[q])
  BY <1>3, <1>4 DEF Spelled
<1>8. \A p \in P : \A x \in Split(p) :
        /\ x.word \in 1..Len(Spoken) /\ x.place = <<p, x.word - FirstWord(phrases[p]) + 2>>
        /\ FirstWord(phrases[p]) <= x.word /\ x.word <= LastWord(phrases[p])
        /\ x.text \in {Spoken[x.word], -x.word}
        /\ WordStart(x.word) < to
        /\ \/ WordEnd(x.word) <= to /\ x.end = Ms(x.word) - Off(from)
           \/ WordEnd(x.word) > to /\ x.text < 0 /\ x.end <= SamplesToMs(to)
  BY <1>4, <1>6, StretchTimes
<1>9. \A p \in P : FirstWord(phrases[p]) \in Nat /\ LastWord(phrases[p]) \in Nat /\ Size(p) \in Nat
  <2>1. ASSUME NEW p \in P PROVE FirstWord(phrases[p]) \in Nat /\ LastWord(phrases[p]) \in Nat
    <3>1. FirstWord(phrases[p]) \in 1..Len(Spoken) /\ LastWord(phrases[p]) \in 1..Len(Spoken)
      BY <1>6 DEF Stretch
    <3>. QED
      BY <3>1
  <2>2. ASSUME NEW p \in P PROVE Size(p) \in Nat
    BY <1>4, <1>6, StretchVisible
  <2>. QED
    BY <2>1, <2>2
<1>. HIDE DEF Split, P, Size
<1>10. PICK p \in P : v \in Split(p)
  BY <1>1
<1>11. PICK q \in P : w \in Split(q)
  BY <1>1
<1>12. SUFFICES ASSUME v.text # Spoken[v.word] PROVE FALSE
  OBVIOUS
<1>13. v.word \in Nat /\ w.word \in Nat /\ p \in Nat /\ q \in Nat
  BY <1>4, <1>8, <1>10, <1>11
<1>14. ~(q < p)
  <2>1. /\ FirstWord(phrases[p]) <= v.word /\ w.word <= LastWord(phrases[q])
        /\ FirstWord(phrases[p]) \in Nat /\ LastWord(phrases[q]) \in Nat
    BY <1>8, <1>9, <1>10, <1>11
  <2>2. q < p => LastWord(phrases[q]) < FirstWord(phrases[p])
    BY <1>7
  <2>. QED
    BY <1>13, <2>1, <2>2
<1>15. p = Len(phrases) /\ v.place[2] = Size(p)
  <2>. DEFINE n == v.place[2]
  <2>1. n \in 1..Size(p) /\ Wrong(phrases[p].words[n]) /\ p \in 1..Len(phrases)
    BY <1>4, <1>5, <1>10, <1>12 DEF Wrong
  <2>. HIDE DEF n
  <2>2. p = Len(phrases) /\ n = Size(p)
    BY <1>2, <2>1 DEF AtEnd, Size
  <2>. QED
    BY <2>2 DEF n
<1>16. q = p
  BY <1>4, <1>11, <1>13, <1>14, <1>15
<1>. DEFINE a == FirstWord(phrases[p])
            x == v.place[2]
            y == w.place[2]
<1>17. x = v.word - a + 2 /\ y = w.word - a + 2 /\ a \in Nat
  <2>1. v.place = <<p, v.word - a + 2>> /\ w.place = <<p, w.word - a + 2>> /\ a \in Nat
    BY <1>8, <1>9, <1>10, <1>11, <1>16
  <2>. HIDE DEF a
  <2>. QED
    BY <2>1
<1>18. x = Size(p) /\ y \in 1..Size(p) /\ Size(p) \in Nat
  BY <1>5, <1>9, <1>11, <1>15, <1>16
<1>. HIDE DEF a, x, y
<1>. QED
  BY <1>13, <1>17, <1>18

(* The committed words are the first of the utterance.                       *)
Spelling(s) ==
  /\ Len(s.committed) <= Len(Spoken)
  /\ \A n \in 1..Len(s.committed) : s.committed[n].word = n /\ s.committed[n].text = Spoken[n]
  /\ s.through <= Ms(Len(s.committed)) /\ Ms(Len(s.committed)) <= s.through + 1

(* The audio from here on has the first word that is not among m committed   *)
(* ones.                                                                     *)
Reaches(from, m) == m < Len(Spoken) => from < MsToSamples(Ms(m) + 1)

(* Words that follow m committed ones, of which the last may be misheard, or *)
(* the last of those misheard.                                               *)
Continues(m, words) ==
  \A k \in 1..Len(words) :
    /\ words[k].text > 0 \/ k = Len(words)
    /\ \/ words[k].word = m + k
       \/ Len(words) = 1 /\ words[k].text < 0 /\ words[k].word = m
    /\ words[k].text > 0 => /\ words[k].text = Spoken[words[k].word]
                            /\ Ms(words[k].word) <= words[k].end + 1
    /\ words[k].end <= Ms(words[k].word)

(* The words behind m committed ones that were heard whole.                  *)
Covers(m, words, h) ==
  \A i \in 1..Len(Spoken) : WordEnd(i) <= h => i <= m \/ \E k \in 1..Len(words) : words[k].word = i

(* A row that begins with the last of m committed words or behind it.        *)
Behind(S, m) == \E lo \in {m, m + 1} : Row(S, lo)

(* What of the decoder's words is not committed yet.                         *)
LEMMA FreshRow ==
  ASSUME NEW s \in States, Spelling(s), NEW from \in Nat, NEW to \in Nat, from <= to,
         Reaches(from, Len(s.committed)), NEW phrases \in Hypotheses(from, to),
         NEW F, F = {w \in WordsOf(phrases, from) : w.end > s.through}
  PROVE  /\ Behind(F, Len(s.committed))
         /\ \A w \in F : /\ Placement(w, from, to) /\ w.end <= Ms(w.word)
                         /\ w.text > 0 => Ms(w.word) <= w.end + 1
         /\ \A i \in 1..Len(Spoken) : i > Len(s.committed) /\ WordEnd(i) <= to => \E w \in F : w.word = i
<1>. DEFINE m == Len(s.committed)
            W == WordsOf(phrases, from)
            t == s.through
<1>1. /\ m \in Nat /\ m <= Len(Spoken) /\ Len(Spoken) \in Nat /\ t \in Nat
      /\ t <= Ms(m) /\ Ms(m) <= t + 1
      /\ \A i \in 1..Len(Spoken) : Spoken[i] > 0 /\ Spoken[i] \in Nat
  <2>1. Spoken \in Seq(Nat \ {0})
    BY WhisperAssumption DEF WhisperAssumption
  <2>2. Len(Spoken) \in Nat /\ \A i \in 1..Len(Spoken) : Spoken[i] > 0 /\ Spoken[i] \in Nat
    BY <2>1
  <2>3. m \in Nat /\ t \in Nat
    BY StateFields
  <2>. QED
    BY <2>2, <2>3 DEF Spelling
<1>2. /\ W \in SUBSET Placed /\ IsFiniteSet(W) /\ Apart(W)
      /\ \A v, w \in W : /\ v.word = w.word => v = w
                         /\ v.word < w.word => Earlier(v, w)
      /\ \A w \in W : Placement(w, from, to)
      /\ \A i \in Whole(from, to) : \E w \in W : w.word = i
  BY WordsInPlace
<1>3. /\ SamplesPerMs \in Nat \ {0} /\ WordMs \in Nat /\ WordMs >= 2
      /\ \A i, j \in Nat : i < j => Ms(i) + WordMs <= Ms(j)
      /\ \A i \in Nat : Ms(i) \in Nat
  BY MsFacts, WhisperAssumption DEF WhisperAssumption
<1>4. F \subseteq W /\ \A w \in F : w.end > t
  OBVIOUS
<1>5. \A w \in W : w.end > t => w \in F
  OBVIOUS
<1>. HIDE DEF W, m, t
<1>6. ASSUME NEW w \in W
      PROVE  /\ w.word \in 1..Len(Spoken) /\ w.word \in Nat /\ w.end \in Nat /\ Ms(w.word) \in Nat
             /\ w.end <= Ms(w.word)
             /\ w.text > 0 => Ms(w.word) <= w.end + 1
             /\ WordEnd(w.word) <= to => Ms(w.word) <= w.end + 1
  <2>1. Placement(w, from, to)
    BY <1>2
  <2>2. w.word \in 1..Len(Spoken) /\ w.word \in Nat /\ w.end \in Nat /\ Ms(w.word) \in Nat
    <3>1. w.word \in 1..Len(Spoken) /\ w.end \in Nat
      BY <2>1 DEF Placement
    <3>2. w.word \in Nat
      BY <1>1, <3>1
    <3>. QED
      BY <1>3, <3>1, <3>2
  <2>3. CASE WordEnd(w.word) <= to /\ w.end = Ms(w.word) - Off(from)
    BY <2>2, <2>3, OffBounds
  <2>4. CASE WordEnd(w.word) > to /\ w.text < 0 /\ w.end <= SamplesToMs(to)
    <3>1. to < MsToSamples(Ms(w.word)) /\ SamplesToMs(to) \in Nat
      BY <2>2, <2>4, WordMsTimes, InMs
    <3>2. SamplesToMs(to) < Ms(w.word)
      BY <2>2, <3>1, Compares
    <3>3. ~(w.text > 0) /\ ~(WordEnd(w.word) <= to)
      <4>1. w.text \in Int
        BY <1>2 DEF Placed, Text
      <4>2. WordEnd(w.word) \in Nat
        BY <2>2, WordTimes
      <4>. QED
        BY <2>4, <4>1, <4>2
    <3>. QED
      BY <2>2, <2>4, <3>1, <3>2, <3>3
  <2>. QED
    BY <2>1, <2>3, <2>4 DEF Placement
<1>7. ASSUME NEW w \in F PROVE w.word >= m
  <2>1. w \in W /\ w.end > t
    BY <1>4
  <2>2. w.word < m => Ms(w.word) + WordMs <= Ms(m)
    BY <1>1, <1>3, <1>6, <2>1
  <2>3. Ms(m) \in Nat
    BY <1>1, <1>3
  <2>4. /\ w.word \in Nat /\ w.end \in Nat /\ Ms(w.word) \in Nat /\ w.end <= Ms(w.word)
        /\ WordMs \in Nat /\ WordMs >= 2 /\ Ms(m) <= t + 1 /\ t \in Nat /\ m \in Nat
    BY <1>1, <1>3, <1>6, <2>1
  <2>. QED
    BY <2>1, <2>2, <2>3, <2>4
<1>8. ASSUME NEW i \in 1..Len(Spoken), i > m, WordEnd(i) <= to
      PROVE  \E w \in F : w.word = i
  <2>1. i \in Nat /\ m + 1 \in 1..Len(Spoken) /\ m + 1 <= i
    BY <1>1, <1>8
  <2>2. WordStart(m + 1) = MsToSamples(Ms(m)) /\ WordStart(m + 1) <= WordStart(i)
        /\ WordStart(i) \in Nat /\ WordStart(m + 1) \in Nat
    <3>. DEFINE k == m + 1
    <3>1. k \in 1..Len(Spoken) /\ k <= i /\ k - 1 = m
      BY <1>1, <2>1
    <3>. HIDE DEF k
    <3>2. WordStart(k) = MsToSamples(Ms(m)) /\ WordStart(k) <= WordStart(i)
          /\ WordStart(i) \in Nat /\ WordStart(k) \in Nat
      BY <3>1, WordMsTimes, WordTimes
    <3>. QED
      BY <3>2 DEF k
  <2>3. from < MsToSamples(Ms(m) + 1)
    <3>1. m < Len(Spoken)
      BY <1>1, <2>1
    <3>. QED
      BY <3>1 DEF Reaches, m
  <2>4. MsToSamples(Ms(m) + 1) = MsToSamples(Ms(m)) + SamplesPerMs
    <3>. DEFINE x == Ms(m)
    <3>1. x \in Nat
      BY <1>1, <1>3
    <3>. HIDE DEF x
    <3>2. (x + 1) * SamplesPerMs = x * SamplesPerMs + SamplesPerMs
      BY <1>3, <3>1
    <3>. QED
      BY <3>2 DEF MsToSamples, x
  <2>5. WordStart(i) + SamplesPerMs > from
    <3>. HIDE DEF m
    <3>. QED
      BY <1>3, <2>2, <2>3, <2>4
  <2>6. i \in Whole(from, to)
    BY <1>8, <2>5 DEF Whole
  <2>7. PICK w \in W : w.word = i
    BY <1>2, <2>6
  <2>8. Ms(m) + WordMs <= Ms(i) /\ Ms(m) \in Nat /\ Ms(i) \in Nat
    BY <1>1, <1>3, <1>8, <2>1
  <2>9. w.end > t
    <3>1. /\ w.end \in Nat /\ Ms(i) <= w.end + 1
          /\ WordMs \in Nat /\ WordMs >= 2 /\ t <= Ms(m) /\ t \in Nat
      BY <1>1, <1>3, <1>6, <1>8, <2>7
    <3>. QED
      BY <2>8, <3>1
  <2>. QED
    BY <1>5, <2>7, <2>9
<1>. DEFINE lo == IF \E w \in F : w.word = m THEN m ELSE m + 1
<1>9. lo \in {m, m + 1} /\ lo \in Nat /\ (lo = m => \E w \in F : w.word = m)
      /\ \A w \in F : w.word >= lo
  <2>1. \A w \in F : w.word \in Nat
    BY <1>4, <1>6
  <2>2. CASE \E w \in F : w.word = m
    BY <1>1, <1>7, <2>2
  <2>3. CASE ~ \E w \in F : w.word = m
    <3>1. \A w \in F : w.word >= m /\ w.word # m
      BY <1>7, <2>3
    <3>. QED
      BY <1>1, <2>1, <2>3, <3>1
  <2>. QED
    BY <2>2, <2>3
<1>. HIDE DEF lo
<1>10. ASSUME NEW w \in F, NEW i \in lo..w.word PROVE \E v \in F : v.word = i
  <2>1. w.word \in 1..Len(Spoken) /\ w.word \in Nat /\ i \in Nat /\ Placement(w, from, to)
    BY <1>2, <1>4, <1>6, <1>9
  <2>2. CASE i = w.word
    BY <2>2
  <2>3. CASE i = m /\ i # w.word
    BY <1>1, <1>9, <2>3
  <2>4. CASE i # m /\ i # w.word
    <3>1. i > m /\ i < w.word /\ i \in 1..Len(Spoken)
      BY <1>1, <1>9, <2>1, <2>4
    <3>2. WordEnd(i) <= WordStart(w.word) /\ WordStart(w.word) < to
          /\ WordEnd(i) \in Nat /\ WordStart(w.word) \in Nat
      BY <2>1, <3>1, WordTimes DEF Placement
    <3>3. WordEnd(i) <= to
      BY <3>2
    <3>. QED
      BY <1>8, <3>1, <3>3
  <2>. QED
    BY <2>2, <2>3, <2>4
<1>11. F \in SUBSET Placed /\ IsFiniteSet(F) /\ Apart(F)
  <2>1. IsFiniteSet(F)
    BY <1>2, <1>4, FS_Subset
  <2>. QED
    BY <1>2, <1>4, <2>1 DEF Apart
<1>12. Row(F, lo)
  <2>1. \A v, w \in F : /\ v.word = w.word => v = w
                        /\ v.word < w.word => Earlier(v, w)
    BY <1>2, <1>4
  <2>. QED
    BY <1>9, <1>10, <1>11, <2>1 DEF Row
<1>13. \A w \in F : /\ Placement(w, from, to) /\ w.end <= Ms(w.word)
                    /\ w.text > 0 => Ms(w.word) <= w.end + 1
  BY <1>2, <1>4, <1>6
<1>14. Behind(F, m)
  BY <1>9, <1>12 DEF Behind
<1>. QED
  BY <1>8, <1>13, <1>14 DEF m

(* They follow the committed words.                                          *)
LEMMA CandidatesFollow ==
  ASSUME NEW s \in States, Spelling(s), NEW from \in Nat, NEW to \in Nat, from <= to,
         Reaches(from, Len(s.committed)), NEW phrases \in Hypotheses(from, to)
  PROVE  /\ Continues(Len(s.committed), Candidates(s, phrases, SamplesToMs(from)))
         /\ Covers(Len(s.committed), Candidates(s, phrases, SamplesToMs(from)), to)
<1>. DEFINE ws == SamplesToMs(from)
            splits == {SplitSegmentWords(phrases, p, ws) : p \in DOMAIN phrases}
            W == UNION splits
            F == {w \in W : w.end > s.through}
            fresh == Sorted(F)
            ov == CommittedPrefixOverlap(s.committed, fresh)
            C == SubSeq(fresh, ov + 1, Len(fresh))
            m == Len(s.committed)
            N == Len(fresh)
<1>1. Candidates(s, phrases, ws) = C
  BY Zenon DEF Candidates
<1>2. W = WordsOf(phrases, from)
  BY Zenon DEF WordsOf
<1>. HIDE DEF W
<1>3. F = {w \in WordsOf(phrases, from) : w.end > s.through}
  BY <1>2, Zenon
<1>4. /\ m \in Nat /\ m <= Len(Spoken) /\ Len(Spoken) \in Nat
      /\ \A i \in 1..Len(Spoken) : Spoken[i] > 0 /\ Spoken[i] \in Nat
      /\ s.committed \in Seq(Commit)
      /\ \A n \in 1..m : s.committed[n].text = Spoken[n]
  <2>1. Spoken \in Seq(Nat \ {0})
    BY WhisperAssumption DEF WhisperAssumption
  <2>2. Len(Spoken) \in Nat /\ \A i \in 1..Len(Spoken) : Spoken[i] > 0 /\ Spoken[i] \in Nat
    BY <2>1
  <2>3. m \in Nat /\ s.committed \in Seq(Commit)
    BY StateFields
  <2>. QED
    BY <2>2, <2>3 DEF Spelling
<1>5. /\ Behind(F, m)
      /\ \A w \in F : /\ Placement(w, from, to) /\ w.end <= Ms(w.word)
                      /\ w.text > 0 => Ms(w.word) <= w.end + 1
      /\ \A i \in 1..Len(Spoken) : i > m /\ WordEnd(i) <= to => \E w \in F : w.word = i
  <2>. HIDE DEF F
  <2>1. Behind(F, m)
    BY <1>3, FreshRow
  <2>2. \A w \in F : /\ Placement(w, from, to) /\ w.end <= Ms(w.word)
                     /\ w.text > 0 => Ms(w.word) <= w.end + 1
    BY <1>3, FreshRow
  <2>3. \A i \in 1..Len(Spoken) : i > m /\ WordEnd(i) <= to => \E w \in F : w.word = i
    BY <1>3, FreshRow
  <2>. QED
    BY <2>1, <2>2, <2>3
<1>6. PICK lo \in {m, m + 1} : Row(F, lo)
  BY <1>5, Zenon DEF Behind
<1>7. lo \in Nat /\ (lo = m \/ lo = m + 1)
  <2>. HIDE DEF m
  <2>. QED
    BY <1>4, <1>6
<1>8. \A v, w \in F : v.word < w.word => v.text = Spoken[v.word]
  BY <1>2, SpokenBefore
<1>. HIDE DEF F, m
<1>9. /\ fresh \in Seq(Segment) /\ N \in Nat
      /\ \A k \in 1..N :
           \E w \in F : /\ w.word = lo + k - 1
                        /\ fresh[k].text = w.text /\ fresh[k].word = w.word
                        /\ fresh[k].end = w.end
      /\ \A w \in F : w.word - lo + 1 \in 1..N
  BY <1>6, <1>7, RowSorted
<1>. HIDE DEF fresh, N
<1>10. ASSUME NEW k \in 1..N
       PROVE  /\ fresh[k].word = lo + k - 1 /\ fresh[k].word \in 1..Len(Spoken)
              /\ fresh[k].text \in {Spoken[fresh[k].word], -fresh[k].word}
              /\ fresh[k].text \in Int
              /\ fresh[k].text > 0 \/ k = N
              /\ fresh[k].text > 0 => fresh[k].text = Spoken[fresh[k].word]
              /\ fresh[k].text > 0 \/ fresh[k].text < 0
              /\ fresh[k].end <= Ms(fresh[k].word)
              /\ fresh[k].text > 0 => Ms(fresh[k].word) <= fresh[k].end + 1
  <2>1. PICK w \in F : /\ w.word = lo + k - 1
                       /\ fresh[k].text = w.text /\ fresh[k].word = w.word
                       /\ fresh[k].end = w.end
    BY <1>9
  <2>2. /\ w.word \in 1..Len(Spoken) /\ w.text \in {Spoken[w.word], -w.word}
        /\ w.end <= Ms(w.word)
        /\ w.text > 0 => Ms(w.word) <= w.end + 1
    BY <1>5 DEF Placement
  <2>3. Spoken[w.word] > 0 /\ Spoken[w.word] \in Nat /\ w.word \in Nat /\ w.word >= 1
    BY <1>4, <2>2
  <2>4. /\ w.text \in Int
        /\ w.text > 0 \/ w.text < 0
        /\ w.text > 0 => w.text = Spoken[w.word]
    BY <2>2, <2>3
  <2>5. w.text > 0 \/ k = N
    <3>1. CASE k = N
      BY <3>1
    <3>2. CASE k # N
      <4>1. k + 1 \in 1..N
        BY <1>9, <3>2
      <4>2. PICK v \in F : v.word = lo + (k + 1) - 1
        BY <1>9, <4>1
      <4>3. w.word < v.word
        BY <1>7, <2>1, <4>2
      <4>. QED
        BY <1>8, <2>3, <4>3
    <3>. QED
      BY <3>1, <3>2
  <2>. QED
    BY <2>1, <2>2, <2>4, <2>5
<1>11. RowOf(fresh, lo)
  BY <1>10 DEF RowOf, N
<1>12. ov = IF lo = m /\ N > 0 /\ fresh[1].text > 0 THEN 1 ELSE 0
  BY <1>4, <1>6, <1>9, <1>11, RowOverlap DEF m, N
<1>. HIDE DEF ov
<1>13. ov \in Nat /\ ov <= N
  BY <1>9, <1>12
<1>14. /\ Len(C) = N - ov /\ Len(C) \in Nat
       /\ \A k \in 1..Len(C) : k + ov \in 1..N /\ C[k] = fresh[k + ov]
  <2>0. fresh \in Seq(Segment) /\ Len(fresh) \in Nat /\ ov \in 0..Len(fresh)
    BY <1>9, <1>13 DEF N
  <2>1. /\ C \in Seq(Segment) /\ Len(C) = Len(fresh) - ov
        /\ \A k \in 1..Len(C) : k + ov \in 1..Len(fresh) /\ C[k] = fresh[k + ov]
    BY <2>0
  <2>. HIDE DEF C
  <2>. QED
    BY <1>9, <1>13, <2>0, <2>1 DEF N
<1>. HIDE DEF C
<1>15. lo = m /\ ov = 0 /\ N > 0 => N = 1 /\ fresh[1].text < 0
  <2>1. SUFFICES ASSUME lo = m, ov = 0, N > 0 PROVE N = 1 /\ fresh[1].text < 0
    OBVIOUS
  <2>2. 1 \in 1..N /\ ~(fresh[1].text > 0)
    BY <1>9, <1>12, <2>1
  <2>. QED
    BY <1>10, <2>2
<1>16. Continues(m, C)
  <2>1. ASSUME NEW k \in 1..Len(C)
        PROVE  /\ C[k].text > 0 \/ k = Len(C)
               /\ \/ C[k].word = m + k
                  \/ Len(C) = 1 /\ C[k].text < 0 /\ C[k].word = m
               /\ C[k].text > 0 => /\ C[k].text = Spoken[C[k].word]
                                   /\ Ms(C[k].word) <= C[k].end + 1
               /\ C[k].end <= Ms(C[k].word)
    <3>1. k + ov \in 1..N /\ C[k] = fresh[k + ov]
      BY <1>14
    <3>2. fresh[k + ov].word = lo + (k + ov) - 1
      BY <1>10, <3>1
    <3>3. CASE lo = m + 1
      <4>1. ov = 0
        BY <1>4, <1>12, <3>3
      <4>2. C[k].word = m + k
        BY <1>4, <3>1, <3>2, <3>3, <4>1
      <4>. QED
        BY <1>10, <1>14, <3>1, <4>1, <4>2
    <3>4. CASE lo = m /\ ov = 1
      <4>1. C[k].word = m + k
        BY <1>4, <3>1, <3>2, <3>4
      <4>2. k + ov = N => k = Len(C)
        BY <1>9, <1>14, <3>4
      <4>3. C[k].text > 0 \/ k = Len(C)
        BY <1>10, <3>1, <4>2
      <4>4. C[k].text > 0 => /\ C[k].text = Spoken[C[k].word]
                             /\ Ms(C[k].word) <= C[k].end + 1
        BY <1>10, <3>1
      <4>5. C[k].end <= Ms(C[k].word)
        BY <1>10, <3>1
      <4>. QED
        BY <4>1, <4>3, <4>4, <4>5
    <3>5. CASE lo = m /\ ov = 0
      <4>1. N = 1 /\ fresh[1].text < 0 /\ k = 1 /\ Len(C) = 1
        BY <1>9, <1>14, <1>15, <3>1, <3>5
      <4>2. C[k].word = m /\ C[k].text < 0
        BY <1>4, <3>1, <3>2, <3>5, <4>1
      <4>. QED
        BY <1>10, <3>1, <4>1, <4>2
    <3>. QED
      BY <1>7, <1>12, <3>3, <3>4, <3>5
  <2>. QED
    BY <2>1 DEF Continues
<1>17. Covers(m, C, to)
  <2>1. ASSUME NEW i \in 1..Len(Spoken), WordEnd(i) <= to, ~(i <= m)
        PROVE  \E k \in 1..Len(C) : C[k].word = i
    <3>1. i \in Nat /\ i > m
      BY <1>4, <2>1
    <3>2. PICK w \in F : w.word = i
      BY <1>5, <2>1, <3>1
    <3>. DEFINE k == i - lo + 1
    <3>3. k \in 1..N
      BY <1>9, <3>2
    <3>4. fresh[k].word = i /\ k \in Nat
      <4>1. fresh[k].word = lo + k - 1
        BY <1>10, <3>3
      <4>. QED
        BY <1>7, <3>1, <4>1
    <3>5. lo = m => k >= 2
      BY <1>4, <3>1
    <3>6. ov = 1 => lo = m
      BY <1>12
    <3>. HIDE DEF k
    <3>7. ov = 0 \/ ov = 1
      BY <1>12
    <3>8. k - ov \in 1..Len(C)
      <4>1. CASE ov = 0
        BY <1>9, <1>14, <3>3, <4>1
      <4>2. CASE ov = 1
        BY <1>9, <1>14, <3>3, <3>5, <3>6, <4>2
      <4>. QED
        BY <3>7, <4>1, <4>2
    <3>9. C[k - ov] = fresh[k]
      <4>1. C[k - ov] = fresh[(k - ov) + ov] /\ (k - ov) + ov = k
        BY <1>13, <1>14, <3>4, <3>8
      <4>. QED
        BY <4>1
    <3>. QED
      BY <3>4, <3>8, <3>9
  <2>. QED
    BY <2>1 DEF Covers
<1>. QED
  BY <1>1, <1>16, <1>17 DEF m

-----------------------------------------------------------------------------
(* Committing and trimming words that are in their places *)

(* Every word once and in its place, up to the first that was misheard.      *)
Once(c) ==
  \A n \in 1..Len(c) :
    (\A i \in 1..(n - 1) : c[i].text > 0) =>
      c[n].word = n \/ (c[n].text < 0 /\ c[n].word = n - 1)

Right(c) == \A n \in 1..Len(c) : c[n].text > 0

(* What is committed and shown are the first words of the utterance, all that*)
(* were heard whole until h, and the next one is still in the buffer.        *)
Positioned(s, h) ==
  /\ Spelling(s)
  /\ Continues(Len(s.committed), s.unstable)
  /\ Covers(Len(s.committed), s.unstable, h)
  /\ Reaches(s.start, Len(s.committed))

Good(s, h) == Once(s.committed) /\ (Right(s.committed) => Positioned(s, h))

(* The bound takes nothing but what was heard with room to spare.            *)
Room(s, h) ==
  \/ Monus(s.total, MsToSamples(MaxWindowMs)) <= s.start
  \/ s.total + MsToSamples(OverlapMs) <= h + MsToSamples(MaxWindowMs)

(* After a misheard word anything may be committed ...                       *)
LEMMA OnceKept ==
  ASSUME NEW c \in Seq(Commit), NEW d \in Seq(Commit), Extends(c, d), Once(c), ~Right(c)
  PROVE  Once(d) /\ ~Right(d)
<1>1. /\ Len(c) \in Nat /\ Len(d) \in Nat /\ Len(c) <= Len(d)
      /\ \A i \in 1..Len(c) : d[i] = c[i]
  BY DEF Extends
<1>2. PICK b \in 1..Len(c) : ~(c[b].text > 0)
  BY DEF Right
<1>3. b \in 1..Len(d) /\ ~(d[b].text > 0)
  BY <1>1, <1>2
<1>4. ASSUME NEW n \in 1..Len(d), \A i \in 1..(n - 1) : d[i].text > 0
      PROVE  d[n].word = n \/ (d[n].text < 0 /\ d[n].word = n - 1)
  <2>1. n <= b
    <3>1. n > b => b \in 1..(n - 1)
      BY <1>1, <1>2
    <3>. QED
      BY <1>1, <1>2, <1>3, <1>4, <3>1
  <2>2. n \in 1..Len(c) /\ \A i \in 1..(n - 1) : i \in 1..Len(c)
    BY <1>1, <1>2, <2>1
  <2>3. \A i \in 1..(n - 1) : c[i].text > 0
    BY <1>1, <1>4, <2>2
  <2>. QED
    BY <1>1, <2>2, <2>3 DEF Once
<1>. QED
  BY <1>3, <1>4 DEF Once, Right

(* ... before one, what continues the committed words.                       *)
LEMMA OnceGains ==
  ASSUME NEW c \in Seq(Commit), NEW d \in Seq(Commit), NEW words \in Seq(Segment),
         NEW count \in 0..Len(words), Extends(c, d), Gains(c, d, words, count),
         \A n \in 1..Len(c) : c[n].word = n, Continues(Len(c), words)
  PROVE  Once(d)
<1>. DEFINE m == Len(c)
<1>1. /\ m \in Nat /\ Len(d) \in Nat /\ Len(d) = m + count /\ count \in Nat /\ Len(words) \in Nat
      /\ count <= Len(words)
      /\ \A i \in 1..m : d[i] = c[i] /\ c[i].word = i
      /\ \A i \in 1..count : d[m + i].text = words[i].text /\ d[m + i].word = words[i].word
  <2>1. Len(c) \in Nat /\ Len(d) \in Nat /\ Len(words) \in Nat
    OBVIOUS
  <2>2. count \in Nat /\ count <= Len(words)
    OBVIOUS
  <2>. QED
    BY <2>1, <2>2 DEF Extends, Gains
<1>. DEFINE M == Len(d)
            l == Len(words)
<1>a. m \in Nat /\ M \in Nat /\ M = m + count /\ count \in Nat /\ l \in Nat /\ count <= l
  BY <1>1
<1>. HIDE DEF m, M, l
<1>2. ASSUME NEW n \in 1..M PROVE d[n].word = n \/ (d[n].text < 0 /\ d[n].word = n - 1)
  <2>1. CASE n <= m
    <3>1. n \in 1..m
      BY <1>a, <2>1
    <3>2. d[n] = c[n] /\ c[n].word = n
      BY <1>1, <3>1
    <3>. QED
      BY <3>2
  <2>2. CASE n > m
    <3>. DEFINE k == n - m
    <3>1. k \in 1..count /\ k \in 1..l /\ m + k = n
      BY <1>a, <2>2
    <3>. HIDE DEF k
    <3>2. d[m + k].text = words[k].text /\ d[m + k].word = words[k].word
      BY <1>1, <3>1
    <3>3. words[k].word = m + k \/ (l = 1 /\ words[k].text < 0 /\ words[k].word = m)
      BY <3>1 DEF Continues, m, l
    <3>4. l = 1 => m = n - 1
      BY <1>a, <3>1
    <3>. QED
      BY <3>1, <3>2, <3>3, <3>4
  <2>. QED
    BY <1>a, <2>1, <2>2
<1>. QED
  BY <1>2 DEF Once, M

(* Words that follow, of which the first are committed and the others shown. *)
Takes(s, words, count, t) ==
  /\ Extends(s.committed, t.committed) /\ Gains(s.committed, t.committed, words, count)
  /\ RaisesTo(s, t, words, count)
  /\ Len(t.unstable) = Len(words) - count
  /\ \A n \in 1..Len(t.unstable) : n + count \in 1..Len(words) /\ t.unstable[n] = words[n + count]

LEMMA SettlesTakes ==
  ASSUME NEW s, NEW words, NEW count, NEW by, NEW hypotheses, NEW t,
         Settles(s, words, count, by, hypotheses, t)
  PROVE  Takes(s, words, count, t)
BY Zenon DEF Settles, Takes, RaisesTo

(* Committing the first of the words that follow.                            *)
LEMMA SpellingGains ==
  ASSUME NEW s \in States, NEW t \in States, NEW words \in Seq(Segment),
         NEW count \in 0..Len(words), Takes(s, words, count, t),
         Spelling(s), Continues(Len(s.committed), words), Right(t.committed)
  PROVE  /\ Spelling(t) /\ Continues(Len(t.committed), t.unstable)
         /\ Len(s.committed) <= Len(t.committed)
         /\ \A h \in Nat : Covers(Len(s.committed), words, h)
              => Covers(Len(t.committed), t.unstable, h)
<1>. DEFINE m == Len(s.committed)
            M == Len(t.committed)
            c == s.committed
            d == t.committed
            u == t.unstable
<1>1. /\ Extends(c, d) /\ Gains(c, d, words, count)
      /\ s.through <= t.through
      /\ t.through = s.through \/ \E n \in 1..count : t.through = words[n].end
      /\ \A n \in 1..count : words[n].end <= t.through
      /\ Len(u) = Len(words) - count
      /\ \A n \in 1..Len(u) : n + count \in 1..Len(words) /\ u[n] = words[n + count]
  BY Zenon DEF Takes, RaisesTo
<1>2. /\ m \in Nat /\ M \in Nat /\ M = m + count /\ count \in Nat /\ Len(words) \in Nat
      /\ count <= Len(words) /\ Len(u) \in Nat
      /\ \A i \in 1..m : d[i] = c[i]
      /\ \A k \in 1..count : d[m + k].text = words[k].text /\ d[m + k].word = words[k].word
  <2>1. c \in Seq(Commit) /\ d \in Seq(Commit) /\ u \in Seq(Segment)
    BY StateFields
  <2>. QED
    BY <1>1, <2>1 DEF Extends, Gains
<1>3. /\ m <= Len(Spoken) /\ Len(Spoken) \in Nat
      /\ \A n \in 1..m : c[n].word = n /\ c[n].text = Spoken[n]
      /\ s.through \in Nat /\ t.through \in Nat
      /\ s.through <= Ms(m) /\ Ms(m) <= s.through + 1
  <2>1. Spoken \in Seq(Nat \ {0})
    BY WhisperAssumption DEF WhisperAssumption
  <2>2. Len(Spoken) \in Nat
    BY <2>1
  <2>. QED
    BY <2>2, StateFields DEF Spelling
<1>4. \A n \in 1..Len(words) : words[n].word \in 1..Len(Spoken) /\ words[n].end \in Nat /\ words[n].text \in Int
  <2>1. \A n \in 1..Len(words) : words[n] \in Segment
    OBVIOUS
  <2>. QED
    BY <2>1 DEF Segment, Text
<1>5. \A n \in 1..M : d[n].text > 0
  BY DEF Right
<1>6. \A k \in 1..Len(words) :
        /\ words[k].text > 0 \/ k = Len(words)
        /\ \/ words[k].word = m + k
           \/ Len(words) = 1 /\ words[k].text < 0 /\ words[k].word = m
        /\ words[k].text > 0 => /\ words[k].text = Spoken[words[k].word]
                                /\ Ms(words[k].word) <= words[k].end + 1
        /\ words[k].end <= Ms(words[k].word)
  BY DEF Continues
<1>7. \A i \in Nat : Ms(i) \in Nat
  BY MsFacts
<1>8. \A i, j \in Nat : i <= j => Ms(i) <= Ms(j)
  <2>1. ASSUME NEW i \in Nat, NEW j \in Nat, i <= j PROVE Ms(i) <= Ms(j)
    <3>1. i < j => Ms(i) + WordMs <= Ms(j)
      BY MsFacts
    <3>2. Ms(i) \in Nat /\ Ms(j) \in Nat /\ WordMs \in Nat
      BY MsFacts
    <3>3. i = j => Ms(i) = Ms(j)
      OBVIOUS
    <3>. QED
      BY <2>1, <3>1, <3>2, <3>3
  <2>. QED
    BY <2>1
<1>. HIDE DEF m, M, c, d, u
<1>9. ASSUME NEW k \in 1..count
      PROVE  /\ k \in 1..Len(words) /\ words[k].text > 0 /\ words[k].word = m + k
             /\ words[k].text = Spoken[m + k] /\ m + k <= Len(Spoken)
             /\ Ms(m + k) <= words[k].end + 1 /\ words[k].end <= Ms(m + k)
  <2>1. k \in 1..Len(words) /\ m + k \in 1..M
    BY <1>2
  <2>2. words[k].text > 0
    BY <1>2, <1>5, <2>1
  <2>3. words[k].word = m + k
    BY <1>4, <1>6, <2>1, <2>2
  <2>. QED
    BY <1>4, <1>6, <2>1, <2>2, <2>3
<1>10. M <= Len(Spoken) /\ \A n \in 1..M : d[n].word = n /\ d[n].text = Spoken[n]
  <2>1. M <= Len(Spoken)
    <3>1. CASE count = 0
      BY <1>2, <1>3, <3>1
    <3>2. CASE count > 0
      <4>1. count \in 1..count
        BY <1>2, <3>2
      <4>. QED
        BY <1>2, <1>9, <4>1
    <3>. QED
      BY <1>2, <3>1, <3>2
  <2>2. ASSUME NEW n \in 1..M PROVE d[n].word = n /\ d[n].text = Spoken[n]
    <3>1. CASE n <= m
      <4>1. n \in 1..m
        BY <1>2, <3>1
      <4>2. d[n] = c[n]
        BY <1>2, <4>1
      <4>3. c[n].word = n /\ c[n].text = Spoken[n]
        BY <1>3, <4>1
      <4>. QED
        BY <4>2, <4>3
    <3>2. CASE n > m
      <4>. DEFINE k == n - m
      <4>1. k \in 1..count /\ m + k = n
        BY <1>2, <3>2
      <4>. HIDE DEF k
      <4>2. d[m + k].text = words[k].text /\ d[m + k].word = words[k].word
        BY <1>2, <4>1
      <4>3. words[k].word = m + k /\ words[k].text = Spoken[m + k]
        BY <1>9, <4>1
      <4>. QED
        BY <4>1, <4>2, <4>3
    <3>. QED
      BY <1>2, <3>1, <3>2
  <2>. QED
    BY <2>1, <2>2
<1>11. t.through <= Ms(M)
  <2>1. CASE t.through = s.through
    <3>0. m <= M
      BY <1>2
    <3>1. Ms(m) <= Ms(M) /\ Ms(m) \in Nat /\ Ms(M) \in Nat
      BY <1>2, <1>7, <1>8, <3>0
    <3>. QED
      BY <1>3, <2>1, <3>1
  <2>2. CASE \E n \in 1..count : t.through = words[n].end
    <3>1. PICK n \in 1..count : t.through = words[n].end
      BY <2>2
    <3>2. m + n \in Nat /\ m + n <= M
      BY <1>2
    <3>3. Ms(m + n) <= Ms(M) /\ Ms(m + n) \in Nat /\ Ms(M) \in Nat
      BY <1>2, <1>7, <1>8, <3>2
    <3>4. t.through <= Ms(m + n)
      BY <1>9, <3>1
    <3>. QED
      BY <1>3, <3>3, <3>4
  <2>. QED
    BY <1>1, <2>1, <2>2
<1>12. Ms(M) <= t.through + 1
  <2>1. CASE count = 0
    <3>1. M = m
      BY <1>2, <2>1
    <3>2. Ms(m) \in Nat
      BY <1>2, <1>7
    <3>. QED
      BY <1>1, <1>3, <3>1, <3>2
  <2>2. CASE count > 0
    <3>1. count \in 1..count
      BY <1>2, <2>2
    <3>2. Ms(m + count) <= words[count].end + 1 /\ words[count].end <= t.through
          /\ words[count].end \in Nat
      BY <1>1, <1>4, <1>9, <3>1
    <3>3. Ms(M) <= words[count].end + 1 /\ Ms(M) \in Nat
      BY <1>2, <1>7, <3>2
    <3>. QED
      BY <1>3, <3>2, <3>3
  <2>. QED
    BY <1>2, <2>1, <2>2
<1>13. Spelling(t)
  BY <1>10, <1>11, <1>12 DEF Spelling, M, d
<1>14. Continues(M, u)
  <2>1. ASSUME NEW k \in 1..Len(u)
        PROVE  /\ u[k].text > 0 \/ k = Len(u)
               /\ \/ u[k].word = M + k
                  \/ Len(u) = 1 /\ u[k].text < 0 /\ u[k].word = M
               /\ u[k].text > 0 => /\ u[k].text = Spoken[u[k].word]
                                   /\ Ms(u[k].word) <= u[k].end + 1
               /\ u[k].end <= Ms(u[k].word)
    <3>. DEFINE j == k + count
    <3>1. j \in 1..Len(words) /\ u[k] = words[j] /\ (j = Len(words) => k = Len(u))
          /\ m + j = M + k
      BY <1>1, <1>2
    <3>2. Len(words) = 1 => count = 0 /\ Len(u) = 1 /\ m = M
      BY <1>1, <1>2
    <3>. HIDE DEF j
    <3>3. u[k].text > 0 \/ k = Len(u)
      BY <1>6, <3>1
    <3>4. \/ u[k].word = M + k
          \/ Len(u) = 1 /\ u[k].text < 0 /\ u[k].word = M
      BY <1>6, <3>1, <3>2
    <3>. QED
      BY <1>6, <3>1, <3>3, <3>4
  <2>. QED
    BY <2>1 DEF Continues
<1>15. ASSUME NEW h \in Nat, Covers(m, words, h) PROVE Covers(M, u, h)
  <2>1. ASSUME NEW i \in 1..Len(Spoken), WordEnd(i) <= h, ~(i <= M)
        PROVE  \E k \in 1..Len(u) : u[k].word = i
    <3>1. i \in Nat /\ ~(i <= m)
      BY <1>2, <1>3, <2>1
    <3>2. PICK j \in 1..Len(words) : words[j].word = i
      BY <1>15, <2>1, <3>1 DEF Covers
    <3>3. j > count
      <4>1. j <= count => j \in 1..count
        BY <1>2
      <4>2. j <= count => words[j].word = m + j
        BY <1>9, <4>1
      <4>. QED
        BY <1>2, <2>1, <3>1, <3>2, <4>2
    <3>. DEFINE k == j - count
    <3>4. k \in 1..Len(u) /\ k + count = j
      BY <1>1, <1>2, <3>3
    <3>. HIDE DEF k
    <3>5. u[k] = words[j]
      BY <1>1, <3>4
    <3>. QED
      BY <3>2, <3>4, <3>5
  <2>. QED
    BY <2>1 DEF Covers
<1>16. m <= M
  BY <1>2
<1>. QED
  BY <1>13, <1>14, <1>15, <1>16 DEF m, M, u

(* How many words are spoken.                                                *)
LEMMA SpokenLength == Len(Spoken) \in Nat
<1>1. Spoken \in Seq(Nat \ {0})
  BY WhisperAssumption DEF WhisperAssumption
<1>. QED
  BY <1>1

(* Later words have later times.                                             *)
LEMMA MsMonotone ==
  ASSUME NEW i \in Nat, NEW j \in Nat, i <= j
  PROVE  Ms(i) \in Nat /\ Ms(j) \in Nat /\ Ms(i) <= Ms(j)
<1>1. i < j => Ms(i) + WordMs <= Ms(j)
  BY MsFacts
<1>2. Ms(i) \in Nat /\ Ms(j) \in Nat /\ WordMs \in Nat
  BY MsFacts
<1>3. i = j => Ms(i) = Ms(j)
  OBVIOUS
<1>. QED
  BY <1>1, <1>2, <1>3

(* A buffer that reaches the next word still does when more is committed.    *)
LEMMA ReachesMore ==
  ASSUME NEW from \in Nat, NEW m \in Nat, NEW M \in Nat, m <= M, Reaches(from, m)
  PROVE  Reaches(from, M)
<1>1. Ms(m) \in Nat /\ Ms(M) \in Nat /\ Ms(m) <= Ms(M)
  BY MsMonotone
<1>2. MsToSamples(Ms(m) + 1) <= MsToSamples(Ms(M) + 1)
      /\ MsToSamples(Ms(m) + 1) \in Nat /\ MsToSamples(Ms(M) + 1) \in Nat
  <2>1. Ms(m) + 1 \in Nat /\ Ms(M) + 1 \in Nat /\ Ms(m) + 1 <= Ms(M) + 1
    BY <1>1
  <2>. QED
    BY <2>1, UnitsMonotone, InSamples
<1>3. M < Len(Spoken) => m < Len(Spoken)
  BY SpokenLength
<1>. QED
  BY <1>2, <1>3 DEF Reaches

(* What is not past the end of the last of m words reaches the next one.     *)
LEMMA ReachesFrom ==
  ASSUME NEW from \in Nat, NEW m \in Nat, SamplesToMs(from) <= Ms(m)
  PROVE  Reaches(from, m)
<1>1. Ms(m) \in Nat /\ SamplesToMs(from) \in Nat
  BY MsMonotone, InMs
<1>2. Ms(m) + 1 \in Nat /\ SamplesToMs(from) < Ms(m) + 1
  BY <1>1
<1>3. from < MsToSamples(Ms(m) + 1)
  BY <1>2, Compares
<1>. QED
  BY <1>3 DEF Reaches

(* What is trimmed leaves the next word in the buffer.                       *)
LEMMA TrimPlaces ==
  ASSUME NEW s \in States, s.start <= s.total, NEW h \in Nat, Positioned(s, h),
         Len(s.committed) < Len(Spoken) =>
           SamplesToMs(Monus(s.total, MsToSamples(MaxWindowMs))) <= Ms(Len(s.committed))
  PROVE  \E t \in States : /\ t = TrimAudio(s, FALSE)
                           /\ t.committed = s.committed
                           /\ Positioned(t, h)
<1>. DEFINE w == MsToSamples(MaxWindowMs)
            low == Monus(s.total, w)
            m == Len(s.committed)
<1>1. PICK a \in Nat :
        /\ TrimAudio(s, FALSE) = [s EXCEPT !.start = a]
        /\ [s EXCEPT !.start = a] \in States
        /\ a = s.start \/ a <= MsToSamples(Monus(s.through, OverlapMs)) \/ a = low
  <2>1. \E a \in Nat :
           /\ TrimAudio(s, FALSE) = [s EXCEPT !.start = a]
           /\ [s EXCEPT !.start = a] \in States
           /\ \/ FALSE \/ a = s.start \/ a <= MsToSamples(Monus(s.through, OverlapMs))
              \/ a = Monus(s.total, MsToSamples(MaxWindowMs))
    BY TrimProperties
  <2>. QED
    BY <2>1
<1>. DEFINE t == [s EXCEPT !.start = a]
<1>2. /\ t \in States /\ t.committed = s.committed /\ t.unstable = s.unstable
      /\ t.through = s.through /\ t.start = a
  BY <1>1 DEF States
<1>3. /\ s.total \in Nat /\ s.start \in Nat /\ s.through \in Nat /\ m \in Nat
      /\ Ms(m) \in Nat /\ s.through <= Ms(m)
  <2>1. s.total \in Nat /\ s.start \in Nat /\ s.through \in Nat /\ s.committed \in Seq(Commit)
    BY StateFields
  <2>2. m \in Nat
    BY <2>1
  <2>. QED
    BY <2>1, <2>2, MsFacts DEF Positioned, Spelling
<1>. HIDE DEF m, low
<1>4. Reaches(a, m)
  <2>1. CASE a = s.start
    BY <2>1 DEF Positioned, m
  <2>2. CASE a <= MsToSamples(Monus(s.through, OverlapMs))
    <3>. DEFINE x == Monus(s.through, OverlapMs)
    <3>1. x \in Nat /\ x <= s.through
      BY <1>3, Constants DEF Monus
    <3>2. x <= Ms(m)
      BY <1>3, <3>1
    <3>. HIDE DEF x
    <3>3. MsToSamples(x) \in Nat
      BY <3>1, InSamples
    <3>4. SamplesToMs(a) <= SamplesToMs(MsToSamples(x)) /\ SamplesToMs(MsToSamples(x)) = x
      BY <2>2, <3>1, <3>3, UnitsMonotone, ThereAndBack DEF x
    <3>5. SamplesToMs(a) <= Ms(m)
      BY <1>3, <3>1, <3>2, <3>4, InMs
    <3>. QED
      BY <1>3, <3>5, ReachesFrom
  <2>3. CASE a = low
    <3>1. CASE m < Len(Spoken)
      <4>1. SamplesToMs(a) <= Ms(m)
        BY <2>3, <3>1 DEF m, low
      <4>. QED
        BY <1>3, <4>1, ReachesFrom
    <3>2. CASE ~(m < Len(Spoken))
      BY <3>2 DEF Reaches
    <3>. QED
      BY <3>1, <3>2
  <2>. QED
    BY <1>1, <2>1, <2>2, <2>3
<1>. HIDE DEF t
<1>5. Positioned(t, h)
  BY <1>2, <1>4 DEF Positioned, Spelling, m
<1>. QED
  BY <1>1, <1>2, <1>5 DEF t

(* The bound takes no more than what was heard, and a word that was not is   *)
(* shorter than the room that is left.                                       *)
LEMMA RoomLeft ==
  ASSUME NEW total \in Nat, NEW h \in Nat, NEW m \in Nat, m < Len(Spoken),
         total + MsToSamples(OverlapMs) <= h + MsToSamples(MaxWindowMs),
         ~(WordEnd(m + 1) <= h)
  PROVE  SamplesToMs(Monus(total, MsToSamples(MaxWindowMs))) <= Ms(m)
<1>. DEFINE w == MsToSamples(MaxWindowMs)
            o == MsToSamples(OverlapMs)
            low == Monus(total, w)
            k == m + 1
            e == WordEnd(k)
<1>1. w \in Nat /\ o \in Nat /\ low \in Nat /\ SamplesToMs(low) \in Nat
  <2>1. w \in Nat /\ o \in Nat
    BY Constants, InSamples
  <2>2. low \in Nat
    BY <2>1 DEF Monus
  <2>. QED
    BY <2>1, <2>2, InMs
<1>2. Ms(m) \in Nat
  BY MsFacts
<1>3. k \in 1..Len(Spoken) /\ k - 1 = m
  BY SpokenLength
<1>. HIDE DEF k
<1>4. e \in Nat /\ e = MsToSamples(Ms(m) + WordMs)
  BY <1>3, WordMsTimes, WordTimes
<1>5. e <= MsToSamples(Ms(m)) + o /\ MsToSamples(Ms(m)) \in Nat
  <2>. DEFINE x == Ms(m)
  <2>1. x \in Nat /\ WordMs \in Nat /\ OverlapMs \in Nat /\ WordMs <= OverlapMs
        /\ SamplesPerMs \in Nat \ {0}
    BY <1>2, MsFacts, WhisperAssumption DEF WhisperAssumption
  <2>. HIDE DEF x
  <2>2. (x + WordMs) * SamplesPerMs = x * SamplesPerMs + WordMs * SamplesPerMs
    BY <2>1
  <2>3. WordMs * SamplesPerMs <= OverlapMs * SamplesPerMs
    BY <2>1
  <2>4. x * SamplesPerMs \in Nat /\ WordMs * SamplesPerMs \in Nat /\ OverlapMs * SamplesPerMs \in Nat
    BY <2>1
  <2>5. (x + WordMs) * SamplesPerMs <= x * SamplesPerMs + OverlapMs * SamplesPerMs
    BY <2>2, <2>3, <2>4
  <2>6. e = (x + WordMs) * SamplesPerMs
    BY <1>4 DEF MsToSamples, x
  <2>. QED
    BY <2>4, <2>5, <2>6 DEF MsToSamples, x
<1>6. low = 0 \/ low + w = total
  BY <1>1 DEF Monus
<1>. HIDE DEF e, low, w, o
<1>7. ~(e <= h)
  BY DEF e, k
<1>8. low <= MsToSamples(Ms(m))
  <2>. DEFINE y == MsToSamples(Ms(m))
  <2>1. total + o <= h + w
    BY DEF o, w
  <2>2. y \in Nat /\ e <= y + o
    BY <1>5
  <2>. HIDE DEF y
  <2>3. low <= y
    BY <1>1, <1>4, <1>6, <1>7, <2>1, <2>2
  <2>. QED
    BY <2>3 DEF y
<1>9. SamplesToMs(low) <= SamplesToMs(MsToSamples(Ms(m)))
  BY <1>1, <1>5, <1>8, UnitsMonotone
<1>10. SamplesToMs(MsToSamples(Ms(m))) = Ms(m)
  BY <1>2, ThereAndBack
<1>. QED
  BY <1>9, <1>10 DEF low, w

(* Committed words that spell the utterance are each committed once.         *)
LEMMA SpellingOnce == ASSUME NEW s \in States, Spelling(s) PROVE Once(s.committed)
BY DEF Spelling, Once

(* If nothing that follows was shown in time, the bound is before its end.   *)
LEMMA NextInRoom ==
  ASSUME NEW s \in States, NEW h \in Nat, Spelling(s),
         Continues(Len(s.committed), s.unstable), Covers(Len(s.committed), s.unstable, h),
         s.total + MsToSamples(OverlapMs) <= h + MsToSamples(MaxWindowMs),
         Len(s.committed) < Len(Spoken),
         \A n \in 1..Len(s.unstable) :
           s.unstable[n].end > SamplesToMs(Monus(s.total, MsToSamples(MaxWindowMs))) + OverlapMs
  PROVE  SamplesToMs(Monus(s.total, MsToSamples(MaxWindowMs))) <= Ms(Len(s.committed))
<1>. DEFINE m == Len(s.committed)
            u == s.unstable
            ms == SamplesToMs(Monus(s.total, MsToSamples(MaxWindowMs)))
<1>1. s.total \in Nat /\ m \in Nat /\ u \in Seq(Segment) /\ Len(u) \in Nat
  <2>1. s.total \in Nat /\ s.committed \in Seq(Commit) /\ u \in Seq(Segment)
    BY StateFields
  <2>. QED
    BY <2>1
<1>2. ms \in Nat /\ OverlapMs \in Nat
  <2>. DEFINE low == Monus(s.total, MsToSamples(MaxWindowMs))
  <2>1. MsToSamples(MaxWindowMs) \in Nat /\ OverlapMs \in Nat
    BY Constants, InSamples
  <2>2. low \in Nat
    BY <1>1, <2>1 DEF Monus
  <2>. HIDE DEF low
  <2>3. SamplesToMs(low) \in Nat
    BY <2>2, InMs
  <2>. QED
    BY <2>1, <2>3 DEF low
<1>3. \A n \in 1..Len(u) : u[n].word \in 1..Len(Spoken) /\ u[n].end \in Nat /\ u[n].end <= Ms(u[n].word)
  <2>1. \A n \in 1..Len(u) : u[n] \in Segment
    BY <1>1
  <2>. QED
    BY <2>1 DEF Segment, Continues
<1>4. \A n \in 1..Len(u) : u[n].end > ms + OverlapMs
  OBVIOUS
<1>. DEFINE k == m + 1
<1>5. k \in 1..Len(Spoken) /\ k \in Nat
  BY <1>1, SpokenLength
<1>6. Ms(m) \in Nat /\ Ms(k) = Ms(m) + WordMs /\ WordMs \in Nat /\ WordMs <= OverlapMs
  BY <1>1, MsFacts
<1>7. CASE ~(WordEnd(k) <= h)
  BY <1>1, <1>7, RoomLeft
<1>8. CASE WordEnd(k) <= h
  <2>1. PICK n \in 1..Len(u) : u[n].word = k
    <3>1. ~(k <= m)
      BY <1>1
    <3>. HIDE DEF k
    <3>. QED
      BY <1>5, <1>8, <3>1 DEF Covers
  <2>2. u[n].end <= Ms(k) /\ u[n].end \in Nat /\ u[n].end > ms + OverlapMs
    BY <1>3, <1>4, <2>1
  <2>. DEFINE x == Ms(m)
              y == Ms(k)
  <2>3. y = x + WordMs /\ x \in Nat
    BY <1>6
  <2>. HIDE DEF x, y, ms, k
  <2>4. u[n].end <= y
    BY <2>2 DEF y
  <2>5. ms <= x
    BY <1>2, <1>6, <2>2, <2>3, <2>4
  <2>. QED
    BY <2>5 DEF x, ms
<1>. QED
  BY <1>7, <1>8

(* The forced commit keeps words in their places, and leaves none behind the *)
(* bound.                                                                    *)
LEMMA ForcePlaces ==
  ASSUME NEW s \in States, NEW h \in Nat, Ordered(s.unstable), Room(s, h), Positioned(s, h)
  PROVE  \E t \in States :
           /\ t = ForceCommitForBound(s)
           /\ Once(t.committed)
           /\ Right(t.committed) =>
                /\ Positioned(t, h)
                /\ Len(t.committed) < Len(Spoken) =>
                     SamplesToMs(Monus(s.total, MsToSamples(MaxWindowMs))) <= Ms(Len(t.committed))
<1>. DEFINE low == Monus(s.total, MsToSamples(MaxWindowMs))
            bound == SamplesToMs(low)
            reached == Reached(s.unstable, bound + OverlapMs)
            count == AtMost(AtLeast(reached, 1), Len(s.unstable))
            u == s.unstable
            t == ForceCommitForBound(s)
            still == bound <= SamplesToMs(s.start) \/ count = 0
<1>1. /\ s.total \in Nat /\ s.start \in Nat /\ u \in Seq(Segment) /\ Len(u) \in Nat
      /\ s.through \in Nat
  BY StateFields
<1>2. low \in Nat /\ bound \in Nat /\ bound + OverlapMs \in Nat /\ SamplesToMs(s.start) \in Nat
      /\ OverlapMs \in Nat
  <2>1. MsToSamples(MaxWindowMs) \in Nat
    BY Constants, InSamples
  <2>2. low \in Nat
    BY <1>1, <2>1 DEF Monus
  <2>. HIDE DEF low
  <2>3. SamplesToMs(low) \in Nat /\ SamplesToMs(s.start) \in Nat
    BY <1>1, <2>2, InMs
  <2>4. SamplesToMs(low) + OverlapMs \in Nat
    BY <2>3, Constants
  <2>. QED
    BY <2>2, <2>3, <2>4, Constants
<1>. HIDE DEF bound, u
<1>4. reached \in 0..Len(u)
      /\ (Ordered(u) => \A n \in 1..Len(u) : n > reached => u[n].end > bound + OverlapMs)
  BY <1>1, <1>2, ReachedProperties DEF u
<1>. HIDE DEF reached
<1>5. count \in 0..Len(u) /\ count >= reached /\ (count = 0 => Len(u) = 0)
  BY <1>1, <1>4 DEF AtMost, AtLeast, u
<1>. HIDE DEF count
<1>6. t = IF still THEN s
          ELSE [CommitSegments(s, SubSeq(u, 1, count), "bound")
                  EXCEPT !.unstable = SubSeq(u, count + 1, Len(u)), !.hypotheses = <<>>]
  BY Zenon DEF ForceCommitForBound, bound, low, reached, count, u
<1>. HIDE DEF t
<1>p. /\ Spelling(s) /\ Continues(Len(s.committed), u)
      /\ Covers(Len(s.committed), u, h) /\ Reaches(s.start, Len(s.committed))
  BY DEF Positioned, u
<1>m. Len(s.committed) \in Nat /\ Ms(Len(s.committed)) \in Nat
  <2>1. s.committed \in Seq(Commit)
    BY StateFields
  <2>2. Len(s.committed) \in Nat
    BY <2>1
  <2>. QED
    BY <2>2, MsFacts
<1>7. CASE still
  <2>1. t = s
    BY <1>6, <1>7
  <2>2. Len(s.committed) < Len(Spoken) => bound <= Ms(Len(s.committed))
    <3>0. SUFFICES ASSUME Len(s.committed) < Len(Spoken) PROVE bound <= Ms(Len(s.committed))
      OBVIOUS
    <3>1. CASE bound <= SamplesToMs(s.start)
      <4>. DEFINE x == Ms(Len(s.committed))
      <4>1. s.start < MsToSamples(x + 1) /\ x \in Nat /\ x + 1 \in Nat
        BY <1>p, <1>m, <3>0 DEF Reaches
      <4>. HIDE DEF x
      <4>2. SamplesToMs(s.start) < x + 1
        BY <1>1, <4>1, Compares
      <4>3. bound <= x
        BY <1>2, <3>1, <4>1, <4>2
      <4>. QED
        BY <4>3 DEF x
    <3>2. CASE ~(bound <= SamplesToMs(s.start))
      <4>1. Len(u) = 0
        BY <1>5, <1>7, <3>2
      <4>2. ~(low <= s.start)
        <5>1. low <= s.start => SamplesToMs(low) <= SamplesToMs(s.start)
          BY <1>1, <1>2, UnitsMonotone
        <5>. QED
          BY <3>2, <5>1 DEF bound
      <4>3. s.total + MsToSamples(OverlapMs) <= h + MsToSamples(MaxWindowMs)
        BY <4>2 DEF Room
      <4>4. \A n \in 1..Len(s.unstable) :
              s.unstable[n].end > SamplesToMs(Monus(s.total, MsToSamples(MaxWindowMs))) + OverlapMs
        BY <4>1 DEF u
      <4>5. SamplesToMs(Monus(s.total, MsToSamples(MaxWindowMs))) <= Ms(Len(s.committed))
        BY <1>p, <3>0, <4>3, <4>4, NextInRoom DEF u
      <4>. QED
        BY <4>5 DEF bound
    <3>. QED
      BY <3>1, <3>2
  <2>3. Once(s.committed)
    BY <1>p, SpellingOnce
  <2>. QED
    BY <2>1, <2>2, <2>3 DEF t, bound
<1>8. CASE ~still
  <2>. DEFINE none == <<>>
  <2>1. none \in Seq(Seq(Segment)) /\ none = <<>>
    OBVIOUS
  <2>. HIDE DEF none
  <2>2. PICK r \in States : Settles(s, u, count, "bound", none, r)
    BY <1>1, <1>5, <2>1, Settled
  <2>3. t = r
    BY <1>6, <1>8, <2>1, <2>2, Zenon DEF Settles
  <2>4. /\ r.start = s.start /\ Same(s, r)
        /\ Extends(s.committed, r.committed) /\ Gains(s.committed, r.committed, u, count)
        /\ Len(r.unstable) = Len(u) - count
        /\ \A n \in 1..Len(r.unstable) : n + count \in 1..Len(u) /\ r.unstable[n] = u[n + count]
    BY <2>2, Zenon DEF Settles
  <2>5. Once(r.committed)
    <3>1. s.committed \in Seq(Commit) /\ r.committed \in Seq(Commit)
      BY StateFields
    <3>2. \A n \in 1..Len(s.committed) : s.committed[n].word = n
      BY <1>p DEF Spelling
    <3>. QED
      BY <1>1, <1>5, <1>p, <2>4, <3>1, <3>2, OnceGains
  <2>6. ASSUME Right(r.committed)
        PROVE  /\ Positioned(r, h)
               /\ Len(r.committed) < Len(Spoken) => bound <= Ms(Len(r.committed))
    <3>1. /\ Spelling(r) /\ Continues(Len(r.committed), r.unstable)
          /\ Len(s.committed) <= Len(r.committed)
          /\ \A g \in Nat : Covers(Len(s.committed), u, g)
              => Covers(Len(r.committed), r.unstable, g)
      BY <1>1, <1>5, <1>p, <2>2, <2>6, SettlesTakes, SpellingGains
    <3>2. Covers(Len(r.committed), r.unstable, h)
      BY <1>p, <3>1
    <3>3. Len(r.committed) \in Nat
      <4>1. r.committed \in Seq(Commit)
        BY StateFields
      <4>. QED
        BY <4>1
    <3>4. Reaches(r.start, Len(r.committed))
      BY <1>1, <1>m, <1>p, <2>4, <3>1, <3>3, ReachesMore
    <3>5. ASSUME Len(r.committed) < Len(Spoken) PROVE bound <= Ms(Len(r.committed))
      <4>1. r.total = s.total
        BY <2>4 DEF Same
      <4>2. ~(low <= s.start)
        <5>1. low <= s.start => SamplesToMs(low) <= SamplesToMs(s.start)
          BY <1>1, <1>2, UnitsMonotone
        <5>. QED
          BY <1>8, <5>1 DEF bound
      <4>3. s.total + MsToSamples(OverlapMs) <= h + MsToSamples(MaxWindowMs)
        BY <4>2 DEF Room
      <4>4. \A n \in 1..Len(r.unstable) : r.unstable[n].end > bound + OverlapMs
        <5>1. ASSUME NEW n \in 1..Len(r.unstable) PROVE r.unstable[n].end > bound + OverlapMs
          <6>1. n + count \in 1..Len(u) /\ r.unstable[n] = u[n + count]
            BY <2>4
          <6>2. n + count > reached
            BY <1>1, <1>4, <1>5, <6>1
          <6>. QED
            BY <1>4, <6>1, <6>2 DEF u
        <5>. QED
          BY <5>1
      <4>5. \A n \in 1..Len(r.unstable) :
              r.unstable[n].end > SamplesToMs(Monus(r.total, MsToSamples(MaxWindowMs))) + OverlapMs
        BY <4>1, <4>4 DEF bound
      <4>6. SamplesToMs(Monus(r.total, MsToSamples(MaxWindowMs))) <= Ms(Len(r.committed))
        BY <3>1, <3>2, <3>5, <4>1, <4>3, <4>5, NextInRoom
      <4>. QED
        BY <4>1, <4>6 DEF bound
    <3>. QED
      BY <3>1, <3>2, <3>4, <3>5 DEF Positioned
  <2>. QED
    BY <2>3, <2>5, <2>6 DEF t, bound
<1>. QED
  BY <1>7, <1>8

(* Committing and trimming for the bound.                                    *)
LEMMA ForceTrimGood ==
  ASSUME NEW s \in States, s.start <= s.total, NEW h \in Nat,
         Ordered(s.unstable), Room(s, h), Good(s, h)
  PROVE  Good(TrimAudio(ForceCommitForBound(s), FALSE), h)
<1>1. CASE ~Right(s.committed)
  <2>1. PICK t \in States : t = TrimAudio(ForceCommitForBound(s), FALSE) /\ Advances(s, t)
    BY ForceTrim
  <2>2. Extends(s.committed, t.committed) /\ s.committed \in Seq(Commit) /\ t.committed \in Seq(Commit)
    BY <2>1, StateFields DEF Advances
  <2>3. Once(t.committed) /\ ~Right(t.committed)
    BY <1>1, <2>2, OnceKept DEF Good
  <2>. QED
    BY <2>1, <2>3 DEF Good
<1>2. CASE Right(s.committed)
  <2>1. Positioned(s, h)
    BY <1>2 DEF Good
  <2>2. PICK f \in States :
           /\ f = ForceCommitForBound(s)
           /\ Once(f.committed)
           /\ Right(f.committed) =>
                /\ Positioned(f, h)
                /\ Len(f.committed) < Len(Spoken) =>
                     SamplesToMs(Monus(s.total, MsToSamples(MaxWindowMs))) <= Ms(Len(f.committed))
    BY <2>1, ForcePlaces
  <2>3. f.total = s.total /\ f.start = s.start /\ f.start <= f.total
    <3>1. \E t \in States : t = ForceCommitForBound(s) /\ Same(s, t) /\ t.start = s.start
      BY ForceProperties
    <3>. QED
      BY <2>2, <3>1 DEF Same
  <2>4. CASE Right(f.committed)
    <3>1. PICK t \in States : /\ t = TrimAudio(f, FALSE)
                              /\ t.committed = f.committed
                              /\ Positioned(t, h)
      <4>1. Positioned(f, h)
        BY <2>2, <2>4
      <4>2. Len(f.committed) < Len(Spoken) =>
              SamplesToMs(Monus(f.total, MsToSamples(MaxWindowMs))) <= Ms(Len(f.committed))
        BY <2>2, <2>3, <2>4
      <4>. QED
        BY <2>3, <4>1, <4>2, TrimPlaces
    <3>. QED
      BY <2>2, <3>1 DEF Good
  <2>5. CASE ~Right(f.committed)
    <3>1. PICK a \in Nat :
            TrimAudio(f, FALSE) = [f EXCEPT !.start = a]
      BY <2>3, TrimProperties
    <3>2. [f EXCEPT !.start = a].committed = f.committed
      BY DEF States
    <3>. QED
      BY <2>2, <2>5, <3>1, <3>2 DEF Good
  <2>. QED
    BY <2>4, <2>5
<1>. QED
  BY <1>1, <1>2

(* So does the state a push prepares.                                        *)
LEMMA PreparedGood ==
  ASSUME NEW s \in States, s.start <= s.total, NEW h \in Nat,
         Ordered(s.unstable), Room(s, h), Good(s, h)
  PROVE  Good(Prepared(s), h)
<1>1. CASE s.start = s.total
  BY <1>1 DEF Prepared
<1>2. CASE s.start # s.total
  BY <1>2, ForceTrimGood DEF Prepared
<1>. QED
  BY <1>1, <1>2

(* What was heard by then was heard later.                                   *)
LEMMA TimelyLater ==
  ASSUME NEW s \in States, NEW a \in Nat, NEW b \in Nat, a <= b, Timely(s, a)
  PROVE  Timely(s, b)
<1>1. SamplesToMs(a) \in Nat /\ SamplesToMs(b) \in Nat /\ SamplesToMs(a) <= SamplesToMs(b)
  BY InMs, UnitsMonotone
<1>2. s.through \in Nat /\ s.unstable \in Seq(Segment)
  BY StateFields
<1>3. \A i \in 1..Len(s.unstable) : s.unstable[i] \in Segment
  BY <1>2
<1>4. \A i \in 1..Len(s.unstable) : s.unstable[i].end \in Nat
  BY <1>3 DEF Segment
<1>. QED
  BY <1>1, <1>2, <1>4 DEF Timely

(* Only these four fields of a state matter.                                 *)
LEMMA GoodKept ==
  ASSUME NEW s, NEW t, NEW h, Good(s, h), t.committed = s.committed, t.unstable = s.unstable,
         t.through = s.through, t.start = s.start
  PROVE  Good(t, h)
BY DEF Good, Positioned, Spelling

(* Local agreement on words that follow the committed ones.                  *)
LEMMA AgreeGood ==
  ASSUME NEW s \in States, NEW words \in Seq(Segment), NEW h \in Nat,
         \A n \in 1..(Len(words) - 1) : words[n].text = Spoken[words[n].word],
         Spelling(s), Reaches(s.start, Len(s.committed)),
         Continues(Len(s.committed), words), Covers(Len(s.committed), words, h)
  PROVE  Good(Agree(s, words), h)
<1>1. PICK t \in States : t = Agree(s, words) /\ t.start = s.start /\ Agreed(s, t, words)
  BY AgreeProperties
<1>2. CASE t.committed = s.committed /\ t.through = s.through /\ t.unstable = words
  <2>1. Once(t.committed)
    BY <1>2, SpellingOnce
  <2>2. Positioned(t, h)
    BY <1>1, <1>2 DEF Positioned, Spelling
  <2>. QED
    BY <1>1, <2>1, <2>2 DEF Good
<1>3. CASE \E count \in 0..Len(words) : Settles(s, words, count, "agreement", <<>>, t)
  <2>1. PICK count \in 0..Len(words) : Settles(s, words, count, "agreement", <<>>, t)
    BY <1>3
  <2>2. Extends(s.committed, t.committed) /\ Gains(s.committed, t.committed, words, count)
    BY <2>1, Zenon DEF Settles
  <2>3. s.committed \in Seq(Commit) /\ t.committed \in Seq(Commit) /\ s.start \in Nat
    BY StateFields
  <2>4. Once(t.committed)
    <3>1. \A n \in 1..Len(s.committed) : s.committed[n].word = n
      BY DEF Spelling
    <3>. QED
      BY <2>2, <2>3, <3>1, OnceGains
  <2>5. ASSUME Right(t.committed) PROVE Positioned(t, h)
    <3>1. /\ Spelling(t) /\ Continues(Len(t.committed), t.unstable)
          /\ Len(s.committed) <= Len(t.committed)
          /\ \A g \in Nat : Covers(Len(s.committed), words, g)
              => Covers(Len(t.committed), t.unstable, g)
      BY <2>1, <2>5, SettlesTakes, SpellingGains
    <3>2. Covers(Len(t.committed), t.unstable, h)
      BY <3>1
    <3>3. Len(s.committed) \in Nat /\ Len(t.committed) \in Nat
      BY <2>3
    <3>4. Reaches(t.start, Len(t.committed))
      BY <1>1, <2>3, <3>1, <3>3, ReachesMore
    <3>. QED
      BY <3>1, <3>2, <3>4 DEF Positioned
  <2>. QED
    BY <1>1, <2>4, <2>5 DEF Good
<1>. QED
  BY <1>1, <1>2, <1>3 DEF Agreed

(* A hypothesis that is not final.                                           *)
LEMMA AppliedGood ==
  ASSUME NEW s \in States, s.start <= s.total, Timely(s, s.total), NEW h, Good(s, h),
         NEW phrases \in Hypotheses(s.start, s.total)
  PROVE  Good(Applied(s, phrases, SamplesToMs(s.start)), s.total)
<1>. DEFINE ws == SamplesToMs(s.start)
            C == Candidates(s, phrases, ws)
<1>1. /\ C \in Seq(Segment) /\ Ordered(C)
      /\ \A k \in 1..Len(C) : C[k].end >= s.through /\ C[k].end >= ws
      /\ \A k \in 1..(Len(C) - 1) : C[k].text = Spoken[C[k].word]
  BY WindowWords
<1>2. s.total \in Nat /\ s.start \in Nat /\ s.committed \in Seq(Commit)
  BY StateFields
<1>3. CASE Right(s.committed)
  <2>1. Spelling(s) /\ Reaches(s.start, Len(s.committed))
    BY <1>3 DEF Good, Positioned
  <2>2. /\ Continues(Len(s.committed), C) /\ Covers(Len(s.committed), C, s.total)
    BY <1>2, <2>1, CandidatesFollow
  <2>. HIDE DEF C, ws
  <2>3. PICK r \in States :
           /\ r = Agree(s, C)
           /\ Same(s, r) /\ r.start = s.start
           /\ /\ Ordered(C)
              /\ \A n \in 1..Len(C) : C[n].end >= s.through /\ C[n].end >= SamplesToMs(s.start)
              => Hearable(r)
    BY <1>1, AgreeProperties
  <2>4. Good(r, s.total)
    BY <1>1, <1>2, <2>1, <2>2, <2>3, AgreeGood
  <2>5. Ordered(r.unstable)
    BY <1>1, <2>3 DEF Hearable, ws
  <2>6. r.start <= r.total /\ r.total = s.total
    BY <2>3 DEF Same
  <2>7. Room(r, s.total)
    <3>1. OverlapMs \in Nat /\ MaxWindowMs \in Nat /\ OverlapMs <= MaxWindowMs
      BY WhisperAssumption DEF WhisperAssumption, Validate
    <3>2. MsToSamples(OverlapMs) <= MsToSamples(MaxWindowMs)
          /\ MsToSamples(OverlapMs) \in Nat /\ MsToSamples(MaxWindowMs) \in Nat
      BY <3>1, UnitsMonotone, InSamples
    <3>. QED
      BY <1>2, <2>6, <3>2 DEF Room
  <2>8. Good(TrimAudio(ForceCommitForBound(r), FALSE), s.total)
    BY <1>2, <2>4, <2>5, <2>6, <2>7, ForceTrimGood
  <2>. QED
    BY <2>3, <2>8 DEF Applied, C, ws
<1>4. CASE ~Right(s.committed)
  <2>1. PICK t \in States : t = Applied(s, phrases, ws) /\ Extends(s.committed, t.committed)
    BY AppliedProperties
  <2>2. t.committed \in Seq(Commit)
    BY StateFields
  <2>3. Once(t.committed) /\ ~Right(t.committed)
    BY <1>2, <1>4, <2>1, <2>2, OnceKept DEF Good
  <2>. QED
    BY <2>1, <2>3 DEF Good
<1>. QED
  BY <1>3, <1>4

(* After the final decode: all is committed that was heard whole by then.    *)
Done(s, h) ==
  /\ s.unstable = <<>>
  /\ Once(s.committed)
  /\ Right(s.committed) => Spelling(s) /\ Covers(Len(s.committed), <<>>, h)

(* If the next word is not in the buffer and not over, no word is.           *)
LEMMA NoWordLeft ==
  ASSUME NEW m \in Nat, NEW from \in Nat, NEW to \in Nat, from <= to,
         ~Reaches(from, m), \A i \in 1..Len(Spoken) : WordEnd(i) <= to => i <= m
  PROVE  Whole(from, to) = {} /\ CutFront(from, to) = {} /\ CutTail(from, to) = {}
<1>. DEFINE edge == MsToSamples(Ms(m) + 1)
<1>. HIDE DEF edge
<1>1. /\ m < Len(Spoken) /\ Len(Spoken) \in Nat /\ edge \in Nat /\ edge <= from
      /\ m + 1 \in 1..Len(Spoken) /\ SamplesPerMs \in Nat
  <2>1. Ms(m) + 1 \in Nat
    <3>1. Ms(m) \in Nat
      BY MsFacts, Zenon
    <3>. QED
      BY <3>1
  <2>2. edge \in Nat
    BY <2>1, InSamples DEF edge
  <2>3. m < Len(Spoken) /\ ~(from < edge)
    BY DEF Reaches, edge
  <2>4. SamplesPerMs \in Nat
    BY WhisperAssumption DEF WhisperAssumption
  <2>. QED
    BY <2>2, <2>3, <2>4, SpokenLength
<1>2. ~(WordEnd(m + 1) <= to)
  <2>1. ~(m + 1 <= m)
    OBVIOUS
  <2>. QED
    BY <1>1, <2>1, Zenon
<1>3. ASSUME NEW i \in 1..Len(Spoken)
      PROVE  /\ i <= m => WordEnd(i) <= from
             /\ i >= m + 1 => WordEnd(i) > to
             /\ i <= m + 1 => WordStart(i) < from
             /\ i > m + 1 => WordStart(i) > to
  <2>1. /\ i \in Nat /\ i - 1 \in Nat /\ Ms(i - 1) \in Nat /\ Ms(i) \in Nat /\ Ms(m) \in Nat
        /\ Ms(m + 1) \in Nat
        /\ WordStart(i) = MsToSamples(Ms(i - 1)) /\ WordEnd(i) = MsToSamples(Ms(i))
        /\ WordEnd(m + 1) = MsToSamples(Ms(m + 1))
    BY <1>1, WordMsTimes, MsFacts
  <2>2. ASSUME NEW x \in Nat, x <= Ms(m) PROVE MsToSamples(x) < from /\ MsToSamples(x) \in Nat
    <3>1. MsToSamples(x) \in Nat /\ SamplesPerMs > 0
      <4>1. SamplesPerMs > 0
        BY WhisperAssumption DEF WhisperAssumption
      <4>. QED
        BY <4>1, InSamples, Zenon
    <3>2. MsToSamples(Ms(m)) \in Nat /\ MsToSamples(x) <= MsToSamples(Ms(m))
      BY <2>1, <2>2, UnitsMonotone, InSamples
    <3>3. edge = MsToSamples(Ms(m)) + SamplesPerMs
      <4>1. \A y \in Nat : (y + 1) * SamplesPerMs = y * SamplesPerMs + SamplesPerMs
        BY WhisperAssumption DEF WhisperAssumption
      <4>. QED
        BY <2>1, <4>1 DEF edge, MsToSamples
    <3>. QED
      BY <1>1, <3>1, <3>2, <3>3
  <2>3. ASSUME NEW j \in Nat, j >= m + 1 PROVE MsToSamples(Ms(j)) > to
    <3>1. Ms(m + 1) <= Ms(j) /\ Ms(j) \in Nat
      BY <2>3, MsMonotone
    <3>2. MsToSamples(Ms(m + 1)) <= MsToSamples(Ms(j)) /\ MsToSamples(Ms(m + 1)) \in Nat
          /\ MsToSamples(Ms(j)) \in Nat
      BY <2>1, <3>1, UnitsMonotone, InSamples
    <3>. QED
      BY <1>2, <2>1, <3>2
  <2>4. i <= m => Ms(i) <= Ms(m)
    BY <2>1, MsMonotone
  <2>5. i <= m + 1 => Ms(i - 1) <= Ms(m)
    BY <2>1, MsMonotone
  <2>6. i <= m => WordEnd(i) <= from
    BY <2>1, <2>2, <2>4
  <2>7. i <= m + 1 => WordStart(i) < from
    BY <2>1, <2>2, <2>5
  <2>8. i >= m + 1 => WordEnd(i) > to
    BY <2>1, <2>3
  <2>9. i > m + 1 => i - 1 >= m + 1
    BY <2>1
  <2>10. i > m + 1 => WordStart(i) > to
    BY <2>1, <2>3, <2>9
  <2>. QED
    BY <2>6, <2>7, <2>8, <2>10
<1>4. ASSUME NEW i \in 1..Len(Spoken)
      PROVE  /\ i \notin Whole(from, to) /\ i \notin CutFront(from, to) /\ i \notin CutTail(from, to)
  <2>1. i \in Nat /\ WordStart(i) \in Nat /\ WordEnd(i) \in Nat
    BY WordMsTimes, InSamples
  <2>2. WordStart(i) + SamplesPerMs <= WordEnd(i)
    <3>1. Ms(i - 1) \in Nat /\ Ms(i) \in Nat /\ Ms(i - 1) + 1 \in Nat /\ Ms(i - 1) + 1 <= Ms(i)
      <4>1. Ms(i - 1) \in Nat /\ Ms(i) \in Nat /\ Ms(i) = Ms(i - 1) + WordMs
        BY WordMsTimes, Zenon
      <4>2. WordMs \in Nat /\ WordMs >= 2
        BY MsFacts
      <4>. QED
        BY <4>1, <4>2
    <3>2. MsToSamples(Ms(i - 1) + 1) <= MsToSamples(Ms(i))
      BY <3>1, UnitsMonotone
    <3>3. \A y \in Nat : (y + 1) * SamplesPerMs = y * SamplesPerMs + SamplesPerMs
      BY WhisperAssumption DEF WhisperAssumption
    <3>. QED
      BY <3>1, <3>2, <3>3, WordMsTimes DEF MsToSamples
  <2>3. i <= m \/ i = m + 1 \/ i > m + 1
    BY <2>1
  <2>. QED
    BY <1>1, <1>3, <2>1, <2>2, <2>3 DEF Whole, CutFront, CutTail
<1>. QED
  BY <1>4 DEF Whole, CutFront, CutTail

(* The decoder then hears nothing, ...                                       *)
LEMMA NothingHeard ==
  ASSUME NEW from, NEW to, NEW phrases \in Hypotheses(from, to),
         Whole(from, to) = {}, CutFront(from, to) = {}, CutTail(from, to) = {}
  PROVE  phrases = <<>>
<1>1. PICK front \in {{}, CutFront(from, to)},
           x \in {{}, {i \in Whole(from, to) : i = Max(Whole(from, to))}},
           tail \in {{}, CutTail(from, to)} :
        /\ phrases = Phrase(front, {}, from, to) \o Phrase(Whole(from, to), x, from, to)
                       \o Phrase(tail, CutTail(from, to), from, to)
        /\ x = {} \/ tail = {}
  BY HypothesisParts, Zenon
<1>2. front = {} /\ tail = {}
  BY <1>1
<1>3. \A misheard : Phrase({}, misheard, from, to) = <<>>
  BY Zenon DEF Phrase
<1>4. phrases = <<>> \o <<>> \o <<>>
  BY <1>1, <1>2, <1>3
<1>5. <<>> \o <<>> = <<>>
  BY ConcatEmptySeq, EmptySeq, Zenon
<1>. QED
  BY <1>4, <1>5, Zenon

(* ... and there is nothing to commit.                                       *)
LEMMA NothingLeft ==
  ASSUME NEW s \in States, NEW ws
  PROVE  Candidates(s, <<>>, ws) = <<>>
<1>. DEFINE words == UNION {SplitSegmentWords(<<>>, p, ws) : p \in DOMAIN <<>>}
            F == {w \in words : w.end > s.through}
            fresh == Sorted(F)
            ov == CommittedPrefixOverlap(s.committed, fresh)
<1>1. Candidates(s, <<>>, ws) = SubSeq(fresh, ov + 1, Len(fresh))
  BY Zenon DEF Candidates
<1>2. F = {}
  <2>1. DOMAIN <<>> = {}
    OBVIOUS
  <2>2. words = {}
    BY <2>1
  <2>. HIDE DEF words
  <2>. QED
    BY <2>2
<1>. HIDE DEF F
<1>3. F \in SUBSET Placed /\ IsFiniteSet(F) /\ Apart(F) /\ Cardinality(F) = 0
  BY <1>2, FS_EmptySet DEF Apart
<1>4. Len(fresh) = 0 /\ fresh \in Seq(Segment)
  BY <1>3, SortedRanks, SortedProperties
<1>. HIDE DEF fresh
<1>5. ov \in 0..Len(fresh)
  BY <1>4, StateFields, OverlapBounds
<1>. HIDE DEF ov
<1>6. ov = 0
  BY <1>4, <1>5
<1>7. SubSeq(fresh, 0 + 1, 0) = <<>>
  BY SubSeqEmpty
<1>. QED
  BY <1>1, <1>4, <1>6, <1>7

(* The final hypothesis, be it the first or not.                             *)
LEMMA FinalizedDone ==
  ASSUME NEW s \in States, s.start <= s.total, Timely(s, s.total), NEW h,
         Good(s, h) \/ Done(s, s.total), NEW phrases \in Hypotheses(s.start, s.total)
  PROVE  Done(Finalized(s, phrases, SamplesToMs(s.start)), s.total)
<1>. DEFINE ws == SamplesToMs(s.start)
            C == Candidates(s, phrases, ws)
            m == Len(s.committed)
<1>1. C \in Seq(Segment)
  BY WindowWords
<1>2. PICK t \in States :
        /\ t = Finalized(s, phrases, ws)
        /\ t.unstable = <<>>
        /\ Extends(s.committed, t.committed)
        /\ Gains(s.committed, t.committed, C, Len(C))
        /\ RaisesTo(s, t, C, Len(C))
  BY FinalizedProperties
<1>3. s.total \in Nat /\ s.start \in Nat /\ m \in Nat
      /\ s.committed \in Seq(Commit) /\ t.committed \in Seq(Commit)
  BY StateFields
<1>4. CASE Right(s.committed)
  <2>1. Spelling(s)
    BY <1>4 DEF Good, Positioned, Done
  <2>2. Continues(m, C) /\ Covers(m, C, s.total)
    <3>1. CASE Reaches(s.start, m)
      BY <1>3, <2>1, <3>1, CandidatesFollow
    <3>2. CASE ~Reaches(s.start, m)
      <4>1. Done(s, s.total)
        BY <1>4, <3>2 DEF Good, Positioned
      <4>2. Covers(m, <<>>, s.total)
        BY <1>4, <4>1 DEF Done
      <4>3. phrases = <<>>
        <5>1. \A i \in 1..Len(Spoken) : WordEnd(i) <= s.total => i <= m
          <6>1. 1..Len(<<>>) = {}
            OBVIOUS
          <6>. QED
            BY <4>2, <6>1 DEF Covers
        <5>. QED
          BY <1>3, <3>2, <5>1, NoWordLeft, NothingHeard
      <4>4. C = <<>>
        BY <4>3, NothingLeft
      <4>5. Len(<<>>) = 0
        OBVIOUS
      <4>. HIDE DEF C, m
      <4>6. Continues(m, C)
        BY <4>4, <4>5 DEF Continues
      <4>. QED
        BY <4>2, <4>4, <4>6
    <3>. QED
      BY <3>1, <3>2
  <2>3. \A n \in 1..Len(s.committed) : s.committed[n].word = n
    BY <2>1 DEF Spelling
  <2>. DEFINE l == Len(C)
  <2>4. l \in Nat
    BY <1>1
  <2>. HIDE DEF l
  <2>5. l \in 0..l
    BY <2>4
  <2>6. Len(C) \in 0..Len(C)
    BY <2>5 DEF l
  <2>. HIDE DEF C
  <2>7. Once(t.committed)
    BY <1>1, <1>2, <1>3, <2>2, <2>3, <2>6, OnceGains
  <2>8. Takes(s, C, Len(C), t)
    <3>1. Len(t.unstable) = 0
      BY <1>2
    <3>2. Len(t.unstable) = Len(C) - Len(C)
      BY <2>4, <3>1 DEF l
    <3>. QED
      BY <1>2, <3>1, <3>2 DEF Takes
  <2>9. ASSUME Right(t.committed)
        PROVE  Spelling(t) /\ Covers(Len(t.committed), <<>>, s.total)
    <3>1. /\ Spelling(t)
          /\ \A g \in Nat : Covers(Len(s.committed), C, g)
                => Covers(Len(t.committed), t.unstable, g)
      BY <1>1, <2>1, <2>2, <2>6, <2>8, <2>9, SpellingGains
    <3>. QED
      BY <1>2, <1>3, <2>2, <3>1
  <2>. QED
    BY <1>2, <2>7, <2>9 DEF Done
<1>5. CASE ~Right(s.committed)
  <2>1. Once(t.committed) /\ ~Right(t.committed)
    BY <1>2, <1>3, <1>5, OnceKept DEF Good, Done
  <2>. QED
    BY <1>2, <2>1 DEF Done
<1>. QED
  BY <1>4, <1>5

(* Where nothing is unstable nothing is committed for the bound.             *)
LEMMA PreparedDone ==
  ASSUME NEW s \in States, s.start <= s.total, NEW h, Done(s, h)
  PROVE  Done(Prepared(s), h)
<1>1. CASE s.start = s.total
  BY <1>1 DEF Prepared
<1>2. CASE s.start # s.total
  <2>1. ForceCommitForBound(s) = s
    <3>1. Len(s.unstable) = 0
      BY DEF Done
    <3>2. Reached(s.unstable, SamplesToMs(Monus(s.total, MsToSamples(MaxWindowMs))) + OverlapMs)
            \in 0..Len(s.unstable)
      <4>1. /\ s.unstable \in Seq(Segment)
            /\ SamplesToMs(Monus(s.total, MsToSamples(MaxWindowMs))) + OverlapMs \in Nat
        <5>1. s.total \in Nat /\ MsToSamples(MaxWindowMs) \in Nat
          BY StateFields, Constants, InSamples
        <5>2. Monus(s.total, MsToSamples(MaxWindowMs)) \in Nat
          BY <5>1 DEF Monus
        <5>3. SamplesToMs(Monus(s.total, MsToSamples(MaxWindowMs))) \in Nat
          BY <5>2, InMs
        <5>. QED
          BY <5>3, Constants, StateFields
      <4>. QED
        BY <4>1, ReachedProperties
    <3>. DEFINE reached == Reached(s.unstable,
                    SamplesToMs(Monus(s.total, MsToSamples(MaxWindowMs))) + OverlapMs)
                count == AtMost(AtLeast(reached, 1), Len(s.unstable))
    <3>3. count = 0
      <4>. HIDE DEF reached
      <4>1. reached = 0
        BY <3>1, <3>2 DEF reached
      <4>. QED
        BY <3>1, <4>1 DEF AtMost, AtLeast
    <3>. HIDE DEF reached
    <3>4. count = 0 => ForceCommitForBound(s) = s
      BY Zenon DEF ForceCommitForBound, reached
    <3>. QED
      BY <3>3, <3>4
  <2>2. PICK a \in Nat : TrimAudio(s, FALSE) = [s EXCEPT !.start = a]
    BY TrimProperties
  <2>3. Prepared(s) = [s EXCEPT !.start = a]
    BY <1>2, <2>1, <2>2 DEF Prepared
  <2>4. PICK t : t = [s EXCEPT !.start = a]
    OBVIOUS
  <2>5. t.committed = s.committed /\ t.unstable = s.unstable /\ t.through = s.through
    BY <2>4 DEF States
  <2>. QED
    BY <2>3, <2>4, <2>5 DEF Done, Spelling
<1>. QED
  BY <1>1, <1>2

-----------------------------------------------------------------------------
(* The inductive invariant *)

Inductive == TypeOK /\ InTime /\ Counted /\ InOrder /\ Audible /\ Shown /\ AgreedAsSpoken

(* Words added as Extends says keep what was agreed on as it was spoken.     *)
LEMMA SpokenKept ==
  ASSUME NEW c \in Seq(Commit), NEW d \in Seq(Commit), Extends(c, d),
         \A i \in 1..Len(c) : AsSpoken(c[i])
  PROVE  \A i \in 1..Len(d) : AsSpoken(d[i])
<1>1. Len(c) \in Nat /\ Len(d) \in Nat
  OBVIOUS
<1>. QED
  BY <1>1 DEF Extends

(* Extending what is committed keeps what agreed words say.                  *)
LEMMA AgreedKept ==
  ASSUME TypeOK, AgreedAsSpoken, NEW t \in States, state' = t,
         Extends(state.committed, t.committed)
  PROVE  AgreedAsSpoken'
<1>1. state.committed \in Seq(Commit) /\ t.committed \in Seq(Commit)
  <2>1. PICK s \in States : s = state
    BY DEF TypeOK
  <2>. QED
    BY <2>1, StateFields
<1>2. ASSUME TrailingGuardWords > 0
      PROVE  \A i \in 1..Len(t.committed) : AsSpoken(t.committed[i])
  <2>1. \A i \in 1..Len(state.committed) : AsSpoken(state.committed[i])
    BY <1>2 DEF AgreedAsSpoken, AsSpoken
  <2>. QED
    BY <1>1, <2>1, SpokenKept
<1>. QED
  BY <1>2 DEF AgreedAsSpoken, AsSpoken

(* Two parts of the invariant, said of a state.                              *)
LEMMA InductiveHearable == InOrder /\ Audible <=> Hearable(state)
BY DEF InOrder, Audible, Hearable, Ordered

(* Committing more and trimming keeps what the last event showed.            *)
LEMMA ShownKept ==
  ASSUME NEW s \in States, state = s, Shown, event \in Events \cup {NoEvent},
         NEW t \in States, Extends(s.committed, t.committed),
         t.revision = s.revision, t.last = s.last, t.finalized = s.finalized
  PROVE  IF event = NoEvent
         THEN t.revision = 0 /\ t.last = NoText /\ ~t.finalized
         ELSE /\ t.revision # 0
              /\ t.last = event.text
              /\ t.finalized <=> event.kind = "final"
              /\ IsPrefix(event.stable, Texts(t.committed))
<1>1. CASE event = NoEvent
  BY <1>1 DEF Shown
<1>2. CASE event # NoEvent
  <2>1. event \in Events
    BY <1>2
  <2>2. event.stable \in Seq(Text)
    BY <2>1 DEF Events
  <2>3. s.committed \in Seq(Commit) /\ t.committed \in Seq(Commit)
    BY StateFields
  <2>4. IsPrefix(event.stable, Texts(s.committed))
    BY <1>2 DEF Shown
  <2>5. IsPrefix(event.stable, Texts(t.committed))
    BY <2>2, <2>3, <2>4, StablePrefix
  <2>. QED
    BY <1>2, <2>5 DEF Shown
<1>. QED
  BY <1>1, <1>2

(* What a push leaves for the decoder.                                       *)
LEMMA PushStep ==
  ASSUME Inductive, NEW n \in Chunks, ~state.finalized
  PROVE  \E t \in States :
           /\ t = Prepared(Pushed(n))
           /\ t.total = state.total + n /\ t.new = state.new + n
           /\ t.revision = state.revision /\ t.last = state.last
           /\ t.finalized = state.finalized
           /\ t.start <= t.total /\ t.total - t.start <= MsToSamples(MaxWindowMs)
           /\ Len(t.hypotheses) <= AgreementUpdates
           /\ Extends(state.committed, t.committed)
           /\ Timely(t, heard) /\ Hearable(t)
           /\ blind \cap {"failed", "outrun"} = {} /\ "outrun" \notin Outruns(n)
                => t.start <= heard
<1>. DEFINE p == Pushed(n)
            w == MsToSamples(MaxWindowMs)
            d == MsToSamples(DecodeIntervalMs)
            low == Monus(p.total, w)
<1>1. /\ state \in States /\ state.total \in Nat /\ state.start \in Nat /\ state.new \in Nat
      /\ state.start <= state.total /\ heard \in 0..state.total
      /\ Len(state.hypotheses) <= AgreementUpdates
      /\ n \in Nat
  BY StateFields, WhisperAssumption DEF Inductive, TypeOK, WhisperAssumption
<1>2. /\ p \in States /\ p.total = state.total + n /\ p.new = state.new + n
      /\ p.revision = state.revision /\ p.last = state.last
      /\ p.finalized = state.finalized /\ p.start = state.start
      /\ p.hypotheses = state.hypotheses /\ p.committed = state.committed
      /\ p.unstable = state.unstable /\ p.through = state.through
  <2>. DEFINE a == state.total + n
              b == state.new + n
  <2>1. a \in Nat /\ b \in Nat
    BY <1>1
  <2>2. p = [state EXCEPT !.total = a, !.new = b]
    BY DEF Pushed
  <2>. HIDE DEF a, b, p
  <2>3. /\ p \in States /\ p.total = a /\ p.new = b
        /\ p.revision = state.revision /\ p.last = state.last
        /\ p.finalized = state.finalized /\ p.start = state.start
        /\ p.hypotheses = state.hypotheses /\ p.committed = state.committed
        /\ p.unstable = state.unstable /\ p.through = state.through
    BY <1>1, <2>1, <2>2 DEF States
  <2>. QED
    BY <2>3 DEF a, b
<1>. HIDE DEF p
<1>3. p.start <= p.total
  BY <1>1, <1>2
<1>4. PICK t \in States : t = Prepared(p) /\ Advances(p, t)
  BY <1>2, <1>3, PreparedProperties
<1>5. /\ Same(p, t) /\ t.start <= t.total /\ t.total - t.start <= w
      /\ Len(t.hypotheses) <= Len(p.hypotheses)
      /\ Extends(p.committed, t.committed)
      /\ \A h \in Nat : Timely(p, h) => Timely(t, h)
      /\ \A h \in Nat : Timely(p, h) /\ p.start <= h /\ low <= h => t.start <= h
      /\ Hearable(p) => Hearable(t)
  BY <1>4, Zenon DEF Advances
<1>6. Timely(p, heard) /\ Hearable(p)
  <2>1. Hearable(state)
    BY InductiveHearable DEF Inductive
  <2>2. Hearable(p)
    BY <1>2, <2>1 DEF Hearable
  <2>3. Timely(p, heard)
    BY <1>2 DEF Inductive, InTime, Timely
  <2>. QED
    BY <2>2, <2>3
<1>7. ASSUME blind \cap {"failed", "outrun"} = {}, "outrun" \notin Outruns(n)
      PROVE  t.start <= heard
  <2>. DEFINE over == w - d + 1
  <2>1. /\ state.new = state.total - heard /\ state.new < d /\ state.start <= heard
    BY <1>7 DEF Inductive, Counted
  <2>2. w \in Nat /\ d \in Nat
    BY Constants, InSamples
  <2>3. ~(n > over)
    <3>. DEFINE Over(r) == n > IF r = "outrun" THEN over ELSE over - MsToSamples(OverlapMs + 2)
    <3>1. Outruns(n) = {r \in {"outrun", "hurried"} : Over(r)}
      BY Zenon DEF Outruns
    <3>. HIDE DEF Over
    <3>2. ~Over("outrun")
      BY <1>7, <3>1
    <3>. QED
      BY <3>2 DEF Over
  <2>. HIDE DEF w, d
  <2>4. low <= heard
    BY <1>1, <1>2, <2>1, <2>2, <2>3 DEF Monus
  <2>. QED
    BY <1>1, <1>2, <1>5, <1>6, <2>1, <2>4
<1>8. Len(t.hypotheses) <= AgreementUpdates
  <2>. DEFINE a == Len(t.hypotheses)
              b == Len(p.hypotheses)
  <2>1. t.hypotheses \in Seq(Seq(Segment)) /\ p.hypotheses \in Seq(Seq(Segment))
    BY <1>2, StateFields
  <2>2. a \in Nat /\ b \in Nat /\ AgreementUpdates \in Nat
    BY <2>1, Constants
  <2>3. a <= b /\ b <= AgreementUpdates
    BY <1>1, <1>2, <1>5
  <2>. HIDE DEF a, b
  <2>4. a <= AgreementUpdates
    BY <2>2, <2>3
  <2>. QED
    BY <2>4 DEF a
<1>9. Timely(t, heard) /\ Hearable(t)
  BY <1>1, <1>5, <1>6
<1>. QED
  BY <1>2, <1>4, <1>5, <1>7, <1>8, <1>9 DEF Same, p

(* A step that changes no event keeps the invariant if its state is typed    *)
(* and its counters are right.                                               *)
LEMMA QuietStep ==
  ASSUME Inductive, NEW t \in States, state' = t,
         t.total <= MaxSamples, t.start <= t.total,
         t.total - t.start <= MsToSamples(MaxWindowMs), t.new <= t.total,
         Len(t.hypotheses) <= AgreementUpdates,
         Extends(state.committed, t.committed), Timely(t, heard), Hearable(t),
         t.revision = state.revision, t.last = state.last, t.finalized = state.finalized,
         heard \in 0..t.total, UNCHANGED <<event, heard>>,
         lost' \in BOOLEAN, blind' \subseteq {"failed", "outrun", "hurried"},
         Counted'
  PROVE  Inductive'
<1>1. PICK s \in States : s = state
  BY DEF Inductive, TypeOK
<1>2. IF event = NoEvent
      THEN t.revision = 0 /\ t.last = NoText /\ ~t.finalized
      ELSE /\ t.revision # 0
           /\ t.last = event.text
           /\ t.finalized <=> event.kind = "final"
           /\ IsPrefix(event.stable, Texts(t.committed))
  BY <1>1, ShownKept DEF Inductive, TypeOK
<1>3. Shown'
  BY <1>2 DEF Shown
<1>4. TypeOK'
  BY DEF Inductive, TypeOK
<1>5. InTime'
  BY DEF InTime, Timely
<1>6. InOrder' /\ Audible'
  BY DEF InOrder, Audible, Hearable, Ordered
<1>7. AgreedAsSpoken'
  BY AgreedKept DEF Inductive
<1>. QED
  BY <1>3, <1>4, <1>5, <1>6, <1>7 DEF Inductive

(* A step of which the listener hears nothing.                               *)
LEMMA Unheard ==
  ASSUME event' = event, state'.revision = state.revision
  PROVE  UNCHANGED Live!vars
BY DEF Live!vars

(* What a push may excuse.                                                   *)
LEMMA Outran ==
  ASSUME NEW n
  PROVE  Outruns(n) \subseteq {"outrun", "hurried"}
BY DEF Outruns

(* Each action keeps the invariant and is a step of a LiveTranscript.        *)
LEMMA BufferStep ==
  ASSUME Inductive, NEW n \in Chunks, Buffer(n)
  PROVE  Inductive' /\ UNCHANGED Live!vars
<1>. DEFINE d == MsToSamples(DecodeIntervalMs)
<1>1. ~state.finalized /\ state.total + n <= MaxSamples
      /\ lost' = (lost \/ Prepared(Pushed(n)).start > heard)
      /\ state' = Prepared(Pushed(n)) /\ blind' = blind \cup Outruns(n)
      /\ UNCHANGED <<event, heard>>
      /\ ~DecodesNow(Pushed(n), FALSE)
  BY DEF Buffer, PushAudio
<1>2. PICK t \in States :
           /\ t = Prepared(Pushed(n))
           /\ t.total = state.total + n /\ t.new = state.new + n
           /\ t.revision = state.revision /\ t.last = state.last
           /\ t.finalized = state.finalized
           /\ t.start <= t.total /\ t.total - t.start <= MsToSamples(MaxWindowMs)
           /\ Len(t.hypotheses) <= AgreementUpdates
           /\ Extends(state.committed, t.committed)
           /\ Timely(t, heard) /\ Hearable(t)
           /\ blind \cap {"failed", "outrun"} = {} /\ "outrun" \notin Outruns(n)
                => t.start <= heard
  BY <1>1, PushStep
<1>3. /\ state.total \in Nat /\ state.new \in Nat /\ state.new <= state.total
      /\ state.start \in Nat /\ state.start <= state.total
      /\ heard \in 0..state.total /\ n \in Nat /\ n > 0
      /\ lost \in BOOLEAN /\ blind \subseteq {"failed", "outrun", "hurried"}
  BY StateFields, WhisperAssumption DEF Inductive, TypeOK, WhisperAssumption
<1>4. t.start \in Nat /\ t.total \in Nat /\ d \in Nat
  BY StateFields, Constants, InSamples
<1>5. state.new + n < d
  <2>1. /\ Pushed(n).start = state.start /\ Pushed(n).total = state.total + n
        /\ Pushed(n).new = state.new + n
    <3>1. state \in States
      BY DEF Inductive, TypeOK
    <3>. QED
      BY <3>1 DEF Pushed, States
  <2>2. ~(state.start # state.total + n /\ state.new + n >= d)
    BY <1>1, <2>1 DEF DecodesNow
  <2>. HIDE DEF d
  <2>. QED
    BY <1>3, <1>4, <2>2
<1>6. Counted'
  <2>1. SUFFICES ASSUME blind' \cap {"failed", "outrun"} = {}
                 PROVE  ~lost' /\ t.new = t.total - heard /\ t.new < d /\ t.start <= heard
    BY <1>1, <1>2 DEF Counted
  <2>2. blind \cap {"failed", "outrun"} = {} /\ "outrun" \notin Outruns(n)
    BY <1>1, <2>1
  <2>3. ~lost /\ state.new = state.total - heard
    BY <2>2 DEF Inductive, Counted
  <2>4. t.start <= heard
    BY <1>2, <2>2
  <2>5. ~lost'
    BY <1>1, <1>2, <1>3, <1>4, <2>3, <2>4
  <2>6. t.new = t.total - heard /\ t.new < d
    BY <1>2, <1>3, <1>5, <2>3
  <2>. QED
    BY <2>4, <2>5, <2>6
<1>7. /\ t.total <= MaxSamples /\ t.new <= t.total /\ heard \in 0..t.total
      /\ lost' \in BOOLEAN
  BY <1>1, <1>2, <1>3
<1>8. blind' \subseteq {"failed", "outrun", "hurried"}
  BY <1>1, <1>3, Outran
<1>9. Inductive'
  BY <1>1, <1>2, <1>6, <1>7, <1>8, QuietStep
<1>10. UNCHANGED Live!vars
  BY <1>1, <1>2, Unheard
<1>. QED
  BY <1>9, <1>10

(* A decode that fails: its samples no longer count as new.                  *)
LEMMA DecodeFailsStep ==
  ASSUME Inductive, NEW n \in Chunks, DecodeFails(n)
  PROVE  Inductive' /\ UNCHANGED Live!vars
<1>1. ~state.finalized /\ state.total + n <= MaxSamples
      /\ lost' = (lost \/ Prepared(Pushed(n)).start > heard)
      /\ state' = [Prepared(Pushed(n)) EXCEPT !.new = 0]
      /\ blind' = blind \cup {"failed"} \cup Outruns(n)
      /\ UNCHANGED <<event, heard>>
  BY DEF DecodeFails, PushAudio
<1>2. PICK t \in States :
           /\ t = Prepared(Pushed(n))
           /\ t.total = state.total + n /\ t.new = state.new + n
           /\ t.revision = state.revision /\ t.last = state.last
           /\ t.finalized = state.finalized
           /\ t.start <= t.total /\ t.total - t.start <= MsToSamples(MaxWindowMs)
           /\ Len(t.hypotheses) <= AgreementUpdates
           /\ Extends(state.committed, t.committed)
           /\ Timely(t, heard) /\ Hearable(t)
           /\ blind \cap {"failed", "outrun"} = {} /\ "outrun" \notin Outruns(n)
                => t.start <= heard
  BY <1>1, PushStep
<1>3. PICK r \in States : r = [t EXCEPT !.new = 0]
  BY DEF States
<1>4. /\ r.total = t.total /\ r.start = t.start /\ r.new = 0 /\ r.hypotheses = t.hypotheses
      /\ r.committed = t.committed /\ r.unstable = t.unstable /\ r.through = t.through
      /\ r.revision = t.revision /\ r.last = t.last /\ r.finalized = t.finalized
  BY <1>3 DEF States
<1>5. Timely(r, heard) /\ Hearable(r)
  BY <1>2, <1>4 DEF Timely, Hearable
<1>6. /\ r.total <= MaxSamples /\ r.new <= r.total /\ heard \in 0..r.total
      /\ lost' \in BOOLEAN /\ blind' \subseteq {"failed", "outrun", "hurried"}
  <2>1. /\ state.total \in Nat /\ heard \in 0..state.total /\ n \in Nat
        /\ lost \in BOOLEAN /\ blind \subseteq {"failed", "outrun", "hurried"}
    BY StateFields, WhisperAssumption DEF Inductive, TypeOK, WhisperAssumption
  <2>2. /\ r.total <= MaxSamples /\ r.new <= r.total /\ heard \in 0..r.total
        /\ lost' \in BOOLEAN
    BY <1>1, <1>2, <1>4, <2>1
  <2>3. blind' \subseteq {"failed", "outrun", "hurried"}
    BY <1>1, <2>1, Outran
  <2>. QED
    BY <2>2, <2>3
<1>7. Counted'
  BY <1>1 DEF Counted
<1>8. state' = r
  BY <1>1, <1>2, <1>3
<1>9. Inductive'
  BY <1>1, <1>2, <1>4, <1>5, <1>6, <1>7, <1>8, QuietStep
<1>10. UNCHANGED Live!vars
  BY <1>1, <1>2, <1>4, <1>8, Unheard
<1>. QED
  BY <1>9, <1>10

(* The same for the final decode, which no push precedes.                    *)
LEMMA FinalPrepared ==
  ASSUME Inductive
  PROVE  \E t \in States :
           /\ t = [Prepared(state) EXCEPT !.new = 0]
           /\ t.total = state.total /\ t.new = 0
           /\ t.revision = state.revision /\ t.last = state.last
           /\ t.finalized = state.finalized
           /\ t.start <= t.total /\ t.total - t.start <= MsToSamples(MaxWindowMs)
           /\ Len(t.hypotheses) <= AgreementUpdates
           /\ Extends(state.committed, t.committed)
           /\ Timely(t, heard) /\ Hearable(t)
<1>1. /\ state \in States /\ state.start <= state.total /\ heard \in Nat
      /\ Len(state.hypotheses) <= AgreementUpdates
  BY StateFields DEF Inductive, TypeOK
<1>2. PICK p \in States : p = Prepared(state) /\ Advances(state, p)
  BY <1>1, PreparedProperties
<1>3. /\ Same(state, p) /\ p.start <= p.total /\ p.total - p.start <= MsToSamples(MaxWindowMs)
      /\ Len(p.hypotheses) <= Len(state.hypotheses)
      /\ Extends(state.committed, p.committed)
      /\ \A h \in Nat : Timely(state, h) => Timely(p, h)
      /\ Hearable(state) => Hearable(p)
  BY <1>2, Zenon DEF Advances
<1>4. Timely(state, heard) /\ Hearable(state)
  BY InductiveHearable DEF Inductive, InTime, Timely
<1>5. Timely(p, heard) /\ Hearable(p)
  BY <1>1, <1>3, <1>4
<1>6. PICK t \in States : t = [p EXCEPT !.new = 0]
  BY DEF States
<1>7. /\ t.total = p.total /\ t.start = p.start /\ t.new = 0 /\ t.hypotheses = p.hypotheses
      /\ t.committed = p.committed /\ t.unstable = p.unstable /\ t.through = p.through
      /\ t.revision = p.revision /\ t.last = p.last /\ t.finalized = p.finalized
  BY <1>6 DEF States
<1>8. Timely(t, heard) /\ Hearable(t)
  BY <1>5, <1>7 DEF Timely, Hearable
<1>9. Len(t.hypotheses) <= AgreementUpdates
  <2>. DEFINE a == Len(p.hypotheses)
              b == Len(state.hypotheses)
  <2>1. p.hypotheses \in Seq(Seq(Segment)) /\ state.hypotheses \in Seq(Seq(Segment))
    BY <1>1, StateFields
  <2>2. a \in Nat /\ b \in Nat /\ AgreementUpdates \in Nat
    BY <2>1, Constants
  <2>3. a <= b /\ b <= AgreementUpdates
    BY <1>1, <1>3
  <2>. HIDE DEF a, b
  <2>4. a <= AgreementUpdates
    BY <2>2, <2>3
  <2>. QED
    BY <1>7, <2>4 DEF a
<1>. QED
  BY <1>2, <1>3, <1>6, <1>7, <1>8, <1>9 DEF Same

(* A final decode that fails.                                                *)
LEMMA FinalizeFailsStep ==
  ASSUME Inductive, FinalizeFails
  PROVE  Inductive' /\ UNCHANGED Live!vars
<1>1. /\ state' = [Prepared(state) EXCEPT !.new = 0]
      /\ blind' = blind \cup {"failed"}
      /\ UNCHANGED <<event, heard, lost>>
  BY DEF FinalizeFails
<1>2. PICK t \in States :
           /\ t = [Prepared(state) EXCEPT !.new = 0]
           /\ t.total = state.total /\ t.new = 0
           /\ t.revision = state.revision /\ t.last = state.last
           /\ t.finalized = state.finalized
           /\ t.start <= t.total /\ t.total - t.start <= MsToSamples(MaxWindowMs)
           /\ Len(t.hypotheses) <= AgreementUpdates
           /\ Extends(state.committed, t.committed)
           /\ Timely(t, heard) /\ Hearable(t)
  BY FinalPrepared
<1>3. /\ state.total \in Nat /\ state.total <= MaxSamples /\ heard \in 0..state.total
      /\ lost \in BOOLEAN /\ blind \subseteq {"failed", "outrun", "hurried"}
  BY StateFields DEF Inductive, TypeOK
<1>4. Counted'
  BY <1>1 DEF Counted
<1>5. /\ t.total <= MaxSamples /\ t.new <= t.total /\ heard \in 0..t.total
      /\ lost' \in BOOLEAN /\ blind' \subseteq {"failed", "outrun", "hurried"}
      /\ UNCHANGED <<event, heard>> /\ state' = t
  BY <1>1, <1>2, <1>3
<1>6. Inductive'
  BY <1>2, <1>4, <1>5, QuietStep
<1>7. UNCHANGED Live!vars
  BY <1>2, <1>5, Unheard
<1>. QED
  BY <1>6, <1>7

(* No text has a special token in it.                                        *)
LEMMA NoTextIsNone ==
  NoText \notin Seq(Text)
<1>1. SUFFICES ASSUME NoText \in Seq(Text) PROVE FALSE
  OBVIOUS
<1>2. Len(NoText) = 1 /\ NoText[1] = 0
  BY DEF NoText
<1>3. 0 \in Text
  BY <1>1, <1>2
<1>. QED
  BY <1>3 DEF Text

(* The number and the text of what is shown.                                 *)
LEMMA RevisedProperties ==
  ASSUME NEW s \in States
  PROVE  \E t \in States :
           /\ t = Revised(s)
           /\ t.total = s.total /\ t.start = s.start /\ t.new = s.new
           /\ t.hypotheses = s.hypotheses /\ t.committed = s.committed
           /\ t.unstable = s.unstable /\ t.through = s.through
           /\ t.finalized = s.finalized
           /\ t.last = FullText(s)
           /\ t.revision # 0
           /\ t.revision = IF s.last # FullText(s) \/ s.revision = 0
                           THEN s.revision + 1 ELSE s.revision
<1>. DEFINE text == FullText(s)
            changed == s.last # text \/ s.revision = 0
            number == IF changed THEN s.revision + 1 ELSE s.revision
            t == [s EXCEPT !.revision = number, !.last = text]
<1>1. text \in Seq(Int) /\ s.revision \in Nat
  BY TextProperties, StateFields
<1>2. Revised(s) = t
  BY Zenon DEF Revised
<1>. HIDE DEF text
<1>3. number \in Nat /\ number # 0
  BY <1>1
<1>. HIDE DEF number
<1>4. /\ t \in States /\ t.total = s.total /\ t.start = s.start /\ t.new = s.new
      /\ t.hypotheses = s.hypotheses /\ t.committed = s.committed
      /\ t.unstable = s.unstable /\ t.through = s.through
      /\ t.finalized = s.finalized /\ t.last = text /\ t.revision = number
  BY <1>1, <1>3 DEF States
<1>. HIDE DEF t
<1>. QED
  BY <1>2, <1>3, <1>4 DEF text, number

(* An event tells the state it is made from.                                 *)
LEMMA MakeEventProperties ==
  ASSUME NEW s \in States, NEW kind \in {"partial", "correction", "final"}
  PROVE  /\ MakeEvent(s, kind) \in Events
         /\ MakeEvent(s, kind) # NoEvent
         /\ MakeEvent(s, kind).kind = kind
         /\ MakeEvent(s, kind).text = FullText(s)
         /\ MakeEvent(s, kind).stable = Texts(s.committed)
         /\ MakeEvent(s, kind).replaces =
              IF s.last # FullText(s) /\ s.revision > 0 /\ kind \in {"correction", "final"}
              THEN s.revision ELSE 0
<1>. DEFINE text == FullText(s)
            stable == Texts(s.committed)
            number == Revised(s).revision
            replaces == IF s.last # text /\ s.revision > 0 /\ kind \in {"correction", "final"}
                        THEN s.revision ELSE 0
            e == [kind |-> kind, revision |-> number, replaces |-> replaces,
                  text |-> text, stable |-> stable]
<1>1. text \in Seq(Text) /\ stable \in Seq(Text) /\ s.revision \in Nat
  BY TextProperties, StateFields
<1>2. number \in Nat
  <2>1. PICK t \in States : t = Revised(s)
    BY RevisedProperties
  <2>. QED
    BY <2>1, StateFields
<1>3. replaces \in Nat
  BY <1>1
<1>4. MakeEvent(s, kind) = e
  BY Zenon DEF MakeEvent
<1>. HIDE DEF text, stable, number, replaces
<1>5. e \in Events
  BY <1>1, <1>2, <1>3 DEF Events
<1>6. e.kind = kind /\ e.text = text /\ e.stable = stable /\ e.replaces = replaces
  OBVIOUS
<1>7. e # NoEvent
  <2>1. e.kind # NoEvent.kind
    BY <1>6 DEF NoEvent
  <2>. QED
    BY <2>1
<1>. HIDE DEF e
<1>. QED
  BY <1>4, <1>5, <1>6, <1>7 DEF text, stable, replaces

(* A text that is new to the listener is shown under the next number.        *)
LEMMA ShowsNew ==
  ASSUME Inductive, NEW s \in States,
         Extends(state.committed, s.committed),
         s.revision = state.revision, s.last = state.last, s.last # FullText(s),
         NEW kind \in {"partial", "correction", "final"},
         state.finalized => kind = "final",
         kind = "partial" => s.last = NoText,
         kind = "final" => s.unstable = <<>>,
         event' = MakeEvent(s, kind), state'.revision = Revised(s).revision
  PROVE  Live!Show
<1>. DEFINE text == FullText(s)
            stable == Texts(s.committed)
            old == IF event = NoEvent THEN <<>> ELSE event.text
            was == IF event = NoEvent THEN <<>> ELSE event.stable
<1>1. /\ event' # NoEvent /\ event'.kind = kind /\ event'.text = text /\ event'.stable = stable
      /\ event'.replaces = IF s.last # text /\ s.revision > 0 /\ kind \in {"correction", "final"}
                           THEN s.revision ELSE 0
  BY MakeEventProperties
<1>2. /\ text \in Seq(Text) /\ stable \in Seq(Text) /\ IsPrefix(stable, text)
      /\ s.unstable = <<>> => stable = text
  BY TextProperties
<1>3. s.revision \in Nat /\ state'.revision = s.revision + 1
  <2>1. PICK t \in States :
          /\ t = Revised(s)
          /\ t.revision = IF s.last # FullText(s) \/ s.revision = 0
                          THEN s.revision + 1 ELSE s.revision
    BY RevisedProperties
  <2>. QED
    BY <2>1, StateFields
<1>4. event.kind = "final" => kind = "final"
  BY DEF Inductive, Shown, NoEvent
<1>5. IsPrefix(was, stable)
  <2>1. CASE event = NoEvent
    <3>1. SubSeq(stable, 1, 0) = <<>> /\ SubSeq(<<>>, 1, 0) = <<>> /\ Len(<<>>) = 0
          /\ Len(stable) \in Nat
      BY <1>2, SubSeqEmpty
    <3>. HIDE DEF stable
    <3>2. IsPrefix(<<>>, stable)
      BY <3>1 DEF IsPrefix
    <3>. QED
      BY <2>1, <3>2
  <2>2. CASE event # NoEvent
    <3>1. event.stable \in Seq(Text)
      BY <2>2 DEF Inductive, TypeOK, Events
    <3>2. PICK r \in States : r = state
      BY DEF Inductive, TypeOK
    <3>3. r.committed \in Seq(Commit) /\ s.committed \in Seq(Commit)
      BY StateFields
    <3>4. IsPrefix(event.stable, Texts(r.committed)) /\ Extends(r.committed, s.committed)
      BY <2>2, <3>2 DEF Inductive, Shown
    <3>5. IsPrefix(event.stable, stable)
      BY <3>1, <3>3, <3>4, StablePrefix
    <3>. QED
      BY <2>2, <3>5
  <2>. QED
    BY <2>1, <2>2
<1>6. state.revision = 0 \/ text # old
  BY DEF Inductive, Shown
<1>7. event'.replaces = state.revision
  <2>1. CASE state.revision = 0
    BY <1>1, <2>1
  <2>2. CASE state.revision # 0
    <3>1. event # NoEvent /\ state.last = event.text
      BY <2>2 DEF Inductive, Shown
    <3>2. event.text \in Seq(Text)
      BY <3>1 DEF Inductive, TypeOK, Events
    <3>3. s.last # NoText
      BY <3>1, <3>2, NoTextIsNone
    <3>4. kind \in {"correction", "final"}
      BY <3>3
    <3>5. s.revision > 0
      BY <1>3, <2>2
    <3>. QED
      BY <1>1, <3>4, <3>5
  <2>. QED
    BY <2>1, <2>2
<1>. HIDE DEF text, stable
<1>8. /\ (IF event' = NoEvent THEN <<>> ELSE event'.text) = text
      /\ (IF event' = NoEvent THEN <<>> ELSE event'.stable) = stable
      /\ (IF event' = NoEvent THEN 0 ELSE event'.replaces) = state.revision
  BY <1>1, <1>7
<1>9. Live!Settles
  <2>1. \A a, b : Live!IsPrefix(a, b) <=> IsPrefix(a, b)
    BY Zenon DEF Live!IsPrefix, IsPrefix
  <2>. HIDE DEF was
  <2>2. Live!IsPrefix(was, stable) /\ Live!IsPrefix(stable, text)
    BY <1>2, <1>5, <2>1
  <2>. QED
    BY <1>8, <2>2 DEF Live!Settles, was
<1>10. /\ (event'.kind = "final") \in BOOLEAN /\ (event'.kind = "final" => stable = text)
       /\ event.kind = "final" => event'.kind = "final"
  BY <1>1, <1>2, <1>4
<1>. QED
  BY <1>2, <1>3, <1>4, <1>6, <1>8, <1>9, <1>10 DEF Live!Show

(* A decode: its hypothesis is announced if it changes the text.             *)
LEMMA DecodeStep ==
  ASSUME Inductive, NEW n \in Chunks, Decode(n)
  PROVE  Inductive' /\ (Live!Next \/ UNCHANGED Live!vars)
<1>. DEFINE asked == [Prepared(Pushed(n)) EXCEPT !.new = 0]
            said(phrases) == Applied(asked, phrases, SamplesToMs(asked.start))
            kind(a) == IF a.last = NoText THEN "partial" ELSE "correction"
<1>1. ~state.finalized /\ state.total + n <= MaxSamples
      /\ lost' = (lost \/ Prepared(Pushed(n)).start > heard)
      /\ blind' = blind \cup Outruns(n)
      /\ heard' = asked.total
      /\ \E phrases \in Hypotheses(asked.start, asked.total) :
           IF Announces(said(phrases))
           THEN /\ event' = MakeEvent(said(phrases), kind(said(phrases)))
                /\ state' = Revised(said(phrases))
           ELSE state' = said(phrases) /\ event' = event
  BY DEF Decode, PushAudio
<1>. HIDE DEF said, kind
<1>2. PICK t \in States :
           /\ t = Prepared(Pushed(n))
           /\ t.total = state.total + n /\ t.new = state.new + n
           /\ t.revision = state.revision /\ t.last = state.last
           /\ t.finalized = state.finalized
           /\ t.start <= t.total /\ t.total - t.start <= MsToSamples(MaxWindowMs)
           /\ Len(t.hypotheses) <= AgreementUpdates
           /\ Extends(state.committed, t.committed)
           /\ Timely(t, heard) /\ Hearable(t)
           /\ blind \cap {"failed", "outrun"} = {} /\ "outrun" \notin Outruns(n)
                => t.start <= heard
  BY <1>1, PushStep
<1>3. PICK r \in States : r = [t EXCEPT !.new = 0]
  BY DEF States
<1>4. /\ r.total = t.total /\ r.start = t.start /\ r.new = 0 /\ r.hypotheses = t.hypotheses
      /\ r.committed = t.committed /\ r.unstable = t.unstable /\ r.through = t.through
      /\ r.revision = t.revision /\ r.last = t.last /\ r.finalized = t.finalized
  BY <1>3 DEF States
<1>5. asked = r
  BY <1>2, <1>3
<1>6. /\ heard \in Nat /\ r.total \in Nat /\ heard <= r.total /\ n \in Nat
      /\ lost \in BOOLEAN /\ blind \subseteq {"failed", "outrun", "hurried"}
      /\ event \in Events \cup {NoEvent} /\ state.total \in Nat /\ r.total <= MaxSamples
  <2>1. /\ heard \in 0..state.total /\ state.total \in Nat /\ n \in Nat
        /\ lost \in BOOLEAN /\ blind \subseteq {"failed", "outrun", "hurried"}
        /\ event \in Events \cup {NoEvent}
    BY StateFields, WhisperAssumption DEF Inductive, TypeOK, WhisperAssumption
  <2>. QED
    BY <1>1, <1>2, <1>4, <2>1
<1>7. Timely(r, r.total)
  <2>1. Timely(r, heard)
    BY <1>2, <1>4 DEF Timely
  <2>2. SamplesToMs(heard) \in Nat /\ SamplesToMs(r.total) \in Nat
        /\ SamplesToMs(heard) <= SamplesToMs(r.total)
    BY <1>6, InMs, UnitsMonotone
  <2>3. r.through \in Nat /\ r.unstable \in Seq(Segment)
    BY StateFields
  <2>4. \A i \in 1..Len(r.unstable) : r.unstable[i] \in Segment
    BY <2>3
  <2>5. \A i \in 1..Len(r.unstable) : r.unstable[i].end \in Nat
    BY <2>4 DEF Segment
  <2>. QED
    BY <2>1, <2>2, <2>3, <2>5 DEF Timely
<1>8. PICK phrases \in Hypotheses(r.start, r.total) :
        IF Announces(said(phrases))
        THEN /\ event' = MakeEvent(said(phrases), kind(said(phrases)))
             /\ state' = Revised(said(phrases))
        ELSE state' = said(phrases) /\ event' = event
  BY <1>1, <1>5
<1>9. PICK a \in States :
           /\ a = Applied(r, phrases, SamplesToMs(r.start))
           /\ Same(r, a)
           /\ a.start <= a.total /\ a.total - a.start <= MsToSamples(MaxWindowMs)
           /\ Len(a.hypotheses) <= AgreementUpdates
           /\ Extends(r.committed, a.committed)
           /\ Timely(a, r.total) /\ Hearable(a)
  BY <1>2, <1>4, <1>7, AppliedProperties
<1>10. said(phrases) = a
  BY <1>5, <1>9 DEF said
<1>11. /\ a.total = r.total /\ a.new = 0 /\ a.revision = state.revision
       /\ a.last = state.last /\ a.finalized = FALSE /\ a.finalized = state.finalized
       /\ Extends(state.committed, a.committed)
  <2>1. a.finalized = state.finalized
    BY <1>2, <1>4, <1>9 DEF Same
  <2>2. a.finalized = FALSE
    BY <1>1, <2>1, StateFields
  <2>3. Extends(state.committed, a.committed)
    <3>1. state \in States
      BY DEF Inductive, TypeOK
    <3>2. state.committed \in Seq(Commit) /\ r.committed \in Seq(Commit) /\ a.committed \in Seq(Commit)
      BY <3>1, StateFields
    <3>3. Extends(state.committed, r.committed) /\ Extends(r.committed, a.committed)
      BY <1>2, <1>4, <1>9
    <3>. QED
      BY <3>2, <3>3, ExtendsTransitive
  <2>. QED
    BY <1>2, <1>4, <1>9, <2>1, <2>2, <2>3 DEF Same
<1>12. PICK v \in States :
         /\ v = Revised(a)
         /\ v.total = a.total /\ v.start = a.start /\ v.new = a.new
         /\ v.hypotheses = a.hypotheses /\ v.committed = a.committed
         /\ v.unstable = a.unstable /\ v.through = a.through
         /\ v.finalized = a.finalized
         /\ v.last = FullText(a)
         /\ v.revision # 0
  BY RevisedProperties
<1>13. PICK u \in States :
         /\ state' = u
         /\ u.total = a.total /\ u.start = a.start /\ u.new = a.new
         /\ u.hypotheses = a.hypotheses /\ u.committed = a.committed
         /\ u.unstable = a.unstable /\ u.through = a.through
         /\ u.finalized = a.finalized
  <2>1. CASE Announces(a)
    <3>1. state' = v
      BY <1>8, <1>10, <1>12, <2>1
    <3>. QED
      BY <1>12, <3>1
  <2>2. CASE ~Announces(a)
    BY <1>8, <1>10, <2>2
  <2>. QED
    BY <2>1, <2>2
<1>14. TypeOK'
  <2>1. event' \in Events \cup {NoEvent}
    <3>1. CASE Announces(a)
      <4>1. kind(a) \in {"partial", "correction", "final"}
        BY DEF kind
      <4>2. MakeEvent(a, kind(a)) \in Events
        BY <4>1, MakeEventProperties
      <4>. QED
        BY <1>8, <1>10, <3>1, <4>2
    <3>2. CASE ~Announces(a)
      BY <1>6, <1>8, <1>10, <3>2
    <3>. QED
      BY <3>1, <3>2
  <2>2. lost' \in BOOLEAN
    BY <1>1, <1>6
  <2>3. blind' \subseteq {"failed", "outrun", "hurried"}
    BY <1>1, <1>6, Outran
  <2>4. heard' = u.total
    BY <1>1, <1>5, <1>11, <1>13
  <2>5. u \in States /\ u.total <= MaxSamples /\ u.start <= u.total
        /\ u.total - u.start <= MsToSamples(MaxWindowMs) /\ u.new <= u.total
        /\ Len(u.hypotheses) <= AgreementUpdates
        /\ u.total \in 0..u.total
    BY <1>6, <1>9, <1>11, <1>13
  <2>. QED
    BY <1>13, <2>1, <2>2, <2>3, <2>4, <2>5 DEF TypeOK
<1>15. InTime' /\ InOrder' /\ Audible'
  <2>1. Timely(u, r.total) /\ Hearable(u)
    BY <1>9, <1>13 DEF Timely, Hearable
  <2>2. heard' = r.total
    BY <1>1, <1>5
  <2>. QED
    BY <1>13, <2>1, <2>2 DEF InTime, InOrder, Audible, Timely, Hearable, Ordered
<1>16. Counted'
  <2>. DEFINE d == MsToSamples(DecodeIntervalMs)
  <2>1. SUFFICES ASSUME blind' \cap {"failed", "outrun"} = {}
                 PROVE  ~lost' /\ u.new = u.total - heard' /\ u.new < d /\ u.start <= heard'
    BY <1>13 DEF Counted
  <2>2. blind \cap {"failed", "outrun"} = {} /\ "outrun" \notin Outruns(n)
    BY <1>1, <2>1
  <2>3. ~lost
    BY <2>2 DEF Inductive, Counted
  <2>4. t.start <= heard /\ t.start \in Nat
    BY <1>2, <2>2, StateFields
  <2>5. ~lost'
    BY <1>1, <1>2, <1>6, <2>3, <2>4
  <2>6. heard' = u.total /\ u.total \in Nat /\ u.new = 0 /\ u.start <= u.total
    BY <1>1, <1>5, <1>6, <1>9, <1>11, <1>13
  <2>7. 0 < d
    BY Constants
  <2>. HIDE DEF d
  <2>. QED
    BY <2>5, <2>6, <2>7
<1>a. AgreedAsSpoken'
  <2>1. Extends(state.committed, u.committed)
    BY <1>11, <1>13
  <2>. QED
    BY <1>13, <2>1, AgreedKept DEF Inductive
<1>17. CASE ~Announces(a)
  <2>1. u = a /\ event' = event
    BY <1>8, <1>10, <1>13, <1>17
  <2>2. PICK s \in States : s = state
    BY DEF Inductive, TypeOK
  <2>3. /\ state = s /\ Shown /\ event \in Events \cup {NoEvent}
        /\ Extends(s.committed, u.committed)
        /\ u.revision = s.revision /\ u.last = s.last /\ u.finalized = s.finalized
    BY <1>6, <1>11, <2>1, <2>2 DEF Inductive
  <2>4. IF event = NoEvent
        THEN u.revision = 0 /\ u.last = NoText /\ ~u.finalized
        ELSE /\ u.revision # 0
             /\ u.last = event.text
             /\ u.finalized <=> event.kind = "final"
             /\ IsPrefix(event.stable, Texts(u.committed))
    BY <2>3, ShownKept
  <2>5. Shown'
    BY <1>13, <2>1, <2>4 DEF Shown
  <2>6. UNCHANGED Live!vars
    BY <1>11, <1>13, <2>1, Unheard
  <2>. QED
    BY <1>14, <1>15, <1>16, <1>a, <2>5, <2>6 DEF Inductive
<1>18. CASE Announces(a)
  <2>1. event' = MakeEvent(a, kind(a)) /\ state' = Revised(a) /\ a.last # FullText(a)
    BY <1>8, <1>10, <1>18 DEF Announces
  <2>2. kind(a) \in {"partial", "correction", "final"} /\ kind(a) # "final"
        /\ (kind(a) = "partial" => a.last = NoText)
    BY DEF kind
  <2>3. Live!Show
    BY <1>1, <1>11, <2>1, <2>2, ShowsNew
  <2>4. /\ event' # NoEvent /\ event'.kind = kind(a)
        /\ event'.text = FullText(a) /\ event'.stable = Texts(a.committed)
    BY <2>1, <2>2, MakeEventProperties
  <2>5. IsPrefix(Texts(a.committed), Texts(a.committed))
    BY DEF IsPrefix, Texts
  <2>6. u = v
    BY <1>12, <1>13, <2>1
  <2>7. Shown'
    BY <1>11, <1>12, <1>13, <2>2, <2>4, <2>5, <2>6 DEF Shown
  <2>. QED
    BY <1>14, <1>15, <1>16, <1>a, <2>3, <2>7 DEF Inductive, Live!Next
<1>. QED
  BY <1>17, <1>18

(* A final event of the text that is shown confirms it, again or for the     *)
(* first time.                                                               *)
LEMMA Confirms ==
  ASSUME Inductive, NEW s \in States,
         Extends(state.committed, s.committed),
         s.revision = state.revision, s.last = state.last, s.last = FullText(s),
         s.unstable = <<>>,
         event' = MakeEvent(s, "final"), state'.revision = Revised(s).revision
  PROVE  Live!Confirm
<1>. DEFINE text == FullText(s)
<1>1. /\ event' # NoEvent /\ event'.kind = "final" /\ event'.text = text
      /\ event'.stable = Texts(s.committed) /\ event'.replaces = 0
  BY MakeEventProperties
<1>2. text \in Seq(Text) /\ Texts(s.committed) = text
  BY TextProperties
<1>3. state.revision # 0 /\ event # NoEvent /\ event.text = text
  <2>1. event # NoEvent
    <3>1. event = NoEvent => text = NoText
      BY DEF Inductive, Shown
    <3>. QED
      BY <1>2, <3>1, NoTextIsNone
  <2>. QED
    BY <2>1 DEF Inductive, Shown
<1>4. state'.revision = state.revision
  <2>1. PICK t \in States :
          /\ t = Revised(s)
          /\ t.revision = IF s.last # FullText(s) \/ s.revision = 0
                          THEN s.revision + 1 ELSE s.revision
    BY RevisedProperties
  <2>. QED
    BY <1>3, <2>1
<1>6. IsPrefix(event.stable, text)
  <2>1. event.stable \in Seq(Text)
    BY <1>3 DEF Inductive, TypeOK, Events
  <2>2. PICK r \in States : r = state
    BY DEF Inductive, TypeOK
  <2>3. r.committed \in Seq(Commit) /\ s.committed \in Seq(Commit)
    BY StateFields
  <2>4. IsPrefix(event.stable, Texts(r.committed)) /\ Extends(r.committed, s.committed)
    BY <1>3, <2>2 DEF Inductive, Shown
  <2>. QED
    BY <1>2, <2>1, <2>3, <2>4, StablePrefix
<1>. HIDE DEF text
<1>7. /\ (IF event' = NoEvent THEN <<>> ELSE event'.text) = text
      /\ (IF event' = NoEvent THEN <<>> ELSE event'.stable) = text
      /\ (IF event' = NoEvent THEN 0 ELSE event'.replaces) = 0
      /\ (IF event = NoEvent THEN <<>> ELSE event.text) = text
  BY <1>1, <1>2, <1>3
<1>8. Live!IsPrefix(IF event = NoEvent THEN <<>> ELSE event.stable, text)
  BY <1>3, <1>6, Zenon DEF Live!IsPrefix, IsPrefix
<1>. QED
  BY <1>1, <1>3, <1>4, <1>7, <1>8 DEF Live!Confirm

(* The final decode.                                                         *)
LEMMA FinalizeStep ==
  ASSUME Inductive, Finalize
  PROVE  Inductive' /\ (Live!Next \/ UNCHANGED Live!vars)
<1>. DEFINE asked == [Prepared(state) EXCEPT !.new = 0]
            said(phrases) == Finalized(asked, phrases, SamplesToMs(asked.start))
<1>1. /\ \E phrases \in Hypotheses(asked.start, asked.total) :
           /\ event' = MakeEvent(said(phrases), "final")
           /\ state' = TrimAudio(Revised(said(phrases)), TRUE)
      /\ heard' = asked.total
      /\ lost' = lost /\ blind' = blind
  BY DEF Finalize
<1>. HIDE DEF said
<1>2. PICK r \in States :
           /\ r = asked
           /\ r.total = state.total /\ r.new = 0
           /\ r.revision = state.revision /\ r.last = state.last
           /\ r.finalized = state.finalized
           /\ r.start <= r.total /\ r.total - r.start <= MsToSamples(MaxWindowMs)
           /\ Len(r.hypotheses) <= AgreementUpdates
           /\ Extends(state.committed, r.committed)
           /\ Timely(r, heard) /\ Hearable(r)
  BY FinalPrepared
<1>3. PICK phrases \in Hypotheses(r.start, r.total) :
           /\ event' = MakeEvent(said(phrases), "final")
           /\ state' = TrimAudio(Revised(said(phrases)), TRUE)
  BY <1>1, <1>2
<1>4. /\ state.total \in Nat /\ heard \in Nat /\ heard <= r.total /\ r.total <= MaxSamples
      /\ state \in States /\ r.total \in Nat
      /\ lost \in BOOLEAN /\ blind \subseteq {"failed", "outrun", "hurried"}
  BY <1>2, StateFields DEF Inductive, TypeOK
<1>5. Timely(r, r.total)
  <2>1. Timely(r, heard)
    BY <1>2
  <2>2. SamplesToMs(heard) \in Nat /\ SamplesToMs(r.total) \in Nat
        /\ SamplesToMs(heard) <= SamplesToMs(r.total)
    BY <1>4, InMs, UnitsMonotone
  <2>3. r.through \in Nat /\ r.unstable \in Seq(Segment)
    BY StateFields
  <2>4. \A i \in 1..Len(r.unstable) : r.unstable[i] \in Segment
    BY <2>3
  <2>5. \A i \in 1..Len(r.unstable) : r.unstable[i].end \in Nat
    BY <2>4 DEF Segment
  <2>. QED
    BY <2>1, <2>2, <2>3, <2>5 DEF Timely
<1>6. PICK f \in States :
           /\ f = Finalized(r, phrases, SamplesToMs(r.start))
           /\ f.total = r.total /\ f.new = r.new /\ f.revision = r.revision
           /\ f.last = r.last /\ f.finalized = TRUE /\ f.start = r.start
           /\ f.hypotheses = <<>> /\ f.unstable = <<>>
           /\ Extends(r.committed, f.committed)
           /\ f.through <= SamplesToMs(r.total)
  BY <1>2, <1>5, FinalizedProperties
<1>7. said(phrases) = f
  BY <1>2, <1>6 DEF said
<1>8. Extends(state.committed, f.committed)
  <2>1. state.committed \in Seq(Commit) /\ r.committed \in Seq(Commit) /\ f.committed \in Seq(Commit)
    BY <1>4, StateFields
  <2>. QED
    BY <1>2, <1>6, <2>1, ExtendsTransitive
<1>9. PICK v \in States :
         /\ v = Revised(f)
         /\ v.total = f.total /\ v.start = f.start /\ v.new = f.new
         /\ v.hypotheses = f.hypotheses /\ v.committed = f.committed
         /\ v.unstable = f.unstable /\ v.through = f.through
         /\ v.finalized = f.finalized
         /\ v.last = FullText(f)
         /\ v.revision # 0
  BY RevisedProperties
<1>10. PICK g \in Nat :
         /\ TrimAudio(v, TRUE) = [v EXCEPT !.start = g]
         /\ [v EXCEPT !.start = g] \in States
         /\ g <= v.total /\ v.total - g <= MsToSamples(MaxWindowMs)
  <2>1. v.start <= v.total
    BY <1>2, <1>6, <1>9
  <2>. QED
    BY <2>1, TrimProperties
<1>11. PICK u \in States : u = [v EXCEPT !.start = g]
  BY <1>10
<1>12. /\ u.total = v.total /\ u.start = g /\ u.new = v.new /\ u.hypotheses = v.hypotheses
       /\ u.committed = v.committed /\ u.unstable = v.unstable /\ u.through = v.through
       /\ u.revision = v.revision /\ u.last = v.last /\ u.finalized = v.finalized
  BY <1>11 DEF States
<1>13. state' = u /\ event' = MakeEvent(f, "final")
  BY <1>3, <1>7, <1>9, <1>10, <1>11
<1>14. /\ event' # NoEvent /\ event' \in Events /\ event'.kind = "final"
       /\ event'.text = FullText(f) /\ event'.stable = Texts(f.committed)
  BY <1>13, MakeEventProperties
<1>15. Len(u.hypotheses) = 0 /\ Len(u.unstable) = 0 /\ AgreementUpdates \in Nat
  <2>1. Len(<<>>) = 0
    OBVIOUS
  <2>2. u.hypotheses = <<>> /\ u.unstable = <<>>
    BY <1>6, <1>9, <1>12
  <2>. QED
    BY <2>1, <2>2, Constants
<1>16. TypeOK'
  <2>1. /\ u.total <= MaxSamples /\ u.start <= u.total
        /\ u.total - u.start <= MsToSamples(MaxWindowMs) /\ u.new <= u.total
        /\ Len(u.hypotheses) <= AgreementUpdates /\ heard' \in 0..u.total
    BY <1>1, <1>2, <1>4, <1>6, <1>9, <1>10, <1>12, <1>15
  <2>2. lost' \in BOOLEAN /\ blind' \subseteq {"failed", "outrun", "hurried"}
    BY <1>1, <1>4
  <2>. QED
    BY <1>13, <1>14, <2>1, <2>2 DEF TypeOK
<1>17. InTime' /\ InOrder' /\ Audible'
  <2>1. heard' = u.total /\ u.through <= SamplesToMs(u.total)
    BY <1>1, <1>2, <1>6, <1>9, <1>12
  <2>. QED
    BY <1>13, <1>15, <2>1 DEF InTime, InOrder, Audible
<1>18. Counted'
  <2>1. SUFFICES ASSUME blind' \cap {"failed", "outrun"} = {}
                 PROVE  /\ ~lost' /\ u.new = u.total - heard'
                        /\ u.new < MsToSamples(DecodeIntervalMs) /\ u.finalized
    BY <1>13 DEF Counted
  <2>2. ~lost
    BY <1>1, <2>1 DEF Inductive, Counted
  <2>3. u.new = 0 /\ u.total = heard' /\ u.total \in Nat /\ u.finalized
    BY <1>1, <1>2, <1>4, <1>6, <1>9, <1>12
  <2>4. 0 < MsToSamples(DecodeIntervalMs)
    BY Constants
  <2>. QED
    BY <1>1, <2>2, <2>3, <2>4
<1>19. Shown'
  <2>1. IsPrefix(Texts(f.committed), Texts(f.committed))
    BY DEF IsPrefix, Texts
  <2>. QED
    BY <1>6, <1>9, <1>12, <1>13, <1>14, <2>1 DEF Shown
<1>20. Live!Next
  <2>1. /\ f.revision = state.revision /\ f.last = state.last /\ f.unstable = <<>>
        /\ state'.revision = Revised(f).revision
    BY <1>2, <1>6, <1>9, <1>12, <1>13
  <2>2. CASE f.last = FullText(f)
    BY <1>1, <1>8, <1>13, <2>1, <2>2, Confirms DEF Live!Next
  <2>3. CASE f.last # FullText(f)
    BY <1>1, <1>8, <1>13, <2>1, <2>3, ShowsNew DEF Live!Next
  <2>. QED
    BY <2>2, <2>3
<1>21. AgreedAsSpoken'
  <2>1. Extends(state.committed, u.committed)
    BY <1>8, <1>9, <1>12
  <2>. QED
    BY <1>13, <2>1, AgreedKept DEF Inductive
<1>. QED
  BY <1>16, <1>17, <1>18, <1>19, <1>20, <1>21 DEF Inductive

-----------------------------------------------------------------------------
(* The invariant behind InPlace *)

(* As long as nothing was missed, what is committed is in its place.         *)
InStep ==
  blind = {} =>
    IF state.finalized THEN heard = state.total /\ Done(state, heard) ELSE Good(state, heard)

(* A push that leaves the overlap.                                           *)
LEMMA PushGood ==
  ASSUME Inductive, InStep, NEW n \in Chunks, ~state.finalized, blind = {}, Outruns(n) = {}
  PROVE  Good(Prepared(Pushed(n)), heard)
<1>. DEFINE p == Pushed(n)
            w == MsToSamples(MaxWindowMs)
            d == MsToSamples(DecodeIntervalMs)
            o == MsToSamples(OverlapMs)
            v == MsToSamples(OverlapMs + 2)
<1>1. /\ state \in States /\ state.total \in Nat /\ state.start \in Nat /\ state.new \in Nat
      /\ state.start <= state.total /\ heard \in 0..state.total
      /\ n \in Nat
  BY StateFields, WhisperAssumption DEF Inductive, TypeOK, WhisperAssumption
<1>2. /\ p \in States /\ p.total = state.total + n
      /\ p.start = state.start /\ p.committed = state.committed
      /\ p.unstable = state.unstable /\ p.through = state.through
  <2>. DEFINE a == state.total + n
              b == state.new + n
  <2>1. a \in Nat /\ b \in Nat
    BY <1>1
  <2>2. p = [state EXCEPT !.total = a, !.new = b]
    BY DEF Pushed
  <2>. HIDE DEF a, b, p
  <2>3. /\ p \in States /\ p.total = a
        /\ p.start = state.start /\ p.committed = state.committed
        /\ p.unstable = state.unstable /\ p.through = state.through
    BY <1>1, <2>1, <2>2 DEF States
  <2>. QED
    BY <2>3 DEF a
<1>. HIDE DEF p
<1>3. Good(p, heard)
  <2>1. Good(state, heard)
    BY DEF InStep
  <2>. QED
    BY <1>2, <2>1, GoodKept
<1>4. Ordered(p.unstable)
  BY <1>2, InductiveHearable DEF Inductive, Hearable
<1>5. state.new = state.total - heard /\ state.new < d
  BY DEF Inductive, Counted
<1>6. ~(n > (w - d + 1) - v)
  <2>. DEFINE free == w - d + 1
              Over(r) == n > IF r = "outrun" THEN free ELSE free - v
  <2>1. Outruns(n) = {r \in {"outrun", "hurried"} : Over(r)}
    BY Zenon DEF Outruns
  <2>. HIDE DEF Over
  <2>2. ~Over("hurried")
    BY <2>1
  <2>. QED
    BY <2>2 DEF Over
<1>7. w \in Nat /\ d \in Nat /\ o \in Nat /\ v \in Nat /\ o <= v
  <2>1. OverlapMs + 2 \in Nat /\ OverlapMs \in Nat /\ OverlapMs <= OverlapMs + 2
    BY Constants
  <2>2. o <= v
    BY <2>1, UnitsMonotone
  <2>. QED
    BY <2>1, <2>2, Constants, InSamples
<1>8. p.total + o <= heard + w
  <2>. HIDE DEF o, w, d, v
  <2>. QED
    BY <1>1, <1>2, <1>5, <1>6, <1>7
<1>9. Room(p, heard)
  BY <1>8 DEF Room
<1>10. p.start <= p.total
  BY <1>1, <1>2
<1>11. Good(Prepared(p), heard)
  BY <1>1, <1>2, <1>3, <1>4, <1>9, <1>10, PreparedGood
<1>. QED
  BY <1>11 DEF p

(* Each action keeps words in their places: a push without a decode ...      *)
LEMMA BufferInStep ==
  ASSUME Inductive, InStep, NEW n \in Chunks, Buffer(n)
  PROVE  InStep'
<1>1. SUFFICES ASSUME blind' = {} PROVE Good(state', heard') /\ ~state'.finalized
  BY DEF InStep
<1>2. ~state.finalized /\ state' = Prepared(Pushed(n)) /\ blind' = blind \cup Outruns(n)
      /\ heard' = heard
  BY DEF Buffer, PushAudio
<1>3. blind = {} /\ Outruns(n) = {}
  BY <1>1, <1>2
<1>4. \E t \in States : t = Prepared(Pushed(n)) /\ t.finalized = state.finalized
  BY <1>2, PushStep
<1>. QED
  BY <1>2, <1>3, <1>4, PushGood

(* ... one with a decode ...                                                 *)
LEMMA DecodeInStep ==
  ASSUME Inductive, InStep, NEW n \in Chunks, Decode(n)
  PROVE  InStep'
<1>. DEFINE asked == [Prepared(Pushed(n)) EXCEPT !.new = 0]
            said(phrases) == Applied(asked, phrases, SamplesToMs(asked.start))
<1>1. SUFFICES ASSUME blind' = {} PROVE Good(state', heard') /\ ~state'.finalized
  BY DEF InStep
<1>2. /\ ~state.finalized
      /\ blind' = blind \cup Outruns(n)
      /\ heard' = asked.total
      /\ \E phrases \in Hypotheses(asked.start, asked.total) :
           IF Announces(said(phrases))
           THEN state' = Revised(said(phrases))
           ELSE state' = said(phrases)
  BY DEF Decode, PushAudio
<1>. HIDE DEF said
<1>3. blind = {} /\ Outruns(n) = {}
  BY <1>1, <1>2
<1>4. PICK t \in States :
           /\ t = Prepared(Pushed(n))
           /\ t.total = state.total + n
           /\ t.start <= t.total
           /\ t.finalized = state.finalized
           /\ Timely(t, heard)
  BY <1>2, PushStep
<1>5. Good(t, heard)
  BY <1>2, <1>3, <1>4, PushGood
<1>6. PICK r \in States : r = [t EXCEPT !.new = 0]
  BY DEF States
<1>7. /\ r.total = t.total /\ r.start = t.start
      /\ r.committed = t.committed /\ r.unstable = t.unstable /\ r.through = t.through
      /\ r.finalized = t.finalized
  BY <1>6 DEF States
<1>8. asked = r
  BY <1>4, <1>6
<1>9. Good(r, heard)
  BY <1>5, <1>7, GoodKept
<1>10. heard \in Nat /\ r.total \in Nat /\ heard <= r.total
  <2>1. /\ heard \in 0..state.total /\ state.total \in Nat /\ n \in Nat
    BY StateFields, WhisperAssumption DEF Inductive, TypeOK, WhisperAssumption
  <2>. QED
    BY <1>4, <1>7, <2>1
<1>11. Timely(r, r.total)
  <2>1. Timely(r, heard)
    BY <1>4, <1>7 DEF Timely
  <2>. QED
    BY <1>10, <2>1, TimelyLater
<1>12. PICK phrases \in Hypotheses(r.start, r.total) :
        IF Announces(said(phrases))
        THEN state' = Revised(said(phrases))
        ELSE state' = said(phrases)
  BY <1>2, <1>8
<1>13. PICK a \in States :
         a = Applied(r, phrases, SamplesToMs(r.start)) /\ a.finalized = r.finalized
  BY <1>4, <1>7, <1>11, AppliedProperties DEF Same
<1>14. said(phrases) = a
  BY <1>8, <1>13 DEF said
<1>15. Good(a, r.total)
  BY <1>4, <1>7, <1>9, <1>11, <1>13, AppliedGood
<1>16. PICK v \in States :
         /\ v = Revised(a)
         /\ v.start = a.start /\ v.committed = a.committed
         /\ v.unstable = a.unstable /\ v.through = a.through
         /\ v.finalized = a.finalized
  BY RevisedProperties
<1>17. Good(v, r.total)
  BY <1>15, <1>16, GoodKept
<1>18. state' = v \/ state' = a
  BY <1>12, <1>14, <1>16
<1>19. heard' = r.total
  BY <1>2, <1>8
<1>20. ~state'.finalized
  BY <1>2, <1>4, <1>7, <1>13, <1>16, <1>18
<1>. QED
  BY <1>15, <1>17, <1>18, <1>19, <1>20

(* ... and a final decode, the first or another.                             *)
LEMMA FinalizeInStep ==
  ASSUME Inductive, InStep, Finalize
  PROVE  InStep'
<1>. DEFINE asked == [Prepared(state) EXCEPT !.new = 0]
            said(phrases) == Finalized(asked, phrases, SamplesToMs(asked.start))
<1>1. /\ \E phrases \in Hypotheses(asked.start, asked.total) :
           state' = TrimAudio(Revised(said(phrases)), TRUE)
      /\ heard' = asked.total
      /\ blind' = blind
  BY DEF Finalize
<1>. HIDE DEF said
<1>2. SUFFICES ASSUME blind = {}
               PROVE  state'.finalized /\ heard' = state'.total /\ Done(state', heard')
  BY <1>1 DEF InStep, Done, Spelling
<1>3. /\ state \in States /\ state.start <= state.total /\ heard \in Nat
      /\ state.total \in Nat /\ state.start \in Nat /\ heard <= state.total
      /\ state.total - state.start <= MsToSamples(MaxWindowMs)
      /\ MsToSamples(MaxWindowMs) \in Nat
  <2>1. MsToSamples(MaxWindowMs) \in Nat
    BY Constants, InSamples
  <2>. QED
    BY <2>1, StateFields DEF Inductive, TypeOK
<1>4. Good(Prepared(state), heard) \/ (heard = state.total /\ Done(Prepared(state), heard))
  <2>1. CASE ~state.finalized
    <3>1. Good(state, heard)
      BY <1>2, <2>1 DEF InStep
    <3>2. Ordered(state.unstable)
      BY InductiveHearable DEF Inductive, Hearable
    <3>3. Room(state, heard)
      BY <1>3 DEF Room, Monus
    <3>. QED
      BY <1>3, <3>1, <3>2, <3>3, PreparedGood
  <2>2. CASE state.finalized
    <3>1. heard = state.total /\ Done(state, heard)
      BY <1>2, <2>2 DEF InStep
    <3>. QED
      BY <1>3, <3>1, PreparedDone
  <2>. QED
    BY <2>1, <2>2
<1>5. PICK r \in States :
           /\ r = asked
           /\ r.total = state.total
           /\ r.start <= r.total
           /\ Timely(r, heard)
  BY FinalPrepared
<1>6. Good(r, heard) \/ Done(r, r.total)
  <2>1. PICK p \in States : p = Prepared(state)
    BY <1>3, PreparedProperties
  <2>2. r = [p EXCEPT !.new = 0]
    BY <1>5, <2>1
  <2>3. /\ r.start = p.start /\ r.committed = p.committed
        /\ r.unstable = p.unstable /\ r.through = p.through
    BY <2>2 DEF States
  <2>4. Done(p, heard) => Done(r, heard)
    BY <2>3 DEF Done, Spelling
  <2>5. Good(p, heard) => Good(r, heard)
    BY <2>3, GoodKept
  <2>. QED
    BY <1>4, <1>5, <2>1, <2>4, <2>5
<1>7. Timely(r, r.total)
  <2>1. r.total \in Nat /\ heard <= r.total
    BY <1>3, <1>5
  <2>. QED
    BY <1>3, <1>5, <2>1, TimelyLater
<1>8. PICK phrases \in Hypotheses(r.start, r.total) :
        state' = TrimAudio(Revised(said(phrases)), TRUE)
  BY <1>1, <1>5
<1>9. PICK f \in States :
        /\ f = Finalized(r, phrases, SamplesToMs(r.start))
        /\ f.total = r.total /\ f.finalized = TRUE /\ f.start = r.start
  BY <1>5, <1>7, FinalizedProperties
<1>10. said(phrases) = f
  BY <1>5, <1>9 DEF said
<1>11. Done(f, r.total)
  BY <1>5, <1>6, <1>7, <1>9, FinalizedDone
<1>12. PICK v \in States :
         /\ v = Revised(f)
         /\ v.total = f.total /\ v.start = f.start
         /\ v.committed = f.committed /\ v.unstable = f.unstable
         /\ v.through = f.through /\ v.finalized = f.finalized
  BY RevisedProperties
<1>13. PICK g \in Nat : TrimAudio(v, TRUE) = [v EXCEPT !.start = g]
  <2>1. v.start <= v.total
    BY <1>5, <1>9, <1>12
  <2>. QED
    BY <2>1, TrimProperties
<1>14. PICK u : u = [v EXCEPT !.start = g]
  OBVIOUS
<1>15. /\ u.committed = f.committed /\ u.unstable = f.unstable /\ u.through = f.through
       /\ u.finalized = TRUE /\ u.total = r.total
  BY <1>9, <1>12, <1>14 DEF States
<1>16. state' = u
  BY <1>8, <1>10, <1>12, <1>13, <1>14
<1>17. Done(u, r.total)
  BY <1>11, <1>15 DEF Done, Spelling
<1>18. heard' = r.total
  BY <1>1, <1>5
<1>. QED
  BY <1>15, <1>16, <1>17, <1>18

(* Initially nothing is committed.                                           *)
LEMMA InitInStep == Init => InStep
<1>1. SUFFICES ASSUME Init PROVE Good(state, heard) /\ ~state.finalized
  BY DEF InStep
<1>2. state = NewState /\ heard = 0
  BY <1>1 DEF Init
<1>. DEFINE none == <<>>
<1>3. Len(none) = 0 /\ none = <<>>
  OBVIOUS
<1>. HIDE DEF none
<1>4. /\ state.committed = none /\ state.unstable = none /\ state.through = 0
      /\ state.start = 0 /\ ~state.finalized
  BY <1>2, <1>3 DEF NewState
<1>5. Once(none) /\ Continues(0, none)
  BY <1>3 DEF Once, Continues
<1>6. Spelling(state)
  <2>1. Ms(0) = 0 /\ 0 <= Len(Spoken)
    BY MsFacts, SpokenLength
  <2>. QED
    BY <1>3, <1>4, <2>1 DEF Spelling
<1>7. Covers(0, none, 0)
  <2>1. ASSUME NEW i \in 1..Len(Spoken), WordEnd(i) <= 0 PROVE FALSE
    <3>1. /\ i \in Nat /\ i - 1 \in Nat /\ Ms(i - 1) \in Nat /\ Ms(i) \in Nat
          /\ Ms(i) = Ms(i - 1) + WordMs /\ WordEnd(i) = MsToSamples(Ms(i))
      BY WordMsTimes
    <3>2. WordMs \in Nat /\ WordMs >= 2
      BY MsFacts
    <3>3. Ms(i) <= SamplesToMs(0) /\ SamplesToMs(0) = 0
      <4>1. MsToSamples(Ms(i)) <= 0
        BY <2>1, <3>1
      <4>2. Ms(i) <= SamplesToMs(0)
        BY <3>1, <4>1, Compares
      <4>3. SamplesToMs(MsToSamples(0)) = 0
        BY ThereAndBack
      <4>4. MsToSamples(0) = 0
        BY WhisperAssumption DEF MsToSamples, WhisperAssumption
      <4>. QED
        BY <4>2, <4>3, <4>4
    <3>. QED
      BY <3>1, <3>2, <3>3
  <2>. QED
    BY <2>1 DEF Covers
<1>8. Reaches(0, 0)
  <2>1. MsToSamples(1) = SamplesPerMs /\ SamplesPerMs > 0 /\ Ms(0) + 1 = 1
    BY MsFacts, WhisperAssumption DEF MsToSamples, WhisperAssumption
  <2>. QED
    BY <2>1 DEF Reaches
<1>9. Positioned(state, heard)
  BY <1>2, <1>3, <1>4, <1>5, <1>6, <1>7, <1>8 DEF Positioned
<1>. QED
  BY <1>4, <1>5, <1>9 DEF Good

(* Every step keeps words in their places.                                   *)
LEMMA NextInStep ==
  Inductive /\ InStep /\ [Next]_vars => InStep'
<1>1. SUFFICES ASSUME Inductive, InStep, [Next]_vars PROVE InStep'
  OBVIOUS
<1>2. ASSUME NEW n \in Chunks, Buffer(n) PROVE InStep'
  BY <1>1, <1>2, BufferInStep
<1>3. ASSUME NEW n \in Chunks, Decode(n) PROVE InStep'
  BY <1>1, <1>3, DecodeInStep
<1>4. ASSUME NEW n \in Chunks, DecodeFails(n) PROVE InStep'
  BY <1>4 DEF DecodeFails, InStep
<1>5. CASE Finalize
  BY <1>1, <1>5, FinalizeInStep
<1>6. CASE FinalizeFails
  BY <1>6 DEF FinalizeFails, InStep
<1>7. CASE UNCHANGED vars
  BY <1>1, <1>7 DEF vars, InStep, Done, Good, Positioned, Spelling
<1>. QED
  BY <1>1, <1>2, <1>3, <1>4, <1>5, <1>6, <1>7 DEF Next

-----------------------------------------------------------------------------
(* The theorems *)

(* The invariant holds initially ...                                         *)
LEMMA InitInductive == Init => Inductive /\ Live!Init
<1>1. SUFFICES ASSUME Init PROVE Inductive /\ Live!Init
  OBVIOUS
<1>2. /\ state = NewState /\ event = NoEvent /\ heard = 0 /\ lost = FALSE /\ blind = {}
  BY <1>1 DEF Init
<1>. DEFINE none == <<>>
<1>3. /\ none \in Seq(Seq(Segment)) /\ none \in Seq(Commit) /\ none \in Seq(Segment)
      /\ Len(none) = 0 /\ NoText \in Seq(Int) /\ none = <<>>
  BY DEF NoText
<1>. HIDE DEF none
<1>4. state = [total |-> 0, start |-> 0, new |-> 0, hypotheses |-> none, committed |-> none,
               unstable |-> none, through |-> 0, revision |-> 0, last |-> NoText,
               finalized |-> FALSE]
  BY <1>2, <1>3, Zenon DEF NewState
<1>5. /\ state \in States /\ state.total = 0 /\ state.start = 0 /\ state.new = 0
      /\ state.hypotheses = none /\ state.committed = none /\ state.unstable = none
      /\ state.through = 0 /\ state.revision = 0 /\ state.last = NoText
      /\ state.finalized = FALSE
  BY <1>3, <1>4 DEF States
<1>6. MsToSamples(MaxWindowMs) \in Nat /\ SamplesToMs(0) \in Nat /\ MaxSamples \in Nat
      /\ MsToSamples(DecodeIntervalMs) > 0 /\ AgreementUpdates \in Nat
  BY Constants, InSamples, InMs, WhisperAssumption DEF WhisperAssumption
<1>7. TypeOK
  <2>1. /\ state.total <= MaxSamples /\ state.start <= state.total
        /\ state.total - state.start <= MsToSamples(MaxWindowMs)
        /\ state.new <= state.total /\ heard \in 0..state.total
    BY <1>2, <1>5, <1>6
  <2>2. Len(state.hypotheses) <= AgreementUpdates
    BY <1>3, <1>5, <1>6
  <2>3. event \in Events \cup {NoEvent} /\ lost \in BOOLEAN
        /\ blind \subseteq {"failed", "outrun", "hurried"}
    BY <1>2
  <2>. QED
    BY <1>5, <2>1, <2>2, <2>3 DEF TypeOK
<1>8. InTime /\ InOrder /\ Audible
  BY <1>2, <1>3, <1>5, <1>6 DEF InTime, InOrder, Audible
<1>9. Counted
  BY <1>2, <1>5, <1>6 DEF Counted
<1>10. Shown
  BY <1>2, <1>5 DEF Shown
<1>11. Live!Init
  BY <1>2, <1>5 DEF Live!Init, NoEvent
<1>12. AgreedAsSpoken
  BY <1>3, <1>5 DEF AgreedAsSpoken
<1>. QED
  BY <1>7, <1>8, <1>9, <1>10, <1>11, <1>12 DEF Inductive

(* ... and every step keeps it and is one of a LiveTranscript.               *)
LEMMA NextInductive ==
  Inductive /\ [Next]_vars => Inductive' /\ [Live!Next]_(Live!vars)
<1>1. SUFFICES ASSUME Inductive, [Next]_vars
               PROVE  Inductive' /\ (Live!Next \/ UNCHANGED Live!vars)
  OBVIOUS
<1>2. ASSUME NEW n \in Chunks, Buffer(n)
      PROVE  Inductive' /\ (Live!Next \/ UNCHANGED Live!vars)
  BY <1>1, <1>2, BufferStep
<1>3. ASSUME NEW n \in Chunks, Decode(n)
      PROVE  Inductive' /\ (Live!Next \/ UNCHANGED Live!vars)
  BY <1>1, <1>3, DecodeStep
<1>4. ASSUME NEW n \in Chunks, DecodeFails(n)
      PROVE  Inductive' /\ (Live!Next \/ UNCHANGED Live!vars)
  BY <1>1, <1>4, DecodeFailsStep
<1>5. CASE Finalize
  BY <1>1, <1>5, FinalizeStep
<1>6. CASE FinalizeFails
  BY <1>1, <1>6, FinalizeFailsStep
<1>7. CASE UNCHANGED vars
  <2>1. Inductive'
    <3>1. /\ state' = state /\ event' = event /\ heard' = heard
          /\ lost' = lost /\ blind' = blind
      BY <1>7 DEF vars
    <3>2. TypeOK' /\ Counted'
      BY <1>1, <3>1 DEF Inductive, TypeOK, Counted
    <3>3. InTime' /\ InOrder' /\ Audible'
      BY <1>1, <3>1 DEF Inductive, InTime, InOrder, Audible
    <3>4. Shown' /\ AgreedAsSpoken'
      BY <1>1, <3>1 DEF Inductive, Shown, AgreedAsSpoken
    <3>. QED
      BY <3>2, <3>3, <3>4 DEF Inductive
  <2>2. UNCHANGED Live!vars
    BY <1>7, Unheard DEF vars
  <2>. QED
    BY <2>1, <2>2
<1>. QED
  BY <1>1, <1>2, <1>3, <1>4, <1>5, <1>6, <1>7 DEF Next

(* The inductive invariant: what is committed or shown was heard, the        *)
(* samples that count as new are those that no decode has seen, and the last *)
(* event is what the state remembers (stt.rs 361-568).                       *)
THEOREM StreamInvariant == Spec => []Inductive
<1>1. Inductive /\ [Next]_vars => Inductive'
  BY NextInductive
<1>. QED
  BY <1>1, InitInductive, PTL DEF Spec

(* The state is always typed, the buffer never exceeds the window, and no    *)
(* more hypotheses are kept than an agreement takes (stt.rs 361-568).        *)
THEOREM TypeCorrect == Spec => []TypeOK
<1>1. Inductive => TypeOK
  BY DEF Inductive
<1>. QED
  BY <1>1, StreamInvariant, PTL

(* Unless a decode failed or a push was too long, no audio leaves the buffer *)
(* that no decode has seen (stt.rs 516-539).                                 *)
THEOREM NothingUnheardIsDropped == Spec => []HeardBeforeDropped
<1>1. Inductive => HeardBeforeDropped
  BY DEF Inductive, Counted, HeardBeforeDropped
<1>. QED
  BY <1>1, StreamInvariant, PTL

(* What is shown as unstable can still be corrected (stt.rs 484-507).        *)
THEOREM ShownIsAudible == Spec => []Audible
<1>1. Inductive => Audible
  BY DEF Inductive
<1>. QED
  BY <1>1, StreamInvariant, PTL

(* A word that was committed because successive decodes agreed on it is the  *)
(* word that was spoken, though any decode may mishear its last word: the    *)
(* trailing guard holds that one back (stt.rs 451-459).                      *)
THEOREM AgreedIsSpoken == Spec => []AgreedAsSpoken
<1>1. Inductive => AgreedAsSpoken
  BY DEF Inductive
<1>. QED
  BY <1>1, StreamInvariant, PTL

(* If no decode failed and no push was too long, every word is committed     *)
(* once and in its place, though windows overlap, times are rounded and the  *)
(* bound forces commits; up to the first that is committed misheard          *)
(* (stt.rs 425-437, 484-507).                                                *)
THEOREM CommittedInPlace == Spec => []InPlace
<1>1. InStep => InPlace
  <2>1. InStep /\ blind = {} => Once(state.committed)
    BY DEF InStep, Done, Good
  <2>. QED
    BY <2>1, Zenon DEF InPlace, Once
<1>2. Inductive /\ InStep /\ [Next]_vars => InStep'
  BY NextInStep
<1>. QED
  BY <1>1, <1>2, InitInStep, StreamInvariant, PTL DEF Spec

(* The committed transcript is what was said (stt.rs 425-459, 484-507).      *)
THEOREM TranscriptIsFaithful == Spec => []Faithful
<1>1. AgreedAsSpoken /\ InPlace => Faithful
  BY DEF Faithful
<1>. QED
  BY <1>1, AgreedIsSpoken, CommittedInPlace, PTL

(* The events are those of a LiveTranscript (stt.rs 541-568).                *)
THEOREM StreamImplementsTranscript == Spec => LiveSpec
<1>1. Init => Live!Init
  BY InitInductive
<1>2. Inductive /\ [Next]_vars => [Live!Next]_(Live!vars)
  BY NextInductive
<1>. QED
  BY <1>1, <1>2, StreamInvariant, PTL DEF Spec, LiveSpec, Live!Spec

=============================================================================
