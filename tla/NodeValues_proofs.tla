------------------------- MODULE NodeValues_proofs -------------------------
(***************************************************************************)
(* What the parts without state make of every value of their types,        *)
(* whatever the limits, channels, tools and letters are: the properties of *)
(* NodeValues for any set of cases.  A step takes one case, so each rests  *)
(* on a theorem about the operators: requirements, constraints, frames,    *)
(* the window of a history, channels, tool calls, the wire codec.          *)
(* Where an induction over a sequence is needed, it is one over the least  *)
(* position at which the claim would fail.                                 *)
(***************************************************************************)
EXTENDS NodeValues, FunctionTheorems, FiniteSetTheorems, SequenceTheorems, TLAPS

-----------------------------------------------------------------------------
(* Sets of numbers *)

\* A bounded set of numbers has a greatest and a least member.
LEMMA Bounded ==
  ASSUME NEW n \in Nat, NEW S \in SUBSET (0..n), S # {}
  PROVE  /\ \E m \in S : \A k \in S : k <= m
         /\ \E m \in S : \A k \in S : m <= k
<1>. DEFINE Less == OpToRel(<, Nat)
            T == {n - k : k \in S}
<1>1. \A x, y \in Nat : x < y => <<x, y>> \in Less
  BY DEF OpToRel
<1>2. T \subseteq Nat /\ T # {} /\ S \subseteq Nat
  <2>1. ASSUME NEW x \in S PROVE n - x \in Nat /\ x \in Nat
    BY <2>1
  <2>. QED
    BY <2>1
<1>3. IsWellFoundedOn(Less, Nat)
  BY NatLessThanWellFounded, Zenon
<1>. HIDE DEF Less, T
<1>4. \E x \in S : \A y \in S : ~ (<<y, x>> \in Less)
  BY <1>2, <1>3, WFMin, Zenon
<1>5. \E x \in T : \A y \in T : ~ (<<y, x>> \in Less)
  BY <1>2, <1>3, WFMin, Zenon
<1>6. PICK z \in S : \A y \in S : z <= y
  <2>1. PICK z \in S : \A y \in S : ~ (<<y, z>> \in Less)
    BY <1>4
  <2>2. \A y \in S : ~(y < z)
    BY <1>1, <1>2, <2>1
  <2>. QED
    BY <1>2, <2>2
<1>7. PICK t \in T : \A u \in T : t <= u
  <2>1. PICK t \in T : \A u \in T : ~ (<<u, t>> \in Less)
    BY <1>5
  <2>2. \A u \in T : ~(u < t)
    BY <1>1, <1>2, <2>1
  <2>. QED
    BY <1>2, <2>2
<1>8. PICK m \in S : t = n - m
  BY DEF T
<1>9. ASSUME NEW y \in S PROVE y <= m
  <2>1. n - y \in T
    BY DEF T
  <2>. QED
    BY <1>2, <1>7, <1>8, <2>1
<1>. QED
  BY <1>6, <1>9

\* The least member of a set of numbers is that one.
LEMMA LeastIs ==
  ASSUME NEW S \in SUBSET Int, NEW m \in S, \A k \in S : m <= k
  PROVE  Llm!Min(S) = m
<1>1. Llm!Min(S) \in S /\ \A k \in S : Llm!Min(S) <= k
  BY Zenon DEF Llm!Min
<1>. DEFINE l == Llm!Min(S)
<1>2. l \in Int /\ m \in Int /\ l <= m /\ m <= l
  BY <1>1
<1>. HIDE DEF l
<1>3. l = m
  BY <1>2
<1>. QED
  BY <1>3 DEF l

LEMMA First ==
  ASSUME NEW n \in Nat, NEW I \in SUBSET (1..n), I # {}
  PROVE  Llm!Min(I) \in I /\ \A k \in I : Llm!Min(I) <= k
<1>1. I \subseteq 0..n /\ I \subseteq Int
  OBVIOUS
<1>2. PICK m \in I : \A k \in I : m <= k
  BY <1>1, Bounded
<1>3. Llm!Min(I) = m
  BY <1>1, <1>2, LeastIs
<1>. QED
  BY <1>2, <1>3

LEMMA PairLeast ==
  ASSUME NEW x \in Int, NEW y \in Int
  PROVE  Llm!Min({x, y}) = IF x <= y THEN x ELSE y
<1>. DEFINE S == {x, y}
            m == IF x <= y THEN x ELSE y
<1>1. S \in SUBSET Int /\ m \in S /\ \A k \in S : m <= k
  OBVIOUS
<1>. HIDE DEF S, m
<1>2. Llm!Min(S) = m
  BY <1>1, LeastIs
<1>. QED
  BY <1>2 DEF S, m

LEMMA Counted == \A S : Llm!Cardinality(S) = Cardinality(S)
BY Zenon DEF Llm!Cardinality, Cardinality

\* Numbers are as many as before when all are lowered alike.
LEMMA Shifted ==
  ASSUME NEW S, IsFiniteSet(S), NEW a \in Int, S \subseteq Int
  PROVE  Cardinality({x - a : x \in S}) = Cardinality(S)
<1>. DEFINE T == {x - a : x \in S}
            F == [x \in S |-> x - a]
<1>1. F \in [S -> T] /\ (\A x, y \in S : F[x] = F[y] => x = y) /\ \A t \in T : \E x \in S : F[x] = t
  OBVIOUS
<1>. HIDE DEF F, T
<1>2. F \in Bijection(S, T)
  BY <1>1, Fun_IsBij
<1>. QED
  BY <1>2, FS_Bijection DEF ExistsBijection, T

-----------------------------------------------------------------------------
(* Sequences *)

\* The part of a sequence that agrees with another one is that one.
LEMMA Slice ==
  ASSUME NEW S, NEW w \in Seq(S), NEW b \in Seq(S), NEW k \in Nat,
         k + Len(b) <= Len(w), \A i \in 1..Len(b) : w[k + i] = b[i]
  PROVE  SubSeq(w, k + 1, k + Len(b)) = b
<1>. DEFINE n == Len(b)
            L == Len(w)
            s == SubSeq(w, k + 1, k + n)
<1>1. n \in Nat /\ L \in Nat /\ k + n <= L /\ \A i \in 1..L : w[i] \in S
  OBVIOUS
<1>2. \A i \in k + 1..k + n : w[i] \in S
  BY <1>1
<1>3. /\ s \in Seq(S)
      /\ Len(s) = IF k + 1 <= k + n THEN (k + n) - (k + 1) + 1 ELSE 0
      /\ \A i \in 1..(k + n) - (k + 1) + 1 : s[i] = w[(k + 1) + i - 1]
  <2>1. k + 1 \in Int /\ k + n \in Int
    BY <1>1
  <2>. QED
    BY <1>2, <2>1, SubSeqProperties
<1>4. /\ \A i \in 1..n : (k + 1) + i - 1 = k + i /\ i \in 1..(k + n) - (k + 1) + 1
      /\ (IF k + 1 <= k + n THEN (k + n) - (k + 1) + 1 ELSE 0) = n
  BY <1>1
<1>. HIDE DEF s, n
<1>5. Len(s) = n
  BY <1>3, <1>4
<1>6. \A i \in 1..n : s[i] = w[k + i]
  BY <1>3, <1>4
<1>7. Len(b) = n /\ \A i \in 1..n : s[i] = b[i]
  BY <1>6 DEF n
<1>8. s = b
  BY <1>3, <1>5, <1>7, SeqEqual
<1>. QED
  BY <1>8 DEF s, n

LEMMA Single == \A x : <<x>> # <<>> /\ <<x>>[1] = x /\ Len(<<x>>) = 1 /\ DOMAIN <<x>> = 1..1
OBVIOUS

LEMMA Pairs ==
  \A x, y : /\ <<x, y>> # <<>> /\ Len(<<x, y>>) = 2 /\ <<x, y>> \in Seq({x, y})
            /\ <<x, y>>[1] = x /\ <<x, y>>[2] = y
            /\ DOMAIN <<x, y>> = 1..2
OBVIOUS

LEMMA Listed ==
  ASSUME NEW x, NEW y, NEW all, all = <<x>> \/ all = <<x, y>>
  PROVE  /\ Len(all) \in Nat /\ DOMAIN all = 1..Len(all) /\ \E S : all \in Seq(S)
         /\ \A i \in DOMAIN all : all[i] \in {x, y}
<1>1. CASE all = <<x>>
  <2>1. <<x>> \in Seq({x})
    OBVIOUS
  <2>2. Len(all) = 1 /\ DOMAIN all = 1..1 /\ all[1] = x /\ all \in Seq({x})
    BY <1>1, <2>1, Single
  <2>. QED
    BY <2>2
<1>2. CASE all = <<x, y>>
  <2>1. Len(all) = 2 /\ DOMAIN all = 1..2 /\ all[1] = x /\ all[2] = y /\ all \in Seq({x, y})
    BY <1>2, Pairs
  <2>2. \A i \in DOMAIN all : all[i] \in {x, y}
    BY <2>1
  <2>3. \E S : all \in Seq(S)
    BY <2>1
  <2>. QED
    BY <2>1, <2>2, <2>3
<1>. QED
  BY <1>1, <1>2

-----------------------------------------------------------------------------
(* Requirements *)

(* Of the entries that share a name and a marker the last is kept, and no    *)
(* other: every requirement of the lists is there once (lib.rs 88-132).      *)
THEOREM MergeKeeps ==
  ASSUME NEW D, NEW lists,
         lists[1] \in Seq(D), lists[2] \in Seq(D), lists[3] \in Seq(D)
  PROVE  Req!Merged(lists)
<1>. DEFINE all == (lists[1] \o lists[2]) \o lists[3]
            Latest == {j \in DOMAIN all : \A k \in j + 1..Len(all) : Req!Entry(all[k]) # Req!Entry(all[j])}
            result == {all[i] : i \in Latest}
            Same(x, y) == Req!Entry(x) = Req!Entry(y)
<1>1. all \in Seq(D) /\ Len(all) \in Nat /\ DOMAIN all = 1..Len(all)
  <2>1. \A s, t \in Seq(D) : s \o t \in Seq(D)
    BY ConcatProperties
  <2>2. \A s \in Seq(D) : Len(s) \in Nat /\ DOMAIN s = 1..Len(s)
    OBVIOUS
  <2>3. all \in Seq(D)
    BY <2>1
  <2>. HIDE DEF all
  <2>. QED
    BY <2>2, <2>3
<1>. HIDE DEF all
<1>2. ASSUME NEW i \in DOMAIN all
      PROVE  \E d \in result : Same(d, all[i]) /\ \E j \in i..Len(all) : all[j] = d
  <2>. DEFINE Alike == {j \in i..Len(all) : Same(all[j], all[i])}
  <2>1. Alike \subseteq 0..Len(all) /\ i \in Alike
    BY <1>1, <1>2
  <2>. HIDE DEF Alike
  <2>2. PICK j \in Alike : \A k \in Alike : k <= j
    BY <2>1, <1>1, Bounded
  <2>3. j \in i..Len(all) /\ Same(all[j], all[i])
    BY <2>2 DEF Alike
  <2>4. ASSUME NEW k \in j + 1..Len(all) PROVE ~Same(all[k], all[j])
    <3>1. k \in i..Len(all) /\ k > j
      BY <1>1, <1>2, <2>3
    <3>2. k \notin Alike
      BY <2>1, <2>2, <3>1, <1>1
    <3>. QED
      BY <3>1, <3>2, <2>3 DEF Alike
  <2>5. j \in Latest
    BY <1>1, <1>2, <2>3, <2>4
  <2>. QED
    BY <2>3, <2>5
<1>3. ASSUME NEW i \in Latest, NEW j \in Latest, Same(all[i], all[j])
      PROVE  i = j
  <2>1. i \in 1..Len(all) /\ j \in 1..Len(all)
    BY <1>1
  <2>2. j \notin i + 1..Len(all)
    BY <1>3
  <2>3. i \notin j + 1..Len(all)
    BY <1>3
  <2>. QED
    BY <2>1, <2>2, <2>3, <1>1
<1>4. \A d, e \in result : Same(d, e) => d = e
  BY <1>3
<1>5. Req!MergeDeps(lists[1], lists[2], lists[3]) = result
  BY DEF Req!MergeDeps, all
<1>6. \A x, y : Same(x, y) <=>
        /\ Req!ExtractMarker(x) = Req!ExtractMarker(y)
        /\ Req!NormalizePackageName(Req!ExtractPackageName(x))
             = Req!NormalizePackageName(Req!ExtractPackageName(y))
  BY DEF Req!Entry
<1>7. (\A i \in DOMAIN all : \E d \in result : Same(d, all[i]) /\ \E j \in i..Len(all) : all[j] = d)
  BY <1>2
<1>. HIDE DEF result, Same
<1>. QED
  BY <1>4, <1>5, <1>6, <1>7, Zenon DEF Req!Merged, all

(* A requirement is reported exactly if nothing of its name is installed,    *)
(* and as an error if it does not depend on a marker (lib.rs 163-275).       *)
THEOREM AbsentReported ==
  ASSUME NEW deps, NEW installed
  PROVE  Req!ReportsRight(deps, installed)
<1>. DEFINE Name(d) == Req!NormalizePackageName(Req!ExtractPackageName(d))
            Present == {Req!NormalizePackageName(n) : n \in installed}
            Checked == {i \in DOMAIN deps :
                /\ Req!Trim(deps[i]) # <<>>
                /\ Head(Req!Trim(deps[i])) \notin {"-", "-e", "url"}
                /\ Req!ExtractPackageName(deps[i]) # <<>>}
            Conditional(i) == \E k \in DOMAIN deps[i] : deps[i][k] = ";"
            Group(n) == {i \in Checked : Name(deps[i]) = n}
            Level(n) == IF \A i \in Group(n) : Conditional(i) THEN "warn" ELSE "error"
            Missing == {[name |-> n, level |-> Level(n)] :
                            n \in {Name(deps[i]) : i \in Checked} \ Present}
<1>1. Req!ReportsMissing(deps, installed) = Missing
  BY DEF Req!ReportsMissing
<1>2. ASSUME NEW i \in DOMAIN deps,
             deps[i] # <<>>, Req!Trim(deps[i]) = deps[i],
             Head(deps[i]) \notin {"-", "-e", "url"}, Req!ExtractPackageName(deps[i]) # <<>>
      PROVE  LET reports == {r \in Missing : r.name = Name(deps[i])}
             IN  IF \E n \in installed : Req!NormalizePackageName(n) = Name(deps[i])
                 THEN reports = {}
                 ELSE /\ reports # {}
                      /\ ~Conditional(i) => \A r \in reports : r.level = "error"
  <2>. DEFINE name == Name(deps[i])
              reports == {r \in Missing : r.name = name}
  <2>1. i \in Checked
    BY <1>2
  <2>2. i \in Group(name)
    BY <2>1
  <2>. HIDE DEF Checked, Name, Conditional
  <2>3. \A r \in Missing : r.name \notin Present /\ r.level = Level(r.name)
    BY DEF Missing
  <2>4. (\E n \in installed : Req!NormalizePackageName(n) = name) <=> name \in Present
    OBVIOUS
  <2>5. name \notin Present => [name |-> name, level |-> Level(name)] \in reports
    BY <2>1
  <2>6. ~Conditional(i) => Level(name) = "error"
    BY <2>2
  <2>. HIDE DEF name, Missing, Present, Level
  <2>. QED
    BY <2>3, <2>4, <2>5, <2>6 DEF name
<1>. QED
  BY <1>1, <1>2 DEF Req!ReportsRight

-----------------------------------------------------------------------------
(* Declared media and video frames *)

(* What the code compares decides whether the two share a value. *)
LEMMA ValueShared ==
  ASSUME Values \subseteq Int,
         NEW a \in Caps!Constraints, NEW b \in Caps!Constraints,
         Caps!Proper(a), Caps!Proper(b)
  PROVE  Caps!CompatibleWith(a, b) <=>
            \E v \in Values : Caps!Satisfies(a, v) /\ Caps!Satisfies(b, v)
<1>. DEFINE Common(c, d) == \E v \in Values : Caps!Satisfies(c, v) /\ Caps!Satisfies(d, v)
<1>1. ASSUME NEW v \in Values, NEW d \in Caps!Constraints, Caps!Proper(d)
      PROVE  Caps!CompatibleWith(Caps!Exact(v), d) <=> Common(Caps!Exact(v), d)
  <2>1. CASE \E w \in Values : d = Caps!Exact(w)
    BY <1>1, <2>1
       DEF Caps!Exact, Caps!CompatibleWith, Caps!CompatibleOneWay,
           Caps!Satisfies
  <2>2. CASE \E p, q \in Values : d = Caps!Range(p, q)
    BY <1>1, <2>2
       DEF Caps!Exact, Caps!Range, Caps!CompatibleWith, Caps!CompatibleOneWay,
           Caps!Satisfies
  <2>3. CASE \E S \in SUBSET Values : d = Caps!OneOf(S)
    BY <1>1, <2>3
       DEF Caps!Exact, Caps!OneOf, Caps!CompatibleWith, Caps!CompatibleOneWay,
           Caps!Satisfies
  <2>. QED
    BY <2>1, <2>2, <2>3, <1>1 DEF Caps!Constraints
<1>2. ASSUME NEW p \in Values, NEW q \in Values, NEW r \in Values, NEW s \in Values, p <= q, r <= s
      PROVE  Caps!CompatibleWith(Caps!Range(p, q), Caps!Range(r, s))
                <=> Common(Caps!Range(p, q), Caps!Range(r, s))
  <2>1. Caps!CompatibleWith(Caps!Range(p, q), Caps!Range(r, s)) <=> p <= s /\ r <= q
    BY DEF Caps!Range, Caps!CompatibleWith, Caps!CompatibleOneWay
  <2>2. Common(Caps!Range(p, q), Caps!Range(r, s)) <=>
            \E v \in Values : v >= p /\ v <= q /\ v >= r /\ v <= s
    BY DEF Caps!Range, Caps!Satisfies
  <2>3. p <= s /\ r <= q <=> \E v \in Values : v >= p /\ v <= q /\ v >= r /\ v <= s
    BY <1>2
  <2>. QED
    BY <2>1, <2>2, <2>3
<1>3. ASSUME NEW p \in Values, NEW q \in Values, NEW S \in SUBSET Values
      PROVE  /\ Caps!CompatibleWith(Caps!Range(p, q), Caps!OneOf(S))
                   <=> Common(Caps!Range(p, q), Caps!OneOf(S))
             /\ Caps!CompatibleWith(Caps!OneOf(S), Caps!Range(p, q))
                   <=> Common(Caps!OneOf(S), Caps!Range(p, q))
  BY
     DEF Caps!Range, Caps!OneOf, Caps!CompatibleWith, Caps!CompatibleOneWay,
         Caps!Satisfies
<1>4. ASSUME NEW S \in SUBSET Values, NEW T \in SUBSET Values
      PROVE  Caps!CompatibleWith(Caps!OneOf(S), Caps!OneOf(T))
                <=> Common(Caps!OneOf(S), Caps!OneOf(T))
  BY DEF Caps!OneOf, Caps!CompatibleWith, Caps!CompatibleOneWay, Caps!Satisfies
<1>5. \A c, d : Caps!CompatibleWith(c, d) <=> Caps!CompatibleWith(d, c)
  BY DEF Caps!CompatibleWith
<1>6. \A c, d : Common(c, d) <=> Common(d, c)
  OBVIOUS
<1>7. \A p, q \in Values : Caps!Proper(Caps!Range(p, q)) => p <= q
  BY DEF Caps!Proper, Caps!Range
<1>8. CASE \E v \in Values : a = Caps!Exact(v) \/ b = Caps!Exact(v)
  <2>. HIDE DEF Common
  <2>. QED
    BY <1>1, <1>5, <1>6, <1>8 DEF Common
<1>. QED
  BY <1>2, <1>3, <1>4, <1>7, <1>8 DEF Caps!Constraints

(* Two constraints on a field are compatible in either order, and exactly if *)
(* some value satisfies both, ranges that are upside down excepted           *)
(* (capabilities.rs 43-100).                                                 *)
THEOREM ConstraintsAgree ==
  ASSUME Caps!ValuesAssumption
  PROVE  \A a, b \in Caps!Constraints : Caps!Agree(a, b)
<1>. SUFFICES ASSUME NEW a \in Caps!Constraints, NEW b \in Caps!Constraints
              PROVE  Caps!Agree(a, b)
  OBVIOUS
<1>1. Caps!CompatibleWith(a, b) = Caps!CompatibleWith(b, a)
  BY DEF Caps!CompatibleWith, Caps!CompatibleOneWay
<1>. QED
  BY <1>1, ValueShared DEF Caps!Agree, Caps!ValuesAssumption

(* A medium that is not flexible constrains a field to one value, but for    *)
(* dynamic dimensions and JSON schemas (capabilities.rs 173-252, 292-342).   *)
THEOREM InflexibleFixed ==
  ASSUME NEW m,
         \A f \in Caps!MediaFields[m.type] :
            m.fields[f] = Caps!Any \/ Caps!Constrains(f, m.fields[f])
  PROVE  Caps!Fixed(m)
<1>. SUFFICES ASSUME ~Caps!MediaIsFlexible(m), NEW f \in Caps!MediaFields[m.type],
                     m.fields[f] # Caps!Any, f # "schema",
                     NEW x \in Caps!Taken(f, m.fields[f]), NEW y \in Caps!Taken(f, m.fields[f])
              PROVE  \/ x = y
                     \/ f = "shape" /\ \A i \in DOMAIN x :
                            x[i] = y[i] \/ m.fields[f].value[i] = Caps!Dynamic
  BY DEF Caps!Fixed
<1>. DEFINE c == m.fields[f]
<1>1. m.type # "json"
  BY DEF Caps!MediaFields
<1>2. Caps!Constrains(f, c) /\ c.kind \notin {"Range", "Set"}
  BY <1>1 DEF Caps!MediaIsFlexible, Caps!IsFlexible
<1>3. CASE f = "shape"
  <2>1. c.kind = "Exact" /\ c.value \in Caps!Shapes
    BY <1>2, <1>3 DEF Caps!Constrains, Caps!ShapeConstraints
  <2>2. x \in Caps!Extents(c.value) /\ y \in Caps!Extents(c.value)
    BY <1>3, <2>1 DEF Caps!Taken
  <2>3. DOMAIN x = DOMAIN c.value /\ DOMAIN y = DOMAIN c.value
    BY <2>2 DEF Caps!Extents
  <2>4. ASSUME NEW i \in DOMAIN x, c.value[i] # Caps!Dynamic PROVE x[i] = y[i]
    <3>1. c.value[i] = <<x[i]>> /\ c.value[i] = <<y[i]>>
      BY <2>2, <2>3, <2>4 DEF Caps!Extents
    <3>2. \A p, q : <<p>> = <<q>> => p = q
      BY Single
    <3>. QED
      BY <3>1, <3>2
  <2>. QED
    BY <1>3, <2>4
<1>4. CASE f # "shape"
  <2>1. c \in Caps!Constraints
    BY <1>2, <1>4 DEF Caps!Constrains
  <2>2. PICK v \in Values : c = Caps!Exact(v)
    BY <1>2, <2>1 DEF Caps!Constraints, Caps!Range, Caps!OneOf
  <2>3. \A z : Caps!Satisfies(Caps!Exact(v), z) <=> z = v
    BY DEF Caps!Exact, Caps!Satisfies
  <2>4. Caps!Satisfies(c, x) /\ Caps!Satisfies(c, y)
    BY <1>4 DEF Caps!Taken
  <2>. QED
    BY <2>2, <2>3, <2>4
<1>. QED
  BY <1>3, <1>4

\* A product that fits is not wrapped, nor is the smaller one before it.
LEMMA Unwrapped ==
  ASSUME NEW W \in Nat \ {0}, NEW area \in Nat, NEW bytes \in 1..4, area * bytes < W
  PROVE  area % W = area /\ (area * bytes) % W = area * bytes
<1>1. \A n \in Nat : n < W => n % W = n
  OBVIOUS
<1>2. area <= area * bytes /\ area * bytes \in Nat
  OBVIOUS
<1>. QED
  BY <1>1, <1>2

\* A frame of even dimensions, halved.
LEMMA Halved ==
  ASSUME NEW w \in Nat, NEW h \in Nat, w % 2 = 0, h % 2 = 0
  PROVE  /\ w * h = 4 * ((w \div 2) * (h \div 2))
         /\ ((w * h) * 3) \div 2 = w * h + 2 * ((w \div 2) * (h \div 2))
         /\ w > 0 /\ h > 0 => ((w * h) * 3) \div 2 > 0
<1>. DEFINE a == w \div 2
            b == h \div 2
            quarter == a * b
<1>1. a \in Nat /\ b \in Nat /\ w = 2 * a /\ h = 2 * b
  OBVIOUS
<1>. HIDE DEF a, b
<1>2. quarter \in Nat /\ w * h = 4 * quarter
  <2>1. (2 * a) * (2 * b) = 4 * (a * b)
    BY <1>1
  <2>. QED
    BY <1>1, <2>1
<1>3. w > 0 /\ h > 0 => quarter > 0
  <2>1. w > 0 /\ h > 0 => a > 0 /\ b > 0
    BY <1>1
  <2>2. a > 0 /\ b > 0 => a * b > 0
    BY <1>1
  <2>. QED
    BY <2>1, <2>2
<1>. HIDE DEF quarter
<1>4. ((w * h) * 3) \div 2 = 6 * quarter
  <2>1. (w * h) * 3 = 12 * quarter
    BY <1>2
  <2>2. (12 * quarter) \div 2 = 6 * quarter
    BY <1>2
  <2>. QED
    BY <2>1, <2>2
<1>5. w * h + 2 * quarter = 6 * quarter
  BY <1>2
<1>6. /\ w * h = 4 * quarter
      /\ ((w * h) * 3) \div 2 = w * h + 2 * quarter
      /\ w > 0 /\ h > 0 => ((w * h) * 3) \div 2 > 0
  BY <1>2, <1>3, <1>4, <1>5
<1>. QED
  BY <1>6 DEF quarter, a, b

FrameRecords == [format : Frames!Formats, width : Nat, height : Nat, length : Nat]

LEMMA PlanarAsDeclared ==
  ASSUME Frames!FrameAssumption, NEW frame \in FrameRecords, frame.format \in Frames!Planar
  PROVE  Frames!AsDeclared(frame)
<1>. DEFINE w == frame.width
            h == frame.height
            size == Frames!BufferSize(frame.format, w, h)
            planes == Frames!Planes(frame.format, w, h)
            positive == w > 0 /\ h > 0
            even == w % 2 = 0 /\ h % 2 = 0
<1>1. w \in Nat /\ h \in Nat /\ w * h \in Nat /\ FrameLimit \in Nat \ {0}
  BY DEF FrameRecords, Frames!FrameAssumption
<1>. frame.format \notin DOMAIN Frames!Packed
  BY DEF Frames!Planar, Frames!Packed
<1>2. SUFFICES ASSUME w * h * 3 < FrameLimit
               PROVE  Frames!ValidateVideoFrame(frame) <=>
                        positive /\ even /\ frame.length = planes
  BY DEF Frames!AsDeclared
<1>3. Frames!ValidateVideoFrame(frame) <=>
        positive /\ even /\ (size > 0 => frame.length = size)
  BY <1>1 DEF Frames!ValidateVideoFrame, Frames!RequiresEvenDimensions
<1>4. size = ((w * h) * 3) \div 2
  <2>1. (w * h) % FrameLimit = w * h /\ ((w * h) * 3) % FrameLimit = (w * h) * 3
    BY <1>1, <1>2, Unwrapped
  <2>. QED
    BY <2>1 DEF Frames!BufferSize, Frames!Times
<1>5. planes = w * h + 2 * ((w \div 2) * (h \div 2))
  BY DEF Frames!Planes
<1>6. positive /\ even => size = planes /\ size > 0
  BY <1>1, <1>4, <1>5, Halved
<1>. HIDE DEF size, planes, positive, even
<1>. QED
  BY <1>3, <1>6

LEMMA PackedAsDeclared ==
  ASSUME Frames!FrameAssumption, NEW frame \in FrameRecords,
         frame.format \in DOMAIN Frames!Packed
  PROVE  Frames!AsDeclared(frame)
<1>. DEFINE w == frame.width
            h == frame.height
            bytes == Frames!Packed[frame.format]
            size == Frames!BufferSize(frame.format, w, h)
            planes == Frames!Planes(frame.format, w, h)
            positive == w > 0 /\ h > 0
<1>1. w \in Nat /\ h \in Nat /\ w * h \in Nat /\ FrameLimit \in Nat \ {0}
  BY DEF FrameRecords, Frames!FrameAssumption
<1>2. bytes \in {3, 4} /\ frame.format \notin Frames!Planar
  BY DEF Frames!Packed, Frames!Planar
<1>3. SUFFICES ASSUME w * h * bytes < FrameLimit
               PROVE  Frames!ValidateVideoFrame(frame) <=> positive /\ frame.length = planes
  BY <1>2 DEF Frames!AsDeclared
<1>4. Frames!ValidateVideoFrame(frame) <=> positive /\ (size > 0 => frame.length = size)
  BY <1>1, <1>2 DEF Frames!ValidateVideoFrame, Frames!RequiresEvenDimensions
<1>5. size = (w * h) * bytes
  <2>1. (w * h) % FrameLimit = w * h /\ ((w * h) * bytes) % FrameLimit = (w * h) * bytes
    <3>. DEFINE area == w * h
    <3>1. area \in Nat /\ bytes \in 1..4 /\ area * bytes < FrameLimit
      BY <1>1, <1>2, <1>3
    <3>. HIDE DEF area, bytes
    <3>2. area % FrameLimit = area /\ (area * bytes) % FrameLimit = area * bytes
      BY <1>1, <3>1, Unwrapped
    <3>. QED
      BY <3>2 DEF area
  <2>. QED
    BY <1>2, <2>1 DEF Frames!BufferSize, Frames!Times
<1>6. planes = bytes * w * h
  BY <1>2 DEF Frames!Planes
<1>7. size = planes /\ (positive => size > 0)
  <2>1. positive => w * h > 0
    BY <1>1
  <2>2. bytes * w * h = (w * h) * bytes
    BY <1>1, <1>2
  <2>3. w * h > 0 => (w * h) * bytes > 0
    BY <1>1, <1>2
  <2>. QED
    BY <1>5, <1>6, <2>1, <2>2, <2>3
<1>. HIDE DEF size, planes, positive
<1>. QED
  BY <1>4, <1>7

\* A video frame is valid exactly if its data are the planes that its dimensions
\* and its format declare, unless computing their size overflows a u32 (types
\* lib.rs 847-884).
THEOREM FramesAsDeclared ==
  ASSUME Frames!FrameAssumption
  PROVE  \A frame \in FrameRecords : Frames!AsDeclared(frame)
<1>. SUFFICES ASSUME NEW frame \in FrameRecords PROVE Frames!AsDeclared(frame)
  OBVIOUS
<1>1. CASE frame.format \in {"Encoded", "Unspecified"}
  <2>1. frame.format \notin Frames!Planar /\ frame.format \notin DOMAIN Frames!Packed
    BY <1>1 DEF Frames!Planar, Frames!Packed
  <2>2. frame.width \in Nat /\ frame.height \in Nat
    BY DEF FrameRecords
  <2>3. Frames!BufferSize(frame.format, frame.width, frame.height) = 0
    BY <2>1 DEF Frames!BufferSize
  <2>. QED
    BY <2>1, <2>2, <2>3 DEF Frames!AsDeclared, Frames!ValidateVideoFrame,
                            Frames!RequiresEvenDimensions
<1>. QED
  BY <1>1, PlanarAsDeclared, PackedAsDeclared DEF FrameRecords, Frames!Formats

-----------------------------------------------------------------------------
(* The history of a chat *)

Users(entries) == {i \in DOMAIN entries : entries[i].role = "user"}
Later(entries, i) == {j \in Users(entries) : j >= i}

(* The window starts at the user turn after which as many are left as are   *)
(* wanted, or at the first, or is empty.                                     *)
LEMMA WindowStarts ==
  ASSUME NEW C, NEW entries \in Seq(Llm!Entries(C)), NEW n \in Nat,
         n # 0, Users(entries) # {}
  PROVE  \E m \in Users(entries) :
            /\ Llm!WindowStart(entries, n) = m - 1
            /\ Cardinality(Later(entries, m)) <= n
            /\ \/ Cardinality(Later(entries, m)) = n
               \/ Later(entries, m) = Users(entries)
<1>. DEFINE users == Users(entries)
            L == Len(entries)
            later(i) == Cardinality(Later(entries, i))
            seen == {i \in users : later(i) <= n}
<1>1. L \in Nat /\ DOMAIN entries = 1..L /\ users \subseteq 1..L
  BY DEF Users
<1>2. IsFiniteSet(users) /\ \A i : IsFiniteSet(Later(entries, i)) /\ later(i) \in Nat
  <2>1. IsFiniteSet(1..L)
    BY <1>1, FS_Interval
  <2>2. IsFiniteSet(users)
    BY <1>1, <2>1, FS_Subset
  <2>3. ASSUME NEW i PROVE IsFiniteSet(Later(entries, i))
    BY <2>2, FS_Subset DEF Later
  <2>. QED
    BY <2>2, <2>3, FS_CardinalityType
<1>3. Llm!WindowStart(entries, n) = Llm!Min(seen) - 1
  <2>. DEFINE few == {i \in users : Llm!Cardinality({j \in users : j >= i}) <= n}
  <2>1. Llm!WindowStart(entries, n) = Llm!Min(few) - 1
    BY DEF Llm!WindowStart, Llm!Quantify, Users
  <2>2. \A i : Llm!Cardinality({j \in users : j >= i}) = later(i)
    BY Counted DEF Later
  <2>3. few = seen
    BY <2>2
  <2>. QED
    BY <2>1, <2>3
<1>4. seen # {}
  <2>1. users \subseteq 0..L
    BY <1>1
  <2>2. PICK m \in users : \A k \in users : k <= m
    BY <2>1, <1>1, Bounded
  <2>3. Later(entries, m) = {m}
    BY <1>1, <2>2 DEF Later
  <2>4. later(m) = 1
    BY <2>3, FS_Singleton
  <2>. QED
    BY <2>4
<1>5. PICK m \in seen : \A k \in seen : m <= k
  <2>1. seen \subseteq 0..L
    BY <1>1
  <2>. HIDE DEF seen
  <2>. QED
    BY <2>1, <1>1, <1>4, Bounded
<1>6. Llm!Min(seen) = m
  <2>1. seen \subseteq Int
    BY <1>1
  <2>. QED
    BY <2>1, <1>5, LeastIs
<1>7. ASSUME Later(entries, m) # users PROVE later(m) = n
  <2>. DEFINE before == {k \in users : k < m}
  <2>1. before \subseteq 0..L /\ before # {}
    BY <1>1, <1>7 DEF Later
  <2>. HIDE DEF before
  <2>2. PICK p \in before : \A k \in before : k <= p
    BY <2>1, <1>1, Bounded
  <2>3. p \in users /\ p < m /\ p \notin seen
    BY <1>1, <1>5, <2>2 DEF before
  <2>4. Later(entries, p) = Later(entries, m) \cup {p}
    BY <1>1, <2>2, <2>3 DEF Later, before
  <2>5. p \notin Later(entries, m)
    BY <1>1, <2>3 DEF Later
  <2>6. later(p) = later(m) + 1
    BY <1>2, <2>4, <2>5, FS_AddElement
  <2>7. later(p) > n
    BY <1>2, <2>3
  <2>. QED
    BY <1>2, <2>6, <2>7
<1>. QED
  BY <1>3, <1>5, <1>6, <1>7

(* The window holds the user turns that are wanted, or all, starts at one,   *)
(* and cuts no call from its answer (history.rs 84-107).                     *)
THEOREM WindowKeepsPairs ==
  ASSUME NEW C, NEW entries \in Seq(Llm!Entries(C)), NEW n \in Nat
  PROVE  Llm!WindowPairs(entries, n)
<1>. DEFINE L == Len(entries)
            start == Llm!WindowStart(entries, n)
            window == SubSeq(entries, start + 1, L)
            Count(s) == Cardinality(Users(s))
            Roles == {"user", "assistant", "tool"}
<1>1. L \in Nat /\ DOMAIN entries = 1..L
  OBVIOUS
<1>2. \A i \in 1..L : entries[i] \in Llm!Entries(C)
  OBVIOUS
<1>3. \A e \in Llm!Entries(C) : e.role = "user" => e = Llm!User
  BY DEF Llm!Entries, Llm!User, Llm!Assistant, Llm!ToolResult
<1>4. IsFiniteSet(Users(entries)) /\ Count(entries) \in Nat
  <2>1. IsFiniteSet(1..L)
    BY <1>1, FS_Interval
  <2>2. Users(entries) \subseteq 1..L
    BY <1>1 DEF Users
  <2>. QED
    BY <2>1, <2>2, FS_Subset, FS_CardinalityType
<1>5. \A s : Llm!Quantify(DOMAIN s, LAMBDA i : s[i].role = "user") = Count(s)
  BY Counted DEF Llm!Quantify, Users
<1>6. \A x, y \in Int : Llm!Min({x, y}) = IF x <= y THEN x ELSE y
  BY PairLeast
<1>7. SUFFICES /\ window # <<>> => window[1] = Llm!User
               /\ Count(window) = IF Count(entries) <= n THEN Count(entries) ELSE n
               /\ Llm!Paired(entries) /\ Llm!Whole(entries) => Llm!Paired(window)
  <2>1. Llm!Min({Count(entries), n}) = IF Count(entries) <= n THEN Count(entries) ELSE n
    BY <1>4, <1>6
  <2>. HIDE DEF Count
  <2>. QED
    BY <1>5, <2>1 DEF Llm!WindowPairs
<1>8. CASE n = 0 \/ Users(entries) = {}
  <2>1. start = L
    BY <1>8 DEF Llm!WindowStart, Users
  <2>2. window = <<>> /\ DOMAIN window = {}
    BY <1>1, <2>1, SubSeqProperties
  <2>3. Users(window) = {} /\ Count(window) = 0
    BY <2>2, FS_EmptySet DEF Users
  <2>4. Llm!Paired(window)
    BY <2>2 DEF Llm!Paired
  <2>5. Count(entries) = 0 \/ n = 0
    BY <1>8, FS_EmptySet
  <2>. QED
    BY <1>4, <2>2, <2>3, <2>4, <2>5
<1>9. CASE n # 0 /\ Users(entries) # {}
  <2>1. PICK m \in Users(entries) :
            /\ start = m - 1
            /\ Cardinality(Later(entries, m)) <= n
            /\ \/ Cardinality(Later(entries, m)) = n
               \/ Later(entries, m) = Users(entries)
    BY <1>9, WindowStarts
  <2>2. m \in 1..L /\ entries[m].role = "user" /\ entries[m] = Llm!User
    BY <1>1, <1>2, <1>3 DEF Users
  <2>. DEFINE size == L - m + 1
  <2>3. /\ Len(window) = size /\ DOMAIN window = 1..size
        /\ \A i \in 1..size : window[i] = entries[m + i - 1]
    <3>1. start + 1 = m
      BY <2>1, <2>2
    <3>2. SubSeq(entries, m, L) \in Seq(Llm!Entries(C))
      BY <1>1, <1>2, <2>2, SubSeqProperties
    <3>3. /\ Len(SubSeq(entries, m, L)) = size
          /\ \A i \in 1..size : SubSeq(entries, m, L)[i] = entries[m + i - 1]
      BY <1>1, <1>2, <2>2, SubSeqProperties
    <3>. QED
      BY <3>1, <3>2, <3>3
  <2>. HIDE DEF window
  <2>4. window[1] = Llm!User
    BY <1>1, <2>2, <2>3
  <2>5. Count(window) = Cardinality(Later(entries, m))
    <3>1. Users(window) = {x - (m - 1) : x \in Later(entries, m)}
      <4>1. ASSUME NEW i \in Users(window)
            PROVE  /\ m + i - 1 \in Later(entries, m) /\ i = (m + i - 1) - (m - 1)
        <5>1. i \in 1..size /\ window[i].role = "user"
          BY <2>3, <4>1 DEF Users
        <5>2. m + i - 1 \in 1..L /\ m + i - 1 >= m /\ i = (m + i - 1) - (m - 1)
          BY <1>1, <2>2, <5>1
        <5>3. entries[m + i - 1].role = "user"
          BY <2>3, <5>1
        <5>. QED
          BY <1>1, <5>2, <5>3 DEF Users, Later
      <4>2. ASSUME NEW x \in Later(entries, m)
            PROVE  x - (m - 1) \in Users(window)
        <5>1. x \in 1..L /\ x >= m /\ entries[x].role = "user"
          BY <1>1 DEF Users, Later
        <5>2. x - (m - 1) \in 1..size /\ m + (x - (m - 1)) - 1 = x
          BY <1>1, <2>2, <5>1
        <5>3. window[x - (m - 1)] = entries[x]
          BY <2>3, <5>2
        <5>. QED
          BY <2>3, <5>1, <5>2, <5>3 DEF Users
      <4>. QED
        BY <4>1, <4>2
    <3>2. IsFiniteSet(Later(entries, m)) /\ Later(entries, m) \subseteq Int
      <4>1. Later(entries, m) \in SUBSET Users(entries)
        BY DEF Later
      <4>2. Users(entries) \subseteq Int
        BY <1>1 DEF Users
      <4>. QED
        BY <1>4, <4>1, <4>2, FS_Subset
    <3>3. m - 1 \in Int
      BY <2>2, <1>1
    <3>. QED
      BY <3>1, <3>2, <3>3, Shifted
  <2>6. Cardinality(Later(entries, m)) <= Count(entries) /\ Cardinality(Later(entries, m)) \in Nat
    <3>1. Later(entries, m) \in SUBSET Users(entries)
      BY DEF Later
    <3>. QED
      BY <3>1, <1>4, FS_Subset, FS_CardinalityType
  <2>7. Count(window) = IF Count(entries) <= n THEN Count(entries) ELSE n
    BY <1>4, <2>1, <2>5, <2>6
  <2>8. ASSUME Llm!Paired(entries), Llm!Whole(entries) PROVE Llm!Paired(window)
    <3>1. ASSUME NEW i \in DOMAIN window, window[i].role = "assistant", NEW c \in window[i].calls
          PROVE  \E j \in i + 1..Len(window) : window[j] = Llm!ToolResult(c)
      <4>1. m + i - 1 \in 1..L /\ window[i] = entries[m + i - 1]
        BY <1>1, <2>2, <2>3
      <4>2. PICK k \in (m + i - 1) + 1..L : entries[k] = Llm!ToolResult(c)
        BY <1>1, <2>8, <3>1, <4>1 DEF Llm!Paired
      <4>3. k - m + 1 \in i + 1..size /\ m + (k - m + 1) - 1 = k /\ k - m + 1 \in 1..size
        BY <1>1, <2>2, <2>3, <4>2
      <4>. QED
        BY <2>3, <4>2, <4>3
    <3>2. ASSUME NEW j \in DOMAIN window, window[j].role = "tool"
          PROVE  \E i \in 1..j - 1 :
                    window[i].role = "assistant" /\ window[j].calls \subseteq window[i].calls
      <4>. DEFINE k == m + j - 1
      <4>1. k \in 1..L /\ k >= m /\ window[j] = entries[k]
        BY <1>1, <2>2, <2>3
      <4>2. PICK i \in 1..k - 1 :
                entries[i].role = "assistant" /\ entries[k].calls \subseteq entries[i].calls
        BY <1>1, <2>8, <3>2, <4>1 DEF Llm!Paired
      <4>3. i \in 1..L /\ i < k
        BY <1>1, <4>1, <4>2
      <4>4. \A x \in i..k : entries[x].role # "user"
        BY <1>1, <2>8, <3>2, <4>1, <4>2, <4>3 DEF Llm!Whole
      <4>5. i >= m
        BY <2>2, <4>1, <4>3, <4>4, <1>1
      <4>6. i - m + 1 \in 1..j - 1 /\ i - m + 1 \in 1..size /\ m + (i - m + 1) - 1 = i
        BY <1>1, <2>2, <2>3, <4>1, <4>3, <4>5
      <4>7. window[i - m + 1] = entries[i]
        BY <2>3, <4>6
      <4>. QED
        BY <4>1, <4>2, <4>6, <4>7
    <3>. QED
      BY <3>1, <3>2 DEF Llm!Paired
  <2>. QED
    BY <2>4, <2>7, <2>8
<1>. QED
  BY <1>8, <1>9

-----------------------------------------------------------------------------
(* Texts and channels *)

Bytes == 0..255

\* A header of that name, and the text behind it.
IsHeaded(s, name, text) ==
    /\ s \in Seq(Bytes) /\ Len(s) = (Len(name) + 2) + Len(text)
    /\ s[1] = 0 /\ s[2] = Len(name)
    /\ \A i \in 1..Len(name) : s[2 + i] = name[i]
    /\ \A i \in 1..Len(text) : s[(Len(name) + 2) + i] = text[i]

LEMMA HeaderLaid ==
  ASSUME NEW text \in Seq(Bytes), NEW name \in Seq(Bytes), Len(name) \in 1..255
  PROVE  IsHeaded((<<Llm!Nul, Len(name)>> \o name) \o text, name, text)
<1>. DEFINE n == Len(name)
            l == Len(text)
            head == <<Llm!Nul, n>>
            front == head \o name
            s == front \o text
<1>1. n \in 1..255 /\ l \in Nat
  OBVIOUS
<1>2. head \in Seq(Bytes) /\ Len(head) = 2 /\ head[1] = 0 /\ head[2] = n
  BY <1>1 DEF Bytes, Llm!Nul
<1>. HIDE DEF head
<1>3. /\ front \in Seq(Bytes) /\ Len(front) = n + 2
      /\ \A i \in 1..2 : front[i] = head[i]
      /\ \A i \in 1..n : front[2 + i] = name[i]
  <2>1. /\ front \in Seq(Bytes)
        /\ Len(front) = Len(head) + Len(name)
        /\ \A i \in 1..Len(head) + Len(name) :
                front[i] = IF i <= Len(head) THEN head[i] ELSE name[i - Len(head)]
    BY <1>1, <1>2, ConcatProperties
  <2>2. \A i \in 1..n : 2 + i \in 1..2 + n /\ ~(2 + i <= 2) /\ (2 + i) - 2 = i
    BY <1>1
  <2>3. Len(front) = n + 2 /\ \A i \in 1..2 : i \in 1..2 + n
    <3>. DEFINE h == Len(head)
    <3>1. h = 2 /\ n \in 1..255 /\ Len(front) = h + n
      BY <1>1, <1>2, <2>1
    <3>. HIDE DEF h, n, front
    <3>. QED
      BY <3>1
  <2>4. \A i \in 1..2 + n : front[i] = IF i <= 2 THEN head[i] ELSE name[i - 2]
    BY <1>2, <2>1
  <2>. HIDE DEF front, n
  <2>5. \A i \in 1..2 : front[i] = head[i]
    BY <2>3, <2>4
  <2>6. \A i \in 1..n : front[2 + i] = name[i]
    BY <2>2, <2>4
  <2>. QED
    BY <2>1, <2>3, <2>5, <2>6
<1>. HIDE DEF front
<1>4. /\ s \in Seq(Bytes) /\ Len(s) = (n + 2) + l
      /\ \A i \in 1..n + 2 : s[i] = front[i]
      /\ \A i \in 1..l : s[(n + 2) + i] = text[i]
  <2>1. /\ s \in Seq(Bytes)
        /\ Len(s) = Len(front) + Len(text)
        /\ \A i \in 1..Len(front) + Len(text) :
                s[i] = IF i <= Len(front) THEN front[i] ELSE text[i - Len(front)]
    BY <1>1, <1>3, ConcatProperties
  <2>2. \A i \in 1..l : (n + 2) + i \in 1..(n + 2) + l /\ ~((n + 2) + i <= n + 2)
                         /\ ((n + 2) + i) - (n + 2) = i
    BY <1>1
  <2>. HIDE DEF s
  <2>. QED
    BY <1>1, <1>3, <2>1, <2>2
<1>. HIDE DEF s
<1>5. s[1] = 0 /\ s[2] = n /\ \A i \in 1..n : s[2 + i] = name[i]
  <2>1. \A i \in 1..n : 2 + i \in 1..n + 2
    BY <1>1
  <2>2. 1 \in 1..n + 2 /\ 2 \in 1..n + 2
    BY <1>1
  <2>. HIDE DEF n
  <2>. QED
    BY <1>2, <1>3, <1>4, <2>1, <2>2
<1>. QED
  BY <1>4, <1>5 DEF IsHeaded, s, front, head

\* What a tag puts before a text can be told from the text.
LEMMA HeaderRead ==
  ASSUME NEW text \in Llm!Texts, NEW channel \in Llm!Texts, Len(channel) \in 1..255
  PROVE  Llm!SplitText((<<Llm!Nul, Len(channel)>> \o channel) \o text) = <<channel, text>>
<1>. DEFINE n == Len(channel)
            l == Len(text)
            s == (<<Llm!Nul, n>> \o channel) \o text
<1>1. /\ channel \in Seq(Bytes) /\ text \in Seq(Bytes)
      /\ Llm!Utf8(channel) /\ Llm!Utf8(text)
      /\ n \in 1..255 /\ l \in Nat
  BY DEF Llm!Texts, Bytes
<1>3. IsHeaded(s, channel, text)
  BY <1>1, HeaderLaid, Zenon
<1>. HIDE DEF s
<1>4. /\ s \in Seq(Bytes) /\ Len(s) = (n + 2) + l
      /\ s[1] = 0 /\ s[2] = n
      /\ \A i \in 1..n : s[2 + i] = channel[i]
      /\ \A i \in 1..l : s[(n + 2) + i] = text[i]
  BY <1>3, Zenon DEF IsHeaded
<1>6. SubSeq(s, 3, 2 + n) = channel
  <2>1. 2 + Len(channel) <= Len(s) /\ \A i \in 1..Len(channel) : s[2 + i] = channel[i]
    BY <1>1, <1>4
  <2>2. SubSeq(s, 2 + 1, 2 + Len(channel)) = channel
    BY <1>1, <1>4, <2>1, Slice
  <2>. QED
    BY <2>2
<1>7. SubSeq(s, 3 + n, Len(s)) = text
  <2>. DEFINE k == n + 2
  <2>1. k \in Nat /\ k + Len(text) <= Len(s) /\ \A i \in 1..Len(text) : s[k + i] = text[i]
    BY <1>1, <1>4
  <2>2. k + 1 = 3 + n /\ k + Len(text) = Len(s)
    BY <1>1, <1>4
  <2>. HIDE DEF k
  <2>3. SubSeq(s, k + 1, k + Len(text)) = text
    BY <1>1, <1>4, <2>1, Slice
  <2>. QED
    BY <2>2, <2>3
<1>8. channel # <<>> /\ Len(s) >= 2 /\ 2 + n <= Len(s)
  <2>1. channel = <<>> => n = 0
    BY <1>1, EmptySeq
  <2>2. n # 0 /\ Len(s) >= 2 /\ 2 + n <= Len(s)
    <3>1. n \in 1..255 /\ l \in Nat /\ Len(s) = (n + 2) + l
      BY <1>1, <1>4
    <3>. HIDE DEF n, l
    <3>. QED
      BY <3>1
  <2>. QED
    BY <2>1, <2>2
<1>9. Llm!SplitText(s) = <<channel, text>>
  BY <1>1, <1>4, <1>6, <1>7, <1>8 DEF Llm!SplitText, Llm!Nul
<1>. QED
  BY <1>9 DEF s

LEMMA AsciiLength ==
  /\ Llm!AsciiMax \in Nat
  /\ \A k \in 1..Llm!AsciiMax : k <= Llm!AsciiMax /\ k # 0
  /\ \A k \in Nat : k # 0 /\ k <= Llm!AsciiMax => k \in 1..Llm!AsciiMax
BY DEF Llm!AsciiMax

\* A header is text as far as its name is and the number of its length is ASCII.
LEMMA HeaderIsText ==
  ASSUME NEW text \in Llm!Texts, NEW name \in Llm!Texts, Len(name) \in 1..127
  PROVE  Llm!Utf8((<<Llm!Nul, Len(name)>> \o name) \o text)
<1>. DEFINE n == Len(name)
            l == Len(text)
            s == (<<Llm!Nul, n>> \o name) \o text
            Fits(w, i) ==
                /\ w[i] <= Llm!AsciiMax \/ Llm!IsLead(w[i]) \/ Llm!IsContinuation(w[i])
                /\ Llm!IsLead(w[i]) => i < Len(w) /\ Llm!IsContinuation(w[i + 1])
                /\ Llm!IsContinuation(w[i]) => i > 1 /\ Llm!IsLead(w[i - 1])
<1>1. /\ name \in Seq(Bytes) /\ text \in Seq(Bytes)
      /\ n \in 1..127 /\ n \in 1..255 /\ l \in Nat
  BY DEF Llm!Texts, Bytes
<1>2. \A w \in Seq(Bytes) : Llm!Utf8(w) <=> \A i \in 1..Len(w) : Fits(w, i)
  BY DEF Llm!Utf8
<1>3. (\A i \in 1..n : Fits(name, i)) /\ (\A i \in 1..l : Fits(text, i))
  BY <1>1, <1>2 DEF Llm!Texts
<1>10. IsHeaded(s, name, text)
  BY <1>1, HeaderLaid, Zenon
<1>. HIDE DEF s
<1>4. /\ s \in Seq(Bytes) /\ Len(s) = (n + 2) + l
      /\ s[1] = 0 /\ s[2] = n
      /\ \A i \in 1..n : s[2 + i] = name[i]
      /\ \A i \in 1..l : s[(n + 2) + i] = text[i]
  BY <1>10, Zenon DEF IsHeaded
<1>. HIDE DEF n, l
<1>5. ASSUME NEW i \in 1..2 PROVE Fits(s, i)
  <2>1. \A b \in 0..127 : b <= Llm!AsciiMax /\ ~Llm!IsLead(b) /\ ~Llm!IsContinuation(b)
    BY DEF Llm!AsciiMax, Llm!IsLead, Llm!IsContinuation
  <2>2. s[1] \in 0..127 /\ s[2] \in 0..127 /\ (i = 1 \/ i = 2)
    BY <1>1, <1>4
  <2>3. s[i] \in 0..127
    BY <2>2
  <2>. QED
    BY <2>1, <2>3, Zenon
<1>6. ASSUME NEW i \in 1..n PROVE Fits(s, 2 + i)
  <2>1. s[2 + i] = name[i] /\ Fits(name, i) /\ (2 + i) + 1 = 2 + (i + 1) /\ (2 + i) - 1 = 2 + (i - 1)
    BY <1>1, <1>3, <1>4
  <2>2. Llm!IsLead(name[i]) => 2 + i < Len(s) /\ Llm!IsContinuation(s[2 + (i + 1)])
    <3>1. ASSUME Llm!IsLead(name[i]) PROVE i + 1 \in 1..n /\ Llm!IsContinuation(name[i + 1])
      BY <1>1, <2>1, <3>1 DEF n
    <3>2. i + 1 \in 1..n => 2 + i < Len(s)
      BY <1>1, <1>4
    <3>. QED
      BY <1>4, <3>1, <3>2
  <2>3. Llm!IsContinuation(name[i]) => 2 + i > 1 /\ Llm!IsLead(s[2 + (i - 1)])
    <3>1. ASSUME Llm!IsContinuation(name[i]) PROVE i - 1 \in 1..n /\ Llm!IsLead(name[i - 1])
      BY <1>1, <2>1, <3>1
    <3>2. 2 + i > 1
      BY <1>1
    <3>. QED
      BY <1>4, <3>1, <3>2
  <2>. QED
    BY <2>1, <2>2, <2>3
<1>7. ASSUME NEW i \in 1..l PROVE Fits(s, (n + 2) + i)
  <2>1. /\ s[(n + 2) + i] = text[i] /\ Fits(text, i)
        /\ ((n + 2) + i) + 1 = (n + 2) + (i + 1) /\ ((n + 2) + i) - 1 = (n + 2) + (i - 1)
    BY <1>1, <1>3, <1>4
  <2>2. Llm!IsLead(text[i]) => (n + 2) + i < Len(s) /\ Llm!IsContinuation(s[(n + 2) + (i + 1)])
    <3>1. ASSUME Llm!IsLead(text[i]) PROVE i + 1 \in 1..l /\ Llm!IsContinuation(text[i + 1])
      BY <1>1, <2>1, <3>1 DEF l
    <3>2. i + 1 \in 1..l => (n + 2) + i < Len(s)
      BY <1>1, <1>4
    <3>. QED
      BY <1>4, <3>1, <3>2
  <2>3. Llm!IsContinuation(text[i]) => (n + 2) + i > 1 /\ Llm!IsLead(s[(n + 2) + (i - 1)])
    <3>1. ASSUME Llm!IsContinuation(text[i]) PROVE i - 1 \in 1..l /\ Llm!IsLead(text[i - 1])
      BY <1>1, <2>1, <3>1
    <3>2. (n + 2) + i > 1
      BY <1>1
    <3>. QED
      BY <1>4, <3>1, <3>2
  <2>. QED
    BY <2>1, <2>2, <2>3
<1>8. \A i \in 1..Len(s) : Fits(s, i)
  <2>. SUFFICES ASSUME NEW i \in 1..Len(s) PROVE Fits(s, i)
    OBVIOUS
  <2>. HIDE DEF Fits
  <2>1. \/ i \in 1..2
        \/ i - 2 \in 1..n /\ 2 + (i - 2) = i
        \/ i - (n + 2) \in 1..l /\ (n + 2) + (i - (n + 2)) = i
    BY <1>1, <1>4
  <2>. QED
    BY <1>5, <1>6, <1>7, <2>1
<1>9. Llm!Utf8(s)
  BY <1>2, <1>4, <1>8
<1>. QED
  BY <1>9 DEF s, n

\* A header whose length is no ASCII byte is none, whatever is behind it.
LEMMA HeaderIsNone ==
  ASSUME NEW text \in Seq(Bytes), NEW name \in Seq(Bytes), Len(name) \in 128..255,
         ~Llm!IsContinuation(name[1])
  PROVE  ~Llm!Utf8((<<Llm!Nul, Len(name)>> \o name) \o text)
<1>. DEFINE n == Len(name)
            s == (<<Llm!Nul, n>> \o name) \o text
<1>1. n \in 128..255 /\ n \in 1..255 /\ 1 \in 1..n
  OBVIOUS
<1>2. s \in Seq(Bytes) /\ s[1] = 0 /\ s[2] = n /\ s[2 + 1] = name[1] /\ Len(s) >= 2
  <2>3. IsHeaded(s, name, text)
    BY <1>1, HeaderLaid, Zenon
  <2>. HIDE DEF s
  <2>1. /\ s \in Seq(Bytes) /\ Len(s) = (n + 2) + Len(text)
        /\ s[1] = 0 /\ s[2] = n /\ \A i \in 1..n : s[2 + i] = name[i]
    BY <2>3, Zenon DEF IsHeaded
  <2>2. Len(text) \in Nat
    OBVIOUS
  <2>. HIDE DEF s, n
  <2>. QED
    BY <1>1, <2>1, <2>2
<1>. HIDE DEF s, n
<1>3. 2 \in DOMAIN s /\ ~Llm!IsLead(s[1]) /\ ~(n <= Llm!AsciiMax)
  BY <1>1, <1>2 DEF Llm!IsLead, Llm!AsciiMax
<1>4. ASSUME Llm!Utf8(s) PROVE FALSE
  <2>1. Llm!IsLead(n) \/ Llm!IsContinuation(n)
    BY <1>2, <1>3, <1>4 DEF Llm!Utf8
  <2>2. Llm!IsLead(n) => Llm!IsContinuation(s[2 + 1])
    BY <1>2, <1>3, <1>4 DEF Llm!Utf8
  <2>3. Llm!IsContinuation(n) => Llm!IsLead(s[2 - 1])
    BY <1>2, <1>3, <1>4 DEF Llm!Utf8
  <2>. QED
    BY <1>2, <1>3, <2>1, <2>2, <2>3
<1>. QED
  BY <1>4 DEF s, n

\* A name of ASCII length is tagged with, and the text found there.
LEMMA Tagged ==
  ASSUME Llm!ToolsAssumption, NEW text \in Llm!Texts, NEW channel \in Llm!Texts,
         Len(channel) <= Llm!AsciiMax
  PROVE  /\ Llm!TagText(text, channel) # <<>>
         /\ channel # <<>> /\ channel # DefaultChannel =>
                Llm!SplitText(Llm!TagText(text, channel)[1]) = <<channel, text>>
         /\ channel = DefaultChannel => Llm!TagText(text, channel) = <<text>>
<1>1. CASE channel = <<>> \/ channel = DefaultChannel
  <2>1. Llm!TagText(text, channel) = <<text>>
    BY <1>1 DEF Llm!TagText
  <2>. QED
    BY <1>1, <2>1, Single
<1>2. CASE channel # <<>> /\ channel # DefaultChannel
  <2>. DEFINE n == Len(channel)
              tagged == (<<Llm!Nul, n>> \o channel) \o text
  <2>1. channel \in Seq(Bytes) /\ Llm!ByteMax = 255 /\ n <= 127
    BY DEF Llm!Texts, Bytes, Llm!ByteMax, Llm!AsciiMax
  <2>2. n \in 1..127 /\ n \in 1..255 /\ n <= Llm!ByteMax /\ Llm!ByteMax \in Nat
    <3>1. \A q \in Seq(Bytes) : q # <<>> => Len(q) \in Nat \ {0}
      BY EmptySeq
    <3>2. n \in Nat \ {0}
      BY <1>2, <2>1, <3>1
    <3>. HIDE DEF n
    <3>. QED
      BY <2>1, <3>2
  <2>3. Llm!Min({n, Llm!ByteMax}) = n
    BY <2>1, <2>2, PairLeast
  <2>4. SubSeq(channel, 1, n) = channel
    BY <2>1, SubSeqFull
  <2>5. Llm!Utf8(tagged)
    BY <2>2, HeaderIsText
  <2>6. Llm!TagText(text, channel) = <<tagged>>
    BY <1>2, <2>3, <2>4, <2>5 DEF Llm!TagText
  <2>7. Llm!SplitText(tagged) = <<channel, text>>
    BY <2>2, HeaderRead
  <2>. HIDE DEF tagged
  <2>. QED
    BY <1>2, <2>6, <2>7, Single
<1>. QED
  BY <1>1, <1>2

\* A longer name makes the conversion panic.
LEMMA TooLong ==
  ASSUME Llm!ToolsAssumption, NEW text \in Llm!Texts, NEW channel \in Llm!Texts,
         ~(Len(channel) <= Llm!AsciiMax)
  PROVE  Llm!TagText(text, channel) = <<>>
<1>. DEFINE L == Len(channel)
            n == Llm!Min({L, Llm!ByteMax})
            cut == SubSeq(channel, 1, n)
<1>1. channel \in Seq(Bytes) /\ text \in Seq(Bytes) /\ Llm!Utf8(channel) /\ L \in Nat
  BY DEF Llm!Texts, Bytes
<1>2. L >= 128
  <2>. HIDE DEF L
  <2>. QED
    BY <1>1 DEF Llm!AsciiMax, L
<1>3. channel # <<>> /\ channel # DefaultChannel
  <2>1. channel = <<>> => L = 0
    BY EmptySeq
  <2>2. Len(DefaultChannel) <= Llm!AsciiMax
    BY AsciiLength, Zenon DEF Llm!ToolsAssumption
  <2>3. L # 0
    BY <1>2
  <2>. QED
    BY <2>1, <2>2, <2>3
<1>4. n \in 128..255 /\ n <= L
  <2>1. Llm!ByteMax = 255
    BY DEF Llm!ByteMax
  <2>2. n \in {L, 255} /\ n <= L /\ n <= 255
    BY <1>1, <2>1, PairLeast
  <2>. HIDE DEF n, L
  <2>. QED
    BY <1>1, <1>2, <2>2
<1>. HIDE DEF n
<1>5. cut \in Seq(Bytes) /\ Len(cut) = n /\ cut[1] = channel[1]
  <2>1. \A i \in 1..n : channel[i] \in Bytes
    BY <1>1, <1>4
  <2>2. 1 \in Int /\ n \in Int /\ 1 <= n /\ (n - 1) + 1 = n /\ 1 \in 1..n /\ (1 + 1) - 1 = 1
    BY <1>4
  <2>. QED
    BY <2>1, <2>2, SubSeqProperties
<1>6. ~Llm!IsContinuation(channel[1])
  BY <1>1, <1>2 DEF Llm!Utf8
<1>. HIDE DEF cut
<1>7. ~Llm!Utf8((<<Llm!Nul, Len(cut)>> \o cut) \o text)
  BY <1>1, <1>4, <1>5, <1>6, HeaderIsNone
<1>. QED
  BY <1>3, <1>7 DEF Llm!TagText, cut, n

(* What is sent to a channel is found there: a text is read back as it was   *)
(* tagged, and on the default channel unless it looks tagged itself; a name  *)
(* can be tagged with if it has no more than 127 bytes (types lib.rs 453-495).*)
THEOREM ChannelsKept ==
  ASSUME Llm!ToolsAssumption, NEW text \in Llm!Texts, NEW channel \in Llm!Texts
  PROVE  Llm!ChannelKept(text, channel)
<1>. DEFINE tagged == Llm!TagText(text, channel)
<1>1. tagged # <<>> <=> Len(channel) <= Llm!AsciiMax
  <2>1. Len(channel) <= Llm!AsciiMax => tagged # <<>>
    BY Tagged, Zenon
  <2>2. ~(Len(channel) <= Llm!AsciiMax) => tagged = <<>>
    BY TooLong, Zenon
  <2>. QED
    BY <2>1, <2>2, Zenon
<1>2. Len(channel) \in 1..Llm!AsciiMax => Len(channel) <= Llm!AsciiMax /\ channel # <<>>
  <2>1. Len(<<>>) = 0
    BY EmptySeq
  <2>. QED
    BY <2>1, AsciiLength, Zenon
<1>3. ASSUME Len(channel) \in 1..Llm!AsciiMax, channel # DefaultChannel
      PROVE  Llm!SplitText(tagged[1]) = <<channel, text>>
  BY <1>2, <1>3, Tagged
<1>4. ASSUME Len(channel) \in 1..Llm!AsciiMax, channel = DefaultChannel, ~Llm!Headed(text)
      PROVE  Llm!SplitText(tagged[1]) = <<channel, text>>
  <2>1. tagged = <<text>>
    BY <1>2, <1>4, Tagged
  <2>. HIDE DEF tagged
  <2>. QED
    BY <1>4, <2>1, Single DEF Llm!Headed
<1>. HIDE DEF tagged
<1>. QED
  BY <1>1, <1>3, <1>4 DEF Llm!ChannelKept, tagged

-----------------------------------------------------------------------------
(* The dispatch of tool calls *)

IsRegistry(registry) ==
    /\ Len(registry) \in Nat /\ DOMAIN registry = 1..Len(registry)
    /\ \A i \in DOMAIN registry : registry[i].kind \in {"SideEffect", "ReturnValue"}

LEMMA RegistryTypes ==
  ASSUME NEW registry \in Seq(Llm!ToolSpecs)
  PROVE  IsRegistry(registry)
<1>. DEFINE L == Len(registry)
<1>1. L \in Nat /\ DOMAIN registry = 1..L /\ \A i \in 1..L : registry[i] \in Llm!ToolSpecs
  OBVIOUS
<1>2. \A s \in Llm!ToolSpecs : s.kind \in {"SideEffect", "ReturnValue"}
  BY DEF Llm!ToolSpecs
<1>. HIDE DEF L
<1>. QED
  BY <1>1, <1>2 DEF IsRegistry, L

\* The first tool of the name is found, if there is one.
LEMMA Looked ==
  ASSUME NEW registry, IsRegistry(registry), NEW name
  PROVE  \/ /\ Llm!LookupTool(registry, name) = <<>>
            /\ \A i \in DOMAIN registry : registry[i].name # name
         \/ \E i \in DOMAIN registry :
                /\ Llm!LookupTool(registry, name) = <<registry[i]>>
                /\ registry[i].name = name
                /\ \A j \in 1..i - 1 : registry[j].name # name
<1>. DEFINE L == Len(registry)
            I == {i \in 1..L : registry[i].name = name}
            found == IF I # {} THEN Llm!Min(I) ELSE 0
<1>1. L \in Nat /\ DOMAIN registry = 1..L
  BY DEF IsRegistry
<1>2. Llm!LookupTool(registry, name) = IF found = 0 THEN <<>> ELSE <<registry[found]>>
  BY Zenon DEF Llm!LookupTool, Llm!SelectInSeq
<1>3. CASE I = {}
  <2>1. found = 0
    BY <1>3
  <2>. QED
    BY <1>1, <1>2, <1>3, <2>1
<1>4. CASE I # {}
  <2>. DEFINE m == Llm!Min(I)
  <2>1. m \in I /\ \A k \in I : m <= k
    <3>1. I \in SUBSET (1..L)
      OBVIOUS
    <3>. HIDE DEF I
    <3>. QED
      BY <1>1, <1>4, <3>1, First
  <2>2. found = m
    BY <1>4
  <2>. HIDE DEF m, found
  <2>3. m \in 1..L /\ registry[m].name = name /\ \A j \in 1..m - 1 : registry[j].name # name
    BY <1>1, <2>1
  <2>4. m # 0
    BY <1>1, <2>3
  <2>. QED
    BY <1>1, <1>2, <2>2, <2>3, <2>4
<1>. QED
  BY <1>3, <1>4

LEMMA SideEffects ==
  ASSUME NEW registry, IsRegistry(registry), NEW name
  PROVE  Llm!Registered(registry, name)
            <=> /\ Llm!LookupTool(registry, name) # <<>>
                /\ Llm!LookupTool(registry, name)[1].kind # "ReturnValue"
<1>. DEFINE spec == Llm!LookupTool(registry, name)
            L == Len(registry)
<1>1. L \in Nat /\ DOMAIN registry = 1..L
      /\ \A i \in 1..L : registry[i].kind \in {"SideEffect", "ReturnValue"}
  BY DEF IsRegistry
<1>2. CASE spec = <<>> /\ \A i \in DOMAIN registry : registry[i].name # name
  BY <1>1, <1>2 DEF Llm!Registered
<1>3. ASSUME NEW i \in DOMAIN registry, spec = <<registry[i]>>, registry[i].name = name,
             \A j \in 1..i - 1 : registry[j].name # name
      PROVE  Llm!Registered(registry, name) <=> spec # <<>> /\ spec[1].kind # "ReturnValue"
  <2>1. spec # <<>> /\ spec[1] = registry[i]
    BY <1>3, Single
  <2>. HIDE DEF spec
  <2>2. ASSUME NEW k \in DOMAIN registry, registry[k].name = name,
               \A j \in 1..k - 1 : registry[j].name # name
        PROVE  k = i
    <3>1. k \in 1..L /\ i \in 1..L /\ k \notin 1..i - 1 /\ i \notin 1..k - 1
      BY <1>1, <1>3, <2>2
    <3>. QED
      BY <1>1, <3>1
  <2>3. Llm!Registered(registry, name) => registry[i].kind = "SideEffect"
    BY <2>2 DEF Llm!Registered
  <2>4. registry[i].kind = "SideEffect" => Llm!Registered(registry, name)
    BY <1>3 DEF Llm!Registered
  <2>5. registry[i].kind \in {"SideEffect", "ReturnValue"}
    BY <1>1
  <2>. QED
    BY <2>1, <2>3, <2>4, <2>5
<1>. HIDE DEF spec
<1>. QED
  BY <1>2, <1>3, Looked DEF spec

\* What is looked for in the arguments is a text of theirs; a bare string is
\* found under any name.
LEMMA Extracted ==
  ASSUME NEW args, Llm!IsArguments(args), NEW keys, Len(keys) \in Nat
  PROVE  /\ \/ Llm!ExtractString(args, keys) = <<>>
            \/ \E t \in Llm!TextsGiven(args) :
                  t \in Llm!Texts /\ t # <<>> /\ Llm!ExtractString(args, keys) = <<t>>
         /\ args.json = "string" /\ Llm!TextsGiven(args) # {} =>
                Llm!ExtractString(args, keys) # <<>>
<1>. DEFINE text == Llm!ExtractString(args, keys)
<1>1. CASE args.json = "object" /\ \A k \in DOMAIN args.is : args.is[k] \in Llm!Texts
  <2>. DEFINE L == Len(keys)
              I == {i \in 1..L : keys[i] \in DOMAIN args.is /\ args.is[keys[i]] # <<>>}
              found == IF I # {} THEN Llm!Min(I) ELSE 0
  <2>1. text = IF found = 0 THEN <<>> ELSE <<args.is[keys[found]]>>
    BY <1>1, Zenon DEF Llm!ExtractString, Llm!SelectInSeq
  <2>2. I \in SUBSET (1..L)
    OBVIOUS
  <2>3. found # 0 => found \in I
    <3>. HIDE DEF I, L
    <3>. QED
      BY <2>2, First DEF L
  <2>. HIDE DEF found, text
  <2>4. ASSUME found # 0
        PROVE  \E t \in Llm!TextsGiven(args) : t \in Llm!Texts /\ t # <<>> /\ text = <<t>>
    <3>. DEFINE t == args.is[keys[found]]
    <3>1. keys[found] \in DOMAIN args.is /\ t # <<>>
      BY <2>3, <2>4
    <3>2. t \in Llm!TextsGiven(args)
      BY <1>1, <3>1 DEF Llm!TextsGiven
    <3>3. t \in Llm!Texts /\ text = <<t>>
      BY <1>1, <2>1, <2>4, <3>1
    <3>. QED
      BY <3>1, <3>2, <3>3
  <2>5. args.json # "string"
    BY <1>1
  <2>. QED
    BY <2>1, <2>4, <2>5 DEF text
<1>2. CASE args.json = "string" /\ args.is \in Llm!Texts
  <2>1. Llm!TextsGiven(args) = {args.is} \ {<<>>}
    BY <1>2 DEF Llm!TextsGiven
  <2>2. CASE args.is = <<>>
    <3>1. text = <<>>
      BY <1>2, <2>2, Zenon DEF Llm!ExtractString
    <3>. QED
      BY <2>1, <2>2, <3>1
  <2>3. CASE args.is # <<>>
    <3>1. text = <<args.is>>
      BY <1>2, <2>3, Zenon DEF Llm!ExtractString
    <3>2. text # <<>>
      BY <3>1, Single
    <3>. QED
      BY <1>2, <2>1, <2>3, <3>1, <3>2
  <2>. QED
    BY <2>2, <2>3
<1>3. CASE args.json = "null"
  <2>1. text = <<>>
    BY <1>3, Zenon DEF Llm!ExtractString
  <2>. QED
    BY <1>3, <2>1
<1>. QED
  BY <1>1, <1>2, <1>3 DEF Llm!IsArguments

\* A text stays one when it is closed by a newline.
LEMMA Flushed ==
  ASSUME NEW t \in Llm!Texts
  PROVE  Llm!Flushable(t) \in Llm!Texts
<1>. DEFINE s == Append(t, Llm!Newline)
            L == Len(t)
<1>1. t \in Seq(Bytes) /\ Llm!Utf8(t) /\ L \in Nat /\ DOMAIN t = 1..L
  BY DEF Llm!Texts, Bytes
<1>2. /\ s \in Seq(Bytes) /\ Len(s) = L + 1 /\ DOMAIN s = 1..L + 1
      /\ \A i \in 1..L : s[i] = t[i]
      /\ s[L + 1] = 10
  BY <1>1 DEF Bytes, Llm!Newline
<1>. HIDE DEF s, L
<1>3. ~Llm!IsLead(s[L + 1]) /\ ~Llm!IsContinuation(s[L + 1])
  BY <1>2 DEF Llm!IsLead, Llm!IsContinuation
<1>4. ASSUME NEW i \in DOMAIN s, Llm!IsLead(s[i])
      PROVE  i < Len(s) /\ Llm!IsContinuation(s[i + 1])
  <2>1. i # L + 1
    BY <1>3, <1>4
  <2>2. i \in 1..L /\ i < L + 1 /\ s[i] = t[i]
    BY <1>1, <1>2, <2>1
  <2>3. i < L /\ Llm!IsContinuation(t[i + 1])
    BY <1>1, <1>4, <2>2 DEF Llm!Utf8, L
  <2>4. i + 1 \in 1..L
    BY <1>1, <2>2, <2>3
  <2>. QED
    BY <1>2, <2>2, <2>3, <2>4
<1>5. ASSUME NEW i \in DOMAIN s, Llm!IsContinuation(s[i])
      PROVE  i > 1 /\ Llm!IsLead(s[i - 1])
  <2>1. i # L + 1
    BY <1>3, <1>5
  <2>2. i \in 1..L /\ s[i] = t[i]
    BY <1>1, <1>2, <2>1
  <2>3. i > 1 /\ Llm!IsLead(t[i - 1])
    BY <1>1, <1>5, <2>2 DEF Llm!Utf8, L
  <2>4. i - 1 \in 1..L
    BY <1>1, <2>2, <2>3
  <2>. QED
    BY <1>2, <2>3, <2>4
<1>6. \A i \in DOMAIN s : s[i] <= Llm!AsciiMax \/ Llm!IsLead(s[i]) \/ Llm!IsContinuation(s[i])
  <2>1. s[L + 1] <= Llm!AsciiMax
    BY <1>2 DEF Llm!AsciiMax
  <2>2. \A i \in 1..L : t[i] <= Llm!AsciiMax \/ Llm!IsLead(t[i]) \/ Llm!IsContinuation(t[i])
    BY <1>1 DEF Llm!Utf8
  <2>3. \A i \in 1..L + 1 : i = L + 1 \/ i \in 1..L
    BY <1>1
  <2>. QED
    BY <1>2, <2>1, <2>2, <2>3
<1>7. s \in Llm!Texts
  BY <1>2, <1>4, <1>5, <1>6 DEF Llm!Texts, Llm!Utf8, Bytes
<1>. QED
  BY <1>7 DEF Llm!Flushable, s

IsCall(registry, call) ==
    IsRegistry(registry) /\ call.name \in STRING /\ Llm!IsArguments(call.args)

Motion(t) == <<[kind |-> "Json", is |-> [kind |-> "motion_intent", prompt |-> t]]>>

\* What a tool makes of the text it was given.
Shape(name, t, channel, all) ==
    \/ name = "say" /\ all = Llm!Said(Llm!Flushable(t), channel)
    \/ name = "show" /\ all = <<Llm!TextOutput(Llm!TagText(t, UiChannel))>>
    \/ name = "perform_motion" /\ all = Motion(t)

LEMMA Emitted ==
  ASSUME NEW registry, NEW call, NEW channel, IsCall(registry, call)
  PROVE  LET all == Llm!Emissions(registry, call, channel)
             texts == Llm!TextsGiven(call.args)
         IN  /\ \/ all = <<>>
                \/ /\ Llm!Registered(registry, call.name)
                   /\ \E t \in texts : t \in Llm!Texts /\ t # <<>> /\ Shape(call.name, t, channel, all)
             /\ /\ Llm!Registered(registry, call.name) /\ call.name \in DOMAIN Llm!Keys
                /\ call.args.json = "string" /\ texts # {}
                => all # <<>>
<1>. DEFINE name == call.name
            all == Llm!Emissions(registry, call, channel)
            texts == Llm!TextsGiven(call.args)
            spec == Llm!LookupTool(registry, name)
            text == Llm!ExtractString(call.args, Llm!Keys[name])
            none == \/ name = "" \/ spec = <<>> \/ spec[1].kind = "ReturnValue"
                    \/ name \notin DOMAIN Llm!Keys \/ text = <<>>
<1>1. none => all = <<>>
  BY Zenon DEF Llm!Emissions
<1>2. ~none => Llm!Registered(registry, name) /\ name \in {"say", "show", "perform_motion"}
  BY SideEffects DEF IsCall, Llm!Keys
<1>3. name \in {"say", "show", "perform_motion"} => Len(Llm!Keys[name]) \in Nat
  <2>1. /\ Len(<<"text", "content", "message", "body", "spoken">>) \in Nat
        /\ Len(<<"content", "markdown", "text", "body">>) \in Nat
        /\ Len(<<"prompt", "description", "action">>) \in Nat
    OBVIOUS
  <2>. QED
    BY <2>1 DEF Llm!Keys
<1>4. name \in {"say", "show", "perform_motion"} =>
        /\ \/ text = <<>>
           \/ \E t \in texts : t \in Llm!Texts /\ t # <<>> /\ text = <<t>>
        /\ call.args.json = "string" /\ texts # {} => text # <<>>
  BY <1>3, Extracted DEF IsCall
<1>5. ASSUME ~none, name = "say", NEW t, text = <<t>>
      PROVE  all = Llm!Said(Llm!Flushable(t), channel)
  <2>1. all = Llm!Said(Llm!Flushable(text[1]), channel)
    BY <1>5, Zenon DEF Llm!Emissions
  <2>2. text[1] = t
    BY <1>5, Single
  <2>. QED
    BY <2>1, <2>2, Zenon
<1>6. ASSUME ~none, name = "show", NEW t, text = <<t>>
      PROVE  all = <<Llm!TextOutput(Llm!TagText(t, UiChannel))>>
  <2>1. name # "say"
    BY <1>6
  <2>2. all = <<Llm!TextOutput(Llm!TagText(text[1], UiChannel))>>
    BY <1>6, <2>1, Zenon DEF Llm!Emissions
  <2>3. text[1] = t
    BY <1>6, Single
  <2>. QED
    BY <2>2, <2>3, Zenon
<1>7. ASSUME ~none, name = "perform_motion", NEW t, text = <<t>>
      PROVE  all = Motion(t)
  <2>1. name # "say" /\ name # "show"
    BY <1>7
  <2>2. all = <<[kind |-> "Json", is |-> [kind |-> "motion_intent", prompt |-> text[1]]]>>
    BY <1>7, <2>1, Zenon DEF Llm!Emissions
  <2>3. text[1] = t
    BY <1>7, Single
  <2>. QED
    BY <2>2, <2>3, Zenon DEF Motion
<1>8. ASSUME ~none, NEW t, text = <<t>> PROVE Shape(name, t, channel, all) /\ all # <<>>
  <2>1. CASE name = "say"
    <3>1. Llm!Said(Llm!Flushable(t), channel) # <<>>
      BY DEF Llm!Said
    <3>. QED
      BY <1>5, <1>8, <2>1, <3>1, Zenon DEF Shape
  <2>2. CASE name = "show"
    BY <1>6, <1>8, <2>2, Single, Zenon DEF Shape
  <2>3. CASE name = "perform_motion"
    BY <1>7, <1>8, <2>3, Single, Zenon DEF Shape, Motion
  <2>. QED
    BY <1>2, <1>8, <2>1, <2>2, <2>3
<1>9. CASE none
  <2>1. /\ Llm!Registered(registry, name) /\ name \in DOMAIN Llm!Keys
        /\ call.args.json = "string" /\ texts # {}
        => FALSE
    <3>1. name \in DOMAIN Llm!Keys => name \in {"say", "show", "perform_motion"} /\ name # ""
      BY DEF Llm!Keys
    <3>2. Llm!Registered(registry, name) => spec # <<>> /\ spec[1].kind # "ReturnValue"
      BY SideEffects DEF IsCall
    <3>. HIDE DEF text, texts, spec
    <3>. QED
      BY <1>4, <1>9, <3>1, <3>2
  <2>. QED
    BY <1>1, <1>9, <2>1
<1>10. CASE ~none
  <2>1. PICK t \in texts : t \in Llm!Texts /\ t # <<>> /\ text = <<t>>
    BY <1>2, <1>4, <1>10
  <2>2. Shape(name, t, channel, all) /\ all # <<>>
    BY <1>8, <1>10, <2>1
  <2>. HIDE DEF all, texts
  <2>. QED
    BY <1>2, <1>10, <2>1, <2>2 DEF all, texts
<1>. QED
  BY <1>9, <1>10

\* A dispatch sends all, or what comes before the first thing that fails.
LEMMA Ends ==
  ASSUME NEW registry, NEW call, NEW channel, NEW fails \in Nat, NEW S,
         Llm!Emissions(registry, call, channel) \in Seq(S)
  PROVE  LET all == Llm!Emissions(registry, call, channel)
             out == Llm!Dispatch(registry, call, channel, fails)
         IN  \/ /\ out = [emitted |-> all, ok |-> TRUE] /\ fails \notin DOMAIN all
                /\ \A i \in DOMAIN all : all[i].kind # "Panic"
             \/ \E e \in DOMAIN all :
                    /\ out = [emitted |-> SubSeq(all, 1, e - 1), ok |-> FALSE]
                    /\ Len(SubSeq(all, 1, e - 1)) = e - 1
                    /\ e = fails \/ all[e].kind = "Panic"
                    /\ fails \in DOMAIN all => e <= fails
<1>. DEFINE all == Llm!Emissions(registry, call, channel)
            out == Llm!Dispatch(registry, call, channel, fails)
            L == Len(all)
            I == {i \in 1..L : all[i].kind = "Panic"}
            panic == IF I # {} THEN Llm!Min(I) ELSE 0
            ends == {k \in {panic, fails} : k \in DOMAIN all}
<1>1. L \in Nat /\ DOMAIN all = 1..L
  OBVIOUS
<1>2. out = IF ends = {} THEN [emitted |-> all, ok |-> TRUE]
            ELSE [emitted |-> SubSeq(all, 1, Llm!Min(ends) - 1), ok |-> FALSE]
  BY Zenon DEF Llm!Dispatch, Llm!SelectInSeq
<1>3. (panic # 0 => panic \in I) /\ (I # {} => panic \in I)
  <2>1. I \in SUBSET (1..L)
    OBVIOUS
  <2>. HIDE DEF I, L
  <2>. QED
    BY <1>1, <2>1, First
<1>4. CASE ends = {}
  <2>1. out = [emitted |-> all, ok |-> TRUE] /\ fails \notin DOMAIN all /\ panic \notin DOMAIN all
    BY <1>2, <1>4
  <2>2. I \in SUBSET (DOMAIN all)
    BY <1>1
  <2>3. I = {}
    <3>. HIDE DEF I, panic
    <3>. QED
      BY <1>3, <2>1, <2>2
  <2>4. \A i \in DOMAIN all : all[i].kind # "Panic"
    <3>. HIDE DEF out, all
    <3>. QED
      BY <1>1, <2>3
  <2>. QED
    BY <2>1, <2>4
<1>5. CASE ends # {}
  <2>. DEFINE e == Llm!Min(ends)
  <2>1. ends \in SUBSET (1..L)
    BY <1>1
  <2>2. e \in ends /\ \A k \in ends : e <= k
    <3>. HIDE DEF ends, L
    <3>. QED
      BY <1>1, <1>5, <2>1, First
  <2>3. out = [emitted |-> SubSeq(all, 1, e - 1), ok |-> FALSE]
    BY <1>2, <1>5
  <2>. HIDE DEF e, out, panic
  <2>4. e \in 1..L /\ (e = fails \/ e = panic) /\ (fails \in 1..L => e <= fails)
    BY <1>1, <2>2
  <2>5. e = fails \/ all[e].kind = "Panic"
    BY <1>3, <2>4
  <2>6. Len(SubSeq(all, 1, e - 1)) = e - 1
    <3>1. \A i \in 1..e - 1 : all[i] \in S
      BY <1>1, <2>4
    <3>. DEFINE v == IF 1 <= e - 1 THEN (e - 1) - 1 + 1 ELSE 0
    <3>2. Len(SubSeq(all, 1, e - 1)) = v
      <4>1. 1 \in Int /\ e - 1 \in Int
        BY <2>4
      <4>. QED
        BY <3>1, <4>1, SubSeqProperties
    <3>3. v = e - 1
      BY <1>1, <2>4
    <3>. HIDE DEF v
    <3>. QED
      BY <3>2, <3>3
  <2>. QED
    BY <1>1, <2>3, <2>4, <2>5, <2>6 DEF out
<1>. QED
  BY <1>4, <1>5

\* A text sent to a channel whose name fits is heard there.
LEMMA Heard ==
  ASSUME Llm!ToolsAssumption, NEW texts, NEW t \in texts, t \in Llm!Texts,
         NEW channel \in Llm!Texts, Len(channel) \in 1..Llm!AsciiMax
  PROVE  Llm!HeardOn(Llm!TextOutput(Llm!TagText(Llm!Flushable(t), channel)), channel, texts)
<1>. DEFINE f == Llm!Flushable(t)
            tagged == Llm!TagText(f, channel)
            output == Llm!TextOutput(tagged)
<1>1. f \in Llm!Texts
  BY Flushed
<1>2. Llm!ChannelKept(f, channel)
  <2>. HIDE DEF f
  <2>. QED
    BY <1>1, ChannelsKept
<1>3. Len(channel) <= Llm!AsciiMax
  BY AsciiLength, Zenon
<1>4. tagged # <<>>
  BY <1>2, <1>3 DEF Llm!ChannelKept
<1>. HIDE DEF tagged
<1>5. output.kind = "Text" /\ output.is = tagged[1]
  BY <1>4 DEF Llm!TextOutput
<1>6. ~Llm!Headed(f) => Llm!SplitText(output.is) = <<channel, f>>
  BY <1>2, <1>5 DEF Llm!ChannelKept, tagged
<1>. HIDE DEF output
<1>. QED
  BY <1>5, <1>6 DEF Llm!HeardOn, output, tagged

\* With a channel whose name fits nothing panics.
LEMMA Sound ==
  ASSUME Llm!ToolsAssumption, NEW name, NEW t \in Llm!Texts, NEW channel \in Llm!Texts,
         NEW all, Shape(name, t, channel, all)
  PROVE  /\ Len(all) \in Nat /\ DOMAIN all = 1..Len(all) /\ \E S : all \in Seq(S)
         /\ Len(channel) <= Llm!AsciiMax => \A i \in DOMAIN all : all[i].kind # "Panic"
         /\ name = "say" /\ ~(Len(channel) <= Llm!AsciiMax) =>
                \E i \in DOMAIN all : all[i].kind = "Panic"
<1>. DEFINE Fine(o) == o.kind # "Panic"
            fits == Len(channel) <= Llm!AsciiMax
<1>1. Llm!Flushable(t) \in Llm!Texts
  BY Flushed
<1>2. UiChannel \in Llm!Texts /\ Len(UiChannel) <= Llm!AsciiMax
      /\ DefaultChannel \in Llm!Texts /\ Len(DefaultChannel) <= Llm!AsciiMax
  BY AsciiLength, Zenon DEF Llm!ToolsAssumption
<1>3. ASSUME NEW f \in Llm!Texts, NEW c \in Llm!Texts, Len(c) <= Llm!AsciiMax
      PROVE  Fine(Llm!TextOutput(Llm!TagText(f, c)))
  <2>1. Llm!TagText(f, c) # <<>>
    BY <1>3, Tagged
  <2>. QED
    BY <2>1 DEF Llm!TextOutput
<1>4. CASE name = "say" /\ all = Llm!Said(Llm!Flushable(t), channel)
  <2>. DEFINE x == Llm!TextOutput(Llm!TagText(Llm!Flushable(t), channel))
              y == Llm!TextOutput(Llm!TagText(Llm!Flushable(t), DefaultChannel))
  <2>1. (fits => Fine(x)) /\ Fine(y)
    <3>. HIDE DEF Fine
    <3>. QED
      BY <1>1, <1>2, <1>3
  <2>2. all = <<x>> \/ all = <<x, y>>
    BY <1>4 DEF Llm!Said
  <2>3. ~fits => x.kind = "Panic"
    <3>1. ~fits => Llm!TagText(Llm!Flushable(t), channel) = <<>>
      BY <1>1, TooLong, Zenon
    <3>. QED
      BY <3>1 DEF Llm!TextOutput
  <2>. HIDE DEF x, y, fits
  <2>4. /\ Len(all) \in Nat /\ DOMAIN all = 1..Len(all) /\ \E S : all \in Seq(S)
        /\ \A i \in DOMAIN all : all[i] = x \/ all[i] = y
    BY <2>2, Listed
  <2>5. 1 \in DOMAIN all /\ all[1] = x
    BY <2>2, Single, Pairs
  <2>6. ~fits => \E i \in DOMAIN all : all[i].kind = "Panic"
    BY <2>3, <2>5
  <2>7. fits => \A i \in DOMAIN all : all[i].kind # "Panic"
    BY <2>1, <2>4
  <2>. QED
    BY <2>4, <2>6, <2>7, Zenon DEF fits
<1>5. CASE name = "show" /\ all = <<Llm!TextOutput(Llm!TagText(t, UiChannel))>>
  <2>. DEFINE x == Llm!TextOutput(Llm!TagText(t, UiChannel))
  <2>1. Fine(x)
    <3>. HIDE DEF Fine
    <3>. QED
      BY <1>2, <1>3
  <2>2. all = <<x>>
    BY <1>5
  <2>. HIDE DEF x
  <2>3. /\ Len(all) \in Nat /\ DOMAIN all = 1..Len(all) /\ \E S : all \in Seq(S)
        /\ \A i \in DOMAIN all : all[i] = x
    BY <2>2, Listed
  <2>. QED
    BY <1>5, <2>1, <2>3
<1>6. CASE name = "perform_motion" /\ all = Motion(t)
  <2>. DEFINE x == [kind |-> "Json", is |-> [kind |-> "motion_intent", prompt |-> t]]
  <2>1. Fine(x)
    OBVIOUS
  <2>2. all = <<x>>
    BY <1>6 DEF Motion
  <2>. HIDE DEF x
  <2>3. /\ Len(all) \in Nat /\ DOMAIN all = 1..Len(all) /\ \E S : all \in Seq(S)
        /\ \A i \in DOMAIN all : all[i] = x
    BY <2>2, Listed
  <2>. QED
    BY <1>6, <2>1, <2>3
<1>. QED
  BY <1>4, <1>5, <1>6 DEF Shape

\* What a finished dispatch sent is heard where it is for.
LEMMA Told ==
  ASSUME Llm!ToolsAssumption, NEW name, NEW texts, NEW t \in texts, t \in Llm!Texts,
         NEW channel \in Llm!Texts, NEW all, Shape(name, t, channel, all)
  PROVE  /\ name = "say" /\ Len(channel) \in 1..Llm!AsciiMax =>
                /\ Llm!HeardOn(all[1], channel, texts)
                /\ IF channel = DefaultChannel THEN Len(all) = 1
                   ELSE Len(all) = 2 /\ Llm!HeardOn(all[2], DefaultChannel, texts)
         /\ name = "show" =>
                /\ Len(all) = 1 /\ all[1].kind = "Text"
                /\ \E s \in texts : Llm!SplitText(all[1].is) = <<UiChannel, s>>
         /\ name = "perform_motion" =>
                Len(all) = 1 /\ all[1].kind = "Json" /\ all[1].is.prompt \in texts
<1>1. CASE name = "say" /\ all = Llm!Said(Llm!Flushable(t), channel)
  <2>. DEFINE x == Llm!TextOutput(Llm!TagText(Llm!Flushable(t), channel))
              y == Llm!TextOutput(Llm!TagText(Llm!Flushable(t), DefaultChannel))
  <2>1. Len(channel) \in 1..Llm!AsciiMax => Llm!HeardOn(x, channel, texts)
    BY Heard, Zenon
  <2>2. Llm!HeardOn(y, DefaultChannel, texts)
    <3>1. DefaultChannel \in Llm!Texts /\ Len(DefaultChannel) \in 1..Llm!AsciiMax
      BY DEF Llm!ToolsAssumption
    <3>. QED
      BY <3>1, Heard
  <2>3. IF channel = DefaultChannel THEN all = <<x>> ELSE all = <<x, y>>
    BY <1>1 DEF Llm!Said
  <2>. HIDE DEF x, y
  <2>. QED
    BY <1>1, <2>1, <2>2, <2>3, Single, Pairs
<1>2. CASE name = "show" /\ all = <<Llm!TextOutput(Llm!TagText(t, UiChannel))>>
  <2>. DEFINE tagged == Llm!TagText(t, UiChannel)
              x == Llm!TextOutput(tagged)
  <2>1. /\ UiChannel \in Llm!Texts /\ Len(UiChannel) \in 1..Llm!AsciiMax
        /\ Len(UiChannel) <= Llm!AsciiMax /\ UiChannel # DefaultChannel
    BY AsciiLength, Zenon DEF Llm!ToolsAssumption
  <2>2. Llm!ChannelKept(t, UiChannel)
    BY <2>1, ChannelsKept
  <2>3. tagged # <<>> /\ Llm!SplitText(tagged[1]) = <<UiChannel, t>>
    BY <2>1, <2>2 DEF Llm!ChannelKept
  <2>. HIDE DEF tagged
  <2>4. x.kind = "Text" /\ Llm!SplitText(x.is) = <<UiChannel, t>>
    BY <2>3 DEF Llm!TextOutput
  <2>5. all = <<x>>
    BY <1>2 DEF tagged
  <2>. HIDE DEF x
  <2>. QED
    BY <1>2, <2>4, <2>5, Single
<1>3. CASE name = "perform_motion" /\ all = Motion(t)
  <2>. DEFINE x == [kind |-> "Json", is |-> [kind |-> "motion_intent", prompt |-> t]]
  <2>1. x.kind = "Json" /\ x.is.prompt \in texts
    OBVIOUS
  <2>2. all = <<x>>
    BY <1>3 DEF Motion
  <2>. HIDE DEF x
  <2>. QED
    BY <1>3, <2>1, <2>2, Single
<1>. QED
  BY <1>1, <1>2, <1>3 DEF Shape

(* A call of a registered tool is heard on the channels it is for, once on   *)
(* each; no other call is, and after a failure nothing is (tool_dispatch.rs  *)
(* 36-190).                                                                   *)
THEOREM CallsDispatched ==
  ASSUME Llm!ToolsAssumption, NEW registry, NEW call, IsCall(registry, call),
         NEW channel \in Llm!Texts, NEW fails \in Nat
  PROVE  Llm!Dispatched(registry, call, channel, fails)
<1>. DEFINE all == Llm!Emissions(registry, call, channel)
            out == Llm!Dispatch(registry, call, channel, fails)
            texts == Llm!TextsGiven(call.args)
            name == call.name
            c == Len(channel)
            L == Len(all)
            some == Llm!Registered(registry, name) /\ texts # {}
<1>1. \/ all = <<>>
      \/ /\ Llm!Registered(registry, name)
         /\ \E t \in texts : t \in Llm!Texts /\ t # <<>> /\ Shape(name, t, channel, all)
  BY Emitted
<1>2. /\ Llm!Registered(registry, name) /\ name \in DOMAIN Llm!Keys
      /\ call.args.json = "string" /\ texts # {}
      => all # <<>>
  BY Emitted
<1>3. c \in Nat /\ Llm!AsciiMax \in Nat
  BY AsciiLength DEF Llm!Texts
<1>4. /\ L \in Nat /\ DOMAIN all = 1..L /\ \E S : all \in Seq(S)
      /\ c <= Llm!AsciiMax => \A i \in 1..L : all[i].kind # "Panic"
      /\ all # <<>> => some
      /\ all # <<>> /\ name = "say" /\ (\A i \in 1..L : all[i].kind # "Panic") => c <= Llm!AsciiMax
  <2>. HIDE DEF all, texts
  <2>1. CASE all = <<>>
    <3>1. Len(<<>>) = 0 /\ DOMAIN <<>> = 1..0 /\ <<>> \in Seq({})
      BY EmptySeq
    <3>. QED
      BY <2>1, <3>1
  <2>2. CASE all # <<>>
    <3>1. PICK t \in texts : t \in Llm!Texts /\ t # <<>> /\ Shape(name, t, channel, all)
      BY <1>1, <2>2
    <3>. QED
      BY <1>1, <2>2, <3>1, Sound
  <2>. QED
    BY <2>1, <2>2
<1>5. \/ /\ out = [emitted |-> all, ok |-> TRUE] /\ fails \notin 1..L
         /\ \A i \in 1..L : all[i].kind # "Panic"
      \/ \E e \in 1..L :
            /\ out = [emitted |-> SubSeq(all, 1, e - 1), ok |-> FALSE]
            /\ Len(SubSeq(all, 1, e - 1)) = e - 1
            /\ e = fails \/ all[e].kind = "Panic"
            /\ fails \in 1..L => e <= fails
  <2>1. PICK S : all \in Seq(S)
    BY <1>4
  <2>2. \/ /\ out = [emitted |-> all, ok |-> TRUE] /\ fails \notin DOMAIN all
           /\ \A i \in DOMAIN all : all[i].kind # "Panic"
        \/ \E e \in DOMAIN all :
                /\ out = [emitted |-> SubSeq(all, 1, e - 1), ok |-> FALSE]
                /\ Len(SubSeq(all, 1, e - 1)) = e - 1
                /\ e = fails \/ all[e].kind = "Panic"
                /\ fails \in DOMAIN all => e <= fails
    BY <2>1, Ends
  <2>3. DOMAIN all = 1..L
    BY <1>4
  <2>. HIDE DEF all, out, L
  <2>. QED
    BY <2>2, <2>3, Zenon
<1>6. CASE /\ out = [emitted |-> all, ok |-> TRUE] /\ fails \notin 1..L
           /\ \A i \in 1..L : all[i].kind # "Panic"
  <2>1. out.emitted = all /\ out.ok
    BY <1>6
  <2>2. fails # 0 => L < fails
    <3>. HIDE DEF L
    <3>. QED
      BY <1>4, <1>6
  <2>3. all # <<>> /\ channel # <<>> =>
            /\ name = "say" =>
                /\ c <= Llm!AsciiMax
                /\ Llm!HeardOn(all[1], channel, texts)
                /\ IF channel = DefaultChannel THEN Len(all) = 1
                   ELSE Len(all) = 2 /\ Llm!HeardOn(all[2], DefaultChannel, texts)
            /\ name = "show" =>
                /\ Len(all) = 1 /\ all[1].kind = "Text"
                /\ \E s \in texts : Llm!SplitText(all[1].is) = <<UiChannel, s>>
            /\ name = "perform_motion" =>
                Len(all) = 1 /\ all[1].kind = "Json" /\ all[1].is.prompt \in texts
    <3>. HIDE DEF all, texts, name
    <3>. SUFFICES ASSUME all # <<>>, channel # <<>>
                  PROVE  /\ name = "say" =>
                            /\ c <= Llm!AsciiMax
                            /\ Llm!HeardOn(all[1], channel, texts)
                            /\ IF channel = DefaultChannel THEN Len(all) = 1
                               ELSE Len(all) = 2 /\ Llm!HeardOn(all[2], DefaultChannel, texts)
                         /\ name = "show" =>
                            /\ Len(all) = 1 /\ all[1].kind = "Text"
                            /\ \E s \in texts : Llm!SplitText(all[1].is) = <<UiChannel, s>>
                         /\ name = "perform_motion" =>
                            Len(all) = 1 /\ all[1].kind = "Json" /\ all[1].is.prompt \in texts
      OBVIOUS
    <3>1. PICK t \in texts : t \in Llm!Texts /\ Shape(name, t, channel, all)
      BY <1>1
    <3>2. name = "say" => c <= Llm!AsciiMax
      BY <1>4, <1>6
    <3>3. c # 0
      <4>1. \A q \in Seq(Bytes) : Len(q) = 0 => q = <<>>
        BY EmptySeq
      <4>2. channel \in Seq(Bytes)
        BY DEF Llm!Texts, Bytes
      <4>. QED
        BY <4>1, <4>2, Zenon
    <3>4. name = "say" => c \in 1..Llm!AsciiMax
      BY <1>3, <3>2, <3>3, AsciiLength, Zenon
    <3>5. /\ name = "say" /\ c \in 1..Llm!AsciiMax =>
                /\ Llm!HeardOn(all[1], channel, texts)
                /\ IF channel = DefaultChannel THEN Len(all) = 1
                   ELSE Len(all) = 2 /\ Llm!HeardOn(all[2], DefaultChannel, texts)
          /\ name = "show" =>
                /\ Len(all) = 1 /\ all[1].kind = "Text"
                /\ \E s \in texts : Llm!SplitText(all[1].is) = <<UiChannel, s>>
          /\ name = "perform_motion" =>
                Len(all) = 1 /\ all[1].kind = "Json" /\ all[1].is.prompt \in texts
      BY <3>1, Told
    <3>. QED
      BY <3>2, <3>4, <3>5, Zenon
  <2>. HIDE DEF all, texts, name, out
  <2>. QED
    BY <1>2, <1>4, <2>1, <2>2, <2>3 DEF Llm!Dispatched, all, texts, name, out
<1>7. ASSUME NEW e \in 1..L,
             out = [emitted |-> SubSeq(all, 1, e - 1), ok |-> FALSE],
             Len(SubSeq(all, 1, e - 1)) = e - 1,
             e = fails \/ all[e].kind = "Panic",
             fails \in 1..L => e <= fails
      PROVE  Llm!Dispatched(registry, call, channel, fails)
  <2>. DEFINE sent == SubSeq(all, 1, e - 1)
  <2>1. out.emitted = sent /\ ~out.ok
    BY <1>7
  <2>2. fails # 0 => e - 1 < fails
    <3>. HIDE DEF L
    <3>. QED
      BY <1>4, <1>7
  <2>3. c <= Llm!AsciiMax => fails = (e - 1) + 1
    <3>1. c <= Llm!AsciiMax => e = fails
      BY <1>4, <1>7
    <3>. HIDE DEF L
    <3>. QED
      BY <1>4, <3>1
  <2>4. all # <<>>
    <3>1. Len(<<>>) = 0
      BY EmptySeq
    <3>2. L # 0
      BY <1>4
    <3>. HIDE DEF all
    <3>. QED
      BY <3>1, <3>2
  <2>5. Len(sent) = e - 1
    BY <1>7
  <2>. HIDE DEF all, texts, name, out, sent
  <2>. QED
    BY <1>2, <1>4, <2>1, <2>2, <2>3, <2>4, <2>5 DEF Llm!Dispatched, all, texts, name, out
<1>. QED
  BY <1>5, <1>6, <1>7

\* A built-in tool is given its text under the name that is looked for.
LEMMA RequiredFound ==
  ASSUME NEW keys, Len(keys) \in Nat, NEW k, \E i \in 1..Len(keys) : keys[i] = k,
         NEW text, text # <<>>
  PROVE  Llm!ExtractString([json |-> "object", is |-> [x \in {k} |-> text]], keys) # <<>>
<1>. DEFINE args == [json |-> "object", is |-> [x \in {k} |-> text]]
            L == Len(keys)
            I == {i \in 1..L : keys[i] \in DOMAIN args.is /\ args.is[keys[i]] # <<>>}
            found == IF I # {} THEN Llm!Min(I) ELSE 0
<1>1. args.json = "object" /\ args.is = [x \in {k} |-> text]
  OBVIOUS
<1>. HIDE DEF args
<1>2. Llm!ExtractString(args, keys) = IF found = 0 THEN <<>> ELSE <<args.is[keys[found]]>>
  BY <1>1, Zenon DEF Llm!ExtractString, Llm!SelectInSeq
<1>3. I # {} /\ I \in SUBSET (1..L)
  BY <1>1
<1>4. found \in I
  <2>. HIDE DEF I
  <2>1. Llm!Min(I) \in I
    BY <1>3, First
  <2>. QED
    BY <1>3, <2>1
<1>5. found # 0
  BY <1>4
<1>. HIDE DEF found
<1>. QED
  BY <1>2, <1>5, Single DEF args

(* A call that gives a built-in tool the argument it requires is never       *)
(* dropped (tool_spec.rs; tool_dispatch.rs 36-190).                          *)
THEOREM RequiredUnderstood ==
  ASSUME NEW i \in DOMAIN Llm!DefaultTools, NEW text
  PROVE  Llm!Understood(Llm!DefaultTools[i], text)
<1>. DEFINE tools == Llm!DefaultTools
            spec == tools[i]
            args == [json |-> "object", is |-> [k \in {spec.required} |-> text]]
            call == [name |-> spec.name, args |-> args]
<1>. SUFFICES ASSUME text # <<>>
              PROVE  Llm!Emissions(tools, call, DefaultChannel) # <<>>
  BY DEF Llm!Understood
<1>1. /\ DOMAIN tools = 1..3 /\ Len(tools) = 3
      /\ tools[1] = [name |-> "say", kind |-> "SideEffect", required |-> "text", cancelable |-> TRUE]
      /\ tools[2] = [name |-> "show", kind |-> "SideEffect", required |-> "content",
                     cancelable |-> TRUE]
      /\ tools[3] = [name |-> "perform_motion", kind |-> "SideEffect", required |-> "prompt",
                     cancelable |-> FALSE]
  BY DEF Llm!DefaultTools
<1>2. i \in 1..3
  BY <1>1
<1>. HIDE DEF tools
<1>3. IsRegistry(tools)
  BY <1>1 DEF IsRegistry
<1>4. spec.name \in {"say", "show", "perform_motion"} /\ spec.kind = "SideEffect"
  BY <1>1, <1>2
<1>5. Llm!LookupTool(tools, spec.name) # <<>>
  <2>1. \E k \in DOMAIN tools : tools[k].name = spec.name
    BY <1>1, <1>2
  <2>2. \A k \in DOMAIN tools : <<tools[k]>> # <<>>
    BY Single
  <2>. DEFINE name == spec.name
              found == Llm!LookupTool(tools, name)
  <2>3. \/ found = <<>> /\ \A k \in DOMAIN tools : tools[k].name # name
        \/ \E k \in DOMAIN tools : found = <<tools[k]>>
    <3>. HIDE DEF spec, name
    <3>. QED
      BY <1>3, Looked
  <2>4. \E k \in DOMAIN tools : tools[k].name = name
    BY <2>1
  <2>. HIDE DEF spec, found, name
  <2>5. found # <<>>
    BY <2>2, <2>3, <2>4
  <2>. QED
    BY <2>5 DEF found, name
<1>6. Llm!Registered(tools, spec.name)
  <2>1. \A k \in DOMAIN tools : tools[k].kind = "SideEffect"
    BY <1>1
  <2>2. PICK k \in DOMAIN tools : /\ tools[k].name = spec.name
                                  /\ \A j \in 1..k - 1 : tools[j].name # spec.name
    <3>. HIDE DEF spec
    <3>. QED
      BY <1>3, <1>5, Looked
  <2>. QED
    BY <2>1, <2>2 DEF Llm!Registered
<1>7. Llm!ExtractString(args, Llm!Keys[spec.name]) # <<>>
  <2>1. CASE i = 1
    <3>. DEFINE keys == <<"text", "content", "message", "body", "spoken">>
    <3>1. Len(keys) \in Nat /\ Len(keys) = 5 /\ keys[1] = "text"
      OBVIOUS
    <3>2. Llm!Keys[spec.name] = keys /\ spec.required = "text"
      BY <1>1, <2>1 DEF Llm!Keys
    <3>. HIDE DEF keys, spec
    <3>3. \E k \in 1..Len(keys) : keys[k] = spec.required
      BY <3>1, <3>2
    <3>. QED
      BY <3>1, <3>2, <3>3, RequiredFound
  <2>2. CASE i = 2
    <3>. DEFINE keys == <<"content", "markdown", "text", "body">>
    <3>1. Len(keys) \in Nat /\ Len(keys) = 4 /\ keys[1] = "content"
      OBVIOUS
    <3>2. Llm!Keys[spec.name] = keys /\ spec.required = "content"
      BY <1>1, <2>2 DEF Llm!Keys
    <3>. HIDE DEF keys, spec
    <3>3. \E k \in 1..Len(keys) : keys[k] = spec.required
      BY <3>1, <3>2
    <3>. QED
      BY <3>1, <3>2, <3>3, RequiredFound
  <2>3. CASE i = 3
    <3>. DEFINE keys == <<"prompt", "description", "action">>
    <3>1. Len(keys) \in Nat /\ Len(keys) = 3 /\ keys[1] = "prompt"
      OBVIOUS
    <3>2. Llm!Keys[spec.name] = keys /\ spec.required = "prompt"
      BY <1>1, <2>3 DEF Llm!Keys
    <3>. HIDE DEF keys, spec
    <3>3. \E k \in 1..Len(keys) : keys[k] = spec.required
      BY <3>1, <3>2
    <3>. QED
      BY <3>1, <3>2, <3>3, RequiredFound
  <2>. QED
    BY <1>2, <2>1, <2>2, <2>3
<1>8. Llm!Emissions(tools, call, DefaultChannel) # <<>>
  <2>. DEFINE t == Llm!ExtractString(args, Llm!Keys[spec.name])[1]
  <2>1. spec.name \in DOMAIN Llm!Keys /\ spec.name # ""
    BY <1>4 DEF Llm!Keys
  <2>2. /\ Llm!LookupTool(tools, spec.name) # <<>>
        /\ Llm!LookupTool(tools, spec.name)[1].kind # "ReturnValue"
    BY <1>3, <1>6, SideEffects
  <2>3. call.name = spec.name /\ call.args = args
    OBVIOUS
  <2>. HIDE DEF call, args, spec
  <2>4. CASE spec.name = "say"
    <3>1. Llm!Emissions(tools, call, DefaultChannel) = Llm!Said(Llm!Flushable(t), DefaultChannel)
      BY <1>7, <2>1, <2>2, <2>3, <2>4, Zenon DEF Llm!Emissions
    <3>2. Llm!Said(Llm!Flushable(t), DefaultChannel) # <<>>
      BY DEF Llm!Said
    <3>. QED
      BY <3>1, <3>2
  <2>5. CASE spec.name = "show"
    <3>1. spec.name # "say"
      BY <2>5
    <3>2. Llm!Emissions(tools, call, DefaultChannel) = <<Llm!TextOutput(Llm!TagText(t, UiChannel))>>
      BY <1>7, <2>1, <2>2, <2>3, <2>5, <3>1, Zenon DEF Llm!Emissions
    <3>. QED
      BY <3>2, Single
  <2>6. CASE spec.name = "perform_motion"
    <3>1. spec.name # "say" /\ spec.name # "show"
      BY <2>6
    <3>2. Llm!Emissions(tools, call, DefaultChannel)
            = <<[kind |-> "Json", is |-> [kind |-> "motion_intent", prompt |-> t]]>>
      BY <1>7, <2>1, <2>2, <2>3, <2>6, <3>1, Zenon DEF Llm!Emissions
    <3>. QED
      BY <3>2, Single
  <2>. QED
    BY <1>4, <2>4, <2>5, <2>6 DEF spec
<1>. QED
  BY <1>8 DEF tools

-----------------------------------------------------------------------------
(* The blobs of a Python runner *)

\* What a cell of a blob can be: a number, a cell of a text, a JSON object.
Objects == [message_type : Wire!JsonTexts, segment_id : Wire!Optional(Nat), timestamp_ms : Nat,
            metadata : Wire!JsonTexts]
Words == Int \cup Cells \cup Objects

LEMMA Widened ==
  /\ \A s \in Seq(Cells) : s \in Seq(Words)
  /\ \A s \in Seq(Int) : s \in Seq(Words)
<1>1. Cells \subseteq Words /\ Int \subseteq Words
  BY DEF Words
<1>. HIDE DEF Words
<1>. QED
  BY <1>1

IsJoin(s, a, b, m, n) ==
    /\ m \in Nat /\ n \in Nat
    /\ s \in Seq(Words) /\ Len(s) = m + n
    /\ \A i \in 1..m : s[i] = a[i]
    /\ \A i \in 1..n : s[m + i] = b[i]

\* The parts of two sequences are found in the joined one.
LEMMA Joined ==
  ASSUME NEW a \in Seq(Words), NEW b \in Seq(Words)
  PROVE  IsJoin(a \o b, a, b, Len(a), Len(b))
<1>. DEFINE s == a \o b
            m == Len(a)
            n == Len(b)
<1>1. m \in Nat /\ n \in Nat
  OBVIOUS
<1>2. /\ s \in Seq(Words) /\ Len(s) = m + n
      /\ \A i \in 1..m + n : s[i] = IF i <= m THEN a[i] ELSE b[i - m]
  BY ConcatProperties
<1>. HIDE DEF s, m, n
<1>3. \A i \in 1..m : s[i] = a[i]
  BY <1>1, <1>2
<1>4. \A i \in 1..n : m + i \in 1..m + n /\ ~(m + i <= m) /\ (m + i) - m = i
  BY <1>1
<1>5. \A i \in 1..n : s[m + i] = b[i]
  BY <1>2, <1>4
<1>6. IsJoin(s, a, b, m, n)
  BY <1>1, <1>2, <1>3, <1>5 DEF IsJoin
<1>. QED
  BY <1>6 DEF s, m, n

\* What stands at a place can be cut out of a blob.
LEMMA CutOut ==
  ASSUME NEW w \in Seq(Words), NEW b \in Seq(Words), NEW k \in Nat, NEW n, n = Len(b),
         k + n <= Len(w), \A i \in 1..n : w[k + i] = b[i]
  PROVE  SubSeq(w, k + 1, k + n) = b
<1>1. k + Len(b) <= Len(w) /\ \A i \in 1..Len(b) : w[k + i] = b[i]
  OBVIOUS
<1>2. SubSeq(w, k + 1, k + Len(b)) = b
  BY <1>1, Slice
<1>. QED
  BY <1>2

Fields(type, session, now, payload) ==
    [type |-> type, session |-> session, timestamp |-> now, payload |-> payload]

\* Where the parts of a frame stand.
IsLaid(blob, type, session, now, payload, l, p) ==
    /\ l \in Nat /\ p \in Nat
    /\ blob \in Seq(Words) /\ Len(blob) = (l + 4) + p
    /\ blob[1] = type /\ blob[2] = l
    /\ \A i \in 1..l : blob[2 + i] = session[i]
    /\ blob[l + 3] = now /\ blob[l + 4] = p
    /\ \A i \in 1..p : blob[(l + 4) + i] = payload[i]

LEMMA Laid ==
  ASSUME Wire!CodecAssumption, NEW type \in Int, NEW session \in Seq(Words), NEW now \in Int,
         NEW payload \in Seq(Words), NEW l, l = Len(session), NEW p, p = Len(payload),
         l < ShortLimit, p < WordLimit
  PROVE  IsLaid(Wire!ToBytes(Fields(type, session, now, payload)), type, session, now, payload, l, p)
<1>. DEFINE w == Fields(type, session, now, payload)
            h == <<type, l>>
            t == <<now, p>>
            a == h \o session
            b == a \o t
            blob == b \o payload
<1>1. l \in Nat /\ p \in Nat
  OBVIOUS
<1>2. l % ShortLimit = l /\ p % WordLimit = p
  BY <1>1 DEF Wire!CodecAssumption
<1>3. Wire!ToBytes(w) = blob
  <2>1. w.type = type /\ w.session = session /\ w.timestamp = now /\ w.payload = payload
    BY DEF Fields
  <2>2. Wire!ToBytes(w) = <<w.type, Len(w.session) % ShortLimit>> \o w.session
                            \o <<w.timestamp, Len(w.payload) % WordLimit>> \o w.payload
    BY Zenon DEF Wire!ToBytes
  <2>3. Len(w.session) % ShortLimit = l /\ Len(w.payload) % WordLimit = p
    BY <1>2, <2>1
  <2>. HIDE DEF w
  <2>. QED
    BY <2>1, <2>2, <2>3, Zenon
<1>4. h \in Seq(Words) /\ Len(h) = 2 /\ h[1] = type /\ h[2] = l
  <2>1. type \in Words /\ l \in Words
    BY <1>1 DEF Words
  <2>. QED
    BY <2>1
<1>5. t \in Seq(Words) /\ Len(t) = 2 /\ t[1] = now /\ t[2] = p
  <2>1. now \in Words /\ p \in Words
    BY <1>1 DEF Words
  <2>. QED
    BY <2>1
<1>. HIDE DEF h, t, w
<1>6. IsJoin(a, h, session, 2, l)
  <2>1. IsJoin(a, h, session, Len(h), Len(session))
    BY <1>4, Joined
  <2>. QED
    BY <1>4, <2>1
<1>. DEFINE m == 2 + l
<1>7. a \in Seq(Words) /\ Len(a) = m
  BY <1>6 DEF IsJoin
<1>. HIDE DEF a, m
<1>8. IsJoin(b, a, t, m, 2)
  <2>1. IsJoin(b, a, t, Len(a), Len(t))
    BY <1>5, <1>7, Joined
  <2>. QED
    BY <1>5, <1>7, <2>1
<1>. DEFINE k == m + 2
<1>9. b \in Seq(Words) /\ Len(b) = k
  BY <1>8 DEF IsJoin
<1>. HIDE DEF b, k
<1>10. IsJoin(blob, b, payload, k, p)
  <2>1. IsJoin(blob, b, payload, Len(b), Len(payload))
    BY <1>9, Joined
  <2>. QED
    BY <1>9, <2>1
<1>. HIDE DEF blob
<1>11. m = 2 + l /\ k = l + 4 /\ m + 1 = l + 3 /\ m + 2 = l + 4 /\ m \in Nat /\ k \in Nat
  BY <1>1 DEF m, k
<1>12. blob[1] = type /\ blob[2] = l
  <2>1. 1 \in 1..k /\ 2 \in 1..k /\ 1 \in 1..m /\ 2 \in 1..m /\ 1 \in 1..2 /\ 2 \in 1..2
    BY <1>1, <1>11
  <2>. QED
    BY <1>4, <1>6, <1>8, <1>10, <2>1 DEF IsJoin
<1>13. \A i \in 1..l : blob[2 + i] = session[i]
  <2>1. \A i \in 1..l : 2 + i \in 1..k /\ 2 + i \in 1..m
    BY <1>1, <1>11
  <2>. QED
    BY <1>6, <1>8, <1>10, <2>1 DEF IsJoin
<1>14. blob[l + 3] = now /\ blob[l + 4] = p
  <2>1. m + 1 \in 1..k /\ m + 2 \in 1..k /\ 1 \in 1..2 /\ 2 \in 1..2
    BY <1>1, <1>11
  <2>2. blob[m + 1] = now /\ blob[m + 2] = p
    BY <1>5, <1>8, <1>10, <2>1 DEF IsJoin
  <2>. QED
    BY <1>11, <2>2
<1>15. /\ blob \in Seq(Words) /\ Len(blob) = (l + 4) + p
       /\ \A i \in 1..p : blob[(l + 4) + i] = payload[i]
  BY <1>10, <1>11 DEF IsJoin
<1>. QED
  BY <1>1, <1>3, <1>12, <1>13, <1>14, <1>15 DEF w, IsLaid

\* A frame is read back as it was written, and of a torn one nothing is read.
LEMMA FrameRead ==
  ASSUME Wire!CodecAssumption, NEW type \in 1..8, NEW session \in Seq(Words), NEW now \in Int,
         NEW payload \in Seq(Words), NEW l, l = Len(session), NEW p, p = Len(payload),
         l < ShortLimit, p < WordLimit
  PROVE  LET w == Fields(type, session, now, payload)
             blob == Wire!ToBytes(w)
         IN  /\ Wire!FromBytes(blob) = <<w>>
             /\ \A n \in 0..Len(blob) - 1 : Wire!FromBytes(SubSeq(blob, 1, n)) = <<>>
<1>. DEFINE w == Fields(type, session, now, payload)
            blob == Wire!ToBytes(w)
            L == Len(blob)
<1>1. /\ l \in Nat /\ p \in Nat
      /\ blob \in Seq(Words) /\ L = (l + 4) + p
      /\ blob[1] = type /\ blob[2] = l
      /\ \A i \in 1..l : blob[2 + i] = session[i]
      /\ blob[l + 3] = now /\ blob[l + 4] = p
      /\ \A i \in 1..p : blob[(l + 4) + i] = payload[i]
  <2>1. type \in Int
    OBVIOUS
  <2>2. IsLaid(blob, type, session, now, payload, l, p)
    BY <2>1, Laid
  <2>. HIDE DEF blob
  <2>. QED
    BY <2>2 DEF IsLaid
<1>. HIDE DEF blob
<1>2. SubSeq(blob, 3, l + 2) = session
  <2>1. 2 + l <= L /\ 2 + 1 = 3 /\ 2 + l = l + 2 /\ 2 \in Nat
    BY <1>1
  <2>2. SubSeq(blob, 2 + 1, 2 + l) = session
    BY <1>1, <2>1, CutOut
  <2>. QED
    BY <2>1, <2>2
<1>3. SubSeq(blob, l + 5, l + 4 + p) = payload
  <2>. DEFINE k == l + 4
  <2>1. k + p <= L /\ k + 1 = l + 5 /\ k + p = l + 4 + p /\ k \in Nat
    BY <1>1
  <2>2. \A i \in 1..p : blob[k + i] = payload[i]
    BY <1>1
  <2>3. blob \in Seq(Words)
    BY <1>1
  <2>. HIDE DEF k
  <2>4. SubSeq(blob, k + 1, k + p) = payload
    BY <2>1, <2>2, <2>3, CutOut
  <2>. QED
    BY <2>1, <2>4
<1>4. Wire!FromBytes(blob) = <<w>>
  <2>1. ~(Len(blob) < 4) /\ blob[1] \in 1..8 /\ ~(l + 4 > Len(blob)) /\ ~(l + 4 + p > Len(blob))
    BY <1>1
  <2>2. Wire!FromBytes(blob)
          = Wire!Done([type |-> blob[1], session |-> SubSeq(blob, 3, l + 2),
                       timestamp |-> blob[l + 3], payload |-> SubSeq(blob, l + 5, l + 4 + p)])
    BY <1>1, <2>1 DEF Wire!FromBytes
  <2>. QED
    BY <1>1, <1>2, <1>3, <2>2 DEF Wire!Done, Fields
<1>5. ASSUME NEW n \in 0..L - 1 PROVE Wire!FromBytes(SubSeq(blob, 1, n)) = <<>>
  <2>. DEFINE c == SubSeq(blob, 1, n)
  <2>1. n \in Nat /\ n < (l + 4) + p /\ n <= L /\ L \in Nat
    BY <1>1
  <2>2. Len(c) = n /\ \A i \in 1..n : c[i] = blob[i]
    <3>1. \A i \in 1..n : blob[i] \in Words
      BY <1>1, <2>1
    <3>. DEFINE v == IF 1 <= n THEN n - 1 + 1 ELSE 0
    <3>2. Len(c) = v /\ \A i \in 1..n - 1 + 1 : c[i] = blob[1 + i - 1]
      <4>1. 1 \in Int /\ n \in Int
        BY <2>1
      <4>. QED
        BY <3>1, <4>1, SubSeqProperties
    <3>3. v = n /\ n - 1 + 1 = n /\ \A i \in 1..n : 1 + i - 1 = i
      BY <2>1
    <3>. HIDE DEF v, c
    <3>. QED
      BY <3>2, <3>3
  <2>. SUFFICES Wire!FromBytes(c) = <<>>
    OBVIOUS
  <2>. HIDE DEF c
  <2>3. CASE n < 4
    BY <2>2, <2>3 DEF Wire!FromBytes, Wire!Failed
  <2>4. CASE n >= 4 /\ l + 4 > n
    <3>1. c[2] = l
      BY <1>1, <2>1, <2>2, <2>4
    <3>. QED
      BY <2>2, <2>4, <3>1 DEF Wire!FromBytes, Wire!Failed
  <2>5. CASE n >= 4 /\ l + 4 <= n
    <3>1. c[2] = l /\ c[l + 4] = p
      <4>1. 2 \in 1..n /\ l + 4 \in 1..n
        BY <1>1, <2>1, <2>5
      <4>. QED
        BY <1>1, <2>2, <4>1
    <3>2. l + 4 + p > n
      BY <1>1, <2>1
    <3>. QED
      BY <2>2, <3>1, <3>2 DEF Wire!FromBytes, Wire!Failed
  <2>. QED
    BY <1>1, <2>1, <2>3, <2>4, <2>5
<1>. QED
  BY <1>4, <1>5 DEF blob

\* How long a blob is.
LEMMA Sized ==
  ASSUME Wire!CodecAssumption, NEW type \in Int, NEW session \in Seq(Words), NEW now \in Int,
         NEW payload \in Seq(Words)
  PROVE  Len(Wire!ToBytes(Fields(type, session, now, payload))) = (Len(session) + 4) + Len(payload)
<1>. DEFINE w == Fields(type, session, now, payload)
            l == Len(session)
            p == Len(payload)
            h == <<type, l % ShortLimit>>
            t == <<now, p % WordLimit>>
            a == h \o session
            b == a \o t
            blob == b \o payload
<1>1. l \in Nat /\ p \in Nat
  OBVIOUS
<1>2. l % ShortLimit \in Int /\ p % WordLimit \in Int
  BY <1>1 DEF Wire!CodecAssumption
<1>3. Wire!ToBytes(w) = blob
  <2>1. w.type = type /\ w.session = session /\ w.timestamp = now /\ w.payload = payload
    BY DEF Fields
  <2>2. Wire!ToBytes(w) = <<w.type, Len(w.session) % ShortLimit>> \o w.session
                            \o <<w.timestamp, Len(w.payload) % WordLimit>> \o w.payload
    BY Zenon DEF Wire!ToBytes
  <2>. HIDE DEF w
  <2>. QED
    BY <2>1, <2>2, Zenon
<1>4. h \in Seq(Words) /\ Len(h) = 2 /\ t \in Seq(Words) /\ Len(t) = 2
  <2>. DEFINE x == l % ShortLimit
              y == p % WordLimit
  <2>1. type \in Words /\ x \in Words /\ now \in Words /\ y \in Words
    BY <1>2 DEF Words
  <2>2. \A q, r \in Words : <<q, r>> \in Seq(Words) /\ Len(<<q, r>>) = 2
    OBVIOUS
  <2>3. <<type, x>> \in Seq(Words) /\ Len(<<type, x>>) = 2
        /\ <<now, y>> \in Seq(Words) /\ Len(<<now, y>>) = 2
    <3>. HIDE DEF x, y
    <3>. QED
      BY <2>1, <2>2
  <2>. QED
    BY <2>3
<1>. HIDE DEF h, t, w
<1>5. a \in Seq(Words) /\ Len(a) = 2 + l
  <2>1. IsJoin(a, h, session, Len(h), l)
    BY <1>4, Joined
  <2>. QED
    BY <1>4, <2>1 DEF IsJoin
<1>. HIDE DEF a
<1>6. b \in Seq(Words) /\ Len(b) = 2 + l + 2
  <2>1. IsJoin(b, a, t, Len(a), Len(t))
    BY <1>4, <1>5, Joined
  <2>. QED
    BY <1>4, <1>5, <2>1 DEF IsJoin
<1>. HIDE DEF b
<1>7. Len(blob) = 2 + l + 2 + p
  <2>1. IsJoin(blob, b, payload, Len(b), p)
    BY <1>6, Joined
  <2>. QED
    BY <1>6, <2>1 DEF IsJoin
<1>8. 2 + l + 2 + p = (l + 4) + p
  BY <1>1
<1>. HIDE DEF blob, l, p
<1>. QED
  BY <1>3, <1>7, <1>8 DEF w, l, p

\* If a frame is decoded to what is to be returned, the runner echoes.
LEMMA EchoOf ==
  ASSUME Wire!CodecAssumption, NEW session \in Seq(Cells), NEW now \in Nat,
         NEW v, NEW payload \in Seq(Words), NEW type \in 1..8,
         ~Wire!Refused(v),
         Wire!EncodeInput(v, session, now)
            = <<Wire!ToBytes(Fields(type, session, now, payload))>>,
         Len(payload) < WordLimit =>
            Wire!DecodeFrame(Fields(type, session, now, payload))
                = IF Wire!Unreturnable(v) THEN <<>> ELSE <<Wire!Returned(v, now)>>
  PROVE  Wire!Echoes(v, session, now)
<1>. DEFINE w == Fields(type, session, now, payload)
            blob == Wire!ToBytes(w)
            sent == Wire!EncodeInput(v, session, now)
            l == Len(session)
            p == Len(payload)
<1>1. sent = <<blob>> /\ sent # <<>> /\ sent[1] = blob
  BY Single
<1>2. session \in Seq(Words) /\ now \in Int /\ type \in Int
  BY Widened
<1>3. ASSUME l < ShortLimit, Len(blob) - l - 4 < WordLimit
      PROVE  /\ Wire!DecodeOutput(blob)
                    = IF Wire!Unreturnable(v) THEN <<>> ELSE <<Wire!Returned(v, now)>>
             /\ Wire!FromBytes(blob)[1].session = session
             /\ \A n \in 0..Len(blob) - 1 : Wire!DecodeOutput(SubSeq(blob, 1, n)) = <<>>
  <2>1. p < WordLimit
    <3>1. Len(blob) = (l + 4) + p
      BY <1>2, Sized
    <3>. DEFINE b == Len(blob)
    <3>2. l \in Nat /\ p \in Nat
      BY <1>2
    <3>3. b = (l + 4) + p /\ b - l - 4 < WordLimit /\ WordLimit \in Nat
      BY <1>3, <3>1 DEF Wire!CodecAssumption
    <3>. HIDE DEF b, l, p
    <3>. QED
      BY <3>2, <3>3
  <2>2. /\ Wire!FromBytes(blob) = <<w>>
        /\ \A n \in 0..Len(blob) - 1 : Wire!FromBytes(SubSeq(blob, 1, n)) = <<>>
    BY <1>2, <1>3, <2>1, FrameRead
  <2>3. Wire!FromBytes(blob) # <<>> /\ Wire!FromBytes(blob)[1] = w
    <3>. HIDE DEF blob, w
    <3>. QED
      BY <2>2, Single
  <2>4. Wire!DecodeOutput(blob)
            = IF Wire!Unreturnable(v) THEN <<>> ELSE <<Wire!Returned(v, now)>>
    <3>1. Wire!DecodeOutput(blob) = Wire!DecodeFrame(w)
      <4>. HIDE DEF blob, w
      <4>. QED
        BY <2>3 DEF Wire!DecodeOutput, Wire!Failed
    <3>2. Wire!DecodeFrame(w)
            = IF Wire!Unreturnable(v) THEN <<>> ELSE <<Wire!Returned(v, now)>>
      BY <2>1
    <3>. HIDE DEF blob, w
    <3>. QED
      BY <3>1, <3>2
  <2>5. w.session = session
    BY DEF Fields
  <2>6. \A n \in 0..Len(blob) - 1 : Wire!DecodeOutput(SubSeq(blob, 1, n)) = <<>>
    <3>. HIDE DEF blob, w
    <3>. QED
      BY <2>2 DEF Wire!DecodeOutput, Wire!Failed
  <2>. HIDE DEF blob, w
  <2>. QED
    BY <2>3, <2>4, <2>5, <2>6 DEF w
<1>. HIDE DEF blob, sent, l
<1>. QED
  BY <1>1, <1>3, Zenon DEF Wire!Echoes, Wire!Failed, Wire!Done, sent, l

\* A kind is encoded as its part of the table says, and the others are refused.
LEMMA Kept ==
  ASSUME NEW v, NEW session, NEW now
  PROVE  /\ v.kind = "Text" => Wire!EncodeInput(v, session, now)
                                 = <<Wire!ToBytes(Wire!Wire("Text", session, now, v.text))>>
         /\ v.kind = "Json" => Wire!EncodeInput(v, session, now)
                                 = <<Wire!ToBytes(Wire!Wire("Text", session, now, v.json))>>
         /\ v.kind = "Audio" => Wire!EncodeInput(v, session, now)
               = IF v.channels >= ShortLimit THEN <<>>
                 ELSE <<Wire!ToBytes(Wire!Wire("Audio", session, now, Wire!AudioPayload(v)))>>
         /\ v.kind = "Tensor" => Wire!EncodeInput(v, session, now)
               = IF (\E i \in DOMAIN v.shape : v.shape[i] < 0) \/ v.dtype \notin 0..ByteLimit - 1
                 THEN <<>>
                 ELSE <<Wire!ToBytes(Wire!Wire("Tensor", session, now,
                                               Wire!TensorPayload(v, v.shape, v.dtype)))>>
         /\ v.kind = "Video" => Wire!EncodeInput(v, session, now)
               = <<Wire!ToBytes(Wire!Wire("Video", session, now,
                      Wire!VideoPayload(v, Wire!Formats[v.format],
                                        IF v.codec = <<>> THEN 0 ELSE Wire!Codecs[v.codec[1]])))>>
         /\ v.kind = "ControlMessage" => Wire!EncodeInput(v, session, now)
               = <<Wire!ToBytes(Wire!Wire("ControlMessage", session, now, Wire!ControlPayload(v)))>>
         /\ v.kind \in {"Numpy", "Image", "Binary", "File"} => Wire!EncodeInput(v, session, now) = <<>>
<1>1. ASSUME v.kind = "Text"
      PROVE  Wire!EncodeInput(v, session, now)
                = <<Wire!ToBytes(Wire!Wire("Text", session, now, v.text))>>
  BY <1>1, Zenon DEF Wire!EncodeInput, Wire!Done
<1>2. ASSUME v.kind = "Json"
      PROVE  Wire!EncodeInput(v, session, now)
                = <<Wire!ToBytes(Wire!Wire("Text", session, now, v.json))>>
  <2>1. v.kind # "Text"
    BY <1>2
  <2>. QED
    BY <1>2, <2>1, Zenon DEF Wire!EncodeInput, Wire!Done
<1>3. ASSUME v.kind = "Audio"
      PROVE  Wire!EncodeInput(v, session, now)
               = IF v.channels >= ShortLimit THEN <<>>
                 ELSE <<Wire!ToBytes(Wire!Wire("Audio", session, now, Wire!AudioPayload(v)))>>
  <2>1. v.kind # "Text" /\ v.kind # "Json"
    BY <1>3
  <2>. QED
    BY <1>3, <2>1, Zenon DEF Wire!EncodeInput, Wire!Done, Wire!Failed
<1>4. ASSUME v.kind = "Tensor"
      PROVE  Wire!EncodeInput(v, session, now)
               = IF (\E i \in DOMAIN v.shape : v.shape[i] < 0) \/ v.dtype \notin 0..ByteLimit - 1
                 THEN <<>>
                 ELSE <<Wire!ToBytes(Wire!Wire("Tensor", session, now,
                                               Wire!TensorPayload(v, v.shape, v.dtype)))>>
  <2>1. v.kind # "Text" /\ v.kind # "Json" /\ v.kind # "Audio"
    BY <1>4
  <2>. QED
    BY <1>4, <2>1, Zenon DEF Wire!EncodeInput, Wire!Done, Wire!Failed
<1>5. ASSUME v.kind = "Video"
      PROVE  Wire!EncodeInput(v, session, now)
               = <<Wire!ToBytes(Wire!Wire("Video", session, now,
                      Wire!VideoPayload(v, Wire!Formats[v.format],
                                        IF v.codec = <<>> THEN 0 ELSE Wire!Codecs[v.codec[1]])))>>
  <2>1. v.kind # "Text" /\ v.kind # "Json" /\ v.kind # "Audio" /\ v.kind # "Tensor"
    BY <1>5
  <2>. QED
    BY <1>5, <2>1, Zenon DEF Wire!EncodeInput, Wire!Done, Wire!None
<1>6. ASSUME v.kind = "ControlMessage"
      PROVE  Wire!EncodeInput(v, session, now)
               = <<Wire!ToBytes(Wire!Wire("ControlMessage", session, now, Wire!ControlPayload(v)))>>
  <2>1. /\ v.kind # "Text" /\ v.kind # "Json" /\ v.kind # "Audio" /\ v.kind # "Tensor"
        /\ v.kind # "Video"
    BY <1>6
  <2>. QED
    BY <1>6, <2>1, Zenon DEF Wire!EncodeInput, Wire!Done
<1>7. ASSUME v.kind \in {"Numpy", "Image", "Binary", "File"}
      PROVE  Wire!EncodeInput(v, session, now) = <<>>
  <2>1. /\ v.kind # "Text" /\ v.kind # "Json" /\ v.kind # "Audio" /\ v.kind # "Tensor"
        /\ v.kind # "Video" /\ v.kind # "ControlMessage"
    BY <1>7
  <2>. QED
    BY <2>1, Zenon DEF Wire!EncodeInput, Wire!Failed
<1>. QED
  BY <1>1, <1>2, <1>3, <1>4, <1>5, <1>6, <1>7

LEMMA Framed ==
  ASSUME NEW session, NEW now, NEW payload
  PROVE  /\ Wire!Wire("Text", session, now, payload) = Fields(3, session, now, payload)
         /\ Wire!Wire("Audio", session, now, payload) = Fields(1, session, now, payload)
         /\ Wire!Wire("Tensor", session, now, payload) = Fields(4, session, now, payload)
         /\ Wire!Wire("Video", session, now, payload) = Fields(2, session, now, payload)
         /\ Wire!Wire("ControlMessage", session, now, payload) = Fields(5, session, now, payload)
BY DEF Wire!Wire, Fields, Wire!Types

\* What a frame of each type is decoded to.
LEMMA Decoded ==
  ASSUME NEW w
  PROVE  LET audio == Wire!DecodeAudio(w.payload)
             tensor == Wire!DecodeTensor(w.payload)
             video == Wire!DecodeVideo(w.payload)
             videos == Wire!PublicVideos(video[1], w.timestamp)
         IN  /\ w.type = 3 => Wire!DecodeFrame(w) = <<[kind |-> "Text", text |-> w.payload]>>
             /\ w.type = 1 /\ audio # <<>> =>
                    Wire!DecodeFrame(w) = <<Wire!PublicAudio(audio[1], w.timestamp)>>
             /\ w.type = 4 /\ tensor # <<>> =>
                    Wire!DecodeFrame(w) = <<Wire!PublicTensor(tensor[1])>>
             /\ w.type = 2 /\ video # <<>> =>
                    Wire!DecodeFrame(w) = IF videos = {} THEN <<>>
                                          ELSE <<CHOOSE v \in videos : TRUE>>
             /\ w.type = 5 /\ Len(w.payload) = 1 /\ "message_type" \in DOMAIN w.payload[1] =>
                    Wire!DecodeFrame(w) = <<Wire!PublicControl(w.payload[1])>>
<1>1. /\ Wire!Types.Text = 3 /\ Wire!Types.Audio = 1 /\ Wire!Types.Tensor = 4 /\ Wire!Types.Video = 2
      /\ Wire!Types.ControlMessage = 5
  BY DEF Wire!Types
<1>2. ASSUME w.type = 3 PROVE Wire!DecodeFrame(w) = <<[kind |-> "Text", text |-> w.payload]>>
  <2>1. /\ w.type = Wire!Types.Text /\ w.type # Wire!Types.Audio /\ w.type # Wire!Types.Tensor
        /\ w.type # Wire!Types.Video /\ w.type # Wire!Types.ControlMessage
    BY <1>1, <1>2
  <2>. QED
    BY <2>1, Zenon DEF Wire!DecodeFrame, Wire!Done
<1>3. ASSUME w.type = 1, Wire!DecodeAudio(w.payload) # <<>>
      PROVE  Wire!DecodeFrame(w) = <<Wire!PublicAudio(Wire!DecodeAudio(w.payload)[1], w.timestamp)>>
  <2>1. /\ w.type = Wire!Types.Audio /\ w.type # Wire!Types.Text /\ w.type # Wire!Types.Tensor
        /\ w.type # Wire!Types.Video /\ w.type # Wire!Types.ControlMessage
    BY <1>1, <1>3
  <2>. QED
    BY <1>3, <2>1, Zenon DEF Wire!DecodeFrame, Wire!Done, Wire!Failed
<1>4. ASSUME w.type = 4, Wire!DecodeTensor(w.payload) # <<>>
      PROVE  Wire!DecodeFrame(w) = <<Wire!PublicTensor(Wire!DecodeTensor(w.payload)[1])>>
  <2>1. /\ w.type = Wire!Types.Tensor /\ w.type # Wire!Types.Text /\ w.type # Wire!Types.Audio
        /\ w.type # Wire!Types.Video /\ w.type # Wire!Types.ControlMessage
    BY <1>1, <1>4
  <2>. QED
    BY <1>4, <2>1, Zenon DEF Wire!DecodeFrame, Wire!Done, Wire!Failed
<1>5. ASSUME w.type = 2, Wire!DecodeVideo(w.payload) # <<>>
      PROVE  Wire!DecodeFrame(w)
                = IF Wire!PublicVideos(Wire!DecodeVideo(w.payload)[1], w.timestamp) = {} THEN <<>>
                  ELSE <<CHOOSE v \in Wire!PublicVideos(Wire!DecodeVideo(w.payload)[1],
                                                        w.timestamp) : TRUE>>
  <2>1. /\ w.type = Wire!Types.Video /\ w.type # Wire!Types.Text /\ w.type # Wire!Types.Audio
        /\ w.type # Wire!Types.Tensor /\ w.type # Wire!Types.ControlMessage
    BY <1>1, <1>5
  <2>. QED
    BY <1>5, <2>1, Zenon DEF Wire!DecodeFrame, Wire!Done, Wire!Failed
<1>6. ASSUME w.type = 5, Len(w.payload) = 1, "message_type" \in DOMAIN w.payload[1]
      PROVE  Wire!DecodeFrame(w) = <<Wire!PublicControl(w.payload[1])>>
  <2>1. /\ w.type = Wire!Types.ControlMessage /\ w.type # Wire!Types.Text /\ w.type # Wire!Types.Audio
        /\ w.type # Wire!Types.Tensor /\ w.type # Wire!Types.Video
    BY <1>1, <1>6
  <2>. QED
    BY <1>6, <2>1, Zenon DEF Wire!DecodeFrame, Wire!Done, Wire!Failed
<1>. QED
  BY <1>2, <1>3, <1>4, <1>5, <1>6

\* What is to come back of each kind.
LEMMA Returns ==
  ASSUME NEW v, NEW now
  PROVE  /\ v.kind = "Json" => Wire!Returned(v, now) = [kind |-> "Text", text |-> v.json]
         /\ v.kind = "Audio" =>
                Wire!Returned(v, now)
                    = [v EXCEPT !.stream = <<>>, !.metadata = <<>>, !.timestamp = <<now>>]
         /\ v.kind = "Video" => Wire!Returned(v, now) = [v EXCEPT !.stream = <<>>, !.timestamp = now]
         /\ v.kind = "Tensor" =>
                Wire!Returned(v, now)
                    = [v EXCEPT !.shape = SubSeq(v.shape, 1, Wire!NumDims(v.shape)),
                                !.metadata = IF v.metadata = <<Wire!JsonNull>> THEN <<>>
                                             ELSE v.metadata]
         /\ v.kind \in {"Text", "ControlMessage"} => Wire!Returned(v, now) = v
<1>1. ASSUME v.kind = "Json" PROVE Wire!Returned(v, now) = [kind |-> "Text", text |-> v.json]
  <2>1. v.kind # "Audio" /\ v.kind # "Video" /\ v.kind # "Tensor"
    BY <1>1
  <2>. QED
    BY <1>1, <2>1, Zenon DEF Wire!Returned
<1>2. ASSUME v.kind = "Audio"
      PROVE  Wire!Returned(v, now)
                = [v EXCEPT !.stream = <<>>, !.metadata = <<>>, !.timestamp = <<now>>]
  <2>1. v.kind # "Json" /\ v.kind # "Video" /\ v.kind # "Tensor"
    BY <1>2
  <2>. QED
    BY <1>2, <2>1, Zenon DEF Wire!Returned, Wire!None, Wire!Some
<1>3. ASSUME v.kind = "Video"
      PROVE  Wire!Returned(v, now) = [v EXCEPT !.stream = <<>>, !.timestamp = now]
  <2>1. v.kind # "Json" /\ v.kind # "Audio" /\ v.kind # "Tensor"
    BY <1>3
  <2>. QED
    BY <1>3, <2>1, Zenon DEF Wire!Returned, Wire!None
<1>4. ASSUME v.kind = "Tensor"
      PROVE  Wire!Returned(v, now)
                = [v EXCEPT !.shape = SubSeq(v.shape, 1, Wire!NumDims(v.shape)),
                            !.metadata = IF v.metadata = <<Wire!JsonNull>> THEN <<>>
                                         ELSE v.metadata]
  <2>1. v.kind # "Json" /\ v.kind # "Audio" /\ v.kind # "Video"
    BY <1>4
  <2>. QED
    BY <1>4, <2>1, Zenon DEF Wire!Returned, Wire!None, Wire!Some
<1>5. ASSUME v.kind \in {"Text", "ControlMessage"} PROVE Wire!Returned(v, now) = v
  <2>1. v.kind # "Json" /\ v.kind # "Audio" /\ v.kind # "Video" /\ v.kind # "Tensor"
    BY <1>5
  <2>. QED
    BY <2>1, Zenon DEF Wire!Returned
<1>. QED
  BY <1>1, <1>2, <1>3, <1>4, <1>5

\* What the tables refuse is refused.
LEMMA RefusedEcho ==
  ASSUME NEW v, NEW session, NEW now, Wire!Refused(v), Wire!EncodeInput(v, session, now) = <<>>
  PROVE  Wire!Echoes(v, session, now)
BY Zenon DEF Wire!Echoes, Wire!Failed

IsRest(s, a, b, m) ==
    /\ s \in Seq(Words) /\ Len(s) = m + Len(b)
    /\ \A i \in 1..m : s[i] = a[i]
    /\ Wire!From(s, m + 1) = b

\* What follows a header is read to the end.
LEMMA Rest ==
  ASSUME NEW a \in Seq(Words), NEW b \in Seq(Words)
  PROVE  IsRest(a \o b, a, b, Len(a))
<1>. DEFINE s == a \o b
            m == Len(a)
            n == Len(b)
<1>1. IsJoin(s, a, b, m, n)
  BY Joined
<1>. HIDE DEF s, m
<1>2. SubSeq(s, m + 1, m + n) = b
  <2>1. s \in Seq(Words) /\ m \in Nat /\ m + n <= Len(s) /\ \A i \in 1..n : s[m + i] = b[i]
    BY <1>1 DEF IsJoin
  <2>. QED
    BY <2>1, CutOut
<1>3. Wire!From(s, m + 1) = b
  BY <1>1, <1>2 DEF IsJoin, Wire!From
<1>. QED
  BY <1>1, <1>3 DEF IsJoin, IsRest, s, m

LEMMA OptionalIs ==
  ASSUME NEW S, NEW o \in Wire!Optional(S)
  PROVE  o = <<>> \/ \E x \in S : o = <<x>>
<1>. DEFINE n == Len(o)
<1>1. o \in Seq(S) /\ n \in Nat /\ n <= 1
  BY DEF Wire!Optional
<1>2. n = 0 => o = <<>>
  BY <1>1, EmptySeq
<1>3. n = 1 => o = <<o[1]>> /\ o[1] \in S
  BY <1>1
<1>4. n = 0 \/ n = 1
  <2>. HIDE DEF n
  <2>. QED
    BY <1>1
<1>. QED
  BY <1>2, <1>3, <1>4

LEMMA TextEchoes ==
  ASSUME Wire!CodecAssumption, NEW v \in Wire!Texts, NEW session \in Seq(Cells), NEW now \in Nat
  PROVE  Wire!Echoes(v, session, now)
<1>1. v.kind = "Text" /\ v.text \in Seq(Cells) /\ v = [kind |-> "Text", text |-> v.text]
  BY DEF Wire!Texts
<1>. DEFINE text == v.text
            w == Fields(3, session, now, text)
<1>2. ~Wire!Refused(v) /\ ~Wire!Unreturnable(v)
  BY <1>1 DEF Wire!Refused, Wire!Unreturnable
<1>3. Wire!EncodeInput(v, session, now) = <<Wire!ToBytes(w)>>
  BY <1>1, Kept, Framed
<1>4. w.type = 3 /\ w.payload = text
  BY DEF Fields
<1>5. Wire!DecodeFrame(w) = <<v>>
  <2>. HIDE DEF w
  <2>. QED
    BY <1>1, <1>4, Decoded
<1>6. Wire!Returned(v, now) = v
  BY <1>1, Returns
<1>7. text \in Seq(Words) /\ 3 \in 1..8
  BY <1>1, Widened
<1>. HIDE DEF text
<1>. QED
  BY <1>2, <1>3, <1>5, <1>6, <1>7, EchoOf

LEMMA JsonEchoes ==
  ASSUME Wire!CodecAssumption, NEW v \in Wire!Jsons, NEW session \in Seq(Cells), NEW now \in Nat
  PROVE  Wire!Echoes(v, session, now)
<1>1. v.kind = "Json" /\ v.json \in Seq(Cells)
  BY DEF Wire!Jsons, Wire!JsonTexts
<1>. DEFINE text == v.json
            w == Fields(3, session, now, text)
<1>2. ~Wire!Refused(v) /\ ~Wire!Unreturnable(v)
  BY <1>1 DEF Wire!Refused, Wire!Unreturnable
<1>3. Wire!EncodeInput(v, session, now) = <<Wire!ToBytes(w)>>
  BY <1>1, Kept, Framed
<1>4. w.type = 3 /\ w.payload = text
  BY DEF Fields
<1>5. Wire!DecodeFrame(w) = <<[kind |-> "Text", text |-> text]>>
  <2>. HIDE DEF w
  <2>. QED
    BY <1>4, Decoded
<1>6. Wire!Returned(v, now) = [kind |-> "Text", text |-> text]
  BY <1>1, Returns
<1>7. text \in Seq(Words) /\ 3 \in 1..8
  BY <1>1, Widened
<1>. HIDE DEF text
<1>. QED
  BY <1>2, <1>3, <1>5, <1>6, <1>7, EchoOf

LEMMA AudioEchoes ==
  ASSUME Wire!CodecAssumption, NEW v \in Wire!Audios, NEW session \in Seq(Cells), NEW now \in Nat
  PROVE  Wire!Echoes(v, session, now)
<1>1. /\ v.kind = "Audio" /\ v.samples \in Seq(Cells) /\ v.rate \in Nat /\ v.channels \in Nat
      /\ v = [kind |-> "Audio", samples |-> v.samples, rate |-> v.rate, channels |-> v.channels,
              timestamp |-> v.timestamp, stream |-> v.stream, metadata |-> v.metadata]
  BY DEF Wire!Audios
<1>2. CASE v.channels >= ShortLimit
  <2>1. Wire!Refused(v)
    BY <1>1, <1>2 DEF Wire!Refused
  <2>2. Wire!EncodeInput(v, session, now) = <<>>
    BY <1>1, <1>2, Kept
  <2>. QED
    BY <2>1, <2>2, RefusedEcho
<1>3. CASE ~(v.channels >= ShortLimit)
  <2>. DEFINE h == <<v.rate, v.channels, 0>>
              p == h \o v.samples
              w == Fields(1, session, now, p)
              out == [kind |-> "Audio", samples |-> v.samples, rate |-> v.rate,
                      channels |-> v.channels, timestamp |-> <<now>>, stream |-> <<>>,
                      metadata |-> <<>>]
  <2>1. ~Wire!Refused(v) /\ ~Wire!Unreturnable(v)
    BY <1>1, <1>3 DEF Wire!Refused, Wire!Unreturnable
  <2>2. Wire!EncodeInput(v, session, now) = <<Wire!ToBytes(w)>>
    <3>1. Wire!AudioPayload(v) = p
      BY Zenon DEF Wire!AudioPayload
    <3>. HIDE DEF p
    <3>. QED
      BY <1>1, <1>3, <3>1, Kept, Framed
  <2>3. h \in Seq(Words) /\ Len(h) = 3 /\ h[1] = v.rate /\ h[2] = v.channels /\ h[3] = 0
    <3>1. \A x, y, z \in Words : <<x, y, z>> \in Seq(Words)
      OBVIOUS
    <3>2. v.rate \in Words /\ v.channels \in Words /\ 0 \in Words
      BY <1>1 DEF Words
    <3>. QED
      BY <3>1, <3>2
  <2>4. v.samples \in Seq(Words)
    BY <1>1, Widened
  <2>. HIDE DEF h
  <2>5. /\ p \in Seq(Words) /\ Len(p) = 3 + Len(v.samples)
        /\ \A i \in 1..3 : p[i] = h[i]
        /\ Wire!From(p, 3 + 1) = v.samples
    <3>1. IsRest(p, h, v.samples, Len(h))
      BY <2>3, <2>4, Rest
    <3>. HIDE DEF p
    <3>. QED
      BY <2>3, <3>1 DEF IsRest
  <2>. HIDE DEF p
  <2>6. Wire!DecodeAudio(p) = <<[rate |-> v.rate, channels |-> v.channels, samples |-> v.samples]>>
    <3>1. p[1] = v.rate /\ p[2] = v.channels /\ p[3] = 0
      BY <2>3, <2>5
    <3>2. ~(Len(p) < 3) /\ ~(3 + 0 > Len(p))
      <4>. DEFINE k == Len(v.samples)
      <4>1. k \in Nat /\ Len(p) = 3 + k
        BY <1>1, <2>5
      <4>. HIDE DEF k
      <4>. QED
        BY <4>1
    <3>3. 4 + 0 = 3 + 1
      OBVIOUS
    <3>4. Wire!From(p, 4 + 0) = v.samples
      BY <2>5, <3>3
    <3>. QED
      BY <3>1, <3>2, <3>4 DEF Wire!DecodeAudio, Wire!Done
  <2>. DEFINE a == [rate |-> v.rate, channels |-> v.channels, samples |-> v.samples]
  <2>7. Wire!PublicAudio(a, now) = out
    BY DEF Wire!PublicAudio, Wire!Some, Wire!None
  <2>8. w.type = 1 /\ w.payload = p /\ w.timestamp = now
    BY DEF Fields
  <2>9. Wire!DecodeFrame(w) = <<out>>
    <3>1. Wire!DecodeAudio(p) # <<>> /\ Wire!DecodeAudio(p)[1] = a
      <4>. HIDE DEF a
      <4>. QED
        BY <2>6, Single DEF a
    <3>. HIDE DEF w, a, out
    <3>. QED
      BY <2>7, <2>8, <3>1, Decoded
  <2>10. Wire!Returned(v, now) = out
    <3>1. Wire!Returned(v, now) = [v EXCEPT !.stream = <<>>, !.metadata = <<>>, !.timestamp = <<now>>]
      BY <1>1, Returns
    <3>2. [v EXCEPT !.stream = <<>>, !.metadata = <<>>, !.timestamp = <<now>>] = out
      <4>. DEFINE x == [v EXCEPT !.stream = <<>>]
                  y == [x EXCEPT !.metadata = <<>>]
      <4>1. x = [kind |-> "Audio", samples |-> v.samples, rate |-> v.rate, channels |-> v.channels,
                 timestamp |-> v.timestamp, stream |-> <<>>, metadata |-> v.metadata]
        BY <1>1
      <4>. HIDE DEF x
      <4>2. y = [kind |-> "Audio", samples |-> v.samples, rate |-> v.rate, channels |-> v.channels,
                 timestamp |-> v.timestamp, stream |-> <<>>, metadata |-> <<>>]
        BY <4>1
      <4>. HIDE DEF y
      <4>3. [y EXCEPT !.timestamp = <<now>>] = out
        BY <4>2
      <4>. QED
        BY <4>3 DEF y, x
    <3>. QED
      BY <3>1, <3>2, Zenon
  <2>11. 1 \in 1..8
    OBVIOUS
  <2>. HIDE DEF out
  <2>. QED
    BY <2>1, <2>2, <2>5, <2>9, <2>10, <2>11, EchoOf
<1>. QED
  BY <1>2, <1>3

LEMMA ControlEchoes ==
  ASSUME Wire!CodecAssumption, NEW v \in Wire!Controls, NEW session \in Seq(Cells), NEW now \in Nat
  PROVE  Wire!Echoes(v, session, now)
<1>1. /\ v.kind = "ControlMessage" /\ v.message \in Wire!JsonTexts
      /\ v.segment \in Wire!Optional(Nat) /\ v.time \in Nat /\ v.metadata \in Wire!JsonTexts
      /\ v = [kind |-> "ControlMessage", message |-> v.message, segment |-> v.segment,
              time |-> v.time, metadata |-> v.metadata]
  BY DEF Wire!Controls
<1>. DEFINE object == [message_type |-> v.message, segment_id |-> v.segment,
                       timestamp_ms |-> v.time, metadata |-> v.metadata]
            p == <<object>>
            w == Fields(5, session, now, p)
<1>2. ~Wire!Refused(v) /\ ~Wire!Unreturnable(v)
  BY <1>1 DEF Wire!Refused, Wire!Unreturnable
<1>3. Wire!EncodeInput(v, session, now) = <<Wire!ToBytes(w)>>
  <2>1. Wire!ControlPayload(v) = p
    BY Zenon DEF Wire!ControlPayload
  <2>. HIDE DEF p
  <2>. QED
    BY <1>1, <2>1, Kept, Framed
<1>4. object \in Words
  <2>1. object \in Objects
    BY <1>1 DEF Objects
  <2>. QED
    BY <2>1 DEF Words
<1>5. Wire!PublicControl(object) = v
  <2>1. /\ "segment_id" \in DOMAIN object /\ "timestamp_ms" \in DOMAIN object
        /\ "metadata" \in DOMAIN object
        /\ object.message_type = v.message /\ object.segment_id = v.segment
        /\ object.timestamp_ms = v.time /\ object.metadata = v.metadata
    OBVIOUS
  <2>. HIDE DEF object
  <2>2. /\ Wire!Member(object, "segment_id", Wire!None) = v.segment
        /\ Wire!Member(object, "timestamp_ms", 0) = v.time
        /\ Wire!Member(object, "metadata", Wire!JsonNull) = v.metadata
    BY <2>1, Zenon DEF Wire!Member
  <2>3. Wire!PublicControl(object)
            = [kind |-> "ControlMessage", message |-> v.message, segment |-> v.segment,
               time |-> v.time, metadata |-> v.metadata]
    BY <2>1, <2>2, Zenon DEF Wire!PublicControl
  <2>. QED
    BY <1>1, <2>3, Zenon
<1>6. "message_type" \in DOMAIN object
  OBVIOUS
<1>. HIDE DEF object
<1>7. p \in Seq(Words) /\ Len(p) = 1 /\ p[1] = object /\ 5 \in 1..8
  BY <1>4
<1>. HIDE DEF p
<1>8. w.type = 5 /\ w.payload = p
  BY DEF Fields
<1>9. Wire!DecodeFrame(w) = <<v>>
  <2>. HIDE DEF w
  <2>. QED
    BY <1>5, <1>6, <1>7, <1>8, Decoded
<1>10. Wire!Returned(v, now) = v
  BY <1>1, Returns
<1>. QED
  BY <1>2, <1>3, <1>7, <1>9, <1>10, EchoOf

\* The tables of formats and codecs, there and back.
LEMMA Tables ==
  /\ \A f \in DOMAIN Wire!Formats : f # "Unspecified" => Wire!PixelFormatFromU8(Wire!Formats[f]) = {f}
  /\ Wire!PixelFormatFromU8(Wire!Formats["Unspecified"]) = {}
  /\ \A c \in DOMAIN Wire!Codecs : Wire!VideoCodecFromU8(Wire!Codecs[c]) = {c} /\ Wire!Codecs[c] # 0
  /\ \A f \in DOMAIN Wire!Formats : Wire!Formats[f] \in Int
  /\ \A c \in DOMAIN Wire!Codecs : Wire!Codecs[c] \in Int
<1>1. /\ DOMAIN Wire!Formats = {"Unspecified", "Yuv420p", "I420", "NV12", "Rgb24", "Rgba32", "Encoded"}
      /\ Wire!Formats["Unspecified"] = 0 /\ Wire!Formats["Yuv420p"] = 1 /\ Wire!Formats["I420"] = 2
      /\ Wire!Formats["NV12"] = 3 /\ Wire!Formats["Rgb24"] = 4 /\ Wire!Formats["Rgba32"] = 5
      /\ Wire!Formats["Encoded"] = 255
  BY DEF Wire!Formats
<1>2. /\ DOMAIN Wire!Codecs = {"Vp8", "H264", "Av1"}
      /\ Wire!Codecs["Vp8"] = 1 /\ Wire!Codecs["H264"] = 2 /\ Wire!Codecs["Av1"] = 3
  BY DEF Wire!Codecs
<1>3. ASSUME NEW f \in DOMAIN Wire!Formats, NEW g \in DOMAIN Wire!Formats,
             Wire!Formats[f] = Wire!Formats[g]
      PROVE  f = g
  BY <1>1, <1>3
<1>4. ASSUME NEW c \in DOMAIN Wire!Codecs, NEW d \in DOMAIN Wire!Codecs,
             Wire!Codecs[c] = Wire!Codecs[d]
      PROVE  c = d
  BY <1>2, <1>4
<1>5. \A f \in DOMAIN Wire!Formats : f # "Unspecified" => Wire!PixelFormatFromU8(Wire!Formats[f]) = {f}
  BY <1>3, Zenon DEF Wire!PixelFormatFromU8
<1>6. Wire!PixelFormatFromU8(Wire!Formats["Unspecified"]) = {}
  <2>1. "Unspecified" \in DOMAIN Wire!Formats
    BY <1>1
  <2>. QED
    BY <1>3, <2>1, Zenon DEF Wire!PixelFormatFromU8
<1>7. \A c \in DOMAIN Wire!Codecs : Wire!VideoCodecFromU8(Wire!Codecs[c]) = {c}
  BY <1>4, Zenon DEF Wire!VideoCodecFromU8
<1>. QED
  BY <1>1, <1>2, <1>5, <1>6, <1>7

LEMMA VideoEchoes ==
  ASSUME Wire!CodecAssumption, NEW v \in Wire!Videos, NEW session \in Seq(Cells), NEW now \in Nat
  PROVE  Wire!Echoes(v, session, now)
<1>1. /\ v.kind = "Video" /\ v.width \in Nat /\ v.height \in Nat /\ v.format \in DOMAIN Wire!Formats
      /\ v.codec \in Wire!Optional(DOMAIN Wire!Codecs) /\ v.frame \in Nat /\ v.key \in BOOLEAN
      /\ v.pixels \in Seq(Cells)
      /\ v = [kind |-> "Video", width |-> v.width, height |-> v.height, format |-> v.format,
              codec |-> v.codec, frame |-> v.frame, key |-> v.key, pixels |-> v.pixels,
              timestamp |-> v.timestamp, stream |-> v.stream]
  BY DEF Wire!Videos
<1>. DEFINE format == Wire!Formats[v.format]
            codec == IF v.codec = <<>> THEN 0 ELSE Wire!Codecs[v.codec[1]]
            key == IF v.key THEN 1 ELSE 0
            h == <<v.width, v.height, format, codec, v.frame, key>>
            p == h \o v.pixels
            w == Fields(2, session, now, p)
            out == [kind |-> "Video", width |-> v.width, height |-> v.height, format |-> v.format,
                    codec |-> v.codec, frame |-> v.frame, key |-> v.key, pixels |-> v.pixels,
                    timestamp |-> now, stream |-> <<>>]
            a == [width |-> v.width, height |-> v.height, format |-> format, codec |-> codec,
                  frame |-> v.frame, key |-> v.key, pixels |-> v.pixels]
            codecs == IF codec = 0 THEN {<<>>}
                      ELSE {<<x>> : x \in Wire!VideoCodecFromU8(codec)}
<1>2. ~Wire!Refused(v) /\ (Wire!Unreturnable(v) <=> v.format = "Unspecified")
  BY <1>1 DEF Wire!Refused, Wire!Unreturnable
<1>3. Wire!EncodeInput(v, session, now) = <<Wire!ToBytes(w)>>
  <2>1. Wire!VideoPayload(v, format, codec) = p
    BY Zenon DEF Wire!VideoPayload
  <2>. HIDE DEF p
  <2>. QED
    BY <1>1, <2>1, Kept, Framed
<1>4. format \in Int /\ codec \in Int /\ codecs = {v.codec}
  <2>1. format \in Int
    BY <1>1, Tables
  <2>2. CASE v.codec = <<>>
    BY <2>1, <2>2
  <2>3. ASSUME NEW c \in DOMAIN Wire!Codecs, v.codec = <<c>>
        PROVE  codec \in Int /\ codecs = {v.codec}
    <3>1. v.codec # <<>> /\ v.codec[1] = c
      BY <2>3, Single
    <3>2. codec = Wire!Codecs[c]
      BY <3>1
    <3>. HIDE DEF codec
    <3>3. codec \in Int /\ codec # 0 /\ Wire!VideoCodecFromU8(codec) = {c}
      BY <3>2, Tables
    <3>4. codecs = {<<c>>}
      BY <3>3
    <3>. QED
      BY <2>3, <3>3, <3>4
  <2>4. v.codec = <<>> \/ \E c \in DOMAIN Wire!Codecs : v.codec = <<c>>
    BY <1>1, OptionalIs
  <2>. HIDE DEF codecs, codec, format
  <2>. QED
    BY <2>1, <2>2, <2>3, <2>4
<1>5. key \in Int /\ (key # 0 <=> v.key)
  BY <1>1
<1>. HIDE DEF format, codec, key, codecs
<1>6. /\ h \in Seq(Words) /\ Len(h) = 6 /\ h[1] = v.width /\ h[2] = v.height /\ h[3] = format
      /\ h[4] = codec /\ h[5] = v.frame /\ h[6] = key
  <2>1. \A x, y, z, i, j, k \in Words : <<x, y, z, i, j, k>> \in Seq(Words)
    OBVIOUS
  <2>2. /\ v.width \in Words /\ v.height \in Words /\ format \in Words /\ codec \in Words
        /\ v.frame \in Words /\ key \in Words
    BY <1>1, <1>4, <1>5 DEF Words
  <2>3. h \in Seq(Words)
    BY <2>1, <2>2
  <2>. QED
    BY <2>3
<1>7. v.pixels \in Seq(Words)
  BY <1>1, Widened
<1>. HIDE DEF h
<1>8. /\ p \in Seq(Words) /\ Len(p) = 6 + Len(v.pixels)
      /\ \A i \in 1..6 : p[i] = h[i]
      /\ Wire!From(p, 6 + 1) = v.pixels
  <2>1. IsRest(p, h, v.pixels, Len(h))
    BY <1>6, <1>7, Rest
  <2>. HIDE DEF p
  <2>. QED
    BY <1>6, <2>1 DEF IsRest
<1>. HIDE DEF p
<1>9. Wire!DecodeVideo(p) = <<a>>
  <2>1. /\ p[1] = v.width /\ p[2] = v.height /\ p[3] = format /\ p[4] = codec /\ p[5] = v.frame
        /\ p[6] = key
    BY <1>6, <1>8
  <2>2. ~(Len(p) < 6)
    <3>. DEFINE k == Len(v.pixels)
    <3>1. k \in Nat /\ Len(p) = 6 + k
      BY <1>1, <1>8
    <3>. HIDE DEF k
    <3>. QED
      BY <3>1
  <2>3. Wire!From(p, 7) = v.pixels
    BY <1>8
  <2>4. Wire!DecodeVideo(p)
            = <<[width |-> p[1], height |-> p[2], format |-> p[3], codec |-> p[4],
                 frame |-> p[5], key |-> p[6] # 0, pixels |-> Wire!From(p, 7)]>>
    BY <2>2, Zenon DEF Wire!DecodeVideo, Wire!Done
  <2>5. (p[6] # 0) = v.key
    BY <1>1, <1>5, <2>1
  <2>. QED
    BY <2>1, <2>3, <2>4, <2>5
<1>10. Wire!PublicVideos(a, now) = IF v.format = "Unspecified" THEN {} ELSE {out}
  <2>1. /\ a.width = v.width /\ a.height = v.height /\ a.format = format /\ a.codec = codec
        /\ a.frame = v.frame /\ a.key = v.key /\ a.pixels = v.pixels
    OBVIOUS
  <2>. HIDE DEF a
  <2>2. Wire!PublicVideos(a, now)
          = {[kind |-> "Video", width |-> v.width, height |-> v.height, format |-> f, codec |-> c,
              frame |-> v.frame, key |-> v.key, pixels |-> v.pixels, timestamp |-> now,
              stream |-> <<>>] : f \in Wire!PixelFormatFromU8(format), c \in codecs}
    BY <2>1 DEF Wire!PublicVideos, Wire!None, Wire!Some, codecs
  <2>3. Wire!PixelFormatFromU8(format) = IF v.format = "Unspecified" THEN {} ELSE {v.format}
    BY <1>1, Tables DEF format
  <2>4. CASE v.format = "Unspecified"
    BY <2>2, <2>3, <2>4
  <2>5. CASE v.format # "Unspecified"
    <3>1. Wire!PixelFormatFromU8(format) = {v.format} /\ codecs = {v.codec}
      BY <1>4, <2>3, <2>5
    <3>. QED
      BY <2>2, <2>5, <3>1
  <2>. QED
    BY <2>4, <2>5
<1>11. w.type = 2 /\ w.payload = p /\ w.timestamp = now
  BY DEF Fields
<1>12. Wire!DecodeFrame(w) = IF v.format = "Unspecified" THEN <<>> ELSE <<out>>
  <2>1. Wire!DecodeVideo(p) # <<>> /\ Wire!DecodeVideo(p)[1] = a
    <3>. HIDE DEF a
    <3>. QED
      BY <1>9, Single
  <2>. DEFINE videos == Wire!PublicVideos(a, now)
  <2>. HIDE DEF w, a, out
  <2>2. Wire!DecodeFrame(w) = IF videos = {} THEN <<>> ELSE <<CHOOSE x \in videos : TRUE>>
    BY <1>11, <2>1, Decoded
  <2>3. CASE v.format = "Unspecified"
    BY <1>10, <2>2, <2>3
  <2>4. CASE v.format # "Unspecified"
    <3>1. videos = {out} /\ videos # {}
      BY <1>10, <2>4
    <3>2. (CHOOSE x \in {out} : TRUE) = out
      BY Zenon
    <3>. QED
      BY <2>2, <2>4, <3>1, <3>2
  <2>. QED
    BY <2>3, <2>4
<1>13. Wire!Returned(v, now) = out
  <2>1. Wire!Returned(v, now) = [v EXCEPT !.stream = <<>>, !.timestamp = now]
    BY <1>1, Returns
  <2>2. [v EXCEPT !.stream = <<>>, !.timestamp = now] = out
    <3>. DEFINE x == [v EXCEPT !.stream = <<>>]
    <3>1. x = [kind |-> "Video", width |-> v.width, height |-> v.height, format |-> v.format,
               codec |-> v.codec, frame |-> v.frame, key |-> v.key, pixels |-> v.pixels,
               timestamp |-> v.timestamp, stream |-> <<>>]
      BY <1>1
    <3>. HIDE DEF x
    <3>2. [x EXCEPT !.timestamp = now] = out
      BY <3>1
    <3>. QED
      BY <3>2 DEF x
  <2>. QED
    BY <2>1, <2>2, Zenon
<1>14. 2 \in 1..8
  OBVIOUS
<1>. HIDE DEF out, w
<1>15. Wire!DecodeFrame(w) = IF Wire!Unreturnable(v) THEN <<>> ELSE <<Wire!Returned(v, now)>>
  BY <1>2, <1>12, <1>13
<1>. QED
  BY <1>2, <1>3, <1>8, <1>14, <1>15, EchoOf DEF w

\* The dimensions that are written are non-negative numbers of 32 bits, which a
\* reader takes for themselves.
LEMMA ShapeKept ==
  ASSUME Wire!CodecAssumption, NEW shape \in Seq(Wire!Dimensions),
         \A i \in DOMAIN shape : ~(shape[i] < 0)
  PROVE  LET n == Wire!NumDims(shape)
             cut == SubSeq(shape, 1, n)
         IN  /\ n \in Nat /\ cut \in Seq(Words) /\ Len(cut) = n
             /\ [i \in DOMAIN cut |-> Wire!AsI32(cut[i])] = cut
<1>. DEFINE L == Len(shape)
            n == Wire!NumDims(shape)
            cut == SubSeq(shape, 1, n)
            half == WordLimit \div 2
<1>1. /\ L \in Nat /\ DOMAIN shape = 1..L
      /\ \A i \in 1..L : shape[i] \in Wire!Dimensions
  OBVIOUS
<1>2. n \in 0..L
  BY <1>1 DEF Wire!NumDims, Wire!CodecAssumption
<1>3. half \in Nat /\ \A d \in Wire!Dimensions : d \in Int /\ d < half
  BY DEF Wire!Dimensions, Wire!CodecAssumption
<1>. HIDE DEF n
<1>4. /\ cut \in Seq(Wire!Dimensions) /\ Len(cut) = n
      /\ \A i \in 1..n : cut[i] = shape[i]
  <2>1. 1 \in Int /\ n \in Int /\ \A i \in 1..n : shape[i] \in Wire!Dimensions
    BY <1>1, <1>2
  <2>. DEFINE k == IF 1 <= n THEN n - 1 + 1 ELSE 0
  <2>2. /\ cut \in Seq(Wire!Dimensions) /\ Len(cut) = k
        /\ \A i \in 1..n - 1 + 1 : cut[i] = shape[1 + i - 1]
    BY <2>1, SubSeqProperties
  <2>3. k = n /\ n - 1 + 1 = n /\ \A i \in 1..n : 1 + i - 1 = i
    BY <1>1, <1>2
  <2>. HIDE DEF k, cut
  <2>. QED
    BY <2>2, <2>3
<1>. HIDE DEF cut
<1>5. DOMAIN cut = 1..n /\ cut = [i \in 1..n |-> cut[i]]
  BY <1>1, <1>2, <1>4
<1>6. \A i \in 1..n : Wire!AsI32(cut[i]) = cut[i]
  <2>. TAKE i \in 1..n
  <2>1. i \in 1..L /\ cut[i] = shape[i]
    BY <1>1, <1>2, <1>4
  <2>2. cut[i] \in Int /\ cut[i] < half
    BY <1>1, <1>3, <2>1
  <2>. HIDE DEF half
  <2>3. ~(cut[i] >= half)
    BY <1>3, <2>2
  <2>. QED
    BY <2>3, Zenon DEF Wire!AsI32, half
<1>7. [i \in DOMAIN cut |-> Wire!AsI32(cut[i])] = cut
  BY <1>5, <1>6
<1>8. cut \in Seq(Words)
  <2>1. Wire!Dimensions \subseteq Words
    BY <1>3 DEF Words
  <2>. HIDE DEF cut
  <2>. QED
    BY <1>4, <2>1
<1>9. n \in Nat
  BY <1>1, <1>2
<1>. QED
  BY <1>4, <1>7, <1>8, <1>9 DEF n, cut

\* Where the parts of a tensor's payload stand.
IsTensor(p, shape, n, dtype, size, extras, e, data) ==
    /\ n \in Nat /\ e \in Nat
    /\ p \in Seq(Words) /\ Len(p) = (n + 3 + e) + Len(data)
    /\ p[1] = n /\ p[n + 2] = dtype /\ p[n + 3] = size
    /\ SubSeq(p, 2, n + 1) = shape
    /\ SubSeq(p, n + 4, n + 3 + e) = extras
    /\ Wire!From(p, n + 4 + e) = data

LEMMA TensorLaid ==
  ASSUME NEW shape \in Seq(Words), NEW n, n = Len(shape), NEW dtype \in Int,
         NEW size \in Int, NEW extras \in Seq(Words), NEW e, e = Len(extras),
         NEW data \in Seq(Words)
  PROVE  IsTensor(<<n>> \o shape \o <<dtype>> \o <<size>> \o extras \o data,
                  shape, n, dtype, size, extras, e, data)
<1>. DEFINE h == <<n>>
            d == <<dtype>>
            x == <<size>>
            a == h \o shape
            b == a \o d
            c == b \o x
            f == c \o extras
            p == f \o data
<1>1. n \in Nat /\ e \in Nat
  OBVIOUS
<1>2. /\ h \in Seq(Words) /\ Len(h) = 1 /\ h[1] = n
      /\ d \in Seq(Words) /\ Len(d) = 1 /\ d[1] = dtype
      /\ x \in Seq(Words) /\ Len(x) = 1 /\ x[1] = size
  <2>1. n \in Words /\ dtype \in Words /\ size \in Words
    BY <1>1 DEF Words
  <2>2. \A q \in Words : <<q>> \in Seq(Words) /\ Len(<<q>>) = 1 /\ <<q>>[1] = q
    OBVIOUS
  <2>. QED
    BY <2>1, <2>2
<1>. HIDE DEF h, d, x
<1>. DEFINE i == 1 + n
            j == i + 1
            k == j + 1
            l == k + e
<1>3. IsJoin(a, h, shape, 1, n)
  <2>1. IsJoin(a, h, shape, Len(h), Len(shape))
    BY <1>2, Joined
  <2>. QED
    BY <1>2, <2>1
<1>4. a \in Seq(Words) /\ Len(a) = i
  BY <1>3 DEF IsJoin
<1>. HIDE DEF a, i
<1>5. IsJoin(b, a, d, i, 1)
  <2>1. IsJoin(b, a, d, Len(a), Len(d))
    BY <1>2, <1>4, Joined
  <2>. QED
    BY <1>2, <1>4, <2>1
<1>6. b \in Seq(Words) /\ Len(b) = j
  BY <1>5 DEF IsJoin
<1>. HIDE DEF b, j
<1>7. IsJoin(c, b, x, j, 1)
  <2>1. IsJoin(c, b, x, Len(b), Len(x))
    BY <1>2, <1>6, Joined
  <2>. QED
    BY <1>2, <1>6, <2>1
<1>8. c \in Seq(Words) /\ Len(c) = k
  BY <1>7 DEF IsJoin
<1>. HIDE DEF c, k
<1>9. IsJoin(f, c, extras, k, e)
  <2>1. IsJoin(f, c, extras, Len(c), Len(extras))
    BY <1>8, Joined
  <2>. QED
    BY <1>8, <2>1
<1>10. f \in Seq(Words) /\ Len(f) = l
  BY <1>9 DEF IsJoin
<1>. HIDE DEF f, l
<1>11. IsRest(p, f, data, l)
  <2>1. IsRest(p, f, data, Len(f))
    BY <1>10, Rest
  <2>. QED
    BY <1>10, <2>1
<1>. HIDE DEF p
<1>12. /\ i = n + 1 /\ j = n + 2 /\ k = n + 3 /\ l = n + 3 + e /\ l + 1 = n + 4 + e
       /\ i \in Nat /\ j \in Nat /\ k \in Nat /\ l \in Nat
  BY <1>1 DEF i, j, k, l
<1>13. /\ \A q \in 1..l : p[q] = f[q]
       /\ \A q \in 1..k : f[q] = c[q]
       /\ \A q \in 1..j : c[q] = b[q]
       /\ \A q \in 1..i : b[q] = a[q]
  BY <1>5, <1>7, <1>9, <1>11 DEF IsJoin, IsRest
<1>14. /\ \A q \in 1..i : q \in 1..j /\ q \in 1..k /\ q \in 1..l
       /\ \A q \in 1..j : q \in 1..k /\ q \in 1..l
       /\ \A q \in 1..k : q \in 1..l
  BY <1>1, <1>12
<1>15. p[1] = n
  <2>1. 1 \in 1..i /\ 1 \in 1..1
    BY <1>1, <1>12
  <2>2. a[1] = n
    BY <1>2, <1>3, <2>1 DEF IsJoin
  <2>. QED
    BY <1>13, <1>14, <2>1, <2>2
<1>16. p[n + 2] = dtype
  <2>1. i + 1 \in 1..j /\ 1 \in 1..1 /\ i + 1 = n + 2
    BY <1>1, <1>12
  <2>2. b[i + 1] = dtype
    BY <1>2, <1>5, <2>1 DEF IsJoin
  <2>. QED
    BY <1>13, <1>14, <2>1, <2>2
<1>17. p[n + 3] = size
  <2>1. j + 1 \in 1..k /\ 1 \in 1..1 /\ j + 1 = n + 3
    BY <1>1, <1>12
  <2>2. c[j + 1] = size
    BY <1>2, <1>7, <2>1 DEF IsJoin
  <2>. QED
    BY <1>13, <1>14, <2>1, <2>2
<1>18. p \in Seq(Words) /\ Len(p) = l + Len(data)
  BY <1>11 DEF IsRest
<1>19. l <= Len(p)
  <2>. DEFINE q == Len(data)
  <2>1. q \in Nat /\ Len(p) = l + q
    BY <1>18
  <2>. HIDE DEF q
  <2>. QED
    BY <1>12, <2>1
<1>20. SubSeq(p, 2, n + 1) = shape
  <2>1. \A q \in 1..n : 1 + q \in 1..i
    BY <1>1, <1>12
  <2>2. \A q \in 1..n : p[1 + q] = shape[q]
    BY <1>3, <1>13, <1>14, <2>1 DEF IsJoin
  <2>3. 1 + n <= Len(p) /\ 1 \in Nat /\ 1 + 1 = 2 /\ 1 + n = n + 1
    <3>. DEFINE s == Len(p)
    <3>1. s \in Nat /\ l <= s
      BY <1>18, <1>19
    <3>. HIDE DEF s
    <3>2. 1 + n <= s
      BY <1>1, <1>12, <3>1
    <3>. QED
      BY <1>1, <3>2 DEF s
  <2>4. SubSeq(p, 1 + 1, 1 + n) = shape
    BY <1>18, <2>2, <2>3, CutOut
  <2>. QED
    BY <2>3, <2>4
<1>21. SubSeq(p, n + 4, n + 3 + e) = extras
  <2>1. \A q \in 1..e : k + q \in 1..l
    BY <1>1, <1>12
  <2>2. \A q \in 1..e : p[k + q] = extras[q]
    BY <1>9, <1>13, <2>1 DEF IsJoin
  <2>3. k + e = l /\ k + 1 = n + 4 /\ l = n + 3 + e
    BY <1>1, <1>12
  <2>4. k + e <= Len(p)
    BY <1>19, <2>3
  <2>5. SubSeq(p, k + 1, k + e) = extras
    BY <1>12, <1>18, <2>2, <2>4, CutOut
  <2>. QED
    BY <2>3, <2>5
<1>22. Wire!From(p, n + 4 + e) = data
  BY <1>11, <1>12 DEF IsRest
<1>23. IsTensor(p, shape, n, dtype, size, extras, e, data)
  BY <1>1, <1>12, <1>15, <1>16, <1>17, <1>18, <1>20, <1>21, <1>22 DEF IsTensor
<1>. QED
  BY <1>23 DEF p, f, c, b, a, h, d, x

LEMMA TensorEchoes ==
  ASSUME Wire!CodecAssumption, NEW v \in Wire!Tensors, NEW session \in Seq(Cells), NEW now \in Nat
  PROVE  Wire!Echoes(v, session, now)
<1>1. /\ v.kind = "Tensor" /\ v.data \in Seq(Cells) /\ v.dtype \in Int
      /\ v.shape \in Seq(Wire!Dimensions) /\ v.metadata \in Wire!Optional(Wire!JsonTexts)
      /\ v = [kind |-> "Tensor", data |-> v.data, dtype |-> v.dtype, shape |-> v.shape,
              metadata |-> v.metadata]
  BY DEF Wire!Tensors
<1>2. ByteLimit \in Nat \ {0} /\ WordLimit \in Nat \ {0}
  BY DEF Wire!CodecAssumption
<1>. DEFINE negative == \E i \in DOMAIN v.shape : v.shape[i] < 0
            refused == negative \/ v.dtype \notin 0..ByteLimit - 1
<1>3. Wire!Refused(v) <=> refused
  <2>1. (\E d \in {v.shape[i] : i \in DOMAIN v.shape} : d < 0) <=> negative
    OBVIOUS
  <2>2. v.dtype \notin 0..ByteLimit - 1 <=> v.dtype < 0 \/ v.dtype >= ByteLimit
    BY <1>1, <1>2
  <2>3. v.kind # "Audio" /\ v.kind \notin {"Numpy", "Image", "Binary", "File"}
    BY <1>1
  <2>. HIDE DEF negative
  <2>. QED
    BY <1>1, <2>1, <2>2, <2>3, Zenon DEF Wire!Refused
<1>4. CASE refused
  <2>1. Wire!EncodeInput(v, session, now) = <<>>
    BY <1>1, <1>4, Kept
  <2>. QED
    BY <1>3, <1>4, <2>1, RefusedEcho
<1>5. CASE ~refused
  <2>. DEFINE n == Wire!NumDims(v.shape)
              cut == SubSeq(v.shape, 1, n)
              extras == IF v.metadata = <<>> THEN <<>> ELSE v.metadata[1]
              e == Len(extras)
              size == e % WordLimit
              p == <<n>> \o cut \o <<v.dtype>> \o <<size>> \o extras \o v.data
              w == Fields(4, session, now, p)
              metadata == IF v.metadata = <<Wire!JsonNull>> THEN <<>> ELSE v.metadata
              out == [kind |-> "Tensor", data |-> v.data, dtype |-> v.dtype, shape |-> cut,
                      metadata |-> metadata]
              found == IF e = 0 THEN Wire!JsonNull ELSE extras
              a == [shape |-> cut, dtype |-> v.dtype, extras |-> found, data |-> v.data]
  <2>1. ~Wire!Unreturnable(v)
    BY <1>1 DEF Wire!Unreturnable
  <2>2. Wire!EncodeInput(v, session, now) = <<Wire!ToBytes(w)>>
    <3>1. Wire!TensorPayload(v, v.shape, v.dtype) = p
      BY Zenon DEF Wire!TensorPayload, Wire!None
    <3>2. Wire!EncodeInput(v, session, now)
            = IF refused THEN <<>>
              ELSE <<Wire!ToBytes(Wire!Wire("Tensor", session, now,
                                            Wire!TensorPayload(v, v.shape, v.dtype)))>>
      BY <1>1, Kept, Zenon
    <3>. HIDE DEF p, refused
    <3>. QED
      BY <1>5, <3>1, <3>2, Framed
  <2>3. n \in Nat /\ cut \in Seq(Words) /\ Len(cut) = n
        /\ [i \in DOMAIN cut |-> Wire!AsI32(cut[i])] = cut
    <3>1. \A i \in DOMAIN v.shape : ~(v.shape[i] < 0)
      BY <1>5
    <3>. QED
      BY <1>1, <3>1, ShapeKept
  <2>4. /\ extras \in Seq(Cells) /\ e \in Nat
        /\ e = 0 <=> v.metadata = <<>>
        /\ v.metadata # <<>> => v.metadata = <<extras>>
    <3>1. CASE v.metadata = <<>>
      <4>1. extras = <<>>
        BY <3>1
      <4>2. <<>> \in Seq(Cells) /\ Len(<<>>) = 0
        BY EmptySeq
      <4>. HIDE DEF extras
      <4>. QED
        BY <3>1, <4>1, <4>2
    <3>2. ASSUME NEW s \in Wire!JsonTexts, v.metadata = <<s>>
               PROVE  /\ extras \in Seq(Cells) /\ e \in Nat
                      /\ e = 0 <=> v.metadata = <<>>
                      /\ v.metadata # <<>> => v.metadata = <<extras>>
      <4>1. v.metadata # <<>> /\ v.metadata[1] = s
        BY <3>2, Single
      <4>2. extras = s
        BY <4>1
      <4>3. s \in Seq(Cells) /\ s # <<>>
        BY DEF Wire!JsonTexts, Wire!None
      <4>. HIDE DEF extras
      <4>4. e \in Nat \ {0}
        BY <4>2, <4>3, EmptySeq
      <4>. QED
        BY <3>2, <4>1, <4>2, <4>3, <4>4
    <3>3. v.metadata = <<>> \/ \E s \in Wire!JsonTexts : v.metadata = <<s>>
      BY <1>1, OptionalIs
    <3>. HIDE DEF extras
    <3>. QED
      BY <3>1, <3>2, <3>3
  <2>5. size \in Int
    BY <1>2, <2>4
  <2>6. extras \in Seq(Words) /\ v.data \in Seq(Words)
    BY <1>1, <2>4, Widened
  <2>. HIDE DEF n, cut, extras, size
  <2>7. IsTensor(p, cut, n, v.dtype, size, extras, e, v.data)
    BY <1>1, <2>3, <2>5, <2>6, TensorLaid
  <2>. HIDE DEF p
  <2>8. w.type = 4 /\ w.payload = p
    BY DEF Fields
  <2>9. Wire!Returned(v, now) = out
    <3>1. Wire!Returned(v, now) = [v EXCEPT !.shape = cut, !.metadata = metadata]
      BY <1>1, Returns DEF cut, n
    <3>2. [v EXCEPT !.shape = cut, !.metadata = metadata] = out
      <4>. HIDE DEF metadata
      <4>. DEFINE x == [v EXCEPT !.shape = cut]
      <4>1. x = [kind |-> "Tensor", data |-> v.data, dtype |-> v.dtype, shape |-> cut,
                 metadata |-> v.metadata]
        BY <1>1
      <4>. HIDE DEF x
      <4>2. [x EXCEPT !.metadata = metadata] = out
        BY <4>1
      <4>. QED
        BY <4>2 DEF x
    <3>. QED
      BY <3>1, <3>2, Zenon
  <2>10. ASSUME Len(p) < WordLimit PROVE Wire!DecodeFrame(w) = <<out>>
    <3>. DEFINE L == Len(p)
    <3>1. L = (n + 3 + e) + Len(v.data) /\ Len(v.data) \in Nat
      BY <1>1, <2>7 DEF IsTensor
    <3>2. n + 3 + e <= L /\ e < WordLimit
      <4>. DEFINE q == Len(v.data)
      <4>1. L = (n + 3 + e) + q /\ q \in Nat /\ L < WordLimit
        BY <2>10, <3>1
      <4>. HIDE DEF q, L, e
      <4>. QED
        BY <1>2, <2>3, <2>4, <4>1
    <3>3. size = e
      <4>. HIDE DEF e
      <4>. QED
        BY <1>2, <2>4, <3>2 DEF size
    <3>4. ~(L < 1) /\ ~(n + 3 > L) /\ ~(n + 3 + e > L)
      <4>1. L \in Nat
        <5>1. p \in Seq(Words)
          BY <2>7 DEF IsTensor
        <5>. QED
          BY <5>1
      <4>. HIDE DEF e, L
      <4>. QED
        BY <2>3, <2>4, <3>2, <4>1
    <3>5. Wire!DecodeTensor(p) = <<a>>
      <4>1. /\ p[1] = n /\ p[n + 2] = v.dtype /\ p[n + 3] = e
            /\ SubSeq(p, 2, n + 1) = cut
            /\ SubSeq(p, n + 4, n + 3 + e) = extras
            /\ Wire!From(p, n + 4 + e) = v.data
        BY <2>7, <3>3 DEF IsTensor
      <4>. HIDE DEF e
      <4>2. Wire!DecodeTensor(p)
              = <<[shape |-> SubSeq(p, 2, n + 1), dtype |-> p[n + 2],
                   extras |-> IF e = 0 THEN Wire!JsonNull ELSE SubSeq(p, n + 4, n + 3 + e),
                   data |-> Wire!From(p, n + 4 + e)]>>
        BY <3>4, <4>1 DEF Wire!DecodeTensor, Wire!Done
      <4>. QED
        BY <4>1, <4>2
    <3>6. Wire!PublicTensor(a) = out
      <4>1. /\ a.shape = cut /\ a.dtype = v.dtype /\ a.extras = found /\ a.data = v.data
        OBVIOUS
      <4>2. (IF found = Wire!JsonNull THEN <<>> ELSE <<found>>) = metadata
        <5>1. CASE v.metadata = <<>>
          <6>1. found = Wire!JsonNull
            BY <2>4, <5>1
          <6>2. metadata = <<>>
            BY <5>1
          <6>. QED
            BY <6>1, <6>2, Zenon
        <5>2. CASE v.metadata # <<>>
          <6>1. found = extras /\ v.metadata = <<extras>>
            BY <2>4, <5>2
          <6>2. <<extras>> = <<Wire!JsonNull>> <=> extras = Wire!JsonNull
            BY Single
          <6>. HIDE DEF found
          <6>. QED
            BY <6>1, <6>2
        <5>. QED
          BY <5>1, <5>2
      <4>. HIDE DEF a, found, metadata
      <4>3. Wire!PublicTensor(a)
              = [kind |-> "Tensor", data |-> a.data, dtype |-> a.dtype,
                 shape |-> [i \in DOMAIN a.shape |-> Wire!AsI32(a.shape[i])],
                 metadata |-> IF a.extras = Wire!JsonNull THEN <<>> ELSE <<a.extras>>]
        BY Zenon DEF Wire!PublicTensor, Wire!None, Wire!Some
      <4>. QED
        BY <2>3, <4>1, <4>2, <4>3
    <3>7. Wire!DecodeTensor(p) # <<>> /\ Wire!DecodeTensor(p)[1] = a
      <4>. HIDE DEF a
      <4>. QED
        BY <3>5, Single
    <3>. HIDE DEF w, a, out
    <3>. QED
      BY <2>8, <3>6, <3>7, Decoded
  <2>11. p \in Seq(Words) /\ 4 \in 1..8
    BY <2>7 DEF IsTensor
  <2>. HIDE DEF out
  <2>12. Len(p) < WordLimit =>
            Wire!DecodeFrame(w) = IF Wire!Unreturnable(v) THEN <<>> ELSE <<Wire!Returned(v, now)>>
    BY <2>1, <2>9, <2>10
  <2>13. ~Wire!Refused(v)
    BY <1>3, <1>5
  <2>. QED
    BY <2>2, <2>11, <2>12, <2>13, EchoOf
<1>. QED
  BY <1>4, <1>5

(* A value that a runner sends straight back is the value that went, but for *)
(* what the frame has no place for; what cannot be sent is refused, and of a *)
(* torn blob nothing is taken for a value (python_ipc.rs 350-409,            *)
(* python_subprocess.rs 697-903).                                            *)
THEOREM ValuesEcho ==
  ASSUME Wire!CodecAssumption, NEW v \in Wire!RuntimeData, NEW session \in Seq(Cells),
         NEW now \in Nat
  PROVE  Wire!Echoes(v, session, now)
<1>1. CASE v \in Wire!Others
  <2>1. v.kind \in {"Numpy", "Image", "Binary", "File"}
    BY <1>1 DEF Wire!Others
  <2>2. Wire!Refused(v)
    BY <2>1, Zenon DEF Wire!Refused
  <2>3. Wire!EncodeInput(v, session, now) = <<>>
    BY <2>1, Kept
  <2>. QED
    BY <2>2, <2>3, RefusedEcho
<1>2. v \in Wire!Texts => Wire!Echoes(v, session, now)
  BY TextEchoes
<1>3. v \in Wire!Jsons => Wire!Echoes(v, session, now)
  BY JsonEchoes
<1>4. v \in Wire!Audios => Wire!Echoes(v, session, now)
  BY AudioEchoes
<1>5. v \in Wire!Tensors => Wire!Echoes(v, session, now)
  BY TensorEchoes
<1>6. v \in Wire!Videos => Wire!Echoes(v, session, now)
  BY VideoEchoes
<1>7. v \in Wire!Controls => Wire!Echoes(v, session, now)
  BY ControlEchoes
<1>. QED
  BY <1>1, <1>2, <1>3, <1>4, <1>5, <1>6, <1>7, Zenon DEF Wire!RuntimeData

-----------------------------------------------------------------------------
(* The specification *)

\* Each action makes a probe of its own kind.
LEMMA Kinds ==
  /\ ValuesInit => probe.of = "nothing"
  /\ TakeValue => probe'.of = "wire"
  /\ TakeHistory => probe'.of = "history"
  /\ TakeText => probe'.of = "tag"
  /\ TakeCall => probe'.of = "call"
  /\ TakeTool => probe'.of = "tool"
  /\ TakeConstraints => probe'.of = "constraints"
  /\ TakeMedium => probe'.of = "media"
  /\ TakeFrame => probe'.of = "frame"
  /\ TakeLists => probe'.of = "merge"
  /\ TakeInstall => probe'.of = "report"
BY DEF ValuesInit, Idle, TakeValue, TakeHistory, TakeText, TakeCall, TakeTool, TakeConstraints,
       TakeMedium, TakeFrame, TakeLists, TakeInstall

\* What two parts are told of one medium agrees, whatever values a field can
\* have and wherever a u32 ends (capabilities.rs 43-100, 292-342, types lib.rs
\* 847-884).
THEOREM MediaAlwaysAgree == ValuesSpec => []MediaAgree
<1>1. ValuesInit => MediaAgree
  BY Kinds DEF MediaAgree
<1>2. TakeConstraints => MediaAgree'
  <2>. SUFFICES ASSUME NEW a \in Caps!Constraints, NEW b \in Caps!Constraints,
                       probe' = [of |-> "constraints", a |-> a, b |-> b]
                PROVE  MediaAgree'
    BY DEF TakeConstraints
  <2>1. Caps!Agree(a, b)
    BY ConstraintsAgree, MediaTypes
  <2>. QED
    BY <2>1 DEF MediaAgree
<1>3. TakeMedium => MediaAgree'
  <2>. SUFFICES ASSUME NEW m \in Mediums, probe' = [of |-> "media", m |-> m]
                PROVE  MediaAgree'
    BY DEF TakeMedium
  <2>1. Caps!Fixed(m)
    BY InflexibleFixed, MediaTypes
  <2>. QED
    BY <2>1 DEF MediaAgree
<1>4. TakeFrame => MediaAgree'
  <2>. SUFFICES ASSUME NEW f \in FrameCases, probe' = [of |-> "frame", frame |-> f]
                PROVE  MediaAgree'
    BY DEF TakeFrame
  <2>1. Frames!AsDeclared(f)
    BY FramesAsDeclared, MediaTypes DEF FrameRecords
  <2>. QED
    BY <2>1 DEF MediaAgree
<1>5. ValuesNext => MediaAgree'
  BY <1>2, <1>3, <1>4, Kinds DEF ValuesNext, TakeAny, MediaAgree
<1>6. MediaAgree /\ UNCHANGED probe => MediaAgree'
  BY DEF MediaAgree
<1>. QED
  BY <1>1, <1>5, <1>6, PTL DEF ValuesSpec

\* No requirement of any lists is lost when they are merged, and exactly what is
\* not installed is reported (py-env-manager lib.rs 88-132, 163-275).
THEOREM RequirementsAlwaysKept == ValuesSpec => []RequirementsKept
<1>1. ValuesInit => RequirementsKept
  BY Kinds DEF RequirementsKept
<1>2. TakeLists => RequirementsKept'
  <2>. SUFFICES ASSUME NEW a \in Deps, NEW b \in Deps, NEW c \in Deps,
                       probe' = [of |-> "merge", lists |-> <<<<a>>, <<b>>, <<c>>>>]
                PROVE  RequirementsKept'
    BY DEF TakeLists
  <2>. DEFINE lists == <<<<a>>, <<b>>, <<c>>>>
  <2>1. lists[1] \in Seq(Deps) /\ lists[2] \in Seq(Deps) /\ lists[3] \in Seq(Deps)
    OBVIOUS
  <2>. HIDE DEF lists
  <2>2. Req!Merged(lists)
    BY <2>1, MergeKeeps
  <2>. QED
    BY <2>2 DEF RequirementsKept, lists
<1>3. TakeInstall => RequirementsKept'
  <2>. SUFFICES ASSUME NEW d \in Deps, NEW e \in Deps, NEW n \in SUBSET Installed,
                       probe' = [of |-> "report", deps |-> <<d, e>>, installed |-> n]
                PROVE  RequirementsKept'
    BY DEF TakeInstall
  <2>1. Req!ReportsRight(<<d, e>>, n)
    BY AbsentReported
  <2>. QED
    BY <2>1 DEF RequirementsKept
<1>4. ValuesNext => RequirementsKept'
  BY <1>2, <1>3, Kinds DEF ValuesNext, TakeAny, RequirementsKept
<1>5. RequirementsKept /\ UNCHANGED probe => RequirementsKept'
  BY DEF RequirementsKept
<1>. QED
  BY <1>1, <1>4, <1>5, PTL DEF ValuesSpec

\* What a node declares of its media and of its requirements is what the host
\* makes of it (capabilities.rs 43-100, 292-342, types lib.rs 847-884,
\* py-env-manager lib.rs 88-132, 163-275).
THEOREM DeclarationsAlwaysKept == ValuesSpec => []DeclarationsKept
<1>1. MediaAgree /\ RequirementsKept => DeclarationsKept
  BY DEF DeclarationsKept
<1>. QED
  BY <1>1, MediaAlwaysAgree, RequirementsAlwaysKept, PTL

\* A chat node sends no tool result without its call, speaks what a tool call
\* gives it where it is for, and what goes into a channel is found there, for
\* every history, text, registry, call and channel (history.rs 91-107,
\* tool_dispatch.rs 36-190, types lib.rs 458-498).
THEOREM ToolsAlwaysTurn == ValuesSpec => []ToolTurns
<1>1. ValuesInit => ToolTurns
  BY Kinds DEF ToolTurns
<1>2. TakeHistory => ToolTurns'
  <2>. SUFFICES ASSUME NEW h \in Histories, NEW n \in Windows,
                       probe' = [of |-> "history", entries |-> h, turns |-> n]
                PROVE  ToolTurns'
    BY DEF TakeHistory
  <2>1. h \in Seq(Llm!Entries(Calls)) /\ n \in Nat
    BY ToolTypes
  <2>2. Llm!WindowPairs(h, n)
    BY <2>1, WindowKeepsPairs
  <2>. QED
    BY <2>2 DEF ToolTurns
<1>3. TakeText => ToolTurns'
  <2>. SUFFICES ASSUME NEW t \in Snippets, NEW c \in Names,
                       probe' = [of |-> "tag", text |-> t, channel |-> c]
                PROVE  ToolTurns'
    BY DEF TakeText
  <2>1. Llm!ChannelKept(t, c)
    BY ToolTypes, ChannelsKept
  <2>. QED
    BY <2>1 DEF ToolTurns
<1>4. TakeCall => ToolTurns'
  <2>. SUFFICES ASSUME NEW r \in Registries, NEW call \in Requests, NEW c \in Names,
                       NEW f \in Failures,
                       probe' = [of |-> "call", registry |-> r, call |-> call, channel |-> c,
                                 fails |-> f]
                PROVE  ToolTurns'
    BY DEF TakeCall
  <2>1. r \in Seq(Llm!ToolSpecs) /\ c \in Llm!Texts /\ f \in Nat
    BY ToolTypes
  <2>2. IsCall(r, call)
    BY <2>1, ToolTypes, RegistryTypes DEF IsCall
  <2>3. Llm!Dispatched(r, call, c, f)
    BY <2>1, <2>2, ToolTypes, CallsDispatched
  <2>. QED
    BY <2>3 DEF ToolTurns
<1>5. TakeTool => ToolTurns'
  <2>. SUFFICES ASSUME NEW i \in DOMAIN Llm!DefaultTools, NEW t \in Snippets,
                       probe' = [of |-> "tool", spec |-> Llm!DefaultTools[i], text |-> t]
                PROVE  ToolTurns'
    BY DEF TakeTool
  <2>1. Llm!Understood(Llm!DefaultTools[i], t)
    BY RequiredUnderstood
  <2>. QED
    BY <2>1 DEF ToolTurns
<1>6. ValuesNext => ToolTurns'
  BY <1>2, <1>3, <1>4, <1>5, Kinds DEF ValuesNext, TakeAny, ToolTurns
<1>7. ToolTurns /\ UNCHANGED probe => ToolTurns'
  BY DEF ToolTurns
<1>. QED
  BY <1>1, <1>6, <1>7, PTL DEF ValuesSpec

\* Whatever goes to a runner, in whatever session, comes back as it went, and no
\* torn blob is taken for a value (python_ipc.rs 350-409, python_subprocess.rs
\* 697-903).
THEOREM RunnerAlwaysEchoes == ValuesSpec => []RunnerEchoes
<1>1. ValuesInit => RunnerEchoes
  BY Kinds DEF RunnerEchoes
<1>2. TakeValue => RunnerEchoes'
  <2>. SUFFICES ASSUME NEW v \in WireCases, NEW session \in Sessions,
                       probe' = [of |-> "wire", v |-> v, session |-> session]
                PROVE  RunnerEchoes'
    BY DEF TakeValue
  <2>1. v \in Wire!RuntimeData /\ session \in Seq(Cells) /\ Now \in Nat /\ Wire!CodecAssumption
    BY WireTypes
  <2>2. Wire!Echoes(v, session, Now)
    BY <2>1, ValuesEcho
  <2>. QED
    BY <2>2 DEF RunnerEchoes
<1>3. ValuesNext => RunnerEchoes'
  BY <1>2, Kinds DEF ValuesNext, TakeAny, RunnerEchoes
<1>4. RunnerEchoes /\ UNCHANGED probe => RunnerEchoes'
  BY DEF RunnerEchoes
<1>. QED
  BY <1>1, <1>3, <1>4, PTL DEF ValuesSpec
=============================================================================
