-------------------------- MODULE UvBinary_proofs ---------------------------
(***************************************************************************)
(* In which cases only a torn or unexecutable uv is handed out, for any    *)
(* number of processes, releases and blocks.                               *)
(***************************************************************************)
EXTENDS UvBinary, TLAPS

Steps == {"look", "compare", "fetch", "copy", "chmod", "done", "dead"}
Contents == {Release[b] : b \in Builds} \cup {Hole}
Files == [there : BOOLEAN, exec : BOOLEAN, blocks : Seq(Contents)]
Backends ==
    {NotYet} \cup [from : {"elsewhere", "fallback"}]
        \cup [from : {"found", "present", "made"}, file : Files, beside : SUBSET Builds]

Types ==
    /\ binary \in Files
    /\ builder \in [Builds -> [step : Steps, at : 0..Blocks]]
    /\ given \in [Builds -> Backends]
    /\ met \subseteq Builds
    /\ fault \in BOOLEAN

\* Two that write at the same time have met.
Apart == \A v, w \in Writers : v # w => v \in met

\* The file is what the one that met no other has written of it so far.
Written ==
    \A w \in Writers \ met :
        /\ binary.there
        /\ Len(binary.blocks) = builder[w].at
        /\ \A i \in 1..builder[w].at : binary.blocks[i] = Release[w]
        /\ builder[w].step = "chmod" => builder[w].at = Blocks

\* Nobody writes: what is there is whole, unless writers met or failed.
Left == Writers = {} /\ met = {} /\ ~fault /\ binary.there => Whole(binary)

\* What is not executable has a writer that will make it so, unless one failed.
Pending == binary.there /\ ~binary.exec /\ ~fault => Writers # {}

IInv == Types /\ Apart /\ Written /\ Left /\ Pending /\ HandsOutWhole

LEMMA EmptyBlocks == <<>> \in Seq(Contents) /\ Len(<<>>) = 0
OBVIOUS

-----------------------------------------------------------------------------
(* What a step changes *)

\* Process b goes to step s, with n blocks written; the others stay.
Moves(b, s, n) ==
    builder' = [c \in Builds |-> IF c = b THEN [step |-> s, at |-> n] ELSE builder[c]]

LEMMA StepMoves ==
  ASSUME Types, NEW b \in Builds, NEW s, builder' = [builder EXCEPT ![b].step = s]
  PROVE  Moves(b, s, builder[b].at)
<1>1. builder[b] \in [step : Steps, at : 0..Blocks]
  BY DEF Types
<1>2. [builder[b] EXCEPT !.step = s] = [step |-> s, at |-> builder[b].at]
  BY <1>1
<1>3. builder = [c \in Builds |-> builder[c]]
  BY DEF Types
<1>. QED
  BY <1>2, <1>3 DEF Moves

LEMMA Moved ==
  ASSUME Types, UvAssumption, NEW b \in Builds, NEW s \in Steps, NEW n \in 0..Blocks,
         Moves(b, s, n)
  PROVE  /\ builder' \in [Builds -> [step : Steps, at : 0..Blocks]]
         /\ builder'[b].step = s /\ builder'[b].at = n
         /\ \A c \in Builds \ {b} : builder'[c] = builder[c]
         /\ Writers' = IF s \in {"copy", "chmod"} THEN Writers \cup {b} ELSE Writers \ {b}
<1>1. builder' = [c \in Builds |-> IF c = b THEN [step |-> s, at |-> n] ELSE builder[c]]
  BY DEF Moves
<1>2. builder' \in [Builds -> [step : Steps, at : 0..Blocks]]
  BY <1>1 DEF Types
<1>3. /\ builder'[b].step = s /\ builder'[b].at = n
      /\ \A c \in Builds \ {b} : builder'[c] = builder[c]
  BY <1>1
<1>4. Writers' = IF s \in {"copy", "chmod"} THEN Writers \cup {b} ELSE Writers \ {b}
  BY <1>3 DEF Writers
<1>. QED
  BY <1>2, <1>3, <1>4

\* A step of a process that only looks leaves the file and its writers alone.
LEMMA LookingKeeps ==
  ASSUME UvAssumption, IInv, NEW b \in Builds, builder[b].step \in {"look", "compare", "fetch"},
         NEW s \in Steps \ {"copy", "chmod"}, NEW n \in 0..Blocks, Moves(b, s, n),
         UNCHANGED <<binary, met, fault>>
  PROVE  Apart' /\ Written' /\ Left' /\ Pending'
<1>1. b \notin Writers
  BY DEF Writers
<1>2. /\ \A c \in Builds \ {b} : builder'[c] = builder[c]
      /\ Writers' = Writers
  BY <1>1, Moved DEF IInv
<1>3. \A w \in Writers : builder'[w] = builder[w]
  BY <1>1, <1>2 DEF Writers
<1>4. Apart'
  BY <1>2 DEF IInv, Apart
<1>5. Written'
  BY <1>2, <1>3 DEF IInv, Written
<1>6. Left' /\ Pending'
  BY <1>2 DEF IInv, Left, Pending, Whole
<1>. QED
  BY <1>4, <1>5, <1>6

\* Whether a backend g of process b is what HandsOutWhole promises.
Fair(b, g, m, f) ==
    "file" \in DOMAIN g /\ ~Whole(g.file) =>
        /\ g.from = "made" => b \in m
        /\ g.from = "found" => g.beside # {} \/ f \/ m # {}
        /\ g.from = "present" => ~g.file.exec /\ (g.beside # {} \/ f)

\* The promise is kept for backends handed out before: what processes have met
\* and failed only grows.
LEMMA HandedBefore ==
  ASSUME IInv, NEW b \in Builds, \A c \in Builds : c # b => given'[c] = given[c],
         met \subseteq met', fault => fault',
         Fair(b, given'[b], met', fault')
  PROVE  HandsOutWhole'
BY DEF IInv, HandsOutWhole, Handed, Fair, Whole

LEMMA NothingHanded ==
  ASSUME IInv, UNCHANGED given, met \subseteq met', fault => fault'
  PROVE  HandsOutWhole'
BY DEF IInv, HandsOutWhole, Handed, Whole

-----------------------------------------------------------------------------
(* The steps *)

LEMMA ElsewhereKeeps ==
  ASSUME UvAssumption, IInv, NEW b \in Builds, Elsewhere(b) \/ FetchFails(b)
  PROVE  IInv'
<1>1. PICK from \in {"elsewhere", "fallback"} :
        /\ builder[b].step \in {"look", "fetch"}
        /\ builder' = [builder EXCEPT ![b].step = "done"]
        /\ given' = [given EXCEPT ![b] = [from |-> from]]
        /\ UNCHANGED <<binary, met, fault>>
  BY DEF Elsewhere, FetchFails
<1>2. Moves(b, "done", builder[b].at) /\ builder[b].at \in 0..Blocks /\ "done" \in Steps
  BY <1>1, StepMoves DEF IInv, Types, Steps
<1>3. Apart' /\ Written' /\ Left' /\ Pending'
  BY <1>1, <1>2, LookingKeeps
<1>4. given'[b] = [from |-> from] /\ \A c \in Builds : c # b => given'[c] = given[c]
  BY <1>1 DEF IInv, Types
<1>5. Types'
  <2>1. given' \in [Builds -> Backends]
    BY <1>1 DEF IInv, Types, Backends
  <2>. QED
    BY <1>1, <1>2, <2>1, Moved DEF IInv, Types
<1>6. Fair(b, given'[b], met', fault')
  BY <1>4 DEF Fair
<1>7. HandsOutWhole'
  BY <1>1, <1>4, <1>6, HandedBefore
<1>. QED
  BY <1>3, <1>5, <1>7 DEF IInv

LEMMA FoundKeeps ==
  ASSUME UvAssumption, IInv, NEW b \in Builds, Found(b) \/ AlreadyPresent(b)
  PROVE  IInv'
<1>1. PICK from \in {"found", "present"} :
        /\ builder[b].step \in {"look", "compare"} /\ binary.there
        /\ from = "present" => binary.blocks = [i \in 1..Blocks |-> Release[b]]
        /\ Done(b, from)
        /\ UNCHANGED <<binary, met, fault>>
  BY DEF Found, AlreadyPresent
<1>2. /\ builder' = [builder EXCEPT ![b].step = "done"]
      /\ given' = [given EXCEPT ![b] =
                     [from |-> from, file |-> binary, beside |-> Writers \ {b}]]
  BY <1>1 DEF Done
<1>3. Moves(b, "done", builder[b].at) /\ builder[b].at \in 0..Blocks /\ "done" \in Steps
  BY <1>2, StepMoves DEF IInv, Types, Steps
<1>4. Apart' /\ Written' /\ Left' /\ Pending'
  BY <1>1, <1>3, LookingKeeps
<1>5. given'[b] = [from |-> from, file |-> binary, beside |-> Writers \ {b}]
      /\ \A c \in Builds : c # b => given'[c] = given[c]
  BY <1>2 DEF IInv, Types
<1>6. Types'
  <2>1. [from |-> from, file |-> binary, beside |-> Writers \ {b}] \in Backends
    BY DEF IInv, Types, Backends, Writers
  <2>2. given' \in [Builds -> Backends]
    BY <1>2, <2>1 DEF IInv, Types
  <2>. QED
    BY <1>1, <1>3, <2>2, Moved DEF IInv, Types
<1>7. Writers \ {b} = Writers
  BY <1>1 DEF Writers
<1>8. Fair(b, given'[b], met', fault')
  <2>1. CASE from = "found"
    <3>1. ~Whole(binary) => Writers # {} \/ fault \/ met # {}
      BY <1>1 DEF IInv, Left, Types
    <3>. QED
      BY <1>1, <1>5, <1>7, <2>1, <3>1 DEF Fair
  <2>2. CASE from = "present"
    <3>1. binary.exec => Whole(binary)
      <4>1. binary.blocks = [i \in 1..Blocks |-> Release[b]]
        BY <1>1, <2>2
      <4>2. Len(binary.blocks) = Blocks
        BY <4>1 DEF UvAssumption
      <4>3. \A i \in 1..Blocks : binary.blocks[i] = Release[b]
        BY <4>1
      <4>. QED
        BY <4>2, <4>3 DEF Whole
    <3>2. ~binary.exec => Writers # {} \/ fault
      BY <1>1 DEF IInv, Pending
    <3>. QED
      BY <1>1, <1>5, <1>7, <2>2, <3>1, <3>2 DEF Fair
  <2>. QED
    BY <2>1, <2>2
<1>9. HandsOutWhole'
  BY <1>1, <1>5, <1>8, HandedBefore
<1>. QED
  BY <1>4, <1>6, <1>9 DEF IInv

LEMMA AbsentKeeps ==
  ASSUME UvAssumption, IInv, NEW b \in Builds, Absent(b)
  PROVE  IInv'
<1>1. PICK s \in {"compare", "fetch"} :
        /\ builder[b].step = "look"
        /\ builder' = [builder EXCEPT ![b].step = s]
        /\ UNCHANGED <<binary, given, met, fault>>
  BY DEF Absent
<1>2. /\ Moves(b, s, builder[b].at) /\ builder[b].at \in 0..Blocks
      /\ s \in Steps \ {"copy", "chmod"}
  BY <1>1, StepMoves DEF IInv, Types, Steps
<1>3. Apart' /\ Written' /\ Left' /\ Pending'
  BY <1>1, <1>2, LookingKeeps
<1>4. Types'
  BY <1>1, <1>2, Moved DEF IInv, Types
<1>5. HandsOutWhole'
  BY <1>1, NothingHanded
<1>. QED
  BY <1>3, <1>4, <1>5 DEF IInv

\* A writer that opens a file others write to has met them, and they have met it.
LEMMA OpenKeeps ==
  ASSUME UvAssumption, IInv, NEW b \in Builds, Open(b)
  PROVE  IInv'
<1>1. /\ builder[b].step \in {"compare", "fetch"}
      /\ binary' = [binary EXCEPT !.there = TRUE, !.blocks = <<>>]
      /\ builder' = [builder EXCEPT ![b] = [step |-> "copy", at |-> 0]]
      /\ met' = IF Writers = {} THEN met ELSE met \cup Writers \cup {b}
      /\ UNCHANGED <<given, fault>>
  BY DEF Open
<1>2. Moves(b, "copy", 0) /\ 0 \in 0..Blocks /\ "copy" \in Steps
  <2>1. builder = [c \in Builds |-> builder[c]]
    BY DEF IInv, Types
  <2>2. Moves(b, "copy", 0)
    BY <1>1, <2>1 DEF Moves
  <2>3. 0 \in 0..Blocks
    BY DEF UvAssumption
  <2>4. "copy" \in Steps
    BY DEF Steps
  <2>. QED
    BY <2>2, <2>3, <2>4
<1>3. /\ builder' \in [Builds -> [step : Steps, at : 0..Blocks]]
      /\ builder'[b].step = "copy" /\ builder'[b].at = 0
      /\ Writers' = Writers \cup {b}
  BY <1>2, Moved DEF IInv
<1>4. b \notin Writers
  BY <1>1 DEF Writers
<1>5. /\ binary'.there /\ binary'.exec = binary.exec /\ Len(binary'.blocks) = 0
      /\ binary' \in Files
  <2>. DEFINE none == <<>>
  <2>1. none \in Seq(Contents) /\ Len(none) = 0
    BY EmptyBlocks
  <2>2. binary' = [binary EXCEPT !.there = TRUE, !.blocks = none]
    BY <1>1
  <2>3. binary \in Files
    BY DEF IInv, Types
  <2>. HIDE DEF none
  <2>4. binary' = [there |-> TRUE, exec |-> binary.exec, blocks |-> none]
    BY <2>2, <2>3 DEF Files
  <2>. QED
    BY <2>1, <2>3, <2>4 DEF Files
<1>6. met \subseteq met' /\ met' \subseteq Builds
  BY <1>1 DEF IInv, Types, Writers
<1>7. Types'
  BY <1>1, <1>3, <1>5, <1>6 DEF IInv, Types
<1>8. Apart'
  <2>1. CASE Writers = {}
    BY <1>3, <2>1 DEF Apart
  <2>2. CASE Writers # {}
    BY <1>1, <1>3, <2>2 DEF Apart
  <2>. QED
    BY <2>1, <2>2
<1>9. Written'
  <2>1. Writers' \ met' \subseteq {b}
    BY <1>1, <1>3
  <2>2. Len(binary'.blocks) = 0
    BY <1>5
  <2>. QED
    BY <1>3, <1>5, <2>1, <2>2 DEF Written
<1>10. Left' /\ Pending'
  BY <1>3 DEF Left, Pending
<1>11. HandsOutWhole'
  BY <1>1, <1>6, NothingHanded
<1>. QED
  BY <1>7, <1>8, <1>9, <1>10, <1>11 DEF IInv

\* A block is written at the writer's own place: for one that met no other, at
\* the end of the file.
LEMMA CopyKeeps ==
  ASSUME UvAssumption, IInv, NEW b \in Builds, Copy(b)
  PROVE  IInv'
<1>. DEFINE at == builder[b].at
            length == IF Len(binary.blocks) > at + 1 THEN Len(binary.blocks) ELSE at + 1
            copied == [i \in 1..length |->
                          IF i = at + 1 THEN Release[b]
                          ELSE IF i <= Len(binary.blocks) THEN binary.blocks[i] ELSE Hole]
<1>1. /\ builder[b].step = "copy" /\ at < Blocks
      /\ binary' = [binary EXCEPT !.blocks = copied]
      /\ builder' = [builder EXCEPT ![b].at = at + 1]
      /\ UNCHANGED <<given, met, fault>>
  BY DEF Copy
<1>2. builder[b] \in [step : Steps, at : 0..Blocks] /\ Blocks \in Nat
  BY DEF IInv, Types, UvAssumption
<1>3. at \in Nat /\ at + 1 \in 0..Blocks
  BY <1>1, <1>2
<1>. DEFINE next == at + 1
<1>4. Moves(b, "copy", at + 1)
  <2>1. [builder[b] EXCEPT !.at = at + 1] = [step |-> "copy", at |-> at + 1]
    BY <1>1, <1>2
  <2>2. builder = [c \in Builds |-> builder[c]]
    BY DEF IInv, Types
  <2>. QED
    BY <1>1, <2>1, <2>2 DEF Moves
<1>5. /\ builder' \in [Builds -> [step : Steps, at : 0..Blocks]]
      /\ builder'[b].step = "copy" /\ builder'[b].at = at + 1
      /\ \A c \in Builds \ {b} : builder'[c] = builder[c]
      /\ Writers' = Writers /\ b \in Writers
  <2>1. "copy" \in Steps
    BY DEF Steps
  <2>2. b \in Writers
    BY <1>1 DEF Writers
  <2>3. next \in 0..Blocks /\ Moves(b, "copy", next)
    BY <1>3, <1>4
  <2>. HIDE DEF next
  <2>4. /\ builder' \in [Builds -> [step : Steps, at : 0..Blocks]]
        /\ builder'[b].step = "copy" /\ builder'[b].at = next
        /\ \A c \in Builds \ {b} : builder'[c] = builder[c]
        /\ Writers' = Writers \cup {b}
    BY <2>1, <2>3, Moved DEF IInv
  <2>. QED
    BY <2>2, <2>4 DEF next
<1>6. Len(binary.blocks) \in Nat /\ binary.blocks \in Seq(Contents) /\ binary \in Files
  BY DEF IInv, Types, Files
<1>7. length \in Nat
  BY <1>3, <1>6
<1>8. copied \in Seq(Contents) /\ Len(copied) = length
  <2>. HIDE DEF length
  <2>1. Release[b] \in Contents /\ Hole \in Contents
    BY DEF Contents
  <2>2. \A i \in 1..length : copied[i] \in Contents
    BY <1>6, <1>7, <2>1
  <2>3. copied \in [1..length -> Contents]
    BY <2>2
  <2>. QED
    BY <1>7, <2>3
<1>9. /\ binary'.blocks = copied
      /\ binary'.there = binary.there /\ binary'.exec = binary.exec
      /\ binary' \in Files
  <2>. HIDE DEF copied
  <2>. QED
    BY <1>1, <1>6, <1>8 DEF Files
<1>10. Types'
  BY <1>1, <1>5, <1>9 DEF IInv, Types
<1>11. Apart'
  BY <1>1, <1>5 DEF IInv, Apart
<1>12. Written'
  <2>. SUFFICES ASSUME NEW w \in Writers \ met
                PROVE  /\ binary'.there
                       /\ Len(binary'.blocks) = builder'[w].at
                       /\ \A i \in 1..builder'[w].at : binary'.blocks[i] = Release[w]
                       /\ builder'[w].step = "chmod" => builder'[w].at = Blocks
    BY <1>1, <1>5 DEF Written
  <2>1. w = b
    BY <1>5 DEF IInv, Apart
  <2>2. /\ binary.there /\ Len(binary.blocks) = at
        /\ \A i \in 1..at : binary.blocks[i] = Release[b]
    BY <2>1 DEF IInv, Written
  <2>3. length = at + 1
    BY <1>3, <2>2
  <2>4. \A i \in 1..(at + 1) : copied[i] = Release[b]
    BY <1>3, <2>2, <2>3
  <2>. QED
    BY <1>5, <1>8, <1>9, <2>1, <2>2, <2>3, <2>4
<1>13. Left' /\ Pending'
  BY <1>5 DEF Left, Pending
<1>14. HandsOutWhole'
  BY <1>1, NothingHanded
<1>. QED
  BY <1>10, <1>11, <1>12, <1>13, <1>14 DEF IInv

LEMMA CopiedKeeps ==
  ASSUME UvAssumption, IInv, NEW b \in Builds, Copied(b)
  PROVE  IInv'
<1>1. /\ builder[b].step = "copy" /\ builder[b].at = Blocks
      /\ builder' = [builder EXCEPT ![b].step = "chmod"]
      /\ UNCHANGED <<binary, given, met, fault>>
  BY DEF Copied
<1>2. /\ Moves(b, "chmod", builder[b].at) /\ builder[b].at \in 0..Blocks
      /\ "chmod" \in Steps
  BY <1>1, StepMoves DEF IInv, Types, Steps
<1>3. /\ builder' \in [Builds -> [step : Steps, at : 0..Blocks]]
      /\ builder'[b].at = builder[b].at
      /\ \A c \in Builds \ {b} : builder'[c] = builder[c]
      /\ Writers' = Writers
  <2>1. b \in Writers
    BY <1>1 DEF Writers
  <2>. QED
    BY <1>2, <2>1, Moved DEF IInv
<1>4. Types'
  BY <1>1, <1>3 DEF IInv, Types
<1>5. Apart'
  BY <1>1, <1>3 DEF IInv, Apart
<1>6. Written'
  BY <1>1, <1>3 DEF IInv, Written
<1>7. Left' /\ Pending'
  BY <1>1, <1>3 DEF IInv, Left, Pending, Whole
<1>8. HandsOutWhole'
  BY <1>1, NothingHanded
<1>. QED
  BY <1>4, <1>5, <1>6, <1>7, <1>8 DEF IInv

\* A writer fails or dies: what it leaves is excused.
LEMMA FaultKeeps ==
  ASSUME UvAssumption, IInv, NEW b \in Builds, CopyFails(b) \/ Dies(b)
  PROVE  IInv'
<1>1. PICK s \in {"fetch", "done", "dead"} :
        /\ builder' = [builder EXCEPT ![b].step = s]
        /\ given' = given \/ given' = [given EXCEPT ![b] = [from |-> "fallback"]]
        /\ fault' = TRUE
        /\ UNCHANGED <<binary, met>>
  BY DEF CopyFails, Dies
<1>2. Moves(b, s, builder[b].at) /\ builder[b].at \in 0..Blocks /\ s \in Steps
  BY <1>1, StepMoves DEF IInv, Types, Steps
<1>3. /\ builder' \in [Builds -> [step : Steps, at : 0..Blocks]]
      /\ \A c \in Builds \ {b} : builder'[c] = builder[c]
      /\ Writers' = Writers \ {b}
  BY <1>2, Moved DEF IInv
<1>4. Types'
  <2>1. given' \in [Builds -> Backends]
    BY <1>1 DEF IInv, Types, Backends
  <2>. QED
    BY <1>1, <1>3, <2>1 DEF IInv, Types
<1>5. Apart'
  BY <1>1, <1>3 DEF IInv, Apart
<1>6. Written'
  BY <1>1, <1>3 DEF IInv, Written
<1>7. Left' /\ Pending'
  BY <1>1 DEF Left, Pending
<1>8. HandsOutWhole'
  <2>1. CASE given' = given
    BY <1>1, <2>1, NothingHanded
  <2>2. CASE given' = [given EXCEPT ![b] = [from |-> "fallback"]]
    <3>1. given'[b] = [from |-> "fallback"] /\ \A c \in Builds : c # b => given'[c] = given[c]
      BY <2>2 DEF IInv, Types
    <3>2. Fair(b, given'[b], met', fault')
      BY <3>1 DEF Fair
    <3>. QED
      BY <1>1, <3>1, <3>2, HandedBefore
  <2>. QED
    BY <1>1, <2>1, <2>2
<1>. QED
  BY <1>4, <1>5, <1>6, <1>7, <1>8 DEF IInv

\* The file becomes executable, and whole if its writer met no other.
LEMMA SetModeKeeps ==
  ASSUME UvAssumption, IInv, NEW b \in Builds, SetMode(b)
  PROVE  IInv'
<1>1. /\ builder[b].step = "chmod"
      /\ binary' = [binary EXCEPT !.exec = TRUE]
      /\ builder' = [builder EXCEPT ![b].step = "done"]
      /\ given' = [given EXCEPT ![b] =
                     [from |-> "made", file |-> binary', beside |-> Writers \ {b}]]
      /\ UNCHANGED <<met, fault>>
  BY DEF SetMode
<1>2. Moves(b, "done", builder[b].at) /\ builder[b].at \in 0..Blocks /\ "done" \in Steps
  BY <1>1, StepMoves DEF IInv, Types, Steps
<1>3. /\ builder' \in [Builds -> [step : Steps, at : 0..Blocks]]
      /\ \A c \in Builds \ {b} : builder'[c] = builder[c]
      /\ Writers' = Writers \ {b}
  BY <1>2, Moved DEF IInv
<1>4. /\ binary'.there = binary.there /\ binary'.blocks = binary.blocks /\ binary'.exec = TRUE
      /\ binary' \in Files
  BY <1>1 DEF IInv, Types, Files
<1>5. b \in Writers
  BY <1>1 DEF Writers
<1>6. b \notin met => Whole(binary')
  BY <1>1, <1>4, <1>5 DEF IInv, Written, Whole
<1>7. given'[b] = [from |-> "made", file |-> binary', beside |-> Writers \ {b}]
      /\ \A c \in Builds : c # b => given'[c] = given[c]
  BY <1>1 DEF IInv, Types
<1>8. Types'
  <2>1. [from |-> "made", file |-> binary', beside |-> Writers \ {b}] \in Backends
    BY <1>4 DEF Backends, Writers
  <2>2. given' \in [Builds -> Backends]
    BY <1>1, <2>1 DEF IInv, Types
  <2>. QED
    BY <1>1, <1>3, <1>4, <2>2 DEF IInv, Types
<1>9. Apart'
  BY <1>1, <1>3 DEF IInv, Apart
<1>10. Written'
  BY <1>1, <1>3, <1>4 DEF IInv, Written
<1>11. Left'
  BY <1>1, <1>6 DEF Left
<1>12. Pending'
  BY <1>4 DEF Pending
<1>13. Fair(b, given'[b], met', fault')
  <2>1. given'[b].from = "made" /\ given'[b].file = binary'
    BY <1>7
  <2>2. met' = met
    BY <1>1
  <2>. QED
    BY <1>6, <2>1, <2>2, Zenon DEF Fair
<1>14. HandsOutWhole'
  BY <1>1, <1>7, <1>13, HandedBefore
<1>. QED
  BY <1>8, <1>9, <1>10, <1>11, <1>12, <1>14 DEF IInv

\* HandsOutWhole: a torn or unexecutable uv is handed out only by a process that
\* met another while it wrote, or to one that found what another was still
\* writing or had failed to write (uv_backend.rs 62-137).
THEOREM WholeUnlessExcused == ASSUME UvAssumption PROVE Spec => []HandsOutWhole
<1>1. Init => IInv
  <2>. SUFFICES ASSUME Init PROVE IInv
    OBVIOUS
  <2>1. Types
    <3>1. NoBinary \in Files
      <4>. DEFINE none == <<>>
      <4>1. none \in Seq(Contents)
        BY EmptyBlocks
      <4>2. NoBinary = [there |-> FALSE, exec |-> FALSE, blocks |-> none]
        BY DEF NoBinary
      <4>. HIDE DEF none
      <4>. QED
        BY <4>1, <4>2 DEF Files
    <3>2. builder \in [Builds -> [step : Steps, at : 0..Blocks]]
      <4>1. "look" \in Steps /\ 0 \in 0..Blocks
        BY DEF Steps, UvAssumption
      <4>2. [step |-> "look", at |-> 0] \in [step : Steps, at : 0..Blocks]
        BY <4>1
      <4>. QED
        BY <4>2 DEF Init
    <3>. QED
      BY <3>1, <3>2 DEF Init, Types, Backends
  <2>2. Writers = {} /\ ~binary.there
    BY DEF Init, Writers, NoBinary
  <2>3. HandsOutWhole
    BY DEF Init, HandsOutWhole, Handed, NotYet
  <2>. QED
    BY <2>1, <2>2, <2>3 DEF IInv, Apart, Written, Left, Pending
<1>2. IInv /\ [Next]_vars => IInv'
  <2>1. ASSUME IInv, Next PROVE IInv'
    BY <2>1, ElsewhereKeeps, FoundKeeps, AbsentKeeps, OpenKeeps, CopyKeeps, CopiedKeeps,
       FaultKeeps, SetModeKeeps DEF Next
  <2>2. ASSUME IInv, UNCHANGED vars PROVE IInv'
    BY <2>2 DEF vars, IInv, Types, Apart, Written, Left, Pending, HandsOutWhole, Handed, Whole,
                Writers
  <2>. QED
    BY <2>1, <2>2
<1>3. IInv => HandsOutWhole
  BY DEF IInv
<1>. QED
  BY <1>1, <1>2, <1>3, PTL DEF Spec
=============================================================================
