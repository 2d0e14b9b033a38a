--------------------------- MODULE NodeParts_proofs ---------------------------
(***************************************************************************)
(* What holds of each part holds of the parts side by side, whichever of   *)
(* them a behaviour is about and for any values of their constants.  The   *)
(* proofs of SnapshotPort and PluginSource are here; those of the          *)
(* resampler and of uv are in Resampler_proofs and UvBinary_proofs.        *)
(***************************************************************************)
EXTENDS NodeParts, TLAPS

NormProof == INSTANCE Resampler_proofs
UvProof == INSTANCE UvBinary_proofs

-----------------------------------------------------------------------------
(* Each part by itself *)

LEMMA PartsApart ==
  /\ PartsSpec => Norm!Spec
  /\ PartsSpec => Port!Spec
  /\ PartsSpec => Uv!Spec
  /\ PartsSpec => Src!Spec
<1>1. PartsInit => Norm!Init /\ Port!Init /\ Uv!Init /\ Src!Init
  BY DEF PartsInit
<1>2. [PartsNext]_partVars => [Norm!Next]_(Norm!vars)
  BY DEF PartsNext, partVars, normVars, Norm!vars
<1>3. [PartsNext]_partVars => [Port!Next]_(Port!vars)
  BY DEF PartsNext, partVars, portVars, Port!vars
<1>4. [PartsNext]_partVars => [Uv!Next]_(Uv!vars)
  BY DEF PartsNext, partVars, uvVars, Uv!vars
<1>5. [PartsNext]_partVars => [Src!Next]_(Src!vars)
  BY DEF PartsNext, partVars, srcVars, Src!vars
<1>. QED
  BY <1>1, <1>2, <1>3, <1>4, <1>5, PTL
     DEF PartsSpec, Norm!Spec, Port!Spec, Uv!Spec, Src!Spec

-----------------------------------------------------------------------------
(* The snapshot port *)

Snapshots == [writer : Publishers, seq : Nat]

PortTypes ==
    /\ seq \in Nat
    /\ slot \in Snapshots \cup {Port!Empty}
    /\ writing \in [Publishers -> Snapshots \cup {Port!Empty}]
    /\ seen \in [Readers -> Snapshots \cup {Port!Empty}]

\* A number is given once: what is in flight, stored or seen has one that was
\* given out, and what is in flight shares its number with nothing else.
PortNumbered ==
    /\ slot # Port!Empty => slot.seq < seq
    /\ \A r \in Readers : seen[r] # Port!Empty => seen[r].seq < seq
    /\ \A w \in Publishers : writing[w] # Port!Empty =>
        /\ writing[w].seq < seq
        /\ slot # Port!Empty => slot.seq # writing[w].seq
        /\ \A r \in Readers : seen[r] # Port!Empty => seen[r].seq # writing[w].seq
        /\ \A v \in Publishers \ {w} :
                writing[v] # Port!Empty => writing[v].seq # writing[w].seq

\* What is in flight and older than what is stored or seen was overtaken by it.
PortOvertaken ==
    \A w \in Publishers : writing[w] # Port!Empty =>
        /\ slot # Port!Empty /\ writing[w].seq < slot.seq =>
                <<writing[w].seq, slot.seq>> \in overtaken
        /\ \A r \in Readers : seen[r] # Port!Empty /\ writing[w].seq < seen[r].seq =>
                <<writing[w].seq, seen[r].seq>> \in overtaken

PortInv == PortTypes /\ PortNumbered /\ PortOvertaken /\ ReadersAdvance

(* A publish that is numbered is newer than everything there is.            *)
LEMMA NumberKeeps ==
  ASSUME PortInv, NEW w \in Publishers, Port!Number(w)
  PROVE  PortInv'
<1>1. /\ writing' = [writing EXCEPT ![w] = [writer |-> w, seq |-> seq]]
      /\ seq' = seq + 1
      /\ UNCHANGED <<slot, seen, overtaken>>
  BY DEF Port!Number
<1>2. /\ writing'[w].seq = seq
      /\ \A v \in Publishers \ {w} : writing'[v] = writing[v]
  BY <1>1 DEF PortInv, PortTypes
<1>3. PortTypes'
  BY <1>1 DEF PortInv, PortTypes, Snapshots
<1>4. /\ slot # Port!Empty => slot.seq \in Nat
      /\ \A r \in Readers : seen[r] # Port!Empty => seen[r].seq \in Nat
      /\ \A v \in Publishers : writing[v] # Port!Empty => writing[v].seq \in Nat
      /\ seq \in Nat
  BY DEF PortInv, PortTypes, Snapshots
<1>5. PortNumbered'
  BY <1>1, <1>2, <1>4 DEF PortInv, PortNumbered
<1>6. PortOvertaken'
  BY <1>1, <1>2, <1>4 DEF PortInv, PortNumbered, PortOvertaken
<1>7. ReadersAdvance'
  BY <1>1 DEF PortInv, ReadersAdvance, Port!ReadersAdvance
<1>. QED
  BY <1>3, <1>5, <1>6, <1>7 DEF PortInv

(* A snapshot that is stored has overtaken what stays in flight; what it is *)
(* older than has overtaken it.                                             *)
LEMMA StoreKeeps ==
  ASSUME PortInv, NEW w \in Publishers, Port!Store(w)
  PROVE  PortInv'
<1>1. /\ writing[w] # Port!Empty
      /\ slot' = writing[w]
      /\ writing' = [writing EXCEPT ![w] = Port!Empty]
      /\ overtaken \subseteq overtaken'
      /\ UNCHANGED <<seq, seen>>
  BY DEF Port!Store
<1>2. /\ writing'[w] = Port!Empty
      /\ \A v \in Publishers \ {w} : writing'[v] = writing[v]
  BY <1>1 DEF PortInv, PortTypes
<1>3. \A v \in Publishers \ {w} :
        writing[v] # Port!Empty => <<writing[v].seq, writing[w].seq>> \in overtaken'
  BY DEF Port!Store
<1>4. PortTypes'
  BY <1>1 DEF PortInv, PortTypes
<1>5. PortNumbered'
  BY <1>1, <1>2 DEF PortInv, PortNumbered
<1>6. PortOvertaken'
  BY <1>1, <1>2, <1>3 DEF PortInv, PortOvertaken
<1>7. ReadersAdvance'
  BY <1>1
     DEF PortInv, PortNumbered, PortOvertaken, ReadersAdvance,
         Port!ReadersAdvance
<1>. QED
  BY <1>4, <1>5, <1>6, <1>7 DEF PortInv

(* A reader sees what is stored.                                            *)
LEMMA LoadKeeps ==
  ASSUME PortInv, NEW r \in Readers, Port!Load(r)
  PROVE  PortInv'
<1>1. /\ seen' = [seen EXCEPT ![r] = slot]
      /\ UNCHANGED <<seq, slot, writing, overtaken>>
  BY DEF Port!Load
<1>2. /\ seen'[r] = slot
      /\ \A q \in Readers \ {r} : seen'[q] = seen[q]
  BY <1>1 DEF PortInv, PortTypes
<1>3. PortTypes'
  BY <1>1 DEF PortInv, PortTypes
<1>4. PortNumbered'
  BY <1>1, <1>2 DEF PortInv, PortNumbered
<1>5. PortOvertaken'
  BY <1>1, <1>2 DEF PortInv, PortOvertaken
<1>6. slot # Port!Empty => ~(slot.seq < slot.seq)
  BY DEF PortInv, PortTypes, Snapshots
<1>7. ReadersAdvance'
  BY <1>1, <1>2, <1>6 DEF PortInv, ReadersAdvance, Port!ReadersAdvance
<1>. QED
  BY <1>3, <1>4, <1>5, <1>7 DEF PortInv

(* ReadersAdvance: a reader may go by the number of a snapshot, unless two  *)
(* publishes overlapped and the earlier one stored last (ports.rs 50-124).  *)
THEOREM NodeReadersAdvance == PartsSpec => []ReadersAdvance
<1>1. Port!Init => PortInv
  BY
     DEF Port!Init, PortInv, PortTypes, PortNumbered, PortOvertaken,
         ReadersAdvance,
         Port!ReadersAdvance
<1>2. PortInv /\ [Port!Next]_(Port!vars) => PortInv'
  <2>1. ASSUME PortInv, Port!Next PROVE PortInv'
    BY <2>1, NumberKeeps, StoreKeeps, LoadKeeps DEF Port!Next
  <2>2. ASSUME PortInv, UNCHANGED Port!vars PROVE PortInv'
    BY <2>2 DEF Port!vars, PortInv, PortTypes, PortNumbered, PortOvertaken,
                ReadersAdvance, Port!ReadersAdvance
  <2>. QED
    BY <2>1, <2>2
<1>3. PortInv => ReadersAdvance
  BY DEF PortInv
<1>. QED
  BY <1>1, <1>2, <1>3, PartsApart, PTL DEF Port!Spec

-----------------------------------------------------------------------------
(* The extraction of a plugin's source *)

CreateSteps == {"open", "write", "read", "env", "import", "failed", "done", "dead"}

\* Types.
SourceTypes ==
    /\ dir \in [Src!Files -> {"absent", "torn", "whole"}]
    /\ create \in [Creates -> [step : CreateSteps, at : Src!Files]]
    /\ deps \in [Creates -> {"unread", "declared", "none"}]
    /\ runner \in [Creates -> {"absent", "ready", "broken"}]
    /\ undone \subseteq Creates

\* What a create relies on is whole.
SourceReliable ==
    \A c \in Creates \ undone : \A f \in Src!Files : Src!Relies(c, f) => dir[f] = "whole"

\* Nothing torn was taken for the source.
SourceRead == \A c \in Creates \ undone : deps[c] # "none" /\ runner[c] # "broken"

SourceInv == SourceTypes /\ SourceReliable /\ SourceRead

(* A create that moves relies on whole files before and after, and leaves   *)
(* the other creates where they are.                                        *)
LEMMA CreateMoves ==
  ASSUME SourceTypes, NEW c \in Creates, NEW step \in CreateSteps, NEW at \in Src!Files,
         Src!Goes(c, step, at)
  PROVE  /\ create' \in [Creates -> [step : CreateSteps, at : Src!Files]]
         /\ create'[c] = [step |-> step, at |-> at]
         /\ \A d \in Creates \ {c} : create'[d] = create[d]
BY DEF SourceTypes, Src!Goes

(* The module and the neighbours of a file are files.                       *)
LEMMA FileBounds ==
  ASSUME Src!SourceAssumption
  PROVE  /\ 1 \in Src!Files /\ Count \in Src!Files /\ Module \in Src!Files
         /\ \A f \in Src!Files : f # Count => f + 1 \in Src!Files
         /\ \A f, g \in Src!Files : g < f + 1 <=> g < f \/ g = f
         /\ \A f, g \in Src!Files : g >= f + 1 => g >= f
         /\ \A f \in Src!Files : f < Count \/ f = Count
         /\ \A f \in Src!Files : ~(f < 1) /\ f >= 1 /\ f >= f /\ ~(f > Count)
BY DEF Src!SourceAssumption, Src!Files

(* One step of one create keeps the invariant.                              *)
LEMMA CreateKeeps ==
  ASSUME Src!SourceAssumption, SourceInv, NEW c \in Creates,
         \/ Src!Open(c) \/ Src!Write(c) \/ Src!ExtractFails(c) \/ Src!ReadModule(c)
         \/ Src!ReadFails(c) \/ Src!EnsureEnv(c) \/ Src!Import(c) \/ Src!Dies(c)
  PROVE  SourceInv'
<1>. DEFINE f == create[c].at
<1>0. f \in Src!Files /\ create[c].step \in CreateSteps
  BY DEF SourceInv, SourceTypes
<1>. HIDE DEF f
<1>1. CASE Src!Open(c)
  <2>1. /\ create[c].step = "open"
        /\ dir' = [dir EXCEPT ![f] = "torn"]
        /\ Src!Goes(c, "write", f)
        /\ undone' = undone \cup {d \in Creates \ {c} : Src!Relies(d, f)}
        /\ UNCHANGED <<deps, runner>>
    BY <1>1 DEF Src!Open, f
  <2>2. /\ create' \in [Creates -> [step : CreateSteps, at : Src!Files]]
        /\ create'[c] = [step |-> "write", at |-> f]
        /\ \A d \in Creates \ {c} : create'[d] = create[d]
    BY <1>0, <2>1, CreateMoves DEF SourceInv, CreateSteps
  <2>3. SourceTypes'
    BY <1>0, <2>1, <2>2 DEF SourceInv, SourceTypes
  <2>4. SourceReliable'
    <3>1. SUFFICES ASSUME NEW d \in Creates, d \notin undone', NEW g \in Src!Files,
                          Src!Relies(d, g)'
                   PROVE  dir'[g] = "whole"
      BY DEF SourceReliable
    <3>2. CASE d = c
      <4>1. g < f /\ Src!Relies(c, g)
        BY <1>0, <2>1, <2>2, <3>1, <3>2 DEF Src!Relies, f
      <4>2. g # f
        BY <1>0, <4>1 DEF Src!Files
      <4>. QED
        BY <2>1, <3>1, <3>2, <4>1, <4>2 DEF SourceInv, SourceTypes, SourceReliable
    <3>3. CASE d # c
      <4>1. Src!Relies(d, g)
        BY <2>2, <3>1, <3>3 DEF Src!Relies
      <4>2. ~Src!Relies(d, f) /\ g # f
        BY <2>1, <3>1, <3>3, <4>1
      <4>. QED
        BY <2>1, <3>1, <4>1, <4>2 DEF SourceInv, SourceTypes, SourceReliable
    <3>. QED
      BY <3>2, <3>3
  <2>5. SourceRead'
    BY <2>1 DEF SourceInv, SourceRead
  <2>. QED
    BY <2>3, <2>4, <2>5 DEF SourceInv
<1>2. CASE Src!Write(c)
  <2>1. /\ create[c].step = "write"
        /\ dir' = [dir EXCEPT ![f] = "whole"]
        /\ \/ f = Count /\ Src!Goes(c, "read", 1)
           \/ f # Count /\ Src!Goes(c, "open", f + 1)
        /\ UNCHANGED <<deps, runner, undone>>
    BY <1>2 DEF Src!Write, Src!After, f
  <2>2. /\ create' \in [Creates -> [step : CreateSteps, at : Src!Files]]
        /\ \/ f = Count /\ create'[c] = [step |-> "read", at |-> 1]
           \/ create'[c] = [step |-> "open", at |-> f + 1]
        /\ \A d \in Creates \ {c} : create'[d] = create[d]
    BY <1>0, <2>1, CreateMoves, FileBounds DEF SourceInv, CreateSteps
  <2>3. SourceTypes'
    BY <1>0, <2>1, <2>2 DEF SourceInv, SourceTypes
  <2>4. SourceReliable'
    <3>1. SUFFICES ASSUME NEW d \in Creates, d \notin undone', NEW g \in Src!Files,
                          Src!Relies(d, g)', g # f
                   PROVE  dir[g] = "whole"
      BY <1>0, <2>1 DEF SourceInv, SourceTypes, SourceReliable
    <3>2. CASE d = c
      <4>1. g < f
        BY <1>0, <2>2, <3>1, <3>2, FileBounds DEF Src!Relies
      <4>2. Src!Relies(c, g)
        BY <2>1, <4>1 DEF Src!Relies, f
      <4>. QED
        BY <2>1, <3>1, <3>2, <4>2 DEF SourceInv, SourceReliable
    <3>3. CASE d # c
      <4>1. Src!Relies(d, g)
        BY <2>2, <3>1, <3>3 DEF Src!Relies
      <4>. QED
        BY <2>1, <3>1, <4>1 DEF SourceInv, SourceReliable
    <3>. QED
      BY <3>2, <3>3
  <2>5. SourceRead'
    BY <2>1 DEF SourceInv, SourceRead
  <2>. QED
    BY <2>3, <2>4, <2>5 DEF SourceInv
<1>3. CASE Src!ExtractFails(c) \/ Src!ReadFails(c) \/ Src!Dies(c)
  <2>1. PICK step \in {"failed", "dead"}, at \in Src!Files : Src!Goes(c, step, at)
    BY <1>0, <1>3, FileBounds DEF Src!ExtractFails, Src!ReadFails, Src!Dies, f
  <2>2. UNCHANGED <<dir, deps, runner, undone>>
    BY <1>3 DEF Src!ExtractFails, Src!ReadFails, Src!Dies
  <2>3. /\ create' \in [Creates -> [step : CreateSteps, at : Src!Files]]
        /\ create'[c] = [step |-> step, at |-> at]
        /\ \A d \in Creates \ {c} : create'[d] = create[d]
    <3>1. SourceTypes /\ step \in CreateSteps /\ at \in Src!Files /\ Src!Goes(c, step, at)
      BY <2>1 DEF SourceInv, CreateSteps
    <3>. QED
      BY <3>1, CreateMoves
  <2>4. SourceTypes'
    BY <2>2, <2>3 DEF SourceInv, SourceTypes
  <2>5. \A d \in Creates : \A g \in Src!Files : Src!Relies(d, g)' => Src!Relies(d, g)
    BY <2>3 DEF Src!Relies
  <2>6. SourceReliable' /\ SourceRead'
    BY <2>2, <2>5 DEF SourceInv, SourceReliable, SourceRead
  <2>. QED
    BY <2>4, <2>6 DEF SourceInv
<1>4. CASE Src!ReadModule(c)
  <2>1. /\ create[c].step = "read"
        /\ deps' = [deps EXCEPT ![c] = IF dir[Module] = "whole" THEN "declared" ELSE "none"]
        /\ Src!Goes(c, "env", 1)
        /\ UNCHANGED <<dir, runner, undone>>
    BY <1>4 DEF Src!ReadModule
  <2>2. /\ create' \in [Creates -> [step : CreateSteps, at : Src!Files]]
        /\ create'[c] = [step |-> "env", at |-> 1]
        /\ \A d \in Creates \ {c} : create'[d] = create[d]
    BY <2>1, CreateMoves, FileBounds DEF SourceInv, CreateSteps
  <2>3. SourceTypes'
    BY <2>1, <2>2 DEF SourceInv, SourceTypes
  <2>4. SourceReliable'
    BY <2>1, <2>2 DEF SourceInv, SourceReliable, Src!Relies
  <2>5. c \notin undone => dir[Module] = "whole"
    BY <2>1, FileBounds DEF SourceInv, SourceReliable, Src!Relies
  <2>6. SourceRead'
    BY <2>1, <2>5 DEF SourceInv, SourceTypes, SourceRead
  <2>. QED
    BY <2>3, <2>4, <2>6 DEF SourceInv
<1>5. CASE Src!EnsureEnv(c)
  <2>1. /\ create[c].step = "env"
        /\ Src!Goes(c, "import", 1) \/ Src!Goes(c, "failed", 1)
        /\ UNCHANGED <<dir, deps, runner, undone>>
    BY <1>5 DEF Src!EnsureEnv
  <2>2. /\ create' \in [Creates -> [step : CreateSteps, at : Src!Files]]
        /\ \/ create'[c] = [step |-> "import", at |-> 1]
           \/ create'[c] = [step |-> "failed", at |-> 1]
        /\ \A d \in Creates \ {c} : create'[d] = create[d]
    BY <2>1, CreateMoves, FileBounds DEF SourceInv, CreateSteps
  <2>. QED
    BY <2>1, <2>2 DEF SourceInv, SourceTypes, SourceReliable, SourceRead, Src!Relies
<1>6. CASE Src!Import(c)
  <2>1. /\ create[c].step = "import"
        /\ UNCHANGED <<dir, deps, undone>>
        /\ \/ /\ dir[f] # "whole" /\ runner' = [runner EXCEPT ![c] = "broken"]
              /\ Src!Goes(c, "failed", f)
           \/ f < Count /\ UNCHANGED runner /\ Src!Goes(c, "import", f + 1)
           \/ runner' = [runner EXCEPT ![c] = "ready"] /\ Src!Goes(c, "done", f)
    BY <1>0, <1>6, FileBounds DEF Src!Import, f
  <2>2. f < Count => f + 1 \in Src!Files
    BY <1>0, FileBounds DEF Src!SourceAssumption, Src!Files
  <2>3. /\ create' \in [Creates -> [step : CreateSteps, at : Src!Files]]
        /\ \/ create'[c] = [step |-> "import", at |-> f + 1]
           \/ create'[c] = [step |-> "failed", at |-> f]
           \/ create'[c] = [step |-> "done", at |-> f]
        /\ \A d \in Creates \ {c} : create'[d] = create[d]
    BY <1>0, <2>1, <2>2, CreateMoves DEF SourceInv, CreateSteps
  <2>4. SourceTypes'
    BY <2>1, <2>3 DEF SourceInv, SourceTypes
  <2>5. \A g \in Src!Files : Src!Relies(c, g)' => Src!Relies(c, g)
    BY <1>0, <2>1, <2>3, FileBounds DEF Src!Relies, f
  <2>6. \A d \in Creates \ {c} : \A g \in Src!Files : Src!Relies(d, g)' => Src!Relies(d, g)
    BY <2>3 DEF Src!Relies
  <2>7. SourceReliable'
    BY <2>1, <2>5, <2>6 DEF SourceInv, SourceReliable
  <2>8. c \notin undone => dir[f] = "whole"
    BY <1>0, <2>1, FileBounds DEF SourceInv, SourceReliable, Src!Relies, f
  <2>9. SourceRead'
    BY <2>1, <2>8 DEF SourceInv, SourceTypes, SourceRead
  <2>. QED
    BY <2>4, <2>7, <2>9 DEF SourceInv
<1>. QED
  BY <1>1, <1>2, <1>3, <1>4, <1>5, <1>6

\* SourcesWhole: creates of a plugin read its source as it was embedded, unless
\* another truncates a file while they need it (python_subprocess.rs 422-450).
THEOREM NodeReadsWhole == PartsSpec => []SourcesWhole
<1>0. Src!SourceAssumption
  BY PartsAssumption
<1>1. Src!Init => SourceInv
  <2>. SUFFICES ASSUME Src!Init PROVE SourceInv
    OBVIOUS
  <2>1. SourceTypes
    BY <1>0, FileBounds DEF Src!Init, SourceTypes, CreateSteps
  <2>2. SourceReliable
    BY <1>0, FileBounds DEF Src!Init, SourceReliable, Src!Relies
  <2>. QED
    BY <2>1, <2>2 DEF Src!Init, SourceInv, SourceRead
<1>2. SourceInv /\ [Src!Next]_(Src!vars) => SourceInv'
  <2>1. ASSUME SourceInv, Src!Next PROVE SourceInv'
    BY <1>0, <2>1, CreateKeeps DEF Src!Next
  <2>2. ASSUME SourceInv, UNCHANGED Src!vars PROVE SourceInv'
    BY <2>2 DEF Src!vars, SourceInv, SourceTypes, SourceReliable, SourceRead, Src!Relies
  <2>. QED
    BY <2>1, <2>2
<1>3. SourceInv => SourcesWhole
  BY DEF SourceInv, SourceReliable, SourceRead, Src!Relies, SourcesWhole,
         Src!SourcesWhole
<1>. QED
  BY <1>1, <1>2, <1>3, PartsApart, PTL DEF Src!Spec

-----------------------------------------------------------------------------
(* The others, from their own proofs *)

\* EvenlySampled: however a stream is cut into chunks, no sample of the audio is
\* lost or heard twice (stt.rs 275-332), but for the rounding of positions.
THEOREM NodeSamplesEvenly == PartsSpec => []EvenlySampled
<1>1. Norm!Init <=> NormProof!Init
  BY DEF Norm!Init, NormProof!Init
<1>2. [Norm!Next]_(Norm!vars) <=> [NormProof!Next]_(NormProof!vars)
  BY DEF Norm!Next, Norm!vars, Norm!PassThrough, Norm!Resample, Norm!Valid,
         Norm!Frame, Norm!Exact, Norm!Slack, Norm!After, Norm!MayBelow,
         Norm!MustBelow, Norm!Stops, Norm!Most, Norm!Drain, Norm!Consumed,
         Norm!Monus, NormProof!Next, NormProof!vars, NormProof!PassThrough,
         NormProof!Resample, NormProof!Valid, NormProof!Frame, NormProof!Exact,
         NormProof!Slack, NormProof!After, NormProof!MayBelow,
         NormProof!MustBelow, NormProof!Stops, NormProof!Most, NormProof!Drain,
         NormProof!Consumed, NormProof!Monus
<1>3. Norm!Spec => NormProof!Spec
  BY <1>1, <1>2, PTL DEF Norm!Spec, NormProof!Spec
<1>4. NormProof!EvenlySampled => EvenlySampled
  BY DEF EvenlySampled, Norm!EvenlySampled, Norm!Frame, Norm!Exact, Norm!Slack,
         Norm!After, Norm!MayBelow, Norm!MustBelow, NormProof!EvenlySampled,
         NormProof!Frame, NormProof!Exact, NormProof!Slack, NormProof!After,
         NormProof!MayBelow, NormProof!MustBelow
<1>5. NormProof!ResamplerAssumption
  BY PartsAssumption DEF Norm!ResamplerAssumption, NormProof!ResamplerAssumption
<1>6. NormProof!Spec => []NormProof!EvenlySampled
  BY <1>5, NormProof!SampledEvenly
<1>. QED
  BY <1>3, <1>4, <1>6, PartsApart, PTL

\* HandsOutWhole: a torn or unexecutable uv is handed out only by a process that
\* met another while it wrote, or to one that found what another was still
\* writing or had failed to write (uv_backend.rs 62-137).
THEOREM NodeHandsOutWhole == PartsSpec => []HandsOutWhole
<1>1. Uv!Init <=> UvProof!Init
  BY DEF Uv!Init, Uv!NoBinary, Uv!NotYet, UvProof!Init, UvProof!NoBinary,
         UvProof!NotYet
<1>2. [Uv!Next]_(Uv!vars) <=> [UvProof!Next]_(UvProof!vars)
  BY DEF Uv!Next, Uv!vars, Uv!Elsewhere, Uv!Found, Uv!Absent,
         Uv!AlreadyPresent, Uv!FetchFails, Uv!Open, Uv!Copy, Uv!Copied,
         Uv!CopyFails, Uv!SetMode, Uv!Dies, Uv!Done, Uv!Writers, Uv!Hole,
         UvProof!Next, UvProof!vars, UvProof!Elsewhere, UvProof!Found,
         UvProof!Absent, UvProof!AlreadyPresent, UvProof!FetchFails,
         UvProof!Open, UvProof!Copy, UvProof!Copied, UvProof!CopyFails,
         UvProof!SetMode, UvProof!Dies, UvProof!Done, UvProof!Writers,
         UvProof!Hole
<1>3. Uv!Spec => UvProof!Spec
  BY <1>1, <1>2, PTL DEF Uv!Spec, UvProof!Spec
<1>4. UvProof!HandsOutWhole => HandsOutWhole
  BY DEF HandsOutWhole, Uv!HandsOutWhole, Uv!Handed, Uv!Whole,
         UvProof!HandsOutWhole, UvProof!Handed, UvProof!Whole
<1>5. UvProof!UvAssumption
  BY PartsAssumption DEF Uv!UvAssumption, UvProof!UvAssumption
<1>6. UvProof!Spec => []UvProof!HandsOutWhole
  BY <1>5, UvProof!WholeUnlessExcused
<1>. QED
  BY <1>3, <1>4, <1>6, PartsApart, PTL
=============================================================================
