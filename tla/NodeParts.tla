---------------------------- MODULE NodeParts ----------------------------
(***************************************************************************)
(* The parts of a node that keep state and do not interact, side by side   *)
(* in one state space: subject says which of them a behaviour is about,    *)
(* the others never move.                                                  *)
(***************************************************************************)
EXTENDS WhisperStream

CONSTANTS
    Target, Rates, Channels, Sizes, MaxFrames, Grain, Rounding, \* Resampler
    Publishers, Readers, MaxPublishes,                 \* SnapshotPort
    Builds, Embeds, Release, Blocks,                \* UvBinary
    Creates, Count, Module                          \* PluginSource

VARIABLES
    subject,    \* the part this behaviour is about
    normalizer, accepted, drained, made, panicked,      \* Resampler
    seq, slot, writing, seen, overtaken,                \* SnapshotPort
    binary, builder, given, met, fault,                 \* UvBinary
    dir, create, deps, runner, undone                   \* PluginSource

normVars == <<normalizer, accepted, drained, made, panicked>>
portVars == <<seq, slot, writing, seen, overtaken>>
uvVars == <<binary, builder, given, met, fault>>
srcVars == <<dir, create, deps, runner, undone>>
partVars == <<vars, subject, normVars, portVars, uvVars, srcVars>>

Norm == INSTANCE Resampler
Port == INSTANCE SnapshotPort
Uv == INSTANCE UvBinary
Src == INSTANCE PluginSource

ASSUME PartsAssumption ==
    Norm!ResamplerAssumption /\ Port!PortAssumption /\ Uv!UvAssumption /\ Src!SourceAssumption

PartsInit == Init /\ Norm!Init /\ Port!Init /\ Uv!Init /\ Src!Init

PartsNext ==
    /\ UNCHANGED subject
    /\ \/ subject = "stream" /\ Next /\ UNCHANGED <<normVars, portVars, uvVars, srcVars>>
       \/ subject = "resampler" /\ Norm!Next /\ UNCHANGED <<vars, portVars, uvVars, srcVars>>
       \/ subject = "port" /\ Port!Next /\ UNCHANGED <<vars, normVars, uvVars, srcVars>>
       \/ subject = "uv" /\ Uv!Next /\ UNCHANGED <<vars, normVars, portVars, srcVars>>
       \/ subject = "source" /\ Src!Next /\ UNCHANGED <<vars, normVars, portVars, uvVars>>

PartsSpec == PartsInit /\ [][PartsNext]_partVars

-----------------------------------------------------------------------------
\* No sample of the audio is lost or heard twice (stt.rs 275-332), but for the
\* rounding of positions.
EvenlySampled == Norm!EvenlySampled

\* A reader never goes back to an older snapshot (ports.rs 50-124), writers
\* that overtake one another excepted.
ReadersAdvance == Port!ReadersAdvance

\* A uv binary that is handed out is complete (uv_backend.rs 62-136), unless
\* another process was writing it or a copy failed half-way.
HandsOutWhole == Uv!HandsOutWhole

\* A plugin's source is whole where it is read (python_subprocess.rs 422-450),
\* unless another create rewrites it meanwhile.
SourcesWhole == Src!SourcesWhole
=============================================================================
