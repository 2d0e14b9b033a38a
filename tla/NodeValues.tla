----------------------------- MODULE NodeValues -----------------------------
(***************************************************************************)
(* The parts of a node that keep no state: operators from the values they  *)
(* are given to the values they give.  A behaviour takes one step, to one  *)
(* case as the probe, and the properties say what the part makes of it.    *)
(* The cases are constants: any set of them of the parts' types.           *)
(***************************************************************************)
EXTENDS Integers, Sequences

CONSTANTS
    ByteLimit, ShortLimit, WordLimit, Cells, Now,       \* WireCodec
    DefaultChannel, UiChannel, Calls,                   \* LlmTools
    Values,                                             \* Capabilities
    FrameLimit,                                         \* VideoFrames
    LowerCase, Rank, Symbols                            \* Requirements

CONSTANTS
    WireCases, Sessions,                    \* what goes to a runner, in which sessions
    Histories, Windows,                     \* what was said, how many turns are kept
    Snippets, Names,                        \* texts and the channels they go to
    Registries, Requests, Failures,         \* tools, calls of them, failing callbacks
    Mediums,                                \* declared media
    FrameCases,                             \* video frames
    Deps, Installed                         \* requirements, what is installed

VARIABLE probe      \* the case under inspection, or Idle

Wire == INSTANCE WireCodec
Llm == INSTANCE LlmTools
Caps == INSTANCE Capabilities
Frames == INSTANCE VideoFrames WITH WordLimit <- FrameLimit
Req == INSTANCE Requirements

ASSUME WireTypes ==
    /\ Wire!CodecAssumption
    /\ Now \in Nat
    /\ WireCases \subseteq Wire!RuntimeData
    /\ Sessions \subseteq Seq(Cells)

ASSUME ToolTypes ==
    /\ Llm!ToolsAssumption
    /\ Histories \subseteq Seq(Llm!Entries(Calls)) /\ Windows \subseteq Nat
    /\ Snippets \subseteq Llm!Texts /\ Names \subseteq Llm!Texts
    /\ Registries \subseteq Seq(Llm!ToolSpecs) /\ Failures \subseteq Nat
    /\ \A call \in Requests : call.name \in STRING /\ Llm!IsArguments(call.args)

ASSUME MediaTypes ==
    /\ Caps!ValuesAssumption
    /\ \A m \in Mediums : \A f \in Caps!MediaFields[m.type] :
            m.fields[f] = Caps!Any \/ Caps!Constrains(f, m.fields[f])
    /\ Frames!FrameAssumption
    /\ FrameCases \subseteq [format : Frames!Formats, width : Nat, height : Nat, length : Nat]

ASSUME RequirementTypes ==
    /\ Deps \subseteq Seq(Symbols)
    /\ Installed \subseteq Seq(Symbols)

Idle == [of |-> "nothing"]

-----------------------------------------------------------------------------
TakeValue ==
    \E v \in WireCases, session \in Sessions :
        probe' = [of |-> "wire", v |-> v, session |-> session]

TakeHistory ==
    \E h \in Histories, n \in Windows : probe' = [of |-> "history", entries |-> h, turns |-> n]

TakeText ==
    \E t \in Snippets, c \in Names : probe' = [of |-> "tag", text |-> t, channel |-> c]

TakeCall ==
    \E r \in Registries, call \in Requests, c \in Names, f \in Failures :
        probe' = [of |-> "call", registry |-> r, call |-> call, channel |-> c, fails |-> f]

TakeTool ==
    \E i \in DOMAIN Llm!DefaultTools, t \in Snippets :
        probe' = [of |-> "tool", spec |-> Llm!DefaultTools[i], text |-> t]

TakeConstraints ==
    \E a, b \in Caps!Constraints : probe' = [of |-> "constraints", a |-> a, b |-> b]

TakeMedium == \E m \in Mediums : probe' = [of |-> "media", m |-> m]

TakeFrame == \E f \in FrameCases : probe' = [of |-> "frame", frame |-> f]

TakeLists ==
    \E a, b, c \in Deps : probe' = [of |-> "merge", lists |-> <<<<a>>, <<b>>, <<c>>>>]

TakeInstall ==
    \E d, e \in Deps, n \in SUBSET Installed :
        probe' = [of |-> "report", deps |-> <<d, e>>, installed |-> n]

TakeAny ==
    \/ TakeValue
    \/ TakeHistory \/ TakeText \/ TakeCall \/ TakeTool
    \/ TakeConstraints \/ TakeMedium \/ TakeFrame
    \/ TakeLists \/ TakeInstall

ValuesInit == probe = Idle
ValuesNext == probe = Idle /\ TakeAny
ValuesSpec == ValuesInit /\ [][ValuesNext]_probe

-----------------------------------------------------------------------------
\* A value that goes to a runner and straight back is the value that went, but
\* for what the frame has no place for, and no torn blob is taken for a value
\* (python_ipc.rs 350-409, python_subprocess.rs 697-903).
RunnerEchoes == probe.of = "wire" => Wire!Echoes(probe.v, probe.session, Now)

\* A chat node sends no tool result without its call, speaks what a tool call
\* gives it, on the channels it is for, and what goes into a channel is found
\* there (history.rs 91-107, tool_dispatch.rs 36-190, types lib.rs 458-498).
ToolTurns ==
    /\ probe.of = "history" => Llm!WindowPairs(probe.entries, probe.turns)
    /\ probe.of = "tag" => Llm!ChannelKept(probe.text, probe.channel)
    /\ probe.of = "call" =>
        Llm!Dispatched(probe.registry, probe.call, probe.channel, probe.fails)
    /\ probe.of = "tool" => Llm!Understood(probe.spec, probe.text)

\* What two parts are told of one medium agrees: two constraints and the values
\* both take (capabilities.rs 43-100), a medium that is not flexible (292-342)
\* and what it leaves open, a video frame and its dimensions (types lib.rs
\* 847-884).
MediaAgree ==
    /\ probe.of = "constraints" => Caps!Agree(probe.a, probe.b)
    /\ probe.of = "media" => Caps!Fixed(probe.m)
    /\ probe.of = "frame" => Frames!AsDeclared(probe.frame)

\* No requirement is lost when lists are merged (py-env-manager lib.rs 88-132)
\* and what is not installed is reported (163-275).
RequirementsKept ==
    /\ probe.of = "merge" => Req!Merged(probe.lists)
    /\ probe.of = "report" => Req!ReportsRight(probe.deps, probe.installed)

\* What a node declares of its media and of its requirements is what the host
\* makes of it.
DeclarationsKept == MediaAgree /\ RequirementsKept
=============================================================================
