------------------------------ MODULE UvBinary ------------------------------
(***************************************************************************)
(* How UvBackend::new comes by the uv binary.  Every process looks in the  *)
(* same places and, when there is nothing, extracts or downloads uv to the *)
(* one path under ~/.config, with no lock and no temporary file: the       *)
(* binary is visible from File::create on, and becomes executable last.    *)
(***************************************************************************)
EXTENDS Integers, Sequences

CONSTANTS
    Builds,     \* processes, one per UvBackend::new
    Embeds,     \* those built with bundled-uv-embedded
    Release,    \* the uv release a process was built for
    Blocks      \* length of the binary, in writes of io::copy

UvAssumption == Blocks \in Nat

VARIABLES
    binary,     \* ~/.config/remotemedia/bin/uv: there, executable, its blocks
    builder,    \* where each process is: step, blocks written
    given,      \* how a process got a backend: NotYet, or where and what it saw
    met,        \* history: processes whose writing overlapped another's
    fault       \* history: a copy failed or a process died while it wrote

vars == <<binary, builder, given, met, fault>>

Hole == "hole"      \* a block not written since the file was truncated
NotYet == [from |-> "nothing"]
NoBinary == [there |-> FALSE, exec |-> FALSE, blocks |-> <<>>]

Whole(file) == /\ Len(file.blocks) = Blocks
               /\ \E b \in Builds : \A i \in 1..Blocks : file.blocks[i] = Release[b]
               /\ file.exec
Writers == {b \in Builds : builder[b].step \in {"copy", "chmod"}}

Init ==
    /\ binary = NoBinary
    /\ builder = [b \in Builds |-> [step |-> "look", at |-> 0]]
    /\ given = [b \in Builds |-> NotYet]
    /\ met = {}
    /\ fault = FALSE

Done(b, from) ==
    /\ builder' = [builder EXCEPT ![b].step = "done"]
    /\ given' = [given EXCEPT ![b] = [from |-> from, file |-> binary, beside |-> Writers \ {b}]]

\* Steps 1 and 2: UV_BINARY_PATH, or uv on the PATH.
Elsewhere(b) ==
    /\ builder[b].step = "look"
    /\ builder' = [builder EXCEPT ![b].step = "done"]
    /\ given' = [given EXCEPT ![b] = [from |-> "elsewhere"]]
    /\ UNCHANGED <<binary, met, fault>>

\* Step 3: what is at the path is taken as it is.
Found(b) ==
    /\ builder[b].step = "look"
    /\ binary.there
    /\ Done(b, "found")
    /\ UNCHANGED <<binary, met, fault>>

\* Nothing there: a process that embeds uv goes on to look at the path once
\* more, another fetches the archive.
Absent(b) ==
    /\ builder[b].step = "look"
    /\ ~binary.there
    /\ builder' = [builder EXCEPT ![b].step = IF b \in Embeds THEN "compare" ELSE "fetch"]
    /\ UNCHANGED <<binary, given, met, fault>>

\* extract_embedded_uv: the same bytes are there by now, so nothing is written
\* and no mode is set.
AlreadyPresent(b) ==
    /\ builder[b].step = "compare"
    /\ binary.there
    /\ binary.blocks = [i \in 1..Blocks |-> Release[b]]
    /\ Done(b, "present")
    /\ UNCHANGED <<binary, met, fault>>

\* download_uv's request, status or checksum fails; a process without an
\* embedded uv falls back to the system's venv and pip.
FetchFails(b) ==
    /\ builder[b].step = "fetch"
    /\ builder' = [builder EXCEPT ![b].step = "done"]
    /\ given' = [given EXCEPT ![b] = [from |-> "fallback"]]
    /\ UNCHANGED <<binary, met, fault>>

\* File::create (fs::write for the embedded uv) truncates what is there and
\* keeps its mode.
Open(b) ==
    /\ \/ builder[b].step = "fetch"
       \/ /\ builder[b].step = "compare"
          /\ ~(binary.there /\ binary.blocks = [i \in 1..Blocks |-> Release[b]])
    /\ binary' = [binary EXCEPT !.there = TRUE, !.blocks = <<>>]
    /\ builder' = [builder EXCEPT ![b] = [step |-> "copy", at |-> 0]]
    /\ met' = IF Writers = {} THEN met ELSE met \cup Writers \cup {b}
    /\ UNCHANGED <<given, fault>>

\* One write, at this writer's own offset: what lies before it and is no
\* longer there reads as zeros.
Copy(b) ==
    /\ builder[b].step = "copy"
    /\ builder[b].at < Blocks
    /\ LET next == builder[b].at + 1
           length == IF Len(binary.blocks) > next THEN Len(binary.blocks) ELSE next
       IN /\ binary' = [binary EXCEPT !.blocks =
                [i \in 1..length |->
                    IF i = next THEN Release[b]
                    ELSE IF i <= Len(binary.blocks) THEN binary.blocks[i] ELSE Hole]]
          /\ builder' = [builder EXCEPT ![b].at = next]
    /\ UNCHANGED <<given, met, fault>>

\* The copy reaches its end.
Copied(b) ==
    /\ builder[b].step = "copy"
    /\ builder[b].at = Blocks
    /\ builder' = [builder EXCEPT ![b].step = "chmod"]
    /\ UNCHANGED <<binary, given, met, fault>>

\* Faulty variant: the error of the copy is ignored.
CopyErrorIgnored(b) ==
    /\ builder[b].step = "copy"
    /\ builder' = [builder EXCEPT ![b].step = "chmod"]
    /\ fault' = TRUE
    /\ UNCHANGED <<binary, given, met>>

\* A write fails (the disk is full): the file stays as it is.  A build that
\* embeds uv has the download too and goes on to fetch.
CopyFails(b) ==
    /\ builder[b].step = "copy"
    /\ builder' = [builder EXCEPT ![b].step = IF b \in Embeds THEN "fetch" ELSE "done"]
    /\ given' = IF b \in Embeds THEN given ELSE [given EXCEPT ![b] = [from |-> "fallback"]]
    /\ fault' = TRUE
    /\ UNCHANGED <<binary, met>>

\* set_permissions, and the binary is this process's backend.
SetMode(b) ==
    /\ builder[b].step = "chmod"
    /\ binary' = [binary EXCEPT !.exec = TRUE]
    /\ builder' = [builder EXCEPT ![b].step = "done"]
    /\ given' = [given EXCEPT ![b] =
            [from |-> "made", file |-> binary', beside |-> Writers \ {b}]]
    /\ UNCHANGED <<met, fault>>

\* The process is killed while it writes.
Dies(b) ==
    /\ b \in Writers
    /\ builder' = [builder EXCEPT ![b].step = "dead"]
    /\ fault' = TRUE
    /\ UNCHANGED <<binary, given, met>>

Next ==
    \E b \in Builds :
        \/ Elsewhere(b) \/ Found(b) \/ Absent(b) \/ AlreadyPresent(b) \/ FetchFails(b)
        \/ Open(b) \/ Copy(b) \/ Copied(b) \/ CopyFails(b) \/ SetMode(b) \/ Dies(b)

Spec == Init /\ [][Next]_vars

-----------------------------------------------------------------------------
Handed(b) == "file" \in DOMAIN given[b]

\* UvBackend::new (62-137) hands out a torn or unexecutable uv in these cases
\* only.  One it made itself: another process wrote over it meanwhile.  One it
\* found: another process was still writing, or a fault or two overlapping
\* writers left it so; and one with the right bytes but no mode, to a process
\* that compared bytes only, while its writer was about to set it.
HandsOutWhole ==
    \A b \in Builds : Handed(b) /\ ~Whole(given[b].file) =>
        /\ given[b].from = "made" => b \in met
        /\ given[b].from = "found" => given[b].beside # {} \/ fault \/ met # {}
        /\ given[b].from = "present" =>
                /\ ~given[b].file.exec
                /\ given[b].beside # {} \/ fault
=============================================================================
