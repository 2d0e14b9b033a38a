---------------------------- MODULE PluginSource ----------------------------
(***************************************************************************)
(* How the Python source a plugin embeds gets to the runner.  Every create *)
(* of the plugin, in any process, extracts all of it anew to the directory *)
(* that is named after its contents, reads the requirements back from the  *)
(* file of the plugin's module, and starts a runner that imports the files *)
(* from there.  Nothing locks the directory, and a file is rewritten in    *)
(* place: between the truncation and the write it is torn.                 *)
(***************************************************************************)
EXTENDS Naturals

CONSTANTS
    Creates,    \* calls of the factory's create, of one plugin
    Count,      \* files of the plugin, in the order of extraction
    Module      \* the one that declares the requirements

SourceAssumption == Count \in Nat \ {0} /\ Module \in 1..Count

VARIABLES
    dir,        \* the plugin's directory: absent, torn or whole, per file
    create,     \* each create: its step, and the file it is at
    deps,       \* what it read: unread, declared, none
    runner,     \* what its runner made of the files: absent, ready, broken
    undone      \* history: creates one of whose files another truncated

vars == <<dir, create, deps, runner, undone>>

Files == 1..Count

Init ==
    /\ dir = [f \in Files |-> "absent"]
    /\ create = [c \in Creates |-> [step |-> "open", at |-> 1]]
    /\ deps = [c \in Creates |-> "unread"]
    /\ runner = [c \in Creates |-> "absent"]
    /\ undone = {}

Goes(c, step, at) == create' = [create EXCEPT ![c] = [step |-> step, at |-> at]]

\* Has extracted f and is not over yet.
Relies(c, f) ==
    \/ create[c].step \in {"open", "write"} /\ f < create[c].at
    \/ create[c].step \in {"read", "env"}
    \/ create[c].step = "import" /\ f >= create[c].at

\* The step after file f.
After(c, f) == IF f = Count THEN Goes(c, "read", 1) ELSE Goes(c, "open", f + 1)

\* Faulty variant: a file that is there is not written again.
OpenMissing(c) ==
    LET f == create[c].at
    IN  /\ create[c].step = "open"
        /\ \/ dir[f] = "absent" /\ dir' = [dir EXCEPT ![f] = "torn"] /\ Goes(c, "write", f)
           \/ dir[f] # "absent" /\ UNCHANGED dir /\ After(c, f)
        /\ UNCHANGED <<deps, runner, undone>>

\* fs::write, in Dir::extract: opening the file truncates it ...
Open(c) ==
    LET f == create[c].at
    IN  /\ create[c].step = "open"
        /\ dir' = [dir EXCEPT ![f] = "torn"]
        /\ Goes(c, "write", f)
        /\ undone' = undone \cup {d \in Creates \ {c} : Relies(d, f)}
        /\ UNCHANGED <<deps, runner>>

\* ... and one write makes it whole.
Write(c) ==
    LET f == create[c].at
    IN  /\ create[c].step = "write"
        /\ dir' = [dir EXCEPT ![f] = "whole"]
        /\ After(c, f)
        /\ UNCHANGED <<deps, runner, undone>>

\* A directory, an open or a write fails, and with it the create.
ExtractFails(c) ==
    /\ create[c].step \in {"open", "write"}
    /\ Goes(c, "failed", create[c].at)
    /\ UNCHANGED <<dir, deps, runner, undone>>

\* read_to_string and extract_python_requires: what is torn declares nothing.
ReadModule(c) ==
    /\ create[c].step = "read"
    /\ deps' = [deps EXCEPT ![c] = IF dir[Module] = "whole" THEN "declared" ELSE "none"]
    /\ Goes(c, "env", 1)
    /\ UNCHANGED <<dir, runner, undone>>

\* A file cut inside a character is no string.
ReadFails(c) ==
    /\ create[c].step = "read"
    /\ dir[Module] # "whole"
    /\ Goes(c, "failed", 1)
    /\ UNCHANGED <<dir, deps, runner, undone>>

\* ensure_env returns an environment for what was read, or fails.
EnsureEnv(c) ==
    /\ create[c].step = "env"
    /\ \/ Goes(c, "import", 1)
       \/ Goes(c, "failed", 1)
    /\ UNCHANGED <<dir, deps, runner, undone>>

\* The runner, started with the directory as its module root, imports one file
\* after the other; READY comes last, and create returns after it.
Import(c) ==
    LET f == create[c].at
    IN  /\ create[c].step = "import"
        /\ CASE dir[f] # "whole" ->
                    runner' = [runner EXCEPT ![c] = "broken"] /\ Goes(c, "failed", f)
             [] dir[f] = "whole" /\ f < Count ->
                    UNCHANGED runner /\ Goes(c, "import", f + 1)
             [] OTHER ->
                    runner' = [runner EXCEPT ![c] = "ready"] /\ Goes(c, "done", f)
        /\ UNCHANGED <<dir, deps, undone>>

\* The process of the create is killed.
Dies(c) ==
    /\ create[c].step \notin {"failed", "done", "dead"}
    /\ Goes(c, "dead", create[c].at)
    /\ UNCHANGED <<dir, deps, runner, undone>>

Next ==
    \E c \in Creates :
        \/ Open(c) \/ Write(c) \/ ExtractFails(c) \/ ReadModule(c) \/ ReadFails(c)
        \/ EnsureEnv(c) \/ Import(c) \/ Dies(c)

Spec == Init /\ [][Next]_vars

-----------------------------------------------------------------------------
\* provision_plugin_env (424-450) and the runner see the source as it was
\* embedded, and the environment is the one it declares, whatever creates
\* before failed or were killed on: only a create that truncates a file while
\* another still needs it does harm.  (211-213 has an extraction of what is
\* there already for a no-op; it is not.)
SourcesWhole ==
    \A c \in Creates : c \notin undone =>
        /\ deps[c] # "none"
        /\ runner[c] # "broken"
        /\ create[c].step \in {"read", "env"} => \A f \in Files : dir[f] = "whole"
=============================================================================
