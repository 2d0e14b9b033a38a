---------------------------- MODULE Requirements ----------------------------
(***************************************************************************)
(* What two requirements have in common: the operators by which the        *)
(* environment manager merges requirement lists, names an environment      *)
(* after them, and looks for what an install silently left out; and how it *)
(* chooses who builds an environment and with which Python.                *)
(* A requirement is the sequence of its characters; the prefix -e is one.  *)
(***************************************************************************)
EXTENDS Naturals, SequencesExt

CONSTANTS
    LowerCase,      \* a function: each letter's lower case
    Rank            \* a function: each character's place in the order of sort()

Nul == "nul"
Separators == {"-", "_", "."}
Stops == {">", "<", "=", "!", "[", ";", "@"}

Positions(s, Test(_)) == {i \in DOMAIN s : Test(s[i])}
Trim(s) ==
    LET kept == Positions(s, LAMBDA c : c # " ")
    IN IF kept = {} THEN <<>> ELSE SubSeq(s, Min(kept), Max(kept))

ExtractPackageName(dep) ==
    LET d == Trim(dep)
        stops == Positions(d, LAMBDA c : c \in Stops)
    IN Trim(IF stops = {} THEN d ELSE SubSeq(d, 1, Min(stops) - 1))

\* Character by character: a run of separators stays a run of hyphens.
NormalizePackageName(name) ==
    [i \in DOMAIN name |-> IF name[i] \in Separators THEN "-"
        ELSE IF name[i] \in DOMAIN LowerCase THEN LowerCase[name[i]] ELSE name[i]]

ExtractMarker(dep) ==
    LET at == Positions(dep, LAMBDA c : c = ";")
    IN IF at = {} THEN <<>> ELSE Trim(SubSeq(dep, Min(at) + 1, Len(dep)))

\* Faulty variant: the marker is not part of what two entries must share.
EntryByName(dep) == <<NormalizePackageName(ExtractPackageName(dep)), <<>>>>
Entry(dep) == <<NormalizePackageName(ExtractPackageName(dep)), ExtractMarker(dep)>>

\* merge_deps: a map by entry that a later list writes over.  (The result is
\* sorted; as no entry is there twice, a set says the same.)
MergeDeps(nodeDeps, manifestDeps, extraDeps) ==
    LET all == nodeDeps \o manifestDeps \o extraDeps
    IN {all[i] : i \in {j \in DOMAIN all :
            \A k \in j + 1..Len(all) : Entry(all[k]) # Entry(all[j])}}

Before(a, b) ==
    LET differ == {i \in DOMAIN a \cap DOMAIN b : a[i] # b[i]}
    IN IF differ = {} THEN Len(a) <= Len(b)
       ELSE Rank[a[Min(differ)]] < Rank[b[Min(differ)]]

\* cache_key up to its hash: the name is normalized and what follows it kept,
\* cut off the requirement at the length of the name.
KeyPart(dep) ==
    LET name == ExtractPackageName(dep)
    IN NormalizePackageName(name) \o SubSeq(dep, Len(name) + 1, Len(dep))

CacheKey(version, deps, scope) ==
    LET parts == SortSeq([i \in DOMAIN deps |-> KeyPart(deps[i])], Before)
        joined == [i \in DOMAIN parts |-> IF i = 1 THEN parts[i] ELSE <<Nul>> \o parts[i]]
    IN version \o <<Nul>> \o FlattenSeq(joined)
        \o IF scope = <<>> THEN <<>> ELSE <<Nul, "scope", Nul>> \o scope

\* ensure_env_scoped puts the base requirements in front.
EnvKey(baseDeps, version, deps, scope) == CacheKey(version, baseDeps \o deps, scope)

\* The names validate_installed_deps reports as absent, with the level: options
\* and URLs are skipped, the rest is grouped by name.
ReportsMissing(deps, installed) ==
    LET checked == {i \in DOMAIN deps :
            /\ Trim(deps[i]) # <<>>
            /\ Head(Trim(deps[i])) \notin {"-", "-e", "url"}
            /\ ExtractPackageName(deps[i]) # <<>>}
        Group(n) == {i \in checked : NormalizePackageName(ExtractPackageName(deps[i])) = n}
        names == {NormalizePackageName(ExtractPackageName(deps[i])) : i \in checked}
        present == {NormalizePackageName(n) : n \in installed}
    IN {[name |-> n,
         level |-> IF \A i \in Group(n) : \E k \in DOMAIN deps[i] : deps[i][k] = ";"
                   THEN "warn" ELSE "error"] : n \in names \ present}

-----------------------------------------------------------------------------
(* The mode, the backend and the interpreter                               *)

None == "none"

ParseMode(text, current) ==
    CASE text = "system" -> "System"
      [] text \in {"managed", "uv"} -> "Managed"
      [] text \in {"managed_with_python", "managed-with-python", "uv_python", "uv-python"} ->
            "ManagedWithPython"
      [] OTHER -> current

\* apply_env_overrides; None or <<>> is a variable that is not set.
ApplyEnvOverrides(config, mode, version) ==
    [config EXCEPT
        !.mode = IF mode = None THEN @ ELSE ParseMode(mode, @),
        !.version = IF Trim(version) = <<>> THEN @ ELSE version]

DefaultConfig == [mode |-> "Managed", version |-> <<"3.11">>, base |-> <<>>]

\* PythonEnvManager::new: what every environment installs (an editable install
\* of the client where its source was found, in REMOTEMEDIA_PYTHON_SRC or in
\* the tree) ...
BaseDeps(config, pythonSrc, inTree) ==
    IF config.base # <<>> THEN config.base
    ELSE IF Trim(pythonSrc) # <<>> THEN <<<<"-e", " ">> \o Trim(pythonSrc)>>
    ELSE IF inTree # <<>> THEN <<<<"-e", " ">> \o inTree>>
    ELSE <<<<"client">>>>

\* ... and who builds them.
Backend(config, uvFound) ==
    IF config.mode = "System" \/ ~uvFound THEN "SystemBackend" ELSE "UvBackend"

\* ensure_python of the two backends: uv installs what is asked for, the system
\* has one interpreter and takes the version for advice.
EnsurePython(backend, version, system, installable) ==
    IF backend = "UvBackend"
    THEN IF version \in installable THEN version ELSE None
    ELSE system

-----------------------------------------------------------------------------
\* merge_deps (88-132), "Two entries for the same package collapse only when
\* their PEP 508 environment marker is identical, in which case the later one
\* wins": every entry asked for is there, once, as the last list has it.
Merged(lists) ==
    LET all == lists[1] \o lists[2] \o lists[3]
        result == MergeDeps(lists[1], lists[2], lists[3])
        Same(a, b) == /\ ExtractMarker(a) = ExtractMarker(b)
                      /\ NormalizePackageName(ExtractPackageName(a))
                            = NormalizePackageName(ExtractPackageName(b))
    IN /\ \A i \in DOMAIN all : \E d \in result :
            /\ Same(d, all[i])
            /\ \E j \in i..Len(all) : all[j] = d
       /\ \A d, e \in result : Same(d, e) => d = e

\* cache_key (385-405): requirement lists that share an environment ask for the
\* same things, whatever the order and the spelling of the names - unless a
\* requirement starts with a blank (the cut is then off by it) or is the word
\* that separates the scope.
KeyTellsApart(a, b) ==
    LET Asks(x) == {<<NormalizePackageName(ExtractPackageName(x.deps[i])),
                      SubSeq(x.deps[i], Len(ExtractPackageName(x.deps[i])) + 1, Len(x.deps[i]))>> :
                        i \in DOMAIN x.deps}
        Plain(x) == \A i \in DOMAIN x.deps : Trim(x.deps[i]) = x.deps[i] /\ x.deps[i] # <<"scope">>
    IN Plain(a) /\ Plain(b) =>
        (CacheKey(a.version, a.deps, a.scope) = CacheKey(b.version, b.deps, b.scope)
            => a.version = b.version /\ Asks(a) = Asks(b) /\ a.scope = b.scope)

\* validate_installed_deps (163-275) reports a requirement when nothing of its
\* name is installed, however the two sides spell it, and as an error when one
\* of the specifications was unconditional.
ReportsRight(deps, installed) ==
    \A i \in DOMAIN deps :
        LET name == NormalizePackageName(ExtractPackageName(deps[i]))
            reports == {r \in ReportsMissing(deps, installed) : r.name = name}
            conditional == \E k \in DOMAIN deps[i] : deps[i][k] = ";"
        IN deps[i] # <<>> /\ Trim(deps[i]) = deps[i] /\ Head(deps[i]) \notin {"-", "-e", "url"}
              /\ ExtractPackageName(deps[i]) # <<>> =>
            IF \E n \in installed : NormalizePackageName(n) = name THEN reports = {}
            ELSE /\ reports # {}
                 /\ ~conditional => \A r \in reports : r.level = "error"

\* get_or_create hands out what it finds under the key, whoever built it: a call
\* gets the Python it asked for, unless the environment was built by the
\* fallback, for which the version is advisory (ensure_python, 45-79), and the
\* client it asked for (lib.rs 815-818: one that swaps REMOTEMEDIA_PYTHON_SRC gets no
\* "stale cached venv"), unless two paths differ in nothing but case and
\* separators: the key takes a path for a name.
Reused(first, second, uvFound, system, installable) ==
    LET Base(m) == BaseDeps(m.config, m.src, <<>>)
        Key(m) == EnvKey(Base(m), m.config.version, <<>>, <<>>)
        python == EnsurePython(Backend(first.config, uvFound), first.config.version, system, installable)
        Spelled(m) == {NormalizePackageName(Base(m)[i]) : i \in DOMAIN Base(m)}
    IN Key(first) = Key(second) =>
        /\ Spelled(first) = Spelled(second)
        /\ python # None =>
            python = second.config.version \/ Backend(first.config, uvFound) = "SystemBackend"
=============================================================================
