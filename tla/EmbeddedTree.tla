---------------------------- MODULE EmbeddedTree ----------------------------
(***************************************************************************)
(* The name of the directory a plugin's source is extracted to: the hash   *)
(* of what a walk of the embedded tree writes.  A directory is its files   *)
(* and its subdirectories, functions from names; names and contents are    *)
(* sequences of characters.  The hash itself tells all inputs apart here.  *)
(***************************************************************************)
EXTENDS Naturals, Sequences, FiniteSets
LOCAL INSTANCE SequencesExt

CONSTANT Rank   \* a function: each character's place in the order of paths

Nul == "nul"

Before(a, b) ==
    LET n == Len(LongestCommonPrefix({a, b}))
    IN  n < Len(b) /\ (n < Len(a) => Rank[a[n + 1]] < Rank[b[n + 1]])

\* Files first, then subdirectories, each sorted, with their whole paths.
RECURSIVE Walk(_, _)
Walk(path, dir) ==
    LET files == SetToSortSeq(DOMAIN dir.files, Before)
        subdirs == SetToSortSeq(DOMAIN dir.dirs, Before)
    IN  FlattenSeq([i \in DOMAIN files |->
                path \o files[i] \o <<Nul>> \o dir.files[files[i]] \o <<Nul>>])
        \o FlattenSeq([i \in DOMAIN subdirs |->
                Walk(path \o subdirs[i] \o <<"/">>, dir.dirs[subdirs[i]])])

HashEmbeddedDir(dir) == Walk(<<>>, dir)

-----------------------------------------------------------------------------
\* What extraction leaves on the disk, but for empty directories.
RECURSIVE Extracted(_, _)
Extracted(path, dir) ==
    {<<path \o f, dir.files[f]>> : f \in DOMAIN dir.files}
        \cup UNION {Extracted(path \o d \o <<"/">>, dir.dirs[d]) : d \in DOMAIN dir.dirs}

\* hash_embedded_dir (166-187): plugins share a directory only if they would
\* write the same files, and those that would do share one - unless a content
\* holds the NUL that ends it.
NamedApart(trees) ==
    LET Plain(files) == \A file \in files : \A i \in DOMAIN file[2] : file[2][i] # Nul
        named == {n \in {<<HashEmbeddedDir(t), Extracted(<<>>, t)>> : t \in trees} : Plain(n[2])}
    IN  /\ Cardinality({n[1] : n \in named}) = Cardinality(named)
        /\ Cardinality({n[2] : n \in named}) = Cardinality(named)
=============================================================================
