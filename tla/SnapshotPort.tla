---------------------------- MODULE SnapshotPort ----------------------------
(***************************************************************************)
(* A snapshot port: a slot that holds the latest value a reactive node     *)
(* published, read by clocked nodes.  An OutputPort is a handle that can   *)
(* be cloned; publish numbers a snapshot and stores it in two steps.       *)
(***************************************************************************)
EXTENDS Naturals

CONSTANTS
    Publishers,     \* threads that publish through clones of one OutputPort
    Readers,        \* threads that read through InputPorts
    MaxPublishes    \* bound of the model: snapshots published altogether

PortAssumption == MaxPublishes \in Nat

VARIABLES
    seq,        \* the number the next snapshot gets
    slot,       \* the stored snapshot, or Empty
    writing,    \* the snapshot each writer has numbered and not stored, or Empty
    seen,       \* the snapshot each reader loaded last, or Empty
    overtaken   \* history: pairs <<m, n>> where m was in flight when n was stored

vars == <<seq, slot, writing, seen, overtaken>>

Empty == [writer |-> "none"]

Init ==
    /\ seq = 0
    /\ slot = Empty
    /\ writing = [w \in Publishers |-> Empty]
    /\ seen = [r \in Readers |-> Empty]
    /\ overtaken = {}

\* Faulty variant: a load and a store of the counter instead of fetch_add.
NumberRacy(w) ==
    /\ writing[w] = Empty
    /\ seq < MaxPublishes
    /\ writing' = [writing EXCEPT ![w] = [writer |-> w, seq |-> seq]]
    /\ seq' = IF \E v \in Publishers \ {w} : writing[v] # Empty THEN seq ELSE seq + 1
    /\ UNCHANGED <<slot, seen, overtaken>>

\* publish up to fetch_add: the snapshot gets its number.
Number(w) ==
    /\ writing[w] = Empty
    /\ seq < MaxPublishes
    /\ writing' = [writing EXCEPT ![w] = [writer |-> w, seq |-> seq]]
    /\ seq' = seq + 1
    /\ UNCHANGED <<slot, seen, overtaken>>

\* The rest of publish: the snapshot replaces what is in the slot.
Store(w) ==
    /\ writing[w] # Empty
    /\ slot' = writing[w]
    /\ writing' = [writing EXCEPT ![w] = Empty]
    /\ overtaken' = overtaken \cup
            {<<writing[v].seq, writing[w].seq>> :
                v \in {x \in Publishers \ {w} : writing[x] # Empty}}
    /\ UNCHANGED <<seq, seen>>

\* snapshot: one atomic load.
Load(r) ==
    /\ seen' = [seen EXCEPT ![r] = slot]
    /\ UNCHANGED <<seq, slot, writing, overtaken>>

Next ==
    \/ \E w \in Publishers : Number(w) \/ Store(w)
    \/ \E r \in Readers : Load(r)

Spec == Init /\ [][Next]_vars

-----------------------------------------------------------------------------
\* A reader may go by the number of a snapshot (ports.rs 67-82): the same
\* number is the same snapshot, and what it sees next is newer, unless two
\* publishes overlapped and the earlier one stored last.
ReadersAdvance ==
    \A r \in Readers : seen[r] # Empty =>
        /\ slot # Empty
        /\ slot.seq = seen[r].seq => slot = seen[r]
        /\ slot.seq < seen[r].seq => <<slot.seq, seen[r].seq>> \in overtaken
=============================================================================
