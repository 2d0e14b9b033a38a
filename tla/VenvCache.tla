----------------------------- MODULE VenvCache -----------------------------
(***************************************************************************)
(* The cache of Python environments on disk: concurrent get_or_create      *)
(* calls of one library, serialised by its lock, each with awaits at which *)
(* it may fail or be dropped; LRU eviction; and the users that hold on to  *)
(* an environment after the lock is gone.  A cache key stands for the      *)
(* dependency set it is the hash of.                                       *)
(***************************************************************************)
EXTENDS Naturals, FiniteSets

CONSTANTS
  Requests,   (* calls of get_or_create                                        *)
  Keys,       (* the cache keys they ask for                                   *)
  Nobody,     (* the lock is free                                              *)
  MaxEnvs,    (* max_cached_envs                                               *)
  MaxClock,   (* bound: seconds that pass                                      *)
  MaxFaults   (* bound: disk writes, removals and late installs that fail      *)

ASSUME VenvCacheAssumption ==
  /\ Nobody \notin Requests
  /\ MaxEnvs \in Nat /\ MaxClock \in Nat \ {0} /\ MaxFaults \in Nat

VARIABLES
  pc,        (* where each call is                                             *)
  key,       (* the key it computed                                            *)
  lock,      (* the holder of GLOBAL_VENV_CACHE_LOCK                           *)
  disk,      (* the directory of each key                                      *)
  clock,     (* now_iso8601(), in seconds                                      *)
  orphans,   (* commands whose call was dropped while they ran                 *)
  evicted,   (* history: keys evict_lru picked                                 *)
  spoiled,   (* history: keys whose directory a fault left incomplete          *)
  faults     (* history: faults so far                                         *)

vars == <<pc, key, lock, disk, clock, orphans, evicted, spoiled, faults>>

(* A directory: its interpreter, its packages, and last_used_at of its       *)
(* metadata (0: none that can be read).                                      *)
Dir == [python : BOOLEAN, deps : BOOLEAN, used : 0 .. MaxClock]
Absent == [python |-> FALSE, deps |-> FALSE, used |-> 0]
Complete(k) == disk[k].python /\ disk[k].deps

(* The states in which a call awaits a command; with the lock held. *)
Awaiting == {"python", "create", "install", "validate"}
Holding == Awaiting \cup {"look"}

Init ==
  /\ pc = [r \in Requests |-> "new"]
  /\ key \in [Requests -> Keys]
  /\ lock = Nobody
  /\ disk = [k \in Keys |-> Absent]
  /\ clock = 1
  /\ orphans = {} /\ evicted = {} /\ spoiled = {} /\ faults = 0

Fault == faults < MaxFaults /\ faults' = faults + 1

-----------------------------------------------------------------------------
(* get_or_create *)

Ask(r) ==
  /\ pc[r] = "new"
  /\ pc' = [pc EXCEPT ![r] = "wait"]
  /\ UNCHANGED <<key, lock, disk, clock, orphans, evicted, spoiled, faults>>

(* Faulty variant: every call has a lock of its own. *)
LockOfItsOwn == TRUE

LockFree == lock = Nobody

Acquire(r) ==
  /\ pc[r] = "wait"
  /\ LockFree
  /\ lock' = r
  /\ pc' = [pc EXCEPT ![r] = "look"]
  /\ UNCHANGED <<key, disk, clock, orphans, evicted, spoiled, faults>>

(* The call returns, which drops the lock guard. *)
Leave(r, state) ==
  /\ pc' = [pc EXCEPT ![r] = state]
  /\ lock' = IF lock = r THEN Nobody ELSE lock

(* The metadata is written, or the write fails, which nobody notices, and    *)
(* may leave it unreadable.                                                  *)
Stamp(k, dirs) ==
  \/ /\ disk' = [dirs EXCEPT ![k].used = clock]
     /\ UNCHANGED faults
  \/ /\ Fault
     /\ disk' \in {dirs, [dirs EXCEPT ![k].used = 0]}

(* A directory with readable metadata and an interpreter is reused.          *)
Hit(r) ==
  LET k == key[r] IN
  /\ pc[r] = "look"
  /\ disk[k].used # 0
  /\ Stamp(k, disk)
  /\ disk[k].python
  /\ Leave(r, "using")
  /\ UNCHANGED <<key, clock, orphans, evicted, spoiled>>

(* Anything else is built anew. *)
Miss(r) ==
  LET k == key[r] IN
  /\ pc[r] = "look"
  /\ IF disk[k].used # 0
       THEN ~disk[k].python /\ Stamp(k, disk)
       ELSE UNCHANGED <<disk, faults>>
  /\ pc' = [pc EXCEPT ![r] = "python"]
  /\ UNCHANGED <<key, lock, clock, orphans, evicted, spoiled>>

(* What a remove_dir_all that fails half-way leaves.                         *)
Remains(d) ==
  {e \in Dir : /\ e.python => d.python
               /\ e.deps => d.deps
               /\ e.used \in {0, d.used}}

(* ensure_python succeeded: the stale directory is removed.                  *)
Clear(r) ==
  LET k == key[r] IN
  /\ pc[r] = "python"
  /\ \/ /\ disk' = [disk EXCEPT ![k] = Absent]
        /\ pc' = [pc EXCEPT ![r] = "create"]
        /\ UNCHANGED <<lock, spoiled, faults>>
     \/ /\ Fault
        /\ \E d \in Remains(disk[k]) : disk' = [disk EXCEPT ![k] = d]
        /\ spoiled' = spoiled \cup {k}
        /\ Leave(r, "err")
  /\ UNCHANGED <<key, clock, orphans, evicted>>

(* Faulty variant: the metadata is written before the install. *)
CreateStamped(r) ==
  /\ pc[r] = "create"
  /\ disk' = [disk EXCEPT ![key[r]] = [@ EXCEPT !.python = TRUE, !.used = clock]]
  /\ pc' = [pc EXCEPT ![r] = "install"]
  /\ UNCHANGED <<key, lock, clock, orphans, evicted, spoiled, faults>>

(* create_venv makes the directory and its interpreter.                      *)
Create(r) ==
  /\ pc[r] = "create"
  /\ disk' = [disk EXCEPT ![key[r]].python = TRUE]
  /\ pc' = [pc EXCEPT ![r] = "install"]
  /\ UNCHANGED <<key, lock, clock, orphans, evicted, spoiled, faults>>

(* install_deps fills it, at once if there is nothing to install.            *)
Install(r) ==
  /\ pc[r] = "install"
  /\ disk[key[r]].python
  /\ disk' = [disk EXCEPT ![key[r]].deps = TRUE]
  /\ pc' = [pc EXCEPT ![r] = "validate"]
  /\ UNCHANGED <<key, lock, clock, orphans, evicted, spoiled, faults>>

(* A command fails: what it left of the directory stays, without metadata.   *)
CommandFails(r) ==
  /\ pc[r] \in {"python", "create", "install"}
  /\ IF pc[r] = "create"
       THEN \E made \in BOOLEAN : disk' = [disk EXCEPT ![key[r]].python = @ \/ made]
       ELSE UNCHANGED disk
  /\ Leave(r, "err")
  /\ UNCHANGED <<key, clock, orphans, evicted, spoiled, faults>>

Listed(dirs) == {k \in Keys : dirs[k].used # 0}

(* Faulty variant: one environment more is kept. *)
ExcessLate(dirs) ==
  IF Cardinality(Listed(dirs)) > MaxEnvs + 1
    THEN Cardinality(Listed(dirs)) - MaxEnvs - 1 ELSE 0

(* How many of the listed environments go. *)
Excess(dirs) ==
  IF Cardinality(Listed(dirs)) > MaxEnvs THEN Cardinality(Listed(dirs)) - MaxEnvs ELSE 0

(* Faulty variant: sorted the other way. *)
Newest(dirs, victims) ==
  /\ Cardinality(victims) = Excess(dirs)
  /\ \A v \in victims, k \in Listed(dirs) \ victims : dirs[v].used >= dirs[k].used

(* evict_lru picks the oldest by last_used_at; equal seconds sort as the     *)
(* directory was read.                                                       *)
Oldest(dirs, victims) ==
  /\ Cardinality(victims) = Excess(dirs)
  /\ \A v \in victims, k \in Listed(dirs) \ victims : dirs[v].used <= dirs[k].used

(* The oldest go, as far as the disk lets them; an error, of listing the     *)
(* cache or of removing one, is not noticed.                                 *)
EvictLru(dirs, smooth) ==
  \/ \E victims \in SUBSET Listed(dirs) :
       /\ Oldest(dirs, victims)
       /\ evicted' = evicted \cup victims
       /\ \E remains \in IF smooth THEN {[v \in victims |-> Absent]} ELSE [victims -> Dir] :
            /\ \A v \in victims : remains[v] \in Remains(dirs[v])
            /\ disk' = [k \in Keys |-> IF k \in victims THEN remains[k] ELSE dirs[k]]
            /\ spoiled' = spoiled \cup {v \in victims : remains[v] # Absent}
  \/ ~smooth /\ disk' = dirs /\ UNCHANGED <<evicted, spoiled>>

(* The metadata is written, or that fails and nobody notices; the cache is   *)
(* brought to its limit and the call returns Ok.                             *)
Finish(r) ==
  /\ pc[r] = "validate"
  /\ \E stamped, smooth \in BOOLEAN :
       /\ EvictLru([disk EXCEPT ![key[r]].used = IF stamped THEN clock ELSE 0], smooth)
       /\ IF stamped /\ smooth THEN UNCHANGED faults ELSE Fault
  /\ Leave(r, "using")
  /\ UNCHANGED <<key, clock, orphans>>

(* The caller drops its future at an await: the guard goes, a running        *)
(* command goes on.                                                          *)
Cancel(r) ==
  /\ pc[r] \in Awaiting \cup {"wait"}
  /\ orphans' = IF pc[r] \in {"create", "install"}
                  THEN orphans \cup {<<key[r], pc[r]>>} ELSE orphans
  /\ Leave(r, "gone")
  /\ UNCHANGED <<key, disk, clock, evicted, spoiled, faults>>

-----------------------------------------------------------------------------
(* The world *)

(* An orphaned command ends; on a directory somebody else made it adds what  *)
(* was to be there anyway.                                                   *)
OrphanEnds ==
  \E o \in orphans :
    /\ orphans' = orphans \ {o}
    /\ disk' = IF o[2] = "create"
                 THEN [disk EXCEPT ![o[1]].python = TRUE]
                 ELSE [disk EXCEPT ![o[1]].deps = @ \/ disk[o[1]].python]
    /\ UNCHANGED <<pc, key, lock, clock, evicted, spoiled, faults>>

(* install_additional_deps, without the lock, fails half-way.                *)
InstallMoreFails(r) ==
  /\ pc[r] = "using"
  /\ Fault
  /\ disk' = [disk EXCEPT ![key[r]].deps = FALSE]
  /\ spoiled' = spoiled \cup {key[r]}
  /\ UNCHANGED <<pc, key, lock, clock, orphans, evicted>>

(* The user of an environment is done with it.                               *)
Release(r) ==
  /\ pc[r] = "using"
  /\ pc' = [pc EXCEPT ![r] = "gone"]
  /\ UNCHANGED <<key, lock, disk, clock, orphans, evicted, spoiled, faults>>

Second ==
  /\ clock < MaxClock
  /\ clock' = clock + 1
  /\ UNCHANGED <<pc, key, lock, disk, orphans, evicted, spoiled, faults>>

GetOrCreate(r) ==
  \/ Acquire(r) \/ Hit(r) \/ Miss(r) \/ Clear(r) \/ Create(r) \/ Install(r)
  \/ CommandFails(r) \/ Finish(r)

Next ==
  \/ \E r \in Requests :
       Ask(r) \/ GetOrCreate(r) \/ Cancel(r) \/ InstallMoreFails(r) \/ Release(r)
  \/ OrphanEnds \/ Second

Spec == Init /\ [][Next]_vars

-----------------------------------------------------------------------------
(* Properties *)

(* Every variable stays within its type, and the lock is held exactly by the *)
(* call that is past it.                                                     *)
TypeOK ==
  /\ pc \in [Requests -> {"new", "wait", "using", "err", "gone"} \cup Holding]
  /\ key \in [Requests -> Keys]
  /\ lock \in Requests \cup {Nobody}
  /\ \A r \in Requests : pc[r] \in Holding <=> lock = r
  /\ disk \in [Keys -> Dir]
  /\ clock \in 1 .. MaxClock
  /\ orphans \subseteq Keys \X {"create", "install"}
  /\ evicted \subseteq Keys /\ spoiled \subseteq Keys
  /\ faults \in 0 .. MaxFaults

(* Metadata is the mark of a finished environment: whatever is dropped,      *)
(* fails or runs on as an orphan, a directory that has it is complete, so a  *)
(* later call may reuse it unseen.                                           *)
RecordedComplete ==
  \A k \in Keys \ spoiled : disk[k].used # 0 => Complete(k)

(* An environment stays complete under its users until evict_lru takes it:   *)
(* another call for the same key reuses it and never rebuilds it in place.   *)
InUseComplete ==
  \A r \in Requests :
    pc[r] = "using" /\ faults = 0 /\ key[r] \notin evicted => Complete(key[r])

(* Between calls at most max_cached_envs environments are listed.            *)
Bounded ==
  lock = Nobody /\ faults = 0 => Cardinality(Listed(disk)) <= MaxEnvs

(* An environment that was used in a later second than another one is never  *)
(* evicted before it, unless the removal of the other one fails.             *)
EvictsOldest ==
  [][\A j, k \in Keys :
       /\ disk[j].used > disk[k].used /\ disk[k].used > 0
       /\ disk'[j] = Absent /\ disk'[k] = disk[k]
       /\ faults' = faults \/ k \notin spoiled'
       => lock \in Requests /\ key[lock] = j]_vars

(* "Get an existing cached environment or create a new one" (lib.rs:407): a  *)
(* call that returns Ok hands out an environment that is there.              *)
HandsOutComplete ==
  [][\A r \in Requests :
       pc[r] # "using" /\ pc'[r] = "using" /\ faults' = 0 => Complete(key[r])']_vars

-----------------------------------------------------------------------------
(* The inductive invariants behind RecordedComplete, InUseComplete and       *)
(* Bounded                                                                   *)

(* A directory being built has no metadata until its packages are in.        *)
Building ==
  \A r \in Requests :
    /\ pc[r] \in {"create", "install"} => disk[key[r]].used = 0
    /\ pc[r] = "validate" => key[r] \in spoiled \/ Complete(key[r])

(* While no fault occurred only unrecorded directories are cleared, and an   *)
(* environment in use is recorded.                                           *)
Kept ==
  faults = 0 =>
    /\ spoiled = {}
    /\ \A r \in Requests :
         /\ pc[r] = "python" => disk[key[r]].used = 0
         /\ pc[r] = "using" /\ key[r] \notin evicted =>
              Complete(key[r]) /\ disk[key[r]].used # 0

(* The limit holds under the lock, too: only the call that brings the cache  *)
(* back to its limit lists another environment.                              *)
Within ==
  /\ IsFiniteSet(Listed(disk))
  /\ faults = 0 => Cardinality(Listed(disk)) <= MaxEnvs
==============================================================================
