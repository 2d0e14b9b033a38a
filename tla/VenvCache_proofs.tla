-------------------------- MODULE VenvCache_proofs --------------------------
(***************************************************************************)
(* The cache of environments for any number of calls, keys, seconds and    *)
(* faults and any limit: type correctness with mutual exclusion, recorded  *)
(* environments are complete, environments in use are kept, the cache stays *)
(* within its limit and gives up the oldest.                               *)
(***************************************************************************)
EXTENDS VenvCache, FiniteSetTheorems, TLAPS

USE DEF Dir, Absent, Awaiting, Holding

(* At most one call is past the lock.                                        *)
LEMMA OneHolder ==
  ASSUME TypeOK, NEW r \in Requests, NEW q \in Requests, pc[r] \in Holding, q # r
  PROVE  pc[q] \notin Holding
  BY DEF TypeOK

-----------------------------------------------------------------------------
(* Type correctness *)

(* The initial states are well typed.                                        *)
LEMMA TypeInit == Init => TypeOK
  BY VenvCacheAssumption DEF Init, TypeOK, VenvCacheAssumption

(* A call that leaves releases the lock, if it has it.                       *)
LEMMA LeaveType ==
  ASSUME TypeOK, NEW r \in Requests, NEW state \in {"using", "err", "gone"}, Leave(r, state)
  PROVE  /\ pc' \in [Requests -> {"new", "wait", "using", "err", "gone"} \cup Holding]
         /\ lock' \in Requests \cup {Nobody}
         /\ \A q \in Requests : pc'[q] \in Holding <=> lock' = q
  BY VenvCacheAssumption DEF TypeOK, Leave, VenvCacheAssumption

(* A call that goes on to another of its states keeps the lock.              *)
LEMMA StayType ==
  ASSUME TypeOK, NEW r \in Requests, pc[r] \in Holding, UNCHANGED lock,
         NEW state \in Holding, pc' = [pc EXCEPT ![r] = state]
  PROVE  /\ pc' \in [Requests -> {"new", "wait", "using", "err", "gone"} \cup Holding]
         /\ lock' \in Requests \cup {Nobody}
         /\ \A q \in Requests : pc'[q] \in Holding <=> lock' = q
  BY DEF TypeOK

(* The count of faults stays within its bound.                               *)
LEMMA FaultType ==
  ASSUME TypeOK, Fault \/ UNCHANGED faults
  PROVE  faults' \in 0 .. MaxFaults
  BY VenvCacheAssumption DEF TypeOK, Fault, VenvCacheAssumption

(* One directory is rewritten.                                               *)
LEMMA DiskType ==
  ASSUME TypeOK, NEW k \in Keys, NEW d \in Dir, disk' = [disk EXCEPT ![k] = d]
  PROVE  disk' \in [Keys -> Dir]
  BY DEF TypeOK

(* Stamp changes nothing but the time of use of its directory.               *)
LEMMA StampProperties ==
  ASSUME TypeOK, NEW k \in Keys, Stamp(k, disk)
  PROVE  /\ disk' \in [Keys -> Dir]
         /\ Fault \/ UNCHANGED faults
         /\ faults' = faults => disk'[k].used = clock
         /\ \A j \in Keys :
              /\ disk'[j].python = disk[j].python /\ disk'[j].deps = disk[j].deps
              /\ j # k => disk'[j] = disk[j]
<1>1. ASSUME NEW t \in 0 .. MaxClock, disk' = [disk EXCEPT ![k].used = t]
      PROVE  /\ disk' \in [Keys -> Dir]
             /\ disk'[k].used = t
             /\ \A j \in Keys :
                  /\ disk'[j].python = disk[j].python /\ disk'[j].deps = disk[j].deps
                  /\ j # k => disk'[j] = disk[j]
  BY <1>1 DEF TypeOK
<1>2. CASE disk' = [disk EXCEPT ![k].used = clock] /\ UNCHANGED faults
  BY <1>1, <1>2, VenvCacheAssumption DEF TypeOK, VenvCacheAssumption
<1>3. CASE Fault /\ disk' = disk
  BY <1>3, VenvCacheAssumption DEF TypeOK, Fault, VenvCacheAssumption
<1>4. CASE Fault /\ disk' = [disk EXCEPT ![k].used = 0]
  BY <1>1, <1>4, VenvCacheAssumption DEF TypeOK, Fault, VenvCacheAssumption
<1>. QED
  BY <1>2, <1>3, <1>4 DEF Stamp

(* What Finish does to the directories: those evicted are gone or, one of    *)
(* them, spoiled; of the others only the new one changes, in its time.       *)
LEMMA FinishProperties ==
  ASSUME TypeOK, NEW r \in Requests, Finish(r)
  PROVE  /\ disk' \in [Keys -> Dir]
         /\ evicted \subseteq evicted' /\ evicted' \subseteq Keys
         /\ spoiled \subseteq spoiled' /\ spoiled' \subseteq Keys
         /\ Fault \/ (UNCHANGED <<faults, spoiled>>
                       /\ (key[r] \in evicted' \/ disk'[key[r]].used = clock))
         /\ \A k \in Keys :
              \/ disk'[k] = Absent /\ k \in evicted'
              \/ k \in spoiled' /\ k \in evicted'
              \/ disk'[k].python = disk[k].python /\ disk'[k].deps = disk[k].deps
                  /\ (k # key[r] => disk'[k] = disk[k])
<1>1. PICK stamped \in BOOLEAN, smooth \in BOOLEAN :
        /\ EvictLru([disk EXCEPT ![key[r]].used = IF stamped THEN clock ELSE 0], smooth)
        /\ IF stamped /\ smooth THEN UNCHANGED faults ELSE Fault
  BY DEF Finish
<1>. DEFINE dirs == [disk EXCEPT ![key[r]].used = IF stamped THEN clock ELSE 0]
<1>2. /\ dirs \in [Keys -> Dir]
      /\ dirs[key[r]].used = IF stamped THEN clock ELSE 0
      /\ \A k \in Keys : /\ dirs[k].python = disk[k].python /\ dirs[k].deps = disk[k].deps
                         /\ k # key[r] => dirs[k] = disk[k]
  BY VenvCacheAssumption DEF TypeOK, VenvCacheAssumption
<1>3. EvictLru(dirs, smooth)
  BY <1>1
<1>4. Absent \in Dir /\ key[r] \in Keys
  BY VenvCacheAssumption DEF TypeOK, VenvCacheAssumption
<1>. HIDE DEF dirs
<1>5. CASE ~smooth /\ disk' = dirs /\ UNCHANGED <<evicted, spoiled>>
  BY <1>1, <1>2, <1>5 DEF TypeOK
<1>6. ASSUME NEW victims \in SUBSET Keys, NEW remains,
             evicted' = evicted \cup victims,
             remains \in IF smooth THEN {[v \in victims |-> Absent]} ELSE [victims -> Dir],
             disk' = [k \in Keys |-> IF k \in victims THEN remains[k] ELSE dirs[k]],
             spoiled' = spoiled \cup {v \in victims : remains[v] # Absent}
      PROVE  /\ disk' \in [Keys -> Dir]
             /\ evicted \subseteq evicted' /\ evicted' \subseteq Keys
             /\ spoiled \subseteq spoiled' /\ spoiled' \subseteq Keys
             /\ smooth => UNCHANGED spoiled
             /\ key[r] \in evicted' \/ disk'[key[r]] = dirs[key[r]]
             /\ \A k \in Keys :
                  \/ disk'[k] = Absent /\ k \in evicted'
                  \/ k \in spoiled' /\ k \in evicted'
                  \/ disk'[k] = dirs[k]
  <2>1. remains \in [victims -> Dir]
    BY <1>4, <1>6
  <2>2. disk' \in [Keys -> Dir]
    BY <1>2, <1>6, <2>1
  <2>3. smooth => UNCHANGED spoiled
    BY <1>6 DEF TypeOK
  <2>4. evicted' \subseteq Keys /\ spoiled' \subseteq Keys
    BY <1>6 DEF TypeOK
  <2>. QED
    BY <1>4, <1>6, <2>2, <2>3, <2>4
<1>7. CASE \E victims \in SUBSET Listed(dirs) :
             /\ evicted' = evicted \cup victims
             /\ \E remains \in IF smooth THEN {[v \in victims |-> Absent]}
                                         ELSE [victims -> Dir] :
                  /\ disk' = [k \in Keys |-> IF k \in victims THEN remains[k] ELSE dirs[k]]
                  /\ spoiled' = spoiled \cup {v \in victims : remains[v] # Absent}
  <2>1. SUBSET Listed(dirs) \subseteq SUBSET Keys
    BY DEF Listed
  <2>2. /\ disk' \in [Keys -> Dir]
        /\ evicted \subseteq evicted' /\ evicted' \subseteq Keys
        /\ spoiled \subseteq spoiled' /\ spoiled' \subseteq Keys
        /\ smooth => UNCHANGED spoiled
        /\ key[r] \in evicted' \/ disk'[key[r]] = dirs[key[r]]
        /\ \A k \in Keys :
             \/ disk'[k] = Absent /\ k \in evicted'
             \/ k \in spoiled' /\ k \in evicted'
             \/ disk'[k] = dirs[k]
    BY <1>6, <1>7, <2>1
  <2>. QED
    BY <1>1, <1>2, <1>4, <2>2
<1>. QED
  BY <1>3, <1>5, <1>7 DEF EvictLru

(* An orphaned command only adds to a directory.                             *)
LEMMA OrphanProperties ==
  ASSUME TypeOK, OrphanEnds
  PROVE  /\ disk' \in [Keys -> Dir]
         /\ orphans' \subseteq Keys \X {"create", "install"}
         /\ \A k \in Keys : /\ disk'[k].used = disk[k].used
                            /\ disk[k].python => disk'[k].python
                            /\ disk[k].deps => disk'[k].deps
<1>1. PICK o \in orphans :
        /\ orphans' = orphans \ {o}
        /\ disk' = IF o[2] = "create"
                     THEN [disk EXCEPT ![o[1]].python = TRUE]
                     ELSE [disk EXCEPT ![o[1]].deps = @ \/ disk[o[1]].python]
  BY DEF OrphanEnds
<1>2. o[1] \in Keys /\ disk[o[1]] \in Dir /\ disk \in [Keys -> Dir]
  BY DEF TypeOK
<1>. DEFINE more == disk[o[1]].deps \/ disk[o[1]].python
<1>3. more \in BOOLEAN /\ (disk[o[1]].deps => more)
  BY <1>2
<1>4. CASE o[2] = "create"
  BY <1>1, <1>2, <1>4 DEF TypeOK
<1>5. CASE o[2] # "create"
  <2>1. disk' = [disk EXCEPT ![o[1]].deps = more]
    BY <1>1, <1>5
  <2>. HIDE DEF more
  <2>. QED
    BY <1>1, <1>2, <1>3, <2>1 DEF TypeOK
<1>. QED
  BY <1>4, <1>5

(* Every step keeps the types and the agreement of the lock with the calls   *)
(* past it.                                                                  *)
LEMMA TypeStep == TypeOK /\ [Next]_vars => TypeOK'
<1>. SUFFICES ASSUME TypeOK, [Next]_vars PROVE TypeOK'
  OBVIOUS
<1>. USE VenvCacheAssumption DEF VenvCacheAssumption
<1>1. ASSUME NEW r \in Requests, Ask(r) PROVE TypeOK'
  BY <1>1 DEF TypeOK, Ask
<1>2. ASSUME NEW r \in Requests, Acquire(r) PROVE TypeOK'
  BY <1>2 DEF TypeOK, Acquire, LockFree
<1>3. ASSUME NEW r \in Requests, Hit(r) PROVE TypeOK'
  <2>1. key[r] \in Keys /\ Stamp(key[r], disk) /\ Leave(r, "using")
    BY <1>3 DEF Hit, TypeOK
  <2>2. disk' \in [Keys -> Dir] /\ faults' \in 0 .. MaxFaults
    BY <2>1, StampProperties, FaultType
  <2>. QED
    BY <1>3, <2>1, <2>2, LeaveType DEF Hit, TypeOK
<1>4. ASSUME NEW r \in Requests, Miss(r) PROVE TypeOK'
  <2>1. disk' \in [Keys -> Dir] /\ faults' \in 0 .. MaxFaults
    <3>1. key[r] \in Keys
      BY DEF TypeOK
    <3>2. CASE disk[key[r]].used # 0
      BY <1>4, <3>1, <3>2, StampProperties, FaultType DEF Miss
    <3>3. CASE disk[key[r]].used = 0
      BY <1>4, <3>3 DEF Miss, TypeOK
    <3>. QED
      BY <3>2, <3>3
  <2>2. pc[r] \in Holding /\ pc' = [pc EXCEPT ![r] = "python"] /\ "python" \in Holding
    BY <1>4 DEF Miss
  <2>. QED
    BY <1>4, <2>1, <2>2, StayType DEF Miss, TypeOK
<1>5. ASSUME NEW r \in Requests, Clear(r) PROVE TypeOK'
  <2>1. key[r] \in Keys /\ Absent \in Dir
    BY DEF TypeOK
  <2>2. CASE /\ disk' = [disk EXCEPT ![key[r]] = Absent]
             /\ pc' = [pc EXCEPT ![r] = "create"]
             /\ UNCHANGED <<lock, spoiled, faults>>
    <3>1. disk' \in [Keys -> Dir]
      BY <2>1, <2>2, DiskType
    <3>2. pc[r] \in Holding /\ "create" \in Holding
      BY <1>5 DEF Clear
    <3>. QED
      BY <1>5, <2>2, <3>1, <3>2, StayType DEF Clear, TypeOK
  <2>3. CASE /\ Fault
             /\ \E d \in Remains(disk[key[r]]) : disk' = [disk EXCEPT ![key[r]] = d]
             /\ spoiled' = spoiled \cup {key[r]}
             /\ Leave(r, "err")
    <3>1. disk' \in [Keys -> Dir]
      BY <2>1, <2>3, DiskType DEF Remains
    <3>2. faults' \in 0 .. MaxFaults
      BY <2>3, FaultType
    <3>. QED
      BY <1>5, <2>1, <2>3, <3>1, <3>2, LeaveType DEF Clear, TypeOK
  <2>. QED
    BY <1>5, <2>2, <2>3 DEF Clear
<1>6. ASSUME NEW r \in Requests, Create(r) PROVE TypeOK'
  <2>1. pc[r] \in Holding /\ "install" \in Holding
    BY <1>6 DEF Create
  <2>. QED
    BY <1>6, <2>1, StayType DEF Create, TypeOK
<1>7. ASSUME NEW r \in Requests, Install(r) PROVE TypeOK'
  <2>1. pc[r] \in Holding /\ "validate" \in Holding
    BY <1>7 DEF Install
  <2>. QED
    BY <1>7, <2>1, StayType DEF Install, TypeOK
<1>8. ASSUME NEW r \in Requests, CommandFails(r) PROVE TypeOK'
  <2>1. disk' \in [Keys -> Dir]
    <3>1. CASE pc[r] = "create"
      <4>1. PICK made \in BOOLEAN : disk' = [disk EXCEPT ![key[r]].python = @ \/ made]
        BY <1>8, <3>1 DEF CommandFails
      <4>2. disk[key[r]].python \in BOOLEAN
        BY DEF TypeOK
      <4>. DEFINE b == disk[key[r]].python \/ made
      <4>3. b \in BOOLEAN /\ disk' = [disk EXCEPT ![key[r]].python = b]
        BY <4>1, <4>2
      <4>. HIDE DEF b
      <4>. QED
        BY <4>3 DEF TypeOK
    <3>2. CASE pc[r] # "create"
      BY <1>8, <3>2 DEF CommandFails, TypeOK
    <3>. QED
      BY <3>1, <3>2
  <2>. QED
    BY <1>8, <2>1, LeaveType DEF CommandFails, TypeOK
<1>9. ASSUME NEW r \in Requests, Finish(r) PROVE TypeOK'
  <2>1. faults' \in 0 .. MaxFaults
    BY <1>9, FinishProperties, FaultType
  <2>2. Leave(r, "using") /\ UNCHANGED <<key, clock, orphans>>
    BY <1>9 DEF Finish
  <2>. QED
    BY <1>9, <2>1, <2>2, FinishProperties, LeaveType DEF TypeOK
<1>10. ASSUME NEW r \in Requests, Cancel(r) PROVE TypeOK'
  <2>1. orphans' \subseteq Keys \X {"create", "install"}
    <3>1. CASE pc[r] \in {"create", "install"}
      BY <1>10, <3>1 DEF Cancel, TypeOK
    <3>2. CASE pc[r] \notin {"create", "install"}
      BY <1>10, <3>2 DEF Cancel, TypeOK
    <3>. QED
      BY <3>1, <3>2
  <2>. QED
    BY <1>10, <2>1, LeaveType DEF Cancel, TypeOK
<1>11. ASSUME NEW r \in Requests, InstallMoreFails(r) PROVE TypeOK'
  <2>1. faults' \in 0 .. MaxFaults
    BY <1>11, FaultType DEF InstallMoreFails
  <2>. QED
    BY <1>11, <2>1 DEF InstallMoreFails, TypeOK
<1>12. ASSUME NEW r \in Requests, Release(r) PROVE TypeOK'
  BY <1>12 DEF Release, TypeOK
<1>13. ASSUME OrphanEnds PROVE TypeOK'
  BY <1>13, OrphanProperties DEF OrphanEnds, TypeOK
<1>14. ASSUME Second PROVE TypeOK'
  BY <1>14 DEF Second, TypeOK
<1>15. ASSUME UNCHANGED vars PROVE TypeOK'
  BY <1>15 DEF vars, TypeOK
<1>. QED
  BY <1>1, <1>2, <1>3, <1>4, <1>5, <1>6, <1>7, <1>8, <1>9, <1>10, <1>11, <1>12, <1>13,
     <1>14, <1>15 DEF Next, GetOrCreate

(* TypeOK: every variable keeps its type, and the calls between taking the   *)
(* lock and returning are exactly its holder, whatever fails or is dropped.  *)
THEOREM TypeCorrect == Spec => []TypeOK
<1>. QED
  BY TypeInit, TypeStep, PTL DEF Spec

-----------------------------------------------------------------------------
(* Recorded environments are complete *)

Sound == RecordedComplete /\ Building

(* Nothing is on disk.                                                       *)
LEMMA SoundInit == Init => Sound
  BY DEF Init, Sound, RecordedComplete, Building, Complete

(* A step that touches no directory keeps Sound, when no call comes to       *)
(* depend on one it did not depend on before.                                *)
LEMMA SoundFrame ==
  ASSUME TypeOK, Sound, UNCHANGED <<key, disk>>, spoiled \subseteq spoiled',
         \A q \in Requests : pc'[q] \in {"create", "install", "validate"} => pc'[q] = pc[q]
  PROVE  Sound'
  BY DEF TypeOK, Sound, RecordedComplete, Building, Complete

(* A call on its way out depends on no directory, and the others have not    *)
(* got the lock.                                                             *)
LEMMA NobodyBuilds ==
  ASSUME TypeOK, NEW r \in Requests, pc[r] \in Holding, NEW state, pc' = [pc EXCEPT ![r] = state],
         state \notin {"create", "install", "validate"}
  PROVE  \A q \in Requests : pc'[q] \notin {"create", "install", "validate"}
  BY OneHolder DEF TypeOK

(* Sound is inductive: only the lock holder writes metadata, and orphans     *)
(* only add.                                                                 *)
LEMMA SoundStep == TypeOK /\ Sound /\ [Next]_vars => Sound'
<1>. SUFFICES ASSUME TypeOK, Sound, [Next]_vars PROVE Sound'
  OBVIOUS
<1>1. ASSUME NEW r \in Requests, Ask(r) PROVE Sound'
  BY <1>1, SoundFrame DEF Ask, TypeOK
<1>2. ASSUME NEW r \in Requests, Acquire(r) PROVE Sound'
  BY <1>2, SoundFrame DEF Acquire, TypeOK
<1>3. ASSUME NEW r \in Requests, Hit(r) PROVE Sound'
  <2>1. key[r] \in Keys /\ Stamp(key[r], disk) /\ pc[r] \in Holding
           /\ pc' = [pc EXCEPT ![r] = "using"] /\ UNCHANGED <<key, spoiled>>
           /\ disk[key[r]].used # 0
    BY <1>3 DEF Hit, Leave, TypeOK
  <2>2. Building'
    BY <2>1, NobodyBuilds DEF Building
  <2>3. RecordedComplete'
    BY <2>1, StampProperties DEF Sound, RecordedComplete, Complete
  <2>. QED
    BY <2>2, <2>3 DEF Sound
<1>4. ASSUME NEW r \in Requests, Miss(r) PROVE Sound'
  <2>1. key[r] \in Keys /\ pc[r] \in Holding
           /\ pc' = [pc EXCEPT ![r] = "python"] /\ UNCHANGED <<key, spoiled>>
    BY <1>4 DEF Miss, TypeOK
  <2>2. Building'
    BY <2>1, NobodyBuilds DEF Building
  <2>3. CASE disk[key[r]].used # 0
    BY <1>4, <2>1, <2>2, <2>3, StampProperties DEF Miss, Sound, RecordedComplete, Complete
  <2>4. CASE disk[key[r]].used = 0
    BY <1>4, <2>1, <2>2, <2>4 DEF Miss, Sound, RecordedComplete, Complete
  <2>. QED
    BY <2>3, <2>4
<1>5. ASSUME NEW r \in Requests, Clear(r) PROVE Sound'
  <2>1. key[r] \in Keys /\ pc[r] = "python" /\ UNCHANGED key
    BY <1>5 DEF Clear, TypeOK
  <2>2. CASE /\ disk' = [disk EXCEPT ![key[r]] = Absent]
             /\ pc' = [pc EXCEPT ![r] = "create"]
             /\ UNCHANGED <<lock, spoiled, faults>>
    <3>1. \A q \in Requests : q # r => pc'[q] \notin {"create", "install", "validate"}
      BY <2>1, <2>2, OneHolder DEF TypeOK
    <3>. QED
      BY <2>1, <2>2, <3>1 DEF TypeOK, Sound, RecordedComplete, Building, Complete
  <2>3. CASE /\ \E d \in Remains(disk[key[r]]) : disk' = [disk EXCEPT ![key[r]] = d]
             /\ spoiled' = spoiled \cup {key[r]}
             /\ Leave(r, "err")
    <3>1. Building'
      BY <2>1, <2>3, NobodyBuilds DEF Building, Leave
    <3>. QED
      BY <2>1, <2>3, <3>1 DEF TypeOK, Sound, RecordedComplete, Complete
  <2>. QED
    BY <1>5, <2>2, <2>3 DEF Clear
<1>6. ASSUME NEW r \in Requests, Create(r) PROVE Sound'
  <2>1. \A q \in Requests : q # r => pc'[q] \notin {"create", "install", "validate"}
    BY <1>6, OneHolder DEF Create, TypeOK
  <2>. QED
    BY <1>6, <2>1 DEF Create, TypeOK, Sound, RecordedComplete, Building, Complete
<1>7. ASSUME NEW r \in Requests, Install(r) PROVE Sound'
  <2>1. \A q \in Requests : q # r => pc'[q] \notin {"create", "install", "validate"}
    BY <1>7, OneHolder DEF Install, TypeOK
  <2>. QED
    BY <1>7, <2>1 DEF Install, TypeOK, Sound, RecordedComplete, Building, Complete
<1>8. ASSUME NEW r \in Requests, CommandFails(r) PROVE Sound'
  <2>1. key[r] \in Keys /\ pc[r] \in Holding /\ UNCHANGED <<key, spoiled>>
           /\ pc' = [pc EXCEPT ![r] = "err"]
    BY <1>8 DEF CommandFails, Leave, TypeOK
  <2>2. Building'
    BY <2>1, NobodyBuilds DEF Building
  <2>3. CASE pc[r] = "create"
    <3>1. disk[key[r]].used = 0
      BY <2>3 DEF Sound, Building
    <3>. QED
      BY <1>8, <2>1, <2>2, <2>3, <3>1 DEF CommandFails, TypeOK, Sound, RecordedComplete, Complete
  <2>4. CASE pc[r] # "create"
    BY <1>8, <2>1, <2>2, <2>4 DEF CommandFails, Sound, RecordedComplete, Complete
  <2>. QED
    BY <2>3, <2>4
<1>9. ASSUME NEW r \in Requests, Finish(r) PROVE Sound'
  <2>1. key[r] \in Keys /\ pc[r] = "validate" /\ UNCHANGED key
           /\ pc' = [pc EXCEPT ![r] = "using"]
    BY <1>9 DEF Finish, Leave, TypeOK
  <2>2. Building'
    BY <2>1, NobodyBuilds DEF Building
  <2>3. key[r] \in spoiled \/ Complete(key[r])
    BY <2>1 DEF Sound, Building
  <2>4. ASSUME NEW k \in Keys \ spoiled', disk'[k].used # 0 PROVE Complete(k)'
    BY <1>9, <2>3, <2>4, FinishProperties DEF Sound, RecordedComplete, Complete
  <2>. QED
    BY <2>2, <2>4 DEF Sound, RecordedComplete
<1>10. ASSUME NEW r \in Requests, Cancel(r) PROVE Sound'
  BY <1>10, SoundFrame DEF Cancel, Leave, TypeOK
<1>11. ASSUME NEW r \in Requests, InstallMoreFails(r) PROVE Sound'
  BY <1>11 DEF InstallMoreFails, TypeOK, Sound, RecordedComplete, Building, Complete
<1>12. ASSUME NEW r \in Requests, Release(r) PROVE Sound'
  BY <1>12, SoundFrame DEF Release, TypeOK
<1>13. ASSUME OrphanEnds PROVE Sound'
  <2>1. UNCHANGED <<pc, key, spoiled>>
    BY <1>13 DEF OrphanEnds
  <2>. QED
    BY <1>13, <2>1, OrphanProperties DEF TypeOK, Sound, RecordedComplete, Building, Complete
<1>14. ASSUME Second PROVE Sound'
  BY <1>14, SoundFrame DEF Second
<1>15. ASSUME UNCHANGED vars PROVE Sound'
  BY <1>15, SoundFrame DEF vars
<1>. QED
  BY <1>1, <1>2, <1>3, <1>4, <1>5, <1>6, <1>7, <1>8, <1>9, <1>10, <1>11, <1>12, <1>13,
     <1>14, <1>15 DEF Next, GetOrCreate

(* RecordedComplete: whatever is dropped, fails half-way or runs on without  *)
(* its call, a directory with metadata is a complete environment.            *)
THEOREM RecordedCorrect == Spec => []RecordedComplete
<1>1. TypeOK /\ Sound /\ [Next]_vars => (TypeOK /\ Sound)'
  BY TypeStep, SoundStep
<1>2. Init => TypeOK /\ Sound
  BY TypeInit, SoundInit
<1>3. Sound => RecordedComplete
  BY DEF Sound
<1>. QED
  BY <1>1, <1>2, <1>3, PTL DEF Spec

-----------------------------------------------------------------------------
(* Environments in use are kept *)

(* Nobody uses anything.                                                     *)
LEMMA KeptInit == Init => Kept
  BY DEF Init, Kept

(* Without a fault so far, no step of the present one is one.                *)
LEMMA FaultFree ==
  ASSUME TypeOK, faults' = 0
  PROVE  ~Fault /\ (UNCHANGED faults => faults = 0)
  BY VenvCacheAssumption DEF TypeOK, Fault, VenvCacheAssumption

(* A step that touches no directory keeps Kept, when no call begins to       *)
(* rebuild or to use one.                                                    *)
LEMMA KeptFrame ==
  ASSUME TypeOK, Kept, UNCHANGED <<key, disk, evicted, spoiled, faults>>,
         \A q \in Requests : pc'[q] \in {"python", "using"} => pc'[q] = pc[q]
  PROVE  Kept'
  BY DEF TypeOK, Kept, Complete

(* Kept is inductive: what a call clears is unrecorded, what is in use is    *)
(* recorded.                                                                 *)
LEMMA KeptStep == TypeOK /\ Sound /\ Kept /\ [Next]_vars => Kept'
<1>. SUFFICES ASSUME TypeOK, Sound, Kept, [Next]_vars, faults' = 0 PROVE Kept'
  BY DEF Kept
<1>1. ASSUME NEW r \in Requests, Ask(r) PROVE Kept'
  BY <1>1, KeptFrame DEF Ask, TypeOK
<1>2. ASSUME NEW r \in Requests, Acquire(r) PROVE Kept'
  BY <1>2, KeptFrame DEF Acquire, TypeOK
<1>3. ASSUME NEW r \in Requests, Hit(r) PROVE Kept'
  <2>1. /\ key[r] \in Keys /\ pc' = [pc EXCEPT ![r] = "using"] /\ pc[r] = "look"
        /\ UNCHANGED <<key, evicted, spoiled>> /\ disk[key[r]].used # 0
        /\ disk' = [disk EXCEPT ![key[r]].used = clock] /\ UNCHANGED faults
    BY <1>3, FaultFree DEF Hit, Leave, Stamp, TypeOK
  <2>2. faults = 0 /\ spoiled = {}
    BY <2>1, FaultFree DEF Kept
  <2>3. \A q \in Requests : pc[q] # "python"
    BY <2>1, OneHolder DEF TypeOK
  <2>4. Complete(key[r]) /\ clock # 0
    BY <2>1, <2>2 DEF Sound, RecordedComplete, TypeOK
  <2>. QED
    BY <2>1, <2>2, <2>3, <2>4 DEF TypeOK, Kept, Complete
<1>4. ASSUME NEW r \in Requests, Miss(r) PROVE Kept'
  <2>1. /\ key[r] \in Keys /\ pc' = [pc EXCEPT ![r] = "python"] /\ pc[r] = "look"
        /\ UNCHANGED <<key, evicted, spoiled>>
    BY <1>4 DEF Miss, TypeOK
  <2>2. faults = 0 /\ spoiled = {}
    BY <1>4, FaultFree DEF Miss, Stamp, Kept
  <2>3. disk[key[r]].used = 0 /\ UNCHANGED <<disk, faults>>
    BY <1>4, <2>1, <2>2 DEF Miss, Sound, RecordedComplete, Complete
  <2>. QED
    BY <2>1, <2>2, <2>3 DEF TypeOK, Kept, Complete
<1>5. ASSUME NEW r \in Requests, Clear(r) PROVE Kept'
  <2>1. /\ key[r] \in Keys /\ pc' = [pc EXCEPT ![r] = "create"] /\ pc[r] = "python"
        /\ UNCHANGED <<key, evicted, spoiled, faults>>
        /\ disk' = [disk EXCEPT ![key[r]] = Absent]
    BY <1>5, FaultFree DEF Clear, TypeOK
  <2>2. faults = 0 /\ disk[key[r]].used = 0
    BY <2>1, FaultFree DEF Kept
  <2>. QED
    BY <2>1, <2>2 DEF TypeOK, Kept, Complete
<1>6. ASSUME NEW r \in Requests, Create(r) PROVE Kept'
  BY <1>6 DEF Create, TypeOK, Kept, Complete
<1>7. ASSUME NEW r \in Requests, Install(r) PROVE Kept'
  BY <1>7 DEF Install, TypeOK, Kept, Complete
<1>8. ASSUME NEW r \in Requests, CommandFails(r) PROVE Kept'
  <2>1. /\ key[r] \in Keys /\ pc' = [pc EXCEPT ![r] = "err"]
        /\ UNCHANGED <<key, evicted, spoiled, faults>>
    BY <1>8 DEF CommandFails, Leave, TypeOK
  <2>2. CASE pc[r] = "create"
    <3>1. disk[key[r]].used = 0
      BY <2>2 DEF Sound, Building
    <3>. QED
      BY <1>8, <2>1, <2>2, <3>1, FaultFree DEF CommandFails, TypeOK, Kept, Complete
  <2>3. CASE pc[r] # "create"
    BY <1>8, <2>1, <2>3, KeptFrame DEF CommandFails, TypeOK
  <2>. QED
    BY <2>2, <2>3
<1>9. ASSUME NEW r \in Requests, Finish(r) PROVE Kept'
  <2>1. /\ key[r] \in Keys /\ pc' = [pc EXCEPT ![r] = "using"] /\ pc[r] = "validate"
        /\ UNCHANGED key
    BY <1>9 DEF Finish, Leave, TypeOK
  <2>2. /\ UNCHANGED <<faults, spoiled>> /\ evicted \subseteq evicted'
        /\ key[r] \in evicted' \/ disk'[key[r]].used = clock
    BY <1>9, FaultFree, FinishProperties
  <2>3. faults = 0 /\ spoiled = {} /\ clock # 0
    BY <2>2, FaultFree DEF Kept, TypeOK
  <2>4. Complete(key[r])
    BY <2>1, <2>3 DEF Sound, Building
  <2>5. ASSUME NEW q \in Requests, pc'[q] = "python" PROVE FALSE
    BY <2>1, <2>5, OneHolder DEF TypeOK
  <2>6. ASSUME NEW q \in Requests, pc'[q] = "using", key'[q] \notin evicted'
        PROVE  Complete(key[q])' /\ disk'[key'[q]].used # 0
    <3>1. key[q] \in Keys /\ key[q] \notin evicted'
      BY <2>1, <2>6 DEF TypeOK
    <3>2. /\ disk'[key[q]].python = disk[key[q]].python
          /\ disk'[key[q]].deps = disk[key[q]].deps
          /\ key[q] # key[r] => disk'[key[q]] = disk[key[q]]
      BY <1>9, <2>2, <2>3, <3>1, FinishProperties
    <3>3. CASE key[q] = key[r]
      BY <2>1, <2>2, <2>3, <2>4, <3>1, <3>2, <3>3 DEF Complete
    <3>4. CASE key[q] # key[r]
      <4>1. pc[q] = "using" /\ key[q] \notin evicted
        BY <2>1, <2>2, <2>6, <3>1, <3>4 DEF TypeOK
      <4>. QED
        BY <2>1, <2>3, <3>2, <3>4, <4>1 DEF Kept, Complete
    <3>. QED
      BY <3>3, <3>4
  <2>. QED
    BY <2>2, <2>3, <2>5, <2>6 DEF Kept
<1>10. ASSUME NEW r \in Requests, Cancel(r) PROVE Kept'
  BY <1>10, KeptFrame DEF Cancel, Leave, TypeOK
<1>11. ASSUME NEW r \in Requests, InstallMoreFails(r) PROVE Kept'
  BY <1>11, FaultFree DEF InstallMoreFails
<1>12. ASSUME NEW r \in Requests, Release(r) PROVE Kept'
  BY <1>12, KeptFrame DEF Release, TypeOK
<1>13. ASSUME OrphanEnds PROVE Kept'
  <2>1. UNCHANGED <<pc, key, evicted, spoiled, faults>>
    BY <1>13 DEF OrphanEnds
  <2>. QED
    BY <1>13, <2>1, OrphanProperties DEF TypeOK, Kept, Complete
<1>14. ASSUME Second PROVE Kept'
  BY <1>14, KeptFrame DEF Second
<1>15. ASSUME UNCHANGED vars PROVE Kept'
  BY <1>15, KeptFrame DEF vars
<1>. QED
  BY <1>1, <1>2, <1>3, <1>4, <1>5, <1>6, <1>7, <1>8, <1>9, <1>10, <1>11, <1>12, <1>13,
     <1>14, <1>15 DEF Next, GetOrCreate

(* InUseComplete: while no fault occurs, an environment somebody holds on to *)
(* is rebuilt by no other call, however calls fail, are dropped or leave     *)
(* commands behind; only evict_lru takes it.                                 *)
THEOREM InUseKept == Spec => []InUseComplete
<1>1. TypeOK /\ Sound /\ Kept /\ [Next]_vars => (TypeOK /\ Sound /\ Kept)'
  BY TypeStep, SoundStep, KeptStep
<1>2. Init => TypeOK /\ Sound /\ Kept
  BY TypeInit, SoundInit, KeptInit
<1>3. Kept => InUseComplete
  BY DEF Kept, InUseComplete
<1>. QED
  BY <1>1, <1>2, <1>3, PTL DEF Spec

-----------------------------------------------------------------------------
(* The limit of the cache *)

(* What EvictLru picks brings the listed environments down to the limit.     *)
LEMMA EvictionBounds ==
  ASSUME NEW S, IsFiniteSet(S), NEW V \in SUBSET S,
         Cardinality(V) = IF Cardinality(S) > MaxEnvs THEN Cardinality(S) - MaxEnvs ELSE 0
  PROVE  Cardinality(S \ V) <= MaxEnvs
<1>. DEFINE s == Cardinality(S)
            v == Cardinality(V)
            d == Cardinality(S \ V)
<1>1. S \cap V = V
  OBVIOUS
<1>2. d = s - v
  BY <1>1, FS_Difference, Zenon
<1>3. s \in Nat /\ v = IF s > MaxEnvs THEN s - MaxEnvs ELSE 0
  BY FS_CardinalityType, Zenon
<1>. HIDE DEF s, v, d
<1>4. d <= MaxEnvs
  BY <1>2, <1>3, VenvCacheAssumption DEF VenvCacheAssumption
<1>. QED
  BY <1>4 DEF d

(* What EvictLru does to a cache whose directories are dirs.                 *)
LEMMA Eviction ==
  ASSUME NEW dirs, NEW smooth \in BOOLEAN, EvictLru(dirs, smooth)
  PROVE  \/ ~smooth /\ disk' = dirs
         \/ \E victims \in SUBSET Listed(dirs) :
              /\ Oldest(dirs, victims)
              /\ \A k \in Keys \ victims : disk'[k] = dirs[k]
              /\ \A v \in victims : disk'[v] = Absent \/ (~smooth /\ v \in spoiled')
<1>1. CASE ~smooth /\ disk' = dirs
  BY <1>1
<1>2. ASSUME NEW victims \in SUBSET Listed(dirs), Oldest(dirs, victims), NEW remains,
             remains \in IF smooth THEN {[v \in victims |-> Absent]} ELSE [victims -> Dir],
             disk' = [k \in Keys |-> IF k \in victims THEN remains[k] ELSE dirs[k]],
             spoiled' = spoiled \cup {v \in victims : remains[v] # Absent}
      PROVE  /\ \A k \in Keys \ victims : disk'[k] = dirs[k]
             /\ \A v \in victims : disk'[v] = Absent \/ (~smooth /\ v \in spoiled')
  <2>1. victims \subseteq Keys
    BY DEF Listed
  <2>. HIDE DEF Absent, Dir
  <2>2. \A k \in Keys \ victims : disk'[k] = dirs[k]
    BY <1>2
  <2>3. ASSUME NEW v \in victims PROVE disk'[v] = Absent \/ (~smooth /\ v \in spoiled')
    <3>1. disk'[v] = remains[v]
      BY <1>2, <2>1
    <3>2. CASE smooth
      <4>1. remains = [i \in victims |-> Absent]
        BY <1>2, <3>2
      <4>. QED
        BY <3>1, <4>1
    <3>3. CASE ~smooth
      <4>1. remains[v] # Absent => v \in spoiled'
        BY <1>2
      <4>. QED
        BY <3>1, <3>3, <4>1
    <3>. QED
      BY <3>2, <3>3
  <2>. QED
    BY <2>2, <2>3
<1>3. CASE \E victims \in SUBSET Listed(dirs) :
             /\ Oldest(dirs, victims)
             /\ \E remains \in IF smooth THEN {[v \in victims |-> Absent]}
                                         ELSE [victims -> Dir] :
                  /\ disk' = [k \in Keys |-> IF k \in victims THEN remains[k] ELSE dirs[k]]
                  /\ spoiled' = spoiled \cup {v \in victims : remains[v] # Absent}
  <2>1. PICK victims \in SUBSET Listed(dirs) :
          /\ Oldest(dirs, victims)
          /\ \E remains \in IF smooth THEN {[v \in victims |-> Absent]}
                                      ELSE [victims -> Dir] :
               /\ disk' = [k \in Keys |-> IF k \in victims THEN remains[k] ELSE dirs[k]]
               /\ spoiled' = spoiled \cup {v \in victims : remains[v] # Absent}
    BY <1>3
  <2>2. /\ \A k \in Keys \ victims : disk'[k] = dirs[k]
        /\ \A v \in victims : disk'[v] = Absent \/ (~smooth /\ v \in spoiled')
    BY <1>2, <2>1
  <2>. QED
    BY <2>1, <2>2
<1>. QED
  BY <1>1, <1>3 DEF EvictLru

(* Only Finish lists an environment: every other step keeps the listed ones  *)
(* or unlists some.                                                          *)
LEMMA OnlyFinishLists ==
  ASSUME TypeOK, [Next]_vars, \A r \in Requests : ~Finish(r)
  PROVE  Listed(disk)' \subseteq Listed(disk) /\ (faults' = 0 => faults = 0)
<1>. SUFFICES \A k \in Keys : disk'[k].used # 0 => disk[k].used # 0
  <2>1. faults' = 0 => faults = 0
    BY FaultFree, VenvCacheAssumption
       DEF Next, GetOrCreate, Ask, Acquire, Hit, Miss, Stamp, Clear, Create, Install,
           CommandFails, Cancel, InstallMoreFails, Release, OrphanEnds, Second, vars
  <2>. QED
    BY <2>1 DEF Listed
<1>. USE DEF TypeOK
<1>1. ASSUME UNCHANGED disk PROVE \A k \in Keys : disk'[k].used # 0 => disk[k].used # 0
  BY <1>1
<1>2. ASSUME NEW r \in Requests, Hit(r)
      PROVE  \A k \in Keys : disk'[k].used # 0 => disk[k].used # 0
  BY <1>2, StampProperties DEF Hit
<1>3. ASSUME NEW r \in Requests, Miss(r)
      PROVE  \A k \in Keys : disk'[k].used # 0 => disk[k].used # 0
  <2>1. CASE disk[key[r]].used # 0
    BY <1>3, <2>1, StampProperties DEF Miss
  <2>2. CASE disk[key[r]].used = 0
    BY <1>3, <2>2 DEF Miss
  <2>. QED
    BY <2>1, <2>2
<1>4. ASSUME NEW r \in Requests, Clear(r)
      PROVE  \A k \in Keys : disk'[k].used # 0 => disk[k].used # 0
  <2>1. PICK d \in {Absent} \cup Remains(disk[key[r]]) : disk' = [disk EXCEPT ![key[r]] = d]
    BY <1>4 DEF Clear
  <2>2. d.used # 0 => d.used = disk[key[r]].used
    BY <2>1 DEF Remains
  <2>. HIDE DEF Absent
  <2>. QED
    BY <2>1, <2>2
<1>5. ASSUME NEW r \in Requests, Create(r) \/ Install(r) \/ InstallMoreFails(r)
      PROVE  \A k \in Keys : disk'[k].used # 0 => disk[k].used # 0
  BY <1>5 DEF Create, Install, InstallMoreFails
<1>6. ASSUME NEW r \in Requests, CommandFails(r)
      PROVE  \A k \in Keys : disk'[k].used # 0 => disk[k].used # 0
  <2>1. CASE pc[r] = "create"
    <3>1. PICK made \in BOOLEAN : disk' = [disk EXCEPT ![key[r]].python = @ \/ made]
      BY <1>6, <2>1 DEF CommandFails
    <3>. DEFINE b == disk[key[r]].python \/ made
    <3>2. disk' = [disk EXCEPT ![key[r]].python = b]
      BY <3>1
    <3>. HIDE DEF b
    <3>. QED
      BY <3>2
  <2>2. CASE pc[r] # "create"
    BY <1>6, <2>2 DEF CommandFails
  <2>. QED
    BY <2>1, <2>2
<1>7. ASSUME OrphanEnds PROVE \A k \in Keys : disk'[k].used # 0 => disk[k].used # 0
  BY <1>7, OrphanProperties
<1>8. ASSUME NEW r \in Requests, Ask(r) \/ Acquire(r) \/ Cancel(r) \/ Release(r)
      PROVE  UNCHANGED disk
  BY <1>8 DEF Ask, Acquire, Cancel, Release
<1>9. Second \/ UNCHANGED vars => UNCHANGED disk
  BY DEF Second, vars
<1>. QED
  BY <1>1, <1>2, <1>3, <1>4, <1>5, <1>6, <1>7, <1>8, <1>9 DEF Next, GetOrCreate

(* Finish lists at most its own key, and without a fault it brings the cache *)
(* back to its limit.                                                        *)
LEMMA FinishKeepsLimit ==
  ASSUME TypeOK, Within, NEW r \in Requests, Finish(r)
  PROVE  Within'
<1>1. PICK stamped \in BOOLEAN, smooth \in BOOLEAN :
        /\ EvictLru([disk EXCEPT ![key[r]].used = IF stamped THEN clock ELSE 0], smooth)
        /\ IF stamped /\ smooth THEN UNCHANGED faults ELSE Fault
  BY DEF Finish
<1>. DEFINE t == IF stamped THEN clock ELSE 0
            dirs == [disk EXCEPT ![key[r]].used = t]
            L == Listed(dirs)
<1>2. key[r] \in Keys /\ disk \in [Keys -> Dir] /\ t \in 0 .. MaxClock
  BY VenvCacheAssumption DEF TypeOK, VenvCacheAssumption
<1>3. dirs \in [Keys -> Dir] /\ L \subseteq Listed(disk) \cup {key[r]}
  <2>. HIDE DEF t
  <2>. QED
    BY <1>2 DEF Listed
<1>4. EvictLru(dirs, smooth)
  BY <1>1
<1>. HIDE DEF dirs
<1>5. IsFiniteSet(L)
  <2>1. IsFiniteSet(Listed(disk) \cup {key[r]})
    BY FS_AddElement DEF Within
  <2>. QED
    BY <1>3, <2>1, FS_Subset
<1>6. CASE disk' = dirs /\ ~smooth
  <2>1. Listed(disk)' = L /\ faults' # 0
    BY <1>1, <1>6, FaultFree DEF Listed
  <2>. QED
    BY <1>5, <2>1 DEF Within
<1>7. ASSUME NEW victims \in SUBSET L, Oldest(dirs, victims),
             \A k \in Keys \ victims : disk'[k] = dirs[k],
             \A v \in victims : disk'[v] = Absent \/ ~smooth
      PROVE  Within'
  <2>1. Listed(disk)' \subseteq L
    BY <1>7 DEF Listed
  <2>2. ASSUME faults' = 0 PROVE Cardinality(Listed(disk)') <= MaxEnvs
    <3>1. smooth
      BY <1>1, <2>2, FaultFree
    <3>2. Listed(disk)' = L \ victims
      BY <1>7, <3>1 DEF Listed
    <3>3. Cardinality(victims) = IF Cardinality(L) > MaxEnvs THEN Cardinality(L) - MaxEnvs ELSE 0
      BY <1>7, Zenon DEF Oldest, Excess
    <3>. QED
      BY <1>5, <1>7, <3>2, <3>3, EvictionBounds, Zenon
  <2>. QED
    BY <1>5, <2>1, <2>2, FS_Subset DEF Within
<1>. QED
  BY <1>4, <1>6, <1>7, Eviction

(* Within is inductive.                                                      *)
LEMMA WithinStep == TypeOK /\ Within /\ [Next]_vars => Within'
<1>. SUFFICES ASSUME TypeOK, Within, [Next]_vars PROVE Within'
  OBVIOUS
<1>1. CASE \E r \in Requests : Finish(r)
  BY <1>1, FinishKeepsLimit
<1>2. CASE \A r \in Requests : ~Finish(r)
  <2>. DEFINE N == Listed(disk)'
              O == Listed(disk)
  <2>1. N \subseteq O /\ (faults' = 0 => faults = 0)
    BY <1>2, OnlyFinishLists
  <2>2. IsFiniteSet(O) /\ (faults = 0 => Cardinality(O) <= MaxEnvs)
    BY DEF Within
  <2>3. IsFiniteSet(N) /\ Cardinality(N) <= Cardinality(O)
    BY <2>1, <2>2, FS_Subset
  <2>4. Cardinality(N) \in Nat /\ Cardinality(O) \in Nat
    BY <2>2, <2>3, FS_CardinalityType
  <2>5. faults' = 0 => Cardinality(N) <= MaxEnvs
    BY <2>1, <2>2, <2>3, <2>4, VenvCacheAssumption DEF VenvCacheAssumption
  <2>. QED
    BY <2>3, <2>5 DEF Within
<1>. QED
  BY <1>1, <1>2

(* Bounded: while no fault occurs the cache lists at most max_cached_envs    *)
(* environments, between calls and during them.                              *)
THEOREM CacheBounded == Spec => []Bounded
<1>1. Init => Within
  <2>1. ASSUME Init PROVE Listed(disk) = {}
    BY <2>1 DEF Init, Listed
  <2>. QED
    BY <2>1, FS_EmptySet, VenvCacheAssumption DEF Within, VenvCacheAssumption
<1>2. Init => TypeOK /\ Within
  BY <1>1, TypeInit
<1>3. TypeOK /\ Within /\ [Next]_vars => (TypeOK /\ Within)'
  BY TypeStep, WithinStep
<1>4. Within => Bounded
  BY DEF Within, Bounded
<1>. QED
  BY <1>2, <1>3, <1>4, PTL DEF Spec

-----------------------------------------------------------------------------
(* The oldest go first *)

(* Beside Finish only the call that holds the lock removes a listed          *)
(* environment, and only that of its own key.                                *)
LEMMA OnlyOwnRemoved ==
  ASSUME TypeOK, [Next]_vars, \A r \in Requests : ~Finish(r),
         NEW j \in Keys, disk[j].used # 0, disk'[j] = Absent
  PROVE  lock \in Requests /\ key[lock] = j
<1>. USE DEF TypeOK
<1>1. disk'[j].used = 0
  OBVIOUS
<1>. HIDE DEF Absent
<1>2. ASSUME disk'[j].used = disk[j].used PROVE FALSE
  BY <1>1, <1>2
<1>3. ASSUME NEW r \in Requests, pc[r] \in Holding,
             key[r] # j => disk'[j] = disk[j]
      PROVE  lock \in Requests /\ key[lock] = j
  BY <1>2, <1>3
<1>4. ASSUME NEW r \in Requests, Hit(r) \/ Miss(r)
      PROVE  lock \in Requests /\ key[lock] = j
  <2>1. key[r] \in Keys /\ pc[r] \in Holding
    BY <1>4 DEF Hit, Miss
  <2>2. Stamp(key[r], disk) \/ UNCHANGED disk
    BY <1>4 DEF Hit, Miss
  <2>. QED
    BY <1>3, <2>1, <2>2, StampProperties
<1>5. ASSUME NEW r \in Requests, Clear(r)
      PROVE  lock \in Requests /\ key[lock] = j
  <2>1. pc[r] \in Holding /\ \E d : disk' = [disk EXCEPT ![key[r]] = d]
    BY <1>5 DEF Clear
  <2>. QED
    BY <1>3, <2>1
<1>6. ASSUME NEW r \in Requests, Create(r) \/ Install(r) \/ InstallMoreFails(r)
      PROVE  disk'[j].used = disk[j].used
  BY <1>6 DEF Create, Install, InstallMoreFails
<1>7. ASSUME NEW r \in Requests, CommandFails(r) PROVE disk'[j].used = disk[j].used
  <2>1. CASE pc[r] = "create"
    <3>1. PICK made \in BOOLEAN : disk' = [disk EXCEPT ![key[r]].python = @ \/ made]
      BY <1>7, <2>1 DEF CommandFails
    <3>. DEFINE b == disk[key[r]].python \/ made
    <3>2. disk' = [disk EXCEPT ![key[r]].python = b]
      BY <3>1
    <3>. HIDE DEF b
    <3>. QED
      BY <3>2
  <2>2. CASE pc[r] # "create"
    BY <1>7, <2>2 DEF CommandFails
  <2>. QED
    BY <2>1, <2>2
<1>8. OrphanEnds => disk'[j].used = disk[j].used
  BY OrphanProperties
<1>9. ASSUME NEW r \in Requests, Ask(r) \/ Acquire(r) \/ Cancel(r) \/ Release(r)
      PROVE  UNCHANGED disk
  BY <1>9 DEF Ask, Acquire, Cancel, Release
<1>10. Second \/ UNCHANGED vars => UNCHANGED disk
  BY DEF Second, vars
<1>. QED
  BY <1>2, <1>4, <1>5, <1>6, <1>7, <1>8, <1>9, <1>10 DEF Next, GetOrCreate

(* What Finish evicts is no younger than what it leaves.                     *)
LEMMA FinishTakesOldest ==
  ASSUME TypeOK, NEW r \in Requests, Finish(r), NEW j \in Keys, NEW k \in Keys,
         j # key[r], disk[j].used > disk[k].used, disk[k].used > 0,
         disk'[j] = Absent, disk'[k] = disk[k],
         faults' = faults \/ k \notin spoiled'
  PROVE  FALSE
<1>1. PICK stamped \in BOOLEAN, smooth \in BOOLEAN :
        /\ EvictLru([disk EXCEPT ![key[r]].used = IF stamped THEN clock ELSE 0], smooth)
        /\ IF stamped /\ smooth THEN UNCHANGED faults ELSE Fault
  BY DEF Finish
<1>. DEFINE t == IF stamped THEN clock ELSE 0
            dirs == [disk EXCEPT ![key[r]].used = t]
<1>2. /\ key[r] \in Keys /\ disk \in [Keys -> Dir] /\ t \in 0 .. MaxClock
      /\ disk[j].used \in Nat /\ disk[k].used \in Nat
      /\ Absent.used = 0
  BY VenvCacheAssumption DEF TypeOK, VenvCacheAssumption
<1>3. disk[j].used # 0 /\ disk[j] # Absent /\ disk[k] # Absent
  BY <1>2
<1>4. smooth \/ k \notin spoiled'
  BY <1>1 DEF Fault, TypeOK
<1>5. dirs[j] = disk[j]
  BY <1>2
<1>6. dirs[k].used = t \/ dirs[k] = disk[k]
  BY <1>2
<1>7. key[r] = k => dirs[k].used = t
  BY <1>2
<1>8. EvictLru(dirs, smooth)
  BY <1>1
<1>. HIDE DEF dirs, t, Absent, Dir
<1>9. PICK victims \in SUBSET Listed(dirs) :
        /\ Oldest(dirs, victims)
        /\ \A i \in Keys \ victims : disk'[i] = dirs[i]
        /\ \A v \in victims : disk'[v] = Absent \/ (~smooth /\ v \in spoiled')
  BY <1>3, <1>5, <1>8, Eviction
<1>10. k \notin victims /\ j \in victims
  BY <1>3, <1>4, <1>5, <1>9
<1>11. dirs[k] = disk[k]
  BY <1>9, <1>10
<1>12. k \in Listed(dirs)
  BY <1>2, <1>11 DEF Listed
<1>13. dirs[j].used <= dirs[k].used
  BY <1>9, <1>10, <1>12 DEF Oldest
<1>. QED
  BY <1>2, <1>5, <1>11, <1>13

(* EvictsOldest: no step removes an environment used in a later second than  *)
(* one that stays, but the holder of the lock its own or when the removal of *)
(* the older one failed.                                                     *)
THEOREM OldestGoFirst == Spec => EvictsOldest
<1>. DEFINE Order ==
       \A j, k \in Keys :
         /\ disk[j].used > disk[k].used /\ disk[k].used > 0
         /\ disk'[j] = Absent /\ disk'[k] = disk[k]
         /\ faults' = faults \/ k \notin spoiled'
         => lock \in Requests /\ key[lock] = j
<1>1. TypeOK /\ [Next]_vars => Order
  <2>. SUFFICES ASSUME TypeOK, [Next]_vars, NEW j \in Keys, NEW k \in Keys,
                       disk[j].used > disk[k].used, disk[k].used > 0,
                       disk'[j] = Absent, disk'[k] = disk[k],
                       faults' = faults \/ k \notin spoiled'
                PROVE  lock \in Requests /\ key[lock] = j
    OBVIOUS
  <2>1. ASSUME NEW r \in Requests, Finish(r) PROVE lock \in Requests /\ key[lock] = j
    <3>1. key[r] = j
      BY <2>1, FinishTakesOldest
    <3>. QED
      BY <2>1, <3>1 DEF Finish, TypeOK
  <2>2. disk[j].used # 0
    BY DEF TypeOK
  <2>. QED
    BY <2>1, <2>2, OnlyOwnRemoved
<1>2. TypeOK /\ [Next]_vars => [Order]_vars
  BY <1>1
<1>. QED
  BY <1>2, TypeCorrect, PTL DEF Spec, EvictsOldest

=============================================================================
