---------------------------- MODULE PyIpc_proofs ----------------------------
(***************************************************************************)
(* The runner protocol for any number of calls and any capacities.         *)
(*                                                                         *)
(* First type correctness and the READY handshake: no request is published *)
(* before the runner has attached.  Then the turns: a command is queued    *)
(* once and served once, no waiting call is forgotten, and until a         *)
(* receive() fails turns never overlap, so every caller is given the       *)
(* frames of its own input, in order.  Last what the node does for those   *)
(* around it: it implements TurnService, whatever its threads and channels *)
(* do; its hook has a turn's messages before the caller has its answer,    *)
(* and the runner is never further behind than the turns that receive      *)
(* errors cut short.                                                       *)
(***************************************************************************)
EXTENDS PyIpc, SequenceTheorems, FunctionTheorems, FiniteSetTheorems, TLAPS

-----------------------------------------------------------------------------
(* Sequences *)

(* after holds what before held, or all of it but the oldest, and then last. *)
Shifted(before, last, after) ==
  /\ Len(before) \in Nat /\ Len(after) \in Nat \ {0}
  /\ after[Len(after)] = last
  /\ \/ /\ Len(after) = Len(before) + 1
        /\ \A i \in 1 .. Len(after) - 1 : after[i] = before[i]
     \/ /\ Len(after) = Len(before)
        /\ \A i \in 1 .. Len(after) - 1 : after[i] = before[i + 1]

(* A push onto a subscriber's buffer keeps its samples' type; the new sample *)
(* is the last, those before it keep their places or, from a full buffer,    *)
(* move up by one.                                                           *)
LEMMA PushProperties ==
  ASSUME NEW S, NEW buffer \in Seq(S), NEW sample \in S
  PROVE  /\ Push(buffer, sample) \in Seq(S)
         /\ Shifted(buffer, sample, Push(buffer, sample))
<1>. DEFINE pushed == Push(buffer, sample)
<1>. HIDE DEF pushed
<1>1. CASE Len(buffer) < BufCap
  <2>1. pushed = Append(buffer, sample)
    BY <1>1 DEF Push, pushed
  <2>2. Len(buffer) \in Nat
    BY LenProperties
  <2>3. /\ pushed \in Seq(S)
        /\ Len(pushed) = Len(buffer) + 1
        /\ \A i \in 1 .. Len(buffer) : pushed[i] = buffer[i]
        /\ pushed[Len(buffer) + 1] = sample
    BY <2>1, AppendProperties
  <2>. QED
    BY <2>2, <2>3 DEF Shifted, pushed
<1>2. CASE ~ (Len(buffer) < BufCap)
  <2>. DEFINE t == Tail(buffer)
  <2>1. pushed = Append(t, sample)
    BY <1>2 DEF Push, pushed
  <2>2. buffer # <<>>
    BY <1>2, PyIpcAssumption DEF PyIpcAssumption
  <2>3. /\ t \in Seq(S)
        /\ Len(t) = Len(buffer) - 1
        /\ \A i \in 1 .. Len(t) : t[i] = buffer[i + 1]
    BY <2>2, HeadTailProperties
  <2>4. Len(buffer) \in Nat \ {0}
    BY <2>2, EmptySeq
  <2>. HIDE DEF t
  <2>5. /\ pushed \in Seq(S)
        /\ Len(pushed) = Len(t) + 1
        /\ \A i \in 1 .. Len(t) : pushed[i] = t[i]
        /\ pushed[Len(t) + 1] = sample
    BY <2>1, <2>3, AppendProperties
  <2>. QED
    BY <2>3, <2>4, <2>5 DEF Shifted, pushed
<1>. QED
  BY <1>1, <1>2 DEF pushed

(* A push adds nothing but its sample. *)
LEMMA ShiftedMembers ==
  ASSUME NEW buffer, NEW sample, NEW pushed, Shifted(buffer, sample, pushed)
  PROVE  \A i \in 1 .. Len(pushed) :
           pushed[i] = sample \/ \E k \in 1 .. Len(buffer) : pushed[i] = buffer[k]
<1>1. Shifted(buffer, sample, pushed)
  OBVIOUS
<1>. USE DEF Shifted
<1>2. ASSUME NEW i \in 1 .. Len(pushed), pushed[i] # sample
      PROVE  \E k \in 1 .. Len(buffer) : pushed[i] = buffer[k]
  <2>1. i \in 1 .. Len(pushed) - 1
    BY <1>1, <1>2
  <2>2. CASE Len(pushed) = Len(buffer) + 1 /\ pushed[i] = buffer[i]
    BY <1>1, <2>1, <2>2
  <2>3. CASE Len(pushed) = Len(buffer) /\ pushed[i] = buffer[i + 1]
    <3>1. i + 1 \in 1 .. Len(buffer)
      BY <1>1, <2>1, <2>3
    <3>. QED
      BY <2>3, <3>1
  <2>. QED
    BY <1>1, <2>1, <2>2, <2>3
<1>. QED
  BY <1>2

(* What a drain leaves on the control channel was on it before. *)
LEMMA DrainProperties ==
  ASSUME NEW S, control \in Seq(S), faults \in Nat, DrainControl
  PROVE  /\ control' \in Seq(S)
         /\ faults' \in Nat
         /\ \A i \in 1 .. Len(control') : \E k \in 1 .. Len(control) : control'[i] = control[k]
<1>1. CASE control' = control
  BY <1>1 DEF DrainControl
<1>2. CASE control' = <<>>
  BY <1>2 DEF DrainControl
<1>3. CASE \E k \in 0 .. Len(control) : control' = SubSeq(control, k + 1, Len(control))
  <2>1. PICK k \in 0 .. Len(control) : control' = SubSeq(control, k + 1, Len(control))
    BY <1>3
  <2>2. \A i \in k + 1 .. Len(control) : control[i] \in S
    BY ElementOfSeq
  <2>3. /\ control' \in Seq(S)
        /\ Len(control') = IF k + 1 <= Len(control) THEN Len(control) - (k + 1) + 1 ELSE 0
        /\ \A i \in 1 .. Len(control) - (k + 1) + 1 : control'[i] = control[k + 1 + i - 1]
    BY <2>1, <2>2, SubSeqProperties
  <2>4. \A i \in 1 .. Len(control') : \E j \in 1 .. Len(control) : control'[i] = control[j]
    BY <2>3
  <2>. QED
    BY <2>3, <2>4 DEF DrainControl
<1>. QED
  BY <1>1, <1>2, <1>3 DEF DrainControl

-----------------------------------------------------------------------------
(* Type correctness *)

(* The initial states are well typed.                                        *)
LEMMA TypeInit == Init => TypeOK
<1>. SUFFICES ASSUME Init PROVE TypeOK
  OBVIOUS
<1>1. /\ call \in [Calls -> {"new", "sending", "waiting", "closed", "broken",
                            "ok", "err", "cancelled"}]
      /\ mode \in [Calls -> Modes]
      /\ emitted \in [Calls -> Nat]
  BY DEF Init, Modes
<1>2. /\ answer \in [Calls -> Seq(Frame)]
      /\ chan \in [Calls -> Seq(Frame)]
  BY DEF Init
<1>3. /\ queue \in Seq(Calls \cup {WaitForReady})
      /\ got \in Seq(Frame)
      /\ input \in Seq(Calls)
      /\ output \in Seq(Frame)
      /\ control \in Seq(Calls \cup {Ready, Progress})
  BY EmptySeq, Zenon DEF Init
<1>4. Serving <=> cur # None
  BY DEF Init, Serving
<1>. QED
  BY <1>1, <1>2, <1>3, <1>4 DEF Init, TypeOK

(* A stuttering step keeps the types.                                        *)
LEMMA TypeStutter == TypeOK /\ UNCHANGED vars => TypeOK'
BY DEF TypeOK, Serving, vars, hostVars, callVars, ipcVars, rnVars, chanVars, histVars

(* create(), the drop of the handle and the hook. *)
LEMMA TypeHost ==
  ASSUME TypeOK, Handshake, Create \/ DropNode \/ InstallHook
  PROVE  TypeOK'
<1>. USE PyIpcAssumption DEF PyIpcAssumption, TypeOK, Serving,
         hostVars, callVars, ipcVars, rnVars, chanVars, histVars
<1>1. CASE IpcSetup
  BY <1>1 DEF IpcSetup
<1>2. CASE SpawnRunner
  <2>1. queue' \in Seq(Calls \cup {WaitForReady})
    BY <1>2, AppendProperties, Zenon DEF SpawnRunner
  <2>2. turn = None
    BY <1>2 DEF SpawnRunner, Handshake
  <2>3. /\ host' = "await" /\ rn' = "starting"
        /\ UNCHANGED <<ready, hook, callVars, pc, cur, got, turn, chanVars, histVars>>
    BY <1>2 DEF SpawnRunner
  <2>. QED
    BY <2>1, <2>2, <2>3
<1>3. CASE SpawnFails
  BY <1>3 DEF SpawnFails
<1>4. CASE ReadyReplied
  BY <1>4 DEF ReadyReplied
<1>5. CASE ObserveExit
  BY <1>5 DEF ObserveExit
<1>6. CASE GraceExpires
  BY <1>6 DEF GraceExpires
<1>7. CASE DropNode
  BY <1>7 DEF DropNode
<1>8. CASE InstallHook
  BY <1>8 DEF InstallHook
<1>. QED
  BY <1>1, <1>2, <1>3, <1>4, <1>5, <1>6, <1>7, <1>8 DEF Create

(* The callers. *)
LEMMA TypeCaller ==
  ASSUME TypeOK, NEW c \in Calls, Submit(c) \/ Cancel(c) \/ CallerStep(c)
  PROVE  TypeOK'
<1>. USE PyIpcAssumption DEF PyIpcAssumption, TypeOK, Serving,
         hostVars, callVars, ipcVars, rnVars, chanVars, histVars
<1>1. CASE Submit(c)
  BY <1>1 DEF Submit, Modes
<1>2. CASE Cancel(c)
  BY <1>2 DEF Cancel
<1>3. CASE Enqueue(c)
  BY <1>3 DEF Enqueue
<1>4. CASE TakeFrame(c)
  BY <1>4 DEF TakeFrame
<1>5. CASE StreamDone(c)
  BY <1>5 DEF StreamDone
<1>. QED
  BY <1>1, <1>2, <1>3, <1>4, <1>5 DEF CallerStep

(* The IPC thread. *)
LEMMA TypeIpcThread ==
  ASSUME TypeOK, IpcThread
  PROVE  TypeOK'
<1>. USE PyIpcAssumption DEF PyIpcAssumption, TypeOK, Serving,
         hostVars, callVars, ipcVars, rnVars, chanVars, histVars
<1>1. CASE TakeReadyCommand
  BY <1>1 DEF TakeReadyCommand
<1>2. CASE PollReady
  BY <1>2 DEF PollReady, IsReady
<1>3. CASE ReadyGivesUp
  BY <1>3 DEF ReadyGivesUp
<1>4. CASE BeginTurn
  <2>1. Head(queue) \in Calls /\ queue' \in Seq(Calls \cup {WaitForReady})
    BY <1>4, HeadTailProperties DEF BeginTurn
  <2>2. input' \in Seq(Calls)
    BY <1>4, <2>1, PushProperties DEF BeginTurn, Publish
  <2>. QED
    BY <1>4, <2>1, <2>2 DEF BeginTurn
<1>5. CASE BeginFails
  BY <1>5 DEF BeginFails, Reply, Failure
<1>6. CASE PollControl
  <2>1. control' \in Seq(Calls \cup {Ready, Progress}) /\ faults' \in Nat
    BY <1>6, DrainProperties DEF PollControl
  <2>. QED
    BY <1>6, <2>1 DEF PollControl
<1>7. CASE RecvRound
  BY <1>7, HeadTailProperties, AppendProperties DEF RecvRound, TakeOutput
<1>8. CASE RecvMulti
  BY <1>8, HeadTailProperties, AppendProperties DEF RecvMulti, TakeOutput
<1>9. CASE RecvStream
  <2>1. /\ Head(output) \in Frame
        /\ output' \in Seq(Frame)
    BY <1>9, HeadTailProperties DEF RecvStream, TakeOutput
  <2>2. got' \in Seq(Frame)
    <3>1. got' = got \/ got' = <<Head(output)>>
      BY <1>9 DEF RecvStream
    <3>2. <<Head(output)>> \in Seq(Frame)
      BY <2>1
    <3>. QED
      BY <3>1, <3>2
  <2>3. /\ pc = "recv" /\ pc' \in {"poll", "park"}
        /\ UNCHANGED <<hostVars, callVars, queue, cur, rnVars, input, control, histVars>>
    BY <1>9 DEF RecvStream, TakeOutput
  <2>. QED
    BY <2>1, <2>2, <2>3
<1>10. CASE Forward
  BY <1>10 DEF Forward
<1>11. CASE ConsumerGone
  BY <1>11 DEF ConsumerGone
<1>12. CASE RecvEnd
  <2>1. control' \in Seq(Calls \cup {Ready, Progress}) /\ faults' \in Nat
    BY <1>12, DrainProperties DEF RecvEnd, FinalDrain
  <2>2. output' \in Seq(Frame)
    BY <1>12, HeadTailProperties DEF RecvEnd
  <2>3. cur \in Calls
    BY <1>12 DEF RecvEnd
  <2>4. /\ call' \in [Calls -> {"new", "sending", "waiting", "closed", "broken",
                               "ok", "err", "cancelled"}]
        /\ answer' \in [Calls -> Seq(Frame)]
    <3>1. PICK r \in Outcomes(cur) :
                /\ Reply(cur, r)
                /\ answer' = IF r = "ok" /\ call[cur] = "waiting"
                              THEN [answer EXCEPT ![cur] = got]
                              ELSE answer
      BY <1>12 DEF RecvEnd
    <3>2. r \in {"closed", "ok", "err"}
      BY DEF Outcomes
    <3>3. call' \in [Calls -> {"new", "sending", "waiting", "closed", "broken",
                               "ok", "err", "cancelled"}]
      BY <3>1, <3>2, <2>3 DEF Reply
    <3>4. answer' \in [Calls -> Seq(Frame)]
      BY <3>1, <2>3
    <3>. QED
      BY <3>3, <3>4
  <2>. QED
    BY <1>12, <2>1, <2>2, <2>4 DEF RecvEnd, EndTurn
<1>13. CASE RecvNothing
  BY <1>13 DEF RecvNothing
<1>14. CASE RecvFault
  BY <1>14 DEF RecvFault, EndTurn, Reply, Failure
<1>15. CASE IpcExit
  BY <1>15 DEF IpcExit
<1>. QED
  BY <1>1, <1>2, <1>3, <1>4, <1>5, <1>6, <1>7, <1>8, <1>9, <1>10, <1>11, <1>12, <1>13, <1>14, <1>15 DEF IpcThread

(* A frame lost to a full buffer is the frame of a call. *)
LEMMA EvictedType == TypeOK => Evicted \subseteq Calls
<1>. SUFFICES ASSUME TypeOK, ~(Len(output) < BufCap) PROVE Head(output).turn \in Calls
  BY DEF Evicted
<1>1. output \in Seq(Frame) /\ output # <<>>
  BY PyIpcAssumption DEF PyIpcAssumption, TypeOK
<1>2. Head(output) \in Frame
  BY <1>1, HeadTailProperties
<1>. QED
  BY <1>2 DEF Frame

(* The runner. *)
LEMMA TypeRunner ==
  ASSUME TypeOK, RunnerWork \/ RunnerDies
  PROVE  TypeOK'
<1>. USE PyIpcAssumption DEF PyIpcAssumption, TypeOK, Serving,
         hostVars, callVars, ipcVars, rnVars, chanVars, histVars
<1>1. CASE RunnerReady
  <2>1. control' \in Seq(Calls \cup {Ready, Progress})
    BY <1>1, PushProperties DEF RunnerReady
  <2>. QED
    BY <1>1, <2>1 DEF RunnerReady
<1>2. CASE RunnerNote
  <2>1. (IF rn = "busy" THEN turn ELSE Progress) \in Calls \cup {Ready, Progress}
    BY <1>2 DEF RunnerNote
  <2>2. control' \in Seq(Calls \cup {Ready, Progress})
    BY <1>2, <2>1, PushProperties DEF RunnerNote
  <2>. QED
    BY <1>2, <2>2 DEF RunnerNote
<1>3. CASE RunnerTake
  <2>1. Head(input) \in Calls /\ input' \in Seq(Calls)
    BY <1>3, HeadTailProperties DEF RunnerTake
  <2>. QED
    BY <1>3, <2>1 DEF RunnerTake
<1>4. CASE RunnerEmit
  <2>1. turn \in Calls /\ emitted[turn] \in Nat
    BY <1>4 DEF RunnerEmit
  <2>2. [turn |-> turn, n |-> emitted[turn] + 1] \in Frame
    BY <2>1 DEF Frame
  <2>3. output' \in Seq(Frame)
    BY <1>4, <2>2, PushProperties DEF RunnerEmit
  <2>4. lost' \subseteq Calls
    BY <1>4, EvictedType DEF RunnerEmit
  <2>. QED
    BY <1>4, <2>1, <2>3, <2>4 DEF RunnerEmit
<1>5. CASE RunnerEnd
  <2>1. EndOfInput(turn) \in Frame
    BY <1>5 DEF RunnerEnd, EndOfInput, Frame
  <2>2. output' \in Seq(Frame)
    BY <1>5, <2>1, PushProperties DEF RunnerEnd
  <2>3. lost' \subseteq Calls
    BY <1>5, EvictedType DEF RunnerEnd
  <2>. QED
    BY <1>5, <2>2, <2>3 DEF RunnerEnd
<1>6. CASE RunnerDies
  BY <1>6 DEF RunnerDies
<1>. QED
  BY <1>1, <1>2, <1>3, <1>4, <1>5, <1>6 DEF RunnerWork

(* Every step keeps the types, given the handshake invariant.                *)
LEMMA TypeStep == TypeOK /\ Handshake /\ [Next]_vars => TypeOK'
BY TypeStutter, TypeHost, TypeCaller, TypeIpcThread, TypeRunner DEF Next

-----------------------------------------------------------------------------
(* The handshake *)

(* Before create() is called there is no runner.                             *)
LEMMA HandshakeInit == Init => Handshake
BY DEF Init, Handshake, Attached, HandedOut, Serving

(* A stuttering step keeps the handshake invariant.                          *)
LEMMA HandshakeStutter == Handshake /\ UNCHANGED vars => Handshake'
BY DEF Handshake, Attached, HandedOut, Serving, vars, hostVars, callVars, ipcVars, rnVars, chanVars

(* create(), the drop of the handle and the hook. *)
LEMMA HandshakeHost ==
  ASSUME TypeOK, Handshake, Create \/ DropNode \/ InstallHook
  PROVE  Handshake'
<1>. USE PyIpcAssumption DEF PyIpcAssumption, Handshake, Attached, HandedOut, Serving,
         hostVars, callVars, ipcVars, rnVars, chanVars, histVars
<1>. USE DEF TypeOK
<1>1. CASE IpcSetup
  BY <1>1 DEF IpcSetup
<1>2. CASE SpawnRunner
  BY <1>2 DEF SpawnRunner
<1>3. CASE SpawnFails
  BY <1>3 DEF SpawnFails
<1>4. CASE ReadyReplied
  BY <1>4 DEF ReadyReplied
<1>5. CASE ObserveExit
  BY <1>5 DEF ObserveExit
<1>6. CASE GraceExpires
  BY <1>6 DEF GraceExpires
<1>7. CASE DropNode
  BY <1>7 DEF DropNode
<1>8. CASE InstallHook
  BY <1>8 DEF InstallHook
<1>. QED
  BY <1>1, <1>2, <1>3, <1>4, <1>5, <1>6, <1>7, <1>8 DEF Create

(* The callers. *)
LEMMA HandshakeCaller ==
  ASSUME TypeOK, Handshake, NEW c \in Calls, Submit(c) \/ Cancel(c) \/ CallerStep(c)
  PROVE  Handshake'
<1>. USE PyIpcAssumption DEF PyIpcAssumption, Handshake, Attached, HandedOut, Serving,
         hostVars, callVars, ipcVars, rnVars, chanVars, histVars
<1>. USE DEF TypeOK
<1>1. CASE Submit(c)
  BY <1>1 DEF Submit
<1>2. CASE Cancel(c)
  BY <1>2 DEF Cancel
<1>3. CASE Enqueue(c)
  BY <1>3 DEF Enqueue
<1>4. CASE TakeFrame(c)
  BY <1>4 DEF TakeFrame
<1>5. CASE StreamDone(c)
  BY <1>5 DEF StreamDone
<1>. QED
  BY <1>1, <1>2, <1>3, <1>4, <1>5 DEF CallerStep

(* The IPC thread. *)
LEMMA HandshakeIpcThread ==
  ASSUME TypeOK, Handshake, IpcThread
  PROVE  Handshake'
<1>. USE PyIpcAssumption DEF PyIpcAssumption, Handshake, Attached, HandedOut, Serving,
         hostVars, callVars, ipcVars, rnVars, chanVars, histVars
<1>. USE DEF TypeOK
<1>1. CASE TakeReadyCommand
  BY <1>1 DEF TakeReadyCommand
<1>2. CASE PollReady
  BY <1>2 DEF PollReady, IsReady
<1>3. CASE ReadyGivesUp
  BY <1>3 DEF ReadyGivesUp
<1>4. CASE BeginTurn
  BY <1>4 DEF BeginTurn
<1>5. CASE BeginFails
  BY <1>5 DEF BeginFails, Reply, Failure
<1>6. CASE PollControl
  BY <1>6 DEF PollControl
<1>7. CASE RecvRound
  BY <1>7 DEF RecvRound, TakeOutput
<1>8. CASE RecvMulti
  BY <1>8 DEF RecvMulti, TakeOutput
<1>9. CASE RecvStream
  BY <1>9 DEF RecvStream, TakeOutput
<1>10. CASE Forward
  BY <1>10 DEF Forward
<1>11. CASE ConsumerGone
  BY <1>11 DEF ConsumerGone
<1>12. CASE RecvEnd
  BY <1>12 DEF RecvEnd, EndTurn, Reply, Outcomes
<1>13. CASE RecvNothing
  BY <1>13 DEF RecvNothing
<1>14. CASE RecvFault
  BY <1>14 DEF RecvFault, EndTurn, Reply, Failure
<1>15. CASE IpcExit
  BY <1>15 DEF IpcExit
<1>. QED
  BY <1>1, <1>2, <1>3, <1>4, <1>5, <1>6, <1>7, <1>8, <1>9, <1>10, <1>11, <1>12, <1>13, <1>14, <1>15 DEF IpcThread

(* No message the runner publishes while it starts or works reads READY. *)
LEMMA NoteIsNotReady ==
  ASSUME TypeOK, RunnerNote
  PROVE  \A i \in 1 .. Len(control') :
           control'[i] = Ready => \E k \in 1 .. Len(control) : control[k] = Ready
<1>. DEFINE note == IF rn = "busy" THEN turn ELSE Progress
<1>1. note \in Calls \cup {Ready, Progress} /\ note # Ready
  BY PyIpcAssumption DEF PyIpcAssumption, TypeOK, RunnerNote
<1>2. control' = Push(control, note)
  BY DEF RunnerNote
<1>3. control \in Seq(Calls \cup {Ready, Progress})
  BY DEF TypeOK
<1>. HIDE DEF note
<1>4. Shifted(control, note, control')
  BY <1>1, <1>2, <1>3, PushProperties
<1>5. \A i \in 1 .. Len(control') :
        control'[i] = note \/ \E k \in 1 .. Len(control) : control'[i] = control[k]
  BY <1>4, ShiftedMembers
<1>. QED
  BY <1>1, <1>5

(* The runner. *)
LEMMA HandshakeRunner ==
  ASSUME TypeOK, Handshake, RunnerWork \/ RunnerDies
  PROVE  Handshake'
<1>. USE PyIpcAssumption DEF PyIpcAssumption, Handshake, Attached, HandedOut, Serving,
         hostVars, callVars, ipcVars, rnVars, chanVars, histVars
<1>. USE DEF TypeOK
<1>1. CASE RunnerReady
  BY <1>1 DEF RunnerReady
<1>2. CASE RunnerNote
  <2>1. \A i \in 1 .. Len(control') :
          control'[i] = Ready => \E k \in 1 .. Len(control) : control[k] = Ready
    BY <1>2, NoteIsNotReady
  <2>2. UNCHANGED <<hostVars, callVars, ipcVars, rnVars>>
    BY <1>2 DEF RunnerNote
  <2>. QED
    BY <2>1, <2>2
<1>3. CASE RunnerTake
  BY <1>3 DEF RunnerTake
<1>4. CASE RunnerEmit
  BY <1>4 DEF RunnerEmit
<1>5. CASE RunnerEnd
  BY <1>5 DEF RunnerEnd
<1>6. CASE RunnerDies
  BY <1>6 DEF RunnerDies
<1>. QED
  BY <1>1, <1>2, <1>3, <1>4, <1>5, <1>6 DEF RunnerWork

(* Every step keeps the handshake invariant.                                 *)
LEMMA HandshakeStep == TypeOK /\ Handshake /\ [Next]_vars => Handshake'
BY HandshakeStutter, HandshakeHost, HandshakeCaller, HandshakeIpcThread, HandshakeRunner
   DEF Next

-----------------------------------------------------------------------------
(* Type correctness and the handshake hold together: that the runner is      *)
(* idle when create() spawns it is what keeps its type.                      *)
THEOREM HandshakeCorrect == Spec => [](TypeOK /\ Handshake)
<1>1. Init => TypeOK /\ Handshake
  BY TypeInit, HandshakeInit
<1>2. TypeOK /\ Handshake /\ [Next]_vars => (TypeOK /\ Handshake)'
  BY TypeStep, HandshakeStep
<1>. QED
  BY <1>1, <1>2, PTL DEF Spec

(* Every variable stays within its type: whatever the interleaving, the IPC  *)
(* thread serves a call exactly while it is in a turn, and the runner        *)
(* processes one exactly while it is busy.                                   *)
THEOREM TypeCorrect == Spec => []TypeOK
BY HandshakeCorrect, PTL

(* No request is published before the runner has attached, for any number of *)
(* calls and any capacity (python_ipc.rs:550).                               *)
THEOREM NoDataBeforeReady == Spec => []ReadyBeforeData
<1>1. TypeOK /\ Handshake => ReadyBeforeData
  BY DEF TypeOK, Handshake, ReadyBeforeData, HandedOut, Attached
<1>. QED
  BY <1>1, HandshakeCorrect, PTL

-----------------------------------------------------------------------------
(* The command queue *)

(* What a step does to the command queue: nothing, or it adds WaitForReady,  *)
(* adds the command of a call that was sending it, or removes the oldest.    *)
QueueAdds(x) ==
  /\ queue' \in Seq(Calls \cup {WaitForReady})
  /\ Len(queue') = Len(queue) + 1
  /\ \A i \in 1 .. Len(queue) : queue'[i] = queue[i]
  /\ queue'[Len(queue) + 1] = x
QueueRemoves(x) ==
  /\ queue' \in Seq(Calls \cup {WaitForReady})
  /\ Len(queue) \in Nat \ {0}
  /\ Len(queue') = Len(queue) - 1
  /\ queue[1] = x
  /\ \A i \in 1 .. Len(queue') : queue'[i] = queue[i + 1]

(* A command queued goes behind all the others. *)
LEMMA Queued ==
  ASSUME TypeOK, NEW x \in Calls \cup {WaitForReady}, queue' = Append(queue, x)
  PROVE  Len(queue) \in Nat /\ QueueAdds(x)
BY AppendProperties, LenProperties DEF TypeOK, QueueAdds

(* A command taken is the oldest. *)
LEMMA Dequeued ==
  ASSUME TypeOK, queue # <<>>, queue' = Tail(queue)
  PROVE  /\ Head(queue) \in Calls \cup {WaitForReady}
         /\ QueueRemoves(Head(queue))
BY HeadTailProperties, EmptySeq DEF TypeOK, QueueRemoves

-----------------------------------------------------------------------------
(* WaitForReady is answered once *)

(* Nothing is queued before create(). *)
LEMMA ReadyOnceInit == Init => ReadyOnce
BY DEF Init, ReadyOnce, HandedOut

(* create(), the drop of the handle and the hook. *)
LEMMA ReadyOnceHost ==
  ASSUME TypeOK, Handshake, ReadyOnce, Create \/ DropNode \/ InstallHook
  PROVE  ReadyOnce'
<1>. USE DEF ReadyOnce, HandedOut, callVars, ipcVars, rnVars, chanVars, histVars
<1>1. CASE IpcSetup
  BY <1>1 DEF IpcSetup, Handshake
<1>2. CASE SpawnRunner
  <2>1. QueueAdds(WaitForReady) /\ Len(queue) = 0
    BY <1>2, Queued DEF SpawnRunner
  <2>2. /\ host = "spawn" /\ host' = "await" /\ ready = "none"
        /\ pc \in {"setup", "idle", "exit"} /\ UNCHANGED <<ready, pc>>
    BY <1>2 DEF SpawnRunner
  <2>3. \A i \in 1 .. Len(queue') : i = 1
    BY <2>1 DEF QueueAdds
  <2>. QED
    BY <2>2, <2>3
<1>3. CASE SpawnFails
  BY <1>3 DEF SpawnFails
<1>4. CASE ReadyReplied
  BY <1>4 DEF ReadyReplied
<1>5. CASE ObserveExit
  BY <1>5 DEF ObserveExit
<1>6. CASE GraceExpires
  BY <1>6 DEF GraceExpires
<1>7. CASE DropNode
  BY <1>7 DEF DropNode
<1>8. CASE InstallHook
  BY <1>8 DEF InstallHook
<1>. QED
  BY <1>1, <1>2, <1>3, <1>4, <1>5, <1>6, <1>7, <1>8 DEF Create

(* The callers: they add commands of calls only, once the node is theirs. *)
LEMMA ReadyOnceCaller ==
  ASSUME TypeOK, Handshake, ReadyOnce, NEW c \in Calls, Submit(c) \/ Cancel(c) \/ CallerStep(c)
  PROVE  ReadyOnce'
<1>1. CASE UNCHANGED <<hostVars, queue, pc>>
  BY <1>1 DEF ReadyOnce, HandedOut, hostVars
<1>2. CASE Enqueue(c)
  <2>1. Len(queue) \in Nat /\ QueueAdds(c)
    BY <1>2, Queued DEF Enqueue
  <2>2. c # WaitForReady /\ host \notin {"setup", "spawn"}
    BY <1>2, PyIpcAssumption DEF PyIpcAssumption, Handshake, Enqueue, HandedOut, TypeOK
  <2>3. \A i \in 1 .. Len(queue') :
          queue'[i] = WaitForReady => i \in 1 .. Len(queue) /\ queue[i] = WaitForReady
    BY <2>1, <2>2 DEF QueueAdds
  <2>4. UNCHANGED <<host, ready, pc>>
    BY <1>2 DEF Enqueue, hostVars
  <2>. QED
    BY <2>2, <2>3, <2>4 DEF ReadyOnce, HandedOut
<1>. QED
  BY <1>1, <1>2 DEF CallerStep, Submit, Cancel, TakeFrame, StreamDone, ipcVars

(* A command taken off the queue leaves WaitForReady at most once in it, and *)
(* not at all when it was WaitForReady itself.                               *)
LEMMA ReadyOnceDequeued ==
  ASSUME ReadyOnce, NEW x, QueueRemoves(x)
  PROVE  \A i \in 1 .. Len(queue') : queue'[i] = WaitForReady =>
           /\ x # WaitForReady
           /\ ready = "none" /\ pc # "waitReady"
           /\ \A j \in 1 .. Len(queue') : queue'[j] = WaitForReady => j = i
<1>. SUFFICES ASSUME NEW i \in 1 .. Len(queue'), queue'[i] = WaitForReady
              PROVE  /\ x # WaitForReady
                     /\ ready = "none" /\ pc # "waitReady"
                     /\ \A j \in 1 .. Len(queue') : queue'[j] = WaitForReady => j = i
  OBVIOUS
<1>1. /\ i + 1 \in 1 .. Len(queue) /\ queue[i + 1] = WaitForReady
      /\ 1 \in 1 .. Len(queue)
  BY DEF QueueRemoves
<1>2. /\ ready = "none" /\ pc # "waitReady"
      /\ \A j \in 1 .. Len(queue) : queue[j] = WaitForReady => j = i + 1
  BY <1>1 DEF ReadyOnce
<1>3. x # WaitForReady
  BY <1>1, <1>2 DEF QueueRemoves
<1>4. ASSUME NEW j \in 1 .. Len(queue'), queue'[j] = WaitForReady PROVE j = i
  BY <1>2, <1>4 DEF QueueRemoves
<1>. QED
  BY <1>2, <1>3, <1>4

(* The IPC thread: WaitForReady leaves the queue when it begins to wait. *)
LEMMA ReadyOnceIpcThread ==
  ASSUME TypeOK, Handshake, ReadyOnce, IpcThread
  PROVE  ReadyOnce'
<1>1. CASE TakeReadyCommand
  <2>1. Head(queue) = WaitForReady /\ queue # <<>> /\ pc = "idle" /\ pc' = "waitReady"
    BY <1>1 DEF TakeReadyCommand
  <2>2. QueueRemoves(WaitForReady)
    BY <1>1, <2>1, Dequeued DEF TakeReadyCommand
  <2>3. \A i \in 1 .. Len(queue') : queue'[i] # WaitForReady
    BY <2>2, ReadyOnceDequeued
  <2>4. ready = "none" /\ host \notin {"setup", "spawn"}
    BY <2>1, <2>2 DEF ReadyOnce, QueueRemoves
  <2>5. UNCHANGED <<host, ready>>
    BY <1>1 DEF TakeReadyCommand, hostVars
  <2>. QED
    BY <2>1, <2>3, <2>4, <2>5 DEF ReadyOnce, HandedOut
<1>2. CASE PollReady
  BY <1>2 DEF PollReady, ReadyOnce, HandedOut
<1>3. CASE ReadyGivesUp
  BY <1>3 DEF ReadyGivesUp, ReadyOnce, HandedOut
<1>4. CASE BeginTurn \/ BeginFails
  <2>1. /\ queue # <<>> /\ queue' = Tail(queue)
        /\ pc = "idle" /\ pc' \in {"idle", "poll"} /\ UNCHANGED <<host, ready>>
    BY <1>4 DEF BeginTurn, BeginFails, hostVars
  <2>2. QueueRemoves(Head(queue))
    BY <2>1, Dequeued
  <2>3. host \notin {"setup", "spawn"}
    BY <2>1 DEF ReadyOnce
  <2>. QED
    BY <2>1, <2>2, <2>3, ReadyOnceDequeued DEF ReadyOnce, HandedOut
<1>5. CASE PollControl \/ RecvRound \/ RecvMulti \/ RecvStream \/ Forward
           \/ ConsumerGone \/ RecvEnd \/ RecvNothing \/ RecvFault
  <2>1. Serving /\ pc' # "waitReady" /\ UNCHANGED <<host, ready, queue>>
    BY <1>5 DEF PollControl, TakeOutput, RecvRound, RecvMulti, RecvStream, Forward,
       ConsumerGone, RecvEnd, RecvNothing, RecvFault, EndTurn, Serving, hostVars
  <2>. QED
    BY <2>1 DEF ReadyOnce, Handshake, HandedOut, Serving
<1>6. CASE IpcExit
  BY <1>6 DEF IpcExit, ReadyOnce, HandedOut, hostVars
<1>. QED
  BY <1>1, <1>2, <1>3, <1>4, <1>5, <1>6 DEF IpcThread

(* Every step keeps it; the runner and a stuttering step touch none of it. *)
LEMMA ReadyOnceStep == TypeOK /\ Handshake /\ ReadyOnce /\ [Next]_vars => ReadyOnce'
<1>1. ASSUME ReadyOnce, UNCHANGED <<hostVars, queue, pc>> PROVE ReadyOnce'
  BY <1>1 DEF ReadyOnce, HandedOut, hostVars
<1>2. RunnerWork \/ RunnerDies \/ UNCHANGED vars => UNCHANGED <<hostVars, queue, pc>>
  BY DEF RunnerWork, RunnerReady, RunnerNote, RunnerTake, RunnerEmit, RunnerEnd, RunnerDies,
     vars, ipcVars
<1>. QED
  BY <1>1, <1>2, ReadyOnceHost, ReadyOnceCaller, ReadyOnceIpcThread DEF Next

-----------------------------------------------------------------------------
(* A command is queued once and served once *)

(* A call whose command is added is queued; the others are as they were. *)
LEMMA AddsInQueue ==
  ASSUME NEW x, Len(queue) \in Nat, QueueAdds(x)
  PROVE  /\ \A c \in Calls : InQueue(c)' <=> InQueue(c) \/ c = x
         /\ Distinct /\ (x \in Calls => ~InQueue(x)) => Distinct'
<1>. USE DEF QueueAdds
<1>1. ASSUME NEW c \in Calls PROVE InQueue(c)' <=> InQueue(c) \/ c = x
  <2>1. ASSUME InQueue(c) PROVE InQueue(c)'
    <3>1. PICK i \in 1 .. Len(queue) : queue[i] = c
      BY <2>1 DEF InQueue
    <3>2. i \in 1 .. Len(queue') /\ queue'[i] = c
      BY <3>1
    <3>. QED
      BY <3>2 DEF InQueue
  <2>2. ASSUME c = x PROVE InQueue(c)'
    BY <2>2 DEF InQueue
  <2>3. ASSUME InQueue(c)', c # x PROVE InQueue(c)
    BY <2>3 DEF InQueue
  <2>. QED
    BY <2>1, <2>2, <2>3
<1>2. ASSUME Distinct, x \in Calls => ~InQueue(x) PROVE Distinct'
  <2>. SUFFICES ASSUME NEW i \in 1 .. Len(queue'), NEW j \in 1 .. Len(queue'),
                       queue'[i] \in Calls, queue'[j] = queue'[i]
                PROVE  j = i
    BY DEF Distinct
  <2>1. CASE i \in 1 .. Len(queue) /\ j \in 1 .. Len(queue)
    BY <1>2, <2>1 DEF Distinct
  <2>2. CASE i = Len(queue) + 1 \/ j = Len(queue) + 1
    BY <1>2, <2>2 DEF InQueue
  <2>. QED
    BY <2>1, <2>2
<1>. QED
  BY <1>1, <1>2

(* A call whose command is taken leaves the queue, the others stay. *)
LEMMA RemovesInQueue ==
  ASSUME NEW x, QueueRemoves(x)
  PROVE  /\ x \in Calls => InQueue(x)
         /\ \A c \in Calls : InQueue(c)' => InQueue(c)
         /\ \A c \in Calls : InQueue(c) /\ c # x => InQueue(c)'
         /\ Distinct => Distinct' /\ (x \in Calls => ~InQueue(x)')
<1>. USE DEF QueueRemoves
<1>1. ASSUME NEW c \in Calls, InQueue(c)' PROVE InQueue(c)
  <2>1. PICK i \in 1 .. Len(queue') : queue'[i] = c
    BY <1>1 DEF InQueue
  <2>2. i + 1 \in 1 .. Len(queue) /\ queue[i + 1] = c
    BY <2>1
  <2>. QED
    BY <2>2 DEF InQueue
<1>2. ASSUME NEW c \in Calls, InQueue(c), c # x PROVE InQueue(c)'
  <2>1. PICK i \in 1 .. Len(queue) : queue[i] = c
    BY <1>2 DEF InQueue
  <2>2. i - 1 \in 1 .. Len(queue') /\ queue'[i - 1] = c
    BY <1>2, <2>1
  <2>. QED
    BY <2>2 DEF InQueue
<1>3. ASSUME Distinct PROVE Distinct'
  <2>. SUFFICES ASSUME NEW i \in 1 .. Len(queue'), NEW j \in 1 .. Len(queue'),
                       queue'[i] \in Calls, queue'[j] = queue'[i]
                PROVE  j = i
    BY DEF Distinct
  <2>1. i + 1 \in 1 .. Len(queue) /\ j + 1 \in 1 .. Len(queue)
    OBVIOUS
  <2>2. j + 1 = i + 1
    BY <1>3, <2>1 DEF Distinct
  <2>. QED
    BY <2>2
<1>4. ASSUME Distinct, x \in Calls, InQueue(x)' PROVE FALSE
  <2>1. PICK i \in 1 .. Len(queue') : queue'[i] = x
    BY <1>4 DEF InQueue
  <2>2. 1 \in 1 .. Len(queue) /\ i + 1 \in 1 .. Len(queue) /\ queue[i + 1] = queue[1]
    BY <2>1
  <2>3. i + 1 = 1
    BY <1>4, <2>2 DEF Distinct
  <2>. QED
    BY <2>3
<1>. QED
  BY <1>1, <1>2, <1>3, <1>4 DEF InQueue

(* A reply settles a waiting call and changes no other. *)
LEMMA ReplySettles ==
  ASSUME TypeOK, NEW c \in Calls, NEW r, Reply(c, r)
  PROVE  /\ \A d \in Calls : d # c => call'[d] = call[d]
         /\ call'[c] = IF call[c] = "waiting" THEN r ELSE call[c]
BY DEF Reply, TypeOK

(* No call is queued or served at first. *)
LEMMA AtMostOnceInit == Init => AtMostOnce
BY PyIpcAssumption DEF PyIpcAssumption, Init, AtMostOnce, Distinct, InQueue

(* Steps that leave the queue, the thread's call and abandoned alone: a call *)
(* not queued and not served changes freely, but never back to sending.      *)
LEMMA AtMostOnceKept ==
  ASSUME TypeOK, AtMostOnce, UNCHANGED <<queue, cur, abandoned>>,
         \A c \in Calls :
           \/ call'[c] = call[c]
           \/ call[c] = "new"
           \/ call'[c] = "cancelled"
           \/ call[c] \in {"closed", "broken"} /\ call'[c] \in {"ok", "err"}
  PROVE  AtMostOnce'
<1>1. \A c \in Calls : InQueue(c)' <=> InQueue(c)
  BY DEF InQueue
<1>2. Distinct'
  BY DEF AtMostOnce, Distinct
<1>3. ASSUME NEW c \in Calls, InQueue(c)' \/ cur' = c
      PROVE  call'[c] \in {"waiting", "cancelled"}
  BY <1>1, <1>3 DEF AtMostOnce
<1>4. ASSUME NEW c \in abandoned'
      PROVE  ~InQueue(c)' /\ cur' # c /\ call'[c] \notin {"new", "sending"}
  <2>1. c \in Calls /\ c \in abandoned
    BY <1>4 DEF TypeOK
  <2>. QED
    BY <1>1, <2>1 DEF AtMostOnce
<1>5. \A c \in Calls : InQueue(c)' => cur' # c
  BY <1>1 DEF AtMostOnce
<1>. QED
  BY <1>2, <1>3, <1>4, <1>5 DEF AtMostOnce

(* create(): WaitForReady is no call's command. *)
LEMMA AtMostOnceSpawn ==
  ASSUME TypeOK, AtMostOnce, SpawnRunner
  PROVE  AtMostOnce'
<1>1. Len(queue) \in Nat /\ QueueAdds(WaitForReady)
  BY Queued DEF SpawnRunner
<1>2. WaitForReady \notin Calls /\ abandoned \subseteq Calls
  BY PyIpcAssumption DEF PyIpcAssumption, TypeOK
<1>3. UNCHANGED <<call, cur, abandoned>>
  BY DEF SpawnRunner, callVars, histVars
<1>4. (\A c \in Calls : InQueue(c)' <=> InQueue(c)) /\ Distinct'
  BY <1>1, <1>2, AddsInQueue DEF AtMostOnce
<1>. QED
  BY <1>2, <1>3, <1>4 DEF AtMostOnce

(* A caller queues its command while it is still sending. *)
LEMMA AtMostOnceEnqueue ==
  ASSUME TypeOK, AtMostOnce, NEW c \in Calls, Enqueue(c)
  PROVE  AtMostOnce'
<1>1. Len(queue) \in Nat /\ QueueAdds(c)
  BY Queued DEF Enqueue
<1>2. /\ call[c] = "sending" /\ call' = [call EXCEPT ![c] = "waiting"]
      /\ UNCHANGED <<cur, abandoned>>
  BY DEF Enqueue, histVars
<1>3. abandoned \subseteq Calls /\ call'[c] = "waiting" /\ \A d \in Calls \ {c} : call'[d] = call[d]
  BY <1>2 DEF TypeOK
<1>4. ~InQueue(c) /\ cur # c /\ c \notin abandoned
  BY <1>2 DEF AtMostOnce
<1>5. (\A d \in Calls : InQueue(d)' <=> InQueue(d) \/ d = c) /\ Distinct'
  BY <1>1, <1>4, AddsInQueue DEF AtMostOnce
<1>. QED
  BY <1>2, <1>3, <1>4, <1>5 DEF AtMostOnce

(* The command taken off the queue is a call's, waiting or given up. *)
LEMMA Taken ==
  ASSUME TypeOK, AtMostOnce, queue # <<>>, Head(queue) # WaitForReady, queue' = Tail(queue)
  PROVE  \E x \in Calls :
           /\ x = Head(queue)
           /\ call[x] \in {"waiting", "cancelled"}
           /\ InQueue(x) /\ ~InQueue(x)'
           /\ cur # x /\ x \notin abandoned
           /\ Distinct'
           /\ \A c \in Calls : InQueue(c)' => InQueue(c)
           /\ \A c \in Calls : InQueue(c) /\ c # x => InQueue(c)'
<1>1. PICK x \in Calls : x = Head(queue) /\ QueueRemoves(x)
  BY Dequeued
<1>2. /\ InQueue(x) /\ ~InQueue(x)' /\ Distinct'
      /\ \A c \in Calls : InQueue(c)' => InQueue(c)
      /\ \A c \in Calls : InQueue(c) /\ c # x => InQueue(c)'
  BY <1>1, RemovesInQueue DEF AtMostOnce
<1>3. call[x] \in {"waiting", "cancelled"} /\ cur # x /\ x \notin abandoned
  BY <1>2 DEF AtMostOnce
<1>. QED
  BY <1>1, <1>2, <1>3

(* A turn begins with the command taken off the queue, or fails with it. *)
LEMMA AtMostOnceBegin ==
  ASSUME TypeOK, AtMostOnce, BeginTurn \/ BeginFails
  PROVE  AtMostOnce'
<1>1. /\ queue # <<>> /\ Head(queue) # WaitForReady /\ queue' = Tail(queue)
      /\ pc = "idle" /\ UNCHANGED abandoned
  BY DEF BeginTurn, BeginFails, histVars
<1>2. PICK x \in Calls :
        /\ x = Head(queue) /\ x \notin abandoned
        /\ call[x] \in {"waiting", "cancelled"}
        /\ ~InQueue(x)' /\ Distinct'
        /\ \A c \in Calls : InQueue(c)' => InQueue(c)
  BY <1>1, Taken
<1>3. cur = None /\ None \notin Calls /\ abandoned \subseteq Calls
  BY <1>1, PyIpcAssumption DEF PyIpcAssumption, TypeOK, Serving
<1>4. \/ cur' = x /\ call' = call
      \/ /\ cur' = cur
         /\ \A c \in Calls : c # x => call'[c] = call[c]
         /\ call'[x] \in {"err", "broken", call[x]}
  <2>1. CASE BeginTurn
    BY <2>1, <1>2 DEF BeginTurn, callVars
  <2>2. CASE BeginFails
    <3>1. PICK r \in {"err", "broken"} : Reply(x, r)
      BY <2>2, <1>2 DEF BeginFails, Failure
    <3>. QED
      BY <2>2, <3>1, <1>2, ReplySettles DEF BeginFails
  <2>. QED
    BY <2>1, <2>2
<1>5. \A c \in Calls : InQueue(c)' \/ cur' = c => call'[c] \in {"waiting", "cancelled"}
  BY <1>2, <1>3, <1>4 DEF AtMostOnce
<1>6. \A c \in Calls : InQueue(c)' => cur' # c
  BY <1>2, <1>3, <1>4
<1>7. \A c \in abandoned' : ~InQueue(c)' /\ cur' # c /\ call'[c] \notin {"new", "sending"}
  BY <1>1, <1>2, <1>3, <1>4 DEF AtMostOnce
<1>. QED
  BY <1>2, <1>5, <1>6, <1>7 DEF AtMostOnce

(* A turn ends: the call it served is in no queue. *)
LEMMA AtMostOnceEnd ==
  ASSUME TypeOK, AtMostOnce, RecvEnd \/ RecvFault
  PROVE  AtMostOnce'
<1>1. /\ cur \in Calls /\ cur' = None /\ UNCHANGED queue
      /\ abandoned' = abandoned \/ abandoned' = abandoned \cup {cur}
      /\ None \notin Calls /\ abandoned \subseteq Calls
  BY PyIpcAssumption DEF PyIpcAssumption, TypeOK, Serving, RecvEnd, RecvFault, EndTurn
<1>2. \A c \in Calls : InQueue(c)' <=> InQueue(c)
  BY <1>1 DEF InQueue
<1>3. /\ \A c \in Calls : c # cur => call'[c] = call[c]
      /\ call'[cur] \notin {"new", "sending"}
  <2>1. call[cur] \in {"waiting", "cancelled"}
    BY <1>1 DEF AtMostOnce
  <2>2. PICK r \in {"closed", "ok", "err", "broken"} : Reply(cur, r)
    BY DEF RecvEnd, RecvFault, Outcomes, Failure
  <2>. QED
    BY <1>1, <2>1, <2>2, ReplySettles
<1>4. ~InQueue(cur) /\ cur \notin abandoned
  BY <1>1 DEF AtMostOnce
<1>5. Distinct'
  BY <1>1 DEF AtMostOnce, Distinct
<1>6. \A c \in Calls : InQueue(c)' \/ cur' = c => call'[c] \in {"waiting", "cancelled"}
  BY <1>1, <1>2, <1>3, <1>4 DEF AtMostOnce
<1>7. \A c \in abandoned' : ~InQueue(c)' /\ cur' # c /\ call'[c] \notin {"new", "sending"}
  BY <1>1, <1>2, <1>3, <1>4 DEF AtMostOnce
<1>. QED
  BY <1>1, <1>5, <1>6, <1>7 DEF AtMostOnce

(* WaitForReady is taken off the queue. *)
LEMMA AtMostOnceTakeReady ==
  ASSUME TypeOK, AtMostOnce, TakeReadyCommand
  PROVE  AtMostOnce'
<1>1. QueueRemoves(WaitForReady) /\ WaitForReady \notin Calls /\ abandoned \subseteq Calls
  BY Dequeued, PyIpcAssumption DEF PyIpcAssumption, TypeOK, TakeReadyCommand
<1>2. (\A c \in Calls : InQueue(c)' <=> InQueue(c)) /\ Distinct'
  BY <1>1, RemovesInQueue DEF AtMostOnce
<1>3. UNCHANGED <<call, cur, abandoned>>
  BY DEF TakeReadyCommand, callVars, histVars
<1>. QED
  BY <1>1, <1>2, <1>3 DEF AtMostOnce

(* Every step keeps it. *)
LEMMA AtMostOnceStep == TypeOK /\ AtMostOnce /\ [Next]_vars => AtMostOnce'
<1>. SUFFICES ASSUME TypeOK, AtMostOnce, [Next]_vars PROVE AtMostOnce'
  OBVIOUS
<1>1. CASE SpawnRunner
  BY <1>1, AtMostOnceSpawn
<1>2. ASSUME NEW c \in Calls, Enqueue(c) PROVE AtMostOnce'
  BY <1>2, AtMostOnceEnqueue
<1>3. CASE BeginTurn \/ BeginFails
  BY <1>3, AtMostOnceBegin
<1>4. CASE RecvEnd \/ RecvFault
  BY <1>4, AtMostOnceEnd
<1>5. CASE TakeReadyCommand
  BY <1>5, AtMostOnceTakeReady
<1>6. CASE UNCHANGED <<queue, cur, call, abandoned>>
  BY <1>6, AtMostOnceKept
<1>7. ASSUME NEW c \in Calls, Submit(c) \/ Cancel(c) \/ StreamDone(c) PROVE AtMostOnce'
  <2>1. /\ UNCHANGED <<queue, cur, abandoned>>
        /\ \A d \in Calls : d # c => call'[d] = call[d]
        /\ \/ call[c] = "new"
           \/ call'[c] = "cancelled"
           \/ call[c] \in {"closed", "broken"} /\ call'[c] \in {"ok", "err"}
    BY <1>7 DEF TypeOK, Submit, Cancel, StreamDone, ipcVars, histVars
  <2>. QED
    BY <2>1, AtMostOnceKept
<1>8. \/ IpcSetup \/ SpawnFails \/ ReadyReplied \/ ObserveExit \/ GraceExpires
      \/ DropNode \/ InstallHook
      \/ \E c \in Calls : TakeFrame(c)
      \/ PollReady \/ ReadyGivesUp \/ PollControl \/ RecvRound \/ RecvMulti \/ RecvStream
      \/ Forward \/ ConsumerGone \/ RecvNothing \/ IpcExit
      \/ RunnerWork \/ RunnerDies \/ UNCHANGED vars
      => UNCHANGED <<queue, cur, call, abandoned>>
  BY DEF IpcSetup, SpawnFails, ReadyReplied, ObserveExit, GraceExpires, DropNode, InstallHook,
     TakeFrame, PollReady, ReadyGivesUp, PollControl, RecvRound, RecvMulti, RecvStream,
     Forward, ConsumerGone, RecvNothing, IpcExit, RunnerWork, RunnerReady, RunnerNote,
     RunnerTake, RunnerEmit, RunnerEnd, RunnerDies, vars, callVars, ipcVars, histVars
<1>. QED
  BY <1>1, <1>2, <1>3, <1>4, <1>5, <1>6, <1>7, <1>8 DEF Next, Create, CallerStep, IpcThread

-----------------------------------------------------------------------------
(* No waiting call is forgotten *)

(* No caller waits at first. *)
LEMMA NoLostCallInit == Init => NoLostCall
BY DEF Init, NoLostCall

(* A call that waits after a step waited before, queued or served as before, *)
(* or its own command was queued by the step, or taken off the queue to be   *)
(* served.                                                                   *)
LEMMA NoLostCallStep == TypeOK /\ AtMostOnce /\ NoLostCall /\ [Next]_vars => NoLostCall'
<1>. SUFFICES ASSUME TypeOK, AtMostOnce, NoLostCall, [Next]_vars PROVE NoLostCall'
  OBVIOUS
<1>1. CASE SpawnRunner
  <2>1. Len(queue) \in Nat /\ QueueAdds(WaitForReady) /\ UNCHANGED <<call, cur>>
    BY <1>1, Queued DEF SpawnRunner, callVars
  <2>2. \A c \in Calls : InQueue(c) => InQueue(c)'
    BY <2>1, AddsInQueue
  <2>. QED
    BY <2>1, <2>2 DEF NoLostCall
<1>2. ASSUME NEW c \in Calls, Enqueue(c) PROVE NoLostCall'
  <2>1. Len(queue) \in Nat /\ QueueAdds(c) /\ UNCHANGED cur
    BY <1>2, Queued DEF Enqueue
  <2>2. \A d \in Calls : InQueue(d)' <=> InQueue(d) \/ d = c
    BY <2>1, AddsInQueue
  <2>3. \A d \in Calls : d # c => call'[d] = call[d]
    BY <1>2 DEF Enqueue, TypeOK
  <2>. QED
    BY <2>1, <2>2, <2>3 DEF NoLostCall
<1>3. CASE BeginTurn \/ BeginFails
  <2>1. /\ queue # <<>> /\ Head(queue) # WaitForReady /\ queue' = Tail(queue) /\ pc = "idle"
    BY <1>3 DEF BeginTurn, BeginFails
  <2>2. PICK x \in Calls :
          /\ x = Head(queue)
          /\ \A c \in Calls : InQueue(c) /\ c # x => InQueue(c)'
    BY <2>1, Taken
  <2>3. \A c \in Calls : cur # c
    BY <2>1, PyIpcAssumption DEF PyIpcAssumption, TypeOK, Serving
  <2>4. CASE BeginTurn
    BY <2>2, <2>3, <2>4 DEF BeginTurn, NoLostCall, callVars
  <2>5. CASE BeginFails
    <3>1. PICK r \in {"err", "broken"} : Reply(x, r)
      BY <2>2, <2>5 DEF BeginFails, Failure
    <3>2. call'[x] # "waiting" /\ \A c \in Calls : c # x => call'[c] = call[c]
      BY <3>1, ReplySettles
    <3>. QED
      BY <2>2, <2>3, <3>2 DEF NoLostCall
  <2>. QED
    BY <1>3, <2>4, <2>5
<1>4. CASE RecvEnd \/ RecvFault
  <2>1. cur \in Calls /\ UNCHANGED queue
    BY <1>4 DEF TypeOK, Serving, RecvEnd, RecvFault
  <2>2. PICK r \in {"closed", "ok", "err", "broken"} : Reply(cur, r)
    BY <1>4 DEF RecvEnd, RecvFault, Outcomes, Failure
  <2>3. call'[cur] # "waiting" /\ \A c \in Calls : c # cur => call'[c] = call[c]
    BY <2>1, <2>2, ReplySettles
  <2>. QED
    BY <2>1, <2>3 DEF NoLostCall, InQueue
<1>5. CASE TakeReadyCommand
  <2>1. /\ QueueRemoves(WaitForReady) /\ WaitForReady \notin Calls
        /\ UNCHANGED <<call, cur>>
    BY <1>5, Dequeued, PyIpcAssumption DEF PyIpcAssumption, TakeReadyCommand, callVars
  <2>2. \A c \in Calls : InQueue(c) => InQueue(c)'
    BY <2>1, RemovesInQueue
  <2>. QED
    BY <2>1, <2>2 DEF NoLostCall
<1>6. CASE UNCHANGED <<queue, cur, call>>
  BY <1>6 DEF NoLostCall, InQueue
<1>7. ASSUME NEW c \in Calls, Submit(c) \/ Cancel(c) \/ StreamDone(c) PROVE NoLostCall'
  <2>1. /\ UNCHANGED <<queue, cur>>
        /\ \A d \in Calls : call'[d] = "waiting" => call[d] = "waiting"
    BY <1>7 DEF TypeOK, Submit, Cancel, StreamDone, ipcVars
  <2>. QED
    BY <2>1 DEF NoLostCall, InQueue
<1>8. \/ IpcSetup \/ SpawnFails \/ ReadyReplied \/ ObserveExit \/ GraceExpires
      \/ DropNode \/ InstallHook
      \/ \E c \in Calls : TakeFrame(c)
      \/ PollReady \/ ReadyGivesUp \/ PollControl \/ RecvRound \/ RecvMulti \/ RecvStream
      \/ Forward \/ ConsumerGone \/ RecvNothing \/ IpcExit
      \/ RunnerWork \/ RunnerDies \/ UNCHANGED vars
      => UNCHANGED <<queue, cur, call>>
  BY DEF IpcSetup, SpawnFails, ReadyReplied, ObserveExit, GraceExpires, DropNode, InstallHook,
     TakeFrame, PollReady, ReadyGivesUp, PollControl, RecvRound, RecvMulti, RecvStream,
     Forward, ConsumerGone, RecvNothing, IpcExit, RunnerWork, RunnerReady, RunnerNote,
     RunnerTake, RunnerEmit, RunnerEnd, RunnerDies, vars, callVars, ipcVars
<1>. QED
  BY <1>1, <1>2, <1>3, <1>4, <1>5, <1>6, <1>7, <1>8 DEF Next, Create, CallerStep, IpcThread

-----------------------------------------------------------------------------
(* A call not yet served is untouched *)

Unstarted(c) == call[c] \in {"new", "sending"} \/ InQueue(c)

(* No step makes a call unstarted. *)
LEMMA UnstartedShrinks ==
  ASSUME TypeOK, AtMostOnce, [Next]_vars, NEW c \in Calls, Unstarted(c)'
  PROVE  Unstarted(c)
<1>. USE DEF Unstarted
<1>1. CASE SpawnRunner
  <2>1. Len(queue) \in Nat /\ QueueAdds(WaitForReady) /\ UNCHANGED call /\ c # WaitForReady
    BY <1>1, Queued, PyIpcAssumption DEF PyIpcAssumption, SpawnRunner, callVars
  <2>. QED
    BY <2>1, AddsInQueue
<1>2. ASSUME NEW d \in Calls, Enqueue(d) PROVE Unstarted(c)
  <2>1. Len(queue) \in Nat /\ QueueAdds(d)
    BY <1>2, Queued DEF Enqueue
  <2>2. /\ call[d] = "sending" /\ \A e \in Calls : e # d => call'[e] = call[e]
        /\ InQueue(c)' <=> InQueue(c) \/ c = d
    BY <1>2, <2>1, AddsInQueue DEF Enqueue, TypeOK
  <2>. QED
    BY <2>2
<1>3. CASE BeginTurn \/ BeginFails
  <2>1. /\ queue # <<>> /\ Head(queue) # WaitForReady /\ queue' = Tail(queue)
    BY <1>3 DEF BeginTurn, BeginFails
  <2>2. PICK x \in Calls :
          /\ x = Head(queue) /\ InQueue(x)
          /\ InQueue(c)' => InQueue(c)
    BY <2>1, Taken
  <2>3. c # x => call'[c] = call[c]
    BY <1>3, <2>2 DEF BeginTurn, BeginFails, Reply, TypeOK, callVars
  <2>. QED
    BY <2>2, <2>3
<1>4. CASE RecvEnd \/ RecvFault
  BY <1>4 DEF RecvEnd, RecvFault, Outcomes, Failure, Reply, TypeOK, Serving, InQueue
<1>5. CASE TakeReadyCommand
  <2>1. QueueRemoves(WaitForReady) /\ UNCHANGED call
    BY <1>5, Dequeued DEF TakeReadyCommand, callVars
  <2>. QED
    BY <2>1, RemovesInQueue
<1>6. CASE UNCHANGED <<queue, call>>
  BY <1>6 DEF InQueue
<1>7. ASSUME NEW d \in Calls, Submit(d) \/ Cancel(d) \/ StreamDone(d) PROVE Unstarted(c)
  BY <1>7 DEF Submit, Cancel, StreamDone, TypeOK, InQueue, ipcVars
<1>8. \/ IpcSetup \/ SpawnFails \/ ReadyReplied \/ ObserveExit \/ GraceExpires
      \/ DropNode \/ InstallHook
      \/ \E d \in Calls : TakeFrame(d)
      \/ PollReady \/ ReadyGivesUp \/ PollControl \/ RecvRound \/ RecvMulti \/ RecvStream
      \/ Forward \/ ConsumerGone \/ RecvNothing \/ IpcExit
      \/ RunnerWork \/ RunnerDies \/ UNCHANGED vars
      => UNCHANGED <<queue, call>>
  BY DEF IpcSetup, SpawnFails, ReadyReplied, ObserveExit, GraceExpires, DropNode, InstallHook,
     TakeFrame, PollReady, ReadyGivesUp, PollControl, RecvRound, RecvMulti, RecvStream,
     Forward, ConsumerGone, RecvNothing, IpcExit, RunnerWork, RunnerReady, RunnerNote,
     RunnerTake, RunnerEmit, RunnerEnd, RunnerDies, vars, callVars, ipcVars
<1>. QED
  BY <1>1, <1>2, <1>3, <1>4, <1>5, <1>6, <1>7, <1>8 DEF Next, Create, CallerStep, IpcThread

(* Nothing is emitted or given at first. *)
LEMMA UnservedInit == Init => Unserved
BY DEF Init, Unserved, Untouched

(* What is emitted for a call or given to it touches the served call only,   *)
(* or one whose channel holds a frame.                                       *)
LEMMA UnservedStep ==
  ASSUME TypeOK, AtMostOnce, OneTurn, Unserved, [Next]_vars
  PROVE  Unserved'
<1>. SUFFICES ASSUME NEW c \in Calls, Unstarted(c), Untouched(c) PROVE Untouched(c)'
  BY UnstartedShrinks DEF Unserved, Unstarted
<1>. USE DEF TypeOK
<1>1. cur # c
  BY DEF AtMostOnce, Unstarted
<1>2. CASE RunnerEmit
  <2>1. turn = cur
    BY <1>2 DEF RunnerEmit, OneTurn
  <2>. QED
    BY <1>1, <1>2, <2>1 DEF RunnerEmit, Untouched, callVars
<1>3. ASSUME NEW d \in Calls, TakeFrame(d) PROVE Untouched(c)'
  <2>1. d # c
    BY <1>3 DEF TakeFrame, Untouched
  <2>. QED
    BY <1>3, <2>1 DEF TakeFrame, Untouched, histVars
<1>4. ASSUME NEW d \in Calls, Cancel(d) PROVE Untouched(c)'
  BY <1>4 DEF Cancel, Untouched, histVars
<1>5. CASE Forward
  BY <1>1, <1>5 DEF Forward, Untouched, histVars
<1>6. CASE RecvEnd
  BY <1>1, <1>6 DEF RecvEnd, Untouched
<1>7. CASE UNCHANGED <<emitted, answer, chan>>
  BY <1>7 DEF Untouched
<1>8. \/ Create \/ DropNode \/ InstallHook
      \/ \E d \in Calls : Submit(d) \/ Enqueue(d) \/ StreamDone(d)
      \/ TakeReadyCommand \/ PollReady \/ ReadyGivesUp \/ BeginTurn \/ BeginFails
      \/ PollControl \/ RecvRound \/ RecvMulti \/ RecvStream
      \/ ConsumerGone \/ RecvNothing \/ RecvFault \/ IpcExit
      \/ RunnerReady \/ RunnerNote \/ RunnerTake \/ RunnerEnd \/ RunnerDies \/ UNCHANGED vars
      => UNCHANGED <<emitted, answer, chan>>
  BY DEF Create, IpcSetup, SpawnRunner, SpawnFails, ReadyReplied, ObserveExit, GraceExpires,
     DropNode, InstallHook, Submit, Enqueue, StreamDone, TakeReadyCommand, PollReady,
     ReadyGivesUp, BeginTurn, BeginFails, PollControl, RecvRound, RecvMulti, RecvStream,
     ConsumerGone, RecvNothing, RecvFault, IpcExit, RunnerReady, RunnerNote, RunnerTake,
     RunnerEnd, RunnerDies, vars, callVars, histVars
<1>. QED
  BY <1>2, <1>3, <1>4, <1>5, <1>6, <1>7, <1>8 DEF Next, CallerStep, IpcThread, RunnerWork

-----------------------------------------------------------------------------
(* Turns do not overlap *)

(* What a receive does to the output channel: its oldest sample leaves it.   *)
OutputLoses(f) ==
  /\ output' \in Seq(Frame)
  /\ Len(output) \in Nat \ {0}
  /\ Len(output') = Len(output) - 1
  /\ output[1] = f
  /\ \A i \in 1 .. Len(output') : output'[i] = output[i + 1]

(* A sample received was the oldest. *)
LEMMA Received ==
  ASSUME TypeOK, output # <<>>, output' = Tail(output)
  PROVE  Head(output) \in Frame /\ OutputLoses(Head(output))
BY HeadTailProperties, EmptySeq DEF TypeOK, OutputLoses

(* What the runner emits comes last on the output channel, the sentinel of   *)
(* its turn or a frame numbered after all those before it.                   *)
LEMMA Emitted ==
  ASSUME TypeOK, RunnerEmit \/ RunnerEnd
  PROVE  \E f \in Frame :
           /\ turn \in Calls /\ f.turn = turn
           /\ output' = Push(output, f)
           /\ output' \in Seq(Frame) /\ Len(output) \in Nat
           /\ Shifted(output, f, output')
           /\ \/ RunnerEmit /\ f.n = emitted[turn] + 1 /\ ~IsEnd(f)
              \/ RunnerEnd /\ IsEnd(f)
<1>1. turn \in Calls /\ emitted[turn] \in Nat /\ output \in Seq(Frame)
  BY DEF TypeOK, RunnerEmit, RunnerEnd
<1>2. PICK f \in Frame :
        /\ f.turn = turn
        /\ output' = Push(output, f)
        /\ \/ RunnerEmit /\ f.n = emitted[turn] + 1 /\ ~IsEnd(f)
           \/ RunnerEnd /\ IsEnd(f)
  BY <1>1 DEF Frame, RunnerEmit, RunnerEnd, EndOfInput, IsEnd
<1>. QED
  BY <1>1, <1>2, PushProperties, LenProperties

(* The channels and the runner are empty at first. *)
LEMMA OneTurnInit == Init => OneTurn
BY DEF Init, OneTurn, Serving

(* All but the last sample of a pushed buffer were in it before, in order. *)
LEMMA ShiftedOlder ==
  ASSUME NEW before, NEW last, NEW after, Shifted(before, last, after)
  PROVE  /\ after[Len(after)] = last /\ Len(after) \in Nat \ {0} /\ Len(before) \in Nat
         /\ \E d \in {0, 1} :
              /\ Len(after) = Len(before) + 1 - d
              /\ \A i \in 1 .. Len(after) - 1 :
                   i + d \in 1 .. Len(before) /\ after[i] = before[i + d]
<1>. USE DEF Shifted
<1>1. CASE /\ Len(after) = Len(before) + 1
           /\ \A i \in 1 .. Len(after) - 1 : after[i] = before[i]
  <2>. SUFFICES \A i \in 1 .. Len(after) - 1 :
                  i + 0 \in 1 .. Len(before) /\ after[i] = before[i + 0]
    BY <1>1
  <2>. QED
    BY <1>1
<1>2. CASE /\ Len(after) = Len(before)
           /\ \A i \in 1 .. Len(after) - 1 : after[i] = before[i + 1]
  BY <1>2
<1>. QED
  BY <1>1, <1>2

(* The runner: it takes the request of the turn in progress, emits its       *)
(* frames, and its sentinel last.                                            *)
LEMMA OneTurnRunner ==
  ASSUME TypeOK, OneTurn, RunnerWork \/ RunnerDies
  PROVE  OneTurn'
<1>1. CASE RunnerReady
  BY <1>1 DEF RunnerReady, OneTurn, Serving, ipcVars
<1>2. CASE RunnerNote
  BY <1>2 DEF RunnerNote, OneTurn, Serving, ipcVars, rnVars
<1>3. CASE RunnerTake
  <2>1. input = <<cur>> /\ output = <<>> /\ Serving
    BY <1>3 DEF RunnerTake, OneTurn
  <2>2. Head(input) = cur /\ input' = <<>>
    BY <1>3, <2>1 DEF RunnerTake
  <2>. QED
    BY <1>3, <2>1, <2>2 DEF RunnerTake, OneTurn, Serving, ipcVars
<1>4. CASE RunnerEmit \/ RunnerEnd
  <2>1. /\ Serving /\ turn = cur /\ input = <<>> /\ rn = "busy"
        /\ \A i \in 1 .. Len(output) : output[i].turn = cur /\ ~IsEnd(output[i])
        /\ UNCHANGED <<pc, cur, input, got>>
    BY <1>4 DEF RunnerEmit, RunnerEnd, OneTurn, ipcVars
  <2>2. PICK f \in Frame :
          /\ f.turn = turn
          /\ Shifted(output, f, output')
          /\ \/ RunnerEmit /\ ~IsEnd(f)
             \/ RunnerEnd /\ IsEnd(f)
    BY <1>4, Emitted
  <2>3. /\ output'[Len(output')] = f /\ Len(output') \in Nat \ {0}
        /\ \A i \in 1 .. Len(output') - 1 :
             \E k \in 1 .. Len(output) : output'[i] = output[k]
    BY <2>2, ShiftedOlder
  <2>4. \A i \in 1 .. Len(output') - 1 : output'[i].turn = cur /\ ~IsEnd(output'[i])
    BY <2>1, <2>3
  <2>5. \A i \in 1 .. Len(output') : output'[i].turn = cur
    BY <2>1, <2>2, <2>3, <2>4
  <2>6. \A i \in 1 .. Len(output') : IsEnd(output'[i]) => i = Len(output') /\ IsEnd(f)
    BY <2>3, <2>4
  <2>7. rn' = "busy" => ~IsEnd(f) /\ turn' = cur
    BY <2>1, <2>2 DEF RunnerEmit, RunnerEnd, rnVars
  <2>. QED
    BY <2>1, <2>5, <2>6, <2>7 DEF OneTurn, Serving
<1>5. CASE RunnerDies
  BY <1>5 DEF RunnerDies, OneTurn, Serving, ipcVars
<1>. QED
  BY <1>1, <1>2, <1>3, <1>4, <1>5 DEF RunnerWork

(* The IPC thread: a turn begins on empty channels, and the sentinel it ends *)
(* with leaves them empty.                                                   *)
LEMMA OneTurnIpcThread ==
  ASSUME TypeOK, OneTurn, IpcThread, ~RecvFault
  PROVE  OneTurn'
<1>1. CASE TakeReadyCommand \/ PollReady \/ ReadyGivesUp \/ BeginFails \/ IpcExit
  BY <1>1 DEF TakeReadyCommand, PollReady, ReadyGivesUp, BeginFails, IpcExit,
     OneTurn, Serving, rnVars, chanVars
<1>2. CASE BeginTurn
  <2>1. /\ input = <<>> /\ output = <<>> /\ got = <<>> /\ rn # "busy"
        /\ UNCHANGED <<output, got, rn>> /\ pc' = "poll" /\ cur' = Head(queue)
    BY <1>2 DEF BeginTurn, OneTurn, Serving, rnVars
  <2>2. input' = <<>> \/ input' = <<Head(queue)>>
    BY <1>2, <2>1, PyIpcAssumption DEF PyIpcAssumption, BeginTurn, Publish, Push
  <2>. QED
    BY <2>1, <2>2 DEF OneTurn, Serving
<1>3. CASE PollControl \/ RecvNothing \/ Forward \/ ConsumerGone
  <2>1. /\ Serving /\ Serving' /\ UNCHANGED <<cur, rn, turn, input, output>>
    BY <1>3 DEF PollControl, RecvNothing, Forward, ConsumerGone, Serving, rnVars, chanVars
  <2>. QED
    BY <2>1 DEF OneTurn
<1>4. CASE RecvRound \/ RecvMulti \/ RecvStream
  <2>1. /\ output # <<>> /\ output' = Tail(output)
        /\ Serving /\ Serving' /\ UNCHANGED <<cur, rn, turn, input>>
    BY <1>4 DEF TakeOutput, RecvRound, RecvMulti, RecvStream, Serving, rnVars
  <2>2. /\ Len(output') = Len(output) - 1 /\ Len(output) \in Nat \ {0}
        /\ \A i \in 1 .. Len(output') : i + 1 \in 1 .. Len(output) /\ output'[i] = output[i + 1]
    BY <2>1, Received DEF OutputLoses
  <2>3. /\ input = <<>>
        /\ rn = "busy" => turn = cur
        /\ \A i \in 1 .. Len(output) : output[i].turn = cur
        /\ \A i \in 1 .. Len(output) : IsEnd(output[i]) => i = Len(output) /\ rn # "busy"
    BY <2>1 DEF OneTurn
  <2>4. \A i \in 1 .. Len(output') : IsEnd(output'[i]) => i = Len(output') /\ rn # "busy"
    BY <2>2, <2>3
  <2>5. \A i \in 1 .. Len(output') : output'[i].turn = cur
    BY <2>2, <2>3
  <2>. QED
    BY <2>1, <2>3, <2>4, <2>5 DEF OneTurn
<1>5. CASE RecvEnd
  <2>1. /\ output # <<>> /\ output' = Tail(output) /\ IsEnd(Head(output))
        /\ Serving /\ pc' = "idle" /\ got' = <<>> /\ UNCHANGED <<input, rn>>
    BY <1>5 DEF RecvEnd, EndTurn, Serving, rnVars
  <2>2. OutputLoses(Head(output))
    BY <2>1, Received
  <2>3. 1 \in 1 .. Len(output) /\ IsEnd(output[1])
    BY <2>1, <2>2 DEF OutputLoses
  <2>4. Len(output) = 1 /\ rn # "busy" /\ input = <<>>
    BY <2>1, <2>3 DEF OneTurn
  <2>5. output' = <<>>
    BY <2>2, <2>4, EmptySeq DEF OutputLoses
  <2>. QED
    BY <2>1, <2>4, <2>5 DEF OneTurn, Serving
<1>. QED
  BY <1>1, <1>2, <1>3, <1>4, <1>5 DEF IpcThread

(* Every step keeps it, but a receive error. *)
LEMMA OneTurnStep ==
  ASSUME TypeOK, Handshake, OneTurn, [Next]_vars, ~RecvFault
  PROVE  OneTurn'
<1>1. CASE UNCHANGED <<pc, cur, got, rn, turn, input, output>>
  BY <1>1 DEF OneTurn, Serving
<1>2. CASE IpcSetup \/ SpawnRunner
  BY <1>2 DEF IpcSetup, SpawnRunner, OneTurn, Serving, rnVars, chanVars, Handshake, HandedOut
<1>3. SpawnFails \/ ReadyReplied \/ ObserveExit \/ GraceExpires
      \/ DropNode \/ InstallHook \/ (\E c \in Calls : Submit(c) \/ Cancel(c) \/ CallerStep(c))
      \/ UNCHANGED vars
      => UNCHANGED <<pc, cur, got, rn, turn, input, output>>
  BY DEF SpawnFails, ReadyReplied, ObserveExit, GraceExpires, DropNode, InstallHook, Submit,
     Cancel, CallerStep, Enqueue, TakeFrame, StreamDone, vars, ipcVars, rnVars, chanVars
<1>. QED
  BY <1>1, <1>2, <1>3, OneTurnIpcThread, OneTurnRunner DEF Next, Create

-----------------------------------------------------------------------------
(* What the thread holds fits the mode of the call *)

(* No frame is on its way at first. *)
LEMMA ByModeInit == Init => ByMode
BY DEF Init, ByMode, Serving

(* The mode of a call is fixed before it is queued. *)
LEMMA ByModeCaller ==
  ASSUME TypeOK, AtMostOnce, Unserved, ByMode,
         NEW c \in Calls, Submit(c) \/ Cancel(c) \/ CallerStep(c)
  PROVE  ByMode'
<1>1. UNCHANGED <<pc, cur, got>>
  BY DEF Submit, Cancel, CallerStep, Enqueue, TakeFrame, StreamDone, ipcVars
<1>2. \A d \in Calls : mode'[d] # "stream" => chan'[d] = <<>> /\ call'[d] # "closed"
  <2>1. CASE Submit(c)
    <3>1. chan[c] = <<>> /\ UNCHANGED chan /\ call'[c] \in {"sending", "err"}
      BY <2>1 DEF Submit, Unserved, Untouched, TypeOK
    <3>2. \A d \in Calls : d # c => mode'[d] = mode[d] /\ call'[d] = call[d]
      BY <2>1 DEF Submit, TypeOK
    <3>. QED
      BY <3>1, <3>2 DEF ByMode
  <2>2. CASE Cancel(c)
    BY <2>2 DEF Cancel, ByMode, TypeOK
  <2>3. CASE Enqueue(c)
    BY <2>3 DEF Enqueue, ByMode, TypeOK
  <2>4. CASE TakeFrame(c)
    BY <2>4 DEF TakeFrame, ByMode, TypeOK
  <2>5. CASE StreamDone(c)
    BY <2>5 DEF StreamDone, ByMode, TypeOK
  <2>. QED
    BY <2>1, <2>2, <2>3, <2>4, <2>5 DEF CallerStep
<1>3. Serving => mode'[cur] = mode[cur]
  <2>1. CASE Submit(c)
    <3>1. cur # c
      BY <2>1 DEF Submit, AtMostOnce
    <3>. QED
      BY <2>1, <3>1 DEF Submit, TypeOK
  <2>2. CASE ~Submit(c)
    BY <2>2 DEF Cancel, CallerStep, Enqueue, TakeFrame, StreamDone
  <2>. QED
    BY <2>1, <2>2
<1>. QED
  BY <1>1, <1>2, <1>3 DEF ByMode, Serving

(* The IPC thread: a turn begins with nothing in hand, and keeps the first   *)
(* frame of a round, every frame of a multi, or the one it is forwarding.    *)
LEMMA ByModeIpcThread ==
  ASSUME TypeOK, OneTurn, ByMode, IpcThread
  PROVE  ByMode'
<1>1. CASE TakeReadyCommand \/ PollReady \/ ReadyGivesUp \/ IpcExit
  BY <1>1 DEF TakeReadyCommand, PollReady, ReadyGivesUp, IpcExit, ByMode, Serving, callVars
<1>2. CASE BeginTurn
  BY <1>2, EmptySeq DEF BeginTurn, ByMode, OneTurn, Serving, callVars
<1>3. CASE BeginFails
  <2>1. \A c \in Calls : call'[c] = "closed" => call[c] = "closed"
    BY <1>3 DEF BeginFails, Reply, Failure, TypeOK
  <2>. QED
    BY <1>3, <2>1 DEF BeginFails, ByMode, Serving
<1>4. CASE PollControl \/ RecvNothing
  BY <1>4 DEF PollControl, RecvNothing, ByMode, Serving, callVars
<1>5. CASE RecvRound
  <2>1. Head(output) \in Frame
    BY <1>5, Received DEF RecvRound, TakeOutput
  <2>2. Len(got') <= 1
    BY <1>5, <2>1 DEF RecvRound, TakeOutput, ByMode, Serving
  <2>. QED
    BY <1>5, <2>2 DEF RecvRound, TakeOutput, ByMode, Serving, callVars
<1>6. CASE RecvMulti
  BY <1>6 DEF RecvMulti, TakeOutput, ByMode, Serving, callVars
<1>7. CASE RecvStream
  <2>1. /\ pc = "recv" /\ mode[cur] = "stream" /\ got = <<>>
        /\ UNCHANGED <<callVars, cur>>
        /\ \/ pc' = "poll" /\ got' = got
           \/ pc' = "park" /\ got' = <<Head(output)>>
    BY <1>7 DEF RecvStream, TakeOutput, ByMode, Serving
  <2>2. Len(<<Head(output)>>) = 1 /\ Len(<<>>) = 0
    OBVIOUS
  <2>. QED
    BY <2>1, <2>2 DEF ByMode, Serving, callVars
<1>8. CASE Forward
  <2>1. cur \in Calls /\ mode[cur] = "stream" /\ UNCHANGED <<mode, call, cur>>
    BY <1>8 DEF Forward, ByMode, TypeOK, Serving
  <2>. QED
    BY <1>8, <2>1 DEF Forward, ByMode, TypeOK, Serving
<1>9. CASE ConsumerGone
  BY <1>9 DEF ConsumerGone, ByMode, Serving, callVars
<1>10. CASE RecvEnd
  <2>1. cur \in Calls /\ UNCHANGED <<mode, chan>> /\ ~Serving' /\ pc' # "park"
    BY <1>10 DEF RecvEnd, EndTurn, TypeOK, Serving
  <2>2. PICK r \in Outcomes(cur) : Reply(cur, r)
    BY <1>10 DEF RecvEnd
  <2>3. r = "closed" => mode[cur] = "stream"
    BY DEF Outcomes
  <2>4. \A c \in Calls : call'[c] = "closed" => call[c] = "closed" \/ (c = cur /\ mode[c] = "stream")
    BY <2>1, <2>2, <2>3, ReplySettles
  <2>. QED
    BY <2>1, <2>4 DEF ByMode
<1>11. CASE RecvFault
  <2>1. cur \in Calls /\ UNCHANGED <<mode, chan>> /\ ~Serving' /\ pc' # "park"
    BY <1>11 DEF RecvFault, EndTurn, TypeOK, Serving
  <2>2. \A c \in Calls : call'[c] = "closed" => call[c] = "closed"
    BY <1>11, <2>1 DEF RecvFault, Reply, Failure, TypeOK
  <2>. QED
    BY <2>1, <2>2 DEF ByMode
<1>. QED
  BY <1>1, <1>2, <1>3, <1>4, <1>5, <1>6, <1>7, <1>8, <1>9, <1>10, <1>11 DEF IpcThread

(* Every step keeps it. *)
LEMMA ByModeStep ==
  ASSUME TypeOK, AtMostOnce, OneTurn, Unserved, ByMode, [Next]_vars
  PROVE  ByMode'
<1>1. CASE UNCHANGED <<callVars, pc, cur, got>>
  BY <1>1 DEF ByMode, Serving, callVars
<1>2. CASE IpcSetup
  BY <1>2 DEF IpcSetup, ByMode, Serving, callVars
<1>3. SpawnRunner \/ SpawnFails \/ ReadyReplied \/ ObserveExit \/ GraceExpires
      \/ DropNode \/ InstallHook \/ RunnerWork \/ RunnerDies \/ UNCHANGED vars
      => UNCHANGED <<callVars, pc, cur, got>>
  BY DEF SpawnRunner, SpawnFails, ReadyReplied, ObserveExit, GraceExpires, DropNode,
     InstallHook, RunnerWork, RunnerReady, RunnerNote, RunnerTake, RunnerEmit, RunnerEnd,
     RunnerDies, vars, ipcVars
<1>. QED
  BY <1>1, <1>2, <1>3, ByModeCaller, ByModeIpcThread DEF Next, Create

-----------------------------------------------------------------------------
(* The order of frames, from the runner to the caller *)

(* The frames of a sequence are numbered. *)
LEMMA FramesNumbered ==
  ASSUME NEW s \in Seq(Frame)
  PROVE  Len(s) \in Nat /\ \A i \in 1 .. Len(s) : s[i] \in Frame /\ s[i].n \in Nat
<1>1. Len(s) \in Nat /\ \A i \in 1 .. Len(s) : s[i] \in Frame
  BY LenProperties, ElementOfSeq
<1>2. \A f \in Frame : f.n \in Nat
  BY DEF Frame
<1>. QED
  BY <1>1, <1>2

(* The runner emits a frame numbered above all those of its turn.            *)
LEMMA OrderEmit ==
  ASSUME NEW c, NEW given, NEW channel, NEW held, NEW waiting, NEW waiting2, NEW last \in Nat,
         NEW f, f.n = last + 1,
         \A i \in 1 .. Len(given) : given[i].n \in Nat,
         \A i \in 1 .. Len(channel) : channel[i].n \in Nat,
         \A i \in 1 .. Len(held) : held[i].n \in Nat,
         \A i \in 1 .. Len(waiting) : waiting[i].n \in Nat,
         Shifted(waiting, f, waiting2),
         TurnInOrder(c, given, channel, held, waiting, last)
  PROVE  TurnInOrder(c, given, channel, held, waiting2, last + 1)
<1>1. PICK d \in {0, 1} :
        /\ waiting2[Len(waiting2)] = f /\ Len(waiting2) \in Nat \ {0} /\ Len(waiting) \in Nat
        /\ \A i \in 1 .. Len(waiting2) - 1 :
             i + d \in 1 .. Len(waiting) /\ waiting2[i] = waiting[i + d]
  BY ShiftedOlder
<1>2. /\ UpTo(given, last) /\ UpTo(channel, last) /\ UpTo(held, last) /\ UpTo(waiting, last)
      /\ Below(given, waiting) /\ Below(channel, waiting) /\ Below(held, waiting)
  BY DEF TurnInOrder
<1>3. ASSUME NEW s, Below(s, waiting), UpTo(s, last), \A i \in 1 .. Len(s) : s[i].n \in Nat
      PROVE  Below(s, waiting2) /\ UpTo(s, last + 1)
  <2>1. UpTo(s, last + 1)
    BY <1>3 DEF UpTo
  <2>2. ASSUME NEW i \in 1 .. Len(s), NEW j \in 1 .. Len(waiting2), ~IsEnd(waiting2[j])
        PROVE  s[i].n < waiting2[j].n
    <3>1. CASE j = Len(waiting2)
      BY <1>1, <1>3, <3>1 DEF UpTo
    <3>2. CASE j # Len(waiting2)
      <4>1. j \in 1 .. Len(waiting2) - 1
        BY <1>1, <3>2
      <4>. QED
        BY <1>1, <1>3, <2>2, <4>1 DEF Below
    <3>. QED
      BY <3>1, <3>2
  <2>. QED
    BY <2>1, <2>2 DEF Below
<1>4. UpTo(waiting2, last + 1)
  <2>. SUFFICES ASSUME NEW i \in 1 .. Len(waiting2) PROVE waiting2[i].n <= last + 1
    BY DEF UpTo
  <2>1. CASE i = Len(waiting2)
    BY <1>1, <2>1
  <2>2. CASE i # Len(waiting2)
    <3>1. i \in 1 .. Len(waiting2) - 1
      BY <1>1, <2>2
    <3>. QED
      BY <1>1, <1>2, <3>1 DEF UpTo
  <2>. QED
    BY <2>1, <2>2
<1>5. ASSUME NEW i \in 1 .. Len(waiting2), NEW j \in 1 .. Len(waiting2),
             i < j, ~IsEnd(waiting2[j])
      PROVE  waiting2[i].n < waiting2[j].n
  <2>1. i \in 1 .. Len(waiting2) - 1
    BY <1>1, <1>5
  <2>2. CASE j = Len(waiting2)
    BY <1>1, <1>2, <2>1, <2>2 DEF UpTo
  <2>3. CASE j # Len(waiting2)
    <3>1. j \in 1 .. Len(waiting2) - 1
      BY <1>1, <2>3
    <3>2. /\ i + d \in 1 .. Len(waiting) /\ waiting2[i] = waiting[i + d]
          /\ j + d \in 1 .. Len(waiting) /\ waiting2[j] = waiting[j + d] /\ i + d < j + d
      BY <1>1, <1>5, <2>1, <3>1
    <3>. QED
      BY <1>5, <3>2 DEF TurnInOrder
  <2>. QED
    BY <2>2, <2>3
<1>. QED
  BY <1>2, <1>3, <1>4, <1>5 DEF TurnInOrder

(* The sentinel comes last and is no frame. *)
LEMMA OrderEnd ==
  ASSUME NEW c, NEW given, NEW channel, NEW held, NEW waiting, NEW waiting2, NEW last \in Nat,
         NEW f, f.n = 0,
         Shifted(waiting, f, waiting2),
         TurnInOrder(c, given, channel, held, waiting, last)
  PROVE  TurnInOrder(c, given, channel, held, waiting2, last)
<1>1. PICK d \in {0, 1} :
        /\ waiting2[Len(waiting2)] = f /\ Len(waiting2) \in Nat \ {0} /\ Len(waiting) \in Nat
        /\ \A i \in 1 .. Len(waiting2) - 1 :
             i + d \in 1 .. Len(waiting) /\ waiting2[i] = waiting[i + d]
  BY ShiftedOlder
<1>2. \A j \in 1 .. Len(waiting2) : ~IsEnd(waiting2[j]) => j \in 1 .. Len(waiting2) - 1
  BY <1>1 DEF IsEnd
<1>3. ASSUME NEW s, Below(s, waiting) PROVE Below(s, waiting2)
  BY <1>1, <1>2, <1>3 DEF Below
<1>4. UpTo(waiting2, last)
  <2>. SUFFICES ASSUME NEW i \in 1 .. Len(waiting2) PROVE waiting2[i].n <= last
    BY DEF UpTo
  <2>1. CASE i = Len(waiting2)
    BY <1>1, <2>1
  <2>2. CASE i # Len(waiting2)
    <3>1. i \in 1 .. Len(waiting2) - 1
      BY <1>1, <2>2
    <3>. QED
      BY <1>1, <3>1 DEF UpTo, TurnInOrder
  <2>. QED
    BY <2>1, <2>2
<1>5. ASSUME NEW i \in 1 .. Len(waiting2), NEW j \in 1 .. Len(waiting2),
             i < j, ~IsEnd(waiting2[j])
      PROVE  waiting2[i].n < waiting2[j].n
  <2>1. i \in 1 .. Len(waiting2) - 1 /\ j \in 1 .. Len(waiting2) - 1
    BY <1>1, <1>2, <1>5
  <2>2. /\ i + d \in 1 .. Len(waiting) /\ waiting2[i] = waiting[i + d]
        /\ j + d \in 1 .. Len(waiting) /\ waiting2[j] = waiting[j + d] /\ i + d < j + d
    BY <1>1, <1>5, <2>1
  <2>. QED
    BY <1>5, <2>2 DEF TurnInOrder
<1>. QED
  BY <1>3, <1>4, <1>5 DEF TurnInOrder

(* The oldest sample leaves the output channel: a frame dropped ...          *)
LEMMA OrderDrop ==
  ASSUME NEW c, NEW given, NEW channel, NEW held, NEW waiting, NEW waiting2, NEW last \in Nat,
         Len(waiting) \in Nat \ {0}, Len(waiting2) = Len(waiting) - 1,
         \A i \in 1 .. Len(waiting2) : waiting2[i] = waiting[i + 1],
         TurnInOrder(c, given, channel, held, waiting, last)
  PROVE  TurnInOrder(c, given, channel, held, waiting2, last)
<1>1. \A i \in 1 .. Len(waiting2) : i + 1 \in 1 .. Len(waiting) /\ waiting2[i] = waiting[i + 1]
  OBVIOUS
<1>2. ASSUME NEW s, Below(s, waiting) PROVE Below(s, waiting2)
  BY <1>1, <1>2 DEF Below
<1>3. UpTo(waiting2, last)
  BY <1>1 DEF UpTo, TurnInOrder
<1>4. ASSUME NEW i \in 1 .. Len(waiting2), NEW j \in 1 .. Len(waiting2),
             i < j, ~IsEnd(waiting2[j])
      PROVE  waiting2[i].n < waiting2[j].n
  <2>1. i + 1 < j + 1
    BY <1>4
  <2>. QED
    BY <1>1, <1>4, <2>1 DEF TurnInOrder
<1>. QED
  BY <1>2, <1>3, <1>4 DEF TurnInOrder

(* ... or taken into the thread's hands, behind those it holds.              *)
LEMMA OrderKeep ==
  ASSUME NEW c, NEW given, NEW channel, NEW held \in Seq(Frame), NEW held2,
         NEW waiting, NEW waiting2, NEW last \in Nat,
         Len(waiting) \in Nat \ {0}, Len(waiting2) = Len(waiting) - 1,
         \A i \in 1 .. Len(waiting2) : waiting2[i] = waiting[i + 1],
         waiting[1] \in Frame, waiting[1].turn = c, ~IsEnd(waiting[1]),
         held2 = Append(held, waiting[1]),
         TurnInOrder(c, given, channel, held, waiting, last)
  PROVE  TurnInOrder(c, given, channel, held2, waiting2, last)
<1>. DEFINE f == waiting[1]
<1>1. /\ Len(held) \in Nat /\ Len(held2) = Len(held) + 1 /\ held2[Len(held) + 1] = f
      /\ \A i \in 1 .. Len(held) : held2[i] = held[i] /\ held[i] \in Frame
  BY AppendProperties, LenProperties, ElementOfSeq
<1>2. TurnInOrder(c, given, channel, held, waiting2, last)
  BY OrderDrop
<1>3. ASSUME NEW s, Below(s, waiting) PROVE \A i \in 1 .. Len(s) : s[i].n < f.n
  BY <1>3 DEF Below
<1>4. /\ \A i \in 1 .. Len(given) : given[i].n < f.n
      /\ \A i \in 1 .. Len(channel) : channel[i].n < f.n
      /\ \A i \in 1 .. Len(held) : held[i].n < f.n
  BY <1>3 DEF TurnInOrder
<1>5. f.n <= last
  BY DEF TurnInOrder, UpTo
<1>6. \A j \in 1 .. Len(waiting2) : ~IsEnd(waiting2[j]) => f.n < waiting2[j].n
  <2>. SUFFICES ASSUME NEW j \in 1 .. Len(waiting2), ~IsEnd(waiting2[j])
                PROVE  f.n < waiting2[j].n
    OBVIOUS
  <2>1. 1 \in 1 .. Len(waiting) /\ j + 1 \in 1 .. Len(waiting) /\ 1 < j + 1
    OBVIOUS
  <2>. QED
    BY <2>1 DEF TurnInOrder
<1>. HIDE DEF f
<1>7. \A i \in 1 .. Len(held2) :
        \/ i \in 1 .. Len(held) /\ held2[i] = held[i]
        \/ i = Len(held) + 1 /\ held2[i] = f
  BY <1>1
<1>8. OwnInOrder(c, held2)
  <2>1. \A i \in 1 .. Len(held2) : held2[i].turn = c
    BY <1>2, <1>7 DEF f, TurnInOrder, OwnInOrder
  <2>2. ASSUME NEW i \in 1 .. Len(held2), NEW j \in 1 .. Len(held2), i < j
        PROVE  held2[i].n < held2[j].n
    <3>1. i \in 1 .. Len(held) /\ held2[i] = held[i]
      BY <1>1, <1>7, <2>2
    <3>. QED
      BY <1>2, <1>4, <1>7, <2>2, <3>1 DEF TurnInOrder, OwnInOrder
  <2>. QED
    BY <2>1, <2>2 DEF OwnInOrder
<1>9. /\ \A i \in 1 .. Len(given), j \in 1 .. Len(held2) : given[i].n < held2[j].n
      /\ \A i \in 1 .. Len(channel), j \in 1 .. Len(held2) : channel[i].n < held2[j].n
  BY <1>2, <1>4, <1>7 DEF TurnInOrder
<1>10. Below(held2, waiting2)
  BY <1>2, <1>6, <1>7 DEF TurnInOrder, Below
<1>11. UpTo(held2, last)
  BY <1>2, <1>5, <1>7 DEF TurnInOrder, UpTo
<1>. QED
  BY <1>2, <1>8, <1>9, <1>10, <1>11 DEF TurnInOrder

(* A consumer takes the oldest frame of its channel. *)
LEMMA OrderTake ==
  ASSUME NEW c, NEW given \in Seq(Frame), NEW given2, NEW channel \in Seq(Frame), NEW channel2,
         channel # <<>>, given2 = Append(given, Head(channel)), channel2 = Tail(channel),
         CallInOrder(c, given, channel)
  PROVE  /\ CallInOrder(c, given2, channel2)
         /\ \A held, waiting, last :
              TurnInOrder(c, given, channel, held, waiting, last) =>
              TurnInOrder(c, given2, channel2, held, waiting, last)
<1>. DEFINE f == Head(channel)
<1>1. /\ Len(channel) \in Nat \ {0} /\ f \in Frame /\ f = channel[1]
      /\ Len(channel2) = Len(channel) - 1
      /\ \A i \in 1 .. Len(channel2) : channel2[i] = channel[i + 1]
  BY HeadTailProperties, EmptySeq
<1>2. /\ Len(given) \in Nat /\ Len(given2) = Len(given) + 1 /\ given2[Len(given) + 1] = f
      /\ \A i \in 1 .. Len(given) : given2[i] = given[i]
  BY <1>1, AppendProperties, LenProperties
<1>. HIDE DEF f
<1>3. \A i \in 1 .. Len(given2) :
        \/ i \in 1 .. Len(given) /\ given2[i] = given[i]
        \/ i = Len(given) + 1 /\ given2[i] = f
  BY <1>2
<1>4. /\ \A i \in 1 .. Len(channel2) : i + 1 \in 1 .. Len(channel) /\ channel2[i] = channel[i + 1]
      /\ 1 \in 1 .. Len(channel)
  BY <1>1
<1>5. /\ \A i \in 1 .. Len(given) : given[i].n < f.n
      /\ \A j \in 1 .. Len(channel2) : f.n < channel2[j].n
  <2>1. \A j \in 1 .. Len(channel2) : 1 < j + 1
    BY <1>1
  <2>. QED
    BY <1>1, <1>4, <2>1 DEF CallInOrder, OwnInOrder
<1>6. OwnInOrder(c, given2)
  <2>1. \A i \in 1 .. Len(given2) : given2[i].turn = c
    BY <1>1, <1>3, <1>4 DEF CallInOrder, OwnInOrder
  <2>2. ASSUME NEW i \in 1 .. Len(given2), NEW j \in 1 .. Len(given2), i < j
        PROVE  given2[i].n < given2[j].n
    <3>1. i \in 1 .. Len(given) /\ given2[i] = given[i]
      BY <1>2, <1>3, <2>2
    <3>. QED
      BY <1>3, <1>5, <2>2, <3>1 DEF CallInOrder, OwnInOrder
  <2>. QED
    BY <2>1, <2>2 DEF OwnInOrder
<1>7. OwnInOrder(c, channel2)
  <2>1. \A i, j \in 1 .. Len(channel2) : i < j => i + 1 < j + 1
    BY <1>1
  <2>. QED
    BY <1>4, <2>1 DEF CallInOrder, OwnInOrder
<1>8. \A i \in 1 .. Len(given2), j \in 1 .. Len(channel2) : given2[i].n < channel2[j].n
  BY <1>3, <1>4, <1>5 DEF CallInOrder
<1>9. CallInOrder(c, given2, channel2)
  BY <1>6, <1>7, <1>8 DEF CallInOrder
<1>10. ASSUME NEW held, NEW waiting, NEW last,
              TurnInOrder(c, given, channel, held, waiting, last)
       PROVE  TurnInOrder(c, given2, channel2, held, waiting, last)
  <2>1. /\ \A i \in 1 .. Len(given2), j \in 1 .. Len(held) : given2[i].n < held[j].n
        /\ \A i \in 1 .. Len(channel2), j \in 1 .. Len(held) : channel2[i].n < held[j].n
    BY <1>1, <1>3, <1>4, <1>10 DEF TurnInOrder
  <2>2. Below(given2, waiting) /\ Below(channel2, waiting)
    BY <1>1, <1>3, <1>4, <1>10 DEF TurnInOrder, Below
  <2>3. UpTo(given2, last) /\ UpTo(channel2, last)
    BY <1>1, <1>3, <1>4, <1>10 DEF TurnInOrder, UpTo
  <2>. QED
    BY <1>10, <2>1, <2>2, <2>3 DEF TurnInOrder
<1>. QED
  BY <1>9, <1>10

(* The thread forwards what it holds into the channel. *)
LEMMA OrderForward ==
  ASSUME NEW c, NEW given, NEW channel \in Seq(Frame), NEW channel2,
         NEW held \in Seq(Frame), NEW waiting, NEW last,
         channel2 = channel \o held,
         CallInOrder(c, given, channel),
         TurnInOrder(c, given, channel, held, waiting, last)
  PROVE  /\ CallInOrder(c, given, channel2)
         /\ TurnInOrder(c, given, channel2, <<>>, waiting, last)
<1>1. /\ Len(channel) \in Nat /\ Len(held) \in Nat /\ Len(channel2) = Len(channel) + Len(held)
      /\ \A i \in 1 .. Len(channel) + Len(held) :
           channel2[i] = IF i <= Len(channel) THEN channel[i] ELSE held[i - Len(channel)]
  BY ConcatProperties, LenProperties
<1>2. \A i \in 1 .. Len(channel2) :
        \/ i \in 1 .. Len(channel) /\ channel2[i] = channel[i]
        \/ /\ i > Len(channel) /\ i - Len(channel) \in 1 .. Len(held)
           /\ channel2[i] = held[i - Len(channel)]
  BY <1>1
<1>3. OwnInOrder(c, channel2)
  <2>1. \A i \in 1 .. Len(channel2) : channel2[i].turn = c
    BY <1>2 DEF CallInOrder, TurnInOrder, OwnInOrder
  <2>2. ASSUME NEW i \in 1 .. Len(channel2), NEW j \in 1 .. Len(channel2), i < j
        PROVE  channel2[i].n < channel2[j].n
    <3>1. CASE i \in 1 .. Len(channel) /\ channel2[i] = channel[i]
      BY <1>2, <2>2, <3>1 DEF CallInOrder, TurnInOrder, OwnInOrder
    <3>2. CASE i > Len(channel) /\ i - Len(channel) \in 1 .. Len(held)
               /\ channel2[i] = held[i - Len(channel)]
      <4>1. /\ j - Len(channel) \in 1 .. Len(held) /\ channel2[j] = held[j - Len(channel)]
            /\ i - Len(channel) < j - Len(channel)
        BY <1>1, <1>2, <2>2, <3>2
      <4>. QED
        BY <3>2, <4>1 DEF TurnInOrder, OwnInOrder
    <3>. QED
      BY <1>2, <3>1, <3>2
  <2>. QED
    BY <2>1, <2>2 DEF OwnInOrder
<1>4. \A i \in 1 .. Len(given), j \in 1 .. Len(channel2) : given[i].n < channel2[j].n
  BY <1>2 DEF CallInOrder, TurnInOrder
<1>5. Below(channel2, waiting)
  BY <1>2 DEF TurnInOrder, Below
<1>6. UpTo(channel2, last)
  BY <1>2 DEF TurnInOrder, UpTo
<1>7. CallInOrder(c, given, channel2)
  BY <1>3, <1>4 DEF CallInOrder
<1>8. /\ OwnInOrder(c, <<>>) /\ Below(<<>>, waiting) /\ UpTo(<<>>, last)
      /\ \A s : \A i \in 1 .. Len(s), j \in 1 .. Len(<<>>) : s[i].n < <<>>[j].n
  BY EmptySeq DEF OwnInOrder, Below, UpTo
<1>9. TurnInOrder(c, given, channel2, <<>>, waiting, last)
  BY <1>5, <1>6, <1>8 DEF TurnInOrder
<1>. QED
  BY <1>7, <1>9

(* Nothing is out of order in what is dropped: the frames held, the channel. *)
LEMMA OrderForget ==
  ASSUME NEW c, NEW given, NEW channel, NEW held, NEW waiting, NEW last
  PROVE  /\ CallInOrder(c, given, channel) => CallInOrder(c, given, <<>>)
         /\ TurnInOrder(c, given, channel, held, waiting, last) =>
              /\ TurnInOrder(c, given, <<>>, held, waiting, last)
              /\ TurnInOrder(c, given, channel, <<>>, waiting, last)
<1>1. /\ OwnInOrder(c, <<>>) /\ Below(<<>>, waiting) /\ UpTo(<<>>, last)
      /\ \A s : \A i \in 1 .. Len(s), j \in 1 .. Len(<<>>) : s[i].n < <<>>[j].n
      /\ \A s : \A i \in 1 .. Len(<<>>), j \in 1 .. Len(s) : <<>>[i].n < s[j].n
  BY EmptySeq DEF OwnInOrder, Below, UpTo
<1>. QED
  BY <1>1 DEF CallInOrder, TurnInOrder

(* A turn begins with nothing on the way. *)
LEMMA OrderStart ==
  ASSUME NEW c, NEW last
  PROVE  CallInOrder(c, <<>>, <<>>) /\ TurnInOrder(c, <<>>, <<>>, <<>>, <<>>, last)
BY EmptySeq DEF CallInOrder, TurnInOrder, OwnInOrder, Below, UpTo

-----------------------------------------------------------------------------
(* The frames of a turn stay in order *)

(* No frame is anywhere at first. *)
LEMMA InOrderInit == Init => InOrder
BY OrderStart DEF Init, InOrder, Serving

(* The callers. *)
LEMMA InOrderCaller ==
  ASSUME TypeOK, InOrder, NEW c \in Calls, Submit(c) \/ Cancel(c) \/ CallerStep(c)
  PROVE  InOrder'
<1>1. /\ UNCHANGED <<pc, cur, got, output, emitted>>
      /\ Serving => cur \in Calls
  BY DEF Submit, Cancel, CallerStep, Enqueue, TakeFrame, StreamDone, ipcVars, chanVars, histVars,
     TypeOK
<1>2. CASE UNCHANGED <<answer, chan>>
  BY <1>1, <1>2 DEF InOrder, Serving
<1>3. CASE Cancel(c)
  <2>1. answer' = answer /\ chan' = [chan EXCEPT ![c] = <<>>]
    BY <1>3 DEF Cancel
  <2>2. \A d \in Calls : CallInOrder(d, answer'[d], chan'[d])
    BY <2>1, OrderForget DEF InOrder, TypeOK
  <2>3. Serving => TurnInOrder(cur, answer'[cur], chan'[cur], got, output, emitted[cur])
    BY <1>1, <2>1, OrderForget DEF InOrder, TypeOK
  <2>. QED
    BY <1>1, <2>2, <2>3 DEF InOrder, Serving
<1>4. CASE TakeFrame(c)
  <2>1. /\ answer[c] \in Seq(Frame) /\ chan[c] \in Seq(Frame) /\ chan[c] # <<>>
        /\ answer'[c] = Append(answer[c], Head(chan[c])) /\ chan'[c] = Tail(chan[c])
        /\ \A d \in Calls : d # c => answer'[d] = answer[d] /\ chan'[d] = chan[d]
    BY <1>4 DEF TakeFrame, TypeOK
  <2>2. /\ CallInOrder(c, answer'[c], chan'[c])
        /\ \A held, waiting, last :
             TurnInOrder(c, answer[c], chan[c], held, waiting, last) =>
             TurnInOrder(c, answer'[c], chan'[c], held, waiting, last)
    BY <2>1, OrderTake DEF InOrder
  <2>3. \A d \in Calls : CallInOrder(d, answer'[d], chan'[d])
    BY <2>1, <2>2 DEF InOrder
  <2>4. Serving => TurnInOrder(cur, answer'[cur], chan'[cur], got, output, emitted[cur])
    BY <1>1, <2>1, <2>2 DEF InOrder
  <2>. QED
    BY <1>1, <2>3, <2>4 DEF InOrder, Serving
<1>. QED
  BY <1>2, <1>3, <1>4 DEF Submit, CallerStep, Enqueue, StreamDone

(* The runner, which works on the turn in progress only. *)
LEMMA InOrderRunner ==
  ASSUME TypeOK, OneTurn, InOrder, RunnerWork \/ RunnerDies
  PROVE  InOrder'
<1>1. UNCHANGED <<answer, chan, pc, cur, got>>
  BY DEF RunnerWork, RunnerReady, RunnerNote, RunnerTake, RunnerEmit, RunnerEnd, RunnerDies,
     callVars, ipcVars
<1>2. CASE UNCHANGED <<output, emitted>>
  BY <1>1, <1>2 DEF InOrder, Serving
<1>3. CASE RunnerEmit \/ RunnerEnd
  <2>1. Serving /\ turn = cur /\ cur \in Calls
    BY <1>3 DEF RunnerEmit, RunnerEnd, OneTurn, TypeOK
  <2>2. PICK f \in Frame :
          /\ Shifted(output, f, output')
          /\ \/ RunnerEmit /\ f.n = emitted[turn] + 1
             \/ RunnerEnd /\ f.n = 0
    BY <1>3, Emitted DEF IsEnd
  <2>3. /\ answer[cur] \in Seq(Frame) /\ chan[cur] \in Seq(Frame)
        /\ got \in Seq(Frame) /\ output \in Seq(Frame) /\ emitted[cur] \in Nat
    BY <2>1 DEF TypeOK
  <2>4. /\ \A i \in 1 .. Len(answer[cur]) : answer[cur][i].n \in Nat
        /\ \A i \in 1 .. Len(chan[cur]) : chan[cur][i].n \in Nat
        /\ \A i \in 1 .. Len(got) : got[i].n \in Nat
        /\ \A i \in 1 .. Len(output) : output[i].n \in Nat
    BY <2>3, FramesNumbered
  <2>5. TurnInOrder(cur, answer[cur], chan[cur], got, output, emitted[cur])
    BY <2>1 DEF InOrder
  <2>6. CASE RunnerEmit /\ f.n = emitted[turn] + 1
    <3>1. emitted'[cur] = emitted[cur] + 1
      BY <2>1, <2>6 DEF RunnerEmit, TypeOK
    <3>2. TurnInOrder(cur, answer[cur], chan[cur], got, output', emitted[cur] + 1)
      BY <2>1, <2>2, <2>3, <2>4, <2>5, <2>6, OrderEmit
    <3>. QED
      BY <1>1, <3>1, <3>2 DEF InOrder, Serving
  <2>7. CASE RunnerEnd /\ f.n = 0
    <3>1. UNCHANGED emitted
      BY <2>7 DEF RunnerEnd
    <3>2. TurnInOrder(cur, answer[cur], chan[cur], got, output', emitted[cur])
      BY <2>2, <2>3, <2>5, <2>7, OrderEnd
    <3>. QED
      BY <1>1, <3>1, <3>2 DEF InOrder, Serving
  <2>. QED
    BY <2>2, <2>6, <2>7
<1>. QED
  BY <1>2, <1>3 DEF RunnerWork, RunnerReady, RunnerNote, RunnerTake, RunnerDies, histVars

(* A receive takes a frame into the thread's hands or drops it. *)
LEMMA InOrderReceive ==
  ASSUME TypeOK, OneTurn, ByMode, InOrder, RecvRound \/ RecvMulti \/ RecvStream
  PROVE  InOrder'
<1>1. /\ output # <<>> /\ output' = Tail(output) /\ ~IsEnd(Head(output))
      /\ Serving /\ Serving' /\ UNCHANGED <<answer, chan, cur, emitted>>
  BY DEF RecvRound, RecvMulti, RecvStream, TakeOutput, Serving, callVars, histVars
<1>2. /\ cur \in Calls /\ emitted[cur] \in Nat /\ got \in Seq(Frame)
  BY <1>1 DEF TypeOK
<1>3. OutputLoses(Head(output)) /\ Head(output) \in Frame
  BY <1>1, Received
<1>4. /\ Len(output) \in Nat \ {0} /\ Len(output') = Len(output) - 1
      /\ \A i \in 1 .. Len(output') : output'[i] = output[i + 1]
      /\ output[1] \in Frame /\ Head(output) = output[1] /\ ~IsEnd(output[1])
  BY <1>1, <1>3 DEF OutputLoses
<1>5. output[1].turn = cur
  <2>1. 1 \in 1 .. Len(output)
    BY <1>4
  <2>. QED
    BY <1>1, <2>1 DEF OneTurn
<1>6. TurnInOrder(cur, answer[cur], chan[cur], got, output, emitted[cur])
  BY <1>1 DEF InOrder
<1>7. got' = got \/ got' = Append(got, output[1])
  <2>. DEFINE f == output[1]
  <2>0. Append(<<>>, f) = <<f>>
    OBVIOUS
  <2>1. CASE RecvRound
    BY <2>0, <2>1, <1>4 DEF RecvRound
  <2>2. CASE RecvMulti
    BY <2>2, <1>4 DEF RecvMulti
  <2>3. CASE RecvStream
    <3>1. got = <<>>
      BY <2>3 DEF RecvStream, TakeOutput, ByMode, Serving
    <3>. QED
      BY <2>0, <2>3, <3>1, <1>4 DEF RecvStream
  <2>. QED
    BY <2>1, <2>2, <2>3
<1>8. TurnInOrder(cur, answer[cur], chan[cur], got', output', emitted[cur])
  BY <1>2, <1>4, <1>5, <1>6, <1>7, OrderDrop, OrderKeep
<1>. QED
  BY <1>1, <1>8 DEF InOrder

(* The IPC thread: the answer of a turn is what it holds, in order. *)
LEMMA InOrderIpcThread ==
  ASSUME TypeOK, AtMostOnce, Unserved, OneTurn, ByMode, InOrder, IpcThread, ~RecvFault
  PROVE  InOrder'
<1>1. CASE TakeReadyCommand \/ PollReady \/ ReadyGivesUp \/ BeginFails \/ IpcExit
  BY <1>1 DEF TakeReadyCommand, PollReady, ReadyGivesUp, BeginFails, IpcExit,
     InOrder, Serving, callVars
<1>2. CASE BeginTurn
  <2>1. /\ ~Serving /\ queue # <<>> /\ Head(queue) # WaitForReady /\ queue' = Tail(queue)
        /\ UNCHANGED <<answer, chan, got, output, emitted>> /\ cur' = Head(queue)
    BY <1>2 DEF BeginTurn, Serving, callVars, histVars
  <2>2. output = <<>> /\ got = <<>>
    BY <2>1 DEF OneTurn
  <2>3. cur' \in Calls /\ answer[cur'] = <<>> /\ chan[cur'] = <<>>
    <3>1. PICK x \in Calls : x = Head(queue) /\ InQueue(x)
      BY <2>1, Taken
    <3>. QED
      BY <2>1, <3>1 DEF Unserved, Untouched
  <2>. QED
    BY <2>1, <2>2, <2>3, OrderStart DEF InOrder
<1>3. CASE PollControl \/ RecvNothing
  BY <1>3 DEF PollControl, RecvNothing, InOrder, Serving, callVars, chanVars, histVars
<1>4. CASE RecvRound \/ RecvMulti \/ RecvStream
  BY <1>4, InOrderReceive
<1>5. CASE Forward
  <2>1. /\ Serving /\ Serving' /\ cur \in Calls /\ got \in Seq(Frame) /\ chan[cur] \in Seq(Frame)
        /\ UNCHANGED <<answer, cur, output, emitted>> /\ got' = <<>>
        /\ chan'[cur] = chan[cur] \o got
        /\ \A c \in Calls : c # cur => chan'[c] = chan[c]
    BY <1>5 DEF Forward, Serving, TypeOK, chanVars, histVars
  <2>2. /\ CallInOrder(cur, answer[cur], chan[cur])
        /\ TurnInOrder(cur, answer[cur], chan[cur], got, output, emitted[cur])
    BY <2>1 DEF InOrder
  <2>3. /\ CallInOrder(cur, answer[cur], chan'[cur])
        /\ TurnInOrder(cur, answer[cur], chan'[cur], <<>>, output, emitted[cur])
    BY <2>1, <2>2, OrderForward
  <2>. QED
    BY <2>1, <2>3 DEF InOrder
<1>6. CASE ConsumerGone
  <2>1. /\ Serving /\ UNCHANGED <<answer, chan, cur, output, emitted>> /\ got' = <<>>
    BY <1>6 DEF ConsumerGone, Serving, callVars, chanVars, histVars
  <2>. QED
    BY <2>1, OrderForget DEF InOrder
<1>7. CASE RecvEnd
  <2>1. /\ Serving /\ ~Serving' /\ cur \in Calls /\ UNCHANGED chan
    BY <1>7 DEF RecvEnd, EndTurn, Serving, TypeOK
  <2>2. \/ UNCHANGED answer
        \/ answer' = [answer EXCEPT ![cur] = got] /\ mode[cur] # "stream"
    BY <1>7 DEF RecvEnd, Outcomes
  <2>3. OwnInOrder(cur, got)
    BY <2>1 DEF InOrder, TurnInOrder
  <2>4. ASSUME mode[cur] # "stream" PROVE CallInOrder(cur, got, chan[cur])
    BY <2>1, <2>3, <2>4, EmptySeq DEF ByMode, CallInOrder, OwnInOrder
  <2>5. \A c \in Calls : CallInOrder(c, answer'[c], chan'[c])
    BY <2>1, <2>2, <2>4 DEF InOrder, TypeOK
  <2>. QED
    BY <2>1, <2>5 DEF InOrder
<1>. QED
  BY <1>1, <1>2, <1>3, <1>4, <1>5, <1>6, <1>7 DEF IpcThread

(* Every step keeps it, but a receive error. *)
LEMMA InOrderStep ==
  ASSUME TypeOK, AtMostOnce, Unserved, OneTurn, ByMode, InOrder, [Next]_vars, ~RecvFault
  PROVE  InOrder'
<1>1. CASE UNCHANGED <<answer, chan, pc, cur, got, output, emitted>>
  BY <1>1 DEF InOrder, Serving
<1>2. CASE IpcSetup
  BY <1>2 DEF IpcSetup, InOrder, Serving, callVars
<1>3. SpawnRunner \/ SpawnFails \/ ReadyReplied \/ ObserveExit \/ GraceExpires
      \/ DropNode \/ InstallHook \/ UNCHANGED vars
      => UNCHANGED <<answer, chan, pc, cur, got, output, emitted>>
  BY DEF SpawnRunner, SpawnFails, ReadyReplied, ObserveExit, GraceExpires, DropNode,
     InstallHook, vars, callVars, ipcVars, chanVars, histVars
<1>. QED
  BY <1>1, <1>2, <1>3, InOrderCaller, InOrderIpcThread, InOrderRunner DEF Next, Create

-----------------------------------------------------------------------------
(* Every frame is accounted for *)

(* No call is answered at first. *)
LEMMA AllAccountedInit == Init => AllAccounted
BY DEF Init, AllAccounted, AnsweredWhole, Serving

(* The lengths that the accounts add up are numbers. *)
LEMMA AccountTypes ==
  ASSUME TypeOK, NEW c \in Calls
  PROVE  /\ answer[c] \in Seq(Frame) /\ Len(answer[c]) \in Nat
         /\ chan[c] \in Seq(Frame) /\ Len(chan[c]) \in Nat
         /\ got \in Seq(Frame) /\ Len(got) \in Nat
         /\ Len(answer[c]) + Len(chan[c]) \in Nat
         /\ Len(answer[c]) + Len(chan[c]) + Len(got) \in Nat
         /\ emitted[c] \in Nat
         /\ output \in Seq(Frame) /\ Len(output) \in Nat
         /\ output # <<>> => Len(output) > 0
         /\ Buffered \in Nat /\ Buffered <= Len(output)
<1>1. /\ answer[c] \in Seq(Frame) /\ chan[c] \in Seq(Frame) /\ got \in Seq(Frame)
      /\ output \in Seq(Frame) /\ emitted[c] \in Nat
  BY DEF TypeOK
<1>2. /\ Len(answer[c]) \in Nat /\ Len(chan[c]) \in Nat /\ Len(got) \in Nat
      /\ Len(output) \in Nat
      /\ output # <<>> => Len(output) > 0
  BY <1>1, LenProperties, EmptySeq
<1>3. Buffered \in Nat /\ Buffered <= Len(output)
  BY <1>2 DEF Buffered
<1>4. /\ Len(answer[c]) + Len(chan[c]) \in Nat
      /\ Len(answer[c]) + Len(chan[c]) + Len(got) \in Nat
  <2>. DEFINE a == Len(answer[c])  h == Len(chan[c])  g == Len(got)
  <2>1. a \in Nat /\ h \in Nat /\ g \in Nat
    BY <1>2
  <2>. HIDE DEF a, h, g
  <2>2. a + h \in Nat /\ a + h + g \in Nat
    BY <2>1
  <2>. QED
    BY <2>2 DEF a, h, g
<1>. QED
  BY <1>1, <1>2, <1>3, <1>4, Zenon

(* A call that is being served is not answered. *)
LEMMA ServedNotAnswered ==
  ASSUME TypeOK, AtMostOnce, Serving
  PROVE  cur \in Calls /\ call[cur] \in {"waiting", "cancelled"}
BY DEF TypeOK, AtMostOnce

(* The account of the turn does not see what leaves these alone. *)
LEMMA TurnWholeKept ==
  ASSUME TypeOK, TurnWhole, cur \in Calls,
         UNCHANGED <<cur, got, output, emitted>>, mode'[cur] = mode[cur],
         call'[cur] = "waiting" => call[cur] = "waiting",
         Len(answer'[cur]) + Len(chan'[cur]) = Len(answer[cur]) + Len(chan[cur])
  PROVE  TurnWhole'
<1>1. Buffered' = Buffered
  BY DEF Buffered
<1>2. mode'[cur] = "stream" /\ call'[cur] = "waiting" =>
        Len(answer'[cur]) + Len(chan'[cur]) + Len(got) + Buffered = emitted[cur]
  BY DEF TurnWhole
<1>. QED
  BY <1>1, <1>2 DEF TurnWhole

(* The callers. *)
LEMMA AllAccountedCaller ==
  ASSUME TypeOK, AtMostOnce, ByMode, AllAccounted,
         NEW c \in Calls, Submit(c) \/ Cancel(c) \/ CallerStep(c)
  PROVE  AllAccounted'
<1>1. /\ UNCHANGED <<pc, cur, got, output, emitted, lost>>
      /\ Serving => cur \in Calls /\ call[cur] \in {"waiting", "cancelled"}
      /\ Buffered' = Buffered
  BY ServedNotAnswered DEF Submit, Cancel, CallerStep, Enqueue, TakeFrame, StreamDone, ipcVars,
     chanVars, histVars, Buffered
<1>2. \A d \in Calls : d # c => /\ call'[d] = call[d] /\ mode'[d] = mode[d]
                                /\ answer'[d] = answer[d] /\ chan'[d] = chan[d]
  BY DEF Submit, Cancel, CallerStep, Enqueue, TakeFrame, StreamDone, TypeOK
<1>3. CASE Submit(c)
  <2>1. call[c] = "new" /\ call'[c] \in {"sending", "err"}
    BY <1>3 DEF Submit, TypeOK
  <2>2. Serving => cur # c
    BY <1>1, <2>1
  <2>. QED
    BY <1>1, <1>2, <2>1, <2>2 DEF AllAccounted, AnsweredWhole, TurnWhole, Serving
<1>4. CASE Cancel(c)
  <2>1. call'[c] = "cancelled" /\ UNCHANGED <<mode, answer>>
    BY <1>4 DEF Cancel, TypeOK
  <2>2. Serving /\ call'[cur] = "waiting" => cur # c
    BY <2>1
  <2>. QED
    BY <1>1, <1>2, <2>1, <2>2 DEF AllAccounted, AnsweredWhole, TurnWhole, Serving
<1>5. CASE Enqueue(c)
  <2>1. call[c] = "sending" /\ call'[c] = "waiting"
    BY <1>5 DEF Enqueue, TypeOK
  <2>2. Serving => cur # c
    BY <1>1, <2>1
  <2>. QED
    BY <1>1, <1>2, <2>1, <2>2 DEF AllAccounted, AnsweredWhole, TurnWhole, Serving
<1>6. CASE TakeFrame(c)
  <2>1. /\ answer[c] \in Seq(Frame) /\ chan[c] \in Seq(Frame) /\ chan[c] # <<>>
        /\ answer'[c] = Append(answer[c], Head(chan[c])) /\ chan'[c] = Tail(chan[c])
        /\ UNCHANGED <<call, mode>> /\ call[c] # "ok"
    BY <1>6 DEF TakeFrame, TypeOK
  <2>2. /\ Len(answer'[c]) = Len(answer[c]) + 1 /\ Len(answer[c]) \in Nat
        /\ Len(chan'[c]) = Len(chan[c]) - 1 /\ Len(chan[c]) \in Nat
    BY <2>1, HeadTailProperties, AppendProperties, LenProperties
  <2>3. Len(answer'[c]) + Len(chan'[c]) = Len(answer[c]) + Len(chan[c])
    <3>. DEFINE a == Len(answer[c])  h == Len(chan[c])
    <3>1. (a + 1) + (h - 1) = a + h
      <4>1. a \in Nat /\ h \in Nat
        BY <2>2
      <4>. HIDE DEF a, h
      <4>. QED
        BY <4>1
    <3>. QED
      BY <2>2, <3>1
  <2>4. \A d \in Calls : Len(answer'[d]) + Len(chan'[d]) = Len(answer[d]) + Len(chan[d])
    BY <1>2, <2>3
  <2>5. \A d \in Calls \ lost' : AnsweredWhole(d)'
    BY <1>1, <1>2, <2>1, <2>4 DEF AllAccounted, AnsweredWhole
  <2>6. Serving' /\ cur' \notin lost' => TurnWhole'
    BY <1>1, <2>1, <2>4, TurnWholeKept DEF AllAccounted, Serving
  <2>. QED
    BY <2>5, <2>6 DEF AllAccounted
<1>7. CASE StreamDone(c)
  <2>1. /\ call[c] \in {"closed", "broken"} /\ chan[c] = <<>>
        /\ call'[c] \in {"ok", "err"} /\ (call'[c] = "ok" => call[c] = "closed")
        /\ UNCHANGED <<mode, answer, chan>>
    BY <1>7 DEF StreamDone, TypeOK
  <2>2. call[c] = "closed" => mode[c] = "stream"
    BY DEF ByMode
  <2>3. c \notin lost /\ call'[c] = "ok" => Len(answer[c]) = emitted[c]
    <3>1. c \notin lost /\ call[c] = "closed" => Len(answer[c]) + Len(chan[c]) = emitted[c]
      BY DEF AllAccounted, AnsweredWhole
    <3>2. Len(answer[c]) \in Nat /\ Len(chan[c]) = 0
      BY <2>1, AccountTypes, EmptySeq
    <3>3. Len(answer[c]) + 0 = Len(answer[c])
      BY <3>2
    <3>. QED
      BY <2>1, <3>1, <3>2, <3>3
  <2>4. c \notin lost => AnsweredWhole(c)'
    <3>1. call'[c] # "closed"
      BY <2>1
    <3>2. call'[c] = "ok" => mode'[c] # "round"
      BY <2>1, <2>2
    <3>3. c \notin lost /\ call'[c] = "ok" => Len(answer'[c]) = emitted'[c]
      BY <1>1, <2>1, <2>3
    <3>. QED
      BY <3>1, <3>2, <3>3 DEF AnsweredWhole
  <2>5. \A d \in Calls \ lost' : d # c => AnsweredWhole(d)'
    BY <1>1, <1>2 DEF AllAccounted, AnsweredWhole
  <2>6. ASSUME Serving', cur' \notin lost' PROVE TurnWhole'
    <3>1. Serving /\ cur \notin lost /\ cur \in Calls /\ TurnWhole
      BY <1>1, <2>6 DEF AllAccounted, Serving
    <3>2. call'[cur] = "waiting" => call[cur] = "waiting"
      BY <1>2, <2>1, <3>1
    <3>. QED
      BY <1>1, <2>1, <3>1, <3>2, TurnWholeKept
  <2>. QED
    BY <1>1, <2>4, <2>5, <2>6 DEF AllAccounted
<1>. QED
  BY <1>3, <1>4, <1>5, <1>6, <1>7 DEF CallerStep

(* The runner: a frame that finds room is one more emitted and one more      *)
(* buffered; one that does not costs its call a frame.                       *)
LEMMA AllAccountedRunner ==
  ASSUME TypeOK, AtMostOnce, OneTurn, AllAccounted, RunnerWork \/ RunnerDies
  PROVE  AllAccounted'
<1>1. UNCHANGED <<call, mode, answer, chan, pc, cur, got>>
  BY DEF RunnerWork, RunnerReady, RunnerNote, RunnerTake, RunnerEmit, RunnerEnd, RunnerDies,
     callVars, ipcVars
<1>2. CASE UNCHANGED <<output, emitted, lost>>
  BY <1>1, <1>2 DEF AllAccounted, AnsweredWhole, TurnWhole, Buffered, Serving
<1>3. CASE RunnerEmit \/ RunnerEnd
  <2>1. /\ Serving /\ turn = cur /\ cur \in Calls
        /\ \A i \in 1 .. Len(output) : output[i].turn = cur /\ ~IsEnd(output[i])
    BY <1>3 DEF RunnerEmit, RunnerEnd, OneTurn, TypeOK
  <2>2. /\ output \in Seq(Frame) /\ Len(output) \in Nat /\ emitted[cur] \in Nat
        /\ Len(got) \in Nat /\ Len(answer[cur]) \in Nat /\ Len(chan[cur]) \in Nat
    BY <2>1, AccountTypes
  <2>3. Buffered = Len(output)
    <3>1. output # <<>> => Len(output) \in 1 .. Len(output)
      BY <2>1, AccountTypes
    <3>. QED
      BY <2>1, <3>1 DEF Buffered
  <2>4. call[cur] \notin {"closed", "ok"}
    BY <2>1, ServedNotAnswered
  <2>5. \A c \in Calls : c # cur => emitted'[c] = emitted[c]
    BY <1>3, <2>1 DEF RunnerEmit, RunnerEnd, TypeOK
  <2>6. lost \subseteq lost'
    BY <1>3 DEF RunnerEmit, RunnerEnd
  <2>7. \A c \in Calls \ lost' : AnsweredWhole(c)'
    BY <1>1, <2>1, <2>4, <2>5, <2>6 DEF AllAccounted, AnsweredWhole
  <2>8. ASSUME cur \notin lost' PROVE TurnWhole'
    <3>1. Len(output) < BufCap
      <4>. SUFFICES ASSUME ~(Len(output) < BufCap) PROVE FALSE
        OBVIOUS
      <4>1. 1 \in 1 .. Len(output) /\ output # <<>>
        BY <2>2, PyIpcAssumption DEF PyIpcAssumption
      <4>2. Head(output).turn = cur
        BY <2>1, <2>2, <4>1
      <4>. QED
        BY <1>3, <2>8, <4>2 DEF RunnerEmit, RunnerEnd, Evicted
    <3>2. PICK f \in Frame :
            /\ output' = Push(output, f)
            /\ \/ RunnerEmit /\ f.n = emitted[cur] + 1 /\ ~IsEnd(f)
               \/ RunnerEnd /\ IsEnd(f)
      BY <1>3, <2>1, Emitted
    <3>3. /\ Len(output') = Len(output) + 1 /\ output' # <<>>
          /\ \A i \in 1 .. Len(output) : output'[i] = output[i]
          /\ output'[Len(output) + 1] = f
      BY <2>2, <3>1, <3>2, AppendProperties DEF Push
    <3>4. /\ TurnWhole
          /\ cur \notin lost
      BY <2>1, <2>6, <2>8 DEF AllAccounted
    <3>5. CASE RunnerEmit /\ f.n = emitted[cur] + 1 /\ ~IsEnd(f)
      <4>1. Buffered' = Len(output) + 1
        BY <2>2, <3>3, <3>5 DEF Buffered
      <4>2. emitted'[cur] = emitted[cur] + 1
        BY <2>1, <3>5 DEF RunnerEmit, TypeOK
      <4>. DEFINE e == emitted[cur]  w == Len(output)
      <4>. HIDE DEF e, w
      <4>0. e \in Nat /\ w \in Nat
        BY <2>2 DEF e, w
      <4>3. \A i \in 1 .. Buffered' : output'[i].n = emitted'[cur] - Buffered' + i
        <5>1. \A i \in 1 .. w : output'[i].n = e - w + i
          BY <2>3, <3>3, <3>4 DEF TurnWhole, e, w
        <5>2. output'[w + 1].n = e + 1
          BY <3>3, <3>5 DEF e, w
        <5>3. \A i \in 1 .. w + 1 : output'[i].n = (e + 1) - (w + 1) + i
          BY <4>0, <5>1, <5>2
        <5>. QED
          BY <4>1, <4>2, <5>3 DEF e, w
      <4>4. Buffered' <= emitted'[cur]
        BY <2>2, <2>3, <3>4, <4>1, <4>2 DEF TurnWhole
      <4>5. mode[cur] = "round" /\ got = <<>> => Buffered' = emitted'[cur]
        BY <2>2, <2>3, <3>4, <4>1, <4>2 DEF TurnWhole
      <4>6. mode[cur] = "multi" => Len(got) + Buffered' = emitted'[cur]
        BY <2>2, <2>3, <3>4, <4>1, <4>2 DEF TurnWhole
      <4>7. mode[cur] = "stream" /\ call[cur] = "waiting" =>
              Len(answer[cur]) + Len(chan[cur]) + Len(got) + Buffered' = emitted'[cur]
        <5>. DEFINE s == Len(answer[cur]) + Len(chan[cur]) + Len(got)
        <5>1. s \in Nat
          BY <2>1, AccountTypes
        <5>2. mode[cur] = "stream" /\ call[cur] = "waiting" => s + w = e
          BY <2>3, <3>4 DEF TurnWhole, e, w
        <5>. HIDE DEF s
        <5>3. s + w = e => s + (w + 1) = e + 1
          BY <4>0, <5>1
        <5>4. mode[cur] = "stream" /\ call[cur] = "waiting" => s + Buffered' = emitted'[cur]
          BY <4>1, <4>2, <5>2, <5>3 DEF e, w
        <5>. QED
          BY <5>4 DEF s
      <4>. QED
        BY <1>1, <3>4, <4>3, <4>4, <4>5, <4>6, <4>7 DEF TurnWhole
    <3>6. CASE RunnerEnd /\ IsEnd(f)
      <4>1. Buffered' = Len(output)
        BY <2>2, <3>3, <3>6 DEF Buffered
      <4>2. UNCHANGED emitted
        BY <3>6 DEF RunnerEnd
      <4>3. \A i \in 1 .. Buffered' : output'[i].n = emitted[cur] - Buffered' + i
        BY <2>2, <2>3, <3>3, <3>4, <4>1 DEF TurnWhole
      <4>. QED
        BY <1>1, <2>3, <3>4, <4>1, <4>2, <4>3 DEF TurnWhole
    <3>. QED
      BY <3>2, <3>5, <3>6
  <2>. QED
    BY <1>1, <2>1, <2>7, <2>8 DEF AllAccounted
<1>. QED
  BY <1>2, <1>3 DEF RunnerWork, RunnerReady, RunnerNote, RunnerTake, RunnerDies, histVars

(* A receive: one frame fewer is buffered, one more held, or dropped by a    *)
(* round that has its frame or for a consumer that is gone.                  *)
LEMMA AllAccountedReceive ==
  ASSUME TypeOK, AtMostOnce, OneTurn, ByMode, AllAccounted, RecvRound \/ RecvMulti \/ RecvStream
  PROVE  AllAccounted'
<1>1. /\ output # <<>> /\ output' = Tail(output) /\ ~IsEnd(Head(output))
      /\ Serving /\ Serving' /\ UNCHANGED <<call, mode, answer, chan, cur, emitted, lost>>
      /\ pc = "recv"
  BY DEF RecvRound, RecvMulti, RecvStream, TakeOutput, Serving, callVars, histVars
<1>2. /\ cur \in Calls /\ call[cur] \in {"waiting", "cancelled"}
  BY <1>1, ServedNotAnswered
<1>3. \A c \in Calls \ lost' : AnsweredWhole(c)'
  BY <1>1 DEF AllAccounted, AnsweredWhole
<1>4. ASSUME cur \notin lost PROVE TurnWhole'
  <2>1. TurnWhole
    BY <1>1, <1>4 DEF AllAccounted
  <2>. DEFINE e == emitted[cur]  w == Buffered  f == output[1]
  <2>2. e \in Nat /\ w \in Nat /\ w <= Len(output) /\ Len(output) \in Nat
    BY <1>2, AccountTypes
  <2>3. /\ Len(output) > 0 /\ Head(output) = f /\ ~IsEnd(f)
        /\ Len(output') = Len(output) - 1
        /\ \A i \in 1 .. Len(output') : output'[i] = output[i + 1]
        /\ output' \in Seq(Frame)
    BY <1>1, Received DEF OutputLoses
  <2>4. w > 0 /\ Buffered' = w - 1
    <3>1. CASE IsEnd(output[Len(output)])
      <4>1. w = Len(output) - 1 /\ Len(output) # 1
        BY <1>1, <2>3, <3>1 DEF Buffered
      <4>2. Len(output') \in 1 .. Len(output') /\ output' # <<>>
        BY <2>2, <2>3, <4>1, EmptySeq
      <4>3. output'[Len(output')] = output[Len(output)]
        BY <2>2, <2>3, <4>2
      <4>. QED
        BY <2>2, <2>3, <3>1, <4>1, <4>2, <4>3 DEF Buffered
    <3>2. CASE ~IsEnd(output[Len(output)])
      <4>1. w = Len(output)
        BY <3>2 DEF Buffered
      <4>2. output' # <<>> => Len(output') \in 1 .. Len(output')
        BY <2>2, <2>3, EmptySeq
      <4>3. output' # <<>> => output'[Len(output')] = output[Len(output)]
        BY <2>2, <2>3, <4>2
      <4>. QED
        BY <2>2, <2>3, <3>2, <4>1, <4>3 DEF Buffered
    <3>. QED
      BY <3>1, <3>2
  <2>5. /\ w <= e
        /\ \A i \in 1 .. w : output[i].n = e - w + i
        /\ mode[cur] = "round" => IF got = <<>> THEN w = e ELSE got[1].n = 1
        /\ mode[cur] = "multi" => Len(got) + w = e
        /\ mode[cur] = "stream" /\ call[cur] = "waiting" =>
             Len(answer[cur]) + Len(chan[cur]) + Len(got) + w = e
    BY <2>1 DEF TurnWhole
  <2>6. UNCHANGED emitted[cur]
    BY <1>1
  <2>. HIDE DEF e, w, f
  <2>7. f.n = e - w + 1
    <3>1. 1 \in 1 .. w
      BY <2>2, <2>4
    <3>. QED
      BY <2>5, <3>1 DEF f
  <2>8. Buffered' <= e
    BY <2>2, <2>4, <2>5
  <2>9. \A i \in 1 .. Buffered' : output'[i].n = e - Buffered' + i
    <3>. SUFFICES ASSUME NEW i \in 1 .. w - 1 PROVE output'[i].n = e - (w - 1) + i
      BY <2>4
    <3>1. i + 1 \in 1 .. w /\ i \in 1 .. Len(output')
      BY <2>2, <2>3
    <3>2. output'[i].n = e - w + (i + 1)
      BY <2>3, <2>5, <3>1
    <3>3. e - w + (i + 1) = e - (w - 1) + i
      BY <2>2
    <3>. QED
      BY <3>2, <3>3
  <2>10. CASE RecvRound
    <3>1. mode[cur] = "round"
      BY <2>10 DEF RecvRound
    <3>2. CASE got = <<>>
      <4>1. got' = <<f>> /\ f.n = 1
        BY <2>2, <2>3, <2>5, <2>7, <2>10, <3>1, <3>2 DEF RecvRound
      <4>. QED
        BY <1>1, <2>8, <2>9, <3>1, <4>1 DEF TurnWhole, e
    <3>3. CASE got # <<>>
      <4>1. got' = got
        BY <2>10, <3>3 DEF RecvRound
      <4>. QED
        BY <1>1, <2>5, <2>8, <2>9, <3>1, <3>3, <4>1 DEF TurnWhole, e
    <3>. QED
      BY <3>2, <3>3
  <2>11. CASE RecvMulti
    <3>1. mode[cur] = "multi" /\ Len(got') = Len(got) + 1 /\ Len(got) \in Nat
      <4>1. got \in Seq(Frame) /\ f \in Frame
        BY <1>1, Received DEF TypeOK, OutputLoses, f
      <4>. QED
        BY <2>3, <2>11, <4>1, AppendProperties, LenProperties DEF RecvMulti
    <3>2. Len(got') + Buffered' = e
      BY <2>2, <2>4, <2>5, <3>1
    <3>. QED
      BY <1>1, <2>8, <2>9, <3>1, <3>2 DEF TurnWhole, e
  <2>12. CASE RecvStream
    <3>1. mode[cur] = "stream" /\ got = <<>> /\ (call[cur] = "waiting" => got' = <<f>>)
      BY <1>1, <2>3, <2>12 DEF RecvStream, ByMode
    <3>2. call[cur] = "waiting" =>
            Len(answer[cur]) + Len(chan[cur]) + Len(got') + Buffered' = e
      <4>. DEFINE s == Len(answer[cur]) + Len(chan[cur])
      <4>1. s \in Nat
        BY <1>2, AccountTypes
      <4>2. call[cur] = "waiting" => s + 0 + w = e
        BY <2>5, <3>1
      <4>. HIDE DEF s
      <4>3. call[cur] = "waiting" => s + 1 + (w - 1) = e
        BY <2>2, <4>1, <4>2
      <4>4. Len(<<f>>) = 1
        OBVIOUS
      <4>5. call[cur] = "waiting" => s + Len(got') + Buffered' = e
        BY <2>4, <3>1, <4>3, <4>4
      <4>. QED
        BY <4>5 DEF s
    <3>. QED
      BY <1>1, <2>8, <2>9, <3>1, <3>2 DEF TurnWhole, e
  <2>. QED
    BY <2>10, <2>11, <2>12
<1>. QED
  BY <1>1, <1>3, <1>4 DEF AllAccounted

(* The IPC thread. *)
LEMMA AllAccountedIpcThread ==
  ASSUME TypeOK, AtMostOnce, Unserved, OneTurn, ByMode, AllAccounted, IpcThread, ~RecvFault
  PROVE  AllAccounted'
<1>1. CASE TakeReadyCommand \/ PollReady \/ ReadyGivesUp \/ IpcExit
  BY <1>1 DEF TakeReadyCommand, PollReady, ReadyGivesUp, IpcExit,
     AllAccounted, AnsweredWhole, Serving, callVars, histVars
<1>2. CASE BeginTurn
  <2>1. /\ ~Serving /\ queue # <<>> /\ Head(queue) # WaitForReady /\ queue' = Tail(queue)
        /\ UNCHANGED <<call, mode, answer, chan, got, output, emitted, lost>>
        /\ cur' = Head(queue)
    BY <1>2 DEF BeginTurn, Serving, callVars, histVars
  <2>2. output = <<>> /\ got = <<>>
    BY <2>1 DEF OneTurn
  <2>3. PICK x \in Calls : x = Head(queue) /\ InQueue(x)
    BY <2>1, Taken
  <2>4. answer[x] = <<>> /\ chan[x] = <<>> /\ emitted[x] = 0
    BY <2>3 DEF Unserved, Untouched
  <2>5. Buffered' = 0
    BY <2>1, <2>2, EmptySeq DEF Buffered
  <2>6. TurnWhole'
    BY <2>1, <2>2, <2>3, <2>4, <2>5, EmptySeq DEF TurnWhole
  <2>7. \A c \in Calls \ lost' : AnsweredWhole(c)'
    BY <2>1 DEF AllAccounted, AnsweredWhole
  <2>. QED
    BY <2>6, <2>7 DEF AllAccounted
<1>3. CASE BeginFails
  <2>1. PICK r \in {"err", "broken"} : Reply(Head(queue), r)
    BY <1>3 DEF BeginFails, Failure
  <2>2. \A c \in Calls : call'[c] \in {"closed", "ok"} => call'[c] = call[c]
    BY <2>1 DEF Reply, TypeOK
  <2>. QED
    BY <1>3, <2>2 DEF BeginFails, AllAccounted, AnsweredWhole, Serving, histVars
<1>4. CASE PollControl \/ RecvNothing
  <2>1. /\ Serving /\ Serving'
        /\ UNCHANGED <<call, mode, answer, chan, cur, got, output, emitted, lost>>
    BY <1>4 DEF PollControl, RecvNothing, Serving, callVars, chanVars, histVars
  <2>2. Buffered' = Buffered
    BY <2>1 DEF Buffered
  <2>. QED
    BY <2>1, <2>2 DEF AllAccounted, AnsweredWhole, TurnWhole
<1>5. CASE RecvRound \/ RecvMulti \/ RecvStream
  BY <1>5, AllAccountedReceive
<1>6. CASE Forward \/ ConsumerGone
  <2>1. /\ Serving /\ Serving' /\ cur \in Calls /\ mode[cur] = "stream"
        /\ call[cur] \in {"waiting", "cancelled"} /\ got' = <<>>
        /\ UNCHANGED <<call, mode, answer, cur, output, emitted, lost>>
        /\ \A c \in Calls : c # cur => chan'[c] = chan[c]
    BY <1>6, ServedNotAnswered
       DEF Forward, ConsumerGone, ByMode, Serving, TypeOK, callVars, chanVars, histVars
  <2>2. Buffered' = Buffered
    BY <2>1 DEF Buffered
  <2>3. ASSUME call[cur] = "waiting"
        PROVE  Len(answer[cur]) + Len(chan'[cur]) + Len(got') + Buffered
                 = Len(answer[cur]) + Len(chan[cur]) + Len(got) + Buffered
    <3>. DEFINE a == Len(answer[cur])  h == Len(chan[cur])  g == Len(got)  w == Buffered
    <3>1. a \in Nat /\ h \in Nat /\ g \in Nat /\ w \in Nat
      BY <2>1, AccountTypes
    <3>2. Len(chan'[cur]) = h + g
      BY <1>6, <2>1, <2>3, AccountTypes, ConcatProperties DEF Forward, ConsumerGone, TypeOK
    <3>3. Len(got') = 0
      BY <2>1, EmptySeq
    <3>. HIDE DEF a, h, g, w
    <3>4. a + (h + g) + 0 + w = a + h + g + w
      BY <3>1
    <3>5. a + Len(chan'[cur]) + Len(got') + w = a + h + g + w
      BY <3>2, <3>3, <3>4
    <3>. QED
      BY <3>5 DEF a, h, g, w
  <2>4. cur \notin lost => TurnWhole'
    BY <2>1, <2>2, <2>3 DEF AllAccounted, TurnWhole
  <2>5. \A c \in Calls \ lost' : AnsweredWhole(c)'
    BY <2>1 DEF AllAccounted, AnsweredWhole
  <2>. QED
    BY <2>1, <2>4, <2>5 DEF AllAccounted
<1>7. CASE RecvEnd
  <2>1. /\ Serving /\ ~Serving' /\ UNCHANGED <<mode, chan, emitted, lost>>
        /\ pc = "recv" /\ output # <<>> /\ IsEnd(Head(output))
    BY <1>7 DEF RecvEnd, EndTurn, Serving
  <2>2. cur \in Calls /\ call[cur] \in {"waiting", "cancelled"}
    BY <2>1, ServedNotAnswered
  <2>3. Buffered = 0
    <3>1. 1 \in 1 .. Len(output) /\ IsEnd(output[1]) /\ Len(output) \in Nat
      BY <2>1, <2>2, AccountTypes
    <3>2. Len(output) = 1
      BY <2>1, <3>1 DEF OneTurn
    <3>. QED
      BY <2>1, <3>1, <3>2 DEF Buffered
  <2>4. PICK r \in Outcomes(cur) :
          /\ Reply(cur, r)
          /\ answer' = IF r = "ok" /\ call[cur] = "waiting"
                        THEN [answer EXCEPT ![cur] = got]
                        ELSE answer
    BY <1>7 DEF RecvEnd
  <2>5. /\ r = "closed" => mode[cur] = "stream"
        /\ r = "ok" => mode[cur] = "multi" \/ (mode[cur] = "round" /\ got # <<>>)
    BY <2>2 DEF Outcomes, TypeOK, Modes
  <2>6. /\ call'[cur] = IF call[cur] = "waiting" THEN r ELSE "cancelled"
        /\ \A c \in Calls : c # cur => call'[c] = call[c] /\ answer'[c] = answer[c]
    BY <2>2, <2>4, ReplySettles DEF TypeOK
  <2>7. PICK x \in Calls : x = cur
    BY <2>2
  <2>8. ASSUME x \notin lost PROVE AnsweredWhole(x)'
    <3>1. TurnWhole
      BY <2>1, <2>7, <2>8 DEF AllAccounted
    <3>2. CASE call[x] = "waiting" /\ r = "closed"
      <4>1. answer' = answer /\ mode[x] = "stream" /\ got = <<>>
        BY <2>1, <2>4, <2>5, <2>7, <3>2 DEF ByMode
      <4>2. Len(answer[x]) + Len(chan[x]) + 0 + 0 = emitted[x]
        BY <2>3, <2>7, <3>1, <3>2, <4>1, EmptySeq DEF TurnWhole
      <4>3. Len(answer[x]) + Len(chan[x]) = emitted[x]
        <5>. DEFINE s == Len(answer[x]) + Len(chan[x])
        <5>1. s \in Nat /\ s + 0 + 0 = emitted[x]
          BY <2>7, <4>2, AccountTypes
        <5>. HIDE DEF s
        <5>2. s = emitted[x]
          BY <5>1
        <5>. QED
          BY <5>2 DEF s
      <4>4. call'[x] = "closed"
        BY <2>6, <2>7, <3>2
      <4>. QED
        BY <2>1, <4>1, <4>3, <4>4 DEF AnsweredWhole
    <3>3. CASE call[x] = "waiting" /\ r = "ok"
      <4>1. answer'[x] = got /\ call'[x] = "ok"
        BY <2>4, <2>6, <2>7, <3>3 DEF TypeOK
      <4>2. CASE mode[x] = "multi"
        <5>1. Len(got) \in Nat /\ Len(got) + 0 = emitted[x]
          BY <2>3, <2>7, <3>1, <4>2, AccountTypes DEF TurnWhole
        <5>2. Len(got) = emitted[x]
          BY <5>1
        <5>. QED
          BY <2>1, <4>1, <4>2, <5>2 DEF AnsweredWhole
      <4>3. CASE mode[x] = "round" /\ got # <<>>
        <5>. DEFINE g == Len(got)
        <5>1. g \in Nat /\ g # 0
          BY <4>3, EmptySeq DEF TypeOK
        <5>2. g <= 1
          BY <2>1, <2>7, <4>3 DEF ByMode
        <5>. HIDE DEF g
        <5>3. g = 1
          BY <5>1, <5>2
        <5>4. got[1].n = 1
          BY <2>7, <3>1, <4>3 DEF TurnWhole
        <5>. QED
          BY <2>1, <4>1, <4>3, <5>3, <5>4 DEF AnsweredWhole, g
      <4>. QED
        BY <2>5, <2>7, <3>3, <4>2, <4>3
    <3>4. CASE call'[x] \notin {"closed", "ok"}
      BY <3>4 DEF AnsweredWhole
    <3>. QED
      BY <2>2, <2>6, <2>7, <3>2, <3>3, <3>4
  <2>9. \A c \in Calls \ lost' : c # x => AnsweredWhole(c)'
    BY <2>1, <2>6, <2>7 DEF AllAccounted, AnsweredWhole
  <2>. QED
    BY <2>1, <2>8, <2>9 DEF AllAccounted
<1>. QED
  BY <1>1, <1>2, <1>3, <1>4, <1>5, <1>6, <1>7 DEF IpcThread

(* Every step keeps it, but a receive error. *)
LEMMA AllAccountedStep ==
  ASSUME TypeOK, AtMostOnce, Unserved, OneTurn, ByMode, AllAccounted, [Next]_vars, ~RecvFault
  PROVE  AllAccounted'
<1>1. CASE UNCHANGED <<callVars, pc, cur, got, output, emitted, lost>>
  BY <1>1 DEF AllAccounted, AnsweredWhole, TurnWhole, Buffered, Serving, callVars
<1>2. CASE IpcSetup
  BY <1>2 DEF IpcSetup, AllAccounted, AnsweredWhole, Serving, callVars, histVars
<1>3. SpawnRunner \/ SpawnFails \/ ReadyReplied \/ ObserveExit \/ GraceExpires
      \/ DropNode \/ InstallHook \/ UNCHANGED vars
      => UNCHANGED <<callVars, pc, cur, got, output, emitted, lost>>
  BY DEF SpawnRunner, SpawnFails, ReadyReplied, ObserveExit, GraceExpires, DropNode,
     InstallHook, vars, ipcVars, chanVars, histVars
<1>. QED
  BY <1>1, <1>2, <1>3, AllAccountedCaller, AllAccountedIpcThread, AllAccountedRunner
     DEF Next, Create

-----------------------------------------------------------------------------
(* The inductive invariant *)

(* An abandoned call stays one. *)
LEMMA AbandonedGrows == [Next]_vars => abandoned \subseteq abandoned'
<1>1. Create \/ DropNode \/ InstallHook \/ RunnerWork \/ RunnerDies \/ UNCHANGED vars
      => UNCHANGED abandoned
  BY DEF Create, IpcSetup, SpawnRunner, SpawnFails, ReadyReplied, ObserveExit, GraceExpires,
     DropNode, InstallHook, RunnerWork, RunnerReady, RunnerNote, RunnerTake, RunnerEmit,
     RunnerEnd, RunnerDies, vars, histVars
<1>2. ASSUME NEW c \in Calls, Submit(c) \/ Cancel(c) \/ CallerStep(c)
      PROVE  UNCHANGED abandoned
  BY <1>2 DEF Submit, Cancel, CallerStep, Enqueue, TakeFrame, StreamDone, histVars
<1>3. IpcThread => abandoned \subseteq abandoned'
  BY DEF IpcThread, TakeReadyCommand, PollReady, ReadyGivesUp, BeginTurn, BeginFails,
     PollControl, RecvRound, RecvMulti, RecvStream, Forward, ConsumerGone, RecvEnd,
     RecvNothing, RecvFault, IpcExit, histVars
<1>. QED
  BY <1>1, <1>2, <1>3 DEF Next

(* Types, handshake and turns hold together: that a command is taken only    *)
(* once the node is handed out is what keeps a turn from beginning early.    *)
TurnsInv == TypeOK /\ Handshake /\ TurnsAligned

(* A receive error is the one step after which turns may overlap; until      *)
(* then each part of the invariant carries the next.                         *)
LEMMA TurnsAlignedStep == TurnsInv /\ [Next]_vars => TurnsAligned'
<1>. SUFFICES ASSUME TurnsInv, [Next]_vars PROVE TurnsAligned'
  OBVIOUS
<1>1. TypeOK /\ Handshake /\ ReadyOnce /\ AtMostOnce
  BY DEF TurnsInv, TurnsAligned
<1>2. ReadyOnce' /\ AtMostOnce'
  BY <1>1, ReadyOnceStep, AtMostOnceStep
<1>3. ASSUME abandoned' = {} PROVE (Unserved /\ OneTurn /\ ByMode /\ InOrder /\ AllAccounted)'
  <2>1. abandoned = {}
    BY <1>3, AbandonedGrows
  <2>2. ~RecvFault
    BY <1>3 DEF RecvFault
  <2>3. Unserved /\ OneTurn /\ ByMode /\ InOrder /\ AllAccounted
    BY <2>1 DEF TurnsInv, TurnsAligned
  <2>. QED
    BY <1>1, <2>2, <2>3, UnservedStep, OneTurnStep, ByModeStep, InOrderStep, AllAccountedStep
<1>. QED
  BY <1>2, <1>3 DEF TurnsAligned

(* The initial states satisfy the invariant. *)
LEMMA TurnsInit == Init => TurnsInv
<1>. SUFFICES ASSUME Init PROVE TurnsInv
  OBVIOUS
<1>1. TypeOK /\ Handshake
  BY TypeInit, HandshakeInit
<1>2. ReadyOnce /\ AtMostOnce
  BY ReadyOnceInit, AtMostOnceInit
<1>3. Unserved /\ OneTurn /\ ByMode /\ InOrder /\ AllAccounted
  BY UnservedInit, OneTurnInit, ByModeInit, InOrderInit, AllAccountedInit
<1>. QED
  BY <1>1, <1>2, <1>3 DEF TurnsInv, TurnsAligned

(* The turns of the node follow each other: whatever the interleaving of     *)
(* callers, IPC thread and runner, a command is served at most once, and     *)
(* until a receive() fails no turn begins before the channels are empty of   *)
(* the one before.                                                           *)
THEOREM TurnsInvariant == Spec => []TurnsInv
<1>1. TurnsInv /\ [Next]_vars => TurnsInv'
  BY TurnsAlignedStep, TypeStep, HandshakeStep DEF TurnsInv
<1>. QED
  BY <1>1, TurnsInit, PTL DEF Spec

(* A command is served once, and until a receive() fails turns follow each   *)
(* other without overlapping, every frame in order and accounted for.        *)
THEOREM TurnsFollow == Spec => []TurnsAligned
BY TurnsInvariant, PTL DEF TurnsInv

(* Until a receive() fails every caller is given frames of its own turn      *)
(* only, and in order, even when callers before it gave up                   *)
(* (python_ipc.rs:853 and 954).                                              *)
THEOREM FramesAreOwn == Spec => []OwnFrames
<1>1. TurnsInv => OwnFrames
  BY DEF TurnsInv, TurnsAligned, InOrder, CallInOrder, OwnFrames
<1>. QED
  BY <1>1, TurnsInvariant, PTL

(* A call answered with success was given every frame the runner emitted for *)
(* it, or the first for round_trip, whatever else the node was doing.        *)
THEOREM AnswersAreWhole == Spec => []Lossless
<1>1. TurnsInv => Lossless
  <2>. SUFFICES ASSUME TurnsInv, abandoned = {}, NEW c \in Calls, call[c] = "ok", c \notin lost
                PROVE  IF mode[c] = "round" THEN Len(answer[c]) = 1 /\ answer[c][1].n = 1
                                            ELSE Len(answer[c]) = emitted[c]
    BY DEF Lossless
  <2>1. AnsweredWhole(c)
    BY DEF TurnsInv, TurnsAligned, AllAccounted
  <2>. QED
    BY <2>1 DEF AnsweredWhole
<1>. QED
  BY <1>1, TurnsInvariant, PTL

(* A caller that waits for its reply is queued or being served: no error     *)
(* path of the IPC thread forgets one.                                       *)
THEOREM NoCallIsLost == Spec => []NoLostCall
<1>1. Init => NoLostCall
  BY NoLostCallInit
<1>2. TurnsInv /\ NoLostCall /\ [Next]_vars => NoLostCall'
  BY NoLostCallStep DEF TurnsInv, TurnsAligned
<1>. QED
  BY <1>1, <1>2, TurnsInvariant, PTL DEF Spec

-----------------------------------------------------------------------------
(* The refinement mapping, named *)

Status(state) ==
  CASE state \in {"sending", "waiting"} -> "pending"
    [] state \in {"closed", "broken"} -> "served"
    [] OTHER -> state

St == [c \in Calls |-> Status(call[c])]
Line == IF HandedOut THEN queue ELSE <<>>
Poisoned == abandoned # {}
ServiceVars == <<St, answer, Line, cur, Poisoned>>

(* One call's state changes, or none. *)
LEMMA StatusSet ==
  ASSUME TypeOK, NEW c \in Calls, NEW state, call' = [call EXCEPT ![c] = state]
  PROVE  St' = [St EXCEPT ![c] = Status(state)]
<1>1. \A d \in Calls : call'[d] = IF d = c THEN state ELSE call[d]
  BY DEF TypeOK
<1>2. St' = [d \in Calls |-> Status(call'[d])]
  BY DEF St, Status
<1>3. \A d \in Calls : Status(call'[d]) = IF d = c THEN Status(state) ELSE Status(call[d])
  BY <1>1
<1>. DEFINE f == [d \in Calls |-> Status(call'[d])]
            g == [St EXCEPT ![c] = Status(state)]
<1>4. \A d \in Calls : f[d] = g[d]
  BY <1>3 DEF St
<1>5. f = g
  BY <1>4 DEF St
<1>. QED
  BY <1>2, <1>5

(* No call changes state. *)
LEMMA StatusKept == UNCHANGED call => UNCHANGED St
BY DEF St

(* Each action of the service, in terms of the mapping: none, ... *)
LEMMA ServiceStutter == UNCHANGED ServiceVars => UNCHANGED Service!svars
BY Zenon DEF ServiceVars, St, Status, Line, Poisoned, Service!svars

(* ... those of a caller: a request, a change of mind, the end of a stream. *)
LEMMA ServiceCaller ==
  ASSUME NEW c \in Calls, UNCHANGED <<cur, Poisoned>>,
         \/ /\ St[c] = "new"
            /\ St' \in {[St EXCEPT ![c] = "pending"], [St EXCEPT ![c] = "err"]}
            /\ UNCHANGED <<answer, Line>>
         \/ /\ St[c] \in {"pending", "served"}
            /\ St' = [St EXCEPT ![c] = "cancelled"]
            /\ UNCHANGED <<answer, Line>>
         \/ /\ St[c] = "served"
            /\ St' \in {[St EXCEPT ![c] = "ok"], [St EXCEPT ![c] = "err"]}
            /\ UNCHANGED <<answer, Line>>
  PROVE  Service!Next
BY DEF Service!Next, Service!Request, Service!GiveUp, Service!Settle,
       St, Status, Line, Poisoned

(* A request joins the line. *)
LEMMA ServiceAccepts ==
  ASSUME NEW c \in Calls, St[c] = "pending", cur # c,
         \A i \in 1 .. Len(Line) : Line[i] # c, Line' = Append(Line, c),
         UNCHANGED <<St, answer, cur, Poisoned>>
  PROVE  Service!Next
BY DEF Service!Next, Service!Accept, St, Status, Line, Poisoned

(* A frame reaches its caller. *)
LEMMA ServiceDelivers ==
  ASSUME NEW c \in Calls, St[c] \in {"pending", "served"},
         Len(answer'[c]) = Len(answer[c]) + 1,
         answer' = [answer EXCEPT ![c] = Append(@, answer'[c][Len(@) + 1])],
         Poisoned \/ OwnInOrder(c, answer'[c]),
         UNCHANGED <<St, Line, cur, Poisoned>>
  PROVE  Service!Next
BY DEF Service!Next, Service!Deliver, Service!OwnInOrder, OwnInOrder, St, Status, Line, Poisoned

(* The oldest request is served. *)
LEMMA ServiceServes ==
  ASSUME cur = None, Line # <<>>, Line' = Tail(Line), cur' = Head(Line),
         UNCHANGED <<St, answer, Poisoned>>
  PROVE  Service!Next
BY DEF Service!Next, Service!Serve, St, Status, Line, Poisoned

Settles(c, r) == St' = IF St[c] = "pending" THEN [St EXCEPT ![c] = r] ELSE St

(* The oldest request is answered unserved. *)
LEMMA ServiceRefuses ==
  ASSUME cur = None, Line # <<>>, Line' = Tail(Line),
         NEW r \in {"err", "served"}, Settles(Head(Line), r),
         UNCHANGED <<answer, cur, Poisoned>>
  PROVE  Service!Next
BY DEF Service!Next, Service!Refuse, Service!Settled, Settles, St, Status, Line, Poisoned

(* The request being served is answered. *)
LEMMA ServiceConcludes ==
  ASSUME cur # None, cur' = None,
         NEW r \in {"ok", "err", "served"}, Settles(cur, r),
         \/ UNCHANGED answer
         \/ /\ St[cur] = "pending" /\ St'[cur] = "ok"
            /\ answer' = [answer EXCEPT ![cur] = answer'[cur]]
            /\ Poisoned \/ OwnInOrder(cur, answer'[cur]),
         Poisoned' \in {Poisoned, TRUE},
         Poisoned' # Poisoned => UNCHANGED answer,
         UNCHANGED Line
  PROVE  Service!Next
BY DEF Service!Next, Service!Conclude, Service!Settled, Service!OwnInOrder, OwnInOrder,
       Settles, St, Status, Line, Poisoned

-----------------------------------------------------------------------------
(* Every step of the node is one of the service's, or a stutter *)

(* create(), the drop of the handle and the hook: by the time the node is    *)
(* handed out, WaitForReady has left the queue and nothing else was in it.   *)
LEMMA HostStutters ==
  ASSUME TurnsInv, Create \/ DropNode \/ InstallHook
  PROVE  UNCHANGED ServiceVars
<1>1. UNCHANGED <<callVars, cur, abandoned>>
  BY DEF Create, IpcSetup, SpawnRunner, SpawnFails, ReadyReplied, ObserveExit,
     GraceExpires, DropNode, InstallHook, ipcVars, histVars
<1>2. UNCHANGED Line
  <2>1. CASE ReadyReplied
    <3>1. ASSUME queue # <<>> PROVE HandedOut
      <4>1. 1 \in 1 .. Len(queue)
        BY <3>1, EmptySeq DEF TurnsInv, TypeOK
      <4>2. queue[1] # WaitForReady
        BY <2>1, <4>1 DEF ReadyReplied, TurnsInv, TurnsAligned, ReadyOnce
      <4>. QED
        BY <4>1, <4>2 DEF TurnsInv, Handshake
    <3>2. queue' = queue
      BY <2>1 DEF ReadyReplied, ipcVars
    <3>3. HandedOut => HandedOut'
      BY <2>1 DEF ReadyReplied, HandedOut
    <3>. QED
      BY <3>1, <3>2, <3>3 DEF Line
  <2>2. CASE IpcSetup \/ SpawnRunner \/ SpawnFails \/ ObserveExit \/ GraceExpires
    <3>1. ~HandedOut /\ ~HandedOut'
      BY <2>2 DEF IpcSetup, SpawnRunner, SpawnFails, ObserveExit, GraceExpires, HandedOut,
         TurnsInv, Handshake
    <3>. QED
      BY <3>1 DEF Line
  <2>3. CASE DropNode \/ InstallHook
    BY <2>3 DEF DropNode, InstallHook, Line, HandedOut, ipcVars
  <2>. QED
    BY <2>1, <2>2, <2>3 DEF Create
<1>. QED
  BY <1>1, <1>2 DEF ServiceVars, St, Poisoned, callVars

(* The callers. *)
LEMMA CallerServed ==
  ASSUME TurnsInv, TurnsInv', NEW c \in Calls, Submit(c) \/ Cancel(c) \/ CallerStep(c)
  PROVE  Service!Next
<1>. USE DEF Status
<1>0. TypeOK /\ St[c] = Status(call[c])
  BY DEF TurnsInv, St
<1>1. CASE Submit(c)
  <2>1. UNCHANGED <<cur, Poisoned, answer, Line>>
    BY <1>1 DEF Submit, hostVars, ipcVars, histVars, Poisoned, Line, HandedOut
  <2>2. PICK state \in {"sending", "err"} : call' = [call EXCEPT ![c] = state]
    BY <1>1 DEF Submit
  <2>3. St' = [St EXCEPT ![c] = Status(state)]
    BY <1>0, <2>2, StatusSet
  <2>4. St[c] = "new"
    BY <1>0, <1>1 DEF Submit
  <2>. QED
    BY <2>1, <2>2, <2>3, <2>4, ServiceCaller
<1>2. CASE Cancel(c)
  <2>1. UNCHANGED <<cur, Poisoned, answer, Line>>
    BY <1>2 DEF Cancel, hostVars, ipcVars, histVars, Poisoned, Line, HandedOut
  <2>2. St' = [St EXCEPT ![c] = "cancelled"]
    BY <1>0, <1>2, StatusSet DEF Cancel
  <2>3. St[c] \in {"pending", "served"}
    BY <1>0, <1>2 DEF Cancel
  <2>. QED
    BY <2>1, <2>2, <2>3, ServiceCaller
<1>3. CASE StreamDone(c)
  <2>1. UNCHANGED <<cur, Poisoned, answer, Line>>
    BY <1>3 DEF StreamDone, hostVars, ipcVars, histVars, Poisoned, Line, HandedOut
  <2>2. PICK state \in {"ok", "err"} : call' = [call EXCEPT ![c] = state]
    BY <1>0, <1>3 DEF StreamDone, TypeOK
  <2>3. St' = [St EXCEPT ![c] = Status(state)]
    BY <1>0, <2>2, StatusSet
  <2>4. St[c] = "served"
    BY <1>0, <1>3 DEF StreamDone
  <2>. QED
    BY <2>1, <2>2, <2>3, <2>4, ServiceCaller
<1>4. CASE Enqueue(c)
  <2>1. call[c] = "sending" /\ call' = [call EXCEPT ![c] = "waiting"] /\ queue' = Append(queue, c)
    BY <1>4 DEF Enqueue
  <2>2. UNCHANGED <<cur, Poisoned, answer, host>>
    BY <1>4 DEF Enqueue, hostVars, histVars, Poisoned
  <2>3. St[c] = "pending" /\ UNCHANGED St
    <3>1. St' = [St EXCEPT ![c] = "pending"]
      BY <1>0, <2>1, StatusSet
    <3>2. St[c] = "pending"
      BY <1>0, <2>1
    <3>. QED
      BY <3>1, <3>2 DEF St
  <2>4. HandedOut /\ HandedOut'
    BY <2>1, <2>2 DEF TurnsInv, Handshake, HandedOut
  <2>5. Line = queue /\ Line' = Append(Line, c)
    BY <2>1, <2>4 DEF Line
  <2>6. cur # c /\ \A i \in 1 .. Len(queue) : queue[i] # c
    BY <2>1 DEF TurnsInv, TurnsAligned, AtMostOnce, InQueue
  <2>. QED
    BY <2>2, <2>3, <2>5, <2>6, ServiceAccepts
<1>5. CASE TakeFrame(c)
  <2>1. UNCHANGED <<St, cur, Poisoned, Line>>
    BY <1>5 DEF TakeFrame, hostVars, ipcVars, histVars, Poisoned, Line, HandedOut, St
  <2>2. St[c] \in {"pending", "served"}
    BY <1>0, <1>5 DEF TakeFrame
  <2>. DEFINE f == Head(chan[c])
  <2>3. answer' = [answer EXCEPT ![c] = Append(@, f)] /\ chan[c] # <<>>
    BY <1>5 DEF TakeFrame
  <2>4. answer[c] \in Seq(Frame) /\ f \in Frame
    BY <1>0, <2>3, HeadTailProperties DEF TypeOK
  <2>. HIDE DEF f
  <2>5. answer'[c] = Append(answer[c], f)
    BY <1>0, <2>3 DEF TypeOK
  <2>6. Len(answer'[c]) = Len(answer[c]) + 1 /\ answer'[c][Len(answer[c]) + 1] = f
    BY <2>4, <2>5, AppendProperties
  <2>7. answer' = [answer EXCEPT ![c] = Append(@, answer'[c][Len(@) + 1])]
    BY <2>3, <2>6
  <2>8. Poisoned \/ OwnInOrder(c, answer'[c])
    BY <2>1 DEF Poisoned, TurnsInv, TurnsAligned, InOrder, CallInOrder
  <2>. QED
    BY <2>1, <2>2, <2>6, <2>7, <2>8, ServiceDelivers
<1>. QED
  BY <1>1, <1>2, <1>3, <1>4, <1>5 DEF CallerStep

(* The IPC thread between turns: a command it takes is the head of the line. *)
LEMMA CommandServed ==
  ASSUME TurnsInv, TakeReadyCommand \/ BeginTurn \/ BeginFails
  PROVE  Service!Next \/ UNCHANGED ServiceVars
<1>1. /\ TypeOK /\ queue # <<>> /\ queue' = Tail(queue) /\ cur = None
      /\ UNCHANGED <<hostVars, answer, abandoned>>
  BY DEF TakeReadyCommand, BeginTurn, BeginFails, TurnsInv, TypeOK, Serving, callVars, histVars
<1>2. 1 \in 1 .. Len(queue) /\ Head(queue) = queue[1] /\ queue[1] \in Calls \cup {WaitForReady}
  BY <1>1, EmptySeq, HeadTailProperties DEF TypeOK
<1>3. UNCHANGED <<host, Poisoned>>
  BY <1>1 DEF hostVars, Poisoned
<1>4. CASE TakeReadyCommand
  <2>1. ~HandedOut
    BY <1>2, <1>4 DEF TakeReadyCommand, TurnsInv, TurnsAligned, ReadyOnce
  <2>2. UNCHANGED <<call, cur>>
    BY <1>4 DEF TakeReadyCommand, callVars
  <2>. QED
    BY <1>1, <1>3, <2>1, <2>2 DEF ServiceVars, St, Line, HandedOut
<1>5. ASSUME Head(queue) # WaitForReady
      PROVE  Line = queue /\ Line' = Tail(Line) /\ Head(queue) \in Calls
  <2>1. HandedOut
    BY <1>2, <1>5 DEF TurnsInv, Handshake
  <2>. QED
    BY <1>1, <1>2, <1>3, <1>5, <2>1 DEF Line, HandedOut
<1>6. CASE BeginTurn
  <2>1. Head(queue) # WaitForReady /\ cur' = Head(queue) /\ UNCHANGED call
    BY <1>6 DEF BeginTurn, callVars
  <2>. QED
    BY <1>1, <1>3, <1>5, <2>1, StatusKept, ServiceServes
<1>7. CASE BeginFails
  <2>1. Head(queue) # WaitForReady /\ UNCHANGED cur
    BY <1>7 DEF BeginFails
  <2>2. PICK c \in Calls : c = Head(queue)
    BY <1>5, <2>1
  <2>3. call[c] \in {"waiting", "cancelled"} /\ St[c] = Status(call[c])
    BY <1>2, <2>2 DEF TurnsInv, TurnsAligned, AtMostOnce, InQueue, St
  <2>4. PICK state \in {"broken", "err"} : Reply(c, state)
    BY <1>7, <2>2 DEF BeginFails, Failure
  <2>5. Settles(c, Status(state)) /\ Status(state) \in {"err", "served"}
    <3>1. CASE call[c] = "waiting"
      <4>1. call' = [call EXCEPT ![c] = state]
        BY <2>4, <3>1 DEF Reply
      <4>2. St' = [St EXCEPT ![c] = Status(state)]
        BY <1>1, <4>1, StatusSet
      <4>. QED
        BY <2>3, <3>1, <4>2 DEF Settles, Status
    <3>2. CASE call[c] = "cancelled"
      <4>1. UNCHANGED St
        BY <2>4, <3>2, StatusKept DEF Reply
      <4>. QED
        BY <2>3, <3>2, <4>1 DEF Settles, Status
    <3>. QED
      BY <2>3, <3>1, <3>2
  <2>. QED
    BY <1>1, <1>3, <1>5, <2>1, <2>2, <2>5, ServiceRefuses
<1>. QED
  BY <1>4, <1>6, <1>7

(* The end of a turn is the service's: a caller that still waits has its     *)
(* answer, a caller that gave up keeps what it had.                          *)
LEMMA TurnConcluded ==
  ASSUME TurnsInv, TurnsInv', RecvEnd \/ RecvFault
  PROVE  Service!Next
<1>1. TypeOK /\ cur' = None /\ UNCHANGED <<hostVars, queue>> /\ Serving
  BY DEF RecvEnd, RecvFault, EndTurn, TurnsInv, Serving
<1>2. PICK c \in Calls : c = cur
  BY <1>1 DEF TypeOK
<1>3. c # None /\ UNCHANGED Line
  BY <1>1, PyIpcAssumption DEF PyIpcAssumption, Line, HandedOut, hostVars
<1>4. call[c] \in {"waiting", "cancelled"} /\ St[c] = Status(call[c])
  BY <1>2 DEF TurnsInv, TurnsAligned, AtMostOnce, St
<1>5. ASSUME NEW state \in {"ok", "err", "closed", "broken"}, Reply(c, state)
      PROVE  /\ Settles(c, Status(state)) /\ Status(state) \in {"ok", "err", "served"}
             /\ St[c] = "pending" <=> call[c] = "waiting"
             /\ call[c] = "waiting" => St'[c] = Status(state)
  <2>1. CASE call[c] = "waiting"
    <3>1. call' = [call EXCEPT ![c] = state]
      BY <1>5, <2>1 DEF Reply
    <3>2. St' = [St EXCEPT ![c] = Status(state)]
      BY <1>1, <3>1, StatusSet
    <3>3. St[c] = "pending" /\ St'[c] = Status(state)
      BY <1>4, <2>1, <3>2 DEF Status, St
    <3>. QED
      BY <2>1, <3>2, <3>3 DEF Settles, Status
  <2>2. CASE call[c] = "cancelled"
    <3>1. UNCHANGED St
      BY <1>5, <2>2, StatusKept DEF Reply
    <3>. QED
      BY <1>4, <2>2, <3>1 DEF Settles, Status
  <2>. QED
    BY <1>4, <2>1, <2>2
<1>6. CASE RecvFault
  <2>1. PICK state \in {"err", "broken"} : Reply(c, state)
    BY <1>2, <1>6 DEF RecvFault, Failure
  <2>2. UNCHANGED answer /\ Poisoned' \in {Poisoned, TRUE}
    BY <1>6 DEF RecvFault, Poisoned
  <2>3. Settles(c, Status(state)) /\ Status(state) \in {"ok", "err", "served"}
    BY <1>5, <2>1
  <2>. QED
    BY <1>1, <1>2, <1>3, <2>2, <2>3, ServiceConcludes
<1>7. CASE RecvEnd
  <2>1. PICK r \in {"ok", "err", "closed"} :
          /\ Reply(c, r)
          /\ answer' = IF r = "ok" /\ call[c] = "waiting" THEN [answer EXCEPT ![c] = got]
                                                          ELSE answer
    BY <1>2, <1>7 DEF RecvEnd, Outcomes
  <2>2. UNCHANGED Poisoned
    BY <1>7 DEF RecvEnd, Poisoned
  <2>3. /\ Settles(c, Status(r)) /\ Status(r) \in {"ok", "err", "served"}
        /\ St[c] = "pending" <=> call[c] = "waiting"
        /\ call[c] = "waiting" => St'[c] = Status(r)
    BY <1>5, <2>1
  <2>4. \/ UNCHANGED answer
        \/ /\ St[c] = "pending" /\ St'[c] = "ok"
           /\ answer' = [answer EXCEPT ![c] = answer'[c]]
           /\ Poisoned \/ OwnInOrder(c, answer'[c])
    <3>1. CASE r = "ok" /\ call[c] = "waiting"
      <4>1. answer' = [answer EXCEPT ![c] = got] /\ answer'[c] = got
        BY <1>1, <2>1, <3>1 DEF TypeOK
      <4>2. St[c] = "pending" /\ St'[c] = "ok"
        BY <2>3, <3>1 DEF Status
      <4>3. Poisoned \/ OwnInOrder(c, answer'[c])
        BY <2>2 DEF Poisoned, TurnsInv, TurnsAligned, InOrder, CallInOrder
      <4>. QED
        BY <4>1, <4>2, <4>3
    <3>. QED
      BY <2>1, <3>1
  <2>. QED
    BY <1>1, <1>2, <1>3, <2>2, <2>3, <2>4, ServiceConcludes
<1>. QED
  BY <1>6, <1>7

(* The rest of the IPC thread and the runner are none of the callers'        *)
(* business.                                                                 *)
LEMMA InnerStutters ==
  ASSUME \/ PollReady \/ ReadyGivesUp \/ PollControl \/ RecvRound \/ RecvMulti
         \/ RecvStream \/ Forward \/ ConsumerGone \/ RecvNothing \/ IpcExit
         \/ RunnerWork \/ RunnerDies \/ UNCHANGED vars
  PROVE  UNCHANGED ServiceVars
<1>1. UNCHANGED <<host, call, answer, queue, cur, abandoned>>
  BY DEF PollReady, ReadyGivesUp, PollControl, RecvRound, RecvMulti, RecvStream, Forward,
     ConsumerGone, RecvNothing, IpcExit, RunnerWork, RunnerReady, RunnerNote, RunnerTake,
     RunnerEmit, RunnerEnd, RunnerDies, vars, hostVars, callVars, ipcVars, histVars
<1>. QED
  BY <1>1 DEF ServiceVars, St, Line, HandedOut, Poisoned

(* The initial states are the service's. *)
LEMMA ServiceStarts == Init => Service!Init
<1>. SUFFICES ASSUME Init PROVE Service!Init
  OBVIOUS
<1>1. \A c \in Calls : call[c] = "new"
  BY DEF Init
<1>2. St = [c \in Calls |-> "new"] /\ Line = <<>> /\ Poisoned = FALSE
  BY <1>1 DEF Init, St, Status, Line, Poisoned
<1>3. cur = None /\ answer = [c \in Calls |-> <<>>]
  BY DEF Init
<1>. QED
  BY <1>2, <1>3 DEF Service!Init, St, Status, Line, Poisoned

(* The node keeps what it promises its callers: requests are served one at a *)
(* time in the order they were accepted, and until a receive() fails what a  *)
(* caller is given are frames of its own turn in order, whatever the other   *)
(* callers, the runner and the host do meanwhile.                            *)
THEOREM NodeImplementsService == Spec => ServiceSpec
<1>1. TurnsInv /\ TurnsInv' /\ [Next]_vars => [Service!Next]_(Service!svars)
  <2>1. SUFFICES ASSUME TurnsInv, TurnsInv', [Next]_vars
                 PROVE  Service!Next \/ UNCHANGED Service!svars
    OBVIOUS
  <2>2. CASE Create \/ DropNode \/ InstallHook
    BY <2>1, <2>2, HostStutters, ServiceStutter
  <2>3. CASE \E c \in Calls : Submit(c) \/ Cancel(c) \/ CallerStep(c)
    BY <2>1, <2>3, CallerServed
  <2>4. CASE TakeReadyCommand \/ BeginTurn \/ BeginFails
    BY <2>1, <2>4, CommandServed, ServiceStutter
  <2>5. CASE RecvEnd \/ RecvFault
    BY <2>1, <2>5, TurnConcluded
  <2>6. CASE \/ PollReady \/ ReadyGivesUp \/ PollControl \/ RecvRound \/ RecvMulti
             \/ RecvStream \/ Forward \/ ConsumerGone \/ RecvNothing \/ IpcExit
             \/ RunnerWork \/ RunnerDies \/ UNCHANGED vars
    BY <2>6, InnerStutters, ServiceStutter
  <2>. QED
    BY <2>1, <2>2, <2>3, <2>4, <2>5, <2>6 DEF Next, IpcThread
<1>. QED
  BY <1>1, ServiceStarts, TurnsInvariant, PTL DEF Spec, ServiceSpec, Service!Spec

-----------------------------------------------------------------------------
(* The control messages of a turn *)

(* Only the end of a turn answers a waiting caller with success.             *)
LEMMA OnlyTheEndAnswers ==
  ASSUME TypeOK, [Next]_vars, NEW c \in Calls,
         call[c] = "waiting", call'[c] \in {"ok", "closed"}
  PROVE  RecvEnd
<1>1. ~UNCHANGED call
  OBVIOUS
<1>2. ASSUME NEW d \in Calls, Submit(d) \/ Cancel(d) \/ Enqueue(d) \/ StreamDone(d)
      PROVE  FALSE
  BY <1>2 DEF Submit, Cancel, Enqueue, StreamDone, TypeOK
<1>3. ~BeginFails /\ ~RecvFault
  BY DEF BeginFails, RecvFault, Reply, Failure, TypeOK
<1>. QED
  BY <1>1, <1>2, <1>3 DEF Next, Create, IpcSetup, SpawnRunner, SpawnFails, ReadyReplied,
     ObserveExit, GraceExpires, DropNode, InstallHook, CallerStep, TakeFrame, IpcThread,
     TakeReadyCommand, PollReady, ReadyGivesUp, BeginTurn, PollControl, RecvRound, RecvMulti,
     RecvStream, Forward, ConsumerGone, RecvNothing, IpcExit, RunnerWork, RunnerReady,
     RunnerNote, RunnerTake, RunnerEmit, RunnerEnd, RunnerDies, vars, callVars

(* When a turn's answer reaches its caller the control channel has been      *)
(* drained: no message of the turn is left for the next one                  *)
(* (python_ipc.rs:885), whatever the runner published and when.              *)
THEOREM NoStragglers == Spec => StragglersForwarded
<1>. DEFINE Drained ==
       \A c \in Calls :
         /\ call[c] = "waiting" /\ call'[c] \in {"ok", "closed"}
         /\ hook /\ faults' = 0
         => \A i \in 1 .. Len(control') : control'[i] # c
<1>1. TypeOK /\ [Next]_vars => [Drained]_vars
  <2>. SUFFICES ASSUME TypeOK, [Next]_vars, NEW c \in Calls,
                       call[c] = "waiting", call'[c] \in {"ok", "closed"}, hook, faults' = 0
                PROVE  \A i \in 1 .. Len(control') : control'[i] # c
    OBVIOUS
  <2>1. DrainControl
    BY OnlyTheEndAnswers DEF RecvEnd, FinalDrain
  <2>2. control' = <<>>
    BY <2>1 DEF DrainControl, TypeOK
  <2>. QED
    BY <2>2
<1>. QED
  BY <1>1, TypeCorrect, PTL DEF Spec, StragglersForwarded

-----------------------------------------------------------------------------
(* How far the output channel runs behind *)

(* The sentinels among the first n samples of s. *)
Ends(s, n) == {i \in 1 .. n : IsEnd(s[i])}
One(condition) == IF condition THEN 1 ELSE 0

(* There are finitely many, so they can be counted. *)
LEMMA EndsFinite ==
  ASSUME NEW s, NEW n \in Nat
  PROVE  IsFiniteSet(Ends(s, n)) /\ Cardinality(Ends(s, n)) \in Nat
<1>1. IsFiniteSet(1 .. n)
  BY FS_Interval
<1>. QED
  BY <1>1, FS_Subset, FS_CardinalityType DEF Ends

(* A sample more counts if it is a sentinel. *)
LEMMA EndsLonger ==
  ASSUME NEW s, NEW n \in Nat
  PROVE  Cardinality(Ends(s, n + 1)) = Cardinality(Ends(s, n)) + One(IsEnd(s[n + 1]))
<1>1. n + 1 \notin Ends(s, n)
  BY DEF Ends
<1>2. Ends(s, n + 1) = IF IsEnd(s[n + 1]) THEN Ends(s, n) \cup {n + 1} ELSE Ends(s, n)
  BY DEF Ends
<1>. QED
  BY <1>1, <1>2, EndsFinite, FS_AddElement DEF One

(* When every sample moves up by one, the oldest no longer counts. *)
LEMMA EndsMoved ==
  ASSUME NEW s, NEW t, NEW n \in Nat, \A i \in 1 .. n : t[i] = s[i + 1]
  PROVE  Cardinality(Ends(s, n + 1)) = Cardinality(Ends(t, n)) + One(IsEnd(s[1]))
<1>. DEFINE S == Ends(s, n + 1) \ {1}
            f == [i \in Ends(t, n) |-> i + 1]
<1>1. f \in Bijection(Ends(t, n), S)
  <2>1. \A i \in Ends(t, n) : i \in 1 .. n /\ f[i] = i + 1 /\ f[i] \in S
    BY DEF Ends
  <2>2. \A i, j \in Ends(t, n) : f[i] = f[j] => i = j
    BY <2>1
  <2>3. \A k \in S : k - 1 \in Ends(t, n) /\ f[k - 1] = k
    BY DEF Ends
  <2>. HIDE DEF f, S
  <2>4. f \in [Ends(t, n) -> S]
    BY <2>1 DEF f
  <2>. QED
    BY <2>2, <2>3, <2>4, Fun_IsBij
<1>2. Cardinality(S) = Cardinality(Ends(t, n))
  BY <1>1, EndsFinite, FS_Bijection DEF ExistsBijection
<1>3. 1 \in Ends(s, n + 1) <=> IsEnd(s[1])
  BY DEF Ends
<1>4. /\ IsFiniteSet(Ends(s, n + 1)) /\ Cardinality(Ends(s, n + 1)) \in Nat
      /\ Cardinality(Ends(t, n)) \in Nat
  BY EndsFinite
<1>5. Cardinality(S) = IF 1 \in Ends(s, n + 1) THEN Cardinality(Ends(s, n + 1)) - 1
                                                ELSE Cardinality(Ends(s, n + 1))
  BY <1>4, FS_RemoveElement
<1>. HIDE DEF S
<1>. QED
  BY <1>2, <1>3, <1>4, <1>5 DEF One

(* A push adds at most its own sample to the count ... *)
LEMMA EndsPushed ==
  ASSUME NEW s, NEW x, NEW t, Shifted(s, x, t)
  PROVE  Cardinality(Ends(t, Len(t))) <= Cardinality(Ends(s, Len(s))) + One(IsEnd(x))
<1>. DEFINE m == Len(s)  n == Len(t) - 1
<1>1. /\ m \in Nat /\ n \in Nat /\ Len(t) = n + 1 /\ t[n + 1] = x
      /\ \/ n = m /\ \A i \in 1 .. n : t[i] = s[i]
         \/ n + 1 = m /\ \A i \in 1 .. n : t[i] = s[i + 1]
  BY DEF Shifted
<1>. HIDE DEF m, n
<1>2. Cardinality(Ends(t, n + 1)) = Cardinality(Ends(t, n)) + One(IsEnd(x))
  BY <1>1, EndsLonger
<1>3. Cardinality(Ends(t, n)) <= Cardinality(Ends(s, m))
  <2>1. CASE n = m /\ \A i \in 1 .. n : t[i] = s[i]
    <3>1. Ends(t, n) = Ends(s, m)
      BY <2>1 DEF Ends
    <3>. QED
      BY <1>1, <3>1, EndsFinite
  <2>2. CASE n + 1 = m /\ \A i \in 1 .. n : t[i] = s[i + 1]
    <3>1. Cardinality(Ends(s, n + 1)) = Cardinality(Ends(t, n)) + One(IsEnd(s[1]))
      BY <1>1, <2>2, EndsMoved
    <3>2. Cardinality(Ends(t, n)) \in Nat /\ Cardinality(Ends(s, n + 1)) \in Nat
      BY <1>1, EndsFinite
    <3>3. One(IsEnd(s[1])) \in {0, 1}
      BY DEF One
    <3>. QED
      BY <2>2, <3>1, <3>2, <3>3
  <2>. QED
    BY <1>1, <2>1, <2>2
<1>4. /\ Cardinality(Ends(t, n)) \in Nat /\ Cardinality(Ends(t, n + 1)) \in Nat
      /\ Cardinality(Ends(s, m)) \in Nat /\ One(IsEnd(x)) \in {0, 1}
  BY <1>1, EndsFinite DEF One
<1>5. Cardinality(Ends(t, n + 1)) <= Cardinality(Ends(s, m)) + One(IsEnd(x))
  BY <1>2, <1>3, <1>4
<1>. QED
  BY <1>1, <1>5 DEF m

(* ... and a receive takes its sample from it. *)
LEMMA EndsReceived ==
  ASSUME NEW f, OutputLoses(f)
  PROVE  Cardinality(Ends(output, Len(output)))
           = Cardinality(Ends(output', Len(output'))) + One(IsEnd(f))
<1>. DEFINE n == Len(output')
<1>1. n \in Nat /\ Len(output) = n + 1 /\ output[1] = f /\ \A i \in 1 .. n : output'[i] = output[i + 1]
  BY DEF OutputLoses
<1>. HIDE DEF n
<1>2. Cardinality(Ends(output, n + 1)) = Cardinality(Ends(output', n)) + One(IsEnd(output[1]))
  BY <1>1, EndsMoved
<1>. QED
  BY <1>1, <1>2 DEF n

(* The turns not yet read to their end, one by one: requests the runner has  *)
(* not taken, the one it processes, sentinels that wait.                     *)
Untaken == Len(input)
Processing == One(rn = "busy")
Ended == Cardinality(Ends(output, Len(output)))
Cut == Cardinality(abandoned)
Turns == One(Serving)

Skew == IsFiniteSet(abandoned) /\ Untaken + Processing + Ended <= Cut + Turns

(* The counts are natural numbers. *)
LEMMA SkewCounts ==
  ASSUME TypeOK, IsFiniteSet(abandoned)
  PROVE  /\ Untaken \in Nat /\ Ended \in Nat /\ Cut \in Nat
         /\ Processing \in {0, 1} /\ Turns \in {0, 1}
<1>1. Len(input) \in Nat /\ Len(output) \in Nat
  BY LenProperties DEF TypeOK
<1>. QED
  BY <1>1, EndsFinite, FS_CardinalityType DEF Untaken, Ended, Cut, Processing, Turns, One

(* A step that touches none of the counts. *)
LEMMA SkewFrame ==
  ASSUME Skew, UNCHANGED <<input, output, abandoned>>, Serving' = Serving,
         (rn' = "busy") = (rn = "busy")
  PROVE  Skew'
<1>1. /\ Untaken' = Untaken /\ Ended' = Ended /\ Cut' = Cut
      /\ Processing' = Processing /\ Turns' = Turns /\ UNCHANGED abandoned
  BY DEF Untaken, Ended, Cut, Processing, Turns, One
<1>. QED
  BY <1>1, Zenon DEF Skew

(* Nothing is outstanding at first. *)
LEMMA SkewInit == Init => Skew
<1>. SUFFICES ASSUME Init PROVE Skew
  OBVIOUS
<1>1. Ends(output, Len(output)) = {} /\ Len(input) = 0 /\ abandoned = {}
  BY DEF Init, Ends
<1>2. Untaken = 0 /\ Processing = 0 /\ Ended = 0 /\ Cut = 0 /\ Turns = 0
  BY <1>1, FS_EmptySet DEF Init, Untaken, Processing, Ended, Cut, Turns, One, Serving
<1>. QED
  BY <1>1, <1>2, FS_EmptySet DEF Skew

(* The runner moves a turn along, or drops it by dying. *)
LEMMA SkewRunner ==
  ASSUME TypeOK, TypeOK', Skew, RunnerWork \/ RunnerDies
  PROVE  Skew'
<1>0. UNCHANGED <<abandoned, pc>>
  BY DEF RunnerWork, RunnerReady, RunnerNote, RunnerTake, RunnerEmit, RunnerEnd, RunnerDies,
     ipcVars, histVars
<1>1. IsFiniteSet(abandoned') /\ Cut' = Cut /\ Turns' = Turns
  BY <1>0 DEF Skew, Cut, Turns, Serving
<1>2. /\ Untaken \in Nat /\ Ended \in Nat /\ Cut \in Nat
      /\ Processing \in {0, 1} /\ Turns \in {0, 1}
  BY SkewCounts DEF Skew
<1>3. /\ Untaken' \in Nat /\ Ended' \in Nat /\ Processing' \in {0, 1}
  <2>1. Len(input') \in Nat /\ Len(output') \in Nat
    BY LenProperties DEF TypeOK
  <2>. QED
    BY <2>1, EndsFinite DEF Untaken, Ended, Processing, One
<1>4. Untaken' + Processing' + Ended' <= Untaken + Processing + Ended
  <2>1. CASE RunnerReady \/ RunnerNote
    BY <1>2, <2>1 DEF RunnerReady, RunnerNote, Untaken, Processing, Ended, One, rnVars
  <2>2. CASE RunnerTake
    <3>1. Untaken' = Untaken - 1
      BY <2>2, HeadTailProperties DEF RunnerTake, TypeOK, Untaken
    <3>2. Processing = 0 /\ Processing' = 1 /\ Ended' = Ended
      BY <2>2 DEF RunnerTake, Processing, Ended, One
    <3>. QED
      BY <1>2, <1>3, <3>1, <3>2
  <2>3. CASE RunnerEmit \/ RunnerEnd
    <3>1. PICK f \in Frame :
            /\ Shifted(output, f, output')
            /\ (RunnerEmit /\ ~IsEnd(f)) \/ (RunnerEnd /\ IsEnd(f))
      BY <2>3, Emitted
    <3>2. Ended' <= Ended + One(IsEnd(f))
      BY <3>1, EndsPushed DEF Ended
    <3>3. Untaken' = Untaken
      BY <2>3 DEF RunnerEmit, RunnerEnd, Untaken
    <3>4. One(IsEnd(f)) \in {0, 1} /\ Processing' + One(IsEnd(f)) <= Processing
      BY <3>1 DEF RunnerEmit, RunnerEnd, Processing, One, rnVars
    <3>. DEFINE o == One(IsEnd(f))  u == Untaken  p == Processing  e == Ended
                p1 == Processing'  e1 == Ended'
    <3>5. /\ u \in Nat /\ p \in Nat /\ e \in Nat /\ p1 \in Nat /\ e1 \in Nat /\ o \in Nat
          /\ e1 <= e + o /\ p1 + o <= p
      BY <1>2, <1>3, <3>2, <3>4
    <3>. HIDE DEF o, u, p, e, p1, e1
    <3>6. u + p1 + e1 <= u + p + e
      BY <3>5
    <3>. QED
      BY <3>3, <3>6 DEF u, p, e, p1, e1
  <2>4. CASE RunnerDies
    <3>1. Untaken' = 0 /\ Processing' = 0 /\ Ended' = Ended
      BY <2>4, EmptySeq DEF RunnerDies, Untaken, Processing, Ended, One
    <3>. QED
      BY <1>2, <3>1
  <2>. QED
    BY <2>1, <2>2, <2>3, <2>4 DEF RunnerWork
<1>. DEFINE u == Untaken  p == Processing  e == Ended  y == Cut + Turns
            u1 == Untaken'  p1 == Processing'  e1 == Ended'
<1>5. /\ u \in Nat /\ p \in Nat /\ e \in Nat /\ u1 \in Nat /\ p1 \in Nat /\ e1 \in Nat
  BY <1>2, <1>3
<1>6. y \in Nat
  BY <1>2
<1>7. u + p + e <= y /\ u1 + p1 + e1 <= u + p + e
  BY <1>4, Zenon DEF Skew
<1>. HIDE DEF u, p, e, y, u1, p1, e1
<1>8. u1 + p1 + e1 <= y
  BY <1>5, <1>6, <1>7
<1>9. Untaken' + Processing' + Ended' <= Cut' + Turns'
  BY <1>1, <1>8, Zenon DEF u1, p1, e1, y
<1>. QED
  BY <1>1, <1>9, Zenon DEF Skew

(* The IPC thread begins a turn for each request it publishes, and ends one  *)
(* for each sentinel it reads or receive error it meets.                     *)
LEMMA SkewIpcThread ==
  ASSUME TypeOK, TypeOK', AtMostOnce, Skew, IpcThread
  PROVE  Skew'
<1>1. /\ Untaken \in Nat /\ Ended \in Nat /\ Cut \in Nat
      /\ Processing \in {0, 1} /\ Turns \in {0, 1} /\ IsFiniteSet(abandoned)
  BY SkewCounts DEF Skew
<1>2. UNCHANGED rn /\ Processing' = Processing
  BY DEF IpcThread, TakeReadyCommand, PollReady, ReadyGivesUp, BeginTurn, BeginFails,
     PollControl, RecvRound, RecvMulti, RecvStream, Forward, ConsumerGone, RecvEnd,
     RecvNothing, RecvFault, IpcExit, rnVars, Processing, One
<1>3. /\ Untaken' \in Nat /\ Ended' \in Nat
  <2>1. Len(input') \in Nat /\ Len(output') \in Nat
    BY LenProperties DEF TypeOK
  <2>. QED
    BY <2>1, EndsFinite DEF Untaken, Ended
<1>. DEFINE u == Untaken  p == Processing  e == Ended  k == Cut  t == Turns
            u1 == Untaken'  e1 == Ended'  k1 == Cut'  t1 == Turns'
<1>4. CASE BeginTurn
  <2>1. UNCHANGED <<abandoned, output>> /\ t = 0 /\ t1 = 1
    BY <1>4 DEF BeginTurn, histVars, Turns, Serving, One
  <2>2. Untaken' <= Untaken + 1
    <3>1. Head(queue) \in Calls
      BY <1>4, HeadTailProperties DEF BeginTurn, TypeOK
    <3>2. Len(input) \in Nat /\ Shifted(input, Head(queue), Push(input, Head(queue)))
      BY <3>1, LenProperties, PushProperties DEF TypeOK
    <3>3. input' = Push(input, Head(queue)) \/ input' = input
      BY <1>4 DEF BeginTurn, Publish
    <3>. QED
      BY <3>2, <3>3 DEF Shifted, Untaken
  <2>3. e1 = e /\ k1 = k /\ IsFiniteSet(abandoned')
    BY <1>1, <2>1 DEF Ended, Cut
  <2>4. /\ u \in Nat /\ p \in Nat /\ e \in Nat /\ k \in Nat /\ u1 \in Nat
        /\ u1 <= u + 1
    BY <1>1, <1>3, <2>2
  <2>5. u + p + e <= k + t
    BY DEF Skew
  <2>. HIDE DEF u, p, e, k, t, u1, e1, k1, t1
  <2>6. u1 + p + e1 <= k1 + t1
    BY <2>1, <2>3, <2>4, <2>5
  <2>. QED
    BY <1>2, <2>3, <2>6, Zenon DEF Skew, u1, p, e1, k1, t1
<1>5. CASE RecvEnd
  <2>1. /\ output # <<>> /\ output' = Tail(output) /\ IsEnd(Head(output))
        /\ UNCHANGED <<abandoned, input>> /\ t = 1 /\ t1 = 0
    BY <1>5 DEF RecvEnd, EndTurn, Turns, Serving, One
  <2>2. Ended = Ended' + 1
    BY <2>1, Received, EndsReceived DEF Ended, One
  <2>3. u1 = u /\ k1 = k /\ IsFiniteSet(abandoned')
    BY <1>1, <2>1 DEF Untaken, Cut
  <2>4. u \in Nat /\ p \in Nat /\ e \in Nat /\ k \in Nat /\ e1 \in Nat
    BY <1>1, <1>3
  <2>5. u + p + e <= k + t /\ e = e1 + 1
    BY <2>2 DEF Skew
  <2>. HIDE DEF u, p, e, k, t, u1, e1, k1, t1
  <2>6. u1 + p + e1 <= k1 + t1
    BY <2>1, <2>3, <2>4, <2>5
  <2>. QED
    BY <1>2, <2>3, <2>6, Zenon DEF Skew, u1, p, e1, k1, t1
<1>6. CASE RecvFault
  <2>1. /\ UNCHANGED <<input, output>> /\ abandoned' = abandoned \cup {cur}
        /\ t = 1 /\ t1 = 0
    BY <1>6 DEF RecvFault, EndTurn, chanVars, Turns, Serving, One
  <2>2. cur \notin abandoned
    BY DEF AtMostOnce
  <2>3. IsFiniteSet(abandoned') /\ k1 = k + 1
    BY <1>1, <2>1, <2>2, FS_AddElement DEF Cut
  <2>4. u1 = u /\ e1 = e
    BY <2>1 DEF Untaken, Ended
  <2>5. u \in Nat /\ p \in Nat /\ e \in Nat /\ k \in Nat
    BY <1>1
  <2>6. u + p + e <= k + t
    BY DEF Skew
  <2>. HIDE DEF u, p, e, k, t, u1, e1, k1, t1
  <2>7. u1 + p + e1 <= k1 + t1
    BY <2>1, <2>3, <2>4, <2>5, <2>6
  <2>. QED
    BY <1>2, <2>3, <2>7, Zenon DEF Skew, u1, p, e1, k1, t1
<1>7. CASE RecvRound \/ RecvMulti \/ RecvStream
  <2>1. /\ output # <<>> /\ output' = Tail(output) /\ ~IsEnd(Head(output))
        /\ UNCHANGED <<abandoned, input>> /\ Serving /\ Serving'
    BY <1>7 DEF RecvRound, RecvMulti, RecvStream, TakeOutput, histVars, Serving
  <2>2. Ended = Ended' + 0
    BY <2>1, Received, EndsReceived DEF Ended, One
  <2>3. Ended' = Ended
    <3>. HIDE DEF e, e1
    <3>1. e = e1 + 0 /\ e \in Nat /\ e1 \in Nat
      BY <1>1, <1>3, <2>2 DEF e, e1
    <3>2. e1 = e
      BY <3>1
    <3>. QED
      BY <3>2 DEF e, e1
  <2>4. /\ Untaken' = Untaken /\ Cut' = Cut /\ Turns' = Turns
    BY <2>1 DEF Untaken, Cut, Turns
  <2>. QED
    BY <1>1, <1>2, <2>1, <2>3, <2>4, Zenon DEF Skew
<1>8. CASE \/ TakeReadyCommand \/ PollReady \/ ReadyGivesUp \/ BeginFails \/ PollControl
           \/ Forward \/ ConsumerGone \/ RecvNothing \/ IpcExit
  <2>1. UNCHANGED <<input, output, abandoned, rn>> /\ Serving' = Serving
    BY <1>8 DEF TakeReadyCommand, PollReady, ReadyGivesUp, BeginFails, PollControl, Forward,
       ConsumerGone, RecvNothing, IpcExit, Serving, rnVars, chanVars, histVars
  <2>. QED
    BY <2>1, SkewFrame
<1>. QED
  BY <1>4, <1>5, <1>6, <1>7, <1>8 DEF IpcThread

(* The output channel never runs further behind the calls than the turns a   *)
(* receive error cut short: every other turn was read to its sentinel.       *)
THEOREM SkewBounded == Spec => []BoundedSkew
<1>1. TurnsInv /\ TurnsInv' /\ Skew /\ [Next]_vars => Skew'
  <2>. SUFFICES ASSUME TurnsInv, TurnsInv', Skew, [Next]_vars PROVE Skew'
    OBVIOUS
  <2>1. TypeOK /\ TypeOK' /\ AtMostOnce
    BY DEF TurnsInv, TurnsAligned
  <2>2. CASE IpcThread
    BY <2>1, <2>2, SkewIpcThread
  <2>3. CASE RunnerWork \/ RunnerDies
    BY <2>1, <2>3, SkewRunner
  <2>4. CASE IpcSetup \/ SpawnRunner
    <3>1. UNCHANGED <<input, output, abandoned>> /\ Serving' = Serving
          /\ (rn' = "busy") = (rn = "busy")
      BY <2>4 DEF IpcSetup, SpawnRunner, TurnsInv, Handshake, Serving, rnVars, chanVars, histVars
    <3>. QED
      BY <3>1, SkewFrame
  <2>5. CASE \/ SpawnFails \/ ReadyReplied \/ ObserveExit \/ GraceExpires \/ DropNode
             \/ InstallHook \/ \E c \in Calls : Submit(c) \/ Cancel(c) \/ CallerStep(c)
             \/ UNCHANGED vars
    <3>1. UNCHANGED <<input, output, abandoned, pc, rn>>
      BY <2>5 DEF SpawnFails, ReadyReplied, ObserveExit, GraceExpires, DropNode, InstallHook,
         Submit, Cancel, CallerStep, Enqueue, TakeFrame, StreamDone,
         vars, ipcVars, rnVars, chanVars, histVars
    <3>. QED
      BY <3>1, SkewFrame DEF Serving
  <2>. QED
    BY <2>2, <2>3, <2>4, <2>5 DEF Next, Create
<1>2. Skew => BoundedSkew
  BY Zenon DEF Skew, BoundedSkew, Outstanding, Untaken, Processing, Ended, Cut, Turns, One, Ends
<1>. QED
  BY <1>1, <1>2, SkewInit, TurnsInvariant, PTL DEF Spec
=============================================================================
