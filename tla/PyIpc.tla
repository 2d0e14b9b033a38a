------------------------------- MODULE PyIpc -------------------------------
(***************************************************************************)
(* One Python plugin node as the host sees it: the create() call that      *)
(* spawns the runner and waits for READY, the dedicated IPC thread that    *)
(* owns the iceoryx2 ports and serves commands one at a time, the          *)
(* process / process_multi / streaming futures that queue commands on it,  *)
(* and (external, from how python_ipc.rs uses them) the Python runner and  *)
(* the three iceoryx2 channels.                                            *)
(*                                                                         *)
(* A payload is abstracted to [turn, n]: the call whose input the runner   *)
(* was processing and the position of the frame in that turn; n = 0 is the *)
(* EndOfInput sentinel.                                                    *)
(***************************************************************************)
EXTENDS Naturals, Sequences, FiniteSets

CONSTANTS
  Calls,        (* the calls made on the node, each made at most once          *)
  None,         (* no call                                                     *)
  WaitForReady, (* the command of the READY handshake                          *)
  Ready,        (* the control message b"READY"                                *)
  Progress,     (* a PROGRESS: / DEPS: message published during initialize()   *)
  QueueCap,     (* capacity of the command channel                       (64)  *)
  BufCap,       (* samples a subscriber buffers before the oldest is lost (128)*)
  FrameCap,     (* capacity of a streaming caller's frame channel              *)
  MaxFrames,    (* bound: frames the runner emits for one input                *)
  MaxNotes,     (* bound: control messages, READY apart, the runner publishes  *)
  MaxFaults     (* bound: failing receive() calls                              *)

ASSUME PyIpcAssumption ==
  /\ None \notin Calls
  /\ {WaitForReady, Ready, Progress} \cap (Calls \cup {None}) = {}
  /\ Ready # Progress
  /\ QueueCap \in Nat \ {0} /\ BufCap \in Nat \ {0} /\ FrameCap \in Nat \ {0}
  /\ MaxFrames \in Nat /\ MaxNotes \in Nat /\ MaxFaults \in Nat

VARIABLES
  host,       (* spawn_runner_and_ipc, then the life of the node handle        *)
  ready,      (* the reply of WaitForReady: "none", "ok" or "err"              *)
  hook,       (* has the host installed the control message hook?              *)
  call,       (* the state of each call's future                               *)
  mode,       (* the command each call sends                                   *)
  answer,     (* the frames each caller has been given                         *)
  chan,       (* frame_tx / frame_rx of each streaming call                    *)
  queue,      (* the mpsc command channel                                      *)
  pc, cur,    (* the IPC thread: where it is, the call it serves               *)
  got,        (* its local outputs (or, streaming, the frame it is forwarding) *)
  rn, turn,   (* the runner: its state, the call whose input it processes      *)
  input, output, control,  (* samples buffered by the three subscribers        *)
  emitted,    (* history: frames the runner emitted for each call              *)
  notes,      (* history: control messages published so far                    *)
  lost,       (* history: calls that lost a frame to a full output buffer      *)
  abandoned,  (* history: calls whose turn a receive error cut short           *)
  faults      (* history: receive errors so far                                *)

hostVars == <<host, ready, hook>>
callVars == <<call, mode, answer, chan>>
ipcVars  == <<queue, pc, cur, got>>
rnVars   == <<rn, turn>>
chanVars == <<input, output, control>>
histVars == <<emitted, notes, lost, abandoned, faults>>
vars == <<hostVars, callVars, ipcVars, rnVars, chanVars, histVars>>

Modes == {"round", "multi", "stream"}
Frame == [turn : Calls, n : Nat]
EndOfInput(c) == [turn |-> c, n |-> 0]
IsEnd(f) == f.n = 0
Serving == pc \in {"poll", "recv", "park"}

-----------------------------------------------------------------------------
(* The ports *)

(* A subscriber's buffer: full, it loses its oldest sample (iceoryx2's safe  *)
(* overflow, which the services of spawn_ipc_thread leave at its default).   *)
Push(buffer, sample) ==
  Append(IF Len(buffer) < BufCap THEN buffer ELSE Tail(buffer), sample)

(* Publishing a request: a runner that has not attached yet, or is dead,     *)
(* never sees it.                                                            *)
Publish(c) ==
  input' = IF rn \in {"idle", "busy"} THEN Push(input, c) ELSE input

(* drain_control_messages: nothing without a hook; otherwise every waiting   *)
(* message goes to the hook, or those before a failing receive().            *)
DrainControl ==
  \/ /\ ~hook
     /\ UNCHANGED <<control, faults>>
  \/ /\ hook
     /\ control' = <<>>
     /\ UNCHANGED faults
  \/ /\ hook
     /\ faults < MaxFaults
     /\ faults' = faults + 1
     /\ \E k \in 0 .. Len(control) : control' = SubSeq(control, k + 1, Len(control))

(* Faulty variant: the answer does not wait for a last drain. *)
NoDrain == UNCHANGED <<control, faults>>

(* The drain that precedes the answer of a turn. *)
FinalDrain == DrainControl

(* reply.send(result): lost when the caller dropped its future. *)
Reply(c, state) ==
  call' = IF call[c] = "waiting" THEN [call EXCEPT ![c] = state] ELSE call

(* How a call fails: a streaming caller first sees its channel close. *)
Failure(c) == IF mode[c] = "stream" THEN "broken" ELSE "err"

-----------------------------------------------------------------------------
Init ==
  /\ host = "setup" /\ ready = "none" /\ hook = FALSE
  /\ call = [c \in Calls |-> "new"]
  /\ mode = [c \in Calls |-> "round"]
  /\ answer = [c \in Calls |-> <<>>]
  /\ chan = [c \in Calls |-> <<>>]
  /\ queue = <<>> /\ pc = "setup" /\ cur = None /\ got = <<>>
  /\ rn = "absent" /\ turn = None
  /\ input = <<>> /\ output = <<>> /\ control = <<>>
  /\ emitted = [c \in Calls |-> 0]
  /\ notes = 0 /\ lost = {} /\ abandoned = {} /\ faults = 0

-----------------------------------------------------------------------------
(* create(): spawn_runner_and_ipc *)

(* spawn_ipc_thread: the thread opens the services, then reports.            *)
IpcSetup ==
  /\ pc = "setup"
  /\ \/ pc' = "idle" /\ host' = "spawn"
     \/ pc' = "exit" /\ host' = "failed"
  /\ UNCHANGED <<ready, hook, callVars, queue, cur, got, rnVars, chanVars, histVars>>

(* The child starts only once the services exist, and WaitForReady is the    *)
(* first command.                                                            *)
SpawnRunner ==
  /\ host = "spawn"
  /\ host' = "await"
  /\ rn' = "starting"
  /\ queue' = Append(queue, WaitForReady)
  /\ UNCHANGED <<ready, hook, callVars, pc, cur, got, turn, chanVars, histVars>>

SpawnFails ==
  /\ host = "spawn"
  /\ host' = "failed"
  /\ UNCHANGED <<ready, hook, callVars, ipcVars, rnVars, chanVars, histVars>>

(* The reply of WaitForReady ends create() either way. *)
ReadyReplied ==
  /\ host \in {"await", "grace"}
  /\ ready # "none"
  /\ host' = IF ready = "ok" THEN "up" ELSE "failed"
  /\ UNCHANGED <<ready, hook, callVars, ipcVars, rnVars, chanVars, histVars>>

(* The 250 ms death poll sees the exit; the reply gets 200 ms more. *)
ObserveExit ==
  /\ host = "await"
  /\ rn = "dead"
  /\ host' = "grace"
  /\ UNCHANGED <<ready, hook, callVars, ipcVars, rnVars, chanVars, histVars>>

GraceExpires ==
  /\ host = "grace"
  /\ ready = "none"
  /\ host' = "failed"
  /\ UNCHANGED <<ready, hook, callVars, ipcVars, rnVars, chanVars, histVars>>

(* The host drops the node: its command sender and the Child handle go. Child *)
(* has no Drop that kills, and neither has the node.                          *)
DropNode ==
  /\ host = "up"
  /\ host' = "dropped"
  /\ UNCHANGED <<ready, hook, callVars, ipcVars, rnVars, chanVars, histVars>>

(* install_control_message_hook: process-wide, once. *)
InstallHook ==
  /\ ~hook
  /\ hook' = TRUE
  /\ UNCHANGED <<host, ready, callVars, ipcVars, rnVars, chanVars, histVars>>

Create == IpcSetup \/ SpawnRunner \/ SpawnFails \/ ReadyReplied \/ ObserveExit
            \/ GraceExpires

-----------------------------------------------------------------------------
(* The callers *)

(* process / process_multi / a streaming host: encode_input, then cmd_tx.send. *)
Submit(c) ==
  /\ host = "up"
  /\ call[c] = "new"
  /\ \/ /\ \E m \in Modes : mode' = [mode EXCEPT ![c] = m]
        /\ call' = [call EXCEPT ![c] = "sending"]
     \/ /\ call' = [call EXCEPT ![c] = "err"]    \* the input does not encode
        /\ UNCHANGED mode
  /\ UNCHANGED <<hostVars, answer, chan, ipcVars, rnVars, chanVars, histVars>>

(* Faulty variant: the newest command overtakes the queue. *)
EnqueueFirst(c) ==
  /\ call[c] = "sending"
  /\ Len(queue) < QueueCap
  /\ queue' = <<c>> \o queue
  /\ call' = [call EXCEPT ![c] = "waiting"]
  /\ UNCHANGED <<hostVars, mode, answer, chan, pc, cur, got, rnVars, chanVars, histVars>>

(* The bounded command channel has room. *)
Enqueue(c) ==
  /\ call[c] = "sending"
  /\ Len(queue) < QueueCap
  /\ queue' = Append(queue, c)
  /\ call' = [call EXCEPT ![c] = "waiting"]
  /\ UNCHANGED <<hostVars, mode, answer, chan, pc, cur, got, rnVars, chanVars, histVars>>

(* The caller drops its future, a queued command stays where it is. *)
Cancel(c) ==
  /\ call[c] \in {"sending", "waiting", "closed", "broken"}
  /\ call' = [call EXCEPT ![c] = "cancelled"]
  /\ chan' = [chan EXCEPT ![c] = <<>>]
  /\ UNCHANGED <<hostVars, mode, answer, ipcVars, rnVars, chanVars, histVars>>

(* A streaming consumer receives the next frame. *)
TakeFrame(c) ==
  /\ call[c] \in {"waiting", "closed", "broken"}
  /\ chan[c] # <<>>
  /\ answer' = [answer EXCEPT ![c] = Append(@, Head(chan[c]))]
  /\ chan' = [chan EXCEPT ![c] = Tail(@)]
  /\ UNCHANGED <<hostVars, call, mode, ipcVars, rnVars, chanVars, histVars>>

(* ... sees the channel closed, and then reads the reply. *)
StreamDone(c) ==
  /\ call[c] \in {"closed", "broken"}
  /\ chan[c] = <<>>
  /\ call' = [call EXCEPT ![c] = IF @ = "closed" THEN "ok" ELSE "err"]
  /\ UNCHANGED <<hostVars, mode, answer, chan, ipcVars, rnVars, chanVars, histVars>>

CallerStep(c) == Enqueue(c) \/ TakeFrame(c) \/ StreamDone(c)

-----------------------------------------------------------------------------
(* The IPC thread: while let Some(cmd) = cmd_rx.blocking_recv() *)

TakeReadyCommand ==
  /\ pc = "idle"
  /\ queue # <<>> /\ Head(queue) = WaitForReady
  /\ queue' = Tail(queue)
  /\ pc' = "waitReady"
  /\ UNCHANGED <<hostVars, callVars, cur, got, rnVars, chanVars, histVars>>

(* Faulty variant: the first control message ends the wait. *)
AnyMessage(message) == TRUE

IsReady(message) == message = Ready

(* wait_for_ready: only b"READY" ends the wait, anything else goes to the    *)
(* hook.                                                                     *)
PollReady ==
  /\ pc = "waitReady"
  /\ control # <<>>
  /\ control' = Tail(control)
  /\ IF IsReady(Head(control))
       THEN ready' = "ok" /\ pc' = "idle"
       ELSE UNCHANGED <<ready, pc>>
  /\ UNCHANGED <<host, hook, callVars, queue, cur, got, rnVars, input, output, histVars>>

(* The deadline passes, or the control receive() fails. *)
ReadyGivesUp ==
  /\ pc = "waitReady"
  /\ ready' = "err"
  /\ pc' = "idle"
  /\ UNCHANGED <<host, hook, callVars, queue, cur, got, rnVars, chanVars, histVars>>

(* The next call: its request is published ... *)
BeginTurn ==
  /\ pc = "idle"
  /\ queue # <<>> /\ Head(queue) # WaitForReady
  /\ queue' = Tail(queue)
  /\ cur' = Head(queue)
  /\ pc' = "poll"
  /\ Publish(Head(queue))
  /\ UNCHANGED <<hostVars, callVars, got, rnVars, output, control, histVars>>

(* Faulty variant: the error is logged and the reply forgotten. *)
BeginFailsSilently ==
  /\ pc = "idle"
  /\ queue # <<>> /\ Head(queue) # WaitForReady
  /\ queue' = Tail(queue)
  /\ UNCHANGED <<hostVars, callVars, pc, cur, got, rnVars, chanVars, histVars>>

(* ... or the loan or the send fails and nothing is. *)
BeginFails ==
  /\ pc = "idle"
  /\ queue # <<>> /\ Head(queue) # WaitForReady
  /\ queue' = Tail(queue)
  /\ Reply(Head(queue), Failure(Head(queue)))
  /\ UNCHANGED <<hostVars, mode, answer, chan, pc, cur, got, rnVars, chanVars, histVars>>

(* Each turn of the receive loop first drains the control channel. *)
PollControl ==
  /\ pc = "poll"
  /\ pc' = "recv"
  /\ DrainControl
  /\ UNCHANGED <<hostVars, callVars, queue, cur, got, rnVars, input, output,
                 emitted, notes, lost, abandoned>>

(* A sample that is not the sentinel is read off the output channel. *)
TakeOutput ==
  /\ pc = "recv"
  /\ output # <<>> /\ ~IsEnd(Head(output))
  /\ output' = Tail(output)

(* The end of a turn; a faulty variant forgets to clear the call. *)
EndTurnKeepsCall ==
  /\ got' = <<>>
  /\ pc' = "idle"
  /\ UNCHANGED cur

EndTurn ==
  /\ cur' = None
  /\ got' = <<>>
  /\ pc' = "idle"

(* Faulty variant: round_trip returns its first frame at once. *)
RecvRoundReturns ==
  /\ TakeOutput
  /\ mode[cur] = "round"
  /\ Reply(cur, "ok")
  /\ answer' = [answer EXCEPT ![cur] = <<Head(output)>>]
  /\ EndTurn
  /\ UNCHANGED <<hostVars, mode, chan, queue, rnVars, input, control, histVars>>

(* round_trip keeps the first frame and reads on to the sentinel. *)
RecvRound ==
  /\ TakeOutput
  /\ mode[cur] = "round"
  /\ got' = IF got = <<>> THEN <<Head(output)>> ELSE got
  /\ pc' = "poll"
  /\ UNCHANGED <<hostVars, callVars, queue, cur, rnVars, input, control, histVars>>

(* round_trip_multi keeps every frame. *)
RecvMulti ==
  /\ TakeOutput
  /\ mode[cur] = "multi"
  /\ got' = Append(got, Head(output))
  /\ pc' = "poll"
  /\ UNCHANGED <<hostVars, callVars, queue, cur, rnVars, input, control, histVars>>

(* round_trip_streaming forwards each frame, or swallows it once the         *)
(* consumer is gone.                                                         *)
RecvStream ==
  /\ TakeOutput
  /\ mode[cur] = "stream"
  /\ IF call[cur] = "cancelled"
       THEN pc' = "poll" /\ UNCHANGED got
       ELSE pc' = "park" /\ got' = <<Head(output)>>
  /\ UNCHANGED <<hostVars, callVars, queue, cur, rnVars, input, control, histVars>>

(* Faulty variant: try_send, which drops the frame when the channel is full. *)
ForwardTry ==
  /\ pc = "park"
  /\ call[cur] # "cancelled"
  /\ chan' = [chan EXCEPT ![cur] = IF Len(@) < FrameCap THEN @ \o got ELSE @]
  /\ got' = <<>>
  /\ pc' = "poll"
  /\ UNCHANGED <<hostVars, call, mode, answer, queue, cur, rnVars, chanVars, histVars>>

(* frame_tx.blocking_send: waits for room in the consumer's channel ... *)
Forward ==
  /\ pc = "park"
  /\ call[cur] # "cancelled"
  /\ Len(chan[cur]) < FrameCap
  /\ chan' = [chan EXCEPT ![cur] = @ \o got]
  /\ got' = <<>>
  /\ pc' = "poll"
  /\ UNCHANGED <<hostVars, call, mode, answer, queue, cur, rnVars, chanVars, histVars>>

(* Faulty variants: the turn returns without reading on to its sentinel, or  *)
(* the thread never notices.                                                 *)
ConsumerGoneReturns ==
  /\ pc = "park"
  /\ call[cur] = "cancelled"
  /\ EndTurn
  /\ UNCHANGED <<hostVars, callVars, queue, rnVars, chanVars, histVars>>

ConsumerUnnoticed == FALSE

(* ... and gives up when the consumer drops it. *)
ConsumerGone ==
  /\ pc = "park"
  /\ call[cur] = "cancelled"
  /\ got' = <<>>
  /\ pc' = "poll"
  /\ UNCHANGED <<hostVars, callVars, queue, cur, rnVars, chanVars, histVars>>

(* The outcomes of a turn that reached its EndOfInput: a round without a     *)
(* frame fails, an answer may fail to decode, a stream closes its channel.   *)
Outcomes(c) ==
  CASE mode[c] = "stream" -> {"closed"}
    [] mode[c] = "multi" -> {"ok", "err"}
    [] OTHER -> IF got = <<>> THEN {"err"} ELSE {"ok", "err"}

RecvEnd ==
  /\ pc = "recv"
  /\ output # <<>> /\ IsEnd(Head(output))
  /\ output' = Tail(output)
  /\ FinalDrain
  /\ \E r \in Outcomes(cur) :
       /\ Reply(cur, r)
       /\ answer' = IF r = "ok" /\ call[cur] = "waiting"
                      THEN [answer EXCEPT ![cur] = got]
                      ELSE answer
  /\ EndTurn
  /\ UNCHANGED <<hostVars, mode, chan, queue, rnVars, input,
                 emitted, notes, lost, abandoned>>

RecvNothing ==
  /\ pc = "recv"
  /\ output = <<>>
  /\ pc' = "poll"
  /\ UNCHANGED <<hostVars, callVars, queue, cur, got, rnVars, chanVars, histVars>>

(* receive() fails: the call is answered at once, the rest of its turn stays *)
(* on the output channel.                                                    *)
RecvFault ==
  /\ pc = "recv"
  /\ faults < MaxFaults
  /\ faults' = faults + 1
  /\ abandoned' = abandoned \cup {cur}
  /\ Reply(cur, Failure(cur))
  /\ EndTurn
  /\ UNCHANGED <<hostVars, mode, answer, chan, queue, rnVars, chanVars,
                 emitted, notes, lost>>

(* Faulty variant: a failed create() keeps its sender. *)
IpcExitAfterDrop ==
  /\ pc = "idle"
  /\ queue = <<>>
  /\ host = "dropped"
  /\ \A c \in Calls : call[c] \notin {"sending", "waiting", "closed", "broken"}
  /\ pc' = "exit"
  /\ UNCHANGED <<hostVars, callVars, queue, cur, got, rnVars, chanVars, histVars>>

(* Every sender is gone and the channel is empty: blocking_recv returns None. *)
IpcExit ==
  /\ pc = "idle"
  /\ queue = <<>>
  /\ host \in {"failed", "dropped"}
  /\ \A c \in Calls : call[c] \notin {"sending", "waiting", "closed", "broken"}
  /\ pc' = "exit"
  /\ UNCHANGED <<hostVars, callVars, queue, cur, got, rnVars, chanVars, histVars>>

IpcThread ==
  \/ TakeReadyCommand \/ PollReady \/ ReadyGivesUp
  \/ BeginTurn \/ BeginFails
  \/ PollControl \/ RecvRound \/ RecvMulti \/ RecvStream \/ Forward \/ ConsumerGone
  \/ RecvEnd \/ RecvNothing \/ RecvFault
  \/ IpcExit

-----------------------------------------------------------------------------
(* The runner (external): attaches, publishes READY, then takes one input at *)
(* a time, emits its frames and exactly one EndOfInput.                      *)

RunnerReady ==
  /\ rn = "starting"
  /\ rn' = "idle"
  /\ control' = Push(control, Ready)
  /\ UNCHANGED <<hostVars, callVars, ipcVars, turn, input, output, histVars>>

RunnerNote ==
  /\ rn \in {"starting", "busy"}
  /\ notes < MaxNotes
  /\ notes' = notes + 1
  /\ control' = Push(control, IF rn = "busy" THEN turn ELSE Progress)
  /\ UNCHANGED <<hostVars, callVars, ipcVars, rnVars, input, output,
                 emitted, lost, abandoned, faults>>

RunnerTake ==
  /\ rn = "idle"
  /\ input # <<>>
  /\ rn' = "busy"
  /\ turn' = Head(input)
  /\ input' = Tail(input)
  /\ UNCHANGED <<hostVars, callVars, ipcVars, output, control, histVars>>

(* A full output buffer loses its oldest sample. *)
Evicted == IF Len(output) < BufCap THEN {} ELSE {Head(output).turn}

RunnerEmit ==
  /\ rn = "busy"
  /\ emitted[turn] < MaxFrames
  /\ emitted' = [emitted EXCEPT ![turn] = @ + 1]
  /\ output' = Push(output, [turn |-> turn, n |-> emitted[turn] + 1])
  /\ lost' = lost \cup Evicted
  /\ UNCHANGED <<hostVars, callVars, ipcVars, rnVars, input, control,
                 notes, abandoned, faults>>

RunnerEnd ==
  /\ rn = "busy"
  /\ output' = Push(output, EndOfInput(turn))
  /\ lost' = lost \cup Evicted
  /\ rn' = "idle"
  /\ turn' = None
  /\ UNCHANGED <<hostVars, callVars, ipcVars, input, control,
                 emitted, notes, abandoned, faults>>

(* A crash, or the parent-death signal of pre_exec: what it published stays  *)
(* readable.                                                                 *)
RunnerDies ==
  /\ rn \in {"starting", "idle", "busy"}
  /\ rn' = "dead"
  /\ turn' = None
  /\ input' = <<>>
  /\ UNCHANGED <<hostVars, callVars, ipcVars, output, control, histVars>>

RunnerWork == RunnerReady \/ RunnerNote \/ RunnerTake \/ RunnerEmit \/ RunnerEnd

-----------------------------------------------------------------------------
Next ==
  \/ Create \/ DropNode \/ InstallHook
  \/ \E c \in Calls : Submit(c) \/ Cancel(c) \/ CallerStep(c)
  \/ IpcThread
  \/ RunnerWork \/ RunnerDies

Spec == Init /\ [][Next]_vars

(* Threads run: create() returns, the IPC thread polls, a runner that lives  *)
(* finishes its turn, and a caller that waits takes what is ready for it.    *)
Fairness ==
  /\ WF_vars(Create)
  /\ WF_vars(IpcThread)
  /\ WF_vars(RunnerWork)
  /\ \A c \in Calls : WF_vars(CallerStep(c))

FairSpec == Spec /\ Fairness

-----------------------------------------------------------------------------
(* Properties *)

HandedOut == host \in {"up", "dropped"}
Attached == rn \in {"idle", "busy", "dead"}
InQueue(c) == \E i \in 1 .. Len(queue) : queue[i] = c

(* Every variable stays within its type, whatever the interleaving of        *)
(* callers, IPC thread and runner.                                           *)
TypeOK ==
  /\ host \in {"setup", "spawn", "await", "grace", "up", "failed", "dropped"}
  /\ ready \in {"none", "ok", "err"}
  /\ hook \in BOOLEAN
  /\ call \in [Calls -> {"new", "sending", "waiting", "closed", "broken",
                        "ok", "err", "cancelled"}]
  /\ mode \in [Calls -> Modes]
  /\ answer \in [Calls -> Seq(Frame)]
  /\ chan \in [Calls -> Seq(Frame)]
  /\ queue \in Seq(Calls \cup {WaitForReady})
  /\ pc \in {"setup", "idle", "waitReady", "poll", "recv", "park", "exit"}
  /\ cur \in Calls \cup {None}
  /\ Serving <=> cur # None
  /\ got \in Seq(Frame)
  /\ rn \in {"absent", "starting", "idle", "busy", "dead"}
  /\ turn \in Calls \cup {None}
  /\ rn = "busy" <=> turn # None
  /\ input \in Seq(Calls)
  /\ output \in Seq(Frame)
  /\ control \in Seq(Calls \cup {Ready, Progress})
  /\ emitted \in [Calls -> Nat]
  /\ notes \in Nat
  /\ lost \subseteq Calls
  /\ abandoned \subseteq Calls
  /\ faults \in Nat

(* No request is published before the runner has attached: create() hands    *)
(* the node out only after READY, because data sent earlier is silently      *)
(* dropped (python_ipc.rs:550).                                              *)
ReadyBeforeData ==
  HandedOut \/ Serving => Attached

(* Frames of call c's own turn, in the order the runner emitted them. *)
OwnInOrder(c, frames) ==
  /\ \A i \in 1 .. Len(frames) : frames[i].turn = c
  /\ \A i, j \in 1 .. Len(frames) : i < j => frames[i].n < frames[j].n

(* Until a receive() fails, every caller is given frames of its own turn     *)
(* only and in order: neither a caller that gave up nor a consumer that went *)
(* away leaks a frame into a later call (python_ipc.rs:853 and 954).         *)
OwnFrames ==
  abandoned = {} => \A c \in Calls : OwnInOrder(c, answer[c])

(* A call answered with success has every frame of its turn, or the first of *)
(* them for round_trip, unless a full output buffer dropped one of them or a *)
(* receive() failed.                                                         *)
Lossless ==
  \A c \in Calls :
    call[c] = "ok" /\ abandoned = {} /\ c \notin lost =>
      IF mode[c] = "round" THEN Len(answer[c]) = 1 /\ answer[c][1].n = 1
                           ELSE Len(answer[c]) = emitted[c]

(* A caller that waits for its reply is still queued or is being served:     *)
(* none is forgotten on an error path of the IPC thread.                     *)
NoLostCall == \A c \in Calls : call[c] = "waiting" => InQueue(c) \/ cur = c

(* The turns whose sentinel has not been read: published and untaken, being  *)
(* processed, or ended with the sentinel still buffered.                     *)
Outstanding ==
  Len(input) + (IF rn = "busy" THEN 1 ELSE 0)
    + Cardinality({i \in 1 .. Len(output) : IsEnd(output[i])})

(* The output channel runs behind the calls by at most the turns that a      *)
(* receive error abandoned, so turns never overlap while there is none.      *)
BoundedSkew ==
  Outstanding <= Cardinality(abandoned) + (IF Serving THEN 1 ELSE 0)

(* The control messages of a turn have been handed to the hook by the time   *)
(* the call is answered, so none is left for the next one                    *)
(* (python_ipc.rs:885).                                                      *)
StragglersForwarded ==
  [][\A c \in Calls :
       /\ call[c] = "waiting" /\ call'[c] \in {"ok", "closed"}
       /\ hook /\ faults' = 0
       => \A i \in 1 .. Len(control') : control'[i] # c]_vars

(* The node implements the service it promises, with the turn in progress    *)
(* and the command queue for the service's request and line.                 *)
Service == INSTANCE TurnService WITH
  st <- [c \in Calls |->
           CASE call[c] \in {"sending", "waiting"} -> "pending"
             [] call[c] \in {"closed", "broken"} -> "served"
             [] OTHER -> call[c]],
  ans <- answer,
  line <- IF HandedOut THEN queue ELSE <<>>,
  serving <- cur,
  poisoned <- abandoned # {}

ServiceSpec == Service!Spec

(* The IPC thread waits for a sentinel that no living runner will send. *)
Stuck == Serving /\ rn = "dead"

(* A call is answered, unless the runner dies under a turn.                  *)
Answered ==
  \A c \in Calls :
    call[c] \in {"sending", "waiting", "closed", "broken"}
      ~> call[c] \in {"ok", "err", "cancelled"} \/ Stuck

(* Once create() failed or the node was dropped, the IPC thread ends, unless *)
(* the runner dies under a turn.                                             *)
ThreadEnds == host \in {"failed", "dropped"} ~> pc = "exit" \/ Stuck

(* "Held so the child is killed when the node is dropped"                    *)
(* (python_subprocess.rs:587): the runner ends once its handle is gone.       *)
KilledOnDrop == host = "dropped" ~> rn = "dead"

(* "continues draining so the next call doesn't see stale frames"            *)
(* (python_ipc.rs:24), whatever happened to the call before.                 *)
NoStaleFrames ==
  \A c \in Calls : \A i \in 1 .. Len(answer[c]) : answer[c][i].turn = c

-----------------------------------------------------------------------------
(* The inductive invariant behind the safety properties above *)

(* How far create(), the handshake and the runner can be from each other. *)
Handshake ==
  /\ pc = "setup" => host = "setup"
  /\ host \in {"setup", "spawn"} => rn = "absent"
  /\ rn = "absent" => host \in {"setup", "spawn", "failed"}
  /\ rn = "starting" => host \in {"await", "failed"}
  /\ host = "grace" => rn = "dead"
  /\ ready = "ok" => Attached
  /\ \A i \in 1 .. Len(control) : control[i] = Ready => Attached
  /\ \A c \in Calls : call[c] # "new" => HandedOut
  /\ \A i \in 1 .. Len(queue) : queue[i] # WaitForReady => HandedOut
  /\ Serving => HandedOut

(* WaitForReady is queued once and answered once, before the node is handed  *)
(* out.                                                                      *)
ReadyOnce ==
  /\ host \in {"setup", "spawn"} =>
       queue = <<>> /\ ready = "none" /\ pc \in {"setup", "idle", "exit"}
  /\ \A i \in 1 .. Len(queue) : queue[i] = WaitForReady =>
       /\ ready = "none" /\ pc # "waitReady"
       /\ \A j \in 1 .. Len(queue) : queue[j] = WaitForReady => j = i
  /\ pc = "waitReady" => ready = "none"
  /\ HandedOut => ready = "ok"

Distinct == \A i, j \in 1 .. Len(queue) : queue[i] \in Calls /\ queue[j] = queue[i] => j = i

(* A command is queued once and served once: a call that waits in the queue  *)
(* or is being served has no other command, served or to come.               *)
AtMostOnce ==
  /\ \A c \in Calls : InQueue(c) \/ cur = c => call[c] \in {"waiting", "cancelled"}
  /\ Distinct
  /\ \A c \in Calls : InQueue(c) => cur # c
  /\ \A c \in abandoned : ~InQueue(c) /\ cur # c /\ call[c] \notin {"new", "sending"}

Untouched(c) == emitted[c] = 0 /\ answer[c] = <<>> /\ chan[c] = <<>>

(* Until a call is served nothing was emitted for it or given to it. *)
Unserved ==
  \A c \in Calls : call[c] \in {"new", "sending"} \/ InQueue(c) => Untouched(c)

(* Between turns the data channels and the runner are empty; within a turn   *)
(* they hold nothing but that turn, in the order input, runner, output, and  *)
(* nothing follows its sentinel.                                             *)
OneTurn ==
  /\ ~Serving => input = <<>> /\ output = <<>> /\ got = <<>> /\ rn # "busy"
  /\ Serving =>
       /\ input # <<>> => input = <<cur>> /\ output = <<>> /\ rn # "busy"
       /\ rn = "busy" => turn = cur
       /\ \A i \in 1 .. Len(output) : output[i].turn = cur
       /\ \A i \in 1 .. Len(output) : IsEnd(output[i]) =>
            i = Len(output) /\ rn # "busy" /\ input = <<>>

(* Only a streaming call has frames in its channel, and the thread holds at  *)
(* most the frame it is forwarding for it, or the first frame of a round.    *)
ByMode ==
  /\ \A c \in Calls : mode[c] # "stream" => chan[c] = <<>> /\ call[c] # "closed"
  /\ pc = "park" => mode[cur] = "stream" /\ Len(got) = 1
  /\ Serving /\ mode[cur] = "stream" /\ pc # "park" => got = <<>>
  /\ Serving /\ mode[cur] = "round" => Len(got) <= 1

Below(s, t) ==
  \A i \in 1 .. Len(s), j \in 1 .. Len(t) : ~IsEnd(t[j]) => s[i].n < t[j].n
UpTo(s, last) == \A i \in 1 .. Len(s) : s[i].n <= last

(* The frames given to call c, then those in its channel. *)
CallInOrder(c, given, channel) ==
  /\ OwnInOrder(c, given)
  /\ OwnInOrder(c, channel)
  /\ \A i \in 1 .. Len(given), j \in 1 .. Len(channel) : given[i].n < channel[j].n

(* Behind them, while c is being served, the frames the thread holds, those  *)
(* on the output channel, and those the runner has still to emit.            *)
TurnInOrder(c, given, channel, held, waiting, last) ==
  /\ OwnInOrder(c, held)
  /\ \A i \in 1 .. Len(given), j \in 1 .. Len(held) : given[i].n < held[j].n
  /\ \A i \in 1 .. Len(channel), j \in 1 .. Len(held) : channel[i].n < held[j].n
  /\ Below(given, waiting) /\ Below(channel, waiting) /\ Below(held, waiting)
  /\ UpTo(given, last) /\ UpTo(channel, last) /\ UpTo(held, last) /\ UpTo(waiting, last)
  /\ \A i, j \in 1 .. Len(waiting) :
       i < j /\ ~IsEnd(waiting[j]) => waiting[i].n < waiting[j].n

(* Along the way from the runner to the caller the frames of a turn stay in  *)
(* order.                                                                    *)
InOrder ==
  /\ \A c \in Calls : CallInOrder(c, answer[c], chan[c])
  /\ Serving => TurnInOrder(cur, answer[cur], chan[cur], got, output, emitted[cur])

(* The frames of the turn in progress that wait on the output channel. *)
Buffered ==
  IF output # <<>> /\ IsEnd(output[Len(output)]) THEN Len(output) - 1 ELSE Len(output)

(* An answered call has every frame the runner emitted for it, or the first  *)
(* of them for a round ...                                                   *)
AnsweredWhole(c) ==
  /\ call[c] = "closed" => Len(answer[c]) + Len(chan[c]) = emitted[c]
  /\ call[c] = "ok" => IF mode[c] = "round" THEN Len(answer[c]) = 1 /\ answer[c][1].n = 1
                                            ELSE Len(answer[c]) = emitted[c]

(* ... since during its turn what it was given, what is on its way and what  *)
(* is buffered add up to what was emitted.                                   *)
TurnWhole ==
  /\ Buffered <= emitted[cur]
  /\ \A i \in 1 .. Buffered : output[i].n = emitted[cur] - Buffered + i
  /\ mode[cur] = "round" => IF got = <<>> THEN Buffered = emitted[cur] ELSE got[1].n = 1
  /\ mode[cur] = "multi" => Len(got) + Buffered = emitted[cur]
  /\ mode[cur] = "stream" /\ call[cur] = "waiting" =>
       Len(answer[cur]) + Len(chan[cur]) + Len(got) + Buffered = emitted[cur]

AllAccounted ==
  /\ \A c \in Calls \ lost : AnsweredWhole(c)
  /\ Serving /\ cur \notin lost => TurnWhole

(* The turns of the node: a command is served once, and until a receive()    *)
(* fails turns follow each other without overlapping, with every frame in    *)
(* order and accounted for.                                                  *)
TurnsAligned ==
  /\ ReadyOnce /\ AtMostOnce
  /\ abandoned = {} => Unserved /\ OneTurn /\ ByMode /\ InOrder /\ AllAccounted
=============================================================================
