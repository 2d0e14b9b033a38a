----------------------------- MODULE FfiAdapter -----------------------------
(***************************************************************************)
(* StreamingNodeFfiAdapter: every asynchronous entry point decodes its     *)
(* input on the host's thread, spawns the node's handler as a task on the  *)
(* plugin's own runtime and awaits the join handle.  The host may drop the *)
(* future at any time.  An RPC handler emits through an RpcResponder into a *)
(* bounded reply channel shared by the calls of one control attachment;     *)
(* media handlers emit through a synchronous sink, or into the vector that *)
(* process_multi returns.  The sink of a tick is a box of its own, which the *)
(* handler may keep; the callbacks of the other entry points and the        *)
(* RpcResponder are borrowed by the handler's future and end with it.       *)
(*                                                                         *)
(* An event is [kind, n]: value n is the n-th value the handler emits, and *)
(* value 0 the JSON null of a unary handler that emitted none.             *)
(***************************************************************************)
EXTENDS Naturals, Sequences

CONSTANTS
  Calls,      (* the futures the host creates                                  *)
  Nothing,    (* no event                                                      *)
  ReplyCap,   (* capacity of the reply channel                                 *)
  MaxValues,  (* bound: values a handler emits                                 *)
  MaxFaults   (* bound: replies refused while the consumer is there            *)

ASSUME FfiAdapterAssumption ==
  /\ ReplyCap \in Nat \ {0} /\ MaxValues \in Nat /\ MaxFaults \in Nat

Media == {"tick", "control", "process", "initialize", "multi", "streaming"}
Entries == Media \cup {"rpc"}
Modes == {"ff", "reply", "stream"}
Event == [kind : {"value", "end", "error"}, n : Nat]
ASSUME NothingAssumption == Nothing \notin Event

VARIABLES
  fut,       (* each host future: "new" (not polled), "awaiting", "ok", "err", "dropped" *)
  entry,     (* the entry point it was made by                                 *)
  task,      (* the runtime task behind it                                     *)
  abort,     (* has its abort handle been used?                                *)
  res,       (* what the task returned                                         *)
  mode,      (* RpcResponder.mode                                              *)
  terminal,  (* RpcResponder.terminal                                          *)
  parked,    (* the event a task is pushing, while it awaits capacity          *)
  tried,     (* values the handler tried to emit                               *)
  outs,      (* what a task keeps for the answer of its future                 *)
  log,       (* what the host has been given of each call, in order            *)
  unread,    (* replies in the channel                                         *)
  reading,   (* the consumer of the reply channel is there                     *)
  listening, (* the receiver of the media sinks is there                       *)
  failed,    (* history: calls whose handler had a value refused               *)
  withdrawn, (* history: calls whose handler dropped a value() future          *)
  faults     (* history: replies refused while the consumer was there          *)

hostVars == <<fut, entry, reading, listening>>
taskVars == <<task, abort, res, outs>>
rpcVars  == <<mode, terminal, parked, tried>>
outVars  == <<log, unread>>
histVars == <<failed, withdrawn, faults>>
vars == <<hostVars, taskVars, rpcVars, outVars, histVars>>

Value(n) == [kind |-> "value", n |-> n]
End == [kind |-> "end", n |-> 0]
Error == [kind |-> "error", n |-> 0]
Ended == {"done", "panicked", "aborted"}
Pushing == {"emit", "close"}

(* The entry points that hold an AbortOnDrop guard. *)
Guarded == {"streaming", "rpc"}

Init ==
  /\ fut = [c \in Calls |-> "new"] /\ entry = [c \in Calls |-> "rpc"]
  /\ reading = TRUE /\ listening = TRUE
  /\ task = [c \in Calls |-> "none"] /\ abort = [c \in Calls |-> FALSE]
  /\ res = [c \in Calls |-> "none"] /\ outs = [c \in Calls |-> <<>>]
  /\ mode = [c \in Calls |-> "reply"] /\ terminal = [c \in Calls |-> FALSE]
  /\ parked = [c \in Calls |-> Nothing] /\ tried = [c \in Calls |-> 0]
  /\ log = [c \in Calls |-> <<>>] /\ unread = 0
  /\ failed = {} /\ withdrawn = {} /\ faults = 0

-----------------------------------------------------------------------------
(* The host *)

(* First poll: the input is decoded and the task spawned. An RPC whose method *)
(* is not registered is a reply-mode call that failed.                        *)
Spawn(c) ==
  /\ fut[c] = "new"
  /\ fut' = [fut EXCEPT ![c] = "awaiting"]
  /\ \/ \E e \in Media :
          /\ entry' = [entry EXCEPT ![c] = e]
          /\ task' = [task EXCEPT ![c] = "run"]
          /\ UNCHANGED <<mode, res>>
     \/ \E m \in Modes :
          /\ mode' = [mode EXCEPT ![c] = m]
          /\ task' = [task EXCEPT ![c] = "run"]
          /\ UNCHANGED <<entry, res>>
     \/ /\ res' = [res EXCEPT ![c] = "err"]        \* unknown RPC method
        /\ task' = [task EXCEPT ![c] = "returned"]
        /\ UNCHANGED <<entry, mode>>
  /\ UNCHANGED <<reading, listening, abort, outs, terminal, parked, tried, outVars, histVars>>

(* The input does not decode. *)
Undecodable(c) ==
  /\ fut[c] = "new"
  /\ fut' = [fut EXCEPT ![c] = "err"]
  /\ UNCHANGED <<entry, reading, listening, taskVars, rpcVars, outVars, histVars>>

(* Faulty variants: the future does not wait for finish(), does not notice a  *)
(* panic, or hands over the outputs of a handler that failed.                 *)
JoinableEarly(c) == task[c] \in Ended \cup {"returned", "close"}
JoinableDone(c) == task[c] = "done"
SucceededAnyhow(c) == task[c] = "done"

(* The join handle is ready; the task returned Ok. *)
Joinable(c) == task[c] \in Ended
Succeeded(c) == task[c] = "done" /\ res[c] = "ok"

(* The future resolves once the task has ended; what the task kept is encoded *)
(* (process may fail at that) and handed over.                                *)
Join(c) ==
  /\ fut[c] = "awaiting"
  /\ Joinable(c)
  /\ \/ /\ Succeeded(c)
        /\ fut' = [fut EXCEPT ![c] = "ok"]
        /\ log' = [log EXCEPT ![c] = @ \o outs[c]]
     \/ /\ ~Succeeded(c) \/ entry[c] = "process"
        /\ fut' = [fut EXCEPT ![c] = "err"]
        /\ UNCHANGED log
  /\ UNCHANGED <<entry, reading, listening, taskVars, rpcVars, unread, histVars>>

(* Faulty variant: no guard. *)
DropWithoutAbort(c) ==
  /\ fut[c] \in {"new", "awaiting"}
  /\ fut' = [fut EXCEPT ![c] = "dropped"]
  /\ UNCHANGED <<entry, reading, listening, taskVars, rpcVars, outVars, histVars>>

(* The host drops the future; where there is a guard it aborts the task.      *)
DropFuture(c) ==
  /\ fut[c] \in {"new", "awaiting"}
  /\ fut' = [fut EXCEPT ![c] = "dropped"]
  /\ abort' = [abort EXCEPT ![c] = fut[c] = "awaiting" /\ entry[c] \in Guarded]
  /\ UNCHANGED <<entry, reading, listening, task, res, outs, rpcVars, outVars, histVars>>

(* The reply consumer takes a reply, or goes away with what is unread. *)
ReadReply ==
  /\ reading
  /\ unread > 0
  /\ unread' = unread - 1
  /\ UNCHANGED <<hostVars, taskVars, rpcVars, log, histVars>>

StopReading ==
  /\ reading
  /\ reading' = FALSE
  /\ UNCHANGED <<fut, entry, listening, taskVars, rpcVars, outVars, histVars>>

StopListening ==
  /\ listening
  /\ listening' = FALSE
  /\ UNCHANGED <<fut, entry, reading, taskVars, rpcVars, outVars, histVars>>

-----------------------------------------------------------------------------
(* The task: handlers are the plugin author's code and do what the traits    *)
(* let them do.                                                              *)

(* push_output, or the callback of process_multi. A tick handler may have     *)
(* moved its sink elsewhere (another task, the node), where it outlives the   *)
(* task it was given to.                                                      *)
KeptSink(c) == entry[c] = "tick" /\ task[c] \in Ended

EmitMedia(c) ==
  /\ task[c] = "run" \/ KeptSink(c)
  /\ tried[c] < MaxValues
  /\ tried' = [tried EXCEPT ![c] = @ + 1]
  /\ \/ /\ entry[c] \in {"tick", "streaming"} /\ listening
        /\ log' = [log EXCEPT ![c] = Append(@, Value(tried[c] + 1))]
        /\ UNCHANGED outs
     \/ /\ entry[c] = "multi"
        /\ outs' = [outs EXCEPT ![c] = Append(@, Value(tried[c] + 1))]
        /\ UNCHANGED log
  /\ UNCHANGED <<hostVars, task, abort, res, mode, terminal, parked, unread, histVars>>

(* RpcResponder::send up to its await. *)
Send(c, event, last) ==
  /\ terminal' = [terminal EXCEPT ![c] = last]
  /\ parked' = [parked EXCEPT ![c] = event]

(* value(): a call that already completed, a fire-and-forget call and a value *)
(* that does not serialize get an error that changes nothing.                 *)
EmitValue(c) ==
  /\ task[c] = "run" /\ entry[c] = "rpc"
  /\ ~terminal[c] /\ mode[c] # "ff"
  /\ tried[c] < MaxValues
  /\ tried' = [tried EXCEPT ![c] = @ + 1]
  /\ Send(c, Value(tried[c] + 1), mode[c] = "reply")
  /\ task' = [task EXCEPT ![c] = "emit"]
  /\ UNCHANGED <<hostVars, abort, res, outs, mode, outVars, histVars>>

(* The handler drops the value() future while it waits (a timeout, select!). *)
Withdraw(c) ==
  /\ task[c] = "emit"
  /\ parked' = [parked EXCEPT ![c] = Nothing]
  /\ task' = [task EXCEPT ![c] = "run"]
  /\ withdrawn' = withdrawn \cup {c}
  /\ UNCHANGED <<hostVars, abort, res, outs, mode, terminal, tried, outVars, failed, faults>>

(* Where a push returns to: the handler, or the end of finish(). *)
AfterPush(c) == IF task[c] = "emit" THEN "run" ELSE "done"

(* Faulty variant: the sink does not wait for capacity. *)
RoomIgnored == TRUE

Room == unread < ReplyCap

(* The reply channel has room; finish() then succeeds, even when it reported  *)
(* the handler's error.                                                       *)
Pushed(c) ==
  /\ task[c] \in Pushing
  /\ reading /\ Room
  /\ unread' = unread + 1
  /\ log' = [log EXCEPT ![c] = Append(@, parked[c])]
  /\ parked' = [parked EXCEPT ![c] = Nothing]
  /\ task' = [task EXCEPT ![c] = AfterPush(c)]
  /\ res' = [res EXCEPT ![c] = IF task[c] = "close" THEN "ok" ELSE @]
  /\ UNCHANGED <<hostVars, abort, outs, mode, terminal, tried, histVars>>

(* Faulty variants: a refused reply does not end the call, or does not reach  *)
(* the result of the call.                                                    *)
RefusedGoesOn(c) ==
  /\ res' = [res EXCEPT ![c] = IF task[c] = "close" THEN "err" ELSE @]
  /\ UNCHANGED terminal

RefusedSwallowed(c) ==
  /\ UNCHANGED res
  /\ terminal' = [terminal EXCEPT ![c] = TRUE]

(* send() failed: nothing more may be sent, and finish() reports it. *)
Refused(c) ==
  /\ res' = [res EXCEPT ![c] = IF task[c] = "close" THEN "err" ELSE @]
  /\ terminal' = [terminal EXCEPT ![c] = TRUE]

(* The consumer is gone, or the sink does not accept this reply. The handler  *)
(* sees the error and may return it, or go on.                                *)
PushFails(c) ==
  /\ task[c] \in Pushing
  /\ \/ ~reading /\ UNCHANGED faults
     \/ reading /\ faults < MaxFaults /\ faults' = faults + 1
  /\ Refused(c)
  /\ failed' = IF task[c] = "emit" THEN failed \cup {c} ELSE failed
  /\ parked' = [parked EXCEPT ![c] = Nothing]
  /\ task' = [task EXCEPT ![c] = AfterPush(c)]
  /\ UNCHANGED <<hostVars, abort, outs, mode, tried, outVars, withdrawn>>

(* The handler returns; process returns its one output. *)
Return(c) ==
  /\ task[c] = "run"
  /\ \E r \in {"ok", "err"} :
       /\ res' = [res EXCEPT ![c] = r]
       /\ outs' = IF entry[c] = "process" /\ r = "ok"
                    THEN [outs EXCEPT ![c] = <<Value(0)>>] ELSE outs
  /\ task' = [task EXCEPT ![c] = IF entry[c] = "rpc" THEN "returned" ELSE "done"]
  /\ UNCHANGED <<hostVars, abort, rpcVars, outVars, histVars>>

Panic(c) ==
  /\ task[c] = "run"
  /\ task' = [task EXCEPT ![c] = "panicked"]
  /\ UNCHANGED <<hostVars, abort, res, outs, rpcVars, outVars, histVars>>

(* Faulty variant: finish() does not look at terminal. *)
NeverCompleted(c) == FALSE

Completed(c) == terminal[c]

(* finish(): nothing to send ... *)
FinishSilently(c) ==
  /\ task[c] = "returned"
  /\ Completed(c) \/ mode[c] = "ff"
  /\ terminal' = [terminal EXCEPT ![c] = TRUE]
  /\ task' = [task EXCEPT ![c] = "done"]
  /\ UNCHANGED <<hostVars, abort, res, outs, mode, parked, tried, outVars, histVars>>

(* ... or the event that completes the call. *)
Finish(c) ==
  /\ task[c] = "returned"
  /\ ~Completed(c) /\ mode[c] # "ff"
  /\ Send(c, CASE res[c] = "err" -> Error
               [] res[c] = "ok" /\ mode[c] = "reply" -> Value(0)
               [] OTHER -> End, TRUE)
  /\ task' = [task EXCEPT ![c] = "close"]
  /\ UNCHANGED <<hostVars, abort, res, outs, mode, tried, outVars, histVars>>

(* The runtime drops an aborted task at one of its awaits. *)
TakeAbort(c) ==
  /\ abort[c]
  /\ task[c] \in {"run"} \cup Pushing
  /\ task' = [task EXCEPT ![c] = "aborted"]
  /\ parked' = [parked EXCEPT ![c] = Nothing]
  /\ UNCHANGED <<hostVars, abort, res, outs, mode, terminal, tried, outVars, histVars>>

-----------------------------------------------------------------------------
Host(c) == Spawn(c) \/ Undecodable(c) \/ DropFuture(c)
Handler(c) == EmitMedia(c) \/ EmitValue(c) \/ Withdraw(c) \/ Return(c) \/ Panic(c)
Runtime(c) == Pushed(c) \/ PushFails(c) \/ FinishSilently(c) \/ Finish(c) \/ TakeAbort(c)

Next ==
  \/ \E c \in Calls : Host(c) \/ Join(c) \/ Handler(c) \/ Runtime(c)
  \/ ReadReply \/ StopReading \/ StopListening

Spec == Init /\ [][Next]_vars

(* The runtime and the host's executor poll what is ready and the consumer   *)
(* reads; nothing is assumed of the handlers, which may never return.        *)
Fairness ==
  /\ \A c \in Calls : WF_vars(Join(c)) /\ WF_vars(Runtime(c)) /\ WF_vars(TakeAbort(c))
  /\ WF_vars(ReadReply)

FairSpec == Spec /\ Fairness

-----------------------------------------------------------------------------
(* Properties *)

(* Every variable stays within its type, an event is parked exactly while a  *)
(* task awaits capacity for it, and a future not polled has no task.         *)
TypeOK ==
  /\ fut \in [Calls -> {"new", "awaiting", "ok", "err", "dropped"}]
  /\ entry \in [Calls -> Entries]
  /\ task \in [Calls -> {"none", "run", "returned"} \cup Pushing \cup Ended]
  /\ abort \in [Calls -> BOOLEAN]
  /\ res \in [Calls -> {"none", "ok", "err"}]
  /\ mode \in [Calls -> Modes]
  /\ terminal \in [Calls -> BOOLEAN]
  /\ parked \in [Calls -> Event \cup {Nothing}]
  /\ \A c \in Calls :
       /\ parked[c] # Nothing <=> task[c] \in Pushing
       /\ fut[c] = "new" => task[c] = "none"
  /\ tried \in [Calls -> Nat]
  /\ outs \in [Calls -> Seq(Event)]
  /\ log \in [Calls -> Seq(Event)]
  /\ unread \in 0 .. ReplyCap
  /\ reading \in BOOLEAN /\ listening \in BOOLEAN
  /\ failed \subseteq Calls /\ withdrawn \subseteq Calls
  /\ faults \in Nat

(* "unary values are terminal, streams end explicitly, errors terminate      *)
(* either mode" (rpc.rs:162).                                                *)
Terminates(c, event) == event.kind # "value" \/ mode[c] = "reply"

(* A call completes at most once: no reply follows its terminal event and a  *)
(* fire-and-forget call gets none, whatever the handler does with errors,    *)
(* retries and withdrawn values.                                             *)
OneTerminal ==
  \A c \in Calls : entry[c] = "rpc" =>
    /\ mode[c] = "ff" => log[c] = <<>>
    /\ \A i \in 1 .. Len(log[c]) : Terminates(c, log[c][i]) => i = Len(log[c])

(* The values of a call reached the channel in order and without a gap. *)
Complete(c) == \A j \in 1 .. tried[c] : log[c][j] = Value(j)

(* A consumer that reads the end of a stream has every value of it in order, *)
(* unless the handler withdrew one: a refused reply never leads to an "end", *)
(* even when the handler ignores the error.                                  *)
HonestEndOf(c) ==
  entry[c] = "rpc" =>
    \A i \in 1 .. Len(log[c]) : log[c][i] = End =>
      /\ c \notin failed
      /\ c \notin withdrawn => i = tried[c] + 1 /\ Complete(c)

HonestEnd == \A c \in Calls : HonestEndOf(c)

(* A call whose future resolves with ROk has its terminal event in the reply *)
(* channel, unless the handler withdrew a value or went on after a refused   *)
(* one; a push that fails in finish() makes the call fail.                   *)
OkMeansCompleted ==
  \A c \in Calls :
    entry[c] = "rpc" /\ fut[c] = "ok" /\ mode[c] # "ff" /\ c \notin withdrawn \cup failed
      => log[c] # <<>> /\ Terminates(c, log[c][Len(log[c])])

(* process and process_multi batch: the host has all outputs of a call that  *)
(* succeeded, in order, and none of one that did not.                        *)
Batched ==
  \A c \in Calls : entry[c] \in {"process", "multi"} =>
    IF fut[c] # "ok" THEN log[c] = <<>>
    ELSE IF entry[c] = "process" THEN log[c] = <<Value(0)>>
    ELSE Len(log[c]) = tried[c] /\ \A i \in 1 .. tried[c] : log[c][i] = Value(i)

(* Once a call's future has resolved nothing more of it reaches the host: no *)
(* reply or media frame trails its result.  Nor does anything trail the task *)
(* of a call whose future was dropped, however late its abort came.  Only a  *)
(* tick may be heard of again, through the sink its handler kept.            *)
NothingTrails ==
  [][\A c \in Calls :
       /\ entry[c] # "tick"
       /\ fut[c] \in {"ok", "err"} \/ (fut[c] = "dropped" /\ task[c] \in Ended)
       => log'[c] = log[c]]_vars

(* "Dropping an SDK FFI future aborts its plugin-runtime task"               *)
(* (SESSION_RPC.md:69), for the entry points that hold a guard, even when    *)
(* the handler never returns.                                                *)
GuardedDropAborts ==
  \A c \in Calls :
    fut[c] = "dropped" /\ entry[c] \in Guarded ~> task[c] \in Ended \cup {"none"}

(* Once its handler returned or panicked, a call's future resolves, though   *)
(* the reply channel may be full of another call's replies or closed.        *)
Resolves ==
  \A c \in Calls :
    task[c] \in {"returned", "close", "panicked"} ~> fut[c] \in {"ok", "err", "dropped"}

(* The same sentence of SESSION_RPC.md:69 for every entry point: a task      *)
(* whose future was dropped has ended or been told to.                       *)
DropAborts ==
  \A c \in Calls : fut[c] = "dropped" => abort[c] \/ task[c] \in Ended \cup {"none"}

(* "A unary handler returning without emitting a value returns JSON null"    *)
(* (SESSION_RPC.md:36): a unary call that resolves with ROk has had a reply, *)
(* if none of its replies was refused.                                       *)
UnaryAnswered ==
  \A c \in Calls :
    entry[c] = "rpc" /\ mode[c] = "reply" /\ fut[c] = "ok" /\ c \notin failed
      => log[c] # <<>>

-----------------------------------------------------------------------------
(* The inductive invariants behind OneTerminal, HonestEnd, OkMeansCompleted, *)
(* Batched and NothingTrails                                                 *)

Incomplete(c) == \A i \in 1 .. Len(log[c]) : ~Terminates(c, log[c][i])

(* A call's flag terminal runs ahead of its log: set before its terminal     *)
(* event is pushed, and unset only while the log holds none.                 *)
CompletionOf(c) ==
  /\ fut[c] = "new" => entry[c] = "rpc"
  /\ task[c] = "none" => log[c] = <<>> /\ outs[c] = <<>> /\ ~terminal[c] /\ tried[c] = 0
  /\ entry[c] # "rpc" => task[c] \notin Pushing \cup {"returned"}
  /\ entry[c] = "rpc" =>
       /\ outs[c] = <<>>
       /\ mode[c] = "ff" => log[c] = <<>> /\ task[c] \notin Pushing
       /\ task[c] \in Pushing => terminal[c] = Terminates(c, parked[c])
       /\ ~terminal[c] \/ task[c] \in Pushing => Incomplete(c)
       /\ \A i \in 1 .. Len(log[c]) : Terminates(c, log[c][i]) => i = Len(log[c])

Completion == \A c \in Calls : CompletionOf(c)

(* Up to its end a stream that lost no value has published all of them but   *)
(* the one it is pushing; a call that had a value refused is over.           *)
HonestyOf(c) ==
  /\ c \in failed => terminal[c] /\ task[c] \notin Pushing \cup {"none"}
  /\ c \in withdrawn => task[c] # "none"
  /\ task[c] = "returned" => res[c] # "none"
  /\ task[c] = "emit" => parked[c] = Value(tried[c]) /\ tried[c] > 0
  /\ parked[c] = End => mode[c] = "stream" /\ task[c] = "close"
  /\ /\ entry[c] = "rpc" /\ mode[c] = "stream" /\ c \notin withdrawn
     /\ task[c] \in {"run", "returned"} \cup Pushing
     /\ ~terminal[c] \/ task[c] = "close"
     => LET published == IF task[c] = "emit" THEN tried[c] - 1 ELSE tried[c]
        IN  /\ Len(log[c]) = published
            /\ \A j \in 1 .. published : log[c][j] = Value(j)

Honesty == \A c \in Calls : HonestyOf(c)

(* A future resolves after its task has ended, with ROk only if it returned  *)
(* Ok.                                                                       *)
JoinedOf(c) ==
  /\ fut[c] \in {"ok", "err"} => task[c] \in Ended \cup {"none"}
  /\ fut[c] = "ok" => task[c] = "done" /\ res[c] = "ok"

(* A call over by its flag has its terminal event in the channel, unless the *)
(* push of it was withdrawn or refused, or ended with the task; and a task   *)
(* that ends with Ok is over by its flag.                                    *)
AnsweredOf(c) ==
  entry[c] = "rpc" =>
    /\ task[c] = "close" \/ (task[c] = "done" /\ res[c] = "ok") => terminal[c]
    /\ /\ mode[c] # "ff" /\ terminal[c] /\ c \notin withdrawn \cup failed
       /\ task[c] \in {"run", "returned"} \/ (task[c] = "done" /\ res[c] = "ok")
       => log[c] # <<>> /\ Terminates(c, log[c][Len(log[c])])

(* What a batching task keeps, and that the host has it once the future      *)
(* resolved with ROk and never before.                                       *)
KeptOf(c) ==
  entry[c] \in {"process", "multi"} =>
    /\ log[c] = IF fut[c] = "ok" THEN outs[c] ELSE <<>>
    /\ entry[c] = "multi" =>
         Len(outs[c]) = tried[c] /\ \A i \in 1 .. tried[c] : outs[c][i] = Value(i)
    /\ entry[c] = "process" /\ task[c] = "done" /\ res[c] = "ok" => outs[c] = <<Value(0)>>

Settlement == \A c \in Calls : JoinedOf(c) /\ AnsweredOf(c) /\ KeptOf(c)
=============================================================================
