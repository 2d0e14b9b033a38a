-------------------------- MODULE FfiAdapter_proofs --------------------------
(***************************************************************************)
(* Type correctness of FfiAdapter, and what an RPC consumer may rely on,   *)
(* for any number of calls and values and any capacity of the reply        *)
(* channel: a call completes at most once, the end of a stream is honest,  *)
(* and what a resolved future says of its call is true.                    *)
(***************************************************************************)
EXTENDS FfiAdapter, SequenceTheorems, TLAPS

(* What concerns one call does not change. *)
Same(d) ==
  /\ fut'[d] = fut[d] /\ entry'[d] = entry[d] /\ task'[d] = task[d]
  /\ res'[d] = res[d] /\ outs'[d] = outs[d] /\ mode'[d] = mode[d] /\ terminal'[d] = terminal[d]
  /\ parked'[d] = parked[d] /\ tried'[d] = tried[d] /\ log'[d] = log[d]
  /\ d \in failed' <=> d \in failed
  /\ d \in withdrawn' <=> d \in withdrawn

(* A step of one call. *)
Step(c) == Host(c) \/ Join(c) \/ Handler(c) \/ Runtime(c)

USE DEF Step

-----------------------------------------------------------------------------
(* Type correctness *)

(* The initial states are well typed.                                        *)
LEMMA TypeInit == Init => TypeOK
  BY EmptySeq, FfiAdapterAssumption
  DEF Init, TypeOK, FfiAdapterAssumption, Entries, Modes, Pushing, Ended

(* Every step keeps the types; the sequences by the library facts on         *)
(* Append.                                                                   *)
LEMMA TypeStep ==
  ASSUME TypeOK, [Next]_vars
  PROVE  TypeOK'
<1>. USE DEF TypeOK
<1>1. CASE UNCHANGED vars
  BY <1>1 DEF vars, hostVars, taskVars, rpcVars, outVars, histVars
<1>2. ASSUME NEW c \in Calls, Host(c)
      PROVE  TypeOK'
  <2>. USE DEF hostVars, taskVars, rpcVars, outVars, histVars, Entries, Media, Modes, Pushing, Ended
  <2>1. CASE Spawn(c)
    <3>1. /\ entry' \in [Calls -> Entries]
          /\ mode' \in [Calls -> Modes]
          /\ res' \in [Calls -> {"none", "ok", "err"}]
      <4>1. CASE \E e \in Media : entry' = [entry EXCEPT ![c] = e] /\ UNCHANGED <<mode, res>>
        BY <4>1
      <4>2. CASE \E m \in Modes : mode' = [mode EXCEPT ![c] = m] /\ UNCHANGED <<entry, res>>
        BY <4>2
      <4>3. CASE res' = [res EXCEPT ![c] = "err"] /\ UNCHANGED <<entry, mode>>
        BY <4>3
      <4>. QED
        BY <2>1, <4>1, <4>2, <4>3 DEF Spawn
    <3>2. \E t \in {"run", "returned"} : task' = [task EXCEPT ![c] = t]
      BY <2>1 DEF Spawn
    <3>3. task[c] = "none" /\ parked[c] = Nothing
      BY <2>1 DEF Spawn
    <3>4. /\ task' \in [Calls -> {"none", "run", "returned"} \cup Pushing \cup Ended]
          /\ fut' = [fut EXCEPT ![c] = "awaiting"]
          /\ UNCHANGED <<abort, outs, terminal, parked, tried, log, unread, reading, listening,
                         failed, withdrawn, faults>>
      BY <2>1, <3>2 DEF Spawn
    <3>. QED
      BY <3>1, <3>2, <3>3, <3>4
  <2>2. CASE Undecodable(c)
    BY <2>2 DEF Undecodable
  <2>3. CASE DropFuture(c)
    <3>1. abort' \in [Calls -> BOOLEAN]
      <4>. DEFINE b == fut[c] = "awaiting" /\ entry[c] \in Guarded
      <4>1. abort' = [abort EXCEPT ![c] = b]
        BY <2>3 DEF DropFuture
      <4>2. b \in BOOLEAN
        OBVIOUS
      <4>. HIDE DEF b
      <4>. QED
        BY <4>1, <4>2
    <3>. QED
      BY <2>3, <3>1 DEF DropFuture
  <2>. QED
    BY <1>2, <2>1, <2>2, <2>3 DEF Host
<1>3. ASSUME NEW c \in Calls, Join(c)
      PROVE  TypeOK'
  <2>1. log' \in [Calls -> Seq(Event)]
    <3>1. log[c] \o outs[c] \in Seq(Event)
      BY ConcatProperties
    <3>. QED
      BY <1>3, <3>1 DEF Join
  <2>2. fut' \in [Calls -> {"new", "awaiting", "ok", "err", "dropped"}]
    BY <1>3 DEF Join
  <2>. QED
    BY <1>3, <2>1, <2>2 DEF Join, hostVars, taskVars, rpcVars, outVars, histVars
<1>4. ASSUME NEW c \in Calls, Handler(c)
      PROVE  TypeOK'
  <2>. USE DEF hostVars, taskVars, rpcVars, outVars, histVars, Event, Value, Pushing, Ended
  <2>1. CASE EmitMedia(c)
    <3>1. Value(tried[c] + 1) \in Event
      BY DEF Value, Event
    <3>2. /\ Append(log[c], Value(tried[c] + 1)) \in Seq(Event)
          /\ Append(outs[c], Value(tried[c] + 1)) \in Seq(Event)
      BY <3>1, AppendProperties
    <3>3. log' \in [Calls -> Seq(Event)]
      BY <2>1, <3>2 DEF EmitMedia
    <3>4. outs' \in [Calls -> Seq(Event)]
      BY <2>1, <3>2 DEF EmitMedia
    <3>5. tried' \in [Calls -> Nat]
      BY <2>1 DEF EmitMedia, KeptSink
    <3>. QED
      BY <2>1, <3>3, <3>4, <3>5 DEF EmitMedia
  <2>2. CASE EmitValue(c)
    BY <2>2, NothingAssumption DEF EmitValue, Send
  <2>3. CASE Withdraw(c)
    BY <2>3 DEF Withdraw
  <2>4. CASE Return(c)
    BY <2>4 DEF Return
  <2>5. CASE Panic(c)
    BY <2>5 DEF Panic
  <2>. QED
    BY <1>4, <2>1, <2>2, <2>3, <2>4, <2>5 DEF Handler
<1>5. ASSUME NEW c \in Calls, Runtime(c)
      PROVE  TypeOK'
  <2>. USE DEF hostVars, taskVars, rpcVars, outVars, histVars, Pushing, Ended, AfterPush
  <2>1. CASE Pushed(c)
    <3>1. parked[c] \in Event
      BY <2>1 DEF Pushed
    <3>. QED
      BY <2>1, <3>1, AppendProperties, FfiAdapterAssumption DEF Pushed, Room, FfiAdapterAssumption
  <2>2. CASE PushFails(c)
    BY <2>2 DEF PushFails, Refused
  <2>3. CASE FinishSilently(c)
    BY <2>3 DEF FinishSilently
  <2>4. CASE Finish(c)
    BY <2>4, NothingAssumption DEF Finish, Send, Event, Value, Error, End
  <2>5. CASE TakeAbort(c)
    BY <2>5 DEF TakeAbort
  <2>. QED
    BY <1>5, <2>1, <2>2, <2>3, <2>4, <2>5 DEF Runtime
<1>6. CASE ReadReply \/ StopReading \/ StopListening
  <2>. USE DEF hostVars, taskVars, rpcVars, outVars, histVars
  <2>1. CASE ReadReply
    <3>1. unread' \in 0 .. ReplyCap
      BY <2>1, FfiAdapterAssumption DEF ReadReply, FfiAdapterAssumption
    <3>. QED
      BY <2>1, <3>1 DEF ReadReply
  <2>2. CASE StopReading
    BY <2>2 DEF StopReading
  <2>3. CASE StopListening
    BY <2>3 DEF StopListening
  <2>. QED
    BY <1>6, <2>1, <2>2, <2>3
<1>. QED
  BY <1>1, <1>2, <1>3, <1>4, <1>5, <1>6 DEF Next

(* Every variable of the adapter stays within its type.                      *)
THEOREM TypeCorrect == Spec => []TypeOK
<1>. QED
  BY TypeInit, TypeStep, PTL DEF Spec

-----------------------------------------------------------------------------
(* A call completes at most once *)

(* A step of one call leaves the others alone.                               *)
LEMMA OthersSame ==
  ASSUME TypeOK, NEW c \in Calls, Step(c), NEW d \in Calls, d # c
  PROVE  Same(d)
<1>. USE DEF TypeOK, Same, hostVars, taskVars, rpcVars, outVars, histVars
<1>1. CASE Host(c)
  BY <1>1 DEF Host, Spawn, Undecodable, DropFuture
<1>2. CASE Join(c)
  BY <1>2 DEF Join
<1>3. CASE Handler(c)
  BY <1>3 DEF Handler, EmitMedia, EmitValue, Send, Withdraw, Return, Panic
<1>4. CASE Runtime(c)
  BY <1>4 DEF Runtime, Pushed, PushFails, Refused, FinishSilently, Finish, Send, TakeAbort
<1>. QED
  BY <1>1, <1>2, <1>3, <1>4

(* Completion of a call that a step leaves alone.                            *)
LEMMA CompletionSame ==
  ASSUME NEW d \in Calls, CompletionOf(d), Same(d)
  PROVE  CompletionOf(d)'
  BY DEF CompletionOf, Same, Incomplete, Terminates

(* The call that takes the step.                                             *)
LEMMA CompletionOwn ==
  ASSUME TypeOK, TypeOK', NEW c \in Calls, CompletionOf(c), Step(c)
  PROVE  CompletionOf(c)'
<1>. USE DEF TypeOK, CompletionOf, Incomplete, Terminates, Pushing, Ended
<1>. USE DEF hostVars, taskVars, rpcVars, outVars, histVars
<1>1. CASE Host(c)
  <2>1. CASE Spawn(c)
    <3>1. task[c] = "none" /\ log[c] = <<>> /\ outs[c] = <<>> /\ ~terminal[c]
      BY <2>1 DEF Spawn
    <3>2. log'[c] = <<>> /\ outs'[c] = <<>> /\ ~terminal'[c]
      BY <2>1, <3>1 DEF Spawn
    <3>3. /\ fut'[c] = "awaiting" /\ entry[c] = "rpc"
          /\ \/ task'[c] = "run"
             \/ task'[c] = "returned" /\ entry' = entry
      BY <2>1 DEF Spawn
    <3>. QED
      BY <3>2, <3>3
  <2>2. CASE Undecodable(c)
    BY <2>2 DEF Undecodable
  <2>3. CASE DropFuture(c)
    BY <2>3 DEF DropFuture
  <2>. QED
    BY <1>1, <2>1, <2>2, <2>3 DEF Host
<1>2. CASE Join(c)
  <2>1. task[c] # "none" /\ task' = task /\ entry' = entry /\ outs' = outs /\ mode' = mode
        /\ terminal' = terminal /\ parked' = parked
    BY <1>2 DEF Join, Joinable
  <2>2. entry[c] = "rpc" => log'[c] = log[c]
    <3>1. outs[c] = <<>> => log[c] \o outs[c] = log[c]
      BY ConcatEmptySeq
    <3>. QED
      BY <1>2, <3>1 DEF Join
  <2>. QED
    BY <2>1, <2>2
<1>3. CASE Handler(c)
  <2>1. CASE EmitMedia(c)
    <3>1. entry[c] # "rpc" /\ entry' = entry /\ task' = task /\ task[c] \in {"run"} \cup Ended
      BY <2>1 DEF EmitMedia, KeptSink, Ended
    <3>. QED
      BY <3>1
  <2>2. CASE EmitValue(c)
    <3>1. /\ entry[c] = "rpc" /\ ~terminal[c] /\ mode[c] # "ff"
          /\ UNCHANGED <<entry, outs, mode, log>>
          /\ task'[c] = "emit"
          /\ terminal'[c] = (mode[c] = "reply")
          /\ parked'[c] = Value(tried[c] + 1)
      BY <2>2 DEF EmitValue, Send
    <3>. QED
      BY <3>1 DEF Value
  <2>3. CASE Withdraw(c)
    <3>1. /\ task[c] = "emit" /\ task'[c] = "run"
          /\ UNCHANGED <<entry, outs, mode, log, terminal>>
      BY <2>3 DEF Withdraw
    <3>. QED
      BY <3>1
  <2>4. CASE Return(c)
    <3>1. /\ task[c] = "run" /\ task'[c] = (IF entry[c] = "rpc" THEN "returned" ELSE "done")
          /\ entry[c] = "rpc" => outs' = outs
          /\ UNCHANGED <<entry, mode, log, terminal>>
      BY <2>4 DEF Return
    <3>. QED
      BY <3>1
  <2>5. CASE Panic(c)
    <3>1. /\ task[c] = "run" /\ task'[c] = "panicked"
          /\ UNCHANGED <<entry, outs, mode, log, terminal>>
      BY <2>5 DEF Panic
    <3>. QED
      BY <3>1
  <2>. QED
    BY <1>3, <2>1, <2>2, <2>3, <2>4, <2>5 DEF Handler
<1>4. CASE Runtime(c)
  <2>1. CASE Pushed(c)
    <3>1. /\ entry[c] = "rpc" /\ task[c] \in Pushing
          /\ task'[c] \in {"run", "done"}
          /\ UNCHANGED <<entry, outs, mode, terminal>>
          /\ log'[c] = Append(log[c], parked[c])
      BY <2>1 DEF Pushed, AfterPush
    <3>2. /\ Len(log'[c]) = Len(log[c]) + 1
          /\ \A i \in 1 .. Len(log[c]) : log'[c][i] = log[c][i]
          /\ log'[c][Len(log[c]) + 1] = parked[c]
          /\ Len(log[c]) \in Nat
      BY <2>1, <3>1, AppendProperties, LenProperties
    <3>3. \A i \in 1 .. Len(log'[c]) : i \in 1 .. Len(log[c]) \/ i = Len(log[c]) + 1
      BY <3>2
    <3>4. mode[c] # "ff" /\ Incomplete(c) /\ terminal[c] = Terminates(c, parked[c])
      BY <3>1
    <3>5. \A i \in 1 .. Len(log'[c]) : Terminates(c, log[c][i])' => i = Len(log'[c])
      BY <3>1, <3>2, <3>3, <3>4
    <3>6. ~terminal'[c] => Incomplete(c)'
      BY <3>1, <3>2, <3>3, <3>4
    <3>. QED
      BY <3>1, <3>4, <3>5, <3>6
  <2>2. CASE PushFails(c)
    <3>1. /\ task[c] \in Pushing /\ task'[c] \in {"run", "done"} /\ terminal'[c]
          /\ UNCHANGED <<entry, outs, mode, log>>
      BY <2>2 DEF PushFails, Refused, AfterPush
    <3>. QED
      BY <3>1
  <2>3. CASE FinishSilently(c)
    <3>1. /\ task[c] = "returned" /\ task'[c] = "done" /\ terminal'[c]
          /\ UNCHANGED <<entry, outs, mode, log>>
      BY <2>3 DEF FinishSilently
    <3>. QED
      BY <3>1
  <2>4. CASE Finish(c)
    <3>1. /\ task[c] = "returned" /\ task'[c] = "close"
          /\ ~terminal[c] /\ terminal'[c] /\ mode[c] # "ff"
          /\ UNCHANGED <<entry, outs, mode, log>>
      BY <2>4 DEF Finish, Send, Completed
    <3>2. Terminates(c, parked[c])'
      <4>1. \/ parked'[c] = Error \/ parked'[c] = End
            \/ parked'[c] = Value(0) /\ mode[c] = "reply"
        BY <2>4 DEF Finish, Send
      <4>. QED
        BY <3>1, <4>1 DEF Error, End, Value
    <3>. QED
      BY <3>1, <3>2
  <2>5. CASE TakeAbort(c)
    <3>1. /\ task[c] \in {"run"} \cup Pushing /\ task'[c] = "aborted"
          /\ UNCHANGED <<entry, outs, mode, log, terminal>>
      BY <2>5 DEF TakeAbort
    <3>. QED
      BY <3>1
  <2>. QED
    BY <1>4, <2>1, <2>2, <2>3, <2>4, <2>5 DEF Runtime
<1>. QED
  BY <1>1, <1>2, <1>3, <1>4

(* A step of one call keeps Completion for all of them.                      *)
LEMMA CompletionStep ==
  ASSUME TypeOK, TypeOK', Completion, [Next]_vars
  PROVE  Completion'
<1>1. ASSUME NEW c \in Calls, Step(c), NEW d \in Calls
      PROVE  CompletionOf(d)'
  <2>1. CASE d = c
    BY <1>1, <2>1, CompletionOwn DEF Completion
  <2>2. CASE d # c
    BY <1>1, <2>2, OthersSame, CompletionSame DEF Completion
  <2>. QED
    BY <2>1, <2>2
<1>2. ASSUME UNCHANGED vars \/ ReadReply \/ StopReading \/ StopListening, NEW d \in Calls
      PROVE  CompletionOf(d)'
  <2>1. Same(d)
    BY <1>2 DEF Same, ReadReply, StopReading, StopListening, vars, hostVars, taskVars, rpcVars,
                outVars, histVars
  <2>. QED
    BY <2>1, CompletionSame DEF Completion
<1>. QED
  BY <1>1, <1>2 DEF Next, Completion

(* No call has begun.                                                        *)
LEMMA CompletionInit == Init => Completion
<1>. SUFFICES ASSUME Init, NEW c \in Calls PROVE CompletionOf(c)
  BY DEF Completion
<1>1. /\ entry[c] = "rpc" /\ task[c] = "none" /\ mode[c] = "reply"
      /\ log[c] = <<>> /\ outs[c] = <<>> /\ ~terminal[c] /\ tried[c] = 0
  BY DEF Init
<1>. QED
  BY <1>1 DEF CompletionOf, Incomplete, Terminates, Pushing

(* The flag terminal never lags behind the replies: it is set before the     *)
(* terminal event is pushed and unset only while the reply channel holds     *)
(* none.                                                                     *)
THEOREM CompletionCorrect == Spec => [](TypeOK /\ Completion)
<1>1. Init => TypeOK /\ Completion
  BY TypeInit, CompletionInit
<1>2. TypeOK /\ Completion /\ [Next]_vars => TypeOK' /\ Completion'
  BY TypeStep, CompletionStep
<1>. QED
  BY <1>1, <1>2, PTL DEF Spec

(* No reply follows the terminal event of a call, and a fire-and-forget call *)
(* gets none.                                                                *)
THEOREM AtMostOneTerminal == Spec => []OneTerminal
<1>1. Completion => OneTerminal
  BY DEF Completion, CompletionOf, OneTerminal
<1>. QED
  BY <1>1, CompletionCorrect, PTL

-----------------------------------------------------------------------------
(* The end of a stream is honest *)

(* Honesty of a call that a step leaves alone.                               *)
LEMMA HonestySame ==
  ASSUME NEW d \in Calls, HonestyOf(d), HonestEndOf(d), Same(d)
  PROVE  HonestyOf(d)' /\ HonestEndOf(d)'
  BY DEF HonestyOf, HonestEndOf, Same, Complete, Value, End

(* An event that ends a stream is no value, and none is Nothing.             *)
LEMMA Events ==
  /\ End \in Event /\ Nothing # End /\ Error # End
  /\ \A n \in Nat : Value(n) # End
  BY NothingAssumption DEF Event, End, Error, Value

(* While a call has not completed its log holds no end.                      *)
LEMMA NoEndYet ==
  ASSUME TypeOK, NEW c \in Calls, CompletionOf(c), entry[c] = "rpc",
         ~terminal[c] \/ task[c] \in Pushing
  PROVE  \A i \in 1 .. Len(log[c]) : log[c][i] # End
  BY DEF CompletionOf, Incomplete, Terminates, End

(* Honesty of the call that a step is about, action by action.               *)
LEMMA HonestyOwn ==
  ASSUME TypeOK, TypeOK', NEW c \in Calls, CompletionOf(c), HonestyOf(c), HonestEndOf(c), Step(c)
  PROVE  HonestyOf(c)' /\ HonestEndOf(c)'
<1>. USE DEF hostVars, taskVars, rpcVars, outVars, histVars
<1>1. CASE Spawn(c)
  <2>1. /\ task[c] = "none" /\ log[c] = <<>> /\ ~terminal[c] /\ tried[c] = 0
        /\ parked[c] = Nothing /\ c \notin failed /\ c \notin withdrawn
    BY <1>1 DEF Spawn, TypeOK, CompletionOf, HonestyOf, Pushing
  <2>2. /\ log'[c] = <<>> /\ ~terminal'[c] /\ tried'[c] = 0 /\ parked'[c] = Nothing
        /\ c \notin failed' /\ c \notin withdrawn'
    BY <1>1, <2>1 DEF Spawn
  <2>3. task'[c] = "run" \/ (task'[c] = "returned" /\ res'[c] = "err")
    BY <1>1 DEF Spawn, TypeOK
  <2>. QED
    BY <2>2, <2>3, Events DEF HonestyOf, HonestEndOf, Pushing
<1>2. CASE Undecodable(c) \/ DropFuture(c)
  <2>1. UNCHANGED <<entry, task, res, mode, terminal, parked, tried, log, failed, withdrawn>>
    BY <1>2 DEF Undecodable, DropFuture
  <2>. QED
    BY <2>1 DEF HonestyOf, HonestEndOf, Complete
<1>3. CASE Join(c)
  <2>1. /\ task[c] \in Ended
        /\ UNCHANGED <<entry, task, res, mode, terminal, parked, tried, failed, withdrawn>>
    BY <1>3 DEF Join, Joinable
  <2>2. entry[c] = "rpc" => log'[c] = log[c]
    <3>1. entry[c] = "rpc" => log[c] \o outs[c] = log[c]
      BY ConcatEmptySeq DEF TypeOK, CompletionOf
    <3>. QED
      BY <1>3, <3>1 DEF Join, TypeOK
  <2>. QED
    BY <2>1, <2>2 DEF HonestyOf, HonestEndOf, Complete, Pushing, Ended
<1>4. CASE EmitMedia(c)
  <2>1. /\ entry[c] # "rpc" /\ task[c] \in {"run"} \cup Ended
        /\ UNCHANGED <<entry, task, res, mode, terminal, parked, failed, withdrawn>>
    BY <1>4 DEF EmitMedia, KeptSink
  <2>. QED
    BY <2>1 DEF HonestyOf, HonestEndOf, Pushing, Ended
<1>5. CASE EmitValue(c)
  <2>1. /\ entry[c] = "rpc" /\ task[c] = "run" /\ ~terminal[c] /\ c \notin failed
        /\ UNCHANGED <<entry, res, mode, log, failed, withdrawn>>
        /\ task'[c] = "emit"
        /\ terminal'[c] = (mode[c] = "reply")
        /\ tried'[c] = tried[c] + 1
        /\ parked'[c] = Value(tried[c] + 1)
        /\ tried[c] \in Nat
    BY <1>5 DEF EmitValue, Send, TypeOK, HonestyOf
  <2>2. \A i \in 1 .. Len(log[c]) : log[c][i] # End
    BY <2>1, NoEndYet
  <2>3. HonestEndOf(c)'
    BY <2>1, <2>2 DEF HonestEndOf, End
  <2>4. parked'[c] # End
    BY <2>1, Events
  <2>. QED
    BY <2>1, <2>3, <2>4 DEF HonestyOf, Pushing, Value
<1>6. CASE Withdraw(c)
  <2>1. /\ task[c] = "emit" /\ task'[c] = "run" /\ parked'[c] = Nothing
        /\ UNCHANGED <<entry, res, mode, terminal, tried, log, failed>>
        /\ c \in withdrawn'
    BY <1>6 DEF Withdraw, TypeOK
  <2>. QED
    BY <2>1, Events DEF HonestyOf, HonestEndOf, Pushing
<1>7. CASE Return(c)
  <2>1. /\ task[c] = "run" /\ task'[c] \in {"returned", "done"}
        /\ res'[c] \in {"ok", "err"}
        /\ UNCHANGED <<entry, mode, terminal, parked, tried, log, failed, withdrawn>>
    BY <1>7 DEF Return, TypeOK
  <2>. QED
    BY <2>1 DEF HonestyOf, HonestEndOf, Complete, Pushing, End
<1>8. CASE Panic(c) \/ TakeAbort(c) \/ FinishSilently(c)
  <2>1. /\ task[c] # "none" /\ task'[c] \in Ended
        /\ parked'[c] \in {parked[c], Nothing}
        /\ parked[c] # End \/ parked'[c] = Nothing
        /\ terminal[c] => terminal'[c]
        /\ UNCHANGED <<entry, res, mode, tried, log, failed, withdrawn>>
    BY <1>8, Events DEF Panic, TakeAbort, FinishSilently, TypeOK, Ended, Pushing
  <2>. QED
    BY <2>1, Events DEF HonestyOf, HonestEndOf, Complete, Pushing, Ended, End
<1>9. CASE PushFails(c)
  <2>1. /\ task[c] \in Pushing /\ terminal'[c] /\ parked'[c] = Nothing
        /\ task'[c] = (IF task[c] = "emit" THEN "run" ELSE "done")
        /\ task[c] = "close" => failed' = failed
        /\ UNCHANGED <<entry, mode, tried, log, withdrawn>>
    BY <1>9 DEF PushFails, Refused, AfterPush, TypeOK, Pushing
  <2>2. entry[c] = "rpc"
    BY <2>1 DEF CompletionOf
  <2>3. \A i \in 1 .. Len(log[c]) : log[c][i] # End
    BY <2>1, <2>2, NoEndYet
  <2>4. HonestEndOf(c)'
    BY <2>1, <2>3 DEF HonestEndOf, End
  <2>. QED
    BY <2>1, <2>4, Events DEF HonestyOf, Pushing
<1>10. CASE Finish(c)
  <2>1. /\ task[c] = "returned" /\ task'[c] = "close" /\ ~terminal[c] /\ mode[c] # "ff"
        /\ UNCHANGED <<entry, res, mode, tried, log, failed, withdrawn>>
    BY <1>10 DEF Finish, Completed, TypeOK
  <2>2. parked'[c] = End => mode[c] = "stream"
    <3>1. res[c] \in {"ok", "err"}
      BY <2>1 DEF HonestyOf, TypeOK
    <3>2. CASE res[c] = "err"
      BY <1>10, <3>2, Events DEF Finish, Send, TypeOK
    <3>3. CASE res[c] = "ok" /\ mode[c] = "reply"
      <4>1. parked'[c] = Value(0)
        BY <1>10, <3>3 DEF Finish, Send, TypeOK
      <4>. QED
        BY <4>1, Events
    <3>4. CASE res[c] = "ok" /\ mode[c] # "reply"
      BY <2>1, <3>4 DEF TypeOK, Modes
    <3>. QED
      BY <3>1, <3>2, <3>3, <3>4
  <2>3. entry[c] = "rpc" /\ c \notin failed
    BY <2>1 DEF CompletionOf, HonestyOf
  <2>4. \A i \in 1 .. Len(log[c]) : log[c][i] # End
    BY <2>1, <2>3, NoEndYet
  <2>5. HonestEndOf(c)'
    BY <2>1, <2>4 DEF HonestEndOf, End
  <2>. QED
    BY <2>1, <2>2, <2>3, <2>5 DEF HonestyOf, Pushing, End, Value
<1>11. CASE Pushed(c)
  <2>1. /\ task[c] \in Pushing /\ parked'[c] = Nothing
        /\ task'[c] = (IF task[c] = "emit" THEN "run" ELSE "done")
        /\ log'[c] = Append(log[c], parked[c])
        /\ UNCHANGED <<entry, mode, terminal, tried, failed, withdrawn>>
    BY <1>11 DEF Pushed, AfterPush, TypeOK
  <2>2. /\ Len(log'[c]) = Len(log[c]) + 1
        /\ \A i \in 1 .. Len(log[c]) : log'[c][i] = log[c][i]
        /\ log'[c][Len(log[c]) + 1] = parked[c]
        /\ Len(log[c]) \in Nat
    BY <1>11, <2>1, AppendProperties, LenProperties DEF TypeOK
  <2>3. entry[c] = "rpc" /\ c \notin failed /\ tried[c] \in Nat
    BY <2>1 DEF CompletionOf, HonestyOf, TypeOK
  <2>4. \A i \in 1 .. Len(log[c]) : log[c][i] # End
    BY <2>1, <2>3, NoEndYet
  <2>5. \A i \in 1 .. Len(log'[c]) : log'[c][i] = End => i = Len(log[c]) + 1 /\ parked[c] = End
    BY <2>2, <2>4
  <2>6. ASSUME parked[c] = End, c \notin withdrawn
        PROVE  Len(log[c]) = tried[c] /\ \A j \in 1 .. tried[c] : log'[c][j] = Value(j)
    <3>1. task[c] = "close" /\ mode[c] = "stream"
      BY <2>6 DEF HonestyOf
    <3>2. Len(log[c]) = tried[c] /\ \A j \in 1 .. tried[c] : log[c][j] = Value(j)
      BY <2>3, <2>6, <3>1 DEF HonestyOf, Pushing
    <3>. QED
      BY <2>2, <3>2
  <2>7. HonestEndOf(c)'
    BY <2>1, <2>3, <2>5, <2>6 DEF HonestEndOf, Complete, End, Value
  <2>8. ASSUME mode[c] = "stream", c \notin withdrawn, task[c] = "emit", ~terminal[c]
        PROVE  Len(log'[c]) = tried[c] /\ \A j \in 1 .. tried[c] : log'[c][j] = Value(j)
    <3>1. /\ Len(log[c]) = tried[c] - 1
          /\ \A j \in 1 .. tried[c] - 1 : log[c][j] = Value(j)
          /\ parked[c] = Value(tried[c])
      BY <2>3, <2>8 DEF HonestyOf, Pushing
    <3>2. ASSUME NEW j \in 1 .. tried[c]
          PROVE  log'[c][j] = Value(j)
      <4>1. CASE j = tried[c]
        BY <2>2, <2>3, <3>1, <4>1
      <4>2. CASE j # tried[c]
        <5>1. j \in 1 .. tried[c] - 1 /\ j \in 1 .. Len(log[c])
          BY <2>3, <3>1, <4>2
        <5>. QED
          BY <2>2, <3>1, <5>1
      <4>. QED
        BY <4>1, <4>2
    <3>. QED
      BY <2>2, <2>3, <3>1, <3>2
  <2>9. HonestyOf(c)'
    BY <2>1, <2>3, <2>8, Events DEF HonestyOf, Pushing, Value, End
  <2>. QED
    BY <2>7, <2>9
<1>. QED
  BY <1>1, <1>2, <1>3, <1>4, <1>5, <1>6, <1>7, <1>8, <1>9, <1>10, <1>11 DEF Host, Handler, Runtime

HonestInv == Honesty /\ HonestEnd

(* No call has begun.                                                        *)
LEMMA HonestyInit == Init => HonestInv
  BY Events DEF Init, HonestInv, Honesty, HonestyOf, HonestEnd, HonestEndOf, Pushing

(* Honesty is inductive together with Completion and the types.              *)
LEMMA HonestyStep ==
  ASSUME TypeOK, TypeOK', Completion, HonestInv, [Next]_vars
  PROVE  HonestInv'
<1>1. ASSUME NEW c \in Calls, Step(c), NEW d \in Calls
      PROVE  HonestyOf(d)' /\ HonestEndOf(d)'
  <2>1. CASE d = c
    BY <1>1, <2>1, HonestyOwn DEF Completion, HonestInv, Honesty, HonestEnd
  <2>2. CASE d # c
    BY <1>1, <2>2, OthersSame, HonestySame DEF HonestInv, Honesty, HonestEnd
  <2>. QED
    BY <2>1, <2>2
<1>2. ASSUME UNCHANGED vars \/ ReadReply \/ StopReading \/ StopListening, NEW d \in Calls
      PROVE  HonestyOf(d)' /\ HonestEndOf(d)'
  <2>1. Same(d)
    BY <1>2 DEF Same, ReadReply, StopReading, StopListening, vars, hostVars, taskVars, rpcVars,
                outVars, histVars
  <2>. QED
    BY <2>1, HonestySame DEF HonestInv, Honesty, HonestEnd
<1>. QED
  BY <1>1, <1>2 DEF Next, HonestInv, Honesty, HonestEnd

(* A consumer that reads the end of a stream has every value of it in order, *)
(* unless the handler withdrew one.                                          *)
THEOREM EndIsHonest == Spec => []HonestEnd
<1>1. TypeOK /\ TypeOK' /\ Completion /\ HonestInv /\ [Next]_vars => HonestInv'
  BY HonestyStep
<1>2. HonestInv => HonestEnd
  BY DEF HonestInv
<1>. QED
  BY <1>1, <1>2, HonestyInit, CompletionCorrect, PTL DEF Spec

-----------------------------------------------------------------------------
(* What a resolved future says *)

(* The parts of Settlement for a call that a step leaves alone.              *)
LEMMA SettlementSame ==
  ASSUME NEW d \in Calls, JoinedOf(d), AnsweredOf(d), KeptOf(d), Same(d)
  PROVE  JoinedOf(d)' /\ AnsweredOf(d)' /\ KeptOf(d)'
  BY DEF JoinedOf, AnsweredOf, KeptOf, Same, Terminates, Value

(* A future resolves only when its task has ended, and what a task   *)
(* that has ended may still do is push into a sink it gave away.             *)
LEMMA JoinedOwn ==
  ASSUME TypeOK, NEW c \in Calls, JoinedOf(c), Step(c)
  PROVE  JoinedOf(c)'
<1>. USE DEF TypeOK, JoinedOf, Ended, Pushing, hostVars, taskVars
<1>1. CASE Host(c)
  BY <1>1 DEF Host, Spawn, Undecodable, DropFuture
<1>2. CASE Join(c)
  BY <1>2 DEF Join, Joinable, Succeeded
<1>3. CASE Handler(c)
  BY <1>3 DEF Handler, EmitMedia, KeptSink, EmitValue, Withdraw, Return, Panic
<1>4. CASE Runtime(c)
  BY <1>4 DEF Runtime, Pushed, PushFails, FinishSilently, Finish, TakeAbort
<1>. QED
  BY <1>1, <1>2, <1>3, <1>4

(* The call that takes the step: its terminal event and its flag.            *)
LEMMA AnsweredOwn ==
  ASSUME TypeOK, NEW c \in Calls, CompletionOf(c), HonestyOf(c), AnsweredOf(c), Step(c)
  PROVE  AnsweredOf(c)'
<1>. SUFFICES ASSUME entry'[c] = "rpc" PROVE AnsweredOf(c)'
  BY DEF AnsweredOf
<1>. USE DEF hostVars, taskVars, rpcVars, outVars, histVars
<1>1. CASE Spawn(c)
  BY <1>1 DEF Spawn, TypeOK, CompletionOf, AnsweredOf, Pushing
<1>2. CASE Undecodable(c) \/ DropFuture(c)
  <2>1. UNCHANGED <<entry, task, res, mode, terminal, log, failed, withdrawn>>
    BY <1>2 DEF Undecodable, DropFuture
  <2>. QED
    BY <2>1 DEF AnsweredOf, Terminates
<1>3. CASE Join(c)
  <2>1. UNCHANGED <<entry, task, res, mode, terminal, failed, withdrawn>> /\ entry[c] = "rpc"
    BY <1>3 DEF Join
  <2>2. log[c] \o outs[c] = log[c]
    BY <2>1, ConcatEmptySeq DEF TypeOK, CompletionOf
  <2>3. log'[c] = log[c]
    BY <1>3, <2>2 DEF Join, TypeOK
  <2>. QED
    BY <2>1, <2>3 DEF AnsweredOf, Terminates
<1>4. CASE EmitMedia(c)
  BY <1>4 DEF EmitMedia, KeptSink
<1>5. CASE EmitValue(c)
  BY <1>5 DEF EmitValue, TypeOK, AnsweredOf
<1>6. CASE Withdraw(c)
  BY <1>6 DEF Withdraw, TypeOK, AnsweredOf
<1>7. CASE Return(c)
  BY <1>7 DEF Return, TypeOK, AnsweredOf, Terminates
<1>8. CASE Panic(c) \/ TakeAbort(c)
  BY <1>8 DEF Panic, TakeAbort, TypeOK, AnsweredOf
<1>9. CASE PushFails(c)
  BY <1>9 DEF PushFails, Refused, AfterPush, TypeOK, AnsweredOf, Pushing
<1>10. CASE FinishSilently(c)
  <2>1. /\ task[c] = "returned" /\ task'[c] = "done" /\ terminal'[c]
        /\ terminal[c] \/ mode[c] = "ff"
        /\ UNCHANGED <<entry, res, mode, log, failed, withdrawn>>
    BY <1>10 DEF FinishSilently, Completed, TypeOK
  <2>. QED
    BY <2>1 DEF AnsweredOf, Terminates
<1>11. CASE Finish(c)
  BY <1>11 DEF Finish, Send, TypeOK, AnsweredOf
<1>12. CASE Pushed(c)
  <2>1. /\ task[c] \in Pushing /\ task'[c] = (IF task[c] = "emit" THEN "run" ELSE "done")
        /\ log'[c] = Append(log[c], parked[c]) /\ parked[c] \in Event
        /\ UNCHANGED <<entry, mode, terminal, failed, withdrawn>>
    BY <1>12 DEF Pushed, AfterPush, TypeOK
  <2>2. /\ Len(log'[c]) = Len(log[c]) + 1 /\ Len(log[c]) \in Nat
        /\ log'[c][Len(log[c]) + 1] = parked[c]
    BY <2>1, AppendProperties, LenProperties DEF TypeOK
  <2>3. log'[c] # <<>> /\ log'[c][Len(log'[c])] = parked[c]
    BY <2>2
  <2>4. terminal[c] = Terminates(c, parked[c])
    BY <2>1 DEF CompletionOf
  <2>5. task[c] = "close" => terminal[c]
    BY <2>1 DEF AnsweredOf
  <2>. QED
    BY <2>1, <2>3, <2>4, <2>5 DEF AnsweredOf, Terminates, Pushing
<1>. QED
  BY <1>1, <1>2, <1>3, <1>4, <1>5, <1>6, <1>7, <1>8, <1>9, <1>10, <1>11, <1>12
     DEF Host, Handler, Runtime

(* ... and what a batching handler kept. *)
LEMMA KeptOwn ==
  ASSUME TypeOK, NEW c \in Calls, CompletionOf(c), JoinedOf(c), KeptOf(c), Step(c)
  PROVE  KeptOf(c)'
<1>. SUFFICES ASSUME entry'[c] \in {"process", "multi"} PROVE KeptOf(c)'
  BY DEF KeptOf
<1>. USE DEF hostVars, taskVars, rpcVars, outVars, histVars
<1>1. CASE Spawn(c)
  <2>1. /\ log[c] = <<>> /\ outs[c] = <<>> /\ tried[c] = 0 /\ fut'[c] = "awaiting"
        /\ UNCHANGED <<log, outs, tried>> /\ entry'[c] # "rpc" /\ entry[c] = "rpc"
    BY <1>1 DEF Spawn, TypeOK, CompletionOf
  <2>2. task'[c] = "run"
    BY <1>1, <2>1 DEF Spawn, TypeOK
  <2>. QED
    BY <2>1, <2>2 DEF KeptOf
<1>2. CASE Undecodable(c) \/ DropFuture(c)
  <2>1. UNCHANGED <<entry, task, res, tried, log, outs>> /\ fut[c] # "ok" /\ fut'[c] # "ok"
    BY <1>2 DEF Undecodable, DropFuture, TypeOK
  <2>. QED
    BY <2>1 DEF KeptOf, Value
<1>3. CASE Join(c)
  <2>1. UNCHANGED <<entry, task, res, tried, outs>> /\ log[c] = <<>>
    BY <1>3 DEF Join, KeptOf
  <2>2. <<>> \o outs[c] = outs[c]
    BY ConcatEmptySeq DEF TypeOK
  <2>3. log'[c] = IF fut'[c] = "ok" THEN outs'[c] ELSE <<>>
    BY <1>3, <2>1, <2>2 DEF Join, TypeOK
  <2>. QED
    BY <2>1, <2>3 DEF KeptOf, Value
<1>4. CASE EmitMedia(c)
  <2>1. /\ UNCHANGED <<fut, entry, task, res, log>> /\ entry[c] = "multi" /\ task[c] = "run"
        /\ tried'[c] = tried[c] + 1 /\ outs'[c] = Append(outs[c], Value(tried[c] + 1))
    BY <1>4 DEF EmitMedia, KeptSink, TypeOK
  <2>2. /\ Len(outs[c]) = tried[c] /\ tried[c] \in Nat
        /\ \A i \in 1 .. tried[c] : outs[c][i] = Value(i)
    BY <2>1 DEF KeptOf, TypeOK
  <2>3. Value(tried[c] + 1) \in Event
    BY <2>2 DEF Value, Event
  <2>4. /\ Len(outs'[c]) = tried[c] + 1
        /\ \A i \in 1 .. tried[c] : outs'[c][i] = outs[c][i]
        /\ outs'[c][tried[c] + 1] = Value(tried[c] + 1)
    BY <2>1, <2>2, <2>3, AppendProperties DEF TypeOK
  <2>5. \A i \in 1 .. tried'[c] : outs'[c][i] = Value(i)
    BY <2>1, <2>2, <2>4
  <2>6. fut[c] # "ok"
    BY <2>1 DEF JoinedOf
  <2>. QED
    BY <2>1, <2>4, <2>5, <2>6 DEF KeptOf, Value
<1>5. CASE EmitValue(c) \/ Withdraw(c) \/ Pushed(c) \/ PushFails(c) \/ FinishSilently(c) \/ Finish(c)
  <2>1. task[c] \in Pushing \cup {"returned"} \/ entry[c] = "rpc"
    BY <1>5 DEF EmitValue, Withdraw, Pushed, PushFails, FinishSilently, Finish, Pushing
  <2>2. entry' = entry
    BY <1>5 DEF EmitValue, Withdraw, Pushed, PushFails, FinishSilently, Finish
  <2>. QED
    BY <2>1, <2>2 DEF CompletionOf
<1>6. CASE Return(c)
  <2>1. /\ UNCHANGED <<fut, entry, tried, log>> /\ task[c] = "run" /\ task'[c] = "done"
        /\ entry[c] = "multi" => outs' = outs
        /\ entry[c] = "process" /\ res'[c] = "ok" => outs'[c] = <<Value(0)>>
    BY <1>6 DEF Return, TypeOK
  <2>2. fut[c] # "ok"
    BY <2>1 DEF JoinedOf
  <2>. QED
    BY <2>1, <2>2 DEF KeptOf, Value
<1>7. CASE Panic(c) \/ TakeAbort(c)
  <2>1. UNCHANGED <<fut, entry, res, tried, log, outs>> /\ task'[c] # "done"
    BY <1>7 DEF Panic, TakeAbort, TypeOK
  <2>. QED
    BY <2>1 DEF KeptOf, Value
<1>. QED
  BY <1>1, <1>2, <1>3, <1>4, <1>5, <1>6, <1>7 DEF Host, Handler, Runtime

(* No call has begun. *)
LEMMA SettlementInit == Init => Settlement
  BY DEF Init, Settlement, JoinedOf, AnsweredOf, KeptOf

(* Settlement is inductive together with Completion, Honesty and the types.  *)
LEMMA SettlementStep ==
  ASSUME TypeOK, Completion, Honesty, Settlement, [Next]_vars
  PROVE  Settlement'
<1>1. ASSUME NEW c \in Calls, Step(c), NEW d \in Calls
      PROVE  JoinedOf(d)' /\ AnsweredOf(d)' /\ KeptOf(d)'
  <2>1. CASE d = c
    BY <1>1, <2>1, JoinedOwn, AnsweredOwn, KeptOwn DEF Completion, Honesty, Settlement
  <2>2. CASE d # c
    BY <1>1, <2>2, OthersSame, SettlementSame DEF Settlement
  <2>. QED
    BY <2>1, <2>2
<1>2. ASSUME UNCHANGED vars \/ ReadReply \/ StopReading \/ StopListening, NEW d \in Calls
      PROVE  JoinedOf(d)' /\ AnsweredOf(d)' /\ KeptOf(d)'
  <2>1. Same(d)
    BY <1>2 DEF Same, ReadReply, StopReading, StopListening, vars, hostVars, taskVars, rpcVars,
                outVars, histVars
  <2>. QED
    BY <2>1, SettlementSame DEF Settlement
<1>. QED
  BY <1>1, <1>2 DEF Next, Settlement

(* The call's flag, what it published and what it kept, together. *)
THEOREM SettlementCorrect == Spec => [](TypeOK /\ Completion /\ HonestInv /\ Settlement)
<1>. DEFINE Inv == TypeOK /\ Completion /\ HonestInv /\ Settlement
<1>1. Init => Inv
  BY TypeInit, CompletionInit, HonestyInit, SettlementInit
<1>2. Inv /\ [Next]_vars => Inv'
  BY TypeStep, CompletionStep, HonestyStep, SettlementStep DEF HonestInv
<1>. QED
  BY <1>1, <1>2, PTL DEF Spec

(* A call whose future resolves with ROk has its terminal event in the reply *)
(* channel, unless the handler withdrew a value or went on after a refused   *)
(* one: a push that fails in finish() makes the call fail.                   *)
THEOREM OkIsCompleted == Spec => []OkMeansCompleted
<1>1. Settlement => OkMeansCompleted
  <2>. SUFFICES ASSUME Settlement, NEW c \in Calls, entry[c] = "rpc", fut[c] = "ok",
                       mode[c] # "ff", c \notin withdrawn \cup failed
                PROVE  log[c] # <<>> /\ Terminates(c, log[c][Len(log[c])])
    BY DEF OkMeansCompleted
  <2>1. JoinedOf(c) /\ AnsweredOf(c)
    BY DEF Settlement
  <2>. QED
    BY <2>1 DEF JoinedOf, AnsweredOf
<1>. QED
  BY <1>1, SettlementCorrect, PTL

(* process and process_multi hand over all outputs of a call that succeeded, *)
(* in order, and none of one that did not.                                   *)
THEOREM BatchesWhole == Spec => []Batched
<1>1. Settlement => Batched
  <2>. SUFFICES ASSUME Settlement, NEW c \in Calls, entry[c] \in {"process", "multi"}
                PROVE  IF fut[c] # "ok" THEN log[c] = <<>>
                       ELSE IF entry[c] = "process" THEN log[c] = <<Value(0)>>
                       ELSE Len(log[c]) = tried[c] /\ \A i \in 1 .. tried[c] : log[c][i] = Value(i)
    BY DEF Batched
  <2>1. JoinedOf(c) /\ KeptOf(c)
    BY DEF Settlement
  <2>. QED
    BY <2>1 DEF JoinedOf, KeptOf
<1>. QED
  BY <1>1, SettlementCorrect, PTL

(* Once the future of a call other than a tick has resolved, or was dropped  *)
(* and its task has ended, nothing more of it reaches the host, neither a    *)
(* reply nor a media frame: only a running or pushing task publishes.        *)
THEOREM NoneTrails == Spec => NothingTrails
<1>. DEFINE Over(c) == /\ entry[c] # "tick"
                       /\ fut[c] \in {"ok", "err"} \/ (fut[c] = "dropped" /\ task[c] \in Ended)
            Still == \A c \in Calls : Over(c) => log'[c] = log[c]
<1>1. TypeOK /\ Settlement /\ [Next]_vars => [Still]_vars
  <2>. SUFFICES ASSUME TypeOK, Settlement, [Next]_vars, NEW c \in Calls, Over(c)
                PROVE  log'[c] = log[c]
    OBVIOUS
  <2>1. task[c] \in Ended \cup {"none"} /\ fut[c] \notin {"new", "awaiting"} /\ entry[c] # "tick"
    BY DEF Settlement, JoinedOf
  <2>2. CASE Step(c)
    BY <2>1, <2>2 DEF KeptSink, Host, Spawn, Undecodable, DropFuture, Join, Handler, EmitMedia, EmitValue,
       Withdraw, Return, Panic, Runtime, Pushed, PushFails, FinishSilently, Finish, TakeAbort,
       Ended, Pushing, outVars
  <2>3. CASE \E d \in Calls : d # c /\ Step(d)
    BY <2>3, OthersSame DEF Same
  <2>4. CASE ReadReply \/ StopReading \/ StopListening \/ UNCHANGED vars
    BY <2>4 DEF ReadReply, StopReading, StopListening, vars, outVars
  <2>. QED
    BY <2>2, <2>3, <2>4 DEF Next
<1>. QED
  BY <1>1, SettlementCorrect, PTL DEF Spec, NothingTrails
=============================================================================
