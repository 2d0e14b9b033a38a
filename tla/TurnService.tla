---------------------------- MODULE TurnService ----------------------------
(***************************************************************************)
(* What a Python plugin node promises its callers, without threads or      *)
(* channels: requests are served one at a time in the order they were      *)
(* accepted, and the frames a caller is given are frames its own input     *)
(* produced, in the order they were produced, even when other callers give *)
(* up.  The promise ends at the first receive error (poisoned).            *)
(***************************************************************************)
EXTENDS Naturals, Sequences

CONSTANTS Calls, None

VARIABLES
  st,        (* "new", "pending", "served", "ok", "err" or "cancelled"      *)
  ans,       (* the frames given to each caller                             *)
  line,      (* requests accepted and not yet served, oldest first          *)
  serving,   (* the request being served                                    *)
  poisoned   (* has a receive error been met?                               *)

svars == <<st, ans, line, serving, poisoned>>

(* Frames of turn c only, each later in that turn than the one before. *)
OwnInOrder(c, frames) ==
  /\ \A i \in 1 .. Len(frames) : frames[i].turn = c
  /\ \A i, j \in 1 .. Len(frames) : i < j => frames[i].n < frames[j].n

Init ==
  /\ st = [c \in Calls |-> "new"]
  /\ ans = [c \in Calls |-> <<>>]
  /\ line = <<>>
  /\ serving = None
  /\ poisoned = FALSE

Request(c) ==
  /\ st[c] = "new"
  /\ st' \in {[st EXCEPT ![c] = "pending"], [st EXCEPT ![c] = "err"]}
  /\ UNCHANGED <<ans, line, serving, poisoned>>

Accept(c) ==
  /\ st[c] = "pending"
  /\ serving # c
  /\ \A i \in 1 .. Len(line) : line[i] # c
  /\ line' = Append(line, c)
  /\ UNCHANGED <<st, ans, serving, poisoned>>

GiveUp(c) ==
  /\ st[c] \in {"pending", "served"}
  /\ st' = [st EXCEPT ![c] = "cancelled"]
  /\ UNCHANGED <<ans, line, serving, poisoned>>

(* Only the oldest accepted request, and only when none is being served. *)
Serve ==
  /\ serving = None
  /\ line # <<>>
  /\ line' = Tail(line)
  /\ serving' = Head(line)
  /\ UNCHANGED <<st, ans, poisoned>>

Settled(c, r) == st' = IF st[c] = "pending" THEN [st EXCEPT ![c] = r] ELSE st

Refuse ==
  /\ serving = None
  /\ line # <<>>
  /\ line' = Tail(line)
  /\ \E r \in {"err", "served"} : Settled(Head(line), r)
  /\ UNCHANGED <<ans, serving, poisoned>>

(* One frame reaches the caller ahead of the end of its turn. *)
Deliver(c) ==
  /\ st[c] \in {"pending", "served"}
  /\ Len(ans'[c]) = Len(ans[c]) + 1
  /\ ans' = [ans EXCEPT ![c] = Append(@, ans'[c][Len(@) + 1])]
  /\ poisoned \/ OwnInOrder(c, ans'[c])
  /\ UNCHANGED <<st, line, serving, poisoned>>

(* The turn ends; a caller that still waits has its answer, or (streaming)   *)
(* the end of its stream.                                                    *)
Conclude ==
  /\ serving # None
  /\ serving' = None
  /\ \E r \in {"ok", "err", "served"} : Settled(serving, r)
  /\ \/ UNCHANGED ans
     \/ /\ st[serving] = "pending" /\ st'[serving] = "ok"
        /\ ans' = [ans EXCEPT ![serving] = ans'[serving]]
        /\ poisoned \/ OwnInOrder(serving, ans'[serving])
  /\ poisoned' \in {poisoned, TRUE}
  /\ poisoned' # poisoned => UNCHANGED ans
  /\ UNCHANGED line

Settle(c) ==
  /\ st[c] = "served"
  /\ st' \in {[st EXCEPT ![c] = "ok"], [st EXCEPT ![c] = "err"]}
  /\ UNCHANGED <<ans, line, serving, poisoned>>

Next ==
  \/ Serve \/ Refuse \/ Conclude
  \/ \E c \in Calls : Request(c) \/ Accept(c) \/ GiveUp(c) \/ Deliver(c) \/ Settle(c)

Spec == Init /\ [][Next]_svars
=============================================================================
