---------------------------- MODULE AbortContract ---------------------------
(***************************************************************************)
(* What the signal handle promises to the code around it, without its      *)
(* fields and without the steps of its calls:                              *)
(*   - a verdict CANCEL is reached only on a request, and no verdict is    *)
(*     taken back to UNDEFINED;                                            *)
(*   - a worker stops only for a reason: a cancellation delivered or a     *)
(*     timeout seen;                                                       *)
(*   - while a reason stands a worker does at most Grace items in all: the *)
(*     one it has polled for, and another if the reason was taken back.    *)
(***************************************************************************)
EXTENDS Integers

CONSTANTS
  Worker,
  Grace    \* items a worker may do although a reason to stop stands

VARIABLES
  phase,    \* of the cancellation: "none", "requested", "delivered"
  verdict,  \* -1 undefined, 1 cancelled, 2 timed out
  stopped,  \* the workers that do no further item of the current region
  late      \* per worker: items done although a reason stood

vars == <<phase, verdict, stopped, late>>

TypeOK ==
  /\ phase \in {"none", "requested", "delivered"}
  /\ verdict \in {-1, 1, 2}
  /\ stopped \subseteq Worker
  /\ late \in [Worker -> 0 .. Grace]

Init ==
  /\ phase = "none"
  /\ verdict = -1
  /\ stopped = {}
  /\ late = [w \in Worker |-> 0]

Noticed == phase = "delivered" \/ verdict = 2

Request ==
  /\ phase = "none"
  /\ phase' = "requested"
  /\ UNCHANGED <<verdict, stopped, late>>

Deliver ==
  /\ phase = "requested"
  /\ phase' = "delivered"
  /\ UNCHANGED <<verdict, stopped, late>>

(* The requester announces the verdict itself. *)
Announce ==
  /\ phase # "none"
  /\ verdict' = 1
  /\ UNCHANGED <<phase, stopped, late>>

StopCancelled(w) ==
  /\ phase = "delivered"
  /\ verdict' \in {verdict, 1}
  /\ stopped' = stopped \union {w}
  /\ UNCHANGED <<phase, late>>

StopTimedOut(w) ==
  /\ verdict' = 2
  /\ stopped' = stopped \union {w}
  /\ UNCHANGED <<phase, late>>

(* Items done before a reason stands leave the contract's state alone. *)
LateItem(w) ==
  /\ Noticed
  /\ w \notin stopped
  /\ late[w] < Grace
  /\ late' = [late EXCEPT ![w] = @ + 1]
  /\ UNCHANGED <<phase, verdict, stopped>>

NewRegion ==
  /\ stopped' = {}
  /\ UNCHANGED <<phase, verdict, late>>

Next ==
  \/ Request
  \/ Deliver
  \/ Announce
  \/ NewRegion
  \/ \E w \in Worker : StopCancelled(w) \/ StopTimedOut(w) \/ LateItem(w)

Spec == Init /\ [][Next]_vars
=============================================================================
