----------------------------- MODULE TargetTeam -----------------------------
(***************************************************************************)
(* The team of threads that executes a target region of a task: every      *)
(* thread runs a number of items and polls for cancellation before each.   *)
(* An item is done only if the poll returned 0; otherwise it is passed     *)
(* over, and so is every later one.                                        *)
(***************************************************************************)
EXTENDS HostSignals

VARIABLES
  left,  \* per worker: items of the region it has still to run or pass over
  late   \* history, per worker: items done while StopSignalled held

teamVars == <<signalVars, left, late>>

TeamTypeOK ==
  /\ regions \subseteq {"task", "cancel"}
  /\ left \in [Worker -> Nat]
  /\ late \in [Worker -> Nat]

TeamInit ==
  /\ left = [t \in Worker |-> 0]
  /\ late = [t \in Worker |-> 0]

(* A thread of the host enters `#pragma omp target': the flag aborted is   *)
(* private to the region's threads and starts at 0.                        *)
StartRegion(items) ==
  /\ AdmitRegion("task")
  /\ ts_start' = [t \in Worker |-> WtimeAsLong]
  /\ aborted' = [t \in Worker |-> 0]
  /\ left' = [t \in Worker |-> items]
  /\ UNCHANGED <<signals, now, hostVars, poll, late>>

PollItem(t) ==
  /\ left[t] > 0
  /\ PollCall(t)
  /\ UNCHANGED <<signals, now, regions, hostVars, aborted, ts_start, left, late>>

(* Faulty: the loop variable is not advanced. *)
EndItem_NoAdvance(t) ==
  /\ poll[t] = "returned"
  /\ PollGoto(t, "out")
  /\ UNCHANGED <<signals, now, regions, hostVars, aborted, ts_start, left>>

EndItem(t) ==
  /\ poll[t] = "returned"
  /\ PollGoto(t, "out")
  /\ left' = [left EXCEPT ![t] = @ - 1]
  /\ UNCHANGED <<signals, now, regions, hostVars, aborted, ts_start>>

(* Faulty: the item is done whatever the poll returned. *)
DoItem_IgnorePoll(t) ==
  /\ EndItem(t)
  /\ late' = [late EXCEPT ![t] = IF StopSignalled THEN @ + 1 ELSE @]

DoItem(t) ==
  /\ aborted[t] = 0
  /\ EndItem(t)
  /\ late' = [late EXCEPT ![t] = IF StopSignalled THEN @ + 1 ELSE @]

PassItem(t) ==
  /\ aborted[t] # 0
  /\ EndItem(t)
  /\ UNCHANGED late

WorkerStep(t) ==
  \/ PollItem(t)
  \/ PollStep(t) /\ UNCHANGED <<left, late>>
  \/ DoItem(t)
  \/ PassItem(t)

(* Faulty: the region ends with its first thread, without a barrier. *)
TeamDone_NoBarrier == \E t \in Worker : left[t] = 0 /\ poll[t] = "out"

TeamDone == \A t \in Worker : left[t] = 0 /\ poll[t] = "out"

(* Faulty: the region keeps its place on the device. *)
EndRegion_KeepsDevice ==
  /\ TeamDone
  /\ UNCHANGED <<signals, now, regions, hostVars, pollVars, left, late>>

EndRegion ==
  /\ TeamDone
  /\ LeaveRegion("task")
  /\ UNCHANGED <<signals, now, hostVars, pollVars, left, late>>

---------------------------------------------------------------------------
(* The team and the handle as the contract sees them.                      *)
CancelPhase ==
  IF cancel = 1 THEN "delivered"
  ELSE IF host = "rc_write" THEN "requested" ELSE "none"

Stopped == {t \in Worker : aborted[t] # 0}

(* Once cancel is set or a timeout is reported, no worker does more than    *)
(* the one item it had polled for, in this region or in a later one; one    *)
(* more only after the cancellation has written its verdict over TIMEOUT.   *)
LateItemsBounded == \A t \in Worker : late[t] <= LateLimit
=============================================================================
