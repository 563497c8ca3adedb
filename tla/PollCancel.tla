----------------------------- MODULE PollCancel -----------------------------
(***************************************************************************)
(* Cancellation by the accelerator's runtime (poll_cancel/): the target    *)
(* region of target_function does not poll (the call is behind `1 ||'), so *)
(* that only the timeout target_function has handed to the runtime ends it *)
(* early.  main() may still request cancellation, in a region of its own.  *)
(***************************************************************************)
EXTENDS HostSignals, HostArgs

CONSTANTS
  Items,             \* items of the region: repeats times size
  CommandLines,      \* command lines the program is started with
  DefaultTimeoutMs,  \* timeout_after_ms without the option -to
  UsPerMs,           \* clock units (microseconds) in a millisecond
  Word               \* number of values of an int

ASSUME PollCancelAssumption ==
  /\ Items \in Nat
  /\ DefaultTimeoutMs \in Int
  /\ UsPerMs \in Nat \ {0, 1}
  /\ Word \in Nat /\ Word % 2 = 0 /\ Word > 0

VARIABLES
  argv,   \* the command line
  owner,  \* where the thread running target_function is
  limit,  \* the timeout the runtime has been given, in milliseconds
  left,   \* items of the region still to be done
  taken,  \* the runtime has taken the region off the device
  result  \* what target_function returns: the timeout status, -1 before

taskVars == <<argv, owner, limit, left, taken, result>>
vars == <<signalVars, taskVars>>

TimeoutAfterMs == Value(argv, "-to", DefaultTimeoutMs)
CancelTask == Flag(argv, "-c")

(* A product of two int values; where it overflows, it wraps around. *)
AsInt(x) == ((x + Word \div 2) % Word) - Word \div 2

TypeOK ==
  /\ SignalsTypeOK
  /\ regions \subseteq {"task", "cancel"}
  /\ argv \in CommandLines
  /\ owner \in {"start", "submit", "region", "left", "done"}
  /\ limit \in Int
  /\ left \in 0 .. Items
  /\ taken \in {0, 1}
  /\ result \in {-1, 0, 1}

(* main() multiplies the timeout by 1000 for the handle ... *)
Init ==
  /\ argv \in CommandLines /\ Readable(argv)
  /\ SignalsInit
  /\ timeout_after_us = AsInt(TimeoutAfterMs * UsPerMs)
  /\ owner = "start"
  /\ limit = 0
  /\ left = Items
  /\ taken = 0
  /\ result = -1

OwnerGoto(from, to) == owner = from /\ owner' = to

(* Faulty: the latency of a cancellation is taken off, however short the    *)
(* timeout is.                                                              *)
InMilliseconds_Latency(us) == (us \div UsPerMs) - 1

(* ... and target_function divides it again for the runtime, truncating.    *)
InMilliseconds(us) == IF us >= 0 THEN us \div UsPerMs ELSE -((-us) \div UsPerMs)

(* What target_function reads may also be the 1 us a cancellation has set.  *)
SetDefaultTimeout ==
  /\ OwnerGoto("start", "submit")
  /\ limit' = InMilliseconds(timeout_after_us)
  /\ UNCHANGED <<signalVars, argv, left, taken, result>>

Submit ==
  /\ OwnerGoto("submit", "region")
  /\ AdmitRegion("task")
  /\ ts_start' = [t \in Worker |-> now]
  /\ UNCHANGED <<signals, now, hostVars, poll, aborted, argv, limit, left, taken,
                 result>>

(* Faulty: the loop waits for the cancellation it does not poll for. *)
DoItem_Waits ==
  /\ owner = "region" /\ left > 0
  /\ left' = IF aborted = [t \in Worker |-> 0] THEN left ELSE left - 1
  /\ UNCHANGED <<signalVars, argv, owner, limit, taken, result>>

(* The handle is not looked at. *)
DoItem ==
  /\ owner = "region" /\ left > 0
  /\ left' = left - 1
  /\ UNCHANGED <<signalVars, argv, owner, limit, taken, result>>

EndRegion ==
  /\ left = 0
  /\ OwnerGoto("region", "left")
  /\ LeaveRegion("task")
  /\ UNCHANGED <<signals, now, hostVars, pollVars, argv, limit, left, taken, result>>

(* The runtime takes the region off the device when its time is over; it    *)
(* takes a limit of 0 for none (oam_task.c 119: "disable timeout").         *)
RuntimeTimeout ==
  /\ limit > 0
  /\ \A t \in Worker : now - ts_start[t] >= limit * UsPerMs
  /\ OwnerGoto("region", "left")
  /\ LeaveRegion("task")
  /\ taken' = 1
  /\ UNCHANGED <<signals, now, hostVars, pollVars, argv, limit, left, result>>

(* Faulty: the status is asked for in the region, of a task that still runs. *)
Return_Status0 ==
  /\ OwnerGoto("left", "done")
  /\ result' = 0
  /\ UNCHANGED <<signalVars, argv, limit, left, taken>>

(* __ti_get_timeout_status *)
Return ==
  /\ OwnerGoto("left", "done")
  /\ result' = taken
  /\ UNCHANGED <<signalVars, argv, limit, left, taken>>

OwnerStep == SetDefaultTimeout \/ Submit \/ DoItem \/ EndRegion \/ Return

(* target_future.get() *)
Join ==
  /\ owner = "done"
  /\ HostGoto("join", "done")
  /\ UNCHANGED <<signals, unsent, now, regions, pollVars, taskVars>>

(* computation_at_host ends; the value main() then stores in param is read  *)
(* by nobody.                                                               *)
Computed ==
  /\ IF CancelTask THEN RequestCancel ELSE NoCancel
  /\ UNCHANGED taskVars

HostStep ==
  \/ Computed
  \/ CancelRegionStart /\ UNCHANGED taskVars
  \/ \E field \in unsent : CancelWrite(field) /\ UNCHANGED taskVars
  \/ CancelRegionEnd /\ UNCHANGED taskVars
  \/ Join

Finished == host = "done" /\ UNCHANGED vars

Next ==
  \/ Tick /\ UNCHANGED taskVars
  \/ OwnerStep
  \/ RuntimeTimeout
  \/ HostStep
  \/ Finished

Spec == Init /\ [][Next]_vars

(* Both threads of the host are scheduled, and a region is sure to start on *)
(* a free device only.  Nothing is assumed of the runtime's timeout.        *)
FairSpec ==
  /\ Spec
  /\ WF_vars(OwnerStep /\ (owner = "submit" => DeviceFree))
  /\ WF_vars(HostStep /\ (host = "rc_region" => DeviceFree))

---------------------------------------------------------------------------
(* target_function returns 1 only of a region that has had the time the     *)
(* user asked for, through two conversions and a handle that a cancellation *)
(* writes to meanwhile, if the product with 1000 fits an int.               *)
StatusNotEarly ==
  result = 1 /\ AsInt(TimeoutAfterMs * UsPerMs) = TimeoutAfterMs * UsPerMs =>
    \A t \in Worker : now - ts_start[t] >= TimeoutAfterMs * UsPerMs

(* And it returns 0 only of a region whose items have all been done, even   *)
(* if the handle says the task was cancelled.                               *)
StatusComplete == result = 0 => left = 0

(* The status main() gets is that of a region which is off the device, and  *)
(* so is the cancellation's, when the handle is freed.                      *)
StatusSound == TypeOK /\ StatusComplete /\ HandleFreedUnused

(* The task returns and main() joins it, with no timeout at all, and also   *)
(* if the cancellation's region waits for as long as the task's is on the   *)
(* device, or the task's for the cancellation's.                            *)
Terminates == <>(host = "done")
=============================================================================
