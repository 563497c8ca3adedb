------------------------------- MODULE DspFreq ------------------------------
(***************************************************************************)
(* The clock measurement (dsp_freq/): a single target region in which one  *)
(* thread polls in a loop until it is aborted.  The start timestamp it     *)
(* polls with is in microseconds.  main() hands the timeout also to the    *)
(* accelerator runtime (oam_task__set_default_timeout), which takes the    *)
(* region off the device when it has run for longer than that.             *)
(***************************************************************************)
EXTENDS HostSignals

CONSTANTS
  FreqScale,       \* oam_config()->target_freq_scale: microseconds in a ms
  CancelLatencyMs  \* cancel_lat_ms

ASSUME DspFreqAssumption ==
  /\ FreqScale \in Nat \ {0}
  /\ CancelLatencyMs \in Nat

VARIABLES
  owner,         \* where the thread running target_task is
  requested_us   \* history: the timeout that main() asked for

ownerVars == <<owner, requested_us>>
vars == <<signalVars, ownerVars>>

(* oam_task__set_default_timeout, in milliseconds: the latency of the       *)
(* runtime's cancellation is taken off, unless the timeout is within it.  A *)
(* negative timeout, which a product with 1000 that overflows may be,       *)
(* disables it.                                                             *)
DefaultTimeoutMs ==
  LET timeout_ms == requested_us \div FreqScale
  IN  CASE timeout_ms < 0               -> 0
        [] timeout_ms > CancelLatencyMs -> timeout_ms - CancelLatencyMs
        [] OTHER                        -> timeout_ms

TypeOK ==
  /\ SignalsTypeOK
  /\ regions \subseteq {"task", "cancel"}
  /\ owner \in {"start", "region", "done"}
  /\ requested_us \in Timeouts

Init ==
  /\ SignalsInit
  /\ owner = "start"
  /\ requested_us = timeout_after_us

OwnerGoto(from, to) == owner = from /\ owner' = to

(* The region's thread reads ts_start_us first of all, when the runtime has *)
(* started to count.                                                        *)
Submit ==
  /\ OwnerGoto("start", "region")
  /\ AdmitRegion("task")
  /\ ts_start' = [t \in Worker |-> now]
  /\ aborted' = [t \in Worker |-> 0]
  /\ UNCHANGED <<signals, now, hostVars, poll, requested_us>>

(* while (!aborted) *)
LoopPoll(t) ==
  /\ owner = "region"
  /\ aborted[t] = 0
  /\ PollCall(t)
  /\ UNCHANGED <<signals, now, regions, hostVars, aborted, ts_start>>

(* Faulty: the loop runs on what the poll returned last time round. *)
LoopNext_Forever(t) ==
  /\ poll[t] = "returned"
  /\ poll' = [poll EXCEPT ![t] = "out"]
  /\ aborted' = [aborted EXCEPT ![t] = 0]
  /\ UNCHANGED <<signals, now, regions, hostVars, ts_start>>

LoopNext(t) ==
  /\ poll[t] = "returned"
  /\ PollGoto(t, "out")
  /\ UNCHANGED <<signals, now, regions, hostVars, aborted, ts_start>>

WorkerStep(t) ==
  \/ LoopPoll(t)
  \/ PollStep(t)
  \/ LoopNext(t)

(* The loop is left: the region ends, target_task returns. *)
Return ==
  /\ OwnerGoto("region", "done")
  /\ \A t \in Worker : aborted[t] # 0 /\ poll[t] = "out"
  /\ LeaveRegion("task")
  /\ UNCHANGED <<signals, now, hostVars, pollVars, requested_us>>

(* The runtime takes the region off the device, wherever its thread is; 0   *)
(* is no timeout to it.                                                     *)
RuntimeTimeout ==
  /\ OwnerGoto("region", "done")
  /\ DefaultTimeoutMs > 0
  /\ \A t \in Worker : now - ts_start[t] >= DefaultTimeoutMs * FreqScale
  /\ LeaveRegion("task")
  /\ poll' = [t \in Worker |-> "out"]
  /\ UNCHANGED <<signals, now, hostVars, aborted, ts_start, requested_us>>

OwnerStep == Submit \/ Return \/ RuntimeTimeout

(* target_thread.join() *)
Join ==
  /\ owner = "done"
  /\ HostGoto("join", "done")
  /\ UNCHANGED <<signals, unsent, now, regions, pollVars, ownerVars>>

HostStep == (CancelStep /\ UNCHANGED ownerVars) \/ Join

Finished == host = "done" /\ UNCHANGED vars

(* The measurements start with the region: what the clock shows before it   *)
(* is in Uptimes.                                                           *)
Clock == owner # "start" /\ Tick /\ UNCHANGED ownerVars

Next ==
  \/ Clock
  \/ \E t \in Worker : WorkerStep(t) /\ UNCHANGED ownerVars
  \/ OwnerStep
  \/ HostStep
  \/ Finished

Spec == Init /\ [][Next]_vars

(* Time passes and every thread of the region is scheduled.  Nothing is     *)
(* assumed of the runtime's own timeout, nor of the cancellation, which may *)
(* never get a place on the device.                                         *)
Fairness ==
  /\ WF_vars(Clock)
  /\ \A t \in Worker : WF_vars(WorkerStep(t) /\ UNCHANGED ownerVars)
  /\ WF_vars(Return)

FairSpec == Spec /\ Fairness

---------------------------------------------------------------------------
(* The loop has no bound of its own: the poll ends it, by the timeout if    *)
(* not by the cancellation, which may get no place on the device while the  *)
(* loop runs.                                                               *)
LoopLeft == owner = "region" /\ requested_us > 0 ~> owner = "done"

(* The region has had the time main() asked for, less the latency that is   *)
(* taken off, in milliseconds of which the last may not be full.            *)
TimeGranted ==
  /\ requested_us > 0
  /\ \A t \in Worker :
       now - ts_start[t] > requested_us - (CancelLatencyMs + 1) * FreqScale

(* A region is not left for no reason: its task was cancelled, timed out by *)
(* its own poll, or taken off by the runtime, never of a task without a     *)
(* timeout and no earlier than the latency before it.                       *)
LeftForReason ==
  owner = "done" => ret \in {CANCEL, TIMEOUT} \/ cancel = 1 \/ TimeGranted

(* TIMEOUT is the verdict of a task whose timeout has passed (oam_types.h:  *)
(* "Target task timed out"), not of one that was cancelled before.          *)
TimeoutHasPassed ==
  ret = TIMEOUT => \A t \in Worker : now - ts_start[t] >= requested_us

(* Against a runtime that may take the region off at any step of the poll,  *)
(* the verdict stays one that a request justifies, and a cancellation that  *)
(* has been served stays reported.                                          *)
VerdictKept == TypeOK /\ CancelJustified /\ CancelReported
=============================================================================
