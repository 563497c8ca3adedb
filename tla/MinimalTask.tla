----------------------------- MODULE MinimalTask ----------------------------
(***************************************************************************)
(* The boilerplate application (minimal/): the main thread of the host     *)
(* launches target_function in a second thread, may request cancellation,  *)
(* and joins.  target_function runs two target regions, each only if the   *)
(* handle carries no reason to stop, and charges the time elapsed to the   *)
(* timeout between them.                                                   *)
(***************************************************************************)
EXTENDS TargetTeam

(* polls, each with its work step, of a thread in either region *)
Polls == 2

VARIABLES
  owner,    \* where the thread running target_function is
  section,  \* the region it is at, 1 or 2
  charge,   \* oam_task__step: elapsed_us, read before the atomic update
  entered   \* HostMessage.targets_entered

ownerVars == <<owner, section, charge, entered>>
vars == <<teamVars, ownerVars>>

OwnerPc == {"enter", "check", "check_cancel", "check_timeout",
            "submit", "region", "step", "charge", "done"}

TypeOK ==
  /\ SignalsTypeOK
  /\ TeamTypeOK
  /\ owner \in OwnerPc
  /\ section \in {1, 2}
  /\ charge \in Int
  /\ entered \in {0, 1}

Init ==
  /\ SignalsInit
  /\ TeamInit
  /\ owner = "enter"
  /\ section = 1
  /\ charge = 0
  /\ entered = 0

OwnerGoto(from, to) == owner = from /\ owner' = to

(* oam_task__enter *)
Enter ==
  /\ OwnerGoto("enter", "check")
  /\ time_start_us' = IF time_start_us <= 0 THEN now ELSE time_start_us
  /\ entered' = entered + 1
  /\ UNCHANGED <<cancel, ret, timeout_after_us, now, regions, hostVars,
                 pollVars, left, late, section, charge>>

(* Faulty: every section enters the task anew. *)
AfterSection_EnterAgain == IF section = 1 THEN "enter" ELSE "done"

AfterSection == IF section = 1 THEN "step" ELSE "done"

(* oam_task__aborted reads cancel, then ret twice, to compare it with either *)
(* verdict; main() may store in between, so that it can pass over a TIMEOUT  *)
(* that is replaced by CANCEL.  (A build that loads ret once, or before      *)
(* cancel, which is never reset, does nothing that is not done here.)        *)
Check(from, reason, to) ==
  /\ OwnerGoto(from, IF reason THEN AfterSection ELSE to)
  /\ UNCHANGED <<teamVars, section, charge, entered>>

CheckCancel     == Check("check", cancel = 1, "check_cancel")
CheckRetCancel  == Check("check_cancel", ret = CANCEL, "check_timeout")
CheckRetTimeout == Check("check_timeout", ret = TIMEOUT, "submit")

Submit ==
  /\ OwnerGoto("submit", "region")
  /\ StartRegion(Polls)
  /\ UNCHANGED <<section, charge, entered>>

Return ==
  /\ OwnerGoto("region", AfterSection)
  /\ EndRegion
  /\ UNCHANGED <<section, charge, entered>>

(* oam_task__step reads the clock ... *)
StepElapsed ==
  /\ OwnerGoto("step", "charge")
  /\ charge' = now - time_start_us
  /\ UNCHANGED <<teamVars, section, entered>>

(* ... and then takes the time elapsed off the timeout, atomically. *)
StepCharge ==
  /\ OwnerGoto("charge", "check")
  /\ timeout_after_us' = timeout_after_us - charge
  /\ section' = 2
  /\ UNCHANGED <<cancel, ret, time_start_us, now, regions, hostVars, pollVars,
                 left, late, charge, entered>>

OwnerStep ==
  \/ Enter
  \/ CheckCancel
  \/ CheckRetCancel
  \/ CheckRetTimeout
  \/ Submit
  \/ Return
  \/ StepElapsed
  \/ StepCharge

(* target_future.get() *)
Join ==
  /\ owner = "done"
  /\ HostGoto("join", "done")
  /\ UNCHANGED <<signals, unsent, now, regions, pollVars, left, late, ownerVars>>

HostStep ==
  \/ CancelStep /\ UNCHANGED <<left, late, ownerVars>>
  \/ Join

Finished == host = "done" /\ UNCHANGED vars

Next ==
  \/ Tick /\ UNCHANGED <<left, late, ownerVars>>
  \/ \E t \in Worker : WorkerStep(t) /\ UNCHANGED ownerVars
  \/ OwnerStep
  \/ HostStep
  \/ Finished

Spec == Init /\ [][Next]_vars

(* Every thread is scheduled: the host's threads by Linux, the workers by   *)
(* the device, one per core.  A region is sure to start on a free device    *)
(* only: that of the task and that of the cancellation may have to wait for *)
(* each other.                                                              *)
Fairness ==
  /\ \A t \in Worker : WF_vars(WorkerStep(t) /\ UNCHANGED ownerVars)
  /\ WF_vars(OwnerStep /\ (owner = "submit" => DeviceFree))
  /\ WF_vars(HostStep /\ (host = "rc_region" => DeviceFree))

FairSpec == Spec /\ Fairness

---------------------------------------------------------------------------
(* The handle and the team as the contract sees them.  The check before the *)
(* second region may miss a TIMEOUT that the cancellation replaces, so that *)
(* a worker that had its late item in the first may have another.           *)
Contract == INSTANCE AbortContract WITH
  Grace   <- 2,
  phase   <- CancelPhase,
  verdict <- ret,
  stopped <- Stopped

(* The application implements the contract of the signal handle. *)
ImplementsContract == Contract!Spec

(* A task that has been joined is not reported as "not completed yet"    *)
(* (oam_types.h on OMPACC_TASK__UNDEFINED).                                 *)
CompletionReported == host = "done" => ret # UNDEFINED

(* Both threads of the host get to their end: the task returns and is       *)
(* joined, also when the region of the task or that of the cancellation     *)
(* waits for as long as the other one is on the device.                     *)
Terminates == <>(owner = "done" /\ host = "done")
=============================================================================
