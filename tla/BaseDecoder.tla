----------------------------- MODULE BaseDecoder ----------------------------
(***************************************************************************)
(* The tasks that use the first version of the library: decode             *)
(* (task_extlib/) with its sections, of which each checks the handle twice  *)
(* before it enters its region; decode_target (extlib_linkage/), the same   *)
(* with a single thread, whose sections are nested in each other's check;   *)
(* async_target (declare/), a loop of regions that looks at cancel after    *)
(* each; and target_function (static_vars/), one region of one thread.      *)
(***************************************************************************)
EXTENDS BaseSignals

(* The items of a region fall to every thread of the team, or, without a    *)
(* parallel construct, to one.                                              *)
TeamShare == [t \in Worker |-> Items]

OneThread == CHOOSE t \in Worker : TRUE
SingleShare == [t \in Worker |-> IF t = OneThread THEN Items ELSE 0]

---------------------------------------------------------------------------
NextSection(from) ==
  IF section = Sections THEN OwnerGoto(from, "done") /\ UNCHANGED section
  ELSE OwnerGoto(from, "check") /\ section' = section + 1

CompareNext ==
  /\ owner \in {"check", "body"}
  /\ ~FindsReason /\ reads < 2
  /\ reads' = reads + 1
  /\ UNCHANGED <<app, handle, now, hostVars, owner, section, elapsed, teamVars, history>>

RunSection ==
  /\ NotAborted
  /\ OwnerGoto("check", "body")
  /\ UNCHANGED <<app, handle, now, hostVars, section, elapsed, teamVars, history>>

(* The check that fails passes over its section, or over all that are       *)
(* nested in it.                                                            *)
SkipSection ==
  /\ Aborted
  /\ IF app = "extlib_linkage"
     THEN OwnerGoto("check", "done") /\ UNCHANGED section
     ELSE NextSection("check")
  /\ complete' = FALSE
  /\ UNCHANGED <<app, handle, now, hostVars, elapsed, teamVars, cancel_us, late>>

(* decoder_body asks again, and then enters its target region: the          *)
(* cancellation may come in between.                                        *)
CheckBody ==
  /\ NotAborted
  /\ OwnerGoto("body", "launch")
  /\ UNCHANGED <<app, handle, now, hostVars, section, elapsed, teamVars, history>>

StartRegion ==
  /\ OwnerGoto("launch", "region")
  /\ EnterRegion(IF app = "extlib_linkage" THEN SingleShare ELSE TeamShare)

SkipRegion ==
  /\ Aborted
  /\ OwnerGoto("body", "step")
  /\ complete' = FALSE
  /\ UNCHANGED <<app, handle, now, hostVars, section, elapsed, teamVars, cancel_us, late>>

EndRegion ==
  /\ TeamDone
  /\ OwnerGoto("region", "step")
  /\ UNCHANGED <<app, handle, now, hostVars, section, elapsed, reads, teamVars, history>>

(* oam_task__step takes milliseconds off the timeout. *)
StepElapsed ==
  /\ OwnerGoto("step", "charge")
  /\ elapsed' = now \div UsPerMs - time_start_us
  /\ UNCHANGED <<app, handle, now, hostVars, section, reads, teamVars, history>>

StepCharge ==
  /\ NextSection("charge")
  /\ timeout_after_us' = timeout_after_us - elapsed
  /\ elapsed' = 0
  /\ UNCHANGED <<app, cancel, ret, time_start_us, last_poll_time_us, now, hostVars,
                 reads, teamVars, history>>

DecodeStep ==
  \/ Enter
  \/ CompareNext
  \/ RunSection
  \/ SkipSection
  \/ CheckBody
  \/ StartRegion
  \/ SkipRegion
  \/ EndRegion
  \/ StepElapsed
  \/ StepCharge

---------------------------------------------------------------------------
(* async_target of declare/. *)
StartTask ==
  /\ OwnerGoto("check", "region")
  /\ EnterRegion(TeamShare)

EndTask ==
  /\ TeamDone
  /\ OwnerGoto("region", "step")
  /\ UNCHANGED <<app, handle, now, hostVars, section, elapsed, reads, teamVars, history>>

(* Faulty: the verdict is looked at in place of the request. *)
CheckCancel_Verdict ==
  /\ IF ret = CANCEL THEN OwnerGoto("step", "done") /\ UNCHANGED section ELSE NextSection("step")
  /\ complete' = (complete /\ (ret = CANCEL => section = Sections))
  /\ UNCHANGED <<app, handle, now, hostVars, elapsed, reads, teamVars, cancel_us, late>>

(* The cancellation is looked at after each region, the timeout never. *)
CheckCancel ==
  /\ IF cancel = 1 THEN OwnerGoto("step", "done") /\ UNCHANGED section ELSE NextSection("step")
  /\ complete' = (complete /\ (cancel = 1 => section = Sections))
  /\ UNCHANGED <<app, handle, now, hostVars, elapsed, reads, teamVars, cancel_us, late>>

AsyncTargetStep == Enter \/ StartTask \/ EndTask \/ CheckCancel

---------------------------------------------------------------------------
(* target_function of static_vars/: the code of its region is executed by   *)
(* one thread.                                                              *)
StartStatic ==
  /\ OwnerGoto("check", "region")
  /\ EnterRegion(SingleShare)

EndStatic ==
  /\ TeamDone
  /\ OwnerGoto("region", "done")
  /\ UNCHANGED <<app, handle, now, hostVars, section, elapsed, reads, teamVars, history>>

TargetFunctionStep == Enter \/ StartStatic \/ EndStatic

---------------------------------------------------------------------------
OwnerStep ==
  \/ app \in {"task_extlib", "extlib_linkage"} /\ DecodeStep
  \/ app = "declare" /\ AsyncTargetStep
  \/ app = "static_vars" /\ TargetFunctionStep

Finished == host = "done" /\ UNCHANGED vars

Next ==
  \/ Tick
  \/ \E t \in Worker : WorkerStep(t)
  \/ OwnerStep
  \/ HostStep
  \/ Finished

(* Every thread is scheduled; main() may or may not cancel. *)
Fairness ==
  /\ \A t \in Worker : WF_vars(WorkerStep(t))
  /\ WF_vars(OwnerStep)
  /\ WF_vars(HostStep)

Spec == Init /\ [][Next]_vars

FairSpec == Spec /\ Fairness

---------------------------------------------------------------------------
(* main() verifies the output when ret is OK after the join: then no item   *)
(* of any section was passed over.                                          *)
OkMeansComplete == host = "done" /\ ret = OK => complete

(* No thread skips its poll when the cancellation has been there for the    *)
(* poll interval or longer.                                                 *)
NoticedWithinInterval ==
  [][\A t \in Worker :
       poll[t] = "out" /\ poll'[t] = "returned" /\ aborted[t] = 0 /\ cancel = 1 =>
         now - cancel_us < Interval]_vars

(* What main() prints as the task's exit code is one of the values of the   *)
(* enumeration OMPAccTaskRet (base/oam_types.h).                            *)
ExitCodeDefined == host = "done" => ret \in {OK, CANCEL, TIMEOUT}

(* However the task is written, it starts at most one region after the      *)
(* cancellation, although the verdict that goes with it may be overwritten. *)
AtMostOneLateRegion == late <= 1

(* The task returns and is joined. *)
Terminates == <>(host = "done")
=============================================================================
