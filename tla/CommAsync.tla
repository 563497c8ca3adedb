------------------------------ MODULE CommAsync -----------------------------
(***************************************************************************)
(* The host/target communication test (comm_async/): the thread launched   *)
(* by main() runs async_target, which executes one target region after the *)
(* other, without asking before each of them whether the task was aborted; *)
(* after each it leaves the loop if cancel is set.  The threads of a       *)
(* region share a loop over the items and poll before each of them.        *)
(*                                                                         *)
(* The value main() passes in param is only printed and left out, and so   *)
(* is targets_entered, which nothing reads.                                *)
(***************************************************************************)
EXTENDS TargetTeam

CONSTANTS
  Repeat,  \* regions that async_target executes
  Items    \* items of a region's loop that fall to each thread

ASSUME CommAsyncAssumption == Repeat \in Nat /\ Items \in Nat

VARIABLES
  owner,       \* where the thread running async_target is
  index,       \* its loop variable
  lateRegions  \* history: regions started while cancel was set

ownerVars == <<owner, index, lateRegions>>
vars == <<teamVars, ownerVars>>

TypeOK ==
  /\ SignalsTypeOK
  /\ TeamTypeOK
  /\ owner \in {"enter", "loop", "region", "check", "done"}
  /\ index \in 0 .. Repeat
  /\ lateRegions \in 0 .. Repeat

Init ==
  /\ SignalsInit
  /\ TeamInit
  /\ owner = "enter"
  /\ index = 0
  /\ lateRegions = 0

OwnerGoto(from, to) == owner = from /\ owner' = to

Enter ==
  /\ OwnerGoto("enter", "loop")
  /\ time_start_us' = IF time_start_us <= 0 THEN now ELSE time_start_us
  /\ UNCHANGED <<cancel, ret, timeout_after_us, now, regions, hostVars,
                 pollVars, left, late, index, lateRegions>>

Submit ==
  /\ index < Repeat
  /\ OwnerGoto("loop", "region")
  /\ StartRegion(Items)
  /\ lateRegions' = IF cancel = 1 THEN lateRegions + 1 ELSE lateRegions
  /\ UNCHANGED index

Return ==
  /\ OwnerGoto("region", "check")
  /\ EndRegion
  /\ UNCHANGED <<index, lateRegions>>

(* Faulty: the loop stops at the verdict, which may still be TIMEOUT. *)
CheckCancel_Verdict ==
  /\ OwnerGoto("check", IF ret = CANCEL THEN "done" ELSE "loop")
  /\ index' = IF ret = CANCEL THEN index ELSE index + 1
  /\ UNCHANGED <<teamVars, lateRegions>>

CheckCancel ==
  /\ OwnerGoto("check", IF cancel = 1 THEN "done" ELSE "loop")
  /\ index' = IF cancel = 1 THEN index ELSE index + 1
  /\ UNCHANGED <<teamVars, lateRegions>>

LoopEnd ==
  /\ index = Repeat
  /\ OwnerGoto("loop", "done")
  /\ UNCHANGED <<teamVars, index, lateRegions>>

OwnerStep ==
  \/ Enter
  \/ Submit
  \/ Return
  \/ CheckCancel
  \/ LoopEnd

(* target_future.get() *)
Join ==
  /\ owner = "done"
  /\ HostGoto("join", "done")
  /\ UNCHANGED <<signals, unsent, now, regions, pollVars, left, late, ownerVars>>

HostStep ==
  \/ CancelStep /\ UNCHANGED <<left, late, ownerVars>>
  \/ Join

Finished == host = "done" /\ UNCHANGED vars

Next ==
  \/ Tick /\ UNCHANGED <<left, late, ownerVars>>
  \/ \E t \in Worker : WorkerStep(t) /\ UNCHANGED ownerVars
  \/ OwnerStep
  \/ HostStep
  \/ Finished

Spec == Init /\ [][Next]_vars

---------------------------------------------------------------------------
(* The handle and the team as the contract sees them.  Between two regions  *)
(* the cancellation may overwrite TIMEOUT before it sets cancel: the next   *)
(* region, with a clock of its own, starts without a reason to stop, and a  *)
(* worker that had its late item may have another when cancel is set.       *)
Contract == INSTANCE AbortContract WITH
  Grace   <- 2,
  phase   <- CancelPhase,
  verdict <- ret,
  stopped <- Stopped

(* The application implements the contract of the signal handle, although  *)
(* the regions follow each other with no check of ret between them.        *)
ImplementsContract == Contract!Spec

(* Once cancel is set the application starts at most the one region it was  *)
(* about to start.                                                          *)
AtMostOneLateRegion == lateRegions <= 1

(* The verdict is kept over the regions, which start without asking for it: *)
(* a thread that passes over items, in whichever region, does so of a task   *)
(* that is reported as stopped; a cancellation that has been served stays   *)
(* reported.                                                                *)
VerdictKept == TypeOK /\ AbortReported /\ CancelReported
=============================================================================
