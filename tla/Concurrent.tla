----------------------------- MODULE Concurrent -----------------------------
(***************************************************************************)
(* Two tasks on one handle (concurrent/): main() launches task A and task  *)
(* B in a thread each, may request cancellation, and joins both.  Each     *)
(* task is one target region in which a single thread polls before every   *)
(* item.                                                                   *)
(*                                                                         *)
(* README.md:69 says the application `is supposed to fail as only one      *)
(* target task is allowed for execution on DSP at any time', and calls it  *)
(* a defect scenario.  What a runtime does with a second task is not in    *)
(* the repository; the model lets it do each of four things: the region    *)
(* waits, it runs beside the first one, it is not executed, or the program *)
(* fails.                                                                  *)
(*                                                                         *)
(* CONCURRENT_TARGET_TASK, a switch of concurrent_main.cpp, says whether B *)
(* is launched before or after the cancellation; both builds are modelled. *)
(***************************************************************************)
EXTENDS HostSignals, HostArgs

CONSTANTS
  TaskA, TaskB,   \* the tasks; the single thread of a task has its name
  Items,          \* items of a task: repeats times size
  CommandLines,   \* command lines the program is started with
  DefaultTimeout  \* timeout_after_us without the option -to

ASSUME ConcurrentAssumption ==
  /\ Worker = {TaskA, TaskB} /\ TaskA # TaskB
  /\ Items \in Nat

VARIABLES
  argv,        \* the command line
  concurrent,  \* CONCURRENT_TARGET_TASK is defined
  owner,       \* per task: where the thread that main() launched is
  left,        \* per task: items it has still to run or pass over
  output,      \* per task: items done, the elements of its output written
  refused,     \* history: the tasks whose region has not been executed
  failed,      \* the program has failed, as the tasks met on the device
  late         \* history, per task: items done while StopSignalled held

taskVars == <<argv, concurrent, owner, left, output, refused, failed, late>>
vars == <<signalVars, taskVars>>

TimeoutAfterUs == Value(argv, "-to", DefaultTimeout)
CancelTask == Flag(argv, "-c")

RegionOf(x) == IF x = TaskA THEN "task_a" ELSE "task_b"

TypeOK ==
  /\ SignalsTypeOK
  /\ regions \subseteq {"task_a", "task_b", "cancel"}
  /\ argv \in CommandLines
  /\ concurrent \in BOOLEAN
  /\ owner \in [Worker -> {"idle", "launched", "region", "done"}]
  /\ left \in [Worker -> 0 .. Items]
  /\ output \in [Worker -> 0 .. Items]
  /\ refused \subseteq Worker
  /\ failed \in BOOLEAN
  /\ late \in [Worker -> Nat]

(* parse_args, the handle, and the launch of what is launched before main() *)
(* gets to the cancellation.                                                *)
Init ==
  /\ argv \in CommandLines /\ Readable(argv)
  /\ concurrent \in BOOLEAN
  /\ SignalsInit
  /\ timeout_after_us = TimeoutAfterUs
  /\ owner = [x \in Worker |->
                IF x = TaskA \/ concurrent THEN "launched" ELSE "idle"]
  /\ left = [x \in Worker |-> 0]
  /\ output = [x \in Worker |-> 0]
  /\ refused = {} /\ failed = FALSE
  /\ late = [x \in Worker |-> 0]

OwnerGoto(x, from, to) == owner[x] = from /\ owner' = [owner EXCEPT ![x] = to]

(* The region may have to wait for that of the other task, or run beside it. *)
Submit(x) ==
  /\ OwnerGoto(x, "launched", "region")
  /\ AdmitRegion(RegionOf(x))
  /\ ts_start' = [ts_start EXCEPT ![x] = WtimeAsLong]
  /\ aborted' = [aborted EXCEPT ![x] = 0]
  /\ left' = [left EXCEPT ![x] = Items]
  /\ UNCHANGED <<signals, now, hostVars, poll, argv, concurrent, output, refused,
                 failed, late>>

(* The defect scenario: the runtime is given a region while it executes the *)
(* other task's.                                                            *)
Meets(x) == \E y \in Worker \ {x} : RegionOf(y) \in regions

(* The region is not executed, and the task's function returns. *)
Refuse(x) ==
  /\ Meets(x)
  /\ OwnerGoto(x, "launched", "done")
  /\ refused' = refused \union {x}
  /\ UNCHANGED <<signalVars, argv, concurrent, left, output, failed, late>>

(* The program ends where it is. *)
Fail(x) ==
  /\ Meets(x)
  /\ owner[x] = "launched"
  /\ failed' = TRUE
  /\ UNCHANGED <<signalVars, argv, concurrent, owner, left, output, refused, late>>

PollItem(x) ==
  /\ left[x] > 0
  /\ PollCall(x)
  /\ UNCHANGED <<signals, now, regions, hostVars, aborted, ts_start, taskVars>>

(* Faulty: the loop starts again with an item that was passed over. *)
EndItem_Again(x) ==
  /\ poll[x] = "returned"
  /\ PollGoto(x, "out")
  /\ left' = [left EXCEPT ![x] = IF aborted[x] = 0 THEN @ - 1 ELSE @]
  /\ output' = [output EXCEPT ![x] = IF aborted[x] = 0 THEN @ + 1 ELSE @]
  /\ late' = [late EXCEPT ![x] = IF aborted[x] = 0 /\ StopSignalled THEN @ + 1 ELSE @]
  /\ UNCHANGED <<signals, now, regions, hostVars, aborted, ts_start, argv,
                 concurrent, owner, refused, failed>>

(* Faulty: the item is done whatever the poll has returned. *)
EndItem_IgnorePoll(x) ==
  /\ poll[x] = "returned"
  /\ PollGoto(x, "out")
  /\ left' = [left EXCEPT ![x] = @ - 1]
  /\ output' = [output EXCEPT ![x] = @ + 1]
  /\ late' = [late EXCEPT ![x] = IF StopSignalled THEN @ + 1 ELSE @]
  /\ UNCHANGED <<signals, now, regions, hostVars, aborted, ts_start, argv,
                 concurrent, owner, refused, failed>>

(* The item is done if the poll has returned 0, else it is passed over. *)
EndItem(x) ==
  /\ poll[x] = "returned"
  /\ PollGoto(x, "out")
  /\ left' = [left EXCEPT ![x] = @ - 1]
  /\ output' = [output EXCEPT ![x] = IF aborted[x] = 0 THEN @ + 1 ELSE @]
  /\ late' = [late EXCEPT ![x] = IF aborted[x] = 0 /\ StopSignalled THEN @ + 1 ELSE @]
  /\ UNCHANGED <<signals, now, regions, hostVars, aborted, ts_start, argv,
                 concurrent, owner, refused, failed>>

Return(x) ==
  /\ OwnerGoto(x, "region", "done")
  /\ left[x] = 0 /\ poll[x] = "out"
  /\ LeaveRegion(RegionOf(x))
  /\ UNCHANGED <<signals, now, hostVars, pollVars, argv, concurrent, left,
                 output, refused, failed, late>>

TaskStep(x) ==
  \/ Submit(x)
  \/ PollItem(x)
  \/ PollStep(x) /\ UNCHANGED taskVars
  \/ EndItem(x)
  \/ Return(x)

(* Faulty: main() launches B before the cancellation has returned. *)
LaunchB_Early ==
  /\ host \in {"rc_region", "rc_write", "join"}
  /\ OwnerGoto(TaskB, "idle", "launched")
  /\ UNCHANGED <<signalVars, argv, concurrent, left, output, refused, failed, late>>

LaunchB ==
  /\ host = "join"
  /\ OwnerGoto(TaskB, "idle", "launched")
  /\ UNCHANGED <<signalVars, argv, concurrent, left, output, refused, failed, late>>

(* target_future_b.get(), then target_future_a.get(). *)
Join ==
  /\ \A x \in Worker : owner[x] = "done"
  /\ HostGoto("join", "done")
  /\ UNCHANGED <<signals, unsent, now, regions, pollVars, taskVars>>

HostStep ==
  \/ CancelTask /\ RequestCancel /\ UNCHANGED taskVars
  \/ ~CancelTask /\ NoCancel /\ UNCHANGED taskVars
  \/ CancelRegionStart /\ UNCHANGED taskVars
  \/ \E field \in unsent : CancelWrite(field) /\ UNCHANGED taskVars
  \/ CancelRegionEnd /\ UNCHANGED taskVars
  \/ LaunchB
  \/ Join

Finished == (host = "done" \/ failed) /\ UNCHANGED vars

Next ==
  \/ ~failed /\ Tick /\ UNCHANGED taskVars
  \/ ~failed /\ \E x \in Worker : TaskStep(x) \/ Refuse(x) \/ Fail(x)
  \/ ~failed /\ HostStep
  \/ Finished

Spec == Init /\ [][Next]_vars

(* The host schedules its threads, the device those of the regions it       *)
(* executes.  A region is sure to start on a free device only.              *)
Fairness ==
  /\ \A x \in Worker :
       WF_vars(~failed /\ TaskStep(x) /\ (owner[x] = "launched" => DeviceFree))
  /\ WF_vars(~failed /\ HostStep /\ (host = "rc_region" => DeviceFree))

FairSpec == Spec /\ Fairness

---------------------------------------------------------------------------
(* The handle is shared, and so is a reason to stop: also when the tasks    *)
(* and the cancellation run side by side, and a timeout of one stops the    *)
(* other, neither does more than the item it had polled for, or one more    *)
(* when the cancellation has replaced the timeout.                          *)
LateItemsBounded == \A x \in Worker : late[x] <= LateLimit

(* A verdict is all main() has to decide whether the outputs are complete:  *)
(* as long as it is UNDEFINED when both tasks have been joined, they are,   *)
(* although neither task knows of the other - but for a task whose region   *)
(* has not been executed, of which the handle says nothing.                 *)
CompleteUnlessReported ==
  host = "done" /\ ret = UNDEFINED =>
    \A x \in Worker \ refused : output[x] = Items

(* In the build that launches B after oam_task__request_cancel has          *)
(* returned, B does nothing if a cancellation was requested.                *)
LaunchedCancelled == ~concurrent /\ CancelTask => output[TaskB] = 0

(* Neither task uses the handle any more when main() frees it, and one that *)
(* main() launches after the cancellation does nothing.                     *)
TasksSafe == TypeOK /\ HandleFreedUnused /\ LaunchedCancelled

(* Unless the program fails when the tasks meet, as the repository expects, *)
(* both return, whoever gets the device first and whether or not the other  *)
(* one and the cancellation wait: main() joins both and frees the handle.   *)
Terminates == <>(host = "done" \/ failed)
=============================================================================
