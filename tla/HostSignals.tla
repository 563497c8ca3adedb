---------------------------- MODULE HostSignals ----------------------------
(***************************************************************************)
(* The OAM signal handle: one HostMessage object in memory that the host   *)
(* (ARM) and the accelerator (DSP) share, and the library calls that read  *)
(* and write it.  The applications extend this module and add the threads  *)
(* that make the calls.                                                    *)
(*                                                                         *)
(* A call that touches the shared object several times is several actions, *)
(* one per access that another thread can tell apart; accesses between     *)
(* which nothing another thread does can matter are one action, and the    *)
(* comment of the action says why.  Symmetric memory is taken as coherent: *)
(* a value written is read by every thread from then on.                   *)
(***************************************************************************)
EXTENDS Integers, FiniteSets

CONSTANTS
  Worker,       \* the threads of the team that executes a target region
  MaxRegions,   \* how many target regions the device executes at a time
  Timeouts,     \* the values of timeout_after_us a handle is created with
  UsPerSecond,  \* clock units (microseconds) in a second
  Uptimes,      \* what the clock may show when the handle is created
  MaxTime       \* bound: the clock of the model stops here

ASSUME HostSignalsAssumption ==
  /\ Worker # {}
  /\ IsFiniteSet(Worker)
  /\ MaxRegions \in Nat \ {0}
  /\ Timeouts \subseteq Int
  /\ UsPerSecond \in Nat \ {0}
  /\ Uptimes \subseteq Nat
  /\ MaxTime \in Nat

(* OMPAccTaskRet *)
UNDEFINED == -1
OK        == 0
CANCEL    == 1
TIMEOUT   == 2
Ret == {UNDEFINED, OK, CANCEL, TIMEOUT}

VARIABLES
  cancel,            \* HostMessage.cancel
  ret,               \* HostMessage.ret
  timeout_after_us,  \* HostMessage.timeout_after_us
  time_start_us,     \* HostMessage.time_start_us
  now,               \* the clock, in microseconds
  regions,           \* the target regions the device is executing: "cancel"
                     \* and those the application names
  host,              \* where the host's main thread is
  unsent,            \* fields oam_task__request_cancel has still to write
  poll,              \* per worker: where it is in oam_task__poll_cancel_request
  aborted,           \* per worker: its thread-local flag aborted
  ts_start           \* per worker: the start timestamp it passes to the poll

signals    == <<cancel, ret, timeout_after_us, time_start_us>>
hostVars   == <<host, unsent>>
pollVars   == <<poll, aborted, ts_start>>
signalVars == <<signals, now, regions, hostVars, pollVars>>

HostPc == {"compute", "rc_region", "rc_write", "join", "done"}
PollPc == {"out", "flags", "message", "put_cancel", "clock", "put_timeout",
           "recheck", "returned"}

SignalsTypeOK ==
  /\ cancel \in {0, 1}
  /\ ret \in Ret
  /\ timeout_after_us \in Int
  /\ time_start_us \in Nat
  /\ now \in Nat
  /\ host \in HostPc
  /\ unsent \subseteq {"cancel", "ret", "timeout"}
  /\ poll \in [Worker -> PollPc]
  /\ aborted \in [Worker -> {0, 1}]
  /\ ts_start \in [Worker -> Nat]

(* oam_comm__host_signals_init, before the task's thread is launched. *)
SignalsInit ==
  /\ cancel = 0
  /\ ret = UNDEFINED
  /\ timeout_after_us \in Timeouts
  /\ time_start_us = 0
  /\ now \in Uptimes
  /\ regions = {}
  /\ host = "compute"
  /\ unsent = {}
  /\ poll = [t \in Worker |-> "out"]
  /\ aborted = [t \in Worker |-> 0]
  /\ ts_start = [t \in Worker |-> 0]

(* The clock advances at any moment, whatever the threads do. *)
Tick ==
  /\ now < MaxTime
  /\ now' = now + 1
  /\ UNCHANGED <<signals, regions, hostVars, pollVars>>

---------------------------------------------------------------------------
(* Target regions: the device executes at most MaxRegions of them at a     *)
(* time.  Beside another one a region may have to wait for as long as that *)
(* lasts: only a device that executes none has to take it (DeviceFree, for *)
(* the fairness of the applications).                                      *)
AdmitRegion(r) ==
  /\ Cardinality(regions) < MaxRegions
  /\ regions' = regions \union {r}

LeaveRegion(r) == regions' = regions \ {r}

DeviceFree == regions = {}

(* omp_get_wtime() read on the target, handed on as an integer number of   *)
(* seconds.                                                                *)
WtimeAsLong == now \div UsPerSecond

---------------------------------------------------------------------------
(* oam_task__poll_cancel_request and the oam_comm__poll_message it calls.  *)

PollGoto(t, pc) == poll' = [poll EXCEPT ![t] = pc]
PollReturn(t, a) ==
  /\ PollGoto(t, "returned")
  /\ aborted' = [aborted EXCEPT ![t] = a]

(* The call: a thread that has aborted before gets 1 back at once. *)
PollCall(t) ==
  /\ poll[t] = "out"
  /\ PollGoto(t, IF aborted[t] # 0 THEN "returned" ELSE "flags")

(* The reads of ret and of cancel are one action.  cancel is never reset:   *)
(* when both reads find nothing, neither was set at the first of them; when *)
(* one finds something, it is there for an action at that moment too.       *)
PollSeesFlag(t) ==
  /\ poll[t] = "flags"
  /\ ret = TIMEOUT \/ cancel # 0
  /\ PollReturn(t, 1)
  /\ UNCHANGED <<signals, now, regions, hostVars, ts_start>>

PollSeesNoFlag(t) ==
  /\ poll[t] = "flags"
  /\ ret # TIMEOUT /\ cancel = 0
  /\ PollGoto(t, "message")
  /\ UNCHANGED <<signals, now, regions, hostVars, aborted, ts_start>>

(* Faulty: a timeout that has elapsed is taken for a cancellation. *)
PollMessage_TimeoutAsCancel(t) ==
  /\ poll[t] = "message"
  /\ PollGoto(t, IF cancel # 0 \/ now - ts_start[t] >= timeout_after_us
                 THEN "put_cancel" ELSE "clock")
  /\ UNCHANGED <<signals, now, regions, hostVars, aborted, ts_start>>

(* oam_comm__poll_message reads cancel once more ...                       *)
PollMessage(t) ==
  /\ poll[t] = "message"
  /\ PollGoto(t, IF cancel # 0 THEN "put_cancel" ELSE "clock")
  /\ UNCHANGED <<signals, now, regions, hostVars, aborted, ts_start>>

PollPutCancel(t) ==
  /\ poll[t] = "put_cancel"
  /\ ret' = CANCEL
  /\ PollReturn(t, 1)
  /\ UNCHANGED <<cancel, timeout_after_us, time_start_us, now, regions,
                 hostVars, ts_start>>

(* ... and then compares the timeout with the time elapsed.                *)
TimeoutElapsed(t) ==
  /\ timeout_after_us > 0
  /\ timeout_after_us <= now - ts_start[t]

PollClock(t) ==
  /\ poll[t] = "clock"
  /\ PollGoto(t, IF TimeoutElapsed(t) THEN "put_timeout" ELSE "recheck")
  /\ UNCHANGED <<signals, now, regions, hostVars, aborted, ts_start>>

(* Faulty: the caller is told to abort, the verdict is not written. *)
PollPutTimeout_NoVerdict(t) ==
  /\ poll[t] = "put_timeout"
  /\ PollReturn(t, 1)
  /\ UNCHANGED <<signals, now, regions, hostVars, ts_start>>

PollPutTimeout(t) ==
  /\ poll[t] = "put_timeout"
  /\ ret' = TIMEOUT
  /\ PollReturn(t, 1)
  /\ UNCHANGED <<cancel, timeout_after_us, time_start_us, now, regions,
                 hostVars, ts_start>>

(* Faulty: an exhausted timeout counts as a reason to abort. *)
PollRecheck_Exhausted(t) ==
  /\ poll[t] = "recheck"
  /\ PollReturn(t, IF cancel # 0 \/ timeout_after_us <= now THEN 1 ELSE 0)
  /\ UNCHANGED <<signals, now, regions, hostVars, ts_start>>

(* Back in the poll, cancel is read a last time. *)
PollRecheck(t) ==
  /\ poll[t] = "recheck"
  /\ PollReturn(t, IF cancel # 0 THEN 1 ELSE 0)
  /\ UNCHANGED <<signals, now, regions, hostVars, ts_start>>

PollStep(t) ==
  \/ PollSeesFlag(t)
  \/ PollSeesNoFlag(t)
  \/ PollMessage(t)
  \/ PollPutCancel(t)
  \/ PollClock(t)
  \/ PollPutTimeout(t)
  \/ PollRecheck(t)

---------------------------------------------------------------------------
(* oam_task__request_cancel, called by the host's main thread: a target    *)
(* region of its own that writes three fields.                             *)

HostGoto(from, to) == host = from /\ host' = to

RequestCancel ==
  /\ HostGoto("compute", IF cancel = 1 THEN "join" ELSE "rc_region")
  /\ UNCHANGED <<signals, unsent, now, regions, pollVars>>

CancelRegionStart ==
  /\ HostGoto("rc_region", "rc_write")
  /\ AdmitRegion("cancel")
  /\ unsent' = {"cancel", "ret", "timeout"}
  /\ UNCHANGED <<signals, now, pollVars>>

(* Faulty: the verdict is left to the workers. *)
CancelWrite_NoVerdict(field) ==
  /\ host = "rc_write"
  /\ field \in unsent
  /\ unsent' = unsent \ {field}
  /\ cancel' = IF field = "cancel" THEN 1 ELSE cancel
  /\ timeout_after_us' = IF field = "timeout" THEN 1 ELSE timeout_after_us
  /\ UNCHANGED <<ret, time_start_us, now, regions, host, pollVars>>

(* Plain stores to three fields with no fence between them: the compiler    *)
(* may order them as it likes, so the next one is any that is left.         *)
CancelWrite(field) ==
  /\ host = "rc_write"
  /\ field \in unsent
  /\ unsent' = unsent \ {field}
  /\ cancel' = IF field = "cancel" THEN 1 ELSE cancel
  /\ ret' = IF field = "ret" THEN CANCEL ELSE ret
  /\ timeout_after_us' = IF field = "timeout" THEN 1 ELSE timeout_after_us
  /\ UNCHANGED <<time_start_us, now, regions, host, pollVars>>

CancelRegionEnd ==
  /\ unsent = {}
  /\ HostGoto("rc_write", "join")
  /\ LeaveRegion("cancel")
  /\ UNCHANGED <<signals, unsent, now, pollVars>>

(* An application that was not asked to cancel goes on to join the task. *)
NoCancel ==
  /\ HostGoto("compute", "join")
  /\ UNCHANGED <<signals, unsent, now, regions, pollVars>>

CancelStep ==
  \/ RequestCancel
  \/ CancelRegionStart
  \/ \E field \in unsent : CancelWrite(field)
  \/ CancelRegionEnd
  \/ NoCancel

---------------------------------------------------------------------------
(* A reason every worker's next poll sees on its own. *)
StopSignalled == cancel # 0 \/ ret = TIMEOUT

(* The cancellation has stored its verdict.  Until then a reason to stop is *)
(* not taken back; this store replaces TIMEOUT, maybe before cancel is set. *)
Announced == (host = "rc_write" \/ cancel = 1) /\ "ret" \notin unsent

(* Items a worker may have done late: the one it had polled for when the    *)
(* reason came, and another if the reason was taken back and came again.    *)
LateLimit == IF Announced THEN 2 ELSE 1

---------------------------------------------------------------------------
(* Properties of every application that uses the handle.                   *)

(* ret says CANCEL only of a task whose cancellation was requested, though  *)
(* workers write it from what they read of cancel some steps earlier.       *)
CancelJustified == ret = CANCEL => cancel = 1 \/ host = "rc_write"

(* A worker's own flag and the shared verdict agree: no worker passes over  *)
(* items of a task that the handle does not report as stopped.              *)
AbortReported ==
  \A t \in Worker : aborted[t] # 0 => ret \in {CANCEL, TIMEOUT} \/ cancel = 1

(* When oam_task__request_cancel has returned, the task is reported as      *)
(* stopped and stays so, whichever of the workers' writes comes last.       *)
CancelReported == cancel = 1 /\ unsent = {} => ret \in {CANCEL, TIMEOUT}

(* When the main thread has joined the task and frees the handle, no region *)
(* that uses it is left on the device and no worker is inside a poll.       *)
HandleFreedUnused ==
  host = "done" => regions = {} /\ \A t \in Worker : poll[t] = "out"
=============================================================================
