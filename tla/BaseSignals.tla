----------------------------- MODULE BaseSignals ----------------------------
(***************************************************************************)
(* The first version of the library (base/), and what the applications     *)
(* that use it have in common: main(), which starts the task in a thread,   *)
(* may cancel it and joins it, and the threads of a region, which poll      *)
(* before each of their items.  It differs from the later version in ways  *)
(* that show: main() writes the cancellation itself instead of in a target *)
(* region, a thread polls only when an interval has passed since its last  *)
(* poll, the verdict is added to ret, and a timeout aborts no thread.      *)
(* param, which is only printed, is left out.                              *)
(***************************************************************************)
EXTENDS Integers, FiniteSets

CONSTANTS
  Worker,    \* the threads of a region's team
  Sections,  \* target regions of the task, at most
  Items,     \* items of a section that fall to each thread
  Timeouts,  \* the timeouts, in ms, that main() creates the handle with
  Interval,  \* the poll interval that main() creates the handle with
  UsPerMs,   \* clock units (microseconds) in a ms
  Uptimes,   \* what the clock may show at first
  IntMax,    \* the largest int
  MaxTime    \* bound: the clock of the model stops here

ASSUME BaseSignalsAssumption ==
  /\ IsFiniteSet(Worker) /\ Worker # {}
  /\ {Sections, Items, UsPerMs, IntMax} \subseteq Nat \ {0}
  /\ {Interval, MaxTime} \subseteq Nat
  /\ Timeouts \subseteq Nat /\ Uptimes \subseteq Nat

OK      == 0
CANCEL  == 1
TIMEOUT == 2

VARIABLES
  cancel, ret, timeout_after_us, time_start_us,  \* fields of HostMessage
  last_poll_time_us,  \* HostMessage: per thread
  now,                \* the clock, in microseconds
  host,               \* where main() is
  unsent,             \* fields oam_task__request_cancel has still to write
  app,                \* the application
  owner,              \* where the thread running the task is
  section,            \* the section, or region, it is at
  elapsed,            \* oam_task__step: read before the atomic update, or 0
  reads,              \* oam_task__aborted: fields it has compared so far
  poll,               \* per thread: where it is in the poll
  sum,                \* per thread: the value it is about to store in ret, or 0
  aborted,            \* per thread: its flag aborted
  ts_start,           \* the clock at the start of the region
  left,               \* per thread: items to do or to pass over
  complete,           \* history: no item has been passed over
  cancel_us,          \* history: the clock when cancel was written
  late                \* history: regions started since then

handle   == <<cancel, ret, timeout_after_us, time_start_us, last_poll_time_us>>
hostVars == <<host, unsent>>
ownVars  == <<owner, section, elapsed, reads>>
pollVars == <<poll, sum, aborted>>
teamVars == <<pollVars, ts_start, left>>
history  == <<complete, cancel_us, late>>
vars     == <<app, handle, now, hostVars, ownVars, teamVars, history>>

Applications == {"task_extlib", "extlib_linkage", "declare", "static_vars"}

PollPc == {"out", "message", "timeout", "add", "store", "recheck", "returned"}

TypeOK ==
  /\ cancel \in {0, 1} /\ ret \in Nat
  /\ timeout_after_us \in Int /\ time_start_us \in Int
  /\ last_poll_time_us \in [Worker -> -IntMax - 1 .. IntMax]
  /\ now \in Nat
  /\ host \in {"compute", "cancel", "join", "done"}
  /\ unsent \subseteq {"cancel", "ret", "timeout"}
  /\ app \in Applications
  /\ owner \in {"enter", "check", "body", "launch", "region", "step", "charge", "done"}
  /\ section \in 1 .. Sections
  /\ elapsed \in Int
  /\ reads \in 0 .. 2
  /\ poll \in [Worker -> PollPc]
  /\ sum \in [Worker -> Nat]
  /\ aborted \in [Worker -> {0, 1}]
  /\ ts_start \in Nat
  /\ left \in [Worker -> 0 .. Items]
  /\ complete \in BOOLEAN /\ cancel_us \in Nat /\ late \in 0 .. Sections

(* oam_comm__host_signals_new *)
Init ==
  /\ cancel = 0 /\ ret = OK
  /\ timeout_after_us \in Timeouts /\ time_start_us = 0
  /\ last_poll_time_us = [t \in Worker |-> 0]
  /\ now \in Uptimes
  /\ host = "compute" /\ unsent = {}
  /\ app \in Applications
  /\ owner = "enter" /\ section = 1 /\ elapsed = 0 /\ reads = 0
  /\ poll = [t \in Worker |-> "out"]
  /\ sum = [t \in Worker |-> 0]
  /\ aborted = [t \in Worker |-> 0]
  /\ ts_start = 0
  /\ left = [t \in Worker |-> 0]
  /\ complete = TRUE /\ cancel_us = 0 /\ late = 0

Tick ==
  /\ now < MaxTime
  /\ now' = now + 1
  /\ UNCHANGED <<app, handle, hostVars, ownVars, teamVars, history>>

---------------------------------------------------------------------------
(* The poll.  Times are ints: the conversion of one that does not fit is    *)
(* undefined, it saturates or wraps around; the difference wraps around.    *)
Wrap(us) == ((us + IntMax + 1) % (2 * (IntMax + 1))) - (IntMax + 1)

AsInt(us) == IF us <= IntMax THEN {us} ELSE {IntMax, Wrap(us)}

(* Faulty: the interval is taken for milliseconds. *)
IntervalPassed_Ms(t, time_now_us) ==
  \/ last_poll_time_us[t] = 0
  \/ Wrap(time_now_us - last_poll_time_us[t]) >= Interval * UsPerMs

IntervalPassed(t, time_now_us) ==
  \/ last_poll_time_us[t] = 0
  \/ Wrap(time_now_us - last_poll_time_us[t]) >= Interval

PollGoto(t, pc) == poll' = [poll EXCEPT ![t] = pc]

PollCall(t) ==
  /\ poll[t] = "out"
  /\ left[t] > 0
  /\ \E time_now_us \in AsInt(now) :
       IF aborted[t] = 0 /\ IntervalPassed(t, time_now_us)
       THEN /\ PollGoto(t, "message")
            /\ last_poll_time_us' = [last_poll_time_us EXCEPT ![t] = time_now_us]
       ELSE PollGoto(t, "returned") /\ UNCHANGED last_poll_time_us
  /\ UNCHANGED <<app, cancel, ret, timeout_after_us, time_start_us, now, hostVars,
                 ownVars, sum, aborted, ts_start, left, history>>

(* ret += v is a read and, in a step of its own, a write.  cancel, which is *)
(* never reset, and the read of ret that follows it are one step.           *)
LoadSum(t, v) == PollGoto(t, "store") /\ sum' = [sum EXCEPT ![t] = ret + v]

PollMessage(t) ==
  /\ poll[t] = "message"
  /\ IF cancel # 0 THEN LoadSum(t, CANCEL)
     ELSE PollGoto(t, "timeout") /\ UNCHANGED sum
  /\ UNCHANGED <<app, handle, now, hostVars, ownVars, aborted, ts_start, left, history>>

(* A timeout that has passed stays so while the region lasts: the first two *)
(* conditions are one step.  ret is read again for the addition.            *)
PollTimeout(t) ==
  /\ poll[t] = "timeout"
  /\ PollGoto(t, IF timeout_after_us <= now - ts_start /\ ret # TIMEOUT
                 THEN "add" ELSE "recheck")
  /\ UNCHANGED <<app, handle, now, hostVars, ownVars, sum, aborted, ts_start, left, history>>

PollAddTimeout(t) ==
  /\ poll[t] = "add"
  /\ LoadSum(t, TIMEOUT)
  /\ UNCHANGED <<app, handle, now, hostVars, ownVars, aborted, ts_start, left, history>>

PollStore(t) ==
  /\ poll[t] = "store"
  /\ ret' = sum[t]
  /\ sum' = [sum EXCEPT ![t] = 0]
  /\ PollGoto(t, "recheck")
  /\ UNCHANGED <<app, cancel, timeout_after_us, time_start_us, last_poll_time_us, now,
                 hostVars, ownVars, aborted, ts_start, left, history>>

PollReturn(t) ==
  /\ poll[t] = "recheck"
  /\ PollGoto(t, "returned")
  /\ aborted' = [aborted EXCEPT ![t] = IF cancel # 0 THEN 1 ELSE 0]
  /\ UNCHANGED <<app, handle, now, hostVars, ownVars, sum, ts_start, left, history>>

(* Faulty: the item is not counted. *)
EndItem_Again(t) ==
  /\ poll[t] = "returned"
  /\ PollGoto(t, "out")
  /\ complete' = (complete /\ aborted[t] = 0)
  /\ UNCHANGED <<app, handle, now, hostVars, ownVars, sum, aborted, ts_start, left,
                 cancel_us, late>>

(* A thread that is aborted passes over its items, or, in static_vars,      *)
(* leaves its loop.                                                         *)
EndItem(t) ==
  /\ poll[t] = "returned"
  /\ PollGoto(t, "out")
  /\ left' = [left EXCEPT ![t] = IF app = "static_vars" /\ aborted[t] # 0 THEN 0 ELSE @ - 1]
  /\ complete' = (complete /\ aborted[t] = 0)
  /\ UNCHANGED <<app, handle, now, hostVars, ownVars, sum, aborted, ts_start,
                 cancel_us, late>>

WorkerStep(t) ==
  \/ PollCall(t)
  \/ PollMessage(t)
  \/ PollTimeout(t)
  \/ PollAddTimeout(t)
  \/ PollStore(t)
  \/ PollReturn(t)
  \/ EndItem(t)

---------------------------------------------------------------------------
(* The thread that runs the task. *)
(* oam_task__aborted reads cancel, then ret twice, to compare it with either *)
(* verdict; main() may store in between.                                     *)
FindsReason ==
  \/ reads = 0 /\ cancel = 1
  \/ reads = 1 /\ ret = CANCEL
  \/ reads = 2 /\ ret = TIMEOUT

Aborted    == FindsReason /\ reads' = 0
NotAborted == ~FindsReason /\ reads = 2 /\ reads' = 0

OwnerGoto(from, to) == owner = from /\ owner' = to

Enter ==
  /\ OwnerGoto("enter", "check")
  /\ time_start_us' = now \div UsPerMs
  /\ UNCHANGED <<app, cancel, ret, timeout_after_us, last_poll_time_us, now, hostVars,
                 section, elapsed, reads, teamVars, history>>

(* A target region with what falls to each thread of its team: the threads' *)
(* flags are cleared.                                                       *)
EnterRegion(items) ==
  /\ ts_start' = now
  /\ left' = items
  /\ aborted' = [t \in Worker |-> 0]
  /\ late' = IF cancel = 1 THEN late + 1 ELSE late
  /\ UNCHANGED <<app, handle, now, hostVars, section, elapsed, reads, poll, sum, complete,
                 cancel_us>>

TeamDone == \A t \in Worker : left[t] = 0 /\ poll[t] = "out"

---------------------------------------------------------------------------
(* main() *)
HostGoto(from, to) == host = from /\ host' = to

RequestCancel ==
  /\ HostGoto("compute", "cancel")
  /\ unsent' = {"cancel", "ret", "timeout"}
  /\ UNCHANGED <<app, handle, now, ownVars, teamVars, history>>

(* Faulty: the verdict is left to the workers. *)
CancelWrite_NoVerdict(field) ==
  /\ host = "cancel"
  /\ unsent' = unsent \ {field}
  /\ cancel' = IF field = "cancel" THEN 1 ELSE cancel
  /\ cancel_us' = IF field = "cancel" THEN now ELSE cancel_us
  /\ timeout_after_us' = IF field = "timeout" THEN 0 ELSE timeout_after_us
  /\ UNCHANGED <<app, ret, time_start_us, last_poll_time_us, now, host, ownVars,
                 teamVars, complete, late>>

(* Plain stores, which the compiler may order as it likes. *)
CancelWrite(field) ==
  /\ host = "cancel"
  /\ unsent' = unsent \ {field}
  /\ cancel' = IF field = "cancel" THEN 1 ELSE cancel
  /\ cancel_us' = IF field = "cancel" THEN now ELSE cancel_us
  /\ ret' = IF field = "ret" THEN CANCEL ELSE ret
  /\ timeout_after_us' = IF field = "timeout" THEN 0 ELSE timeout_after_us
  /\ UNCHANGED <<app, time_start_us, last_poll_time_us, now, host, ownVars, teamVars,
                 complete, late>>

CancelSent ==
  /\ unsent = {}
  /\ HostGoto("cancel", "join")
  /\ UNCHANGED <<app, handle, unsent, now, ownVars, teamVars, history>>

NoCancel ==
  /\ HostGoto("compute", "join")
  /\ UNCHANGED <<app, handle, unsent, now, ownVars, teamVars, history>>

Join ==
  /\ owner = "done"
  /\ HostGoto("join", "done")
  /\ UNCHANGED <<app, handle, unsent, now, ownVars, teamVars, history>>

HostStep ==
  \/ RequestCancel
  \/ \E field \in unsent : CancelWrite(field)
  \/ CancelSent
  \/ NoCancel
  \/ Join
=============================================================================
