--------------------------- MODULE ConcurrentProofs -------------------------
(***************************************************************************)
(* Two tasks on one handle, for any number of items, any timeouts, clock   *)
(* and command line, on a device that executes any number of regions at a  *)
(* time, refuses a region or fails when the tasks meet: a thread does no   *)
(* more than its late items, and the verdict that the tasks share is       *)
(* UNDEFINED only if both are complete.                                    *)
(***************************************************************************)
EXTENDS Concurrent, TLAPS

(* A region is on the device while its task is in it, that of the           *)
(* cancellation while it stores the fields.  Only the thread in a region    *)
(* polls, for an item it has to do.                                         *)
RegionInv ==
  /\ "cancel" \in regions <=> host = "rc_write"
  /\ \A x \in Worker :
       /\ RegionOf(x) \in regions <=> owner[x] = "region"
       /\ owner[x] # "region" => poll[x] = "out" /\ left[x] = 0
       /\ poll[x] # "out" => left[x] > 0
  /\ host = "done" => \A x \in Worker : owner[x] = "done"

(* The verdict says that a task has been stopped, or is about to.  Of the   *)
(* three fields, those not yet written are unsent; a thread writes CANCEL   *)
(* only after it has read cancel, and does not poll once aborted.           *)
VerdictInv ==
  /\ host # "rc_write" => unsent = {}
  /\ host \in {"compute", "rc_region"} => cancel = 0
  /\ host = "rc_write" => (cancel = 1 <=> "cancel" \notin unsent)
  /\ Announced => ret \in {CANCEL, TIMEOUT}
  /\ \A x \in Worker :
       /\ poll[x] = "put_cancel" => cancel = 1
       /\ poll[x] \notin {"out", "returned"} => aborted[x] = 0
       /\ aborted[x] # 0 => ret \in {CANCEL, TIMEOUT} \/ cancel = 1

(* A thread that has had all its late items of the time has stopped, or     *)
(* finds the reason in its next poll.                                       *)
LateInv ==
  \A x \in Worker :
    /\ late[x] <= LateLimit
    /\ late[x] = LateLimit =>
         /\ cancel = 1 \/ ret = TIMEOUT
         /\ aborted[x] # 0 \/ poll[x] \in {"out", "flags"}

(* As long as nothing is reported, what has been done and what is left is   *)
(* all, but for a task that has been refused.                               *)
OutputInv ==
  \A x \in Worker :
    /\ output[x] + left[x] <= Items
    /\ owner[x] \in {"idle", "launched"} => output[x] = 0 /\ left[x] = 0
    /\ /\ owner[x] \in {"region", "done"} /\ x \notin refused
       /\ ret = UNDEFINED /\ cancel = 0
       => output[x] + left[x] = Items

(* When main() launches B after the cancellation, B finds it in its first   *)
(* poll.                                                                    *)
LaunchInv ==
  ~concurrent /\ CancelTask =>
    /\ host \in {"join", "done"} => cancel = 1
    /\ owner[TaskB] # "idle" => cancel = 1 /\ host \in {"join", "done"}
    /\ poll[TaskB] \in {"out", "flags", "returned"}
    /\ poll[TaskB] = "returned" => aborted[TaskB] # 0
    /\ output[TaskB] = 0

IInv == TypeOK /\ RegionInv /\ VerdictInv /\ LateInv /\ OutputInv /\ LaunchInv

---------------------------------------------------------------------------
(* Every action keeps the variables in their types.                         *)
LEMMA TypeOKStep ==
  TypeOK /\ RegionInv /\ OutputInv /\ [Next]_vars => TypeOK'
<1> SUFFICES ASSUME TypeOK, RegionInv, OutputInv, [Next]_vars PROVE TypeOK'
  OBVIOUS
<1> USE HostSignalsAssumption, ConcurrentAssumption DEF TypeOK, SignalsTypeOK, HostPc,
    PollPc, signals, hostVars, pollVars, taskVars, Ret, UNDEFINED, OK, CANCEL, TIMEOUT
<1>1. CASE Tick /\ UNCHANGED taskVars
  BY <1>1 DEF Tick
<1>2. ASSUME NEW x \in Worker, TaskStep(x) PROVE TypeOK'
  <2> USE DEF OwnerGoto, PollGoto, PollReturn
  <2>1. CASE Submit(x)
    <3>1. WtimeAsLong \in Nat
      BY DEF WtimeAsLong
    <3>2. regions' \subseteq {"task_a", "task_b", "cancel"}
      BY <2>1 DEF Submit, AdmitRegion, RegionOf
    <3> QED
      BY <2>1, <3>1, <3>2 DEF Submit
  <2>2. CASE PollItem(x)
    BY <2>2 DEF PollItem, PollCall
  <2>3. CASE PollStep(x) /\ UNCHANGED taskVars
    <3>1. CASE PollSeesFlag(x)
      BY <2>3, <3>1 DEF PollSeesFlag
    <3>2. CASE PollSeesNoFlag(x)
      BY <2>3, <3>2 DEF PollSeesNoFlag
    <3>3. CASE PollMessage(x)
      BY <2>3, <3>3 DEF PollMessage
    <3>4. CASE PollPutCancel(x)
      BY <2>3, <3>4 DEF PollPutCancel
    <3>5. CASE PollClock(x)
      BY <2>3, <3>5 DEF PollClock
    <3>6. CASE PollPutTimeout(x)
      BY <2>3, <3>6 DEF PollPutTimeout
    <3>7. CASE PollRecheck(x)
      BY <2>3, <3>7 DEF PollRecheck
    <3> QED
      BY <2>3, <3>1, <3>2, <3>3, <3>4, <3>5, <3>6, <3>7 DEF PollStep
  <2>4. CASE EndItem(x)
    BY <2>4 DEF EndItem, RegionInv, OutputInv
  <2>5. CASE Return(x)
    BY <2>5 DEF Return, LeaveRegion, RegionOf
  <2> QED
    BY <1>2, <2>1, <2>2, <2>3, <2>4, <2>5 DEF TaskStep
<1>3. ASSUME NEW x \in Worker, Refuse(x) \/ Fail(x) PROVE TypeOK'
  <2> USE DEF OwnerGoto, signalVars
  <2>1. CASE Refuse(x)
    BY <2>1 DEF Refuse
  <2>2. CASE Fail(x)
    BY <2>2 DEF Fail
  <2> QED
    BY <1>3, <2>1, <2>2
<1>4. CASE HostStep
  <2> USE DEF HostGoto
  <2>1. CASE CancelTask /\ RequestCancel /\ UNCHANGED taskVars
    BY <2>1 DEF RequestCancel
  <2>2. CASE ~CancelTask /\ NoCancel /\ UNCHANGED taskVars
    BY <2>2 DEF NoCancel
  <2>3. CASE CancelRegionStart /\ UNCHANGED taskVars
    BY <2>3 DEF CancelRegionStart, AdmitRegion, RegionOf
  <2>4. ASSUME NEW field \in unsent, CancelWrite(field) /\ UNCHANGED taskVars
        PROVE  TypeOK'
    BY <2>4 DEF CancelWrite
  <2>5. CASE CancelRegionEnd /\ UNCHANGED taskVars
    BY <2>5 DEF CancelRegionEnd, LeaveRegion, RegionOf
  <2>6. CASE LaunchB
    BY <2>6 DEF LaunchB, OwnerGoto, signalVars
  <2>7. CASE Join
    BY <2>7 DEF Join
  <2> QED
    BY <1>4, <2>1, <2>2, <2>3, <2>4, <2>5, <2>6, <2>7 DEF HostStep
<1>5. CASE Finished \/ UNCHANGED vars
  <2>1. UNCHANGED <<signalVars, taskVars>>
    BY <1>5 DEF Finished, vars
  <2> QED
    BY <2>1 DEF signalVars
<1> QED
  BY <1>1, <1>2, <1>3, <1>4, <1>5 DEF Next

(* A thread is inside a poll only while its region is on the device.        *)
LEMMA RegionInvStep ==
  TypeOK /\ RegionInv /\ [Next]_vars => RegionInv'
<1> SUFFICES ASSUME TypeOK, RegionInv, [Next]_vars PROVE RegionInv'
  OBVIOUS
<1> USE HostSignalsAssumption, ConcurrentAssumption DEF RegionInv, TypeOK, SignalsTypeOK, HostPc,
    PollPc, signals, hostVars, pollVars, taskVars, Ret, UNDEFINED, OK, CANCEL, TIMEOUT
<1>1. CASE Tick /\ UNCHANGED taskVars
  BY <1>1 DEF Tick
<1>2. ASSUME NEW x \in Worker, TaskStep(x) PROVE RegionInv'
  <2> USE DEF OwnerGoto, PollGoto, PollReturn
  <2>1. CASE Submit(x)
    BY <2>1 DEF Submit, AdmitRegion, RegionOf
  <2>2. CASE PollItem(x)
    BY <2>2 DEF PollItem, PollCall
  <2>3. CASE PollStep(x) /\ UNCHANGED taskVars
    <3>1. CASE PollSeesFlag(x)
      BY <2>3, <3>1 DEF PollSeesFlag
    <3>2. CASE PollSeesNoFlag(x)
      BY <2>3, <3>2 DEF PollSeesNoFlag
    <3>3. CASE PollMessage(x)
      BY <2>3, <3>3 DEF PollMessage
    <3>4. CASE PollPutCancel(x)
      BY <2>3, <3>4 DEF PollPutCancel
    <3>5. CASE PollClock(x)
      BY <2>3, <3>5 DEF PollClock
    <3>6. CASE PollPutTimeout(x)
      BY <2>3, <3>6 DEF PollPutTimeout
    <3>7. CASE PollRecheck(x)
      BY <2>3, <3>7 DEF PollRecheck
    <3> QED
      BY <2>3, <3>1, <3>2, <3>3, <3>4, <3>5, <3>6, <3>7 DEF PollStep
  <2>4. CASE EndItem(x)
    BY <2>4 DEF EndItem
  <2>5. CASE Return(x)
    BY <2>5 DEF Return, LeaveRegion, RegionOf
  <2> QED
    BY <1>2, <2>1, <2>2, <2>3, <2>4, <2>5 DEF TaskStep
<1>3. ASSUME NEW x \in Worker, Refuse(x) \/ Fail(x) PROVE RegionInv'
  <2> USE DEF OwnerGoto, signalVars
  <2>1. CASE Refuse(x)
    BY <2>1 DEF Refuse
  <2>2. CASE Fail(x)
    BY <2>2 DEF Fail
  <2> QED
    BY <1>3, <2>1, <2>2
<1>4. CASE HostStep
  <2> USE DEF HostGoto
  <2>1. CASE CancelTask /\ RequestCancel /\ UNCHANGED taskVars
    BY <2>1 DEF RequestCancel
  <2>2. CASE ~CancelTask /\ NoCancel /\ UNCHANGED taskVars
    BY <2>2 DEF NoCancel
  <2>3. CASE CancelRegionStart /\ UNCHANGED taskVars
    BY <2>3 DEF CancelRegionStart, AdmitRegion, RegionOf
  <2>4. ASSUME NEW field \in unsent, CancelWrite(field) /\ UNCHANGED taskVars
        PROVE  RegionInv'
    BY <2>4 DEF CancelWrite
  <2>5. CASE CancelRegionEnd /\ UNCHANGED taskVars
    BY <2>5 DEF CancelRegionEnd, LeaveRegion, RegionOf
  <2>6. CASE LaunchB
    BY <2>6 DEF LaunchB, OwnerGoto, signalVars
  <2>7. CASE Join
    BY <2>7 DEF Join
  <2> QED
    BY <1>4, <2>1, <2>2, <2>3, <2>4, <2>5, <2>6, <2>7 DEF HostStep
<1>5. CASE Finished \/ UNCHANGED vars
  <2>1. UNCHANGED <<signalVars, taskVars>>
    BY <1>5 DEF Finished, vars
  <2> QED
    BY <2>1 DEF signalVars
<1> QED
  BY <1>1, <1>2, <1>3, <1>4, <1>5 DEF Next

(* The verdict is not taken back, whoever stores it.                        *)
LEMMA VerdictInvStep ==
  TypeOK /\ RegionInv /\ VerdictInv /\ [Next]_vars => VerdictInv'
<1> SUFFICES ASSUME TypeOK, RegionInv, VerdictInv, [Next]_vars PROVE VerdictInv'
  OBVIOUS
<1> USE DEF RegionInv, VerdictInv, Announced, TypeOK, SignalsTypeOK, HostPc,
    PollPc, signals, hostVars, pollVars, taskVars, Ret, UNDEFINED, OK, CANCEL, TIMEOUT
<1>1. CASE Tick /\ UNCHANGED taskVars
  BY <1>1 DEF Tick
<1>2. ASSUME NEW x \in Worker, TaskStep(x) PROVE VerdictInv'
  <2> USE DEF OwnerGoto, PollGoto, PollReturn
  <2>1. CASE Submit(x)
    BY <2>1 DEF Submit, AdmitRegion, RegionOf
  <2>2. CASE PollItem(x)
    BY <2>2 DEF PollItem, PollCall
  <2>3. CASE PollStep(x) /\ UNCHANGED taskVars
    <3>1. CASE PollSeesFlag(x)
      BY <2>3, <3>1 DEF PollSeesFlag
    <3>2. CASE PollSeesNoFlag(x)
      BY <2>3, <3>2 DEF PollSeesNoFlag
    <3>3. CASE PollMessage(x)
      BY <2>3, <3>3 DEF PollMessage
    <3>4. CASE PollPutCancel(x)
      BY <2>3, <3>4 DEF PollPutCancel
    <3>5. CASE PollClock(x)
      BY <2>3, <3>5 DEF PollClock
    <3>6. CASE PollPutTimeout(x)
      BY <2>3, <3>6 DEF PollPutTimeout
    <3>7. CASE PollRecheck(x)
      BY <2>3, <3>7 DEF PollRecheck
    <3> QED
      BY <2>3, <3>1, <3>2, <3>3, <3>4, <3>5, <3>6, <3>7 DEF PollStep
  <2>4. CASE EndItem(x)
    BY <2>4 DEF EndItem
  <2>5. CASE Return(x)
    BY <2>5 DEF Return, LeaveRegion, RegionOf
  <2> QED
    BY <1>2, <2>1, <2>2, <2>3, <2>4, <2>5 DEF TaskStep
<1>3. ASSUME NEW x \in Worker, Refuse(x) \/ Fail(x) PROVE VerdictInv'
  <2> USE DEF OwnerGoto, signalVars
  <2>1. CASE Refuse(x)
    BY <2>1 DEF Refuse
  <2>2. CASE Fail(x)
    BY <2>2 DEF Fail
  <2> QED
    BY <1>3, <2>1, <2>2
<1>4. CASE HostStep
  <2> USE DEF HostGoto
  <2>1. CASE CancelTask /\ RequestCancel /\ UNCHANGED taskVars
    BY <2>1 DEF RequestCancel
  <2>2. CASE ~CancelTask /\ NoCancel /\ UNCHANGED taskVars
    BY <2>2 DEF NoCancel
  <2>3. CASE CancelRegionStart /\ UNCHANGED taskVars
    BY <2>3 DEF CancelRegionStart, AdmitRegion, RegionOf
  <2>4. ASSUME NEW field \in unsent, CancelWrite(field) /\ UNCHANGED taskVars
        PROVE  VerdictInv'
    BY <2>4 DEF CancelWrite
  <2>5. CASE CancelRegionEnd /\ UNCHANGED taskVars
    BY <2>5 DEF CancelRegionEnd, LeaveRegion, RegionOf
  <2>6. CASE LaunchB
    BY <2>6 DEF LaunchB, OwnerGoto, signalVars
  <2>7. CASE Join
    BY <2>7 DEF Join
  <2> QED
    BY <1>4, <2>1, <2>2, <2>3, <2>4, <2>5, <2>6, <2>7 DEF HostStep
<1>5. CASE Finished \/ UNCHANGED vars
  <2>1. UNCHANGED <<signalVars, taskVars>>
    BY <1>5 DEF Finished, vars
  <2> QED
    BY <2>1 DEF signalVars
<1> QED
  BY <1>1, <1>2, <1>3, <1>4, <1>5 DEF Next

(* A thread has one late item before the cancellation has stored its        *)
(* verdict and a second one after, also beside the other task.              *)
LEMMA LateInvStep ==
  TypeOK /\ RegionInv /\ VerdictInv /\ LateInv /\ [Next]_vars => LateInv'
<1> SUFFICES ASSUME TypeOK, RegionInv, VerdictInv, LateInv, [Next]_vars PROVE LateInv'
  OBVIOUS
<1> USE DEF RegionInv, VerdictInv, LateInv, LateLimit, Announced, StopSignalled, TypeOK, SignalsTypeOK, HostPc,
    PollPc, signals, hostVars, pollVars, taskVars, Ret, UNDEFINED, OK, CANCEL, TIMEOUT
<1>1. CASE Tick /\ UNCHANGED taskVars
  BY <1>1 DEF Tick
<1>2. ASSUME NEW x \in Worker, TaskStep(x) PROVE LateInv'
  <2> USE DEF OwnerGoto, PollGoto, PollReturn
  <2>1. CASE Submit(x)
    BY <2>1 DEF Submit, AdmitRegion, RegionOf
  <2>2. CASE PollItem(x)
    BY <2>2 DEF PollItem, PollCall
  <2>3. CASE PollStep(x) /\ UNCHANGED taskVars
    <3>1. CASE PollSeesFlag(x)
      BY <2>3, <3>1 DEF PollSeesFlag
    <3>2. CASE PollSeesNoFlag(x)
      BY <2>3, <3>2 DEF PollSeesNoFlag
    <3>3. CASE PollMessage(x)
      BY <2>3, <3>3 DEF PollMessage
    <3>4. CASE PollPutCancel(x)
      BY <2>3, <3>4 DEF PollPutCancel
    <3>5. CASE PollClock(x)
      BY <2>3, <3>5 DEF PollClock
    <3>6. CASE PollPutTimeout(x)
      BY <2>3, <3>6 DEF PollPutTimeout
    <3>7. CASE PollRecheck(x)
      BY <2>3, <3>7 DEF PollRecheck
    <3> QED
      BY <2>3, <3>1, <3>2, <3>3, <3>4, <3>5, <3>6, <3>7 DEF PollStep
  <2>4. CASE EndItem(x)
    BY <2>4 DEF EndItem
  <2>5. CASE Return(x)
    BY <2>5 DEF Return, LeaveRegion, RegionOf
  <2> QED
    BY <1>2, <2>1, <2>2, <2>3, <2>4, <2>5 DEF TaskStep
<1>3. ASSUME NEW x \in Worker, Refuse(x) \/ Fail(x) PROVE LateInv'
  <2> USE DEF OwnerGoto, signalVars
  <2>1. CASE Refuse(x)
    BY <2>1 DEF Refuse
  <2>2. CASE Fail(x)
    BY <2>2 DEF Fail
  <2> QED
    BY <1>3, <2>1, <2>2
<1>4. CASE HostStep
  <2> USE DEF HostGoto
  <2>1. CASE CancelTask /\ RequestCancel /\ UNCHANGED taskVars
    BY <2>1 DEF RequestCancel
  <2>2. CASE ~CancelTask /\ NoCancel /\ UNCHANGED taskVars
    BY <2>2 DEF NoCancel
  <2>3. CASE CancelRegionStart /\ UNCHANGED taskVars
    BY <2>3 DEF CancelRegionStart, AdmitRegion, RegionOf
  <2>4. ASSUME NEW field \in unsent, CancelWrite(field) /\ UNCHANGED taskVars
        PROVE  LateInv'
    BY <2>4 DEF CancelWrite
  <2>5. CASE CancelRegionEnd /\ UNCHANGED taskVars
    BY <2>5 DEF CancelRegionEnd, LeaveRegion, RegionOf
  <2>6. CASE LaunchB
    BY <2>6 DEF LaunchB, OwnerGoto, signalVars
  <2>7. CASE Join
    BY <2>7 DEF Join
  <2> QED
    BY <1>4, <2>1, <2>2, <2>3, <2>4, <2>5, <2>6, <2>7 DEF HostStep
<1>5. CASE Finished \/ UNCHANGED vars
  <2>1. UNCHANGED <<signalVars, taskVars>>
    BY <1>5 DEF Finished, vars
  <2> QED
    BY <2>1 DEF signalVars
<1> QED
  BY <1>1, <1>2, <1>3, <1>4, <1>5 DEF Next

(* An item is done, or passed over with a reason to stop.                   *)
LEMMA OutputInvStep ==
  TypeOK /\ RegionInv /\ VerdictInv /\ OutputInv /\ [Next]_vars => OutputInv'
<1> SUFFICES ASSUME TypeOK, RegionInv, VerdictInv, OutputInv, [Next]_vars PROVE OutputInv'
  OBVIOUS
<1> USE ConcurrentAssumption DEF RegionInv, VerdictInv, OutputInv, Announced, TypeOK, SignalsTypeOK, HostPc,
    PollPc, signals, hostVars, pollVars, taskVars, Ret, UNDEFINED, OK, CANCEL, TIMEOUT
<1>1. CASE Tick /\ UNCHANGED taskVars
  BY <1>1 DEF Tick
<1>2. ASSUME NEW x \in Worker, TaskStep(x) PROVE OutputInv'
  <2> USE DEF OwnerGoto, PollGoto, PollReturn
  <2>1. CASE Submit(x)
    <3>1. /\ owner[x] = "launched" /\ owner' = [owner EXCEPT ![x] = "region"]
          /\ left' = [left EXCEPT ![x] = Items]
          /\ output' = output /\ refused' = refused /\ ret' = ret /\ cancel' = cancel
      BY ONLY <2>1 DEF Submit, OwnerGoto, signals
    <3>2. Items \in Nat
      BY ONLY ConcurrentAssumption DEF ConcurrentAssumption
    <3>3. \A y \in Worker : output[y] \in 0 .. Items /\ left[y] \in 0 .. Items
      BY ONLY TypeOK DEF TypeOK
    <3>4. output[x] = 0
      BY ONLY OutputInv, <3>1, x \in Worker DEF OutputInv
    <3>5. /\ owner'[x] = "region" /\ left'[x] = Items
          /\ \A y \in Worker \ {x} : owner'[y] = owner[y] /\ left'[y] = left[y]
      BY ONLY TypeOK, <3>1, x \in Worker DEF TypeOK
    <3> QED
      BY ONLY OutputInv, <3>1, <3>2, <3>3, <3>4, <3>5 DEF OutputInv
  <2>2. CASE PollItem(x)
    BY <2>2 DEF PollItem, PollCall
  <2>3. CASE PollStep(x) /\ UNCHANGED taskVars
    <3>1. CASE PollSeesFlag(x)
      BY <2>3, <3>1 DEF PollSeesFlag
    <3>2. CASE PollSeesNoFlag(x)
      BY <2>3, <3>2 DEF PollSeesNoFlag
    <3>3. CASE PollMessage(x)
      BY <2>3, <3>3 DEF PollMessage
    <3>4. CASE PollPutCancel(x)
      BY <2>3, <3>4 DEF PollPutCancel
    <3>5. CASE PollClock(x)
      BY <2>3, <3>5 DEF PollClock
    <3>6. CASE PollPutTimeout(x)
      BY <2>3, <3>6 DEF PollPutTimeout
    <3>7. CASE PollRecheck(x)
      BY <2>3, <3>7 DEF PollRecheck
    <3> QED
      BY <2>3, <3>1, <3>2, <3>3, <3>4, <3>5, <3>6, <3>7 DEF PollStep
  <2>4. CASE EndItem(x)
    <3>1. /\ poll[x] # "out" /\ owner[x] = "region" /\ left[x] \in Int /\ output[x] \in Int
          /\ left' = [left EXCEPT ![x] = left[x] - 1]
          /\ output' = [output EXCEPT ![x] = IF aborted[x] = 0 THEN output[x] + 1 ELSE output[x]]
          /\ UNCHANGED <<ret, cancel, owner, refused>>
      BY <2>4 DEF EndItem
    <3>2. left'[x] = left[x] - 1 /\ output'[x] = IF aborted[x] = 0 THEN output[x] + 1 ELSE output[x]
      BY <3>1
    <3>3. aborted[x] # 0 => ~(ret = UNDEFINED /\ cancel = 0)
      OBVIOUS
    <3>4. \A y \in Worker \ {x} : left'[y] = left[y] /\ output'[y] = output[y]
      BY <3>1
    <3> DEFINE Sum(y) == output[y] + left[y]
           Silent == x \notin refused /\ ret = UNDEFINED /\ cancel = 0
    <3>5. Sum(x)' <= Items /\ (Silent => Sum(x)' = Items)
      <4>1. Sum(x)' = IF aborted[x] = 0 THEN Sum(x) ELSE Sum(x) - 1
        BY <3>1, <3>2
      <4>2. Sum(x) \in Int /\ Sum(x) <= Items /\ (Silent => Sum(x) = Items)
        BY <3>1
      <4> QED
        BY ONLY <3>3, <4>1, <4>2, ConcurrentAssumption
    <3>6. \A y \in Worker \ {x} : Sum(y)' = Sum(y)
      BY <3>4
    <3> QED
      BY <3>1, <3>4, <3>5, <3>6
  <2>5. CASE Return(x)
    BY <2>5 DEF Return, LeaveRegion, RegionOf
  <2> QED
    BY <1>2, <2>1, <2>2, <2>3, <2>4, <2>5 DEF TaskStep
<1>3. ASSUME NEW x \in Worker, Refuse(x) \/ Fail(x) PROVE OutputInv'
  <2> USE DEF OwnerGoto, signalVars
  <2>1. CASE Refuse(x)
    BY <2>1 DEF Refuse
  <2>2. CASE Fail(x)
    BY <2>2 DEF Fail
  <2> QED
    BY <1>3, <2>1, <2>2
<1>4. CASE HostStep
  <2> USE DEF HostGoto
  <2>1. CASE CancelTask /\ RequestCancel /\ UNCHANGED taskVars
    BY <2>1 DEF RequestCancel
  <2>2. CASE ~CancelTask /\ NoCancel /\ UNCHANGED taskVars
    BY <2>2 DEF NoCancel
  <2>3. CASE CancelRegionStart /\ UNCHANGED taskVars
    BY <2>3 DEF CancelRegionStart, AdmitRegion, RegionOf
  <2>4. ASSUME NEW field \in unsent, CancelWrite(field) /\ UNCHANGED taskVars
        PROVE  OutputInv'
    BY <2>4 DEF CancelWrite
  <2>5. CASE CancelRegionEnd /\ UNCHANGED taskVars
    BY <2>5 DEF CancelRegionEnd, LeaveRegion, RegionOf
  <2>6. CASE LaunchB
    BY <2>6 DEF LaunchB, OwnerGoto, signalVars
  <2>7. CASE Join
    BY <2>7 DEF Join
  <2> QED
    BY <1>4, <2>1, <2>2, <2>3, <2>4, <2>5, <2>6, <2>7 DEF HostStep
<1>5. CASE Finished \/ UNCHANGED vars
  <2>1. UNCHANGED <<signalVars, taskVars>>
    BY <1>5 DEF Finished, vars
  <2> QED
    BY <2>1 DEF signalVars
<1> QED
  BY <1>1, <1>2, <1>3, <1>4, <1>5 DEF Next

(* B does nothing after a cancellation that was there before it.            *)
LEMMA LaunchInvStep ==
  TypeOK /\ RegionInv /\ VerdictInv /\ OutputInv /\ LaunchInv /\ [Next]_vars => LaunchInv'
<1> SUFFICES ASSUME TypeOK, RegionInv, VerdictInv, OutputInv, LaunchInv, [Next]_vars PROVE LaunchInv'
  OBVIOUS
<1> USE ConcurrentAssumption DEF RegionInv, VerdictInv, OutputInv, LaunchInv,
    CancelTask, TypeOK, SignalsTypeOK, HostPc,
    PollPc, signals, hostVars, pollVars, taskVars, Ret, UNDEFINED, OK, CANCEL, TIMEOUT
<1>1. CASE Tick /\ UNCHANGED taskVars
  BY <1>1 DEF Tick
<1>2. ASSUME NEW x \in Worker, TaskStep(x) PROVE LaunchInv'
  <2> USE DEF OwnerGoto, PollGoto, PollReturn
  <2>1. CASE Submit(x)
    BY <2>1 DEF Submit, AdmitRegion, RegionOf
  <2>2. CASE PollItem(x)
    BY <2>2 DEF PollItem, PollCall
  <2>3. CASE PollStep(x) /\ UNCHANGED taskVars
    <3>1. CASE PollSeesFlag(x)
      BY <2>3, <3>1 DEF PollSeesFlag
    <3>2. CASE PollSeesNoFlag(x)
      BY <2>3, <3>2 DEF PollSeesNoFlag
    <3>3. CASE PollMessage(x)
      BY <2>3, <3>3 DEF PollMessage
    <3>4. CASE PollPutCancel(x)
      BY <2>3, <3>4 DEF PollPutCancel
    <3>5. CASE PollClock(x)
      BY <2>3, <3>5 DEF PollClock
    <3>6. CASE PollPutTimeout(x)
      BY <2>3, <3>6 DEF PollPutTimeout
    <3>7. CASE PollRecheck(x)
      BY <2>3, <3>7 DEF PollRecheck
    <3> QED
      BY <2>3, <3>1, <3>2, <3>3, <3>4, <3>5, <3>6, <3>7 DEF PollStep
  <2>4. CASE EndItem(x)
    BY <2>4 DEF EndItem
  <2>5. CASE Return(x)
    BY <2>5 DEF Return, LeaveRegion, RegionOf
  <2> QED
    BY <1>2, <2>1, <2>2, <2>3, <2>4, <2>5 DEF TaskStep
<1>3. ASSUME NEW x \in Worker, Refuse(x) \/ Fail(x) PROVE LaunchInv'
  <2> USE DEF OwnerGoto, signalVars
  <2>1. CASE Refuse(x)
    BY <2>1 DEF Refuse
  <2>2. CASE Fail(x)
    BY <2>2 DEF Fail
  <2> QED
    BY <1>3, <2>1, <2>2
<1>4. CASE HostStep
  <2> USE DEF HostGoto
  <2>1. CASE CancelTask /\ RequestCancel /\ UNCHANGED taskVars
    BY <2>1 DEF RequestCancel
  <2>2. CASE ~CancelTask /\ NoCancel /\ UNCHANGED taskVars
    BY <2>2 DEF NoCancel
  <2>3. CASE CancelRegionStart /\ UNCHANGED taskVars
    BY <2>3 DEF CancelRegionStart, AdmitRegion, RegionOf
  <2>4. ASSUME NEW field \in unsent, CancelWrite(field) /\ UNCHANGED taskVars
        PROVE  LaunchInv'
    BY <2>4 DEF CancelWrite
  <2>5. CASE CancelRegionEnd /\ UNCHANGED taskVars
    BY <2>5 DEF CancelRegionEnd, LeaveRegion, RegionOf
  <2>6. CASE LaunchB
    BY <2>6 DEF LaunchB, OwnerGoto, signalVars
  <2>7. CASE Join
    BY <2>7 DEF Join
  <2> QED
    BY <1>4, <2>1, <2>2, <2>3, <2>4, <2>5, <2>6, <2>7 DEF HostStep
<1>5. CASE Finished \/ UNCHANGED vars
  <2>1. UNCHANGED <<signalVars, taskVars>>
    BY <1>5 DEF Finished, vars
  <2> QED
    BY <2>1 DEF signalVars
<1> QED
  BY <1>1, <1>2, <1>3, <1>4, <1>5 DEF Next

---------------------------------------------------------------------------
(* The parts together are an invariant of the application.                  *)
LEMMA Invariance == Spec => []IInv
<1>1. Init => IInv
  <2> SUFFICES ASSUME Init PROVE IInv
    OBVIOUS
  <2> USE HostSignalsAssumption, ConcurrentAssumption DEF Init, SignalsInit, UNDEFINED,
      OK, CANCEL, TIMEOUT
  <2>1. TypeOK
    <3>1. SignalsTypeOK
      BY DEF SignalsTypeOK, HostPc, PollPc, Ret
    <3>2. owner \in [Worker -> {"idle", "launched", "region", "done"}]
      OBVIOUS
    <3>3. left \in [Worker -> 0 .. Items] /\ output \in [Worker -> 0 .. Items]
      <4>1. 0 \in 0 .. Items
        OBVIOUS
      <4> QED
        BY <4>1
    <3> QED
      BY <3>1, <3>2, <3>3 DEF TypeOK
  <2>2. RegionInv /\ VerdictInv /\ LateInv
    BY DEF RegionInv, VerdictInv, LateInv, LateLimit, Announced, RegionOf
  <2>3. OutputInv /\ LaunchInv
    BY DEF OutputInv, LaunchInv
  <2> QED
    BY <2>1, <2>2, <2>3 DEF IInv
<1>2. IInv /\ [Next]_vars => IInv'
  BY TypeOKStep, RegionInvStep, VerdictInvStep, LateInvStep, OutputInvStep,
      LaunchInvStep DEF IInv
<1> QED
  BY <1>1, <1>2, PTL DEF Spec

(* The tasks do not disturb each other on the handle, it is not used when   *)
(* main() frees it, and a task launched after the cancellation does nothing.*)
THEOREM TasksAreSafe == Spec => []TasksSafe
<1>1. IInv => TasksSafe
  <2> SUFFICES ASSUME IInv PROVE TypeOK /\ HandleFreedUnused /\ LaunchedCancelled
    BY DEF TasksSafe
  <2>1. HandleFreedUnused
    <3> SUFFICES ASSUME host = "done" PROVE regions = {} /\ \A t \in Worker : poll[t] = "out"
      BY DEF HandleFreedUnused
    <3>1. \A x \in Worker : owner[x] = "done" /\ poll[x] = "out"
      BY DEF IInv, RegionInv
    <3>2. "cancel" \notin regions /\ "task_a" \notin regions /\ "task_b" \notin regions
      BY <3>1, ConcurrentAssumption DEF IInv, RegionInv, RegionOf
    <3> QED
      BY <3>1, <3>2 DEF IInv, TypeOK, SignalsTypeOK
  <2>2. LaunchedCancelled
    BY DEF IInv, LaunchInv, LaunchedCancelled
  <2> QED
    BY <2>1, <2>2 DEF IInv
<1> QED
  BY <1>1, Invariance, PTL

(* The tasks and the cancellation run side by side or in turns, a timeout   *)
(* of one task stops the other: neither does more than its late items.      *)
THEOREM LateItemsAreBounded == Spec => []LateItemsBounded
<1>1. IInv => LateItemsBounded
  BY DEF IInv, LateInv, LateItemsBounded
<1> QED
  BY <1>1, Invariance, PTL

(* An incomplete output of a task that the device has executed is reported. *)
THEOREM IncompleteIsReported == Spec => []CompleteUnlessReported
<1>1. IInv => CompleteUnlessReported
  <2> SUFFICES ASSUME IInv, host = "done", ret = UNDEFINED, NEW x \in Worker \ refused
               PROVE  output[x] = Items
    BY DEF CompleteUnlessReported
  <2>1. owner[x] = "done" /\ left[x] = 0
    BY DEF IInv, RegionInv
  <2>2. output[x] \in Int /\ output[x] + left[x] = Items
    <3>1. cancel = 0
      BY DEF IInv, VerdictInv, Announced, TypeOK, SignalsTypeOK, UNDEFINED, CANCEL, TIMEOUT
    <3> QED
      BY <2>1, <3>1, ConcurrentAssumption DEF IInv, TypeOK, OutputInv
  <2> QED
    BY <2>1, <2>2
<1> QED
  BY <1>1, Invariance, PTL
=============================================================================
