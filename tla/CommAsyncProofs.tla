--------------------------- MODULE CommAsyncProofs --------------------------
(***************************************************************************)
(* What holds of the communication test for every team, device, timeout,   *)
(* clock and number of regions.  It is the minimal application's proof     *)
(* where the handle is concerned: a reason to stop, once it stands, is      *)
(* taken back at most once, by the host's write of ret.                     *)
(***************************************************************************)
EXTENDS CommAsync, TLAPS

(* Types, and what they need: a region is run in a turn of the loop, and a  *)
(* thread that is inside a poll has an item left.                           *)
TypeInv ==
  /\ TypeOK
  /\ owner \in {"region", "check"} => index < Repeat
  /\ lateRegions <= 1
  /\ \A t \in Worker : poll[t] # "out" => left[t] > 0

(* The one late region is the last. *)
RegionInv ==
  /\ owner # "region" =>
       /\ "task" \notin regions
       /\ \A t \in Worker : left[t] = 0 /\ poll[t] = "out"
  /\ "cancel" \in regions => host = "rc_write"
  /\ lateRegions = 1 => cancel = 1 /\ owner \in {"region", "check", "done"}

(* Of the three fields, those not yet written are unsent; a worker writes   *)
(* CANCEL only after it has read cancel, and does not poll once aborted.    *)
HandleInv ==
  /\ host # "rc_write" => unsent = {}
  /\ host \in {"compute", "rc_region"} => cancel = 0
  /\ host = "rc_write" => (cancel = 1 <=> "cancel" \notin unsent)
  /\ (host = "rc_write" \/ cancel = 1) /\ "ret" \notin unsent =>
       ret \in {CANCEL, TIMEOUT}
  /\ \A t \in Worker :
       /\ poll[t] = "put_cancel" => cancel = 1
       /\ poll[t] \notin {"out", "returned"} => aborted[t] = 0
  /\ CancelJustified
  /\ AbortReported

(* Before the host has written its verdict a reason to stop that stands is  *)
(* not taken back; after, neither: a worker that has had all its late items *)
(* of the time has stopped, or finds the reason in its next poll.           *)
LateInv ==
  \A t \in Worker :
    /\ late[t] <= LateLimit
    /\ late[t] = LateLimit =>
         /\ cancel = 1 \/ ret = TIMEOUT
         /\ aborted[t] # 0 \/ poll[t] \in {"out", "flags"}

IInv == TypeInv /\ RegionInv /\ HandleInv /\ LateInv

---------------------------------------------------------------------------
(* Every action keeps the variables in their types, and lateRegions at 1    *)
(* because no turn of the loop follows one that has seen cancel.            *)
LEMMA TypeInvStep == TypeInv /\ RegionInv /\ [Next]_vars => TypeInv'
<1> SUFFICES ASSUME TypeInv, RegionInv, [Next]_vars PROVE TypeInv'
  OBVIOUS
<1> USE HostSignalsAssumption, CommAsyncAssumption
    DEF RegionInv, TypeInv, TypeOK, SignalsTypeOK, TeamTypeOK, HostPc, PollPc,
        signals, hostVars, pollVars, ownerVars, Ret, UNDEFINED, OK, CANCEL, TIMEOUT
<1>1. CASE Tick /\ UNCHANGED <<left, late, ownerVars>>
  BY <1>1 DEF Tick
<1>2. ASSUME NEW t \in Worker, WorkerStep(t) /\ UNCHANGED ownerVars
      PROVE  TypeInv'
  <2> USE DEF PollGoto, PollReturn
  <2>1. CASE PollItem(t)
    BY <1>2, <2>1 DEF PollItem, PollCall
  <2>2. CASE PollStep(t) /\ UNCHANGED <<left, late>>
    <3>1. CASE PollSeesFlag(t)
      BY <1>2, <2>2, <3>1 DEF PollSeesFlag
    <3>2. CASE PollSeesNoFlag(t)
      BY <1>2, <2>2, <3>2 DEF PollSeesNoFlag
    <3>3. CASE PollMessage(t)
      BY <1>2, <2>2, <3>3 DEF PollMessage
    <3>4. CASE PollPutCancel(t)
      BY <1>2, <2>2, <3>4 DEF PollPutCancel
    <3>5. CASE PollClock(t)
      BY <1>2, <2>2, <3>5 DEF PollClock
    <3>6. CASE PollPutTimeout(t)
      BY <1>2, <2>2, <3>6 DEF PollPutTimeout
    <3>7. CASE PollRecheck(t)
      BY <1>2, <2>2, <3>7 DEF PollRecheck
    <3> QED
      BY <2>2, <3>1, <3>2, <3>3, <3>4, <3>5, <3>6, <3>7 DEF PollStep
  <2>3. CASE DoItem(t)
    BY <1>2, <2>3 DEF DoItem, EndItem
  <2>4. CASE PassItem(t)
    BY <1>2, <2>4 DEF PassItem, EndItem
  <2> QED
    BY <1>2, <2>1, <2>2, <2>3, <2>4 DEF WorkerStep
<1>3. CASE OwnerStep
  <2> USE DEF OwnerGoto, teamVars, signalVars
  <2>1. CASE Enter
    BY <2>1 DEF Enter
  <2>2. CASE Submit
    <3>1. WtimeAsLong \in Nat
      BY DEF WtimeAsLong
    <3> QED
      BY <2>2, <3>1 DEF Submit, StartRegion, AdmitRegion
  <2>3. CASE Return
    BY <2>3 DEF Return, EndRegion, TeamDone, LeaveRegion
  <2>4. CASE CheckCancel
    BY <2>4 DEF CheckCancel
  <2>5. CASE LoopEnd
    BY <2>5 DEF LoopEnd
  <2> QED
    BY <1>3, <2>1, <2>2, <2>3, <2>4, <2>5 DEF OwnerStep
<1>4. CASE HostStep
  <2> USE DEF HostGoto
  <2>1. CASE CancelStep /\ UNCHANGED <<left, late, ownerVars>>
    <3>1. CASE RequestCancel
      BY <2>1, <3>1 DEF RequestCancel
    <3>2. CASE CancelRegionStart
      BY <2>1, <3>2 DEF CancelRegionStart, AdmitRegion
    <3>3. ASSUME NEW field \in unsent, CancelWrite(field) PROVE TypeInv'
      BY <2>1, <3>3 DEF CancelWrite
    <3>4. CASE CancelRegionEnd
      BY <2>1, <3>4 DEF CancelRegionEnd, LeaveRegion
    <3>5. CASE NoCancel
      BY <2>1, <3>5 DEF NoCancel
    <3> QED
      BY <2>1, <3>1, <3>2, <3>3, <3>4, <3>5 DEF CancelStep
  <2>2. CASE Join
    BY <2>2 DEF Join
  <2> QED
    BY <1>4, <2>1, <2>2 DEF HostStep
<1>5. CASE Finished \/ UNCHANGED vars
  <2>1. UNCHANGED <<teamVars, ownerVars>>
    BY <1>5 DEF Finished, vars
  <2> QED
    BY <2>1 DEF teamVars, signalVars
<1> QED
  BY <1>1, <1>2, <1>3, <1>4, <1>5 DEF Next

(* A region of the task is on the device only while its owner waits, and    *)
(* none of its threads is inside a poll when it ends.                       *)
LEMMA RegionInvStep == TypeInv /\ RegionInv /\ [Next]_vars => RegionInv'
<1> SUFFICES ASSUME TypeInv, RegionInv, [Next]_vars PROVE RegionInv'
  OBVIOUS
<1> USE DEF RegionInv, TypeInv, TypeOK, SignalsTypeOK, TeamTypeOK, HostPc, PollPc,
        signals, hostVars, pollVars, ownerVars, Ret, UNDEFINED, OK, CANCEL, TIMEOUT
<1>1. CASE Tick /\ UNCHANGED <<left, late, ownerVars>>
  BY <1>1 DEF Tick
<1>2. ASSUME NEW t \in Worker, WorkerStep(t) /\ UNCHANGED ownerVars
      PROVE  RegionInv'
  <2> USE DEF PollGoto, PollReturn
  <2>1. CASE PollItem(t)
    BY <1>2, <2>1 DEF PollItem, PollCall
  <2>2. CASE PollStep(t) /\ UNCHANGED <<left, late>>
    <3>1. CASE PollSeesFlag(t)
      BY <1>2, <2>2, <3>1 DEF PollSeesFlag
    <3>2. CASE PollSeesNoFlag(t)
      BY <1>2, <2>2, <3>2 DEF PollSeesNoFlag
    <3>3. CASE PollMessage(t)
      BY <1>2, <2>2, <3>3 DEF PollMessage
    <3>4. CASE PollPutCancel(t)
      BY <1>2, <2>2, <3>4 DEF PollPutCancel
    <3>5. CASE PollClock(t)
      BY <1>2, <2>2, <3>5 DEF PollClock
    <3>6. CASE PollPutTimeout(t)
      BY <1>2, <2>2, <3>6 DEF PollPutTimeout
    <3>7. CASE PollRecheck(t)
      BY <1>2, <2>2, <3>7 DEF PollRecheck
    <3> QED
      BY <2>2, <3>1, <3>2, <3>3, <3>4, <3>5, <3>6, <3>7 DEF PollStep
  <2>3. CASE DoItem(t)
    BY <1>2, <2>3 DEF DoItem, EndItem
  <2>4. CASE PassItem(t)
    BY <1>2, <2>4 DEF PassItem, EndItem
  <2> QED
    BY <1>2, <2>1, <2>2, <2>3, <2>4 DEF WorkerStep
<1>3. CASE OwnerStep
  <2> USE DEF OwnerGoto, teamVars, signalVars
  <2>1. CASE Enter
    BY <2>1 DEF Enter
  <2>2. CASE Submit
    BY <2>2 DEF Submit, StartRegion, AdmitRegion
  <2>3. CASE Return
    BY <2>3 DEF Return, EndRegion, TeamDone, LeaveRegion
  <2>4. CASE CheckCancel
    BY <2>4 DEF CheckCancel
  <2>5. CASE LoopEnd
    BY <2>5 DEF LoopEnd
  <2> QED
    BY <1>3, <2>1, <2>2, <2>3, <2>4, <2>5 DEF OwnerStep
<1>4. CASE HostStep
  <2> USE DEF HostGoto
  <2>1. CASE CancelStep /\ UNCHANGED <<left, late, ownerVars>>
    <3>1. CASE RequestCancel
      BY <2>1, <3>1 DEF RequestCancel
    <3>2. CASE CancelRegionStart
      BY <2>1, <3>2 DEF CancelRegionStart, AdmitRegion
    <3>3. ASSUME NEW field \in unsent, CancelWrite(field) PROVE RegionInv'
      BY <2>1, <3>3 DEF CancelWrite
    <3>4. CASE CancelRegionEnd
      BY <2>1, <3>4 DEF CancelRegionEnd, LeaveRegion
    <3>5. CASE NoCancel
      BY <2>1, <3>5 DEF NoCancel
    <3> QED
      BY <2>1, <3>1, <3>2, <3>3, <3>4, <3>5 DEF CancelStep
  <2>2. CASE Join
    BY <2>2 DEF Join
  <2> QED
    BY <1>4, <2>1, <2>2 DEF HostStep
<1>5. CASE Finished \/ UNCHANGED vars
  <2>1. UNCHANGED <<teamVars, ownerVars>>
    BY <1>5 DEF Finished, vars
  <2> QED
    BY <2>1 DEF teamVars, signalVars
<1> QED
  BY <1>1, <1>2, <1>3, <1>4, <1>5 DEF Next

(* The host's three writes and the workers' two keep the fields consistent  *)
(* in every order.                                                          *)
LEMMA HandleInvStep == TypeInv /\ RegionInv /\ HandleInv /\ [Next]_vars => HandleInv'
<1> SUFFICES ASSUME TypeInv, RegionInv, HandleInv, [Next]_vars PROVE HandleInv'
  OBVIOUS
<1> USE DEF HandleInv, CancelJustified, AbortReported, RegionInv,
        TypeInv, TypeOK, SignalsTypeOK, TeamTypeOK, HostPc, PollPc,
        signals, hostVars, pollVars, ownerVars, Ret, UNDEFINED, OK, CANCEL, TIMEOUT
<1>1. CASE Tick /\ UNCHANGED <<left, late, ownerVars>>
  BY <1>1 DEF Tick
<1>2. ASSUME NEW t \in Worker, WorkerStep(t) /\ UNCHANGED ownerVars
      PROVE  HandleInv'
  <2> USE DEF PollGoto, PollReturn
  <2>1. CASE PollItem(t)
    BY <1>2, <2>1 DEF PollItem, PollCall
  <2>2. CASE PollStep(t) /\ UNCHANGED <<left, late>>
    <3>1. CASE PollSeesFlag(t)
      BY <1>2, <2>2, <3>1 DEF PollSeesFlag
    <3>2. CASE PollSeesNoFlag(t)
      BY <1>2, <2>2, <3>2 DEF PollSeesNoFlag
    <3>3. CASE PollMessage(t)
      BY <1>2, <2>2, <3>3 DEF PollMessage
    <3>4. CASE PollPutCancel(t)
      BY <1>2, <2>2, <3>4 DEF PollPutCancel
    <3>5. CASE PollClock(t)
      BY <1>2, <2>2, <3>5 DEF PollClock
    <3>6. CASE PollPutTimeout(t)
      BY <1>2, <2>2, <3>6 DEF PollPutTimeout
    <3>7. CASE PollRecheck(t)
      BY <1>2, <2>2, <3>7 DEF PollRecheck
    <3> QED
      BY <2>2, <3>1, <3>2, <3>3, <3>4, <3>5, <3>6, <3>7 DEF PollStep
  <2>3. CASE DoItem(t)
    BY <1>2, <2>3 DEF DoItem, EndItem
  <2>4. CASE PassItem(t)
    BY <1>2, <2>4 DEF PassItem, EndItem
  <2> QED
    BY <1>2, <2>1, <2>2, <2>3, <2>4 DEF WorkerStep
<1>3. CASE OwnerStep
  <2> USE DEF OwnerGoto, teamVars, signalVars
  <2>1. CASE Enter
    BY <2>1 DEF Enter
  <2>2. CASE Submit
    BY <2>2 DEF Submit, StartRegion, AdmitRegion
  <2>3. CASE Return
    BY <2>3 DEF Return, EndRegion, TeamDone, LeaveRegion
  <2>4. CASE CheckCancel
    BY <2>4 DEF CheckCancel
  <2>5. CASE LoopEnd
    BY <2>5 DEF LoopEnd
  <2> QED
    BY <1>3, <2>1, <2>2, <2>3, <2>4, <2>5 DEF OwnerStep
<1>4. CASE HostStep
  <2> USE DEF HostGoto
  <2>1. CASE CancelStep /\ UNCHANGED <<left, late, ownerVars>>
    <3>1. CASE RequestCancel
      BY <2>1, <3>1 DEF RequestCancel
    <3>2. CASE CancelRegionStart
      BY <2>1, <3>2 DEF CancelRegionStart, AdmitRegion
    <3>3. ASSUME NEW field \in unsent, CancelWrite(field) PROVE HandleInv'
      BY <2>1, <3>3 DEF CancelWrite
    <3>4. CASE CancelRegionEnd
      BY <2>1, <3>4 DEF CancelRegionEnd, LeaveRegion
    <3>5. CASE NoCancel
      BY <2>1, <3>5 DEF NoCancel
    <3> QED
      BY <2>1, <3>1, <3>2, <3>3, <3>4, <3>5 DEF CancelStep
  <2>2. CASE Join
    BY <2>2 DEF Join
  <2> QED
    BY <1>4, <2>1, <2>2 DEF HostStep
<1>5. CASE Finished \/ UNCHANGED vars
  <2>1. UNCHANGED <<teamVars, ownerVars>>
    BY <1>5 DEF Finished, vars
  <2> QED
    BY <2>1 DEF teamVars, signalVars
<1> QED
  BY <1>1, <1>2, <1>3, <1>4, <1>5 DEF Next

(* A worker has one late item before the host has announced the verdict and *)
(* a second one after.                                                      *)
LEMMA LateInvStep ==
  TypeInv /\ RegionInv /\ HandleInv /\ LateInv /\ [Next]_vars => LateInv'
<1> SUFFICES ASSUME TypeInv, RegionInv, HandleInv, LateInv, [Next]_vars PROVE LateInv'
  OBVIOUS
<1> USE DEF LateInv, LateLimit, Announced, HandleInv, RegionInv,
        TypeInv, TypeOK, SignalsTypeOK, TeamTypeOK, HostPc, PollPc,
        signals, hostVars, pollVars, ownerVars, Ret, UNDEFINED, OK, CANCEL, TIMEOUT
<1>1. CASE Tick /\ UNCHANGED <<left, late, ownerVars>>
  BY <1>1 DEF Tick
<1>2. ASSUME NEW t \in Worker, WorkerStep(t) /\ UNCHANGED ownerVars
      PROVE  LateInv'
  <2> USE DEF PollGoto, PollReturn
  <2>1. CASE PollItem(t)
    BY <1>2, <2>1 DEF PollItem, PollCall
  <2>2. CASE PollStep(t) /\ UNCHANGED <<left, late>>
    <3>1. CASE PollSeesFlag(t)
      BY <1>2, <2>2, <3>1 DEF PollSeesFlag
    <3>2. CASE PollSeesNoFlag(t)
      BY <1>2, <2>2, <3>2 DEF PollSeesNoFlag
    <3>3. CASE PollMessage(t)
      BY <1>2, <2>2, <3>3 DEF PollMessage
    <3>4. CASE PollPutCancel(t)
      BY <1>2, <2>2, <3>4 DEF PollPutCancel
    <3>5. CASE PollClock(t)
      BY <1>2, <2>2, <3>5 DEF PollClock
    <3>6. CASE PollPutTimeout(t)
      BY <1>2, <2>2, <3>6 DEF PollPutTimeout
    <3>7. CASE PollRecheck(t)
      BY <1>2, <2>2, <3>7 DEF PollRecheck
    <3> QED
      BY <2>2, <3>1, <3>2, <3>3, <3>4, <3>5, <3>6, <3>7 DEF PollStep
  <2>3. CASE DoItem(t)
    BY <1>2, <2>3 DEF DoItem, EndItem, StopSignalled
  <2>4. CASE PassItem(t)
    BY <1>2, <2>4 DEF PassItem, EndItem
  <2> QED
    BY <1>2, <2>1, <2>2, <2>3, <2>4 DEF WorkerStep
<1>3. CASE OwnerStep
  <2> USE DEF OwnerGoto, teamVars, signalVars
  <2>1. CASE Enter
    BY <2>1 DEF Enter
  <2>2. CASE Submit
    BY <2>2 DEF Submit, StartRegion, AdmitRegion
  <2>3. CASE Return
    BY <2>3 DEF Return, EndRegion, TeamDone, LeaveRegion
  <2>4. CASE CheckCancel
    BY <2>4 DEF CheckCancel
  <2>5. CASE LoopEnd
    BY <2>5 DEF LoopEnd
  <2> QED
    BY <1>3, <2>1, <2>2, <2>3, <2>4, <2>5 DEF OwnerStep
<1>4. CASE HostStep
  <2> USE DEF HostGoto
  <2>1. CASE CancelStep /\ UNCHANGED <<left, late, ownerVars>>
    <3>1. CASE RequestCancel
      BY <2>1, <3>1 DEF RequestCancel
    <3>2. CASE CancelRegionStart
      BY <2>1, <3>2 DEF CancelRegionStart, AdmitRegion
    <3>3. ASSUME NEW field \in unsent, CancelWrite(field) PROVE LateInv'
      BY <2>1, <3>3 DEF CancelWrite
    <3>4. CASE CancelRegionEnd
      BY <2>1, <3>4 DEF CancelRegionEnd, LeaveRegion
    <3>5. CASE NoCancel
      BY <2>1, <3>5 DEF NoCancel
    <3> QED
      BY <2>1, <3>1, <3>2, <3>3, <3>4, <3>5 DEF CancelStep
  <2>2. CASE Join
    BY <2>2 DEF Join
  <2> QED
    BY <1>4, <2>1, <2>2 DEF HostStep
<1>5. CASE Finished \/ UNCHANGED vars
  <2>1. UNCHANGED <<teamVars, ownerVars>>
    BY <1>5 DEF Finished, vars
  <2> QED
    BY <2>1 DEF teamVars, signalVars
<1> QED
  BY <1>1, <1>2, <1>3, <1>4, <1>5 DEF Next

---------------------------------------------------------------------------
(* The layers together are an invariant of the application.                 *)
LEMMA Invariance == Spec => []IInv
<1>1. Init => IInv
  <2>1. Init => TypeInv
    BY HostSignalsAssumption, CommAsyncAssumption
    DEF Init, SignalsInit, TeamInit, TypeInv, TypeOK, SignalsTypeOK, TeamTypeOK,
        HostPc, PollPc, Ret, UNDEFINED, OK, CANCEL, TIMEOUT
  <2>2. Init => RegionInv /\ HandleInv /\ LateInv
    BY DEF Init, SignalsInit, TeamInit, RegionInv, HandleInv, LateInv, LateLimit, Announced,
           CancelJustified, AbortReported, UNDEFINED, CANCEL, TIMEOUT
  <2> QED
    BY <2>1, <2>2 DEF IInv
<1>2. IInv /\ [Next]_vars => IInv'
  BY TypeInvStep, RegionInvStep, HandleInvStep, LateInvStep DEF IInv
<1> QED
  BY <1>1, <1>2, PTL DEF Spec

(* The verdict, which no thread asks for between the regions, is kept over  *)
(* them, whoever writes it last.                                            *)
THEOREM VerdictIsKept == Spec => []VerdictKept
<1>1. IInv => VerdictKept
  BY DEF IInv, TypeInv, HandleInv, VerdictKept, CancelReported
<1> QED
  BY <1>1, Invariance, PTL

(* For every number of regions: the loop starts at most one region after    *)
(* cancel has been set.                                                     *)
THEOREM LateRegionsBounded == Spec => []AtMostOneLateRegion
<1>1. IInv => AtMostOneLateRegion
  BY DEF IInv, TypeInv, AtMostOneLateRegion
<1> QED
  BY <1>1, Invariance, PTL

---------------------------------------------------------------------------
(* The refinement.  A step of the application is a step of the contract or  *)
(* leaves its four variables alone.                                         *)
ContractStep == [Contract!Next]_(Contract!vars)

(* host_signals_init leaves the handle as the contract starts: no request,  *)
(* no verdict, nobody stopped.                                              *)
LEMMA ContractInit == Init => Contract!Init
BY DEF Init, SignalsInit, TeamInit, Contract!Init, CancelPhase, Stopped, UNDEFINED

(* Whatever leaves these five variables alone is invisible to the contract. *)
LEMMA Stutter ==
  ASSUME UNCHANGED <<cancel, host, ret, aborted, late>>
  PROVE  ContractStep
BY DEF ContractStep, Contract!vars, CancelPhase, Stopped

(* Steps of the workers. *)
LEMMA WorkerRefines ==
  ASSUME IInv, NEW t \in Worker, WorkerStep(t) /\ UNCHANGED ownerVars
  PROVE  ContractStep
<1> USE DEF Stopped, IInv, TypeInv, TypeOK, SignalsTypeOK, TeamTypeOK, Ret, CANCEL,
    TIMEOUT,
        signals, hostVars, pollVars, PollGoto, PollReturn
<1>1. CASE PollItem(t)
  BY <1>1, Stutter DEF PollItem, PollCall
<1>2. CASE PollStep(t) /\ UNCHANGED <<left, late>>
  <2>1. CASE PollSeesFlag(t)
    <3>1. CASE ret = TIMEOUT
      <4>1. Contract!StopTimedOut(t)
        BY <1>2, <2>1, <3>1 DEF PollSeesFlag, Contract!StopTimedOut, CancelPhase
      <4> QED
        BY <4>1 DEF ContractStep, Contract!Next
    <3>2. CASE ret # TIMEOUT
      <4>1. Contract!StopCancelled(t)
        BY <1>2, <2>1, <3>2 DEF PollSeesFlag, Contract!StopCancelled, CancelPhase
      <4> QED
        BY <4>1 DEF ContractStep, Contract!Next
    <3> QED
      BY <3>1, <3>2
  <2>2. CASE PollSeesNoFlag(t)
    BY <1>2, <2>2, Stutter DEF PollSeesNoFlag
  <2>3. CASE PollMessage(t)
    BY <1>2, <2>3, Stutter DEF PollMessage
  <2>4. CASE PollPutCancel(t)
    <3>1. Contract!StopCancelled(t)
      BY <1>2, <2>4 DEF PollPutCancel, HandleInv, Contract!StopCancelled, CancelPhase
    <3> QED
      BY <3>1 DEF ContractStep, Contract!Next
  <2>5. CASE PollClock(t)
    BY <1>2, <2>5, Stutter DEF PollClock
  <2>6. CASE PollPutTimeout(t)
    <3>1. Contract!StopTimedOut(t)
      BY <1>2, <2>6 DEF PollPutTimeout, Contract!StopTimedOut, CancelPhase
    <3> QED
      BY <3>1 DEF ContractStep, Contract!Next
  <2>7. CASE PollRecheck(t)
    <3>1. CASE cancel # 0
      <4>1. Contract!StopCancelled(t)
        BY <1>2, <2>7, <3>1 DEF PollRecheck, Contract!StopCancelled, CancelPhase
      <4> QED
        BY <4>1 DEF ContractStep, Contract!Next
    <3>2. CASE cancel = 0
      <4>1. aborted' = aborted
        BY <1>2, <2>7, <3>2 DEF PollRecheck, HandleInv
      <4> QED
        BY <1>2, <2>7, <4>1, Stutter DEF PollRecheck
    <3> QED
      BY <3>1, <3>2
  <2> QED
    BY <1>2, <2>1, <2>2, <2>3, <2>4, <2>5, <2>6, <2>7 DEF PollStep
<1>3. CASE DoItem(t)
  <2>1. CASE StopSignalled
    <3>1. late[t] < 2 /\ aborted[t] = 0
      BY <1>3 DEF DoItem, EndItem, LateInv, LateLimit
    <3>2. late' = [late EXCEPT ![t] = @ + 1] /\ UNCHANGED <<cancel, host, ret, aborted>>
      BY <1>3, <2>1, <3>1 DEF DoItem, EndItem
    <3>3. Contract!LateItem(t)
      BY <2>1, <3>1, <3>2 DEF StopSignalled, Contract!LateItem, Contract!Noticed,
                              CancelPhase
    <3> QED
      BY <3>3 DEF ContractStep, Contract!Next
  <2>2. CASE ~StopSignalled
    BY <1>3, <2>2, Stutter DEF DoItem, EndItem
  <2> QED
    BY <2>1, <2>2
<1>4. CASE PassItem(t)
  BY <1>4, Stutter DEF PassItem, EndItem
<1> QED
  BY <1>1, <1>2, <1>3, <1>4 DEF WorkerStep

(* Steps of the thread that owns the regions: only a region's start shows. *)
LEMMA OwnerRefines ==
  ASSUME IInv, OwnerStep
  PROVE  ContractStep
<1> USE DEF signals, hostVars, pollVars, signalVars, teamVars, OwnerGoto
<1>1. CASE Enter
  BY <1>1, Stutter DEF Enter
<1>2. CASE Submit
  <2>1. Contract!NewRegion
    BY <1>2 DEF Submit, StartRegion, Contract!NewRegion, CancelPhase, Stopped
  <2> QED
    BY <2>1 DEF ContractStep, Contract!Next
<1>3. CASE Return
  BY <1>3, Stutter DEF Return, EndRegion
<1>4. CASE CheckCancel
  BY <1>4, Stutter DEF CheckCancel
<1>5. CASE LoopEnd
  BY <1>5, Stutter DEF LoopEnd
<1> QED
  BY <1>1, <1>2, <1>3, <1>4, <1>5 DEF OwnerStep

(* Steps of main(): the cancellation is requested, delivered and announced. *)
LEMMA HostRefines ==
  ASSUME IInv, HostStep
  PROVE  ContractStep
<1> USE DEF Stopped, IInv, TypeInv, TypeOK, SignalsTypeOK, HandleInv, HostPc,
        signals, hostVars, pollVars, HostGoto
<1>1. CASE CancelStep /\ UNCHANGED <<left, late, ownerVars>>
  <2>1. CASE RequestCancel
    <3>1. CancelPhase' = CancelPhase
      BY <2>1 DEF RequestCancel, CancelPhase
    <3> QED
      BY <1>1, <2>1, <3>1 DEF RequestCancel, ContractStep, Contract!vars
  <2>2. CASE CancelRegionStart
    <3>1. Contract!Request
      BY <1>1, <2>2 DEF CancelRegionStart, Contract!Request, CancelPhase
    <3> QED
      BY <3>1 DEF ContractStep, Contract!Next
  <2>3. ASSUME NEW field \in unsent, CancelWrite(field) PROVE ContractStep
    <3>1. CASE field = "cancel"
      <4>1. Contract!Deliver
        BY <1>1, <2>3, <3>1 DEF CancelWrite, Contract!Deliver, CancelPhase
      <4> QED
        BY <4>1 DEF ContractStep, Contract!Next
    <3>2. CASE field = "ret"
      <4>1. Contract!Announce
        BY <1>1, <2>3, <3>2 DEF CancelWrite, Contract!Announce, CancelPhase, CANCEL
      <4> QED
        BY <4>1 DEF ContractStep, Contract!Next
    <3>3. CASE field = "timeout"
      BY <1>1, <2>3, <3>3, Stutter DEF CancelWrite
    <3> QED
      BY <2>3, <3>1, <3>2, <3>3
  <2>4. CASE CancelRegionEnd
    <3>1. CancelPhase' = CancelPhase
      BY <2>4 DEF CancelRegionEnd, CancelPhase
    <3> QED
      BY <1>1, <2>4, <3>1 DEF CancelRegionEnd, ContractStep, Contract!vars
  <2>5. CASE NoCancel
    <3>1. CancelPhase' = CancelPhase
      BY <2>5 DEF NoCancel, CancelPhase
    <3> QED
      BY <1>1, <2>5, <3>1 DEF NoCancel, ContractStep, Contract!vars
  <2> QED
    BY <1>1, <2>1, <2>2, <2>3, <2>4, <2>5 DEF CancelStep
<1>2. CASE Join
  <2>1. CancelPhase' = CancelPhase
    BY <1>2 DEF Join, CancelPhase
  <2> QED
    BY <1>2, <2>1 DEF Join, ContractStep, Contract!vars
<1> QED
  BY <1>1, <1>2 DEF HostStep

(* The communication test implements the contract of the signal handle, with *)
(* the two late items of the minimal application, for any number of regions. *)
THEOREM Refinement == Spec => ImplementsContract
<1>1. IInv /\ [Next]_vars => ContractStep
  <2> SUFFICES ASSUME IInv, [Next]_vars PROVE ContractStep
    OBVIOUS
  <2>1. CASE Tick /\ UNCHANGED <<left, late, ownerVars>>
    BY <2>1, Stutter DEF Tick, signals, hostVars, pollVars
  <2>2. ASSUME NEW t \in Worker, WorkerStep(t) /\ UNCHANGED ownerVars
        PROVE  ContractStep
    BY <2>2, WorkerRefines
  <2>3. CASE OwnerStep
    BY <2>3, OwnerRefines
  <2>4. CASE HostStep
    BY <2>4, HostRefines
  <2>5. CASE Finished \/ UNCHANGED vars
    <3>1. UNCHANGED <<teamVars, ownerVars>>
      BY <2>5 DEF Finished, vars
    <3> QED
      BY <3>1, Stutter DEF teamVars, signalVars, signals, hostVars, pollVars
  <2> QED
    BY <2>1, <2>2, <2>3, <2>4, <2>5 DEF Next
<1> QED
  BY <1>1, ContractInit, Invariance, PTL
  DEF Spec, ImplementsContract, Contract!Spec, ContractStep
=============================================================================
