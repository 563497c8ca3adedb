--------------------------- MODULE BaseDecoderProofs -------------------------
(***************************************************************************)
(* What holds of the tasks that use the first version of the library, for  *)
(* every number of threads, sections and items, every timeout, poll         *)
(* interval, clock and width of an int: a verdict of OK means a complete   *)
(* output, although the threads add to ret without a lock and although     *)
(* neither the order of the cancellation's stores nor the time at which a  *)
(* thread notices it is known.                                             *)
(***************************************************************************)
EXTENDS BaseDecoder, TLAPS

(* ret never returns to OK: what a thread is about to store is more than 0, *)
(* and an item is passed over, or a section, only for a reason that leaves  *)
(* its mark in ret as soon as the cancellation has been sent.               *)
CompleteInv ==
  /\ host # "cancel" => unsent = {}
  /\ host = "compute" => cancel = 0
  /\ (host = "cancel" \/ cancel = 1) /\ "ret" \notin unsent => ret # OK
  /\ \A t \in Worker :
       /\ poll[t] = "store" => sum[t] > 0
       /\ aborted[t] # 0 => cancel = 1
  /\ ~complete => cancel = 1 \/ ret # OK

(* A region that starts after the cancellation is the last one: what comes  *)
(* before the next, another check or the end of the loop, reads cancel, and *)
(* a check begins with that.                                                *)
LateInv ==
  /\ owner \notin {"check", "body"} \/ app \in {"declare", "static_vars"} => reads = 0
  /\ \/ late = 0
     \/ /\ late = 1 /\ cancel = 1 /\ reads = 0
        /\ owner \in {"check", "region", "step", "charge", "done"}
        /\ app \in {"declare", "static_vars"} => owner # "check"

(* A thread polls for an item it has still to do, and in a region only. *)
ShareInv ==
  /\ \A t \in Worker : poll[t] # "out" => left[t] > 0
  /\ owner # "region" => TeamDone

IInv == TypeOK /\ CompleteInv /\ LateInv /\ ShareInv

---------------------------------------------------------------------------
(* A time is an int, whether the conversion saturates or wraps around.      *)
LEMMA AsIntRange == \A us \in Nat : AsInt(us) \subseteq -IntMax - 1 .. IntMax
<1> SUFFICES ASSUME NEW us \in Nat, NEW i \in AsInt(us) PROVE i \in -IntMax - 1 .. IntMax
  OBVIOUS
<1>1. IntMax \in Nat \ {0}
  BY BaseSignalsAssumption
<1> DEFINE m == (us + IntMax + 1) % (2 * (IntMax + 1))
<1>2. m \in 0 .. 2 * (IntMax + 1) - 1
  <2>1. \A a \in Nat, b \in Nat \ {0} : a % b \in 0 .. b - 1
    OBVIOUS
  <2>2. us + IntMax + 1 \in Nat /\ 2 * (IntMax + 1) \in Nat \ {0}
    BY <1>1
  <2> QED
    BY <2>1, <2>2
<1>3. Wrap(us) = m - (IntMax + 1)
  BY DEF Wrap
<1> HIDE DEF m
<1>4. Wrap(us) \in -IntMax - 1 .. IntMax
  BY <1>1, <1>2, <1>3
<1> QED
  BY <1>1, <1>4 DEF AsInt

(* What falls to each thread is at most all items of the section. *)
LEMMA SharesFit ==
  TeamShare \in [Worker -> 0 .. Items] /\ SingleShare \in [Worker -> 0 .. Items]
BY BaseSignalsAssumption DEF TeamShare, SingleShare

(* Every action keeps the variables in their types.                         *)
LEMMA TypeOKStep == TypeOK /\ LateInv /\ ShareInv /\ [Next]_vars => TypeOK'
<1> SUFFICES ASSUME TypeOK, LateInv, ShareInv, [Next]_vars PROVE TypeOK'
  OBVIOUS
<1> USE BaseSignalsAssumption DEF TypeOK, PollPc, Applications, handle, hostVars,
    ownVars, pollVars, teamVars, history, OK, CANCEL, TIMEOUT
<1>1. CASE Tick
  BY <1>1 DEF Tick
<1>2. ASSUME NEW t \in Worker, WorkerStep(t) PROVE TypeOK'
  <2> USE DEF PollGoto
  <2>1. CASE PollCall(t)
    <3>1. poll' \in [Worker -> PollPc]
      BY <1>2, <2>1 DEF PollCall
    <3>2. last_poll_time_us' \in [Worker -> -IntMax - 1 .. IntMax]
      BY <1>2, <2>1, AsIntRange DEF PollCall
    <3> QED
      BY <1>2, <2>1, <3>1, <3>2 DEF PollCall
  <2>2. CASE PollMessage(t)
    BY <1>2, <2>2 DEF PollMessage, LoadSum
  <2>3. CASE PollTimeout(t)
    BY <1>2, <2>3 DEF PollTimeout
  <2>4. CASE PollStore(t)
    BY <1>2, <2>4 DEF PollStore
  <2>5. CASE PollReturn(t)
    BY <1>2, <2>5 DEF PollReturn
  <2>6. CASE EndItem(t)
    BY <1>2, <2>6 DEF EndItem, ShareInv
  <2>7. CASE PollAddTimeout(t)
    BY <1>2, <2>7 DEF PollAddTimeout, LoadSum
  <2> QED
    BY <1>2, <2>1, <2>2, <2>3, <2>4, <2>5, <2>6, <2>7 DEF WorkerStep
<1>3. CASE OwnerStep
  <2> USE DEF OwnerGoto
  <2>1. CASE Enter
    <3>1. time_start_us' \in Int
      BY <2>1 DEF Enter
    <3> QED
      BY <2>1, <3>1 DEF Enter
  <2>2. CASE app \in {"task_extlib", "extlib_linkage"} /\ RunSection
    BY <2>2 DEF RunSection, NotAborted, FindsReason
  <2>3. CASE app \in {"task_extlib", "extlib_linkage"} /\ SkipSection
    <3>1. section' \in 1 .. Sections
      BY <2>3 DEF SkipSection, NextSection, Aborted, FindsReason
    <3>2. owner' \in {"check", "done"} /\ complete' \in BOOLEAN
      BY <2>3 DEF SkipSection, NextSection, Aborted, FindsReason
    <3> QED
      BY <2>3, <3>1, <3>2 DEF SkipSection, Aborted, FindsReason
  <2>4. CASE CheckBody
    BY <2>4 DEF CheckBody, NotAborted, FindsReason
  <2>5. CASE StartRegion
    BY <2>5, SharesFit DEF StartRegion, EnterRegion, LateInv
  <2>6. CASE SkipRegion
    <3>1. reads' = 0 /\ owner' = "step"
      BY <2>6 DEF SkipRegion, Aborted
    <3>2. complete' \in BOOLEAN
      BY <2>6 DEF SkipRegion
    <3> QED
      BY <2>6, <3>1, <3>2 DEF SkipRegion, Aborted
  <2>7. CASE app \in {"task_extlib", "extlib_linkage"} /\ EndRegion
    BY <2>7 DEF EndRegion
  <2>8. CASE StepElapsed
    <3>1. elapsed' \in Int
      BY <2>8 DEF StepElapsed
    <3> QED
      BY <2>8, <3>1 DEF StepElapsed
  <2>9. CASE app \in {"task_extlib", "extlib_linkage"} /\ StepCharge
    BY <2>9 DEF StepCharge, NextSection
  <2>10. CASE app = "declare" /\ StartTask
    BY <2>10, SharesFit DEF StartTask, EnterRegion, LateInv
  <2>11. CASE EndTask
    BY <2>11 DEF EndTask
  <2>12. CASE CheckCancel
    BY <2>12 DEF CheckCancel, NextSection
  <2>13. CASE app = "static_vars" /\ StartStatic
    BY <2>13, SharesFit DEF StartStatic, EnterRegion, LateInv
  <2>14. CASE EndStatic
    BY <2>14 DEF EndStatic
  <2>15. CASE app \in {"task_extlib", "extlib_linkage"} /\ CompareNext
    BY <2>15 DEF CompareNext, FindsReason
  <2> QED
    BY <1>3, <2>1, <2>2, <2>3, <2>4, <2>5, <2>6, <2>7, <2>8, <2>9, <2>10, <2>11, <2>12,
        <2>13, <2>14, <2>15
    DEF OwnerStep, DecodeStep, AsyncTargetStep, TargetFunctionStep
<1>4. CASE HostStep
  <2> USE DEF HostGoto
  <2>1. CASE RequestCancel
    BY <2>1 DEF RequestCancel
  <2>2. ASSUME NEW field \in unsent, CancelWrite(field) PROVE TypeOK'
    BY <2>2 DEF CancelWrite
  <2>3. CASE CancelSent
    BY <2>3 DEF CancelSent
  <2>4. CASE NoCancel
    BY <2>4 DEF NoCancel
  <2>5. CASE Join
    BY <2>5 DEF Join
  <2> QED
    BY <1>4, <2>1, <2>2, <2>3, <2>4, <2>5 DEF HostStep
<1>5. CASE Finished \/ UNCHANGED vars
  BY <1>5 DEF Finished, vars
<1> QED
  BY <1>1, <1>2, <1>3, <1>4, <1>5 DEF Next

(* No action loses the mark of a reason to stop.                            *)
LEMMA CompleteInvStep == TypeOK /\ CompleteInv /\ [Next]_vars => CompleteInv'
<1> SUFFICES ASSUME TypeOK, CompleteInv, [Next]_vars PROVE CompleteInv'
  OBVIOUS
<1> USE DEF TypeOK, CompleteInv, PollPc, handle, hostVars, ownVars, pollVars, teamVars,
    history, OK, CANCEL, TIMEOUT
<1>1. CASE Tick
  BY <1>1 DEF Tick
<1>2. ASSUME NEW t \in Worker, WorkerStep(t) PROVE CompleteInv'
  <2> USE DEF PollGoto
  <2>1. CASE PollCall(t)
    BY <1>2, <2>1 DEF PollCall
  <2>2. CASE PollMessage(t)
    BY <1>2, <2>2 DEF PollMessage, LoadSum
  <2>3. CASE PollTimeout(t)
    BY <1>2, <2>3 DEF PollTimeout
  <2>4. CASE PollStore(t)
    BY <1>2, <2>4 DEF PollStore
  <2>5. CASE PollReturn(t)
    BY <1>2, <2>5 DEF PollReturn
  <2>6. CASE EndItem(t)
    BY <1>2, <2>6 DEF EndItem
  <2>7. CASE PollAddTimeout(t)
    BY <1>2, <2>7 DEF PollAddTimeout, LoadSum
  <2> QED
    BY <1>2, <2>1, <2>2, <2>3, <2>4, <2>5, <2>6, <2>7 DEF WorkerStep
<1>3. CASE OwnerStep
  <2> USE DEF OwnerGoto
  <2>1. CASE Enter
    BY <2>1 DEF Enter
  <2>2. CASE app \in {"task_extlib", "extlib_linkage"} /\ RunSection
    BY <2>2 DEF RunSection, NotAborted, FindsReason
  <2>3. CASE app \in {"task_extlib", "extlib_linkage"} /\ SkipSection
    BY <2>3 DEF SkipSection, NextSection, Aborted, FindsReason
  <2>4. CASE CheckBody
    BY <2>4 DEF CheckBody, NotAborted, FindsReason
  <2>5. CASE StartRegion
    BY <2>5 DEF StartRegion, EnterRegion
  <2>6. CASE SkipRegion
    BY <2>6 DEF SkipRegion, Aborted, FindsReason
  <2>7. CASE app \in {"task_extlib", "extlib_linkage"} /\ EndRegion
    BY <2>7 DEF EndRegion
  <2>8. CASE StepElapsed
    BY <2>8 DEF StepElapsed
  <2>9. CASE app \in {"task_extlib", "extlib_linkage"} /\ StepCharge
    BY <2>9 DEF StepCharge, NextSection
  <2>10. CASE app = "declare" /\ StartTask
    BY <2>10 DEF StartTask, EnterRegion
  <2>11. CASE EndTask
    BY <2>11 DEF EndTask
  <2>12. CASE CheckCancel
    BY <2>12 DEF CheckCancel, NextSection
  <2>13. CASE app = "static_vars" /\ StartStatic
    BY <2>13 DEF StartStatic, EnterRegion
  <2>14. CASE EndStatic
    BY <2>14 DEF EndStatic
  <2>15. CASE app \in {"task_extlib", "extlib_linkage"} /\ CompareNext
    BY <2>15 DEF CompareNext, FindsReason
  <2> QED
    BY <1>3, <2>1, <2>2, <2>3, <2>4, <2>5, <2>6, <2>7, <2>8, <2>9, <2>10, <2>11, <2>12,
        <2>13, <2>14, <2>15
    DEF OwnerStep, DecodeStep, AsyncTargetStep, TargetFunctionStep
<1>4. CASE HostStep
  <2> USE DEF HostGoto
  <2>1. CASE RequestCancel
    BY <2>1 DEF RequestCancel
  <2>2. ASSUME NEW field \in unsent, CancelWrite(field) PROVE CompleteInv'
    BY <2>2 DEF CancelWrite
  <2>3. CASE CancelSent
    BY <2>3 DEF CancelSent
  <2>4. CASE NoCancel
    BY <2>4 DEF NoCancel
  <2>5. CASE Join
    BY <2>5 DEF Join
  <2> QED
    BY <1>4, <2>1, <2>2, <2>3, <2>4, <2>5 DEF HostStep
<1>5. CASE Finished \/ UNCHANGED vars
  BY <1>5 DEF Finished, vars
<1> QED
  BY <1>1, <1>2, <1>3, <1>4, <1>5 DEF Next

(* Every way to a region reads cancel after the one before it.             *)
LEMMA LateInvStep == TypeOK /\ CompleteInv /\ LateInv /\ [Next]_vars => LateInv'
<1> SUFFICES ASSUME TypeOK, CompleteInv, LateInv, [Next]_vars PROVE LateInv'
  OBVIOUS
<1> USE DEF TypeOK, CompleteInv, LateInv, handle, hostVars, ownVars, pollVars,
    teamVars, history, OK, CANCEL, TIMEOUT
<1>1. CASE Tick
  BY <1>1 DEF Tick
<1>2. ASSUME NEW t \in Worker, WorkerStep(t) PROVE LateInv'
  <2> USE DEF PollGoto
  <2>1. CASE PollCall(t)
    BY <1>2, <2>1 DEF PollCall
  <2>2. CASE PollMessage(t)
    BY <1>2, <2>2 DEF PollMessage, LoadSum
  <2>3. CASE PollTimeout(t)
    BY <1>2, <2>3 DEF PollTimeout
  <2>4. CASE PollStore(t)
    BY <1>2, <2>4 DEF PollStore
  <2>5. CASE PollReturn(t)
    BY <1>2, <2>5 DEF PollReturn
  <2>6. CASE EndItem(t)
    BY <1>2, <2>6 DEF EndItem
  <2>7. CASE PollAddTimeout(t)
    BY <1>2, <2>7 DEF PollAddTimeout, LoadSum
  <2> QED
    BY <1>2, <2>1, <2>2, <2>3, <2>4, <2>5, <2>6, <2>7 DEF WorkerStep
<1>3. CASE OwnerStep
  <2> USE DEF OwnerGoto
  <2>1. CASE Enter
    BY <2>1 DEF Enter
  <2>2. CASE app \in {"task_extlib", "extlib_linkage"} /\ RunSection
    BY <2>2 DEF RunSection, NotAborted, FindsReason
  <2>3. CASE app \in {"task_extlib", "extlib_linkage"} /\ SkipSection
    BY <2>3 DEF SkipSection, NextSection, Aborted, FindsReason
  <2>4. CASE CheckBody
    BY <2>4 DEF CheckBody, NotAborted, FindsReason
  <2>5. CASE StartRegion
    BY <2>5 DEF StartRegion, EnterRegion
  <2>6. CASE SkipRegion
    BY <2>6 DEF SkipRegion, Aborted, FindsReason
  <2>7. CASE app \in {"task_extlib", "extlib_linkage"} /\ EndRegion
    BY <2>7 DEF EndRegion
  <2>8. CASE StepElapsed
    BY <2>8 DEF StepElapsed
  <2>9. CASE app \in {"task_extlib", "extlib_linkage"} /\ StepCharge
    BY <2>9 DEF StepCharge, NextSection
  <2>10. CASE app = "declare" /\ StartTask
    BY <2>10 DEF StartTask, EnterRegion
  <2>11. CASE EndTask
    BY <2>11 DEF EndTask
  <2>12. CASE CheckCancel
    BY <2>12 DEF CheckCancel, NextSection
  <2>13. CASE app = "static_vars" /\ StartStatic
    BY <2>13 DEF StartStatic, EnterRegion
  <2>14. CASE EndStatic
    BY <2>14 DEF EndStatic
  <2>15. CASE app \in {"task_extlib", "extlib_linkage"} /\ CompareNext
    BY <2>15 DEF CompareNext, FindsReason
  <2> QED
    BY <1>3, <2>1, <2>2, <2>3, <2>4, <2>5, <2>6, <2>7, <2>8, <2>9, <2>10, <2>11, <2>12,
        <2>13, <2>14, <2>15
    DEF OwnerStep, DecodeStep, AsyncTargetStep, TargetFunctionStep
<1>4. CASE HostStep
  <2> USE DEF HostGoto
  <2>1. CASE RequestCancel
    BY <2>1 DEF RequestCancel
  <2>2. ASSUME NEW field \in unsent, CancelWrite(field) PROVE LateInv'
    BY <2>2 DEF CancelWrite
  <2>3. CASE CancelSent
    BY <2>3 DEF CancelSent
  <2>4. CASE NoCancel
    BY <2>4 DEF NoCancel
  <2>5. CASE Join
    BY <2>5 DEF Join
  <2> QED
    BY <1>4, <2>1, <2>2, <2>3, <2>4, <2>5 DEF HostStep
<1>5. CASE Finished \/ UNCHANGED vars
  BY <1>5 DEF Finished, vars
<1> QED
  BY <1>1, <1>2, <1>3, <1>4, <1>5 DEF Next

(* The threads do what falls to them before the region ends.               *)
LEMMA ShareInvStep == TypeOK /\ ShareInv /\ [Next]_vars => ShareInv'
<1> SUFFICES ASSUME TypeOK, ShareInv, [Next]_vars PROVE ShareInv'
  OBVIOUS
<1> USE DEF TypeOK, ShareInv, TeamDone, PollPc, handle, hostVars, ownVars, pollVars,
    teamVars, history
<1>1. CASE Tick
  BY <1>1 DEF Tick
<1>2. ASSUME NEW t \in Worker, WorkerStep(t) PROVE ShareInv'
  <2> USE DEF PollGoto
  <2>1. CASE PollCall(t)
    BY <1>2, <2>1 DEF PollCall
  <2>2. CASE PollMessage(t)
    BY <1>2, <2>2 DEF PollMessage, LoadSum
  <2>3. CASE PollTimeout(t)
    BY <1>2, <2>3 DEF PollTimeout
  <2>4. CASE PollStore(t)
    BY <1>2, <2>4 DEF PollStore
  <2>5. CASE PollReturn(t)
    BY <1>2, <2>5 DEF PollReturn
  <2>6. CASE EndItem(t)
    BY <1>2, <2>6 DEF EndItem
  <2>7. CASE PollAddTimeout(t)
    BY <1>2, <2>7 DEF PollAddTimeout, LoadSum
  <2> QED
    BY <1>2, <2>1, <2>2, <2>3, <2>4, <2>5, <2>6, <2>7 DEF WorkerStep
<1>3. CASE OwnerStep
  <2> USE DEF OwnerGoto
  <2>1. CASE Enter
    BY <2>1 DEF Enter
  <2>2. CASE app \in {"task_extlib", "extlib_linkage"} /\ RunSection
    BY <2>2 DEF RunSection, NotAborted, FindsReason
  <2>3. CASE app \in {"task_extlib", "extlib_linkage"} /\ SkipSection
    BY <2>3 DEF SkipSection, NextSection, Aborted, FindsReason
  <2>4. CASE CheckBody
    BY <2>4 DEF CheckBody, NotAborted, FindsReason
  <2>5. CASE StartRegion
    BY <2>5 DEF StartRegion, EnterRegion
  <2>6. CASE SkipRegion
    BY <2>6 DEF SkipRegion, Aborted, FindsReason
  <2>7. CASE app \in {"task_extlib", "extlib_linkage"} /\ EndRegion
    BY <2>7 DEF EndRegion
  <2>8. CASE StepElapsed
    BY <2>8 DEF StepElapsed
  <2>9. CASE app \in {"task_extlib", "extlib_linkage"} /\ StepCharge
    BY <2>9 DEF StepCharge, NextSection
  <2>10. CASE app = "declare" /\ StartTask
    BY <2>10 DEF StartTask, EnterRegion
  <2>11. CASE EndTask
    BY <2>11 DEF EndTask
  <2>12. CASE CheckCancel
    BY <2>12 DEF CheckCancel, NextSection
  <2>13. CASE app = "static_vars" /\ StartStatic
    BY <2>13 DEF StartStatic, EnterRegion
  <2>14. CASE EndStatic
    BY <2>14 DEF EndStatic
  <2>15. CASE app \in {"task_extlib", "extlib_linkage"} /\ CompareNext
    BY <2>15 DEF CompareNext, FindsReason
  <2> QED
    BY <1>3, <2>1, <2>2, <2>3, <2>4, <2>5, <2>6, <2>7, <2>8, <2>9, <2>10, <2>11, <2>12,
        <2>13, <2>14, <2>15
    DEF OwnerStep, DecodeStep, AsyncTargetStep, TargetFunctionStep
<1>4. CASE HostStep
  <2> USE DEF HostGoto
  <2>1. CASE RequestCancel
    BY <2>1 DEF RequestCancel
  <2>2. ASSUME NEW field \in unsent, CancelWrite(field) PROVE ShareInv'
    BY <2>2 DEF CancelWrite
  <2>3. CASE CancelSent
    BY <2>3 DEF CancelSent
  <2>4. CASE NoCancel
    BY <2>4 DEF NoCancel
  <2>5. CASE Join
    BY <2>5 DEF Join
  <2> QED
    BY <1>4, <2>1, <2>2, <2>3, <2>4, <2>5 DEF HostStep
<1>5. CASE Finished \/ UNCHANGED vars
  BY <1>5 DEF Finished, vars
<1> QED
  BY <1>1, <1>2, <1>3, <1>4, <1>5 DEF Next

---------------------------------------------------------------------------
(* The parts together are an invariant of the tasks.                        *)
LEMMA Invariance == Spec => []IInv
<1>1. Init => IInv
  <2> SUFFICES ASSUME Init PROVE IInv
    OBVIOUS
  <2> USE BaseSignalsAssumption DEF Init, OK
  <2>1. TypeOK
    BY DEF TypeOK, PollPc
  <2>2. CompleteInv /\ LateInv /\ ShareInv
    BY DEF CompleteInv, LateInv, ShareInv, TeamDone
  <2> QED
    BY <2>1, <2>2 DEF IInv
<1>2. IInv /\ [Next]_vars => IInv'
  BY TypeOKStep, CompleteInvStep, LateInvStep, ShareInvStep DEF IInv
<1> QED
  BY <1>1, <1>2, PTL DEF Spec

(* The variables keep their types. *)
THEOREM TypeCorrect == Spec => []TypeOK
<1>1. IInv => TypeOK
  BY DEF IInv
<1> QED
  BY <1>1, Invariance, PTL

(* When main() has joined the task and finds OK, no item of any section was *)
(* passed over.                                                             *)
THEOREM OkIsComplete == Spec => []OkMeansComplete
<1>1. IInv => OkMeansComplete
  BY DEF IInv, CompleteInv, OkMeansComplete
<1> QED
  BY <1>1, Invariance, PTL

(* At most one region starts after the cancellation, in each of the tasks.  *)
THEOREM LateRegionsBounded == Spec => []AtMostOneLateRegion
<1>1. IInv => AtMostOneLateRegion
  BY DEF IInv, LateInv, AtMostOneLateRegion
<1> QED
  BY <1>1, Invariance, PTL
---------------------------------------------------------------------------
(* The poll interval, as long as the times of the clock are ints.           *)
TimesFit == MaxTime <= IntMax /\ \A us \in Uptimes : us <= IntMax

(* Where the task may enter a region without another look at cancel. *)
StartPoint ==
  \/ owner \in {"body", "launch"}
  \/ owner = "check" /\ (reads > 0 \/ app \in {"declare", "static_vars"})

(* What a thread has polled before the cancellation is the last time it     *)
(* polled, unless the poll has told it to stop.                             *)
NoticeInv ==
  /\ now <= IntMax
  /\ cancel = 1 => cancel_us <= now
  /\ owner = "enter" => \A t \in Worker : last_poll_time_us[t] = 0
  /\ \A t \in Worker :
       /\ last_poll_time_us[t] \in 0 .. now
       /\ cancel = 1 /\ StartPoint => last_poll_time_us[t] <= cancel_us
       /\ cancel = 1 /\ aborted[t] = 0 /\ poll[t] \in {"out", "returned"} =>
            last_poll_time_us[t] <= cancel_us

(* A thread that goes on has polled before the cancellation.               *)
LEMMA NoticeInvStep ==
  TimesFit /\ TypeOK /\ ShareInv /\ CompleteInv /\ LateInv /\ NoticeInv /\ [Next]_vars => NoticeInv'
<1> SUFFICES ASSUME TimesFit, TypeOK, ShareInv, CompleteInv, LateInv, NoticeInv,
    [Next]_vars PROVE NoticeInv'
  OBVIOUS
<1> USE BaseSignalsAssumption DEF TimesFit, TypeOK, CompleteInv, NoticeInv, StartPoint,
    PollPc, handle, hostVars, ownVars, pollVars, teamVars, history, OK, CANCEL, TIMEOUT
<1>1. CASE Tick
  BY <1>1 DEF Tick
<1>2. ASSUME NEW t \in Worker, WorkerStep(t) PROVE NoticeInv'
  <2> USE DEF PollGoto
  <2>1. CASE PollCall(t)
    <3>1. \A i \in AsInt(now) : i = now
      BY DEF AsInt
    <3>2. \/ last_poll_time_us' = [last_poll_time_us EXCEPT ![t] = now] /\ poll'[t] = "message"
          \/ UNCHANGED last_poll_time_us /\ poll'[t] = "returned"
      BY <1>2, <2>1, <3>1 DEF PollCall
    <3>3. /\ \A u \in Worker \ {t} : poll'[u] = poll[u]
          /\ UNCHANGED <<now, cancel, cancel_us, owner, app, aborted, host, unsent>>
          /\ poll[t] = "out" /\ left[t] > 0
      BY <1>2, <2>1 DEF PollCall
    <3>4. owner = "region"
      BY <3>3 DEF ShareInv, TeamDone
    <3> QED
      BY <3>2, <3>3, <3>4
  <2>2. CASE PollMessage(t)
    BY <1>2, <2>2 DEF PollMessage, LoadSum
  <2>3. CASE PollTimeout(t)
    BY <1>2, <2>3 DEF PollTimeout
  <2>4. CASE PollStore(t)
    BY <1>2, <2>4 DEF PollStore
  <2>5. CASE PollReturn(t)
    BY <1>2, <2>5 DEF PollReturn
  <2>6. CASE EndItem(t)
    BY <1>2, <2>6 DEF EndItem
  <2>7. CASE PollAddTimeout(t)
    BY <1>2, <2>7 DEF PollAddTimeout, LoadSum
  <2> QED
    BY <1>2, <2>1, <2>2, <2>3, <2>4, <2>5, <2>6, <2>7 DEF WorkerStep
<1>3. CASE OwnerStep
  <2> USE DEF OwnerGoto
  <2>1. CASE Enter
    BY <2>1 DEF Enter
  <2>2. CASE app \in {"task_extlib", "extlib_linkage"} /\ RunSection
    BY <2>2 DEF RunSection, NotAborted, FindsReason
  <2>3. CASE app \in {"task_extlib", "extlib_linkage"} /\ SkipSection
    BY <2>3 DEF SkipSection, NextSection, Aborted, FindsReason
  <2>4. CASE CheckBody
    BY <2>4 DEF CheckBody, NotAborted, FindsReason
  <2>5. CASE StartRegion
    <3>1. /\ owner = "launch" /\ owner' = "region" /\ aborted' = [t \in Worker |-> 0]
          /\ UNCHANGED <<now, cancel, cancel_us, app, poll, last_poll_time_us, host,
              unsent>>
      BY <2>5 DEF StartRegion, EnterRegion
    <3>2. cancel = 1 => \A t \in Worker : last_poll_time_us[t] <= cancel_us
      <4>1. StartPoint
        BY ONLY <3>1 DEF StartPoint
      <4> HIDE DEF StartPoint
      <4> QED
        BY <4>1
    <3> QED
      BY <3>1, <3>2
  <2>6. CASE SkipRegion
    BY <2>6 DEF SkipRegion, Aborted, FindsReason
  <2>7. CASE app \in {"task_extlib", "extlib_linkage"} /\ EndRegion
    BY <2>7 DEF EndRegion
  <2>8. CASE StepElapsed
    BY <2>8 DEF StepElapsed
  <2>9. CASE app \in {"task_extlib", "extlib_linkage"} /\ StepCharge
    BY <2>9 DEF StepCharge, NextSection, LateInv
  <2>10. CASE app = "declare" /\ StartTask
    BY <2>10 DEF StartTask, EnterRegion, ShareInv, TeamDone
  <2>11. CASE EndTask
    BY <2>11 DEF EndTask
  <2>12. CASE CheckCancel
    BY <2>12 DEF CheckCancel, NextSection
  <2>13. CASE app = "static_vars" /\ StartStatic
    BY <2>13 DEF StartStatic, EnterRegion, ShareInv, TeamDone
  <2>14. CASE EndStatic
    BY <2>14 DEF EndStatic
  <2>15. CASE app \in {"task_extlib", "extlib_linkage"} /\ CompareNext
    BY <2>15 DEF CompareNext, FindsReason
  <2> QED
    BY <1>3, <2>1, <2>2, <2>3, <2>4, <2>5, <2>6, <2>7, <2>8, <2>9, <2>10, <2>11, <2>12,
        <2>13, <2>14, <2>15
    DEF OwnerStep, DecodeStep, AsyncTargetStep, TargetFunctionStep
<1>4. CASE HostStep
  <2> USE DEF HostGoto
  <2>1. CASE RequestCancel
    BY <2>1 DEF RequestCancel
  <2>2. ASSUME NEW field \in unsent, CancelWrite(field) PROVE NoticeInv'
    BY <2>2 DEF CancelWrite
  <2>3. CASE CancelSent
    BY <2>3 DEF CancelSent
  <2>4. CASE NoCancel
    BY <2>4 DEF NoCancel
  <2>5. CASE Join
    BY <2>5 DEF Join
  <2> QED
    BY <1>4, <2>1, <2>2, <2>3, <2>4, <2>5 DEF HostStep
<1>5. CASE Finished \/ UNCHANGED vars
  BY <1>5 DEF Finished, vars
<1> QED
  BY <1>1, <1>2, <1>3, <1>4, <1>5 DEF Next

(* Two times that fit are as far from each other as they say. *)
LEMMA WrapFits == \A d \in 0 .. IntMax : Wrap(d) = d
<1>1. IntMax \in Nat \ {0}
  BY BaseSignalsAssumption
<1>2. \A a \in Nat, b \in Nat : a < b => a % b = a
  OBVIOUS
<1> QED
  BY <1>1, <1>2 DEF Wrap

(* As long as the clock's microseconds fit an int, no thread skips its poll *)
(* when the cancellation has been there for the poll interval or longer.    *)
THEOREM NoticedInTime == ASSUME TimesFit PROVE Spec => NoticedWithinInterval
<1> DEFINE Noticed(t) ==
      poll[t] = "out" /\ poll'[t] = "returned" /\ aborted[t] = 0 /\ cancel = 1 =>
        now - cancel_us < Interval
<1>1. Init => NoticeInv
  <2> SUFFICES ASSUME Init PROVE NoticeInv
    OBVIOUS
  <2>1. now \in Nat /\ now <= IntMax
    BY TimesFit, BaseSignalsAssumption DEF Init, TimesFit
  <2>2. cancel = 0 /\ last_poll_time_us = [t \in Worker |-> 0]
    BY DEF Init
  <2> QED
    BY <2>1, <2>2 DEF NoticeInv
<1>2. IInv /\ NoticeInv /\ [Next]_vars => NoticeInv'
  BY TimesFit, NoticeInvStep DEF IInv
<1>3. IInv /\ NoticeInv /\ [Next]_vars => \A t \in Worker : Noticed(t)
  <2> SUFFICES ASSUME IInv, NoticeInv, [Next]_vars, NEW t \in Worker,
                      poll[t] = "out", poll'[t] = "returned", aborted[t] = 0, cancel = 1
               PROVE  now - cancel_us < Interval
    OBVIOUS
  <2> USE DEF IInv, TypeOK
  <2>1. PollCall(t)
    <3>1. poll' # poll
      OBVIOUS
    <3>2. PICK u \in Worker : WorkerStep(u)
      BY <3>1 DEF Next, Finished, vars, handle, hostVars, ownVars, pollVars, teamVars,
          history,
         Tick, HostStep, RequestCancel, CancelWrite, CancelSent, NoCancel, Join,
         OwnerStep, DecodeStep, AsyncTargetStep, TargetFunctionStep, Enter, CompareNext, RunSection,
         SkipSection, CheckBody, StartRegion, EnterRegion, SkipRegion, EndRegion,
             StepElapsed,
         StepCharge, StartTask, EndTask, CheckCancel, StartStatic, EndStatic
    <3>3. PollCall(u)
      BY <3>2 DEF WorkerStep, PollGoto, PollMessage, LoadSum, PollTimeout, PollAddTimeout, PollStore,
         PollReturn, EndItem
    <3>4. u = t
      BY <3>3 DEF PollCall, PollGoto
    <3> QED
      BY <3>3, <3>4
  <2>2. \A i \in AsInt(now) : i = now
    BY BaseSignalsAssumption DEF AsInt, NoticeInv
  <2>3. ~IntervalPassed(t, now)
    BY <2>1, <2>2 DEF PollCall, PollGoto
  <2>4. Wrap(now - last_poll_time_us[t]) < Interval
    <3>1. now - last_poll_time_us[t] \in 0 .. IntMax
      BY BaseSignalsAssumption DEF NoticeInv
    <3> QED
      BY <2>3, <3>1, WrapFits, BaseSignalsAssumption DEF IntervalPassed
  <2>5. now - last_poll_time_us[t] < Interval
    BY <2>4, WrapFits, BaseSignalsAssumption DEF NoticeInv
  <2> QED
    BY <2>5, BaseSignalsAssumption DEF NoticeInv
<1>4. IInv /\ NoticeInv /\ [Next]_vars => [\A t \in Worker : Noticed(t)]_vars
  BY <1>3
<1> QED
  BY <1>1, <1>2, <1>4, Invariance, PTL DEF Spec, NoticedWithinInterval
=============================================================================
