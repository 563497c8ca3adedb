-------------------------- MODULE PollCancelProofs --------------------------
(***************************************************************************)
(* A task that the runtime may take off the device, for any number of      *)
(* items, clock, timeouts and command line: its status is that of a region *)
(* that has ended, and a timeout is reported of no region that has had     *)
(* less than the time asked for, whatever a cancellation writes meanwhile. *)
(***************************************************************************)
EXTENDS PollCancel, TLAPS

(* Each region is on the device as long as its thread is in it, and the     *)
(* task does not poll.                                                      *)
RegionInv ==
  /\ "cancel" \in regions <=> host = "rc_write"
  /\ "task" \in regions <=> owner = "region"
  /\ poll = [t \in Worker |-> "out"]
  /\ host = "done" => owner = "done"

(* A region that has ended without the runtime's doing is complete. *)
StatusInv ==
  /\ owner \in {"start", "submit", "region"} => taken = 0
  /\ owner \in {"left", "done"} /\ taken = 0 => left = 0
  /\ result = IF owner = "done" THEN taken ELSE -1

(* The handle's timeout is the user's or the 1 us of a cancellation, the    *)
(* runtime's is one of these in milliseconds, and a region that has been    *)
(* taken off has had the runtime's.                                         *)
UserTimeout == AsInt(TimeoutAfterMs * UsPerMs)

LimitInv ==
  /\ timeout_after_us \in {UserTimeout, 1}
  /\ limit \in {0, InMilliseconds(UserTimeout), InMilliseconds(1)}
  /\ taken = 1 =>
       limit > 0 /\ \A t \in Worker : now - ts_start[t] >= limit * UsPerMs

IInv == TypeOK /\ RegionInv /\ StatusInv /\ LimitInv

---------------------------------------------------------------------------
(* What multiplying by a number has done dividing by it undoes. *)
LEMMA DivideProduct ==
  ASSUME NEW a \in Int, NEW n \in Nat \ {0}
  PROVE  (a * n) \div n = a
<1> DEFINE q == (a * n) \div n
           r == (a * n) % n
<1>1. q \in Int /\ r \in Int /\ a * n = n * q + r /\ 0 <= r /\ r < n
  OBVIOUS
<1> HIDE DEF q, r
<1>2. n * (a - q) = r
  BY <1>1
<1>3. ~(a - q >= 1)
  <2> SUFFICES ASSUME a - q >= 1 PROVE FALSE
    OBVIOUS
  <2>1. n * (a - q) >= n
    BY <1>1
  <2> QED
    BY <1>1, <1>2, <2>1
<1>4. ~(a - q <= -1)
  <2> SUFFICES ASSUME a - q <= -1 PROVE FALSE
    OBVIOUS
  <2>1. n * (a - q) < 0
    BY <1>1
  <2> QED
    BY <1>1, <1>2, <2>1
<1>5. a = q
  BY <1>1, <1>3, <1>4
<1> QED
  BY <1>5 DEF q

(* The timeout on the command line is an integer, however it is written. *)
LEMMA TimeoutIsInt == TimeoutAfterMs \in Int
<1>1. \A word : AtLeastOne(word) \in Int
  BY HostArgsAssumption DEF AtLeastOne
<1> QED
  BY <1>1, PollCancelAssumption DEF TimeoutAfterMs, Value

LEMMA InMillisecondsType == \A us \in Int : InMilliseconds(us) \in Int
<1> SUFFICES ASSUME NEW us \in Int PROVE InMilliseconds(us) \in Int
  OBVIOUS
<1>1. \A x \in Int, n \in Nat \ {0} : x \div n \in Int
  OBVIOUS
<1>2. us \div UsPerMs \in Int /\ (-us) \div UsPerMs \in Int
  BY <1>1, PollCancelAssumption
<1> QED
  BY <1>2 DEF InMilliseconds

(* A timeout that fits an int is the same in milliseconds, and the 1 us of  *)
(* a cancellation is none.                                                  *)
LEMMA MillisecondsOf ==
  /\ UserTimeout = TimeoutAfterMs * UsPerMs => InMilliseconds(UserTimeout) = TimeoutAfterMs
  /\ InMilliseconds(1) = 0
<1> USE PollCancelAssumption
<1>1. ASSUME UserTimeout = TimeoutAfterMs * UsPerMs
      PROVE  InMilliseconds(UserTimeout) = TimeoutAfterMs
  <2> DEFINE a == TimeoutAfterMs
  <2>1. a \in Int /\ -a \in Int
    BY TimeoutIsInt
  <2> HIDE DEF a
  <2>2. -(a * UsPerMs) = (-a) * UsPerMs
    BY <2>1
  <2>3. (a * UsPerMs) \div UsPerMs = a /\ ((-a) * UsPerMs) \div UsPerMs = -a
    BY <2>1, DivideProduct
  <2>4. UserTimeout = a * UsPerMs
    BY <1>1 DEF a
  <2>5. InMilliseconds(UserTimeout) = a
    BY <2>1, <2>2, <2>3, <2>4 DEF InMilliseconds
  <2> QED
    BY <2>5 DEF a
<1>2. 1 \div UsPerMs = 0
  OBVIOUS
<1> QED
  BY <1>1, <1>2 DEF InMilliseconds

(* Every action keeps the variables in their types.                         *)
LEMMA TypeOKStep == TypeOK /\ StatusInv /\ [Next]_vars => TypeOK'
<1> SUFFICES ASSUME TypeOK /\ StatusInv, [Next]_vars PROVE TypeOK'
  OBVIOUS
<1> USE HostSignalsAssumption, PollCancelAssumption DEF TypeOK, SignalsTypeOK, HostPc, Ret,
    UNDEFINED, OK, CANCEL, TIMEOUT, AdmitRegion, LeaveRegion, OwnerGoto, HostGoto, signalVars,
    signals, hostVars, pollVars, taskVars
<1>1. CASE Tick /\ UNCHANGED taskVars
  BY <1>1 DEF Tick
<1>2. CASE SetDefaultTimeout
  BY <1>2, InMillisecondsType DEF SetDefaultTimeout
<1>3. CASE Submit
  BY <1>3 DEF Submit
<1>4. CASE DoItem
  BY <1>4 DEF DoItem
<1>5. CASE EndRegion
  BY <1>5 DEF EndRegion
<1>6. CASE Return
  BY <1>6 DEF Return
<1>7. CASE RuntimeTimeout
  BY <1>7 DEF RuntimeTimeout
<1>8. CASE Computed
  BY <1>8 DEF Computed, RequestCancel, NoCancel
<1>9. CASE CancelRegionStart /\ UNCHANGED taskVars
  BY <1>9 DEF CancelRegionStart
<1>10. ASSUME NEW field \in unsent, CancelWrite(field), UNCHANGED taskVars PROVE TypeOK'
  BY <1>10 DEF CancelWrite
<1>11. CASE CancelRegionEnd /\ UNCHANGED taskVars
  BY <1>11 DEF CancelRegionEnd
<1>12. CASE Join
  BY <1>12 DEF Join
<1>13. CASE Finished \/ UNCHANGED vars
  <2>1. UNCHANGED <<signalVars, taskVars>>
    BY ONLY <1>13 DEF Finished, vars
  <2> QED
    BY <2>1
<1> QED
  BY <1>1, <1>2, <1>3, <1>4, <1>5, <1>6, <1>7,
     <1>8, <1>9, <1>10, <1>11, <1>12, <1>13 DEF Next, OwnerStep, HostStep

(* The device executes the regions whose threads are in them.               *)
LEMMA RegionInvStep == TypeOK /\ RegionInv /\ [Next]_vars => RegionInv'
<1> SUFFICES ASSUME TypeOK /\ RegionInv, [Next]_vars PROVE RegionInv'
  OBVIOUS
<1> USE HostSignalsAssumption DEF RegionInv, AdmitRegion, LeaveRegion, OwnerGoto, HostGoto, signalVars,
    signals, hostVars, pollVars, taskVars
<1>1. CASE Tick /\ UNCHANGED taskVars
  BY <1>1 DEF Tick
<1>2. CASE SetDefaultTimeout
  BY <1>2 DEF SetDefaultTimeout
<1>3. CASE Submit
  BY <1>3 DEF Submit
<1>4. CASE DoItem
  BY <1>4 DEF DoItem
<1>5. CASE EndRegion
  BY <1>5 DEF EndRegion
<1>6. CASE Return
  BY <1>6 DEF Return
<1>7. CASE RuntimeTimeout
  BY <1>7 DEF RuntimeTimeout
<1>8. CASE Computed
  BY <1>8 DEF Computed, RequestCancel, NoCancel
<1>9. CASE CancelRegionStart /\ UNCHANGED taskVars
  BY <1>9 DEF CancelRegionStart
<1>10. ASSUME NEW field \in unsent, CancelWrite(field), UNCHANGED taskVars PROVE RegionInv'
  BY <1>10 DEF CancelWrite
<1>11. CASE CancelRegionEnd /\ UNCHANGED taskVars
  BY <1>11 DEF CancelRegionEnd
<1>12. CASE Join
  BY <1>12 DEF Join
<1>13. CASE Finished \/ UNCHANGED vars
  BY <1>13 DEF Finished, vars
<1> QED
  BY <1>1, <1>2, <1>3, <1>4, <1>5, <1>6, <1>7,
     <1>8, <1>9, <1>10, <1>11, <1>12, <1>13 DEF Next, OwnerStep, HostStep

(* The status of a region is set when it ends and returned later.           *)
LEMMA StatusInvStep == TypeOK /\ StatusInv /\ [Next]_vars => StatusInv'
<1> SUFFICES ASSUME TypeOK /\ StatusInv, [Next]_vars PROVE StatusInv'
  OBVIOUS
<1> USE PollCancelAssumption DEF TypeOK, StatusInv, OwnerGoto, HostGoto, signalVars,
    signals, hostVars, pollVars, taskVars
<1>1. CASE Tick /\ UNCHANGED taskVars
  BY <1>1 DEF Tick
<1>2. CASE SetDefaultTimeout
  BY <1>2 DEF SetDefaultTimeout
<1>3. CASE Submit
  BY <1>3 DEF Submit
<1>4. CASE DoItem
  BY <1>4 DEF DoItem
<1>5. CASE EndRegion
  BY <1>5 DEF EndRegion
<1>6. CASE Return
  BY <1>6 DEF Return
<1>7. CASE RuntimeTimeout
  BY <1>7 DEF RuntimeTimeout
<1>8. CASE Computed
  BY <1>8 DEF Computed, RequestCancel, NoCancel
<1>9. CASE CancelRegionStart /\ UNCHANGED taskVars
  BY <1>9 DEF CancelRegionStart
<1>10. ASSUME NEW field \in unsent, CancelWrite(field), UNCHANGED taskVars PROVE StatusInv'
  BY <1>10 DEF CancelWrite
<1>11. CASE CancelRegionEnd /\ UNCHANGED taskVars
  BY <1>11 DEF CancelRegionEnd
<1>12. CASE Join
  BY <1>12 DEF Join
<1>13. CASE Finished \/ UNCHANGED vars
  BY <1>13 DEF Finished, vars
<1> QED
  BY <1>1, <1>2, <1>3, <1>4, <1>5, <1>6, <1>7,
     <1>8, <1>9, <1>10, <1>11, <1>12, <1>13 DEF Next, OwnerStep, HostStep

(* What the runtime has been given is one of the two timeouts.              *)
LEMMA LimitInvStep == TypeOK /\ StatusInv /\ LimitInv /\ [Next]_vars => LimitInv'
<1> SUFFICES ASSUME TypeOK /\ StatusInv /\ LimitInv, [Next]_vars PROVE LimitInv'
  OBVIOUS
<1>0. argv' = argv => UserTimeout' = UserTimeout /\ InMilliseconds(UserTimeout)' = InMilliseconds(UserTimeout)
  BY DEF UserTimeout, TimeoutAfterMs
<1> USE <1>0, PollCancelAssumption DEF LimitInv, StatusInv, TypeOK, SignalsTypeOK, OwnerGoto, HostGoto, signalVars,
    signals, hostVars, pollVars, taskVars
<1>1. CASE Tick /\ UNCHANGED taskVars
  BY <1>1 DEF Tick
<1>2. CASE SetDefaultTimeout
  BY <1>2 DEF SetDefaultTimeout
<1>3. CASE Submit
  BY <1>3 DEF Submit
<1>4. CASE DoItem
  BY <1>4 DEF DoItem
<1>5. CASE EndRegion
  BY <1>5 DEF EndRegion
<1>6. CASE Return
  BY <1>6 DEF Return
<1>7. CASE RuntimeTimeout
  BY <1>7 DEF RuntimeTimeout
<1>8. CASE Computed
  BY <1>8 DEF Computed, RequestCancel, NoCancel
<1>9. CASE CancelRegionStart /\ UNCHANGED taskVars
  BY <1>9 DEF CancelRegionStart
<1>10. ASSUME NEW field \in unsent, CancelWrite(field), UNCHANGED taskVars PROVE LimitInv'
  BY <1>10 DEF CancelWrite
<1>11. CASE CancelRegionEnd /\ UNCHANGED taskVars
  BY <1>11 DEF CancelRegionEnd
<1>12. CASE Join
  BY <1>12 DEF Join
<1>13. CASE Finished \/ UNCHANGED vars
  BY <1>13 DEF Finished, vars
<1> QED
  BY <1>1, <1>2, <1>3, <1>4, <1>5, <1>6, <1>7,
     <1>8, <1>9, <1>10, <1>11, <1>12, <1>13 DEF Next, OwnerStep, HostStep
---------------------------------------------------------------------------
(* The parts together are an invariant of the application.                  *)
LEMMA Invariance == Spec => []IInv
<1>1. Init => IInv
  <2> SUFFICES ASSUME Init PROVE IInv
    OBVIOUS
  <2> USE HostSignalsAssumption, PollCancelAssumption DEF Init, SignalsInit
  <2>1. TypeOK
    BY DEF TypeOK, SignalsTypeOK, HostPc, PollPc, Ret, UNDEFINED, OK, CANCEL, TIMEOUT
  <2>2. RegionInv /\ StatusInv
    BY DEF RegionInv, StatusInv
  <2>3. LimitInv
    BY DEF LimitInv, UserTimeout
  <2> QED
    BY <2>1, <2>2, <2>3 DEF IInv
<1>2. IInv /\ [Next]_vars => IInv'
  BY TypeOKStep, RegionInvStep, StatusInvStep, LimitInvStep DEF IInv
<1> QED
  BY <1>1, <1>2, PTL DEF Spec

(* The status main() gets is that of a region which has ended - a complete  *)
(* one, unless it reports a timeout - and neither this region nor that of   *)
(* the cancellation is on the device when the handle is freed.              *)
THEOREM StatusIsSound == Spec => []StatusSound
<1>1. IInv => StatusSound
  <2> SUFFICES ASSUME IInv PROVE TypeOK /\ StatusComplete /\ HandleFreedUnused
    BY DEF StatusSound
  <2>1. StatusComplete
    BY DEF IInv, StatusInv, StatusComplete
  <2>2. HandleFreedUnused
    BY DEF IInv, TypeOK, SignalsTypeOK, RegionInv, HandleFreedUnused
  <2> QED
    BY <2>1, <2>2 DEF IInv
<1> QED
  BY <1>1, Invariance, PTL

(* A timeout is reported of no region that has had less than the time the   *)
(* user asked for, through a product, a quotient and a cancellation.        *)
THEOREM StatusIsNotEarly == Spec => []StatusNotEarly
<1>1. IInv => StatusNotEarly
  <2> SUFFICES ASSUME IInv, result = 1, UserTimeout = TimeoutAfterMs * UsPerMs,
                      NEW t \in Worker
               PROVE  now - ts_start[t] >= TimeoutAfterMs * UsPerMs
    BY DEF StatusNotEarly, UserTimeout
  <2>1. taken = 1
    BY DEF IInv, StatusInv
  <2>2. limit > 0 /\ now - ts_start[t] >= limit * UsPerMs /\ limit \in {0, TimeoutAfterMs}
    BY <2>1, MillisecondsOf DEF IInv, LimitInv
  <2> QED
    BY <2>2
<1> QED
  BY <1>1, Invariance, PTL
=============================================================================
