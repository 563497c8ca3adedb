----------------------------- MODULE DspProofs ------------------------------
(***************************************************************************)
(* The applications dsp_freq, dsp_img_filter and pgm.  What holds of the clock*)
(* measurement for every thread, timeout, clock and time scale: the         *)
(* runtime, which takes the region off the device in the middle of a poll,  *)
(* does not upset the verdict, and no region is left without a reason.      *)
(* What holds of the image filters for every image, team and command line:  *)
(* the output is the filtered input, and the memory is freed once.          *)
(* What holds of their files for every size, comments and contents: a file  *)
(* is read as the image it was written from.                                *)
(***************************************************************************)
EXTENDS DspFreq, ImageFilter, PgmFile, SequenceTheorems, FiniteSetTheorems, WellFoundedInduction, TLAPS

(* No thread polls outside the region: the runtime takes them all off. *)
RegionInv == owner # "region" => \A t \in Worker : poll[t] = "out"

(* Of the three fields, those not yet written are unsent; a worker writes   *)
(* CANCEL only after it has read cancel, and does not poll once aborted.    *)
HandleInv ==
  /\ host # "rc_write" => unsent = {}
  /\ host \in {"compute", "rc_region"} => cancel = 0
  /\ host = "rc_write" => (cancel = 1 <=> "cancel" \notin unsent)
  /\ (host = "rc_write" \/ cancel = 1) /\ "ret" \notin unsent =>
       ret \in {CANCEL, TIMEOUT}
  /\ \A t \in Worker :
       /\ poll[t] = "put_cancel" => cancel = 1
       /\ poll[t] \notin {"out", "returned"} => aborted[t] = 0
  /\ CancelJustified
  /\ AbortReported

IInv == TypeOK /\ RegionInv /\ HandleInv /\ LeftForReason

---------------------------------------------------------------------------
(* The bound of TimeGranted. *)
Due == requested_us - (CancelLatencyMs + 1) * FreqScale

(* oam_task__set_default_timeout takes off no more than the latency and a   *)
(* millisecond that is not full, and grants nothing without a timeout.      *)
LEMMA TimeIsGranted ==
  ASSUME TypeOK, DefaultTimeoutMs > 0
  PROVE  requested_us > 0 /\ DefaultTimeoutMs * FreqScale > Due
<1> DEFINE q == requested_us \div FreqScale
<1>1. requested_us \in Int /\ FreqScale \in Nat \ {0} /\ CancelLatencyMs \in Nat
  BY HostSignalsAssumption, DspFreqAssumption DEF TypeOK
<1>2. q \in Int /\ FreqScale * q <= requested_us /\ requested_us < FreqScale * q + FreqScale
  <2>1. \A a \in Int, b \in Nat \ {0} :
          a \div b \in Int /\ b * (a \div b) <= a /\ a < b * (a \div b) + b
    OBVIOUS
  <2> QED
    BY <1>1, <2>1
<1>3. q > 0 /\ (DefaultTimeoutMs = q \/ DefaultTimeoutMs = q - CancelLatencyMs)
  BY <1>1, <1>2 DEF DefaultTimeoutMs
<1> HIDE DEF q
<1>4. requested_us > 0
  <2>1. \A a \in Nat \ {0}, b \in Int : b > 0 => a * b > 0
    OBVIOUS
  <2> QED
    BY <1>1, <1>2, <1>3, <2>1
<1>5. /\ q * FreqScale = FreqScale * q
      /\ (q - CancelLatencyMs) * FreqScale = FreqScale * q - CancelLatencyMs * FreqScale
      /\ (CancelLatencyMs + 1) * FreqScale = CancelLatencyMs * FreqScale + FreqScale
      /\ CancelLatencyMs * FreqScale \in Nat /\ FreqScale * q \in Int
  BY <1>1, <1>2
<1> QED
  BY <1>1, <1>2, <1>3, <1>4, <1>5 DEF Due

(* Every action keeps the variables in their types.                         *)
LEMMA TypeOKStep == TypeOK /\ [Next]_vars => TypeOK'
<1> SUFFICES ASSUME TypeOK, [Next]_vars PROVE TypeOK'
  OBVIOUS
<1> USE HostSignalsAssumption DEF TypeOK, SignalsTypeOK, HostPc, PollPc, signals,
    hostVars, pollVars,
        ownerVars, Ret, UNDEFINED, OK, CANCEL, TIMEOUT
<1>1. CASE Clock
  BY <1>1 DEF Clock, Tick
<1>2. ASSUME NEW t \in Worker, WorkerStep(t) /\ UNCHANGED ownerVars
      PROVE  TypeOK'
  <2> USE DEF PollGoto, PollReturn
  <2>1. CASE LoopPoll(t)
    BY <1>2, <2>1 DEF LoopPoll, PollCall
  <2>2. CASE PollStep(t)
    <3>1. CASE PollSeesFlag(t)
      BY <1>2, <2>2, <3>1 DEF PollSeesFlag
    <3>2. CASE PollSeesNoFlag(t)
      BY <1>2, <2>2, <3>2 DEF PollSeesNoFlag
    <3>3. CASE PollMessage(t)
      BY <1>2, <2>2, <3>3 DEF PollMessage
    <3>4. CASE PollPutCancel(t)
      BY <1>2, <2>2, <3>4 DEF PollPutCancel
    <3>5. CASE PollClock(t)
      BY <1>2, <2>2, <3>5 DEF PollClock
    <3>6. CASE PollPutTimeout(t)
      BY <1>2, <2>2, <3>6 DEF PollPutTimeout
    <3>7. CASE PollRecheck(t)
      BY <1>2, <2>2, <3>7 DEF PollRecheck
    <3> QED
      BY <2>2, <3>1, <3>2, <3>3, <3>4, <3>5, <3>6, <3>7 DEF PollStep
  <2>3. CASE LoopNext(t)
    BY <1>2, <2>3 DEF LoopNext
  <2> QED
    BY <1>2, <2>1, <2>2, <2>3 DEF WorkerStep
<1>3. CASE OwnerStep
  <2> USE DEF OwnerGoto
  <2>1. CASE Submit
    BY <2>1 DEF Submit, AdmitRegion
  <2>2. CASE Return
    BY <2>2 DEF Return, LeaveRegion
  <2>3. CASE RuntimeTimeout
    BY <2>3 DEF RuntimeTimeout, LeaveRegion
  <2> QED
    BY <1>3, <2>1, <2>2, <2>3 DEF OwnerStep
<1>4. CASE HostStep
  <2> USE DEF HostGoto
  <2>1. CASE CancelStep /\ UNCHANGED ownerVars
    <3>1. CASE RequestCancel
      BY <2>1, <3>1 DEF RequestCancel
    <3>2. CASE CancelRegionStart
      BY <2>1, <3>2 DEF CancelRegionStart, AdmitRegion
    <3>3. ASSUME NEW field \in unsent, CancelWrite(field) PROVE TypeOK'
      BY <2>1, <3>3 DEF CancelWrite
    <3>4. CASE CancelRegionEnd
      BY <2>1, <3>4 DEF CancelRegionEnd, LeaveRegion
    <3>5. CASE NoCancel
      BY <2>1, <3>5 DEF NoCancel
    <3> QED
      BY <2>1, <3>1, <3>2, <3>3, <3>4, <3>5 DEF CancelStep
  <2>2. CASE Join
    BY <2>2 DEF Join
  <2> QED
    BY <1>4, <2>1, <2>2 DEF HostStep
<1>5. CASE Finished \/ UNCHANGED vars
  <2>1. UNCHANGED <<signalVars, ownerVars>>
    BY <1>5 DEF Finished, vars
  <2> QED
    BY <2>1 DEF signalVars
<1> QED
  BY <1>1, <1>2, <1>3, <1>4, <1>5 DEF Next

(* The threads are in a poll only while their region is on the device.      *)
LEMMA RegionInvStep == TypeOK /\ RegionInv /\ [Next]_vars => RegionInv'
<1> SUFFICES ASSUME TypeOK, RegionInv, [Next]_vars PROVE RegionInv'
  OBVIOUS
<1> USE DEF RegionInv, TypeOK, SignalsTypeOK, HostPc, PollPc, signals, hostVars, pollVars,
        ownerVars, Ret, UNDEFINED, OK, CANCEL, TIMEOUT
<1>1. CASE Clock
  BY <1>1 DEF Clock, Tick
<1>2. ASSUME NEW t \in Worker, WorkerStep(t) /\ UNCHANGED ownerVars
      PROVE  RegionInv'
  <2> USE DEF PollGoto, PollReturn
  <2>1. CASE LoopPoll(t)
    BY <1>2, <2>1 DEF LoopPoll, PollCall
  <2>2. CASE PollStep(t)
    <3>1. CASE PollSeesFlag(t)
      BY <1>2, <2>2, <3>1 DEF PollSeesFlag
    <3>2. CASE PollSeesNoFlag(t)
      BY <1>2, <2>2, <3>2 DEF PollSeesNoFlag
    <3>3. CASE PollMessage(t)
      BY <1>2, <2>2, <3>3 DEF PollMessage
    <3>4. CASE PollPutCancel(t)
      BY <1>2, <2>2, <3>4 DEF PollPutCancel
    <3>5. CASE PollClock(t)
      BY <1>2, <2>2, <3>5 DEF PollClock
    <3>6. CASE PollPutTimeout(t)
      BY <1>2, <2>2, <3>6 DEF PollPutTimeout
    <3>7. CASE PollRecheck(t)
      BY <1>2, <2>2, <3>7 DEF PollRecheck
    <3> QED
      BY <2>2, <3>1, <3>2, <3>3, <3>4, <3>5, <3>6, <3>7 DEF PollStep
  <2>3. CASE LoopNext(t)
    BY <1>2, <2>3 DEF LoopNext
  <2> QED
    BY <1>2, <2>1, <2>2, <2>3 DEF WorkerStep
<1>3. CASE OwnerStep
  <2> USE DEF OwnerGoto
  <2>1. CASE Submit
    BY <2>1 DEF Submit, AdmitRegion
  <2>2. CASE Return
    BY <2>2 DEF Return, LeaveRegion
  <2>3. CASE RuntimeTimeout
    BY <2>3 DEF RuntimeTimeout, LeaveRegion
  <2> QED
    BY <1>3, <2>1, <2>2, <2>3 DEF OwnerStep
<1>4. CASE HostStep
  <2> USE DEF HostGoto
  <2>1. CASE CancelStep /\ UNCHANGED ownerVars
    <3>1. CASE RequestCancel
      BY <2>1, <3>1 DEF RequestCancel
    <3>2. CASE CancelRegionStart
      BY <2>1, <3>2 DEF CancelRegionStart, AdmitRegion
    <3>3. ASSUME NEW field \in unsent, CancelWrite(field) PROVE RegionInv'
      BY <2>1, <3>3 DEF CancelWrite
    <3>4. CASE CancelRegionEnd
      BY <2>1, <3>4 DEF CancelRegionEnd, LeaveRegion
    <3>5. CASE NoCancel
      BY <2>1, <3>5 DEF NoCancel
    <3> QED
      BY <2>1, <3>1, <3>2, <3>3, <3>4, <3>5 DEF CancelStep
  <2>2. CASE Join
    BY <2>2 DEF Join
  <2> QED
    BY <1>4, <2>1, <2>2 DEF HostStep
<1>5. CASE Finished \/ UNCHANGED vars
  <2>1. UNCHANGED <<signalVars, ownerVars>>
    BY <1>5 DEF Finished, vars
  <2> QED
    BY <2>1 DEF signalVars
<1> QED
  BY <1>1, <1>2, <1>3, <1>4, <1>5 DEF Next

(* The host's three writes and the workers' two keep the fields consistent  *)
(* in every order, also when the runtime leaves some of them out.           *)
LEMMA HandleInvStep == TypeOK /\ RegionInv /\ HandleInv /\ [Next]_vars => HandleInv'
<1> SUFFICES ASSUME TypeOK, RegionInv, HandleInv, [Next]_vars PROVE HandleInv'
  OBVIOUS
<1> USE DEF HandleInv, CancelJustified, AbortReported, RegionInv,
        TypeOK, SignalsTypeOK, HostPc, PollPc, signals, hostVars, pollVars,
        ownerVars, Ret, UNDEFINED, OK, CANCEL, TIMEOUT
<1>1. CASE Clock
  BY <1>1 DEF Clock, Tick
<1>2. ASSUME NEW t \in Worker, WorkerStep(t) /\ UNCHANGED ownerVars
      PROVE  HandleInv'
  <2> USE DEF PollGoto, PollReturn
  <2>1. CASE LoopPoll(t)
    BY <1>2, <2>1 DEF LoopPoll, PollCall
  <2>2. CASE PollStep(t)
    <3>1. CASE PollSeesFlag(t)
      BY <1>2, <2>2, <3>1 DEF PollSeesFlag
    <3>2. CASE PollSeesNoFlag(t)
      BY <1>2, <2>2, <3>2 DEF PollSeesNoFlag
    <3>3. CASE PollMessage(t)
      BY <1>2, <2>2, <3>3 DEF PollMessage
    <3>4. CASE PollPutCancel(t)
      BY <1>2, <2>2, <3>4 DEF PollPutCancel
    <3>5. CASE PollClock(t)
      BY <1>2, <2>2, <3>5 DEF PollClock
    <3>6. CASE PollPutTimeout(t)
      BY <1>2, <2>2, <3>6 DEF PollPutTimeout
    <3>7. CASE PollRecheck(t)
      BY <1>2, <2>2, <3>7 DEF PollRecheck
    <3> QED
      BY <2>2, <3>1, <3>2, <3>3, <3>4, <3>5, <3>6, <3>7 DEF PollStep
  <2>3. CASE LoopNext(t)
    BY <1>2, <2>3 DEF LoopNext
  <2> QED
    BY <1>2, <2>1, <2>2, <2>3 DEF WorkerStep
<1>3. CASE OwnerStep
  <2> USE DEF OwnerGoto
  <2>1. CASE Submit
    BY <2>1 DEF Submit, AdmitRegion
  <2>2. CASE Return
    BY <2>2 DEF Return, LeaveRegion
  <2>3. CASE RuntimeTimeout
    BY <2>3 DEF RuntimeTimeout, LeaveRegion
  <2> QED
    BY <1>3, <2>1, <2>2, <2>3 DEF OwnerStep
<1>4. CASE HostStep
  <2> USE DEF HostGoto
  <2>1. CASE CancelStep /\ UNCHANGED ownerVars
    <3>1. CASE RequestCancel
      BY <2>1, <3>1 DEF RequestCancel
    <3>2. CASE CancelRegionStart
      BY <2>1, <3>2 DEF CancelRegionStart, AdmitRegion
    <3>3. ASSUME NEW field \in unsent, CancelWrite(field) PROVE HandleInv'
      BY <2>1, <3>3 DEF CancelWrite
    <3>4. CASE CancelRegionEnd
      BY <2>1, <3>4 DEF CancelRegionEnd, LeaveRegion
    <3>5. CASE NoCancel
      BY <2>1, <3>5 DEF NoCancel
    <3> QED
      BY <2>1, <3>1, <3>2, <3>3, <3>4, <3>5 DEF CancelStep
  <2>2. CASE Join
    BY <2>2 DEF Join
  <2> QED
    BY <1>4, <2>1, <2>2 DEF HostStep
<1>5. CASE Finished \/ UNCHANGED vars
  <2>1. UNCHANGED <<signalVars, ownerVars>>
    BY <1>5 DEF Finished, vars
  <2> QED
    BY <2>1 DEF signalVars
<1> QED
  BY <1>1, <1>2, <1>3, <1>4, <1>5 DEF Next

(* A reason to leave the region lasts: a verdict is not taken back, the     *)
(* clock does not go back, and Return needs a thread that was told to stop. *)
LEMMA LeftForReasonStep ==
  TypeOK /\ RegionInv /\ HandleInv /\ LeftForReason /\ [Next]_vars => LeftForReason'
<1> SUFFICES ASSUME TypeOK, RegionInv, HandleInv, LeftForReason,
    [Next]_vars PROVE LeftForReason'
  OBVIOUS
<1>a. Due \in Int
  BY HostSignalsAssumption, DspFreqAssumption DEF TypeOK, Due
<1>b. UNCHANGED requested_us => Due' = Due
  BY DEF Due
<1>c. TimeGranted <=> requested_us > 0 /\ \A t \in Worker : now - ts_start[t] > Due
  BY DEF TimeGranted, Due
<1>d. TimeGranted' <=> requested_us' > 0 /\ \A t \in Worker : now' - ts_start'[t] > Due'
  BY DEF TimeGranted, Due
<1>e. UNCHANGED <<now, ts_start, requested_us>> => TimeGranted' = TimeGranted
  BY <1>b, <1>c, <1>d
<1> USE <1>e DEF LeftForReason, HandleInv, AbortReported, RegionInv,
        TypeOK, SignalsTypeOK, HostPc, PollPc, signals, hostVars, pollVars,
        ownerVars, Ret, UNDEFINED, OK, CANCEL, TIMEOUT
<1>1. CASE Clock
  <2>1. UNCHANGED <<ts_start, requested_us, owner, ret, cancel>> /\ now' = now + 1
    BY <1>1 DEF Clock, Tick
  <2>2. Due' = Due /\ ts_start \in [Worker -> Nat] /\ now \in Nat
    BY <1>b, <2>1
  <2>3. TimeGranted => TimeGranted'
    BY ONLY <1>a, <1>c, <1>d, <2>1, <2>2
  <2> QED
    BY <2>1, <2>3
<1>2. ASSUME NEW t \in Worker, WorkerStep(t) /\ UNCHANGED ownerVars
      PROVE  LeftForReason'
  <2> USE DEF PollGoto, PollReturn
  <2>1. CASE LoopPoll(t)
    BY <1>2, <2>1 DEF LoopPoll, PollCall
  <2>2. CASE PollStep(t)
    <3>1. CASE PollSeesFlag(t)
      BY <1>2, <2>2, <3>1 DEF PollSeesFlag
    <3>2. CASE PollSeesNoFlag(t)
      BY <1>2, <2>2, <3>2 DEF PollSeesNoFlag
    <3>3. CASE PollMessage(t)
      BY <1>2, <2>2, <3>3 DEF PollMessage
    <3>4. CASE PollPutCancel(t)
      BY <1>2, <2>2, <3>4 DEF PollPutCancel
    <3>5. CASE PollClock(t)
      BY <1>2, <2>2, <3>5 DEF PollClock
    <3>6. CASE PollPutTimeout(t)
      BY <1>2, <2>2, <3>6 DEF PollPutTimeout
    <3>7. CASE PollRecheck(t)
      BY <1>2, <2>2, <3>7 DEF PollRecheck
    <3> QED
      BY <2>2, <3>1, <3>2, <3>3, <3>4, <3>5, <3>6, <3>7 DEF PollStep
  <2>3. CASE LoopNext(t)
    BY <1>2, <2>3 DEF LoopNext
  <2> QED
    BY <1>2, <2>1, <2>2, <2>3 DEF WorkerStep
<1>3. CASE OwnerStep
  <2> USE DEF OwnerGoto
  <2>1. CASE Submit
    BY <2>1 DEF Submit, AdmitRegion
  <2>2. CASE Return
    <3>1. PICK t \in Worker : aborted[t] # 0
      BY <2>2, HostSignalsAssumption DEF Return
    <3>2. ret \in {CANCEL, TIMEOUT} \/ cancel = 1
      BY <3>1
    <3> QED
      BY <2>2, <3>2 DEF Return
  <2>3. CASE RuntimeTimeout
    <3>1. /\ requested_us > 0 /\ DefaultTimeoutMs * FreqScale > Due
          /\ DefaultTimeoutMs \in Int
      BY <2>3, TimeIsGranted, HostSignalsAssumption, DspFreqAssumption
      DEF RuntimeTimeout, DefaultTimeoutMs
    <3>2. \A t \in Worker : now - ts_start[t] >= DefaultTimeoutMs * FreqScale
      BY <2>3 DEF RuntimeTimeout
    <3>3. DefaultTimeoutMs * FreqScale \in Int
      BY <3>1, DspFreqAssumption
    <3>4. \A t \in Worker : now - ts_start[t] > Due
      BY ONLY <1>a, <3>1, <3>2, <3>3, now \in Nat, ts_start \in [Worker -> Nat]
    <3>5. TimeGranted /\ UNCHANGED <<now, ts_start, requested_us>>
      BY <1>c, <2>3, <3>1, <3>4 DEF RuntimeTimeout
    <3> QED
      BY <1>e, <3>5
  <2> QED
    BY <1>3, <2>1, <2>2, <2>3 DEF OwnerStep
<1>4. CASE HostStep
  <2> USE DEF HostGoto
  <2>1. CASE CancelStep /\ UNCHANGED ownerVars
    <3>1. CASE RequestCancel
      BY <2>1, <3>1 DEF RequestCancel
    <3>2. CASE CancelRegionStart
      BY <2>1, <3>2 DEF CancelRegionStart, AdmitRegion
    <3>3. ASSUME NEW field \in unsent, CancelWrite(field) PROVE LeftForReason'
      BY <2>1, <3>3 DEF CancelWrite
    <3>4. CASE CancelRegionEnd
      BY <2>1, <3>4 DEF CancelRegionEnd, LeaveRegion
    <3>5. CASE NoCancel
      BY <2>1, <3>5 DEF NoCancel
    <3> QED
      BY <2>1, <3>1, <3>2, <3>3, <3>4, <3>5 DEF CancelStep
  <2>2. CASE Join
    BY <2>2 DEF Join
  <2> QED
    BY <1>4, <2>1, <2>2 DEF HostStep
<1>5. CASE Finished \/ UNCHANGED vars
  <2>1. UNCHANGED <<signalVars, ownerVars>>
    BY <1>5 DEF Finished, vars
  <2> QED
    BY <2>1 DEF signalVars
<1> QED
  BY <1>1, <1>2, <1>3, <1>4, <1>5 DEF Next

---------------------------------------------------------------------------
(* The parts together are an invariant of the application.                  *)
LEMMA Invariance == Spec => []IInv
<1>1. Init => IInv
  BY HostSignalsAssumption
  DEF Init, SignalsInit, IInv, TypeOK, SignalsTypeOK, RegionInv, HandleInv, LeftForReason,
      CancelJustified, AbortReported, HostPc, PollPc, Ret, UNDEFINED, OK, CANCEL, TIMEOUT
<1>2. IInv /\ [Next]_vars => IInv'
  BY TypeOKStep, RegionInvStep, HandleInvStep, LeftForReasonStep DEF IInv
<1> QED
  BY <1>1, <1>2, PTL DEF Spec

(* The verdict stays justified and reported against a runtime that may take *)
(* the region off the device at any step of a poll.                         *)
THEOREM VerdictIsKept == Spec => []VerdictKept
<1>1. IInv => VerdictKept
  BY DEF IInv, HandleInv, VerdictKept, CancelReported
<1> QED
  BY <1>1, Invariance, PTL

(* Whatever the timeout and the scale of the clock, the region is left only *)
(* by a task that was stopped, or when the time main() asked for is over    *)
(* but for the latency.                                                     *)
THEOREM LeftWithReason == Spec => []LeftForReason
<1>1. IInv => LeftForReason
  BY DEF IInv
<1> QED
  BY <1>1, Invariance, PTL

---------------------------------------------------------------------------
Images == {"heap_in", "heap_out", "block"}

(* main() and the kernel, whatever the threads do: the images have changed  *)
(* places once for every repetition, the buffers once for every iteration,  *)
(* and the further image lives as long as the kernel.                       *)
BufferInv ==
  /\ phase \in {"repeat", "iterate", "loop", "free", "exit"}
  /\ rep \in 0 .. KernelReps /\ n \in 0 .. KernelIter
  /\ imageIn = IF Odd(rep) THEN "heap_out" ELSE "heap_in"
  /\ imageOut = IF Odd(rep) THEN "heap_in" ELSE "heap_out"
  /\ phase \in {"iterate", "loop"} =>
       /\ rep < KernelReps /\ (phase = "loop" => n < KernelIter)
       /\ DoubleBuffered =>
            /\ live = {"heap", "block"}
            /\ bufA = IF Odd(n) THEN imageOut ELSE "block"
            /\ bufB = IF Odd(n) THEN "block" ELSE imageOut
       /\ ~DoubleBuffered => live = {"heap"} /\ bufA = imageIn /\ bufB = imageOut
  /\ phase \in {"repeat", "free", "exit"} => bufA = NoImage /\ bufB = NoImage
  /\ phase \in {"repeat", "free"} => live = {"heap"}
  /\ phase = "exit" => live = {}
  /\ freedTwice = FALSE

(* The threads and what they write, wherever j has got to. *)
ThreadInv ==
  /\ at \in [Member -> {"row", "test", "call", "read", "write", "done"}]
  /\ row \in [Member -> 0 .. Rows] /\ j \in [Member -> Nat] /\ seen \in [Member -> Nat]
  /\ pixels \in [Images -> [Pixel -> Nat]]

(* A thread with a j of its own is in a row of its chunk and, once it has   *)
(* passed the test, at a column between the borders; and it is not done     *)
(* before the last row of its chunk.                                        *)
ColumnInv ==
  \A t \in Member :
    /\ phase # "loop" => at[t] = "done"
    /\ at[t] \in {"test", "call", "read", "write"} =>
         row[t] \in Chunk(t) /\ (j[t] = 1 \/ j[t] \in 1 .. Cols - 1)
    /\ at[t] \in {"call", "read", "write"} => j[t] \in 1 .. Cols - 2
    /\ at[t] = "write" => seen[t] = j[t]
    /\ phase = "loop" /\ at[t] = "done" => \A r \in Chunk(t) : r <= row[t]

(* The borders are left alone. *)
BorderInv == \A i \in Images : \A p \in Pixel \ Interior : pixels[i][p] = 0

(* The filter has been applied to the pixels thread t has passed. *)
Passed(t, r, c) ==
  \/ r < row[t]
  \/ r = row[t] /\ at[t] \in {"row", "done"}
  \/ r = row[t] /\ c < j[t]
  \/ r = row[t] /\ c = j[t] /\ at[t] \in {"read", "write"}

ProgressInv ==
  phase = "loop" =>
    \A t \in Member : \A r \in Chunk(t) : \A c \in 1 .. Cols - 2 :
      Passed(t, r, c) =>
        pixels[bufB][Canonical2d(r, c)] = pixels[bufA][Canonical2d(r, c)] + 1

(* An image to which the filter has been applied k times, and how often it  *)
(* has been applied to the input of this repetition.                        *)
Filtered(k) == [p \in Pixel |-> IF p \in Interior THEN k ELSE 0]
Base == rep * (IF DoubleBuffered THEN KernelIter ELSE 1)

FilteredInv ==
  /\ phase = "repeat" => pixels[imageIn] = Filtered(Base)
  /\ phase \in {"iterate", "loop"} =>
       /\ DoubleBuffered => pixels[bufA] = Filtered(Base + n)
       /\ ~DoubleBuffered => pixels[bufA] = Filtered(Base)
  /\ phase = "iterate" /\ ~DoubleBuffered /\ n > 0 => pixels[imageOut] = Filtered(Base + 1)

ImageInv ==
  /\ program \in Programs /\ team \in Nat \ {0}
  /\ jShared \in BOOLEAN /\ overlaid \in BOOLEAN
  /\ BufferInv /\ ThreadInv
  /\ ~jShared => ColumnInv /\ BorderInv
  /\ ~jShared /\ ~overlaid => ProgressInv
  /\ ~jShared /\ ~overlaid /\ (DoubleBuffered => Odd(KernelIter)) => FilteredInv
  /\ output = <<>> \/ output \in [Pixel -> Nat]
  /\ OutputComplete
---------------------------------------------------------------------------
(* The library's orders on finite sets give every nonempty set of numbers   *)
(* its least.                                                               *)
LEMMA LeastExists ==
  ASSUME NEW S \in SUBSET Nat, S # {}
  PROVE  \E m \in S : \A k \in S : m <= k
<1> DEFINE T == {0 .. x : x \in S}
<1>1. T \subseteq FiniteSubsetsOf(Nat) /\ T # {}
  <2>1. ASSUME NEW x \in S PROVE IsFiniteSet(0 .. x) /\ 0 .. x \subseteq Nat
    BY FS_Interval
  <2> QED
    BY <2>1 DEF FiniteSubsetsOf
<1>2. PICK u \in T : \A v \in T : <<v, u>> \notin StrictSubsetOrdering(Nat)
  <2> HIDE DEF T
  <2> QED
    BY <1>1, FS_StrictSubsetOrderingWellFounded, WFMin
<1>3. PICK m \in S : u = 0 .. m
  BY <1>2
<1>4. ASSUME NEW k \in S, k < m PROVE FALSE
  <2>1. 0 .. k \in T /\ 0 .. k \subseteq 0 .. m /\ m \notin 0 .. k /\ m \in 0 .. m
    BY <1>4
  <2>2. <<0 .. k, u>> \in StrictSubsetOrdering(Nat)
    BY <2>1, <1>3 DEF StrictSubsetOrdering
  <2> QED
    BY <1>2, <2>1, <2>2
<1> QED
  BY <1>4

LEMMA OddStep == ASSUME NEW k \in Nat PROVE Odd(k + 1) <=> ~Odd(k)
BY DEF Odd

LEMMA CountsArePositive == KernelIter \in Nat \ {0} /\ KernelReps \in Nat \ {0}
<1>1. \A word : AtLeastOne(word) \in Nat \ {0}
  BY HostArgsAssumption DEF AtLeastOne
<1> QED
  BY <1>1 DEF KernelIter, KernelReps, Value

(* The rows and columns between the borders. *)
LEMMA InteriorPixel ==
  ASSUME NEW r \in 1 .. Rows - 2, NEW c \in 1 .. Cols - 2
  PROVE  /\ Canonical2d(r, c) \in Pixel /\ Canonical2d(r, c) \in Interior
<1>1. Rows \in Nat /\ Cols \in Nat /\ r \in Nat /\ c \in Nat
  BY ImageFilterAssumption
<1>2. r * Cols \in Nat /\ r * Cols + c >= 0
  BY <1>1
<1>3. r * Cols <= (Rows - 2) * Cols
  BY <1>1
<1>4. (Rows - 2) * Cols = Rows * Cols - 2 * Cols
  BY <1>1
<1>5. r * Cols + c <= Rows * Cols - 1
  BY <1>1, <1>3, <1>4
<1> QED
  BY <1>1, <1>2, <1>5 DEF Canonical2d, Pixel, Interior

(* The neighbours of such a pixel, too, are pixels of the image. *)
LEMMA StencilInside ==
  ASSUME NEW r \in 1 .. Rows - 2, NEW c \in 1 .. Cols - 2
  PROVE  Stencil(Canonical2d(r, c)) \subseteq Pixel
<1> DEFINE base == r * Cols
           size == Rows * Cols
<1>1. Rows \in Nat /\ Cols \in Nat /\ r \in Nat /\ c \in Nat
  BY ImageFilterAssumption
<1>2. base \in Nat /\ size \in Nat /\ base >= Cols /\ base <= size - 2 * Cols
  <2>1. base >= 1 * Cols
    BY <1>1
  <2>2. base <= (Rows - 2) * Cols
    BY <1>1
  <2>3. (Rows - 2) * Cols = size - 2 * Cols
    BY <1>1
  <2> QED
    BY <1>1, <2>1, <2>2, <2>3
<1> HIDE DEF base, size
<1> DEFINE mid == base + c
<1>3. /\ mid \in 0 .. size - 1 /\ mid - 1 \in 0 .. size - 1 /\ mid + 1 \in 0 .. size - 1
      /\ mid - Cols \in 0 .. size - 1 /\ mid + Cols \in 0 .. size - 1
  BY <1>1, <1>2
<1>4. Canonical2d(r, c) = mid /\ Pixel = 0 .. size - 1
  BY DEF Canonical2d, Pixel, base, size
<1>5. Stencil(mid) \subseteq 0 .. size - 1
  <2> HIDE DEF mid
  <2> QED
    BY ONLY <1>3 DEF Stencil
<1> QED
  BY ONLY <1>4, <1>5

(* Every row between the borders is dealt to a member of the team. *)
LEMMA RowsDealt ==
  ASSUME team \in Nat \ {0}, NEW r \in 1 .. Rows - 2
  PROVE  \E t \in Member : r \in Chunk(t)
<1> DEFINE t == ((r - 1) * team) \div (Rows - 2)
<1>1. Rows \in Nat /\ Rows - 2 \in Nat \ {0} /\ r - 1 \in Nat /\ r - 1 < Rows - 2
  BY ImageFilterAssumption
<1>2. (r - 1) * team \in Nat /\ (r - 1) * team < (Rows - 2) * team
  BY <1>1
<1>3. t \in Nat /\ t * (Rows - 2) <= (r - 1) * team
  BY <1>1, <1>2
<1>4. ASSUME t >= team PROVE FALSE
  <2> HIDE DEF t
  <2>1. t * (Rows - 2) >= team * (Rows - 2)
    BY <1>1, <1>3, <1>4
  <2> QED
    BY <1>1, <1>2, <1>3, <2>1
<1>5. t \in Member
  BY <1>3, <1>4 DEF Member
<1> QED
  BY <1>5 DEF Chunk

(* The next row of a thread's chunk. *)
LEMMA NextRow ==
  ASSUME NEW t, NEW last \in 0 .. Rows, {r \in Chunk(t) : r > last} # {}
  PROVE  LET rest == {r \in Chunk(t) : r > last}
             next == CHOOSE r \in rest : \A s \in rest : r <= s
         IN  next \in rest /\ \A s \in rest : next <= s
<1> DEFINE rest == {r \in Chunk(t) : r > last}
<1>1. rest \in SUBSET Nat
  BY ImageFilterAssumption DEF Chunk
<1>2. rest # {}
  OBVIOUS
<1>3. \E r \in rest : \A s \in rest : r <= s
  <2> HIDE DEF rest
  <2> QED
    BY <1>1, <1>2, LeastExists
<1> QED
  BY <1>3

---------------------------------------------------------------------------
(* What a run is started with does not change. *)
LEMMA SameRun ==
  ASSUME [ImageNext]_imageVars
  PROVE  /\ UNCHANGED runVars
         /\ KernelIter' = KernelIter /\ KernelReps' = KernelReps
         /\ DoubleBuffered' = DoubleBuffered /\ Member' = Member
         /\ \A t : Chunk(t)' = Chunk(t)
<1>1. UNCHANGED runVars
  BY DEF ImageNext, MainStep, ThreadStep, StartKernel, StartIteration, EndIteration,
         EndKernel, WriteOutput, FreeHeap, StartRow, TestColumn, Apply, ReadColumn,
         WriteColumn, UnchangedInLoop, imageVars
<1> QED
  BY <1>1 DEF runVars, KernelIter, KernelReps, DoubleBuffered, Member, Chunk

LEMMA ImageInitial == ImageInit => ImageInv
<1> SUFFICES ASSUME ImageInit PROVE ImageInv
  OBVIOUS
<1> USE DEF ImageInit
<1>1. ~Odd(0) /\ 0 \in 0 .. KernelReps /\ 0 \in 0 .. KernelIter /\ 0 \in Nat
  BY CountsArePositive DEF Odd
<1>2. BufferInv
  BY <1>1 DEF BufferInv
<1>3. ThreadInv /\ ColumnInv
  BY ImageFilterAssumption DEF ThreadInv, ColumnInv, Images
<1>4. BorderInv
  BY DEF BorderInv, Images
<1>5. ProgressInv
  BY DEF ProgressInv
<1>6. FilteredInv
  <2>1. Base = 0
    BY CountsArePositive DEF Base
  <2>2. Filtered(Base) = [p \in Pixel |-> 0]
    BY <2>1 DEF Filtered
  <2> QED
    BY <2>2 DEF FilteredInv
<1>7. team \in Nat \ {0} /\ jShared \in BOOLEAN /\ overlaid \in BOOLEAN
  <2>1. program = "host" => team = 1
    OBVIOUS
  <2>2. program # "host" => team \in Teams
    OBVIOUS
  <2>3. jShared \in BOOLEAN /\ overlaid \in BOOLEAN
    BY Zenon
  <2> QED
    BY <2>1, <2>2, <2>3, ImageFilterAssumption
<1> QED
  BY <1>2, <1>3, <1>4, <1>5, <1>6, <1>7 DEF ImageInv, OutputComplete

(* The images and buffers, by the steps of main() and the kernel. *)
LEMMA BufferStep == BufferInv /\ [ImageNext]_imageVars => BufferInv'
<1> SUFFICES ASSUME BufferInv, [ImageNext]_imageVars PROVE BufferInv'
  OBVIOUS
<1> USE SameRun, CountsArePositive DEF BufferInv, Goto, bufVars
<1>1. CASE StartKernel
  <2>1. ~Odd(0)
    BY DEF Odd
  <2> QED
    BY <1>1, <2>1 DEF StartKernel
<1>2. CASE StartIteration
  BY <1>2 DEF StartIteration
<1>3. CASE EndIteration
  <2>1. n \in Nat /\ n' = n + 1 /\ (Odd(n') <=> ~Odd(n))
    BY <1>3, OddStep DEF EndIteration
  <2> QED
    BY <1>3, <2>1 DEF EndIteration
<1>4. CASE EndKernel
  <2>1. rep \in Nat /\ rep' = rep + 1 /\ (Odd(rep') <=> ~Odd(rep))
    BY <1>4, OddStep DEF EndKernel
  <2>2. live' = {"heap"} /\ freedTwice' = FALSE
    BY <1>4 DEF EndKernel, Free
  <2> QED
    BY <1>4, <2>1, <2>2 DEF EndKernel
<1>5. CASE WriteOutput
  BY <1>5 DEF WriteOutput
<1>6. CASE FreeHeap
  BY <1>6 DEF FreeHeap, Free
<1>7. CASE \E t \in Member : ThreadStep(t)
  <2>1. UNCHANGED <<phase, rep, n, bufVars, live, freedTwice>>
    BY <1>7 DEF ThreadStep, StartRow, TestColumn, Apply, ReadColumn, WriteColumn, UnchangedInLoop
  <2> QED
    BY <2>1
<1>8. CASE UNCHANGED imageVars
  BY <1>8 DEF imageVars
<1> QED
  BY <1>1, <1>2, <1>3, <1>4, <1>5, <1>6, <1>7, <1>8 DEF ImageNext, MainStep

(* The threads, whose steps leave what main() and the kernel have set up. *)
LEMMA ThreadLeaves ==
  ASSUME NEW t \in Member, ThreadStep(t)
  PROVE  phase = "loop" /\ UnchangedInLoop
BY DEF ThreadStep, StartRow, TestColumn, Apply, ReadColumn, WriteColumn, ThreadGoto,
       UnchangedInLoop

LEMMA ThreadInvStep ==
  ASSUME ThreadInv, BufferInv, team \in Nat \ {0}, [ImageNext]_imageVars
  PROVE  ThreadInv'
<1>1. Member' = Member /\ Rows \in Nat \ {0} /\ 0 \in Member
  BY SameRun, ImageFilterAssumption DEF Member
<1> USE <1>1 DEF ThreadInv
<1>2. CASE StartKernel
  <2>1. imageIn \in Images /\ Place("block") \in Images
    BY DEF BufferInv, Images, Place
  <2> QED
    BY <1>2, <2>1 DEF StartKernel, loopVars
<1>3. CASE StartIteration
  BY <1>3 DEF StartIteration
<1>4. CASE EndIteration \/ EndKernel \/ WriteOutput \/ FreeHeap
  BY <1>4 DEF EndIteration, EndKernel, WriteOutput, FreeHeap, loopVars
<1>5. ASSUME NEW t \in Member, ThreadStep(t) PROVE ThreadInv'
  <2>1. Cell(t) \in Member
    BY DEF Cell
  <2>2. CASE StartRow(t)
    <3> DEFINE rest == {r \in Chunk(t) : r > row[t]}
               next == CHOOSE r \in rest : \A s \in rest : r <= s
    <3>1. CASE rest = {}
      BY <2>2, <3>1 DEF StartRow, ThreadGoto
    <3>2. CASE rest # {}
      <4>1. next \in rest
        BY <3>2, NextRow
      <4>2. /\ at' = [at EXCEPT ![t] = "test"] /\ row' = [row EXCEPT ![t] = next]
            /\ j' = [j EXCEPT ![Cell(t)] = 1] /\ UNCHANGED <<seen, pixels>>
        BY <2>2, <3>2 DEF StartRow, ThreadGoto
      <4>3. next \in 0 .. Rows
        BY <4>1 DEF Chunk
      <4> HIDE DEF next, rest
      <4> QED
        BY <2>1, <4>2, <4>3
    <3> QED
      BY <3>1, <3>2
  <2>3. CASE TestColumn(t) \/ ReadColumn(t) \/ WriteColumn(t)
    BY <2>1, <2>3 DEF TestColumn, ReadColumn, WriteColumn, ThreadGoto
  <2>4. CASE Apply(t)
    <3> DEFINE p == Canonical2d(row[t], j[Cell(t)])
    <3>1. /\ pixels' = [pixels EXCEPT ![Place(bufB)][p] = pixels[Place(bufA)][p] + 1]
          /\ at' = [at EXCEPT ![t] = "read"] /\ UNCHANGED <<row, j, seen>> /\ phase = "loop"
      BY <2>4 DEF Apply, ThreadGoto
    <3>2. Place(bufA) \in Images /\ Place(bufB) \in Images
      BY <3>1 DEF BufferInv, Images, Place
    <3>3. pixels' \in [Images -> [Pixel -> Nat]]
      <4> HIDE DEF p
      <4>1. CASE p \in Pixel
        BY <3>1, <3>2, <4>1
      <4>2. CASE p \notin Pixel
        BY <3>1, <3>2, <4>2
      <4> QED
        BY <4>1, <4>2
    <3> QED
      BY <3>1, <3>3 DEF Pixel
  <2> QED
    BY <1>5, <2>2, <2>3, <2>4 DEF ThreadStep
<1>6. CASE UNCHANGED imageVars
  BY <1>6 DEF imageVars, loopVars
<1> QED
  BY <1>2, <1>3, <1>4, <1>5, <1>6 DEF ImageNext, MainStep

LEMMA ThreadColumns ==
  ASSUME ThreadInv, ColumnInv, ~jShared, NEW t \in Member, ThreadStep(t), Member' = Member,
         \A u : Chunk(u)' = Chunk(u)
  PROVE  ColumnInv'
<1>1. phase = "loop" /\ phase' = "loop"
  BY ThreadLeaves DEF UnchangedInLoop
<1>2. Cell(t) = t
  BY DEF Cell
<1>3. Rows \in Nat \ {0} /\ Cols \in Nat \ {0}
  BY ImageFilterAssumption
<1>4. \A r \in Chunk(t) : r \in 1 .. Rows - 2
  BY DEF Chunk
<1> USE <1>1, <1>2, <1>3 DEF ThreadInv, ColumnInv, ThreadGoto
<1>5. CASE StartRow(t)
  <2> DEFINE rest == {r \in Chunk(t) : r > row[t]}
             next == CHOOSE r \in rest : \A s \in rest : r <= s
  <2>1. CASE rest = {}
    <3>1. \A r \in Chunk(t) : r <= row[t]
      BY <2>1, <1>4
    <3>2. at' = [at EXCEPT ![t] = "done"] /\ UNCHANGED <<row, j, seen>>
      BY <1>5, <2>1 DEF StartRow
    <3> QED
      BY <3>1, <3>2
  <2>2. CASE rest # {}
    <3>1. next \in rest
      BY <2>2, NextRow
    <3>2. /\ at' = [at EXCEPT ![t] = "test"] /\ row' = [row EXCEPT ![t] = next]
          /\ j' = [j EXCEPT ![t] = 1] /\ seen' = seen
      BY <1>5, <2>2 DEF StartRow
    <3>3. next \in Chunk(t) /\ next \in 0 .. Rows
      BY <3>1, <1>4
    <3> HIDE DEF next, rest
    <3> QED
      BY <3>2, <3>3
  <2> QED
    BY <2>1, <2>2
<1>6. CASE TestColumn(t)
  BY <1>6 DEF TestColumn
<1>7. CASE Apply(t)
  BY <1>7 DEF Apply
<1>8. CASE ReadColumn(t)
  BY <1>8 DEF ReadColumn
<1>9. CASE WriteColumn(t)
  <2>1. j' = [j EXCEPT ![t] = j[t] + 1] /\ at' = [at EXCEPT ![t] = "test"]
    BY <1>9 DEF WriteColumn
  <2>2. j[t] + 1 \in 1 .. Cols - 1 /\ row[t] \in Chunk(t)
    BY <1>9 DEF WriteColumn
  <2> QED
    BY <1>9, <2>1, <2>2 DEF WriteColumn
<1> QED
  BY <1>5, <1>6, <1>7, <1>8, <1>9 DEF ThreadStep

LEMMA ColumnStep ==
  ASSUME ThreadInv, ColumnInv, ~jShared, BufferInv, [ImageNext]_imageVars
  PROVE  ColumnInv'
<1> USE SameRun
<1>1. CASE StartIteration
  BY <1>1, ImageFilterAssumption DEF StartIteration, ThreadInv, ColumnInv, Goto
<1>2. CASE EndIteration
  BY <1>2 DEF EndIteration, ThreadInv, ColumnInv, Goto, loopVars
<1>3. CASE StartKernel \/ EndKernel \/ WriteOutput \/ FreeHeap
  BY <1>3 DEF StartKernel, EndKernel, WriteOutput, FreeHeap, ThreadInv, ColumnInv, Goto, loopVars
<1>4. CASE \E t \in Member : ThreadStep(t)
  BY <1>4, ThreadColumns
<1>5. CASE UNCHANGED imageVars
  BY <1>5 DEF imageVars, loopVars, ThreadInv, ColumnInv
<1> QED
  BY <1>1, <1>2, <1>3, <1>4, <1>5 DEF ImageNext, MainStep

(* Where a thread applies the filter: a pixel between the borders. *)
LEMMA AppliesInside ==
  ASSUME ThreadInv, ColumnInv, NEW t \in Member, at[t] \in {"call", "read", "write"}
  PROVE  Canonical2d(row[t], j[t]) \in Pixel /\ Canonical2d(row[t], j[t]) \in Interior
<1>1. row[t] \in 1 .. Rows - 2 /\ j[t] \in 1 .. Cols - 2
  BY DEF ThreadInv, ColumnInv, Chunk
<1> QED
  BY <1>1, InteriorPixel

(* What the other steps do with the pixels. *)
LEMMA PixelsElsewhere ==
  ASSUME [ImageNext]_imageVars
  PROVE  \/ UNCHANGED pixels
         \/ StartKernel
         \/ \E t \in Member : Apply(t)
BY DEF ImageNext, MainStep, ThreadStep, StartIteration, EndIteration,
       EndKernel, WriteOutput, FreeHeap, StartRow, TestColumn, ReadColumn,
       WriteColumn, imageVars

LEMMA BorderStep ==
  ASSUME BorderInv, BufferInv, ThreadInv, ColumnInv, ~jShared, [ImageNext]_imageVars
  PROVE  BorderInv'
<1>1. CASE UNCHANGED pixels
  BY <1>1 DEF ThreadInv, BorderInv
<1>2. CASE StartKernel
  <2>1. imageIn \in Images /\ Place("block") \in Images
    BY DEF BufferInv, Images, Place
  <2> QED
    BY <1>2, <2>1 DEF StartKernel, ThreadInv, BorderInv
<1>3. ASSUME NEW t \in Member, Apply(t) PROVE BorderInv'
  <2> DEFINE p == Canonical2d(row[t], j[t])
  <2>1. /\ pixels' = [pixels EXCEPT ![Place(bufB)][p] = pixels[Place(bufA)][p] + 1]
        /\ phase = "loop" /\ at[t] = "call"
    BY <1>3 DEF Apply, Cell, ThreadGoto
  <2>2. p \in Pixel /\ p \in Interior
    BY <2>1, AppliesInside
  <2>3. Place(bufA) \in Images /\ Place(bufB) \in Images
    BY <2>1 DEF BufferInv, Images, Place
  <2> HIDE DEF p
  <2> QED
    BY <2>1, <2>2, <2>3 DEF ThreadInv, BorderInv
<1> QED
  BY <1>1, <1>2, <1>3, PixelsElsewhere

---------------------------------------------------------------------------
(* A thread gets past a pixel by applying the filter to it, and in no other *)
(* way.                                                                     *)
LEMMA PassedStep ==
  ASSUME ThreadInv, ColumnInv, ~jShared, NEW t \in Member, ThreadStep(t),
         NEW u \in Member, NEW r \in Chunk(u), NEW c \in 1 .. Cols - 2,
         Passed(u, r, c)'
  PROVE  Passed(u, r, c) \/ (u = t /\ Apply(t) /\ r = row[t] /\ c = j[t])
<1>1. Cell(t) = t
  BY DEF Cell
<1>2. Rows \in Nat \ {0} /\ Cols \in Nat \ {0}
  BY ImageFilterAssumption
<1>3. r \in 1 .. Rows - 2
  BY DEF Chunk
<1>4. row[u] \in Nat /\ j[u] \in Nat /\ row[t] \in Nat /\ j[t] \in Nat
  BY <1>2 DEF ThreadInv, ColumnInv
<1>5. c < j[t] + 1 => c < j[t] \/ c = j[t]
  BY <1>2, <1>4
<1> USE <1>1, <1>2, <1>3, <1>4 DEF ThreadInv, ColumnInv, ThreadGoto, Passed
<1>6. CASE u # t
  <2>1. at'[u] = at[u] /\ row'[u] = row[u] /\ j'[u] = j[u]
    BY <1>6 DEF ThreadStep, StartRow, TestColumn, Apply, ReadColumn, WriteColumn
  <2> QED
    BY <2>1
<1>7. CASE u = t /\ StartRow(t)
  <2> DEFINE rest == {s \in Chunk(t) : s > row[t]}
             next == CHOOSE s \in rest : \A q \in rest : s <= q
  <2>1. at[t] = "row"
    BY <1>7 DEF StartRow
  <2>2. CASE rest = {}
    <3>1. row' = row /\ r <= row[t]
      BY <1>7, <2>2 DEF StartRow
    <3> QED
      BY <1>7, <2>1, <3>1
  <2>3. CASE rest # {}
    <3>1. next \in rest /\ \A s \in rest : next <= s
      BY <2>3, NextRow
    <3>2. /\ at' = [at EXCEPT ![t] = "test"] /\ row' = [row EXCEPT ![t] = next]
          /\ j' = [j EXCEPT ![t] = 1]
      BY <1>7, <2>3 DEF StartRow
    <3>3. next \in 1 .. Rows - 2 /\ (r > row[t] => r \in rest)
      BY <1>7, <3>1 DEF Chunk
    <3> HIDE DEF next
    <3>4. r < next
      BY <1>7, <3>2, <3>3
    <3>5. r <= row[t]
      BY <3>1, <3>3, <3>4
    <3> QED
      BY <1>7, <2>1, <3>5
  <2> QED
    BY <2>2, <2>3
<1>8. CASE u = t /\ TestColumn(t)
  <2>1. row' = row /\ j' = j /\ at[t] = "test"
        /\ at'[t] = IF j[t] < Cols - 1 THEN "call" ELSE "row"
    BY <1>8 DEF TestColumn
  <2> QED
    BY <1>8, <2>1
<1>9. CASE u = t /\ Apply(t)
  <2>1. row' = row /\ j' = j /\ at[t] = "call" /\ at'[t] = "read"
    BY <1>9 DEF Apply
  <2> QED
    BY <1>9, <2>1
<1>10. CASE u = t /\ ReadColumn(t)
  <2>1. row' = row /\ j' = j /\ at[t] = "read" /\ at'[t] = "write"
    BY <1>10 DEF ReadColumn
  <2> QED
    BY <1>10, <2>1
<1>11. CASE u = t /\ WriteColumn(t)
  <2>1. row' = row /\ j'[t] = j[t] + 1 /\ at[t] = "write" /\ at'[t] = "test"
    BY <1>11 DEF WriteColumn
  <2>2. r < row[t] \/ (r = row[t] /\ c < j[t] + 1)
    BY <1>11, <2>1
  <2> QED
    BY <1>11, <2>1, <2>2, <1>5
<1> QED
  BY <1>6, <1>7, <1>8, <1>9, <1>10, <1>11 DEF ThreadStep

(* Where the further image is apart, every buffer is an image of its own,   *)
(* and applying the filter to a pixel leaves the one it reads.              *)
LEMMA BuffersApart ==
  ASSUME BufferInv, ~overlaid, phase \in {"iterate", "loop"}
  PROVE  /\ bufA \in Images /\ bufB \in Images /\ bufA # bufB
         /\ Place(bufA) = bufA /\ Place(bufB) = bufB
BY DEF BufferInv, Images, Place

LEMMA ApplyOnce ==
  ASSUME BufferInv, ThreadInv, ColumnInv, BorderInv, ~jShared, ~overlaid,
         NEW t \in Member, Apply(t), UnchangedInLoop
  PROVE  /\ pixels'[bufA] = pixels[bufA]
         /\ \A q \in Pixel : q # Canonical2d(row[t], j[t]) => pixels'[bufB][q] = pixels[bufB][q]
         /\ pixels'[bufB][Canonical2d(row[t], j[t])] = pixels[bufA][Canonical2d(row[t], j[t])] + 1
<1> DEFINE p == Canonical2d(row[t], j[t])
<1>1. /\ pixels' = [pixels EXCEPT ![Place(bufB)][p] = pixels[Place(bufA)][p] + 1]
      /\ phase = "loop" /\ at[t] = "call"
  BY DEF Apply, Cell, ThreadGoto
<1>2. p \in Pixel
  BY <1>1, AppliesInside
<1>3. /\ bufA \in Images /\ bufB \in Images /\ bufA # bufB
      /\ Place(bufA) = bufA /\ Place(bufB) = bufB
  BY <1>1, BuffersApart
<1> HIDE DEF p
<1>4. /\ pixels'[bufA] = pixels[bufA]
      /\ \A q \in Pixel : q # p => pixels'[bufB][q] = pixels[bufB][q]
      /\ pixels'[bufB][p] = pixels[bufA][p] + 1
  BY <1>1, <1>2, <1>3 DEF ThreadInv, BorderInv
<1> QED
  BY <1>4 DEF p

LEMMA ProgressStep ==
  ASSUME ProgressInv, BufferInv, ThreadInv, ColumnInv, BorderInv, ~jShared, ~overlaid,
         [ImageNext]_imageVars
  PROVE  ProgressInv'
<1>1. CASE phase' # "loop"
  BY <1>1 DEF ProgressInv
<1>2. CASE StartIteration
  <2>1. \A t \in Member : at'[t] = "row" /\ row'[t] = 0
    BY <1>2 DEF StartIteration
  <2>2. \A t \in Member : \A r \in Chunk(t) : \A c \in 1 .. Cols - 2 : ~Passed(t, r, c)'
    BY <2>1, ImageFilterAssumption DEF Passed, Chunk
  <2> QED
    BY <2>2, SameRun DEF ProgressInv
<1>3. ASSUME NEW t \in Member, ThreadStep(t) PROVE ProgressInv'
  <2> SUFFICES ASSUME NEW u \in Member, NEW r \in Chunk(u), NEW c \in 1 .. Cols - 2,
                      Passed(u, r, c)'
               PROVE  pixels'[bufB][Canonical2d(r, c)] = pixels'[bufA][Canonical2d(r, c)] + 1
    BY <1>3, ThreadLeaves, SameRun DEF ProgressInv, UnchangedInLoop, bufVars, Canonical2d
  <2>1. phase = "loop" /\ UnchangedInLoop
    BY <1>3, ThreadLeaves
  <2>2. Passed(u, r, c) \/ (u = t /\ Apply(t) /\ r = row[t] /\ c = j[t])
    BY <1>3, PassedStep
  <2>3. Canonical2d(r, c) \in Pixel
    BY InteriorPixel DEF Chunk
  <2>4. CASE Apply(t)
    <3>1. Canonical2d(r, c) # Canonical2d(row[t], j[t]) => Passed(u, r, c)
      BY <2>2
    <3> HIDE DEF Canonical2d
    <3>2. Passed(u, r, c) => pixels[bufB][Canonical2d(r, c)] = pixels[bufA][Canonical2d(r, c)] + 1
      BY <2>1 DEF ProgressInv
    <3> QED
      BY <2>1, <2>3, <2>4, <3>1, <3>2, ApplyOnce
  <2>5. CASE ~Apply(t)
    <3>1. UNCHANGED pixels
      BY <1>3, <2>5 DEF ThreadStep, StartRow, TestColumn, ReadColumn, WriteColumn
    <3> QED
      BY <2>1, <2>2, <2>5, <3>1 DEF ProgressInv
  <2> QED
    BY <2>4, <2>5
<1>4. CASE UNCHANGED imageVars
  BY <1>4 DEF imageVars, loopVars, bufVars, runVars, ProgressInv, Passed, Chunk, Member,
              Canonical2d
<1> QED
  BY <1>1, <1>2, <1>3, <1>4
  DEF ImageNext, MainStep, Goto, StartKernel, EndIteration, EndKernel, WriteOutput, FreeHeap

---------------------------------------------------------------------------
(* When all threads are done the whole output of the iteration is filtered. *)
LEMMA AllPassed ==
  ASSUME ProgressInv, BufferInv, ThreadInv, ColumnInv, BorderInv, team \in Nat \ {0},
         ~overlaid, phase = "loop", \A t \in Member : at[t] = "done",
         NEW k \in Nat, pixels[bufA] = Filtered(k)
  PROVE  pixels[bufB] = Filtered(k + 1)
<1>1. bufA \in Images /\ bufB \in Images
  BY BuffersApart
<1>2. ASSUME NEW p \in Pixel, p \notin Interior PROVE pixels[bufB][p] = 0
  BY <1>1, <1>2 DEF ThreadInv, BorderInv
<1>3. ASSUME NEW p \in Pixel, p \in Interior PROVE pixels[bufB][p] = k + 1
  <2>1. PICK r \in 1 .. Rows - 2, c \in 1 .. Cols - 2 : p = Canonical2d(r, c)
    BY <1>3 DEF Interior
  <2>2. PICK t \in Member : r \in Chunk(t)
    BY RowsDealt
  <2>3. Passed(t, r, c)
    <3>1. r \in Nat /\ row[t] \in Nat /\ r <= row[t]
      BY <2>2, ImageFilterAssumption DEF ThreadInv, ColumnInv
    <3> QED
      BY <3>1 DEF Passed
  <2>4. pixels[bufB][p] = pixels[bufA][p] + 1
    BY <2>1, <2>2, <2>3 DEF ProgressInv
  <2>5. pixels[bufA][p] = k
    BY <1>3 DEF Filtered
  <2> QED
    BY <2>4, <2>5
<1>4. pixels[bufB] \in [Pixel -> Nat]
  BY <1>1 DEF ThreadInv, BorderInv
<1>5. Filtered(k + 1) \in [Pixel -> Nat]
  BY DEF Filtered
<1> QED
  BY <1>2, <1>3, <1>4, <1>5 DEF Filtered

LEMMA BaseIsNumber == BufferInv => Base \in Nat
<1>1. BufferInv => rep \in Nat
  BY CountsArePositive DEF BufferInv
<1> QED
  BY <1>1, CountsArePositive DEF Base

(* The filter has been applied as often as the kernels have run. *)
LEMMA FilteredStep ==
  ASSUME FilteredInv, ProgressInv, BufferInv, ThreadInv, ColumnInv, BorderInv, ~jShared, ~overlaid,
         team \in Nat \ {0}, DoubleBuffered => Odd(KernelIter), [ImageNext]_imageVars
  PROVE  FilteredInv'
<1>1. rep \in Nat /\ n \in Nat /\ Base \in Nat
  BY CountsArePositive, BaseIsNumber DEF BufferInv
<1>2. DoubleBuffered' = DoubleBuffered /\ KernelIter' = KernelIter /\ KernelIter \in Nat \ {0}
  BY SameRun, CountsArePositive
<1>3. \A k : Filtered(k)' = Filtered(k)
  BY DEF Filtered, Pixel, Interior, Canonical2d
<1>4. rep' = rep => Base' = Base
  BY <1>2 DEF Base
<1>5. CASE StartKernel
  <2>1. rep' = rep /\ n' = 0 /\ phase = "repeat" /\ phase' = "iterate"
    BY <1>5 DEF StartKernel, Goto
  <2>2. pixels[imageIn] = Filtered(Base) /\ imageIn \in Images /\ Base + 0 = Base
    BY <1>1, <2>1 DEF FilteredInv, BufferInv, Images
  <2>3. pixels'[bufA'] = Filtered(Base)
    <3>1. CASE DoubleBuffered
      <4>1. bufA' = "block" /\ pixels' = [pixels EXCEPT !["block"] = pixels[imageIn]]
        BY <1>5, <3>1 DEF StartKernel, Place
      <4> QED
        BY <2>2, <4>1 DEF ThreadInv, BorderInv, Images
    <3>2. CASE ~DoubleBuffered
      BY <1>5, <2>2, <3>2 DEF StartKernel
    <3> QED
      BY <3>1, <3>2
  <2> QED
    BY <1>2, <1>3, <1>4, <2>1, <2>2, <2>3 DEF FilteredInv
<1>6. CASE StartIteration
  BY <1>2, <1>3, <1>4, <1>6 DEF StartIteration, Goto, bufVars, FilteredInv
<1>7. CASE EndIteration
  <2>1. /\ phase = "loop" /\ phase' = "iterate" /\ n' = n + 1 /\ rep' = rep
        /\ UNCHANGED <<pixels, imageIn, imageOut>>
        /\ \A t \in Member : at[t] = "done"
    BY <1>7 DEF EndIteration, Goto
  <2>2. CASE DoubleBuffered
    <3>1. bufA' = bufB /\ pixels[bufA] = Filtered(Base + n)
      BY <1>7, <2>1, <2>2 DEF EndIteration, FilteredInv
    <3>2. pixels[bufB] = Filtered((Base + n) + 1)
      BY <1>1, <2>1, <3>1, AllPassed
    <3>3. (Base + n) + 1 = Base + n'
      BY <1>1, <2>1
    <3> QED
      BY <1>2, <1>3, <1>4, <2>1, <2>2, <3>1, <3>2, <3>3 DEF FilteredInv
  <2>3. CASE ~DoubleBuffered
    <3>1. bufA' = bufA /\ pixels[bufA] = Filtered(Base) /\ bufB = imageOut
      BY <1>7, <2>1, <2>3 DEF EndIteration, FilteredInv, BufferInv
    <3>2. pixels[bufB] = Filtered(Base + 1)
      BY <1>1, <2>1, <3>1, AllPassed
    <3> QED
      BY <1>2, <1>3, <1>4, <2>1, <2>3, <3>1, <3>2 DEF FilteredInv
  <2> QED
    BY <2>2, <2>3
<1>8. CASE EndKernel
  <2>1. /\ phase = "iterate" /\ phase' = "repeat" /\ n = KernelIter /\ rep' = rep + 1
        /\ imageIn' = imageOut /\ UNCHANGED pixels
    BY <1>8 DEF EndKernel, Goto
  <2>2. CASE DoubleBuffered
    <3>1. bufA = imageOut /\ pixels[bufA] = Filtered(Base + n)
      BY <2>1, <2>2 DEF BufferInv, FilteredInv
    <3>2. Base' = Base + n
      BY <1>1, <1>2, <2>1, <2>2 DEF Base
    <3> QED
      BY <1>3, <2>1, <3>1, <3>2 DEF FilteredInv
  <2>3. CASE ~DoubleBuffered
    <3>1. pixels[imageOut] = Filtered(Base + 1)
      BY <1>1, <1>2, <2>1, <2>3 DEF FilteredInv
    <3>2. Base' = Base + 1
      BY <1>1, <1>2, <2>1, <2>3 DEF Base
    <3> QED
      BY <1>3, <2>1, <3>1, <3>2 DEF FilteredInv
  <2> QED
    BY <2>2, <2>3
<1>9. CASE WriteOutput \/ FreeHeap
  BY <1>9 DEF WriteOutput, FreeHeap, Goto, FilteredInv
<1>10. ASSUME NEW t \in Member, ThreadStep(t) PROVE FilteredInv'
  <2>1. phase = "loop" /\ UnchangedInLoop
    BY <1>10, ThreadLeaves
  <2>2. pixels'[bufA] = pixels[bufA]
    <3>1. CASE Apply(t)
      BY <2>1, <3>1, ApplyOnce
    <3>2. CASE ~Apply(t)
      BY <1>10, <3>2 DEF ThreadStep, StartRow, TestColumn, ReadColumn, WriteColumn
    <3> QED
      BY <3>1, <3>2
  <2> QED
    BY <1>2, <1>3, <1>4, <2>1, <2>2 DEF FilteredInv, UnchangedInLoop, bufVars
<1>11. CASE UNCHANGED imageVars
  BY <1>2, <1>3, <1>4, <1>11 DEF imageVars, bufVars, FilteredInv
<1> QED
  BY <1>5, <1>6, <1>7, <1>8, <1>9, <1>10, <1>11 DEF ImageNext, MainStep

---------------------------------------------------------------------------
(* What is written is the output of the last repetition, which the swap has *)
(* made the input. *)
LEMMA OutputStep ==
  ASSUME ImageInv, [ImageNext]_imageVars
  PROVE  OutputComplete' /\ (output' = <<>> \/ output' \in [Pixel -> Nat])
<1>1. CASE WriteOutput
  <2>1. phase = "repeat" /\ rep = KernelReps /\ output' = pixels["heap_out"]
    BY <1>1 DEF WriteOutput, Goto
  <2>2. output' \in [Pixel -> Nat]
    BY <2>1 DEF ImageInv, ThreadInv, Images
  <2>3. ASSUME ~jShared, ~overlaid, Odd(KernelReps), DoubleBuffered => Odd(KernelIter)
        PROVE  output' = Filtered(Base)
    BY <2>1, <2>3 DEF ImageInv, BufferInv, FilteredInv
  <2>4. Base = KernelReps * (IF DoubleBuffered THEN KernelIter ELSE 1)
    BY <2>1 DEF Base
  <2>5. ASSUME ~jShared, ~overlaid, Odd(KernelReps), DoubleBuffered => Odd(KernelIter)
        PROVE  output' = [p \in Pixel |-> IF p \notin Interior THEN 0
                            ELSE KernelReps * (IF DoubleBuffered THEN KernelIter ELSE 1)]
    BY <2>3, <2>4, <2>5 DEF Filtered
  <2>6. UNCHANGED runVars /\ KernelIter' = KernelIter /\ KernelReps' = KernelReps
        /\ DoubleBuffered' = DoubleBuffered
    BY SameRun
  <2> QED
    BY <2>2, <2>5, <2>6 DEF OutputComplete, runVars, Odd, Pixel, Interior, Canonical2d
<1>2. CASE ~WriteOutput
  <2>1. output' = output
    BY <1>2 DEF ImageNext, MainStep, ThreadStep, StartKernel, StartIteration, EndIteration,
         EndKernel, FreeHeap, StartRow, TestColumn, Apply, ReadColumn,
         WriteColumn, UnchangedInLoop, imageVars
  <2>2. UNCHANGED runVars /\ KernelIter' = KernelIter /\ KernelReps' = KernelReps
        /\ DoubleBuffered' = DoubleBuffered
    BY SameRun
  <2> QED
    BY <2>1, <2>2
    DEF ImageInv, OutputComplete, runVars, Odd, Pixel, Interior, Canonical2d
<1> QED
  BY <1>1, <1>2

LEMMA ImageStep == ImageInv /\ [ImageNext]_imageVars => ImageInv'
<1> SUFFICES ASSUME ImageInv, [ImageNext]_imageVars PROVE ImageInv'
  OBVIOUS
<1>1. UNCHANGED runVars /\ DoubleBuffered' = DoubleBuffered /\ Odd(KernelIter)' = Odd(KernelIter)
  BY SameRun DEF Odd
<1>2. BufferInv'
  BY BufferStep DEF ImageInv
<1>3. ~jShared => ColumnInv' /\ BorderInv'
  BY ColumnStep, BorderStep DEF ImageInv
<1>4. ~jShared /\ ~overlaid => ProgressInv'
  BY ProgressStep DEF ImageInv
<1>5. ~jShared /\ ~overlaid /\ (DoubleBuffered => Odd(KernelIter)) => FilteredInv'
  BY FilteredStep DEF ImageInv
<1>6. (output' = <<>> \/ output' \in [Pixel -> Nat]) /\ OutputComplete'
  BY OutputStep
<1>7. ThreadInv'
  BY ThreadInvStep DEF ImageInv
<1> QED
  BY <1>1, <1>2, <1>3, <1>4, <1>5, <1>6, <1>7 DEF ImageInv, runVars, Pixel

LEMMA ImageSafe == ImageInv => FilterSafe
<1> SUFFICES ASSUME ImageInv PROVE ImageTypeOK /\ FilterStaysInside /\ MemoryFreed
  BY DEF FilterSafe
<1>1. MemoryFreed
  BY DEF ImageInv, BufferInv, MemoryFreed
<1>2. FilterStaysInside
  <2> SUFFICES ASSUME ~jShared, NEW t \in Member, at[t] = "call"
               PROVE  /\ Canonical2d(row[t], j[t]) \in Interior
                      /\ Stencil(Canonical2d(row[t], j[t])) \subseteq Pixel
    BY DEF FilterStaysInside
  <2>1. row[t] \in 1 .. Rows - 2 /\ j[t] \in 1 .. Cols - 2
    BY DEF ImageInv, ThreadInv, ColumnInv, Chunk
  <2> QED
    BY <2>1, InteriorPixel, StencilInside
<1>3. ImageTypeOK
  <2>1. /\ {imageIn, imageOut} = {"heap_in", "heap_out"}
        /\ {bufA, bufB} \subseteq {"heap_in", "heap_out", "block", NoImage}
        /\ live \subseteq {"heap", "block"} /\ freedTwice \in BOOLEAN
    BY DEF ImageInv, BufferInv
  <2>2. \A i \in DOMAIN pixels : pixels[i] \in [Pixel -> Nat]
    BY DEF ImageInv, ThreadInv
  <2> QED
    BY <2>1, <2>2 DEF ImageInv, ImageTypeOK, BufferInv, ThreadInv
<1> QED
  BY <1>1, <1>2, <1>3

(* Where every thread has its own j, the further image is apart and the     *)
(* numbers are odd, the file holds the image filtered by every iteration of *)
(* every repetition, once at each pixel between the borders, whatever the   *)
(* image's size, the team and the command line.                             *)
THEOREM OutputIsComplete == ImageSpec => []OutputComplete
<1>1. ImageInv => OutputComplete
  BY DEF ImageInv
<1> QED
  BY <1>1, ImageInitial, ImageStep, PTL DEF ImageSpec

(* The filter reads and writes pixels of the images only, whatever their    *)
(* size and the team, unless the build shares j; and the further image is   *)
(* freed once, and by its kernel, even if it does.                          *)
THEOREM FilterIsSafe == ImageSpec => []FilterSafe
<1> QED
  BY ImageSafe, ImageInitial, ImageStep, PTL DEF ImageSpec

---------------------------------------------------------------------------
(* A function that is defined by itself at larger arguments exists. *)
LEMMA DownwardRecursion ==
  ASSUME NEW L \in Nat, NEW stop \in [1 .. L -> BOOLEAN], NEW val \in [1 .. L -> Nat],
         NEW to \in [1 .. L -> Nat],
         \A k \in 1 .. L : ~stop[k] => to[k] \in k + 1 .. L
  PROVE  \E f : \A k \in 1 .. L : f[k] = IF stop[k] THEN val[k] ELSE f[to[k]]
<1> DEFINE From(d) == (L + 1) - d .. L
           Good(d) == \E f : f = [k \in From(d) |-> IF stop[k] THEN val[k] ELSE f[to[k]]]
           Bad == {d \in 0 .. L : ~Good(d)}
<1>1. Good(0)
  <2>1. From(0) = {}
    OBVIOUS
  <2> DEFINE f == [k \in From(0) |-> val[k]]
  <2>2. f = [k \in From(0) |-> IF stop[k] THEN val[k] ELSE f[to[k]]]
    BY <2>1
  <2> QED
    BY <2>2
<1>2. ASSUME NEW d \in 0 .. L - 1, Good(d) PROVE Good(d + 1)
  <2> DEFINE m == L - d
  <2>1. PICK f : f = [k \in From(d) |-> IF stop[k] THEN val[k] ELSE f[to[k]]]
    BY <1>2
  <2>2. /\ m \in 1 .. L /\ m \in From(d + 1) /\ m \notin From(d)
        /\ From(d + 1) = From(d) \union {m} /\ From(d) \subseteq 1 .. L
    OBVIOUS
  <2> DEFINE g == [k \in From(d + 1) |->
                     IF k = m THEN IF stop[k] THEN val[k] ELSE f[to[k]] ELSE f[k]]
  <2>3. ASSUME NEW k \in From(d + 1) PROVE g[k] = IF stop[k] THEN val[k] ELSE g[to[k]]
    <3>1. k \in 1 .. L /\ (~stop[k] => to[k] \in From(d))
      BY <2>2
    <3>2. \A i \in From(d) : g[i] = f[i]
      BY <2>2
    <3>3. CASE k = m
      BY <3>1, <3>2, <3>3
    <3>4. CASE k # m
      <4>1. k \in From(d)
        BY <2>2, <3>4
      <4> HIDE DEF g
      <4>2. g[k] = IF stop[k] THEN val[k] ELSE f[to[k]]
        BY <2>1, <3>2, <4>1
      <4> QED
        BY <3>1, <3>2, <4>2
    <3> QED
      BY <3>3, <3>4
  <2>4. g = [k \in From(d + 1) |-> IF stop[k] THEN val[k] ELSE g[to[k]]]
    BY <2>3
  <2> QED
    BY <2>4
<1>3. Bad = {}
  <2> SUFFICES ASSUME Bad # {} PROVE FALSE
    OBVIOUS
  <2>1. PICK d \in Bad : \A e \in Bad : d <= e
    <3>1. Bad \in SUBSET Nat
      OBVIOUS
    <3> HIDE DEF Bad
    <3> QED
      BY <3>1, LeastExists
  <2> HIDE DEF Good
  <2>2. d \in 1 .. L /\ d - 1 \notin Bad
    BY <1>1, <2>1
  <2>3. Good(d - 1) /\ d - 1 \in 0 .. L - 1 /\ (d - 1) + 1 = d
    BY <2>2
  <2> QED
    BY <1>2, <2>1, <2>3
<1>4. Good(L)
  <2> HIDE DEF Good
  <2> QED
    BY <1>3
<1>5. From(L) = 1 .. L
  OBVIOUS
<1> QED
  <2>1. PICK f : f = [k \in From(L) |-> IF stop[k] THEN val[k] ELSE f[to[k]]]
    BY <1>4
  <2>2. \A k \in 1 .. L : f[k] = IF stop[k] THEN val[k] ELSE f[to[k]]
    BY <2>1, <1>5
  <2> QED
    BY <2>2

---------------------------------------------------------------------------
(* The least of a set of numbers is where a search ends. *)
LEMMA MinIs ==
  ASSUME NEW S \in SUBSET Nat, NEW k \in S, \A i \in S : k <= i
  PROVE  Min(S) = k
<1>1. \E i \in S : \A e \in S : i <= e
  OBVIOUS
<1>2. Min(S) \in S /\ \A i \in S : Min(S) <= i
  BY <1>1 DEF Min
<1>3. Min(S) \in Nat /\ k \in Nat /\ Min(S) <= k /\ k <= Min(S)
  BY <1>2
<1> QED
  BY <1>3

LEMMA MinIn ==
  ASSUME NEW S \in SUBSET Nat, S # {}
  PROVE  Min(S) \in S /\ \A i \in S : Min(S) <= i
BY LeastExists DEF Min

(* Where blanks, a line and comments are skipped to. *)
LEMMA SkipBlanksRange ==
  ASSUME file \in Seq(Int), NEW from \in 1 .. Len(file) + 1
  PROVE  /\ SkipBlanks(from) \in from .. Len(file) + 1
         /\ SkipBlanks(from) <= Len(file) => ItemAt(SkipBlanks(from)) \notin White
         /\ \A i \in from .. SkipBlanks(from) - 1 : ItemAt(i) \in White
<1> DEFINE S == {k \in from .. Len(file) + 1 : ItemAt(k) \notin White} \union {Len(file) + 1}
<1>1. Len(file) \in Nat
  OBVIOUS
<1>2. S \in SUBSET Nat /\ S # {} /\ \A k \in S : k \in from .. Len(file) + 1
  BY <1>1
<1>3. Min(S) \in S /\ \A i \in S : Min(S) <= i
  <2> HIDE DEF S
  <2> QED
    BY <1>2, MinIn
<1>8. Min(S) \in from .. Len(file) + 1
  BY <1>2, <1>3
<1>4. \A i \in from .. Min(S) - 1 : i \notin S /\ i \in from .. Len(file) + 1
  <2> HIDE DEF S
  <2> QED
    BY <1>1, <1>3, <1>8
<1>5. SkipBlanks(from) = Min(S)
  BY DEF SkipBlanks
<1>6. \A i \in from .. Min(S) - 1 : ItemAt(i) \in White
  BY <1>4
<1>7. Min(S) <= Len(file) => ItemAt(Min(S)) \notin White
  BY <1>1, <1>3
<1> HIDE DEF S
<1> QED
  BY <1>8, <1>5, <1>6, <1>7

LEMMA SkipLineRange ==
  ASSUME file \in Seq(Int), NEW from \in 1 .. Len(file)
  PROVE  SkipLine(from) \in from + 1 .. Len(file) + 1
<1> DEFINE S == {k \in from .. Len(file) : file[k] = Newline} \union {Len(file)}
<1>1. Len(file) \in Nat
  OBVIOUS
<1>2. S \in SUBSET Nat /\ S # {} /\ \A k \in S : k \in from .. Len(file)
  BY <1>1
<1>3. Min(S) \in S
  <2> HIDE DEF S
  <2> QED
    BY <1>2, MinIn
<1>4. SkipLine(from) = Min(S) + 1
  BY DEF SkipLine
<1> HIDE DEF S
<1>5. Min(S) \in from .. Len(file)
  BY <1>2, <1>3
<1> QED
  BY <1>1, <1>4, <1>5

LEMMA SkipCommentsIs ==
  ASSUME file \in Seq(Int), NEW from \in 1 .. Len(file) + 1
  PROVE  SkipComments(from) = IF ItemAt(SkipBlanks(from)) = Hash
                              THEN SkipComments(SkipLine(SkipBlanks(from)))
                              ELSE SkipBlanks(from)
<1> DEFINE L == Len(file) + 1
           stop == [k \in 1 .. L |-> ItemAt(SkipBlanks(k)) # Hash]
           val == [k \in 1 .. L |-> SkipBlanks(k)]
           to == [k \in 1 .. L |-> IF ItemAt(SkipBlanks(k)) = Hash
                                THEN SkipLine(SkipBlanks(k)) ELSE 0]
           Is(f) == f = [k \in 1 .. L |-> IF ItemAt(SkipBlanks(k)) = Hash
                                          THEN f[SkipLine(SkipBlanks(k))] ELSE SkipBlanks(k)]
           skip == CHOOSE f : Is(f)
<1>1. L \in Nat /\ Len(file) \in Nat
  OBVIOUS
<1>2. ASSUME NEW k \in 1 .. L, ItemAt(SkipBlanks(k)) = Hash
      PROVE  SkipLine(SkipBlanks(k)) \in k + 1 .. L
  <2>1. SkipBlanks(k) \in k .. L
    BY SkipBlanksRange
  <2>2. SkipBlanks(k) \in DOMAIN file
    BY <1>2 DEF ItemAt, Hash, EOF
  <2>3. SkipBlanks(k) \in 1 .. Len(file)
    BY <2>2
  <2>4. SkipLine(SkipBlanks(k)) \in SkipBlanks(k) + 1 .. Len(file) + 1
    BY <2>3, SkipLineRange
  <2> QED
    BY <1>1, <2>1, <2>3, <2>4
<1>3. \E f : \A k \in 1 .. L : f[k] = IF stop[k] THEN val[k] ELSE f[to[k]]
  <2>1. \A k \in 1 .. L : ~stop[k] => to[k] \in k + 1 .. L
    BY <1>2
  <2>2. /\ stop \in [1 .. L -> BOOLEAN] /\ val \in [1 .. L -> Nat]
        /\ to \in [1 .. L -> Nat]
    <3>1. \A k \in 1 .. L : SkipBlanks(k) \in Nat
      BY <1>1, SkipBlanksRange
    <3>2. \A k \in 1 .. L : ItemAt(SkipBlanks(k)) = Hash => SkipLine(SkipBlanks(k)) \in Nat
      BY <1>1, <1>2
    <3> QED
      BY <3>1, <3>2
  <2> HIDE DEF stop, val, to, L
  <2> QED
    BY <1>1, <2>1, <2>2, DownwardRecursion
<1>4. \E f : Is(f)
  <2>1. PICK f : \A k \in 1 .. L : f[k] = IF stop[k] THEN val[k] ELSE f[to[k]]
    BY <1>3
  <2> DEFINE g == [k \in 1 .. L |-> f[k]]
  <2>2. ASSUME NEW k \in 1 .. L
        PROVE  g[k] = IF ItemAt(SkipBlanks(k)) = Hash
                      THEN g[SkipLine(SkipBlanks(k))] ELSE SkipBlanks(k)
    <3>1. CASE ItemAt(SkipBlanks(k)) = Hash
      <4>1. SkipLine(SkipBlanks(k)) \in 1 .. L
        BY <1>1, <1>2, <3>1
      <4> QED
        BY <2>1, <3>1, <4>1
    <3>2. CASE ItemAt(SkipBlanks(k)) # Hash
      BY <2>1, <3>2
    <3> QED
      BY <3>1, <3>2
  <2>3. Is(g)
    BY <2>2
  <2> QED
    BY <2>3
<1>5. Is(skip)
  <2> HIDE DEF Is
  <2> QED
    BY <1>4
<1>6. \A k \in 1 .. L : SkipComments(k) = skip[k]
  BY DEF SkipComments
<1>7. ItemAt(SkipBlanks(from)) = Hash => SkipLine(SkipBlanks(from)) \in 1 .. L
  BY <1>1, <1>2
<1> HIDE DEF skip
<1> QED
  BY <1>5, <1>6, <1>7

LEMMA HashInside ==
  ASSUME file \in Seq(Int), NEW from \in 1 .. Len(file) + 1, ItemAt(SkipBlanks(from)) = Hash
  PROVE  /\ SkipBlanks(from) \in from .. Len(file)
         /\ SkipLine(SkipBlanks(from)) \in SkipBlanks(from) + 1 .. Len(file) + 1
<1>1. SkipBlanks(from) \in from .. Len(file) + 1 /\ Len(file) \in Nat
  BY SkipBlanksRange
<1>2. SkipBlanks(from) \in DOMAIN file
  BY DEF ItemAt, Hash, EOF
<1>3. SkipBlanks(from) \in 1 .. Len(file)
  BY <1>2
<1> QED
  BY <1>1, <1>3, SkipLineRange

(* However the comments lie, the search goes forward and ends in the file   *)
(* or behind it.                                                            *)
LEMMA SkipCommentsRange ==
  ASSUME file \in Seq(Int), NEW from \in 1 .. Len(file) + 1
  PROVE  SkipComments(from) \in SkipBlanks(from) .. Len(file) + 1
<1> DEFINE L == Len(file) + 1
           Inside(k) == SkipComments(k) \in SkipBlanks(k) .. L
           Bad == {d \in 0 .. L - 1 : ~Inside(L - d)}
<1>1. L \in Nat /\ Len(file) \in Nat
  OBVIOUS
<1>2. ASSUME NEW k \in 1 .. L, \A i \in k + 1 .. L : Inside(i) PROVE Inside(k)
  <2>1. SkipBlanks(k) \in k .. L
    BY SkipBlanksRange
  <2>2. CASE ItemAt(SkipBlanks(k)) = Hash
    <3> DEFINE next == SkipLine(SkipBlanks(k))
    <3>1. next \in SkipBlanks(k) + 1 .. L
      BY <2>2, HashInside
    <3>2. next \in k + 1 .. L
      BY <1>1, <2>1, <3>1
    <3>3. SkipComments(next) \in SkipBlanks(next) .. L
      BY <1>2, <3>2
    <3>4. SkipBlanks(next) \in next .. L
      BY <1>1, <3>2, SkipBlanksRange
    <3>5. SkipComments(k) = SkipComments(next)
      BY <2>2, SkipCommentsIs
    <3> HIDE DEF next
    <3> QED
      BY <1>1, <2>1, <3>1, <3>3, <3>4, <3>5
  <2>3. CASE ItemAt(SkipBlanks(k)) # Hash
    <3>1. SkipComments(k) = SkipBlanks(k)
      BY <2>3, SkipCommentsIs
    <3> QED
      BY <2>1, <3>1
  <2> QED
    BY <2>2, <2>3
<1>3. Bad = {}
  <2> SUFFICES ASSUME Bad # {} PROVE FALSE
    OBVIOUS
  <2> HIDE DEF Inside
  <2>1. PICK d \in Bad : \A e \in Bad : d <= e
    <3>1. Bad \in SUBSET Nat
      BY <1>1
    <3> HIDE DEF Bad
    <3> QED
      BY <3>1, LeastExists
  <2>2. ASSUME NEW i \in (L - d) + 1 .. L PROVE Inside(i)
    <3>1. L - i \in 0 .. L - 1 /\ L - i < d /\ L - (L - i) = i
      BY <1>1, <2>1
    <3>2. L - i \notin Bad
      BY <1>1, <2>1, <3>1
    <3> QED
      BY <3>1, <3>2
  <2>3. L - d \in 1 .. L
    BY <1>1, <2>1
  <2> QED
    BY <1>2, <2>1, <2>2, <2>3
<1>4. from = L - (L - from) /\ L - from \in 0 .. L - 1
  BY <1>1
<1> HIDE DEF Inside
<1> QED
  <2>1. Inside(from)
    BY <1>3, <1>4
  <2> QED
    BY <2>1 DEF Inside

---------------------------------------------------------------------------
(* A word of the header, e, in the items f: at most a comment lies between  *)
(* it and the separator at p.                                               *)
WordAt(f, p, e, x) ==
  /\ e + 1 \in 1 .. Len(f)
  /\ f[p] \in {Blank, Newline} /\ f[e] = Word(x) /\ f[e + 1] \in {Blank, Newline}
  /\ \/ e = p + 1
     \/ /\ e = p + 5
        /\ f[p + 1] = Hash /\ f[p + 4] = Newline
        /\ f[p + 2] # Newline /\ f[p + 3] # Newline

(* Blanks are skipped to the first item that is none. *)
LEMMA BlanksEnd ==
  ASSUME file \in Seq(Int), NEW from \in Nat \ {0}, NEW e \in from .. Len(file),
         file[e] \notin White, \A i \in from .. e - 1 : file[i] \in White
  PROVE  SkipBlanks(from) = e
<1> DEFINE S == {k \in from .. Len(file) + 1 : ItemAt(k) \notin White} \union {Len(file) + 1}
<1>1. Len(file) \in Nat
  OBVIOUS
<1>2. \A k \in 1 .. Len(file) : ItemAt(k) = file[k]
  BY DEF ItemAt
<1>3. e \in 1 .. Len(file) /\ e \in from .. Len(file) + 1
  BY <1>1
<1>4. S \in SUBSET Nat /\ e \in S
  BY <1>1, <1>2, <1>3
<1>5. ASSUME NEW k \in S, k < e PROVE FALSE
  <2>1. k \in from .. e - 1 /\ k \in 1 .. Len(file)
    BY <1>1, <1>3, <1>5
  <2>2. ItemAt(k) \notin White
    BY <1>1, <1>5, <2>1
  <2> QED
    BY <1>2, <2>1, <2>2
<1>6. Min(S) = e
  <2> HIDE DEF S
  <2>1. \A k \in S : e <= k
    BY <1>3, <1>4, <1>5
  <2> QED
    BY <1>4, <2>1, MinIs
<1> QED
  BY <1>6 DEF SkipBlanks

LEMMA SkipToWord ==
  ASSUME file \in Seq(Int), NEW p \in Nat \ {0}, NEW e, NEW x \in Nat, WordAt(file, p, e, x)
  PROVE  SkipComments(p) = e
<1>1. /\ Len(file) \in Nat /\ e \in Nat
      /\ p \in 1 .. Len(file) /\ e \in 1 .. Len(file) /\ e + 1 \in 1 .. Len(file)
  BY DEF WordAt
<1>2. \A k \in 1 .. Len(file) : ItemAt(k) = file[k]
  BY DEF ItemAt
<1>3. file[e] \notin White /\ file[e] # Hash /\ file[p] \in White
  <2>1. file[e] = 1000 + x /\ file[p] \in {Blank, Newline}
    BY DEF WordAt, Word
  <2>2. file[e] \notin White /\ file[e] # Hash
    BY ONLY <2>1, x \in Nat DEF White, Blank, Newline, Hash
  <2> QED
    BY <2>1, <2>2 DEF White
<1>4. SkipComments(e) = e
  <2>1. SkipBlanks(e) = e
    <3>1. \A i \in e .. e - 1 : file[i] \in White
      BY <1>1
    <3> QED
      BY <1>1, <1>3, <3>1, BlanksEnd
  <2> QED
    BY <1>1, <1>2, <1>3, <2>1, SkipCommentsIs
<1>5. CASE e = p + 1
  <2>1. SkipBlanks(p) = e
    <3>1. \A i \in p .. e - 1 : i = p
      BY <1>1, <1>5
    <3>2. e \in p .. Len(file)
      BY <1>1, <1>5
    <3> QED
      BY <1>3, <3>1, <3>2, BlanksEnd
  <2>2. p \in 1 .. Len(file) + 1
    BY <1>1
  <2> QED
    BY <1>1, <1>2, <1>3, <2>1, <2>2, SkipCommentsIs
<1>6. CASE e = p + 5
  <2>1. /\ file[p + 1] = Hash /\ file[p + 4] = Newline
        /\ file[p + 2] # Newline /\ file[p + 3] # Newline
    BY <1>1, <1>6 DEF WordAt
  <2>2. p + 1 \in 1 .. Len(file) /\ p + 4 \in 1 .. Len(file) /\ p \in 1 .. Len(file) + 1
    BY <1>1, <1>6
  <2>3. SkipBlanks(p) = p + 1
    <3>1. \A i \in p .. (p + 1) - 1 : i = p
      OBVIOUS
    <3>2. file[p + 1] \notin White /\ p + 1 \in p .. Len(file)
      BY <2>1, <2>2 DEF Hash, White, Blank, Newline
    <3> QED
      BY <1>3, <3>1, <3>2, BlanksEnd
  <2>4. SkipLine(p + 1) = p + 5
    <3> DEFINE S == {k \in p + 1 .. Len(file) : file[k] = Newline} \union {Len(file)}
    <3>1. S \in SUBSET Nat /\ p + 4 \in S
      BY <1>1, <2>1, <2>2
    <3>2. ASSUME NEW k \in S, k < p + 4 PROVE FALSE
      <4>1. k # Len(file) /\ k \in p + 1 .. Len(file) /\ file[k] = Newline
        BY <1>1, <2>2, <3>2
      <4>2. k = p + 1 \/ k = p + 2 \/ k = p + 3
        BY <3>2, <4>1
      <4> QED
        BY <2>1, <4>1, <4>2 DEF Hash, Newline
    <3>3. Min(S) = p + 4
      <4> HIDE DEF S
      <4>1. \A k \in S : p + 4 <= k
        BY <3>1, <3>2
      <4> QED
        BY <3>1, <4>1, MinIs
    <3> QED
      BY <3>3 DEF SkipLine
  <2>5. SkipComments(p) = SkipComments(SkipLine(p + 1))
    <3>1. ItemAt(SkipBlanks(p)) = Hash
      BY <1>2, <2>1, <2>2, <2>3
    <3> QED
      BY <2>2, <2>3, <3>1, SkipCommentsIs
  <2> QED
    BY <1>4, <1>6, <2>4, <2>5
<1> QED
  BY <1>5, <1>6 DEF WordAt

---------------------------------------------------------------------------
(* What a file is made of. *)
Item == {k \in Int : k \in 0 .. 255 \/ k = P5 \/ k > Word(0)}

LEMMA Joined ==
  ASSUME NEW s \in Seq(Item), NEW u \in Seq(Item)
  PROVE  /\ s \o u \in Seq(Item) /\ Len(s \o u) = Len(s) + Len(u)
         /\ Len(s) \in Nat /\ Len(u) \in Nat
         /\ \A i \in 1 .. Len(s) : (s \o u)[i] = s[i]
         /\ \A i \in 1 .. Len(u) : (s \o u)[Len(s) + i] = u[i]
OBVIOUS

LEMMA WordKept ==
  ASSUME NEW s \in Seq(Item), NEW u \in Seq(Item), NEW p \in Nat \ {0}, NEW e, NEW x,
         WordAt(s, p, e, x)
  PROVE  WordAt(s \o u, p, e, x)
<1> DEFINE w == s \o u
<1>1. e \in Nat /\ e + 1 \in 1 .. Len(s) /\ p \in 1 .. Len(s) /\ e \in 1 .. Len(s) /\ Len(s) \in Nat
  BY DEF WordAt
<1>2. \A i \in 1 .. Len(s) : w[i] = s[i]
  BY Joined
<1>3. e + 1 \in 1 .. Len(w)
  BY <1>1, Joined
<1>4. e = p + 5 => p + 1 \in 1 .. Len(s) /\ p + 2 \in 1 .. Len(s) /\ p + 3 \in 1 .. Len(s)
                   /\ p + 4 \in 1 .. Len(s)
  BY <1>1
<1> HIDE DEF w
<1>5. WordAt(w, p, e, x)
  BY <1>1, <1>2, <1>3, <1>4 DEF WordAt
<1> QED
  BY <1>5 DEF w

(* A comment or none, a word of the header and a separator. *)
WithWord(h, gap, x, sep) == (h \o gap) \o <<Word(x), sep>>

LEMMA WordWritten ==
  ASSUME NEW h \in Seq(Item), NEW x \in Nat \ {0}, NEW sep \in {Blank, Newline},
         Len(h) # 0, h[Len(h)] = sep,
         NEW gap \in {<<Hash, Blank, Letter, Newline>>, <<>>}
  PROVE  LET s == WithWord(h, gap, x, sep)
         IN  /\ s \in Seq(Item) /\ s[Len(s)] = sep /\ Len(s) # 0
             /\ Len(s) - 1 \in Nat /\ WordAt(s, Len(h), Len(s) - 1, x)
<1> DEFINE g == h \o gap
           w == <<Word(x), sep>>
           p == Len(h)
           s == WithWord(h, gap, x, sep)
<1>1. gap \in Seq(Item) /\ w \in Seq(Item) /\ Len(w) = 2 /\ w[1] = Word(x) /\ w[2] = sep
  <2>1. /\ Word(x) \in Item /\ sep \in Item
        /\ Hash \in Item /\ Blank \in Item /\ Letter \in Item /\ Newline \in Item
    BY DEF Item, Word, Blank, Newline, Hash, Letter
  <2>2. w \in Seq(Item) /\ Len(w) = 2 /\ w[1] = Word(x) /\ w[2] = sep
    BY <2>1
  <2>3. <<>> \in Seq(Item) /\ <<Hash, Blank, Letter, Newline>> \in Seq(Item)
    BY <2>1
  <2> QED
    BY <2>2, <2>3
<1>2. /\ g \in Seq(Item) /\ Len(g) = p + Len(gap) /\ p \in Nat \ {0}
      /\ \A i \in 1 .. p : g[i] = h[i]
      /\ \A i \in 1 .. Len(gap) : g[p + i] = gap[i]
  BY <1>1, Joined
<1> HIDE DEF g, w, p, s
<1>3. /\ s \in Seq(Item) /\ Len(s) = Len(g) + 2 /\ Len(g) \in Nat
      /\ \A i \in 1 .. Len(g) : s[i] = g[i]
      /\ \A i \in 1 .. Len(w) : s[Len(g) + i] = w[i]
  <2>1. g \in Seq(Item) /\ w \in Seq(Item) /\ Len(w) = 2
    BY <1>1, <1>2
  <2>2. s = g \o w
    BY DEF WithWord, g, w, s
  <2>3. /\ g \o w \in Seq(Item) /\ Len(g \o w) = Len(g) + Len(w) /\ Len(g) \in Nat
        /\ \A i \in 1 .. Len(g) : (g \o w)[i] = g[i]
        /\ \A i \in 1 .. Len(w) : (g \o w)[Len(g) + i] = w[i]
    BY ONLY <2>1, Joined
  <2> QED
    BY ONLY <2>1, <2>2, <2>3
<1>4. s[Len(g) + 1] = Word(x) /\ s[Len(g) + 2] = sep /\ p \in 1 .. Len(g) /\ s[p] = sep
  BY <1>1, <1>2, <1>3 DEF p
<1>5. CASE gap = <<>>
  <2>1. Len(s) - 1 = p + 1 /\ Len(g) = p
    BY <1>2, <1>3, <1>5
  <2> QED
    BY <1>2, <1>3, <1>4, <2>1 DEF WordAt, p, g, w, s
<1>6. CASE gap = <<Hash, Blank, Letter, Newline>>
  <2>1. Len(gap) = 4 /\ gap[1] = Hash /\ gap[2] = Blank /\ gap[3] = Letter /\ gap[4] = Newline
    BY <1>6
  <2>2. Len(g) = p + 4 /\ Len(s) - 1 = p + 5
    BY <1>2, <1>3, <2>1
  <2>3. g[p + 1] = Hash /\ g[p + 2] = Blank /\ g[p + 3] = Letter /\ g[p + 4] = Newline
    BY <1>2, <2>1
  <2>4. s[p + 1] = Hash /\ s[p + 2] = Blank /\ s[p + 3] = Letter /\ s[p + 4] = Newline
    <3>1. /\ p + 1 \in 1 .. Len(g) /\ p + 2 \in 1 .. Len(g)
          /\ p + 3 \in 1 .. Len(g) /\ p + 4 \in 1 .. Len(g)
      BY <1>2, <2>2
    <3>2. /\ s[p + 1] = g[p + 1] /\ s[p + 2] = g[p + 2]
          /\ s[p + 3] = g[p + 3] /\ s[p + 4] = g[p + 4]
      BY <1>3, <3>1
    <3> QED
      BY <2>3, <3>2
  <2>5. WordAt(s, p, p + 5, x)
    BY <1>2, <1>3, <1>4, <2>2, <2>4 DEF WordAt, Blank, Letter, Newline
  <2> QED
    BY <1>2, <1>3, <1>4, <2>2, <2>5 DEF p, g, w, s
<1> QED
  BY <1>5, <1>6

LEMMA WordsKept ==
  ASSUME NEW h \in Seq(Item), NEW x \in Nat \ {0}, NEW sep \in {Blank, Newline},
         NEW gap \in {<<Hash, Blank, Letter, Newline>>, <<>>},
         NEW p \in Nat \ {0}, NEW e, NEW y, WordAt(h, p, e, y)
  PROVE  WordAt(WithWord(h, gap, x, sep), p, e, y)
<1> DEFINE g == h \o gap
           w == <<Word(x), sep>>
<1>1. gap \in Seq(Item) /\ w \in Seq(Item)
  <2>1. /\ Word(x) \in Item /\ sep \in Item
        /\ Hash \in Item /\ Blank \in Item /\ Letter \in Item /\ Newline \in Item
    BY DEF Item, Word, Blank, Newline, Hash, Letter
  <2>2. w \in Seq(Item) /\ <<>> \in Seq(Item) /\ <<Hash, Blank, Letter, Newline>> \in Seq(Item)
    BY <2>1
  <2> QED
    BY <2>2
<1>2. g \in Seq(Item) /\ WordAt(g, p, e, y)
  BY <1>1, WordKept, Joined
<1> HIDE DEF g, w
<1>3. WordAt(g \o w, p, e, y)
  BY <1>1, <1>2, WordKept
<1> QED
  BY <1>3 DEF g, w, WithWord

---------------------------------------------------------------------------
(* An image, and its size. *)
IsImage(m) ==
  /\ m.rows \in Nat \ {0} /\ m.cols \in Nat \ {0} /\ m.thld \in Nat \ {0}
  /\ m.data \in [0 .. m.rows - 1 -> [0 .. m.cols - 1 -> PixelValue]]

Size(m) == m.rows * m.cols

(* The k-th of height * width places, line by line. *)
LEMMA PlaceOf ==
  ASSUME NEW height \in Nat \ {0}, NEW width \in Nat \ {0}, NEW k \in 0 .. height * width - 1
  PROVE  /\ k \div width \in 0 .. height - 1 /\ k % width \in 0 .. width - 1
         /\ (k \div width) * width + (k % width) = k
<1> DEFINE q == k \div width
<1>1. height * width \in Nat /\ k \in Nat /\ k < height * width
  OBVIOUS
<1>2. q \in Nat /\ k % width \in 0 .. width - 1 /\ k = width * q + (k % width)
  BY <1>1
<1>3. ASSUME q >= height PROVE FALSE
  <2> HIDE DEF q
  <2>1. width * q >= width * height
    BY <1>2, <1>3
  <2>2. width * height = height * width
    OBVIOUS
  <2> QED
    BY <1>1, <1>2, <2>1, <2>2
<1>4. width * q = q * width
  BY <1>2
<1> QED
  BY <1>2, <1>3, <1>4

LEMMA PixelType ==
  ASSUME NEW m, IsImage(m), NEW k \in 0 .. Size(m) - 1, NEW order
  PROVE  PixelOf(m, k, order) \in PixelValue
<1>1. m.rows * m.cols = m.cols * m.rows
  BY DEF IsImage
<1>2. k \div m.rows \in 0 .. m.cols - 1 /\ k % m.rows \in 0 .. m.rows - 1
  BY <1>1, PlaceOf DEF IsImage, Size
<1>3. k \div m.cols \in 0 .. m.rows - 1 /\ k % m.cols \in 0 .. m.cols - 1
  BY PlaceOf DEF IsImage, Size
<1> QED
  BY <1>2, <1>3 DEF IsImage, PixelOf

LEMMA DataIs ==
  ASSUME NEW m, IsImage(m), NEW order
  PROVE  /\ DataOf(m, order) \in Seq(Item) /\ Size(m) \in Nat \ {0}
         /\ \A b \in 1 .. Len(DataOf(m, order)) : DataOf(m, order)[b] \in 0 .. 255
         /\ m.thld <= 255 => /\ Len(DataOf(m, order)) = Size(m)
                             /\ \A b \in 1 .. Size(m) : DataOf(m, order)[b] = LO(PixelOf(m, b - 1, order))
<1>1. Size(m) \in Nat \ {0}
  BY DEF IsImage, Size
<1>2. \A v \in PixelValue : LO(v) \in 0 .. 255 /\ HI(v) \in 0 .. 255
  BY DEF LO, HI, PixelValue
<1>3. \A b \in 0 .. 255 : b \in Item
  BY DEF Item
<1>4. CASE m.thld > 255
  <2> DEFINE d == [b \in 1 .. 2 * Size(m) |->
                     IF b % 2 = 1 THEN HI(PixelOf(m, b \div 2, order)) ELSE LO(PixelOf(m, b \div 2 - 1, order))]
  <2>1. DataOf(m, order) = d
    BY <1>4 DEF DataOf, Size
  <2>2. ASSUME NEW b \in 1 .. 2 * Size(m) PROVE d[b] \in 0 .. 255
    <3>1. b % 2 = 1 => b \div 2 \in 0 .. Size(m) - 1
      BY <1>1
    <3>2. b % 2 # 1 => b \div 2 - 1 \in 0 .. Size(m) - 1
      BY <1>1
    <3> QED
      BY <1>2, <3>1, <3>2, PixelType
  <2> HIDE DEF d
  <2>3. d = [b \in 1 .. 2 * Size(m) |-> d[b]]
    BY DEF d
  <2>4. \A b \in 1 .. 2 * Size(m) : d[b] \in Item
    BY <1>3, <2>2
  <2>6. d \in [1 .. 2 * Size(m) -> Item]
    BY ONLY <2>3, <2>4
  <2>7. 2 * Size(m) \in Nat
    BY <1>1
  <2>5. d \in Seq(Item) /\ Len(d) = 2 * Size(m)
    BY <2>6, <2>7
  <2>8. ~ m.thld <= 255
    BY <1>4 DEF IsImage
  <2> QED
    BY ONLY <1>1, <2>1, <2>2, <2>5, <2>8
<1>5. CASE ~ m.thld > 255
  <2> DEFINE d == [b \in 1 .. Size(m) |-> LO(PixelOf(m, b - 1, order))]
  <2>1. DataOf(m, order) = d
    BY <1>5 DEF DataOf, Size
  <2>2. ASSUME NEW b \in 1 .. Size(m) PROVE d[b] \in 0 .. 255 /\ d[b] = LO(PixelOf(m, b - 1, order))
    <3>1. b - 1 \in 0 .. Size(m) - 1
      BY <1>1
    <3> QED
      BY <1>2, <3>1, PixelType
  <2> HIDE DEF d
  <2>3. d = [b \in 1 .. Size(m) |-> d[b]]
    BY DEF d
  <2>4. \A b \in 1 .. Size(m) : d[b] \in Item
    BY <1>3, <2>2
  <2>6. d \in [1 .. Size(m) -> Item]
    BY ONLY <2>3, <2>4
  <2>5. d \in Seq(Item) /\ Len(d) = Size(m)
    BY <1>1, <2>6
  <2> QED
    BY <1>1, <2>1, <2>2, <2>5
<1> QED
  BY <1>4, <1>5

(* The file of image m, up to its data: three words. *)
HeaderOf(f, m, c, r, t) ==
  /\ c \in Nat /\ r \in Nat /\ t \in Nat
  /\ WordAt(f, 2, c, m.cols) /\ WordAt(f, c + 1, r, m.rows) /\ WordAt(f, r + 1, t, m.thld)

HeaderAndData(f, m, order) ==
  /\ f \in Seq(Item)
  /\ \E c, r, t : /\ HeaderOf(f, m, c, r, t)
                  /\ Len(f) = t + 1 + Len(DataOf(m, order))
                  /\ \A b \in 1 .. Len(DataOf(m, order)) : f[t + 1 + b] = DataOf(m, order)[b]

LEMMA FileIs ==
  ASSUME NEW m, IsImage(m), NEW order, NEW comments, NEW sep \in {Blank, Newline}
  PROVE  HeaderAndData(FileOf(m, order, comments, sep), m, order)
<1> DEFINE gap(k) == IF k \in comments THEN <<Hash, Blank, Letter, Newline>> ELSE <<>>
           h == <<P5, sep>>
           s1 == WithWord(h, gap(1), m.cols, sep)
           s2 == WithWord(s1, gap(2), m.rows, sep)
           s3 == WithWord(s2, gap(3), m.thld, sep)
           d == DataOf(m, order)
           f == s3 \o d
<1>1. FileOf(m, order, comments, sep) = f
  BY DEF FileOf, WithWord
<1>2. h \in Seq(Item) /\ Len(h) = 2 /\ h[2] = sep
  <2>1. P5 \in Item /\ sep \in Item
    BY DEF Item, P5, Blank, Newline
  <2> QED
    BY <2>1
<1>3. \A k : gap(k) \in {<<Hash, Blank, Letter, Newline>>, <<>>}
  OBVIOUS
<1>4. m.cols \in Nat \ {0} /\ m.rows \in Nat \ {0} /\ m.thld \in Nat \ {0}
  BY DEF IsImage
<1>5. d \in Seq(Item)
  BY DataIs
<1> HIDE DEF gap, h, d
<1>6. /\ s1 \in Seq(Item) /\ s1[Len(s1)] = sep /\ Len(s1) # 0
      /\ Len(s1) - 1 \in Nat /\ WordAt(s1, 2, Len(s1) - 1, m.cols)
  <2>1. Len(h) # 0 /\ h[Len(h)] = sep
    BY <1>2
  <2>2. gap(1) \in {<<Hash, Blank, Letter, Newline>>, <<>>}
    BY <1>3
  <2>3. LET s == WithWord(h, gap(1), m.cols, sep)
        IN  /\ s \in Seq(Item) /\ s[Len(s)] = sep /\ Len(s) # 0
            /\ Len(s) - 1 \in Nat /\ WordAt(s, Len(h), Len(s) - 1, m.cols)
    BY ONLY <1>2, <1>4, <2>1, <2>2, sep \in {Blank, Newline}, WordWritten
  <2> QED
    BY <1>2, <2>3
<1> HIDE DEF s1
<1>7. /\ s2 \in Seq(Item) /\ s2[Len(s2)] = sep /\ Len(s2) # 0
      /\ Len(s2) - 1 \in Nat /\ WordAt(s2, Len(s1), Len(s2) - 1, m.rows)
  <2>1. gap(2) \in {<<Hash, Blank, Letter, Newline>>, <<>>}
    BY <1>3
  <2> QED
    BY ONLY <1>4, <1>6, <2>1, sep \in {Blank, Newline}, WordWritten
<1> HIDE DEF s2
<1>8. /\ s3 \in Seq(Item) /\ Len(s3) - 1 \in Nat
      /\ WordAt(s3, Len(s2), Len(s3) - 1, m.thld)
  <2>1. gap(3) \in {<<Hash, Blank, Letter, Newline>>, <<>>}
    BY <1>3
  <2> QED
    BY ONLY <1>4, <1>7, <2>1, sep \in {Blank, Newline}, WordWritten
<1> HIDE DEF s3
<1>9. /\ f \in Seq(Item) /\ Len(f) = Len(s3) + Len(d)
      /\ \A b \in 1 .. Len(d) : f[Len(s3) + b] = d[b]
  BY <1>5, <1>8, Joined
<1>10. WordAt(f, Len(s2), Len(s3) - 1, m.thld)
  <2>1. Len(s2) \in Nat \ {0}
    BY <1>7
  <2> QED
    BY ONLY <1>5, <1>8, <2>1, WordKept
<1>11. WordAt(f, Len(s1), Len(s2) - 1, m.rows)
  <2>1. WordAt(WithWord(s2, gap(3), m.thld, sep), Len(s1), Len(s2) - 1, m.rows)
    <3>1. Len(s1) \in Nat \ {0} /\ gap(3) \in {<<Hash, Blank, Letter, Newline>>, <<>>}
      BY <1>3, <1>6
    <3> QED
      BY ONLY <1>4, <1>7, <3>1, sep \in {Blank, Newline}, WordsKept
  <2>2. WordAt(s3, Len(s1), Len(s2) - 1, m.rows)
    BY <2>1 DEF s3
  <2> QED
    BY <1>5, <1>6, <1>8, <2>2, WordKept
<1>12. WordAt(f, 2, Len(s1) - 1, m.cols)
  <2>1. gap(2) \in {<<Hash, Blank, Letter, Newline>>, <<>>}
    BY <1>3
  <2>2. gap(3) \in {<<Hash, Blank, Letter, Newline>>, <<>>}
    BY <1>3
  <2>3. WordAt(WithWord(s1, gap(2), m.rows, sep), 2, Len(s1) - 1, m.cols)
    BY ONLY <1>4, <1>6, <2>1, sep \in {Blank, Newline}, WordsKept
  <2>4. WordAt(s2, 2, Len(s1) - 1, m.cols)
    BY <2>3 DEF s2
  <2>5. WordAt(WithWord(s2, gap(3), m.thld, sep), 2, Len(s1) - 1, m.cols)
    <3>1. s2 \in Seq(Item) /\ m.thld \in Nat \ {0} /\ 2 \in Nat \ {0}
      BY <1>4, <1>7
    <3> QED
      BY ONLY <2>2, <2>4, <3>1, sep \in {Blank, Newline}, WordsKept
  <2>6. WordAt(s3, 2, Len(s1) - 1, m.cols)
    BY <2>5 DEF s3
  <2> QED
    BY <1>5, <1>8, <2>6, WordKept
<1>13. Len(s1) = (Len(s1) - 1) + 1 /\ Len(s2) = (Len(s2) - 1) + 1 /\ Len(s3) = (Len(s3) - 1) + 1
  BY <1>6, <1>7, <1>8
<1>14. HeaderOf(f, m, Len(s1) - 1, Len(s2) - 1, Len(s3) - 1)
  <2> HIDE DEF f
  <2> QED
    BY <1>6, <1>7, <1>8, <1>10, <1>11, <1>12, <1>13 DEF HeaderOf
<1> HIDE DEF f
<1>15. \E c, r, t : /\ HeaderOf(f, m, c, r, t)
                    /\ Len(f) = t + 1 + Len(d)
                    /\ \A b \in 1 .. Len(d) : f[t + 1 + b] = d[b]
  <2> WITNESS Len(s1) - 1, Len(s2) - 1, Len(s3) - 1
  <2> QED
    BY <1>9, <1>13, <1>14
<1>16. HeaderAndData(f, m, order)
  BY <1>9, <1>15 DEF d, HeaderAndData
<1> QED
  BY <1>1, <1>16

---------------------------------------------------------------------------
(* What an image is made of. *)
LEMMA NewImageIs ==
  ASSUME NEW rows \in Nat \ {0}, NEW cols \in Nat \ {0}, NEW thld \in Nat \ {0}, NEW pixelAt,
         \A i \in 0 .. rows - 1 : \A k \in 0 .. cols - 1 : pixelAt[<<i, k>>] \in PixelValue
  PROVE  LET m == NewImage(rows, cols, thld, pixelAt)
         IN  /\ IsImage(m) /\ m.rows = rows /\ m.cols = cols /\ m.thld = thld
             /\ \A i \in 0 .. rows - 1 : \A k \in 0 .. cols - 1 : m.data[i][k] = pixelAt[<<i, k>>]
<1> DEFINE m == NewImage(rows, cols, thld, pixelAt)
<1>1. /\ m.rows = rows /\ m.cols = cols /\ m.thld = thld
      /\ m.data = [i \in 0 .. rows - 1 |-> [k \in 0 .. cols - 1 |-> pixelAt[<<i, k>>]]]
  BY DEF NewImage
<1> HIDE DEF m
<1>2. \A i \in 0 .. rows - 1 : m.data[i] = [k \in 0 .. cols - 1 |-> pixelAt[<<i, k>>]]
  BY <1>1
<1>3. \A i \in 0 .. rows - 1 : m.data[i] \in [0 .. cols - 1 -> PixelValue]
  <2> TAKE i \in 0 .. rows - 1
  <2> DEFINE line == [k \in 0 .. cols - 1 |-> pixelAt[<<i, k>>]]
  <2>1. line \in [0 .. cols - 1 -> PixelValue]
    OBVIOUS
  <2> QED
    BY <1>2, <2>1
<1>4. m.data \in [0 .. rows - 1 -> [0 .. cols - 1 -> PixelValue]]
  BY <1>1, <1>3
<1>5. IsImage(m)
  BY <1>1, <1>4 DEF IsImage
<1> QED
  BY <1>1, <1>2, <1>5 DEF m

(* File f has the image m in it, in that order. *)
FileHas(f, m, order) ==
  /\ f \in Seq(Item)
  /\ \E c, r, t :
       /\ HeaderOf(f, m, c, r, t)
       /\ \A b \in t + 2 .. Len(f) : f[b] \in 0 .. 255
       /\ m.thld <= 255 => /\ Len(f) = t + 1 + Size(m)
                           /\ \A p \in 0 .. Size(m) - 1 : f[t + 2 + p] = LO(PixelOf(m, p, order))

LEMMA FileHasImage ==
  ASSUME NEW m, IsImage(m), NEW order, NEW comments, NEW sep \in {Blank, Newline}
  PROVE  FileHas(FileOf(m, order, comments, sep), m, order)
<1> DEFINE f == FileOf(m, order, comments, sep)
           d == DataOf(m, order)
<1>1. /\ f \in Seq(Item)
      /\ \E c, r, t : /\ HeaderOf(f, m, c, r, t)
                      /\ Len(f) = t + 1 + Len(d)
                      /\ \A b \in 1 .. Len(d) : f[t + 1 + b] = d[b]
  <2>1. HeaderAndData(f, m, order)
    BY FileIs
  <2> HIDE DEF f
  <2> QED
    BY ONLY <2>1 DEF HeaderAndData, d
<1>2. /\ d \in Seq(Item) /\ Size(m) \in Nat \ {0}
      /\ \A b \in 1 .. Len(d) : d[b] \in 0 .. 255
      /\ m.thld <= 255 => /\ Len(d) = Size(m)
                          /\ \A b \in 1 .. Size(m) : d[b] = LO(PixelOf(m, b - 1, order))
  BY DataIs
<1> HIDE DEF f, d
<1>3. PICK c, r, t : /\ HeaderOf(f, m, c, r, t)
                     /\ Len(f) = t + 1 + Len(d)
                     /\ \A b \in 1 .. Len(d) : f[t + 1 + b] = d[b]
  BY <1>1
<1>4. t \in Nat /\ Len(d) \in Nat
  BY <1>2, <1>3 DEF HeaderOf
<1>5. ASSUME NEW b \in t + 2 .. Len(f) PROVE f[b] \in 0 .. 255
  <2>1. b - (t + 1) \in 1 .. Len(d) /\ t + 1 + (b - (t + 1)) = b
    BY <1>3, <1>4
  <2> QED
    BY <1>2, <1>3, <2>1
<1>6. ASSUME m.thld <= 255, NEW p \in 0 .. Size(m) - 1 PROVE f[t + 2 + p] = LO(PixelOf(m, p, order))
  <2>1. p + 1 \in 1 .. Size(m) /\ t + 1 + (p + 1) = t + 2 + p /\ (p + 1) - 1 = p
    BY <1>2, <1>4
  <2> QED
    BY <1>2, <1>3, <1>6, <2>1
<1>7. m.thld <= 255 => Len(f) = t + 1 + Size(m)
  BY <1>2, <1>3
<1> QED
  BY <1>1, <1>3, <1>5, <1>6, <1>7 DEF FileHas, f

---------------------------------------------------------------------------
(* The pixel of the file that is read for the p-th of the image. *)
PixelFrom(first, thld, p) ==
  IF thld > 255 THEN 256 * ItemAt(first + 2 * p) + ItemAt(first + 2 * p + 1)
  ELSE ItemAt(first + p)

LEMMA WordRead ==
  ASSUME file \in Seq(Item), NEW p \in Nat \ {0}, NEW e \in Nat, NEW x \in Nat,
         WordAt(file, p, e, x)
  PROVE  SkipComments(p) = e /\ ItemAt(SkipComments(p)) - Word(0) = x /\ e + 1 \in 1 .. Len(file)
<1>1. file \in Seq(Int)
  BY DEF Item
<1>2. SkipComments(p) = e
  BY <1>1, SkipToWord
<1>3. e \in DOMAIN file /\ file[e] = Word(x) /\ e + 1 \in 1 .. Len(file)
  BY DEF WordAt
<1>4. ItemAt(e) = Word(x)
  BY <1>3 DEF ItemAt
<1> QED
  BY <1>2, <1>3, <1>4 DEF Word

(* The data is read from behind the separator and a byte that is dropped.   *)
LEMMA DataStartRange ==
  ASSUME file \in Seq(Item), NEW t \in Nat, t + 1 \in 1 .. Len(file),
         file[t + 1] \in {Blank, Newline}
  PROVE  DataStart(t + 1) \in t + 3 .. Len(file) + 2
<1>1. file \in Seq(Int) /\ Len(file) \in Nat /\ t + 1 \in 1 .. Len(file) + 1
  BY DEF Item
<1>2. ItemAt(t + 1) \in White
  BY DEF ItemAt, White
<1>3. /\ SkipBlanks(t + 1) \in t + 1 .. Len(file) + 1
      /\ SkipBlanks(t + 1) <= Len(file) => ItemAt(SkipBlanks(t + 1)) \notin White
  BY <1>1, SkipBlanksRange
<1>4. SkipBlanks(t + 1) # t + 1
  BY <1>1, <1>2, <1>3
<1>5. SkipComments(t + 1) \in SkipBlanks(t + 1) .. Len(file) + 1
  BY <1>1, SkipCommentsRange
<1> QED
  BY <1>1, <1>3, <1>4, <1>5 DEF DataStart

(* When a byte follows that looks like neither a blank nor a comment, it is *)
(* the one.                                                                 *)
LEMMA FirstIs ==
  ASSUME file \in Seq(Item), NEW t \in Nat, t + 2 \in 1 .. Len(file),
         file[t + 1] \in White, file[t + 2] \notin White, file[t + 2] # Hash
  PROVE  DataStart(t + 1) = t + 3
<1>1. file \in Seq(Int) /\ Len(file) \in Nat
  BY DEF Item
<1>2. \A i \in t + 1 .. (t + 2) - 1 : file[i] \in White
  <2>1. \A i \in t + 1 .. (t + 2) - 1 : i = t + 1
    OBVIOUS
  <2> QED
    BY <2>1
<1>3. t + 1 \in Nat \ {0} /\ t + 2 \in t + 1 .. Len(file) /\ t + 1 \in 1 .. Len(file) + 1
  BY <1>1
<1>4. SkipBlanks(t + 1) = t + 2
  BY <1>1, <1>2, <1>3, BlanksEnd
<1>5. ItemAt(t + 2) # Hash
  BY DEF ItemAt
<1>6. SkipComments(t + 1) = t + 2
  BY <1>1, <1>3, <1>4, <1>5, SkipCommentsIs
<1> QED
  BY <1>6 DEF DataStart

LEMMA ReadIs ==
  ASSUME IsImage(source), NEW c, NEW r, NEW t,
         file \in Seq(Item), HeaderOf(file, source, c, r, t)
  PROVE  ReadImage = NewImage(source.rows, source.cols, source.thld,
                       [place \in Places(source.rows, source.cols) |->
                          PixelFrom(DataStart(t + 1), source.thld,
                                    FilePlace(source.rows, source.cols, place[1], place[2]))])
<1>1. /\ SkipComments(2) = c /\ ItemAt(c) - Word(0) = source.cols
      /\ SkipComments(c + 1) = r /\ ItemAt(r) - Word(0) = source.rows
      /\ SkipComments(r + 1) = t /\ ItemAt(t) - Word(0) = source.thld
  <2>1. /\ c \in Nat /\ r \in Nat /\ t \in Nat /\ c + 1 \in Nat \ {0} /\ r + 1 \in Nat \ {0}
        /\ 2 \in Nat \ {0}
        /\ WordAt(file, 2, c, source.cols) /\ WordAt(file, c + 1, r, source.rows)
        /\ WordAt(file, r + 1, t, source.thld)
    BY DEF HeaderOf
  <2>2. source.cols \in Nat /\ source.rows \in Nat /\ source.thld \in Nat
    BY DEF IsImage
  <2>3. SkipComments(2) = c /\ ItemAt(SkipComments(2)) - Word(0) = source.cols
    BY <2>1, <2>2, WordRead
  <2>4. SkipComments(c + 1) = r /\ ItemAt(SkipComments(c + 1)) - Word(0) = source.rows
    BY <2>1, <2>2, WordRead
  <2>5. SkipComments(r + 1) = t /\ ItemAt(SkipComments(r + 1)) - Word(0) = source.thld
    BY <2>1, <2>2, WordRead
  <2> QED
    BY <2>3, <2>4, <2>5
<1> QED
  BY <1>1, Zenon DEF ReadImage, PixelFrom

(* The image that is read. *)
LEMMA ReadKeeps ==
  ASSUME IsImage(source), NEW c, NEW r, NEW t, HeaderOf(file, source, c, r, t),
         file \in Seq(Item), \A b \in t + 2 .. Len(file) : file[b] \in 0 .. 255,
         columns \in BOOLEAN
  PROVE  /\ IsImage(ReadImage) /\ ReadImage.rows = source.rows
         /\ ReadImage.cols = source.cols /\ ReadImage.thld = source.thld
         /\ DataStart(t + 1) \in t + 3 .. Len(file) + 2
         /\ \A p \in 0 .. Size(source) - 1 :
              PixelOf(ReadImage, p, columns) = PixelFrom(DataStart(t + 1), source.thld, p)
<1> DEFINE rows == source.rows
           cols == source.cols
           thld == source.thld
           first == DataStart(t + 1)
           pixelAt == [place \in Places(rows, cols) |->
                         PixelFrom(first, thld, FilePlace(rows, cols, place[1], place[2]))]
           m == NewImage(rows, cols, thld, pixelAt)
<1>1. rows \in Nat \ {0} /\ cols \in Nat \ {0} /\ thld \in Nat \ {0}
  BY DEF IsImage
<1>2. t \in Nat /\ t + 1 \in 1 .. Len(file) /\ file[t + 1] \in {Blank, Newline}
  BY DEF HeaderOf, WordAt
<1>3. first \in t + 3 .. Len(file) + 2
  BY <1>2, DataStartRange
<1>4. ReadImage = m
  BY ReadIs
<1> HIDE DEF rows, cols, thld, first
<1>5. \A i \in 0 .. rows - 1 : \A k \in 0 .. cols - 1 : FilePlace(rows, cols, i, k) \in Nat
  <2> SUFFICES ASSUME NEW i \in 0 .. rows - 1, NEW k \in 0 .. cols - 1
               PROVE  FilePlace(rows, cols, i, k) \in Nat
    OBVIOUS
  <2>1. k * rows \in Nat /\ i * cols \in Nat /\ i \in Nat /\ k \in Nat
    BY <1>1
  <2> QED
    BY <2>1 DEF FilePlace
<1>6. ASSUME NEW b \in Nat, b >= t + 2
      PROVE  ItemAt(b) \in Int /\ -1 <= ItemAt(b) /\ ItemAt(b) <= 255
  <2>1. CASE b \in DOMAIN file
    <3>1. b \in t + 2 .. Len(file)
      BY <1>2, <1>6, <2>1
    <3>2. file[b] \in 0 .. 255
      BY <3>1
    <3>3. ItemAt(b) = file[b]
      BY <2>1 DEF ItemAt
    <3> QED
      BY ONLY <3>2, <3>3
  <2>2. CASE b \notin DOMAIN file
    BY <2>2 DEF ItemAt, EOF
  <2> QED
    BY <2>1, <2>2
<1>7. ASSUME NEW p \in Nat PROVE PixelFrom(first, thld, p) \in PixelValue
  <2> DEFINE a == ItemAt(first + 2 * p)
             b == ItemAt(first + 2 * p + 1)
             v == ItemAt(first + p)
  <2>1. /\ a \in Int /\ -1 <= a /\ a <= 255 /\ b \in Int /\ -1 <= b /\ b <= 255
        /\ v \in Int /\ -1 <= v /\ v <= 255
    <3>1. /\ first + 2 * p \in Nat /\ first + 2 * p + 1 \in Nat /\ first + p \in Nat
          /\ first + 2 * p >= t + 2 /\ first + 2 * p + 1 >= t + 2 /\ first + p >= t + 2
      BY <1>2, <1>3
    <3> QED
      BY <1>6, <3>1
  <2>2. PixelFrom(first, thld, p) = IF thld > 255 THEN 256 * a + b ELSE v
    BY DEF PixelFrom
  <2> HIDE DEF a, b, v
  <2>3. 256 * a + b \in PixelValue
    BY ONLY <2>1 DEF PixelValue
  <2>4. v \in PixelValue
    BY ONLY <2>1 DEF PixelValue
  <2> QED
    BY ONLY <2>2, <2>3, <2>4
<1>8. \A i \in 0 .. rows - 1 : \A k \in 0 .. cols - 1 :
        pixelAt[<<i, k>>] = PixelFrom(first, thld, FilePlace(rows, cols, i, k))
  BY DEF Places
<1>9. \A i \in 0 .. rows - 1 : \A k \in 0 .. cols - 1 : pixelAt[<<i, k>>] \in PixelValue
  BY <1>5, <1>7, <1>8
<1> HIDE DEF pixelAt
<1>10. /\ IsImage(m) /\ m.rows = rows /\ m.cols = cols /\ m.thld = thld
       /\ \A i \in 0 .. rows - 1 : \A k \in 0 .. cols - 1 : m.data[i][k] = pixelAt[<<i, k>>]
  BY <1>1, <1>9, NewImageIs
<1> HIDE DEF m
<1>11. ASSUME NEW p \in 0 .. rows * cols - 1 PROVE PixelOf(m, p, columns) = PixelFrom(first, thld, p)
  <2>1. CASE columns
    <3>1. rows * cols = cols * rows
      BY <1>1
    <3>5. p \in 0 .. cols * rows - 1
      BY <3>1
    <3>2. /\ p \div rows \in 0 .. cols - 1 /\ p % rows \in 0 .. rows - 1
          /\ (p \div rows) * rows + (p % rows) = p
      BY <1>1, <3>5, PlaceOf
    <3>3. FilePlace(rows, cols, p % rows, p \div rows) = p
      BY <2>1, <3>2 DEF FilePlace
    <3>4. PixelOf(m, p, columns) = m.data[p % rows][p \div rows]
      BY <1>10, <2>1 DEF PixelOf
    <3> QED
      BY <1>8, <1>10, <3>2, <3>3, <3>4
  <2>2. CASE ~columns
    <3>2. /\ p \div cols \in 0 .. rows - 1 /\ p % cols \in 0 .. cols - 1
          /\ (p \div cols) * cols + (p % cols) = p
      BY <1>1, PlaceOf
    <3>3. FilePlace(rows, cols, p \div cols, p % cols) = p
      BY <2>2, <3>2 DEF FilePlace
    <3>4. PixelOf(m, p, columns) = m.data[p \div cols][p % cols]
      BY <1>10, <2>2 DEF PixelOf
    <3> QED
      BY <1>8, <1>10, <3>2, <3>3, <3>4
  <2> QED
    BY <2>1, <2>2
<1> QED
  BY <1>3, <1>4, <1>10, <1>11 DEF rows, cols, thld, first, Size

(* The pixels that are lost, and those that are not. *)
LEMMA PixelsLost ==
  ASSUME IsImage(source), FileHas(file, source, across), columns \in BOOLEAN, source.thld <= 255
  PROVE  \E lost \in 1 .. Size(source) :
           /\ LO(PixelOf(source, 0, across)) \notin White \union {Hash} => lost = 1
           /\ \A p \in 0 .. Size(source) - 1 :
                PixelOf(ReadImage, p, columns) =
                  IF p + lost < Size(source) THEN LO(PixelOf(source, p + lost, across)) ELSE EOF
<1>1. PICK c, r, t :
        /\ HeaderOf(file, source, c, r, t)
        /\ \A b \in t + 2 .. Len(file) : file[b] \in 0 .. 255
        /\ Len(file) = t + 1 + Size(source)
        /\ \A p \in 0 .. Size(source) - 1 : file[t + 2 + p] = LO(PixelOf(source, p, across))
  BY DEF FileHas
<1>2. file \in Seq(Item) /\ Len(file) \in Nat /\ t \in Nat /\ Size(source) \in Nat \ {0}
  <2>1. Size(source) \in Nat \ {0}
    BY DEF IsImage, Size
  <2>2. file \in Seq(Item) /\ t \in Nat
    BY <1>1 DEF FileHas, HeaderOf
  <2> QED
    BY <2>1, <2>2
<1> DEFINE first == DataStart(t + 1)
           size == Size(source)
           lost == IF first - (t + 2) <= size THEN first - (t + 2) ELSE size
<1>3. /\ first \in t + 3 .. Len(file) + 2
      /\ \A p \in 0 .. size - 1 : PixelOf(ReadImage, p, columns) = ItemAt(first + p)
  <2>1. ~ source.thld > 255
    BY DEF IsImage
  <2> QED
    BY <1>1, <1>2, <2>1, ReadKeeps DEF PixelFrom
<1> HIDE DEF first, size
<1>4. lost \in 1 .. size /\ size \in Nat \ {0} /\ Len(file) = t + 1 + size
  BY <1>1, <1>2, <1>3 DEF size
<1>5. ASSUME NEW p \in 0 .. size - 1
      PROVE  PixelOf(ReadImage, p, columns) = IF p + lost < size THEN LO(PixelOf(source, p + lost, across)) ELSE EOF
  <2>1. CASE p + lost < size
    <3>1. p + lost \in 0 .. size - 1 /\ first + p = t + 2 + (p + lost)
      BY <1>2, <1>3, <1>4, <2>1
    <3>2. first + p \in DOMAIN file
      BY <1>2, <1>4, <3>1
    <3>3. file[t + 2 + (p + lost)] = LO(PixelOf(source, p + lost, across))
      BY <1>1, <3>1 DEF size
    <3> QED
      BY <1>3, <2>1, <3>1, <3>2, <3>3 DEF ItemAt
  <2>2. CASE ~ p + lost < size
    <3>1. first + p \notin DOMAIN file
      BY <1>2, <1>3, <1>4, <2>2
    <3> QED
      BY <1>3, <2>2, <3>1 DEF ItemAt
  <2> QED
    BY <2>1, <2>2
<1>6. ASSUME LO(PixelOf(source, 0, across)) \notin White \union {Hash} PROVE lost = 1
  <2>1. 0 \in 0 .. Size(source) - 1 /\ t + 2 + 0 = t + 2
    BY <1>2
  <2>2. file[t + 2] \notin White /\ file[t + 2] # Hash
    BY <1>1, <1>6, <2>1
  <2>3. file[t + 1] \in White /\ t + 1 \in Nat \ {0}
    BY <1>1, <1>2 DEF HeaderOf, WordAt, White
  <2>4. first = t + 3
    BY <1>2, <1>4, <2>2, <2>3, FirstIs DEF first
  <2> QED
    BY <1>2, <1>4, <2>4
<1> HIDE DEF lost
<1> QED
  BY <1>4, <1>5, <1>6 DEF size

---------------------------------------------------------------------------
(* The image that is written is an image, and it is in the file; the one    *)
(* that was read is what is left of it.                                     *)
PgmInv ==
  /\ passes \in 0 .. MaxPasses /\ columns \in BOOLEAN /\ across \in BOOLEAN
  /\ image = NoImageYet \/ IsImage(image)
  /\ \/ file = <<>> /\ source = NoImageYet
     \/ IsImage(source) /\ FileHas(file, source, across)
  /\ HeaderKept
  /\ PixelsInOrder

LEMMA EmptyImage ==
  /\ NoImageYet.rows = 0
  /\ NoImageYet.data \in [0 .. NoImageYet.rows - 1 -> [0 .. NoImageYet.cols - 1 -> PixelValue]]
<1> DEFINE m == NoImageYet
<1>1. /\ m.rows = 0 /\ m.cols = 0
      /\ m.data = [i \in 0 .. 0 - 1 |-> [k \in 0 .. 0 - 1 |-> <<>>[<<i, k>>]]]
  BY DEF NoImageYet, NewImage
<1> HIDE DEF m
<1>2. m.data \in [0 .. 0 - 1 -> [0 .. 0 - 1 -> PixelValue]]
  BY <1>1
<1> QED
  BY <1>1, <1>2 DEF m

LEMMA PgmInvImplies ==
  ASSUME PgmInv
  PROVE  ImageKept
<1>1. \A b \in DOMAIN file : file[b] \in 0 .. 255 \/ file[b] = P5 \/ file[b] > Word(0)
  <2>1. CASE file = <<>>
    BY <2>1
  <2>2. CASE file \in Seq(Item)
    <3> TAKE b \in DOMAIN file
    <3>1. file[b] \in Item
      BY <2>2
    <3> QED
      BY ONLY <3>1 DEF Item
  <2> QED
    BY <2>1, <2>2 DEF PgmInv, FileHas
<1>2. \A m : m = NoImageYet \/ IsImage(m) =>
        m.data \in [0 .. m.rows - 1 -> [0 .. m.cols - 1 -> PixelValue]]
  BY EmptyImage DEF IsImage
<1>3. FileTypeOK
  BY <1>1, <1>2 DEF PgmInv, FileTypeOK
<1> QED
  BY <1>3 DEF PgmInv, ImageKept

LEMMA PgmInit == FileInit => PgmInv
<1> SUFFICES ASSUME FileInit PROVE PgmInv
  OBVIOUS
<1>1. PICK size \in Sizes, thld \in Thresholds, comments \in SUBSET (1 .. 3),
           sep \in {Blank, Newline}, values \in [0 .. 3 -> Values] :
        LET foreign == NewImage(size[1], size[2], thld,
                                [place \in Places(size[1], size[2]) |->
                                   values[(place[1] * size[2] + place[2]) % 4]])
        IN  \/ /\ source = foreign /\ file = FileOf(foreign, FALSE, comments, sep)
               /\ across = FALSE /\ image = NoImageYet
            \/ /\ comments = {} /\ sep = Blank /\ \A k \in 0 .. 3 : values[k] = Min(Values)
               /\ source = NoImageYet /\ file = <<>> /\ across = columns
               /\ image = GenTestInput(size[1], size[2], thld)
  BY DEF FileInit
<1> DEFINE rows == size[1]
           cols == size[2]
           foreignAt == [place \in Places(rows, cols) |-> values[(place[1] * cols + place[2]) % 4]]
           foreign == NewImage(rows, cols, thld, foreignAt)
<1>2. /\ rows \in Nat \ {0} /\ cols \in Nat \ {0} /\ thld \in Nat \ {0} /\ thld < 65536
      /\ passes \in 0 .. MaxPasses /\ columns \in BOOLEAN
  BY PgmFileAssumption DEF FileInit
<1>8. across \in BOOLEAN
  <2>1. across = FALSE \/ across = columns
    BY <1>1
  <2>2. columns \in BOOLEAN
    BY <1>2
  <2> QED
    BY ONLY <2>1, <2>2, Zenon
<1> HIDE DEF rows, cols
<1>3. IsImage(foreign)
  <2>1. ASSUME NEW i \in 0 .. rows - 1, NEW k \in 0 .. cols - 1
        PROVE  foreignAt[<<i, k>>] \in PixelValue
    <3>1. foreignAt[<<i, k>>] = values[(i * cols + k) % 4]
      BY DEF Places
    <3>2. i * cols + k \in Nat
      BY <1>2
    <3>3. (i * cols + k) % 4 \in 0 .. 3
      BY <3>2
    <3>4. values[(i * cols + k) % 4] \in 0 .. 255
      <4>1. values[(i * cols + k) % 4] \in Values
        BY <3>3
      <4>2. \A v \in Values : v \in 0 .. 255
        BY PgmFileAssumption
      <4> QED
        BY ONLY <4>1, <4>2
    <3> QED
      BY <3>1, <3>4 DEF PixelValue
  <2> HIDE DEF foreignAt
  <2>2. \A i \in 0 .. rows - 1 : \A k \in 0 .. cols - 1 : foreignAt[<<i, k>>] \in PixelValue
    BY <2>1
  <2> QED
    BY <1>2, <2>2, NewImageIs
<1>4. IsImage(GenTestInput(rows, cols, thld))
  <2> DEFINE field(k, s) == (k \div (IF s < 16 THEN 1 ELSE s \div 16)) % 2
             pixelAt == [place \in Places(rows, cols) |->
               IF (thld * (field(place[2], cols) + field(place[1], rows))) % 2 = 1
               THEN thld \div 2 ELSE 0]
  <2>1. GenTestInput(rows, cols, thld) = NewImage(rows, cols, thld, pixelAt)
    BY DEF GenTestInput
  <2>2. 0 \in PixelValue /\ thld \div 2 \in PixelValue
    BY <1>2 DEF PixelValue
  <2> HIDE DEF field
  <2>3. \A i \in 0 .. rows - 1 : \A k \in 0 .. cols - 1 : pixelAt[<<i, k>>] \in {0, thld \div 2}
    BY DEF Places
  <2> HIDE DEF pixelAt
  <2> QED
    BY <1>2, <2>1, <2>2, <2>3, NewImageIs
<1>5. \/ source = foreign /\ file = FileOf(foreign, FALSE, comments, sep) /\ across = FALSE
         /\ image = NoImageYet
      \/ source = NoImageYet /\ file = <<>> /\ image = GenTestInput(rows, cols, thld)
  BY <1>1 DEF rows, cols
<1> HIDE DEF foreign
<1>6. CASE source = foreign /\ file = FileOf(foreign, FALSE, comments, sep) /\ across = FALSE
         /\ image = NoImageYet
  <2>1. FileHas(file, source, across)
    BY <1>3, <1>6, FileHasImage
  <2>2. image = NoImageYet /\ source = foreign
    BY <1>6
  <2>3. HeaderKept /\ PixelsInOrder
    BY <2>2, EmptyImage DEF HeaderKept, PixelsInOrder
  <2> QED
    BY ONLY <1>2, <1>3, <1>8, <2>1, <2>2, <2>3 DEF PgmInv
<1>7. CASE source = NoImageYet /\ file = <<>> /\ image = GenTestInput(rows, cols, thld)
  BY <1>2, <1>4, <1>7, <1>8, EmptyImage DEF PgmInv, HeaderKept, PixelsInOrder
<1> QED
  BY <1>5, <1>6, <1>7

(* What lies in the file does not change while the file does not. *)
LEMMA FileHasStill ==
  ASSUME FileHas(file, source, across), UNCHANGED <<file, source, across>>
  PROVE  FileHas(file, source, across)'
BY DEF FileHas, PixelOf, LO, Size, Item

LEMMA PgmReadStep ==
  ASSUME PgmInv, PgmRead
  PROVE  PgmInv'
<1>1. /\ image' = ReadImage /\ passes' = passes + 1 /\ passes < MaxPasses
      /\ columns' = columns /\ file' = file /\ source' = source /\ across' = across
  BY DEF PgmRead
<1>2. IsImage(source) /\ FileHas(file, source, across) /\ columns \in BOOLEAN
  BY DEF PgmInv, PgmRead
<1>3. PICK c, r, t : /\ HeaderOf(file, source, c, r, t)
                     /\ \A b \in t + 2 .. Len(file) : file[b] \in 0 .. 255
  BY <1>2 DEF FileHas
<1>4. /\ IsImage(ReadImage) /\ ReadImage.rows = source.rows
      /\ ReadImage.cols = source.cols /\ ReadImage.thld = source.thld
  BY <1>2, <1>3, ReadKeeps DEF FileHas
<1>5. source.thld <= 255 =>
        \E lost \in 1 .. Size(source) :
          /\ LO(PixelOf(source, 0, across)) \notin White \union {Hash} => lost = 1
          /\ \A p \in 0 .. Size(source) - 1 :
               PixelOf(ReadImage, p, columns) =
                 IF p + lost < Size(source) THEN LO(PixelOf(source, p + lost, across)) ELSE EOF
  BY <1>2, PixelsLost
<1>6. passes' \in 0 .. MaxPasses /\ columns' \in BOOLEAN /\ across' \in BOOLEAN
  BY <1>1, <1>2, PgmFileAssumption DEF PgmInv
<1>7. IsImage(image') /\ IsImage(source')
  BY <1>1, <1>2, <1>4
<1>8. FileHas(file, source, across)'
  BY <1>1, <1>2, FileHasStill
<1>9. HeaderKept'
  BY <1>1, <1>4 DEF HeaderKept
<1>10. PixelsInOrder'
  <2>1. source.thld <= 255 =>
          \E lost \in 1 .. source.rows * source.cols :
            /\ LO(PixelOf(source, 0, across)) \notin White \union {Hash} => lost = 1
            /\ \A p \in 0 .. source.rows * source.cols - 1 :
                 PixelOf(ReadImage, p, columns) =
                   IF p + lost < source.rows * source.cols
                   THEN LO(PixelOf(source, p + lost, across)) ELSE EOF
    BY <1>5 DEF Size
  <2> HIDE DEF ReadImage
  <2> QED
    BY <1>1, <2>1 DEF PixelsInOrder, PixelOf, LO
<1> QED
  BY <1>6, <1>7, <1>8, <1>9, <1>10 DEF PgmInv

LEMMA PgmWriteStep ==
  ASSUME PgmInv, PgmWrite
  PROVE  PgmInv'
<1>1. /\ file' = FileOf(image, columns, {}, Blank) /\ source' = image /\ image' = NoImageYet
      /\ columns' = columns /\ passes' = passes /\ across' = columns
  BY DEF PgmWrite
<1>2. IsImage(image)
  BY EmptyImage DEF PgmInv, PgmWrite
<1>3. FileHas(FileOf(image, columns, {}, Blank), image, columns)
  BY <1>2, FileHasImage
<1>4. FileHas(file, source, across)'
  BY <1>1, <1>3 DEF FileHas, PixelOf, LO, Size
<1>5. HeaderKept' /\ PixelsInOrder'
  BY <1>1, EmptyImage DEF HeaderKept, PixelsInOrder
<1> QED
  BY <1>1, <1>2, <1>4, <1>5 DEF PgmInv

(* ImageKept: a file is read as the image that was written, or that another *)
(* program wrote with its own blanks and comments, but for the pixels lost  *)
(* at the beginning.                                                        *)
THEOREM ImagesAreKept == FileSpec => []ImageKept
<1>1. PgmInv /\ [FileNext]_fileVars => PgmInv'
  <2> SUFFICES ASSUME PgmInv, [FileNext]_fileVars PROVE PgmInv'
    OBVIOUS
  <2>1. CASE PgmRead
    BY <2>1, PgmReadStep
  <2>2. CASE PgmWrite
    BY <2>2, PgmWriteStep
  <2>3. CASE UNCHANGED fileVars
    <3>1. /\ columns' = columns /\ image' = image /\ file' = file /\ source' = source
          /\ passes' = passes /\ across' = across
      BY <2>3 DEF fileVars
    <3>2. FileHas(file, source, across) => FileHas(file, source, across)'
      BY <3>1, FileHasStill
    <3> QED
      BY <3>1, <3>2 DEF PgmInv, HeaderKept, PixelsInOrder, PixelOf, LO
  <2> QED
    BY <2>1, <2>2, <2>3 DEF FileNext
<1>2. PgmInv => ImageKept
  BY PgmInvImplies
<1> QED
  BY PgmInit, <1>1, <1>2, PTL DEF FileSpec

=============================================================================
