-------------------------- MODULE IpuOffloadProofs --------------------------
(***************************************************************************)
(* The three programs of ipu_offload/: the exchange with one core, for     *)
(* every number of messages and every fault; the message round the         *)
(* processors, for every number of processors, rounds and blocks; and the  *)
(* threads that share a counter, for every number of threads and messages. *)
(***************************************************************************)
EXTENDS MessageExchange, MessageRing, LoopbackThreads, FiniteSetTheorems, TLAPS

(**************************************************************************)
(* The exchange with one core (MessageExchange).                           *)
(**************************************************************************)

(* A message carries a number of the host's. *)
Carried == 0 .. MaxLoops

CarriedInv ==
  /\ msg \in Carried \union {None} /\ coreMsg \in Carried \union {None}
  /\ toCore \in Seq(Carried) /\ toHost \in Seq(Carried)
  /\ coreLoops \in Carried
  /\ core = "loop" => (coreIndex <= coreLoops + 1)
  /\ core = "put" => (coreIndex <= coreLoops)
  /\ core \in {"sync_put", "put"} => coreMsg # None
  /\ coreIndex # None

(* What the host has in hand, whatever has failed, and until the get that   *)
(* nothing checks has.                                                      *)
HostInv ==
  /\ host \in {"sync_put", "put", "check"} => msg # None
  /\ host \in {"sync_put", "sync_get", "loop", "put", "get", "check"} => status = 0
  /\ host \in {"loop", "put", "get", "check"} => i >= 1
  /\ host \in {"put", "get", "check"} => i <= numLoops
  /\ host \in {"sync_put", "check"} => owned
  /\ host = "get" => ~owned
  /\ host = "sync_put" => msg = numLoops
  /\ host = "put" => msg = i
  /\ ~unchecked =>
       /\ host \in {"loop", "put"} => owned
       /\ host = "end" => (status >= 0 <=> owned)

---------------------------------------------------------------------------
(* Where the message is, and with which number. *)
Nowhere == ~owned /\ coreMsg = None /\ toCore = <<>> /\ toHost = <<>>
AtHost == owned /\ coreMsg = None /\ toCore = <<>> /\ toHost = <<>>
ToCore(n) == ~owned /\ coreMsg = None /\ toCore = <<n>> /\ toHost = <<>>
AtCore(n) == ~owned /\ coreMsg = n /\ toCore = <<>> /\ toHost = <<>>
ToHost(n) == ~owned /\ coreMsg = None /\ toCore = <<>> /\ toHost = <<n>>

(* The core waits for a handshake, or will as soon as it gets there. *)
Idle ==
  \/ core \in {"create", "sync_get", "trapped"}
  \/ core = "loop" /\ coreIndex > coreLoops

(* It waits for message n of this host process, or is idle after the last. *)
Serves(n) ==
  /\ coreLoops = numLoops
  /\ n <= numLoops => core = "loop" /\ coreIndex = n
  /\ n > numLoops => Idle

(* As long as nothing fails: where host and core are, and the message.      *)
Exchange ==
  /\ host \in {"exit", "alloc"} => Nowhere /\ Idle
  /\ host = "sync_put" => AtHost /\ Idle
  /\ host = "sync_get" =>
       \/ ToCore(numLoops) /\ Idle
       \/ AtCore(numLoops) /\ core = "sync_put" /\ coreLoops = numLoops
       \/ ToHost(numLoops) /\ Serves(1)
  /\ host \in {"loop", "put"} => AtHost /\ Serves(i)
  /\ host = "get" =>
       \/ ToCore(i) /\ Serves(i)
       \/ AtCore(i) /\ core = "put" /\ coreIndex = i /\ coreLoops = numLoops
       \/ ToHost(i) /\ Serves(i + 1)
  /\ host = "check" => AtHost /\ msg = i /\ Serves(i + 1)
  /\ host = "end" => AtHost /\ status = 0 /\ Idle

ExchangeInv == faults = 0 => Exchange

IInv == TypeOK /\ CarriedInv /\ HostInv /\ ExchangeInv

---------------------------------------------------------------------------
(* The largest number a host process is started with. *)
LEMMA MaxLoopsIs == MaxLoops \in Nat /\ \A n \in Loops : n \in Nat /\ n <= MaxLoops
BY MessageExchangeAssumption DEF MaxLoops

(* Queues that are empty or hold one message. *)
LEMMA OneInQueue ==
  \A x \in Carried :
    Append(<<>>, x) = <<x>> /\ Head(<<x>>) = x /\ Tail(<<x>>) = <<>> /\ <<x>> # <<>>
OBVIOUS

LEMMA QueueOps ==
  \A q \in Seq(Carried) :
    /\ \A x \in Carried : Append(q, x) \in Seq(Carried)
    /\ q # <<>> => Head(q) \in Carried /\ Tail(q) \in Seq(Carried)
OBVIOUS

(* A stray write of a number of the host's leaves such numbers in a queue. *)
LEMMA OverwrittenIs ==
  ASSUME NEW q \in Seq(Carried), i \in Carried
  PROVE  Overwritten(q) \subseteq Seq(Carried)
<1> SUFFICES ASSUME NEW K \in SUBSET (1 .. Len(q))
             PROVE  [k \in 1 .. Len(q) |-> IF k \in K THEN i ELSE q[k]] \in Seq(Carried)
  BY DEF Overwritten
<1>1. Len(q) \in Nat /\ \A k \in 1 .. Len(q) : q[k] \in Carried
  OBVIOUS
<1>2. [k \in 1 .. Len(q) |-> IF k \in K THEN i ELSE q[k]] \in [1 .. Len(q) -> Carried]
  BY <1>1
<1> QED
  BY <1>1, <1>2

(* Counters start at 0. *)
LEMMA ZeroIn == \A n \in Nat : 0 \in 0 .. n /\ 0 \in 0 .. n + 1
OBVIOUS

(* A queue of what is carried is one of numbers. *)
LEMMA CarriedAreNumbers == Seq(Carried) \subseteq Seq(Numbers \ {None})
<1>1. Carried \subseteq Numbers \ {None}
  BY MaxLoopsIs DEF Carried, Numbers, None
<1> QED
  BY <1>1

(* Every action keeps what is carried among the numbers of the host's.      *)
LEMMA CarriedInvStep == TypeOK /\ CarriedInv /\ HostInv /\ [Next]_vars => CarriedInv'
<1> SUFFICES ASSUME TypeOK, CarriedInv, HostInv, [Next]_vars PROVE CarriedInv'
  OBVIOUS
<1> USE MaxLoopsIs DEF TypeOK, CarriedInv, Carried, Numbers, HostPc, CorePc, HostGoto,
    CoreGoto, Fault, hostVars, coreVars, None
<1>1. CASE Start
  BY <1>1 DEF Start
<1>2. CASE HostStep
  <2>1. CASE Alloc
    BY <2>1 DEF Alloc
  <2>2. CASE SyncPut
    <3>1. msg \in Carried => Append(toCore, msg) \in Seq(Carried)
      BY QueueOps
    <3> QED
      BY <2>2, <3>1 DEF SyncPut, PutToCore, HostInv
  <2>3. CASE SyncGet
    <3>1. toHost # <<>> => Head(toHost) \in Carried /\ Tail(toHost) \in Seq(Carried)
      BY QueueOps
    <3> QED
      BY <2>3, <3>1 DEF SyncGet, GetFromCore
  <2>4. CASE LoopNext
    BY <2>4 DEF LoopNext, HostInv
  <2>5. CASE LoopCrash
    BY <2>5 DEF LoopCrash
  <2>6. CASE LoopEnd
    BY <2>6 DEF LoopEnd
  <2>7. CASE LoopPut
    <3>1. msg \in Carried => Append(toCore, msg) \in Seq(Carried)
      BY QueueOps
    <3> QED
      BY <2>7, <3>1 DEF LoopPut, PutToCore, HostInv
  <2>8. CASE LoopGet
    <3>1. toHost # <<>> => Head(toHost) \in Carried /\ Tail(toHost) \in Seq(Carried)
      BY QueueOps
    <3> QED
      BY <2>8, <3>1 DEF LoopGet, GetFromCore
  <2>9. CASE Check
    BY <2>9 DEF Check
  <2>10. CASE End
    BY <2>10 DEF End
  <2>11. CASE LoopNextStray
    <3>1. i \in Carried /\ msg' \in Carried
      BY <2>11 DEF LoopNextStray, HostInv
    <3>2. toCore' \in Seq(Carried) /\ toHost' \in Seq(Carried)
      BY <2>11, <3>1, OverwrittenIs DEF LoopNextStray
    <3>3. coreMsg' \in Carried \union {None} /\ (coreMsg # None => coreMsg' # None)
      BY <2>11, <3>1 DEF LoopNextStray
    <3> QED
      BY <2>11, <3>1, <3>2, <3>3 DEF LoopNextStray
  <2> QED
    BY <1>2, <2>1, <2>2, <2>3, <2>4, <2>5, <2>6, <2>7, <2>8, <2>9, <2>10, <2>11
    DEF HostStep
<1>3. CASE HostFails
  <2>1. CASE AllocFails
    BY <2>1 DEF AllocFails
  <2>2. CASE SyncPutFails
    BY <2>2 DEF SyncPutFails
  <2>3. CASE SyncGetFails
    BY <2>3 DEF SyncGetFails
  <2>4. CASE LoopPutFails
    BY <2>4 DEF LoopPutFails
  <2>5. CASE LoopGetFails
    BY <2>5 DEF LoopGetFails
  <2>6. CASE LoopGetGarbled
    <3>1. Tail(toHost) \in Seq(Carried)
      BY <2>6, QueueOps DEF LoopGetGarbled
    <3>2. i - 1 \in Carried
      BY <2>6 DEF LoopGetGarbled, HostInv
    <3> QED
      BY <2>6, <3>1, <3>2 DEF LoopGetGarbled
  <2> QED
    BY <1>3, <2>1, <2>2, <2>3, <2>4, <2>5, <2>6 DEF HostFails
<1>4. CASE CoreStep
  <2>1. CASE CoreCreate
    BY <2>1 DEF CoreCreate
  <2>2. CASE CoreSyncGet
    <3>1. toCore # <<>> => Head(toCore) \in Carried /\ Tail(toCore) \in Seq(Carried)
      BY QueueOps
    <3> QED
      BY <2>2, <3>1 DEF CoreSyncGet, GetFromHost
  <2>3. CASE CoreSyncPut
    <3>1. coreMsg \in Carried
      BY <2>3 DEF CoreSyncPut
    <3>2. toHost' \in Seq(Carried) /\ coreMsg' = None
      BY <2>3, <3>1, QueueOps DEF CoreSyncPut, Reply
    <3> QED
      BY <2>3, <3>2 DEF CoreSyncPut
  <2>4. CASE CoreLoopGet
    <3>1. toCore # <<>> => Head(toCore) \in Carried /\ Tail(toCore) \in Seq(Carried)
      BY QueueOps
    <3> QED
      BY <2>4, <3>1 DEF CoreLoopGet, GetFromHost
  <2>5. CASE CoreLoopPut
    <3>1. coreMsg \in Carried
      BY <2>5 DEF CoreLoopPut
    <3>2. toHost' \in Seq(Carried) /\ coreMsg' = None
      BY <2>5, <3>1, QueueOps DEF CoreLoopPut, Reply
    <3> QED
      BY <2>5, <3>2 DEF CoreLoopPut
  <2>6. CASE CoreLoopEnd
    BY <2>6 DEF CoreLoopEnd
  <2> QED
    BY <1>4, <2>1, <2>2, <2>3, <2>4, <2>5, <2>6 DEF CoreStep
<1>5. CASE Finished \/ UNCHANGED vars
  BY <1>5 DEF Finished, vars
<1> QED
  BY <1>1, <1>2, <1>3, <1>4, <1>5 DEF Next

(* Every action keeps the variables in their types.                         *)
LEMMA TypeOKStep ==
  TypeOK /\ CarriedInv /\ HostInv /\ CarriedInv' /\ [Next]_vars => TypeOK'
<1> SUFFICES ASSUME TypeOK, CarriedInv, HostInv, CarriedInv', [Next]_vars PROVE TypeOK'
  OBVIOUS
<1> USE MaxLoopsIs, MessageExchangeAssumption, CarriedAreNumbers DEF TypeOK, Numbers,
    HostPc, CorePc, Carried, HostGoto, CoreGoto, Fault, hostVars, coreVars, None
<1> DEFINE Data == /\ msg \in Numbers /\ coreMsg \in Numbers /\ coreLoops \in Numbers
                   /\ toCore \in Seq(Numbers \ {None}) /\ toHost \in Seq(Numbers \ {None})
<1>0. Data'
  BY DEF CarriedInv
<1>1. CASE Start
  <2>1. numLoops' \in Loops /\ numLoops' \in Nat
    BY <1>1 DEF Start
  <2>2. i' \in 0 .. numLoops' + 1
    BY <1>1, <2>1, ZeroIn DEF Start
  <2>4. runs' \in 0 .. MaxRuns
    <3>1. runs \in Nat /\ MaxRuns \in Nat /\ runs < MaxRuns /\ runs' = runs + 1
      BY <1>1 DEF Start
    <3> QED
      BY ONLY <3>1
  <2>3. UNCHANGED <<status, owned, unchecked, core, coreIndex,
      faults>> /\ success' = FALSE /\ host' = "alloc"
    BY <1>1 DEF Start
  <2> QED
    BY <1>0, <2>1, <2>2, <2>3, <2>4
<1>2. CASE HostStep
  <2>1. CASE Alloc
    BY <1>0, <2>1 DEF Alloc
  <2>2. CASE SyncPut
    BY <1>0, <2>2 DEF SyncPut, PutToCore
  <2>3. CASE SyncGet
    BY <1>0, <2>3 DEF SyncGet, GetFromCore
  <2>4. CASE LoopNext
    BY <1>0, <2>4 DEF LoopNext
  <2>5. CASE LoopCrash
    BY <1>0, <2>5 DEF LoopCrash
  <2>6. CASE LoopEnd
    BY <1>0, <2>6 DEF LoopEnd
  <2>7. CASE LoopPut
    BY <1>0, <2>7 DEF LoopPut, PutToCore
  <2>8. CASE LoopGet
    BY <1>0, <2>8 DEF LoopGet, GetFromCore
  <2>9. CASE Check
    BY <1>0, <2>9 DEF Check, HostInv
  <2>10. CASE End
    BY <1>0, <2>10 DEF End
  <2>11. CASE LoopNextStray
    BY <1>0, <2>11 DEF LoopNextStray
  <2> QED
    BY <1>2, <2>1, <2>2, <2>3, <2>4, <2>5, <2>6, <2>7, <2>8, <2>9, <2>10, <2>11
    DEF HostStep
<1>3. CASE HostFails
  <2>1. CASE AllocFails
    BY <1>0, <2>1 DEF AllocFails
  <2>2. CASE SyncPutFails
    BY <1>0, <2>2 DEF SyncPutFails
  <2>3. CASE SyncGetFails
    <3>1. owned' \in BOOLEAN
      BY <2>3 DEF SyncGetFails
    <3>2. unchecked' \in BOOLEAN
      BY <2>3 DEF SyncGetFails
    <3> QED
      BY <1>0, <2>3, <3>1, <3>2 DEF SyncGetFails
  <2>4. CASE LoopPutFails
    <3>1. owned' \in BOOLEAN
      BY <2>4 DEF LoopPutFails
    <3> QED
      BY <1>0, <2>4, <3>1 DEF LoopPutFails
  <2>5. CASE LoopGetFails
    BY <1>0, <2>5 DEF LoopGetFails
  <2>6. CASE LoopGetGarbled
    BY <1>0, <2>6 DEF LoopGetGarbled
  <2> QED
    BY <1>3, <2>1, <2>2, <2>3, <2>4, <2>5, <2>6 DEF HostFails
<1>4. CASE CoreStep
  <2>1. CASE CoreCreate
    BY <1>0, <2>1 DEF CoreCreate
  <2>2. CASE CoreSyncGet
    BY <1>0, <2>2 DEF CoreSyncGet, GetFromHost
  <2>3. CASE CoreSyncPut
    BY <1>0, <2>3 DEF CoreSyncPut, Reply
  <2>4. CASE CoreLoopGet
    BY <1>0, <2>4 DEF CoreLoopGet, GetFromHost
  <2>5. CASE CoreLoopPut
    BY <1>0, <2>5 DEF CoreLoopPut, Reply, CarriedInv
  <2>6. CASE CoreLoopEnd
    BY <1>0, <2>6 DEF CoreLoopEnd
  <2> QED
    BY <1>4, <2>1, <2>2, <2>3, <2>4, <2>5, <2>6 DEF CoreStep
<1>5. CASE Finished \/ UNCHANGED vars
  <2>1. UNCHANGED vars
    BY <1>5 DEF Finished
  <2> QED
    BY <1>0, <2>1 DEF vars
<1> QED
  BY <1>1, <1>2, <1>3, <1>4, <1>5 DEF Next

(* The host comes to a put, a check or the end with what it needs.         *)
LEMMA HostInvStep == TypeOK /\ CarriedInv /\ HostInv /\ [Next]_vars => HostInv'
<1> SUFFICES ASSUME TypeOK, CarriedInv, HostInv, [Next]_vars PROVE HostInv'
  OBVIOUS
<1> USE MaxLoopsIs DEF TypeOK, HostInv, Numbers, HostPc, CorePc, HostGoto, CoreGoto,
    Fault, hostVars, coreVars, None
<1>1. CASE Start
  BY <1>1 DEF Start
<1>2. CASE HostStep
  <2>1. CASE Alloc
    BY <2>1 DEF Alloc
  <2>2. CASE SyncPut
    BY <2>2 DEF SyncPut, PutToCore
  <2>3. CASE SyncGet
    <3>1. toHost # <<>> => Head(toHost) \in Carried /\ Tail(toHost) \in Seq(Carried)
      BY QueueOps DEF CarriedInv
    <3> QED
      BY <2>3, <3>1 DEF SyncGet, GetFromCore, Carried
  <2>4. CASE LoopNext
    BY <2>4 DEF LoopNext
  <2>5. CASE LoopCrash
    BY <2>5 DEF LoopCrash
  <2>6. CASE LoopEnd
    BY <2>6 DEF LoopEnd
  <2>7. CASE LoopPut
    BY <2>7 DEF LoopPut, PutToCore
  <2>8. CASE LoopGet
    <3>1. toHost # <<>> => Head(toHost) \in Carried /\ Tail(toHost) \in Seq(Carried)
      BY QueueOps DEF CarriedInv
    <3> QED
      BY <2>8, <3>1 DEF LoopGet, GetFromCore, Carried
  <2>9. CASE Check
    BY <2>9 DEF Check
  <2>10. CASE End
    BY <2>10 DEF End
  <2>11. CASE LoopNextStray
    BY <2>11 DEF LoopNextStray
  <2> QED
    BY <1>2, <2>1, <2>2, <2>3, <2>4, <2>5, <2>6, <2>7, <2>8, <2>9, <2>10, <2>11
    DEF HostStep
<1>3. CASE HostFails
  <2>1. CASE AllocFails
    BY <2>1 DEF AllocFails
  <2>2. CASE SyncPutFails
    BY <2>2 DEF SyncPutFails
  <2>3. CASE SyncGetFails
    BY <2>3 DEF SyncGetFails
  <2>4. CASE LoopPutFails
    BY <2>4 DEF LoopPutFails
  <2>5. CASE LoopGetFails
    BY <2>5 DEF LoopGetFails
  <2>6. CASE LoopGetGarbled
    BY <2>6 DEF LoopGetGarbled
  <2> QED
    BY <1>3, <2>1, <2>2, <2>3, <2>4, <2>5, <2>6 DEF HostFails
<1>4. CASE CoreStep
  <2>1. CASE CoreCreate
    BY <2>1 DEF CoreCreate
  <2>2. CASE CoreSyncGet
    BY <2>2 DEF CoreSyncGet, GetFromHost
  <2>3. CASE CoreSyncPut
    BY <2>3 DEF CoreSyncPut, Reply
  <2>4. CASE CoreLoopGet
    BY <2>4 DEF CoreLoopGet, GetFromHost
  <2>5. CASE CoreLoopPut
    BY <2>5 DEF CoreLoopPut, Reply
  <2>6. CASE CoreLoopEnd
    BY <2>6 DEF CoreLoopEnd
  <2> QED
    BY <1>4, <2>1, <2>2, <2>3, <2>4, <2>5, <2>6 DEF CoreStep
<1>5. CASE Finished \/ UNCHANGED vars
  <2>1. UNCHANGED <<host, numLoops, i, status, msg, owned, unchecked>>
    BY ONLY <1>5 DEF Finished, vars, hostVars
  <2> QED
    BY ONLY HostInv, <2>1 DEF HostInv
<1> QED
  BY <1>1, <1>2, <1>3, <1>4, <1>5 DEF Next

(* As long as nothing fails, host and core move the message on together.    *)
LEMMA ExchangeInvStep ==
  TypeOK /\ CarriedInv /\ HostInv /\ ExchangeInv /\ [Next]_vars => ExchangeInv'
<1> SUFFICES ASSUME TypeOK, CarriedInv, HostInv, ExchangeInv, [Next]_vars, faults' = 0
             PROVE  Exchange'
  BY DEF ExchangeInv
<1> USE DEF HostGoto, CoreGoto, Fault, hostVars, coreVars, None
<1>a. faults \in 0 .. MaxFaults /\ i \in Int /\ numLoops \in Nat /\ coreIndex \in Int /\ coreLoops \in Int
  BY MaxLoopsIs DEF TypeOK, CarriedInv, Carried, Numbers
<1>0. faults = 0 /\ Exchange
  <2>1. faults = 0
    BY <1>a DEF Next, Start, HostStep, HostFails, CoreStep, Alloc, SyncPut, SyncGet,
        LoopNext, LoopNextStray,
       LoopCrash, LoopEnd, LoopPut, LoopGet, Check, End, AllocFails, SyncPutFails,
           SyncGetFails,
       LoopPutFails, LoopGetFails, LoopGetGarbled, CoreCreate, CoreSyncGet, CoreSyncPut,
       CoreLoopGet, CoreLoopPut, CoreLoopEnd, Finished, vars
  <2> QED
    BY <2>1 DEF ExchangeInv
<1>b. ASSUME NEW q, q = <<>> PROVE \A x \in Carried : Append(q, x) = <<x>>
  BY <1>b, OneInQueue
<1>c. i \in 1 .. numLoops => i \in Carried
  BY <1>a, MaxLoopsIs DEF TypeOK, Carried
<1>d. numLoops \in Carried
  BY MaxLoopsIs DEF TypeOK, Carried
<1>1. CASE Start
  <2>1. Nowhere' /\ Idle'
    BY <1>0, <1>1 DEF Start, Exchange, Nowhere, Idle
  <2> QED
    BY <1>1, <2>1 DEF Start, Exchange
<1>2. CASE HostStep
  <2>1. CASE Alloc
    <3>1. AtHost' /\ Idle'
      BY <1>0, <1>a, <2>1 DEF Alloc, Exchange, Nowhere, AtHost, Idle
    <3> QED
      BY <2>1, <3>1 DEF Alloc, Exchange
  <2>2. CASE SyncPut
    <3>1. AtHost /\ Idle /\ msg = numLoops
      BY <1>0, <2>2 DEF SyncPut, Exchange, HostInv
    <3>2. ToCore(numLoops)' /\ Idle'
      BY <1>b, <1>d, <2>2, <3>1 DEF SyncPut, PutToCore, AtHost, ToCore, Idle
    <3> QED
      BY <2>2, <3>2 DEF SyncPut, Exchange
  <2>3. CASE SyncGet
    <3>1. ToHost(numLoops) /\ Serves(1)
      BY <1>0, <2>3 DEF SyncGet, GetFromCore, Exchange, ToCore, AtCore
    <3>2. msg' = numLoops /\ toHost' = <<>>
      BY <1>d, <2>3, <3>1, OneInQueue DEF SyncGet, GetFromCore, ToHost
    <3>3. AtHost' /\ Serves(i)'
      <4>1. owned' /\ UNCHANGED <<coreVars, toCore, numLoops>> /\ i' = 1
        BY <2>3 DEF SyncGet, GetFromCore
      <4> QED
        BY <1>a, <3>1, <3>2, <4>1 DEF AtHost, ToHost, Serves, Idle
    <3> QED
      BY <2>3, <3>3 DEF SyncGet, Exchange
  <2>4. CASE LoopNext
    <3>1. AtHost' /\ Serves(i)'
      BY <1>0, <1>a, <2>4 DEF LoopNext, HostInv, Exchange, AtHost, Serves, Idle
    <3> QED
      BY <2>4, <3>1 DEF LoopNext, Exchange
  <2>5. CASE LoopCrash
    BY <1>0, <2>5 DEF LoopCrash, Exchange, AtHost
  <2>6. CASE LoopEnd
    <3>1. AtHost /\ Idle /\ status = 0
      BY <1>0, <2>6 DEF LoopEnd, HostInv, Exchange, Serves
    <3>2. AtHost' /\ Idle' /\ status' = 0
      BY <2>6, <3>1 DEF LoopEnd, AtHost, Idle
    <3> QED
      BY <2>6, <3>2 DEF LoopEnd, Exchange
  <2>7. CASE LoopPut
    <3>1. AtHost /\ Serves(i) /\ msg = i /\ i \in Carried
      BY <1>0, <1>a, <1>c, <2>7 DEF LoopPut, Exchange, HostInv
    <3>2. ToCore(i)' /\ Serves(i)'
      BY <1>b, <2>7, <3>1 DEF LoopPut, PutToCore, AtHost, ToCore, Serves, Idle
    <3> QED
      BY <2>7, <3>2 DEF LoopPut, Exchange
  <2>8. CASE LoopGet
    <3>1. ToHost(i) /\ Serves(i + 1) /\ i \in Carried
      BY <1>0, <1>a, <1>c, <2>8 DEF LoopGet, GetFromCore, Exchange, ToCore, AtCore,
          HostInv
    <3>2. msg' = i /\ toHost' = <<>>
      BY <2>8, <3>1, OneInQueue DEF LoopGet, GetFromCore, ToHost
    <3>3. AtHost' /\ Serves(i + 1)'
      <4>1. owned' /\ UNCHANGED <<coreVars, toCore, numLoops, i>>
        BY <2>8 DEF LoopGet, GetFromCore
      <4> QED
        BY <3>1, <3>2, <4>1 DEF AtHost, ToHost, Serves, Idle, Carried
    <3> QED
      BY <2>8, <3>2, <3>3 DEF LoopGet, Exchange
  <2>9. CASE Check
    <3>1. AtHost /\ msg = i /\ Serves(i + 1)
      BY <1>0, <2>9 DEF Check, Exchange
    <3>2. host' = "loop" /\ AtHost' /\ Serves(i)'
      BY <2>9, <3>1 DEF Check, AtHost, Serves, Idle
    <3> QED
      BY <3>2 DEF Exchange
  <2>10. CASE End
    <3>1. Nowhere' /\ Idle'
      <4>1. AtHost /\ Idle /\ status = 0
        BY <1>0, <2>10 DEF End, Exchange
      <4>2. ~owned' /\ toHost' = <<>> /\ UNCHANGED <<coreVars, toCore>>
        <5>1. ~(status < 0)
          BY <4>1
        <5>2. owned' = (owned /\ status < 0) /\ toHost' = <<>>
          BY <2>10 DEF End
        <5>3. ~owned'
          BY <5>1, <5>2, Zenon
        <5> QED
          BY <2>10, <5>2, <5>3 DEF End
      <4> QED
        BY <4>1, <4>2 DEF AtHost, Nowhere, Idle
    <3> QED
      BY <2>10, <3>1 DEF End, Exchange
  <2>11. CASE LoopNextStray
    BY <1>0, <2>11 DEF LoopNextStray, Exchange, AtHost
  <2> QED
    BY <1>2, <2>1, <2>2, <2>3, <2>4, <2>5, <2>6, <2>7, <2>8, <2>9, <2>10, <2>11
    DEF HostStep
<1>3. CASE HostFails
  BY <1>0, <1>3 DEF HostFails, AllocFails, SyncPutFails, SyncGetFails, LoopPutFails,
     LoopGetFails, LoopGetGarbled
<1>4. CASE CoreStep
  <2>1. CASE CoreCreate \/ CoreLoopEnd
    <3>1. Idle /\ Idle'
      BY <1>a, <2>1 DEF CoreCreate, CoreLoopEnd, Idle
    <3>2. \A n \in Int : Serves(n) => Serves(n)'
      BY <1>a, <2>1, <3>1 DEF CoreCreate, CoreLoopEnd, Serves
    <3>3. UNCHANGED <<hostVars, coreMsg, toCore, toHost>> /\ core \notin {"sync_put",
        "put"}
      BY <2>1 DEF CoreCreate, CoreLoopEnd
    <3>4. UNCHANGED <<Nowhere, AtHost, ToCore(numLoops), ToCore(i), ToHost(numLoops),
        ToHost(i)>>
      BY <3>3 DEF Nowhere, AtHost, ToCore, ToHost
    <3> HIDE DEF Nowhere, AtHost, ToCore, ToHost, AtCore, Idle, Serves
    <3> QED
      BY <1>0, <1>a, <3>1, <3>2, <3>3, <3>4 DEF Exchange
  <2>2. CASE CoreSyncGet
    <3>1. host = "sync_get" /\ ToCore(numLoops)
      <4>1. core = "sync_get" /\ toCore # <<>> /\ host \in HostPc
        BY <2>2 DEF CoreSyncGet, GetFromHost, TypeOK
      <4>2. host = "get" => ~(ToCore(i) /\ Serves(i))
        BY <1>a, <4>1 DEF HostInv, Serves
      <4> QED
        BY <1>0, <4>1, <4>2 DEF Exchange, Nowhere, AtHost, AtCore, ToHost, HostPc
    <3>2. coreMsg' = numLoops /\ toCore' = <<>>
      BY <1>d, <2>2, <3>1, OneInQueue DEF CoreSyncGet, GetFromHost, ToCore
    <3>3. AtCore(numLoops)' /\ core' = "sync_put" /\ coreLoops' = numLoops'
      BY <2>2, <3>1, <3>2 DEF CoreSyncGet, AtCore, ToCore
    <3> QED
      BY <2>2, <3>1, <3>3 DEF CoreSyncGet, Exchange
  <2>3. CASE CoreSyncPut
    <3>1. host = "sync_get" /\ AtCore(numLoops) /\ coreLoops = numLoops
      <4>1. core = "sync_put" /\ ~Idle /\ host \in HostPc
        BY <2>3 DEF CoreSyncPut, Idle, TypeOK
      <4>2. \A n \in Int : ~Serves(n)
        BY <1>a, <4>1 DEF Serves
      <4> QED
        BY <1>0, <1>a, <4>1, <4>2 DEF Exchange, HostPc
    <3>2. ToHost(numLoops)'
      BY <1>b, <1>d, <2>3, <3>1 DEF CoreSyncPut, Reply, AtCore, ToHost
    <3>3. Serves(1)'
      BY <1>a, <2>3, <3>1 DEF CoreSyncPut, Serves, Idle
    <3> QED
      BY <2>3, <3>1, <3>2, <3>3 DEF CoreSyncPut, Exchange
  <2>4. CASE CoreLoopGet
    <3>1. host = "get" /\ ToCore(i) /\ Serves(i)
      <4>1. ~Idle /\ toCore # <<>> /\ host \in HostPc
        BY <1>a, <2>4 DEF CoreLoopGet, GetFromHost, Idle, TypeOK
      <4> QED
        BY <1>0, <4>1 DEF Exchange, Nowhere, AtHost, AtCore, ToHost, HostPc
    <3>2. i \in Carried /\ i <= numLoops
      BY <1>a, <1>c, <3>1 DEF HostInv
    <3>3. coreMsg' = i /\ toCore' = <<>>
      BY <2>4, <3>1, <3>2, OneInQueue DEF CoreLoopGet, GetFromHost, ToCore
    <3>4. AtCore(i)' /\ core' = "put" /\ coreIndex' = i' /\ coreLoops' = numLoops'
      BY <2>4, <3>1, <3>2, <3>3 DEF CoreLoopGet, AtCore, ToCore, Serves
    <3> QED
      BY <2>4, <3>1, <3>4 DEF CoreLoopGet, Exchange
  <2>5. CASE CoreLoopPut
    <3>1. host = "get" /\ AtCore(i) /\ coreIndex = i /\ coreLoops = numLoops
      <4>1. core = "put" /\ ~Idle /\ host \in HostPc
        BY <2>5 DEF CoreLoopPut, Idle, TypeOK
      <4>2. \A n \in Int : ~Serves(n)
        BY <1>a, <4>1 DEF Serves
      <4> QED
        BY <1>0, <1>a, <4>1, <4>2 DEF Exchange, HostPc
    <3>2. i \in Carried
      BY <1>a, <1>c, <3>1 DEF HostInv
    <3>3. ToHost(i)'
      BY <1>b, <2>5, <3>1, <3>2 DEF CoreLoopPut, Reply, AtCore, ToHost
    <3>4. Serves(i + 1)'
      BY <1>a, <2>5, <3>1 DEF CoreLoopPut, Serves, Idle
    <3> QED
      BY <2>5, <3>1, <3>3, <3>4 DEF CoreLoopPut, Exchange
  <2> QED
    BY <1>4, <2>1, <2>2, <2>3, <2>4, <2>5 DEF CoreStep
<1>5. CASE Finished \/ UNCHANGED vars
  BY <1>0, <1>5 DEF Finished, vars, Exchange, Nowhere, AtHost, ToCore, AtCore, ToHost,
      Idle, Serves
<1> QED
  BY <1>1, <1>2, <1>3, <1>4, <1>5 DEF Next

---------------------------------------------------------------------------
(* The parts together are an invariant of the exchange.                     *)
LEMMA Invariance == Spec => []IInv
<1>1. Init => IInv
  <2> SUFFICES ASSUME Init PROVE IInv
    OBVIOUS
  <2> USE MaxLoopsIs, MessageExchangeAssumption DEF Init, None
  <2>1. TypeOK
    <3>1. i \in 0 .. numLoops + 1 /\ numLoops \in Nat
      BY ZeroIn
    <3>2. runs \in 0 .. MaxRuns /\ faults \in 0 .. MaxFaults
      BY ZeroIn
    <3>3. msg \in Numbers /\ coreMsg \in Numbers /\ coreLoops \in Numbers /\ coreIndex \in Numbers
      BY DEF Numbers
    <3>4. toCore \in Seq(Numbers \ {None}) /\ toHost \in Seq(Numbers \ {None})
      OBVIOUS
    <3>5. numLoops \in Loops /\ host = "exit" /\ core = "create" /\ status = 0
          /\ success = FALSE /\ owned = FALSE /\ unchecked = FALSE
      OBVIOUS
    <3> QED
      BY ONLY <3>1, <3>2, <3>3, <3>4, <3>5 DEF TypeOK, HostPc, CorePc
  <2>2. CarriedInv
    BY DEF CarriedInv, Carried
  <2>3. HostInv /\ ExchangeInv
    BY DEF HostInv, ExchangeInv, Exchange, Nowhere, Idle
  <2> QED
    BY <2>1, <2>2, <2>3 DEF IInv
<1>2. IInv /\ [Next]_vars => IInv'
  BY CarriedInvStep, TypeOKStep, HostInvStep, ExchangeInvStep DEF IInv
<1> QED
  BY <1>1, <1>2, PTL DEF Spec

(* Whatever fails but the get of the handshake, the host writes, puts and    *)
(* checks a message only while it has it, and frees what it has.           *)
THEOREM HoldsWhatIsUsed == Spec => []HoldsWhatItUses
<1>1. IInv => HoldsWhatItUses
  BY DEF IInv, HostInv, HoldsWhatItUses
<1> QED
  BY <1>1, Invariance, PTL

(* As long as nothing fails there is one message while a process runs, and  *)
(* none before and after.                                                   *)
THEOREM ThereIsOneMessage == Spec => []OneMessage
<1>1. IInv => OneMessage
  <2> SUFFICES ASSUME IInv, faults = 0
               PROVE  Holds(owned) + Holds(coreMsg # None) + Len(toCore) + Len(toHost)
                        = IF host \in {"exit", "alloc"} THEN 0 ELSE 1
    BY DEF OneMessage
  <2>1. Exchange /\ host \in HostPc
    BY DEF IInv, ExchangeInv, TypeOK
  <2>2. Len(<<>>) = 0 /\ \A x : Len(<<x>>) = 1
    OBVIOUS
  <2>3. CASE Nowhere /\ host \in {"exit", "alloc"}
    BY <2>2, <2>3 DEF Nowhere, Holds
  <2>4. CASE AtHost /\ host \notin {"exit", "alloc"}
    BY <2>2, <2>4 DEF AtHost, Holds
  <2>5. ASSUME NEW n \in Nat, ToCore(n) \/ AtCore(n) \/ ToHost(n), host \notin {"exit",
      "alloc"}
        PROVE  Holds(owned) + Holds(coreMsg # None) + Len(toCore) + Len(toHost) = 1
    <3>1. CASE ToCore(n)
      BY <2>2, <3>1 DEF ToCore, Holds
    <3>2. CASE AtCore(n)
      BY <2>2, <3>2 DEF AtCore, Holds, None
    <3>3. CASE ToHost(n)
      BY <2>2, <3>3 DEF ToHost, Holds
    <3> QED
      BY <2>5, <3>1, <3>2, <3>3
  <2>6. host \in {"sync_get", "get"} => \E n \in Nat : ToCore(n) \/ AtCore(n) \/ ToHost(n)
    <3>1. numLoops \in Nat /\ i \in Nat
      BY MaxLoopsIs DEF IInv, TypeOK
    <3> QED
      BY <2>1, <3>1 DEF Exchange
  <2> QED
    BY <2>1, <2>3, <2>4, <2>5, <2>6 DEF Exchange, HostPc
<1> QED
  BY <1>1, Invariance, PTL

(* As long as nothing fails the core counts the messages of the host that   *)
(* runs, and never takes a handshake for a message.                         *)
THEOREM SidesInStep == Spec => []InStep
<1>1. IInv => InStep
  <2> SUFFICES ASSUME IInv PROVE TypeOK /\ HandshakeDone /\ RemoteInStep
    BY DEF InStep
  <2>1. HandshakeDone
    BY DEF IInv, ExchangeInv, Exchange, HandshakeDone, Serves
  <2>2. RemoteInStep
    <3> SUFFICES ASSUME faults = 0, core = "asserted" PROVE FALSE
      BY DEF RemoteInStep
    <3>1. ~Idle /\ Exchange /\ host \in HostPc /\ i \in Int /\ numLoops \in Int
      BY MaxLoopsIs DEF IInv, ExchangeInv, Idle, TypeOK
    <3>2. \A n \in Int : ~Serves(n)
      BY <3>1 DEF Serves
    <3> QED
      BY <3>1, <3>2 DEF Exchange, HostPc
  <2> QED
    BY <2>1, <2>2 DEF IInv
<1> QED
  BY <1>1, Invariance, PTL

---------------------------------------------------------------------------
(**************************************************************************)
(* The message round the processors (MessageRing): there is one, it is where*)
(* the rounds that the processors have counted say it is, and it is not sent*)
(* to one that has left.                                                   *)
(**************************************************************************)

(* Before the message is allocated nobody has sent or counted anything. *)
NoMessage ==
  /\ heapFree \in {Nothing, NumBlocks}
  /\ pc[0] \in {"main", "heap", "create", "open", "alloc"}
  /\ \A p \in Proc : queue[p] = <<>> /\ msgOf[p] = Nothing /\ msgId[p] = 0

(* Then it is with one processor, in its queue or in its hands, and those   *)
(* it has passed in this round have counted the round.                      *)
MessageAt(h) ==
  /\ heapFree = NumBlocks - 1
  /\ \A p \in Proc \ {h} : queue[p] = <<>> /\ msgOf[p] = Nothing
  /\ \/ queue[h] = <<msgId[0]>> /\ msgOf[h] = Nothing /\ pc[0] = "get"
     \/ /\ queue[h] = <<>> /\ msgOf[h] = msgId[0]
        /\ IF h = 0 THEN pc[0] \in {"loop", "put", "exit"} ELSE pc[0] = "get"
  /\ \A p \in Proc \ {0} :
       msgId[p] = IF h # 0 /\ p >= h THEN msgId[0] - 1 ELSE msgId[0]

(* The others leave with the last round, and pass on what they have got. *)
PcInv ==
  /\ pc[0] # "pass"
  /\ pc[0] = "put" => msgId[0] < NUMLOOPS
  /\ \A p \in Proc \ {0} :
       /\ pc[p] \notin {"alloc", "loop", "put"}
       /\ pc[p] = "pass" <=> msgOf[p] # Nothing
       /\ pc[p] = "exit" <=> msgId[p] = NUMLOOPS

RingInv == RingTypeOK /\ PcInv /\ (NoMessage \/ \E h \in Proc : MessageAt(h))

---------------------------------------------------------------------------
(* The next processor is the one with the next number, or processor 0. *)
LEMMA NextIs ==
  \A p \in Proc : NextProcId(p) = (IF p = Processors - 1 THEN 0 ELSE p + 1)
<1> SUFFICES ASSUME NEW p \in Proc
             PROVE  NextProcId(p) = IF p = Processors - 1 THEN 0 ELSE p + 1
  OBVIOUS
<1>1. \A a \in Nat, b \in Nat \ {0} : (a < b => a % b = a) /\ (a = b => a % b = 0)
  OBVIOUS
<1> QED
  BY <1>1, MessageRingAssumption DEF NextProcId, Proc

LEMMA NextInRing == 0 \in Proc /\ \A p \in Proc : NextProcId(p) \in Proc
BY NextIs, MessageRingAssumption DEF Proc

(* Queues of at most one message. *)
LEMMA OneInRingQueue ==
  \A x \in 0 .. NUMLOOPS :
    Append(<<>>, x) = <<x>> /\ Head(<<x>>) = x /\ Tail(<<x>>) = <<>> /\ <<x>> # <<>>
OBVIOUS

(* Every action keeps the variables in their types.                         *)
LEMMA RingTypeStep == RingInv /\ [RingNext]_ringVars => RingTypeOK'
<1> SUFFICES ASSUME RingInv, [RingNext]_ringVars PROVE RingTypeOK'
  OBVIOUS
<1> USE MessageRingAssumption, NextInRing DEF RingInv, RingTypeOK, RingGoto, Nothing
<1>1. CASE IpcStart
  BY <1>1 DEF IpcStart
<1>2. ASSUME NEW p \in Proc, ProcStep(p) PROVE RingTypeOK'
  <2>1. CASE GetHeap(p)
    BY <2>1 DEF GetHeap
  <2>2. CASE CreateQueue(p)
    BY <2>2 DEF CreateQueue
  <2>3. CASE OpenNext(p)
    BY <2>3 DEF OpenNext
  <2>4. CASE AllocMessage
    BY <2>4 DEF AllocMessage
  <2>5. CASE Loop
    BY <2>5 DEF Loop
  <2>6. CASE Send
    <3>1. msgId[0] + 1 \in 0 .. NUMLOOPS
      BY <2>6 DEF Send, PcInv
    <3> QED
      BY <2>6, <3>1 DEF Send, PutNext
  <2>7. CASE GetNext(p)
    <3>1. Head(queue[p]) \in 0 .. NUMLOOPS /\ Tail(queue[p]) \in Seq(0 .. NUMLOOPS)
      BY <2>7 DEF GetNext
    <3> QED
      BY <2>7, <3>1 DEF GetNext
  <2>8. CASE p # 0 /\ Pass(p)
    <3>1. msgOf[p] \in 0 .. NUMLOOPS
      BY <2>8 DEF Pass, PcInv
    <3> QED
      BY <2>8, <3>1 DEF Pass, PutNext
  <2> QED
    BY <1>2, <2>1, <2>2, <2>3, <2>4, <2>5, <2>6, <2>7, <2>8 DEF ProcStep
<1>3. CASE UNCHANGED ringVars
  BY <1>3 DEF ringVars
<1> QED
  BY <1>1, <1>2, <1>3 DEF RingNext

(* Of the messages there is one: it is with h, if anybody has any. *)
LEMMA OnlyHolder ==
  ASSUME RingTypeOK, PcInv, NoMessage \/ \E h \in Proc : MessageAt(h),
         NEW p \in Proc, queue[p] # <<>> \/ msgOf[p] # Nothing
  PROVE  MessageAt(p)
BY DEF NoMessage, MessageAt

(* The message stays one, and moves on as the processors count.             *)
LEMMA RingInvStep ==
  RingInv /\ [RingNext]_ringVars => PcInv' /\ (NoMessage' \/ \E h \in Proc : MessageAt(h)')
<1> DEFINE Goal == PcInv' /\ (NoMessage' \/ \E h \in Proc : MessageAt(h)')
<1> SUFFICES ASSUME RingInv, [RingNext]_ringVars PROVE Goal
  OBVIOUS
<1> USE MessageRingAssumption, NextInRing DEF RingTypeOK, RingGoto, Nothing
<1>0. RingTypeOK /\ PcInv /\ (NoMessage \/ \E h \in Proc : MessageAt(h)) /\ RingTypeOK'
  BY RingTypeStep DEF RingInv
<1>1. CASE IpcStart
  BY <1>0, <1>1 DEF IpcStart, PcInv, NoMessage, MessageAt
<1>2. ASSUME NEW p \in Proc, ProcStep(p) PROVE Goal
  <2>1. CASE GetHeap(p)
    <3>1. PcInv'
      BY <1>0, <2>1 DEF GetHeap, PcInv, HasQueue
    <3>2. NoMessage => NoMessage'
      BY <1>0, <2>1 DEF GetHeap, NoMessage
    <3>3. \A h \in Proc : MessageAt(h) => MessageAt(h)'
      BY <1>0, <2>1 DEF GetHeap, MessageAt
    <3> QED
      BY <1>0, <3>1, <3>2, <3>3
  <2>2. CASE CreateQueue(p)
    <3>1. PcInv'
      BY <1>0, <2>2 DEF CreateQueue, PcInv, HasQueue
    <3>2. NoMessage => NoMessage'
      BY <1>0, <2>2 DEF CreateQueue, NoMessage
    <3>3. \A h \in Proc : MessageAt(h) => MessageAt(h)'
      BY <1>0, <2>2 DEF CreateQueue, MessageAt
    <3> QED
      BY <1>0, <3>1, <3>2, <3>3
  <2>3. CASE OpenNext(p)
    <3>1. PcInv'
      BY <1>0, <2>3 DEF OpenNext, PcInv, HasQueue
    <3>2. NoMessage => NoMessage'
      BY <1>0, <2>3 DEF OpenNext, NoMessage
    <3>3. \A h \in Proc : MessageAt(h) => MessageAt(h)'
      BY <1>0, <2>3 DEF OpenNext, MessageAt
    <3> QED
      BY <1>0, <3>1, <3>2, <3>3
  <2>4. CASE AllocMessage
    <3>1. NoMessage
      BY <1>0, <2>4 DEF AllocMessage, MessageAt
    <3>2. PcInv' /\ MessageAt(0)'
      BY <1>0, <2>4, <3>1 DEF AllocMessage, PcInv, NoMessage, MessageAt
    <3> QED
      BY <3>2
  <2>5. CASE Loop
    <3>1. MessageAt(0)
      BY <1>0, <2>5 DEF Loop, NoMessage, MessageAt
    <3>2. PcInv' /\ MessageAt(0)'
      BY <1>0, <2>5, <3>1 DEF Loop, PcInv, MessageAt
    <3> QED
      BY <3>2
  <2>6. CASE Send
    <3> DEFINE n == NextProcId(0)
    <3>1. MessageAt(0) /\ msgId[0] < NUMLOOPS /\ queue[n] = <<>>
      BY <1>0, <2>6 DEF Send, NoMessage, MessageAt, PcInv
    <3>2. /\ pc' = [pc EXCEPT ![0] = "get"] /\ heapFree' = heapFree
          /\ queue' = [queue EXCEPT ![n] = <<msgId[0] + 1>>]
          /\ msgOf' = [msgOf EXCEPT ![0] = Nothing]
          /\ msgId' = [msgId EXCEPT ![0] = @ + 1]
      BY <2>6, <3>1, OneInRingQueue DEF Send, PutNext
    <3>3. PcInv'
      BY <1>0, <3>1, <3>2 DEF PcInv
    <3>4. MessageAt(n)'
      <4>1. \A q \in Proc : queue'[q] = (IF q = n THEN <<msgId[0] + 1>> ELSE <<>>)
        <5>1. \A q \in Proc \ {n} : queue[q] = <<>>
          BY <1>0, <2>6, <3>1 DEF MessageAt, Send
        <5> QED
          BY <1>0, <3>2, <5>1
      <4>2. \A q \in Proc : msgOf'[q] = Nothing
        BY <1>0, <3>1, <3>2 DEF MessageAt
      <4>3. msgId'[0] = msgId[0] + 1 /\ pc'[0] = "get"
        BY <1>0, <3>2
      <4>4. \A q \in Proc \ {0} :
              msgId'[q] = IF n # 0 /\ q >= n THEN msgId'[0] - 1 ELSE msgId'[0]
        <5>1. \A q \in Proc \ {0} : msgId'[q] = msgId[0]
          BY <1>0, <3>1, <3>2 DEF MessageAt
        <5>2. \A q \in Proc \ {0} : n # 0 /\ q >= n
          BY NextIs DEF Proc
        <5>3. msgId'[0] - 1 = msgId[0]
          <6>1. msgId[0] \in Int
            BY <1>0
          <6> QED
            BY <4>3, <6>1
        <5> QED
          BY <5>1, <5>2, <5>3
      <4> QED
        BY <3>1, <3>2, <4>1, <4>2, <4>3, <4>4 DEF MessageAt
    <3> QED
      BY <3>3, <3>4
  <2>7. CASE GetNext(p)
    <3>1. MessageAt(p)
      BY <1>0, <2>7, OnlyHolder DEF GetNext
    <3>2. queue[p] = <<msgId[0]>> /\ pc[0] = "get"
      BY <2>7, <3>1 DEF GetNext, MessageAt
    <3>3. /\ pc' = [pc EXCEPT ![p] = IF p = 0 THEN "loop" ELSE "pass"]
          /\ msgOf' = [msgOf EXCEPT ![p] = msgId[0]]
          /\ queue' = [queue EXCEPT ![p] = <<>>]
          /\ UNCHANGED <<heapFree, msgId>> /\ pc[p] = "get"
      BY <1>0, <2>7, <3>2, OneInRingQueue DEF GetNext
    <3>4. PcInv'
      BY <1>0, <3>3 DEF PcInv
    <3>5. MessageAt(p)'
      BY <1>0, <3>1, <3>2, <3>3 DEF MessageAt
    <3> QED
      BY <3>4, <3>5
  <2>8. CASE p # 0 /\ Pass(p)
    <3> DEFINE n == NextProcId(p)
    <3>1. MessageAt(p) /\ msgOf[p] # Nothing
      BY <1>0, <2>8, OnlyHolder DEF Pass, PcInv
    <3>2. msgOf[p] = msgId[0] /\ queue[p] = <<>> /\ pc[0] = "get"
      BY <2>8, <3>1 DEF MessageAt
    <3>3. n # p /\ queue[n] = <<>>
      BY <2>8, <3>1, NextIs DEF MessageAt, Proc
    <3>4. /\ pc' = [pc EXCEPT ![p] = IF msgId[0] >= NUMLOOPS THEN "exit" ELSE "get"]
          /\ queue' = [queue EXCEPT ![n] = <<msgId[0]>>]
          /\ msgOf' = [msgOf EXCEPT ![p] = Nothing]
          /\ msgId' = [msgId EXCEPT ![p] = msgId[0]]
          /\ UNCHANGED heapFree /\ pc[p] = "pass"
      BY <1>0, <2>8, <3>2, <3>3, OneInRingQueue DEF Pass, PutNext
    <3>5. PcInv'
      BY <1>0, <2>8, <3>4 DEF PcInv
    <3>6. MessageAt(n)'
      <4>1. \A q \in Proc : queue'[q] = (IF q = n THEN <<msgId[0]>> ELSE <<>>)
        BY <1>0, <3>1, <3>2, <3>3, <3>4 DEF MessageAt
      <4>2. \A q \in Proc : msgOf'[q] = Nothing
        BY <1>0, <3>1, <3>2, <3>4 DEF MessageAt
      <4>3. msgId'[0] = msgId[0] /\ pc'[0] = "get"
        BY <1>0, <2>8, <3>2, <3>4
      <4>4. \A q \in Proc \ {0} :
              msgId'[q] = IF n # 0 /\ q >= n THEN msgId'[0] - 1 ELSE msgId'[0]
        <5>1. \A q \in Proc \ {0} : msgId[q] = IF q >= p THEN msgId[0] - 1 ELSE msgId[0]
          BY <2>8, <3>1 DEF MessageAt
        <5>2. ASSUME NEW q \in Proc \ {0}
              PROVE  msgId'[q] = IF q > p THEN msgId[0] - 1 ELSE msgId[0]
          <6>1. CASE q = p
            BY <1>0, <3>4, <6>1 DEF Proc
          <6>2. CASE q # p
            <7>1. q > p <=> q >= p
              BY ONLY <6>2, MessageRingAssumption DEF Proc
            <7>2. msgId'[q] = msgId[q]
              BY ONLY <1>0, <3>4, <6>2 DEF RingTypeOK
            <7> QED
              BY <5>1, <7>1, <7>2
          <6> QED
            BY <6>1, <6>2
        <5>3. \A q \in Proc \ {0} : q > p <=> n # 0 /\ q >= n
          <6>1. n = IF p = Processors - 1 THEN 0 ELSE p + 1
            BY NextIs
          <6> HIDE DEF n
          <6> QED
            BY <6>1 DEF Proc
        <5> QED
          BY <4>3, <5>2, <5>3
      <4> QED
        BY <3>1, <3>4, <4>1, <4>2, <4>3, <4>4 DEF MessageAt
    <3> QED
      BY <3>5, <3>6
  <2> QED
    BY <1>2, <2>1, <2>2, <2>3, <2>4, <2>5, <2>6, <2>7, <2>8 DEF ProcStep
<1>3. CASE UNCHANGED ringVars
  BY <1>0, <1>3 DEF ringVars, PcInv, NoMessage, MessageAt
<1> QED
  BY <1>1, <1>2, <1>3 DEF RingNext

---------------------------------------------------------------------------
(* The parts together are an invariant of the ring.                         *)
LEMMA RingInvariance == RingSpec => []RingInv
<1>1. RingInit => RingInv
  <2> SUFFICES ASSUME RingInit PROVE RingTypeOK /\ PcInv /\ NoMessage
    BY DEF RingInv
  <2> QED
    BY MessageRingAssumption, NextInRing
    DEF RingInit, RingTypeOK, PcInv, NoMessage, Nothing
<1>2. RingInv /\ [RingNext]_ringVars => RingInv'
  BY RingTypeStep, RingInvStep DEF RingInv
<1> QED
  BY <1>1, <1>2, PTL DEF RingSpec

(* Wherever the message is, it is alone, not with one that has left, and    *)
(* the processors are in the round it says they are in.                     *)
LEMMA RingInvIsSafe == RingInv => RingSafe
<1> SUFFICES ASSUME RingInv PROVE SingleMessage /\ NothingSentToTheDead /\ RoundsInStep
  BY DEF RingInv, RingSafe
<1> USE MessageRingAssumption, NextInRing DEF RingTypeOK, Nothing
<1>0. RingTypeOK /\ PcInv /\ (NoMessage \/ \E h \in Proc : MessageAt(h))
  BY DEF RingInv
<1> DEFINE Safe == SingleMessage /\ NothingSentToTheDead /\ RoundsInStep
<1>1. ASSUME NEW p \in Proc, queue[p] = <<>>, msgOf[p] = Nothing PROVE Copies(p) = 0
  <2>1. Len(<<>>) = 0
    OBVIOUS
  <2> QED
    BY <1>1, <2>1 DEF Copies
<1>2. ASSUME NoMessage PROVE Safe
  <2>1. \A p \in Proc : Copies(p) = 0
    BY <1>1, <1>2 DEF NoMessage
  <2>2. SingleMessage /\ NothingSentToTheDead
    BY <1>2, <2>1 DEF NoMessage, SingleMessage, NothingSentToTheDead
  <2>3. \A p \in Proc \ {0} : p - 1 \in Proc
    BY DEF Proc
  <2>4. RoundsInStep
    BY <1>2, <2>3 DEF NoMessage, RoundsInStep
  <2> QED
    BY <2>2, <2>4
<1>3. ASSUME NEW h \in Proc, MessageAt(h) PROVE Safe
  <2>1. \A p \in Proc \ {h} : Copies(p) = 0
    BY <1>1, <1>3 DEF MessageAt
  <2>2. Copies(h) = 1
    <3>1. Len(<<>>) = 0 /\ Len(<<msgId[0]>>) = 1
      OBVIOUS
    <3>2. CASE queue[h] = <<msgId[0]>> /\ msgOf[h] = Nothing
      BY <3>1, <3>2 DEF Copies
    <3>3. CASE queue[h] = <<>> /\ msgOf[h] = msgId[0]
      BY <1>0, <3>1, <3>3 DEF Copies
    <3> QED
      BY <1>3, <3>2, <3>3 DEF MessageAt
  <2>3. SingleMessage
    BY <1>3, <2>1, <2>2 DEF SingleMessage, MessageAt
  <2>4. NothingSentToTheDead
    <3> SUFFICES ASSUME pc[h] = "exit", queue[h] # <<>> PROVE FALSE
      BY <1>3 DEF NothingSentToTheDead, MessageAt
    <3>1. h # 0 /\ msgId[h] = NUMLOOPS
      BY <1>0, <1>3 DEF PcInv, MessageAt
    <3>2. h \in Int
      BY DEF Proc
    <3>3. msgId[h] = msgId[0] - 1
      BY <1>3, <3>1, <3>2 DEF MessageAt
    <3> QED
      BY <1>0, <3>1, <3>3
  <2>5. RoundsInStep
    <3> DEFINE k == msgId[0]
    <3>1. k \in Int
      BY <1>0
    <3>2. \A p \in Proc : msgId[p] = IF h # 0 /\ p >= h THEN k - 1 ELSE k
      BY <1>3 DEF MessageAt, Proc
    <3> HIDE DEF k
    <3>3. \A p \in Proc \ {0} : p - 1 \in Proc /\ (p - 1 >= h => p >= h)
      BY DEF Proc
    <3>4. \A p \in Proc \ {0} : msgId[p - 1] - msgId[p] \in {0, 1}
      <4> SUFFICES ASSUME NEW p \in Proc \ {0} PROVE msgId[p - 1] - msgId[p] \in {0, 1}
        OBVIOUS
      <4>1. msgId[p] = IF h # 0 /\ p >= h THEN k - 1 ELSE k
        BY <3>2
      <4>2. msgId[p - 1] = IF h # 0 /\ p - 1 >= h THEN k - 1 ELSE k
        BY <3>2, <3>3
      <4> QED
        BY <3>1, <3>3, <4>1, <4>2
    <3>5. \A p \in Proc \ {0} : k - msgId[p] \in {0, 1}
      BY <3>1, <3>2
    <3> QED
      BY <3>4, <3>5 DEF RoundsInStep, k
  <2> QED
    BY <2>3, <2>4, <2>5
<1> QED
  BY <1>0, <1>2, <1>3

(* The ring passes on one message whatever its size: in rounds that all     *)
(* processors agree on, and to none that has left.                          *)
THEOREM RingIsSafe == RingSpec => []RingSafe
BY RingInvariance, RingInvIsSafe, PTL

---------------------------------------------------------------------------
(**************************************************************************)
(* The threads of a core (LoopbackThreads).                                *)
(**************************************************************************)

(* The threads have one priority: none takes the CPU from another, and one  *)
(* that has begun to look at a message, or to add, has it until it is done. *)
OneRuns ==
  /\ cpu = <<>> \/ \E t \in Thread : cpu = <<t>>
  /\ \A t \in Thread :
       at[t] \in {"check", "add", "store", "aborted"} => cpu = <<t>>

(* What a thread is about to write is the counter as it still is. *)
RegisterFresh == \A t \in Thread : at[t] = "store" => register[t] = numTests

(* A thread returns LOOPS messages, and then it adds. *)
ReturnsAll ==
  \A t \in Thread :
    IF at[t] \in {"add", "store", "complete"} THEN id[t] = LOOPS ELSE id[t] < LOOPS

(* The one message of a thread and its host: in the queue or in the hands   *)
(* of the thread, with the number it expects ...                            *)
MessageAtThread(t) ==
  /\ sent[t] = id[t] + 1 /\ reply[t] = <<>>
  /\ \/ at[t] = "get" /\ slave[t] = <<id[t]>>
     \/ at[t] = "check" /\ slave[t] = <<>> /\ held[t] = id[t]

(* ... or returned, and the next is sent with the number after it. *)
MessageAtHost(t) ==
  /\ sent[t] = id[t] /\ slave[t] = <<>>
  /\ at[t] \notin {"check", "aborted"}

Numbering == restarts = 0 => \A t \in Thread : MessageAtThread(t) \/ MessageAtHost(t)

ThreadsInv ==
  /\ ThreadsTypeOK /\ OneRuns /\ RegisterFresh /\ ReturnsAll /\ Numbering
  /\ CountsEveryThread

(* The numbers of messages, and queues of them. *)
Number == 0 .. LOOPS

LEMMA NumberQueue ==
  /\ <<>> \in Seq(Number)
  /\ \A q \in Seq(Number) :
       /\ \A x \in Number : Append(q, x) \in Seq(Number)
       /\ q # <<>> => Head(q) \in Number /\ Tail(q) \in Seq(Number)
OBVIOUS

(* The numbers up to LOOPS. *)
LEMMA NumberOps ==
  /\ 0 \in Number /\ Number \subseteq Nat
  /\ \A n \in Number : n < LOOPS => n + 1 \in Number
BY LoopbackAssumption DEF Number

(* Who has the CPU: nobody or one thread, as a thread is dispatched only    *)
(* over one of a lower priority.                                            *)
LEMMA CpuOfOne ==
  ASSUME OneRuns, NEW t \in Thread
  PROVE  /\ Dispatch(t) => cpu = <<>> /\ cpu' = <<t>>
         /\ Running(t) => cpu = <<t>>
         /\ Running(t) /\ Leave => cpu' = <<>>
<1>1. \A u \in Thread : <<u>> # <<>> /\ Len(<<u>>) = 1 /\ <<u>>[Len(<<u>>)] = u
  OBVIOUS
<1>2. ASSUME Dispatch(t) PROVE cpu = <<>> /\ cpu' = <<t>>
  <2>1. cpu = <<>>
    BY <1>2, <1>1 DEF Dispatch, Priority, OneRuns
  <2>2. Append(<<>>, t) = <<t>>
    OBVIOUS
  <2> QED
    BY <1>2, <2>1, <2>2 DEF Dispatch
<1>3. ASSUME Running(t) PROVE cpu = <<t>>
  BY <1>1, <1>3 DEF Running, OneRuns
<1>4. ASSUME Running(t), Leave PROVE cpu' = <<>>
  <2>1. SubSeq(<<t>>, 1, Len(<<t>>) - 1) = <<>>
    OBVIOUS
  <2> QED
    BY <1>3, <1>4, <2>1 DEF Leave
<1> QED
  BY <1>2, <1>3, <1>4

(* Every step keeps the types. *)
LEMMA ThreadsTypeStep == ThreadsInv /\ [ThreadsNext]_threadVars => ThreadsTypeOK'
<1> SUFFICES ASSUME ThreadsInv, [ThreadsNext]_threadVars PROVE ThreadsTypeOK'
  OBVIOUS
<1>0. OneRuns /\ ReturnsAll
  BY DEF ThreadsInv
<1> DEFINE TypeOf ==
      /\ at \in [Thread -> {"create", "get", "check", "add", "store", "complete", "aborted"}]
      /\ id \in [Thread -> Number] /\ held \in [Thread -> Number]
      /\ slave \in [Thread -> Seq(Number)] /\ reply \in [Thread -> Seq(Number)]
      /\ sent \in [Thread -> Number] /\ restarts \in 0 .. MaxRestarts
      /\ cpu \in Seq(Thread)
      /\ register \in [Thread -> Nat] /\ numTests \in Nat
<1>t. TypeOf
  BY DEF ThreadsInv, ThreadsTypeOK, Number
<1> SUFFICES TypeOf'
  BY DEF ThreadsTypeOK, Number
<1> USE <1>0, <1>t, NumberQueue, NumberOps DEF ThreadsGoto
<1>1. CASE HostRestart
  <2>1. restarts' \in 0 .. MaxRestarts
    BY <1>1, LoopbackAssumption DEF HostRestart
  <2> QED
    BY <1>1, <2>1 DEF HostRestart
<1>2. ASSUME NEW t \in Thread, HostThread(t) PROVE TypeOf'
  <2>1. sent[t] < LOOPS => sent[t] + 1 \in Number
    OBVIOUS
  <2>2. Append(slave[t], sent[t]) \in Seq(Number) /\ <<>> \in Seq(Number)
    OBVIOUS
  <2>3. slave' \in [Thread -> Seq(Number)] /\ sent' \in [Thread -> Number]
    BY ONLY <1>t, <1>2, <2>1, <2>2 DEF HostThread
  <2> QED
    BY ONLY <1>t, <1>2, <2>2, <2>3 DEF HostThread
<1>3. ASSUME NEW t \in Thread, CpuStep(t) PROVE TypeOf'
  <2>0. cpu' = cpu \/ cpu' = <<>> \/ cpu' = <<t>>
    BY <1>3, CpuOfOne DEF CpuStep, ThreadStep, Create, GetMessage, CheckAndReturn, Add
  <2>1. cpu' \in Seq(Thread)
    <3>1. <<>> \in Seq(Thread) /\ <<t>> \in Seq(Thread)
      OBVIOUS
    <3> QED
      BY <2>0, <3>1
  <2>2. CASE Dispatch(t)
    BY <2>1, <2>2 DEF Dispatch
  <2>3. CASE Create(t)
    BY <2>1, <2>3 DEF Create
  <2>4. CASE GetMessage(t)
    <3>1. slave[t] # <<>> => Head(slave[t]) \in Number /\ Tail(slave[t]) \in Seq(Number)
      OBVIOUS
    <3> QED
      BY ONLY <1>t, <2>1, <2>4, <3>1 DEF GetMessage, ThreadsGoto
  <2>5. CASE CheckAndReturn(t)
    <3>1. at[t] = "check" => id[t] + 1 \in Number
      BY DEF ReturnsAll
    <3>2. Append(reply[t], held[t]) \in Seq(Number)
      OBVIOUS
    <3> QED
      BY ONLY <1>t, <2>1, <2>5, <3>1, <3>2 DEF CheckAndReturn, ThreadsGoto
  <2>6. CASE Add(t)
    <3>1. register[t] + LOOPS \in Nat
      BY LoopbackAssumption
    <3> QED
      BY <2>1, <2>6, <3>1 DEF Add
  <2> QED
    BY <1>3, <2>2, <2>3, <2>4, <2>5, <2>6 DEF CpuStep, ThreadStep
<1>4. CASE UNCHANGED threadVars
  BY <1>4 DEF threadVars
<1> QED
  BY <1>1, <1>2, <1>3, <1>4 DEF ThreadsNext

(* One thread runs, and no other changes the counter it has read. *)
LEMMA ScheduleStep ==
  ThreadsInv /\ [ThreadsNext]_threadVars => OneRuns' /\ RegisterFresh' /\ ReturnsAll'
<1> DEFINE Goal == OneRuns' /\ RegisterFresh' /\ ReturnsAll'
<1> SUFFICES ASSUME ThreadsInv, [ThreadsNext]_threadVars PROVE Goal
  OBVIOUS
<1>0. ThreadsTypeOK /\ OneRuns /\ RegisterFresh /\ ReturnsAll
  BY DEF ThreadsInv
<1>1. CASE HostRestart
  BY <1>0, <1>1 DEF HostRestart, OneRuns, RegisterFresh, ReturnsAll
<1>2. ASSUME NEW t \in Thread, HostThread(t) PROVE Goal
  BY <1>0, <1>2 DEF HostThread, OneRuns, RegisterFresh, ReturnsAll
<1>3. ASSUME NEW t \in Thread, CpuStep(t) PROVE Goal
  <2>0. \A u, v \in Thread : <<u>> = <<v>> => u = v
    OBVIOUS
  <2>1. CASE Dispatch(t)
    BY <1>0, <2>1, CpuOfOne DEF Dispatch, OneRuns, RegisterFresh, ReturnsAll
  <2>2. CASE ThreadStep(t)
    <3>1. cpu = <<t>> /\ \A u \in Thread \ {t} : at[u] \notin {"check", "add", "store", "aborted"}
      BY <1>0, <2>2, <2>0, CpuOfOne DEF ThreadStep, OneRuns
    <3>2. \A u \in Thread \ {t} : at'[u] = at[u] /\ id'[u] = id[u]
      BY <1>0, <2>2 DEF ThreadStep, Create, GetMessage, CheckAndReturn, Add, ThreadsGoto, ThreadsTypeOK
    <3> SUFFICES /\ cpu' = <<>> \/ cpu' = <<t>>
                 /\ at'[t] \in {"check", "add", "store", "aborted"} => cpu' = <<t>>
                 /\ at'[t] = "store" => register'[t] = numTests'
                 /\ IF at'[t] \in {"add", "store", "complete"} THEN id'[t] = LOOPS ELSE id'[t] < LOOPS
      BY <1>0, <3>1, <3>2 DEF OneRuns, RegisterFresh, ReturnsAll
    <3> USE <1>0, <3>1, LoopbackAssumption DEF ThreadsTypeOK, ThreadsGoto
    <3>3. CASE Create(t)
      BY <3>3 DEF Create, ReturnsAll
    <3>4. CASE GetMessage(t)
      BY <2>2, <3>4, CpuOfOne DEF GetMessage, ReturnsAll, ThreadStep
    <3>5. CASE CheckAndReturn(t)
      <4>1. at[t] = "check"
        BY ONLY <3>5 DEF CheckAndReturn, ThreadsGoto
      <4>2. id[t] \in Nat /\ id[t] < LOOPS
        <5>1. id[t] \in 0 .. LOOPS
          OBVIOUS
        <5>2. id[t] < LOOPS
          BY ONLY <1>0, <4>1, t \in Thread DEF ReturnsAll
        <5> QED
          BY ONLY <5>1, <5>2
      <4>3. cpu' = cpu /\ register' = register /\ numTests' = numTests
        BY ONLY <3>5 DEF CheckAndReturn
      <4>4. \/ at'[t] \in {"get", "add"} /\ id'[t] = id[t] + 1 /\ (at'[t] = "add" <=> id[t] + 1 >= LOOPS)
            \/ at'[t] = "aborted" /\ id'[t] = id[t]
        BY <3>5, <4>2 DEF CheckAndReturn
      <4>5. LOOPS \in Nat
        BY ONLY LoopbackAssumption DEF LoopbackAssumption
      <4> QED
        BY ONLY <3>1, <4>2, <4>3, <4>4, <4>5
    <3>6. CASE Add(t)
      BY <2>2, <3>6, CpuOfOne DEF Add, ReturnsAll, ThreadStep
    <3> QED
      BY <2>2, <3>3, <3>4, <3>5, <3>6 DEF ThreadStep
  <2> QED
    BY <1>3, <2>1, <2>2 DEF CpuStep
<1>4. CASE UNCHANGED threadVars
  BY <1>0, <1>4 DEF threadVars, OneRuns, RegisterFresh, ReturnsAll
<1> QED
  BY <1>1, <1>2, <1>3, <1>4 DEF ThreadsNext

(* The counter grows by LOOPS with each thread that completes. *)
LEMMA CountStep == ThreadsInv /\ [ThreadsNext]_threadVars => CountsEveryThread'
<1> DEFINE Completed == {u \in Thread : at[u] = "complete"}
<1> SUFFICES ASSUME ThreadsInv, [ThreadsNext]_threadVars PROVE CountsEveryThread'
  OBVIOUS
<1>0. ThreadsTypeOK /\ RegisterFresh /\ numTests = LOOPS * Cardinality(Completed)
  BY DEF ThreadsInv, CountsEveryThread
<1> SUFFICES numTests' = LOOPS * Cardinality(Completed')
  BY DEF CountsEveryThread
<1>1. CASE \E t \in Thread : ThreadsGoto(t, "store", "complete") /\ Add(t)
  <2>1. PICK t \in Thread : ThreadsGoto(t, "store", "complete") /\ Add(t)
    BY <1>1
  <2>2. Completed' = Completed \union {t} /\ t \notin Completed
    BY <1>0, <2>1 DEF ThreadsGoto, ThreadsTypeOK
  <2>3. Cardinality(Completed') = Cardinality(Completed) + 1 /\ Cardinality(Completed) \in Nat
    <3>1. IsFiniteSet(Completed)
      BY LoopbackAssumption, FS_Subset
    <3> QED
      BY <2>2, <3>1, FS_AddElement, FS_CardinalityType
  <2>4. numTests' = numTests + LOOPS
    BY <1>0, <2>1 DEF Add, ThreadsGoto, RegisterFresh
  <2> HIDE DEF Completed
  <2> QED
    BY <1>0, <2>3, <2>4, LoopbackAssumption
<1>2. CASE ~\E t \in Thread : ThreadsGoto(t, "store", "complete") /\ Add(t)
  <2>1. numTests' = numTests /\ Completed' = Completed
    <3> USE <1>0, <1>2 DEF ThreadsTypeOK, ThreadsGoto
    <3>1. CASE HostRestart
      BY <3>1 DEF HostRestart
    <3>2. ASSUME NEW t \in Thread, HostThread(t) PROVE numTests' = numTests /\ Completed' = Completed
      BY <3>2 DEF HostThread
    <3>3. ASSUME NEW t \in Thread, CpuStep(t) PROVE numTests' = numTests /\ Completed' = Completed
      <4>1. CASE Dispatch(t)
        BY <4>1 DEF Dispatch
      <4>2. CASE Create(t)
        BY <4>2 DEF Create
      <4>3. CASE GetMessage(t)
        BY <4>3 DEF GetMessage
      <4>4. CASE CheckAndReturn(t)
        BY <4>4 DEF CheckAndReturn
      <4>5. CASE Add(t)
        BY <4>5 DEF Add
      <4> QED
        BY <3>3, <4>1, <4>2, <4>3, <4>4, <4>5 DEF CpuStep, ThreadStep
    <3>4. CASE UNCHANGED threadVars
      BY <3>4 DEF threadVars
    <3> QED
      BY <3>1, <3>2, <3>3, <3>4 DEF ThreadsNext
  <2> QED
    BY <1>0, <2>1
<1> QED
  BY <1>1, <1>2

(* Messages and answers alternate, until the host program is started again. *)
LEMMA NumberingStep == ThreadsInv /\ [ThreadsNext]_threadVars => Numbering'
<1> SUFFICES ASSUME ThreadsInv, [ThreadsNext]_threadVars, restarts' = 0
             PROVE  \A t \in Thread : MessageAtThread(t)' \/ MessageAtHost(t)'
  BY DEF Numbering
<1> DEFINE Numbered(t) == MessageAtThread(t) \/ MessageAtHost(t)
<1> SUFFICES \A t \in Thread : Numbered(t)'
  OBVIOUS
<1>0. ThreadsTypeOK /\ ReturnsAll /\ restarts \in Nat /\ (restarts = 0 => \A t \in Thread : Numbered(t))
  BY LoopbackAssumption DEF ThreadsInv, Numbering, ThreadsTypeOK
<1>1. CASE HostRestart
  BY <1>0, <1>1 DEF HostRestart
<1>2. restarts = 0 => \A t \in Thread : Numbered(t)
  BY <1>0
<1>3. ASSUME NEW t \in Thread, HostThread(t) PROVE \A u \in Thread : Numbered(u)'
  <2>1. \A u \in Thread \ {t} : Numbered(u)'
    BY <1>0, <1>3 DEF HostThread, MessageAtThread, MessageAtHost, ThreadsTypeOK
  <2>2. MessageAtHost(t)
    BY <1>0, <1>3 DEF HostThread, MessageAtThread, ThreadsTypeOK, ReturnsAll
  <2>3. sent[t] < LOOPS /\ at[t] # "create" => at[t] = "get"
    <3>1. id[t] = sent[t] /\ at[t] \notin {"check", "aborted"}
      BY <2>2 DEF MessageAtHost
    <3>2. sent[t] \in Nat /\ at[t] \in {"create", "get", "check", "add", "store", "complete", "aborted"}
      BY <1>0 DEF ThreadsTypeOK
    <3> QED
      BY <1>0, <3>1, <3>2, LoopbackAssumption DEF ReturnsAll
  <2>4. Append(<<>>, sent[t]) = <<sent[t]>>
    OBVIOUS
  <2>5. Numbered(t)'
    BY <1>0, <1>3, <2>2, <2>3, <2>4 DEF HostThread, MessageAtThread, MessageAtHost, ThreadsTypeOK
  <2> QED
    BY <2>1, <2>5
<1>4. ASSUME NEW t \in Thread, CpuStep(t) PROVE \A u \in Thread : Numbered(u)'
  <2>0. restarts = 0 /\ Numbered(t)
    BY <1>0, <1>4 DEF CpuStep, ThreadStep, Dispatch, Create, GetMessage, CheckAndReturn, Add
  <2> USE <1>0, <2>0 DEF ThreadsTypeOK, ThreadsGoto
  <2>1. CASE Dispatch(t)
    BY <2>1 DEF Dispatch, MessageAtThread, MessageAtHost
  <2>2. CASE Create(t)
    BY <2>2 DEF Create, MessageAtThread, MessageAtHost
  <2>3. CASE GetMessage(t)
    <3>1. Head(<<id[t]>>) = id[t] /\ Tail(<<id[t]>>) = <<>> /\ <<id[t]>> # <<>>
      OBVIOUS
    <3>2. \A u \in Thread \ {t} : Numbered(u)'
      BY <2>3 DEF GetMessage, MessageAtThread, MessageAtHost
    <3>3. CASE slave[t] = <<>>
      BY <2>3, <3>2, <3>3 DEF GetMessage, MessageAtThread, MessageAtHost
    <3>4. CASE slave[t] # <<>>
      <4>1. MessageAtThread(t) /\ slave[t] = <<id[t]>>
        BY <3>4 DEF MessageAtThread, MessageAtHost
      <4>2. MessageAtThread(t)'
        BY <2>3, <3>1, <3>4, <4>1 DEF GetMessage, MessageAtThread
      <4> QED
        BY <3>2, <4>2
    <3> QED
      BY <3>3, <3>4
  <2>4. CASE CheckAndReturn(t)
    BY <2>4 DEF CheckAndReturn, MessageAtThread, MessageAtHost
  <2>5. CASE Add(t)
    BY <2>5 DEF Add, MessageAtThread, MessageAtHost
  <2> QED
    BY <1>4, <2>1, <2>2, <2>3, <2>4, <2>5 DEF CpuStep, ThreadStep
<1>5. CASE UNCHANGED threadVars
  BY <1>0, <1>5 DEF threadVars, MessageAtThread, MessageAtHost
<1> QED
  BY <1>1, <1>3, <1>4, <1>5 DEF ThreadsNext

(* The invariant holds throughout. *)
LEMMA ThreadsInvariance == ThreadsSpec => []ThreadsInv
<1>1. ThreadsInit => ThreadsInv
  <2> SUFFICES ASSUME ThreadsInit PROVE ThreadsInv
    OBVIOUS
  <2> USE LoopbackAssumption DEF ThreadsInit
  <2>1. ThreadsTypeOK
    BY DEF ThreadsTypeOK
  <2>2. OneRuns /\ RegisterFresh /\ ReturnsAll
    BY DEF OneRuns, RegisterFresh, ReturnsAll
  <2>3. Numbering
    BY DEF Numbering, MessageAtHost
  <2>4. CountsEveryThread
    <3>1. {t \in Thread : at[t] = "complete"} = {}
      OBVIOUS
    <3>2. Cardinality({}) = 0
      BY FS_EmptySet
    <3>3. numTests = LOOPS * 0
      OBVIOUS
    <3> QED
      BY ONLY <3>1, <3>2, <3>3 DEF CountsEveryThread
  <2> QED
    BY <2>1, <2>2, <2>3, <2>4 DEF ThreadsInv
<1>2. ThreadsInv /\ [ThreadsNext]_threadVars => ThreadsInv'
  BY ThreadsTypeStep, ScheduleStep, CountStep, NumberingStep DEF ThreadsInv
<1> QED
  BY <1>1, <1>2, PTL DEF ThreadsSpec

(* However many threads there are, the counter they share without a lock    *)
(* misses no test, and a core aborts only if the host program has been      *)
(* started again.                                                           *)
THEOREM ThreadsAreSafe == ThreadsSpec => []ThreadsSafe
<1>1. ThreadsInv => ThreadsSafe
  <2> SUFFICES ASSUME ThreadsInv PROVE AbortedByRestart
    BY DEF ThreadsInv, ThreadsSafe
  <2>1. restarts \in Nat
    BY LoopbackAssumption DEF ThreadsInv, ThreadsTypeOK
  <2>2. restarts = 0 => \A t \in Thread : at[t] # "aborted"
    BY DEF ThreadsInv, Numbering, MessageAtThread, MessageAtHost
  <2> QED
    BY <2>1, <2>2 DEF AbortedByRestart, Aborted
<1> QED
  BY <1>1, ThreadsInvariance, PTL
=============================================================================
