--------------------------- MODULE MessageExchange --------------------------
(***************************************************************************)
(* The message exchange of the ARM with one core (ipu_offload/): a host    *)
(* process (host_app.c) sends a message and waits for its return, numLoops *)
(* times after a handshake that tells the core this number; the task of    *)
(* the core (ipu_core_single.c) returns what it gets and serves one host   *)
(* process after the other.                                                *)
(*                                                                         *)
(* The handshake and the messages carry a single number and nothing tells  *)
(* them apart; a message is therefore modelled as that number.  MessageQ,  *)
(* its queues and what may fail of its calls are external.                 *)
(***************************************************************************)
EXTENDS Integers, Sequences

CONSTANTS
  Loops,     \* the numbers of messages a host process is started with
  MaxRuns,   \* bound: host processes, one after the other
  Faults,    \* what may fail of the host's calls, and the "data" it gets back
  MaxFaults  \* bound: failures in all

ASSUME MessageExchangeAssumption ==
  /\ Loops \subseteq Nat
  /\ \E n \in Loops : \A m \in Loops : m <= n
  /\ MaxRuns \in Nat \ {0}
  /\ Faults \subseteq {"open", "put", "get", "sync", "data"}
  /\ MaxFaults \in Nat

None == -1  \* no message

VARIABLES
  host,       \* where MessageQApp_execute is
  runs,       \* host processes started
  numLoops,   \* its argument
  i,          \* its loop variable
  status,     \* its status: of the last put or get
  msg,        \* its pointer to a message: the number in it, or NULL
  owned,      \* the message is the host's: it has it from MessageQ
  unchecked,  \* history: a get of the handshake has failed
  success,    \* it has printed that it successfully completed
  core,       \* where tsk1Fxn is
  coreLoops,  \* its numLoops
  coreIndex,  \* its i
  coreMsg,    \* the message it holds
  toCore,     \* the queue SLAVE
  toHost,     \* the queue HOST
  faults      \* failures so far

hostVars == <<host, runs, numLoops, i, status, msg, owned, unchecked, success>>
coreVars == <<core, coreLoops, coreIndex, coreMsg>>
vars == <<hostVars, coreVars, toCore, toHost, faults>>

HostPc == {"exit", "alloc", "sync_put", "sync_get", "loop", "put", "get",
           "check", "end"}
CorePc == {"create", "sync_get", "sync_put", "loop", "put", "asserted",
           "trapped"}
MaxLoops == CHOOSE n \in Loops : \A m \in Loops : m <= n
Numbers == {None} \union 0 .. MaxLoops + 1

TypeOK ==
  /\ host \in HostPc /\ core \in CorePc
  /\ runs \in 0 .. MaxRuns /\ faults \in 0 .. MaxFaults
  /\ numLoops \in Loops /\ coreLoops \in Numbers
  /\ i \in 0 .. numLoops + 1 /\ coreIndex \in Numbers
  /\ status \in {-1, 0} /\ success \in BOOLEAN
  /\ msg \in Numbers /\ coreMsg \in Numbers
  /\ owned \in BOOLEAN /\ unchecked \in BOOLEAN
  /\ toCore \in Seq(Numbers \ {None}) /\ toHost \in Seq(Numbers \ {None})

Init ==
  /\ host = "exit" /\ runs = 0 /\ numLoops \in Loops
  /\ i = 0 /\ status = 0 /\ success = FALSE
  /\ msg = None /\ owned = FALSE /\ unchecked = FALSE
  /\ core = "create" /\ coreLoops = 0 /\ coreIndex = 0 /\ coreMsg = None
  /\ toCore = <<>> /\ toHost = <<>>
  /\ faults = 0

---------------------------------------------------------------------------
(* External: MessageQ.  A failure is one of Faults; a reply to the queue of *)
(* a process that has left is dropped.                                      *)
Fault(kind) ==
  /\ kind \in Faults
  /\ faults < MaxFaults
  /\ faults' = faults + 1

HostGoto(from, to) == host = from /\ host' = to
CoreGoto(from, to) == core = from /\ core' = to

(* The pointer stays what it is when the message has been given away. *)
PutToCore == toCore' = Append(toCore, msg) /\ owned' = FALSE /\ UNCHANGED msg
GetFromCore ==
  /\ toHost # <<>>
  /\ msg' = Head(toHost) /\ owned' = TRUE
  /\ toHost' = Tail(toHost)

Reply ==
  /\ toHost' = IF host = "exit" THEN toHost ELSE Append(toHost, coreMsg)
  /\ coreMsg' = None
GetFromHost ==
  /\ toCore # <<>>
  /\ coreMsg' = Head(toCore)
  /\ toCore' = Tail(toCore)

---------------------------------------------------------------------------
(* MessageQApp_execute *)

(* A process starts and creates the queue HOST. *)
Start ==
  /\ runs < MaxRuns
  /\ HostGoto("exit", "alloc")
  /\ runs' = runs + 1
  /\ numLoops' \in Loops
  /\ i' = 0 /\ success' = FALSE
  /\ UNCHANGED <<status, msg, owned, unchecked, coreVars, toCore, toHost, faults>>

(* It opens the queue SLAVE, again and again until the core has created it. *)
Alloc ==
  /\ core # "create"
  /\ HostGoto("alloc", "sync_put")
  /\ status' = 0
  /\ msg' = numLoops /\ owned' = TRUE
  /\ UNCHANGED <<runs, numLoops, i, unchecked, success, coreVars, toCore, toHost,
                 faults>>

(* The open or the allocation fails. *)
AllocFails ==
  /\ HostGoto("alloc", "exit")
  /\ Fault("open")
  /\ status' = -1
  /\ toHost' = <<>>
  /\ UNCHANGED <<runs, numLoops, i, msg, owned, unchecked, success, coreVars, toCore>>

(* The handshake, whose put and get are not checked. *)
SyncPut ==
  /\ HostGoto("sync_put", "sync_get")
  /\ PutToCore
  /\ UNCHANGED <<runs, numLoops, i, status, unchecked, success, coreVars, toHost,
                 faults>>

SyncPutFails ==
  /\ HostGoto("sync_put", "sync_get")
  /\ Fault("put")
  /\ UNCHANGED <<runs, numLoops, i, status, msg, owned, unchecked, success, coreVars,
                 toCore, toHost>>

SyncGet ==
  /\ HostGoto("sync_get", "loop")
  /\ GetFromCore
  /\ i' = 1
  /\ UNCHANGED <<runs, numLoops, status, unchecked, success, coreVars, toCore, faults>>

(* status is still that of the open.  What a get that fails leaves in msg is *)
(* not in the repository: NULL, or the pointer to the message given away.   *)
SyncGetFails ==
  /\ HostGoto("sync_get", "loop")
  /\ Fault("sync")
  /\ i' = 1 /\ unchecked' = TRUE
  /\ \/ UNCHANGED <<msg, owned>>
     \/ msg' = None /\ owned' = FALSE
  /\ UNCHANGED <<runs, numLoops, status, success, coreVars, toCore, toHost>>

(* Faulty: messages are counted from 0. *)
LoopNext_FromZero ==
  /\ i <= numLoops /\ owned
  /\ HostGoto("loop", "put")
  /\ msg' = i - 1
  /\ UNCHANGED <<runs, numLoops, i, status, owned, unchecked, success, coreVars, toCore,
                 toHost, faults>>

LoopNext ==
  /\ i <= numLoops /\ owned
  /\ HostGoto("loop", "put")
  /\ msg' = i
  /\ UNCHANGED <<runs, numLoops, i, status, owned, unchecked, success, coreVars, toCore,
                 toHost, faults>>

(* After a get that has failed the pointer may be to a message that is in a *)
(* queue or with the core: the write reaches it there, or memory that is    *)
(* used for something else.                                                 *)
Overwritten(queue) ==
  {[k \in 1 .. Len(queue) |-> IF k \in K THEN i ELSE queue[k]] :
     K \in SUBSET (1 .. Len(queue))}

LoopNextStray ==
  /\ i <= numLoops /\ ~owned /\ msg # None
  /\ HostGoto("loop", "put")
  /\ msg' = i
  /\ toCore' \in Overwritten(toCore)
  /\ toHost' \in Overwritten(toHost)
  /\ coreMsg' = coreMsg \/ (coreMsg # None /\ coreMsg' = i)
  /\ UNCHANGED <<runs, numLoops, i, status, owned, unchecked, success, core, coreLoops,
                 coreIndex, faults>>

(* A process that writes through NULL is killed, and one that writes, puts   *)
(* or frees what is not its own may be.                                     *)
LoopCrash ==
  /\ i <= numLoops /\ ~owned
  /\ host \in {"loop", "put"} /\ host' = "exit"
  /\ toHost' = <<>>
  /\ UNCHANGED <<runs, numLoops, i, status, msg, owned, unchecked, success, coreVars,
                 toCore, faults>>

LoopEnd ==
  /\ i > numLoops
  /\ HostGoto("loop", "end")
  /\ UNCHANGED <<runs, numLoops, i, status, msg, owned, unchecked, success, coreVars,
                 toCore, toHost, faults>>

LoopPut ==
  /\ HostGoto("put", "get")
  /\ PutToCore
  /\ status' = 0
  /\ UNCHANGED <<runs, numLoops, i, unchecked, success, coreVars, toHost, faults>>

(* Faulty: the message is not freed. *)
LoopPutFails_NoFree ==
  /\ HostGoto("put", "end")
  /\ Fault("put")
  /\ status' = -1
  /\ UNCHANGED <<runs, numLoops, i, msg, owned, unchecked, success, coreVars, toCore,
                 toHost>>

(* The message is freed. *)
LoopPutFails ==
  /\ HostGoto("put", "end")
  /\ Fault("put")
  /\ status' = -1
  /\ owned' = FALSE
  /\ UNCHANGED <<runs, numLoops, i, msg, unchecked, success, coreVars, toCore, toHost>>

LoopGet ==
  /\ HostGoto("get", "check")
  /\ GetFromCore
  /\ status' = 0
  /\ UNCHANGED <<runs, numLoops, i, unchecked, success, coreVars, toCore, faults>>

(* Whatever it leaves in msg, the pointer is not used any more. *)
LoopGetFails ==
  /\ HostGoto("get", "end")
  /\ Fault("get")
  /\ status' = -1
  /\ UNCHANGED <<runs, numLoops, i, msg, owned, unchecked, success, coreVars, toCore,
                 toHost>>

(* The message returned is not the one that was sent. *)
LoopGetGarbled ==
  /\ HostGoto("get", "check")
  /\ Fault("data")
  /\ toHost # <<>>
  /\ toHost' = Tail(toHost)
  /\ msg' = i - 1 /\ owned' = TRUE
  /\ status' = 0
  /\ UNCHANGED <<runs, numLoops, i, unchecked, success, coreVars, toCore>>

Check ==
  /\ HostGoto("check", IF msg = i THEN "loop" ELSE "end")
  /\ i' = IF msg = i THEN i + 1 ELSE i
  /\ UNCHANGED <<runs, numLoops, status, msg, owned, unchecked, success, coreVars,
                 toCore, toHost, faults>>

(* Faulty: the message is kept. *)
End_NoFree ==
  /\ HostGoto("end", "exit")
  /\ success' = (status >= 0)
  /\ toHost' = <<>>
  /\ UNCHANGED <<runs, numLoops, i, status, msg, owned, unchecked, coreVars, toCore,
                 faults>>

(* The message is freed, the queue is deleted with what is in it. *)
End ==
  /\ HostGoto("end", "exit")
  /\ success' = (status >= 0)
  /\ owned' = (owned /\ status < 0)
  /\ toHost' = <<>>
  /\ UNCHANGED <<runs, numLoops, i, status, msg, unchecked, coreVars, toCore, faults>>

HostStep ==
  \/ Alloc
  \/ SyncPut
  \/ SyncGet
  \/ LoopNext
  \/ LoopNextStray
  \/ LoopCrash
  \/ LoopEnd
  \/ LoopPut
  \/ LoopGet
  \/ Check
  \/ End

HostFails ==
  \/ AllocFails
  \/ SyncPutFails
  \/ SyncGetFails
  \/ LoopPutFails
  \/ LoopGetFails
  \/ LoopGetGarbled

---------------------------------------------------------------------------
(* tsk1Fxn *)
CoreCreate ==
  /\ CoreGoto("create", "sync_get")
  /\ UNCHANGED <<hostVars, coreLoops, coreIndex, coreMsg, toCore, toHost, faults>>

CoreSyncGet ==
  /\ CoreGoto("sync_get", "sync_put")
  /\ GetFromHost
  /\ coreLoops' = coreMsg'
  /\ UNCHANGED <<hostVars, coreIndex, toHost, faults>>

CoreSyncPut ==
  /\ CoreGoto("sync_put", "loop")
  /\ Reply
  /\ coreIndex' = 1
  /\ UNCHANGED <<hostVars, coreLoops, toCore, faults>>

CoreLoopGet ==
  /\ coreIndex <= coreLoops
  /\ GetFromHost
  /\ CoreGoto("loop", IF coreMsg' = coreIndex THEN "put" ELSE "asserted")
  /\ UNCHANGED <<hostVars, coreLoops, coreIndex, toHost, faults>>

CoreLoopPut ==
  /\ CoreGoto("put", "loop")
  /\ Reply
  /\ coreIndex' = coreIndex + 1
  /\ UNCHANGED <<hostVars, coreLoops, toCore, faults>>

(* The ticks per message are printed: a division by numLoops, which may or   *)
(* may not trap when it is 0.                                               *)
CoreLoopEnd ==
  /\ coreIndex > coreLoops
  /\ \E to \in {"sync_get"} \union (IF coreLoops = 0 THEN {"trapped"} ELSE {}) :
       CoreGoto("loop", to)
  /\ UNCHANGED <<hostVars, coreLoops, coreIndex, coreMsg, toCore, toHost, faults>>

CoreStep ==
  \/ CoreCreate
  \/ CoreSyncGet
  \/ CoreSyncPut
  \/ CoreLoopGet
  \/ CoreLoopPut
  \/ CoreLoopEnd

Finished == host = "exit" /\ runs = MaxRuns /\ UNCHANGED vars

Next ==
  \/ Start
  \/ HostStep
  \/ HostFails
  \/ CoreStep
  \/ Finished

Spec == Init /\ [][Next]_vars

(* A process that has been started and the core's task get to run. *)
Fairness == WF_vars(HostStep) /\ WF_vars(CoreStep)

FairSpec == Spec /\ Fairness

---------------------------------------------------------------------------
Holds(one) == IF one THEN 1 ELSE 0

(* As long as no call fails, every message of a process comes back to it and*)
(* is freed: there is one at most, wherever it is, and none when the process*)
(* has left.                                                                *)
OneMessage ==
  LET messages == Holds(owned) + Holds(coreMsg # None) + Len(toCore) + Len(toHost)
  IN  faults = 0 => messages = IF host \in {"exit", "alloc"} THEN 0 ELSE 1

(* As long as no call fails, the core never takes one message for another:  *)
(* not the handshake of a process for a message of the one before.          *)
RemoteInStep == faults = 0 => core # "asserted"

(* As long as no call fails, the core counts as many messages as the host   *)
(* sends it: the number that the handshake has set.                         *)
HandshakeDone ==
  faults = 0 /\ host \in {"loop", "put", "get", "check"} => coreLoops = numLoops

(* Whatever fails, both sides hold numbers of the exchange; as long as      *)
(* nothing does, the two count the same messages, over host processes that  *)
(* ask for different numbers of them.                                       *)
InStep == TypeOK /\ HandshakeDone /\ RemoteInStep

(* As long as no call fails, a process that is started gets all its messages*)
(* back and completes (unless it has told the core to divide by 0).         *)
HostCompletes ==
  [](host = "alloc" =>
       <>((host = "exit" /\ success) \/ faults > 0 \/ core = "trapped"))

(* Until a get of the handshake has failed, which nothing checks, the host   *)
(* writes, puts and checks a message only while it has it, whichever other   *)
(* call has failed before; at the end it frees a message that it has, and    *)
(* none that it has given away or freed.                                     *)
HoldsWhatItUses ==
  ~unchecked =>
    /\ host \in {"sync_put", "put", "check"} => owned
    /\ host = "loop" /\ i <= numLoops => owned
    /\ host = "end" => (status >= 0 <=> owned)
=============================================================================
