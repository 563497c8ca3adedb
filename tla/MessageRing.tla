---------------------------- MODULE MessageRing -----------------------------
(***************************************************************************)
(* One message round the processors (ipu_offload/ipu_core_multicore.c):    *)
(* processor 0 owns a heap of a single block, allocates the message and    *)
(* sends it round NUMLOOPS times; the others pass it on and leave with the *)
(* last round.  IPC and the kernel are external: names are found once they *)
(* exist, a put or get does not fail, BIOS_exit takes the queue down.      *)
(***************************************************************************)
EXTENDS Integers, Sequences, FiniteSets

CONSTANTS
  Processors,  \* number of processors, MultiProc_getNumProcessors()
  NUMLOOPS,    \* rounds of the message
  NumBlocks    \* numBlocks of the heap

ASSUME MessageRingAssumption ==
  Processors \in Nat \ {0} /\ NUMLOOPS \in Nat \ {0} /\ NumBlocks \in Nat

Proc == 0 .. Processors - 1
Nothing == -1  \* no message

VARIABLES
  pc,         \* per processor: where main and tsk0_func are
  heapFree,   \* free blocks of the heap, Nothing before it is created
  msgOf,      \* per processor: id in the message it holds
  msgId,      \* per processor: its msgId
  queue       \* per processor: ids of the messages in its queue

ringVars == <<pc, heapFree, msgOf, msgId, queue>>

RingTypeOK ==
  /\ pc \in [Proc -> {"main", "heap", "create", "open", "alloc", "loop",
                      "put", "get", "pass", "exit"}]
  /\ heapFree \in {Nothing} \union 0 .. NumBlocks
  /\ msgOf \in [Proc -> Nothing .. NUMLOOPS]
  /\ msgId \in [Proc -> 0 .. NUMLOOPS]
  /\ queue \in [Proc -> Seq(0 .. NUMLOOPS)]

RingInit ==
  /\ pc = [p \in Proc |-> "main"]
  /\ heapFree = Nothing
  /\ msgOf = [p \in Proc |-> Nothing]
  /\ msgId = [p \in Proc |-> 0]
  /\ queue = [p \in Proc |-> <<>>]

NextProcId(p) == (p + 1) % Processors

RingGoto(p, from, to) == pc[p] = from /\ pc' = [pc EXCEPT ![p] = to]

(* Ipc_start attaches to all processors, that is, waits for them. *)
IpcStart ==
  /\ \A p \in Proc : pc[p] = "main"
  /\ pc' = [p \in Proc |-> "heap"]
  /\ UNCHANGED <<heapFree, msgOf, msgId, queue>>

(* Processor 0 creates the heap, the others open it as soon as it exists. *)
GetHeap(p) ==
  /\ RingGoto(p, "heap", "create")
  /\ \/ p = 0 /\ heapFree' = NumBlocks
     \/ p # 0 /\ heapFree # Nothing /\ UNCHANGED heapFree
  /\ UNCHANGED <<msgOf, msgId, queue>>

CreateQueue(p) ==
  /\ RingGoto(p, "create", "open")
  /\ UNCHANGED <<heapFree, msgOf, msgId, queue>>

HasQueue(p) == pc[p] \notin {"main", "heap", "create", "exit"}

OpenNext(p) ==
  /\ HasQueue(NextProcId(p))
  /\ RingGoto(p, "open", IF p = 0 THEN "alloc" ELSE "get")
  /\ UNCHANGED <<heapFree, msgOf, msgId, queue>>

AllocMessage ==
  /\ heapFree > 0  \* System_abort otherwise
  /\ RingGoto(0, "alloc", "loop")
  /\ heapFree' = heapFree - 1
  /\ msgOf' = [msgOf EXCEPT ![0] = 0]
  /\ UNCHANGED <<msgId, queue>>

Loop ==
  /\ RingGoto(0, "loop", IF msgId[0] < NUMLOOPS THEN "put" ELSE "exit")
  /\ UNCHANGED <<heapFree, msgOf, msgId, queue>>

PutNext(p, id) ==
  /\ queue' = [queue EXCEPT ![NextProcId(p)] = Append(@, id)]
  /\ msgOf' = [msgOf EXCEPT ![p] = Nothing]

Send ==
  /\ RingGoto(0, "put", "get")
  /\ msgId' = [msgId EXCEPT ![0] = @ + 1]
  /\ PutNext(0, msgId[0] + 1)
  /\ UNCHANGED heapFree

GetNext(p) ==
  /\ queue[p] # <<>>
  /\ RingGoto(p, "get", IF p = 0 THEN "loop" ELSE "pass")
  /\ msgOf' = [msgOf EXCEPT ![p] = Head(queue[p])]
  /\ queue' = [queue EXCEPT ![p] = Tail(@)]
  /\ UNCHANGED <<heapFree, msgId>>

(* Faulty: a processor leaves a round too early. *)
Pass_Short(p) ==
  /\ RingGoto(p, "pass", IF msgOf[p] + 1 >= NUMLOOPS THEN "exit" ELSE "get")
  /\ msgId' = [msgId EXCEPT ![p] = msgOf[p]]
  /\ PutNext(p, msgOf[p])
  /\ UNCHANGED heapFree

Pass(p) ==
  /\ RingGoto(p, "pass", IF msgOf[p] >= NUMLOOPS THEN "exit" ELSE "get")
  /\ msgId' = [msgId EXCEPT ![p] = msgOf[p]]
  /\ PutNext(p, msgOf[p])
  /\ UNCHANGED heapFree

ProcStep(p) ==
  \/ GetHeap(p) \/ CreateQueue(p) \/ OpenNext(p)
  \/ p = 0 /\ (AllocMessage \/ Loop \/ Send)
  \/ GetNext(p) \/ (p # 0 /\ Pass(p))

RingNext == IpcStart \/ \E p \in Proc : ProcStep(p)

(* A processor runs as long as it is not waiting. *)
RingFairness == WF_ringVars(IpcStart) /\ \A p \in Proc : WF_ringVars(ProcStep(p))

RingSpec == RingInit /\ [][RingNext]_ringVars /\ RingFairness

---------------------------------------------------------------------------
(* The heap has one block, and the message of that block is never in two   *)
(* places: the copies in queues and in hands are as many as the blocks     *)
(* taken, although every put leaves the old pointer in the sender.         *)
Copies(p) == Len(queue[p]) + (IF msgOf[p] = Nothing THEN 0 ELSE 1)

SingleMessage ==
  \A p, q \in Proc :
    /\ Copies(p) > 0 => heapFree = NumBlocks - 1 /\ Copies(p) = 1
    /\ Copies(p) > 0 /\ Copies(q) > 0 => p = q

(* Whoever has left has left nothing in its queue: a message sent to a     *)
(* processor that has called BIOS_exit would be lost with it.              *)
NothingSentToTheDead == \A p \in Proc : pc[p] = "exit" => queue[p] = <<>>

(* The processors count the same rounds: each is at the round of its       *)
(* predecessor or one behind, and processor 0 at most one ahead of all.    *)
RoundsInStep ==
  \A p \in Proc \ {0} : msgId[p - 1] - msgId[p] \in {0, 1} /\ msgId[0] - msgId[p] \in {0, 1}

(* The ring passes on one message, in rounds all processors agree on, and   *)
(* nobody leaves it while it may still get one.                             *)
RingSafe == RingTypeOK /\ SingleMessage /\ NothingSentToTheDead /\ RoundsInStep

(* Every processor leaves, after NUMLOOPS rounds and not before. *)
AllComplete == <>(\A p \in Proc : pc[p] = "exit" /\ msgId[p] = NUMLOOPS)
=============================================================================
