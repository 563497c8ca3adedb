-------------------------- MODULE LoopbackThreads ---------------------------
(***************************************************************************)
(* The threads of ipu_offload/ipu_core_multi.c: each returns the messages  *)
(* of a host thread of its own and adds to a counter they share, without a *)
(* lock.  The kernel (SYS/BIOS) and the host threads are external: the     *)
(* kernel runs a ready thread of the highest priority and takes the CPU    *)
(* from it for one of a higher priority only.                              *)
(***************************************************************************)
EXTENDS Integers, Sequences, FiniteSets

CONSTANTS
  Thread,     \* the threads; NUMTHREADS of them
  LOOPS,      \* NUMLOOPS of this program
  MaxRestarts \* bound: times the host program is started again

ASSUME LoopbackAssumption ==
  IsFiniteSet(Thread) /\ LOOPS \in Nat \ {0} /\ MaxRestarts \in Nat

VARIABLES
  at,         \* per thread: where loopbackFxn is
  id,         \* per thread: its msgId
  held,       \* per thread: id of the message it holds
  slave,      \* per thread: its queue, none before it is created
  sent,       \* per host thread: messages sent
  reply,      \* per host thread: its queue
  restarts,   \* times the host program has been started again
  cpu,        \* the threads that have the CPU or had it taken from them,
              \* the last one running
  register,   \* per thread: numTests as it has read it
  numTests

threadVars == <<at, id, held, slave, sent, reply, restarts, cpu, register, numTests>>

ThreadsTypeOK ==
  /\ at \in [Thread -> {"create", "get", "check", "add", "store", "complete",
                        "aborted"}]
  /\ id \in [Thread -> 0 .. LOOPS] /\ held \in [Thread -> 0 .. LOOPS]
  /\ slave \in [Thread -> Seq(0 .. LOOPS)] /\ reply \in [Thread -> Seq(0 .. LOOPS)]
  /\ sent \in [Thread -> 0 .. LOOPS] /\ restarts \in 0 .. MaxRestarts
  /\ cpu \in Seq(Thread)
  /\ register \in [Thread -> Nat] /\ numTests \in Nat

ThreadsInit ==
  /\ at = [t \in Thread |-> "create"]
  /\ id = [t \in Thread |-> 0] /\ held = [t \in Thread |-> 0]
  /\ slave = [t \in Thread |-> <<>>] /\ reply = [t \in Thread |-> <<>>]
  /\ sent = [t \in Thread |-> 0] /\ restarts = 0
  /\ cpu = <<>>
  /\ register = [t \in Thread |-> 0] /\ numTests = 0

(* params of Task_create; Faulty: they are of different priorities. *)
Priority_Own(t) == CHOOSE n \in 1 .. 2 : (n = 2) = (t = CHOOSE u \in Thread : TRUE)
Priority(t) == 3

ThreadsGoto(t, from, to) == at[t] = from /\ at' = [at EXCEPT ![t] = to]

Aborted == \E t \in Thread : at[t] = "aborted"
Running(t) == cpu # <<>> /\ cpu[Len(cpu)] = t
Leave == cpu' = SubSeq(cpu, 1, Len(cpu) - 1)

Ready(t) ==
  /\ at[t] \in {"create", "check", "add", "store"} \/ (at[t] = "get" /\ slave[t] # <<>>)
  /\ \A k \in DOMAIN cpu : cpu[k] # t

Dispatch(t) ==
  /\ Ready(t)
  /\ cpu # <<>> => Priority(t) > Priority(cpu[Len(cpu)])
  /\ \A u \in Thread : Ready(u) => Priority(u) <= Priority(t)
  /\ cpu' = Append(cpu, t)
  /\ UNCHANGED <<at, id, held, slave, sent, reply, restarts, register, numTests>>

Create(t) ==
  /\ ThreadsGoto(t, "create", "get")
  /\ UNCHANGED <<id, held, slave, sent, reply, restarts, cpu, register, numTests>>

(* MessageQ_get gives up the CPU when the queue is empty. *)
GetMessage(t) ==
  \/ /\ slave[t] # <<>>
     /\ ThreadsGoto(t, "get", "check")
     /\ held' = [held EXCEPT ![t] = Head(slave[t])]
     /\ slave' = [slave EXCEPT ![t] = Tail(@)]
     /\ UNCHANGED <<id, sent, reply, restarts, cpu, register, numTests>>
  \/ /\ at[t] = "get" /\ slave[t] = <<>>
     /\ Leave
     /\ UNCHANGED <<at, id, held, slave, sent, reply, restarts, register, numTests>>

(* Faulty: the answer is sent to whichever host thread comes first. *)
CheckAndReturn_OneHost(t) ==
  /\ held[t] = id[t]
  /\ ThreadsGoto(t, "check", IF id[t] + 1 < LOOPS THEN "get" ELSE "add")
  /\ reply' = [reply EXCEPT ![CHOOSE u \in Thread : TRUE] = Append(@, held[t])]
  /\ id' = [id EXCEPT ![t] = @ + 1]
  /\ UNCHANGED <<held, slave, sent, restarts, cpu, register, numTests>>

CheckAndReturn(t) ==
  \/ /\ held[t] = id[t]
     /\ ThreadsGoto(t, "check", IF id[t] + 1 < LOOPS THEN "get" ELSE "add")
     /\ reply' = [reply EXCEPT ![t] = Append(@, held[t])]
     /\ id' = [id EXCEPT ![t] = @ + 1]
     /\ UNCHANGED <<held, slave, sent, restarts, cpu, register, numTests>>
  \/ /\ held[t] # id[t]  \* System_abort
     /\ ThreadsGoto(t, "check", "aborted")
     /\ UNCHANGED <<id, held, slave, sent, reply, restarts, cpu, register, numTests>>

(* numTests += NUMLOOPS, a read and a write. *)
Add(t) ==
  \/ /\ ThreadsGoto(t, "add", "store")
     /\ register' = [register EXCEPT ![t] = numTests]
     /\ UNCHANGED <<id, held, slave, sent, reply, restarts, cpu, numTests>>
  \/ /\ ThreadsGoto(t, "store", "complete")
     /\ numTests' = register[t] + LOOPS
     /\ Leave
     /\ UNCHANGED <<id, held, slave, sent, reply, restarts, register>>

ThreadStep(t) ==
  Running(t) /\ (Create(t) \/ GetMessage(t) \/ CheckAndReturn(t) \/ Add(t))

(* External: a host thread numbers its messages from 0 and waits for the   *)
(* answer to each; the program may be killed and started again.            *)
HostThread(t) ==
  /\ \/ /\ at[t] # "create" /\ sent[t] < LOOPS
        /\ sent[t] > 0 => reply[t] # <<>>
        /\ slave' = [slave EXCEPT ![t] = Append(@, sent[t])]
        /\ sent' = [sent EXCEPT ![t] = @ + 1]
     \/ /\ sent[t] = LOOPS /\ reply[t] # <<>>
        /\ UNCHANGED <<slave, sent>>
  /\ reply' = [reply EXCEPT ![t] = <<>>]
  /\ UNCHANGED <<at, id, held, restarts, cpu, register, numTests>>

HostRestart ==
  /\ restarts < MaxRestarts
  /\ restarts' = restarts + 1
  /\ sent' = [t \in Thread |-> 0]
  /\ reply' = [t \in Thread |-> <<>>]
  /\ UNCHANGED <<at, id, held, slave, cpu, register, numTests>>

CpuStep(t) == ~Aborted /\ (Dispatch(t) \/ ThreadStep(t))

ThreadsNext == HostRestart \/ \E t \in Thread : CpuStep(t) \/ HostThread(t)

(* The kernel runs whichever thread it chooses, and the host goes on.      *)
ThreadsFairness ==
  /\ WF_threadVars(\E t \in Thread : CpuStep(t))
  /\ \A t \in Thread : WF_threadVars(HostThread(t))

ThreadsSpec == ThreadsInit /\ [][ThreadsNext]_threadVars /\ ThreadsFairness

---------------------------------------------------------------------------
(* The counter has the tests of every thread that has completed, although   *)
(* the threads add to it without a lock: they have one priority and do not  *)
(* block between the read and the write.                                   *)
CountsEveryThread ==
  numTests = LOOPS * Cardinality({t \in Thread : at[t] = "complete"})

(* The check of the number does not fail while the host program that began  *)
(* the test goes on: only one started again in between makes a core abort.  *)
AbortedByRestart == Aborted => restarts > 0

(* Neither the shared counter nor the order the kernel runs the threads in  *)
(* makes a test be lost or fail.                                            *)
ThreadsSafe == ThreadsTypeOK /\ CountsEveryThread /\ AbortedByRestart

(* With one run of the host program every thread returns all its messages  *)
(* and the counter has them all.                                           *)
AllTestsComplete ==
  [](restarts = 0) => <>(numTests = LOOPS * Cardinality(Thread))
=============================================================================
