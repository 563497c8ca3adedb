------------------------------- MODULE VsMem --------------------------------
(***************************************************************************)
(* The allocation functions of the library (oam_vsmem.c) and a caller that *)
(* uses each as it is meant: what it got from one it gives back to its     *)
(* counterpart.  Which allocator of the runtime they stand for depends on  *)
(* the build.  The allocators are external: a pool gives out blocks until  *)
(* its capacity is used up, then NULL.  The heap the DSP allocates from is  *)
(* laid over a block by heap_init.                                         *)
(***************************************************************************)
EXTENDS Integers, FiniteSets

CONSTANTS
  Capacities,  \* bytes of a pool: one of these
  CallerSizes, \* sizes the caller asks for
  MaxBlocks    \* bound: blocks the caller holds

ASSUME VsMemAssumption ==
  Capacities \subseteq Nat /\ CallerSizes \subseteq Nat \ {0} /\ MaxBlocks \in Nat

VARIABLES
  ompacc,     \* OMPACC is defined: the build for the accelerator
  useDdr,     \* SYMMETRIC_MEMORY__USE_DDR is defined
  capacity,   \* bytes of each pool
  live,       \* blocks allocated and not freed
  wrongFree,  \* history: a block was freed twice or to another pool
  region,     \* the block the target's heap lies on
  targetUsed, \* bytes allocated from that heap
  held        \* what the caller holds, with the call that is to free it

memVars == <<live, wrongFree, region, targetUsed>>
vsmemVars == <<ompacc, useDdr, capacity, memVars, held>>

NoBlock == [name |-> "none", nr |-> 0, pool |-> "none", bytes |-> 0]
ArmOnlyHeap == [NoBlock EXCEPT !.name = "-1"]  \* (char *)(-1)

SymmetricPool ==
  IF ~ompacc THEN "vsmem" ELSE IF useDdr THEN "ddr" ELSE "msmc"
ScratchPool == IF ompacc THEN "msmc" ELSE "vsmem"

(* A byte is a block and a place in it. *)
Bytes(blocks) == Cardinality(UNION {{b} \X (1 .. b.bytes) : b \in blocks})

Used(pool) == Bytes({b \in live : b.pool = pool})

Block(name, nr, pool, bytes) == [name |-> name, nr |-> nr, pool |-> pool, bytes |-> bytes]

Fits(pool, bytes) == Used(pool) + bytes <= capacity

SymmetricBlock(name, nr, bytes) == Block(name, nr, SymmetricPool, bytes)

(* A NULL pointer is not freed; anything else goes to the pool. *)
FreeTo(pool, blocks) ==
  /\ live' = live \ blocks
  /\ wrongFree' = (wrongFree \/ \E b \in blocks \ {NoBlock} : b \notin live \/ b.pool # pool)

SymmetricFree(blocks) == FreeTo(SymmetricPool, blocks)
ScratchFree(blocks) == FreeTo(ScratchPool, blocks)

(* On the target, and nothing in an ARM-only build. *)
HeapInit(block) ==
  /\ region' = IF ompacc THEN block ELSE region
  /\ targetUsed' = IF ompacc THEN 0 ELSE targetUsed

(* symmetric_malloc on the target; NULL if the heap has no room. *)
TargetMalloc(bytes) ==
  targetUsed' = IF targetUsed + bytes <= region.bytes THEN targetUsed + bytes ELSE targetUsed

VsMemTypeOK ==
  /\ ompacc \in BOOLEAN /\ useDdr \in BOOLEAN /\ capacity \in Capacities
  /\ \A b \in live : b.pool \in {"ddr", "msmc", "vsmem"}
  /\ \A pool \in {"ddr", "msmc", "vsmem"} : Used(pool) <= capacity
  /\ wrongFree \in BOOLEAN
  /\ targetUsed \in 0 .. region.bytes

VsMemInit ==
  /\ ompacc \in BOOLEAN /\ useDdr \in BOOLEAN /\ capacity \in Capacities
  /\ live = {} /\ wrongFree = FALSE
  /\ region = NoBlock /\ targetUsed = 0
  /\ held = {}

---------------------------------------------------------------------------
(* The caller. *)
Hold(block, via) == held' = held \union {[block |-> block, via |-> via]}

FreshNr == CHOOSE k \in 0 .. MaxBlocks : \A h \in held : h.block.nr # k

(* A block, or NULL, which the caller does not keep. *)
Get(pool, bytes, via) ==
  LET block == Block("block", FreshNr, pool, bytes)
  IN  IF Fits(pool, bytes)
      THEN live' = live \union {block} /\ Hold(block, via)
      ELSE UNCHANGED <<live, held>>

CallSymmetric(bytes) ==
  Get(SymmetricPool, bytes, "symmetric_free") /\ UNCHANGED <<wrongFree, region, targetUsed>>

CallScratch(bytes) ==
  Get(ScratchPool, bytes, "scratch_free") /\ UNCHANGED <<wrongFree, region, targetUsed>>

(* getMem and getAlignedMem without an initializer. *)
CallGetMem(bytes) ==
  Get(SymmetricPool, bytes, "freeMem") /\ UNCHANGED <<wrongFree, region, targetUsed>>

(* heap_create: malloc and heap_init, or the address -1. *)
CallHeapCreate(bytes) ==
  IF ompacc
  THEN LET block == Block("block", FreshNr, SymmetricPool, bytes)
       IN  /\ Get(SymmetricPool, bytes, "heap_destroy")
           /\ IF Fits(SymmetricPool, bytes) THEN HeapInit(block) ELSE UNCHANGED <<region, targetUsed>>
           /\ UNCHANGED wrongFree
  ELSE Hold(ArmOnlyHeap, "heap_destroy") /\ UNCHANGED memVars

(* Freed by the counterpart; heap_destroy ignores the address -1. *)
CallFree ==
  \E h \in held :
    /\ held' = held \ {h}
    /\ CASE h.block = ArmOnlyHeap -> UNCHANGED <<live, wrongFree>>
         [] h.via = "scratch_free" -> ScratchFree({h.block})
         [] OTHER -> SymmetricFree({h.block})
    /\ IF region = h.block
       THEN region' = NoBlock /\ targetUsed' = 0  \* the caller does not go on to use it
       ELSE UNCHANGED <<region, targetUsed>>

(* An allocation on the target, from the heap there is. *)
CallOnTarget(bytes) ==
  /\ region # NoBlock
  /\ TargetMalloc(bytes)
  /\ UNCHANGED <<live, wrongFree, region, held>>

CallerNext ==
  /\ \/ /\ Cardinality(held) < MaxBlocks
        /\ \E bytes \in CallerSizes :
             CallSymmetric(bytes) \/ CallScratch(bytes) \/ CallGetMem(bytes) \/ CallHeapCreate(bytes)
     \/ CallFree
     \/ \E bytes \in CallerSizes : CallOnTarget(bytes)
  /\ UNCHANGED <<ompacc, useDdr, capacity>>

---------------------------------------------------------------------------
(* In every build each block goes back to the allocator it comes from, and  *)
(* once: the two halves of every pair of functions choose the same one.     *)
FreedWhereAllocated == ~wrongFree
=============================================================================
