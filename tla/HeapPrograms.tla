---------------------------- MODULE HeapPrograms ----------------------------
(***************************************************************************)
(* Two programs that allocate in rounds.  sym_heap_reset/ lays a new heap   *)
(* for the target over a new block in every round, and the target leaks    *)
(* from it; offload/ lays it once and calls data_map_target, which          *)
(* allocates on the host, in every round.  Sizes are in units: the object, *)
(* its parts and the handle are of one, and so is the megabyte added.      *)
(* What the target computes on the arrays is left out.                     *)
(***************************************************************************)
EXTENDS VsMem, HostArgs

CONSTANTS
  HeapLines,   \* command lines the programs are started with
  DefaultRounds, DefaultSize  \* without the options -hr and -r, -b and -na

ASSUME HeapProgramsAssumption ==
  DefaultRounds \in Nat \ {0} /\ DefaultSize \in Nat \ {0}

VARIABLES
  heapProgram, \* "reset", "offload", or "caller": neither
  heapLine,    \* the command line
  stage,       \* where main() is
  round,       \* rounds begun
  ptr          \* the program's pointers

heapVars == <<vsmemVars, heapProgram, heapLine, stage, round, ptr>>

Reset == heapProgram = "reset"

Size == Value(heapLine, IF Reset THEN "-b" ELSE "-na", DefaultSize)
Rounds == Value(heapLine, IF Reset THEN "-hr" ELSE "-r", DefaultRounds)
LeakBytes == Value(heapLine, "-l", 0)
HeapSize == IF Reset THEN 2 * Size + 1 + LeakBytes ELSE 4 * Size

Pointers == {"heap", "a", "b", "signals", "leak", "obj", "inner_h", "inner_h_ints",
             "inner_t", "inner_t_ints", "host_ints"}

HeapInitial ==
  /\ VsMemInit
  /\ heapProgram \in {"reset", "offload", "caller"}
  /\ heapLine \in HeapLines /\ Readable(heapLine)
  /\ round = 0
  /\ ptr = [v \in Pointers |-> NoBlock]
  /\ stage = IF Reset THEN "round"
             ELSE IF Len(heapLine) < 2 THEN "exit"  \* print_usage
             ELSE "buffers"

StageGoto(from, to) == stage = from /\ stage' = to
UnchangedSetup == UNCHANGED <<ompacc, useDdr, capacity, held, heapProgram, heapLine>>

(* The pointers after symmetric_malloc of each in turn, sizes in s: NULL    *)
(* from the first that finds no room (all the later ones are no smaller).   *)
Allocated(names, s) ==
  LET need(k) ==
        Used(SymmetricPool) + Bytes({SymmetricBlock(names[j], round', s[j]) : j \in 1 .. k})
  IN  [v \in Pointers |->
         IF \E k \in DOMAIN names : names[k] = v
         THEN LET k == CHOOSE k \in DOMAIN names : names[k] = v
              IN  IF need(k) <= capacity THEN SymmetricBlock(v, round', s[k]) ELSE NoBlock
         ELSE ptr[v]]

Malloc(names, s) ==
  /\ ptr' = Allocated(names, s)
  /\ live' = live \union ({ptr'[names[k]] : k \in DOMAIN names} \ {NoBlock})
  /\ UNCHANGED wrongFree

---------------------------------------------------------------------------
(* sym_heap_reset: while (iterations--) *)

(* Faulty: the iterations are not counted. *)
ResetHeap_SameRound ==
  /\ Reset /\ round < Rounds
  /\ round' = round
  /\ Malloc(<<"heap">>, <<HeapSize>>)
  /\ StageGoto("round", IF ptr'["heap"] = NoBlock THEN "exit" ELSE "arrays")
  /\ IF ptr'["heap"] = NoBlock THEN UNCHANGED <<region, targetUsed>> ELSE HeapInit(ptr'["heap"])
  /\ UnchangedSetup

(* Without memory for the heap the loop is left. *)
ResetHeap ==
  /\ Reset /\ round < Rounds
  /\ round' = round + 1
  /\ Malloc(<<"heap">>, <<HeapSize>>)
  /\ StageGoto("round", IF ptr'["heap"] = NoBlock THEN "exit" ELSE "arrays")
  /\ IF ptr'["heap"] = NoBlock THEN UNCHANGED <<region, targetUsed>> ELSE HeapInit(ptr'["heap"])
  /\ UnchangedSetup

(* The arrays are written, whether or not there was memory for them. *)
ResetArrays ==
  /\ UNCHANGED round
  /\ Malloc(<<"a", "b">>, <<Size, Size>>)
  /\ StageGoto("arrays", IF NoBlock \in {ptr'["a"], ptr'["b"]} THEN "killed" ELSE "target")
  /\ UNCHANGED <<region, targetUsed>> /\ UnchangedSetup

(* The handle, and the target region, which leaks: from the heap of the     *)
(* target, or, in an ARM-only build, from the pool everything else is from. *)
ResetTarget ==
  /\ UNCHANGED round
  /\ IF LeakBytes > 0 /\ ~ompacc
     THEN Malloc(<<"signals", "leak">>, <<1, LeakBytes>>)
     ELSE Malloc(<<"signals">>, <<1>>)
  /\ IF LeakBytes > 0 /\ ompacc THEN TargetMalloc(LeakBytes) ELSE UNCHANGED targetUsed
  /\ StageGoto("target", IF ptr'["signals"] = NoBlock THEN "killed" ELSE "free")
  /\ UNCHANGED region /\ UnchangedSetup

(* Faulty: the heap is not freed. *)
ResetFree_KeepHeap ==
  /\ StageGoto("free", "round")
  /\ SymmetricFree({ptr[v] : v \in {"signals", "a", "b"}})
  /\ ptr' = [v \in Pointers |-> NoBlock]
  /\ UNCHANGED <<region, targetUsed, round>> /\ UnchangedSetup

ResetFree ==
  /\ StageGoto("free", "round")
  /\ SymmetricFree({ptr[v] : v \in {"signals", "a", "b", "heap"}})
  /\ ptr' = [v \in Pointers |-> NoBlock]
  /\ UNCHANGED <<region, targetUsed, round>> /\ UnchangedSetup

ResetExit ==
  /\ Reset /\ round = Rounds
  /\ StageGoto("round", "exit")
  /\ UNCHANGED <<memVars, round, ptr>> /\ UnchangedSetup

---------------------------------------------------------------------------
(* offload *)

(* The buffers in and out, which are written, and the heap, which is not    *)
(* checked before it is laid out on the target.                             *)
OffloadBuffers ==
  /\ UNCHANGED round
  /\ Malloc(<<"a", "b", "heap">>, <<Size, Size, HeapSize>>)
  /\ LET missing == {v \in {"a", "b", "heap"} : ptr'[v] = NoBlock}
     IN  StageGoto("buffers", IF missing = {} \/ (missing = {"heap"} /\ ~ompacc) THEN "call" ELSE "killed")
  /\ IF stage' = "call" THEN HeapInit(ptr'["heap"]) ELSE UNCHANGED <<region, targetUsed>>
  /\ UnchangedSetup

(* data_map_target up to the data region.  Only the object is checked; the  *)
(* others are written.                                                      *)
DataMapPack ==
  /\ round < Rounds
  /\ round' = round + 1
  /\ LET names == <<"obj", "inner_h", "inner_h_ints", "inner_t", "inner_t_ints">>
     IN  /\ Malloc(names, [k \in DOMAIN names |-> 1])
         /\ StageGoto("call", IF ptr'["obj"] = NoBlock THEN "call"
                              ELSE IF \E k \in DOMAIN names : ptr'[names[k]] = NoBlock THEN "killed"
                              ELSE "data")
  /\ UNCHANGED <<region, targetUsed>> /\ UnchangedSetup

(* The data region, which runs on the host: inner_t gets new numbers.       *)
DataMapRegion ==
  /\ LET ints == SymmetricBlock("region_ints", round, 1)
     IN  /\ StageGoto("data", IF Fits(SymmetricPool, 1) THEN "return" ELSE "killed")
         /\ ptr' = [ptr EXCEPT !["host_ints"] = ptr["inner_t_ints"],
                               !["inner_t_ints"] = IF Fits(SymmetricPool, 1) THEN ints ELSE NoBlock]
         /\ live' = live \union (IF Fits(SymmetricPool, 1) THEN {ints} ELSE {})
  /\ UNCHANGED <<wrongFree, region, targetUsed, round>> /\ UnchangedSetup

(* Faulty: the numbers freed are those that are printed afterwards. *)
DataMapReturn_FreeNew ==
  /\ StageGoto("return", "print")
  /\ SymmetricFree({ptr["inner_t_ints"]})
  /\ UNCHANGED <<region, targetUsed, round, ptr>> /\ UnchangedSetup

(* The numbers inner_t had before are freed. *)
DataMapReturn ==
  /\ StageGoto("return", "print")
  /\ SymmetricFree({ptr["host_ints"]})
  /\ UNCHANGED <<region, targetUsed, round, ptr>> /\ UnchangedSetup

(* The numbers are printed; the pointers are lost. *)
DataMapPrint ==
  /\ StageGoto("print", "call")
  /\ ptr' = [v \in Pointers |-> IF v \in {"a", "b", "heap"} THEN ptr[v] ELSE NoBlock]
  /\ UNCHANGED <<memVars, round>> /\ UnchangedSetup

OffloadFree ==
  /\ ~Reset /\ round = Rounds
  /\ StageGoto("call", "exit")
  /\ SymmetricFree({ptr[v] : v \in {"heap", "a", "b"}})
  /\ ptr' = [v \in Pointers |-> NoBlock]
  /\ UNCHANGED <<region, targetUsed, round>> /\ UnchangedSetup

ProgramNext ==
  \/ ResetHeap \/ ResetArrays \/ ResetTarget \/ ResetFree \/ ResetExit
  \/ OffloadBuffers \/ DataMapPack \/ DataMapRegion \/ DataMapReturn \/ DataMapPrint \/ OffloadFree

HeapNext ==
  \/ heapProgram # "caller" /\ ProgramNext
  \/ heapProgram = "caller" /\ CallerNext /\ UNCHANGED <<heapProgram, heapLine, stage, round, ptr>>

HeapFairness == WF_heapVars(heapProgram # "caller" /\ ProgramNext)

HeapSpec == HeapInitial /\ [][HeapNext]_heapVars /\ HeapFairness

---------------------------------------------------------------------------
HeapTypeOK ==
  /\ VsMemTypeOK
  /\ stage \in {"round", "arrays", "target", "free", "buffers", "call", "data",
                "return", "print", "killed", "exit"}
  /\ round \in 0 .. Rounds
  /\ DOMAIN ptr = Pointers

(* The target finds its heap empty in every round, and what it leaks always *)
(* fits.                                                                    *)
LeakFits ==
  ompacc =>
    /\ stage = "target" => targetUsed = 0
    /\ stage = "free" => targetUsed = LeakBytes

(* Every round of sym_heap_reset begins with the memory of the first: what  *)
(* the target leaks goes with the heap it leaks from.  So memory that is    *)
(* enough for one round is enough for all.  In an ARM-only build the leak   *)
(* stays, and nothing else does.                                            *)
RoundsAlike ==
  Reset =>
    /\ LeakFits
    /\ stage = "round" =>
         live \subseteq IF ompacc THEN {} ELSE {SymmetricBlock("leak", k, LeakBytes) : k \in 1 .. round}
    /\ (ompacc \/ LeakBytes = 0) /\ (stage = "killed" \/ (stage = "exit" /\ round < Rounds))
         => round <= 1

(* The target's heap lies on a block that is allocated whenever the target  *)
(* allocates from it, and what data_map_target prints has not been freed.   *)
UsesLiveMemory ==
  /\ Reset /\ stage = "target" /\ ompacc => region = ptr["heap"] /\ region \in live
  /\ stage = "print" => {ptr[v] : v \in {"obj", "inner_h", "inner_h_ints", "inner_t", "inner_t_ints"}} \subseteq live

(* data_map_target leaves five blocks behind in every round that it gets    *)
(* memory in, and the program nothing else.                                 *)
LeavesFiveBlocks ==
  heapProgram = "offload" /\ stage = "exit" => \E k \in 0 .. round : Cardinality(live) = 5 * k

(* In every build a block goes back, once, to the allocator it comes from;  *)
(* nothing is used that is not allocated; and what offload does not free is *)
(* five blocks for each of its calls.                                       *)
BlocksSafe == HeapTypeOK /\ FreedWhereAllocated /\ UsesLiveMemory /\ LeavesFiveBlocks

(* The programs end, whatever memory there is. *)
ProgramEnds == heapProgram # "caller" => <>(stage \in {"exit", "killed"})
=============================================================================
