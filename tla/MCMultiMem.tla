----------------------------- MODULE MCMultiMem ------------------------------
(***************************************************************************)
(* The library's memory management: a call of getMultiMem, or one of the    *)
(* programs that allocate in rounds.  Neither touches the other's state.    *)
(***************************************************************************)
EXTENDS MultiMem, HeapPrograms, TLC

VARIABLE part  \* what of the memory management is looked at

MCNumeral == ("1" :> 1) @@ ("2" :> 2) @@ ("4" :> 4)

(* sym_heap_reset with and without a leak, in one round or several; offload *)
(* without enough arguments, and with one call or several.                  *)
MCHeapLines == {
  <<>>,
  <<"-hr", "4", "-c">>,
  <<"-l", "1", "-b", "2">>,
  <<"-hr", "1", "-l", "4">>,
  <<"-na", "1", "-r", "2">>,
  <<"-cp", "-", "-", "-r", "4">>}

MCInit ==
  /\ part \in {"getMultiMem", "heaps"}
  /\ \/ /\ part = "getMultiMem"
        /\ Init
        /\ heapProgram = "caller" /\ heapLine = <<>>
        /\ ompacc = TRUE /\ useDdr = TRUE /\ capacity = 0
     \/ /\ part = "heaps"
        /\ num = 1 /\ size = [k \in {0} |-> 0] /\ Init
  /\ HeapInitial

MCNext ==
  /\ \/ part = "getMultiMem" /\ Next /\ UNCHANGED heapVars
     \/ part = "heaps" /\ HeapNext /\ UNCHANGED vars
  /\ UNCHANGED part

MCSpec ==
  /\ MCInit /\ [][MCNext]_<<vars, heapVars, part>>
  /\ part = "heaps" => HeapFairness

(* sym_heap_reset and offload end, whatever memory there is. *)
HeapProgramsEnd == part = "heaps" => ProgramEnds
=============================================================================
