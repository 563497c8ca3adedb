------------------------- MODULE MCMessageExchange --------------------------
(***************************************************************************)
(* The programs of ipu_offload/: the cores are loaded with one of the       *)
(* three images that are built (load-ipu-core.sh) and run it until the end. *)
(***************************************************************************)
EXTENDS MessageExchange, MessageRing, LoopbackThreads

VARIABLE image  \* the program the cores are loaded with

Images == {"single", "multicore", "multi"}

MCInit ==
  /\ image \in Images
  /\ Init /\ (image # "single" => numLoops = 0)
  /\ RingInit /\ ThreadsInit

MCNext ==
  /\ \/ image = "single" /\ Next /\ UNCHANGED <<ringVars, threadVars>>
     \/ image = "multicore" /\ RingNext /\ UNCHANGED <<vars, threadVars>>
     \/ image = "multi" /\ ThreadsNext /\ UNCHANGED <<vars, ringVars>>
  /\ UNCHANGED image

MCSpec ==
  /\ MCInit /\ [][MCNext]_<<vars, ringVars, threadVars, image>>
  /\ image = "single" => Fairness
  /\ image = "multicore" => RingFairness
  /\ image = "multi" => ThreadsFairness

(* With the image of the ring, every processor leaves after all its rounds. *)
RingCompletes == image = "multicore" => AllComplete

(* With the image of the threads and one run of the host program, every     *)
(* thread returns all its messages and the counter has them all.            *)
LoopbackCompletes == image = "multi" => AllTestsComplete

(* With each of the three images the exchange completes, as far as nothing  *)
(* outside of it fails.                                                     *)
ProgramsComplete == HostCompletes /\ RingCompletes /\ LoopbackCompletes
=============================================================================
