---------------------------- MODULE ImageFilter -----------------------------
(***************************************************************************)
(* The image filters (dsp_img_filter/, and the same kernel on the host in  *)
(* pgm/).  main() lays the input and the output image into one block of    *)
(* memory, makes that block the heap the DSP allocates from, and offloads  *)
(* the filter once per repetition, input and output changing places.  The  *)
(* Gaussian kernel takes a further image from that heap and swaps it with  *)
(* the output after every iteration; the rows of an iteration are dealt to *)
(* a team of threads.                                                      *)
(*                                                                         *)
(* j, the loop variable of the columns, is declared outside the parallel   *)
(* loop and shared by the team: a data race.  In a build that keeps it in  *)
(* a register every thread has a j of its own; in one that does not, all   *)
(* read and write the same (jShared).  Where the allocator finds the       *)
(* further image is external: apart from the images or on top of them      *)
(* (overlaid).  A pixel is modelled as the number of times the filter has  *)
(* been applied to it.                                                     *)
(***************************************************************************)
EXTENDS HostArgs, FiniteSets

CONSTANTS
  Rows, Cols,     \* size of the image
  Teams,          \* the sizes the team may have
  FilterLines,    \* command lines the program is started with
  Programs        \* "Gaussian" or "Invert" (#if in main() chooses the
                  \* filter), "host" (pgm/)

ASSUME ImageFilterAssumption ==
  /\ Rows \in Nat \ {0} /\ Cols \in Nat \ {0}
  /\ Teams \subseteq Nat \ {0}
  /\ Programs \subseteq {"Gaussian", "Invert", "host"}

VARIABLES
  program, filterLine, team, jShared, overlaid,  \* chosen at the start
  phase,          \* where main() and the kernel are
  rep,            \* repetitions of the kernel done
  n,              \* iterations of the kernel done
  imageIn, imageOut,  \* run_params: the images in the heap
  bufA, bufB,     \* image_buf_a and image_buf_b
  pixels,         \* the images' pixels, by their address
  live,           \* blocks allocated
  freedTwice,     \* something else than a block allocated has been freed
  at, row, j, seen,  \* per thread: place in the loops, i, j, and j as read
  output          \* the pixels written to the output file

runVars == <<program, filterLine, team, jShared, overlaid>>
bufVars == <<imageIn, imageOut, bufA, bufB>>
loopVars == <<at, row, j, seen>>
imageVars == <<runVars, phase, rep, n, bufVars, pixels, live, freedTwice,
               loopVars, output>>

NoImage == "none"
KernelIter == Value(filterLine, IF program = "host" THEN "-n" ELSE "-ki",
                    IF program = "host" THEN 64 ELSE 1)
KernelReps == IF program = "host" THEN 1 ELSE Value(filterLine, "-kr", 1)

DoubleBuffered == program \in {"Gaussian", "host"}

Canonical2d(r, c) == r * Cols + c
Pixel == 0 .. Rows * Cols - 1
Interior == {Canonical2d(r, c) : r \in 1 .. Rows - 2, c \in 1 .. Cols - 2}

(* The memory an image lies in. *)
Place(image) == IF image = "block" /\ overlaid THEN "heap_in" ELSE image

Member == 0 .. team - 1

ImageTypeOK ==
  /\ phase \in {"repeat", "iterate", "loop", "free", "exit"}
  /\ rep \in 0 .. KernelReps /\ n \in 0 .. KernelIter
  /\ {imageIn, imageOut} = {"heap_in", "heap_out"}
  /\ {bufA, bufB} \subseteq {"heap_in", "heap_out", "block", NoImage}
  /\ \A image \in DOMAIN pixels :
       pixels[image] \in [Pixel -> Nat]
  /\ live \subseteq {"heap", "block"} /\ freedTwice \in BOOLEAN
  /\ at \in [Member -> {"row", "test", "call", "read", "write", "done"}]
  /\ row \in [Member -> 0 .. Rows] /\ j \in [Member -> Nat] /\ seen \in [Member -> Nat]
  /\ output = <<>> \/ output \in [Pixel -> Nat]

(* The options but -s and -i, which set the size of the image; the block of *)
(* the two images with the input copied to it, and the heap made of it.     *)
(* Fewer than two arguments print the usage.                                *)
ImageInit ==
  /\ program \in Programs
  /\ filterLine \in FilterLines /\ Readable(filterLine)
  /\ team \in IF program = "host" THEN {1} ELSE Teams
  /\ jShared \in IF team = 1 THEN {FALSE} ELSE BOOLEAN
  /\ overlaid \in IF program = "Gaussian" THEN BOOLEAN ELSE {FALSE}
  /\ phase = IF Len(filterLine) < 2 /\ program # "host" THEN "exit" ELSE "repeat"
  /\ live = IF phase = "exit" THEN {} ELSE {"heap"}
  /\ rep = 0 /\ n = 0
  /\ imageIn = "heap_in" /\ imageOut = "heap_out"
  /\ bufA = NoImage /\ bufB = NoImage
  /\ pixels = [image \in {"heap_in", "heap_out", "block"} |-> [p \in Pixel |-> 0]]
  /\ freedTwice = FALSE
  /\ at = [t \in Member |-> "done"]
  /\ row = [t \in Member |-> 0]
  /\ j = [t \in Member |-> 0] /\ seen = j
  /\ output = <<>>

Goto(from, to) == phase = from /\ phase' = to

---------------------------------------------------------------------------
(* The kernels.  symmetric_malloc and the copy of the input to the block;   *)
(* the other kernel works on the images themselves.                         *)
StartKernel ==
  /\ rep < KernelReps
  /\ Goto("repeat", "iterate")
  /\ n' = 0
  /\ bufB' = imageOut
  /\ IF DoubleBuffered
     THEN /\ bufA' = "block"
          /\ live' = live \union {"block"}
          /\ pixels' = [pixels EXCEPT ![Place("block")] = pixels[imageIn]]
     ELSE bufA' = imageIn /\ UNCHANGED <<live, pixels>>
  /\ UNCHANGED <<runVars, rep, imageIn, imageOut, freedTwice, loopVars, output>>

(* The rows of the image, dealt in chunks of consecutive rows. *)
Chunk(t) == {r \in 1 .. Rows - 2 : ((r - 1) * team) \div (Rows - 2) = t}

StartIteration ==
  /\ n < KernelIter
  /\ Goto("iterate", "loop")
  /\ at' = [t \in Member |-> "row"]
  /\ row' = [t \in Member |-> 0]
  /\ UNCHANGED <<runVars, rep, n, bufVars, pixels, live, freedTwice, j, seen, output>>

(* The cell that holds a thread's j. *)
Cell(t) == IF jShared THEN 0 ELSE t

ThreadGoto(t, from, to) ==
  phase = "loop" /\ at[t] = from /\ at' = [at EXCEPT ![t] = to]

UnchangedInLoop ==
  UNCHANGED <<runVars, phase, rep, n, bufVars, live, freedTwice, output>>

StartRow(t) ==
  LET rest == {r \in Chunk(t) : r > row[t]}
  IN  /\ IF rest = {}
         THEN ThreadGoto(t, "row", "done") /\ UNCHANGED <<row, j>>
         ELSE /\ ThreadGoto(t, "row", "test")
              /\ row' = [row EXCEPT ![t] = CHOOSE r \in rest : \A s \in rest : r <= s]
              /\ j' = [j EXCEPT ![Cell(t)] = 1]
      /\ UNCHANGED <<seen, pixels>> /\ UnchangedInLoop

(* Faulty: one column too many. *)
TestColumn_Border(t) ==
  /\ ThreadGoto(t, "test", IF j[Cell(t)] < Cols THEN "call" ELSE "row")
  /\ UNCHANGED <<row, j, seen, pixels>> /\ UnchangedInLoop

TestColumn(t) ==
  /\ ThreadGoto(t, "test", IF j[Cell(t)] < Cols - 1 THEN "call" ELSE "row")
  /\ UNCHANGED <<row, j, seen, pixels>> /\ UnchangedInLoop

(* The pixels an application reads: the one it writes, and the Gaussian      *)
(* filters' four neighbours of it.                                          *)
Stencil(p) == IF DoubleBuffered THEN {p, p - 1, p + 1, p - Cols, p + Cols} ELSE {p}

(* invert_stencil_op and gauss_stencil_op write one pixel.  (Beyond the     *)
(* image it is one of what lies behind, which is not modelled.)             *)
Apply(t) ==
  /\ ThreadGoto(t, "call", "read")
  /\ LET p == Canonical2d(row[t], j[Cell(t)])
     IN  pixels' = [pixels EXCEPT ![Place(bufB)][p] = pixels[Place(bufA)][p] + 1]
  /\ UNCHANGED <<row, j, seen>> /\ UnchangedInLoop

(* j++ reads j and writes it. *)
ReadColumn(t) ==
  /\ ThreadGoto(t, "read", "write")
  /\ seen' = [seen EXCEPT ![t] = j[Cell(t)]]
  /\ UNCHANGED <<row, j, pixels>> /\ UnchangedInLoop

(* Faulty: the columns are not counted. *)
WriteColumn_Same(t) ==
  /\ ThreadGoto(t, "write", "test")
  /\ j' = [j EXCEPT ![Cell(t)] = seen[t]]
  /\ UNCHANGED <<row, seen, pixels>> /\ UnchangedInLoop

WriteColumn(t) ==
  /\ ThreadGoto(t, "write", "test")
  /\ j' = [j EXCEPT ![Cell(t)] = seen[t] + 1]
  /\ UNCHANGED <<row, seen, pixels>> /\ UnchangedInLoop

ThreadStep(t) ==
  StartRow(t) \/ TestColumn(t) \/ Apply(t) \/ ReadColumn(t) \/ WriteColumn(t)

(* Faulty: the kernels without a further image swap, too. *)
EndIteration_SwapAll ==
  /\ \A t \in Member : at[t] = "done"
  /\ Goto("loop", "iterate")
  /\ n' = n + 1
  /\ bufA' = bufB /\ bufB' = bufA
  /\ UNCHANGED <<runVars, rep, imageIn, imageOut, pixels, live, freedTwice,
                 loopVars, output>>

(* The swap that ends an iteration. *)
EndIteration ==
  /\ \A t \in Member : at[t] = "done"
  /\ Goto("loop", "iterate")
  /\ n' = n + 1
  /\ IF DoubleBuffered THEN bufA' = bufB /\ bufB' = bufA ELSE UNCHANGED <<bufA, bufB>>
  /\ UNCHANGED <<runVars, rep, imageIn, imageOut, pixels, live, freedTwice,
                 loopVars, output>>

Free(image) ==
  /\ live' = live \ {image}
  /\ freedTwice' = (freedTwice \/ image \notin live)

(* symmetric_free of whichever buffer is not the output, and the swap that  *)
(* ends a repetition.                                                       *)
EndKernel ==
  /\ n = KernelIter
  /\ Goto("iterate", "repeat")
  /\ IF DoubleBuffered
     THEN Free(IF bufA # imageOut THEN bufA ELSE bufB)
     ELSE UNCHANGED <<live, freedTwice>>
  /\ rep' = rep + 1
  /\ imageIn' = imageOut /\ imageOut' = imageIn
  /\ bufA' = NoImage /\ bufB' = NoImage
  /\ UNCHANGED <<runVars, n, pixels, loopVars, output>>

(* The image at the place of the output is written to the file, and the     *)
(* heap is freed.                                                           *)
WriteOutput ==
  /\ rep = KernelReps
  /\ Goto("repeat", "free")
  /\ output' = pixels["heap_out"]
  /\ UNCHANGED <<runVars, rep, n, bufVars, pixels, live, freedTwice, loopVars>>

FreeHeap ==
  /\ Goto("free", "exit")
  /\ Free("heap")
  /\ UNCHANGED <<runVars, rep, n, bufVars, pixels, loopVars, output>>

MainStep ==
  StartKernel \/ StartIteration \/ EndIteration \/ EndKernel \/ WriteOutput \/ FreeHeap

ImageNext == MainStep \/ \E t \in Member : ThreadStep(t)

(* The host and every thread of the team run until they are done. *)
ImageFairness ==
  /\ WF_imageVars(MainStep)
  /\ \A t \in 0 .. 7 : WF_imageVars(t \in Member /\ ThreadStep(t))

ImageSpec == ImageInit /\ [][ImageNext]_imageVars /\ ImageFairness

---------------------------------------------------------------------------
(* A thread with a j of its own applies the filter at the pixels between     *)
(* the borders, where all it reads and writes lies in the images.  (Of a j  *)
(* that is shared nothing of the kind can be said: of three threads two can *)
(* carry it up in turns while the third keeps resetting it below the test,  *)
(* and nothing in the code bounds how far beyond the last column it gets.)  *)
FilterStaysInside ==
  ~jShared => \A t \in Member : at[t] = "call" =>
    LET p == Canonical2d(row[t], j[t])
    IN  p \in Interior /\ Stencil(p) \subseteq Pixel

(* The output has the filter applied by every iteration of every repetition *)
(* to every pixel but the border, and to each once: where j is in registers,*)
(* the further image is apart, and the numbers of repetitions and of        *)
(* iterations between two swaps are odd.  (With an even number the result   *)
(* of the last is in the other buffer.)                                     *)
Odd(k) == k % 2 = 1
OutputComplete ==
  output # <<>> /\ ~jShared /\ ~overlaid /\ Odd(KernelReps) /\ (DoubleBuffered => Odd(KernelIter))
    => output = [p \in Pixel |->
         IF p \notin Interior THEN 0
         ELSE KernelReps * (IF DoubleBuffered THEN KernelIter ELSE 1)]

(* The further image is freed by the kernel that has allocated it, whichever*)
(* of the swapped buffers it is, the images never are; and the block of the *)
(* images, the heap of the others, is freed last.                           *)
MemoryFreed ==
  /\ ~freedTwice
  /\ phase = "repeat" => live = {"heap"}
  /\ phase = "exit" => live = {}

(* The filter touches memory of its own where j is not shared and, wherever *)
(* a shared j has got to and whichever buffer is which after the swaps,     *)
(* frees what it has allocated, once.                                       *)
FilterSafe == ImageTypeOK /\ FilterStaysInside /\ MemoryFreed

(* However the increments of a shared j overtake each other, the loops end  *)
(* and the output is written.                                               *)
ImageWritten == Len(filterLine) >= 2 \/ program = "host" => <>(phase = "exit" /\ output # <<>>)
=============================================================================
