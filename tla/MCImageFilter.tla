--------------------------- MODULE MCImageFilter ----------------------------
(***************************************************************************)
(* The filter and the files of the image programs.  They share nothing but  *)
(* the values of the pixels, which neither looks at, and are checked side   *)
(* by side.                                                                 *)
(***************************************************************************)
EXTENDS ImageFilter, PgmFile, TLC

VARIABLE part  \* what of the program is looked at

MCNumeral == ("1" :> 1) @@ ("2" :> 2) @@ ("3" :> 3)

(* No or one argument, even and odd numbers of iterations and repetitions.  *)
MCFilterLines == {
  <<>>,
  <<"-ki", "1">>,
  <<"-kr", "2", "-n", "2">>,
  <<"-ki", "2", "-kr", "3", "-n", "2">>,
  <<"-n", "3", "-ki", "3">>,
  <<"-ki", "1", "-kr", "3", "-n", "1">>}

MCSizes == {<<2, 2>>, <<1, 3>>}

(* A build that shares j is checked with a single iteration, in which every *)
(* race there is can happen: the next starts with j = 1 again.              *)
MCInit ==
  /\ part \in {"filter", "files"}
  /\ \/ /\ part = "filter"
        /\ ImageInit /\ (jShared => KernelIter * KernelReps = 1)
        /\ columns = FALSE /\ image = NoImageYet /\ file = <<>>
        /\ source = NoImageYet /\ across = FALSE /\ passes = 0
     \/ /\ part = "files"
        /\ FileInit
        /\ program = "host" /\ filterLine = <<>> /\ ImageInit

MCNext ==
  /\ \/ part = "filter" /\ ImageNext /\ UNCHANGED fileVars
     \/ part = "files" /\ FileNext /\ UNCHANGED imageVars
  /\ UNCHANGED part

MCSpec ==
  /\ MCInit /\ [][MCNext]_<<imageVars, fileVars, part>>
  /\ part = "filter" => ImageFairness

(* Every run of the program with enough arguments ends with its output      *)
(* written.                                                                 *)
FilterCompletes == part = "filter" => ImageWritten
=============================================================================
