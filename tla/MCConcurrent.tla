---------------------------- MODULE MCConcurrent ----------------------------
EXTENDS Concurrent, TLC

MCNumeral == ("0" :> 0) @@ ("1" :> 1) @@ ("3" :> 3) @@ ("9" :> 9)

(* No option, timeouts early, late and below the minimum, -c in the last    *)
(* place, in the first and between two options, a value that is missing.    *)
MCCommandLines == {
  <<>>,
  <<"-to", "3">>,
  <<"-to", "0", "-tr", "9">>,
  <<"-to", "9", "-to", "3", "-c">>,
  <<"-c">>,
  <<"-c", "9", "1", "-to">>,
  <<"-tr", "1", "-c", "-to", "3">>,
  <<"-c", "-tr", "9", "-to", "3">>}

(* concurrent_main.cpp 54: parse_args finds every option of a command line  *)
(* on which -c comes last, and takes no value for an option.                *)
ASSUME OptionsHonoured == \A argv0 \in MCCommandLines : HonoursOptions(argv0)
=============================================================================
