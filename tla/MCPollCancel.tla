---------------------------- MODULE MCPollCancel ----------------------------
EXTENDS PollCancel, TLC

MCNumeral == ("1" :> 1) @@ ("2" :> 2) @@ ("4" :> 4) @@ ("9" :> 9)

(* In microseconds, the last one wrapped around. *)
MCTimeouts == {3, 6, 12, -5}

(* Timeouts within the run, beyond it and beyond an int, with and without   *)
(* a cancellation.                                                          *)
MCCommandLines == {
  <<>>,
  <<"-to", "1">>,
  <<"-to", "1", "-c">>,
  <<"-to", "2", "-tr", "9", "-c">>,
  <<"-to", "9">>,
  <<"-c", "-to", "2">>}
=============================================================================
