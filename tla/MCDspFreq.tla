----------------------------- MODULE MCDspFreq ------------------------------
EXTENDS DspFreq

(* That of -2 is a product which has overflowed. *)
MCTimeouts == {-2, 2, 4, 6, 8}
=============================================================================
