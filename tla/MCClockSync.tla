----------------------------- MODULE MCClockSync -----------------------------
(* ClockSync with half seconds for ticks. *)
EXTENDS ClockSync

MCJumps == {-4, 4}
==============================================================================
