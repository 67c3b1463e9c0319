----------------------------- MODULE MCCapture -----------------------------
(* Instructions of up to seven cycles, so that some finish before and some *)
(* after the NMI of the fifth cycle; 64 cycles are enough for the longest  *)
(* way, a CPU asleep that stacks twice.                                    *)
EXTENDS Capture
=============================================================================
