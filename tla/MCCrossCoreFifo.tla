-------------------------- MODULE MCCrossCoreFifo --------------------------
(* A ring of four slots, so that it fills, wraps and empties in every      *)
(* phase, and two distinguishable items besides the blank one.             *)
EXTENDS CrossCoreFifo

CONSTANTS a, b, blank

MCItem == {a, b, blank}
MCBlank == blank
=============================================================================
