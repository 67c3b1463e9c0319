------------------------------- MODULE MCAcia -------------------------------
(* Three slots, so that two bytes fill the ring, and groups of one cycle:  *)
(* between two looks at the pin the program does one thing to the ACIA.    *)
EXTENDS Acia

CONSTANTS a, b

MCItem == {a, b}
MCEnables == {{"rx"}, {"timer", "rx"}}
=============================================================================
