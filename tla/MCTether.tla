------------------------------ MODULE MCTether ------------------------------
(* Three lives of the Tether, so that everything two of them leave behind  *)
(* can meet the third; two uploads, a dump and a trace of two packets.     *)
EXTENDS Tether
=============================================================================
