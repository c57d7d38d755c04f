-------------------------------- MODULE MCTrim --------------------------------
(* Two events and a fault are enough for a removal while a command runs.   *)
EXTENDS Trim
===============================================================================
