--------------------------- MODULE MCMcInterface ---------------------------
(* One controller beside the detection, the timeout, the rpm and the mcif  *)
(* timer thread.  A fault time of two lets a second fault fall into it.    *)
EXTENDS McInterface

CONSTANT c1
=============================================================================
