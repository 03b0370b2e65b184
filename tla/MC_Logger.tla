------------------------------ MODULE MC_Logger ------------------------------
(***************************************************************************)
(* The logger with three modems, of which two transmit one packet each, in *)
(* any overlap, to the others.  In packet mode nothing bounds how far the  *)
(* logger is behind; in continuous mode, where more is sent, a detector    *)
(* goes on when all that it published before has been handled.             *)
(***************************************************************************)
EXTENDS Logger

Lag == [c \in BOOLEAN |-> IF c THEN 1 ELSE MaxBuffers]
=============================================================================
