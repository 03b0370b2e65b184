--------------------------- MODULE MC_JackCapture ---------------------------
(***************************************************************************)
(* The capture thread pair on a deque that holds at most 3 buffers, over   *)
(* enough cycles for two overflows with deliveries before and after them.  *)
(***************************************************************************)
EXTENDS JackCapture
=============================================================================
