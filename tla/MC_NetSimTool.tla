-------------------------- MODULE MC_NetSimTool --------------------------
(* Ranges 1 and 3, depths 2 and 4 of 2 to 5 (the step does not divide the  *)
(* interval), and statistics that come up to the call of loop() before the *)
(* one that publishes them.                                                *)
EXTENDS NetSimTool
==========================================================================
