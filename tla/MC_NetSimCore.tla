-------------------------- MODULE MC_NetSimCore --------------------------
(* Modems 0 and 1 on host "A", 2 on host "B"; as many as the build allows. *)
EXTENDS NetSimCore, TLC

MCFirst == "A" :> 0 @@ "B" :> 2
MCLocal == "A" :> 2 @@ "B" :> 1
==========================================================================
