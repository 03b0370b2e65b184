---------------------------- MODULE MC_NetSimUDP ----------------------------
(***************************************************************************)
(* Two modems, and raytraces with one ray, with a second ray that is       *)
(* louder and has a negative amplitude, with only a silent ray, and with   *)
(* no ray at all.                                                          *)
(***************************************************************************)
EXTENDS NetSimUDP

Ray(a, d) == [amp |-> a, delay |-> d]

Rays == {<<Ray(1, 1)>>, <<Ray(1, 1), Ray(-2, 2)>>, <<Ray(0, 2)>>, <<>>}

Uninitialised == {-1}
=============================================================================
