----------------------------- MODULE MC_Detector -----------------------------
(***************************************************************************)
(* The detector on buffers of two samples.  A packet ends after a silence  *)
(* of three samples, so that the silence always spans two buffers; the two *)
(* JACK buffer sizes give a prebuffer of two and of four buffers.          *)
(***************************************************************************)
EXTENDS Detector

TwoSamples == [1..2 -> BOOLEAN]
=============================================================================
