--------------------------- MODULE MC_JackPlayback ---------------------------
(***************************************************************************)
(* Playback with cycles of two frames, buffers of none, two and three      *)
(* samples, so that buffers and cycles drift against each other, and start *)
(* times before, within and beyond the calibration and the next cycles.    *)
(***************************************************************************)
EXTENDS JackPlayback
=============================================================================
