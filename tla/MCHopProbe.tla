----------------------------- MODULE MCHopProbe -----------------------------
(* Instance of HopProbe for TLC. *)
EXTENDS HopProbe
=============================================================================
