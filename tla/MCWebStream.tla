---------------------------- MODULE MCWebStream ----------------------------
(* One browser with an open stream. *)
EXTENDS WebStream

OneStream == {"browser"}
=============================================================================
