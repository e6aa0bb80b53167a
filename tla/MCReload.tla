------------------------------ MODULE MCReload ------------------------------
(* Two saves of the hosts file or its include, one browser edit, a duration. *)
EXTENDS Reload
=============================================================================
