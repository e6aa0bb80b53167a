------------------------------ MODULE MCWorker ------------------------------
(* Instances of Worker for TLC: every constant is a number of the cfg. *)
EXTENDS Worker
=============================================================================
