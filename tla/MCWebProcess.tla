---------------------------- MODULE MCWebProcess ----------------------------
(* Two callers on each side of the privilege lock. *)
EXTENDS WebProcess

TwoReals == {"report", "watcher"}
TwoRaws == {"socket", "bind"}
=============================================================================
