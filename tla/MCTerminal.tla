----------------------------- MODULE MCTerminal -----------------------------
(* Two targets, and one more that a browser may add; queues of one. *)
EXTENDS Terminal
=============================================================================
