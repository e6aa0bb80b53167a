---------------------------- MODULE MCBackground ----------------------------
(* One target with two port specs and an HTTP URL; one hop that two routers *)
(* answer for, one lookup at a time.                                        *)
EXTENDS Background
=============================================================================
