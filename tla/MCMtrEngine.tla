----------------------------- MODULE MCMtrEngine ----------------------------
(* Instances of MtrEngine for TLC. *)
EXTENDS MtrEngine

CONSTANTS t1, t2, r1, r2

OneTarget == {t1}
TwoTargets == {t1, t2}
OneRouter == {r1}
TwoRouters == {r1, r2}

=============================================================================
