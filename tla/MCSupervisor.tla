---------------------------- MODULE MCSupervisor ----------------------------
(* Instances of Supervisor for TLC. *)
EXTENDS Supervisor

CONSTANTS t1, t2, t3, c1, c2

TwoTargets == {t1, t2}
ThreeTargets == {t1, t2, t3}
OneTarget == {t1}
OneClient == {c1}
TwoClients == {c1, c2}

=============================================================================
