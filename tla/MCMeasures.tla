----------------------------- MODULE MCMeasures -----------------------------
(* One traced target; thresholds with one RTT below and one between them;  *)
(* two paths of several hops, drawn from five.                             *)
EXTENDS Measures

CONSTANTS t1, t2, r1, r2

OneTarget == {t1}
TwoRouters == {r1, r2}
TwoDestinations == {t1, t2}
TwoReasons == {"timeout", "unreachable"}
FivePaths == {<<9, 7, 5, 8>>, <<6, 9>>, <<12, 10, 3>>, <<12, 12>>, <<12, 11>>}
=============================================================================
