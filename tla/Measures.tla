------------------------------ MODULE Measures ------------------------------
(***************************************************************************)
(* What a session derives from the answers to its packets: the routes of   *)
(* its targets, their health, and the MTU of their paths.  They share no   *)
(* state, so one behaviour is about one of them ("part").                  *)
(***************************************************************************)
EXTENDS MtrEngine, Health, PathMTU

VARIABLE part
mvars == <<part, vars, hvars, uvars>>

MeasuresInit ==
  /\ part \in {"routes", "health", "pathMTU"}
  /\ Init /\ HealthInit /\ MTUInit
  \* An instance that is not looked at starts in one state only.
  /\ part # "routes" => listed = Targets
  /\ part # "health" => window = Min(Windows)
  /\ part # "pathMTU" => asked = Min(Sizes) /\ \A t \in Destinations :
                            kind[t] = "unresolved" /\ path[t] = CHOOSE p \in Paths : TRUE

InRoutes(A) == part = "routes" /\ A /\ UNCHANGED <<part, hvars, uvars>>
InHealth(A) == part = "health" /\ A /\ UNCHANGED <<part, vars, uvars>>
InPathMTU(A) == part = "pathMTU" /\ A /\ UNCHANGED <<part, vars, hvars>>

\* Health's outcomes and PathMTU's targets come to an end; so do the routes when
\* every target was removed.
MeasuresNext == InRoutes(Next) \/ InHealth(HealthNext) \/ InPathMTU(MTUNext)

MeasuresSpec == MeasuresInit /\ [][MeasuresNext]_mvars
=============================================================================
