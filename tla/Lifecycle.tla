----------------------------- MODULE Lifecycle ------------------------------
(***************************************************************************)
(* What the supervisor promises, without its queue, its joins and its      *)
(* edits: the state table above supervisorState in cmd/main/supervisor.go. *)
(* At most one measurement exists at a time, its replacement starts only   *)
(* after it was released, and nothing starts after termination.            *)
(***************************************************************************)
EXTENDS Naturals

VARIABLES
  mode,       \* stopped, running or terminated
  measuring,  \* the measurement instances that hold resources
  created     \* instances created so far; names are not reused

vars == <<mode, measuring, created>>

Init ==
  /\ mode = "stopped"
  /\ measuring = {}
  /\ created = 0

\* start, and the second half of restart.
Launch ==
  /\ mode = "stopped"
  /\ measuring = {}
  /\ created' = created + 1
  /\ measuring' = {created'}
  /\ mode' = "running"

\* stop, terminate, and the first half of restart.
Release ==
  /\ mode = "running"
  /\ measuring = {created}
  /\ measuring' = {}
  /\ mode' \in {"stopped", "terminated"}
  /\ UNCHANGED created

\* terminate while stopped.
Terminate ==
  /\ mode = "stopped"
  /\ mode' = "terminated"
  /\ UNCHANGED <<measuring, created>>

Next == Launch \/ Release \/ Terminate

Spec == Init /\ [][Next]_vars

=============================================================================
