------------------------------ MODULE Checkers ------------------------------
(***************************************************************************)
(* The port checker and the HTTP checker: one goroutine per (target, port  *)
(* spec) and one for an HTTP URL, each a serial loop of checks, cancelled  *)
(* per target (a live deletion) or all at once (the end of the session).   *)
(* The supervisor's operations on the checkers are serialised by it, so    *)
(* one operation is under way at a time; what they race with is the loops. *)
(***************************************************************************)
EXTENDS Naturals, FiniteSets

CONSTANTS
  Targets,       \* every target that is ever checked
  Tcp, Udp,      \* the port specs, by protocol
  Http           \* the loop of the HTTP URL

ASSUME CheckersAssumption ==
  Tcp # Udp /\ Http \notin Targets \X {Tcp, Udp}

PortLoops == Targets \X {Tcp, Udp}
Loops == PortLoops \cup {Http}
LoopsOf(t) == {<<t, Tcp>>, <<t, Udp>>}

\* The recorded status, as far as the loops tell it apart: nothing yet, an
\* answer (Open, Open|Filtered, any HTTP response), or a failed attempt (Closed,
\* Filtered, Error). An attempt that shutdown interrupts looks like a failed one.
Checking == "checking"
Results == {"answer", "failure"}
None == [res |-> Checking, shut |-> FALSE]

VARIABLES
  stopped,       \* pc.ctx and hc.ctx are cancelled
  run,           \* targetRuns and the cancellation of each run's context
  ip,            \* the target has an address (TargetStats.CurrentIP)
  loop,          \* the goroutine's place in loop, runPeriodic and check
  outcome,       \* the attempt's outcome, and whether shutdown caused it
  watch,         \* the goroutine of closeOnCancel
  status,        \* the recorded status (PortCheckResult, HTTPCheckResult)
  aborted,       \* the recorded status came from an attempt shutdown ended
  told,          \* the last status an event announced
  kind,          \* the checker the session has
  call           \* the supervisor's operation under way

cvars == <<stopped, run, ip, loop, outcome, watch, status, aborted, told, kind, call>>

Places == {"off", "resolving", "checking", "dialing", "closing", "verdict",
           "storing", "telling", "idle", "gone"}
Calls == {"none", "started", "joining", "stopping", "ended"}

CheckersInit ==
  /\ stopped = FALSE
  /\ run = [t \in Targets |-> "none"]
  /\ ip \in [Targets -> BOOLEAN]
  /\ loop = [l \in Loops |-> "off"]
  /\ outcome = [l \in Loops |-> None]
  /\ watch = [l \in PortLoops |-> "none"]
  /\ status = [l \in Loops |-> Checking]
  /\ aborted = [l \in Loops |-> FALSE]
  /\ told = [l \in Loops |-> Checking]
  /\ kind = "none" /\ call = "none"

\* The context of a loop: a target's run context is a child of pc.ctx.
Cancelled(l) == stopped \/ (l # Http /\ run[l[1]] \in {"cancelled", "removed"})

Enters(l, place) == loop' = [loop EXCEPT ![l] = place]
Quiet(ls) == \A l \in ls : loop[l] \in {"off", "gone"}

-----------------------------------------------------------------------------
(* The supervisor's operations.                                            *)

Launched(ts) ==
  [l \in Loops |-> IF l \in PortLoops /\ l[1] \in ts THEN "resolving" ELSE loop[l]]

\* Start. A session may have both checkers; they share nothing but the calls,
\* so one at a time is enough.
Start(k, ts) ==
  /\ call = "none"
  /\ call' = "started"
  /\ kind' = k
  /\ run' = [t \in Targets |-> IF t \in ts THEN "running" ELSE "none"]
  /\ loop' = IF k = "port" THEN Launched(ts) ELSE [loop EXCEPT ![Http] = "checking"]
  /\ UNCHANGED <<stopped, ip, outcome, watch, status, aborted, told>>

AddTarget(t) ==
  /\ call = "started" /\ kind = "port"
  /\ run[t] = "none"
  /\ run' = [run EXCEPT ![t] = "running"]
  /\ loop' = Launched({t})
  /\ UNCHANGED <<stopped, ip, outcome, watch, status, aborted, told, kind, call>>

\* RemoveTarget: cancel, then wait for done.
RemoveTarget(t) ==
  /\ call = "started"
  /\ run[t] = "running"
  /\ run' = [run EXCEPT ![t] = "cancelled"]
  /\ call' = "joining"
  /\ UNCHANGED <<stopped, ip, loop, outcome, watch, status, aborted, told, kind>>

Joined(t) == Quiet(LoopsOf(t))
Removed(t) ==
  /\ call = "joining" /\ run[t] = "cancelled"
  /\ Joined(t)
  /\ run' = [run EXCEPT ![t] = "removed"]
  /\ call' = "started"
  /\ UNCHANGED <<stopped, ip, loop, outcome, watch, status, aborted, told, kind>>

Stop ==
  /\ call = "started"
  /\ stopped' = TRUE
  /\ call' = "stopping"
  /\ UNCHANGED <<run, ip, loop, outcome, watch, status, aborted, told, kind>>

Wait ==
  /\ call = "stopping"
  /\ Quiet(Loops)
  /\ call' = "ended"
  /\ UNCHANGED <<stopped, run, ip, loop, outcome, watch, status, aborted, told, kind>>

Supervise ==
  \/ \E ts \in SUBSET Targets : Start("port", ts)
  \/ Start("http", {})
  \/ Stop
  \/ Wait
  \/ \E t \in Targets : AddTarget(t) \/ RemoveTarget(t) \/ Removed(t)

\* The pinger resolves the target late.
Resolved(t) ==
  /\ ~ip[t]
  /\ ip' = [ip EXCEPT ![t] = TRUE]
  /\ UNCHANGED <<stopped, run, loop, outcome, watch, status, aborted, told, kind, call>>

-----------------------------------------------------------------------------
(* The loop of a check.                                                    *)

\* The wait for the address ends: it is there, or maxDNSWait has passed.
AddressWaited(l) ==
  /\ loop[l] = "resolving"
  /\ Enters(l, "checking")
AddressWaitCancelled(l) ==
  /\ loop[l] = "resolving" /\ ~ip[l[1]] /\ Cancelled(l)
  /\ Enters(l, "gone")

\* runPeriodic runs the first check before it looks at the context, so check
\* does that itself; without an address there is nothing to check.
CheckBegins(l) ==
  /\ loop[l] = "checking"
  /\ Enters(l, IF Cancelled(l) \/ (l # Http /\ ~ip[l[1]]) THEN "idle" ELSE "dialing")

Ends(l, res, shut, place) ==
  /\ loop[l] = "dialing"
  /\ outcome' = [outcome EXCEPT ![l] = [res |-> res, shut |-> shut]]
  /\ Enters(l, place)

HasWatcher(l) == l # Http /\ l[2] = Udp
After(l) == IF HasWatcher(l) THEN "closing" ELSE "verdict"

\* The peer, the network or the attempt's own timeout decides.
Answered(l) == \E res \in Results : Ends(l, res, FALSE, After(l))

\* A cancelled dial or request returns; a UDP read returns when the watcher
\* has closed the socket.
Interrupted(l) ==
  /\ IF HasWatcher(l) THEN watch[l] = "fired" ELSE Cancelled(l)
  /\ Ends(l, "failure", TRUE, After(l))

\* A request that cannot be built is recorded as it is.
NotBuilt(l) == l = Http /\ Ends(l, "failure", FALSE, "storing")

\* closeOnCancel's goroutine: armed with the socket, it closes the socket on
\* cancellation; the deferred stop closes done and waits for it.
Armed(l) ==
  /\ HasWatcher(l) /\ loop[l] = "dialing" /\ watch[l] = "none"
  /\ watch' = [watch EXCEPT ![l] = "armed"]
Fires(l) ==
  /\ HasWatcher(l) /\ watch[l] = "armed" /\ Cancelled(l)
  /\ watch' = [watch EXCEPT ![l] = "fired"]
WatchEnds(l) ==
  /\ HasWatcher(l) /\ loop[l] = "closing"
  /\ watch' = [watch EXCEPT ![l] = "none"]
  /\ Enters(l, "verdict")

\* The context decides whether the outcome is a measurement: a port check asks
\* again whatever the outcome, an HTTP check only after a failed request.
LooksAtStopOnly(l) == stopped
Discards(l) == Cancelled(l) /\ (l = Http => outcome[l].res = "failure")
Verdict(l) ==
  /\ loop[l] = "verdict"
  /\ Enters(l, IF Discards(l) THEN "idle" ELSE "storing")
  /\ outcome' = IF Discards(l) THEN [outcome EXCEPT ![l] = None] ELSE outcome

\* SetResult; a change of a port's status is told after it.
NextPlace(l) == IF l # Http /\ status[l] # outcome[l].res THEN "telling" ELSE "idle"
SetResult(l) ==
  /\ loop[l] = "storing"
  /\ status' = [status EXCEPT ![l] = outcome[l].res]
  /\ aborted' = [aborted EXCEPT ![l] = outcome[l].shut]
  /\ outcome' = [outcome EXCEPT ![l] = None]
  /\ Enters(l, NextPlace(l))

RecordEvent(l) ==
  /\ loop[l] = "telling"
  /\ told' = [told EXCEPT ![l] = status[l]]
  /\ Enters(l, "idle")

\* The select of runPeriodic: the ticker, or the context.
Tick(l) == loop[l] = "idle" /\ Enters(l, "checking")
LeavesAtStop(l) == loop[l] = "idle" /\ stopped /\ Enters(l, "gone")
Leaves(l) == loop[l] = "idle" /\ Cancelled(l) /\ Enters(l, "gone")

Advance(l) ==
  \/ /\ l # Http /\ (AddressWaited(l) \/ AddressWaitCancelled(l))
     /\ UNCHANGED <<outcome, watch, status, aborted, told>>
  \/ CheckBegins(l) /\ UNCHANGED <<outcome, watch, status, aborted, told>>
  \/ (Answered(l) \/ Interrupted(l) \/ NotBuilt(l)) /\ UNCHANGED <<watch, status, aborted, told>>
  \/ (Armed(l) \/ Fires(l)) /\ UNCHANGED <<loop, outcome, status, aborted, told>>
  \/ WatchEnds(l) /\ UNCHANGED <<outcome, status, aborted, told>>
  \/ Verdict(l) /\ UNCHANGED <<watch, status, aborted, told>>
  \/ SetResult(l) /\ UNCHANGED <<watch, told>>
  \/ RecordEvent(l) /\ UNCHANGED <<outcome, watch, status, aborted>>

LoopAdvances(l) == Advance(l) /\ UNCHANGED <<stopped, run, ip, kind, call>>
LoopLeaves(l) ==
  Leaves(l) /\ UNCHANGED <<outcome, watch, status, aborted, told, stopped, run, ip, kind, call>>
LoopTicks(l) ==
  Tick(l) /\ UNCHANGED <<outcome, watch, status, aborted, told, stopped, run, ip, kind, call>>
LoopStep(l) == LoopAdvances(l) \/ LoopTicks(l) \/ LoopLeaves(l)

CheckersStep ==
  \/ Supervise
  \/ \E t \in Targets : Resolved(t)
  \/ \E l \in Loops : LoopStep(l)

-----------------------------------------------------------------------------

CheckersTypeOK ==
  /\ stopped \in BOOLEAN
  /\ run \in [Targets -> {"none", "running", "cancelled", "removed"}]
  /\ ip \in [Targets -> BOOLEAN]
  /\ loop \in [Loops -> Places]
  /\ outcome \in [Loops -> [res : Results \cup {Checking}, shut : BOOLEAN]]
  /\ watch \in [PortLoops -> {"none", "armed", "fired"}]
  /\ status \in [Loops -> Results \cup {Checking}]
  /\ aborted \in [Loops -> BOOLEAN]
  /\ told \in [Loops -> Results \cup {Checking}]
  /\ kind \in {"none", "port", "http"}
  /\ call \in Calls

\* A shutdown is never a failed measurement: a dial that fails, a socket that
\* is closed or a request that ends because the target was deleted or the
\* session stopped leaves the recorded status alone. (The comment of
\* runPeriodic, and the tests of both checkers.)
ShutdownIsNoFailure == \A l \in Loops : ~aborted[l]

\* A target that was removed live stays as it was when the deletion returned:
\* no check of it is under way and none of its results changes, so its
\* statistics can be dropped. (RemoveTarget joins the loops, Wait too.)
RemovedRests ==
  \A t \in Targets : \A l \in LoopsOf(t) :
    run[t] = "removed" \/ call = "ended" =>
      loop'[l] = loop[l] /\ status'[l] = status[l] /\ told'[l] = told[l]

\* Every change of a port's status is told by an event, whatever cancels the
\* loop between the two. (check reads the previous status, stores, compares.)
ChangesAreTold ==
  \A l \in PortLoops : loop[l] # "telling" => told[l] = status[l]

\* A deletion and the end of the session get through, wherever the loops are:
\* waiting for the address, dialing, reading a socket, waiting for the ticker.
OperationsReturn == call \in {"joining", "stopping"} ~> call \in {"started", "ended"}

\* A target whose address comes late, even later than maxDNSWait, still gets
\* its first result. (loop waits for the address, then keeps ticking; stated of
\* the UDP loop, whose attempt has the most places to end in.)
FirstResultComes ==
  \A t \in Targets : LET l == <<t, Udp>> IN
    (loop[l] # "off" /\ ip[t]) ~> (status[l] # Checking \/ Cancelled(l))
=============================================================================
