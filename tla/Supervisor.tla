----------------------------- MODULE Supervisor -----------------------------
(***************************************************************************)
(* The supervisor of one run-loop iteration (cmd/main/supervisor.go,       *)
(* supervisor_loop.go, live_targets.go, live_reload.go) together with the  *)
(* part of the pinger it drives: one worker goroutine per target and the   *)
(* worker-completion events (internal/pinger/targets.go, pinger.go).       *)
(*                                                                         *)
(* Every goroutine is a separate actor: the command loop, the callers of   *)
(* sendCmd (TUI callback worker, web handlers, file watcher), the main     *)
(* goroutine that starts the iteration and shuts it down, the target       *)
(* workers, and the count observer of every pinger instance.               *)
(***************************************************************************)
EXTENDS Naturals, Sequences, FiniteSets

CONSTANTS
  Targets,         \* identities of TargetStats objects; never reused
  InitialTargets,  \* the targets the iteration is built with
  Clients,         \* goroutines that call sendCmd while the UI runs
  Main,            \* the goroutine of session.runIteration
  CmdBuffer,       \* cmdChanBuffer
  IDLimit,         \* idPartitionSize: echo IDs a session may hand out
  MaxExpand,       \* bound: addresses one added host expands to
  MaxCommands,     \* bound: commands the clients issue
  CountLimited,    \* --count was given
  RouteEnabled,    \* --traceroute or --mtr was given
  PortEnabled,     \* at least one port check was given
  HTTPEnabled      \* at least one HTTP check was given

ASSUME TargetsAssumption ==
  /\ IsFiniteSet(Targets)
  /\ InitialTargets \subseteq Targets
  /\ InitialTargets # {}
ASSUME ActorsAssumption == Main \notin Clients
ASSUME BoundsAssumption ==
  /\ CmdBuffer \in Nat \ {0}
  /\ IDLimit \in Nat
  /\ MaxExpand \in Nat
  /\ MaxCommands \in Nat
ASSUME SettingsAssumption ==
  {CountLimited, RouteEnabled, PortEnabled, HTTPEnabled} \subseteq BOOLEAN

Callers == Clients \union {Main}

\* A successful Start takes at least one echo ID, so IDLimit instances are
\* enough names for every pinger the iteration can create.
Pingers == 1..IDLimit

ClientKinds ==
  {"stop", "restart", "resetStats", "resetRoute", "resetPort", "resetHTTP",
   "addHost", "deleteTarget", "reload"}
Kinds == ClientKinds \union {"start", "terminate", "probesFinished"}

\* A caller is inside sendCmd: blocked sending a command, or awaiting its reply.
Pending == Kinds \union {"waiting"}

\* "from" is meaningless in a completion report, which nobody waits for.
Commands == [kind : Kinds, from : Callers, pinger : 0..IDLimit]

SupervisorStates == {"stopped", "running", "terminated"}
MeasurementStates == {"running", "finished", "stopped"}

VARIABLES
  \* Plumbing shared by all goroutines.
  cmds,          \* the command channel
  done,          \* the done channel is closed
  call,          \* where each caller is inside sendCmd, or what it is sending
  reply,         \* the reply channel of each caller's latest call
  issued,        \* commands issued by the clients (bounded by MaxCommands)
  stage,         \* progress of the main goroutine
  \* Owned by the command loop.
  loop,          \* where the loop goroutine is
  current,       \* the command being handled
  outcome,       \* what the handler will return
  state, p, targets, used,
  mstate,        \* TargetStats.measurementState
  routeEngine,   \* pinger the running route engine probes through, 0 if none
  routeTargets, portTargets, httpRunning,
  drop, joining, next,   \* an edit in progress
  finished,      \* the finished channel holds a notification
  snap,          \* targetSnap
  \* Pinger instances and their goroutines.
  phase, worker, events, observer, echo

plumbing == <<cmds, done, call, reply, issued, stage>>
edit == <<drop, joining, next>>
monitors == <<routeEngine, routeTargets, portTargets, httpRunning>>
pingers == <<phase, worker, events, observer, echo>>
vars == <<plumbing, loop, current, outcome, state, p, targets, used, mstate,
          monitors, edit, finished, snap, pingers>>

-----------------------------------------------------------------------------
(* Pinger: workers and their completion.                                   *)

\* Workers counted by Pinger.activeWorkers.
Active(q) == {t \in Targets : worker[q][t] = "active"}

\* wg.Wait returns: every worker goroutine has ended.
AllDecremented(q) == Active(q) = {}
Joined(q) == \A t \in Targets : worker[q][t] \in {"none", "exited"}

Registered(q) == {t \in Targets : worker[q][t] # "none"}

\* The end of launchTarget's goroutine: activeWorkers is decremented under
\* mapMu, and only the worker that brings it to zero will post an event.
WorkerReturns(q, t) ==
  /\ worker[q][t] = "active"
  /\ worker' = [worker EXCEPT ![q][t] =
                  IF Active(q) = {t} THEN "signalling" ELSE "exited"]
  /\ UNCHANGED <<plumbing, loop, current, outcome, state, p, targets, used,
                 mstate, monitors, edit, finished, snap, phase, events,
                 observer, echo>>

\* The Count-th probe was sent and every outstanding probe was resolved.
WorkerFinishes(q, t) == CountLimited /\ WorkerReturns(q, t)

\* Stop closed done, or RemoveTarget cancelled this worker's context.
WorkerCancelled(q, t) ==
  /\ phase[q] = "stopping" \/ (loop = "join" /\ p = q /\ joining = {t})
  /\ WorkerReturns(q, t)

\* The non-blocking post on workerEvents, a channel of capacity one.
WorkerSignals(q, t) ==
  /\ worker[q][t] = "signalling"
  /\ worker' = [worker EXCEPT ![q][t] = "exited"]
  /\ events' = [events EXCEPT ![q] = TRUE]
  /\ UNCHANGED <<plumbing, loop, current, outcome, state, p, targets, used,
                 mstate, monitors, edit, finished, snap, phase, observer, echo>>

\* allocateIDLocked still succeeds n times: released IDs are not reused.
EnoughIDs(n) == echo + n <= IDLimit

-----------------------------------------------------------------------------
(* The count observer of a pinger.                                         *)

\* Receive a worker event, then the check of done that precedes the send.
ObserverTakesEvent(q) ==
  /\ observer[q] = "waiting"
  /\ events[q]
  /\ events' = [events EXCEPT ![q] = FALSE]
  /\ observer' = [observer EXCEPT ![q] = IF done THEN "exited" ELSE "notifying"]
  /\ UNCHANGED <<plumbing, loop, current, outcome, state, p, targets, used,
                 mstate, monitors, edit, finished, snap, phase, worker, echo>>

ObserverSendsOnce(q) ==
  /\ observer[q] = "notifying"
  /\ Len(cmds) < CmdBuffer
  /\ cmds' = Append(cmds, [kind |-> "probesFinished", from |-> Main, pinger |-> q])
  /\ observer' = [observer EXCEPT ![q] = "exited"]
  /\ UNCHANGED <<done, call, reply, issued, stage, loop, current,
                 outcome, state, p, targets, used, mstate, monitors, edit,
                 finished, snap, phase, worker, events, echo>>
ObserverSends(q) ==
  /\ observer[q] = "notifying"
  /\ Len(cmds) < CmdBuffer
  /\ cmds' = Append(cmds, [kind |-> "probesFinished", from |-> Main, pinger |-> q])
  /\ observer' = [observer EXCEPT ![q] = "waiting"]
  /\ UNCHANGED <<done, call, reply, issued, stage, loop, current,
                 outcome, state, p, targets, used, mstate, monitors, edit,
                 finished, snap, phase, worker, events, echo>>

ObserverIgnoresDone(q) ==
  /\ observer[q] = "waiting"
  /\ done \/ phase[q] # "live"
  /\ observer' = [observer EXCEPT ![q] = "exited"]
  /\ UNCHANGED <<plumbing, loop, current, outcome, state, p, targets, used,
                 mstate, monitors, edit, finished, snap, phase, worker, events,
                 echo>>
ObserverExits(q) ==
  /\ \/ observer[q] = "waiting" /\ (done \/ phase[q] # "live")
     \/ observer[q] = "notifying" /\ done
  /\ observer' = [observer EXCEPT ![q] = "exited"]
  /\ UNCHANGED <<plumbing, loop, current, outcome, state, p, targets, used,
                 mstate, monitors, edit, finished, snap, phase, worker, events,
                 echo>>

-----------------------------------------------------------------------------
(* sendCmd, in the goroutine of its caller.                                *)

loopVars == <<loop, current, outcome, state, p, targets, used, mstate,
              monitors, edit, finished, snap, pingers>>

\* Web and watcher calls may still begin while main tears the iteration down.
Issue(c, k) ==
  /\ c \in Clients
  /\ stage # "starting" /\ p # 0
  /\ call[c] = "idle"
  /\ issued < MaxCommands
  /\ issued' = issued + 1
  /\ call' = [call EXCEPT ![c] = k]
  /\ UNCHANGED <<cmds, done, reply, stage, loopVars>>

Send(c) ==
  /\ call[c] \in Kinds
  /\ Len(cmds) < CmdBuffer
  /\ cmds' = Append(cmds, [kind |-> call[c], from |-> c, pinger |-> 0])
  /\ call' = [call EXCEPT ![c] = "waiting"]
  /\ UNCHANGED <<done, reply, issued, stage, loopVars>>

\* Either wait saw done first: errSupervisorShutDown. A caller refused once
\* would be refused again, so it stays refused.
RefusedBeforeSendOnly(c) ==
  /\ c \in Clients
  /\ call[c] \in Kinds
  /\ done
  /\ call' = [call EXCEPT ![c] = "refused"]
  /\ UNCHANGED <<cmds, done, reply, issued, stage, loopVars>>
Refused(c) ==
  /\ c \in Clients
  /\ call[c] \in Pending
  /\ done
  /\ call' = [call EXCEPT ![c] = "refused"]
  /\ UNCHANGED <<cmds, done, reply, issued, stage, loopVars>>

Return(c) ==
  /\ c \in Clients
  /\ call[c] = "waiting"
  /\ reply[c] # "none"
  /\ call' = [call EXCEPT ![c] = "idle"]
  /\ reply' = [reply EXCEPT ![c] = "none"]
  /\ UNCHANGED <<cmds, done, issued, stage, loopVars>>

\* The TUI consumes a completion notification (RunOptions.DoneCh).
NotificationTaken ==
  /\ stage = "ui"
  /\ finished
  /\ finished' = FALSE
  /\ UNCHANGED <<plumbing, loop, current, outcome, state, p, targets, used,
                 mstate, monitors, edit, snap, pingers>>

-----------------------------------------------------------------------------
(* The main goroutine: startIteration, finishIteration and Shutdown. It is *)
(* the only one that closes done, so its own calls always get a reply.     *)

MainReplied == call[Main] = "waiting" /\ reply[Main] # "none"

MainSendsTerminate ==
  /\ call' = [call EXCEPT ![Main] = "terminate"]
  /\ reply' = [reply EXCEPT ![Main] = "none"]
  /\ UNCHANGED <<cmds, done, issued, loopVars>>

\* startPinger returned without error: the UI takes over.
MainStarted ==
  /\ stage = "starting"
  /\ MainReplied
  /\ reply[Main] = "ok"
  /\ stage' = "ui"
  /\ call' = [call EXCEPT ![Main] = "idle"]
  /\ UNCHANGED <<cmds, done, reply, issued, loopVars>>

\* startPinger failed: Shutdown without an explicit terminate.
MainStartFailed ==
  /\ stage = "starting"
  /\ MainReplied
  /\ reply[Main] = "err"
  /\ stage' = "shutdown"
  /\ MainSendsTerminate

\* runUI returned (quit, --duration, reload): finishIteration terminates.
MainQuits ==
  /\ stage = "ui"
  /\ stage' = "finish"
  /\ MainSendsTerminate

\* finishIteration's Shutdown sends its own terminate.
MainShutsDown ==
  /\ stage = "finish"
  /\ MainReplied
  /\ stage' = "shutdown"
  /\ MainSendsTerminate

MainClosesDone ==
  /\ stage = "shutdown"
  /\ MainReplied
  /\ done' = TRUE
  /\ stage' = "joining"
  /\ call' = [call EXCEPT ![Main] = "idle"]
  /\ UNCHANGED <<cmds, reply, issued, loopVars>>

\* <-loopDone, then observers.Wait().
MainJoins ==
  /\ stage = "joining"
  /\ loop = "exited"
  /\ \A q \in Pingers : observer[q] \in {"none", "exited"}
  /\ stage' = "done"
  /\ UNCHANGED <<cmds, done, call, reply, issued, loopVars>>

MainStep ==
  MainStarted \/ MainStartFailed \/ MainQuits \/ MainShutsDown
    \/ MainClosesDone \/ MainJoins

-----------------------------------------------------------------------------
(* The command loop. A handler starts when its command is received; one    *)
(* that joins goroutines goes through further steps, and every one ends in *)
(* Publish.                                                                *)

Received(k) == loop = "select" /\ cmds # <<>> /\ Head(cmds).kind = k

Take ==
  /\ cmds' = Tail(cmds)
  /\ current' = Head(cmds)
  /\ UNCHANGED <<done, call, reply, issued, stage>>

\* The handler returns r; what is left is publish and the reply.
SkipsPublish(r) ==
  loop' = (IF r = "err" THEN "select" ELSE "publish") /\ outcome' = r
Finish(r) == loop' = "publish" /\ outcome' = r

LoopExits ==
  /\ loop = "select"
  /\ done
  /\ loop' = "exited"
  /\ UNCHANGED <<plumbing, current, outcome, state, p, targets, used, mstate,
                 monitors, edit, finished, snap, pingers>>

\* Only the current pinger can complete, and only while none of its workers
\* was added since it reported.
AcceptsAnyPinger(q) == state = "running" /\ Active(q) = {}
CurrentReport(q) == state = "running" /\ p = q /\ Active(q) = {}

HandleProbesFinished ==
  /\ Received("probesFinished")
  /\ Take
  /\ Finish("ok")
  /\ IF CurrentReport(Head(cmds).pinger)
     THEN /\ finished' = TRUE
          /\ mstate' = [t \in Targets |->
                          IF t \in targets THEN "finished" ELSE mstate[t]]
     ELSE UNCHANGED <<finished, mstate>>
  /\ UNCHANGED <<state, p, targets, used, monitors, edit, snap, pingers>>

\* tearDownAll up to the pinger's Stop: the route engine is joined first.
TearDown ==
  /\ loop' = "teardown"
  /\ outcome' = "ok"
  /\ routeEngine' = 0
  /\ routeTargets' = {}
  /\ phase' = [phase EXCEPT ![p] = "stopping"]
  /\ UNCHANGED <<state, mstate, portTargets, httpRunning, worker, events,
                 observer, echo>>

HandleStart ==
  /\ Received("start")
  /\ Take
  /\ IF state = "stopped"
     THEN loop' = "start" /\ UNCHANGED outcome
     ELSE Finish(IF state = "terminated" THEN "err" ELSE "ok")
  /\ UNCHANGED <<state, p, targets, used, mstate, monitors, edit, finished,
                 snap, pingers>>

HandleStop ==
  /\ Received("stop")
  /\ Take
  /\ IF state = "running"
     THEN TearDown
     ELSE Finish("ok") /\ UNCHANGED <<state, mstate, monitors, pingers>>
  /\ UNCHANGED <<p, targets, used, edit, finished, snap>>

RestartsAfterTerminate ==
  /\ Received("restart")
  /\ Take
  /\ IF state = "running"
     THEN TearDown
     ELSE loop' = "start" /\ UNCHANGED <<outcome, state, mstate, monitors, pingers>>
  /\ UNCHANGED <<p, targets, used, edit, finished, snap>>
HandleRestart ==
  /\ Received("restart")
  /\ Take
  /\ IF state = "running"
     THEN TearDown
     ELSE /\ IF state = "stopped"
             THEN loop' = "start" /\ UNCHANGED outcome
             ELSE Finish("err")
          /\ UNCHANGED <<state, mstate, monitors, pingers>>
  /\ UNCHANGED <<p, targets, used, edit, finished, snap>>

\* What terminate does to the targets once nothing measures.
TerminatedStates ==
  [t \in Targets |-> IF t \in targets /\ mstate[t] # "finished"
                     THEN "stopped" ELSE mstate[t]]

HandleTerminate ==
  /\ Received("terminate")
  /\ Take
  /\ IF state = "running"
     THEN TearDown
     ELSE /\ Finish("ok")
          /\ state' = "terminated"
          /\ mstate' = IF state = "stopped" THEN TerminatedStates ELSE mstate
          /\ UNCHANGED <<monitors, pingers>>
  /\ UNCHANGED <<p, targets, used, edit, finished, snap>>

\* The pinger's Wait and Close, then the port and HTTP checkers, then what
\* the interrupted handler does with a joined measurement.
TornDown ==
  /\ loop = "teardown"
  /\ Joined(p)
  /\ phase' = [phase EXCEPT ![p] = "closed"]
  /\ portTargets' = {}
  /\ httpRunning' = FALSE
  /\ CASE current.kind = "stop" ->
            /\ state' = "stopped"
            /\ mstate' = [t \in Targets |->
                            IF t \in targets THEN "stopped" ELSE mstate[t]]
            /\ loop' = "publish"
       [] current.kind = "restart" ->
            /\ state' = "stopped"
            /\ loop' = "start"
            /\ UNCHANGED mstate
       [] OTHER ->
            /\ state' = "terminated"
            /\ mstate' = TerminatedStates
            /\ loop' = "publish"
  /\ UNCHANGED <<plumbing, current, outcome, p, targets, used, routeEngine,
                 routeTargets, edit, finished, snap, worker, events, observer,
                 echo>>

\* startAll with a working socket and enough echo IDs for every target.
StartSucceeds ==
  /\ loop = "start"
  /\ EnoughIDs(Cardinality(targets))
  /\ echo' = echo + Cardinality(targets)
  /\ p' = p + 1
  /\ phase' = [phase EXCEPT ![p + 1] = "live"]
  /\ worker' = [worker EXCEPT ![p + 1] =
                  [t \in Targets |-> IF t \in targets THEN "active" ELSE "none"]]
  /\ observer' = [observer EXCEPT ![p + 1] =
                    IF CountLimited THEN "waiting" ELSE "none"]
  /\ routeEngine' = IF RouteEnabled THEN p + 1 ELSE 0
  /\ routeTargets' = IF RouteEnabled THEN targets ELSE {}
  /\ portTargets' = IF PortEnabled THEN targets ELSE {}
  /\ httpRunning' = HTTPEnabled
  /\ state' = "running"
  /\ mstate' = [t \in Targets |->
                  IF t \in targets THEN "running" ELSE mstate[t]]
  /\ finished' = FALSE
  /\ Finish("ok")
  /\ UNCHANGED <<plumbing, current, targets, used, edit, snap, events>>

\* Start fails before any worker runs: no socket opens, or the session has
\* too few echo IDs left, which uses up the ones there are.
StartFails ==
  /\ loop = "start"
  /\ \/ echo' = echo
     \/ ~EnoughIDs(Cardinality(targets)) /\ echo' = IDLimit
  /\ finished' = FALSE
  /\ Finish("err")
  /\ UNCHANGED <<plumbing, current, state, p, targets, used, mstate, monitors,
                 edit, snap, phase, worker, events, observer>>

-----------------------------------------------------------------------------
(* Resets. Statistics themselves are not part of this module; the monitors *)
(* a reset recreates are.                                                  *)

RestartRoute == routeEngine' = p /\ routeTargets' = targets
RestartPort == portTargets' = IF PortEnabled THEN targets ELSE {}
RestartHTTP == httpRunning' = HTTPEnabled

ResetDone ==
  /\ Take
  /\ Finish("ok")
  /\ UNCHANGED <<state, p, targets, used, mstate, edit, finished, snap, pingers>>

HandleResetStats ==
  /\ Received("resetStats")
  /\ IF state = "running"
     THEN /\ IF RouteEnabled
             THEN RestartRoute
             ELSE routeEngine' = 0 /\ routeTargets' = {}
          /\ RestartPort
          /\ RestartHTTP
     ELSE UNCHANGED monitors
  /\ ResetDone

HandleResetRoute ==
  /\ Received("resetRoute")
  /\ IF state = "running"
     THEN RestartRoute
     ELSE UNCHANGED <<routeEngine, routeTargets>>
  /\ UNCHANGED <<portTargets, httpRunning>>
  /\ ResetDone

HandleResetPort ==
  /\ Received("resetPort")
  /\ IF state = "running" THEN RestartPort ELSE UNCHANGED portTargets
  /\ UNCHANGED <<routeEngine, routeTargets, httpRunning>>
  /\ ResetDone

RevivesHTTP ==
  /\ Received("resetHTTP")
  /\ RestartHTTP
  /\ UNCHANGED <<routeEngine, routeTargets, portTargets>>
  /\ ResetDone
HandleResetHTTP ==
  /\ Received("resetHTTP")
  /\ IF state = "running" THEN RestartHTTP ELSE UNCHANGED httpRunning
  /\ UNCHANGED <<routeEngine, routeTargets, portTargets>>
  /\ ResetDone

-----------------------------------------------------------------------------
(* Live edits. An edit closure replaces the target list by "next"; which   *)
(* targets join and leave is chosen here the way the closure can decide.   *)

\* What the edit removes from the pinger: the targets that leave, or, after a
\* registration that failed halfway, the ones registered before the failure.
ForgetsRollback(added, launched, list) ==
  IF launched = added THEN targets \ list ELSE {}
ToDetach(added, launched, list) ==
  IF launched = added THEN targets \ list ELSE launched

\* registerTargets: targets join the pinger one by one until the IDs run out.
Register(added) ==
  \E launched \in SUBSET added :
    /\ \/ launched = added /\ EnoughIDs(Cardinality(added))
       \/ launched # added /\ echo + Cardinality(launched) = IDLimit
    /\ echo' = echo + Cardinality(launched)
    /\ worker' = [worker EXCEPT ![p] =
                    [t \in Targets |-> IF t \in launched THEN "active" ELSE @[t]]]
    /\ drop' = ToDetach(added, launched, next')
    /\ outcome' = IF launched = added THEN "ok" ELSE "err"
    /\ UNCHANGED <<phase, events, observer>>

\* An edit that makes the target list "list".
EditTo(list) ==
  /\ used' = used \union list
  /\ loop' = "edit"
  /\ next' = list
  /\ IF state = "running"
     THEN Register(list \ targets)
     ELSE drop' = {} /\ outcome' = "ok" /\ UNCHANGED pingers
  /\ UNCHANGED joining

\* A fresh TargetStats object for every address that joins.
Fresh(limit) == {S \in SUBSET (Targets \ used) : Cardinality(S) <= limit}

\* Terminated, duplicate or unknown host, last host, stale selection, failed
\* expansion, or a reload that must rebuild: the edit changes nothing.
EditRefused ==
  /\ Finish("err")
  /\ UNCHANGED <<used, edit, pingers>>

HandleEdit(kind, lists) ==
  /\ Received(kind)
  /\ Take
  /\ \/ EditRefused
     \/ state # "terminated" /\ \E list \in lists : EditTo(list)
  /\ UNCHANGED <<state, p, targets, mstate, monitors, finished, snap>>

HandleAddHost ==
  HandleEdit("addHost", {targets \union S : S \in Fresh(MaxExpand) \ {{}}})

HandleDeleteTarget ==
  HandleEdit("deleteTarget",
    {targets \ {t} : t \in IF Cardinality(targets) > 1 THEN targets ELSE {}})

HandleReload ==
  HandleEdit("reload",
    {kept \union S : kept \in SUBSET targets, S \in Fresh(MaxExpand)} \ {{}})

\* detachTargetMonitors: the monitors let go of the target before the pinger
\* cancels its worker. A rolled back target was never in a monitor.
DetachTarget(t) ==
  /\ loop = "edit"
  /\ t \in drop
  /\ loop' = "join"
  /\ joining' = {t}
  /\ drop' = drop \ {t}
  /\ routeTargets' = routeTargets \ {t}
  /\ portTargets' = portTargets \ {t}
  /\ UNCHANGED <<plumbing, current, outcome, state, p, targets, used, mstate,
                 routeEngine, httpRunning, next, finished, snap, pingers>>

\* RemoveTarget returns once the worker goroutine ended.
TargetRemoved(t) ==
  /\ loop = "join"
  /\ joining = {t}
  /\ worker[p][t] \in {"none", "exited"}
  /\ worker' = [worker EXCEPT ![p][t] = "none"]
  /\ loop' = "edit"
  /\ joining' = {}
  /\ UNCHANGED <<plumbing, current, outcome, state, p, targets, used, mstate,
                 monitors, drop, next, finished, snap, phase, events, observer,
                 echo>>

\* The list is replaced and the targets that joined are attached to the
\* monitors. A route mode switch rebuilds the engine for the same targets.
EditCommits ==
  LET list == IF outcome = "ok" THEN next ELSE targets
      added == list \ targets
  IN
  /\ loop = "edit"
  /\ drop = {}
  /\ loop' = "publish"
  /\ targets' = list
  /\ next' = {}
  /\ finished' = (finished /\ added = {})
  /\ IF state = "running"
     THEN /\ routeTargets' = IF routeEngine # 0
                             THEN routeTargets \union added ELSE routeTargets
          /\ portTargets' = IF PortEnabled
                            THEN portTargets \union added ELSE portTargets
          /\ UNCHANGED mstate
     ELSE /\ mstate' = [t \in Targets |->
                          IF t \in added THEN "stopped" ELSE mstate[t]]
          /\ UNCHANGED <<routeTargets, portTargets>>
  /\ UNCHANGED <<plumbing, current, outcome, state, p, used, routeEngine,
                 httpRunning, drop, joining, snap, pingers>>

-----------------------------------------------------------------------------
(* publish, and the reply to the caller.                                   *)

NoCommand == [kind |-> "start", from |-> Main, pinger |-> 0]

\* currentMeasurementState
Measurement ==
  IF state # "running" THEN "stopped"
  ELSE IF \A t \in targets : mstate[t] = "finished" THEN "finished"
  ELSE "running"

Publish ==
  /\ loop = "publish"
  /\ loop' = "select"
  /\ snap' = [targets |-> targets, measurement |-> Measurement]
  /\ reply' = IF current.kind = "probesFinished" THEN reply
              ELSE [reply EXCEPT ![current.from] = outcome]
  /\ current' = NoCommand
  /\ outcome' = "ok"
  /\ UNCHANGED <<cmds, done, call, issued, stage, state, p, targets, used, mstate, monitors, edit, finished,
                 pingers>>

-----------------------------------------------------------------------------

\* newSupervisor and Start, with main about to send cmdStart.
Init ==
  /\ cmds = <<>>
  /\ done = FALSE
  /\ call = [c \in Callers |-> IF c = Main THEN "start" ELSE "idle"]
  /\ reply = [c \in Callers |-> "none"]
  /\ issued = 0
  /\ stage = "starting"
  /\ loop = "select"
  /\ current = NoCommand
  /\ outcome = "ok"
  /\ state = "stopped"
  /\ p = 0
  /\ targets = InitialTargets
  /\ used = InitialTargets
  /\ mstate = [t \in Targets |-> "running"]
  /\ routeEngine = 0
  /\ routeTargets = {}
  /\ portTargets = {}
  /\ httpRunning = FALSE
  /\ drop = {}
  /\ joining = {}
  /\ next = {}
  /\ finished = FALSE
  /\ snap = [targets |-> {}, measurement |-> "stopped"]
  /\ phase = [q \in Pingers |-> "none"]
  /\ worker = [q \in Pingers |-> [t \in Targets |-> "none"]]
  /\ events = [q \in Pingers |-> FALSE]
  /\ observer = [q \in Pingers |-> "none"]
  /\ echo = 0

LoopStep ==
  \/ HandleProbesFinished \/ HandleStart \/ HandleStop \/ HandleRestart
  \/ HandleTerminate \/ TornDown \/ StartSucceeds \/ StartFails
  \/ HandleResetStats \/ HandleResetRoute \/ HandleResetPort \/ HandleResetHTTP
  \/ HandleAddHost \/ HandleDeleteTarget \/ HandleReload
  \/ \E t \in Targets : DetachTarget(t) \/ TargetRemoved(t)
  \/ EditCommits \/ Publish

\* The TUI and the web API offer a reset only for a monitor that exists.
Offered ==
  ClientKinds \ ((IF RouteEnabled THEN {} ELSE {"resetRoute"})
         \union (IF PortEnabled THEN {} ELSE {"resetPort"})
         \union (IF HTTPEnabled THEN {} ELSE {"resetHTTP"}))

CallerStep(c) ==
  \/ \E k \in Offered : Issue(c, k)
  \/ Send(c) \/ Refused(c) \/ Return(c)

PingerStep(q) ==
  \/ \E t \in Targets : WorkerFinishes(q, t) \/ WorkerCancelled(q, t)
                        \/ WorkerSignals(q, t)
  \/ ObserverTakesEvent(q) \/ ObserverSends(q) \/ ObserverExits(q)

\* Nothing is left to run once main returned.
Terminated ==
  /\ stage = "done"
  /\ \A c \in Clients : call[c] \in {"idle", "refused"}
  /\ UNCHANGED vars

Next ==
  \/ LoopStep \/ LoopExits
  \/ \E c \in Callers : CallerStep(c)
  \/ \E q \in Pingers : PingerStep(q)
  \/ NotificationTaken
  \/ MainStep
  \/ Terminated

\* Goroutines run when they can. A sender blocked on a full channel is served
\* in arrival order, and a select with several ready cases picks each of them
\* sooner or later: both need strong fairness. Nothing makes a worker finish
\* its count (its host may never resolve), a client call or the UI return.
Fairness ==
  /\ WF_vars(LoopStep)
  /\ SF_vars(LoopExits)
  /\ \A c \in Callers : SF_vars(Send(c)) /\ WF_vars(Refused(c) \/ Return(c))
  /\ \A q \in Pingers :
       /\ \A t \in Targets : WF_vars(WorkerCancelled(q, t))
                             /\ WF_vars(WorkerSignals(q, t))
       /\ WF_vars(ObserverTakesEvent(q))
       /\ SF_vars(ObserverSends(q))
       /\ WF_vars(ObserverExits(q))
  /\ WF_vars(MainStarted \/ MainStartFailed \/ MainShutsDown
             \/ MainClosesDone \/ MainJoins)

Spec == Init /\ [][Next]_vars
FairSpec == Spec /\ Fairness

-----------------------------------------------------------------------------
(* Properties.                                                             *)

PhaseNames == {"none", "live", "stopping", "closed"}
WorkerStates == {"none", "active", "signalling", "exited"}

\* Plumbing, the fields of supervisor, and the pinger instances.
PlumbingOK ==
  /\ cmds \in Seq(Commands)
  /\ done \in BOOLEAN
  /\ call \in [Callers -> {"idle", "refused"} \union Pending]
  /\ reply \in [Callers -> {"none", "ok", "err"}]
  /\ issued \in 0..MaxCommands
  /\ stage \in {"starting", "ui", "finish", "shutdown", "joining", "done"}

LoopOK ==
  /\ loop \in {"select", "start", "teardown", "edit", "join", "publish", "exited"}
  /\ current \in Commands
  /\ outcome \in {"ok", "err"}
  /\ state \in SupervisorStates
  /\ p \in 0..IDLimit
  /\ targets \in SUBSET Targets /\ used \in SUBSET Targets
  /\ routeTargets \in SUBSET Targets /\ portTargets \in SUBSET Targets
  /\ drop \in SUBSET Targets /\ joining \in SUBSET Targets
  /\ next \in SUBSET Targets
  /\ mstate \in [Targets -> MeasurementStates]
  /\ routeEngine \in 0..IDLimit
  /\ httpRunning \in BOOLEAN
  /\ finished \in BOOLEAN
  /\ snap \in [targets : SUBSET Targets, measurement : MeasurementStates]

PingersOK ==
  /\ phase \in [Pingers -> PhaseNames]
  /\ worker \in [Pingers -> [Targets -> WorkerStates]]
  /\ events \in [Pingers -> BOOLEAN]
  /\ observer \in [Pingers -> {"none", "waiting", "notifying", "exited"}]
  /\ echo \in 0..IDLimit

\* The values every variable of supervisor, sendCmd and Pinger takes.
TypeOK == PlumbingOK /\ LoopOK /\ PingersOK

\* No handler is halfway through the supervisor's fields.
Settled == loop \in {"select", "publish", "exited"}

\* While measuring, the pinger's workers, the route engine and the port
\* checker all probe exactly the listed targets, whatever edits, failed edits
\* with their rollback, resets and restarts came before.
MonitorsFollowTargets ==
  Settled /\ state = "running" =>
    /\ Registered(p) = targets
    /\ RouteEnabled => routeEngine = p /\ routeTargets = targets
    /\ PortEnabled => portTargets = targets
    /\ httpRunning = HTTPEnabled

\* Once stopped or terminated nothing measures: no pinger keeps a socket and no
\* monitor runs, and neither a reset nor a late restart revives one.
QuietUnlessRunning ==
  Settled /\ state # "running" =>
    /\ \A q \in Pingers : phase[q] \in {"none", "closed"}
    /\ routeEngine = 0 /\ routeTargets = {} /\ portTargets = {} /\ ~httpRunning

\* The sockets of a pinger are closed only after every worker goroutine ended,
\* and the route engine never probes through a pinger that was told to stop.
SocketsOutliveUsers ==
  /\ \A q \in Pingers : phase[q] = "closed" =>
       \A t \in Targets : worker[q][t] \in {"none", "exited"}
  /\ routeEngine # 0 => phase[routeEngine] = "live"

\* While measuring, a target marked finished has no worker left, and a pending
\* finished notification means that no worker at all is left: a completion
\* reported before a restart, an added target or a reload is not mistaken for
\* the end of the work that followed.
FinishedIsTruthful ==
  Settled /\ state = "running" =>
    /\ \A t \in targets : mstate[t] = "finished" => t \notin Active(p)
    /\ finished => Active(p) = {}
    /\ Measurement = "finished" => Active(p) = {}

\* Whoever gets a reply already sees what its command did: the snapshot shows
\* the present targets and session state whenever the loop is idle.
SnapshotIsFresh ==
  loop \in {"select", "exited"} /\ p # 0 =>
    snap = [targets |-> targets, measurement |-> Measurement]

\* Each natural count completion is noticed: when the last worker of the current
\* pinger finished, the targets are marked finished, unless the user stops,
\* restarts or changes the membership first. Events that coalesce in workerEvents
\* and reports rejected by the handler do not lose it.
CompletionIsNoticed ==
  \A q \in Pingers :
    (state = "running" /\ p = q /\ Active(q) = {})
      ~> \/ \A t \in targets : mstate[t] = "finished"
         \/ ~(state = "running" /\ p = q /\ Active(q) = {})

\* sendCmd returns to every caller, also to one whose command was accepted just
\* before Shutdown and to one blocked on a full command channel.
CallersReturn ==
  \A c \in Clients :
    call[c] \in Pending ~> call[c] \in {"idle", "refused"}

\* Shutdown returns, with the loop gone, the observers joined and no pinger
\* left measuring.
ShutdownCompletes ==
  stage = "finish" ~>
    /\ stage = "done"
    /\ loop = "exited"
    /\ \A q \in Pingers : phase[q] \in {"none", "closed"} /\ observer[q] # "waiting"

\* What a session promises to the rest of the program.
Abstract == INSTANCE Lifecycle WITH
  mode <- state,
  measuring <- {q \in Pingers : phase[q] \in {"live", "stopping"}},
  created <- p

ImplementsLifecycle == Abstract!Spec

=============================================================================
