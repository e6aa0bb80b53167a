----------------------------- MODULE MtrEngine ------------------------------
(***************************************************************************)
(* The route engine (internal/mtr/engine.go), the hop tables it fills      *)
(* (internal/stats/mtr.go), and the supervisor's calls that start it, stop *)
(* it and edit its targets (cmd/main/supervisor.go, live_targets.go).      *)
(*                                                                         *)
(* Every target has a goroutine (runTarget) that runs rounds; a round fans *)
(* out into one goroutine per TTL, and all of them share the engine's      *)
(* probe slots. A probe is one step: ProbeHop returns with a reply of its  *)
(* own packet, with nothing, or with an error (module HopProbe).           *)
(***************************************************************************)
EXTENDS Integers, Sequences, FiniteSets

CONSTANTS
  Targets,    \* TargetStats objects
  Routers,    \* addresses that answer probes
  MaxHops, Slots, PathOnly,   \* Config; Slots is MaxConcurrentProbes
  MaxRounds   \* bound: rounds run for the targets together

ASSUME ConfigAssumption ==
  /\ {MaxHops, Slots} \subseteq Nat \ {0}
  /\ PathOnly \in BOOLEAN
  /\ MaxRounds \in Nat

TTLs == 1..MaxHops

\* HopReply: silent after a timeout, or an answer. The reply of an answering
\* router is "reached" when it came from the destination.
Silent == [ip |-> "*", reached |-> FALSE]
Replies == {Silent} \union [ip : Routers, reached : BOOLEAN]

\* HopStats without its timings. "*" is the empty address.
Addresses == Routers \union {"*"}
Hops == [ip : Addresses, routeIP : Addresses, sent : Nat, recv : Nat]
EmptyHop == [ip |-> "*", routeIP |-> "*", sent |-> 0, recv |-> 0]

VARIABLES
  \* Supervisor.
  listed,    \* supervisor.cfg.targets
  archived,  \* targets removed from the session
  control,   \* idle, running, or joining in RemoveTarget or Stop
  runs,      \* targets whose goroutine was started and not joined yet
  cancelled, \* each target's context
  \* runTarget.
  pc, probe, \* the goroutine of each target, and those of its fan-out
  results,   \* the replies of the fan-out
  hopCount, prevIPs, rounds,
  \* MTRStats.
  hops, flaps, failed,   \* failed: lastErr is set
  lastRoute  \* history variable: the route of this run's last whole round

supervision == <<listed, archived, control, runs, cancelled>>
rest == <<hopCount, prevIPs, rounds>>
table == <<hops, flaps, failed>>
vars == <<supervision, pc, probe, results, rest, table, lastRoute>>

-----------------------------------------------------------------------------
(* MTRStats.                                                               *)

Route(t) == [i \in DOMAIN hops[t] |-> hops[t][i].routeIP]

\* Probe replies move the live address, not the route.
LiveRoute(t) == [i \in DOMAIN hops[t] |-> hops[t][i].ip]
RouteSnapshot(t) == Route(t)

\* TruncateLen(n), then EnsureLen(n).
OnlyTruncates(t, n) == IF n < Len(hops[t]) THEN SubSeq(hops[t], 1, n) ELSE hops[t]
Resized(t, n) == [i \in 1..n |-> IF i <= Len(hops[t]) THEN hops[t][i] ELSE EmptyHop]

\* SetIPAnnotated with every reply that fits into the route.
Registered(t, n) ==
  [i \in DOMAIN Resized(t, n) |->
     IF results[t][i] = Silent THEN Resized(t, n)[i]
     ELSE [Resized(t, n)[i] EXCEPT !.ip = results[t][i].ip,
                                   !.routeIP = results[t][i].ip]]

\* RecordReplyAnnotated or RecordLoss.
Recorded(hop, reply) ==
  IF reply = Silent THEN [hop EXCEPT !.sent = @ + 1]
  ELSE [hop EXCEPT !.sent = @ + 1, !.recv = @ + 1, !.ip = reply.ip]

-----------------------------------------------------------------------------
(* The goroutines of a fan-out, one per TTL.                               *)

Holders == {h \in Targets \X TTLs : probe[h[1]][h[2]] \in {"probing", "recording"}}

\* acquire: the select takes a free slot or notices the cancellation.
Acquire(t, i) ==
  /\ probe[t][i] = "acquire"
  /\ \/ Cardinality(Holders) < Slots
        /\ probe' = [probe EXCEPT ![t][i] = "probing"]
     \/ cancelled[t] /\ probe' = [probe EXCEPT ![t][i] = "cancelled"]
  /\ UNCHANGED <<supervision, pc, results, rest, table, lastRoute>>

\* ProbeHop failed, also when NextTraceID found no ID, or the target stopped.
ProbeFails(t, i) ==
  /\ probe[t][i] = "probing"
  /\ \/ probe' = [probe EXCEPT ![t][i] = "failed"]
     \/ cancelled[t] /\ probe' = [probe EXCEPT ![t][i] = "cancelled"]
  /\ UNCHANGED <<supervision, pc, results, rest, table, lastRoute>>

\* ProbeHop returned and the context was not cancelled yet.
ProbeReturns(t, i, reply) ==
  /\ probe[t][i] = "probing"
  /\ ~cancelled[t]
  /\ results' = [results EXCEPT ![t][i] = reply]
  /\ probe' = [probe EXCEPT ![t][i] = "recording"]
  /\ UNCHANGED <<supervision, pc, rest, table, lastRoute>>

\* record: a discovery keeps the reply, a probe round writes it to the table.
Record(t, i) ==
  /\ probe[t][i] = "recording"
  /\ probe' = [probe EXCEPT ![t][i] = "recorded"]
  /\ hops' = IF pc[t] = "probe" /\ i \in DOMAIN hops[t]
             THEN [hops EXCEPT ![t][i] = Recorded(@, results[t][i])]
             ELSE hops
  /\ UNCHANGED <<supervision, pc, results, rest, flaps, failed, lastRoute>>

\* What a round kept is gone with it.
RoundOver(t) ==
  /\ pc' = [pc EXCEPT ![t] = "loop"]
  /\ probe' = [probe EXCEPT ![t] = [i \in TTLs |-> "none"]]
  /\ results' = [results EXCEPT ![t] = [i \in TTLs |-> Silent]]
  /\ prevIPs' = [prevIPs EXCEPT ![t] = <<>>]

\* wg.Wait of fanOut.
Waited(t) == \A i \in TTLs : probe[t][i] \in {"none", "recorded", "failed", "cancelled"}

-----------------------------------------------------------------------------
(* runTarget.                                                              *)

FanOut(t, n) ==
  /\ rounds < MaxRounds
  /\ rounds' = rounds + 1
  /\ results' = [results EXCEPT ![t] = [i \in TTLs |-> Silent]]
  /\ probe' = [probe EXCEPT ![t] =
                 [i \in TTLs |-> IF i <= n THEN "acquire" ELSE "none"]]

\* rediscover, at the start and on its ticker: the socket cannot be opened.
OpenFails(t) ==
  /\ pc[t] \in {"start", "loop"}
  /\ pc' = [pc EXCEPT ![t] = "loop"]
  /\ failed' = [failed EXCEPT ![t] = @ \/ ~cancelled[t]]
  /\ UNCHANGED <<supervision, probe, results, rest, hops, flaps, lastRoute>>

BeginDiscovery(t) ==
  /\ pc[t] \in {"start", "loop"}
  /\ prevIPs' = [prevIPs EXCEPT ![t] = RouteSnapshot(t)]
  /\ FanOut(t, MaxHops)
  /\ pc' = [pc EXCEPT ![t] = "discover"]
  /\ UNCHANGED <<supervision, hopCount, table, lastRoute>>

\* discover, after the fan-out: a cancelled round is discarded as a whole.
KeepsTornRound(t) ==
  /\ pc[t] = "discover" /\ Waited(t)
  /\ pc' = [pc EXCEPT ![t] = "register"]
  /\ UNCHANGED <<supervision, probe, results, rest, table, lastRoute>>
DiscoveryEnds(t) ==
  /\ pc[t] = "discover" /\ Waited(t)
  /\ IF cancelled[t] THEN RoundOver(t)
     ELSE /\ pc' = [pc EXCEPT ![t] = "register"]
          /\ UNCHANGED <<probe, results, prevIPs>>
  /\ UNCHANGED <<supervision, hopCount, rounds, table, lastRoute>>

\* The destination's TTL, or the last one when it was not reached.
RouteLength(replies) ==
  CHOOSE n \in TTLs :
    /\ replies[n].reached \/ n = MaxHops
    /\ \A i \in 1..(n - 1) : ~replies[i].reached

\* The updates of the table are one step: only readers come between them.
Register(t) ==
  /\ pc[t] = "register"
  /\ hops' = [hops EXCEPT ![t] = Registered(t, RouteLength(results[t]))]
  /\ pc' = [pc EXCEPT ![t] = "registered"]
  /\ UNCHANGED <<supervision, probe, results, rest, flaps, failed, lastRoute>>

\* The rest of rediscover: the first route of a run is not compared.
RoundEnds(t) ==
  /\ pc[t] = "registered"
  /\ RoundOver(t)
  /\ IF cancelled[t] THEN UNCHANGED <<hopCount, flaps, failed, lastRoute>>
     ELSE /\ failed' = [failed EXCEPT ![t] = FALSE]
          /\ hopCount' = [hopCount EXCEPT ![t] = RouteLength(results[t])]
          /\ flaps' = IF hopCount[t] # 0 /\ prevIPs[t] # Route(t)
                      THEN [flaps EXCEPT ![t] = @ + 1] ELSE flaps
          /\ lastRoute' = [lastRoute EXCEPT ![t] = Route(t)]
  /\ UNCHANGED <<supervision, rounds, hops>>

\* probeC: a round over the known hops, also those that did not answer.
BeginProbes(t) ==
  /\ pc[t] = "loop" /\ ~PathOnly /\ hopCount[t] > 0
  /\ FanOut(t, hopCount[t])
  /\ pc' = [pc EXCEPT ![t] = "probe"]
  /\ UNCHANGED <<supervision, hopCount, prevIPs, table, lastRoute>>

ProbesEnd(t) ==
  /\ pc[t] = "probe" /\ Waited(t)
  /\ RoundOver(t)
  /\ UNCHANGED <<supervision, hopCount, rounds, table, lastRoute>>

\* ctx.Done, and the deferred calls.
Exit(t) ==
  /\ pc[t] = "loop" /\ cancelled[t]
  /\ pc' = [pc EXCEPT ![t] = "exited"]
  /\ UNCHANGED <<supervision, probe, results, rest, table, lastRoute>>

-----------------------------------------------------------------------------
(* The supervisor.                                                         *)

Launch(new) ==
  /\ runs' = runs \union new
  /\ cancelled' = [t \in Targets |-> cancelled[t] /\ t \notin new]
  /\ pc' = [t \in Targets |-> IF t \in new THEN "start" ELSE pc[t]]
  /\ hopCount' = [t \in Targets |-> IF t \in new THEN 0 ELSE hopCount[t]]
  /\ lastRoute' = [t \in Targets |-> IF t \in new THEN <<>> ELSE lastRoute[t]]

\* NewEngine and Start.
Start ==
  /\ control = "idle"
  /\ control' = "running"
  /\ Launch(listed)
  /\ UNCHANGED <<listed, archived, probe, results, prevIPs, rounds, table>>

\* A new target joins a running session, or a stopped one.
AddTarget(t) ==
  /\ control \in {"idle", "running"}
  /\ t \notin listed \union archived
  /\ listed' = listed \union {t}
  /\ Launch(IF control = "running" THEN {t} ELSE {})
  /\ UNCHANGED <<archived, control, probe, results, prevIPs, rounds, table>>

\* RemoveTarget cancels one target and joins it; the session keeps its table.
RemoveTarget(t) ==
  /\ control \in {"idle", "running"}
  /\ t \in listed /\ listed # {t}
  /\ listed' = listed \ {t}
  /\ archived' = archived \union {t}
  /\ cancelled' = [cancelled EXCEPT ![t] = TRUE]
  /\ control' = IF control = "running" THEN "removing" ELSE "idle"
  /\ UNCHANGED <<runs, pc, probe, results, rest, table, lastRoute>>

DoesNotJoin ==
  /\ control = "removing"
  /\ control' = "running"
  /\ runs' = runs \intersect listed
  /\ UNCHANGED <<listed, archived, cancelled, pc, probe, results, rest, table, lastRoute>>
RemoveReturns ==
  /\ control = "removing"
  /\ \A t \in runs \ listed : pc[t] = "exited"
  /\ control' = "running"
  /\ runs' = runs \intersect listed
  /\ UNCHANGED <<listed, archived, cancelled, pc, probe, results, rest, table, lastRoute>>

MissesBusyTargets ==
  /\ control = "running"
  /\ control' = "stopping"
  /\ cancelled' = [t \in Targets |-> cancelled[t] \/ (t \in runs /\ pc[t] # "discover")]
  /\ UNCHANGED <<listed, archived, runs, pc, probe, results, rest, table, lastRoute>>
Stop ==
  /\ control = "running"
  /\ control' = "stopping"
  /\ cancelled' = [t \in Targets |-> cancelled[t] \/ t \in runs]
  /\ UNCHANGED <<listed, archived, runs, pc, probe, results, rest, table, lastRoute>>

StopReturns ==
  /\ control = "stopping"
  /\ \A t \in runs : pc[t] = "exited"
  /\ control' = "idle"
  /\ runs' = {}
  /\ UNCHANGED <<listed, archived, cancelled, pc, probe, results, rest, table, lastRoute>>

\* MTRStats.Reset for every listed target, between Stop and Start.
Reset ==
  /\ control = "idle"
  /\ hops' = [t \in Targets |-> IF t \in listed THEN <<>> ELSE hops[t]]
  /\ flaps' = [t \in Targets |-> IF t \in listed THEN 0 ELSE flaps[t]]
  /\ failed' = [t \in Targets |-> failed[t] /\ t \notin listed]
  /\ UNCHANGED <<supervision, pc, probe, results, rest, lastRoute>>

-----------------------------------------------------------------------------

Init ==
  /\ listed \in (SUBSET Targets) \ {{}}
  /\ archived = {}
  /\ control = "idle"
  /\ runs = {}
  /\ cancelled = [t \in Targets |-> FALSE]
  /\ pc = [t \in Targets |-> "exited"]
  /\ probe = [t \in Targets |-> [i \in TTLs |-> "none"]]
  /\ results = [t \in Targets |-> [i \in TTLs |-> Silent]]
  /\ hopCount = [t \in Targets |-> 0]
  /\ prevIPs = [t \in Targets |-> <<>>]
  /\ rounds = 0
  /\ hops = [t \in Targets |-> <<>>]
  /\ flaps = [t \in Targets |-> 0]
  /\ failed = [t \in Targets |-> FALSE]
  /\ lastRoute = [t \in Targets |-> <<>>]

HopStep(t, i) ==
  \/ Acquire(t, i) \/ ProbeFails(t, i) \/ Record(t, i)
  \/ \E reply \in Replies : ProbeReturns(t, i, reply)

TargetStep(t) ==
  \/ OpenFails(t) \/ BeginDiscovery(t) \/ DiscoveryEnds(t) \/ Register(t)
  \/ RoundEnds(t) \/ BeginProbes(t) \/ ProbesEnd(t) \/ Exit(t)

SupervisorStep ==
  \/ Start \/ RemoveReturns \/ Stop \/ StopReturns \/ Reset
  \/ \E t \in Targets : AddTarget(t) \/ RemoveTarget(t)

Next ==
  \/ \E t \in Targets : TargetStep(t) \/ \E i \in TTLs : HopStep(t, i)
  \/ SupervisorStep

\* Goroutines run; ProbeHop returns, because its timeout, the context and the
\* socket's deadline all end it; blocked senders on the slot channel are served
\* in order; and a cancelled loop does not always pick its tickers.
Fairness ==
  /\ \A t \in Targets :
       /\ \A i \in TTLs :
            /\ SF_vars(Acquire(t, i))
            /\ WF_vars(ProbeFails(t, i) \/ (\E reply \in Replies : ProbeReturns(t, i, reply))
                       \/ Record(t, i))
       /\ WF_vars(DiscoveryEnds(t) \/ Register(t) \/ RoundEnds(t) \/ ProbesEnd(t))
       /\ WF_vars(pc[t] = "start" /\ (OpenFails(t) \/ BeginDiscovery(t)))
       /\ SF_vars(Exit(t))
  /\ WF_vars(RemoveReturns \/ StopReturns)

Spec == Init /\ [][Next]_vars
FairSpec == Spec /\ Fairness

-----------------------------------------------------------------------------
(* Properties.                                                             *)

SupervisionOK ==
  /\ listed \subseteq Targets /\ archived \subseteq Targets
  /\ control \in {"idle", "running", "removing", "stopping"}
  /\ runs \subseteq Targets
  /\ cancelled \in [Targets -> BOOLEAN]
  /\ pc \in [Targets -> {"start", "loop", "discover", "register", "registered",
                        "probe", "exited"}]

FanOutsOK ==
  /\ probe \in [Targets -> [TTLs -> {"none", "acquire", "probing", "recording",
                                    "recorded", "failed", "cancelled"}]]
  /\ results \in [Targets -> [TTLs -> Replies]]

TablesOK ==
  /\ hopCount \in [Targets -> 0..MaxHops]
  /\ prevIPs \in [Targets -> Seq(Addresses)]
  /\ rounds \in 0..MaxRounds
  /\ hops \in [Targets -> Seq(Hops)]
  /\ flaps \in [Targets -> Nat]
  /\ failed \in [Targets -> BOOLEAN]
  /\ lastRoute \in [Targets -> Seq(Addresses)]

\* The values of the engine's variables; the slots bound the probes of all
\* targets together.
TypeOK ==
  /\ SupervisionOK /\ FanOutsOK /\ TablesOK
  /\ Cardinality(Holders) <= Slots

\* A route is registered only from a round in which every TTL had its chance:
\* a cancellation never leaves a route that misses the hops probed after it.
RoutesAreWhole ==
  \A t \in Targets : pc[t] \in {"register", "registered"} =>
    \A i \in TTLs : probe[t][i] \in {"recorded", "failed"}

\* While a target is monitored, every hop up to its destination has a slot in
\* the table and none beyond it, so each probe of a round is counted; the probes
\* of all targets keep to their slots (TypeOK).
TableFitsRoute ==
  /\ TypeOK
  /\ \A t \in runs : pc[t] \in {"loop", "probe"} /\ hopCount[t] > 0 /\ ~cancelled[t] =>
       Len(hops[t]) = hopCount[t]

\* A flap is reported exactly when two consecutive whole rounds of a run found
\* different routes: address changes seen by probe rounds, cancelled rounds and
\* the first round after a restart do not count.
FlapsAreRouteChanges ==
  [][\A t \in Targets :
       lastRoute'[t] # lastRoute[t] /\ lastRoute[t] # <<>> /\ lastRoute'[t] # <<>>
         <=> flaps'[t] = flaps[t] + 1]_vars

Table(t) == <<hops[t], flaps[t], failed[t]>>

\* Once RemoveTarget or Stop returned, nothing writes into a target's table but a
\* reset: a reset never mixes with late replies, and an archived target is final.
JoinedTablesRest ==
  [][\A t \in Targets \ runs :
       Table(t)' = Table(t) \/ (control = "idle" /\ t \in listed /\ hops'[t] = <<>>)]_vars

\* Every round ends although all targets share the slots, also when some probes
\* fail, so no target starves.
RoundsEnd ==
  \A t \in Targets : pc[t] \in {"discover", "probe"} ~> pc[t] \notin {"discover", "probe"}

\* Stop and RemoveTarget return, whatever the goroutines wait for.
JoinsReturn == control \in {"removing", "stopping"} ~> control \in {"idle", "running"}

\* Nobody waits for ever: neither a round for a slot that another target's probe
\* kept, nor the supervisor for a goroutine (fanOut, RemoveTarget, Stop).
EverythingEnds == RoundsEnd /\ JoinsReturn
=============================================================================
