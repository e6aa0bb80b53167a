--------------------------- MODULE MeasuresProofs ---------------------------
(***************************************************************************)
(* Theorems of the three derivations a session keeps of its answers: the   *)
(* routes (MtrEngine), the path MTU (PathMTU) and the health (Health), for *)
(* every value of their constants; and of Measures, which runs them.       *)
(***************************************************************************)
EXTENDS Measures, FiniteSetTheorems, SequenceTheorems, TLAPS

-----------------------------------------------------------------------------
(* Lemmas about the operators.                                             *)

\* A fan-out has a TTL that ends the route: the first at which the destination
\* answered, or the last one.
LEMMA RouteHasLength ==
  ASSUME NEW replies
  PROVE  RouteLength(replies) \in TTLs
<1> DEFINE Ends == {n \in TTLs : replies[n].reached \/ n = MaxHops}
<1>1. Ends \subseteq Nat /\ Ends # {}
  BY ConfigAssumption DEF TTLs
<1>2. PICK n \in Ends : \A m \in Ends : ~(<<m, n>> \in OpToRel(<, Nat))
  BY <1>1, WFMin, NatLessThanWellFounded
<1>3. \A m \in Ends : ~(m < n)
  BY <1>1, <1>2 DEF OpToRel
<1> QED
  BY <1>3, ConfigAssumption DEF RouteLength, TTLs

\* The number of hops is a positive number within the configured maximum.
LEMMA TTLsArePositive ==
  /\ TTLs \subseteq Nat \ {0} /\ TTLs \subseteq 0..MaxHops
  /\ MaxHops \in TTLs
BY ConfigAssumption DEF TTLs

\* Hops of a table, new or registered, are hops; registering fills the table to
\* the length of the route.
LEMMA RegisteredTable ==
  ASSUME NEW t \in Targets, FanOutsOK, TablesOK, NEW n \in TTLs
  PROVE  Registered(t, n) \in Seq(Hops) /\ Len(Registered(t, n)) = n
<1>1. n \in Nat /\ \A i \in 1..n : i \in TTLs
  BY ConfigAssumption DEF TTLs
<1>2. EmptyHop \in Hops
  BY DEF EmptyHop, Hops, Addresses
<1>3. hops[t] \in Seq(Hops)
  BY DEF TablesOK
<1>4. \A i \in 1..n : Resized(t, n)[i] \in Hops
  BY <1>1, <1>2, <1>3 DEF Resized
<1>5. DOMAIN Resized(t, n) = 1..n
  BY DEF Resized
<1>6. ASSUME NEW i \in 1..n
      PROVE  Registered(t, n)[i] \in Hops
  <2>1. CASE results[t][i] = Silent
    BY <2>1, <1>4, <1>5 DEF Registered
  <2>2. CASE results[t][i] # Silent
    <3>1. results[t][i] \in Replies
      BY <1>1 DEF FanOutsOK
    <3>2. results[t][i].ip \in Addresses
      BY <3>1 DEF Replies, Silent, Addresses
    <3>3. Resized(t, n)[i] \in Hops
      BY <1>4
    <3> DEFINE h == Resized(t, n)[i]
               a == results[t][i].ip
    <3>4. [h EXCEPT !.ip = a, !.routeIP = a] \in Hops
      <4> HIDE DEF h, a
      <4>1. h \in Hops /\ a \in Addresses
        BY <3>2, <3>3 DEF h, a
      <4> QED BY <4>1 DEF Hops
    <3> QED
      BY <2>2, <3>4, <1>5 DEF Registered
  <2> QED BY <2>1, <2>2
<1>7. Registered(t, n) = [i \in 1..n |-> Registered(t, n)[i]]
  BY <1>5 DEF Registered
<1> HIDE DEF Registered
<1>8. Registered(t, n) \in [1..n -> Hops]
  BY <1>6, <1>7
<1> QED
  BY <1>1, <1>8

\* A reply moves the live address of its hop and counts, and leaves the route.
LEMMA RecordedHop ==
  ASSUME NEW h \in Hops, NEW reply \in Replies
  PROVE  Recorded(h, reply) \in Hops /\ Recorded(h, reply).routeIP = h.routeIP
<1>1. h.sent + 1 \in Nat /\ h.recv + 1 \in Nat
  BY DEF Hops
<1>2. reply.ip \in Addresses
  BY DEF Replies, Silent, Addresses
<1>3. CASE reply = Silent
  <2>1. Recorded(h, reply) = [h EXCEPT !.sent = h.sent + 1]
    BY <1>3 DEF Recorded
  <2> QED BY <2>1, <1>1 DEF Hops
<1>4. CASE reply # Silent
  <2>1. Recorded(h, reply) =
          [h EXCEPT !.sent = h.sent + 1, !.recv = h.recv + 1, !.ip = reply.ip]
    BY <1>4 DEF Recorded
  <2> QED BY <2>1, <1>1, <1>2 DEF Hops
<1> QED BY <1>3, <1>4

\* The route of a table is a sequence of addresses, one for every hop.
LEMMA RouteOfTable ==
  ASSUME TablesOK, NEW t \in Targets
  PROVE  /\ Route(t) \in Seq(Addresses)
         /\ DOMAIN Route(t) = 1..Len(hops[t])
<1>1. hops[t] \in Seq(Hops)
  BY DEF TablesOK
<1>2. \A i \in 1..Len(hops[t]) : hops[t][i] \in Hops
  BY <1>1
<1>3. \A h \in Hops : h.routeIP \in Addresses
  BY DEF Hops
<1> QED
  BY <1>1, <1>2, <1>3 DEF Route

-----------------------------------------------------------------------------
(* Types.                                                                  *)

LEMMA InitTypes == Init => SupervisionOK /\ FanOutsOK /\ TablesOK
<1> SUFFICES ASSUME Init PROVE SupervisionOK /\ FanOutsOK /\ TablesOK
  OBVIOUS
<1>1. SupervisionOK
  BY DEF Init, SupervisionOK
<1>2. FanOutsOK
  BY DEF Init, FanOutsOK, Replies
<1>3. hopCount \in [Targets -> 0..MaxHops] /\ rounds \in 0..MaxRounds
  BY ConfigAssumption DEF Init
<1>4. TablesOK
  BY <1>3 DEF Init, TablesOK
<1> QED BY <1>1, <1>2, <1>4

\* Launch sets targets up for their run, whoever they are.
LEMMA LaunchTypes ==
  ASSUME SupervisionOK, TablesOK, NEW new \in SUBSET Targets, Launch(new)
  PROVE  /\ runs' \subseteq Targets
         /\ cancelled' \in [Targets -> BOOLEAN]
         /\ pc' \in [Targets -> {"start", "loop", "discover", "register", "registered",
                                "probe", "exited"}]
         /\ hopCount' \in [Targets -> 0..MaxHops]
         /\ lastRoute' \in [Targets -> Seq(Addresses)]
<1>1. runs' \subseteq Targets
  BY DEF Launch, SupervisionOK
<1>2. cancelled' \in [Targets -> BOOLEAN]
  BY DEF Launch, SupervisionOK
<1>3. pc' \in [Targets -> {"start", "loop", "discover", "register", "registered",
                          "probe", "exited"}]
  BY DEF Launch, SupervisionOK
<1>4. hopCount' \in [Targets -> 0..MaxHops]
  BY ConfigAssumption DEF Launch, TablesOK
<1>5. lastRoute' \in [Targets -> Seq(Addresses)]
  BY DEF Launch, TablesOK
<1> QED BY <1>1, <1>2, <1>3, <1>4, <1>5

LEMMA SupervisorTypes ==
  ASSUME SupervisionOK, FanOutsOK, TablesOK, SupervisorStep
  PROVE  SupervisionOK' /\ FanOutsOK' /\ TablesOK'
<1>1. FanOutsOK'
  BY DEF SupervisorStep, Start, AddTarget, RemoveTarget, RemoveReturns, Stop,
         StopReturns, Reset, FanOutsOK
<1>2. SupervisionOK' /\ TablesOK'
  <2>1. CASE Start
    <3>1. Launch(listed) /\ listed \in SUBSET Targets
      BY <2>1 DEF Start, SupervisionOK
    <3> QED
      BY <2>1, <3>1, LaunchTypes DEF Start, SupervisionOK, TablesOK, table
  <2>2. ASSUME NEW t \in Targets, AddTarget(t)
        PROVE  SupervisionOK' /\ TablesOK'
    <3>1. PICK new \in SUBSET Targets : Launch(new)
      BY <2>2 DEF AddTarget
    <3> QED
      BY <2>2, <3>1, LaunchTypes DEF AddTarget, SupervisionOK, TablesOK, table
  <2>3. ASSUME NEW t \in Targets, RemoveTarget(t)
        PROVE  SupervisionOK' /\ TablesOK'
    <3>1. SupervisionOK'
      BY <2>3 DEF RemoveTarget, SupervisionOK
    <3>2. TablesOK'
      BY <2>3 DEF RemoveTarget, TablesOK, rest, table
    <3> QED BY <3>1, <3>2
  <2>4. CASE RemoveReturns \/ StopReturns
    <3>1. SupervisionOK'
      BY <2>4 DEF RemoveReturns, StopReturns, SupervisionOK
    <3>2. TablesOK'
      BY <2>4 DEF RemoveReturns, StopReturns, TablesOK, rest, table
    <3> QED BY <3>1, <3>2
  <2>5. CASE Stop
    <3>1. SupervisionOK'
      BY <2>5 DEF Stop, SupervisionOK
    <3>2. TablesOK'
      BY <2>5 DEF Stop, TablesOK, rest, table
    <3> QED BY <3>1, <3>2
  <2>6. CASE Reset
    <3>1. SupervisionOK'
      BY <2>6 DEF Reset, SupervisionOK, supervision
    <3>2. hops' \in [Targets -> Seq(Hops)]
      BY <2>6 DEF Reset, TablesOK
    <3>3. flaps' \in [Targets -> Nat]
      BY <2>6 DEF Reset, TablesOK
    <3>4. failed' \in [Targets -> BOOLEAN]
      BY <2>6 DEF Reset, TablesOK
    <3>5. TablesOK'
      BY <2>6, <3>2, <3>3, <3>4 DEF Reset, TablesOK, rest
    <3> QED BY <3>1, <3>5
  <2> QED
    BY <2>1, <2>2, <2>3, <2>4, <2>5, <2>6 DEF SupervisorStep
<1> QED BY <1>1, <1>2

LEMMA HopTypes ==
  ASSUME SupervisionOK, FanOutsOK, TablesOK, NEW t \in Targets, NEW i \in TTLs,
         HopStep(t, i)
  PROVE  SupervisionOK' /\ FanOutsOK' /\ TablesOK'
<1>1. SupervisionOK'
  BY DEF HopStep, Acquire, ProbeFails, ProbeReturns, Record, SupervisionOK, supervision
<1>2. CASE Acquire(t, i) \/ ProbeFails(t, i)
  <2>1. FanOutsOK'
    <3>1. PICK s \in {"probing", "failed", "cancelled"} :
            probe' = [probe EXCEPT ![t][i] = s]
      BY <1>2 DEF Acquire, ProbeFails
    <3>2. results' = results
      BY <1>2 DEF Acquire, ProbeFails
    <3> QED BY <3>1, <3>2 DEF FanOutsOK
  <2>2. TablesOK'
    BY <1>2 DEF Acquire, ProbeFails, TablesOK, rest, table
  <2> QED BY <1>1, <2>1, <2>2
<1>3. ASSUME NEW reply \in Replies, ProbeReturns(t, i, reply)
      PROVE  FanOutsOK' /\ TablesOK'
  <2>1. FanOutsOK'
    BY <1>3 DEF ProbeReturns, FanOutsOK
  <2>2. TablesOK'
    BY <1>3 DEF ProbeReturns, TablesOK, rest, table
  <2> QED BY <2>1, <2>2
<1>4. CASE Record(t, i)
  <2>1. FanOutsOK'
    BY <1>4 DEF Record, FanOutsOK
  <2>2. hops' \in [Targets -> Seq(Hops)]
    <3>1. CASE hops' = hops
      BY <3>1 DEF TablesOK
    <3>2. CASE i \in DOMAIN hops[t]
               /\ hops' = [hops EXCEPT ![t][i] = Recorded(hops[t][i], results[t][i])]
      <4>1. hops[t] \in Seq(Hops) /\ results[t][i] \in Replies
        BY DEF TablesOK, FanOutsOK
      <4>2. Recorded(hops[t][i], results[t][i]) \in Hops
        BY <3>2, <4>1, RecordedHop
      <4>3. [hops[t] EXCEPT ![i] = Recorded(hops[t][i], results[t][i])] \in Seq(Hops)
        BY <3>2, <4>1, <4>2, ExceptSeq
      <4> QED
        BY <3>2, <4>3 DEF TablesOK
    <3> QED BY <1>4, <3>1, <3>2 DEF Record
  <2>3. TablesOK'
    BY <1>4, <2>2 DEF Record, TablesOK, rest
  <2> QED BY <1>1, <2>1, <2>3
<1> QED BY <1>1, <1>2, <1>3, <1>4 DEF HopStep

LEMMA TargetTypes ==
  ASSUME SupervisionOK, FanOutsOK, TablesOK, NEW t \in Targets, TargetStep(t)
  PROVE  SupervisionOK' /\ FanOutsOK' /\ TablesOK'
<1>1. SupervisionOK'
  BY DEF TargetStep, OpenFails, BeginDiscovery, DiscoveryEnds, Register, RoundEnds,
         BeginProbes, ProbesEnd, Exit, RoundOver, SupervisionOK, supervision
<1>2. Silent \in Replies /\ <<>> \in Seq(Addresses)
  BY DEF Replies
<1>3. FanOutsOK'
  <2>1. CASE UNCHANGED <<probe, results>>
    BY <2>1 DEF FanOutsOK
  <2>2. ASSUME NEW n, FanOut(t, n)
        PROVE  FanOutsOK'
    BY <1>2, <2>2 DEF FanOut, FanOutsOK
  <2>3. CASE RoundOver(t)
    BY <1>2, <2>3 DEF RoundOver, FanOutsOK
  <2> QED
    BY <2>1, <2>2, <2>3 DEF TargetStep, OpenFails, BeginDiscovery, DiscoveryEnds,
       Register, RoundEnds, BeginProbes, ProbesEnd, Exit
<1>4. Route(t) \in Seq(Addresses)
  BY RouteOfTable
<1>5. ASSUME RoundOver(t)
      PROVE  prevIPs' \in [Targets -> Seq(Addresses)]
  BY <1>2, <1>5 DEF RoundOver, TablesOK
<1>6. ASSUME NEW n, FanOut(t, n)
      PROVE  rounds' \in 0..MaxRounds
  BY <1>6, ConfigAssumption DEF FanOut, TablesOK
<1>7. TablesOK'
  <2>1. CASE OpenFails(t) \/ Exit(t)
    BY <2>1 DEF OpenFails, Exit, TablesOK, rest, table
  <2>2. CASE BeginDiscovery(t)
    BY <2>2, <1>4, <1>6 DEF BeginDiscovery, RouteSnapshot, TablesOK, table
  <2>3. CASE BeginProbes(t)
    BY <2>3, <1>6 DEF BeginProbes, TablesOK, table
  <2>4. CASE DiscoveryEnds(t) \/ ProbesEnd(t)
    <3>1. prevIPs' \in [Targets -> Seq(Addresses)]
      BY <2>4, <1>5 DEF DiscoveryEnds, ProbesEnd, TablesOK
    <3> QED BY <2>4, <3>1 DEF DiscoveryEnds, ProbesEnd, TablesOK, table
  <2>5. CASE Register(t)
    <3>1. Registered(t, RouteLength(results[t])) \in Seq(Hops)
      BY RouteHasLength, RegisteredTable
    <3> QED BY <2>5, <3>1 DEF Register, TablesOK, rest
  <2>6. CASE RoundEnds(t)
    <3>1. prevIPs' \in [Targets -> Seq(Addresses)]
      BY <2>6, <1>5 DEF RoundEnds
    <3>2. hopCount' \in [Targets -> 0..MaxHops]
      <4>1. \/ hopCount' = hopCount
            \/ hopCount' = [hopCount EXCEPT ![t] = RouteLength(results[t])]
        BY <2>6 DEF RoundEnds
      <4>2. hopCount \in [Targets -> 0..MaxHops]
        BY DEF TablesOK
      <4>3. RouteLength(results[t]) \in 0..MaxHops
        BY RouteHasLength, TTLsArePositive
      <4> QED BY <4>1, <4>2, <4>3
    <3>3. flaps' \in [Targets -> Nat]
      <4>1. flaps' = flaps \/ flaps' = [flaps EXCEPT ![t] = flaps[t] + 1]
        BY <2>6 DEF RoundEnds
      <4>2. flaps \in [Targets -> Nat] /\ flaps[t] + 1 \in Nat
        BY DEF TablesOK
      <4> QED BY <4>1, <4>2
    <3>4. failed' \in [Targets -> BOOLEAN]
      BY <2>6 DEF RoundEnds, TablesOK
    <3>5. lastRoute' \in [Targets -> Seq(Addresses)]
      BY <2>6, <1>4 DEF RoundEnds, TablesOK
    <3> QED
      BY <2>6, <3>1, <3>2, <3>3, <3>4, <3>5 DEF RoundEnds, TablesOK
  <2> QED
    BY <2>1, <2>2, <2>3, <2>4, <2>5, <2>6 DEF TargetStep
<1> QED BY <1>1, <1>3, <1>7

-----------------------------------------------------------------------------
(* The invariants.                                                         *)

\* A target has a goroutine only between a start of the session, or of itself,
\* and the return of the call that joins it.
Joined ==
  /\ control = "idle" => runs = {}
  /\ control = "running" => runs \subseteq listed
  /\ \A t \in Targets \ runs : pc[t] = "exited"

\* The goroutines of a fan-out live within its round: every hop of a discovery
\* has one, and only a cancellation ends one of them without an outcome.
FanOutOf(t) ==
  /\ pc[t] \in {"start", "loop", "exited"} => \A i \in TTLs : probe[t][i] = "none"
  /\ pc[t] = "discover" => \A i \in TTLs : probe[t][i] # "none"
  /\ pc[t] \in {"register", "registered"} =>
       \A i \in TTLs : probe[t][i] \in {"recorded", "failed"}
  /\ \A i \in TTLs : probe[t][i] = "cancelled" => cancelled[t]

\* What a run knows of its last whole round: its table has as many hops, and is
\* compared with the route it left, which only the next registration changes.
LastRound(t) ==
  /\ pc[t] = "start" => hopCount[t] = 0
  /\ hopCount[t] = 0 <=> lastRoute[t] = <<>>
  /\ pc[t] = "registered" => Len(hops[t]) = RouteLength(results[t])
  /\ ~cancelled[t] /\ hopCount[t] > 0 =>
       /\ pc[t] \in {"loop", "probe"} => Len(hops[t]) = hopCount[t]
       /\ pc[t] \in {"loop", "probe", "discover", "register"} =>
            Route(t) = lastRoute[t]
       /\ pc[t] \in {"discover", "register", "registered"} =>
            prevIPs[t] = lastRoute[t]

RoutesTyped == SupervisionOK /\ FanOutsOK /\ TablesOK

RoutesInv ==
  /\ RoutesTyped /\ Joined
  /\ \A t \in Targets : FanOutOf(t) /\ LastRound(t)

LEMMA Initially == Init => RoutesInv
<1> SUFFICES ASSUME Init PROVE RoutesInv
  OBVIOUS
<1>1. Joined
  BY DEF Init, Joined
<1>2. ASSUME NEW t \in Targets PROVE FanOutOf(t) /\ LastRound(t)
  BY DEF Init, FanOutOf, LastRound
<1> QED BY <1>1, <1>2, InitTypes DEF RoutesInv, RoutesTyped

\* The goroutines of a target touch what is of that target only.
LEMMA OthersRest ==
  ASSUME RoutesTyped, NEW t \in Targets, NEW u \in Targets \ {t},
         TargetStep(t) \/ \E i \in TTLs : HopStep(t, i)
  PROVE  /\ pc'[u] = pc[u] /\ probe'[u] = probe[u] /\ results'[u] = results[u]
         /\ hopCount'[u] = hopCount[u] /\ prevIPs'[u] = prevIPs[u]
         /\ hops'[u] = hops[u] /\ flaps'[u] = flaps[u] /\ failed'[u] = failed[u]
         /\ lastRoute'[u] = lastRoute[u]
<1> USE DEF RoutesTyped, SupervisionOK, FanOutsOK, TablesOK, rest, table
<1>1. ASSUME NEW i \in TTLs, HopStep(t, i)
      PROVE  /\ UNCHANGED <<pc, rest, flaps, failed, lastRoute>>
             /\ probe'[u] = probe[u] /\ results'[u] = results[u] /\ hops'[u] = hops[u]
  BY <1>1 DEF HopStep, Acquire, ProbeFails, ProbeReturns, Record
<1>2. CASE OpenFails(t) \/ BeginDiscovery(t) \/ BeginProbes(t) \/ Exit(t)
  BY <1>2 DEF OpenFails, BeginDiscovery, BeginProbes, Exit, FanOut
<1>3. CASE DiscoveryEnds(t) \/ Register(t) \/ ProbesEnd(t)
  BY <1>3 DEF DiscoveryEnds, Register, ProbesEnd, RoundOver
<1>4. CASE RoundEnds(t)
  BY <1>4 DEF RoundEnds, RoundOver
<1> QED
  BY <1>1, <1>2, <1>3, <1>4 DEF TargetStep

\* The supervisor's variables are the supervisor's.
LEMMA SupervisionRests ==
  ASSUME NEW t \in Targets, TargetStep(t) \/ \E i \in TTLs : HopStep(t, i)
  PROVE  UNCHANGED supervision
BY DEF TargetStep, OpenFails, BeginDiscovery, DiscoveryEnds, Register, RoundEnds,
       BeginProbes, ProbesEnd, Exit, HopStep, Acquire, ProbeFails, ProbeReturns, Record

\* A joined target has no goroutine left that could take a step.
LEMMA OnlyRunsStep ==
  ASSUME RoutesInv, NEW t \in Targets, TargetStep(t) \/ \E i \in TTLs : HopStep(t, i)
  PROVE  t \in runs /\ pc[t] # "exited"
<1>1. pc[t] # "exited"
  <2>1. CASE TargetStep(t)
    BY <2>1 DEF TargetStep, OpenFails, BeginDiscovery, DiscoveryEnds, Register,
                RoundEnds, BeginProbes, ProbesEnd, Exit
  <2>2. ASSUME NEW i \in TTLs, HopStep(t, i)
        PROVE  pc[t] # "exited"
    <3>1. probe[t][i] # "none"
      BY <2>2 DEF HopStep, Acquire, ProbeFails, ProbeReturns, Record
    <3> QED BY <3>1 DEF RoutesInv, FanOutOf
  <2> QED BY <2>1, <2>2
<1> QED BY <1>1 DEF RoutesInv, Joined

\* The invariants of a target that a step leaves alone.
LEMMA Unmoved ==
  ASSUME NEW u \in Targets, FanOutOf(u), LastRound(u),
         pc'[u] = pc[u], probe'[u] = probe[u], results'[u] = results[u],
         hopCount'[u] = hopCount[u], prevIPs'[u] = prevIPs[u],
         hops'[u] = hops[u], lastRoute'[u] = lastRoute[u],
         cancelled[u] => cancelled'[u]
  PROVE  FanOutOf(u)' /\ LastRound(u)'
BY DEF FanOutOf, LastRound, Route

-----------------------------------------------------------------------------

LEMMA HopSteps ==
  ASSUME RoutesInv, NEW t \in Targets, NEW i \in TTLs, HopStep(t, i)
  PROVE  FanOutOf(t)' /\ LastRound(t)'
<1>1. UNCHANGED <<supervision, pc, rest, lastRoute>>
  BY DEF HopStep, Acquire, ProbeFails, ProbeReturns, Record
<1>2. /\ probe[t][i] \in {"acquire", "probing", "recording"}
      /\ \A j \in TTLs \ {i} : probe'[t][j] = probe[t][j]
      /\ probe'[t][i] \in {"probing", "recording", "recorded", "failed", "cancelled"}
      /\ probe'[t][i] = "cancelled" => cancelled[t]
  BY DEF HopStep, Acquire, ProbeFails, ProbeReturns, Record, RoutesInv, RoutesTyped, FanOutsOK
<1>3. pc[t] \in {"discover", "probe"}
  BY <1>2 DEF RoutesInv, FanOutOf, RoutesTyped, SupervisionOK
<1>4. FanOutOf(t)'
  BY <1>1, <1>2, <1>3 DEF RoutesInv, FanOutOf, supervision
<1>5. Len(hops'[t]) = Len(hops[t]) /\ Route(t)' = Route(t)
  <2>1. CASE UNCHANGED hops
    BY <2>1 DEF Route
  <2>2. CASE i \in DOMAIN hops[t]
             /\ hops' = [hops EXCEPT ![t][i] = Recorded(hops[t][i], results[t][i])]
    <3>1. hops[t] \in Seq(Hops) /\ results[t][i] \in Replies
      BY DEF RoutesInv, RoutesTyped, TablesOK, FanOutsOK
    <3>2. hops[t][i] \in Hops
      BY <2>2, <3>1
    <3> DEFINE h == Recorded(hops[t][i], results[t][i])
    <3>3. h \in Hops /\ h.routeIP = hops[t][i].routeIP
      BY <3>1, <3>2, RecordedHop
    <3> HIDE DEF h
    <3>4. hops'[t] = [hops[t] EXCEPT ![i] = h]
      BY <2>2 DEF RoutesInv, RoutesTyped, TablesOK, h
    <3>5. /\ Len(hops'[t]) = Len(hops[t]) /\ DOMAIN hops'[t] = DOMAIN hops[t]
          /\ \A j \in DOMAIN hops[t] : hops'[t][j].routeIP = hops[t][j].routeIP
      BY <2>2, <3>1, <3>3, <3>4, ExceptSeq
    <3> QED BY <3>5 DEF Route
  <2> QED
    BY <2>1, <2>2 DEF HopStep, Acquire, ProbeFails, ProbeReturns, Record, table
<1>6. LastRound(t)'
  BY <1>1, <1>3, <1>5 DEF RoutesInv, LastRound, supervision, rest
<1> QED BY <1>4, <1>6

LEMMA TargetSteps ==
  ASSUME RoutesInv, NEW t \in Targets, TargetStep(t)
  PROVE  FanOutOf(t)' /\ LastRound(t)'
<1> USE DEF RoutesTyped, SupervisionOK, FanOutsOK, TablesOK, supervision, rest, table
<1>1. FanOutOf(t) /\ LastRound(t) /\ RoutesTyped
  BY DEF RoutesInv
<1>2. CASE OpenFails(t) \/ Exit(t)
  <2>1. UNCHANGED <<cancelled, probe, results, rest, hops, lastRoute>>
    BY <1>2 DEF OpenFails, Exit
  <2>2. /\ pc[t] \in {"start", "loop"}
        /\ pc'[t] \in {"loop", "exited"}
        /\ pc[t] = "start" => pc'[t] = "loop"
    BY <1>1, <1>2 DEF OpenFails, Exit
  <2>3. FanOutOf(t)'
    BY <1>1, <2>1, <2>2 DEF FanOutOf
  <2>4. hopCount[t] \in 0..MaxHops /\ MaxHops \in Nat
    BY <1>1, ConfigAssumption
  <2>5. LastRound(t)'
    BY <1>1, <2>1, <2>2, <2>4 DEF LastRound, Route
  <2> QED BY <2>3, <2>5
<1>3. CASE BeginDiscovery(t)
  <2>1. /\ UNCHANGED <<cancelled, hopCount, hops, lastRoute>>
        /\ pc[t] \in {"start", "loop"} /\ pc'[t] = "discover"
        /\ prevIPs'[t] = Route(t)
        /\ \A i \in TTLs : probe'[t][i] = "acquire"
    BY <1>1, <1>3, ConfigAssumption DEF BeginDiscovery, FanOut, RouteSnapshot, TTLs
  <2>2. FanOutOf(t)'
    BY <2>1 DEF FanOutOf
  <2>3. hopCount[t] \in 0..MaxHops /\ MaxHops \in Nat
    BY <1>1, ConfigAssumption
  <2>4. LastRound(t)'
    BY <1>1, <2>1, <2>3 DEF LastRound, Route
  <2> QED BY <2>2, <2>4
<1>4. CASE BeginProbes(t)
  <2>1. /\ UNCHANGED <<cancelled, hopCount, hops, lastRoute, prevIPs>>
        /\ pc[t] = "loop" /\ pc'[t] = "probe"
        /\ \A i \in TTLs : probe'[t][i] \in {"acquire", "none"}
    BY <1>1, <1>4 DEF BeginProbes, FanOut
  <2>2. FanOutOf(t)'
    BY <2>1 DEF FanOutOf
  <2>3. LastRound(t)'
    BY <1>1, <2>1 DEF LastRound, Route
  <2> QED BY <2>2, <2>3
<1>5. ASSUME RoundOver(t)
      PROVE  /\ pc'[t] = "loop" /\ \A i \in TTLs : probe'[t][i] = "none"
  BY <1>1, <1>5 DEF RoundOver
<1>6. CASE ProbesEnd(t)
  <2>1. /\ UNCHANGED <<cancelled, hopCount, hops, lastRoute>> /\ pc[t] = "probe"
    BY <1>6 DEF ProbesEnd
  <2>2. RoundOver(t)
    BY <1>6 DEF ProbesEnd
  <2>3. FanOutOf(t)'
    BY <1>5, <2>2 DEF FanOutOf
  <2>4. LastRound(t)'
    BY <1>1, <1>5, <2>1, <2>2 DEF LastRound, Route
  <2> QED BY <2>3, <2>4
<1>7. CASE DiscoveryEnds(t)
  <2>1. UNCHANGED <<cancelled, hopCount, hops, lastRoute>>
    BY <1>7 DEF DiscoveryEnds
  <2>2. CASE cancelled[t] /\ RoundOver(t)
    <3>1. FanOutOf(t)'
      BY <1>5, <2>2 DEF FanOutOf
    <3>2. LastRound(t)'
      BY <1>1, <1>5, <2>1, <2>2 DEF LastRound, Route
    <3> QED BY <3>1, <3>2
  <2>3. CASE ~cancelled[t] /\ UNCHANGED <<probe, results, prevIPs>>
             /\ pc' = [pc EXCEPT ![t] = "register"]
    <3>1. pc[t] = "discover" /\ pc'[t] = "register" /\ Waited(t)
      BY <1>1, <1>7, <2>3 DEF DiscoveryEnds
    <3>2. FanOutOf(t)'
      BY <1>1, <2>1, <2>3, <3>1 DEF FanOutOf, Waited
    <3>3. LastRound(t)'
      BY <1>1, <2>1, <2>3, <3>1 DEF LastRound, Route
    <3> QED BY <3>2, <3>3
  <2> QED BY <1>7, <2>2, <2>3 DEF DiscoveryEnds
<1>8. CASE Register(t)
  <2>1. /\ UNCHANGED <<cancelled, probe, results, rest, lastRoute>>
        /\ pc[t] = "register" /\ pc'[t] = "registered"
        /\ hops'[t] = Registered(t, RouteLength(results[t]))
    BY <1>1, <1>8 DEF Register
  <2>2. FanOutOf(t)'
    BY <1>1, <2>1 DEF FanOutOf
  <2>3. Len(hops'[t]) = RouteLength(results[t])
    BY <1>1, <2>1, RouteHasLength, RegisteredTable
  <2>4. LastRound(t)'
    BY <1>1, <2>1, <2>3 DEF LastRound
  <2> QED BY <2>2, <2>4
<1>9. CASE RoundEnds(t)
  <2>1. UNCHANGED <<cancelled, hops>> /\ pc[t] = "registered" /\ RoundOver(t)
    BY <1>9 DEF RoundEnds
  <2>2. FanOutOf(t)'
    BY <1>5, <2>1 DEF FanOutOf
  <2> HIDE DEF RoutesTyped, SupervisionOK, FanOutsOK, TablesOK
  <2>5. pc'[t] = "loop"
    BY <1>5, <2>1
  <2>3. CASE cancelled[t] /\ UNCHANGED <<hopCount, lastRoute>>
    BY <1>1, <2>5, <2>1, <2>2, <2>3 DEF LastRound
  <2>4. CASE ~cancelled[t]
    <3>1. hopCount'[t] = RouteLength(results[t]) /\ lastRoute'[t] = Route(t)
      BY <1>1, <1>9, <2>4 DEF RoundEnds, RoutesTyped, TablesOK
    <3>2. hopCount'[t] = Len(hops[t]) /\ hopCount'[t] \in Nat \ {0}
      BY <1>1, <2>1, <3>1, RouteHasLength, TTLsArePositive DEF LastRound
    <3>3. Route(t) # <<>>
      BY <1>1, <3>2, RouteOfTable DEF RoutesTyped
    <3>4. LastRound(t)'
      BY <2>5, <2>1, <3>1, <3>2, <3>3 DEF LastRound, Route
    <3> QED BY <2>2, <3>4
  <2> QED BY <1>9, <2>2, <2>3, <2>4 DEF RoundEnds
<1> QED
  BY <1>2, <1>3, <1>4, <1>6, <1>7, <1>8, <1>9 DEF TargetStep

\* Launching targets that have no goroutine starts runs with nothing to compare.
LEMMA LaunchSteps ==
  ASSUME RoutesInv, NEW new \in SUBSET (Targets \ runs), Launch(new),
         UNCHANGED <<probe, results, prevIPs, table>>
  PROVE  /\ \A t \in Targets : FanOutOf(t)' /\ LastRound(t)'
         /\ \A t \in Targets \ runs' : pc'[t] = "exited"
<1> USE DEF RoutesTyped, SupervisionOK, FanOutsOK, TablesOK, table
<1>1. ASSUME NEW t \in new
      PROVE  FanOutOf(t)' /\ LastRound(t)'
  <2>1. pc'[t] = "start" /\ hopCount'[t] = 0 /\ lastRoute'[t] = <<>>
    BY <1>1 DEF Launch
  <2>2. pc[t] = "exited"
    BY <1>1 DEF RoutesInv, Joined
  <2>3. \A i \in TTLs : probe'[t][i] = "none"
    BY <1>1, <2>2 DEF RoutesInv, FanOutOf
  <2> QED BY <2>1, <2>3 DEF FanOutOf, LastRound
<1>2. ASSUME NEW t \in Targets \ new
      PROVE  FanOutOf(t)' /\ LastRound(t)'
  <2>1. pc'[t] = pc[t] /\ hopCount'[t] = hopCount[t] /\ lastRoute'[t] = lastRoute[t]
    BY <1>2 DEF Launch
  <2>2. cancelled'[t] = cancelled[t]
    BY <1>2 DEF Launch, RoutesInv
  <2> QED
    BY <1>2, <2>1, <2>2, Unmoved DEF RoutesInv
<1>3. \A t \in Targets \ runs' : pc'[t] = "exited"
  BY DEF Launch, RoutesInv, Joined
<1> QED BY <1>1, <1>2, <1>3

LEMMA SupervisorSteps ==
  ASSUME RoutesInv, SupervisorStep
  PROVE  Joined' /\ \A t \in Targets : FanOutOf(t)' /\ LastRound(t)'
<1>1. CASE Start
  <2>1. listed \in SUBSET (Targets \ runs) /\ Launch(listed) /\ runs = {}
    BY <1>1 DEF Start, RoutesInv, RoutesTyped, SupervisionOK, Joined
  <2>2. control' = "running" /\ runs' \subseteq listed'
    BY <1>1, <2>1 DEF Start, Launch
  <2> QED
    BY <1>1, <2>1, <2>2, LaunchSteps DEF Start, Joined
<1>2. ASSUME NEW t \in Targets, AddTarget(t)
      PROVE  Joined' /\ \A u \in Targets : FanOutOf(u)' /\ LastRound(u)'
  <2> DEFINE new == IF control = "running" THEN {t} ELSE {}
  <2>1. Launch(new) /\ listed' = listed \union {t} /\ UNCHANGED control
    BY <1>2 DEF AddTarget
  <2>2. /\ control \in {"idle", "running"} /\ t \notin listed
        /\ runs \subseteq listed
    BY <1>2 DEF AddTarget, RoutesInv, Joined
  <2>3. new \in SUBSET (Targets \ runs)
    BY <2>2
  <2>4. /\ control' = "idle" => runs' = {}
        /\ control' = "running" => runs' \subseteq listed'
    BY <2>1, <2>2 DEF Launch, RoutesInv, Joined
  <2> HIDE DEF new
  <2> QED
    BY <1>2, <2>1, <2>3, <2>4, LaunchSteps DEF AddTarget, Joined
<1>3. ASSUME UNCHANGED <<pc, probe, results, rest, hops, lastRoute>>,
             \A u \in Targets : cancelled[u] => cancelled'[u]
      PROVE  \A u \in Targets : FanOutOf(u)' /\ LastRound(u)'
  BY <1>3, Unmoved DEF RoutesInv, rest
<1>4. ASSUME NEW t \in Targets, RemoveTarget(t)
      PROVE  Joined' /\ \A u \in Targets : FanOutOf(u)' /\ LastRound(u)'
  <2>1. Joined'
    BY <1>4 DEF RemoveTarget, RoutesInv, Joined
  <2>2. \A u \in Targets : cancelled[u] => cancelled'[u]
    BY <1>4 DEF RemoveTarget, RoutesInv, RoutesTyped, SupervisionOK
  <2> QED
    BY <1>3, <1>4, <2>1, <2>2 DEF RemoveTarget, table
<1>5. CASE RemoveReturns \/ StopReturns
  <2>1. Joined'
    BY <1>5 DEF RemoveReturns, StopReturns, RoutesInv, Joined
  <2> QED
    BY <1>3, <1>5, <2>1 DEF RemoveReturns, StopReturns, table
<1>6. CASE Stop
  <2>1. Joined'
    BY <1>6 DEF Stop, RoutesInv, Joined
  <2>2. \A u \in Targets : cancelled[u] => cancelled'[u]
    BY <1>6 DEF Stop
  <2> QED
    BY <1>3, <1>6, <2>1, <2>2 DEF Stop, table
<1>7. CASE Reset
  <2>1. Joined'
    BY <1>7 DEF Reset, RoutesInv, Joined, supervision
  <2>2. ASSUME NEW t \in Targets
        PROVE  FanOutOf(t)' /\ LastRound(t)'
    <3>1. pc[t] = "exited"
      BY <1>7 DEF Reset, RoutesInv, Joined
    <3>2. UNCHANGED <<cancelled, pc, probe, hopCount, lastRoute>>
      BY <1>7 DEF Reset, supervision, rest
    <3>3. FanOutOf(t) /\ LastRound(t)
      BY DEF RoutesInv
    <3> QED
      BY <3>1, <3>2, <3>3 DEF FanOutOf, LastRound
  <2> QED BY <2>1, <2>2
<1> QED
  BY <1>1, <1>2, <1>4, <1>5, <1>6, <1>7 DEF SupervisorStep

LEMMA Inductive == RoutesInv /\ [Next]_vars => RoutesInv'
<1> SUFFICES ASSUME RoutesInv, [Next]_vars PROVE RoutesInv'
  OBVIOUS
<1>1. CASE UNCHANGED vars
  <2>1. RoutesTyped'
    <3>1. SupervisionOK'
      BY <1>1 DEF vars, supervision, RoutesInv, RoutesTyped, SupervisionOK
    <3>2. FanOutsOK'
      BY <1>1 DEF vars, RoutesInv, RoutesTyped, FanOutsOK
    <3>3. TablesOK'
      BY <1>1 DEF vars, rest, table, RoutesInv, RoutesTyped, TablesOK
    <3> QED BY <3>1, <3>2, <3>3 DEF RoutesTyped
  <2>2. Joined'
    BY <1>1 DEF vars, supervision, RoutesInv, Joined
  <2>3. \A u \in Targets : FanOutOf(u)' /\ LastRound(u)'
    BY <1>1, Unmoved DEF vars, supervision, rest, table, RoutesInv
  <2> QED BY <2>1, <2>2, <2>3 DEF RoutesInv
<1>2. CASE SupervisorStep
  BY <1>2, SupervisorSteps, SupervisorTypes DEF RoutesInv, RoutesTyped
<1>3. ASSUME NEW t \in Targets, TargetStep(t) \/ \E i \in TTLs : HopStep(t, i)
      PROVE  RoutesInv'
  <2>1. RoutesTyped'
    BY <1>3, HopTypes, TargetTypes DEF RoutesInv, RoutesTyped
  <2>2. UNCHANGED supervision
    BY <1>3, SupervisionRests
  <2>3. FanOutOf(t)' /\ LastRound(t)'
    BY <1>3, HopSteps, TargetSteps
  <2>4. ASSUME NEW u \in Targets \ {t}
        PROVE  pc'[u] = pc[u] /\ FanOutOf(u)' /\ LastRound(u)'
    BY <1>3, <2>2, <2>4, OthersRest, Unmoved DEF RoutesInv, supervision
  <2>5. t \in runs
    BY <1>3, OnlyRunsStep
  <2>6. Joined'
    BY <2>2, <2>4, <2>5 DEF RoutesInv, Joined, supervision
  <2> QED BY <2>1, <2>3, <2>4, <2>6 DEF RoutesInv
<1> QED
  BY <1>1, <1>2, <1>3 DEF Next

LEMMA RoutesInvariance == Spec => []RoutesInv
BY Initially, Inductive, PTL DEF Spec

-----------------------------------------------------------------------------
(* The slots.                                                              *)

SlotsOK == IsFiniteSet(Holders) /\ Cardinality(Holders) <= Slots

LEMMA InitSlots == Init => SlotsOK
<1> SUFFICES ASSUME Init PROVE SlotsOK
  OBVIOUS
<1>1. Holders = {}
  BY DEF Init, Holders
<1> QED BY <1>1, FS_EmptySet, ConfigAssumption DEF SlotsOK

\* A slot is taken only while one is free, by one goroutine; no other step makes
\* a goroutine a holder.
LEMMA SlotSteps ==
  ASSUME RoutesInv, SlotsOK, [Next]_vars
  PROVE  SlotsOK'
<1>1. ASSUME Holders' \subseteq Holders
      PROVE  SlotsOK'
  <2>1. IsFiniteSet(Holders') /\ Cardinality(Holders') <= Cardinality(Holders)
    BY <1>1, FS_Subset DEF SlotsOK
  <2>2. Cardinality(Holders') \in Nat /\ Cardinality(Holders) \in Nat /\ Slots \in Nat
    BY <2>1, FS_CardinalityType, ConfigAssumption DEF SlotsOK
  <2> QED BY <2>1, <2>2 DEF SlotsOK
<1>2. ASSUME UNCHANGED probe
      PROVE  SlotsOK'
  BY <1>1, <1>2 DEF Holders
<1>3. CASE SupervisorStep
  BY <1>2, <1>3 DEF SupervisorStep, Start, AddTarget, RemoveTarget, RemoveReturns,
     Stop, StopReturns, Reset
<1>4. ASSUME NEW t \in Targets, TargetStep(t)
      PROVE  SlotsOK'
  <2>1. CASE UNCHANGED probe
    BY <1>2, <2>1
  <2>2. CASE \A i \in TTLs : probe'[t][i] \in {"none", "acquire"}
    <3>1. \A u \in Targets \ {t} : probe'[u] = probe[u]
      BY <1>4, OthersRest DEF RoutesInv
    <3> QED BY <1>1, <2>2, <3>1 DEF Holders
  <2> QED
    BY <1>4, <2>1, <2>2 DEF TargetStep, OpenFails, BeginDiscovery, DiscoveryEnds,
       Register, RoundEnds, BeginProbes, ProbesEnd, Exit, FanOut, RoundOver,
       RoutesInv, RoutesTyped, FanOutsOK
<1>5. ASSUME NEW t \in Targets, NEW i \in TTLs, HopStep(t, i)
      PROVE  SlotsOK'
  <2>1. /\ \A u \in Targets \ {t} : probe'[u] = probe[u]
        /\ \A j \in TTLs \ {i} : probe'[t][j] = probe[t][j]
    BY <1>5 DEF HopStep, Acquire, ProbeFails, ProbeReturns, Record,
                RoutesInv, RoutesTyped, FanOutsOK
  <2>2. CASE probe[t][i] = "acquire" /\ Cardinality(Holders) < Slots
    <3>1. Holders' \subseteq Holders \union {<<t, i>>}
      BY <2>1 DEF Holders
    <3>2. /\ IsFiniteSet(Holders \union {<<t, i>>})
          /\ Cardinality(Holders \union {<<t, i>>}) <= Cardinality(Holders) + 1
          /\ Cardinality(Holders) \in Nat
      <4> DEFINE S == Holders
                 more == S \union {<<t, i>>}
      <4>1. IsFiniteSet(S) /\ Cardinality(S) \in Nat
        BY FS_CardinalityType DEF SlotsOK
      <4> HIDE DEF S
      <4>2. IsFiniteSet(more)
        BY <4>1, FS_AddElement
      <4>3. Cardinality(more) = Cardinality(S) \/ Cardinality(more) = Cardinality(S) + 1
        BY <4>1, FS_AddElement
      <4>4. Cardinality(more) <= Cardinality(S) + 1
        <5> HIDE DEF more
        <5> QED BY <4>1, <4>3
      <4> QED BY <4>1, <4>2, <4>4 DEF S
    <3>3. /\ IsFiniteSet(Holders')
          /\ Cardinality(Holders') <= Cardinality(Holders \union {<<t, i>>})
      BY <3>1, <3>2, FS_Subset
    <3>4. /\ Cardinality(Holders') \in Nat
          /\ Cardinality(Holders \union {<<t, i>>}) \in Nat /\ Slots \in Nat
      BY <3>2, <3>3, FS_CardinalityType, ConfigAssumption
    <3> QED BY <2>2, <3>2, <3>3, <3>4 DEF SlotsOK
  <2>3. CASE probe'[t][i] \in {"cancelled", "failed", "recorded"}
    BY <1>1, <2>1, <2>3 DEF Holders
  <2>4. CASE probe[t][i] = "probing" /\ probe'[t][i] = "recording"
    BY <1>1, <2>1, <2>4 DEF Holders
  <2> QED
    BY <1>5, <2>2, <2>3, <2>4 DEF HopStep, Acquire, ProbeFails, ProbeReturns, Record,
       RoutesInv, RoutesTyped, FanOutsOK
<1> QED
  BY <1>2, <1>3, <1>4, <1>5 DEF Next, vars

-----------------------------------------------------------------------------
(* The theorems.                                                           *)

\* A registered route comes from a round in which every TTL had its chance,
\* however probes, failures and a cancellation interleave (discover, fanOut).
THEOREM WholeRoutes == Spec => []RoutesAreWhole
<1>1. RoutesInv => RoutesAreWhole
  BY DEF RoutesInv, FanOutOf, RoutesAreWhole
<1> QED BY <1>1, RoutesInvariance, PTL

\* While a target is monitored its table has exactly the hops of its route, and
\* the probes of all targets together keep to the slots (TruncateLen, EnsureLen,
\* acquire).
THEOREM FittingTables == Spec => []TableFitsRoute
<1>1. RoutesInv /\ SlotsOK => TableFitsRoute
  <2> SUFFICES ASSUME RoutesInv, SlotsOK PROVE TableFitsRoute
    OBVIOUS
  <2>1. TypeOK
    BY DEF RoutesInv, RoutesTyped, SlotsOK, TypeOK
  <2>2. \A t \in runs : t \in Targets /\ LastRound(t)
    BY DEF RoutesInv, RoutesTyped, SupervisionOK
  <2> QED BY <2>1, <2>2 DEF TableFitsRoute, LastRound
<1>2. RoutesInv /\ SlotsOK /\ [Next]_vars => SlotsOK'
  BY SlotSteps
<1> QED
  BY <1>1, <1>2, InitSlots, RoutesInvariance, PTL DEF Spec

\* After RemoveTarget or Stop returned, only a reset writes into a target's table,
\* so a reset never mixes with late replies and an archived target is final.
THEOREM RestingTables == Spec => JoinedTablesRest
<1>1. ASSUME RoutesInv, [Next]_vars, NEW t \in Targets \ runs
      PROVE  Table(t)' = Table(t) \/ (control = "idle" /\ t \in listed /\ hops'[t] = <<>>)
  <2>1. CASE UNCHANGED table
    BY <2>1 DEF table, Table
  <2>2. CASE Reset
    BY <1>1, <2>2 DEF Reset, Table, RoutesInv, RoutesTyped, TablesOK
  <2>3. CASE SupervisorStep
    BY <2>1, <2>2, <2>3 DEF SupervisorStep, Start, AddTarget, RemoveTarget,
       RemoveReturns, Stop, StopReturns
  <2>4. ASSUME NEW u \in Targets, TargetStep(u) \/ \E i \in TTLs : HopStep(u, i)
        PROVE  Table(t)' = Table(t)
    <3>1. u # t
      BY <1>1, <2>4, OnlyRunsStep
    <3> QED BY <1>1, <2>4, <3>1, OthersRest DEF RoutesInv, Table
  <2> QED
    BY <1>1, <2>1, <2>3, <2>4 DEF Next, vars
<1> QED
  <2>1. RoutesInv /\ [Next]_vars => [\A t \in Targets \ runs :
          Table(t)' = Table(t) \/ (control = "idle" /\ t \in listed /\ hops'[t] = <<>>)]_vars
    BY <1>1
  <2> QED BY <2>1, RoutesInvariance, PTL DEF Spec, JoinedTablesRest

\* A flap is counted exactly when two consecutive whole rounds of a run found
\* different routes, however probe rounds, torn rounds, edits and resets come
\* between them (rediscover, RecordFlap).
THEOREM TrueFlaps == Spec => FlapsAreRouteChanges
<1> DEFINE Changed(t) ==
      lastRoute'[t] # lastRoute[t] /\ lastRoute[t] # <<>> /\ lastRoute'[t] # <<>>
<1>1. ASSUME RoutesInv, [Next]_vars, NEW t \in Targets
      PROVE  Changed(t) <=> flaps'[t] = flaps[t] + 1
  <2>1. flaps[t] \in Nat /\ LastRound(t)
    BY <1>1 DEF RoutesInv, RoutesTyped, TablesOK
  <2>2. CASE lastRoute'[t] = lastRoute[t] /\ flaps'[t] = flaps[t]
    BY <2>1, <2>2
  <2>3. ASSUME NEW new \in SUBSET Targets, Launch(new), UNCHANGED flaps
        PROVE  Changed(t) <=> flaps'[t] = flaps[t] + 1
    BY <2>1, <2>3 DEF Launch
  <2>4. CASE Reset
    <3>1. flaps'[t] \in {0, flaps[t]} /\ UNCHANGED lastRoute
      BY <2>4 DEF Reset
    <3> QED BY <2>1, <3>1
  <2>5. CASE SupervisorStep
    <3>1. CASE Start
      <4>1. Launch(listed) /\ listed \in SUBSET Targets /\ UNCHANGED flaps
        BY <1>1, <3>1 DEF Start, table, RoutesInv, RoutesTyped, SupervisionOK
      <4> QED BY <2>3, <4>1
    <3>2. ASSUME NEW u \in Targets, AddTarget(u)
          PROVE  Changed(t) <=> flaps'[t] = flaps[t] + 1
      <4>1. PICK new \in SUBSET Targets : Launch(new)
        BY <3>2 DEF AddTarget
      <4>2. UNCHANGED flaps
        BY <3>2 DEF AddTarget, table
      <4> QED BY <2>3, <4>1, <4>2
    <3> QED
      BY <2>2, <2>4, <2>5, <3>1, <3>2 DEF SupervisorStep, RemoveTarget, RemoveReturns,
         Stop, StopReturns, table
  <2>6. ASSUME NEW u \in Targets, TargetStep(u) \/ \E i \in TTLs : HopStep(u, i)
        PROVE  Changed(t) <=> flaps'[t] = flaps[t] + 1
    <3>1. CASE u # t
      BY <1>1, <2>2, <2>6, <3>1, OthersRest DEF RoutesInv
    <3>2. CASE RoundEnds(t) /\ ~cancelled[t]
      <4>1. /\ lastRoute'[t] = Route(t)
            /\ hopCount[t] # 0 /\ prevIPs[t] # Route(t) => flaps'[t] = flaps[t] + 1
            /\ hopCount[t] = 0 \/ prevIPs[t] = Route(t) => flaps'[t] = flaps[t]
            /\ pc[t] = "registered"
        BY <1>1, <3>2 DEF RoundEnds, RoutesInv, RoutesTyped, TablesOK
      <4>2. hopCount[t] # 0 => hopCount[t] > 0
        BY <1>1, ConfigAssumption DEF RoutesInv, RoutesTyped, TablesOK
      <4>3. Route(t) # <<>>
        <5>1. Len(hops[t]) \in Nat \ {0}
          BY <2>1, <4>1, RouteHasLength, TTLsArePositive DEF LastRound
        <5> QED BY <1>1, <5>1, RouteOfTable DEF RoutesInv, RoutesTyped
      <4> QED BY <2>1, <3>2, <4>1, <4>2, <4>3 DEF LastRound
    <3>3. CASE u = t /\ ~(RoundEnds(t) /\ ~cancelled[t])
      <4>1. UNCHANGED <<lastRoute, flaps>>
        BY <2>6, <3>3 DEF TargetStep, OpenFails, BeginDiscovery, DiscoveryEnds,
           Register, RoundEnds, BeginProbes, ProbesEnd, Exit, HopStep, Acquire,
           ProbeFails, ProbeReturns, Record, table
      <4> QED BY <2>2, <4>1
    <3> QED BY <3>1, <3>2, <3>3
  <2> QED
    BY <1>1, <2>2, <2>5, <2>6 DEF Next, vars, table
<1> QED
  <2>1. RoutesInv /\ [Next]_vars =>
          [\A t \in Targets : Changed(t) <=> flaps'[t] = flaps[t] + 1]_vars
    BY <1>1
  <2> QED BY <2>1, RoutesInvariance, PTL DEF Spec, FlapsAreRouteChanges

(***************************************************************************)
(* Path MTU: the inductive invariant.                                      *)
(***************************************************************************)

\* An address has its own discovery; once regular ping runs, what is not IPv6 is over.
Apart ==
  \A t \in Destinations :
    /\ kind[t] = "v4" => search[t].pc \in {"idle", "done", "failed", "first", "waitFirst",
                                           "next", "probe", "wait"}
    /\ kind[t] = "v6" => search[t].pc \in {"idle", "done", "failed", "query", "write", "await",
                                           "requery", "confirmed", "estimated"}
    /\ kind[t] = "unresolved" => search[t].pc \in {"idle", "failed"}
    /\ phase = "initial" /\ kind[t] = "v6" => search[t].pc = "idle"
    /\ phase # "initial" /\ kind[t] # "v6" => search[t].pc \in {"done", "failed"}
    /\ search[t].pc = "idle" => net[t] = {}
    /\ search[t].pc # "done" => found[t] = Nothing

\* The interval of a search: its lower end passed, and each probe halves it.
Rounds(s) == IF s.pc = "next" THEN s.probes ELSE s.probes - 1
Interval(t) ==
  LET s == search[t] IN
  s.pc \in {"next", "probe", "wait"} =>
    /\ Lowest <= s.low /\ s.low <= s.high /\ s.high <= StartSize
    /\ Fits(t, s.low)
    /\ Rounds(s) \in Nat /\ Rounds(s) + (s.high - s.low) <= StartSize - Lowest
    /\ 2^Rounds(s) * (s.high - s.low) <= StartSize - Lowest
    /\ s.pc # "next" => s.low < s.high /\ s.size = Middle(s)

Baseline(t) ==
  LET s == search[t] IN
  /\ s.pc \in {"first", "waitFirst"} =>
       /\ s.low = Lowest /\ s.size = Lowest /\ s.high = StartSize
       /\ s.hop = NoHop /\ s.probes = 0
  /\ s.pc = "first" => net[t] = {}
  /\ s.pc = "waitFirst" => net[t] \subseteq {Answer(t, 0, Lowest)} /\ Lowest <= path[t][1]

\* An echo that comes late was of a larger size: it says that every size the
\* search may still choose passes.
LateEchoes(t) ==
  LET s == search[t] IN
  /\ s.pc \in {"next", "probe"} => \A m \in net[t] : m.kind = "echo" => Fits(t, s.high)
  /\ s.pc = "wait" =>
       /\ s.size <= path[t][1]
       /\ \A m \in net[t] : m.kind = "echo" => m = Answer(t, 0, s.size) \/ Fits(t, s.high)

\* Without faults the answer is that of the probe, and the upper end was refused by
\* the hop that is remembered, or by the host.
Exact4(t) ==
  LET s == search[t] IN
  faults[t] = 0 /\ s.pc \in {"next", "probe", "wait"} =>
    /\ net[t] = IF s.pc = "wait" THEN {Answer(t, 0, s.size)} ELSE {}
    /\ s.high = StartSize \/ ~Fits(t, s.high + 1)
    /\ s.hop # NoHop => /\ s.hop \in DOMAIN path[t] \ {1}
                        /\ path[t][s.hop] <= s.high /\ s.high <= path[t][1]

Reported4(t) ==
  search[t].pc = "done" =>
    /\ found[t].status = "probed" /\ Fits(t, found[t].size)
    /\ found[t].size >= Lowest /\ found[t].size <= StartSize
    /\ faults[t] = 0 =>
         /\ found[t].size = StartSize \/ ~Fits(t, found[t].size + 1)
         /\ found[t].hop # NoHop => path[t][found[t].hop] = found[t].size

Search4(t) == Interval(t) /\ Baseline(t) /\ LateEchoes(t) /\ Exact4(t) /\ Reported4(t)

\* The answers to an attempt are told from earlier ones by its number.
Attempt(t) ==
  LET s == search[t] IN
  /\ s.probes <= MaxAttempts
  /\ estimate[t] <= path[t][1]
  /\ s.pc = "idle" => s = Idle /\ estimate[t] = path[t][1]
  /\ \A m \in net[t] : m.seq <= s.probes
  /\ s.pc = "write" => \A m \in net[t] : m.seq # s.probes
  /\ s.pc = "await" =>
       /\ Probed(s.size) <= path[t][1]
       /\ \A m \in net[t] : m.seq = s.probes => m = Answer(t, s.probes, Probed(s.size))
  /\ s.pc = "confirmed" => Fits(t, s.size)
  /\ s.pc = "done" => /\ found[t].status \in {"confirmed", "estimated"}
                      /\ found[t].status = "confirmed" => Fits(t, found[t].size)

\* Without faults each attempt that is refused moves on by at least a hop, so the
\* attempts last for the whole path.
Tried(s) == IF s.pc \in {"write", "await"} THEN s.probes - 1 ELSE s.probes
Reaches(t, i) ==
  /\ i \in DOMAIN path[t] /\ path[t][i] = estimate[t]
  /\ \A j \in 1..i : path[t][j] >= estimate[t]
  /\ Tried(search[t]) < i
Modest(t) == /\ Len(path[t]) <= MaxAttempts
             /\ \A i \in DOMAIN path[t] : path[t][i] <= MaxProbe
Exact6(t) ==
  LET s == search[t] IN
  faults[t] = 0 /\ Modest(t) =>
    /\ s.pc \in {"query", "write", "await", "requery"} =>
         /\ \E i \in DOMAIN path[t] : Reaches(t, i)
         /\ net[t] = IF s.pc = "await" THEN {Answer(t, s.probes, Probed(s.size))} ELSE {}
         /\ s.pc \in {"write", "await"} => s.size = estimate[t]
         /\ s.pc = "requery" => estimate[t] < s.size
    /\ s.pc # "estimated"
    /\ s.pc = "done" => found[t].status = "confirmed"

Chosen == /\ phase = "initial" => packetSize = 0
          /\ PacketSizeFits

PathInv ==
  /\ MTUTypeOK /\ Apart /\ Chosen
  /\ \A t \in Destinations : /\ kind[t] = "v4" => Search4(t)
                             /\ kind[t] = "v6" => Attempt(t) /\ Exact6(t)

-----------------------------------------------------------------------------
(* Lemmas about the operators.                                             *)

LEMMA LeastOf ==
  ASSUME NEW S, S \subseteq Nat, S # {}
  PROVE  Min(S) \in S /\ \A y \in S : Min(S) <= y
<1>1. PICK n \in S : \A m \in S : ~(<<m, n>> \in OpToRel(<, Nat))
  BY WFMin, NatLessThanWellFounded
<1>2. n \in Nat /\ \A m \in S : m \in Nat /\ ~(m < n)
  BY <1>1 DEF OpToRel
<1>3. \A m \in S : n <= m
  BY <1>2
<1> QED BY <1>3 DEF Min

\* A power of two counts subsets, and one more element doubles them.
LEMMA UpTo ==
  ASSUME NEW n \in Nat
  PROVE  IsFiniteSet(1..n) /\ Cardinality(1..n) = n
<1>1. 1 \in Int /\ n \in Int
  OBVIOUS
<1>2. IsFiniteSet(1..n) /\ Cardinality(1..n) = IF 1 > n THEN 0 ELSE n - 1 + 1
  BY <1>1, FS_Interval
<1> QED BY <1>2

LEMMA PowerDoubles ==
  ASSUME NEW n \in Nat
  PROVE  2^n \in Nat /\ 2^(n + 1) = 2 * 2^n
<1> DEFINE A == 1..n
           B == 1..(n + 1)
           With(X) == X \cup {n + 1}
           New == {With(X) : X \in SUBSET A}
<1>1. IsFiniteSet(A) /\ Cardinality(A) = n
  BY UpTo
<1>2. IsFiniteSet(B) /\ Cardinality(B) = n + 1
  BY UpTo, n + 1 \in Nat
<1>3. B = A \cup {n + 1} /\ n + 1 \notin A
  OBVIOUS
<1> HIDE DEF A, B
<1>4. /\ IsFiniteSet(SUBSET A) /\ Cardinality(SUBSET A) = 2^n
      /\ IsFiniteSet(SUBSET B) /\ Cardinality(SUBSET B) = 2^(n + 1)
  BY <1>1, <1>2, FS_SUBSET
<1>5. ASSUME NEW X \in SUBSET A, NEW Y \in SUBSET A, With(X) = With(Y)
      PROVE  X = Y
  BY <1>3, <1>5
<1>6. [X \in SUBSET A |-> With(X)] \in Bijection(SUBSET A, New)
  <2> DEFINE f == [X \in SUBSET A |-> With(X)]
  <2>1. f \in [SUBSET A -> New]
    OBVIOUS
  <2>2. \A X, Y \in SUBSET A : f[X] = f[Y] => X = Y
    BY <1>5
  <2>3. \A Z \in New : \E X \in SUBSET A : f[X] = Z
    OBVIOUS
  <2> QED BY <2>1, <2>2, <2>3 DEF Bijection, Injection, Surjection, IsInjective
<1>7. IsFiniteSet(New) /\ Cardinality(New) = 2^n
  BY <1>4, <1>6, FS_Bijection DEF ExistsBijection
<1>8. ASSUME NEW Z \in SUBSET B
      PROVE  Z \in SUBSET A \/ Z \in New
  <2>1. CASE n + 1 \notin Z
    BY <1>3, <2>1
  <2>2. CASE n + 1 \in Z
    <3>1. Z \ {n + 1} \in SUBSET A
      BY <1>3
    <3>2. Z = With(Z \ {n + 1})
      BY <2>2
    <3> QED BY <3>1, <3>2
  <2> QED BY <2>1, <2>2
<1>9. SUBSET A \subseteq SUBSET B
  BY <1>3
<1>10. New \subseteq SUBSET B
  <2> SUFFICES ASSUME NEW X \in SUBSET A PROVE With(X) \in SUBSET B
    OBVIOUS
  <2> QED BY <1>3
<1>11. ASSUME NEW X \in SUBSET A, X \in New PROVE FALSE
  <2>1. n + 1 \in X
    BY <1>11
  <2> QED BY <1>3, <2>1
<1> DEFINE SA == SUBSET A
           SB == SUBSET B
<1> HIDE DEF New, SA, SB
<1>12. SB = SA \cup New /\ SA \cap New = {}
  BY <1>8, <1>9, <1>10, <1>11 DEF SA, SB
<1>13. 2^n \in Nat
  BY <1>4, FS_CardinalityType
<1>14. Cardinality(SB) = 2^n + 2^n
  <2>1. IsFiniteSet(SA) /\ Cardinality(SA) = 2^n
    BY <1>4 DEF SA
  <2>2. Cardinality(SA \cup New) = Cardinality(SA) + Cardinality(New) - Cardinality(SA \cap New)
    BY <1>7, <2>1, FS_Union
  <2> QED BY <1>7, <1>12, <2>1, <2>2, FS_EmptySet
<1> QED BY <1>4, <1>13, <1>14 DEF SB

LEMMA PathTyped ==
  ASSUME MTUTypeOK, NEW t \in Destinations
  PROVE  /\ path[t] \in Seq(Nat) /\ DOMAIN path[t] = 1..Len(path[t])
         /\ Len(path[t]) \in Nat \ {0} /\ path[t][1] \in Nat
<1>1. path[t] \in Seq(Nat) /\ path[t] # <<>>
  BY PathMTUAssumption DEF MTUTypeOK
<1> QED BY <1>1

\* A size that passes stays a size that passes when it is smaller.
LEMMA SmallerFits ==
  ASSUME MTUTypeOK, NEW t \in Destinations, NEW a \in Nat, NEW b \in Nat, a <= b, Fits(t, b)
  PROVE  Fits(t, a)
<1> QED BY PathTyped DEF Fits, Refusing

\* A packet is echoed, or refused by the first hop it is too large for.
LEMMA AnswerSays ==
  ASSUME MTUTypeOK, NEW t \in Destinations, NEW n \in Nat, NEW size \in Nat,
         NEW m, m = Answer(t, n, size)
  PROVE  /\ m \in Answers
         /\ m.seq = n
         /\ m.kind = "echo" => Refusing(t, size) = {} /\ m.hop = NoHop
         /\ m.kind # "echo" => /\ m.hop \in DOMAIN path[t] \ {1}
                               /\ m.limit = path[t][m.hop] /\ m.limit < size
                               /\ \A j \in 2..(m.hop - 1) : path[t][j] >= size
                               /\ ~Fits(t, size) /\ m.hop # NoHop
<1>1. /\ path[t] \in Seq(Nat) /\ DOMAIN path[t] = 1..Len(path[t])
      /\ Len(path[t]) \in Nat
  BY PathTyped
<1>2. CASE Refusing(t, size) = {}
  BY <1>2 DEF Answer, Answers, NoHop
<1>3. CASE Refusing(t, size) # {}
  <2>1. Refusing(t, size) \subseteq Nat
    BY <1>1 DEF Refusing
  <2>2. PICK i \in Refusing(t, size) :
          /\ \A y \in Refusing(t, size) : i <= y
          /\ m = [kind |-> "tooBig", seq |-> n, hop |-> i, limit |-> path[t][i]]
    <3>1. LET i == Min(Refusing(t, size)) IN
          /\ i \in Refusing(t, size) /\ \A y \in Refusing(t, size) : i <= y
          /\ m = [kind |-> "tooBig", seq |-> n, hop |-> i, limit |-> path[t][i]]
      BY <1>3, <2>1, LeastOf DEF Answer
    <3> QED BY <3>1
  <2>3. i \in DOMAIN path[t] \ {1} /\ path[t][i] < size
    BY <2>2 DEF Refusing
  <2>5. i \in Nat /\ i # 0 /\ i \in 1..Len(path[t]) /\ path[t][i] \in Nat
    BY <1>1, <2>3
  <2>6. ASSUME NEW j \in 2..(i - 1)
        PROVE  path[t][j] >= size
    <3>1. j < i /\ j \in Nat /\ j # 1 /\ j \in 1..Len(path[t]) /\ path[t][j] \in Nat
      BY <1>1, <2>5
    <3>2. j \notin Refusing(t, size)
      BY <2>2, <2>5, <3>1
    <3>3. ~(path[t][j] < size)
      BY <1>1, <3>1, <3>2 DEF Refusing
    <3> QED BY <3>1, <3>3
  <2>7. ~Fits(t, size)
    BY <1>3 DEF Fits
  <2>8. m.kind = "tooBig" /\ m.seq = n /\ m.hop = i /\ m.limit = path[t][i]
    BY <2>2
  <2>9. m \in Answers
    BY <2>2, <2>5 DEF Answers
  <2> QED BY <2>3, <2>5, <2>6, <2>7, <2>8, <2>9 DEF NoHop
<1> QED BY <1>2, <1>3

\* A refusal names a hop of the path and the limit of it.
LEMMA RefusalSays ==
  ASSUME MTUTypeOK, NEW t \in Destinations, NEW size \in Nat,
         NEW m, m = Answer(t, 0, size), m.kind # "echo"
  PROVE  /\ m.hop \in DOMAIN path[t] \ {1} /\ m.limit = path[t][m.hop] /\ m.limit < size
         /\ ~Fits(t, size) /\ m.hop # NoHop /\ m.limit \in Nat
<1>1. 0 \in Nat
  OBVIOUS
<1>2. /\ m \in Answers
      /\ m.kind # "echo" => /\ m.hop \in DOMAIN path[t] \ {1}
                            /\ m.limit = path[t][m.hop] /\ m.limit < size
                            /\ ~Fits(t, size) /\ m.hop # NoHop
  BY <1>1, AnswerSays
<1>3. m.limit \in Nat
  BY <1>2 DEF Answers
<1> QED BY <1>2, <1>3, Zenon

LEMMA MostProbes ==
  LET m == Max({StartSize, MaxAttempts}) IN m \in Nat /\ m >= StartSize /\ m >= MaxAttempts
<1> DEFINE S == {StartSize, MaxAttempts}
           m == IF StartSize <= MaxAttempts THEN MaxAttempts ELSE StartSize
<1>1. StartSize \in Nat /\ MaxAttempts \in Nat
  BY PathMTUAssumption
<1>2. m \in S /\ \A y \in S : m >= y
  BY <1>1
<1>3. PICK x \in S : \A y \in S : x >= y
  BY <1>2
<1>4. Max(S) \in S /\ \A y \in S : Max(S) >= y
  BY <1>3 DEF Max
<1> QED BY <1>1, <1>4

\* A probe that halves the interval pays for its count.
LEMMA HalvingPays ==
  ASSUME NEW k \in Nat, NEW a \in Nat, NEW b \in Nat, 2 * b <= a, NEW w \in Nat, 2^k * a <= w
  PROVE  2^(k + 1) * b <= w
<1> DEFINE p == 2^k
<1>1. p \in Nat /\ 2^(k + 1) = 2 * p
  BY PowerDoubles
<1>2. p * a <= w
  OBVIOUS
<1> HIDE DEF p
<1>3. p * (2 * b) <= p * a
  BY <1>1
<1>4. (2 * p) * b = p * (2 * b)
  BY <1>1
<1>5. (2 * p) * b \in Nat /\ p * a \in Nat
  BY <1>1
<1> QED BY <1>1, <1>2, <1>3, <1>4, <1>5

-----------------------------------------------------------------------------
(* The steps.                                                              *)

Same(t) == /\ search'[t] = search[t] /\ net'[t] = net[t] /\ faults'[t] = faults[t]
           /\ found'[t] = found[t] /\ estimate'[t] = estimate[t]

\* A search has sizes to try, whatever the user asked for.
LEMMA LowestIs ==
  ASSUME MTUTypeOK
  PROVE  Lowest \in Nat /\ Lowest > 0 /\ Lowest <= StartSize /\ StartSize \in Nat
<1>1. asked \in Nat \ {0} /\ StartSize \in Nat \ {0}
  BY PathMTUAssumption DEF MTUTypeOK
<1> QED BY <1>1 DEF Lowest

\* A discovery is its own: it changes no other, nor the session.
LEMMA Elsewhere ==
  ASSUME MTUTypeOK, NEW t \in Destinations, TargetNext(t)
  PROVE  /\ UNCHANGED <<asked, path, kind, phase, packetSize>>
         /\ \A u \in Destinations : u # t => Same(u)
<1> USE DEF MTUTypeOK, Same, Update, Fault, Verdict
<1>1. CASE Resolves(t)
  BY <1>1 DEF Resolves
<1>2. CASE PicksSize(t)
  BY <1>2 DEF PicksSize
<1>3. CASE Found(t)
  BY <1>3 DEF Found
<1>4. CASE SendsPayload(t)
  BY <1>4 DEF SendsPayload
<1>5. CASE ReadsReply(t)
  BY <1>5 DEF ReadsReply
<1>6. CASE ReadTimesOut(t)
  BY <1>6 DEF ReadTimesOut
<1>7. CASE Expires(t)
  BY <1>7 DEF Expires
<1>8. CASE Begins(t)
  BY <1>8 DEF Begins
<1>9. CASE Queries(t)
  BY <1>9 DEF Queries
<1>10. CASE Writes(t)
  BY <1>10 DEF Writes
<1>11. CASE Arrives(t)
  BY <1>11 DEF Arrives
<1>12. CASE AwaitTimesOut(t)
  BY <1>12 DEF AwaitTimesOut
<1>13. CASE Requeries(t)
  BY <1>13 DEF Requeries
<1>14. CASE Fails6(t)
  BY <1>14 DEF Fails6
<1>15. CASE Stores(t)
  BY <1>15 DEF Stores
<1>16. CASE Loses(t)
  BY <1>16 DEF Loses
<1> QED BY <1>1, <1>2, <1>3, <1>4, <1>5, <1>6, <1>7, <1>8, <1>9, <1>10, <1>11, <1>12, <1>13, <1>14,
           <1>15, <1>16 DEF TargetNext

\* What is said of a path holds of it later.
LEMMA SamePath ==
  ASSUME asked' = asked, path' = path, NEW t
  PROVE  /\ Lowest' = Lowest
         /\ \A x : Fits(t, x)' = Fits(t, x)
         /\ \A n, x : Answer(t, n, x)' = Answer(t, n, x)
         /\ Modest(t)' = Modest(t)
BY DEF Fits, Refusing, Answer, Modest, Lowest

LEMMA Stays4 ==
  ASSUME asked' = asked, path' = path, NEW t, Search4(t), Same(t)
  PROVE  Search4(t)'
<1> USE SamePath DEF Same, Search4
<1>1. Interval(t)'
  BY DEF Interval
<1>2. Baseline(t)'
  BY DEF Baseline
<1>3. LateEchoes(t)'
  BY DEF LateEchoes
<1>4. Exact4(t)'
  BY DEF Exact4
<1>5. Reported4(t)'
  BY DEF Reported4
<1> QED BY <1>1, <1>2, <1>3, <1>4, <1>5

LEMMA Stays6 ==
  ASSUME asked' = asked, path' = path, NEW t, Attempt(t), Exact6(t), Same(t)
  PROVE  Attempt(t)' /\ Exact6(t)'
<1> USE SamePath DEF Same
<1>1. Attempt(t)'
  BY DEF Attempt
<1>2. \A i : Reaches(t, i)' = Reaches(t, i)
  BY DEF Reaches
<1>3. Exact6(t)'
  BY <1>2 DEF Exact6
<1> QED BY <1>1, <1>3

\* What the loop knows after its baseline: nothing, or the whole interval.
LEMMA BaselineIs ==
  ASSUME PathInv, NEW t \in Destinations, NEW ok \in BOOLEAN, NEW hop \in Nat, Verdict(t, ok, hop),
         kind[t] = "v4", search[t].pc \in {"first", "waitFirst"}, search[t].pc = "first" => ~ok,
         NEW s, s = search[t], NEW n, n = search'[t]
  PROVE  /\ n \in Searches /\ search' \in [Destinations -> Searches]
         /\ ~ok => n.pc = "failed"
         /\ ok => /\ n.pc = "next" /\ n.low = Lowest /\ n.high = StartSize
                  /\ n.hop = NoHop /\ n.probes = 0
<1>1. s \in Searches /\ search \in [Destinations -> Searches]
  BY DEF PathInv, MTUTypeOK
<1>2. Baseline(t)
  BY DEF PathInv, Search4
<1>3. CASE ~ok
  <2>1. search' = [search EXCEPT ![t] = [s EXCEPT !.pc = "failed"]]
    BY <1>3 DEF Verdict, Update
  <2>2. [s EXCEPT !.pc = "failed"] \in Searches
    BY <1>1 DEF Searches, Places
  <2> QED BY <1>1, <1>3, <2>1, <2>2
<1>4. CASE ok
  <2>1. search' = [search EXCEPT ![t] = [s EXCEPT !.pc = "next", !.size = 0]]
    BY <1>4 DEF Verdict, Update, Halved
  <2>2. [s EXCEPT !.pc = "next", !.size = 0] \in Searches
    BY <1>1 DEF Searches, Places
  <2> QED BY <1>1, <1>2, <1>4, <2>1, <2>2 DEF Baseline
<1> QED BY <1>3, <1>4

\* What it knows after any other probe: which half is left.
LEMMA VerdictIs ==
  ASSUME PathInv, NEW t \in Destinations, NEW ok \in BOOLEAN, NEW hop \in Nat, Verdict(t, ok, hop),
         kind[t] = "v4", search[t].pc \in {"probe", "wait"},
         NEW s, s = search[t], NEW n, n = search'[t]
  PROVE  /\ n \in Searches /\ search' \in [Destinations -> Searches]
         /\ n.pc = "next" /\ n.probes = s.probes
         /\ ok => n.low = s.size /\ n.high = s.high /\ n.hop = s.hop
         /\ ~ok => n.low = s.low /\ n.high = s.size - 1
         /\ ~ok /\ hop = NoHop => n.hop = s.hop
         /\ ~ok /\ hop # NoHop => n.hop = hop
         /\ s.low < s.size /\ s.size <= s.high
         /\ n.low <= n.high /\ 2 * (n.high - n.low) <= s.high - s.low
<1>1. s \in Searches /\ search \in [Destinations -> Searches]
  BY DEF PathInv, MTUTypeOK
<1>2. s.low < s.high /\ s.size = Middle(s)
  BY DEF PathInv, Search4, Interval
<1>3. s.low \in Nat /\ s.high \in Nat /\ s.hop \in Nat
  BY <1>1 DEF Searches
<1>4. /\ s.low < s.size /\ s.size <= s.high
      /\ 2 * s.size <= s.low + s.high + 1 /\ s.low + s.high <= 2 * s.size
      /\ s.size \in Nat /\ s.size - 1 \in Nat
  BY <1>2, <1>3 DEF Middle
<1>5. CASE ok
  <2>1. search' = [search EXCEPT ![t] = [s EXCEPT !.low = s.size, !.pc = "next", !.size = 0]]
    BY <1>5 DEF Verdict, Update, Halved
  <2>2. n = [s EXCEPT !.low = s.size, !.pc = "next", !.size = 0]
    BY <1>1, <2>1
  <2>3. n \in Searches
    <3>1. /\ n.low \in Nat /\ n.high \in Nat /\ n.hop \in Nat /\ n.size \in Nat /\ n.pc \in Places
          /\ n.probes \in 0..Max({StartSize, MaxAttempts})
      BY <1>1, <1>4, <2>2 DEF Searches, Places
    <3>2. n = [pc |-> n.pc, low |-> n.low, high |-> n.high, size |-> n.size, hop |-> n.hop,
               probes |-> n.probes]
      BY <1>1, <2>2 DEF Searches
    <3> QED BY <3>1, <3>2 DEF Searches
  <2>4. /\ n.pc = "next" /\ n.probes = s.probes /\ n.low = s.size /\ n.high = s.high /\ n.hop = s.hop
    BY <1>1, <2>2 DEF Searches
  <2>5. n.low <= n.high /\ 2 * (n.high - n.low) <= s.high - s.low
    BY <1>3, <1>4, <2>4
  <2>6. search' \in [Destinations -> Searches]
    BY <1>1, <2>1, <2>2, <2>3
  <2> QED BY <1>4, <1>5, <2>3, <2>4, <2>5, <2>6
<1>6. CASE ~ok
  <2> DEFINE h == IF hop = NoHop THEN s.hop ELSE hop
  <2>1. search' = [search EXCEPT ![t] = [s EXCEPT !.high = s.size - 1, !.hop = h, !.pc = "next",
                                                  !.size = 0]]
    BY <1>6 DEF Verdict, Update, Halved
  <2>2. n = [s EXCEPT !.high = s.size - 1, !.hop = h, !.pc = "next", !.size = 0]
    BY <1>1, <2>1
  <2>3. h \in Nat
    BY <1>3
  <2>4. n \in Searches
    <3> HIDE DEF h
    <3>1. /\ n.low \in Nat /\ n.high \in Nat /\ n.hop \in Nat /\ n.size \in Nat /\ n.pc \in Places
          /\ n.probes \in 0..Max({StartSize, MaxAttempts})
      BY <1>1, <1>4, <2>2, <2>3 DEF Searches, Places
    <3>2. n = [pc |-> n.pc, low |-> n.low, high |-> n.high, size |-> n.size, hop |-> n.hop,
               probes |-> n.probes]
      BY <1>1, <2>2 DEF Searches
    <3> QED BY <3>1, <3>2 DEF Searches
  <2>5. /\ n.pc = "next" /\ n.probes = s.probes /\ n.low = s.low /\ n.high = s.size - 1 /\ n.hop = h
    BY <1>1, <2>2 DEF Searches
  <2>6. n.low <= n.high /\ 2 * (n.high - n.low) <= s.high - s.low
    BY <1>3, <1>4, <2>5
  <2>7. search' \in [Destinations -> Searches]
    BY <1>1, <2>1, <2>2, <2>4
  <2> QED BY <1>4, <1>6, <2>4, <2>5, <2>6, <2>7
<1> QED BY <1>5, <1>6

\* Too large, or unanswered: the size is no longer a candidate.
LEMMA RefusedIs ==
  ASSUME PathInv, NEW t \in Destinations, NEW hop \in Nat, Verdict(t, FALSE, hop),
         kind[t] = "v4", search[t].pc \in {"probe", "wait"}
  PROVE  /\ search'[t].pc = "next" /\ search'[t].high = search[t].size - 1
         /\ hop = NoHop => search'[t].hop = search[t].hop
         /\ hop # NoHop => search'[t].hop = hop
         /\ search[t].low < search[t].size /\ search[t].size <= search[t].high
<1>0. SUFFICES ASSUME NEW s, s = search[t], NEW n, n = search'[t]
               PROVE  /\ n.pc = "next" /\ n.high = s.size - 1
                      /\ hop = NoHop => n.hop = s.hop
                      /\ hop # NoHop => n.hop = hop
                      /\ s.low < s.size /\ s.size <= s.high
  OBVIOUS
<1>1. \A ok \in BOOLEAN : Verdict(t, ok, hop) =>
          /\ n.pc = "next"
          /\ ~ok => n.high = s.size - 1
          /\ ~ok /\ hop = NoHop => n.hop = s.hop
          /\ ~ok /\ hop # NoHop => n.hop = hop
          /\ s.low < s.size /\ s.size <= s.high
  BY <1>0, VerdictIs
<1> QED BY <1>1

\* It passed: whatever is left is larger.
LEMMA PassedIs ==
  ASSUME PathInv, NEW t \in Destinations, NEW hop \in Nat, Verdict(t, TRUE, hop),
         kind[t] = "v4", search[t].pc \in {"probe", "wait"}
  PROVE  /\ search'[t].pc = "next" /\ search'[t].high = search[t].high
         /\ search'[t].hop = search[t].hop
<1>0. SUFFICES ASSUME NEW s, s = search[t], NEW n, n = search'[t]
               PROVE  n.pc = "next" /\ n.high = s.high /\ n.hop = s.hop
  OBVIOUS
<1>1. ASSUME NEW ok \in BOOLEAN, Verdict(t, ok, hop)
      PROVE  n.pc = "next" /\ (ok => n.high = s.high /\ n.hop = s.hop)
  BY <1>0, <1>1, VerdictIs
<1> QED BY <1>1

\* Every size between the ends is a natural number.
LEMMA SearchTyped ==
  ASSUME MTUTypeOK, NEW t \in Destinations
  PROVE  /\ search[t] \in Searches /\ net[t] \subseteq Answers
         /\ search[t].low \in Nat /\ search[t].high \in Nat /\ search[t].size \in Nat
         /\ search[t].hop \in Nat /\ search[t].probes \in Nat
         /\ StartSize \in Nat /\ Lowest \in Nat
         /\ faults[t] \in Nat /\ estimate[t] \in Nat
<1>1. Max({StartSize, MaxAttempts}) \in Nat
  BY MostProbes
<1>2. search[t] \in Searches /\ net[t] \subseteq Answers /\ faults[t] \in Nat /\ estimate[t] \in Nat
  BY PathMTUAssumption DEF MTUTypeOK
<1> QED BY <1>1, <1>2, LowestIs DEF Searches

\* The interval after a probe.
LEMMA IntervalHalves ==
  ASSUME PathInv, NEW t \in Destinations, kind[t] = "v4", search[t].pc \in {"probe", "wait"},
         asked' = asked, path' = path, NEW ok \in BOOLEAN, NEW hop \in Nat, Verdict(t, ok, hop),
         ok => Fits(t, search[t].size)
  PROVE  Interval(t)'
<1>0. SUFFICES ASSUME NEW s, s = search[t], NEW n, n = search'[t], NEW k, k = s.probes - 1
               PROVE  Interval(t)'
  OBVIOUS
<1>1. /\ Lowest <= s.low /\ s.low <= s.high /\ s.high <= StartSize
      /\ Fits(t, s.low)
      /\ k \in Nat /\ k + (s.high - s.low) <= StartSize - Lowest
      /\ 2^k * (s.high - s.low) <= StartSize - Lowest
      /\ s.low < s.high
  BY <1>0 DEF PathInv, Search4, Interval, Rounds
<1>2. /\ n.pc = "next" /\ n.probes = s.probes
      /\ ok => n.low = s.size /\ n.high = s.high
      /\ ~ok => n.low = s.low /\ n.high = s.size - 1
      /\ s.low < s.size /\ s.size <= s.high
      /\ n.low <= n.high /\ 2 * (n.high - n.low) <= s.high - s.low
      /\ n \in Searches
  BY <1>0, VerdictIs
<1>3. /\ s.low \in Nat /\ s.high \in Nat /\ s.size \in Nat /\ s.probes \in Nat
      /\ StartSize \in Nat /\ Lowest \in Nat /\ n.low \in Nat /\ n.high \in Nat
  BY <1>0, <1>2, SearchTyped DEF PathInv, Searches
<1>4. s.high - s.low \in Nat /\ n.high - n.low \in Nat /\ StartSize - Lowest \in Nat
  BY <1>1, <1>2, <1>3
<1>5. 2^(k + 1) * (n.high - n.low) <= StartSize - Lowest
  <2>1. 2 * (n.high - n.low) <= s.high - s.low
    BY <1>2
  <2>2. k \in Nat /\ 2^k * (s.high - s.low) <= StartSize - Lowest
    BY <1>1
  <2> DEFINE wide == s.high - s.low
             narrow == n.high - n.low
             all == StartSize - Lowest
  <2>3. wide \in Nat /\ narrow \in Nat /\ all \in Nat /\ 2 * narrow <= wide /\ 2^k * wide <= all
    BY <1>4, <2>1, <2>2
  <2> HIDE DEF wide, narrow, all
  <2>4. 2^(k + 1) * narrow <= all
    BY <2>2, <2>3, HalvingPays
  <2> QED BY <2>4 DEF wide, narrow, all
<1>6. k + 1 = n.probes
  BY <1>0, <1>2, <1>3
<1>7. Fits(t, n.low)'
  BY <1>0, <1>1, <1>2, SamePath
<1>8. Rounds(n) = k + 1
  BY <1>2, <1>6 DEF Rounds
<1>9. k + 1 + (n.high - n.low) <= StartSize - Lowest
  BY <1>1, <1>2, <1>3
<1>10. Lowest' = Lowest
  BY SamePath
<1>11. Lowest <= n.low /\ n.high <= StartSize
  <2>1. CASE ok
    BY <1>1, <1>2, <1>3, <2>1
  <2>2. CASE ~ok
    BY <1>1, <1>2, <1>3, <2>2
  <2> QED BY <2>1, <2>2
<1>12. /\ Lowest' <= n.low /\ n.low <= n.high /\ n.high <= StartSize
       /\ Rounds(n) \in Nat /\ Rounds(n) + (n.high - n.low) <= StartSize - Lowest'
       /\ 2^Rounds(n) * (n.high - n.low) <= StartSize - Lowest'
  BY <1>1, <1>2, <1>5, <1>8, <1>9, <1>10, <1>11
<1> QED BY <1>0, <1>2, <1>7, <1>12 DEF Interval

LEMMA PowerOfNone == 2^0 = 1
<1>1. IsFiniteSet({}) /\ Cardinality({}) = 0
  BY FS_EmptySet
<1>2. Cardinality(SUBSET {}) = 2^0
  BY <1>1, FS_SUBSET
<1>3. SUBSET {} = {{}}
  OBVIOUS
<1>4. Cardinality({{}}) = 1
  BY FS_Singleton
<1> QED BY <1>2, <1>3, <1>4

\* What every verdict leaves true, whether a reply or a deadline brought it.
LEMMA AfterVerdict ==
  ASSUME PathInv, NEW t \in Destinations, NEW ok \in BOOLEAN, NEW hop \in Nat, Verdict(t, ok, hop),
         kind[t] = "v4", search[t].pc \in {"first", "waitFirst", "probe", "wait"},
         asked' = asked, path' = path, search[t].pc = "first" => ~ok, ok => Fits(t, search[t].size)
  PROVE  /\ Interval(t)' /\ Baseline(t)' /\ Reported4(t)'
         /\ search'[t].pc \in {"next", "failed"}
<1>0. SUFFICES ASSUME NEW s, s = search[t], NEW n, n = search'[t]
               PROVE  /\ Interval(t)' /\ Baseline(t)' /\ Reported4(t)'
                      /\ n.pc \in {"next", "failed"}
  OBVIOUS
<1>1. n.pc \in {"next", "failed"}
  BY <1>0, BaselineIs, VerdictIs
<1>2. Baseline(t)' /\ Reported4(t)'
  BY <1>0, <1>1 DEF Baseline, Reported4
<1>3. CASE s.pc \in {"probe", "wait"}
  BY <1>0, <1>1, <1>2, <1>3, IntervalHalves
<1>4. CASE s.pc \in {"first", "waitFirst"} /\ ~ok
  <2>1. n.pc = "failed"
    BY <1>0, <1>4, BaselineIs
  <2> QED BY <1>0, <1>2, <2>1 DEF Interval
<1>5. CASE s.pc = "waitFirst" /\ ok
  <2>1. n.pc = "next" /\ n.low = Lowest /\ n.high = StartSize /\ n.probes = 0
    <3>1. ok => n.pc = "next" /\ n.low = Lowest /\ n.high = StartSize /\ n.probes = 0
      BY <1>0, <1>5, BaselineIs
    <3> QED BY <1>5, <3>1
  <2>2. Fits(t, Lowest)
    BY <1>0, <1>5 DEF PathInv, Search4, Baseline
  <2>3. Fits(t, n.low)'
    BY <2>1, <2>2, SamePath
  <2>4. Rounds(n) = 0
    BY <2>1 DEF Rounds
  <2>5. StartSize - Lowest \in Nat
    BY LowestIs DEF PathInv
  <2>6. 2^0 * (StartSize - Lowest) <= StartSize - Lowest
    BY <2>5, PowerOfNone
  <2>7. Lowest' = Lowest /\ Lowest \in Nat /\ Lowest <= StartSize /\ StartSize \in Nat
    BY LowestIs, SamePath DEF PathInv
  <2>8. Interval(t)'
    BY <1>0, <2>1, <2>3, <2>4, <2>5, <2>6, <2>7 DEF Interval
  <2> QED BY <1>1, <1>2, <2>8
<1> QED BY <1>0, <1>3, <1>4, <1>5

LEMMA Resolves4 ==
  ASSUME PathInv, NEW t \in Destinations, Resolves(t), kind[t] = "v4"
  PROVE  Search4(t)'
<1>0. SUFFICES ASSUME NEW n, n = search'[t]
               PROVE  Search4(t)'
  OBVIOUS
<1>1. net[t] = {} /\ net'[t] = net[t]
  BY DEF PathInv, Apart, Resolves, Claims
<1>2. n = [Idle EXCEPT !.pc = "first", !.low = Lowest, !.high = StartSize, !.size = Lowest]
  BY <1>0 DEF PathInv, MTUTypeOK, Resolves, Update
<1>3. n.pc = "first" /\ n.low = Lowest /\ n.high = StartSize /\ n.size = Lowest /\ n.hop = NoHop
      /\ n.probes = 0
  BY <1>2 DEF Idle
<1>4. Lowest' = Lowest
  BY SamePath DEF Resolves
<1> QED BY <1>0, <1>1, <1>3, <1>4 DEF Search4, Interval, Baseline, LateEchoes, Exact4, Reported4

LEMMA PicksSize4 ==
  ASSUME PathInv, NEW t \in Destinations, PicksSize(t), kind[t] = "v4"
  PROVE  Search4(t)'
<1>0. SUFFICES ASSUME NEW s, s = search[t], NEW n, n = search'[t]
               PROVE  Search4(t)'
  OBVIOUS
<1>1. /\ n = [s EXCEPT !.pc = "probe", !.size = Middle(s), !.probes = @ + 1]
      /\ s.pc = "next" /\ s.low < s.high
      /\ net'[t] = net[t] /\ faults'[t] = faults[t] /\ asked' = asked /\ path' = path
  BY <1>0 DEF PathInv, MTUTypeOK, PicksSize, Update
<1>2. s \in Searches /\ s.probes \in Nat
  BY <1>0, SearchTyped DEF PathInv
<1>3. /\ n.pc = "probe" /\ n.size = Middle(s) /\ n.probes = s.probes + 1
      /\ n.low = s.low /\ n.high = s.high /\ n.hop = s.hop
  BY <1>1, <1>2 DEF Searches
<1>4. Interval(t) /\ LateEchoes(t) /\ Exact4(t)
  BY DEF PathInv, Search4
<1>5. Rounds(n) = Rounds(s)
  BY <1>1, <1>2, <1>3 DEF Rounds
<1>6. Middle(n) = Middle(s)
  BY <1>3 DEF Middle
<1>7. Interval(t)'
  <2>1. Lowest' = Lowest /\ Fits(t, s.low)' = Fits(t, s.low)
    BY <1>1, SamePath
  <2> QED BY <1>0, <1>1, <1>3, <1>4, <1>5, <1>6, <2>1 DEF Interval
<1>8. LateEchoes(t)'
  BY <1>0, <1>1, <1>3, <1>4, SamePath DEF LateEchoes
<1>9. Exact4(t)'
  BY <1>0, <1>1, <1>3, <1>4, SamePath DEF Exact4
<1> QED BY <1>0, <1>3, <1>7, <1>8, <1>9 DEF Search4, Baseline, Reported4

LEMMA Found4 ==
  ASSUME PathInv, NEW t \in Destinations, Found(t), kind[t] = "v4"
  PROVE  Search4(t)'
<1>0. SUFFICES ASSUME NEW s, s = search[t], NEW n, n = search'[t], NEW f, f = found'[t]
               PROVE  Search4(t)'
  OBVIOUS
<1>1. /\ n = [s EXCEPT !.pc = "done"] /\ s.pc = "next" /\ s.low >= s.high
      /\ f = [status |-> "probed", size |-> s.low, hop |-> s.hop]
      /\ net'[t] = net[t] /\ faults'[t] = faults[t] /\ asked' = asked /\ path' = path
  BY <1>0 DEF PathInv, MTUTypeOK, Found, Update
<1>2. s \in Searches /\ s.low \in Nat /\ s.high \in Nat
  BY <1>0, SearchTyped DEF PathInv
<1>3. n.pc = "done"
  BY <1>1, <1>2 DEF Searches
<1>4. Interval(t) /\ Exact4(t)
  BY DEF PathInv, Search4
<1>5. s.low = s.high /\ Lowest <= s.low /\ s.high <= StartSize /\ Fits(t, s.low)
  <2>1. Lowest <= s.low /\ s.low <= s.high /\ s.high <= StartSize /\ Fits(t, s.low)
    BY <1>0, <1>1, <1>4 DEF Interval
  <2> QED BY <1>1, <1>2, <2>1
<1>6. faults[t] = 0 => /\ s.low = StartSize \/ ~Fits(t, s.low + 1)
                       /\ s.hop # NoHop => path[t][s.hop] = s.low
  <2> SUFFICES ASSUME faults[t] = 0
               PROVE  /\ s.low = StartSize \/ ~Fits(t, s.low + 1)
                      /\ s.hop # NoHop => path[t][s.hop] = s.low
    OBVIOUS
  <2>1. /\ s.low = StartSize \/ ~Fits(t, s.low + 1)
        /\ s.hop # NoHop => s.hop \in DOMAIN path[t] \ {1} /\ path[t][s.hop] <= s.low
    BY <1>0, <1>1, <1>4, <1>5 DEF Exact4
  <2>2. ASSUME s.hop # NoHop
        PROVE  path[t][s.hop] = s.low
    <3>1. s.hop \in DOMAIN path[t] \ {1} /\ path[t][s.hop] <= s.low
      BY <2>1, <2>2
    <3>2. path[t][s.hop] \in Nat
      BY <3>1, PathTyped DEF PathInv
    <3>3. s.hop \notin Refusing(t, s.low)
      BY <1>5 DEF Fits
    <3>4. ~(path[t][s.hop] < s.low)
      BY <3>1, <3>3 DEF Refusing
    <3> QED BY <1>2, <3>1, <3>2, <3>4
  <2> QED BY <2>1, <2>2
<1>7. Reported4(t)'
  BY <1>0, <1>1, <1>5, <1>6, SamePath DEF Reported4
<1> QED BY <1>0, <1>3, <1>7 DEF Search4, Interval, Baseline, LateEchoes, Exact4

LEMMA SendsPayload4 ==
  ASSUME PathInv, NEW t \in Destinations, SendsPayload(t), kind[t] = "v4"
  PROVE  Search4(t)'
<1>0. SUFFICES ASSUME NEW s, s = search[t], NEW n, n = search'[t]
               PROVE  Search4(t)'
  OBVIOUS
<1>1. /\ s.pc \in {"first", "probe"} /\ asked' = asked /\ path' = path /\ faults' = faults
      /\ s \in Searches /\ s.size \in Nat /\ s.high \in Nat /\ s.hop \in Nat
  BY <1>0, SearchTyped DEF PathInv, SendsPayload
<1>2. path[t][1] \in Nat
  BY PathTyped DEF PathInv
<1>3. Interval(t) /\ Baseline(t) /\ LateEchoes(t) /\ Exact4(t)
  BY DEF PathInv, Search4
\* The host refuses the packet.
<1>4. CASE s.size > path[t][1]
  <2>1. Verdict(t, FALSE, NoHop) /\ net' = net
    BY <1>0, <1>4 DEF SendsPayload
  <2>2. Interval(t)' /\ Baseline(t)' /\ Reported4(t)'
    BY <1>0, <1>1, <2>1, AfterVerdict DEF NoHop
  <2>3. CASE s.pc = "first"
    <3>1. n.pc = "failed"
      BY <1>0, <2>1, <2>3, BaselineIs DEF NoHop
    <3> QED BY <1>0, <2>2, <3>1 DEF Search4, LateEchoes, Exact4
  <2>4. CASE s.pc = "probe"
    <3>1. /\ n.pc = "next" /\ n.high = s.size - 1 /\ n.hop = s.hop /\ s.size <= s.high
      <4>1. search[t].pc \in {"probe", "wait"} /\ Verdict(t, FALSE, NoHop)
        BY <1>0, <2>1, <2>4
      <4>2. /\ search'[t].pc = "next" /\ search'[t].high = search[t].size - 1
            /\ search'[t].hop = search[t].hop /\ search[t].size <= search[t].high
        <5>1. NoHop \in Nat
          BY DEF NoHop
        <5> QED BY <4>1, <5>1, RefusedIs, Zenon
      <4> QED BY <1>0, <4>2
    <3>2. ASSUME NEW m \in net[t], m.kind = "echo"
          PROVE  Fits(t, n.high)
      <4>1. Fits(t, s.high)
        BY <1>0, <1>3, <2>4, <3>2 DEF LateEchoes
      <4>2. s.size - 1 \in Nat /\ s.size - 1 <= s.high
        BY <1>1, <1>2, <1>4, <3>1
      <4> QED BY <1>1, <3>1, <4>1, <4>2, SmallerFits DEF PathInv
    <3>3. LateEchoes(t)'
      BY <1>0, <1>1, <2>1, <3>1, <3>2, SamePath DEF LateEchoes
    <3>4. Exact4(t)'
      <4> SUFFICES ASSUME faults[t] = 0
                   PROVE  net[t] = {} /\ ~Fits(t, n.high + 1) /\ n.hop = NoHop
        BY <1>0, <1>1, <2>1, <3>1, SamePath DEF Exact4
      <4>1. net[t] = {} /\ (s.hop # NoHop => s.high <= path[t][1])
        BY <1>0, <1>3, <2>4 DEF Exact4
      <4>2. n.high + 1 = s.size /\ s.hop = NoHop
        BY <1>1, <1>2, <1>4, <3>1, <4>1
      <4>3. ~Fits(t, s.size)
        BY <1>1, <1>2, <1>4 DEF Fits
      <4> QED BY <3>1, <4>1, <4>2, <4>3
    <3> QED BY <2>2, <3>3, <3>4 DEF Search4
  <2> QED BY <1>1, <2>3, <2>4
\* It is sent.
<1>5. CASE ~(s.size > path[t][1])
  <2>0. s.size <= path[t][1]
    BY <1>1, <1>2, <1>5
  <2> DEFINE a == Answer(t, 0, s.size)
  <2>1. /\ net' = [net EXCEPT ![t] = @ \cup {a}]
        /\ search' = [search EXCEPT ![t] = [s EXCEPT !.pc = IF s.pc = "first" THEN "waitFirst" ELSE "wait"]]
    BY <1>0, <1>5 DEF SendsPayload, Update
  <2>2. /\ net'[t] = net[t] \cup {a}
        /\ n = [s EXCEPT !.pc = IF s.pc = "first" THEN "waitFirst" ELSE "wait"]
    BY <1>0, <2>1 DEF PathInv, MTUTypeOK
  <2>3. /\ n.pc = IF s.pc = "first" THEN "waitFirst" ELSE "wait"
        /\ n.low = s.low /\ n.high = s.high /\ n.size = s.size /\ n.hop = s.hop /\ n.probes = s.probes
    BY <1>1, <2>2 DEF Searches
  <2> HIDE DEF a
  <2>4. Answer(t, 0, s.size)' = a
    BY <1>1, SamePath DEF a
  <2>5. Reported4(t)'
    BY <1>0, <1>1, <2>3 DEF Reported4
  <2>6. CASE s.pc = "first"
    <3>1. n.pc = "waitFirst" /\ s.size = Lowest /\ net[t] = {}
      BY <1>0, <1>3, <2>3, <2>6 DEF Baseline
    <3>2. net'[t] = {Answer(t, 0, Lowest)}
      BY <2>2, <3>1 DEF a
    <3>3. Baseline(t)'
      BY <1>0, <1>1, <1>3, <2>0, <2>3, <2>6, <3>1, <3>2, SamePath DEF Baseline
    <3> QED BY <1>0, <2>5, <3>1, <3>3 DEF Search4, Interval, LateEchoes, Exact4
  <2>7. CASE s.pc = "probe"
    <3>1. n.pc = "wait"
      BY <2>3, <2>7
    <3>2. Rounds(n) = Rounds(s) /\ Middle(n) = Middle(s)
      BY <2>3, <2>7, <3>1 DEF Rounds, Middle
    <3>3. Interval(t)'
      BY <1>0, <1>1, <1>3, <2>3, <2>7, <3>1, <3>2, SamePath DEF Interval
    <3>4. ASSUME NEW m \in net'[t], m.kind = "echo"
          PROVE  m = Answer(t, 0, s.size) \/ Fits(t, s.high)
      BY <1>0, <1>3, <2>2, <2>7, <3>4 DEF LateEchoes, a
    <3>5. LateEchoes(t)'
      BY <1>0, <1>1, <2>0, <2>3, <3>1, <3>4, SamePath DEF LateEchoes
    <3>6. Exact4(t)'
      <4> SUFFICES ASSUME faults[t] = 0
                   PROVE  /\ net'[t] = {Answer(t, 0, s.size)}
                          /\ s.high = StartSize \/ ~Fits(t, s.high + 1)
                          /\ s.hop # NoHop => /\ s.hop \in DOMAIN path[t] \ {1}
                                              /\ path[t][s.hop] <= s.high /\ s.high <= path[t][1]
        <5>1. /\ n.pc = "wait" /\ n.high = s.high /\ n.hop = s.hop /\ n.size = s.size
              /\ asked' = asked /\ path' = path /\ faults' = faults /\ Answer(t, 0, s.size)' = Answer(t, 0, s.size)
              /\ Fits(t, s.high + 1)' = Fits(t, s.high + 1)
          BY <1>1, <2>3, <3>1, SamePath
        <5> QED BY <1>0, <5>1 DEF Exact4
      <4>1. net[t] = {}
        BY <1>0, <1>3, <2>7 DEF Exact4
      <4>2. net'[t] = {Answer(t, 0, s.size)}
        BY <2>2, <4>1 DEF a
      <4> QED BY <1>0, <1>3, <2>7, <4>2 DEF Exact4
    <3> QED BY <1>0, <2>5, <3>1, <3>3, <3>5, <3>6 DEF Search4, Baseline
  <2> QED BY <1>1, <2>6, <2>7
<1> QED BY <1>4, <1>5

LEMMA ReadTimesOut4 ==
  ASSUME PathInv, NEW t \in Destinations, ReadTimesOut(t), kind[t] = "v4"
  PROVE  Search4(t)'
<1>0. SUFFICES ASSUME NEW s, s = search[t], NEW n, n = search'[t]
               PROVE  Search4(t)'
  OBVIOUS
<1>1. /\ s.pc \in {"waitFirst", "wait"} /\ asked' = asked /\ path' = path /\ net' = net /\ Verdict(t, FALSE, NoHop)
      /\ s \in Searches /\ s.size \in Nat /\ s.high \in Nat /\ faults[t] \in Nat
  BY <1>0, SearchTyped DEF PathInv, ReadTimesOut
<1>2. Interval(t)' /\ Baseline(t)' /\ Reported4(t)'
  BY <1>0, <1>1, AfterVerdict DEF NoHop
<1>3. LateEchoes(t) /\ Exact4(t)
  BY DEF PathInv, Search4
<1>4. CASE s.pc = "waitFirst"
  <2>1. n.pc = "failed"
    BY <1>0, <1>1, <1>4, BaselineIs DEF NoHop
  <2> QED BY <1>0, <1>2, <2>1 DEF Search4, LateEchoes, Exact4
<1>5. CASE s.pc = "wait"
  <2>1. n.pc = "next" /\ n.high = s.size - 1 /\ s.low < s.size /\ s.size <= s.high
    <3>1. search[t].pc \in {"probe", "wait"} /\ Verdict(t, FALSE, NoHop)
      BY <1>0, <1>1, <1>5
    <3>2. /\ search'[t].pc = "next" /\ search'[t].high = search[t].size - 1
          /\ search[t].low < search[t].size /\ search[t].size <= search[t].high
      <4>1. NoHop \in Nat
        BY DEF NoHop
      <4> QED BY <3>1, <4>1, RefusedIs, Zenon
    <3> QED BY <1>0, <3>2
  <2>2. s.low \in Nat
    BY <1>0, SearchTyped DEF PathInv
  <2>3. n.high \in Nat /\ n.high <= s.high /\ n.high <= s.size
    BY <1>1, <2>1, <2>2
  <2>4. ASSUME NEW m \in net[t], m.kind = "echo"
        PROVE  Fits(t, n.high)
    <3>1. m = Answer(t, 0, s.size) \/ Fits(t, s.high)
      BY <1>0, <1>3, <1>5, <2>4 DEF LateEchoes
    <3>2. CASE Fits(t, s.high)
      BY <1>1, <2>3, <3>2, SmallerFits DEF PathInv
    <3>3. CASE m = Answer(t, 0, s.size)
      <4>1. Refusing(t, s.size) = {}
        BY <1>1, <2>4, <3>3, AnswerSays DEF PathInv
      <4>2. s.size <= path[t][1]
        BY <1>0, <1>3, <1>5 DEF LateEchoes
      <4>3. Fits(t, s.size)
        BY <4>1, <4>2 DEF Fits
      <4> QED BY <1>1, <2>3, <4>3, SmallerFits DEF PathInv
    <3> QED BY <3>1, <3>2, <3>3
  <2>5. LateEchoes(t)'
    BY <1>0, <1>1, <2>1, <2>4, SamePath DEF LateEchoes
  <2>6. faults'[t] # 0
    <3>1. CASE faults[t] = 0
      <4>1. net[t] # {}
        BY <1>0, <1>3, <1>5, <3>1 DEF Exact4
      <4>2. faults' = [faults EXCEPT ![t] = @ + 1]
        BY <4>1 DEF ReadTimesOut, Fault
      <4> QED BY <3>1, <4>2 DEF PathInv, MTUTypeOK
    <3>2. CASE faults[t] # 0
      <4>1. faults' = faults \/ faults' = [faults EXCEPT ![t] = @ + 1]
        BY DEF ReadTimesOut, Fault
      <4> QED BY <1>1, <3>2, <4>1 DEF PathInv, MTUTypeOK
    <3> QED BY <3>1, <3>2
  <2> QED BY <1>2, <2>5, <2>6 DEF Search4, Exact4
<1> QED BY <1>1, <1>4, <1>5

LEMMA Expires4 ==
  ASSUME PathInv, NEW t \in Destinations, Expires(t)
  PROVE  Search4(t)'
<1>1. search' = [search EXCEPT ![t] = [search[t] EXCEPT !.pc = "failed"]]
  BY DEF Expires, Update
<1>2. search'[t] = [search[t] EXCEPT !.pc = "failed"]
  BY <1>1 DEF PathInv, MTUTypeOK
<1>3. search[t] \in Searches
  BY SearchTyped DEF PathInv
<1>4. search'[t].pc = "failed"
  BY <1>2, <1>3 DEF Searches
<1> QED BY <1>4 DEF Search4, Interval, Baseline, LateEchoes, Exact4, Reported4

LEMMA Loses4 ==
  ASSUME PathInv, NEW t \in Destinations, Loses(t), kind[t] = "v4"
  PROVE  Search4(t)'
<1>1. /\ search' = search /\ asked' = asked /\ path' = path /\ found' = found
      /\ faults' = [faults EXCEPT ![t] = @ + 1]
      /\ \E m \in net[t] : net' = [net EXCEPT ![t] = @ \ {m}]
  BY DEF Loses, Fault
<1>2. net'[t] \subseteq net[t]
  BY <1>1 DEF PathInv, MTUTypeOK
<1>3. faults[t] \in Nat /\ faults'[t] = faults[t] + 1
  BY <1>1, SearchTyped DEF PathInv, MTUTypeOK
<1>4. faults'[t] # 0
  BY <1>3
<1>5. Search4(t)
  BY DEF PathInv
<1>6. Interval(t)'
  BY <1>1, <1>5, SamePath DEF Search4, Interval
<1>7. Baseline(t)'
  BY <1>1, <1>2, <1>5, SamePath DEF Search4, Baseline
<1>8. LateEchoes(t)'
  BY <1>1, <1>2, <1>5, SamePath DEF Search4, LateEchoes
<1>9. Reported4(t)'
  <2>1. CASE search[t].pc = "done"
    <3>1. found[t].status = "probed" /\ Fits(t, found[t].size) /\ found[t].size >= Lowest
          /\ found[t].size <= StartSize
      BY <1>5, <2>1 DEF Search4, Reported4
    <3> QED BY <1>1, <1>4, <3>1, SamePath DEF Reported4
  <2>2. CASE search[t].pc # "done"
    BY <1>1, <2>2 DEF Reported4
  <2> QED BY <2>1, <2>2
<1> QED BY <1>4, <1>6, <1>7, <1>8, <1>9 DEF Search4, Exact4

LEMMA ReadsReply4 ==
  ASSUME PathInv, NEW t \in Destinations, ReadsReply(t), kind[t] = "v4"
  PROVE  Search4(t)'
<1>0. SUFFICES ASSUME NEW s, s = search[t], NEW n, n = search'[t]
               PROVE  Search4(t)'
  OBVIOUS
<1>1. /\ s.pc \in {"waitFirst", "wait"} /\ asked' = asked /\ path' = path /\ faults' = faults
      /\ s \in Searches /\ s.size \in Nat /\ s.high \in Nat /\ s.low \in Nat /\ s.hop \in Nat
      /\ net[t] \subseteq Answers
  BY <1>0, SearchTyped DEF PathInv, ReadsReply
<1>2. PICK m \in net[t] : /\ net' = [net EXCEPT ![t] = @ \ {m}]
                          /\ Verdict(t, m.kind = "echo", m.hop)
  BY DEF ReadsReply
<1>3. net'[t] = net[t] \ {m} /\ m.hop \in Nat
  BY <1>1, <1>2 DEF PathInv, MTUTypeOK, Answers
<1>4. Interval(t) /\ Baseline(t) /\ LateEchoes(t) /\ Exact4(t)
  BY DEF PathInv, Search4
<1>5. s.pc = "wait" => s.low < s.size /\ s.size <= s.high
  <2>1. s.pc = "wait" => s.low < s.high /\ s.size = Middle(s)
    BY <1>0, <1>4 DEF Interval
  <2> QED BY <1>1, <2>1 DEF Middle
<1>6. CASE m.kind = "echo"
  <2>1. Verdict(t, TRUE, m.hop)
    BY <1>2, <1>6
  <2>2. Fits(t, s.size)
    <3>1. CASE s.pc = "waitFirst"
      <4>1. m = Answer(t, 0, Lowest) /\ s.size = Lowest /\ Lowest <= path[t][1]
        BY <1>0, <1>2, <1>4, <3>1 DEF Baseline
      <4>2. Refusing(t, s.size) = {}
        BY <1>1, <1>6, <4>1, AnswerSays DEF PathInv
      <4> QED BY <4>1, <4>2 DEF Fits
    <3>2. CASE s.pc = "wait"
      <4>1. s.size <= path[t][1] /\ (m = Answer(t, 0, s.size) \/ Fits(t, s.high))
        BY <1>0, <1>2, <1>4, <1>6, <3>2 DEF LateEchoes
      <4>2. CASE m = Answer(t, 0, s.size)
        <5>1. Refusing(t, s.size) = {}
          BY <1>1, <1>6, <4>2, AnswerSays DEF PathInv
        <5> QED BY <4>1, <5>1 DEF Fits
      <4>3. CASE Fits(t, s.high)
        BY <1>1, <1>5, <3>2, <4>3, SmallerFits DEF PathInv
      <4> QED BY <4>1, <4>2, <4>3
    <3> QED BY <1>1, <3>1, <3>2
  <2>3. Interval(t)' /\ Baseline(t)' /\ Reported4(t)'
    <3>1. Fits(t, search[t].size) /\ search[t].pc \in {"first", "waitFirst", "probe", "wait"}
          /\ search[t].pc # "first"
      BY <1>0, <1>1, <2>2
    <3> QED BY <1>1, <1>3, <2>1, <3>1, AfterVerdict
  <2>4. CASE s.pc = "waitFirst"
    <3>1. net'[t] = {}
      BY <1>0, <1>2, <1>3, <1>4, <2>4 DEF Baseline
    <3>2. n.pc = "next" /\ n.high = StartSize /\ n.hop = NoHop
      BY <1>0, <1>3, <2>1, <2>4, BaselineIs
    <3>3. LateEchoes(t)' /\ Exact4(t)'
      BY <1>0, <3>1, <3>2 DEF LateEchoes, Exact4
    <3> QED BY <2>3, <3>3 DEF Search4
  <2>5. CASE s.pc = "wait"
    <3>1. n.pc = "next" /\ n.high = s.high /\ n.hop = s.hop
      <4>1. search[t].pc \in {"probe", "wait"}
        BY <1>0, <2>5
      <4>2. /\ search'[t].pc = "next" /\ search'[t].high = search[t].high
            /\ search'[t].hop = search[t].hop
        BY <1>3, <2>1, <4>1, PassedIs, Zenon
      <4> QED BY <1>0, <4>2
    <3>2. ASSUME NEW l \in net'[t], l.kind = "echo"
          PROVE  Fits(t, s.high)
      BY <1>0, <1>2, <1>3, <1>4, <1>6, <2>5, <3>2 DEF LateEchoes
    <3>3. LateEchoes(t)'
      BY <1>0, <1>1, <3>1, <3>2, SamePath DEF LateEchoes
    <3>4. Exact4(t)'
      <4> SUFFICES ASSUME faults[t] = 0
                   PROVE  /\ net'[t] = {}
                          /\ s.high = StartSize \/ ~Fits(t, s.high + 1)
                          /\ s.hop # NoHop => /\ s.hop \in DOMAIN path[t] \ {1}
                                              /\ path[t][s.hop] <= s.high /\ s.high <= path[t][1]
        <5>1. Fits(t, s.high + 1)' = Fits(t, s.high + 1)
          BY <1>1, SamePath
        <5> QED BY <1>0, <1>1, <3>1, <5>1 DEF Exact4
      <4>1. net[t] = {Answer(t, 0, s.size)}
        BY <1>0, <1>4, <2>5 DEF Exact4
      <4>2. net'[t] = {}
        BY <1>2, <1>3, <4>1
      <4> QED BY <1>0, <1>4, <2>5, <4>2 DEF Exact4
    <3> QED BY <2>3, <3>3, <3>4 DEF Search4
  <2> QED BY <1>1, <2>4, <2>5
<1>7. CASE m.kind # "echo"
  <2>1. Verdict(t, FALSE, m.hop)
    BY <1>2, <1>7
  <2>2. Interval(t)' /\ Baseline(t)' /\ Reported4(t)'
    <3>1. search[t].pc \in {"first", "waitFirst", "probe", "wait"}
      BY <1>0, <1>1
    <3> QED BY <1>1, <1>3, <2>1, <3>1, AfterVerdict
  <2>3. CASE s.pc = "waitFirst"
    <3>1. n.pc = "failed"
      BY <1>0, <1>3, <2>1, <2>3, BaselineIs
    <3> QED BY <1>0, <2>2, <3>1 DEF Search4, LateEchoes, Exact4
  <2>4. CASE s.pc = "wait"
    <3>1. n.pc = "next" /\ n.high = s.size - 1 /\ n.hop = IF m.hop = NoHop THEN s.hop ELSE m.hop
      <4>1. /\ n.pc = "next" /\ n.high = s.size - 1
            /\ m.hop = NoHop => n.hop = s.hop
            /\ m.hop # NoHop => n.hop = m.hop
        <5>1. search[t].pc \in {"probe", "wait"}
          BY <1>0, <2>4
        <5>2. /\ search'[t].pc = "next" /\ search'[t].high = search[t].size - 1
              /\ m.hop = NoHop => search'[t].hop = search[t].hop
              /\ m.hop # NoHop => search'[t].hop = m.hop
          BY <1>3, <2>1, <5>1, RefusedIs, Zenon
        <5> QED BY <1>0, <5>2
      <4> QED BY <4>1
    <3>2. n.high \in Nat /\ n.high <= s.high /\ n.high <= s.size
      BY <1>1, <1>5, <2>4, <3>1
    <3>3. ASSUME NEW l \in net'[t], l.kind = "echo"
          PROVE  Fits(t, n.high)
      <4>1. s.size <= path[t][1] /\ (l = Answer(t, 0, s.size) \/ Fits(t, s.high))
        BY <1>0, <1>3, <1>4, <2>4, <3>3 DEF LateEchoes
      <4>2. CASE Fits(t, s.high)
        BY <1>1, <3>2, <4>2, SmallerFits DEF PathInv
      <4>3. CASE l = Answer(t, 0, s.size)
        <5>1. Refusing(t, s.size) = {}
          BY <1>1, <3>3, <4>3, AnswerSays DEF PathInv
        <5>2. Fits(t, s.size)
          BY <4>1, <5>1 DEF Fits
        <5> QED BY <1>1, <3>2, <5>2, SmallerFits DEF PathInv
      <4> QED BY <4>1, <4>2, <4>3
    <3>4. LateEchoes(t)'
      BY <1>0, <1>1, <3>1, <3>3, SamePath DEF LateEchoes
    <3>5. Exact4(t)'
      <4> SUFFICES ASSUME faults[t] = 0
                   PROVE  /\ net'[t] = {}
                          /\ ~Fits(t, n.high + 1)
                          /\ n.hop \in DOMAIN path[t] \ {1}
                          /\ path[t][n.hop] <= n.high /\ n.high <= path[t][1]
        <5>1. \A x : Fits(t, x)' = Fits(t, x)
          BY <1>1, SamePath
        <5> QED BY <1>0, <1>1, <3>1, <5>1 DEF Exact4
      <4>1. net[t] = {Answer(t, 0, s.size)}
        BY <1>0, <1>4, <2>4 DEF Exact4
      <4>2. net'[t] = {} /\ m = Answer(t, 0, s.size)
        BY <1>2, <1>3, <4>1
      <4>3. /\ m.hop \in DOMAIN path[t] \ {1} /\ m.limit = path[t][m.hop] /\ m.limit < s.size
            /\ ~Fits(t, s.size) /\ m.hop # NoHop /\ m.limit \in Nat
        <5>1. MTUTypeOK /\ s.size \in Nat /\ m.kind # "echo"
          BY <1>1, <1>7 DEF PathInv
        <5> QED BY <4>2, <5>1, RefusalSays, ZenonT(60)
      <4>4. s.size <= path[t][1] /\ path[t][1] \in Nat
        BY <1>0, <1>4, <2>4, PathTyped DEF LateEchoes, PathInv
      <4>5. n.high + 1 = s.size /\ n.hop = m.hop
        BY <1>1, <3>1, <4>3
      <4>6. m.limit <= n.high /\ n.high <= path[t][1]
        BY <1>1, <3>2, <4>3, <4>4, <4>5
      <4> QED BY <4>2, <4>3, <4>5, <4>6
    <3> QED BY <2>2, <3>4, <3>5 DEF Search4
  <2> QED BY <1>1, <2>3, <2>4
<1> QED BY <1>6, <1>7

LEMMA LesserIs ==
  ASSUME NEW a \in Nat, NEW b \in Nat
  PROVE  /\ Min({a, b}) \in {a, b} /\ Min({a, b}) <= a /\ Min({a, b}) <= b
         /\ a <= b => Min({a, b}) = a
<1>1. Min({a, b}) \in {a, b} /\ \A y \in {a, b} : Min({a, b}) <= y
  BY LeastOf
<1> QED BY <1>1

LEMMA ProbedIs ==
  ASSUME NEW size \in Nat
  PROVE  /\ Probed(size) \in Nat /\ Probed(size) <= size
         /\ size <= MaxProbe => Probed(size) = size
<1>1. MaxProbe \in Nat
  BY PathMTUAssumption
<1> QED BY <1>1, LesserIs DEF Probed

LEMMA Begins6 ==
  ASSUME PathInv, NEW t \in Destinations, Begins(t), kind[t] = "v6"
  PROVE  Attempt(t)' /\ Exact6(t)'
<1>0. SUFFICES ASSUME NEW n, n = search'[t]
               PROVE  Attempt(t)' /\ Exact6(t)'
  OBVIOUS
<1>1. /\ search[t].pc = "idle" /\ n = [Idle EXCEPT !.pc = "query"]
      /\ asked' = asked /\ path' = path /\ net' = net /\ faults' = faults /\ estimate' = estimate
  BY <1>0 DEF PathInv, MTUTypeOK, Begins, Claims, Update
<1>2. n.pc = "query" /\ n.probes = 0
  BY <1>1 DEF Idle
<1>3. net[t] = {} /\ estimate[t] = path[t][1]
  BY <1>1 DEF PathInv, Apart, Attempt
<1>4. /\ path[t][1] \in Nat /\ DOMAIN path[t] = 1..Len(path[t]) /\ Len(path[t]) \in Nat \ {0}
  BY PathTyped DEF PathInv
<1>5. MaxAttempts \in Nat
  BY PathMTUAssumption
<1>6. Attempt(t)'
  BY <1>0, <1>1, <1>2, <1>3, <1>4, <1>5 DEF Attempt
<1>7. 1 \in DOMAIN path[t]
  BY <1>4
<1>8. Reaches(t, 1)'
  BY <1>0, <1>1, <1>2, <1>3, <1>4, <1>7 DEF Reaches, Tried
<1>9. Exact6(t)'
  BY <1>0, <1>1, <1>2, <1>3, <1>7, <1>8 DEF Exact6
<1> QED BY <1>6, <1>9

LEMMA Queries6 ==
  ASSUME PathInv, NEW t \in Destinations, Queries(t), kind[t] = "v6"
  PROVE  Attempt(t)' /\ Exact6(t)'
<1>0. SUFFICES ASSUME NEW s, s = search[t], NEW n, n = search'[t]
               PROVE  Attempt(t)' /\ Exact6(t)'
  OBVIOUS
<1>1. /\ s.pc = "query" /\ s \in Searches /\ s.probes \in Nat
      /\ asked' = asked /\ path' = path /\ net' = net /\ faults' = faults /\ estimate' = estimate
      /\ MaxAttempts \in Nat
  BY <1>0, SearchTyped, PathMTUAssumption DEF PathInv, Queries
<1>2. Attempt(t) /\ Exact6(t)
  BY DEF PathInv
<1>3. /\ s.probes <= MaxAttempts /\ estimate[t] <= path[t][1]
      /\ \A m \in net[t] : m.seq <= s.probes /\ m.seq \in Nat
  BY <1>0, <1>2, SearchTyped DEF Attempt, PathInv, Answers
<1>4. CASE s.probes = MaxAttempts
  <2>1. n = [s EXCEPT !.pc = "estimated"]
    BY <1>0, <1>4 DEF PathInv, MTUTypeOK, Queries, Update
  <2>2. n.pc = "estimated" /\ n.probes = s.probes
    BY <1>1, <2>1 DEF Searches
  <2>3. Attempt(t)'
    BY <1>0, <1>1, <1>3, <2>2 DEF Attempt
  <2>4. ASSUME faults[t] = 0, Modest(t)
        PROVE  FALSE
    <3>1. PICK i \in DOMAIN path[t] : Reaches(t, i)
      BY <1>0, <1>1, <1>2, <2>4 DEF Exact6
    <3>2. Tried(s) < i
      BY <1>0, <3>1 DEF Reaches
    <3>3. Tried(s) = MaxAttempts
      BY <1>1, <1>4 DEF Tried
    <3>4. i \in 1..Len(path[t]) /\ Len(path[t]) \in Nat /\ Len(path[t]) <= MaxAttempts
      BY <2>4, PathTyped DEF PathInv, Modest
    <3> QED BY <1>1, <3>2, <3>3, <3>4
  <2>5. Exact6(t)'
    BY <1>1, <2>4, SamePath DEF Exact6
  <2> QED BY <2>3, <2>5
<1>5. CASE s.probes # MaxAttempts
  <2>1. n = [s EXCEPT !.pc = "write", !.size = estimate[t], !.probes = @ + 1]
    BY <1>0, <1>5 DEF PathInv, MTUTypeOK, Queries, Update
  <2>2. n.pc = "write" /\ n.probes = s.probes + 1 /\ n.size = estimate[t]
    BY <1>1, <2>1 DEF Searches
  <2>3. n.probes <= MaxAttempts
    BY <1>1, <1>3, <1>5, <2>2
  <2>4. \A m \in net[t] : m.seq <= n.probes /\ m.seq # n.probes
    BY <1>1, <1>3, <2>2
  <2>5. Attempt(t)'
    BY <1>0, <1>1, <1>3, <2>2, <2>3, <2>4 DEF Attempt
  <2>6. Exact6(t)'
    <3> SUFFICES ASSUME faults[t] = 0, Modest(t)
                 PROVE  net[t] = {} /\ \E i \in DOMAIN path[t] : Reaches(t, i)'
      BY <1>0, <1>1, <2>2, SamePath DEF Exact6
    <3>1. net[t] = {} /\ \E i \in DOMAIN path[t] : Reaches(t, i)
      BY <1>0, <1>1, <1>2 DEF Exact6
    <3>2. PICK i \in DOMAIN path[t] : Reaches(t, i)
      BY <3>1
    <3>3. Tried(n) = Tried(s)
      BY <1>1, <2>2 DEF Tried
    <3>4. Reaches(t, i)'
      BY <1>0, <1>1, <3>2, <3>3 DEF Reaches
    <3> QED BY <3>1, <3>4
  <2> QED BY <2>5, <2>6
<1> QED BY <1>4, <1>5

LEMMA Writes6 ==
  ASSUME PathInv, NEW t \in Destinations, Writes(t), kind[t] = "v6"
  PROVE  Attempt(t)' /\ Exact6(t)'
<1>0. SUFFICES ASSUME NEW s, s = search[t], NEW n, n = search'[t]
               PROVE  Attempt(t)' /\ Exact6(t)'
  OBVIOUS
<1>1. /\ s.pc = "write" /\ s \in Searches /\ s.probes \in Nat /\ s.size \in Nat
      /\ asked' = asked /\ path' = path /\ faults' = faults /\ estimate' = estimate
      /\ estimate[t] \in Nat /\ net[t] \subseteq Answers
  BY <1>0, SearchTyped DEF PathInv, Writes
<1>2. Attempt(t) /\ Exact6(t)
  BY DEF PathInv
<1>3. /\ s.probes <= MaxAttempts /\ estimate[t] <= path[t][1] /\ path[t][1] \in Nat
      /\ \A m \in net[t] : m.seq <= s.probes /\ m.seq # s.probes
  BY <1>0, <1>1, <1>2, PathTyped DEF Attempt, PathInv
<1>4. Probed(s.size) \in Nat /\ Probed(s.size) <= s.size
  BY <1>1, ProbedIs
\* What Exact6 says before the step.
<1>5. ASSUME faults[t] = 0, Modest(t)
      PROVE  net[t] = {} /\ s.size = estimate[t] /\ \E i \in DOMAIN path[t] : Reaches(t, i)
  BY <1>0, <1>1, <1>2, <1>5 DEF Exact6
<1>6. CASE Probed(s.size) > estimate[t]
  <2>1. n = [s EXCEPT !.pc = "requery"] /\ net' = net
    BY <1>0, <1>6 DEF PathInv, MTUTypeOK, Writes, Update
  <2>2. n.pc = "requery" /\ n.probes = s.probes
    BY <1>1, <2>1 DEF Searches
  <2>3. Attempt(t)'
    BY <1>0, <1>1, <1>3, <2>1, <2>2 DEF Attempt
  <2>4. ~(faults[t] = 0 /\ Modest(t))
    BY <1>1, <1>4, <1>5, <1>6
  <2>5. Exact6(t)'
    BY <1>1, <2>4, SamePath DEF Exact6
  <2> QED BY <2>3, <2>5
<1>7. CASE ~(Probed(s.size) > estimate[t])
  <2>0. Probed(s.size) <= path[t][1]
    BY <1>1, <1>3, <1>4, <1>7
  <2> DEFINE a == Answer(t, s.probes, Probed(s.size))
  <2>1. /\ net' = [net EXCEPT ![t] = @ \cup {a}]
        /\ search' = [search EXCEPT ![t] = [s EXCEPT !.pc = "await"]]
    BY <1>0, <1>7 DEF Writes, Update
  <2>2. net'[t] = net[t] \cup {a} /\ n = [s EXCEPT !.pc = "await"]
    BY <1>0, <2>1 DEF PathInv, MTUTypeOK
  <2>3. n.pc = "await" /\ n.probes = s.probes /\ n.size = s.size
    BY <1>1, <2>2 DEF Searches
  <2>4. a.seq = s.probes
    BY <1>1, <1>4, AnswerSays DEF PathInv
  <2>5. Answer(t, s.probes, Probed(s.size))' = a
    BY <1>1, SamePath
  <2> HIDE DEF a
  <2>6. /\ \A m \in net'[t] : m.seq <= n.probes
        /\ \A m \in net'[t] : m.seq = n.probes => m = a
    BY <1>1, <1>3, <2>2, <2>3, <2>4
  <2>7. Attempt(t)'
    <3>1. \A m \in net'[t] : m.seq = n.probes => m = Answer(t, n.probes, Probed(n.size))'
      BY <1>1, <2>3, <2>6, SamePath DEF a
    <3> QED BY <1>0, <1>1, <1>3, <2>0, <2>3, <2>6, <3>1 DEF Attempt
  <2>8. Exact6(t)'
    <3> SUFFICES ASSUME faults[t] = 0, Modest(t)
                 PROVE  /\ net'[t] = {a} /\ s.size = estimate[t]
                        /\ \E i \in DOMAIN path[t] : Reaches(t, i)'
      BY <1>0, <1>1, <2>3, <2>5, SamePath DEF Exact6, a
    <3>1. net'[t] = {a} /\ s.size = estimate[t]
      BY <1>5, <2>2
    <3>2. PICK i \in DOMAIN path[t] : Reaches(t, i)
      BY <1>5
    <3>3. Tried(n) = Tried(s)
      BY <1>1, <2>3 DEF Tried
    <3>4. Reaches(t, i)'
      BY <1>0, <1>1, <3>2, <3>3 DEF Reaches
    <3> QED BY <3>1, <3>4
  <2> QED BY <2>7, <2>8
<1> QED BY <1>6, <1>7

LEMMA Arrives6 ==
  ASSUME PathInv, NEW t \in Destinations, Arrives(t)
  PROVE  Attempt(t)' /\ Exact6(t)'
<1>0. SUFFICES ASSUME NEW s, s = search[t], NEW n, n = search'[t], NEW e, e = estimate'[t]
               PROVE  Attempt(t)' /\ Exact6(t)'
  OBVIOUS
<1>1. /\ kind[t] = "v6" /\ asked' = asked /\ path' = path /\ faults' = faults /\ found' = found
      /\ s \in Searches /\ s.probes \in Nat /\ s.size \in Nat
      /\ estimate[t] \in Nat /\ net[t] \subseteq Answers
  BY <1>0, SearchTyped DEF PathInv, Arrives
<1>2. PICK m \in net[t] :
        /\ net' = [net EXCEPT ![t] = @ \ {m}]
        /\ estimate' = [estimate EXCEPT ![t] = IF m.kind = "tooBig" THEN Min({@, m.limit}) ELSE @]
        /\ IF s.pc = "await" /\ m.seq = s.probes
             THEN Update(t, [s EXCEPT !.pc = IF m.kind = "echo" THEN Confirms(s.size) ELSE "requery"])
             ELSE UNCHANGED search
  BY <1>0 DEF Arrives
<1>3. /\ net'[t] = net[t] \ {m}
      /\ e = IF m.kind = "tooBig" THEN Min({estimate[t], m.limit}) ELSE estimate[t]
      /\ m.kind \in {"echo", "tooBig"} /\ m.seq \in Nat /\ m.limit \in Nat
  BY <1>0, <1>1, <1>2 DEF PathInv, MTUTypeOK, Answers
<1>4. Attempt(t) /\ Exact6(t)
  BY <1>1 DEF PathInv
<1>5. /\ s.probes <= MaxAttempts /\ estimate[t] <= path[t][1] /\ path[t][1] \in Nat
      /\ \A l \in net[t] : l.seq <= s.probes
  BY <1>0, <1>1, <1>4, PathTyped DEF Attempt, PathInv
<1>6. e \in Nat /\ e <= estimate[t] /\ e <= path[t][1]
  <2>1. Min({estimate[t], m.limit}) \in Nat /\ Min({estimate[t], m.limit}) <= estimate[t]
    BY <1>1, <1>3, LesserIs
  <2> QED BY <1>1, <1>3, <1>5, <2>1
<1>7. s.pc # "idle"
  BY <1>0, <1>2 DEF PathInv, Apart
\* The answer is not the one awaited.
<1>8. CASE ~(s.pc = "await" /\ m.seq = s.probes)
  <2>1. search' = search /\ n = s
    BY <1>0, <1>2, <1>8
  <2>2. Attempt(t)'
    <3>1. net'[t] \subseteq net[t]
      BY <1>3
    <3>2. \A l \in net'[t] : l.seq = s.probes /\ s.pc = "await" =>
                               l = Answer(t, s.probes, Probed(s.size))'
      BY <1>0, <1>1, <1>4, <3>1, SamePath DEF Attempt
    <3>3. s.pc = "await" => Probed(s.size) <= path[t][1]
      BY <1>0, <1>4 DEF Attempt
    <3>4. s.pc = "write" => \A l \in net'[t] : l.seq # s.probes
      BY <1>0, <1>4, <3>1 DEF Attempt
    <3>5. /\ s.pc = "confirmed" => Fits(t, s.size)'
          /\ s.pc = "done" => /\ found[t].status \in {"confirmed", "estimated"}
                              /\ found[t].status = "confirmed" => Fits(t, found[t].size)'
      BY <1>0, <1>1, <1>4, SamePath DEF Attempt
    <3>6. \A l \in net'[t] : l.seq <= s.probes
      BY <1>5, <3>1
    <3> QED BY <1>0, <1>1, <1>5, <1>6, <1>7, <2>1, <3>2, <3>3, <3>4, <3>5, <3>6 DEF Attempt
  <2>3. ASSUME faults[t] = 0, Modest(t)
        PROVE  /\ s.pc \notin {"query", "write", "await", "requery", "estimated"}
               /\ s.pc = "done" => found[t].status = "confirmed"
    <3>1. s.pc \in {"query", "write", "requery"} => net[t] = {}
      BY <1>0, <1>4, <2>3 DEF Exact6
    <3>2. s.pc = "await" => net[t] = {Answer(t, s.probes, Probed(s.size))}
      BY <1>0, <1>4, <2>3 DEF Exact6
    <3>3. s.pc # "await"
      <4>1. Answer(t, s.probes, Probed(s.size)).seq = s.probes
        BY <1>1, ProbedIs, AnswerSays DEF PathInv
      <4> QED BY <1>2, <1>8, <3>2, <4>1
    <3>4. s.pc # "estimated" /\ (s.pc = "done" => found[t].status = "confirmed")
      BY <1>0, <1>4, <2>3 DEF Exact6
    <3> QED BY <1>2, <3>1, <3>3, <3>4
  <2>4. Exact6(t)'
    BY <1>0, <1>1, <2>1, <2>3, SamePath DEF Exact6
  <2> QED BY <2>2, <2>4
\* It is: the size is confirmed, or some hop refused it.
<1>9. CASE s.pc = "await" /\ m.seq = s.probes
  <2> DEFINE p == Probed(s.size)
  <2>0. p \in Nat /\ p <= s.size /\ (s.size <= MaxProbe => p = s.size)
    BY <1>1, ProbedIs
  <2> HIDE DEF p
  <2>1. n = [s EXCEPT !.pc = IF m.kind = "echo" THEN Confirms(s.size) ELSE "requery"]
    BY <1>0, <1>2, <1>9 DEF PathInv, MTUTypeOK, Update
  <2>2. /\ n.pc = IF m.kind = "echo" THEN Confirms(s.size) ELSE "requery"
        /\ n.size = s.size /\ n.probes = s.probes
    BY <1>1, <2>1 DEF Searches
  <2>3. p <= path[t][1] /\ m = Answer(t, s.probes, p)
    BY <1>0, <1>2, <1>4, <1>9 DEF Attempt, p
  <2>4. \A l \in net'[t] : l.seq <= s.probes
    BY <1>3, <1>5
  \* What Exact6 says before the step.
  <2>5. ASSUME faults[t] = 0, Modest(t)
        PROVE  /\ net[t] = {m} /\ s.size = estimate[t] /\ s.size <= MaxProbe
               /\ \E i \in DOMAIN path[t] : Reaches(t, i)
    <3>1. /\ net[t] = {Answer(t, s.probes, p)} /\ s.size = estimate[t]
          /\ \E i \in DOMAIN path[t] : Reaches(t, i)
      BY <1>0, <1>4, <1>9, <2>5 DEF Exact6, p
    <3>2. s.size <= MaxProbe
      BY <2>5, <3>1 DEF Modest, Reaches
    <3> QED BY <2>3, <3>1, <3>2
  <2>6. CASE m.kind = "echo"
    <3>1. n.pc = IF s.size <= MaxProbe THEN "confirmed" ELSE "estimated"
      BY <2>2, <2>6 DEF Confirms
    <3>2. n.pc = "confirmed" => Fits(t, s.size)
      <4>1. Refusing(t, p) = {}
        BY <1>1, <2>0, <2>3, <2>6, AnswerSays DEF PathInv
      <4>2. s.size <= MaxProbe => Fits(t, s.size)
        BY <2>0, <2>3, <4>1 DEF Fits
      <4> QED BY <3>1, <4>2
    <3>3. Attempt(t)'
      BY <1>0, <1>1, <1>5, <1>6, <2>2, <2>4, <3>1, <3>2, SamePath DEF Attempt
    <3>4. Exact6(t)'
      BY <1>0, <1>1, <2>5, <3>1, SamePath DEF Exact6
    <3> QED BY <3>3, <3>4
  <2>7. CASE m.kind # "echo"
    <3>1. n.pc = "requery"
      BY <2>2, <2>7
    <3>2. Attempt(t)'
      BY <1>0, <1>1, <1>5, <1>6, <2>2, <2>4, <3>1 DEF Attempt
    <3>3. /\ m.hop \in DOMAIN path[t] \ {1} /\ m.limit = path[t][m.hop] /\ m.limit < p
          /\ \A j \in 2..(m.hop - 1) : path[t][j] >= p
      BY <1>1, <2>0, <2>3, <2>7, AnswerSays DEF PathInv
    <3>4. e = Min({estimate[t], m.limit})
      BY <1>3, <2>7
    <3>5. Exact6(t)'
      <4>0. SUFFICES ASSUME faults[t] = 0, Modest(t)
                     PROVE  /\ net'[t] = {} /\ e < s.size
                            /\ \E i \in DOMAIN path[t] : Reaches(t, i)'
        BY <1>0, <1>1, <2>2, <3>1, SamePath DEF Exact6
      <4>1. net'[t] = {} /\ s.size = estimate[t] /\ p = s.size
        BY <1>3, <2>0, <2>5, <4>0
      <4>2. e = m.limit /\ e < s.size
        <5>1. m.limit <= estimate[t] /\ m.limit < s.size
          BY <1>1, <1>3, <2>0, <3>3, <4>1
        <5>2. Min({estimate[t], m.limit}) = m.limit
          BY <1>1, <1>3, <5>1, LesserIs
        <5> QED BY <3>4, <5>1, <5>2
      <4>3. PICK i \in DOMAIN path[t] : Reaches(t, i)
        BY <2>5, <4>0
      <4>4. /\ path[t] \in Seq(Nat) /\ DOMAIN path[t] = 1..Len(path[t]) /\ Len(path[t]) \in Nat
        BY PathTyped DEF PathInv
      <4>5. i \in Nat /\ m.hop \in Nat /\ m.hop \in DOMAIN path[t]
        BY <3>3, <4>3, <4>4
      <4>6. \A j \in 1..i : path[t][j] >= p
        BY <4>1, <4>3 DEF Reaches
      <4>7. i < m.hop
        <5>1. m.hop \notin 1..i
          <6> SUFFICES ASSUME m.hop \in 1..i PROVE FALSE
            OBVIOUS
          <6>1. m.limit >= p
            BY <3>3, <4>6
          <6> QED BY <1>3, <2>0, <3>3, <6>1
        <5>2. m.hop >= 1
          BY <4>4, <4>5
        <5> QED BY <4>5, <5>1, <5>2
      <4>8. \A j \in 1..m.hop : path[t][j] >= e
        <5> SUFFICES ASSUME NEW j \in 1..m.hop PROVE path[t][j] >= e
          OBVIOUS
        <5>1. path[t][j] \in Nat
          BY <4>4, <4>5
        <5>2. CASE j = 1
          BY <1>6, <5>2, <1>5
        <5>3. CASE j = m.hop
          BY <1>3, <3>3, <4>2, <5>3
        <5>4. CASE j # 1 /\ j # m.hop
          <6>1. j \in 2..(m.hop - 1)
            BY <4>5, <5>4
          <6>2. path[t][j] >= p
            BY <3>3, <6>1
          <6> QED BY <1>3, <2>0, <3>3, <4>2, <5>1, <6>2
        <5> QED BY <5>2, <5>3, <5>4
      <4>9. Tried(n) < m.hop
        <5>1. Tried(n) = s.probes
          BY <2>2, <3>1 DEF Tried
        <5>2. s.probes - 1 < i
          BY <1>0, <1>9, <4>3 DEF Reaches, Tried
        <5> QED BY <1>1, <4>5, <4>7, <5>1, <5>2
      <4>10. path[t][m.hop] = e
        BY <3>3, <4>2
      <4>11. Reaches(t, m.hop)'
        BY <1>0, <1>1, <4>5, <4>8, <4>9, <4>10 DEF Reaches
      <4> QED BY <4>1, <4>2, <4>5, <4>11
    <3> QED BY <3>2, <3>5
  <2> QED BY <2>6, <2>7
<1> QED BY <1>8, <1>9

\* A fault ends every claim to exactness.
LEMMA FaultCounts ==
  ASSUME PathInv, NEW t \in Destinations, Fault(t)
  PROVE  faults'[t] # 0
<1>1. faults[t] \in Nat /\ faults' = [faults EXCEPT ![t] = @ + 1]
  BY SearchTyped DEF PathInv, Fault
<1> QED BY <1>1 DEF PathInv, MTUTypeOK

LEMMA AwaitTimesOut6 ==
  ASSUME PathInv, NEW t \in Destinations, AwaitTimesOut(t), kind[t] = "v6"
  PROVE  Attempt(t)' /\ Exact6(t)'
<1>0. SUFFICES ASSUME NEW s, s = search[t], NEW n, n = search'[t]
               PROVE  Attempt(t)' /\ Exact6(t)'
  OBVIOUS
<1>1. /\ s.pc = "await" /\ n = [s EXCEPT !.pc = "requery"]
      /\ s \in Searches /\ s.probes \in Nat /\ s.size \in Nat
      /\ asked' = asked /\ path' = path /\ net' = net /\ estimate' = estimate
  BY <1>0, SearchTyped DEF PathInv, MTUTypeOK, AwaitTimesOut, Update
<1>2. n.pc = "requery" /\ n.probes = s.probes
  BY <1>1 DEF Searches
<1>3. Attempt(t) /\ Exact6(t)
  BY DEF PathInv
<1>4. Attempt(t)'
  BY <1>0, <1>1, <1>2, <1>3 DEF Attempt
<1>5. ~(faults'[t] = 0 /\ Modest(t))
  <2>1. CASE \E m \in net[t] : m.seq = search[t].probes
    <3>1. Fault(t)
      BY <2>1 DEF AwaitTimesOut
    <3> QED BY <3>1, FaultCounts
  <2>2. CASE ~(\E m \in net[t] : m.seq = search[t].probes)
    <3>1. faults' = faults
      BY <2>2 DEF AwaitTimesOut
    <3>2. Answer(t, s.probes, Probed(s.size)).seq = s.probes
      BY <1>1, ProbedIs, AnswerSays DEF PathInv
    <3>3. faults[t] = 0 /\ Modest(t) => net[t] = {Answer(t, s.probes, Probed(s.size))}
      BY <1>0, <1>1, <1>3 DEF Exact6
    <3> QED BY <1>0, <2>2, <3>1, <3>2, <3>3
  <2> QED BY <2>1, <2>2
<1>6. Exact6(t)'
  BY <1>1, <1>5, SamePath DEF Exact6
<1> QED BY <1>4, <1>6

LEMMA Requeries6 ==
  ASSUME PathInv, NEW t \in Destinations, Requeries(t), kind[t] = "v6"
  PROVE  Attempt(t)' /\ Exact6(t)'
<1>0. SUFFICES ASSUME NEW s, s = search[t], NEW n, n = search'[t]
               PROVE  Attempt(t)' /\ Exact6(t)'
  OBVIOUS
<1>1. /\ s.pc = "requery"
      /\ n = [s EXCEPT !.pc = IF estimate[t] >= s.size THEN "estimated" ELSE "query",
                       !.size = Min({@, estimate[t]})]
      /\ s \in Searches /\ s.probes \in Nat /\ s.size \in Nat /\ estimate[t] \in Nat
      /\ asked' = asked /\ path' = path /\ net' = net /\ faults' = faults /\ estimate' = estimate
  BY <1>0, SearchTyped DEF PathInv, MTUTypeOK, Requeries, Update
<1>2. n.pc = (IF estimate[t] >= s.size THEN "estimated" ELSE "query") /\ n.probes = s.probes
  BY <1>1 DEF Searches
<1>3. Attempt(t) /\ Exact6(t)
  BY DEF PathInv
<1>4. Attempt(t)'
  BY <1>0, <1>1, <1>2, <1>3 DEF Attempt
<1>5. Exact6(t)'
  <2> SUFFICES ASSUME faults[t] = 0, Modest(t)
               PROVE  n.pc = "query" /\ net[t] = {} /\ \E i \in DOMAIN path[t] : Reaches(t, i)'
    BY <1>0, <1>1, SamePath DEF Exact6
  <2>1. /\ net[t] = {} /\ estimate[t] < s.size
        /\ \E i \in DOMAIN path[t] : Reaches(t, i)
    BY <1>0, <1>1, <1>3 DEF Exact6
  <2>2. n.pc = "query"
    BY <1>1, <1>2, <2>1
  <2>3. PICK i \in DOMAIN path[t] : Reaches(t, i)
    BY <2>1
  <2>4. Tried(n) = Tried(s)
    BY <1>1, <1>2, <2>2 DEF Tried
  <2>5. Reaches(t, i)'
    BY <1>0, <1>1, <2>3, <2>4 DEF Reaches
  <2> QED BY <2>1, <2>2, <2>5
<1> QED BY <1>4, <1>5

LEMMA Fails6Keeps ==
  ASSUME PathInv, NEW t \in Destinations, Fails6(t)
  PROVE  Attempt(t)' /\ Exact6(t)'
<1>0. SUFFICES ASSUME NEW s, s = search[t], NEW n, n = search'[t]
               PROVE  Attempt(t)' /\ Exact6(t)'
  OBVIOUS
<1>1. /\ kind[t] = "v6" /\ n = [s EXCEPT !.pc = IF s.size = 0 THEN "failed" ELSE "estimated"]
      /\ s \in Searches
      /\ asked' = asked /\ path' = path /\ net' = net /\ estimate' = estimate /\ Fault(t)
  BY <1>0, SearchTyped DEF PathInv, MTUTypeOK, Fails6, Update
<1>2. n.pc \in {"failed", "estimated"} /\ n.probes = s.probes
  BY <1>1 DEF Searches
<1>3. Attempt(t)
  BY <1>1 DEF PathInv
<1>4. Attempt(t)'
  BY <1>0, <1>1, <1>2, <1>3 DEF Attempt
<1>5. Exact6(t)'
  BY <1>1, FaultCounts DEF Exact6
<1> QED BY <1>4, <1>5

LEMMA Stores6 ==
  ASSUME PathInv, NEW t \in Destinations, Stores(t), kind[t] = "v6"
  PROVE  Attempt(t)' /\ Exact6(t)'
<1>0. SUFFICES ASSUME NEW s, s = search[t], NEW n, n = search'[t], NEW f, f = found'[t]
               PROVE  Attempt(t)' /\ Exact6(t)'
  OBVIOUS
<1>1. /\ s.pc \in {"confirmed", "estimated"} /\ n = [s EXCEPT !.pc = "done"]
      /\ f = [status |-> s.pc, size |-> s.size, hop |-> NoHop]
      /\ s \in Searches
      /\ asked' = asked /\ path' = path /\ net' = net /\ faults' = faults /\ estimate' = estimate
  BY <1>0, SearchTyped DEF PathInv, MTUTypeOK, Stores, Update
<1>2. n.pc = "done" /\ n.probes = s.probes
  BY <1>1 DEF Searches
<1>3. f.status = s.pc /\ f.size = s.size
  BY <1>1
<1>4. Attempt(t) /\ Exact6(t)
  BY DEF PathInv
<1>5. s.pc = "confirmed" => Fits(t, s.size)
  BY <1>0, <1>4 DEF Attempt
<1>6. Attempt(t)'
  BY <1>0, <1>1, <1>2, <1>3, <1>4, <1>5, SamePath DEF Attempt
<1>7. faults[t] = 0 /\ Modest(t) => s.pc = "confirmed"
  BY <1>0, <1>1, <1>4 DEF Exact6
<1>8. Exact6(t)'
  BY <1>0, <1>1, <1>2, <1>3, <1>7, SamePath DEF Exact6
<1> QED BY <1>6, <1>8

LEMMA Loses6 ==
  ASSUME PathInv, NEW t \in Destinations, Loses(t), kind[t] = "v6"
  PROVE  Attempt(t)' /\ Exact6(t)'
<1>1. /\ search' = search /\ asked' = asked /\ path' = path /\ found' = found /\ estimate' = estimate /\ Fault(t)
      /\ \E m \in net[t] : net' = [net EXCEPT ![t] = @ \ {m}]
  BY DEF Loses
<1>2. net'[t] \subseteq net[t]
  BY <1>1 DEF PathInv, MTUTypeOK
<1>3. Attempt(t)
  BY DEF PathInv
<1>4. Attempt(t)'
  BY <1>1, <1>2, <1>3, SamePath DEF Attempt
<1>5. Exact6(t)'
  BY <1>1, FaultCounts DEF Exact6
<1> QED BY <1>4, <1>5

-----------------------------------------------------------------------------
(* Types.                                                                  *)

LEMMA ProbedAgain ==
  ASSUME NEW s \in Searches, NEW p \in Places, NEW size \in Nat,
         NEW probes \in 0..Max({StartSize, MaxAttempts})
  PROVE  /\ [s EXCEPT !.pc = p] \in Searches
         /\ [s EXCEPT !.pc = p, !.size = size] \in Searches
         /\ [s EXCEPT !.pc = p, !.size = size, !.probes = probes] \in Searches
BY DEF Searches

LEMMA IdleTyped ==
  /\ 0 \in 0..Max({StartSize, MaxAttempts})
  /\ Idle \in Searches
<1>1. 0 \in 0..Max({StartSize, MaxAttempts})
  BY MostProbes
<1> QED BY <1>1 DEF Idle, Searches, Places, NoHop

\* The steps change the discovery of one target, each in its own way.
LEMMA SearchStep ==
  ASSUME PathInv, NEW t \in Destinations, NEW r \in Searches, Update(t, r)
  PROVE  search' \in [Destinations -> Searches]
BY DEF PathInv, MTUTypeOK, Update

LEMMA VerdictTyped ==
  ASSUME PathInv, NEW t \in Destinations, NEW ok \in BOOLEAN, NEW hop \in Nat, Verdict(t, ok, hop),
         kind[t] = "v4", search[t].pc \in {"first", "waitFirst", "probe", "wait"},
         search[t].pc = "first" => ~ok
  PROVE  search' \in [Destinations -> Searches]
<1>0. SUFFICES ASSUME NEW s, s = search[t], NEW n, n = search'[t]
               PROVE  search' \in [Destinations -> Searches]
  OBVIOUS
<1>1. CASE s.pc \in {"first", "waitFirst"}
  BY <1>0, <1>1, BaselineIs
<1>2. CASE s.pc \in {"probe", "wait"}
  BY <1>0, <1>2, VerdictIs
<1> QED BY <1>0, <1>1, <1>2

\* Only an IPv4 target is searched, and only an IPv6 target is asked about.
LEMMA KindOf ==
  ASSUME PathInv, NEW t \in Destinations
  PROVE  /\ search[t].pc \in {"first", "waitFirst", "next", "probe", "wait"} => kind[t] = "v4"
         /\ search[t].pc \in {"query", "write", "await", "requery", "confirmed", "estimated"} =>
              kind[t] = "v6"
<1>1. kind[t] \in {"v4", "v6", "unresolved"}
  BY DEF PathInv, MTUTypeOK
<1> QED BY <1>1 DEF PathInv, Apart

LEMMA SearchStaysTyped ==
  ASSUME PathInv, NEW t \in Destinations, TargetNext(t)
  PROVE  search' \in [Destinations -> Searches]
<1>0. SUFFICES ASSUME NEW s, s = search[t]
               PROVE  search' \in [Destinations -> Searches]
  OBVIOUS
<1>1. /\ s \in Searches /\ s.low \in Nat /\ s.high \in Nat /\ s.size \in Nat /\ s.probes \in Nat
      /\ estimate[t] \in Nat /\ net[t] \subseteq Answers /\ search \in [Destinations -> Searches]
  BY <1>0, SearchTyped DEF PathInv, MTUTypeOK
<1>2. \A p \in Places : [s EXCEPT !.pc = p] \in Searches
  <2>1. s.probes \in 0..Max({StartSize, MaxAttempts})
    BY <1>1 DEF Searches
  <2> QED BY <1>1, <2>1, ProbedAgain
<1>3. CASE Resolves(t)
  <2>1. [Idle EXCEPT !.pc = "failed"] \in Searches
    BY IdleTyped DEF Searches, Places
  <2>2. [Idle EXCEPT !.pc = "first", !.low = Lowest, !.high = StartSize, !.size = Lowest] \in Searches
    BY <1>1, IdleTyped, SearchTyped DEF PathInv, Idle, Searches, Places, NoHop
  <2>3. CASE kind[t] = "unresolved"
    BY <1>3, <2>1, <2>3, SearchStep DEF Resolves
  <2>4. CASE kind[t] # "unresolved"
    BY <1>3, <2>2, <2>4, SearchStep DEF Resolves
  <2> QED BY <2>3, <2>4
<1>4. CASE PicksSize(t)
  <2>1. s.pc = "next" /\ s.low < s.high /\ kind[t] = "v4"
    BY <1>0, <1>4, KindOf DEF PicksSize
  <2>2. s.probes + (s.high - s.low) <= StartSize - Lowest /\ Lowest \in Nat /\ StartSize \in Nat
    BY <1>0, <2>1, LowestIs, PathMTUAssumption DEF PathInv, Search4, Interval, Rounds
  <2>3. s.probes + 1 \in 0..Max({StartSize, MaxAttempts})
    BY <1>1, <2>1, <2>2, MostProbes
  <2>4. Middle(s) \in Nat
    BY <1>1 DEF Middle
  <2>5. [s EXCEPT !.pc = "probe", !.size = Middle(s), !.probes = s.probes + 1] \in Searches
    BY <1>1, <2>3, <2>4, ProbedAgain DEF Places
  <2>6. Update(t, [s EXCEPT !.pc = "probe", !.size = Middle(s), !.probes = s.probes + 1])
    BY <1>0, <1>4 DEF PicksSize
  <2> QED BY <2>5, <2>6, SearchStep
<1>5. CASE Found(t) \/ Expires(t) \/ Stores(t)
  <2>1. PICK p \in Places : Update(t, [s EXCEPT !.pc = p])
    BY <1>0, <1>5 DEF Found, Expires, Stores, Places
  <2> QED BY <1>2, <2>1, SearchStep
<1>6. CASE SendsPayload(t)
  <2>1. CASE s.size > path[t][1]
    <3>1. /\ Verdict(t, FALSE, NoHop) /\ kind[t] = "v4"
          /\ search[t].pc \in {"first", "waitFirst", "probe", "wait"}
      BY <1>0, <1>6, <2>1, KindOf DEF SendsPayload
    <3>2. NoHop \in Nat
      BY DEF NoHop
    <3> QED BY <3>1, <3>2, VerdictTyped
  <2>2. CASE ~(s.size > path[t][1])
    <3>1. PICK p \in Places : Update(t, [s EXCEPT !.pc = p])
      BY <1>0, <1>6, <2>2 DEF SendsPayload, Places
    <3> QED BY <1>2, <3>1, SearchStep
  <2> QED BY <2>1, <2>2
<1>7. CASE ReadsReply(t)
  <2>1. PICK m \in net[t] : Verdict(t, m.kind = "echo", m.hop)
    BY <1>7 DEF ReadsReply
  <2>2. m.hop \in Nat /\ search[t].pc \in {"waitFirst", "wait"} /\ kind[t] = "v4"
    BY <1>1, <1>7, <2>1, KindOf DEF ReadsReply, Answers
  <2>3. CASE m.kind = "echo"
    <3>1. Verdict(t, TRUE, m.hop)
      BY <2>1, <2>3
    <3> QED BY <2>2, <3>1, VerdictTyped
  <2>4. CASE m.kind # "echo"
    <3>1. Verdict(t, FALSE, m.hop)
      BY <2>1, <2>4
    <3> QED BY <2>2, <3>1, VerdictTyped
  <2> QED BY <2>3, <2>4
<1>8. CASE ReadTimesOut(t)
  <2>1. /\ Verdict(t, FALSE, NoHop) /\ kind[t] = "v4"
        /\ search[t].pc \in {"first", "waitFirst", "probe", "wait"}
    BY <1>8, KindOf DEF ReadTimesOut
  <2>2. NoHop \in Nat
    BY DEF NoHop
  <2> QED BY <2>1, <2>2, VerdictTyped
<1>9. CASE Begins(t)
  <2>1. [Idle EXCEPT !.pc = "query"] \in Searches
    BY IdleTyped DEF Searches, Places
  <2> QED BY <1>9, <2>1, SearchStep DEF Begins
<1>10. CASE Queries(t)
  <2>1. CASE s.probes = MaxAttempts
    <3>1. Update(t, [s EXCEPT !.pc = "estimated"])
      BY <1>0, <1>10, <2>1 DEF Queries
    <3>2. "estimated" \in Places
      BY DEF Places
    <3> QED BY <1>2, <3>1, <3>2, SearchStep
  <2>2. CASE s.probes # MaxAttempts
    <3>1. Update(t, [s EXCEPT !.pc = "write", !.size = estimate[t], !.probes = s.probes + 1])
      BY <1>0, <1>10, <2>2 DEF Queries
    <3>2. kind[t] = "v6"
      BY <1>10, KindOf DEF Queries
    <3>3. s.probes <= MaxAttempts /\ MaxAttempts \in Nat
      BY <1>0, <3>2, PathMTUAssumption DEF PathInv, Attempt
    <3>4. s.probes + 1 \in 0..Max({StartSize, MaxAttempts})
      BY <1>1, <2>2, <3>3, MostProbes
    <3>5. [s EXCEPT !.pc = "write", !.size = estimate[t], !.probes = s.probes + 1] \in Searches
      BY <1>1, <3>4, ProbedAgain DEF Places
    <3> QED BY <3>1, <3>5, SearchStep
  <2> QED BY <2>1, <2>2
<1>11. CASE Writes(t) \/ AwaitTimesOut(t) \/ Fails6(t)
  <2>1. PICK p \in Places : Update(t, [s EXCEPT !.pc = p])
    BY <1>0, <1>11 DEF Writes, AwaitTimesOut, Fails6, Places
  <2> QED BY <1>2, <2>1, SearchStep
<1>12. CASE Arrives(t)
  <2>1. search' = search \/ \E p \in Places : Update(t, [s EXCEPT !.pc = p])
    BY <1>0, <1>12 DEF Arrives, Places, Confirms
  <2> QED BY <1>1, <1>2, <2>1, SearchStep
<1>13. CASE Requeries(t)
  <2> DEFINE p == IF estimate[t] >= s.size THEN "estimated" ELSE "query"
             size == Min({s.size, estimate[t]})
  <2>1. Update(t, [s EXCEPT !.pc = p, !.size = size])
    BY <1>0, <1>13 DEF Requeries
  <2>2. size \in Nat
    BY <1>1, LesserIs
  <2>3. p \in Places
    BY DEF Places
  <2>4. s.probes \in 0..Max({StartSize, MaxAttempts})
    BY <1>1 DEF Searches
  <2> HIDE DEF p, size
  <2>5. [s EXCEPT !.pc = p, !.size = size] \in Searches
    BY <1>1, <2>2, <2>3, <2>4, ProbedAgain
  <2> QED BY <2>1, <2>5, SearchStep
<1>14. CASE Loses(t)
  BY <1>1, <1>14 DEF Loses
<1> QED BY <1>3, <1>4, <1>5, <1>6, <1>7, <1>8, <1>9, <1>10, <1>11, <1>12, <1>13, <1>14 DEF TargetNext

\* Nothing else gets a value that the code could not have.
LEMMA OthersStayTyped ==
  ASSUME PathInv, NEW t \in Destinations, TargetNext(t)
  PROVE  /\ net' \in [Destinations -> SUBSET Answers]
         /\ estimate' \in [Destinations -> Nat]
         /\ faults' \in [Destinations -> 0..MaxFaults]
         /\ found' \in [Destinations -> [status: {"none", "probed", "confirmed", "estimated"},
                                         size: Nat, hop: Nat]]
<1>0. SUFFICES ASSUME NEW s, s = search[t]
               PROVE  /\ net' \in [Destinations -> SUBSET Answers]
                      /\ estimate' \in [Destinations -> Nat]
                      /\ faults' \in [Destinations -> 0..MaxFaults]
                      /\ found' \in [Destinations -> [status: {"none", "probed", "confirmed", "estimated"},
                                                      size: Nat, hop: Nat]]
  OBVIOUS
<1>1. /\ s \in Searches /\ s.low \in Nat /\ s.size \in Nat /\ s.hop \in Nat /\ s.probes \in Nat
      /\ net \in [Destinations -> SUBSET Answers] /\ estimate \in [Destinations -> Nat]
      /\ faults \in [Destinations -> 0..MaxFaults] /\ MaxFaults \in Nat
      /\ found \in [Destinations -> [status: {"none", "probed", "confirmed", "estimated"},
                                    size: Nat, hop: Nat]]
  BY <1>0, SearchTyped, PathMTUAssumption DEF PathInv, MTUTypeOK
<1>2. Fault(t) => faults' \in [Destinations -> 0..MaxFaults]
  <2> SUFFICES ASSUME Fault(t) PROVE faults' \in [Destinations -> 0..MaxFaults]
    OBVIOUS
  <2>1. faults[t] \in 0..MaxFaults /\ faults[t] < MaxFaults
    BY <1>1 DEF Fault
  <2>2. faults[t] + 1 \in 0..MaxFaults
    BY <1>1, <2>1
  <2> QED BY <1>1, <2>2 DEF Fault
<1>3. \A m \in net[t] : [net EXCEPT ![t] = @ \ {m}] \in [Destinations -> SUBSET Answers]
  BY <1>1
<1>4. \A m \in Answers : [net EXCEPT ![t] = @ \cup {m}] \in [Destinations -> SUBSET Answers]
  BY <1>1
<1>5. CASE Resolves(t) \/ PicksSize(t) \/ Begins(t) \/ Queries(t) \/ Requeries(t)
  BY <1>1, <1>5 DEF Resolves, PicksSize, Begins, Queries, Requeries
<1>6. CASE Found(t)
  <2>1. [status |-> "probed", size |-> s.low, hop |-> s.hop]
          \in [status: {"none", "probed", "confirmed", "estimated"}, size: Nat, hop: Nat]
    BY <1>1
  <2> QED BY <1>0, <1>1, <1>6, <2>1 DEF Found
<1>7. CASE SendsPayload(t)
  <2>1. Answer(t, 0, s.size) \in Answers
    BY <1>1, AnswerSays DEF PathInv
  <2>2. net' = net \/ net' = [net EXCEPT ![t] = @ \cup {Answer(t, 0, s.size)}]
    BY <1>0, <1>7 DEF SendsPayload
  <2>3. net' \in [Destinations -> SUBSET Answers]
    BY <1>1, <1>4, <2>1, <2>2
  <2> QED BY <1>1, <1>7, <2>3 DEF SendsPayload
<1>8. CASE ReadsReply(t)
  <2>1. net' \in [Destinations -> SUBSET Answers]
    BY <1>3, <1>8 DEF ReadsReply
  <2> QED BY <1>1, <1>8, <2>1 DEF ReadsReply
<1>9. CASE ReadTimesOut(t) \/ AwaitTimesOut(t) \/ Expires(t) \/ Fails6(t)
  <2>1. faults' = faults \/ Fault(t)
    BY <1>9 DEF ReadTimesOut, AwaitTimesOut, Expires, Fails6
  <2> QED BY <1>1, <1>2, <1>9, <2>1 DEF ReadTimesOut, AwaitTimesOut, Expires, Fails6
<1>10. CASE Writes(t)
  <2> DEFINE a == Answer(t, s.probes, Probed(s.size))
  <2>1. a \in Answers
    BY <1>1, ProbedIs, AnswerSays DEF PathInv
  <2>2. net' = net \/ net' = [net EXCEPT ![t] = @ \cup {a}]
    BY <1>0, <1>10 DEF Writes
  <2> HIDE DEF a
  <2>3. net' \in [Destinations -> SUBSET Answers]
    BY <1>1, <1>4, <2>1, <2>2
  <2> QED BY <1>1, <1>10, <2>3 DEF Writes
<1>11. CASE Arrives(t)
  <2>1. PICK m \in net[t] :
          /\ net' = [net EXCEPT ![t] = @ \ {m}]
          /\ estimate' = [estimate EXCEPT ![t] = IF m.kind = "tooBig" THEN Min({@, m.limit}) ELSE @]
    BY <1>11 DEF Arrives
  <2>2. m.limit \in Nat /\ estimate[t] \in Nat
    BY <1>1, <2>1 DEF Answers
  <2>3. Min({estimate[t], m.limit}) \in Nat
    BY <2>2, LesserIs
  <2>4. estimate' \in [Destinations -> Nat]
    BY <1>1, <2>1, <2>2, <2>3
  <2>5. net' \in [Destinations -> SUBSET Answers]
    BY <1>3, <2>1
  <2> QED BY <1>1, <1>11, <2>4, <2>5 DEF Arrives
<1>12. CASE Stores(t)
  <2>1. [status |-> s.pc, size |-> s.size, hop |-> NoHop]
          \in [status: {"none", "probed", "confirmed", "estimated"}, size: Nat, hop: Nat]
    BY <1>0, <1>1, <1>12 DEF Stores, NoHop
  <2> QED BY <1>0, <1>1, <1>12, <2>1 DEF Stores
<1>13. CASE Loses(t)
  <2>1. net' \in [Destinations -> SUBSET Answers]
    BY <1>3, <1>13 DEF Loses
  <2>2. Fault(t)
    BY <1>13 DEF Loses
  <2> QED BY <1>1, <1>2, <1>13, <2>1, <2>2 DEF Loses
<1> QED BY <1>5, <1>6, <1>7, <1>8, <1>9, <1>10, <1>11, <1>12, <1>13 DEF TargetNext

LEMMA TypesStay ==
  ASSUME PathInv, NEW t \in Destinations, TargetNext(t)
  PROVE  MTUTypeOK'
<1>1. UNCHANGED <<asked, path, kind, phase, packetSize>>
  BY Elsewhere DEF PathInv
<1>2. MTUTypeOK
  BY DEF PathInv
<1> QED BY <1>1, <1>2, SearchStaysTyped, OthersStayTyped DEF MTUTypeOK

\* How the places follow each other, and that only an answer is stored.
LEMMA ApartStays ==
  ASSUME PathInv, NEW t \in Destinations, TargetNext(t)
  PROVE  Apart'
<1>0. SUFFICES ASSUME NEW s, s = search[t], NEW n, n = search'[t], NEW p, p = n.pc
               PROVE  Apart'
  OBVIOUS
<1>1. /\ s \in Searches /\ search \in [Destinations -> Searches] /\ n \in Searches
      /\ net \in [Destinations -> SUBSET Answers]
      /\ found \in [Destinations -> [status: {"none", "probed", "confirmed", "estimated"},
                                    size: Nat, hop: Nat]]
      /\ kind[t] \in {"v4", "v6", "unresolved"}
  BY <1>0, SearchStaysTyped DEF PathInv, MTUTypeOK
<1>2. /\ UNCHANGED <<asked, path, kind, phase, packetSize>>
      /\ \A u \in Destinations : u # t => Same(u)
  BY Elsewhere DEF PathInv
<1>3. /\ kind[t] = "v4" => s.pc \in {"idle", "done", "failed", "first", "waitFirst",
                                     "next", "probe", "wait"}
      /\ kind[t] = "v6" => s.pc \in {"idle", "done", "failed", "query", "write", "await",
                                     "requery", "confirmed", "estimated"}
      /\ kind[t] = "unresolved" => s.pc \in {"idle", "failed"}
      /\ phase = "initial" /\ kind[t] = "v6" => s.pc = "idle"
      /\ phase # "initial" /\ kind[t] # "v6" => s.pc \in {"done", "failed"}
      /\ s.pc = "idle" => net[t] = {}
      /\ s.pc # "done" => found[t] = Nothing
  BY <1>0 DEF PathInv, Apart
\* Where the target goes.
<1>4. /\ kind[t] = "v4" => p \in {"idle", "done", "failed", "first", "waitFirst",
                                  "next", "probe", "wait"}
      /\ kind[t] = "v6" => p \in {"idle", "done", "failed", "query", "write", "await",
                                  "requery", "confirmed", "estimated"}
      /\ kind[t] = "unresolved" => p \in {"idle", "failed"}
      /\ phase = "initial" /\ kind[t] = "v6" => p = "idle"
      /\ phase # "initial" /\ kind[t] # "v6" => p \in {"done", "failed"}
      /\ p = "idle" => s.pc = "idle"
      /\ s.pc = "done" => p = "done"
  <2>1. CASE Resolves(t)
    <3>1. n.pc \in {"first", "failed"} /\ (kind[t] = "unresolved" => n.pc = "failed")
      BY <1>0, <1>1, <2>1 DEF Resolves, Update, Idle
    <3> QED BY <1>0, <1>1, <1>3, <2>1, <3>1 DEF Resolves, Claims
  <2>2. CASE PicksSize(t) \/ Found(t) \/ Expires(t)
    <3>1. s.pc \in {"first", "probe", "next"}
      BY <1>0, <2>2 DEF PicksSize, Found, Expires
    <3>2. CASE PicksSize(t)
      <4>1. n = [s EXCEPT !.pc = "probe", !.size = Middle(s), !.probes = @ + 1]
        BY <1>0, <1>1, <3>2 DEF PicksSize, Update
      <4>2. n.pc = "probe"
        BY <1>1, <4>1 DEF Searches
      <4> QED BY <1>0, <1>3, <3>1, <3>2, <4>2 DEF PicksSize
    <3>3. CASE Found(t) \/ Expires(t)
      <4>1. n = [s EXCEPT !.pc = "done"] \/ n = [s EXCEPT !.pc = "failed"]
        BY <1>0, <1>1, <3>3 DEF Found, Expires, Update
      <4>2. n.pc \in {"done", "failed"}
        BY <1>1, <4>1 DEF Searches
      <4> QED BY <1>0, <1>1, <1>3, <3>1, <4>2
    <3> QED BY <2>2, <3>2, <3>3
  <2>3. CASE SendsPayload(t) \/ ReadsReply(t) \/ ReadTimesOut(t)
    <3>1. s.pc \in {"first", "probe", "waitFirst", "wait"}
      BY <1>0, <2>3 DEF SendsPayload, ReadsReply, ReadTimesOut
    <3>2. \/ \E ok \in BOOLEAN, hop \in Nat : Verdict(t, ok, hop)
          \/ n = [s EXCEPT !.pc = IF s.pc = "first" THEN "waitFirst" ELSE "wait"]
      <4>1. CASE SendsPayload(t) \/ ReadTimesOut(t)
        <5>1. Verdict(t, FALSE, NoHop) \/ Update(t, [s EXCEPT !.pc = IF s.pc = "first" THEN "waitFirst" ELSE "wait"])
          BY <1>0, <4>1 DEF SendsPayload, ReadTimesOut
        <5>2. NoHop \in Nat
          BY DEF NoHop
        <5> QED BY <1>0, <1>1, <5>1, <5>2 DEF Update
      <4>2. CASE ReadsReply(t)
        <5>1. PICK m \in net[t] : Verdict(t, m.kind = "echo", m.hop)
          BY <4>2 DEF ReadsReply
        <5>2. m.hop \in Nat
          BY <1>1, <5>1 DEF Answers
        <5>3. Verdict(t, TRUE, m.hop) \/ Verdict(t, FALSE, m.hop)
          BY <5>1
        <5> QED BY <5>2, <5>3
      <4> QED BY <2>3, <4>1, <4>2
    <3>3. n.pc \in {"next", "failed", "waitFirst", "wait"}
      <4>1. ASSUME NEW ok \in BOOLEAN, NEW hop \in Nat, Verdict(t, ok, hop)
            PROVE  n.pc \in {"next", "failed"}
        <5>1. n = [s EXCEPT !.pc = "failed"] \/ n = Halved(s, ok, hop)
          BY <1>0, <1>1, <4>1 DEF Verdict, Update
        <5>2. [s EXCEPT !.pc = "failed"].pc = "failed"
          BY <1>1 DEF Searches
        <5>3. Halved(s, ok, hop).pc = "next"
          <6>1. ASSUME NEW r, r = s \/ r = [s EXCEPT !.low = s.size]
                              \/ r = [s EXCEPT !.high = s.size - 1, !.hop = IF hop = NoHop THEN @ ELSE hop]
                PROVE  [r EXCEPT !.pc = "next", !.size = 0].pc = "next"
            BY <1>1, <6>1 DEF Searches
          <6> QED BY <6>1 DEF Halved
        <5> QED BY <5>1, <5>2, <5>3
      <4>2. ASSUME n = [s EXCEPT !.pc = IF s.pc = "first" THEN "waitFirst" ELSE "wait"]
            PROVE  n.pc \in {"waitFirst", "wait"}
        BY <1>1, <4>2 DEF Searches
      <4> QED BY <3>2, <4>1, <4>2
    <3>4. kind[t] = "v4" /\ phase = "initial"
      BY <1>0, <1>1, <1>3, <3>1
    <3> QED BY <1>0, <3>1, <3>3, <3>4
  <2>4. CASE Begins(t)
    <3>1. n.pc = "query" /\ s.pc = "idle" /\ phase = "pinging"
      BY <1>0, <1>1, <2>4 DEF Begins, Claims, Update, Idle
    <3> QED BY <1>0, <1>1, <1>3, <3>1
  <2>5. CASE Queries(t) \/ Writes(t) \/ AwaitTimesOut(t) \/ Requeries(t) \/ Fails6(t) \/ Stores(t)
    <3>1. s.pc \in {"query", "write", "await", "requery", "confirmed", "estimated"}
      BY <1>0, <2>5 DEF Queries, Writes, AwaitTimesOut, Requeries, Fails6, Stores
    <3>2. "pc" \in DOMAIN s
      BY <1>1 DEF Searches
    <3>3. n.pc \in {"write", "estimated", "requery", "await", "query", "failed", "done"}
      <4>1. CASE Queries(t)
        <5>1. \/ n = [s EXCEPT !.pc = "estimated"]
              \/ n = [s EXCEPT !.pc = "write", !.size = estimate[t], !.probes = s.probes + 1]
          BY <1>0, <1>1, <4>1 DEF Queries, Update
        <5> QED BY <3>2, <5>1
      <4>2. CASE Requeries(t)
        <5>1. n = [s EXCEPT !.pc = IF estimate[t] >= s.size THEN "estimated" ELSE "query",
                            !.size = Min({s.size, estimate[t]})]
          BY <1>0, <1>1, <4>2 DEF Requeries, Update
        <5> QED BY <3>2, <5>1
      <4>3. CASE Writes(t) \/ AwaitTimesOut(t)
        <5>1. n = [s EXCEPT !.pc = "requery"] \/ n = [s EXCEPT !.pc = "await"]
          BY <1>0, <1>1, <4>3 DEF Writes, AwaitTimesOut, Update
        <5> QED BY <3>2, <5>1
      <4>4. CASE Fails6(t) \/ Stores(t)
        <5>1. \/ n = [s EXCEPT !.pc = "failed"] \/ n = [s EXCEPT !.pc = "estimated"]
              \/ n = [s EXCEPT !.pc = "done"]
          BY <1>0, <1>1, <4>4 DEF Fails6, Stores, Update
        <5> QED BY <3>2, <5>1
      <4> QED BY <2>5, <4>1, <4>2, <4>3, <4>4
    <3> QED BY <1>0, <1>1, <1>3, <3>1, <3>3
  <2>6. CASE Arrives(t)
    <3>1. \/ n = s
          \/ n.pc \in {"confirmed", "estimated", "requery"} /\ s.pc = "await"
      BY <1>0, <1>1, <2>6 DEF Arrives, Confirms, Update, Searches
    <3> QED BY <1>0, <1>1, <1>3, <3>1
  <2>7. CASE Loses(t)
    BY <1>0, <1>3, <2>7 DEF Loses
  <2> QED BY <2>1, <2>2, <2>3, <2>4, <2>5, <2>6, <2>7 DEF TargetNext
<1>5. p = "idle" => net'[t] = {}
  <2>1. ASSUME s.pc = "idle", p = "idle"
        PROVE  net'[t] = net[t]
    <3>1. net[t] = {}
      BY <1>3, <2>1
    <3>2. Resolves(t) \/ Begins(t) => FALSE
      BY <1>0, <1>1, <2>1 DEF Resolves, Begins, Update, Idle
    <3>3. ~Arrives(t) /\ ~Loses(t)
      BY <3>1 DEF Arrives, Loses
    <3> QED BY <1>0, <1>3, <2>1, <3>2, <3>3
            DEF TargetNext, PicksSize, Found, SendsPayload, ReadsReply, ReadTimesOut, Expires,
                Queries, Writes, AwaitTimesOut, Requeries, Fails6, Stores
  <2> QED BY <1>3, <1>4, <2>1
<1>6. p # "done" => found'[t] = Nothing
  <2>1. CASE Found(t) \/ Stores(t)
    BY <1>0, <1>1, <2>1 DEF Found, Stores, Update, Searches
  <2>2. CASE ~(Found(t) \/ Stores(t))
    <3>1. found' = found
      BY <2>2 DEF TargetNext, Resolves, PicksSize, SendsPayload, ReadsReply, ReadTimesOut, Expires,
                  Begins, Queries, Writes, Arrives, AwaitTimesOut, Requeries, Fails6, Loses
    <3> QED BY <1>3, <1>4, <3>1
  <2> QED BY <2>1, <2>2
<1>7. Apart
  BY DEF PathInv
<1>8. ASSUME NEW u \in Destinations
      PROVE  /\ kind'[u] = "v4" => search'[u].pc \in {"idle", "done", "failed", "first", "waitFirst",
                                                     "next", "probe", "wait"}
             /\ kind'[u] = "v6" => search'[u].pc \in {"idle", "done", "failed", "query", "write", "await",
                                                     "requery", "confirmed", "estimated"}
             /\ kind'[u] = "unresolved" => search'[u].pc \in {"idle", "failed"}
             /\ phase' = "initial" /\ kind'[u] = "v6" => search'[u].pc = "idle"
             /\ phase' # "initial" /\ kind'[u] # "v6" => search'[u].pc \in {"done", "failed"}
             /\ search'[u].pc = "idle" => net'[u] = {}
             /\ search'[u].pc # "done" => found'[u] = Nothing
  <2>1. CASE u = t
    BY <1>0, <1>2, <1>4, <1>5, <1>6, <2>1
  <2>2. CASE u # t
    BY <1>2, <1>7, <2>2 DEF Same, Apart
  <2> QED BY <2>1, <2>2
<1> QED BY <1>8 DEF Apart

-----------------------------------------------------------------------------
(* The whole invariant.                                                    *)

LEMMA TargetStep4 ==
  ASSUME PathInv, NEW t \in Destinations, TargetNext(t), kind[t] = "v4"
  PROVE  Search4(t)'
<1>1. search[t].pc \notin {"query", "write", "await", "requery", "confirmed", "estimated"}
  BY DEF PathInv, Apart
<1>2. phase # "initial" => search[t].pc # "idle"
  BY DEF PathInv, Apart
<1>3. ~(Begins(t) \/ Queries(t) \/ Writes(t) \/ Arrives(t) \/ AwaitTimesOut(t) \/ Requeries(t)
        \/ Fails6(t) \/ Stores(t))
  BY <1>1, <1>2 DEF Begins, Claims, Queries, Writes, Arrives, AwaitTimesOut, Requeries, Fails6, Stores
<1> QED BY <1>3, Resolves4, PicksSize4, Found4, SendsPayload4, ReadsReply4, ReadTimesOut4, Expires4,
           Loses4 DEF TargetNext

LEMMA TargetStep6 ==
  ASSUME PathInv, NEW t \in Destinations, TargetNext(t), kind[t] = "v6"
  PROVE  Attempt(t)' /\ Exact6(t)'
<1>1. search[t].pc \notin {"first", "waitFirst", "next", "probe", "wait"}
  BY DEF PathInv, Apart
<1>2. ~(Resolves(t) \/ PicksSize(t) \/ Found(t) \/ SendsPayload(t) \/ ReadsReply(t) \/ ReadTimesOut(t)
        \/ Expires(t))
  BY <1>1 DEF Resolves, PicksSize, Found, SendsPayload, ReadsReply, ReadTimesOut, Expires
<1> QED BY <1>2, Begins6, Queries6, Writes6, Arrives6, AwaitTimesOut6, Requeries6, Fails6Keeps, Stores6,
           Loses6 DEF TargetNext

\* Once the size of the session is chosen, no IPv4 search is under way.
LEMMA ChosenStays ==
  ASSUME PathInv, NEW t \in Destinations, TargetNext(t)
  PROVE  Chosen'
<1>1. /\ UNCHANGED <<asked, path, kind, phase, packetSize>>
      /\ \A u \in Destinations : u # t => Same(u)
  BY Elsewhere DEF PathInv
<1>2. Chosen /\ Apart
  BY DEF PathInv
<1>3. ASSUME phase # "initial", kind[t] = "v4"
      PROVE  search' = search
  <2>1. search[t].pc \in {"done", "failed"}
    BY <1>2, <1>3 DEF Apart
  <2>2. ~(Resolves(t) \/ PicksSize(t) \/ Found(t) \/ SendsPayload(t) \/ ReadsReply(t) \/ ReadTimesOut(t)
          \/ Expires(t) \/ Begins(t) \/ Queries(t) \/ Writes(t) \/ Arrives(t) \/ AwaitTimesOut(t)
          \/ Requeries(t) \/ Fails6(t) \/ Stores(t))
    BY <1>3, <2>1 DEF Resolves, PicksSize, Found, SendsPayload, ReadsReply, ReadTimesOut, Expires, Begins,
       Claims, Queries, Writes, Arrives, AwaitTimesOut, Requeries, Fails6, Stores
  <2> QED BY <2>2 DEF TargetNext, Loses
<1>4. packetSize # 0 => Searched' \subseteq Searched
  <2> SUFFICES ASSUME packetSize # 0, NEW u \in Destinations, kind[u] = "v4", search'[u].pc = "done"
               PROVE  search[u].pc = "done"
    BY <1>1 DEF Searched
  <2>1. CASE u = t
    BY <1>2, <1>3, <2>1 DEF Chosen
  <2>2. CASE u # t
    BY <1>1, <2>2 DEF Same
  <2> QED BY <2>1, <2>2
<1>5. \A u : Fits(u, packetSize)' = Fits(u, packetSize)
  BY <1>1 DEF Fits, Refusing
<1>6. Lowest' = Lowest
  BY <1>1 DEF Lowest
<1> QED BY <1>1, <1>2, <1>4, <1>5, <1>6 DEF Chosen, PacketSizeFits

LEMMA TargetKeeps ==
  ASSUME PathInv, NEW t \in Destinations, TargetNext(t)
  PROVE  PathInv'
<1>1. MTUTypeOK' /\ Apart' /\ Chosen'
  BY TypesStay, ApartStays, ChosenStays
<1>2. /\ asked' = asked /\ path' = path /\ kind' = kind
      /\ \A u \in Destinations : u # t => Same(u)
  BY Elsewhere DEF PathInv
<1>3. ASSUME NEW u \in Destinations, kind[u] = "v4"
      PROVE  Search4(u)'
  <2>1. Search4(u)
    BY <1>3 DEF PathInv
  <2>2. CASE u = t
    BY <1>3, <2>2, TargetStep4
  <2>3. CASE u # t
    BY <1>2, <2>1, <2>3, Stays4
  <2> QED BY <2>2, <2>3
<1>4. ASSUME NEW u \in Destinations, kind[u] = "v6"
      PROVE  Attempt(u)' /\ Exact6(u)'
  <2>1. Attempt(u) /\ Exact6(u)
    BY <1>4 DEF PathInv
  <2>2. CASE u = t
    BY <1>4, <2>2, TargetStep6
  <2>3. CASE u # t
    BY <1>2, <2>1, <2>3, Stays6
  <2> QED BY <2>2, <2>3
<1> QED BY <1>1, <1>2, <1>3, <1>4 DEF PathInv

\* The size of the session is the least of those measured, or the one asked for.
LEMMA ChoosesSizeKeeps ==
  ASSUME PathInv, ChoosesSize
  PROVE  PathInv'
<1>1. /\ phase = "initial" /\ phase' = "pinging" /\ packetSize' = ChosenSize
      /\ asked' = asked /\ path' = path /\ kind' = kind /\ search' = search /\ estimate' = estimate /\ net' = net
      /\ faults' = faults /\ found' = found
      /\ \A t \in Destinations : kind[t] # "v6" => search[t].pc \in {"done", "failed"}
  BY DEF ChoosesSize
<1>2. MTUTypeOK
  BY DEF PathInv
<1>3. ASSUME NEW t \in Searched
      PROVE  /\ t \in Destinations /\ Fits(t, found[t].size) /\ found[t].size \in Nat
             /\ Lowest <= found[t].size /\ found[t].size <= StartSize
  <2>1. t \in Destinations /\ kind[t] = "v4" /\ search[t].pc = "done"
    BY DEF Searched
  <2>2. Reported4(t) /\ found[t].size \in Nat
    BY <1>2, <2>1 DEF PathInv, Search4, MTUTypeOK
  <2> QED BY <2>1, <2>2, PathMTUAssumption DEF Reported4
<1>4. /\ Lowest \in Nat /\ Lowest <= StartSize /\ StartSize \in Nat
      /\ asked \in Nat /\ Lowest <= asked /\ (asked <= StartSize => asked = Lowest)
  <2>1. asked \in Nat \ {0} /\ StartSize \in Nat \ {0}
    BY <1>2, PathMTUAssumption DEF MTUTypeOK
  <2> QED BY <2>1 DEF Lowest
<1>5. /\ ChosenSize \in Nat /\ Lowest <= ChosenSize
      /\ \/ \A t \in Searched : ChosenSize <= found[t].size
         \/ ChosenSize = asked /\ asked > StartSize /\ \E t \in Destinations : kind[t] = "v6"
  <2>1. CASE Searched # {} /\ \A t \in Destinations: kind[t] # "v6"
    <3> DEFINE S == {found[t].size: t \in Searched}
    <3>1. S \subseteq Nat /\ S # {}
      BY <1>3, <2>1
    <3>2. ChosenSize = Min(S)
      BY <2>1 DEF ChosenSize
    <3> HIDE DEF S
    <3>3. ChosenSize \in S /\ \A y \in S : ChosenSize <= y
      BY <3>1, <3>2, LeastOf
    <3> QED BY <1>3, <3>1, <3>3 DEF S
  <2>2. CASE ~(Searched # {} /\ \A t \in Destinations: kind[t] # "v6")
    <3>1. ChosenSize = asked
      BY <2>2 DEF ChosenSize
    <3>2. CASE asked <= StartSize
      BY <1>3, <1>4, <3>1, <3>2
    <3>3. CASE asked > StartSize
      BY <1>4, <2>2, <3>1, <3>3
    <3> QED BY <1>4, <3>2, <3>3
  <2> QED BY <2>1, <2>2
<1>6. \/ \A t \in Searched : Fits(t, ChosenSize)
      \/ ChosenSize = asked /\ asked > StartSize /\ \E t \in Destinations : kind[t] = "v6"
  BY <1>2, <1>3, <1>5, SmallerFits
<1>7. Searched' = Searched /\ Lowest' = Lowest /\ \A t : Fits(t, packetSize)' = Fits(t, ChosenSize)
  BY <1>1 DEF Searched, Fits, Refusing, Lowest
<1>8. Chosen'
  BY <1>1, <1>5, <1>6, <1>7 DEF Chosen, PacketSizeFits
<1>9. MTUTypeOK'
  BY <1>1, <1>2, <1>5 DEF MTUTypeOK
<1>10. Apart'
  <2>1. Apart
    BY DEF PathInv
  <2> QED BY <1>1, <2>1 DEF Apart
<1>11. \A t \in Destinations : Same(t)
  BY <1>1 DEF Same
<1> QED BY <1>1, <1>8, <1>9, <1>10, <1>11, Stays4, Stays6 DEF PathInv

LEMMA CancelsKeeps ==
  ASSUME PathInv, Cancels
  PROVE  PathInv'
<1>1. /\ phase = "pinging" /\ phase' = "ended"
      /\ search' = [t \in Destinations |-> IF t \in Busy THEN [search[t] EXCEPT !.pc = "failed"] ELSE search[t]]
      /\ asked' = asked /\ path' = path /\ kind' = kind /\ estimate' = estimate /\ net' = net
      /\ faults' = faults /\ found' = found /\ packetSize' = packetSize
  BY DEF Cancels
<1>2. MTUTypeOK /\ Apart /\ Chosen
  BY DEF PathInv
<1>3. ASSUME NEW t \in Destinations
      PROVE  /\ search[t] \in Searches
             /\ t \in Busy => /\ search'[t] \in Searches
                              /\ search'[t].pc = "failed" /\ search'[t].probes = search[t].probes
                              /\ search[t].pc \notin {"idle", "done", "failed"}
             /\ t \notin Busy => search'[t] = search[t]
  <2>1. search[t] \in Searches
    BY <1>2, SearchTyped
  <2>2. CASE t \in Busy
    <3>1. search'[t] = [search[t] EXCEPT !.pc = "failed"]
      BY <1>1, <2>2
    <3>2. [search[t] EXCEPT !.pc = "failed"] \in Searches
      BY <2>1 DEF Searches, Places
    <3>3. [search[t] EXCEPT !.pc = "failed"].pc = "failed"
          /\ [search[t] EXCEPT !.pc = "failed"].probes = search[t].probes
      BY <2>1 DEF Searches
    <3>4. search[t].pc \notin {"idle", "done", "failed"}
      BY <2>2 DEF Busy
    <3> QED BY <2>1, <2>2, <3>1, <3>2, <3>3, <3>4
  <2>3. CASE t \notin Busy
    BY <1>1, <2>1, <2>3
  <2> QED BY <2>2, <2>3
<1>4. MTUTypeOK'
  <2>1. search' \in [Destinations -> Searches]
    <3>1. \A t \in Destinations : search'[t] \in Searches
      BY <1>3
    <3> QED BY <1>1, <3>1
  <2> QED BY <1>1, <1>2, <2>1 DEF MTUTypeOK
<1>5. ASSUME NEW t \in Destinations, t \in Busy
      PROVE  kind[t] = "v6"
  BY <1>1, <1>2, <1>3, <1>5 DEF Apart
<1>6. Apart'
  BY <1>1, <1>2, <1>3, <1>5 DEF Apart
<1>7. Chosen'
  <2>1. Searched' \subseteq Searched
    BY <1>1, <1>3, <1>5 DEF Searched
  <2>2. Lowest' = Lowest /\ \A t : Fits(t, packetSize)' = Fits(t, packetSize)
    BY <1>1 DEF Fits, Refusing, Lowest
  <2> QED BY <1>1, <1>2, <2>1, <2>2 DEF Chosen, PacketSizeFits
<1>8. ASSUME NEW t \in Destinations, kind[t] = "v4"
      PROVE  Search4(t)'
  <2>1. Search4(t)
    BY <1>8 DEF PathInv
  <2>2. Same(t)
    BY <1>1, <1>3, <1>5, <1>8 DEF Same
  <2> QED BY <1>1, <2>1, <2>2, Stays4
<1>9. ASSUME NEW t \in Destinations, kind[t] = "v6"
      PROVE  Attempt(t)' /\ Exact6(t)'
  <2>1. Attempt(t) /\ Exact6(t)
    BY <1>9 DEF PathInv
  <2>2. CASE t \notin Busy
    <3>1. Same(t)
      BY <1>1, <1>3, <2>2 DEF Same
    <3> QED BY <1>1, <2>1, <3>1, Stays6
  <2>3. CASE t \in Busy
    <3>1. search'[t].pc = "failed" /\ search'[t].probes = search[t].probes
      BY <1>3, <2>3
    <3> QED BY <1>1, <2>1, <3>1 DEF Attempt, Exact6
  <2> QED BY <2>2, <2>3
<1> QED BY <1>1, <1>4, <1>6, <1>7, <1>8, <1>9 DEF PathInv

LEMMA PathStarts ==
  ASSUME MTUInit
  PROVE  PathInv
<1>1. /\ asked \in Sizes
      /\ path \in [Destinations -> Paths] /\ kind \in [Destinations -> {"v4", "v6", "unresolved"}]
      /\ phase = "initial" /\ packetSize = 0
      /\ search = [t \in Destinations |-> Idle] /\ estimate = [t \in Destinations |-> path[t][1]]
      /\ net = [t \in Destinations |-> {}] /\ faults = [t \in Destinations |-> 0]
      /\ found = [t \in Destinations |-> Nothing]
  BY DEF MTUInit
<1>2. \A t \in Destinations : path[t][1] \in Nat
  <2> SUFFICES ASSUME NEW t \in Destinations PROVE path[t][1] \in Nat
    OBVIOUS
  <2>1. path[t] \in Seq(Nat) /\ path[t] # <<>>
    BY <1>1, PathMTUAssumption
  <2> QED BY <2>1
<1>3. MTUTypeOK
  <2>1. search \in [Destinations -> Searches]
    BY <1>1, IdleTyped
  <2>2. Nothing \in [status: {"none", "probed", "confirmed", "estimated"}, size: Nat, hop: Nat]
    BY DEF Nothing, NoHop
  <2>3. 0 \in 0..MaxFaults
    BY PathMTUAssumption
  <2>4. estimate \in [Destinations -> Nat]
    BY <1>1, <1>2
  <2> QED BY <1>1, <2>1, <2>2, <2>3, <2>4 DEF MTUTypeOK
<1>4. \A t \in Destinations : search[t] = Idle /\ search[t].pc = "idle" /\ search[t].probes = 0
  BY <1>1 DEF Idle
<1>5. Apart
  BY <1>1, <1>4 DEF Apart
<1>6. Chosen
  BY <1>1 DEF Chosen, PacketSizeFits
<1>7. ASSUME NEW t \in Destinations
      PROVE  Search4(t)
  BY <1>4 DEF Search4, Interval, Baseline, LateEchoes, Exact4, Reported4
<1>8. ASSUME NEW t \in Destinations
      PROVE  Attempt(t) /\ Exact6(t)
  <2>1. net[t] = {} /\ estimate[t] = path[t][1] /\ path[t][1] \in Nat
    BY <1>1, <1>2
  <2>2. 0 <= MaxAttempts
    BY PathMTUAssumption
  <2>3. Attempt(t)
    BY <1>4, <2>1, <2>2 DEF Attempt
  <2> QED BY <1>4, <2>3 DEF Exact6
<1> QED BY <1>3, <1>5, <1>6, <1>7, <1>8 DEF PathInv

LEMMA PathStutters ==
  ASSUME PathInv, UNCHANGED uvars
  PROVE  PathInv'
<1>1. /\ asked' = asked /\ path' = path /\ kind' = kind /\ phase' = phase /\ search' = search /\ estimate' = estimate
      /\ net' = net /\ faults' = faults /\ found' = found /\ packetSize' = packetSize
  BY DEF uvars
<1>2. MTUTypeOK' /\ Apart' /\ Chosen'
  BY <1>1 DEF PathInv, MTUTypeOK, Apart, Chosen, PacketSizeFits, Searched, Fits, Refusing, Lowest
<1>3. \A t \in Destinations : Same(t)
  BY <1>1 DEF Same
<1> QED BY <1>1, <1>2, <1>3, Stays4, Stays6 DEF PathInv

LEMMA PathKeeps ==
  ASSUME PathInv, [MTUNext]_uvars
  PROVE  PathInv'
<1>1. CASE ChoosesSize
  BY <1>1, ChoosesSizeKeeps
<1>2. CASE Cancels
  BY <1>2, CancelsKeeps
<1>3. CASE \E t \in Destinations : TargetNext(t)
  BY <1>3, TargetKeeps
<1>4. CASE UNCHANGED uvars
  BY <1>4, PathStutters
<1> QED BY <1>1, <1>2, <1>3, <1>4 DEF MTUNext

\* What the invariant says of the sizes.
LEMMA PathInvSound ==
  ASSUME PathInv
  PROVE  SizesAreSound
<1>1. ASSUME NEW t \in Destinations
      PROVE  /\ found[t].status = "probed" => Fits(t, found[t].size)
             /\ found[t].status = "confirmed" => Fits(t, found[t].size)
             /\ search[t].pc = "next" =>
                  2^search[t].probes * (search[t].high - search[t].low) <= StartSize - Lowest
             /\ search[t].pc = "done" /\ faults[t] = 0 =>
                  /\ kind[t] = "v4" =>
                       /\ found[t].size = StartSize \/ ~Fits(t, found[t].size + 1)
                       /\ found[t].hop # NoHop => path[t][found[t].hop] = found[t].size
                  /\ kind[t] = "v6" /\ Modest(t) => found[t].status = "confirmed"
  <2>1. kind[t] \in {"v4", "v6", "unresolved"}
    BY DEF PathInv, MTUTypeOK
  <2>2. search[t].pc # "done" => found[t].status = "none"
    BY DEF PathInv, Apart, Nothing
  <2>3. CASE kind[t] = "v4"
    <3>1. Interval(t) /\ Reported4(t)
      BY <2>3 DEF PathInv, Search4
    <3> QED BY <2>2, <2>3, <3>1 DEF Interval, Reported4, Rounds
  <2>4. CASE kind[t] = "v6"
    <3>1. Attempt(t) /\ Exact6(t) /\ search[t].pc # "next"
      BY <2>4 DEF PathInv, Apart
    <3> QED BY <2>2, <2>4, <3>1 DEF Attempt, Exact6
  <2>5. CASE kind[t] = "unresolved"
    <3>1. search[t].pc \notin {"done", "next"}
      BY <2>5 DEF PathInv, Apart
    <3> QED BY <2>2, <3>1
  <2> QED BY <2>1, <2>3, <2>4, <2>5
<1>2. MTUTypeOK /\ PacketSizeFits
  BY DEF PathInv, Chosen
<1>3. NeverOverestimates /\ ConfirmedWasEchoed /\ SearchHalves
  BY <1>1 DEF NeverOverestimates, ConfirmedWasEchoed, SearchHalves
<1>4. ExactWithoutFaults
  BY <1>1 DEF ExactWithoutFaults, Modest
<1> QED BY <1>2, <1>3, <1>4 DEF SizesAreSound

\* Whatever the network loses or delivers late, every size the discovery reports or the
\* session runs with passes the path it was measured on; an IPv4 search halves its
\* interval with each probe; and where nothing is lost, the IPv4 size is the largest
\* that passes and an IPv6 discovery ends with a confirmed size.
THEOREM SoundSizes == MTUSpec => []SizesAreSound
<1>1. MTUInit => PathInv
  BY PathStarts
<1>2. PathInv /\ [MTUNext]_uvars => PathInv'
  BY PathKeeps
<1>3. PathInv => SizesAreSound
  BY PathInvSound
<1> QED BY <1>1, <1>2, <1>3, PTL DEF MTUSpec

(***************************************************************************)
(* Health: the inductive invariant.                                        *)
(***************************************************************************)

\* The counter of an outcome is the length of the run the outcomes end with.
Trails(lg, n, ok) ==
  /\ n \in 0..Len(lg)
  /\ \A k \in DOMAIN lg : /\ k > Len(lg) - n => lg[k].ok = ok
                          /\ k = Len(lg) - n => lg[k].ok # ok
Runs == Trails(log, failures, FALSE) /\ Trails(log, successes, TRUE)

\* The outcomes of a second since the buckets were dropped.
InSecond(lg, from, x, ok) == {k \in (from + 1)..Len(lg) : lg[k].at = x /\ lg[k].ok = ok}

\* A bucket holds the outcomes of its second, and a second is not lost before a
\* whole cycle of n seconds has passed.
Holds(bs, n, lg, from, t) ==
  /\ \A k \in DOMAIN lg : 1 <= lg[k].at /\ lg[k].at <= t
  /\ bs = <<>> => from = Len(lg)
  /\ bs # <<>> =>
       /\ bs \in [0..n - 1 -> Buckets]
       /\ \A i \in 0..n - 1 :
            /\ bs[i].second <= t
            /\ bs[i].second # 0 => bs[i].second % n = i
            /\ bs[i].replies = Cardinality(InSecond(lg, from, bs[i].second, TRUE))
            /\ bs[i].losses = Cardinality(InSecond(lg, from, bs[i].second, FALSE))
       /\ \A k \in (from + 1)..Len(lg) : bs[lg[k].at % n].second >= lg[k].at
BucketsFollow == Holds(buckets, BucketCount, log, since, now)

\* The ring holds the last samples, each in the slot of its number.
SampleOf(k) == [rtt |-> log[k].rtt, at |-> log[k].at]
RingFollows ==
  /\ ring.idx = Len(log)
  /\ ring.len = IF Len(log) <= HistorySize THEN Len(log) ELSE HistorySize
  /\ \A k \in DOMAIN log : k > Len(log) - HistorySize => ring.slot[(k - 1) % HistorySize] = SampleOf(k)

\* The extremes are those of the replies.
Replied == {i \in DOMAIN log : log[i].ok}
RTTOf == [i \in Replied |-> log[i].rtt]
ExtremesFollow ==
  /\ \A i \in Replied : log[i].rtt \in RTTs
  /\ extremes.samples = Cardinality(Replied)
  /\ IsFiniteSet(Units(RTTOf)) /\ extremes.sum = Cardinality(Units(RTTOf))
  /\ Replied = {} => extremes.min = 0 /\ extremes.max = 0
  /\ Replied # {} => \E i \in Replied : extremes.min = log[i].rtt
  /\ Replied # {} => \E i \in Replied : extremes.max = log[i].rtt
  /\ \A i \in Replied : extremes.min <= log[i].rtt /\ log[i].rtt <= extremes.max

\* Only the last event that is not about health may be folded into, and only while
\* neither a reply nor a reset came after it; and the last health event of a
\* statistics window is of the present status.
Hidden(es, i) == \A j \in DOMAIN es : j > i => es[j].kind = "health"
Own(es, i, res) == es[i].kind = "health" /\ es[i].resets = res
Follow(es, st, rep, res) ==
  /\ \A i \in DOMAIN es : ~es[i].apart /\ es[i].resets <= res
  /\ \A i \in DOMAIN es : es[i].kind = "ping" /\ Hidden(es, i) => es[i].of = rep /\ es[i].resets = res
  /\ \A i \in DOMAIN es : Own(es, i, res) /\ (\A j \in DOMAIN es : j > i => ~Own(es, j, res)) =>
       es[i].msg = st
Quiet(es) == \A i \in DOMAIN es : es[i].kind = "ping" => ~Hidden(es, i)
Unjudged(es, res) == \A i \in DOMAIN es : ~Own(es, i, res)
EventsFollow ==
  /\ Follow(events, judged.status, RepliesSoFar, resets)
  /\ lastError = "" => Quiet(events)
  /\ judged.status = "" => Unjudged(events, resets)

HealthInv ==
  /\ HealthTypeOK /\ DownFollowsRuns /\ RecentIsExact
  /\ Runs /\ BucketsFollow /\ RingFollows /\ ExtremesFollow /\ EventsFollow

-----------------------------------------------------------------------------
(* Runs of outcomes.                                                       *)

RunIn(lg, i, n, ok) == i >= n /\ \A j \in (i - n + 1)..i : lg[j].ok = ok

\* The last outcomes form a run of n exactly when the counter has reached n.
LEMMA RunLength ==
  ASSUME NEW lg \in Seq(Outcomes), NEW ok \in BOOLEAN, NEW f, Trails(lg, f, ok), NEW n \in Nat \ {0}
  PROVE  RunIn(lg, Len(lg), n, ok) <=> n <= f
<1>1. Len(lg) \in Nat /\ DOMAIN lg = 1..Len(lg) /\ f \in 0..Len(lg)
  BY DEF Trails
<1>2. ASSUME n <= f
      PROVE  RunIn(lg, Len(lg), n, ok)
  <2> SUFFICES ASSUME NEW j \in (Len(lg) - n + 1)..Len(lg) PROVE lg[j].ok = ok
    BY <1>1, <1>2 DEF RunIn
  <2>1. j \in 1..Len(lg) /\ j > Len(lg) - f
    BY <1>1, <1>2
  <2> QED BY <1>1, <2>1 DEF Trails
<1>3. ASSUME RunIn(lg, Len(lg), n, ok), ~(n <= f)
      PROVE  FALSE
  <2>1. n <= Len(lg) /\ \A j \in (Len(lg) - n + 1)..Len(lg) : lg[j].ok = ok
    BY <1>3 DEF RunIn
  <2>2. Len(lg) - f \in 1..Len(lg) /\ Len(lg) - f \in (Len(lg) - n + 1)..Len(lg)
    BY <1>1, <1>3, <2>1
  <2> QED BY <1>1, <2>1, <2>2 DEF Trails
<1> QED BY <1>2, <1>3

\* An outcome prolongs the run of its kind and ends the other.
LEMMA TrailsOn ==
  ASSUME NEW lg \in Seq(Outcomes), NEW o \in Outcomes, NEW n, NEW ok \in BOOLEAN, Trails(lg, n, ok)
  PROVE  Trails(Append(lg, o), IF o.ok = ok THEN n + 1 ELSE 0, ok)
<1> DEFINE new == Append(lg, o)
<1>1. /\ Len(lg) \in Nat /\ DOMAIN lg = 1..Len(lg) /\ n \in 0..Len(lg)
      /\ Len(new) = Len(lg) + 1 /\ DOMAIN new = 1..(Len(lg) + 1)
      /\ new[Len(lg) + 1] = o /\ \A k \in 1..Len(lg) : new[k] = lg[k]
  BY DEF Trails
<1> HIDE DEF new
<1>2. CASE o.ok = ok
  <2>1. n + 1 \in 0..Len(new)
    BY <1>1
  <2>2. ASSUME NEW k \in DOMAIN new
        PROVE  /\ k > Len(new) - (n + 1) => new[k].ok = ok
               /\ k = Len(new) - (n + 1) => new[k].ok # ok
    <3>1. CASE k = Len(lg) + 1
      BY <1>1, <1>2, <3>1
    <3>2. CASE k # Len(lg) + 1
      <4>1. k \in 1..Len(lg) /\ new[k] = lg[k] /\ Len(new) - (n + 1) = Len(lg) - n
        BY <1>1, <3>2
      <4> QED BY <1>1, <4>1 DEF Trails
    <3> QED BY <3>1, <3>2
  <2> QED BY <1>2, <2>1, <2>2 DEF Trails, new
<1>3. CASE o.ok # ok
  <2>1. 0 \in 0..Len(new)
    BY <1>1
  <2>2. ASSUME NEW k \in DOMAIN new
        PROVE  /\ ~(k > Len(new) - 0)
               /\ k = Len(new) - 0 => new[k].ok # ok
    BY <1>1, <1>3
  <2> QED BY <1>3, <2>1, <2>2 DEF Trails, new
<1> QED BY <1>2, <1>3

\* The flag after an outcome: set by a run of failures, cleared by a run of replies.
Unavailable(lg) ==
  \E i \in DOMAIN lg : /\ RunIn(lg, i, Failures, FALSE)
                       /\ \A j \in DOMAIN lg : j > i => ~RunIn(lg, j, Recoveries, TRUE)

LEMMA UnavailableOn ==
  ASSUME NEW lg \in Seq(Outcomes), NEW o \in Outcomes, NEW f, NEW s,
         Trails(Append(lg, o), f, FALSE), Trails(Append(lg, o), s, TRUE)
  PROVE  Unavailable(Append(lg, o)) <=>
           Failures <= f \/ (Unavailable(lg) /\ ~(Recoveries <= s))
<1> DEFINE new == Append(lg, o)
           L == Len(lg)
<1>1. /\ L \in Nat /\ DOMAIN lg = 1..L
      /\ Len(new) = L + 1 /\ DOMAIN new = 1..(L + 1) /\ new \in Seq(Outcomes)
      /\ new[L + 1] = o /\ \A k \in 1..L : new[k] = lg[k]
  OBVIOUS
<1>2. Failures \in Nat \ {0} /\ Recoveries \in Nat \ {0}
  BY HealthAssumption
<1> HIDE DEF new, L
<1>3. ASSUME NEW i \in 1..L, NEW n \in Nat \ {0}, NEW ok \in BOOLEAN
      PROVE  RunIn(new, i, n, ok) <=> RunIn(lg, i, n, ok)
  <2>1. \A j \in (i - n + 1)..i : i >= n => new[j] = lg[j]
    BY <1>1
  <2> QED BY <2>1 DEF RunIn
<1>4. (RunIn(new, L + 1, Failures, FALSE) <=> Failures <= f)
      /\ (RunIn(new, L + 1, Recoveries, TRUE) <=> Recoveries <= s)
  BY <1>1, <1>2, RunLength DEF new
<1>5. ~(Failures <= f /\ Recoveries <= s)
  <2> SUFFICES ASSUME Failures <= f, Recoveries <= s PROVE FALSE
    OBVIOUS
  <2>1. f \in 0..(L + 1) /\ s \in 0..(L + 1)
    BY <1>1 DEF Trails, new
  <2>2. L + 1 > (L + 1) - f /\ L + 1 > (L + 1) - s /\ L + 1 \in DOMAIN new
    BY <1>1, <1>2, <2>1
  <2>3. new[L + 1].ok = FALSE /\ new[L + 1].ok = TRUE
    BY <1>1, <2>2 DEF Trails, new
  <2> QED BY <2>3
<1>6. ASSUME Failures <= f
      PROVE  Unavailable(new)
  <2>1. \A j \in DOMAIN new : ~(j > L + 1)
    BY <1>1
  <2>2. L + 1 \in DOMAIN new
    BY <1>1
  <2> QED BY <1>4, <1>6, <2>1, <2>2 DEF Unavailable
<1>7. ASSUME Unavailable(lg), ~(Recoveries <= s)
      PROVE  Unavailable(new)
  <2>1. PICK i \in 1..L : /\ RunIn(lg, i, Failures, FALSE)
                          /\ \A j \in 1..L : j > i => ~RunIn(lg, j, Recoveries, TRUE)
    BY <1>1, <1>7 DEF Unavailable
  <2>2. RunIn(new, i, Failures, FALSE)
    BY <1>2, <1>3, <2>1
  <2>3. ASSUME NEW j \in 1..(L + 1), j > i
        PROVE  ~RunIn(new, j, Recoveries, TRUE)
    <3>1. CASE j = L + 1
      BY <1>4, <1>7, <3>1
    <3>2. CASE j # L + 1
      <4>1. j \in 1..L
        BY <1>1, <3>2
      <4> QED BY <1>2, <1>3, <2>1, <2>3, <4>1
    <3> QED BY <3>1, <3>2
  <2>4. i \in DOMAIN new
    BY <1>1
  <2> QED BY <1>1, <2>2, <2>3, <2>4 DEF Unavailable
<1>8. ASSUME Unavailable(new), ~(Failures <= f)
      PROVE  Unavailable(lg) /\ ~(Recoveries <= s)
  <2>1. PICK i \in 1..(L + 1) : /\ RunIn(new, i, Failures, FALSE)
                                /\ \A j \in 1..(L + 1) : j > i => ~RunIn(new, j, Recoveries, TRUE)
    BY <1>1, <1>8 DEF Unavailable
  <2>2. i # L + 1
    BY <1>4, <1>8, <2>1
  <2>3. i \in 1..L /\ L + 1 > i /\ L + 1 \in 1..(L + 1)
    BY <1>1, <2>2
  <2>4. ~(Recoveries <= s)
    BY <1>4, <2>1, <2>3
  <2>5. RunIn(lg, i, Failures, FALSE)
    BY <1>2, <1>3, <2>1, <2>3
  <2>6. ASSUME NEW j \in 1..L, j > i
        PROVE  ~RunIn(lg, j, Recoveries, TRUE)
    <3>1. j \in 1..(L + 1)
      BY <1>1
    <3> QED BY <1>2, <1>3, <2>1, <2>6, <3>1
  <2> QED BY <1>1, <2>3, <2>4, <2>5, <2>6 DEF Unavailable
<1> QED BY <1>5, <1>6, <1>7, <1>8 DEF new

-----------------------------------------------------------------------------
(* Counting: a set of outcomes cut into parts, and the buckets of a window. *)

\* What is counted in parts is counted altogether: SumOf of the sizes of disjoint
\* sets is the size of their union.
LEMMA SumOfParts ==
  ASSUME NEW f, NEW P, NEW I, DOMAIN f = I,
         \A i \in I : IsFiniteSet(P[i]) /\ Cardinality(P[i]) = f[i],
         \A i, j \in I : i # j => P[i] \cap P[j] = {},
         NEW K, IsFiniteSet(K), K = UNION {P[i] : i \in I}
  PROVE  SumOf(f) = Cardinality(K)
<1> DEFINE g == [i \in I |-> CHOOSE b : b \in Bijection(P[i], 1..f[i])]
           h == [k \in K |-> CHOOSE p : p[1] \in I /\ k \in P[p[1]] /\ p = <<p[1], g[p[1]][k]>>]
<1>1. ASSUME NEW i \in I
      PROVE  g[i] \in Bijection(P[i], 1..f[i]) /\ f[i] \in Nat
  <2>1. /\ IsFiniteSet(P[i]) /\ Cardinality(P[i]) = f[i]
    OBVIOUS
  <2>2. f[i] \in Nat
    BY <2>1, FS_CardinalityType
  <2>3. IsFiniteSet(1..f[i]) /\ Cardinality(1..f[i]) = f[i]
    BY <2>2, FS_Interval
  <2>4. ExistsBijection(P[i], 1..f[i])
    BY <2>1, <2>3, FS_SameCardinalityBij
  <2>5. \E b : b \in Bijection(P[i], 1..f[i])
    BY <2>4 DEF ExistsBijection
  <2> QED BY <2>2, <2>5
<1> HIDE DEF g
<1>2. ASSUME NEW i \in I, NEW k \in P[i]
      PROVE  k \in K /\ h[k] = <<i, g[i][k]>>
  <2>1. k \in K
    BY SMT
  <2>2. \A p : p[1] \in I /\ k \in P[p[1]] => p[1] = i
    BY SMT
  <2>3. <<i, g[i][k]>>[1] = i
    BY SMT
  <2> DEFINE good(p) == p[1] \in I /\ k \in P[p[1]] /\ p = <<p[1], g[p[1]][k]>>
  <2>4. good(<<i, g[i][k]>>)
    BY <2>3
  <2>5. \A p : good(p) => p = <<i, g[i][k]>>
    BY <2>2
  <2>6. (CHOOSE p : good(p)) = <<i, g[i][k]>>
    BY <2>4, <2>5
  <2> QED BY <2>1, <2>6 DEF h
<1> HIDE DEF h
<1>3. ASSUME NEW k \in K
      PROVE  \E i \in I : k \in P[i]
  BY SMT
<1>4. ASSUME NEW i \in I, NEW k \in P[i]
      PROVE  g[i][k] \in 1..f[i]
  BY <1>1 DEF Bijection, Injection
<1>5. h \in [K -> Units(f)]
  <2>1. ASSUME NEW k \in K
        PROVE  h[k] \in Units(f)
    <3>1. PICK i \in I : k \in P[i]
      BY <1>3
    <3>2. h[k] = <<i, g[i][k]>> /\ g[i][k] \in 1..f[i]
      BY <1>2, <1>4, <3>1
    <3>3. h[k] \in {i} \X (1..f[i])
      BY <3>2
    <3> QED BY <3>3 DEF Units
  <2> QED BY <2>1 DEF h
<1>6. ASSUME NEW a \in K, NEW b \in K, h[a] = h[b]
      PROVE  a = b
  <2>1. PICK i \in I : a \in P[i]
    BY <1>3
  <2>2. PICK j \in I : b \in P[j]
    BY <1>3
  <2>3. i = j /\ g[i][a] = g[i][b]
    BY <1>2, <1>6, <2>1, <2>2
  <2> QED BY <1>1, <2>1, <2>2, <2>3 DEF Bijection, Injection, IsInjective
<1>7. ASSUME NEW p \in Units(f)
      PROVE  \E k \in K : h[k] = p
  <2>1. PICK i \in I : p \in {i} \X (1..f[i])
    BY DEF Units
  <2>2. PICK m \in 1..f[i] : p = <<i, m>>
    BY <2>1
  <2>3. PICK k \in P[i] : g[i][k] = m
    BY <1>1 DEF Bijection, Surjection
  <2> QED BY <1>2, <2>2, <2>3
<1>8. h \in Bijection(K, Units(f))
  <2>1. DOMAIN h = K
    BY <1>5
  <2> QED BY <1>5, <1>6, <1>7, <2>1 DEF Bijection, Injection, Surjection, IsInjective
<1> QED BY <1>8, FS_Bijection DEF ExistsBijection, SumOf

-----------------------------------------------------------------------------
(* Remainders.                                                             *)

LEMMA NoMultipleBetween ==
  ASSUME NEW n \in Nat \ {0}, NEW d \in Int, -n < n * d, n * d < n
  PROVE  d = 0
<1>1. ASSUME d >= 1 PROVE FALSE
  <2>1. n * d >= n * 1
    BY <1>1
  <2> QED BY <2>1
<1>2. ASSUME d <= -1 PROVE FALSE
  <2>1. n * d <= n * (-1)
    BY <1>2
  <2> QED BY <2>1
<1> QED BY <1>1, <1>2

\* Two seconds less than a cycle of n apart and in the same slot are one second.
LEMMA SameRemainder ==
  ASSUME NEW n \in Nat \ {0}, NEW a \in Nat, NEW b \in Nat,
         a % n = b % n, a <= b, b < a + n
  PROVE  a = b
<1> DEFINE q == a \div n
           r == b \div n
<1>1. q \in Int /\ r \in Int
  OBVIOUS
<1>2. a = (n * q) + (a % n) /\ b = (n * r) + (b % n) /\ a % n \in Int
  OBVIOUS
<1> HIDE DEF q, r
<1>3. b - a = n * (r - q)
  BY <1>1, <1>2
<1>4. r - q = 0
  BY <1>1, <1>3, NoMultipleBetween
<1> QED BY <1>3, <1>4

\* What is left after taking away a multiple of n is the remainder.
LEMMA RemainderIs ==
  ASSUME NEW n \in Nat \ {0}, NEW a \in Nat, NEW k \in Int, NEW c \in 0..n - 1, a = (n * k) + c
  PROVE  a % n = c
<1> DEFINE q == a \div n
<1>1. q \in Int /\ a % n \in 0..n - 1
  OBVIOUS
<1>2. a = (n * q) + (a % n)
  OBVIOUS
<1> HIDE DEF q
<1>3. c - (a % n) = n * (q - k)
  BY <1>1, <1>2
<1>4. q - k = 0
  BY <1>1, <1>3, NoMultipleBetween
<1> QED BY <1>1, <1>3, <1>4

-----------------------------------------------------------------------------
(* The window's counts.                                                    *)

InWindow(lg, from, w, ok) ==
  {k \in (from + 1)..Len(lg) : lg[k].ok = ok /\ lg[k].at > now - w /\ lg[k].at <= now}

LEMMA FiniteCounts ==
  ASSUME NEW lg \in Seq(Outcomes), NEW from \in Nat
  PROVE  /\ \A x, ok : IsFiniteSet(InSecond(lg, from, x, ok))
                       /\ Cardinality(InSecond(lg, from, x, ok)) \in Nat
         /\ \A w, ok : IsFiniteSet(InWindow(lg, from, w, ok))
                       /\ Cardinality(InWindow(lg, from, w, ok)) \in Nat
<1>1. IsFiniteSet((from + 1)..Len(lg))
  <2>1. Len(lg) \in Nat
    OBVIOUS
  <2> QED BY <2>1, FS_Interval
<1>2. \A x, ok : InSecond(lg, from, x, ok) \in SUBSET ((from + 1)..Len(lg))
  BY DEF InSecond
<1>3. \A w, ok : InWindow(lg, from, w, ok) \in SUBSET ((from + 1)..Len(lg))
  BY DEF InWindow
<1>4. \A S : S \in SUBSET ((from + 1)..Len(lg)) => IsFiniteSet(S) /\ Cardinality(S) \in Nat
  BY <1>1, FS_Subset, FS_CardinalityType
<1> QED BY <1>2, <1>3, <1>4

\* The outcomes of the window are those of the seconds of its buckets.
LEMMA WindowIsBuckets ==
  ASSUME NEW lg \in Seq(Outcomes), NEW from \in 0..Len(lg), NEW n \in Nat \ {0}, NEW w \in Nat, w < n,
         now \in Nat, NEW bs, Holds(bs, n, lg, from, now), bs # <<>>, NEW ok \in BOOLEAN
  PROVE  /\ InWindow(lg, from, w, ok) = UNION {InSecond(lg, from, bs[i].second, ok) : i \in Recent(bs, w)}
         /\ \A i, j \in Recent(bs, w) :
              i # j => InSecond(lg, from, bs[i].second, ok) \cap InSecond(lg, from, bs[j].second, ok) = {}
<1>1. /\ \A k \in (from + 1)..Len(lg) : k \in DOMAIN lg /\ lg[k].at \in Nat /\ 1 <= lg[k].at /\ lg[k].at <= now
      /\ \A k \in (from + 1)..Len(lg) : bs[lg[k].at % n].second >= lg[k].at
  <2>1. \A k \in (from + 1)..Len(lg) : k \in 1..Len(lg)
    OBVIOUS
  <2>2. \A k \in 1..Len(lg) : lg[k].at \in Nat
    <3>1. \A k \in 1..Len(lg) : lg[k] \in Outcomes
      BY ElementOfSeq
    <3> QED BY <3>1 DEF Outcomes
  <2> QED BY <2>1, <2>2 DEF Holds
<1>2. /\ DOMAIN bs = 0..n - 1
      /\ \A i \in 0..n - 1 : bs[i].second \in Nat /\ bs[i].second <= now
                             /\ (bs[i].second # 0 => bs[i].second % n = i)
  <2>1. bs \in [0..n - 1 -> Buckets]
    BY DEF Holds
  <2>2. \A i \in 0..n - 1 : bs[i].second \in Nat
    BY <2>1 DEF Buckets
  <2> QED BY <2>1, <2>2 DEF Holds
<1>3. ASSUME NEW k \in InWindow(lg, from, w, ok)
      PROVE  \E i \in Recent(bs, w) : k \in InSecond(lg, from, bs[i].second, ok)
  <2> DEFINE i == lg[k].at % n
  <2>1. k \in (from + 1)..Len(lg) /\ lg[k].ok = ok /\ lg[k].at > now - w /\ lg[k].at <= now
    BY DEF InWindow
  <2>2. lg[k].at \in Nat /\ 1 <= lg[k].at
    BY <1>1, <2>1
  <2>3. i \in 0..n - 1
    BY <2>2
  <2>4. bs[i].second >= lg[k].at
    BY <1>1, <2>1
  <2> HIDE DEF i
  <2>5. bs[i].second \in Nat /\ bs[i].second <= now /\ bs[i].second % n = i
    BY <1>2, <2>2, <2>3, <2>4
  <2>6. bs[i].second < lg[k].at + n
    BY <2>1, <2>2, <2>5
  <2>7. bs[i].second % n = lg[k].at % n
    BY <2>5 DEF i
  <2>8. lg[k].at = bs[i].second
    BY <2>2, <2>4, <2>5, <2>6, <2>7, SameRemainder
  <2>9. i \in Recent(bs, w)
    BY <1>2, <2>1, <2>3, <2>5, <2>8 DEF Recent
  <2> QED BY <2>1, <2>8, <2>9 DEF InSecond
<1>4. ASSUME NEW i \in Recent(bs, w), NEW k \in InSecond(lg, from, bs[i].second, ok)
      PROVE  k \in InWindow(lg, from, w, ok)
  BY DEF Recent, InSecond, InWindow
<1>5. ASSUME NEW i \in Recent(bs, w), NEW j \in Recent(bs, w), i # j,
             NEW k \in InSecond(lg, from, bs[i].second, ok), k \in InSecond(lg, from, bs[j].second, ok)
      PROVE  FALSE
  <2>1. k \in (from + 1)..Len(lg) /\ lg[k].at = bs[i].second /\ lg[k].at = bs[j].second
    BY <1>5 DEF InSecond
  <2>2. i \in 0..n - 1 /\ j \in 0..n - 1
    BY <1>2 DEF Recent
  <2>3. bs[i].second # 0 /\ bs[j].second # 0
    BY <1>1, <2>1
  <2> QED BY <1>2, <1>5, <2>1, <2>2, <2>3
<1>6. InWindow(lg, from, w, ok) = UNION {InSecond(lg, from, bs[i].second, ok) : i \in Recent(bs, w)}
  BY <1>3, <1>4, Zenon
<1>7. \A i, j \in Recent(bs, w) :
        i # j => InSecond(lg, from, bs[i].second, ok) \cap InSecond(lg, from, bs[j].second, ok) = {}
  BY <1>5, Zenon
<1> QED BY <1>6, <1>7

\* The counts of a window are the outcomes in it.
LEMMA WindowCounts ==
  ASSUME NEW lg \in Seq(Outcomes), NEW from \in 0..Len(lg), NEW n \in Nat \ {0}, NEW w \in Nat, w < n,
         now \in Nat, NEW bs, Holds(bs, n, lg, from, now)
  PROVE  /\ Received(bs, w) = Cardinality(InWindow(lg, from, w, TRUE))
         /\ Lost(bs, w) = Cardinality(InWindow(lg, from, w, FALSE))
<1>0. from \in Nat
  OBVIOUS
<1>1. CASE bs = <<>>
  <2>1. from = Len(lg)
    BY <1>1 DEF Holds
  <2>2. \A ok : InWindow(lg, from, w, ok) = {}
    <3>1. (from + 1)..Len(lg) = {}
      BY <2>1
    <3> QED BY <3>1 DEF InWindow
  <2>3. Recent(bs, w) = {}
    BY <1>1 DEF Recent
  <2>4. \A f : DOMAIN f = {} => SumOf(f) = 0
    BY FS_EmptySet DEF SumOf, Units
  <2>5. Received(bs, w) = 0 /\ Lost(bs, w) = 0
    BY <2>3, <2>4 DEF Received, Lost
  <2> QED BY <2>2, <2>5, FS_EmptySet
<1>2. CASE bs # <<>>
  <2> DEFINE I == Recent(bs, w)
             P(ok) == [i \in I |-> InSecond(lg, from, bs[i].second, ok)]
  <2>1. \A i \in I : /\ bs[i].replies = Cardinality(InSecond(lg, from, bs[i].second, TRUE))
                     /\ bs[i].losses = Cardinality(InSecond(lg, from, bs[i].second, FALSE))
    <3>1. DOMAIN bs = 0..n - 1
      BY <1>2 DEF Holds
    <3> QED BY <1>2, <3>1 DEF Holds, Recent
  <2>2. /\ \A i \in I : IsFiniteSet(P(TRUE)[i]) /\ Cardinality(P(TRUE)[i]) = [j \in I |-> bs[j].replies][i]
        /\ \A i \in I : IsFiniteSet(P(FALSE)[i]) /\ Cardinality(P(FALSE)[i]) = [j \in I |-> bs[j].losses][i]
    BY <1>0, <2>1, FiniteCounts
  <2>3. \A ok \in BOOLEAN : /\ \A i, j \in I : i # j => P(ok)[i] \cap P(ok)[j] = {}
                            /\ InWindow(lg, from, w, ok) = UNION {P(ok)[i] : i \in I}
    <3> SUFFICES ASSUME NEW ok \in BOOLEAN
                 PROVE  /\ \A i, j \in I : i # j => P(ok)[i] \cap P(ok)[j] = {}
                        /\ InWindow(lg, from, w, ok) = UNION {P(ok)[i] : i \in I}
      OBVIOUS
    <3>1. \A i \in I : P(ok)[i] = InSecond(lg, from, bs[i].second, ok)
      OBVIOUS
    <3>2. {P(ok)[i] : i \in I} = {InSecond(lg, from, bs[i].second, ok) : i \in I}
      BY <3>1
    <3>3. InWindow(lg, from, w, ok) = UNION {InSecond(lg, from, bs[i].second, ok) : i \in I}
      BY <1>2, WindowIsBuckets
    <3>4. \A i, j \in I : i # j =>
            InSecond(lg, from, bs[i].second, ok) \cap InSecond(lg, from, bs[j].second, ok) = {}
      BY <1>2, WindowIsBuckets
    <3>5. \A i, j \in I : i # j => P(ok)[i] \cap P(ok)[j] = {}
      BY <3>1, <3>4
    <3> QED BY <3>2, <3>3, <3>5
  <2>4. \A ok \in BOOLEAN : IsFiniteSet(InWindow(lg, from, w, ok))
    BY <1>0, FiniteCounts
  <2>5. SumOf([j \in I |-> bs[j].replies]) = Cardinality(InWindow(lg, from, w, TRUE))
    <3> DEFINE f == [j \in I |-> bs[j].replies]
               Q == P(TRUE)
               K == InWindow(lg, from, w, TRUE)
    <3>1. DOMAIN f = I
      OBVIOUS
    <3>2. \A i \in I : IsFiniteSet(Q[i]) /\ Cardinality(Q[i]) = f[i]
      BY <2>2
    <3>3. (\A i, j \in I : i # j => Q[i] \cap Q[j] = {}) /\ K = UNION {Q[i] : i \in I} /\ IsFiniteSet(K)
      BY <2>3, <2>4
    <3> HIDE DEF f, Q, K, I
    <3>4. SumOf(f) = Cardinality(K)
      BY <3>1, <3>2, <3>3, SumOfParts
    <3> QED BY <3>4 DEF f, K
  <2>6. SumOf([j \in I |-> bs[j].losses]) = Cardinality(InWindow(lg, from, w, FALSE))
    <3> DEFINE f == [j \in I |-> bs[j].losses]
               Q == P(FALSE)
               K == InWindow(lg, from, w, FALSE)
    <3>1. DOMAIN f = I
      OBVIOUS
    <3>2. \A i \in I : IsFiniteSet(Q[i]) /\ Cardinality(Q[i]) = f[i]
      BY <2>2
    <3>3. (\A i, j \in I : i # j => Q[i] \cap Q[j] = {}) /\ K = UNION {Q[i] : i \in I} /\ IsFiniteSet(K)
      BY <2>3, <2>4
    <3> HIDE DEF f, Q, K, I
    <3>4. SumOf(f) = Cardinality(K)
      BY <3>1, <3>2, <3>3, SumOfParts
    <3> QED BY <3>4 DEF f, K
  <2> QED BY <2>5, <2>6 DEF Received, Lost
<1> QED BY <1>1, <1>2

-----------------------------------------------------------------------------
(* The buckets after an outcome.                                           *)

LEMMA BucketType ==
  ASSUME HealthTypeOK
  PROVE  /\ BucketCount \in Nat \ {0} /\ window \in Nat /\ window < BucketCount
         /\ now \in Nat \ {0} /\ now % BucketCount \in 0..BucketCount - 1
<1>1. now \in Nat \ {0} /\ window \in Nat \ {0}
  <2>1. now \in 1..MaxTime /\ window \in Windows
    BY DEF HealthTypeOK
  <2>2. MaxTime \in Nat \ {0} /\ Windows \subseteq Nat \ {0}
    BY HealthAssumption
  <2> QED BY <2>1, <2>2
<1>2. BucketCount \in Nat \ {0} /\ window < BucketCount
  BY <1>1 DEF BucketCount
<1>3. now % BucketCount \in 0..BucketCount - 1
  <2> DEFINE n == BucketCount
  <2> HIDE DEF n
  <2>1. n \in Nat \ {0} => now % n \in 0..n - 1
    BY <1>1
  <2> QED BY <1>2, <2>1 DEF n
<1> QED BY <1>1, <1>2, <1>3

\* Fresh buckets hold what nothing was counted of.
LEMMA AllocatedHolds ==
  ASSUME HealthTypeOK, BucketsFollow
  PROVE  /\ Holds(Allocated, BucketCount, log, since, now) /\ Allocated # <<>>
         /\ Allocated \in [0..BucketCount - 1 -> Buckets]
<1>1. BucketCount \in Nat \ {0} /\ now \in Nat \ {0}
  BY BucketType
<1>2. log \in Seq(Outcomes) /\ since \in Nat /\ DOMAIN log = 1..Len(log)
  <2>1. log \in Seq(Outcomes) /\ since \in 0..Len(log)
    BY DEF HealthTypeOK
  <2> QED BY <2>1
<1>3. CASE buckets # <<>>
  <2>1. buckets \in [0..BucketCount - 1 -> Buckets]
    BY <1>3 DEF HealthTypeOK
  <2>2. Allocated = buckets
    BY <2>1 DEF Allocated
  <2> QED BY <1>3, <2>1, <2>2 DEF BucketsFollow
<1>4. CASE buckets = <<>>
  <2> DEFINE al == [i \in 0..BucketCount - 1 |-> NoBucket]
  <2>1. DOMAIN buckets # 0..BucketCount - 1
    <3>1. 0 \in 0..BucketCount - 1
      BY <1>1
    <3> QED BY <1>4, <3>1
  <2>2. Allocated = al
    BY <2>1 DEF Allocated
  <2>3. al \in [0..BucketCount - 1 -> Buckets] /\ \A i \in 0..BucketCount - 1 : al[i] = NoBucket
    BY DEF NoBucket, Buckets
  <2>4. al # <<>>
    <3>1. 0 \in DOMAIN al
      BY <1>1
    <3> QED BY <3>1
  <2> HIDE DEF al
  <2>5. since = Len(log) /\ \A k \in DOMAIN log : 1 <= log[k].at /\ log[k].at <= now
    BY <1>4 DEF BucketsFollow, Holds
  <2>6. (since + 1)..Len(log) = {}
    BY <1>2, <2>5
  <2>7. \A x, ok : InSecond(log, since, x, ok) = {}
    BY <2>6 DEF InSecond
  <2>8. \A i \in 0..BucketCount - 1 :
          /\ al[i].second <= now
          /\ al[i].second # 0 => al[i].second % BucketCount = i
          /\ al[i].replies = Cardinality(InSecond(log, since, al[i].second, TRUE))
          /\ al[i].losses = Cardinality(InSecond(log, since, al[i].second, FALSE))
    <3> SUFFICES ASSUME NEW i \in 0..BucketCount - 1
                 PROVE  /\ al[i].second <= now /\ al[i].second = 0
                        /\ al[i].replies = Cardinality(InSecond(log, since, al[i].second, TRUE))
                        /\ al[i].losses = Cardinality(InSecond(log, since, al[i].second, FALSE))
      OBVIOUS
    <3>1. al[i].second = 0 /\ al[i].replies = 0 /\ al[i].losses = 0
      BY <2>3 DEF NoBucket
    <3>2. /\ Cardinality(InSecond(log, since, al[i].second, TRUE)) = 0
          /\ Cardinality(InSecond(log, since, al[i].second, FALSE)) = 0
      BY <2>7, FS_EmptySet, Zenon
    <3>3. al[i].second <= now
      BY <1>1, <3>1
    <3> QED BY <3>1, <3>2, <3>3, Zenon
  <2>9. Holds(al, BucketCount, log, since, now)
    BY <2>3, <2>4, <2>5, <2>6, <2>8 DEF Holds
  <2> QED BY <2>2, <2>3, <2>4, <2>9
<1> QED BY <1>3, <1>4

\* The outcomes of a second after one more.
LEMMA InSecondOn ==
  ASSUME NEW lg \in Seq(Outcomes), NEW o \in Outcomes, NEW from \in 0..Len(lg), NEW x, NEW ok
  PROVE  /\ o.at = x /\ o.ok = ok =>
              Cardinality(InSecond(Append(lg, o), from, x, ok)) = Cardinality(InSecond(lg, from, x, ok)) + 1
         /\ ~(o.at = x /\ o.ok = ok) => InSecond(Append(lg, o), from, x, ok) = InSecond(lg, from, x, ok)
<1> DEFINE new == Append(lg, o)
           L == Len(lg)
<1>1. /\ L \in Nat /\ Len(new) = L + 1 /\ new[L + 1] = o /\ \A k \in 1..L : new[k] = lg[k]
  OBVIOUS
<1> HIDE DEF new
<1>2. ASSUME NEW k \in (from + 1)..L
      PROVE  new[k] = lg[k] /\ k \in (from + 1)..(L + 1)
  BY <1>1
<1>3. (from + 1)..(L + 1) = ((from + 1)..L) \cup {L + 1} /\ L + 1 \notin (from + 1)..L
  BY <1>1
<1>4. ASSUME o.at = x, o.ok = ok
      PROVE  InSecond(new, from, x, ok) = InSecond(lg, from, x, ok) \cup {L + 1}
  BY <1>1, <1>2, <1>3, <1>4 DEF InSecond
<1>5. ASSUME ~(o.at = x /\ o.ok = ok)
      PROVE  InSecond(new, from, x, ok) = InSecond(lg, from, x, ok)
  BY <1>1, <1>2, <1>3, <1>5 DEF InSecond
<1>6. IsFiniteSet(InSecond(lg, from, x, ok)) /\ L + 1 \notin InSecond(lg, from, x, ok)
  <2>1. from \in Nat
    OBVIOUS
  <2>2. IsFiniteSet(InSecond(lg, from, x, ok))
    BY <2>1, FiniteCounts
  <2>3. L + 1 \notin InSecond(lg, from, x, ok)
    BY <1>3 DEF InSecond
  <2> QED BY <2>2, <2>3
<1>7. Cardinality(InSecond(lg, from, x, ok) \cup {L + 1}) = Cardinality(InSecond(lg, from, x, ok)) + 1
  BY <1>6, FS_AddElement
<1> QED BY <1>4, <1>5, <1>7 DEF new

\* Counting an outcome keeps every bucket the tally of its second: a bucket of an
\* older second is emptied first, and one of this second was not.
LEMMA CountedHolds ==
  ASSUME HealthTypeOK, BucketsFollow, NEW o \in Outcomes
  PROVE  o.at = now =>
           /\ Holds(Counted(o.ok), BucketCount, Append(log, o), since, now)
           /\ Counted(o.ok) \in [0..BucketCount - 1 -> Buckets]
<1>0. SUFFICES ASSUME o.at = now, NEW n, n = BucketCount, NEW bs, bs = Allocated, NEW ns, ns = Counted(o.ok),
                    NEW new, new = Append(log, o), NEW c, c = now % BucketCount
             PROVE  /\ Holds(ns, n, new, since, now)
                    /\ ns \in [0..n - 1 -> Buckets]
  OBVIOUS
<1>1. /\ n \in Nat \ {0} /\ now \in Nat \ {0} /\ c \in 0..n - 1
  BY <1>0, BucketType
<1>2. /\ bs \in [0..n - 1 -> Buckets] /\ bs # <<>> /\ Holds(bs, n, log, since, now)
  BY <1>0, AllocatedHolds
<1>3. /\ log \in Seq(Outcomes) /\ since \in 0..Len(log) /\ Len(log) \in Nat /\ DOMAIN log = 1..Len(log)
      /\ Len(new) = Len(log) + 1 /\ DOMAIN new = 1..(Len(log) + 1)
      /\ new[Len(log) + 1] = o /\ \A k \in 1..Len(log) : new[k] = log[k]
  <2>1. log \in Seq(Outcomes) /\ since \in 0..Len(log)
    BY DEF HealthTypeOK
  <2> QED BY <1>0, <2>1
<1>4. o.ok \in BOOLEAN
  BY DEF Outcomes
<1>5. /\ bs[c].second \in Nat /\ bs[c].replies \in Nat /\ bs[c].losses \in Nat
      /\ bs[c] = [second |-> bs[c].second, replies |-> bs[c].replies, losses |-> bs[c].losses]
  BY <1>1, <1>2 DEF Buckets
<1>a. SUFFICES ASSUME NEW b, b = Current(bs[c])
             PROVE  /\ Holds(ns, n, new, since, now)
                    /\ ns \in [0..n - 1 -> Buckets]
  OBVIOUS
\* The bucket of this second, emptied or not, is its tally so far.
<1>6. b \in Buckets /\ b.second = now /\ b.replies \in Nat /\ b.losses \in Nat
  <2>1. CASE bs[c].second = now
    <3>1. b = bs[c]
      BY <1>a, <2>1 DEF Current
    <3>2. bs[c] \in Buckets
      BY <1>1, <1>2
    <3> QED BY <1>5, <2>1, <3>1, <3>2
  <2>2. CASE bs[c].second # now
    <3>1. b = [second |-> now, replies |-> 0, losses |-> 0]
      BY <1>a, <2>2 DEF Current, NoBucket
    <3> QED BY <1>1, <3>1 DEF Buckets
  <2> QED BY <2>1, <2>2
<1>7. /\ b.replies = Cardinality(InSecond(log, since, now, TRUE))
      /\ b.losses = Cardinality(InSecond(log, since, now, FALSE))
  <2>1. CASE bs[c].second = now
    <3>1. b = bs[c]
      BY <1>a, <2>1 DEF Current
    <3>2. /\ bs[c].replies = Cardinality(InSecond(log, since, bs[c].second, TRUE))
          /\ bs[c].losses = Cardinality(InSecond(log, since, bs[c].second, FALSE))
      BY <1>1, <1>2 DEF Holds
    <3> QED BY <2>1, <3>1, <3>2, Zenon
  <2>2. CASE bs[c].second # now
    <3>1. b.replies = 0 /\ b.losses = 0
      BY <1>a, <2>2 DEF Current, NoBucket
    <3>2. \A k \in (since + 1)..Len(log) : log[k].at # now
      <4> SUFFICES ASSUME NEW k \in (since + 1)..Len(log), log[k].at = now PROVE FALSE
        OBVIOUS
      <4>1. bs[c].second >= now
        BY <1>0, <1>2 DEF Holds
      <4>2. bs[c].second <= now
        BY <1>1, <1>2 DEF Holds
      <4> QED BY <1>1, <1>5, <2>2, <4>1, <4>2
    <3>3. \A ok : InSecond(log, since, now, ok) = {}
      BY <3>2 DEF InSecond
    <3>4. \A ok : Cardinality(InSecond(log, since, now, ok)) = 0
      BY <3>3, FS_EmptySet
    <3> QED BY <3>1, <3>4, Zenon
  <2> QED BY <2>1, <2>2, Zenon
<1>b. SUFFICES ASSUME NEW d, d = [second |-> now,
                                replies |-> IF o.ok THEN b.replies + 1 ELSE b.replies,
                                losses |-> IF o.ok THEN b.losses ELSE b.losses + 1]
             PROVE  /\ Holds(ns, n, new, since, now)
                    /\ ns \in [0..n - 1 -> Buckets]
  OBVIOUS
<1>8. ns = [bs EXCEPT ![c] = d]
  <2>1. Tally(b, o.ok) = d
    <3>1. b = [second |-> now, replies |-> b.replies, losses |-> b.losses]
      BY <1>6 DEF Buckets
    <3>2. CASE o.ok
      <4>1. d = [second |-> now, replies |-> b.replies + 1, losses |-> b.losses]
        BY <1>b, <3>2
      <4>2. [b EXCEPT !.replies = b.replies + 1] = [second |-> now, replies |-> b.replies + 1, losses |-> b.losses]
        BY <3>1
      <4> QED BY <3>2, <4>1, <4>2 DEF Tally
    <3>3. CASE ~o.ok
      <4>1. d = [second |-> now, replies |-> b.replies, losses |-> b.losses + 1]
        BY <1>b, <3>3
      <4>2. [b EXCEPT !.losses = b.losses + 1] = [second |-> now, replies |-> b.replies, losses |-> b.losses + 1]
        BY <3>1
      <4> QED BY <3>3, <4>1, <4>2 DEF Tally
    <3> QED BY <3>2, <3>3
  <2>2. Counted(o.ok) = [Allocated EXCEPT ![now % BucketCount] = Tally(Current(Allocated[now % BucketCount]), o.ok)]
    BY DEF Counted
  <2> QED BY <1>0, <1>a, <2>1, <2>2
<1>9. d \in Buckets /\ d.second = now
  <2>1. now \in Nat /\ d.second = now
    BY <1>1, <1>b
  <2>2. (IF o.ok THEN b.replies + 1 ELSE b.replies) \in Nat
    BY <1>6
  <2>3. (IF o.ok THEN b.losses ELSE b.losses + 1) \in Nat
    BY <1>6
  <2> QED BY <1>b, <2>1, <2>2, <2>3 DEF Buckets
<1>10. /\ ns \in [0..n - 1 -> Buckets] /\ ns[c] = d /\ \A i \in 0..n - 1 : i # c => ns[i] = bs[i]
  BY <1>1, <1>2, <1>8, <1>9
<1>11. ns # <<>>
  <2>1. c \in DOMAIN ns
    BY <1>1, <1>10
  <2> QED BY <2>1
<1>12. \A x, ok : /\ now = x /\ o.ok = ok =>
                       Cardinality(InSecond(new, since, x, ok)) = Cardinality(InSecond(log, since, x, ok)) + 1
                  /\ ~(now = x /\ o.ok = ok) => InSecond(new, since, x, ok) = InSecond(log, since, x, ok)
  BY <1>0, <1>3, InSecondOn
<1>13. ASSUME NEW i \in 0..n - 1
       PROVE  /\ ns[i].second <= now
              /\ ns[i].second # 0 => ns[i].second % n = i
              /\ ns[i].replies = Cardinality(InSecond(new, since, ns[i].second, TRUE))
              /\ ns[i].losses = Cardinality(InSecond(new, since, ns[i].second, FALSE))
  <2>1. CASE i # c
    <3>1. /\ ns[i] = bs[i] /\ bs[i].second \in Nat /\ bs[i].second <= now
          /\ bs[i].second # 0 => bs[i].second % n = i
          /\ bs[i].replies = Cardinality(InSecond(log, since, bs[i].second, TRUE))
          /\ bs[i].losses = Cardinality(InSecond(log, since, bs[i].second, FALSE))
      <4>1. ns[i] = bs[i]
        BY <1>10, <2>1
      <4>2. bs[i].second \in Nat
        BY <1>2 DEF Buckets
      <4> QED BY <1>2, <4>1, <4>2 DEF Holds
    <3>2. now # bs[i].second
      BY <1>0, <1>1, <2>1, <3>1
    <3>3. \A ok : InSecond(new, since, bs[i].second, ok) = InSecond(log, since, bs[i].second, ok)
      BY <1>12, <3>2
    <3> QED BY <3>1, <3>3, Zenon
  <2>2. CASE i = c
    <3>1. ns[i] = d /\ d.second = now
      BY <1>9, <1>10, <2>2
    <3>2. now <= now /\ now % n = i
      BY <1>0, <1>1, <2>2
    <3>3. CASE o.ok
      <4>1. d.replies = b.replies + 1 /\ d.losses = b.losses
        BY <1>b, <3>3
      <4>2. /\ Cardinality(InSecond(new, since, now, TRUE)) = Cardinality(InSecond(log, since, now, TRUE)) + 1
            /\ InSecond(new, since, now, FALSE) = InSecond(log, since, now, FALSE)
        BY <1>12, <3>3
      <4> QED BY <1>7, <3>1, <3>2, <4>1, <4>2, Zenon
    <3>4. CASE ~o.ok
      <4>1. d.replies = b.replies /\ d.losses = b.losses + 1
        BY <1>b, <3>4
      <4>2. /\ Cardinality(InSecond(new, since, now, FALSE)) = Cardinality(InSecond(log, since, now, FALSE)) + 1
            /\ InSecond(new, since, now, TRUE) = InSecond(log, since, now, TRUE)
        BY <1>4, <1>12, <3>4
      <4> QED BY <1>7, <3>1, <3>2, <4>1, <4>2, Zenon
    <3> QED BY <3>3, <3>4
  <2> QED BY <2>1, <2>2
<1>14. ASSUME NEW k \in (since + 1)..Len(new)
       PROVE  ns[new[k].at % n].second >= new[k].at
  <2>1. CASE k = Len(log) + 1
    <3>1. new[k].at = now /\ ns[c].second = now
      BY <1>0, <1>3, <1>9, <1>10, <2>1
    <3> QED BY <1>0, <1>1, <3>1
  <2>2. CASE k # Len(log) + 1
    <3>1. k \in (since + 1)..Len(log) /\ new[k] = log[k]
      BY <1>3, <2>2
    <3>2. bs[log[k].at % n].second >= log[k].at /\ log[k].at <= now
      <4>1. bs[log[k].at % n].second >= log[k].at
        BY <1>2, <3>1 DEF Holds
      <4>2. k \in DOMAIN log
        BY <1>3, <3>1
      <4>3. log[k].at <= now
        BY <1>2, <4>2 DEF Holds
      <4> QED BY <4>1, <4>3
    <3>3. log[k].at \in Nat
      <4>1. k \in 1..Len(log)
        BY <1>3, <3>1
      <4>2. log[k] \in Outcomes
        BY <1>3, <4>1, ElementOfSeq
      <4> QED BY <4>2 DEF Outcomes
    <3>4. log[k].at % n \in 0..n - 1
      BY <1>1, <3>3
    <3>5. CASE log[k].at % n = c
      <4>1. ns[log[k].at % n].second = now
        BY <1>9, <1>10, <3>5
      <4> QED BY <1>1, <3>1, <3>2, <3>3, <4>1
    <3>6. CASE log[k].at % n # c
      <4>1. ns[log[k].at % n] = bs[log[k].at % n]
        BY <1>10, <3>4, <3>6
      <4> QED BY <3>1, <3>2, <4>1
    <3> QED BY <3>5, <3>6
  <2> QED BY <2>1, <2>2
<1>15. \A k \in DOMAIN new : 1 <= new[k].at /\ new[k].at <= now
  <2> SUFFICES ASSUME NEW k \in DOMAIN new PROVE 1 <= new[k].at /\ new[k].at <= now
    OBVIOUS
  <2>1. CASE k = Len(log) + 1
    BY <1>0, <1>1, <1>3, <2>1
  <2>2. CASE k # Len(log) + 1
    <3>1. k \in DOMAIN log /\ new[k] = log[k]
      BY <1>3, <2>2
    <3> QED BY <1>2, <3>1 DEF Holds
  <2> QED BY <2>1, <2>2
<1> QED BY <1>10, <1>11, <1>13, <1>14, <1>15 DEF Holds

-----------------------------------------------------------------------------
(* The judgment counts the window.                                         *)

LEMMA StatusIs ==
  ASSUME NEW f, NEW s, NEW r, NEW l, NEW rtt
  PROVE  Status(f, s, r, l, rtt) \in {"ok", "warn", "crit"}
<1>1. Level(r, l, rtt) \in {"ok", "warn", "crit"}
  BY DEF Level, Worst
<1> QED BY <1>1 DEF Status

\* A judgment that counts exactly the outcomes of the window.
Judges(j, lg, from, w) ==
  /\ j \in [status : Statuses, received : Nat, lost : Nat, at : Nat]
  /\ j.status \in {"ok", "warn", "crit"} /\ j.at = now
  /\ j.received = Cardinality(InWindow(lg, from, w, TRUE))
  /\ j.lost = Cardinality(InWindow(lg, from, w, FALSE))

LEMMA JudgmentIs ==
  ASSUME now \in Nat, NEW lg, NEW from, NEW w, NEW bs, NEW f, NEW s, NEW rtt,
         lg \in Seq(Outcomes) /\ from \in 0..Len(lg) /\ w \in Nat,
         Holds(bs, w + 2, lg, from, now)
  PROVE  Judges(Judgment(f, s, bs, w, rtt), lg, from, w)
<1> DEFINE j == Judgment(f, s, bs, w, rtt)
<1>1. /\ j = [status |-> Status(f, s, Received(bs, w), Lost(bs, w), rtt),
              received |-> Received(bs, w), lost |-> Lost(bs, w), at |-> now]
  BY DEF Judgment
<1> HIDE DEF j
<1>2. w + 2 \in Nat \ {0} /\ w < w + 2 /\ from \in Nat
  OBVIOUS
<1>3. /\ Received(bs, w) = Cardinality(InWindow(lg, from, w, TRUE))
      /\ Lost(bs, w) = Cardinality(InWindow(lg, from, w, FALSE))
  <2> DEFINE n == w + 2
  <2>1. n \in Nat \ {0} /\ w < n /\ Holds(bs, n, lg, from, now)
    BY <1>2
  <2> HIDE DEF n
  <2> QED BY <2>1, WindowCounts, Zenon
<1>4. \A ok : Cardinality(InWindow(lg, from, w, ok)) \in Nat
  BY <1>2, FiniteCounts
<1>5. Received(bs, w) \in Nat /\ Lost(bs, w) \in Nat
  BY <1>3, <1>4, Zenon
<1>6. Status(f, s, Received(bs, w), Lost(bs, w), rtt) \in {"ok", "warn", "crit"}
  BY StatusIs
<1>7. j \in [status : Statuses, received : Nat, lost : Nat, at : Nat]
  <2>1. ASSUME NEW a \in {"ok", "warn", "crit"}, NEW b \in Nat, NEW c \in Nat, NEW d \in Nat
        PROVE  [status |-> a, received |-> b, lost |-> c, at |-> d]
                 \in [status : Statuses, received : Nat, lost : Nat, at : Nat]
    BY DEF Statuses
  <2> QED BY <1>1, <1>5, <1>6, <2>1, Zenon
<1>8. j.status \in {"ok", "warn", "crit"} /\ j.at = now /\ j.received = Received(bs, w) /\ j.lost = Lost(bs, w)
  <2>1. /\ j.status = Status(f, s, Received(bs, w), Lost(bs, w), rtt) /\ j.at = now
        /\ j.received = Received(bs, w) /\ j.lost = Lost(bs, w)
    BY <1>1
  <2> QED BY <1>6, <2>1, Zenon
<1> QED BY <1>3, <1>7, <1>8, Zenon DEF j, Judges

\* A status judged now by the buckets of the outcomes counts exactly those of the
\* window.
LEMMA JudgedIsExact ==
  ASSUME log' \in Seq(Outcomes), since' \in 0..Len(log'), window' \in Nat, now \in Nat,
         Holds(buckets', window' + 2, log', since', now), NEW f, NEW s, NEW rtt,
         judged' = Judgment(f, s, buckets', window', rtt)
  PROVE  /\ RecentIsExact'
         /\ judged' \in [status : Statuses, received : Nat, lost : Nat, at : Nat]
<1>1. Judges(judged', log', since', window')
  <2>1. log' \in Seq(Outcomes) /\ since' \in 0..Len(log') /\ window' \in Nat
    OBVIOUS
  <2>2. Holds(buckets', window' + 2, log', since', now)
    OBVIOUS
  <2>3. Judges(Judgment(f, s, buckets', window', rtt), log', since', window')
    BY <2>1, <2>2, JudgmentIs
  <2> QED BY <2>3
<1>2. RecentIsExact'
  BY <1>1, Zenon DEF RecentIsExact, InWindow, Judges
<1>3. judged' \in [status : Statuses, received : Nat, lost : Nat, at : Nat]
  BY <1>1 DEF Judges
<1> QED BY <1>2, <1>3

LEMMA OutcomeIsExact ==
  ASSUME HealthInv, NEW o \in Outcomes, o.at = now, log' = Append(log, o), buckets' = Counted(o.ok),
         UNCHANGED <<now, window, since>>, NEW f, NEW s, NEW rtt,
         judged' = Judgment(f, s, Counted(o.ok), window, rtt)
  PROVE  /\ BucketsFollow' /\ RecentIsExact'
         /\ judged' \in [status : Statuses, received : Nat, lost : Nat, at : Nat]
         /\ buckets' \in [0..BucketCount' - 1 -> Buckets]
<1>1. HealthTypeOK /\ BucketsFollow
  BY DEF HealthInv
<1>2. /\ Holds(buckets', BucketCount, log', since, now)
      /\ buckets' \in [0..BucketCount - 1 -> Buckets]
  BY <1>1, CountedHolds
<1>3. BucketCount' = BucketCount /\ BucketCount = window' + 2 /\ window' \in Nat /\ now \in Nat
  BY <1>1, BucketType DEF BucketCount
<1>4. log' \in Seq(Outcomes) /\ since' \in 0..Len(log')
  <2>1. log \in Seq(Outcomes) /\ since \in 0..Len(log)
    BY <1>1 DEF HealthTypeOK
  <2>2. Append(log, o) \in Seq(Outcomes) /\ Len(Append(log, o)) = Len(log) + 1 /\ Len(log) \in Nat
    BY <2>1
  <2> QED BY <2>1, <2>2
<1>5. Holds(buckets', window' + 2, log', since', now)
  BY <1>2, <1>3
<1>6. judged' = Judgment(f, s, buckets', window', rtt)
  OBVIOUS
<1>7. BucketsFollow'
  BY <1>5, Zenon DEF BucketsFollow, BucketCount
<1> QED BY <1>2, <1>3, <1>4, <1>5, <1>6, <1>7, JudgedIsExact

-----------------------------------------------------------------------------
(* The steps: what an outcome is.                                          *)

Reply(rtt) == [at |-> now, ok |-> TRUE, rtt |-> rtt, why |-> ""]
Loss(why) == [at |-> now, ok |-> FALSE, rtt |-> 0, why |-> why]

LEMMA ReplyIs ==
  ASSUME HealthInv, NEW rtt \in RTTs, OnSuccess(rtt)
  PROVE  /\ Reply(rtt) \in Outcomes /\ Reply(rtt).at = now /\ Reply(rtt).ok = TRUE /\ Reply(rtt).rtt = rtt
         /\ log' = Append(log, Reply(rtt)) /\ rtt \in Nat \ {0}
<1>1. rtt \in Nat \ {0}
  BY HealthAssumption
<1>2. now \in Nat
  BY BucketType DEF HealthInv
<1>3. Reply(rtt) \in Outcomes
  BY <1>1, <1>2 DEF Reply, Outcomes
<1>4. log' = Append(log, Reply(rtt))
  BY DEF OnSuccess, Logged, Reply
<1>5. Reply(rtt).at = now /\ Reply(rtt).ok = TRUE /\ Reply(rtt).rtt = rtt
  BY DEF Reply
<1> QED BY <1>1, <1>3, <1>4, <1>5

LEMMA LossIs ==
  ASSUME HealthInv, NEW why \in Reasons, OnFailure(why)
  PROVE  /\ Loss(why) \in Outcomes /\ Loss(why).at = now /\ Loss(why).ok = FALSE /\ Loss(why).rtt = 0
         /\ log' = Append(log, Loss(why))
<1>1. now \in Nat
  BY BucketType DEF HealthInv
<1>2. Loss(why) \in Outcomes
  BY <1>1 DEF Loss, Outcomes
<1>3. log' = Append(log, Loss(why))
  BY DEF OnFailure, Logged, Loss
<1>4. Loss(why).at = now /\ Loss(why).ok = FALSE /\ Loss(why).rtt = 0
  BY DEF Loss
<1> QED BY <1>2, <1>3, <1>4

-----------------------------------------------------------------------------
(* The steps: runs of outcomes.                                            *)

LEMMA FollowingRuns ==
  (DownFollowsRuns <=> (down <=> Unavailable(log)))
BY DEF DownFollowsRuns, Unavailable, RunEndsAt, RunIn

LEMMA RunsOn ==
  ASSUME HealthInv, NEW o \in Outcomes, log' = Append(log, o),
         o.ok => failures' = 0 /\ successes' = successes + 1,
         ~o.ok => failures' = failures + 1 /\ successes' = 0,
         down' = Down(failures', successes')
  PROVE  Runs' /\ DownFollowsRuns' /\ down' \in BOOLEAN
<1>1. /\ log \in Seq(Outcomes) /\ down \in BOOLEAN /\ o.ok \in BOOLEAN
      /\ Trails(log, failures, FALSE) /\ Trails(log, successes, TRUE)
      /\ (down <=> Unavailable(log))
  <2>1. log \in Seq(Outcomes) /\ down \in BOOLEAN /\ o.ok \in BOOLEAN
    BY DEF HealthInv, HealthTypeOK, Outcomes
  <2>2. Trails(log, failures, FALSE) /\ Trails(log, successes, TRUE)
    BY DEF HealthInv, Runs
  <2>3. down <=> Unavailable(log)
    BY FollowingRuns DEF HealthInv
  <2> QED BY <2>1, <2>2, <2>3
<1>2. /\ Trails(log', IF o.ok = FALSE THEN failures + 1 ELSE 0, FALSE)
      /\ Trails(log', IF o.ok = TRUE THEN successes + 1 ELSE 0, TRUE)
  BY <1>1, TrailsOn
<1>3. Trails(log', failures', FALSE) /\ Trails(log', successes', TRUE)
  <2>1. CASE o.ok = TRUE
    BY <1>2, <2>1
  <2>2. CASE o.ok = FALSE
    BY <1>2, <2>2
  <2> QED BY <1>1, <2>1, <2>2
<1>4. Unavailable(log') <=> Failures <= failures' \/ (Unavailable(log) /\ ~(Recoveries <= successes'))
  BY <1>1, <1>3, UnavailableOn
<1>5. /\ Failures <= failures' => down' = TRUE
      /\ ~(Failures <= failures') /\ Recoveries <= successes' => down' = FALSE
      /\ ~(Failures <= failures') /\ ~(Recoveries <= successes') => down' = down
  <2>1. /\ Failures <= failures' <=> failures' >= Failures
        /\ Recoveries <= successes' <=> successes' >= Recoveries
    OBVIOUS
  <2> QED BY <2>1, Zenon DEF Down
<1>6. down' <=> Unavailable(log')
  BY <1>1, <1>4, <1>5, Zenon
<1>7. down' \in BOOLEAN
  BY <1>1, <1>5, Zenon
<1>8. Runs'
  BY <1>3 DEF Runs
<1>9. DownFollowsRuns'
  BY <1>6, Zenon DEF DownFollowsRuns, Unavailable, RunEndsAt, RunIn
<1> QED BY <1>7, <1>8, <1>9

LEMMA RunsStep ==
  ASSUME HealthInv, HealthNext
  PROVE  Runs' /\ DownFollowsRuns' /\ down' \in BOOLEAN
<1>1. ASSUME NEW rtt \in RTTs, OnSuccess(rtt)
      PROVE  Runs' /\ DownFollowsRuns' /\ down' \in BOOLEAN
  <2>1. Reply(rtt) \in Outcomes /\ Reply(rtt).ok = TRUE /\ log' = Append(log, Reply(rtt))
    BY <1>1, ReplyIs
  <2>2. failures' = 0 /\ successes' = successes + 1 /\ down' = Down(failures', successes')
    BY <1>1 DEF OnSuccess
  <2> QED BY <2>1, <2>2, RunsOn
<1>2. ASSUME NEW why \in Reasons, OnFailure(why)
      PROVE  Runs' /\ DownFollowsRuns' /\ down' \in BOOLEAN
  <2>1. Loss(why) \in Outcomes /\ Loss(why).ok = FALSE /\ log' = Append(log, Loss(why))
    BY <1>2, LossIs
  <2>2. failures' = failures + 1 /\ successes' = 0 /\ down' = Down(failures', successes')
    BY <1>2 DEF OnFailure
  <2> QED BY <2>1, <2>2, RunsOn
<1>3. ASSUME ResetHealth
      PROVE  Runs' /\ DownFollowsRuns' /\ down' \in BOOLEAN
  <2>1. log' = <<>> /\ failures' = 0 /\ successes' = 0 /\ down' = FALSE
    BY <1>3 DEF ResetHealth
  <2>2. Len(log') = 0 /\ DOMAIN log' = {}
    BY <2>1
  <2>3. Runs'
    BY <2>1, <2>2 DEF Runs, Trails
  <2>4. DownFollowsRuns'
    BY <2>1, <2>2 DEF DownFollowsRuns
  <2> QED BY <2>1, <2>3, <2>4
<1>4. ASSUME UNCHANGED <<log, failures, successes, down>>
      PROVE  Runs' /\ DownFollowsRuns' /\ down' \in BOOLEAN
  <2>1. Runs /\ DownFollowsRuns /\ down \in BOOLEAN
    BY DEF HealthInv, HealthTypeOK
  <2>2. log' = log /\ failures' = failures /\ successes' = successes /\ down' = down
    BY <1>4
  <2>3. Runs'
    BY <2>1, <2>2 DEF Runs
  <2>4. DownFollowsRuns'
    BY <2>1, <2>2, Zenon DEF DownFollowsRuns, RunEndsAt
  <2> QED BY <2>1, <2>2, <2>3, <2>4
<1>5. ASSUME NEW w \in Windows, ConfigureHealth(w)
      PROVE  UNCHANGED <<log, failures, successes, down>>
  BY <1>5 DEF ConfigureHealth
<1>6. ASSUME NEW n \in Gaps, Passes(n)
      PROVE  UNCHANGED <<log, failures, successes, down>>
  BY <1>6 DEF Passes
<1> QED BY <1>1, <1>2, <1>3, <1>4, <1>5, <1>6 DEF HealthNext

-----------------------------------------------------------------------------
(* The steps: the buckets and what is judged by them.                      *)

Judgments == [status : Statuses, received : Nat, lost : Nat, at : Nat]

LEMMA DroppedHolds ==
  ASSUME NEW n, NEW lg \in Seq(Outcomes), NEW t, \A k \in DOMAIN lg : 1 <= lg[k].at /\ lg[k].at <= t
  PROVE  Holds(<<>>, n, lg, Len(lg), t)
BY DEF Holds

LEMMA BucketsStep ==
  ASSUME HealthInv, HealthNext
  PROVE  /\ BucketsFollow' /\ RecentIsExact' /\ judged' \in Judgments
         /\ (buckets' = <<>> \/ buckets' \in [0..BucketCount' - 1 -> Buckets])
<1>0. HealthTypeOK /\ BucketsFollow /\ RecentIsExact
  BY DEF HealthInv
<1>1. ASSUME NEW rtt \in RTTs, OnSuccess(rtt)
      PROVE  /\ BucketsFollow' /\ RecentIsExact' /\ judged' \in Judgments
             /\ buckets' \in [0..BucketCount' - 1 -> Buckets]
  <2>1. /\ Reply(rtt) \in Outcomes /\ Reply(rtt).at = now /\ Reply(rtt).ok = TRUE
        /\ log' = Append(log, Reply(rtt))
    BY <1>1, ReplyIs
  <2>2. /\ buckets' = Counted(TRUE) /\ UNCHANGED <<now, window, since>>
        /\ judged' = Judgment(0, successes + 1, Counted(TRUE), window, rtt)
    BY <1>1 DEF OnSuccess
  <2>3. /\ buckets' = Counted(Reply(rtt).ok)
        /\ judged' = Judgment(0, successes + 1, Counted(Reply(rtt).ok), window, rtt)
    BY <2>1, <2>2, Zenon
  <2> QED BY <2>1, <2>2, <2>3, OutcomeIsExact, Zenon DEF Judgments
<1>2. ASSUME NEW why \in Reasons, OnFailure(why)
      PROVE  /\ BucketsFollow' /\ RecentIsExact' /\ judged' \in Judgments
             /\ buckets' \in [0..BucketCount' - 1 -> Buckets]
  <2>1. /\ Loss(why) \in Outcomes /\ Loss(why).at = now /\ Loss(why).ok = FALSE
        /\ log' = Append(log, Loss(why))
    BY <1>2, LossIs
  <2>2. /\ buckets' = Counted(FALSE) /\ UNCHANGED <<now, window, since>>
        /\ judged' = Judgment(failures + 1, 0, Counted(FALSE), window, lastRTT)
    BY <1>2 DEF OnFailure
  <2>3. /\ buckets' = Counted(Loss(why).ok)
        /\ judged' = Judgment(failures + 1, 0, Counted(Loss(why).ok), window, lastRTT)
    BY <2>1, <2>2, Zenon
  <2> QED BY <2>1, <2>2, <2>3, OutcomeIsExact, Zenon DEF Judgments
<1>3. ASSUME ResetHealth
      PROVE  /\ BucketsFollow' /\ RecentIsExact' /\ judged' \in Judgments
             /\ buckets' = <<>>
  <2>1. log' = <<>> /\ since' = 0 /\ buckets' = <<>> /\ judged' = NoJudgment
    BY <1>3 DEF ResetHealth
  <2>2. RecentIsExact'
    <3>1. judged'.status = ""
      BY <2>1 DEF NoJudgment
    <3> QED BY <3>1, Zenon DEF RecentIsExact
  <2>3. BucketsFollow'
    <3>1. <<>> \in Seq(Outcomes) /\ Len(<<>>) = 0 /\ DOMAIN <<>> = {}
      OBVIOUS
    <3> QED BY <2>1, <3>1 DEF BucketsFollow, Holds
  <2>4. NoJudgment \in Judgments
    BY DEF NoJudgment, Judgments, Statuses
  <2> QED BY <2>1, <2>2, <2>3, <2>4
<1>4. ASSUME NEW w \in Windows, ConfigureHealth(w)
      PROVE  /\ BucketsFollow' /\ RecentIsExact' /\ judged' \in Judgments
             /\ (buckets' = <<>> \/ buckets' \in [0..BucketCount' - 1 -> Buckets])
  <2>1. /\ window' = w /\ log' = log /\ now' = now
        /\ w = window => buckets' = buckets /\ since' = since
        /\ w # window => buckets' = <<>> /\ since' = Len(log)
        /\ log = <<>> => judged' = [NoJudgment EXCEPT !.status = "pending", !.at = now]
        /\ log # <<>> => judged' = Judgment(failures, successes, buckets', window', lastRTT)
    <3> DEFINE bs == IF w = window THEN buckets ELSE <<>>
    <3>1. /\ window' = w /\ UNCHANGED <<log, now>> /\ buckets' = bs
          /\ since' = IF w = window THEN since ELSE Len(log)
          /\ judged' = IF log = <<>> THEN [NoJudgment EXCEPT !.status = "pending", !.at = now]
                       ELSE Judgment(failures, successes, bs, w, lastRTT)
      BY <1>4, Zenon DEF ConfigureHealth
    <3>2. log # <<>> => judged' = Judgment(failures, successes, buckets', window', lastRTT)
      BY <3>1, Zenon
    <3>3. log = <<>> => judged' = [NoJudgment EXCEPT !.status = "pending", !.at = now]
      BY <3>1, Zenon
    <3> QED BY <3>1, <3>2, <3>3
  <2>2. log \in Seq(Outcomes) /\ since \in 0..Len(log) /\ w \in Nat /\ now \in Nat /\ BucketCount = window + 2
    <3>1. log \in Seq(Outcomes) /\ since \in 0..Len(log)
      BY <1>0 DEF HealthTypeOK
    <3>2. w \in Nat
      BY HealthAssumption
    <3> QED BY <1>0, <3>1, <3>2, BucketType DEF BucketCount
  <2>3. Holds(buckets', window' + 2, log', since', now) /\ since' \in 0..Len(log')
    <3>1. CASE w = window
      <4>1. Holds(buckets, window + 2, log, since, now)
        BY <1>0, <2>2 DEF BucketsFollow
      <4> QED BY <2>1, <2>2, <3>1, <4>1
    <3>2. CASE w # window
      <4>1. \A k \in DOMAIN log : 1 <= log[k].at /\ log[k].at <= now
        BY <1>0 DEF BucketsFollow, Holds
      <4>2. Holds(<<>>, w + 2, log, Len(log), now)
        BY <2>2, <4>1, DroppedHolds
      <4> QED BY <2>1, <2>2, <3>2, <4>2
    <3> QED BY <3>1, <3>2
  <2>4. BucketsFollow'
    BY <2>1, <2>3, Zenon DEF BucketsFollow, BucketCount
  <2>5. RecentIsExact' /\ judged' \in Judgments
    <3>1. CASE log = <<>>
      <4>1. judged' = [status |-> "pending", received |-> 0, lost |-> 0, at |-> now]
        BY <2>1, <3>1 DEF NoJudgment
      <4>2. judged'.status = "pending"
        BY <4>1
      <4>3. judged' \in Judgments
        BY <2>2, <4>1 DEF Judgments, Statuses
      <4>4. RecentIsExact'
        BY <4>2, Zenon DEF RecentIsExact
      <4> QED BY <4>3, <4>4
    <3>2. CASE log # <<>>
      BY <2>1, <2>2, <2>3, <3>2, JudgedIsExact DEF Judgments
    <3> QED BY <3>1, <3>2
  <2>6. buckets' = <<>> \/ buckets' \in [0..BucketCount' - 1 -> Buckets]
    <3>1. CASE w = window
      <4>1. BucketCount' = BucketCount /\ buckets' = buckets
        BY <2>1, <3>1 DEF BucketCount
      <4>2. buckets = <<>> \/ buckets \in [0..BucketCount - 1 -> Buckets]
        BY <1>0 DEF HealthTypeOK
      <4> QED BY <4>1, <4>2
    <3>2. CASE w # window
      BY <2>1, <3>2
    <3> QED BY <3>1, <3>2
  <2> QED BY <2>4, <2>5, <2>6
<1>5. ASSUME NEW n \in Gaps, Passes(n)
      PROVE  /\ BucketsFollow' /\ RecentIsExact' /\ judged' \in Judgments
             /\ (buckets' = <<>> \/ buckets' \in [0..BucketCount' - 1 -> Buckets])
  <2>1. /\ now' = now + n /\ window' = window /\ buckets' = buckets /\ since' = since
        /\ judged' = judged /\ log' = log /\ BucketCount' = BucketCount
    BY <1>5 DEF Passes, BucketCount
  <2>2. RecentIsExact'
    BY <1>0, <2>1, Zenon DEF RecentIsExact
  <2>3. judged \in Judgments /\ (buckets = <<>> \/ buckets \in [0..BucketCount - 1 -> Buckets])
    BY <1>0 DEF HealthTypeOK, Judgments
  <2>4. BucketsFollow'
    <3>1. now \in Nat /\ n \in Nat /\ now' >= now /\ now' \in Nat
      <4>1. n \in Nat
        BY HealthAssumption
      <4>2. now \in Nat
        BY <1>0, BucketType
      <4>3. now' = now + n
        BY <2>1
      <4> QED BY <4>1, <4>2, <4>3
    <3>2. /\ DOMAIN log = 1..Len(log) /\ \A k \in 1..Len(log) : log[k].at \in Nat
      <4>1. log \in Seq(Outcomes)
        BY <1>0 DEF HealthTypeOK
      <4>2. \A k \in 1..Len(log) : log[k] \in Outcomes
        BY <4>1, ElementOfSeq
      <4>3. \A k \in 1..Len(log) : log[k].at \in Nat
        BY <4>2 DEF Outcomes
      <4>4. DOMAIN log = 1..Len(log)
        BY <4>1
      <4> QED BY <4>3, <4>4
    <3>3. \A k \in DOMAIN log : 1 <= log[k].at /\ log[k].at <= now'
      <4>1. \A k \in DOMAIN log : 1 <= log[k].at /\ log[k].at <= now
        BY <1>0 DEF BucketsFollow, Holds
      <4> QED BY <3>1, <3>2, <4>1
    <3>4. CASE buckets = <<>>
      <4>1. since = Len(log)
        BY <1>0, <3>4 DEF BucketsFollow, Holds
      <4> QED BY <2>1, <3>3, <3>4, <4>1, Zenon DEF BucketsFollow, Holds
    <3>5. CASE buckets # <<>>
      <4>1. \A i \in 0..BucketCount - 1 : buckets[i].second \in Nat
        BY <2>3, <3>5 DEF Buckets
      <4>2. \A i \in 0..BucketCount - 1 : buckets[i].second <= now
        BY <1>0, <3>5 DEF BucketsFollow, Holds
      <4>3. \A i \in 0..BucketCount - 1 : buckets[i].second <= now'
        BY <3>1, <4>1, <4>2
      <4> QED BY <1>0, <2>1, <3>3, <3>5, <4>3, Zenon DEF BucketsFollow, Holds
    <3> QED BY <3>4, <3>5
  <2> QED BY <2>1, <2>2, <2>3, <2>4
<1> QED BY <1>1, <1>2, <1>3, <1>4, <1>5 DEF HealthNext

-----------------------------------------------------------------------------
(* The ring.                                                               *)

LEMMA LeastIs ==
  ASSUME NEW S \in SUBSET Int, NEW x \in S, \A y \in S : x <= y
  PROVE  Min(S) = x
<1>1. Min(S) \in S /\ \A y \in S : Min(S) <= y
  BY DEF Min
<1>2. Min(S) \in Int /\ x \in Int /\ x <= Min(S) /\ Min(S) <= x
  BY <1>1
<1> QED BY <1>2

LEMMA GreatestIs ==
  ASSUME NEW S \in SUBSET Int, NEW x \in S, \A y \in S : x >= y
  PROVE  Max(S) = x
<1>1. Max(S) \in S /\ \A y \in S : Max(S) >= y
  BY DEF Max
<1>2. Max(S) \in Int /\ x \in Int /\ x >= Max(S) /\ Max(S) >= x
  BY <1>1
<1> QED BY <1>2

LEMMA RemainderOfSum ==
  ASSUME NEW n \in Nat \ {0}, NEW a \in Nat, NEW b \in Nat
  PROVE  ((a % n) + b) % n = (a + b) % n
<1> DEFINE c == a % n
           q == a \div n
<1>1. c \in 0..n - 1 /\ q \in Int
  OBVIOUS
<1>2. a = (n * q) + c
  OBVIOUS
<1> HIDE DEF c, q
<1> DEFINE d == c + b
           r == d % n
           p == d \div n
<1>3. d \in Nat
  BY <1>1
<1> HIDE DEF d
<1>4. r \in 0..n - 1 /\ p \in Int
  BY <1>3
<1>5. d = (n * p) + r
  BY <1>3
<1> HIDE DEF r, p
<1>6. a + b = (n * (q + p)) + r
  BY <1>1, <1>2, <1>4, <1>5 DEF d
<1>7. (a + b) % n = r
  <2> DEFINE e == a + b
             m == q + p
  <2>1. e \in Nat /\ m \in Int /\ e = (n * m) + r
    BY <1>1, <1>4, <1>6
  <2> HIDE DEF e, m
  <2>2. e % n = r
    BY <1>4, <2>1, RemainderIs
  <2> QED BY <2>2 DEF e
<1> QED BY <1>7 DEF r, d, c

LEMMA RingType ==
  ASSUME HealthTypeOK
  PROVE  /\ HistorySize \in Nat \ {0} /\ log \in Seq(Outcomes) /\ Len(log) \in Nat /\ DOMAIN log = 1..Len(log)
         /\ ring.slot \in [0..HistorySize - 1 -> Samples] /\ ring.idx \in Nat /\ ring.len \in 0..HistorySize
         /\ \A k \in 1..Len(log) : SampleOf(k) \in Samples
<1>1. log \in Seq(Outcomes)
  BY DEF HealthTypeOK
<1>2. ring.slot \in [0..HistorySize - 1 -> Samples] /\ ring.idx \in Nat /\ ring.len \in 0..HistorySize
  BY DEF HealthTypeOK
<1>3. \A k \in 1..Len(log) : SampleOf(k) \in Samples
  <2>1. \A k \in 1..Len(log) : log[k] \in Outcomes
    BY <1>1, ElementOfSeq
  <2> QED BY <2>1 DEF SampleOf, Samples, Outcomes
<1>4. HistorySize \in Nat \ {0}
  BY HealthAssumption
<1> QED BY <1>1, <1>2, <1>3, <1>4

\* A sample goes into the slot of its number; it overwrites the one a whole ring ago.
LEMMA RingOn ==
  ASSUME HealthInv, NEW o \in Outcomes, o.at = now /\ log' = Append(log, o) /\ ring' = Pushed(o.rtt)
  PROVE  /\ RingFollows'
         /\ ring' \in [slot : [0..HistorySize - 1 -> Samples], idx : Nat, len : 0..HistorySize]
<1>0. SUFFICES ASSUME NEW H, H = HistorySize, NEW L, L = Len(log), NEW s, s = [rtt |-> o.rtt, at |-> now]
               PROVE  /\ RingFollows'
                      /\ ring' \in [slot : [0..H - 1 -> Samples], idx : Nat, len : 0..H]
  OBVIOUS
<1>1. /\ H \in Nat \ {0} /\ log \in Seq(Outcomes) /\ L \in Nat /\ DOMAIN log = 1..L
      /\ ring.slot \in [0..H - 1 -> Samples] /\ ring.len \in 0..H
  BY <1>0, RingType DEF HealthInv
<1>2. /\ ring.idx = L /\ ring.len = IF L <= H THEN L ELSE H
      /\ \A k \in 1..L : k > L - H => ring.slot[(k - 1) % H] = SampleOf(k)
  BY <1>0, <1>1 DEF HealthInv, RingFollows
<1>3. s \in Samples
  BY <1>0 DEF Outcomes, Samples
<1>4. /\ Len(log') = L + 1 /\ DOMAIN log' = 1..(L + 1) /\ log'[L + 1] = o
      /\ \A k \in 1..L : log'[k] = log[k]
  BY <1>0, <1>1
<1>5. Min({ring.len + 1, H}) = IF L + 1 <= H THEN L + 1 ELSE H
  <2> DEFINE S == {ring.len + 1, H}
  <2>1. S \in SUBSET Int /\ H \in S /\ ring.len + 1 \in S
    BY <1>1
  <2>2. CASE L + 1 <= H
    <3>1. ring.len + 1 = L + 1
      BY <1>1, <1>2, <2>2
    <3>2. \A y \in S : ring.len + 1 <= y
      BY <1>1, <2>2, <3>1
    <3>3. Min(S) = ring.len + 1
      BY <2>1, <3>2, LeastIs
    <3> QED BY <2>2, <3>1, <3>3
  <2>3. CASE ~(L + 1 <= H)
    <3>1. ring.len = H
      BY <1>1, <1>2, <2>3
    <3>2. \A y \in S : H <= y
      BY <1>1, <3>1
    <3>3. Min(S) = H
      BY <2>1, <3>2, LeastIs
    <3> QED BY <2>3, <3>3
  <2> QED BY <2>2, <2>3
<1>6. L % H \in 0..H - 1
  BY <1>1
<1>7. ring' = [slot |-> [ring.slot EXCEPT ![L % H] = s], idx |-> L + 1,
               len |-> IF L + 1 <= H THEN L + 1 ELSE H]
  BY <1>0, <1>2, <1>5, Zenon DEF Pushed
<1>8. /\ ring'.slot = [ring.slot EXCEPT ![L % H] = s] /\ ring'.idx = L + 1
      /\ ring'.len = IF L + 1 <= H THEN L + 1 ELSE H
  BY <1>7
<1>9. ring' \in [slot : [0..H - 1 -> Samples], idx : Nat, len : 0..H]
  <2>1. [ring.slot EXCEPT ![L % H] = s] \in [0..H - 1 -> Samples]
    BY <1>1, <1>3, <1>6
  <2>2. L + 1 \in Nat /\ (IF L + 1 <= H THEN L + 1 ELSE H) \in 0..H
    BY <1>1
  <2> HIDE DEF Samples
  <2> QED BY <1>7, <2>1, <2>2
<1>10. ASSUME NEW k \in 1..(L + 1), k > L + 1 - H
       PROVE  ring'.slot[(k - 1) % H] = [rtt |-> log'[k].rtt, at |-> log'[k].at]
  <2>1. CASE k = L + 1
    <3>1. (k - 1) % H = L % H /\ log'[k] = o
      BY <1>1, <1>4, <2>1
    <3>2. ring'.slot[L % H] = s
      BY <1>1, <1>6, <1>8
    <3> QED BY <1>0, <3>1, <3>2
  <2>2. CASE k # L + 1
    <3>1. k \in 1..L /\ k > L - H
      BY <1>1, <1>10, <2>2
    <3>2. (k - 1) % H # L % H
      <4> SUFFICES ASSUME (k - 1) % H = L % H PROVE FALSE
        OBVIOUS
      <4> DEFINE m == k - 1
      <4>1. m \in Nat /\ m <= L /\ L < m + H /\ m # L
        BY <1>1, <1>10, <3>1
      <4>2. m % H = L % H
        OBVIOUS
      <4> HIDE DEF m
      <4>3. m = L
        BY <1>1, <4>1, <4>2, SameRemainder
      <4> QED BY <4>1, <4>3
    <3>3. (k - 1) % H \in 0..H - 1
      <4> DEFINE m == k - 1
      <4>1. m \in Nat
        BY <3>1
      <4> HIDE DEF m
      <4>2. m % H \in 0..H - 1
        BY <1>1, <4>1
      <4> QED BY <4>2 DEF m
    <3>4. ring'.slot[(k - 1) % H] = ring.slot[(k - 1) % H]
      BY <1>1, <1>8, <3>2, <3>3
    <3> QED BY <1>2, <1>4, <3>1, <3>4 DEF SampleOf
  <2> QED BY <2>1, <2>2
<1>11. RingFollows'
  <2>1. Len(log') <= H <=> L + 1 <= H
    BY <1>4
  <2>2. ring'.idx = Len(log') /\ ring'.len = IF Len(log') <= H THEN Len(log') ELSE H
    BY <1>4, <1>8
  <2>3. \A k \in DOMAIN log' : k > Len(log') - H => ring'.slot[(k - 1) % H] = [rtt |-> log'[k].rtt, at |-> log'[k].at]
    <3> SUFFICES ASSUME NEW k \in DOMAIN log', k > Len(log') - H
                 PROVE  ring'.slot[(k - 1) % H] = [rtt |-> log'[k].rtt, at |-> log'[k].at]
      OBVIOUS
    <3>1. k \in 1..(L + 1) /\ k > L + 1 - H
      BY <1>1, <1>4
    <3> QED BY <1>10, <3>1, Zenon
  <2> QED BY <1>0, <2>2, <2>3 DEF RingFollows, SampleOf
<1> QED BY <1>9, <1>11

LEMMA RingStep ==
  ASSUME HealthInv, HealthNext
  PROVE  /\ RingFollows'
         /\ ring' \in [slot : [0..HistorySize - 1 -> Samples], idx : Nat, len : 0..HistorySize]
<1> DEFINE Rings == [slot : [0..HistorySize - 1 -> Samples], idx : Nat, len : 0..HistorySize]
<1>0. RingFollows /\ ring \in Rings /\ HistorySize \in Nat \ {0}
  BY HealthAssumption DEF HealthInv, HealthTypeOK
<1>1. ASSUME NEW rtt \in RTTs, OnSuccess(rtt)
      PROVE  RingFollows' /\ ring' \in Rings
  <2>1. /\ Reply(rtt) \in Outcomes /\ Reply(rtt).at = now /\ Reply(rtt).rtt = rtt
        /\ log' = Append(log, Reply(rtt))
    BY <1>1, ReplyIs
  <2>2. ring' = Pushed(Reply(rtt).rtt)
    BY <1>1, <2>1, Zenon DEF OnSuccess
  <2> QED BY <2>1, <2>2, RingOn, Zenon
<1>2. ASSUME NEW why \in Reasons, OnFailure(why)
      PROVE  RingFollows' /\ ring' \in Rings
  <2>1. /\ Loss(why) \in Outcomes /\ Loss(why).at = now /\ Loss(why).rtt = 0
        /\ log' = Append(log, Loss(why))
    BY <1>2, LossIs
  <2>2. ring' = Pushed(Loss(why).rtt)
    BY <1>2, <2>1, Zenon DEF OnFailure
  <2> QED BY <2>1, <2>2, RingOn, Zenon
<1>3. ASSUME ResetHealth
      PROVE  RingFollows' /\ ring' \in Rings
  <2>1. log' = <<>> /\ ring' = NoRing
    BY <1>3 DEF ResetHealth
  <2>2. Len(log') = 0 /\ DOMAIN log' = {}
    BY <2>1
  <2>3. NoRing.idx = 0 /\ NoRing.len = 0
    BY DEF NoRing
  <2>4. NoRing \in Rings
    <3>1. [i \in 0..HistorySize - 1 |-> [rtt |-> 0, at |-> 0]] \in [0..HistorySize - 1 -> Samples]
      BY DEF Samples
    <3>2. 0 \in Nat /\ 0 \in 0..HistorySize
      BY <1>0
    <3> HIDE DEF Samples
    <3> QED BY <3>1, <3>2 DEF NoRing
  <2>5. RingFollows'
    <3>1. ring'.idx = Len(log') /\ ring'.len = IF Len(log') <= HistorySize THEN Len(log') ELSE HistorySize
      BY <1>0, <2>1, <2>2, <2>3
    <3> QED BY <2>2, <3>1 DEF RingFollows
  <2> QED BY <2>1, <2>4, <2>5
<1>4. ASSUME UNCHANGED <<log, ring>>
      PROVE  RingFollows' /\ ring' \in Rings
  <2>1. log' = log /\ ring' = ring
    BY <1>4
  <2> QED BY <1>0, <2>1, Zenon DEF RingFollows, SampleOf
<1>5. ASSUME NEW w \in Windows, ConfigureHealth(w)
      PROVE  UNCHANGED <<log, ring>>
  BY <1>5 DEF ConfigureHealth
<1>6. ASSUME NEW n \in Gaps, Passes(n)
      PROVE  UNCHANGED <<log, ring>>
  BY <1>6 DEF Passes
<1> HIDE DEF Rings
<1>7. RingFollows' /\ ring' \in Rings
  BY <1>1, <1>2, <1>3, <1>4, <1>5, <1>6 DEF HealthNext
<1> QED BY <1>7 DEF Rings

\* Read back from any slot the ring has been pushed to, the last n samples are the
\* tail of the outcomes.
LEMMA RingIsTail ==
  ASSUME HealthInv
  PROVE  HistoryIsTail
<1>a. SUFFICES ASSUME NEW n \in 0..HistorySize + 1
               PROVE  LET k == Min({n, HistorySize, Len(log)}) IN
                      HistoryWindow(n) = [i \in 1..k |-> [rtt |-> log[Len(log) - k + i].rtt,
                                                          at |-> log[Len(log) - k + i].at]]
  BY DEF HistoryIsTail
<1> DEFINE H == HistorySize
           L == Len(log)
           k == Min({n, H, L})
<1>0. HistorySize = H /\ Len(log) = L /\ k = Min({n, H, L}) /\ n \in 0..H + 1
  OBVIOUS
<1> SUFFICES HistoryWindow(n) = [i \in 1..k |-> [rtt |-> log[L - k + i].rtt, at |-> log[L - k + i].at]]
  OBVIOUS
<1> HIDE DEF H, L, k
<1>1. /\ H \in Nat \ {0} /\ log \in Seq(Outcomes) /\ L \in Nat /\ DOMAIN log = 1..L
      /\ n \in Nat
  BY <1>0, RingType DEF HealthInv
<1>2. /\ ring.idx = L /\ ring.len = IF L <= H THEN L ELSE H
      /\ \A j \in 1..L : j > L - H => ring.slot[(j - 1) % H] = SampleOf(j)
  BY <1>0, <1>1 DEF HealthInv, RingFollows
<1>3. \E m \in {n, H, L} : \A y \in {n, H, L} : m <= y
  <2>1. CASE n <= H /\ n <= L
    BY <1>1, <2>1
  <2>2. CASE H <= n /\ H <= L
    BY <1>1, <2>2
  <2>3. CASE L <= n /\ L <= H
    BY <1>1, <2>3
  <2> QED BY <1>1, <2>1, <2>2, <2>3
<1>4. k \in {n, H, L} /\ k <= n /\ k <= H /\ k <= L
  <2>1. PICK m \in {n, H, L} : \A y \in {n, H, L} : m <= y
    BY <1>3
  <2>2. {n, H, L} \in SUBSET Int
    BY <1>1
  <2>3. Min({n, H, L}) = m
    BY <2>1, <2>2, LeastIs
  <2> QED BY <1>0, <2>1, <2>3
<1>5. k \in Nat /\ Min({n, ring.len}) = k
  <2> DEFINE S == {n, ring.len}
  <2>1. ring.len \in Nat /\ S \in SUBSET Int /\ k \in Nat
    BY <1>1, <1>2, <1>4
  <2>2. k \in S /\ \A y \in S : k <= y
    BY <1>1, <1>2, <1>4
  <2> HIDE DEF S
  <2>3. Min(S) = k
    BY <2>1, <2>2, LeastIs
  <2> QED BY <2>1, <2>3 DEF S
<1> DEFINE first == IF ring.len < H THEN ring.len - k ELSE (((ring.idx - k) % H) + H) % H
<1>6. HistoryWindow(n) = [i \in 1..k |-> ring.slot[(first + i - 1) % H]]
  BY <1>0, <1>5, Zenon DEF HistoryWindow
<1>7. ASSUME NEW i \in 1..k
      PROVE  (first + i - 1) % H = (L - k + i - 1) % H
  <2>1. CASE ring.len < H
    <3>1. ring.len = L
      BY <1>1, <1>2, <2>1
    <3>2. first = L - k
      BY <2>1, <3>1
    <3> QED BY <3>2
  <2>2. CASE ~(ring.len < H)
    <3> DEFINE a == L - k
               c == a % H
               b == i - 1
    <3>1. a \in Nat /\ b \in Nat
      BY <1>1, <1>4, <1>5
    <3>2. first = (c + H) % H
      BY <1>2, <2>2
    <3> HIDE DEF first, a, b
    <3>3. c \in Nat /\ c \in 0..H - 1
      BY <1>1, <3>1
    <3>4. (c + H) % H = c
      <4> DEFINE e == c + H
      <4>1. e \in Nat /\ e = (H * 1) + c
        BY <1>1, <3>3
      <4> HIDE DEF e, c
      <4>2. e % H = c
        BY <1>1, <3>3, <4>1, RemainderIs
      <4> QED BY <4>2 DEF e
    <3>5. (c + b) % H = (a + b) % H
      BY <1>1, <3>1, RemainderOfSum
    <3> HIDE DEF c
    <3>6. first + i - 1 = c + b /\ L - k + i - 1 = a + b
      BY <1>1, <1>5, <3>2, <3>3, <3>4 DEF a, b
    <3> QED BY <3>5, <3>6
  <2> QED BY <2>1, <2>2
<1> HIDE DEF first
<1>8. ASSUME NEW i \in 1..k
      PROVE  ring.slot[(first + i - 1) % H] = [rtt |-> log[L - k + i].rtt, at |-> log[L - k + i].at]
  <2> DEFINE j == L - k + i
  <2>1. j \in 1..L /\ j > L - H /\ j - 1 = L - k + i - 1
    BY <1>1, <1>4, <1>5
  <2>2. ring.slot[(j - 1) % H] = SampleOf(j)
    BY <1>2, <2>1
  <2> QED BY <1>7, <2>1, <2>2 DEF SampleOf
<1> QED BY <1>6, <1>8

-----------------------------------------------------------------------------
(* The extremes.                                                           *)

LEMMA LogOn ==
  ASSUME HealthTypeOK, NEW o \in Outcomes, log' = Append(log, o)
  PROVE  /\ log \in Seq(Outcomes) /\ Len(log) \in Nat /\ DOMAIN log = 1..Len(log)
         /\ log' \in Seq(Outcomes) /\ Len(log') = Len(log) + 1 /\ DOMAIN log' = 1..(Len(log) + 1)
         /\ log'[Len(log) + 1] = o /\ \A k \in 1..Len(log) : log'[k] = log[k]
<1>1. log \in Seq(Outcomes)
  BY DEF HealthTypeOK
<1> QED BY <1>1

\* A loss leaves the replies as they were.
LEMMA RepliesAfterLoss ==
  ASSUME HealthTypeOK, NEW o \in Outcomes, log' = Append(log, o), o.ok = FALSE
  PROVE  Replied' = Replied /\ RTTOf' = RTTOf /\ \A i \in Replied : log'[i].rtt = log[i].rtt
<1>1. /\ Len(log) \in Nat /\ DOMAIN log = 1..Len(log) /\ DOMAIN log' = 1..(Len(log) + 1)
      /\ log'[Len(log) + 1] = o /\ \A k \in 1..Len(log) : log'[k] = log[k]
  BY LogOn
<1>2. Replied' = Replied
  <2>1. ASSUME NEW i
        PROVE  i \in Replied' <=> i \in Replied
    <3>1. i \in Replied' <=> i \in 1..(Len(log) + 1) /\ log'[i].ok
      BY <1>1, Zenon DEF Replied
    <3>2. i \in Replied <=> i \in 1..Len(log) /\ log[i].ok
      BY <1>1, Zenon DEF Replied
    <3>3. CASE i = Len(log) + 1
      <4>1. ~(log'[i].ok) /\ i \notin 1..Len(log)
        BY <1>1, <3>3
      <4> QED BY <3>1, <3>2, <4>1, Zenon
    <3>4. CASE i # Len(log) + 1
      <4>1. i \in 1..(Len(log) + 1) <=> i \in 1..Len(log)
        BY <1>1, <3>4
      <4> QED BY <1>1, <3>1, <3>2, <4>1, Zenon
    <3> QED BY <3>3, <3>4
  <2> QED BY <2>1
<1>3. \A i \in Replied : log'[i].rtt = log[i].rtt
  BY <1>1 DEF Replied
<1>4. RTTOf' = RTTOf
  BY <1>2, <1>3 DEF RTTOf
<1> QED BY <1>2, <1>3, <1>4

\* A reply adds itself to them.
LEMMA RepliesAfterReply ==
  ASSUME HealthTypeOK, NEW o \in Outcomes, log' = Append(log, o), o.ok = TRUE, IsFiniteSet(Units(RTTOf))
  PROVE  /\ Replied' = Replied \cup {Len(log) + 1} /\ Cardinality(Replied') = Cardinality(Replied) + 1
         /\ log'[Len(log) + 1].rtt = o.rtt /\ \A i \in Replied : log'[i].rtt = log[i].rtt
         /\ IsFiniteSet(Units(RTTOf')) /\ Cardinality(Units(RTTOf')) = Cardinality(Units(RTTOf)) + o.rtt
<1>0. SUFFICES ASSUME NEW m, m = Len(log) + 1
      PROVE  /\ Replied' = Replied \cup {m} /\ Cardinality(Replied') = Cardinality(Replied) + 1
             /\ log'[m].rtt = o.rtt /\ \A i \in Replied : log'[i].rtt = log[i].rtt
             /\ IsFiniteSet(Units(RTTOf')) /\ Cardinality(Units(RTTOf')) = Cardinality(Units(RTTOf)) + o.rtt
  OBVIOUS
<1>1. /\ Len(log) \in Nat /\ m \in Nat /\ DOMAIN log = 1..Len(log) /\ DOMAIN log' = 1..m
      /\ log'[m] = o /\ \A k \in 1..Len(log) : log'[k] = log[k]
  BY <1>0, LogOn
<1>2. 1..m = (1..Len(log)) \cup {m} /\ m \notin 1..Len(log)
  BY <1>0, <1>1
<1>3. Replied' = Replied \cup {m} /\ m \notin Replied
  <2>1. ASSUME NEW i
        PROVE  i \in Replied' <=> i \in Replied \/ i = m
    <3>1. i \in Replied' <=> i \in 1..m /\ log'[i].ok
      BY <1>1, Zenon DEF Replied
    <3>2. i \in Replied <=> i \in 1..Len(log) /\ log[i].ok
      BY <1>1, Zenon DEF Replied
    <3>3. CASE i = m
      <4>1. log'[i].ok = TRUE /\ i \in 1..m
        BY <1>1, <1>2, <3>3
      <4> QED BY <3>1, <3>3, <4>1, Zenon
    <3>4. CASE i # m
      <4>1. i \in 1..m <=> i \in 1..Len(log)
        BY <1>2, <3>4
      <4> QED BY <1>1, <3>1, <3>2, <3>4, <4>1, Zenon
    <3> QED BY <3>3, <3>4
  <2>2. m \notin Replied
    BY <1>1, <1>2 DEF Replied
  <2> QED BY <2>1, <2>2
<1>4. IsFiniteSet(Replied)
  <2>1. Replied \in SUBSET (1..Len(log)) /\ IsFiniteSet(1..Len(log))
    BY <1>1, FS_Interval DEF Replied
  <2> QED BY <2>1, FS_Subset
<1>5. Cardinality(Replied') = Cardinality(Replied) + 1
  BY <1>3, <1>4, FS_AddElement
<1>6. \A i \in Replied : log'[i].rtt = log[i].rtt
  BY <1>1 DEF Replied
<1> DEFINE r == o.rtt
           new == {m} \X (1..r)
<1>7. r \in Nat
  BY DEF Outcomes
<1>8. Units(RTTOf') = Units(RTTOf) \cup new
  <2>1. DOMAIN RTTOf' = Replied \cup {m} /\ RTTOf'[m] = r
    BY <1>1, <1>3 DEF RTTOf
  <2>2. DOMAIN RTTOf = Replied /\ \A i \in Replied : RTTOf'[i] = RTTOf[i]
    BY <1>3, <1>6 DEF RTTOf
  <2> HIDE DEF r
  <2>3. ASSUME NEW p
        PROVE  p \in Units(RTTOf') <=> p \in Units(RTTOf) \/ p \in new
    <3>1. p \in Units(RTTOf') <=> \E i \in Replied \cup {m} : p \in {i} \X (1..RTTOf'[i])
      BY <2>1, Zenon DEF Units
    <3>2. p \in Units(RTTOf) <=> \E i \in Replied : p \in {i} \X (1..RTTOf[i])
      BY <2>2, Zenon DEF Units
    <3> QED BY <2>1, <2>2, <3>1, <3>2, Zenon
  <2> QED BY <2>3
<1>9. Units(RTTOf) \cap new = {}
  <2> SUFFICES ASSUME NEW p \in Units(RTTOf), p \in new PROVE FALSE
    OBVIOUS
  <2>1. PICK i \in Replied : p \in {i} \X (1..RTTOf[i])
    <3>1. DOMAIN RTTOf = Replied
      BY DEF RTTOf
    <3> QED BY <3>1, Zenon DEF Units
  <2>2. p[1] = i /\ p[1] = m
    BY <2>1
  <2> QED BY <1>3, <2>2
<1>10. IsFiniteSet(new) /\ Cardinality(new) = r
  <2> HIDE DEF r
  <2>1. IsFiniteSet(1..r) /\ Cardinality(1..r) = r
    <3>1. 1 \in Int /\ r \in Int
      BY <1>7
    <3>2. IsFiniteSet(1..r) /\ Cardinality(1..r) = IF 1 > r THEN 0 ELSE r - 1 + 1
      BY <3>1, FS_Interval
    <3> QED BY <1>7, <3>2
  <2>2. IsFiniteSet({m}) /\ Cardinality({m}) = 1
    BY FS_Singleton
  <2>3. IsFiniteSet(new) /\ Cardinality(new) = 1 * r
    <3> DEFINE A == {m}
               B == 1..r
    <3> HIDE DEF A, B
    <3>1. IsFiniteSet(A \X B) /\ Cardinality(A \X B) = Cardinality(A) * Cardinality(B)
      BY <2>1, <2>2, FS_Product DEF A, B
    <3> QED BY <2>1, <2>2, <3>1 DEF A, B
  <2> QED BY <1>7, <2>3
<1>11. /\ IsFiniteSet(Units(RTTOf) \cup new)
       /\ Cardinality(Units(RTTOf) \cup new) = Cardinality(Units(RTTOf)) + r
  <2> HIDE DEF new, r
  <2>1. Cardinality(Units(RTTOf) \cap new) = 0
    BY <1>9, FS_EmptySet
  <2>2. Cardinality(Units(RTTOf)) \in Nat
    BY FS_CardinalityType
  <2>3. /\ IsFiniteSet(Units(RTTOf) \cup new)
        /\ Cardinality(Units(RTTOf) \cup new) = Cardinality(Units(RTTOf)) + Cardinality(new) - Cardinality(Units(RTTOf) \cap new)
    BY <1>10, FS_Union
  <2> QED BY <1>7, <1>10, <2>1, <2>2, <2>3
<1>12. IsFiniteSet(Units(RTTOf')) /\ Cardinality(Units(RTTOf')) = Cardinality(Units(RTTOf)) + o.rtt
  <2> HIDE DEF new
  <2> QED BY <1>8, <1>11, Zenon
<1>13. log'[m].rtt = o.rtt
  BY <1>1
<1> QED BY <1>3, <1>5, <1>6, <1>12, <1>13

ExtremesType == [min : Nat, max : Nat, sum : Nat, samples : Nat]

LEMMA ExtremesOn ==
  ASSUME HealthInv, NEW rtt \in RTTs, NEW o \in Outcomes, o.ok = TRUE, o.rtt = rtt, log' = Append(log, o),
         extremes' = Measured(rtt)
  PROVE  ExtremesFollow' /\ extremes' \in ExtremesType
<1>0. SUFFICES ASSUME NEW m, m = Len(log) + 1, NEW x, x = extremes, NEW y, y = extremes'
               PROVE  ExtremesFollow' /\ extremes' \in ExtremesType
  OBVIOUS
<1>1. /\ x \in ExtremesType
      /\ x.min \in Nat /\ x.max \in Nat /\ x.sum \in Nat /\ x.samples \in Nat /\ rtt \in Nat \ {0}
  <2>1. x \in ExtremesType
    BY <1>0 DEF HealthInv, HealthTypeOK, ExtremesType
  <2>2. rtt \in Nat \ {0}
    BY HealthAssumption
  <2> QED BY <2>1, <2>2 DEF ExtremesType
<1>2. /\ \A i \in Replied : log[i].rtt \in RTTs /\ log[i].rtt \in Nat \ {0}
      /\ x.samples = Cardinality(Replied)
      /\ IsFiniteSet(Units(RTTOf)) /\ x.sum = Cardinality(Units(RTTOf))
      /\ Replied = {} => x.min = 0 /\ x.max = 0
      /\ Replied # {} => \E i \in Replied : x.min = log[i].rtt
      /\ Replied # {} => \E i \in Replied : x.max = log[i].rtt
      /\ \A i \in Replied : x.min <= log[i].rtt /\ log[i].rtt <= x.max
  <2>1. RTTs \subseteq Nat \ {0}
    BY HealthAssumption
  <2>2. ExtremesFollow
    BY DEF HealthInv
  <2>3. \A i \in Replied : log[i].rtt \in RTTs
    BY <2>2 DEF ExtremesFollow
  <2>4. \A i \in Replied : log[i].rtt \in Nat \ {0}
    BY <2>1, <2>3
  <2> QED BY <1>0, <2>2, <2>3, <2>4, Zenon DEF ExtremesFollow
<1>3. /\ Replied' = Replied \cup {m} /\ Cardinality(Replied') = Cardinality(Replied) + 1
      /\ log'[m].rtt = rtt /\ \A i \in Replied : log'[i].rtt = log[i].rtt
      /\ IsFiniteSet(Units(RTTOf')) /\ Cardinality(Units(RTTOf')) = Cardinality(Units(RTTOf)) + rtt
  BY <1>0, <1>2, RepliesAfterReply DEF HealthInv
<1>4. /\ y.samples = x.samples + 1 /\ y.sum = x.sum + rtt
      /\ y.min = IF x.min = 0 \/ rtt < x.min THEN rtt ELSE x.min
      /\ y.max = IF rtt > x.max THEN rtt ELSE x.max
      /\ y = [min |-> y.min, max |-> y.max, sum |-> y.sum, samples |-> y.samples]
  <2>1. y = [x EXCEPT !.samples = x.samples + 1, !.sum = x.sum + rtt,
                      !.min = IF x.min = 0 \/ rtt < x.min THEN rtt ELSE x.min,
                      !.max = IF rtt > x.max THEN rtt ELSE x.max]
    BY <1>0 DEF Measured
  <2> QED BY <1>1, <2>1 DEF ExtremesType
<1>5. y.min \in Nat /\ y.max \in Nat /\ y.sum \in Nat /\ y.samples \in Nat
  BY <1>1, <1>4
<1>6. extremes' \in ExtremesType
  BY <1>0, <1>4, <1>5 DEF ExtremesType
<1>7. \A i \in Replied' : log'[i].rtt \in RTTs
  BY <1>2, <1>3
<1>8. /\ \A i \in Replied' : y.min <= log'[i].rtt /\ log'[i].rtt <= y.max
  <2> SUFFICES ASSUME NEW i \in Replied' PROVE y.min <= log'[i].rtt /\ log'[i].rtt <= y.max
    OBVIOUS
  <2>1. CASE i = m
    <3>1. y.min <= rtt /\ rtt <= y.max
      BY <1>1, <1>4
    <3> QED BY <1>3, <2>1, <3>1
  <2>2. CASE i # m
    <3>1. i \in Replied /\ log'[i].rtt = log[i].rtt
      BY <1>3, <2>2
    <3>2. log[i].rtt \in Nat \ {0} /\ x.min <= log[i].rtt /\ log[i].rtt <= x.max
      BY <1>2, <3>1
    <3>3. \E k \in Replied : x.min = log[k].rtt
      BY <1>2, <3>1
    <3>4. x.min # 0
      BY <1>2, <3>3
    <3>5. y.min <= log[i].rtt /\ log[i].rtt <= y.max
      BY <1>1, <1>4, <3>2, <3>4
    <3> QED BY <3>1, <3>5
  <2> QED BY <2>1, <2>2
<1>9. \E i \in Replied' : y.min = log'[i].rtt
  <2>1. CASE y.min = rtt
    BY <1>3, <2>1
  <2>2. CASE y.min # rtt
    <3>1. y.min = x.min /\ x.min # 0
      BY <1>4, <2>2
    <3>2. Replied # {}
      BY <1>2, <3>1
    <3>3. PICK i \in Replied : x.min = log[i].rtt
      BY <1>2, <3>2
    <3> QED BY <1>3, <3>1, <3>3
  <2> QED BY <2>1, <2>2
<1>10. \E i \in Replied' : y.max = log'[i].rtt
  <2>1. CASE y.max = rtt
    BY <1>3, <2>1
  <2>2. CASE y.max # rtt
    <3>1. y.max = x.max /\ ~(rtt > x.max)
      BY <1>4, <2>2
    <3>2. Replied # {}
      BY <1>1, <1>2, <3>1
    <3>3. PICK i \in Replied : x.max = log[i].rtt
      BY <1>2, <3>2
    <3> QED BY <1>3, <3>1, <3>3
  <2> QED BY <2>1, <2>2
<1>11. Replied' # {}
  BY <1>3
<1>12. y.samples = Cardinality(Replied') /\ IsFiniteSet(Units(RTTOf')) /\ y.sum = Cardinality(Units(RTTOf'))
  BY <1>2, <1>3, <1>4, Zenon
<1> QED BY <1>0, <1>6, <1>7, <1>8, <1>9, <1>10, <1>11, <1>12, Zenon DEF ExtremesFollow

LEMMA ExtremesStep ==
  ASSUME HealthInv, HealthNext
  PROVE  ExtremesFollow' /\ extremes' \in ExtremesType
<1>0. ExtremesFollow /\ extremes \in ExtremesType /\ HealthTypeOK
  BY DEF HealthInv, HealthTypeOK, ExtremesType
<1>1. ASSUME NEW rtt \in RTTs, OnSuccess(rtt)
      PROVE  ExtremesFollow' /\ extremes' \in ExtremesType
  <2>1. Reply(rtt) \in Outcomes /\ Reply(rtt).ok = TRUE /\ Reply(rtt).rtt = rtt /\ log' = Append(log, Reply(rtt))
    BY <1>1, ReplyIs
  <2>2. extremes' = Measured(rtt)
    BY <1>1 DEF OnSuccess
  <2> QED BY <2>1, <2>2, ExtremesOn, Zenon
<1>2. ASSUME NEW why \in Reasons, OnFailure(why)
      PROVE  ExtremesFollow' /\ extremes' \in ExtremesType
  <2>1. Loss(why) \in Outcomes /\ Loss(why).ok = FALSE /\ log' = Append(log, Loss(why))
    BY <1>2, LossIs
  <2>2. Replied' = Replied /\ RTTOf' = RTTOf /\ \A i \in Replied : log'[i].rtt = log[i].rtt
    BY <1>0, <2>1, RepliesAfterLoss, Zenon
  <2>3. extremes' = extremes
    BY <1>2 DEF OnFailure
  <2>4. ExtremesFollow'
    <3>1. /\ \A i \in Replied' : log'[i].rtt \in RTTs
          /\ extremes'.samples = Cardinality(Replied')
          /\ IsFiniteSet(Units(RTTOf')) /\ extremes'.sum = Cardinality(Units(RTTOf'))
          /\ Replied' = {} => extremes'.min = 0 /\ extremes'.max = 0
      BY <1>0, <2>2, <2>3, Zenon DEF ExtremesFollow
    <3>2. Replied' # {} => \E i \in Replied' : extremes'.min = log'[i].rtt
      BY <1>0, <2>2, <2>3 DEF ExtremesFollow
    <3>3. Replied' # {} => \E i \in Replied' : extremes'.max = log'[i].rtt
      BY <1>0, <2>2, <2>3 DEF ExtremesFollow
    <3>4. \A i \in Replied' : extremes'.min <= log'[i].rtt /\ log'[i].rtt <= extremes'.max
      BY <1>0, <2>2, <2>3 DEF ExtremesFollow
    <3> QED BY <3>1, <3>2, <3>3, <3>4, Zenon DEF ExtremesFollow
  <2> QED BY <1>0, <2>3, <2>4
<1>3. ASSUME ResetHealth
      PROVE  ExtremesFollow' /\ extremes' \in ExtremesType
  <2>1. log' = <<>> /\ extremes' = NoExtremes
    BY <1>3 DEF ResetHealth
  <2>2. Replied' = {}
    BY <2>1 DEF Replied
  <2>3. Units(RTTOf') = {}
    BY <2>2 DEF RTTOf, Units
  <2>4. extremes'.min = 0 /\ extremes'.max = 0 /\ extremes'.sum = 0 /\ extremes'.samples = 0
    BY <2>1 DEF NoExtremes
  <2>5. extremes' \in ExtremesType
    BY <2>1 DEF NoExtremes, ExtremesType
  <2>6. IsFiniteSet(Units(RTTOf')) /\ Cardinality(Units(RTTOf')) = 0 /\ Cardinality(Replied') = 0
    BY <2>2, <2>3, FS_EmptySet
  <2>7. ExtremesFollow'
    BY <2>2, <2>4, <2>6, Zenon DEF ExtremesFollow
  <2> QED BY <2>5, <2>7
<1>4. ASSUME UNCHANGED <<log, extremes>>
      PROVE  ExtremesFollow' /\ extremes' \in ExtremesType
  <2>1. log' = log /\ extremes' = extremes
    BY <1>4
  <2>2. Replied' = Replied
    BY <2>1, Zenon DEF Replied
  <2>3. RTTOf' = RTTOf
    BY <2>1, <2>2, Zenon DEF RTTOf
  <2> QED BY <1>0, <2>1, <2>2, <2>3, Zenon DEF ExtremesFollow
<1>5. ASSUME NEW w \in Windows, ConfigureHealth(w)
      PROVE  UNCHANGED <<log, extremes>>
  BY <1>5 DEF ConfigureHealth
<1>6. ASSUME NEW n \in Gaps, Passes(n)
      PROVE  UNCHANGED <<log, extremes>>
  BY <1>6 DEF Passes
<1> QED BY <1>1, <1>2, <1>3, <1>4, <1>5, <1>6 DEF HealthNext

LEMMA ExtremesHold ==
  ASSUME HealthInv
  PROVE  ExtremesAreExact
<1>1. ExtremesFollow /\ extremes \in ExtremesType
  BY DEF HealthInv, HealthTypeOK, ExtremesType
<1> DEFINE rtts == {log[i].rtt : i \in Replied}
<1>2. rtts \in SUBSET Int
  <2>1. RTTs \subseteq Nat \ {0}
    BY HealthAssumption
  <2>2. \A i \in Replied : log[i].rtt \in RTTs
    BY <1>1 DEF ExtremesFollow
  <2>3. \A i \in Replied : log[i].rtt \in Nat \ {0}
    BY <2>1, <2>2
  <2> QED BY <2>3
<1>3. ASSUME rtts # {}
      PROVE  extremes.min = Min(rtts) /\ extremes.max = Max(rtts)
  <2>1. Replied # {}
    BY <1>3
  <2>2. extremes.min \in rtts /\ \A y \in rtts : extremes.min <= y
    BY <1>1, <2>1 DEF ExtremesFollow
  <2>3. extremes.max \in rtts /\ \A y \in rtts : extremes.max >= y
    <3>1. extremes.max \in rtts
      BY <1>1, <2>1 DEF ExtremesFollow
    <3>2. \A i \in Replied : log[i].rtt <= extremes.max
      BY <1>1 DEF ExtremesFollow
    <3>3. \A y \in rtts : y <= extremes.max
      BY <3>2
    <3> HIDE DEF rtts
    <3>4. \A y \in rtts : extremes.max >= y
      BY <1>2, <3>1, <3>3
    <3> QED BY <3>1, <3>4
  <2> HIDE DEF rtts
  <2> QED BY <1>2, <2>2, <2>3, LeastIs, GreatestIs
<1>4. extremes.samples = Cardinality(Replied) /\ extremes.sum = SumOf(RTTOf)
  BY <1>1, Zenon DEF ExtremesFollow, SumOf
<1> QED BY <1>3, <1>4, Zenon DEF ExtremesAreExact, Replied, RTTOf

-----------------------------------------------------------------------------
(* The event log.                                                          *)

LEMMA GreatestOf ==
  ASSUME NEW n \in Nat, NEW S, S \subseteq 1..n, S # {}
  PROVE  Max(S) \in S /\ \A y \in S : y <= Max(S)
<1> DEFINE T == {n - x : x \in S}
<1>1. T \subseteq Nat /\ T # {}
  <2>1. \A x \in S : x \in 1..n
    OBVIOUS
  <2>2. \A x \in S : n - x \in Nat
    BY <2>1
  <2> QED BY <2>2
<1>2. Min(T) \in T /\ \A y \in T : Min(T) <= y
  <2> HIDE DEF T
  <2> QED BY <1>1, LeastOf
<1>3. PICK x \in S : Min(T) = n - x
  BY <1>2
<1>4. \A y \in S : y <= x
  <2> SUFFICES ASSUME NEW y \in S PROVE y <= x
    OBVIOUS
  <2>1. n - y \in T
    OBVIOUS
  <2>2. n - x <= n - y
    BY <1>2, <1>3, <2>1
  <2> QED BY <2>2
<1>5. Max(S) = x
  <2>1. S \in SUBSET Int
    OBVIOUS
  <2>2. \A y \in S : x >= y
    BY <1>4
  <2> QED BY <2>1, <2>2, GreatestIs
<1> QED BY <1>4, <1>5

\* A log whose last foldable loss, if any, is of the present run.
Good(es, st, rep, res) == es \in Seq(Events) /\ Follow(es, st, rep, res)

LEMMA EventFields ==
  ASSUME NEW es \in Seq(Events), NEW i \in 1..Len(es)
  PROVE  /\ es[i] \in Events /\ es[i].resets \in Nat /\ es[i].of \in Nat /\ es[i].apart \in BOOLEAN
         /\ es[i].kind \in {"ping", "recovery", "health", "reset"} /\ DOMAIN es = 1..Len(es) /\ Len(es) \in Nat
<1>1. es[i] \in Events /\ DOMAIN es = 1..Len(es) /\ Len(es) \in Nat
  OBVIOUS
<1> QED BY <1>1 DEF Events

\* Without a foldable loss the replies may go on, and so may the windows.
LEMMA QuietOn ==
  ASSUME NEW es, NEW st, NEW rep, NEW res, Good(es, st, rep, res), Quiet(es), NEW rep2
  PROVE  Good(es, st, rep2, res)
BY Zenon DEF Good, Follow, Quiet

LEMMA RenewedOn ==
  ASSUME NEW es, NEW st, NEW rep, NEW res \in Nat, Good(es, st, rep, res), Quiet(es), NEW st2, NEW rep2
  PROVE  Good(es, st2, rep2, res + 1) /\ Unjudged(es, res + 1)
<1>1. es \in Seq(Events) /\ Follow(es, st, rep, res)
  BY DEF Good
<1>2. ASSUME NEW i \in DOMAIN es
      PROVE  es[i].resets <= res + 1 /\ es[i].resets # res + 1
  <2>1. i \in 1..Len(es)
    BY <1>1
  <2>2. es[i].resets \in Nat
    BY <1>1, <2>1, EventFields
  <2>3. es[i].resets <= res
    BY <1>1, Zenon DEF Follow
  <2> QED BY <2>2, <2>3
<1>3. \A i \in DOMAIN es : ~Own(es, i, res + 1)
  BY <1>2, Zenon DEF Own
<1> QED BY <1>1, <1>2, <1>3, Zenon DEF Good, Follow, Quiet, Unjudged

LEMMA StatusOn ==
  ASSUME NEW es, NEW st, NEW rep, NEW res, Good(es, st, rep, res), Unjudged(es, res), NEW st2
  PROVE  Good(es, st2, rep, res)
BY Zenon DEF Good, Follow, Unjudged

LEMMA AppendOn ==
  ASSUME NEW es, NEW st, NEW rep, NEW res \in Nat, NEW e \in Events, NEW st2
  PROVE  /\ Good(es, st, rep, res) /\ ~e.apart /\ e.resets = res
         /\ (e.kind = "ping" => e.of = rep)
         /\ (e.kind = "health" => st2 = e.msg)
         /\ (e.kind # "health" => st2 = st)
         => /\ Good(Append(es, e), st2, rep, res)
            /\ e.kind # "ping" /\ (e.kind = "health" => Quiet(es)) => Quiet(Append(es, e))
            /\ e.kind # "health" /\ Unjudged(es, res) => Unjudged(Append(es, e), res)
<1>0. SUFFICES ASSUME /\ Good(es, st, rep, res) /\ ~e.apart /\ e.resets = res
                      /\ (e.kind = "ping" => e.of = rep)
                      /\ (e.kind = "health" => st2 = e.msg)
                      /\ (e.kind # "health" => st2 = st),
                      NEW new, new = Append(es, e), NEW m, m = Len(es) + 1
               PROVE  /\ Good(new, st2, rep, res)
                      /\ e.kind # "ping" /\ (e.kind = "health" => Quiet(es)) => Quiet(new)
                      /\ e.kind # "health" /\ Unjudged(es, res) => Unjudged(new, res)
  OBVIOUS
<1>a. es \in Seq(Events)
  BY <1>0 DEF Good
<1>b. new = Append(es, e) /\ m = Len(es) + 1
  BY <1>0
<1>1. /\ new \in Seq(Events) /\ DOMAIN es = 1..Len(es) /\ Len(es) \in Nat /\ m \in Nat
      /\ DOMAIN new = 1..m /\ new[m] = e /\ \A i \in 1..Len(es) : new[i] = es[i]
  BY <1>a, <1>b
<1>2. /\ \A i : i \in 1..m <=> i \in 1..Len(es) \/ i = m
      /\ \A i \in 1..Len(es) : m > i /\ i # m
      /\ \A j \in 1..m : ~(j > m)
  <2>1. /\ m \in 1..m /\ \A i \in 1..m : i # m => i \in 1..Len(es)
        /\ \A i \in 1..Len(es) : i \in 1..m
    BY <1>b, <1>1
  <2>2. /\ \A i \in 1..Len(es) : m > i /\ i # m
        /\ \A j \in 1..m : ~(j > m)
    BY <1>b, <1>1
  <2> QED BY <2>1, <2>2
<1>3. \A i \in 1..Len(es) : /\ ~es[i].apart /\ es[i].resets <= res
                            /\ es[i].kind = "ping" /\ Hidden(es, i) => es[i].of = rep /\ es[i].resets = res
                            /\ Own(es, i, res) /\ (\A j \in 1..Len(es) : j > i => ~Own(es, j, res)) =>
                                 es[i].msg = st
  BY <1>0, <1>1, Zenon DEF Good, Follow
<1>4. \A i \in 1..m : ~new[i].apart /\ new[i].resets <= res
  <2>1. res <= res
    OBVIOUS
  <2> QED BY <1>0, <1>1, <1>2, <1>3, <2>1, Zenon
<1>5. \A i \in 1..Len(es) : Own(new, i, res) <=> Own(es, i, res)
  BY <1>1, Zenon DEF Own
<1>6. Own(new, m, res) <=> e.kind = "health"
  BY <1>0, <1>1, Zenon DEF Own
<1>7. ASSUME NEW i \in 1..Len(es), Hidden(new, i)
      PROVE  e.kind = "health" /\ Hidden(es, i)
  <2>1. m \in DOMAIN new /\ m > i
    BY <1>1, <1>2, Zenon
  <2>2. e.kind = "health"
    BY <1>1, <1>7, <2>1, Zenon DEF Hidden
  <2>3. ASSUME NEW j \in DOMAIN es, j > i
        PROVE  es[j].kind = "health"
    <3>1. j \in DOMAIN new /\ new[j] = es[j]
      BY <1>1, <1>2, Zenon
    <3> QED BY <1>7, <2>3, <3>1, Zenon DEF Hidden
  <2> QED BY <2>2, <2>3, Zenon DEF Hidden
<1>8. ASSUME NEW i \in 1..m, new[i].kind = "ping", Hidden(new, i)
      PROVE  new[i].of = rep /\ new[i].resets = res
  <2>1. CASE i = m
    BY <1>0, <1>1, <1>8, <2>1, Zenon
  <2>2. CASE i # m
    <3>1. i \in 1..Len(es)
      BY <1>2, <2>2, Zenon
    <3>2. Hidden(es, i) /\ new[i] = es[i]
      BY <1>1, <1>7, <1>8, <3>1, Zenon
    <3> QED BY <1>3, <1>8, <3>1, <3>2, Zenon
  <2> QED BY <2>1, <2>2
<1>9. ASSUME NEW i \in 1..m, Own(new, i, res), \A j \in 1..m : j > i => ~Own(new, j, res)
      PROVE  new[i].msg = st2
  <2>1. CASE i = m
    BY <1>0, <1>1, <1>6, <1>9, <2>1, Zenon
  <2>2. CASE i # m
    <3>1. i \in 1..Len(es) /\ Own(es, i, res) /\ m > i /\ m \in 1..m
      BY <1>2, <1>5, <1>9, <2>2, Zenon
    <3>2. e.kind # "health"
      BY <1>6, <1>9, <3>1, Zenon
    <3>3. \A j \in 1..Len(es) : j > i => ~Own(es, j, res)
      BY <1>2, <1>5, <1>9, Zenon
    <3>4. es[i].msg = st
      BY <1>3, <3>1, <3>3, Zenon
    <3> QED BY <1>0, <1>1, <3>1, <3>2, <3>4, Zenon
  <2> QED BY <2>1, <2>2
<1>10. ASSUME e.kind # "ping", e.kind = "health" => Quiet(es)
       PROVE  Quiet(new)
  <2> SUFFICES ASSUME NEW i \in 1..m, new[i].kind = "ping", Hidden(new, i)
               PROVE  FALSE
    BY <1>1, Zenon DEF Quiet
  <2>1. i \in 1..Len(es)
    BY <1>1, <1>2, <1>10, Zenon
  <2>2. e.kind = "health" /\ Hidden(es, i) /\ new[i] = es[i]
    BY <1>1, <1>7, <2>1, Zenon
  <2> QED BY <1>1, <1>10, <2>1, <2>2, Zenon DEF Quiet
<1>11. ASSUME e.kind # "health", Unjudged(es, res)
       PROVE  Unjudged(new, res)
  <2> SUFFICES ASSUME NEW i \in 1..m PROVE ~Own(new, i, res)
    BY <1>1, Zenon DEF Unjudged
  <2>1. CASE i = m
    BY <1>6, <1>11, <2>1, Zenon
  <2>2. CASE i # m
    <3>1. i \in 1..Len(es)
      BY <1>2, <2>2, Zenon
    <3> QED BY <1>1, <1>5, <1>11, <3>1, Zenon DEF Unjudged
  <2> QED BY <2>1, <2>2
<1>12. Good(new, st2, rep, res)
  BY <1>1, <1>4, <1>8, <1>9, Zenon DEF Good, Follow
<1> QED BY <1>10, <1>11, <1>12

\* The oldest event goes when there is one too many.
LEMMA TailOn ==
  ASSUME NEW es, NEW st, NEW rep, NEW res, Good(es, st, rep, res), Len(es) > 1
  PROVE  /\ Good(Tail(es), st, rep, res)
         /\ Quiet(es) => Quiet(Tail(es))
         /\ Unjudged(es, res) => Unjudged(Tail(es), res)
<1>0. SUFFICES ASSUME NEW new, new = Tail(es)
               PROVE  /\ Good(new, st, rep, res)
                      /\ Quiet(es) => Quiet(new)
                      /\ Unjudged(es, res) => Unjudged(new, res)
  OBVIOUS
<1>a. es \in Seq(Events) /\ es # <<>>
  BY DEF Good
<1>1. /\ DOMAIN es = 1..Len(es) /\ Len(es) \in Nat
      /\ new \in Seq(Events) /\ DOMAIN new = 1..Len(es) - 1 /\ Len(new) = Len(es) - 1
      /\ \A i \in 1..Len(es) - 1 : new[i] = es[i + 1]
  BY <1>0, <1>a
<1>2. \A i \in DOMAIN new : i + 1 \in DOMAIN es /\ new[i] = es[i + 1]
  BY <1>1
<1>3. ASSUME NEW i \in DOMAIN new, NEW j \in DOMAIN es, j > i + 1
      PROVE  j - 1 \in DOMAIN new /\ j - 1 > i /\ new[j - 1] = es[j]
  <2>1. j - 1 \in DOMAIN new /\ j - 1 > i /\ (j - 1) + 1 = j
    BY <1>1, <1>3
  <2> QED BY <1>2, <2>1
<1>4. ASSUME NEW i \in DOMAIN new, Hidden(new, i)
      PROVE  Hidden(es, i + 1)
  <2> SUFFICES ASSUME NEW j \in DOMAIN es, j > i + 1 PROVE es[j].kind = "health"
    BY Zenon DEF Hidden
  <2>1. j - 1 \in DOMAIN new /\ j - 1 > i /\ new[j - 1] = es[j]
    BY <1>3
  <2> QED BY <1>4, <2>1, Zenon DEF Hidden
<1>5. \A i \in DOMAIN new : Own(new, i, res) <=> Own(es, i + 1, res)
  BY <1>2, Zenon DEF Own
<1>6. ASSUME NEW i \in DOMAIN new, \A j \in DOMAIN new : j > i => ~Own(new, j, res)
      PROVE  \A j \in DOMAIN es : j > i + 1 => ~Own(es, j, res)
  <2> SUFFICES ASSUME NEW j \in DOMAIN es, j > i + 1 PROVE ~Own(es, j, res)
    OBVIOUS
  <2>1. j - 1 \in DOMAIN new /\ j - 1 > i /\ new[j - 1] = es[j]
    BY <1>3
  <2>2. ~Own(new, j - 1, res)
    BY <1>6, <2>1, Zenon
  <2> QED BY <2>1, <2>2, Zenon DEF Own
<1>7. Good(new, st, rep, res)
  <2>1. \A i \in DOMAIN new : ~new[i].apart /\ new[i].resets <= res
    BY <1>2, Zenon DEF Good, Follow
  <2>2. ASSUME NEW i \in DOMAIN new, new[i].kind = "ping", Hidden(new, i)
        PROVE  new[i].of = rep /\ new[i].resets = res
    BY <1>2, <1>4, <2>2, Zenon DEF Good, Follow
  <2>3. ASSUME NEW i \in DOMAIN new, Own(new, i, res), \A j \in DOMAIN new : j > i => ~Own(new, j, res)
        PROVE  new[i].msg = st
    <3>1. Own(es, i + 1, res) /\ \A j \in DOMAIN es : j > i + 1 => ~Own(es, j, res)
      BY <1>5, <1>6, <2>3, Zenon
    <3>2. es[i + 1].msg = st
      BY <1>2, <3>1, Zenon DEF Good, Follow
    <3> QED BY <1>2, <3>2, Zenon
  <2> QED BY <1>1, <2>1, <2>2, <2>3, Zenon DEF Good, Follow
<1>8. Quiet(es) => Quiet(new)
  BY <1>2, <1>4, Zenon DEF Quiet
<1>9. Unjudged(es, res) => Unjudged(new, res)
  BY <1>2, <1>5, Zenon DEF Unjudged
<1> QED BY <1>7, <1>8, <1>9

LEMMA TrimmedOn ==
  ASSUME NEW es, NEW st, NEW rep, NEW res, Good(es, st, rep, res), Len(es) <= MaxEvents + 1
  PROVE  /\ Good(Trimmed(es), st, rep, res) /\ Len(Trimmed(es)) <= MaxEvents
         /\ Quiet(es) => Quiet(Trimmed(es))
         /\ Unjudged(es, res) => Unjudged(Trimmed(es), res)
<1>1. es \in Seq(Events) /\ MaxEvents \in Nat \ {0}
  BY HealthAssumption DEF Good
<1>2. Len(es) \in Nat
  BY <1>1
<1>3. CASE Len(es) > MaxEvents
  <2>1. Len(es) > 1 /\ Trimmed(es) = Tail(es)
    BY <1>1, <1>2, <1>3 DEF Trimmed
  <2>2. Len(Tail(es)) = Len(es) - 1
    BY <1>1, <2>1
  <2>3. Len(Trimmed(es)) <= MaxEvents
    BY <1>1, <1>2, <2>1, <2>2
  <2> QED BY <2>1, <2>3, TailOn
<1>4. CASE ~(Len(es) > MaxEvents)
  <2>1. Trimmed(es) = es /\ Len(es) <= MaxEvents
    BY <1>1, <1>2, <1>4 DEF Trimmed
  <2> QED BY <2>1
<1> QED BY <1>3, <1>4

\* An event that is not folded is appended.
LEMMA AddedOn ==
  ASSUME NEW es, NEW st, NEW rep, NEW res \in Nat, NEW e \in Events, NEW st2
  PROVE  /\ Good(es, st, rep, res) /\ Len(es) <= MaxEvents /\ ~e.apart /\ e.resets = res
         /\ (e.kind = "ping" => e.of = rep)
         /\ (e.kind = "health" => st2 = e.msg)
         /\ (e.kind # "health" => st2 = st)
         /\ ~Folds(es, e)
         => /\ Good(Told(es, e), st2, rep, res) /\ Len(Told(es, e)) <= MaxEvents
            /\ e.kind # "ping" /\ (e.kind = "health" => Quiet(es)) => Quiet(Told(es, e))
            /\ e.kind # "health" /\ Unjudged(es, res) => Unjudged(Told(es, e), res)
<1>0. SUFFICES ASSUME /\ Good(es, st, rep, res) /\ Len(es) <= MaxEvents /\ ~e.apart /\ e.resets = res
                      /\ (e.kind = "ping" => e.of = rep)
                      /\ (e.kind = "health" => st2 = e.msg)
                      /\ (e.kind # "health" => st2 = st),
                      ~Folds(es, e), NEW new, new = Append(es, e)
               PROVE  /\ Good(Told(es, e), st2, rep, res) /\ Len(Told(es, e)) <= MaxEvents
                      /\ e.kind # "ping" /\ (e.kind = "health" => Quiet(es)) => Quiet(Told(es, e))
                      /\ e.kind # "health" /\ Unjudged(es, res) => Unjudged(Told(es, e), res)
  OBVIOUS
<1>1. /\ Good(new, st2, rep, res)
      /\ e.kind # "ping" /\ (e.kind = "health" => Quiet(es)) => Quiet(new)
      /\ e.kind # "health" /\ Unjudged(es, res) => Unjudged(new, res)
  BY <1>0, AppendOn, Zenon
<1>2. Len(new) <= MaxEvents + 1
  <2>1. es \in Seq(Events) /\ MaxEvents \in Nat
    BY <1>0, HealthAssumption DEF Good
  <2>2. Len(es) <= MaxEvents /\ new = Append(es, e)
    BY <1>0
  <2>3. Len(new) = Len(es) + 1 /\ Len(es) \in Nat
    BY <2>1, <2>2
  <2> QED BY <2>1, <2>2, <2>3
<1>3. Told(es, e) = Trimmed(new)
  BY <1>0, Zenon DEF Told
<1>4. /\ Good(Trimmed(new), st2, rep, res) /\ Len(Trimmed(new)) <= MaxEvents
      /\ Quiet(new) => Quiet(Trimmed(new))
      /\ Unjudged(new, res) => Unjudged(Trimmed(new), res)
  BY <1>1, <1>2, TrimmedOn, Zenon
<1> QED BY <1>1, <1>3, <1>4, Zenon

\* A loss is folded into the last event not about health, and that event is of the
\* same run of losses.
LEMMA FoldedOn ==
  ASSUME NEW es, NEW st, NEW rep, NEW res, Good(es, st, rep, res),
         NEW e \in Events, Folds(es, e), ~e.apart, e.of = rep, e.resets = res
  PROVE  /\ Good(Told(es, e), st, rep, res) /\ Len(Told(es, e)) = Len(es)
         /\ Unjudged(es, res) => Unjudged(Told(es, e), res)
<1>0. SUFFICES ASSUME NEW m, m = Max(Foldable(es)), NEW new, new = Told(es, e), NEW r, r = Repeated(es[m], e)
               PROVE  /\ Good(new, st, rep, res) /\ Len(new) = Len(es)
                      /\ Unjudged(es, res) => Unjudged(new, res)
  OBVIOUS
<1>a. es \in Seq(Events) /\ Follow(es, st, rep, res)
  BY DEF Good
<1>1. DOMAIN es = 1..Len(es) /\ Len(es) \in Nat
  BY <1>a
<1>2. m \in Foldable(es) /\ \A y \in Foldable(es) : y <= m
  <2>1. Foldable(es) \subseteq 1..Len(es) /\ Foldable(es) # {}
    BY <1>1, Zenon DEF Foldable, Folds
  <2> QED BY <1>0, <1>1, <2>1, GreatestOf
<1>3. m \in 1..Len(es) /\ es[m].kind = "ping" /\ es[m].msg = e.msg
  BY <1>0, <1>1, <1>2, Zenon DEF Foldable, Folds
<1>4. Hidden(es, m)
  <2> SUFFICES ASSUME NEW j \in DOMAIN es, j > m PROVE es[j].kind = "health"
    BY Zenon DEF Hidden
  <2>1. ~(j <= m)
    BY <1>1, <1>3
  <2> QED BY <1>2, <2>1, Zenon DEF Foldable
<1>5. es[m].of = rep /\ es[m].resets = res /\ ~es[m].apart
  BY <1>a, <1>1, <1>3, <1>4, Zenon DEF Follow
<1>6. new = [es EXCEPT ![m] = r]
  BY <1>0, Zenon DEF Told
<1>7. /\ r \in Events /\ r.kind = es[m].kind /\ r.msg = es[m].msg /\ r.of = es[m].of /\ r.resets = es[m].resets
      /\ ~r.apart
  <2> DEFINE old == es[m]
  <2>1. old \in Events
    BY <1>a, <1>3, ElementOfSeq
  <2>2. (old.apart \/ old.of # e.of \/ old.resets # e.resets) = FALSE
    BY <1>5
  <2>3. r = [old EXCEPT !.count = old.count + 1, !.apart = FALSE]
    BY <1>0, <2>2 DEF Repeated
  <2> HIDE DEF old
  <2>4. old.count + 1 \in Nat
    BY <2>1 DEF Events
  <2>5. r = [kind |-> old.kind, msg |-> old.msg, count |-> old.count + 1, of |-> old.of,
             resets |-> old.resets, apart |-> FALSE]
    BY <2>1, <2>3 DEF Events
  <2>6. r \in Events
    BY <2>1, <2>4, <2>5 DEF Events
  <2>7. r.kind = old.kind /\ r.msg = old.msg /\ r.of = old.of /\ r.resets = old.resets /\ r.apart = FALSE
    BY <2>5
  <2> QED BY <2>6, <2>7 DEF old
<1>8. /\ new \in Seq(Events) /\ Len(new) = Len(es) /\ DOMAIN new = 1..Len(es)
      /\ new[m] = r /\ \A i \in 1..Len(es) : i # m => new[i] = es[i]
  <2>1. /\ new \in Seq(Events) /\ Len(new) = Len(es)
        /\ \A j \in 1..Len(es) : new[j] = IF j = m THEN r ELSE es[j]
    BY <1>a, <1>3, <1>6, <1>7, ExceptSeq
  <2> QED BY <1>3, <2>1
<1>9. \A i \in 1..Len(es) : /\ new[i].kind = es[i].kind /\ new[i].msg = es[i].msg
                            /\ new[i].of = es[i].of /\ new[i].resets = es[i].resets
                            /\ ~new[i].apart
  <2> SUFFICES ASSUME NEW i \in 1..Len(es)
               PROVE  /\ new[i].kind = es[i].kind /\ new[i].msg = es[i].msg
                      /\ new[i].of = es[i].of /\ new[i].resets = es[i].resets
                      /\ ~new[i].apart
    OBVIOUS
  <2>1. CASE i = m
    BY <1>7, <1>8, <2>1, Zenon
  <2>2. CASE i # m
    BY <1>a, <1>1, <1>8, <2>2, Zenon DEF Follow
  <2> QED BY <2>1, <2>2
<1>10. \A i \in 1..Len(es) : Hidden(new, i) => Hidden(es, i)
  BY <1>1, <1>8, <1>9, Zenon DEF Hidden
<1>11. \A i \in 1..Len(es) : Own(new, i, res) <=> Own(es, i, res)
  BY <1>9, Zenon DEF Own
<1>12. Follow(new, st, rep, res)
  BY <1>a, <1>1, <1>8, <1>9, <1>10, <1>11, Zenon DEF Follow
<1>13. Unjudged(es, res) => Unjudged(new, res)
  BY <1>1, <1>8, <1>11, Zenon DEF Unjudged
<1> QED BY <1>8, <1>12, <1>13 DEF Good

Kinds == {"ping", "recovery", "health", "reset"}
Messages == Reasons \cup Statuses \cup {"resumed"}

LEMMA RepliesAre ==
  ASSUME HealthTypeOK
  PROVE  RepliesSoFar = Cardinality(Replied) /\ RepliesSoFar \in Nat
<1>1. RepliesSoFar = Cardinality(Replied)
  BY DEF RepliesSoFar, Replied
<1>2. Replied \in SUBSET (1..Len(log)) /\ Len(log) \in Nat
  <2>1. log \in Seq(Outcomes)
    BY DEF HealthTypeOK
  <2> QED BY <2>1 DEF Replied
<1>3. IsFiniteSet(1..Len(log))
  BY <1>2, FS_Interval
<1>4. IsFiniteSet(Replied)
  BY <1>2, <1>3, FS_Subset
<1> QED BY <1>1, <1>4, FS_CardinalityType

LEMMA EventIs ==
  ASSUME HealthTypeOK, NEW k \in Kinds, NEW m \in Messages
  PROVE  /\ Event(k, m) \in Events /\ Event(k, m).kind = k /\ Event(k, m).msg = m
         /\ Event(k, m).of = RepliesSoFar /\ Event(k, m).resets = resets /\ ~Event(k, m).apart
<1>1. resets \in Nat /\ RepliesSoFar \in Nat
  BY RepliesAre DEF HealthTypeOK
<1>2. Event(k, m) \in Events
  BY <1>1 DEF Event, Events, Kinds, Messages
<1>3. /\ Event(k, m).kind = k /\ Event(k, m).msg = m
      /\ Event(k, m).of = RepliesSoFar /\ Event(k, m).resets = resets /\ Event(k, m).apart = FALSE
  BY DEF Event
<1> QED BY <1>2, <1>3

\* A log in hand: it fits what is said of it and its bound.
LogFits(es, st) == Good(es, st, RepliesSoFar, resets) /\ Len(es) <= MaxEvents

\* A reply that ends a run of losses, or a reset, is told and closes the run.
LEMMA ClosedOn ==
  ASSUME HealthTypeOK, NEW es, NEW st, LogFits(es, st), NEW k \in {"recovery", "reset"}, NEW m \in Messages
  PROVE  /\ LogFits(Told(es, Event(k, m)), st) /\ Quiet(Told(es, Event(k, m)))
         /\ Unjudged(es, resets) => Unjudged(Told(es, Event(k, m)), resets)
<1>1. k \in Kinds /\ k # "ping" /\ k # "health" /\ resets \in Nat
  BY DEF Kinds, HealthTypeOK
<1>2. /\ Event(k, m) \in Events /\ Event(k, m).kind = k
      /\ Event(k, m).of = RepliesSoFar /\ Event(k, m).resets = resets /\ ~Event(k, m).apart
  BY <1>1, EventIs
<1>3. ~Folds(es, Event(k, m))
  BY <1>1, <1>2, Zenon DEF Folds
<1> QED BY <1>1, <1>2, <1>3, AddedOn, Zenon DEF LogFits

\* A status that changes is told; if it does not, the last one told is still it.
LEMMA StatusTold ==
  ASSUME HealthTypeOK, NEW es, LogFits(es, judged.status), judged.status = "" => Unjudged(es, resets),
         NEW j, j.status \in Statuses
  PROVE  LogFits(NewStatus(es, j), j.status) /\ (Quiet(es) => Quiet(NewStatus(es, j)))
<1>0. resets \in Nat
  BY DEF HealthTypeOK
<1>1. CASE judged.status # "" /\ j.status # judged.status
  <2> DEFINE e == Event("health", j.status)
  <2>1. "health" \in Kinds /\ j.status \in Messages
    BY DEF Kinds, Messages
  <2>2. e \in Events /\ e.kind = "health" /\ e.msg = j.status /\ e.resets = resets /\ ~e.apart
    BY <2>1, EventIs
  <2>3. NewStatus(es, j) = Told(es, e)
    BY <1>1, Zenon DEF NewStatus
  <2> HIDE DEF e
  <2>4. e.kind # "ping"
    BY <2>2
  <2>5. ~Folds(es, e)
    BY <2>4, Zenon DEF Folds
  <2>6. /\ Good(Told(es, e), j.status, RepliesSoFar, resets) /\ Len(Told(es, e)) <= MaxEvents
        /\ Quiet(es) => Quiet(Told(es, e))
    BY <1>0, <2>2, <2>4, <2>5, AddedOn, Zenon DEF LogFits
  <2> QED BY <2>3, <2>6, Zenon DEF LogFits
<1>2. CASE judged.status = ""
  <2>1. NewStatus(es, j) = es
    BY <1>2, Zenon DEF NewStatus
  <2>2. Good(es, j.status, RepliesSoFar, resets)
    BY <1>2, StatusOn, Zenon DEF LogFits
  <2> QED BY <2>1, <2>2, Zenon DEF LogFits
<1>3. CASE j.status = judged.status
  <2>1. NewStatus(es, j) = es
    BY <1>3, Zenon DEF NewStatus
  <2> QED BY <1>3, <2>1, Zenon DEF LogFits
<1> QED BY <1>1, <1>2, <1>3, Zenon

\* A loss is folded into the event of its run or begins another.
LEMMA LossTold ==
  ASSUME HealthTypeOK, NEW es, NEW st, LogFits(es, st), NEW why \in Reasons
  PROVE  /\ LogFits(Told(es, Event("ping", why)), st)
         /\ Unjudged(es, resets) => Unjudged(Told(es, Event("ping", why)), resets)
<1> DEFINE e == Event("ping", why)
<1>0. resets \in Nat
  BY DEF HealthTypeOK
<1>1. "ping" \in Kinds /\ why \in Messages
  BY DEF Kinds, Messages
<1>2. e \in Events /\ e.kind = "ping" /\ e.of = RepliesSoFar /\ e.resets = resets /\ ~e.apart
  BY <1>1, EventIs
<1> HIDE DEF e
<1>3. e.kind # "health"
  BY <1>2
<1>4. CASE Folds(es, e)
  <2>1. /\ Good(Told(es, e), st, RepliesSoFar, resets) /\ Len(Told(es, e)) = Len(es)
        /\ Unjudged(es, resets) => Unjudged(Told(es, e), resets)
    BY <1>2, <1>4, FoldedOn, Zenon DEF LogFits
  <2> QED BY <2>1, Zenon DEF LogFits, e
<1>5. CASE ~Folds(es, e)
  <2>1. /\ Good(Told(es, e), st, RepliesSoFar, resets) /\ Len(Told(es, e)) <= MaxEvents
        /\ Unjudged(es, resets) => Unjudged(Told(es, e), resets)
    BY <1>0, <1>2, <1>3, <1>5, AddedOn, Zenon DEF LogFits
  <2> QED BY <2>1, Zenon DEF LogFits, e
<1> QED BY <1>4, <1>5

LEMMA JudgmentStatus ==
  ASSUME NEW f, NEW s, NEW bs, NEW w, NEW rtt
  PROVE  Judgment(f, s, bs, w, rtt).status \in Statuses /\ Judgment(f, s, bs, w, rtt).status # ""
<1> DEFINE r == Received(bs, w)
<1> DEFINE l == Lost(bs, w)
<1> DEFINE st == Status(f, s, r, l, rtt)
<1>1. st \in {"ok", "warn", "crit"}
  BY StatusIs
<1>2. Judgment(f, s, bs, w, rtt).status = st
  <2>1. Judgment(f, s, bs, w, rtt) = [status |-> st, received |-> r, lost |-> l, at |-> now]
    BY DEF Judgment
  <2> HIDE DEF r, l, st
  <2> QED BY <2>1
<1> HIDE DEF st
<1> QED BY <1>1, <1>2 DEF Statuses

\* Whatever happens is told as the event log promises.
LEMMA EventsStep ==
  ASSUME HealthInv, HealthNext
  PROVE  EventsFollow' /\ events' \in Seq(Events) /\ Len(events') <= MaxEvents
<1>0. /\ HealthTypeOK /\ LogFits(events, judged.status)
      /\ lastError = "" => Quiet(events)
      /\ judged.status = "" => Unjudged(events, resets)
  BY Zenon DEF HealthInv, HealthTypeOK, EventsFollow, LogFits, Good
<1>1. ASSUME NEW rtt \in RTTs, OnSuccess(rtt)
      PROVE  EventsFollow' /\ events' \in Seq(Events) /\ Len(events') <= MaxEvents
  <2> DEFINE es == IF lastError # "" THEN Told(events, Event("recovery", "resumed")) ELSE events
  <2> DEFINE j == Judgment(0, successes + 1, Counted(TRUE), window, rtt)
  <2>1. events' = NewStatus(es, j) /\ judged' = j /\ resets' = resets
    BY <1>1, Zenon DEF OnSuccess
  <2>2. "recovery" \in {"recovery", "reset"} /\ "resumed" \in Messages
    BY DEF Messages
  <2>3. LogFits(es, judged.status) /\ Quiet(es) /\ (judged.status = "" => Unjudged(es, resets))
    <3>1. CASE lastError # ""
      <4>1. es = Told(events, Event("recovery", "resumed"))
        BY <3>1, Zenon
      <4>2. /\ LogFits(Told(events, Event("recovery", "resumed")), judged.status)
            /\ Quiet(Told(events, Event("recovery", "resumed")))
            /\ Unjudged(events, resets) => Unjudged(Told(events, Event("recovery", "resumed")), resets)
        BY <1>0, <2>2, ClosedOn, Zenon
      <4> HIDE DEF es
      <4> QED BY <1>0, <4>1, <4>2, Zenon
    <3>2. CASE lastError = ""
      <4>1. es = events
        BY <3>2, Zenon
      <4> HIDE DEF es
      <4> QED BY <1>0, <3>2, <4>1, Zenon
    <3> QED BY <3>1, <3>2, Zenon
  <2>4. j.status \in Statuses /\ j.status # ""
    BY JudgmentStatus, Zenon
  <2> HIDE DEF es, j
  <2>5. LogFits(NewStatus(es, j), j.status) /\ Quiet(NewStatus(es, j))
    BY <1>0, <2>3, <2>4, StatusTold, Zenon
  <2>6. Good(NewStatus(es, j), j.status, RepliesSoFar', resets) /\ Len(NewStatus(es, j)) <= MaxEvents
    BY <2>5, QuietOn, Zenon DEF LogFits
  <2> QED BY <2>1, <2>4, <2>5, <2>6, Zenon DEF EventsFollow, Good
<1>2. ASSUME NEW why \in Reasons, OnFailure(why)
      PROVE  EventsFollow' /\ events' \in Seq(Events) /\ Len(events') <= MaxEvents
  <2> DEFINE es == Told(events, Event("ping", why))
  <2> DEFINE j == Judgment(failures + 1, 0, Counted(FALSE), window, lastRTT)
  <2>1. events' = NewStatus(es, j) /\ judged' = j /\ resets' = resets /\ lastError' = why
    BY <1>2, Zenon DEF OnFailure
  <2>2. LogFits(es, judged.status) /\ (Unjudged(events, resets) => Unjudged(es, resets))
    BY <1>0, LossTold, Zenon
  <2>3. RepliesSoFar' = RepliesSoFar
    <3>1. Loss(why) \in Outcomes /\ Loss(why).ok = FALSE /\ log' = Append(log, Loss(why))
      BY <1>2, LossIs
    <3>2. Replied' = Replied
      BY <1>0, <3>1, RepliesAfterLoss, Zenon
    <3> QED BY <3>2, Zenon DEF RepliesSoFar, Replied
  <2>4. j.status \in Statuses /\ j.status # ""
    BY JudgmentStatus, Zenon
  <2>5. why # ""
    BY ReasonAssumption
  <2> HIDE DEF es, j
  <2>6. LogFits(NewStatus(es, j), j.status)
    BY <1>0, <2>2, <2>4, StatusTold, Zenon
  <2> QED BY <2>1, <2>3, <2>4, <2>5, <2>6, Zenon DEF EventsFollow, Good, LogFits
<1>3. ASSUME ResetHealth
      PROVE  EventsFollow' /\ events' \in Seq(Events) /\ Len(events') <= MaxEvents
  <2> DEFINE es == Told(events, Event("reset", ""))
  <2>1. events' = es /\ resets' = resets + 1
    BY <1>3 DEF ResetHealth
  <2>2. "reset" \in {"recovery", "reset"} /\ "" \in Messages
    BY DEF Messages, Statuses
  <2>3. LogFits(es, judged.status) /\ Quiet(es)
    BY <1>0, <2>2, ClosedOn, Zenon
  <2>4. resets \in Nat
    BY <1>0 DEF HealthTypeOK
  <2> HIDE DEF es
  <2>5. Good(es, judged'.status, RepliesSoFar', resets + 1) /\ Unjudged(es, resets + 1)
    BY <2>3, <2>4, RenewedOn, Zenon DEF LogFits
  <2> QED BY <2>1, <2>3, <2>5, Zenon DEF EventsFollow, Good, LogFits
<1>4. ASSUME NEW w \in Windows, ConfigureHealth(w)
      PROVE  EventsFollow' /\ events' \in Seq(Events) /\ Len(events') <= MaxEvents
  <2>1. log' = log /\ resets' = resets /\ lastError' = lastError /\ events' = NewStatus(events, judged')
    BY <1>4, Zenon DEF ConfigureHealth
  <2>2. judged'.status \in Statuses /\ judged'.status # ""
    <3> DEFINE bs == IF w = window THEN buckets ELSE <<>>
    <3>1. CASE log = <<>>
      <4>1. judged' = [NoJudgment EXCEPT !.status = "pending", !.at = now]
        BY <1>4, <3>1, Zenon DEF ConfigureHealth
      <4>2. judged'.status = "pending"
        BY <4>1 DEF NoJudgment
      <4> QED BY <4>2 DEF Statuses
    <3>2. CASE log # <<>>
      <4>1. judged' = Judgment(failures, successes, bs, w, lastRTT)
        BY <1>4, <3>2, Zenon DEF ConfigureHealth
      <4> HIDE DEF bs
      <4> QED BY <4>1, JudgmentStatus, Zenon
    <3> QED BY <3>1, <3>2, Zenon
  <2>3. RepliesSoFar' = RepliesSoFar
    BY <2>1, Zenon DEF RepliesSoFar
  <2>4. LogFits(NewStatus(events, judged'), judged'.status) /\ (Quiet(events) => Quiet(NewStatus(events, judged')))
    BY <1>0, <2>2, StatusTold, Zenon
  <2> QED BY <1>0, <2>1, <2>2, <2>3, <2>4, Zenon DEF EventsFollow, Good, LogFits
<1>5. ASSUME NEW n \in Gaps, Passes(n)
      PROVE  EventsFollow' /\ events' \in Seq(Events) /\ Len(events') <= MaxEvents
  <2>1. /\ log' = log /\ resets' = resets /\ lastError' = lastError
        /\ events' = events /\ judged' = judged
    BY <1>5, Zenon DEF Passes
  <2>2. RepliesSoFar' = RepliesSoFar
    BY <2>1, Zenon DEF RepliesSoFar
  <2> QED BY <1>0, <2>1, <2>2, Zenon DEF EventsFollow, Good, LogFits
<1> QED BY <1>1, <1>2, <1>3, <1>4, <1>5 DEF HealthNext

\* A log that follows what happened hides nothing of it.
LEMMA EventsHold ==
  ASSUME HealthInv
  PROVE  EventsAreTrue
<1>1. /\ events \in Seq(Events) /\ resets \in Nat
      /\ Follow(events, judged.status, RepliesSoFar, resets)
  BY Zenon DEF HealthInv, HealthTypeOK, EventsFollow
<1>2. FoldsAreConsecutive
  BY <1>1, Zenon DEF Follow, FoldsAreConsecutive
<1>3. StatusIsTold
  <2> DEFINE own == {i \in DOMAIN events : events[i].kind = "health" /\ events[i].resets = resets}
  <2>1. SUFFICES ASSUME own # {}
                 PROVE  events[Max(own)].msg = judged.status
    BY DEF StatusIsTold
  <2>2. Len(events) \in Nat /\ DOMAIN events = 1..Len(events)
    BY <1>1
  <2>3. own \subseteq 1..Len(events)
    BY <2>2
  <2>4. Max(own) \in own /\ \A y \in own : y <= Max(own)
    <3> HIDE DEF own
    <3> QED BY <2>1, <2>2, <2>3, GreatestOf
  <2>5. PICK m : m = Max(own)
    OBVIOUS
  <2>6. m \in DOMAIN events /\ Own(events, m, resets)
    BY <2>4, <2>5 DEF Own
  <2>7. \A k \in DOMAIN events : k > m => ~Own(events, k, resets)
    <3>1. SUFFICES ASSUME NEW k \in DOMAIN events, k > m, Own(events, k, resets)
                   PROVE  FALSE
      OBVIOUS
    <3>2. k \in own
      BY <3>1 DEF Own
    <3>3. k <= m /\ k \in Nat /\ m \in Nat
      BY <2>2, <2>4, <2>5, <2>6, <3>1, <3>2
    <3> QED BY <3>1, <3>3
  <2>8. events[m].msg = judged.status
    BY <1>1, <2>6, <2>7, Zenon DEF Follow
  <2> QED BY <2>5, <2>8, Zenon
<1> QED BY <1>2, <1>3 DEF EventsAreTrue

LEMMA DropsIs ==
  ASSUME NEW es, NEW e
  PROVE  Drops(es, e) \in Nat
<1>1. Drops(es, e) = 0 \/ Drops(es, e) = 1
  BY Zenon DEF Drops
<1> QED BY <1>1

LEMMA StatusDropsIs ==
  ASSUME NEW es, NEW j
  PROVE  StatusDrops(es, j) \in Nat
<1>1. StatusDrops(es, j) = 0 \/ StatusDrops(es, j) = Drops(es, Event("health", j.status))
  BY Zenon DEF StatusDrops
<1> QED BY <1>1, DropsIs

\* The counters, which no other part of the invariant follows.
LEMMA CountsStep ==
  ASSUME HealthInv, HealthNext
  PROVE  /\ now' \in 1..MaxTime /\ window' \in Windows
         /\ resets' \in Nat /\ reconfigured' \in Nat /\ resets' + reconfigured' <= MaxEdits
         /\ log' \in Seq(Outcomes) /\ Len(log') <= MaxOutcomes /\ since' \in 0..Len(log')
         /\ lastRTT' \in Nat /\ eventsDropped' \in Nat
<1> DEFINE Goal ==
      /\ now' \in 1..MaxTime /\ window' \in Windows
      /\ resets' \in Nat /\ reconfigured' \in Nat /\ resets' + reconfigured' <= MaxEdits
      /\ log' \in Seq(Outcomes) /\ Len(log') <= MaxOutcomes /\ since' \in 0..Len(log')
      /\ lastRTT' \in Nat /\ eventsDropped' \in Nat
<1>0. /\ HealthTypeOK
      /\ now \in 1..MaxTime /\ window \in Windows
      /\ resets \in Nat /\ reconfigured \in Nat /\ resets + reconfigured <= MaxEdits
      /\ log \in Seq(Outcomes) /\ Len(log) <= MaxOutcomes /\ since \in 0..Len(log)
      /\ lastRTT \in Nat /\ eventsDropped \in Nat
  BY DEF HealthInv, HealthTypeOK
<1>a. Len(log) \in Nat /\ MaxOutcomes \in Nat /\ MaxTime \in Nat /\ MaxEdits \in Nat
  BY <1>0, HealthAssumption
<1>1. ASSUME NEW rtt \in RTTs, OnSuccess(rtt)
      PROVE  Goal
  <2>1. Reply(rtt) \in Outcomes /\ log' = Append(log, Reply(rtt)) /\ rtt \in Nat \ {0}
    BY <1>1, ReplyIs
  <2>2. /\ now' = now /\ window' = window /\ resets' = resets /\ reconfigured' = reconfigured
        /\ since' = since /\ lastRTT' = rtt /\ Len(log) < MaxOutcomes
    BY <1>1, Zenon DEF OnSuccess
  <2>3. log' \in Seq(Outcomes) /\ Len(log') = Len(log) + 1
    BY <1>0, <2>1
  <2>4. eventsDropped' \in Nat
    <3> DEFINE es == IF lastError # "" THEN Told(events, Event("recovery", "resumed")) ELSE events
    <3> DEFINE j == Judgment(0, successes + 1, Counted(TRUE), window, rtt)
    <3> DEFINE a == StatusDrops(es, j)
    <3> DEFINE b == IF lastError # "" THEN Drops(events, Event("recovery", "resumed")) ELSE 0
    <3>1. eventsDropped' = eventsDropped + a + b
      BY <1>1, Zenon DEF OnSuccess
    <3>2. a \in Nat
      BY StatusDropsIs
    <3>3. b = 0 \/ b \in Nat
      BY DropsIs, Zenon
    <3> HIDE DEF a, b
    <3> QED BY <1>0, <3>1, <3>2, <3>3
  <2>5. since' \in 0..Len(log')
    BY <1>0, <1>a, <2>2, <2>3
  <2>6. Len(log') <= MaxOutcomes
    BY <1>a, <2>2, <2>3
  <2> QED BY <1>0, <2>1, <2>2, <2>3, <2>4, <2>5, <2>6
<1>2. ASSUME NEW why \in Reasons, OnFailure(why)
      PROVE  Goal
  <2>1. Loss(why) \in Outcomes /\ log' = Append(log, Loss(why))
    BY <1>2, LossIs
  <2>2. /\ now' = now /\ window' = window /\ resets' = resets /\ reconfigured' = reconfigured
        /\ since' = since /\ lastRTT' = lastRTT /\ Len(log) < MaxOutcomes
    BY <1>2, Zenon DEF OnFailure
  <2>3. log' \in Seq(Outcomes) /\ Len(log') = Len(log) + 1
    BY <1>0, <2>1
  <2>4. eventsDropped' \in Nat
    <3> DEFINE es == Told(events, Event("ping", why))
    <3> DEFINE j == Judgment(failures + 1, 0, Counted(FALSE), window, lastRTT)
    <3> DEFINE a == StatusDrops(es, j)
    <3> DEFINE b == Drops(events, Event("ping", why))
    <3>1. eventsDropped' = eventsDropped + b + a
      BY <1>2, Zenon DEF OnFailure
    <3>2. a \in Nat /\ b \in Nat
      BY StatusDropsIs, DropsIs
    <3> HIDE DEF a, b
    <3> QED BY <1>0, <3>1, <3>2
  <2>5. since' \in 0..Len(log')
    BY <1>0, <1>a, <2>2, <2>3
  <2>6. Len(log') <= MaxOutcomes
    BY <1>a, <2>2, <2>3
  <2> QED BY <1>0, <2>1, <2>2, <2>3, <2>4, <2>5, <2>6
<1>3. ASSUME ResetHealth
      PROVE  Goal
  <2>1. /\ now' = now /\ window' = window /\ resets' = resets + 1 /\ reconfigured' = reconfigured
        /\ resets + reconfigured < MaxEdits
        /\ since' = 0 /\ lastRTT' = 0 /\ log' = <<>>
    BY <1>3, Zenon DEF ResetHealth
  <2>2. PICK d \in Nat : eventsDropped' = eventsDropped + d
    BY <1>3, DropsIs, Zenon DEF ResetHealth
  <2>3. eventsDropped' \in Nat
    BY <1>0, <2>2
  <2>4. log' \in Seq(Outcomes) /\ Len(log') = 0 /\ since' \in 0..0
    BY <2>1
  <2>5. resets' \in Nat /\ resets' + reconfigured' <= MaxEdits
    BY <1>0, <1>a, <2>1
  <2> QED BY <1>0, <1>a, <2>1, <2>3, <2>4, <2>5
<1>4. ASSUME NEW w \in Windows, ConfigureHealth(w)
      PROVE  Goal
  <2>1. /\ now' = now /\ window' = w /\ resets' = resets /\ reconfigured' = reconfigured + 1
        /\ resets + reconfigured < MaxEdits
        /\ lastRTT' = lastRTT /\ log' = log
        /\ since' = (IF w = window THEN since ELSE Len(log))
        /\ eventsDropped' = eventsDropped + StatusDrops(events, judged')
    BY <1>4, Zenon DEF ConfigureHealth
  <2>2. eventsDropped' \in Nat
    <3>1. StatusDrops(events, judged') \in Nat
      BY StatusDropsIs
    <3> QED BY <1>0, <2>1, <3>1
  <2>3. since' \in 0..Len(log)
    BY <1>0, <1>a, <2>1
  <2> QED BY <1>0, <1>a, <2>1, <2>2, <2>3
<1>5. ASSUME NEW n \in Gaps, Passes(n)
      PROVE  Goal
  <2>1. n \in Nat
    BY HealthAssumption
  <2>2. /\ now' = now + n /\ now + n <= MaxTime /\ window' = window
        /\ resets' = resets /\ reconfigured' = reconfigured /\ since' = since
        /\ lastRTT' = lastRTT /\ log' = log /\ eventsDropped' = eventsDropped
    BY <1>5, Zenon DEF Passes
  <2>3. now' \in 1..MaxTime
    BY <1>0, <1>a, <2>1, <2>2
  <2> QED BY <1>0, <2>2, <2>3
<1> QED BY <1>1, <1>2, <1>3, <1>4, <1>5 DEF HealthNext

LEMMA ErrorStep ==
  ASSUME HealthInv, HealthNext
  PROVE  lastError' \in Reasons \cup {""}
<1>1. lastError \in Reasons \cup {""}
  BY Zenon DEF HealthInv, HealthTypeOK
<1>2. ASSUME NEW rtt \in RTTs, OnSuccess(rtt)
      PROVE  lastError' = ""
  BY <1>2, Zenon DEF OnSuccess
<1>3. ASSUME NEW why \in Reasons, OnFailure(why)
      PROVE  lastError' = why
  BY <1>3, Zenon DEF OnFailure
<1>4. ASSUME ResetHealth
      PROVE  lastError' = ""
  BY <1>4, Zenon DEF ResetHealth
<1>5. ASSUME NEW w \in Windows, ConfigureHealth(w)
      PROVE  lastError' = lastError
  BY <1>5, Zenon DEF ConfigureHealth
<1>6. ASSUME NEW n \in Gaps, Passes(n)
      PROVE  lastError' = lastError
  BY <1>6, Zenon DEF Passes
<1> QED BY <1>1, <1>2, <1>3, <1>4, <1>5, <1>6, Zenon DEF HealthNext

\* The invariant holds at the start and is kept by every step.
LEMMA HealthInvariance == HealthSpec => []HealthInv
<1>1. ASSUME HealthInit
      PROVE  HealthInv
  <2>0. /\ now = 1 /\ since = 0 /\ resets = 0 /\ reconfigured = 0 /\ window \in Windows /\ buckets = <<>>
        /\ failures = 0 /\ successes = 0 /\ down = FALSE
        /\ judged = NoJudgment /\ lastRTT = 0 /\ events = <<>> /\ eventsDropped = 0
        /\ ring = NoRing /\ extremes = NoExtremes /\ log = <<>>
    BY <1>1, Zenon DEF HealthInit
  <2>1. HealthTypeOK
    <3>1. judged \in [status : Statuses, received : Nat, lost : Nat, at : Nat]
      <4>1. "" \in Statuses
        BY DEF Statuses
      <4> QED BY <2>0, <4>1 DEF NoJudgment
    <3>2. ring \in [slot : [0..HistorySize - 1 -> Samples], idx : Nat, len : 0..HistorySize]
      <4>1. 0 \in 0..HistorySize
        BY HealthAssumption
      <4> QED BY <2>0, <4>1 DEF NoRing, Samples
    <3>3. extremes \in [min : Nat, max : Nat, sum : Nat, samples : Nat]
      BY <2>0 DEF NoExtremes
    <3>4. log \in Seq(Outcomes) /\ Len(log) = 0 /\ events \in Seq(Events) /\ Len(events) = 0
      BY <2>0
    <3>5. now \in 1..MaxTime /\ resets + reconfigured <= MaxEdits
      BY <2>0, HealthAssumption
    <3>6. failures \in 0..MaxOutcomes /\ successes \in 0..MaxOutcomes
      BY <2>0, HealthAssumption
    <3>7. Len(log) <= MaxOutcomes /\ Len(events) <= MaxEvents /\ since \in 0..Len(log)
      BY <2>0, <3>4, HealthAssumption
    <3>8. lastError \in Reasons \cup {""}
      BY <1>1, Zenon DEF HealthInit
    <3>9. /\ down \in BOOLEAN /\ resets \in Nat /\ reconfigured \in Nat /\ lastRTT \in Nat
          /\ eventsDropped \in Nat
      BY <2>0
    <3> QED BY <2>0, <3>1, <3>2, <3>3, <3>4, <3>5, <3>6, <3>7, <3>8, <3>9, Zenon DEF HealthTypeOK
  <2>2. DOMAIN log = {} /\ DOMAIN events = {} /\ Len(log) = 0
    BY <2>0
  <2>j. judged.status = ""
    BY <2>0 DEF NoJudgment
  <2>3. DownFollowsRuns
    BY <2>0, <2>2 DEF DownFollowsRuns
  <2>4. RecentIsExact
    BY <2>j, Zenon DEF RecentIsExact
  <2>5. Runs
    BY <2>0, <2>2 DEF Runs, Trails
  <2>6. BucketsFollow
    BY <2>0, <2>2 DEF BucketsFollow, Holds
  <2>7. RingFollows
    BY <2>0, <2>2, HealthAssumption DEF RingFollows, NoRing
  <2>8. ExtremesFollow
    <3>1. Replied = {}
      BY <2>2 DEF Replied
    <3>2. Units(RTTOf) = {}
      BY <3>1 DEF RTTOf, Units
    <3>3. extremes.min = 0 /\ extremes.max = 0 /\ extremes.sum = 0 /\ extremes.samples = 0
      BY <2>0 DEF NoExtremes
    <3>4. IsFiniteSet(Units(RTTOf)) /\ Cardinality(Units(RTTOf)) = 0 /\ Cardinality(Replied) = 0
      BY <3>1, <3>2, FS_EmptySet
    <3> QED BY <3>1, <3>3, <3>4, Zenon DEF ExtremesFollow
  <2>9. EventsFollow
    BY <2>2, Zenon DEF EventsFollow, Follow, Quiet, Unjudged
  <2> QED BY <2>1, <2>3, <2>4, <2>5, <2>6, <2>7, <2>8, <2>9, Zenon DEF HealthInv
<1>2. ASSUME HealthInv, HealthNext
      PROVE  HealthInv'
  <2>1. Runs' /\ DownFollowsRuns' /\ down' \in BOOLEAN
    BY <1>2, RunsStep
  <2>2. /\ BucketsFollow' /\ RecentIsExact' /\ judged' \in Judgments
        /\ (buckets' = <<>> \/ buckets' \in [0..BucketCount' - 1 -> Buckets])
    BY <1>2, BucketsStep
  <2>3. /\ RingFollows'
        /\ ring' \in [slot : [0..HistorySize - 1 -> Samples], idx : Nat, len : 0..HistorySize]
    BY <1>2, RingStep
  <2>4. ExtremesFollow' /\ extremes' \in ExtremesType
    BY <1>2, ExtremesStep
  <2>5. EventsFollow' /\ events' \in Seq(Events) /\ Len(events') <= MaxEvents
    BY <1>2, EventsStep
  <2>6. /\ now' \in 1..MaxTime /\ window' \in Windows
        /\ resets' \in Nat /\ reconfigured' \in Nat /\ resets' + reconfigured' <= MaxEdits
        /\ log' \in Seq(Outcomes) /\ Len(log') <= MaxOutcomes /\ since' \in 0..Len(log')
        /\ lastRTT' \in Nat /\ eventsDropped' \in Nat
    BY <1>2, CountsStep
  <2>e. lastError' \in Reasons \cup {""}
    BY <1>2, ErrorStep, Zenon
  <2>7. failures' \in 0..MaxOutcomes /\ successes' \in 0..MaxOutcomes
    <3>1. failures' \in 0..Len(log') /\ successes' \in 0..Len(log')
      BY <2>1, Zenon DEF Runs, Trails
    <3>2. Len(log') \in Nat /\ Len(log') <= MaxOutcomes /\ MaxOutcomes \in Nat
      BY <2>6, HealthAssumption
    <3>3. 0..Len(log') \subseteq 0..MaxOutcomes
      BY <3>2
    <3> QED BY <3>1, <3>3, Zenon
  <2>8. HealthTypeOK'
    BY <2>1, <2>2, <2>3, <2>4, <2>5, <2>6, <2>7, <2>e, Zenon DEF HealthTypeOK, Judgments, ExtremesType
  <2> QED BY <2>1, <2>2, <2>3, <2>4, <2>5, <2>8, Zenon DEF HealthInv
<1>3. ASSUME HealthInv, UNCHANGED hvars
      PROVE  HealthInv'
  <2>1. /\ now' = now /\ window' = window /\ buckets' = buckets /\ since' = since /\ failures' = failures
        /\ successes' = successes /\ down' = down /\ judged' = judged /\ lastError' = lastError
        /\ lastRTT' = lastRTT /\ events' = events /\ eventsDropped' = eventsDropped /\ ring' = ring
        /\ extremes' = extremes /\ log' = log /\ resets' = resets /\ reconfigured' = reconfigured
    BY <1>3 DEF hvars
  <2>2. BucketCount' = BucketCount /\ Replied' = Replied /\ RepliesSoFar' = RepliesSoFar
    BY <2>1, Zenon DEF BucketCount, Replied, RepliesSoFar
  <2>3. RTTOf' = RTTOf
    BY <2>1, <2>2, Zenon DEF RTTOf
  <2>4. HealthTypeOK'
    BY <1>3, <2>1, <2>2, Zenon DEF HealthInv, HealthTypeOK
  <2>5. DownFollowsRuns'
    BY <1>3, <2>1 DEF HealthInv, DownFollowsRuns, RunEndsAt
  <2>6. RecentIsExact'
    BY <1>3, <2>1, Zenon DEF HealthInv, RecentIsExact
  <2>7. Runs' /\ BucketsFollow'
    BY <1>3, <2>1, <2>2, Zenon DEF HealthInv, Runs, BucketsFollow
  <2>8. RingFollows'
    BY <1>3, <2>1 DEF HealthInv, RingFollows, SampleOf
  <2>9. ExtremesFollow' /\ EventsFollow'
    BY <1>3, <2>1, <2>2, <2>3, Zenon DEF HealthInv, ExtremesFollow, EventsFollow
  <2> QED BY <2>4, <2>5, <2>6, <2>7, <2>8, <2>9, Zenon DEF HealthInv
<1> QED BY <1>1, <1>2, <1>3, PTL DEF HealthSpec

\* Whatever the outcomes, resets, edits and pauses, the incremental state of a target's
\* window (buckets, runs, ring, extremes) says what its outcomes say.
THEOREM ExactHealth == HealthSpec => []HealthIsExact
<1>1. ASSUME HealthInv
      PROVE  HealthIsExact
  <2>1. HealthTypeOK /\ DownFollowsRuns /\ RecentIsExact
    BY <1>1, Zenon DEF HealthInv
  <2>2. HistoryIsTail /\ ExtremesAreExact
    BY <1>1, RingIsTail, ExtremesHold
  <2> QED BY <2>1, <2>2, Zenon DEF HealthIsExact
<1> QED BY <1>1, HealthInvariance, PTL

\* No event folds losses that a reply or a reset separates, and the last health event
\* of a statistics window names the present status (recordEventLocked).
THEOREM TrueEvents == HealthSpec => []EventsAreTrue
BY EventsHold, HealthInvariance, PTL

-----------------------------------------------------------------------------
(* The three together.                                                     *)

\* A behaviour of Measures is one of each of its parts, so that what is proved of
\* a part holds of the behaviours the model checker explores.
LEMMA PartsRun == MeasuresSpec => Spec /\ HealthSpec /\ MTUSpec
<1>1. MeasuresInit => Init /\ HealthInit /\ MTUInit
  BY DEF MeasuresInit
<1>2. [MeasuresNext]_mvars => [Next]_vars /\ [HealthNext]_hvars /\ [MTUNext]_uvars
  <2>1. SUFFICES ASSUME [MeasuresNext]_mvars
                 PROVE  [Next]_vars /\ [HealthNext]_hvars /\ [MTUNext]_uvars
    OBVIOUS
  <2>2. CASE InRoutes(Next)
    BY <2>2, Zenon DEF InRoutes
  <2>3. CASE InHealth(HealthNext)
    BY <2>3, Zenon DEF InHealth
  <2>4. CASE InPathMTU(MTUNext)
    BY <2>4, Zenon DEF InPathMTU
  <2>5. CASE UNCHANGED mvars
    <3>1. mvars' = mvars
      BY <2>5
    <3>2. vars' = vars /\ hvars' = hvars /\ uvars' = uvars
      BY <3>1 DEF mvars
    <3> QED BY <3>2, Zenon
  <2> QED BY <2>1, <2>2, <2>3, <2>4, <2>5 DEF MeasuresNext
<1> QED BY <1>1, <1>2, PTL DEF MeasuresSpec, Spec, HealthSpec, MTUSpec

\* Whatever a session derives of its answers is exact: its routes are those of whole
\* rounds, its health that of the outcomes, its path MTU one the path carries.
THEOREM SoundMeasures ==
  MeasuresSpec =>
    /\ [](RoutesAreWhole /\ TableFitsRoute /\ HealthIsExact /\ EventsAreTrue /\ SizesAreSound)
    /\ FlapsAreRouteChanges
BY PartsRun, WholeRoutes, FittingTables, ExactHealth, TrueEvents, SoundSizes, TrueFlaps, PTL

=============================================================================
