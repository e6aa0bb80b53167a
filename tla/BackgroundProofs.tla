-------------------------- MODULE BackgroundProofs --------------------------
(***************************************************************************)
(* Theorems of Background, for every number of targets, addresses, hops    *)
(* and concurrent lookups.                                                 *)
(***************************************************************************)
EXTENDS Background, FiniteSetTheorems, TLAPS

USE CheckersAssumption, HopAnnotatorAssumption

(***************************************************************************)
(* The inductive invariant.                                                *)
(***************************************************************************)

\* No loop runs for a target that was not started or was removed, and none at all
\* when Wait has returned.
Joins ==
  /\ call = "none" => \A t \in Targets : run[t] = "none"
  /\ \A l \in PortLoops : run[l[1]] = "none" => loop[l] = "off"
  /\ \A l \in PortLoops : run[l[1]] = "removed" => loop[l] \in {"off", "gone"}
  /\ call = "ended" => Quiet(Loops)

\* An attempt that shutdown ended belongs to a cancelled loop and looks failed, so
\* that its verdict discards it.
Interruptions ==
  /\ \A l \in PortLoops : watch[l] = "fired" => Cancelled(l)
  /\ \A l \in Loops : outcome[l].shut => /\ Cancelled(l) /\ outcome[l].res = "failure"
                                         /\ loop[l] # "storing"

CheckersInv ==
  /\ CheckersTypeOK
  /\ Joins /\ Interruptions
  /\ ShutdownIsNoFailure /\ ChangesAreTold

\* A round carries the label of its own address, and none is under way once
\* the annotator was closed.
Rounds ==
  \A i \in TTLs :
    /\ round[i].asn \in {No, round[i].ip}
    /\ round[i].at # "idle" => round[i].ip \in IPs /\ closing = "open"

\* A lookup is registered from its start to its end; a closed annotator has none.
Lookups ==
  /\ IsFiniteSet(held)
  /\ \A a \in IPs : lookup[a] # "none" => a \in inflight
  /\ closing = "closed" => AllGone

AnnotatorInv ==
  /\ AnnotatorTypeOK
  /\ Rounds /\ Lookups
  /\ OnlyOwnAnnotations /\ CacheIsWhole

IInv == CheckersInv /\ AnnotatorInv

LEMMA InitIInv == Init => IInv
<1> SUFFICES ASSUME Init PROVE IInv
  OBVIOUS
<1> USE DEF Init, CheckersInit, AnnotatorInit
<1>1. CheckersTypeOK
  BY DEF CheckersTypeOK, None, Checking, Places, Calls
<1>2. Joins
  BY DEF Joins, PortLoops, Loops
<1>3. Interruptions
  BY DEF Interruptions, None, PortLoops, Loops
<1>4. ShutdownIsNoFailure /\ ChangesAreTold
  BY DEF ShutdownIsNoFailure, ChangesAreTold, PortLoops, Loops
<1>5. AnnotatorTypeOK
  <2>1. Cardinality({}) = 0
    BY FS_EmptySet
  <2>2. hop \in [TTLs -> [ip : IPs \cup {No}, asn : IPs \cup {No}]]
    BY DEF EmptyHop
  <2>3. round \in [TTLs -> [at : {"idle", "recording", "noting"}, ip : IPs \cup {No},
                            asn : IPs \cup {No}]]
    BY DEF Resting
  <2>4. known \in [IPs -> [asn : BOOLEAN, ptr : BOOLEAN]]
        /\ got \in [IPs -> [asn : BOOLEAN, ptr : BOOLEAN]]
    BY DEF Nothing
  <2>5. cancelled \in BOOLEAN /\ pstopped \in {"no", "done", "cancelled"}
    OBVIOUS
  <2>6. /\ inflight \subseteq IPs /\ held \subseteq inflight /\ Cardinality(held) <= MaxLookups
        /\ lookup \in [IPs -> LookupPlaces] /\ asnCache \in [IPs -> {"none", "whole", "cut"}]
        /\ closing \in {"open", "waiting", "closed"}
    BY <2>1 DEF LookupPlaces
  <2> QED BY <2>2, <2>3, <2>4, <2>5, <2>6 DEF AnnotatorTypeOK
<1>6. Rounds
  BY DEF Rounds, Resting
<1>7. Lookups
  BY FS_EmptySet DEF Lookups
<1>8. OnlyOwnAnnotations /\ CacheIsWhole
  BY DEF OnlyOwnAnnotations, CacheIsWhole, EmptyHop
<1> QED BY <1>1, <1>2, <1>3, <1>4, <1>5, <1>6, <1>7, <1>8 DEF IInv, CheckersInv, AnnotatorInv

(***************************************************************************)
(* The loops of the checkers.                                              *)
(***************************************************************************)

\* What a step of a loop does to its own state, and that it does nothing to the
\* state of another loop or to the supervisor's.
LEMMA LoopKeepsOthers ==
  ASSUME CheckersTypeOK, NEW l \in Loops, LoopStep(l)
  PROVE  /\ UNCHANGED <<stopped, run, ip, kind, call>>
         /\ \A m \in Loops \ {l} :
              /\ loop'[m] = loop[m] /\ outcome'[m] = outcome[m] /\ status'[m] = status[m]
              /\ aborted'[m] = aborted[m] /\ told'[m] = told[m]
         /\ \A m \in PortLoops \ {l} : watch'[m] = watch[m]
<1>1. UNCHANGED <<stopped, run, ip, kind, call>>
  BY DEF LoopStep, LoopAdvances, LoopTicks, LoopLeaves
<1>2. /\ loop \in [Loops -> Places] /\ DOMAIN outcome = Loops /\ DOMAIN status = Loops
      /\ DOMAIN aborted = Loops /\ DOMAIN told = Loops /\ DOMAIN watch = PortLoops
      /\ PortLoops \subseteq Loops
  BY DEF CheckersTypeOK, Loops
<1>3. CASE LoopTicks(l) \/ LoopLeaves(l)
  BY <1>1, <1>2, <1>3 DEF LoopTicks, LoopLeaves, Tick, Leaves, Enters
<1>4. CASE LoopAdvances(l)
  <2>1. \A m \in Loops \ {l} : loop'[m] = loop[m]
    BY <1>2, <1>4 DEF LoopAdvances, Advance, AddressWaited, AddressWaitCancelled, CheckBegins,
       Answered, Interrupted, NotBuilt, Ends, Armed, Fires, WatchEnds, Verdict, SetResult, RecordEvent,
       Enters
  <2>2. \A m \in Loops \ {l} : outcome'[m] = outcome[m]
    BY <1>2, <1>4 DEF LoopAdvances, Advance, AddressWaited, AddressWaitCancelled, CheckBegins,
       Answered, Interrupted, NotBuilt, Ends, Armed, Fires, WatchEnds, Verdict, SetResult, RecordEvent
  <2>3. \A m \in Loops \ {l} : status'[m] = status[m] /\ aborted'[m] = aborted[m] /\ told'[m] = told[m]
    BY <1>2, <1>4 DEF LoopAdvances, Advance, AddressWaited, AddressWaitCancelled, CheckBegins,
       Answered, Interrupted, NotBuilt, Ends, Armed, Fires, WatchEnds, Verdict, SetResult, RecordEvent
  <2>4. \A m \in PortLoops \ {l} : watch'[m] = watch[m]
    BY <1>2, <1>4 DEF LoopAdvances, Advance, AddressWaited, AddressWaitCancelled, CheckBegins,
       Answered, Interrupted, NotBuilt, Ends, Armed, Fires, WatchEnds, Verdict, SetResult, RecordEvent
  <2> QED BY <1>1, <2>1, <2>2, <2>3, <2>4
<1> QED BY <1>3, <1>4 DEF LoopStep

\* The places a loop goes through, and what it records in each.
LEMMA LoopFacts ==
  ASSUME CheckersTypeOK, NEW l \in Loops, LoopStep(l)
  PROVE  \/ /\ loop[l] \in {"idle", "resolving", "checking"}
            /\ loop'[l] \in {"checking", "gone", "idle", "dialing"}
            /\ UNCHANGED <<outcome, watch, status, aborted, told>>
         \/ /\ loop[l] = "dialing"
            /\ loop'[l] \in {"closing", "verdict"} \/ (l = Http /\ loop'[l] = "storing")
            /\ outcome'[l].res \in Results /\ ~outcome'[l].shut
            /\ UNCHANGED <<watch, status, aborted, told>>
         \/ /\ loop[l] = "dialing" /\ loop'[l] \in {"closing", "verdict"}
            /\ outcome'[l] = [res |-> "failure", shut |-> TRUE]
            /\ IF HasWatcher(l) THEN watch[l] = "fired" ELSE Cancelled(l)
            /\ UNCHANGED <<watch, status, aborted, told>>
         \/ /\ HasWatcher(l)
            /\ watch'[l] = "armed" \/ (watch'[l] = "fired" /\ Cancelled(l))
            /\ UNCHANGED <<loop, outcome, status, aborted, told>>
         \/ /\ HasWatcher(l) /\ loop[l] = "closing" /\ loop'[l] = "verdict"
            /\ watch'[l] = "none"
            /\ UNCHANGED <<outcome, status, aborted, told>>
         \/ /\ loop[l] = "verdict"
            /\ \/ Discards(l) /\ loop'[l] = "idle" /\ outcome'[l] = None
               \/ ~Discards(l) /\ loop'[l] = "storing" /\ outcome'[l] = outcome[l]
            /\ UNCHANGED <<watch, status, aborted, told>>
         \/ /\ loop[l] = "storing" /\ loop'[l] = NextPlace(l)
            /\ status'[l] = outcome[l].res /\ aborted'[l] = outcome[l].shut
            /\ outcome'[l] = None
            /\ UNCHANGED <<watch, told>>
         \/ /\ loop[l] = "telling" /\ loop'[l] = "idle" /\ told'[l] = status[l]
            /\ UNCHANGED <<outcome, watch, status, aborted>>
<1>1. /\ loop \in [Loops -> Places] /\ DOMAIN outcome = Loops /\ DOMAIN status = Loops
      /\ DOMAIN aborted = Loops /\ DOMAIN told = Loops /\ DOMAIN watch = PortLoops
      /\ (HasWatcher(l) => l \in PortLoops)
  BY DEF CheckersTypeOK, Loops, PortLoops, HasWatcher
<1>2. CASE LoopTicks(l) \/ LoopLeaves(l)
  BY <1>1, <1>2 DEF LoopTicks, LoopLeaves, Tick, Leaves, Enters
<1>3. CASE LoopAdvances(l)
  <2>1. CASE /\ AddressWaited(l) \/ AddressWaitCancelled(l) \/ CheckBegins(l)
             /\ UNCHANGED <<outcome, watch, status, aborted, told>>
    BY <1>1, <2>1 DEF AddressWaited, AddressWaitCancelled, CheckBegins, Enters
  <2>2. CASE Answered(l) /\ UNCHANGED <<watch, status, aborted, told>>
    <3>1. PICK res \in Results : Ends(l, res, FALSE, After(l))
      BY <2>2 DEF Answered
    <3>2. /\ loop[l] = "dialing" /\ loop'[l] = After(l)
          /\ outcome'[l] = [res |-> res, shut |-> FALSE]
      BY <1>1, <3>1 DEF Ends, Enters
    <3>3. outcome'[l].res \in Results /\ ~outcome'[l].shut
      BY <3>2
    <3> QED BY <2>2, <3>2, <3>3 DEF After
  <2>3. CASE Interrupted(l) /\ UNCHANGED <<watch, status, aborted, told>>
    <3>1. /\ loop[l] = "dialing" /\ loop'[l] = After(l)
          /\ outcome'[l] = [res |-> "failure", shut |-> TRUE]
      BY <1>1, <2>3 DEF Interrupted, Ends, Enters
    <3> QED BY <2>3, <3>1 DEF After, Interrupted
  <2>9. CASE NotBuilt(l) /\ UNCHANGED <<watch, status, aborted, told>>
    <3>1. /\ loop[l] = "dialing" /\ loop'[l] = "storing" /\ l = Http
          /\ outcome'[l] = [res |-> "failure", shut |-> FALSE]
      BY <1>1, <2>9 DEF NotBuilt, Ends, Enters
    <3> QED BY <2>9, <3>1 DEF Results
  <2>4. CASE (Armed(l) \/ Fires(l)) /\ UNCHANGED <<loop, outcome, status, aborted, told>>
    BY <1>1, <2>4 DEF Armed, Fires
  <2>5. CASE WatchEnds(l) /\ UNCHANGED <<outcome, status, aborted, told>>
    BY <1>1, <2>5 DEF WatchEnds, Enters
  <2>6. CASE Verdict(l) /\ UNCHANGED <<watch, status, aborted, told>>
    BY <1>1, <2>6 DEF Verdict, Enters
  <2>7. CASE SetResult(l) /\ UNCHANGED <<watch, told>>
    BY <1>1, <2>7 DEF SetResult, Enters
  <2>8. CASE RecordEvent(l) /\ UNCHANGED <<outcome, watch, status, aborted>>
    BY <1>1, <2>8 DEF RecordEvent, Enters
  <2> QED BY <1>3, <2>1, <2>2, <2>3, <2>4, <2>5, <2>6, <2>7, <2>8, <2>9
     DEF LoopAdvances, Advance
<1> QED BY <1>2, <1>3 DEF LoopStep

LEMMA LoopTypes ==
  ASSUME CheckersTypeOK, NEW l \in Loops, LoopStep(l)
  PROVE  CheckersTypeOK'
<1>1. UNCHANGED <<stopped, run, ip, kind, call>>
  BY LoopKeepsOthers
<1>2. /\ loop \in [Loops -> Places] /\ (HasWatcher(l) => l \in PortLoops)
      /\ outcome \in [Loops -> [res : Results \cup {Checking}, shut : BOOLEAN]]
      /\ watch \in [PortLoops -> {"none", "armed", "fired"}]
      /\ status \in [Loops -> Results \cup {Checking}]
      /\ told \in [Loops -> Results \cup {Checking}]
  BY DEF CheckersTypeOK, HasWatcher, Loops, PortLoops
<1>3. aborted \in [Loops -> BOOLEAN] /\ outcome[l].shut \in BOOLEAN
  BY <1>2 DEF CheckersTypeOK
<1>4. loop' \in [Loops -> Places]
  BY <1>2 DEF LoopStep, LoopTicks, LoopLeaves, Tick, Leaves, LoopAdvances, Advance,
     AddressWaited, AddressWaitCancelled, CheckBegins, Answered, Interrupted, NotBuilt, Ends, After, Armed,
     Fires, WatchEnds, Verdict, SetResult, NextPlace, RecordEvent, Enters, Places
<1>5. outcome' \in [Loops -> [res : Results \cup {Checking}, shut : BOOLEAN]]
  <2>1. None \in [res : Results \cup {Checking}, shut : BOOLEAN]
        /\ \A res \in Results, b \in BOOLEAN :
             [res |-> res, shut |-> b] \in [res : Results \cup {Checking}, shut : BOOLEAN]
    BY DEF None
  <2>2. \/ outcome' = outcome \/ outcome' = [outcome EXCEPT ![l] = None]
        \/ \E res \in Results, b \in BOOLEAN :
             outcome' = [outcome EXCEPT ![l] = [res |-> res, shut |-> b]]
    BY DEF LoopStep, LoopTicks, LoopLeaves, LoopAdvances, Advance, Answered, Interrupted, NotBuilt, Ends,
       Verdict, SetResult, Results
  <2> QED BY <1>2, <2>1, <2>2
<1>6. watch' \in [PortLoops -> {"none", "armed", "fired"}]
  BY <1>2 DEF LoopStep, LoopTicks, LoopLeaves, LoopAdvances, Advance, Armed, Fires, WatchEnds
<1>7. status' \in [Loops -> Results \cup {Checking}]
      /\ told' \in [Loops -> Results \cup {Checking}]
  BY <1>2 DEF LoopStep, LoopTicks, LoopLeaves, LoopAdvances, Advance, SetResult, RecordEvent
<1>8. aborted' \in [Loops -> BOOLEAN]
  <2>1. aborted' = aborted \/ aborted' = [aborted EXCEPT ![l] = outcome[l].shut]
    BY DEF LoopStep, LoopTicks, LoopLeaves, LoopAdvances, Advance, SetResult
  <2> QED BY <1>3, <2>1
<1>9. stopped' \in BOOLEAN /\ ip' \in [Targets -> BOOLEAN]
  BY <1>1 DEF CheckersTypeOK
<1>10. /\ run' \in [Targets -> {"none", "running", "cancelled", "removed"}]
       /\ kind' \in {"none", "port", "http"} /\ call' \in Calls
  BY <1>1 DEF CheckersTypeOK
<1> QED BY <1>4, <1>5, <1>6, <1>7, <1>8, <1>9, <1>10 DEF CheckersTypeOK

LEMMA LoopKeepsInv ==
  ASSUME CheckersInv, NEW l \in Loops, LoopStep(l)
  PROVE  CheckersInv'
<1>1. CheckersTypeOK
  BY DEF CheckersInv
<1>2. /\ UNCHANGED <<stopped, run, ip, kind, call>>
      /\ \A m \in Loops \ {l} :
           /\ loop'[m] = loop[m] /\ outcome'[m] = outcome[m] /\ status'[m] = status[m]
           /\ aborted'[m] = aborted[m] /\ told'[m] = told[m]
      /\ \A m \in PortLoops \ {l} : watch'[m] = watch[m]
  BY <1>1, LoopKeepsOthers
<1>3. PortLoops \subseteq Loops /\ Http \notin PortLoops /\ (HasWatcher(l) => l \in PortLoops)
      /\ (l = Http <=> l \notin PortLoops)
  BY DEF Loops, PortLoops, HasWatcher
<1>4. \A m \in Loops : Cancelled(m)' <=> Cancelled(m)
  BY <1>2 DEF Cancelled
<1>5. CheckersTypeOK'
  BY <1>1, LoopTypes
<1>6. loop[l] \notin {"off", "gone"} \/ loop' = loop
  BY <1>1, LoopFacts
<1>7. Joins'
  <2>1. \A m \in PortLoops : run[m[1]] = "none" => loop'[m] = "off"
    BY <1>2, <1>3, <1>6 DEF CheckersInv, Joins
  <2>2. \A m \in PortLoops : run[m[1]] = "removed" => loop'[m] \in {"off", "gone"}
    BY <1>2, <1>3, <1>6 DEF CheckersInv, Joins
  <2>3. call = "ended" => Quiet(Loops)'
    BY <1>2, <1>6 DEF CheckersInv, Joins, Quiet
  <2> QED BY <1>2, <2>1, <2>2, <2>3 DEF CheckersInv, Joins
<1>8. Interruptions'
  <2>1. \A m \in PortLoops : watch'[m] = "fired" => Cancelled(m)
    <3>1. l \in PortLoops /\ watch'[l] = "fired" => watch[l] = "fired" \/ Cancelled(l)
      BY <1>1, LoopFacts
    <3> QED BY <1>2, <3>1 DEF CheckersInv, Interruptions
  <2>2. outcome[l].shut => Cancelled(l) /\ outcome[l].res = "failure" /\ loop[l] # "storing"
    BY DEF CheckersInv, Interruptions
  <2>3. HasWatcher(l) /\ watch[l] = "fired" => Cancelled(l)
    BY <1>3 DEF CheckersInv, Interruptions
  <2>4. outcome'[l].shut => Cancelled(l) /\ outcome'[l].res = "failure" /\ loop'[l] # "storing"
    BY <1>1, <2>2, <2>3, LoopFacts DEF Discards, None
  <2>5. \A m \in Loops : outcome'[m].shut => /\ Cancelled(m) /\ outcome'[m].res = "failure"
                                             /\ loop'[m] # "storing"
    BY <1>2, <2>4 DEF CheckersInv, Interruptions
  <2> QED BY <1>4, <1>3, <2>1, <2>5 DEF Interruptions
<1>9. ShutdownIsNoFailure'
  <2>1. loop[l] = "storing" => ~outcome[l].shut
    BY DEF CheckersInv, Interruptions
  <2>2. ~aborted'[l]
    BY <1>1, <2>1, LoopFacts DEF CheckersInv, ShutdownIsNoFailure
  <2> QED BY <1>2, <2>2 DEF CheckersInv, ShutdownIsNoFailure
<1>10. ChangesAreTold'
  <2>1. l \in PortLoops /\ loop[l] # "telling" => told[l] = status[l]
    BY DEF CheckersInv, ChangesAreTold
  <2>2. l \in PortLoops /\ loop'[l] # "telling" => told'[l] = status'[l]
    BY <1>1, <1>3, <2>1, LoopFacts DEF NextPlace
  <2> QED BY <1>2, <1>3, <2>2 DEF CheckersInv, ChangesAreTold
<1> QED BY <1>5, <1>7, <1>8, <1>9, <1>10 DEF CheckersInv

(***************************************************************************)
(* The supervisor's operations on the checkers.                            *)
(***************************************************************************)

\* Cancellations are not taken back, so what is true of the cancelled loops stays.
LEMMA CancellationsLast ==
  ASSUME CheckersInv, NEW l \in Loops, Cancelled(l), Supervise \/ \E t \in Targets : Resolved(t)
  PROVE  Cancelled(l)'
<1>1. run \in [Targets -> {"none", "running", "cancelled", "removed"}]
      /\ (l # Http => l[1] \in Targets)
  BY DEF CheckersInv, CheckersTypeOK, Loops, PortLoops
<1>2. CASE \E k : \E ts : Start(k, ts)
  <2>1. call = "none" /\ stopped' = stopped
    BY <1>2 DEF Start
  <2>2. \A t \in Targets : run[t] = "none"
    BY <2>1 DEF CheckersInv, Joins
  <2> QED BY <1>1, <2>1, <2>2 DEF Cancelled
<1>3. CASE Stop \/ Wait \/ \E t \in Targets : Resolved(t)
  BY <1>3 DEF Stop, Wait, Resolved, Cancelled
<1>4. ASSUME NEW t \in Targets, AddTarget(t) \/ RemoveTarget(t) \/ Removed(t)
      PROVE  Cancelled(l)'
  BY <1>1, <1>4 DEF AddTarget, RemoveTarget, Removed, Cancelled
<1> QED BY <1>2, <1>3, <1>4 DEF Supervise

LEMMA SuperviseTypes ==
  ASSUME CheckersTypeOK, Supervise \/ \E t \in Targets : Resolved(t)
  PROVE  CheckersTypeOK'
<1>1. /\ run \in [Targets -> {"none", "running", "cancelled", "removed"}]
      /\ loop \in [Loops -> Places] /\ kind \in {"none", "port", "http"} /\ call \in Calls
  BY DEF CheckersTypeOK
<1>2. stopped \in BOOLEAN /\ ip \in [Targets -> BOOLEAN]
  BY DEF CheckersTypeOK
<1>3. UNCHANGED <<outcome, watch, status, aborted, told>>
  BY DEF Supervise, Start, AddTarget, RemoveTarget, Removed, Stop, Wait, Resolved
<1>4. stopped' \in BOOLEAN
  BY <1>2 DEF Supervise, Start, AddTarget, RemoveTarget, Removed, Stop, Wait, Resolved
<1>5. ip' \in [Targets -> BOOLEAN]
  BY <1>2 DEF Supervise, Start, AddTarget, RemoveTarget, Removed, Stop, Wait, Resolved
<1>6. run' \in [Targets -> {"none", "running", "cancelled", "removed"}]
  BY <1>1 DEF Supervise, Start, AddTarget, RemoveTarget, Removed, Stop, Wait, Resolved
<1>7. loop' \in [Loops -> Places]
  BY <1>1 DEF Supervise, Start, AddTarget, RemoveTarget, Removed, Stop, Wait, Resolved,
     Launched, Places
<1>8. kind' \in {"none", "port", "http"} /\ call' \in Calls
  BY <1>1 DEF Supervise, Start, AddTarget, RemoveTarget, Removed, Stop, Wait, Resolved, Calls
<1>9. /\ outcome' \in [Loops -> [res : Results \cup {Checking}, shut : BOOLEAN]]
      /\ watch' \in [PortLoops -> {"none", "armed", "fired"}]
      /\ status' \in [Loops -> Results \cup {Checking}]
      /\ told' \in [Loops -> Results \cup {Checking}]
  BY <1>3 DEF CheckersTypeOK
<1>10. aborted' \in [Loops -> BOOLEAN]
  BY <1>3 DEF CheckersTypeOK
<1> QED BY <1>4, <1>5, <1>6, <1>7, <1>8, <1>9, <1>10 DEF CheckersTypeOK

\* The loops it starts are those of targets that had none.
LEMMA SuperviseLoops ==
  ASSUME CheckersInv, Supervise \/ \E t \in Targets : Resolved(t)
  PROVE  /\ \A l \in Loops : loop'[l] # loop[l] => /\ loop'[l] \in {"resolving", "checking"}
                                                   /\ call' = "started"
         /\ \A l \in PortLoops : loop'[l] # loop[l] => run[l[1]] = "none" /\ run'[l[1]] = "running"
<1>1. run \in [Targets -> {"none", "running", "cancelled", "removed"}]
      /\ loop \in [Loops -> Places] /\ Http \notin PortLoops /\ PortLoops \subseteq Loops
      /\ \A l \in PortLoops : l[1] \in Targets
  BY DEF CheckersInv, CheckersTypeOK, Loops, PortLoops
<1>2. ASSUME NEW k, NEW ts, Start(k, ts) PROVE
         /\ \A l \in Loops : loop'[l] # loop[l] => /\ loop'[l] \in {"resolving", "checking"}
                                                   /\ call' = "started"
         /\ \A l \in PortLoops : loop'[l] # loop[l] => run[l[1]] = "none" /\ run'[l[1]] = "running"
  <2>1. call = "none" /\ call' = "started"
    BY <1>2 DEF Start
  <2>2. \A t \in Targets : run[t] = "none"
    BY <2>1 DEF CheckersInv, Joins
  <2>3. run' = [t \in Targets |-> IF t \in ts THEN "running" ELSE "none"]
    BY <1>2 DEF Start
  <2>4. loop' = Launched(ts) \/ loop' = [loop EXCEPT ![Http] = "checking"]
    BY <1>2 DEF Start
  <2> QED BY <1>1, <2>1, <2>2, <2>3, <2>4 DEF Launched
<1>3. ASSUME NEW t \in Targets, AddTarget(t) PROVE
         /\ \A l \in Loops : loop'[l] # loop[l] => /\ loop'[l] \in {"resolving", "checking"}
                                                   /\ call' = "started"
         /\ \A l \in PortLoops : loop'[l] # loop[l] => run[l[1]] = "none" /\ run'[l[1]] = "running"
  BY <1>1, <1>3 DEF AddTarget, Launched
<1>4. CASE UNCHANGED loop
  BY <1>4
<1>5. ASSUME NEW t \in Targets, RemoveTarget(t) \/ Removed(t) \/ Resolved(t)
      PROVE  UNCHANGED loop
  BY <1>5 DEF RemoveTarget, Removed, Resolved
<1> QED BY <1>2, <1>3, <1>4, <1>5 DEF Supervise, Stop, Wait

LEMMA SuperviseKeepsInv ==
  ASSUME CheckersInv, Supervise \/ \E t \in Targets : Resolved(t)
  PROVE  CheckersInv'
<1>1. UNCHANGED <<outcome, watch, status, aborted, told>>
  BY DEF Supervise, Start, AddTarget, RemoveTarget, Removed, Stop, Wait, Resolved
<1>2. /\ run \in [Targets -> {"none", "running", "cancelled", "removed"}]
      /\ PortLoops \subseteq Loops /\ \A l \in PortLoops : l[1] \in Targets
      /\ \A l \in PortLoops : l \in LoopsOf(l[1])
  BY DEF CheckersInv, CheckersTypeOK, Loops, PortLoops, LoopsOf
<1>3. CheckersTypeOK'
  BY SuperviseTypes DEF CheckersInv
<1>4. Joins'
  <2>1. call' = "none" => call = "none" /\ run' = run
    BY DEF Supervise, Start, AddTarget, RemoveTarget, Removed, Stop, Wait, Resolved
  <2>2. \A t \in Targets : run'[t] = "none" => run[t] = "none"
    <3>1. ASSUME NEW k, NEW ts, Start(k, ts) PROVE \A t \in Targets : run[t] = "none"
      BY <3>1 DEF Start, CheckersInv, Joins
    <3>2. CASE run' = run
      BY <3>2
    <3>3. ASSUME NEW s \in Targets, AddTarget(s) \/ RemoveTarget(s) \/ Removed(s)
          PROVE  \A t \in Targets : run'[t] = "none" => run[t] = "none"
      BY <1>2, <3>3 DEF AddTarget, RemoveTarget, Removed
    <3> QED BY <3>1, <3>2, <3>3 DEF Supervise, Stop, Wait, Resolved
  <2>3. \A l \in PortLoops : run'[l[1]] = "none" => loop'[l] = "off"
    BY <1>2, <2>2, SuperviseLoops DEF CheckersInv, Joins
  <2>4. \A l \in PortLoops : run'[l[1]] = "removed" => loop'[l] \in {"off", "gone"}
    <3>1. \A l \in PortLoops : run[l[1]] = "removed" => loop[l] \in {"off", "gone"}
      BY DEF CheckersInv, Joins
    <3>2. ASSUME NEW t \in Targets, run'[t] = "removed"
          PROVE  run[t] = "removed" \/ Quiet(LoopsOf(t))
      <4>1. ASSUME NEW k, NEW ts, Start(k, ts) PROVE FALSE
        BY <3>2, <4>1 DEF Start
      <4>2. CASE run' = run
        BY <3>2, <4>2
      <4>3. ASSUME NEW s \in Targets, AddTarget(s) \/ RemoveTarget(s) \/ Removed(s)
            PROVE  run[t] = "removed" \/ Quiet(LoopsOf(t))
        BY <1>2, <3>2, <4>3 DEF AddTarget, RemoveTarget, Removed, Joined
      <4> QED BY <4>1, <4>2, <4>3 DEF Supervise, Stop, Wait, Resolved
    <3>3. ASSUME NEW l \in PortLoops, run'[l[1]] = "removed"
          PROVE  loop'[l] \in {"off", "gone"}
      <4>1. loop[l] \in {"off", "gone"}
        BY <1>2, <3>1, <3>2, <3>3 DEF Quiet
      <4>2. loop'[l] = loop[l]
        BY <3>3, SuperviseLoops
      <4> QED BY <4>1, <4>2
    <3> QED BY <3>3
  <2>5. call' = "ended" => Quiet(Loops)'
    <3> SUFFICES ASSUME call' = "ended" PROVE Quiet(Loops)'
      OBVIOUS
    <3>1. Quiet(Loops)
      BY DEF Supervise, Start, AddTarget, RemoveTarget, Removed, Stop, Wait, Resolved,
         CheckersInv, Joins
    <3>2. \A l \in Loops : loop'[l] = loop[l]
      BY SuperviseLoops
    <3> QED BY <3>1, <3>2 DEF Quiet
  <2> QED BY <2>1, <2>3, <2>4, <2>5 DEF CheckersInv, Joins
<1>5. Interruptions'
  <2>1. \A l \in Loops : loop'[l] = "storing" => loop[l] = "storing"
    BY SuperviseLoops
  <2>2. \A l \in Loops : Cancelled(l) => Cancelled(l)'
    BY CancellationsLast
  <2> QED BY <1>1, <1>2, <2>1, <2>2 DEF CheckersInv, Interruptions
<1>6. ShutdownIsNoFailure'
  BY <1>1 DEF CheckersInv, ShutdownIsNoFailure
<1>7. ChangesAreTold'
  <2>1. \A l \in PortLoops : loop'[l] # "telling" => loop[l] # "telling"
    <3>1. \A l \in PortLoops : run[l[1]] = "none" => loop[l] = "off"
      BY DEF CheckersInv, Joins
    <3> QED BY <3>1, SuperviseLoops
  <2> QED BY <1>1, <2>1 DEF CheckersInv, ChangesAreTold
<1> QED BY <1>3, <1>4, <1>5, <1>6, <1>7 DEF CheckersInv

(***************************************************************************)
(* The annotator.                                                          *)
(***************************************************************************)

RoundStep == \E i \in TTLs : (\E a \in IPs : Reply(i, a)) \/ RecordReply(i) \/ Note(i) \/ ClearHop(i)
LookupsStep == \E c \in IPs : Acquire(c) \/ LookupStep(c)
EndStep == Cancel \/ PingerStops \/ Close \/ Closed

LEMMA RoundTypes ==
  ASSUME AnnotatorInv, RoundStep
  PROVE  /\ AnnotatorTypeOK'
         /\ closing = "open" \/ UNCHANGED <<hop, round, lookup, inflight>>
<1>1. PICK i \in TTLs : (\E a \in IPs : Reply(i, a)) \/ RecordReply(i) \/ Note(i) \/ ClearHop(i)
  BY DEF RoundStep
<1>2. /\ hop \in [TTLs -> [ip : IPs \cup {No}, asn : IPs \cup {No}]]
      /\ round \in [TTLs -> [at : {"idle", "recording", "noting"}, ip : IPs \cup {No},
                             asn : IPs \cup {No}]]
      /\ inflight \subseteq IPs /\ held \subseteq inflight /\ lookup \in [IPs -> LookupPlaces]
  BY DEF AnnotatorInv, AnnotatorTypeOK
<1>3. /\ round[i].asn \in {No, round[i].ip} /\ round[i].ip \in IPs \cup {No}
      /\ round[i].at # "idle" => round[i].ip \in IPs /\ closing = "open"
  BY <1>2 DEF AnnotatorInv, Rounds
<1>4. UNCHANGED <<known, held, got, asnCache, cancelled, pstopped, closing>>
  BY <1>1 DEF Reply, RecordReply, Note, ClearHop, ends
<1>5. hop' \in [TTLs -> [ip : IPs \cup {No}, asn : IPs \cup {No}]]
  <2>1. CASE hop' = hop
    BY <1>2, <2>1
  <2>2. CASE hop' = [hop EXCEPT ![i] = EmptyHop]
    BY <1>2, <2>2 DEF EmptyHop
  <2>3. CASE hop' = [hop EXCEPT ![i] = Annotated(@, round[i].ip, round[i].asn)]
    <3>1. Annotated(hop[i], round[i].ip, round[i].asn) \in [ip : IPs \cup {No}, asn : IPs \cup {No}]
      BY <1>2, <1>3 DEF Annotated
    <3> QED BY <1>2, <2>3, <3>1
  <2> QED BY <1>1, <2>1, <2>2, <2>3 DEF Reply, RecordReply, Note, ClearHop
<1>6. round' \in [TTLs -> [at : {"idle", "recording", "noting"}, ip : IPs \cup {No},
                           asn : IPs \cup {No}]]
  <2>1. ASSUME NEW a \in IPs, Reply(i, a)
        PROVE  round' \in [TTLs -> [at : {"idle", "recording", "noting"}, ip : IPs \cup {No},
                                    asn : IPs \cup {No}]]
    BY <1>2, <2>1 DEF Reply, Cached
  <2>2. CASE RecordReply(i)
    BY <1>2, <2>2 DEF RecordReply
  <2>3. CASE Note(i)
    BY <1>2, <2>3 DEF Note, Resting
  <2>4. CASE ClearHop(i)
    BY <1>2, <2>4 DEF ClearHop
  <2> QED BY <1>1, <2>1, <2>2, <2>3, <2>4
<1>7. inflight' \subseteq IPs /\ inflight \subseteq inflight' /\ lookup' \in [IPs -> LookupPlaces]
  <2>1. UNCHANGED <<inflight, lookup>>
        \/ (/\ round[i].at = "noting" /\ inflight' = inflight \cup {round[i].ip}
            /\ lookup' = [lookup EXCEPT ![round[i].ip] = "waiting"])
    BY <1>1 DEF Reply, RecordReply, Note, ClearHop
  <2> QED BY <1>2, <1>3, <2>1 DEF LookupPlaces
<1>8. closing = "open" \/ UNCHANGED <<hop, round, lookup, inflight>>
  BY <1>1, <1>3 DEF Reply, RecordReply, Note, ClearHop
<1>9. cancelled' \in BOOLEAN /\ pstopped' \in {"no", "done", "cancelled"}
  BY <1>4 DEF AnnotatorInv, AnnotatorTypeOK
<1>10. /\ known' \in [IPs -> [asn : BOOLEAN, ptr : BOOLEAN]]
       /\ got' \in [IPs -> [asn : BOOLEAN, ptr : BOOLEAN]]
       /\ Cardinality(held') <= MaxLookups /\ asnCache' \in [IPs -> {"none", "whole", "cut"}]
       /\ closing' \in {"open", "waiting", "closed"}
  BY <1>4 DEF AnnotatorInv, AnnotatorTypeOK
<1>11. held' \subseteq inflight'
  BY <1>2, <1>4, <1>7
<1> QED BY <1>5, <1>6, <1>7, <1>8, <1>9, <1>10, <1>11 DEF AnnotatorTypeOK

LEMMA RoundKeepsInv ==
  ASSUME AnnotatorInv, RoundStep
  PROVE  AnnotatorInv'
<1>1. PICK i \in TTLs : (\E a \in IPs : Reply(i, a)) \/ RecordReply(i) \/ Note(i) \/ ClearHop(i)
  BY DEF RoundStep
<1>2. /\ hop \in [TTLs -> [ip : IPs \cup {No}, asn : IPs \cup {No}]]
      /\ round \in [TTLs -> [at : {"idle", "recording", "noting"}, ip : IPs \cup {No},
                             asn : IPs \cup {No}]]
      /\ lookup \in [IPs -> LookupPlaces]
  BY DEF AnnotatorInv, AnnotatorTypeOK
<1>3. /\ round[i].asn \in {No, round[i].ip} /\ hop[i].asn \in {No, hop[i].ip}
      /\ round[i].at # "idle" => round[i].ip \in IPs /\ closing = "open"
  BY DEF AnnotatorInv, Rounds, OnlyOwnAnnotations
<1>4. UNCHANGED <<known, held, got, asnCache, cancelled, pstopped, closing>>
  BY <1>1 DEF Reply, RecordReply, Note, ClearHop, ends
<1>5. AnnotatorTypeOK'
  BY RoundTypes
<1>6. Rounds'
  <2>1. \/ \E a \in IPs : Reply(i, a)
        \/ round' = [round EXCEPT ![i].at = "noting"] /\ round[i].at = "recording"
        \/ round' = [round EXCEPT ![i] = Resting]
        \/ round' = round
    BY <1>1 DEF RecordReply, Note, ClearHop
  <2>2. \A j \in TTLs \ {i} : round'[j] = round[j]
    BY <1>2, <2>1 DEF Reply
  <2>3. /\ round'[i].asn \in {No, round'[i].ip}
        /\ round'[i].at # "idle" => round'[i].ip \in IPs /\ closing = "open"
    <3>1. ASSUME NEW a \in IPs, Reply(i, a)
          PROVE  /\ round'[i].asn \in {No, round'[i].ip}
                 /\ round'[i].at # "idle" => round'[i].ip \in IPs /\ closing = "open"
      <4>1. round'[i] = [at |-> "recording", ip |-> a, asn |-> Cached(a)] /\ closing = "open"
        BY <1>2, <3>1 DEF Reply
      <4> QED BY <4>1 DEF Cached
    <3>2. CASE round' = [round EXCEPT ![i].at = "noting"] /\ round[i].at = "recording"
      BY <1>2, <1>3, <3>2
    <3>3. CASE round' = [round EXCEPT ![i] = Resting]
      BY <1>2, <3>3 DEF Resting
    <3> QED BY <1>3, <2>1, <3>1, <3>2, <3>3
  <2> QED BY <1>4, <2>2, <2>3 DEF AnnotatorInv, Rounds
<1>7. Lookups'
  <2>1. \/ UNCHANGED <<inflight, lookup>>
        \/ /\ closing = "open" /\ round[i].at = "noting"
           /\ inflight' = inflight \cup {round[i].ip}
           /\ lookup' = [lookup EXCEPT ![round[i].ip] = "waiting"]
    BY <1>1 DEF Reply, RecordReply, Note, ClearHop
  <2>2. \A a \in IPs : lookup'[a] # "none" => a \in inflight'
    BY <1>2, <1>3, <2>1 DEF AnnotatorInv, Lookups
  <2> QED BY <1>4, <2>1, <2>2 DEF AnnotatorInv, Lookups, AllGone
<1>8. OnlyOwnAnnotations'
  <2>1. \/ hop' = hop
        \/ hop' = [hop EXCEPT ![i] = EmptyHop]
        \/ hop' = [hop EXCEPT ![i] = Annotated(@, round[i].ip, round[i].asn)]
    BY <1>1 DEF Reply, RecordReply, Note, ClearHop
  <2>2. \A j \in TTLs \ {i} : hop'[j] = hop[j]
    BY <1>2, <2>1
  <2>3. hop'[i].asn \in {No, hop'[i].ip}
    <3>1. CASE hop' = [hop EXCEPT ![i] = EmptyHop]
      BY <1>2, <3>1 DEF EmptyHop
    <3>2. CASE hop' = [hop EXCEPT ![i] = Annotated(@, round[i].ip, round[i].asn)]
      <4>1. hop'[i] = Annotated(hop[i], round[i].ip, round[i].asn)
        BY <1>2, <3>2
      <4> QED BY <1>3, <4>1 DEF Annotated
    <3> QED BY <1>3, <2>1, <3>1, <3>2
  <2> QED BY <2>2, <2>3 DEF AnnotatorInv, OnlyOwnAnnotations
<1>9. CacheIsWhole'
  BY <1>4 DEF AnnotatorInv, CacheIsWhole
<1> QED BY <1>5, <1>6, <1>7, <1>8, <1>9 DEF AnnotatorInv

LEMMA LookupTypes ==
  ASSUME AnnotatorInv, NEW c \in IPs, Acquire(c) \/ LookupStep(c)
  PROVE  AnnotatorTypeOK' /\ Lookups'
<1>1. /\ hop \in [TTLs -> [ip : IPs \cup {No}, asn : IPs \cup {No}]]
      /\ known \in [IPs -> [asn : BOOLEAN, ptr : BOOLEAN]]
      /\ got \in [IPs -> [asn : BOOLEAN, ptr : BOOLEAN]]
      /\ inflight \subseteq IPs /\ held \subseteq inflight /\ lookup \in [IPs -> LookupPlaces]
      /\ Cardinality(held) <= MaxLookups /\ asnCache \in [IPs -> {"none", "whole", "cut"}]
      /\ closing \in {"open", "waiting", "closed"}
  BY DEF AnnotatorInv, AnnotatorTypeOK
<1>2. /\ IsFiniteSet(held) /\ Cardinality(held) \in Nat
      /\ \A a \in IPs : lookup[a] # "none" => a \in inflight
      /\ closing = "closed" => AllGone
  BY FS_CardinalityType DEF AnnotatorInv, Lookups
<1>3. UNCHANGED <<round, cancelled, pstopped, closing>>
  BY DEF Acquire, LookupStep, WaitCancelled, Origin, Org, PTR, Apply, Leave, ends
<1>4. lookup[c] # "none"
  BY DEF Acquire, LookupStep, WaitCancelled, Origin, Org, PTR, Apply, Leave
<1>5. \E place \in LookupPlaces : lookup' = [lookup EXCEPT ![c] = place]
  BY DEF Acquire, LookupStep, WaitCancelled, Origin, Org, PTR, Apply, Leave, Goes, LookupPlaces
<1>6. lookup' \in [IPs -> LookupPlaces] /\ \A a \in IPs \ {c} : lookup'[a] = lookup[a]
  BY <1>1, <1>5
<1>7. \/ inflight' = inflight
      \/ inflight' = inflight \ {c} /\ held' = held \ {c} /\ lookup'[c] = "none"
  BY <1>1 DEF Acquire, LookupStep, WaitCancelled, Origin, Org, PTR, Apply, Leave, Goes, Released
<1>8. \/ held' = held
      \/ held' = held \cup {c} /\ Cardinality(held) < MaxLookups /\ inflight' = inflight
      \/ held' = held \ {c}
  BY DEF Acquire, LookupStep, WaitCancelled, Origin, Org, PTR, Apply, Leave, Released
<1>9. IsFiniteSet(held') /\ Cardinality(held') <= MaxLookups
  <2>1. CASE held' = held
    BY <1>1, <1>2, <2>1
  <2>2. CASE held' = held \cup {c} /\ Cardinality(held) < MaxLookups
    <3>1. IsFiniteSet(held \cup {c})
          /\ Cardinality(held \cup {c}) = IF c \in held THEN Cardinality(held) ELSE Cardinality(held) + 1
      BY <1>2, FS_AddElement
    <3> QED BY <1>2, <2>2, <3>1
  <2>3. CASE held' = held \ {c}
    <3>1. IsFiniteSet(held \ {c})
          /\ Cardinality(held \ {c}) = IF c \in held THEN Cardinality(held) - 1 ELSE Cardinality(held)
      BY <1>2, FS_RemoveElement
    <3> QED BY <1>1, <1>2, <2>3, <3>1
  <2> QED BY <1>8, <2>1, <2>2, <2>3
<1>10. inflight' \subseteq IPs /\ held' \subseteq inflight'
  BY <1>1, <1>2, <1>4, <1>7, <1>8
<1>11. Lookups'
  <2>1. \A a \in IPs : lookup'[a] # "none" => a \in inflight'
    BY <1>2, <1>4, <1>6, <1>7
  <2>2. closing # "closed"
    BY <1>2, <1>4 DEF AllGone
  <2> QED BY <1>3, <1>9, <2>1, <2>2 DEF Lookups
<1>12. hop' \in [TTLs -> [ip : IPs \cup {No}, asn : IPs \cup {No}]]
  <2>1. \/ hop' = hop
        \/ hop' = [i \in TTLs |-> IF i \in HopsOf(c) /\ Merged(c).asn
                                    THEN Annotated(hop[i], hop[i].ip, c) ELSE hop[i]]
    BY DEF Acquire, LookupStep, WaitCancelled, Origin, Org, PTR, Apply, Leave
  <2>2. \A i \in TTLs : Annotated(hop[i], hop[i].ip, c) \in [ip : IPs \cup {No}, asn : IPs \cup {No}]
    BY <1>1 DEF Annotated
  <2>3. CASE hop' = hop
    BY <1>1, <2>3
  <2>4. CASE hop' = [i \in TTLs |-> IF i \in HopsOf(c) /\ Merged(c).asn
                                     THEN Annotated(hop[i], hop[i].ip, c) ELSE hop[i]]
    <3> DEFINE stats == [ip : IPs \cup {No}, asn : IPs \cup {No}]
    <3>1. hop \in [TTLs -> stats] /\ \A i \in TTLs : Annotated(hop[i], hop[i].ip, c) \in stats
      BY <1>1, <2>2
    <3> HIDE DEF stats
    <3>2. hop' \in [TTLs -> stats]
      BY <2>4, <3>1
    <3> QED BY <3>2 DEF stats
  <2> QED BY <2>1, <2>3, <2>4
<1>13. known' \in [IPs -> [asn : BOOLEAN, ptr : BOOLEAN]]
  <2>1. known' = known \/ known' = [known EXCEPT ![c] = Merged(c)]
    BY DEF Acquire, LookupStep, WaitCancelled, Origin, Org, PTR, Apply, Leave
  <2>2. Merged(c) \in [asn : BOOLEAN, ptr : BOOLEAN]
    BY <1>1 DEF Merged
  <2> QED BY <1>1, <2>1, <2>2
<1>14. got' \in [IPs -> [asn : BOOLEAN, ptr : BOOLEAN]]
  <2>1. got[c] = [asn |-> got[c].asn, ptr |-> got[c].ptr] /\ got[c].asn \in BOOLEAN
        /\ got[c].ptr \in BOOLEAN
    BY <1>1
  <2>2. \/ got' = got
        \/ got' = [got EXCEPT ![c].asn = TRUE]
        \/ got' = [got EXCEPT ![c].asn = CachesASN]
        \/ \E name \in BOOLEAN : got' = [got EXCEPT ![c].ptr = name]
        \/ got' = [got EXCEPT ![c] = Nothing]
    BY DEF Acquire, LookupStep, WaitCancelled, Origin, Org, PTR, Apply, Leave
  <2>3. CachesASN \in BOOLEAN
    BY DEF CachesASN, Noticed
  <2>4. ASSUME NEW b \in BOOLEAN
        PROVE  /\ [got EXCEPT ![c].asn = b] \in [IPs -> [asn : BOOLEAN, ptr : BOOLEAN]]
               /\ [got EXCEPT ![c].ptr = b] \in [IPs -> [asn : BOOLEAN, ptr : BOOLEAN]]
    BY <1>1, <2>1
  <2>5. [got EXCEPT ![c] = Nothing] \in [IPs -> [asn : BOOLEAN, ptr : BOOLEAN]]
    BY <1>1 DEF Nothing
  <2>6. CASE got' = [got EXCEPT ![c].asn = CachesASN]
    <3>1. [got EXCEPT ![c].asn = CachesASN] \in [IPs -> [asn : BOOLEAN, ptr : BOOLEAN]]
      BY <2>3, <2>4
    <3> QED BY <2>6, <3>1
  <2>7. ASSUME NEW name \in BOOLEAN, got' = [got EXCEPT ![c].ptr = name]
        PROVE  got' \in [IPs -> [asn : BOOLEAN, ptr : BOOLEAN]]
    BY <2>4, <2>7
  <2>8. CASE got' = [got EXCEPT ![c].asn = TRUE]
    <3>1. [got EXCEPT ![c].asn = TRUE] \in [IPs -> [asn : BOOLEAN, ptr : BOOLEAN]]
      BY <2>4
    <3> QED BY <2>8, <3>1
  <2> QED BY <1>1, <2>2, <2>5, <2>6, <2>7, <2>8
<1>15. asnCache' \in [IPs -> {"none", "whole", "cut"}]
  BY <1>1 DEF Acquire, LookupStep, WaitCancelled, Origin, Org, PTR, Apply, Leave
<1>16. /\ round' \in [TTLs -> [at : {"idle", "recording", "noting"}, ip : IPs \cup {No},
                               asn : IPs \cup {No}]]
       /\ closing' \in {"open", "waiting", "closed"}
  BY <1>3 DEF AnnotatorInv, AnnotatorTypeOK
<1>17. cancelled' \in BOOLEAN /\ pstopped' \in {"no", "done", "cancelled"}
  BY <1>3 DEF AnnotatorInv, AnnotatorTypeOK
<1> QED BY <1>6, <1>9, <1>10, <1>11, <1>12, <1>13, <1>14, <1>15, <1>16, <1>17
        DEF AnnotatorTypeOK

LEMMA LookupKeepsInv ==
  ASSUME AnnotatorInv, NEW c \in IPs, Acquire(c) \/ LookupStep(c)
  PROVE  AnnotatorInv'
<1>1. AnnotatorTypeOK' /\ Lookups'
  BY LookupTypes
<1>2. UNCHANGED <<round, closing>>
  BY DEF Acquire, LookupStep, WaitCancelled, Origin, Org, PTR, Apply, Leave, ends
<1>3. Rounds'
  BY <1>2 DEF AnnotatorInv, Rounds
<1>4. OnlyOwnAnnotations'
  <2>1. \A i \in TTLs : hop[i].asn \in {No, hop[i].ip}
    BY DEF AnnotatorInv, OnlyOwnAnnotations
  <2>2. \/ hop' = hop
        \/ hop' = [i \in TTLs |-> IF i \in HopsOf(c) /\ Merged(c).asn
                                    THEN Annotated(hop[i], hop[i].ip, c) ELSE hop[i]]
    BY DEF Acquire, LookupStep, WaitCancelled, Origin, Org, PTR, Apply, Leave
  <2>3. ASSUME NEW i \in TTLs PROVE hop'[i].asn \in {No, hop'[i].ip}
    <3>1. CASE hop'[i] = hop[i]
      BY <2>1, <3>1
    <3>2. CASE i \in HopsOf(c) /\ hop'[i] = Annotated(hop[i], hop[i].ip, c)
      BY <3>2 DEF Annotated, HopsOf
    <3> QED BY <2>2, <3>1, <3>2
  <2> QED BY <2>3 DEF OnlyOwnAnnotations
<1>5. CacheIsWhole'
  <2>1. asnCache \in [IPs -> {"none", "whole", "cut"}]
    BY DEF AnnotatorInv, AnnotatorTypeOK
  <2>2. asnCache' = asnCache \/ asnCache' = [asnCache EXCEPT ![c] = "whole"]
    BY DEF Acquire, LookupStep, WaitCancelled, Origin, Org, PTR, Apply, Leave, CachesASN, Noticed, Aborted
  <2> QED BY <2>1, <2>2 DEF AnnotatorInv, CacheIsWhole
<1> QED BY <1>1, <1>3, <1>4, <1>5 DEF AnnotatorInv

LEMMA EndKeepsInv ==
  ASSUME AnnotatorInv, EndStep
  PROVE  AnnotatorInv'
<1>1. UNCHANGED <<hop, known, inflight, held, lookup, got, round, asnCache>>
  BY DEF EndStep, Cancel, PingerStops, Close, Closed
<1>2. AnnotatorTypeOK'
  <2>1. cancelled' \in BOOLEAN
    BY DEF EndStep, Cancel, PingerStops, Close, Closed, AnnotatorInv, AnnotatorTypeOK
  <2>2. pstopped' \in {"no", "done", "cancelled"}
    BY DEF EndStep, Cancel, PingerStops, Close, Closed, AnnotatorInv, AnnotatorTypeOK
  <2>3. closing' \in {"open", "waiting", "closed"}
    BY DEF EndStep, Cancel, PingerStops, Close, Closed, AnnotatorInv, AnnotatorTypeOK
  <2>4. /\ hop' \in [TTLs -> [ip : IPs \cup {No}, asn : IPs \cup {No}]]
        /\ known' \in [IPs -> [asn : BOOLEAN, ptr : BOOLEAN]]
        /\ inflight' \subseteq IPs /\ held' \subseteq inflight' /\ Cardinality(held') <= MaxLookups
        /\ lookup' \in [IPs -> LookupPlaces]
        /\ got' \in [IPs -> [asn : BOOLEAN, ptr : BOOLEAN]]
        /\ round' \in [TTLs -> [at : {"idle", "recording", "noting"}, ip : IPs \cup {No},
                                asn : IPs \cup {No}]]
        /\ asnCache' \in [IPs -> {"none", "whole", "cut"}]
    BY <1>1 DEF AnnotatorInv, AnnotatorTypeOK
  <2> QED BY <2>1, <2>2, <2>3, <2>4 DEF AnnotatorTypeOK
<1>3. Rounds'
  <2>1. closing' = closing \/ \A i \in TTLs : round[i].at = "idle"
    <3>1. CASE Closed
      BY <3>1 DEF Closed, AnnotatorInv, Rounds
    <3>2. CASE Cancel \/ PingerStops \/ Close
      BY <3>2 DEF Cancel, PingerStops, Close
    <3> QED BY <3>1, <3>2 DEF EndStep
  <2> QED BY <1>1, <2>1 DEF AnnotatorInv, Rounds
<1>4. Lookups'
  BY <1>1 DEF AnnotatorInv, Lookups, EndStep, Cancel, PingerStops, Close, Closed, AllGone
<1>5. OnlyOwnAnnotations' /\ CacheIsWhole'
  BY <1>1 DEF AnnotatorInv, OnlyOwnAnnotations, CacheIsWhole
<1> QED BY <1>2, <1>3, <1>4, <1>5 DEF AnnotatorInv

(***************************************************************************)
(* Theorems.                                                               *)
(***************************************************************************)

LEMMA CheckersUnchanged ==
  ASSUME CheckersInv, UNCHANGED cvars
  PROVE  CheckersInv'
BY DEF CheckersInv, cvars, CheckersTypeOK, Joins, Quiet, Interruptions, Cancelled,
   ShutdownIsNoFailure, ChangesAreTold

LEMMA AnnotatorUnchanged ==
  ASSUME AnnotatorInv, UNCHANGED avars
  PROVE  AnnotatorInv'
BY DEF AnnotatorInv, avars, AnnotatorTypeOK, Rounds, Lookups, AllGone, OnlyOwnAnnotations,
   CacheIsWhole

LEMMA Inductive == IInv /\ [Next]_vars => IInv'
<1> SUFFICES ASSUME IInv, [Next]_vars PROVE IInv'
  OBVIOUS
<1> USE DEF IInv
<1>1. CASE InCheckers(CheckersStep)
  <2>1. CheckersStep /\ UNCHANGED avars
    BY <1>1 DEF InCheckers
  <2>2. CheckersInv'
    BY <2>1, LoopKeepsInv, SuperviseKeepsInv DEF CheckersStep
  <2> QED BY <2>1, <2>2, AnnotatorUnchanged
<1>2. CASE InAnnotator(AnnotatorStep)
  <2>1. AnnotatorStep /\ UNCHANGED cvars
    BY <1>2 DEF InAnnotator
  <2>2. AnnotatorInv'
    BY <2>1, RoundKeepsInv, LookupKeepsInv, EndKeepsInv DEF AnnotatorStep, RoundStep, EndStep
  <2> QED BY <2>1, <2>2, CheckersUnchanged
<1>3. CASE UNCHANGED vars
  <2>1. UNCHANGED cvars /\ UNCHANGED avars
    BY <1>3 DEF vars
  <2> QED BY <2>1, CheckersUnchanged, AnnotatorUnchanged
<1> QED BY <1>1, <1>2, <1>3 DEF Next

LEMMA Invariant == Spec => []IInv
BY InitIInv, Inductive, PTL DEF Spec

\* What the two services record was really measured or found: no attempt that a
\* deletion or the end of the session interrupted counts as a failure, every
\* change of a port's status is told, no hop carries the label of another
\* router, and no record is cached that was cut short, whatever loops, lookups,
\* rounds, deletions and the end interleave.
THEOREM RealRecords == Spec => []RecordsAreReal
<1>1. IInv => RecordsAreReal
  BY DEF IInv, CheckersInv, AnnotatorInv, RecordsAreReal, TypeOK
<1> QED BY <1>1, Invariant, PTL

\* A removed target, an ended session and a closed annotator rest, and a lookup
\* takes back nothing that an earlier one found: RemoveTarget and Wait return
\* after the loops, and close after the lookups.
THEOREM QuietEnds == Spec => EndedIsQuiet
<1>1. ASSUME IInv, [Next]_vars PROVE [RemovedRests /\ ClosedRests /\ FoundStays]_vars
  <2>1. CASE InCheckers(CheckersStep)
    <3>1. CheckersStep /\ UNCHANGED avars /\ CheckersInv
      BY <1>1, <2>1 DEF InCheckers, IInv
    <3>2. \A t \in Targets : LoopsOf(t) \subseteq PortLoops /\ \A l \in LoopsOf(t) : l[1] = t
      BY DEF LoopsOf, PortLoops
    <3>3. ASSUME NEW l \in PortLoops, run[l[1]] = "removed" \/ call = "ended"
          PROVE  loop'[l] = loop[l] /\ status'[l] = status[l] /\ told'[l] = told[l]
      <4>1. loop[l] \in {"off", "gone"} /\ l \in Loops
        BY <3>1, <3>3 DEF CheckersInv, Joins, Quiet, Loops
      <4>2. ASSUME NEW m \in Loops, LoopStep(m)
            PROVE  loop'[l] = loop[l] /\ status'[l] = status[l] /\ told'[l] = told[l]
        <5>1. CheckersTypeOK
          BY <3>1 DEF CheckersInv
        <5>2. CASE m = l
          BY <4>1, <4>2, <5>1, <5>2, LoopFacts
        <5>3. CASE m # l
          BY <4>1, <4>2, <5>1, <5>3, LoopKeepsOthers
        <5> QED BY <5>2, <5>3
      <4>3. CASE Supervise \/ \E t \in Targets : Resolved(t)
        <5>1. status' = status /\ told' = told
          BY <4>3 DEF Supervise, Start, AddTarget, RemoveTarget, Removed, Stop, Wait, Resolved
        <5>2. call = "ended" => loop' = loop
          BY <4>3 DEF Supervise, Start, AddTarget, RemoveTarget, Removed, Stop, Wait, Resolved
        <5>3. run[l[1]] = "removed" => loop'[l] = loop[l]
          BY <3>1, <4>3, SuperviseLoops
        <5> QED BY <3>3, <5>1, <5>2, <5>3
      <4> QED BY <3>1, <4>2, <4>3 DEF CheckersStep
    <3>4. RemovedRests
      BY <3>2, <3>3 DEF RemovedRests
    <3> QED BY <3>1, <3>4 DEF ClosedRests, FoundStays, avars
  <2>2. CASE InAnnotator(AnnotatorStep)
    <3>1. AnnotatorStep /\ UNCHANGED cvars /\ AnnotatorInv
      BY <1>1, <2>2 DEF InAnnotator, IInv
    <3>2. RemovedRests
      BY <3>1 DEF RemovedRests, cvars
    <3>3. known \in [IPs -> [asn : BOOLEAN, ptr : BOOLEAN]]
      BY <3>1 DEF AnnotatorInv, AnnotatorTypeOK
    <3>4. CASE RoundStep
      <4>1. known' = known
        BY <3>4 DEF RoundStep, Reply, RecordReply, Note, ClearHop
      <4>2. closing = "open" \/ UNCHANGED <<hop, lookup>>
        BY <3>1, <3>4, RoundTypes
      <4> QED BY <3>2, <4>1, <4>2 DEF ClosedRests, FoundStays
    <3>5. ASSUME NEW c \in IPs, Acquire(c) \/ LookupStep(c)
          PROVE  ClosedRests /\ FoundStays
      <4>1. lookup[c] # "none"
        BY <3>5 DEF Acquire, LookupStep, WaitCancelled, Origin, Org, PTR, Apply, Leave
      <4>2. closing # "closed"
        BY <3>1, <4>1 DEF AnnotatorInv, Lookups, AllGone
      <4>3. known' = known \/ known' = [known EXCEPT ![c] = Merged(c)]
        BY <3>5 DEF Acquire, LookupStep, WaitCancelled, Origin, Org, PTR, Apply, Leave
      <4>4. FoundStays
        BY <3>3, <4>3 DEF FoundStays, Merged
      <4> QED BY <4>2, <4>4 DEF ClosedRests
    <3>6. CASE EndStep
      BY <3>2, <3>6 DEF EndStep, Cancel, PingerStops, Close, Closed, ClosedRests, FoundStays
    <3> QED BY <3>1, <3>2, <3>4, <3>5, <3>6 DEF AnnotatorStep, RoundStep, EndStep
  <2>3. CASE UNCHANGED vars
    BY <2>3
  <2> QED BY <1>1, <2>1, <2>2, <2>3 DEF Next
<1> QED BY <1>1, Invariant, PTL DEF Spec, EndedIsQuiet

=============================================================================
