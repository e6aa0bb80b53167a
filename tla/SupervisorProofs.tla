-------------------------- MODULE SupervisorProofs --------------------------
(***************************************************************************)
(* Theorems of Supervisor, for every set of targets and clients, every     *)
(* number of echo IDs and every setting.                                   *)
(***************************************************************************)
EXTENDS Supervisor, FiniteSetTheorems, TLAPS

(***************************************************************************)
(* Types. A pinger number is a type only because every pinger uses up an   *)
(* echo ID for each of its targets, and because no edit empties the list.  *)
(***************************************************************************)
NeverEmpty ==
  /\ targets # {}
  /\ loop \in {"edit", "join"} => next # {}

Typed == TypeOK /\ p <= echo /\ NeverEmpty

USE TargetsAssumption, ActorsAssumption, BoundsAssumption, SettingsAssumption

\* A set of targets has a number of elements.
LEMMA TargetsCount ==
  ASSUME NEW S \in SUBSET Targets
  PROVE  IsFiniteSet(S) /\ Cardinality(S) \in Nat
BY FS_Subset, FS_CardinalityType

\* A list that is not empty takes at least one echo ID.
LEMMA TargetsNeedIDs ==
  ASSUME NEW S \in SUBSET Targets, S # {}
  PROVE  Cardinality(S) \in Nat \ {0}
BY TargetsCount, FS_EmptySet

\* The last host cannot be deleted.
LEMMA OneIsLeft ==
  ASSUME NEW S \in SUBSET Targets, NEW t \in S, Cardinality(S) > 1
  PROVE  S \ {t} # {}
<1>1. SUFFICES ASSUME S \ {t} = {} PROVE FALSE
  OBVIOUS
<1>2. S = {t}
  BY <1>1
<1>3. QED
  BY <1>2, FS_Singleton

LEMMA InitTyped == Init => Typed
<1> SUFFICES ASSUME Init PROVE Typed
  OBVIOUS
<1> USE DEF Init
<1>1. PlumbingOK
  <2>1. cmds \in Seq(Commands)
    OBVIOUS
  <2>2. call \in [Callers -> {"idle", "refused"} \union Pending]
    BY DEF Pending, Kinds
  <2>3. QED
    <3>1. done \in BOOLEAN OBVIOUS
    <3>2. reply \in [Callers -> {"none", "ok", "err"}] OBVIOUS
    <3>3. issued \in 0..MaxCommands OBVIOUS
    <3>4. stage \in {"starting", "ui", "finish", "shutdown", "joining", "done"} OBVIOUS
    <3>5. QED BY <2>1, <2>2,<3>1,<3>2,<3>3,<3>4 DEF PlumbingOK
<1>2. NoCommand \in Commands
  BY DEF NoCommand, Commands, Kinds, Callers
<1>3. LoopOK
  <2>1. mstate \in [Targets -> MeasurementStates]
    BY DEF MeasurementStates
  <2>2. snap \in [targets : SUBSET Targets, measurement : MeasurementStates]
    BY DEF MeasurementStates
  <2>3. p \in 0..IDLimit /\ routeEngine \in 0..IDLimit
    OBVIOUS
  <2>4. QED
    BY <1>2, <2>1, <2>2, <2>3 DEF LoopOK, SupervisorStates
<1>4. PingersOK
  BY DEF PingersOK, PhaseNames, WorkerStates
<1>5. QED
  BY <1>1, <1>3, <1>4 DEF Typed, TypeOK, NeverEmpty

LEMMA TakeTyped ==
  ASSUME Typed, NEW k \in Kinds, Received(k), Take
  PROVE  PlumbingOK' /\ current' \in Commands
<1>1. cmds # <<>> /\ cmds \in Seq(Commands)
  BY DEF Received, Typed, TypeOK, PlumbingOK
<1>2. Head(cmds) \in Commands /\ Tail(cmds) \in Seq(Commands)
  BY <1>1
<1>3. QED
  BY <1>2 DEF Take, Typed, TypeOK, PlumbingOK

Edits == HandleAddHost \/ HandleDeleteTarget \/ HandleReload

LEMMA EditCases ==
  ASSUME Typed, Edits
  PROVE  /\ PlumbingOK' /\ current' \in Commands
         /\ loop = "select"
         /\ UNCHANGED <<state, p, targets, mstate, monitors, finished, snap>>
         /\ \/ EditRefused
            \/ /\ state # "terminated"
               /\ \E list \in SUBSET Targets : list # {} /\ EditTo(list)
<1> USE DEF Typed, TypeOK, LoopOK, NeverEmpty
<1> DEFINE Lists == {list \in SUBSET Targets : list # {}}
<1>1. ASSUME NEW kind \in Kinds, NEW lists \in SUBSET Lists, HandleEdit(kind, lists)
      PROVE  /\ PlumbingOK' /\ current' \in Commands
             /\ loop = "select"
             /\ UNCHANGED <<state, p, targets, mstate, monitors, finished, snap>>
             /\ \/ EditRefused
                \/ /\ state # "terminated"
                   /\ \E list \in SUBSET Targets : list # {} /\ EditTo(list)
  <2>1. Received(kind) /\ Take
    BY <1>1 DEF HandleEdit
  <2>2. PlumbingOK' /\ current' \in Commands
    BY <2>1, TakeTyped
  <2>3. QED
    BY <1>1, <2>1, <2>2 DEF HandleEdit, Received
<1>2. CASE HandleAddHost
  <2>1. {targets \union S : S \in Fresh(MaxExpand) \ {{}}} \in SUBSET Lists
    BY DEF Fresh
  <2>2. QED
    BY <1>1, <1>2, <2>1 DEF HandleAddHost, Kinds, ClientKinds
<1>3. CASE HandleDeleteTarget
  <2> DEFINE shorter == {targets \ {t} : t \in IF Cardinality(targets) > 1
                                                THEN targets ELSE {}}
  <2>1. shorter \in SUBSET Lists
    BY OneIsLeft
  <2>2. HandleEdit("deleteTarget", shorter)
    BY <1>3 DEF HandleDeleteTarget
  <2>3. QED
    BY <1>1, <2>1, <2>2 DEF Kinds, ClientKinds
<1>4. CASE HandleReload
  <2> DEFINE reloaded == {kept \union S : kept \in SUBSET targets,
                                          S \in Fresh(MaxExpand)} \ {{}}
  <2>1. reloaded \in SUBSET Lists
    BY DEF Fresh
  <2>2. HandleEdit("reload", reloaded)
    BY <1>4 DEF HandleReload
  <2> HIDE DEF reloaded
  <2>3. QED
    BY <1>1, <2>1, <2>2 DEF Kinds, ClientKinds
<1>5. QED
  BY <1>2, <1>3, <1>4 DEF Edits

LEMMA StartTyped ==
  ASSUME Typed, StartSucceeds
  PROVE  /\ p + 1 \in 1..IDLimit
         /\ echo' \in 0..IDLimit
         /\ p' <= echo'
<1>1. Cardinality(targets) \in Nat \ {0}
  BY TargetsNeedIDs DEF Typed, TypeOK, LoopOK, NeverEmpty
<1>2. p \in Nat /\ echo \in Nat /\ p <= echo
  BY DEF Typed, TypeOK, LoopOK, PingersOK
<1>3. /\ echo + Cardinality(targets) <= IDLimit
      /\ echo' = echo + Cardinality(targets)
      /\ p' = p + 1
  BY DEF StartSucceeds, EnoughIDs
<1>4. QED
  BY <1>1, <1>2, <1>3

LEMMA EditTyped ==
  ASSUME Typed, NEW list \in SUBSET Targets, EditTo(list)
  PROVE  /\ used' \in SUBSET Targets /\ loop' = "edit" /\ next' = list
         /\ outcome' \in {"ok", "err"} /\ drop' \in SUBSET Targets
         /\ UNCHANGED joining
         /\ PingersOK' /\ echo <= echo'
<1> USE DEF Typed, TypeOK, LoopOK, PingersOK
<1>1. used' \in SUBSET Targets /\ loop' = "edit" /\ next' = list /\ UNCHANGED joining
  BY DEF EditTo
<1>2. CASE state # "running"
  BY <1>1, <1>2 DEF EditTo, pingers
<1>3. CASE state = "running"
  <2>1. PICK launched \in SUBSET Targets :
          /\ EnoughIDs(Cardinality(launched)) \/ echo + Cardinality(launched) = IDLimit
          /\ echo' = echo + Cardinality(launched)
          /\ worker' = [worker EXCEPT ![p] =
                [t \in Targets |-> IF t \in launched THEN "active" ELSE @[t]]]
          /\ drop' \in {launched, targets \ list, {}}
          /\ outcome' \in {"ok", "err"}
          /\ UNCHANGED <<phase, events, observer>>
    BY <1>1, <1>3 DEF EditTo, Register, ToDetach
  <2>2. Cardinality(launched) \in Nat
    BY TargetsCount
  <2>3. echo' \in 0..IDLimit /\ echo <= echo'
    BY <2>1, <2>2 DEF EnoughIDs
  <2>4. worker' \in [Pingers -> [Targets -> WorkerStates]]
    BY <2>1 DEF WorkerStates
  <2>5. QED
    BY <1>1, <2>1, <2>3, <2>4
<1>4. QED
  BY <1>2, <1>3

LEMMA PlumbingTyped ==
  ASSUME Typed, [Next]_vars
  PROVE  PlumbingOK'
<1> USE DEF Typed, TypeOK, PlumbingOK, Pending, Kinds, ClientKinds, Callers, LoopOK,
            plumbing, edit, monitors, pingers, loopVars
<1>1. CASE HandleProbesFinished
  BY <1>1, TakeTyped DEF HandleProbesFinished, Finish, CurrentReport, Kinds, ClientKinds
<1>2. CASE HandleStart
  BY <1>2, TakeTyped DEF HandleStart, Finish, Kinds, ClientKinds
<1>3. CASE HandleStop
  BY <1>3, TakeTyped DEF HandleStop, Finish, TearDown, Kinds, ClientKinds
<1>4. CASE HandleRestart
  BY <1>4, TakeTyped DEF HandleRestart, Finish, TearDown, Kinds, ClientKinds
<1>5. CASE HandleTerminate
  BY <1>5, TakeTyped DEF HandleTerminate, Finish, TearDown, TerminatedStates, Kinds, ClientKinds
<1>6. CASE HandleResetStats
  BY <1>6, TakeTyped DEF HandleResetStats, ResetDone, Finish, RestartRoute, RestartPort, RestartHTTP, Kinds, ClientKinds
<1>7. CASE HandleResetRoute
  BY <1>7, TakeTyped DEF HandleResetRoute, ResetDone, Finish, RestartRoute, Kinds, ClientKinds
<1>8. CASE HandleResetPort
  BY <1>8, TakeTyped DEF HandleResetPort, ResetDone, Finish, RestartPort, Kinds, ClientKinds
<1>9. CASE HandleResetHTTP
  BY <1>9, TakeTyped DEF HandleResetHTTP, ResetDone, Finish, RestartHTTP, Kinds, ClientKinds
<1>10. CASE Edits
  BY <1>10, EditCases, EditTyped DEF EditRefused, Finish
<1>11. CASE LoopExits
  BY <1>11 DEF LoopExits
<1>12. CASE TornDown
  BY <1>12 DEF TornDown, TerminatedStates
<1>13. CASE StartSucceeds
  BY <1>13 DEF StartSucceeds, EnoughIDs, Finish
<1>14. CASE StartFails
  BY <1>14 DEF StartFails, EnoughIDs, Finish
<1>15. CASE EditCommits
  BY <1>15 DEF EditCommits
<1>16. CASE Publish
  BY <1>16 DEF Publish, NoCommand, Measurement
<1>17. CASE NotificationTaken
  BY <1>17 DEF NotificationTaken
<1>18. CASE MainStarted
  BY <1>18 DEF MainStarted, MainReplied
<1>19. CASE MainStartFailed
  BY <1>19 DEF MainStartFailed, MainReplied, MainSendsTerminate
<1>20. CASE MainQuits
  BY <1>20 DEF MainQuits, MainSendsTerminate
<1>21. CASE MainShutsDown
  BY <1>21 DEF MainShutsDown, MainReplied, MainSendsTerminate
<1>22. CASE MainClosesDone
  BY <1>22 DEF MainClosesDone, MainReplied
<1>23. CASE MainJoins
  BY <1>23 DEF MainJoins
<1>24. CASE Terminated
  BY <1>24 DEF Terminated, vars
<1>25. ASSUME NEW q \in Pingers, NEW t \in Targets, WorkerFinishes(q, t)
      PROVE  PlumbingOK'
  BY <1>25 DEF WorkerFinishes, WorkerReturns
<1>26. ASSUME NEW q \in Pingers, NEW t \in Targets, WorkerCancelled(q, t)
      PROVE  PlumbingOK'
  BY <1>26 DEF WorkerCancelled, WorkerReturns
<1>27. ASSUME NEW q \in Pingers, NEW t \in Targets, WorkerSignals(q, t)
      PROVE  PlumbingOK'
  BY <1>27 DEF WorkerSignals, WorkerReturns
<1>28. ASSUME NEW q \in Pingers, ObserverTakesEvent(q) PROVE PlumbingOK'
  BY <1>28 DEF ObserverTakesEvent
<1>29. ASSUME NEW q \in Pingers, ObserverExits(q) PROVE PlumbingOK'
  BY <1>29 DEF ObserverExits
<1>30. ASSUME NEW q \in Pingers, ObserverSends(q) PROVE PlumbingOK'
  <2>1. [kind |-> "probesFinished", from |-> Main, pinger |-> q] \in Commands
    BY DEF Commands, Pingers
  <2>2. QED
    BY <1>30, <2>1 DEF ObserverSends
<1>31. ASSUME NEW t \in Targets, DetachTarget(t) PROVE PlumbingOK'
  BY <1>31 DEF DetachTarget
<1>32. ASSUME NEW t \in Targets, TargetRemoved(t) PROVE PlumbingOK'
  BY <1>32 DEF TargetRemoved
<1>33. ASSUME NEW c \in Callers, Send(c) PROVE PlumbingOK'
  BY <1>33 DEF Send, Commands
<1>34. ASSUME NEW c \in Callers, Refused(c) PROVE PlumbingOK'
  BY <1>34 DEF Refused
<1>35. ASSUME NEW c \in Callers, Return(c) PROVE PlumbingOK'
  BY <1>35 DEF Return
<1>36. ASSUME NEW c \in Callers, NEW k \in Offered, Issue(c, k)
      PROVE  PlumbingOK'
  BY <1>36 DEF Issue, Offered
<1>37. CASE UNCHANGED vars
  BY <1>37 DEF vars
<1>38. QED
  BY <1>1, <1>2, <1>3, <1>4, <1>5, <1>6, <1>7, <1>8, <1>9, <1>10, <1>11, <1>12, <1>13, <1>14, <1>15, <1>16, <1>17, <1>18, <1>19, <1>20, <1>21, <1>22, <1>23, <1>24, <1>25, <1>26, <1>27, <1>28, <1>29, <1>30, <1>31, <1>32, <1>33, <1>34, <1>35, <1>36, <1>37
  DEF Next, LoopStep, CallerStep, PingerStep, MainStep, Edits

LEMMA LoopTyped ==
  ASSUME Typed, [Next]_vars
  PROVE  LoopOK'
<1> USE DEF Typed, TypeOK, LoopOK, MeasurementStates, SupervisorStates,
            plumbing, edit, monitors, pingers, loopVars
<1>1. CASE HandleProbesFinished
  BY <1>1, TakeTyped DEF HandleProbesFinished, Finish, CurrentReport, Kinds, ClientKinds
<1>2. CASE HandleStart
  BY <1>2, TakeTyped DEF HandleStart, Finish, Kinds, ClientKinds
<1>3. CASE HandleStop
  BY <1>3, TakeTyped DEF HandleStop, Finish, TearDown, Kinds, ClientKinds
<1>4. CASE HandleRestart
  BY <1>4, TakeTyped DEF HandleRestart, Finish, TearDown, Kinds, ClientKinds
<1>5. CASE HandleTerminate
  BY <1>5, TakeTyped DEF HandleTerminate, Finish, TearDown, TerminatedStates, Kinds, ClientKinds
<1>6. CASE HandleResetStats
  BY <1>6, TakeTyped DEF HandleResetStats, ResetDone, Finish, RestartRoute, RestartPort, RestartHTTP, Kinds, ClientKinds
<1>7. CASE HandleResetRoute
  BY <1>7, TakeTyped DEF HandleResetRoute, ResetDone, Finish, RestartRoute, Kinds, ClientKinds
<1>8. CASE HandleResetPort
  BY <1>8, TakeTyped DEF HandleResetPort, ResetDone, Finish, RestartPort, Kinds, ClientKinds
<1>9. CASE HandleResetHTTP
  BY <1>9, TakeTyped DEF HandleResetHTTP, ResetDone, Finish, RestartHTTP, Kinds, ClientKinds
<1>10. CASE Edits
  BY <1>10, EditCases, EditTyped DEF EditRefused, Finish
<1>11. CASE LoopExits
  BY <1>11 DEF LoopExits
<1>12. CASE TornDown
  <2>1. mstate' \in [Targets -> MeasurementStates]
    BY <1>12 DEF TornDown, TerminatedStates
  <2>2. QED
    BY <1>12, <2>1 DEF TornDown
<1>13. CASE StartSucceeds
  <2>1. p + 1 \in 0..IDLimit
    BY <1>13, StartTyped
  <2>2. mstate' \in [Targets -> MeasurementStates]
    BY <1>13 DEF StartSucceeds
  <2>3. routeEngine' \in 0..IDLimit
    BY <1>13, <2>1 DEF StartSucceeds
  <2>4. httpRunning' \in BOOLEAN /\ finished' \in BOOLEAN
    BY <1>13 DEF StartSucceeds
  <2>5. /\ p' \in 0..IDLimit
        /\ routeTargets' \in SUBSET Targets /\ portTargets' \in SUBSET Targets
        /\ loop' = "publish" /\ outcome' = "ok" /\ state' = "running"
        /\ UNCHANGED <<targets, used, drop, joining, next, current, snap>>
    BY <1>13, <2>1 DEF StartSucceeds, Finish
  <2>6. QED
    BY <2>2, <2>3, <2>4, <2>5
<1>14. CASE StartFails
  BY <1>14 DEF StartFails, EnoughIDs, Finish
<1>15. CASE EditCommits
  BY <1>15 DEF EditCommits
<1>16. CASE Publish
  BY <1>16 DEF Publish, NoCommand, Measurement, Commands, Kinds, Callers
<1>17. CASE NotificationTaken
  <2>1. finished' = FALSE
    BY <1>17 DEF NotificationTaken
  <2>2. QED
    BY <1>17, <2>1 DEF NotificationTaken
<1>18. CASE MainStarted
  BY <1>18 DEF MainStarted, MainReplied
<1>19. CASE MainStartFailed
  BY <1>19 DEF MainStartFailed, MainReplied, MainSendsTerminate
<1>20. CASE MainQuits
  BY <1>20 DEF MainQuits, MainSendsTerminate
<1>21. CASE MainShutsDown
  BY <1>21 DEF MainShutsDown, MainReplied, MainSendsTerminate
<1>22. CASE MainClosesDone
  BY <1>22 DEF MainClosesDone, MainReplied
<1>23. CASE MainJoins
  BY <1>23 DEF MainJoins
<1>24. CASE Terminated
  BY <1>24 DEF Terminated, vars
<1>25. ASSUME NEW q \in Pingers, NEW t \in Targets, WorkerFinishes(q, t)
      PROVE  LoopOK'
  BY <1>25 DEF WorkerFinishes, WorkerReturns
<1>26. ASSUME NEW q \in Pingers, NEW t \in Targets, WorkerCancelled(q, t)
      PROVE  LoopOK'
  BY <1>26 DEF WorkerCancelled, WorkerReturns
<1>27. ASSUME NEW q \in Pingers, NEW t \in Targets, WorkerSignals(q, t)
      PROVE  LoopOK'
  BY <1>27 DEF WorkerSignals, WorkerReturns
<1>28. ASSUME NEW q \in Pingers, ObserverTakesEvent(q) PROVE LoopOK'
  BY <1>28 DEF ObserverTakesEvent
<1>29. ASSUME NEW q \in Pingers, ObserverSends(q) PROVE LoopOK'
  BY <1>29 DEF ObserverSends
<1>30. ASSUME NEW q \in Pingers, ObserverExits(q) PROVE LoopOK'
  BY <1>30 DEF ObserverExits
<1>31. ASSUME NEW t \in Targets, DetachTarget(t) PROVE LoopOK'
  BY <1>31 DEF DetachTarget
<1>32. ASSUME NEW t \in Targets, TargetRemoved(t) PROVE LoopOK'
  BY <1>32 DEF TargetRemoved
<1>33. ASSUME NEW c \in Callers, Send(c) PROVE LoopOK'
  BY <1>33 DEF Send
<1>34. ASSUME NEW c \in Callers, Refused(c) PROVE LoopOK'
  BY <1>34 DEF Refused
<1>35. ASSUME NEW c \in Callers, Return(c) PROVE LoopOK'
  BY <1>35 DEF Return
<1>36. ASSUME NEW c \in Callers, NEW k \in Offered, Issue(c, k)
      PROVE  LoopOK'
  BY <1>36 DEF Issue, Offered
<1>37. CASE UNCHANGED vars
  BY <1>37 DEF vars
<1>38. QED
  BY <1>1, <1>2, <1>3, <1>4, <1>5, <1>6, <1>7, <1>8, <1>9, <1>10, <1>11, <1>12, <1>13, <1>14, <1>15, <1>16, <1>17, <1>18, <1>19, <1>20, <1>21, <1>22, <1>23, <1>24, <1>25, <1>26, <1>27, <1>28, <1>29, <1>30, <1>31, <1>32, <1>33, <1>34, <1>35, <1>36, <1>37
  DEF Next, LoopStep, CallerStep, PingerStep, MainStep, Edits

LEMMA PingersTyped ==
  ASSUME Typed, [Next]_vars
  PROVE  PingersOK'
<1> USE DEF Typed, TypeOK, PingersOK, PhaseNames, WorkerStates,
            plumbing, edit, monitors, pingers, loopVars
<1>1. CASE HandleProbesFinished
  BY <1>1, TakeTyped DEF HandleProbesFinished, Finish, CurrentReport, Kinds, ClientKinds
<1>2. CASE HandleStart
  BY <1>2, TakeTyped DEF HandleStart, Finish, Kinds, ClientKinds
<1>3. CASE HandleStop
  BY <1>3, TakeTyped DEF HandleStop, Finish, TearDown, Kinds, ClientKinds
<1>4. CASE HandleRestart
  BY <1>4, TakeTyped DEF HandleRestart, Finish, TearDown, Kinds, ClientKinds
<1>5. CASE HandleTerminate
  BY <1>5, TakeTyped DEF HandleTerminate, Finish, TearDown, TerminatedStates, Kinds, ClientKinds
<1>6. CASE HandleResetStats
  BY <1>6, TakeTyped DEF HandleResetStats, ResetDone, Finish, RestartRoute, RestartPort, RestartHTTP, Kinds, ClientKinds
<1>7. CASE HandleResetRoute
  BY <1>7, TakeTyped DEF HandleResetRoute, ResetDone, Finish, RestartRoute, Kinds, ClientKinds
<1>8. CASE HandleResetPort
  BY <1>8, TakeTyped DEF HandleResetPort, ResetDone, Finish, RestartPort, Kinds, ClientKinds
<1>9. CASE HandleResetHTTP
  BY <1>9, TakeTyped DEF HandleResetHTTP, ResetDone, Finish, RestartHTTP, Kinds, ClientKinds
<1>10. CASE Edits
  BY <1>10, EditCases, EditTyped DEF EditRefused, Finish
<1>11. CASE LoopExits
  BY <1>11 DEF LoopExits
<1>12. CASE TornDown
  BY <1>12 DEF TornDown, TerminatedStates
<1>13. CASE StartSucceeds
  <2>1. echo' \in 0..IDLimit
    BY <1>13, StartTyped
  <2>2. QED
    BY <1>13, <2>1 DEF StartSucceeds
<1>14. CASE StartFails
  BY <1>14 DEF StartFails, EnoughIDs, Finish
<1>15. CASE EditCommits
  BY <1>15 DEF EditCommits
<1>16. CASE Publish
  BY <1>16 DEF Publish, NoCommand, Measurement
<1>17. CASE NotificationTaken
  BY <1>17 DEF NotificationTaken
<1>18. CASE MainStarted
  BY <1>18 DEF MainStarted, MainReplied
<1>19. CASE MainStartFailed
  BY <1>19 DEF MainStartFailed, MainReplied, MainSendsTerminate
<1>20. CASE MainQuits
  BY <1>20 DEF MainQuits, MainSendsTerminate
<1>21. CASE MainShutsDown
  BY <1>21 DEF MainShutsDown, MainReplied, MainSendsTerminate
<1>22. CASE MainClosesDone
  BY <1>22 DEF MainClosesDone, MainReplied
<1>23. CASE MainJoins
  BY <1>23 DEF MainJoins
<1>24. CASE Terminated
  BY <1>24 DEF Terminated, vars
<1>25. ASSUME NEW q \in Pingers, NEW t \in Targets, WorkerFinishes(q, t)
      PROVE  PingersOK'
  BY <1>25 DEF WorkerFinishes, WorkerReturns
<1>26. ASSUME NEW q \in Pingers, NEW t \in Targets, WorkerCancelled(q, t)
      PROVE  PingersOK'
  BY <1>26 DEF WorkerCancelled, WorkerReturns
<1>27. ASSUME NEW q \in Pingers, NEW t \in Targets, WorkerSignals(q, t)
      PROVE  PingersOK'
  BY <1>27 DEF WorkerSignals, WorkerReturns
<1>28. ASSUME NEW q \in Pingers, ObserverTakesEvent(q) PROVE PingersOK'
  BY <1>28 DEF ObserverTakesEvent
<1>29. ASSUME NEW q \in Pingers, ObserverSends(q) PROVE PingersOK'
  BY <1>29 DEF ObserverSends
<1>30. ASSUME NEW q \in Pingers, ObserverExits(q) PROVE PingersOK'
  BY <1>30 DEF ObserverExits
<1>31. ASSUME NEW t \in Targets, DetachTarget(t) PROVE PingersOK'
  BY <1>31 DEF DetachTarget
<1>32. ASSUME NEW t \in Targets, TargetRemoved(t) PROVE PingersOK'
  BY <1>32 DEF TargetRemoved
<1>33. ASSUME NEW c \in Callers, Send(c) PROVE PingersOK'
  BY <1>33 DEF Send
<1>34. ASSUME NEW c \in Callers, Refused(c) PROVE PingersOK'
  BY <1>34 DEF Refused
<1>35. ASSUME NEW c \in Callers, Return(c) PROVE PingersOK'
  BY <1>35 DEF Return
<1>36. ASSUME NEW c \in Callers, NEW k \in Offered, Issue(c, k)
      PROVE  PingersOK'
  BY <1>36 DEF Issue, Offered
<1>37. CASE UNCHANGED vars
  BY <1>37 DEF vars
<1>38. QED
  BY <1>1, <1>2, <1>3, <1>4, <1>5, <1>6, <1>7, <1>8, <1>9, <1>10, <1>11, <1>12, <1>13, <1>14, <1>15, <1>16, <1>17, <1>18, <1>19, <1>20, <1>21, <1>22, <1>23, <1>24, <1>25, <1>26, <1>27, <1>28, <1>29, <1>30, <1>31, <1>32, <1>33, <1>34, <1>35, <1>36, <1>37
  DEF Next, LoopStep, CallerStep, PingerStep, MainStep, Edits

LEMMA CountTyped ==
  ASSUME Typed, [Next]_vars
  PROVE  p' <= echo' /\ NeverEmpty'
<1> USE DEF Typed, TypeOK, NeverEmpty, PingersOK, LoopOK,
            plumbing, edit, monitors, pingers, loopVars
<1>1. CASE HandleProbesFinished
  BY <1>1, TakeTyped DEF HandleProbesFinished, Finish, CurrentReport, Kinds, ClientKinds
<1>2. CASE HandleStart
  BY <1>2, TakeTyped DEF HandleStart, Finish, Kinds, ClientKinds
<1>3. CASE HandleStop
  BY <1>3, TakeTyped DEF HandleStop, Finish, TearDown, Kinds, ClientKinds
<1>4. CASE HandleRestart
  BY <1>4, TakeTyped DEF HandleRestart, Finish, TearDown, Kinds, ClientKinds
<1>5. CASE HandleTerminate
  BY <1>5, TakeTyped DEF HandleTerminate, Finish, TearDown, TerminatedStates, Kinds, ClientKinds
<1>6. CASE HandleResetStats
  BY <1>6, TakeTyped DEF HandleResetStats, ResetDone, Finish, RestartRoute, RestartPort, RestartHTTP, Kinds, ClientKinds
<1>7. CASE HandleResetRoute
  BY <1>7, TakeTyped DEF HandleResetRoute, ResetDone, Finish, RestartRoute, Kinds, ClientKinds
<1>8. CASE HandleResetPort
  BY <1>8, TakeTyped DEF HandleResetPort, ResetDone, Finish, RestartPort, Kinds, ClientKinds
<1>9. CASE HandleResetHTTP
  BY <1>9, TakeTyped DEF HandleResetHTTP, ResetDone, Finish, RestartHTTP, Kinds, ClientKinds
<1>10. CASE Edits
  BY <1>10, EditCases, EditTyped DEF EditRefused, Finish
<1>11. CASE LoopExits
  BY <1>11 DEF LoopExits
<1>12. CASE TornDown
  BY <1>12 DEF TornDown, TerminatedStates
<1>13. CASE StartSucceeds
  BY <1>13, StartTyped DEF StartSucceeds, Finish
<1>14. CASE StartFails
  BY <1>14 DEF StartFails, EnoughIDs, Finish
<1>15. CASE EditCommits
  BY <1>15 DEF EditCommits
<1>16. CASE Publish
  BY <1>16 DEF Publish, NoCommand, Measurement
<1>17. CASE NotificationTaken
  BY <1>17 DEF NotificationTaken
<1>18. CASE MainStarted
  BY <1>18 DEF MainStarted, MainReplied
<1>19. CASE MainStartFailed
  BY <1>19 DEF MainStartFailed, MainReplied, MainSendsTerminate
<1>20. CASE MainQuits
  BY <1>20 DEF MainQuits, MainSendsTerminate
<1>21. CASE MainShutsDown
  BY <1>21 DEF MainShutsDown, MainReplied, MainSendsTerminate
<1>22. CASE MainClosesDone
  BY <1>22 DEF MainClosesDone, MainReplied
<1>23. CASE MainJoins
  BY <1>23 DEF MainJoins
<1>24. CASE Terminated
  BY <1>24 DEF Terminated, vars
<1>25. ASSUME NEW q \in Pingers, NEW t \in Targets, WorkerFinishes(q, t)
      PROVE  p' <= echo' /\ NeverEmpty'
  BY <1>25 DEF WorkerFinishes, WorkerReturns
<1>26. ASSUME NEW q \in Pingers, NEW t \in Targets, WorkerCancelled(q, t)
      PROVE  p' <= echo' /\ NeverEmpty'
  BY <1>26 DEF WorkerCancelled, WorkerReturns
<1>27. ASSUME NEW q \in Pingers, NEW t \in Targets, WorkerSignals(q, t)
      PROVE  p' <= echo' /\ NeverEmpty'
  BY <1>27 DEF WorkerSignals, WorkerReturns
<1>28. ASSUME NEW q \in Pingers, ObserverTakesEvent(q) PROVE p' <= echo' /\ NeverEmpty'
  BY <1>28 DEF ObserverTakesEvent
<1>29. ASSUME NEW q \in Pingers, ObserverSends(q) PROVE p' <= echo' /\ NeverEmpty'
  BY <1>29 DEF ObserverSends
<1>30. ASSUME NEW q \in Pingers, ObserverExits(q) PROVE p' <= echo' /\ NeverEmpty'
  BY <1>30 DEF ObserverExits
<1>31. ASSUME NEW t \in Targets, DetachTarget(t) PROVE p' <= echo' /\ NeverEmpty'
  BY <1>31 DEF DetachTarget
<1>32. ASSUME NEW t \in Targets, TargetRemoved(t) PROVE p' <= echo' /\ NeverEmpty'
  BY <1>32 DEF TargetRemoved
<1>33. ASSUME NEW c \in Callers, Send(c) PROVE p' <= echo' /\ NeverEmpty'
  BY <1>33 DEF Send
<1>34. ASSUME NEW c \in Callers, Refused(c) PROVE p' <= echo' /\ NeverEmpty'
  BY <1>34 DEF Refused
<1>35. ASSUME NEW c \in Callers, Return(c) PROVE p' <= echo' /\ NeverEmpty'
  BY <1>35 DEF Return
<1>36. ASSUME NEW c \in Callers, NEW k \in Offered, Issue(c, k)
      PROVE  p' <= echo' /\ NeverEmpty'
  BY <1>36 DEF Issue, Offered
<1>37. CASE UNCHANGED vars
  BY <1>37 DEF vars
<1>38. QED
  BY <1>1, <1>2, <1>3, <1>4, <1>5, <1>6, <1>7, <1>8, <1>9, <1>10, <1>11, <1>12, <1>13, <1>14, <1>15, <1>16, <1>17, <1>18, <1>19, <1>20, <1>21, <1>22, <1>23, <1>24, <1>25, <1>26, <1>27, <1>28, <1>29, <1>30, <1>31, <1>32, <1>33, <1>34, <1>35, <1>36, <1>37
  DEF Next, LoopStep, CallerStep, PingerStep, MainStep, Edits


(***************************************************************************)
(* Ownership. Every pinger but the latest was closed, the latest one is    *)
(* live exactly while the session runs, and only then do monitors exist.   *)
(***************************************************************************)
PingerOwned ==
  /\ \A q \in Pingers : q > p => phase[q] = "none"
  /\ \A q \in Pingers : q < p => phase[q] = "closed"
  /\ p # 0 => phase[p] = IF loop = "teardown" THEN "stopping"
                        ELSE IF state = "running" THEN "live" ELSE "closed"
  /\ \A q \in Pingers : phase[q] = "closed" => Joined(q)
  /\ state = "running" => p # 0
  /\ loop = "teardown" => state = "running"
  /\ loop = "start" => state = "stopped"

MonitorsOwned ==
  /\ loop = "teardown" => routeEngine = 0 /\ routeTargets = {}
  /\ routeEngine # 0 => state = "running" /\ routeEngine = p
  /\ state # "running" => routeTargets = {} /\ portTargets = {} /\ ~httpRunning

Owned == PingerOwned /\ MonitorsOwned

LEMMA InitOwned == Init => Owned
BY DEF Init, Owned, PingerOwned, MonitorsOwned, Pingers

\* An edit leaves every pinger alone but the live one.
LEMMA EditOwned ==
  ASSUME Typed, Owned, loop = "select", NEW list, EditTo(list)
  PROVE  /\ loop' = "edit" /\ UNCHANGED phase
         /\ \A q \in Pingers : phase[q] = "closed" => worker'[q] = worker[q]
<1> USE DEF Typed, TypeOK, PingersOK, Owned, PingerOwned
<1>1. CASE state = "running"
  BY <1>1 DEF EditTo, Register
<1>2. CASE state # "running"
  BY <1>2 DEF EditTo, pingers
<1>3. QED
  BY <1>1, <1>2

LEMMA PingerOwnedStep ==
  ASSUME Typed, Owned, [Next]_vars
  PROVE  PingerOwned'
<1> USE DEF Typed, TypeOK, LoopOK, PingersOK, Pingers, Owned, PingerOwned, Joined,
            plumbing, edit, monitors, pingers, loopVars
<1>1. CASE HandleProbesFinished
  BY <1>1 DEF HandleProbesFinished, Finish, CurrentReport, Received
<1>2. CASE HandleStart
  BY <1>2 DEF HandleStart, Finish, Received
<1>3. CASE HandleStop
  BY <1>3 DEF HandleStop, Finish, TearDown, Received
<1>4. CASE HandleRestart
  BY <1>4 DEF HandleRestart, Finish, TearDown, Received
<1>5. CASE HandleTerminate
  <2>1. CASE state = "running"
    <3>1. /\ loop' = "teardown"
          /\ phase' = [phase EXCEPT ![p] = "stopping"]
          /\ UNCHANGED <<state, p, worker>>
      BY <1>5, <2>1 DEF HandleTerminate, TearDown
    <3>2. QED
      BY <2>1, <3>1
  <2>2. CASE state # "running"
    <3>1. /\ loop' = "publish" /\ state' = "terminated"
          /\ UNCHANGED <<p, phase, worker>>
      BY <1>5, <2>2 DEF HandleTerminate, Finish
    <3>2. loop = "select"
      BY <1>5 DEF HandleTerminate, Received
    <3>3. QED
      BY <2>2, <3>1, <3>2
  <2>3. QED
    BY <2>1, <2>2
<1>6. CASE HandleResetStats
  BY <1>6 DEF HandleResetStats, ResetDone, Finish, RestartRoute, RestartPort, RestartHTTP, Received
<1>7. CASE HandleResetRoute
  BY <1>7 DEF HandleResetRoute, ResetDone, Finish, RestartRoute, Received
<1>8. CASE HandleResetPort
  BY <1>8 DEF HandleResetPort, ResetDone, Finish, RestartPort, Received
<1>9. CASE HandleResetHTTP
  BY <1>9 DEF HandleResetHTTP, ResetDone, Finish, RestartHTTP, Received
<1>10. CASE Edits
  <2>1. loop = "select" /\ UNCHANGED <<state, p>>
    BY <1>10, EditCases
  <2>2. /\ loop' \in {"edit", "publish"} /\ UNCHANGED phase
        /\ \A q \in Pingers : phase[q] = "closed" => worker'[q] = worker[q]
    BY <1>10, <2>1, EditCases, EditOwned DEF EditRefused, Finish
  <2>3. QED
    BY <2>1, <2>2
<1>11. CASE LoopExits
  BY <1>11 DEF LoopExits
<1>12. CASE TornDown
  BY <1>12 DEF TornDown
<1>13. CASE StartSucceeds
  <2>1. /\ loop = "start" /\ loop' = "publish" /\ state' = "running"
        /\ p' = p + 1 /\ p + 1 \in Pingers
        /\ phase' = [phase EXCEPT ![p + 1] = "live"]
    BY <1>13, StartTyped DEF StartSucceeds, Finish
  <2>2. \A q \in Pingers : q # p + 1 => phase'[q] = phase[q] /\ worker'[q] = worker[q]
    BY <1>13, <2>1 DEF StartSucceeds
  <2>3. \A q \in Pingers : phase'[q] = "closed" => Joined(q)'
    BY <2>1, <2>2
  <2>4. ASSUME NEW q \in Pingers, q < p + 1
        PROVE  phase[q] = "closed"
    <3>1. q < p \/ q = p
      BY <2>4
    <3>2. state = "stopped"
      BY <2>1
    <3>3. QED
      BY <2>1, <3>1, <3>2
  <2>5. QED
    BY <2>1, <2>2, <2>3, <2>4
<1>14. CASE StartFails
  BY <1>14 DEF StartFails, Finish
<1>15. CASE EditCommits
  BY <1>15 DEF EditCommits
<1>16. CASE Publish
  BY <1>16 DEF Publish
<1>17. CASE NotificationTaken
  BY <1>17 DEF NotificationTaken
<1>18. CASE MainStarted
  BY <1>18 DEF MainStarted
<1>19. CASE MainStartFailed
  BY <1>19 DEF MainStartFailed, MainSendsTerminate
<1>20. CASE MainQuits
  BY <1>20 DEF MainQuits, MainSendsTerminate
<1>21. CASE MainShutsDown
  BY <1>21 DEF MainShutsDown, MainSendsTerminate
<1>22. CASE MainClosesDone
  BY <1>22 DEF MainClosesDone
<1>23. CASE MainJoins
  BY <1>23 DEF MainJoins
<1>24. CASE Terminated
  BY <1>24 DEF Terminated, vars
<1>25. ASSUME NEW q \in Pingers, NEW t \in Targets, WorkerFinishes(q, t)
      PROVE  PingerOwned'
  <2>1. UNCHANGED <<phase, loop, state, p>>
    BY <1>25 DEF WorkerFinishes, WorkerReturns
  <2>2. \A r \in Pingers, u \in Targets :
          worker[r][u] \in {"none", "exited"} => worker'[r][u] \in {"none", "exited"}
    BY <1>25 DEF WorkerFinishes, WorkerReturns
  <2>3. QED
    BY <2>1, <2>2
<1>26. ASSUME NEW q \in Pingers, NEW t \in Targets, WorkerCancelled(q, t)
      PROVE  PingerOwned'
  BY <1>26 DEF WorkerCancelled, WorkerReturns
<1>27. ASSUME NEW q \in Pingers, NEW t \in Targets, WorkerSignals(q, t)
      PROVE  PingerOwned'
  BY <1>27 DEF WorkerSignals, WorkerReturns
<1>28. ASSUME NEW q \in Pingers, ObserverTakesEvent(q) PROVE PingerOwned'
  BY <1>28 DEF ObserverTakesEvent
<1>29. ASSUME NEW q \in Pingers, ObserverSends(q) PROVE PingerOwned'
  BY <1>29 DEF ObserverSends
<1>30. ASSUME NEW q \in Pingers, ObserverExits(q) PROVE PingerOwned'
  BY <1>30 DEF ObserverExits
<1>31. ASSUME NEW t \in Targets, DetachTarget(t) PROVE PingerOwned'
  BY <1>31 DEF DetachTarget
<1>32. ASSUME NEW t \in Targets, TargetRemoved(t) PROVE PingerOwned'
  BY <1>32 DEF TargetRemoved
<1>33. ASSUME NEW c \in Callers, Send(c) PROVE PingerOwned'
  BY <1>33 DEF Send
<1>34. ASSUME NEW c \in Callers, Refused(c) PROVE PingerOwned'
  BY <1>34 DEF Refused
<1>35. ASSUME NEW c \in Callers, Return(c) PROVE PingerOwned'
  BY <1>35 DEF Return
<1>36. ASSUME NEW c \in Callers, NEW k \in Offered, Issue(c, k)
      PROVE  PingerOwned'
  BY <1>36 DEF Issue
<1>37. CASE UNCHANGED vars
  BY <1>37 DEF vars
<1>38. QED
  BY <1>1, <1>2, <1>3, <1>4, <1>5, <1>6, <1>7, <1>8, <1>9, <1>10, <1>11, <1>12, <1>13, <1>14, <1>15, <1>16, <1>17, <1>18, <1>19, <1>20, <1>21, <1>22, <1>23, <1>24, <1>25, <1>26, <1>27, <1>28, <1>29, <1>30, <1>31, <1>32, <1>33, <1>34, <1>35, <1>36, <1>37
  DEF Next, LoopStep, CallerStep, PingerStep, MainStep, Edits

LEMMA MonitorsOwnedStep ==
  ASSUME Typed, Owned, [Next]_vars
  PROVE  MonitorsOwned'
<1> USE DEF Typed, TypeOK, LoopOK, PingersOK, Pingers, Owned, MonitorsOwned, PingerOwned,
            plumbing, edit, monitors, pingers, loopVars
<1>1. CASE HandleProbesFinished
  BY <1>1 DEF HandleProbesFinished, Finish, CurrentReport, Received
<1>2. CASE HandleStart
  BY <1>2 DEF HandleStart, Finish, Received
<1>3. CASE HandleStop
  BY <1>3 DEF HandleStop, Finish, TearDown, Received
<1>4. CASE HandleRestart
  BY <1>4 DEF HandleRestart, Finish, TearDown, Received
<1>5. CASE HandleTerminate
  BY <1>5 DEF HandleTerminate, Finish, TearDown, Received
<1>6. CASE HandleResetStats
  BY <1>6 DEF HandleResetStats, ResetDone, Finish, RestartRoute, RestartPort, RestartHTTP, Received
<1>7. CASE HandleResetRoute
  BY <1>7 DEF HandleResetRoute, ResetDone, Finish, RestartRoute, Received
<1>8. CASE HandleResetPort
  BY <1>8 DEF HandleResetPort, ResetDone, Finish, RestartPort, Received
<1>9. CASE HandleResetHTTP
  BY <1>9 DEF HandleResetHTTP, ResetDone, Finish, RestartHTTP, Received
<1>10. CASE Edits
  BY <1>10, EditCases, EditOwned DEF EditRefused, Finish
<1>11. CASE LoopExits
  BY <1>11 DEF LoopExits
<1>12. CASE TornDown
  BY <1>12 DEF TornDown
<1>13. CASE StartSucceeds
  BY <1>13, StartTyped DEF StartSucceeds, Finish
<1>14. CASE StartFails
  BY <1>14 DEF StartFails, Finish
<1>15. CASE EditCommits
  BY <1>15 DEF EditCommits
<1>16. CASE Publish
  BY <1>16 DEF Publish
<1>17. CASE NotificationTaken
  BY <1>17 DEF NotificationTaken
<1>18. CASE MainStarted
  BY <1>18 DEF MainStarted
<1>19. CASE MainStartFailed
  BY <1>19 DEF MainStartFailed, MainSendsTerminate
<1>20. CASE MainQuits
  BY <1>20 DEF MainQuits, MainSendsTerminate
<1>21. CASE MainShutsDown
  BY <1>21 DEF MainShutsDown, MainSendsTerminate
<1>22. CASE MainClosesDone
  BY <1>22 DEF MainClosesDone
<1>23. CASE MainJoins
  BY <1>23 DEF MainJoins
<1>24. CASE Terminated
  BY <1>24 DEF Terminated, vars
<1>25. ASSUME NEW q \in Pingers, NEW t \in Targets, WorkerFinishes(q, t)
      PROVE  MonitorsOwned'
  BY <1>25 DEF WorkerFinishes, WorkerReturns
<1>26. ASSUME NEW q \in Pingers, NEW t \in Targets, WorkerCancelled(q, t)
      PROVE  MonitorsOwned'
  BY <1>26 DEF WorkerCancelled, WorkerReturns
<1>27. ASSUME NEW q \in Pingers, NEW t \in Targets, WorkerSignals(q, t)
      PROVE  MonitorsOwned'
  BY <1>27 DEF WorkerSignals, WorkerReturns
<1>28. ASSUME NEW q \in Pingers, ObserverTakesEvent(q) PROVE MonitorsOwned'
  BY <1>28 DEF ObserverTakesEvent
<1>29. ASSUME NEW q \in Pingers, ObserverSends(q) PROVE MonitorsOwned'
  BY <1>29 DEF ObserverSends
<1>30. ASSUME NEW q \in Pingers, ObserverExits(q) PROVE MonitorsOwned'
  BY <1>30 DEF ObserverExits
<1>31. ASSUME NEW t \in Targets, DetachTarget(t) PROVE MonitorsOwned'
  BY <1>31 DEF DetachTarget
<1>32. ASSUME NEW t \in Targets, TargetRemoved(t) PROVE MonitorsOwned'
  BY <1>32 DEF TargetRemoved
<1>33. ASSUME NEW c \in Callers, Send(c) PROVE MonitorsOwned'
  BY <1>33 DEF Send
<1>34. ASSUME NEW c \in Callers, Refused(c) PROVE MonitorsOwned'
  BY <1>34 DEF Refused
<1>35. ASSUME NEW c \in Callers, Return(c) PROVE MonitorsOwned'
  BY <1>35 DEF Return
<1>36. ASSUME NEW c \in Callers, NEW k \in Offered, Issue(c, k)
      PROVE  MonitorsOwned'
  BY <1>36 DEF Issue
<1>37. CASE UNCHANGED vars
  BY <1>37 DEF vars
<1>38. QED
  BY <1>1, <1>2, <1>3, <1>4, <1>5, <1>6, <1>7, <1>8, <1>9, <1>10, <1>11, <1>12, <1>13, <1>14, <1>15, <1>16, <1>17, <1>18, <1>19, <1>20, <1>21, <1>22, <1>23, <1>24, <1>25, <1>26, <1>27, <1>28, <1>29, <1>30, <1>31, <1>32, <1>33, <1>34, <1>35, <1>36, <1>37
  DEF Next, LoopStep, CallerStep, PingerStep, MainStep, Edits


(***************************************************************************)
(* The theorems.                                                           *)
(***************************************************************************)
LEMMA StepTyped == Typed /\ [Next]_vars => Typed'
BY PlumbingTyped, LoopTyped, PingersTyped, CountTyped DEF Typed, TypeOK

LEMMA StepOwned == Typed /\ Owned /\ [Next]_vars => Owned'
BY PingerOwnedStep, MonitorsOwnedStep DEF Owned

LEMMA Invariance == Spec => [](Typed /\ Owned)
<1>1. Init => Typed /\ Owned
  BY InitTyped, InitOwned
<1>2. Typed /\ Owned /\ [Next]_vars => (Typed /\ Owned)'
  BY StepTyped, StepOwned
<1>3. QED
  BY <1>1, <1>2, PTL DEF Spec

\* Every variable of the supervisor and of its pingers keeps its type: in
\* particular a pinger never needs more names than there are echo IDs.
THEOREM TypeCorrect == Spec => []TypeOK
<1>1. Typed => TypeOK
  BY DEF Typed
<1>2. QED
  BY <1>1, Invariance, PTL

\* tearDownAll and the joins inside it: sockets are closed only after every
\* worker goroutine of their pinger ended, and the route engine never probes
\* through a pinger that was told to stop.
THEOREM SocketsSafe == Spec => []SocketsOutliveUsers
<1>1. Typed /\ Owned => SocketsOutliveUsers
  <2> SUFFICES ASSUME Typed, Owned PROVE SocketsOutliveUsers
    OBVIOUS
  <2>1. ASSUME routeEngine # 0 PROVE phase[routeEngine] = "live"
    BY <2>1 DEF Owned, PingerOwned, MonitorsOwned
  <2>2. QED
    BY <2>1 DEF SocketsOutliveUsers, Owned, PingerOwned, Joined
<1>2. QED
  BY <1>1, Invariance, PTL

\* stop, restart, terminate, resets and edits: whenever the session is not
\* running, no pinger holds a socket and no monitor runs.
THEOREM QuietSession == Spec => []QuietUnlessRunning
<1>1. Typed /\ Owned => QuietUnlessRunning
  <2> SUFFICES ASSUME Typed, Owned, Settled, state # "running"
               PROVE  QuietUnlessRunning
    BY DEF QuietUnlessRunning
  <2>1. ASSUME NEW q \in Pingers PROVE phase[q] \in {"none", "closed"}
    <3>1. q < p \/ q = p \/ q > p
      BY DEF Pingers, Typed, TypeOK, LoopOK
    <3>2. p \in Pingers => p # 0
      BY DEF Pingers
    <3>3. QED
      BY <3>1, <3>2 DEF Owned, PingerOwned
  <2>2. routeEngine = 0 /\ routeTargets = {} /\ portTargets = {} /\ ~httpRunning
    BY DEF Owned, MonitorsOwned
  <2>3. QED
    BY <2>1, <2>2 DEF QuietUnlessRunning
<1>2. QED
  BY <1>1, Invariance, PTL

Measuring == {q \in Pingers : phase[q] \in {"live", "stopping"}}

LEMMA OneMeasures ==
  ASSUME Typed, Owned
  PROVE  Measuring = IF state = "running" THEN {p} ELSE {}
<1> USE DEF Typed, TypeOK, LoopOK, Owned, PingerOwned, Pingers
<1>1. ASSUME NEW q \in Pingers
      PROVE  q \in Measuring <=> (state = "running" /\ q = p)
  <2>1. q < p \/ q = p \/ q > p
    OBVIOUS
  <2>2. QED
    BY <2>1 DEF Measuring
<1>2. state = "running" => p \in Pingers
  OBVIOUS
<1>3. QED
  BY <1>1, <1>2 DEF Measuring

LEMMA MeasuresNext ==
  (Typed /\ Owned => Measuring = IF state = "running" THEN {p} ELSE {})'
<1>1. Typed /\ Owned => Measuring = IF state = "running" THEN {p} ELSE {}
  BY OneMeasures
<1>2. QED
  BY <1>1, PTL

\* The state table of the session: only these steps touch state and p.
StateTable ==
  \/ UNCHANGED <<state, p>>
  \/ state = "stopped" /\ state' = "running" /\ p' = p + 1
  \/ state = "running" /\ state' \in {"stopped", "terminated"} /\ UNCHANGED p
  \/ state = "stopped" /\ state' = "terminated" /\ UNCHANGED p

LEMMA StateSteps ==
  ASSUME Typed, Owned, [Next]_vars
  PROVE  StateTable
<1> USE DEF StateTable, loopVars
<1>1. CASE HandleProbesFinished
  BY <1>1 DEF HandleProbesFinished
<1>2. CASE HandleStart
  BY <1>2 DEF HandleStart, Finish
<1>3. CASE HandleStop
  BY <1>3 DEF HandleStop, TearDown
<1>4. CASE HandleRestart
  BY <1>4 DEF HandleRestart, TearDown
<1>5. CASE HandleResetStats
  BY <1>5 DEF HandleResetStats, ResetDone
<1>6. CASE HandleResetRoute
  BY <1>6 DEF HandleResetRoute, ResetDone
<1>7. CASE HandleResetPort
  BY <1>7 DEF HandleResetPort, ResetDone
<1>8. CASE HandleResetHTTP
  BY <1>8 DEF HandleResetHTTP, ResetDone
<1>9. CASE HandleTerminate
  BY <1>9 DEF HandleTerminate, TearDown, Typed, TypeOK, LoopOK, SupervisorStates
<1>10. CASE Edits
  BY <1>10, EditCases DEF Edits
<1>11. CASE TornDown
  BY <1>11 DEF TornDown, Owned, PingerOwned
<1>12. CASE StartSucceeds
  BY <1>12 DEF StartSucceeds, Owned, PingerOwned
<1>13. CASE LoopExits
  BY <1>13 DEF LoopExits
<1>14. CASE StartFails
  BY <1>14 DEF StartFails
<1>15. CASE EditCommits
  BY <1>15 DEF EditCommits
<1>16. CASE Publish
  BY <1>16 DEF Publish
<1>17. CASE NotificationTaken
  BY <1>17 DEF NotificationTaken
<1>18. CASE MainStarted
  BY <1>18 DEF MainStarted
<1>19. CASE MainClosesDone
  BY <1>19 DEF MainClosesDone
<1>20. CASE MainJoins
  BY <1>20 DEF MainJoins
<1>21. CASE MainStartFailed
  BY <1>21 DEF MainStartFailed, MainSendsTerminate
<1>22. CASE MainQuits
  BY <1>22 DEF MainQuits, MainSendsTerminate
<1>23. CASE MainShutsDown
  BY <1>23 DEF MainShutsDown, MainSendsTerminate
<1>24. CASE Terminated
  BY <1>24 DEF Terminated, vars
<1>25. ASSUME NEW q \in Pingers, NEW t \in Targets, WorkerFinishes(q, t)
      PROVE  StateTable
  BY <1>25 DEF WorkerFinishes, WorkerReturns
<1>26. ASSUME NEW q \in Pingers, NEW t \in Targets, WorkerCancelled(q, t)
      PROVE  StateTable
  BY <1>26 DEF WorkerCancelled, WorkerReturns
<1>27. ASSUME NEW q \in Pingers, NEW t \in Targets, WorkerSignals(q, t)
      PROVE  StateTable
  BY <1>27 DEF WorkerSignals
<1>28. ASSUME NEW q \in Pingers, ObserverTakesEvent(q) PROVE StateTable
  BY <1>28 DEF ObserverTakesEvent
<1>29. ASSUME NEW q \in Pingers, ObserverSends(q) PROVE StateTable
  BY <1>29 DEF ObserverSends
<1>30. ASSUME NEW q \in Pingers, ObserverExits(q) PROVE StateTable
  BY <1>30 DEF ObserverExits
<1>31. ASSUME NEW t \in Targets, DetachTarget(t) PROVE StateTable
  BY <1>31 DEF DetachTarget
<1>32. ASSUME NEW t \in Targets, TargetRemoved(t) PROVE StateTable
  BY <1>32 DEF TargetRemoved
<1>33. ASSUME NEW c \in Callers, Send(c) PROVE StateTable
  BY <1>33 DEF Send
<1>34. ASSUME NEW c \in Callers, Refused(c) PROVE StateTable
  BY <1>34 DEF Refused
<1>35. ASSUME NEW c \in Callers, Return(c) PROVE StateTable
  BY <1>35 DEF Return
<1>36. ASSUME NEW c \in Callers, NEW k \in Offered, Issue(c, k)
      PROVE  StateTable
  BY <1>36 DEF Issue
<1>37. CASE UNCHANGED vars
  BY <1>37 DEF vars
<1>38. QED
  BY <1>1, <1>2, <1>3, <1>4, <1>5, <1>6, <1>7, <1>8, <1>9, <1>10, <1>11, <1>12, <1>13, <1>14, <1>15, <1>16, <1>17, <1>18, <1>19, <1>20, <1>21, <1>22, <1>23, <1>24, <1>25, <1>26, <1>27, <1>28, <1>29, <1>30, <1>31, <1>32, <1>33, <1>34, <1>35, <1>36, <1>37
  DEF Next, LoopStep, CallerStep, PingerStep, MainStep, Edits

\* The whole supervisor, with its queue, its joins, its edits and its shutdown,
\* implements the state table it documents: one measurement at a time, a new
\* one only after the old one was released, none after termination.
THEOREM Refinement == Spec => ImplementsLifecycle
<1> USE DEF Abstract!Init, Abstract!Next, Abstract!Launch, Abstract!Release,
            Abstract!Terminate, Abstract!vars
<1>1. Init => Abstract!Init
  BY DEF Init
<1>2. ASSUME Typed, Owned, Typed', Owned', [Next]_vars
      PROVE  [Abstract!Next]_Abstract!vars
  <2>1. Measuring = IF state = "running" THEN {p} ELSE {}
    BY <1>2, OneMeasures
  <2>2. Measuring' = IF state' = "running" THEN {p'} ELSE {}
    BY <1>2, MeasuresNext
  <2>3. StateTable
    BY <1>2, StateSteps
  <2>4. QED
    BY <2>1, <2>2, <2>3 DEF StateTable, Measuring
<1>3. QED
  BY <1>1, <1>2, Invariance, PTL DEF Spec, ImplementsLifecycle, Abstract!Spec

(***************************************************************************)
(* Membership. During an edit the workers are those of the list the edit   *)
(* makes, or goes back to, and of the targets it still has to remove; the  *)
(* monitors have let go of the targets that were already removed.          *)
(***************************************************************************)
Editing == loop \in {"edit", "join"}

\* A target joins once, and was never measured before.
Listed ==
  /\ targets \subseteq used
  /\ \A t \in Targets \ used : mstate[t] # "finished"
  /\ Editing => /\ next \subseteq used
                /\ \A t \in next \ targets : mstate[t] # "finished"
  /\ loop # "join" => joining = {}

\* The list the edit ends with, and the targets the monitors still have.
Goal == IF outcome = "ok" THEN next ELSE targets
Attached == targets \intersect (Goal \union drop)

MonitorsAre(list) ==
  /\ RouteEnabled => routeEngine = p /\ routeTargets = list
  /\ PortEnabled => portTargets = list
  /\ httpRunning = HTTPEnabled

Followed ==
  state = "running" =>
    /\ Settled => Registered(p) = targets /\ MonitorsAre(targets)
    /\ Editing => /\ Registered(p) = Goal \union drop \union joining
                  /\ MonitorsAre(Attached)
                  /\ drop \intersect Goal = {}
                  /\ joining \intersect (Goal \union drop) = {}

\* What was reported finished has no worker, also while an edit launches some.
Truthful ==
  state = "running" =>
    \A t \in targets : mstate[t] = "finished" \/ finished => worker[p][t] # "active"

Member == Listed /\ Followed /\ Truthful /\ SnapshotIsFresh

LEMMA InitMember == Init => Member
BY DEF Init, Member, Listed, Followed, Truthful, SnapshotIsFresh, Editing

\* The goroutines that are not the loop: a worker ends, a caller waits, the
\* observer reports, main shuts down. None touches what the loop owns.
LEMMA OthersRest ==
  ASSUME Typed, [Next]_vars, ~ LoopStep
  PROVE  /\ UNCHANGED <<outcome, state, p, targets, used, mstate, routeEngine,
                        routeTargets, portTargets, httpRunning, drop, joining, next, snap>>
         /\ loop' = loop \/ (loop = "select" /\ loop' = "exited")
         /\ finished' => finished
         /\ \A q \in Pingers, t \in Targets :
              /\ worker'[q][t] = "none" <=> worker[q][t] = "none"
              /\ worker'[q][t] = "active" => worker[q][t] = "active"
<1> USE DEF Typed, TypeOK, PingersOK, plumbing, edit, monitors, pingers, loopVars
<1>1. CASE LoopExits
  BY <1>1 DEF LoopExits
<1>2. CASE NotificationTaken
  BY <1>2 DEF NotificationTaken
<1>3. CASE MainStep \/ Terminated \/ UNCHANGED vars
  BY <1>3 DEF MainStep, MainStarted, MainStartFailed, MainQuits, MainShutsDown, MainClosesDone,
     MainJoins, MainSendsTerminate, Terminated, vars
<1>4. ASSUME NEW c \in Callers, CallerStep(c)
      PROVE  UNCHANGED loopVars
  BY <1>4 DEF CallerStep, Issue, Send, Refused, Return
<1>5. CASE \E c \in Callers : CallerStep(c)
  BY <1>4, <1>5
<1>6. ASSUME NEW q \in Pingers, NEW t \in Targets, WorkerReturns(q, t) \/ WorkerSignals(q, t)
      PROVE  /\ UNCHANGED <<loop, finished, outcome, state, p, targets, used, mstate,
                   routeEngine, routeTargets, portTargets, httpRunning, drop, joining, next, snap>>
             /\ \E w \in {"signalling", "exited"} : worker' = [worker EXCEPT ![q][t] = w]
             /\ worker[q][t] # "none"
  BY <1>6 DEF WorkerReturns, WorkerSignals
<1>7. ASSUME NEW q \in Pingers, NEW t \in Targets, WorkerReturns(q, t) \/ WorkerSignals(q, t)
      PROVE  \A r \in Pingers, u \in Targets :
               /\ worker'[r][u] = "none" <=> worker[r][u] = "none"
               /\ worker'[r][u] = "active" => worker[r][u] = "active"
  <2>1. PICK w \in {"signalling", "exited"} : worker' = [worker EXCEPT ![q][t] = w]
    BY <1>6, <1>7
  <2>2. worker[q][t] # "none"
    BY <1>6, <1>7
  <2>3. worker'[q][t] = w
    BY <2>1
  <2>4. \A r \in Pingers, u \in Targets : r # q \/ u # t => worker'[r][u] = worker[r][u]
    BY <2>1
  <2> QED BY <2>2, <2>3, <2>4
<1>8. ASSUME NEW q \in Pingers,
             ObserverTakesEvent(q) \/ ObserverSends(q) \/ ObserverExits(q)
      PROVE  /\ UNCHANGED <<outcome, state, p, targets, used, mstate, routeEngine,
                   routeTargets, portTargets, httpRunning, drop, joining, next, snap>>
             /\ UNCHANGED <<loop, finished, worker>>
  BY <1>8 DEF ObserverTakesEvent, ObserverSends, ObserverExits
<1>9. CASE \E q \in Pingers : PingerStep(q)
  BY <1>6, <1>7, <1>8, <1>9 DEF PingerStep, WorkerFinishes, WorkerCancelled
<1> QED
  BY <1>1, <1>2, <1>3, <1>5, <1>9 DEF Next

LEMMA OthersMember ==
  ASSUME Typed, Owned, Member, [Next]_vars, ~ LoopStep
  PROVE  Member'
<1>1. Listed'
  BY OthersRest DEF Member, Listed, Editing
<1>2. state = "running" => p \in Pingers
  BY DEF Typed, TypeOK, LoopOK, Pingers, Owned, PingerOwned
<1>3. state = "running" => Registered(p)' = Registered(p)
  BY <1>2, OthersRest DEF Registered
<1>4. /\ Settled' = Settled /\ Editing' = Editing /\ state' = state /\ targets' = targets
      /\ Goal' = Goal /\ Attached' = Attached /\ drop' = drop /\ joining' = joining
  BY OthersRest DEF Settled, Editing, Goal, Attached
<1>5. \A list : MonitorsAre(list) => MonitorsAre(list)'
  BY OthersRest DEF MonitorsAre
<1>6. Followed'
  BY <1>3, <1>4, <1>5 DEF Member, Followed
<1>7. Truthful'
  BY <1>2, OthersRest DEF Member, Truthful, Typed, TypeOK, LoopOK
<1>8. SnapshotIsFresh'
  BY OthersRest DEF Member, SnapshotIsFresh, Measurement
<1> QED BY <1>1, <1>6, <1>7, <1>8 DEF Member

\* Commands that change no list and reach no pinger.
LEMMA QuickMember ==
  ASSUME Typed, Owned, Member,
         HandleProbesFinished \/ HandleStart \/ StartFails \/ Publish
           \/ HandleResetStats \/ HandleResetRoute \/ HandleResetPort \/ HandleResetHTTP
  PROVE  Member'
<1> USE DEF Typed, TypeOK, LoopOK
<1>1. /\ UNCHANGED <<state, p, targets, used, edit, worker>>
      /\ ~ Editing /\ ~ Editing'
  BY DEF HandleProbesFinished, HandleStart, StartFails, Publish, HandleResetStats,
         HandleResetRoute, HandleResetPort, HandleResetHTTP, ResetDone, Received,
         Finish, Editing, pingers
<1>2. Listed'
  <2>1. \A t \in Targets \ targets : mstate'[t] = mstate[t]
    BY DEF HandleProbesFinished, HandleStart, StartFails, Publish, HandleResetStats,
         HandleResetRoute, HandleResetPort, HandleResetHTTP, ResetDone
  <2>2. loop # "join" /\ joining' = joining
    BY <1>1 DEF Editing, edit
  <2> QED BY <1>1, <2>1, <2>2 DEF Member, Listed
<1>3. SnapshotIsFresh'
  <2>1. CASE Publish
    BY <2>1 DEF Publish, SnapshotIsFresh, Measurement
  <2>2. CASE ~ Publish
    BY <2>2 DEF HandleProbesFinished, HandleStart, StartFails, HandleResetStats,
         HandleResetRoute, HandleResetPort, HandleResetHTTP, ResetDone, Finish, SnapshotIsFresh
  <2> QED BY <2>1, <2>2
<1>4. Followed'
  <2> SUFFICES ASSUME state = "running"
               PROVE  Settled' => Registered(p)' = targets /\ MonitorsAre(targets)'
    BY <1>1 DEF Followed
  <2>1. Settled
    BY <1>1 DEF Editing, Settled, Owned, PingerOwned, HandleProbesFinished, HandleStart,
         StartFails, Publish, HandleResetStats, HandleResetRoute, HandleResetPort,
         HandleResetHTTP, Received
  <2>2. Registered(p)' = targets
    BY <1>1, <2>1 DEF Member, Followed, Registered
  <2>3. MonitorsAre(targets)
    BY <2>1 DEF Member, Followed
  <2>4. MonitorsAre(targets)'
    BY <1>1, <2>3 DEF HandleProbesFinished, HandleStart, StartFails, Publish, HandleResetStats,
         HandleResetRoute, HandleResetPort, HandleResetHTTP, RestartRoute, RestartPort,
         RestartHTTP, MonitorsAre, monitors
  <2> QED BY <2>2, <2>4
<1>5. Truthful'
  <2>1. CASE HandleProbesFinished
    <3>1. CASE CurrentReport(Head(cmds).pinger)
      BY <1>1, <3>1 DEF CurrentReport, Truthful, Active
    <3>2. CASE ~ CurrentReport(Head(cmds).pinger)
      BY <1>1, <2>1, <3>2 DEF HandleProbesFinished, Member, Truthful
    <3> QED BY <3>1, <3>2
  <2>2. CASE ~ HandleProbesFinished
    <3>1. mstate' = mstate /\ (finished' = finished \/ finished' = FALSE)
      BY <2>2 DEF HandleStart, StartFails, Publish, HandleResetStats,
         HandleResetRoute, HandleResetPort, HandleResetHTTP, ResetDone
    <3>2. CASE finished' = finished
      BY <1>1, <3>1, <3>2 DEF Member, Truthful
    <3>3. CASE finished' = FALSE
      BY <1>1, <3>1, <3>3 DEF Member, Truthful
    <3> QED BY <3>1, <3>2, <3>3
  <2> QED BY <2>1, <2>2
<1> QED BY <1>2, <1>3, <1>4, <1>5 DEF Member

\* Commands that start or end the measurement.
LEMMA TurnMember ==
  ASSUME Typed, Owned, Member,
         HandleStop \/ HandleRestart \/ HandleTerminate \/ TornDown \/ StartSucceeds
  PROVE  Member'
<1> USE DEF Typed, TypeOK, LoopOK
<1>1. /\ UNCHANGED <<targets, used, edit, snap>>
      /\ ~ Editing /\ ~ Editing'
      /\ loop' \notin {"select", "exited"}
  BY DEF HandleStop, HandleRestart, HandleTerminate, TornDown, StartSucceeds, TearDown,
         Received, Finish, Editing
<1>2. Listed'
  <2>1. \A t \in Targets \ targets : mstate'[t] = mstate[t]
    BY DEF HandleStop, HandleRestart, HandleTerminate, TornDown, StartSucceeds, TearDown,
           TerminatedStates
  <2>2. loop # "join" /\ joining' = joining
    BY <1>1 DEF Editing, edit
  <2> QED BY <1>1, <2>1, <2>2 DEF Member, Listed
<1>3. SnapshotIsFresh'
  BY <1>1 DEF SnapshotIsFresh
<1>4. Followed' /\ Truthful'
  <2>1. CASE StartSucceeds
    <3>1. /\ p' \in Pingers /\ state' = "running" /\ loop' = "publish"
          /\ worker'[p'] = [t \in Targets |-> IF t \in targets THEN "active" ELSE "none"]
          /\ targets' = targets
      BY <2>1, StartTyped DEF StartSucceeds, Finish, PingersOK, Pingers
    <3>2. Registered(p)' = targets
      BY <3>1 DEF Registered
    <3>3. MonitorsAre(targets)'
      BY <2>1 DEF StartSucceeds, MonitorsAre
    <3>4. finished' = FALSE /\ \A t \in targets : mstate'[t] # "finished"
      BY <2>1 DEF StartSucceeds
    <3> QED BY <1>1, <3>1, <3>2, <3>3, <3>4 DEF Followed, Truthful
  <2>2. CASE state' # "running"
    BY <2>2 DEF Followed, Truthful
  <2>3. CASE loop' = "teardown"
    <3>1. Followed'
      BY <2>3 DEF Followed, Settled, Editing
    <3>2. UNCHANGED <<state, p, mstate, worker, finished>>
      BY <2>3 DEF HandleStop, HandleRestart, HandleTerminate, TornDown, StartSucceeds,
         TearDown, Finish
    <3> QED BY <1>1, <3>1, <3>2 DEF Member, Truthful
  <2> QED
    BY <2>1, <2>2, <2>3 DEF HandleStop, HandleRestart, HandleTerminate, TornDown,
       TearDown, Finish
<1> QED BY <1>2, <1>3, <1>4 DEF Member

\* A target joins only as a new object: an edit never brings one back.
LEMMA EditsAreFresh ==
  ASSUME Typed, Edits
  PROVE  \/ EditRefused
         \/ \E list \in SUBSET Targets : list \intersect used \subseteq targets /\ EditTo(list)
<1> USE DEF Typed, TypeOK, LoopOK
<1>1. CASE HandleAddHost
  <2> DEFINE longer == {targets \union S : S \in Fresh(MaxExpand) \ {{}}}
  <2>1. \A list \in longer : list \in SUBSET Targets /\ list \intersect used \subseteq targets
    BY DEF Fresh
  <2>2. HandleEdit("addHost", longer)
    BY <1>1 DEF HandleAddHost
  <2> HIDE DEF longer
  <2> QED BY <2>1, <2>2 DEF HandleEdit
<1>2. CASE HandleDeleteTarget
  <2> DEFINE shorter == {targets \ {t} : t \in IF Cardinality(targets) > 1
                                                THEN targets ELSE {}}
  <2>1. \A list \in shorter : list \in SUBSET Targets /\ list \intersect used \subseteq targets
    OBVIOUS
  <2>2. HandleEdit("deleteTarget", shorter)
    BY <1>2 DEF HandleDeleteTarget
  <2> HIDE DEF shorter
  <2> QED BY <2>1, <2>2 DEF HandleEdit
<1>3. CASE HandleReload
  <2> DEFINE reloaded == {kept \union S : kept \in SUBSET targets,
                                          S \in Fresh(MaxExpand)} \ {{}}
  <2>1. \A list \in reloaded : list \in SUBSET Targets /\ list \intersect used \subseteq targets
    BY DEF Fresh
  <2>2. HandleEdit("reload", reloaded)
    BY <1>3 DEF HandleReload
  <2> HIDE DEF reloaded
  <2> QED BY <2>1, <2>2 DEF HandleEdit
<1> QED BY <1>1, <1>2, <1>3 DEF Edits

\* An edit begins: what it launches, it attaches when it succeeds and removes
\* when it does not.
LEMMA EditMember ==
  ASSUME Typed, Owned, Member, Edits
  PROVE  Member'
<1> USE DEF Typed, TypeOK, LoopOK, PingersOK
<1>1. /\ loop = "select"
      /\ UNCHANGED <<state, p, targets, mstate, monitors, finished, snap>>
  BY EditCases
<1>2. SnapshotIsFresh'
  <2>1. loop' \in {"publish", "edit"}
    BY EditCases DEF EditRefused, Finish, EditTo
  <2> QED BY <2>1 DEF SnapshotIsFresh
<1>3. CASE EditRefused
  <2>1. loop' = "publish" /\ UNCHANGED <<used, drop, joining, next, worker>>
    BY <1>3 DEF EditRefused, Finish, edit, pingers
  <2>2. Listed'
    BY <1>1, <2>1 DEF Member, Listed, Editing
  <2>3. Followed'
    BY <1>1, <2>1 DEF Member, Followed, Settled, Editing, Registered, MonitorsAre, monitors
  <2>4. Truthful'
    BY <1>1, <2>1 DEF Member, Truthful
  <2> QED BY <1>2, <2>2, <2>3, <2>4 DEF Member
<1>4. ASSUME NEW list \in SUBSET Targets, list \intersect used \subseteq targets, EditTo(list)
      PROVE  Member'
  <2>1. /\ used' = used \union list /\ loop' = "edit" /\ next' = list /\ joining' = joining
        /\ joining = {}
    BY <1>1, <1>4 DEF EditTo, Member, Listed
  <2>2. Listed'
    <3>1. \A t \in list \ targets : mstate[t] # "finished"
      BY <1>4 DEF Member, Listed
    <3>2. targets' \subseteq used'
      BY <1>1, <2>1 DEF Member, Listed
    <3>3. \A t \in Targets \ used' : mstate'[t] # "finished"
      BY <1>1, <2>1 DEF Member, Listed
    <3> QED BY <1>1, <2>1, <3>1, <3>2, <3>3 DEF Listed, Editing
  <2>3. CASE state # "running"
    BY <1>1, <1>2, <2>2, <2>3 DEF Followed, Truthful, Member
  <2>4. CASE state = "running"
    <3> DEFINE added == list \ targets
    <3>1. p \in Pingers
      BY <2>4 DEF Owned, PingerOwned, Pingers
    <3>2. PICK launched \in SUBSET added :
            /\ worker' = [worker EXCEPT ![p] =
                  [t \in Targets |-> IF t \in launched THEN "active" ELSE @[t]]]
            /\ drop' = ToDetach(added, launched, list)
            /\ outcome' = IF launched = added THEN "ok" ELSE "err"
      BY <1>4, <2>1, <2>4 DEF EditTo, Register
    <3>3. Registered(p) = targets /\ MonitorsAre(targets)
      BY <1>1, <2>4 DEF Member, Followed, Settled
    <3>4. \A t \in Targets : worker'[p][t] = IF t \in launched THEN "active" ELSE worker[p][t]
      BY <3>1, <3>2
    <3>5. Registered(p)' = targets \union launched
      BY <1>1, <3>1, <3>3, <3>4 DEF Registered
    <3>6. Goal' = (IF launched = added THEN list ELSE targets)
      BY <1>1, <2>1, <3>2 DEF Goal
    <3>7. drop' = (IF launched = added THEN targets \ list ELSE launched)
      BY <3>2 DEF ToDetach
    <3>8. /\ Registered(p)' = Goal' \union drop' \union joining'
          /\ drop' \intersect Goal' = {} /\ joining' = {}
      BY <2>1, <3>5, <3>6, <3>7
    <3>9. Attached' = targets
      BY <1>1, <3>6, <3>7 DEF Attached
    <3>10. MonitorsAre(Attached)'
      BY <1>1, <3>3, <3>9 DEF MonitorsAre, monitors
    <3>11. Followed'
      BY <2>1, <3>8, <3>10 DEF Followed, Settled
    <3>12. Truthful'
      BY <1>1, <2>4, <3>4 DEF Member, Truthful
    <3> QED BY <1>2, <2>2, <3>11, <3>12 DEF Member
  <2> QED BY <2>3, <2>4
<1> QED BY <1>3, <1>4, EditsAreFresh

\* The monitors let go of a target before its worker is removed.
LEMMA RemovalMember ==
  ASSUME Typed, Owned, Member, NEW t \in Targets, DetachTarget(t) \/ TargetRemoved(t)
  PROVE  Member'
<1> USE DEF Typed, TypeOK, LoopOK, PingersOK
<1>1. /\ UNCHANGED <<outcome, state, p, targets, used, mstate, routeEngine, httpRunning,
                     next, finished, snap>>
      /\ Editing /\ Editing' /\ ~ Settled /\ ~ Settled'
  BY DEF DetachTarget, TargetRemoved, Editing, Settled, monitors
<1>2. SnapshotIsFresh'
  BY <1>1 DEF SnapshotIsFresh, Editing
<1>3. Goal' = Goal
  BY <1>1 DEF Goal
<1>4. state = "running" => p \in Pingers
  BY DEF Owned, PingerOwned, Pingers
<1>5. CASE DetachTarget(t)
  <2>1. /\ joining = {} /\ t \in drop /\ joining' = {t} /\ drop' = drop \ {t}
        /\ worker' = worker /\ loop' = "join"
        /\ routeTargets' = routeTargets \ {t} /\ portTargets' = portTargets \ {t}
    BY <1>5 DEF DetachTarget, pingers, Member, Listed
  <2>2. Listed' /\ Truthful'
    BY <1>1, <2>1 DEF Member, Listed, Truthful
  <2>3. state = "running" => Attached' = Attached \ {t}
    BY <1>1, <1>3, <2>1 DEF Attached, Member, Followed
  <2>4. Followed'
    BY <1>1, <1>3, <2>1, <2>3 DEF Member, Followed, Registered, MonitorsAre
  <2> QED BY <1>2, <2>2, <2>4 DEF Member
<1>6. CASE TargetRemoved(t)
  <2>1. /\ joining = {t} /\ joining' = {} /\ drop' = drop /\ loop' = "edit"
        /\ worker' = [worker EXCEPT ![p][t] = "none"]
        /\ UNCHANGED <<routeTargets, portTargets>>
    BY <1>6 DEF TargetRemoved, monitors
  <2>2. Listed'
    BY <1>1, <2>1 DEF Member, Listed
  <2>3. state = "running" => /\ worker'[p][t] = "none"
                             /\ \A u \in Targets \ {t} : worker'[p][u] = worker[p][u]
    BY <1>4, <2>1
  <2>4. Truthful'
    BY <1>1, <2>3 DEF Member, Truthful
  <2>5. state = "running" => Registered(p)' = Registered(p) \ {t}
    BY <1>1, <2>3 DEF Registered
  <2>6. Attached' = Attached
    BY <1>1, <1>3, <2>1 DEF Attached
  <2>7. Followed'
    BY <1>1, <1>3, <2>1, <2>5, <2>6 DEF Member, Followed, MonitorsAre
  <2> QED BY <1>2, <2>2, <2>4, <2>7 DEF Member
<1> QED BY <1>5, <1>6

\* The list is replaced when the workers are those of the new one.
LEMMA CommitMember ==
  ASSUME Typed, Owned, Member, EditCommits
  PROVE  Member'
<1> USE DEF Typed, TypeOK, LoopOK, PingersOK
<1> DEFINE added == Goal \ targets
<1>1. /\ loop = "edit" /\ loop' = "publish" /\ drop = {} /\ targets' = Goal
      /\ UNCHANGED <<state, p, used, worker, routeEngine, httpRunning, joining>>
      /\ finished' = (finished /\ added = {})
      /\ \A t \in Targets : mstate'[t] = mstate[t] \/ mstate'[t] = "stopped"
  BY DEF EditCommits, Goal, pingers
<1>2. joining = {}
  BY <1>1 DEF Member, Listed
<1>3. Listed'
  <2>1. Goal \subseteq used
    BY <1>1 DEF Member, Listed, Goal, Editing
  <2> QED BY <1>1, <1>2, <2>1 DEF Member, Listed, Editing
<1>4. SnapshotIsFresh'
  BY <1>1 DEF SnapshotIsFresh
<1>5. CASE state # "running"
  BY <1>1, <1>3, <1>4, <1>5 DEF Followed, Truthful, Member
<1>6. CASE state = "running"
  <2>1. Registered(p) = Goal /\ MonitorsAre(targets \intersect Goal) /\ p # 0
    BY <1>1, <1>2, <1>6 DEF Member, Followed, Editing, Attached, Owned, PingerOwned
  <2>2. Registered(p)' = Goal
    BY <1>1, <2>1 DEF Registered
  <2>3. /\ mstate' = mstate
        /\ routeTargets' = IF routeEngine # 0
                           THEN routeTargets \union added ELSE routeTargets
        /\ portTargets' = IF PortEnabled
                          THEN portTargets \union added ELSE portTargets
    BY <1>6 DEF EditCommits, Goal
  <2>4. (targets \intersect Goal) \union added = Goal
    OBVIOUS
  <2>5. /\ RouteEnabled => routeEngine' = p' /\ routeTargets' = Goal
        /\ PortEnabled => portTargets' = Goal
        /\ httpRunning' = HTTPEnabled
    BY <1>1, <2>1, <2>3, <2>4 DEF MonitorsAre
  <2>6. MonitorsAre(targets)'
    BY <1>1, <2>5 DEF MonitorsAre
  <2>7. Followed'
    BY <1>1, <2>2, <2>6 DEF Followed, Editing
  <2>8. \A t \in added : mstate[t] # "finished"
    BY <1>1 DEF Member, Listed, Editing, Goal
  <2>9. Truthful'
    <3>1. CASE added = {}
      <4>1. finished' = finished
        BY <1>1, <3>1
      <4> QED BY <1>1, <1>6, <2>3, <3>1, <4>1 DEF Member, Truthful
    <3>2. CASE added # {}
      <4>1. finished' = FALSE
        BY <1>1, <3>2
      <4> QED BY <1>1, <1>6, <2>3, <2>8, <4>1 DEF Member, Truthful
    <3> QED BY <3>1, <3>2
  <2> QED BY <1>3, <1>4, <2>7, <2>9 DEF Member
<1> QED BY <1>5, <1>6

LEMMA MemberInvariance == Spec => []Member
<1>1. Typed /\ Owned /\ Member /\ [Next]_vars => Member'
  <2> SUFFICES ASSUME Typed, Owned, Member, [Next]_vars
               PROVE  Member'
    OBVIOUS
  <2>1. CASE LoopStep
    BY <2>1, QuickMember, TurnMember, EditMember, RemovalMember, CommitMember
    DEF LoopStep, Edits
  <2> QED BY <2>1, OthersMember
<1> QED BY InitMember, <1>1, Invariance, PTL DEF Spec

\* add, delete, reload, rollback, resets and restarts: whenever no handler is
\* halfway, workers and monitors are those of the listed targets.
THEOREM MembershipFollows == Spec => []MonitorsFollowTargets
<1>1. Member => MonitorsFollowTargets
  BY DEF Member, Followed, MonitorsAre, MonitorsFollowTargets
<1> QED BY <1>1, MemberInvariance, PTL

\* A report of the count observer that waited in the command channel never
\* marks work finished that began, or joined, after it.
THEOREM TruthfulFinish == Spec => []FinishedIsTruthful
<1>1. Typed /\ Member => FinishedIsTruthful
  <2> SUFFICES ASSUME Typed, Member, Settled, state = "running"
               PROVE  /\ \A t \in targets : mstate[t] = "finished" => t \notin Active(p)
                      /\ finished => Active(p) = {}
                      /\ Measurement = "finished" => Active(p) = {}
    BY DEF FinishedIsTruthful
  <2>1. Active(p) \subseteq targets
    BY DEF Member, Followed, Registered, Active
  <2>2. \A t \in targets : mstate[t] = "finished" \/ finished => t \notin Active(p)
    BY DEF Member, Truthful, Active
  <2>3. Measurement = "finished" => \A t \in targets : mstate[t] = "finished"
    BY DEF Measurement
  <2> QED BY <2>1, <2>2, <2>3
<1> QED BY <1>1, MemberInvariance, Invariance, PTL

\* publish comes before the reply and covers every handler: an idle loop shows
\* its present targets and state.
THEOREM FreshSnapshot == Spec => []SnapshotIsFresh
<1>1. Member => SnapshotIsFresh
  BY DEF Member
<1> QED BY <1>1, MemberInvariance, PTL

=============================================================================
