---------------------------- MODULE ReloadProofs ----------------------------
(***************************************************************************)
(* Theorems of Reload, for every number of saves and browser edits.        *)
(***************************************************************************)
EXTENDS Reload, FiniteSetTheorems, TLAPS

USE ReloadAssumption

(***************************************************************************)
(* The inductive invariant.                                                *)
(***************************************************************************)

\* A hosts file is as old as another, or the same.
NotNewer(a, b) == a.rev <= b.rev /\ (a.rev = b.rev => a = b)

\* The hosts files that were read, oldest last: what is on disk, what onChange
\* parsed, and what waits, is measured or was built from. Every restart is for a
\* newer one, so there are no more iterations than saves.
Ordered ==
  /\ disk.hosts.rev <= saves + 1 /\ disk.include <= saves + 1
  /\ NotNewer(doc.hosts, disk.hosts)
  /\ NotNewer(cfg.hosts, doc.hosts) /\ NotNewer(sup.doc.hosts, doc.hosts)
  /\ sup.alive => cfg.hosts.rev <= sup.doc.hosts.rev
  /\ \A d \in pending : NotNewer(d.hosts, doc.hosts) /\ cfg.hosts.rev < d.hosts.rev
  /\ watch \in {"queueing", "firing"} => cfg.hosts.rev < doc.hosts.rev
  /\ iter <= cfg.hosts.rev
  /\ announced <= saves + 1

Between == {"resolving", "starting", "deciding", "ended", "failed"}

\* What the main goroutine has started and ended: between two iterations there is
\* neither watcher nor supervisor nor duration watch.
Owned ==
  /\ main \in Between => watch \in {"off", "stopped"}
  /\ main \notin Between => tryLive = iter
  /\ sup.alive <=> main \in {"ui", "returned", "marked", "captured", "terminating"}
  /\ armed => main \in {"ui", "returned", "marked", "captured"}
  /\ web = "running" => main \in {"ui", "returned"}
  /\ watch = "firing" => pending = {doc}
  /\ main \notin Between /\ sig => pending # {} \/ elapsed

\* What passed validation.
Validated ==
  /\ OnlyAcceptable
  /\ watch \in {"trying", "queueing", "firing"} => Acceptable(doc)

\* A request under way is one of the edits that were made.
Requested ==
  /\ sup.edits <= edits /\ (request # 0 => sup.edits < edits)
  /\ request <= iter

\* A watched file's directory is watched, and its last save was read, is the one
\* it was watched with, or has left an event or a running timer.
Noticed ==
  /\ watch = "starting" => watched = {}
  /\ watch \notin {"off", "starting", "stopped"} =>
       \A f \in watched :
         /\ Directory(f) \in dirs
         /\ timer \/ f \in events \/ Rev(disk, f) \in {base[f], Rev(doc, f)}

IInv == TypeOK /\ Ordered /\ Owned /\ Validated /\ Requested /\ Noticed

LEMMA StartupTyped == StartupDoc \in Documents /\ Acceptable(StartupDoc)
<1>1. 0 \in Revisions /\ 1 \in Revisions
  BY DEF Revisions
<1> QED BY <1>1 DEF StartupDoc, Documents, HostsFiles, Acceptable

LEMMA InitIInv == Init => IInv
<1> SUFFICES ASSUME Init PROVE IInv
  OBVIOUS
<1>1. FilesOK
  BY StartupTyped DEF Init, FilesOK
<1>2. WatchOK
  <2>1. base \in [Files -> Revisions]
    BY DEF Init, Revisions
  <2>2. watch \in WatchStates /\ watched \subseteq Files /\ dirs \subseteq Files
        /\ events \subseteq Files /\ doc \in Documents
    BY StartupTyped DEF Init, WatchStates
  <2>3. {timer, cancelled} \subseteq BOOLEAN
    BY DEF Init
  <2> QED BY <2>1, <2>2, <2>3 DEF WatchOK
<1>3. CoordinatorOK
  <2>1. Cardinality({}) = 0
    BY FS_EmptySet
  <2>2. pending \subseteq Documents /\ Cardinality(pending) <= 1
    BY <2>1 DEF Init
  <2>3. tryLive \in Iterations /\ announced \in Revisions
    BY DEF Init, Iterations, Revisions
  <2>4. sig \in BOOLEAN
    BY DEF Init
  <2> QED BY <2>2, <2>3, <2>4 DEF CoordinatorOK
<1>4. SessionOK
  <2>1. sup \in [alive : BOOLEAN, doc : Documents, edits : 0..MaxEdits]
    BY StartupTyped DEF Init
  <2>2. main \in MainStates /\ iter \in Iterations /\ cfg \in Documents /\ captured \in 0..MaxEdits
    BY StartupTyped DEF Init, MainStates, Iterations
  <2>3. {uiErr, elapsed, armed} \subseteq BOOLEAN
    BY DEF Init
  <2> QED BY <2>1, <2>2, <2>3 DEF SessionOK
<1>5. WebOK
  BY DEF Init, WebOK, WebStates, Iterations
<1>6. Ordered
  <2>1. StartupDoc.hosts.rev = 1 /\ StartupDoc.include = 0
    BY DEF StartupDoc
  <2>2. /\ disk = StartupDoc /\ doc = StartupDoc /\ cfg = StartupDoc /\ sup.doc = StartupDoc
        /\ saves = 0 /\ iter = 1 /\ announced = 0 /\ pending = {} /\ watch = "off"
    BY DEF Init
  <2>3. NotNewer(StartupDoc.hosts, StartupDoc.hosts)
    BY <2>1 DEF NotNewer
  <2>4. ~sup.alive
    BY DEF Init
  <2> QED BY <2>1, <2>2, <2>3, <2>4 DEF Ordered
<1>7. Owned
  BY DEF Init, Owned, Between
<1>8. Validated
  BY StartupTyped DEF Init, Validated, OnlyAcceptable
<1>9. Requested /\ Noticed
  BY DEF Init, Requested, Noticed
<1> QED BY <1>1, <1>2, <1>3, <1>4, <1>5, <1>6, <1>7, <1>8, <1>9 DEF IInv, TypeOK

(***************************************************************************)
(* The documents.                                                          *)
(***************************************************************************)

\* The revisions of the documents there are.
LEMMA DocumentTypes ==
  ASSUME TypeOK
  PROVE  /\ disk \in Documents /\ doc \in Documents /\ cfg \in Documents
         /\ sup.doc \in Documents /\ sup.alive \in BOOLEAN /\ sup.edits \in 0..MaxEdits
         /\ \A d \in pending : d \in Documents
         /\ \A d \in Documents : d.hosts \in HostsFiles /\ d.hosts.rev \in 0..(MaxSaves + 1)
                                 /\ d.include \in 0..(MaxSaves + 1)
         /\ iter \in 0..(MaxSaves + 1) /\ saves \in 0..MaxSaves
         /\ announced \in 0..(MaxSaves + 1)
<1>1. disk \in Documents /\ doc \in Documents /\ cfg \in Documents
      /\ (\A d \in pending : d \in Documents)
      /\ sup \in [alive : BOOLEAN, doc : Documents, edits : 0..MaxEdits]
  BY DEF TypeOK, FilesOK, WatchOK, CoordinatorOK, SessionOK
<1>2. \A d \in Documents : d.hosts \in HostsFiles /\ d.hosts.rev \in 0..(MaxSaves + 1)
                           /\ d.include \in 0..(MaxSaves + 1)
  BY DEF Documents, HostsFiles, Revisions
<1>3. iter \in 0..(MaxSaves + 1) /\ saves \in 0..MaxSaves /\ announced \in 0..(MaxSaves + 1)
  BY DEF TypeOK, FilesOK, CoordinatorOK, SessionOK, Iterations, Revisions
<1> QED BY <1>1, <1>2, <1>3

LEMMA NotNewerTransitive ==
  ASSUME NEW a \in HostsFiles, NEW b \in HostsFiles, NEW c \in HostsFiles,
         NotNewer(a, b), NotNewer(b, c)
  PROVE  NotNewer(a, c)
<1>1. a.rev \in Int /\ b.rev \in Int /\ c.rev \in Int
  BY DEF HostsFiles, Revisions
<1> QED BY <1>1 DEF NotNewer

\* Steps that concern neither the documents nor the queue of reloads.
Sidelong ==
  \/ WatcherStarts \/ WatcherReceives \/ WatcherStops \/ WatcherFails
  \/ TryLiveFails \/ SignalFired \/ WatcherRefreshes
  \/ Reresolves \/ StartFails \/ UIReturns \/ MarksReloading \/ CapturesTargets
  \/ StopsDurationWatch \/ JoinsWatcher \/ Exits
  \/ DeadlinePasses \/ DurationWatchFires \/ RequestChecked
  \/ UNCHANGED vars

LEMMA StepCases ==
  ASSUME [Next]_vars
  PROVE  \/ SaveHosts \/ SaveInclude \/ DebounceFires \/ AppliedLive \/ NeedsRestart
         \/ RestartQueued \/ StartsIteration \/ Reenters \/ Terminates \/ RequestApplied
         \/ Sidelong
BY DEF Next, WatcherStep, MainStep, OnChange, Over, Sidelong

LEMMA SidelongKeeps ==
  ASSUME Sidelong
  PROVE  /\ UNCHANGED <<disk, saves, sameDir, doc, cfg, sup, pending, iter, announced, tryLive>>
         /\ watch' \in {"trying", "queueing", "firing"} => watch' = watch
<1>1. CASE WatcherStarts \/ WatcherReceives \/ WatcherStops \/ WatcherFails
  BY <1>1 DEF WatcherStarts, WatcherReceives, WatcherStops, WatcherFails, fileVars, rcVars,
     sessionVars
<1>2. CASE TryLiveFails \/ SignalFired \/ WatcherRefreshes
  BY <1>2 DEF TryLiveFails, SignalFired, WatcherRefreshes, fileVars, rcVars, sessionVars
<1>3. CASE \/ Reresolves \/ StartFails \/ UIReturns \/ MarksReloading \/ CapturesTargets
           \/ StopsDurationWatch \/ JoinsWatcher \/ Exits
  BY <1>3 DEF Reresolves, StartFails, UIReturns, MarksReloading, CapturesTargets,
     StopsDurationWatch, JoinsWatcher, Exits, fileVars, watchVars, rcVars
<1>4. CASE DeadlinePasses \/ DurationWatchFires \/ RequestChecked \/ UNCHANGED vars
  BY <1>4 DEF DeadlinePasses, DurationWatchFires, RequestChecked, vars, fileVars, watchVars,
     rcVars, sessionVars
<1> QED BY <1>1, <1>2, <1>3, <1>4 DEF Sidelong

LEMMA OrderedStep ==
  ASSUME IInv, [Next]_vars
  PROVE  Ordered'
<1> USE DEF IInv
<1>1. /\ disk.hosts \in HostsFiles /\ doc.hosts \in HostsFiles /\ cfg.hosts \in HostsFiles
      /\ sup.doc.hosts \in HostsFiles /\ \A d \in pending : d.hosts \in HostsFiles
  BY DocumentTypes
<1>2. /\ \A h \in HostsFiles : h.rev \in Nat
      /\ saves \in Nat /\ disk.include \in Nat /\ iter \in Nat /\ announced \in Nat
  BY DocumentTypes DEF HostsFiles, Revisions
<1>3. sup = [alive |-> sup.alive, doc |-> sup.doc, edits |-> sup.edits]
  BY DEF TypeOK, SessionOK
<1>4. disk = [hosts |-> disk.hosts, include |-> disk.include]
  BY DEF TypeOK, FilesOK, Documents
<1>5. CASE SaveHosts
  <2>1. /\ disk'.hosts.rev = saves + 2 /\ disk'.include = disk.include /\ saves' = saves + 1
        /\ UNCHANGED <<doc, cfg, sup, pending, iter, announced, watch>>
    BY <1>4, <1>5 DEF SaveHosts, Saved, rcVars, sessionVars
  <2>2. doc.hosts.rev < disk'.hosts.rev
    BY <1>1, <1>2, <2>1 DEF Ordered, NotNewer
  <2>3. NotNewer(doc.hosts, disk.hosts)' /\ disk'.hosts.rev <= saves' + 1
        /\ disk'.include <= saves' + 1 /\ announced' <= saves' + 1
    BY <1>1, <1>2, <2>1, <2>2 DEF Ordered, NotNewer
  <2> QED BY <2>1, <2>3 DEF Ordered, NotNewer
<1>6. CASE SaveInclude
  <2>1. /\ disk'.hosts = disk.hosts /\ disk'.include = saves + 2 /\ saves' = saves + 1
        /\ UNCHANGED <<doc, cfg, sup, pending, iter, announced, watch>>
    BY <1>4, <1>6 DEF SaveInclude, Saved, rcVars, sessionVars
  <2>3. NotNewer(doc.hosts, disk.hosts)' /\ disk'.hosts.rev <= saves' + 1
        /\ disk'.include <= saves' + 1 /\ announced' <= saves' + 1
    BY <1>1, <1>2, <2>1 DEF Ordered, NotNewer
  <2> QED BY <2>1, <2>3 DEF Ordered, NotNewer
<1>7. CASE DebounceFires
  <2>1. /\ doc' = disk /\ watch' \in {"trying", "refreshing"}
        /\ UNCHANGED <<disk, saves, cfg, sup, pending, iter, announced>>
    BY <1>7 DEF DebounceFires, fileVars, rcVars, sessionVars
  <2>2. \A h \in HostsFiles : NotNewer(h, doc.hosts) => NotNewer(h, disk.hosts)
    BY <1>1, NotNewerTransitive DEF Ordered
  <2>3. NotNewer(disk.hosts, disk.hosts)
    BY <1>1, <1>2 DEF NotNewer
  <2>4. NotNewer(cfg.hosts, disk.hosts) /\ NotNewer(sup.doc.hosts, disk.hosts)
        /\ \A d \in pending : NotNewer(d.hosts, disk.hosts)
    BY <1>1, <2>2 DEF Ordered
  <2> QED BY <2>1, <2>3, <2>4 DEF Ordered, NotNewer
<1>8. CASE AppliedLive
  <2>1. /\ sup'.doc = doc /\ sup'.alive = sup.alive /\ announced' = doc.hosts.rev
        /\ watch' = "refreshing"
        /\ UNCHANGED <<disk, saves, doc, cfg, pending, iter>>
    BY <1>3, <1>8 DEF AppliedLive, fileVars
  <2>2. NotNewer(doc.hosts, doc.hosts) /\ cfg.hosts.rev <= doc.hosts.rev
        /\ doc.hosts.rev <= saves + 1
    BY <1>1, <1>2 DEF Ordered, NotNewer
  <2> QED BY <2>1, <2>2 DEF Ordered, NotNewer
<1>9. CASE NeedsRestart
  <2>1. /\ sup.alive /\ doc.hosts # sup.doc.hosts
        /\ UNCHANGED <<disk, saves, doc, cfg, sup, pending, iter, announced>>
    BY <1>9 DEF NeedsRestart, Answers, fileVars, rcVars, sessionVars
  <2>2. cfg.hosts.rev < doc.hosts.rev
    BY <1>1, <1>2, <2>1 DEF Ordered, NotNewer
  <2> QED BY <2>1, <2>2 DEF Ordered, NotNewer
<1>10. CASE RestartQueued
  <2>1. /\ watch = "queueing" /\ pending' = {doc} /\ watch' = "firing"
        /\ UNCHANGED <<disk, saves, doc, cfg, sup, iter, announced>>
    BY <1>10 DEF RestartQueued, fileVars, sessionVars
  <2>2. NotNewer(doc.hosts, doc.hosts)
    BY <1>1, <1>2 DEF NotNewer
  <2> QED BY <2>1, <2>2 DEF Ordered, NotNewer
<1>11. CASE StartsIteration
  <2>1. /\ sup'.doc = cfg /\ watch' = "starting"
        /\ UNCHANGED <<disk, saves, doc, cfg, pending, iter, announced>>
    BY <1>11 DEF StartsIteration, fileVars
  <2> QED BY <1>1, <1>2, <2>1 DEF Ordered, NotNewer
<1>12. CASE Reenters
  <2>1. /\ cfg' \in pending /\ pending' = {} /\ iter' = iter + 1 /\ main = "deciding"
        /\ UNCHANGED <<disk, saves, doc, sup, announced, watch>>
    BY <1>12 DEF Reenters, fileVars, watchVars
  <2>2. ~sup.alive /\ watch \in {"off", "stopped"}
    BY <2>1 DEF Owned, Between
  <2>3. NotNewer(cfg'.hosts, doc.hosts) /\ cfg.hosts.rev < cfg'.hosts.rev
    BY <2>1 DEF Ordered
  <2>4. iter + 1 <= cfg'.hosts.rev
    BY <1>1, <1>2, <2>1, <2>3 DEF Ordered
  <2> QED BY <2>1, <2>2, <2>3, <2>4 DEF Ordered, NotNewer
<1>13. CASE Terminates \/ RequestApplied
  <2>1. /\ sup'.doc = sup.doc /\ (sup'.alive => sup.alive)
        /\ UNCHANGED <<disk, saves, doc, cfg, pending, iter, announced, watch>>
    BY <1>3, <1>13 DEF Terminates, RequestApplied, KeepWatch, fileVars, rcVars, watchVars
  <2> QED BY <2>1 DEF Ordered, NotNewer
<1>14. CASE Sidelong
  BY <1>14, SidelongKeeps DEF Ordered, NotNewer
<1> QED BY <1>5, <1>6, <1>7, <1>8, <1>9, <1>10, <1>11, <1>12, <1>13, <1>14, StepCases

(***************************************************************************)
(* Types.                                                                  *)
(***************************************************************************)

LEMMA FilesStep ==
  ASSUME TypeOK, [Next]_vars
  PROVE  FilesOK'
<1>1. /\ sameDir \in BOOLEAN /\ disk \in Documents /\ saves \in 0..MaxSaves
      /\ disk = [hosts |-> disk.hosts, include |-> disk.include]
      /\ disk.hosts \in HostsFiles /\ disk.include \in Revisions
  BY DEF TypeOK, FilesOK, Documents
<1>2. CASE SaveHosts
  <2>1. PICK probe \in 0..1, names \in BOOLEAN, valid \in BOOLEAN :
             disk' = [disk EXCEPT !.hosts = [rev |-> saves + 2, probe |-> probe,
                                             names |-> names, valid |-> valid]]
    BY <1>2 DEF SaveHosts
  <2>2. saves < MaxSaves /\ saves' = saves + 1 /\ sameDir' = sameDir
    BY <1>2 DEF SaveHosts, Saved
  <2>3. saves + 2 \in Revisions /\ saves' \in 0..MaxSaves
    BY <1>1, <2>2 DEF Revisions
  <2>4. disk' = [hosts |-> [rev |-> saves + 2, probe |-> probe, names |-> names,
                            valid |-> valid], include |-> disk.include]
    BY <1>1, <2>1
  <2>5. [rev |-> saves + 2, probe |-> probe, names |-> names, valid |-> valid] \in HostsFiles
    BY <2>1, <2>3 DEF HostsFiles
  <2>6. disk' \in Documents
    BY <1>1, <2>4, <2>5 DEF Documents
  <2> QED BY <1>1, <2>2, <2>3, <2>6 DEF FilesOK
<1>3. CASE SaveInclude
  <2>1. /\ saves < MaxSaves /\ saves' = saves + 1 /\ sameDir' = sameDir
        /\ disk' = [disk EXCEPT !.include = saves + 2]
    BY <1>3 DEF SaveInclude, Saved
  <2>2. saves + 2 \in Revisions /\ saves' \in 0..MaxSaves
    BY <1>1, <2>1 DEF Revisions
  <2>3. disk' = [hosts |-> disk.hosts, include |-> saves + 2]
    BY <1>1, <2>1
  <2>4. disk' \in Documents
    BY <1>1, <2>2, <2>3 DEF Documents
  <2> QED BY <1>1, <2>1, <2>2, <2>4 DEF FilesOK
<1>4. CASE UNCHANGED fileVars
  BY <1>1, <1>4 DEF FilesOK, fileVars
<1>5. CASE DebounceFires \/ AppliedLive \/ NeedsRestart \/ RestartQueued
           \/ StartsIteration \/ Reenters \/ Terminates \/ RequestApplied
  BY <1>4, <1>5 DEF DebounceFires, AppliedLive, NeedsRestart, RestartQueued, StartsIteration,
     Reenters, Terminates, RequestApplied
<1>6. CASE Sidelong
  <2>1. UNCHANGED fileVars
    BY <1>6, SidelongKeeps DEF fileVars
  <2> QED BY <1>4, <2>1
<1> QED BY <1>2, <1>3, <1>5, <1>6, StepCases

\* What a refresh watches: the directory of every watched path, and the files it
\* adds from the revision they have now, unless an event for them is on its way.
LEMMA RefreshFacts ==
  ASSUME TypeOK, NEW skip, Refresh(skip)
  PROVE  /\ watched' \subseteq Files /\ dirs' \subseteq Files /\ base' \in [Files -> Revisions]
         /\ \A f \in watched' : Directory(f) \in dirs'
         /\ \A f \in watched' : f \in watched => base'[f] = base[f]
         /\ \A f \in watched' : f \notin watched => f \in events \/ base'[f] = Rev(disk, f)
<1> DEFINE paths == {f \in WatchPaths(disk) : Directory(f) \in dirs \/ f \notin skip}
<1>1. /\ dirs' = dirs \union {Directory(f) : f \in paths} /\ watched' = paths
      /\ base' = [f \in Files |-> IF f \in paths \ watched /\ f \notin events
                                    THEN Rev(disk, f) ELSE base[f]]
  BY DEF Refresh
<1>2. paths \subseteq Files
  BY DEF WatchPaths, Files
<1>3. \A f \in Files : Directory(f) \in Files
  BY DEF Directory, Files
<1>4. \A f \in Files : Rev(disk, f) \in Revisions
  BY DEF TypeOK, FilesOK, Documents, HostsFiles, Rev
<1>5. dirs \subseteq Files /\ base \in [Files -> Revisions]
  BY DEF TypeOK, WatchOK
<1> HIDE DEF paths
<1>6. base' \in [Files -> Revisions]
  BY <1>1, <1>4, <1>5
<1> QED BY <1>1, <1>2, <1>3, <1>5, <1>6

LEMMA WatchStep ==
  ASSUME TypeOK, [Next]_vars
  PROVE  WatchOK'
<1>1. /\ watch \in WatchStates /\ watched \subseteq Files /\ dirs \subseteq Files
      /\ events \subseteq Files /\ timer \in BOOLEAN /\ cancelled \in BOOLEAN
      /\ base \in [Files -> Revisions] /\ doc \in Documents
  BY DEF TypeOK, WatchOK
<1>2. disk \in Documents
  BY DEF TypeOK, FilesOK
<1>3. CASE SaveHosts \/ SaveInclude
  <2>1. /\ UNCHANGED <<watch, watched, dirs, timer, cancelled, base, doc>>
        /\ events' \in {events, events \union {"hosts"}, events \union {"include"}}
    BY <1>3 DEF SaveHosts, SaveInclude, Saved
  <2>2. events' \subseteq Files
    BY <1>1, <2>1 DEF Files
  <2>3. {timer', cancelled'} \subseteq BOOLEAN
    BY <1>1, <2>1
  <2> QED BY <1>1, <2>1, <2>2, <2>3 DEF WatchOK
<1>4. CASE DebounceFires
  <2>1. /\ UNCHANGED <<watched, dirs, events, cancelled, base>> /\ doc' = disk /\ timer' = FALSE
        /\ watch' \in {"trying", "refreshing"}
    BY <1>4 DEF DebounceFires
  <2>2. {timer', cancelled'} \subseteq BOOLEAN
    BY <1>1, <2>1
  <2> QED BY <1>1, <1>2, <2>1, <2>2 DEF WatchOK, WatchStates
<1>5. CASE WatcherStarts \/ WatcherRefreshes
  <2>1. UNCHANGED <<events, timer, cancelled, doc>> /\ watch' \in {"waiting", "stopped"}
    BY <1>5 DEF WatcherStarts, WatcherRefreshes
  <2>2. UNCHANGED <<dirs, watched, base>> \/ \E skip : Refresh(skip)
    BY <1>5 DEF WatcherStarts, WatcherRefreshes
  <2>3. watched' \subseteq Files /\ dirs' \subseteq Files /\ base' \in [Files -> Revisions]
    BY <1>1, <2>2, RefreshFacts
  <2>4. {timer', cancelled'} \subseteq BOOLEAN
    BY <1>1, <2>1
  <2> QED BY <1>1, <2>1, <2>3, <2>4 DEF WatchOK, WatchStates
<1>6. CASE WatcherReceives
  <2>1. /\ UNCHANGED <<watch, watched, dirs, cancelled, base, doc>> /\ events' \subseteq events
        /\ \E f \in events : timer' = (timer \/ f \in watched)
    BY <1>6 DEF WatcherReceives
  <2>2. {timer', cancelled'} \subseteq BOOLEAN
    BY <1>1, <2>1
  <2> QED BY <1>1, <2>1, <2>2 DEF WatchOK
<1>7. CASE WatcherFails \/ WatcherStops
  <2>1. /\ UNCHANGED <<watched, cancelled, base, doc>> /\ watch' = "stopped"
        /\ timer' = FALSE /\ events' = {} /\ dirs' = {}
    BY <1>7 DEF WatcherFails, WatcherStops
  <2>2. {timer', cancelled'} \subseteq BOOLEAN
    BY <1>1, <2>1
  <2> QED BY <1>1, <2>1, <2>2 DEF WatchOK, WatchStates
<1>8. CASE AppliedLive \/ TryLiveFails \/ NeedsRestart \/ RestartQueued \/ SignalFired
  <2>1. /\ UNCHANGED <<watched, dirs, events, timer, cancelled, base, doc>>
        /\ watch' \in {"refreshing", "queueing", "firing"}
    BY <1>8 DEF AppliedLive, TryLiveFails, NeedsRestart, RestartQueued, SignalFired
  <2> QED BY <1>1, <2>1 DEF WatchOK, WatchStates
<1>9. CASE StartsIteration
  <2>1. /\ UNCHANGED <<dirs, events, timer, base, doc>> /\ watch' = "starting"
        /\ watched' = {} /\ cancelled' = FALSE
    BY <1>9 DEF StartsIteration
  <2>2. {timer', cancelled'} \subseteq BOOLEAN
    BY <1>1, <2>1
  <2> QED BY <1>1, <2>1, <2>2 DEF WatchOK, WatchStates
<1>10. CASE Terminates
  <2>1. UNCHANGED <<watch, watched, dirs, events, timer, base, doc>> /\ cancelled' = TRUE
    BY <1>10 DEF Terminates, KeepWatch
  <2>2. {timer', cancelled'} \subseteq BOOLEAN
    BY <1>1, <2>1
  <2> QED BY <1>1, <2>1, <2>2 DEF WatchOK
<1>11. CASE UNCHANGED watchVars
  BY <1>1, <1>11 DEF WatchOK, watchVars
<1>12. CASE \/ Reresolves \/ StartFails \/ UIReturns \/ MarksReloading \/ CapturesTargets
            \/ StopsDurationWatch \/ JoinsWatcher \/ Exits \/ Reenters
  BY <1>11, <1>12 DEF Reresolves, StartFails, UIReturns, MarksReloading, CapturesTargets,
     StopsDurationWatch, JoinsWatcher, Exits, Reenters
<1>13. CASE DeadlinePasses \/ DurationWatchFires \/ RequestChecked \/ RequestApplied
            \/ UNCHANGED vars
  BY <1>11, <1>13 DEF DeadlinePasses, DurationWatchFires, RequestChecked, RequestApplied, vars
<1> QED BY <1>3, <1>4, <1>5, <1>6, <1>7, <1>8, <1>9, <1>10, <1>12, <1>13, StepCases
        DEF Sidelong

LEMMA CoordinatorStep ==
  ASSUME TypeOK, [Next]_vars
  PROVE  CoordinatorOK'
<1>1. /\ pending \subseteq Documents /\ Cardinality(pending) <= 1 /\ sig \in BOOLEAN
      /\ tryLive \in Iterations /\ announced \in Revisions /\ doc \in Documents
      /\ iter \in Iterations
  BY DEF TypeOK, CoordinatorOK, WatchOK, SessionOK
<1>2. doc.hosts.rev \in Revisions
  BY <1>1 DEF Documents, HostsFiles
<1>3. Cardinality({}) = 0 /\ Cardinality({doc}) = 1
  BY FS_EmptySet, FS_Singleton
<1>4. CASE UNCHANGED rcVars
  BY <1>1, <1>4 DEF CoordinatorOK, rcVars
<1>5. CASE AppliedLive
  <2>1. UNCHANGED <<pending, sig, tryLive>> /\ announced' = doc.hosts.rev
    BY <1>5 DEF AppliedLive
  <2> QED BY <1>1, <1>2, <2>1 DEF CoordinatorOK
<1>6. CASE RestartQueued
  <2>1. UNCHANGED <<sig, tryLive, announced>> /\ pending' = {doc}
    BY <1>6 DEF RestartQueued
  <2> QED BY <1>1, <1>3, <2>1 DEF CoordinatorOK
<1>7. CASE Reenters
  <2>1. UNCHANGED <<sig, tryLive, announced>> /\ pending' = {}
    BY <1>7 DEF Reenters
  <2> QED BY <1>1, <1>3, <2>1 DEF CoordinatorOK
<1>8. CASE StartsIteration
  <2>1. UNCHANGED <<pending, announced>> /\ sig' = FALSE /\ tryLive' = iter
    BY <1>8 DEF StartsIteration
  <2> QED BY <1>1, <2>1 DEF CoordinatorOK
<1>9. CASE SignalFired \/ DurationWatchFires
  <2>1. UNCHANGED <<pending, tryLive, announced>> /\ sig' = TRUE
    BY <1>9 DEF SignalFired, DurationWatchFires
  <2> QED BY <1>1, <2>1 DEF CoordinatorOK
<1>10. CASE SaveHosts \/ SaveInclude \/ DebounceFires \/ NeedsRestart \/ Terminates
  BY <1>4, <1>10 DEF SaveHosts, SaveInclude, Saved, DebounceFires, NeedsRestart, Terminates
<1>11. CASE \/ WatcherStarts \/ WatcherReceives \/ WatcherStops \/ WatcherFails
            \/ TryLiveFails \/ WatcherRefreshes
  BY <1>4, <1>11 DEF WatcherStarts, WatcherReceives, WatcherStops, WatcherFails,
     TryLiveFails, WatcherRefreshes
<1>12. CASE \/ Reresolves \/ StartFails \/ UIReturns \/ MarksReloading \/ CapturesTargets
            \/ StopsDurationWatch \/ JoinsWatcher \/ Exits
  BY <1>4, <1>12 DEF Reresolves, StartFails, UIReturns, MarksReloading, CapturesTargets,
     StopsDurationWatch, JoinsWatcher, Exits
<1>13. CASE DeadlinePasses \/ RequestChecked \/ RequestApplied \/ UNCHANGED vars
  BY <1>4, <1>13 DEF DeadlinePasses, RequestChecked, RequestApplied, vars
<1> QED BY <1>5, <1>6, <1>7, <1>8, <1>9, <1>10, <1>11, <1>12, <1>13, StepCases DEF Sidelong

LEMMA SessionStep ==
  ASSUME IInv, Ordered', [Next]_vars
  PROVE  SessionOK'
<1>1. /\ main \in MainStates /\ iter \in Iterations /\ cfg \in Documents
      /\ uiErr \in BOOLEAN /\ elapsed \in BOOLEAN /\ armed \in BOOLEAN
      /\ sup = [alive |-> sup.alive, doc |-> sup.doc, edits |-> sup.edits]
      /\ sup.alive \in BOOLEAN /\ sup.doc \in Documents /\ sup.edits \in 0..MaxEdits
      /\ captured \in 0..MaxEdits /\ doc \in Documents /\ edits \in 0..MaxEdits
      /\ pending \subseteq Documents
  BY DEF IInv, TypeOK, SessionOK, WatchOK, WebOK, CoordinatorOK
<1>2. CASE UNCHANGED sessionVars
  BY <1>1, <1>2 DEF SessionOK, sessionVars
<1>3. CASE AppliedLive
  <2>1. /\ UNCHANGED <<main, iter, cfg, uiErr, captured, elapsed, armed>>
        /\ sup' = [alive |-> sup.alive, doc |-> doc, edits |-> sup.edits]
    BY <1>1, <1>3 DEF AppliedLive
  <2>2. {uiErr', elapsed', armed'} \subseteq BOOLEAN
    BY <1>1, <2>1
  <2> QED BY <1>1, <2>1, <2>2 DEF SessionOK
<1>4. CASE StartsIteration
  <2>1. /\ UNCHANGED <<iter, cfg, uiErr, captured, elapsed>> /\ main' = "ui"
        /\ armed' = DurationLimit
        /\ sup' = [alive |-> TRUE, doc |-> cfg, edits |-> 0]
    BY <1>4 DEF StartsIteration
  <2>2. {uiErr', elapsed', armed'} \subseteq BOOLEAN
    BY <1>1, <2>1
  <2>3. 0 \in 0..MaxEdits
    OBVIOUS
  <2> QED BY <1>1, <2>1, <2>2, <2>3 DEF SessionOK, MainStates
<1>5. CASE Terminates
  <2>1. /\ UNCHANGED <<iter, cfg, uiErr, captured, elapsed, armed>> /\ main' = "joining"
        /\ sup' = [alive |-> FALSE, doc |-> sup.doc, edits |-> sup.edits]
    BY <1>1, <1>5 DEF Terminates
  <2>2. {uiErr', elapsed', armed'} \subseteq BOOLEAN
    BY <1>1, <2>1
  <2> QED BY <1>1, <2>1, <2>2 DEF SessionOK, MainStates
<1>6. CASE RequestApplied
  <2>1. request # 0 /\ UNCHANGED <<main, iter, cfg, uiErr, captured, elapsed, armed>>
    BY <1>6 DEF RequestApplied
  <2>2. sup.edits + 1 \in 0..MaxEdits
    BY <1>1, <2>1 DEF IInv, Requested
  <2>3. sup' = sup \/ sup' = [alive |-> sup.alive, doc |-> sup.doc, edits |-> sup.edits + 1]
    BY <1>1, <1>6 DEF RequestApplied
  <2>4. {uiErr', elapsed', armed'} \subseteq BOOLEAN
    BY <1>1, <2>1
  <2>5. sup' \in [alive : BOOLEAN, doc : Documents, edits : 0..MaxEdits]
    BY <1>1, <2>2, <2>3
  <2> QED BY <1>1, <2>1, <2>4, <2>5 DEF SessionOK
<1>7. CASE Reenters
  <2>1. /\ UNCHANGED <<uiErr, sup, captured, elapsed, armed>> /\ main' = "resolving"
        /\ cfg' \in pending /\ iter' = iter + 1
    BY <1>7 DEF Reenters
  <2>2. cfg' \in Documents
    BY <1>1, <2>1
  <2>3. cfg'.hosts.rev \in 0..(MaxSaves + 1)
    BY <2>2 DEF Documents, HostsFiles, Revisions
  <2>4. iter' \in Iterations
    <3>1. iter + 1 <= cfg'.hosts.rev
      BY <2>1 DEF Ordered
    <3> QED BY <1>1, <2>1, <2>3, <3>1 DEF Iterations
  <2>5. {uiErr', elapsed', armed'} \subseteq BOOLEAN
    BY <1>1, <2>1
  <2> QED BY <1>1, <2>1, <2>2, <2>4, <2>5 DEF SessionOK, MainStates
<1>8. CASE CapturesTargets
  <2>1. UNCHANGED <<iter, cfg, uiErr, sup, elapsed, armed>> /\ main' = "captured"
        /\ captured' = sup.edits
    BY <1>8 DEF CapturesTargets
  <2>2. {uiErr', elapsed', armed'} \subseteq BOOLEAN
    BY <1>1, <2>1
  <2> QED BY <1>1, <2>1, <2>2 DEF SessionOK, MainStates
<1>9. CASE \/ Reresolves \/ StartFails \/ UIReturns \/ MarksReloading \/ StopsDurationWatch
           \/ JoinsWatcher \/ Exits
  <2>1. UNCHANGED <<iter, cfg, sup, captured, elapsed>>
    BY <1>9 DEF Reresolves, StartFails, UIReturns, MarksReloading, StopsDurationWatch,
       JoinsWatcher, Exits
  <2>2. main' \in MainStates
    BY <1>9 DEF Reresolves, StartFails, UIReturns, MarksReloading, StopsDurationWatch,
       JoinsWatcher, Exits, MainStates
  <2>3. uiErr' \in BOOLEAN
    BY <1>1, <1>9 DEF Reresolves, StartFails, UIReturns, MarksReloading, StopsDurationWatch,
       JoinsWatcher, Exits
  <2>4. armed' \in BOOLEAN
    BY <1>1, <1>9 DEF Reresolves, StartFails, UIReturns, MarksReloading, StopsDurationWatch,
       JoinsWatcher, Exits
  <2>5. {uiErr', elapsed', armed'} \subseteq BOOLEAN
    BY <1>1, <2>1, <2>3, <2>4
  <2> QED BY <1>1, <2>1, <2>2, <2>5 DEF SessionOK
<1>10. CASE DeadlinePasses \/ DurationWatchFires
  <2>1. /\ UNCHANGED <<main, iter, cfg, uiErr, sup, captured>>
    BY <1>10 DEF DeadlinePasses, DurationWatchFires
  <2>2. elapsed' \in BOOLEAN /\ armed' \in BOOLEAN
    BY <1>1, <1>10 DEF DeadlinePasses, DurationWatchFires
  <2>3. {uiErr', elapsed', armed'} \subseteq BOOLEAN
    BY <1>1, <2>1, <2>2
  <2> QED BY <1>1, <2>1, <2>3 DEF SessionOK
<1>11. CASE SaveHosts \/ SaveInclude \/ DebounceFires \/ NeedsRestart \/ RestartQueued
  BY <1>2, <1>11 DEF SaveHosts, SaveInclude, Saved, DebounceFires, NeedsRestart, RestartQueued
<1>12. CASE \/ WatcherStarts \/ WatcherReceives \/ WatcherStops \/ WatcherFails
            \/ TryLiveFails \/ SignalFired \/ WatcherRefreshes
  BY <1>2, <1>12 DEF WatcherStarts, WatcherReceives, WatcherStops, WatcherFails,
     TryLiveFails, SignalFired, WatcherRefreshes
<1>13. CASE RequestChecked \/ UNCHANGED vars
  BY <1>2, <1>13 DEF RequestChecked, vars
<1> QED BY <1>3, <1>4, <1>5, <1>6, <1>7, <1>8, <1>9, <1>10, <1>11, <1>12, <1>13, StepCases
        DEF Sidelong

\* What a browser request in flight may still do to the supervisor.
LEMMA RequestedStep ==
  ASSUME IInv, [Next]_vars
  PROVE  Requested' /\ WebOK'
<1>1. /\ web \in WebStates /\ request \in Iterations /\ edits \in 0..MaxEdits
      /\ iter \in Iterations /\ sup.edits \in 0..MaxEdits
      /\ sup = [alive |-> sup.alive, doc |-> sup.doc, edits |-> sup.edits]
  BY DEF IInv, TypeOK, SessionOK, WebOK
<1>2. edits \in Nat /\ iter \in Nat /\ request \in Nat /\ sup.edits \in Nat
  BY <1>1 DEF Iterations
<1>3. sup.edits <= edits /\ (request # 0 => sup.edits < edits) /\ request <= iter
  BY DEF IInv, Requested
<1>4. CASE UNCHANGED <<request, edits>>
           /\ iter' \in {iter, iter + 1} /\ sup'.edits \in {sup.edits, 0} /\ web' \in WebStates
  BY <1>1, <1>2, <1>3, <1>4 DEF Requested, WebOK
<1>5. CASE RequestChecked
  <2>1. /\ request = 0 /\ request' = iter /\ edits' = edits + 1 /\ edits < MaxEdits
        /\ UNCHANGED <<web, sup, iter>>
    BY <1>5 DEF RequestChecked, sessionVars
  <2> QED BY <1>1, <1>2, <1>3, <2>1 DEF Requested, WebOK
<1>6. CASE RequestApplied
  <2>1. request # 0 /\ request' = 0 /\ UNCHANGED <<iter, web, edits>>
    BY <1>6 DEF RequestApplied
  <2>2. sup'.edits = sup.edits \/ sup'.edits = sup.edits + 1
    BY <1>1, <1>6 DEF RequestApplied
  <2>3. 0 \in Iterations
    BY DEF Iterations
  <2> QED BY <1>1, <1>2, <1>3, <2>1, <2>2, <2>3 DEF Requested, WebOK
<1>7. CASE \/ SaveHosts \/ SaveInclude \/ DebounceFires \/ AppliedLive \/ NeedsRestart
           \/ RestartQueued
  <2>1. UNCHANGED <<request, edits, web, iter>> /\ sup'.edits = sup.edits
    BY <1>1, <1>7 DEF SaveHosts, SaveInclude, Saved, DebounceFires, AppliedLive, NeedsRestart,
       RestartQueued, sessionVars, webVars
  <2> QED BY <1>1, <1>4, <2>1
<1>8. CASE StartsIteration \/ Reenters \/ Terminates
  <2>1. UNCHANGED <<request, edits>> /\ iter' \in {iter, iter + 1}
    BY <1>8 DEF StartsIteration, Reenters, Terminates, webVars
  <2>2. web' \in WebStates
    BY <1>1, <1>8 DEF StartsIteration, Reenters, Terminates, webVars, WebStates
  <2>3. sup'.edits \in {sup.edits, 0}
    BY <1>1, <1>8 DEF StartsIteration, Reenters, Terminates
  <2> QED BY <1>4, <2>1, <2>2, <2>3
<1>9. CASE \/ WatcherStarts \/ WatcherReceives \/ WatcherStops \/ WatcherFails
           \/ TryLiveFails \/ SignalFired \/ WatcherRefreshes
  <2>1. UNCHANGED <<request, edits, web, iter, sup>>
    BY <1>9 DEF WatcherStarts, WatcherReceives, WatcherStops, WatcherFails,
       TryLiveFails, SignalFired, WatcherRefreshes, sessionVars, webVars
  <2> QED BY <1>1, <1>4, <2>1
<1>10. CASE \/ Reresolves \/ StartFails \/ UIReturns \/ MarksReloading \/ CapturesTargets
            \/ StopsDurationWatch \/ JoinsWatcher \/ Exits
  <2>1. UNCHANGED <<request, edits, iter, sup>>
    BY <1>10 DEF Reresolves, StartFails, UIReturns, MarksReloading, CapturesTargets,
       StopsDurationWatch, JoinsWatcher, Exits, webVars
  <2>2. web' \in WebStates
    BY <1>1, <1>10 DEF Reresolves, StartFails, UIReturns, MarksReloading, CapturesTargets,
       StopsDurationWatch, JoinsWatcher, Exits, webVars, WebStates
  <2> QED BY <1>1, <1>4, <2>1, <2>2
<1>11. CASE DeadlinePasses \/ DurationWatchFires \/ UNCHANGED vars
  <2>1. UNCHANGED <<request, edits, web, iter, sup>>
    BY <1>11 DEF DeadlinePasses, DurationWatchFires, vars, sessionVars, webVars
  <2> QED BY <1>1, <1>4, <2>1
<1> QED BY <1>5, <1>6, <1>7, <1>8, <1>9, <1>10, <1>11, StepCases DEF Sidelong

(***************************************************************************)
(* Ownership, validation, and what the watcher notices.                    *)
(***************************************************************************)

LEMMA OwnedStep ==
  ASSUME IInv, [Next]_vars
  PROVE  Owned'
<1>1. Owned /\ main \in MainStates /\ watch \in WatchStates
      /\ sup = [alive |-> sup.alive, doc |-> sup.doc, edits |-> sup.edits]
      /\ sup.alive \in BOOLEAN
  BY DEF IInv, TypeOK, SessionOK, WatchOK
<1> USE DEF Owned, Between
<1>2. CASE /\ UNCHANGED <<main, sup, iter, tryLive, armed, web, pending, elapsed, sig>>
           /\ watch' = "firing" => watch = "firing" /\ doc' = doc
           /\ watch' \in {"off", "stopped"} \/ watch \notin {"off", "stopped"}
  BY <1>1, <1>2
<1>3. CASE SaveHosts \/ SaveInclude \/ DebounceFires \/ NeedsRestart \/ RequestChecked
           \/ UNCHANGED vars
  <2>1. UNCHANGED <<main, sup, iter, tryLive, armed, web, pending, elapsed, sig>>
    BY <1>3 DEF SaveHosts, SaveInclude, Saved, DebounceFires, NeedsRestart, RequestChecked,
       vars, rcVars, sessionVars, webVars
  <2>2. \/ UNCHANGED <<watch, doc>>
        \/ watch \in {"waiting", "trying"} /\ watch' \in {"trying", "refreshing", "queueing"}
    BY <1>3 DEF SaveHosts, SaveInclude, Saved, DebounceFires, NeedsRestart, RequestChecked,
       vars, watchVars
  <2> QED BY <1>2, <2>1, <2>2
<1>4. CASE \/ WatcherStarts \/ WatcherReceives \/ WatcherStops \/ WatcherFails
           \/ TryLiveFails \/ WatcherRefreshes
  <2>1. UNCHANGED <<main, sup, iter, tryLive, armed, web, pending, elapsed, sig>>
    BY <1>4 DEF WatcherStarts, WatcherReceives, WatcherStops, WatcherFails,
       TryLiveFails, WatcherRefreshes, rcVars, sessionVars, webVars
  <2>2. /\ watch \in {"starting", "waiting", "trying", "refreshing"}
        /\ watch' \in {"waiting", "stopped", "refreshing"}
    BY <1>4 DEF WatcherStarts, WatcherReceives, WatcherStops, WatcherFails,
       TryLiveFails, WatcherRefreshes
  <2> QED BY <1>2, <2>1, <2>2
<1>5. CASE AppliedLive
  <2>1. /\ UNCHANGED <<main, iter, tryLive, armed, web, pending, elapsed, sig>>
        /\ watch = "trying" /\ watch' = "refreshing" /\ sup'.alive = sup.alive
    BY <1>1, <1>5 DEF AppliedLive, webVars
  <2> QED BY <1>1, <2>1
<1>6. CASE RestartQueued
  <2>1. /\ UNCHANGED <<main, sup, iter, tryLive, armed, web, elapsed, sig, doc>>
        /\ watch = "queueing" /\ watch' = "firing" /\ pending' = {doc}
    BY <1>6 DEF RestartQueued, sessionVars, webVars
  <2> QED BY <1>1, <2>1
<1>7. CASE SignalFired
  <2>1. /\ UNCHANGED <<main, sup, iter, tryLive, armed, web, elapsed, pending, doc>>
        /\ watch = "firing" /\ watch' = "refreshing"
    BY <1>7 DEF SignalFired, sessionVars, webVars
  <2> QED BY <1>1, <2>1
<1>8. CASE StartsIteration
  <2>1. /\ UNCHANGED <<iter, pending, elapsed>> /\ main = "starting" /\ main' = "ui"
        /\ sup'.alive = TRUE /\ sig' = FALSE /\ tryLive' = iter /\ watch' = "starting"
    BY <1>8 DEF StartsIteration
  <2> QED BY <1>1, <2>1
<1>9. CASE Reenters
  <2>1. /\ UNCHANGED <<watch, sup, armed>> /\ main = "deciding" /\ main' = "resolving"
        /\ web' = "reloading"
    BY <1>9 DEF Reenters, watchVars
  <2> QED BY <1>1, <2>1
<1>10. CASE Terminates
  <2>1. /\ UNCHANGED <<watch, doc, iter, tryLive, armed, web, pending, elapsed, sig>>
        /\ main = "terminating" /\ main' = "joining" /\ sup'.alive = FALSE
    BY <1>1, <1>10 DEF Terminates, KeepWatch, rcVars, webVars
  <2> QED BY <1>1, <2>1
<1>11. CASE RequestApplied
  <2>1. /\ UNCHANGED <<main, watch, doc, iter, tryLive, armed, web, pending, elapsed, sig>>
        /\ sup'.alive = sup.alive
    BY <1>1, <1>11 DEF RequestApplied, rcVars, watchVars
  <2> QED BY <1>1, <2>1
<1>12. CASE JoinsWatcher
  <2>1. /\ UNCHANGED <<watch, doc, sup, iter, tryLive, armed, web, pending, elapsed, sig>>
        /\ main = "joining" /\ watch = "stopped" /\ main' \in {"failed", "deciding"}
    BY <1>12 DEF JoinsWatcher, watchVars, rcVars, webVars
  <2> QED BY <1>1, <2>1
<1>13. CASE Reresolves \/ StartFails \/ Exits
  <2>1. /\ UNCHANGED <<watch, sup, armed>> /\ main \in {"resolving", "starting", "deciding"}
        /\ main' \in {"starting", "failed", "ended"} /\ web' \in {web, "stopped"}
    BY <1>13 DEF Reresolves, StartFails, Exits, watchVars, webVars
  <2>2. watch' \in {"off", "stopped"} /\ ~sup'.alive /\ ~armed' /\ web' # "running"
    BY <1>1, <2>1
  <2> QED BY <2>1, <2>2
<1>14. CASE UIReturns \/ MarksReloading \/ CapturesTargets
  <2>1. /\ UNCHANGED <<watch, doc, sup, iter, tryLive, armed, pending, elapsed, sig>>
    BY <1>14 DEF UIReturns, MarksReloading, CapturesTargets, watchVars, rcVars
  <2>2. \/ main = "ui" /\ main' = "returned" /\ web' = web
        \/ main = "returned" /\ main' = "marked" /\ web' = "reloading"
        \/ main = "marked" /\ main' = "captured" /\ web' = web
    BY <1>14 DEF UIReturns, MarksReloading, CapturesTargets, webVars
  <2> QED BY <1>1, <2>1, <2>2
<1>15. CASE StopsDurationWatch
  <2>1. /\ UNCHANGED <<watch, doc, sup, iter, tryLive, pending, elapsed, sig>>
        /\ main = "captured" /\ main' = "terminating" /\ armed' = FALSE
        /\ web' \in {web, "stopped"}
    BY <1>15 DEF StopsDurationWatch, watchVars, rcVars
  <2> QED BY <1>1, <2>1
<1>16. CASE DeadlinePasses
  <2>1. /\ UNCHANGED <<main, watch, doc, sup, iter, tryLive, armed, web, pending, sig>>
        /\ elapsed' = TRUE
    BY <1>16 DEF DeadlinePasses, watchVars, rcVars, webVars
  <2> QED BY <1>1, <2>1
<1>17. CASE DurationWatchFires
  <2>1. /\ UNCHANGED <<main, watch, doc, sup, iter, tryLive, web, pending, elapsed>>
        /\ elapsed /\ armed' = FALSE
    BY <1>17 DEF DurationWatchFires, watchVars, webVars
  <2> QED BY <1>1, <2>1
<1> QED BY <1>3, <1>4, <1>5, <1>6, <1>7, <1>8, <1>9, <1>10, <1>11, <1>12, <1>13, <1>14, <1>15,
        <1>16, <1>17, StepCases DEF Sidelong

LEMMA ValidatedStep ==
  ASSUME IInv, [Next]_vars
  PROVE  Validated'
<1>1. Validated /\ watch \in WatchStates
      /\ sup = [alive |-> sup.alive, doc |-> sup.doc, edits |-> sup.edits]
  BY DEF IInv, TypeOK, SessionOK, WatchOK
<1> USE DEF Validated, OnlyAcceptable
<1>2. CASE SaveHosts \/ SaveInclude
  <2>1. UNCHANGED <<cfg, sup, pending, doc, watch>>
    BY <1>2 DEF SaveHosts, SaveInclude, Saved, rcVars, sessionVars
  <2> QED BY <1>1, <2>1
<1>3. CASE DebounceFires
  <2>1. UNCHANGED <<cfg, sup, pending>> /\ doc' = disk
        /\ ((watch' = "trying" /\ Acceptable(disk)) \/ watch' = "refreshing")
    BY <1>3 DEF DebounceFires, rcVars, sessionVars
  <2> QED BY <1>1, <2>1
<1>4. CASE AppliedLive
  <2>1. /\ UNCHANGED <<cfg, pending, doc>> /\ sup'.doc = doc /\ watch = "trying"
        /\ watch' = "refreshing"
    BY <1>1, <1>4 DEF AppliedLive
  <2> QED BY <1>1, <2>1
<1>5. CASE NeedsRestart
  <2>1. UNCHANGED <<cfg, sup, pending, doc>> /\ watch = "trying"
    BY <1>5 DEF NeedsRestart, rcVars, sessionVars
  <2> QED BY <1>1, <2>1
<1>6. CASE RestartQueued
  <2>1. UNCHANGED <<cfg, sup, doc>> /\ pending' = {doc} /\ watch = "queueing"
    BY <1>6 DEF RestartQueued, sessionVars
  <2> QED BY <1>1, <2>1
<1>7. CASE StartsIteration
  <2>1. UNCHANGED <<cfg, pending, doc>> /\ sup'.doc = cfg /\ watch' = "starting"
    BY <1>7 DEF StartsIteration
  <2> QED BY <1>1, <2>1
<1>8. CASE Reenters
  <2>1. UNCHANGED <<sup, doc, watch>> /\ cfg' \in pending /\ pending' = {}
    BY <1>8 DEF Reenters, watchVars
  <2> QED BY <1>1, <2>1
<1>9. CASE Terminates \/ RequestApplied
  <2>1. UNCHANGED <<cfg, pending, doc, watch>> /\ sup'.doc = sup.doc
    BY <1>1, <1>9 DEF Terminates, RequestApplied, KeepWatch, rcVars, watchVars
  <2> QED BY <1>1, <2>1
<1>10. CASE Sidelong
  BY <1>1, <1>10, SidelongKeeps
<1> QED BY <1>2, <1>3, <1>4, <1>5, <1>6, <1>7, <1>8, <1>9, <1>10, StepCases

LEMMA NoticedStep ==
  ASSUME IInv, [Next]_vars
  PROVE  Noticed'
<1> DEFINE Live == watch \notin {"off", "starting", "stopped"}
<1>1. /\ Noticed /\ TypeOK /\ watch \in WatchStates /\ watched \subseteq Files
      /\ disk = [hosts |-> disk.hosts, include |-> disk.include]
      /\ timer \in BOOLEAN
  BY DEF IInv, TypeOK, FilesOK, WatchOK, Documents
<1>2. CASE /\ watch' # "starting" \/ watch = "starting"
           /\ Live' => Live
           /\ UNCHANGED <<sameDir, disk, watched, dirs, timer, events, base, doc>>
  BY <1>1, <1>2 DEF Noticed, Rev, Directory
<1>3. ASSUME NEW f \in Files, Saved(f), \A g \in Files \ {f} : Rev(disk', g) = Rev(disk, g)
      PROVE  Noticed'
  <2>1. /\ UNCHANGED <<sameDir, watch, watched, dirs, timer, base, doc>>
        /\ events' = IF Directory(f) \in dirs THEN events \union {f} ELSE events
    BY <1>3 DEF Saved
  <2>2. watch = "starting" => watched' = {}
    BY <1>1, <2>1 DEF Noticed
  <2>3. ASSUME Live, NEW g \in watched
        PROVE  Directory(g) \in dirs /\ (timer \/ g \in events' \/ Rev(disk', g) \in {base[g], Rev(doc, g)})
    <3>1. Directory(g) \in dirs
          /\ (timer \/ g \in events \/ Rev(disk, g) \in {base[g], Rev(doc, g)})
      BY <1>1, <2>3 DEF Noticed
    <3>2. CASE g = f
      BY <2>1, <3>1, <3>2
    <3>3. CASE g # f
      BY <1>1, <1>3, <2>1, <3>1, <3>3
    <3> QED BY <3>2, <3>3
  <2> QED BY <2>1, <2>2, <2>3 DEF Noticed, Directory, Rev
<1>4. CASE SaveHosts
  <2>1. Saved("hosts") /\ disk'.include = disk.include
    BY <1>1, <1>4 DEF SaveHosts
  <2> QED BY <1>3, <2>1 DEF Files, Rev
<1>5. CASE SaveInclude
  <2>1. Saved("include") /\ disk'.hosts = disk.hosts
    BY <1>1, <1>5 DEF SaveInclude
  <2> QED BY <1>3, <2>1 DEF Files, Rev
<1>6. CASE WatcherStarts \/ WatcherRefreshes
  <2>1. watch \in {"starting", "refreshing"} /\ UNCHANGED <<events, timer, doc, disk, sameDir>>
    BY <1>6 DEF WatcherStarts, WatcherRefreshes, fileVars
  <2>2. watch' = "stopped" \/ (watch' = "waiting" /\ \E skip : Refresh(skip))
    BY <1>6 DEF WatcherStarts, WatcherRefreshes
  <2>3. CASE watch' = "waiting"
    <3>1. /\ \A f \in watched' : Directory(f) \in dirs'
          /\ \A f \in watched' : f \in watched => base'[f] = base[f]
          /\ \A f \in watched' : f \notin watched => f \in events \/ base'[f] = Rev(disk, f)
      BY <1>1, <2>2, <2>3, RefreshFacts
    <3>2. \A f \in watched : timer \/ f \in events \/ Rev(disk, f) \in {base[f], Rev(doc, f)}
      BY <1>1, <2>1 DEF Noticed
    <3> QED BY <2>1, <2>3, <3>1, <3>2 DEF Noticed, Directory, Rev
  <2>4. CASE watch' = "stopped"
    BY <2>4 DEF Noticed
  <2> QED BY <2>2, <2>3, <2>4
<1>7. CASE WatcherReceives
  <2>1. PICK f \in events : events' = events \ {f} /\ timer' = (timer \/ f \in watched)
    BY <1>7 DEF WatcherReceives
  <2>2. watch = "waiting" /\ UNCHANGED <<watch, watched, dirs, disk, sameDir, base, doc>>
    BY <1>7 DEF WatcherReceives, fileVars
  <2>3. \A g \in watched : timer' \/ g \in events' \/ Rev(disk, g) \in {base[g], Rev(doc, g)}
    BY <1>1, <2>1, <2>2 DEF Noticed
  <2> QED BY <1>1, <2>2, <2>3 DEF Noticed, Directory, Rev
<1>8. CASE WatcherFails \/ WatcherStops
  <2>1. watch' = "stopped"
    BY <1>8 DEF WatcherFails, WatcherStops
  <2> QED BY <2>1 DEF Noticed
<1>9. CASE StartsIteration
  <2>1. watch' = "starting" /\ watched' = {}
    BY <1>9 DEF StartsIteration
  <2> QED BY <2>1 DEF Noticed
<1>10. CASE DebounceFires
  <2>1. /\ watch = "waiting" /\ watch' \in {"trying", "refreshing"} /\ doc' = disk
        /\ UNCHANGED <<watched, dirs, disk, sameDir>>
    BY <1>10 DEF DebounceFires, fileVars
  <2>2. \A g \in watched' : Rev(disk', g) = Rev(doc', g) /\ Directory(g)' \in dirs'
    BY <1>1, <2>1 DEF Noticed, Rev, Directory
  <2> QED BY <2>1, <2>2 DEF Noticed
<1>11. CASE AppliedLive \/ TryLiveFails \/ NeedsRestart \/ RestartQueued \/ SignalFired
  <2>1. /\ watch \in {"trying", "queueing", "firing"}
        /\ watch' \in {"refreshing", "queueing", "firing"}
        /\ UNCHANGED <<sameDir, disk, watched, dirs, timer, events, base, doc>>
    BY <1>11 DEF AppliedLive, TryLiveFails, NeedsRestart, RestartQueued, SignalFired, fileVars
  <2> QED BY <1>2, <2>1
<1>12. CASE \/ Reresolves \/ StartFails \/ UIReturns \/ MarksReloading \/ CapturesTargets
            \/ StopsDurationWatch \/ JoinsWatcher \/ Exits \/ Reenters
  <2>1. UNCHANGED <<watch, sameDir, disk, watched, dirs, timer, events, base, doc>>
    BY <1>12 DEF Reresolves, StartFails, UIReturns, MarksReloading, CapturesTargets,
       StopsDurationWatch, JoinsWatcher, Exits, Reenters, fileVars, watchVars
  <2> QED BY <1>2, <2>1
<1>13. CASE Terminates
  <2>1. UNCHANGED <<watch, sameDir, disk, watched, dirs, timer, events, base, doc>>
    BY <1>13 DEF Terminates, KeepWatch, fileVars
  <2> QED BY <1>2, <2>1
<1>14. CASE DeadlinePasses \/ DurationWatchFires \/ RequestChecked \/ RequestApplied
            \/ UNCHANGED vars
  <2>1. UNCHANGED <<watch, sameDir, disk, watched, dirs, timer, events, base, doc>>
    BY <1>14 DEF DeadlinePasses, DurationWatchFires, RequestChecked, RequestApplied, vars,
       fileVars, watchVars
  <2> QED BY <1>2, <2>1
<1> QED BY <1>4, <1>5, <1>6, <1>7, <1>8, <1>9, <1>10, <1>11, <1>12, <1>13, <1>14, StepCases
        DEF Sidelong

(***************************************************************************)
(* Theorems.                                                               *)
(***************************************************************************)

LEMMA Inductive == IInv /\ [Next]_vars => IInv'
<1> SUFFICES ASSUME IInv, [Next]_vars PROVE IInv'
  OBVIOUS
<1>1. TypeOK
  BY DEF IInv
<1>2. Ordered'
  BY OrderedStep
<1>3. TypeOK'
  BY <1>1, <1>2, FilesStep, WatchStep, CoordinatorStep, SessionStep, RequestedStep DEF TypeOK
<1> QED BY <1>2, <1>3, OwnedStep, ValidatedStep, RequestedStep, NoticedStep DEF IInv

LEMMA Invariant == Spec => []IInv
BY InitIInv, Inductive, PTL DEF Spec

\* Every iteration runs what was validated and is nobody's but its own: the
\* supervisor that rc.tryLive calls, the reason of its close signal, and the
\* controls offered to the browser, whatever saves, reloads, the deadline and
\* browser edits race with its teardown (runIteration).
THEOREM SoundIterations == Spec => []IterationsAreSound
<1>1. IInv => IterationsAreSound
  BY DEF IInv, Owned, Validated, Between, IterationsAreSound, TryLiveIsCurrent,
     SignalHasReason, WebRunningMeasures, OnlyAcceptable
<1> QED BY <1>1, Invariant, PTL

\* The watcher misses no save of a file it watches, whichever files are saved,
\* become named or go while onChange and the refresh run (WatchPaths).
THEOREM SeenSaves == Spec => []SavesAreSeen
<1>1. IInv => SavesAreSeen
  BY DEF IInv, Noticed, SavesAreSeen
<1> QED BY <1>1, Invariant, PTL

=============================================================================
