------------------------------- MODULE Reload -------------------------------
(***************************************************************************)
(* Configuration reload across run-loop iterations: the hosts-file watcher *)
(* (internal/watcher), the reload coordinator, the main goroutine of       *)
(* run_session.go that tears an iteration down and builds the next, the    *)
(* --duration watch, and the browser requests that race with them.  The    *)
(* supervisor is reduced to what the reload asks of it: whether it still   *)
(* answers, the document in force, and the browser edits it accepted       *)
(* (Supervisor.tla has its interior).                                      *)
(***************************************************************************)
EXTENDS Naturals, FiniteSets

CONSTANTS
  MaxSaves,       \* bound: saves of either file after startup
  MaxEdits,       \* bound: browser edits
  DurationLimit   \* --duration was given

ASSUME ReloadAssumption ==
  DurationLimit \in BOOLEAN /\ {MaxSaves, MaxEdits} \subseteq Nat

Files == {"hosts", "include"}

\* Every save stamps the saved file with a new revision; 0 is a missing file.
Revisions == 0..(MaxSaves + 1)

\* "probe" stands for every setting that probeConfig keeps, "names" says that
\* the file names the include, "valid" that parsing and validation accept it.
HostsFiles == [rev : Revisions, probe : 0..1, names : BOOLEAN, valid : BOOLEAN]
Documents == [hosts : HostsFiles, include : Revisions]

Acceptable(doc) == doc.hosts.valid /\ (doc.hosts.names => doc.include # 0)
Rev(doc, f) == IF f = "hosts" THEN doc.hosts.rev ELSE doc.include

\* hostsfile.WatchPaths: the hosts file and what it names, present or not.
WatchPaths(doc) == {"hosts"} \union IF doc.hosts.names THEN {"include"} ELSE {}

VARIABLES
  sameDir,   \* both files lie in one directory; never changes
  disk,      \* the two files
  saves,     \* saves made (bounded by MaxSaves)
  \* The watcher goroutine of the current iteration.
  watch,     \* where it is
  watched,   \* pathWatches.watched
  dirs,      \* pathWatches.addedDirs
  events,    \* files with an event not yet received from the event source
  timer,     \* the debounce timer runs
  cancelled, \* watchCtx was cancelled
  base,      \* revision of each file when it was last added to the watch
  doc,       \* what the latest onChange parsed
  \* The coordinator and the iteration's close signal.
  pending, sig,   \* rc.pending is {} or the one validated document
  tryLive,   \* the iteration whose supervisor rc.tryLive calls
  announced, \* newest revision announced as reloaded without a restart
  \* The main goroutine and the session.
  main, iter,
  cfg,       \* session.cfg with its hosts: the document to build from
  uiErr,     \* the UI returned an error
  sup,       \* the supervisor: accepting commands, document, browser edits
  captured,  \* browser edits in the captured target list
  elapsed,   \* the --duration deadline has passed
  armed,     \* the duration watch of this iteration runs
  web,       \* the state of web.Source
  request,   \* iteration whose controller a browser request holds, 0 if none
  edits      \* browser edits requested (bounded by MaxEdits)

fileVars == <<sameDir, disk, saves>>
watchVars == <<watch, watched, dirs, events, timer, cancelled, base, doc>>
rcVars == <<pending, sig, tryLive, announced>>
sessionVars == <<main, iter, cfg, uiErr, sup, captured, elapsed, armed>>
webVars == <<web, request, edits>>
vars == <<fileVars, watchVars, rcVars, sessionVars, webVars>>

WatchStates == {"off", "starting", "waiting", "trying", "queueing", "firing",
                "refreshing", "stopped"}
MainStates == {"resolving", "starting", "ui", "returned", "marked", "captured",
               "terminating", "joining", "deciding", "ended", "failed"}
WebStates == {"starting", "running", "reloading", "stopped"}
Iterations == 0..(MaxSaves + 1)

Directory(f) == IF sameDir THEN "hosts" ELSE f

FilesOK ==
  /\ sameDir \in BOOLEAN
  /\ disk \in Documents /\ saves \in 0..MaxSaves

WatchOK ==
  /\ watch \in WatchStates /\ watched \subseteq Files /\ dirs \subseteq Files
  /\ events \subseteq Files /\ {timer, cancelled} \subseteq BOOLEAN
  /\ base \in [Files -> Revisions] /\ doc \in Documents

CoordinatorOK ==
  /\ pending \subseteq Documents /\ Cardinality(pending) <= 1 /\ sig \in BOOLEAN
  /\ tryLive \in Iterations /\ announced \in Revisions

SessionOK ==
  /\ main \in MainStates /\ iter \in Iterations /\ cfg \in Documents
  /\ {uiErr, elapsed, armed} \subseteq BOOLEAN
  /\ sup \in [alive : BOOLEAN, doc : Documents, edits : 0..MaxEdits]
  /\ captured \in 0..MaxEdits

WebOK ==
  /\ web \in WebStates /\ request \in Iterations /\ edits \in 0..MaxEdits

TypeOK == FilesOK /\ WatchOK /\ CoordinatorOK /\ SessionOK /\ WebOK

\* The run starts with a document parseAndLoadHosts accepted.
StartupDoc == [hosts |-> [rev |-> 1, probe |-> 0, names |-> FALSE, valid |-> TRUE],
               include |-> 0]

Init ==
  /\ sameDir \in BOOLEAN
  /\ disk = StartupDoc /\ saves = 0
  /\ watch = "off" /\ watched = {} /\ dirs = {} /\ events = {}
  /\ timer = FALSE /\ cancelled = FALSE
  /\ base = [f \in Files |-> 0] /\ doc = StartupDoc
  /\ pending = {} /\ sig = FALSE /\ tryLive = 0 /\ announced = 0
  /\ main = "starting" /\ iter = 1 /\ cfg = StartupDoc /\ uiErr = FALSE
  /\ sup = [alive |-> FALSE, doc |-> StartupDoc, edits |-> 0]
  /\ captured = 0 /\ elapsed = FALSE /\ armed = FALSE
  /\ web = "starting" /\ request = 0 /\ edits = 0

-----------------------------------------------------------------------------
\* The user's editor.  A write and a rename over the path both reach the
\* watcher as one relevant event of the parent directory.

Saved(f) ==
  /\ saves < MaxSaves
  /\ saves' = saves + 1
  /\ events' = IF Directory(f) \in dirs THEN events \union {f} ELSE events
  /\ UNCHANGED <<sameDir, watch, watched, dirs, timer, cancelled, base, doc,
                 rcVars, sessionVars, webVars>>

SaveHosts ==
  \E probe \in 0..1, names, valid \in BOOLEAN :
    /\ disk' = [disk EXCEPT !.hosts = [rev |-> saves + 2, probe |-> probe,
                                       names |-> names, valid |-> valid]]
    /\ Saved("hosts")

SaveInclude ==
  /\ disk' = [disk EXCEPT !.include = saves + 2]
  /\ Saved("include")

-----------------------------------------------------------------------------
\* The watcher goroutine.

\* pathWatches.refresh: the directories of "paths" are added, those in "skip"
\* cannot be; a path whose directory is not watched is not watched either.
Refresh(skip) ==
  LET paths == {f \in WatchPaths(disk) : Directory(f) \in dirs \/ f \notin skip} IN
    /\ dirs' = dirs \union {Directory(f) : f \in paths}
    /\ watched' = paths
    /\ base' = [f \in Files |-> IF f \in paths \ watched /\ f \notin events
                                  THEN Rev(disk, f) ELSE base[f]]

\* A directory that cannot be watched at startup ends the watcher; the
\* iteration goes on without auto-reload.
WatcherStarts ==
  /\ watch = "starting"
  /\ \/ watch' = "waiting" /\ Refresh({})
     \/ watch' = "stopped" /\ UNCHANGED <<dirs, watched, base>>
  /\ UNCHANGED <<fileVars, events, timer, cancelled, doc, rcVars, sessionVars, webVars>>

\* An event for a path that is not watched is dropped.
WatcherReceives ==
  /\ watch = "waiting"
  /\ \E f \in events :
       /\ events' = events \ {f}
       /\ timer' = (timer \/ f \in watched)
  /\ UNCHANGED <<fileVars, watch, watched, dirs, cancelled, base, doc,
                 rcVars, sessionVars, webVars>>

\* A runtime error of the event source disables auto-reload.
WatcherFails ==
  /\ watch = "waiting"
  /\ watch' = "stopped" /\ timer' = FALSE /\ events' = {} /\ dirs' = {}
  /\ UNCHANGED <<fileVars, watched, cancelled, base, doc, rcVars, sessionVars, webVars>>

WatcherStops ==
  /\ watch = "waiting" /\ cancelled
  /\ watch' = "stopped" /\ timer' = FALSE /\ events' = {} /\ dirs' = {}
  /\ UNCHANGED <<fileVars, watched, cancelled, base, doc, rcVars, sessionVars, webVars>>

\* The timer's case runs onChange: requestFileReload parses and validates the
\* files, and the expansion of --resolve-all hosts may fail too.
DebounceFires ==
  /\ watch = "waiting" /\ timer
  /\ timer' = FALSE
  /\ doc' = disk
  /\ \/ watch' = "trying" /\ Acceptable(disk)
     \/ watch' = "refreshing"
  /\ UNCHANGED <<fileVars, watched, dirs, events, cancelled, base,
                 rcVars, sessionVars, webVars>>

Answers == sup.alive /\ tryLive = iter

\* rc.tryLive applies the document ...
AppliedLive ==
  /\ watch = "trying" /\ Answers /\ doc.hosts.probe = sup.doc.hosts.probe
  /\ sup' = [sup EXCEPT !.doc = doc]
  /\ announced' = doc.hosts.rev
  /\ watch' = "refreshing"
  /\ UNCHANGED <<fileVars, watched, dirs, events, timer, cancelled, base, doc, pending,
                 sig, tryLive, main, iter, cfg, uiErr, captured, elapsed, armed, webVars>>

\* ... or fails: targets cannot be registered, or the supervisor has terminated.
TryLiveFails ==
  /\ watch = "trying"
  /\ Answers => doc.hosts.probe = sup.doc.hosts.probe
  /\ watch' = "refreshing"
  /\ UNCHANGED <<fileVars, watched, dirs, events, timer, cancelled, base, doc,
                 rcVars, sessionVars, webVars>>

\* ... or returns the reason for a restart.
NeedsRestart ==
  /\ watch = "trying" /\ Answers /\ doc.hosts.probe # sup.doc.hosts.probe
  /\ watch' = "queueing"
  /\ UNCHANGED <<fileVars, watched, dirs, events, timer, cancelled, base, doc,
                 rcVars, sessionVars, webVars>>

RestartQueued ==
  /\ watch = "queueing"
  /\ pending' = {doc}
  /\ watch' = "firing"
  /\ UNCHANGED <<fileVars, watched, dirs, events, timer, cancelled, base, doc,
                 sig, tryLive, announced, sessionVars, webVars>>

\* SignalFired, forgetting sig.fire.
QueuesOnly ==
  /\ watch = "firing"
  /\ watch' = "refreshing"
  /\ UNCHANGED <<fileVars, watched, dirs, events, timer, cancelled, base, doc,
                 rcVars, sessionVars, webVars>>

SignalFired ==
  /\ watch = "firing"
  /\ sig' = TRUE
  /\ watch' = "refreshing"
  /\ UNCHANGED <<fileVars, watched, dirs, events, timer, cancelled, base, doc,
                 pending, tryLive, announced, sessionVars, webVars>>

\* WatcherRefreshes, draining the events that arrived during onChange.
RefreshDrains ==
  /\ watch = "refreshing"
  /\ \E skip \in SUBSET {"include"} : Refresh(skip)
  /\ watch' = "waiting" /\ events' = {}
  /\ UNCHANGED <<fileVars, timer, cancelled, doc, rcVars, sessionVars, webVars>>

\* After onChange the watch follows the files; a directory that cannot be
\* added yet is skipped until the next refresh.
WatcherRefreshes ==
  /\ watch = "refreshing"
  /\ \E skip \in SUBSET {"include"} : Refresh(skip)
  /\ watch' = "waiting"
  /\ UNCHANGED <<fileVars, events, timer, cancelled, doc, rcVars, sessionVars, webVars>>

OnChange == \/ AppliedLive \/ TryLiveFails \/ NeedsRestart \/ RestartQueued
            \/ SignalFired \/ WatcherRefreshes

-----------------------------------------------------------------------------
\* The main goroutine: session.runIteration.

\* Left alone by every step of the main goroutine but the first.
KeepWatch == UNCHANGED <<watch, watched, dirs, events, timer, base, doc>>

\* A failed re-resolution stops the web state and the run.
Reresolves ==
  /\ main = "resolving"
  /\ \/ main' = "starting" /\ UNCHANGED web
     \/ main' = "failed" /\ web' = "stopped"
  /\ UNCHANGED <<fileVars, watchVars, rcVars, iter, cfg, uiErr, sup, captured,
                 elapsed, armed, request, edits>>

\* StartsIteration, watching the duration in the first iteration only.
ArmsOnce ==
  /\ main = "starting"
  /\ main' = "ui"
  /\ sup' = [alive |-> TRUE, doc |-> cfg, edits |-> 0]
  /\ web' = "running"
  /\ sig' = FALSE /\ tryLive' = iter
  /\ watch' = "starting" /\ watched' = {} /\ cancelled' = FALSE
  /\ armed' = (DurationLimit /\ iter = 1)
  /\ UNCHANGED <<fileVars, dirs, events, timer, base, doc, pending, announced, iter,
                 cfg, uiErr, captured, elapsed, request, edits>>

\* startIteration, and runUIUntilDone up to the UI: the supervisor is
\* published, a new close signal made, the watchers launched.
StartsIteration ==
  /\ main = "starting"
  /\ main' = "ui"
  /\ sup' = [alive |-> TRUE, doc |-> cfg, edits |-> 0]
  /\ web' = "running"
  /\ sig' = FALSE /\ tryLive' = iter
  /\ watch' = "starting" /\ watched' = {} /\ cancelled' = FALSE
  /\ armed' = DurationLimit
  /\ UNCHANGED <<fileVars, dirs, events, timer, base, doc, pending, announced, iter,
                 cfg, uiErr, captured, elapsed, request, edits>>

\* The pinger does not start.
StartFails ==
  /\ main = "starting"
  /\ main' = "failed"
  /\ UNCHANGED <<fileVars, watchVars, rcVars, iter, cfg, uiErr, sup, captured,
                 elapsed, armed, webVars>>

\* The user quits, the UI fails, or it sees the close signal.
UIReturns ==
  /\ main = "ui"
  /\ uiErr' \in BOOLEAN
  /\ main' = "returned"
  /\ UNCHANGED <<fileVars, watchVars, rcVars, iter, cfg, sup, captured,
                 elapsed, armed, webVars>>

UIClosed == sig /\ UIReturns

MarksReloading ==
  /\ main = "returned"
  /\ web' = "reloading"
  /\ main' = "marked"
  /\ UNCHANGED <<fileVars, watchVars, rcVars, iter, cfg, uiErr, sup, captured,
                 elapsed, armed, request, edits>>

CapturesTargets ==
  /\ main = "marked"
  /\ captured' = sup.edits
  /\ main' = "captured"
  /\ UNCHANGED <<fileVars, watchVars, rcVars, iter, cfg, uiErr, sup,
                 elapsed, armed, webVars>>

\* stopDurationWatch joins the duration watch; a UI error marks the stop.
StopsDurationWatch ==
  /\ main = "captured"
  /\ armed' = FALSE
  /\ web' = IF uiErr THEN "stopped" ELSE web
  /\ main' = "terminating"
  /\ UNCHANGED <<fileVars, watchVars, rcVars, iter, cfg, uiErr, sup, captured,
                 elapsed, request, edits>>

\* finishIteration: the supervisor is terminated and joined, the watcher
\* cancelled ...
Terminates ==
  /\ main = "terminating"
  /\ sup' = [sup EXCEPT !.alive = FALSE]
  /\ cancelled' = TRUE
  /\ main' = "joining"
  /\ KeepWatch
  /\ UNCHANGED <<fileVars, rcVars, iter, cfg, uiErr, captured, elapsed, armed, webVars>>

\* JoinsWatcher, going on as soon as the watcher is cancelled.
SkipsJoin ==
  /\ main = "joining"
  /\ main' = IF uiErr THEN "failed" ELSE "deciding"
  /\ UNCHANGED <<fileVars, watchVars, rcVars, iter, cfg, uiErr, sup, captured,
                 elapsed, armed, webVars>>

\* ... and joined.
JoinsWatcher ==
  /\ main = "joining" /\ watch = "stopped"
  /\ main' = IF uiErr THEN "failed" ELSE "deciding"
  /\ UNCHANGED <<fileVars, watchVars, rcVars, iter, cfg, uiErr, sup, captured,
                 elapsed, armed, webVars>>

\* prepareReload: rc.apply takes the pending reload, or the run ends.
Reenters ==
  /\ main = "deciding"
  /\ cfg' \in pending /\ pending' = {}
  /\ web' = "reloading"
  /\ iter' = iter + 1
  /\ main' = "resolving"
  /\ UNCHANGED <<fileVars, watchVars, sig, tryLive, announced, uiErr, sup, captured,
                 elapsed, armed, request, edits>>

Exits ==
  /\ main = "deciding" /\ pending = {}
  /\ web' = "stopped"
  /\ main' = "ended"
  /\ UNCHANGED <<fileVars, watchVars, rcVars, iter, cfg, uiErr, sup, captured,
                 elapsed, armed, request, edits>>

-----------------------------------------------------------------------------
\* --duration: the deadline of the whole run, watched in every iteration.

DeadlinePasses ==
  /\ DurationLimit /\ ~elapsed
  /\ elapsed' = TRUE
  /\ UNCHANGED <<fileVars, watchVars, rcVars, main, iter, cfg, uiErr, sup, captured,
                 armed, webVars>>

DurationWatchFires ==
  /\ armed /\ elapsed
  /\ sig' = TRUE /\ armed' = FALSE
  /\ UNCHANGED <<fileVars, watchVars, pending, tryLive, announced, main, iter, cfg,
                 uiErr, sup, captured, elapsed, webVars>>

\* A browser edit: the state check of web's "controlled" handler takes the
\* controller, and the call into that supervisor comes later.
RequestChecked ==
  /\ request = 0 /\ web = "running" /\ edits < MaxEdits
  /\ request' = iter /\ edits' = edits + 1
  /\ UNCHANGED <<fileVars, watchVars, rcVars, sessionVars, web>>

RequestApplied ==
  /\ request # 0
  /\ request' = 0
  /\ sup' = IF sup.alive /\ request = iter THEN [sup EXCEPT !.edits = @ + 1] ELSE sup
  /\ UNCHANGED <<fileVars, watchVars, rcVars, main, iter, cfg, uiErr, captured,
                 elapsed, armed, web, edits>>

Over == main \in {"ended", "failed"} /\ UNCHANGED vars

MainStep ==
  \/ Reresolves \/ StartsIteration \/ StartFails \/ MarksReloading
  \/ CapturesTargets \/ StopsDurationWatch \/ Terminates \/ JoinsWatcher
  \/ Reenters \/ Exits
WatcherStep ==
  \/ WatcherStarts \/ WatcherReceives \/ WatcherStops \/ DebounceFires \/ OnChange

Next ==
  \/ SaveHosts \/ SaveInclude
  \/ WatcherStep \/ WatcherFails
  \/ MainStep \/ UIReturns
  \/ DeadlinePasses \/ DurationWatchFires
  \/ RequestChecked \/ RequestApplied
  \/ Over

Spec == Init /\ [][Next]_vars

\* The goroutines keep running and the UI obeys its close signal.  Files need
\* not be saved, the user need not quit, the deadline need not be near.
FairSpec ==
  /\ Spec
  /\ WF_vars(MainStep) /\ WF_vars(UIClosed)
  /\ WF_vars(WatcherStarts \/ WatcherReceives \/ DebounceFires \/ OnChange)
  /\ WF_vars(WatcherStops)
  /\ WF_vars(DurationWatchFires)

-----------------------------------------------------------------------------
\* Properties.

\* A save of a watched file is never missed: once the watcher is idle, the last
\* onChange has read every revision saved since the file was watched, whatever
\* was saved while onChange or refresh ran (WatchPaths).
SavesAreSeen ==
  watch = "waiting" /\ ~timer /\ events = {} =>
    \A f \in watched : Rev(disk, f) \in {base[f], Rev(doc, f)}

\* Only documents that passed validation are ever measured, queued or used to
\* build an iteration (requestFileReload's early returns).
OnlyAcceptable ==
  /\ Acceptable(cfg) /\ Acceptable(sup.doc)
  /\ \A d \in pending : Acceptable(d)

\* rc.tryLive, which no lock protects, is replaced only when no onChange of
\* the previous iteration can still call it (finishIteration's join).
TryLiveIsCurrent ==
  watch \in {"trying", "queueing", "firing"} => tryLive = iter

\* The close signal ends an iteration for a reason: a validated reload waits,
\* or the --duration deadline passed.  A signal of an earlier iteration never
\* closes the UI of the next one (newReloadSignal).
SignalHasReason == main = "ui" /\ sig => pending # {} \/ elapsed

\* While the browser is told "running", a supervisor takes its edits
\* (MarkReloading precedes the teardown, Set follows the start).
WebRunningMeasures == web = "running" => sup.alive

\* --duration ends the run, however many reloads race with it.
DurationEnds == elapsed ~> main \in {"ended", "failed"}

\* A queued reload is consumed: the iteration is torn down without waiting for
\* a watcher that waits for the supervisor, and the next one is built from it,
\* unless the UI failed.
ReloadIsApplied == pending # {} ~> pending = {} \/ main = "failed"

\* A document announced as reloaded without a restart is not replaced by an
\* older one (reload_coordinator.go:90).
AnnouncedIsKept == main = "resolving" => cfg.hosts.rev >= announced

\* An iteration runs what was validated and belongs to nobody but itself: its
\* supervisor, its watcher's callback, its close signal and the controls the
\* browser is offered (runIteration).
IterationsAreSound ==
  /\ TypeOK /\ OnlyAcceptable
  /\ TryLiveIsCurrent /\ SignalHasReason /\ WebRunningMeasures
=============================================================================
