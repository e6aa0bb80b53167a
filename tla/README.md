# A TLA+ model of mping

mping probes a list of hosts with ICMP, follows their routes, checks ports and
URLs, and shows the result in a terminal and in a browser while the list of
hosts is edited under it. The program is a set of goroutines around a few
shared objects. This directory models the parts of it where the order of steps
matters, checks them with TLC and proves the main results with TLAPS.

Paths are relative to the repository (`src/`). Every definition that models
code is listed with its lines in `PROJECT.json` under `map`.

## Inventory

| part | state | operations | hard behaviour | what makes it correct |
|---|---|---|---|---|
| supervisor (`cmd/main/supervisor*.go`) | state, pinger, monitors, targets, command channel | start, stop, restart, resets, edits, terminate, completion reports | callers, observers and shutdown race on one queue; a start may fail; late reports | one measurement at a time; monitors follow the list; nothing runs while stopped; every caller returns |
| live edits (`cmd/main/live_targets.go`, `live_reload.go`) | the target list, the published snapshot | add, delete, reload | partial failure and rollback; identities that return | list, workers and monitors agree; readers see what was acknowledged |
| pinger (`internal/pinger/pinger.go`, `targets.go`) | sockets, workers, echo IDs | Start, AddTarget, RemoveTarget, Stop, Wait, Close | joins of workers that are blocked; coalesced events | sockets outlive their users; a completion is noticed |
| target worker (`internal/pinger/worker.go`, `resolve.go`) | outstanding probes, history of settled ones | send, settle, sweep, look up, cancel | lost, late and duplicate replies; wraparound; resets in between | each probe has one outcome |
| receiver (`internal/pinger/receiver.go`) | routing tables | dispatch of replies and ICMP errors | full channels | never blocks, never misroutes |
| statistics (`internal/stats`) | counters, windows, health, events, history rings | record, reset, view | resets against late probes; ring reuse | counters add up; health follows its policy |
| hop probes and routes (`internal/pinger/mtr_probe.go`, `internal/mtr`) | trace channels, hop table, route | discovery, verification, annotation | fan-out, cancellation in the middle of a round, ID reuse | no reply credited to another probe; no torn route |
| path MTU (`internal/pinger/pmtu*.go`) | search bounds | binary search | lost probes | the estimate is sound |
| checkers (`internal/pinger/portchecker.go`, `httpchecker.go`) | one task per check | add, remove, reset, stop | stop against a check in progress | no result after stop |
| reload (`internal/watcher`, `cmd/main/reload_coordinator.go`, `run_session.go`) | debounce timer, pending reload, iteration | file event, apply, restart | events during a reload, reload against quit | the last written file wins |
| web (`internal/web`, `cmd/main/web_bridge.go`, `web_process*.go`) | published source, cached snapshot, child process | snapshot, stream, control, handshake | lock-free updates, streams at the end of a run, startup timeout | a stream ends with the final state; no child left behind |
| terminal (`internal/ui`) | callback queue, mailbox, selection | keys, refresh, dialogs | a list that shrinks under the cursor; blocked callbacks | the input loop never blocks; actions hit the selected target |
| host files (`internal/hostsfile`) | none between loads | load, expand, which files to watch | cycles, limits | the watched files are those the document names |
| privilege (`internal/privilege`) | effective IDs, capabilities | raise, drop | failing in between | dropped outside privileged calls |
| reports, configuration, command line | none while running | parse, validate, write | | sequential |

The parts meet in few places. Everything that changes the measurement goes
through `sendCmd` into the supervisor's loop: the terminal's callback
goroutine, the web handlers, the file watcher, the duration watch and the main
goroutine are its callers, the count observer of each pinger posts to the same
channel without waiting. The supervisor owns the pinger and the monitors and
drives them with calls and joins. Workers and receivers share the pinger's maps
and a bounded channel per target. Everything measured goes into `TargetStats`
under its lock. Readers (terminal, web) see the statistics through copies and
the list through an atomic snapshot.

## Modules

| module | models | for |
|---|---|---|
| `Supervisor` | command loop, callers of `sendCmd`, pinger instances with their workers and observers, main goroutine | TLC and TLAPS |
| `Lifecycle` | what a session promises: the state table above `supervisorState` | abstract specification |
| `SupervisorProofs` | theorems about `Supervisor` | TLAPS |
| `Worker` | one target worker, its receiver, its statistics window, the network | TLC and TLAPS |
| `Accounting` | what a target's counters promise of its worker: `stats.Probe` | abstract specification |
| `WorkerProofs` | theorems about `Worker` | TLAPS |
| `HopProbe` | concurrent TTL-limited probes of one socket, their IDs, the dispatch of their replies | TLC and TLAPS |
| `Probing` | what the route engine is promised of `NextTraceID` and `ProbeHop` | abstract specification |
| `HopProbeProofs` | theorems about `HopProbe` | TLAPS |
| `MtrEngine` | the route engine: a goroutine per target, its fan-outs, the hop tables, and the supervisor's calls | TLC and TLAPS |
| `Health` | a target's statistics window: health, recent buckets, event log, ring of samples, extremes | TLC and TLAPS |
| `PathMTU` | the search of the path MTU over IPv4, its confirmation over IPv6, the session's packet size | TLC and TLAPS |
| `Measures` | `MtrEngine`, `Health` and `PathMTU` side by side | TLC and TLAPS |
| `MeasuresProofs` | theorems about `Measures` and its parts | TLAPS |
| `Reload` | watcher, coordinator, run loop, duration watch and browser requests across iterations | TLC and TLAPS |
| `ReloadProofs` | theorems about `Reload` | TLAPS |
| `WebStream` | what a browser sees: statistics, source, snapshot cache, fetcher, streams, server shutdown | TLC and TLAPS |
| `Privilege` | the effective IDs of the process and the lock around them | TLC and TLAPS |
| `WebProcess` | the unprivileged child that serves the browser, and mping's side of it; extends `Privilege` | TLC and TLAPS |
| `WebProofs` | theorems about `WebStream`, `WebProcess` and `Privilege` | TLAPS |
| `UISession` | the goroutines of one `Run`: event loop, worker, mailbox, refresh | TLC and TLAPS |
| `Terminal` | keys, pages, dialogs and selection over `UISession` and a supervisor that others change | TLC and TLAPS |
| `TerminalProofs` | theorems about `Terminal` | TLAPS |
| `Checkers` | the port and HTTP checkers with the loop of each check | TLC and TLAPS |
| `HopAnnotator` | the annotator of a target's hops, its lookups, the ASN cache | TLC and TLAPS |
| `Background` | `Checkers` and `HopAnnotator` side by side | TLC and TLAPS |
| `BackgroundProofs` | theorems about `Background` and its parts | TLAPS |
| `MC...` | the instance of the module of that name | TLC |

`Supervisor` sees a worker only as running or ended and the route engine only as
running or not; `Worker` and `MtrEngine` open these up. `MtrEngine` in turn sees
a probe as one call that returns a reply of its own packet, silence or an
error, which is what `HopProbe` checks of `ProbeHop`. `Reload`, `WebStream` and
`Terminal` see the supervisor as something that accepts commands and publishes a
list, which is what `Supervisor` shows of it.

`Measures` and `Background` compose modules whose parts share no state: a
behaviour is about one of them (`part`), and the others stay as they began, so
one run looks at each.

### Supervisor

One action is one uninterrupted step of one goroutine. The loop takes a command
(`loop = "select"`), handles it in one or more steps, publishes the snapshot and
replies (`Publish`). A handler is split exactly where it waits for another
goroutine: a teardown waits for the workers (`teardown`), the removal of a
target waits for that target's worker (`join`), and a start is a step of its
own because `Start` opens sockets and may fail. Between two such steps callers,
workers, observers and the main goroutine run.

* `call`, `reply`, `cmds`, `done` are `sendCmd`: a caller blocks on the channel
  of capacity `CmdBuffer`, then on its reply; `done` releases it in either
  place. `Refused` and `Return` are the branches of the two selects.
* `phase[q]`, `worker[q]` are a pinger instance and the goroutine of each of its
  targets, from registration to the end of the goroutine, with the step between
  "decremented `activeWorkers`" and "posted the event" kept apart
  (`signalling`), because `WorkersFinished` is already true there.
* `observer[q]` is the goroutine of `startCountObserver`; `notifying` is the
  point between its check of `done` and the blocking send.
* `routeEngine`, `routeTargets`, `portTargets`, `httpRunning` are the monitors
  as the supervisor sees them: whether they run, through which pinger, and for
  which targets.
* `used` remembers the identities handed out, so a deleted host that is added
  again is a new target.
* `next`, `drop`, `joining` are the local variables of an edit.
* `stage` is the main goroutine, from `newSupervisor` to the end of `Shutdown`.

Which hosts an edit adds, and whether the spec parses, are choices of the
environment; the refusals of `addHost`, `removeTarget` and `reloadLive` are
actions' alternatives. An added host expands to at most `MaxExpand` addresses.

### Worker

One action is one step of the worker goroutine between two points where
another goroutine can interfere: the channel, the statistics lock, and the
calls that wait (lookup, write). `NextProbe` captures the statistics window,
`WriteSucceeds` puts the probe on the network, `Track` counts it and makes it
outstanding; a reset, a reply or a cancellation may come between any two. The
sweep and the final cancellation lock the statistics once per probe and are
split accordingly. `Deliver` is the receiver: it drops the reply when the
channel is full or the worker is no longer routed. The network is a set of
probes to which an answer may still arrive; it may answer at any time, answer
again, or never.

Time is replaced by two distances. `Window` is how many sends fit in one
timeout: an outstanding probe older than that has been swept. The settings
allow an interval of 100 ms to 60 s and a timeout of 10 ms to 30 s
(`cmd/main/config_validation.go`), so `Window` is at most 301 in the program, far below the
65536 sequence numbers, and the model keeps `Window < SeqSpace`. `Lifetime` is
how many sends later no copy of a reply is left in the network or the channel;
the model needs `Lifetime <= SeqSpace`, which at 100 ms is nearly two hours. A
reply still under way after that would be matched to the wrong probe, in the
program as well.

`sent - recv - loss - cancelled` would not add up in the code either: a probe
that fails before it is written is a loss that was never sent. `unsent` is a
history variable that counts those.

### HopProbe

Probes are numbered in the order in which `NextTraceID` served them. `pc[n]`
follows the probe through `ProbeHop` and its deferred calls; every point where
another probe or the receiver can come between is kept: between reserving the
ID and registering the channel, between setting the socket's TTL and writing,
between the write and its return (the packet is already on the wire), and
between the two deferred calls. The receiver looks a channel up (`Receive`) and
sends to it later (`Dispatch`), when the probe may be over, as
`broadcastTrace` does after releasing its lock.

The model is of one IPv4 socket: over IPv6 the hop limit travels with each packet
and there is neither lock nor shared TTL. `SetTTL` is assumed to
succeed on an open socket, since the code ignores its error.

`Lifetime` is the number of reservations after which no reply to an earlier
probe is left in the network or in the receiver's hands. The allocator goes
round its IDs, so that an ID returns only after `IDSpace - Slots + 1` others;
the model assumes `Lifetime <= IDSpace - Slots + 1`, which the program meets with
32768 IDs and 50 slots unless a reply is delayed by 32719 probes. The check of the
sequence number in `acceptHopPacket` is redundant under that assumption: `AnswersAreOwn` holds
without it.

### MtrEngine

`pc[t]` is the goroutine of a target, `probe[t][i]` the goroutine of one TTL of
its current fan-out. Taking a slot, the return of `ProbeHop` and the recording
of the reply (still holding the slot) are steps of their own, so a
cancellation can strike between any two of them, which is what discards a torn
round. The table is written by the recordings and by `Register`; readers only
copy it, so the updates of one registration are one step. Tickers may fire at
any time: the loop picks a discovery, a probe round or its exit.

`control` is the supervisor's call in progress: `RemoveTarget` and `Stop` cancel
and then wait for the goroutines to exit. A stopped engine is replaced by a
new one, over the same tables. `Reset` is possible only in between, as
`restartRoute` has it. `lastRoute` is a history variable, the route found by
the last whole round of the current run.

Times, jitter and annotations of a hop are left out; addresses, counters,
flaps and the error are in.

### Health

One outcome (`OnSuccess`, `OnFailure`) is one critical section of the target's
lock: it counts, judges, records events and stores the sample. `buckets` is the
array of one-second buckets, allocated with the first outcome and reused modulo
its length; `judged` keeps the counts the last status came from, so that they can
be compared with the outcomes themselves. `log`, `since` and the fields `of`,
`resets` and `apart` of an event are history: what the incremental state is
checked against. `Passes` lets time pass, up to more than the window.

Losses and round-trip times are drawn from small sets around the thresholds. Jitter, and
events of other sources in the log, are left out.

### PathMTU

A path is the sequence of the limits of its hops; `Refusing` and `Answer` say
what becomes of a packet. An IPv4 echo is identified by its search alone, so an
answer that comes after its deadline waits in `net` for the next read, as in
`waitIPv4PMTUReply`. The IPv6 discovery numbers its attempts, and the kernel's
`estimate` falls with every "too big" that arrives. Workers take targets in any order; `ChoosesSize`
is what `setupPMTU` does when the IPv4 searches are over. `asked` is the size the user asked
for, any of `Sizes`; the interface's size `StartSize` may be smaller, and then is the
only one tried (`Lowest`, the clamp of `pmtu.go:48`).
`Loses`, late deadlines and `Expires` are limited by `MaxFaults`.

### Reload

Two files, the hosts file and an include it may name, in one directory or in
two. A save stamps its file with a revision and, if the directory is
watched, leaves an event. The watcher is split at every call it makes: the parse
at the start of `onChange`, the call into `tryLive`, the store into `rc.pending`,
the close signal, and `refresh`. `base` is a history variable, the revision a
file had when it was added to the watch: what was saved before is not a missed save.

The main goroutine goes through `runIteration` and `runLoop`: the list is captured
after the web state was marked, the duration watch joined, the supervisor
terminated, the watcher cancelled and joined, and then the pending reload
applied or the run ended. `probe` stands for all settings that need a restart. `announced`
is the newest revision the log told as reloaded.

`request` is a browser request that passed the state check of `controlled` and
has not reached the supervisor yet.

### WebStream

A snapshot is the number of writes it contains, the published list and the
state. A mutator writes and bumps the generation afterwards (`dirty` is the point
between), an edit records its event before the list is published. The
backend's request reads the source, then the generation, then builds under the
cache's mutex; the requests that the frontend relays do the same at the same time.
A request that loaded its provider before a reload builds from targets that are no longer measured; the model lets
its body count them as the present ones, and its key is of a version that is past, so the next poll replaces it.
That `prepareReload` marks the source once more is left out.
The fetcher is held by one stream at a time; a result younger than `minAge` is
served again, unless it is the final one. A fetch may fail, or be cut short and leave its tag behind
(`ReadFails`; `whole` tells such a body). A browser may stop reading (`WriteBlocks`) or go.

### Privilege and WebProcess

`AsRealUser` reads the IDs before it has the lock, drops the group and then the
user, runs, and restores in the other order; every call may fail. The lock is
Go's `RWMutex`: a waiting writer keeps new readers out, an unlock lets all
waiting readers in.

`mping` follows `startSplitWebUI`, `startUnprivileged`, the run and `Close`; `child`
follows `runWebProcess`. Its line on stdout travels through the reader goroutine,
which may deliver it when the start has already timed out. The child keeps any part of its
privileges the kernel leaves it: its IDs, the saved user ID, the capabilities, or, when mping is setgid without
being setuid, the saved group ID. `DropTo` looks for the first three, and the child then must not serve. Platforms without
user IDs (`identity.keep`) are left out. Either process may be killed at any point.

### UISession and Terminal

`UISession` has the queues and goroutines, `Terminal` the widgets, which only
the event loop touches: `view` is a record and the operators on it are the
functions of `tui`. A key is one event, handled and then drawn. The wake key asks
for the delivery of the updates that were in the mailbox when it came; the
screen's queue may be full and drop it, and what fills the queue leads to a draw
that asks again. Callbacks run on the worker while the loop goes on;
`OthersChange` is a browser, a reload or a reached count.
The run may start with details open and with the save dialog over them, so two
keys are enough to reach a dialog over a dialog.

### Checkers and HopAnnotator

The loop of a check is followed from the wait for the address through
`runPeriodic` to the recorded result and its event; `watch` is the
goroutine of `closeOnCancel`, which may close a UDP socket under the read.
`outcome.shut` and `aborted` are history: whether the attempt ended because of
the shutdown. The two checkers share nothing, so a session has one of them. An HTTP
request that cannot be built is stored without asking for a cancellation (`NotBuilt`).

In `HopAnnotator` a reply reads what is known, records the hop and asks for a
lookup in three steps, as `discover` and `probe` do; a reset or a shorter route
clears the hop in between. A lookup takes a slot, asks for the origin, the
organisation and the name, and applies what it found. `PingerStops` takes the two steps of `Stop`: it closes
`done` and then cancels the context that cuts a query short; whether a query that
comes back is cached depends on `done` (`Noticed`), so on their order. Whether a retry is due is a
choice, and so is every answer.

## Runs

Each property is one promise; those of the newer modules are conjunctions of
named parts, listed here.

| run | instance | shows |
|---|---|---|
| `sup` | three targets of which one is there at the start, one caller, three commands, channel of two, three echo IDs, additions of up to two addresses, every monitor on, `--count` | the safety of the session under every order of commands, completions, a failing start and shutdown, with additions that run out of IDs halfway; the refinement of `Lifecycle` |
| `liveness` | one target and one to add, one caller, two commands, channel of one | every completion is noticed, every caller returns, shutdown ends |
| `worker` | a count of four in three sequence numbers, history of one, channel of one, one reset, one local failure, one duplicate | every probe is accounted for once, replies match their probes across a wraparound, the worker ends when all its probes are settled, and then it does end |
| `hop_probes` | four probes, two slots, three IDs, two TTLs, a channel of one, one duplicate | IDs are exclusive, listeners are registered in time and kept, answers are credited to the right hop, every probe returns |
| `route_joins` | two targets, one hop, one slot, three rounds between them | nothing is written into the table of a joined target; every round, `Stop` and `RemoveTarget` end (`EverythingEnds`) |
| `measures` | routes: one target, two hops, two routers, two slots, three rounds; health: four outcomes, windows of one and two seconds, a ring of three, three events, one reset or policy change; path MTU: two targets over five kinds of path, a size asked for below and one above the interface's, two faults each | no torn route is registered, the table fits the route, flaps are exactly the changes between whole rounds; `HealthIsExact` (down follows runs of losses and replies, recent counts, ring, extremes) and `EventsAreTrue` (folds are consecutive, the last status is told); `SizesAreSound` (never too large, confirmed sizes were echoed, the packet size fits and is below what was asked for only when the interface's is, the interval halves, exact without faults) |
| `reload` | two saves of either file, one browser edit, `--duration` | `SavesAreSeen`, `IterationsAreSound` (only validated documents, a current `tryLive`, a reason for every close signal, controls only over a living supervisor), the duration ends the run, a pending reload is applied |
| `stale_restart` | the same | finding 1 |
| `web_stream` | one stream, one write, one iteration and its end, one failed request | `SnapshotsAreTrue` (a tag never stands for more than its body, a completed stream shows the final state), `StreamsAreServed` (open streams catch up and never go back, a cut snapshot is replaced at the next change, closing ends) |
| `web_process` | two callers on each side of the lock, setuid root, two failures or deaths | `PrivilegesAreGuarded` (the installed IDs inside `Privileged` and outside sections, the user's inside a section), `WebProcessIsContained` (no privilege while serving, the backend outlives the frontend, nothing is left), `ProcessesSettle` |
| `terminal` | two targets and one to add, queues of one, two keys, one change from elsewhere, one dropped wake key | `StateIsConsistent` (the handler's state follows its operations, keys go where the user looks), `DialogNamesHighlighted`, `SessionSettles` (operations settle, the run ends) |
| `background` | one target with a TCP and a UDP port and an HTTP URL; one hop that two routers answer for, one lookup at a time | `RecordsAreReal` (a shutdown is no failure, changes are told, only a hop's own labels, no record without its organisation cached after a stop), `EndedIsQuiet` (a removed target and a closed annotator rest, nothing found is taken back), `ServicesSettle` (operations return, first results and known labels come, lookups end) |

Bounds. `MaxCommands` limits how many commands the callers issue, not how they
interleave: the shortest counterexamples of all mutants need at most three
(an edit between two other commands). Three targets are the least with which
an edit can add and a reload replace while another target stays. A channel of
one is the hardest case for blocking, two for reordering. Three echo IDs are
enough for a restart or for an addition, and run out in the middle of an
addition of two after a restart.
`SeqSpace = 3` with `Window = 2` is the smallest space in which a number is
reused while its neighbour is outstanding, and four probes come round to the first number.

Four probes over three IDs are the fewest with which an ID comes round again
while a probe from the first round still holds its own. Two hops are enough
for a route that grows, shrinks or changes in one place, three rounds for a
change and a return to it; one slot for two probes is the hardest case for
liveness, two slots for a torn round. `MaxRounds` is the total over the targets and
their runs.

Four outcomes reach down and recovery with thresholds of two, wrap a ring of three and drop
an event from a log of three; a gap of three seconds is longer than either window's
buckets. Two saves are what a save during the handling of another needs, and
they include one that asks for a restart and one that does not. One write
and one failure are enough for a body that is cut short, a tag that stays and the change that ends it. `Sizes` lie on both sides of `StartSize`. Two keys
and one outside change reach a dialog over a page whose target goes.
Two failures let the two steps of an undo fail. A single lookup slot with two
addresses makes one wait.

`CHECK_DEADLOCK FALSE` is used where the system really stops: the worker and the
hop probes end, a browser session, the web process and the terminal come to their end, a
checker that was stopped and an annotator that was closed do nothing more, and the
outcomes of `measures` run out. In the other runs deadlock is checked, and the
only state without another step is an explicit stutter at the end
(`Terminated`, `Over`).

Fairness. Goroutines that can run do run: weak fairness of the loop, the
observers, the main goroutine, and of the pinger's cancelled workers, whose
calls are bounded by contexts. Strong fairness where the Go runtime gives it:
a sender blocked on a channel is queued first come first served, so it is not
overtaken for ever, and a `select` picks uniformly among its ready cases, so
a case that is ready again and again is picked. The lock of the send socket, the slot
channels, the fetcher's mutex and the privilege lock are handed to their waiters
in turn, so waiting for them is strongly fair too; `ProbeHop` ends by its reply, its
timer or its context, and a cancelled target's loop does not pick its tickers
for ever. In `Reload` the UI obeys its close signal; in `WebStream` tickers
tick and `Shutdown` has a timeout; in `WebProcess` mping's steps and timers are taken, and the
child's once it is told to stop, but a child that starts may hang; in `Terminal` callbacks
return; in `Background` dials, reads and queries are bounded by timeouts. Nothing is assumed of the user,
of a host that may never resolve or answer, of files being saved, or of a worker reaching its count.

## Proofs

Every theorem holds for all values of the constants that satisfy the assumptions named
in its module, so for any number of targets, probes, streams or saves and any
bound. Each invariant was checked by TLC on the instance of its run, with its
strengthening, before it was proved.

| module | theorem | shows |
|---|---|---|
| `SupervisorProofs` | `TypeCorrect` | `TypeOK` |
| | `SocketsSafe` | `SocketsOutliveUsers` |
| | `QuietSession` | `QuietUnlessRunning` |
| | `MembershipFollows` | `MonitorsFollowTargets` |
| | `TruthfulFinish` | `FinishedIsTruthful` |
| | `FreshSnapshot` | `SnapshotIsFresh` |
| | `Refinement` | `Spec` implements `Lifecycle` |
| `WorkerProofs` | `TypeCorrect` | `TypeOK` |
| | `AccountedProbes` | `EveryProbeAccounted` |
| | `MatchedReplies` | `RepliesMatchTheirProbe` |
| | `SettledFinish` | `FinishesOnlyWhenSettled` |
| | `Refinement` | `Spec` implements `Accounting` |
| `HopProbeProofs` | `TypeCorrect` | `TypeOK` |
| | `ExclusiveIDs` | `IDsAreExclusive` |
| | `RegisteredListeners` | `ListenersAreRegistered` |
| | `OwnAnswers` | `AnswersAreOwn` |
| | `Refinement` | `Spec` implements `Probing` |
| `MeasuresProofs` | `WholeRoutes` | `RoutesAreWhole` |
| | `FittingTables` | `TableFitsRoute` |
| | `RestingTables` | `JoinedTablesRest` (action property) |
| | `TrueFlaps` | `FlapsAreRouteChanges` (action property) |
| | `ExactHealth` | `HealthIsExact` |
| | `TrueEvents` | `EventsAreTrue` |
| | `SoundSizes` | `SizesAreSound` |
| | `SoundMeasures` | all of the run `measures`, of `MeasuresSpec` |
| `ReloadProofs` | `SoundIterations` | `IterationsAreSound` |
| | `SeenSaves` | `SavesAreSeen` |
| `WebProofs` | `TrueSnapshots` | `SnapshotsAreTrue` |
| | `BrowsersGoForward` | `NeverGoesBack` (action property, part of `StreamsAreServed`) |
| | `PrivilegesGuarded` | `PrivilegesAreGuarded` |
| | `Contained` | `WebProcessIsContained` |
| `TerminalProofs` | `ConsistentState` | `StateIsConsistent` |
| | `NamedDialogs` | `DialogNamesHighlighted` (action property) |
| `BackgroundProofs` | `RealRecords` | `RecordsAreReal` |
| | `QuietEnds` | `EndedIsQuiet` (action property) |

What each rests on:

**Supervisor**, for every set of targets and callers, every channel and ID space.
`TypeOK` is not inductive. That a pinger's number stays within the echo IDs
needs the fact that a successful start takes at least one ID, which needs a
target list that is not empty during a start; and the handlers that run in
several steps need to know what the earlier step left. The strengthening is

* `Typed`: the types, and that pingers are numbered by at most the IDs used, the
  list is never empty, and an edit in progress holds sets of targets that make
  it so (`TargetsNeedIDs`, `OneIsLeft` are the counting lemmas);
* `Owned`: who holds what in every place of the loop: no pinger but the
  current one is live or stopping, the monitors are off while no measurement
  runs, a teardown has told the pinger to stop, and a worker that has not ended
  belongs to a pinger whose sockets are open.

`Typed /\ Owned` is proved inductive action by action (`StepTyped`, `StepOwned`),
the edit through `EditCases`, which reduces the code of the three
edits to the way they use the shared helper. The refinement maps the
session's state to `mode` and the pingers that hold sockets to `measuring`;
`OneMeasures` and `StateSteps` show that each step is a step of `Lifecycle` or a stutter.

The three properties of the list need more, added to the above:

* `Listed`: a listed target was handed out as an identity and no other was ever
  measured, so a target that an edit adds has no history to lie about;
* `Followed`: during an edit, the pinger has the targets the edit ends with
  (`Goal`: the old list when it fails), those it still has to drop and the one
  being joined, and the monitors have the targets of the list among these.
  The rollback of a partial addition is part of it;
* `Truthful`: a target reported finished has no active worker, also while the edit launches others;
* `SnapshotIsFresh` itself; with the others it makes up `Member`.

**HopProbe**, for every number of probes, slots, IDs and TTLs. `TypeOK`, `IDsAreExclusive` and
`ListenersAreRegistered` together are inductive: the third needs the second,
because registering and unregistering touch the entry of one ID, which must be nobody else's.

`AnswersAreOwn` needs that a reply in the network, in the receiver's hands or in a
channel was sent to the probe whose ID it carries (`RepliesAreGenuine`,
`ChannelsAreOwn`), that a channel is registered under its own probe's ID (`ListenersAreOwn`),
that the send lock is held from `SetTTL` to the write (`LockIsHeld`), and that an
ID does not return while a reply to its last user may still come. The last
is the argument `Rotates`: the allocator's pointer sweeps the ring of IDs; the
IDs it passed since it left the ID of probe `m` went to newer probes or were skipped
because one of fewer than `Slots` older probes held them (`Swept`). To come back
it must have passed all `IDSpace - 1` others, hence at least `IDSpace - Slots + 1`
probes were reserved since (`FullTurn`), by which time, under
`RotationAssumption`, no reply to `m` is left.

`Refinement` maps a call that holds an ID to an open call of `Probing`, its answer to the hop it
names. `ReserveBegins` needs `IDsAreExclusive`, `TakeReplyHears` needs `AnswersAreOwn` after the step and
that a probe that still waits has no answer (`AnswersEnd`). All other steps stutter (`GoesOn`).

**Worker**, for every count, window, ID space and history. `TypeOK` includes that the remembered probes are
distinct on the wire (`Distinct`); the lemmas about `RecordProbe` (append, evict the oldest)
and about numbers on the wire (`SameWire`: two probes with one number are at
least `SeqSpace` apart) carry the rest.

* `Tracked`: an outstanding probe is stored under its own number and lies less
  than `Window` sends back, so the number of a probe being sent is free;
* `RepliesAreRecent`, `Recorded`: a reply that may still arrive answers a probe
  that is outstanding, about to be, or was settled last among those of its number on the wire;
* `EndsSettled`: a worker that was not stopped leaves its loop with everything sent and nothing outstanding;
* `Accounted`: sent probes of the current window are received, lost, cancelled or outstanding;
  the outstanding ones are counted as a set, and each step changes that set by at most one element.

`Refinement` maps the table under wire numbers to the set of probes in it. `TrackedJoins` (a new
probe takes no other's place) and `SettledLeaves` (the probe that leaves is the only one like it)
rest on `Tracked`, the condition on discarding a probe and on ending on `EndsSettled`.
No run checks the refinements of `Accounting` and `Probing`, because the theorems cover every instance. With
`ImplementsAccounting` or `ImplementsProbing` as a `PROPERTY`, TLC agrees on the instances of `worker` and `hop_probes`.

**MtrEngine**, for every number of targets, hops, slots and rounds.

* `Joined`: a target has a goroutine only between a start and the return of the call
  that joins it, which gives `JoinedTablesRest`;
* `FanOutOf`: the goroutines of a fan-out live within its round, and only a cancellation
  ends one of them without an outcome. So a round that was not cancelled and comes to `Register`
  has an outcome for every hop;
* `LastRound`: outside a round the table is that of the last whole round, as long as
  that round's route, and within a discovery `prevIPs` still holds it. It gives
  `FlapsAreRouteChanges`, with the lemmas on what `Register` does to each entry.

That no more goroutines are in `ProbeHop` than there are slots is a second, independent
count (`SlotsOK`).

**Health**, for every number of outcomes and edits, every window, threshold, ring
and log size. It assumes that a lost probe has a reason that is not the empty text
(`ReasonAssumption`), as at every call of `OnFailure`; a recovery is told by the last reason. `HealthInv` says of each kind of incremental state what part of the
outcomes it stands for:

* `Runs`: the counters are the lengths of the runs the outcomes end with. A
  counter that reaches its threshold is a run that ends now (`RunLength`), which carries
  `DownFollowsRuns` over a step;
* `BucketsFollow`: a bucket holds the outcomes of its second, and no second
  since the last drop of the buckets was overwritten by an older one. That a bucket
  whose second lies in the window is the only one with its remainder
  (`NoMultipleBetween`: two seconds in one bucket are a cycle apart, and the cycle is longer than the window)
  makes the sums over the buckets the counts of the window (`WindowCounts`). A sum is
  stated as the size of a set of units, so that it needs no induction (`SumOfParts`);
* `RingFollows`: the sample of number `k` is in slot `k - 1` modulo the size while
  it is one of the last; `RingIsTail` then computes every trailing window;
* `ExtremesFollow`: minimum and maximum are reached by a reply and bound them all;
* `EventsFollow`: an event that may still be folded into has seen every reply and
  reset so far, and the last health event of this window names the status. After a
  reply or a reset no loss can be folded into (`Quiet`), which is why a recovery must be told
  before the reply counts.

**PathMTU**, for every number of destinations, workers and attempts, every path and any faults.

The size asked for is free: above the interface's the search has a single size and the interval is empty.

* `Interval`: the lower end passed, and `2^probes` times what is left is at most
  where it began;
* `LateEchoes`: an echo that is late was of a larger size than any the search may
  still choose, so taking it for the present probe's answer overestimates nothing;
* `Exact4`: without faults the only answer is that of the probe, and the upper end was
  refused by the hop that is remembered;
* `Attempt`: over IPv6 an answer is told from earlier ones by its number, so a confirmed size
  is one whose own echo came; `Exact6`: without faults each refused attempt gets a hop further,
  so the attempts suffice for a path of that many hops;
* `Apart`, `Chosen`: which discovery an address has in which phase, and that the packet size is
  chosen when the IPv4 searches are over.

`SoundMeasures` carries the results to `MeasuresSpec`, which the run explores: each
of its behaviours is one of each part (`PartsRun`).

**Reload**, for every number of saves and edits.

* `Ordered`: the hosts documents that are on disk, parsed, waiting, measured and configured are
  ordered by age, and every restart is for a newer one;
  so there are at most as many iterations as saves;
* `Owned`: between iterations there is no watcher, supervisor or duration watch, `tryLive`
  is that of the current iteration, and a close signal has a pending document or the elapsed duration behind it;
* `Validated`, `Requested`: what is measured, waits or is about to be stored passed validation; a
  request under way was made and belongs to no later iteration;
* `Noticed`: the directory of a watched file is watched, and its last save was read, precedes the watch, or has left an event or a running timer.

**WebStream**, for every number of streams, writes and iterations.

* `Counted`: the generation and the list trail the statistics by at most the write or edit in progress;
* `Versioned`: the state and the iteration determine the version of the source, so equal versions mean equal states;
* `Served`, `Delivered`: at each place a body passes (cache, relay, answer, fetch,
  stream) it holds at least what its tag stands for. This is where the order matters: the key is read before the body is built;
* `Final`: a final send begins when the source is at rest, so it returns that state or an error.

`BrowsersGoForward` adds an order: at each place, what was delivered is no later than
what may still come. A relayed request may replace the cached snapshot by one with an older key, so
tags in the cache do go back; what never does is the body, which is
rebuilt from newer data, and the key of the one request of the fetcher.

* `Reached`: a delivered tag and body are no later than the generation, the cached body, and
  the source, key and body that the request under way has read so far (`Flow` says how these grow);
* `Backed`: the cached body is no later than the statistics, the answer no later than the cache;
* `Ordered`: shown ≤ got ≤ fetched, except that a failed fetch leaves nothing to
  compare with: the fetcher forgets its tag, and the next answer is compared
  with `Reached` instead.

**Privilege and WebProcess**, for every number of callers, failing system calls,
deaths and crashes. `PrivilegesGuarded` assumes `OneBit`, that mping is not both setuid and
setgid; `Contained` has no such assumption.

The first needs to know what each caller has read before it had the lock. Under
`OneBit` the process only ever has the installed IDs or the user's (`Seen`), so a
caller that goes on to lock has read the installed ones, however the reads fell
between another's switches (`MixturesAreSeen`, `OtherIsInstalled`); at each place
of the section the invariant says which of the two IDs are back
(`HasAtPlaces`), and that the section itself has the user's. Without `OneBit` the property is false, see the remarks. The
second rests on what `mping` has set up and taken down at each place (`MpingOwns`)
and on the child having dropped everything before it listens.

**Terminal**, for every capacity of the queues, every number of keys, targets and changes by others.

* `Follows`: the stops and restarts that a queue holds are told by one word (`Tells`: none, a
  stop, a restart, or a stop and then a restart). The words of the mailbox, of the worker's
  operation and of the tasks, put together in this order (`Then`), are what the state of the keys waits
  for. Every hand-over is then a lemma about words: taking the head of a queue splits its word
  (`TailTells`), posting appends to it (`AppendTells`), and `Then` is associative (`Associates`),
  so an operation that moves from the tasks to the mailbox leaves the whole word as it was;
* `Seen`: what `KeysGoWhereShown` says is not inductive, since closing a dialog gives the
  focus back to what was below. Each dialog remembers a focus that is right for
  the page under it, or the text of details that were closed since (`Orphaned`), which `restoreFocus`
  corrects; the save dialog and the access dialog are never open together;
* `Leaves`: a session that is over has left its loop, so nothing is delivered to it.

**Background**, for every number of targets, addresses, hops and concurrent lookups. The services share no state, so
every step keeps the other's invariant.

* `Joins`: no loop runs for a target that was not started or was removed, and none once `Wait` has returned;
* `Interruptions`: an attempt that the shutdown ended belongs to a cancelled loop and is judged
  a failure, which the loop then discards. This is `ShutdownIsNoFailure` carried through the places of `runPeriodic`;
* `Rounds`: a reply under way carries no label but its own address', and none is under way after `Close`;
* `Lookups`: a lookup is registered from its start to its end, and a closed annotator has none.

**Only checked by TLC.**

* The liveness properties (`EverythingEnds`, `StreamsAreServed` but for `NeverGoesBack`, `ProcessesSettle`,
  `SessionSettles`, `ServicesSettle` and those of the runs `liveness`, `worker`,
  `hop_probes` and `reload`): liveness under fairness is out of this prover's reach.

## Findings

1. `stale_restart`: a save that needs a restart waits in `rc.pending` until the UI
   has closed. A save handled before that which can be applied live is
   announced as "Configuration reloaded; existing target measurements retained."
   (`reload_coordinator.go:90`) and leaves the older document pending, so the
   restart measures by the older document until the file is saved again.

Remarks. Smaller things the models made visible, which break no property here:

* a restart that tears down and then fails to start leaves the targets'
  measurement state at "running" in a stopped session (`supervisor.go:235`,
  against `README.md:338`);
* an observer between its check of `done` and its send can enqueue after shutdown,
  which `supervisor.go:368` rules out; nobody takes the command;
* failing sends use up sequence numbers without evicting settled ones, so a
  number can be reused while its previous use is remembered, against
  `pinger.go:51`; the outstanding probe is consulted first (`RepliesMatchTheirProbe`);
* a browser edit that passed its state check while the list was captured is
  acknowledged and lost (`run_session.go:222`);
* a fetched snapshot that was cut short is kept with its tag (`frontend.go:92`), so the polls that
  follow are answered "not modified": the cut body is sent, and stands until the tag changes. The comment on `handleStream`
  says "A failed fetch is retried on the next poll rather than ending the stream." (`stream.go:42`); this
  failed read is not. `StreamsCatchUp` therefore promises the latest tag with all its
  statistics but not a whole body, and `CutsAreReplaced` what the code does promise: a cut body
  is replaced once anything changed. After the last change it stays, so a stream that ended may have a cut final snapshot;
* with `-m` and a size above what the interface takes (`-s 9000` at an MTU of 1500) the session pings with the
  interface's size, below what was asked for (`pmtu.go:48`, `startup_probes.go:102`);
* `DropTo` does not ask for the saved group ID, which an unprivileged `setgid` leaves as it was; that matters only
  when mping is setgid without being setuid;
* a caller of `AsRealUser` that reads the user's IDs runs its function without the lock (`privilege.go:53`);
  that it keeps them while it runs is no property;
* the generation moves before the list is published (`live_targets.go:36`), so
  a stream may wait for the next change to show an edit; `SnapshotsAreTrue` is about the statistics, and of the
  list only its order is stated (`NeverGoesBack`);
* a save between the startup parse and the first watch is not seen, nor is an
  include that appears in another directory between the parse and `refresh`;
* a change during the teardown is logged as a reload error, since the supervisor
  no longer answers;
* `AsRealUser` reads the IDs before it has the lock (`privilege.go:51`). In an
  installation both setuid and setgid a caller can read them while another is
  between its two calls, and later restore only one of the two
  (`PrivilegesGuarded` therefore assumes `OneBit`);
* mping killed before the child reports leaves the private directory;
* after a late refusal the IPv4 path MTU may be too small, and a probe that the
  deadline cuts short counts as failing;
* after `Reset` the first status is not told as a change.

## Plan

Modelled in this order: supervisor, worker, hop probes, routes; then health, path
MTU, reload, web state, web process and privilege, terminal, checkers and
annotations. Proved in this order: supervisor, hop probes, web process, routes, worker,
web state, reload, checkers and annotations, path MTU, health, terminal.

Abstract specifications: `Lifecycle`, `Probing` and `Accounting` are stated and their
refinements proved. Two more are worth stating: a register with a final value (for `WebStream`) and
a route that is replaced as a whole (for `MtrEngine`); `Served` and `Ordered`, and `LastRound`, are
their refinement invariants.

## Not modelled

* Parsing and expansion of host files, flags, configuration and completion: sequential work on
  an immutable input, before anything runs. `Reload` takes its verdict as
  `Acceptable`.
* Reports and exports: the text of a file, with no state but a free name.
* The browser's scripts and the terminal's layout: display of what `WebStream` and
  `Terminal` deliver. Panes, columns, sorting and filters are display settings.
* Packet parsing, checksums, time stamps and socket options of the platforms.
* Jitter; round-trip times outside `Health`; retry intervals of lookups.
* Duplicated answers to path MTU probes. Setgid installations are covered by the
  proofs and not by the run of `WebProcess` (`SetGid` is a constant of the module).
